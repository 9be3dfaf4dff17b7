SPECIFICATION FairSpec
CONSTANTS
    MaxSlots = 1
    MaxClaims = 2
    MaxFailures = 1
    Outcomes = {"waiting"}
    Failures = {"charged"}
    MaxSteers = 1
    MaxFaults = 1
    MaxInbox = 1
INVARIANTS
    TypeOK
    SlotsExact
    OneExecution
    TriggerIsHead
PROPERTIES
    StartsOnce
    AttemptMoves
CHECK_DEADLOCK FALSE
