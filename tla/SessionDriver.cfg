SPECIFICATION FairSpec
CONSTANTS
    a = a
    Drivers = {1, 2}
    Inputs = {1, 2}
    Kinds <- TaskThenUrgent
    Calls = {a}
    MaxAttempts = 2
    MaxResponses = 2
    MaxFaults = 1
    MaxLosses = 1
INVARIANTS
    TypeOK
    OnceWhileKept
    JournalTruthful
    CurrentViewExact
PROPERTIES
    NoSilentEnd
    InputsEnd
CHECK_DEADLOCK FALSE
