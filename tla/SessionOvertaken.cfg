SPECIFICATION Spec
CONSTANTS
    a = a
    Drivers = {1}
    Inputs = {1, 2}
    Kinds <- TaskThenUrgent
    Calls = {a}
    MaxAttempts = 2
    MaxResponses = 2
    MaxFaults = 1
    MaxLosses = 1
INVARIANTS
    EffectsOnce
CHECK_DEADLOCK FALSE
