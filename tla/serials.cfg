CONSTANTS
    Servers = {0, 1}
    Threads = {0, 1}
    FieldRange = 2
    IdRange = 2
    Seconds = {0, 1}
    MaxCalls = 3
SPECIFICATION Spec
\* Every generator stops after MaxCalls.
CHECK_DEADLOCK FALSE
INVARIANTS TypeOK GeneratorsDisjoint RepeatsExplained
