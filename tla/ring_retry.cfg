CONSTANTS
    Capacity = 4
    Bytes = {0}
SPECIFICATION Spec
INVARIANT DrainedAccepts
