CONSTANTS
    Modulus = 64
    Scales = {1, 2, 4}
    MaxTime = 6
SPECIFICATION Spec
INVARIANT RunningShowsNow
