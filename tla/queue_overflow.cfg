CONSTANTS
    x = x
    y = y
    Size = 2
    Items = {x, y}
SPECIFICATION Spec
INVARIANT OverflowMeansFull
\* A crash ends the process.
CHECK_DEADLOCK FALSE
