SPECIFICATION Spec
CONSTANTS
    f = f
    g = g
    Never = Never
    Funcs = {f, g}
    Delays = {1, 2}
    Jumps <- MCJumps
    Second = 2
    Tolerance = 1
    MaxEntries = 2
    MaxUptime = 3
    MaxJumps = 2
INVARIANTS Sorted Kept WakesInTime
PROPERTIES NeverEarly NoneOverdue
CHECK_DEADLOCK FALSE
