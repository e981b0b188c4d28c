SPECIFICATION TimedSpec
CONSTANTS
    a = a
    b = b
    c = c
    d = d
    Threads = {a, b}
    Timed = {b}
    NoOwner = NoOwner
    SpinMin = 1
    SpinMax = 3
    SpinFloor <- Floor
INVARIANT
    ChainIsWaiters
