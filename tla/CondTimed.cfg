SPECIFICATION TimedFairSpec
CONSTANTS
    w1 = w1
    w2 = w2
    w3 = w3
    n1 = n1
    n2 = n2
    Waiters = {w1}
    Notifiers = {n1}
    Timed = {w1}
    Wakes <- Single
    Credits = 1
CHECK_DEADLOCK FALSE
PROPERTY
    TimedWaitReturns
