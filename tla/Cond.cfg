\* The deadlock of a timed-out waiter with its notifier is the run cond_timed.
SPECIFICATION TimedFairSpec
CONSTANTS
    w1 = w1
    w2 = w2
    w3 = w3
    n1 = n1
    n2 = n2
    Waiters = {w1, w2, w3}
    Notifiers = {n1, n2}
    Timed = {w1}
    Wakes <- OneAndTwo
    Credits = 2
CHECK_DEADLOCK FALSE
INVARIANTS
    NoLostWakeup
    ChainIsSleepers
PROPERTIES
    WaitersServed
