\* Four tickets for three threads: the ticket counter wraps all the time.
SPECIFICATION MCSpec
CONSTANTS
    t1 = t1
    t2 = t2
    t3 = t3
    Threads <- MCThreads
    Width = 3
INVARIANTS
    
    NoSelfDeadlock
    SharesExact
PROPERTIES
    RefinesFifo
    Starvation
    LockReleased
