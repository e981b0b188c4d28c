\* Three threads that use mcslock_lock, mcslock_try_lock and mcslock_unlock.
\* The machine may stop in the assertion of mcslock_lock.
SPECIFICATION FairSpec
CONSTANTS
    t1 = t1
    t2 = t2
    t3 = t3
    Null = Null
    Threads <- MCThreads
    TryLockers <- MCThreads
CHECK_DEADLOCK FALSE
INVARIANTS
    MutualExclusion
    NoDanglingEntry
PROPERTIES
    RefinesFifo
    Starvation
