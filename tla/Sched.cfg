SPECIFICATION FairSpec
CONSTANTS
    c1 = c1
    c2 = c2
    t1 = t1
    t2 = t2
    CPUs = {c1, c2}
    Threads = {t1, t2}
    home <- OneCpu
    Timed = {}
    SleepIrqOff = TRUE
    ThreadWakes = TRUE
    Joins = TRUE
INVARIANTS
    ListsMatchStates
    StackInUseIsBusy
    AssertsHold
    DeferredWhileLocked
    WakeNotLost
PROPERTIES
    WakeArrives
