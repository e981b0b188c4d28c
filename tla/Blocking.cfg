SPECIFICATION MCSpec
CONSTANTS
    a = a
    b = b
    c = c
    d = d
    Threads = {a, b, c, d}
    Timed = {c}
    NoOwner = NoOwner
    SpinMin = 1
    SpinMax = 3
    SpinFloor <- Floor
INVARIANTS
    OwnershipAccounted
    ChainIsWaiters
    CountsHolders
    NobodyStranded
    DeliveredOnceInOrder
PROPERTIES
    RefinesFifo
    LockAcquired
    WriterServed
    
