\* All requests complete in the end, and then the system stops.
SPECIFICATION Spec
CHECK_DEADLOCK FALSE
INVARIANTS
    CompletedExactly
    NothingIsLost
    BarrierCovers

    
