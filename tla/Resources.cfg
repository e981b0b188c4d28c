\* A component may stop: out of descriptors or memory, a failed assertion, all asleep.
SPECIFICATION Spec
CHECK_DEADLOCK FALSE
INVARIANTS
    Exclusion
    SleeperIsFound
    TablesExact
    PagesConserved
    BytesInOrder
    NobodySleepsThrough
    
    StaleIsPromised
