\* Two threads fill the first word of descriptors.
SPECIFICATION Spec
CONSTANTS
    Threads = {"t1", "t2"}
    Main = "t1"
    Words = 2
    Bits = 4
    MaxFiles = 3
    Overwrites = FALSE
CHECK_DEADLOCK FALSE
INVARIANTS
    AllocFindsFree
