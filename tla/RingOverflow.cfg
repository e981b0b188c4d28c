SPECIFICATION Spec
CONSTANTS
    p1 = p1
    p2 = p2
    Producers = {p1, p2}
    Slots <- RingSz
    Buffer <- BufferSz
    Sleepers = 6
    Pending = 6
INVARIANTS
    DrainFitsBuffer
