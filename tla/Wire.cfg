CONSTANTS
    W16 = 1
    W32 = 2
    W64 = 3
    MinRead = 16
    MaxBehind = 20
    Streams <- MCStreams
SPECIFICATION WireSpec
INVARIANTS
    FramesArriveIntact
    
    
PROPERTY AllFramesArrive
CHECK_DEADLOCK FALSE
