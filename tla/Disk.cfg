SPECIFICATION Spec
CONSTANTS
    Drives <- MCDrives
    Mounted <- MCDrives
    ReadOnly <- MCReadOnly
    MemSize = 7
    Values <- MCValues
    Zero <- MCZero
    Junk <- MCJunk
    Blank <- MCBlank
    FHeads = 2
    FSpt = 2
    Mbr <- MCMbr
    DefaultSpt = 63
    Cylinders = 2
    Paged = TRUE
    Made <- MCMade
    Lbas = {4}
    Numbers <- MCNumbers
    Counts = {0, 2}
    CallPlaces <- MCCallPlaces
    Buffers = {2}
    MaxWrites = 2
    NHead = 2
    NSector = 2
    Base = 2
    ReadPlaces <- MCReadPlaces
    SeekCylinders = {1}
    FdcBuffers = {5}
    InitialImages <- MCInitialImages
    None = None
    Mixed = FALSE
INVARIANTS InStep IrqExact CallExact ReadDelivers
PROPERTY ImplementsSectorDisk
