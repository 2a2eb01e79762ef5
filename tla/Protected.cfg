SPECIFICATION Spec
CONSTANTS
    tA = tA
    tB = tB
    Tasks <- MCTasks
    None = None
    Boot = tA
    VmTasks <- MCVmTasks
    Guests <- MCGuests
    MaxWords = 10
    Values = {0, 1}
INVARIANTS CachesAgree OneBusy
PROPERTY ImplementsContextStacks
CHECK_DEADLOCK FALSE
