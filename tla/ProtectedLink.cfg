SPECIFICATION Spec
CONSTANTS
    tA = tA
    tB = tB
    Tasks <- MCTasks
    None = None
    Boot = tA
    VmTasks <- MCVmTasks
    Guests = {{"call"}}
    MaxWords = 10
    Values = {0, 1}
INVARIANT LinkNamesCaller
CHECK_DEADLOCK FALSE
