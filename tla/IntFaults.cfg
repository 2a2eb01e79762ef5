SPECIFICATION FairSpec
CONSTANTS
  Fail = {"gate", "code", "tss", "stack", "push"}
  Raised = {"PF", "GP"}
  Sources = {"timer", "fdc"}
  Guest = {"io", "user", "flags", "trap", "stack", "far"}
  ChkLimit = 1
  TxPeriod = 1
INVARIANT StopsOnlyOnRequest
PROPERTIES NoSilentFault SigintStops FdcIrqKept TickAccounted StackNotTorn FaultIsPrecise RestartSafe
CHECK_DEADLOCK FALSE
