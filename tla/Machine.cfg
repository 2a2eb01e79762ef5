SPECIFICATION MachineSpec
CONSTANTS
  Fail = {}
  Raised = {"PF"}
  Sources = {"timer", "uart"}
  Guest = {"io", "flags", "unknown", "stop"}
  ChkLimit = 1
  TxPeriod = 2
  Base = 2
  Bytes <- MCBytes
  ByteOr <- MCByteOr
  Guests16 <- MCGuests16
  MaxUnseen = 2
  MaxFrames = 1
INVARIANT Programmed
PROPERTIES TimerServed TickServed16 MonitorOpens
CHECK_DEADLOCK FALSE
