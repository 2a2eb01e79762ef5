SPECIFICATION Spec
CONSTANTS
  Instrs = {"ADC_mem"}
  Size = 8
  EA = 3
  MaxFaults = 2
  InitRegs <- MCRegs
  InitMems <- MCMems
INVARIANTS Transparent
CHECK_DEADLOCK FALSE
