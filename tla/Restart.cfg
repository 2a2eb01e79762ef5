SPECIFICATION Spec
CONSTANTS
  Instrs = {"ADD_mem", "ADC_reg", "INC", "XCHG", "PUSH", "POP", "PUSHA", "POPA", "ENTER", "LEAVE", "LES", "MOV_word", "REP_MOVS", "REP_STOS", "REP_LODS", "REPE_CMPS", "REPNE_SCAS", "REP_OUTS"}
  Size = 8
  EA = 3
  MaxFaults = 2
  InitRegs <- MCRegs
  InitMems <- MCMems
INVARIANTS Transparent
CHECK_DEADLOCK FALSE
