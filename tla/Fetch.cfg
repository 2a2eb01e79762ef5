\* A program ends where memory is not code, or an instruction unknown.
SPECIFICATION Spec
CONSTANTS
  N = 48
  Half = 16
  Page = 8
  Handler = 39
  KernelPages <- MCKernelPages
  Programs <- MCPrograms
  Patches <- MCPatches
PROPERTY FetchExact
CHECK_DEADLOCK FALSE
