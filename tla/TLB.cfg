SPECIFICATION MCSpec
CONSTANTS
  Spaces = {s1, s2}
  Dirs = {0}
  Idxs = {0, 1, 2}
  Tables = {t1}
  Frames = {f1, f2}
  PTEWrites <- MCPTEs
  PDEWrites <- MCPDEs
  MaxSeen = 3
  NASOC = 2
  NoPTE = NoPTE
  Page0 <- MCPage0
INVARIANTS Coherent
PROPERTIES WritesAreRecorded ImplementsPaging ExactWhenUndisturbed FaultLeavesNoTrace
