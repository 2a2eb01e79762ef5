SPECIFICATION Spec
CONSTANTS
  Host = 15
  CountMask = 15
  Byte = 8
  Widths = {5, 8, 15}
  Word = 5
  Double = 0
  Chosen = {"compare"}
INVARIANTS SignedCompareDecides
CHECK_DEADLOCK FALSE
