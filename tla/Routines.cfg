SPECIFICATION Spec
CONSTANTS
  Host = 15
  CountMask = 15
  Byte = 8
  Widths = {3, 5, 8, 15}
  Word = 5
  Double = 3
  Chosen = {"sum", "difference", "negate", "compare", "decimal_sum", "decimal_difference",
            "unpacked_difference", "radix", "multiply_divide", "divide", "signed_divide",
            "extend_divide", "short_product", "shl", "shr", "sar", "rotate", "long_division",
            "repeated_sum", "shift_and_add", "count_to", "leading_one", "absolute", "minimum",
            "sign"}
INVARIANTS SumsExact CompareDecides ProductsExact ShiftsExact ProgramsExact
CHECK_DEADLOCK FALSE
