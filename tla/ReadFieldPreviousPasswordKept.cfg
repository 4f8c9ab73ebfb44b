SPECIFICATION Spec
CONSTANTS
  Chars = {a, b}
  Nul = Nul
  Min = 2
  Max = 4
  MaskLength = 3
CHECK_DEADLOCK FALSE
INVARIANT PreviousPasswordKept
