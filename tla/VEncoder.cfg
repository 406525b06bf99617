SPECIFICATION Spec
CONSTANTS
  Bodies <- TwoInDecimal
  Decimal = 2
  Hexadecimal = 3
  MaxReadSize = 4
INVARIANTS EncodesChunked
CHECK_DEADLOCK FALSE
