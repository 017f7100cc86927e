SPECIFICATION Spec
CONSTANTS
  Sources <- MCTexts
  Operands <- MCOperands
  Binary <- MCBinary
  Unary <- MCUnary
  MaxOperators = 2
  MaxNesting = 1
  Misread <- Minus
INVARIANT
  ParsesAsWritten
CHECK_DEADLOCK FALSE
