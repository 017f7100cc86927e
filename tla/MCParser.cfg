SPECIFICATION FairSpec
CONSTANTS
  Sources <- MCSources
  Operands <- MCOperands
  Binary <- MCBinary
  Unary <- MCUnary
  MaxOperators = 3
  MaxNesting = 2
  Misread <- Nothing
INVARIANTS
  TypeOK
  ParsesAsWritten
  NothingLostSilently
  BracketsMatch
PROPERTIES
  StopsUnlessStray
CHECK_DEADLOCK FALSE
