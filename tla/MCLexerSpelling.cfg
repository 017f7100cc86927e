SPECIFICATION Spec
CONSTANTS
  Sources <- Negations
  Letters <- MCLetters
  Digits <- MCDigits
  Keywords <- MCKeywords
  InitialCapacity = 2
INVARIANTS
  OperatorsTakeTheirSpelling
CHECK_DEADLOCK FALSE
