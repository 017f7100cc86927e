SPECIFICATION FairSpec
CONSTANTS
  Sources <- MCSources
  Letters <- MCLetters
  Digits <- MCDigits
  Keywords <- MCKeywords
  InitialCapacity = 2
INVARIANTS
  TypeOK
  LongestTokens
  NothingSkipped
  ReportedWhereTheyBegin
PROPERTIES
  LexingEnds
CHECK_DEADLOCK FALSE
