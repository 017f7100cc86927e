SPECIFICATION FairSpec
CONSTANTS
  Capacity = 1024
  LinkReserve = 12
  LinkLength = 9
  JumpLength = 17
  MaxLength = 17
  UninitLink <- NoId
  Names <- AllIds
  UserNames <- A
  IndexRange = 16
  UninitIndex <- Zero
  Constructs <- Loops
  Ints <- Two
  BinaryOps <- OneOp
  Variables <- A
  Functions <- None
  Parameters <- NoParameters
  MaxNodes = 7
  Recording = FALSE
  IntHalf = 4
  Garbage <- NullOnly
  MaxStack = 6
  MaxFrames = 2
  MaxRounds = 8
INVARIANTS
  TypeOK
PROPERTIES
  StatementsLeaveNoValues
  Terminates
CHECK_DEADLOCK FALSE
