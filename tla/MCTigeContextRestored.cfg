SPECIFICATION Spec
CONSTANTS
  Capacity = 1024
  LinkReserve = 12
  LinkLength = 9
  JumpLength = 17
  MaxLength = 17
  UninitLink <- NoId
  Names <- AllIds
  UserNames <- UserIds
  IndexRange = 16
  UninitIndex <- Zero
  Constructs <- Returns
  Ints <- One
  BinaryOps <- OneOp
  Variables <- A
  Functions <- F
  Parameters <- NoParameters
  MaxNodes = 7
  Recording = FALSE
  IntHalf = 4
  Garbage <- NullOnly
  MaxStack = 6
  MaxFrames = 2
  MaxRounds = 8
PROPERTY
  ContextRestored
CHECK_DEADLOCK FALSE
