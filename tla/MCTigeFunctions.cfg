SPECIFICATION Spec
CONSTANTS
  Capacity = 50
  LinkReserve = 12
  LinkLength = 9
  JumpLength = 17
  MaxLength = 17
  UninitLink <- LuckyId
  Names <- AllIds
  UserNames <- AF
  IndexRange = 16
  UninitIndex <- Zero
  Constructs <- WithCalls
  Ints <- One
  BinaryOps <- OneOp
  Variables <- AF
  Functions <- F
  Parameters <- NoParameters
  MaxNodes = 6
  Recording = FALSE
  IntHalf = 4
  Garbage <- NullOnly
  MaxStack = 6
  MaxFrames = 3
  MaxRounds = 8
INVARIANTS
  StaysOnInstructions
  FramesReturnAfterCalls
PROPERTIES
  StatementsLeaveNoValues
CHECK_DEADLOCK FALSE
