SPECIFICATION Spec
CONSTANTS
  Capacity = 1024
  LinkReserve = 12
  LinkLength = 9
  JumpLength = 17
  MaxLength = 17
  UninitLink <- NoId
  Names <- AllIds
  UserNames <- AB
  IndexRange = 16
  UninitIndex <- Zero
  Constructs <- Operators
  Ints <- Two
  BinaryOps <- AllOps
  Variables <- AB
  Functions <- None
  Parameters <- NoParameters
  MaxNodes = 10
  Recording = TRUE
  IntHalf = 4
  Garbage <- NullOrInt
  MaxStack = 6
  MaxFrames = 2
  MaxRounds = 8
INVARIANTS
  OperandsPresent
  DoesWhatIsWritten
CONSTRAINT SmallOrSimple
CHECK_DEADLOCK FALSE
