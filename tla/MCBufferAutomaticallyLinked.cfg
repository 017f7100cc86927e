SPECIFICATION Spec
CONSTANTS
  Capacity = 7
  LinkReserve = 3
  LinkLength = 2
  JumpLength = 4
  MaxLength = 4
  UninitLink <- MCNoId
  Plain <- MCPlain
  ForwardJumps <- MCForwardJumps
  MaxChunks = 4
  MaxPending = 1
INVARIANT
  AutomaticallyLinked
CHECK_DEADLOCK FALSE
