SPECIFICATION Spec
CONSTANTS
  Capacity = 7
  LinkReserve = 3
  LinkLength = 2
  JumpLength = 4
  MaxLength = 4
  UninitLink <- MCLuckyId
  Plain <- MCPlain
  ForwardJumps <- MCForwardJumps
  MaxChunks = 4
  MaxPending = 2
INVARIANTS
  TypeOK
  LinkedChunksFit
  InstructionsTileChunks
  JumpsLandOnInstructions
  LinksContinueTheirStream
  FunctionStartTerminates
PROPERTIES
  OtherStreamsFrozen
  ImplementsStreams
CHECK_DEADLOCK FALSE
