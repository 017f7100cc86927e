SPECIFICATION Spec
CONSTANTS
  Names <- MCNames
  UninitIndex <- MCUninit
  Arities <- MCArities
  IndexRange = 6
  LevelRange = 2
  MaxScopes = 3
INVARIANTS
  TypeOK
  VisibleRegistersDistinct
  LookupIsDeterminate
PROPERTIES
  EnclosingScopesFrozen
  ImplementsAllocation
CHECK_DEADLOCK FALSE
