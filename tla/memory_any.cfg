CONSTANTS
  a = a
  b = b
  Char <- MCChar
  STRING_POOL_SIZE = 12
  TUPLE_POOL_SIZE = 3
  HEAP_SIZE = 3
  WORD = 64
  Texts <- LongText
  Ints <- MCInts
  AtomConsts = {}
  Arities = {1, 2}
  Patterns <- AnyPatterns
  Matches <- AnyMatches
  DisciplinedLists = FALSE
  MaxBindings = 3
SPECIFICATION Spec
INVARIANTS TypeOK PoolBounds
PROPERTY WriteOnce
