CONSTANTS
  a = a
  b = b
  Char <- MCChar
  STRING_POOL_SIZE = 12
  TUPLE_POOL_SIZE = 3
  HEAP_SIZE = 4
  WORD = 64
  Texts <- MCTexts
  Ints = {1}
  AtomConsts = {"nil"}
  Arities = {1, 2}
  Patterns <- MCPatterns
  Matches <- MCMatches
  DisciplinedLists = TRUE
  MaxBindings = 4
  MatchSteps = 4
SPECIFICATION SpecOfFamilies
INVARIANTS NoStaleData StringsIntact
PROPERTY ImplementsElixir
