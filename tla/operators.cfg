CONSTANTS
  INT_MAX = 3
  LONG_MAX = 31
  Inputs <- AllInts
  StaticTypes = {"int", "any"}
  Operators = {"+", "-", "*", "/", "==", ">", "<"}
  MaxValues = 4
SPECIFICATION SpecOfFamilies
INVARIANTS Agrees BranchesAgree TypingIsTransparent
PROPERTY RaisesOnlyOutOfRange
