\* Three-bit integers.  Expressions end at the given depth.
CONSTANTS
  MaxInt = 3
  MaxHeight = 3
  Names = {"n", "b", "nowhere"}
  Numerals = {"0", "1"}
  Texts = {"'x'"}
  ValueOf <- MCValueOf
  Depth = 2
  Roots <- MCRoots
  Partners <- MCPartners
  ExprSchema <- MCSchema
  ExprRows <- MCRows
  Name = "n"
  Other = "b"
  Number = "1"
  Foreign = {"n", "1", "NOT", "IS", "(", ")", ",", ";", "LIMIT", "SELECT"}
SPECIFICATION ExprSpec
INVARIANTS RenderedTextsParseBack PrecedenceIsAsDocumented RejectionIsFinal
INVARIANTS TypesAreSound WhereSplitsInThree
CHECK_DEADLOCK FALSE
