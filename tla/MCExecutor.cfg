\* Two-bit integers; statements name the keys -1, 0 and 1.
CONSTANTS
  MaxInt = 1
  MaxHeight = 3
  TableSchema <- MCSchema
  Statements <- MCStatements
SPECIFICATION Spec
INVARIANTS
  RowsFitSchema
  LookupSkipsWork
  ErrorsIgnoreRows
  RowsChangeOnce
  AssignmentsCommute
  SelectsAreOrdered
