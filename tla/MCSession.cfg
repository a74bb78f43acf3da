\* Two sessions, one table, two primary keys, integers -2..1.
CONSTANTS
  s1 = s1
  s2 = s2
  Absent = Absent
  Unwritten = Unwritten
  EmptyName = EmptyName
  Creators = {s1, s2}
  Clients = {s1, s2}
  Listers = {}
  Names = {t}
  IdSpace = 2
  MaxInt = 1
  MaxHeight = 2
  Pks <- MCPks
  Rows <- MCRows
  Schemas <- MCSchemas
  ValidSchemas <- MCSchemas
  Statements <- MCStatements
  Effect <- MCEffect
  RowFits <- MCRowFits
  Answers <- MCRows
  MaxCommits = 3
  MaxStatements = 2
SPECIFICATION SessionSpec
SYMMETRY SessionSymmetry
VIEW SessionView
INVARIANTS SessionTypeOK CommittedRowsAreDue CommitsSerialize NeverWedged
