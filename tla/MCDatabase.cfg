\* Two clients, two tables that a creator makes meanwhile, one row in each.
CONSTANTS
  p = p
  q = q
  a = a
  b = b
  Absent = Absent
  Unwritten = Unwritten
  EmptyName = EmptyName
  Creators = {c1}
  Listers = {}
  Names = {a, b}
  Pks = {k}
  IdSpace = 3
  Schemas = {s}
  ValidSchemas = {s}
  Clients = {p, q}
  Rows = {v}
  MaxCommits = 3
SPECIFICATION DbSpec
SYMMETRY Symmetry
INVARIANTS DbTypeOK NoOrphanRows ConflictsAreAttributed
PROPERTY ImplementsSnapshots
