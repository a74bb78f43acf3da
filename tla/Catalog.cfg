\* Two threads in create_table and one in list_tables, three names: enough for
\* a creator to lose the race, retry, and lose it again.
CONSTANTS
  Absent = Absent
  Unwritten = Unwritten
  EmptyName = EmptyName
  Creators = {c1, c2}
  Listers = {l1}
  Names = {n1, n2, n3}
  Pks = {}
  IdSpace = 4
  Schemas = {good, bad}
  ValidSchemas = {good}
SPECIFICATION Spec
INVARIANTS TypeOK CatalogConsistent AckedTablesSurvive ListingComplete CatalogInv
PROPERTIES TablesNeverChange ImplementsRegistry
