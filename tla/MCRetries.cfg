\* The amounts are powers of two, so that no two sets of transfers have the
\* same effect.  The run ends when every loop has.
CONSTANTS
  thr1 = thr1
  thr2 = thr2
  acc1 = acc1
  acc2 = acc2
  acc3 = acc3
  c1 = c1
  c2 = c2
  thr3 = thr3
  accounts = accounts
  n1 = n1
  n2 = n2
  Absent = Absent
  Unwritten = Unwritten
  EmptyName = EmptyName
  IdSpace = 4
  Initial = 100
  Schemas = {good}
  ValidSchemas = {good}
  Listers = {}
  Names <- MCNames
  AccountsTable = accounts
  Creators <- MCCreators
  Wanted <- MCWanted
  Threads <- MCThreads
  Pks <- MCPks
  Jobs <- MCJobs
SPECIFICATION BankSpec
INVARIANTS NoTransferLost SnapshotsConserveMoney
PROPERTIES EveryTransferSucceeds EveryRetrySucceeds
CHECK_DEADLOCK FALSE
