\* A thread that has logged its write is done.
CONSTANTS
  t1 = t1
  t2 = t2
  row = row
  one = one
  two = two
  Absent = Absent
  Unwritten = Unwritten
  Names = {}
  IdSpace = 1
  Threads <- MCThreads
  Pks <- MCPks
  Job <- MCJob
SPECIFICATION LogSpec
INVARIANT LogIsInCommitOrder
CHECK_DEADLOCK FALSE
