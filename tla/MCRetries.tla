----------------------------- MODULE MCRetries ------------------------------
(* BankTransfers for TLC: three threads whose transfers overlap in a ring  *)
(* of three accounts, beside two creators with a table each.               *)
EXTENDS BankTransfers

CONSTANTS thr1, thr2, thr3, acc1, acc2, acc3, c1, c2, accounts, n1, n2

MCThreads  == {thr1, thr2, thr3}
MCPks      == {acc1, acc2, acc3}
MCCreators == {c1, c2}
MCNames    == {accounts, n1, n2}

Job(from, to, amount) == [from |-> from, to |-> to, amount |-> amount]

MCJobs == [t \in MCThreads |->
  CASE t = thr1 -> <<Job(acc1, acc2, 1), Job(acc2, acc3, 2)>>
    [] t = thr2 -> <<Job(acc2, acc3, 4), Job(acc3, acc1, 8)>>
    [] t = thr3 -> <<Job(acc3, acc1, 16)>>]

MCWanted == [c \in MCCreators |-> IF c = c1 THEN n1 ELSE n2]
=============================================================================
