---------------------------- MODULE BankTransfers ---------------------------
(***************************************************************************)
(* The closing workload, crates/engine/tests/bank.rs: threads move money   *)
(* between the rows of one table.  A transfer is BEGIN, two SELECTs, two   *)
(* UPDATEs that write back what was read, COMMIT, and starts again from    *)
(* BEGIN when the commit is refused.  Between BEGIN and COMMIT a thread    *)
(* works on its own snapshot, so others see two steps of it.  Beside them, *)
(* the creators of CreateTableRetry work on the same store.                *)
(***************************************************************************)
EXTENDS CreateTableRetry, RelTxn, Integers, FiniteSetsExt, Functions

CONSTANTS Threads,
          AccountsTable,  \* its name
          Initial,     \* every account's opening balance
          Jobs         \* per thread: its transfers, one after the other

Accounts == Pks
Table == 0

ASSUME BankAssumption ==
  /\ AccountsTable \in Names /\ AccountsTable \notin {Wanted[c] : c \in Creators}
  /\ IsFiniteSet(Accounts) /\ IsFiniteSet(Threads)
  /\ Initial \in Int /\ Unwritten \notin Int
  /\ Jobs \in [Threads -> Seq([from : Accounts, to : Accounts, amount : Int])]
  /\ \A t \in Threads : \A i \in 1 .. Len(Jobs[t]) : Jobs[t][i].from # Jobs[t][i].to

VARIABLES transfer,   \* per thread: its transaction, or NoTx between transfers
          next,       \* per thread: the job it is at
          moved       \* per thread: net change per account of its commits

threadVars == <<transfer, next, moved>>
bankVars   == <<vars, threadVars>>

\* CREATE TABLE accounts, then one autocommitted INSERT per account.
Created(sch) ==
  LET st == NewStore(AllKeys) IN Apply(st, CreatePuts(Begin(st), AccountsTable, sch))

Inserted(a, st) == Apply(st, RelWrite(Begin(st), Table, a, Initial))

BankInit ==
  /\ \E sch \in ValidSchemas :
       /\ store = FoldSet(Inserted, Created(sch), Accounts)
       /\ acked = {Handle(AccountsTable, Table, sch)}
  /\ pc = [c \in Creators |-> "idle"]
  /\ tx = [c \in Creators |-> NoTx]
  /\ req = [c \in Creators |-> NoReq]
  /\ result = [c \in Creators |-> "none"]
  /\ listing = [l \in Listers |-> NotListing]
  /\ transfer = [t \in Threads |-> NoTx]
  /\ next = [t \in Threads |-> 1]
  /\ moved = [t \in Threads |-> [a \in Accounts |-> 0]]

\* Mutant of TransferWrites: the debit is lost.
CreditOnly(t, job) ==
  RelWrite(t, Table, job.to, RelRead(t, Table, job.to) + job.amount)

\* Both balances are read before either is written.
TransferWrites(t, job) ==
  LET a == RelRead(t, Table, job.from)
      b == RelRead(t, Table, job.to)
  IN  RelWrite(RelWrite(t, Table, job.from, a - job.amount),
               Table, job.to, b + job.amount)

Transfer(t) ==
  /\ transfer[t] = NoTx
  /\ next[t] <= Len(Jobs[t])
  /\ transfer' = [transfer EXCEPT ![t] = TransferWrites(Begin(store), Jobs[t][next[t]])]
  /\ UNCHANGED <<vars, next, moved>>

TransferCommit(t) ==
  /\ transfer[t] # NoTx
  /\ Conflicts(store, transfer[t]) = {}
  /\ store' = Apply(store, transfer[t])
  /\ transfer' = [transfer EXCEPT ![t] = NoTx]
  /\ next' = [next EXCEPT ![t] = @ + 1]
  /\ LET job == Jobs[t][next[t]]
     IN  moved' = [moved EXCEPT ![t][job.from] = @ - job.amount,
                                ![t][job.to]   = @ + job.amount]
  /\ UNCHANGED catalogVars

\* Mutants of TransferRetry: the UPDATEs are sent again, with the values of
\* the first try, in a new transaction; the refused transaction is kept.
ResendOldValues(t) ==
  /\ transfer[t] # NoTx
  /\ Conflicts(store, transfer[t]) # {}
  /\ transfer' = [transfer EXCEPT ![t] = [Begin(store) EXCEPT !.writes = transfer[t].writes]]
  /\ UNCHANGED <<vars, next, moved>>

CommitAgain(t) ==
  /\ transfer[t] # NoTx
  /\ Conflicts(store, transfer[t]) # {}
  /\ UNCHANGED bankVars

\* DbError::Conflict: the loop starts over, with a new transaction.
TransferRetry(t) ==
  /\ transfer[t] # NoTx
  /\ Conflicts(store, transfer[t]) # {}
  /\ transfer' = [transfer EXCEPT ![t] = NoTx]
  /\ UNCHANGED <<vars, next, moved>>

TransferStep(t) == Transfer(t) \/ TransferCommit(t) \/ TransferRetry(t)

\* A creator's loop leaves the transfers alone.
RetryStep(c) == CreatorStep(c) /\ UNCHANGED threadVars

BankNext == (\E t \in Threads : TransferStep(t)) \/ (\E c \in Creators : RetryStep(c))

\* Every loop is an operating-system thread that runs to its end.
BankSpec ==
  /\ BankInit /\ [][BankNext]_bankVars
  /\ \A t \in Threads : WF_bankVars(TransferStep(t))
  /\ \A c \in Creators : WF_bankVars(RetryStep(c))

-----------------------------------------------------------------------------
Balances(view) == [a \in Accounts |-> view[RowKey(Table, a)]]

Money == Cardinality(Accounts) * Initial

\* At every moment, for whoever reads, each account is its opening balance
\* and the transfers committed so far: none lost, none applied twice, none
\* applied by half ("a committed transfer was lost or duplicated", bank.rs).
NoTransferLost ==
  \A a \in Accounts :
    Balances(store.data)[a] = Initial + SumFunction([t \in Threads |-> moved[t][a]])

\* Every snapshot a transfer works on holds all the money there is.
SnapshotsConserveMoney ==
  \A t \in Threads : transfer[t] # NoTx => SumFunction(Balances(transfer[t].view)) = Money

\* Retrying comes to an end: first committer wins, so a refused transfer
\* means that another one went through.
EveryTransferSucceeds == <>[](\A t \in Threads : next[t] > Len(Jobs[t]))

-----------------------------------------------------------------------------
(* The inductive invariant behind the two safety properties.               *)

AtBegin(u) == [at |-> u.at, view |-> u.view, writes |-> [k \in AllKeys |-> Unwritten]]

\* An open transfer will write what it computed from its snapshot, and an
\* account nobody has committed since is still as in there.
TransferInv(t) ==
  LET u == transfer[t] IN
  /\ next[t] <= Len(Jobs[t])
  /\ u = TransferWrites(AtBegin(u), Jobs[t][next[t]])
  /\ u.at \in 0 .. store.version
  /\ Balances(u.view) \in [Accounts -> Int] /\ SumFunction(Balances(u.view)) = Money
  /\ \A a \in Accounts : store.modified[RowKey(Table, a)] <= u.at =>
       Balances(store.data)[a] = Balances(u.view)[a]

BankInv ==
  /\ store.version \in Nat /\ store.modified \in [AllKeys -> 0 .. store.version]
  /\ DOMAIN store.data = AllKeys /\ Balances(store.data) \in [Accounts -> Int]
  /\ SumFunction(Balances(store.data)) = Money
  /\ next \in [Threads -> Nat \ {0}] /\ moved \in [Threads -> [Accounts -> Int]]
  /\ NoTransferLost
  /\ DOMAIN transfer = Threads
  /\ \A t \in Threads : transfer[t] # NoTx => TransferInv(t)
  /\ DOMAIN pc = Creators /\ DOMAIN tx = Creators
  /\ \A c \in Creators : pc[c] = "commit" =>
       DOMAIN tx[c].writes = AllKeys /\ WriteSet(tx[c]) \subseteq CatalogKeys
=============================================================================
