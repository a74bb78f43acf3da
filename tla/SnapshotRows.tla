---------------------------- MODULE SnapshotRows ----------------------------
(***************************************************************************)
(* What crates/txn promises its clients: rows of named tables under        *)
(* snapshot isolation.  A transaction sees the rows committed before it    *)
(* began plus its own changes; it commits all of its changes at once, or   *)
(* is refused, naming a row that it changed and that another transaction   *)
(* changed and committed since it began.  Nothing here knows of table ids, *)
(* keys, or the catalog.                                                   *)
(***************************************************************************)
EXTENDS Naturals

CONSTANTS Clients, Names, Pks, Rows,
          Absent     \* there is no such row

VARIABLES tables,    \* the names of the tables created so far
          rows,      \* the committed rows, by (table, primary key)
          open,      \* the clients inside a transaction
          view,      \* per client: the rows its transaction sees
          dirty,     \* per client: the (table, primary key)s it changed
          stale,     \* per client: those others committed since it began
          outcome    \* per client: how its last transaction ended

vars == <<tables, rows, open, view, dirty, stale, outcome>>

Places == Names \X Pks
NoRows == [r \in Places |-> Absent]

Done(kind)      == [kind |-> kind, row |-> <<>>]
ConflictAt(row) == [kind |-> "conflict", row |-> row]

Init ==
  /\ tables = {}
  /\ rows = NoRows
  /\ open = {}
  /\ view = [p \in Clients |-> NoRows]
  /\ dirty = [p \in Clients |-> {}]
  /\ stale = [p \in Clients |-> {}]
  /\ outcome = [p \in Clients |-> Done("none")]

CreateTable(n) ==
  /\ n \notin tables
  /\ tables' = tables \cup {n}
  /\ UNCHANGED <<rows, open, view, dirty, stale, outcome>>

Begin(p) ==
  /\ p \notin open
  /\ open' = open \cup {p}
  /\ view' = [view EXCEPT ![p] = rows]
  /\ outcome' = [outcome EXCEPT ![p] = Done("none")]
  /\ UNCHANGED <<tables, rows, dirty, stale>>

\* Write a row, or delete one (v = Absent).
Change(p, r, v) ==
  /\ p \in open
  /\ r[1] \in tables
  /\ view' = [view EXCEPT ![p][r] = v]
  /\ dirty' = [dirty EXCEPT ![p] = @ \cup {r}]
  /\ UNCHANGED <<tables, rows, open, stale, outcome>>

Close(p, result) ==
  /\ open' = open \ {p}
  /\ view' = [view EXCEPT ![p] = NoRows]
  /\ dirty' = [dirty EXCEPT ![p] = {}]
  /\ outcome' = [outcome EXCEPT ![p] = result]

\* p's changes, all of them, become the newest rows.
Publish(p) ==
  /\ dirty[p] \cap stale[p] = {}
  /\ rows' = [r \in Places |-> IF r \in dirty[p] THEN view[p][r] ELSE rows[r]]

Commit(p) ==
  /\ p \in open
  /\ Publish(p)
  /\ Close(p, Done("ok"))
  /\ stale' = [q \in Clients |->
                 IF q \in open \ {p} THEN stale[q] \cup dirty[p] ELSE {}]
  /\ UNCHANGED tables

Refuse(p, r) ==
  /\ p \in open
  /\ r \in dirty[p] \cap stale[p]
  /\ Close(p, ConflictAt(r))
  /\ stale' = [stale EXCEPT ![p] = {}]
  /\ UNCHANGED <<tables, rows>>

Abort(p) ==
  /\ p \in open
  /\ Close(p, Done("aborted"))
  /\ stale' = [stale EXCEPT ![p] = {}]
  /\ UNCHANGED <<tables, rows>>

\* An I/O error during commit: all of the changes, or none.
StoreError(p) ==
  /\ p \in open
  /\ \/ /\ Publish(p)
        /\ stale' = [q \in Clients |->
                       IF q \in open \ {p} THEN stale[q] \cup dirty[p] ELSE {}]
     \/ /\ UNCHANGED rows
        /\ stale' = [stale EXCEPT ![p] = {}]
  /\ Close(p, Done("store"))
  /\ UNCHANGED tables

\* A crash: every transaction ends, one that was committing may have made it.
Crash ==
  /\ UNCHANGED rows \/ \E p \in open : Publish(p)
  /\ tables' = tables \/ \E n \in Names \ tables : tables' = tables \cup {n}
  /\ open' = {}
  /\ view' = [p \in Clients |-> NoRows]
  /\ dirty' = [p \in Clients |-> {}]
  /\ stale' = [p \in Clients |-> {}]
  /\ outcome' = [p \in Clients |-> Done("none")]

Next ==
  \/ \E n \in Names : CreateTable(n)
  \/ \E p \in Clients :
       \/ Begin(p) \/ Commit(p) \/ Abort(p) \/ StoreError(p)
       \/ \E r \in Places : \/ \E v \in Rows \cup {Absent} : Change(p, r, v)
                            \/ Refuse(p, r)
  \/ Crash

Spec == Init /\ [][Next]_vars
=============================================================================
