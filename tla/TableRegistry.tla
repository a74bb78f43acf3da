---------------------------- MODULE TableRegistry ---------------------------
(***************************************************************************)
(* What the catalog promises its callers: one append-only list of tables.  *)
(* A table's id is its position in the list (from 0), a name is taken      *)
(* once, and create_table is atomic: it takes effect between its call and  *)
(* its return, and one that fails has no effect - except that a crash or   *)
(* an I/O error may leave a table whose creation was never reported.       *)
(***************************************************************************)
EXTENDS Naturals, Sequences

CONSTANTS Creators, Names, ValidSchemas

VARIABLES tables,   \* the handles, in creation order
          result,   \* what each creator's last call returned
          acked     \* the handles returned as Ok

vars == <<tables, result, acked>>

Handle(n, id, sch) == [name |-> n, table_id |-> id, schema |-> sch]

Taken(n) == \E i \in 1 .. Len(tables) : tables[i].name = n

Init ==
  /\ tables = <<>>
  /\ result = [c \in Creators |-> "none"]
  /\ acked = {}

Add(n, sch) ==
  /\ ~Taken(n)
  /\ tables' = Append(tables, Handle(n, Len(tables), sch))

\* The call returns Ok and the handle just added.
Create(c, n, sch) ==
  /\ Add(n, sch)
  /\ acked' = acked \cup {Handle(n, Len(tables), sch)}
  /\ result' = [result EXCEPT ![c] = "Ok"]

\* The call is running.
Start(c) ==
  /\ result' = [result EXCEPT ![c] = "none"]
  /\ UNCHANGED <<tables, acked>>

\* The name is refused only while a table has it.
RejectTaken(c, n) ==
  /\ Taken(n)
  /\ result' = [result EXCEPT ![c] = "TableAlreadyExists"]
  /\ UNCHANGED <<tables, acked>>

RejectOther(c) ==
  /\ \E r \in {"EmptyTableName", "Schema", "ConcurrentCreateTable"} :
       result' = [result EXCEPT ![c] = r]
  /\ UNCHANGED <<tables, acked>>

MaybeAdd == UNCHANGED tables \/ \E n \in Names, sch \in ValidSchemas : Add(n, sch)

StoreError(c) ==
  /\ MaybeAdd
  /\ result' = [result EXCEPT ![c] = "Store"]
  /\ UNCHANGED acked

Restart ==
  /\ MaybeAdd
  /\ result' = [c \in Creators |-> "none"]
  /\ UNCHANGED acked

Next ==
  \/ \E c \in Creators :
       \/ \E n \in Names, sch \in ValidSchemas : Create(c, n, sch)
       \/ \E n \in Names : RejectTaken(c, n)
       \/ Start(c) \/ RejectOther(c) \/ StoreError(c)
  \/ Restart

Spec == Init /\ [][Next]_vars
=============================================================================
