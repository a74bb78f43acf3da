------------------------------ MODULE Catalog -------------------------------
(***************************************************************************)
(* crates/catalog: table definitions kept in the same store as the rows.   *)
(* Three kinds of key hold them: the counter (the next table id), the      *)
(* index (every table name, in creation order) and one entry per table.    *)
(* create_table writes all three in one transaction; list_tables reads     *)
(* the index and then each entry, without one.                             *)
(*                                                                         *)
(* Creators are threads inside create_table, Listers threads inside        *)
(* list_tables.  A transaction is private to its thread between begin and  *)
(* commit, so create_table has two steps others can see: CreateBegin       *)
(* (everything up to commit) and the commit.                               *)
(***************************************************************************)
EXTENDS Keys, Sietch

CONSTANTS Creators, Listers,
          EmptyName,     \* the name ""
          Schemas,       \* (columns, primary_key) arguments
          ValidSchemas   \* those Schema::new accepts

ASSUME CatalogAssumption ==
  /\ EmptyName \notin Names
  /\ ValidSchemas \subseteq Schemas

\* A TableHandle, and what the store keeps of it under the table's key (with
\* the name once more, which is the key's).
Handle(n, id, sch) == [name |-> n, table_id |-> id, schema |-> sch]
Entry(id, sch)     == [table_id |-> id, schema |-> sch]

Handles == [name : Names, table_id : TableIds, schema : ValidSchemas]
Entries == [table_id : TableIds, schema : ValidSchemas]

\* The two markers of the store are not values anybody stores.
ASSUME MarkerAssumption ==
  /\ Absent # Unwritten
  /\ {Absent, Unwritten} \cap TableIds = {}
  /\ Absent \notin Seq(Names) /\ Unwritten \notin Seq(Names)
  /\ {Absent, Unwritten} \cap (Entries \cup Handles) = {}

VARIABLES
  store,     \* the TransactionalStore: all of it is on disk
  pc,        \* per creator: "idle", or "commit" with a transaction open
  tx,        \* per creator: its transaction
  req,       \* per creator: the handle it will return if the commit succeeds
  result,    \* per creator: what its last call returned
  listing,   \* per lister: names still to look up, handles found, how many asked
  acked      \* history: every handle create_table returned as Ok

catalogVars == <<pc, tx, req, result, listing, acked>>
vars == <<store, pc, tx, req, result, listing, acked>>

Results == {"none", "Ok", "EmptyTableName", "Schema", "TableAlreadyExists",
            "ConcurrentCreateTable", "Store"}

\* The values of an idle creator's locals: nothing reads them.
NoTx  == Begin(NewStore({}))
NoReq == [name |-> EmptyName, table_id |-> 0, schema |-> Absent]

-----------------------------------------------------------------------------
(* What is in a catalog, as a view of the keys (the committed data of a    *)
(* store, or what a transaction sees).                                     *)

NextId(counter)  == IF counter = Absent THEN 0 ELSE counter
NamesIn(index)   == IF index = Absent THEN <<>> ELSE index

\* table_id + 1 on a u32.
WrappingSucc(i) == IF i + 1 = IdSpace THEN 0 ELSE i + 1

\* Mutants of CreatePuts: no counter, no index, newest table first.
CreatePutsNoCounter(t, n, sch) ==
  LET t2 == Put(t, TableKey(n), Entry(NextId(Get(t, CounterKey)), sch))
  IN  Put(t2, IndexKey, Append(NamesIn(Get(t2, IndexKey)), n))

CreatePutsNoIndex(t, n, sch) ==
  LET id == NextId(Get(t, CounterKey))
  IN  Put(Put(t, CounterKey, WrappingSucc(id)), TableKey(n), Entry(id, sch))

CreatePutsInFront(t, n, sch) ==
  LET t2 == CreatePutsNoIndex(t, n, sch)
  IN  Put(t2, IndexKey, <<n>> \o NamesIn(Get(t2, IndexKey)))

\* The buffered writes of create_table.
CreatePuts(t, n, sch) ==
  LET id == NextId(Get(t, CounterKey))
      t1 == Put(t, CounterKey, WrappingSucc(id))
      t2 == Put(t1, TableKey(n), Entry(id, sch))
  IN  Put(t2, IndexKey, Append(NamesIn(Get(t2, IndexKey)), n))

\* get_table: the latest committed entry, outside any transaction.
GetTable(st, n) ==
  IF n = EmptyName THEN Absent
  ELSE LET e == st.data[TableKey(n)]
       IN  IF e = Absent THEN Absent ELSE Handle(n, e.table_id, e.schema)

-----------------------------------------------------------------------------
NotListing == [names |-> <<>>, found |-> <<>>, asked |-> 0]

Init ==
  /\ store = NewStore(AllKeys)
  /\ pc = [c \in Creators |-> "idle"]
  /\ tx = [c \in Creators |-> NoTx]
  /\ req = [c \in Creators |-> NoReq]
  /\ result = [c \in Creators |-> "none"]
  /\ listing = [l \in Listers |-> NotListing]
  /\ acked = {}

Return(c, r) ==
  /\ pc' = [pc EXCEPT ![c] = "idle"]
  /\ tx' = [tx EXCEPT ![c] = NoTx]
  /\ req' = [req EXCEPT ![c] = NoReq]
  /\ result' = [result EXCEPT ![c] = r]

\* Schema::new's verdict.  Mutant: it is ignored.
SchemaUnchecked(sch) == TRUE
SchemaAccepted(sch)  == sch \in ValidSchemas

\* The name is taken in the transaction's snapshot.  Mutant: nobody asks.
NobodyAsks(n)  == FALSE
TableExists(n) == Get(Begin(store), TableKey(n)) # Absent

\* create_table up to commit: its early returns, else the snapshot, the
\* reads and the buffered writes.
CreateBegin(c, n, sch) ==
  /\ pc[c] = "idle"
  /\ \/ /\ n = EmptyName
        /\ Return(c, "EmptyTableName")
     \/ /\ n # EmptyName
        /\ ~SchemaAccepted(sch)
        /\ Return(c, "Schema")
     \/ /\ n # EmptyName
        /\ SchemaAccepted(sch)
        /\ TableExists(n)
        /\ Return(c, "TableAlreadyExists")
     \/ /\ n # EmptyName
        /\ SchemaAccepted(sch)
        /\ ~TableExists(n)
        /\ LET t == Begin(store)
           IN  /\ tx' = [tx EXCEPT ![c] = CreatePuts(t, n, sch)]
               /\ req' = [req EXCEPT ![c] =
                            Handle(n, NextId(Get(t, CounterKey)), sch)]
        /\ pc' = [pc EXCEPT ![c] = "commit"]
        /\ result' = [result EXCEPT ![c] = "none"]
  /\ UNCHANGED <<store, listing, acked>>

CommitOk(c) ==
  /\ pc[c] = "commit"
  /\ Conflicts(store, tx[c]) = {}
  /\ store' = Apply(store, tx[c])
  /\ acked' = acked \cup {req[c]}
  /\ Return(c, "Ok")
  /\ UNCHANGED listing

\* Mutants of CommitConflict: the conflict is swallowed, or misreported.
ConflictSwallowed(c) ==
  /\ pc[c] = "commit"
  /\ Conflicts(store, tx[c]) # {}
  /\ Return(c, "Ok")
  /\ UNCHANGED <<store, listing, acked>>

ConflictAsExists(c) ==
  /\ pc[c] = "commit"
  /\ Conflicts(store, tx[c]) # {}
  /\ Return(c, "TableAlreadyExists")
  /\ UNCHANGED <<store, listing, acked>>

CommitConflict(c) ==
  /\ pc[c] = "commit"
  /\ Conflicts(store, tx[c]) # {}
  /\ Return(c, "ConcurrentCreateTable")
  /\ UNCHANGED <<store, listing, acked>>

\* The store fails (an I/O error) during commit: the batch is all there
\* after it or not at all, and the caller cannot tell which.
CommitStoreError(c) ==
  /\ pc[c] = "commit"
  /\ Conflicts(store, tx[c]) = {}
  /\ store' \in {store, Apply(store, tx[c])}
  /\ Return(c, "Store")
  /\ UNCHANGED <<listing, acked>>

-----------------------------------------------------------------------------
\* list_tables: read the index ...
ListBegin(l) ==
  /\ listing[l].names = <<>>
  /\ LET names == NamesIn(store.data[IndexKey])
     IN  listing' = [listing EXCEPT ![l] =
                       [names |-> names, found |-> <<>>, asked |-> Len(names)]]
  /\ UNCHANGED <<store, pc, tx, req, result, acked>>

\* ... then call get_table for one name after the other.
ListNext(l) ==
  /\ listing[l].names # <<>>
  /\ LET h == GetTable(store, Head(listing[l].names))
     IN  listing' = [listing EXCEPT
           ![l].names = Tail(@),
           ![l].found = IF h = Absent THEN @ ELSE Append(@, h)]
  /\ UNCHANGED <<store, pc, tx, req, result, acked>>

-----------------------------------------------------------------------------
\* The process dies and Catalog::open runs again: the store is what it was,
\* except that one commit in flight may or may not have become durable.
ForgetLocals ==
  /\ pc' = [c \in Creators |-> "idle"]
  /\ tx' = [c \in Creators |-> NoTx]
  /\ req' = [c \in Creators |-> NoReq]
  /\ result' = [c \in Creators |-> "none"]
  /\ listing' = [l \in Listers |-> NotListing]
  /\ UNCHANGED acked

CrashAndReopen ==
  /\ \/ UNCHANGED store
     \/ \E c \in Creators : /\ pc[c] = "commit"
                            /\ Conflicts(store, tx[c]) = {}
                            /\ store' = Apply(store, tx[c])
  /\ ForgetLocals

Next ==
  \/ \E c \in Creators, n \in Names \cup {EmptyName}, sch \in Schemas :
       CreateBegin(c, n, sch)
  \/ \E c \in Creators : CommitOk(c) \/ CommitConflict(c) \/ CommitStoreError(c)
  \/ \E l \in Listers : ListBegin(l) \/ ListNext(l)
  \/ CrashAndReopen

Spec == Init /\ [][Next]_vars

-----------------------------------------------------------------------------
(* Properties *)

Listings == [names : Seq(Names), found : Seq(Handles), asked : Nat]

\* The types of the catalog's part of the store and of every thread's locals.
StoreTypeOK ==
  /\ store.version \in Nat
  /\ store.modified \in [AllKeys -> Nat]
  /\ DOMAIN store.data = AllKeys
  /\ store.data[CounterKey] = Absent \/ store.data[CounterKey] \in TableIds
  /\ store.data[IndexKey] = Absent \/ store.data[IndexKey] \in Seq(Names)
  /\ \A n \in Names :
       store.data[TableKey(n)] = Absent \/ store.data[TableKey(n)] \in Entries

TypeOK ==
  /\ StoreTypeOK
  /\ pc \in [Creators -> {"idle", "commit"}]
  /\ result \in [Creators -> Results]
  /\ DOMAIN tx = Creators /\ DOMAIN req = Creators
  /\ \A c \in Creators : pc[c] = "commit" =>
       /\ req[c] \in Handles
       /\ tx[c].at \in 0 .. store.version
       /\ DOMAIN tx[c].writes = AllKeys
  /\ acked \subseteq Handles
  /\ listing \in [Listers -> Listings]

Index      == NamesIn(store.data[IndexKey])
HasTable(n) == store.data[TableKey(n)] # Absent
HandleAt(i) == GetTable(store, Index[i])

\* The three kinds of key agree, whatever create_table calls raced, failed or
\* were cut short: no name is listed twice, a name is listed exactly when it
\* has an entry ("the index can never drift", catalog.rs:10), the i-th table
\* created has id i-1, and the counter is the number of tables - so every id
\* is fresh and no two tables share a row_key_prefix.
CatalogConsistent ==
  /\ \A i, j \in 1 .. Len(Index) : Index[i] = Index[j] => i = j
  /\ \A n \in Names : HasTable(n) <=> \E i \in 1 .. Len(Index) : Index[i] = n
  /\ \A i \in 1 .. Len(Index) : store.data[TableKey(Index[i])].table_id = i - 1
  /\ NextId(store.data[CounterKey]) = Len(Index)

\* A handle create_table returned stays the truth about its table through
\* every later call and crash: name, id and schema.
AckedTablesSurvive ==
  \A h \in acked : HasTable(h.name) /\ GetTable(store, h.name) = h

\* No step removes a table, or changes its id or schema, under the clients
\* that hold its handle; nor does any reorder the list.
TablesNeverChange ==
  [][/\ \A n \in Names : HasTable(n) =>
          store'.data[TableKey(n)] = store.data[TableKey(n)]
     /\ \A i \in 1 .. Len(Index) : NamesIn(store'.data[IndexKey])[i] = Index[i]
    ]_vars

\* list_tables reads the index and the entries at different moments, and
\* silently skips a name without an entry; it never has to: every listing is
\* the tables of the index it read, all of them, in creation order.
ListingComplete ==
  \A l \in Listers :
    LET L == listing[l] IN
    /\ Len(L.found) + Len(L.names) = L.asked
    /\ L.asked <= Len(Index)
    /\ \A i \in 1 .. Len(L.found) : L.found[i] = HandleAt(i)
    /\ \A i \in 1 .. Len(L.names) : L.names[i] = Index[Len(L.found) + i]

-----------------------------------------------------------------------------
(* The inductive invariant behind CatalogConsistent. *)

\* What a creator about to commit has in its buffer; and, when nobody
\* committed to the counter since its snapshot, that the table it creates is
\* still missing and its id and index are still the next ones.  Every
\* create_table writes the counter, so the counter alone detects all races.
PendingCreate(c) ==
  LET n == req[c].name
      id == req[c].table_id
      w == tx[c].writes
  IN  /\ w[CounterKey] = WrappingSucc(id)
      /\ w[TableKey(n)] = Entry(id, req[c].schema)
      /\ w[IndexKey] # Unwritten
      /\ WriteSet(tx[c]) = {CounterKey, IndexKey, TableKey(n)}
      /\ store.modified[CounterKey] <= tx[c].at =>
           /\ ~HasTable(n)
           /\ id = NextId(store.data[CounterKey])
           /\ w[IndexKey] = Append(Index, n)

CatalogInv ==
  /\ TypeOK
  /\ CatalogConsistent
  /\ AckedTablesSurvive
  /\ \A k \in AllKeys : store.modified[k] <= store.version
  /\ \A c \in Creators : pc[c] = "commit" => PendingCreate(c)

-----------------------------------------------------------------------------
\* The catalog implements the append-only list of TableRegistry: the list is
\* the index with each name looked up.
Tables == [i \in 1 .. Len(Index) |-> HandleAt(i)]
Registry == INSTANCE TableRegistry WITH tables <- Tables

\* Every create_table, however it interleaves with others, takes effect at
\* once and exactly as its result says.
ImplementsRegistry == Registry!Spec

=============================================================================
