--------------------------- MODULE DatabaseProofs ---------------------------
(***************************************************************************)
(* Catalog, Database and BankTransfers, proved for every set of threads,   *)
(* clients, tables, schemas, rows, accounts and transfers.  First the      *)
(* catalog alone: CatalogInv is inductive, Catalog implements              *)
(* TableRegistry.  Then rows and catalog, which share one store: DbInv is  *)
(* inductive, and Database implements SnapshotRows; the catalog's own      *)
(* steps are left to the first part.  Last the transfers with creators     *)
(* beside them: BankInv is inductive.  The balances are sums, so that part *)
(* begins with SumFunction; its key is that a transfer without conflicts   *)
(* finds on both its accounts the balances it has computed from.           *)
(***************************************************************************)
EXTENDS Database, BankTransfers, Induction

-----------------------------------------------------------------------------
(* The catalog.                                                            *)

\* The key layout separates the keys of different kinds and names.
LEMMA KeysDistinct ==
  /\ CounterKey # IndexKey
  /\ \A n \in Names : TableKey(n) # CounterKey /\ TableKey(n) # IndexKey
  /\ \A m, n \in Names : TableKey(m) = TableKey(n) => m = n
  /\ CounterKey \in AllKeys /\ IndexKey \in AllKeys
  /\ \A n \in Names : TableKey(n) \in AllKeys
<1>1. CounterKey # IndexKey
  BY DEF CounterKey, IndexKey
<1>2. \A n \in Names : TableKey(n) # CounterKey /\ TableKey(n) # IndexKey
  BY DEF TableKey, CounterKey, IndexKey
<1>3. \A m, n \in Names : TableKey(m) = TableKey(n) => m = n
  BY DEF TableKey
<1>4. /\ CounterKey \in AllKeys /\ IndexKey \in AllKeys
      /\ \A n \in Names : TableKey(n) \in AllKeys
  BY DEF AllKeys, CatalogKeys
<1> QED
  BY <1>1, <1>2, <1>3, <1>4

-----------------------------------------------------------------------------
\* A name without an entry leaves room for one more id: the listed names are
\* distinct and all of them have entries.
LEMMA Room ==
  ASSUME StoreTypeOK, CatalogConsistent, NEW n \in Names, ~HasTable(n)
  PROVE  /\ Index \in Seq(Names)
         /\ Len(Index) \in Nat
         /\ Len(Index) + 1 < IdSpace
<1>1. Index \in Seq(Names)
  BY DEF StoreTypeOK, Index, NamesIn
<1>2. Len(Index) \in Nat
  BY <1>1
<1> DEFINE positions == 1 .. Len(Index)
           others    == Names \ {n}
<1>3. \A i \in positions : Index[i] \in others
  BY <1>1, <1>2 DEF CatalogConsistent
<1>4. Index \in Injection(positions, others)
  <2>1. Index \in [positions -> others]
    BY <1>1, <1>2, <1>3
  <2> QED
    BY <2>1 DEF Injection, CatalogConsistent, IsInjective
<1>5. IsFiniteSet(others) /\ Cardinality(others) = Cardinality(Names) - 1
  BY FS_RemoveElement, IdSpaceAssumption
<1>6. Cardinality(positions) <= Cardinality(others)
  BY <1>4, <1>5, FS_Injection
<1>7. Cardinality(positions) = Len(Index)
  <2>1. 1 \in Int /\ Len(Index) \in Int
    BY <1>2
  <2>2. Cardinality(1 .. Len(Index)) =
          IF 1 > Len(Index) THEN 0 ELSE Len(Index) - 1 + 1
    BY <2>1, FS_Interval
  <2> QED
    BY <1>2, <2>2
<1>8. Cardinality(Names) \in Nat
  BY FS_CardinalityType, IdSpaceAssumption
<1> QED
  BY <1>1, <1>2, <1>5, <1>6, <1>7, <1>8, IdSpaceAssumption

\* What a successful commit of create_table does to the catalog.
LEMMA AfterCommit ==
  ASSUME NEW c \in Creators, CatalogInv, pc[c] = "commit",
         Conflicts(store, tx[c]) = {}, store' = Apply(store, tx[c])
  PROVE  /\ req[c] \in Handles
         /\ ~HasTable(req[c].name)
         /\ req[c].table_id = Len(Index)
         /\ store'.version = store.version + 1
         /\ DOMAIN store'.data = AllKeys
         /\ store'.modified = [k \in AllKeys |->
              IF k \in {CounterKey, IndexKey, TableKey(req[c].name)}
              THEN store.version + 1 ELSE store.modified[k]]
         /\ store'.data[CounterKey] = Len(Index) + 1
         /\ store'.data[IndexKey] = Append(Index, req[c].name)
         /\ \A n \in Names : store'.data[TableKey(n)] =
              IF n = req[c].name THEN Entry(Len(Index), req[c].schema)
                                 ELSE store.data[TableKey(n)]
<1> DEFINE name == req[c].name
           w    == tx[c].writes
<1>1. /\ PendingCreate(c)
      /\ req[c] \in Handles /\ name \in Names
      /\ tx[c].at \in Nat
      /\ DOMAIN w = AllKeys
  BY DEF CatalogInv, TypeOK, Handles, StoreTypeOK
<1>2. /\ WriteSet(tx[c]) = {CounterKey, IndexKey, TableKey(name)}
      /\ w[CounterKey] = WrappingSucc(req[c].table_id)
      /\ w[TableKey(name)] = Entry(req[c].table_id, req[c].schema)
  BY <1>1 DEF PendingCreate
<1>3. store.modified[CounterKey] <= tx[c].at
  <2>1. CounterKey \notin Conflicts(store, tx[c])
    OBVIOUS
  <2>2. store.modified[CounterKey] \in Nat
    BY KeysDistinct DEF CatalogInv, TypeOK, StoreTypeOK
  <2> QED
    BY <1>1, <1>2, <2>1, <2>2 DEF Conflicts
<1>4. /\ ~HasTable(name)
      /\ req[c].table_id = NextId(store.data[CounterKey])
      /\ w[IndexKey] = Append(Index, name)
  BY <1>1, <1>3 DEF PendingCreate
<1>5. req[c].table_id = Len(Index)
  BY <1>4 DEF CatalogInv, CatalogConsistent
<1>6. WrappingSucc(req[c].table_id) = Len(Index) + 1
  <2>1. Len(Index) \in Nat /\ Len(Index) + 1 < IdSpace
    BY <1>1, <1>4, Room DEF CatalogInv, TypeOK
  <2> QED
    BY <1>5, <2>1, IdSpaceAssumption DEF WrappingSucc
<1>7. \A k \in AllKeys : w[k] # Unwritten <=> k \in {CounterKey, IndexKey, TableKey(name)}
  BY <1>1, <1>2 DEF WriteSet
<1>8. /\ store'.version = store.version + 1
      /\ DOMAIN store'.data = AllKeys
      /\ \A k \in AllKeys : store'.data[k] =
           IF k \in {CounterKey, IndexKey, TableKey(name)} THEN w[k] ELSE store.data[k]
      /\ store'.modified = [k \in AllKeys |->
           IF k \in {CounterKey, IndexKey, TableKey(name)}
           THEN store.version + 1 ELSE store.modified[k]]
  <2>1. DOMAIN store.data = AllKeys /\ DOMAIN store.modified = AllKeys
    BY DEF CatalogInv, TypeOK, StoreTypeOK
  <2>2. WriteSet(tx[c]) # {}
    BY <1>2
  <2> HIDE DEF name, w
  <2> QED
    BY <1>7, <2>1, <2>2 DEF Apply, w
<1>9. \A n \in Names : store'.data[TableKey(n)] =
              IF n = name THEN Entry(Len(Index), req[c].schema)
                          ELSE store.data[TableKey(n)]
  BY <1>1, <1>2, <1>5, <1>8, KeysDistinct
<1> QED
  BY <1>1, <1>2, <1>4, <1>5, <1>6, <1>8, <1>9, KeysDistinct

\* A successful create_table keeps the keys in agreement, and adds exactly
\* its own table at the end of the list.
LEMMA CommitKeepsCatalog ==
  ASSUME NEW c \in Creators, CatalogInv, pc[c] = "commit",
         Conflicts(store, tx[c]) = {}, store' = Apply(store, tx[c])
  PROVE  /\ StoreTypeOK'
         /\ CatalogConsistent'
         /\ \A k \in AllKeys : store'.modified[k] <= store'.version
         /\ store.version < store'.modified[CounterKey]
         /\ Index' = Append(Index, req[c].name)
         /\ \A n \in Names : HasTable(n) =>
              store'.data[TableKey(n)] = store.data[TableKey(n)]
         /\ GetTable(store', req[c].name) = req[c]
<1> DEFINE name == req[c].name
           new  == Entry(Len(Index), req[c].schema)
<1>1. /\ req[c] \in Handles /\ name \in Names
      /\ ~HasTable(name)
      /\ req[c].table_id = Len(Index)
      /\ store'.version = store.version + 1
      /\ DOMAIN store'.data = AllKeys
      /\ store'.modified = [k \in AllKeys |->
              IF k \in {CounterKey, IndexKey, TableKey(name)}
              THEN store.version + 1 ELSE store.modified[k]]
      /\ store'.data[CounterKey] = Len(Index) + 1
      /\ store'.data[IndexKey] = Append(Index, name)
      /\ \A n \in Names : store'.data[TableKey(n)] =
              IF n = name THEN new ELSE store.data[TableKey(n)]
  BY AfterCommit DEF Handles
<1>2. /\ StoreTypeOK /\ CatalogConsistent
      /\ \A k \in AllKeys : store.modified[k] <= store.version
      /\ store.version \in Nat
      /\ store.modified \in [AllKeys -> Nat]
  BY DEF CatalogInv, TypeOK, StoreTypeOK
<1>3. /\ Index \in Seq(Names)
      /\ Len(Index) \in Nat
      /\ Len(Index) + 1 < IdSpace
  BY <1>1, <1>2, Room
<1>4. /\ Append(Index, name) \in Seq(Names)
      /\ Len(Append(Index, name)) = Len(Index) + 1
      /\ \A i \in 1 .. Len(Index) : Append(Index, name)[i] = Index[i]
      /\ Append(Index, name)[Len(Index) + 1] = name
  BY <1>1, <1>3
<1>5. /\ new \in Entries
      /\ new # Absent
  <2>1. new \in Entries
    BY <1>1, <1>3, IdSpaceAssumption DEF Entry, Entries, TableIds, Handles
  <2> QED
    BY <2>1, MarkerAssumption
<1>6. Index' = Append(Index, name)
  BY <1>1, <1>4, MarkerAssumption DEF Index, NamesIn
<1>7. Len(Index) + 1 \in TableIds /\ Len(Index) + 1 # Absent
  <2>1. Len(Index) + 1 \in TableIds
    BY <1>3, IdSpaceAssumption DEF TableIds
  <2> QED
    BY <2>1, MarkerAssumption
<1>8. StoreTypeOK'
  <2>1. /\ store'.version \in Nat
        /\ store'.modified \in [AllKeys -> Nat]
    BY <1>1, <1>2
  <2>2. /\ store'.data[CounterKey] \in TableIds
        /\ store'.data[IndexKey] \in Seq(Names)
    BY <1>1, <1>4, <1>7
  <2>3. \A n \in Names :
          \/ store'.data[TableKey(n)] = Absent
          \/ store'.data[TableKey(n)] \in Entries
    BY <1>1, <1>2, <1>5 DEF StoreTypeOK
  <2> QED
    BY <1>1, <2>1, <2>2, <2>3 DEF StoreTypeOK
<1>9. CatalogConsistent'
  <2>1. Len(Index') = Len(Index) + 1
    BY <1>4, <1>6
  <2>2. \A i \in 1 .. Len(Index) : Index'[i] = Index[i] /\ Index[i] \in Names
    BY <1>3, <1>4, <1>6
  <2>3. Index'[Len(Index) + 1] = name
    BY <1>4, <1>6
  <2>4. \A i \in 1 .. Len(Index) : Index[i] # name
    BY <1>1, <1>2 DEF CatalogConsistent
  <2>5. \A i, j \in 1 .. Len(Index') : Index'[i] = Index'[j] => i = j
    BY <1>2, <1>3, <2>1, <2>2, <2>3, <2>4 DEF CatalogConsistent
  <2>6. ASSUME NEW n \in Names
        PROVE  HasTable(n)' <=> \E i \in 1 .. Len(Index') : Index'[i] = n
    <3>1. CASE n = name
      <4>1. HasTable(n)'
        BY <1>1, <1>5, <3>1 DEF HasTable
      <4>2. Len(Index) + 1 \in 1 .. Len(Index')
        BY <1>3, <2>1
      <4> QED
        BY <2>3, <3>1, <4>1, <4>2
    <3>2. CASE n # name
      <4>1. HasTable(n)' <=> HasTable(n)
        BY <1>1, <3>2 DEF HasTable
      <4>2. HasTable(n) <=> \E i \in 1 .. Len(Index) : Index[i] = n
        BY <1>2 DEF CatalogConsistent
      <4>3. (\E i \in 1 .. Len(Index') : Index'[i] = n)
              <=> (\E i \in 1 .. Len(Index) : Index[i] = n)
        BY <1>3, <2>1, <2>2, <2>3, <3>2
      <4> QED
        BY <4>1, <4>2, <4>3
    <3> QED
      BY <3>1, <3>2
  <2>7. ASSUME NEW i \in 1 .. Len(Index')
        PROVE  store'.data[TableKey(Index'[i])].table_id = i - 1
    <3>1. CASE i = Len(Index) + 1
      BY <1>1, <1>3, <2>3, <3>1 DEF Entry
    <3>2. CASE i \in 1 .. Len(Index)
      <4>1. store'.data[TableKey(Index'[i])] = store.data[TableKey(Index[i])]
        BY <1>1, <2>2, <2>4, <3>2
      <4> QED
        BY <1>2, <3>2, <4>1 DEF CatalogConsistent
    <3> QED
      BY <1>3, <2>1, <3>1, <3>2
  <2>8. NextId(store'.data[CounterKey]) = Len(Index')
    BY <1>1, <1>7, <2>1 DEF NextId
  <2> QED
    BY <2>5, <2>6, <2>7, <2>8 DEF CatalogConsistent
<1>10. /\ \A k \in AllKeys : store'.modified[k] <= store'.version
       /\ store.version < store'.modified[CounterKey]
  BY <1>1, <1>2, KeysDistinct
<1>11. \A n \in Names : HasTable(n) =>
              store'.data[TableKey(n)] = store.data[TableKey(n)]
  BY <1>1
<1>12. GetTable(store', name) = req[c]
  <2>1. name # EmptyName
    BY <1>1, CatalogAssumption
  <2>2. store'.data[TableKey(name)] = new
    BY <1>1
  <2>3. Handle(name, Len(Index), req[c].schema) = req[c]
    BY <1>1 DEF Handle, Handles
  <2> QED
    BY <1>5, <2>1, <2>2, <2>3 DEF GetTable, Entry
<1> QED
  BY <1>6, <1>8, <1>9, <1>10, <1>11, <1>12

-----------------------------------------------------------------------------
\* The buffer create_table fills from a fresh snapshot.
LEMMA PutsOfCreate ==
  ASSUME CatalogInv, NEW n \in Names, NEW sch \in ValidSchemas, ~HasTable(n),
         NEW t, t = CreatePuts(Begin(store), n, sch),
         NEW r, r = Handle(n, NextId(Get(Begin(store), CounterKey)), sch)
  PROVE  /\ r \in Handles
         /\ r.name = n
         /\ t.at = store.version
         /\ DOMAIN t.writes = AllKeys
         /\ WriteSet(t) = {CounterKey, IndexKey, TableKey(n)}
         /\ t.writes[CounterKey] = WrappingSucc(r.table_id)
         /\ t.writes[TableKey(n)] = Entry(r.table_id, r.schema)
         /\ t.writes[IndexKey] = Append(Index, n)
         /\ t.writes[IndexKey] # Unwritten
         /\ r.table_id = NextId(store.data[CounterKey])
<1> DEFINE b   == Begin(store)
           id  == NextId(store.data[CounterKey])
<1>1. /\ StoreTypeOK
      /\ DOMAIN store.data = AllKeys
      /\ Index \in Seq(Names)
  BY DEF CatalogInv, TypeOK, StoreTypeOK, Index, NamesIn
<1>2. /\ b.at = store.version
      /\ b.view = store.data
      /\ b.writes = [k \in AllKeys |-> Unwritten]
      /\ DOMAIN b = {"at", "view", "writes"}
  BY <1>1 DEF Begin
<1>3. /\ Get(b, CounterKey) = store.data[CounterKey]
      /\ Get(b, IndexKey) = store.data[IndexKey]
  BY <1>2, KeysDistinct DEF Get
<1>4. id \in TableIds
  BY <1>1, IdSpaceAssumption, FS_CardinalityType
     DEF StoreTypeOK, NextId, TableIds
<1>5. r = Handle(n, id, sch)
  BY <1>3
<1> DEFINE t1 == Put(b, CounterKey, WrappingSucc(id))
           t2 == Put(t1, TableKey(n), Entry(id, sch))
<1>6. Get(t2, IndexKey) = store.data[IndexKey]
  BY <1>2, KeysDistinct DEF Get, Put
<1>7. t = Put(t2, IndexKey, Append(Index, n))
  BY <1>3, <1>6 DEF CreatePuts, Index
<1>8. /\ t.at = store.version
      /\ t.writes = [k \in AllKeys |->
                       IF k = IndexKey THEN Append(Index, n)
                       ELSE IF k = TableKey(n) THEN Entry(id, sch)
                       ELSE IF k = CounterKey THEN WrappingSucc(id)
                       ELSE Unwritten]
  BY <1>2, <1>7, KeysDistinct DEF Put
<1>9. /\ Append(Index, n) # Unwritten
      /\ Entry(id, sch) # Unwritten
      /\ WrappingSucc(id) # Unwritten
  <2>1. Append(Index, n) \in Seq(Names)
    BY <1>1
  <2>2. Entry(id, sch) \in Entries
    BY <1>4 DEF Entry, Entries
  <2>3. WrappingSucc(id) \in TableIds
    BY <1>4, IdSpaceAssumption DEF TableIds, WrappingSucc
  <2> QED
    BY <2>1, <2>2, <2>3, MarkerAssumption
<1>10. WriteSet(t) = {CounterKey, IndexKey, TableKey(n)}
  BY <1>8, <1>9, KeysDistinct DEF WriteSet
<1>11. /\ r \in Handles
       /\ r.name = n /\ r.table_id = id /\ r.schema = sch
  BY <1>4, <1>5 DEF Handle, Handles
<1> QED
  BY <1>8, <1>9, <1>10, <1>11, KeysDistinct

\* A creator's bookkeeping depends on the store only through the keys of the
\* catalog: while they do not change, it stays right.
LEMMA PendingKept ==
  ASSUME NEW c \in Creators, PendingCreate(c), CatalogInv, pc[c] = "commit",
         tx'[c] = tx[c], req'[c] = req[c],
         StoreTypeOK',
         \/ store' = store
         \/ store.version < store'.modified[CounterKey]
  PROVE  PendingCreate(c)'
<1>1. CASE store' = store
  BY <1>1 DEF PendingCreate, HasTable, Index
<1>2. CASE store.version < store'.modified[CounterKey]
  <2>1. ~(store'.modified[CounterKey] <= tx[c].at)
    BY <1>2, KeysDistinct DEF CatalogInv, TypeOK, StoreTypeOK
  <2> QED
    BY <2>1 DEF PendingCreate
<1> QED
  BY <1>1, <1>2

-----------------------------------------------------------------------------
\* A lister that has not begun is well typed.
LEMMA NotListingType == NotListing \in Listings
<1>1. \A S : <<>> \in Seq(S)
  OBVIOUS
<1> QED
  BY <1>1 DEF NotListing, Listings

\* The empty store satisfies the invariant.
LEMMA CatalogInit == Init => CatalogInv
<1> SUFFICES ASSUME Init PROVE CatalogInv
  OBVIOUS
<1>1. /\ store.version = 0
      /\ store.data = [k \in AllKeys |-> Absent]
      /\ store.modified = [k \in AllKeys |-> 0]
  BY DEF Init, NewStore
<1>2. Index = <<>>
  BY <1>1, KeysDistinct DEF Index, NamesIn
<1>3. StoreTypeOK
  BY <1>1, KeysDistinct DEF StoreTypeOK
<1>4. TypeOK
  <2>1. /\ pc \in [Creators -> {"idle", "commit"}]
        /\ result \in [Creators -> Results]
        /\ DOMAIN tx = Creators /\ DOMAIN req = Creators
        /\ \A c \in Creators : pc[c] = "idle"
        /\ acked \subseteq Handles
    BY DEF Init, Results
  <2>2. listing \in [Listers -> Listings]
    BY NotListingType DEF Init
  <2> QED
    BY <1>3, <2>1, <2>2 DEF TypeOK
<1>5. CatalogConsistent
  <2>1. \A n \in Names : ~HasTable(n)
    BY <1>1, KeysDistinct DEF HasTable
  <2>2. NextId(store.data[CounterKey]) = 0
    BY <1>1, KeysDistinct DEF NextId
  <2> QED
    BY <1>2, <2>1, <2>2 DEF CatalogConsistent
<1> QED
  BY <1>1, <1>4, <1>5 DEF Init, CatalogInv, AckedTablesSurvive

\* Steps that do not touch the store keep everything said of the store alone.
LEMMA SameStore ==
  ASSUME CatalogInv, store' = store, acked' = acked
  PROVE  /\ StoreTypeOK' /\ CatalogConsistent' /\ AckedTablesSurvive'
         /\ \A k \in AllKeys : store'.modified[k] <= store'.version
<1>1. StoreTypeOK'
  BY DEF CatalogInv, TypeOK, StoreTypeOK
<1>2. CatalogConsistent'
  BY DEF CatalogInv, CatalogConsistent, Index, HasTable
<1>3. AckedTablesSurvive'
  BY DEF CatalogInv, AckedTablesSurvive, HasTable
<1> QED
  BY <1>1, <1>2, <1>3 DEF CatalogInv

\* A commit keeps the handles returned earlier, and its own, true.
LEMMA CommitKeepsAcked ==
  ASSUME NEW c \in Creators, CatalogInv, pc[c] = "commit",
         Conflicts(store, tx[c]) = {}, store' = Apply(store, tx[c]),
         acked' \subseteq acked \cup {req[c]}
  PROVE  AckedTablesSurvive'
<1> SUFFICES ASSUME NEW h \in acked'
             PROVE  HasTable(h.name)' /\ GetTable(store', h.name) = h
  BY DEF AckedTablesSurvive
<1>1. CASE h = req[c]
  <2>1. GetTable(store', h.name) = h
    BY <1>1, CommitKeepsCatalog
  <2>2. HasTable(h.name)'
    <3>1. /\ StoreTypeOK /\ CatalogConsistent /\ req[c].name \in Names
          /\ ~HasTable(req[c].name)
      BY AfterCommit DEF CatalogInv, TypeOK, Handles
    <3>2. Len(Index) \in TableIds /\ req[c].schema \in ValidSchemas
      BY <3>1, Room, AfterCommit, IdSpaceAssumption DEF TableIds, Handles
    <3>3. store'.data[TableKey(h.name)] = Entry(Len(Index), req[c].schema)
      BY <1>1, <3>1, AfterCommit
    <3>4. Entry(Len(Index), req[c].schema) # Absent
      BY <3>2, MarkerAssumption DEF Entry, Entries
    <3> QED
      BY <3>3, <3>4 DEF HasTable
  <2> QED
    BY <2>1, <2>2
<1>2. CASE h \in acked
  <2>1. /\ GetTable(store, h.name) = h
        /\ HasTable(h.name)
        /\ h.name \in Names
    BY <1>2 DEF CatalogInv, AckedTablesSurvive, TypeOK, Handles
  <2>4. store'.data[TableKey(h.name)] = store.data[TableKey(h.name)]
    BY <2>1, CommitKeepsCatalog
  <2> QED
    BY <2>1, <2>4 DEF GetTable, HasTable
<1> QED
  BY <1>1, <1>2

\* What Return does, and leaves alone, for the creators' locals.
LEMMA ReturnTypes ==
  ASSUME CatalogInv, NEW c \in Creators, NEW r \in Results, Return(c, r)
  PROVE  /\ pc' \in [Creators -> {"idle", "commit"}]
         /\ result' \in [Creators -> Results]
         /\ DOMAIN tx' = Creators /\ DOMAIN req' = Creators
         /\ pc'[c] = "idle"
         /\ \A d \in Creators : pc'[d] = "commit" =>
              d # c /\ pc[d] = "commit" /\ tx'[d] = tx[d] /\ req'[d] = req[d]
  BY DEF CatalogInv, TypeOK, Return

\* Locals of creators with an open transaction stay well typed as long as
\* they stay the same and the store's version does not go back.
LEMMA LocalsKept ==
  ASSUME CatalogInv, StoreTypeOK', store.version <= store'.version,
         pc' \in [Creators -> {"idle", "commit"}],
         result' \in [Creators -> Results],
         DOMAIN tx' = Creators, DOMAIN req' = Creators,
         \A d \in Creators : pc'[d] = "commit" =>
              pc[d] = "commit" /\ tx'[d] = tx[d] /\ req'[d] = req[d],
         acked' \subseteq Handles,
         listing' = listing \/ listing' = [l \in Listers |-> NotListing]
  PROVE  TypeOK'
<1>1. ASSUME NEW d \in Creators, pc'[d] = "commit"
      PROVE  /\ req'[d] \in Handles
             /\ tx'[d].at \in 0 .. store'.version
             /\ DOMAIN tx'[d].writes = AllKeys
  <2>1. /\ req[d] \in Handles
        /\ tx[d].at \in 0 .. store.version
        /\ DOMAIN tx[d].writes = AllKeys
    BY <1>1 DEF CatalogInv, TypeOK
  <2>2. store.version \in Nat /\ store'.version \in Nat
    BY DEF CatalogInv, TypeOK, StoreTypeOK
  <2>3. tx[d].at \in 0 .. store'.version
    BY <2>1, <2>2
  <2> QED
    BY <1>1, <2>1, <2>3
<1>2. listing' \in [Listers -> Listings]
  BY NotListingType DEF CatalogInv, TypeOK
<1> QED
  BY <1>1, <1>2 DEF TypeOK

\* Any step that applies one pending commit, whether it returns Ok, returns an
\* error or is the last thing before a crash.
LEMMA CommitStep ==
  ASSUME NEW c \in Creators, CatalogInv, pc[c] = "commit",
         Conflicts(store, tx[c]) = {}, store' = Apply(store, tx[c]),
         acked' \subseteq acked \cup {req[c]},
         pc' \in [Creators -> {"idle", "commit"}],
         result' \in [Creators -> Results],
         DOMAIN tx' = Creators, DOMAIN req' = Creators,
         \A d \in Creators : pc'[d] = "commit" =>
              pc[d] = "commit" /\ tx'[d] = tx[d] /\ req'[d] = req[d],
         listing' = listing \/ listing' = [l \in Listers |-> NotListing]
  PROVE  CatalogInv'
<1>1. /\ StoreTypeOK' /\ CatalogConsistent'
      /\ \A k \in AllKeys : store'.modified[k] <= store'.version
      /\ store.version < store'.modified[CounterKey]
  BY CommitKeepsCatalog
<1>2. AckedTablesSurvive'
  BY CommitKeepsAcked
<1>3. store.version <= store'.version
  <2>1. store'.version = store.version + 1
    BY AfterCommit
  <2> QED
    BY <2>1 DEF CatalogInv, TypeOK, StoreTypeOK
<1>4. acked' \subseteq Handles
  BY AfterCommit DEF CatalogInv, TypeOK
<1>5. TypeOK'
  BY <1>1, <1>3, <1>4, LocalsKept
<1>6. ASSUME NEW d \in Creators, pc'[d] = "commit"
      PROVE  PendingCreate(d)'
  BY <1>1, <1>6, PendingKept DEF CatalogInv
<1> QED
  BY <1>1, <1>2, <1>5, <1>6 DEF CatalogInv

\* Any step that leaves the store as it is and opens no new transaction.
LEMMA QuietStep ==
  ASSUME CatalogInv, store' = store, acked' = acked,
         pc' \in [Creators -> {"idle", "commit"}],
         result' \in [Creators -> Results],
         DOMAIN tx' = Creators, DOMAIN req' = Creators,
         \A d \in Creators : pc'[d] = "commit" =>
              pc[d] = "commit" /\ tx'[d] = tx[d] /\ req'[d] = req[d],
         listing' = listing \/ listing' = [l \in Listers |-> NotListing]
  PROVE  CatalogInv'
<1>1. /\ StoreTypeOK' /\ CatalogConsistent' /\ AckedTablesSurvive'
      /\ \A k \in AllKeys : store'.modified[k] <= store'.version
  BY SameStore
<1>2. store.version <= store'.version /\ acked' \subseteq Handles
  BY DEF CatalogInv, TypeOK, StoreTypeOK
<1>3. TypeOK'
  BY <1>1, <1>2, LocalsKept
<1>4. ASSUME NEW d \in Creators, pc'[d] = "commit"
      PROVE  PendingCreate(d)'
  BY <1>1, <1>4, PendingKept DEF CatalogInv
<1> QED
  BY <1>1, <1>3, <1>4 DEF CatalogInv

-----------------------------------------------------------------------------
\* create_table up to its commit: the early returns change nothing, and a new
\* transaction starts out with the buffer PendingCreate describes.
LEMMA CreateBeginStep ==
  ASSUME CatalogInv, NEW c \in Creators, NEW n \in Names \cup {EmptyName},
         NEW sch \in Schemas, CreateBegin(c, n, sch)
  PROVE  CatalogInv'
<1>1. CASE \E r \in Results : Return(c, r) /\ UNCHANGED <<store, listing, acked>>
  BY <1>1, ReturnTypes, QuietStep
<1>2. CASE /\ n # EmptyName
           /\ sch \in ValidSchemas
           /\ Get(Begin(store), TableKey(n)) = Absent
           /\ tx' = [tx EXCEPT ![c] = CreatePuts(Begin(store), n, sch)]
           /\ req' = [req EXCEPT ![c] =
                        Handle(n, NextId(Get(Begin(store), CounterKey)), sch)]
           /\ pc' = [pc EXCEPT ![c] = "commit"]
           /\ result' = [result EXCEPT ![c] = "none"]
           /\ UNCHANGED <<store, listing, acked>>
  <2> DEFINE t == CreatePuts(Begin(store), n, sch)
             r == Handle(n, NextId(Get(Begin(store), CounterKey)), sch)
  <2>1. n \in Names
    BY <1>2
  <2>2. ~HasTable(n)
    BY <1>2, <2>1, KeysDistinct
       DEF HasTable, Get, Begin, CatalogInv, TypeOK, StoreTypeOK
  <2> HIDE DEF t, r
  <2>3. /\ r \in Handles
        /\ r.name = n
        /\ t.at = store.version
        /\ DOMAIN t.writes = AllKeys
        /\ WriteSet(t) = {CounterKey, IndexKey, TableKey(n)}
        /\ t.writes[CounterKey] = WrappingSucc(r.table_id)
        /\ t.writes[TableKey(n)] = Entry(r.table_id, r.schema)
        /\ t.writes[IndexKey] = Append(Index, n)
        /\ t.writes[IndexKey] # Unwritten
        /\ r.table_id = NextId(store.data[CounterKey])
    BY <1>2, <2>1, <2>2, PutsOfCreate DEF t, r
  <2>4. /\ StoreTypeOK' /\ CatalogConsistent' /\ AckedTablesSurvive'
        /\ \A k \in AllKeys : store'.modified[k] <= store'.version
    BY <1>2, SameStore
  <2>5. ASSUME NEW d \in Creators, d # c, pc'[d] = "commit"
        PROVE  /\ pc[d] = "commit" /\ tx'[d] = tx[d] /\ req'[d] = req[d]
               /\ req'[d] \in Handles
               /\ tx'[d].at \in 0 .. store'.version
               /\ DOMAIN tx'[d].writes = AllKeys
               /\ PendingCreate(d)'
    <3>1. pc[d] = "commit" /\ tx'[d] = tx[d] /\ req'[d] = req[d]
      BY <1>2, <2>5 DEF CatalogInv, TypeOK
    <3>2. PendingCreate(d)'
      BY <1>2, <2>4, <3>1, PendingKept DEF CatalogInv
    <3> QED
      BY <1>2, <3>1, <3>2 DEF CatalogInv, TypeOK
  <2>6. /\ tx'[c].writes = t.writes /\ tx'[c].at = t.at /\ req'[c] = r
        /\ WriteSet(tx'[c]) = WriteSet(t)
    BY <1>2 DEF t, r, CatalogInv, TypeOK
  <2>7. PendingCreate(c)'
    <3>1. Index' = Index /\ HasTable(n)' = HasTable(n)
      BY <1>2 DEF Index, HasTable
    <3> QED
      BY <1>2, <2>2, <2>3, <2>6, <3>1 DEF PendingCreate, HasTable
  <2>8. TypeOK'
    <3>1. store'.version \in Nat /\ store'.version = store.version
      BY <1>2 DEF CatalogInv, TypeOK, StoreTypeOK
    <3>2. t.at \in 0 .. store'.version
      BY <2>3, <3>1
    <3>3. /\ pc' \in [Creators -> {"idle", "commit"}]
          /\ result' \in [Creators -> Results]
          /\ DOMAIN tx' = Creators /\ DOMAIN req' = Creators
          /\ acked' \subseteq Handles
          /\ listing' \in [Listers -> Listings]
      BY <1>2 DEF CatalogInv, TypeOK, Results
    <3>4. \A d \in Creators : pc'[d] = "commit" =>
               /\ req'[d] \in Handles
               /\ tx'[d].at \in 0 .. store'.version
               /\ DOMAIN tx'[d].writes = AllKeys
      BY <2>3, <2>5, <2>6, <3>2
    <3> QED
      BY <2>4, <3>3, <3>4 DEF TypeOK
  <2>9. \A d \in Creators : pc'[d] = "commit" => PendingCreate(d)'
    BY <2>5, <2>7
  <2> QED
    BY <2>4, <2>8, <2>9 DEF CatalogInv
<1> QED
  BY <1>1, <1>2 DEF CreateBegin, SchemaAccepted, TableExists, Results

\* The two steps of list_tables, which only read.
LEMMA ListStep ==
  ASSUME CatalogInv, NEW l \in Listers, ListBegin(l) \/ ListNext(l)
  PROVE  CatalogInv'
<1>1. UNCHANGED <<store, pc, tx, req, result, acked>>
  BY DEF ListBegin, ListNext
<1>2. /\ StoreTypeOK' /\ CatalogConsistent' /\ AckedTablesSurvive'
      /\ \A k \in AllKeys : store'.modified[k] <= store'.version
  BY <1>1, SameStore
<1>3. listing' \in [Listers -> Listings]
  <2>0. listing \in [Listers -> Listings]
    BY DEF CatalogInv, TypeOK
  <2>1. CASE ListBegin(l)
    <3>1. Index \in Seq(Names) /\ Len(Index) \in Nat
      BY DEF CatalogInv, TypeOK, StoreTypeOK, Index, NamesIn
    <3>2. <<>> \in Seq(Handles)
      OBVIOUS
    <3>3. [names |-> Index, found |-> <<>>, asked |-> Len(Index)] \in Listings
      BY <3>1, <3>2 DEF Listings
    <3> QED
      BY <2>0, <2>1, <3>3 DEF ListBegin, Index
  <2>2. CASE ListNext(l)
    <3> DEFINE h == GetTable(store, Head(listing[l].names))
    <3>1. listing[l] \in Listings /\ listing[l].names # <<>>
      BY <2>0, <2>2 DEF ListNext
    <3>2. Head(listing[l].names) \in Names /\ Tail(listing[l].names) \in Seq(Names)
      BY <3>1 DEF Listings
    <3>3. h = Absent \/ h \in Handles
      BY <3>2 DEF GetTable, CatalogInv, TypeOK, StoreTypeOK, Handle, Handles, Entries
    <3>4. (IF h = Absent THEN listing[l].found ELSE Append(listing[l].found, h))
             \in Seq(Handles)
      BY <3>1, <3>3 DEF Listings
    <3> HIDE DEF h
    <3>5. listing' = [listing EXCEPT
            ![l].names = Tail(@),
            ![l].found = IF h = Absent THEN @ ELSE Append(@, h)]
      BY <2>2 DEF ListNext, h
    <3> QED
      BY <2>0, <3>1, <3>2, <3>4, <3>5 DEF Listings
  <2> QED
    BY <2>1, <2>2
<1>4. TypeOK'
  BY <1>1, <1>2, <1>3 DEF CatalogInv, TypeOK
<1>5. ASSUME NEW d \in Creators, pc'[d] = "commit"
      PROVE  PendingCreate(d)'
  BY <1>1, <1>2, <1>5, PendingKept DEF CatalogInv
<1> QED
  BY <1>2, <1>4, <1>5 DEF CatalogInv

\* The three ways commit can end in create_table.
LEMMA CommitEndStep ==
  ASSUME CatalogInv, NEW c \in Creators,
         CommitOk(c) \/ CommitConflict(c) \/ CommitStoreError(c)
  PROVE  CatalogInv'
<1>1. CASE CommitOk(c)
  BY <1>1, ReturnTypes, CommitStep DEF CommitOk, Results
<1>2. CASE CommitConflict(c)
  BY <1>2, ReturnTypes, QuietStep DEF CommitConflict, Results
<1>3. CASE CommitStoreError(c)
  <2>1. CASE store' = store
    BY <1>3, <2>1, ReturnTypes, QuietStep DEF CommitStoreError, Results
  <2>2. CASE store' = Apply(store, tx[c])
    BY <1>3, <2>2, ReturnTypes, CommitStep DEF CommitStoreError, Results
  <2> QED
    BY <1>3, <2>1, <2>2 DEF CommitStoreError
<1> QED
  BY <1>1, <1>2, <1>3

\* A crash, with or without a last commit becoming durable.
LEMMA CrashStep ==
  ASSUME CatalogInv, CrashAndReopen
  PROVE  CatalogInv'
<1>1. /\ pc' \in [Creators -> {"idle", "commit"}]
      /\ result' \in [Creators -> Results]
      /\ DOMAIN tx' = Creators /\ DOMAIN req' = Creators
      /\ \A d \in Creators : pc'[d] # "commit"
      /\ listing' = [l \in Listers |-> NotListing]
      /\ acked' = acked
  BY DEF CrashAndReopen, ForgetLocals, Results
<1>2. CASE store' = store
  BY <1>1, <1>2, QuietStep
<1>3. ASSUME NEW c \in Creators, pc[c] = "commit",
             Conflicts(store, tx[c]) = {}, store' = Apply(store, tx[c])
      PROVE  CatalogInv'
  BY <1>1, <1>3, CommitStep
<1> QED
  BY <1>2, <1>3 DEF CrashAndReopen

-----------------------------------------------------------------------------
\* The invariant is inductive.
LEMMA NextKeepsCatalog ==
  ASSUME CatalogInv, [Next]_vars
  PROVE  CatalogInv'
<1>1. ASSUME NEW c \in Creators, NEW n \in Names \cup {EmptyName},
             NEW sch \in Schemas, CreateBegin(c, n, sch)
      PROVE  CatalogInv'
  BY <1>1, CreateBeginStep
<1>2. ASSUME NEW c \in Creators,
             CommitOk(c) \/ CommitConflict(c) \/ CommitStoreError(c)
      PROVE  CatalogInv'
  BY <1>2, CommitEndStep
<1>3. ASSUME NEW l \in Listers, ListBegin(l) \/ ListNext(l)
      PROVE  CatalogInv'
  BY <1>3, ListStep
<1>4. CASE CrashAndReopen
  BY <1>4, CrashStep
<1>5. CASE UNCHANGED vars
  BY <1>5, QuietStep DEF vars, CatalogInv, TypeOK
<1> QED
  BY <1>1, <1>2, <1>3, <1>4, <1>5 DEF Next

\* CatalogInv holds of every reachable state, so the counter, the index and
\* the entries agree (CatalogConsistent), ids are fresh, and acknowledged
\* tables survive: for any number of threads calling create_table and
\* list_tables, any of them failing or crashing anywhere.
THEOREM CatalogInvariant == Spec => []CatalogInv
<1>1. Init => CatalogInv
  BY CatalogInit
<1>2. CatalogInv /\ [Next]_vars => CatalogInv'
  BY NextKeepsCatalog
<1> QED
  BY <1>1, <1>2, PTL DEF Spec

\* Every reachable state is well typed.
THEOREM CatalogTypeOK == Spec => []TypeOK
<1>1. CatalogInv => TypeOK
  BY DEF CatalogInv
<1> QED
  BY <1>1, CatalogInvariant, PTL

\* The index never drifts from the entries and the counter.
THEOREM CatalogIsConsistent == Spec => []CatalogConsistent
<1>1. CatalogInv => CatalogConsistent
  BY DEF CatalogInv
<1> QED
  BY <1>1, CatalogInvariant, PTL

\* A table create_table said it created is there for good.
THEOREM CatalogIsDurable == Spec => []AckedTablesSurvive
<1>1. CatalogInv => AckedTablesSurvive
  BY DEF CatalogInv
<1> QED
  BY <1>1, CatalogInvariant, PTL

-----------------------------------------------------------------------------
\* The store changes only by a pending commit that has no conflict.
LEMMA StoreChanges ==
  ASSUME [Next]_vars
  PROVE  \/ store' = store
         \/ \E c \in Creators : /\ pc[c] = "commit"
                                /\ Conflicts(store, tx[c]) = {}
                                /\ store' = Apply(store, tx[c])
<1>1. CASE Next
  BY <1>1 DEF Next, CreateBegin, CommitOk, CommitConflict, CommitStoreError,
              ListBegin, ListNext, CrashAndReopen
<1>2. CASE UNCHANGED vars
  BY <1>2 DEF vars
<1> QED
  BY <1>1, <1>2

\* The list only grows at its end, and entries do not change.
LEMMA ListGrows ==
  ASSUME CatalogInv, [Next]_vars
  PROVE  /\ Index \in Seq(Names)
         /\ Len(Index) <= Len(Index')
         /\ \A i \in 1 .. Len(Index) : Index'[i] = Index[i]
         /\ \A n \in Names : HasTable(n) =>
              store'.data[TableKey(n)] = store.data[TableKey(n)]
<1>1. Index \in Seq(Names)
  BY DEF CatalogInv, TypeOK, StoreTypeOK, Index, NamesIn
<1>2. CASE store' = store
  <2>1. Index' = Index
    BY <1>2 DEF Index
  <2> QED
    BY <1>1, <1>2, <2>1
<1>3. ASSUME NEW c \in Creators, pc[c] = "commit",
             Conflicts(store, tx[c]) = {}, store' = Apply(store, tx[c])
      PROVE  /\ Len(Index) <= Len(Index')
             /\ \A i \in 1 .. Len(Index) : Index'[i] = Index[i]
             /\ \A n \in Names : HasTable(n) =>
                  store'.data[TableKey(n)] = store.data[TableKey(n)]
  <2>1. req[c].name \in Names
    BY <1>3, AfterCommit DEF Handles
  <2>2. Index' = Append(Index, req[c].name)
    BY <1>3, CommitKeepsCatalog
  <2>3. \A n \in Names : HasTable(n) =>
                  store'.data[TableKey(n)] = store.data[TableKey(n)]
    BY <1>3, CommitKeepsCatalog
  <2> QED
    BY <1>1, <2>1, <2>2, <2>3
<1> QED
  BY <1>1, <1>2, <1>3, StoreChanges

\* No table is ever removed or changed, and the list is never reordered.
THEOREM CatalogIsAppendOnly == Spec => TablesNeverChange
<1>1. CatalogInv /\ [Next]_vars =>
        [/\ \A n \in Names : HasTable(n) =>
              store'.data[TableKey(n)] = store.data[TableKey(n)]
         /\ \A i \in 1 .. Len(Index) : NamesIn(store'.data[IndexKey])[i] = Index[i]
        ]_vars
  BY ListGrows DEF Index
<1> QED
  BY <1>1, CatalogInvariant, PTL DEF Spec, TablesNeverChange

-----------------------------------------------------------------------------
\* A handle looked up for a listed name is never missing, and never changes.
LEMMA HandlesKept ==
  ASSUME CatalogInv, [Next]_vars, NEW i \in 1 .. Len(Index)
  PROVE  /\ Index[i] \in Names
         /\ HandleAt(i) # Absent
         /\ HandleAt(i)' = HandleAt(i)
         /\ Index'[i] = Index[i]
         /\ i \in 1 .. Len(Index')
<1>1. Index[i] \in Names /\ Index'[i] = Index[i]
  BY ListGrows
<1>2. HasTable(Index[i])
  BY <1>1 DEF CatalogInv, CatalogConsistent
<1>3. store'.data[TableKey(Index[i])] = store.data[TableKey(Index[i])]
  BY <1>1, <1>2, ListGrows
<1>4. Index[i] # EmptyName
  BY <1>1, CatalogAssumption
<1>5. store.data[TableKey(Index[i])] \in Entries
  BY <1>1, <1>2 DEF HasTable, CatalogInv, TypeOK, StoreTypeOK
<1>6. HandleAt(i) # Absent
  <2>1. HandleAt(i) = Handle(Index[i], store.data[TableKey(Index[i])].table_id,
                             store.data[TableKey(Index[i])].schema)
    BY <1>2, <1>4 DEF HandleAt, GetTable, HasTable
  <2>2. HandleAt(i) \in Handles
    BY <1>1, <1>5, <2>1 DEF Handle, Handles, Entries
  <2> QED
    BY <2>2, MarkerAssumption
<1>7. HandleAt(i)' = HandleAt(i)
  BY <1>1, <1>3 DEF HandleAt, GetTable
<1>8. i \in 1 .. Len(Index')
  <2>1. Len(Index) \in Nat /\ Len(Index') \in Nat /\ Len(Index) <= Len(Index')
    <3>1. CatalogInv'
      BY NextKeepsCatalog
    <3>2. Index' \in Seq(Names)
      BY <3>1 DEF CatalogInv, TypeOK, StoreTypeOK, Index, NamesIn
    <3> QED
      BY <3>2, ListGrows
  <2> QED
    BY <2>1
<1> QED
  BY <1>1, <1>6, <1>7, <1>8

\* One lister's part of ListingComplete.
Complete(l) ==
  /\ Len(listing[l].found) + Len(listing[l].names) = listing[l].asked
  /\ listing[l].asked <= Len(Index)
  /\ \A i \in 1 .. Len(listing[l].found) : listing[l].found[i] = HandleAt(i)
  /\ \A i \in 1 .. Len(listing[l].names) :
       listing[l].names[i] = Index[Len(listing[l].found) + i]

\* Where a complete listing stands in the index.
LEMMA Positions ==
  ASSUME CatalogInv, NEW l \in Listers, Complete(l)
  PROVE  /\ Len(listing[l].found) \in Nat /\ Len(listing[l].names) \in Nat
         /\ listing[l].asked \in Nat
         /\ \A i \in 1 .. Len(listing[l].found) : i \in 1 .. Len(Index)
         /\ \A i \in 1 .. Len(listing[l].names) :
              Len(listing[l].found) + i \in 1 .. Len(Index)
         /\ listing[l].names # <<>> =>
              /\ 1 \in 1 .. Len(listing[l].names)
              /\ (Len(listing[l].found) + 1) + (Len(listing[l].names) - 1)
                   = listing[l].asked
              /\ \A i \in 1 .. Len(listing[l].names) - 1 :
                   /\ i + 1 \in 1 .. Len(listing[l].names)
                   /\ Len(listing[l].found) + (i + 1)
                        = (Len(listing[l].found) + 1) + i
<1> DEFINE f   == Len(listing[l].found)
           n   == Len(listing[l].names)
           a   == listing[l].asked
           len == Len(Index)
<1>1. /\ listing[l] \in Listings
      /\ Index \in Seq(Names)
  BY DEF CatalogInv, TypeOK, StoreTypeOK, Index, NamesIn
<1>2. /\ f \in Nat /\ n \in Nat /\ a \in Nat /\ len \in Nat
      /\ listing[l].names # <<>> => n # 0
  BY <1>1 DEF Listings
<1>3. f + n = a /\ a <= len
  BY DEF Complete
<1> HIDE DEF f, n, a, len
<1>4. \A i \in 1 .. f : i \in 1 .. len
  BY <1>2, <1>3
<1>5. \A i \in 1 .. n : f + i \in 1 .. len
  BY <1>2, <1>3
<1>6. listing[l].names # <<>> =>
        /\ 1 \in 1 .. n
        /\ (f + 1) + (n - 1) = a
        /\ \A i \in 1 .. n - 1 : i + 1 \in 1 .. n /\ f + (i + 1) = (f + 1) + i
  BY <1>2, <1>3
<1> QED
  BY <1>2, <1>4, <1>5, <1>6 DEF f, n, a, len

\* A lister that does not move keeps its part.
LEMMA ListingKept ==
  ASSUME CatalogInv, [Next]_vars, NEW l \in Listers, Complete(l),
         listing'[l] = listing[l]
  PROVE  Complete(l)'
<1>1. /\ listing[l] \in Listings
      /\ Index \in Seq(Names)
      /\ Len(Index) \in Nat
      /\ Len(Index) <= Len(Index')
  BY ListGrows DEF CatalogInv, TypeOK
<1>2. Len(Index') \in Nat
  <2>1. Index' \in Seq(Names)
    BY NextKeepsCatalog DEF CatalogInv, TypeOK, StoreTypeOK, Index, NamesIn
  <2> QED
    BY <2>1
<1>3. \A i \in 1 .. Len(listing[l].found) : i \in 1 .. Len(Index)
  BY Positions
<1>4. \A i \in 1 .. Len(listing[l].names) :
        Len(listing[l].found) + i \in 1 .. Len(Index)
  BY Positions
<1>5. \A i \in 1 .. Len(listing[l].found) : listing[l].found[i] = HandleAt(i)'
  BY <1>3, HandlesKept DEF Complete
<1>6. \A i \in 1 .. Len(listing[l].names) :
        listing[l].names[i] = Index'[Len(listing[l].found) + i]
  BY <1>4, HandlesKept DEF Complete
<1>7. listing[l].asked <= Len(Index')
  BY <1>1, <1>2 DEF Complete, Listings
<1> QED
  BY <1>5, <1>6, <1>7 DEF Complete

\* A lister's own step keeps its part of ListingComplete.
LEMMA ListingMoves ==
  ASSUME CatalogInv, NEW l \in Listers, Complete(l), ListBegin(l) \/ ListNext(l)
  PROVE  Complete(l)'
<1>1. /\ listing \in [Listers -> Listings]
      /\ listing[l] \in Listings
      /\ Index \in Seq(Names)
      /\ Len(Index) \in Nat
  BY DEF CatalogInv, TypeOK, StoreTypeOK, Index, NamesIn
<1>2. CASE ListBegin(l)
  <2>1. Index' = Index
    BY <1>2 DEF ListBegin, Index
  <2>2. listing'[l] = [names |-> Index, found |-> <<>>, asked |-> Len(Index)]
    BY <1>1, <1>2 DEF ListBegin, Index
  <2> QED
    BY <1>1, <2>1, <2>2 DEF Complete
<1>3. CASE ListNext(l)
  <2> DEFINE L == listing[l]
             h == GetTable(store, Head(L.names))
             k == Len(L.found)
  <2>1. /\ L \in Listings /\ L.names \in Seq(Names) /\ L.names # <<>>
        /\ L.found \in Seq(Handles) /\ k \in Nat /\ Len(L.names) \in Nat \ {0}
        /\ L.asked \in Nat
    BY <1>1, <1>3 DEF ListNext, Listings
  <2>0. /\ 1 \in 1 .. Len(L.names)
        /\ k + 1 \in 1 .. Len(Index)
        /\ (k + 1) + (Len(L.names) - 1) = L.asked
        /\ L.asked <= Len(Index)
        /\ \A i \in 1 .. Len(L.names) - 1 : /\ i + 1 \in 1 .. Len(L.names)
                                           /\ k + (i + 1) = (k + 1) + i
    <3>1. L.asked <= Len(Index)
      BY DEF Complete
    <3> QED
      BY <2>1, <3>1, Positions
  <2>2. Index' = Index /\ \A i : HandleAt(i)' = HandleAt(i)
    BY <1>3 DEF ListNext, Index, HandleAt, GetTable
  <2>3. /\ k + 1 \in 1 .. Len(Index)
        /\ Head(L.names) = Index[k + 1]
    <3>1. L.names[1] = Index[k + 1]
      BY <2>0 DEF Complete
    <3> QED
      BY <2>0, <2>1, <3>1
  <2>4. h = HandleAt(k + 1)
    BY <2>3 DEF HandleAt
  <2>5. h # Absent /\ h \in Handles
    <3>1. [Next]_vars
      BY <1>3 DEF Next
    <3>2. h # Absent
      BY <2>3, <2>4, <3>1, HandlesKept
    <3>3. Index[k + 1] \in Names
      BY <1>1, <2>3
    <3> QED
      BY <2>3, <3>2, <3>3
         DEF GetTable, CatalogInv, TypeOK, StoreTypeOK, Handle, Handles, Entries
  <2>6. /\ listing'[l].names = Tail(L.names)
        /\ listing'[l].found = Append(L.found, h)
        /\ listing'[l].asked = L.asked
    BY <1>1, <1>3, <2>5 DEF ListNext, Listings
  <2> HIDE DEF h
  <2>7. /\ Len(Append(L.found, h)) = k + 1
        /\ \A i \in 1 .. k + 1 :
             Append(L.found, h)[i] = IF i = k + 1 THEN h ELSE L.found[i]
    BY <2>1, <2>5
  <2>8. /\ Len(Tail(L.names)) = Len(L.names) - 1
        /\ \A i \in 1 .. Len(L.names) - 1 : Tail(L.names)[i] = L.names[i + 1]
    BY <2>1
  <2> HIDE DEF L
  <2>9. \A i \in 1 .. k + 1 : Append(L.found, h)[i] = HandleAt(i)
    BY <2>1, <2>4, <2>7 DEF Complete, L
  <2>10. \A i \in 1 .. Len(L.names) - 1 : Tail(L.names)[i] = Index[k + 1 + i]
    <3> SUFFICES ASSUME NEW i \in 1 .. Len(L.names) - 1
                 PROVE  Tail(L.names)[i] = Index[k + 1 + i]
      OBVIOUS
    <3>1. L.names[i + 1] = Index[k + (i + 1)]
      BY <2>0 DEF Complete, L
    <3> QED
      BY <2>0, <2>8, <3>1
  <2>11. /\ Len(listing'[l].found) + Len(listing'[l].names) = listing'[l].asked
         /\ listing'[l].asked <= Len(Index')
    BY <2>0, <2>2, <2>6, <2>7, <2>8
  <2>12. \A i \in 1 .. Len(listing'[l].found) : listing'[l].found[i] = HandleAt(i)'
    BY <2>2, <2>6, <2>7, <2>9
  <2>13. \A i \in 1 .. Len(listing'[l].names) :
           listing'[l].names[i] = Index'[Len(listing'[l].found) + i]
    BY <2>2, <2>6, <2>7, <2>8, <2>10
  <2> QED
    BY <2>11, <2>12, <2>13 DEF Complete
<1> QED
  BY <1>2, <1>3

\* Every list_tables reports exactly the tables of the index it started from.
THEOREM ListingsAreComplete == Spec => []ListingComplete
<1>1. ListingComplete <=> \A l \in Listers : Complete(l)
  BY DEF ListingComplete, Complete
<1>2. Init => \A l \in Listers : Complete(l)
  <2> SUFFICES ASSUME Init, NEW l \in Listers PROVE Complete(l)
    OBVIOUS
  <2>1. listing[l] = NotListing
    BY DEF Init
  <2>2. Index = <<>>
    BY KeysDistinct DEF Init, NewStore, Index, NamesIn
  <2> QED
    BY <2>1, <2>2 DEF Complete, NotListing
<1>3. CatalogInv /\ [Next]_vars /\ (\A l \in Listers : Complete(l))
        => (\A l \in Listers : Complete(l))'
  <2> SUFFICES ASSUME CatalogInv, [Next]_vars, NEW l \in Listers, Complete(l)
               PROVE  Complete(l)'
    BY DEF Complete
  <2>1. CASE listing'[l] = listing[l]
    BY <2>1, ListingKept
  <2>2. CASE ListBegin(l) \/ ListNext(l)
    BY <2>2, ListingMoves
  <2>3. CASE listing'[l] = NotListing
    <3>1. Index' \in Seq(Names) /\ Len(Index') \in Nat
      BY NextKeepsCatalog DEF CatalogInv, TypeOK, StoreTypeOK, Index, NamesIn
    <3> QED
      BY <2>3, <3>1 DEF Complete, NotListing
  <2>4. \/ listing'[l] = listing[l]
        \/ ListBegin(l) \/ ListNext(l)
        \/ listing'[l] = NotListing
    <3>1. listing \in [Listers -> Listings]
      BY DEF CatalogInv, TypeOK
    <3> QED
      BY <3>1 DEF Next, vars, CreateBegin, CommitOk, CommitConflict, CommitStoreError,
                  ListBegin, ListNext, CrashAndReopen, ForgetLocals
  <2> QED
    BY <2>1, <2>2, <2>3, <2>4
<1> QED
  BY <1>1, <1>2, <1>3, CatalogInvariant, PTL DEF Spec

-----------------------------------------------------------------------------
(* Catalog implements TableRegistry. *)

LEMMA TablesFacts ==
  ASSUME CatalogInv
  PROVE  /\ Index \in Seq(Names) /\ Len(Index) \in Nat
         /\ Tables \in Seq(Handles)
         /\ Len(Tables) = Len(Index)
         /\ \A i \in 1 .. Len(Index) : Tables[i] = HandleAt(i)
         /\ \A i \in 1 .. Len(Index) : Tables[i].name = Index[i]
         /\ \A n \in Names : HasTable(n) <=> Registry!Taken(n)
<1>1. Index \in Seq(Names) /\ Len(Index) \in Nat
  BY DEF CatalogInv, TypeOK, StoreTypeOK, Index, NamesIn
<1>2. ASSUME NEW i \in 1 .. Len(Index)
      PROVE  HandleAt(i) \in Handles /\ HandleAt(i).name = Index[i]
  <2>1. Index[i] \in Names /\ Index[i] # EmptyName
    BY <1>1, CatalogAssumption
  <2>2. HasTable(Index[i])
    BY <2>1 DEF CatalogInv, CatalogConsistent
  <2>3. store.data[TableKey(Index[i])] \in Entries
    BY <2>1, <2>2 DEF HasTable, CatalogInv, TypeOK, StoreTypeOK
  <2>4. HandleAt(i) = Handle(Index[i], store.data[TableKey(Index[i])].table_id,
                             store.data[TableKey(Index[i])].schema)
    BY <2>1, <2>2 DEF HandleAt, GetTable, HasTable
  <2> QED
    BY <2>1, <2>3, <2>4 DEF Handle, Handles, Entries
<1>3. /\ Tables \in Seq(Handles)
      /\ Len(Tables) = Len(Index)
      /\ \A i \in 1 .. Len(Index) : Tables[i] = HandleAt(i)
  BY <1>1, <1>2 DEF Tables
<1>4. \A i \in 1 .. Len(Index) : Tables[i].name = Index[i]
  BY <1>2, <1>3
<1>5. \A n \in Names : HasTable(n) <=> Registry!Taken(n)
  BY <1>3, <1>4 DEF Registry!Taken, CatalogInv, CatalogConsistent
<1> QED
  BY <1>1, <1>3, <1>4, <1>5

\* A successful commit appends one handle to the list.
LEMMA CommitAdds ==
  ASSUME NEW c \in Creators, CatalogInv, CatalogInv', [Next]_vars,
         pc[c] = "commit",
         Conflicts(store, tx[c]) = {}, store' = Apply(store, tx[c])
  PROVE  /\ req[c].name \in Names /\ req[c].schema \in ValidSchemas
         /\ req[c] = Registry!Handle(req[c].name, Len(Tables), req[c].schema)
         /\ Registry!Add(req[c].name, req[c].schema)
<1>1. /\ req[c] \in Handles /\ req[c].name \in Names
      /\ req[c].schema \in ValidSchemas
      /\ ~HasTable(req[c].name)
      /\ req[c].table_id = Len(Index)
  BY AfterCommit DEF Handles
<1>2. /\ Index' = Append(Index, req[c].name)
      /\ GetTable(store', req[c].name) = req[c]
  BY CommitKeepsCatalog
<1>3. /\ Index \in Seq(Names) /\ Len(Index) \in Nat
      /\ Len(Tables) = Len(Index)
      /\ Tables \in Seq(Handles)
      /\ \A i \in 1 .. Len(Index) : Tables[i] = HandleAt(i)
      /\ HasTable(req[c].name) <=> Registry!Taken(req[c].name)
  BY <1>1, TablesFacts
<1>4. req[c] = Registry!Handle(req[c].name, Len(Tables), req[c].schema)
  BY <1>1, <1>3 DEF Handles, Registry!Handle
<1>5. /\ Len(Index') = Len(Index) + 1
      /\ Index'[Len(Index) + 1] = req[c].name
  BY <1>1, <1>2, <1>3
<1>6. Tables' = [i \in 1 .. Len(Index) + 1 |-> GetTable(store', Index'[i])]
  BY <1>5 DEF Tables, HandleAt
<1>7. \A i \in 1 .. Len(Index) : GetTable(store', Index'[i]) = Tables[i]
  BY <1>3, HandlesKept DEF HandleAt
<1>8. GetTable(store', Index'[Len(Index) + 1]) = req[c]
  BY <1>2, <1>5
<1>9. /\ Append(Tables, req[c]) \in Seq(Handles)
      /\ Len(Append(Tables, req[c])) = Len(Index) + 1
      /\ \A i \in 1 .. Len(Index) : Append(Tables, req[c])[i] = Tables[i]
      /\ Append(Tables, req[c])[Len(Index) + 1] = req[c]
  BY <1>1, <1>3
<1>10. Tables' = Append(Tables, req[c])
  <2>1. Append(Tables, req[c]) =
          [i \in 1 .. Len(Index) + 1 |-> Append(Tables, req[c])[i]]
    BY <1>9
  <2>2. \A i \in 1 .. Len(Index) + 1 : 
          GetTable(store', Index'[i]) = Append(Tables, req[c])[i]
    BY <1>3, <1>7, <1>8, <1>9
  <2> QED
    BY <1>6, <2>1, <2>2
<1>11. ~Registry!Taken(req[c].name)
  BY <1>1, <1>3
<1> QED
  BY <1>1, <1>4, <1>10, <1>11 DEF Registry!Add

\* While the store does not change, neither does the abstract list.
LEMMA TablesKept ==
  ASSUME store' = store
  PROVE  Tables' = Tables
  BY DEF Tables, Index, HandleAt

\* Every step of the catalog is a step of TableRegistry, or a stutter.
LEMMA RegistryStep ==
  ASSUME CatalogInv, CatalogInv', [Next]_vars
  PROVE  [Registry!Next]_(Registry!vars)
<1>0. result \in [Creators -> Results]
  BY DEF CatalogInv, TypeOK
<1>1. ASSUME NEW c \in Creators, NEW n \in Names \cup {EmptyName},
             NEW sch \in Schemas, CreateBegin(c, n, sch)
      PROVE  Registry!Next
  <2>1. Tables' = Tables /\ acked' = acked
    BY <1>1, TablesKept DEF CreateBegin
  <2>2. CASE \E r \in {"EmptyTableName", "Schema"} : Return(c, r)
    BY <2>1, <2>2 DEF Return, Registry!RejectOther, Registry!Next
  <2>3. CASE /\ n # EmptyName
             /\ Get(Begin(store), TableKey(n)) # Absent
             /\ Return(c, "TableAlreadyExists")
    <3>1. n \in Names /\ HasTable(n)
      BY <2>3, KeysDistinct
         DEF HasTable, Get, Begin, CatalogInv, TypeOK, StoreTypeOK
    <3>2. Registry!Taken(n)
      BY <3>1, TablesFacts
    <3> QED
      BY <2>1, <2>3, <3>1, <3>2 DEF Return, Registry!RejectTaken, Registry!Next
  <2>4. CASE result' = [result EXCEPT ![c] = "none"]
    BY <2>1, <2>4 DEF Registry!Start, Registry!Next
  <2> QED
    BY <1>1, <2>2, <2>3, <2>4 DEF CreateBegin, TableExists
<1>2. ASSUME NEW c \in Creators, CommitOk(c)
      PROVE  Registry!Next
  <2>1. /\ req[c].name \in Names /\ req[c].schema \in ValidSchemas
        /\ req[c] = Registry!Handle(req[c].name, Len(Tables), req[c].schema)
        /\ Registry!Add(req[c].name, req[c].schema)
    BY <1>2, CommitAdds DEF CommitOk
  <2>2. Registry!Create(c, req[c].name, req[c].schema)
    BY <1>2, <2>1 DEF CommitOk, Return, Registry!Create
  <2> QED
    BY <2>1, <2>2 DEF Registry!Next
<1>3. ASSUME NEW c \in Creators, CommitConflict(c)
      PROVE  Registry!Next
  BY <1>3, TablesKept DEF CommitConflict, Return, Registry!RejectOther, Registry!Next
<1>4. ASSUME NEW c \in Creators, CommitStoreError(c)
      PROVE  Registry!Next
  <2>1. Registry!MaybeAdd
    <3>1. CASE store' = store
      BY <3>1, TablesKept DEF Registry!MaybeAdd
    <3>2. CASE store' = Apply(store, tx[c])
      BY <1>4, <3>2, CommitAdds DEF CommitStoreError, Registry!MaybeAdd
    <3> QED
      BY <1>4, <3>1, <3>2 DEF CommitStoreError
  <2>2. Registry!StoreError(c)
    BY <1>4, <2>1 DEF CommitStoreError, Return, Registry!StoreError
  <2> QED
    BY <2>2 DEF Registry!Next
<1>5. ASSUME NEW l \in Listers, ListBegin(l) \/ ListNext(l)
      PROVE  UNCHANGED Registry!vars
  BY <1>5, TablesKept DEF ListBegin, ListNext, Registry!vars
<1>6. CASE CrashAndReopen
  <2>1. Registry!MaybeAdd
    <3>1. CASE store' = store
      BY <3>1, TablesKept DEF Registry!MaybeAdd
    <3>2. ASSUME NEW c \in Creators, pc[c] = "commit",
                 Conflicts(store, tx[c]) = {}, store' = Apply(store, tx[c])
          PROVE  Registry!MaybeAdd
      BY <3>2, CommitAdds DEF Registry!MaybeAdd
    <3> QED
      BY <1>6, <3>1, <3>2 DEF CrashAndReopen
  <2> QED
    BY <1>6, <2>1 DEF CrashAndReopen, ForgetLocals, Registry!Restart, Registry!Next
<1>7. CASE UNCHANGED vars
  BY <1>7, TablesKept DEF vars, Registry!vars
<1> QED
  BY <1>1, <1>2, <1>3, <1>4, <1>5, <1>6, <1>7 DEF Next

\* create_table is atomic: the catalog implements the append-only list of
\* TableRegistry, with the index, looked up name by name, as the list.
THEOREM CatalogRefinesRegistry == Spec => ImplementsRegistry
<1>1. Init => Registry!Init
  <2> SUFFICES ASSUME Init PROVE Registry!Init
    OBVIOUS
  <2>1. Index = <<>>
    BY KeysDistinct DEF Init, NewStore, Index, NamesIn
  <2>2. Tables = <<>>
    BY <2>1 DEF Tables
  <2> QED
    BY <2>2 DEF Init, Registry!Init
<1>2. CatalogInv /\ CatalogInv' /\ [Next]_vars => [Registry!Next]_(Registry!vars)
  BY RegistryStep
<1> QED
  BY <1>1, <1>2, CatalogInvariant, PTL
     DEF Spec, ImplementsRegistry, Registry!Spec

-----------------------------------------------------------------------------
(* Rows beside the catalog.                                                *)

\* The keys of rows are apart from the catalog's and from each other.
LEMMA RowKeysApart ==
  /\ \A id \in TableIds, pk \in Pks :
       /\ RowKey(id, pk) \in RowKeys /\ RowKey(id, pk) \in AllKeys
       /\ RowKey(id, pk) # CounterKey /\ RowKey(id, pk) # IndexKey
       /\ \A n \in Names : RowKey(id, pk) # TableKey(n)
       /\ IsRowKey(RowKey(id, pk)) /\ RowKey(id, pk) # NoKey
       /\ RowKey(id, pk)[2] = id /\ RowKey(id, pk)[3] = pk
  /\ \A i, j \in TableIds, x, y \in Pks :
       RowKey(i, x) = RowKey(j, y) => i = j /\ x = y
  /\ \A k \in RowKeys : \E id \in TableIds, pk \in Pks : k = RowKey(id, pk)
<1>1. ASSUME NEW id \in TableIds, NEW pk \in Pks
      PROVE  /\ RowKey(id, pk) \in RowKeys /\ RowKey(id, pk) \in AllKeys
             /\ RowKey(id, pk) # CounterKey /\ RowKey(id, pk) # IndexKey
             /\ \A n \in Names : RowKey(id, pk) # TableKey(n)
             /\ IsRowKey(RowKey(id, pk)) /\ RowKey(id, pk) # NoKey
             /\ RowKey(id, pk)[2] = id /\ RowKey(id, pk)[3] = pk
  <2>1. RowKey(id, pk) \in RowKeys
    BY DEF RowKeys, RowKeyPrefix
  <2>2. RowKey(id, pk) # CounterKey /\ RowKey(id, pk) # IndexKey
    BY DEF RowKey, CounterKey, IndexKey
  <2>3. \A n \in Names : RowKey(id, pk) # TableKey(n)
    BY DEF RowKey, TableKey
  <2>4. IsRowKey(RowKey(id, pk)) /\ RowKey(id, pk) # NoKey
    BY DEF RowKey, IsRowKey, NoKey
  <2> QED
    BY <2>1, <2>2, <2>3, <2>4 DEF AllKeys, RowKey
<1>2. \A i, j \in TableIds, x, y \in Pks :
       RowKey(i, x) = RowKey(j, y) => i = j /\ x = y
  BY DEF RowKey
<1>3. \A k \in RowKeys : \E id \in TableIds, pk \in Pks : k = RowKey(id, pk)
  BY DEF RowKeys, RowKeyPrefix
<1> QED
  BY <1>1, <1>2, <1>3

-----------------------------------------------------------------------------
\* A table has one handle, whose id no other table has and is below the
\* counter.
LEMMA TableHandles ==
  ASSUME CatalogInv
  PROVE  /\ NextId(store.data[CounterKey]) \in Nat
         /\ \A n \in Names :
              /\ TableHandle(n) # Absent <=> HasTable(n)
              /\ HasTable(n) =>
                   /\ TableHandle(n) = Handle(n, store.data[TableKey(n)].table_id,
                                              store.data[TableKey(n)].schema)
                   /\ TableHandle(n).table_id \in TableIds
                   /\ TableHandle(n).table_id < NextId(store.data[CounterKey])
                   /\ TableHandle(n).table_id + 1 \in 1 .. Len(Index)
                   /\ Index[TableHandle(n).table_id + 1] = n
         /\ \A m, n \in Names :
              HasTable(m) /\ HasTable(n) /\ TableHandle(m).table_id = TableHandle(n).table_id
                => m = n
<1>1. Index \in Seq(Names) /\ Len(Index) \in Nat
      /\ NextId(store.data[CounterKey]) = Len(Index)
  BY DEF CatalogInv, TypeOK, StoreTypeOK, CatalogConsistent, Index, NamesIn
<1>2. ASSUME NEW n \in Names
      PROVE  /\ TableHandle(n) # Absent <=> HasTable(n)
             /\ HasTable(n) =>
                  /\ TableHandle(n) = Handle(n, store.data[TableKey(n)].table_id,
                                             store.data[TableKey(n)].schema)
                  /\ TableHandle(n).table_id \in TableIds
                  /\ TableHandle(n).table_id < NextId(store.data[CounterKey])
                  /\ TableHandle(n).table_id + 1 \in 1 .. Len(Index)
                  /\ Index[TableHandle(n).table_id + 1] = n
  <2>1. n # EmptyName
    BY CatalogAssumption
  <2>2. CASE ~HasTable(n)
    BY <2>1, <2>2 DEF HasTable, TableHandle, GetTable
  <2>3. CASE HasTable(n)
    <3> DEFINE e == store.data[TableKey(n)]
    <3>1. e \in Entries
      BY <2>3 DEF HasTable, CatalogInv, TypeOK, StoreTypeOK
    <3>2. TableHandle(n) = Handle(n, e.table_id, e.schema)
      BY <2>1, <2>3 DEF HasTable, TableHandle, GetTable
    <3>3. TableHandle(n) \in Handles /\ TableHandle(n).table_id = e.table_id
      BY <3>1, <3>2 DEF Handle, Handles, Entries
    <3>4. PICK i \in 1 .. Len(Index) : Index[i] = n
      BY <2>3 DEF CatalogInv, CatalogConsistent
    <3>5. e.table_id = i - 1
      BY <3>4 DEF CatalogInv, CatalogConsistent
    <3>6. e.table_id \in TableIds
      BY <3>1 DEF Entries
    <3>7. TableHandle(n) # Absent
      BY <3>3, MarkerAssumption
    <3> HIDE DEF e
    <3> QED
      BY <1>1, <2>3, <3>2, <3>3, <3>4, <3>5, <3>6, <3>7 DEF e
  <2> QED
    BY <2>2, <2>3
<1>3. \A m, n \in Names :
        HasTable(m) /\ HasTable(n) /\ TableHandle(m).table_id = TableHandle(n).table_id
          => m = n
  BY <1>2
<1> QED
  BY <1>1, <1>2, <1>3

\* conflict_error finds the table of any key that belongs to one.
LEMMA BlameFinds ==
  ASSUME CatalogInv, NEW n \in Names, NEW pk \in Pks, HasTable(n),
         NEW k, k = RowKey(TableHandle(n).table_id, pk)
  PROVE  BlameKey(store, k) = ConflictAt(<<n, pk>>)
<1> DEFINE id    == TableHandle(n).table_id
           names == NamesIn(store.data[IndexKey])
           hits  == {i \in 1 .. Len(names) : GetTable(store, names[i]).table_id = k[2]}
<1>1. /\ id \in TableIds
      /\ id + 1 \in 1 .. Len(Index) /\ Index[id + 1] = n
  BY TableHandles
<1>2. IsRowKey(k) /\ k[2] = id /\ k[3] = pk
  BY <1>1, RowKeysApart
<1>3. Index \in Seq(Names) /\ Len(Index) \in Nat
  BY DEF CatalogInv, TypeOK, StoreTypeOK, Index, NamesIn
<1>4. \A i \in 1 .. Len(Index) : GetTable(store, Index[i]).table_id = i - 1
  <2> TAKE i \in 1 .. Len(Index)
  <2>1. Index[i] \in Names /\ HasTable(Index[i])
    BY <1>3 DEF CatalogInv, CatalogConsistent
  <2>2. TableHandle(Index[i]) = Handle(Index[i], store.data[TableKey(Index[i])].table_id,
                                       store.data[TableKey(Index[i])].schema)
    BY <2>1, TableHandles
  <2>3. store.data[TableKey(Index[i])].table_id = i - 1
    BY DEF CatalogInv, CatalogConsistent
  <2> QED
    BY <2>2, <2>3 DEF TableHandle, Handle
<1>5. names = Index
  BY DEF Index
<1>6. id \in Int
  BY <1>1, IdSpaceAssumption DEF TableIds
<1> HIDE DEF id, names
<1>7. hits = {id + 1}
  <2>1. ASSUME NEW i \in hits PROVE i = id + 1
    <3>1. i \in 1 .. Len(Index) /\ i - 1 = id
      BY <1>2, <1>4, <1>5
    <3> QED
      BY <1>3, <1>6, <3>1
  <2>2. id + 1 \in hits
    <3>1. GetTable(store, Index[id + 1]).table_id = (id + 1) - 1
      BY <1>1, <1>4
    <3> QED
      BY <1>1, <1>2, <1>5, <1>6, <3>1
  <2> QED
    BY <2>1, <2>2
<1> HIDE DEF hits
<1>8. (CHOOSE i \in hits : \A j \in hits : i <= j) = id + 1
  BY <1>6, <1>7
<1>9. BlameKey(store, k) =
        IF ~IsRowKey(k) \/ hits = {}
        THEN Done("unrecognized")
        ELSE ConflictAt(<<names[CHOOSE i \in hits : \A j \in hits : i <= j], k[3]>>)
  BY DEF BlameKey, names, hits
<1>10. hits # {}
  BY <1>7
<1> QED
  BY <1>1, <1>2, <1>5, <1>8, <1>9, <1>10

-----------------------------------------------------------------------------
(* The store, as clients depend on it, only goes forward.                  *)

Later ==
  /\ store'.version \in Nat /\ store.version <= store'.version
  /\ \A k \in AllKeys : store.modified[k] <= store'.modified[k]
  /\ \A n \in Names : HasTable(n) => HasTable(n)' /\ TableHandle(n)' = TableHandle(n)
  /\ NextId(store.data[CounterKey]) <= NextId(store'.data[CounterKey])

\* Steps of the catalog leave every row alone.
LEMMA CatalogKeepsRows ==
  ASSUME CatalogInv, CatalogInv', [Next]_vars, RowsInv
  PROVE  /\ Later /\ RowsInv'
         /\ \A k \in RowKeys : /\ store'.data[k] = store.data[k]
                               /\ store'.modified[k] = store.modified[k]
<1>1. CASE store' = store
  <2>1. Later
    <3>1. store.version \in Nat /\ store.modified \in [AllKeys -> Nat]
      BY DEF CatalogInv, TypeOK, StoreTypeOK
    <3>2. NextId(store.data[CounterKey]) \in Nat
      BY TableHandles
    <3> QED
      BY <1>1, <3>1, <3>2 DEF Later, HasTable, TableHandle
  <2>2. RowsInv'
    BY <1>1 DEF RowsInv
  <2> QED
    BY <1>1, <2>1, <2>2
<1>2. ASSUME NEW c \in Creators, pc[c] = "commit",
             Conflicts(store, tx[c]) = {}, store' = Apply(store, tx[c])
      PROVE  /\ Later /\ RowsInv'
             /\ \A k \in RowKeys : /\ store'.data[k] = store.data[k]
                                   /\ store'.modified[k] = store.modified[k]
  <2>1. /\ store'.version = store.version + 1
        /\ store'.modified = [k \in AllKeys |->
              IF k \in {CounterKey, IndexKey, TableKey(req[c].name)}
              THEN store.version + 1 ELSE store.modified[k]]
        /\ store'.data[CounterKey] = Len(Index) + 1
        /\ req[c].name \in Names
    BY <1>2, AfterCommit DEF Handles
  <2>2. \A n \in Names : HasTable(n) =>
              store'.data[TableKey(n)] = store.data[TableKey(n)]
    BY <1>2, CommitKeepsCatalog
  <2>3. \A n \in Names : HasTable(n) => HasTable(n)' /\ TableHandle(n)' = TableHandle(n)
    BY <2>2 DEF HasTable, TableHandle, GetTable
  <2>4. /\ store.version \in Nat /\ store.modified \in [AllKeys -> Nat]
        /\ \A k \in AllKeys : store.modified[k] <= store.version
        /\ Index \in Seq(Names) /\ Len(Index) \in Nat
        /\ NextId(store.data[CounterKey]) = Len(Index)
    BY DEF CatalogInv, TypeOK, StoreTypeOK, CatalogConsistent, Index, NamesIn
  <2>5. NextId(store'.data[CounterKey]) = Len(Index')
    BY DEF CatalogInv, CatalogConsistent
  <2>6. Len(Index') = Len(Index) + 1
    <3>1. Index' = Append(Index, req[c].name)
      BY <1>2, CommitKeepsCatalog
    <3> QED
      BY <2>1, <2>4, <3>1
  <2>7. Later
    BY <2>1, <2>3, <2>4, <2>5, <2>6 DEF Later
  <2>8. \A k \in RowKeys : store'.modified[k] = store.modified[k]
    BY <2>1, RowKeysApart
  <2>9. \A k \in RowKeys : store'.data[k] = store.data[k]
    <3>1. /\ DOMAIN store.data = AllKeys
          /\ DOMAIN tx[c].writes = AllKeys
          /\ WriteSet(tx[c]) = {CounterKey, IndexKey, TableKey(req[c].name)}
      BY <1>2 DEF CatalogInv, TypeOK, StoreTypeOK, PendingCreate
    <3>2. \A k \in RowKeys : k \in AllKeys /\ k \notin WriteSet(tx[c])
      BY <2>1, <3>1, RowKeysApart
    <3>3. \A k \in RowKeys : tx[c].writes[k] = Unwritten
      BY <3>1, <3>2 DEF WriteSet
    <3> QED
      BY <1>2, <3>1, <3>2, <3>3 DEF Apply
  <2>10. RowsInv'
    <3>1. \A id \in TableIds : id \in Int
      BY IdSpaceAssumption DEF TableIds
    <3> QED
      BY <2>4, <2>5, <2>6, <2>8, <2>9, <3>1, RowKeysApart DEF RowsInv
  <2> QED
    BY <2>7, <2>8, <2>9, <2>10
<1> QED
  BY <1>1, <1>2, StoreChanges

\* A client whose locals a step leaves alone is as it was.
LEMMA ClientKept ==
  ASSUME NEW p \in Clients, CatalogInv, CatalogInv', Later, ClientInv(p),
         dtx'[p] = dtx[p], touched'[p] = touched[p], phase'[p] = phase[p],
         refusal'[p] = refusal[p], touched[p] \subseteq Names
  PROVE  ClientInv(p)'
<1> DEFINE t == dtx[p]
<1>1. /\ store.version \in Nat /\ store'.version \in Nat
      /\ store.modified \in [AllKeys -> Nat] /\ store'.modified \in [AllKeys -> Nat]
      /\ NextId(store.data[CounterKey]) \in Nat
      /\ NextId(store'.data[CounterKey]) \in Nat
      /\ \A id \in TableIds : id \in Nat
  <2>1. NextId(store.data[CounterKey]) \in Nat
    BY TableHandles
  <2>2. NextId(store'.data[CounterKey]) \in Nat
    <3>1. StoreTypeOK'
      BY DEF CatalogInv, TypeOK
    <3> QED
      BY <3>1, IdSpaceAssumption DEF StoreTypeOK, NextId, TableIds
  <2> QED
    BY <2>1, <2>2, IdSpaceAssumption DEF CatalogInv, TypeOK, StoreTypeOK, TableIds
<1>2. t.at \in 0 .. store'.version
  BY <1>1 DEF ClientInv, Later
<1>3. \A id \in TableIds, pk \in Pks :
        id >= NextId(store'.data[CounterKey]) => t.view[RowKey(id, pk)] = Absent
  BY <1>1 DEF ClientInv, Later
<1>4. ASSUME NEW k \in WriteSet(t)
      PROVE  \E n \in touched[p], pk \in Pks :
               HasTable(n)' /\ k = RowKey(TableHandle(n)'.table_id, pk)
  <2>1. PICK n \in touched[p], pk \in Pks :
          HasTable(n) /\ k = RowKey(TableHandle(n).table_id, pk)
    BY DEF ClientInv
  <2>2. HasTable(n)' /\ TableHandle(n)' = TableHandle(n)
    BY <2>1 DEF Later
  <2> QED
    BY <2>1, <2>2
<1>5. \A k \in Conflicts(store, t) : k \in Conflicts(store', t)
  <2> TAKE k \in Conflicts(store, t)
  <2>1. k \in WriteSet(t) /\ k \in AllKeys /\ store.modified[k] > t.at
    BY DEF Conflicts, WriteSet, ClientInv
  <2>2. store'.modified[k] > t.at
    <3>1. store.modified[k] <= store'.modified[k]
      BY <2>1 DEF Later
    <3>2. t.at \in Nat
      BY <1>1 DEF ClientInv
    <3> HIDE DEF t
    <3> QED
      BY <1>1, <2>1, <3>1, <3>2
  <2> QED
    BY <2>1, <2>2 DEF Conflicts
<1> QED
  BY <1>2, <1>3, <1>4, <1>5 DEF ClientInv

-----------------------------------------------------------------------------
(* Steps that change rows only.                                            *)

SameCatalogKeys ==
  \A k \in CatalogKeys : /\ store'.data[k] = store.data[k]
                         /\ store'.modified[k] = store.modified[k]

\* The catalog, and the creators' pending work, do not depend on the rows.
LEMMA RowsOnly ==
  ASSUME CatalogInv, SameCatalogKeys,
         store'.version \in Nat, store.version <= store'.version,
         store'.modified \in [AllKeys -> Nat],
         DOMAIN store'.data = AllKeys,
         \A k \in AllKeys : store'.modified[k] <= store'.version,
         acked' = acked,
         pc' \in [Creators -> {"idle", "commit"}],
         result' \in [Creators -> Results],
         DOMAIN tx' = Creators, DOMAIN req' = Creators,
         \A d \in Creators : pc'[d] = "commit" =>
              pc[d] = "commit" /\ tx'[d] = tx[d] /\ req'[d] = req[d],
         listing' = listing \/ listing' = [l \in Listers |-> NotListing]
  PROVE  CatalogInv'
<1>1. /\ CounterKey \in CatalogKeys /\ IndexKey \in CatalogKeys
      /\ \A n \in Names : TableKey(n) \in CatalogKeys
  BY DEF CatalogKeys
<1>2. /\ store'.data[CounterKey] = store.data[CounterKey]
      /\ store'.modified[CounterKey] = store.modified[CounterKey]
      /\ store'.data[IndexKey] = store.data[IndexKey]
      /\ \A n \in Names : store'.data[TableKey(n)] = store.data[TableKey(n)]
  BY <1>1 DEF SameCatalogKeys
<1>3. StoreTypeOK'
  BY <1>2 DEF CatalogInv, TypeOK, StoreTypeOK
<1>4. Index' = Index /\ \A n \in Names : HasTable(n)' = HasTable(n)
  BY <1>2 DEF Index, HasTable
<1>5. CatalogConsistent'
  <2>1. Index \in Seq(Names)
    BY DEF CatalogInv, TypeOK, StoreTypeOK, Index, NamesIn
  <2>2. \A i \in 1 .. Len(Index) : Index[i] \in Names
    BY <2>1
  <2> QED
    BY <1>2, <1>4, <2>2 DEF CatalogInv, CatalogConsistent
<1>6. AckedTablesSurvive'
  <2> SUFFICES ASSUME NEW h \in acked
               PROVE  HasTable(h.name)' /\ GetTable(store', h.name) = h
    BY DEF AckedTablesSurvive
  <2>1. HasTable(h.name) /\ GetTable(store, h.name) = h /\ h.name \in Names
    BY DEF CatalogInv, AckedTablesSurvive, TypeOK, Handles
  <2> QED
    BY <1>2, <1>4, <2>1 DEF GetTable
<1>7. TypeOK'
  BY <1>3, LocalsKept DEF CatalogInv, TypeOK
<1>8. ASSUME NEW d \in Creators, pc'[d] = "commit"
      PROVE  PendingCreate(d)'
  <2>1. PendingCreate(d) /\ tx'[d] = tx[d] /\ req'[d] = req[d] /\ req[d].name \in Names
    BY <1>8 DEF CatalogInv, TypeOK, Handles
  <2> QED
    BY <1>2, <1>4, <2>1 DEF PendingCreate
<1> QED
  BY <1>3, <1>5, <1>6, <1>7, <1>8 DEF CatalogInv

\* What an open client transaction may write.
LEMMA ClientWrites ==
  ASSUME NEW p \in Clients, CatalogInv, LocalsInv, ClientInv(p)
  PROVE  /\ WriteSet(dtx[p]) \subseteq RowKeys
         /\ \A k \in AllKeys : k \in WriteSet(dtx[p]) <=> dtx[p].writes[k] # Unwritten
         /\ \A id \in TableIds, pk \in Pks : RowKey(id, pk) \in WriteSet(dtx[p]) =>
              /\ id < NextId(store.data[CounterKey])
              /\ dtx[p].writes[RowKey(id, pk)] \in Rows \cup {Absent}
<1>1. ASSUME NEW k \in WriteSet(dtx[p])
      PROVE  \E id \in TableIds, pk \in Pks :
               k = RowKey(id, pk) /\ id < NextId(store.data[CounterKey])
  <2>1. PICK n \in touched[p], pk \in Pks :
          HasTable(n) /\ k = RowKey(TableHandle(n).table_id, pk)
    BY DEF ClientInv
  <2>2. n \in Names
    BY DEF LocalsInv
  <2> QED
    BY <2>1, <2>2, TableHandles
<1>2. \A k \in AllKeys : k \in WriteSet(dtx[p]) <=> dtx[p].writes[k] # Unwritten
  BY DEF WriteSet, ClientInv
<1>3. WriteSet(dtx[p]) \subseteq RowKeys
  BY <1>1, RowKeysApart
<1>4. ASSUME NEW id \in TableIds, NEW pk \in Pks, RowKey(id, pk) \in WriteSet(dtx[p])
      PROVE  id < NextId(store.data[CounterKey])
  BY <1>1, <1>4, RowKeysApart
<1>5. ASSUME NEW id \in TableIds, NEW pk \in Pks, RowKey(id, pk) \in WriteSet(dtx[p])
      PROVE  dtx[p].writes[RowKey(id, pk)] \in Rows \cup {Absent}
  BY <1>2, <1>5, RowKeysApart DEF ClientInv
<1> QED
  BY <1>2, <1>3, <1>4, <1>5

\* A client's commit: what it does to the store, and that it keeps what is
\* said of it.
LEMMA ClientApply ==
  ASSUME NEW p \in Clients, CatalogInv, LocalsInv, RowsInv, ClientInv(p),
         store' = Apply(store, dtx[p])
  PROVE  /\ SameCatalogKeys
         /\ store'.version \in Nat /\ store.version <= store'.version
         /\ store'.modified \in [AllKeys -> Nat]
         /\ DOMAIN store'.data = AllKeys
         /\ \A k \in AllKeys : store'.modified[k] <= store'.version
         /\ \A k \in AllKeys :
              IF k \in WriteSet(dtx[p])
              THEN /\ store'.data[k] = dtx[p].writes[k]
                   /\ store'.modified[k] = store.version + 1
              ELSE /\ store'.data[k] = store.data[k]
                   /\ store'.modified[k] = store.modified[k]
         /\ Later
         /\ RowsInv'
<1>1. /\ store.version \in Nat /\ store.modified \in [AllKeys -> Nat]
      /\ DOMAIN store.data = AllKeys
      /\ \A k \in AllKeys : store.modified[k] <= store.version
  BY DEF CatalogInv, TypeOK, StoreTypeOK
<1>2. /\ \A k \in AllKeys :
           IF k \in WriteSet(dtx[p])
           THEN /\ store'.data[k] = dtx[p].writes[k]
                /\ store'.modified[k] = store.version + 1
           ELSE /\ store'.data[k] = store.data[k]
                /\ store'.modified[k] = store.modified[k]
      /\ store'.version \in {store.version, store.version + 1}
      /\ WriteSet(dtx[p]) # {} => store'.version = store.version + 1
      /\ DOMAIN store'.data = AllKeys
      /\ store'.modified \in [AllKeys -> Nat]
  <2>1. CASE WriteSet(dtx[p]) = {}
    BY <1>1, <2>1 DEF Apply
  <2>2. CASE WriteSet(dtx[p]) # {}
    <3>1. \A k \in AllKeys : k \in WriteSet(dtx[p]) <=> dtx[p].writes[k] # Unwritten
      BY ClientWrites
    <3>2. store' = [version  |-> store.version + 1,
                    data     |-> [k \in AllKeys |->
                                    IF dtx[p].writes[k] # Unwritten THEN dtx[p].writes[k]
                                                                    ELSE store.data[k]],
                    modified |-> [k \in AllKeys |->
                                    IF dtx[p].writes[k] # Unwritten THEN store.version + 1
                                                                    ELSE store.modified[k]]]
      BY <1>1, <2>2 DEF Apply
    <3> QED
      BY <1>1, <2>2, <3>1, <3>2
  <2> QED
    BY <2>1, <2>2
<1>3. \A k \in AllKeys : /\ store'.modified[k] <= store'.version
                         /\ store.modified[k] <= store'.modified[k]
  BY <1>1, <1>2
<1>4. SameCatalogKeys
  <2>1. \A k \in CatalogKeys : k \in AllKeys /\ k \notin WriteSet(dtx[p])
    BY ClientWrites, RowKeysApart DEF AllKeys, CatalogKeys
  <2> QED
    BY <1>2, <2>1 DEF SameCatalogKeys
<1>5. /\ store'.data[CounterKey] = store.data[CounterKey]
      /\ \A n \in Names : store'.data[TableKey(n)] = store.data[TableKey(n)]
  BY <1>4 DEF SameCatalogKeys, CatalogKeys
<1>6. NextId(store.data[CounterKey]) \in Nat
  BY TableHandles
<1>7. Later
  <2>1. \A n \in Names : HasTable(n) => HasTable(n)' /\ TableHandle(n)' = TableHandle(n)
    BY <1>5 DEF HasTable, TableHandle, GetTable
  <2> QED
    BY <1>1, <1>2, <1>3, <1>5, <1>6, <2>1 DEF Later
<1>8. RowsInv'
  <2> SUFFICES ASSUME NEW id \in TableIds, NEW pk \in Pks
               PROVE  /\ store'.data[RowKey(id, pk)] \in Rows \cup {Absent}
                      /\ id >= NextId(store.data[CounterKey]) =>
                           /\ store'.data[RowKey(id, pk)] = Absent
                           /\ store'.modified[RowKey(id, pk)] = 0
    BY <1>5 DEF RowsInv
  <2>1. RowKey(id, pk) \in AllKeys
    BY RowKeysApart
  <2>2. CASE RowKey(id, pk) \in WriteSet(dtx[p])
    <3>1. id < NextId(store.data[CounterKey]) /\ id \in Int
      BY <2>2, ClientWrites, IdSpaceAssumption DEF TableIds
    <3>2. dtx[p].writes[RowKey(id, pk)] \in Rows \cup {Absent}
      BY <2>2, ClientWrites
    <3> QED
      BY <1>2, <1>6, <2>1, <2>2, <3>1, <3>2
  <2>3. CASE RowKey(id, pk) \notin WriteSet(dtx[p])
    BY <1>2, <2>1, <2>3 DEF RowsInv
  <2> QED
    BY <2>2, <2>3
<1> QED
  BY <1>1, <1>2, <1>3, <1>4, <1>7, <1>8

-----------------------------------------------------------------------------
(* Every step keeps DbInv.                                                 *)

LEMMA DbInitInv == DbInit => DbInv
<1> SUFFICES ASSUME DbInit PROVE DbInv
  OBVIOUS
<1>1. CatalogInv
  BY CatalogInit DEF DbInit
<1>2. LocalsInv
  BY DEF DbInit, LocalsInv, Done
<1>3. RowsInv
  BY RowKeysApart DEF DbInit, Init, NewStore, RowsInv
<1>4. \A p \in Clients : ~IsOpen(p)
  BY DEF DbInit, IsOpen
<1> QED
  BY <1>1, <1>2, <1>3, <1>4 DEF DbInv

\* Ending a transaction, whatever becomes of it.
LEMMA EndTxnLocals ==
  ASSUME NEW p \in Clients, LocalsInv, NEW how, EndTxn(p, how),
         how.kind # "unrecognized"
  PROVE  /\ LocalsInv'
         /\ ~IsOpen(p)'
         /\ \A q \in Clients \ {p} :
              /\ dtx'[q] = dtx[q] /\ touched'[q] = touched[q]
              /\ phase'[q] = phase[q] /\ refusal'[q] = refusal[q]
  BY DEF LocalsInv, EndTxn, IsOpen

\* A step that ends p's transaction keeps the invariant if the store is right.
LEMMA EndStep ==
  ASSUME NEW p \in Clients, DbInv, CatalogInv', RowsInv', Later,
         NEW how, EndTxn(p, how), how.kind # "unrecognized"
  PROVE  DbInv'
<1>1. LocalsInv' /\ ~IsOpen(p)'
  BY EndTxnLocals DEF DbInv
<1>2. ASSUME NEW q \in Clients, IsOpen(q)'
      PROVE  ClientInv(q)'
  <2>1. q # p
    BY <1>1, <1>2
  <2>2. /\ dtx'[q] = dtx[q] /\ touched'[q] = touched[q]
        /\ phase'[q] = phase[q] /\ refusal'[q] = refusal[q]
    BY <2>1, EndTxnLocals DEF DbInv
  <2>3. IsOpen(q) /\ touched[q] \subseteq Names
    BY <1>2, <2>2 DEF IsOpen, DbInv, LocalsInv
  <2> QED
    BY <2>2, <2>3, ClientKept DEF DbInv
<1> QED
  BY <1>1, <1>2 DEF DbInv

\* Steps that leave the store and the catalog's locals alone.
LEMMA SameVars ==
  ASSUME DbInv, UNCHANGED vars
  PROVE  CatalogInv' /\ RowsInv' /\ Later
<1>1. CatalogInv'
  BY NextKeepsCatalog DEF DbInv
<1> QED
  BY <1>1, CatalogKeepsRows DEF DbInv, vars

\* A commit of p, with the catalog's locals kept or, in a crash, forgotten.
LEMMA ApplyKeepsCatalog ==
  ASSUME NEW p \in Clients, DbInv, IsOpen(p), store' = Apply(store, dtx[p]),
         UNCHANGED catalogVars \/ ForgetLocals
  PROVE  CatalogInv' /\ RowsInv' /\ Later
<1>1. /\ SameCatalogKeys
      /\ store'.version \in Nat /\ store.version <= store'.version
      /\ store'.modified \in [AllKeys -> Nat]
      /\ DOMAIN store'.data = AllKeys
      /\ \A k \in AllKeys : store'.modified[k] <= store'.version
      /\ Later /\ RowsInv'
  BY ClientApply DEF DbInv
<1>2. CASE UNCHANGED catalogVars
  BY <1>1, <1>2, RowsOnly DEF catalogVars, DbInv, CatalogInv, TypeOK
<1>3. CASE ForgetLocals
  <2>1. /\ pc' \in [Creators -> {"idle", "commit"}]
        /\ result' \in [Creators -> Results]
        /\ DOMAIN tx' = Creators /\ DOMAIN req' = Creators
        /\ \A d \in Creators : pc'[d] # "commit"
        /\ listing' = [l \in Listers |-> NotListing]
        /\ acked' = acked
    BY <1>3 DEF ForgetLocals, Results
  <2> QED
    BY <1>1, <2>1, RowsOnly DEF DbInv
<1> QED
  BY <1>1, <1>2, <1>3

\* BEGIN: a fresh snapshot.
LEMMA BeginStep ==
  ASSUME NEW p \in Clients, DbInv, BeginTxn(p)
  PROVE  DbInv'
<1>1. CatalogInv' /\ RowsInv' /\ Later
  BY SameVars DEF BeginTxn
<1>2. LocalsInv'
  BY DEF DbInv, LocalsInv, BeginTxn, Done
<1>3. /\ store.version \in Nat
      /\ DOMAIN store.data = AllKeys
  BY DEF DbInv, CatalogInv, TypeOK, StoreTypeOK
<1>4. /\ dtx'[p] = [at |-> store.version, view |-> store.data,
                    writes |-> [k \in AllKeys |-> Unwritten]]
      /\ phase'[p] = "open" /\ store' = store
  BY <1>3 DEF BeginTxn, Begin, DbInv, LocalsInv, vars
<1>5. WriteSet(dtx'[p]) = {}
  BY <1>4 DEF WriteSet
<1>6. ClientInv(p)'
  <2>1. DOMAIN dtx'[p] = {"at", "view", "writes"}
    BY <1>4
  <2>2. \A id \in TableIds, pk \in Pks :
          /\ dtx'[p].writes[RowKey(id, pk)] = Unwritten
          /\ id >= NextId(store.data[CounterKey]) =>
               dtx'[p].view[RowKey(id, pk)] = Absent
    BY <1>4, RowKeysApart DEF DbInv, RowsInv
  <2> QED
    BY <1>3, <1>4, <1>5, <2>1, <2>2 DEF ClientInv
<1>7. ASSUME NEW q \in Clients, IsOpen(q)', q # p
      PROVE  ClientInv(q)'
  <2>1. /\ dtx'[q] = dtx[q] /\ touched'[q] = touched[q]
        /\ phase'[q] = phase[q] /\ refusal'[q] = refusal[q]
        /\ IsOpen(q) /\ touched[q] \subseteq Names
    BY <1>7 DEF BeginTxn, IsOpen, DbInv, LocalsInv
  <2> QED
    BY <1>1, <2>1, ClientKept DEF DbInv
<1> QED
  BY <1>1, <1>2, <1>6, <1>7 DEF DbInv

\* A call that changes one row: v is what it leaves, Absent for a delete.
LEMMA ChangeStep ==
  ASSUME NEW p \in Clients, NEW n \in Names, NEW pk \in Pks,
         NEW v \in Rows \cup {Absent}, DbInv, UseTable(p, n),
         dtx' = [dtx EXCEPT ![p] = RelWrite(@, TableHandle(n).table_id, pk, v)],
         UNCHANGED <<vars, phase, refusal, outcome>>
  PROVE  DbInv'
<1> DEFINE key == RowKey(TableHandle(n).table_id, pk)
<1>1. CatalogInv' /\ RowsInv' /\ Later /\ store' = store
  BY SameVars DEF vars
<1>2. LocalsInv'
  BY DEF DbInv, LocalsInv, UseTable
<1>3. HasTable(n) /\ TableHandle(n).table_id \in TableIds
  BY TableHandles DEF DbInv, UseTable
<1>4. key \in AllKeys
  BY <1>3, RowKeysApart
<1>5. IsOpen(p) /\ ClientInv(p) /\ phase[p] = "open" /\ phase'[p] = "open"
  BY DEF UseTable, IsOpen, DbInv
<1>6. /\ DOMAIN dtx'[p] = {"at", "view", "writes"}
      /\ dtx'[p].at = dtx[p].at /\ dtx'[p].view = dtx[p].view
      /\ dtx'[p].writes = [dtx[p].writes EXCEPT ![key] = v]
      /\ DOMAIN dtx'[p].writes = AllKeys
  BY <1>5 DEF ClientInv, RelWrite, Put, DbInv, LocalsInv
<1>7. touched'[p] = touched[p] \cup {n}
  BY DEF UseTable, DbInv, LocalsInv
<1>8. v # Unwritten
  BY DatabaseAssumption, MarkerAssumption
<1> HIDE DEF key
<1>9. WriteSet(dtx'[p]) = WriteSet(dtx[p]) \cup {key}
  BY <1>4, <1>5, <1>6, <1>8 DEF WriteSet, ClientInv
<1>10. ClientInv(p)'
  <2>1. \A k \in WriteSet(dtx'[p]) : \E m \in touched'[p], x \in Pks :
          HasTable(m)' /\ k = RowKey(TableHandle(m)'.table_id, x)
    <3>1. \A m : HasTable(m)' = HasTable(m) /\ TableHandle(m)' = TableHandle(m)
      BY <1>1 DEF HasTable, TableHandle
    <3> QED
      BY <1>3, <1>5, <1>7, <1>9, <3>1 DEF ClientInv, key
  <2>2. \A id \in TableIds, x \in Pks :
          dtx'[p].writes[RowKey(id, x)] \in Rows \cup {Absent, Unwritten}
    BY <1>4, <1>5, <1>6, RowKeysApart DEF ClientInv
  <2> QED
    BY <1>1, <1>5, <1>6, <2>1, <2>2 DEF ClientInv
<1>11. ASSUME NEW q \in Clients, IsOpen(q)', q # p
       PROVE  ClientInv(q)'
  <2>1. /\ dtx'[q] = dtx[q] /\ touched'[q] = touched[q]
        /\ phase'[q] = phase[q] /\ refusal'[q] = refusal[q]
        /\ IsOpen(q) /\ touched[q] \subseteq Names
    BY <1>11 DEF UseTable, IsOpen, DbInv, LocalsInv
  <2> QED
    BY <1>1, <2>1, ClientKept DEF DbInv
<1> QED
  BY <1>1, <1>2, <1>10, <1>11 DEF DbInv

\* The store refuses; the catalog has not been asked yet.
LEMMA RefuseStep ==
  ASSUME NEW p \in Clients, DbInv, RefuseTxn(p)
  PROVE  DbInv'
<1>1. CatalogInv' /\ RowsInv' /\ Later /\ store' = store
  BY SameVars DEF RefuseTxn, vars
<1>2. PICK k \in Conflicts(store, dtx[p]) : refusal' = [refusal EXCEPT ![p] = k]
  BY DEF RefuseTxn
<1>3. IsOpen(p) /\ ClientInv(p)
  BY DEF RefuseTxn, IsOpen, DbInv
<1>4. k # NoKey
  <2>1. k \in RowKeys
    BY <1>2, <1>3, ClientWrites DEF Conflicts, DbInv
  <2> QED
    BY <2>1, RowKeysApart
<1>5. LocalsInv'
  BY <1>2, <1>4 DEF DbInv, LocalsInv, RefuseTxn
<1>6. ClientInv(p)'
  <2>1. \A m : HasTable(m)' = HasTable(m) /\ TableHandle(m)' = TableHandle(m)
    BY <1>1 DEF HasTable, TableHandle
  <2>2. refusal'[p] = k /\ dtx' = dtx /\ touched' = touched
    BY <1>2 DEF RefuseTxn, DbInv, LocalsInv
  <2> QED
    BY <1>1, <1>2, <1>3, <2>1, <2>2 DEF ClientInv
<1>7. ASSUME NEW q \in Clients, IsOpen(q)', q # p
      PROVE  ClientInv(q)'
  <2>1. /\ dtx'[q] = dtx[q] /\ touched'[q] = touched[q]
        /\ phase'[q] = phase[q] /\ refusal'[q] = refusal[q]
        /\ IsOpen(q) /\ touched[q] \subseteq Names
    BY <1>2, <1>7 DEF RefuseTxn, IsOpen, DbInv, LocalsInv
  <2> QED
    BY <1>1, <2>1, ClientKept DEF DbInv
<1> QED
  BY <1>1, <1>5, <1>6, <1>7 DEF DbInv

\* conflict_error can always say which row it was.
LEMMA BlameIsRight ==
  ASSUME NEW p \in Clients, DbInv, phase[p] = "refused"
  PROVE  \E n \in touched[p], pk \in Pks :
           /\ n \in Names /\ HasTable(n)
           /\ refusal[p] = RowKey(TableHandle(n).table_id, pk)
           /\ refusal[p] \in Conflicts(store, dtx[p])
           /\ BlameKey(store, refusal[p]) = ConflictAt(<<n, pk>>)
<1>1. ClientInv(p)
  BY DEF DbInv, IsOpen
<1>2. refusal[p] \in Conflicts(store, dtx[p]) /\ refusal[p] \in WriteSet(dtx[p])
  BY <1>1 DEF ClientInv, Conflicts
<1>3. PICK n \in touched[p], pk \in Pks :
        HasTable(n) /\ refusal[p] = RowKey(TableHandle(n).table_id, pk)
  BY <1>1, <1>2 DEF ClientInv
<1>4. n \in Names
  BY DEF DbInv, LocalsInv
<1>5. BlameKey(store, refusal[p]) = ConflictAt(<<n, pk>>)
  BY <1>3, <1>4, BlameFinds DEF DbInv
<1> QED
  BY <1>2, <1>3, <1>4, <1>5

LEMMA ClientStepKeeps ==
  ASSUME NEW p \in Clients, DbInv, ClientStep(p)
  PROVE  DbInv'
<1>1. CASE BeginTxn(p)
  BY <1>1, BeginStep
<1>2. CASE CommitTxn(p)
  <2>1. IsOpen(p)
    BY <1>2 DEF CommitTxn, IsOpen
  <2>2. CatalogInv' /\ RowsInv' /\ Later
    BY <1>2, <2>1, ApplyKeepsCatalog DEF CommitTxn
  <2>3. Done("ok").kind # "unrecognized"
    BY DEF Done
  <2> QED
    BY <1>2, <2>2, <2>3, EndStep DEF CommitTxn
<1>3. CASE RefuseTxn(p)
  BY <1>3, RefuseStep
<1>4. CASE ConflictError(p)
  <2>1. CatalogInv' /\ RowsInv' /\ Later
    BY <1>4, SameVars DEF ConflictError
  <2>2. BlameKey(store, refusal[p]).kind # "unrecognized"
    <3>1. PICK n, pk : BlameKey(store, refusal[p]) = ConflictAt(<<n, pk>>)
      BY <1>4, BlameIsRight DEF ConflictError
    <3> QED
      BY <3>1 DEF ConflictAt
  <2> QED
    BY <1>4, <2>1, <2>2, EndStep DEF ConflictError
<1>5. CASE AbortTxn(p)
  <2>1. CatalogInv' /\ RowsInv' /\ Later
    BY <1>5, SameVars DEF AbortTxn
  <2>2. Done("aborted").kind # "unrecognized"
    BY DEF Done
  <2> QED
    BY <1>5, <2>1, <2>2, EndStep DEF AbortTxn
<1>6. CASE TxnStoreError(p)
  <2>1. IsOpen(p)
    BY <1>6 DEF TxnStoreError, IsOpen
  <2>2. CatalogInv' /\ RowsInv' /\ Later
    <3>1. CASE store' = store
      BY <1>6, <3>1, SameVars DEF TxnStoreError, vars, catalogVars
    <3>2. CASE store' = Apply(store, dtx[p])
      BY <1>6, <2>1, <3>2, ApplyKeepsCatalog DEF TxnStoreError
    <3> QED
      BY <1>6, <3>1, <3>2 DEF TxnStoreError
  <2>3. Done("store").kind # "unrecognized"
    BY DEF Done
  <2> QED
    BY <1>6, <2>2, <2>3, EndStep DEF TxnStoreError
<1>7. ASSUME NEW n \in Names, NEW pk \in Pks, DeleteRow(p, n, pk)
      PROVE  DbInv'
  BY <1>7, ChangeStep DEF DeleteRow, RelDelete, RelWrite, Delete
<1>8. ASSUME NEW n \in Names, NEW pk \in Pks, NEW v \in Rows, WriteRow(p, n, pk, v)
      PROVE  DbInv'
  BY <1>8, ChangeStep DEF WriteRow
<1> QED
  BY <1>1, <1>2, <1>3, <1>4, <1>5, <1>6, <1>7, <1>8 DEF ClientStep

\* Steps of creators and listers beside the clients.
LEMMA CatalogStepKeeps ==
  ASSUME DbInv, [Next]_vars, UNCHANGED clientVars
  PROVE  DbInv'
<1>1. CatalogInv'
  BY NextKeepsCatalog DEF DbInv
<1>2. RowsInv' /\ Later
  BY <1>1, CatalogKeepsRows DEF DbInv
<1>3. LocalsInv'
  BY DEF DbInv, LocalsInv, clientVars
<1>4. ASSUME NEW q \in Clients, IsOpen(q)'
      PROVE  ClientInv(q)'
  <2>1. /\ dtx'[q] = dtx[q] /\ touched'[q] = touched[q]
        /\ phase'[q] = phase[q] /\ refusal'[q] = refusal[q]
        /\ IsOpen(q) /\ touched[q] \subseteq Names
    BY <1>4 DEF clientVars, IsOpen, DbInv, LocalsInv
  <2> QED
    BY <1>1, <1>2, <2>1, ClientKept DEF DbInv
<1> QED
  BY <1>1, <1>2, <1>3, <1>4 DEF DbInv

\* A crash takes all the clients' transactions.
LEMMA DbCrashKeeps ==
  ASSUME DbInv, DbCrash
  PROVE  DbInv'
<1>1. CatalogInv' /\ RowsInv'
  <2>1. CASE CrashAndReopen
    <3>1. [Next]_vars
      BY <2>1 DEF Next
    <3>2. CatalogInv'
      BY <3>1, NextKeepsCatalog DEF DbInv
    <3> QED
      BY <3>1, <3>2, CatalogKeepsRows DEF DbInv
  <2>2. ASSUME NEW p \in Clients, phase[p] = "open",
               store' = Apply(store, dtx[p]), ForgetLocals
        PROVE  CatalogInv' /\ RowsInv'
    BY <2>2, ApplyKeepsCatalog DEF IsOpen
  <2> QED
    BY <2>1, <2>2 DEF DbCrash
<1>2. LocalsInv' /\ \A p \in Clients : ~IsOpen(p)'
  BY DEF DbCrash, ForgetClients, LocalsInv, IsOpen, Done
<1> QED
  BY <1>1, <1>2 DEF DbInv

LEMMA NextKeepsDb ==
  ASSUME DbInv, [DbNext]_dbVars
  PROVE  DbInv'
<1>1. CASE CatalogStep
  <2>1. [Next]_vars /\ UNCHANGED clientVars
    BY <1>1, CatalogAssumption DEF CatalogStep, Next
  <2> QED
    BY <2>1, CatalogStepKeeps
<1>2. ASSUME NEW p \in Clients, ClientStep(p)
      PROVE  DbInv'
  BY <1>2, ClientStepKeeps
<1>3. CASE DbCrash
  BY <1>3, DbCrashKeeps
<1>4. CASE UNCHANGED dbVars
  BY <1>4, CatalogStepKeeps DEF dbVars
<1> QED
  BY <1>1, <1>2, <1>3, <1>4 DEF DbNext

\* In every reachable state the catalog is consistent although rows share its
\* store, orphan keys were never written, and open transactions wrote only to
\* tables that exist: for any number of clients and creators, crashes and I/O
\* errors included.
THEOREM DatabaseInvariant == DbSpec => []DbInv
<1>1. DbInit => DbInv
  BY DbInitInv
<1>2. DbInv /\ [DbNext]_dbVars => DbInv'
  BY NextKeepsDb
<1> QED
  BY <1>1, <1>2, PTL DEF DbSpec

LEMMA TypesFollow == DbInv => DbTypeOK
<1> SUFFICES ASSUME DbInv PROVE DbTypeOK
  OBVIOUS
<1>1. \A k \in RowKeys : store.data[k] = Absent \/ store.data[k] \in Rows
  BY RowKeysApart DEF DbInv, RowsInv
<1>2. \A p \in Clients : IsOpen(p) =>
        /\ dtx[p].at \in 0 .. store.version
        /\ WriteSet(dtx[p]) \subseteq RowKeys
  BY ClientWrites DEF DbInv, ClientInv
<1> QED
  BY <1>1, <1>2 DEF DbInv, DbTypeOK, CatalogInv, LocalsInv

\* Every reachable state of the database is well typed.
THEOREM DatabaseTypeOK == DbSpec => []DbTypeOK
  BY TypesFollow, DatabaseInvariant, PTL

\* A new table starts empty, for the transactions that ran before it too:
\* nothing is stored, snapshotted or buffered under an id no table has.
THEOREM NewTablesAreEmpty == DbSpec => []NoOrphanRows
<1>1. DbInv => NoOrphanRows
  <2> SUFFICES ASSUME DbInv, NEW id \in TableIds, NEW pk \in Pks,
                      id >= NextId(store.data[CounterKey])
               PROVE  /\ store.data[RowKey(id, pk)] = Absent
                      /\ \A p \in Clients : IsOpen(p) =>
                           /\ Get(dtx[p], RowKey(id, pk)) = Absent
                           /\ RowKey(id, pk) \notin WriteSet(dtx[p])
    BY DEF NoOrphanRows
  <2>1. store.data[RowKey(id, pk)] = Absent
    BY DEF DbInv, RowsInv
  <2>2. ASSUME NEW p \in Clients, IsOpen(p)
        PROVE  /\ Get(dtx[p], RowKey(id, pk)) = Absent
               /\ RowKey(id, pk) \notin WriteSet(dtx[p])
    <3>1. ClientInv(p) /\ dtx[p].view[RowKey(id, pk)] = Absent
      BY <2>2 DEF DbInv, ClientInv
    <3>2. NextId(store.data[CounterKey]) \in Nat /\ id \in Int
      BY TableHandles, IdSpaceAssumption DEF DbInv, TableIds
    <3>3. RowKey(id, pk) \notin WriteSet(dtx[p]) /\ RowKey(id, pk) \in AllKeys
      BY <3>1, <3>2, ClientWrites, RowKeysApart DEF DbInv
    <3>4. dtx[p].writes[RowKey(id, pk)] = Unwritten
      BY <3>1, <3>3, ClientWrites DEF DbInv
    <3> QED
      BY <3>1, <3>3, <3>4 DEF Get
  <2> QED
    BY <2>1, <2>2
<1> QED
  BY <1>1, DatabaseInvariant, PTL

\* UnrecognizedConflict is unreachable, and the row a refused client is told
\* of is one it changed, in a table it used.
THEOREM RefusalsAreAttributed == DbSpec => []ConflictsAreAttributed
<1>1. DbInv => ConflictsAreAttributed
  <2> SUFFICES ASSUME DbInv PROVE ConflictsAreAttributed
    OBVIOUS
  <2>1. \A p \in Clients : outcome[p].kind # "unrecognized"
    BY DEF DbInv, LocalsInv
  <2>2. ASSUME NEW p \in Clients, phase[p] = "refused"
        PROVE  LET blame == BlameKey(store, refusal[p])
               IN  /\ blame.kind = "conflict"
                   /\ blame.row[1] \in touched[p]
                   /\ RowKey(TableHandle(blame.row[1]).table_id, blame.row[2])
                        \in WriteSet(dtx[p])
    <3>1. PICK n \in touched[p], pk \in Pks :
            /\ refusal[p] = RowKey(TableHandle(n).table_id, pk)
            /\ refusal[p] \in Conflicts(store, dtx[p])
            /\ BlameKey(store, refusal[p]) = ConflictAt(<<n, pk>>)
      BY <2>2, BlameIsRight
    <3>2. /\ ConflictAt(<<n, pk>>).kind = "conflict"
          /\ ConflictAt(<<n, pk>>).row = <<n, pk>>
          /\ <<n, pk>>[1] = n /\ <<n, pk>>[2] = pk
      BY DEF ConflictAt
    <3>3. RowKey(TableHandle(n).table_id, pk) \in WriteSet(dtx[p])
      BY <3>1 DEF Conflicts
    <3> QED
      BY <3>1, <3>2, <3>3
  <2> QED
    BY <2>1, <2>2 DEF ConflictsAreAttributed
<1> QED
  BY <1>1, DatabaseInvariant, PTL

-----------------------------------------------------------------------------
(* Database implements SnapshotRows: the catalog inside the store, table   *)
(* ids and the shared key space are invisible to clients.                  *)

KeyOf(r) == RowKey(TableHandle(r[1]).table_id, r[2])

\* The mapped variables of one client, or of one row, in terms of keys.
LEMMA Mapped ==
  DbInv =>
    /\ RowsNow = [r \in Names \X Pks |->
                    IF HasTable(r[1]) THEN store.data[KeyOf(r)] ELSE Absent]
    /\ \A r \in Names \X Pks : HasTable(r[1]) =>
         KeyOf(r) \in RowKeys /\ KeyOf(r) \in AllKeys
    /\ \A q, r \in Names \X Pks :
         HasTable(q[1]) /\ HasTable(r[1]) /\ KeyOf(q) = KeyOf(r) => q = r
<1> SUFFICES ASSUME DbInv
             PROVE  /\ RowsNow = [r \in Names \X Pks |->
                                    IF HasTable(r[1]) THEN store.data[KeyOf(r)] ELSE Absent]
                    /\ \A r \in Names \X Pks : HasTable(r[1]) =>
                         KeyOf(r) \in RowKeys /\ KeyOf(r) \in AllKeys
                    /\ \A q, r \in Names \X Pks :
                         HasTable(q[1]) /\ HasTable(r[1]) /\ KeyOf(q) = KeyOf(r) => q = r
  OBVIOUS
<1>1. ASSUME NEW r \in Names \X Pks, HasTable(r[1])
      PROVE  /\ r[1] \in Names /\ r[2] \in Pks
             /\ TableHandle(r[1]).table_id \in TableIds
             /\ KeyOf(r) \in RowKeys /\ KeyOf(r) \in AllKeys
  <2>1. r[1] \in Names /\ r[2] \in Pks
    OBVIOUS
  <2>2. TableHandle(r[1]).table_id \in TableIds
    BY <1>1, <2>1, TableHandles DEF DbInv
  <2> QED
    BY <2>1, <2>2, RowKeysApart DEF KeyOf
<1>2. ASSUME NEW r \in Names \X Pks, HasTable(r[1])
      PROVE  RelRead(Begin(store), TableHandle(r[1]).table_id, r[2]) = store.data[KeyOf(r)]
  <2>1. KeyOf(r) \in DOMAIN store.data
    BY <1>1, <1>2 DEF DbInv, CatalogInv, TypeOK, StoreTypeOK
  <2>2. Begin(store).writes[KeyOf(r)] = Unwritten /\ Begin(store).view = store.data
    BY <2>1 DEF Begin
  <2> QED
    BY <2>2 DEF RelRead, Get, KeyOf
<1>3. RowsNow = [r \in Names \X Pks |->
                   IF HasTable(r[1]) THEN store.data[KeyOf(r)] ELSE Absent]
  BY <1>2 DEF RowsNow, RowsOf
<1>4. ASSUME NEW q \in Names \X Pks, NEW r \in Names \X Pks,
             HasTable(q[1]), HasTable(r[1]), KeyOf(q) = KeyOf(r)
      PROVE  q = r
  <2>1. /\ TableHandle(q[1]).table_id = TableHandle(r[1]).table_id
        /\ q[2] = r[2]
    BY <1>1, <1>4, RowKeysApart DEF KeyOf
  <2>2. q[1] = r[1]
    BY <1>1, <1>4, <2>1, TableHandles DEF DbInv
  <2>3. q = <<q[1], q[2]>> /\ r = <<r[1], r[2]>>
    OBVIOUS
  <2> QED
    BY <2>1, <2>2, <2>3
<1> QED
  BY <1>1, <1>3, <1>4

-----------------------------------------------------------------------------
\* A table that a step adds has an id nobody had used.
LEMMA NewTablesAreHigh ==
  ASSUME CatalogInv, CatalogInv', [Next]_vars, NEW n \in Names,
         ~HasTable(n), HasTable(n)'
  PROVE  /\ TableHandle(n)'.table_id \in TableIds
         /\ TableHandle(n)'.table_id >= NextId(store.data[CounterKey])
<1>1. /\ Index \in Seq(Names) /\ Len(Index) \in Nat
      /\ NextId(store.data[CounterKey]) = Len(Index)
  BY DEF CatalogInv, TypeOK, StoreTypeOK, CatalogConsistent, Index, NamesIn
<1>2. PICK i \in 1 .. Len(Index') : Index'[i] = n
  BY DEF CatalogInv, CatalogConsistent
<1>3. Len(Index') \in Nat
  BY DEF CatalogInv, TypeOK, StoreTypeOK, Index, NamesIn
<1>4. store'.data[TableKey(n)].table_id = i - 1
  BY <1>2 DEF CatalogInv, CatalogConsistent
<1>5. n # EmptyName /\ store'.data[TableKey(n)] \in Entries
  BY CatalogAssumption DEF CatalogInv, TypeOK, StoreTypeOK, HasTable
<1>6. TableHandle(n)'.table_id = i - 1
  <2>1. TableHandle(n)' = Handle(n, store'.data[TableKey(n)].table_id,
                                 store'.data[TableKey(n)].schema)
    BY <1>5 DEF TableHandle, GetTable, HasTable
  <2> QED
    BY <1>4, <2>1 DEF Handle
<1>7. i > Len(Index)
  <2>1. ASSUME i <= Len(Index) PROVE FALSE
    <3>1. i \in 1 .. Len(Index)
      BY <1>1, <1>3, <2>1
    <3>2. Index[i] = n
      BY <1>2, <3>1, ListGrows
    <3> QED
      BY <3>1, <3>2 DEF CatalogInv, CatalogConsistent
  <2> QED
    BY <1>1, <1>3, <2>1
<1>8. TableHandle(n)'.table_id \in TableIds
  BY <1>4, <1>5, <1>6 DEF Entries
<1> QED
  BY <1>1, <1>3, <1>6, <1>7, <1>8

\* The catalog's steps change no row that has a name ...
LEMMA CatalogKeepsNamedRows ==
  ASSUME DbInv, DbInv', [Next]_vars
  PROVE  RowsNow' = RowsNow
<1>1. /\ Later
      /\ \A k \in RowKeys : store'.data[k] = store.data[k]
  BY CatalogKeepsRows DEF DbInv
<1>2. ASSUME NEW r \in Names \X Pks
      PROVE  (IF HasTable(r[1])' THEN store'.data[KeyOf(r)'] ELSE Absent)
               = IF HasTable(r[1]) THEN store.data[KeyOf(r)] ELSE Absent
  <2>0. r[1] \in Names /\ r[2] \in Pks
    OBVIOUS
  <2>1. CASE HasTable(r[1])
    <3>1. HasTable(r[1])' /\ KeyOf(r)' = KeyOf(r)
      BY <1>1, <2>0, <2>1 DEF Later, KeyOf
    <3>2. KeyOf(r) \in RowKeys
      BY <2>1, Mapped
    <3> QED
      BY <1>1, <2>1, <3>1, <3>2
  <2>2. CASE ~HasTable(r[1]) /\ HasTable(r[1])'
    <3>1. /\ TableHandle(r[1])'.table_id \in TableIds
          /\ TableHandle(r[1])'.table_id >= NextId(store.data[CounterKey])
      BY <2>0, <2>2, NewTablesAreHigh DEF DbInv
    <3>2. store.data[KeyOf(r)'] = Absent /\ KeyOf(r)' \in RowKeys
      BY <2>0, <3>1, RowKeysApart DEF DbInv, RowsInv, KeyOf
    <3> QED
      BY <1>1, <2>2, <3>2
  <2>3. CASE ~HasTable(r[1]) /\ ~HasTable(r[1])'
    BY <2>3
  <2> QED
    BY <2>1, <2>2, <2>3
<1>3. RowsNow' = [r \in Names \X Pks |->
                    IF HasTable(r[1])' THEN store'.data[KeyOf(r)'] ELSE Absent]
  <2>1. (DbInv => RowsNow = [r \in Names \X Pks |->
                    IF HasTable(r[1]) THEN store.data[KeyOf(r)] ELSE Absent])'
    BY Mapped, PTL
  <2> QED
    BY <2>1
<1> QED
  BY <1>2, <1>3, Mapped

\* ... and add at most one table.
LEMMA CatalogAddsOne ==
  ASSUME DbInv, [Next]_vars
  PROVE  \/ TablesNow' = TablesNow
         \/ \E n \in Names \ TablesNow : TablesNow' = TablesNow \cup {n}
<1>1. CASE store' = store
  BY <1>1 DEF TablesNow, HasTable
<1>2. ASSUME NEW c \in Creators, pc[c] = "commit",
             Conflicts(store, tx[c]) = {}, store' = Apply(store, tx[c])
      PROVE  \E n \in Names \ TablesNow : TablesNow' = TablesNow \cup {n}
  <2>1. /\ req[c].name \in Names /\ ~HasTable(req[c].name)
        /\ \A n \in Names : store'.data[TableKey(n)] =
              IF n = req[c].name THEN Entry(Len(Index), req[c].schema)
                                 ELSE store.data[TableKey(n)]
        /\ req[c].table_id = Len(Index) /\ req[c] \in Handles
    BY <1>2, AfterCommit DEF DbInv, Handles
  <2>2. Entry(Len(Index), req[c].schema) # Absent
    <3>1. Entry(Len(Index), req[c].schema) \in Entries
      BY <2>1 DEF Entry, Entries, Handles
    <3> QED
      BY <3>1, MarkerAssumption
  <2>3. TablesNow' = TablesNow \cup {req[c].name}
    BY <2>1, <2>2 DEF TablesNow, HasTable
  <2> QED
    BY <2>1, <2>3 DEF TablesNow
<1> QED
  BY <1>1, <1>2, StoreChanges DEF DbInv

-----------------------------------------------------------------------------
(* Clients that a step leaves alone see nothing of it but what SnapshotRows *)
(* says.                                                                   *)

NewAreHigh ==
  \A n \in Names : ~HasTable(n) /\ HasTable(n)' =>
    /\ TableHandle(n)'.table_id \in TableIds
    /\ TableHandle(n)'.table_id >= NextId(store.data[CounterKey])

\* The keys a client's transaction has under tables it cannot know of.
LEMMA HighKeys ==
  ASSUME DbInv, NEW q \in Clients, IsOpen(q), NEW id \in TableIds, NEW pk \in Pks,
         id >= NextId(store.data[CounterKey])
  PROVE  /\ Get(dtx[q], RowKey(id, pk)) = Absent
         /\ RowKey(id, pk) \notin WriteSet(dtx[q])
         /\ ~(store.modified[RowKey(id, pk)] > dtx[q].at)
<1>1. ClientInv(q) /\ dtx[q].view[RowKey(id, pk)] = Absent
  BY DEF DbInv, ClientInv
<1>2. NextId(store.data[CounterKey]) \in Nat /\ id \in Int
  BY TableHandles, IdSpaceAssumption DEF DbInv, TableIds
<1>3. RowKey(id, pk) \notin WriteSet(dtx[q]) /\ RowKey(id, pk) \in AllKeys
  BY <1>1, <1>2, ClientWrites, RowKeysApart DEF DbInv
<1>4. dtx[q].writes[RowKey(id, pk)] = Unwritten
  BY <1>1, <1>3, ClientWrites DEF DbInv
<1>5. store.modified[RowKey(id, pk)] = 0 /\ store.version \in Nat
  BY DEF DbInv, RowsInv, CatalogInv, TypeOK, StoreTypeOK
<1> QED
  BY <1>1, <1>3, <1>4, <1>5 DEF Get, ClientInv

\* What a client sees and has changed, by the names of the tables.
LEMMA ViewFollows ==
  ASSUME DbInv, NEW q \in Clients, Later, NewAreHigh,
         phase'[q] = phase[q], dtx'[q] = dtx[q]
  PROVE  ViewNow'[q] = ViewNow[q] /\ DirtyNow'[q] = DirtyNow[q]
<1> DEFINE t == dtx[q]
<1>1. CASE ~IsOpen(q)
  BY <1>1 DEF IsOpen, ViewNow, DirtyNow
<1>2. CASE IsOpen(q)
  <2>1. ASSUME NEW r \in Names \X Pks
        PROVE  /\ (IF HasTable(r[1])' THEN Get(t, KeyOf(r)') ELSE Absent)
                    = IF HasTable(r[1]) THEN Get(t, KeyOf(r)) ELSE Absent
               /\ HasTable(r[1])' /\ KeyOf(r)' \in WriteSet(t)
                    <=> HasTable(r[1]) /\ KeyOf(r) \in WriteSet(t)
    <3>0. r[1] \in Names /\ r[2] \in Pks
      OBVIOUS
    <3>1. CASE HasTable(r[1])
      <4>1. HasTable(r[1])' /\ KeyOf(r)' = KeyOf(r)
        BY <3>0, <3>1 DEF Later, KeyOf
      <4> QED
        BY <3>1, <4>1
    <3>2. CASE ~HasTable(r[1]) /\ HasTable(r[1])'
      <4>1. /\ TableHandle(r[1])'.table_id \in TableIds
            /\ TableHandle(r[1])'.table_id >= NextId(store.data[CounterKey])
        BY <3>0, <3>2 DEF NewAreHigh
      <4>2. /\ Get(t, RowKey(TableHandle(r[1])'.table_id, r[2])) = Absent
            /\ RowKey(TableHandle(r[1])'.table_id, r[2]) \notin WriteSet(t)
        BY <1>2, <3>0, <4>1, HighKeys
      <4> QED
        BY <3>2, <4>2 DEF KeyOf
    <3>3. CASE ~HasTable(r[1]) /\ ~HasTable(r[1])'
      BY <3>3
    <3> QED
      BY <3>1, <3>2, <3>3
  <2>2. /\ ViewNow[q] = [r \in Names \X Pks |->
                           IF HasTable(r[1]) THEN Get(t, KeyOf(r)) ELSE Absent]
        /\ ViewNow'[q] = [r \in Names \X Pks |->
                           IF HasTable(r[1])' THEN Get(t, KeyOf(r)') ELSE Absent]
    BY <1>2 DEF IsOpen, ViewNow, RowsOf, RelRead, KeyOf
  <2>3. /\ DirtyNow[q] = {r \in Names \X Pks : HasTable(r[1]) /\ KeyOf(r) \in WriteSet(t)}
        /\ DirtyNow'[q] = {r \in Names \X Pks : HasTable(r[1])' /\ KeyOf(r)' \in WriteSet(t)}
    BY <1>2 DEF IsOpen, DirtyNow, PlacesOf, KeyOf
  <2> HIDE DEF t
  <2> QED
    BY <2>1, <2>2, <2>3
<1> QED
  BY <1>1, <1>2

\* What others changed meanwhile, while no row changes.
LEMMA StaleStays ==
  ASSUME DbInv, NEW q \in Clients, Later, NewAreHigh,
         phase'[q] = phase[q], dtx'[q] = dtx[q],
         \A k \in RowKeys : store'.modified[k] = store.modified[k]
  PROVE  StaleNow'[q] = StaleNow[q]
<1>1. CASE ~IsOpen(q)
  BY <1>1 DEF IsOpen, StaleNow
<1>2. CASE IsOpen(q)
  <2>1. ASSUME NEW r \in Names \X Pks
        PROVE  HasTable(r[1])' /\ KeyOf(r)' \in Changed(q)'
                 <=> HasTable(r[1]) /\ KeyOf(r) \in Changed(q)
    <3>0. r[1] \in Names /\ r[2] \in Pks
      OBVIOUS
    <3>1. CASE HasTable(r[1])
      <4>1. HasTable(r[1])' /\ KeyOf(r)' = KeyOf(r) /\ KeyOf(r) \in RowKeys
        BY <3>0, <3>1, Mapped DEF Later, KeyOf
      <4> QED
        BY <3>1, <4>1 DEF Changed
    <3>2. CASE ~HasTable(r[1]) /\ HasTable(r[1])'
      <4>1. /\ TableHandle(r[1])'.table_id \in TableIds
            /\ TableHandle(r[1])'.table_id >= NextId(store.data[CounterKey])
        BY <3>0, <3>2 DEF NewAreHigh
      <4>2. ~(store.modified[RowKey(TableHandle(r[1])'.table_id, r[2])] > dtx[q].at)
        BY <1>2, <3>0, <4>1, HighKeys
      <4>3. /\ KeyOf(r)' = RowKey(TableHandle(r[1])'.table_id, r[2])
            /\ KeyOf(r)' \in RowKeys
        BY <3>0, <4>1, RowKeysApart DEF KeyOf
      <4> QED
        BY <3>2, <4>2, <4>3 DEF Changed
    <3>3. CASE ~HasTable(r[1]) /\ ~HasTable(r[1])'
      BY <3>3
    <3> QED
      BY <3>1, <3>2, <3>3
  <2>2. /\ StaleNow[q] = {r \in Names \X Pks : HasTable(r[1]) /\ KeyOf(r) \in Changed(q)}
        /\ StaleNow'[q] = {r \in Names \X Pks : HasTable(r[1])' /\ KeyOf(r)' \in Changed(q)'}
    BY <1>2 DEF IsOpen, StaleNow, PlacesOf, KeyOf
  <2> QED
    BY <2>1, <2>2
<1> QED
  BY <1>1, <1>2

\* Steps of creators and listers: at most, a table appears.
LEMMA CatalogStepMaps ==
  ASSUME DbInv, DbInv', [Next]_vars, UNCHANGED clientVars
  PROVE  [Snapshots!Next]_(Snapshots!vars)
<1>1. RowsNow' = RowsNow
  BY CatalogKeepsNamedRows
<1>2. /\ Later
      /\ \A k \in RowKeys : store'.modified[k] = store.modified[k]
  BY CatalogKeepsRows DEF DbInv
<1>3. NewAreHigh
  BY NewTablesAreHigh DEF DbInv, NewAreHigh
<1>4. /\ OpenNow' = OpenNow /\ outcome' = outcome
      /\ \A q \in Clients : phase'[q] = phase[q] /\ dtx'[q] = dtx[q]
  BY DEF clientVars, OpenNow, IsOpen
<1>5. \A q \in Clients : /\ ViewNow'[q] = ViewNow[q] /\ DirtyNow'[q] = DirtyNow[q]
                         /\ StaleNow'[q] = StaleNow[q]
  BY <1>2, <1>3, <1>4, ViewFollows, StaleStays
<1>6. ViewNow' = ViewNow /\ DirtyNow' = DirtyNow /\ StaleNow' = StaleNow
  BY <1>5 DEF ViewNow, DirtyNow, StaleNow
<1>7. CASE TablesNow' = TablesNow
  BY <1>1, <1>4, <1>6, <1>7 DEF Snapshots!vars
<1>8. ASSUME NEW n \in Names \ TablesNow, TablesNow' = TablesNow \cup {n}
      PROVE  Snapshots!CreateTable(n)
  BY <1>1, <1>4, <1>6, <1>8 DEF Snapshots!CreateTable
<1> QED
  BY <1>7, <1>8, CatalogAddsOne DEF Snapshots!Next

-----------------------------------------------------------------------------
(* Steps of clients.                                                       *)

\* They leave the tables as they are.
LEMMA SameTables ==
  ASSUME SameCatalogKeys
  PROVE  /\ NewAreHigh /\ TablesNow' = TablesNow
         /\ \A r \in Names \X Pks : HasTable(r[1])' = HasTable(r[1])
                                    /\ KeyOf(r)' = KeyOf(r)
<1>1. \A n \in Names : store'.data[TableKey(n)] = store.data[TableKey(n)]
  BY DEF SameCatalogKeys, CatalogKeys
<1>2. \A n \in Names : HasTable(n)' = HasTable(n) /\ TableHandle(n)' = TableHandle(n)
  BY <1>1 DEF HasTable, TableHandle, GetTable
<1>3. \A r \in Names \X Pks : r[1] \in Names
  OBVIOUS
<1> QED
  BY <1>2, <1>3 DEF NewAreHigh, TablesNow, KeyOf

\* The end of p's transaction, for what SnapshotRows sees of the clients.
LEMMA EndMaps ==
  ASSUME DbInv, NEW p \in Clients, NEW how, EndTxn(p, how), Later, SameCatalogKeys
  PROVE  Snapshots!Close(p, how)
<1>1. NewAreHigh
  BY SameTables
<1>2. /\ phase' = [phase EXCEPT ![p] = "idle"]
      /\ outcome' = [outcome EXCEPT ![p] = how]
      /\ \A q \in Clients \ {p} : phase'[q] = phase[q] /\ dtx'[q] = dtx[q]
      /\ phase'[p] = "idle"
  BY DEF EndTxn, DbInv, LocalsInv
<1>3. \A q \in Clients \ {p} : ViewNow'[q] = ViewNow[q] /\ DirtyNow'[q] = DirtyNow[q]
  BY <1>1, <1>2, ViewFollows
<1>4. ViewNow'[p] = Snapshots!NoRows /\ DirtyNow'[p] = {}
  BY <1>2 DEF ViewNow, DirtyNow, IsOpen, Snapshots!NoRows, Snapshots!Places
<1>5. ViewNow' = [ViewNow EXCEPT ![p] = Snapshots!NoRows]
  BY <1>3, <1>4 DEF ViewNow
<1>6. DirtyNow' = [DirtyNow EXCEPT ![p] = {}]
  BY <1>3, <1>4 DEF DirtyNow
<1>7. OpenNow' = OpenNow \ {p}
  BY <1>2 DEF OpenNow, IsOpen
<1> QED
  BY <1>2, <1>5, <1>6, <1>7 DEF Snapshots!Close

\* The same when the store stays as it is.
LEMMA QuietEndMaps ==
  ASSUME DbInv, NEW p \in Clients, NEW how, EndTxn(p, how), UNCHANGED vars
  PROVE  /\ Snapshots!Close(p, how)
         /\ StaleNow' = [StaleNow EXCEPT ![p] = {}]
         /\ TablesNow' = TablesNow /\ RowsNow' = RowsNow
<1>1. Later /\ SameCatalogKeys /\ store' = store
  BY SameVars DEF SameCatalogKeys, vars
<1>2. NewAreHigh /\ TablesNow' = TablesNow
  BY <1>1, SameTables
<1>3. RowsNow' = RowsNow
  BY <1>1 DEF RowsNow, RowsOf, HasTable, TableHandle
<1>4. /\ \A q \in Clients \ {p} : phase'[q] = phase[q] /\ dtx'[q] = dtx[q]
      /\ phase'[p] = "idle"
  BY DEF EndTxn, DbInv, LocalsInv
<1>5. \A q \in Clients \ {p} : StaleNow'[q] = StaleNow[q]
  BY <1>1, <1>2, <1>4, StaleStays
<1>6. StaleNow'[p] = {}
  BY <1>4 DEF StaleNow, IsOpen
<1>7. StaleNow' = [StaleNow EXCEPT ![p] = {}]
  BY <1>5, <1>6 DEF StaleNow
<1> QED
  BY <1>1, <1>2, <1>3, <1>7, EndMaps

\* A commit without conflicts publishes what its client changed.
LEMMA ApplyPublishes ==
  ASSUME DbInv, DbInv', NEW p \in Clients, IsOpen(p), Conflicts(store, dtx[p]) = {},
         store' = Apply(store, dtx[p])
  PROVE  /\ Snapshots!Publish(p)
         /\ TablesNow' = TablesNow
         /\ Later /\ SameCatalogKeys
<1> DEFINE t == dtx[p]
           W == WriteSet(dtx[p])
<1>1. /\ SameCatalogKeys /\ Later
      /\ \A k \in AllKeys :
           IF k \in W THEN store'.data[k] = t.writes[k]
                      ELSE store'.data[k] = store.data[k]
  BY ClientApply DEF DbInv
<1>2. ClientInv(p)
  BY DEF DbInv
<1>3. /\ TablesNow' = TablesNow
      /\ \A r \in Names \X Pks : HasTable(r[1])' = HasTable(r[1])
                                 /\ KeyOf(r)' = KeyOf(r)
  BY <1>1, SameTables
<1>4. DirtyNow[p] = {r \in Names \X Pks : HasTable(r[1]) /\ KeyOf(r) \in W}
  BY DEF DirtyNow, PlacesOf, KeyOf
<1>5. StaleNow[p] = {r \in Names \X Pks : HasTable(r[1]) /\ KeyOf(r) \in Changed(p)}
  BY DEF StaleNow, PlacesOf, KeyOf
<1>6. ViewNow[p] = [r \in Names \X Pks |->
                      IF HasTable(r[1]) THEN Get(t, KeyOf(r)) ELSE Absent]
  BY DEF ViewNow, RowsOf, RelRead, KeyOf
<1>7. DirtyNow[p] \cap StaleNow[p] = {}
  BY <1>4, <1>5 DEF Changed, Conflicts
<1>8. RowsNow' = [r \in Names \X Pks |->
                    IF HasTable(r[1]) THEN store'.data[KeyOf(r)] ELSE Absent]
  <2>1. (DbInv => RowsNow = [r \in Names \X Pks |->
                    IF HasTable(r[1]) THEN store.data[KeyOf(r)] ELSE Absent])'
    BY Mapped, PTL
  <2>2. RowsNow' = [r \in Names \X Pks |->
                    IF HasTable(r[1])' THEN store'.data[KeyOf(r)'] ELSE Absent]
    BY <2>1
  <2> QED
    BY <1>3, <2>2
<1>9. ASSUME NEW r \in Names \X Pks
      PROVE  (IF HasTable(r[1]) THEN store'.data[KeyOf(r)] ELSE Absent)
               = IF r \in DirtyNow[p] THEN ViewNow[p][r] ELSE RowsNow[r]
  <2>1. RowsNow[r] = IF HasTable(r[1]) THEN store.data[KeyOf(r)] ELSE Absent
    BY Mapped
  <2>2. CASE ~HasTable(r[1])
    BY <1>4, <2>1, <2>2
  <2>3. CASE HasTable(r[1]) /\ KeyOf(r) \in W
    <3>1. KeyOf(r) \in AllKeys /\ t.writes[KeyOf(r)] # Unwritten
      BY <2>3, Mapped DEF WriteSet
    <3>2. ViewNow[p][r] = t.writes[KeyOf(r)]
      BY <1>6, <2>3, <3>1 DEF Get
    <3> QED
      BY <1>1, <1>4, <2>3, <3>1, <3>2
  <2>4. CASE HasTable(r[1]) /\ KeyOf(r) \notin W
    <3>1. KeyOf(r) \in AllKeys
      BY <2>4, Mapped
    <3> QED
      BY <1>1, <1>4, <2>1, <2>4, <3>1
  <2> QED
    BY <2>2, <2>3, <2>4
<1>10. RowsNow' = [r \in Snapshots!Places |->
                     IF r \in DirtyNow[p] THEN ViewNow[p][r] ELSE RowsNow[r]]
  BY <1>8, <1>9 DEF Snapshots!Places
<1> QED
  BY <1>1, <1>3, <1>7, <1>10 DEF Snapshots!Publish

\* ... and what it published is stale for the transactions still open.
LEMMA ApplyMakesStale ==
  ASSUME DbInv, NEW p \in Clients, NEW how, IsOpen(p), EndTxn(p, how),
         store' = Apply(store, dtx[p])
  PROVE  StaleNow' = [q \in Clients |->
           IF q \in OpenNow \ {p} THEN StaleNow[q] \cup DirtyNow[p] ELSE {}]
<1> DEFINE W == WriteSet(dtx[p])
<1>1. /\ SameCatalogKeys
      /\ \A k \in AllKeys :
           IF k \in W THEN store'.modified[k] = store.version + 1
                      ELSE store'.modified[k] = store.modified[k]
  BY ClientApply DEF DbInv
<1>2. \A r \in Names \X Pks : HasTable(r[1])' = HasTable(r[1]) /\ KeyOf(r)' = KeyOf(r)
  BY <1>1, SameTables
<1>3. /\ \A q \in Clients \ {p} : phase'[q] = phase[q] /\ dtx'[q] = dtx[q]
      /\ phase'[p] = "idle"
  BY DEF EndTxn, DbInv, LocalsInv
<1>4. DirtyNow[p] = {r \in Names \X Pks : HasTable(r[1]) /\ KeyOf(r) \in W}
  BY DEF DirtyNow, PlacesOf, KeyOf
<1>5. ASSUME NEW q \in OpenNow \ {p}
      PROVE  StaleNow'[q] = StaleNow[q] \cup DirtyNow[p]
  <2>1. q \in Clients /\ q # p /\ IsOpen(q) /\ IsOpen(q)' /\ dtx'[q] = dtx[q]
    BY <1>3 DEF OpenNow, IsOpen
  <2>2. dtx[q].at \in Nat /\ dtx[q].at <= store.version /\ store.version \in Nat
    BY <2>1 DEF DbInv, ClientInv, CatalogInv, TypeOK, StoreTypeOK
  <2>3. Changed(q)' = {k \in AllKeys : k \in W \/ k \in Changed(q)}
    <3> HIDE DEF W
    <3>1. \A k \in AllKeys : store'.modified[k] > dtx[q].at
                               <=> k \in W \/ store.modified[k] > dtx[q].at
      BY <1>1, <2>2
    <3> QED
      BY <2>1, <3>1 DEF Changed
  <2>4. StaleNow[q] = {r \in Names \X Pks : HasTable(r[1]) /\ KeyOf(r) \in Changed(q)}
    BY <2>1 DEF StaleNow, PlacesOf, KeyOf
  <2>5. StaleNow'[q] = {r \in Names \X Pks : HasTable(r[1])' /\ KeyOf(r)' \in Changed(q)'}
    BY <2>1 DEF StaleNow, PlacesOf, KeyOf
  <2>6. \A r \in Names \X Pks : HasTable(r[1]) => KeyOf(r) \in AllKeys
    BY Mapped
  <2> QED
    BY <1>2, <1>4, <2>3, <2>4, <2>5, <2>6
<1>6. ASSUME NEW q \in Clients, q \notin OpenNow \ {p}
      PROVE  StaleNow'[q] = {}
  BY <1>3, <1>6 DEF OpenNow, IsOpen, StaleNow
<1> QED
  BY <1>5, <1>6 DEF StaleNow

\* BEGIN takes the committed rows as the client's view.
LEMMA BeginMaps ==
  ASSUME DbInv, NEW p \in Clients, BeginTxn(p)
  PROVE  Snapshots!Begin(p)
<1>1. Later /\ SameCatalogKeys /\ store' = store
  BY SameVars DEF SameCatalogKeys, vars, BeginTxn
<1>2. NewAreHigh /\ TablesNow' = TablesNow
  BY <1>1, SameTables
<1>3. RowsNow' = RowsNow
  BY <1>1 DEF RowsNow, RowsOf, HasTable, TableHandle
<1>4. /\ \A q \in Clients \ {p} : phase'[q] = phase[q] /\ dtx'[q] = dtx[q]
      /\ phase[p] = "idle" /\ phase'[p] = "open" /\ dtx'[p] = Begin(store)
      /\ outcome' = [outcome EXCEPT ![p] = Done("none")]
  BY DEF BeginTxn, DbInv, LocalsInv
<1>5. \A q \in Clients \ {p} : /\ ViewNow'[q] = ViewNow[q] /\ DirtyNow'[q] = DirtyNow[q]
                               /\ StaleNow'[q] = StaleNow[q]
  BY <1>1, <1>2, <1>4, ViewFollows, StaleStays
<1>6. ViewNow'[p] = RowsNow
  BY <1>1, <1>4 DEF ViewNow, IsOpen, RowsNow, RowsOf, HasTable, TableHandle
<1>7. DirtyNow'[p] = {} /\ DirtyNow[p] = {}
  <2>1. WriteSet(Begin(store)) = {}
    BY DEF WriteSet, Begin
  <2> QED
    BY <1>4, <2>1 DEF DirtyNow, IsOpen, PlacesOf
<1>8. StaleNow'[p] = {} /\ StaleNow[p] = {}
  <2>1. Begin(store).at = store.version
    BY DEF Begin
  <2>2. Changed(p)' = {}
    BY <1>1, <1>4, <2>1 DEF Changed, DbInv, CatalogInv, TypeOK, StoreTypeOK
  <2> QED
    BY <1>4, <2>2 DEF StaleNow, IsOpen, PlacesOf
<1>9. /\ ViewNow' = [ViewNow EXCEPT ![p] = RowsNow]
      /\ DirtyNow' = DirtyNow /\ StaleNow' = StaleNow
  <2>1. ViewNow' = [ViewNow EXCEPT ![p] = RowsNow]
    BY <1>5, <1>6 DEF ViewNow
  <2>2. \A q \in Clients : DirtyNow'[q] = DirtyNow[q] /\ StaleNow'[q] = StaleNow[q]
    BY <1>5, <1>7, <1>8
  <2> QED
    BY <2>1, <2>2 DEF DirtyNow, StaleNow
<1>10. p \notin OpenNow /\ OpenNow' = OpenNow \cup {p}
  BY <1>4 DEF OpenNow, IsOpen
<1> QED
  BY <1>2, <1>3, <1>4, <1>9, <1>10 DEF Snapshots!Begin, Done, Snapshots!Done

\* A write, or a delete with v = Absent, changes one place of the view.
LEMMA ChangeMaps ==
  ASSUME DbInv, DbInv', NEW p \in Clients, NEW n \in Names, NEW pk \in Pks,
         NEW v \in Rows \cup {Absent}, UseTable(p, n),
         dtx' = [dtx EXCEPT ![p] = RelWrite(@, TableHandle(n).table_id, pk, v)],
         UNCHANGED <<vars, phase, refusal, outcome>>
  PROVE  Snapshots!Change(p, <<n, pk>>, v)
<1> DEFINE place == <<n, pk>>
           key   == KeyOf(place)
<1>1. Later /\ SameCatalogKeys /\ store' = store
  BY SameVars DEF SameCatalogKeys, vars
<1>2. /\ NewAreHigh /\ TablesNow' = TablesNow
      /\ \A r \in Names \X Pks : HasTable(r[1])' = HasTable(r[1])
                                 /\ KeyOf(r)' = KeyOf(r)
  BY <1>1, SameTables
<1>3. RowsNow' = RowsNow
  BY <1>1 DEF RowsNow, RowsOf, HasTable, TableHandle
<1>4. /\ \A q \in Clients : phase'[q] = phase[q]
      /\ \A q \in Clients \ {p} : dtx'[q] = dtx[q]
      /\ IsOpen(p) /\ IsOpen(p)' /\ outcome' = outcome
      /\ OpenNow' = OpenNow /\ p \in OpenNow
  BY DEF UseTable, IsOpen, OpenNow, DbInv, LocalsInv
<1>5. \A q \in Clients \ {p} : /\ ViewNow'[q] = ViewNow[q] /\ DirtyNow'[q] = DirtyNow[q]
                               /\ StaleNow'[q] = StaleNow[q]
  BY <1>1, <1>2, <1>4, ViewFollows, StaleStays
<1>6. HasTable(n) /\ n \in TablesNow /\ place \in Names \X Pks
      /\ place[1] = n /\ place[2] = pk
  BY TableHandles DEF DbInv, UseTable, TablesNow
<1>7. /\ key \in AllKeys
      /\ \A r \in Names \X Pks : HasTable(r[1]) => (KeyOf(r) = key <=> r = place)
      /\ \A r \in Names \X Pks : HasTable(r[1]) => KeyOf(r) \in AllKeys
  BY <1>6, Mapped
<1>8. ClientInv(p) /\ key = RowKey(TableHandle(n).table_id, pk)
  BY <1>4, <1>6 DEF DbInv, KeyOf
<1> HIDE DEF place, key
<1>9. /\ DOMAIN dtx'[p] = {"at", "view", "writes"}
      /\ dtx'[p].at = dtx[p].at /\ dtx'[p].view = dtx[p].view
      /\ dtx'[p].writes = [dtx[p].writes EXCEPT ![key] = v]
      /\ DOMAIN dtx[p].writes = AllKeys
  BY <1>8 DEF ClientInv, RelWrite, Put, DbInv, LocalsInv
<1>10. v # Unwritten
  BY DatabaseAssumption, MarkerAssumption
<1>11. /\ \A k \in AllKeys : Get(dtx'[p], k) = IF k = key THEN v ELSE Get(dtx[p], k)
       /\ WriteSet(dtx'[p]) = WriteSet(dtx[p]) \cup {key}
  BY <1>7, <1>9, <1>10 DEF Get, WriteSet
<1>12. ViewNow'[p] = [ViewNow[p] EXCEPT ![place] = v]
  <2> DEFINE before(r) == IF HasTable(r[1]) THEN Get(dtx[p], KeyOf(r)) ELSE Absent
             after(r)  == IF HasTable(r[1])' THEN Get(dtx'[p], KeyOf(r)') ELSE Absent
  <2>1. ViewNow[p] = [r \in Names \X Pks |-> before(r)]
    BY <1>4 DEF ViewNow, RowsOf, RelRead, KeyOf
  <2>2. ViewNow'[p] = [r \in Names \X Pks |-> after(r)]
    BY <1>4 DEF ViewNow, RowsOf, RelRead, KeyOf
  <2>3. ASSUME NEW r \in Names \X Pks
        PROVE  after(r) = IF r = place THEN v ELSE before(r)
    <3>1. CASE HasTable(r[1])
      BY <1>2, <1>7, <1>11, <3>1
    <3>2. CASE ~HasTable(r[1])
      BY <1>2, <1>6, <3>2
    <3> QED
      BY <3>1, <3>2
  <2> HIDE DEF before, after
  <2> DEFINE old == ViewNow[p]
             new == ViewNow'[p]
             P   == Names \X Pks
  <2>4. /\ old = [r \in P |-> old[r]]
        /\ new = [r \in P |-> new[r]]
        /\ \A r \in P : new[r] = IF r = place THEN v ELSE old[r]
    BY <2>1, <2>2, <2>3
  <2> HIDE DEF old, new, P
  <2>5. new = [old EXCEPT ![place] = v]
    BY <2>4
  <2> QED
    BY <2>5 DEF old, new
<1>13. DirtyNow'[p] = DirtyNow[p] \cup {place}
  <2>1. DirtyNow[p] = {r \in Names \X Pks : HasTable(r[1]) /\ KeyOf(r) \in WriteSet(dtx[p])}
    BY <1>4 DEF DirtyNow, PlacesOf, KeyOf
  <2>2. DirtyNow'[p] = {r \in Names \X Pks :
                          HasTable(r[1])' /\ KeyOf(r)' \in WriteSet(dtx'[p])}
    BY <1>4 DEF DirtyNow, PlacesOf, KeyOf
  <2> QED
    BY <1>2, <1>6, <1>7, <1>11, <2>1, <2>2
<1>14. StaleNow'[p] = StaleNow[p]
  <2>1. Changed(p)' = Changed(p)
    BY <1>1, <1>9 DEF Changed
  <2>2. StaleNow[p] = {r \in Names \X Pks : HasTable(r[1]) /\ KeyOf(r) \in Changed(p)}
    BY <1>4 DEF StaleNow, PlacesOf, KeyOf
  <2>3. StaleNow'[p] = {r \in Names \X Pks : HasTable(r[1])' /\ KeyOf(r)' \in Changed(p)'}
    BY <1>4 DEF StaleNow, PlacesOf, KeyOf
  <2> QED
    BY <1>2, <2>1, <2>2, <2>3
<1>15. ViewNow' = [ViewNow EXCEPT ![p][place] = v]
  BY <1>5, <1>12 DEF ViewNow
<1>16. DirtyNow' = [DirtyNow EXCEPT ![p] = @ \cup {place}]
  BY <1>5, <1>13 DEF DirtyNow
<1>17. StaleNow' = StaleNow
  BY <1>5, <1>14 DEF StaleNow
<1>18. Snapshots!Change(p, place, v)
  BY <1>2, <1>3, <1>4, <1>6, <1>15, <1>16, <1>17 DEF Snapshots!Change
<1> QED
  BY <1>18 DEF place

\* conflict_error returns the place of a key that is both written and changed.
LEMMA RefusalMaps ==
  ASSUME DbInv, NEW p \in Clients, ConflictError(p)
  PROVE  \E r \in Snapshots!Places : Snapshots!Refuse(p, r)
<1>1. /\ phase[p] = "refused" /\ UNCHANGED vars
      /\ EndTxn(p, BlameKey(store, refusal[p]))
      /\ IsOpen(p) /\ p \in OpenNow
  BY DEF ConflictError, IsOpen, OpenNow
<1>2. PICK n \in touched[p], pk \in Pks :
        /\ n \in Names /\ HasTable(n)
        /\ refusal[p] = RowKey(TableHandle(n).table_id, pk)
        /\ refusal[p] \in Conflicts(store, dtx[p])
        /\ BlameKey(store, refusal[p]) = ConflictAt(<<n, pk>>)
  BY <1>1, BlameIsRight
<1> DEFINE r == <<n, pk>>
<1>3. r \in Names \X Pks /\ HasTable(r[1]) /\ KeyOf(r) = refusal[p]
  BY <1>2 DEF KeyOf
<1> HIDE DEF r
<1>4. r \in DirtyNow[p]
  <2>1. KeyOf(r) \in WriteSet(dtx[p])
    BY <1>2, <1>3 DEF Conflicts
  <2> QED
    BY <1>1, <1>3, <2>1 DEF DirtyNow, PlacesOf, KeyOf
<1>5. r \in StaleNow[p]
  <2>1. KeyOf(r) \in Changed(p)
    BY <1>2, <1>3, Mapped DEF Conflicts, Changed
  <2> QED
    BY <1>1, <1>3, <2>1 DEF StaleNow, PlacesOf, KeyOf
<1>6. /\ Snapshots!Close(p, ConflictAt(r))
      /\ StaleNow' = [StaleNow EXCEPT ![p] = {}]
      /\ TablesNow' = TablesNow /\ RowsNow' = RowsNow
  BY <1>1, <1>2, QuietEndMaps DEF r
<1>7. Snapshots!Refuse(p, r)
  BY <1>1, <1>4, <1>5, <1>6 DEF Snapshots!Refuse, ConflictAt, Snapshots!ConflictAt
<1> QED
  BY <1>3, <1>7 DEF Snapshots!Places

\* Every step of a client is one of SnapshotRows, or not to be seen there.
LEMMA ClientStepMaps ==
  ASSUME DbInv, DbInv', NEW p \in Clients, ClientStep(p)
  PROVE  [Snapshots!Next]_(Snapshots!vars)
<1>1. CASE BeginTxn(p)
  BY <1>1, BeginMaps DEF Snapshots!Next
<1>2. CASE CommitTxn(p)
  <2>1. IsOpen(p) /\ p \in OpenNow
    BY <1>2 DEF CommitTxn, IsOpen, OpenNow
  <2>2. Snapshots!Publish(p) /\ TablesNow' = TablesNow /\ Later /\ SameCatalogKeys
    BY <1>2, <2>1, ApplyPublishes DEF CommitTxn
  <2>3. Snapshots!Close(p, Done("ok"))
    BY <1>2, <2>2, EndMaps DEF CommitTxn
  <2>4. StaleNow' = [q \in Clients |->
           IF q \in OpenNow \ {p} THEN StaleNow[q] \cup DirtyNow[p] ELSE {}]
    BY <1>2, <2>1, ApplyMakesStale DEF CommitTxn
  <2>5. Snapshots!Commit(p)
    BY <2>1, <2>2, <2>3, <2>4 DEF Snapshots!Commit, Done, Snapshots!Done
  <2> QED
    BY <2>5 DEF Snapshots!Next
<1>3. CASE RefuseTxn(p)
  <2>1. /\ store' = store /\ dtx' = dtx /\ outcome' = outcome
        /\ \A q \in Clients : IsOpen(q)' = IsOpen(q)
    BY <1>3 DEF RefuseTxn, vars, IsOpen, DbInv, LocalsInv
  <2>2. UNCHANGED <<TablesNow, RowsNow, OpenNow>>
    BY <2>1 DEF TablesNow, RowsNow, RowsOf, HasTable, TableHandle, OpenNow
  <2>3. UNCHANGED <<ViewNow, DirtyNow, StaleNow>>
    BY <2>1 DEF ViewNow, DirtyNow, StaleNow, RowsOf, PlacesOf, Changed, HasTable, TableHandle
  <2> QED
    BY <2>1, <2>2, <2>3 DEF Snapshots!vars
<1>4. CASE ConflictError(p)
  BY <1>4, RefusalMaps DEF Snapshots!Next
<1>5. CASE AbortTxn(p)
  <2>1. p \in OpenNow
    BY <1>5 DEF AbortTxn, IsOpen, OpenNow
  <2>2. /\ Snapshots!Close(p, Done("aborted"))
        /\ StaleNow' = [StaleNow EXCEPT ![p] = {}]
        /\ TablesNow' = TablesNow /\ RowsNow' = RowsNow
    BY <1>5, QuietEndMaps DEF AbortTxn
  <2>3. Snapshots!Abort(p)
    BY <2>1, <2>2 DEF Snapshots!Abort, Done, Snapshots!Done
  <2> QED
    BY <2>3 DEF Snapshots!Next
<1>6. CASE TxnStoreError(p)
  <2>1. IsOpen(p) /\ p \in OpenNow
    BY <1>6 DEF TxnStoreError, IsOpen, OpenNow
  <2>2. CASE store' = store
    <3>1. /\ Snapshots!Close(p, Done("store"))
          /\ StaleNow' = [StaleNow EXCEPT ![p] = {}]
          /\ TablesNow' = TablesNow /\ RowsNow' = RowsNow
      BY <1>6, <2>2, QuietEndMaps DEF TxnStoreError, vars, catalogVars
    <3> QED
      BY <2>1, <3>1 DEF Snapshots!StoreError, Done, Snapshots!Done, Snapshots!Next
  <2>3. CASE store' = Apply(store, dtx[p])
    <3>1. Snapshots!Publish(p) /\ TablesNow' = TablesNow /\ Later /\ SameCatalogKeys
      BY <1>6, <2>1, <2>3, ApplyPublishes DEF TxnStoreError
    <3>2. Snapshots!Close(p, Done("store"))
      BY <1>6, <3>1, EndMaps DEF TxnStoreError
    <3>3. StaleNow' = [q \in Clients |->
             IF q \in OpenNow \ {p} THEN StaleNow[q] \cup DirtyNow[p] ELSE {}]
      BY <1>6, <2>1, <2>3, ApplyMakesStale DEF TxnStoreError
    <3>4. Snapshots!StoreError(p)
      BY <2>1, <3>1, <3>2, <3>3 DEF Snapshots!StoreError, Done, Snapshots!Done
    <3> QED
      BY <3>4 DEF Snapshots!Next
  <2> QED
    BY <1>6, <2>2, <2>3 DEF TxnStoreError
<1>7. ASSUME NEW n \in Names, NEW pk \in Pks, NEW v \in Rows \cup {Absent},
             Snapshots!Change(p, <<n, pk>>, v)
      PROVE  Snapshots!Next
  <2>1. <<n, pk>> \in Snapshots!Places
    BY DEF Snapshots!Places
  <2> QED
    BY <1>7, <2>1 DEF Snapshots!Next
<1>8. ASSUME NEW n \in Names, NEW pk \in Pks, DeleteRow(p, n, pk)
      PROVE  Snapshots!Next
  <2>1. Snapshots!Change(p, <<n, pk>>, Absent)
    BY <1>8, ChangeMaps DEF DeleteRow, RelDelete, RelWrite, Delete
  <2> QED
    BY <1>7, <2>1
<1>9. ASSUME NEW n \in Names, NEW pk \in Pks, NEW v \in Rows, WriteRow(p, n, pk, v)
      PROVE  Snapshots!Next
  <2>1. Snapshots!Change(p, <<n, pk>>, v)
    BY <1>9, ChangeMaps DEF WriteRow
  <2> QED
    BY <1>7, <2>1
<1> QED
  BY <1>1, <1>2, <1>3, <1>4, <1>5, <1>6, <1>8, <1>9 DEF ClientStep

\* A crash ends every transaction, and may publish one or add a table first.
LEMMA DbCrashMaps ==
  ASSUME DbInv, DbInv', DbCrash
  PROVE  Snapshots!Crash
<1>1. \A p \in Clients : ~IsOpen(p)'
  BY DEF DbCrash, ForgetClients, IsOpen
<1>2. /\ OpenNow' = {}
      /\ ViewNow' = [p \in Clients |-> Snapshots!NoRows]
      /\ DirtyNow' = [p \in Clients |-> {}]
      /\ StaleNow' = [p \in Clients |-> {}]
  BY <1>1 DEF OpenNow, ViewNow, DirtyNow, StaleNow, Snapshots!NoRows, Snapshots!Places
<1>3. outcome' = [p \in Clients |-> Snapshots!Done("none")]
  BY DEF DbCrash, ForgetClients, Done, Snapshots!Done
<1>4. CASE CrashAndReopen
  <2>1. [Next]_vars
    BY <1>4 DEF Next
  <2>2. RowsNow' = RowsNow
    BY <2>1, CatalogKeepsNamedRows
  <2>3. \/ TablesNow' = TablesNow
        \/ \E n \in Names \ TablesNow : TablesNow' = TablesNow \cup {n}
    BY <2>1, CatalogAddsOne
  <2> QED
    BY <1>2, <1>3, <2>2, <2>3 DEF Snapshots!Crash
<1>5. ASSUME NEW p \in Clients, phase[p] = "open", Conflicts(store, dtx[p]) = {},
             store' = Apply(store, dtx[p])
      PROVE  Snapshots!Crash
  <2>1. IsOpen(p) /\ p \in OpenNow
    BY <1>5 DEF IsOpen, OpenNow
  <2>2. Snapshots!Publish(p) /\ TablesNow' = TablesNow
    BY <1>5, <2>1, ApplyPublishes
  <2> QED
    BY <1>2, <1>3, <2>1, <2>2 DEF Snapshots!Crash
<1> QED
  BY <1>4, <1>5 DEF DbCrash

\* Clients of the database work with rows of named tables under snapshot
\* isolation: however many there are, whatever tables are created beside them,
\* refused, failed and interrupted commits included, they cannot tell it from
\* SnapshotRows.
THEOREM DatabaseRefinesSnapshots == DbSpec => ImplementsSnapshots
<1>1. DbInit => Snapshots!Init
  <2> SUFFICES ASSUME DbInit PROVE Snapshots!Init
    OBVIOUS
  <2>1. \A n \in Names : ~HasTable(n)
    BY KeysDistinct DEF DbInit, Init, NewStore, HasTable
  <2>2. \A p \in Clients : ~IsOpen(p)
    BY DEF DbInit, IsOpen
  <2>3. TablesNow = {} /\ RowsNow = Snapshots!NoRows
    BY <2>1 DEF TablesNow, RowsNow, RowsOf, Snapshots!NoRows, Snapshots!Places
  <2>4. /\ OpenNow = {}
        /\ ViewNow = [p \in Clients |-> Snapshots!NoRows]
        /\ DirtyNow = [p \in Clients |-> {}] /\ StaleNow = [p \in Clients |-> {}]
    BY <2>2 DEF OpenNow, ViewNow, DirtyNow, StaleNow, Snapshots!NoRows, Snapshots!Places
  <2>5. outcome = [p \in Clients |-> Snapshots!Done("none")]
    BY DEF DbInit, Done, Snapshots!Done
  <2> QED
    BY <2>3, <2>4, <2>5 DEF Snapshots!Init
<1>2. DbInv /\ DbInv' /\ [DbNext]_dbVars => [Snapshots!Next]_(Snapshots!vars)
  <2> SUFFICES ASSUME DbInv, DbInv', [DbNext]_dbVars
               PROVE  [Snapshots!Next]_(Snapshots!vars)
    OBVIOUS
  <2>1. CASE CatalogStep
    <3>1. [Next]_vars /\ UNCHANGED clientVars
      BY <2>1, CatalogAssumption DEF CatalogStep, Next
    <3> QED
      BY <3>1, CatalogStepMaps
  <2>2. ASSUME NEW p \in Clients, ClientStep(p)
        PROVE  [Snapshots!Next]_(Snapshots!vars)
    BY <2>2, ClientStepMaps
  <2>3. CASE DbCrash
    BY <2>3, DbCrashMaps DEF Snapshots!Next
  <2>4. CASE UNCHANGED dbVars
    BY <2>4, CatalogStepMaps DEF dbVars
  <2> QED
    BY <2>1, <2>2, <2>3, <2>4 DEF DbNext
<1> QED
  BY <1>1, <1>2, DatabaseInvariant, PTL
     DEF DbSpec, ImplementsSnapshots, Snapshots!Spec

-----------------------------------------------------------------------------
(* Sums.                                                                   *)

\* s has the sums of f over the subsets of D, element by element.
IsSum(s, f, D) ==
  /\ s \in [SUBSET D -> Int] /\ s[D] = SumFunction(f)
  /\ \A T \in SUBSET D : s[T] = IF T = {} THEN 0 ELSE f[Pick(T)] + s[T \ {Pick(T)}]

\* The recursive function that sums exists.
LEMMA SumUnfolds ==
  ASSUME NEW D, IsFiniteSet(D), NEW f, f \in [D -> Int]
  PROVE  \E s : IsSum(s, f, D)
<1> DEFINE g == [p \in D \X Int |-> f[p[1]] + p[2]]
           Is(s) == s = [T \in SUBSET D |->
                           IF T = {} THEN 0
                           ELSE f[CHOOSE x \in T : TRUE] + s[T \ {CHOOSE x \in T : TRUE}]]
<1>1. \A x \in D, v \in Int : g[<<x, v>>] = f[x] + v /\ g[<<x, v>>] \in Int
  OBVIOUS
<1>2. PICK r : IsFold(r, g, D, Int, 0)
  <2> DEFINE V == Int
             zero == 0
  <2>1. StaysIn(g, D, V) /\ zero \in V
    BY <1>1 DEF StaysIn
  <2> HIDE DEF g, Is, V, zero
  <2>2. \E r : IsFold(r, g, D, V, zero)
    BY <2>1, FoldRecursion
  <2> QED
    BY <2>2 DEF V, zero
<1>3. \A T \in SUBSET D :
        r[T] = IF T = {} THEN 0 ELSE f[Pick(T)] + r[T \ {Pick(T)}]
  <2> TAKE T \in SUBSET D
  <2>1. T # {} => Pick(T) \in D /\ T \ {Pick(T)} \in SUBSET D
    BY DEF Pick
  <2>2. T # {} => r[T \ {Pick(T)}] \in Int
    BY <1>2, <2>1 DEF IsFold
  <2>3. r[T] = IF T = {} THEN 0 ELSE g[<<Pick(T), r[T \ {Pick(T)}]>>]
    BY <1>2 DEF IsFold
  <2> HIDE DEF g
  <2> QED
    BY <1>1, <2>1, <2>2, <2>3
<1>4. Is(r)
  BY <1>2, <1>3 DEF Pick, IsFold
<1> DEFINE s == CHOOSE s : Is(s)
<1>5. Is(s)
  BY <1>4
<1>6. SumFunction(f) = s[D]
  BY DEF SumFunction, SumFunctionOnSet, FoldFunctionOnSet, MapThenFoldSet
<1> HIDE DEF s, g
<1>7. \A T \in SUBSET D : s[T] = IF T = {} THEN 0 ELSE f[Pick(T)] + s[T \ {Pick(T)}]
  BY <1>5 DEF Pick
<1> DEFINE G == {T \in SUBSET D : s[T] \in Int}
<1>8. \A T \in SUBSET D : T \in G
  <2>1. {} \in G
    <3>1. {} \in SUBSET D /\ s[{}] = 0
      BY <1>7
    <3> QED
      BY <3>1
  <2>2. ASSUME NEW T \in SUBSET D, T # {}, T \ {Pick(T)} \in G
        PROVE  T \in G
    <3>1. Pick(T) \in D
      BY <2>2 DEF Pick
    <3> QED
      BY <1>7, <2>2, <3>1
  <2> HIDE DEF G, Is
  <2> QED
    BY <2>1, <2>2, PickInduction
<1>9. s \in [SUBSET D -> Int]
  BY <1>5, <1>8
<1> HIDE DEF Is
<1> QED
  BY <1>6, <1>7, <1>9 DEF IsSum

\* A sum of integers is one.
LEMMA SumIsInt ==
  ASSUME NEW D, IsFiniteSet(D), NEW f, f \in [D -> Int]
  PROVE  SumFunction(f) \in Int
<1>1. PICK s : IsSum(s, f, D)
  BY SumUnfolds
<1> QED
  BY <1>1 DEF IsSum

\* A sum changes by what one of its terms changes.
LEMMA SumOfChange ==
  ASSUME NEW D, IsFiniteSet(D), NEW f, f \in [D -> Int], NEW h, h \in [D -> Int],
         NEW x, x \in D, \A y \in D : y # x => h[y] = f[y]
  PROVE  SumFunction(h) = SumFunction(f) + (h[x] - f[x])
<1> DEFINE d == h[x] - f[x]
<1>1. d \in Int /\ h[x] = f[x] + d /\ \A y \in D : h[y] = IF y = x THEN f[y] + d ELSE f[y]
  OBVIOUS
<1> HIDE DEF d
<1>2. PICK s : IsSum(s, f, D)
  BY SumUnfolds
<1>3. PICK u : IsSum(u, h, D)
  BY <1>1, SumUnfolds
<1> DEFINE G == {T \in SUBSET D : u[T] = IF x \in T THEN s[T] + d ELSE s[T]}
<1>4. {} \in G
  BY <1>2, <1>3 DEF IsSum
<1>5. ASSUME NEW T \in SUBSET D, T # {}, T \ {Pick(T)} \in G
      PROVE  T \in G
  <2> DEFINE p == Pick(T)
             U == T \ {p}
  <2>1. p \in T /\ p \in D /\ U \in SUBSET D
    BY <1>5 DEF Pick
  <2>2. s[T] = f[p] + s[U] /\ u[T] = h[p] + u[U]
    BY <1>2, <1>3, <1>5 DEF IsSum
  <2>3. u[U] = IF x \in U THEN s[U] + d ELSE s[U]
    BY <1>5
  <2>4. x \in U <=> x \in T /\ x # p
    OBVIOUS
  <2>5. f[p] \in Int /\ s[U] \in Int
    BY <1>2, <2>1 DEF IsSum
  <2> HIDE DEF p, U
  <2> QED
    BY <1>1, <2>1, <2>2, <2>3, <2>4, <2>5
<1>6. D \in G
  <2> HIDE DEF G
  <2>1. \A T \in SUBSET D : T \in G
    BY <1>4, <1>5, PickInduction
  <2> QED
    BY <2>1
<1> QED
  BY <1>2, <1>3, <1>6 DEF d, IsSum

\* Moving an amount from one term to another leaves a sum as it is.
LEMMA SumOfMove ==
  ASSUME NEW D, IsFiniteSet(D), NEW f, f \in [D -> Int], NEW h, h \in [D -> Int],
         NEW x, x \in D, NEW y, y \in D, x # y, h[x] - f[x] = f[y] - h[y],
         \A z \in D : z # x /\ z # y => h[z] = f[z]
  PROVE  SumFunction(h) = SumFunction(f)
<1> DEFINE m == [f EXCEPT ![x] = h[x]]
<1>1. /\ m \in [D -> Int] /\ m[x] = h[x] /\ m[y] = f[y]
      /\ \A z \in D : z # x => m[z] = f[z]
      /\ \A z \in D : z # y => m[z] = h[z]
  OBVIOUS
<1> HIDE DEF m
<1>2. SumFunction(m) = SumFunction(f) + (m[x] - f[x])
  BY <1>1, SumOfChange
<1>3. SumFunction(h) = SumFunction(m) + (h[y] - m[y])
  BY <1>1, SumOfChange
<1>4. SumFunction(f) \in Int
  BY SumIsInt
<1> QED
  BY <1>1, <1>2, <1>3, <1>4

\* The sum of one number, as often as there are terms.
LEMMA SumOfSame ==
  ASSUME NEW D, IsFiniteSet(D), NEW c \in Int
  PROVE  SumFunction([x \in D |-> c]) = Cardinality(D) * c
<1> DEFINE f == [x \in D |-> c]
<1>1. PICK s : IsSum(s, f, D)
  <2>1. f \in [D -> Int]
    OBVIOUS
  <2> HIDE DEF f
  <2> QED
    BY <2>1, SumUnfolds
<1> DEFINE G == {T \in SUBSET D : s[T] = Cardinality(T) * c}
<1>2. {} \in G
  <2>1. {} \in SUBSET D /\ s[{}] = 0 /\ Cardinality({}) = 0
    BY <1>1, FS_EmptySet DEF IsSum
  <2> QED
    BY <2>1
<1>3. ASSUME NEW T \in SUBSET D, T # {}, T \ {Pick(T)} \in G
      PROVE  T \in G
  <2> DEFINE p == Pick(T)
             U == T \ {p}
             n == Cardinality(U)
  <2>1. p \in T /\ p \in D
    BY <1>3 DEF Pick
  <2>2. n \in Nat /\ Cardinality(T) = n + 1
    BY <2>1, FS_Subset, FS_RemoveElement, FS_CardinalityType
  <2>3. s[T] = c + n * c
    BY <1>1, <1>3, <2>1 DEF IsSum
  <2>4. c + n * c = (n + 1) * c
    <3> HIDE DEF n
    <3> QED
      BY <2>2
  <2> QED
    BY <2>2, <2>3, <2>4
<1>4. D \in G
  <2> HIDE DEF G
  <2>1. \A T \in SUBSET D : T \in G
    BY <1>2, <1>3, PickInduction
  <2> QED
    BY <2>1
<1> QED
  BY <1>1, <1>4 DEF IsSum

-----------------------------------------------------------------------------
(* The keys of accounts, and commits.                                      *)

\* The accounts' keys are apart from the catalog's and from each other.
LEMMA AccountKeys ==
  /\ \A a \in Accounts : RowKey(Table, a) \in AllKeys /\ RowKey(Table, a) \notin CatalogKeys
  /\ \A a, b \in Accounts : RowKey(Table, a) = RowKey(Table, b) => a = b
<1>1. Table \in TableIds
  <2>1. Cardinality(Names) \in Nat
    BY IdSpaceAssumption, FS_CardinalityType
  <2> QED
    BY <2>1, IdSpaceAssumption DEF Table, TableIds
<1>2. ASSUME NEW a \in Accounts
      PROVE  RowKey(Table, a) \in AllKeys /\ RowKey(Table, a) \notin CatalogKeys
  <2>1. RowKey(Table, a) \in RowKeys
    BY <1>1 DEF RowKeys, RowKeyPrefix, Accounts
  <2>2. RowKey(Table, a) # CounterKey /\ RowKey(Table, a) # IndexKey
    BY DEF RowKey, CounterKey, IndexKey
  <2>3. \A n \in Names : RowKey(Table, a) # TableKey(n)
    BY DEF RowKey, TableKey
  <2> QED
    BY <2>1, <2>2, <2>3 DEF AllKeys, CatalogKeys
<1>3. \A a, b \in Accounts : RowKey(Table, a) = RowKey(Table, b) => a = b
  BY DEF RowKey
<1> QED
  BY <1>2, <1>3

\* new is a store st with the writes of u.
IsPublished(st, u, new) ==
  /\ new.version \in Nat /\ st.version <= new.version
  /\ new.modified \in [AllKeys -> 0 .. new.version]
  /\ DOMAIN new.data = AllKeys
  /\ \A k \in AllKeys :
       IF k \in WriteSet(u)
       THEN new.data[k] = u.writes[k] /\ st.version < new.modified[k]
       ELSE new.data[k] = st.data[k] /\ new.modified[k] = st.modified[k]

\* What a store has become by a commit.
LEMMA Published ==
  ASSUME NEW st, st.version \in Nat, st.modified \in [AllKeys -> 0 .. st.version],
         DOMAIN st.data = AllKeys, NEW u, DOMAIN u.writes = AllKeys,
         NEW new, new = Apply(st, u)
  PROVE  IsPublished(st, u, new)
<1> USE DEF IsPublished
<1>1. CASE WriteSet(u) = {}
  BY <1>1 DEF Apply
<1>2. CASE WriteSet(u) # {}
  <2>1. /\ new.version = st.version + 1
        /\ new.data = [k \in AllKeys |-> IF u.writes[k] # Unwritten THEN u.writes[k] ELSE st.data[k]]
        /\ new.modified = [k \in AllKeys |-> IF u.writes[k] # Unwritten THEN st.version + 1
                                             ELSE st.modified[k]]
    BY <1>2 DEF Apply
  <2>2. \A k \in AllKeys : k \in WriteSet(u) <=> u.writes[k] # Unwritten
    BY DEF WriteSet
  <2>3. \A k \in AllKeys : st.modified[k] \in 0 .. st.version
    OBVIOUS
  <2>4. new.modified \in [AllKeys -> 0 .. new.version]
    BY <2>1, <2>3
  <2> QED
    BY <2>1, <2>2, <2>4
<1> QED
  BY <1>1, <1>2

\* What a transfer writes, from the balances it began with.
LEMMA TransferWritesAt ==
  ASSUME NEW s, s.writes = [k \in AllKeys |-> Unwritten],
         s = [at |-> s.at, view |-> s.view, writes |-> s.writes],
         NEW job, job.from \in Accounts, job.to \in Accounts, job.from # job.to,
         job.amount \in Int, Balances(s.view) \in [Accounts -> Int],
         NEW u, u = TransferWrites(s, job)
  PROVE  /\ u.at = s.at /\ u.view = s.view /\ DOMAIN u.writes = AllKeys
         /\ WriteSet(u) = {RowKey(Table, job.from), RowKey(Table, job.to)}
         /\ u.writes[RowKey(Table, job.from)] = Balances(s.view)[job.from] - job.amount
         /\ u.writes[RowKey(Table, job.to)] = Balances(s.view)[job.to] + job.amount
<1> DEFINE from == RowKey(Table, job.from)
           to == RowKey(Table, job.to)
           x == Balances(s.view)[job.from] - job.amount
           y == Balances(s.view)[job.to] + job.amount
<1>1. from \in AllKeys /\ to \in AllKeys /\ from # to
  BY AccountKeys
<1>2. Get(s, from) = Balances(s.view)[job.from] /\ Get(s, to) = Balances(s.view)[job.to]
  BY <1>1 DEF Get, Balances
<1>3. u = [[s EXCEPT !.writes[from] = x] EXCEPT !.writes[to] = y]
  BY <1>2 DEF TransferWrites, RelRead, RelWrite, Put
<1>4. x \in Int /\ y \in Int
  OBVIOUS
<1> HIDE DEF from, to, x, y
<1>5. /\ u.at = s.at /\ u.view = s.view
      /\ u.writes = [[s.writes EXCEPT ![from] = x] EXCEPT ![to] = y]
  BY <1>3
<1>6. /\ DOMAIN u.writes = AllKeys /\ u.writes[from] = x /\ u.writes[to] = y
      /\ \A k \in AllKeys : k # from /\ k # to => u.writes[k] = Unwritten
  BY <1>1, <1>5
<1>7. WriteSet(u) = {from, to}
  BY <1>1, <1>4, <1>6, BankAssumption DEF WriteSet
<1> QED
  BY <1>5, <1>6, <1>7 DEF from, to, x, y

\* The job a thread is at.
LEMMA JobAt ==
  ASSUME NEW t \in Threads, next[t] \in Nat \ {0}, next[t] <= Len(Jobs[t])
  PROVE  LET job == Jobs[t][next[t]] IN
         /\ job.from \in Accounts /\ job.to \in Accounts /\ job.from # job.to
         /\ job.amount \in Int
<1>1. Jobs[t] \in Seq([from : Accounts, to : Accounts, amount : Int])
  BY BankAssumption
<1>2. next[t] \in 1 .. Len(Jobs[t])
  BY <1>1
<1>3. Jobs[t][next[t]] \in [from : Accounts, to : Accounts, amount : Int]
  <2> DEFINE J == [from : Accounts, to : Accounts, amount : Int]
             js == Jobs[t]
             i == next[t]
  <2>1. js \in Seq(J) /\ i \in 1 .. Len(js)
    BY <1>1, <1>2
  <2> HIDE DEF J, js, i
  <2>2. js[i] \in J
    BY <2>1
  <2> QED
    BY <2>2 DEF J, js, i
<1> QED
  BY <1>2, <1>3, BankAssumption

\* CREATE TABLE writes to the catalog only.
LEMMA CreatesInCatalog ==
  ASSUME NEW t, DOMAIN t.writes = AllKeys, WriteSet(t) = {},
         t = [at |-> t.at, view |-> t.view, writes |-> t.writes],
         NEW n \in Names, NEW sch, NEW u, u = CreatePuts(t, n, sch)
  PROVE  DOMAIN u.writes = AllKeys /\ WriteSet(u) \subseteq CatalogKeys
<1>1. CounterKey \in AllKeys /\ TableKey(n) \in AllKeys /\ IndexKey \in AllKeys
      /\ CounterKey \in CatalogKeys /\ TableKey(n) \in CatalogKeys /\ IndexKey \in CatalogKeys
  BY DEF AllKeys, CatalogKeys
<1>2. PICK x, y, z : u = [[[t EXCEPT !.writes[CounterKey] = x] EXCEPT !.writes[TableKey(n)] = y]
                             EXCEPT !.writes[IndexKey] = z]
  BY DEF CreatePuts, Put
<1>3. u.writes = [[[t.writes EXCEPT ![CounterKey] = x] EXCEPT ![TableKey(n)] = y]
                     EXCEPT ![IndexKey] = z]
  BY <1>2
<1> QED
  BY <1>1, <1>3 DEF WriteSet

-----------------------------------------------------------------------------
(* What the threads do.                                                    *)

\* The balances of a store, and of a snapshot.
LEMMA BalanceAt ==
  ASSUME NEW view, NEW a \in Accounts
  PROVE  Balances(view)[a] = view[RowKey(Table, a)]
  BY DEF Balances

\* An open transfer lives through the commits of others.
LEMMA TransferKept ==
  ASSUME BankInv, NEW t \in Threads, TransferInv(t), transfer'[t] = transfer[t],
         next'[t] = next[t], store'.version \in Nat, store.version <= store'.version,
         \A a \in Accounts :
           \/ /\ store'.data[RowKey(Table, a)] = store.data[RowKey(Table, a)]
              /\ store'.modified[RowKey(Table, a)] = store.modified[RowKey(Table, a)]
           \/ store.version < store'.modified[RowKey(Table, a)],
         store'.modified \in [AllKeys -> 0 .. store'.version]
  PROVE  TransferInv(t)'
<1> DEFINE u == transfer[t]
<1>1. u.at \in 0 .. store'.version /\ u.at \in Nat /\ u.at <= store.version
  BY DEF TransferInv, BankInv
<1>2. ASSUME NEW a \in Accounts, store'.modified[RowKey(Table, a)] <= u.at
      PROVE  Balances(store'.data)[a] = Balances(u.view)[a]
  <2>1. RowKey(Table, a) \in AllKeys
    BY AccountKeys
  <2>2. store'.modified[RowKey(Table, a)] \in Nat /\ store.version \in Nat
    BY <2>1 DEF BankInv
  <2>3. /\ store'.data[RowKey(Table, a)] = store.data[RowKey(Table, a)]
        /\ store'.modified[RowKey(Table, a)] = store.modified[RowKey(Table, a)]
    BY <1>1, <1>2, <2>2
  <2> QED
    BY <1>2, <2>3, BalanceAt DEF TransferInv
<1> QED
  BY <1>1, <1>2 DEF TransferInv

\* A transfer begins.
LEMMA TransferBegins ==
  ASSUME BankInv, NEW t \in Threads, Transfer(t)
  PROVE  BankInv'
<1> DEFINE s == Begin(store)
           job == Jobs[t][next[t]]
           u == TransferWrites(s, job)
<1>1. /\ transfer' = [transfer EXCEPT ![t] = u]
      /\ UNCHANGED <<vars, next, moved>> /\ next[t] <= Len(Jobs[t])
  BY DEF Transfer
<1>2. /\ store' = store /\ pc' = pc /\ tx' = tx /\ next' = next /\ moved' = moved
  BY <1>1 DEF vars
<1>3. /\ s = [at |-> s.at, view |-> s.view, writes |-> s.writes]
      /\ s.writes = [k \in AllKeys |-> Unwritten]
      /\ s.at = store.version /\ s.view = store.data
  BY DEF Begin, BankInv
<1>4. /\ job.from \in Accounts /\ job.to \in Accounts /\ job.from # job.to
      /\ job.amount \in Int
  BY <1>1, JobAt DEF BankInv
<1>5. Balances(s.view) \in [Accounts -> Int]
  BY <1>3 DEF BankInv
<1> HIDE DEF s, job
<1>6. u.at = store.version /\ u.view = store.data
  BY <1>3, <1>4, <1>5, TransferWritesAt
<1>7. u = TransferWrites(AtBegin(u), job)
  BY <1>3, <1>6 DEF AtBegin
<1> HIDE DEF u
<1>8. DOMAIN transfer' = Threads /\ transfer'[t] = u
      /\ \A q \in Threads : q # t => transfer'[q] = transfer[q]
  BY <1>1 DEF BankInv
<1>9. TransferInv(t)'
  <2>1. u.at \in 0 .. store.version /\ Balances(u.view) = Balances(store.data)
    BY <1>6 DEF BankInv
  <2> QED
    BY <1>1, <1>2, <1>7, <1>8, <2>1 DEF TransferInv, BankInv, job
<1>10. ASSUME NEW q \in Threads, q # t, transfer'[q] # NoTx
       PROVE  TransferInv(q)'
  <2>1. TransferInv(q) /\ transfer'[q] = transfer[q]
    BY <1>8, <1>10 DEF BankInv
  <2> QED
    BY <1>2, <2>1 DEF TransferInv
<1> QED
  BY <1>2, <1>8, <1>9, <1>10 DEF BankInv, NoTransferLost

\* A refused transfer is forgotten.
LEMMA TransferRetries ==
  ASSUME BankInv, NEW t \in Threads, TransferRetry(t)
  PROVE  BankInv'
<1>1. /\ transfer' = [transfer EXCEPT ![t] = NoTx]
      /\ store' = store /\ pc' = pc /\ tx' = tx /\ next' = next /\ moved' = moved
  BY DEF TransferRetry, vars
<1>2. ASSUME NEW q \in Threads, transfer'[q] # NoTx
      PROVE  TransferInv(q)'
  <2>1. TransferInv(q) /\ transfer'[q] = transfer[q]
    BY <1>1, <1>2 DEF BankInv
  <2> QED
    BY <1>1, <2>1 DEF TransferInv
<1> QED
  BY <1>1, <1>2 DEF BankInv, NoTransferLost

\* A transfer that is not refused moves its amount between the balances there
\* are, whatever has been committed since its snapshot.
LEMMA TransferCommits ==
  ASSUME BankInv, NEW t \in Threads, TransferCommit(t)
  PROVE  BankInv'
<1> DEFINE u == transfer[t]
           job == Jobs[t][next[t]]
           s == AtBegin(u)
           old == Balances(store.data)
           new == Balances(store'.data)
<1>1. /\ TransferInv(t) /\ next[t] \in Nat \ {0} /\ next[t] <= Len(Jobs[t])
      /\ Conflicts(store, u) = {} /\ store' = Apply(store, u)
      /\ transfer' = [transfer EXCEPT ![t] = NoTx]
      /\ next' = [next EXCEPT ![t] = @ + 1]
      /\ moved' = [moved EXCEPT ![t][job.from] = @ - job.amount,
                                ![t][job.to]   = @ + job.amount]
      /\ pc' = pc /\ tx' = tx
  BY DEF TransferCommit, BankInv, TransferInv, catalogVars
<1>2. /\ job.from \in Accounts /\ job.to \in Accounts /\ job.from # job.to
      /\ job.amount \in Int
  BY <1>1, JobAt
<1>3. /\ s.writes = [k \in AllKeys |-> Unwritten] /\ s.view = u.view
      /\ s = [at |-> s.at, view |-> s.view, writes |-> s.writes]
      /\ u = TransferWrites(s, job) /\ Balances(u.view) \in [Accounts -> Int]
  BY <1>1 DEF AtBegin, TransferInv
<1> HIDE DEF s
<1>4. /\ DOMAIN u.writes = AllKeys
      /\ WriteSet(u) = {RowKey(Table, job.from), RowKey(Table, job.to)}
      /\ u.writes[RowKey(Table, job.from)] = Balances(u.view)[job.from] - job.amount
      /\ u.writes[RowKey(Table, job.to)] = Balances(u.view)[job.to] + job.amount
  <2> HIDE DEF job
  <2> QED
    BY <1>2, <1>3, TransferWritesAt
<1>5. \A a \in {job.from, job.to} : Balances(u.view)[a] = old[a]
  <2> TAKE a \in {job.from, job.to}
  <2>1. ~(store.modified[RowKey(Table, a)] > u.at)
    BY <1>1, <1>4 DEF Conflicts
  <2>2. a \in Accounts /\ RowKey(Table, a) \in AllKeys
    BY <1>2, AccountKeys
  <2>3. store.version \in Nat /\ store.modified \in [AllKeys -> 0 .. store.version]
        /\ u.at \in 0 .. store.version
    BY <1>1 DEF BankInv, TransferInv
  <2>4. store.modified[RowKey(Table, a)] <= u.at
    <3>1. store.modified[RowKey(Table, a)] \in 0 .. store.version
      BY <2>2, <2>3
    <3> QED
      BY <2>1, <2>3, <3>1
  <2> QED
    BY <1>1, <2>2, <2>4 DEF TransferInv
<1>6. /\ store'.version \in Nat /\ store.version <= store'.version
      /\ store'.modified \in [AllKeys -> 0 .. store'.version]
      /\ DOMAIN store'.data = AllKeys
      /\ \A k \in AllKeys :
           IF k \in WriteSet(u)
           THEN store'.data[k] = u.writes[k] /\ store.version < store'.modified[k]
           ELSE store'.data[k] = store.data[k] /\ store'.modified[k] = store.modified[k]
  <2>1. /\ store.version \in Nat /\ store.modified \in [AllKeys -> 0 .. store.version]
        /\ DOMAIN store.data = AllKeys
    BY DEF BankInv
  <2> HIDE DEF u
  <2>2. IsPublished(store, u, store')
    BY <1>1, <1>4, <2>1, Published
  <2> QED
    BY <2>2 DEF IsPublished
<1>7. \A a \in Accounts :
        /\ RowKey(Table, a) \in AllKeys
        /\ RowKey(Table, a) \in WriteSet(u) <=> a = job.from \/ a = job.to
  BY <1>2, <1>4, AccountKeys
<1>8. old \in [Accounts -> Int]
  BY DEF BankInv
<1>9. \A a \in Accounts : new[a] = IF a = job.from THEN old[a] - job.amount
                                   ELSE IF a = job.to THEN old[a] + job.amount ELSE old[a]
  <2> TAKE a \in Accounts
  <2>1. new[a] = store'.data[RowKey(Table, a)] /\ old[a] = store.data[RowKey(Table, a)]
    BY BalanceAt
  <2> HIDE DEF new, old, u, job
  <2> QED
    BY <1>2, <1>4, <1>5, <1>6, <1>7, <2>1
<1>10. new = [a \in Accounts |-> new[a]]
  BY DEF Balances
<1> HIDE DEF new, old
<1>11. new \in [Accounts -> Int]
  BY <1>2, <1>8, <1>9, <1>10
<1>12. SumFunction(new) = SumFunction(old)
  <2>1. IsFiniteSet(Accounts)
    BY BankAssumption
  <2>2. old[job.from] \in Int /\ old[job.to] \in Int
    BY <1>2, <1>8
  <2> HIDE DEF job
  <2>3. new[job.from] - old[job.from] = old[job.to] - new[job.to]
    BY <1>2, <1>9, <2>2
  <2>4. \A z \in Accounts : z # job.from /\ z # job.to => new[z] = old[z]
    BY <1>9
  <2> QED
    BY <1>2, <1>8, <1>11, <2>1, <2>3, <2>4, SumOfMove
<1>13. /\ moved' \in [Threads -> [Accounts -> Int]]
       /\ \A a \in Accounts :
            /\ \A q \in Threads : q # t => moved'[q][a] = moved[q][a]
            /\ moved'[t][a] - moved[t][a] = new[a] - old[a]
  <2>1. moved \in [Threads -> [Accounts -> Int]]
    BY DEF BankInv
  <2>2. moved[t] \in [Accounts -> Int]
    BY <2>1
  <2> DEFINE m == [moved[t] EXCEPT ![job.from] = @ - job.amount, ![job.to] = @ + job.amount]
  <2>3. moved' = [moved EXCEPT ![t] = m]
    BY <1>1, <1>2, <2>1
  <2>4. /\ m \in [Accounts -> Int]
        /\ \A a \in Accounts : m[a] = IF a = job.from THEN moved[t][a] - job.amount
                                      ELSE IF a = job.to THEN moved[t][a] + job.amount
                                      ELSE moved[t][a]
    BY <1>2, <2>2
  <2> HIDE DEF m, job
  <2>5. \A a \in Accounts : m[a] - moved[t][a] = new[a] - old[a]
    BY <1>2, <1>8, <1>9, <2>2, <2>4
  <2> QED
    BY <2>1, <2>3, <2>4, <2>5
<1>14. ASSUME NEW a \in Accounts
       PROVE  new[a] = Initial + SumFunction([q \in Threads |-> moved'[q][a]])
  <2> DEFINE f == [q \in Threads |-> moved[q][a]]
             h == [q \in Threads |-> moved'[q][a]]
  <2>1. f \in [Threads -> Int] /\ h \in [Threads -> Int]
    BY <1>13 DEF BankInv
  <2>2. old[a] = Initial + SumFunction(f)
    BY DEF BankInv, NoTransferLost, old
  <2>3. \A q \in Threads : q # t => h[q] = f[q]
    BY <1>13
  <2>4. h[t] - f[t] = new[a] - old[a]
    BY <1>13
  <2> HIDE DEF f, h
  <2>5. SumFunction(h) = SumFunction(f) + (h[t] - f[t]) /\ SumFunction(f) \in Int
    <3>1. IsFiniteSet(Threads)
      BY BankAssumption
    <3>2. SumFunction(f) \in Int
      BY <2>1, <3>1, SumIsInt
    <3>3. SumFunction(h) = SumFunction(f) + (h[t] - f[t])
      BY <2>1, <2>3, <3>1, SumOfChange
    <3> QED
      BY <3>2, <3>3
  <2>6. SumFunction(h) = SumFunction(f) + (new[a] - old[a])
    BY <2>4, <2>5
  <2>7. old[a] \in Int /\ new[a] \in Int /\ Initial \in Int
    BY <1>8, <1>11, BankAssumption
  <2>8. new[a] = Initial + SumFunction(h)
    BY <2>2, <2>5, <2>6, <2>7
  <2> QED
    BY <2>8 DEF h
<1>15. ASSUME NEW q \in Threads, transfer'[q] # NoTx
       PROVE  TransferInv(q)'
  <2>1. q # t /\ transfer'[q] = transfer[q] /\ next'[q] = next[q] /\ TransferInv(q)
    BY <1>1, <1>15 DEF BankInv
  <2>2. \A a \in Accounts :
          \/ /\ store'.data[RowKey(Table, a)] = store.data[RowKey(Table, a)]
             /\ store'.modified[RowKey(Table, a)] = store.modified[RowKey(Table, a)]
          \/ store.version < store'.modified[RowKey(Table, a)]
    BY <1>6, <1>7
  <2> QED
    BY <1>6, <2>1, <2>2, TransferKept
<1>16. /\ DOMAIN transfer' = Threads /\ next' \in [Threads -> Nat \ {0}]
  BY <1>1 DEF BankInv
<1>17. SumFunction(new) = Money
  BY <1>12 DEF BankInv, old
<1>18. NoTransferLost'
  BY <1>14 DEF NoTransferLost, new
<1> QED
  BY <1>1, <1>6, <1>11, <1>13, <1>15, <1>16, <1>17, <1>18 DEF BankInv, new

-----------------------------------------------------------------------------
(* How the workload begins, and what the creators do.                      *)

\* Stores of some values, as commits leave them.
StoresOf(D) == {st \in [version : Nat, data : [AllKeys -> D], modified : [AllKeys -> Nat]] :
                  st.modified \in [AllKeys -> 0 .. st.version]}

\* Opening an account.
LEMMA InsertedAt ==
  ASSUME NEW D, Initial \in D, NEW st \in StoresOf(D), NEW a \in Accounts
  PROVE  /\ Inserted(a, st) \in StoresOf(D)
         /\ Inserted(a, st).data = [st.data EXCEPT ![RowKey(Table, a)] = Initial]
<1> DEFINE key == RowKey(Table, a)
           t == Begin(st)
           u == Put(t, key, Initial)
           new == Apply(st, u)
<1>1. key \in AllKeys /\ Initial # Unwritten
  BY AccountKeys, BankAssumption
<1>2. /\ st.version \in Nat /\ st.data \in [AllKeys -> D]
      /\ st.modified \in [AllKeys -> 0 .. st.version]
  BY DEF StoresOf
<1>3. u.writes = [k \in AllKeys |-> IF k = key THEN Initial ELSE Unwritten]
  BY <1>1, <1>2 DEF Begin, Put
<1> HIDE DEF t, u, key
<1>4. WriteSet(u) = {key}
  BY <1>1, <1>3 DEF WriteSet
<1>5. new = [version |-> st.version + 1,
             data |-> [k \in AllKeys |-> IF k = key THEN Initial ELSE st.data[k]],
             modified |-> [k \in AllKeys |-> IF k = key THEN st.version + 1 ELSE st.modified[k]]]
  BY <1>1, <1>2, <1>3, <1>4 DEF Apply
<1>6. Inserted(a, st) = new
  BY DEF Inserted, RelWrite, u, t, key
<1> HIDE DEF new
<1>7. new.data = [st.data EXCEPT ![key] = Initial] /\ new.data \in [AllKeys -> D]
  BY <1>1, <1>2, <1>5
<1>8. new.modified \in [AllKeys -> 0 .. new.version] /\ new.modified \in [AllKeys -> Nat]
      /\ new.version \in Nat
  BY <1>1, <1>2, <1>5
<1>9. new \in StoresOf(D)
  BY <1>5, <1>7, <1>8 DEF StoresOf
<1> QED
  BY <1>6, <1>7, <1>9 DEF key

\* The table of accounts, before there are any.
LEMMA CreatedStore ==
  ASSUME NEW sch
  PROVE  \E D : Initial \in D /\ Created(sch) \in StoresOf(D)
<1> DEFINE st == NewStore(AllKeys)
           t == Begin(st)
           u == CreatePuts(t, AccountsTable, sch)
           new == Apply(st, u)
<1>1. /\ st.version = 0 /\ DOMAIN st.data = AllKeys
      /\ st.modified = [k \in AllKeys |-> 0]
  BY DEF NewStore
<1>2. /\ t = [at |-> t.at, view |-> t.view, writes |-> t.writes]
      /\ t.writes = [k \in AllKeys |-> Unwritten] /\ WriteSet(t) = {}
  BY <1>1 DEF Begin, WriteSet
<1>3. AccountsTable \in Names
  BY BankAssumption
<1>4. st.version \in Nat /\ st.modified \in [AllKeys -> 0 .. st.version]
  BY <1>1
<1> HIDE DEF t, st
<1>5. DOMAIN u.writes = AllKeys
  BY <1>2, <1>3, CreatesInCatalog
<1> HIDE DEF u
<1>6. /\ new.version \in Nat /\ new.modified \in [AllKeys -> 0 .. new.version]
      /\ DOMAIN new.data = AllKeys
  BY <1>1, <1>4, <1>5, Published DEF IsPublished
<1>7. new = [version |-> new.version, data |-> new.data, modified |-> new.modified]
  BY DEF Apply, st, NewStore
<1>8. new.data = [k \in AllKeys |-> new.data[k]]
  BY <1>6 DEF Apply, st, NewStore
<1> DEFINE D == {new.data[k] : k \in AllKeys} \cup {Initial}
<1> HIDE DEF new
<1>9. new.data \in [AllKeys -> D] /\ new.modified \in [AllKeys -> Nat]
  BY <1>6, <1>8
<1> HIDE DEF D
<1>10. new \in StoresOf(D)
  BY <1>6, <1>7, <1>9 DEF StoresOf
<1>11. Created(sch) = new /\ Initial \in D
  BY DEF Created, new, u, t, st, D
<1> QED
  BY <1>10, <1>11

\* Then every account holds its opening balance.
LEMMA OpenedStore ==
  ASSUME NEW sch, NEW st, st = FoldSet(Inserted, Created(sch), Accounts)
  PROVE  \E D : st \in StoresOf(D) /\ Balances(st.data) = [a \in Accounts |-> Initial]
<1> DEFINE base == Created(sch)
           pick(T) == CHOOSE x \in T : TRUE
           Is(f) == f = [T \in SUBSET Accounts |->
                           IF T = {} THEN base ELSE Inserted(pick(T), f[T \ {pick(T)}])]
<1>1. PICK D : Initial \in D /\ base \in StoresOf(D)
  BY CreatedStore
<1> DEFINE V == StoresOf(D)
           g == [p \in Accounts \X V |-> Inserted(p[1], p[2])]
<1> HIDE DEF base, V
<1>2. \A x \in Accounts, v \in V : g[<<x, v>>] = Inserted(x, v) /\ g[<<x, v>>] \in V
  BY <1>1, InsertedAt DEF V
<1>3. IsFiniteSet(Accounts)
  BY BankAssumption
<1>4. PICK r : IsFold(r, g, Accounts, V, base)
  <2>1. StaysIn(g, Accounts, V) /\ base \in V
    BY <1>1, <1>2 DEF StaysIn, V
  <2> HIDE DEF g, Is
  <2> QED
    BY <1>3, <2>1, FoldRecursion
<1>5. Is(r)
  <2>1. ASSUME NEW T \in SUBSET Accounts
        PROVE  r[T] = IF T = {} THEN base ELSE Inserted(pick(T), r[T \ {pick(T)}])
    <3>1. pick(T) = Pick(T) /\ (T # {} => pick(T) \in Accounts)
      BY DEF Pick
    <3>2. T \ {pick(T)} \in SUBSET Accounts
      OBVIOUS
    <3> HIDE DEF pick, g
    <3>3. r[T \ {pick(T)}] \in V
      BY <1>4, <3>2 DEF IsFold
    <3> QED
      BY <1>2, <1>4, <3>1, <3>3 DEF IsFold
  <2>2. r \in [SUBSET Accounts -> V]
    BY <1>4 DEF IsFold
  <2> HIDE DEF pick
  <2> QED
    BY <2>1, <2>2
<1> DEFINE s == CHOOSE s : Is(s)
<1>6. Is(s)
  BY <1>5
<1>7. st = s[Accounts]
  BY DEF FoldSet, MapThenFoldSet, base
<1> HIDE DEF s, g
<1>8. \A T \in SUBSET Accounts :
        s[T] = IF T = {} THEN base ELSE Inserted(Pick(T), s[T \ {Pick(T)}])
  BY <1>6 DEF Pick
<1> HIDE DEF Is
<1> DEFINE G == {T \in SUBSET Accounts :
                   s[T] \in V /\ \A a \in T : s[T].data[RowKey(Table, a)] = Initial}
<1>9. {} \in G
  <2>1. {} \in SUBSET Accounts /\ s[{}] = base
    BY <1>8
  <2> QED
    BY <1>1, <2>1 DEF V
<1>10. ASSUME NEW T \in SUBSET Accounts, T # {}, T \ {Pick(T)} \in G
       PROVE  T \in G
  <2> DEFINE p == Pick(T)
             v == s[T \ {p}]
  <2>1. p \in Accounts /\ v \in V
        /\ \A a \in T \ {p} : v.data[RowKey(Table, a)] = Initial
    BY <1>10 DEF Pick
  <2>2. s[T] = Inserted(p, v)
    BY <1>8, <1>10
  <2> HIDE DEF p, v
  <2>3. s[T] \in V /\ s[T].data = [v.data EXCEPT ![RowKey(Table, p)] = Initial]
    BY <1>1, <2>1, <2>2, InsertedAt DEF V
  <2>4. DOMAIN v.data = AllKeys
    BY <2>1 DEF V, StoresOf
  <2>5. \A a \in T : s[T].data[RowKey(Table, a)] = Initial
    BY <2>1, <2>3, <2>4, AccountKeys
  <2> QED
    BY <2>3, <2>5
<1>11. Accounts \in G
  <2> HIDE DEF G
  <2>1. \A T \in SUBSET Accounts : T \in G
    BY <1>3, <1>9, <1>10, PickInduction
  <2> QED
    BY <2>1
<1> QED
  BY <1>7, <1>11 DEF Balances, V

\* A new bank.
LEMMA BankInitInv == BankInit => BankInv
<1> SUFFICES ASSUME BankInit PROVE BankInv
  OBVIOUS
<1>1. PICK sch : store = FoldSet(Inserted, Created(sch), Accounts)
  BY DEF BankInit
<1>2. PICK D : store \in StoresOf(D) /\ Balances(store.data) = [a \in Accounts |-> Initial]
  BY <1>1, OpenedStore
<1>3. /\ store.version \in Nat /\ store.modified \in [AllKeys -> 0 .. store.version]
      /\ DOMAIN store.data = AllKeys
  BY <1>2 DEF StoresOf
<1>4. Initial \in Int /\ IsFiniteSet(Accounts) /\ IsFiniteSet(Threads)
  BY BankAssumption
<1>5. Balances(store.data) \in [Accounts -> Int] /\ SumFunction(Balances(store.data)) = Money
  BY <1>2, <1>4, SumOfSame DEF Money
<1>6. /\ transfer = [t \in Threads |-> NoTx] /\ next = [t \in Threads |-> 1]
      /\ moved = [t \in Threads |-> [a \in Accounts |-> 0]]
      /\ pc = [c \in Creators |-> "idle"] /\ tx = [c \in Creators |-> NoTx]
  BY DEF BankInit
<1>7. ASSUME NEW a \in Accounts
      PROVE  Balances(store.data)[a] = Initial + SumFunction([t \in Threads |-> moved[t][a]])
  <2> DEFINE zero == 0
  <2>1. [t \in Threads |-> moved[t][a]] = [t \in Threads |-> zero] /\ zero \in Int
    BY <1>6
  <2> HIDE DEF zero
  <2>2. SumFunction([t \in Threads |-> zero]) = Cardinality(Threads) * zero
    BY <1>4, <2>1, SumOfSame
  <2>3. Cardinality(Threads) \in Nat
    BY <1>4, FS_CardinalityType
  <2>4. Cardinality(Threads) * zero = 0
    BY <2>3 DEF zero
  <2> QED
    BY <1>2, <1>4, <2>1, <2>2, <2>4
<1> QED
  BY <1>3, <1>5, <1>6, <1>7 DEF BankInv, NoTransferLost

\* CREATE TABLE beside the transfers.
LEMMA CreatorsKeep ==
  ASSUME BankInv, NEW c \in Creators, RetryStep(c)
  PROVE  BankInv'
<1>1. transfer' = transfer /\ next' = next /\ moved' = moved
  BY DEF RetryStep, threadVars
<1>2. ASSUME store' = store
      PROVE  \A t \in Threads : transfer'[t] # NoTx => TransferInv(t)'
  BY <1>1, <1>2 DEF BankInv, TransferInv
<1>3. CASE Call(c)
  <2>1. PICK sch : CreateBegin(c, Wanted[c], sch)
    BY <1>3 DEF Call
  <2>2. Wanted[c] \in Names /\ store' = store
    BY <2>1, WantedAssumption DEF CreateBegin
  <2>3. DOMAIN pc' = Creators /\ DOMAIN tx' = Creators
    BY <2>1 DEF CreateBegin, Return, BankInv
  <2>4. ASSUME NEW d \in Creators, pc'[d] = "commit"
        PROVE  DOMAIN tx'[d].writes = AllKeys /\ WriteSet(tx'[d]) \subseteq CatalogKeys
    <3>1. CASE d # c
      <4>1. pc'[d] = pc[d] /\ tx'[d] = tx[d]
        BY <2>1, <3>1 DEF CreateBegin, Return, BankInv
      <4> QED
        BY <2>4, <4>1 DEF BankInv
    <3>2. CASE d = c
      <4> DEFINE t == Begin(store)
      <4>1. tx'[c] = CreatePuts(t, Wanted[c], sch)
        BY <2>1, <2>4, <3>2 DEF CreateBegin, Return, BankInv
      <4>2. /\ t = [at |-> t.at, view |-> t.view, writes |-> t.writes]
            /\ DOMAIN t.writes = AllKeys /\ WriteSet(t) = {}
        BY DEF Begin, WriteSet, BankInv
      <4> HIDE DEF t
      <4> QED
        BY <2>2, <3>2, <4>1, <4>2, CreatesInCatalog
    <3> QED
      BY <3>1, <3>2
  <2> QED
    BY <1>1, <1>2, <2>2, <2>3, <2>4 DEF BankInv, NoTransferLost
<1>4. ASSUME CommitOk(c) \/ CommitConflict(c)
      PROVE  /\ DOMAIN pc' = Creators /\ DOMAIN tx' = Creators
             /\ \A d \in Creators : pc'[d] = "commit" =>
                  DOMAIN tx'[d].writes = AllKeys /\ WriteSet(tx'[d]) \subseteq CatalogKeys
  <2>1. Return(c, "Ok") \/ Return(c, "ConcurrentCreateTable")
    BY <1>4 DEF CommitOk, CommitConflict
  <2> QED
    BY <2>1 DEF Return, BankInv
<1>5. CASE CommitConflict(c)
  <2>1. store' = store
    BY <1>5 DEF CommitConflict
  <2> QED
    BY <1>1, <1>2, <1>4, <1>5, <2>1 DEF BankInv, NoTransferLost
<1>6. CASE CommitOk(c)
  <2> DEFINE u == tx[c]
  <2>1. /\ store' = Apply(store, u) /\ DOMAIN u.writes = AllKeys
        /\ WriteSet(u) \subseteq CatalogKeys
    BY <1>6 DEF CommitOk, BankInv
  <2>2. /\ store.version \in Nat /\ store.modified \in [AllKeys -> 0 .. store.version]
        /\ DOMAIN store.data = AllKeys
    BY DEF BankInv
  <2> HIDE DEF u
  <2>3. IsPublished(store, u, store')
    BY <2>1, <2>2, Published
  <2> USE DEF IsPublished
  <2>4. \A a \in Accounts :
          /\ store'.data[RowKey(Table, a)] = store.data[RowKey(Table, a)]
          /\ store'.modified[RowKey(Table, a)] = store.modified[RowKey(Table, a)]
    BY <2>1, <2>3, AccountKeys
  <2>5. Balances(store'.data) = Balances(store.data)
    BY <2>4 DEF Balances
  <2>6. ASSUME NEW t \in Threads, transfer'[t] # NoTx
        PROVE  TransferInv(t)'
    <3>1. TransferInv(t) /\ transfer'[t] = transfer[t] /\ next'[t] = next[t]
      BY <1>1, <2>6 DEF BankInv
    <3> QED
      BY <2>3, <2>4, <3>1, TransferKept
  <2> QED
    BY <1>1, <1>4, <1>6, <2>3, <2>5, <2>6 DEF BankInv, NoTransferLost
<1> QED
  BY <1>3, <1>5, <1>6 DEF RetryStep, CreatorStep

-----------------------------------------------------------------------------
(* The invariant, and what follows from it.                                *)

\* The inductive invariant holds in every reachable state.
THEOREM BankInvariant == BankSpec => []BankInv
<1>1. BankInv /\ [BankNext]_bankVars => BankInv'
  <2> SUFFICES ASSUME BankInv, [BankNext]_bankVars PROVE BankInv'
    OBVIOUS
  <2>1. ASSUME NEW t \in Threads, TransferStep(t) PROVE BankInv'
    BY <2>1, TransferBegins, TransferCommits, TransferRetries DEF TransferStep
  <2>2. ASSUME NEW c \in Creators, RetryStep(c) PROVE BankInv'
    BY <2>2, CreatorsKeep
  <2>3. CASE UNCHANGED bankVars
    <3>1. /\ store' = store /\ pc' = pc /\ tx' = tx
          /\ transfer' = transfer /\ next' = next /\ moved' = moved
      BY <2>3 DEF bankVars, vars, threadVars
    <3> QED
      BY <3>1 DEF BankInv, TransferInv, NoTransferLost
  <2> QED
    BY <2>1, <2>2, <2>3 DEF BankNext
<1> QED
  BY <1>1, BankInitInv, PTL DEF BankSpec

\* For any number of threads: every account is its opening balance and the
\* transfers committed so far, however commits, conflicts and retries of the
\* threads and of CREATE TABLE interleave.
THEOREM NoTransferIsLost == BankSpec => []NoTransferLost
<1>1. BankInv => NoTransferLost
  BY DEF BankInv
<1> QED
  BY <1>1, BankInvariant, PTL

\* Every snapshot a transfer works on adds up to the money there is: none was
\* taken in the middle of a commit.
THEOREM MoneyIsConserved == BankSpec => []SnapshotsConserveMoney
<1>1. BankInv => SnapshotsConserveMoney
  BY DEF BankInv, TransferInv, SnapshotsConserveMoney
<1> QED
  BY <1>1, BankInvariant, PTL
=============================================================================
