---------------------------- MODULE SessionProofs ---------------------------
(***************************************************************************)
(* Session, proved for every set of sessions, schemas, rows and statements *)
(* that keep EffectAssumption: no session gets stuck in a failure, the     *)
(* committed rows are what the committed statements reported, and a        *)
(* transaction that changes what it reads is serializable.                 *)
(*                                                                         *)
(* The argument has three levels.  Redoing reports is a recursive function *)
(* of the reports, so its lemmas are inductions over their number.  One    *)
(* statement adds its report to the transaction's, and its changes to the  *)
(* buffer: ReportsInv.  Steps of others leave that alone, and a commit     *)
(* without conflicts finds on the committed rows what it found on its      *)
(* snapshot, wherever it has changed something: DueInv.                    *)
(***************************************************************************)
EXTENDS Session, DatabaseProofs, Induction

\* The locals NeverWedged is about, and what an autocommitted statement and a
\* refused commit exclude.
SessionInv ==
  /\ pc \in [Sessions -> {"idle", "commit"}]
  /\ phase \in [Sessions -> {"idle", "open", "refused"}]
  /\ auto \in [Sessions -> BOOLEAN] /\ failed \in [Sessions -> BOOLEAN]
  /\ erred \in [Sessions -> BOOLEAN]
  /\ \A s \in Sessions : phase[s] = "refused" => ~failed[s]
  /\ \A s \in Sessions : auto[s] => phase[s] # "idle" /\ ~failed[s]
  /\ NeverWedged

\* New sessions.
LEMMA SessionInitInv == SessionInit => SessionInv
  BY SessionAssumption DEF SessionInit, DbInit, Init, SessionInv, NeverWedged, InTxn, Sessions

\* What one session's step leaves of the others, and what it needs of its own.
LEMMA OneSession ==
  ASSUME SessionInv, NEW s \in Sessions,
         pc' \in [Sessions -> {"idle", "commit"}],
         phase' \in [Sessions -> {"idle", "open", "refused"}],
         auto' \in [Sessions -> BOOLEAN], failed' \in [Sessions -> BOOLEAN],
         erred' \in [Sessions -> BOOLEAN],
         \A t \in Sessions \ {s} :
           /\ pc'[t] = pc[t] /\ phase'[t] = phase[t] /\ auto'[t] = auto[t]
           /\ failed'[t] = failed[t] /\ erred'[t] = erred[t],
         phase'[s] = "refused" => ~failed'[s],
         auto'[s] => phase'[s] # "idle" /\ ~failed'[s],
         failed'[s] => phase'[s] = "open" /\ ~auto'[s] /\ erred'[s],
         pc'[s] = "commit" => phase'[s] = "idle"
  PROVE  SessionInv'
  BY DEF SessionInv, NeverWedged, InTxn

\* However a transaction ends, its session starts afresh.
LEMMA EndedAfresh ==
  ASSUME SessionInv, NEW s \in Sessions, NEW how, EndTxn(s, how), Closed(s), pc' = pc
  PROVE  SessionInv'
<1>1. /\ phase' = [phase EXCEPT ![s] = "idle"]
      /\ auto' = [auto EXCEPT ![s] = FALSE]
      /\ failed' = [failed EXCEPT ![s] = FALSE]
      /\ erred' = [erred EXCEPT ![s] = FALSE]
  BY DEF EndTxn, Closed
<1> QED
  BY <1>1, OneSession DEF SessionInv, Sessions

\* A statement, or the commit or conflict_error call it has come to.
LEMMA SessionStepKeeps ==
  ASSUME SessionInv, NEW s \in Sessions, SessionStep(s)
  PROVE  SessionInv'
<1> USE DEF Sessions
<1>0. Creators = Clients
  BY SessionAssumption
<1>1. CASE ExecBegin(s)
  BY <1>0, <1>1, OneSession
     DEF ExecBegin, BeginTxn, Ready, InTxn, vars, sessionVars, SessionInv, NeverWedged
<1>2. CASE ExecRefused(s)
  BY <1>0, <1>2, OneSession
     DEF ExecRefused, Ready, InTxn, vars, dbVars, clientVars, SessionInv, NeverWedged
<1>3. CASE ExecInTxn(s)
  BY <1>0, <1>3, OneSession
     DEF ExecInTxn, RanInTxn, Poisoned, Ready, InTxn, vars, SessionInv, NeverWedged
<1>4. CASE ExecAuto(s)
  BY <1>0, <1>4, OneSession
     DEF ExecAuto, RanAuto, Ready, InTxn, vars, SessionInv, NeverWedged
<1>5. CASE ExecCommit(s)
  <2>1. CASE CommitTxn(s) /\ Closed(s)
    BY <2>1, EndedAfresh DEF CommitTxn, catalogVars
  <2>2. CASE TxnStoreError(s) /\ Closed(s)
    BY <2>2, EndedAfresh DEF TxnStoreError, catalogVars
  <2>3. CASE RefuseTxn(s) /\ UNCHANGED sessionVars
    BY <1>0, <1>5, <2>3, OneSession
       DEF ExecCommit, MayCommit, RefuseTxn, vars, sessionVars, InTxn, SessionInv, NeverWedged
  <2> QED
    BY <1>5, <2>1, <2>2, <2>3 DEF ExecCommit
<1>6. CASE ExecConflictError(s)
  BY <1>6, EndedAfresh DEF ExecConflictError, ConflictError, vars
<1>7. CASE ExecCommitFailed(s) \/ ExecRollback(s)
  BY <1>7, EndedAfresh DEF ExecCommitFailed, ExecRollback, AbortTxn, vars
<1>8. CASE ExecCreateTable(s)
  BY <1>0, <1>8, OneSession
     DEF ExecCreateTable, CreateBegin, CommitOk, CommitConflict, CommitStoreError, Return,
         Ready, InTxn, clientVars, sessionVars, SessionInv, NeverWedged
<1> QED
  BY <1>1, <1>2, <1>3, <1>4, <1>5, <1>6, <1>7, <1>8 DEF SessionStep

\* A crash leaves sessions that have not begun anything.
LEMMA SessionCrashKeeps ==
  ASSUME SessionInv, SessionCrash
  PROVE  SessionInv'
<1>1. Creators = Clients
  BY SessionAssumption DEF Sessions
<1>2. pc' = [c \in Creators |-> "idle"]
  BY DEF SessionCrash, CrashAndReopen, ForgetLocals
<1> QED
  BY <1>1, <1>2
     DEF SessionCrash, ForgetClients, SessionInv, NeverWedged, InTxn, Sessions

\* Every step keeps SessionInv.
LEMMA SessionNextKeeps == SessionInv /\ [SessionNext]_allVars => SessionInv'
<1> SUFFICES ASSUME SessionInv, [SessionNext]_allVars PROVE SessionInv'
  OBVIOUS
<1>1. ASSUME NEW s \in Sessions, SessionStep(s) PROVE SessionInv'
  BY <1>1, SessionStepKeeps
<1>2. CASE SessionCrash
  BY <1>2, SessionCrashKeeps
<1>3. CASE UNCHANGED allVars
  BY <1>3 DEF allVars, dbVars, vars, clientVars, sessionVars, SessionInv, NeverWedged, InTxn
<1> QED
  BY <1>1, <1>2, <1>3 DEF SessionNext

\* A failure never outlives its transaction, never lets autocommit run under
\* it, and always has a statement of that transaction behind it; whatever the
\* statements do, fail at and conflict with.
THEOREM SessionsNeverWedge == SessionSpec => []NeverWedged
<1>1. SessionInv => NeverWedged
  BY DEF SessionInv
<1> QED
  BY <1>1, SessionInitInv, SessionNextKeeps, PTL DEF SessionSpec

-----------------------------------------------------------------------------
(* Redoing the changes of one statement.                                   *)

Places  == Names \X Pks
RowMaps == [Places -> Rows \cup {Absent, Broken}]

Changes == [pk : Pks, from : Rows \cup {Absent}, to : Rows \cup {Absent}]

\* Changes that a successful statement can report: of different rows.
OncePerRow(changes) ==
  /\ changes \in Seq(Changes)
  /\ \A i, j \in DOMAIN changes : changes[i].pk = changes[j].pk => i = j

\* Redoing a statement, change by change.
LEMMA RedoStatementUnfolds ==
  ASSUME NEW rows \in RowMaps, NEW table \in Names, NEW changes \in Seq(Changes)
  PROVE  \E f \in [0 .. Len(changes) -> RowMaps] :
           /\ f[0] = rows /\ f[Len(changes)] = RedoStatement(rows, table, changes)
           /\ \A i \in 1 .. Len(changes) :
                f[i] = Redo(f[i - 1], <<table, changes[i].pk>>, changes[i])
<1> DEFINE n == Len(changes)
           g == [x \in RowMaps \X (1 .. n) |->
                   Redo(x[1], <<table, changes[x[2]].pk>>, changes[x[2]])]
           Is(f) == f = [i \in 0 .. n |->
                           IF i = 0 THEN rows
                           ELSE Redo(f[i - 1], <<table, changes[i].pk>>, changes[i])]
<1>1. n \in Nat
  OBVIOUS
<1>2. \A x \in RowMaps, i \in 1 .. n :
        /\ g[<<x, i>>] = Redo(x, <<table, changes[i].pk>>, changes[i])
        /\ g[<<x, i>>] \in RowMaps
  <2> TAKE x \in RowMaps, i \in 1 .. n
  <2>1. g[<<x, i>>] = Redo(x, <<table, changes[i].pk>>, changes[i])
    OBVIOUS
  <2>2. changes[i] \in Changes
    OBVIOUS
  <2>3. changes[i].pk \in Pks /\ changes[i].to \in Rows \cup {Absent}
    BY <2>2 DEF Changes
  <2>4. Redo(x, <<table, changes[i].pk>>, changes[i]) \in RowMaps
    BY <2>3 DEF Redo, RowMaps, Places
  <2> QED
    BY <2>1, <2>4
<1>3. PICK f : Steps(f, g, RowMaps, rows, n)
  <2>1. IsStep(g, RowMaps, n)
    BY <1>2 DEF IsStep
  <2> HIDE DEF g, n, Is
  <2> QED
    BY <1>1, <2>1, Recursion
<1>4. Is(f)
  <2>1. ASSUME NEW i \in 0 .. n
        PROVE  f[i] = IF i = 0 THEN rows
                      ELSE Redo(f[i - 1], <<table, changes[i].pk>>, changes[i])
    <3>1. i # 0 => i - 1 \in 0 .. n /\ i \in 1 .. n
      BY <1>1
    <3> HIDE DEF g
    <3> QED
      BY <1>2, <1>3, <3>1 DEF Steps
  <2> QED
    BY <1>3, <2>1 DEF Steps
<1> DEFINE h == CHOOSE h : Is(h)
<1>5. Is(h)
  BY <1>4
<1>6. RedoStatement(rows, table, changes) = h[n]
  BY DEF RedoStatement
<1> HIDE DEF g, h
<1>7. /\ h[0] = rows
      /\ \A i \in 1 .. n : h[i] = Redo(h[i - 1], <<table, changes[i].pk>>, changes[i])
  BY <1>1, <1>5
<1> DEFINE G == {i \in 0 .. n : h[i] \in RowMaps}
<1>8. 0 \in G
  BY <1>1, <1>7
<1>9. ASSUME NEW i \in 1 .. n, i - 1 \in G
      PROVE  i \in G
  <2>1. h[i] = g[<<h[i - 1], i>>]
    BY <1>2, <1>7, <1>9
  <2>2. g[<<h[i - 1], i>>] \in RowMaps
    BY <1>2, <1>9
  <2> QED
    BY <1>1, <2>1, <2>2
<1>10. \A i \in 0 .. n : h[i] \in RowMaps
  <2> HIDE DEF n, G
  <2>1. \A i \in 0 .. n : i \in G
    BY <1>1, <1>8, <1>9, IntervalInduction
  <2> QED
    BY <2>1 DEF G
<1>11. h \in [0 .. n -> RowMaps]
  BY <1>5, <1>10
<1> QED
  BY <1>6, <1>7, <1>11

\* What redoing a statement leaves at each place.
LEMMA RedoStatementAt ==
  ASSUME NEW rows \in RowMaps, NEW table \in Names, NEW changes, OncePerRow(changes)
  PROVE  /\ RedoStatement(rows, table, changes) \in RowMaps
         /\ \A place \in Places :
              (\A i \in DOMAIN changes : place # <<table, changes[i].pk>>)
              => RedoStatement(rows, table, changes)[place] = rows[place]
         /\ \A i \in DOMAIN changes :
              RedoStatement(rows, table, changes)[<<table, changes[i].pk>>]
                = IF rows[<<table, changes[i].pk>>] = changes[i].from
                  THEN changes[i].to ELSE Broken
<1> DEFINE n == Len(changes)
           at(i) == <<table, changes[i].pk>>
<1>1. /\ changes \in Seq(Changes) /\ n \in Nat /\ DOMAIN changes = 1 .. n
      /\ \A i \in 1 .. n : changes[i].pk \in Pks /\ at(i) \in Places
      /\ \A i, j \in 1 .. n : at(i) = at(j) => i = j
  <2>1. changes \in Seq(Changes) /\ n \in Nat /\ DOMAIN changes = 1 .. n
    BY DEF OncePerRow
  <2>2. \A i \in 1 .. n : changes[i] \in Changes
    BY <2>1
  <2> QED
    BY <2>1, <2>2 DEF OncePerRow, Changes, Places
<1>2. PICK f \in [0 .. n -> RowMaps] :
        /\ f[0] = rows /\ f[n] = RedoStatement(rows, table, changes)
        /\ \A i \in 1 .. n : f[i] = Redo(f[i - 1], at(i), changes[i])
  BY <1>1, RedoStatementUnfolds
<1> HIDE DEF n
<1>3. \A i \in 1 .. n : i - 1 \in 0 .. n /\ i \in 0 .. n /\ f[i - 1] \in RowMaps
  BY <1>1, <1>2
<1>4. \A i \in 1 .. n, place \in Places :
        f[i][place] = IF place # at(i) THEN f[i - 1][place]
                      ELSE IF f[i - 1][place] = changes[i].from
                           THEN changes[i].to ELSE Broken
  <2> TAKE i \in 1 .. n, place \in Places
  <2>1. f[i] = Redo(f[i - 1], at(i), changes[i]) /\ f[i - 1] \in RowMaps
    BY <1>2, <1>3
  <2> QED
    BY <1>1, <2>1 DEF Redo, RowMaps
<1> DEFINE Right(m, place) ==
             /\ (\A i \in 1 .. m : place # at(i)) => f[m][place] = rows[place]
             /\ \A i \in 1 .. m : place = at(i) =>
                  f[m][place] = IF rows[place] = changes[i].from
                                THEN changes[i].to ELSE Broken
<1>5. ASSUME NEW place \in Places
      PROVE  Right(n, place)
  <2> DEFINE G == {m \in 0 .. n : Right(m, place)}
  <2>1. 0 \in G
    BY <1>1, <1>2
  <2>2. ASSUME NEW m \in 1 .. n, m - 1 \in G
        PROVE  m \in G
    <3>1. \A i \in 1 .. m : i \in 1 .. n /\ (i = m \/ i \in 1 .. (m - 1))
      BY <1>1
    <3>2. \A i \in 1 .. (m - 1) : i \in 1 .. m /\ i # m /\ m \in 1 .. m
      BY <1>1
    <3>3. Right(m - 1, place)
      BY <2>2
    <3>4. CASE place = at(m)
      <4>1. \A i \in 1 .. (m - 1) : place # at(i)
        BY <1>1, <3>1, <3>2, <3>4
      <4>2. f[m - 1][place] = rows[place]
        BY <3>3, <4>1
      <4>3. f[m][place] = IF rows[place] = changes[m].from THEN changes[m].to ELSE Broken
        BY <1>4, <3>4, <4>2
      <4>4. \A i \in 1 .. m : place = at(i) => i = m
        BY <3>1, <4>1
      <4>5. m \in 1 .. m
        BY <1>1
      <4> QED
        BY <1>3, <3>4, <4>3, <4>4, <4>5
    <3>5. CASE place # at(m)
      <4>1. f[m][place] = f[m - 1][place]
        BY <1>4, <3>5
      <4> HIDE DEF at
      <4>2. Right(m, place)
        BY <3>1, <3>2, <3>3, <3>5, <4>1
      <4> QED
        BY <1>3, <4>2
    <3> QED
      BY <3>4, <3>5
  <2> HIDE DEF G
  <2>3. \A m \in 0 .. n : m \in G
    BY <1>1, <2>1, <2>2, IntervalInduction
  <2>4. n \in 0 .. n
    BY <1>1
  <2> QED
    BY <2>3, <2>4 DEF G
<1>6. f[n] \in RowMaps
  BY <1>1, <1>2
<1> QED
  BY <1>1, <1>2, <1>5, <1>6
-----------------------------------------------------------------------------
(* Transactions.                                                           *)

\* The reports of successful statements.
Reported(entries) ==
  /\ entries \in Seq(Reports)
  /\ \A i \in DOMAIN entries : OncePerRow(entries[i].did.changes)

\* What a report is made of.
LEMMA ReportTypes ==
  ASSUME NEW e \in Reports
  PROVE  e.st \in Statements /\ e.st.table \in Names /\ e.did \in Outcomes
         /\ e.did.changes \in Seq(Changes)
  BY SessionAssumption DEF Reports, Outcomes, Changes

\* Redoing a transaction, statement by statement.
LEMMA RedoAllUnfolds ==
  ASSUME NEW rows \in RowMaps, NEW entries, Reported(entries)
  PROVE  \E f \in [0 .. Len(entries) -> RowMaps] :
           /\ f[0] = rows /\ f[Len(entries)] = RedoAll(rows, entries)
           /\ \A i \in 1 .. Len(entries) :
                f[i] = RedoStatement(f[i - 1], entries[i].st.table, entries[i].did.changes)
<1> DEFINE n == Len(entries)
           g == [x \in RowMaps \X (1 .. n) |->
                   RedoStatement(x[1], entries[x[2]].st.table, entries[x[2]].did.changes)]
           Is(f) == f = [i \in 0 .. n |->
                           IF i = 0 THEN rows
                           ELSE RedoStatement(f[i - 1], entries[i].st.table,
                                              entries[i].did.changes)]
<1>1. n \in Nat /\ DOMAIN entries = 1 .. n /\ \A i \in 1 .. n : entries[i] \in Reports
  BY DEF Reported
<1>2. \A x \in RowMaps, i \in 1 .. n :
        /\ g[<<x, i>>] = RedoStatement(x, entries[i].st.table, entries[i].did.changes)
        /\ g[<<x, i>>] \in RowMaps
  <2> TAKE x \in RowMaps, i \in 1 .. n
  <2>1. g[<<x, i>>] = RedoStatement(x, entries[i].st.table, entries[i].did.changes)
    OBVIOUS
  <2>2. entries[i].st.table \in Names /\ OncePerRow(entries[i].did.changes)
    BY <1>1, ReportTypes DEF Reported
  <2>3. RedoStatement(x, entries[i].st.table, entries[i].did.changes) \in RowMaps
    BY <2>2, RedoStatementAt
  <2> QED
    BY <2>1, <2>3
<1>3. PICK f : Steps(f, g, RowMaps, rows, n)
  <2>1. IsStep(g, RowMaps, n)
    BY <1>2 DEF IsStep
  <2> HIDE DEF g, n, Is
  <2> QED
    BY <1>1, <2>1, Recursion
<1>4. Is(f)
  <2>1. ASSUME NEW i \in 0 .. n
        PROVE  f[i] = IF i = 0 THEN rows
                      ELSE RedoStatement(f[i - 1], entries[i].st.table, entries[i].did.changes)
    <3>1. i # 0 => i - 1 \in 0 .. n /\ i \in 1 .. n
      BY <1>1
    <3> HIDE DEF g
    <3> QED
      BY <1>2, <1>3, <3>1 DEF Steps
  <2> QED
    BY <1>3, <2>1 DEF Steps
<1> DEFINE h == CHOOSE h : Is(h)
<1>5. Is(h)
  BY <1>4
<1>6. RedoAll(rows, entries) = h[n]
  BY DEF RedoAll
<1> HIDE DEF g, h
<1>7. /\ h[0] = rows
      /\ \A i \in 1 .. n :
           h[i] = RedoStatement(h[i - 1], entries[i].st.table, entries[i].did.changes)
  BY <1>1, <1>5
<1> DEFINE G == {i \in 0 .. n : h[i] \in RowMaps}
<1>8. 0 \in G
  BY <1>1, <1>7
<1>9. ASSUME NEW i \in 1 .. n, i - 1 \in G
      PROVE  i \in G
  <2>1. h[i] = g[<<h[i - 1], i>>]
    BY <1>2, <1>7, <1>9
  <2>2. g[<<h[i - 1], i>>] \in RowMaps
    BY <1>2, <1>9
  <2> QED
    BY <1>1, <2>1, <2>2
<1>10. \A i \in 0 .. n : h[i] \in RowMaps
  <2> HIDE DEF n, G
  <2>1. \A i \in 0 .. n : i \in G
    BY <1>1, <1>8, <1>9, IntervalInduction
  <2> QED
    BY <2>1 DEF G
<1>11. h \in [0 .. n -> RowMaps]
  BY <1>5, <1>10
<1> QED
  BY <1>6, <1>7, <1>11

\* Nothing to redo; and one statement more.
LEMMA RedoAllSteps ==
  ASSUME NEW rows \in RowMaps
  PROVE  /\ RedoAll(rows, <<>>) = rows
         /\ \A entries, e : Reported(entries) /\ Reported(Append(entries, e)) =>
              RedoAll(rows, Append(entries, e))
                = RedoStatement(RedoAll(rows, entries), e.st.table, e.did.changes)
<1>1. RedoAll(rows, <<>>) = rows
  <2>1. Reported(<<>>) /\ Len(<<>>) = 0
    BY DEF Reported
  <2> QED
    BY <2>1, RedoAllUnfolds
<1>2. ASSUME NEW entries, NEW e, Reported(entries), Reported(Append(entries, e))
      PROVE  RedoAll(rows, Append(entries, e))
               = RedoStatement(RedoAll(rows, entries), e.st.table, e.did.changes)
  <2> DEFINE n == Len(entries)
             more == Append(entries, e)
  <2>1. /\ n \in Nat /\ Len(more) = n + 1 /\ more[n + 1] = e
        /\ \A i \in 1 .. n : more[i] = entries[i]
    BY <1>2 DEF Reported
  <2> HIDE DEF more
  <2>2. PICK f \in [0 .. n -> RowMaps] :
          /\ f[0] = rows /\ f[n] = RedoAll(rows, entries)
          /\ \A i \in 1 .. n :
               f[i] = RedoStatement(f[i - 1], entries[i].st.table, entries[i].did.changes)
    BY <1>2, RedoAllUnfolds
  <2>3. PICK h \in [0 .. n + 1 -> RowMaps] :
          /\ h[0] = rows /\ h[n + 1] = RedoAll(rows, more)
          /\ \A i \in 1 .. n + 1 :
               h[i] = RedoStatement(h[i - 1], more[i].st.table, more[i].did.changes)
    BY <1>2, <2>1, RedoAllUnfolds DEF more
  <2> HIDE DEF n
  <2> DEFINE G == {i \in 0 .. n : h[i] = f[i]}
  <2>4. 0 \in G
    BY <2>1, <2>2, <2>3
  <2>5. ASSUME NEW i \in 1 .. n, i - 1 \in G
        PROVE  i \in G
    <3>1. i \in 1 .. n + 1 /\ i \in 0 .. n
      BY <2>1
    <3> QED
      BY <2>1, <2>2, <2>3, <2>5, <3>1
  <2> HIDE DEF G
  <2>6. n \in G
    <3>1. \A i \in 0 .. n : i \in G
      BY <2>1, <2>4, <2>5, IntervalInduction
    <3> QED
      BY <2>1, <3>1
  <2>7. n + 1 \in 1 .. n + 1 /\ (n + 1) - 1 = n
    BY <2>1
  <2> QED
    BY <2>1, <2>2, <2>3, <2>6, <2>7 DEF G, more
<1> QED
  BY <1>1, <1>2

\* The first i of some reports.
LEMMA FirstOnes ==
  ASSUME NEW entries, Reported(entries)
  PROVE  /\ Len(entries) \in Nat
         /\ SubSeq(entries, 1, 0) = <<>> /\ SubSeq(entries, 1, Len(entries)) = entries
         /\ \A i \in 0 .. Len(entries) : Reported(SubSeq(entries, 1, i))
         /\ \A i \in 1 .. Len(entries) :
              SubSeq(entries, 1, i) = Append(SubSeq(entries, 1, i - 1), entries[i])
<1>1. Len(entries) \in Nat /\ entries \in Seq(Reports) /\ DOMAIN entries = 1 .. Len(entries)
  BY DEF Reported
<1>2. SubSeq(entries, 1, 0) = <<>> /\ SubSeq(entries, 1, Len(entries)) = entries
  BY <1>1
<1>3. ASSUME NEW i \in 0 .. Len(entries)
      PROVE  Reported(SubSeq(entries, 1, i))
  <2>1. /\ SubSeq(entries, 1, i) \in Seq(Reports)
        /\ Len(SubSeq(entries, 1, i)) = i
        /\ \A j \in 1 .. i : SubSeq(entries, 1, i)[j] = entries[j] /\ j \in DOMAIN entries
    BY <1>1
  <2> QED
    BY <2>1 DEF Reported
<1>4. ASSUME NEW i \in 1 .. Len(entries)
      PROVE  SubSeq(entries, 1, i) = Append(SubSeq(entries, 1, i - 1), entries[i])
  BY <1>1
<1> QED
  BY <1>1, <1>2, <1>3, <1>4

\* The same, for the first i statements.
LEMMA RedoFirstSteps ==
  ASSUME NEW rows \in RowMaps, NEW entries, Reported(entries)
  PROVE  /\ RedoFirst(rows, entries, 0) = rows
         /\ RedoFirst(rows, entries, Len(entries)) = RedoAll(rows, entries)
         /\ \A i \in 0 .. Len(entries) : RedoFirst(rows, entries, i) \in RowMaps
         /\ \A i \in 1 .. Len(entries) :
              RedoFirst(rows, entries, i)
                = RedoStatement(RedoFirst(rows, entries, i - 1),
                                entries[i].st.table, entries[i].did.changes)
<1>1. ASSUME NEW i \in 0 .. Len(entries)
      PROVE  RedoFirst(rows, entries, i) \in RowMaps
  <2> DEFINE first == SubSeq(entries, 1, i)
             n == Len(first)
  <2>1. Reported(first)
    BY FirstOnes
  <2>2. n \in Nat
    BY <2>1 DEF Reported
  <2>3. PICK f \in [0 .. n -> RowMaps] : f[n] = RedoAll(rows, first)
    <3> HIDE DEF first
    <3> QED
      BY <2>1, RedoAllUnfolds
  <2> HIDE DEF n
  <2>4. RedoAll(rows, first) \in RowMaps
    BY <2>2, <2>3
  <2> QED
    BY <2>4 DEF RedoFirst
<1>2. ASSUME NEW i \in 1 .. Len(entries)
      PROVE  RedoFirst(rows, entries, i)
               = RedoStatement(RedoFirst(rows, entries, i - 1),
                               entries[i].st.table, entries[i].did.changes)
  <2>1. i \in 0 .. Len(entries) /\ i - 1 \in 0 .. Len(entries)
    BY FirstOnes
  <2>2. /\ SubSeq(entries, 1, i) = Append(SubSeq(entries, 1, i - 1), entries[i])
        /\ Reported(SubSeq(entries, 1, i)) /\ Reported(SubSeq(entries, 1, i - 1))
    BY <2>1, FirstOnes
  <2> DEFINE before == SubSeq(entries, 1, i - 1)
             e == entries[i]
  <2>3. /\ RedoFirst(rows, entries, i) = RedoAll(rows, Append(before, e))
        /\ RedoFirst(rows, entries, i - 1) = RedoAll(rows, before)
        /\ Reported(before) /\ Reported(Append(before, e))
    BY <2>2 DEF RedoFirst
  <2> HIDE DEF before
  <2> QED
    BY <2>3, RedoAllSteps
<1>3. /\ RedoFirst(rows, entries, 0) = rows
      /\ RedoFirst(rows, entries, Len(entries)) = RedoAll(rows, entries)
  BY FirstOnes, RedoAllSteps DEF RedoFirst
<1> QED
  BY <1>1, <1>2, <1>3

\* A further report changes nothing for the ones before it.
LEMMA RedoFirstAppend ==
  ASSUME NEW rows, NEW entries, NEW e, Reported(entries), Reported(Append(entries, e)),
         NEW i \in 0 .. Len(entries)
  PROVE  RedoFirst(rows, Append(entries, e), i) = RedoFirst(rows, entries, i)
<1>1. entries \in Seq(Reports) /\ e \in Reports /\ Len(entries) \in Nat
  <2>1. /\ Len(entries) \in Nat /\ Len(Append(entries, e)) = Len(entries) + 1
        /\ Append(entries, e)[Len(entries) + 1] = e
    BY DEF Reported
  <2> QED
    BY <2>1 DEF Reported
<1>2. SubSeq(Append(entries, e), 1, i) = SubSeq(entries, 1, i)
  BY <1>1
<1> QED
  BY <1>2 DEF RedoFirst

\* Redoing statements changes the places they changed, each by what was there.
LEMMA RedoLocal ==
  ASSUME NEW a \in RowMaps, NEW b \in RowMaps, NEW entries, Reported(entries),
         NEW place \in Places
  PROVE  /\ a[place] = b[place] =>
              \A i \in 0 .. Len(entries) :
                RedoFirst(a, entries, i)[place] = RedoFirst(b, entries, i)[place]
         /\ place \notin ChangedBy(entries) =>
              \A i \in 0 .. Len(entries) : RedoFirst(a, entries, i)[place] = a[place]
<1> DEFINE n == Len(entries)
           A(i) == RedoFirst(a, entries, i)
           B(i) == RedoFirst(b, entries, i)
           table(i) == entries[i].st.table
           changes(i) == entries[i].did.changes
<1>1. /\ n \in Nat /\ DOMAIN entries = 1 .. n
      /\ \A i \in 1 .. n : table(i) \in Names /\ OncePerRow(changes(i))
      /\ \A i \in 1 .. n : i \in 0 .. n /\ i - 1 \in 0 .. n
  BY ReportTypes DEF Reported
<1>2. /\ A(0) = a /\ B(0) = b
      /\ \A i \in 0 .. n : A(i) \in RowMaps /\ B(i) \in RowMaps
      /\ \A i \in 1 .. n : /\ A(i) = RedoStatement(A(i - 1), table(i), changes(i))
                           /\ B(i) = RedoStatement(B(i - 1), table(i), changes(i))
  BY RedoFirstSteps
<1>3. \A i \in 1 .. n : KeysChanged(entries[i])
                          = {<<table(i), changes(i)[j].pk>> : j \in DOMAIN changes(i)}
  BY DEF KeysChanged
<1> HIDE DEF n, A, B, table, changes
<1>4. ASSUME NEW i \in 1 .. n
      PROVE  /\ A(i - 1)[place] = B(i - 1)[place] => A(i)[place] = B(i)[place]
             /\ place \notin KeysChanged(entries[i]) => A(i)[place] = A(i - 1)[place]
  <2> DEFINE x == A(i - 1)
             y == B(i - 1)
             cs == changes(i)
  <2>1. x \in RowMaps /\ y \in RowMaps /\ table(i) \in Names /\ OncePerRow(cs)
    BY <1>1, <1>2
  <2>2. A(i) = RedoStatement(x, table(i), cs) /\ B(i) = RedoStatement(y, table(i), cs)
    BY <1>2
  <2> HIDE DEF x, y, cs
  <2>3. CASE \A j \in DOMAIN cs : place # <<table(i), cs[j].pk>>
    BY <2>1, <2>2, <2>3, RedoStatementAt DEF x, y
  <2>4. CASE \E j \in DOMAIN cs : place = <<table(i), cs[j].pk>>
    <3>1. PICK j \in DOMAIN cs : place = <<table(i), cs[j].pk>>
      BY <2>4
    <3>2. /\ A(i)[place] = IF x[place] = cs[j].from THEN cs[j].to ELSE Broken
          /\ B(i)[place] = IF y[place] = cs[j].from THEN cs[j].to ELSE Broken
      BY <2>1, <2>2, <3>1, RedoStatementAt
    <3> QED
      BY <1>3, <3>1, <3>2 DEF x, y, cs
  <2> QED
    BY <2>3, <2>4
<1>5. ASSUME a[place] = b[place], NEW m \in 0 .. n
      PROVE  A(m)[place] = B(m)[place]
  <2> DEFINE G == {i \in 0 .. n : A(i)[place] = B(i)[place]}
  <2>1. 0 \in G
    BY <1>1, <1>2, <1>5
  <2>2. ASSUME NEW i \in 1 .. n, i - 1 \in G PROVE i \in G
    BY <1>1, <1>4, <2>2
  <2> HIDE DEF G
  <2>3. m \in G
    BY <1>1, <2>1, <2>2, IntervalInduction
  <2> QED
    BY <2>3 DEF G
<1>6. ASSUME place \notin ChangedBy(entries), NEW m \in 0 .. n
      PROVE  A(m)[place] = a[place]
  <2> DEFINE G == {i \in 0 .. n : A(i)[place] = a[place]}
  <2>1. 0 \in G
    BY <1>1, <1>2
  <2>2. ASSUME NEW i \in 1 .. n, i - 1 \in G PROVE i \in G
    <3>1. place \notin KeysChanged(entries[i])
      BY <1>1, <1>6 DEF ChangedBy
    <3> QED
      BY <1>1, <1>4, <2>2, <3>1
  <2> HIDE DEF G
  <2>3. m \in G
    BY <1>1, <2>1, <2>2, IntervalInduction
  <2> QED
    BY <2>3 DEF G
<1> QED
  BY <1>5, <1>6 DEF A, B, n
-----------------------------------------------------------------------------
(* Transactions, and what running a statement does to one.                 *)

Buffered(t) ==
  t = [at |-> t.at, view |-> t.view, writes |-> [k \in AllKeys |-> t.writes[k]]]

\* A change, whether delete or write, buffers the row it leaves.
LEMMA MakeChangeIsPut ==
  ASSUME NEW t, Buffered(t), NEW h, h.table_id \in TableIds, NEW c \in Changes
  PROVE  /\ RowKey(h.table_id, c.pk) \in AllKeys
         /\ Buffered(MakeChange(t, h, c))
         /\ MakeChange(t, h, c).at = t.at /\ MakeChange(t, h, c).view = t.view
         /\ \A k \in AllKeys : MakeChange(t, h, c).writes[k]
              = IF k = RowKey(h.table_id, c.pk) THEN c.to ELSE t.writes[k]
<1> DEFINE key == RowKey(h.table_id, c.pk)
<1>1. key \in AllKeys
  BY RowKeysApart DEF Changes
<1>2. MakeChange(t, h, c) = Put(t, key, c.to)
  BY DEF MakeChange, RelWrite, RelDelete, Delete
<1> HIDE DEF key
<1>3. MakeChange(t, h, c) = [at |-> t.at, view |-> t.view,
                             writes |-> [k \in AllKeys |-> IF k = key THEN c.to ELSE t.writes[k]]]
  <2> DEFINE u == [at |-> t.at, view |-> t.view, writes |-> [k \in AllKeys |-> t.writes[k]]]
  <2>1. t = u
    BY DEF Buffered
  <2>2. Put(u, key, c.to) = [at |-> t.at, view |-> t.view,
                   writes |-> [k \in AllKeys |-> IF k = key THEN c.to ELSE t.writes[k]]]
    <3> DEFINE w == [k \in AllKeys |-> t.writes[k]]
               v == [k \in AllKeys |-> IF k = key THEN c.to ELSE t.writes[k]]
    <3>1. [w EXCEPT ![key] = c.to] = v
      OBVIOUS
    <3>2. u = [at |-> t.at, view |-> t.view, writes |-> w]
      OBVIOUS
    <3> HIDE DEF w, v, u
    <3>3. Put(u, key, c.to) = [at |-> t.at, view |-> t.view, writes |-> [w EXCEPT ![key] = c.to]]
      BY <3>2 DEF Put
    <3> QED
      BY <3>1, <3>3 DEF v
  <2> QED
    BY <1>2, <2>1, <2>2
<1> QED
  BY <1>1, <1>3 DEF Buffered, key

\* Making the changes of a statement, one by one.
LEMMA MakeChangesUnfolds ==
  ASSUME NEW t, Buffered(t), NEW h, h.table_id \in TableIds, NEW changes \in Seq(Changes)
  PROVE  \E f :
           /\ f[0] = t /\ f[Len(changes)] = MakeChanges(t, h, changes)
           /\ \A i \in 0 .. Len(changes) :
                Buffered(f[i]) /\ f[i].at = t.at /\ f[i].view = t.view
           /\ \A i \in 1 .. Len(changes) : f[i] = MakeChange(f[i - 1], h, changes[i])
<1> DEFINE n == Len(changes)
           V == {t.writes[k] : k \in AllKeys} \cup Rows \cup {Absent}
           B == [at : {t.at}, view : {t.view}, writes : [AllKeys -> V]]
           g == [x \in B \X (1 .. n) |-> MakeChange(x[1], h, changes[x[2]])]
           Is(f) == f = [i \in 0 .. n |->
                           IF i = 0 THEN t ELSE MakeChange(f[i - 1], h, changes[i])]
<1>1. n \in Nat /\ \A i \in 1 .. n : changes[i] \in Changes
  OBVIOUS
<1>2. \A x \in B : Buffered(x) /\ x.at = t.at /\ x.view = t.view
  BY DEF Buffered
<1>3. t \in B
  <2>1. [k \in AllKeys |-> t.writes[k]] \in [AllKeys -> V]
    OBVIOUS
  <2> HIDE DEF V
  <2>2. [at |-> t.at, view |-> t.view, writes |-> [k \in AllKeys |-> t.writes[k]]] \in B
    BY <2>1
  <2> HIDE DEF B
  <2> QED
    BY <2>2 DEF Buffered
<1>4. \A x \in B, i \in 1 .. n :
        g[<<x, i>>] = MakeChange(x, h, changes[i]) /\ g[<<x, i>>] \in B
  <2> TAKE x \in B, i \in 1 .. n
  <2>1. g[<<x, i>>] = MakeChange(x, h, changes[i])
    OBVIOUS
  <2> DEFINE u == MakeChange(x, h, changes[i])
             key == RowKey(h.table_id, changes[i].pk)
  <2>2. /\ Buffered(u) /\ u.at = t.at /\ u.view = t.view
        /\ \A k \in AllKeys : u.writes[k] = IF k = key THEN changes[i].to ELSE x.writes[k]
    <3>1. changes[i] \in Changes /\ Buffered(x) /\ x.at = t.at /\ x.view = t.view
      BY <1>1, <1>2
    <3> HIDE DEF B, V, g, n, Is
    <3> QED
      BY <3>1, MakeChangeIsPut
  <2>3. \A k \in AllKeys : u.writes[k] \in V
    <3>1. changes[i].to \in V /\ x.writes \in [AllKeys -> V]
      BY <1>1 DEF Changes
    <3> HIDE DEF V, u, key
    <3> QED
      BY <2>2, <3>1
  <2> HIDE DEF u, V
  <2>4. [k \in AllKeys |-> u.writes[k]] \in [AllKeys -> V]
    BY <2>3
  <2>5. u \in B
    BY <2>2, <2>4 DEF Buffered
  <2> QED
    BY <2>1, <2>5 DEF u
<1> HIDE DEF B
<1>5. PICK f : Steps(f, g, B, t, n)
  <2>1. IsStep(g, B, n)
    BY <1>4 DEF IsStep
  <2> HIDE DEF g, n, Is
  <2> QED
    BY <1>1, <1>3, <2>1, Recursion
<1>6. Is(f)
  <2>1. ASSUME NEW i \in 0 .. n
        PROVE  f[i] = IF i = 0 THEN t ELSE MakeChange(f[i - 1], h, changes[i])
    <3>1. i # 0 => i - 1 \in 0 .. n /\ i \in 1 .. n
      BY <1>1
    <3> HIDE DEF g
    <3> QED
      BY <1>4, <1>5, <3>1 DEF Steps
  <2> QED
    BY <1>5, <2>1 DEF Steps
<1> DEFINE m == CHOOSE m : Is(m)
<1>7. Is(m)
  BY <1>6
<1>8. MakeChanges(t, h, changes) = m[n]
  BY DEF MakeChanges
<1> HIDE DEF g, m
<1>9. /\ m[0] = t
      /\ \A i \in 1 .. n : m[i] = MakeChange(m[i - 1], h, changes[i])
  BY <1>1, <1>7
<1> DEFINE G == {i \in 0 .. n : m[i] \in B}
<1>10. 0 \in G
  BY <1>1, <1>3, <1>9
<1>11. ASSUME NEW i \in 1 .. n, i - 1 \in G
       PROVE  i \in G
  <2>1. m[i] = g[<<m[i - 1], i>>]
    BY <1>4, <1>9, <1>11
  <2>2. g[<<m[i - 1], i>>] \in B
    BY <1>4, <1>11
  <2> QED
    BY <1>1, <2>1, <2>2
<1>12. \A i \in 0 .. n : m[i] \in B
  <2> HIDE DEF n, G
  <2>1. \A i \in 0 .. n : i \in G
    BY <1>1, <1>10, <1>11, IntervalInduction
  <2> QED
    BY <2>1 DEF G
<1> HIDE DEF Is
<1> QED
  BY <1>2, <1>8, <1>9, <1>12

\* Running a statement leaves its snapshot alone and buffers its changes.
LEMMA MakeChangesAt ==
  ASSUME NEW t, Buffered(t), NEW h, h.table_id \in TableIds, NEW changes \in Seq(Changes),
         NEW u, u = MakeChanges(t, h, changes)
  PROVE  /\ Buffered(u) /\ u.at = t.at /\ u.view = t.view
         /\ \A k \in AllKeys :
              \/ /\ \A i \in DOMAIN changes : k # RowKey(h.table_id, changes[i].pk)
                 /\ u.writes[k] = t.writes[k]
              \/ \E i \in DOMAIN changes :
                   k = RowKey(h.table_id, changes[i].pk) /\ u.writes[k] = changes[i].to
<1> DEFINE n == Len(changes)
<1>1. n \in Nat /\ DOMAIN changes = 1 .. n /\ \A i \in 1 .. n : changes[i] \in Changes
  OBVIOUS
<1>2. PICK f :
        /\ f[0] = t /\ f[n] = MakeChanges(t, h, changes)
        /\ \A i \in 0 .. n : Buffered(f[i]) /\ f[i].at = t.at /\ f[i].view = t.view
        /\ \A i \in 1 .. n : f[i] = MakeChange(f[i - 1], h, changes[i])
  BY MakeChangesUnfolds
<1> HIDE DEF n
<1> DEFINE key(i) == RowKey(h.table_id, changes[i].pk)
           Right(m, k) == \/ (\A i \in 1 .. m : k # key(i)) /\ f[m].writes[k] = t.writes[k]
                          \/ \E i \in 1 .. m : k = key(i) /\ f[m].writes[k] = changes[i].to
<1>3. \A i \in 1 .. n, k \in AllKeys :
        f[i].writes[k] = IF k = key(i) THEN changes[i].to ELSE f[i - 1].writes[k]
  <2> TAKE i \in 1 .. n, k \in AllKeys
  <2>1. i - 1 \in 0 .. n
    BY <1>1
  <2> QED
    BY <1>1, <1>2, <2>1, MakeChangeIsPut
<1> HIDE DEF key
<1>4. ASSUME NEW k \in AllKeys
      PROVE  Right(n, k)
  <2> DEFINE G == {m \in 0 .. n : Right(m, k)}
  <2>1. 0 \in G
    BY <1>1, <1>2
  <2>2. ASSUME NEW m \in 1 .. n, m - 1 \in G
        PROVE  m \in G
    <3>1. /\ \A i \in 1 .. m : i \in 1 .. (m - 1) \/ i = m
          /\ \A i \in 1 .. (m - 1) : i \in 1 .. m
          /\ m \in 1 .. m /\ m \in 0 .. n
      BY <1>1
    <3>2. Right(m - 1, k)
      BY <2>2
    <3>3. Right(m, k)
      BY <1>3, <3>1, <3>2
    <3> QED
      BY <3>1, <3>3
  <2> HIDE DEF G
  <2>3. \A m \in 0 .. n : m \in G
    BY <1>1, <2>1, <2>2, IntervalInduction
  <2>4. n \in 0 .. n
    BY <1>1
  <2> QED
    BY <2>3, <2>4 DEF G
<1>5. n \in 0 .. n
  BY <1>1
<1> QED
  BY <1>1, <1>2, <1>4, <1>5 DEF key
-----------------------------------------------------------------------------
(* Rows, by the names of the tables.                                       *)

\* Nothing to redo.
LEMMA RedoNone ==
  ASSUME NEW rows
  PROVE  RedoAll(rows, <<>>) = rows
<1> DEFINE Is(f) == f = [i \in 0 .. Len(<<>>) |->
                           IF i = 0 THEN rows
                           ELSE RedoStatement(f[i - 1], <<>>[i].st.table, <<>>[i].did.changes)]
<1>1. Is([i \in 0 .. 0 |-> rows])
  OBVIOUS
<1> DEFINE f == CHOOSE f : Is(f)
<1>2. Is(f)
  BY <1>1
<1>3. RedoAll(rows, <<>>) = f[0]
  BY DEF RedoAll
<1> HIDE DEF f
<1> QED
  BY <1>2, <1>3

\* Fitting rows hold no Broken mark.
LEMMA FittingAreRows ==
  /\ FittingRows \subseteq RowMaps
  /\ \A rows \in FittingRows : rows \in [Places -> Rows \cup {Absent}]
  BY DEF FittingRows, RowMaps, Places

\* A transaction's rows and places, one at a time.
LEMMA SeenAt ==
  ASSUME NEW t
  PROVE  /\ RowsOf(t) = [r \in Places |-> IF HasTable(r[1]) THEN Get(t, KeyOf(r)) ELSE Absent]
         /\ PlacesOf(WriteSet(t)) = {r \in Places : HasTable(r[1]) /\ KeyOf(r) \in WriteSet(t)}
  BY DEF RowsOf, RelRead, KeyOf, Places, PlacesOf

\* A table of fitting rows is one that statements run on.
LEMMA HeldFits ==
  ASSUME CatalogInv, NEW rows \in FittingRows, NEW n \in Names, HasTable(n)
  PROVE  /\ TableHandle(n).schema \in ValidSchemas
         /\ RowsHeld(rows, n) \in TablesUnder(TableHandle(n).schema)
         /\ \A pk \in Pks : Found(RowsHeld(rows, n), pk) = rows[<<n, pk>>]
<1>1. TableHandle(n).schema \in ValidSchemas
  <2>1. store.data[TableKey(n)] \in Entries
    BY DEF CatalogInv, TypeOK, StoreTypeOK, HasTable
  <2>2. TableHandle(n).schema = store.data[TableKey(n)].schema
    BY TableHandles DEF Handle
  <2> QED
    BY <2>1, <2>2 DEF Entries
<1> DEFINE D == {p \in Pks : rows[<<n, p>>] # Absent}
           held == RowsHeld(rows, n)
<1>2. held = [pk \in D |-> rows[<<n, pk>>]]
  BY DEF RowsHeld
<1> HIDE DEF held
<1>3. \A pk \in D : rows[<<n, pk>>] \in Rows /\ RowFits(TableHandle(n).schema, pk, rows[<<n, pk>>])
  BY DEF FittingRows
<1>4. held \in [D -> Rows] /\ D \in SUBSET Pks
  BY <1>2, <1>3
<1>5. held \in TablesUnder(TableHandle(n).schema)
  <2>1. DOMAIN held = D /\ \A pk \in D : RowFits(TableHandle(n).schema, pk, held[pk])
    BY <1>2, <1>3
  <2> HIDE DEF D
  <2>2. held \in UNION {[E -> Rows] : E \in SUBSET Pks}
    BY <1>4
  <2> QED
    BY <2>1, <2>2 DEF TablesUnder
<1>6. \A pk \in Pks : Found(held, pk) = rows[<<n, pk>>]
  BY <1>2 DEF Found
<1> QED
  BY <1>1, <1>5, <1>6 DEF held

\* A transaction runs a statement on the rows it sees.
LEMMA RunSees ==
  ASSUME DbInv, NEW t, RowsOf(t) \in FittingRows, NEW st \in Statements,
         HasTable(st.table), NEW h, h = TableHandle(st.table)
  PROVE  /\ st.table \in Names /\ h.table_id \in TableIds
         /\ Effect(h.schema, RowsIn(t, h), st.body) = RunAlone(RowsOf(t), st)
         /\ RunAlone(RowsOf(t), st) \in Outcomes
         /\ RunAlone(RowsOf(t), st).changes \in Seq(Changes)
<1>1. st.table \in Names /\ CatalogInv /\ h.table_id \in TableIds
  <2>1. st.table \in Names /\ CatalogInv
    BY SessionAssumption DEF DbInv
  <2> QED
    BY <2>1, TableHandles
<1> DEFINE rows == RowsOf(t)
<1>2. \A pk \in Pks : rows[<<st.table, pk>>] = Get(t, RowKey(h.table_id, pk))
  BY <1>1, SeenAt DEF KeyOf, Places
<1>3. RelScan(t, h.table_id) = {pk \in Pks : rows[<<st.table, pk>>] # Absent}
  <2>1. \A pk \in Pks : RowKey(h.table_id, pk)[3] = pk
    BY <1>1, RowKeysApart
  <2>2. RelScan(t, h.table_id)
          = {k[3] : k \in {k \in {RowKey(h.table_id, pk) : pk \in Pks} : Get(t, k) # Absent}}
    BY DEF RelScan, Scan, RowKeyPrefix
  <2> HIDE DEF rows
  <2> QED
    BY <1>2, <2>1, <2>2
<1>4. RowsIn(t, h) = RowsHeld(rows, st.table)
  <2> HIDE DEF rows
  <2> QED
    BY <1>2, <1>3 DEF RowsIn, RelRead, RowsHeld
<1>5. /\ h.schema \in ValidSchemas
      /\ RowsHeld(rows, st.table) \in TablesUnder(h.schema)
  BY <1>1, HeldFits
<1>6. RunAlone(rows, st) = Effect(h.schema, RowsHeld(rows, st.table), st.body)
  BY DEF RunAlone
<1>7. RunAlone(rows, st) \in Outcomes
  BY <1>5, <1>6, EffectAssumption
<1> HIDE DEF rows
<1>8. RunAlone(rows, st).changes \in Seq(Changes)
  BY <1>7 DEF Outcomes, Changes
<1> QED
  BY <1>1, <1>4, <1>6, <1>7, <1>8 DEF rows

\* A change from the row that is there to one that fits.
Suits(rows, table, c) ==
  /\ c.pk \in Pks /\ c.to \in Rows \cup {Absent}
  /\ c.from = rows[<<table, c.pk>>]
  /\ c.to = Absent \/ RowFits(TableHandle(table).schema, c.pk, c.to)

\* What it reports, when it succeeds.
LEMMA SuccessfulRun ==
  ASSUME CatalogInv, NEW rows \in FittingRows, NEW st \in Statements, HasTable(st.table),
         NEW did, did = RunAlone(rows, st), did.ok
  PROVE  /\ did \in Outcomes /\ OncePerRow(did.changes)
         /\ \A i \in DOMAIN did.changes : Suits(rows, st.table, did.changes[i])
         /\ \A others \in FittingRows :
              (\A pk \in ReadBy(did) : others[<<st.table, pk>>] = rows[<<st.table, pk>>])
              => RunAlone(others, st) = did
<1> DEFINE h == TableHandle(st.table)
           held == RowsHeld(rows, st.table)
<1>1. /\ st.table \in Names /\ h.schema \in ValidSchemas /\ held \in TablesUnder(h.schema)
      /\ \A pk \in Pks : Found(held, pk) = rows[<<st.table, pk>>]
  BY SessionAssumption, HeldFits
<1>2. did = Effect(h.schema, held, st.body)
  BY DEF RunAlone
<1> HIDE DEF h, held
<1>3. /\ did \in Outcomes
      /\ \A i, j \in DOMAIN did.changes : did.changes[i].pk = did.changes[j].pk => i = j
      /\ \A i \in DOMAIN did.changes :
           LET c == did.changes[i] IN
           /\ c.from = Found(held, c.pk)
           /\ c.to = Absent \/ RowFits(h.schema, c.pk, c.to)
      /\ \A others \in TablesUnder(h.schema) :
           (\A pk \in ReadBy(did) : Found(held, pk) = Found(others, pk))
           => Effect(h.schema, others, st.body) = did
  <2> DEFINE Honest(r) ==
               /\ r \in Outcomes
               /\ r.ok =>
                    /\ \A i, j \in DOMAIN r.changes : r.changes[i].pk = r.changes[j].pk => i = j
                    /\ \A i \in DOMAIN r.changes :
                         LET c == r.changes[i] IN
                         /\ c.from = Found(held, c.pk)
                         /\ c.to = Absent \/ RowFits(h.schema, c.pk, c.to)
                    /\ \A others \in TablesUnder(h.schema) :
                         (\A pk \in ReadBy(r) : Found(held, pk) = Found(others, pk))
                         => Effect(h.schema, others, st.body) = r
  <2>1. Honest(Effect(h.schema, held, st.body))
    BY <1>1, EffectAssumption
  <2>2. Honest(did)
    <3> HIDE DEF Honest
    <3> QED
      BY <1>2, <2>1
  <2> QED
    BY <2>2
<1>4. did.changes \in Seq(Changes) /\ ReadBy(did) \subseteq Pks
  BY <1>3 DEF Outcomes, Changes, ReadBy
<1>5. OncePerRow(did.changes)
  BY <1>3, <1>4 DEF OncePerRow
<1>6. \A i \in DOMAIN did.changes : did.changes[i] \in Changes
  BY <1>4
<1>7. ASSUME NEW others \in FittingRows,
             \A pk \in ReadBy(did) : others[<<st.table, pk>>] = rows[<<st.table, pk>>]
      PROVE  RunAlone(others, st) = did
  <2> DEFINE with == RowsHeld(others, st.table)
  <2>1. /\ with \in TablesUnder(h.schema)
        /\ \A pk \in Pks : Found(with, pk) = others[<<st.table, pk>>]
    BY <1>1, HeldFits DEF h
  <2>2. RunAlone(others, st) = Effect(h.schema, with, st.body)
    BY DEF RunAlone, h
  <2> HIDE DEF with
  <2>3. \A pk \in ReadBy(did) : Found(held, pk) = Found(with, pk)
    BY <1>1, <1>4, <1>7, <2>1
  <2>4. Effect(h.schema, with, st.body) = did
    BY <1>3, <2>1, <2>3
  <2> QED
    BY <2>2, <2>4
<1> QED
  BY <1>1, <1>3, <1>5, <1>6, <1>7 DEF Suits, Changes, h

\* Whatever becomes of a statement, it writes to its own table only.
LEMMA RanWrites ==
  ASSUME DbInv, NEW t, Buffered(t), RowsOf(t) \in FittingRows, NEW st \in Statements,
         NEW r, r = RunIn(t, st)
  PROVE  /\ Buffered(r.tx) /\ r.tx.at = t.at /\ r.tx.view = t.view
         /\ \A k \in AllKeys :
              \/ r.tx.writes[k] = t.writes[k]
              \/ /\ HasTable(st.table) /\ TablesOf(st, r) = {st.table}
                 /\ r.tx.writes[k] \in Rows \cup {Absent}
                 /\ \E pk \in Pks : k = RowKey(TableHandle(st.table).table_id, pk)
<1> DEFINE h == TableHandle(st.table)
<1>1. st.table \in Names /\ (h # Absent <=> HasTable(st.table))
  BY SessionAssumption, TableHandles DEF DbInv
<1>2. CASE h = Absent
  BY <1>2 DEF RunIn, RunOn, NoSuchTable
<1>3. CASE h # Absent
  <2> DEFINE did == RunAlone(RowsOf(t), st)
  <2>1. h.table_id \in TableIds /\ did.changes \in Seq(Changes)
    BY <1>1, <1>3, RunSees
  <2>2. r = Ran(t, h, did)
    BY <1>1, <1>3, RunSees DEF RunIn, RunOn
  <2>3. r.tx = MakeChanges(t, h, did.changes) /\ r.did = did
    BY <2>2 DEF Ran
  <2>4. \A i \in DOMAIN did.changes : did.changes[i].pk \in Pks
                                      /\ did.changes[i].to \in Rows \cup {Absent}
    <3> HIDE DEF did
    <3>1. \A i \in DOMAIN did.changes : did.changes[i] \in Changes
      BY <2>1
    <3> QED
      BY <3>1 DEF Changes
  <2>5. did.changes # <<>> => TablesOf(st, r) = {st.table}
    BY <2>3 DEF TablesOf
  <2> HIDE DEF did, h
  <2>6. /\ Buffered(r.tx) /\ r.tx.at = t.at /\ r.tx.view = t.view
        /\ \A k \in AllKeys :
             \/ r.tx.writes[k] = t.writes[k]
             \/ \E i \in DOMAIN did.changes :
                  k = RowKey(h.table_id, did.changes[i].pk) /\ r.tx.writes[k] = did.changes[i].to
    BY <2>1, <2>3, MakeChangesAt
  <2>7. \A i \in DOMAIN did.changes : did.changes # <<>>
    BY <2>1
  <2> QED
    BY <1>1, <1>3, <2>4, <2>5, <2>6, <2>7 DEF h
<1> QED
  BY <1>2, <1>3

\* A fresh transaction has nothing to report.
LEMMA FreshReports ==
  ASSUME DbInv, RowsOf(Begin(store)) \in FittingRows
  PROVE  ReportsInv(Begin(store), <<>>) /\ Buffered(Begin(store))
<1> DEFINE t == Begin(store)
<1>1. t = [at |-> store.version, view |-> store.data, writes |-> [k \in AllKeys |-> Unwritten]]
  BY DEF Begin, DbInv, CatalogInv, TypeOK, StoreTypeOK
<1> HIDE DEF t
<1>2. Buffered(t) /\ t.view = store.data /\ WriteSet(t) = {}
  BY <1>1 DEF Buffered, WriteSet
<1>3. RowsAtBegin(t) = RowsOf(t)
  <2>1. [t EXCEPT !.writes = [k \in AllKeys |-> Unwritten]] = t
    BY <1>1
  <2> QED
    BY <2>1 DEF RowsAtBegin
<1>4. PlacesOf(WriteSet(t)) = {} /\ ChangedBy(<<>>) = {}
  BY <1>2 DEF PlacesOf, ChangedBy
<1>5. RedoAll(RowsOf(t), <<>>) = RowsOf(t) /\ RedoFirst(RowsOf(t), <<>>, 0) = RowsOf(t)
  <2>1. SubSeq(<<>>, 1, 0) = <<>>
    OBVIOUS
  <2> QED
    BY <2>1, RedoNone DEF RedoFirst
<1>6. RowsOf(t) \in FittingRows
  BY DEF t
<1>7. Len(<<>>) = 0 /\ DOMAIN <<>> = {}
  OBVIOUS
<1>8. \A i \in 0 .. Len(<<>>) : RedoFirst(RowsAtBegin(t), <<>>, i) \in FittingRows
  <2>1. \A i \in 0 .. Len(<<>>) : i = 0
    BY <1>7
  <2> QED
    BY <1>3, <1>5, <1>6, <2>1
<1>9. RowsOf(t) = RedoAll(RowsAtBegin(t), <<>>) /\ PlacesOf(WriteSet(t)) = ChangedBy(<<>>)
  BY <1>3, <1>4, <1>5
<1>10. ReportsInv(t, <<>>)
  BY <1>2, <1>7, <1>8, <1>9 DEF ReportsInv, Buffered
<1> QED
  BY <1>2, <1>10 DEF t

\* What ReportsInv says of all the reports together.
LEMMA ReportsFacts ==
  ASSUME NEW t, NEW entries, Reported(entries), ReportsInv(t, entries)
  PROVE  /\ Buffered(t)
         /\ RowsAtBegin(t) \in FittingRows /\ RowsAtBegin(t) \in RowMaps
         /\ RowsOf(t) = RedoFirst(RowsAtBegin(t), entries, Len(entries))
         /\ RowsOf(t) \in FittingRows
<1>1. Len(entries) \in Nat /\ SubSeq(entries, 1, 0) = <<>>
  BY FirstOnes
<1>2. 0 \in 0 .. Len(entries) /\ Len(entries) \in 0 .. Len(entries)
  BY <1>1
<1>3. RedoFirst(RowsAtBegin(t), entries, 0) = RowsAtBegin(t)
  BY <1>1, RedoNone DEF RedoFirst
<1>4. RowsAtBegin(t) \in FittingRows
  BY <1>2, <1>3 DEF ReportsInv
<1>5. RowsAtBegin(t) \in RowMaps
  BY <1>4, FittingAreRows
<1>6. RowsOf(t) = RedoFirst(RowsAtBegin(t), entries, Len(entries))
  BY <1>5, RedoFirstSteps DEF ReportsInv
<1> QED
  BY <1>2, <1>4, <1>5, <1>6 DEF ReportsInv, Buffered

\* A statement that succeeds adds its own report.
LEMMA RanReports ==
  ASSUME DbInv, NEW t, NEW entries, Reported(entries), ReportsInv(t, entries),
         NEW st \in Statements, NEW r, r = RunIn(t, st), r.did.ok
  PROVE  /\ Reported(Append(entries, [st |-> st, did |-> r.did]))
         /\ ReportsInv(r.tx, Append(entries, [st |-> st, did |-> r.did]))
<1> DEFINE h == TableHandle(st.table)
           rows == RowsOf(t)
           base == RowsAtBegin(t)
           did == r.did
           u == r.tx
           e == [st |-> st, did |-> did]
           n == Len(entries)
           more == Append(entries, e)
<1>1. /\ st.table \in Names /\ HasTable(st.table) /\ h # Absent
  <2>1. st.table \in Names /\ (h # Absent <=> HasTable(st.table))
    BY SessionAssumption, TableHandles DEF DbInv
  <2>2. h # Absent
    BY DEF RunIn, RunOn, NoSuchTable
  <2> QED
    BY <2>1, <2>2
<1>2. /\ Buffered(t) /\ base \in FittingRows /\ base \in RowMaps
      /\ rows = RedoFirst(base, entries, n) /\ rows \in FittingRows
  BY ReportsFacts
<1>3. /\ h.table_id \in TableIds
      /\ did = RunAlone(rows, st)
      /\ u = MakeChanges(t, h, did.changes)
  <2>1. h.table_id \in TableIds /\ Effect(h.schema, RowsIn(t, h), st.body) = RunAlone(rows, st)
    BY <1>1, <1>2, RunSees
  <2> QED
    BY <1>1, <2>1 DEF RunIn, RunOn, Ran
<1>4. /\ did \in Outcomes /\ OncePerRow(did.changes)
      /\ \A i \in DOMAIN did.changes :
           LET c == did.changes[i] IN
           /\ c.pk \in Pks /\ c.to \in Rows \cup {Absent}
           /\ c.from = rows[<<st.table, c.pk>>]
           /\ c.to = Absent \/ RowFits(h.schema, c.pk, c.to)
  <2>1. CatalogInv /\ did.ok
    BY DEF DbInv
  <2> HIDE DEF rows, did, u, e, n, base
  <2>2. /\ did \in Outcomes /\ OncePerRow(did.changes)
    BY <1>1, <1>2, <1>3, <2>1, SuccessfulRun
  <2>3. \A i \in DOMAIN did.changes : Suits(rows, st.table, did.changes[i])
    BY <1>1, <1>2, <1>3, <2>1, SuccessfulRun
  <2> QED
    BY <2>2, <2>3 DEF Suits
<1>5. Reported(more) /\ n \in Nat /\ Len(more) = n + 1 /\ more[n + 1] = e
      /\ \A i \in 1 .. n : more[i] = entries[i]
  <2>1. e \in Reports
    BY <1>4 DEF Reports
  <2>2. entries \in Seq(Reports) /\ \A i \in 1 .. Len(entries) : OncePerRow(entries[i].did.changes)
    BY DEF Reported
  <2> HIDE DEF e
  <2>3. /\ more = Append(entries, e) /\ more \in Seq(Reports) /\ DOMAIN more = 1 .. Len(more)
        /\ n \in Nat /\ Len(more) = n + 1 /\ more[n + 1] = e
        /\ \A i \in 1 .. n : more[i] = entries[i]
    BY <2>1, <2>2 DEF e
  <2>4. \A i \in 1 .. Len(more) : i \in 1 .. n \/ i = n + 1
    BY <2>3
  <2>5. OncePerRow(e.did.changes)
    BY <1>4 DEF e
  <2> QED
    BY <2>2, <2>3, <2>4, <2>5 DEF Reported
<1> HIDE DEF more
<1>6. did.changes \in Seq(Changes)
  BY <1>4 DEF OncePerRow
<1>7. /\ Buffered(u) /\ u.at = t.at /\ u.view = t.view
      /\ \A k \in AllKeys :
           \/ /\ \A i \in DOMAIN did.changes : k # RowKey(h.table_id, did.changes[i].pk)
              /\ u.writes[k] = t.writes[k]
           \/ \E i \in DOMAIN did.changes :
                k = RowKey(h.table_id, did.changes[i].pk) /\ u.writes[k] = did.changes[i].to
  <2> HIDE DEF h, u, did
  <2> QED
    BY <1>2, <1>3, <1>6, MakeChangesAt
<1>8. RowsAtBegin(u) = base
  <2> DEFINE w == [k \in AllKeys |-> Unwritten]
  <2>1. [t EXCEPT !.writes = w] = [at |-> t.at, view |-> t.view, writes |-> w]
    BY <1>2 DEF Buffered
  <2>2. [u EXCEPT !.writes = w] = [at |-> u.at, view |-> u.view, writes |-> w]
    BY <1>7 DEF Buffered
  <2> QED
    BY <1>7, <2>1, <2>2 DEF RowsAtBegin
\* Where the changes are, by place.
<1>9. \A place \in Places : HasTable(place[1]) =>
        /\ KeyOf(place) \in AllKeys
        /\ \A i \in DOMAIN did.changes :
             KeyOf(place) = RowKey(h.table_id, did.changes[i].pk)
               <=> place = <<st.table, did.changes[i].pk>>
  <2> TAKE place \in Places
  <2> SUFFICES ASSUME HasTable(place[1])
               PROVE  /\ KeyOf(place) \in AllKeys
                      /\ \A i \in DOMAIN did.changes :
                           KeyOf(place) = RowKey(h.table_id, did.changes[i].pk)
                             <=> place = <<st.table, did.changes[i].pk>>
    OBVIOUS
  <2>1. KeyOf(place) \in AllKeys
    BY Mapped DEF Places
  <2>2. ASSUME NEW i \in DOMAIN did.changes
        PROVE  KeyOf(place) = RowKey(h.table_id, did.changes[i].pk)
                 <=> place = <<st.table, did.changes[i].pk>>
    <3> DEFINE q == <<st.table, did.changes[i].pk>>
    <3>1. q \in Places /\ HasTable(q[1])
      BY <1>1, <1>4 DEF Places
    <3>2. KeyOf(q) = RowKey(h.table_id, did.changes[i].pk)
      BY DEF KeyOf
    <3> HIDE DEF q, did, h
    <3>3. KeyOf(place) = KeyOf(q) => place = q
      BY <3>1, Mapped DEF Places
    <3> QED
      BY <3>2, <3>3 DEF q
  <2> QED
    BY <2>1, <2>2
<1> DEFINE hits(place) == {i \in DOMAIN did.changes : place = <<st.table, did.changes[i].pk>>}
<1>10. ASSUME NEW place \in Places
       PROVE  /\ hits(place) = {} => RowsOf(u)[place] = rows[place]
              /\ \A i \in hits(place) : /\ HasTable(place[1]) /\ KeyOf(place) \in AllKeys
                                        /\ u.writes[KeyOf(place)] = did.changes[i].to
                                        /\ RowsOf(u)[place] = did.changes[i].to
  <2>1. /\ rows[place] = IF HasTable(place[1]) THEN Get(t, KeyOf(place)) ELSE Absent
        /\ RowsOf(u)[place] = IF HasTable(place[1]) THEN Get(u, KeyOf(place)) ELSE Absent
    BY SeenAt
  <2> HIDE DEF rows, u, did, h
  <2>2. CASE hits(place) = {}
    <3>1. HasTable(place[1]) => u.writes[KeyOf(place)] = t.writes[KeyOf(place)]
      BY <1>7, <1>9, <2>2
    <3>2. HasTable(place[1]) => Get(u, KeyOf(place)) = Get(t, KeyOf(place))
      BY <1>7, <3>1 DEF Get
    <3> QED
      BY <2>1, <2>2, <3>2
  <2>3. ASSUME NEW i \in hits(place)
        PROVE  /\ HasTable(place[1]) /\ KeyOf(place) \in AllKeys
               /\ u.writes[KeyOf(place)] = did.changes[i].to
               /\ RowsOf(u)[place] = did.changes[i].to
    <3>1. HasTable(place[1]) /\ KeyOf(place) = RowKey(h.table_id, did.changes[i].pk)
          /\ KeyOf(place) \in AllKeys
      BY <1>1, <1>9
    <3>2. \A j \in DOMAIN did.changes :
            KeyOf(place) = RowKey(h.table_id, did.changes[j].pk) => j = i
      BY <1>4, <1>9, <3>1 DEF OncePerRow
    <3>3. u.writes[KeyOf(place)] = did.changes[i].to
      BY <1>7, <3>1, <3>2
    <3>4. did.changes[i].to # Unwritten
      BY <1>4, DatabaseAssumption, MarkerAssumption
    <3> QED
      BY <2>1, <3>1, <3>3, <3>4 DEF Get
  <2> QED
    BY <2>2, <2>3
<1>11. RowsOf(u) = RedoStatement(rows, st.table, did.changes)
  <2> DEFINE R == RedoStatement(rows, st.table, did.changes)
  <2>1. rows \in RowMaps
    BY <1>2, FittingAreRows
  <2> HIDE DEF rows, u, did
  <2>2. R \in RowMaps
    BY <1>1, <1>4, <2>1, RedoStatementAt
  <2>3. ASSUME NEW place \in Places
        PROVE  RowsOf(u)[place] = R[place]
    <3>1. CASE hits(place) = {}
      <4>1. \A i \in DOMAIN did.changes : place # <<st.table, did.changes[i].pk>>
        BY <3>1
      <4>2. R[place] = rows[place]
        BY <1>1, <1>4, <2>1, <4>1, RedoStatementAt
      <4> QED
        BY <1>10, <3>1, <4>2
    <3>2. ASSUME NEW i \in hits(place)
          PROVE  RowsOf(u)[place] = R[place]
      <4>0. i \in DOMAIN did.changes /\ place = <<st.table, did.changes[i].pk>>
        OBVIOUS
      <4>1. R[place] = IF rows[place] = did.changes[i].from THEN did.changes[i].to ELSE Broken
        <5> HIDE DEF hits
        <5> QED
          BY <1>1, <1>4, <2>1, <4>0, RedoStatementAt
      <4>2. did.changes[i].from = rows[place]
        BY <1>4, <4>0
      <4> QED
        BY <1>10, <4>1, <4>2
    <3> QED
      BY <3>1, <3>2
  <2>4. RowsOf(u) = [place \in Places |-> RowsOf(u)[place]] /\ R = [place \in Places |-> R[place]]
    <3>1. RowsOf(u) = [place \in Places |-> RowsOf(u)[place]]
      BY SeenAt
    <3> HIDE DEF R
    <3>2. R = [place \in Places |-> R[place]]
      BY <2>2 DEF RowMaps
    <3> QED
      BY <3>1, <3>2
  <2> HIDE DEF R
  <2>5. RowsOf(u) = R
    BY <2>3, <2>4
  <2> QED
    BY <2>5 DEF R
<1>12. RowsOf(u) \in FittingRows
  <2> HIDE DEF u, did
  <2>1. ASSUME NEW place \in Places
        PROVE  /\ RowsOf(u)[place] \in Rows \cup {Absent}
               /\ RowsOf(u)[place] # Absent =>
                    /\ HasTable(place[1])
                    /\ RowFits(TableHandle(place[1]).schema, place[2], RowsOf(u)[place])
    <3>1. /\ rows[place] \in Rows \cup {Absent}
          /\ rows[place] # Absent =>
               /\ HasTable(place[1])
               /\ RowFits(TableHandle(place[1]).schema, place[2], rows[place])
      BY <1>2 DEF FittingRows, Places
    <3> HIDE DEF rows
    <3>2. CASE hits(place) = {}
      BY <1>10, <3>1, <3>2
    <3>3. ASSUME NEW i \in hits(place)
          PROVE  /\ RowsOf(u)[place] \in Rows \cup {Absent}
                 /\ RowsOf(u)[place] # Absent =>
                    /\ HasTable(place[1])
                    /\ RowFits(TableHandle(place[1]).schema, place[2], RowsOf(u)[place])
      <4>1. place = <<st.table, did.changes[i].pk>>
        OBVIOUS
      <4>2. place[1] = st.table /\ place[2] = did.changes[i].pk /\ i \in DOMAIN did.changes
        BY <4>1
      <4>3. RowsOf(u)[place] = did.changes[i].to /\ HasTable(place[1])
        BY <1>10
      <4>4. /\ did.changes[i].to \in Rows \cup {Absent}
            /\ \/ did.changes[i].to = Absent
               \/ RowFits(h.schema, did.changes[i].pk, did.changes[i].to)
        BY <1>4, <4>2
      <4> QED
        BY <4>2, <4>3, <4>4
    <3> QED
      BY <3>2, <3>3
  <2>2. RowsOf(u) \in [Places -> Rows \cup {Absent}]
    BY <2>1, SeenAt
  <2> QED
    BY <2>1, <2>2 DEF FittingRows, Places
<1>13. KeysChanged(e) = {<<st.table, did.changes[i].pk>> : i \in DOMAIN did.changes}
       /\ ChangedBy(more) = ChangedBy(entries) \cup KeysChanged(e)
  <2>1. KeysChanged(e) = {<<st.table, did.changes[i].pk>> : i \in DOMAIN did.changes}
    BY DEF KeysChanged
  <2> HIDE DEF e
  <2>2. DOMAIN more = 1 .. n + 1 /\ DOMAIN entries = 1 .. n
    BY <1>5 DEF Reported
  <2>3. \A i \in 1 .. n + 1 : i \in 1 .. n \/ i = n + 1
    BY <1>5
  <2>4. n + 1 \in 1 .. n + 1 /\ \A i \in 1 .. n : i \in 1 .. n + 1
    BY <1>5
  <2> HIDE DEF n
  <2> QED
    BY <1>5, <2>1, <2>2, <2>3, <2>4 DEF ChangedBy
<1>14. PlacesOf(WriteSet(u)) = ChangedBy(more)
  <2>1. PlacesOf(WriteSet(t)) = ChangedBy(entries)
    BY DEF ReportsInv
  <2>2. /\ \A k \in AllKeys : k \in WriteSet(u) <=> u.writes[k] # Unwritten
        /\ \A k \in AllKeys : k \in WriteSet(t) <=> t.writes[k] # Unwritten
    <3>1. DOMAIN u.writes = AllKeys /\ DOMAIN t.writes = AllKeys
      BY <1>2, <1>7 DEF Buffered
    <3> QED
      BY <3>1 DEF WriteSet
  <2> HIDE DEF u, did, h
  <2>3. ASSUME NEW place \in Places
        PROVE  place \in PlacesOf(WriteSet(u)) <=>
                 place \in PlacesOf(WriteSet(t)) \/ hits(place) # {}
    <3>1. /\ place \in PlacesOf(WriteSet(u)) <=> HasTable(place[1]) /\ KeyOf(place) \in WriteSet(u)
          /\ place \in PlacesOf(WriteSet(t)) <=> HasTable(place[1]) /\ KeyOf(place) \in WriteSet(t)
      BY SeenAt
    <3>2. CASE hits(place) = {}
      <4>1. HasTable(place[1]) => /\ KeyOf(place) \in AllKeys
                                  /\ u.writes[KeyOf(place)] = t.writes[KeyOf(place)]
        BY <1>7, <1>9, <3>2
      <4> QED
        BY <2>2, <3>1, <3>2, <4>1
    <3>3. ASSUME NEW i \in hits(place)
          PROVE  place \in PlacesOf(WriteSet(u))
      <4>1. did.changes[i].to # Unwritten
        BY <1>4, DatabaseAssumption, MarkerAssumption
      <4> QED
        BY <1>10, <2>2, <3>1, <4>1
    <3> QED
      BY <3>2, <3>3
  <2>4. /\ \A place \in PlacesOf(WriteSet(u)) : place \in Places
        /\ \A place \in PlacesOf(WriteSet(t)) : place \in Places
        /\ \A place \in KeysChanged(e) : place \in Places
    <3>1. \A place \in KeysChanged(e) : place \in Places
      <4> HIDE DEF e
      <4> QED
        BY <1>1, <1>4, <1>13 DEF Places
    <3>2. \A keys : \A place \in PlacesOf(keys) : place \in Places
      BY DEF PlacesOf, Places
    <3> QED
      BY <3>1, <3>2
  <2>5. \A place \in Places : place \in KeysChanged(e) <=> hits(place) # {}
    BY <1>13
  <2> HIDE DEF e, hits
  <2> QED
    BY <1>13, <2>1, <2>3, <2>4, <2>5
<1>15. /\ \A i \in 0 .. n : RedoFirst(base, more, i) = RedoFirst(base, entries, i)
       /\ RedoFirst(base, more, n + 1) = RowsOf(u)
       /\ RedoAll(base, more) = RowsOf(u)
  <2> HIDE DEF base, u, rows
  <2>1. more = Append(entries, e)
    BY DEF more
  <2> HIDE DEF e, did, h, hits
  <2>2. \A i \in 0 .. n : RedoFirst(base, more, i) = RedoFirst(base, entries, i)
    BY <1>5, <2>1, RedoFirstAppend
  <2>3. /\ n + 1 \in 1 .. Len(more) /\ (n + 1) - 1 = n /\ n \in 0 .. n
    BY <1>5
  <2> HIDE DEF n
  <2>4. RedoFirst(base, more, n + 1)
          = RedoStatement(RedoFirst(base, more, n), e.st.table, e.did.changes)
    <3>1. \A i \in 1 .. Len(more) :
            RedoFirst(base, more, i)
              = RedoStatement(RedoFirst(base, more, i - 1), more[i].st.table, more[i].did.changes)
      <4>1. base \in RowMaps /\ Reported(more)
        BY <1>2, <1>5
      <4> QED
        BY <4>1, RedoFirstSteps
    <3> QED
      BY <1>5, <2>3, <3>1
  <2>5. RedoFirst(base, more, n + 1) = RowsOf(u)
    BY <1>2, <1>11, <2>2, <2>3, <2>4 DEF e, n
  <2>6. RedoAll(base, more) = RedoFirst(base, more, n + 1)
    <3>1. base \in RowMaps /\ Reported(more) /\ Len(more) = n + 1
      BY <1>2, <1>5
    <3>2. RedoAll(base, more) = RedoFirst(base, more, Len(more))
      BY <3>1, RedoFirstSteps
    <3> QED
      BY <3>1, <3>2
  <2> QED
    BY <2>2, <2>5, <2>6
<1>16. \A i \in 0 .. Len(more) : RedoFirst(base, more, i) \in FittingRows
  <2>1. \A i \in 0 .. Len(more) : i \in 0 .. n \/ i = n + 1
    BY <1>5
  <2>2. \A i \in 0 .. n : RedoFirst(base, entries, i) \in FittingRows
    BY DEF ReportsInv
  <2> HIDE DEF base, u, n
  <2> QED
    BY <1>12, <1>15, <2>1, <2>2
<1>17. \A i \in DOMAIN more :
         /\ HasTable(more[i].st.table) /\ more[i].did.ok
         /\ RunAlone(RedoFirst(base, more, i - 1), more[i].st) = more[i].did
  <2>1. DOMAIN more = 1 .. n + 1 /\ DOMAIN entries = 1 .. n
    BY <1>5 DEF Reported
  <2>2. ASSUME NEW i \in 1 .. n
        PROVE  /\ HasTable(more[i].st.table) /\ more[i].did.ok
               /\ RunAlone(RedoFirst(base, more, i - 1), more[i].st) = more[i].did
    <3>1. i - 1 \in 0 .. n /\ more[i] = entries[i] /\ i \in DOMAIN entries
      BY <1>5, <2>1
    <3>2. RedoFirst(base, more, i - 1) = RedoFirst(base, entries, i - 1)
      BY <1>15, <3>1
    <3> QED
      BY <3>1, <3>2 DEF ReportsInv
  <2>3. /\ HasTable(more[n + 1].st.table) /\ more[n + 1].did.ok
        /\ RunAlone(RedoFirst(base, more, n), more[n + 1].st) = more[n + 1].did
    <3>1. more[n + 1].st = st /\ more[n + 1].did = did /\ n \in 0 .. n
      BY <1>5
    <3> QED
      BY <1>1, <1>2, <1>3, <1>15, <3>1
  <2>4. \A i \in 1 .. n + 1 : i \in 1 .. n \/ (i = n + 1 /\ i - 1 = n)
    BY <1>5
  <2> HIDE DEF n, base
  <2> QED
    BY <2>1, <2>2, <2>3, <2>4
<1>18. \A k \in RowKeys : store.modified[k] <= u.at => store.data[k] = u.view[k]
  BY <1>7 DEF ReportsInv
<1>19. ReportsInv(u, more)
  BY <1>7, <1>8, <1>14, <1>15, <1>16, <1>17, <1>18 DEF ReportsInv, Buffered
<1> QED
  BY <1>5, <1>19 DEF more

\* The rows a transaction began with are those of its snapshot.
LEMMA AtBeginSeen ==
  DbInv => \A u : Buffered(u) =>
    RowsAtBegin(u) = [r \in Places |-> IF HasTable(r[1]) THEN u.view[KeyOf(r)] ELSE Absent]
<1> SUFFICES ASSUME DbInv, NEW u, Buffered(u)
             PROVE  RowsAtBegin(u) = [r \in Places |->
                      IF HasTable(r[1]) THEN u.view[KeyOf(r)] ELSE Absent]
  OBVIOUS
<1> DEFINE fresh == [at |-> u.at, view |-> u.view, writes |-> [k \in AllKeys |-> Unwritten]]
<1>1. [u EXCEPT !.writes = [k \in AllKeys |-> Unwritten]] = fresh
  BY DEF Buffered
<1>2. RowsAtBegin(u) = RowsOf(fresh)
  BY <1>1 DEF RowsAtBegin
<1>3. \A r \in Places : HasTable(r[1]) => Get(fresh, KeyOf(r)) = u.view[KeyOf(r)]
  <2>1. \A r \in Places : HasTable(r[1]) => KeyOf(r) \in AllKeys
    BY Mapped DEF Places
  <2> QED
    BY <2>1 DEF Get
<1> HIDE DEF fresh
<1> QED
  BY <1>2, <1>3, SeenAt

\* The same after a step.
LEMMA AtBeginSeenNext ==
  ASSUME DbInv', NEW q, Buffered(dtx[q])'
  PROVE  RowsAtBegin(dtx[q])'
           = [r \in Places |-> IF HasTable(r[1])' THEN dtx'[q].view[KeyOf(r)'] ELSE Absent]
<1>1. (DbInv => \A u : Buffered(u) =>
         RowsAtBegin(u) = [r \in Places |-> IF HasTable(r[1]) THEN u.view[KeyOf(r)] ELSE Absent])'
  BY AtBeginSeen, PTL
<1> QED
  BY <1>1

\* Tables are never dropped or altered: what fits goes on fitting.
LEMMA FittingLater ==
  ASSUME Later
  PROVE  FittingRows \subseteq FittingRows'
<1> SUFFICES ASSUME NEW rows \in FittingRows PROVE rows \in FittingRows'
  OBVIOUS
<1>1. ASSUME NEW r \in Names \X Pks, rows[r] # Absent
      PROVE  HasTable(r[1])' /\ RowFits(TableHandle(r[1])'.schema, r[2], rows[r])
  <2>1. r[1] \in Names /\ HasTable(r[1]) /\ RowFits(TableHandle(r[1]).schema, r[2], rows[r])
    BY <1>1 DEF FittingRows
  <2> QED
    BY <2>1 DEF Later
<1> QED
  BY <1>1 DEF FittingRows

\* What others commit, and tables they create, leave an open transaction's
\* reports true.
LEMMA ReportsKept ==
  ASSUME DbInv, DbInv', NEW q \in Clients, phase[q] = "open", Later, NewAreHigh,
         phase'[q] = phase[q], dtx'[q] = dtx[q], done'[q] = done[q],
         Reported(done[q]), ReportsInv(dtx[q], done[q]),
         \A k \in RowKeys :
           \/ store'.data[k] = store.data[k] /\ store'.modified[k] = store.modified[k]
           \/ ~(store'.modified[k] <= dtx[q].at)
  PROVE  ReportsInv(dtx[q], done[q])'
<1> DEFINE t == dtx[q]
           es == done[q]
<1>1. IsOpen(q) /\ IsOpen(q)' /\ ClientInv(q) /\ Buffered(t)
  BY ReportsFacts DEF IsOpen, DbInv
<1>2. /\ RowsOf(t)' = RowsOf(t)
      /\ PlacesOf(WriteSet(t))' = PlacesOf(WriteSet(t))
  <2>1. ViewNow'[q] = ViewNow[q] /\ DirtyNow'[q] = DirtyNow[q]
    BY ViewFollows
  <2>2. ViewNow[q] = RowsOf(t) /\ DirtyNow[q] = PlacesOf(WriteSet(t))
    BY <1>1 DEF ViewNow, DirtyNow
  <2>3. ViewNow'[q] = RowsOf(t)' /\ DirtyNow'[q] = PlacesOf(WriteSet(t))'
    BY <1>1 DEF ViewNow, DirtyNow
  <2> QED
    BY <2>1, <2>2, <2>3
<1>3. RowsAtBegin(t)' = RowsAtBegin(t)
  <2>1. RowsAtBegin(t) = [r \in Places |-> IF HasTable(r[1]) THEN t.view[KeyOf(r)] ELSE Absent]
    BY <1>1, AtBeginSeen
  <2>2. RowsAtBegin(t)' = [r \in Places |->
                             IF HasTable(r[1])' THEN t.view[KeyOf(r)'] ELSE Absent]
    <3>1. Buffered(t)'
      BY <1>1 DEF Buffered
    <3> QED
      BY <3>1, AtBeginSeenNext
  <2>3. ASSUME NEW r \in Places
        PROVE  (IF HasTable(r[1])' THEN t.view[KeyOf(r)'] ELSE Absent)
                 = IF HasTable(r[1]) THEN t.view[KeyOf(r)] ELSE Absent
    <3>0. r[1] \in Names /\ r[2] \in Pks
      BY DEF Places
    <3>1. CASE HasTable(r[1])
      <4>1. HasTable(r[1])' /\ KeyOf(r)' = KeyOf(r)
        BY <3>0, <3>1 DEF Later, KeyOf
      <4> QED
        BY <3>1, <4>1
    <3>2. CASE ~HasTable(r[1]) /\ HasTable(r[1])'
      <4>1. /\ TableHandle(r[1])'.table_id \in TableIds
            /\ TableHandle(r[1])'.table_id >= NextId(store.data[CounterKey])
        BY <3>0, <3>2 DEF NewAreHigh
      <4>2. t.view[RowKey(TableHandle(r[1])'.table_id, r[2])] = Absent
        BY <1>1, <3>0, <4>1 DEF ClientInv
      <4> QED
        BY <3>2, <4>2 DEF KeyOf
    <3>3. CASE ~HasTable(r[1]) /\ ~HasTable(r[1])'
      BY <3>3
    <3> QED
      BY <3>1, <3>2, <3>3
  <2> HIDE DEF t
  <2> QED
    BY <2>1, <2>2, <2>3
<1>4. \A k \in RowKeys : store'.modified[k] <= t.at => store'.data[k] = t.view[k]
  BY DEF ReportsInv
<1>5. RowsOf(t)' = RedoAll(RowsAtBegin(t), es)'
  BY <1>2, <1>3 DEF ReportsInv
<1>6. PlacesOf(WriteSet(t))' = ChangedBy(es)'
  BY <1>2 DEF ReportsInv
<1>7. \A i \in 0 .. Len(es) : RedoFirst(RowsAtBegin(t), es, i)' \in FittingRows'
  BY <1>3, FittingLater DEF ReportsInv
<1>8. ASSUME NEW i \in DOMAIN es
      PROVE  /\ HasTable(es[i].st.table)' /\ es[i].did.ok
             /\ RunAlone(RedoFirst(RowsAtBegin(t), es, i - 1), es[i].st)' = es[i].did
  <2>1. es[i].st.table \in Names /\ HasTable(es[i].st.table)
    BY ReportTypes DEF ReportsInv, Reported
  <2>2. HasTable(es[i].st.table)' /\ TableHandle(es[i].st.table)' = TableHandle(es[i].st.table)
    BY <2>1 DEF Later
  <2>3. RunAlone(RedoFirst(RowsAtBegin(t), es, i - 1), es[i].st)'
          = RunAlone(RedoFirst(RowsAtBegin(t), es, i - 1), es[i].st)
    BY <1>3, <2>2 DEF RunAlone
  <2> QED
    BY <2>2, <2>3 DEF ReportsInv
<1>9. Buffered(t)'
  BY <1>1 DEF Buffered
<1> QED
  BY <1>4, <1>5, <1>6, <1>7, <1>8, <1>9 DEF ReportsInv, Buffered

\* On the committed rows, a transaction without conflicts has the effect it had
\* on its snapshot.
LEMMA RedoneOnDue ==
  ASSUME DbInv, due \in FittingRows, CommittedRowsAreDue, NEW t, NEW entries,
         Reported(entries), ReportsInv(t, entries), Conflicts(store, t) = {}, t.at \in Nat,
         NEW i \in 0 .. Len(entries)
  PROVE  /\ \A place \in Places :
              RedoFirst(due, entries, i)[place]
                = IF place \in ChangedBy(entries)
                  THEN RedoFirst(RowsAtBegin(t), entries, i)[place] ELSE due[place]
         /\ RedoFirst(due, entries, i) \in FittingRows
<1> DEFINE base == RowsAtBegin(t)
<1>1. /\ Buffered(t) /\ base \in RowMaps /\ due \in RowMaps
      /\ RedoFirst(due, entries, i) \in RowMaps
      /\ RedoFirst(base, entries, i) \in FittingRows
  <2>1. Buffered(t) /\ base \in RowMaps
    BY ReportsFacts
  <2>2. due \in RowMaps
    BY FittingAreRows
  <2>3. RedoFirst(due, entries, i) \in RowMaps
    BY <2>2, RedoFirstSteps
  <2> QED
    BY <2>1, <2>2, <2>3 DEF ReportsInv
<1>2. ASSUME NEW place \in ChangedBy(entries)
      PROVE  place \in Places /\ due[place] = base[place]
  <2>1. place \in Places /\ HasTable(place[1]) /\ KeyOf(place) \in WriteSet(t)
    BY SeenAt DEF ReportsInv
  <2>2. /\ due[place] = store.data[KeyOf(place)]
        /\ KeyOf(place) \in RowKeys /\ KeyOf(place) \in AllKeys
    <3>1. due = RowsNow
      BY DEF CommittedRowsAreDue, RowsNow
    <3> QED
      BY <2>1, <3>1, Mapped DEF Places
  <2>3. base[place] = t.view[KeyOf(place)]
    BY <1>1, <2>1, AtBeginSeen
  <2>4. store.modified[KeyOf(place)] <= t.at
    <3>1. ~(store.modified[KeyOf(place)] > t.at)
      BY <2>1 DEF Conflicts
    <3>2. store.modified[KeyOf(place)] \in Nat
      BY <2>2 DEF DbInv, CatalogInv, TypeOK, StoreTypeOK
    <3> QED
      BY <3>1, <3>2
  <2> QED
    BY <2>1, <2>2, <2>3, <2>4 DEF ReportsInv
<1>3. ASSUME NEW place \in Places
      PROVE  RedoFirst(due, entries, i)[place]
               = IF place \in ChangedBy(entries)
                 THEN RedoFirst(base, entries, i)[place] ELSE due[place]
  <2> HIDE DEF base
  <2>1. CASE place \in ChangedBy(entries)
    BY <1>1, <1>2, <2>1, RedoLocal
  <2>2. CASE place \notin ChangedBy(entries)
    BY <1>1, <2>2, RedoLocal
  <2> QED
    BY <2>1, <2>2
<1>4. RedoFirst(due, entries, i) \in FittingRows
  <2> DEFINE R == RedoFirst(due, entries, i)
             B == RedoFirst(base, entries, i)
  <2>1. \A place \in Places : R[place] = B[place] \/ R[place] = due[place]
    BY <1>3
  <2>2. R = [place \in Places |-> R[place]]
    BY <1>1 DEF RowMaps
  <2>3. B \in FittingRows
    BY <1>1
  <2> HIDE DEF R, B
  <2> QED
    <3>1. ASSUME NEW place \in Places
          PROVE  /\ R[place] \in Rows \cup {Absent}
                 /\ R[place] # Absent =>
                      HasTable(place[1]) /\ RowFits(TableHandle(place[1]).schema, place[2], R[place])
      BY <2>1, <2>3 DEF FittingRows, Places
    <3>2. R \in [Places -> Rows \cup {Absent}]
      BY <2>2, <3>1
    <3>3. R \in FittingRows
      BY <3>1, <3>2 DEF FittingRows, Places
    <3> QED
      BY <3>3 DEF R
<1> QED
  BY <1>3, <1>4

\* A transaction's commit makes what it reported part of the committed rows.
LEMMA CommitIsDue ==
  ASSUME DbInv, DbInv', due \in FittingRows, CommittedRowsAreDue,
         NEW s \in Clients, IsOpen(s), Reported(done[s]), ReportsInv(dtx[s], done[s]),
         Conflicts(store, dtx[s]) = {}, store' = Apply(store, dtx[s])
  PROVE  RowsNow' = RedoAll(due, done[s]) /\ RedoAll(due, done[s]) \in FittingRows
<1> DEFINE t == dtx[s]
           es == done[s]
           n == Len(es)
<1>1. Snapshots!Publish(s)
  BY ApplyPublishes
<1>2. /\ DirtyNow[s] = ChangedBy(es) /\ ViewNow[s] = RedoFirst(RowsAtBegin(t), es, n)
      /\ RowsNow = due
  BY ReportsFacts DEF DirtyNow, ViewNow, ReportsInv, CommittedRowsAreDue, RowsNow
<1>3. n \in 0 .. n /\ t.at \in Nat
  <2>1. n \in Nat
    BY FirstOnes
  <2>2. t.at \in 0 .. store.version /\ store.version \in Nat
    BY DEF DbInv, ClientInv, CatalogInv, TypeOK, StoreTypeOK
  <2> QED
    BY <2>1, <2>2
<1>4. /\ due \in RowMaps
      /\ RedoFirst(due, es, n) = RedoAll(due, es) /\ RedoFirst(due, es, n) \in RowMaps
  BY <1>3, FittingAreRows, RedoFirstSteps
<1>5. /\ \A place \in Places :
           RedoFirst(due, es, n)[place]
             = IF place \in ChangedBy(es)
               THEN RedoFirst(RowsAtBegin(t), es, n)[place] ELSE due[place]
      /\ RedoFirst(due, es, n) \in FittingRows
  BY <1>3, RedoneOnDue
<1>6. RowsNow' = [r \in Places |-> IF r \in ChangedBy(es)
                                   THEN RedoFirst(RowsAtBegin(t), es, n)[r] ELSE due[r]]
  BY <1>1, <1>2 DEF Snapshots!Publish, Snapshots!Places, Places
<1> DEFINE R == RedoFirst(due, es, n)
<1>7. R = [r \in Places |-> R[r]]
  BY <1>4 DEF RowMaps
<1> HIDE DEF n, t, es
<1>8. RowsNow' = R
  BY <1>5, <1>6, <1>7
<1> QED
  BY <1>4, <1>5, <1>8 DEF es
-----------------------------------------------------------------------------
(* Every step keeps DbInv and DueInv.                                      *)

\* Reports that are true change each row at most once.
LEMMA ReportedBy ==
  ASSUME DbInv, NEW t, NEW entries \in Seq(Reports), ReportsInv(t, entries)
  PROVE  Reported(entries)
<1>1. ASSUME NEW i \in DOMAIN entries
      PROVE  OncePerRow(entries[i].did.changes)
  <2> DEFINE rows == RedoFirst(RowsAtBegin(t), entries, i - 1)
  <2>1. entries[i].st \in Statements /\ i - 1 \in 0 .. Len(entries)
    <3>1. entries[i] \in Reports /\ i \in 1 .. Len(entries) /\ Len(entries) \in Nat
      OBVIOUS
    <3> QED
      BY <3>1, ReportTypes
  <2>2. /\ rows \in FittingRows /\ HasTable(entries[i].st.table) /\ entries[i].did.ok
        /\ entries[i].did = RunAlone(rows, entries[i].st)
    BY <2>1 DEF ReportsInv
  <2> HIDE DEF rows
  <2> QED
    BY <2>1, <2>2, SuccessfulRun DEF DbInv
<1> QED
  BY <1>1 DEF Reported

\* What a transaction may have written, and what its snapshot is.
OpenInv(t, used) ==
  /\ t.at \in 0 .. store.version /\ DOMAIN t.view = AllKeys
  /\ \A id \in TableIds, pk \in Pks :
       /\ t.writes[RowKey(id, pk)] \in Rows \cup {Absent, Unwritten}
       /\ id >= NextId(store.data[CounterKey]) => t.view[RowKey(id, pk)] = Absent
  /\ \A k \in WriteSet(t) : \E n \in used, pk \in Pks :
       HasTable(n) /\ k = RowKey(TableHandle(n).table_id, pk)

\* A statement of an open transaction keeps DbInv, even half way.
LEMMA RanStep ==
  ASSUME DbInv, NEW s \in Clients, NEW t, NEW used, OpenInv(t, used), Buffered(t),
         RowsOf(t) \in FittingRows, NEW st \in Statements, NEW r, r = RunIn(t, st),
         UNCHANGED vars, LocalsInv', phase'[s] = "open", dtx'[s] = r.tx,
         touched'[s] = used \cup TablesOf(st, r),
         \A q \in Clients \ {s} : /\ dtx'[q] = dtx[q] /\ touched'[q] = touched[q]
                                  /\ phase'[q] = phase[q] /\ refusal'[q] = refusal[q]
  PROVE  DbInv'
<1> DEFINE u == r.tx
<1>1. CatalogInv' /\ RowsInv' /\ Later /\ store' = store
  BY SameVars DEF vars
<1>2. /\ Buffered(u) /\ u.at = t.at /\ u.view = t.view
      /\ \A k \in AllKeys :
           \/ u.writes[k] = t.writes[k]
           \/ /\ HasTable(st.table) /\ TablesOf(st, r) = {st.table}
              /\ u.writes[k] \in Rows \cup {Absent}
              /\ \E pk \in Pks : k = RowKey(TableHandle(st.table).table_id, pk)
  BY RanWrites
<1> HIDE DEF u
<1>3. DOMAIN u = {"at", "view", "writes"} /\ DOMAIN u.writes = AllKeys
  <2>1. DOMAIN [at |-> u.at, view |-> u.view, writes |-> [k \in AllKeys |-> u.writes[k]]]
          = {"at", "view", "writes"}
    OBVIOUS
  <2> QED
    BY <1>2, <2>1 DEF Buffered
<1>4. \A id \in TableIds, pk \in Pks :
        /\ u.writes[RowKey(id, pk)] \in Rows \cup {Absent, Unwritten}
        /\ id >= NextId(store.data[CounterKey]) => u.view[RowKey(id, pk)] = Absent
  <2> TAKE id \in TableIds, pk \in Pks
  <2>1. RowKey(id, pk) \in AllKeys
    BY RowKeysApart
  <2>2. u.writes[RowKey(id, pk)] = t.writes[RowKey(id, pk)]
        \/ u.writes[RowKey(id, pk)] \in Rows \cup {Absent}
    BY <1>2, <2>1
  <2> QED
    BY <1>2, <2>2 DEF OpenInv
<1>5. ASSUME NEW k \in WriteSet(u)
      PROVE  \E n \in touched'[s], pk \in Pks :
               HasTable(n)' /\ k = RowKey(TableHandle(n)'.table_id, pk)
  <2>1. \A n : HasTable(n)' = HasTable(n) /\ TableHandle(n)' = TableHandle(n)
    BY <1>1 DEF HasTable, TableHandle
  <2>2. k \in AllKeys /\ u.writes[k] # Unwritten
    BY <1>3 DEF WriteSet
  <2>3. CASE u.writes[k] = t.writes[k]
    <3>1. k \in WriteSet(t)
      BY <2>2, <2>3 DEF WriteSet, Buffered
    <3> QED
      BY <2>1, <3>1 DEF OpenInv
  <2>4. CASE u.writes[k] # t.writes[k]
    BY <1>2, <2>1, <2>2, <2>4
  <2> QED
    BY <2>3, <2>4
<1>6. ClientInv(s)'
  BY <1>1, <1>2, <1>3, <1>4, <1>5 DEF ClientInv, OpenInv, u
<1>7. ASSUME NEW q \in Clients, IsOpen(q)', q # s
      PROVE  ClientInv(q)'
  <2>1. /\ dtx'[q] = dtx[q] /\ touched'[q] = touched[q]
        /\ phase'[q] = phase[q] /\ refusal'[q] = refusal[q]
        /\ IsOpen(q) /\ touched[q] \subseteq Names
    BY <1>7 DEF IsOpen, DbInv, LocalsInv
  <2> QED
    BY <1>1, <2>1, ClientKept DEF DbInv
<1> QED
  BY <1>1, <1>6, <1>7 DEF DbInv

\* While the store stays the same, a transaction's reports may be looked at
\* before or after the step.
LEMMA SameReports ==
  ASSUME NEW q, NEW u, NEW es, u = dtx'[q], es = done'[q], store' = store, ReportsInv(u, es)
  PROVE  ReportsInv(dtx[q], done[q])'
<1>1. \A x : RowsOf(x)' = RowsOf(x)
  BY DEF RowsOf, HasTable, TableHandle
<1>2. RowsOf(dtx[q])' = RowsOf(u) /\ RowsAtBegin(dtx[q])' = RowsAtBegin(u)
  BY DEF RowsAtBegin, RowsOf, HasTable, TableHandle
<1>3. PlacesOf(WriteSet(dtx[q]))' = PlacesOf(WriteSet(u))
  BY DEF PlacesOf, HasTable, TableHandle
<1>4. FittingRows' = FittingRows
  BY DEF FittingRows, HasTable, TableHandle
<1>5. \A rows, st : RunAlone(rows, st)' = RunAlone(rows, st) /\ HasTable(st.table)' = HasTable(st.table)
  BY DEF RunAlone, TableHandle, HasTable
<1>6. \A i : RedoFirst(RowsAtBegin(dtx[q]), done[q], i)' = RedoFirst(RowsAtBegin(u), es, i)
  BY <1>2 DEF RedoFirst
<1> QED
  BY <1>2, <1>3, <1>4, <1>5, <1>6 DEF ReportsInv

\* A step that commits no rows keeps DueInv, if it ends, begins or leaves alone
\* each transaction.
LEMMA DueKept ==
  ASSUME DbInv, DbInv', DueInv, Later, NewAreHigh,
         done' \in [Sessions -> Seq(Reports)], due' \in FittingRows', CommittedRowsAreDue',
         \A k \in RowKeys :
           \/ store'.data[k] = store.data[k] /\ store'.modified[k] = store.modified[k]
           \/ store.version < store'.modified[k],
         \A q \in Sessions :
           \/ /\ phase'[q] = phase[q] /\ failed'[q] = failed[q]
              /\ dtx'[q] = dtx[q] /\ done'[q] = done[q]
           \/ phase'[q] = "idle" /\ done'[q] = <<>>
           \/ phase'[q] = "refused"
           \/ phase'[q] = "open" /\ (failed'[q] \/ ReportsInv(dtx[q], done[q])')
  PROVE  DueInv'
<1>1. ASSUME NEW q \in Sessions
      PROVE  /\ phase'[q] = "idle" => done'[q] = <<>>
             /\ phase'[q] = "open" /\ ~failed'[q] => ReportsInv(dtx[q], done[q])'
  <2>1. CASE ~ /\ phase'[q] = phase[q] /\ failed'[q] = failed[q]
               /\ dtx'[q] = dtx[q] /\ done'[q] = done[q]
    BY <2>1
  <2>2. CASE /\ phase'[q] = phase[q] /\ failed'[q] = failed[q]
             /\ dtx'[q] = dtx[q] /\ done'[q] = done[q]
    <3>1. phase[q] = "idle" => done[q] = <<>>
      BY DEF DueInv
    <3>2. ASSUME phase[q] = "open", ~failed[q]
          PROVE  ReportsInv(dtx[q], done[q])'
      <4>1. ReportsInv(dtx[q], done[q]) /\ done[q] \in Seq(Reports) /\ q \in Clients
        BY <3>2 DEF DueInv, Sessions
      <4>2. Reported(done[q])
        BY <4>1, ReportedBy
      <4>3. dtx[q].at \in 0 .. store.version /\ store.version \in Nat
        BY <3>2, <4>1 DEF DbInv, IsOpen, ClientInv, CatalogInv, TypeOK, StoreTypeOK
      <4>4. \A k \in RowKeys : store'.modified[k] \in Nat
        BY DEF DbInv, CatalogInv, TypeOK, StoreTypeOK, AllKeys
      <4>5. \A k \in RowKeys :
              \/ store'.data[k] = store.data[k] /\ store'.modified[k] = store.modified[k]
              \/ ~(store'.modified[k] <= dtx[q].at)
        BY <4>3, <4>4
      <4> QED
        BY <2>2, <3>2, <4>1, <4>2, <4>5, ReportsKept
    <3> QED
      BY <2>2, <3>1, <3>2
  <2> QED
    BY <2>1, <2>2
<1> QED
  BY <1>1 DEF DueInv

\* Steps that leave the store as it is.
LEMMA QuietDue ==
  ASSUME DbInv, DbInv', DueInv, UNCHANGED vars, due' = due,
         done' \in [Sessions -> Seq(Reports)],
         \A q \in Sessions :
           \/ /\ phase'[q] = phase[q] /\ failed'[q] = failed[q]
              /\ dtx'[q] = dtx[q] /\ done'[q] = done[q]
           \/ phase'[q] = "idle" /\ done'[q] = <<>>
           \/ phase'[q] = "refused"
           \/ phase'[q] = "open" /\ (failed'[q] \/ ReportsInv(dtx[q], done[q])')
  PROVE  DueInv'
<1>1. Later /\ store' = store /\ SameCatalogKeys
  BY SameVars DEF vars, SameCatalogKeys
<1>2. NewAreHigh
  BY <1>1, SameTables
<1>3. due' \in FittingRows'
  BY <1>1 DEF FittingRows, HasTable, TableHandle, DueInv
<1>4. CommittedRowsAreDue'
  <2>1. RowsOf(Begin(store))' = RowsOf(Begin(store))
    BY <1>1 DEF RowsOf, HasTable, TableHandle
  <2> QED
    BY <2>1 DEF CommittedRowsAreDue, DueInv
<1>5. \A k \in RowKeys : store'.data[k] = store.data[k] /\ store'.modified[k] = store.modified[k]
  BY <1>1
<1> QED
  BY <1>1, <1>2, <1>3, <1>4, <1>5, DueKept

\* A transaction that ends without a commit.
LEMMA QuietEnd ==
  ASSUME DbInv, DbInv', DueInv, DOMAIN failed = Sessions, UNCHANGED vars, NEW s \in Sessions, NEW how,
         EndTxn(s, how), Closed(s), due' = due
  PROVE  DueInv'
<1>1. /\ done' = [done EXCEPT ![s] = <<>>] /\ failed' = [failed EXCEPT ![s] = FALSE]
      /\ phase' = [phase EXCEPT ![s] = "idle"] /\ dtx' = [dtx EXCEPT ![s] = NoTx]
  BY DEF EndTxn, Closed
<1>2. done' \in [Sessions -> Seq(Reports)]
  BY <1>1 DEF DueInv
<1>3. \A q \in Sessions :
        \/ /\ phase'[q] = phase[q] /\ failed'[q] = failed[q]
           /\ dtx'[q] = dtx[q] /\ done'[q] = done[q]
        \/ phase'[q] = "idle" /\ done'[q] = <<>>
  <2> TAKE q \in Sessions
  <2>1. CASE q = s
    BY <1>1, <2>1 DEF DbInv, LocalsInv, DueInv, Sessions
  <2>2. CASE q # s
    BY <1>1, <2>2 DEF DbInv, LocalsInv, DueInv, Sessions
  <2> QED
    BY <2>1, <2>2
<1> QED
  BY <1>2, <1>3, QuietDue

\* A transaction that ends with a commit.
LEMMA CommitEnd ==
  ASSUME DbInv, DbInv', DueInv, NEW s \in Sessions, phase[s] = "open", ~failed[s],
         Conflicts(store, dtx[s]) = {}, store' = Apply(store, dtx[s]),
         due' = RedoAll(due, done[s]),
         done' \in [Sessions -> Seq(Reports)],
         \A q \in Sessions :
           \/ /\ phase'[q] = phase[q] /\ failed'[q] = failed[q]
              /\ dtx'[q] = dtx[q] /\ done'[q] = done[q]
           \/ phase'[q] = "idle" /\ done'[q] = <<>>
  PROVE  DueInv'
<1>1. /\ s \in Clients /\ IsOpen(s) /\ ClientInv(s)
      /\ Reported(done[s]) /\ ReportsInv(dtx[s], done[s])
  <2>1. ReportsInv(dtx[s], done[s]) /\ done[s] \in Seq(Reports) /\ s \in Clients
    BY DEF DueInv, Sessions
  <2> QED
    BY <2>1, ReportedBy DEF IsOpen, DbInv
<1>2. due \in FittingRows /\ CommittedRowsAreDue
  BY DEF DueInv
<1>3. RowsNow' = due' /\ due' \in FittingRows
  BY <1>1, <1>2, CommitIsDue
<1>4. /\ Later /\ SameCatalogKeys
      /\ \A k \in AllKeys :
           \/ store'.data[k] = store.data[k] /\ store'.modified[k] = store.modified[k]
           \/ store'.modified[k] = store.version + 1
  BY <1>1, ClientApply DEF DbInv
<1>5. NewAreHigh
  BY <1>4, SameTables
<1>6. due' \in FittingRows' /\ CommittedRowsAreDue'
  BY <1>3, <1>4, FittingLater DEF CommittedRowsAreDue, RowsNow
<1>7. \A k \in RowKeys :
        \/ store'.data[k] = store.data[k] /\ store'.modified[k] = store.modified[k]
        \/ store.version < store'.modified[k]
  <2>1. store.version \in Nat
    BY DEF DbInv, CatalogInv, TypeOK, StoreTypeOK
  <2> QED
    BY <1>4, <2>1 DEF AllKeys
<1> QED
  BY <1>4, <1>5, <1>6, <1>7, DueKept

\* BEGIN.
LEMMA BeginDue ==
  ASSUME DbInv, DueInv, NEW s \in Sessions, ExecBegin(s)
  PROVE  DbInv' /\ DueInv'
<1>1. BeginTxn(s) /\ s \in Clients /\ UNCHANGED vars /\ UNCHANGED sessionVars /\ store' = store
  BY DEF ExecBegin, BeginTxn, Sessions, vars
<1>2. DbInv'
  BY <1>1, BeginStep
<1>3. /\ phase' = [phase EXCEPT ![s] = "open"] /\ dtx' = [dtx EXCEPT ![s] = Begin(store)]
      /\ phase[s] = "idle" /\ failed' = failed /\ done' = done /\ due' = due
  BY <1>1 DEF BeginTxn, sessionVars
<1>4. ReportsInv(dtx[s], done[s])'
  <2>1. ReportsInv(Begin(store), <<>>)
    BY FreshReports DEF DueInv, CommittedRowsAreDue
  <2>2. dtx'[s] = Begin(store) /\ done'[s] = <<>>
    BY <1>1, <1>3 DEF DbInv, LocalsInv, DueInv
  <2> QED
    BY <1>1, <2>1, <2>2, SameReports
<1>5. \A q \in Sessions :
        \/ /\ phase'[q] = phase[q] /\ failed'[q] = failed[q]
           /\ dtx'[q] = dtx[q] /\ done'[q] = done[q]
        \/ phase'[q] = "open" /\ ReportsInv(dtx[q], done[q])'
  BY <1>3, <1>4 DEF DbInv, LocalsInv, Sessions
<1> QED
  BY <1>1, <1>2, <1>3, <1>5, QuietDue DEF DueInv

\* An error before the statement has touched anything.
LEMMA RefusedDue ==
  ASSUME DbInv, DueInv, NEW s \in Sessions, ExecRefused(s)
  PROVE  DbInv' /\ DueInv'
<1>1. /\ UNCHANGED <<dbVars, vars, clientVars>>
      /\ failed' = failed /\ done' = done /\ due' = due /\ phase' = phase /\ dtx' = dtx
  BY DEF ExecRefused, dbVars, clientVars
<1>2. DbInv'
  BY <1>1, CatalogStepKeeps
<1> QED
  BY <1>1, <1>2, QuietDue DEF DueInv

\* A statement in session s, in a transaction t that has made the reports es.
LEMMA RanDue ==
  ASSUME DbInv, DbInv', DueInv, NEW s \in Sessions, NEW t, NEW es \in Seq(Reports),
         ReportsInv(t, es), NEW st \in Statements, NEW r, r = RunIn(t, st), r.did.ok,
         UNCHANGED vars, due' = due, phase'[s] = "open", dtx'[s] = r.tx,
         done' = [done EXCEPT ![s] = Append(es, [st |-> st, did |-> r.did])],
         \A q \in Sessions \ {s} :
           phase'[q] = phase[q] /\ failed'[q] = failed[q] /\ dtx'[q] = dtx[q]
  PROVE  DueInv'
<1> DEFINE more == Append(es, [st |-> st, did |-> r.did])
<1>1. Reported(more) /\ ReportsInv(r.tx, more)
  BY ReportedBy, RanReports
<1>2. done' = [done EXCEPT ![s] = more]
  OBVIOUS
<1> HIDE DEF more
<1>3. done' \in [Sessions -> Seq(Reports)] /\ done'[s] = more
      /\ \A q \in Sessions \ {s} : done'[q] = done[q]
  BY <1>1, <1>2 DEF DueInv, Reported
<1>4. store' = store
  BY DEF vars
<1>5. ReportsInv(dtx[s], done[s])'
  BY <1>1, <1>3, <1>4, SameReports
<1> QED
  BY <1>3, <1>5, QuietDue

\* A statement between BEGIN and COMMIT, successful or failed half way.
LEMMA InTxnDue ==
  ASSUME DbInv, DueInv, DOMAIN failed = Sessions, NEW s \in Sessions, ExecInTxn(s)
  PROVE  DbInv' /\ DueInv'
<1> DEFINE t == dtx[s]
           es == done[s]
<1>1. PICK st \in Statements : RanInTxn(s, st, RunIn(t, st))
  BY DEF ExecInTxn
<1>2. PICK r : r = RunIn(t, st)
  OBVIOUS
<1>3. /\ s \in Clients /\ UNCHANGED vars /\ phase' = phase /\ refusal' = refusal
      /\ outcome' = outcome /\ due' = due /\ phase[s] = "open" /\ ~failed[s]
      /\ dtx' = [dtx EXCEPT ![s] = r.tx]
      /\ failed' = [failed EXCEPT ![s] = ~r.did.ok]
      /\ touched' = [touched EXCEPT ![s] = @ \cup TablesOf(st, r)]
      /\ done' = [done EXCEPT ![s] = IF r.did.ok THEN Append(@, [st |-> st, did |-> r.did])
                                     ELSE @]
  BY <1>1, <1>2 DEF ExecInTxn, InTxn, RanInTxn, Poisoned, Sessions
<1>4. /\ ReportsInv(t, es) /\ es \in Seq(Reports) /\ Reported(es)
      /\ Buffered(t) /\ RowsOf(t) \in FittingRows
  <2>1. ReportsInv(t, es) /\ es \in Seq(Reports)
    BY <1>3 DEF DueInv
  <2>2. Reported(es)
    BY <2>1, ReportedBy
  <2> QED
    BY <2>1, <2>2, ReportsFacts
<1>5. /\ dtx'[s] = r.tx /\ touched'[s] = touched[s] \cup TablesOf(st, r)
      /\ \A q \in Clients \ {s} : dtx'[q] = dtx[q] /\ touched'[q] = touched[q]
  BY <1>3 DEF DbInv, LocalsInv
<1>6. LocalsInv'
  <2>1. TablesOf(st, r) \subseteq Names
    BY SessionAssumption DEF TablesOf
  <2> QED
    BY <1>3, <2>1 DEF DbInv, LocalsInv
<1>7. OpenInv(t, touched[s])
  BY <1>3 DEF DbInv, IsOpen, ClientInv, OpenInv
<1>8. DbInv'
  <2> HIDE DEF t
  <2> QED
    BY <1>2, <1>3, <1>4, <1>5, <1>6, <1>7, RanStep
<1>9. CASE r.did.ok
  <2>1. done' = [done EXCEPT ![s] = Append(es, [st |-> st, did |-> r.did])]
    BY <1>3, <1>9 DEF DueInv
  <2>2. /\ phase'[s] = "open" /\ \A q \in Sessions \ {s} :
             phase'[q] = phase[q] /\ failed'[q] = failed[q] /\ dtx'[q] = dtx[q]
    BY <1>3, <1>5 DEF Sessions
  <2> HIDE DEF t, es
  <2>3. /\ UNCHANGED vars /\ due' = due /\ dtx'[s] = r.tx /\ r.did.ok
        /\ es \in Seq(Reports) /\ ReportsInv(t, es) /\ r = RunIn(t, st)
    BY <1>2, <1>3, <1>4, <1>5, <1>9
  <2>4. DueInv'
    BY <1>8, <2>1, <2>2, <2>3, RanDue
  <2> QED
    BY <1>8, <2>4
<1>10. CASE ~r.did.ok
  <2>1. done' = done
    BY <1>3, <1>10 DEF DueInv
  <2>2. \A q \in Sessions :
          \/ /\ phase'[q] = phase[q] /\ failed'[q] = failed[q]
             /\ dtx'[q] = dtx[q] /\ done'[q] = done[q]
          \/ phase'[q] = "open" /\ failed'[q]
    BY <1>3, <1>5, <1>10, <2>1 DEF Sessions
  <2> QED
    BY <1>3, <1>8, <2>1, <2>2, QuietDue DEF DueInv
<1> QED
  BY <1>8, <1>9, <1>10

\* A statement of its own, before its commit.
LEMMA AutoDue ==
  ASSUME DbInv, DueInv, DOMAIN failed = Sessions, NEW s \in Sessions, ExecAuto(s)
  PROVE  DbInv' /\ DueInv'
<1> DEFINE t == Begin(store)
<1>1. PICK st \in Statements : RanAuto(s, st, RunIn(t, st))
  BY DEF ExecAuto
<1>2. PICK r : r = RunIn(t, st)
  OBVIOUS
<1>3. /\ s \in Clients /\ UNCHANGED vars /\ refusal' = refusal /\ failed' = failed /\ due' = due
      /\ phase[s] # "open" /\ phase[s] # "refused" /\ r.did.ok
      /\ phase' = [phase EXCEPT ![s] = "open"]
      /\ outcome' = [outcome EXCEPT ![s] = Done("none")]
      /\ dtx' = [dtx EXCEPT ![s] = r.tx]
      /\ touched' = [touched EXCEPT ![s] = TablesOf(st, r)]
      /\ done' = [done EXCEPT ![s] = <<[st |-> st, did |-> r.did]>>]
  BY <1>1, <1>2 DEF ExecAuto, RanAuto, Ready, InTxn, Sessions
<1>4. /\ ReportsInv(t, <<>>) /\ Buffered(t) /\ RowsOf(t) \in FittingRows
  BY FreshReports DEF DueInv, CommittedRowsAreDue
<1>5. /\ dtx'[s] = r.tx /\ touched'[s] = {} \cup TablesOf(st, r) /\ phase'[s] = "open"
      /\ \A q \in Clients \ {s} : /\ dtx'[q] = dtx[q] /\ touched'[q] = touched[q]
                                  /\ phase'[q] = phase[q] /\ refusal'[q] = refusal[q]
  BY <1>3 DEF DbInv, LocalsInv
<1>6. LocalsInv'
  <2>1. TablesOf(st, r) \subseteq Names
    BY SessionAssumption DEF TablesOf
  <2> QED
    BY <1>3, <2>1 DEF DbInv, LocalsInv, Done
<1>7. OpenInv(t, {})
  <2>1. /\ store.version \in Nat /\ DOMAIN store.data = AllKeys
        /\ \A id \in TableIds, pk \in Pks : RowKey(id, pk) \in AllKeys
    BY RowKeysApart DEF DbInv, CatalogInv, TypeOK, StoreTypeOK
  <2>2. t = [at |-> store.version, view |-> store.data, writes |-> [k \in AllKeys |-> Unwritten]]
    BY <2>1 DEF Begin
  <2> HIDE DEF t
  <2>3. WriteSet(t) = {}
    BY <2>2 DEF WriteSet
  <2> QED
    BY <2>1, <2>2, <2>3 DEF OpenInv, DbInv, RowsInv
<1>8. DbInv'
  <2> HIDE DEF t
  <2> QED
    BY <1>2, <1>3, <1>4, <1>5, <1>6, <1>7, RanStep
<1>9. Append(<<>>, [st |-> st, did |-> r.did]) = <<[st |-> st, did |-> r.did]>>
  OBVIOUS
<1>10. /\ done' = [done EXCEPT ![s] = Append(<<>>, [st |-> st, did |-> r.did])]
       /\ \A q \in Sessions \ {s} :
            phase'[q] = phase[q] /\ failed'[q] = failed[q] /\ dtx'[q] = dtx[q]
       /\ <<>> \in Seq(Reports)
  BY <1>3, <1>5, <1>9 DEF Sessions
<1>11. DueInv'
  <2> HIDE DEF t
  <2>1. UNCHANGED vars /\ due' = due /\ dtx'[s] = r.tx /\ r.did.ok /\ ReportsInv(t, <<>>)
        /\ phase'[s] = "open"
    BY <1>3, <1>4, <1>5
  <2> QED
    BY <1>2, <1>8, <1>10, <2>1, RanDue
<1> QED
  BY <1>8, <1>11

\* The others are as they were when s has closed.
LEMMA OthersKept ==
  ASSUME DbInv, DueInv, DOMAIN failed = Sessions, NEW s \in Sessions, NEW how,
         EndTxn(s, how), Closed(s)
  PROVE  /\ done' \in [Sessions -> Seq(Reports)]
         /\ \A q \in Sessions :
              \/ /\ phase'[q] = phase[q] /\ failed'[q] = failed[q]
                 /\ dtx'[q] = dtx[q] /\ done'[q] = done[q]
              \/ phase'[q] = "idle" /\ done'[q] = <<>>
<1>1. /\ done' = [done EXCEPT ![s] = <<>>] /\ failed' = [failed EXCEPT ![s] = FALSE]
      /\ phase' = [phase EXCEPT ![s] = "idle"] /\ dtx' = [dtx EXCEPT ![s] = NoTx]
  BY DEF EndTxn, Closed
<1>2. done' \in [Sessions -> Seq(Reports)]
  BY <1>1 DEF DueInv
<1>3. ASSUME NEW q \in Sessions
      PROVE  \/ /\ phase'[q] = phase[q] /\ failed'[q] = failed[q]
                /\ dtx'[q] = dtx[q] /\ done'[q] = done[q]
             \/ phase'[q] = "idle" /\ done'[q] = <<>>
  <2>1. CASE q = s
    BY <1>1, <2>1 DEF DbInv, LocalsInv, DueInv, Sessions
  <2>2. CASE q # s
    BY <1>1, <2>2 DEF DbInv, LocalsInv, DueInv, Sessions
  <2> QED
    BY <2>1, <2>2
<1> QED
  BY <1>2, <1>3

\* COMMIT: published, cut off by a store error on either side, or refused.
LEMMA CommitDue ==
  ASSUME DbInv, DueInv, DOMAIN failed = Sessions, NEW s \in Sessions, ExecCommit(s)
  PROVE  DbInv' /\ DueInv'
<1>1. s \in Clients /\ ~failed[s]
  BY DEF ExecCommit, MayCommit, Sessions
<1>2. DbInv'
  BY <1>1, ClientStepKeeps DEF ExecCommit, ClientStep
<1>3. CASE CommitTxn(s) /\ due' = RedoAll(due, done[s]) /\ Closed(s)
  <2>1. EndTxn(s, Done("ok")) /\ phase[s] = "open"
        /\ Conflicts(store, dtx[s]) = {} /\ store' = Apply(store, dtx[s])
    BY <1>3 DEF CommitTxn
  <2> QED
    BY <1>1, <1>2, <1>3, <2>1, OthersKept, CommitEnd
<1>4. CASE TxnStoreError(s) /\ due' = (IF store' = store THEN due ELSE RedoAll(due, done[s]))
           /\ Closed(s)
  <2>1. /\ EndTxn(s, Done("store")) /\ phase[s] = "open"
        /\ Conflicts(store, dtx[s]) = {} /\ UNCHANGED catalogVars
        /\ store' = store \/ store' = Apply(store, dtx[s])
    BY <1>4 DEF TxnStoreError
  <2>2. CASE store' = store
    <3>1. UNCHANGED vars /\ due' = due
      BY <1>4, <2>1, <2>2 DEF vars, catalogVars
    <3> QED
      BY <1>2, <1>4, <2>1, <3>1, QuietEnd
  <2>3. CASE store' # store
    BY <1>1, <1>2, <1>4, <2>1, <2>3, OthersKept, CommitEnd
  <2> QED
    BY <2>2, <2>3
<1>5. CASE RefuseTxn(s) /\ UNCHANGED sessionVars
  <2>1. /\ UNCHANGED vars /\ dtx' = dtx /\ failed' = failed /\ done' = done /\ due' = due
        /\ phase' = [phase EXCEPT ![s] = "refused"]
    BY <1>5 DEF RefuseTxn, sessionVars
  <2>2. \A q \in Sessions : phase'[q] = phase[q] \/ phase'[q] = "refused"
    BY <2>1 DEF DbInv, LocalsInv, Sessions
  <2>3. done' \in [Sessions -> Seq(Reports)]
    BY <2>1 DEF DueInv
  <2> QED
    BY <1>2, <2>1, <2>2, <2>3, QuietDue
<1> QED
  BY <1>3, <1>4, <1>5 DEF ExecCommit

\* A refused COMMIT once it has been explained, COMMIT of a failed transaction,
\* ROLLBACK.
LEMMA EndDue ==
  ASSUME DbInv, DueInv, DOMAIN failed = Sessions, NEW s \in Sessions,
         ExecConflictError(s) \/ ExecCommitFailed(s) \/ ExecRollback(s)
  PROVE  DbInv' /\ DueInv'
<1>1. /\ s \in Clients
      /\ Closed(s)
      /\ due' = due
      /\ ConflictError(s) \/ AbortTxn(s)
  BY DEF ExecConflictError, ExecCommitFailed, ExecRollback, Sessions
<1>2. DbInv'
  BY <1>1, ClientStepKeeps DEF ClientStep
<1>3. UNCHANGED vars /\ \E how : EndTxn(s, how)
  BY <1>1 DEF ConflictError, AbortTxn
<1> QED
  BY <1>1, <1>2, <1>3, QuietEnd

\* CREATE TABLE: open transactions and committed rows stay as they are.
LEMMA CreateTableDue ==
  ASSUME DbInv, DueInv, NEW s \in Sessions, ExecCreateTable(s)
  PROVE  DbInv' /\ DueInv'
<1>1. [Next]_vars /\ UNCHANGED clientVars /\ UNCHANGED sessionVars
  BY SessionAssumption, CatalogAssumption DEF ExecCreateTable, Next
<1>2. DbInv'
  BY <1>1, CatalogStepKeeps
<1>3. /\ Later
      /\ \A k \in RowKeys : /\ store'.data[k] = store.data[k]
                            /\ store'.modified[k] = store.modified[k]
  BY <1>1, <1>2, CatalogKeepsRows DEF DbInv
<1>4. NewAreHigh
  BY <1>1, <1>2, NewTablesAreHigh DEF DbInv, NewAreHigh
<1>5. due' = due /\ done' = done /\ failed' = failed /\ phase' = phase /\ dtx' = dtx
  BY <1>1 DEF clientVars, sessionVars
<1>6. RowsNow' = RowsNow
  BY <1>1, <1>2, CatalogKeepsNamedRows
<1>7. due' \in FittingRows' /\ CommittedRowsAreDue'
  BY <1>3, <1>5, <1>6, FittingLater DEF DueInv, CommittedRowsAreDue, RowsNow
<1>8. done' \in [Sessions -> Seq(Reports)]
  BY <1>5 DEF DueInv
<1> QED
  BY <1>2, <1>3, <1>4, <1>5, <1>7, <1>8, DueKept

\* A crash, before or after the commit in flight was on disk.
LEMMA CrashDue ==
  ASSUME DbInv, DueInv, SessionCrash
  PROVE  DbInv' /\ DueInv'
<1>1. /\ ForgetClients /\ phase' = [p \in Clients |-> "idle"]
      /\ done' = [s \in Sessions |-> <<>>]
  BY DEF SessionCrash, ForgetClients
<1>2. DbInv'
  <2>1. DbCrash
    BY DEF SessionCrash, DbCrash, Sessions
  <2> QED
    BY <2>1, DbCrashKeeps
<1>3. /\ done' \in [Sessions -> Seq(Reports)]
      /\ \A q \in Sessions : phase'[q] = "idle" /\ done'[q] = <<>>
  BY <1>1 DEF Sessions
<1>4. CASE CrashAndReopen /\ UNCHANGED due
  <2>1. [Next]_vars
    BY <1>4 DEF Next
  <2>2. /\ Later
        /\ \A k \in RowKeys : /\ store'.data[k] = store.data[k]
                              /\ store'.modified[k] = store.modified[k]
    BY <1>2, <2>1, CatalogKeepsRows DEF DbInv
  <2>3. NewAreHigh
    BY <1>2, <2>1, NewTablesAreHigh DEF DbInv, NewAreHigh
  <2>4. RowsNow' = RowsNow
    BY <1>2, <2>1, CatalogKeepsNamedRows
  <2>5. due' \in FittingRows' /\ CommittedRowsAreDue'
    BY <1>4, <2>2, <2>4, FittingLater DEF DueInv, CommittedRowsAreDue, RowsNow
  <2> QED
    BY <1>2, <1>3, <2>2, <2>3, <2>5, DueKept
<1>5. ASSUME NEW s \in Sessions, phase[s] = "open", ~failed[s],
             Conflicts(store, dtx[s]) = {}, store' = Apply(store, dtx[s]),
             due' = RedoAll(due, done[s])
      PROVE  DueInv'
  BY <1>2, <1>3, <1>5, CommitEnd
<1> QED
  BY <1>2, <1>4, <1>5 DEF SessionCrash

\* Stuttering.
LEMMA IdleDue ==
  ASSUME DbInv, DueInv, UNCHANGED allVars
  PROVE  DbInv' /\ DueInv'
<1>1. /\ UNCHANGED <<dbVars, vars, clientVars>>
      /\ failed' = failed /\ done' = done /\ due' = due /\ phase' = phase /\ dtx' = dtx
  BY DEF allVars, dbVars, clientVars, sessionVars
<1>2. DbInv'
  BY <1>1, CatalogStepKeeps
<1> QED
  BY <1>1, <1>2, QuietDue DEF DueInv

-----------------------------------------------------------------------------
(* The invariant, and what follows from it.                                *)

\* A new database.
LEMMA InitDue == SessionInit => DbInv /\ DueInv
<1> SUFFICES ASSUME SessionInit PROVE DbInv /\ DueInv
  OBVIOUS
<1>1. DbInv
  BY DbInitInv DEF SessionInit
<1>2. /\ done = [s \in Sessions |-> <<>>] /\ due = [r \in Places |-> Absent]
      /\ phase = [p \in Clients |-> "idle"]
  BY DEF SessionInit, DbInit, Places
<1>3. \A n \in Names : ~HasTable(n)
  <2>1. store.data = [k \in AllKeys |-> Absent]
    BY DEF SessionInit, DbInit, Init, NewStore
  <2>2. \A n \in Names : TableKey(n) \in AllKeys
    BY KeysDistinct
  <2> QED
    BY <2>1, <2>2 DEF HasTable
<1>4. RowsOf(Begin(store)) = [r \in Places |-> Absent]
  BY <1>3, SeenAt DEF Places
<1>5. due \in FittingRows /\ CommittedRowsAreDue
  BY <1>2, <1>4 DEF FittingRows, Places, CommittedRowsAreDue
<1>6. done \in [Sessions -> Seq(Reports)]
  BY <1>2
<1> QED
  BY <1>1, <1>2, <1>5, <1>6 DEF DueInv, Sessions

\* Every step.
LEMMA StepDue ==
  ASSUME SessionInv, DbInv, DueInv, [SessionNext]_allVars
  PROVE  DbInv' /\ DueInv'
<1>1. DOMAIN failed = Sessions
  BY DEF SessionInv
<1>2. ASSUME NEW s \in Sessions, SessionStep(s)
      PROVE  DbInv' /\ DueInv'
  BY <1>1, <1>2, BeginDue, RefusedDue, InTxnDue, AutoDue, CommitDue, EndDue, CreateTableDue
     DEF SessionStep
<1> QED
  BY <1>2, CrashDue, IdleDue DEF SessionNext

\* On the committed rows, each statement of a transaction that changed what it
\* read finds what it found on its snapshot.
LEMMA DueSerializes ==
  ASSUME DbInv, DueInv, NEW s \in Sessions, phase[s] = "open", ~failed[s],
         Conflicts(store, dtx[s]) = {}, ChangesWhatItReads(done[s]), NEW i \in DOMAIN done[s]
  PROVE  RunAlone(RedoFirst(due, done[s], i - 1), done[s][i].st) = done[s][i].did
<1> DEFINE t == dtx[s]
           es == done[s]
           base == RowsAtBegin(t)
           rows == RedoFirst(base, es, i - 1)
           now == RedoFirst(due, es, i - 1)
           e == es[i]
<1>1. /\ s \in Clients /\ IsOpen(s) /\ ReportsInv(t, es) /\ es \in Seq(Reports)
      /\ due \in FittingRows /\ CommittedRowsAreDue
  BY DEF DueInv, Sessions, IsOpen
<1>2. Reported(es)
  BY <1>1, ReportedBy
<1>3. /\ i \in 1 .. Len(es) /\ i - 1 \in 0 .. Len(es) /\ e \in Reports
      /\ e.st \in Statements /\ e.st.table \in Names /\ e.did \in Outcomes
  <2>1. i \in 1 .. Len(es) /\ i - 1 \in 0 .. Len(es) /\ e \in Reports
    BY <1>1
  <2> QED
    BY <2>1, ReportTypes
<1>4. /\ rows \in FittingRows /\ HasTable(e.st.table) /\ e.did.ok
      /\ e.did = RunAlone(rows, e.st)
  BY <1>1, <1>3 DEF ReportsInv
<1>5. t.at \in Nat
  <2>1. t.at \in 0 .. store.version /\ store.version \in Nat
    BY <1>1 DEF DbInv, ClientInv, CatalogInv, TypeOK, StoreTypeOK
  <2> QED
    BY <2>1
<1>6. /\ \A place \in Places :
           now[place] = IF place \in ChangedBy(es) THEN rows[place] ELSE due[place]
      /\ now \in FittingRows
  BY <1>1, <1>2, <1>3, <1>5, RedoneOnDue
<1>7. \A pk \in ReadBy(e.did) : pk \in Pks /\ <<e.st.table, pk>> \in ChangedBy(es)
  <2>1. \A pk \in ReadBy(e.did) : <<e.st.table, pk>> \in KeysRead(e)
    BY DEF KeysRead
  <2>2. ReadBy(e.did) \subseteq Pks
    BY <1>3 DEF ReadBy, Outcomes
  <2> QED
    BY <2>1, <2>2 DEF ChangesWhatItReads
<1>8. \A pk \in ReadBy(e.did) : now[<<e.st.table, pk>>] = rows[<<e.st.table, pk>>]
  BY <1>3, <1>6, <1>7 DEF Places
<1>9. CatalogInv
  BY DEF DbInv
<1> HIDE DEF t, es, base, rows, now, e
<1>10. RunAlone(now, e.st) = e.did
  BY <1>3, <1>4, <1>6, <1>8, <1>9, SuccessfulRun
<1> QED
  BY <1>10 DEF now, e, es

\* The invariants type the state.
LEMMA DueTypes == SessionInv /\ DbInv /\ DueInv => SessionTypeOK
<1> SUFFICES ASSUME SessionInv, DbInv, DueInv PROVE SessionTypeOK
  OBVIOUS
<1>1. DbTypeOK
  BY TypesFollow
<1>2. ASSUME NEW s \in Sessions, NEW i \in DOMAIN done[s]
      PROVE  done[s][i].st \in Statements /\ done[s][i].did \in Outcomes
  <2>1. done[s] \in Seq(Reports)
    BY DEF DueInv
  <2>2. done[s][i] \in Reports
    BY <2>1
  <2> QED
    BY <2>2, ReportTypes
<1> QED
  BY <1>1, <1>2 DEF SessionTypeOK, SessionInv

\* The inductive invariant holds in every reachable state.
THEOREM SessionDue == SessionSpec => [](SessionInv /\ DbInv /\ DueInv)
<1>1. SessionInit => SessionInv /\ DbInv /\ DueInv
  BY SessionInitInv, InitDue
<1>2. SessionInv /\ DbInv /\ DueInv /\ [SessionNext]_allVars
        => (SessionInv /\ DbInv /\ DueInv)'
  BY StepDue, SessionNextKeeps
<1> QED
  BY <1>1, <1>2, PTL DEF SessionSpec

\* Every reachable state is well typed; in particular whatever a session has
\* recorded of its transaction is an outcome of a statement.
THEOREM SessionTypesHold == SessionSpec => []SessionTypeOK
  BY SessionDue, DueTypes, PTL

\* For every schema, row, set of sessions and statement: the committed rows are
\* what the reported changes of the committed transactions add up to, in commit
\* order.  Failed statements leave no trace, and no update is lost, whatever
\* the sessions interleave and wherever the process dies.
THEOREM CommittedRowsAreWhatWasReported == SessionSpec => []CommittedRowsAreDue
<1>1. DueInv => CommittedRowsAreDue
  BY DEF DueInv
<1> QED
  BY <1>1, SessionDue, PTL

\* A transaction that may commit and has changed every row it read would have
\* reported the same, statement by statement, had it run alone on the rows
\* committed now: its snapshot cannot be told from running last.
THEOREM CommitsAreSerial == SessionSpec => []CommitsSerialize
<1>1. DbInv /\ DueInv => CommitsSerialize
  BY DueSerializes DEF CommitsSerialize
<1> QED
  BY <1>1, SessionDue, PTL
=============================================================================
