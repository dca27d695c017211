--------------------------- MODULE LocalDBProofs ----------------------------
(***************************************************************************)
(* Proofs about LocalDB: the migrations of the shared file.                 *)
(*                                                                         *)
(* DbLogOK speaks of every prefix of the log at once, so that it survives a *)
(* power failure (any prefix of the log is one the file may come back with) *)
(* and is extended by a commit.  DbCallOK is what the step of a process     *)
(* knows of the file: the holder of the write lock knows the version, and a *)
(* module's list runs only once the framework's has.                       *)
(***************************************************************************)
EXTENDS LocalDB, TLAPS

DbEntries == [scope : DbScope, i : Nat, vers : [DbScope -> Nat]]

\* The versions after the first k transactions of the log.
DbLogOK(log) ==
  /\ \A j, k \in 1..Len(log) : j <= k => log[j].i < log[k].vers[log[j].scope]
  /\ \A j, k \in 1..Len(log) :
       j < k /\ log[j].scope = log[k].scope => log[j].i < log[k].i
  /\ \A k \in 1..Len(log) : \A s \in DbScope : \A n \in Nat :
       n < log[k].vers[s] =>
         \E j \in 1..Len(log) : j <= k /\ log[j].scope = s /\ log[j].i = n
  /\ \A k \in 1..Len(log) : log[k].scope # Framework =>
       \E j \in 1..Len(log) : j < k /\ log[j].scope = Framework

DbTypes ==
  /\ dbLog \in Seq(DbEntries)
  /\ dbDurable \in 0..Len(dbLog)
  /\ dbPc \in [DbProc -> DbPcs]
  /\ dbScope \in [DbProc -> DbScope]
  /\ dbStore \in [DbProc -> DbScope]
  /\ dbIdx \in [DbProc -> Nat]
  /\ dbOpen \in [DbProc -> BOOLEAN]
  /\ dbCached \in [DbProc -> SUBSET DbModule]
  /\ dbNewer \in [DbProc -> BOOLEAN]

DbHasFramework(p) == DbVers[Framework] >= DbKnown[p][Framework]

DbCallOK(p) ==
  /\ dbPc[p] \in {"tx", "commit"} => dbLock = {p}
  /\ dbPc[p] \in {"begin", "tx", "commit"} => dbIdx[p] <= DbVers[dbScope[p]]
  /\ dbPc[p] = "commit" => dbIdx[p] = DbVers[dbScope[p]]
  /\ dbPc[p] # "idle" => dbStore[p] \in DbModule
  /\ dbPc[p] # "idle" /\ dbNewer[p] => DbVers[dbStore[p]] > DbKnown[p][dbStore[p]]
  /\ dbScope[p] # Framework =>
       /\ dbPc[p] # "idle" => dbScope[p] = dbStore[p]
       /\ dbPc[p] \in {"begin", "tx", "commit"} => ~dbNewer[p]
       /\ DbHasFramework(p)
  /\ dbOpen[p] => DbHasFramework(p)

DbInv == DbTypes /\ DbLogOK(dbLog) /\ \A p \in DbProc : DbCallOK(p)

-----------------------------------------------------------------------------
(* The log *)

LEMMA VersType ==
  ASSUME dbLog \in Seq(DbEntries)
  PROVE  DbVers \in [DbScope -> Nat]
<1>1. CASE dbLog = <<>>
  BY <1>1 DEF DbVers
<1>2. CASE dbLog # <<>>
  <2>1. Len(dbLog) \in 1..Len(dbLog)
    BY <1>2
  <2>2. dbLog[Len(dbLog)] \in DbEntries
    BY <2>1
  <2> QED
    BY <1>2, <2>2 DEF DbVers, DbEntries
<1> QED
  BY <1>1, <1>2

LEMMA KnownType ==
  /\ Framework \in DbScope
  /\ \A p \in DbProc : \A s \in DbScope : DbKnown[p][s] \in Nat
  /\ \A p \in DbProc : DbKnown[p][Framework] > 0
  /\ \A m \in DbModule : m \in DbScope /\ m # Framework
  BY DbAssumption DEF DbScope

LEMMA PrefixOK ==
  ASSUME NEW log \in Seq(DbEntries), DbLogOK(log), NEW n \in 0..Len(log)
  PROVE  SubSeq(log, 1, n) \in Seq(DbEntries) /\ DbLogOK(SubSeq(log, 1, n))
             /\ Len(SubSeq(log, 1, n)) = n
<1> DEFINE pre == SubSeq(log, 1, n)
<1>1. pre \in Seq(DbEntries) /\ Len(pre) = n
  OBVIOUS
<1>2. \A j \in 1..Len(pre) : j \in 1..Len(log) /\ pre[j] = log[j]
  OBVIOUS
<1> HIDE DEF pre
<1>3. \A j, k \in 1..Len(pre) : j <= k => pre[j].i < pre[k].vers[pre[j].scope]
  BY <1>2 DEF DbLogOK
<1>4. \A j, k \in 1..Len(pre) :
        j < k /\ pre[j].scope = pre[k].scope => pre[j].i < pre[k].i
  BY <1>2 DEF DbLogOK
<1>5. ASSUME NEW k \in 1..Len(pre), NEW s \in DbScope, NEW m \in Nat, m < pre[k].vers[s]
      PROVE  \E j \in 1..Len(pre) : j <= k /\ pre[j].scope = s /\ pre[j].i = m
  <2>1. PICK j \in 1..Len(log) : j <= k /\ log[j].scope = s /\ log[j].i = m
    BY <1>2, <1>5 DEF DbLogOK
  <2>2. j \in 1..Len(pre)
    BY <1>1, <2>1
  <2> QED
    BY <1>2, <2>1, <2>2
<1>6. ASSUME NEW k \in 1..Len(pre), pre[k].scope # Framework
      PROVE  \E j \in 1..Len(pre) : j < k /\ pre[j].scope = Framework
  <2>1. PICK j \in 1..Len(log) : j < k /\ log[j].scope = Framework
    BY <1>2, <1>6 DEF DbLogOK
  <2>2. j \in 1..Len(pre)
    BY <1>1, <2>1
  <2> QED
    BY <1>2, <2>1, <2>2
<1> QED
  BY <1>1, <1>3, <1>4, <1>5, <1>6 DEF DbLogOK, pre

\* A commit of the migration the file is at.
LEMMA AppendOK ==
  ASSUME dbLog \in Seq(DbEntries), DbLogOK(dbLog),
         NEW s \in DbScope, s # Framework => DbVers[Framework] > 0,
         NEW e, e = [scope |-> s, i |-> DbVers[s],
                     vers |-> [DbVers EXCEPT ![s] = DbVers[s] + 1]]
  PROVE  Append(dbLog, e) \in Seq(DbEntries) /\ DbLogOK(Append(dbLog, e))
<1> DEFINE new == Append(dbLog, e)
           N == Len(dbLog)
<1>1. DbVers \in [DbScope -> Nat]
  BY VersType
<1>2. e \in DbEntries /\ e.scope = s /\ e.i = DbVers[s]
  BY <1>1 DEF DbEntries
<1>3. \A t \in DbScope : e.vers[t] = IF t = s THEN DbVers[s] + 1 ELSE DbVers[t]
  BY <1>1
<1>4. new \in Seq(DbEntries) /\ N \in Nat /\ Len(new) = N + 1 /\ new[N + 1] = e
  BY <1>2
<1>5. \A j \in 1..N : new[j] = dbLog[j] /\ dbLog[j] \in DbEntries
  OBVIOUS
<1>6. \A j \in 1..N : dbLog[j].i \in Nat /\ dbLog[j].scope \in DbScope
                      /\ dbLog[j].i < DbVers[dbLog[j].scope]
  <2> TAKE j \in 1..N
  <2>1. N \in 1..N /\ j <= N /\ dbLog # <<>>
    OBVIOUS
  <2>2. DbVers = dbLog[N].vers
    BY <2>1 DEF DbVers
  <2>3. dbLog[j].i < dbLog[N].vers[dbLog[j].scope]
    BY <2>1 DEF DbLogOK
  <2> QED
    BY <1>5, <2>2, <2>3 DEF DbEntries
<1>7. ASSUME NEW t \in DbScope, NEW n \in Nat, n < DbVers[t]
      PROVE  \E j \in 1..N : dbLog[j].scope = t /\ dbLog[j].i = n
  <2>1. dbLog # <<>>
    BY <1>7 DEF DbVers
  <2>2. N \in 1..N /\ DbVers = dbLog[N].vers
    BY <2>1 DEF DbVers
  <2> QED
    BY <1>7, <2>2 DEF DbLogOK
<1> HIDE DEF new, N
<1>8. ASSUME NEW j \in 1..Len(new), NEW k \in 1..Len(new), j <= k
      PROVE  new[j].i < new[k].vers[new[j].scope]
  <2>1. CASE k \in 1..N
    <3>1. j \in 1..N
      BY <1>4, <1>8, <2>1
    <3> QED
      BY <1>5, <1>8, <2>1, <3>1 DEF DbLogOK, N
  <2>2. CASE k = N + 1 /\ j \in 1..N
    <3>1. new[j] = dbLog[j] /\ new[k] = e /\ dbLog[j].scope \in DbScope
      BY <1>4, <1>5, <1>6, <2>2
    <3>2. e.vers[dbLog[j].scope] >= DbVers[dbLog[j].scope]
      BY <1>1, <1>3, <3>1
    <3>3. DbVers[dbLog[j].scope] \in Nat /\ e.vers[dbLog[j].scope] \in Nat
      BY <1>1, <1>3, <3>1
    <3> QED
      BY <1>6, <2>2, <3>1, <3>2, <3>3
  <2>3. CASE k = N + 1 /\ j = N + 1
    BY <1>1, <1>2, <1>3, <1>4, <2>3
  <2> QED
    BY <1>4, <2>1, <2>2, <2>3
<1>9. ASSUME NEW j \in 1..Len(new), NEW k \in 1..Len(new), j < k,
             new[j].scope = new[k].scope
      PROVE  new[j].i < new[k].i
  <2>1. j \in 1..N
    BY <1>4, <1>9
  <2>2. CASE k \in 1..N
    BY <1>5, <1>9, <2>1, <2>2 DEF DbLogOK, N
  <2>3. CASE k = N + 1
    BY <1>2, <1>4, <1>5, <1>6, <1>9, <2>1, <2>3
  <2> QED
    BY <1>4, <2>2, <2>3
<1>10. ASSUME NEW k \in 1..Len(new), NEW t \in DbScope, NEW n \in Nat,
              n < new[k].vers[t]
       PROVE  \E j \in 1..Len(new) : j <= k /\ new[j].scope = t /\ new[j].i = n
  <2>1. CASE k \in 1..N
    <3>1. PICK j \in 1..N : j <= k /\ dbLog[j].scope = t /\ dbLog[j].i = n
      BY <1>5, <1>10, <2>1 DEF DbLogOK, N
    <3> QED
      BY <1>4, <1>5, <3>1
  <2>2. CASE k = N + 1 /\ n < DbVers[t]
    <3>1. PICK j \in 1..N : dbLog[j].scope = t /\ dbLog[j].i = n
      BY <1>7, <2>2
    <3>2. j \in 1..Len(new) /\ j <= k /\ new[j] = dbLog[j]
      BY <1>4, <1>5, <2>2
    <3> QED
      BY <3>1, <3>2
  <2>3. CASE k = N + 1 /\ ~(n < DbVers[t])
    <3>1. t = s /\ n = DbVers[s]
      BY <1>1, <1>3, <1>4, <1>10, <2>3
    <3>2. N + 1 \in 1..Len(new) /\ new[N + 1].scope = t /\ new[N + 1].i = n
      BY <1>2, <1>4, <3>1
    <3> QED
      BY <1>4, <2>3, <3>2
  <2> QED
    BY <1>4, <2>1, <2>2, <2>3
<1>11. ASSUME NEW k \in 1..Len(new), new[k].scope # Framework
       PROVE  \E j \in 1..Len(new) : j < k /\ new[j].scope = Framework
  <2>1. CASE k \in 1..N
    <3>1. PICK j \in 1..N : j < k /\ dbLog[j].scope = Framework
      BY <1>5, <1>11, <2>1 DEF DbLogOK, N
    <3> QED
      BY <1>4, <1>5, <3>1
  <2>2. CASE k = N + 1
    <3>1. 0 < DbVers[Framework] /\ Framework \in DbScope
      BY <1>2, <1>4, <1>11, <2>2, KnownType
    <3>2. PICK j \in 1..N : dbLog[j].scope = Framework /\ dbLog[j].i = 0
      BY <1>7, <3>1
    <3> QED
      BY <1>4, <1>5, <2>2, <3>2
  <2> QED
    BY <1>4, <2>1, <2>2
<1> QED
  BY <1>4, <1>8, <1>9, <1>10, <1>11 DEF DbLogOK, new

-----------------------------------------------------------------------------
(* The steps of the processes *)

LEMMA InvInit == DbInit => DbInv
<1> SUFFICES ASSUME DbInit PROVE DbInv
  OBVIOUS
<1>1. DbTypes
  BY KnownType DEF DbInit, DbTypes, DbPcs
<1>2. DbLogOK(dbLog)
  BY DEF DbInit, DbLogOK
<1>3. \A p \in DbProc : DbCallOK(p)
  BY DEF DbInit, DbCallOK
<1> QED
  BY <1>1, <1>2, <1>3 DEF DbInv

\* A step that leaves the log alone leaves the versions alone.
LEMMA SameVers == dbLog' = dbLog => DbVers' = DbVers
  BY DEF DbVers

\* A process that takes no step keeps its invariant when the versions do not go
\* back and nobody takes its lock.
LEMMA OtherOK ==
  ASSUME NEW q \in DbProc, DbCallOK(q), DbVers \in [DbScope -> Nat],
         DbVers' \in [DbScope -> Nat],
         \A s \in DbScope : DbVers[s] <= DbVers'[s],
         dbPc[q] = "commit" => DbVers' = DbVers,
         dbPc[q] \in {"tx", "commit"} => dbLock' = dbLock,
         dbScope[q] \in DbScope, dbStore[q] \in DbScope, dbIdx[q] \in Nat,
         dbPc'[q] = dbPc[q], dbScope'[q] = dbScope[q], dbStore'[q] = dbStore[q],
         dbIdx'[q] = dbIdx[q], dbOpen'[q] = dbOpen[q], dbNewer'[q] = dbNewer[q]
  PROVE  DbCallOK(q)'
<1>1. DbHasFramework(q) => DbHasFramework(q)'
  BY KnownType DEF DbHasFramework
<1>2. dbIdx[q] <= DbVers[dbScope[q]] => dbIdx'[q] <= DbVers'[dbScope'[q]]
  OBVIOUS
<1>3. DbVers[dbStore[q]] > DbKnown[q][dbStore[q]]
        => DbVers'[dbStore'[q]] > DbKnown[q][dbStore'[q]]
  BY KnownType
<1> QED
  BY <1>1, <1>2, <1>3 DEF DbCallOK

\* A process whose call is over.
LEMMA IdleOK ==
  ASSUME NEW q \in DbProc, dbPc'[q] = "idle", dbScope'[q] = Framework,
         dbOpen'[q] => DbHasFramework(q)'
  PROVE  DbCallOK(q)'
  BY DEF DbCallOK

LEMMA EndTypes ==
  ASSUME DbTypes, NEW P \in SUBSET DbProc, DbEndOfCall(P)
  PROVE  /\ dbPc' \in [DbProc -> DbPcs]
         /\ dbScope' \in [DbProc -> DbScope]
         /\ dbStore' \in [DbProc -> DbScope]
         /\ dbIdx' \in [DbProc -> Nat]
         /\ dbNewer' \in [DbProc -> BOOLEAN]
<1>1. dbPc' \in [DbProc -> DbPcs]
  BY DEF DbTypes, DbEndOfCall, DbPcs
<1>2. dbScope' \in [DbProc -> DbScope]
  BY KnownType DEF DbTypes, DbEndOfCall
<1>3. dbStore' \in [DbProc -> DbScope]
  BY KnownType DEF DbTypes, DbEndOfCall
<1>4. dbIdx' \in [DbProc -> Nat]
  BY DEF DbTypes, DbEndOfCall
<1>5. dbNewer' \in [DbProc -> BOOLEAN]
  BY DEF DbTypes, DbEndOfCall
<1> QED
  BY <1>1, <1>2, <1>3, <1>4, <1>5

\* The end of a call, by an error or a death, with the file as it is.
LEMMA EndKeeps ==
  ASSUME DbInv, NEW p \in DbProc, DbEndOfCall({p}), UNCHANGED <<dbLog, dbDurable>>,
         dbLock' = dbLock \ {p} \/ dbLock' = dbLock,
         dbOpen' \in [DbProc -> BOOLEAN], dbCached' \in [DbProc -> SUBSET DbModule],
         \A q \in DbProc : dbOpen'[q] => dbOpen[q],
         \A q \in DbProc : q # p => dbOpen'[q] = dbOpen[q]
  PROVE  DbInv'
<1>1. DbTypes'
  BY EndTypes DEF DbInv, DbTypes
<1>2. DbVers' = DbVers /\ DbVers \in [DbScope -> Nat]
  BY SameVers, VersType DEF DbInv, DbTypes
<1>3. DbCallOK(p)'
  <2>1. dbPc'[p] = "idle" /\ dbScope'[p] = Framework
    BY DEF DbEndOfCall
  <2>2. dbOpen'[p] => DbHasFramework(p)'
    BY <1>2 DEF DbInv, DbCallOK, DbHasFramework
  <2> QED
    BY <2>1, <2>2, IdleOK
<1>4. ASSUME NEW q \in DbProc, q # p PROVE DbCallOK(q)'
  <2>1. /\ dbPc'[q] = dbPc[q] /\ dbScope'[q] = dbScope[q] /\ dbStore'[q] = dbStore[q]
        /\ dbIdx'[q] = dbIdx[q]
    BY <1>4 DEF DbEndOfCall
  <2>2. dbNewer'[q] = dbNewer[q]
    BY <1>4 DEF DbEndOfCall, DbInv, DbTypes
  <2>3. dbPc[q] \in {"tx", "commit"} => dbLock' = dbLock
    BY <1>4 DEF DbInv, DbCallOK
  <2>4. dbScope[q] \in DbScope /\ dbStore[q] \in DbScope /\ dbIdx[q] \in Nat
    BY DEF DbInv, DbTypes
  <2>5. \A s \in DbScope : DbVers[s] <= DbVers'[s]
    BY <1>2
  <2>6. DbCallOK(q) /\ DbVers' \in [DbScope -> Nat] /\ dbOpen'[q] = dbOpen[q]
    BY <1>2, <1>4 DEF DbInv
  <2> QED
    BY <1>2, <2>1, <2>2, <2>3, <2>4, <2>5, <2>6, OtherOK
<1> QED
  BY <1>1, <1>3, <1>4 DEF DbInv

\* A step of p that leaves the log alone: what is left to show is p's own part.
LEMMA StepKeeps ==
  ASSUME DbInv, NEW p \in DbProc, UNCHANGED <<dbLog, dbDurable>>, DbTypes',
         \A q \in DbProc : q # p =>
           /\ dbPc'[q] = dbPc[q] /\ dbScope'[q] = dbScope[q]
           /\ dbStore'[q] = dbStore[q] /\ dbIdx'[q] = dbIdx[q]
           /\ dbOpen'[q] = dbOpen[q] /\ dbNewer'[q] = dbNewer[q]
           /\ dbPc[q] \in {"tx", "commit"} => dbLock' = dbLock,
         DbCallOK(p)'
  PROVE  DbInv'
<1>1. DbVers' = DbVers /\ DbVers \in [DbScope -> Nat]
  BY SameVers, VersType DEF DbInv, DbTypes
<1>2. ASSUME NEW q \in DbProc, q # p PROVE DbCallOK(q)'
  <2>1. dbScope[q] \in DbScope /\ dbStore[q] \in DbScope /\ dbIdx[q] \in Nat
    BY DEF DbInv, DbTypes
  <2>2. \A s \in DbScope : DbVers[s] <= DbVers'[s]
    BY <1>1
  <2>3. DbCallOK(q)
    BY DEF DbInv
  <2> QED
    BY <1>1, <1>2, <2>1, <2>2, <2>3, OtherOK
<1> QED
  BY <1>2 DEF DbInv

LEMMA ErrorStep ==
  ASSUME DbInv, NEW p \in DbProc, DbReturnError(p) PROVE DbInv'
<1>1. dbOpen' = dbOpen /\ dbCached' = dbCached /\ dbOpen \in [DbProc -> BOOLEAN]
        /\ dbCached \in [DbProc -> SUBSET DbModule]
  BY DEF DbReturnError, DbInv, DbTypes
<1> QED
  BY <1>1, EndKeeps DEF DbReturnError

LEMMA StoreCallStep ==
  ASSUME DbInv, NEW p \in DbProc, NEW m \in DbModule, DbStoreCall(p, m) PROVE DbInv'
<1>1. UNCHANGED <<dbLog, dbDurable, dbLock>> /\ m \in DbScope /\ m # Framework
        /\ Framework \in DbScope
  BY KnownType DEF DbStoreCall, dbFile
<1>2. DbVers' = DbVers /\ DbVers \in [DbScope -> Nat]
  BY <1>1, SameVers, VersType DEF DbInv, DbTypes
<1>3. (DbVers[m] > DbKnown[p][m]) \in BOOLEAN
  OBVIOUS
<1>4. DbTypes'
  <2>1. dbPc' \in [DbProc -> DbPcs]
    BY DEF DbStoreCall, DbInv, DbTypes, DbPcs
  <2>2. dbScope' \in [DbProc -> DbScope]
    BY <1>1 DEF DbStoreCall, DbInv, DbTypes
  <2>3. dbStore' \in [DbProc -> DbScope]
    BY <1>1 DEF DbStoreCall, DbInv, DbTypes
  <2>4. dbNewer' \in [DbProc -> BOOLEAN]
    BY <1>3 DEF DbStoreCall, DbInv, DbTypes
  <2> QED
    BY <1>1, <2>1, <2>2, <2>3, <2>4 DEF DbStoreCall, DbInv, DbTypes
<1>5. /\ dbPc'[p] \in {"read", "connect"} /\ dbStore'[p] = m
      /\ dbScope'[p] = IF dbOpen[p] THEN m ELSE Framework
      /\ dbNewer'[p] = (DbVers[m] > DbKnown[p][m])
      /\ dbOpen'[p] = dbOpen[p]
  BY DEF DbStoreCall, DbInv, DbTypes
<1>6. dbOpen[p] => DbHasFramework(p)'
  BY <1>2 DEF DbInv, DbCallOK, DbHasFramework
<1>7. dbNewer'[p] => DbVers'[dbStore'[p]] > DbKnown[p][dbStore'[p]]
  BY <1>2, <1>5
<1>8. DbCallOK(p)'
  BY <1>1, <1>5, <1>6, <1>7 DEF DbCallOK
<1>9. \A q \in DbProc : q # p =>
        /\ dbPc'[q] = dbPc[q] /\ dbScope'[q] = dbScope[q]
        /\ dbStore'[q] = dbStore[q] /\ dbIdx'[q] = dbIdx[q]
        /\ dbOpen'[q] = dbOpen[q] /\ dbNewer'[q] = dbNewer[q]
  BY DEF DbStoreCall, DbInv, DbTypes
<1> QED
  BY <1>1, <1>4, <1>8, <1>9, StepKeeps

\* A step of p that changes no more than its pc, its idx and the lock.
LEMMA LoopKeeps ==
  ASSUME DbInv, NEW p \in DbProc, NEW pc \in DbPcs, NEW i \in Nat,
         UNCHANGED <<dbLog, dbDurable, dbScope, dbStore, dbOpen, dbCached, dbNewer>>,
         dbPc[p] # "idle",
         dbPc' = [dbPc EXCEPT ![p] = pc], dbIdx' = [dbIdx EXCEPT ![p] = i],
         \A q \in DbProc : q # p /\ dbPc[q] \in {"tx", "commit"} => dbLock' = dbLock,
         pc \in {"tx", "commit"} => dbLock' = {p},
         pc \in {"begin", "tx", "commit"} => i <= DbVers[dbScope[p]],
         pc = "commit" => i = DbVers[dbScope[p]],
         pc \in {"begin", "tx", "commit"} /\ dbScope[p] # Framework => ~dbNewer[p]
  PROVE  DbInv'
<1>1. DbVers' = DbVers
  BY SameVers
<1>2. DbTypes'
  <2>1. dbPc' \in [DbProc -> DbPcs] /\ dbIdx' \in [DbProc -> Nat]
    BY DEF DbInv, DbTypes
  <2> QED
    BY <2>1 DEF DbInv, DbTypes
<1>3. dbPc'[p] = pc /\ dbIdx'[p] = i /\ dbScope'[p] = dbScope[p]
        /\ dbStore'[p] = dbStore[p] /\ dbNewer'[p] = dbNewer[p] /\ dbOpen'[p] = dbOpen[p]
  BY DEF DbInv, DbTypes
<1>4. DbHasFramework(p)' <=> DbHasFramework(p)
  BY <1>1 DEF DbHasFramework
<1>5. DbCallOK(p)
  BY DEF DbInv
<1>6. DbCallOK(p)'
  BY <1>1, <1>3, <1>4, <1>5 DEF DbCallOK
<1>7. \A q \in DbProc : q # p => dbPc'[q] = dbPc[q] /\ dbIdx'[q] = dbIdx[q]
  BY DEF DbInv, DbTypes
<1> QED
  BY <1>2, <1>6, <1>7, StepKeeps

\* A step that does not touch the loop's index.
LEMMA SameIdx ==
  ASSUME DbInv, NEW p \in DbProc, dbIdx' = dbIdx
  PROVE  dbIdx' = [dbIdx EXCEPT ![p] = dbIdx[p]] /\ dbIdx[p] \in Nat
  BY DEF DbInv, DbTypes

\* What is known of p when it is about to move.
LEMMA Mine ==
  ASSUME DbInv, NEW p \in DbProc
  PROVE  /\ DbCallOK(p) /\ DbVers \in [DbScope -> Nat]
         /\ dbScope[p] \in DbScope /\ dbStore[p] \in DbScope /\ dbIdx[p] \in Nat
         /\ \A s \in DbScope : DbKnown[p][s] \in Nat /\ DbVers[s] \in Nat
  BY VersType, KnownType DEF DbInv, DbTypes

\* Only one process is between the write lock and the end of its transaction.
LEMMA OneHolder ==
  ASSUME DbInv, NEW p \in DbProc, dbPc[p] \in {"tx", "commit"}
  PROVE  \A q \in DbProc : q # p => dbPc[q] \notin {"tx", "commit"}
  BY DEF DbInv, DbCallOK

LEMMA ConnectStep ==
  ASSUME DbInv, NEW p \in DbProc, DbConnect(p) PROVE DbInv'
<1> USE DEF DbConnect
<1>1. PICK pc \in {"read", "switch"} : dbPc' = [dbPc EXCEPT ![p] = pc]
  OBVIOUS
<1>2. pc \in DbPcs /\ pc \notin {"begin", "tx", "commit"} /\ dbPc[p] # "idle"
  BY DEF DbPcs
<1> QED
  BY <1>1, <1>2, SameIdx, LoopKeeps

LEMMA SwitchStep ==
  ASSUME DbInv, NEW p \in DbProc, DbSwitchToWal(p) PROVE DbInv'
<1>1. "read" \in DbPcs
  BY DEF DbPcs
<1> QED
  BY <1>1, SameIdx, LoopKeeps DEF DbSwitchToWal

LEMMA BusyStep ==
  ASSUME DbInv, NEW p \in DbProc, DbBusy(p) PROVE DbInv'
<1>1. CASE dbPc' = [dbPc EXCEPT ![p] = "connect"]
           /\ UNCHANGED <<dbFile, dbScope, dbStore, dbIdx, dbOpen, dbClosed,
                          dbCached, dbNewer, dbCrashes>>
  <2>1. "connect" \in DbPcs
    BY DEF DbPcs
  <2>2. dbPc[p] # "idle"
    BY DEF DbBusy
  <2> QED
    BY <1>1, <2>1, <2>2, SameIdx, LoopKeeps DEF dbFile
<1>2. CASE DbReturnError(p)
  BY <1>2, ErrorStep
<1> QED
  BY <1>1, <1>2 DEF DbBusy

LEMMA ReadStep ==
  ASSUME DbInv, NEW p \in DbProc, DbReadVersion(p) PROVE DbInv'
<1>1. CASE DbReturnError(p)
  BY <1>1, ErrorStep
<1>2. CASE ~(DbVers[dbScope[p]] > DbKnown[p][dbScope[p]])
  <2>1. /\ dbIdx' = [dbIdx EXCEPT ![p] = DbVers[dbScope[p]]]
        /\ dbPc' = [dbPc EXCEPT ![p] = "begin"]
        /\ UNCHANGED <<dbLog, dbDurable, dbLock, dbScope, dbStore, dbOpen, dbCached,
                       dbNewer>>
        /\ dbPc[p] = "read"
    BY <1>2 DEF DbReadVersion, dbFile
  <2>2. "begin" \in DbPcs
    BY DEF DbPcs
  <2>3. DbVers[dbScope[p]] \in Nat /\ DbVers[dbScope[p]] <= DbVers[dbScope[p]]
    BY Mine
  <2>4. dbScope[p] # Framework => ~dbNewer[p]
    BY <1>2, <2>1, Mine DEF DbCallOK
  <2> QED
    BY <2>1, <2>2, <2>3, <2>4, LoopKeeps
<1> QED
  BY <1>1, <1>2 DEF DbReadVersion

LEMMA BeginStep ==
  ASSUME DbInv, NEW p \in DbProc, DbBegin(p) PROVE DbInv'
<1>1. "tx" \in DbPcs /\ dbLock' = {p} /\ dbLock = {} /\ dbPc[p] = "begin"
        /\ UNCHANGED <<dbLog, dbDurable, dbScope, dbStore, dbOpen, dbCached, dbNewer>>
        /\ dbPc' = [dbPc EXCEPT ![p] = "tx"] /\ dbIdx' = dbIdx
  BY DEF DbPcs, DbBegin
<1>2. \A q \in DbProc : dbPc[q] \notin {"tx", "commit"}
  BY <1>1 DEF DbInv, DbCallOK
<1>3. dbIdx[p] <= DbVers[dbScope[p]] /\ (dbScope[p] # Framework => ~dbNewer[p])
  BY <1>1, Mine DEF DbCallOK
<1> QED
  BY <1>1, <1>2, <1>3, SameIdx, LoopKeeps

LEMMA SkipStep ==
  ASSUME DbInv, NEW p \in DbProc, DbSkip(p) PROVE DbInv'
<1>1. "begin" \in DbPcs /\ dbPc[p] = "tx" /\ DbVers[dbScope[p]] # dbIdx[p]
        /\ UNCHANGED <<dbLog, dbDurable, dbScope, dbStore, dbOpen, dbCached, dbNewer>>
        /\ dbPc' = [dbPc EXCEPT ![p] = "begin"]
        /\ dbIdx' = [dbIdx EXCEPT ![p] = dbIdx[p] + 1]
  BY DEF DbPcs, DbSkip
<1>2. dbIdx[p] + 1 \in Nat /\ dbIdx[p] + 1 <= DbVers[dbScope[p]]
        /\ (dbScope[p] # Framework => ~dbNewer[p])
  BY <1>1, Mine DEF DbCallOK
<1> QED
  BY <1>1, <1>2, OneHolder, LoopKeeps

LEMMA ExecStep ==
  ASSUME DbInv, NEW p \in DbProc, DbExec(p) PROVE DbInv'
<1>1. "commit" \in DbPcs /\ dbPc[p] = "tx" /\ DbVers[dbScope[p]] = dbIdx[p]
        /\ UNCHANGED <<dbLog, dbDurable, dbLock, dbScope, dbStore, dbOpen, dbCached,
                       dbNewer>>
        /\ dbPc' = [dbPc EXCEPT ![p] = "commit"] /\ dbIdx' = dbIdx
  BY DEF DbPcs, DbExec, dbFile
<1>2. dbLock = {p} /\ dbIdx[p] <= DbVers[dbScope[p]]
        /\ (dbScope[p] # Framework => ~dbNewer[p])
  BY <1>1, Mine DEF DbCallOK
<1> QED
  BY <1>1, <1>2, SameIdx, LoopKeeps

LEMMA CommitStep ==
  ASSUME DbInv, NEW p \in DbProc, DbCommit(p) PROVE DbInv'
<1> DEFINE s == dbScope[p]
           e == [scope |-> s, i |-> DbVers[s],
                 vers |-> [DbVers EXCEPT ![s] = DbVers[s] + 1]]
<1>1. dbPc[p] = "commit" /\ dbIdx[p] = DbVers[s] /\ s \in DbScope
        /\ (s # Framework => DbVers[Framework] > 0)
        /\ dbLog \in Seq(DbEntries) /\ DbLogOK(dbLog)
  <2>1. dbPc[p] = "commit" /\ DbCallOK(p) /\ s \in DbScope
    BY Mine DEF DbCommit
  <2>2. s # Framework => DbVers[Framework] > 0
    <3>1. DbKnown[p][Framework] > 0 /\ DbKnown[p][Framework] \in Nat
            /\ DbVers[Framework] \in Nat
      BY Mine, KnownType
    <3> QED
      BY <2>1, <3>1 DEF DbCallOK, DbHasFramework
  <2>3. dbIdx[p] = DbVers[s]
    BY <2>1 DEF DbCallOK
  <2> QED
    BY <2>1, <2>2, <2>3 DEF DbInv, DbTypes
<1>2. dbLog' = Append(dbLog, e)
  BY <1>1 DEF DbCommit
<1>3. dbLog' \in Seq(DbEntries) /\ DbLogOK(dbLog')
  BY <1>1, <1>2, AppendOK
<1>4. Len(dbLog') = Len(dbLog) + 1 /\ dbLog'[Len(dbLog) + 1] = e /\ Len(dbLog) \in Nat
  BY <1>1, <1>2
<1>5. DbVers' = e.vers
  BY <1>2, <1>4 DEF DbVers
<1>6. DbVers' \in [DbScope -> Nat] /\ DbVers'[s] = DbVers[s] + 1
        /\ \A t \in DbScope : DbVers[t] <= DbVers'[t]
  BY <1>1, <1>5, Mine
<1>7. DbTypes'
  <2>1. dbPc' \in [DbProc -> DbPcs] /\ dbIdx' \in [DbProc -> Nat]
    BY DEF DbCommit, DbInv, DbTypes, DbPcs
  <2>2. dbDurable' \in 0..Len(dbLog')
    BY <1>4 DEF DbCommit, DbInv, DbTypes
  <2> QED
    BY <1>3, <2>1, <2>2 DEF DbCommit, DbInv, DbTypes
<1>8. DbCallOK(p)'
  <2>1. dbPc'[p] = "begin" /\ dbIdx'[p] = dbIdx[p] + 1 /\ dbScope' = dbScope
          /\ dbStore' = dbStore /\ dbNewer' = dbNewer /\ dbOpen' = dbOpen
    BY DEF DbCommit, DbInv, DbTypes
  <2>2. DbCallOK(p)
    BY DEF DbInv
  <2>3. dbIdx'[p] <= DbVers'[dbScope'[p]]
    BY <1>1, <1>6, <2>1, Mine
  <2>4. DbHasFramework(p) => DbHasFramework(p)'
    BY <1>6, Mine, KnownType DEF DbHasFramework
  <2>5. dbNewer'[p] => DbVers'[dbStore'[p]] > DbKnown[p][dbStore'[p]]
    BY <1>1, <1>6, <2>1, <2>2, Mine DEF DbCallOK
  <2> QED
    BY <1>1, <2>1, <2>2, <2>3, <2>4, <2>5 DEF DbCallOK
<1>9. ASSUME NEW q \in DbProc, q # p PROVE DbCallOK(q)'
  <2>1. dbPc'[q] = dbPc[q] /\ dbScope'[q] = dbScope[q] /\ dbStore'[q] = dbStore[q]
          /\ dbIdx'[q] = dbIdx[q] /\ dbOpen'[q] = dbOpen[q] /\ dbNewer'[q] = dbNewer[q]
    BY <1>9 DEF DbCommit, DbInv, DbTypes
  <2>2. dbPc[q] \notin {"tx", "commit"}
    BY <1>1, <1>9, OneHolder
  <2> QED
    BY <1>6, <2>1, <2>2, Mine, OtherOK
<1> QED
  BY <1>3, <1>7, <1>8, <1>9 DEF DbInv

LEMMA OpenedStep ==
  ASSUME DbInv, NEW p \in DbProc, DbOpened(p) PROVE DbInv'
<1>1. UNCHANGED <<dbLog, dbDurable, dbLock, dbStore, dbIdx, dbCached, dbNewer>>
        /\ dbPc[p] = "begin" /\ dbScope[p] = Framework
        /\ dbIdx[p] >= DbKnown[p][Framework]
  BY DEF DbOpened, dbFile
<1>2. DbVers' = DbVers
  BY <1>1, SameVers
<1>3. DbTypes'
  <2>1. dbPc' \in [DbProc -> DbPcs] /\ dbOpen' \in [DbProc -> BOOLEAN]
    BY DEF DbOpened, DbInv, DbTypes, DbPcs
  <2>2. dbScope' \in [DbProc -> DbScope]
    BY Mine DEF DbOpened, DbInv, DbTypes
  <2> QED
    BY <1>1, <2>1, <2>2 DEF DbInv, DbTypes
<1>4. DbHasFramework(p)'
  BY <1>1, <1>2, Mine, KnownType DEF DbCallOK, DbHasFramework
<1>5. dbPc'[p] = "read" /\ dbScope'[p] = dbStore[p]
  BY DEF DbOpened, DbInv, DbTypes
<1>6. DbCallOK(p)'
  BY <1>1, <1>2, <1>4, <1>5, Mine DEF DbCallOK
<1>7. \A q \in DbProc : q # p => dbPc'[q] = dbPc[q] /\ dbScope'[q] = dbScope[q]
                                 /\ dbOpen'[q] = dbOpen[q]
  BY DEF DbOpened, DbInv, DbTypes
<1> QED
  BY <1>1, <1>3, <1>6, <1>7, StepKeeps

LEMMA StoredStep ==
  ASSUME DbInv, NEW p \in DbProc, DbStored(p) PROVE DbInv'
<1>1. UNCHANGED <<dbLog, dbDurable, dbLock, dbOpen>> /\ DbEndOfCall({p})
  BY DEF DbStored, dbFile
<1>2. dbScope[p] \in DbModule /\ dbOpen \in [DbProc -> BOOLEAN]
  BY Mine DEF DbStored, DbScope, DbInv, DbTypes
<1>3. dbCached' \in [DbProc -> SUBSET DbModule]
  BY <1>2 DEF DbStored, DbInv, DbTypes
<1> QED
  BY <1>1, <1>2, <1>3, EndKeeps

LEMMA CloseStep ==
  ASSUME DbInv, NEW p \in DbProc, DbClose(p) PROVE DbInv'
<1>1. UNCHANGED <<dbLog, dbLock, dbPc, dbScope, dbStore, dbIdx, dbCached, dbNewer>>
  BY DEF DbClose
<1>2. DbTypes'
  <2>1. dbOpen' \in [DbProc -> BOOLEAN]
    BY DEF DbClose, DbInv, DbTypes
  <2>2. dbDurable' \in 0..Len(dbLog')
    <3>1. Len(dbLog) \in Nat
      BY DEF DbInv, DbTypes
    <3> QED
      BY <1>1, <3>1 DEF DbClose, DbInv, DbTypes
  <2> QED
    BY <1>1, <2>1, <2>2 DEF DbInv, DbTypes
<1>3. \A q \in DbProc : dbOpen'[q] => dbOpen[q]
  BY DEF DbClose, DbInv, DbTypes
<1>4. DbVers' = DbVers
  BY <1>1, SameVers
<1>5. \A q \in DbProc : DbCallOK(q)'
  BY <1>1, <1>3, <1>4 DEF DbInv, DbCallOK, DbHasFramework
<1> QED
  BY <1>1, <1>2, <1>5 DEF DbInv

LEMMA FreshStep ==
  ASSUME DbInv, NEW p \in DbProc, DbFresh({p}), UNCHANGED <<dbLog, dbDurable>>
  PROVE  DbInv'
<1>1. dbOpen' \in [DbProc -> BOOLEAN]
  BY DEF DbFresh, DbInv, DbTypes
<1>2. dbCached' \in [DbProc -> SUBSET DbModule]
  BY DEF DbFresh, DbInv, DbTypes
<1>3. \A q \in DbProc : (dbOpen'[q] => dbOpen[q]) /\ (q # p => dbOpen'[q] = dbOpen[q])
  BY DEF DbFresh, DbInv, DbTypes
<1> QED
  BY <1>1, <1>2, <1>3, EndKeeps DEF DbFresh

LEMMA PowerLossStep ==
  ASSUME DbInv, DbPowerLoss PROVE DbInv'
<1>1. PICK n \in dbDurable..Len(dbLog) : dbLog' = SubSeq(dbLog, 1, n) /\ dbDurable' = n
  BY DEF DbPowerLoss
<1>2. n \in 0..Len(dbLog)
  BY <1>1 DEF DbInv, DbTypes
<1>3. dbLog' \in Seq(DbEntries) /\ DbLogOK(dbLog') /\ dbDurable' \in 0..Len(dbLog')
  BY <1>1, <1>2, PrefixOK DEF DbInv, DbTypes
<1>4. DbTypes'
  <2>1. dbOpen' \in [DbProc -> BOOLEAN]
    BY DEF DbPowerLoss, DbFresh, DbInv, DbTypes
  <2>2. dbCached' \in [DbProc -> SUBSET DbModule]
    BY DEF DbPowerLoss, DbFresh, DbInv, DbTypes
  <2>3. DbProc \in SUBSET DbProc /\ DbEndOfCall(DbProc)
    BY DEF DbPowerLoss, DbFresh
  <2> QED
    BY <1>3, <2>1, <2>2, <2>3, EndTypes DEF DbInv, DbTypes
<1>5. \A q \in DbProc : dbPc'[q] = "idle" /\ dbScope'[q] = Framework /\ ~dbOpen'[q]
  BY DEF DbPowerLoss, DbFresh, DbEndOfCall
<1> QED
  BY <1>3, <1>4, <1>5, IdleOK DEF DbInv

LEMMA InvStep == DbInv /\ [DbNext]_dbVars => DbInv'
<1> SUFFICES ASSUME DbInv, [DbNext]_dbVars PROVE DbInv'
  OBVIOUS
<1>1. ASSUME NEW p \in DbProc, NEW m \in DbModule, DbStoreCall(p, m) PROVE DbInv'
  BY <1>1, StoreCallStep
<1>2. ASSUME NEW p \in DbProc, DbStep(p) PROVE DbInv'
  BY <1>2, ConnectStep, SwitchStep, BusyStep, ReadStep, BeginStep, SkipStep, ExecStep,
     CommitStep, OpenedStep, StoredStep DEF DbStep
<1>3. ASSUME NEW p \in DbProc, DbFails(p) PROVE DbInv'
  BY <1>3, ErrorStep DEF DbFails
<1>4. ASSUME NEW p \in DbProc, DbClose(p) PROVE DbInv'
  BY <1>4, CloseStep
<1>5. ASSUME NEW p \in DbProc, DbNew(p) PROVE DbInv'
  BY <1>5, FreshStep DEF DbNew
<1>6. ASSUME NEW p \in DbProc, DbCrash(p) PROVE DbInv'
  BY <1>6, FreshStep DEF DbCrash
<1>7. CASE DbPowerLoss
  BY <1>7, PowerLossStep
<1>8. CASE UNCHANGED dbVars
  <2>1. UNCHANGED <<dbFile, dbMgr>> /\ DbVers' = DbVers
    BY <1>8, SameVers DEF dbVars, dbFile
  <2>2. DbTypes'
    BY <2>1 DEF dbFile, dbMgr, DbInv, DbTypes
  <2>3. DbLogOK(dbLog)'
    BY <2>1 DEF dbFile, DbInv
  <2>4. \A p \in DbProc : DbCallOK(p)'
    BY <2>1 DEF dbFile, dbMgr, DbInv, DbCallOK, DbHasFramework
  <2> QED
    BY <2>2, <2>3, <2>4 DEF DbInv
<1> QED
  BY <1>1, <1>2, <1>3, <1>4, <1>5, <1>6, <1>7, <1>8 DEF DbNext

LEMMA DbInvAlways == DbSpec => []DbInv
  BY InvInit, InvStep, PTL DEF DbSpec

-----------------------------------------------------------------------------
(* The theorems *)

LEMMA InvExactlyOnce == DbInv => DbExactlyOnceInOrder
<1> SUFFICES ASSUME DbInv PROVE DbExactlyOnceInOrder
  OBVIOUS
<1> DEFINE N == Len(dbLog)
<1>1. dbLog \in Seq(DbEntries) /\ DbLogOK(dbLog) /\ DOMAIN dbLog = 1..N /\ N \in Nat
        /\ DbVers \in [DbScope -> Nat]
  BY VersType DEF DbInv, DbTypes
<1>2. dbLog # <<>> => N \in 1..N /\ DbVers = dbLog[N].vers
  BY <1>1 DEF DbVers
<1>3. ASSUME NEW j \in DOMAIN dbLog, NEW k \in DOMAIN dbLog, j < k,
             dbLog[j].scope = dbLog[k].scope
      PROVE  dbLog[j].i < dbLog[k].i
  BY <1>1, <1>3 DEF DbLogOK
<1>4. ASSUME NEW s \in DbScope, NEW n \in 0..(DbVers[s] - 1)
      PROVE  \E k \in DOMAIN dbLog : dbLog[k].scope = s /\ dbLog[k].i = n
  <2>1. n \in Nat /\ n < DbVers[s]
    BY <1>1
  <2>2. dbLog # <<>>
    BY <2>1 DEF DbVers
  <2>3. PICK k \in 1..N : k <= N /\ dbLog[k].scope = s /\ dbLog[k].i = n
    BY <1>1, <1>2, <2>1, <2>2 DEF DbLogOK
  <2> QED
    BY <1>1, <2>3
<1>5. ASSUME NEW k \in DOMAIN dbLog PROVE dbLog[k].i < DbVers[dbLog[k].scope]
  <2>1. dbLog # <<>> /\ k <= N
    BY <1>1
  <2> QED
    BY <1>1, <1>2, <2>1 DEF DbLogOK
<1>6. ASSUME NEW k \in DOMAIN dbLog, dbLog[k].scope # Framework
      PROVE  \E j \in DOMAIN dbLog : j < k /\ dbLog[j].scope = Framework
  BY <1>1, <1>6 DEF DbLogOK
<1> QED
  BY <1>3, <1>4, <1>5, <1>6 DEF DbExactlyOnceInOrder

\* For any processes, binaries, modules and lists of migrations, and any number of
\* crashes and power failures: every list has run from its start, in order, each entry
\* once and as far as the version says, the framework's first (runFrameworkMigrations,
\* runModuleMigrations, withImmediateTx).
THEOREM MigrationsRunOnce == DbSpec => []DbExactlyOnceInOrder
<1> QED
  BY DbInvAlways, InvExactlyOnce, PTL

LEMMA CachedStep ==
  ASSUME DbInv, [DbNext]_dbVars, NEW p \in DbProc, NEW m \in dbCached'[p] \ dbCached[p]
  PROVE  /\ DbVers'[Framework] >= DbKnown[p][Framework]
         /\ DbVers'[m] >= DbKnown[p][m]
         /\ ~dbNewer[p]
<1>1. ASSUME NEW q \in DbProc, DbFresh({q}) \/ DbFresh(DbProc) PROVE FALSE
  BY <1>1 DEF DbFresh
<1>2. CASE \E q \in DbProc : DbStored(q)
  <2>1. PICK q \in DbProc : DbStored(q)
    BY <1>2
  <2>2. q = p /\ m = dbScope[p] /\ UNCHANGED dbLog
    BY <2>1 DEF DbStored, DbInv, DbTypes, dbFile
  <2>3. DbVers' = DbVers
    BY <2>2, SameVers
  <2> QED
    BY <2>1, <2>2, <2>3, Mine, KnownType DEF DbStored, DbCallOK, DbHasFramework
<1>3. CASE UNCHANGED dbCached
  BY <1>3
<1>4. \/ UNCHANGED dbCached
      \/ \E q \in DbProc : DbStored(q)
      \/ \E q \in DbProc : DbFresh({q})
      \/ DbFresh(DbProc)
  <2>1. ASSUME NEW q \in DbProc, DbStep(q)
        PROVE  UNCHANGED dbCached \/ DbStored(q)
    BY <2>1 DEF DbStep, DbConnect, DbSwitchToWal, DbBusy, DbReadVersion, DbBegin, DbSkip,
                DbExec, DbCommit, DbOpened, DbReturnError
  <2>2. ASSUME NEW q \in DbProc, NEW n \in DbModule, DbStoreCall(q, n)
        PROVE  UNCHANGED dbCached
    BY <2>2 DEF DbStoreCall
  <2>3. ASSUME NEW q \in DbProc, DbFails(q) \/ DbClose(q)
        PROVE  UNCHANGED dbCached
    BY <2>3 DEF DbFails, DbReturnError, DbClose
  <2>4. ASSUME NEW q \in DbProc, DbNew(q) \/ DbCrash(q) PROVE DbFresh({q})
    BY <2>4 DEF DbNew, DbCrash
  <2>5. CASE DbPowerLoss
    BY <2>5 DEF DbPowerLoss
  <2>6. CASE UNCHANGED dbVars
    BY <2>6 DEF dbVars, dbMgr
  <2> QED
    BY <2>1, <2>2, <2>3, <2>4, <2>5, <2>6 DEF DbNext
<1> QED
  BY <1>1, <1>2, <1>3, <1>4

\* For any processes and binaries: a Store that returns a handle leaves every migration
\* its binary knows in the file, and was not called on a file that is newer than the
\* binary (Store).
THEOREM StoredIsMigrated == DbSpec => DbStoreMeansMigrated
<1>1. DbInv /\ [DbNext]_dbVars =>
        [\A p \in DbProc : \A m \in dbCached'[p] \ dbCached[p] :
           /\ DbVers'[Framework] >= DbKnown[p][Framework]
           /\ DbVers'[m] >= DbKnown[p][m]
           /\ ~dbNewer[p]]_dbVars
  BY CachedStep
<1> QED
  BY <1>1, DbInvAlways, PTL DEF DbSpec, DbStoreMeansMigrated

-----------------------------------------------------------------------------
(* LocalDB implements MigratedStore *)

\* Between calls a process has no module, and it takes the write lock only for a
\* migration that its binary has.
DbExact ==
  \A p \in DbProc :
    /\ dbPc[p] = "idle" => dbStore[p] = Framework
    /\ dbPc[p] \in {"tx", "commit"} => dbIdx[p] < DbKnown[p][dbScope[p]]

LEMMA ExactEnd ==
  ASSUME DbExact, NEW P \in SUBSET DbProc, DbEndOfCall(P) PROVE DbExact'
  BY DEF DbExact, DbEndOfCall

\* A step of p that leaves the other calls alone.
LEMMA ExactOne ==
  ASSUME DbInv, DbExact, NEW p \in DbProc, NEW pc \in {"connect", "switch", "read", "begin"},
         dbPc' = [dbPc EXCEPT ![p] = pc],
         \A q \in DbProc : q # p => /\ dbScope'[q] = dbScope[q] /\ dbStore'[q] = dbStore[q]
                                    /\ dbIdx'[q] = dbIdx[q]
  PROVE  DbExact'
<1>1. dbPc'[p] = pc /\ \A q \in DbProc : q # p => dbPc'[q] = dbPc[q]
  BY DEF DbInv, DbTypes
<1> QED
  BY <1>1 DEF DbExact

LEMMA ExactStep == DbInv /\ DbExact /\ [DbNext]_dbVars => DbExact'
<1> SUFFICES ASSUME DbInv, DbExact, [DbNext]_dbVars PROVE DbExact'
  OBVIOUS
<1>1. ASSUME NEW p \in DbProc, DbReturnError(p) \/ DbStored(p) PROVE DbExact'
  BY <1>1, ExactEnd DEF DbReturnError, DbStored
<1>2. ASSUME NEW p \in DbProc, NEW m \in DbModule, DbStoreCall(p, m) PROVE DbExact'
  <2>1. PICK pc \in {"connect", "read"} : dbPc' = [dbPc EXCEPT ![p] = pc]
    BY <1>2 DEF DbStoreCall
  <2>2. \A q \in DbProc : q # p => /\ dbScope'[q] = dbScope[q] /\ dbStore'[q] = dbStore[q]
                                   /\ dbIdx'[q] = dbIdx[q]
    BY <1>2 DEF DbStoreCall, DbInv, DbTypes
  <2> QED
    BY <2>1, <2>2, ExactOne
<1>3. ASSUME NEW p \in DbProc, DbConnect(p) \/ DbSwitchToWal(p) PROVE DbExact'
  <2>1. PICK pc \in {"read", "switch"} : dbPc' = [dbPc EXCEPT ![p] = pc]
    BY <1>3 DEF DbConnect, DbSwitchToWal
  <2>2. UNCHANGED <<dbScope, dbStore, dbIdx>>
    BY <1>3 DEF DbConnect, DbSwitchToWal
  <2> QED
    BY <2>1, <2>2, ExactOne
<1>4. ASSUME NEW p \in DbProc, DbBusy(p) PROVE DbExact'
  <2>1. CASE DbReturnError(p)
    BY <1>1, <2>1
  <2>2. CASE dbPc' = [dbPc EXCEPT ![p] = "connect"] /\ UNCHANGED <<dbScope, dbStore, dbIdx>>
    BY <2>2, ExactOne
  <2> QED
    BY <1>4, <2>1, <2>2 DEF DbBusy
<1>5. ASSUME NEW p \in DbProc, DbReadVersion(p) PROVE DbExact'
  <2>1. CASE DbReturnError(p)
    BY <1>1, <2>1
  <2>2. CASE /\ dbPc' = [dbPc EXCEPT ![p] = "begin"] /\ UNCHANGED <<dbScope, dbStore>>
             /\ dbIdx' = [dbIdx EXCEPT ![p] = DbVers[dbScope[p]]]
    <3>1. \A q \in DbProc : q # p => dbIdx'[q] = dbIdx[q]
      BY <2>2 DEF DbInv, DbTypes
    <3> QED
      BY <2>2, <3>1, ExactOne
  <2> QED
    BY <1>5, <2>1, <2>2 DEF DbReadVersion
<1>6. ASSUME NEW p \in DbProc, DbBegin(p) \/ DbExec(p) PROVE DbExact'
  <2>1. \A q \in DbProc : dbPc'[q] = "idle" => dbPc[q] = "idle"
    BY <1>6 DEF DbBegin, DbExec, DbInv, DbTypes
  <2>2. \A q \in DbProc : dbPc'[q] \in {"tx", "commit"} =>
          dbIdx[q] < DbKnown[q][dbScope[q]]
    BY <1>6 DEF DbBegin, DbExec, DbInv, DbTypes, DbExact
  <2>3. UNCHANGED <<dbScope, dbStore, dbIdx>>
    BY <1>6 DEF DbBegin, DbExec
  <2> QED
    BY <2>1, <2>2, <2>3 DEF DbExact
<1>7. ASSUME NEW p \in DbProc, DbSkip(p) \/ DbCommit(p) PROVE DbExact'
  <2>1. dbPc' = [dbPc EXCEPT ![p] = "begin"] /\ UNCHANGED <<dbScope, dbStore>>
    BY <1>7 DEF DbSkip, DbCommit
  <2>2. \A q \in DbProc : q # p => dbIdx'[q] = dbIdx[q]
    BY <1>7 DEF DbSkip, DbCommit, DbInv, DbTypes
  <2> QED
    BY <2>1, <2>2, ExactOne
<1>8. ASSUME NEW p \in DbProc, DbOpened(p) PROVE DbExact'
  <2>1. dbPc' = [dbPc EXCEPT ![p] = "read"] /\ UNCHANGED <<dbStore, dbIdx>>
    BY <1>8 DEF DbOpened
  <2>2. \A q \in DbProc : q # p => dbScope'[q] = dbScope[q]
    BY <1>8 DEF DbOpened, DbInv, DbTypes
  <2> QED
    BY <2>1, <2>2, ExactOne
<1>9. ASSUME NEW p \in DbProc, DbFails(p) PROVE DbExact'
  BY <1>1, <1>9 DEF DbFails
<1>10. ASSUME NEW p \in DbProc, DbNew(p) \/ DbCrash(p) PROVE DbExact'
  BY <1>10, ExactEnd DEF DbNew, DbCrash, DbFresh
<1>11. CASE DbPowerLoss
  BY <1>11, ExactEnd DEF DbPowerLoss, DbFresh
<1>12. CASE \/ UNCHANGED dbVars
            \/ \E p \in DbProc : DbClose(p)
  <2>1. UNCHANGED <<dbPc, dbScope, dbStore, dbIdx>>
    BY <1>12 DEF DbClose, dbVars, dbMgr
  <2> QED
    BY <2>1 DEF DbExact
<1> QED
  BY <1>1, <1>2, <1>3, <1>4, <1>5, <1>6, <1>7, <1>8, <1>9, <1>10, <1>11, <1>12
  DEF DbNext, DbStep

-----------------------------------------------------------------------------
(* The file, as MigratedStore sees it *)

LEMMA SameKept == UNCHANGED <<dbLog, dbDurable>> => UNCHANGED <<DbVers, DbKept>>
  BY DEF DbVers, DbKept

\* A version of the log never goes down.
LEMMA Grows ==
  ASSUME NEW log \in Seq(DbEntries), DbLogOK(log), NEW j \in 1..Len(log),
         NEW k \in 1..Len(log), j <= k, NEW s \in DbScope
  PROVE  log[j].vers[s] <= log[k].vers[s]
<1>1. log[j].vers[s] \in Nat /\ log[k].vers[s] \in Nat
  <2>1. log[j] \in DbEntries /\ log[k] \in DbEntries
    OBVIOUS
  <2> QED
    BY <2>1 DEF DbEntries
<1>2. CASE log[j].vers[s] > 0
  <2> DEFINE n == log[j].vers[s] - 1
  <2>1. n \in Nat /\ n < log[j].vers[s]
    BY <1>1, <1>2
  <2>2. \A v \in Nat : v < log[j].vers[s] =>
          \E i \in 1..Len(log) : i <= j /\ log[i].scope = s /\ log[i].i = v
    BY DEF DbLogOK
  <2>3. PICK i \in 1..Len(log) : i <= j /\ log[i].scope = s /\ log[i].i = n
    BY <2>1, <2>2
  <2>4. i <= k
    BY <2>3
  <2>5. log[i].i < log[k].vers[log[i].scope]
    BY <2>4 DEF DbLogOK
  <2> QED
    BY <1>1, <2>3, <2>5
<1> QED
  BY <1>1, <1>2

\* What the file holds after its first n transactions.
DbVersAt(log, n) == IF n = 0 THEN [s \in DbScope |-> 0] ELSE log[n].vers

LEMMA VersAt ==
  ASSUME NEW log \in Seq(DbEntries), DbLogOK(log)
  PROVE  /\ \A n \in 0..Len(log) : DbVersAt(log, n) \in [DbScope -> Nat]
         /\ \A n, k \in 0..Len(log) : \A s \in DbScope :
              n <= k => DbVersAt(log, n)[s] <= DbVersAt(log, k)[s]
         /\ \A n \in 0..Len(log) : \A m \in DbModule :
              DbVersAt(log, n)[m] > 0 => DbVersAt(log, n)[Framework] > 0
<1>1. \A n \in 0..Len(log) : n # 0 => n \in 1..Len(log) /\ log[n] \in DbEntries
  OBVIOUS
<1>2. \A n \in 0..Len(log) : DbVersAt(log, n) \in [DbScope -> Nat]
  BY <1>1 DEF DbVersAt, DbEntries
<1>3. ASSUME NEW n \in 0..Len(log), NEW k \in 0..Len(log), NEW s \in DbScope, n <= k
      PROVE  DbVersAt(log, n)[s] <= DbVersAt(log, k)[s]
  <2>1. CASE n = 0
    <3>1. DbVersAt(log, n)[s] = 0 /\ DbVersAt(log, k)[s] \in Nat
      BY <1>2, <2>1 DEF DbVersAt
    <3> QED
      BY <3>1
  <2>2. CASE n # 0
    <3>1. n \in 1..Len(log) /\ k \in 1..Len(log) /\ k # 0
      BY <1>3, <2>2
    <3>2. log[n].vers[s] <= log[k].vers[s]
      BY <1>3, <3>1, Grows
    <3> QED
      BY <2>2, <3>1, <3>2 DEF DbVersAt
  <2> QED
    BY <2>1, <2>2
<1>4. ASSUME NEW n \in 0..Len(log), NEW m \in DbModule, DbVersAt(log, n)[m] > 0
      PROVE  DbVersAt(log, n)[Framework] > 0
  <2>1. m \in DbScope /\ m # Framework /\ Framework \in DbScope
    BY KnownType
  <2>2. n # 0
    BY <1>4, <2>1 DEF DbVersAt
  <2>3. n \in 1..Len(log) /\ log[n].vers[m] > 0 /\ log[n].vers[Framework] \in Nat
    BY <1>1, <1>4, <2>1, <2>2 DEF DbVersAt, DbEntries
  <2>4. PICK i \in 1..Len(log) : i <= n /\ log[i].scope = m
    BY <2>1, <2>3 DEF DbLogOK
  <2>5. PICK j \in 1..Len(log) : j < i /\ log[j].scope = Framework
    BY <2>1, <2>4 DEF DbLogOK
  <2>6. j <= n /\ log[j].i \in Nat
    <3>1. log[j] \in DbEntries
      OBVIOUS
    <3> QED
      BY <2>4, <2>5, <3>1 DEF DbEntries
  <2>7. log[j].i < log[n].vers[Framework]
    BY <2>3, <2>5, <2>6 DEF DbLogOK
  <2> QED
    BY <2>2, <2>3, <2>6, <2>7 DEF DbVersAt
<1> QED
  BY <1>2, <1>3, <1>4

LEMMA FileIs ==
  ASSUME dbLog \in Seq(DbEntries)
  PROVE  DbVers = DbVersAt(dbLog, Len(dbLog)) /\ DbKept = DbVersAt(dbLog, dbDurable)
  BY DEF DbVers, DbKept, DbVersAt

-----------------------------------------------------------------------------
(* The steps, one by one *)

LEMMA ListsAre == DbPromise!Lists = DbScope
  BY DEF DbPromise!Lists, DbScope

\* A process that is in a call waits for a module.
LEMMA InCall ==
  ASSUME DbInv, NEW p \in DbProc, dbPc[p] # "idle"
  PROVE  dbStore[p] \in DbModule /\ dbStore[p] # Framework
  BY Mine, KnownType DEF DbCallOK

LEMMA EndIs ==
  ASSUME DbInv, NEW p \in DbProc, DbEndOfCall({p}), UNCHANGED <<dbLog, dbDurable>>
  PROVE  DbPromise!EndCall(p)
<1>1. dbStore' = [dbStore EXCEPT ![p] = Framework]
  BY DEF DbEndOfCall, DbInv, DbTypes
<1>2. dbNewer' = [dbNewer EXCEPT ![p] = FALSE]
  <2>1. dbNewer \in [DbProc -> BOOLEAN] /\ dbNewer' = [q \in DbProc |-> dbNewer[q] /\ q \notin {p}]
    BY DEF DbEndOfCall, DbInv, DbTypes
  <2> QED
    BY <2>1
<1> QED
  BY <1>1, <1>2, SameKept DEF DbPromise!EndCall

LEMMA ErrorPromise ==
  ASSUME DbInv, NEW p \in DbProc, dbPc[p] # "idle", DbReturnError(p)
  PROVE  DbPromise!GiveUp(p)
  BY InCall, EndIs DEF DbReturnError, DbPromise!GiveUp

LEMMA AskPromise ==
  ASSUME DbInv, DbExact, NEW p \in DbProc, NEW m \in DbModule, DbStoreCall(p, m)
  PROVE  DbPromise!Ask(p, m)
<1>1. dbStore[p] = Framework /\ m \notin dbCached[p]
  BY DEF DbStoreCall, DbExact
<1>2. UNCHANGED <<DbVers, DbKept, dbCached>>
  BY SameKept DEF DbStoreCall, dbFile
<1>3. dbStore' = [dbStore EXCEPT ![p] = m]
        /\ dbNewer' = [dbNewer EXCEPT ![p] = DbVers[m] > DbKnown[p][m]]
  BY DEF DbStoreCall
<1> QED
  BY <1>1, <1>2, <1>3 DEF DbPromise!Ask

LEMMA CommitPromise ==
  ASSUME DbInv, DbExact, NEW p \in DbProc, DbCommit(p)
  PROVE  DbPromise!Apply(p, dbScope[p])
<1> DEFINE s == dbScope[p]
<1>1. dbPc[p] = "commit" /\ DbCallOK(p) /\ s \in DbScope /\ DbVers \in [DbScope -> Nat]
        /\ DbKnown[p][s] \in Nat /\ DbKnown[p][Framework] \in Nat /\ DbVers[s] \in Nat
        /\ DbVers[Framework] \in Nat
  BY Mine, KnownType DEF DbCommit
<1>2. dbIdx[p] = DbVers[s] /\ dbIdx[p] < DbKnown[p][s]
  BY <1>1 DEF DbCallOK, DbExact
<1>3. dbStore[p] # Framework /\ s \in {Framework, dbStore[p]}
  BY <1>1, InCall DEF DbCallOK
<1>4. s # Framework => DbVers[Framework] >= DbKnown[p][Framework] /\ ~dbNewer[p]
  BY <1>1 DEF DbCallOK, DbHasFramework
<1>5. DbVers' = [DbVers EXCEPT ![s] = DbVers[s] + 1]
  <2>1. dbLog \in Seq(DbEntries)
    BY DEF DbInv, DbTypes
  <2>2. dbLog' = Append(dbLog, [scope |-> s, i |-> dbIdx[p],
                                vers |-> [DbVers EXCEPT ![s] = dbIdx[p] + 1]])
    BY DEF DbCommit
  <2>3. dbLog' # <<>> /\ dbLog'[Len(dbLog')].vers = [DbVers EXCEPT ![s] = dbIdx[p] + 1]
    BY <2>1, <2>2
  <2> QED
    BY <1>2, <2>3 DEF DbVers
<1>6. DbKept' = DbKept
  <2>1. dbLog \in Seq(DbEntries) /\ dbDurable \in 0..Len(dbLog) /\ dbDurable' = dbDurable
    BY DEF DbInv, DbTypes, DbCommit
  <2>2. dbDurable # 0 => dbLog'[dbDurable] = dbLog[dbDurable]
    BY <2>1 DEF DbCommit
  <2> QED
    BY <2>1, <2>2 DEF DbKept
<1>7. UNCHANGED <<dbStore, dbNewer, dbCached>>
  BY DEF DbCommit
<1>8. ~DbPromise!Ready(p, s)
  BY <1>1, <1>2 DEF DbPromise!Ready
<1>9. s # Framework => DbPromise!Ready(p, Framework) /\ ~dbNewer[p]
  BY <1>4 DEF DbPromise!Ready
<1> QED
  BY <1>3, <1>5, <1>6, <1>7, <1>8, <1>9 DEF DbPromise!Apply, DbPromise!callers

LEMMA StoredPromise ==
  ASSUME DbInv, NEW p \in DbProc, DbStored(p)
  PROVE  DbPromise!HandOut(p)
<1>1. dbPc[p] = "begin" /\ dbScope[p] # Framework /\ dbIdx[p] >= DbKnown[p][dbScope[p]]
        /\ DbEndOfCall({p}) /\ UNCHANGED <<dbLog, dbDurable>>
        /\ dbCached' = [dbCached EXCEPT ![p] = dbCached[p] \cup {dbScope[p]}]
  BY DEF DbStored, dbFile
<1>2. dbScope[p] = dbStore[p] /\ ~dbNewer[p]
        /\ DbVers[Framework] >= DbKnown[p][Framework] /\ dbIdx[p] <= DbVers[dbScope[p]]
  BY <1>1, Mine DEF DbCallOK, DbHasFramework
<1>3. DbVers[dbStore[p]] >= DbKnown[p][dbStore[p]]
  BY <1>1, <1>2, Mine
<1>4. dbStore[p] # Framework
  BY <1>1, InCall
<1> QED
  BY <1>1, <1>2, <1>3, <1>4, EndIs DEF DbPromise!HandOut, DbPromise!Ready

LEMMA RestartPromise ==
  ASSUME DbInv, NEW p \in DbProc, DbFresh({p}), UNCHANGED <<dbLog, dbDurable>>
  PROVE  DbPromise!Restart(p)
<1>1. dbCached' = [dbCached EXCEPT ![p] = {}]
  BY DEF DbFresh, DbInv, DbTypes
<1> QED
  BY <1>1, EndIs DEF DbFresh, DbPromise!Restart

LEMMA ClosePromise ==
  ASSUME DbInv, NEW p \in DbProc, DbClose(p)
  PROVE  DbPromise!Checkpoint \/ UNCHANGED DbPromise!vars
<1>1. UNCHANGED <<dbLog, dbStore, dbNewer, dbCached>>
  BY DEF DbClose
<1>2. DbVers' = DbVers
  BY <1>1, SameVers
<1>3. CASE dbDurable' = Len(dbLog)
  <2>1. DbKept' = DbVers
    <3>1. dbLog \in Seq(DbEntries) /\ (Len(dbLog) = 0 <=> dbLog = <<>>)
      BY DEF DbInv, DbTypes
    <3> QED
      BY <1>1, <1>3, <3>1 DEF DbKept, DbVers
  <2> QED
    BY <1>1, <1>2, <2>1 DEF DbPromise!Checkpoint, DbPromise!callers
<1>4. CASE dbDurable' = dbDurable
  BY <1>1, <1>4, SameKept DEF DbPromise!vars
<1> QED
  BY <1>3, <1>4 DEF DbClose

LEMMA PowerLossPromise == ASSUME DbInv, DbPowerLoss PROVE DbPromise!PowerLoss
<1>1. PICK n \in dbDurable..Len(dbLog) : dbLog' = SubSeq(dbLog, 1, n) /\ dbDurable' = n
  BY DEF DbPowerLoss
<1>2. dbLog \in Seq(DbEntries) /\ DbLogOK(dbLog) /\ dbDurable \in 0..Len(dbLog)
        /\ n \in 0..Len(dbLog) /\ dbDurable <= n /\ n <= Len(dbLog)
        /\ Len(dbLog) \in 0..Len(dbLog)
  BY <1>1 DEF DbInv, DbTypes
<1>3. dbLog' \in Seq(DbEntries) /\ Len(dbLog') = n
  BY <1>1, <1>2
<1>4. DbVers' = DbVersAt(dbLog, n) /\ DbKept' = DbVersAt(dbLog, n)
  <2>1. n # 0 => dbLog'[n] = dbLog[n] /\ dbLog' # <<>>
    BY <1>1, <1>2, <1>3
  <2>2. n = 0 => dbLog' = <<>>
    BY <1>3
  <2> QED
    BY <1>1, <1>3, <2>1, <2>2 DEF DbVers, DbKept, DbVersAt
<1>5. DbVers = DbVersAt(dbLog, Len(dbLog)) /\ DbKept = DbVersAt(dbLog, dbDurable)
  BY <1>2, FileIs
<1>6. DbVers' \in [DbScope -> Nat]
  BY <1>2, <1>4, VersAt
<1>7. \A s \in DbScope : DbKept[s] <= DbVers'[s] /\ DbVers'[s] <= DbVers[s]
  BY <1>2, <1>4, <1>5, VersAt
<1>8. \A m \in DbModule : DbVers'[m] > 0 => DbVers'[Framework] > 0
  BY <1>2, <1>4, VersAt
<1>9. dbStore' = [p \in DbProc |-> Framework] /\ dbCached' = [p \in DbProc |-> {}]
  BY DEF DbPowerLoss, DbFresh, DbEndOfCall
<1>10. dbNewer' = [p \in DbProc |-> FALSE]
  BY DEF DbPowerLoss, DbFresh, DbEndOfCall
<1> QED
  BY <1>4, <1>6, <1>7, <1>8, <1>9, <1>10, ListsAre DEF DbPromise!PowerLoss

LEMMA MigrateStep == DbInv /\ DbExact /\ [DbNext]_dbVars => [DbPromise!Next]_(DbPromise!vars)
<1> SUFFICES ASSUME DbInv, DbExact, [DbNext]_dbVars
             PROVE  DbPromise!Next \/ UNCHANGED DbPromise!vars
  OBVIOUS
<1>1. ASSUME NEW p \in DbProc, NEW m \in DbModule, DbStoreCall(p, m) PROVE DbPromise!Next
  BY <1>1, AskPromise DEF DbPromise!Next
<1>2. ASSUME NEW p \in DbProc, dbPc[p] # "idle", DbReturnError(p) PROVE DbPromise!Next
  BY <1>2, ErrorPromise DEF DbPromise!Next
<1>3. ASSUME NEW p \in DbProc, DbFails(p) PROVE DbPromise!Next
  BY <1>2, <1>3 DEF DbFails
<1>4. ASSUME UNCHANGED <<dbLog, dbDurable, dbStore, dbNewer, dbCached>>
      PROVE  UNCHANGED DbPromise!vars
  BY <1>4, SameKept DEF DbPromise!vars
<1>5. ASSUME NEW p \in DbProc,
             DbConnect(p) \/ DbSwitchToWal(p) \/ DbBegin(p) \/ DbSkip(p) \/ DbExec(p) \/ DbOpened(p)
      PROVE  UNCHANGED DbPromise!vars
  BY <1>4, <1>5 DEF DbConnect, DbSwitchToWal, DbBegin, DbSkip, DbExec, DbOpened, dbFile
<1>6. ASSUME NEW p \in DbProc, DbBusy(p) \/ DbReadVersion(p)
      PROVE  DbPromise!Next \/ UNCHANGED DbPromise!vars
  <2>1. CASE DbReturnError(p)
    <3>1. dbPc[p] # "idle"
      BY <1>6 DEF DbBusy, DbReadVersion
    <3> QED
      BY <1>2, <2>1, <3>1
  <2>2. CASE ~DbReturnError(p)
    BY <1>4, <1>6, <2>2 DEF DbBusy, DbReadVersion, dbFile
  <2> QED
    BY <2>1, <2>2
<1>7. ASSUME NEW p \in DbProc, DbCommit(p) PROVE DbPromise!Next
  BY <1>7, CommitPromise, Mine, ListsAre DEF DbPromise!Next
<1>8. ASSUME NEW p \in DbProc, DbStored(p) PROVE DbPromise!Next
  BY <1>8, StoredPromise DEF DbPromise!Next
<1>9. ASSUME NEW p \in DbProc, DbNew(p) \/ DbCrash(p) PROVE DbPromise!Next
  BY <1>9, RestartPromise DEF DbNew, DbCrash, DbPromise!Next
<1>10. ASSUME NEW p \in DbProc, DbClose(p)
       PROVE  DbPromise!Next \/ UNCHANGED DbPromise!vars
  BY <1>10, ClosePromise DEF DbPromise!Next
<1>11. CASE DbPowerLoss
  BY <1>11, PowerLossPromise DEF DbPromise!Next
<1>12. CASE UNCHANGED dbVars
  BY <1>4, <1>12 DEF dbVars, dbFile, dbMgr
<1> QED
  BY <1>1, <1>3, <1>5, <1>6, <1>7, <1>8, <1>9, <1>10, <1>11, <1>12 DEF DbNext, DbStep

\* For any processes, binaries and modules, and any crashes and power failures, LocalDB
\* implements MigratedStore: a schema moves one step at a time and only towards what a
\* waiting binary knows, no module runs on a schema newer than its binary, and a power
\* failure takes back nothing a checkpoint has covered (Store, the migration loops,
\* Close).
THEOREM MigratesAsPromised == DbSpec => DbMigratesAsPromised
<1>1. DbInit => DbInv /\ DbExact /\ DbPromise!Init
  <2> SUFFICES ASSUME DbInit PROVE DbExact /\ DbPromise!Init
    BY InvInit
  <2>1. DbExact
    BY DEF DbInit, DbExact
  <2>2. DbVers = [s \in DbScope |-> 0] /\ DbKept = DbVers
    BY DEF DbInit, DbVers, DbKept
  <2> QED
    BY <2>1, <2>2, ListsAre DEF DbInit, DbPromise!Init
<1>2. DbInv /\ DbExact /\ [DbNext]_dbVars => DbInv' /\ DbExact'
  BY InvStep, ExactStep
<1> QED
  BY <1>1, <1>2, MigrateStep, PTL DEF DbSpec, DbMigratesAsPromised, DbPromise!Spec

=============================================================================
