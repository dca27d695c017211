------------------------------ MODULE LocalDB ------------------------------
(***************************************************************************)
(* The shared local SQLite file (src/localdb/localdb.go).  Several          *)
(* processes, old and new binaries among them, open one file; each has one  *)
(* Manager whose mutex lets one Store or Close run at a time, so a process  *)
(* is at one step of at most one call.  A Store opens the file on the       *)
(* first call, applies the framework's migrations and then the module's,    *)
(* each in a transaction of its own that takes SQLite's write lock first.   *)
(*                                                                         *)
(* The file is the sequence of its committed transactions (the WAL), each   *)
(* with the versions that hold after it; dbDurable of them survive a power  *)
(* failure.  SQLite itself is modelled by what the code relies on: one      *)
(* writer at a time, an exclusive switch of a fresh file to WAL mode, and a *)
(* prefix of the WAL after a power failure.                                *)
(***************************************************************************)
EXTENDS Integers, Sequences

CONSTANTS
  DbProc,        \* processes that share the file
  DbModule,      \* module names (Descriptor.Name)
  Framework,     \* the framework's own migration list (frameworkMigrations)
  DbKnown,       \* [DbProc -> [Scopes -> Nat]]: how many migrations a binary has
  OpenMaxRetries,\* openMaxRetries, 10 in the code
  MaxCrashes     \* bound: process crashes and power failures of a behaviour

DbScope == DbModule \cup {Framework}

ASSUME DbAssumption ==
  /\ Framework \notin DbModule
  /\ DbKnown \in [DbProc -> [DbScope -> Nat]]
  /\ \A p \in DbProc : DbKnown[p][Framework] > 0
  /\ OpenMaxRetries \in Nat
  /\ MaxCrashes \in Nat

VARIABLES
  dbLog,         \* committed transactions: [scope, i, vers]
  dbDurable,     \* how many of them are known to be on disk
  dbWal,         \* the file has been switched to WAL mode
  dbExclusive,   \* processes in the exclusive switch to WAL mode
  dbLock,        \* holders of SQLite's write lock
  dbPc,          \* the step of the process's running call, "idle" when none
  dbScope,       \* the list the running loop applies
  dbStore,       \* the module whose Store is running
  dbIdx,         \* the loop's i
  dbAttempt,     \* ensureOpen's attempt
  dbOpen,        \* m.db # nil
  dbClosed,      \* m.closed
  dbCached,      \* modules in m.stores
  dbNewer,       \* history: the file was newer than the binary when the call began
  dbCrashes      \* crashes so far

dbFile == <<dbLog, dbDurable, dbWal, dbExclusive, dbLock>>
dbMgr == <<dbPc, dbScope, dbStore, dbIdx, dbAttempt, dbOpen, dbClosed, dbCached, dbNewer>>
dbVars == <<dbFile, dbMgr, dbCrashes>>

DbPcs == {"idle", "connect", "switch", "read", "begin", "tx", "commit"}

\* The versions in the file: user_version for the framework, the tracker
\* table's row for a module, zero where there is none.
DbVers == IF dbLog = <<>> THEN [s \in DbScope |-> 0] ELSE dbLog[Len(dbLog)].vers

DbTypeOK ==
  /\ dbLog \in Seq([scope : DbScope, i : Nat, vers : [DbScope -> Nat]])
  /\ dbDurable \in 0..Len(dbLog)
  /\ dbWal \in BOOLEAN
  /\ dbExclusive \in SUBSET DbProc
  /\ dbLock \in SUBSET DbProc
  /\ dbPc \in [DbProc -> DbPcs]
  /\ dbScope \in [DbProc -> DbScope]
  /\ dbStore \in [DbProc -> DbScope]
  /\ dbIdx \in [DbProc -> Nat]
  /\ dbAttempt \in [DbProc -> 0..OpenMaxRetries]
  /\ dbOpen \in [DbProc -> BOOLEAN]
  /\ dbClosed \in [DbProc -> BOOLEAN]
  /\ dbCached \in [DbProc -> SUBSET DbModule]
  /\ dbNewer \in [DbProc -> BOOLEAN]
  /\ dbCrashes \in 0..MaxCrashes

DbInit ==
  /\ dbLog = <<>>
  /\ dbDurable = 0
  /\ dbWal = FALSE
  /\ dbExclusive = {}
  /\ dbLock = {}
  /\ dbPc = [p \in DbProc |-> "idle"]
  /\ dbScope = [p \in DbProc |-> Framework]
  /\ dbStore = [p \in DbProc |-> Framework]
  /\ dbIdx = [p \in DbProc |-> 0]
  /\ dbAttempt = [p \in DbProc |-> 0]
  /\ dbOpen = [p \in DbProc |-> FALSE]
  /\ dbClosed = [p \in DbProc |-> FALSE]
  /\ dbCached = [p \in DbProc |-> {}]
  /\ dbNewer = [p \in DbProc |-> FALSE]
  /\ dbCrashes = 0

-----------------------------------------------------------------------------
(* Store and ensureOpen *)

\* Store(ctx, d) of a module that is not cached takes the mutex.  (A cached
\* module returns at once, and a closed manager refuses: neither changes state.)
DbStoreCall(p, m) ==
  /\ dbPc[p] = "idle"
  /\ ~dbClosed[p]
  /\ m \notin dbCached[p]
  /\ dbPc' = [dbPc EXCEPT ![p] = IF dbOpen[p] THEN "read" ELSE "connect"]
  /\ dbScope' = [dbScope EXCEPT ![p] = IF dbOpen[p] THEN m ELSE Framework]
  /\ dbStore' = [dbStore EXCEPT ![p] = m]
  /\ dbNewer' = [dbNewer EXCEPT ![p] = DbVers[m] > DbKnown[p][m]]
  /\ UNCHANGED <<dbFile, dbIdx, dbAttempt, dbOpen, dbClosed, dbCached, dbCrashes>>

\* The calls of the processes P are over: their locals are gone.
DbEndOfCall(P) ==
  /\ dbPc' = [p \in DbProc |-> IF p \in P THEN "idle" ELSE dbPc[p]]
  /\ dbScope' = [p \in DbProc |-> IF p \in P THEN Framework ELSE dbScope[p]]
  /\ dbStore' = [p \in DbProc |-> IF p \in P THEN Framework ELSE dbStore[p]]
  /\ dbIdx' = [p \in DbProc |-> IF p \in P THEN 0 ELSE dbIdx[p]]
  /\ dbAttempt' = [p \in DbProc |-> IF p \in P THEN 0 ELSE dbAttempt[p]]
  /\ dbNewer' = [p \in DbProc |-> dbNewer[p] /\ p \notin P]

\* The call returns an error: a cancelled context, a failed statement (rolled
\* back), a schema that is too new.  ensureOpen leaves m.db nil.
DbReturnError(p) ==
  /\ DbEndOfCall({p})
  /\ dbLock' = dbLock \ {p}
  /\ dbExclusive' = dbExclusive \ {p}
  /\ UNCHANGED <<dbLog, dbDurable, dbWal, dbOpen, dbClosed, dbCached, dbCrashes>>

DbFails(p) == dbPc[p] # "idle" /\ DbReturnError(p)

\* The first physical connection: a file that is already in WAL mode is just
\* opened; a fresh one is switched under an exclusive lock.
DbConnect(p) ==
  /\ dbPc[p] = "connect"
  /\ \/ dbWal /\ dbPc' = [dbPc EXCEPT ![p] = "read"] /\ UNCHANGED dbExclusive
     \/ /\ ~dbWal /\ dbExclusive = {}
        /\ dbExclusive' = {p}
        /\ dbPc' = [dbPc EXCEPT ![p] = "switch"]
  /\ UNCHANGED <<dbLog, dbDurable, dbWal, dbLock, dbScope, dbStore, dbIdx,
                 dbAttempt, dbOpen, dbClosed, dbCached, dbNewer, dbCrashes>>

DbSwitchToWal(p) ==
  /\ dbPc[p] = "switch"
  /\ dbWal' = TRUE
  /\ dbExclusive' = {}
  /\ dbPc' = [dbPc EXCEPT ![p] = "read"]
  /\ UNCHANGED <<dbLog, dbDurable, dbLock, dbScope, dbStore, dbIdx, dbAttempt,
                 dbOpen, dbClosed, dbCached, dbNewer, dbCrashes>>

\* Mutant of DbBusy: ensureOpen retries without a bound.
DbBusyForEver(p) ==
  /\ \/ dbPc[p] = "connect" /\ ~dbWal /\ dbExclusive # {}
     \/ dbPc[p] = "begin" /\ dbLock # {} /\ dbIdx[p] < DbKnown[p][dbScope[p]]
  /\ dbPc' = [dbPc EXCEPT ![p] = "connect"]
  /\ UNCHANGED <<dbFile, dbScope, dbStore, dbIdx, dbAttempt, dbOpen, dbClosed,
                 dbCached, dbNewer, dbCrashes>>

\* SQLITE_BUSY: the switch is not covered by busy_timeout, BEGIN IMMEDIATE
\* gives up after it.  Only ensureOpen retries, a bounded number of times.
DbBusy(p) ==
  /\ \/ dbPc[p] = "connect" /\ ~dbWal /\ dbExclusive # {}
     \/ dbPc[p] = "begin" /\ dbLock # {} /\ dbIdx[p] < DbKnown[p][dbScope[p]]
  /\ IF dbScope[p] = Framework /\ dbAttempt[p] < OpenMaxRetries
     THEN /\ dbAttempt' = [dbAttempt EXCEPT ![p] = @ + 1]
          /\ dbPc' = [dbPc EXCEPT ![p] = "connect"]
          /\ UNCHANGED <<dbFile, dbScope, dbStore, dbIdx, dbOpen, dbClosed,
                         dbCached, dbNewer, dbCrashes>>
     ELSE DbReturnError(p)

-----------------------------------------------------------------------------
(* runFrameworkMigrations and runModuleMigrations *)

\* Mutant of DbReadVersion: a file that is newer than the binary is used.
DbReadAnyVersion(p) ==
  /\ dbPc[p] = "read"
  /\ dbIdx' = [dbIdx EXCEPT ![p] = DbVers[dbScope[p]]]
  /\ dbPc' = [dbPc EXCEPT ![p] = "begin"]
  /\ UNCHANGED <<dbFile, dbScope, dbStore, dbAttempt, dbOpen, dbClosed,
                 dbCached, dbNewer, dbCrashes>>

\* The version is read before the lock is taken; one that is ahead of the list
\* is refused.
DbReadVersion(p) ==
  /\ dbPc[p] = "read"
  /\ IF DbVers[dbScope[p]] > DbKnown[p][dbScope[p]]
     THEN DbReturnError(p)
     ELSE /\ dbIdx' = [dbIdx EXCEPT ![p] = DbVers[dbScope[p]]]
          /\ dbPc' = [dbPc EXCEPT ![p] = "begin"]
          /\ UNCHANGED <<dbFile, dbScope, dbStore, dbAttempt, dbOpen, dbClosed,
                         dbCached, dbNewer, dbCrashes>>

DbBegin(p) ==
  /\ dbPc[p] = "begin"
  /\ dbIdx[p] < DbKnown[p][dbScope[p]]
  /\ dbLock = {}
  /\ dbLock' = {p}
  /\ dbPc' = [dbPc EXCEPT ![p] = "tx"]
  /\ UNCHANGED <<dbLog, dbDurable, dbWal, dbExclusive, dbScope, dbStore, dbIdx,
                 dbAttempt, dbOpen, dbClosed, dbCached, dbNewer, dbCrashes>>

\* The version is read again under the lock: a migration a peer has applied in
\* the meantime is passed over.
DbSkip(p) ==
  /\ dbPc[p] = "tx"
  /\ DbVers[dbScope[p]] # dbIdx[p]
  /\ dbLock' = {}
  /\ dbIdx' = [dbIdx EXCEPT ![p] = @ + 1]
  /\ dbPc' = [dbPc EXCEPT ![p] = "begin"]
  /\ UNCHANGED <<dbLog, dbDurable, dbWal, dbExclusive, dbScope, dbStore,
                 dbAttempt, dbOpen, dbClosed, dbCached, dbNewer, dbCrashes>>

\* Mutant of DbExec: the version is read before the lock only.
DbExecUnchecked(p) ==
  /\ dbPc[p] = "tx"
  /\ dbPc' = [dbPc EXCEPT ![p] = "commit"]
  /\ UNCHANGED <<dbFile, dbScope, dbStore, dbIdx, dbAttempt, dbOpen, dbClosed,
                 dbCached, dbNewer, dbCrashes>>

\* The migration and the new version are written, not yet committed.
DbExec(p) ==
  /\ dbPc[p] = "tx"
  /\ DbVers[dbScope[p]] = dbIdx[p]
  /\ dbPc' = [dbPc EXCEPT ![p] = "commit"]
  /\ UNCHANGED <<dbFile, dbScope, dbStore, dbIdx, dbAttempt, dbOpen, dbClosed,
                 dbCached, dbNewer, dbCrashes>>

DbCommit(p) ==
  /\ dbPc[p] = "commit"
  /\ dbLog' = Append(dbLog, [scope |-> dbScope[p], i |-> dbIdx[p],
                             vers |-> [DbVers EXCEPT ![dbScope[p]] = dbIdx[p] + 1]])
  /\ dbLock' = {}
  /\ dbIdx' = [dbIdx EXCEPT ![p] = @ + 1]
  /\ dbPc' = [dbPc EXCEPT ![p] = "begin"]
  /\ UNCHANGED <<dbDurable, dbWal, dbExclusive, dbScope, dbStore, dbAttempt,
                 dbOpen, dbClosed, dbCached, dbNewer, dbCrashes>>

\* The loop has reached the end of the framework's list: m.db is set and the
\* module's list follows.
DbOpened(p) ==
  /\ dbPc[p] = "begin"
  /\ dbScope[p] = Framework
  /\ dbIdx[p] >= DbKnown[p][Framework]
  /\ dbOpen' = [dbOpen EXCEPT ![p] = TRUE]
  /\ dbScope' = [dbScope EXCEPT ![p] = dbStore[p]]
  /\ dbPc' = [dbPc EXCEPT ![p] = "read"]
  /\ UNCHANGED <<dbFile, dbStore, dbIdx, dbAttempt, dbClosed, dbCached, dbNewer,
                 dbCrashes>>

\* ... or of the module's: the store is cached and returned.
DbStored(p) ==
  /\ dbPc[p] = "begin"
  /\ dbScope[p] # Framework
  /\ dbIdx[p] >= DbKnown[p][dbScope[p]]
  /\ dbCached' = [dbCached EXCEPT ![p] = @ \cup {dbScope[p]}]
  /\ DbEndOfCall({p})
  /\ UNCHANGED <<dbFile, dbOpen, dbClosed, dbCrashes>>

-----------------------------------------------------------------------------
(* Close, the end of a process and the end of the machine *)

\* Close checkpoints the WAL; when another connection holds it the checkpoint
\* is busy and nothing is promised.  Both return nil (as does a failed one,
\* with an error) and close the pool.
DbClose(p) ==
  /\ dbPc[p] = "idle"
  /\ ~dbClosed[p]
  /\ dbClosed' = [dbClosed EXCEPT ![p] = TRUE]
  /\ dbOpen' = [dbOpen EXCEPT ![p] = FALSE]
  /\ \/ dbOpen[p] /\ dbDurable' = Len(dbLog)
     \/ dbDurable' = dbDurable
  /\ UNCHANGED <<dbLog, dbWal, dbExclusive, dbLock, dbPc, dbScope, dbStore,
                 dbIdx, dbAttempt, dbCached, dbNewer, dbCrashes>>

\* The state of a Manager that has just been made (New), in the processes P.
DbFresh(P) ==
  /\ DbEndOfCall(P)
  /\ dbOpen' = [p \in DbProc |-> dbOpen[p] /\ p \notin P]
  /\ dbClosed' = [p \in DbProc |-> dbClosed[p] /\ p \notin P]
  /\ dbCached' = [p \in DbProc |-> IF p \in P THEN {} ELSE dbCached[p]]
  /\ dbLock' = dbLock \ P
  /\ dbExclusive' = dbExclusive \ P
  /\ UNCHANGED dbWal

\* A closed process makes a new Manager.
DbNew(p) ==
  /\ dbClosed[p]
  /\ DbFresh({p})
  /\ UNCHANGED <<dbLog, dbDurable, dbCrashes>>

\* A process dies in a call and starts again; its open transaction is gone.
\* (Death between calls leaves what a busy Close and a New leave.)
DbCrash(p) ==
  /\ dbPc[p] # "idle"
  /\ dbCrashes < MaxCrashes
  /\ DbFresh({p})
  /\ dbCrashes' = dbCrashes + 1
  /\ UNCHANGED <<dbLog, dbDurable>>

\* The machine dies: with synchronous=NORMAL commits that no checkpoint has
\* covered may be lost, from the end.
DbPowerLoss ==
  /\ dbCrashes < MaxCrashes
  /\ DbFresh(DbProc)
  /\ \E n \in dbDurable..Len(dbLog) : dbLog' = SubSeq(dbLog, 1, n) /\ dbDurable' = n
  /\ dbCrashes' = dbCrashes + 1

\* What a running call does next, unless it is cancelled or fails.
DbStep(p) ==
  \/ DbConnect(p) \/ DbSwitchToWal(p) \/ DbBusy(p) \/ DbReadVersion(p)
  \/ DbBegin(p) \/ DbSkip(p) \/ DbExec(p) \/ DbCommit(p)
  \/ DbOpened(p) \/ DbStored(p)

DbNext ==
  \/ \E p \in DbProc :
       \/ \E m \in DbModule : DbStoreCall(p, m)
       \/ DbStep(p) \/ DbFails(p) \/ DbClose(p) \/ DbNew(p) \/ DbCrash(p)
  \/ DbPowerLoss

\* A call that is running keeps running: the goroutine is scheduled and every
\* wait of its own (busy_timeout, the backoff) ends.
DbFairness == \A p \in DbProc : WF_dbVars(DbStep(p))

DbSpec == DbInit /\ [][DbNext]_dbVars /\ DbFairness

-----------------------------------------------------------------------------
(* Properties *)

\* Each list of migrations has run from its start, in order and each entry
\* once, as far as the version in the file says and no further, and none of a
\* module's before the framework's tables exist: whatever processes, crashes
\* and power failures came between (runFrameworkMigrations,
\* runModuleMigrations, withImmediateTx).
DbExactlyOnceInOrder ==
  /\ \A j, k \in DOMAIN dbLog :
       j < k /\ dbLog[j].scope = dbLog[k].scope => dbLog[j].i < dbLog[k].i
  /\ \A s \in DbScope : \A n \in 0..(DbVers[s] - 1) :
       \E k \in DOMAIN dbLog : dbLog[k].scope = s /\ dbLog[k].i = n
  /\ \A k \in DOMAIN dbLog : dbLog[k].i < DbVers[dbLog[k].scope]
  /\ \A k \in DOMAIN dbLog : dbLog[k].scope # Framework =>
       \E j \in DOMAIN dbLog : j < k /\ dbLog[j].scope = Framework

\* A Store that returns a handle leaves the file with every migration the
\* binary knows, the framework's and the module's, whoever applied them, and
\* was not called on a file whose module schema was already newer than the
\* binary (Store, the version checks before the loops).
DbStoreMeansMigrated ==
  [][\A p \in DbProc : \A m \in dbCached'[p] \ dbCached[p] :
       /\ DbVers'[Framework] >= DbKnown[p][Framework]
       /\ DbVers'[m] >= DbKnown[p][m]
       /\ ~dbNewer[p]]_dbVars

\* The versions that a power failure leaves in the file at the least.
DbKept == IF dbDurable = 0 THEN [s \in DbScope |-> 0] ELSE dbLog[dbDurable].vers

DbPromise == INSTANCE MigratedStore WITH
  Processes <- DbProc, Modules <- DbModule, Known <- DbKnown, None <- Framework,
  applied <- DbVers, kept <- DbKept,
  asked <- dbStore, refused <- dbNewer, handles <- dbCached

\* The file, the lock, the two reads of the version, the retries, the crashes and
\* the WAL implement MigratedStore: a schema moves one step at a time and never
\* past a binary that asks for it, a Store of a schema that was newer than its
\* binary changes no module and returns no handle, and a power failure takes back
\* the last steps only, never a checkpointed one and never the framework's below
\* a module's (Store, runFrameworkMigrations, runModuleMigrations, Close).
DbMigratesAsPromised == DbPromise!Spec

\* Every Store returns: no process waits for ever for the lock or the switch of
\* another one (ensureOpen's bounded retry, busy_timeout).
DbStoreReturns == \A p \in DbProc : dbPc[p] # "idle" ~> dbPc[p] = "idle"
=============================================================================
