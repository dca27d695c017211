----------------------------- MODULE MysqlCache -----------------------------
(***************************************************************************)
(* The read-through cache over the MySQL adapter (Through in                *)
(* src/cache/cache.go, src/cache/mysql.go), for one key.  A call looks the  *)
(* row up, serves it when it has not expired, deletes it when it has,       *)
(* computes the value itself otherwise and tries to insert it; between any  *)
(* two of these steps other callers, in other processes, run theirs.  Rows  *)
(* are named by their primary key; the lookup key has a unique index.  The  *)
(* in-memory adapter and the disabled one have no steps to interleave.     *)
(***************************************************************************)
EXTENDS Integers

CONSTANTS
  CacheCallers,  \* goroutines and processes that call Through with the key
  MaxRows        \* bound: rows inserted in a behaviour

ASSUME CacheAssumption == MaxRows \in Nat

NoRow == 0
CacheRows == 1..MaxRows

VARIABLES
  caRow,       \* the row of the key in the table, NoRow when there is none
  caRows,      \* rows inserted so far; the last one is the newest primary key
  caExpired,   \* rows whose ExpiresAt has passed
  caPc,        \* the step of a caller
  caSeen       \* the row it has read

cacheVars == <<caRow, caRows, caExpired, caPc, caSeen>>

CacheTypeOK ==
  /\ caRow \in 0..MaxRows /\ caRows \in 0..MaxRows
  /\ caExpired \in SUBSET CacheRows
  /\ caPc \in [CacheCallers -> {"idle", "found", "delete", "compute", "put"}]
  /\ caSeen \in [CacheCallers -> 0..MaxRows]

CacheInit ==
  /\ caRow = NoRow /\ caRows = 0 /\ caExpired = {}
  /\ caPc = [c \in CacheCallers |-> "idle"]
  /\ caSeen = [c \in CacheCallers |-> NoRow]

CacheGoes(c, pc) == caPc' = [caPc EXCEPT ![c] = pc]

\* Through: findByCacheKey reads the row; no row, and any error, is a miss.
CacheFind(c) ==
  /\ caPc[c] = "idle"
  /\ \/ caRow # NoRow /\ caSeen' = [caSeen EXCEPT ![c] = caRow] /\ CacheGoes(c, "found")
     \/ UNCHANGED caSeen /\ CacheGoes(c, "compute")
  /\ UNCHANGED <<caRow, caRows, caExpired>>

\* Get looks at ExpiresAt of the row it has read: a row still valid is decoded and
\* returned, an expired one is to be deleted.
CacheCheck(c) ==
  /\ caPc[c] = "found"
  /\ IF caSeen[c] \in caExpired THEN CacheGoes(c, "delete") ELSE CacheGoes(c, "idle")
  /\ UNCHANGED <<caRow, caRows, caExpired, caSeen>>

\* Mutant of CacheDelete: the row is deleted by the lookup key.
CacheDeleteByKey(c) ==
  /\ caPc[c] = "delete"
  /\ caRow' = NoRow
  /\ CacheGoes(c, "compute")
  /\ UNCHANGED <<caRows, caExpired, caSeen>>

\* deleteEntry deletes by the primary key of the record; its error is ignored.
CacheDelete(c) ==
  /\ caPc[c] = "delete"
  /\ \/ caRow' = IF caRow = caSeen[c] THEN NoRow ELSE caRow
     \/ UNCHANGED caRow
  /\ CacheGoes(c, "compute")
  /\ UNCHANGED <<caRows, caExpired, caSeen>>

\* Through after a miss: the function itself runs; its error is the caller's.
CacheCompute(c) ==
  /\ caPc[c] = "compute"
  /\ CacheGoes(c, "put") \/ CacheGoes(c, "idle")
  /\ UNCHANGED <<caRow, caRows, caExpired, caSeen>>

\* Put inserts a row; the unique index refuses it when there is one, and that
\* and any other failure is only logged.
CachePut(c) ==
  /\ caPc[c] = "put"
  /\ \/ /\ caRow = NoRow /\ caRows < MaxRows
        /\ caRow' = caRows + 1 /\ caRows' = caRows + 1
     \/ UNCHANGED <<caRow, caRows>>
  /\ CacheGoes(c, "idle")
  /\ UNCHANGED <<caExpired, caSeen>>

\* The time to live of a row runs out.
CacheExpire ==
  /\ \E r \in 1..caRows \ caExpired : caExpired' = caExpired \union {r}
  /\ UNCHANGED <<caRow, caRows, caPc, caSeen>>

CacheNext ==
  \/ CacheExpire
  \/ \E c \in CacheCallers : \/ CacheFind(c) \/ CacheCheck(c) \/ CacheDelete(c)
                            \/ CacheCompute(c) \/ CachePut(c)

CacheSpec == CacheInit /\ [][CacheNext]_cacheVars

(***************************************************************************)
(* A row leaves the table only when it has expired: a caller that read an   *)
(* expired row, and deletes it after another caller has deleted it and put  *)
(* a fresh one, does not take the fresh one with it (Get and deleteEntry in *)
(* src/cache/mysql.go).                                                      *)
(***************************************************************************)
CacheDeletesExpiredOnly ==
  [][caRow # NoRow /\ caRow' # caRow => caRow \in caExpired]_cacheVars

=============================================================================
