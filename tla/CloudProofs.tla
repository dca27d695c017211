---------------------------- MODULE CloudProofs ----------------------------
(***************************************************************************)
(* Proofs about the clients of cloud services: the credentials in the       *)
(* keychain and their resolver, the S3 writer, scoped access to streams.    *)
(***************************************************************************)
EXTENDS CredentialResolver, S3Writer, StreamAccess, SequenceTheorems, TLAPS

-----------------------------------------------------------------------------
(* The credentials *)

\* A goroutine with the file loaded holds its provider's mutex.  While no two
\* providers have had the file loaded at once, only one goroutine has, and its copy
\* is the file.
CrLockInv ==
  /\ CredTypeOK
  /\ crMutex = {t \in CrThreads : crPc[t] = "loaded"}
  /\ \A t, u \in crMutex : CrProviderOf[t] = CrProviderOf[u] => t = u
  /\ ~crCross =>
       /\ crFile = crLast
       /\ \A t \in crMutex : crCopy[t] = crFile
       /\ \A t, u \in crMutex : t = u

\* A call goes through the fields of its order, none of them twice.
LEMMA CrOrders ==
  \A call \in CrCalls :
    /\ CrOrder(call) \in Seq(CrFields)
    /\ Len(CrOrder(call)) \in 2..4
    /\ \A i, j \in 1..Len(CrOrder(call)) : CrOrder(call)[i] = CrOrder(call)[j] => i = j
<1> DEFINE Good(o) == /\ o \in Seq(CrFields) /\ Len(o) \in 2..4
                      /\ \A i, j \in 1..Len(o) : o[i] = o[j] => i = j
<1>1. Good(<<"api_key", "tenant_domain">>)
  BY DEF CrFields
<1>2. Good(<<"token", "refresh_token", "tenant_domain">>)
  BY DEF CrFields
<1>3. Good(<<"api_key", "token", "refresh_token", "tenant_domain">>)
  BY DEF CrFields
<1>4. \A call \in CrCalls : \/ CrOrder(call) = <<"api_key", "tenant_domain">>
                            \/ CrOrder(call) = <<"token", "refresh_token", "tenant_domain">>
                            \/ CrOrder(call) = <<"api_key", "token", "refresh_token", "tenant_domain">>
  BY DEF CrCalls, CrOrder
<1> HIDE DEF Good
<1>5. \A call \in CrCalls : Good(CrOrder(call))
  BY <1>1, <1>2, <1>3, <1>4
<1> QED
  BY <1>5 DEF Good

LEMMA CrInitTypes == CredInit => CredTypeOK
<1> SUFFICES ASSUME CredInit PROVE CredTypeOK
  OBVIOUS
<1> USE CredentialAssumption DEF CredInit, NoSecret
<1>1. CrEmpty \in CrSecrets
  BY DEF CrEmpty, CrSecrets
<1>2. CrNoCall \in [call : CrCalls, n : 0..CrMaxCalls]
  BY DEF CrNoCall, CrCalls
<1>3. crFile \in CrSecrets /\ crLast \in CrSecrets /\ crCopy \in [CrThreads -> CrSecrets]
  BY <1>1
<1>4. /\ crDone \in [call : CrCalls, n : 0..CrMaxCalls]
      /\ crCall \in [CrThreads -> [call : CrCalls, n : 0..CrMaxCalls]]
  BY <1>2
<1>5. crMutex \in SUBSET CrThreads /\ crCount \in 0..CrMaxCalls
  OBVIOUS
<1>6. /\ crPc \in [CrThreads -> {"idle", "next", "loaded"}]
      /\ crField \in [CrThreads -> 1..5]
  OBVIOUS
<1>7. {crCross, crTorn} \subseteq BOOLEAN
  OBVIOUS
<1>8. crSaved \in [CrTypes -> 0..CrMaxCalls]
  <2>1. crSaved = [type \in CrTypes |-> 0] /\ 0 \in 0..CrMaxCalls
    OBVIOUS
  <2> QED
    BY <2>1, Zenon
<1> QED
  BY <1>3, <1>4, <1>5, <1>6, <1>7, <1>8 DEF CredTypeOK

LEMMA CrLockInit == CredInit => CrLockInv
<1> SUFFICES ASSUME CredInit PROVE CrLockInv
  OBVIOUS
<1>1. \A t \in CrThreads : crPc[t] = "idle"
  BY DEF CredInit
<1>2. crMutex = {} /\ crFile = crLast
  BY DEF CredInit
<1> QED
  BY <1>1, <1>2, CrInitTypes DEF CrLockInv

\* What the end of a step of a call leaves of the types.
LEMMA CrEndTypes ==
  ASSUME CredTypeOK, NEW T \in SUBSET CrThreads, CrEnd(T)
  PROVE  /\ crMutex' \in SUBSET CrThreads
         /\ crPc' \in [CrThreads -> {"idle", "next", "loaded"}]
         /\ crCall' \in [CrThreads -> [call : CrCalls, n : 0..CrMaxCalls]]
         /\ crField' \in [CrThreads -> 1..5]
         /\ crCopy' \in [CrThreads -> CrSecrets]
         /\ \A t \in CrThreads : crPc'[t] = IF t \in T THEN "idle" ELSE crPc[t]
  BY CredentialAssumption
  DEF CredTypeOK, CrEnd, CrSecrets, CrEmpty, CrNoCall, CrCalls, NoSecret

LEMMA CrAdvanceTypes ==
  ASSUME CredTypeOK, NEW t \in CrThreads, CrAdvance(t)
  PROVE  /\ crMutex' = crMutex \ {t}
         /\ crPc' \in [CrThreads -> {"idle", "next", "loaded"}]
         /\ crCall' \in [CrThreads -> [call : CrCalls, n : 0..CrMaxCalls]]
         /\ crField' \in [CrThreads -> 1..5]
         /\ crCopy' \in [CrThreads -> CrSecrets]
         /\ crDone' \in [call : CrCalls, n : 0..CrMaxCalls]
         /\ crSaved' \in [CrTypes -> 0..CrMaxCalls]
         /\ \A u \in CrThreads : u # t =>
              crPc'[u] = crPc[u] /\ crCopy'[u] = crCopy[u] /\ crCall'[u] = crCall[u]
              /\ crField'[u] = crField[u]
         /\ crPc'[t] # "loaded"
<1>0. crCall[t].call \in CrCalls
  BY DEF CredTypeOK
<1>1. CASE crField[t] < Len(CrOrder(crCall[t].call))
  <2>1. Len(CrOrder(crCall[t].call)) \in 2..4
    BY <1>0, CrOrders
  <2>2. /\ crField' = [crField EXCEPT ![t] = @ + 1]
        /\ crPc' = [crPc EXCEPT ![t] = "next"]
        /\ crCopy' = [crCopy EXCEPT ![t] = CrEmpty]
        /\ crMutex' = crMutex \ {t}
        /\ UNCHANGED <<crCall, crDone, crSaved>>
    BY <1>1 DEF CrAdvance
  <2>3. crField[t] + 1 \in 1..5
    <3>1. PICK k \in 1..5 : k = crField[t]
      BY DEF CredTypeOK
    <3>2. PICK n \in 2..4 : n = Len(CrOrder(crCall[t].call))
      BY <2>1
    <3>3. k < n
      BY <1>1, <3>1, <3>2
    <3>4. k + 1 \in 1..5
      BY <3>3
    <3> QED
      BY <3>1, <3>4
  <2>4. CrEmpty \in CrSecrets
    BY CredentialAssumption DEF CrEmpty, CrSecrets, NoSecret
  <2> QED
    BY <2>2, <2>3, <2>4 DEF CredTypeOK
<1>2. CASE ~(crField[t] < Len(CrOrder(crCall[t].call)))
  <2>1. /\ CrEnd({t}) /\ crDone' = crCall[t]
        /\ crSaved' = [type \in CrTypes |->
             IF type = crCall[t].call /\ ~crTorn THEN crCall[t].n ELSE crSaved[type]]
    BY <1>2 DEF CrAdvance
  <2>2. \A u \in CrThreads : u # t =>
          crCopy'[u] = crCopy[u] /\ crCall'[u] = crCall[u] /\ crField'[u] = crField[u]
    BY <2>1 DEF CrEnd
  <2>3. /\ crMutex' \in SUBSET CrThreads
        /\ crPc' \in [CrThreads -> {"idle", "next", "loaded"}]
        /\ crCall' \in [CrThreads -> [call : CrCalls, n : 0..CrMaxCalls]]
        /\ crField' \in [CrThreads -> 1..5]
        /\ crCopy' \in [CrThreads -> CrSecrets]
        /\ \A u \in CrThreads : crPc'[u] = IF u = t THEN "idle" ELSE crPc[u]
    BY <2>1, CrEndTypes
  <2>4. crMutex' = crMutex \ {t}
    BY <2>1 DEF CrEnd
  <2>5. /\ crDone' \in [call : CrCalls, n : 0..CrMaxCalls]
        /\ crSaved' \in [CrTypes -> 0..CrMaxCalls]
    BY <2>1 DEF CredTypeOK
  <2> QED
    BY <2>2, <2>3, <2>4, <2>5
<1> QED
  BY <1>1, <1>2

LEMMA CrValueType ==
  ASSUME CredTypeOK, NEW t \in CrThreads
  PROVE  CrValue(crCall[t]) \in 0..CrMaxCalls
  BY CredentialAssumption DEF CredTypeOK, CrValue, NoSecret

LEMMA CrLockEnd ==
  ASSUME CrLockInv, NEW T \in SUBSET CrThreads, CrEnd(T), crTorn' \in BOOLEAN,
         UNCHANGED <<crFile, crCount, crLast, crCross, crDone, crSaved>>
  PROVE  CrLockInv'
<1>0. CredTypeOK
  BY DEF CrLockInv
<1>1. CredTypeOK'
  BY <1>0, CrEndTypes DEF CredTypeOK
<1>2. crMutex' = crMutex \ T /\ \A t \in CrThreads : t \notin T => crCopy'[t] = crCopy[t]
  BY DEF CrEnd
<1>3. crMutex' = {t \in CrThreads : crPc'[t] = "loaded"}
  BY <1>0, <1>2, CrEndTypes DEF CrLockInv
<1>4. crMutex' \subseteq crMutex /\ \A t \in crMutex' : crCopy'[t] = crCopy[t]
  BY <1>2, <1>3
<1> QED
  BY <1>1, <1>3, <1>4 DEF CrLockInv

LEMMA CrLockStep == CrLockInv /\ [CredNext]_credVars => CrLockInv'
<1> SUFFICES ASSUME CrLockInv, [CredNext]_credVars PROVE CrLockInv'
  OBVIOUS
<1> USE CredentialAssumption
<1>0. CredTypeOK
  BY DEF CrLockInv
<1>1. ASSUME NEW t \in CrThreads, CrBegin(t) PROVE CrLockInv'
  <2>1. PICK call \in CrCalls :
          /\ crCall' = [crCall EXCEPT ![t] = [call |-> call, n |-> crCount + 1]]
          /\ crSaved' = [type \in CrTypes |->
               IF call \in {type, "clear"} \/ CrRunning(CrThreads) # {} THEN 0 ELSE crSaved[type]]
    BY <1>1 DEF CrBegin
  <2>2. crSaved' \in [CrTypes -> 0..CrMaxCalls]
    BY <1>0, <2>1 DEF CredTypeOK
  <2> QED
    BY <1>1, <2>1, <2>2 DEF CrLockInv, CrBegin, CredTypeOK
<1>2. ASSUME NEW t \in CrThreads, CrLoad(t) PROVE CrLockInv'
  <2>1. CASE CrAdvance(t) /\ UNCHANGED crCross
    <3>1. t \notin crMutex
      BY <1>2 DEF CrLockInv, CrLoad
    <3> QED
      BY <1>0, <1>2, <2>1, <3>1, CrAdvanceTypes DEF CrLockInv, CrLoad, CredTypeOK
  <2>2. CASE ~(crCall[t].call = "clear" /\ crFile[CrField(t)] = NoSecret)
    <3>1. /\ crMutex' = crMutex \cup {t}
          /\ crPc' = [crPc EXCEPT ![t] = "loaded"]
          /\ crCopy' = [crCopy EXCEPT ![t] = crFile]
          /\ crCross' = (crCross \/ \E u \in CrThreads :
               crPc[u] = "loaded" /\ CrProviderOf[u] # CrProviderOf[t])
          /\ UNCHANGED <<crCall, crField, crDone, crSaved, crFile, crCount, crLast, crTorn>>
      BY <1>2, <2>2 DEF CrLoad
    <3>2. \A u \in crMutex : CrProviderOf[u] # CrProviderOf[t]
      BY <1>2 DEF CrLoad, CrMutexFree
    <3>3. CredTypeOK'
      BY <1>0, <3>1 DEF CredTypeOK
    <3>4. crMutex' = {u \in CrThreads : crPc'[u] = "loaded"}
      BY <1>0, <3>1 DEF CrLockInv, CredTypeOK
    <3>5. ~crCross' => crMutex = {}
      BY <3>1, <3>2 DEF CrLockInv
    <3> QED
      BY <1>0, <3>1, <3>2, <3>3, <3>4, <3>5 DEF CrLockInv, CredTypeOK
  <2> QED
    BY <1>2, <2>1, <2>2 DEF CrLoad
<1>3. ASSUME NEW t \in CrThreads, CrReplace(t) PROVE CrLockInv'
  <2>1. crFile' \in CrSecrets /\ crLast' \in CrSecrets
    BY <1>0, <1>3, CrValueType DEF CrReplace, CredTypeOK, CrSecrets
  <2>2. t \in crMutex /\ CrAdvance(t)
    BY <1>3 DEF CrLockInv, CrReplace
  <2>3. ~crCross => crFile' = crLast'
    BY <1>3, <2>2 DEF CrLockInv, CrReplace
  <2>4. ~crCross => crMutex' = {}
    BY <1>0, <2>2, CrAdvanceTypes DEF CrLockInv
  <2>5. CredTypeOK'
    BY <1>0, <1>3, <2>1, <2>2, CrAdvanceTypes DEF CrReplace, CredTypeOK
  <2> QED
    <3>1. crMutex' = crMutex \ {t} /\ crPc'[t] # "loaded"
          /\ \A u \in CrThreads : u # t => crPc'[u] = crPc[u]
      BY <1>0, <2>2, CrAdvanceTypes
    <3>2. crMutex' = {u \in CrThreads : crPc'[u] = "loaded"}
      BY <3>1 DEF CrLockInv
    <3>3. crCross' = crCross
      BY <1>3 DEF CrReplace
    <3> QED
      BY <2>3, <2>4, <2>5, <3>1, <3>2, <3>3 DEF CrLockInv
<1>4. ASSUME NEW t \in CrThreads, CrFails(t) PROVE CrLockInv'
  <2>1. CrEnd({t}) /\ {t} \in SUBSET CrThreads
    BY <1>4 DEF CrFails
  <2> QED
    BY <1>0, <1>4, <2>1, CrLockEnd DEF CrFails
<1>5. ASSUME NEW p \in CrProviders, CrDies(p) PROVE CrLockInv'
  <2> DEFINE T == {t \in CrThreads : CrProviderOf[t] = p}
  <2>1. CrEnd(T) /\ T \in SUBSET CrThreads
    BY <1>5 DEF CrDies
  <2> HIDE DEF T
  <2> QED
    BY <1>0, <1>5, <2>1, CrLockEnd DEF CrDies
<1>6. CASE UNCHANGED credVars
  BY <1>6 DEF CrLockInv, CredTypeOK, credVars
<1> QED
  BY <1>1, <1>2, <1>3, <1>4, <1>5, <1>6 DEF CredNext, CrSteps

\* The file holds of every secret what was last set or deleted of it, while no second
\* mutex guards the same file (fileProvider's read, change and rename).
THEOREM CredentialsKeepUpdates == CredSpec => []CrNoLostUpdate
<1>1. CredSpec => []CrLockInv
  BY CrLockInit, CrLockStep, PTL DEF CredSpec
<1>2. CrLockInv => CrNoLostUpdate
  BY DEF CrLockInv, CrNoLostUpdate
<1> QED
  BY <1>1, <1>2, PTL


\* The credential of the last call that ran alone and returned nil is whole.
CrDoneWhole ==
  ~crTorn /\ CrRunning(CrThreads) = {} /\ crDone.n > 0 =>
    \A i \in DOMAIN CrOrder(crDone.call) :
      crFile[CrOrder(crDone.call)[i]] = CrValue(crDone)

\* How far a call has come: the fields before its position hold its value, as long as
\* it runs alone.
CrWhole ==
  /\ \A t \in CrThreads :
       IF crPc[t] = "idle" THEN crField[t] = 1
       ELSE crField[t] \in 1..Len(CrOrder(crCall[t].call))
  /\ ~crTorn =>
       \A t \in CrThreads : crPc[t] # "idle" =>
         /\ \A u \in CrThreads : crPc[u] # "idle" => u = t
         /\ crPc[t] = "loaded" => crCopy[t] = crFile
         /\ \A i \in 1..(crField[t] - 1) :
              crFile[CrOrder(crCall[t].call)[i]] = CrValue(crCall[t])
  /\ CrDoneWhole

LEMMA CrWholeInit == CredInit => CrWhole
  BY DEF CredInit, CrWhole, CrDoneWhole, CrRunning, CrNoCall

\* The end of calls, other than by returning nil.
LEMMA CrWholeEnd ==
  ASSUME CredTypeOK, CrWhole, NEW T \in SUBSET CrThreads, CrEnd(T), crTorn' = TRUE
  PROVE  CrWhole'
<1>1. \A t \in CrThreads :
        /\ crPc'[t] = IF t \in T THEN "idle" ELSE crPc[t]
        /\ crField'[t] = IF t \in T THEN 1 ELSE crField[t]
        /\ crCall'[t] = IF t \in T THEN CrNoCall ELSE crCall[t]
  BY DEF CrEnd
<1>2. \A t \in CrThreads :
        IF crPc'[t] = "idle" THEN crField'[t] = 1
        ELSE crField'[t] \in 1..Len(CrOrder(crCall'[t].call))
  BY <1>1 DEF CrWhole
<1> QED
  BY <1>2 DEF CrWhole, CrDoneWhole

\* A field is done, and the file holds the call's value in it and what it held in the
\* others.
LEMMA CrWholeAdvance ==
  ASSUME CredTypeOK, CrWhole, NEW t \in CrThreads, crPc[t] # "idle", CrAdvance(t),
         crTorn' = crTorn, CrField(t) \in CrFields =>
           \A f \in CrFields : ~crTorn =>
             crFile'[f] = IF f = CrField(t) THEN CrValue(crCall[t]) ELSE crFile[f]
  PROVE  CrWhole'
<1> DEFINE order == CrOrder(crCall[t].call)
<1> DEFINE k == crField[t]
<1>1. /\ order \in Seq(CrFields) /\ Len(order) \in 2..4
      /\ \A i, j \in 1..Len(order) : order[i] = order[j] => i = j
  <2>1. crCall[t].call \in CrCalls
    BY DEF CredTypeOK
  <2> QED
    BY <2>1, CrOrders
<1>2. k \in 1..Len(order)
  BY DEF CrWhole
<1>3. CrField(t) = order[k] /\ CrField(t) \in CrFields
  BY <1>1, <1>2 DEF CrField
<1> HIDE DEF order, k
<1>4. ~crTorn => \A i \in 1..k : crFile'[order[i]] = CrValue(crCall[t])
  <2> SUFFICES ASSUME ~crTorn, NEW i \in 1..k PROVE crFile'[order[i]] = CrValue(crCall[t])
    OBVIOUS
  <2>1. i \in 1..Len(order) /\ order[i] \in CrFields
    BY <1>1, <1>2
  <2>2. CASE i = k
    BY <1>3, <2>1, <2>2
  <2>3. CASE i # k
    <3>1. i \in 1..(k - 1)
      BY <1>1, <1>2, <2>3
    <3>2. crFile[order[i]] = CrValue(crCall[t])
      BY <3>1 DEF CrWhole, order, k
    <3>3. order[i] # order[k]
      BY <1>1, <1>2, <2>1, <2>3
    <3> QED
      BY <1>3, <2>1, <3>2, <3>3
  <2> QED
    BY <2>2, <2>3
<1>5. CASE k < Len(order)
  <2>1. /\ crField' = [crField EXCEPT ![t] = k + 1]
        /\ crPc' = [crPc EXCEPT ![t] = "next"]
        /\ crCopy' = [crCopy EXCEPT ![t] = CrEmpty]
        /\ UNCHANGED crCall
    BY <1>5 DEF CrAdvance, order, k
  <2>2. k + 1 \in 1..Len(order) /\ (k + 1) - 1 = k
    BY <1>1, <1>2, <1>5
  <2>3. /\ crPc'[t] = "next" /\ crField'[t] = k + 1 /\ crCall'[t] = crCall[t]
        /\ \A u \in CrThreads : u # t =>
             crPc'[u] = crPc[u] /\ crField'[u] = crField[u] /\ crCall'[u] = crCall[u]
    BY <2>1 DEF CredTypeOK
  <2>4. CrDoneWhole'
    BY <2>3 DEF CrDoneWhole, CrRunning
  <2>5. \A u \in CrThreads :
          IF crPc'[u] = "idle" THEN crField'[u] = 1
          ELSE crField'[u] \in 1..Len(CrOrder(crCall'[u].call))
    BY <2>2, <2>3 DEF CrWhole, order
  <2>6. ~crTorn' => \A u \in CrThreads : crPc'[u] # "idle" => u = t
    BY <2>3 DEF CrWhole
  <2>7. ~crTorn' => \A i \in 1..(crField'[t] - 1) :
          crFile'[CrOrder(crCall'[t].call)[i]] = CrValue(crCall'[t])
    BY <1>4, <2>2, <2>3 DEF order
  <2> QED
    BY <2>3, <2>4, <2>5, <2>6, <2>7 DEF CrWhole, CrValue
<1>6. CASE ~(k < Len(order))
  <2>1. CrEnd({t}) /\ crDone' = crCall[t]
    BY <1>6 DEF CrAdvance, order, k
  <2>2. k = Len(order)
    BY <1>1, <1>2, <1>6
  <2>3. \A u \in CrThreads :
          /\ crPc'[u] = IF u = t THEN "idle" ELSE crPc[u]
          /\ crField'[u] = IF u = t THEN 1 ELSE crField[u]
          /\ crCall'[u] = IF u = t THEN CrNoCall ELSE crCall[u]
    BY <2>1 DEF CrEnd
  <2>4. \A u \in CrThreads :
          IF crPc'[u] = "idle" THEN crField'[u] = 1
          ELSE crField'[u] \in 1..Len(CrOrder(crCall'[u].call))
    BY <2>3 DEF CrWhole
  <2>5. ~crTorn' => \A u \in CrThreads : crPc'[u] = "idle"
    BY <2>3 DEF CrWhole
  <2>6. CrDoneWhole'
    <3>1. ~crTorn => \A i \in DOMAIN order : crFile'[order[i]] = CrValue(crCall[t])
      BY <1>1, <1>4, <2>2
    <3> QED
      BY <2>1, <3>1 DEF CrDoneWhole, order, CrValue
  <2> QED
    BY <2>4, <2>5, <2>6 DEF CrWhole
<1> QED
  BY <1>5, <1>6

LEMMA CrWholeStep == CrLockInv /\ CrWhole /\ [CredNext]_credVars => CrWhole'
<1> SUFFICES ASSUME CrLockInv, CrWhole, [CredNext]_credVars PROVE CrWhole'
  OBVIOUS
<1>0. CredTypeOK
  BY DEF CrLockInv
<1>1. ASSUME NEW t \in CrThreads, CrBegin(t) PROVE CrWhole'
  <2>1. PICK call \in CrCalls : crCall' = [crCall EXCEPT ![t] = [call |-> call, n |-> crCount + 1]]
    BY <1>1 DEF CrBegin
  <2>2. /\ crPc'[t] = "next" /\ crField'[t] = 1 /\ crCall'[t].call = call
        /\ \A u \in CrThreads : u # t => crPc'[u] = crPc[u] /\ crCall'[u] = crCall[u]
        /\ UNCHANGED <<crField, crCopy, crFile>>
    BY <1>0, <1>1, <2>1 DEF CrBegin, CredTypeOK, CrWhole
  <2>3. 1 \in 1..Len(CrOrder(call))
    <3>1. Len(CrOrder(call)) \in 2..4
      BY CrOrders, Zenon
    <3> QED
      BY <3>1
  <2>4. \A u \in CrThreads :
          IF crPc'[u] = "idle" THEN crField'[u] = 1
          ELSE crField'[u] \in 1..Len(CrOrder(crCall'[u].call))
    BY <2>2, <2>3 DEF CrWhole
  <2>5. ~crTorn' => \A u \in CrThreads : crPc[u] = "idle"
    BY <1>1 DEF CrBegin, CrRunning
  <2>6. CrDoneWhole'
    BY <2>2 DEF CrDoneWhole, CrRunning
  <2> QED
    BY <2>2, <2>4, <2>5, <2>6 DEF CrWhole
<1>2. ASSUME NEW t \in CrThreads, CrLoad(t) PROVE CrWhole'
  <2>1. CASE crCall[t].call = "clear" /\ crFile[CrField(t)] = NoSecret
    <3>1. CrAdvance(t) /\ UNCHANGED <<crFile, crTorn>> /\ crPc[t] # "idle"
      BY <1>2, <2>1 DEF CrLoad
    <3>2. CrValue(crCall[t]) = crFile[CrField(t)]
      BY <2>1 DEF CrValue
    <3> QED
      BY <1>0, <3>1, <3>2, CrWholeAdvance
  <2>2. CASE ~(crCall[t].call = "clear" /\ crFile[CrField(t)] = NoSecret)
    <3>1. /\ crPc' = [crPc EXCEPT ![t] = "loaded"]
          /\ crCopy' = [crCopy EXCEPT ![t] = crFile]
          /\ UNCHANGED <<crCall, crField, crDone, crFile, crTorn>>
          /\ crPc[t] = "next"
      BY <1>2, <2>2 DEF CrLoad
    <3>2. /\ crPc'[t] = "loaded" /\ crCopy'[t] = crFile
          /\ \A u \in CrThreads : u # t => crPc'[u] = crPc[u] /\ crCopy'[u] = crCopy[u]
      BY <1>0, <3>1 DEF CredTypeOK
    <3>3. CrDoneWhole'
      BY <3>2 DEF CrDoneWhole, CrRunning
    <3> QED
      BY <3>1, <3>2, <3>3 DEF CrWhole, CrValue
  <2> QED
    BY <2>1, <2>2
<1>3. ASSUME NEW t \in CrThreads, CrReplace(t) PROVE CrWhole'
  <2>1. /\ CrAdvance(t) /\ crTorn' = crTorn /\ crPc[t] = "loaded"
        /\ crFile' = [crCopy[t] EXCEPT ![CrField(t)] = CrValue(crCall[t])]
    BY <1>3 DEF CrReplace
  <2>2. ~crTorn => crCopy[t] = crFile
    BY <2>1 DEF CrWhole
  <2>3. crFile \in CrSecrets
    BY <1>0 DEF CredTypeOK
  <2>4. ~crTorn => \A f \in CrFields :
          crFile'[f] = IF f = CrField(t) THEN CrValue(crCall[t]) ELSE crFile[f]
    BY <2>1, <2>2, <2>3 DEF CrSecrets
  <2> QED
    BY <1>0, <2>1, <2>4, CrWholeAdvance
<1>4. ASSUME NEW t \in CrThreads, CrFails(t) PROVE CrWhole'
  BY <1>0, <1>4, CrWholeEnd DEF CrFails
<1>5. ASSUME NEW p \in CrProviders, CrDies(p) PROVE CrWhole'
  BY <1>0, <1>5, CrWholeEnd DEF CrDies
<1>6. CASE UNCHANGED credVars
  BY <1>6 DEF CrWhole, CrDoneWhole, CrRunning, CrValue, credVars
<1> QED
  BY <1>1, <1>2, <1>3, <1>4, <1>5, <1>6 DEF CredNext, CrSteps

\* What is saved of a type stays in the file beside a save of the other type that runs
\* alone, and a tenant with it.
CrSaves ==
  /\ \A t \in CrThreads : crPc[t] # "idle" => crCall[t].n > 0
  /\ \A type \in CrTypes : crSaved[type] > 0 =>
       /\ \A f \in CrOwn(type) : crFile[f] = crSaved[type]
       /\ crFile["tenant_domain"] # NoSecret
       /\ \A t \in CrThreads : crPc[t] # "idle" =>
            /\ crCall[t].call \notin {type, "clear"}
            /\ \A u \in CrThreads : crPc[u] # "idle" => u = t
            /\ crPc[t] = "loaded" => crCopy[t] = crFile

\* The fields of a save are its type's own secrets, then the tenant.
LEMMA CrOwnOrder ==
  ASSUME NEW type \in CrTypes
  PROVE  /\ type \in CrCalls /\ type # "clear"
         /\ CrOwn(type) \subseteq CrFields \ {"tenant_domain"}
         /\ \A f \in CrOwn(type) \cup {"tenant_domain"} :
              \E i \in DOMAIN CrOrder(type) : CrOrder(type)[i] = f
         /\ \A call \in CrCalls \ {type, "clear"} : \A i \in 1..Len(CrOrder(call)) :
              CrOrder(call)[i] \notin CrOwn(type)
<1>1. /\ CrOrder("saveKey") = <<"api_key", "tenant_domain">>
      /\ CrOrder("saveToken") = <<"token", "refresh_token", "tenant_domain">>
  BY DEF CrOrder
<1>2. CASE type = "saveKey"
  <2>1. CrOwn(type) = {"api_key"} /\ \A call \in CrCalls \ {type, "clear"} : call = "saveToken"
    BY <1>2 DEF CrOwn, CrCalls
  <2> QED
    BY <1>1, <1>2, <2>1 DEF CrCalls, CrFields
<1>3. CASE type = "saveToken"
  <2>1. /\ CrOwn(type) = {"token", "refresh_token"}
        /\ \A call \in CrCalls \ {type, "clear"} : call = "saveKey"
    BY <1>3 DEF CrOwn, CrCalls
  <2> QED
    BY <1>1, <1>3, <2>1 DEF CrCalls, CrFields
<1> QED
  BY <1>2, <1>3 DEF CrTypes

LEMMA CrSavesInit == CredInit => CrSaves
  BY DEF CredInit, CrSaves

LEMMA CrSavesEnd ==
  ASSUME CrSaves, NEW T \in SUBSET CrThreads, CrEnd(T), UNCHANGED <<crFile, crSaved>>
  PROVE  CrSaves'
<1>1. \A t \in CrThreads :
        /\ crPc'[t] # "idle" => crPc'[t] = crPc[t] /\ crPc[t] # "idle"
                                /\ crCall'[t] = crCall[t] /\ crCopy'[t] = crCopy[t]
  BY DEF CrEnd
<1> QED
  BY <1>1 DEF CrSaves

\* A field is done: of a type that is saved the file holds what it held, and a tenant.
LEMMA CrSavesAdvance ==
  ASSUME CredTypeOK, CrWhole, CrWhole', CrSaves, NEW t \in CrThreads, crPc[t] # "idle", CrAdvance(t),
         crTorn' = crTorn,
         \A type \in CrTypes : crSaved[type] > 0 =>
           /\ \A f \in CrOwn(type) : crFile'[f] = crFile[f]
           /\ crFile'["tenant_domain"] # NoSecret
  PROVE  CrSaves'
<1>1. /\ crPc'[t] # "loaded"
      /\ \A u \in CrThreads : u # t =>
           crPc'[u] = crPc[u] /\ crCopy'[u] = crCopy[u] /\ crCall'[u] = crCall[u]
  BY CrAdvanceTypes
<1>2. CASE crField[t] < Len(CrOrder(crCall[t].call))
  <2>1. UNCHANGED <<crCall, crSaved>>
    BY <1>2 DEF CrAdvance
  <2> QED
    BY <1>1, <2>1 DEF CrSaves
<1>3. CASE ~(crField[t] < Len(CrOrder(crCall[t].call)))
  <2>1. /\ CrEnd({t}) /\ crDone' = crCall[t]
        /\ crSaved' = [type \in CrTypes |->
             IF type = crCall[t].call /\ ~crTorn THEN crCall[t].n ELSE crSaved[type]]
    BY <1>3 DEF CrAdvance
  <2>2. crPc'[t] = "idle"
    BY <2>1 DEF CrEnd
  <2>3. \A u \in CrThreads : crPc'[u] # "idle" => crCall'[u].n > 0
    BY <1>1, <2>2 DEF CrSaves
  <2>4. ASSUME NEW type \in CrTypes, crSaved'[type] > 0
        PROVE  /\ \A f \in CrOwn(type) : crFile'[f] = crSaved'[type]
               /\ crFile'["tenant_domain"] # NoSecret
               /\ \A u \in CrThreads : crPc'[u] = "idle"
    <3>1. CASE type = crCall[t].call /\ ~crTorn
      <4>1. \A u \in CrThreads : crPc'[u] = "idle"
        BY <1>1, <2>2, <3>1 DEF CrWhole
      <4>2. crSaved'[type] = crCall[t].n /\ type # "clear"
        BY <2>1, <3>1, CrOwnOrder
      <4>3. \A i \in DOMAIN CrOrder(type) : crFile'[CrOrder(type)[i]] = crCall[t].n
        <5>1. CrDoneWhole'
          BY DEF CrWhole
        <5>2. ~crTorn' /\ CrRunning(CrThreads)' = {} /\ crDone'.n > 0 /\ crDone'.call = type
          BY <2>1, <2>4, <3>1, <4>1, <4>2 DEF CrRunning
        <5>3. CrValue(crDone)' = crCall[t].n
          BY <2>1, <3>1, <4>2 DEF CrValue
        <5>4. \A i \in DOMAIN CrOrder(crDone'.call) : crFile'[CrOrder(crDone'.call)[i]] = CrValue(crDone)'
          BY <5>1, <5>2 DEF CrDoneWhole
        <5> QED
          BY <5>2, <5>3, <5>4
      <4>4. \A f \in CrOwn(type) \cup {"tenant_domain"} : crFile'[f] = crCall[t].n
        BY <4>3, CrOwnOrder
      <4>5. crCall[t].n # NoSecret
        BY <2>4, <4>2 DEF NoSecret
      <4> QED
        BY <4>1, <4>2, <4>4, <4>5
    <3>2. CASE ~(type = crCall[t].call /\ ~crTorn)
      <4>1. crSaved'[type] = crSaved[type] /\ crSaved[type] > 0
        BY <2>1, <2>4, <3>2
      <4>2. \A u \in CrThreads : crPc[u] # "idle" => u = t
        BY <4>1 DEF CrSaves
      <4> QED
        BY <1>1, <2>2, <4>1, <4>2 DEF CrSaves
    <3> QED
      BY <3>1, <3>2
  <2> QED
    BY <2>3, <2>4 DEF CrSaves
<1> QED
  BY <1>2, <1>3

LEMMA CrSavesStep == CrLockInv /\ CrWhole /\ CrWhole' /\ CrSaves /\ [CredNext]_credVars => CrSaves'
<1> SUFFICES ASSUME CrLockInv, CrWhole, CrWhole', CrSaves, [CredNext]_credVars PROVE CrSaves'
  OBVIOUS
<1>0. CredTypeOK
  BY DEF CrLockInv
<1>1. ASSUME NEW t \in CrThreads, CrBegin(t) PROVE CrSaves'
  <2>1. PICK call \in CrCalls :
          /\ crCall' = [crCall EXCEPT ![t] = [call |-> call, n |-> crCount + 1]]
          /\ crSaved' = [type \in CrTypes |->
               IF call \in {type, "clear"} \/ CrRunning(CrThreads) # {} THEN 0 ELSE crSaved[type]]
    BY <1>1 DEF CrBegin
  <2>2. /\ crPc'[t] = "next" /\ crCall'[t].call = call /\ crCall'[t].n = crCount + 1
        /\ \A u \in CrThreads : u # t => crPc'[u] = crPc[u] /\ crCall'[u] = crCall[u]
        /\ crFile' = crFile /\ crCount + 1 > 0
    BY <1>0, <1>1, <2>1 DEF CrBegin, CredTypeOK
  <2>3. ASSUME NEW type \in CrTypes, crSaved'[type] > 0
        PROVE  /\ call \notin {type, "clear"} /\ crSaved'[type] = crSaved[type]
               /\ \A u \in CrThreads : crPc[u] = "idle"
    BY <2>1, <2>3 DEF CrRunning
  <2> QED
    BY <2>2, <2>3 DEF CrSaves
<1>2. ASSUME NEW t \in CrThreads, CrLoad(t) PROVE CrSaves'
  <2>1. CASE crCall[t].call = "clear" /\ crFile[CrField(t)] = NoSecret
    <3>1. CrAdvance(t) /\ UNCHANGED <<crFile, crTorn>> /\ crPc[t] # "idle"
      BY <1>2, <2>1 DEF CrLoad
    <3>2. \A type \in CrTypes : ~(crSaved[type] > 0)
      BY <2>1, <3>1 DEF CrSaves
    <3> QED
      BY <1>0, <3>1, <3>2, CrSavesAdvance
  <2>2. CASE ~(crCall[t].call = "clear" /\ crFile[CrField(t)] = NoSecret)
    <3>1. /\ crPc' = [crPc EXCEPT ![t] = "loaded"]
          /\ crCopy' = [crCopy EXCEPT ![t] = crFile]
          /\ UNCHANGED <<crCall, crSaved, crFile>>
          /\ crPc[t] = "next"
      BY <1>2, <2>2 DEF CrLoad
    <3>2. /\ crPc'[t] = "loaded" /\ crCopy'[t] = crFile
          /\ \A u \in CrThreads : u # t => crPc'[u] = crPc[u] /\ crCopy'[u] = crCopy[u]
      BY <1>0, <3>1 DEF CredTypeOK
    <3> QED
      BY <3>1, <3>2 DEF CrSaves
  <2> QED
    BY <2>1, <2>2
<1>3. ASSUME NEW t \in CrThreads, CrReplace(t) PROVE CrSaves'
  <2>1. /\ CrAdvance(t) /\ crTorn' = crTorn /\ crPc[t] = "loaded"
        /\ crFile' = [crCopy[t] EXCEPT ![CrField(t)] = CrValue(crCall[t])]
    BY <1>3 DEF CrReplace
  <2>2. ASSUME NEW type \in CrTypes, crSaved[type] > 0
        PROVE  /\ \A f \in CrOwn(type) : crFile'[f] = crFile[f]
               /\ crFile'["tenant_domain"] # NoSecret
    <3>1. /\ crCall[t].call \in CrCalls \ {type, "clear"} /\ crCall[t].n > 0
          /\ crCopy[t] = crFile /\ crFile \in CrSecrets /\ crFile["tenant_domain"] # NoSecret
      BY <1>0, <2>1, <2>2 DEF CrSaves, CredTypeOK
    <3>2. crField[t] \in 1..Len(CrOrder(crCall[t].call))
      BY <2>1 DEF CrWhole
    <3>3. CrField(t) \notin CrOwn(type)
      BY <3>1, <3>2, CrOwnOrder DEF CrField
    <3>4. CrValue(crCall[t]) # NoSecret
      BY <3>1 DEF CrValue, NoSecret
    <3>5. \A f \in CrFields :
            crFile'[f] = IF f = CrField(t) THEN CrValue(crCall[t]) ELSE crFile[f]
      BY <2>1, <3>1 DEF CrSecrets
    <3>6. "tenant_domain" \in CrFields
      BY DEF CrFields
    <3> QED
      BY <3>1, <3>3, <3>4, <3>5, <3>6, CrOwnOrder
  <2> QED
    BY <1>0, <2>1, <2>2, CrSavesAdvance
<1>4. ASSUME NEW t \in CrThreads, CrFails(t) PROVE CrSaves'
  BY <1>4, CrSavesEnd DEF CrFails
<1>5. ASSUME NEW p \in CrProviders, CrDies(p) PROVE CrSaves'
  BY <1>5, CrSavesEnd DEF CrDies
<1>6. CASE UNCHANGED credVars
  BY <1>6 DEF CrSaves, credVars
<1> QED
  BY <1>1, <1>2, <1>3, <1>4, <1>5, <1>6 DEF CredNext, CrSteps

LEMMA CrWholeSaved == CrWhole /\ CrSaves => CrSavedWhole
  BY DEF CrWhole, CrDoneWhole, CrSaves, CrSavedWhole

\* A credential whose call ran alone and returned nil is in the file as a whole, and its
\* own secrets stay together there beside the other type's saves (the order of the Sets
\* and their error returns).
THEOREM CredentialsAreWhole == CredSpec => []CrSavedWhole
<1>1. CredSpec => []CrLockInv
  BY CrLockInit, CrLockStep, PTL DEF CredSpec
<1>2. CredSpec => []CrWhole
  BY <1>1, CrWholeInit, CrWholeStep, PTL DEF CredSpec
<1>3. CredSpec => []CrSaves
  BY <1>1, <1>2, CrSavesInit, CrSavesStep, PTL DEF CredSpec
<1> QED
  BY <1>2, <1>3, CrWholeSaved, PTL

-----------------------------------------------------------------------------
(* Reading credentials back *)

RsTypes ==
  /\ rsPc \in {"idle", "reading", "ok", "none"} /\ rsFailed \in BOOLEAN /\ rsAlone \in BOOLEAN
  /\ rsRead \in Seq(Nat)
  /\ rsPc = "idle" => ~rsAlone /\ rsRead = <<>> /\ rsAt = 1
  /\ rsPc # "idle" => rsChain \in RsChains /\ rsAt \in 1..Len(rsChain)
  /\ rsPc = "reading" => Len(rsRead) < Len(RsOrder(RsType))
  /\ rsPc = "ok" => Len(rsRead) = Len(RsOrder(RsType))

\* The resolver of a type that is saved reads that save and the tenant saved last, and
\* is not passed over.
RsInv ==
  /\ RsTypes
  /\ rsAlone =>
       /\ \A t \in CrThreads : crPc[t] = "idle"
       /\ crSaved[RsType] > 0 =>
            \A i \in 1..Len(rsRead) : i < Len(RsOrder(RsType)) => rsRead[i] = crSaved[RsType]
       /\ rsPc = "ok" /\ ~crTorn /\ crDone.n > 0 => rsRead[Len(rsRead)] = crDone.n
       /\ ~rsFailed => \A i \in 1..(rsAt - 1) : crSaved[rsChain[i]] = 0
       /\ rsPc = "none" /\ ~rsFailed => \A i \in DOMAIN rsChain : crSaved[rsChain[i]] = 0
       /\ ~crTorn /\ crDone.n > 0 /\ crDone.call = "clear" => rsPc # "ok" /\ rsRead = <<>>

LEMMA RsChainTypes ==
  ASSUME NEW ch \in RsChains
  PROVE  /\ ch \in Seq(CrTypes) /\ Len(ch) \in Nat \ {0}
         /\ \A i \in 1..Len(ch) : ch[i] \in CrTypes
<1>1. ch \in Seq(CrTypes) /\ ch # <<>>
  BY ResolverAssumption
<1> QED
  BY <1>1

\* A resolver reads its type's own secrets, the refresh token not first, then the tenant.
LEMMA RsOrders ==
  ASSUME NEW type \in CrTypes
  PROVE  /\ Len(RsOrder(type)) \in 2..3
         /\ RsOrder(type)[1] # "refresh_token"
         /\ \A i \in 1..Len(RsOrder(type)) : RsOrder(type)[i] \in CrFields
         /\ \A i \in 1..Len(RsOrder(type)) : i < Len(RsOrder(type)) => RsOrder(type)[i] \in CrOwn(type)
         /\ RsOrder(type)[Len(RsOrder(type))] = "tenant_domain"
<1>1. CASE type = "saveKey"
  <2>1. RsOrder(type) = <<"api_key", "tenant_domain">> /\ CrOwn(type) = {"api_key"}
    BY <1>1 DEF RsOrder, CrOwn
  <2> QED
    BY <2>1 DEF CrFields
<1>2. CASE type = "saveToken"
  <2>1. /\ RsOrder(type) = <<"token", "refresh_token", "tenant_domain">>
        /\ CrOwn(type) = {"token", "refresh_token"}
    BY <1>2 DEF RsOrder, CrOwn
  <2> QED
    BY <2>1 DEF CrFields
<1> QED
  BY <1>1, <1>2 DEF CrTypes

\* What the Get of the next secret finds.
LEMMA RsReading ==
  ASSUME CredTypeOK, CrWhole, CrSaves, RsTypes, rsPc = "reading"
  PROVE  /\ RsType \in CrTypes /\ RsField \in CrFields
         /\ Len(rsRead) + 1 \in 1..Len(RsOrder(RsType)) /\ Len(RsOrder(RsType)) \in 2..3
         /\ (rsRead = <<>> => RsField # "refresh_token")
         /\ crSaved[RsType] \in Nat
         /\ crSaved[RsType] > 0 =>
              /\ crFile[RsField] # NoSecret
              /\ Len(rsRead) + 1 < Len(RsOrder(RsType)) => crFile[RsField] = crSaved[RsType]
         /\ ~crTorn /\ crDone.n > 0 /\ (\A t \in CrThreads : crPc[t] = "idle") =>
              /\ crDone.call = "clear" => crFile[RsField] = NoSecret
              /\ crDone.call # "clear" /\ Len(rsRead) + 1 = Len(RsOrder(RsType)) =>
                   crFile[RsField] = crDone.n
<1>1. rsAt \in 1..Len(rsChain) /\ rsChain \in RsChains
  BY DEF RsTypes
<1>2. RsType \in CrTypes
  BY <1>1, RsChainTypes DEF RsType
<1>3. Len(rsRead) + 1 \in 1..Len(RsOrder(RsType)) /\ Len(RsOrder(RsType)) \in 2..3
  BY <1>2, RsOrders DEF RsTypes
<1>4. /\ RsField \in CrFields /\ (rsRead = <<>> => RsField # "refresh_token")
      /\ Len(rsRead) + 1 < Len(RsOrder(RsType)) => RsField \in CrOwn(RsType)
      /\ Len(rsRead) + 1 = Len(RsOrder(RsType)) => RsField = "tenant_domain"
  BY <1>2, <1>3, RsOrders DEF RsField
<1>5. crSaved[RsType] \in Nat
  BY <1>2, CredentialAssumption DEF CredTypeOK
<1>6. ASSUME crSaved[RsType] > 0
      PROVE  /\ crFile[RsField] # NoSecret
             /\ Len(rsRead) + 1 < Len(RsOrder(RsType)) => crFile[RsField] = crSaved[RsType]
  <2>1. Len(rsRead) + 1 < Len(RsOrder(RsType)) \/ Len(rsRead) + 1 = Len(RsOrder(RsType))
    BY <1>3
  <2> QED
    BY <1>2, <1>4, <1>5, <1>6, <2>1 DEF CrSaves, NoSecret
<1>7. ASSUME ~crTorn, crDone.n > 0, \A t \in CrThreads : crPc[t] = "idle"
      PROVE  /\ crDone.call = "clear" => crFile[RsField] = NoSecret
             /\ crDone.call # "clear" /\ Len(rsRead) + 1 = Len(RsOrder(RsType)) =>
                  crFile[RsField] = crDone.n
  <2>1. \A i \in DOMAIN CrOrder(crDone.call) :
          crFile[CrOrder(crDone.call)[i]] = CrValue(crDone)
    BY <1>7 DEF CrWhole, CrDoneWhole, CrRunning
  <2>2. ASSUME crDone.call = "clear" PROVE crFile[RsField] = NoSecret
    <3>1. CrOrder("clear") = <<"api_key", "token", "refresh_token", "tenant_domain">>
      BY DEF CrOrder
    <3>2. \A f \in CrFields : \E i \in DOMAIN CrOrder("clear") : CrOrder("clear")[i] = f
      BY <3>1 DEF CrFields
    <3> QED
      BY <1>4, <2>1, <2>2, <3>2 DEF CrValue
  <2>3. ASSUME crDone.call # "clear", Len(rsRead) + 1 = Len(RsOrder(RsType))
        PROVE  crFile[RsField] = crDone.n
    <3>1. crDone.call \in CrTypes
      BY <2>3 DEF CredTypeOK, CrCalls, CrTypes
    <3>2. \E i \in DOMAIN CrOrder(crDone.call) : CrOrder(crDone.call)[i] = "tenant_domain"
      BY <3>1, CrOwnOrder
    <3> QED
      BY <1>4, <2>1, <2>3, <3>2 DEF CrValue
  <2> QED
    BY <2>2, <2>3
<1> QED
  BY <1>2, <1>3, <1>4, <1>5, <1>6, <1>7

\* The chain goes on after a failed read, or past a resolver of a type that is not saved.
LEMMA RsNextKeeps ==
  ASSUME RsInv, rsPc = "reading", RsNextResolver, UNCHANGED <<rsAlone, credVars>>,
         rsFailed' \in BOOLEAN, rsFailed => rsFailed',
         rsAlone /\ ~rsFailed' => crSaved[RsType] = 0
  PROVE  RsInv'
<1>1. RsTypes /\ rsChain \in RsChains /\ rsAt \in 1..Len(rsChain)
  BY DEF RsInv, RsTypes
<1>2. rsRead' = <<>> /\ UNCHANGED <<rsChain, rsAlone, crPc, crSaved, crTorn, crDone>>
  BY DEF RsNextResolver, credVars
<1>3. Len(rsChain) \in Nat \ {0} /\ DOMAIN rsChain = 1..Len(rsChain)
      /\ \A i \in 1..Len(rsChain) : rsChain[i] \in CrTypes
  BY <1>1, RsChainTypes
<1>4. rsAlone /\ ~rsFailed' => \A i \in 1..rsAt : crSaved[rsChain[i]] = 0
  BY <1>1 DEF RsInv, RsType
<1>5. CASE rsAt < Len(rsChain)
  <2>1. rsAt' = rsAt + 1 /\ rsPc' = rsPc /\ rsAt' \in 1..Len(rsChain)
    BY <1>1, <1>3, <1>5 DEF RsNextResolver
  <2>2. RsType' \in CrTypes
    BY <1>2, <1>3, <2>1 DEF RsType
  <2>3. Len(rsRead') < Len(RsOrder(RsType'))
    BY <1>2, <2>2, RsOrders
  <2>4. RsTypes'
    <3>1. RsOrder(RsType)' = RsOrder(RsType')
      BY DEF RsOrder
    <3> QED
      BY <1>1, <1>2, <2>1, <2>3, <3>1 DEF RsTypes
  <2>5. rsAt' - 1 = rsAt /\ 1..Len(rsRead') = {}
    BY <1>1, <1>2, <2>1
  <2> QED
    BY <1>2, <1>4, <2>1, <2>4, <2>5 DEF RsInv
<1>6. CASE ~(rsAt < Len(rsChain))
  <2>1. rsAt' = rsAt /\ rsPc' = "none" /\ rsAt = Len(rsChain)
    <3>1. rsAt' = rsAt /\ rsPc' = "none"
      BY <1>6 DEF RsNextResolver
    <3>2. rsAt \in 1..Len(rsChain) /\ Len(rsChain) \in Nat
      BY <1>1, <1>3
    <3>3. rsAt = Len(rsChain)
      BY <3>2, <1>6
    <3> QED
      BY <3>1, <3>3
  <2>2. RsTypes'
    BY <1>1, <1>2, <2>1 DEF RsTypes
  <2>3. 1..Len(rsRead') = {}
    BY <1>2
  <2> QED
    BY <1>2, <1>3, <1>4, <2>1, <2>2, <2>3 DEF RsInv
<1> QED
  BY <1>5, <1>6

LEMMA RsInvStep ==
  CrLockInv /\ CrWhole /\ CrSaves /\ RsInv /\ [RsNext]_<<credVars, rsVars>> => RsInv'
<1> SUFFICES ASSUME CrLockInv, CrWhole, CrSaves, RsInv, [RsNext]_<<credVars, rsVars>>
             PROVE  RsInv'
  OBVIOUS
<1>0. RsTypes /\ CredTypeOK
  BY DEF RsInv, CrLockInv
<1>1. CASE RsBegin /\ UNCHANGED credVars
  <2>1. /\ rsPc = "idle" /\ rsPc' = "reading" /\ rsChain' \in RsChains
        /\ rsAlone' = (CrRunning(CrThreads) = {})
        /\ UNCHANGED <<rsAt, rsRead, rsFailed>> /\ UNCHANGED <<crPc, crSaved, crTorn, crDone>>
        /\ rsAt = 1 /\ rsRead = <<>>
    BY <1>0, <1>1 DEF RsBegin, RsTypes, credVars
  <2>2. rsAlone' => \A t \in CrThreads : crPc'[t] = "idle"
    BY <2>1 DEF CrRunning
  <2>3. Len(rsChain') \in Nat \ {0} /\ rsAt' \in 1..Len(rsChain') /\ RsType' \in CrTypes
    BY <2>1, RsChainTypes DEF RsType
  <2>4. Len(rsRead') < Len(RsOrder(RsType'))
    BY <2>1, <2>3, RsOrders
  <2>5. RsTypes'
    <3>1. RsOrder(RsType)' = RsOrder(RsType')
      BY DEF RsOrder
    <3>2. rsAlone' \in BOOLEAN
      BY <2>1
    <3> QED
      BY <1>0, <2>1, <2>3, <2>4, <3>1, <3>2 DEF RsTypes
  <2>6. 1..Len(rsRead') = {} /\ 1..(rsAt' - 1) = {}
    BY <2>1
  <2> QED
    BY <2>1, <2>2, <2>5, <2>6 DEF RsInv
<1>2. CASE RsGet /\ UNCHANGED credVars
  <2>1. rsPc = "reading" /\ UNCHANGED <<rsFailed, rsAlone>>
        /\ UNCHANGED <<crPc, crSaved, crTorn, crDone, crFile>>
    BY <1>2 DEF RsGet, credVars
  <2>2. CASE crFile[RsField] = NoSecret /\ RsField # "refresh_token"
    <3>1. RsNextResolver
      BY <1>2, <2>2 DEF RsGet
    <3>2. crSaved[RsType] = 0
      BY <1>0, <2>1, <2>2, RsReading
    <3>3. rsFailed' \in BOOLEAN
      BY <1>0, <2>1 DEF RsTypes
    <3> QED
      BY <1>2, <2>1, <3>1, <3>2, <3>3, RsNextKeeps
  <2>3. CASE ~(crFile[RsField] = NoSecret /\ RsField # "refresh_token")
    <3> DEFINE v == crFile[RsField]
    <3> DEFINE n == Len(RsOrder(RsType))
    <3>1. RsHas(v)
      BY <1>2, <2>3 DEF RsGet
    <3>2. v \in Nat
      BY <1>0, <2>1, RsReading, CredentialAssumption DEF CredTypeOK, CrSecrets
    <3>3. /\ crSaved[RsType] > 0 /\ Len(rsRead) + 1 < n => v = crSaved[RsType]
          /\ rsAlone /\ ~crTorn /\ crDone.n > 0 /\ Len(rsRead) + 1 = n /\ crDone.call # "clear" =>
               v = crDone.n
      BY <1>0, <2>1, RsReading DEF RsInv
    <3>4. rsAlone => ~(~crTorn /\ crDone.n > 0 /\ crDone.call = "clear")
      <4> SUFFICES ASSUME rsAlone, ~crTorn, crDone.n > 0, crDone.call = "clear" PROVE FALSE
        OBVIOUS
      <4>1. rsRead = <<>> /\ \A t \in CrThreads : crPc[t] = "idle"
        BY DEF RsInv
      <4>2. crFile[RsField] = NoSecret /\ RsField # "refresh_token"
        BY <1>0, <2>1, <4>1, RsReading
      <4> QED
        BY <2>3, <4>2
    <3>5. Len(rsRead) + 1 \in 1..n /\ n \in 2..3
      BY <1>0, <2>1, RsReading
    <3>6. RsType' = RsType /\ RsOrder(RsType)' = RsOrder(RsType)
      BY <3>1 DEF RsHas, RsType, RsOrder
    <3>7. /\ rsRead' = Append(rsRead, v) /\ UNCHANGED <<rsChain, rsAt>>
          /\ rsPc' = IF Len(rsRead') = n THEN "ok" ELSE "reading"
      BY <3>1 DEF RsHas
    <3> HIDE DEF v
    <3>8. /\ rsRead' \in Seq(Nat) /\ Len(rsRead') = Len(rsRead) + 1
          /\ \A i \in 1..Len(rsRead') :
               rsRead'[i] = IF i = Len(rsRead) + 1 THEN v ELSE rsRead[i]
          /\ Len(rsRead) \in Nat
      BY <1>0, <3>2, <3>7 DEF RsTypes
    <3>9. RsTypes'
      <4>1. /\ rsPc' = "reading" => Len(rsRead') < n
            /\ rsPc' = "ok" => Len(rsRead') = n
            /\ rsPc' \in {"reading", "ok"}
        BY <3>5, <3>7, <3>8
      <4> QED
        BY <1>0, <2>1, <3>6, <3>7, <3>8, <4>1 DEF RsTypes
    <3>10. ASSUME rsAlone, crSaved[RsType] > 0, NEW i \in 1..Len(rsRead'), i < n
           PROVE  rsRead'[i] = crSaved[RsType]
      <4>1. CASE i = Len(rsRead) + 1
        BY <3>3, <3>8, <3>10, <4>1
      <4>2. CASE i # Len(rsRead) + 1
        <5>1. i \in 1..Len(rsRead)
          BY <3>8, <4>2
        <5> QED
          BY <3>8, <3>10, <4>2, <5>1 DEF RsInv
      <4> QED
        BY <4>1, <4>2
    <3>11. ASSUME rsAlone, rsPc' = "ok", ~crTorn, crDone.n > 0 PROVE rsRead'[Len(rsRead')] = crDone.n
      <4>1. Len(rsRead') = n /\ Len(rsRead) + 1 = n
        BY <3>7, <3>8, <3>11
      <4>2. rsRead'[Len(rsRead')] = v
        BY <3>8
      <4> QED
        BY <3>3, <3>4, <3>11, <4>1, <4>2
    <3>12. rsPc' # "none"
      BY <3>7
    <3> HIDE DEF n
    <3> QED
      BY <2>1, <3>4, <3>6, <3>7, <3>9, <3>10, <3>11, <3>12 DEF RsInv, n
  <2> QED
    BY <2>2, <2>3
<1>3. CASE RsGetFails /\ UNCHANGED credVars
  BY <1>3, RsNextKeeps DEF RsGetFails
<1>4. CASE RsCredStep
  <2>1. rsAlone' = FALSE /\ UNCHANGED <<rsPc, rsChain, rsAt, rsRead, rsFailed>>
    BY <1>4 DEF RsCredStep
  <2>2. RsType' = RsType /\ RsOrder(RsType)' = RsOrder(RsType)
    BY <2>1 DEF RsType, RsOrder
  <2> QED
    BY <1>0, <2>1, <2>2 DEF RsInv, RsTypes
<1>5. CASE UNCHANGED <<credVars, rsVars>>
  <2>1. UNCHANGED <<crPc, crSaved, crTorn, crDone, rsPc, rsChain, rsAt, rsRead, rsFailed, rsAlone>>
    BY <1>5 DEF credVars, rsVars
  <2>2. RsType' = RsType /\ RsOrder(RsType)' = RsOrder(RsType)
    BY <2>1 DEF RsType, RsOrder
  <2> QED
    BY <1>0, <2>1, <2>2 DEF RsInv, RsTypes
<1> QED
  BY <1>1, <1>2, <1>3, <1>4, <1>5 DEF RsNext

LEMMA RsWhole == RsInv => RsResolvedWhole
<1> SUFFICES ASSUME RsInv, rsAlone
             PROVE  /\ rsPc = "ok" /\ crSaved[RsType] > 0 =>
                         \A i \in 1..(Len(rsRead) - 1) : rsRead[i] = crSaved[RsType]
                    /\ rsPc = "ok" /\ ~crTorn /\ crDone.n > 0 =>
                         crDone.call # "clear" /\ rsRead[Len(rsRead)] = crDone.n
                    /\ rsPc = "ok" /\ ~rsFailed => \A i \in 1..(rsAt - 1) : crSaved[rsChain[i]] = 0
                    /\ rsPc = "none" /\ ~rsFailed => \A i \in DOMAIN rsChain : crSaved[rsChain[i]] = 0
  BY DEF RsResolvedWhole
<1>1. Len(rsRead) \in Nat
  BY DEF RsInv, RsTypes
<1>2. rsPc = "ok" => Len(rsRead) = Len(RsOrder(RsType))
  BY DEF RsInv, RsTypes
<1>3. \A i \in 1..(Len(rsRead) - 1) : i \in 1..Len(rsRead) /\ i < Len(rsRead)
  BY <1>1
<1> QED
  BY <1>2, <1>3 DEF RsInv

\* While nothing is saved or cleared beside it, Resolve returns, over failed reads and
\* through every chain, the secrets of the last save of the type it answers with, if that
\* ran alone and returned nil, and with them the tenant that was saved last with either
\* type; it finds the first of the chain's types that is saved unless a read fails, and
\* nothing after Clear (keychain_resolver.go's separate Gets, resolver.go's fall-through).
THEOREM ResolveReturnsWhole == RsSpec => []RsResolvedWhole
<1> DEFINE Inv == CrLockInv /\ CrWhole /\ CrSaves /\ RsInv
<1>1. RsInit /\ CredInit => Inv
  <2> SUFFICES ASSUME RsInit, CredInit PROVE Inv
    OBVIOUS
  <2>1. /\ rsPc = "idle" /\ rsAt = 1 /\ rsRead = <<>>
        /\ rsFailed \in BOOLEAN /\ rsAlone = FALSE
    BY DEF RsInit
  <2>2. rsRead \in Seq(Nat)
    BY <2>1
  <2>3. RsInv
    BY <2>1, <2>2 DEF RsInv, RsTypes
  <2> QED
    BY <2>3, CrLockInit, CrWholeInit, CrSavesInit
<1>2. Inv /\ [RsNext]_<<credVars, rsVars>> => Inv'
  <2> SUFFICES ASSUME Inv, [RsNext]_<<credVars, rsVars>> PROVE Inv'
    OBVIOUS
  <2>1. [CredNext]_credVars
    BY DEF RsNext, RsCredStep
  <2>2. CrLockInv' /\ CrWhole'
    BY <2>1, CrLockStep, CrWholeStep
  <2>3. CrSaves'
    BY <2>1, <2>2, CrSavesStep
  <2> QED
    BY <2>2, <2>3, RsInvStep
<1>3. Inv => RsResolvedWhole
  BY RsWhole
<1> QED
  BY <1>1, <1>2, <1>3, PTL DEF RsSpec

-----------------------------------------------------------------------------
(* The S3 writer *)

\* An object is stored once the body has ended, and from then on nothing is written; the
\* upload has returned nil only for a stored object.
UpInv ==
  /\ UpTypeOK
  /\ UpCloseIsHonest
  /\ upWritten + (IF upCaller = "write" THEN 1 ELSE 0) <= upCalls
  /\ upLoop = "upload" => upObject = NoObject /\ upErr = "none"
  /\ upLoop \in {"returned", "closed", "done"} => upErr \in {"nil", "error"}
  /\ upObject # NoObject => upCaller \notin {"idle", "write"}
  /\ upErr = "nil" => upObject # NoObject

LEMMA UpInvInit == UpInit => UpInv
  BY S3WriterAssumption DEF UpInit, UpInv, UpTypeOK, UpCloseIsHonest, NoObject

LEMMA UpInvStep == UpInv /\ [UpNext]_upVars => UpInv'
<1> SUFFICES ASSUME UpInv, [UpNext]_upVars PROVE UpInv'
  OBVIOUS
<1> USE S3WriterAssumption DEF UpInv, UpTypeOK, UpCloseIsHonest, NoObject
<1>1. CASE UpWrite  BY <1>1 DEF UpWrite
<1>2. CASE UpWriteFails  BY <1>2 DEF UpWriteFails
<1>3. CASE UpClose  BY <1>3 DEF UpClose
<1>4. CASE UpClosed  BY <1>4 DEF UpClosed
<1>5. CASE UpRead  BY <1>5 DEF UpRead
<1>6. CASE UpStore  BY <1>6 DEF UpStore
<1>7. CASE UpFail  BY <1>7 DEF UpFail
<1>8. CASE UpCloseReader  BY <1>8 DEF UpCloseReader
<1>9. CASE UpReport  BY <1>9 DEF UpReport
<1>10. CASE UpDies  BY <1>10 DEF UpDies
<1>11. CASE UNCHANGED upVars  BY <1>11 DEF upVars
<1> QED
  BY <1>1, <1>2, <1>3, <1>4, <1>5, <1>6, <1>7, <1>8, <1>9, <1>10, <1>11
     DEF UpNext, UpReturns, UpGoroutine

\* Close returns nil only for a stored object, and a stored object has every chunk whose
\* Write returned nil, however the upload fails, loses its answer or dies
\* (s3.go's goroutine and Close).
THEOREM CloseIsHonest == UpSpec => []UpCloseIsHonest
<1>1. UpInv => UpCloseIsHonest
  BY DEF UpInv
<1> QED
  BY UpInvInit, UpInvStep, <1>1, PTL DEF UpSpec

-----------------------------------------------------------------------------
(* Scoped access to streams *)

AcText == Seq(AcLetters \cup {Colon})

\* A segment of an id with no colon in it.
AcWord(a) == a \in AcText /\ AcPlain(a)

\* A concatenation under a name of its own, so that it is taken apart only where its
\* letters matter; and a segment, the colon that closes it, and what follows.
AcCat(a, x) == a \o x
AcColon == <<Colon>>
AcJoin(a, x) == AcCat(a, AcCat(AcColon, x))

LEMMA AcConcat ==
  ASSUME NEW a \in AcText, NEW x \in AcText
  PROVE  /\ AcCat(a, x) \in AcText /\ Len(AcCat(a, x)) = Len(a) + Len(x)
         /\ \A i \in 1..(Len(a) + Len(x)) :
              AcCat(a, x)[i] = IF i <= Len(a) THEN a[i] ELSE x[i - Len(a)]
  BY ConcatProperties DEF AcText, AcCat

LEMMA AcColonIs == AcColon \in AcText /\ Len(AcColon) = 1 /\ AcColon[1] = Colon
  BY DEF AcColon, AcText

LEMMA AcJoinShape ==
  ASSUME NEW a \in AcText, NEW x \in AcText
  PROVE  /\ AcJoin(a, x) \in AcText
         /\ Len(AcJoin(a, x)) = Len(a) + 1 + Len(x)
         /\ \A i \in 1..Len(a) : AcJoin(a, x)[i] = a[i]
         /\ AcJoin(a, x)[Len(a) + 1] = Colon
         /\ \A i \in 1..Len(x) : AcJoin(a, x)[Len(a) + 1 + i] = x[i]
<1> DEFINE cx == AcCat(AcColon, x)
           p == AcJoin(a, x)
<1>1. Len(a) \in Nat /\ Len(x) \in Nat
  BY DEF AcText
<1>2. /\ cx \in AcText /\ Len(cx) = 1 + Len(x)
      /\ \A i \in 1..(1 + Len(x)) : cx[i] = IF i <= 1 THEN AcColon[i] ELSE x[i - 1]
  <2>1. /\ cx \in AcText /\ Len(cx) = Len(AcColon) + Len(x)
        /\ \A i \in 1..(Len(AcColon) + Len(x)) :
             cx[i] = IF i <= Len(AcColon) THEN AcColon[i] ELSE x[i - Len(AcColon)]
    BY AcConcat, AcColonIs
  <2> QED
    BY <2>1, AcColonIs
<1> HIDE DEF cx
<1>3. /\ p \in AcText /\ Len(p) = Len(a) + (1 + Len(x))
      /\ \A i \in 1..(Len(a) + (1 + Len(x))) :
           p[i] = IF i <= Len(a) THEN a[i] ELSE cx[i - Len(a)]
  <2>1. /\ AcCat(a, cx) \in AcText /\ Len(AcCat(a, cx)) = Len(a) + Len(cx)
        /\ \A i \in 1..(Len(a) + Len(cx)) :
             AcCat(a, cx)[i] = IF i <= Len(a) THEN a[i] ELSE cx[i - Len(a)]
    BY <1>2, AcConcat
  <2>2. p = AcCat(a, cx)
    BY DEF AcJoin, cx
  <2> QED
    BY <1>2, <2>1, <2>2
<1> HIDE DEF p
<1>4. Len(p) = Len(a) + 1 + Len(x)
  BY <1>1, <1>3
<1>5. \A i \in 1..Len(a) : p[i] = a[i]
  BY <1>1, <1>3
<1>6. p[Len(a) + 1] = Colon
  <2>1. Len(a) + 1 \in 1..(Len(a) + (1 + Len(x))) /\ ~(Len(a) + 1 <= Len(a))
        /\ Len(a) + 1 - Len(a) = 1 /\ 1 \in 1..(1 + Len(x))
    BY <1>1
  <2>2. p[Len(a) + 1] = cx[1]
    BY <1>3, <2>1
  <2> QED
    BY <1>2, <2>1, <2>2, AcColonIs
<1>7. ASSUME NEW i \in 1..Len(x) PROVE p[Len(a) + 1 + i] = x[i]
  <2> DEFINE j == Len(a) + 1 + i
             k == 1 + i
  <2>1. j \in 1..(Len(a) + (1 + Len(x))) /\ ~(j <= Len(a)) /\ j - Len(a) = k
    BY <1>1
  <2>2. k \in 1..(1 + Len(x)) /\ ~(k <= 1) /\ k - 1 = i
    BY <1>1
  <2> HIDE DEF j, k
  <2>3. p[j] = cx[k]
    BY <1>3, <2>1
  <2>4. cx[k] = x[i]
    BY <1>2, <2>2
  <2> QED
    BY <2>3, <2>4 DEF j
<1> QED
  BY <1>3, <1>4, <1>5, <1>6, <1>7 DEF p

\* IsPrefix, letter by letter.
LEMMA AcPrefixIs ==
  ASSUME NEW p \in AcText, NEW q \in AcText
  PROVE  IsPrefix(p, q) <=> Len(p) <= Len(q) /\ \A i \in 1..Len(p) : p[i] = q[i]
<1>1. /\ Len(p) \in Nat /\ Len(q) \in Nat /\ SubSeq(p, 1, Len(p)) = p
  BY DEF AcText
<1>2. ASSUME Len(p) <= Len(q)
      PROVE  /\ SubSeq(q, 1, Len(p)) \in AcText /\ Len(SubSeq(q, 1, Len(p))) = Len(p)
             /\ \A i \in 1..Len(p) : SubSeq(q, 1, Len(p))[i] = q[i]
  BY <1>1, <1>2 DEF AcText
<1>3. ASSUME Len(p) <= Len(q), \A i \in 1..Len(p) : p[i] = q[i]
      PROVE  p = SubSeq(q, 1, Len(p))
  <2> DEFINE t == SubSeq(q, 1, Len(p))
  <2>1. t \in AcText /\ Len(t) = Len(p) /\ \A i \in 1..Len(p) : p[i] = t[i]
    BY <1>2, <1>3
  <2> HIDE DEF t
  <2>2. p = t
    BY <2>1, SeqEqual DEF AcText
  <2> QED
    BY <2>2 DEF t
<1> QED
  BY <1>1, <1>2, <1>3 DEF IsPrefix

\* What continues a text continues it after a segment, too.
LEMMA AcJoinExtends ==
  ASSUME NEW a \in AcText, NEW x \in AcText, NEW y \in AcText, IsPrefix(x, y)
  PROVE  IsPrefix(AcJoin(a, x), AcJoin(a, y))
<1> DEFINE p == AcJoin(a, x)  q == AcJoin(a, y)
<1>1. {Len(a), Len(x), Len(y)} \subseteq Nat
  BY DEF AcText
<1>2. /\ p \in AcText /\ Len(p) = Len(a) + 1 + Len(x)
      /\ \A i \in 1..Len(a) : p[i] = a[i]
      /\ p[Len(a) + 1] = Colon
      /\ \A i \in 1..Len(x) : p[Len(a) + 1 + i] = x[i]
  BY AcJoinShape
<1>3. /\ q \in AcText /\ Len(q) = Len(a) + 1 + Len(y)
      /\ \A i \in 1..Len(a) : q[i] = a[i]
      /\ q[Len(a) + 1] = Colon
      /\ \A i \in 1..Len(y) : q[Len(a) + 1 + i] = y[i]
  BY AcJoinShape
<1> HIDE DEF p, q
<1>4. IsPrefix(p, q) <=> Len(p) <= Len(q) /\ \A i \in 1..Len(p) : p[i] = q[i]
  BY <1>2, <1>3, AcPrefixIs
<1>5. Len(x) <= Len(y) /\ \A i \in 1..Len(x) : x[i] = y[i]
  BY AcPrefixIs
<1>6. Len(p) <= Len(q)
  BY <1>1, <1>2, <1>3, <1>5
<1>7. ASSUME NEW i \in 1..Len(p) PROVE p[i] = q[i]
  <2>1. CASE i <= Len(a)
    BY <1>1, <1>2, <1>3, <2>1
  <2>2. CASE i = Len(a) + 1
    BY <1>2, <1>3, <2>2
  <2>3. CASE i > Len(a) + 1
    <3> DEFINE j == i - Len(a) - 1
    <3>1. j \in 1..Len(x) /\ j \in 1..Len(y) /\ Len(a) + 1 + j = i
      BY <1>1, <1>2, <1>5, <2>3
    <3> HIDE DEF j
    <3>2. p[Len(a) + 1 + j] = x[j] /\ q[Len(a) + 1 + j] = y[j] /\ x[j] = y[j]
      BY <1>2, <1>3, <1>5, <3>1
    <3> QED
      BY <3>1, <3>2
  <2> QED
    BY <1>1, <2>1, <2>2, <2>3
<1> QED
  BY <1>4, <1>6, <1>7 DEF p, q

\* The first colons must agree: a segment is cut off as a whole.
LEMMA AcJoinPrefix ==
  ASSUME NEW a, NEW b, AcWord(a), AcWord(b), NEW x \in AcText, NEW y \in AcText
  PROVE  IsPrefix(AcJoin(a, x), AcJoin(b, y)) <=> a = b /\ IsPrefix(x, y)
<1> DEFINE p == AcJoin(a, x)  q == AcJoin(b, y)
<1>1. a \in AcText /\ b \in AcText /\ {Len(a), Len(b), Len(x), Len(y)} \subseteq Nat
  BY DEF AcWord, AcText
<1>2. /\ p \in AcText /\ Len(p) = Len(a) + 1 + Len(x)
      /\ \A i \in 1..Len(a) : p[i] = a[i]
      /\ p[Len(a) + 1] = Colon
      /\ \A i \in 1..Len(x) : p[Len(a) + 1 + i] = x[i]
  BY <1>1, AcJoinShape
<1>3. /\ q \in AcText /\ Len(q) = Len(b) + 1 + Len(y)
      /\ \A i \in 1..Len(b) : q[i] = b[i]
      /\ q[Len(b) + 1] = Colon
      /\ \A i \in 1..Len(y) : q[Len(b) + 1 + i] = y[i]
  BY <1>1, AcJoinShape
<1> HIDE DEF p, q
<1>4. IsPrefix(p, q) <=> Len(p) <= Len(q) /\ \A i \in 1..Len(p) : p[i] = q[i]
  BY <1>2, <1>3, AcPrefixIs
<1>5. IsPrefix(x, y) <=> Len(x) <= Len(y) /\ \A i \in 1..Len(x) : x[i] = y[i]
  BY AcPrefixIs
<1>6. ASSUME IsPrefix(p, q) PROVE a = b /\ IsPrefix(x, y)
  <2>1. Len(p) <= Len(q) /\ \A i \in 1..Len(p) : p[i] = q[i]
    BY <1>4, <1>6
  <2>2. ~(Len(a) < Len(b))
    <3> SUFFICES ASSUME Len(a) < Len(b) PROVE FALSE
      OBVIOUS
    <3>1. Len(a) + 1 \in 1..Len(p) /\ Len(a) + 1 \in 1..Len(b)
      BY <1>1, <1>2
    <3>2. p[Len(a) + 1] = Colon /\ q[Len(a) + 1] = b[Len(a) + 1]
      BY <1>2, <1>3, <3>1
    <3> QED
      BY <2>1, <3>1, <3>2 DEF AcWord, AcPlain
  <2>3. ~(Len(b) < Len(a))
    <3> SUFFICES ASSUME Len(b) < Len(a) PROVE FALSE
      OBVIOUS
    <3>1. Len(b) + 1 \in 1..Len(p) /\ Len(b) + 1 \in 1..Len(a)
      BY <1>1, <1>2
    <3>2. q[Len(b) + 1] = Colon /\ p[Len(b) + 1] = a[Len(b) + 1]
      BY <1>2, <1>3, <3>1
    <3> QED
      BY <2>1, <3>1, <3>2 DEF AcWord, AcPlain
  <2>4. Len(a) = Len(b)
    BY <1>1, <2>2, <2>3
  <2>5. \A i \in 1..Len(a) : a[i] = b[i]
    <3> SUFFICES ASSUME NEW i \in 1..Len(a) PROVE a[i] = b[i]
      OBVIOUS
    <3>1. i \in 1..Len(p) /\ i \in 1..Len(b)
      BY <1>1, <1>2, <2>4
    <3> QED
      BY <1>2, <1>3, <2>1, <3>1
  <2>6. a = b
    BY <1>1, <2>4, <2>5, SeqEqual DEF AcText
  <2>7. Len(x) <= Len(y)
    BY <1>1, <1>2, <1>3, <2>1, <2>4
  <2>8. \A i \in 1..Len(x) : x[i] = y[i]
    <3> SUFFICES ASSUME NEW i \in 1..Len(x) PROVE x[i] = y[i]
      OBVIOUS
    <3>1. Len(a) + 1 + i \in 1..Len(p) /\ i \in 1..Len(y) /\ Len(a) + 1 + i = Len(b) + 1 + i
      BY <1>1, <1>2, <2>4, <2>7
    <3> QED
      BY <1>2, <1>3, <2>1, <3>1
  <2> QED
    BY <1>5, <2>6, <2>7, <2>8
<1>7. ASSUME a = b, IsPrefix(x, y) PROVE IsPrefix(p, q)
  BY <1>1, <1>7, AcJoinExtends DEF p, q
<1> QED
  BY <1>6, <1>7 DEF p, q

\* What has a colon does not begin a word.
LEMMA AcJoinNoWord ==
  ASSUME NEW a \in AcText, NEW x \in AcText, NEW b, AcWord(b)
  PROVE  ~IsPrefix(AcJoin(a, x), b)
<1> DEFINE p == AcJoin(a, x)
<1>1. b \in AcText /\ {Len(a), Len(b), Len(x)} \subseteq Nat
  BY DEF AcWord, AcText
<1>2. p \in AcText /\ Len(p) = Len(a) + 1 + Len(x) /\ p[Len(a) + 1] = Colon
  BY AcJoinShape
<1> HIDE DEF p
<1>3. Len(a) + 1 \in 1..Len(p)
  BY <1>1, <1>2
<1>4. IsPrefix(p, b) => Len(p) <= Len(b) /\ p[Len(a) + 1] = b[Len(a) + 1]
  BY <1>1, <1>2, <1>3, AcPrefixIs
<1>5. Len(p) <= Len(b) => Len(a) + 1 \in 1..Len(b)
  BY <1>1, <1>2
<1> QED
  BY <1>2, <1>4, <1>5 DEF AcWord, AcPlain, p

LEMMA AcSame ==
  ASSUME NEW p \in AcText, NEW q \in AcText
  PROVE  /\ p = q <=> IsPrefix(p, q) /\ IsPrefix(q, p)
         /\ IsPrefix(Empty, p) /\ (IsPrefix(p, Empty) <=> p = Empty)
<1>1. /\ IsPrefix(p, q) <=> Len(p) <= Len(q) /\ \A i \in 1..Len(p) : p[i] = q[i]
      /\ IsPrefix(q, p) <=> Len(q) <= Len(p) /\ \A i \in 1..Len(q) : q[i] = p[i]
      /\ Len(p) \in Nat /\ Len(q) \in Nat
  BY AcPrefixIs DEF AcText
<1>2. p = q <=> IsPrefix(p, q) /\ IsPrefix(q, p)
  <2>1. ASSUME IsPrefix(p, q), IsPrefix(q, p) PROVE p = q
    <3>1. Len(p) = Len(q) /\ \A i \in 1..Len(p) : p[i] = q[i]
      BY <1>1, <2>1
    <3> QED
      BY <3>1, SeqEqual DEF AcText
  <2> QED
    BY <1>1, <2>1
<1>3. Empty \in AcText /\ Len(Empty) = 0
  BY DEF Empty, AcText
<1>4. /\ IsPrefix(Empty, p) <=> 0 <= Len(p) /\ \A i \in 1..0 : Empty[i] = p[i]
      /\ IsPrefix(p, Empty) <=> Len(p) <= 0 /\ \A i \in 1..Len(p) : p[i] = Empty[i]
  BY <1>3, AcPrefixIs
<1>5. Len(p) = 0 <=> p = Empty
  BY DEF AcText, Empty
<1> QED
  BY <1>1, <1>2, <1>4, <1>5

LEMMA AcAssoc ==
  ASSUME NEW a \in AcText, NEW b \in AcText, NEW c \in AcText
  PROVE  AcCat(AcCat(a, b), c) = AcCat(a, AcCat(b, c))
<1> DEFINE S == AcLetters \cup {Colon}
<1>1. a \in Seq(S) /\ b \in Seq(S) /\ c \in Seq(S)
  BY DEF AcText
<1> HIDE DEF S
<1>2. (a \o b) \o c = a \o (b \o c)
  BY <1>1, ConcatAssociative
<1> QED
  BY <1>2 DEF AcCat

LEMMA AcUnit ==
  ASSUME NEW a \in AcText
  PROVE  AcCat(Empty, a) = a /\ AcCat(a, Empty) = a
  BY ConcatEmptySeq DEF AcText, Empty, AcCat

\* A closed segment and what follows it.
LEMMA AcClosed ==
  ASSUME NEW a \in AcText, NEW x \in AcText
  PROVE  AcCat(AcCat(a, AcColon), x) = AcJoin(a, x)
BY AcAssoc, AcColonIs DEF AcJoin

\* What the assumption says of the segments.
LEMMA AcSegments ==
  /\ <<Colon>> \in AcText /\ Empty \in AcText /\ AcPlain(Empty)
  /\ \A a \in AcTenants \cup AcNamespaces \cup AcNames : a \in AcText /\ a # Empty
<1>1. Empty \in AcText /\ <<Colon>> \in AcText /\ AcPlain(Empty)
  BY DEF Empty, AcText, AcPlain
<1>2. ASSUME NEW a \in AcTenants \cup AcNamespaces \cup AcNames
      PROVE  a \in AcText /\ a # Empty
  <2>1. a \in Seq(AcLetters) /\ a # Empty
    BY AccessAssumption
  <2> QED
    BY <2>1 DEF AcText
<1> QED
  BY <1>1, <1>2

LEMMA AcIDIs ==
  ASSUME NEW s, s.tenant \in AcText, s.ns \in AcText, s.name \in AcText, s.multi \in BOOLEAN
  PROVE  AcID(s) = IF s.multi THEN AcJoin(s.tenant, AcJoin(s.ns, s.name))
                   ELSE AcJoin(s.ns, s.name)
<1> DEFINE t == AcCat(s.tenant, AcColon)
           n == AcCat(s.ns, AcColon)
<1>1. t \in AcText /\ n \in AcText /\ Empty \in AcText
  BY AcConcat, AcColonIs, AcSegments
<1>2. AcCat(n, s.name) = AcJoin(s.ns, s.name) /\ AcJoin(s.ns, s.name) \in AcText
  BY AcClosed, AcJoinShape
<1>3. AcID(s) = AcCat(AcCat(AcCat(IF s.multi THEN t ELSE Empty, s.ns), AcColon), s.name)
  BY DEF AcID, AcCat, AcColon
<1>4. CASE s.multi
  <2>1. AcCat(t, AcJoin(s.ns, s.name)) = AcJoin(s.tenant, AcJoin(s.ns, s.name))
    BY <1>2, AcClosed
  <2> HIDE DEF t
  <2>2. AcCat(AcCat(t, s.ns), AcColon) = AcCat(t, n)
    BY <1>1, AcAssoc, AcColonIs
  <2> HIDE DEF n
  <2>3. AcCat(AcCat(t, n), s.name) = AcCat(t, AcCat(n, s.name))
    BY <1>1, AcAssoc
  <2> QED
    BY <1>2, <1>3, <1>4, <2>1, <2>2, <2>3
<1>5. CASE ~s.multi
  <2>1. AcID(s) = AcCat(AcCat(AcCat(Empty, s.ns), AcColon), s.name)
    BY <1>3, <1>5
  <2>2. AcCat(Empty, s.ns) = s.ns
    BY AcUnit
  <2> QED
    BY <1>2, <1>5, <2>1, <2>2
<1> QED
  BY <1>4, <1>5

LEMMA AcScopePrefixIs ==
  ASSUME NEW s, s.tenant \in AcText, s.ns \in AcText, s.prefix \in AcText, AcValidScope(s)
  PROVE  AcScopePrefix(s) =
           IF s.ns = Empty THEN AcJoin(s.tenant, Empty)
           ELSE IF s.tenant = Empty THEN AcJoin(s.ns, s.prefix)
           ELSE AcJoin(s.tenant, AcJoin(s.ns, s.prefix))
<1> DEFINE t == AcCat(s.tenant, AcColon)
           n == AcCat(s.ns, AcColon)
<1>1. t \in AcText /\ n \in AcText /\ Empty \in AcText
  BY AcConcat, AcColonIs, AcSegments
<1>2. AcScopePrefix(s) = AcCat(AcCat(IF s.tenant # Empty THEN t ELSE Empty,
                                     IF s.ns # Empty THEN n ELSE Empty), s.prefix)
  BY DEF AcScopePrefix, AcCat, AcColon
<1>3. AcCat(n, s.prefix) = AcJoin(s.ns, s.prefix) /\ AcJoin(s.ns, s.prefix) \in AcText
  BY AcClosed, AcJoinShape
<1>4. /\ AcCat(t, Empty) = AcJoin(s.tenant, Empty)
      /\ AcCat(t, AcJoin(s.ns, s.prefix)) = AcJoin(s.tenant, AcJoin(s.ns, s.prefix))
  BY <1>1, <1>3, AcClosed
<1> HIDE DEF t, n
<1>5. CASE s.ns = Empty
  <2>1. s.tenant # Empty /\ s.prefix = Empty
    BY <1>5 DEF AcValidScope
  <2>2. AcCat(t, Empty) = t
    BY <1>1, AcUnit
  <2> QED
    BY <1>2, <1>4, <1>5, <2>1, <2>2
<1>6. CASE s.ns # Empty /\ s.tenant = Empty
  <2>1. AcCat(Empty, n) = n
    BY <1>1, AcUnit
  <2> QED
    BY <1>2, <1>3, <1>6, <2>1
<1>7. CASE s.ns # Empty /\ s.tenant # Empty
  <2>1. AcScopePrefix(s) = AcCat(AcCat(t, n), s.prefix)
    BY <1>2, <1>7
  <2>2. AcCat(AcCat(t, n), s.prefix) = AcCat(t, AcCat(n, s.prefix))
    BY <1>1, AcAssoc
  <2> QED
    BY <1>3, <1>4, <1>7, <2>1, <2>2
<1> QED
  BY <1>5, <1>6, <1>7

\* The id of a stream that can exist.
LEMMA AcStreamID ==
  ASSUME NEW s \in AcStreams
  PROVE  /\ s.tenant \in AcTenants \cup {Empty} /\ s.ns \in AcNamespaces /\ s.name \in AcNames
         /\ s.multi \in BOOLEAN /\ (s.multi <=> s.tenant # Empty)
         /\ s.tenant \in AcText /\ s.ns \in AcText /\ s.name \in AcText
         /\ s.ns # Empty /\ s.name # Empty
         /\ AcID(s) = IF s.multi THEN AcJoin(s.tenant, AcJoin(s.ns, s.name))
                      ELSE AcJoin(s.ns, s.name)
         /\ AcJoin(s.ns, s.name) \in AcText /\ AcID(s) \in AcText
<1>1. /\ s.tenant \in AcTenants \cup {Empty} /\ s.ns \in AcNamespaces /\ s.name \in AcNames
      /\ s.multi \in BOOLEAN /\ (s.multi <=> s.tenant # Empty)
  BY DEF AcStreams, AcStreamOf
<1>2. /\ s.tenant \in AcText /\ s.ns \in AcText /\ s.name \in AcText
      /\ s.ns # Empty /\ s.name # Empty
  BY <1>1, AcSegments
<1> DEFINE sid == AcJoin(s.ns, s.name)
<1>3. AcID(s) = IF s.multi THEN AcJoin(s.tenant, sid) ELSE sid
  BY <1>1, <1>2, AcIDIs
<1>4. sid \in AcText
  BY <1>2, AcJoinShape
<1> HIDE DEF sid
<1>5. AcJoin(s.tenant, sid) \in AcText
  BY <1>2, <1>4, AcJoinShape
<1> QED
  BY <1>1, <1>2, <1>3, <1>4, <1>5 DEF sid

\* A valid request's matcher covers the ids of the streams it describes, whatever the
\* names.
LEMMA AcMatcherCovers ==
  ASSUME NEW t \in AcTargets, NEW q, q.stream = t.stream, q.scope = t.scope, AcValid(q),
         NEW s \in AcStreams, AcDescribes(q, s)
  PROVE  AcCovers(AcMatcher(q), AcID(s))
<1> DEFINE sid == AcJoin(s.ns, s.name)
<1>1. /\ s.ns # Empty /\ s.name \in AcText /\ s.ns \in AcText /\ s.tenant \in AcText
      /\ (s.multi <=> s.tenant # Empty) /\ sid \in AcText
      /\ AcID(s) = IF s.multi THEN AcJoin(s.tenant, sid) ELSE sid
  BY AcStreamID
<1>2. CASE q.scope = NoTarget
  <2> DEFINE g == q.stream
  <2>1. g # NoTarget /\ AcHasID(g)
    BY <1>2 DEF AcValid
  <2>2. /\ g.tenant \in AcTenants \cup {Empty} /\ g.ns \in AcNamespaces /\ g.name \in AcNames
        /\ g.multi \in BOOLEAN /\ (g.multi => g.tenant # Empty)
    BY <2>1 DEF AcTargets, AcStreamOf, AcHasID
  <2>3. /\ s.tenant = IF g.multi THEN g.tenant ELSE Empty
        /\ s.ns = g.ns /\ s.name = g.name
    BY <1>2 DEF AcDescribes
  <2>4. AcCovers(AcMatcher(q), AcID(s)) <=> AcID(s) = AcID(g)
    BY <1>2 DEF AcCovers, AcMatcher
  <2> HIDE DEF g
  <2>5. g.tenant \in AcText /\ g.ns \in AcText /\ g.name \in AcText
    BY <2>2, AcSegments
  <2>6. AcID(g) = IF g.multi THEN AcJoin(g.tenant, AcJoin(g.ns, g.name)) ELSE AcJoin(g.ns, g.name)
    BY <2>2, <2>5, AcIDIs
  <2>7. s.multi <=> g.multi
    BY <1>1, <2>2, <2>3
  <2> QED
    BY <1>1, <2>3, <2>4, <2>6, <2>7
<1>3. CASE q.scope # NoTarget
  <2> DEFINE g == q.scope
  <2>1. AcValidScope(g)
    BY <1>3 DEF AcValid
  <2>2. /\ g.tenant \in AcTenants \cup {Empty} /\ g.ns \in AcNamespaces \cup {Empty}
        /\ g.prefix \in AcNames \cup {Empty}
    BY <1>3 DEF AcTargets, AcScopes
  <2>3. AcCovers(AcMatcher(q), AcID(s)) <=> IsPrefix(AcScopePrefix(g), AcID(s))
    BY <1>3 DEF AcCovers, AcMatcher
  <2>4. g.tenant = s.tenant /\ g.ns \in {Empty, s.ns} /\ IsPrefix(g.prefix, s.name)
    BY <1>3 DEF AcDescribes
  <2> HIDE DEF g
  <2>5. g.tenant \in AcText /\ g.ns \in AcText /\ g.prefix \in AcText /\ Empty \in AcText
    BY <2>2, AcSegments
  <2>6. AcScopePrefix(g) = IF g.ns = Empty THEN AcJoin(g.tenant, Empty)
                           ELSE IF g.tenant = Empty THEN AcJoin(g.ns, g.prefix)
                           ELSE AcJoin(g.tenant, AcJoin(g.ns, g.prefix))
    BY <2>1, <2>5, AcScopePrefixIs
  <2>7. CASE g.ns = Empty
    <3>1. g.tenant # Empty
      BY <2>1, <2>7 DEF AcValidScope
    <3>2. IsPrefix(Empty, sid)
      BY <1>1, AcSame
    <3> HIDE DEF sid
    <3>3. IsPrefix(AcJoin(s.tenant, Empty), AcJoin(s.tenant, sid))
      BY <1>1, <2>5, <3>2, AcJoinExtends
    <3> QED
      BY <1>1, <2>3, <2>4, <2>6, <2>7, <3>1, <3>3
  <2>8. CASE g.ns # Empty
    <3> DEFINE gp == AcJoin(g.ns, g.prefix)
    <3>1. gp \in AcText
      BY <2>5, AcJoinShape
    <3>2. IsPrefix(gp, sid)
      BY <1>1, <2>4, <2>5, <2>8, AcJoinExtends
    <3> HIDE DEF sid, gp
    <3>3. IsPrefix(AcJoin(s.tenant, gp), AcJoin(s.tenant, sid))
      BY <1>1, <3>1, <3>2, AcJoinExtends
    <3> QED
      BY <1>1, <2>3, <2>4, <2>6, <2>8, <3>2, <3>3 DEF gp
  <2> QED
    BY <2>7, <2>8
<1> QED
  BY <1>2, <1>3

\* Of the ids that can be told apart it covers no other.
LEMMA AcMatcherIsExact ==
  ASSUME NEW t \in AcTargets, NEW q, q.stream = t.stream, q.scope = t.scope, AcValid(q),
         NEW s \in AcStreams, AcToldApart(q, s)
  PROVE  AcCovers(AcMatcher(q), AcID(s)) <=> AcDescribes(q, s)
<1> DEFINE sid == AcJoin(s.ns, s.name)
<1>1. /\ s.tenant \in AcTenants \cup {Empty} /\ s.ns \in AcNamespaces /\ s.name \in AcNames
      /\ s.multi \in BOOLEAN /\ (s.multi <=> s.tenant # Empty)
  BY AcStreamID
<1>2. /\ s.tenant \in AcText /\ s.ns \in AcText /\ s.name \in AcText
      /\ AcWord(s.ns) /\ AcWord(s.name) /\ s.ns # Empty /\ s.name # Empty
      /\ (s.tenant # Empty => AcWord(s.tenant))
  BY AcStreamID DEF AcToldApart, AcWord
<1>3. AcID(s) = IF s.multi THEN AcJoin(s.tenant, sid) ELSE sid
  BY AcStreamID
<1>4. sid \in AcText /\ AcID(s) \in AcText
  BY AcStreamID
<1>5. CASE q.scope = NoTarget
  <2> DEFINE g == q.stream  gid == AcJoin(g.ns, g.name)
  <2>1. g # NoTarget /\ AcHasID(g)
    BY <1>5 DEF AcValid
  <2>2. /\ g.tenant \in AcTenants \cup {Empty} /\ g.ns \in AcNamespaces /\ g.name \in AcNames
        /\ g.multi \in BOOLEAN /\ (g.multi => g.tenant # Empty)
    BY <2>1 DEF AcTargets, AcStreamOf, AcHasID
  <2> HIDE DEF g
  <2>3. /\ g.tenant \in AcText /\ g.ns \in AcText /\ g.name \in AcText
        /\ AcWord(g.ns) /\ AcWord(g.name) /\ (g.multi => AcWord(g.tenant))
    <3>1. AcPlain(g.tenant) /\ AcPlain(g.ns) /\ AcPlain(g.name)
      BY <1>5 DEF AcToldApart, g
    <3> QED
      BY <2>2, <3>1, AcSegments DEF AcWord
  <2>4. AcID(g) = IF g.multi THEN AcJoin(g.tenant, gid) ELSE gid
    BY <2>2, <2>3, AcIDIs
  <2>5. gid \in AcText /\ AcID(g) \in AcText
    <3>1. gid \in AcText
      BY <2>3, AcJoinShape
    <3>2. AcJoin(g.tenant, gid) \in AcText
      <4> HIDE DEF gid
      <4> QED
        BY <2>3, <3>1, AcJoinShape
    <3> QED
      BY <2>4, <3>1, <3>2
  <2>6. AcCovers(AcMatcher(q), AcID(s)) <=> AcID(s) = AcID(g)
    BY <1>5 DEF AcCovers, AcMatcher, g
  <2>7. AcDescribes(q, s) <=> /\ s.tenant = IF g.multi THEN g.tenant ELSE Empty
                              /\ s.ns = g.ns /\ s.name = g.name
    BY <1>5 DEF AcDescribes, g
  <2>8. AcID(s) = AcID(g) <=> IsPrefix(AcID(s), AcID(g)) /\ IsPrefix(AcID(g), AcID(s))
    BY <1>4, <2>5, AcSame
  <2>9. s.name = g.name <=> IsPrefix(s.name, g.name) /\ IsPrefix(g.name, s.name)
    BY <1>2, <2>3, AcSame
  <2>10. /\ IsPrefix(sid, gid) <=> s.ns = g.ns /\ IsPrefix(s.name, g.name)
         /\ IsPrefix(gid, sid) <=> s.ns = g.ns /\ IsPrefix(g.name, s.name)
    BY <1>2, <2>3, AcJoinPrefix
  <2> HIDE DEF sid, gid
  <2>11. CASE s.multi /\ g.multi
    <3>1. /\ IsPrefix(AcID(s), AcID(g)) <=> s.tenant = g.tenant /\ IsPrefix(sid, gid)
          /\ IsPrefix(AcID(g), AcID(s)) <=> s.tenant = g.tenant /\ IsPrefix(gid, sid)
      BY <1>1, <1>2, <1>3, <1>4, <2>3, <2>4, <2>5, <2>11, AcJoinPrefix
    <3> QED
      BY <2>6, <2>7, <2>8, <2>9, <2>10, <2>11, <3>1
  <2>12. CASE ~s.multi /\ ~g.multi
    BY <1>1, <1>3, <2>4, <2>6, <2>7, <2>8, <2>9, <2>10, <2>12
  <2>13. CASE s.multi /\ ~g.multi
    <3>1. ~IsPrefix(sid, g.name)
      BY <1>2, <2>3, AcJoinNoWord DEF sid
    <3>2. IsPrefix(AcID(s), AcID(g)) <=> s.tenant = g.ns /\ IsPrefix(sid, g.name)
      BY <1>1, <1>2, <1>3, <1>4, <2>3, <2>4, <2>13, AcJoinPrefix DEF gid
    <3> QED
      BY <1>1, <2>6, <2>7, <2>8, <2>13, <3>1, <3>2
  <2>14. CASE ~s.multi /\ g.multi
    <3>1. ~IsPrefix(gid, s.name)
      BY <1>2, <2>3, AcJoinNoWord DEF gid
    <3>2. IsPrefix(AcID(g), AcID(s)) <=> g.tenant = s.ns /\ IsPrefix(gid, s.name)
      BY <1>1, <1>2, <1>3, <2>3, <2>4, <2>5, <2>14, AcJoinPrefix DEF sid
    <3> QED
      BY <1>1, <2>2, <2>6, <2>7, <2>8, <2>14, <3>1, <3>2
  <2> QED
    BY <1>1, <2>2, <2>11, <2>12, <2>13, <2>14
<1>6. CASE q.scope # NoTarget
  <2> DEFINE g == q.scope
  <2>1. AcValidScope(g)
    BY <1>6 DEF AcValid
  <2>2. /\ g.tenant \in AcTenants \cup {Empty} /\ g.ns \in AcNamespaces \cup {Empty}
        /\ g.prefix \in AcNames \cup {Empty}
    BY <1>6 DEF AcTargets, AcScopes
  <2>3. AcCovers(AcMatcher(q), AcID(s)) <=> IsPrefix(AcScopePrefix(g), AcID(s))
    BY <1>6 DEF AcCovers, AcMatcher
  <2>4. AcDescribes(q, s) <=> /\ g.tenant = s.tenant /\ g.ns \in {Empty, s.ns}
                              /\ IsPrefix(g.prefix, s.name)
    BY <1>6 DEF AcDescribes
  <2>7. /\ AcPlain(g.tenant) /\ AcPlain(g.ns)
        /\ s.tenant = Empty => g.tenant # s.ns
        /\ g.tenant = Empty => g.ns # s.tenant
    BY <1>6 DEF AcToldApart
  <2> HIDE DEF g
  <2>5. /\ g.tenant \in AcText /\ g.ns \in AcText /\ g.prefix \in AcText /\ Empty \in AcText
        /\ (g.tenant # Empty => AcWord(g.tenant)) /\ (g.ns # Empty => AcWord(g.ns))
    BY <2>2, <2>7, AcSegments DEF AcWord
  <2>6. AcScopePrefix(g) = IF g.ns = Empty THEN AcJoin(g.tenant, Empty)
                           ELSE IF g.tenant = Empty THEN AcJoin(g.ns, g.prefix)
                           ELSE AcJoin(g.tenant, AcJoin(g.ns, g.prefix))
    BY <2>1, <2>5, AcScopePrefixIs
  <2>8. \A x \in AcText : IsPrefix(Empty, x)
    BY AcSame
  <2>9. CASE g.ns = Empty
    <3>1. g.tenant # Empty /\ g.prefix = Empty
      BY <2>1, <2>9 DEF AcValidScope
    <3>2. CASE s.multi
      <4>1. IsPrefix(AcScopePrefix(g), AcID(s)) <=> g.tenant = s.tenant /\ IsPrefix(Empty, sid)
        BY <1>1, <1>2, <1>3, <1>4, <2>5, <2>6, <2>9, <3>1, <3>2, AcJoinPrefix
      <4> QED
        BY <1>2, <1>4, <2>3, <2>4, <2>8, <2>9, <3>1, <4>1
    <3>3. CASE ~s.multi
      <4>1. IsPrefix(AcScopePrefix(g), AcID(s)) <=> g.tenant = s.ns /\ IsPrefix(Empty, s.name)
        BY <1>1, <1>2, <1>3, <1>4, <2>5, <2>6, <2>9, <3>1, <3>3, AcJoinPrefix
      <4> QED
        BY <1>1, <2>3, <2>4, <2>7, <3>1, <3>3, <4>1
    <3> QED
      BY <1>1, <3>2, <3>3
  <2>10. CASE g.ns # Empty /\ g.tenant = Empty
    <3>1. CASE s.multi
      <4>1. IsPrefix(AcScopePrefix(g), AcID(s)) <=> g.ns = s.tenant /\ IsPrefix(g.prefix, sid)
        BY <1>1, <1>2, <1>3, <1>4, <2>5, <2>6, <2>10, <3>1, AcJoinPrefix
      <4> QED
        BY <1>1, <2>3, <2>4, <2>7, <2>10, <3>1, <4>1
    <3>2. CASE ~s.multi
      <4>1. IsPrefix(AcScopePrefix(g), AcID(s)) <=> g.ns = s.ns /\ IsPrefix(g.prefix, s.name)
        BY <1>1, <1>2, <1>3, <1>4, <2>5, <2>6, <2>10, <3>2, AcJoinPrefix
      <4> QED
        BY <1>1, <2>3, <2>4, <2>10, <3>2, <4>1
    <3> QED
      BY <1>1, <3>1, <3>2
  <2>11. CASE g.ns # Empty /\ g.tenant # Empty
    <3> DEFINE gp == AcJoin(g.ns, g.prefix)
    <3>0. gp \in AcText
      BY <2>5, AcJoinShape
    <3>1. CASE s.multi
      <4>1. IsPrefix(AcScopePrefix(g), AcID(s)) <=> g.tenant = s.tenant /\ IsPrefix(gp, sid)
        BY <1>1, <1>2, <1>3, <1>4, <2>5, <2>6, <2>11, <3>0, <3>1, AcJoinPrefix
      <4>2. IsPrefix(gp, sid) <=> g.ns = s.ns /\ IsPrefix(g.prefix, s.name)
        BY <1>2, <2>5, <2>11, AcJoinPrefix
      <4> QED
        BY <2>3, <2>4, <2>11, <4>1, <4>2
    <3>2. CASE ~s.multi
      <4>1. IsPrefix(AcScopePrefix(g), AcID(s)) <=> g.tenant = s.ns /\ IsPrefix(gp, s.name)
        BY <1>1, <1>2, <1>3, <1>4, <2>5, <2>6, <2>11, <3>0, <3>2, AcJoinPrefix
      <4> QED
        BY <1>1, <2>3, <2>4, <2>7, <2>11, <3>2, <4>1
    <3> QED
      BY <1>1, <3>1, <3>2
  <2> QED
    BY <2>9, <2>10, <2>11
<1> QED
  BY <1>5, <1>6

\* The requests AccessNext enumerates.
AcRequests ==
  {[stream |-> t.stream, scope |-> t.scope, access |-> role, expiry |-> d] :
     t \in AcTargets, role \in AcRoles, d \in AcExpiries}

\* A token, whatever its matcher, with its own request; none of a revoked id.
AcInv ==
  /\ acIssued \in Nat /\ acAsked \in Seq(AcRequests) /\ Len(acAsked) = acIssued
  /\ acHeld \subseteq 1..acIssued /\ acRevoked \subseteq 1..acIssued
  /\ \A k \in acTokens :
       /\ k.id \in 1..acIssued /\ k.id \notin acRevoked
       /\ \E m, ops : \E l \in Int : k = [id |-> k.id, match |-> m, ops |-> ops, left |-> l]
       /\ k.match = AcMatcher(acAsked[k.id]) /\ k.ops = AcOps(acAsked[k.id].access)
       /\ AcValid(acAsked[k.id])
       /\ k.left <= AcNormalExpiry(acAsked[k.id].expiry)

LEMMA AcInvStep == AcInv /\ [AccessNext]_accessVars => AcInv'
<1> SUFFICES ASSUME AcInv, [AccessNext]_accessVars PROVE AcInv'
  OBVIOUS
<1> USE DEF AcInv
<1>1. ASSUME NEW q \in AcRequests, AcCreate(q) PROVE AcInv'
  <2>1. /\ acIssued' = acIssued + 1 /\ acAsked' = Append(acAsked, q)
        /\ acRevoked' = acRevoked /\ acHeld' \subseteq acHeld \cup {acIssued + 1} /\ AcValid(q)
    BY <1>1 DEF AcCreate
  <2>2. /\ acAsked' \in Seq(AcRequests) /\ Len(acAsked') = acIssued'
        /\ acAsked'[acIssued + 1] = q /\ \A i \in 1..acIssued : acAsked'[i] = acAsked[i]
    BY <2>1
  <2>3. /\ acIssued' \in Nat /\ acHeld' \subseteq 1..acIssued' /\ acRevoked' \subseteq 1..acIssued'
    BY <2>1
  <2> DEFINE new == [id |-> acIssued + 1, match |-> AcMatcher(q), ops |-> AcOps(q.access),
                     left |-> AcNormalExpiry(q.expiry)]
  <2>4. acTokens' \subseteq acTokens \cup {new}
    BY <1>1 DEF AcCreate
  <2>5. AcNormalExpiry(q.expiry) \in Int
    BY <2>1 DEF AcValid
  <2>6. ASSUME NEW k \in acTokens', k = new
        PROVE  /\ k.id = acIssued + 1
               /\ \E m, ops : \E l \in Int : k = [id |-> k.id, match |-> m, ops |-> ops, left |-> l]
               /\ k.match = AcMatcher(q) /\ k.ops = AcOps(q.access)
               /\ k.left = AcNormalExpiry(q.expiry)
    BY <2>5, <2>6
  <2>7. acIssued + 1 \in 1..acIssued' /\ acIssued + 1 \notin acRevoked'
        /\ \A i \in 1..acIssued : i \in 1..acIssued'
    BY <2>1
  <2> HIDE DEF new
  <2>8. ASSUME NEW k \in acTokens'
        PROVE  /\ k.id \in 1..acIssued' /\ k.id \notin acRevoked'
               /\ \E m, ops : \E l \in Int : k = [id |-> k.id, match |-> m, ops |-> ops, left |-> l]
               /\ k.match = AcMatcher(acAsked'[k.id]) /\ k.ops = AcOps(acAsked'[k.id].access)
               /\ AcValid(acAsked'[k.id])
               /\ k.left <= AcNormalExpiry(acAsked'[k.id].expiry)
    <3>1. CASE k = new
      BY <2>1, <2>2, <2>5, <2>6, <2>7, <3>1
    <3>2. CASE k \in acTokens
      BY <2>1, <2>2, <2>7, <3>2
    <3> QED
      BY <2>4, <3>1, <3>2
  <2> QED
    BY <2>2, <2>3, <2>8
<1>2. ASSUME NEW id \in acHeld, AcDelete(id) PROVE AcInv'
  <2>1. /\ UNCHANGED <<acHeld, acIssued, acAsked>> /\ acTokens' \subseteq acTokens
        /\ acRevoked' \subseteq acRevoked \cup {id}
        /\ \A k \in acTokens' : k.id \notin acRevoked'
    BY <1>2 DEF AcDelete
  <2> QED
    BY <2>1
<1>3. CASE AcTick
  <2>1. UNCHANGED <<acHeld, acRevoked, acIssued, acAsked>>
    BY <1>3 DEF AcTick
  <2>2. ASSUME NEW k \in acTokens'
        PROVE  /\ k.id \in 1..acIssued /\ k.id \notin acRevoked
               /\ \E m, ops : \E l \in Int : k = [id |-> k.id, match |-> m, ops |-> ops, left |-> l]
               /\ k.match = AcMatcher(acAsked[k.id]) /\ k.ops = AcOps(acAsked[k.id].access)
               /\ AcValid(acAsked[k.id])
               /\ k.left <= AcNormalExpiry(acAsked[k.id].expiry)
    <3>1. PICK j \in acTokens : k = [j EXCEPT !.left = @ - 1]
      BY <1>3, <2>2 DEF AcTick
    <3>2. PICK m, ops : \E l \in Int : j = [id |-> j.id, match |-> m, ops |-> ops, left |-> l]
      OBVIOUS
    <3>3. PICK l \in Int : j = [id |-> j.id, match |-> m, ops |-> ops, left |-> l]
      BY <3>2
    <3>4. k = [id |-> j.id, match |-> m, ops |-> ops, left |-> l - 1]
      BY <3>1, <3>3
    <3>5. /\ k.id = j.id /\ k.match = m /\ k.ops = ops /\ k.left = l - 1 /\ l - 1 \in Int
          /\ j.match = m /\ j.ops = ops /\ j.left = l
      BY <3>3, <3>4
    <3>6. l - 1 <= AcNormalExpiry(acAsked[j.id].expiry)
      <4>1. AcNormalExpiry(acAsked[j.id].expiry) \in Int
        BY DEF AcValid
      <4> QED
        BY <3>5, <4>1
    <3> QED
      BY <3>3, <3>4, <3>5, <3>6
  <2> QED
    BY <2>1, <2>2
<1>4. CASE UNCHANGED accessVars
  BY <1>4 DEF accessVars
<1>5. CASE \E t \in AcTargets, role \in AcRoles, d \in AcExpiries :
             AcCreate([stream |-> t.stream, scope |-> t.scope, access |-> role, expiry |-> d])
  <2>1. PICK t \in AcTargets, role \in AcRoles, d \in AcExpiries :
             AcCreate([stream |-> t.stream, scope |-> t.scope, access |-> role, expiry |-> d])
    BY <1>5
  <2>2. [stream |-> t.stream, scope |-> t.scope, access |-> role, expiry |-> d] \in AcRequests
    BY DEF AcRequests
  <2> QED
    BY <1>1, <2>1, <2>2
<1> QED
  BY <1>2, <1>3, <1>4, <1>5 DEF AccessNext

\* A live token covers the streams its request describes, whatever the names, and none
\* but those of the ids that can be told from them; it has the operations of the role
\* that was asked for, is not revoked and ends no later than asked, however often the
\* provider's answers are lost (s2StreamMatcher, s2ScopePrefix, s2OpsForRole,
\* DeleteStreamAccess, normalizeExpiry).
THEOREM TokensGrantAsAsked == AccessSpec => []AcGrantsAsAsked
<1>1. AccessInit => AcInv
  BY DEF AccessInit, AcInv
<1>2. AcInv => AcGrantsAsAsked
  <2> SUFFICES ASSUME AcInv, NEW k \in acTokens
               PROVE  LET q == acAsked[k.id] IN
                      /\ \A s \in AcStreams :
                           /\ AcDescribes(q, s) => AcCovers(k.match, AcID(s))
                           /\ AcCovers(k.match, AcID(s)) /\ AcToldApart(q, s) => AcDescribes(q, s)
                      /\ "read" \in k.ops <=> q.access \in {"read", "readwrite"}
                      /\ "append" \in k.ops <=> q.access \in {"write", "readwrite"}
                      /\ k.id \notin acRevoked
                      /\ k.left <= AcNormalExpiry(q.expiry)
    BY DEF AcGrantsAsAsked
  <2> DEFINE q == acAsked[k.id]
  <2>1. q \in AcRequests /\ AcValid(q) /\ k.match = AcMatcher(q) /\ k.ops = AcOps(q.access)
    BY DEF AcInv
  <2> HIDE DEF q
  <2>2. PICK t \in AcTargets : q.stream = t.stream /\ q.scope = t.scope
    BY <2>1 DEF AcRequests
  <2>3. \A s \in AcStreams :
          /\ AcDescribes(q, s) => AcCovers(k.match, AcID(s))
          /\ AcCovers(k.match, AcID(s)) /\ AcToldApart(q, s) => AcDescribes(q, s)
    BY <2>1, <2>2, AcMatcherCovers, AcMatcherIsExact
  <2>4. /\ "read" \in k.ops <=> q.access \in {"read", "readwrite"}
        /\ "append" \in k.ops <=> q.access \in {"write", "readwrite"}
    BY <2>1 DEF AcOps
  <2> QED
    BY <2>3, <2>4 DEF AcInv, q
<1> QED
  BY AcInvStep, <1>1, <1>2, PTL DEF AccessSpec
=============================================================================
