-------------------------- MODULE CredentialStore --------------------------
(***************************************************************************)
(* Cloud credentials in the keychain's file (src/cloud/keychain_store.go    *)
(* over src/keychain/file_provider.go).  A credential is several secrets    *)
(* that are set one after another; each Set or Delete reads the whole file, *)
(* changes one secret in memory and renames a new file into place, under    *)
(* the mutex of its provider.  Two processes, or two providers of one       *)
(* process, have two mutexes and one file.  A secret's value is the number  *)
(* of the call that sets it.                                               *)
(***************************************************************************)
EXTENDS Integers, Sequences

CONSTANTS
  CrThreads,     \* goroutines that save and clear credentials
  CrProviderOf,  \* [CrThreads -> provider]: whose mutex a goroutine takes
  CrMaxCalls     \* bound: calls made in a behaviour

CrFields == {"api_key", "token", "refresh_token", "tenant_domain"}
CrCalls == {"saveKey", "saveToken", "clear"}
CrProviders == {CrProviderOf[t] : t \in CrThreads}

ASSUME CredentialAssumption == CrMaxCalls \in Nat

\* The order in which a call goes through the fields.
CrOrder(call) ==
  CASE call = "saveKey"   -> <<"api_key", "tenant_domain">>
    [] call = "saveToken" -> <<"token", "refresh_token", "tenant_domain">>
    [] call = "clear"     -> <<"api_key", "token", "refresh_token", "tenant_domain">>

NoSecret == 0

\* The types of credential, each named for the call that saves it, and the secrets
\* of a type; the tenant's domain belongs to the profile, whichever type it came with.
CrTypes == {"saveKey", "saveToken"}
CrOwn(type) == IF type = "saveKey" THEN {"api_key"} ELSE {"token", "refresh_token"}

VARIABLES
  crFile,     \* the secrets in the file; no file and no secret are the same
  crMutex,    \* the goroutines that hold their provider's mutex
  crPc,       \* "idle", "next" field, or "loaded": the file read, not yet replaced
  crCall,     \* the call a goroutine is in: [call, n], n its number
  crField,    \* the position in CrOrder
  crCopy,     \* the file as the goroutine has read it
  crCount,    \* calls so far
  crLast,     \* history: what was last set or deleted of each secret
  crCross,    \* history: two providers have had the file loaded at once
  crTorn,     \* history: since the last call that ran alone and returned nil,
              \* a call has failed, died or overlapped another
  crDone,     \* history: that call
  crSaved     \* history: the save of each type that ran alone and returned nil, while
              \* no other of the type, no Clear and no overlapping calls have followed

credVars == <<crFile, crMutex, crPc, crCall, crField, crCopy, crCount,
              crLast, crCross, crTorn, crDone, crSaved>>

CrSecrets == [CrFields -> 0..CrMaxCalls]
CrNoCall == [call |-> "clear", n |-> 0]
CrEmpty == [f \in CrFields |-> NoSecret]

CredTypeOK ==
  /\ crFile \in CrSecrets /\ crLast \in CrSecrets
  /\ crMutex \in SUBSET CrThreads
  /\ crPc \in [CrThreads -> {"idle", "next", "loaded"}]
  /\ crCall \in [CrThreads -> [call : CrCalls, n : 0..CrMaxCalls]]
  /\ crField \in [CrThreads -> 1..5]
  /\ crCopy \in [CrThreads -> CrSecrets]
  /\ crCount \in 0..CrMaxCalls
  /\ {crCross, crTorn} \subseteq BOOLEAN
  /\ crDone \in [call : CrCalls, n : 0..CrMaxCalls]
  /\ crSaved \in [CrTypes -> 0..CrMaxCalls]

CredInit ==
  /\ crFile = CrEmpty /\ crLast = CrEmpty
  /\ crMutex = {}
  /\ crPc = [t \in CrThreads |-> "idle"]
  /\ crCall = [t \in CrThreads |-> CrNoCall]
  /\ crField = [t \in CrThreads |-> 1]
  /\ crCopy = [t \in CrThreads |-> CrEmpty]
  /\ crCount = 0
  /\ crCross = FALSE /\ crTorn = FALSE
  /\ crDone = CrNoCall
  /\ crSaved = [type \in CrTypes |-> 0]

CrRunning(T) == {t \in T : crPc[t] # "idle"}
CrField(t) == CrOrder(crCall[t].call)[crField[t]]

\* What the call leaves in its fields: its value, or no secret.
CrValue(c) == IF c.call = "clear" THEN NoSecret ELSE c.n

-----------------------------------------------------------------------------
\* SaveAPIKeyCredential, SaveTokenCredential or Clear is called.
CrBegin(t) ==
  /\ crPc[t] = "idle"
  /\ crCount < CrMaxCalls
  /\ \E call \in CrCalls :
       /\ crCall' = [crCall EXCEPT ![t] = [call |-> call, n |-> crCount + 1]]
       /\ crSaved' = [type \in CrTypes |->
            IF call \in {type, "clear"} \/ CrRunning(CrThreads) # {} THEN 0 ELSE crSaved[type]]
  /\ crCount' = crCount + 1
  /\ crPc' = [crPc EXCEPT ![t] = "next"]
  /\ crTorn' = (CrRunning(CrThreads) # {})
  /\ UNCHANGED <<crFile, crMutex, crField, crCopy, crLast, crCross, crDone>>

\* The goroutines of T leave their calls.
CrEnd(T) ==
  /\ crPc' = [t \in CrThreads |-> IF t \in T THEN "idle" ELSE crPc[t]]
  /\ crCall' = [t \in CrThreads |-> IF t \in T THEN CrNoCall ELSE crCall[t]]
  /\ crField' = [t \in CrThreads |-> IF t \in T THEN 1 ELSE crField[t]]
  /\ crCopy' = [t \in CrThreads |-> IF t \in T THEN CrEmpty ELSE crCopy[t]]
  /\ crMutex' = crMutex \ T

\* The field is done: the next one, or the call returns nil.
CrAdvance(t) ==
  IF crField[t] < Len(CrOrder(crCall[t].call))
  THEN /\ crField' = [crField EXCEPT ![t] = @ + 1]
       /\ crPc' = [crPc EXCEPT ![t] = "next"]
       /\ crCopy' = [crCopy EXCEPT ![t] = CrEmpty]
       /\ crMutex' = crMutex \ {t}
       /\ UNCHANGED <<crCall, crDone, crSaved>>
  ELSE /\ CrEnd({t})
       /\ crDone' = crCall[t]
       /\ crSaved' = [type \in CrTypes |->
            IF type = crCall[t].call /\ ~crTorn THEN crCall[t].n ELSE crSaved[type]]

CrMutexFree(t) == \A u \in crMutex : CrProviderOf[u] # CrProviderOf[t]

\* Mutant: set takes the mutex as a reader.
CrLoadShared(t) ==
  /\ crPc[t] = "next"
  /\ crPc' = [crPc EXCEPT ![t] = "loaded"]
  /\ crCopy' = [crCopy EXCEPT ![t] = crFile]
  /\ crCross' = (crCross \/ \E u \in CrThreads :
       crPc[u] = "loaded" /\ CrProviderOf[u] # CrProviderOf[t])
  /\ UNCHANGED <<crFile, crMutex, crCall, crField, crCount, crLast, crTorn, crDone, crSaved>>

\* Set and Delete take the mutex and read the file.  A Delete that finds no
\* secret is done (ErrNotFound, which Clear passes over).
CrLoad(t) ==
  /\ crPc[t] = "next"
  /\ CrMutexFree(t)
  /\ IF crCall[t].call = "clear" /\ crFile[CrField(t)] = NoSecret
     THEN CrAdvance(t) /\ UNCHANGED crCross
     ELSE /\ crMutex' = crMutex \cup {t}
          /\ crPc' = [crPc EXCEPT ![t] = "loaded"]
          /\ crCopy' = [crCopy EXCEPT ![t] = crFile]
          /\ crCross' = (crCross \/ \E u \in CrThreads :
               crPc[u] = "loaded" /\ CrProviderOf[u] # CrProviderOf[t])
          /\ UNCHANGED <<crCall, crField, crDone, crSaved>>
  /\ UNCHANGED <<crFile, crCount, crLast, crTorn>>

\* writeStore: the changed copy goes to a temporary file that replaces the
\* file in one step.
CrReplace(t) ==
  /\ crPc[t] = "loaded"
  /\ crFile' = [crCopy[t] EXCEPT ![CrField(t)] = CrValue(crCall[t])]
  /\ crLast' = [crLast EXCEPT ![CrField(t)] = CrValue(crCall[t])]
  /\ CrAdvance(t)
  /\ UNCHANGED <<crCount, crCross, crTorn>>

\* Mutant: the error of a Set that is not the last is dropped.
CrFailsSilently(t) ==
  /\ crPc[t] = "loaded"
  /\ CrAdvance(t)
  /\ UNCHANGED <<crFile, crCount, crLast, crCross, crTorn>>

\* Reading or writing fails: the file is as it was and the call returns the
\* error, its earlier fields changed and its later ones not.
CrFails(t) ==
  /\ crPc[t] # "idle"
  /\ CrEnd({t})
  /\ crTorn' = TRUE
  /\ UNCHANGED <<crFile, crCount, crLast, crCross, crDone, crSaved>>

\* The process of provider p dies; a temporary file may stay, the file is whole.
CrDies(p) ==
  /\ \E t \in CrThreads : CrProviderOf[t] = p /\ crPc[t] # "idle"
  /\ CrEnd({t \in CrThreads : CrProviderOf[t] = p})
  /\ crTorn' = TRUE
  /\ UNCHANGED <<crFile, crCount, crLast, crCross, crDone, crSaved>>

CrSteps(t) == CrLoad(t) \/ CrReplace(t)

CredNext ==
  \/ \E t \in CrThreads : CrBegin(t) \/ CrSteps(t) \/ CrFails(t)
  \/ \E p \in CrProviders : CrDies(p)

CredSpec == CredInit /\ [][CredNext]_credVars

-----------------------------------------------------------------------------
(* Properties *)

\* The file holds of every secret what was last set or deleted of it, however
\* calls of one provider interleave, fail or die; only a provider with another
\* mutex can undo a change (fileProvider's mutex, held from the read to the
\* rename).
CrNoLostUpdate == ~crCross => crFile = crLast

\* A credential whose call ran alone and returned nil is in the file as a
\* whole, and its own secrets stay so together, whatever becomes of saves of the
\* other type that run alone after it: no secret of it is older, or the other
\* type's (the order of the Sets, the error returns).
CrSavedWhole ==
  /\ ~crTorn /\ CrRunning(CrThreads) = {} /\ crDone.n > 0 =>
       \A i \in DOMAIN CrOrder(crDone.call) :
         crFile[CrOrder(crDone.call)[i]] = CrValue(crDone)
  /\ \A type \in CrTypes : crSaved[type] > 0 =>
       \A f \in CrOwn(type) : crFile[f] = crSaved[type]
=============================================================================
