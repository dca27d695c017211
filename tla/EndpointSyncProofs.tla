------------------------- MODULE EndpointSyncProofs -------------------------
(* Theorems about EndpointSync, for all clients, callers, events, limits and *)
(* fault budgets.  Events may be infinite: those emitted are finitely many.  *)
EXTENDS EndpointSync, FiniteSetTheorems, TLAPS

\* The invariant that types, and everything counted, rest on.
Emission ==
    /\ IsFiniteSet(Emitted)
    /\ Pending \subseteq Emitted
    /\ server \subseteq Emitted
    /\ \A p \in Callers : /\ call[p].batch \subseteq Emitted
                          /\ call[p].confirmed \subseteq Emitted
                          /\ call[p].dropped \subseteq Emitted

-----------------------------------------------------------------------------
(* What the helpers of the model do.                                       *)

LEMMA SetCallType ==
    ASSUME TypeOK, NEW p \in Callers, NEW c \in Call, SetCall(p, c)
    PROVE  /\ call' \in [Callers -> Call]
           /\ call'[p] = c
           /\ \A q \in Callers \ {p} : call'[q] = call[q]
BY DEF TypeOK, SetCall

LEMMA NewCallType == NewCall \in Call
BY DEF NewCall, Call

LEMMA GotoType ==
    ASSUME TypeOK, NEW p \in Callers,
           NEW s \in {"idle", "read", "dropCorrupt", "purge", "send", "flight",
                      "confirm", "discard"},
           Goto(p, s)
    PROVE  pc' \in [Callers -> {"idle", "read", "dropCorrupt", "purge", "send", "flight",
                                "confirm", "discard"}]
BY DEF TypeOK, Goto

LEMMA ReturnType ==
    ASSUME TypeOK, NEW p \in Callers, Return(p)
    PROVE  /\ call' \in [Callers -> Call]
           /\ pc' \in [Callers -> {"idle", "read", "dropCorrupt", "purge", "send", "flight",
                                   "confirm", "discard"}]
           /\ call'[p] = NewCall
           /\ \A q \in Callers \ {p} : call'[q] = call[q]
BY SetCallType, GotoType, NewCallType DEF Return

\* markDelivered takes from the pending rows those of its ids, and from the
\* counter as many.
LEMMA MarkDeliveredEffect ==
    ASSUME TypeOK, Emission, NEW ids, MarkDelivered(ids)
    PROVE  /\ row' \in [Events -> {"none", "pending", "delivered"}]
           /\ UNCHANGED <<rowId, nextRow>>
           /\ Pending' = Pending \ ids
           /\ IsFiniteSet(ids \cap Pending)
           /\ Cardinality(ids \cap Pending) \in Nat
           /\ pendingCount' = pendingCount - Cardinality(ids \cap Pending)
           /\ pendingCount' \in Int
<1>1. row' \in [Events -> {"none", "pending", "delivered"}]
  BY DEF TypeOK, MarkDelivered
<1>2. Pending' = Pending \ ids
  BY DEF MarkDelivered, Pending, TypeOK
<1>3. IsFiniteSet(ids \cap Pending) /\ Cardinality(ids \cap Pending) \in Nat
  <2>1. ids \cap Pending \in SUBSET Emitted
    BY DEF Emission
  <2>. QED
    BY <2>1, FS_Subset, FS_CardinalityType DEF Emission
<1>. QED
  BY <1>1, <1>2, <1>3 DEF MarkDelivered, TypeOK

LEMMA BreakerType ==
    ASSUME TypeOK, NEW p \in Callers, Succeeded(p) \/ Failed(p)
    PROVE  breaker' \in [Clients -> Breaker] /\ counted' \in [Callers -> BOOLEAN]
<1>1. ClientOf[p] \in Clients /\ breaker[ClientOf[p]] \in Breaker
  BY CallersAssumption DEF TypeOK
<1>2. TripAfter \in Nat \ {0}
  BY BoundsAssumption
<1>3. Fresh("closed") \in Breaker /\ Fresh("open") \in Breaker
  BY <1>2 DEF Fresh, Breaker
<1>4. \A s : Fresh(s) \in Breaker /\ Change(p, s) =>
          breaker' \in [Clients -> Breaker] /\ counted' \in [Callers -> BOOLEAN]
  <2>. SUFFICES ASSUME NEW s, Fresh(s) \in Breaker, Change(p, s)
                PROVE  breaker' \in [Clients -> Breaker] /\ counted' \in [Callers -> BOOLEAN]
    OBVIOUS
  <2>1. breaker' \in [Clients -> Breaker]
    BY <1>1 DEF Change, SetBreaker, TypeOK
  <2>2. counted' \in [Callers -> BOOLEAN]
    BY DEF Change, TypeOK
  <2>. QED
    BY <2>1, <2>2
<1>5. ASSUME NEW b \in Breaker, SetBreaker(p, b), Forget(p)
      PROVE  breaker' \in [Clients -> Breaker] /\ counted' \in [Callers -> BOOLEAN]
  BY <1>1, <1>5 DEF SetBreaker, Forget, TypeOK
<1>6. ASSUME breaker[ClientOf[p]].failures + 1 < TripAfter
      PROVE  [breaker[ClientOf[p]] EXCEPT !.failures =
                 breaker[ClientOf[p]].failures + 1] \in Breaker
  BY <1>1, <1>2, <1>6 DEF Breaker
<1>7. CASE UNCHANGED <<breaker, counted>>
  BY <1>7 DEF TypeOK
<1>8. CASE Succeeded(p)
  BY <1>3, <1>4, <1>5, <1>7, <1>8 DEF Succeeded
<1>9. CASE Failed(p)
  BY <1>3, <1>4, <1>5, <1>6, <1>7, <1>9 DEF Failed
<1>. QED
  BY <1>8, <1>9

-----------------------------------------------------------------------------
(* Types, and the bookkeeping of what was emitted.                         *)

LEMMA ShapeInit == Init => TypeOK /\ Emission
<1>. SUFFICES ASSUME Init PROVE TypeOK /\ Emission
  OBVIOUS
<1>1. TypeOK
  <2>1. call \in [Callers -> Call]
    BY NewCallType DEF Init
  <2>2. breaker \in [Clients -> Breaker]
    BY BoundsAssumption DEF Init, Fresh, Breaker
  <2>. QED
    BY <2>1, <2>2, BoundsAssumption DEF Init, TypeOK
<1>2. Emission
  <2>1. Emitted = {} /\ Pending = {}
    BY DEF Init, Emitted, Pending
  <2>2. \A p \in Callers : call[p] = NewCall
    BY DEF Init
  <2>. QED
    BY <2>1, <2>2, FS_EmptySet DEF Init, Emission, NewCall
<1>. QED
  BY <1>1, <1>2

\* A step that emits nothing keeps Emission when it adds no pending row and its
\* caller's locals stay within what was emitted.
LEMMA EmissionKept ==
    ASSUME Emission, UNCHANGED rowId, Pending' \subseteq Pending,
           server' \subseteq Emitted,
           \A p \in Callers : /\ call'[p].batch \subseteq Emitted
                              /\ call'[p].confirmed \subseteq Emitted
                              /\ call'[p].dropped \subseteq Emitted
    PROVE  Emission'
<1>1. Emitted' = Emitted
  BY DEF Emitted
<1>. QED
  BY <1>1 DEF Emission

LEMMA EmitShape ==
    ASSUME TypeOK, Emission, NEW e \in Events, Emit(e)
    PROVE  TypeOK' /\ Emission' /\ Emitted' = Emitted \cup {e} /\ Pending' = Pending \cup {e}
           /\ e \notin Pending
<1>1. TypeOK'
  BY DEF TypeOK, Emit, sending
<1>2. Emitted' = Emitted \cup {e}
  BY DEF TypeOK, Emit, Emitted
<1>3. Pending' = Pending \cup {e}
  BY DEF TypeOK, Emit, Pending
<1>4. IsFiniteSet(Emitted')
  BY <1>2, FS_AddElement DEF Emission
<1>5. server' = server /\ call' = call
  BY DEF Emit, sending
<1>6. Emission'
  BY <1>2, <1>3, <1>4, <1>5 DEF Emission
<1>. QED
  BY <1>1, <1>2, <1>3, <1>6 DEF Emission, Emit

LEMMA StartSyncShape ==
    ASSUME TypeOK, Emission, NEW p \in Callers, StartSync(p)
    PROVE  TypeOK' /\ Emission'
<1>1. TypeOK'
  BY GotoType DEF StartSync, TypeOK, log, sending
<1>2. Pending' = Pending
  BY DEF StartSync, log, Pending
<1>. QED
  BY <1>1, <1>2, EmissionKept DEF StartSync, log, sending, Emission

LEMMA ReadPendingShape ==
    ASSUME TypeOK, Emission, NEW p \in Callers, ReadPending(p)
    PROVE  TypeOK' /\ Emission'
<1>. DEFINE batch == FirstRows(Pending, BatchSize)
<1>1. batch \subseteq Pending /\ batch \subseteq Events /\ batch \subseteq Emitted
  BY DEF FirstRows, Pending, Emission
<1>2. [NewCall EXCEPT !.batch = batch] \in Call
  BY <1>1 DEF NewCall, Call
<1>3. CASE batch = {} /\ Return(p)
  <2>1. TypeOK'
    BY <1>3, ReturnType DEF ReadPending, TypeOK, log, sending
  <2>2. Pending' = Pending
    BY DEF ReadPending, log, Pending
  <2>3. \A q \in Callers : call'[q] = call[q] \/ call'[q] = NewCall
    BY <1>3, ReturnType
  <2>. QED
    BY <2>1, <2>2, <2>3, EmissionKept DEF ReadPending, log, sending, Emission, NewCall
<1>4. CASE /\ batch # {}
           /\ SetCall(p, [NewCall EXCEPT !.batch = batch])
           /\ Goto(p, IF batch \cap Corrupt = {} THEN "send" ELSE "dropCorrupt")
  <2>1. TypeOK'
    BY <1>2, <1>4, SetCallType, GotoType DEF ReadPending, TypeOK, log, sending
  <2>2. Pending' = Pending
    BY DEF ReadPending, log, Pending
  <2>3. /\ call'[p] = [NewCall EXCEPT !.batch = batch]
        /\ \A q \in Callers \ {p} : call'[q] = call[q]
    BY <1>2, <1>4, SetCallType
  <2>. QED
    BY <1>1, <2>1, <2>2, <2>3, EmissionKept
       DEF ReadPending, log, sending, Emission, NewCall
<1>. QED
  BY <1>3, <1>4 DEF ReadPending

\* The steps that mark rows: the caller's locals change only in their batch and
\* in where they go on.
LEMMA MarkShape ==
    ASSUME TypeOK, Emission, NEW p \in Callers, NEW ids, MarkDelivered(ids),
           NEW batch \in SUBSET call[p].batch,
           NEW after \in {"read", "send", "discard"},
           SetCall(p, [call[p] EXCEPT !.batch = batch, !.after = after]),
           Goto(p, "purge"), UNCHANGED sending, UNCHANGED faults, synced' \in Nat
    PROVE  TypeOK' /\ Emission'
<1>. DEFINE c == [call[p] EXCEPT !.batch = batch, !.after = after]
<1>1. call[p] \in Call
  BY DEF TypeOK
<1>2. /\ c \in Call
      /\ c.batch = batch /\ c.confirmed = call[p].confirmed /\ c.dropped = call[p].dropped
  BY <1>1 DEF Call
<1>3. TypeOK'
  BY <1>2, MarkDeliveredEffect, SetCallType, GotoType DEF TypeOK, sending
<1>4. call'[p] = c /\ \A q \in Callers \ {p} : call'[q] = call[q]
  BY <1>2, SetCallType
<1>5. Pending' \subseteq Pending /\ UNCHANGED rowId
  BY MarkDeliveredEffect
<1>. QED
  BY <1>2, <1>3, <1>4, <1>5, EmissionKept, Zenon DEF Emission, sending

LEMMA DropCorruptShape ==
    ASSUME TypeOK, Emission, NEW p \in Callers, DropCorrupt(p)
    PROVE  TypeOK' /\ Emission'
<1>. DEFINE valid == call[p].batch \ Corrupt
<1>1. /\ SetCall(p, [call[p] EXCEPT !.batch = valid,
                                    !.after = IF valid = {} THEN "read" ELSE "send"])
      /\ MarkDelivered(call[p].batch \cap Corrupt)
      /\ Goto(p, "purge") /\ UNCHANGED sending /\ UNCHANGED faults
      /\ synced' \in Nat
  BY DEF DropCorrupt, TypeOK
<1>2. valid \in SUBSET call[p].batch /\ (IF valid = {} THEN "read" ELSE "send") \in {"read", "send", "discard"}
  OBVIOUS
<1>. QED
  BY <1>1, <1>2, MarkShape, Zenon

LEMMA ConfirmShape ==
    ASSUME TypeOK, Emission, NEW p \in Callers, Confirm(p)
    PROVE  TypeOK' /\ Emission'
<1>. DEFINE after == IF call[p].dropped = {} THEN "read" ELSE "discard"
<1>1. MarkDelivered(call[p].confirmed)
  BY DEF Confirm
<1>2. synced' \in Nat
  <2>1. Cardinality(call[p].confirmed \cap Pending) \in Nat
    BY <1>1, MarkDeliveredEffect
  <2>. QED
    BY <2>1 DEF Confirm, TypeOK
<1>3. [call[p] EXCEPT !.after = after] = [call[p] EXCEPT !.batch = call[p].batch, !.after = after]
  BY DEF TypeOK, Call
<1>4. SetCall(p, [call[p] EXCEPT !.batch = call[p].batch, !.after = after])
  BY <1>3 DEF Confirm
<1>5. after \in {"read", "send", "discard"}
  OBVIOUS
<1>. QED
  BY <1>1, <1>2, <1>4, <1>5, MarkShape DEF Confirm

LEMMA DiscardShape ==
    ASSUME TypeOK, Emission, NEW p \in Callers, Discard(p)
    PROVE  TypeOK' /\ Emission'
<1>1. [call[p] EXCEPT !.after = "read"] = [call[p] EXCEPT !.batch = call[p].batch, !.after = "read"]
  BY DEF TypeOK, Call
<1>2. SetCall(p, [call[p] EXCEPT !.batch = call[p].batch, !.after = "read"])
  BY <1>1 DEF Discard
<1>3. synced' \in Nat
  BY DEF Discard, TypeOK
<1>. QED
  BY <1>2, <1>3, MarkShape, Zenon DEF Discard

LEMMA PurgeShape ==
    ASSUME TypeOK, Emission, NEW p \in Callers, Purge(p)
    PROVE  TypeOK' /\ Emission' /\ Pending' = Pending
<1>1. call[p].after \in {"read", "send", "discard"}
  BY DEF TypeOK, Call
<1>2. row' \in [Events -> {"none", "pending", "delivered"}] /\ Pending' = Pending
  BY DEF Purge, TypeOK, Pending
<1>3. TypeOK'
  BY <1>1, <1>2, GotoType DEF Purge, TypeOK, sending
<1>. QED
  BY <1>2, <1>3, EmissionKept DEF Purge, sending, Emission

\* The steps that leave the log and the server alone.
LEMMA LocalShape ==
    ASSUME TypeOK, Emission, UNCHANGED log, UNCHANGED <<server, synced>>,
           call' \in [Callers -> Call],
           \A p \in Callers : call'[p] = call[p] \/ call'[p] = NewCall,
           pc' \in [Callers -> {"idle", "read", "dropCorrupt", "purge", "send", "flight",
                                "confirm", "discard"}],
           breaker' \in [Clients -> Breaker], counted' \in [Callers -> BOOLEAN],
           faults' \in 0..MaxFaults
    PROVE  TypeOK' /\ Emission'
<1>1. TypeOK'
  BY DEF TypeOK, log
<1>2. Pending' = Pending /\ UNCHANGED rowId
  BY DEF Pending, log
<1>. QED
  BY <1>1, <1>2, EmissionKept DEF Emission, NewCall

LEMMA FaultType == TypeOK /\ Fault => faults' \in 0..MaxFaults
BY BoundsAssumption DEF TypeOK, Fault

LEMMA SendShape ==
    ASSUME TypeOK, Emission, NEW p \in Callers, SendRejected(p) \/ SendBegins(p)
    PROVE  TypeOK' /\ Emission'
<1>1. CASE SendRejected(p)
  BY <1>1, ReturnType, LocalShape DEF SendRejected, sending, TypeOK
<1>2. CASE SendBegins(p)
  <2>1. pc' \in [Callers -> {"idle", "read", "dropCorrupt", "purge", "send", "flight",
                             "confirm", "discard"}]
    BY <1>2, GotoType DEF SendBegins
  <2>2. counted' \in [Callers -> BOOLEAN]
    BY <1>2 DEF SendBegins, TypeOK
  <2>. QED
    BY <1>2, <2>1, <2>2, LocalShape DEF SendBegins, TypeOK
<1>. QED
  BY <1>1, <1>2

\* What p's Sync does with an answer changes only p's locals.
LEMMA AnsweredEffect ==
    ASSUME TypeOK, NEW p \in Callers,
           NEW confirmed \in SUBSET call[p].batch, NEW dropped \in SUBSET call[p].batch,
           Answered(p, confirmed, dropped)
    PROVE  /\ call' \in [Callers -> Call]
           /\ pc' \in [Callers -> {"idle", "read", "dropCorrupt", "purge", "send", "flight",
                                   "confirm", "discard"}]
           /\ \A q \in Callers \ {p} : call'[q] = call[q]
           /\ \/ call'[p] = NewCall
              \/ /\ call'[p].batch = call[p].batch
                 /\ call'[p].confirmed = confirmed
                 /\ call'[p].dropped = dropped
<1>. DEFINE c == [call[p] EXCEPT !.confirmed = confirmed, !.dropped = dropped]
<1>1. call[p] \in Call
  BY DEF TypeOK
<1>2. /\ c \in Call
      /\ c.batch = call[p].batch /\ c.confirmed = confirmed /\ c.dropped = dropped
  BY <1>1 DEF Call
<1>3. CASE confirmed \cup dropped = {}
  <2>1. Return(p)
    BY <1>3 DEF Answered
  <2>. QED
    BY <2>1, ReturnType
<1>4. CASE confirmed \cup dropped # {}
  <2>1. SetCall(p, c) /\ Goto(p, IF confirmed # {} THEN "confirm" ELSE "discard")
    BY <1>4 DEF Answered
  <2>2. call'[p] = c /\ call' \in [Callers -> Call] /\ \A q \in Callers \ {p} : call'[q] = call[q]
    BY <1>2, <2>1, SetCallType
  <2>. QED
    BY <1>2, <2>1, <2>2, GotoType
<1>. QED
  BY <1>3, <1>4

LEMMA AnswerShape ==
    ASSUME TypeOK, Emission, NEW p \in Callers, Answer(p)
    PROVE  TypeOK' /\ Emission'
<1>1. PICK confirmed \in SUBSET (call[p].batch \ Invalid),
           dropped \in SUBSET (call[p].batch \cap (Invalid \cup server)) :
           server' = server \cup confirmed /\ Answered(p, confirmed, dropped)
  BY DEF Answer
<1>2. /\ call' \in [Callers -> Call]
      /\ pc' \in [Callers -> {"idle", "read", "dropCorrupt", "purge", "send", "flight",
                              "confirm", "discard"}]
      /\ \A q \in Callers \ {p} : call'[q] = call[q]
      /\ \/ call'[p] = NewCall
         \/ /\ call'[p].batch = call[p].batch
            /\ call'[p].confirmed = confirmed
            /\ call'[p].dropped = dropped
  <2>1. confirmed \in SUBSET call[p].batch /\ dropped \in SUBSET call[p].batch
    BY <1>1
  <2>. QED
    BY <1>1, <2>1, AnsweredEffect
<1>3. breaker' \in [Clients -> Breaker] /\ counted' \in [Callers -> BOOLEAN]
  BY BreakerType DEF Answer
<1>4. call[p].batch \subseteq Emitted /\ call[p].batch \subseteq Events
  BY DEF Emission, Emitted
<1>5. TypeOK'
  BY <1>1, <1>2, <1>3, <1>4 DEF Answer, TypeOK, log
<1>6. Pending' = Pending /\ UNCHANGED rowId
  BY DEF Answer, Pending, log
<1>7. \A q \in Callers : /\ call'[q].batch \subseteq Emitted
                         /\ call'[q].confirmed \subseteq Emitted
                         /\ call'[q].dropped \subseteq Emitted
  BY <1>1, <1>2, <1>4 DEF Emission, NewCall
<1>8. server' \subseteq Emitted
  BY <1>1, <1>4 DEF Emission
<1>. QED
  BY <1>5, <1>6, <1>7, <1>8, EmissionKept

LEMMA SendFailsShape ==
    ASSUME TypeOK, Emission, NEW p \in Callers, SendFails(p)
    PROVE  TypeOK' /\ Emission'
<1>1. call[p].batch \subseteq Emitted /\ call[p].batch \subseteq Events
  BY DEF Emission, Emitted
<1>2. server' \subseteq Emitted /\ server' \subseteq Events
  BY <1>1 DEF SendFails, Emission, TypeOK
<1>3. /\ breaker' \in [Clients -> Breaker] /\ counted' \in [Callers -> BOOLEAN]
      /\ faults' \in 0..MaxFaults
  BY BreakerType, FaultType DEF SendFails
<1>4. /\ call' \in [Callers -> Call]
      /\ pc' \in [Callers -> {"idle", "read", "dropCorrupt", "purge", "send", "flight",
                              "confirm", "discard"}]
      /\ \A q \in Callers : call'[q] = call[q] \/ call'[q] = NewCall
  BY ReturnType DEF SendFails
<1>5. TypeOK'
  BY <1>2, <1>3, <1>4 DEF SendFails, TypeOK, log
<1>6. Pending' = Pending /\ UNCHANGED rowId
  BY DEF SendFails, Pending, log
<1>. QED
  BY <1>2, <1>4, <1>5, <1>6, EmissionKept DEF Emission, NewCall

LEMMA FaultShape ==
    ASSUME TypeOK, Emission,
           \/ \E p \in Callers : StatementFails(p) \/ PurgeFails(p)
           \/ \E c \in Clients : BreakerTimeout(c) \/ Crash(c)
    PROVE  TypeOK' /\ Emission'
<1>1. ASSUME NEW p \in Callers, StatementFails(p) PROVE TypeOK' /\ Emission'
  <2>1. faults' \in 0..MaxFaults
    BY <1>1, FaultType DEF StatementFails
  <2>. QED
    BY <1>1, <2>1, ReturnType, LocalShape DEF StatementFails, sending, TypeOK
<1>2. ASSUME NEW p \in Callers, PurgeFails(p) PROVE TypeOK' /\ Emission'
  <2>1. faults' \in 0..MaxFaults
    BY <1>2, FaultType DEF PurgeFails
  <2>2. call[p].after \in {"read", "send", "discard"}
    BY DEF TypeOK, Call
  <2>3. pc' \in [Callers -> {"idle", "read", "dropCorrupt", "purge", "send", "flight",
                             "confirm", "discard"}]
    BY <1>2, <2>2, GotoType DEF PurgeFails
  <2>. QED
    BY <1>2, <2>1, <2>3, LocalShape DEF PurgeFails, sending, TypeOK
<1>3. ASSUME NEW c \in Clients, BreakerTimeout(c) PROVE TypeOK' /\ Emission'
  <2>1. Fresh("half") \in Breaker
    BY BoundsAssumption DEF Fresh, Breaker
  <2>2. breaker' \in [Clients -> Breaker] /\ counted' \in [Callers -> BOOLEAN]
    BY <1>3, <2>1 DEF BreakerTimeout, TypeOK
  <2>. QED
    BY <1>3, <2>2, LocalShape DEF BreakerTimeout, TypeOK
<1>4. ASSUME NEW c \in Clients, Crash(c) PROVE TypeOK' /\ Emission'
  <2>1. Fresh("closed") \in Breaker /\ NewCall \in Call
    BY BoundsAssumption, NewCallType DEF Fresh, Breaker
  <2>2. breaker' \in [Clients -> Breaker] /\ counted' \in [Callers -> BOOLEAN]
    BY <1>4, <2>1 DEF Crash, TypeOK
  <2>3. /\ call' \in [Callers -> Call]
        /\ \A p \in Callers : call'[p] = call[p] \/ call'[p] = NewCall
    BY <1>4, <2>1 DEF Crash, TypeOK
  <2>4. pc' \in [Callers -> {"idle", "read", "dropCorrupt", "purge", "send", "flight",
                             "confirm", "discard"}]
    BY <1>4 DEF Crash, TypeOK
  <2>5. faults' \in 0..MaxFaults
    BY <1>4, FaultType DEF Crash
  <2>. QED
    BY <1>4, <2>2, <2>3, <2>4, <2>5, LocalShape DEF Crash
<1>. QED
  BY <1>1, <1>2, <1>3, <1>4

LEMMA ShapeStep == TypeOK /\ Emission /\ [Next]_vars => TypeOK' /\ Emission'
<1>. SUFFICES ASSUME TypeOK, Emission, [Next]_vars PROVE TypeOK' /\ Emission'
  OBVIOUS
<1>1. CASE \E e \in Events : Emit(e)
  BY <1>1, EmitShape
<1>2. ASSUME NEW p \in Callers, Sync(p) PROVE TypeOK' /\ Emission'
  BY <1>2, StartSyncShape, ReadPendingShape, DropCorruptShape, PurgeShape, SendShape,
     AnswerShape, ConfirmShape, DiscardShape DEF Sync
<1>3. ASSUME NEW p \in Callers, SendFails(p) PROVE TypeOK' /\ Emission'
  BY <1>3, SendFailsShape
<1>4. CASE \/ \E p \in Callers : StatementFails(p) \/ PurgeFails(p)
           \/ \E c \in Clients : BreakerTimeout(c) \/ Crash(c)
  BY <1>4, FaultShape
<1>5. CASE UNCHANGED vars
  <2>1. Pending' = Pending
    BY <1>5 DEF vars, Pending
  <2>2. Emission'
    BY <1>5, <2>1, EmissionKept DEF vars, Emission
  <2>. QED
    BY <1>5, <2>2 DEF vars, TypeOK
<1>. QED
  BY <1>1, <1>2, <1>3, <1>4, <1>5 DEF Next

\* Every variable keeps its type, and what is pending, accepted by the server or
\* in the hands of a caller is a finite set of emitted events.
THEOREM TypeCorrect == Spec => [](TypeOK /\ Emission)
<1>. QED
  BY ShapeInit, ShapeStep, PTL DEF Spec

-----------------------------------------------------------------------------
(* Three kinds of steps: an event is emitted, a caller marks rows, or the    *)
(* pending rows and their counter stay as they are.                          *)

Quiet ==
    /\ UNCHANGED <<rowId, pendingCount, synced>>
    /\ Pending' = Pending
    /\ server \subseteq server'

LEMMA StepKinds ==
    ASSUME TypeOK, Emission, [Next]_vars
    PROVE  \/ \E e \in Events : Emit(e)
           \/ \E p \in Callers : DropCorrupt(p) \/ Confirm(p) \/ Discard(p)
           \/ Quiet
<1>1. ASSUME UNCHANGED log, UNCHANGED synced, server \subseteq server' PROVE Quiet
  BY <1>1 DEF log, Quiet, Pending
<1>2. ASSUME NEW p \in Callers, Purge(p) PROVE Quiet
  BY <1>2, PurgeShape DEF Quiet, Purge, sending
<1>3. ASSUME NEW p \in Callers,
             StartSync(p) \/ ReadPending(p) \/ SendRejected(p) \/ SendBegins(p) \/ Answer(p)
      PROVE  Quiet
  BY <1>1, <1>3 DEF StartSync, ReadPending, SendRejected, SendBegins, Answer, sending
<1>4. ASSUME NEW p \in Callers, StatementFails(p) \/ PurgeFails(p) \/ SendFails(p) PROVE Quiet
  BY <1>1, <1>4 DEF StatementFails, PurgeFails, SendFails, sending
<1>5. ASSUME NEW c \in Clients, BreakerTimeout(c) \/ Crash(c) PROVE Quiet
  BY <1>1, <1>5 DEF BreakerTimeout, Crash
<1>6. ASSUME UNCHANGED vars PROVE Quiet
  BY <1>1, <1>6 DEF vars, log
<1>. QED
  BY <1>2, <1>3, <1>4, <1>5, <1>6 DEF Next, Sync

-----------------------------------------------------------------------------
(* Nothing is lost.                                                        *)

LEMMA AnswersKnownStep ==
    ASSUME TypeOK, Emission, AnswersKnown, [Next]_vars
    PROVE  AnswersKnown'
<1>1. server \subseteq server'
  BY StepKinds, Zenon DEF Quiet, Emit, DropCorrupt, Confirm, Discard, sending
<1>. DEFINE Kept(q) == \/ /\ call'[q].confirmed = {}
                          /\ call'[q].dropped = {}
                       \/ /\ call'[q].confirmed = call[q].confirmed
                          /\ call'[q].dropped = call[q].dropped
<1>2. ASSUME \A q \in Callers : Kept(q) PROVE AnswersKnown'
  <2>. SUFFICES ASSUME NEW q \in Callers
                PROVE  /\ call'[q].confirmed \subseteq server'
                       /\ call'[q].dropped \subseteq server' \cup Invalid
    BY DEF AnswersKnown
  <2>1. call[q].confirmed \subseteq server /\ call[q].dropped \subseteq server \cup Invalid
    BY DEF AnswersKnown
  <2>. QED
    BY <1>1, <1>2, <2>1 DEF NewCall
<1>3. ASSUME UNCHANGED call PROVE AnswersKnown'
  BY <1>2, <1>3
<1>4. ASSUME NEW p \in Callers, Return(p) PROVE AnswersKnown'
  BY <1>2, <1>4, ReturnType DEF NewCall
<1>5. ASSUME NEW p \in Callers, ReadPending(p) PROVE AnswersKnown'
  <2>. DEFINE batch == FirstRows(Pending, BatchSize)
              c == [NewCall EXCEPT !.batch = batch]
  <2>1. batch \subseteq Events
    BY DEF FirstRows, Pending
  <2>2. c \in Call /\ c.confirmed = {} /\ c.dropped = {}
    BY <2>1 DEF NewCall, Call
  <2>3. CASE SetCall(p, c)
    BY <1>2, <2>2, <2>3, SetCallType
  <2>. QED
    BY <1>4, <1>5, <2>3 DEF ReadPending
<1>6. ASSUME NEW p \in Callers, DropCorrupt(p) PROVE AnswersKnown'
  <2>. DEFINE valid == call[p].batch \ Corrupt
              c == [call[p] EXCEPT !.batch = valid,
                                   !.after = IF valid = {} THEN "read" ELSE "send"]
  <2>0. call[p] \in Call /\ valid \in SUBSET Events
        /\ (IF valid = {} THEN "read" ELSE "send") \in {"read", "send", "discard"}
    BY DEF TypeOK, Call
  <2>. HIDE DEF valid
  <2>1. c \in Call /\ c.confirmed = call[p].confirmed /\ c.dropped = call[p].dropped
    BY <2>0 DEF Call
  <2>. USE DEF valid
  <2>2. SetCall(p, c)
    BY <1>6 DEF DropCorrupt
  <2>3. call'[p] = c /\ \A q \in Callers \ {p} : call'[q] = call[q]
    BY <2>1, <2>2, SetCallType
  <2>4. \A q \in Callers : Kept(q)
    BY <2>1, <2>3
  <2>. QED
    BY <1>2, <2>4
<1>7. ASSUME NEW p \in Callers, Confirm(p) \/ Discard(p) PROVE AnswersKnown'
  <2>1. PICK after \in {"read", "discard"} : SetCall(p, [call[p] EXCEPT !.after = after])
    BY <1>7 DEF Confirm, Discard
  <2>. DEFINE c == [call[p] EXCEPT !.after = after]
  <2>0. call[p] \in Call
    BY DEF TypeOK
  <2>2. c \in Call /\ c.confirmed = call[p].confirmed /\ c.dropped = call[p].dropped
    BY <2>0 DEF Call
  <2>3. call'[p] = c /\ \A q \in Callers \ {p} : call'[q] = call[q]
    BY <2>1, <2>2, SetCallType
  <2>4. \A q \in Callers : Kept(q)
    BY <2>2, <2>3
  <2>. QED
    BY <1>2, <2>4
<1>8. ASSUME NEW p \in Callers, Answer(p) PROVE AnswersKnown'
  <2>1. PICK confirmed \in SUBSET (call[p].batch \ Invalid),
             dropped \in SUBSET (call[p].batch \cap (Invalid \cup server)) :
             server' = server \cup confirmed /\ Answered(p, confirmed, dropped)
    BY <1>8 DEF Answer
  <2>a. confirmed \in SUBSET call[p].batch /\ dropped \in SUBSET call[p].batch
    BY <2>1
  <2>2. /\ \A q \in Callers \ {p} : call'[q] = call[q]
        /\ \/ call'[p] = NewCall
           \/ call'[p].confirmed = confirmed /\ call'[p].dropped = dropped
    BY <2>1, <2>a, AnsweredEffect
  <2>. QED
    BY <1>1, <2>1, <2>2 DEF AnswersKnown, NewCall
<1>9. ASSUME NEW c \in Clients, Crash(c) PROVE AnswersKnown'
  <2>1. \A q \in Callers : call'[q] = call[q] \/ call'[q] = NewCall
    BY <1>9 DEF Crash, TypeOK
  <2>. QED
    BY <1>2, <2>1 DEF NewCall
<1>10. ASSUME NEW e \in Events, Emit(e) PROVE AnswersKnown'
  BY <1>3, <1>10 DEF Emit
<1>11. ASSUME NEW p \in Callers, StartSync(p) \/ Purge(p) \/ SendBegins(p) \/ PurgeFails(p)
       PROVE  AnswersKnown'
  BY <1>3, <1>11 DEF StartSync, Purge, SendBegins, PurgeFails
<1>12. ASSUME NEW p \in Callers, SendRejected(p) \/ StatementFails(p) \/ SendFails(p)
       PROVE  AnswersKnown'
  BY <1>4, <1>12 DEF SendRejected, StatementFails, SendFails
<1>13. ASSUME NEW c \in Clients, BreakerTimeout(c) PROVE AnswersKnown'
  BY <1>3, <1>13 DEF BreakerTimeout
<1>14. ASSUME UNCHANGED vars PROVE AnswersKnown'
  BY <1>3, <1>14 DEF vars
<1>. QED
  BY <1>5, <1>6, <1>7, <1>8, <1>9, <1>10, <1>11, <1>12, <1>13, <1>14 DEF Next, Sync

LEMMA NothingLostStep ==
    ASSUME TypeOK, Emission, AnswersKnown, NothingLost, [Next]_vars
    PROVE  NothingLost'
<1>1. ASSUME NEW e \in Events, Emit(e) PROVE NothingLost'
  BY <1>1, EmitShape DEF NothingLost, Emit, sending
<1>2. ASSUME Quiet PROVE NothingLost'
  BY <1>2 DEF Quiet, NothingLost, Emitted
<1>3. ASSUME NEW ids \in SUBSET (server \cup Corrupt \cup Invalid), MarkDelivered(ids),
             UNCHANGED server
      PROVE  NothingLost'
  <2>1. Pending' = Pending \ ids /\ UNCHANGED rowId
    BY <1>3, MarkDeliveredEffect
  <2>2. Emitted' = Emitted
    BY <2>1 DEF Emitted
  <2>. QED
    BY <1>3, <2>1, <2>2 DEF NothingLost
<1>4. ASSUME NEW p \in Callers, DropCorrupt(p) \/ Confirm(p) \/ Discard(p) PROVE NothingLost'
  <2>1. CASE DropCorrupt(p)
    BY <1>3, <2>1 DEF DropCorrupt, sending
  <2>2. CASE Confirm(p)
    BY <1>3, <2>2 DEF Confirm, sending, AnswersKnown
  <2>3. CASE Discard(p)
    BY <1>3, <2>3 DEF Discard, sending, AnswersKnown
  <2>. QED
    BY <1>4, <2>1, <2>2, <2>3
<1>. QED
  BY <1>1, <1>2, <1>4, StepKinds

LostInv == TypeOK /\ Emission /\ AnswersKnown /\ NothingLost

\* An emitted event is pending, accepted by the server, corrupted or refused for
\* good, through every failure and with any number of callers.
THEOREM NoEventLost == Spec => []NothingLost
<1>1. Init => LostInv
  <2>. SUFFICES ASSUME Init PROVE LostInv
    OBVIOUS
  <2>1. Emitted = {}
    BY DEF Init, Emitted
  <2>2. AnswersKnown
    BY DEF Init, AnswersKnown, NewCall
  <2>. QED
    BY <2>1, <2>2, ShapeInit DEF LostInv, NothingLost
<1>2. LostInv /\ [Next]_vars => LostInv'
  BY ShapeStep, AnswersKnownStep, NothingLostStep DEF LostInv
<1>3. LostInv => NothingLost
  BY DEF LostInv
<1>. QED
  BY <1>1, <1>2, <1>3, PTL DEF Spec

-----------------------------------------------------------------------------
(* The counters.                                                           *)

\* A part of what was emitted is finite.
LEMMA EmittedPart ==
    ASSUME Emission, NEW S \in SUBSET Emitted
    PROVE  IsFiniteSet(S) /\ Cardinality(S) \in Nat
BY FS_Subset, FS_CardinalityType DEF Emission

Counting == CountExact /\ pendingCount <= MaxPending

LEMMA CountingStep ==
    ASSUME TypeOK, Emission, Counting, [Next]_vars
    PROVE  Counting'
<1>1. MaxPending \in Nat /\ pendingCount \in Int
  BY BoundsAssumption DEF TypeOK
<1>2. IsFiniteSet(Pending) /\ Cardinality(Pending) \in Nat
  BY EmittedPart DEF Emission
<1>3. ASSUME NEW e \in Events, Emit(e) PROVE Counting'
  <2>1. Pending' = Pending \cup {e} /\ e \notin Pending
    BY <1>3, EmitShape
  <2>2. Cardinality(Pending') = Cardinality(Pending) + 1
    BY <1>2, <2>1, FS_AddElement
  <2>. QED
    BY <1>1, <1>2, <1>3, <2>2 DEF Counting, CountExact, Emit
<1>4. ASSUME NEW ids, MarkDelivered(ids) PROVE Counting'
  <2>1. /\ Pending' = Pending \ ids
        /\ Cardinality(ids \cap Pending) \in Nat
        /\ pendingCount' = pendingCount - Cardinality(ids \cap Pending)
    BY <1>4, MarkDeliveredEffect
  <2>2. Cardinality(Pending') = Cardinality(Pending) - Cardinality(Pending \cap ids)
    BY <1>2, <2>1, FS_Difference
  <2>3. Pending \cap ids = ids \cap Pending
    OBVIOUS
  <2>. QED
    BY <1>1, <1>2, <2>1, <2>2, <2>3 DEF Counting, CountExact
<1>5. ASSUME Quiet PROVE Counting'
  BY <1>5 DEF Quiet, Counting, CountExact
<1>. QED
  BY <1>3, <1>4, <1>5, StepKinds, Zenon DEF DropCorrupt, Confirm, Discard

LEMMA CountingAlways == Spec => [](TypeOK /\ Emission /\ Counting)
<1>1. Init => Counting
  <2>. SUFFICES ASSUME Init PROVE Counting
    OBVIOUS
  <2>1. Pending = {}
    BY DEF Init, Pending
  <2>2. Cardinality(Pending) = 0
    BY <2>1, FS_EmptySet
  <2>. QED
    BY <2>2, BoundsAssumption DEF Init, Counting, CountExact
<1>. QED
  BY <1>1, ShapeInit, ShapeStep, CountingStep, PTL DEF Spec

\* The counter of pending events is exact: updated beside the rows by emits,
\* marks and discards in any interleaving, it never drifts.
THEOREM CounterIsExact == Spec => []CountExact
<1>1. Counting => CountExact
  BY DEF Counting
<1>. QED
  BY <1>1, CountingAlways, PTL

-----------------------------------------------------------------------------
(* What Sync reports.                                                      *)

ReportedSet == server \cap (Emitted \ Pending)

LEMMA ReportedStep ==
    ASSUME TypeOK, Emission, AnswersKnown, Reported, [Next]_vars
    PROVE  Reported'
<1>1. TypeOK' /\ Emission'
  BY ShapeStep
<1>2. /\ IsFiniteSet(ReportedSet) /\ Cardinality(ReportedSet) \in Nat
      /\ IsFiniteSet(ReportedSet') /\ Cardinality(ReportedSet') \in Nat
  <2>1. ReportedSet \subseteq Emitted
    BY DEF ReportedSet
  <2>2. ReportedSet' \subseteq Emitted'
    BY DEF ReportedSet
  <2>3. IsFiniteSet(Emitted) /\ IsFiniteSet(Emitted')
    BY <1>1 DEF Emission
  <2>. QED
    BY <2>1, <2>2, <2>3, FS_Subset, FS_CardinalityType
<1>3. synced \in Nat /\ synced <= Cardinality(ReportedSet)
  BY DEF TypeOK, Reported, ReportedSet
<1>4. ASSUME ReportedSet \subseteq ReportedSet', UNCHANGED synced PROVE Reported'
  <2>1. Cardinality(ReportedSet) <= Cardinality(ReportedSet')
    BY <1>2, <1>4, FS_Subset
  <2>. QED
    BY <1>2, <1>3, <1>4, <2>1 DEF Reported, ReportedSet
<1>5. ASSUME NEW e \in Events, Emit(e) PROVE Reported'
  <2>1. Emitted' = Emitted \cup {e} /\ Pending' = Pending \cup {e} /\ e \notin Emitted
    BY <1>5, EmitShape DEF Emit
  <2>2. server' = server /\ UNCHANGED synced
    BY <1>5 DEF Emit, sending
  <2>. QED
    BY <1>4, <2>1, <2>2 DEF ReportedSet
<1>6. ASSUME Quiet PROVE Reported'
  BY <1>4, <1>6 DEF Quiet, ReportedSet, Emitted
<1>7. ASSUME NEW ids, MarkDelivered(ids), UNCHANGED server
      PROVE  ReportedSet' = ReportedSet \cup (server \cap Emitted \cap ids)
  <2>1. Pending' = Pending \ ids /\ Emitted' = Emitted
    BY <1>7, MarkDeliveredEffect DEF Emitted
  <2>. QED
    BY <1>7, <2>1 DEF ReportedSet
<1>8. ASSUME NEW p \in Callers, DropCorrupt(p) \/ Discard(p) PROVE Reported'
  BY <1>4, <1>7, <1>8 DEF DropCorrupt, Discard, sending
<1>9. ASSUME NEW p \in Callers, Confirm(p) PROVE Reported'
  <2>. DEFINE T == call[p].confirmed \cap Pending
  <2>1. ReportedSet' = ReportedSet \cup (server \cap Emitted \cap call[p].confirmed)
    BY <1>7, <1>9 DEF Confirm, sending
  <2>2. T \subseteq ReportedSet' /\ ReportedSet \subseteq ReportedSet' \ T
    BY <2>1 DEF AnswersKnown, Emission, ReportedSet
  <2>3. /\ IsFiniteSet(ReportedSet' \ T)
        /\ Cardinality(ReportedSet' \ T) = Cardinality(ReportedSet') - Cardinality(ReportedSet' \cap T)
    BY <1>2, FS_Difference
  <2>4. ReportedSet' \cap T = T
    BY <2>2
  <2>5. Cardinality(ReportedSet) <= Cardinality(ReportedSet' \ T)
    BY <2>2, <2>3, FS_Subset
  <2>6. Cardinality(T) \in Nat
    <3>1. T \in SUBSET Emitted
      BY DEF Emission
    <3>. QED
      BY <3>1, EmittedPart
  <2>7. Cardinality(ReportedSet) + Cardinality(T) <= Cardinality(ReportedSet')
    <3>. DEFINE old == Cardinality(ReportedSet)
                new == Cardinality(ReportedSet')
                t == Cardinality(T)
                rest == Cardinality(ReportedSet' \ T)
    <3>1. rest = new - t /\ old <= rest
      BY <2>3, <2>4, <2>5
    <3>2. old \in Nat /\ new \in Nat /\ t \in Nat
      BY <1>2, <2>6
    <3>. HIDE DEF old, new, t, rest
    <3>3. old + t <= new
      BY <3>1, <3>2
    <3>. QED
      BY <3>3 DEF old, new, t
  <2>8. synced' = synced + Cardinality(T)
    BY <1>9 DEF Confirm
  <2>. QED
    BY <1>2, <1>3, <2>6, <2>7, <2>8 DEF Reported, ReportedSet
<1>. QED
  BY <1>5, <1>6, <1>8, <1>9, StepKinds

\* The results of all calls of Sync together never exceed what the server has.
THEOREM ReportsAreHonest == Spec => []SyncedHonest
<1>. DEFINE RInv == TypeOK /\ Emission /\ AnswersKnown /\ Reported
<1>1. Init => RInv
  <2>. SUFFICES ASSUME Init PROVE RInv
    OBVIOUS
  <2>1. AnswersKnown
    BY DEF Init, AnswersKnown, NewCall
  <2>2. server \cap (Emitted \ Pending) = {} /\ synced = 0
    BY DEF Init
  <2>. QED
    BY <2>1, <2>2, ShapeInit, FS_EmptySet DEF Reported
<1>2. RInv /\ [Next]_vars => RInv'
  BY ShapeStep, AnswersKnownStep, ReportedStep
<1>3. RInv => SyncedHonest
  <2>. SUFFICES ASSUME RInv PROVE SyncedHonest
    OBVIOUS
  <2>1. IsFiniteSet(server) /\ Cardinality(server) \in Nat
    BY EmittedPart DEF Emission
  <2>2. server \cap (Emitted \ Pending) \subseteq server
    OBVIOUS
  <2>3. /\ Cardinality(server \cap (Emitted \ Pending)) <= Cardinality(server)
        /\ Cardinality(server \cap (Emitted \ Pending)) \in Nat
    BY <2>1, <2>2, FS_Subset, FS_CardinalityType
  <2>4. synced \in Nat
    BY DEF TypeOK
  <2>. DEFINE n == Cardinality(server \cap (Emitted \ Pending))
  <2>5. synced <= n
    BY DEF Reported
  <2>6. n \in Nat /\ n <= Cardinality(server)
    BY <2>3
  <2>. HIDE DEF n
  <2>. QED
    BY <2>1, <2>4, <2>5, <2>6 DEF SyncedHonest
<1>4. QED
  BY <1>1, <1>2, <1>3, PTL DEF Spec

-----------------------------------------------------------------------------
(* EndpointSync implements ReliableSync.                                   *)

LEMMA SentDecodesStep ==
    ASSUME TypeOK, SentDecodes, [Next]_vars
    PROVE  SentDecodes'
<1>. DEFINE Sends(q) == \/ pc[q] \in {"send", "flight"}
                        \/ pc[q] = "purge" /\ call[q].after = "send"
            Decoded(q) == Sends(q)' => call'[q].batch \cap Corrupt = {}
            Same(q) == pc'[q] = pc[q] /\ call'[q] = call[q]
            Away(q) == pc'[q] \in {"idle", "read", "dropCorrupt", "confirm", "discard"}
<1>1. ASSUME NEW q \in Callers, Same(q) PROVE Decoded(q)
  BY <1>1 DEF SentDecodes
<1>2. ASSUME NEW q, Away(q) PROVE Decoded(q)
  BY <1>2
<1>3. ASSUME \A q \in Callers : Decoded(q) PROVE SentDecodes'
  BY <1>3 DEF SentDecodes
<1>4. ASSUME NEW p \in Callers, Return(p)
      PROVE  Away(p) /\ \A q \in Callers \ {p} : Same(q)
  BY <1>4 DEF Return, Goto, SetCall, TypeOK
<1>5. ASSUME NEW p \in Callers, NEW s, Goto(p, s), UNCHANGED call
      PROVE  pc'[p] = s /\ call'[p] = call[p] /\ \A q \in Callers \ {p} : Same(q)
  BY <1>5 DEF Goto, TypeOK
<1>6. ASSUME NEW p \in Callers, NEW s, NEW c, Goto(p, s), SetCall(p, c)
      PROVE  pc'[p] = s /\ call'[p] = c /\ \A q \in Callers \ {p} : Same(q)
  BY <1>6 DEF Goto, SetCall, TypeOK
<1>7. ASSUME NEW p \in Callers, Sync(p) PROVE SentDecodes'
  <2>1. CASE StartSync(p)
    BY <1>1, <1>2, <1>3, <1>5, <2>1 DEF StartSync
  <2>2. CASE ReadPending(p)
    <3>. DEFINE batch == FirstRows(Pending, BatchSize)
                c == [NewCall EXCEPT !.batch = batch]
    <3>1. CASE Return(p)
      BY <1>1, <1>2, <1>3, <1>4, <3>1
    <3>2. CASE SetCall(p, c) /\ Goto(p, IF batch \cap Corrupt = {} THEN "send" ELSE "dropCorrupt")
      <4>1. c.batch = batch
        BY DEF NewCall
      <4>2. /\ pc'[p] = IF batch \cap Corrupt = {} THEN "send" ELSE "dropCorrupt"
            /\ call'[p] = c /\ \A q \in Callers \ {p} : Same(q)
        BY <1>6, <3>2
      <4>. HIDE DEF batch, c
      <4>3. Decoded(p)
        BY <4>1, <4>2
      <4>. QED
        BY <1>1, <1>3, <4>2, <4>3
    <3>. QED
      BY <2>2, <3>1, <3>2 DEF ReadPending
  <2>3. CASE DropCorrupt(p)
    <3>. DEFINE valid == call[p].batch \ Corrupt
                c == [call[p] EXCEPT !.batch = valid,
                                     !.after = IF valid = {} THEN "read" ELSE "send"]
    <3>1. c.batch = valid
      BY DEF TypeOK, Call
    <3>2. call'[p] = c /\ \A q \in Callers \ {p} : Same(q)
      BY <1>6, <2>3 DEF DropCorrupt
    <3>3. Decoded(p)
      BY <3>1, <3>2
    <3>. QED
      BY <1>1, <1>3, <3>2, <3>3
  <2>4. CASE Purge(p)
    <3>1. pc[p] = "purge" /\ pc'[p] = call[p].after /\ call'[p] = call[p]
          /\ \A q \in Callers \ {p} : Same(q)
      BY <1>5, <2>4 DEF Purge
    <3>2. call[p].after \in {"read", "send", "discard"}
      BY DEF TypeOK, Call
    <3>3. Decoded(p)
      BY <3>1, <3>2 DEF SentDecodes
    <3>. QED
      BY <1>1, <1>3, <3>1, <3>3
  <2>5. CASE SendRejected(p)
    BY <1>1, <1>2, <1>3, <1>4, <2>5 DEF SendRejected
  <2>6. CASE SendBegins(p)
    <3>1. pc[p] = "send" /\ call'[p] = call[p] /\ \A q \in Callers \ {p} : Same(q)
      BY <1>5, <2>6 DEF SendBegins
    <3>2. Decoded(p)
      BY <3>1 DEF SentDecodes
    <3>. QED
      BY <1>1, <1>3, <3>1, <3>2
  <2>7. CASE Answer(p)
    <3>1. PICK confirmed, dropped : Answered(p, confirmed, dropped)
      BY <2>7 DEF Answer
    <3>2. Away(p) /\ \A q \in Callers \ {p} : Same(q)
      BY <1>4, <1>6, <3>1 DEF Answered
    <3>. QED
      BY <1>1, <1>2, <1>3, <3>2
  <2>8. CASE Confirm(p) \/ Discard(p)
    <3>1. PICK after \in {"read", "discard"} :
            Goto(p, "purge") /\ SetCall(p, [call[p] EXCEPT !.after = after])
      BY <2>8 DEF Confirm, Discard
    <3>. DEFINE c == [call[p] EXCEPT !.after = after]
    <3>2. c.after = after
      BY DEF TypeOK, Call
    <3>3. /\ pc'[p] = "purge" /\ call'[p] = c
          /\ \A q \in Callers \ {p} : Same(q)
      BY <1>6, <3>1
    <3>4. Decoded(p)
      BY <3>2, <3>3
    <3>. QED
      BY <1>1, <1>3, <3>3, <3>4
  <2>. QED
    BY <1>7, <2>1, <2>2, <2>3, <2>4, <2>5, <2>6, <2>7, <2>8 DEF Sync
<1>8. ASSUME NEW p \in Callers, StatementFails(p) \/ SendFails(p) PROVE SentDecodes'
  BY <1>1, <1>2, <1>3, <1>4, <1>8 DEF StatementFails, SendFails
<1>9. ASSUME NEW p \in Callers, PurgeFails(p) PROVE SentDecodes'
  <2>1. pc[p] = "purge" /\ pc'[p] = call[p].after /\ call'[p] = call[p]
        /\ \A q \in Callers \ {p} : Same(q)
    BY <1>5, <1>9 DEF PurgeFails
  <2>2. call[p].after \in {"read", "send", "discard"}
    BY DEF TypeOK, Call
  <2>3. Decoded(p)
    BY <2>1, <2>2 DEF SentDecodes
  <2>. QED
    BY <1>1, <1>3, <2>1, <2>3
<1>10. ASSUME NEW c \in Clients, Crash(c) PROVE SentDecodes'
  <2>1. \A q \in Callers : Same(q) \/ Away(q)
    BY <1>10 DEF Crash, TypeOK
  <2>. QED
    BY <1>1, <1>2, <1>3, <2>1
<1>11. CASE UNCHANGED <<pc, call>>
  BY <1>1, <1>3, <1>11
<1>. QED
  BY <1>7, <1>8, <1>9, <1>10, <1>11 DEF Next, Emit, BreakerTimeout, vars

\* The batch of another caller may have gone stale; what the server takes of it that it
\* did not have is pending all the same.
LEMMA ServerGains ==
    ASSUME TypeOK, Emission, NothingLost, SentDecodes, [Next]_vars
    PROVE  \E S \in SUBSET (Pending \ (Corrupt \cup Invalid)) : server' = server \cup S
<1>. DEFINE Gained == \E S \in SUBSET (Pending \ (Corrupt \cup Invalid)) :
                        server' = server \cup S
<1>1. ASSUME NEW p \in Callers, pc[p] = "flight",
             NEW A \in SUBSET (call[p].batch \ Invalid), server' = server \cup A
      PROVE  Gained
  <2>1. A \cap Corrupt = {} /\ A \cap Invalid = {} /\ A \subseteq Emitted
    BY <1>1 DEF SentDecodes, Emission
  <2>2. A \ server \subseteq Pending \ (Corrupt \cup Invalid)
    BY <2>1 DEF NothingLost
  <2>3. server' = server \cup (A \ server)
    BY <1>1
  <2>. QED
    BY <2>2, <2>3
<1>2. ASSUME UNCHANGED server PROVE Gained
  <2>1. {} \in SUBSET (Pending \ (Corrupt \cup Invalid)) /\ server' = server \cup {}
    BY <1>2
  <2>. QED
    BY <2>1
<1>3. ASSUME NEW p \in Callers, Answer(p) PROVE Gained
  BY <1>1, <1>3 DEF Answer
<1>4. ASSUME NEW p \in Callers, SendFails(p) PROVE Gained
  BY <1>1, <1>4 DEF SendFails
<1>5. ASSUME NEW p \in Callers,
             \/ StartSync(p) \/ ReadPending(p) \/ DropCorrupt(p) \/ Purge(p)
             \/ SendRejected(p) \/ SendBegins(p) \/ Confirm(p) \/ Discard(p)
             \/ StatementFails(p) \/ PurgeFails(p)
      PROVE  UNCHANGED server
  BY <1>5 DEF StartSync, ReadPending, DropCorrupt, Purge, SendRejected, SendBegins, Confirm,
              Discard, StatementFails, PurgeFails, sending
<1>. QED
  BY <1>2, <1>3, <1>4, <1>5 DEF Next, Sync, Emit, BreakerTimeout, Crash, sending, vars

LEMMA CardinalitySame == ASSUME NEW S PROVE Promise!Cardinality(S) = Cardinality(S)
BY DEF Promise!Cardinality, Cardinality

PromiseInv ==
    /\ TypeOK /\ Emission /\ Counting /\ AnswersKnown /\ NothingLost /\ SentDecodes

LEMMA PromiseStep == PromiseInv /\ [Next]_vars => [Promise!Next]_(Promise!vars)
<1>. SUFFICES ASSUME PromiseInv, [Next]_vars PROVE [Promise!Next]_(Promise!vars)
  OBVIOUS
<1>. USE DEF PromiseInv
<1>1. CASE \E e \in Events : Emit(e)
  <2>1. PICK e \in Events : Emit(e)
    BY <1>1
  <2>2. Cardinality(Pending) < MaxPending
    BY <2>1 DEF Emit, Counting, CountExact
  <2>3. Promise!Emit(e)
    BY <2>1, <2>2, EmitShape, CardinalitySame DEF Emit, Promise!Emit, sending
  <2>. QED
    BY <2>3 DEF Promise!Next
<1>2. ASSUME NEW ids \in SUBSET (server \cup Corrupt \cup Invalid), MarkDelivered(ids),
             UNCHANGED server
      PROVE  /\ ids \cap Pending \in SUBSET Pending
             /\ Pending' = Pending \ (ids \cap Pending)
             /\ UNCHANGED Emitted
             /\ ids \cap Pending \subseteq server \cup Corrupt \cup Invalid
  <2>1. Pending' = Pending \ ids /\ UNCHANGED rowId
    BY <1>2, MarkDeliveredEffect
  <2>2. Pending' = Pending \ (ids \cap Pending)
    BY <2>1
  <2>3. UNCHANGED Emitted
    BY <2>1 DEF Emitted
  <2>. QED
    BY <1>2, <2>2, <2>3
<1>3. ASSUME NEW p \in Callers, DropCorrupt(p) \/ Discard(p) PROVE Promise!Next
  <2>1. PICK ids \in SUBSET (server \cup Corrupt \cup Invalid) :
          MarkDelivered(ids) /\ UNCHANGED <<server, synced>>
    BY <1>3 DEF DropCorrupt, Discard, AnswersKnown, sending
  <2>2. Promise!Drop(ids \cap Pending)
    BY <1>2, <2>1 DEF Promise!Drop
  <2>. QED
    BY <1>2, <2>1, <2>2 DEF Promise!Next
<1>4. ASSUME NEW p \in Callers, Confirm(p) PROVE Promise!Next
  <2>. DEFINE ids == call[p].confirmed
  <2>1. ids \subseteq server /\ MarkDelivered(ids) /\ UNCHANGED server
        /\ synced' = synced + Cardinality(ids \cap Pending)
    BY <1>4 DEF Confirm, AnswersKnown, sending
  <2>2. Promise!Report(ids \cap Pending)
    BY <1>2, <2>1, CardinalitySame DEF Promise!Report
  <2>. QED
    BY <1>2, <2>1, <2>2 DEF Promise!Next
<1>5. CASE Quiet
  <2>1. UNCHANGED <<Emitted, Pending, synced>>
    BY <1>5 DEF Quiet, Emitted
  <2>2. PICK S \in SUBSET (Pending \ (Corrupt \cup Invalid)) : server' = server \cup S
    BY ServerGains
  <2>3. Promise!Accept(S)
    BY <2>1, <2>2 DEF Promise!Accept
  <2>. QED
    BY <2>2, <2>3 DEF Promise!Next
<1>. QED
  BY <1>1, <1>3, <1>4, <1>5, StepKinds

\* EndpointSync implements ReliableSync, for any number of clients and callers on the
\* log: a limit that is never passed, a server that gains pending events only, and
\* events that leave the log delivered or hopeless and reported once at most.
THEOREM SyncsAsPromised == Spec => SyncAsPromised
<1>1. Init => PromiseInv /\ Promise!Init
  <2>. SUFFICES ASSUME Init PROVE PromiseInv /\ Promise!Init
    OBVIOUS
  <2>1. Emitted = {} /\ Pending = {} /\ server = {} /\ synced = 0
    BY DEF Init, Emitted, Pending
  <2>2. AnswersKnown /\ SentDecodes /\ NothingLost
    BY <2>1 DEF Init, AnswersKnown, SentDecodes, NothingLost, NewCall
  <2>3. Counting
    BY <2>1, FS_EmptySet, BoundsAssumption DEF Init, Counting, CountExact
  <2>. QED
    BY <2>1, <2>2, <2>3, ShapeInit DEF PromiseInv, Promise!Init
<1>2. PromiseInv /\ [Next]_vars => PromiseInv'
  BY ShapeStep, CountingStep, AnswersKnownStep, NothingLostStep, SentDecodesStep DEF PromiseInv
<1>. QED
  BY <1>1, <1>2, PromiseStep, PTL DEF Spec, SyncAsPromised, Promise!Spec
=============================================================================
