---------------------------- MODULE OutboxProofs ----------------------------
(* Theorems about Outbox, for all replicas, events, destinations, limits and *)
(* fault budgets.                                                            *)
EXTENDS Outbox, WellFoundedInduction, FiniteSetTheorems, TLAPS

-----------------------------------------------------------------------------
(* The row the window loop is at.                                          *)

\* A non-empty set of naturals has a least element.
LEMMA LeastElement ==
    ASSUME NEW S, S \subseteq Nat, S # {}
    PROVE  \E x \in S : \A y \in S : x <= y
<1>1. PICK x \in S : \A y \in S : <<y, x>> \notin OpToRel(<, Nat)
  BY WFMin, NatLessThanWellFounded, Zenon
<1>2. \A y \in S : ~(y < x)
  BY <1>1, Zenon DEF OpToRel
<1>. QED
  BY <1>2

\* Of a window that has rows, Del(r) is one with the smallest outbox_id.
LEMMA DelInWindow ==
    ASSUME TypeOK, NEW r \in Replicas, pass[r].window # {}
    PROVE  /\ Del(r) \in pass[r].window
           /\ \A v \in pass[r].window : outboxId[Del(r).event] <= outboxId[v.event]
<1>1. pass[r].window \subseteq WindowRow
  BY DEF TypeOK, Pass
<1>2. \A w \in pass[r].window : outboxId[w.event] \in Nat
  BY <1>1 DEF TypeOK, WindowRow
<1>. DEFINE S == {outboxId[w.event] : w \in pass[r].window}
<1>3. PICK x \in S : \A y \in S : x <= y
  <2>1. S \subseteq Nat /\ S # {}
    BY <1>2
  <2>. QED
    BY <2>1, LeastElement
<1>4. PICK w \in pass[r].window : x = outboxId[w.event]
  BY <1>3
<1>5. \A v \in pass[r].window : outboxId[w.event] <= outboxId[v.event]
  BY <1>3, <1>4
<1>. QED
  BY <1>5 DEF Del

\* The typing facts the steps of a pass use.
LEMMA PassTypes ==
    ASSUME TypeOK, NEW r \in Replicas
    PROVE  /\ pass[r] \in Pass
           /\ Dest(r) \in Dests
           /\ pass[r].window \subseteq WindowRow
           /\ pass[r].window # {} => /\ Del(r) \in pass[r].window
                                     /\ Del(r).event \in Events
                                     /\ Del(r).row \in Row
<1>1. pass[r] \in Pass
  BY DEF TypeOK
<1>2. Dest(r) \in Dests
  BY <1>1 DEF Dest, Dests, Pass
<1>3. pass[r].window \subseteq WindowRow
  BY <1>1 DEF Pass
<1>. QED
  BY <1>1, <1>2, <1>3, DelInWindow DEF WindowRow

LEMMA NewPassType ==
    ASSUME NEW i \in 1..Len(DestOrder)
    PROVE  NewPass(i) \in Pass /\ NewPass(i).window = {} /\ NewPass(i).expired = {}
BY LimitsAssumption DEF NewPass, Pass

LEMMA FirstPassType ==
    NewPass(1) \in Pass /\ NewPass(1).window = {} /\ NewPass(1).expired = {}
<1>1. 1 \in 1..Len(DestOrder)
  BY DestsAssumption
<1>. QED
  BY <1>1, NewPassType

LEMMA SetPassType ==
    ASSUME TypeOK, NEW r \in Replicas, NEW p \in Pass, SetPass(r, p)
    PROVE  pass' \in [Replicas -> Pass]
BY DEF TypeOK, SetPass

LEMMA RowTypes == NoRow \in Row /\ NewRow \in Row
BY LimitsAssumption DEF NoRow, NewRow, Row

-----------------------------------------------------------------------------
(* Type correctness, with the fact that a row is being handled only while  *)
(* the window has one.                                                     *)

TypeInv == TypeOK /\ HandlesARow

LEMMA TypeInit == Init => TypeInv
<1>. SUFFICES ASSUME Init PROVE TypeInv
  OBVIOUS
<1>1. pass \in [Replicas -> Pass]
  BY FirstPassType DEF Init
<1>2. delivery \in [Events -> [Dests -> Row]]
  BY RowTypes DEF Init
<1>. QED
  BY <1>1, <1>2, LimitsAssumption DEF Init, TypeInv, TypeOK, HandlesARow, HandlingRow, Statements

\* A pass moves to a statement that handles no row.
LEMMA GotoTypes ==
    ASSUME TypeInv, NEW r \in Replicas, NEW s \in {"query", "select", "ping"},
           NEW p \in Pass, Goto(r, s), SetPass(r, p)
    PROVE  /\ pc' \in [Replicas -> Statements \cup {"down", "standby"}]
           /\ HandlesARow'
<1>1. pc \in [Replicas -> Statements \cup {"down", "standby"}] /\ s \in Statements
  BY DEF TypeInv, TypeOK, Statements
<1>2. pc'[r] = s /\ \A q \in Replicas \ {r} : pc'[q] = pc[q] /\ pass'[q] = pass[q]
  BY <1>1 DEF Goto, SetPass, TypeInv, TypeOK
<1>3. s \notin HandlingRow
  BY DEF HandlingRow
<1>4. HandlesARow'
  BY <1>2, <1>3 DEF HandlesARow, TypeInv
<1>. QED
  BY <1>1, <1>4 DEF Goto

LEMMA EndDestTypes ==
    ASSUME TypeInv, NEW r \in Replicas, EndDest(r)
    PROVE  /\ pass' \in [Replicas -> Pass]
           /\ pc' \in [Replicas -> Statements \cup {"down", "standby"}]
           /\ HandlesARow'
<1>. USE DEF TypeInv
<1>1. CASE pass[r].dest < Len(DestOrder)
  <2>1. NewPass(pass[r].dest + 1) \in Pass
    <3>1. pass[r].dest + 1 \in 1..Len(DestOrder)
      BY <1>1, PassTypes, DestsAssumption DEF Pass
    <3>. QED
      BY <3>1, NewPassType
  <2>2. Goto(r, "query") /\ SetPass(r, NewPass(pass[r].dest + 1))
    BY <1>1 DEF EndDest
  <2>. QED
    BY <2>1, <2>2, GotoTypes, SetPassType
<1>2. CASE ~(pass[r].dest < Len(DestOrder))
  <2>1. Goto(r, "select") /\ SetPass(r, NewPass(1))
    BY <1>2 DEF EndDest
  <2>. QED
    BY <2>1, FirstPassType, GotoTypes, SetPassType
<1>. QED
  BY <1>1, <1>2

LEMMA TypeStep == TypeInv /\ [Next]_vars => TypeInv'
<1>. SUFFICES ASSUME TypeInv, [Next]_vars PROVE TypeInv'
  OBVIOUS
<1>. USE DEF TypeInv
<1>1. ASSUME NEW e \in Events, Insert(e) PROVE TypeInv'
  BY <1>1 DEF Insert, TypeOK, HandlesARow, tables
<1>2. ASSUME NEW e \in Events, Commit(e) PROVE TypeInv'
  BY <1>2, RowTypes DEF Commit, TypeOK, HandlesARow
<1>3. ASSUME NEW e \in Events, Rollback(e) PROVE TypeInv'
  BY <1>3 DEF Rollback, TypeOK, HandlesARow, tables
<1>4. ASSUME NEW r \in Replicas, TryLock(r) PROVE TypeInv'
  BY <1>4, FirstPassType
     DEF TryLock, Goto, SetPass, TypeOK, HandlesARow, HandlingRow, Statements, producers, tables
<1>5. ASSUME NEW r \in Replicas, Ping(r) PROVE TypeInv'
  BY <1>5, FirstPassType
     DEF Ping, Goto, SetPass, TypeOK, HandlesARow, HandlingRow, Statements, producers, tables
<1>6. ASSUME NEW r \in Replicas, Query(r) PROVE TypeInv'
  <2>. DEFINE win == FirstRows(Pending(r), BatchSize)
              rows == {[event |-> e, row |-> delivery[e][Dest(r)]] : e \in win}
  <2>1. CASE win = {}
    BY <1>6, <2>1, EndDestTypes DEF Query, TypeOK, HandlesARow, producers, tables
  <2>2. CASE win # {}
    <3>1. rows \in SUBSET WindowRow
      <4>1. win \subseteq Events
        BY DEF FirstRows, Pending
      <4>. QED
        BY <4>1, PassTypes DEF TypeOK, WindowRow
    <3>2. [pass[r] EXCEPT !.window = rows, !.full = (Cardinality(win) = BatchSize)] \in Pass
      <4>. HIDE DEF rows, win
      <4>. QED
        BY <3>1, PassTypes DEF Pass
    <3>3. /\ SetPass(r, [pass[r] EXCEPT !.window = rows, !.full = (Cardinality(win) = BatchSize)])
          /\ Goto(r, "load")
      BY <1>6, <2>2 DEF Query
    <3>. HIDE DEF rows, win
    <3>4. pass' \in [Replicas -> Pass]
      BY <3>2, <3>3, SetPassType
    <3>5. HandlesARow'
      BY <3>3 DEF TypeOK, HandlesARow, HandlingRow, SetPass, Goto
    <3>. QED
      BY <1>6, <3>3, <3>4, <3>5 DEF Query, Goto, TypeOK, Statements, producers, tables
  <2>. QED
    BY <2>1, <2>2
<1>7. ASSUME NEW r \in Replicas, LoadRecords(r) PROVE TypeInv'
  <2>. DEFINE ids == {w.event : w \in {v \in pass[r].window : record[v.event] # "absent"}}
  <2>1. ids \in SUBSET Events
    BY PassTypes DEF WindowRow
  <2>2. SetPass(r, [pass[r] EXCEPT !.loaded = ids]) /\ Goto(r, "row")
    BY <1>7 DEF LoadRecords
  <2>. HIDE DEF ids
  <2>3. [pass[r] EXCEPT !.loaded = ids] \in Pass
    BY <2>1, PassTypes DEF Pass
  <2>4. pass' \in [Replicas -> Pass]
    BY <2>2, <2>3, SetPassType
  <2>5. HandlesARow'
    BY <2>2 DEF TypeOK, HandlesARow, HandlingRow, Goto, SetPass
  <2>. QED
    BY <1>7, <2>2, <2>4, <2>5 DEF LoadRecords, Goto, TypeOK, Statements, producers, tables
<1>8. ASSUME NEW r \in Replicas, EndWindow(r) PROVE TypeInv'
  <2>1. UNCHANGED <<producers, tables, received, lock, faults>>
    BY <1>8 DEF EndWindow
  <2>2. /\ pass' \in [Replicas -> Pass]
        /\ pc' \in [Replicas -> Statements \cup {"down", "standby"}]
        /\ HandlesARow'
    <3>1. CASE EndDest(r)
      BY <3>1, EndDestTypes
    <3>2. CASE Goto(r, "query") /\ UNCHANGED pass
      BY <3>2 DEF Goto, TypeOK, HandlesARow, HandlingRow, Statements
    <3>. QED
      BY <1>8, <3>1, <3>2 DEF EndWindow
  <2>. QED
    BY <2>1, <2>2 DEF TypeOK, producers, tables
<1>9. ASSUME NEW r \in Replicas, SkipHeld(r) PROVE TypeInv'
  <2>1. outboxId[Del(r).event] \in Nat /\ Rest(r) \in SUBSET WindowRow
    BY <1>9, PassTypes DEF SkipHeld, AtRow, Rest, TypeOK
  <2>2. [pass[r] EXCEPT !.cursor = outboxId[Del(r).event], !.window = Rest(r)] \in Pass
    BY <2>1, PassTypes DEF Pass
  <2>3. pass' \in [Replicas -> Pass]
    BY <1>9, <2>2, SetPassType DEF SkipHeld
  <2>4. HandlesARow'
    BY <1>9 DEF SkipHeld, AtRow, SetPass, TypeOK, HandlesARow, HandlingRow
  <2>. QED
    BY <1>9, <2>3, <2>4 DEF SkipHeld, TypeOK, producers, tables
<1>10. ASSUME NEW r \in Replicas, MissingRecord(r) PROVE TypeInv'
  BY <1>10, FirstPassType
     DEF MissingRecord, Goto, SetPass, TypeOK, HandlesARow, HandlingRow, Statements, producers, tables
<1>11. ASSUME NEW r \in Replicas, Attempt(r) PROVE TypeInv'
  <2>1. outboxId[Del(r).event] \in Nat /\ pass[r].attempts + 1 \in 0..BatchSize
    <3>1. pass[r].window # {} /\ pass[r].attempts < BatchSize
      BY <1>11 DEF Attempt, AtRow
    <3>2. Del(r).event \in Events /\ pass[r].attempts \in 0..BatchSize
      BY <3>1, PassTypes DEF Pass
    <3>. QED
      BY <3>1, <3>2, LimitsAssumption DEF TypeOK
  <2>2. [pass[r] EXCEPT !.cursor = outboxId[Del(r).event], !.attempts = @ + 1] \in Pass
    BY <2>1, PassTypes DEF Pass
  <2>3. pass' \in [Replicas -> Pass]
    BY <1>11, <2>2, SetPassType DEF Attempt
  <2>4. HandlesARow'
    BY <1>11 DEF Attempt, AtRow, SetPass, Goto, TypeOK, HandlesARow
  <2>. QED
    BY <1>11, <2>3, <2>4 DEF Attempt, Goto, TypeOK, Statements, producers, tables
<1>12. ASSUME NEW r \in Replicas, PublishAcked(r) PROVE TypeInv'
  <2>1. Del(r).event \in Events /\ Dest(r) \in Dests
    BY <1>12, PassTypes DEF PublishAcked, HandlesARow, HandlingRow
  <2>2. received' \in [Dests -> SUBSET Events]
    BY <1>12, <2>1 DEF PublishAcked, Receive, TypeOK
  <2>. QED
    BY <1>12, <2>2
       DEF PublishAcked, Goto, TypeOK, HandlesARow, HandlingRow, Statements, producers, tables
<1>13. ASSUME NEW r \in Replicas, PublishFailed(r) PROVE TypeInv'
  <2>1. Del(r).event \in Events /\ Dest(r) \in Dests
    BY <1>13, PassTypes DEF PublishFailed, HandlesARow, HandlingRow
  <2>2. received' \in [Dests -> SUBSET Events]
    BY <1>13, <2>1 DEF PublishFailed, Receive, TypeOK
  <2>. QED
    BY <1>13, <2>2
       DEF PublishFailed, Goto, TypeOK, HandlesARow, HandlingRow, Statements, producers, tables
<1>14. ASSUME NEW r \in Replicas, SaveAck(r) PROVE TypeInv'
  <2>1. [Del(r).row EXCEPT !.status = "published", !.stuck = FALSE] \in Row
    BY <1>14, PassTypes DEF SaveAck, HandlesARow, HandlingRow, Row
  <2>. QED
    BY <1>14, <2>1, PassTypes
       DEF SaveAck, Save, Goto, TypeOK, HandlesARow, HandlingRow, Statements, producers
<1>15. ASSUME NEW r \in Replicas, SaveFailure(r) PROVE TypeInv'
  <2>. DEFINE w == Del(r)
              n == IF w.row.attempts < MaxAttempts THEN w.row.attempts + 1 ELSE MaxAttempts
              row == [w.row EXCEPT !.attempts = n,
                                   !.stuck = @ \/ n >= MaxAttempts \/ w.event \in Unroutable]
  <2>1. w.row \in Row
    BY <1>15, PassTypes DEF SaveFailure, HandlesARow, HandlingRow
  <2>2. n \in 0..MaxAttempts
    BY <2>1, LimitsAssumption DEF Row
  <2>3. row \in Row
    BY <2>1, <2>2 DEF Row
  <2>4. Block(pass[r].blocked, w.event) \in SUBSET Subjects /\ Rest(r) \in SUBSET WindowRow
    BY PassTypes DEF Block, Rest, Pass
  <2>5. /\ delivery' = [delivery EXCEPT ![w.event][Dest(r)] = row]
        /\ SetPass(r, [pass[r] EXCEPT !.blocked = Block(@, w.event), !.window = Rest(r)])
        /\ Goto(r, "row")
    BY <1>15 DEF SaveFailure, Save
  <2>. HIDE DEF w, n, row
  <2>6. delivery' \in [Events -> [Dests -> Row]]
    BY <2>3, <2>5 DEF TypeOK
  <2>7. [pass[r] EXCEPT !.blocked = Block(@, w.event), !.window = Rest(r)] \in Pass
    BY <2>4, PassTypes DEF Pass
  <2>8. pass' \in [Replicas -> Pass]
    BY <2>5, <2>7, SetPassType
  <2>9. HandlesARow'
    BY <2>5 DEF TypeOK, HandlesARow, HandlingRow, Goto, SetPass
  <2>. QED
    BY <1>15, <2>5, <2>6, <2>8, <2>9 DEF SaveFailure, Goto, TypeOK, Statements, producers
<1>16. ASSUME NEW r \in Replicas, CountOutstanding(r) PROVE TypeInv'
  <2>1. [pass[r] EXCEPT !.window = Rest(r)] \in Pass
    BY PassTypes DEF Pass, Rest
  <2>2. pass' \in [Replicas -> Pass]
    BY <1>16, <2>1, SetPassType DEF CountOutstanding, TypeOK
  <2>3. HandlesARow'
    BY <1>16 DEF CountOutstanding, Goto, SetPass, TypeOK, HandlesARow, HandlingRow
  <2>. QED
    BY <1>16, <2>2, <2>3 DEF CountOutstanding, Goto, TypeOK, Statements, producers, tables
<1>17. ASSUME NEW r \in Replicas, MarkDelivered(r) PROVE TypeInv'
  <2>1. [pass[r] EXCEPT !.window = Rest(r)] \in Pass
    BY PassTypes DEF Pass, Rest
  <2>2. pass' \in [Replicas -> Pass]
    BY <1>17, <2>1, SetPassType DEF MarkDelivered, TypeOK
  <2>3. HandlesARow'
    BY <1>17 DEF MarkDelivered, Goto, SetPass, TypeOK, HandlesARow, HandlingRow
  <2>. QED
    BY <1>17, <2>2, <2>3 DEF MarkDelivered, Goto, TypeOK, Statements, producers
<1>18. ASSUME NEW r \in Replicas, DrainTick(r) PROVE TypeInv'
  BY <1>18 DEF DrainTick, Goto, TypeOK, HandlesARow, HandlingRow, Statements, producers, tables
<1>19. ASSUME NEW r \in Replicas, SelectExpired(r) PROVE TypeInv'
  <2>1. PICK ids \in SUBSET MayBeExpired : SetPass(r, [pass[r] EXCEPT !.expired = ids])
    BY <1>19 DEF SelectExpired
  <2>2. [pass[r] EXCEPT !.expired = ids] \in Pass
    BY PassTypes DEF MayBeExpired, Pass
  <2>3. pass' \in [Replicas -> Pass]
    BY <2>1, <2>2, SetPassType
  <2>4. HandlesARow'
    BY <1>19, <2>1 DEF SelectExpired, Goto, SetPass, TypeOK, HandlesARow, HandlingRow
  <2>. QED
    BY <1>19, <2>3, <2>4 DEF SelectExpired, Goto, TypeOK, Statements, producers, tables
<1>20. ASSUME NEW r \in Replicas, Purge(r) PROVE TypeInv'
  BY <1>20, FirstPassType, RowTypes
     DEF Purge, Goto, SetPass, TypeOK, HandlesARow, HandlingRow, Statements, producers
<1>21. ASSUME NEW r \in Replicas, StatementFails(r) PROVE TypeInv'
  BY <1>21, FirstPassType, LimitsAssumption
     DEF StatementFails, Goto, SetPass, Fault, TypeOK, HandlesARow, HandlingRow, Statements, producers, tables
<1>22. ASSUME NEW r \in Replicas, PurgeFails(r) PROVE TypeInv'
  BY <1>22, FirstPassType, LimitsAssumption
     DEF PurgeFails, Goto, SetPass, Fault, TypeOK, HandlesARow, HandlingRow, Statements, producers, tables
<1>23. ASSUME NEW r \in Replicas, Crash(r) PROVE TypeInv'
  BY <1>23, FirstPassType, LimitsAssumption
     DEF Crash, Goto, SetPass, Fault, TypeOK, HandlesARow, HandlingRow, Statements, producers, tables
<1>24. ASSUME NEW r \in Replicas, Restart(r) PROVE TypeInv'
  BY <1>24 DEF Restart, Goto, SetPass, TypeOK, HandlesARow, HandlingRow, Statements, producers, tables
<1>25. CASE LoseSession
  BY <1>25, LimitsAssumption DEF LoseSession, Fault, TypeOK, HandlesARow, producers, tables
<1>26. CASE UNCHANGED vars
  BY <1>26 DEF vars, TypeOK, HandlesARow
<1>. QED
  BY <1>1, <1>2, <1>3, <1>4, <1>5, <1>6, <1>7, <1>8, <1>9, <1>10, <1>11, <1>12, <1>13,
     <1>14, <1>15, <1>16, <1>17, <1>18, <1>19, <1>20, <1>21, <1>22, <1>23, <1>24, <1>25, <1>26
     DEF Next, Step

LEMMA TypeInvariant == Spec => []TypeInv
BY TypeInit, TypeStep, PTL DEF Spec

\* Every variable keeps its type, whatever the numbers of replicas, events,
\* destinations and faults.
THEOREM TypeCorrect == Spec => []TypeOK
<1>1. TypeInv => TypeOK
  BY DEF TypeInv
<1>. QED
  BY <1>1, TypeInvariant, PTL

-----------------------------------------------------------------------------
(* At-least-once delivery.                                                 *)

\* What every step does to the tables' history: ids of committed events and
\* commits are final, and a destination forgets nothing.
Onward ==
    /\ \A e \in Events : tx[e] = "committed" =>
           tx'[e] = "committed" /\ outboxId'[e] = outboxId[e]
    /\ \A d \in Dests : received[d] \subseteq received'[d]

\* A step of another process leaves a replica's pass invariant alone.
LEMMA PassInvKept ==
    ASSUME TypeInv, NEW r \in Replicas, PassInv(r), Onward,
           pass'[r] = pass[r], pc'[r] = pc[r]
    PROVE  PassInv(r)'
<1>. USE DEF TypeInv
<1>1. pass[r].window \subseteq WindowRow /\ pass[r].expired \subseteq Events /\ Dest(r) \in Dests
  BY PassTypes DEF Pass
<1>2. \A w \in pass[r].window : outboxId'[w.event] = outboxId[w.event]
  BY <1>1 DEF PassInv, Onward, WindowRow
<1>3. Del(r)' = Del(r)
  BY <1>2 DEF Del
<1>4. Dest(r)' = Dest(r)
  BY DEF Dest
<1>5. \A e \in Events : ReceivedEverywhere(e) => ReceivedEverywhere(e)'
  BY EventsAssumption DEF ReceivedEverywhere, Onward
<1>6. pc[r] \in HandlingRow => Del(r).event \in Events
  BY PassTypes DEF HandlesARow
<1>7. \A w \in pass'[r].window : /\ tx'[w.event] = "committed"
                                 /\ Dest(r)' \in Accepts[w.event]
                                 /\ w.row.status = "pending"
  BY <1>1, <1>4 DEF PassInv, Onward, WindowRow
<1>8. (pc[r] \in {"saveAck", "count"} => Del(r).event \in received[Dest(r)])'
  BY <1>1, <1>3, <1>4 DEF PassInv, Onward
<1>9. (pc[r] = "mark" => ReceivedEverywhere(Del(r).event))'
  <2>1. ReceivedEverywhere(Del(r).event)' <=>
            \A d \in Accepts[Del(r).event] : Del(r).event \in received'[d]
    BY <1>3 DEF ReceivedEverywhere
  <2>2. pc[r] = "mark" => ReceivedEverywhere(Del(r).event) /\ Del(r).event \in Events
    BY <1>6 DEF PassInv, HandlingRow
  <2>. QED
    BY <2>1, <2>2, EventsAssumption DEF ReceivedEverywhere, Onward
<1>10. \A e \in pass'[r].expired : ReceivedEverywhere(e)'
  BY <1>1, <1>5 DEF PassInv
<1>. QED
  BY <1>7, <1>8, <1>9, <1>10 DEF PassInv

\* So does a step of the replica itself that reads no new rows and is not
\* about to mark one.
LEMMA PassInvShrinks ==
    ASSUME TypeInv, NEW r \in Replicas, PassInv(r), Onward,
           pass'[r].window \subseteq pass[r].window,
           pass'[r].window # {} => pass'[r].dest = pass[r].dest,
           pass'[r].expired \subseteq pass[r].expired,
           pc'[r] \notin {"saveAck", "count", "mark"}
    PROVE  PassInv(r)'
<1>. USE DEF TypeInv
<1>1. pass[r].window \subseteq WindowRow /\ pass[r].expired \subseteq Events
  BY PassTypes DEF Pass
<1>2. \A e \in Events : ReceivedEverywhere(e) => ReceivedEverywhere(e)'
  BY EventsAssumption DEF ReceivedEverywhere, Onward
<1>3. \A w \in pass'[r].window : /\ tx'[w.event] = "committed"
                                 /\ Dest(r)' \in Accepts[w.event]
                                 /\ w.row.status = "pending"
  BY <1>1 DEF PassInv, Onward, WindowRow, Dest
<1>4. \A e \in pass'[r].expired : ReceivedEverywhere(e)'
  BY <1>1, <1>2 DEF PassInv
<1>. QED
  BY <1>3, <1>4 DEF PassInv

\* The part of the invariant that speaks of the database and destinations.
TablesInv == AtLeastOnce /\ MarkedMeansReceived /\ OnlyCommitted /\ RowsOfCommitted

\* A step of replica r keeps the invariant when it keeps the tables' part and
\* its own pass's part.
LEMMA OwnStep ==
    ASSUME TypeInv, DeliveryInv, Onward, NEW r \in Replicas,
           \A q \in Replicas \ {r} : pass'[q] = pass[q] /\ pc'[q] = pc[q],
           TablesInv', PassInv(r)'
    PROVE  DeliveryInv'
<1>1. \A q \in Replicas : q # r => PassInv(q)'
  BY PassInvKept DEF DeliveryInv
<1>. QED
  BY <1>1 DEF DeliveryInv, TablesInv

\* A step of replica r that only reads.
LEMMA ReadingStep ==
    ASSUME TypeInv, DeliveryInv, NEW r \in Replicas,
           UNCHANGED <<producers, tables, received>>,
           \A q \in Replicas \ {r} : pass'[q] = pass[q] /\ pc'[q] = pc[q],
           Onward => PassInv(r)'
    PROVE  DeliveryInv'
<1>1. Onward
  BY DEF Onward, producers
<1>2. TablesInv'
  BY DEF DeliveryInv, TablesInv, AtLeastOnce, MarkedMeansReceived, OnlyCommitted,
         RowsOfCommitted, producers, tables
<1>. QED
  BY <1>1, <1>2, OwnStep

\* A step of replica r that only reads and drops its locals.
LEMMA ResettingStep ==
    ASSUME TypeInv, DeliveryInv, NEW r \in Replicas, NEW i \in 1..Len(DestOrder),
           NEW s \in (Statements \ {"saveAck", "count", "mark"}) \cup {"down", "standby"},
           UNCHANGED <<producers, tables, received>>,
           SetPass(r, NewPass(i)), Goto(r, s)
    PROVE  DeliveryInv'
<1>1. pass'[r] = NewPass(i) /\ pc'[r] = s
  BY DEF SetPass, Goto, TypeInv, TypeOK
<1>2. pass'[r].window = {} /\ pass'[r].expired = {}
  BY <1>1, NewPassType
<1>3. pc'[r] \notin {"saveAck", "count", "mark"}
  BY <1>1 DEF Statements
<1>4. ASSUME Onward PROVE PassInv(r)'
  BY <1>2, <1>3, <1>4, PassInvShrinks DEF DeliveryInv
<1>5. \A q \in Replicas \ {r} : pass'[q] = pass[q] /\ pc'[q] = pc[q]
  BY DEF SetPass, Goto, TypeInv, TypeOK
<1>. QED
  BY <1>4, <1>5, ReadingStep

LEMMA EndDestDelivery ==
    ASSUME TypeInv, DeliveryInv, NEW r \in Replicas, EndDest(r),
           UNCHANGED <<producers, tables, received>>
    PROVE  DeliveryInv'
<1>1. pass[r].dest \in 1..Len(DestOrder) /\ Len(DestOrder) \in Nat /\ 1 \in 1..Len(DestOrder)
  BY PassTypes, DestsAssumption DEF TypeInv, Pass
<1>2. CASE pass[r].dest < Len(DestOrder)
  <2>1. pass[r].dest + 1 \in 1..Len(DestOrder)
    BY <1>1, <1>2
  <2>. QED
    BY <1>2, <2>1, ResettingStep DEF EndDest, Statements
<1>3. CASE ~(pass[r].dest < Len(DestOrder))
  BY <1>1, <1>3, ResettingStep DEF EndDest, Statements
<1>. QED
  BY <1>2, <1>3

LEMMA DeliveryInit == Init => DeliveryInv
<1>. SUFFICES ASSUME Init PROVE DeliveryInv
  OBVIOUS
<1>1. TablesInv
  BY EventsAssumption DEF Init, TablesInv, AtLeastOnce, MarkedMeansReceived, OnlyCommitted,
     RowsOfCommitted, NoRow
<1>2. \A r \in Replicas : PassInv(r)
  BY FirstPassType DEF Init, PassInv
<1>. QED
  BY <1>1, <1>2 DEF DeliveryInv, TablesInv

LEMMA DeliveryStep == TypeInv /\ TypeInv' /\ DeliveryInv /\ [Next]_vars => DeliveryInv'
<1>. SUFFICES ASSUME TypeInv, TypeInv', DeliveryInv, [Next]_vars PROVE DeliveryInv'
  OBVIOUS
<1>first. 1 \in 1..Len(DestOrder)
  BY DestsAssumption
<1>1. ASSUME NEW e \in Events, Insert(e) \/ Commit(e) \/ Rollback(e) PROVE DeliveryInv'
  <2>1. Onward
    BY <1>1 DEF Onward, Insert, Commit, Rollback, TypeInv, TypeOK
  <2>2. \A r \in Replicas : PassInv(r)'
    BY <1>1, <2>1, PassInvKept DEF Insert, Commit, Rollback, DeliveryInv
  <2>3. CASE Insert(e) \/ Rollback(e)
    <3>1. TablesInv'
      BY <2>3 DEF Insert, Rollback, TypeInv, TypeOK, DeliveryInv, TablesInv, AtLeastOnce,
         MarkedMeansReceived, OnlyCommitted, RowsOfCommitted, tables
    <3>. QED
      BY <2>2, <3>1 DEF DeliveryInv, TablesInv
  <2>4. CASE Commit(e)
    <3>1. AtLeastOnce'
      <4>1. \A f \in Events \ {e} : delivery'[f] = delivery[f] /\ tx'[f] = tx[f]
        BY <2>4 DEF Commit, TypeInv, TypeOK
      <4>2. \A d \in Accepts[e] : delivery'[e][d].status = "pending"
        <5>1. delivery'[e] = [d \in Dests |-> IF d \in Accepts[e] THEN NewRow ELSE NoRow]
          BY <2>4 DEF Commit, TypeInv, TypeOK
        <5>2. NewRow.status = "pending"
          BY DEF NewRow
        <5>. QED
          BY <5>1, <5>2, EventsAssumption
      <4>3. received' = received
        BY <2>4 DEF Commit
      <4>. QED
        BY <4>1, <4>2, <4>3 DEF DeliveryInv, AtLeastOnce
    <3>2. MarkedMeansReceived'
      BY <2>4 DEF Commit, TypeInv, TypeOK, DeliveryInv, MarkedMeansReceived, NewRow, NoRow
    <3>3. OnlyCommitted'
      BY <2>4 DEF Commit, TypeInv, TypeOK, DeliveryInv, OnlyCommitted
    <3>4. RowsOfCommitted'
      BY <2>4 DEF Commit, TypeInv, TypeOK, DeliveryInv, RowsOfCommitted, NewRow, NoRow
    <3>. QED
      BY <2>2, <3>1, <3>2, <3>3, <3>4 DEF DeliveryInv
  <2>. QED
    BY <1>1, <2>3, <2>4
<1>2. ASSUME NEW r \in Replicas, TryLock(r) PROVE DeliveryInv'
  BY <1>2, <1>first, ResettingStep DEF TryLock, Statements
<1>3. ASSUME NEW r \in Replicas, Ping(r) PROVE DeliveryInv'
  BY <1>3, <1>first, ResettingStep DEF Ping, Statements
<1>4. ASSUME NEW r \in Replicas, Query(r) PROVE DeliveryInv'
  <2>. DEFINE win == FirstRows(Pending(r), BatchSize)
              rows == {[event |-> e, row |-> delivery[e][Dest(r)]] : e \in win}
  <2>1. CASE win = {}
    BY <1>4, <2>1, EndDestDelivery DEF Query
  <2>2. CASE win # {}
    <3>1. \A w \in rows : /\ w.event \in Events
                          /\ tx[w.event] = "committed"
                          /\ Dest(r) \in Accepts[w.event]
                          /\ w.row.status = "pending"
      <4>1. \A e \in win : e \in Events /\ delivery[e][Dest(r)].status = "pending"
        BY DEF FirstRows, Pending
      <4>2. \A e \in win : tx[e] = "committed" /\ Dest(r) \in Accepts[e]
        BY <4>1, PassTypes DEF DeliveryInv, RowsOfCommitted, TypeInv
      <4>. HIDE DEF win
      <4>. QED
        BY <4>1, <4>2
    <3>2. /\ SetPass(r, [pass[r] EXCEPT !.window = rows, !.full = (Cardinality(win) = BatchSize)])
          /\ Goto(r, "load")
          /\ UNCHANGED <<producers, tables, received>>
      BY <1>4, <2>2 DEF Query
    <3>. HIDE DEF rows, win
    <3>3. /\ pass'[r].window = rows /\ pass'[r].dest = pass[r].dest
          /\ pass'[r].expired = pass[r].expired /\ pc'[r] = "load"
      BY <3>2, PassTypes DEF SetPass, Goto, TypeInv, TypeOK, Pass
    <3>4. PassInv(r)'
      BY <3>1, <3>2, <3>3 DEF PassInv, Dest, DeliveryInv, ReceivedEverywhere, producers
    <3>5. \A q \in Replicas \ {r} : pass'[q] = pass[q] /\ pc'[q] = pc[q]
      BY <3>2 DEF SetPass, Goto, TypeInv, TypeOK
    <3>. QED
      BY <3>2, <3>4, <3>5, ReadingStep
  <2>. QED
    BY <2>1, <2>2
<1>5. ASSUME NEW r \in Replicas, LoadRecords(r) \/ SkipHeld(r) \/ Attempt(r) \/ DrainTick(r)
      PROVE  DeliveryInv'
  <2>1. /\ pass'[r].window \subseteq pass[r].window
        /\ pass'[r].dest = pass[r].dest /\ pass'[r].expired = pass[r].expired
        /\ pc'[r] \notin {"saveAck", "count", "mark"}
    <3>1. pass[r] \in Pass
      BY PassTypes DEF TypeInv
    <3>2. CASE LoadRecords(r)
      BY <3>1, <3>2 DEF LoadRecords, SetPass, Goto, TypeInv, TypeOK, Pass
    <3>3. CASE SkipHeld(r)
      BY <3>1, <3>3 DEF SkipHeld, AtRow, Rest, SetPass, TypeInv, TypeOK, Pass
    <3>4. CASE Attempt(r)
      BY <3>1, <3>4 DEF Attempt, SetPass, Goto, TypeInv, TypeOK, Pass
    <3>5. CASE DrainTick(r)
      BY <3>1, <3>5 DEF DrainTick, Goto, TypeInv, TypeOK
    <3>. QED
      BY <1>5, <3>2, <3>3, <3>4, <3>5
  <2>2. \A q \in Replicas \ {r} : pass'[q] = pass[q] /\ pc'[q] = pc[q]
    BY <1>5 DEF LoadRecords, SkipHeld, Attempt, DrainTick, SetPass, Goto, TypeInv, TypeOK
  <2>3. UNCHANGED <<producers, tables, received>>
    BY <1>5 DEF LoadRecords, SkipHeld, Attempt, DrainTick
  <2>. QED
    BY <2>1, <2>2, <2>3, PassInvShrinks, ReadingStep DEF DeliveryInv
<1>6. ASSUME NEW r \in Replicas, EndWindow(r) PROVE DeliveryInv'
  <2>1. CASE EndDest(r)
    BY <1>6, <2>1, EndDestDelivery DEF EndWindow
  <2>2. CASE ~EndDest(r)
    <3>1. Goto(r, "query") /\ UNCHANGED <<pass, producers, tables, received>>
      BY <1>6, <2>2 DEF EndWindow
    <3>2. pc'[r] = "query" /\ \A q \in Replicas \ {r} : pc'[q] = pc[q]
      BY <3>1 DEF Goto, TypeInv, TypeOK
    <3>. QED
      BY <3>1, <3>2, PassInvShrinks, ReadingStep DEF DeliveryInv
  <2>. QED
    BY <2>1, <2>2
<1>7. ASSUME NEW r \in Replicas, MissingRecord(r) PROVE DeliveryInv'
  BY <1>7, <1>first, ResettingStep DEF MissingRecord, Statements
<1>8. ASSUME NEW r \in Replicas, PublishAcked(r) \/ PublishFailed(r) PROVE DeliveryInv'
  <2>. DEFINE e == Del(r).event
  <2>1. /\ e \in Events /\ Dest(r) \in Dests
        /\ tx[e] = "committed" /\ Dest(r) \in Accepts[e]
    BY <1>8, PassTypes DEF PublishAcked, PublishFailed, TypeInv, HandlesARow, HandlingRow,
       DeliveryInv, PassInv
  <2>2. /\ PublishAcked(r) => received' = [received EXCEPT ![Dest(r)] = @ \cup {e}]
        /\ \/ received' = [received EXCEPT ![Dest(r)] = @ \cup {e}]
           \/ received' = received
    BY <1>8 DEF PublishAcked, PublishFailed, Receive
  <2>3. UNCHANGED <<producers, tables, pass>>
    BY <1>8 DEF PublishAcked, PublishFailed
  <2>a. /\ UNCHANGED <<nextId, tx, outboxId>>
        /\ \A d \in Dests : received[d] \subseteq received'[d]
        /\ \A d \in Dests : \A x \in received'[d] : x \in received[d] \/ (x = e /\ d = Dest(r))
    <3>. HIDE DEF e
    <3>1. received \in [Dests -> SUBSET Events]
      BY DEF TypeInv, TypeOK
    <3>. QED
      BY <2>1, <2>2, <2>3, <3>1 DEF producers
  <2>4. Onward
    BY <2>a DEF Onward
  <2>5. OnlyCommitted'
    <3>. HIDE DEF e
    <3>. QED
      BY <2>1, <2>a DEF OnlyCommitted, DeliveryInv
  <2>6. TablesInv'
    BY <2>3, <2>4, <2>5, EventsAssumption
       DEF TablesInv, AtLeastOnce, MarkedMeansReceived, RowsOfCommitted, DeliveryInv, Onward,
           producers, tables
  <2>7. \A q \in Replicas \ {r} : pass'[q] = pass[q] /\ pc'[q] = pc[q]
    BY <1>8, <2>3 DEF PublishAcked, PublishFailed, Goto, TypeInv, TypeOK
  <2>8. PassInv(r)'
    <3>1. CASE PublishFailed(r)
      BY <3>1, <2>3, <2>4, PassInvShrinks DEF PublishFailed, Goto, DeliveryInv, TypeInv, TypeOK
    <3>2. CASE PublishAcked(r)
      <4>1. pc'[r] = "saveAck"
        BY <3>2 DEF PublishAcked, Goto, TypeInv, TypeOK
      <4>2. Del(r)' = Del(r) /\ Dest(r)' = Dest(r)
        BY <2>3 DEF Del, Dest, producers
      <4>3. e \in received'[Dest(r)]
        BY <2>1, <2>2, <3>2 DEF TypeInv, TypeOK
      <4>4. \A x \in pass[r].expired : ReceivedEverywhere(x)'
        BY <2>4, PassTypes, EventsAssumption
           DEF DeliveryInv, PassInv, ReceivedEverywhere, Onward, Pass, TypeInv
      <4>. QED
        BY <2>3, <4>1, <4>2, <4>3, <4>4 DEF PassInv, DeliveryInv, producers
    <3>. QED
      BY <1>8, <3>1, <3>2
  <2>. QED
    BY <2>4, <2>6, <2>7, <2>8, OwnStep
<1>9. ASSUME NEW r \in Replicas, SaveAck(r) PROVE DeliveryInv'
  <2>. DEFINE e == Del(r).event
              d == Dest(r)
              row == [Del(r).row EXCEPT !.status = "published", !.stuck = FALSE]
  <2>1. /\ e \in Events /\ d \in Dests /\ Del(r).row \in Row
        /\ tx[e] = "committed" /\ d \in Accepts[e] /\ e \in received[d]
    BY <1>9, PassTypes DEF SaveAck, TypeInv, HandlesARow, HandlingRow, DeliveryInv, PassInv
  <2>2. row.status = "published"
    BY <2>1 DEF Row
  <2>3. /\ delivery' = [delivery EXCEPT ![e][d] = row]
        /\ UNCHANGED <<producers, record, received, pass>> /\ Goto(r, "count")
    BY <1>9 DEF SaveAck, Save
  <2>4. Onward
    <3>1. UNCHANGED <<tx, outboxId, received>>
      BY <2>3 DEF producers
    <3>. QED
      BY <3>1 DEF Onward
  <2>5. Del(r)' = Del(r) /\ Dest(r)' = Dest(r)
    BY <2>3 DEF Del, Dest, producers
  <2>6. pc'[r] = "count" /\ \A q \in Replicas \ {r} : pass'[q] = pass[q] /\ pc'[q] = pc[q]
    BY <2>3 DEF Goto, TypeInv, TypeOK
  <2>7. PassInv(r)'
    BY <2>1, <2>3, <2>5, <2>6 DEF PassInv, DeliveryInv, ReceivedEverywhere, producers
  <2>8. TablesInv'
    <3>. HIDE DEF e, d, row
    <3>1. AtLeastOnce'
      BY <2>1, <2>2, <2>3, EventsAssumption DEF AtLeastOnce, DeliveryInv, TypeInv, TypeOK, producers
    <3>2. MarkedMeansReceived'
      BY <2>1, <2>2, <2>3 DEF MarkedMeansReceived, DeliveryInv, TypeInv, TypeOK, producers
    <3>3. RowsOfCommitted'
      BY <2>1, <2>2, <2>3 DEF RowsOfCommitted, DeliveryInv, TypeInv, TypeOK, producers
    <3>. QED
      BY <2>3, <3>1, <3>2, <3>3 DEF TablesInv, DeliveryInv, OnlyCommitted, producers
  <2>. QED
    BY <2>4, <2>6, <2>7, <2>8, OwnStep
<1>10. ASSUME NEW r \in Replicas, SaveFailure(r) PROVE DeliveryInv'
  <2>. DEFINE w == Del(r)
              n == IF w.row.attempts < MaxAttempts THEN w.row.attempts + 1 ELSE MaxAttempts
              row == [w.row EXCEPT !.attempts = n,
                                   !.stuck = @ \/ n >= MaxAttempts \/ w.event \in Unroutable]
  <2>1. /\ w.event \in Events /\ Dest(r) \in Dests /\ w.row \in Row
        /\ tx[w.event] = "committed" /\ Dest(r) \in Accepts[w.event] /\ w.row.status = "pending"
    BY <1>10, PassTypes DEF SaveFailure, TypeInv, HandlesARow, HandlingRow, DeliveryInv, PassInv
  <2>2. row.status = "pending"
    <3>. HIDE DEF n
    <3>. QED
      BY <2>1 DEF Row
  <2>3. /\ delivery' = [delivery EXCEPT ![w.event][Dest(r)] = row]
        /\ UNCHANGED <<producers, record, received>> /\ Goto(r, "row")
        /\ SetPass(r, [pass[r] EXCEPT !.blocked = Block(@, w.event), !.window = Rest(r)])
    BY <1>10 DEF SaveFailure, Save
  <2>. HIDE DEF w, n, row
  <2>4. Onward
    BY <2>3 DEF Onward, producers
  <2>5. /\ pc'[r] = "row" /\ pass'[r].window = Rest(r)
        /\ pass'[r].dest = pass[r].dest /\ pass'[r].expired = pass[r].expired
        /\ \A q \in Replicas \ {r} : pass'[q] = pass[q] /\ pc'[q] = pc[q]
    BY <2>3, PassTypes DEF Goto, SetPass, TypeInv, TypeOK, Pass
  <2>6. PassInv(r)'
    BY <2>4, <2>5, PassInvShrinks DEF DeliveryInv, Rest
  <2>7. TablesInv'
    <3>1. AtLeastOnce'
      BY <2>1, <2>2, <2>3, EventsAssumption DEF AtLeastOnce, DeliveryInv, TypeInv, TypeOK, producers
    <3>2. MarkedMeansReceived'
      BY <2>1, <2>2, <2>3 DEF MarkedMeansReceived, DeliveryInv, TypeInv, TypeOK, producers
    <3>3. RowsOfCommitted'
      BY <2>1, <2>2, <2>3 DEF RowsOfCommitted, DeliveryInv, TypeInv, TypeOK, producers
    <3>. QED
      BY <2>3, <3>1, <3>2, <3>3 DEF TablesInv, DeliveryInv, OnlyCommitted, producers
  <2>. QED
    BY <2>4, <2>5, <2>6, <2>7, OwnStep
<1>11. ASSUME NEW r \in Replicas, CountOutstanding(r) PROVE DeliveryInv'
  <2>1. UNCHANGED <<producers, tables, received>>
        /\ \A q \in Replicas \ {r} : pass'[q] = pass[q] /\ pc'[q] = pc[q]
    BY <1>11 DEF CountOutstanding, Goto, SetPass, TypeInv, TypeOK
  <2>2. Del(r).event \in Events /\ tx[Del(r).event] = "committed"
    BY <1>11, PassTypes DEF CountOutstanding, TypeInv, HandlesARow, HandlingRow, DeliveryInv, PassInv
  <2>3. CASE \E d \in Dests : delivery[Del(r).event][d].status = "pending"
    <3>1. /\ pc'[r] = "row" /\ pass'[r].window = Rest(r)
          /\ pass'[r].dest = pass[r].dest /\ pass'[r].expired = pass[r].expired
      <4>1. Goto(r, "row") /\ SetPass(r, [pass[r] EXCEPT !.window = Rest(r)])
        BY <1>11, <2>3 DEF CountOutstanding
      <4>. QED
        BY <4>1, PassTypes DEF Goto, SetPass, TypeInv, TypeOK, Pass
    <3>. QED
      BY <2>1, <3>1, PassInvShrinks, ReadingStep DEF DeliveryInv, Rest
  <2>4. CASE ~\E d \in Dests : delivery[Del(r).event][d].status = "pending"
    <3>1. pc'[r] = "mark" /\ pass' = pass
      BY <1>11, <2>4 DEF CountOutstanding, Goto, TypeInv, TypeOK
    <3>2. ReceivedEverywhere(Del(r).event)
      BY <2>2, <2>4, EventsAssumption DEF ReceivedEverywhere, DeliveryInv, AtLeastOnce
    <3>3. Del(r)' = Del(r) /\ Dest(r)' = Dest(r)
      BY <2>1, <3>1 DEF Del, Dest, producers
    <3>4. PassInv(r)'
      BY <2>1, <3>1, <3>2, <3>3 DEF PassInv, DeliveryInv, ReceivedEverywhere, producers
    <3>. QED
      BY <2>1, <3>4, ReadingStep
  <2>. QED
    BY <2>3, <2>4
<1>12. ASSUME NEW r \in Replicas, MarkDelivered(r) PROVE DeliveryInv'
  <2>. DEFINE e == Del(r).event
  <2>1. e \in Events /\ tx[e] = "committed" /\ ReceivedEverywhere(e)
    BY <1>12, PassTypes
       DEF MarkDelivered, TypeInv, HandlesARow, HandlingRow, DeliveryInv, PassInv
  <2>2. /\ record' = [record EXCEPT ![e] = IF @ = "absent" THEN "absent" ELSE "delivered"]
        /\ UNCHANGED <<producers, delivery, received>> /\ Goto(r, "row")
        /\ SetPass(r, [pass[r] EXCEPT !.window = Rest(r)])
    BY <1>12 DEF MarkDelivered
  <2>. HIDE DEF e
  <2>3. Onward
    BY <2>2 DEF Onward, producers
  <2>4. /\ pc'[r] = "row" /\ pass'[r].window = Rest(r)
        /\ pass'[r].dest = pass[r].dest /\ pass'[r].expired = pass[r].expired
        /\ \A q \in Replicas \ {r} : pass'[q] = pass[q] /\ pc'[q] = pc[q]
    BY <2>2, PassTypes DEF Goto, SetPass, TypeInv, TypeOK, Pass
  <2>5. PassInv(r)'
    BY <2>3, <2>4, PassInvShrinks DEF DeliveryInv, Rest
  <2>6. TablesInv'
    <3>1. MarkedMeansReceived'
      BY <2>1, <2>2 DEF MarkedMeansReceived, ReceivedEverywhere, DeliveryInv, TypeInv, TypeOK
    <3>2. RowsOfCommitted'
      BY <2>1, <2>2 DEF RowsOfCommitted, DeliveryInv, TypeInv, TypeOK, producers
    <3>. QED
      BY <2>2, <3>1, <3>2 DEF TablesInv, DeliveryInv, OnlyCommitted, AtLeastOnce, producers
  <2>. QED
    BY <2>3, <2>4, <2>5, <2>6, OwnStep
<1>13. ASSUME NEW r \in Replicas, SelectExpired(r) PROVE DeliveryInv'
  <2>1. PICK ids \in SUBSET MayBeExpired : SetPass(r, [pass[r] EXCEPT !.expired = ids])
    BY <1>13 DEF SelectExpired
  <2>2. \A e \in ids : ReceivedEverywhere(e)
    BY EventsAssumption DEF MayBeExpired, ReceivedEverywhere, DeliveryInv, MarkedMeansReceived
  <2>3. UNCHANGED <<producers, tables, received>> /\ Goto(r, "purge")
    BY <1>13 DEF SelectExpired
  <2>4. /\ pc'[r] = "purge" /\ pass'[r].window = pass[r].window
        /\ pass'[r].dest = pass[r].dest /\ pass'[r].expired = ids
        /\ \A q \in Replicas \ {r} : pass'[q] = pass[q] /\ pc'[q] = pc[q]
    BY <2>1, <2>3, PassTypes DEF Goto, SetPass, TypeInv, TypeOK, Pass
  <2>5. PassInv(r)'
    BY <2>2, <2>3, <2>4 DEF PassInv, Dest, DeliveryInv, ReceivedEverywhere, producers
  <2>. QED
    BY <2>3, <2>4, <2>5, ReadingStep
<1>14. ASSUME NEW r \in Replicas, Purge(r) PROVE DeliveryInv'
  <2>1. \A e \in pass[r].expired : ReceivedEverywhere(e)
    BY DEF DeliveryInv, PassInv
  <2>2. /\ record' = [e \in Events |-> IF e \in pass[r].expired THEN "absent" ELSE record[e]]
        /\ delivery' = [e \in Events |-> IF e \in pass[r].expired
                                          THEN [d \in Dests |-> NoRow] ELSE delivery[e]]
        /\ UNCHANGED <<producers, received>> /\ Goto(r, "ping") /\ SetPass(r, NewPass(1))
    BY <1>14 DEF Purge
  <2>3. Onward
    BY <2>2 DEF Onward, producers
  <2>4. /\ pc'[r] = "ping" /\ pass'[r].window = {} /\ pass'[r].expired = {}
        /\ \A q \in Replicas \ {r} : pass'[q] = pass[q] /\ pc'[q] = pc[q]
    BY <2>2, FirstPassType DEF Goto, SetPass, TypeInv, TypeOK
  <2>5. PassInv(r)'
    BY <2>3, <2>4, PassInvShrinks DEF DeliveryInv
  <2>6. AtLeastOnce'
    BY <2>1, <2>2 DEF AtLeastOnce, ReceivedEverywhere, DeliveryInv, producers
  <2>7. MarkedMeansReceived'
    BY <2>2 DEF MarkedMeansReceived, DeliveryInv, NoRow
  <2>8. RowsOfCommitted'
    BY <2>2 DEF RowsOfCommitted, DeliveryInv, NoRow, producers
  <2>9. TablesInv'
    BY <2>2, <2>6, <2>7, <2>8 DEF TablesInv, DeliveryInv, OnlyCommitted, producers
  <2>. QED
    BY <2>3, <2>4, <2>5, <2>9, OwnStep
<1>15. ASSUME NEW r \in Replicas, StatementFails(r) PROVE DeliveryInv'
  BY <1>15, <1>first, ResettingStep DEF StatementFails, Statements
<1>16. ASSUME NEW r \in Replicas, PurgeFails(r) PROVE DeliveryInv'
  BY <1>16, <1>first, ResettingStep DEF PurgeFails, Statements
<1>17. ASSUME NEW r \in Replicas, Crash(r) PROVE DeliveryInv'
  BY <1>17, <1>first, ResettingStep DEF Crash
<1>18. ASSUME NEW r \in Replicas, Restart(r) PROVE DeliveryInv'
  <2>1. /\ pc'[r] = "standby" /\ pass' = pass
        /\ \A q \in Replicas \ {r} : pc'[q] = pc[q]
        /\ UNCHANGED <<producers, tables, received>>
    BY <1>18 DEF Restart, Goto, TypeInv, TypeOK
  <2>. QED
    BY <2>1, PassInvShrinks, ReadingStep DEF DeliveryInv
<1>19. CASE LoseSession \/ UNCHANGED vars
  <2>1. UNCHANGED <<tx, outboxId, record, delivery, received, pc, pass>>
    BY <1>19 DEF LoseSession, vars, producers, tables
  <2>2. Onward
    BY <2>1 DEF Onward
  <2>3. \A r \in Replicas : PassInv(r)'
    BY <2>1, <2>2, PassInvKept DEF DeliveryInv
  <2>. QED
    BY <2>1, <2>3 DEF DeliveryInv, AtLeastOnce, MarkedMeansReceived, OnlyCommitted, RowsOfCommitted
<1>. QED
  BY <1>1, <1>2, <1>3, <1>4, <1>5, <1>6, <1>7, <1>8, <1>9, <1>10, <1>11, <1>12, <1>13, <1>14,
     <1>15, <1>16, <1>17, <1>18, <1>19 DEF Next, Step

LEMMA DeliveryInvariant == Spec => []DeliveryInv
BY DeliveryInit, DeliveryStep, TypeInvariant, PTL DEF Spec

\* At-least-once: no crash, failed statement, lost session, overlapping leader
\* or cleanup makes the outbox forget a committed event a destination accepts.
THEOREM NothingForgotten == Spec => []AtLeastOnce
<1>1. DeliveryInv => AtLeastOnce
  BY DEF DeliveryInv
<1>. QED
  BY <1>1, DeliveryInvariant, PTL

\* What is marked published or delivered, and so may be purged, was received.
THEOREM MarkingIsSound == Spec => []MarkedMeansReceived
<1>1. DeliveryInv => MarkedMeansReceived
  BY DEF DeliveryInv
<1>. QED
  BY <1>1, DeliveryInvariant, PTL

\* A destination only ever receives events whose transaction committed.
THEOREM NothingUncommittedPublished == Spec => []OnlyCommitted
<1>1. DeliveryInv => OnlyCommitted
  BY DEF DeliveryInv
<1>. QED
  BY <1>1, DeliveryInvariant, PTL

-----------------------------------------------------------------------------
(* One drainer.                                                            *)

\* A replica that leads holds the lock, as long as the lock's session dies
\* only with its process.
Leads(r) == pc[r] \notin {"standby", "down"}
LeaderInv == \A r \in Replicas : Leads(r) => lock = r

LEMMA LeaderStep ==
    ASSUME ~SessionLoss
    PROVE  TypeInv /\ LeaderInv /\ [Next]_vars => LeaderInv'
<1>. SUFFICES ASSUME TypeInv, LeaderInv, [Next]_vars PROVE LeaderInv'
  OBVIOUS
<1>. USE DEF TypeInv, TypeOK, LeaderInv, Leads
<1>1. ASSUME NEW e \in Events, Insert(e) \/ Commit(e) \/ Rollback(e) PROVE LeaderInv'
  BY <1>1 DEF Insert, Commit, Rollback
<1>2. ASSUME NEW r \in Replicas, TryLock(r) \/ Crash(r) PROVE LeaderInv'
  BY <1>2, ReplicasAssumption DEF TryLock, Crash, Goto
<1>3. ASSUME NEW r \in Replicas, Ping(r) \/ Restart(r) PROVE LeaderInv'
  BY <1>3 DEF Ping, Restart, Goto
<1>4. ASSUME NEW r \in Replicas, Query(r) \/ EndWindow(r) PROVE LeaderInv'
  BY <1>4 DEF Query, EndWindow, EndDest, Goto
<1>5. ASSUME NEW r \in Replicas,
             LoadRecords(r) \/ SkipHeld(r) \/ MissingRecord(r) \/ Attempt(r)
             \/ PublishAcked(r) \/ PublishFailed(r)
      PROVE  LeaderInv'
  BY <1>5 DEF LoadRecords, SkipHeld, MissingRecord, Attempt, AtRow, PublishAcked, PublishFailed, Goto
<1>6. ASSUME NEW r \in Replicas,
             SaveAck(r) \/ SaveFailure(r) \/ CountOutstanding(r) \/ MarkDelivered(r)
      PROVE  LeaderInv'
  BY <1>6 DEF SaveAck, SaveFailure, CountOutstanding, MarkDelivered, Goto
<1>7. ASSUME NEW r \in Replicas, DrainTick(r) \/ SelectExpired(r) \/ Purge(r) PROVE LeaderInv'
  BY <1>7 DEF DrainTick, SelectExpired, Purge, Goto
<1>8. ASSUME NEW r \in Replicas, StatementFails(r) \/ PurgeFails(r) PROVE LeaderInv'
  BY <1>8 DEF StatementFails, PurgeFails, Goto
<1>9. CASE LoseSession \/ UNCHANGED vars
  BY <1>9 DEF LoseSession, vars
<1>. QED
  BY <1>1, <1>2, <1>3, <1>4, <1>5, <1>6, <1>7, <1>8, <1>9 DEF Next, Step

\* Without lost sessions only the holder of the advisory lock drains, so no two
\* replicas ever drain at once.
THEOREM SingleDrainer ==
    ASSUME ~SessionLoss
    PROVE  Spec => []OnlyHolderDrains
<1>1. Init => LeaderInv
  BY DEF Init, LeaderInv, Leads
<1>2. TypeInv /\ LeaderInv => OnlyHolderDrains
  BY DEF LeaderInv, Leads, OnlyHolderDrains, Draining, Statements
<1>. QED
  BY <1>1, <1>2, LeaderStep, TypeInvariant, PTL DEF Spec

-----------------------------------------------------------------------------
(* Copies of rows, while there is one drainer.                             *)

\* The rows of the window whose copies are still to be written back.
Unsaved(r) == IF pc[r] \in {"count", "mark"} THEN Rest(r) ELSE pass[r].window

\* A pass works on true copies: what it is to write back is what the table has, its
\* last acknowledged row is published there, and what it is to mark has nothing
\* outstanding.
FreshPass(r) ==
    /\ Leads(r) \/ pass[r].window = {}
    /\ \A w \in Unsaved(r) : delivery[w.event][Dest(r)] = w.row
    /\ pc[r] \in {"count", "mark"} => delivery[Del(r).event][Dest(r)].status = "published"
    /\ pc[r] = "mark" => \A d \in Dests : delivery[Del(r).event][d].status # "pending"

\* A delivery has its record.
Recorded ==
    \A e \in Events, d \in Dests : delivery[e][d].status # "absent" => record[e] # "absent"

FreshInv == DeliveredMeansPublished /\ Recorded /\ \A r \in Replicas : FreshPass(r)

\* The step puts no published delivery back to pending.
NoneUnpublished ==
    \A e \in Events, d \in Dests :
        delivery[e][d].status = "published" => delivery'[e][d].status # "pending"

\* A step that leaves the rows of committed events alone.
LEMMA FreshKept ==
    ASSUME TypeInv, DeliveryInv, NEW q \in Replicas, FreshPass(q), Onward,
           pass'[q] = pass[q], pc'[q] = pc[q],
           \A e \in Events : tx[e] = "committed" => delivery'[e] = delivery[e]
    PROVE  FreshPass(q)'
<1>. USE DEF TypeInv
<1>1. pass[q].window \subseteq WindowRow
  BY PassTypes
<1>2. \A w \in pass[q].window : /\ outboxId'[w.event] = outboxId[w.event]
                                /\ delivery'[w.event] = delivery[w.event]
  BY <1>1 DEF PassInv, DeliveryInv, Onward, WindowRow
<1>3. Del(q)' = Del(q) /\ Dest(q)' = Dest(q)
  BY <1>2 DEF Del, Dest
<1>4. Unsaved(q)' = Unsaved(q) /\ Unsaved(q) \subseteq pass[q].window
  BY <1>3 DEF Unsaved, Rest
<1>5. pc[q] \in {"count", "mark"} => Del(q) \in pass[q].window
  BY PassTypes DEF HandlesARow, HandlingRow
<1>6. Leads(q)' <=> Leads(q)
  BY DEF Leads
<1>7. (\A w \in Unsaved(q) : delivery[w.event][Dest(q)] = w.row)'
  BY <1>2, <1>3, <1>4 DEF FreshPass
<1>8. pc[q] \in {"count", "mark"} => delivery'[Del(q).event] = delivery[Del(q).event]
  BY <1>2, <1>5
<1>. QED
  BY <1>3, <1>6, <1>7, <1>8 DEF FreshPass

\* A step of the leader itself that writes no row and drops or keeps its copies.
LEMMA FreshShrinks ==
    ASSUME NEW r \in Replicas, FreshPass(r), delivery' = delivery,
           Leads(r)' \/ pass'[r].window = {},
           pass'[r].window \subseteq Unsaved(r),
           pass'[r].window # {} => pass'[r].dest = pass[r].dest,
           pc'[r] \notin {"count", "mark"}
    PROVE  FreshPass(r)'
<1>1. Unsaved(r)' = pass'[r].window
  BY DEF Unsaved
<1>2. pass'[r].window # {} => Dest(r)' = Dest(r)
  BY DEF Dest
<1>. QED
  BY <1>1, <1>2 DEF FreshPass

\* The copies of a window are of different rows.
LEMMA OneCopyEach ==
    ASSUME TypeInv, NEW r \in Replicas, FreshPass(r), pc[r] \notin {"count", "mark"},
           pass[r].window # {}, NEW w \in Rest(r)
    PROVE  w.event # Del(r).event
<1>1. /\ Del(r) \in pass[r].window /\ w \in pass[r].window /\ w # Del(r)
      /\ pass[r].window \subseteq WindowRow
  BY PassTypes DEF Rest, TypeInv
<1>2. /\ delivery[w.event][Dest(r)] = w.row
      /\ delivery[Del(r).event][Dest(r)] = Del(r).row
  BY <1>1 DEF FreshPass, Unsaved
<1>3. w \in WindowRow /\ Del(r) \in WindowRow
  BY <1>1
<1>4. \A v \in WindowRow : v = [event |-> v.event, row |-> v.row]
  BY DEF WindowRow
<1>. QED
  BY <1>1, <1>2, <1>3, <1>4

LEMMA FreshInit == Init => FreshInv
<1>. SUFFICES ASSUME Init PROVE FreshInv
  OBVIOUS
<1>1. DeliveredMeansPublished /\ Recorded
  BY DEF Init, DeliveredMeansPublished, Recorded, NoRow
<1>2. \A r \in Replicas : FreshPass(r)
  BY FirstPassType DEF Init, FreshPass, Unsaved
<1>. QED
  BY <1>1, <1>2 DEF FreshInv

\* What a step of the leader r owes: the others have no rows in hand.
LEMMA LeaderFresh ==
    ASSUME TypeInv, DeliveryInv, LeaderInv, FreshInv, NEW r \in Replicas, Leads(r),
           \A q \in Replicas \ {r} : pass'[q] = pass[q] /\ pc'[q] = pc[q],
           DeliveredMeansPublished', Recorded', FreshPass(r)'
    PROVE  FreshInv'
<1>1. ASSUME NEW q \in Replicas \ {r} PROVE FreshPass(q)'
  <2>1. ~Leads(q)
    BY DEF LeaderInv
  <2>2. pass[q].window = {} /\ pc[q] \in {"standby", "down"}
    BY <2>1 DEF FreshInv, FreshPass, Leads
  <2>. QED
    BY <2>2 DEF FreshPass, Unsaved
<1>. QED
  BY <1>1 DEF FreshInv

\* A step of the leader that writes no table.
LEMMA LeaderReads ==
    ASSUME TypeInv, DeliveryInv, LeaderInv, FreshInv, NEW r \in Replicas, Leads(r),
           UNCHANGED tables,
           \A q \in Replicas \ {r} : pass'[q] = pass[q] /\ pc'[q] = pc[q],
           FreshPass(r)'
    PROVE  FreshInv' /\ NoneUnpublished
<1>1. DeliveredMeansPublished' /\ Recorded' /\ NoneUnpublished
  BY DEF FreshInv, DeliveredMeansPublished, Recorded, NoneUnpublished, tables
<1>. QED
  BY <1>1, LeaderFresh

\* ... and drops its locals.
LEMMA LeaderResets ==
    ASSUME TypeInv, DeliveryInv, LeaderInv, FreshInv, NEW r \in Replicas, Leads(r),
           UNCHANGED tables, NEW i \in 1..Len(DestOrder),
           NEW s \in (Statements \ {"count", "mark"}) \cup {"down", "standby"},
           SetPass(r, NewPass(i)), Goto(r, s)
    PROVE  FreshInv' /\ NoneUnpublished
<1>1. pass'[r].window = {} /\ pc'[r] = s
  BY NewPassType DEF SetPass, Goto, TypeInv, TypeOK
<1>2. \A q \in Replicas \ {r} : pass'[q] = pass[q] /\ pc'[q] = pc[q]
  BY DEF SetPass, Goto, TypeInv, TypeOK
<1>3. pc'[r] \notin {"count", "mark"}
  BY <1>1 DEF Statements
<1>4. FreshPass(r)'
  BY <1>1, <1>3, FreshShrinks DEF FreshInv, tables
<1>. QED
  BY <1>2, <1>4, LeaderReads

LEMMA LeaderEndsDest ==
    ASSUME TypeInv, DeliveryInv, LeaderInv, FreshInv, NEW r \in Replicas, Leads(r),
           UNCHANGED tables, EndDest(r)
    PROVE  FreshInv' /\ NoneUnpublished
<1>1. pass[r].dest \in 1..Len(DestOrder) /\ Len(DestOrder) \in Nat /\ 1 \in 1..Len(DestOrder)
  BY PassTypes, DestsAssumption DEF TypeInv, Pass
<1>2. CASE pass[r].dest < Len(DestOrder)
  <2>1. pass[r].dest + 1 \in 1..Len(DestOrder)
    BY <1>1, <1>2
  <2>. QED
    BY <1>2, <2>1, LeaderResets DEF EndDest, Statements
<1>3. CASE ~(pass[r].dest < Len(DestOrder))
  BY <1>1, <1>3, LeaderResets DEF EndDest, Statements
<1>. QED
  BY <1>2, <1>3

LEMMA FreshStep ==
    ASSUME ~SessionLoss
    PROVE  TypeInv /\ DeliveryInv /\ LeaderInv /\ FreshInv /\ [Next]_vars
           => FreshInv' /\ NoneUnpublished
<1>. SUFFICES ASSUME TypeInv, DeliveryInv, LeaderInv, FreshInv, [Next]_vars
              PROVE  FreshInv' /\ NoneUnpublished
  OBVIOUS
<1>first. 1 \in 1..Len(DestOrder)
  BY DestsAssumption
<1>a. DeliveredMeansPublished /\ Recorded /\ \A r \in Replicas : FreshPass(r)
  BY DEF FreshInv
<1>1. ASSUME NEW e \in Events, Insert(e) \/ Commit(e) \/ Rollback(e)
      PROVE  FreshInv' /\ NoneUnpublished
  <2>1. Onward /\ \A f \in Events : tx[f] = "committed" => delivery'[f] = delivery[f]
    BY <1>1 DEF Onward, Insert, Commit, Rollback, TypeInv, TypeOK, tables
  <2>2. \A r \in Replicas : FreshPass(r)'
    BY <1>1, <1>a, <2>1, FreshKept DEF Insert, Commit, Rollback
  <2>3. CASE Insert(e) \/ Rollback(e)
    BY <2>2, <2>3, <1>a DEF Insert, Rollback, tables, FreshInv, DeliveredMeansPublished,
       Recorded, NoneUnpublished
  <2>4. CASE Commit(e)
    <3>1. /\ record' = [record EXCEPT ![e] = "outstanding"]
          /\ \A f \in Events \ {e} : delivery'[f] = delivery[f]
          /\ tx[e] = "open"
      BY <2>4 DEF Commit, TypeInv, TypeOK
    <3>2. DeliveredMeansPublished' /\ Recorded'
      BY <3>1, <1>a DEF DeliveredMeansPublished, Recorded, TypeInv, TypeOK
    <3>3. \A d \in Dests : delivery[e][d].status # "published"
      BY <3>1 DEF DeliveryInv, RowsOfCommitted
    <3>4. NoneUnpublished
      BY <3>1, <3>3 DEF NoneUnpublished
    <3>. QED
      BY <2>2, <3>2, <3>4 DEF FreshInv
  <2>. QED
    BY <1>1, <2>3, <2>4
<1>2. ASSUME NEW r \in Replicas, ~Leads(r), TryLock(r) \/ Crash(r) \/ Restart(r)
      PROVE  FreshInv' /\ NoneUnpublished
  <2>1. UNCHANGED <<producers, tables, received>>
        /\ \A q \in Replicas \ {r} : pass'[q] = pass[q] /\ pc'[q] = pc[q]
    BY <1>2 DEF TryLock, Crash, Restart, SetPass, Goto, TypeInv, TypeOK
  <2>2. Onward
    BY <2>1 DEF Onward, producers
  <2>3. \A q \in Replicas \ {r} : FreshPass(q)'
    BY <1>a, <2>1, <2>2, FreshKept DEF tables
  <2>4. pass'[r].window = {} /\ pc'[r] \notin {"count", "mark"}
    <3>1. CASE TryLock(r) \/ Crash(r)
      BY <3>1, FirstPassType DEF TryLock, Crash, SetPass, Goto, TypeInv, TypeOK
    <3>2. CASE Restart(r)
      BY <3>2, <1>2, <1>a DEF Restart, SetPass, Goto, TypeInv, TypeOK, FreshPass
    <3>. QED
      BY <1>2, <3>1, <3>2
  <2>5. FreshPass(r)'
    BY <2>4 DEF FreshPass, Unsaved
  <2>. QED
    BY <2>1, <2>3, <2>5, <1>a DEF FreshInv, DeliveredMeansPublished, Recorded,
       NoneUnpublished, tables
<1>3. ASSUME NEW r \in Replicas, Leads(r), Step(r) \/ StatementFails(r) \/ PurgeFails(r) \/ Crash(r)
      PROVE  FreshInv' /\ NoneUnpublished
  <2>a. pass[r] \in Pass /\ FreshPass(r)
    BY <1>a, PassTypes DEF TypeInv
  <2>1. CASE Ping(r)
    BY <1>3, <2>1, <1>first, LeaderResets DEF Ping, Statements
  <2>2. CASE Query(r)
    <3>. DEFINE win == FirstRows(Pending(r), BatchSize)
                rows == {[event |-> e, row |-> delivery[e][Dest(r)]] : e \in win}
    <3>1. CASE win = {}
      BY <1>3, <2>2, <3>1, LeaderEndsDest DEF Query
    <3>2. CASE win # {}
      <4>1. \A w \in rows : delivery[w.event][Dest(r)] = w.row
        OBVIOUS
      <4>2. /\ SetPass(r, [pass[r] EXCEPT !.window = rows, !.full = (Cardinality(win) = BatchSize)])
            /\ Goto(r, "load")
            /\ UNCHANGED tables
        BY <2>2, <3>2 DEF Query
      <4>. HIDE DEF rows, win
      <4>3. /\ pass'[r].window = rows /\ pass'[r].dest = pass[r].dest /\ pc'[r] = "load"
            /\ \A q \in Replicas \ {r} : pass'[q] = pass[q] /\ pc'[q] = pc[q]
        BY <2>a, <4>2 DEF SetPass, Goto, TypeInv, TypeOK, Pass
      <4>4. FreshPass(r)'
        BY <4>1, <4>2, <4>3 DEF FreshPass, Unsaved, Dest, Leads, tables
      <4>. QED
        BY <1>3, <4>2, <4>3, <4>4, LeaderReads
    <3>. QED
      BY <3>1, <3>2
  <2>3. CASE LoadRecords(r) \/ SkipHeld(r) \/ Attempt(r) \/ DrainTick(r)
    <3>1. /\ pass'[r].window \subseteq pass[r].window /\ pass'[r].dest = pass[r].dest
          /\ pc'[r] \notin {"count", "mark", "standby", "down"} /\ pc[r] \notin {"count", "mark"}
      <4>1. CASE LoadRecords(r)
        BY <2>a, <4>1 DEF LoadRecords, SetPass, Goto, TypeInv, TypeOK, Pass
      <4>2. CASE SkipHeld(r)
        BY <2>a, <4>2 DEF SkipHeld, AtRow, Rest, SetPass, TypeInv, TypeOK, Pass
      <4>3. CASE Attempt(r)
        BY <2>a, <4>3 DEF Attempt, AtRow, SetPass, Goto, TypeInv, TypeOK, Pass
      <4>4. CASE DrainTick(r)
        BY <2>a, <4>4 DEF DrainTick, Goto, TypeInv, TypeOK
      <4>. QED
        BY <2>3, <4>1, <4>2, <4>3, <4>4
    <3>2. /\ UNCHANGED tables
          /\ \A q \in Replicas \ {r} : pass'[q] = pass[q] /\ pc'[q] = pc[q]
      BY <2>3 DEF LoadRecords, SkipHeld, Attempt, DrainTick, SetPass, Goto, TypeInv, TypeOK
    <3>3. FreshPass(r)'
      BY <2>a, <3>1, <3>2, FreshShrinks DEF Unsaved, Leads, tables
    <3>. QED
      BY <1>3, <3>2, <3>3, LeaderReads
  <2>4. CASE EndWindow(r)
    <3>1. CASE EndDest(r)
      BY <1>3, <2>4, <3>1, LeaderEndsDest DEF EndWindow
    <3>2. CASE ~EndDest(r)
      <4>1. Goto(r, "query") /\ UNCHANGED <<pass, tables>> /\ pc[r] = "row"
        BY <2>4, <3>2 DEF EndWindow
      <4>2. pc'[r] = "query" /\ \A q \in Replicas \ {r} : pc'[q] = pc[q]
        BY <4>1 DEF Goto, TypeInv, TypeOK
      <4>3. FreshPass(r)'
        BY <2>a, <4>1, <4>2, FreshShrinks DEF Unsaved, Leads, tables
      <4>. QED
        BY <1>3, <4>1, <4>2, <4>3, LeaderReads
    <3>. QED
      BY <3>1, <3>2
  <2>5. CASE PublishAcked(r) \/ PublishFailed(r)
    <3>1. /\ pc'[r] \in {"saveAck", "saveFailure"} /\ pc[r] = "publish"
          /\ UNCHANGED <<pass, tables>> /\ \A q \in Replicas \ {r} : pc'[q] = pc[q]
      BY <2>5 DEF PublishAcked, PublishFailed, Goto, TypeInv, TypeOK
    <3>2. FreshPass(r)'
      BY <2>a, <3>1, FreshShrinks DEF Unsaved, Leads, tables
    <3>. QED
      BY <1>3, <3>1, <3>2, LeaderReads
  <2>b. pc[r] \in HandlingRow => /\ Del(r) \in pass[r].window /\ pass[r].window # {}
                                 /\ Del(r).event \in Events /\ Del(r).row \in Row
                                 /\ Dest(r) \in Dests /\ Del(r).row.status = "pending"
                                 /\ tx[Del(r).event] = "committed"
                                 /\ Rest(r) \subseteq WindowRow
    BY PassTypes DEF TypeInv, HandlesARow, DeliveryInv, PassInv, Rest
  <2>6. CASE SaveAck(r)
    <3>. DEFINE e == Del(r).event
                d == Dest(r)
                row == [Del(r).row EXCEPT !.status = "published", !.stuck = FALSE]
    <3>1. /\ pc[r] = "saveAck" /\ e \in Events /\ d \in Dests /\ Del(r).row \in Row
          /\ Rest(r) \subseteq WindowRow
          /\ delivery[e][d].status = "pending"
      <4>1. pc[r] = "saveAck" /\ pc[r] \in HandlingRow
        BY <2>6 DEF SaveAck, HandlingRow
      <4>. QED
        BY <4>1, <2>a, <2>b DEF FreshPass, Unsaved
    <3>2. row.status = "published"
      BY <3>1 DEF Row
    <3>3. /\ delivery' = [delivery EXCEPT ![e][d] = row]
          /\ UNCHANGED <<producers, record, pass>> /\ Goto(r, "count")
      BY <2>6 DEF SaveAck, Save
    <3>4. Del(r)' = Del(r) /\ Dest(r)' = Dest(r) /\ pc'[r] = "count"
          /\ \A q \in Replicas \ {r} : pass'[q] = pass[q] /\ pc'[q] = pc[q]
      BY <3>3 DEF Del, Dest, producers, Goto, TypeInv, TypeOK
    <3>5. Unsaved(r)' = Rest(r) /\ \A w \in Rest(r) : w.event # e
      BY <2>a, <2>b, <3>1, <3>3, <3>4, OneCopyEach DEF Unsaved, Rest, HandlingRow
    <3>6. \A w \in Rest(r) : delivery[w.event][d] = w.row
      BY <2>a, <3>1 DEF FreshPass, Unsaved, Rest
    <3>. HIDE DEF row
    <3>7. /\ delivery'[e][d] = row
          /\ \A f \in Events, c \in Dests : f # e \/ c # d => delivery'[f][c] = delivery[f][c]
      BY <3>1, <3>3 DEF TypeInv, TypeOK
    <3>. HIDE DEF e, d
    <3>8. FreshPass(r)'
      <4>1. \A w \in Rest(r) : delivery'[w.event][d] = w.row
        BY <3>1, <3>5, <3>6, <3>7 DEF WindowRow
      <4>2. /\ Leads(r)' /\ pc'[r] = "count"
            /\ Dest(r)' = d /\ Del(r)'.event = e /\ delivery'[e][d].status = "published"
        BY <3>2, <3>4, <3>7 DEF Leads, e, d
      <4>. QED
        BY <3>5, <4>1, <4>2 DEF FreshPass
    <3>9. DeliveredMeansPublished' /\ Recorded' /\ NoneUnpublished
      BY <3>1, <3>2, <3>3, <3>7, <1>a DEF DeliveredMeansPublished, Recorded, NoneUnpublished
    <3>. QED
      BY <1>3, <3>4, <3>8, <3>9, LeaderFresh
  <2>7. CASE SaveFailure(r)
    <3>. DEFINE w == Del(r)
                d == Dest(r)
                n == IF w.row.attempts < MaxAttempts THEN w.row.attempts + 1 ELSE MaxAttempts
                row == [w.row EXCEPT !.attempts = n,
                                     !.stuck = @ \/ n >= MaxAttempts \/ w.event \in Unroutable]
    <3>1. /\ pc[r] = "saveFailure" /\ w.event \in Events /\ d \in Dests /\ w.row \in Row
          /\ w.row.status = "pending" /\ Rest(r) \subseteq WindowRow
          /\ delivery[w.event][d].status = "pending"
      <4>1. pc[r] = "saveFailure" /\ pc[r] \in HandlingRow
        BY <2>7 DEF SaveFailure, HandlingRow
      <4>. QED
        BY <4>1, <2>a, <2>b DEF FreshPass, Unsaved
    <3>2. row.status = "pending"
      <4>. HIDE DEF n
      <4>. QED
        BY <3>1 DEF Row
    <3>3. /\ delivery' = [delivery EXCEPT ![w.event][d] = row]
          /\ UNCHANGED <<producers, record>> /\ Goto(r, "row")
          /\ SetPass(r, [pass[r] EXCEPT !.blocked = Block(@, w.event), !.window = Rest(r)])
      BY <2>7 DEF SaveFailure, Save
    <3>. HIDE DEF n, row
    <3>4. /\ pc'[r] = "row" /\ pass'[r].window = Rest(r) /\ pass'[r].dest = pass[r].dest
          /\ \A q \in Replicas \ {r} : pass'[q] = pass[q] /\ pc'[q] = pc[q]
      BY <2>a, <3>3 DEF Goto, SetPass, TypeInv, TypeOK, Pass
    <3>5. /\ \A v \in Rest(r) : v.event # w.event
          /\ \A v \in Rest(r) : delivery[v.event][d] = v.row
      <4>1. pass[r].window # {} /\ pc[r] \notin {"count", "mark"}
        BY <2>b, <3>1 DEF HandlingRow
      <4>. QED
        BY <4>1, <2>a, OneCopyEach DEF FreshPass, Unsaved, Rest
    <3>6. /\ delivery'[w.event][d] = row
          /\ \A f \in Events, c \in Dests : f # w.event \/ c # d => delivery'[f][c] = delivery[f][c]
      BY <3>1, <3>3 DEF TypeInv, TypeOK
    <3>7. FreshPass(r)'
      <4>1. \A v \in Rest(r) : delivery'[v.event][d] = v.row
        BY <3>1, <3>5, <3>6 DEF WindowRow
      <4>2. Leads(r)' /\ Unsaved(r)' = Rest(r) /\ Dest(r)' = d
        BY <3>4 DEF Leads, Unsaved, Dest
      <4>. QED
        BY <3>4, <4>1, <4>2 DEF FreshPass
    <3>. HIDE DEF w, d
    <3>8. DeliveredMeansPublished' /\ Recorded' /\ NoneUnpublished
      BY <3>1, <3>2, <3>3, <3>6, <1>a DEF DeliveredMeansPublished, Recorded, NoneUnpublished
    <3>. QED
      BY <1>3, <3>4, <3>7, <3>8, LeaderFresh
  <2>8. CASE CountOutstanding(r)
    <3>1. /\ pc[r] = "count" /\ UNCHANGED <<producers, tables>>
          /\ \A q \in Replicas \ {r} : pass'[q] = pass[q] /\ pc'[q] = pc[q]
      BY <2>8 DEF CountOutstanding, Goto, SetPass, TypeInv, TypeOK
    <3>2. CASE \E d \in Dests : delivery[Del(r).event][d].status = "pending"
      <4>1. Goto(r, "row") /\ SetPass(r, [pass[r] EXCEPT !.window = Rest(r)])
        BY <2>8, <3>2 DEF CountOutstanding
      <4>2. pc'[r] = "row" /\ pass'[r].window = Rest(r) /\ pass'[r].dest = pass[r].dest
        BY <2>a, <4>1 DEF Goto, SetPass, TypeInv, TypeOK, Pass
      <4>3. FreshPass(r)'
        BY <2>a, <3>1, <4>2, FreshShrinks DEF Unsaved, Leads, tables
      <4>. QED
        BY <1>3, <3>1, <4>3, LeaderReads
    <3>3. CASE ~\E d \in Dests : delivery[Del(r).event][d].status = "pending"
      <4>1. pc'[r] = "mark" /\ pass' = pass
        BY <2>8, <3>3 DEF CountOutstanding, Goto, TypeInv, TypeOK
      <4>2. Del(r)' = Del(r) /\ Dest(r)' = Dest(r) /\ Rest(r)' = Rest(r)
        BY <3>1, <4>1 DEF Del, Dest, Rest, producers
      <4>3. FreshPass(r)'
        BY <2>a, <3>1, <3>3, <4>1, <4>2 DEF FreshPass, Unsaved, Leads, tables
      <4>. QED
        BY <1>3, <3>1, <4>3, LeaderReads
    <3>. QED
      BY <3>2, <3>3
  <2>9. CASE MarkDelivered(r)
    <3>. DEFINE e == Del(r).event
    <3>1. pc[r] = "mark" /\ e \in Events /\ \A d \in Dests : delivery[e][d].status # "pending"
      <4>1. pc[r] = "mark" /\ pc[r] \in HandlingRow
        BY <2>9 DEF MarkDelivered, HandlingRow
      <4>. QED
        BY <4>1, <2>a, <2>b DEF FreshPass
    <3>2. /\ record' = [record EXCEPT ![e] = IF @ = "absent" THEN "absent" ELSE "delivered"]
          /\ delivery' = delivery /\ Goto(r, "row")
          /\ SetPass(r, [pass[r] EXCEPT !.window = Rest(r)])
      BY <2>9 DEF MarkDelivered
    <3>. HIDE DEF e
    <3>3. /\ pc'[r] = "row" /\ pass'[r].window = Rest(r) /\ pass'[r].dest = pass[r].dest
          /\ \A q \in Replicas \ {r} : pass'[q] = pass[q] /\ pc'[q] = pc[q]
      BY <2>a, <3>2 DEF Goto, SetPass, TypeInv, TypeOK, Pass
    <3>4. FreshPass(r)'
      BY <2>a, <3>1, <3>2, <3>3, FreshShrinks DEF Unsaved, Leads
    <3>5. DeliveredMeansPublished' /\ Recorded' /\ NoneUnpublished
      BY <3>1, <3>2, <1>a DEF DeliveredMeansPublished, Recorded, NoneUnpublished, TypeInv, TypeOK
    <3>. QED
      BY <1>3, <3>3, <3>4, <3>5, LeaderFresh
  <2>10. CASE SelectExpired(r)
    <3>1. PICK ids \in SUBSET MayBeExpired : SetPass(r, [pass[r] EXCEPT !.expired = ids])
      BY <2>10 DEF SelectExpired
    <3>2. UNCHANGED tables /\ Goto(r, "purge") /\ pc[r] = "select"
      BY <2>10 DEF SelectExpired
    <3>3. /\ pc'[r] = "purge" /\ pass'[r].window = pass[r].window /\ pass'[r].dest = pass[r].dest
          /\ \A q \in Replicas \ {r} : pass'[q] = pass[q] /\ pc'[q] = pc[q]
      BY <2>a, <3>1, <3>2 DEF Goto, SetPass, TypeInv, TypeOK, Pass
    <3>4. FreshPass(r)'
      BY <2>a, <3>2, <3>3, FreshShrinks DEF Unsaved, Leads, tables
    <3>. QED
      BY <1>3, <3>2, <3>3, <3>4, LeaderReads
  <2>11. CASE Purge(r)
    <3>1. /\ record' = [e \in Events |-> IF e \in pass[r].expired THEN "absent" ELSE record[e]]
          /\ delivery' = [e \in Events |-> IF e \in pass[r].expired
                                            THEN [d \in Dests |-> NoRow] ELSE delivery[e]]
          /\ Goto(r, "ping") /\ SetPass(r, NewPass(1))
      BY <2>11 DEF Purge
    <3>2. /\ pc'[r] = "ping" /\ pass'[r].window = {}
          /\ \A q \in Replicas \ {r} : pass'[q] = pass[q] /\ pc'[q] = pc[q]
      BY <3>1, FirstPassType DEF Goto, SetPass, TypeInv, TypeOK
    <3>3. FreshPass(r)'
      BY <3>2 DEF FreshPass, Unsaved
    <3>4. DeliveredMeansPublished' /\ Recorded' /\ NoneUnpublished
      BY <3>1, <1>a DEF DeliveredMeansPublished, Recorded, NoneUnpublished, NoRow
    <3>. QED
      BY <1>3, <3>2, <3>3, <3>4, LeaderFresh
  <2>12. CASE MissingRecord(r) \/ StatementFails(r) \/ PurgeFails(r) \/ Crash(r)
    BY <1>3, <2>12, <1>first, LeaderResets
       DEF MissingRecord, StatementFails, PurgeFails, Crash, Statements
  <2>13. ~TryLock(r)
    <3>1. TryLock(r) => pc[r] = "standby"
      BY DEF TryLock
    <3>2. pc[r] # "standby"
      BY <1>3 DEF Leads
    <3>. QED
      BY <3>1, <3>2
  <2>. QED
    BY <1>3, <2>1, <2>2, <2>3, <2>4, <2>5, <2>6, <2>7, <2>8, <2>9, <2>10, <2>11, <2>12, <2>13
       DEF Step
<1>4. ASSUME UNCHANGED vars PROVE FreshInv' /\ NoneUnpublished
  <2>1. UNCHANGED <<record, delivery, pc, pass, outboxId>>
    BY <1>4, Zenon DEF vars
  <2>2. ASSUME NEW r \in Replicas PROVE FreshPass(r)'
    <3>1. Del(r)' = Del(r) /\ Dest(r)' = Dest(r) /\ Leads(r)' = Leads(r)
      BY <2>1 DEF Del, Dest, Leads
    <3>2. Unsaved(r)' = Unsaved(r)
      BY <2>1, <3>1 DEF Unsaved, Rest
    <3>. QED
      BY <2>1, <3>1, <3>2, <1>a DEF FreshPass
  <2>3. DeliveredMeansPublished' /\ Recorded' /\ NoneUnpublished
    BY <2>1, <1>a DEF DeliveredMeansPublished, Recorded, NoneUnpublished
  <2>. QED
    BY <2>2, <2>3 DEF FreshInv
<1>5. ASSUME NEW r \in Replicas, ~Leads(r), Step(r) \/ StatementFails(r) \/ PurgeFails(r)
      PROVE  TryLock(r)
  BY <1>5 DEF Leads, Step, StatementFails, PurgeFails, Ping, Query, LoadRecords, EndWindow,
     SkipHeld, MissingRecord, Attempt, AtRow, PublishAcked, PublishFailed, SaveAck,
     SaveFailure, CountOutstanding, MarkDelivered, DrainTick, SelectExpired, Purge
<1>6. ~LoseSession
  BY DEF LoseSession
<1>7. \A r \in Replicas : Restart(r) => ~Leads(r)
  BY DEF Restart, Leads
<1>. QED
  BY <1>1, <1>2, <1>3, <1>4, <1>5, <1>6, <1>7 DEF Next

LEMMA FreshInvariant ==
    ASSUME ~SessionLoss
    PROVE  Spec => [](TypeInv /\ DeliveryInv /\ LeaderInv /\ FreshInv)
<1>1. Init => LeaderInv
  BY DEF Init, LeaderInv, Leads
<1>2. TypeInv /\ DeliveryInv /\ LeaderInv /\ FreshInv /\ [Next]_vars => LeaderInv' /\ FreshInv'
  BY LeaderStep, FreshStep
<1>. QED
  BY <1>1, <1>2, FreshInit, TypeInvariant, DeliveryInvariant, PTL DEF Spec

\* While sessions die only with their holders, a record marked delivered has no
\* delivery outstanding.
THEOREM DeliveredIsDone ==
    ASSUME ~SessionLoss
    PROVE  Spec => []DeliveredMeansPublished
<1>1. FreshInv => DeliveredMeansPublished
  BY DEF FreshInv
<1>. QED
  BY <1>1, FreshInvariant, PTL

\* ... and no pass writes an older copy of a row over a published one.
THEOREM PublishedIsFinal ==
    ASSUME ~SessionLoss
    PROVE  Spec => NeverUnpublished
<1>1. TypeInv /\ DeliveryInv /\ LeaderInv /\ FreshInv /\ [Next]_vars
      => [NoneUnpublished]_vars
  BY FreshStep
<1>2. [][NoneUnpublished]_vars => NeverUnpublished
  BY DEF NoneUnpublished, NeverUnpublished
<1>. QED
  BY <1>1, <1>2, FreshInvariant, PTL DEF Spec

-----------------------------------------------------------------------------
(* The stuck flag.                                                         *)

\* A row says it is stuck when it has failed often enough, or cannot be routed and has
\* failed, and is still pending.
FlagOK(e, row) ==
    row.stuck <=> /\ row.status = "pending"
                  /\ \/ row.attempts = MaxAttempts
                     \/ e \in Unroutable /\ row.attempts > 0

\* So say the table and every copy of it, however old.
FlagInv ==
    /\ \A e \in Events, d \in Dests : FlagOK(e, delivery[e][d])
    /\ \A r \in Replicas : \A w \in pass[r].window : FlagOK(w.event, w.row)

LEMMA NewFlags == \A e \in Events : FlagOK(e, NoRow) /\ FlagOK(e, NewRow)
BY LimitsAssumption DEF FlagOK, NoRow, NewRow

LEMMA FlagInit == Init => FlagInv
<1>. SUFFICES ASSUME Init PROVE FlagInv
  OBVIOUS
<1>1. \A r \in Replicas : pass[r].window = {}
  BY FirstPassType DEF Init
<1>. QED
  BY <1>1, NewFlags DEF Init, FlagInv

LEMMA FlagStep == TypeInv /\ DeliveryInv /\ FlagInv /\ [Next]_vars => FlagInv'
<1>. SUFFICES ASSUME TypeInv, DeliveryInv, FlagInv, [Next]_vars PROVE FlagInv'
  OBVIOUS
<1>1. ASSUME NEW e \in Events, Insert(e) \/ Commit(e) \/ Rollback(e) PROVE FlagInv'
  <2>1. \A f \in Events, d \in Dests : delivery'[f][d] \in {delivery[f][d], NewRow, NoRow}
    <3>1. CASE Commit(e)
      BY <3>1 DEF Commit, TypeInv, TypeOK
    <3>2. CASE Insert(e) \/ Rollback(e)
      BY <3>2 DEF Insert, Rollback, tables
    <3>. QED
      BY <1>1, <3>1, <3>2
  <2>2. pass' = pass
    BY <1>1 DEF Insert, Commit, Rollback
  <2>. QED
    BY <2>1, <2>2, NewFlags DEF FlagInv
<1>2. ASSUME NEW r \in Replicas, delivery' = delivery,
             \A q \in Replicas \ {r} : pass'[q] = pass[q],
             pass'[r].window \subseteq pass[r].window
      PROVE  FlagInv'
  BY <1>2 DEF FlagInv
<1>3. ASSUME NEW r \in Replicas, NEW i \in 1..Len(DestOrder), SetPass(r, NewPass(i)),
             delivery' = delivery
      PROVE  FlagInv'
  <2>1. pass'[r].window = {} /\ \A q \in Replicas \ {r} : pass'[q] = pass[q]
    BY <1>3, NewPassType DEF SetPass, TypeInv, TypeOK
  <2>. QED
    BY <1>2, <1>3, <2>1
<1>4. ASSUME NEW r \in Replicas, EndDest(r), delivery' = delivery PROVE FlagInv'
  <2>1. pass[r].dest \in 1..Len(DestOrder) /\ Len(DestOrder) \in Nat /\ 1 \in 1..Len(DestOrder)
    BY PassTypes, DestsAssumption DEF TypeInv, Pass
  <2>2. CASE pass[r].dest < Len(DestOrder)
    <3>1. pass[r].dest + 1 \in 1..Len(DestOrder)
      BY <2>1, <2>2
    <3>. QED
      BY <1>3, <1>4, <2>2, <3>1 DEF EndDest
  <2>. QED
    BY <1>3, <1>4, <2>1, <2>2 DEF EndDest
<1>5. ASSUME NEW r \in Replicas, Query(r) PROVE FlagInv'
  <2>. DEFINE win == FirstRows(Pending(r), BatchSize)
              rows == {[event |-> e, row |-> delivery[e][Dest(r)]] : e \in win}
  <2>1. CASE win = {}
    BY <1>4, <1>5, <2>1 DEF Query, tables
  <2>2. CASE win # {}
    <3>1. \A w \in rows : w.event \in Events /\ FlagOK(w.event, w.row)
      <4>1. win \subseteq Events /\ Dest(r) \in Dests
        BY PassTypes DEF FirstRows, Pending, TypeInv
      <4>. HIDE DEF win
      <4>. QED
        BY <4>1 DEF FlagInv
    <3>2. /\ SetPass(r, [pass[r] EXCEPT !.window = rows, !.full = (Cardinality(win) = BatchSize)])
          /\ delivery' = delivery
      BY <1>5, <2>2 DEF Query, tables
    <3>. HIDE DEF rows, win
    <3>3. pass'[r].window = rows /\ \A q \in Replicas \ {r} : pass'[q] = pass[q]
      BY <3>2, PassTypes DEF SetPass, TypeInv, TypeOK, Pass
    <3>. QED
      BY <3>1, <3>2, <3>3 DEF FlagInv
  <2>. QED
    BY <2>1, <2>2
<1>6. ASSUME NEW r \in Replicas,
             \/ LoadRecords(r) \/ SkipHeld(r) \/ Attempt(r) \/ SelectExpired(r)
             \/ CountOutstanding(r) \/ MarkDelivered(r)
      PROVE  FlagInv'
  <2>1. delivery' = delivery /\ \A q \in Replicas \ {r} : pass'[q] = pass[q]
    BY <1>6 DEF LoadRecords, SkipHeld, Attempt, SelectExpired, CountOutstanding,
       MarkDelivered, SetPass, TypeInv, TypeOK, tables
  <2>2. pass'[r].window \subseteq pass[r].window
    <3>a. pass[r] \in Pass
      BY PassTypes DEF TypeInv
    <3>1. CASE LoadRecords(r)
      BY <3>a, <3>1 DEF LoadRecords, SetPass, TypeInv, TypeOK, Pass
    <3>2. CASE Attempt(r)
      BY <3>a, <3>2 DEF Attempt, SetPass, TypeInv, TypeOK, Pass
    <3>3. CASE SelectExpired(r)
      BY <3>a, <3>3 DEF SelectExpired, SetPass, TypeInv, TypeOK, Pass
    <3>4. CASE SkipHeld(r)
      BY <3>a, <3>4 DEF SkipHeld, Rest, SetPass, TypeInv, TypeOK, Pass
    <3>5. CASE CountOutstanding(r)
      BY <3>a, <3>5 DEF CountOutstanding, Rest, SetPass, TypeInv, TypeOK, Pass
    <3>6. CASE MarkDelivered(r)
      BY <3>a, <3>6 DEF MarkDelivered, Rest, SetPass, TypeInv, TypeOK, Pass
    <3>. QED
      BY <1>6, <3>1, <3>2, <3>3, <3>4, <3>5, <3>6
  <2>. QED
    BY <1>2, <2>1, <2>2
<1>7. ASSUME NEW r \in Replicas,
             \/ TryLock(r) \/ Ping(r) \/ MissingRecord(r) \/ StatementFails(r)
             \/ PurgeFails(r) \/ Crash(r)
      PROVE  FlagInv'
  <2>1. 1 \in 1..Len(DestOrder)
    BY DestsAssumption
  <2>. QED
    BY <1>3, <1>7, <2>1
       DEF TryLock, Ping, MissingRecord, StatementFails, PurgeFails, Crash, tables
<1>8. ASSUME UNCHANGED <<delivery, pass>> PROVE FlagInv'
  BY <1>8 DEF FlagInv
<1>9. ASSUME NEW r \in Replicas,
             DrainTick(r) \/ PublishAcked(r) \/ PublishFailed(r) \/ Restart(r)
      PROVE  FlagInv'
  BY <1>8, <1>9 DEF DrainTick, PublishAcked, PublishFailed, Restart, tables
<1>10. ASSUME NEW r \in Replicas, EndWindow(r) PROVE FlagInv'
  BY <1>4, <1>8, <1>10 DEF EndWindow, tables
<1>11. ASSUME NEW r \in Replicas, SaveAck(r) PROVE FlagInv'
  <2>. DEFINE row == [Del(r).row EXCEPT !.status = "published", !.stuck = FALSE]
  <2>1. Del(r).row \in Row /\ Del(r).event \in Events /\ Dest(r) \in Dests
    BY <1>11, PassTypes DEF SaveAck, TypeInv, HandlesARow, HandlingRow
  <2>2. FlagOK(Del(r).event, row)
    BY <2>1 DEF FlagOK, Row
  <2>3. delivery' = [delivery EXCEPT ![Del(r).event][Dest(r)] = row] /\ pass' = pass
    BY <1>11 DEF SaveAck, Save
  <2>. HIDE DEF row
  <2>4. \A f \in Events, c \in Dests :
            \/ f = Del(r).event /\ delivery'[f][c] = row
            \/ delivery'[f][c] = delivery[f][c]
    BY <2>1, <2>3 DEF TypeInv, TypeOK
  <2>. QED
    BY <2>2, <2>3, <2>4 DEF FlagInv
<1>12. ASSUME NEW r \in Replicas, SaveFailure(r) PROVE FlagInv'
  <2>. DEFINE w == Del(r)
              n == IF w.row.attempts < MaxAttempts THEN w.row.attempts + 1 ELSE MaxAttempts
              row == [w.row EXCEPT !.attempts = n,
                                   !.stuck = @ \/ n >= MaxAttempts \/ w.event \in Unroutable]
  <2>1. /\ w.event \in Events /\ Dest(r) \in Dests /\ w.row \in Row
        /\ w.row.status = "pending" /\ w \in pass[r].window
    BY <1>12, PassTypes DEF SaveFailure, TypeInv, HandlesARow, HandlingRow, DeliveryInv, PassInv
  <2>2. FlagOK(w.event, w.row)
    BY <2>1 DEF FlagInv
  <2>3. n \in 1..MaxAttempts /\ (w.row.attempts = MaxAttempts => n = MaxAttempts)
    BY <2>1, LimitsAssumption DEF Row
  <2>4. FlagOK(w.event, row)
    <3>1. /\ row.status = "pending" /\ row.attempts = n
          /\ row.stuck <=> w.row.stuck \/ n >= MaxAttempts \/ w.event \in Unroutable
      <4>. HIDE DEF n
      <4>. QED
        BY <2>1 DEF Row
    <3>. HIDE DEF row, n
    <3>. QED
      BY <2>1, <2>2, <2>3, <3>1, LimitsAssumption DEF FlagOK
  <2>5. /\ delivery' = [delivery EXCEPT ![w.event][Dest(r)] = row]
        /\ SetPass(r, [pass[r] EXCEPT !.blocked = Block(@, w.event), !.window = Rest(r)])
    BY <1>12 DEF SaveFailure, Save
  <2>. HIDE DEF n, row
  <2>6. \A f \in Events, c \in Dests :
            \/ f = w.event /\ delivery'[f][c] = row
            \/ delivery'[f][c] = delivery[f][c]
    BY <2>1, <2>5 DEF TypeInv, TypeOK
  <2>7. /\ pass'[r].window \subseteq pass[r].window
        /\ \A q \in Replicas \ {r} : pass'[q] = pass[q]
    BY <2>5, PassTypes DEF SetPass, Rest, TypeInv, TypeOK, Pass
  <2>. QED
    BY <2>4, <2>6, <2>7 DEF FlagInv
<1>13. ASSUME NEW r \in Replicas, Purge(r) PROVE FlagInv'
  <2>1. \A f \in Events, c \in Dests : delivery'[f][c] \in {delivery[f][c], NoRow}
    BY <1>13 DEF Purge
  <2>2. pass'[r].window = {} /\ \A q \in Replicas \ {r} : pass'[q] = pass[q]
    BY <1>13, FirstPassType DEF Purge, SetPass, TypeInv, TypeOK
  <2>. QED
    BY <2>1, <2>2, NewFlags DEF FlagInv
<1>14. CASE LoseSession \/ UNCHANGED vars
  BY <1>8, <1>14 DEF LoseSession, vars, tables
<1>. QED
  BY <1>1, <1>5, <1>6, <1>7, <1>9, <1>10, <1>11, <1>12, <1>13, <1>14 DEF Next, Step

\* While sessions die only with their holders, the stuck flag is set on exactly the
\* deliveries that need a person, and the totals miss none of their events.
THEOREM StuckFlagIsExact ==
    ASSUME ~SessionLoss
    PROVE  Spec => []StuckMeansFailing
<1>1. TypeInv /\ FreshInv /\ FlagInv => StuckMeansFailing
  <2>. SUFFICES ASSUME TypeInv, FreshInv, FlagInv PROVE StuckMeansFailing
    OBVIOUS
  <2>1. ASSUME NEW e \in Events, NEW d \in Dests, delivery[e][d].stuck
        PROVE  record[e] # "absent" /\ record[e] # "delivered"
    <3>1. delivery[e][d].status = "pending"
      BY <2>1 DEF FlagInv, FlagOK
    <3>. QED
      BY <3>1 DEF FreshInv, DeliveredMeansPublished, Recorded
  <2>. DEFINE rows == {e \in Events : record[e] # "absent"}
              stuck == {e \in rows : /\ record[e] # "delivered"
                                     /\ \E d \in Dests : delivery[e][d].stuck}
  <2>2. stuck = {e \in Events : \E d \in Dests : delivery[e][d].stuck}
    BY <2>1
  <2>3. StateTotals.stuck = Cardinality(stuck)
    BY DEF StateTotals
  <2>. QED
    BY <2>2, <2>3 DEF StuckMeansFailing, FlagInv, FlagOK
<1>2. Spec => []FlagInv
  BY FlagInit, FlagStep, TypeInvariant, DeliveryInvariant, PTL DEF Spec
<1>. QED
  BY <1>1, <1>2, FreshInvariant, PTL

-----------------------------------------------------------------------------
(* Per-subject order, for producers whose transactions do not overlap.     *)

\* Ids are given in the order of the commits.
SerialInv ==
    /\ IsFiniteSet({e \in Events : tx[e] # "none"})
    /\ \A e \in Events : tx[e] # "none" => 0 < outboxId[e] /\ outboxId[e] < nextId
    /\ \A e, f \in Events : tx[e] = "open" /\ tx[f] = "open" => e = f
    /\ \A e, f \in Events : tx[e] = "open" /\ tx[f] = "committed" => outboxId[f] < outboxId[e]
    /\ \A e, f \in Events : tx[e] = "committed" /\ tx[f] = "committed"
                              /\ outboxId[e] = outboxId[f] => e = f

\* An event the destination of r's pass must have before later ones of the subject; it
\* is dealt with when it is there or its subject is held, and under way while r works
\* on it.
Owed(r, e) == tx[e] = "committed" /\ Dest(r) \in Accepts[e] /\ SubjectOf[e] # NoSubject
Dealt(r, e) == e \in received[Dest(r)] \/ SubjectOf[e] \in pass[r].blocked
Trying(r, e) == pc[r] \in {"publish", "saveFailure"} /\ Del(r).event = e
InWindow(r, e) == \E v \in pass[r].window : v.event = e

\* Everything up to the pass's cursor is dealt with or under way, everything before a row of its
\* window is dealt with or in the window, and what it publishes is not held.
GapPass(r) ==
    /\ pass[r].cursor < nextId
    /\ \A e \in Events : tx[e] = "open" => pass[r].cursor < outboxId[e]
    /\ \A e \in Events : Owed(r, e) /\ outboxId[e] <= pass[r].cursor
                           => Dealt(r, e) \/ Trying(r, e)
    /\ \A w \in pass[r].window : \A e \in Events :
           Owed(r, e) /\ outboxId[e] < outboxId[w.event] => Dealt(r, e) \/ InWindow(r, e)
    /\ pc[r] = "publish" => ~Held(r, Del(r).event)

OrderInv == SerialInv /\ NoGap /\ \A r \in Replicas : GapPass(r)

LEMMA SerialInit == Init => SerialInv
<1>. SUFFICES ASSUME Init PROVE SerialInv
  OBVIOUS
<1>1. {e \in Events : tx[e] # "none"} = {}
  BY DEF Init
<1>. QED
  BY <1>1, FS_EmptySet DEF Init, SerialInv

LEMMA SerialStep ==
    ASSUME SerialWriters
    PROVE  TypeInv /\ SerialInv /\ [Next]_vars => SerialInv'
<1>. SUFFICES ASSUME TypeInv, SerialInv, [Next]_vars PROVE SerialInv'
  OBVIOUS
<1>. DEFINE begun == {e \in Events : tx[e] # "none"}
<1>1. ASSUME NEW e \in Events, Insert(e) PROVE SerialInv'
  <2>1. /\ tx[e] = "none" /\ \A f \in Events : tx[f] # "open"
        /\ tx' = [tx EXCEPT ![e] = "open"] /\ outboxId' = [outboxId EXCEPT ![e] = nextId]
        /\ nextId' = nextId + 1 /\ nextId \in Nat \ {0}
    BY <1>1 DEF Insert, TypeInv, TypeOK
  <2>2. begun' = begun \cup {e}
    BY <2>1 DEF TypeInv, TypeOK
  <2>3. IsFiniteSet(begun')
    BY <2>2, FS_AddElement DEF SerialInv
  <2>4. \A f \in Events \ {e} : tx'[f] = tx[f] /\ outboxId'[f] = outboxId[f]
    BY <2>1 DEF TypeInv, TypeOK
  <2>5. tx'[e] = "open" /\ outboxId'[e] = nextId /\ \A f \in Events : outboxId[f] \in Nat
    BY <2>1 DEF TypeInv, TypeOK
  <2>. QED
    BY <2>1, <2>3, <2>4, <2>5 DEF SerialInv
<1>2. ASSUME NEW e \in Events, Commit(e) \/ Rollback(e) PROVE SerialInv'
  <2>1. /\ tx[e] = "open" /\ tx'[e] \in {"committed", "rolledback"}
        /\ \A f \in Events \ {e} : tx'[f] = tx[f]
        /\ UNCHANGED <<nextId, outboxId>>
        /\ \A f \in Events : outboxId[f] \in Nat
    BY <1>2 DEF Commit, Rollback, TypeInv, TypeOK
  <2>2. begun' = begun
    BY <2>1
  <2>3. IsFiniteSet(begun')
    BY <2>2 DEF SerialInv
  <2>. HIDE DEF begun
  <2>4. \A f \in Events : tx'[f] # "none" => 0 < outboxId'[f] /\ outboxId'[f] < nextId'
    BY <2>1 DEF SerialInv
  <2>5. \A f, g \in Events : tx'[f] = "open" /\ tx'[g] = "open" => f = g
    BY <2>1 DEF SerialInv
  <2>6. \A f \in Events : tx'[f] = "open" => tx[f] = "open" /\ f # e
    BY <2>1
  <2>7. \A f, g \in Events : tx'[f] = "open" /\ tx'[g] = "committed" => outboxId'[g] < outboxId'[f]
    BY <2>1, <2>6 DEF SerialInv
  <2>8. \A f, g \in Events : tx'[f] = "committed" /\ tx'[g] = "committed"
                                /\ outboxId'[f] = outboxId'[g] => f = g
    <3>1. SUFFICES ASSUME NEW f \in Events, NEW g \in Events, tx'[f] = "committed",
                          tx'[g] = "committed", outboxId'[f] = outboxId'[g]
                   PROVE  f = g
      OBVIOUS
    <3>2. CASE f = e \/ g = e
      BY <2>1, <3>1, <3>2 DEF SerialInv
    <3>3. CASE f # e /\ g # e
      BY <2>1, <3>1, <3>3 DEF SerialInv
    <3>. QED
      BY <3>2, <3>3
  <2>. QED
    BY <2>3, <2>4, <2>5, <2>7, <2>8 DEF SerialInv, begun
<1>3. CASE UNCHANGED producers
  BY <1>3 DEF SerialInv, producers
<1>4. ASSUME ~\E e \in Events : Insert(e) \/ Commit(e) \/ Rollback(e) PROVE UNCHANGED producers
  <2>1. ASSUME NEW r \in Replicas, Step(r) PROVE UNCHANGED producers
    <3>1. CASE \/ TryLock(r) \/ Ping(r) \/ Query(r) \/ LoadRecords(r) \/ EndWindow(r)
              \/ SkipHeld(r) \/ MissingRecord(r) \/ Attempt(r)
      BY <3>1 DEF TryLock, Ping, Query, LoadRecords, EndWindow, SkipHeld, MissingRecord, Attempt
    <3>2. CASE \/ PublishAcked(r) \/ PublishFailed(r) \/ SaveAck(r) \/ SaveFailure(r)
              \/ CountOutstanding(r) \/ MarkDelivered(r)
      BY <3>2 DEF PublishAcked, PublishFailed, SaveAck, SaveFailure, CountOutstanding, MarkDelivered
    <3>3. CASE DrainTick(r) \/ SelectExpired(r) \/ Purge(r)
      BY <3>3 DEF DrainTick, SelectExpired, Purge
    <3>. QED
      BY <2>1, <3>1, <3>2, <3>3 DEF Step
  <2>2. ASSUME NEW r \in Replicas, StatementFails(r) \/ PurgeFails(r) \/ Crash(r) \/ Restart(r)
        PROVE  UNCHANGED producers
    BY <2>2 DEF StatementFails, PurgeFails, Crash, Restart
  <2>3. CASE LoseSession \/ UNCHANGED vars
    BY <2>3 DEF LoseSession, vars, producers
  <2>. QED
    BY <1>4, <2>1, <2>2, <2>3 DEF Next
<1>. QED
  BY <1>1, <1>2, <1>3, <1>4

\* A step of another process: commits come after everything a pass has seen.
LEMMA GapKept ==
    ASSUME TypeInv, DeliveryInv, SerialInv, NEW q \in Replicas, GapPass(q), Onward,
           pass'[q] = pass[q], pc'[q] = pc[q],
           \/ UNCHANGED producers
           \/ \E e \in Events : Insert(e) \/ Commit(e) \/ Rollback(e)
    PROVE  GapPass(q)'
<1>. USE DEF TypeInv
<1>1. pass[q].window \subseteq WindowRow /\ pass[q].cursor \in Nat /\ Dest(q) \in Dests
  BY PassTypes DEF Pass
<1>2. \A w \in pass[q].window : /\ w.event \in Events /\ tx[w.event] = "committed"
                                /\ outboxId'[w.event] = outboxId[w.event]
  BY <1>1 DEF PassInv, DeliveryInv, Onward, WindowRow
<1>3. Del(q)' = Del(q) /\ Dest(q)' = Dest(q)
  BY <1>2 DEF Del, Dest
<1>4. \A e \in Events : /\ Dealt(q, e) => Dealt(q, e)'
                        /\ Trying(q, e) => Trying(q, e)'
                        /\ InWindow(q, e) => InWindow(q, e)'
  BY <1>1, <1>3 DEF Dealt, Trying, InWindow, Onward
<1>5. /\ nextId <= nextId' /\ nextId' \in Nat /\ outboxId' \in [Events -> Nat]
      /\ \A e \in Events : tx'[e] = "open" => pass[q].cursor < outboxId'[e]
  <2>1. CASE UNCHANGED producers
    BY <2>1 DEF GapPass, TypeOK, producers
  <2>2. ASSUME NEW e \in Events, Insert(e)
        PROVE  /\ nextId' = nextId + 1 /\ outboxId' \in [Events -> Nat]
               /\ \A f \in Events : tx'[f] = "open" => pass[q].cursor < outboxId'[f]
    BY <2>2, <1>1 DEF Insert, GapPass, TypeOK
  <2>3. ASSUME NEW e \in Events, Commit(e) \/ Rollback(e)
        PROVE  /\ nextId' = nextId /\ outboxId' \in [Events -> Nat]
               /\ \A f \in Events : tx'[f] = "open" => pass[q].cursor < outboxId'[f]
    BY <2>3 DEF Commit, Rollback, GapPass, TypeOK
  <2>. QED
    BY <2>1, <2>2, <2>3 DEF TypeOK
\* Of the events it newly owes, each is after its cursor and its window.
<1>6. ASSUME NEW e \in Events, Owed(q, e)', ~Owed(q, e)
      PROVE  /\ pass[q].cursor < outboxId'[e]
             /\ \A w \in pass[q].window : outboxId[w.event] < outboxId'[e]
  <2>1. tx'[e] = "committed" /\ tx[e] # "committed"
    BY <1>3, <1>6 DEF Owed
  <2>2. Commit(e)
    <3>1. ASSUME NEW f \in Events, Insert(f) \/ Commit(f) \/ Rollback(f) PROVE Commit(e)
      BY <2>1, <3>1 DEF Insert, Commit, Rollback, TypeOK
    <3>. QED
      BY <2>1, <3>1 DEF producers
  <2>3. tx[e] = "open" /\ outboxId' = outboxId
    BY <2>2 DEF Commit
  <2>. QED
    BY <1>2, <2>3 DEF GapPass, SerialInv
<1>7. \A e \in Events : Owed(q, e) => outboxId'[e] = outboxId[e]
  BY DEF Owed, Onward
<1>a. \A e \in Events : outboxId'[e] \in Nat /\ outboxId[e] \in Nat
  BY <1>5 DEF TypeOK
<1>8. ASSUME NEW e \in Events, Owed(q, e)', outboxId'[e] <= pass[q].cursor
      PROVE  Dealt(q, e)' \/ Trying(q, e)'
  <2>1. CASE Owed(q, e)
    <3>1. Dealt(q, e) \/ Trying(q, e)
      BY <1>7, <1>8, <2>1 DEF GapPass
    <3>. QED
      BY <1>4, <3>1
  <2>2. CASE ~Owed(q, e)
    BY <1>1, <1>6, <1>8, <1>a, <2>2
  <2>. QED
    BY <2>1, <2>2
<1>9. ASSUME NEW w \in pass[q].window, NEW e \in Events,
             Owed(q, e)', outboxId'[e] < outboxId'[w.event]
      PROVE  Dealt(q, e)' \/ InWindow(q, e)'
  <2>1. CASE Owed(q, e)
    <3>1. Dealt(q, e) \/ InWindow(q, e)
      BY <1>2, <1>7, <1>9, <2>1 DEF GapPass
    <3>. QED
      BY <1>4, <3>1
  <2>2. CASE ~Owed(q, e)
    <3>1. outboxId[w.event] < outboxId'[e] /\ outboxId'[w.event] = outboxId[w.event]
      BY <2>2, <1>2, <1>6, <1>9
    <3>. QED
      BY <3>1, <1>2, <1>9, <1>a
  <2>. QED
    BY <2>1, <2>2
<1>10. pc'[q] = "publish" => ~Held(q, Del(q).event)'
  BY <1>3 DEF GapPass, Held
<1>11. /\ pass'[q].cursor < nextId'
       /\ \A e \in Events : tx'[e] = "open" => pass'[q].cursor < outboxId'[e]
  <2>1. pass[q].cursor < nextId /\ nextId \in Nat /\ nextId' \in Nat
    BY <1>5 DEF GapPass, TypeOK
  <2>. QED
    BY <1>1, <1>5, <2>1
<1>12. \A w \in pass'[q].window : \A e \in Events :
          Owed(q, e)' /\ outboxId'[e] < outboxId'[w.event] => Dealt(q, e)' \/ InWindow(q, e)'
  BY <1>9
<1>13. \A e \in Events : Owed(q, e)' /\ outboxId'[e] <= pass'[q].cursor
                        => Dealt(q, e)' \/ Trying(q, e)'
  BY <1>8
<1>. QED
  BY <1>10, <1>11, <1>12, <1>13 DEF GapPass

\* A step that starts a pass over, or ends one.
LEMMA GapReset ==
    ASSUME TypeInv, SerialInv, NEW r \in Replicas, UNCHANGED producers,
           pass'[r].cursor = 0, pass'[r].window = {}, pc'[r] # "publish"
    PROVE  GapPass(r)'
<1>1. /\ 0 < nextId
      /\ \A e \in Events : tx[e] # "none" => 0 < outboxId[e]
      /\ \A e \in Events : outboxId[e] \in Nat
  BY DEF SerialInv, TypeInv, TypeOK
<1>2. UNCHANGED <<nextId, tx, outboxId>>
  BY DEF producers
<1>3. \A e \in Events : ~(Owed(r, e)' /\ outboxId'[e] <= pass'[r].cursor)
  <2>. SUFFICES ASSUME NEW e \in Events, Owed(r, e)', outboxId'[e] <= pass'[r].cursor PROVE FALSE
    OBVIOUS
  <2>1. tx[e] = "committed"
    BY <1>2 DEF Owed
  <2>. QED
    BY <1>1, <1>2, <2>1
<1>. QED
  BY <1>1, <1>2, <1>3 DEF GapPass

\* A step of r behind the same cursor that drops only what is dealt with.
LEMMA GapShrinks ==
    ASSUME TypeInv, NEW r \in Replicas, GapPass(r), UNCHANGED producers,
           \A d \in Dests : received[d] \subseteq received'[d],
           pass'[r].cursor = pass[r].cursor, pass'[r].dest = pass[r].dest,
           pass'[r].window \subseteq pass[r].window,
           pass[r].blocked \subseteq pass'[r].blocked, pc'[r] # "publish",
           \A e \in Events : Owed(r, e) /\ InWindow(r, e) => InWindow(r, e)' \/ Dealt(r, e)',
           \A e \in Events : Owed(r, e) /\ Trying(r, e) => Trying(r, e)' \/ Dealt(r, e)'
    PROVE  GapPass(r)'
<1>1. Dest(r)' = Dest(r) /\ Dest(r) \in Dests /\ UNCHANGED <<nextId, tx, outboxId>>
  BY PassTypes DEF Dest, producers, TypeInv
<1>2. \A e \in Events : (Owed(r, e)' => Owed(r, e)) /\ (Dealt(r, e) => Dealt(r, e)')
  BY <1>1 DEF Owed, Dealt
<1>3. /\ pass'[r].cursor < nextId'
      /\ \A e \in Events : tx'[e] = "open" => pass'[r].cursor < outboxId'[e]
  BY <1>1 DEF GapPass
<1>4. \A e \in Events : Owed(r, e)' /\ outboxId'[e] <= pass'[r].cursor
                            => Dealt(r, e)' \/ Trying(r, e)'
  BY <1>1, <1>2 DEF GapPass
<1>5. \A w \in pass'[r].window : \A e \in Events :
          Owed(r, e)' /\ outboxId'[e] < outboxId'[w.event] => Dealt(r, e)' \/ InWindow(r, e)'
  BY <1>1, <1>2 DEF GapPass
<1>. QED
  BY <1>3, <1>4, <1>5 DEF GapPass

\* Before the row a pass is at, everything is dealt with.
LEMMA BeforeTheRow ==
    ASSUME TypeInv, DeliveryInv, SerialInv, NEW r \in Replicas, GapPass(r),
           pass[r].window # {}
    PROVE  /\ Del(r).event \in Events /\ tx[Del(r).event] = "committed"
           /\ Dest(r) \in Accepts[Del(r).event]
           /\ \A e \in Events : Owed(r, e) /\ outboxId[e] < outboxId[Del(r).event]
                                    => Dealt(r, e)
           /\ \A e \in Events : Owed(r, e) /\ outboxId[e] = outboxId[Del(r).event]
                                    => e = Del(r).event
<1>1. /\ Del(r) \in pass[r].window /\ Del(r).event \in Events
      /\ \A v \in pass[r].window : outboxId[Del(r).event] <= outboxId[v.event]
  BY DelInWindow, PassTypes DEF TypeInv
<1>2. tx[Del(r).event] = "committed" /\ Dest(r) \in Accepts[Del(r).event]
  BY <1>1 DEF DeliveryInv, PassInv
<1>3. \A e \in Events : outboxId[e] \in Nat
  BY DEF TypeInv, TypeOK
<1>4. \A e \in Events : Owed(r, e) /\ outboxId[e] < outboxId[Del(r).event] => Dealt(r, e)
  BY <1>1, <1>3 DEF GapPass, InWindow
<1>5. \A e \in Events : Owed(r, e) /\ outboxId[e] = outboxId[Del(r).event]
                            => e = Del(r).event
  BY <1>1, <1>2 DEF SerialInv, Owed
<1>. QED
  BY <1>1, <1>2, <1>4, <1>5

\* A step that moves the cursor to the row the pass is at.
LEMMA GapAdvances ==
    ASSUME TypeInv, DeliveryInv, SerialInv, NEW r \in Replicas, GapPass(r), pass[r].window # {},
           UNCHANGED <<producers, received>>,
           pass'[r].cursor = outboxId[Del(r).event],
           pass'[r].dest = pass[r].dest, pass'[r].blocked = pass[r].blocked,
           \/ /\ Held(r, Del(r).event) /\ pass'[r].window = Rest(r) /\ pc'[r] # "publish"
           \/ /\ ~Held(r, Del(r).event) /\ pass'[r].window = pass[r].window
              /\ pc'[r] \in {"publish", "saveFailure"}
    PROVE  GapPass(r)'
<1>0. PICK del \in Events : del = Del(r).event
  BY BeforeTheRow
<1>1. /\ del \in Events /\ tx[del] = "committed"
      /\ \A e \in Events : Owed(r, e) /\ outboxId[e] < outboxId[del] => Dealt(r, e)
      /\ \A e \in Events : Owed(r, e) /\ outboxId[e] = outboxId[del] => e = del
  BY <1>0, BeforeTheRow
<1>2. Dest(r)' = Dest(r) /\ UNCHANGED <<nextId, tx, outboxId>>
  BY DEF Dest, producers
<1>3. \A e \in Events : /\ outboxId[e] \in Nat
                        /\ Owed(r, e)' <=> Owed(r, e)
                        /\ Dealt(r, e)' <=> Dealt(r, e)
  BY <1>2 DEF Owed, Dealt, TypeInv, TypeOK
<1>4. /\ outboxId[del] < nextId
      /\ \A e \in Events : tx[e] = "open" => outboxId[del] < outboxId[e]
  BY <1>1 DEF SerialInv
<1>5. Dealt(r, del)' \/ Trying(r, del)'
  <2>1. CASE Held(r, del)
    BY <2>1, <1>3 DEF Held, Dealt
  <2>2. CASE ~Held(r, del)
    <3>1. Del(r)' = Del(r)
      <4>1. pass'[r].window = pass[r].window
        BY <2>2, <1>0
      <4>. QED
        BY <4>1, <1>2 DEF Del
    <3>. QED
      BY <2>2, <3>1, <1>0 DEF Trying
  <2>. QED
    BY <2>1, <2>2
<1>6. \A e \in Events : Owed(r, e) /\ outboxId[e] <= outboxId[del] => Dealt(r, e) \/ e = del
  BY <1>1, <1>3
<1>7. \A e \in Events : Owed(r, e)' /\ outboxId'[e] <= pass'[r].cursor
                            => Dealt(r, e)' \/ Trying(r, e)'
  BY <1>0, <1>2, <1>3, <1>5, <1>6
<1>8. \A w \in pass'[r].window : \A e \in Events :
          Owed(r, e)' /\ outboxId'[e] < outboxId'[w.event] => Dealt(r, e)' \/ InWindow(r, e)'
  <2>. SUFFICES ASSUME NEW w \in pass'[r].window, NEW e \in Events,
                       Owed(r, e)', outboxId'[e] < outboxId'[w.event]
                PROVE  Dealt(r, e)' \/ InWindow(r, e)'
    OBVIOUS
  <2>1. w \in pass[r].window
    BY DEF Rest
  <2>2. Dealt(r, e) \/ InWindow(r, e)
    BY <2>1, <1>2, <1>3 DEF GapPass
  <2>3. ASSUME NEW v \in pass[r].window, v.event = e PROVE Dealt(r, e)' \/ InWindow(r, e)'
    <3>1. CASE v \in pass'[r].window
      BY <3>1, <2>3 DEF InWindow
    <3>2. CASE v \notin pass'[r].window
      BY <3>2, <2>3, <1>3 DEF Rest, Held, Dealt
    <3>. QED
      BY <3>1, <3>2
  <2>. QED
    BY <1>3, <2>2, <2>3 DEF InWindow
<1>9. pc'[r] = "publish" => ~Held(r, Del(r).event)'
  <2>1. pc'[r] = "publish" => Del(r)' = Del(r)
    BY <1>2 DEF Del
  <2>. QED
    BY <2>1 DEF Held
<1>. QED
  BY <1>0, <1>2, <1>4, <1>7, <1>8, <1>9 DEF GapPass

\* The window query: what is owed and not yet there is pending, and what is
\* pending, not held and before a row it returns is returned too.
LEMMA GapQueries ==
    ASSUME TypeInv, DeliveryInv, SerialInv, NEW r \in Replicas, GapPass(r), Query(r),
           FirstRows(Pending(r), BatchSize) # {}
    PROVE  GapPass(r)'
<1>. DEFINE S == Pending(r)
            win == FirstRows(S, BatchSize)
            rows == {[event |-> e, row |-> delivery[e][Dest(r)]] : e \in win}
<1>1. /\ pass' = [pass EXCEPT ![r] = [pass[r] EXCEPT
                      !.window = rows, !.full = (Cardinality(win) = BatchSize)]]
      /\ pc' = [pc EXCEPT ![r] = "load"] /\ pc[r] = "query"
      /\ UNCHANGED <<nextId, tx, outboxId, received>>
  BY DEF Query, SetPass, Goto, producers
<1>2. S \subseteq Events /\ win \subseteq S /\ \A e \in Events : outboxId[e] \in Nat
  BY DEF Pending, FirstRows, TypeInv, TypeOK
<1>3. IsFiniteSet(S)
  <2>1. S \subseteq {e \in Events : tx[e] # "none"}
    BY <1>2, PassTypes DEF Pending, DeliveryInv, RowsOfCommitted, TypeInv
  <2>. QED
    BY <2>1, FS_Subset DEF SerialInv
<1>4. \A e \in S, f \in win : outboxId[e] < outboxId[f] => e \in win
  <2>. SUFFICES ASSUME NEW e \in S, NEW f \in win, outboxId[e] < outboxId[f] PROVE e \in win
    OBVIOUS
  <2>. DEFINE A == {g \in S : outboxId[g] < outboxId[e]}
              B == {g \in S : outboxId[g] < outboxId[f]}
  <2>1. A \subseteq B
    BY <1>2
  <2>2. IsFiniteSet(B) /\ Cardinality(B) < BatchSize
    BY <1>3, FS_Subset DEF FirstRows
  <2>3. Cardinality(A) <= Cardinality(B) /\ Cardinality(A) \in Nat /\ Cardinality(B) \in Nat
    BY <2>1, <2>2, FS_Subset, FS_CardinalityType
  <2>4. Cardinality(A) < BatchSize
    BY <2>2, <2>3, LimitsAssumption
  <2>. QED
    BY <2>4 DEF FirstRows
<1>5. \A e \in Events : Owed(r, e) /\ outboxId[e] > pass[r].cursor => Dealt(r, e) \/ e \in S
  BY PassTypes DEF Owed, Dealt, Pending, Held, DeliveryInv, AtLeastOnce, TypeInv
<1>6. \A e \in Events : Owed(r, e) /\ outboxId[e] <= pass[r].cursor => Dealt(r, e)
  BY <1>1 DEF GapPass, Trying
<1>7. pass[r].cursor \in Nat
  BY PassTypes DEF Pass, TypeInv
<1>8. \A f \in win : \A e \in Events :
          Owed(r, e) /\ outboxId[e] < outboxId[f] => Dealt(r, e) \/ e \in win
  BY <1>2, <1>4, <1>5, <1>6, <1>7
<1>. HIDE DEF S
<1>9. \A w \in rows : w.event \in win
  OBVIOUS
<1>10. \A e \in win : \E w \in rows : w.event = e
  <2>. SUFFICES ASSUME NEW e \in win PROVE \E w \in rows : w.event = e
    OBVIOUS
  <2>. WITNESS [event |-> e, row |-> delivery[e][Dest(r)]] \in rows
  <2>. QED
    OBVIOUS
<1>. HIDE DEF rows, win
<1>11. /\ pass'[r].window = rows /\ pass'[r].dest = pass[r].dest
       /\ pass'[r].cursor = pass[r].cursor /\ pass'[r].blocked = pass[r].blocked
       /\ pc'[r] = "load"
  BY <1>1 DEF TypeInv, TypeOK, Pass
<1>12. Dest(r)' = Dest(r)
  BY <1>11 DEF Dest
<1>13. \A e \in Events : /\ Owed(r, e)' <=> Owed(r, e)
                         /\ Dealt(r, e)' <=> Dealt(r, e)
                         /\ e \in win => InWindow(r, e)'
  BY <1>1, <1>10, <1>11, <1>12 DEF Owed, Dealt, InWindow
<1>14. \A w \in pass'[r].window : \A e \in Events :
           Owed(r, e)' /\ outboxId'[e] < outboxId'[w.event] => Dealt(r, e)' \/ InWindow(r, e)'
  BY <1>1, <1>8, <1>9, <1>11, <1>13
<1>15. \A e \in Events : Owed(r, e)' /\ outboxId'[e] <= pass'[r].cursor => Dealt(r, e)'
  BY <1>1, <1>6, <1>11, <1>13
<1>16. /\ pass'[r].cursor < nextId'
       /\ \A e \in Events : tx'[e] = "open" => pass'[r].cursor < outboxId'[e]
  BY <1>1, <1>11 DEF GapPass
<1>. QED
  BY <1>11, <1>14, <1>15, <1>16 DEF GapPass

\* A publish adds an event before which nothing of its subject is missing.
LEMMA PublishesInOrder ==
    ASSUME TypeInv, DeliveryInv, SerialInv, NoGap, NEW r \in Replicas, GapPass(r),
           pc[r] = "publish", UNCHANGED producers, Receive(Dest(r), Del(r).event)
    PROVE  NoGap'
<1>1. pass[r].window # {} /\ Dest(r) \in Dests
  BY PassTypes DEF TypeInv, HandlesARow, HandlingRow
<1>2. /\ Del(r).event \in Events /\ ~Held(r, Del(r).event)
      /\ \A e \in Events : Owed(r, e) /\ outboxId[e] < outboxId[Del(r).event] => Dealt(r, e)
  BY <1>1, BeforeTheRow DEF GapPass
<1>3. /\ UNCHANGED <<tx, outboxId>>
      /\ \A d \in Dests : received'[d] =
             IF d = Dest(r) THEN received[d] \cup {Del(r).event} ELSE received[d]
  BY <1>1 DEF producers, Receive, TypeInv, TypeOK
<1>. SUFFICES ASSUME NEW d \in Dests, NEW f \in received'[d], NEW e \in Events,
                     tx[e] = "committed", d \in Accepts[e], SubjectOf[e] = SubjectOf[f],
                     SubjectOf[e] # NoSubject, outboxId[e] < outboxId[f]
              PROVE  e \in received'[d]
  BY <1>3 DEF NoGap
<1>4. CASE f \in received[d]
  BY <1>3, <1>4 DEF NoGap
<1>5. CASE f \notin received[d]
  <2>1. d = Dest(r) /\ f = Del(r).event
    BY <1>3, <1>5
  <2>2. Dealt(r, e)
    BY <2>1, <1>2 DEF Owed
  <2>. QED
    BY <2>1, <2>2, <1>2, <1>3 DEF Dealt, Held
<1>. QED
  BY <1>4, <1>5

LEMMA GapEndsDest ==
    ASSUME TypeInv, SerialInv, NEW r \in Replicas, EndDest(r), UNCHANGED producers
    PROVE  GapPass(r)'
<1>1. /\ pass'[r] = NewPass(IF pass[r].dest < Len(DestOrder) THEN pass[r].dest + 1 ELSE 1)
      /\ pc'[r] \in {"query", "select"}
  BY DEF EndDest, SetPass, Goto, TypeInv, TypeOK
<1>. QED
  BY <1>1, GapReset DEF NewPass

\* The steps that work on the row a pass is at, or on none.
LEMMA GapWorks ==
    ASSUME TypeInv, DeliveryInv, SerialInv, NEW r \in Replicas, GapPass(r), UNCHANGED producers,
           \/ LoadRecords(r) \/ PublishAcked(r) \/ PublishFailed(r) \/ SaveAck(r)
           \/ SaveFailure(r) \/ CountOutstanding(r) \/ MarkDelivered(r) \/ DrainTick(r)
           \/ SelectExpired(r) \/ Restart(r)
    PROVE  GapPass(r)'
<1>a. /\ Dest(r) \in Dests /\ pass[r] \in Pass /\ pass \in [Replicas -> Pass]
      /\ pc \in [Replicas -> Statements \cup {"down", "standby"}]
  BY PassTypes DEF TypeInv, TypeOK
<1>b. UNCHANGED outboxId
  BY DEF producers
<1>1. CASE LoadRecords(r) \/ DrainTick(r) \/ SelectExpired(r) \/ Restart(r)
  <2>1. /\ pass'[r].window = pass[r].window /\ pass'[r].cursor = pass[r].cursor
        /\ pass'[r].dest = pass[r].dest /\ pass'[r].blocked = pass[r].blocked
        /\ pc'[r] # "publish" /\ pc[r] \notin {"publish", "saveFailure"}
        /\ UNCHANGED received
    <3>1. CASE LoadRecords(r)
      BY <3>1, <1>a DEF LoadRecords, SetPass, Goto, Pass
    <3>2. CASE DrainTick(r) \/ Restart(r)
      BY <3>2, <1>a DEF DrainTick, Restart, Goto
    <3>3. CASE SelectExpired(r)
      <4>1. PICK ids \in SUBSET MayBeExpired : SetPass(r, [pass[r] EXCEPT !.expired = ids])
        BY <3>3 DEF SelectExpired
      <4>. QED
        BY <3>3, <4>1, <1>a DEF SelectExpired, SetPass, Goto, Pass
    <3>. QED
      BY <1>1, <3>1, <3>2, <3>3
  <2>. QED
    BY <2>1, GapShrinks DEF InWindow, Trying
<1>2. CASE PublishAcked(r) \/ PublishFailed(r)
  <2>1. /\ UNCHANGED pass /\ pc[r] = "publish" /\ Del(r)' = Del(r) /\ Dest(r)' = Dest(r)
        /\ \/ pc'[r] = "saveFailure"
           \/ pc'[r] = "saveAck" /\ Receive(Dest(r), Del(r).event)
        /\ UNCHANGED received \/ Receive(Dest(r), Del(r).event)
    BY <1>2, <1>a, <1>b DEF PublishAcked, PublishFailed, Goto, Del, Dest
  <2>2. /\ \A d \in Dests : received[d] \subseteq received'[d]
        /\ Receive(Dest(r), Del(r).event) => Del(r).event \in received'[Dest(r)]
    BY <2>1, <1>a DEF Receive, TypeInv, TypeOK
  <2>3. \A e \in Events : Trying(r, e) => Trying(r, e)' \/ Dealt(r, e)'
    BY <2>1, <2>2 DEF Trying, Dealt
  <2>4. \A e \in Events : InWindow(r, e) => InWindow(r, e)'
    BY <2>1 DEF InWindow
  <2>5. /\ pass'[r].cursor = pass[r].cursor /\ pass'[r].dest = pass[r].dest
        /\ pass'[r].window \subseteq pass[r].window /\ pass[r].blocked \subseteq pass'[r].blocked
        /\ pc'[r] # "publish" /\ \A d \in Dests : received[d] \subseteq received'[d]
    BY <2>1, <2>2
  <2>6. \A e \in Events : Owed(r, e) /\ Trying(r, e) => Trying(r, e)' \/ Dealt(r, e)'
    BY <2>3
  <2>7. \A e \in Events : Owed(r, e) /\ InWindow(r, e) => InWindow(r, e)' \/ Dealt(r, e)'
    BY <2>4
  <2>. QED
    BY <2>5, <2>6, <2>7, GapShrinks
<1>3. CASE SaveAck(r)
  <2>1. /\ UNCHANGED <<pass, received>> /\ pc[r] = "saveAck" /\ pc'[r] = "count"
    BY <1>3, <1>a DEF SaveAck, Goto
  <2>. QED
    BY <2>1, GapShrinks DEF InWindow, Trying
<1>4. CASE SaveFailure(r) \/ CountOutstanding(r) \/ MarkDelivered(r)
  <2>0. PICK w \in pass[r].window : w = Del(r) /\ w.event \in Events
    BY <1>4, PassTypes DEF SaveFailure, CountOutstanding, MarkDelivered, TypeInv, HandlesARow, HandlingRow
  <2>1. /\ pass'[r].cursor = pass[r].cursor /\ pass'[r].dest = pass[r].dest
        /\ pass'[r].window \in {pass[r].window, pass[r].window \ {w}}
        /\ UNCHANGED received /\ pc'[r] # "publish" /\ pc[r] \in HandlingRow \ {"publish"}
        /\ pc[r] = "saveFailure" =>
               pass'[r].blocked = pass[r].blocked \cup ({SubjectOf[w.event]} \cap Subjects)
        /\ pc[r] # "saveFailure" => pass'[r].blocked = pass[r].blocked
        /\ pc[r] # "saveFailure" =>
               pc[r] = "count" \/ pc[r] = "mark"
    <3>1. CASE SaveFailure(r)
      BY <3>1, <2>0, <1>a DEF SaveFailure, SetPass, Goto, Pass, Rest, Block, HandlingRow
    <3>2. CASE CountOutstanding(r)
      <4>1. \/ Goto(r, "row") /\ SetPass(r, [pass[r] EXCEPT !.window = Rest(r)])
            \/ Goto(r, "mark") /\ UNCHANGED pass
        BY <3>2 DEF CountOutstanding
      <4>2. pc[r] = "count" /\ UNCHANGED received
        BY <3>2 DEF CountOutstanding
      <4>. QED
        BY <4>1, <4>2, <2>0, <1>a DEF SetPass, Goto, Pass, Rest, HandlingRow
    <3>3. CASE MarkDelivered(r)
      BY <3>3, <2>0, <1>a DEF MarkDelivered, SetPass, Goto, Pass, Rest, HandlingRow
    <3>. QED
      BY <1>4, <3>1, <3>2, <3>3
  <2>2. Dest(r)' = Dest(r)
    BY <2>1 DEF Dest
  <2>3. Owed(r, w.event) => Dealt(r, w.event)'
    <3>1. CASE pc[r] = "saveFailure"
      BY <3>1, <2>0, <2>1, EventsAssumption DEF Owed, Dealt
    <3>2. CASE pc[r] = "count"
      BY <3>2, <2>0, <2>1, <2>2 DEF DeliveryInv, PassInv, Dealt
    <3>3. CASE pc[r] = "mark"
      BY <3>3, <2>0, <2>1, <2>2 DEF DeliveryInv, PassInv, ReceivedEverywhere, Dealt
    <3>. QED
      BY <2>1, <3>1, <3>2, <3>3
  <2>. QED
    <3>1. \A e \in Events : Owed(r, e) /\ InWindow(r, e) => InWindow(r, e)' \/ Dealt(r, e)'
      BY <2>0, <2>1, <2>3 DEF InWindow
    <3>2. \A e \in Events : Owed(r, e) /\ Trying(r, e) => Dealt(r, e)'
      BY <2>0, <2>3 DEF Trying
    <3>. QED
      BY <2>1, <3>1, <3>2, GapShrinks
<1>. QED
  BY <1>1, <1>2, <1>3, <1>4

\* What a step of replica r leaves alone.
LEMMA OwnFrame ==
    ASSUME TypeInv, NEW r \in Replicas,
           Step(r) \/ StatementFails(r) \/ PurgeFails(r) \/ Crash(r) \/ Restart(r)
    PROVE  /\ UNCHANGED producers
           /\ \A q \in Replicas \ {r} : pass'[q] = pass[q] /\ pc'[q] = pc[q]
           /\ \A d \in Dests : received[d] \subseteq received'[d]
           /\ \/ UNCHANGED received
              \/ pc[r] = "publish" /\ Receive(Dest(r), Del(r).event)
<1>1. UNCHANGED producers
  BY DEF Step, TryLock, Ping, Query, LoadRecords, EndWindow, SkipHeld, MissingRecord, Attempt,
         PublishAcked, PublishFailed, SaveAck, SaveFailure, CountOutstanding, MarkDelivered,
         DrainTick, SelectExpired, Purge, StatementFails, PurgeFails, Crash, Restart
<1>2. /\ UNCHANGED pass \/ \E p : SetPass(r, p)
      /\ UNCHANGED pc \/ \E s : Goto(r, s)
  BY DEF Step, TryLock, Ping, Query, LoadRecords, EndWindow, EndDest, SkipHeld, MissingRecord,
         Attempt, PublishAcked, PublishFailed, SaveAck, SaveFailure, CountOutstanding,
         MarkDelivered, DrainTick, SelectExpired, Purge, StatementFails, PurgeFails, Crash, Restart
<1>3. \A q \in Replicas \ {r} : pass'[q] = pass[q] /\ pc'[q] = pc[q]
  BY <1>2 DEF SetPass, Goto, TypeInv, TypeOK
<1>4. \/ UNCHANGED received
      \/ pc[r] = "publish" /\ Receive(Dest(r), Del(r).event)
  BY DEF Step, TryLock, Ping, Query, LoadRecords, EndWindow, SkipHeld, MissingRecord, Attempt,
         PublishAcked, PublishFailed, SaveAck, SaveFailure, CountOutstanding, MarkDelivered,
         DrainTick, SelectExpired, Purge, StatementFails, PurgeFails, Crash, Restart
<1>5. \A d \in Dests : received[d] \subseteq received'[d]
  BY <1>4 DEF Receive, TypeInv, TypeOK
<1>. QED
  BY <1>1, <1>3, <1>4, <1>5

LEMMA GapStep ==
    ASSUME TypeInv, DeliveryInv, SerialInv, NEW r \in Replicas, GapPass(r),
           Step(r) \/ StatementFails(r) \/ PurgeFails(r) \/ Crash(r) \/ Restart(r)
    PROVE  GapPass(r)'
<1>a. /\ UNCHANGED producers
      /\ pc \in [Replicas -> Statements \cup {"down", "standby"}] /\ pass \in [Replicas -> Pass]
  BY OwnFrame DEF TypeInv, TypeOK
<1>1. CASE \/ TryLock(r) \/ Ping(r) \/ MissingRecord(r) \/ Purge(r)
           \/ StatementFails(r) \/ PurgeFails(r) \/ Crash(r)
  <2>1. pass'[r] = NewPass(1) /\ pc'[r] # "publish"
    BY <1>1, <1>a DEF TryLock, Ping, MissingRecord, Purge, StatementFails, PurgeFails, Crash,
                      SetPass, Goto
  <2>. QED
    BY <2>1, <1>a, GapReset DEF NewPass
<1>2. CASE Query(r)
  <2>1. CASE FirstRows(Pending(r), BatchSize) = {}
    BY <1>2, <1>a, <2>1, GapEndsDest DEF Query
  <2>. QED
    BY <1>2, <2>1, GapQueries
<1>3. CASE EndWindow(r)
  <2>1. CASE pass[r].full /\ pass[r].attempts < BatchSize
    <3>1. UNCHANGED <<pass, received>> /\ pc[r] = "row" /\ pc'[r] = "query"
      BY <1>3, <1>a, <2>1 DEF EndWindow, Goto
    <3>. QED
      BY <3>1, <1>a, GapShrinks DEF InWindow, Trying
  <2>. QED
    BY <1>3, <1>a, <2>1, GapEndsDest DEF EndWindow
<1>4. CASE SkipHeld(r)
  <2>1. /\ pass[r].window # {} /\ Held(r, Del(r).event) /\ pc'[r] # "publish"
        /\ UNCHANGED received
        /\ SetPass(r, [pass[r] EXCEPT !.cursor = outboxId[Del(r).event], !.window = Rest(r)])
    BY <1>4 DEF SkipHeld, AtRow
  <2>2. /\ pass'[r].cursor = outboxId[Del(r).event] /\ pass'[r].window = Rest(r)
        /\ pass'[r].dest = pass[r].dest /\ pass'[r].blocked = pass[r].blocked
    BY <2>1, <1>a DEF SetPass, Pass
  <2>. QED
    BY <2>1, <2>2, <1>a, GapAdvances
<1>5. CASE Attempt(r)
  <2>1. /\ pass[r].window # {} /\ ~Held(r, Del(r).event)
        /\ \/ UNCHANGED received /\ Goto(r, "publish")
           \/ Goto(r, "saveFailure")
        /\ SetPass(r, [pass[r] EXCEPT !.cursor = outboxId[Del(r).event], !.attempts = @ + 1])
    BY <1>5 DEF Attempt, AtRow
  <2>2. /\ pass'[r].cursor = outboxId[Del(r).event] /\ pass'[r].window = pass[r].window
        /\ pass'[r].dest = pass[r].dest /\ pass'[r].blocked = pass[r].blocked
        /\ pc'[r] \in {"publish", "saveFailure"}
    BY <2>1, <1>a DEF SetPass, Goto, Pass
  <2>. QED
    BY <1>5, <2>1, <2>2, <1>a, GapAdvances DEF Attempt
<1>6. CASE \/ LoadRecords(r) \/ PublishAcked(r) \/ PublishFailed(r) \/ SaveAck(r)
           \/ SaveFailure(r) \/ CountOutstanding(r) \/ MarkDelivered(r) \/ DrainTick(r)
           \/ SelectExpired(r) \/ Restart(r)
  BY <1>6, <1>a, GapWorks
<1>. QED
  BY <1>1, <1>2, <1>3, <1>4, <1>5, <1>6 DEF Step

LEMMA OrderStep ==
    ASSUME SerialWriters
    PROVE  TypeInv /\ DeliveryInv /\ OrderInv /\ [Next]_vars => OrderInv'
<1>. SUFFICES ASSUME TypeInv, DeliveryInv, OrderInv, [Next]_vars PROVE OrderInv'
  OBVIOUS
<1>a. SerialInv /\ SerialInv' /\ NoGap /\ \A r \in Replicas : GapPass(r)
  BY SerialStep DEF OrderInv
<1>1. ASSUME NEW e \in Events, Insert(e) \/ Commit(e) \/ Rollback(e) PROVE OrderInv'
  <2>1. /\ UNCHANGED <<pc, pass, received>>
        /\ \A f \in Events : tx[f] = "committed" => tx'[f] = "committed" /\ outboxId'[f] = outboxId[f]
        /\ \A f \in Events : tx'[f] = "committed" /\ tx[f] # "committed"
               => tx[f] = "open" /\ outboxId'[f] = outboxId[f]
    BY <1>1 DEF Insert, Commit, Rollback, TypeInv, TypeOK
  <2>2. \A r \in Replicas : GapPass(r)'
    BY <1>1, <1>a, <2>1, GapKept DEF Onward
  <2>3. NoGap'
    <3>. SUFFICES ASSUME NEW d \in Dests, NEW f \in received[d], NEW g \in Events,
                         tx'[g] = "committed", d \in Accepts[g], SubjectOf[g] = SubjectOf[f],
                         SubjectOf[g] # NoSubject, outboxId'[g] < outboxId'[f]
                  PROVE  g \in received[d]
      BY <2>1 DEF NoGap
    <3>1. f \in Events /\ tx[f] = "committed" /\ outboxId'[f] = outboxId[f]
      BY <2>1 DEF DeliveryInv, OnlyCommitted, TypeInv, TypeOK
    <3>2. CASE tx[g] = "committed"
      BY <3>1, <3>2, <2>1, <1>a DEF NoGap
    <3>3. CASE tx[g] # "committed"
      <4>1. tx[g] = "open" /\ outboxId[g] < outboxId[f]
        BY <3>1, <3>3, <2>1
      <4>2. outboxId[f] < outboxId[g]
        BY <4>1, <3>1, <1>a DEF SerialInv
      <4>. QED
        BY <4>1, <4>2, <3>1 DEF TypeInv, TypeOK
    <3>. QED
      BY <3>2, <3>3
  <2>. QED
    BY <1>a, <2>2, <2>3 DEF OrderInv
<1>2. ASSUME NEW r \in Replicas,
             Step(r) \/ StatementFails(r) \/ PurgeFails(r) \/ Crash(r) \/ Restart(r)
      PROVE  OrderInv'
  <2>1. /\ UNCHANGED producers
        /\ \A q \in Replicas \ {r} : pass'[q] = pass[q] /\ pc'[q] = pc[q]
        /\ \A d \in Dests : received[d] \subseteq received'[d]
        /\ \/ UNCHANGED received
           \/ pc[r] = "publish" /\ Receive(Dest(r), Del(r).event)
    BY <1>2, OwnFrame
  <2>2. \A q \in Replicas \ {r} : GapPass(q)'
    BY <1>a, <2>1, GapKept DEF Onward, producers
  <2>3. GapPass(r)'
    BY <1>2, <1>a, GapStep
  <2>4. NoGap'
    <3>1. CASE UNCHANGED received
      BY <3>1, <1>a, <2>1 DEF NoGap, producers
    <3>2. CASE pc[r] = "publish" /\ Receive(Dest(r), Del(r).event)
      BY <3>2, <1>a, <2>1, PublishesInOrder
    <3>. QED
      BY <2>1, <3>1, <3>2
  <2>. QED
    BY <1>a, <2>2, <2>3, <2>4 DEF OrderInv
<1>3. CASE LoseSession \/ UNCHANGED vars
  <2>1. UNCHANGED <<producers, received, pc, pass>>
    BY <1>3 DEF LoseSession, vars, producers
  <2>2. \A r \in Replicas : GapPass(r)'
    BY <1>a, <2>1, GapKept DEF Onward, producers
  <2>3. NoGap'
    BY <1>a, <2>1 DEF NoGap, producers
  <2>. QED
    BY <1>a, <2>2, <2>3 DEF OrderInv
<1>. QED
  BY <1>1, <1>2, <1>3 DEF Next

LEMMA OrderInit == Init => OrderInv
<1>. SUFFICES ASSUME Init PROVE OrderInv
  OBVIOUS
<1>1. NoGap
  BY DEF Init, NoGap
<1>2. \A r \in Replicas : GapPass(r)
  BY FirstPassType DEF Init, GapPass, NewPass, Owed
<1>. QED
  BY <1>1, <1>2, SerialInit DEF OrderInv

LEMMA OrderInvariant ==
    ASSUME SerialWriters
    PROVE  Spec => []OrderInv
BY OrderInit, OrderStep, TypeInvariant, DeliveryInvariant, PTL DEF Spec

\* While producers' transactions do not overlap, a destination never has an event
\* of a subject while it misses an earlier one, whatever crashes, statements that
\* fail, leaders that overlap, and failing deliveries.
THEOREM OrderKept ==
    ASSUME SerialWriters
    PROVE  Spec => []NoGap
<1>1. OrderInv => NoGap
  BY DEF OrderInv
<1>. QED
  BY <1>1, OrderInvariant, PTL

-----------------------------------------------------------------------------
(* The outbox implements EventDelivery.                                    *)

LEMMA PromiseStep ==
    ASSUME SerialWriters
    PROVE  /\ TypeInv /\ TypeInv' /\ DeliveryInv /\ OrderInv /\ OrderInv' /\ [Next]_vars
           => [Promise!Next]_(Promise!vars)
<1>. SUFFICES ASSUME TypeInv, TypeInv', DeliveryInv, OrderInv, OrderInv', [Next]_vars
              PROVE  [Promise!Next]_(Promise!vars)
  OBVIOUS
<1>. DEFINE Rank == [e \in Events |-> IF tx[e] = "committed" THEN outboxId[e] ELSE 0]
<1>1. ASSUME NEW e \in Events, Commit(e) PROVE Promise!Commit(e)
  <2>1. /\ tx[e] = "open" /\ tx' = [tx EXCEPT ![e] = "committed"]
        /\ UNCHANGED <<outboxId, received>>
        /\ tx \in [Events -> {"none", "open", "committed", "rolledback"}]
        /\ outboxId \in [Events -> Nat]
    BY <1>1 DEF Commit, TypeInv, TypeOK
  <2>2. Rank[e] = 0 /\ Rank'[e] = outboxId[e] /\ Rank' \in [Events -> Nat]
        /\ \A f \in Events \ {e} : Rank'[f] = Rank[f]
    BY <2>1
  <2>3. \A f \in Events : Rank[f] < Rank'[e]
    <3>1. 0 < outboxId[e] /\ \A f \in Events : tx[f] = "committed" => outboxId[f] < outboxId[e]
      BY <2>1 DEF OrderInv, SerialInv
    <3>. QED
      BY <2>1, <2>2, <3>1
  <2>. QED
    BY <2>1, <2>2, <2>3 DEF Promise!Commit, Promise!Committed
<1>2. ASSUME NEW e \in Events, Insert(e) \/ Rollback(e) PROVE UNCHANGED Promise!vars
  <2>1. /\ UNCHANGED received
        /\ \A f \in Events : tx'[f] = "committed" <=> tx[f] = "committed"
        /\ \A f \in Events : tx[f] = "committed" => outboxId'[f] = outboxId[f]
    BY <1>2 DEF Insert, Rollback, TypeInv, TypeOK
  <2>2. Rank' = Rank
    BY <2>1
  <2>. QED
    BY <2>1, <2>2 DEF Promise!vars
<1>3. ASSUME UNCHANGED <<producers, received>> PROVE UNCHANGED Promise!vars
  BY <1>3 DEF Promise!vars, producers
<1>4. ASSUME NEW r \in Replicas, pc[r] = "publish", UNCHANGED producers,
             Receive(Dest(r), Del(r).event)
      PROVE  [Promise!Next]_(Promise!vars)
  <2>1. PICK d \in Dests, f \in Events :
            /\ d = Dest(r) /\ f = Del(r).event
            /\ tx[f] = "committed" /\ d \in Accepts[f]
    BY <1>4, BeforeTheRow, PassTypes DEF TypeInv, HandlesARow, HandlingRow, OrderInv
  <2>2. received' = [received EXCEPT ![d] = @ \cup {f}] /\ UNCHANGED <<tx, outboxId>>
    BY <1>4, <2>1 DEF Receive, producers
  <2>3. CASE f \in received[d]
    <3>1. received' = received
      BY <2>2, <2>3 DEF TypeInv, TypeOK
    <3>. QED
      BY <3>1, <1>3, <1>4
  <2>4. CASE f \notin received[d]
    <3>1. \A g \in Events : /\ Rank[g] # 0 <=> tx[g] = "committed"
                            /\ tx[g] = "committed" => Rank[g] = outboxId[g]
      BY DEF OrderInv, SerialInv, TypeInv, TypeOK
    <3>2. \A g \in Events : /\ Rank[g] # 0 /\ Rank[g] < Rank[f] /\ d \in Accepts[g]
                            /\ SubjectOf[g] = SubjectOf[f] /\ SubjectOf[g] # NoSubject
                            => g \in received[d]
      <4>1. f \in received'[d] /\ received'[d] \subseteq received[d] \cup {f}
        BY <2>2 DEF TypeInv, TypeOK
      <4>2. \A g \in Events : /\ tx[g] = "committed" /\ d \in Accepts[g]
                              /\ SubjectOf[g] = SubjectOf[f] /\ SubjectOf[g] # NoSubject
                              /\ outboxId[g] < outboxId[f]
                              => g \in received'[d]
        BY <2>2, <4>1 DEF OrderInv, NoGap
      <4>3. \A g \in Events : outboxId[g] \in Nat
        BY DEF TypeInv, TypeOK
      <4>. QED
        BY <2>1, <3>1, <4>1, <4>2, <4>3
    <3>3. UNCHANGED Rank
      BY <2>2
    <3>4. Promise!Receive(d, f)
      BY <2>1, <2>2, <2>4, <3>1, <3>2, <3>3 DEF Promise!Receive, Promise!Committed, Promise!Before
    <3>. QED
      BY <3>4 DEF Promise!Next
  <2>. QED
    BY <2>3, <2>4
<1>5. ASSUME NEW r \in Replicas,
             Step(r) \/ StatementFails(r) \/ PurgeFails(r) \/ Crash(r) \/ Restart(r)
      PROVE  [Promise!Next]_(Promise!vars)
  BY <1>3, <1>4, <1>5, OwnFrame
<1>6. CASE LoseSession \/ UNCHANGED vars
  BY <1>3, <1>6 DEF LoseSession, vars, producers
<1>. QED
  BY <1>1, <1>2, <1>5, <1>6 DEF Next, Promise!Next

\* While producers' transactions do not overlap, the outbox implements the abstract
\* delivery service: every commit and every first receipt is one of its steps, and
\* everything else changes nothing it can see.
THEOREM DeliversAsPromised ==
    ASSUME SerialWriters
    PROVE  Spec => ImplementsPromise
<1>1. Init => Promise!Init
  BY DEF Init, Promise!Init
<1>. QED
  BY <1>1, PromiseStep, TypeInvariant, DeliveryInvariant, OrderInvariant, PTL
     DEF Spec, ImplementsPromise, Promise!Spec
=============================================================================
