---------------------------- MODULE NatsConsumer ----------------------------
(***************************************************************************)
(* The JetStream listener (queueSubscribeJetStream, src/async/nats.go):     *)
(* subscribers that share one durable consumer fetch one message at a time, *)
(* run the callback and acknowledge it, or not.  The server is modelled by  *)
(* what the code configures and relies on: a message that is not            *)
(* acknowledged within AckWait is delivered again, MaxDeliver times at      *)
(* most, and the stream keeps its newest MaxMsgs messages.  Messages are    *)
(* numbered in the order of the stream.                                    *)
(***************************************************************************)
EXTENDS Integers, Sequences, FiniteSets

CONSTANTS
  Subscribers,   \* loops that listen under one StreamListenerName
  LastMsg,       \* bound: messages published
  MaxDeliver,    \* max(natsJetStreamMaxDeliveries, StreamMaxDeliveries)
  StreamMaxMsgs  \* StreamMaxMessages

Msg == 1..LastMsg

ASSUME NatsAssumption ==
  /\ LastMsg \in Nat /\ MaxDeliver \in Nat \ {0} /\ StreamMaxMsgs \in Nat \ {0}

VARIABLES
  nsMsg,       \* the message in the server
  nsCount,     \* how often it has been delivered
  nsBatch,     \* the messages a subscriber has fetched; it handles the first
  nsPc,        \* the step of a subscriber's loop
  nsHeard,     \* subscribers whose message the server has heard is in progress
  nsSucceeded, \* history: messages whose callback has returned nil
  nsLate       \* history: messages the server has not heard of within AckWait
               \* from a subscriber that had them

natsVars == <<nsMsg, nsCount, nsBatch, nsPc, nsHeard, nsSucceeded, nsLate>>

NatsTypeOK ==
  /\ nsMsg \in [Msg -> {"none", "ready", "pending", "acked", "givenUp", "discarded"}]
  /\ nsCount \in [Msg -> 0..MaxDeliver]
  /\ nsBatch \in [Subscribers -> Seq(Msg)]
  /\ nsPc \in [Subscribers -> {"fetch", "report", "callback", "ack", "nak", "stopped"}]
  /\ nsHeard \in SUBSET Subscribers
  /\ nsSucceeded \in SUBSET Msg
  /\ nsLate \in SUBSET Msg

NatsInit ==
  /\ nsMsg = [m \in Msg |-> "none"]
  /\ nsCount = [m \in Msg |-> 0]
  /\ nsBatch = [s \in Subscribers |-> <<>>]
  /\ nsPc = [s \in Subscribers |-> "fetch"]
  /\ nsHeard = {} /\ nsSucceeded = {} /\ nsLate = {}

Ready == {m \in Msg : nsMsg[m] = "ready"}

\* What becomes of a delivery that fails: the message is ready again until its
\* deliveries are used up.
NsAgain(m) == IF nsCount[m] < MaxDeliver THEN "ready" ELSE "givenUp"

-----------------------------------------------------------------------------
(* The server *)

\* A message is appended; the stream drops its oldest beyond the limit,
\* acknowledged or not (LimitsPolicy).
NsPublish(m) ==
  /\ nsMsg[m] = "none" /\ \A k \in 1..(m - 1) : nsMsg[k] # "none"
  /\ nsMsg' = [k \in Msg |->
       IF k = m THEN "ready"
       ELSE IF k = m - StreamMaxMsgs /\ nsMsg[k] \in {"ready", "pending"}
            THEN "discarded" ELSE nsMsg[k]]
  /\ UNCHANGED <<nsCount, nsBatch, nsPc, nsHeard, nsSucceeded, nsLate>>

NsHas(s, m) == nsBatch[s] # <<>> /\ Head(nsBatch[s]) = m

\* The server has heard that the subscriber's callback has the message, and the
\* callback is within the time its context allows, which is AckWait at most.
NsInTime(s, m) ==
  NsHas(s, m) /\ nsPc[s] = "callback" /\ s \in nsHeard /\ m \notin nsLate

\* AckWait passes without an acknowledgement: nobody is in time with the
\* message.  Its delivery, the report or the answer was lost or is still to
\* come; a subscriber that has yet to report or to answer is late with it.
NsExpire(m) ==
  /\ nsMsg[m] = "pending"
  /\ \A s \in Subscribers : ~NsInTime(s, m)
  /\ nsMsg' = [nsMsg EXCEPT ![m] = NsAgain(m)]
  /\ nsLate' = nsLate \cup
       {k \in {m} : \E s \in Subscribers : NsHas(s, k) /\ nsPc[s] # "callback"}
  /\ UNCHANGED <<nsCount, nsBatch, nsPc, nsHeard, nsSucceeded>>

-----------------------------------------------------------------------------
(* The loop *)

NsDeliver(s, batch) ==
  /\ nsMsg' = [m \in Msg |-> IF m \in batch THEN "pending" ELSE nsMsg[m]]
  /\ nsCount' = [m \in Msg |-> IF m \in batch THEN nsCount[m] + 1 ELSE nsCount[m]]

\* Fetch(1) takes the oldest message that is ready; or the delivery is lost on
\* the way.
NsFetch(s) ==
  /\ nsPc[s] = "fetch"
  /\ \E m \in Ready :
       /\ \A k \in Ready : m <= k
       /\ NsDeliver(s, {m})
       /\ \/ /\ nsBatch' = [nsBatch EXCEPT ![s] = <<m>>]
             /\ nsPc' = [nsPc EXCEPT ![s] = "report"]
          \/ UNCHANGED <<nsBatch, nsPc>>
  /\ UNCHANGED <<nsHeard, nsSucceeded, nsLate>>

\* Mutant: the callback is started without InProgress, and AckWait runs on from
\* the delivery.
NsReportNothing(s) ==
  /\ nsPc[s] = "report"
  /\ nsPc' = [nsPc EXCEPT ![s] = "callback"]
  /\ UNCHANGED <<nsMsg, nsCount, nsBatch, nsHeard, nsSucceeded, nsLate>>

\* InProgress, which restarts AckWait when the server hears it; when it fails
\* that is only logged, and the callback is started all the same.
NsReport(s) ==
  /\ nsPc[s] = "report"
  /\ nsPc' = [nsPc EXCEPT ![s] = "callback"]
  /\ \/ nsHeard' = nsHeard \cup {s} /\ UNCHANGED nsLate
     \/ nsLate' = nsLate \cup {Head(nsBatch[s])} /\ UNCHANGED nsHeard
  /\ UNCHANGED <<nsMsg, nsCount, nsBatch, nsSucceeded>>

\* The callback outlives AckWait: it does not heed its context, or returns as
\* the context expires, AckWait after a report that the server heard before.
NsOverrun(s) ==
  /\ nsPc[s] = "callback"
  /\ nsLate' = nsLate \cup {Head(nsBatch[s])}
  /\ UNCHANGED <<nsMsg, nsCount, nsBatch, nsPc, nsHeard, nsSucceeded>>

\* Mutant: the callback's error is only logged, as in the plain subscription.
NsReturnAcks(s) ==
  /\ nsPc[s] = "callback"
  /\ nsSucceeded' \in {nsSucceeded, nsSucceeded \cup {Head(nsBatch[s])}}
  /\ nsPc' = [nsPc EXCEPT ![s] = "ack"]
  /\ nsHeard' = nsHeard \ {s}
  /\ UNCHANGED <<nsMsg, nsCount, nsBatch, nsLate>>

\* The callback returns; the message is acknowledged only when it succeeded.
NsReturn(s) ==
  /\ nsPc[s] = "callback"
  /\ \/ /\ nsSucceeded' = nsSucceeded \cup {Head(nsBatch[s])}
        /\ nsPc' = [nsPc EXCEPT ![s] = "ack"]
     \/ /\ nsPc' = [nsPc EXCEPT ![s] = "nak"]
        /\ UNCHANGED nsSucceeded
  /\ nsHeard' = nsHeard \ {s}
  /\ UNCHANGED <<nsMsg, nsCount, nsBatch, nsLate>>

\* Ack or Nak; a failure is only logged, and the server hears nothing.  A late
\* Ack still settles a message that is about to be delivered again, a late Nak
\* gives it up to the next subscriber while another may have it.
NsAnswer(s) ==
  /\ nsPc[s] \in {"ack", "nak"}
  /\ LET m == Head(nsBatch[s]) IN
       nsMsg' \in {nsMsg,
         [nsMsg EXCEPT ![m] =
            IF nsPc[s] = "ack" /\ @ \in {"ready", "pending"} THEN "acked"
            ELSE IF nsPc[s] = "nak" /\ @ = "pending" THEN NsAgain(m) ELSE @]}
  /\ nsBatch' = [nsBatch EXCEPT ![s] = Tail(@)]
  /\ nsPc' = [nsPc EXCEPT ![s] = IF Len(nsBatch[s]) = 1 THEN "fetch" ELSE "report"]
  /\ UNCHANGED <<nsCount, nsHeard, nsSucceeded, nsLate>>

\* The context is cancelled or Fetch fails: the subscription ends; a message it
\* has been sent stays pending.  (The last one keeps listening here.)
NsStop(s) ==
  /\ nsPc[s] = "fetch"
  /\ \E t \in Subscribers \ {s} : nsPc[t] # "stopped"
  /\ nsPc' = [nsPc EXCEPT ![s] = "stopped"]
  /\ UNCHANGED <<nsMsg, nsCount, nsBatch, nsHeard, nsSucceeded, nsLate>>

NsLoop(s) == NsFetch(s) \/ NsReport(s) \/ NsReturn(s) \/ NsAnswer(s)

NatsNext ==
  \/ \E m \in Msg : NsPublish(m) \/ NsExpire(m)
  \/ \E s \in Subscribers : NsLoop(s) \/ NsOverrun(s) \/ NsStop(s)

NatsSpec == NatsInit /\ [][NatsNext]_natsVars

-----------------------------------------------------------------------------
(* Properties *)

\* The consumer is done with a message only when a callback has succeeded on
\* it, its deliveries are used up, or newer messages have pushed it out of the
\* stream: lost deliveries, lost and late acknowledgements and subscribers that
\* end lose none (the callback, then Ack or Nak).
NatsNothingLost ==
  \A m \in Msg :
    /\ nsMsg[m] = "acked" => m \in nsSucceeded
    /\ nsMsg[m] = "givenUp" => nsCount[m] = MaxDeliver
    /\ nsMsg[m] = "discarded" => nsMsg[m + StreamMaxMsgs] # "none"

\* One message is in two callbacks at once only if the server has not heard in
\* time from a subscriber that had it: InProgress failed, AckWait passed before
\* it or before the answer, or the callback outlived AckWait.  Lost deliveries,
\* lost answers, failed callbacks and subscribers that end do not make it so
\* (Fetch(1), InProgress, the bound on the callback's context).
NatsOneCallback ==
  \A s, t \in Subscribers :
    s # t /\ nsPc[s] = "callback" /\ nsPc[t] = "callback" /\ nsBatch[s][1] = nsBatch[t][1]
      => nsBatch[s][1] \in nsLate
=============================================================================
