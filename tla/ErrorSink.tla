----------------------------- MODULE ErrorSink -----------------------------
(***************************************************************************)
(* The asynchronous error sink (src/errors/sink.go): Handle puts an error   *)
(* in a bounded channel without waiting, one worker gives the errors to the *)
(* driver, Close stops the worker, waits for it for a bounded time and      *)
(* closes the driver.  Handle holds the read lock, Close the write lock     *)
(* from its first step to its last.  Errors are numbered as they are        *)
(* accepted.  The driver is the code's argument: it may take any time over  *)
(* an error, and for ever.                                                 *)
(***************************************************************************)
EXTENDS Integers, Sequences

CONSTANTS
  SinkCallers,   \* goroutines that call Handle
  SinkClosers,   \* goroutines that call Close, once each
  MaxBatchSize,  \* the channel's capacity (SinkConfig)
  SinkMaxErrors  \* bound: no Handle is called once so many are accepted

ASSUME SinkAssumption == MaxBatchSize \in Nat \ {0} /\ SinkMaxErrors \in Nat

VARIABLES
  skQueue,       \* the channel
  skShut,        \* the channel is closed
  skCancelled,   \* b.ctx is done
  skClosed,      \* b.closed
  skWriter,      \* the goroutines that hold the write lock
  skCall,        \* Handle calls: "idle" or "waiting" for the read lock
  skClose,       \* Close calls, by step
  skWorker,      \* the worker: "select", "drain", "exited" or handling
  skHand,        \* the error the driver is handling, 0 when none
  skAccepted,    \* history: errors accepted so far
  skHandled,     \* history: errors the driver has finished with, in order
  skTimedOut,    \* Close stopped waiting for the worker
  skDriverClosed \* driverCloser has run

sinkVars == <<skQueue, skShut, skCancelled, skClosed, skWriter, skCall, skClose,
              skWorker, skHand, skAccepted, skHandled, skTimedOut, skDriverClosed>>

SinkTypeOK ==
  /\ skQueue \in Seq(Nat)
  /\ {skShut, skCancelled, skClosed, skTimedOut, skDriverClosed} \subseteq BOOLEAN
  /\ skWriter \in SUBSET SinkClosers
  /\ skCall \in [SinkCallers -> {"idle", "waiting"}]
  /\ skClose \in [SinkClosers ->
       {"idle", "waiting", "locked", "cancelled", "shut", "waited", "returned"}]
  /\ skWorker \in {"select", "drain", "handling", "draining", "exited"}
  /\ skHand \in Nat /\ skAccepted \in Nat
  /\ skHandled \in Seq(Nat)

SinkInit ==
  /\ skQueue = <<>> /\ skHandled = <<>>
  /\ skShut = FALSE /\ skCancelled = FALSE /\ skClosed = FALSE
  /\ skTimedOut = FALSE /\ skDriverClosed = FALSE
  /\ skWriter = {}
  /\ skCall = [c \in SinkCallers |-> "idle"]
  /\ skClose = [c \in SinkClosers |-> "idle"]
  /\ skWorker = "select"
  /\ skHand = 0 /\ skAccepted = 0

-----------------------------------------------------------------------------
(* Handle *)

SinkHandleCall(c) ==
  /\ skCall[c] = "idle"
  /\ skAccepted < SinkMaxErrors
  /\ skCall' = [skCall EXCEPT ![c] = "waiting"]
  /\ UNCHANGED <<skQueue, skShut, skCancelled, skClosed, skWriter, skClose, skWorker,
                 skHand, skAccepted, skHandled, skTimedOut, skDriverClosed>>

\* Under the read lock: a closed sink drops the error; otherwise the select
\* takes any case that is ready, and drops it when the channel is full.  A
\* send on the closed channel would panic.
SinkHandle(c) ==
  /\ skCall[c] = "waiting"
  /\ skWriter = {}
  /\ skCall' = [skCall EXCEPT ![c] = "idle"]
  /\ \/ /\ ~skClosed
        /\ Len(skQueue) < MaxBatchSize
        /\ skQueue' = Append(skQueue, skAccepted + 1)
        /\ skAccepted' = skAccepted + 1
     \/ /\ skClosed \/ skCancelled \/ Len(skQueue) = MaxBatchSize
        /\ UNCHANGED <<skQueue, skAccepted>>
  /\ UNCHANGED <<skShut, skCancelled, skClosed, skWriter, skClose, skWorker, skHand,
                 skHandled, skTimedOut, skDriverClosed>>

-----------------------------------------------------------------------------
(* The worker *)

\* The select picks any ready case: an error, or the cancelled context, after
\* which only what is in the channel is handled.
SinkTake ==
  /\ skWorker \in {"select", "drain"}
  /\ skQueue # <<>>
  /\ skHand' = Head(skQueue)
  /\ skQueue' = Tail(skQueue)
  /\ skWorker' = IF skWorker = "select" THEN "handling" ELSE "draining"
  /\ UNCHANGED <<skShut, skCancelled, skClosed, skWriter, skCall, skClose, skAccepted,
                 skHandled, skTimedOut, skDriverClosed>>

SinkNotice ==
  /\ skWorker = "select"
  /\ skCancelled
  /\ skWorker' = "drain"
  /\ UNCHANGED <<skQueue, skShut, skCancelled, skClosed, skWriter, skCall, skClose,
                 skHand, skAccepted, skHandled, skTimedOut, skDriverClosed>>

\* The worker leaves when the closed channel is empty, or, once it has seen
\* the cancellation, when the channel is empty.
SinkExit ==
  /\ skQueue = <<>>
  /\ skWorker = "drain" \/ (skWorker = "select" /\ skShut)
  /\ skWorker' = "exited"
  /\ UNCHANGED <<skQueue, skShut, skCancelled, skClosed, skWriter, skCall, skClose,
                 skHand, skAccepted, skHandled, skTimedOut, skDriverClosed>>

\* driverHandler returns; its error is only logged.
SinkDriverReturns ==
  /\ skWorker \in {"handling", "draining"}
  /\ skHandled' = Append(skHandled, skHand)
  /\ skHand' = 0
  /\ skWorker' = IF skWorker = "handling" THEN "select" ELSE "drain"
  /\ UNCHANGED <<skQueue, skShut, skCancelled, skClosed, skWriter, skCall, skClose,
                 skAccepted, skTimedOut, skDriverClosed>>

-----------------------------------------------------------------------------
(* Close *)

SinkCloseCall(c) ==
  /\ skClose[c] = "idle"
  /\ skClose' = [skClose EXCEPT ![c] = "waiting"]
  /\ UNCHANGED <<skQueue, skShut, skCancelled, skClosed, skWriter, skCall, skWorker,
                 skHand, skAccepted, skHandled, skTimedOut, skDriverClosed>>

\* The write lock; the second Close finds the sink closed and returns.
SinkLock(c) ==
  /\ skClose[c] = "waiting"
  /\ skWriter = {}
  /\ IF skClosed
     THEN skClose' = [skClose EXCEPT ![c] = "returned"] /\ UNCHANGED <<skClosed, skWriter>>
     ELSE /\ skClosed' = TRUE
          /\ skWriter' = {c}
          /\ skClose' = [skClose EXCEPT ![c] = "locked"]
  /\ UNCHANGED <<skQueue, skShut, skCancelled, skCall, skWorker, skHand, skAccepted,
                 skHandled, skTimedOut, skDriverClosed>>

\* Mutant: the context is cancelled on the way in, before the write lock.
SinkCancelBeforeLock(c) ==
  /\ skClose[c] \in {"waiting", "locked"}
  /\ skCancelled' = TRUE
  /\ skClose' = [skClose EXCEPT ![c] = IF skClose[c] = "locked" THEN "cancelled" ELSE @]
  /\ UNCHANGED <<skQueue, skShut, skClosed, skWriter, skCall, skWorker, skHand,
                 skAccepted, skHandled, skTimedOut, skDriverClosed>>

SinkCancel(c) ==
  /\ skClose[c] = "locked"
  /\ skCancelled' = TRUE
  /\ skClose' = [skClose EXCEPT ![c] = "cancelled"]
  /\ UNCHANGED <<skQueue, skShut, skClosed, skWriter, skCall, skWorker, skHand,
                 skAccepted, skHandled, skTimedOut, skDriverClosed>>

SinkShut(c) ==
  /\ skClose[c] = "cancelled"
  /\ skShut' = TRUE
  /\ skClose' = [skClose EXCEPT ![c] = "shut"]
  /\ UNCHANGED <<skQueue, skCancelled, skClosed, skWriter, skCall, skWorker, skHand,
                 skAccepted, skHandled, skTimedOut, skDriverClosed>>

\* Mutant: Close waits for the worker without a timeout.
SinkWaitedForEver(c) ==
  /\ skClose[c] = "shut"
  /\ skWorker = "exited"
  /\ skClose' = [skClose EXCEPT ![c] = "waited"]
  /\ UNCHANGED <<skQueue, skShut, skCancelled, skClosed, skWriter, skCall, skWorker,
                 skHand, skAccepted, skHandled, skTimedOut, skDriverClosed>>

\* The wait ends when the worker has left or CloseTimeout has passed; the
\* select does not say which when both are true.
SinkWaited(c) ==
  /\ skClose[c] = "shut"
  /\ \/ skWorker = "exited" /\ UNCHANGED skTimedOut
     \/ skTimedOut' = TRUE
  /\ skClose' = [skClose EXCEPT ![c] = "waited"]
  /\ UNCHANGED <<skQueue, skShut, skCancelled, skClosed, skWriter, skCall, skWorker,
                 skHand, skAccepted, skHandled, skDriverClosed>>

SinkCloseDriver(c) ==
  /\ skClose[c] = "waited"
  /\ skDriverClosed' = TRUE
  /\ skWriter' = {}
  /\ skClose' = [skClose EXCEPT ![c] = "returned"]
  /\ UNCHANGED <<skQueue, skShut, skCancelled, skClosed, skCall, skWorker, skHand,
                 skAccepted, skHandled, skTimedOut>>

-----------------------------------------------------------------------------
SinkCallerSteps(c) == SinkHandle(c)
SinkCloserSteps(c) ==
  SinkLock(c) \/ SinkCancel(c) \/ SinkShut(c) \/ SinkWaited(c) \/ SinkCloseDriver(c)
SinkWorkerSteps == SinkTake \/ SinkNotice \/ SinkExit

SinkNext ==
  \/ \E c \in SinkCallers : SinkHandleCall(c) \/ SinkCallerSteps(c)
  \/ \E c \in SinkClosers : SinkCloseCall(c) \/ SinkCloserSteps(c)
  \/ SinkWorkerSteps
  \/ SinkDriverReturns

\* Goroutines that can run do, and CloseTimeout passes; the driver need not
\* return.
SinkFairness ==
  /\ \A c \in SinkCallers : WF_sinkVars(SinkCallerSteps(c))
  /\ \A c \in SinkClosers : WF_sinkVars(SinkCloserSteps(c))
  /\ WF_sinkVars(SinkWorkerSteps)

SinkSpec == SinkInit /\ [][SinkNext]_sinkVars /\ SinkFairness

-----------------------------------------------------------------------------
(* Properties *)

\* Every error Handle has accepted is handled, once and in order, before the
\* worker leaves; and unless Close ran out of time the driver is closed only
\* after that, so no driver is used after it has been closed (Handle's lock,
\* the order of Close's steps, the worker's drain loop).
SinkNothingStranded ==
  /\ skHandled \o (IF skHand = 0 THEN <<>> ELSE <<skHand>>) \o skQueue
       = [i \in 1..skAccepted |-> i]
  /\ skWorker = "exited" => Len(skHandled) = skAccepted
  /\ skDriverClosed /\ ~skTimedOut => skWorker = "exited"

\* Handle and Close always return, also when the driver never does: Handle
\* waits for a running Close at most, and Close for its timeout at most.
SinkCallsReturn ==
  /\ \A c \in SinkCallers : skCall[c] = "waiting" ~> skCall[c] = "idle"
  /\ \A c \in SinkClosers : skClose[c] # "idle" ~> skClose[c] = "returned"
=============================================================================
