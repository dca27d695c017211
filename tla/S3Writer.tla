------------------------------ MODULE S3Writer ------------------------------
(***************************************************************************)
(* The writer of the S3 storage driver (src/storage/s3.go): a caller writes *)
(* chunks into a pipe, a goroutine feeds what it reads there to the upload, *)
(* and Close waits for the upload's result.  The upload is the SDK's: it    *)
(* reads to the end of its body and stores the object, or fails anywhere.   *)
(***************************************************************************)
EXTENDS Integers

CONSTANT UpMaxChunks  \* bound: calls of Write

ASSUME S3WriterAssumption == UpMaxChunks \in Nat

NoObject == -1

VARIABLES
  upCaller,   \* "idle", in "write" or "close", what Close returned, or "down"
  upCalls,    \* calls of Write so far
  upWritten,  \* chunks whose Write returned nil
  upLoop,     \* the goroutine is in the "upload", has it "returned", has "closed"
              \* the pipe's reading end, has sent the result: "done"
  upErr,      \* what UploadObject returned
  upObject    \* the chunks of the stored object

upVars == <<upCaller, upCalls, upWritten, upLoop, upErr, upObject>>

UpTypeOK ==
  /\ upCaller \in {"idle", "write", "close", "nil", "error", "down"}
  /\ {upCalls, upWritten} \subseteq 0..UpMaxChunks
  /\ upLoop \in {"upload", "returned", "closed", "done", "down"}
  /\ upErr \in {"none", "nil", "error"}
  /\ upObject \in 0..UpMaxChunks \cup {NoObject}

UpInit ==
  /\ upCaller = "idle" /\ upCalls = 0 /\ upWritten = 0
  /\ upLoop = "upload" /\ upErr = "none" /\ upObject = NoObject

UpWrite ==
  /\ upCaller = "idle" /\ upCalls < UpMaxChunks
  /\ upCaller' = "write" /\ upCalls' = upCalls + 1
  /\ UNCHANGED <<upWritten, upLoop, upErr, upObject>>

\* The reading end is closed: Write returns the error of the upload.
UpWriteFails ==
  /\ upCaller = "write" /\ upLoop \in {"closed", "done"}
  /\ upCaller' = "idle"
  /\ UNCHANGED <<upCalls, upWritten, upLoop, upErr, upObject>>

\* Close signals the end of the body and waits ...
UpClose ==
  /\ upCaller = "idle"
  /\ upCaller' = "close"
  /\ UNCHANGED <<upCalls, upWritten, upLoop, upErr, upObject>>

\* Mutant: Close does not wait for the goroutine.
UpClosedAtOnce ==
  /\ upCaller = "close"
  /\ upCaller' = "nil"
  /\ UNCHANGED <<upCalls, upWritten, upLoop, upErr, upObject>>

\* ... for the goroutine's result, which it returns.
UpClosed ==
  /\ upCaller = "close" /\ upLoop = "done"
  /\ upCaller' = upErr
  /\ UNCHANGED <<upCalls, upWritten, upLoop, upErr, upObject>>

\* The upload reads a chunk from the pipe, and its Write returns nil.
UpRead ==
  /\ upLoop = "upload" /\ upCaller = "write"
  /\ upCaller' = "idle" /\ upWritten' = upWritten + 1
  /\ UNCHANGED <<upCalls, upLoop, upErr, upObject>>

\* The body has ended and the object is stored; the answer may be lost.
UpStore ==
  /\ upLoop = "upload" /\ upCaller = "close"
  /\ upObject' = upWritten /\ upLoop' = "returned" /\ upErr' \in {"nil", "error"}
  /\ UNCHANGED <<upCaller, upCalls, upWritten>>

\* The upload fails, at any point; nothing is stored.
UpFail ==
  /\ upLoop = "upload"
  /\ upLoop' = "returned" /\ upErr' = "error"
  /\ UNCHANGED <<upCaller, upCalls, upWritten, upObject>>

\* Mutant: the result is sent, but the pipe stays open.
UpOnlyReport ==
  /\ upLoop = "returned" /\ upCaller # "write"
  /\ upLoop' = "closed"
  /\ UNCHANGED <<upCaller, upCalls, upWritten, upErr, upObject>>

\* CloseWithError: a Write that waits for a reader returns.
UpCloseReader ==
  /\ upLoop = "returned"
  /\ upLoop' = "closed"
  /\ UNCHANGED <<upCaller, upCalls, upWritten, upErr, upObject>>

\* errCh has a slot: the goroutine ends whether or not Close waits.
UpReport ==
  /\ upLoop = "closed"
  /\ upLoop' = "done"
  /\ UNCHANGED <<upCaller, upCalls, upWritten, upErr, upObject>>

\* The process dies; what is stored stays.
UpDies ==
  /\ upCaller \in {"idle", "write", "close"}
  /\ upCaller' = "down" /\ upLoop' = "down"
  /\ UNCHANGED <<upCalls, upWritten, upErr, upObject>>

UpReturns == UpWriteFails \/ UpClosed
UpGoroutine == UpRead \/ UpStore \/ UpFail \/ UpCloseReader \/ UpReport

UpNext == UpWrite \/ UpClose \/ UpReturns \/ UpGoroutine \/ UpDies

UpSpec == UpInit /\ [][UpNext]_upVars

UpWaiting == upCaller \in {"write", "close"}

\* Both goroutines run, and while a caller waits the service takes its chunks, or answers
\* one way or another.
UpFairness == WF_upVars(UpReturns) /\ WF_upVars(UpWaiting /\ UpGoroutine)

-----------------------------------------------------------------------------
(* Properties *)

\* Close returns nil only when the object is stored, and no object is ever visible
\* without every chunk whose Write returned nil ("We MUST NOT return before the object
\* is durable", s3.go).
UpCloseIsHonest ==
  /\ upCaller = "nil" => upObject # NoObject
  /\ upObject # NoObject => upObject = upWritten

\* A Write into an upload that fails, and the Close after it, come back.
UpCallsReturn == UpWaiting ~> ~UpWaiting
=============================================================================
