--------------------------- MODULE DockerSandbox ---------------------------
(***************************************************************************)
(* The Docker sandbox (src/sandbox/sandbox_docker.go): one caller runs      *)
(* Setup, Execute and Close against the Docker daemon.  Every call to the   *)
(* daemon may fail, before or after it has taken effect there.  The sandbox *)
(* remembers one thing, the id of its container; the containers themselves, *)
(* and the commands that run in them, live in the daemon and go on when the *)
(* caller has given up.                                                    *)
(***************************************************************************)
EXTENDS Integers

CONSTANTS
  MaxContainers,   \* bound: containers created in a behaviour
  MaxExecs,        \* bound: commands left running in a container
  SkipWait,        \* SkipWaitForRunningContainer
  HealthCheck      \* the setup has a health check command

ASSUME SandboxAssumption ==
  /\ MaxContainers \in Nat /\ MaxExecs \in Nat
  /\ SkipWait \in BOOLEAN /\ HealthCheck \in BOOLEAN

VARIABLES
  sbId,        \* containerID, 0 when empty
  sbBox,       \* the daemon's containers, by the order of their creation
  sbPc,        \* the step of the caller's call
  sbIn,        \* the call: "setup", "execute", "close" or "none"
  sbExecs,     \* commands running in the sandbox's container
  sbMine,      \* this Execute's own command: "none", "running" or "ended"
  sbLost       \* history: containers whose creation was never answered

sandboxVars == <<sbId, sbBox, sbPc, sbIn, sbExecs, sbMine, sbLost>>

SbContainers == 1..MaxContainers
SbLive == {"created", "running", "exited"}

SandboxTypeOK ==
  /\ sbId \in 0..MaxContainers
  /\ sbBox \in [SbContainers -> SbLive \cup {"absent", "removed"}]
  /\ sbPc \in {"idle", "create", "start", "wait", "exec", "attached", "inspect", "stop", "remove"}
  /\ sbIn \in {"none", "setup", "execute", "close"}
  /\ sbExecs \in 0..MaxExecs
  /\ sbMine \in {"none", "running", "ended"}
  /\ sbLost \in SUBSET SbContainers

SandboxInit ==
  /\ sbId = 0
  /\ sbBox = [n \in SbContainers |-> "absent"]
  /\ sbPc = "idle" /\ sbIn = "none"
  /\ sbExecs = 0 /\ sbMine = "none"
  /\ sbLost = {}

\* The call returns, with an error or without; a command of its own that is
\* still running goes on in the container.
SbReturn ==
  /\ sbPc' = "idle"
  /\ sbIn' = "none"
  /\ sbMine' = "none"

-----------------------------------------------------------------------------
(* Setup *)

\* Refused when there is a container already.  (Listing and pulling the image
\* change nothing here; a failure is an error return.)
SbSetupCall ==
  /\ sbPc = "idle" /\ sbId = 0
  /\ sbIn' = "setup"
  /\ sbPc' = "create"
  /\ UNCHANGED <<sbId, sbBox, sbExecs, sbMine, sbLost>>

\* ContainerCreate: an answer gives the id; an error may hide a container that
\* was made, and Setup returns without its id.
SbCreate ==
  /\ sbPc = "create"
  /\ \/ SbReturn /\ UNCHANGED <<sbId, sbBox, sbLost, sbExecs>>
     \/ \E n \in SbContainers :
          /\ sbBox[n] = "absent" /\ \A k \in 1..(n - 1) : sbBox[k] # "absent"
          /\ sbBox' = [sbBox EXCEPT ![n] = "created"]
          /\ \/ /\ sbId' = n /\ sbPc' = "start" /\ sbExecs' = 0
                /\ UNCHANGED <<sbLost, sbIn, sbMine>>
             \/ SbReturn /\ sbLost' = sbLost \cup {n} /\ UNCHANGED <<sbId, sbExecs>>

\* Mutant: a failed start forgets the container it leaves behind.
SbStartForgets ==
  /\ sbPc = "start"
  /\ \/ /\ sbBox' = [sbBox EXCEPT ![sbId] = "running"]
        /\ IF SkipWait THEN SbReturn
           ELSE sbPc' = "wait" /\ UNCHANGED <<sbIn, sbMine>>
        /\ UNCHANGED sbId
     \/ SbReturn /\ sbId' = 0 /\ UNCHANGED sbBox
  /\ UNCHANGED <<sbExecs, sbLost>>

\* ContainerStart: a failure leaves the container, and its id, for Close.
SbStart ==
  /\ sbPc = "start"
  /\ \/ /\ sbBox' = [sbBox EXCEPT ![sbId] = "running"]
        /\ IF SkipWait THEN SbReturn
           ELSE sbPc' = "wait" /\ UNCHANGED <<sbIn, sbMine>>
     \/ /\ sbBox' \in {sbBox, [sbBox EXCEPT ![sbId] = "running"]}
        /\ SbReturn
  /\ UNCHANGED <<sbId, sbExecs, sbLost>>

\* One tick of the wait: a running container is ready, or has its health
\* check; one that is not is looked at again.
SbPoll ==
  /\ sbPc = "wait"
  /\ sbBox[sbId] = "running"
  /\ IF HealthCheck THEN sbPc' = "exec" /\ UNCHANGED <<sbIn, sbMine>> ELSE SbReturn
  /\ UNCHANGED <<sbId, sbBox, sbExecs, sbLost>>

-----------------------------------------------------------------------------
(* Execute, by the caller or by the health check *)

SbExecuteCall ==
  /\ sbPc = "idle" /\ sbId # 0
  /\ sbIn' = "execute"
  /\ sbPc' = "exec"
  /\ UNCHANGED <<sbId, sbBox, sbExecs, sbMine, sbLost>>

\* ContainerExecCreate and then Start, or Attach when a stream is given (the
\* health check gives none).  A start without waiting returns at once.  An
\* error, of a container that is not running among others, ends the call, or
\* the health check's attempt.
SbExec ==
  /\ sbPc = "exec"
  /\ \/ /\ sbBox[sbId] = "running" /\ sbExecs < MaxExecs
        /\ sbExecs' = sbExecs + 1
        /\ \/ /\ sbPc' = "inspect" \/ (sbIn = "execute" /\ sbPc' = "attached")
              /\ sbMine' = "running" /\ UNCHANGED sbIn
           \/ sbIn = "execute" /\ SbReturn
     \/ sbIn = "execute" /\ SbReturn /\ UNCHANGED sbExecs
  /\ UNCHANGED <<sbId, sbBox, sbLost>>

\* The streams end, with the command or with an I/O error (only logged), and
\* the wait for the exit code begins; until then only the caller's context
\* ends the call.
SbStreamsEnd ==
  /\ sbPc = "attached"
  /\ sbPc' = "inspect"
  /\ UNCHANGED <<sbId, sbBox, sbIn, sbExecs, sbMine, sbLost>>

\* The caller's context is cancelled, or an inspection fails: the call returns
\* an error.
SbFails ==
  /\ sbPc \in {"create", "start", "wait", "exec", "attached", "inspect"}
  /\ SbReturn
  /\ UNCHANGED <<sbId, sbBox, sbExecs, sbLost>>

\* ContainerExecInspect finds the command ended: Execute returns its exit
\* code; the health check has succeeded, or tries again.
SbInspect ==
  /\ sbPc = "inspect"
  /\ sbMine = "ended"
  /\ \/ SbReturn
     \/ sbIn = "setup" /\ sbPc' = "exec" /\ sbMine' = "none" /\ UNCHANGED sbIn
  /\ UNCHANGED <<sbId, sbBox, sbExecs, sbLost>>

\* Mutant: CreateWaitTimeout is not applied to the wait for the container.
SbTimeoutOfExec ==
  /\ \/ sbPc \in {"exec", "inspect"} /\ sbIn = "setup" /\ SbReturn
     \/ sbPc = "inspect" /\ sbIn = "execute" /\ SbReturn
     \/ /\ sbPc = "inspect" /\ sbIn = "setup"
        /\ sbPc' = "exec" /\ sbMine' = "none" /\ UNCHANGED sbIn
  /\ UNCHANGED <<sbId, sbBox, sbExecs, sbLost>>

\* The time of the wait is over: CreateWaitTimeout ends the setup,
\* ExecWaitTimeout the command's; a health check's own wait ends its attempt.
SbTimeout ==
  /\ \/ sbPc \in {"wait", "exec", "inspect"} /\ sbIn = "setup" /\ SbReturn
     \/ sbPc = "inspect" /\ sbIn = "execute" /\ SbReturn
     \/ /\ sbPc = "inspect" /\ sbIn = "setup"
        /\ sbPc' = "exec" /\ sbMine' = "none" /\ UNCHANGED sbIn
  /\ UNCHANGED <<sbId, sbBox, sbExecs, sbLost>>

-----------------------------------------------------------------------------
(* Close *)

SbCloseCall ==
  /\ sbPc = "idle" /\ sbId # 0
  /\ sbIn' = "close"
  /\ sbPc' = "stop"
  /\ UNCHANGED <<sbId, sbBox, sbExecs, sbMine, sbLost>>

\* ContainerStop: a failure keeps the id, so that Close can be called again.
SbStop ==
  /\ sbPc = "stop"
  /\ \/ /\ sbBox' = [sbBox EXCEPT ![sbId] = "exited"]
        /\ sbExecs' = 0
        /\ sbPc' = "remove" /\ UNCHANGED <<sbIn, sbMine>>
     \/ /\ \/ sbBox' = sbBox /\ sbExecs' = sbExecs
           \/ sbBox' = [sbBox EXCEPT ![sbId] = "exited"] /\ sbExecs' = 0
        /\ SbReturn
  /\ UNCHANGED <<sbId, sbLost>>

SbRemove ==
  /\ sbPc = "remove"
  /\ \/ /\ sbBox' = [sbBox EXCEPT ![sbId] = "removed"]
        /\ sbId' = 0
     \/ /\ sbBox' \in {sbBox, [sbBox EXCEPT ![sbId] = "removed"]}
        /\ UNCHANGED sbId
  /\ SbReturn
  /\ UNCHANGED <<sbExecs, sbLost>>

-----------------------------------------------------------------------------
(* The daemon *)

\* A command ends, this call's own or one an earlier call has left.
SbCommandEnds ==
  /\ sbExecs > 0
  /\ sbExecs' = sbExecs - 1
  /\ \/ sbMine = "running" /\ sbMine' = "ended"
     \/ (sbMine # "running" \/ sbExecs > 1) /\ UNCHANGED sbMine
  /\ UNCHANGED <<sbId, sbBox, sbPc, sbIn, sbLost>>

\* The container's main process ends, and every command in it.
SbContainerDies ==
  /\ sbId # 0 /\ sbBox[sbId] = "running"
  /\ sbBox' = [sbBox EXCEPT ![sbId] = "exited"]
  /\ sbExecs' = 0
  /\ sbMine' = IF sbMine = "running" THEN "ended" ELSE sbMine
  /\ UNCHANGED <<sbId, sbPc, sbIn, sbLost>>

SbSteps == SbCreate \/ SbStart \/ SbPoll \/ SbExec \/ SbInspect \/ SbStop \/ SbRemove

SandboxNext ==
  \/ SbSetupCall \/ SbExecuteCall \/ SbCloseCall
  \/ SbSteps \/ SbTimeout \/ SbStreamsEnd \/ SbFails
  \/ SbCommandEnds \/ SbContainerDies

\* The daemon answers, one way or another, and timeouts pass; commands need
\* not end, streams need not close, callers need not cancel.
SandboxFairness == WF_sandboxVars(SbSteps) /\ WF_sandboxVars(SbTimeout /\ sbPc' = "idle")

SandboxSpec == SandboxInit /\ [][SandboxNext]_sandboxVars /\ SandboxFairness

-----------------------------------------------------------------------------
(* Properties *)

\* Whatever fails on the way, a container that exists in the daemon is the one
\* the sandbox knows, so that Close can still remove it; only a creation whose
\* answer was lost leaves one behind (Setup's order, Close's error returns).
SbNothingLeftBehind ==
  \A n \in SbContainers : sbBox[n] \in SbLive => n = sbId \/ n \in sbLost

\* Setup, Execute and Close return, also when the container never runs, the
\* health check never succeeds or the command never ends; only an Execute with
\* streams may wait for the streams for ever (the wait loops' timeouts).
SbCallsReturn == sbPc # "idle" ~> sbPc \in {"idle", "attached"}
=============================================================================
