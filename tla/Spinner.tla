------------------------------ MODULE Spinner ------------------------------
(***************************************************************************)
(* The terminal spinner (src/tui/spinner/spinner.go): Start makes a round   *)
(* of channels, installs a signal handler and, in Rich mode, starts the     *)
(* animation; Stop (and Fail) takes them down.  The mutex guards each look  *)
(* at the fields, not the whole of a call, and the animation reads the      *)
(* channels from the fields without it.  A round's channels are named by    *)
(* its number; 0 is nil.                                                   *)
(***************************************************************************)
EXTENDS Integers

CONSTANTS
  SpCallers,     \* goroutines that start and stop the spinner
  SpMaxRounds    \* bound: Starts that begin a round

ASSUME SpinnerAssumption == SpMaxRounds \in Nat

SpRounds == 1..SpMaxRounds

VARIABLES
  spRunning,   \* s.running
  spRich,      \* s.mode is Rich
  spRound,     \* rounds begun; s.stopCh is the last one's
  spDone,      \* s.doneCh
  spSig,       \* s.sigCh
  spEnded,     \* closed stop channels
  spFinished,  \* closed done channels
  spHandlers,  \* signal handlers that are installed and waiting
  spAnim,      \* animations: "none", "born", "loop" or "gone"
  spAnimStop,  \* the stop channel an animation's select waits on
  spAnimDone,  \* the done channel its deferred close has taken
  spPc,        \* the step of a caller's Start or Stop
  spMine,      \* the round of a Start, the stop channel a Stop has taken
  spWait,      \* the done channel a Stop has taken
  spPanic,     \* a nil or closed channel has been closed
  spOverlap    \* history: a Start or Stop was called while another was running

spinVars == <<spRunning, spRich, spRound, spDone, spSig, spEnded, spFinished, spHandlers,
              spAnim, spAnimStop, spAnimDone, spPc, spMine, spWait, spPanic, spOverlap>>

SpinTypeOK ==
  /\ spRunning \in BOOLEAN /\ spRich \in BOOLEAN
  /\ spPanic \in BOOLEAN /\ spOverlap \in BOOLEAN
  /\ spRound \in 0..SpMaxRounds /\ spDone \in 0..SpMaxRounds /\ spSig \in 0..SpMaxRounds
  /\ spEnded \subseteq SpRounds /\ spFinished \subseteq SpRounds /\ spHandlers \subseteq SpRounds
  /\ spAnim \in [SpRounds -> {"none", "born", "loop", "gone"}]
  /\ spAnimStop \in [SpRounds -> 0..SpMaxRounds]
  /\ spAnimDone \in [SpRounds -> 0..SpMaxRounds]
  /\ spPc \in [SpCallers -> {"idle", "notify", "install", "spawn", "uninstall", "close", "wait"}]
  /\ spMine \in [SpCallers -> 0..SpMaxRounds]
  /\ spWait \in [SpCallers -> 0..SpMaxRounds]

SpinInit ==
  /\ spRunning = FALSE /\ spRich = FALSE
  /\ spRound = 0 /\ spDone = 0 /\ spSig = 0
  /\ spEnded = {} /\ spFinished = {} /\ spHandlers = {}
  /\ spAnim = [r \in SpRounds |-> "none"]
  /\ spAnimStop = [r \in SpRounds |-> 0]
  /\ spAnimDone = [r \in SpRounds |-> 0]
  /\ spPc = [c \in SpCallers |-> "idle"]
  /\ spMine = [c \in SpCallers |-> 0]
  /\ spWait = [c \in SpCallers |-> 0]
  /\ spPanic = FALSE /\ spOverlap = FALSE

SpCalling == {c \in SpCallers : spPc[c] # "idle"}

-----------------------------------------------------------------------------
(* Start *)

\* Under the mutex: a new round, of the mode the terminal has now.  (Start of a
\* running spinner returns.)
SpStart(c) ==
  /\ spPc[c] = "idle" /\ ~spRunning /\ ~spPanic
  /\ spRound < SpMaxRounds
  /\ spRich' \in BOOLEAN
  /\ spRunning' = TRUE
  /\ spRound' = spRound + 1
  /\ spDone' = 0
  /\ spPc' = [spPc EXCEPT ![c] = "notify"]
  /\ spMine' = [spMine EXCEPT ![c] = spRound + 1]
  /\ spOverlap' = (spOverlap \/ SpCalling # {})
  /\ UNCHANGED <<spSig, spEnded, spFinished, spHandlers, spAnim, spAnimStop, spAnimDone,
                 spWait, spPanic>>

\* installSignalHandler: the signal package first, the field second; the
\* goroutine that waits for the signal.
SpNotify(c) ==
  /\ spPc[c] = "notify"
  /\ spHandlers' = spHandlers \cup {spMine[c]}
  /\ spPc' = [spPc EXCEPT ![c] = "install"]
  /\ UNCHANGED <<spRunning, spRich, spRound, spDone, spSig, spEnded, spFinished, spAnim,
                 spAnimStop, spAnimDone, spMine, spWait, spPanic, spOverlap>>

SpInstall(c) ==
  /\ spPc[c] = "install"
  /\ spSig' = spMine[c]
  /\ spPc' = [spPc EXCEPT ![c] = IF spRich THEN "spawn" ELSE "idle"]
  /\ UNCHANGED <<spRunning, spRich, spRound, spDone, spEnded, spFinished, spHandlers, spAnim,
                 spAnimStop, spAnimDone, spMine, spWait, spPanic, spOverlap>>

\* Rich mode: the done channel, and the animation's goroutine.
SpSpawn(c) ==
  /\ spPc[c] = "spawn"
  /\ spDone' = spMine[c]
  /\ spAnim' = [spAnim EXCEPT ![spMine[c]] = "born"]
  /\ spPc' = [spPc EXCEPT ![c] = "idle"]
  /\ UNCHANGED <<spRunning, spRich, spRound, spSig, spEnded, spFinished, spHandlers,
                 spAnimStop, spAnimDone, spMine, spWait, spPanic, spOverlap>>

-----------------------------------------------------------------------------
(* Stop and Fail *)

\* Under the mutex: the channels are taken.  (Stop of a stopped spinner returns.)
SpStop(c) ==
  /\ spPc[c] = "idle" /\ spRunning /\ ~spPanic
  /\ spRunning' = FALSE
  /\ spMine' = [spMine EXCEPT ![c] = spRound]
  /\ spWait' = [spWait EXCEPT ![c] = spDone]
  /\ spPc' = [spPc EXCEPT ![c] = "uninstall"]
  /\ spOverlap' = (spOverlap \/ SpCalling # {})
  /\ UNCHANGED <<spRich, spRound, spDone, spSig, spEnded, spFinished, spHandlers, spAnim,
                 spAnimStop, spAnimDone, spPanic>>

\* uninstallSignalHandler: the channel in the field is closed, its goroutine
\* leaves.
SpUninstall(c) ==
  /\ spPc[c] = "uninstall"
  /\ spSig' = 0
  /\ spHandlers' = spHandlers \ {spSig}
  /\ spPc' = [spPc EXCEPT ![c] = "close"]
  /\ UNCHANGED <<spRunning, spRich, spRound, spDone, spEnded, spFinished, spAnim, spAnimStop,
                 spAnimDone, spMine, spWait, spPanic, spOverlap>>

\* Mutant: Stop does not wait for the animation to end.
SpCloseOnly(c) ==
  /\ spPc[c] = "close"
  /\ spEnded' = spEnded \cup {spMine[c]}
  /\ spPc' = [spPc EXCEPT ![c] = "idle"]
  /\ UNCHANGED <<spRunning, spRich, spRound, spDone, spSig, spFinished, spHandlers, spAnim,
                 spAnimStop, spAnimDone, spMine, spWait, spPanic, spOverlap>>

SpClose(c) ==
  /\ spPc[c] = "close"
  /\ spEnded' = spEnded \cup {spMine[c]}
  /\ spPc' = [spPc EXCEPT ![c] = IF spWait[c] = 0 THEN "idle" ELSE "wait"]
  /\ UNCHANGED <<spRunning, spRich, spRound, spDone, spSig, spFinished, spHandlers, spAnim,
                 spAnimStop, spAnimDone, spMine, spWait, spPanic, spOverlap>>

\* The animation has left: the final line is printed.
SpWaited(c) ==
  /\ spPc[c] = "wait"
  /\ spWait[c] \in spFinished
  /\ spPc' = [spPc EXCEPT ![c] = "idle"]
  /\ UNCHANGED <<spRunning, spRich, spRound, spDone, spSig, spEnded, spFinished, spHandlers,
                 spAnim, spAnimStop, spAnimDone, spMine, spWait, spPanic, spOverlap>>

-----------------------------------------------------------------------------
(* The animation and the signal *)

\* The deferred close takes the field as it is when the goroutine gets to run,
\* and the first select the stop channel.
SpAnimate(r) ==
  /\ spAnim[r] = "born"
  /\ spAnim' = [spAnim EXCEPT ![r] = "loop"]
  /\ spAnimDone' = [spAnimDone EXCEPT ![r] = spDone]
  /\ spAnimStop' = [spAnimStop EXCEPT ![r] = spRound]
  /\ UNCHANGED <<spRunning, spRich, spRound, spDone, spSig, spEnded, spFinished, spHandlers,
                 spPc, spMine, spWait, spPanic, spOverlap>>

\* A frame is drawn; the next select reads the stop channel's field again.
SpFrame(r) ==
  /\ spAnim[r] = "loop" /\ ~spPanic
  /\ spAnimStop' = [spAnimStop EXCEPT ![r] = spRound]
  /\ UNCHANGED <<spRunning, spRich, spRound, spDone, spSig, spEnded, spFinished, spHandlers,
                 spAnim, spAnimDone, spPc, spMine, spWait, spPanic, spOverlap>>

\* The stop channel is closed: the animation closes the done channel it took.
SpLeave(r) ==
  /\ spAnim[r] = "loop"
  /\ spAnimStop[r] \in spEnded
  /\ spAnim' = [spAnim EXCEPT ![r] = "gone"]
  /\ spFinished' = spFinished \cup ({spAnimDone[r]} \ {0})
  /\ spPanic' = (spPanic \/ spAnimDone[r] \in spFinished \cup {0})
  /\ UNCHANGED <<spRunning, spRich, spRound, spDone, spSig, spEnded, spHandlers, spAnimStop,
                 spAnimDone, spPc, spMine, spWait, spOverlap>>

\* SIGINT or SIGTERM: every handler clears the line, leaves and raises the
\* signal again, which the program survives (or the model ends here).
SpSignal ==
  /\ spHandlers # {}
  /\ spHandlers' = {}
  /\ UNCHANGED <<spRunning, spRich, spRound, spDone, spSig, spEnded, spFinished, spAnim,
                 spAnimStop, spAnimDone, spPc, spMine, spWait, spPanic, spOverlap>>

SpinNext ==
  \/ \E c \in SpCallers :
       \/ SpStart(c) \/ SpNotify(c) \/ SpInstall(c) \/ SpSpawn(c)
       \/ SpStop(c) \/ SpUninstall(c) \/ SpClose(c) \/ SpWaited(c)
  \/ \E r \in SpRounds : SpAnimate(r) \/ SpFrame(r) \/ SpLeave(r)
  \/ SpSignal

SpinSpec == SpinInit /\ [][SpinNext]_spinVars

-----------------------------------------------------------------------------
(* Properties *)

\* Once Stop has returned nothing of the spinner is left: no animation draws
\* over what is printed next and no handler takes the program's signals; and no
\* animation closes a channel that is nil or closed already, which would end
\* the program.  Both need Start and Stop to be called one after the other:
\* the mutex does not make the calls themselves exclusive.
SpinQuiet ==
  ~spOverlap =>
    /\ ~spPanic
    /\ ~spRunning /\ SpCalling = {} =>
         spHandlers = {} /\ \A r \in SpRounds : spAnim[r] \notin {"born", "loop"}
=============================================================================
