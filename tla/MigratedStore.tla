--------------------------- MODULE MigratedStore ----------------------------
(* What localdb promises (docs of Manager and Descriptor), with no file, log, *)
(* lock or retry in sight: every list of migrations moves one step at a time, *)
(* up to what some binary knows, the framework's before the modules', and a   *)
(* module is handed out only where its list has run.                          *)
EXTENDS Integers

CONSTANTS
    Processes,
    Modules,
    Framework,  \* the list that every module's needs
    Known,      \* [Processes -> [Lists -> Nat]]: how much of a list a binary has
    None        \* no module

Lists == Modules \cup {Framework}

VARIABLES
    applied,    \* how much of each list has run
    kept,       \* how much of it no failure can take back
    asked,      \* the module each process is waiting for
    refused,    \* its schema was ahead of the process's binary when it asked
    handles     \* the modules each process has been given

vars == <<applied, kept, asked, refused, handles>>
callers == <<asked, refused, handles>>

Init ==
    /\ applied = [s \in Lists |-> 0] /\ kept = applied
    /\ asked = [p \in Processes |-> None]
    /\ refused = [p \in Processes |-> FALSE]
    /\ handles = [p \in Processes |-> {}]

Ask(p, m) ==
    /\ asked[p] = None /\ m \notin handles[p]
    /\ asked' = [asked EXCEPT ![p] = m]
    /\ refused' = [refused EXCEPT ![p] = applied[m] > Known[p][m]]
    /\ UNCHANGED <<applied, kept, handles>>

Ready(p, s) == applied[s] >= Known[p][s]

\* The one way a schema changes: the next step, known to the binary.
Apply(p, s) ==
    /\ asked[p] # None /\ s \in {Framework, asked[p]}
    /\ ~Ready(p, s)
    /\ s # Framework => Ready(p, Framework) /\ ~refused[p]
    /\ applied' = [applied EXCEPT ![s] = @ + 1]
    /\ UNCHANGED <<kept, callers>>

EndCall(p) ==
    /\ asked' = [asked EXCEPT ![p] = None]
    /\ refused' = [refused EXCEPT ![p] = FALSE]
    /\ UNCHANGED <<applied, kept>>

HandOut(p) ==
    /\ asked[p] # None
    /\ Ready(p, Framework) /\ Ready(p, asked[p]) /\ ~refused[p]
    /\ handles' = [handles EXCEPT ![p] = @ \cup {asked[p]}]
    /\ EndCall(p)

GiveUp(p) == asked[p] # None /\ EndCall(p) /\ UNCHANGED handles

\* A process that restarts has no handle and asks for nothing.
Restart(p) == handles' = [handles EXCEPT ![p] = {}] /\ EndCall(p)

Checkpoint == kept' = applied /\ UNCHANGED <<applied, callers>>

\* The machine dies: every list falls back, no further than what is kept, and
\* no module's runs without the framework's.
PowerLoss ==
    /\ applied' \in [Lists -> Nat] /\ kept' = applied'
    /\ \A s \in Lists : kept[s] <= applied'[s] /\ applied'[s] <= applied[s]
    /\ \A m \in Modules : applied'[m] > 0 => applied'[Framework] > 0
    /\ asked' = [p \in Processes |-> None]
    /\ refused' = [p \in Processes |-> FALSE]
    /\ handles' = [p \in Processes |-> {}]

Next ==
    \/ \E p \in Processes :
         \/ \E m \in Modules : Ask(p, m)
         \/ \E s \in Lists : Apply(p, s)
         \/ HandOut(p) \/ GiveUp(p) \/ Restart(p)
    \/ Checkpoint \/ PowerLoss

Spec == Init /\ [][Next]_vars
=============================================================================
