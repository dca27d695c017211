---------------------------- MODULE PartsProofs ----------------------------
(***************************************************************************)
(* Proofs about small components: the Docker sandbox, the MySQL cache, the   *)
(* spinner, the error sink and the JetStream listener.                     *)
(***************************************************************************)
EXTENDS DockerSandbox, MysqlCache, Spinner, ErrorSink, NatsConsumer, TLAPS

-----------------------------------------------------------------------------
(* The sandbox *)

\* With the types: a creation runs only while no container is known, every other
\* step of a call needs one.
SandboxInv ==
  /\ SandboxTypeOK
  /\ SbNothingLeftBehind
  /\ sbPc = "create" => sbId = 0
  /\ sbPc \notin {"idle", "create"} => sbId # 0

LEMMA SandboxInvInit == SandboxInit => SandboxInv
  BY SandboxAssumption DEF SandboxInit, SandboxInv, SandboxTypeOK, SbNothingLeftBehind,
     SbContainers, SbLive

LEMMA SandboxInvStep == SandboxInv /\ [SandboxNext]_sandboxVars => SandboxInv'
<1> SUFFICES ASSUME SandboxInv, [SandboxNext]_sandboxVars PROVE SandboxInv'
  OBVIOUS
<1> USE SandboxAssumption DEF SandboxInv, SandboxTypeOK, SbNothingLeftBehind, SbContainers,
      SbLive, SbReturn
<1>1. CASE SbSetupCall  BY <1>1 DEF SbSetupCall
<1>2. CASE SbExecuteCall  BY <1>2 DEF SbExecuteCall
<1>3. CASE SbCloseCall  BY <1>3 DEF SbCloseCall
<1>4. CASE SbCreate
  <2>1. CASE SbReturn /\ UNCHANGED <<sbId, sbBox, sbLost, sbExecs>>
    BY <2>1
  <2>2. ASSUME NEW n \in SbContainers, sbBox[n] = "absent",
               sbBox' = [sbBox EXCEPT ![n] = "created"],
               \/ /\ sbId' = n /\ sbPc' = "start" /\ sbExecs' = 0
                  /\ UNCHANGED <<sbLost, sbIn, sbMine>>
               \/ SbReturn /\ sbLost' = sbLost \cup {n} /\ UNCHANGED <<sbId, sbExecs>>
        PROVE SandboxInv'
    <3>1. sbId = 0 /\ n # 0 /\ n \in 1..MaxContainers
      BY <1>4, <2>2 DEF SbCreate
    <3>2. /\ sbBox' \in [SbContainers -> SbLive \cup {"absent", "removed"}]
          /\ \A k \in SbContainers : k # n => sbBox'[k] = sbBox[k]
      BY <2>2
    <3>3. CASE /\ sbId' = n /\ sbPc' = "start" /\ sbExecs' = 0
               /\ UNCHANGED <<sbLost, sbIn, sbMine>>
      BY <3>1, <3>2, <3>3
    <3>4. CASE SbReturn /\ sbLost' = sbLost \cup {n} /\ UNCHANGED <<sbId, sbExecs>>
      BY <3>1, <3>2, <3>4
    <3> QED
      BY <2>2, <3>3, <3>4
  <2> QED
    BY <1>4, <2>1, <2>2 DEF SbCreate
<1>5. CASE SbStart  BY <1>5 DEF SbStart
<1>6. CASE SbPoll  BY <1>6 DEF SbPoll
<1>7. CASE SbExec  BY <1>7 DEF SbExec
<1>8. CASE SbInspect  BY <1>8 DEF SbInspect
<1>9. CASE SbStop  BY <1>9 DEF SbStop
<1>10. CASE SbRemove  BY <1>10 DEF SbRemove
<1>11. CASE SbTimeout  BY <1>11 DEF SbTimeout
<1>12. CASE SbStreamsEnd  BY <1>12 DEF SbStreamsEnd
<1>13. CASE SbFails  BY <1>13 DEF SbFails
<1>14. CASE SbCommandEnds  BY <1>14 DEF SbCommandEnds
<1>15. CASE SbContainerDies  BY <1>15 DEF SbContainerDies
<1>16. CASE UNCHANGED sandboxVars  BY <1>16 DEF sandboxVars
<1> QED
  BY <1>1, <1>2, <1>3, <1>4, <1>5, <1>6, <1>7, <1>8, <1>9, <1>10, <1>11, <1>12, <1>13,
     <1>14, <1>15, <1>16 DEF SandboxNext, SbSteps

\* Whatever of the daemon's answers fail, a container that exists is the one the sandbox
\* knows, or one whose creation was never answered (Setup, Close).
THEOREM SandboxLeavesNothing == SandboxSpec => []SbNothingLeftBehind
<1>1. SandboxSpec => []SandboxInv
  BY SandboxInvInit, SandboxInvStep, PTL DEF SandboxSpec
<1>2. SandboxInv => SbNothingLeftBehind
  BY DEF SandboxInv
<1> QED
  BY <1>1, <1>2, PTL

-----------------------------------------------------------------------------
(* The cache *)

\* With the types: what a caller is about to delete has expired.
CacheInv ==
  /\ CacheTypeOK
  /\ \A c \in CacheCallers : caPc[c] = "delete" => caSeen[c] \in caExpired

LEMMA CacheInvInit == CacheInit => CacheInv
  BY CacheAssumption DEF CacheInit, CacheInv, CacheTypeOK, CacheRows, NoRow

LEMMA CacheInvStep == CacheInv /\ [CacheNext]_cacheVars => CacheInv'
<1> SUFFICES ASSUME CacheInv, [CacheNext]_cacheVars PROVE CacheInv'
  OBVIOUS
<1> USE CacheAssumption DEF CacheInv, CacheTypeOK, CacheRows, NoRow, CacheGoes
<1>1. CASE CacheExpire  BY <1>1 DEF CacheExpire
<1>2. ASSUME NEW c \in CacheCallers, CacheFind(c) PROVE CacheInv'
  BY <1>2 DEF CacheFind
<1>3. ASSUME NEW c \in CacheCallers, CacheCheck(c) PROVE CacheInv'
  BY <1>3 DEF CacheCheck
<1>4. ASSUME NEW c \in CacheCallers, CacheDelete(c) PROVE CacheInv'
  BY <1>4 DEF CacheDelete
<1>5. ASSUME NEW c \in CacheCallers, CacheCompute(c) PROVE CacheInv'
  BY <1>5 DEF CacheCompute
<1>6. ASSUME NEW c \in CacheCallers, CachePut(c) PROVE CacheInv'
  BY <1>6 DEF CachePut
<1>7. CASE UNCHANGED cacheVars  BY <1>7 DEF cacheVars
<1> QED
  BY <1>1, <1>2, <1>3, <1>4, <1>5, <1>6, <1>7 DEF CacheNext

LEMMA CacheStepDeletes ==
  CacheInv /\ [CacheNext]_cacheVars
    => [caRow # NoRow /\ caRow' # caRow => caRow \in caExpired]_cacheVars
  BY DEF CacheInv, CacheNext, CacheExpire, CacheFind, CacheCheck, CacheDelete, CacheCompute,
     CachePut, cacheVars

\* A row leaves the table only when it has expired: the fresh row another caller has put
\* in place of the one a caller is deleting stays (Get, deleteEntry).
THEOREM CacheKeepsFreshRows == CacheSpec => CacheDeletesExpiredOnly
<1>1. CacheSpec => []CacheInv
  BY CacheInvInit, CacheInvStep, PTL DEF CacheSpec
<1> QED
  BY <1>1, CacheStepDeletes, PTL DEF CacheSpec, CacheDeletesExpiredOnly

-----------------------------------------------------------------------------
(* The spinner *)

SpLive(r) == spAnim[r] \in {"born", "loop"}

\* An animation that has not left is the last round's, and will close that round's done
\* channel, which nobody has closed.
SpAnimInv ==
  /\ \A r \in SpRounds : SpLive(r) =>
       /\ r = spRound /\ spDone = r /\ r \notin spFinished
       /\ spAnim[r] = "loop" => spAnimStop[r] = r /\ spAnimDone[r] = r
  /\ spDone \in {0, spRound}

\* What holds at each step of a call that runs alone, and between calls.
SpCallInv ==
  /\ \A c, d \in SpCallers : spPc[c] # "idle" /\ spPc[d] # "idle" => c = d
  /\ (\A c \in SpCallers : spPc[c] = "idle") =>
       IF spRunning THEN spSig = spRound /\ spRound # 0
       ELSE spHandlers = {} /\ \A r \in SpRounds : ~SpLive(r)
  /\ \A c \in SpCallers :
       /\ spPc[c] # "idle" => spMine[c] = spRound /\ spRound # 0
       /\ spPc[c] \in {"notify", "install", "spawn"} =>
            spRunning /\ spDone = 0 /\ spRound \notin spFinished
       /\ spPc[c] = "notify" => spHandlers = {}
       /\ spPc[c] \in {"spawn", "uninstall"} => spSig = spRound
       /\ spPc[c] \in {"uninstall", "close", "wait"} => ~spRunning /\ spWait[c] = spDone
       /\ spPc[c] \in {"close", "wait"} => spHandlers = {}
       /\ spPc[c] = "wait" => spDone # 0

\* With the types: rounds that are taken down have begun.
SpTypes ==
  /\ SpinTypeOK
  /\ spRunning => spRound # 0
  /\ \A c \in SpCallers : spPc[c] # "idle" => spMine[c] # 0

SpinInv ==
  /\ SpTypes
  /\ ~spOverlap =>
       /\ ~spPanic
       /\ spEnded \subseteq 1..spRound /\ spFinished \subseteq 1..spRound
       /\ spHandlers \subseteq {spRound}
       /\ SpAnimInv
       /\ SpCallInv

LEMMA SpinInvInit == SpinInit => SpinInv
<1>1. SpinInit => SpTypes
  <2> SUFFICES ASSUME SpinInit PROVE SpTypes
    OBVIOUS
  <2>1. 0 \in 0..SpMaxRounds
    BY SpinnerAssumption
  <2>2. /\ spRound \in 0..SpMaxRounds /\ spDone \in 0..SpMaxRounds /\ spSig \in 0..SpMaxRounds
        /\ spAnimStop \in [SpRounds -> 0..SpMaxRounds]
        /\ spAnimDone \in [SpRounds -> 0..SpMaxRounds]
        /\ spMine \in [SpCallers -> 0..SpMaxRounds]
        /\ spWait \in [SpCallers -> 0..SpMaxRounds]
    BY <2>1 DEF SpinInit
  <2> QED
    BY <2>2 DEF SpinInit, SpinTypeOK, SpTypes
<1>2. SpinInit => SpAnimInv
  BY DEF SpinInit, SpAnimInv, SpLive
<1>3. SpinInit => SpCallInv
  BY DEF SpinInit, SpCallInv, SpLive
<1> QED
  BY <1>1, <1>2, <1>3 DEF SpinInit, SpinInv

LEMMA SpinTypes == SpTypes /\ [SpinNext]_spinVars => SpTypes'
<1> SUFFICES ASSUME SpTypes, [SpinNext]_spinVars PROVE SpTypes'
  OBVIOUS
<1> USE SpinnerAssumption DEF SpTypes, SpinTypeOK, SpRounds
<1>1. ASSUME NEW c \in SpCallers, SpStart(c) PROVE SpTypes'
  <2>1. spRound + 1 \in 0..SpMaxRounds /\ spRound + 1 # 0
    BY <1>1 DEF SpStart
  <2> QED
    <3>1. /\ spRound' \in 0..SpMaxRounds /\ spDone' \in 0..SpMaxRounds
          /\ spPc' \in [SpCallers -> {"idle", "notify", "install", "spawn", "uninstall", "close", "wait"}]
          /\ spMine' \in [SpCallers -> 0..SpMaxRounds]
      BY <1>1, <2>1 DEF SpStart
    <3>2. \A d \in SpCallers : spPc'[d] # "idle" => spMine'[d] # 0
      BY <1>1, <2>1 DEF SpStart
    <3>3. spRunning' \in BOOLEAN /\ spRich' \in BOOLEAN /\ spOverlap' \in BOOLEAN
      BY <1>1 DEF SpStart
    <3> QED
      BY <1>1, <2>1, <3>1, <3>2, <3>3 DEF SpStart
<1>2. ASSUME NEW c \in SpCallers, SpNotify(c) \/ SpInstall(c) PROVE SpTypes'
  <2>1. CASE SpNotify(c)
    <3>1. spMine[c] \in 1..SpMaxRounds
      BY <2>1 DEF SpNotify
    <3> QED
      BY <2>1, <3>1 DEF SpNotify
  <2>2. CASE SpInstall(c)  BY <2>2 DEF SpInstall
  <2> QED  BY <1>2, <2>1, <2>2
<1>3. ASSUME NEW c \in SpCallers, SpSpawn(c) PROVE SpTypes'
  <2>1. spPc' = [spPc EXCEPT ![c] = "idle"] /\ spDone' = spMine[c]
        /\ spAnim' = [spAnim EXCEPT ![spMine[c]] = "born"] /\ spMine[c] \in 0..SpMaxRounds
    BY <1>3 DEF SpSpawn
  <2> QED
    BY <1>3, <2>1 DEF SpSpawn
<1>4. ASSUME NEW c \in SpCallers, SpStop(c) \/ SpUninstall(c) PROVE SpTypes'
  <2>1. CASE SpStop(c)  BY <2>1 DEF SpStop
  <2>2. CASE SpUninstall(c)
    <3>1. spHandlers \ {spSig} \subseteq spHandlers
      OBVIOUS
    <3>2. /\ spHandlers' \subseteq spHandlers /\ spSig' \in 0..SpMaxRounds
          /\ spPc' = [spPc EXCEPT ![c] = "close"] /\ spPc[c] = "uninstall"
      BY <2>2, <3>1 DEF SpUninstall
    <3>3. UNCHANGED <<spRunning, spRich, spRound, spDone, spEnded, spFinished, spAnim, spAnimStop,
                      spAnimDone, spMine, spWait, spPanic, spOverlap>>
      BY <2>2 DEF SpUninstall
    <3> QED
      BY <3>2, <3>3
  <2> QED  BY <1>4, <2>1, <2>2
<1>5. ASSUME NEW c \in SpCallers, SpClose(c) \/ SpWaited(c) PROVE SpTypes'
  <2>1. CASE SpClose(c)
    <3>1. spMine[c] \in 1..SpMaxRounds
      BY <2>1 DEF SpClose
    <3> QED
      BY <2>1, <3>1 DEF SpClose
  <2>2. CASE SpWaited(c)  BY <2>2 DEF SpWaited
  <2> QED  BY <1>5, <2>1, <2>2
<1>6. ASSUME NEW r \in SpRounds, SpAnimate(r) PROVE SpTypes'
  BY <1>6 DEF SpAnimate
<1>7. ASSUME NEW r \in SpRounds, SpFrame(r) PROVE SpTypes'
  BY <1>7 DEF SpFrame
<1>8. ASSUME NEW r \in SpRounds, SpLeave(r) PROVE SpTypes'
  <2>1. {spAnimDone[r]} \ {0} \subseteq 1..SpMaxRounds
    OBVIOUS
  <2>2. spPanic' \in BOOLEAN
    BY <1>8 DEF SpLeave
  <2> QED
    BY <1>8, <2>1, <2>2 DEF SpLeave
<1>9. CASE SpSignal  BY <1>9 DEF SpSignal
<1>10. CASE UNCHANGED spinVars  BY <1>10 DEF spinVars
<1> QED
  BY <1>1, <1>2, <1>3, <1>4, <1>5, <1>6, <1>7, <1>8, <1>9, <1>10 DEF SpinNext

LEMMA SpinInvStep == SpinInv /\ [SpinNext]_spinVars => SpinInv'
<1> SUFFICES ASSUME SpinInv, [SpinNext]_spinVars, ~spOverlap' PROVE SpinInv'
  BY SpinTypes DEF SpinInv
<1>t. SpTypes /\ SpTypes'
  BY SpinTypes DEF SpinInv
<1>o. ~spOverlap
  BY DEF SpinNext, SpStart, SpNotify, SpInstall, SpSpawn, SpStop, SpUninstall, SpClose,
     SpWaited, SpAnimate, SpFrame, SpLeave, SpSignal, spinVars
<1>i. /\ ~spPanic
      /\ spEnded \subseteq 1..spRound /\ spFinished \subseteq 1..spRound
      /\ spHandlers \subseteq {spRound}
      /\ SpAnimInv
      /\ SpCallInv
  BY <1>o DEF SpinInv
<1> USE SpinnerAssumption DEF SpRounds
<1>1. ASSUME NEW c \in SpCallers, SpStart(c) PROVE SpinInv'
  <2>1. \A d \in SpCallers : spPc[d] = "idle"
    BY <1>1 DEF SpStart, SpCalling
  <2>2. \A r \in SpRounds : ~SpLive(r)
    BY <1>1, <1>i, <2>1 DEF SpStart, SpCallInv
  <2>3. spRound' = spRound + 1 /\ spRound \in Nat
    BY <1>1, <1>t DEF SpStart, SpinTypeOK, SpTypes
  <2>4. SpAnimInv'
    BY <1>1, <2>2 DEF SpStart, SpAnimInv, SpLive
  <2>5. SpCallInv'
    <3>1. /\ spPc'[c] = "notify" /\ spMine'[c] = spRound'
          /\ \A d \in SpCallers : d # c => spPc'[d] = "idle"
      BY <1>1, <1>t, <2>1, <2>3 DEF SpStart, SpinTypeOK, SpTypes
    <3>2. spRound' # 0 /\ spRound' \notin spFinished'
      BY <1>1, <1>i, <2>3 DEF SpStart
    <3>3. spHandlers' = {} /\ spRunning' /\ spDone' = 0
      BY <1>1, <1>i, <2>1 DEF SpStart, SpCallInv
    <3> QED
      BY <3>1, <3>2, <3>3 DEF SpCallInv
  <2> QED
    BY <1>1, <1>i, <1>t, <2>1, <2>3, <2>4, <2>5 DEF SpStart, SpinInv, SpCallInv
<1>2. ASSUME NEW c \in SpCallers, SpNotify(c) PROVE SpinInv'
  <2>1. /\ spPc'[c] = "install"
        /\ \A d \in SpCallers : d # c => spPc[d] = "idle" /\ spPc'[d] = "idle"
    BY <1>2, <1>i, <1>t DEF SpNotify, SpCallInv, SpinTypeOK, SpTypes
  <2>2. SpAnimInv'
    BY <1>2, <1>i DEF SpNotify, SpAnimInv, SpLive
  <2>3. SpCallInv'
    BY <1>2, <1>i, <2>1 DEF SpNotify, SpCallInv
  <2> QED
    BY <1>2, <1>i, <1>t, <2>2, <2>3 DEF SpNotify, SpinInv, SpCallInv
<1>3. ASSUME NEW c \in SpCallers, SpInstall(c) PROVE SpinInv'
  <2>1. /\ spPc'[c] = IF spRich THEN "spawn" ELSE "idle"
        /\ \A d \in SpCallers : d # c => spPc[d] = "idle" /\ spPc'[d] = "idle"
    BY <1>3, <1>i, <1>t DEF SpInstall, SpCallInv, SpinTypeOK, SpTypes
  <2>2. SpAnimInv'
    BY <1>3, <1>i DEF SpInstall, SpAnimInv, SpLive
  <2>3. SpCallInv'
    BY <1>3, <1>i, <2>1 DEF SpInstall, SpCallInv
  <2> QED
    BY <1>3, <1>i, <1>t, <2>2, <2>3 DEF SpInstall, SpinInv, SpCallInv
<1>4. ASSUME NEW c \in SpCallers, SpSpawn(c) PROVE SpinInv'
  <2>1. /\ spPc[c] = "spawn" /\ spPc'[c] = "idle"
        /\ \A d \in SpCallers : d # c => spPc[d] = "idle" /\ spPc'[d] = "idle"
    BY <1>4, <1>i, <1>t DEF SpSpawn, SpCallInv, SpinTypeOK, SpTypes
  <2>2. /\ spMine[c] = spRound /\ spRound # 0 /\ spRound \in 0..SpMaxRounds
        /\ spRunning /\ spDone = 0 /\ spRound \notin spFinished /\ spSig = spRound
    BY <1>i, <1>t, <2>1 DEF SpCallInv, SpinTypeOK, SpTypes
  <2>3. \A r \in SpRounds : ~SpLive(r)
    BY <1>i, <2>2 DEF SpAnimInv
  <2>4. \A r \in SpRounds : spAnim'[r] = IF r = spRound THEN "born" ELSE spAnim[r]
    BY <1>4, <1>t, <2>2 DEF SpSpawn, SpinTypeOK, SpTypes
  <2>5. spDone' = spRound /\ UNCHANGED <<spRound, spRunning, spFinished, spEnded, spHandlers,
                                         spSig, spPanic>>
    BY <1>4, <2>2 DEF SpSpawn
  <2>6. SpAnimInv'
    BY <2>2, <2>3, <2>4, <2>5 DEF SpAnimInv, SpLive
  <2>7. SpCallInv'
    BY <2>1, <2>2, <2>5 DEF SpCallInv
  <2> QED
    BY <1>i, <1>t, <2>5, <2>6, <2>7 DEF SpinInv
<1>5. ASSUME NEW c \in SpCallers, SpStop(c) PROVE SpinInv'
  <2>1. \A d \in SpCallers : spPc[d] = "idle"
    BY <1>5 DEF SpStop, SpCalling
  <2>2. spSig = spRound /\ spRound # 0
    BY <1>5, <1>i, <2>1 DEF SpStop, SpCallInv
  <2>3. /\ spPc'[c] = "uninstall" /\ spMine'[c] = spRound /\ spWait'[c] = spDone
        /\ \A d \in SpCallers : d # c => spPc'[d] = "idle"
    BY <1>5, <1>t, <2>1 DEF SpStop, SpinTypeOK, SpTypes
  <2>4. ~spRunning' /\ UNCHANGED <<spRound, spDone, spFinished, spEnded, spHandlers, spSig,
                                   spPanic, spAnim, spAnimStop, spAnimDone>>
    BY <1>5 DEF SpStop
  <2>5. SpAnimInv'
    BY <1>i, <2>4 DEF SpAnimInv, SpLive
  <2>6. SpCallInv'
    BY <2>2, <2>3, <2>4 DEF SpCallInv
  <2> QED
    BY <1>i, <1>t, <2>4, <2>5, <2>6 DEF SpinInv
<1>6. ASSUME NEW c \in SpCallers, SpUninstall(c) PROVE SpinInv'
  <2>1. /\ spPc[c] = "uninstall" /\ spPc'[c] = "close"
        /\ \A d \in SpCallers : d # c => spPc[d] = "idle" /\ spPc'[d] = "idle"
    BY <1>6, <1>i, <1>t DEF SpUninstall, SpCallInv, SpinTypeOK, SpTypes
  <2>2. UNCHANGED <<spRunning, spRound, spDone, spFinished, spEnded, spPanic, spAnim, spAnimStop,
                    spAnimDone, spMine, spWait>> /\ spHandlers' = spHandlers \ {spSig}
    BY <1>6 DEF SpUninstall
  <2>3. /\ spSig = spRound /\ spMine[c] = spRound /\ spRound # 0
        /\ ~spRunning /\ spWait[c] = spDone
    BY <1>i, <2>1 DEF SpCallInv
  <2>4. spHandlers' = {}
    BY <1>i, <2>2, <2>3
  <2>5. SpAnimInv'
    BY <1>i, <2>2 DEF SpAnimInv, SpLive
  <2>6. SpCallInv'
    BY <2>1, <2>2, <2>3, <2>4 DEF SpCallInv
  <2> QED
    BY <1>i, <1>t, <2>2, <2>4, <2>5, <2>6 DEF SpinInv
<1>7. ASSUME NEW c \in SpCallers, SpClose(c) PROVE SpinInv'
  <2>1. /\ spPc'[c] = IF spWait[c] = 0 THEN "idle" ELSE "wait"
        /\ \A d \in SpCallers : d # c => spPc[d] = "idle" /\ spPc'[d] = "idle"
    BY <1>7, <1>i, <1>t DEF SpClose, SpCallInv, SpinTypeOK, SpTypes
  <2>2. SpAnimInv'
    BY <1>7, <1>i DEF SpClose, SpAnimInv, SpLive
  <2>3. SpCallInv'
    <3>1. spDone = 0 => \A r \in SpRounds : ~SpLive(r)'
      BY <1>7, <1>i DEF SpClose, SpAnimInv, SpLive
    <3>2. /\ ~spRunning' /\ spHandlers' = {} /\ spWait'[c] = spDone'
          /\ spMine'[c] = spRound' /\ spRound' # 0 /\ spWait[c] = spDone /\ spDone' = spDone
      BY <1>7, <1>i DEF SpClose, SpCallInv
    <3> QED
      BY <2>1, <3>1, <3>2 DEF SpCallInv
  <2> QED
    <3>1. spRound \in 1..spRound /\ spMine[c] = spRound
      BY <1>7, <1>i, <1>t DEF SpClose, SpCallInv, SpinTypeOK, SpTypes
    <3>2. spEnded' \subseteq 1..spRound'
      BY <1>7, <1>i, <3>1 DEF SpClose
    <3> QED
      BY <1>7, <1>i, <1>t, <2>2, <2>3, <3>2 DEF SpClose, SpinInv
<1>8. ASSUME NEW c \in SpCallers, SpWaited(c) PROVE SpinInv'
  <2>1. /\ spPc[c] = "wait" /\ spPc'[c] = "idle" /\ spWait[c] \in spFinished
        /\ \A d \in SpCallers : d # c => spPc'[d] = "idle"
    BY <1>8, <1>i, <1>t DEF SpWaited, SpCallInv, SpinTypeOK, SpTypes
  <2>2. UNCHANGED <<spRunning, spRound, spDone, spFinished, spEnded, spPanic, spAnim, spAnimStop,
                    spAnimDone, spHandlers>>
    BY <1>8 DEF SpWaited
  <2>3. ~spRunning /\ spHandlers = {} /\ spWait[c] = spDone
    BY <1>i, <2>1 DEF SpCallInv
  <2>4. \A r \in SpRounds : ~SpLive(r)
    BY <1>i, <2>1, <2>3 DEF SpAnimInv
  <2>5. SpAnimInv'
    BY <1>i, <2>2 DEF SpAnimInv, SpLive
  <2>6. SpCallInv'
    BY <2>1, <2>2, <2>3, <2>4 DEF SpCallInv, SpLive
  <2> QED
    BY <1>i, <1>t, <2>2, <2>5, <2>6 DEF SpinInv
<1>9. ASSUME NEW r \in SpRounds, SpAnimate(r) PROVE SpinInv'
  <2>1. /\ r = spRound /\ spDone = r /\ r \notin spFinished
        /\ \A q \in SpRounds : SpLive(q) => q = r
    BY <1>9, <1>i DEF SpAnimate, SpAnimInv, SpLive
  <2>2. /\ spAnimStop'[r] = r /\ spAnimDone'[r] = r
        /\ \A q \in SpRounds : SpLive(q)' <=> SpLive(q)
    BY <1>9, <1>t, <2>1 DEF SpAnimate, SpLive, SpinTypeOK, SpTypes
  <2>3. UNCHANGED <<spRunning, spRound, spDone, spSig, spFinished, spEnded, spHandlers, spPc,
                    spMine, spWait, spPanic>>
    BY <1>9 DEF SpAnimate
  <2>4. SpAnimInv'
    BY <2>1, <2>2, <2>3 DEF SpAnimInv
  <2>5. SpCallInv'
    BY <1>i, <2>2, <2>3 DEF SpCallInv
  <2> QED
    BY <1>i, <1>t, <2>3, <2>4, <2>5 DEF SpinInv
<1>10. ASSUME NEW r \in SpRounds, SpFrame(r) PROVE SpinInv'
  <2>1. /\ r = spRound /\ \A q \in SpRounds : SpLive(q) => q = r
    BY <1>10, <1>i DEF SpFrame, SpAnimInv, SpLive
  <2>2. spAnimStop'[r] = r
    BY <1>10, <1>t, <2>1 DEF SpFrame, SpinTypeOK, SpTypes
  <2>3. UNCHANGED <<spRunning, spRound, spDone, spSig, spFinished, spEnded, spHandlers, spPc,
                    spMine, spWait, spPanic, spAnim, spAnimDone>>
    BY <1>10 DEF SpFrame
  <2>4. SpAnimInv'
    BY <1>i, <2>1, <2>2, <2>3 DEF SpAnimInv, SpLive
  <2>5. SpCallInv'
    BY <1>i, <2>3 DEF SpCallInv, SpLive
  <2> QED
    BY <1>i, <1>t, <2>3, <2>4, <2>5 DEF SpinInv
<1>11. ASSUME NEW r \in SpRounds, SpLeave(r) PROVE SpinInv'
  <2>1. /\ r = spRound /\ spDone = r /\ r \notin spFinished /\ spAnimDone[r] = r
        /\ \A q \in SpRounds : SpLive(q) => q = r
    BY <1>11, <1>i DEF SpLeave, SpAnimInv, SpLive
  <2>2. \A q \in SpRounds : ~SpLive(q)'
    BY <1>11, <1>t, <2>1 DEF SpLeave, SpLive, SpinTypeOK, SpTypes
  <2>3. UNCHANGED <<spRunning, spRound, spDone, spSig, spEnded, spHandlers, spPc, spMine, spWait>>
    BY <1>11 DEF SpLeave
  <2>4. spFinished' = spFinished \cup {r} /\ ~spPanic' /\ r # 0
    <3>1. r # 0 /\ {spAnimDone[r]} \ {0} = {r}
      BY <2>1
    <3>2. spFinished' = spFinished \cup {r}
      BY <1>11, <3>1 DEF SpLeave
    <3>3. ~(spPanic \/ spAnimDone[r] \in spFinished \cup {0})
      BY <1>i, <2>1, <3>1
    <3>4. ~spPanic'
      BY <1>11, <3>3, Zenon DEF SpLeave
    <3> QED
      BY <3>1, <3>2, <3>4
  <2>5. SpAnimInv'
    BY <1>i, <2>2, <2>3 DEF SpAnimInv
  <2>6. SpCallInv'
    BY <1>i, <2>1, <2>2, <2>3, <2>4 DEF SpCallInv
  <2> QED
    BY <1>i, <1>t, <2>1, <2>3, <2>4, <2>5, <2>6 DEF SpinInv
<1>12. CASE SpSignal
  BY <1>12, <1>i, <1>t DEF SpSignal, SpinInv, SpCallInv, SpAnimInv, SpLive
<1>13. CASE UNCHANGED spinVars
  BY <1>13, <1>i, <1>t DEF spinVars, SpinInv, SpCallInv, SpAnimInv, SpLive
<1> QED
  BY <1>1, <1>2, <1>3, <1>4, <1>5, <1>6, <1>7, <1>8, <1>9, <1>10, <1>11, <1>12, <1>13
  DEF SpinNext

\* When Start and Stop do not overlap, Stop leaves neither an animation nor a signal
\* handler behind, and no channel that is nil or closed is closed (Start, Stop, animate).
THEOREM SpinnerGoesQuiet == SpinSpec => []SpinQuiet
<1>1. SpinSpec => []SpinInv
  BY SpinInvInit, SpinInvStep, PTL DEF SpinSpec
<1>2. SpinInv => SpinQuiet
  BY DEF SpinInv, SpinQuiet, SpCallInv, SpLive, SpCalling
<1> QED
  BY <1>1, <1>2, PTL

-----------------------------------------------------------------------------
(* The error sink *)

SinkTypes ==
  /\ skQueue \in Seq(Nat \ {0}) /\ skHandled \in Seq(Nat)
  /\ skHand \in Nat /\ skAccepted \in Nat
  /\ skWorker \in {"select", "drain", "handling", "draining", "exited"}
  /\ skClose \in [SinkClosers ->
       {"idle", "waiting", "locked", "cancelled", "shut", "waited", "returned"}]

SinkInHand == IF skHand = 0 THEN 0 ELSE 1

\* Errors are numbered as they are accepted: those handled, the one in hand and those in
\* the channel follow each other.
SinkNumbers ==
  /\ Len(skHandled) + SinkInHand + Len(skQueue) = skAccepted
  /\ \A i \in 1..Len(skHandled) : skHandled[i] = i
  /\ skHand # 0 => skHand = Len(skHandled) + 1
  /\ \A i \in 1..Len(skQueue) : skQueue[i] = Len(skHandled) + SinkInHand + i

\* Only a closed sink, which accepts nothing, is cancelled or shut, and only then does the
\* worker drain and leave.
SinkOrder ==
  /\ skCancelled \/ skShut => skClosed
  /\ skWorker \in {"drain", "draining", "exited"} => skClosed
  /\ skHand # 0 <=> skWorker \in {"handling", "draining"}
  /\ skWorker = "exited" => skQueue = <<>>
  /\ \A c \in SinkClosers :
       /\ skClose[c] \in {"locked", "cancelled", "shut", "waited"} => skClosed
       /\ skClose[c] = "waited" /\ ~skTimedOut => skWorker = "exited"
  /\ skDriverClosed /\ ~skTimedOut => skWorker = "exited"

SinkInv == SinkTypes /\ SinkNumbers /\ SinkOrder

LEMMA SinkInvInit == SinkInit => SinkInv
  BY DEF SinkInit, SinkInv, SinkTypes, SinkNumbers, SinkOrder, SinkInHand

\* A step that leaves the channel, the worker's hand and the counts alone.
LEMMA SinkNumbersKept ==
  SinkNumbers /\ UNCHANGED <<skQueue, skHand, skAccepted, skHandled>> => SinkNumbers'
  BY DEF SinkNumbers, SinkInHand

LEMMA SinkInvStep == SinkInv /\ [SinkNext]_sinkVars => SinkInv'
<1> SUFFICES ASSUME SinkInv, [SinkNext]_sinkVars PROVE SinkInv'
  OBVIOUS
<1> USE DEF SinkInv
<1>1. ASSUME NEW c \in SinkCallers, SinkHandleCall(c) PROVE SinkInv'
  BY <1>1, SinkNumbersKept DEF SinkHandleCall, SinkTypes, SinkOrder
<1>2. ASSUME NEW c \in SinkCallers, SinkHandle(c) PROVE SinkInv'
  <2>1. CASE ~skClosed /\ skQueue' = Append(skQueue, skAccepted + 1)
                       /\ skAccepted' = skAccepted + 1
    <3>1. UNCHANGED <<skHand, skHandled, skWorker, skClosed, skClose, skCancelled, skShut,
                      skTimedOut, skDriverClosed>>
      BY <1>2 DEF SinkHandle
    <3>2. /\ Len(skQueue') = Len(skQueue) + 1
          /\ skQueue'[Len(skQueue) + 1] = skAccepted + 1
          /\ \A i \in 1..Len(skQueue) : skQueue'[i] = skQueue[i]
      BY <2>1 DEF SinkTypes
    <3>3. SinkNumbers'
      <4> DEFINE k == Len(skHandled) + SinkInHand
      <4>1. SinkInHand' = SinkInHand /\ k' = k /\ k \in Nat /\ Len(skQueue) \in Nat
        BY <3>1 DEF SinkInHand, SinkTypes
      <4>2. k + Len(skQueue) = skAccepted
        BY DEF SinkNumbers
      <4>3. \A i \in 1..Len(skQueue) : skQueue[i] = k + i
        BY DEF SinkNumbers
      <4> HIDE DEF k
      <4>4. \A i \in 1..(Len(skQueue) + 1) : skQueue'[i] = k + i
        BY <3>2, <4>1, <4>2, <4>3
      <4>5. k + Len(skQueue') = skAccepted'
        BY <2>1, <3>2, <4>1, <4>2
      <4>6. \A i \in 1..Len(skQueue') : skQueue'[i] = k' + i
        BY <3>2, <4>1, <4>4
      <4> QED
        BY <3>1, <4>1, <4>5, <4>6 DEF SinkNumbers, k
    <3> QED
      BY <2>1, <3>1, <3>3 DEF SinkTypes, SinkOrder
  <2>2. CASE UNCHANGED <<skQueue, skAccepted>>
    BY <1>2, <2>2, SinkNumbersKept DEF SinkHandle, SinkTypes, SinkOrder
  <2> QED
    BY <1>2, <2>1, <2>2 DEF SinkHandle
<1>3. ASSUME NEW c \in SinkClosers, SinkCloseCall(c) PROVE SinkInv'
  BY <1>3, SinkNumbersKept DEF SinkCloseCall, SinkTypes, SinkOrder
<1>4. ASSUME NEW c \in SinkClosers, SinkLock(c) PROVE SinkInv'
  BY <1>4, SinkNumbersKept DEF SinkLock, SinkTypes, SinkOrder
<1>5. ASSUME NEW c \in SinkClosers, SinkCancel(c) PROVE SinkInv'
  BY <1>5, SinkNumbersKept DEF SinkCancel, SinkTypes, SinkOrder
<1>6. ASSUME NEW c \in SinkClosers, SinkShut(c) PROVE SinkInv'
  BY <1>6, SinkNumbersKept DEF SinkShut, SinkTypes, SinkOrder
<1>7. ASSUME NEW c \in SinkClosers, SinkWaited(c) PROVE SinkInv'
  BY <1>7, SinkNumbersKept DEF SinkWaited, SinkTypes, SinkOrder
<1>8. ASSUME NEW c \in SinkClosers, SinkCloseDriver(c) PROVE SinkInv'
  BY <1>8, SinkNumbersKept DEF SinkCloseDriver, SinkTypes, SinkOrder
<1>9. CASE SinkTake
  <2>1. /\ skHand' = Head(skQueue) /\ skQueue' = Tail(skQueue) /\ skQueue # <<>>
        /\ UNCHANGED <<skHandled, skAccepted>> /\ skHand = 0
    BY <1>9 DEF SinkTake, SinkOrder
  <2>2. /\ skHand' = skQueue[1] /\ skHand' \in Nat \ {0} /\ Len(skQueue) >= 1
        /\ Len(skQueue') = Len(skQueue) - 1
        /\ \A i \in 1..(Len(skQueue) - 1) : skQueue'[i] = skQueue[i + 1]
        /\ skQueue' \in Seq(Nat \ {0})
    BY <2>1 DEF SinkTypes
  <2>3. SinkNumbers'
    <3>1. 1 \in 1..Len(skQueue) /\ \A i \in 1..(Len(skQueue) - 1) : i + 1 \in 1..Len(skQueue)
      BY <2>2 DEF SinkTypes
    <3>2. /\ skHand' = Len(skHandled) + 1
          /\ \A i \in 1..(Len(skQueue) - 1) : skQueue[i + 1] = Len(skHandled) + (i + 1)
      BY <2>1, <2>2, <3>1 DEF SinkNumbers, SinkInHand, SinkTypes
    <3>3. /\ SinkInHand = 0 /\ SinkInHand' = 1 /\ Len(skHandled') = Len(skHandled)
          /\ Len(skHandled) \in Nat /\ Len(skQueue) \in Nat
      BY <2>1, <2>2 DEF SinkInHand, SinkTypes
    <3>4. Len(skHandled') + SinkInHand' + Len(skQueue') = skAccepted'
      BY <2>1, <2>2, <3>3 DEF SinkNumbers
    <3>5. \A i \in 1..Len(skQueue') : skQueue'[i] = Len(skHandled') + SinkInHand' + i
      BY <2>2, <3>2, <3>3
    <3> QED
      BY <2>1, <3>2, <3>4, <3>5 DEF SinkNumbers
  <2> QED
    BY <1>9, <2>1, <2>2, <2>3 DEF SinkTake, SinkTypes, SinkOrder
<1>10. CASE SinkNotice
  BY <1>10, SinkNumbersKept DEF SinkNotice, SinkTypes, SinkOrder
<1>11. CASE SinkExit
  BY <1>11, SinkNumbersKept DEF SinkExit, SinkTypes, SinkOrder
<1>12. CASE SinkDriverReturns
  <2>1. /\ skHandled' = Append(skHandled, skHand) /\ skHand' = 0 /\ skHand # 0
        /\ UNCHANGED <<skQueue, skAccepted>>
    BY <1>12 DEF SinkDriverReturns, SinkOrder
  <2>2. /\ Len(skHandled') = Len(skHandled) + 1
        /\ skHandled'[Len(skHandled) + 1] = skHand
        /\ \A i \in 1..Len(skHandled) : skHandled'[i] = skHandled[i]
        /\ skHandled' \in Seq(Nat)
    BY <2>1 DEF SinkTypes
  <2>3. SinkNumbers'
    BY <2>1, <2>2 DEF SinkNumbers, SinkInHand, SinkTypes
  <2> QED
    BY <1>12, <2>1, <2>2, <2>3 DEF SinkDriverReturns, SinkTypes, SinkOrder
<1>13. CASE UNCHANGED sinkVars
  BY <1>13, SinkNumbersKept DEF sinkVars, SinkTypes, SinkOrder
<1> QED
  BY <1>1, <1>2, <1>3, <1>4, <1>5, <1>6, <1>7, <1>8, <1>9, <1>10, <1>11, <1>12, <1>13
  DEF SinkNext, SinkCallerSteps, SinkCloserSteps, SinkWorkerSteps

LEMMA SinkInvStranded == SinkInv => SinkNothingStranded
<1> SUFFICES ASSUME SinkInv PROVE SinkNothingStranded
  OBVIOUS
<1> USE DEF SinkInv
<1> DEFINE hand == IF skHand = 0 THEN <<>> ELSE <<skHand>>
<1> DEFINE all == skHandled \o hand \o skQueue
<1> DEFINE n == Len(skHandled)
<1>1. hand \in Seq(Nat) /\ Len(hand) = SinkInHand
  BY DEF SinkTypes, SinkInHand
<1>2. skQueue \in Seq(Nat) /\ skHandled \in Seq(Nat)
  BY DEF SinkTypes
<1>3. all \in Seq(Nat) /\ Len(all) = skAccepted
  <2>1. skHandled \o hand \in Seq(Nat) /\ Len(skHandled \o hand) = n + SinkInHand
    BY <1>1, <1>2
  <2> HIDE DEF hand
  <2> QED
    BY <1>2, <2>1 DEF SinkNumbers
<1>4. \A i \in 1..skAccepted : all[i] = i
  <2> SUFFICES ASSUME NEW i \in 1..skAccepted PROVE all[i] = i
    OBVIOUS
  <2>1. skHandled \o hand \in Seq(Nat) /\ Len(skHandled \o hand) = n + SinkInHand
    BY <1>1, <1>2
  <2>2. \A j \in 1..(n + SinkInHand) : (skHandled \o hand)[j] = j
    BY <1>1, <1>2 DEF SinkNumbers, SinkInHand
  <2>3. CASE i <= n + SinkInHand
    <3>1. i \in 1..(n + SinkInHand)
      BY <2>3 DEF SinkTypes
    <3> HIDE DEF hand
    <3> QED
      BY <1>2, <2>1, <2>2, <3>1
  <2>4. CASE i > n + SinkInHand
    <3>1. i - (n + SinkInHand) \in 1..Len(skQueue)
      BY <2>4, <1>2 DEF SinkNumbers, SinkInHand, SinkTypes
    <3>2. all[i] = skQueue[i - (n + SinkInHand)]
      <4> HIDE DEF hand
      <4> QED
        BY <1>2, <2>1, <2>4, <3>1 DEF SinkNumbers
    <3>3. n \in Nat /\ SinkInHand \in Nat /\ i \in Int
      BY <1>2 DEF SinkInHand
    <3>4. skQueue[i - (n + SinkInHand)] = n + SinkInHand + (i - (n + SinkInHand))
      BY <3>1 DEF SinkNumbers
    <3>5. n + SinkInHand + (i - (n + SinkInHand)) = i
      BY <3>3
    <3> HIDE DEF all, n
    <3> QED
      BY <3>2, <3>4, <3>5
  <2> QED
    <3>1. n + SinkInHand \in Nat /\ i \in Int
      BY <1>2 DEF SinkInHand, SinkTypes
    <3>2. i <= n + SinkInHand \/ i > n + SinkInHand
      BY <3>1
    <3> QED
      BY <2>3, <2>4, <3>2
<1>5. all = [i \in 1..skAccepted |-> i]
  <2> HIDE DEF all
  <2> QED
    BY <1>3, <1>4
<1>6. skWorker = "exited" => Len(skHandled) = skAccepted
  BY DEF SinkOrder, SinkNumbers, SinkInHand, SinkTypes
<1> QED
  BY <1>5, <1>6 DEF SinkNothingStranded, SinkOrder

\* For any number of callers, closers and errors, and any capacity: what Handle has accepted
\* is handled once and in order before the worker leaves, and unless Close ran out of
\* time the driver is closed only after that.
THEOREM NothingStranded == SinkSpec => []SinkNothingStranded
<1>1. SinkSpec => []SinkInv
  BY SinkInvInit, SinkInvStep, PTL DEF SinkSpec
<1> QED
  BY <1>1, SinkInvStranded, PTL

-----------------------------------------------------------------------------
(* The JetStream listener *)

\* The message a subscriber has fetched, from the fetch to its answer.
NsHolds(s, m) == nsBatch[s] = <<m>>

NsServer ==
  \A m \in Msg :
    /\ nsMsg[m] \in {"none", "ready"} => nsCount[m] < MaxDeliver
    /\ nsMsg[m] = "acked" => m \in nsSucceeded
    /\ nsMsg[m] = "givenUp" => nsCount[m] = MaxDeliver
    /\ nsMsg[m] = "discarded" => m + StreamMaxMsgs \in Msg /\ nsMsg[m + StreamMaxMsgs] # "none"

NsLoops ==
  \A s \in Subscribers :
    IF nsPc[s] \in {"fetch", "stopped"} THEN nsBatch[s] = <<>>
    ELSE \E m \in Msg : NsHolds(s, m) /\ (nsPc[s] = "ack" => m \in nsSucceeded)

\* While its holder is in time, a message is not ready and nobody else has it; the
\* server has heard of the callback that has it.
NsInTimeAlone ==
  \A s \in Subscribers : \A m \in Msg : NsHolds(s, m) /\ m \notin nsLate =>
    /\ nsMsg[m] \in {"pending", "discarded"}
    /\ nsPc[s] = "callback" => s \in nsHeard
    /\ \A t \in Subscribers : NsHolds(t, m) => t = s

NatsInv == NatsTypeOK /\ NsServer /\ NsLoops /\ NsInTimeAlone

LEMMA NatsInvInit == NatsInit => NatsInv
<1> SUFFICES ASSUME NatsInit PROVE NatsInv
  OBVIOUS
<1>1. NatsTypeOK
  BY NatsAssumption DEF NatsInit, NatsTypeOK
<1>2. NsServer
  BY NatsAssumption DEF NatsInit, NsServer
<1>3. \A s \in Subscribers : nsPc[s] = "fetch" /\ nsBatch[s] = <<>>
  BY DEF NatsInit
<1>4. NsLoops
  BY <1>3 DEF NsLoops
<1>5. NsInTimeAlone
  BY <1>3 DEF NsInTimeAlone, NsHolds
<1> QED
  BY <1>1, <1>2, <1>4, <1>5 DEF NatsInv

LEMMA NsAgainKinds ==
  ASSUME NatsTypeOK, NEW m \in Msg
  PROVE  \/ NsAgain(m) = "ready" /\ nsCount[m] < MaxDeliver
         \/ NsAgain(m) = "givenUp" /\ nsCount[m] = MaxDeliver
  BY NatsAssumption DEF NatsTypeOK, NsAgain

LEMMA NatsInvStep == NatsInv /\ [NatsNext]_natsVars => NatsInv'
<1> SUFFICES ASSUME NatsInv, [NatsNext]_natsVars PROVE NatsInv'
  OBVIOUS
<1> USE NatsAssumption
<1>t. NatsTypeOK /\ NsServer /\ NsLoops /\ NsInTimeAlone
  BY DEF NatsInv
<1>1. ASSUME NEW m \in Msg, NsPublish(m) PROVE NatsInv'
  <2>1. /\ nsMsg[m] = "none" /\ UNCHANGED <<nsCount, nsBatch, nsPc, nsHeard, nsSucceeded, nsLate>>
        /\ nsMsg' = [k \in Msg |->
             IF k = m THEN "ready"
             ELSE IF k = m - StreamMaxMsgs /\ nsMsg[k] \in {"ready", "pending"}
                  THEN "discarded" ELSE nsMsg[k]]
    BY <1>1 DEF NsPublish
  <2>2. NatsTypeOK'
    BY <1>t, <2>1 DEF NatsTypeOK
  <2>3. \A k \in Msg : k = m - StreamMaxMsgs => k + StreamMaxMsgs = m /\ k # m
    BY DEF Msg
  <2>4. NsServer'
    BY <1>t, <2>1, <2>3 DEF NsServer
  <2>5. NsLoops'
    BY <1>t, <2>1 DEF NsLoops, NsHolds
  <2>6. NsInTimeAlone'
    BY <1>t, <2>1 DEF NsInTimeAlone, NsHolds
  <2> QED
    BY <2>2, <2>4, <2>5, <2>6 DEF NatsInv
<1>2. ASSUME NEW m \in Msg, NsExpire(m) PROVE NatsInv'
  <2>1. /\ nsMsg[m] = "pending" /\ UNCHANGED <<nsCount, nsBatch, nsPc, nsHeard, nsSucceeded>>
        /\ nsMsg' = [nsMsg EXCEPT ![m] = NsAgain(m)]
        /\ nsLate' = nsLate \cup
             {k \in {m} : \E s \in Subscribers : NsHas(s, k) /\ nsPc[s] # "callback"}
        /\ \A s \in Subscribers : ~NsInTime(s, m)
    BY <1>2 DEF NsExpire
  <2>2. NatsTypeOK'
    BY <1>t, <2>1, NsAgainKinds DEF NatsTypeOK
  <2>3. \A k \in Msg : nsMsg'[k] = IF k = m THEN NsAgain(m) ELSE nsMsg[k]
    BY <1>t, <2>1 DEF NatsTypeOK
  <2>4. NsServer'
    BY <1>t, <2>1, <2>3, NsAgainKinds DEF NsServer
  <2>5. NsLoops'
    BY <1>t, <2>1 DEF NsLoops, NsHolds
  <2>6. ASSUME NEW s \in Subscribers, NsHolds(s, m) PROVE m \in nsLate'
    <3>1. NsHas(s, m)
      BY <2>6 DEF NsHolds, NsHas
    <3>2. CASE nsPc[s] = "callback"
      <4>1. m \in nsLate \/ s \notin nsHeard
        BY <2>1, <3>1, <3>2 DEF NsInTime
      <4> QED
        BY <1>t, <2>1, <2>6, <3>2, <4>1 DEF NsInTimeAlone
    <3>3. CASE nsPc[s] # "callback"
      BY <2>1, <3>1, <3>3
    <3> QED
      BY <3>2, <3>3
  <2>7. NsInTimeAlone'
    BY <1>t, <2>1, <2>3, <2>6 DEF NsInTimeAlone, NsHolds
  <2> QED
    BY <2>2, <2>4, <2>5, <2>7 DEF NatsInv
<1>3. ASSUME NEW s \in Subscribers, NsFetch(s) PROVE NatsInv'
  <2>1. PICK m \in Ready : /\ NsDeliver(s, {m})
                           /\ \/ /\ nsBatch' = [nsBatch EXCEPT ![s] = <<m>>]
                                 /\ nsPc' = [nsPc EXCEPT ![s] = "report"]
                              \/ UNCHANGED <<nsBatch, nsPc>>
    BY <1>3 DEF NsFetch
  <2>2. /\ m \in Msg /\ nsMsg[m] = "ready" /\ UNCHANGED <<nsHeard, nsSucceeded, nsLate>>
        /\ nsPc[s] = "fetch"
        /\ nsMsg' = [k \in Msg |-> IF k = m THEN "pending" ELSE nsMsg[k]]
        /\ nsCount' = [k \in Msg |-> IF k = m THEN nsCount[k] + 1 ELSE nsCount[k]]
    BY <1>3, <2>1 DEF NsFetch, Ready, NsDeliver
  <2>3. nsCount[m] + 1 \in 0..MaxDeliver
    BY <1>t, <2>2 DEF NsServer, NatsTypeOK
  <2>4. NatsTypeOK'
    <3>1. nsMsg' \in [Msg -> {"none", "ready", "pending", "acked", "givenUp", "discarded"}]
      BY <1>t, <2>2 DEF NatsTypeOK
    <3>2. nsCount' \in [Msg -> 0..MaxDeliver]
      BY <1>t, <2>2, <2>3 DEF NatsTypeOK
    <3>3. nsBatch' \in [Subscribers -> Seq(Msg)]
      <4>1. <<m>> \in Seq(Msg)
        BY <2>2
      <4> QED
        BY <1>t, <2>1, <4>1 DEF NatsTypeOK
    <3>4. nsPc' \in [Subscribers -> {"fetch", "report", "callback", "ack", "nak", "stopped"}]
      BY <1>t, <2>1 DEF NatsTypeOK
    <3> QED
      BY <1>t, <2>2, <3>1, <3>2, <3>3, <3>4 DEF NatsTypeOK
  <2>5. NsServer'
    BY <1>t, <2>2 DEF NsServer
  <2>6. \A t \in Subscribers : NsHolds(t, m) => m \in nsLate
    BY <1>t, <2>2 DEF NsInTimeAlone
  <2>7. \/ /\ nsBatch'[s] = <<m>> /\ nsPc'[s] = "report"
           /\ \A t \in Subscribers : t # s => nsBatch'[t] = nsBatch[t] /\ nsPc'[t] = nsPc[t]
        \/ UNCHANGED <<nsBatch, nsPc>>
    BY <1>t, <2>1 DEF NatsTypeOK
  <2>8. NsLoops'
    BY <1>t, <2>2, <2>7 DEF NsLoops, NsHolds
  <2>9. \A k \in Msg : <<k>> = <<m>> => k = m
    OBVIOUS
  <2>10. NsInTimeAlone'
    <3> SUFFICES ASSUME NEW u \in Subscribers, NEW k \in Msg, NsHolds(u, k)', k \notin nsLate
                 PROVE  /\ nsMsg'[k] \in {"pending", "discarded"}
                        /\ nsPc'[u] = "callback" => u \in nsHeard'
                        /\ \A t \in Subscribers : NsHolds(t, k)' => t = u
      BY <2>2 DEF NsInTimeAlone
    <3>1. CASE UNCHANGED <<nsBatch, nsPc>>
      BY <1>t, <2>2, <2>6, <3>1 DEF NsInTimeAlone, NsHolds
    <3>2. CASE /\ nsBatch'[s] = <<m>> /\ nsPc'[s] = "report"
               /\ \A t \in Subscribers : t # s => nsBatch'[t] = nsBatch[t] /\ nsPc'[t] = nsPc[t]
      <4>1. CASE u = s
        BY <2>2, <2>6, <2>9, <3>2, <4>1 DEF NsHolds
      <4>2. CASE u # s
        BY <1>t, <2>2, <2>6, <2>9, <3>2, <4>2 DEF NsHolds, NsInTimeAlone
      <4> QED
        BY <4>1, <4>2
    <3> QED
      BY <2>7, <3>1, <3>2
  <2> QED
    BY <2>4, <2>5, <2>8, <2>10 DEF NatsInv
<1>4. ASSUME NEW s \in Subscribers, NsOverrun(s) PROVE NatsInv'
  <2>1. PICK m \in Msg : NsHolds(s, m)
    BY <1>4, <1>t DEF NsOverrun, NsLoops
  <2>2. /\ nsLate' = nsLate \cup {m}
        /\ UNCHANGED <<nsMsg, nsCount, nsBatch, nsPc, nsHeard, nsSucceeded>>
    BY <1>4, <2>1 DEF NsOverrun, NsHolds
  <2> QED
    BY <1>t, <2>2 DEF NatsInv, NatsTypeOK, NsServer, NsLoops, NsInTimeAlone, NsHolds
<1>5. ASSUME NEW s \in Subscribers, NsReturn(s) PROVE NatsInv'
  <2>1. PICK m \in Msg : NsHolds(s, m)
    BY <1>5, <1>t DEF NsReturn, NsLoops
  <2>2. /\ nsPc[s] = "callback" /\ UNCHANGED <<nsMsg, nsCount, nsBatch, nsLate>>
        /\ nsHeard' = nsHeard \ {s}
        /\ \/ nsSucceeded' = nsSucceeded \cup {m} /\ nsPc' = [nsPc EXCEPT ![s] = "ack"]
           \/ nsPc' = [nsPc EXCEPT ![s] = "nak"] /\ UNCHANGED nsSucceeded
    BY <1>5, <2>1 DEF NsReturn, NsHolds
  <2>3. NatsTypeOK'
    BY <1>t, <2>2 DEF NatsTypeOK
  <2>4. NsServer'
    BY <1>t, <2>2 DEF NsServer
  <2>5. /\ nsPc'[s] \in {"ack", "nak"} /\ (nsPc'[s] = "ack" => m \in nsSucceeded')
        /\ \A t \in Subscribers : t # s => nsPc'[t] = nsPc[t]
        /\ nsSucceeded \subseteq nsSucceeded'
    BY <1>t, <2>2 DEF NatsTypeOK
  <2>6. NsLoops'
    BY <1>t, <2>1, <2>2, <2>5 DEF NsLoops, NsHolds
  <2>7. NsInTimeAlone'
    BY <1>t, <2>2, <2>5 DEF NsInTimeAlone, NsHolds
  <2> QED
    BY <2>3, <2>4, <2>6, <2>7 DEF NatsInv
<1>6. ASSUME NEW s \in Subscribers, NsAnswer(s) PROVE NatsInv'
  <2>1. PICK m \in Msg : NsHolds(s, m) /\ (nsPc[s] = "ack" => m \in nsSucceeded)
    BY <1>6, <1>t DEF NsAnswer, NsLoops
  <2>2. Head(nsBatch[s]) = m /\ Tail(nsBatch[s]) = <<>> /\ Len(nsBatch[s]) = 1
    BY <2>1 DEF NsHolds
  <2>3. /\ UNCHANGED <<nsCount, nsHeard, nsSucceeded, nsLate>>
        /\ nsBatch' = [nsBatch EXCEPT ![s] = <<>>]
        /\ nsPc' = [nsPc EXCEPT ![s] = "fetch"]
    BY <1>6, <2>2 DEF NsAnswer
  <2>4. \/ nsMsg' = nsMsg
        \/ nsPc[s] = "ack" /\ nsMsg' = [nsMsg EXCEPT ![m] = "acked"]
        \/ nsMsg[m] = "pending" /\ nsMsg' = [nsMsg EXCEPT ![m] = NsAgain(m)]
    BY <1>6, <1>t, <2>2 DEF NsAnswer, NatsTypeOK
  <2>5. NatsTypeOK'
    <3>1. nsMsg' \in [Msg -> {"none", "ready", "pending", "acked", "givenUp", "discarded"}]
      BY <1>t, <2>4, NsAgainKinds DEF NatsTypeOK
    <3>2. /\ nsBatch' \in [Subscribers -> Seq(Msg)]
          /\ nsPc' \in [Subscribers -> {"fetch", "report", "callback", "ack", "nak", "stopped"}]
      BY <1>t, <2>3 DEF NatsTypeOK
    <3> QED
      BY <1>t, <2>3, <3>1, <3>2 DEF NatsTypeOK
  <2>6. NsServer'
    BY <1>t, <2>1, <2>3, <2>4, NsAgainKinds DEF NsServer, NatsTypeOK
  <2>7. /\ nsBatch'[s] = <<>> /\ nsPc'[s] = "fetch"
        /\ \A t \in Subscribers : t # s => nsBatch'[t] = nsBatch[t] /\ nsPc'[t] = nsPc[t]
    BY <1>t, <2>3 DEF NatsTypeOK
  <2>8. NsLoops'
    BY <1>t, <2>3, <2>7 DEF NsLoops, NsHolds
  <2>9. \A k \in Msg : k # m => nsMsg'[k] = nsMsg[k]
    BY <2>4, <1>t DEF NatsTypeOK
  <2>10. NsInTimeAlone'
    <3> SUFFICES ASSUME NEW u \in Subscribers, NEW k \in Msg, NsHolds(u, k)', k \notin nsLate
                 PROVE  /\ nsMsg'[k] \in {"pending", "discarded"}
                        /\ nsPc'[u] = "callback" => u \in nsHeard'
                        /\ \A t \in Subscribers : NsHolds(t, k)' => t = u
      BY <2>3 DEF NsInTimeAlone
    <3>1. u # s /\ NsHolds(u, k) /\ \A t \in Subscribers : NsHolds(t, k)' => NsHolds(t, k)
      BY <2>7 DEF NsHolds
    <3>2. k # m
      BY <1>t, <2>1, <3>1 DEF NsInTimeAlone
    <3> QED
      BY <1>t, <2>3, <2>7, <2>9, <3>1, <3>2 DEF NsInTimeAlone
  <2> QED
    BY <2>5, <2>6, <2>8, <2>10 DEF NatsInv
<1>7. ASSUME NEW s \in Subscribers, NsStop(s) PROVE NatsInv'
  <2>1. /\ nsPc[s] = "fetch" /\ nsPc' = [nsPc EXCEPT ![s] = "stopped"]
        /\ UNCHANGED <<nsMsg, nsCount, nsBatch, nsHeard, nsSucceeded, nsLate>>
    BY <1>7 DEF NsStop
  <2>2. NatsTypeOK'
    BY <1>t, <2>1 DEF NatsTypeOK
  <2>3. nsPc'[s] = "stopped" /\ \A t \in Subscribers : t # s => nsPc'[t] = nsPc[t]
    BY <1>t, <2>1 DEF NatsTypeOK
  <2>4. NsServer' /\ NsLoops'
    BY <1>t, <2>1, <2>3 DEF NsServer, NsLoops, NsHolds
  <2>5. NsInTimeAlone'
    BY <1>t, <2>1, <2>3 DEF NsInTimeAlone, NsHolds
  <2> QED
    BY <2>2, <2>4, <2>5 DEF NatsInv
<1>8. ASSUME NEW s \in Subscribers, NsReport(s) PROVE NatsInv'
  <2>1. PICK m \in Msg : NsHolds(s, m)
    BY <1>8, <1>t DEF NsReport, NsLoops
  <2>2. /\ nsPc[s] = "report" /\ nsPc' = [nsPc EXCEPT ![s] = "callback"]
        /\ UNCHANGED <<nsMsg, nsCount, nsBatch, nsSucceeded>>
        /\ \/ nsHeard' = nsHeard \cup {s} /\ nsLate' = nsLate
           \/ nsLate' = nsLate \cup {m} /\ nsHeard' = nsHeard
    BY <1>8, <2>1 DEF NsReport, NsHolds
  <2>3. NatsTypeOK'
    BY <1>t, <2>2 DEF NatsTypeOK
  <2>4. NsServer'
    BY <1>t, <2>2 DEF NsServer
  <2>5. nsPc'[s] = "callback" /\ \A t \in Subscribers : t # s => nsPc'[t] = nsPc[t]
    BY <1>t, <2>2 DEF NatsTypeOK
  <2>6. NsLoops'
    BY <1>t, <2>1, <2>2, <2>5 DEF NsLoops, NsHolds
  <2>7. NsInTimeAlone'
    <3>1. \A k \in Msg : NsHolds(s, k) => k = m
      BY <2>1 DEF NsHolds
    <3> QED
      BY <1>t, <2>1, <2>2, <2>5, <3>1 DEF NsInTimeAlone, NsHolds
  <2> QED
    BY <2>3, <2>4, <2>6, <2>7 DEF NatsInv
<1>9. CASE UNCHANGED natsVars
  BY <1>t, <1>9 DEF natsVars, NatsInv, NatsTypeOK, NsServer, NsLoops, NsInTimeAlone, NsHolds
<1> QED
  BY <1>1, <1>2, <1>3, <1>4, <1>5, <1>6, <1>7, <1>8, <1>9 DEF NatsNext, NsLoop

LEMMA NatsInvariance == NatsSpec => []NatsInv
  BY NatsInvInit, NatsInvStep, PTL DEF NatsSpec

\* For any number of subscribers, messages and deliveries, and any stream limit: the consumer
\* is done with a message only after a successful callback, its last delivery, or its
\* displacement by newer messages (the callback, then Ack or Nak).
THEOREM NothingIsLost == NatsSpec => []NatsNothingLost
<1>1. NatsInv => NatsNothingLost
  BY DEF NatsInv, NsServer, NatsNothingLost
<1> QED
  BY <1>1, NatsInvariance, PTL

\* For any number of subscribers, messages and deliveries, a message is in two callbacks at
\* once only if the server has not heard in time from a subscriber that had it: InProgress
\* failed, AckWait passed before it or before the answer, or the callback outlived AckWait
\* (Fetch of one, InProgress).
THEOREM OneCallbackInTime == NatsSpec => []NatsOneCallback
<1>1. NatsInv => NatsOneCallback
  <2> SUFFICES ASSUME NatsInv, NEW s \in Subscribers, NEW t \in Subscribers, s # t,
                      nsPc[s] = "callback", nsPc[t] = "callback", nsBatch[s][1] = nsBatch[t][1],
                      nsBatch[s][1] \notin nsLate
               PROVE  FALSE
    BY DEF NatsOneCallback
  <2>1. PICK m \in Msg : NsHolds(s, m)
    BY DEF NatsInv, NsLoops
  <2>2. PICK k \in Msg : NsHolds(t, k)
    BY DEF NatsInv, NsLoops
  <2>3. m = k /\ nsBatch[s][1] = m
    BY <2>1, <2>2 DEF NsHolds
  <2> QED
    BY <2>1, <2>2, <2>3 DEF NatsInv, NsInTimeAlone
<1> QED
  BY <1>1, NatsInvariance, PTL
=============================================================================
