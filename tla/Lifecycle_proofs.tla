-------------------------- MODULE Lifecycle_proofs --------------------------
(***************************************************************************)
(* Theorems about Lifecycle, for any number of instances.  LifecycleInv is *)
(* inductive; each action is shown to keep it, and what it does to the     *)
(* path and to one instance's phase is what the action properties need.    *)
(***************************************************************************)
EXTENDS Lifecycle, TLAPS

LifecycleInv ==
  LifecycleTypeOK /\ OwnerHolds /\ OneChild /\ LaunchesAsked /\ StoppedMeansGone

-----------------------------------------------------------------------------
(* The tray *)

\* Launching is the only thing the tray does to the runtime itself.
LEMMA LaunchKeepsInv ==
  ASSUME LifecycleInv, ~IsRunning, NEW i \in Instances, Launch(i),
         UNCHANGED callVars, label' \in Statuses
  PROVE  LifecycleInv'
<1>. USE LifecycleAssumption
     DEF LifecycleInv, LifecycleTypeOK, Launch, Popen, IsRunning, callVars
<1>1. LifecycleTypeOK'
  BY DEF Phases, Statuses
<1>2. OwnerHolds'
  BY DEF OwnerHolds, HoldsPath
<1>3. OneChild'
  BY DEF OneChild
<1>4. LaunchesAsked' /\ StoppedMeansGone'
  BY DEF LaunchesAsked, StoppedMeansGone
<1>. QED  BY <1>1, <1>2, <1>3, <1>4

LEMMA LaunchFailsKeepsInv ==
  ASSUME LifecycleInv, ~IsRunning, LaunchFails, restart' \in BOOLEAN, restart' => restart,
         UNCHANGED callVars, label' \in Statuses
  PROVE  LifecycleInv'
<1>. USE LifecycleAssumption
     DEF LifecycleInv, LifecycleTypeOK, LaunchFails, IsRunning, runtimeVars, historyVars, callVars
<1>1. LifecycleTypeOK'
  BY DEF Statuses
<1>2. OwnerHolds' /\ OneChild'
  BY DEF OwnerHolds, OneChild
<1>3. LaunchesAsked' /\ StoppedMeansGone'
  BY DEF LaunchesAsked, StoppedMeansGone
<1>. QED  BY <1>1, <1>2, <1>3

LEMMA StartKeepsInv ==
  ASSUME LifecycleInv, start, UNCHANGED <<callVars, label>>
  PROVE  LifecycleInv'
<1>0. label' \in Statuses
  BY DEF LifecycleInv, LifecycleTypeOK
<1>1. CASE IsRunning /\ status' = "Running"
           /\ UNCHANGED <<runtimeVars, process, restart, historyVars, trouble>>
  BY <1>0, <1>1
  DEF LifecycleInv, LifecycleTypeOK, OwnerHolds, OneChild, LaunchesAsked, StoppedMeansGone,
      IsRunning, Statuses, runtimeVars, historyVars, callVars
<1>2. CASE ~IsRunning /\ \E i \in Instances : Launch(i)
  BY <1>0, <1>2, LaunchKeepsInv
<1>3. CASE ~IsRunning /\ LaunchFails /\ UNCHANGED restart
  <2>1. restart' \in BOOLEAN
    BY <1>3 DEF LifecycleInv, LifecycleTypeOK
  <2>. QED  BY <1>0, <1>3, <2>1, LaunchFailsKeepsInv
<1>. QED  BY <1>1, <1>2, <1>3 DEF start

LEMMA ClicksKeepInv ==
  ASSUME LifecycleInv, Clicks
  PROVE  LifecycleInv'
<1>1. CASE ClickStart
  BY <1>1, StartKeepsInv DEF ClickStart
<1>2. CASE ClickStop
  BY <1>2
  DEF LifecycleInv, LifecycleTypeOK, OwnerHolds, OneChild, LaunchesAsked, StoppedMeansGone,
      ClickStop, IsRunning, Statuses, runtimeVars, historyVars
<1>3. CASE ClickRestart
  <2>1. CASE ~IsRunning /\ start /\ UNCHANGED callVars
    BY <1>3, <2>1, StartKeepsInv DEF ClickRestart
  <2>2. CASE /\ IsRunning /\ tray' = "connect" /\ restart' = TRUE /\ asked' = TRUE
             /\ UNCHANGED <<runtimeVars, link, process, status, children, trouble, label>>
    BY <2>2
    DEF LifecycleInv, LifecycleTypeOK, OwnerHolds, OneChild, LaunchesAsked, StoppedMeansGone,
        IsRunning, runtimeVars
  <2>. QED  BY <1>3, <2>1, <2>2 DEF ClickRestart
<1>. QED  BY <1>1, <1>2, <1>3 DEF Clicks

LEMMA RefreshKeepsInv ==
  ASSUME LifecycleInv, Refresh
  PROVE  LifecycleInv'
<1>1. label' = status' /\ UNCHANGED callVars
  BY DEF Refresh
<1>2. CASE /\ process = NoInstance
           /\ UNCHANGED <<runtimeVars, processVars, historyVars, trouble>>
  BY <1>1, <1>2
  DEF LifecycleInv, LifecycleTypeOK, OwnerHolds, OneChild, LaunchesAsked, StoppedMeansGone,
      IsRunning, runtimeVars, processVars, historyVars, callVars
<1>6. CASE /\ IsRunning
           /\ status' = IF status = "Starting" THEN "Running" ELSE status
           /\ UNCHANGED <<runtimeVars, process, restart, historyVars, trouble>>
  <2>1. LifecycleTypeOK'
    BY <1>1, <1>6
    DEF LifecycleInv, LifecycleTypeOK, Statuses, runtimeVars, historyVars, callVars
  <2>2. UNCHANGED <<phase, path, process, children, asked, restart>>
    BY <1>6 DEF runtimeVars, historyVars
  <2>3. StoppedMeansGone'
    BY <1>6, <2>2 DEF LifecycleInv, StoppedMeansGone, IsRunning
  <2>. QED  BY <2>1, <2>2, <2>3 DEF LifecycleInv, OwnerHolds, OneChild, LaunchesAsked
<1>3. CASE /\ ~IsRunning /\ restart' = FALSE /\ process' = NoInstance /\ status' = "Stopped"
           /\ UNCHANGED <<runtimeVars, historyVars, trouble>>
  BY <1>1, <1>3
  DEF LifecycleInv, LifecycleTypeOK, OwnerHolds, OneChild, LaunchesAsked, StoppedMeansGone,
      IsRunning, Statuses, runtimeVars, historyVars, callVars
<1>4. CASE ~IsRunning /\ \E i \in Instances : Launch(i)
  <2>1. label' \in Statuses
    BY <1>1, <1>4 DEF Launch, Statuses
  <2>. QED  BY <1>1, <1>4, <2>1, LaunchKeepsInv
<1>5. CASE ~IsRunning /\ LaunchFails /\ restart' = FALSE
  <2>1. label' \in Statuses
    BY <1>1, <1>5 DEF LaunchFails, Statuses
  <2>. QED  BY <1>1, <1>5, <2>1, LaunchFailsKeepsInv
<1>. QED  BY <1>2, <1>3, <1>4, <1>5, <1>6 DEF Refresh

LEMMA CallsKeepInv ==
  ASSUME LifecycleInv, SendCommand \/ Refuses
  PROVE  LifecycleInv'
<1>1. UNCHANGED <<phase, path, process, restart, label, children, asked, trouble>>
  BY DEF SendCommand, Connects, Sends, CallFails, Refuses, runtimeVars, processVars, historyVars
<1>2. status' \in {status, "Stopping", "Stop failed"}
  BY DEF SendCommand, Connects, Sends, CallFails, Refuses, processVars
<1>3. tray' \in {"idle", "connect", "send"} /\ link' \in Instances \cup {NoInstance}
  BY DEF SendCommand, Connects, Sends, CallFails, Refuses, LifecycleInv, LifecycleTypeOK
<1>4. stops' \subseteq Instances
  BY DEF SendCommand, Connects, Sends, CallFails, Refuses, LifecycleInv, LifecycleTypeOK,
         runtimeVars
<1>5. LifecycleTypeOK'
  BY <1>1, <1>2, <1>3, <1>4 DEF LifecycleInv, LifecycleTypeOK, Statuses
<1>6. StoppedMeansGone'
  BY <1>1, <1>2 DEF LifecycleInv, StoppedMeansGone, IsRunning
<1>. QED  BY <1>1, <1>5, <1>6 DEF LifecycleInv, OwnerHolds, OneChild, LaunchesAsked

-----------------------------------------------------------------------------
(* The instances *)

\* How the path follows an instance that goes on to another phase.
PathFollows(i, to) ==
  \/ UNCHANGED path /\ (phase[i] \in HoldsPath <=> to \in HoldsPath)
  \/ path = "none" /\ path' = i /\ to \in HoldsPath
  \/ path = i /\ path' \in {"none", "stale"} /\ to \notin HoldsPath

\* An instance changes its own phase, never away from "gone", and the path in
\* step with it; the tray's variables it leaves alone.
LEMMA MoveKeepsInv ==
  ASSUME LifecycleInv, NEW i \in Instances, NEW to \in Phases,
         phase' = [phase EXCEPT ![i] = to], phase[i] # "gone",
         PathFollows(i, to),
         stops' \subseteq Instances, trouble' \in BOOLEAN,
         UNCHANGED <<callVars, processVars, label, historyVars>>
  PROVE  LifecycleInv'
<1>. USE LifecycleAssumption
     DEF LifecycleInv, LifecycleTypeOK, PathFollows, callVars, processVars, historyVars
<1>1. LifecycleTypeOK'
  OBVIOUS
<1>2. OwnerHolds'
  BY DEF OwnerHolds, HoldsPath
<1>3. OneChild' /\ LaunchesAsked' /\ StoppedMeansGone'
  BY DEF OneChild, LaunchesAsked, StoppedMeansGone, IsRunning
<1>. QED  BY <1>1, <1>2, <1>3

\* Every move of an instance is one of those, up to its death.
LEMMA MovesFollow ==
  ASSUME LifecycleInv, NEW j \in Instances, InstanceStep(j) \/ EndsByItself(j) \/ Dies(j)
  PROVE  /\ phase[j] # "gone"
         /\ \E to \in Phases : phase' = [phase EXCEPT ![j] = to] /\ PathFollows(j, to)
<1>. USE DEF LifecycleInv, OwnerHolds, PathFollows, HoldsPath, Phases, Passes
<1>2. CASE Binds(j) BY <1>2 DEF Binds
<1>3. CASE BindFails(j) BY <1>3 DEF BindFails
<1>4. CASE Listens(j) BY <1>4 DEF Listens
<1>5. CASE Serves(j) BY <1>5 DEF Serves
<1>6. CASE ReadsStop(j) BY <1>6 DEF ReadsStop
<1>7. CASE EndsByItself(j) BY <1>7 DEF EndsByItself
<1>8. CASE Closes(j) BY <1>8 DEF Closes
<1>9. CASE Unlinks(j) BY <1>9 DEF Unlinks
<1>10. CASE Exits(j) BY <1>10 DEF Exits
<1>11. CASE Dies(j) BY <1>11 DEF Dies
<1>. QED
  BY <1>2, <1>3, <1>4, <1>5, <1>6, <1>7, <1>8, <1>9, <1>10, <1>11
  DEF InstanceStep, OwnStep, CompositorStep

LEMMA InstanceKeepsInv ==
  ASSUME LifecycleInv, NEW i \in Instances, InstanceStep(i) \/ EndsByItself(i) \/ Dies(i)
  PROVE  LifecycleInv'
<1>1. /\ stops' \subseteq stops /\ trouble' \in {trouble, TRUE}
      /\ UNCHANGED <<callVars, processVars, label, historyVars>>
  BY DEF InstanceStep, OwnStep, CompositorStep, Binds, BindFails, Listens, Serves, ReadsStop,
         EndsByItself, Closes, Unlinks, Exits, Dies, Passes, outsideRuntime
<1>2. stops' \subseteq Instances /\ trouble' \in BOOLEAN
  BY <1>1 DEF LifecycleInv, LifecycleTypeOK
<1>. QED  BY <1>1, <1>2, MovesFollow, MoveKeepsInv

-----------------------------------------------------------------------------
(* Faults *)

LEMMA FaultsKeepInv ==
  ASSUME LifecycleInv, Faults
  PROVE  LifecycleInv'
<1>1. CASE TrayRestarts
  BY <1>1
  DEF LifecycleInv, LifecycleTypeOK, OwnerHolds, OneChild, LaunchesAsked, StoppedMeansGone,
      IsRunning, Statuses, TrayRestarts, runtimeVars
<1>2. ASSUME NEW i \in Instances, DropsStop(i) PROVE LifecycleInv'
  BY <1>2
  DEF LifecycleInv, LifecycleTypeOK, OwnerHolds, OneChild, LaunchesAsked, StoppedMeansGone,
      IsRunning, DropsStop, callVars, processVars, historyVars
<1>3. ASSUME NEW i \in Instances, LaunchedByHand(i) PROVE LifecycleInv'
  <2>1. /\ phase' = [phase EXCEPT ![i] = "booting"] /\ phase[i] = "unlaunched"
        /\ UNCHANGED <<path, stops, callVars, processVars, label, historyVars>>
        /\ trouble' = TRUE
    BY <1>3 DEF LaunchedByHand, Popen
  <2>2. PathFollows(i, "booting") /\ "booting" \in Phases /\ stops' \subseteq Instances
    BY <2>1 DEF PathFollows, HoldsPath, Phases, LifecycleInv, LifecycleTypeOK
  <2>. QED  BY <2>1, <2>2, MoveKeepsInv
<1>. QED  BY <1>1, <1>2, <1>3, InstanceKeepsInv DEF Faults

-----------------------------------------------------------------------------
(* The safety theorems *)

LEMMA InitLifecycle == Init => LifecycleInv
BY LifecycleAssumption
DEF Init, LifecycleInv, LifecycleTypeOK, OwnerHolds, OneChild, LaunchesAsked,
    StoppedMeansGone, IsRunning, Phases, HoldsPath, Statuses

LEMMA NextLifecycle == LifecycleInv /\ [Next]_lifecycleVars => LifecycleInv'
<1>. SUFFICES ASSUME LifecycleInv, [Next]_lifecycleVars PROVE LifecycleInv'
  OBVIOUS
<1>1. CASE UNCHANGED lifecycleVars
  BY <1>1
  DEF LifecycleInv, LifecycleTypeOK, OwnerHolds, OneChild, LaunchesAsked, StoppedMeansGone,
      IsRunning, lifecycleVars, runtimeVars, callVars, processVars, historyVars
<1>. QED
  BY <1>1, ClicksKeepInv, RefreshKeepsInv, CallsKeepInv, InstanceKeepsInv, FaultsKeepInv DEF Next

\* For any number of instances and any order of clicks, calls and deaths: types,
\* and at most one owner of the path, which only its owner gives up.
THEOREM LifecycleInvariance == Spec => []LifecycleInv
BY InitLifecycle, NextLifecycle, PTL DEF Spec

\* The variables of tray and instances keep their types.
THEOREM LifecycleTypeCorrect == Spec => []LifecycleTypeOK
<1>1. LifecycleInv => LifecycleTypeOK
  BY DEF LifecycleInv
<1>. QED  BY <1>1, LifecycleInvariance, PTL

\* The path belongs to exactly the instances between their bind() and unlink().
THEOREM PathHasOwner == Spec => []OwnerHolds
<1>1. LifecycleInv => OwnerHolds
  BY DEF LifecycleInv
<1>. QED  BY <1>1, LifecycleInvariance, PTL

\* Whatever the tray launched and no longer holds in self.process has ended.
THEOREM TrayHoldsItsChild == Spec => []OneChild
<1>1. LifecycleInv => OneChild
  BY DEF LifecycleInv
<1>. QED  BY <1>1, LifecycleInvariance, PTL

\* The tray launches by itself only to answer a Restart of after the last launch.
THEOREM OneLaunchPerRestart == Spec => []LaunchesAsked
<1>1. LifecycleInv => LaunchesAsked
  BY DEF LifecycleInv
<1>. QED  BY <1>1, LifecycleInvariance, PTL

\* "Stopped" and "Launch failed" are never the status of a live child.
THEOREM StatusIsTrue == Spec => []StoppedMeansGone
<1>1. LifecycleInv => StoppedMeansGone
  BY DEF LifecycleInv
<1>. QED  BY <1>1, LifecycleInvariance, PTL

-----------------------------------------------------------------------------
(* Where a stop goes *)

\* Only sendall() adds a stop, and to the owner of the path.
LEMMA StopGoesToOwner ==
  ASSUME LifecycleInv, [Next]_lifecycleVars, NEW i \in stops' \ stops
  PROVE  i = process \/ process = NoInstance \/ phase[process] \notin Accepting
<1>. USE DEF runtimeVars, callVars, processVars, historyVars
<1>1. Sends
  <2>1. CASE UNCHANGED lifecycleVars BY <2>1 DEF lifecycleVars
  <2>2. CASE Clicks
    BY <2>2 DEF Clicks, ClickStart, ClickStop, ClickRestart, start, Launch, LaunchFails, Popen
  <2>3. CASE Refresh
    BY <2>3 DEF Refresh, Launch, LaunchFails, Popen
  <2>4. CASE Connects \/ CallFails \/ Refuses
    BY <2>4 DEF Connects, CallFails, Refuses
  <2>5. CASE Faults
    BY <2>5 DEF Faults, TrayRestarts, Dies, DropsStop, LaunchedByHand, Popen
  <2>6. CASE \E j \in Instances : InstanceStep(j) \/ EndsByItself(j)
    BY <2>6
    DEF InstanceStep, OwnStep, CompositorStep, Binds, BindFails, Listens, Serves, ReadsStop, Closes,
        Unlinks, Exits, EndsByItself
  <2>. QED  BY <2>1, <2>2, <2>3, <2>4, <2>5, <2>6 DEF Next, SendCommand
<1>2. i = link /\ phase[i] \in Accepting /\ i \in Instances
  BY <1>1 DEF Sends, LifecycleInv, LifecycleTypeOK
<1>3. path = i
  BY <1>2 DEF LifecycleInv, OwnerHolds, HoldsPath, Accepting
<1>4. ASSUME process # NoInstance, phase[process] \in Accepting PROVE process = path
  BY <1>4 DEF LifecycleInv, LifecycleTypeOK, OwnerHolds, HoldsPath, Accepting
<1>. QED  BY <1>3, <1>4

\* A stop command reaches another instance only while the tray's child cannot
\* receive commands.
THEOREM StopIsAddressed == Spec => StopReachesChild
<1>1. LifecycleInv /\ [Next]_lifecycleVars =>
        [\A i \in stops' \ stops :
           i = process \/ process = NoInstance \/ phase[process] \notin Accepting]_lifecycleVars
  BY StopGoesToOwner
<1>. QED  BY <1>1, LifecycleInvariance, PTL DEF Spec, StopReachesChild

-----------------------------------------------------------------------------
(* Each instance lives as InstanceLife says *)

LifeStep(i) == Life(i)!LifeNext \/ UNCHANGED Life(i)!lifeVars

\* The phase InstanceLife gives an instance, and what it sees of the path.
Shown(i) == IF phase[i] = "unlaunched" THEN "booting" ELSE phase[i]
Seen(i) == IF path = i THEN "mine" ELSE IF path \in Instances THEN "other" ELSE path

LEMMA SameLife ==
  ASSUME NEW i \in Instances, UNCHANGED <<Shown(i), Seen(i), phase[i] \in Accepting>>
  PROVE  LifeStep(i)
BY DEF LifeStep, Shown, Seen, Life!lifeVars

LEMMA OthersLife ==
  ASSUME NEW i \in Instances, UNCHANGED <<Shown(i), phase[i] \in Accepting>>,
         \/ Seen(i) = "none" /\ Seen(i)' = "other"
         \/ Seen(i) = "other" /\ Seen(i)' \in {"none", "stale"}
  PROVE  LifeStep(i)
BY DEF LifeStep, Shown, Seen, Life!LifeNext, Life!OthersMove

\* What one instance sees when another one moves.
LEMMA ObserverLives ==
  ASSUME LifecycleInv, NEW i \in Instances, NEW j \in Instances, i # j,
         NEW to, phase' = [phase EXCEPT ![j] = to], PathFollows(j, to)
  PROVE  LifeStep(i)
<1>. USE LifecycleAssumption DEF LifecycleInv, LifecycleTypeOK
<1>1. phase'[i] = phase[i]
  OBVIOUS
<1>2. UNCHANGED <<Shown(i), phase[i] \in Accepting>>
  BY <1>1 DEF Shown
<1>3. CASE UNCHANGED path
  BY <1>2, <1>3, SameLife DEF Seen
<1>4. CASE path = "none" /\ path' = j
  <2>1. Seen(i) = "none" /\ Seen(i)' = "other"
    BY <1>4 DEF Seen
  <2>. QED  BY <1>2, <2>1, OthersLife
<1>5. CASE path = j /\ path' \in {"none", "stale"}
  <2>1. Seen(i) = "other" /\ Seen(i)' \in {"none", "stale"}
    BY <1>5 DEF Seen
  <2>. QED  BY <1>2, <2>1, OthersLife
<1>. QED  BY <1>3, <1>4, <1>5 DEF PathFollows

LEMMA MoverLives ==
  ASSUME LifecycleInv, NEW i \in Instances, InstanceStep(i) \/ EndsByItself(i) \/ Dies(i)
  PROVE  LifeStep(i)
<1>. USE LifecycleAssumption
     DEF LifecycleInv, LifecycleTypeOK, OwnerHolds, HoldsPath, Accepting, Passes,
         LifeStep, Life!LifeNext, Life!lifeVars, Life!Passes
<1>2. CASE Binds(i) BY <1>2 DEF Binds, Life!Binds
<1>3. CASE BindFails(i) BY <1>3 DEF BindFails, Life!Dies
<1>4. CASE Listens(i) BY <1>4 DEF Listens, Life!Listens
<1>5. CASE Serves(i) BY <1>5 DEF Serves, Life!Serves
<1>6. CASE ReadsStop(i) BY <1>6 DEF ReadsStop, Life!Ends
<1>7. CASE EndsByItself(i) BY <1>7 DEF EndsByItself, Life!Ends
<1>8. CASE Closes(i) BY <1>8 DEF Closes, Life!Closes
<1>9. CASE Unlinks(i) BY <1>9 DEF Unlinks, Life!Unlinks
<1>10. CASE Exits(i) BY <1>10 DEF Exits, Life!Exits
<1>11. CASE Dies(i) BY <1>11 DEF Dies, Life!Dies
<1>. QED
  BY <1>2, <1>3, <1>4, <1>5, <1>6, <1>7, <1>8, <1>9, <1>10, <1>11 DEF InstanceStep, OwnStep, CompositorStep

LEMMA LaunchedLife ==
  ASSUME LifecycleInv, NEW i \in Instances, NEW j \in Instances, Popen(j)
  PROVE  LifeStep(i)
<1>1. phase' = [phase EXCEPT ![j] = "booting"] /\ phase[j] = "unlaunched" /\ UNCHANGED path
  BY DEF Popen
<1>2. UNCHANGED <<Shown(i), Seen(i), phase[i] \in Accepting>>
  BY <1>1 DEF Shown, Seen, Accepting, LifecycleInv, LifecycleTypeOK
<1>. QED  BY <1>2, SameLife

LEMMA NextLives ==
  ASSUME LifecycleInv, [Next]_lifecycleVars, NEW i \in Instances
  PROVE  LifeStep(i)
<1>1. ASSUME NEW j \in Instances, InstanceStep(j) \/ EndsByItself(j) \/ Dies(j)
      PROVE  LifeStep(i)
  BY <1>1, MoverLives, MovesFollow, ObserverLives
<1>2. ASSUME UNCHANGED <<phase, path>> PROVE LifeStep(i)
  BY <1>2, SameLife DEF Shown, Seen
<1>3. ASSUME NEW j \in Instances, Popen(j) PROVE LifeStep(i)
  BY <1>3, LaunchedLife
<1>. USE DEF runtimeVars
<1>4. CASE Clicks
  <2>1. CASE \E j \in Instances : Popen(j) BY <2>1, <1>3
  <2>2. CASE UNCHANGED <<phase, path>> BY <2>2, <1>2
  <2>. QED
    BY <1>4, <2>1, <2>2
    DEF Clicks, ClickStart, ClickStop, ClickRestart, start, Launch, LaunchFails
<1>5. CASE Refresh
  <2>1. CASE \E j \in Instances : Popen(j) BY <2>1, <1>3
  <2>2. CASE UNCHANGED <<phase, path>> BY <2>2, <1>2
  <2>. QED  BY <1>5, <2>1, <2>2 DEF Refresh, Launch, LaunchFails
<1>6. CASE SendCommand \/ Refuses
  BY <1>2, <1>6 DEF SendCommand, Connects, Sends, CallFails, Refuses
<1>7. CASE Faults
  <2>1. CASE TrayRestarts BY <1>2, <2>1 DEF TrayRestarts
  <2>2. ASSUME NEW j \in Instances, DropsStop(j) PROVE LifeStep(i)
    BY <1>2, <2>2 DEF DropsStop
  <2>3. ASSUME NEW j \in Instances, LaunchedByHand(j) PROVE LifeStep(i)
    BY <1>3, <2>3 DEF LaunchedByHand
  <2>. QED  BY <1>1, <1>7, <2>1, <2>2, <2>3 DEF Faults
<1>8. CASE UNCHANGED lifecycleVars
  BY <1>2, <1>8 DEF lifecycleVars
<1>. QED  BY <1>1, <1>4, <1>5, <1>6, <1>7, <1>8 DEF Next

LEMMA InitLives ==
  ASSUME Init, NEW i \in Instances
  PROVE  Life(i)!LifeInit
BY LifecycleAssumption DEF Init, Life!LifeInit, Accepting

\* Whatever the tray and the others do, each instance lives as InstanceLife
\* says, which is how the program was shown to live.
THEOREM LifeOfEachInstance == Spec => LifeOfEach
<1>1. Init => \A i \in Instances : Life(i)!LifeInit
  BY InitLives
<1>2. LifecycleInv /\ [Next]_lifecycleVars =>
        [\A i \in Instances : Life(i)!LifeNext \/ UNCHANGED Life(i)!lifeVars]_lifecycleVars
  BY NextLives DEF LifeStep
<1>. QED  BY <1>1, <1>2, LifecycleInvariance, PTL DEF Spec, LifeOfEach

=============================================================================
