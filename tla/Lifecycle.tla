----------------------------- MODULE Lifecycle -----------------------------
(***************************************************************************)
(* The tray (tools/tray/peach_wallpaper_tray.py) and the instances of the  *)
(* wallpaper it, or a user, starts.  They meet in the child process the    *)
(* tray holds and in the socket's path, which leads a stop command to      *)
(* whichever instance owns it.  An instance is modelled as coarsely as     *)
(* InstanceLife, which PeachWallpaper implements.                          *)
(*                                                                         *)
(* The tray has one thread: a click or the refresh timer runs to its end   *)
(* before the next one, but the instances move while it waits in connect() *)
(* and sendall().                                                          *)
(***************************************************************************)
CONSTANTS
  Instances,  \* processes that may be started; each runs once
  NoInstance  \* WallpaperProcess.process is None

ASSUME LifecycleAssumption ==
  /\ NoInstance \notin Instances
  /\ Instances \cap {"none", "stale"} = {}

VARIABLES
  phase,    \* how far each instance has come
  path,     \* the instance that owns the socket's path, "none" or "stale"
  stops,    \* instances with a stop command sent to them and not read
  tray,     \* the tray's thread: in its event loop, in connect() or in sendall()
  link,     \* the instance that sendall() writes to
  process,  \* self.process
  restart,  \* self.restart_requested
  status,   \* self.status
  label,    \* the text of the menu's first entry
  children, \* history: what this tray has launched
  asked,    \* history: Restart was chosen since the last launch
  trouble   \* history: something failed from outside (see Faults)

runtimeVars == <<phase, path, stops>>
callVars    == <<tray, link>>
processVars == <<process, restart, status>>
historyVars == <<children, asked>>
lifecycleVars == <<runtimeVars, callVars, processVars, label, historyVars, trouble>>

Statuses == {"Stopped", "Starting", "Running", "Stopping", "Stop failed", "Launch failed"}

Phases == {"unlaunched", "booting", "bound", "listening", "serving", "stopping", "closed",
           "leaving", "gone"}
HoldsPath == {"bound", "listening", "serving", "stopping", "closed"}
Accepting == {"listening", "serving", "stopping"}

LifecycleTypeOK ==
  /\ phase \in [Instances -> Phases]
  /\ path \in Instances \cup {"none", "stale"}
  /\ stops \subseteq Instances
  /\ tray \in {"idle", "connect", "send"}
  /\ link \in Instances \cup {NoInstance} /\ process \in Instances \cup {NoInstance}
  /\ restart \in BOOLEAN /\ asked \in BOOLEAN /\ trouble \in BOOLEAN
  /\ status \in Statuses /\ label \in Statuses
  /\ children \subseteq Instances

Init ==
  /\ phase = [i \in Instances |-> "unlaunched"]
  /\ path \in {"none", "stale"} /\ stops = {}
  /\ tray = "idle" /\ link = NoInstance
  /\ process = NoInstance /\ restart = FALSE
  /\ status = "Stopped" /\ label = "Stopped"
  /\ children = {} /\ asked = FALSE /\ trouble = FALSE

(***************************************************************************)
(* WallpaperProcess.                                                       *)
(***************************************************************************)
IsRunning == process # NoInstance /\ phase[process] # "gone"

Popen(i) ==
  /\ phase[i] = "unlaunched"
  /\ phase' = [phase EXCEPT ![i] = "booting"]
  /\ UNCHANGED <<path, stops>>

\* Mutant: restart_requested stays set.
LaunchKeepsFlag(i) ==
  /\ Popen(i)
  /\ process' = i /\ restart' = restart /\ status' = "Starting"
  /\ children' = children \cup {i} /\ asked' = FALSE
  /\ UNCHANGED trouble

Launch(i) ==
  /\ Popen(i)
  /\ process' = i /\ restart' = FALSE /\ status' = "Starting"
  /\ children' = children \cup {i} /\ asked' = FALSE
  /\ UNCHANGED trouble

LaunchFails ==
  /\ process' = NoInstance /\ status' = "Launch failed"
  /\ trouble' = TRUE
  /\ UNCHANGED <<runtimeVars, historyVars>>

\* Mutant: a child that is still running is not looked at.
StartUnchecked ==
  \/ \E i \in Instances : Launch(i)
  \/ LaunchFails /\ UNCHANGED restart

start ==
  \/ /\ IsRunning /\ status' = "Running"
     /\ UNCHANGED <<runtimeVars, process, restart, historyVars, trouble>>
  \/ ~IsRunning /\ \E i \in Instances : Launch(i)
  \/ ~IsRunning /\ LaunchFails /\ UNCHANGED restart

ClickStart ==
  /\ tray = "idle" /\ start
  /\ UNCHANGED <<callVars, label>>

\* stop() goes on in connect() if the child is running.
ClickStop ==
  /\ tray = "idle"
  /\ IF IsRunning THEN tray' = "connect" /\ UNCHANGED status
                  ELSE status' = "Stopped" /\ UNCHANGED tray
  /\ UNCHANGED <<runtimeVars, link, process, restart, label, historyVars, trouble>>

ClickRestart ==
  /\ tray = "idle"
  /\ \/ ~IsRunning /\ start /\ UNCHANGED callVars
     \/ /\ IsRunning /\ tray' = "connect"
        /\ restart' = TRUE /\ asked' = TRUE
        /\ UNCHANGED <<runtimeVars, link, process, status, children, trouble>>
  /\ UNCHANGED label

\* Mutant: the flag is cleared before it is read.
RefreshForgets ==
  /\ tray = "idle"
  /\ \/ /\ process = NoInstance
        /\ UNCHANGED <<runtimeVars, processVars, historyVars, trouble>>
     \/ /\ IsRunning
        /\ status' = IF status = "Starting" THEN "Running" ELSE status
        /\ UNCHANGED <<runtimeVars, process, restart, historyVars, trouble>>
     \/ /\ process # NoInstance /\ ~IsRunning
        /\ process' = NoInstance /\ restart' = FALSE /\ status' = "Stopped"
        /\ UNCHANGED <<runtimeVars, historyVars, trouble>>
  /\ label' = status' /\ UNCHANGED callVars

\* Mutant: while a stop is under way the child is not polled.
RefreshWaits ==
  /\ tray = "idle" /\ status # "Stopping"
  /\ \/ /\ process = NoInstance
        /\ UNCHANGED <<runtimeVars, processVars, historyVars, trouble>>
     \/ /\ IsRunning
        /\ status' = IF status = "Starting" THEN "Running" ELSE status
        /\ UNCHANGED <<runtimeVars, process, restart, historyVars, trouble>>
     \/ /\ process # NoInstance /\ ~IsRunning
        /\ process' = NoInstance /\ restart' = FALSE /\ status' = "Stopped"
        /\ UNCHANGED <<runtimeVars, historyVars, trouble>>
  /\ label' = status' /\ UNCHANGED callVars

\* TrayApplication.refresh: every 250 ms the child is polled, started again if
\* a restart was requested, and the label follows the status.
Refresh ==
  /\ tray = "idle"
  /\ \/ /\ process = NoInstance
        /\ UNCHANGED <<runtimeVars, processVars, historyVars, trouble>>
     \/ /\ IsRunning
        /\ status' = IF status = "Starting" THEN "Running" ELSE status
        /\ UNCHANGED <<runtimeVars, process, restart, historyVars, trouble>>
     \/ /\ process # NoInstance /\ ~IsRunning
        /\ restart' = FALSE
        /\ \/ ~restart /\ process' = NoInstance /\ status' = "Stopped"
              /\ UNCHANGED <<runtimeVars, historyVars, trouble>>
           \/ restart /\ ((\E i \in Instances : Launch(i)) \/ LaunchFails)
  /\ label' = status' /\ UNCHANGED callVars

(***************************************************************************)
(* IpcClient.send_command, called by stop(): connect() reaches the owner   *)
(* of the path if it listens, and may time out or be refused; the byte is  *)
(* sent unless the server has closed the connection meanwhile.             *)
(***************************************************************************)
\* Mutant: the entry in the file system is taken for a listening instance.
ConnectsToEntry ==
  /\ tray = "connect" /\ path # "none"
  /\ tray' = "send" /\ link' = path
  /\ UNCHANGED <<runtimeVars, processVars, label, historyVars, trouble>>

Connects ==
  /\ tray = "connect" /\ path \in Instances /\ phase[path] \in Accepting
  /\ tray' = "send" /\ link' = path
  /\ UNCHANGED <<runtimeVars, processVars, label, historyVars, trouble>>

\* Mutant: the instance is taken for stopped once the command is sent.
SendsAndForgets ==
  /\ tray = "send" /\ link # NoInstance /\ phase[link] \in Accepting
  /\ stops' = stops \cup {link}
  /\ status' = "Stopped" /\ tray' = "idle" /\ link' = NoInstance
  /\ UNCHANGED <<phase, path, process, restart, label, historyVars, trouble>>

Sends ==
  /\ tray = "send" /\ link # NoInstance /\ phase[link] \in Accepting
  /\ stops' = stops \cup {link}
  /\ status' = "Stopping" /\ tray' = "idle" /\ link' = NoInstance
  /\ UNCHANGED <<phase, path, process, restart, label, historyVars, trouble>>

CallFails ==
  /\ tray \in {"connect", "send"}
  /\ status' = "Stop failed" /\ tray' = "idle" /\ link' = NoInstance
  /\ UNCHANGED <<runtimeVars, process, restart, label, historyVars, trouble>>

(***************************************************************************)
(* One instance.                                                           *)
(***************************************************************************)
outsideRuntime == <<callVars, processVars, label, historyVars, trouble>>

Passes(i, from, to) ==
  /\ phase[i] = from /\ phase' = [phase EXCEPT ![i] = to]
  /\ UNCHANGED outsideRuntime

\* Mutant: the entry is removed before bind(), as many servers do.
BindsOver(i) == Passes(i, "booting", "bound") /\ path' = i /\ UNCHANGED stops

Binds(i) == Passes(i, "booting", "bound") /\ path = "none" /\ path' = i /\ UNCHANGED stops

\* EADDRINUSE: Start() terminates the process.
BindFails(i) == Passes(i, "booting", "gone") /\ path # "none" /\ UNCHANGED <<path, stops>>

Listens(i) == Passes(i, "bound", "listening") /\ UNCHANGED <<path, stops>>

Serves(i) == Passes(i, "listening", "serving") /\ UNCHANGED <<path, stops>>

\* The socket thread reads the byte and the main thread handles it.
ReadsStop(i) ==
  /\ Passes(i, "serving", "stopping")
  /\ i \in stops /\ stops' = stops \ {i} /\ UNCHANGED path

\* A frame, LoadConfig() or Poll() failed.
EndsByItself(i) == Passes(i, "serving", "stopping") /\ UNCHANGED <<path, stops>>

Closes(i) ==
  /\ Passes(i, "stopping", "closed")
  /\ stops' = stops \ {i} /\ UNCHANGED path

Unlinks(i) == Passes(i, "closed", "leaving") /\ path' = "none" /\ UNCHANGED stops

\* Mutant: the second Shutdown() removes the path again.
ExitsUnlinking(i) == Passes(i, "leaving", "gone") /\ path' = "none" /\ UNCHANGED stops

Exits(i) == Passes(i, "leaving", "gone") /\ UNCHANGED <<path, stops>>

\* The server closes the tray's connection: another client holds the slot.
Refuses ==
  /\ link # NoInstance /\ link' = NoInstance
  /\ UNCHANGED <<runtimeVars, tray, processVars, label, historyVars, trouble>>

(***************************************************************************)
(* Faults: a kill, a stop closed unread, an instance started by hand, and  *)
(* a tray that quits or is killed and is started again; what it launched   *)
(* lives on.                                                               *)
(***************************************************************************)
Dies(i) ==
  /\ phase[i] \notin {"unlaunched", "gone"}
  /\ phase' = [phase EXCEPT ![i] = "gone"]
  /\ path' = IF path = i THEN "stale" ELSE path
  /\ stops' = stops \ {i}
  /\ trouble' = TRUE
  /\ UNCHANGED <<callVars, processVars, label, historyVars>>

DropsStop(i) ==
  /\ i \in stops /\ stops' = stops \ {i}
  /\ trouble' = TRUE
  /\ UNCHANGED <<phase, path, callVars, processVars, label, historyVars>>

LaunchedByHand(i) ==
  /\ Popen(i)
  /\ trouble' = TRUE
  /\ UNCHANGED <<callVars, processVars, label, historyVars>>

TrayRestarts ==
  /\ tray' = "idle" /\ link' = NoInstance
  /\ process' = NoInstance /\ restart' = FALSE
  /\ status' = "Stopped" /\ label' = "Stopped"
  /\ children' = {} /\ asked' = FALSE /\ trouble' = TRUE
  /\ UNCHANGED runtimeVars

Clicks == ClickStart \/ ClickStop \/ ClickRestart

SendCommand == Connects \/ Sends \/ CallFails

\* Steps an instance takes by itself, and those it takes only if its compositor
\* answers: the roundtrips of its start-up, the frames and events of its loop.
OwnStep(i) ==
  Binds(i) \/ BindFails(i) \/ Listens(i) \/ Closes(i) \/ Unlinks(i) \/ Exits(i)

CompositorStep(i) == Serves(i) \/ ReadsStop(i)

InstanceStep(i) == OwnStep(i) \/ CompositorStep(i)

Faults ==
  \/ TrayRestarts
  \/ \E i \in Instances : Dies(i) \/ DropsStop(i) \/ LaunchedByHand(i)

Next ==
  \/ Clicks \/ SendCommand \/ Refresh \/ Refuses \/ Faults
  \/ \E i \in Instances : InstanceStep(i) \/ EndsByItself(i)

Spec == Init /\ [][Next]_lifecycleVars

\* The timer fires whenever the tray is back in its event loop, however often
\* the user clicks; calls end, at the latest by their timeout; each instance is
\* scheduled.  Nothing is owed by a compositor: an instance may stay for ever in
\* its start-up, or before a stop it was sent.
FairSpec ==
  /\ Spec
  /\ SF_lifecycleVars(Refresh) /\ WF_lifecycleVars(SendCommand)
  /\ \A i \in Instances : WF_lifecycleVars(OwnStep(i))

-----------------------------------------------------------------------------
(* Safety *)

\* The tray never loses a live child: whatever it launched and no longer holds
\* in self.process has ended (start, refresh).
OneChild == \A i \in children : phase[i] = "gone" \/ i = process

\* The path belongs to exactly the instances that have bound it and not yet
\* shut their socket down: no instance removes or replaces another's entry, and
\* only a death leaves one behind (Socket::Bind, Socket::CloseServer).
OwnerHolds == \A i \in Instances : phase[i] \in HoldsPath <=> path = i

\* A stop command is addressed to the path, not to the child.  It reaches
\* another instance only if the child cannot receive commands at all.
StopReachesChild ==
  [][\A i \in stops' \ stops :
        i = process \/ process = NoInstance \/ phase[process] \notin Accepting]_lifecycleVars

\* The tray launches by itself only to answer a Restart chosen after its last
\* launch: one Restart is one launch, and a crash alone is none.
LaunchesAsked == restart => asked

\* A status that says the wallpaper is not there is not shown over a live child.
StoppedMeansGone == status \in {"Stopped", "Launch failed"} => ~IsRunning

\* Each instance lives as InstanceLife says, whatever the others and the tray do.
Life(i) == INSTANCE InstanceLife WITH
  phase <- IF phase[i] = "unlaunched" THEN "booting" ELSE phase[i],
  path  <- IF path = i THEN "mine" ELSE IF path \in Instances THEN "other" ELSE path,
  open  <- phase[i] \in Accepting

LifeOfEach ==
  /\ \A i \in Instances : Life(i)!LifeInit
  /\ [][\A i \in Instances : Life(i)!LifeNext \/ UNCHANGED Life(i)!lifeVars]_lifecycleVars

-----------------------------------------------------------------------------
(* Liveness, under FairSpec *)

\* Every instance's compositor answers and its display lasts: what StopHonoured of
\* PeachWallpaper and InitializeReturns of WaylandBackend need.
CompositorAnswers == \A i \in Instances : WF_lifecycleVars(CompositorStep(i))

\* A Restart whose stop command was delivered ends with another instance of the
\* tray serving, if compositors answer and nothing else fails from outside.
RestartServes ==
  CompositorAnswers =>
    \A p \in Instances :
      (process = p /\ restart /\ p \in stops)
        ~> (trouble \/ (process \notin {p, NoInstance} /\ phase[process] = "serving"))

\* The death of the child is noticed however it died and whatever the tray was
\* waiting for: the label says so, or another child has taken its place.
DeathShown ==
  \A p \in Instances :
    (process = p /\ phase[p] = "gone")
      ~> (process # p /\ (process # NoInstance \/ label \in {"Stopped", "Launch failed"}))

=============================================================================
