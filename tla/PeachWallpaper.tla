-------------------------- MODULE PeachWallpaper --------------------------
(***************************************************************************)
(* Peach::PeachWallpaper and main() (src/PeachWallpaper.cpp, src/main.cpp): *)
(* the main thread starts the socket, the window-system backend and the    *)
(* renderer, runs the frame loop and shuts everything down; a second       *)
(* thread polls the socket and hands the commands it takes to the main     *)
(* thread through m_commands, which m_command_mutex protects.  Each        *)
(* critical section is one deque operation, hence one step.                *)
(***************************************************************************)
EXTENDS Socket

VARIABLES
  pc,           \* the main thread
  again,        \* the engine's destructor will run Shutdown() once more
  tpc,          \* the socket thread, from its creation to join()
  running,      \* m_running
  polling,      \* m_polling
  commands,     \* m_commands
  cmd,          \* the socket thread's local cmd: at most one command
  batch,        \* DrainCommands' local deque, what is left of it
  handled,      \* history: commands HandleCommand has been given
  backend,      \* m_backend is initialized
  renderer,     \* m_renderer is initialized: its EGL context exists
  renderable,   \* m_renderable is set: its GL objects exist
  vsync,        \* the renderer's m_vsync
  framePending, \* the compositor owes a frame callback to the last swap
  displayFailed \* the connection to the compositor has failed

resourceVars == <<backend, renderer, renderable>>
displayVars  == <<vsync, framePending, displayFailed>>
flagVars     == <<running, polling>>
queueVars    == <<commands, cmd, batch, handled>>
vars == <<socketVars, pc, again, tpc, flagVars, queueVars, resourceVars, displayVars>>

Stop == 1

StartPcs == {"create", "bind", "listen", "backend", "renderer", "set_running"}
LoopPcs  == {"load", "loop", "drain", "handle", "frame", "events", "spin"}
DownPcs  == {"stop", "join", "close", "unlink",
             "drop_renderable", "drop_renderer", "drop_backend"}

TypeOK ==
  /\ SocketTypeOK
  /\ pc \in StartPcs \cup {"spawn"} \cup LoopPcs \cup DownPcs \cup {"exited", "aborted"}
  /\ again \in BOOLEAN
  /\ tpc \in {"none", "while", "poll", "take", "push", "fail", "end", "done", "joined"}
  /\ running \in BOOLEAN /\ polling \in BOOLEAN
  /\ commands \in Seq(Byte) /\ batch \in Seq(Byte) /\ handled \in Seq(Byte)
  /\ cmd \in Seq(Byte) /\ Len(cmd) <= 1
  /\ backend \in BOOLEAN /\ renderer \in BOOLEAN /\ renderable \in BOOLEAN
  /\ vsync \in BOOLEAN /\ framePending \in BOOLEAN /\ displayFailed \in BOOLEAN

Init ==
  /\ SocketInit
  /\ pc = "create" /\ again = TRUE /\ tpc = "none"
  /\ running = FALSE /\ polling = FALSE
  /\ commands = <<>> /\ cmd = <<>> /\ batch = <<>> /\ handled = <<>>
  /\ backend = FALSE /\ renderer = FALSE /\ renderable = FALSE
  /\ vsync = TRUE /\ framePending = FALSE /\ displayFailed = FALSE

Goto(from, to) == pc = from /\ pc' = to

(***************************************************************************)
(* Start(): every failure ends in std::terminate(), which runs no          *)
(* destructor, like a kill from outside: the kernel closes the descriptors *)
(* and the socket's path stays behind.                                     *)
(***************************************************************************)
OpenSocket ==
  /\ \/ Goto("create", "bind") /\ Create
     \/ Goto("bind", "listen") /\ Bind
     \/ Goto("listen", "backend") /\ Listen
  /\ UNCHANGED <<again, tpc, flagVars, queueVars, resourceVars, displayVars>>

InitializeBackend ==
  /\ Goto("backend", "renderer")
  /\ backend' = TRUE
  /\ UNCHANGED <<socketVars, again, tpc, flagVars, queueVars, renderer, renderable, displayVars>>

InitializeRenderer ==
  /\ Goto("renderer", "set_running")
  /\ renderer' = TRUE
  /\ UNCHANGED <<socketVars, again, tpc, flagVars, queueVars, backend, renderable, displayVars>>

SetRunning ==
  /\ Goto("set_running", "spawn")
  /\ running' = TRUE
  /\ UNCHANGED <<socketVars, again, tpc, polling, queueVars, resourceVars, displayVars>>

PollSocket ==
  /\ Goto("spawn", "load")
  /\ polling' = TRUE /\ tpc' = "while"
  /\ UNCHANGED <<socketVars, again, running, queueVars, resourceVars, displayVars>>

Death ==
  /\ pc' = "aborted" /\ tpc' = "none"
  /\ running' = FALSE /\ polling' = FALSE
  /\ KernelReaps
  /\ backend' = FALSE /\ renderer' = FALSE /\ renderable' = FALSE
  /\ UNCHANGED <<again, queueVars, displayVars>>

StartTerminates == pc \in StartPcs \cup {"spawn"} /\ Death

Killed == pc \notin {"exited", "aborted"} /\ Death

(***************************************************************************)
(* LoadConfig(), called with the socket thread already running.            *)
(***************************************************************************)
\* Mutant: the loop's entry sets m_running again.
LoadConfigRestarts ==
  /\ Goto("load", "loop")
  /\ vsync' \in BOOLEAN /\ renderable' = TRUE /\ running' = TRUE
  /\ UNCHANGED <<socketVars, again, tpc, polling, queueVars, backend, renderer, framePending,
                 displayFailed>>

LoadConfig ==
  /\ Goto("load", "loop")
  /\ vsync' \in BOOLEAN /\ renderable' = TRUE
  /\ UNCHANGED <<socketVars, again, tpc, flagVars, queueVars, backend, renderer, framePending,
                 displayFailed>>

\* main() returns 1: only the engine's destructor shuts down.
LoadConfigFails ==
  /\ Goto("load", "stop")
  /\ vsync' \in BOOLEAN /\ again' = FALSE
  /\ UNCHANGED <<socketVars, tpc, flagVars, queueVars, resourceVars, framePending, displayFailed>>

(***************************************************************************)
(* Update(): test, drain the commands, test again, render and present,     *)
(* pump the window system.                                                 *)
(***************************************************************************)
LoopTest ==
  /\ pc = "loop"
  /\ pc' = IF running THEN "drain" ELSE "stop"
  /\ UNCHANGED <<socketVars, again, tpc, flagVars, queueVars, resourceVars, displayVars>>

\* Mutant: DrainCommands copies m_commands instead of swapping it out.
DrainCopies ==
  /\ Goto("drain", "handle")
  /\ batch' = commands
  /\ UNCHANGED <<socketVars, again, tpc, flagVars, commands, cmd, handled, resourceVars, displayVars>>

DrainCommands ==
  /\ Goto("drain", "handle")
  /\ batch' = commands /\ commands' = <<>>
  /\ UNCHANGED <<socketVars, again, tpc, flagVars, cmd, handled, resourceVars, displayVars>>

HandleCommand ==
  /\ pc = "handle" /\ batch # <<>>
  /\ handled' = Append(handled, Head(batch)) /\ batch' = Tail(batch)
  /\ running' = (running /\ Head(batch).code # Stop)
  /\ UNCHANGED <<socketVars, pc, again, tpc, polling, commands, cmd, resourceVars, displayVars>>

\* Mutant: the frame goes on without testing m_running after the drain.
DrainedUntested ==
  /\ Goto("handle", "frame") /\ batch = <<>>
  /\ UNCHANGED <<socketVars, again, tpc, flagVars, queueVars, resourceVars, displayVars>>

Drained ==
  /\ pc = "handle" /\ batch = <<>>
  /\ pc' = IF running THEN "frame" ELSE "stop"
  /\ UNCHANGED <<socketVars, again, tpc, flagVars, queueVars, resourceVars, displayVars>>

\* Update, Render, SwapBuffers.  With vsync eglSwapBuffers waits for the frame
\* callback of the previous swap, which only the compositor can send.
PresentFrame ==
  /\ Goto("frame", "events")
  /\ ~(vsync /\ framePending)
  /\ framePending' = vsync
  /\ UNCHANGED <<socketVars, again, tpc, flagVars, queueVars, resourceVars, vsync, displayFailed>>

\* ProcessEvents() returned true.
PollEvents ==
  /\ Goto("events", "loop")
  /\ UNCHANGED <<socketVars, again, tpc, flagVars, queueVars, resourceVars, displayVars>>

\* ProcessEvents() never returns: its prepare loop ignores that it dispatches
\* nothing, which it does once the display has failed with events still queued.
PumpSpins ==
  /\ Goto("events", "spin") /\ displayFailed
  /\ UNCHANGED <<socketVars, again, tpc, flagVars, queueVars, resourceVars, displayVars>>

\* SwapBuffers() or ProcessEvents() returned false.
FrameFails ==
  /\ pc \in {"frame", "events"} /\ pc' = "stop"
  /\ running' = FALSE
  /\ UNCHANGED <<socketVars, again, tpc, polling, queueVars, resourceVars, displayVars>>

FrameDone ==
  /\ framePending /\ framePending' = FALSE
  /\ UNCHANGED <<socketVars, pc, again, tpc, flagVars, queueVars, resourceVars, vsync,
                 displayFailed>>

DisplayFails ==
  /\ backend \/ pc = "backend"
  /\ ~displayFailed /\ displayFailed' = TRUE
  /\ UNCHANGED <<socketVars, pc, again, tpc, flagVars, queueVars, resourceVars, vsync,
                 framePending>>

(***************************************************************************)
(* Shutdown(), run by main() and once more by the engine's destructor.     *)
(***************************************************************************)
ClearFlags ==
  /\ Goto("stop", "join")
  /\ running' = FALSE /\ polling' = FALSE
  /\ UNCHANGED <<socketVars, again, tpc, queueVars, resourceVars, displayVars>>

\* Mutant: the socket is shut down without joining the thread.
JoinSkipped ==
  /\ Goto("join", "close")
  /\ UNCHANGED <<socketVars, again, tpc, flagVars, queueVars, resourceVars, displayVars>>

\* join() returns once the thread's function has; an unjoinable thread is skipped.
Join ==
  /\ Goto("join", "close")
  /\ tpc \in {"done", "joined"} /\ tpc' = "joined"
  /\ UNCHANGED <<socketVars, again, flagVars, queueVars, resourceVars, displayVars>>

\* Mutant: the path is removed before the descriptors are closed.
UnlinkFirst ==
  /\ \/ Goto("close", "unlink") /\ Unlink
     \/ Goto("unlink", "drop_renderable") /\ CloseSockets
  /\ UNCHANGED <<again, tpc, flagVars, queueVars, resourceVars, displayVars>>

ShutdownSocket ==
  /\ \/ Goto("close", "unlink") /\ CloseSockets
     \/ Goto("unlink", "drop_renderable") /\ Unlink
  /\ UNCHANGED <<again, tpc, flagVars, queueVars, resourceVars, displayVars>>

\* Mutant: m_renderable is left for the destructor of the engine.
KeepRenderable ==
  /\ Goto("drop_renderable", "drop_renderer")
  /\ UNCHANGED <<socketVars, again, tpc, flagVars, queueVars, resourceVars, displayVars>>

ResetRenderable ==
  /\ Goto("drop_renderable", "drop_renderer")
  /\ renderable' = FALSE
  /\ UNCHANGED <<socketVars, again, tpc, flagVars, queueVars, backend, renderer, displayVars>>

ShutdownRenderer ==
  /\ Goto("drop_renderer", "drop_backend")
  /\ renderer' = FALSE
  /\ UNCHANGED <<socketVars, again, tpc, flagVars, queueVars, backend, renderable, displayVars>>

ShutdownBackend ==
  /\ pc = "drop_backend"
  /\ pc' = IF again THEN "stop" ELSE "exited"
  /\ again' = FALSE /\ backend' = FALSE
  /\ UNCHANGED <<socketVars, tpc, flagVars, queueVars, renderer, renderable, displayVars>>

(***************************************************************************)
(* The socket thread: poll, then queue every command taken.                *)
(***************************************************************************)
\* Mutant: the thread does not test m_polling.
PollingUntested ==
  /\ tpc = "while" /\ tpc' = "poll"
  /\ UNCHANGED <<socketVars, pc, again, flagVars, queueVars, resourceVars, displayVars>>

PollingTest ==
  /\ tpc = "while"
  /\ tpc' = IF polling THEN "poll" ELSE "end"
  /\ UNCHANGED <<socketVars, pc, again, flagVars, queueVars, resourceVars, displayVars>>

ThreadPolls ==
  /\ tpc = "poll" /\ PollStep
  /\ tpc' = CASE at' = "failed" -> "fail"
              [] at' = "idle"   -> "take"
              [] OTHER          -> "poll"
  /\ UNCHANGED <<pc, again, flagVars, queueVars, resourceVars, displayVars>>

ThreadTakes ==
  /\ tpc = "take"
  /\ \/ TakeCommand /\ cmd' = <<Head(pending)>> /\ tpc' = "push"
     \/ pending = <<>> /\ tpc' = "while" /\ UNCHANGED <<socketVars, cmd>>
  /\ UNCHANGED <<pc, again, flagVars, commands, batch, handled, resourceVars, displayVars>>

\* Mutant: the thread only tries the lock, which the main thread may hold.
PushTriesLock ==
  /\ tpc = "push" /\ tpc' = "take"
  /\ commands' = IF pc = "drain" THEN commands ELSE commands \o cmd
  /\ cmd' = <<>>
  /\ UNCHANGED <<socketVars, pc, again, flagVars, batch, handled, resourceVars, displayVars>>

ThreadPushes ==
  /\ tpc = "push" /\ tpc' = "take"
  /\ commands' = commands \o cmd /\ cmd' = <<>>
  /\ UNCHANGED <<socketVars, pc, again, flagVars, batch, handled, resourceVars, displayVars>>

ThreadFails ==
  /\ tpc = "fail" /\ tpc' = "end"
  /\ running' = FALSE
  /\ UNCHANGED <<socketVars, pc, again, polling, queueVars, resourceVars, displayVars>>

ThreadEnds ==
  /\ tpc = "end" /\ tpc' = "done"
  /\ polling' = FALSE
  /\ UNCHANGED <<socketVars, pc, again, running, queueVars, resourceVars, displayVars>>

(***************************************************************************)
(* The whole program.  A process that is gone stays gone.                  *)
(***************************************************************************)
Gone == pc \in {"exited", "aborted"}

MainStep ==
  \/ OpenSocket \/ InitializeBackend \/ InitializeRenderer \/ SetRunning \/ PollSocket
  \/ LoadConfig
  \/ LoopTest \/ DrainCommands \/ HandleCommand \/ Drained \/ PresentFrame \/ PollEvents
  \/ ClearFlags \/ Join \/ ShutdownSocket
  \/ ResetRenderable \/ ShutdownRenderer \/ ShutdownBackend

ThreadStep ==
  \/ PollingTest \/ ThreadPolls \/ ThreadTakes \/ ThreadPushes \/ ThreadFails \/ ThreadEnds

Failure == StartTerminates \/ LoadConfigFails \/ PumpSpins \/ FrameFails \/ Killed

\* What the compositor and the clients do once the process is gone is left out.
Outside ==
  /\ ~Gone
  /\ \/ FrameDone \/ DisplayFails
     \/ Environment
        /\ UNCHANGED <<pc, again, tpc, flagVars, queueVars, resourceVars, displayVars>>

Next == MainStep \/ ThreadStep \/ Failure \/ Outside \/ (Gone /\ UNCHANGED vars)

Spec == Init /\ [][Next]_vars

\* The window system and EGL are initialized by roundtrips to the compositor.
AwaitsRoundtrip == pc \in {"backend", "renderer"}

\* Both threads are scheduled, and poll() and read() are not interrupted every
\* time.  Nothing is owed by the compositor, which may leave a roundtrip or a
\* frame unanswered, by the clients or by a failure.
FairSpec ==
  /\ Spec
  /\ WF_vars(MainStep /\ ~AwaitsRoundtrip) /\ WF_vars(ThreadStep)
  /\ SF_vars(ThreadPolls /\ PollReturns)
  /\ SF_vars(ThreadPolls /\ (ReadData \/ ReadEof))

-----------------------------------------------------------------------------
(* Safety *)

\* The socket thread never finds a descriptor closed under it: Shutdown()
\* closes the socket only after join() (PeachWallpaper::Shutdown).
SocketOutlivesThread ==
  tpc \notin {"none", "done", "joined"} => sockfd = "open" /\ listening /\ path = "mine"

\* Once Poll() has failed the runtime stops, however early in the start-up the
\* thread fails: m_running is raised before the thread exists, never after.
PollDeathStops == at = "failed" /\ tpc # "fail" => ~running

\* No command is lost, repeated or overtaken between Socket::TakeCommand on the
\* socket thread and HandleCommand on the main thread.
PipelineFifo == handled \o batch \o commands \o cmd = taken

\* After a stop command is handled no further frame is rendered, swapped or
\* followed by an event pump (the second test of m_running in Update).
NoFrameAfterStop ==
  (\E i \in DOMAIN handled : handled[i].code = Stop) =>
     ~running /\ (pc \in {"handle"} \cup DownPcs \/ Gone)

\* GL objects live inside the renderer's context and the context inside the
\* backend's display, in start-up, in every failure and in both shutdowns.
TeardownOrder == (renderable => renderer) /\ (renderer => backend)

\* When the destructor runs Shutdown() again, and when the process exits, there
\* is nothing left to release: no descriptor, path, thread, context or display.
NothingLeftToRelease ==
  (pc = "stop" /\ tpc = "joined") \/ pc = "exited" =>
    /\ sockfd = "closed" /\ clientFd = NoClient /\ ~isBound /\ path # "mine"
    /\ tpc = "joined" /\ ~backend /\ ~renderer /\ ~renderable

\* Every byte a client wrote reaches HandleCommand once, in the order it was
\* written, not mixed with another client's, or is still under way: in the
\* kernel's buffer, m_pending_commands, cmd, m_commands or the batch.
CommandsAsSent == ArriveInOrder(handled \o batch \o commands \o cmd \o pending)

\* The two threads call the Socket only as Socket.tla allows: no Shutdown() while
\* the other thread is inside Poll(), no Poll() before Listen() or after close().
\* What is proved of the socket alone therefore holds inside the program.
UsesSocket == SocketSpec

\* The abstract service: one queue from the socket's reads to HandleCommand.
Service == INSTANCE CommandService WITH
  queue <- batch \o commands \o cmd \o pending,
  handled <- handled,
  live <- pc \in StartPcs \/ running

\* Socket, thread and loop together implement the command service.
ImplementsService == Service!SvcSpec

\* What the tray and other instances see of this process.
LifePhase ==
  CASE pc \in {"create", "bind"}                            -> "booting"
    [] pc = "listen"                                        -> "bound"
    [] pc \in {"backend", "renderer", "set_running", "spawn"} -> "listening"
    [] pc \in LoopPcs                                       -> "serving"
    [] pc \in DownPcs /\ sockfd = "open"                     -> "stopping"
    [] pc \in DownPcs /\ sockfd # "open" /\ isBound          -> "closed"
    [] pc \in DownPcs /\ sockfd # "open" /\ ~isBound         -> "leaving"
    [] OTHER                                                -> "gone"

Life == INSTANCE InstanceLife WITH phase <- LifePhase, path <- path, open <- listening

\* From bind() to the unlink() of its own shutdown the process owns the path,
\* it accepts commands only in between, and it never turns back; this is all
\* that Lifecycle assumes of an instance.
ImplementsLife == Life!LifeSpec

\* The backend, renderer and renderable, in the order they come and go.
Stage ==
  CASE pc \in StartPcs \cup {"spawn", "load"} -> "starting"
    [] pc \in LoopPcs \ {"load"}              -> "running"
    [] pc \in DownPcs                         -> "stopping"
    [] OTHER                                  -> pc

Resources == INSTANCE RuntimeResources WITH stage <- Stage

\* Start(), LoadConfig() and both runs of Shutdown() take and release them in one
\* order, through every failure: a renderer within its backend, a renderable
\* within its renderer, nothing new once the loop is over, nothing left at exit.
ImplementsResources == Resources!RrSpec

-----------------------------------------------------------------------------
(* What the safety properties rest on: the conjuncts of IInv are inductive *)

ThreadLive == tpc \in {"while", "poll", "take", "push", "fail", "end"}
BeforeThread == pc \in StartPcs \cup {"spawn"}

SocketPhase ==
  /\ pc \in {"create", "bind"} => ~isBound
  /\ pc = "listen" => sockfd = "open" /\ isBound
  /\ pc \in {"backend", "renderer", "set_running", "spawn"} \/ ThreadLive =>
       sockfd = "open" /\ listening /\ isBound

ThreadPhase ==
  /\ BeforeThread => tpc = "none"
  /\ pc \in LoopPcs => ThreadLive \/ tpc = "done"
  /\ pc \in {"stop", "join"} => tpc # "none"
  /\ pc \in DownPcs \ {"stop", "join"} => tpc = "joined"
  /\ Gone => ~ThreadLive
  /\ at = "failed" => tpc \in {"fail", "end", "done", "joined"}

QueuePhase ==
  /\ BeforeThread \/ tpc \in {"while", "poll", "take"} => cmd = <<>>
  /\ pc \notin {"handle", "aborted"} => batch = <<>>

ResourcePhase ==
  /\ backend => pc \notin StartPcs \ {"renderer", "set_running"}
  /\ renderer => pc \notin StartPcs \ {"set_running"}
  /\ renderable => pc \notin StartPcs \cup {"spawn", "load"}
  /\ pc = "renderer" => backend
  /\ pc \in {"set_running", "spawn"} \cup LoopPcs => renderer
  /\ pc = "drop_renderer" => ~renderable
  /\ pc = "drop_backend" => ~renderer

\* The conjunction every safety theorem is proved from: the safety properties
\* and the place in start-up, loop and exit at which each of them may change.
IInv ==
  /\ TypeOK
  /\ UnlinksOwnPath
  /\ SocketPhase /\ ThreadPhase /\ QueuePhase /\ ResourcePhase
  /\ PollDeathStops /\ PipelineFifo /\ NoFrameAfterStop /\ TeardownOrder

\* Where the exit has come and what it has left, together with IInv: what
\* NothingLeftToRelease and ImplementsLife rest on.
Emptied == sockfd = "closed" /\ ~isBound /\ ~backend

ExitInv ==
  /\ pc \notin {"create", "aborted"} => sockfd # "unset"
  /\ sockfd # "open" => clientFd = NoClient /\ ~listening
  /\ pc \in {"create", "bind", "listen"} => ~listening
  /\ pc \in LoopPcs => sockfd = "open"
  /\ sockfd = "open" /\ pc \in LoopPcs \cup DownPcs => listening /\ isBound
  /\ pc \in {"stop", "join"} => IF tpc = "joined" THEN Emptied ELSE sockfd = "open"
  /\ pc = "close" => sockfd = "open" \/ Emptied
  /\ pc \in {"unlink", "drop_renderable", "drop_renderer", "drop_backend"} => sockfd = "closed"
  /\ pc \in {"drop_renderable", "drop_renderer", "drop_backend"} => ~isBound
  /\ pc = "exited" => Emptied /\ tpc = "joined"

\* Only the running thread is ever inside Poll(), and only a dead process left it
\* there: with IInv and ExitInv, what UsesSocket rests on.
PollPhase ==
  /\ at \in {"accept", "read"} => tpc = "poll"
  /\ at = "dead" => pc = "aborted"

-----------------------------------------------------------------------------
(* Liveness, under FairSpec *)

\* What the loop needs of the compositor: frames are answered, and the connection
\* lasts.  A stop is accepted only when the roundtrips of the start are over.
CompositorAnswers == []<>(~framePending)

DisplayLasts == [](~displayFailed)

HoldsStop(bytes) == \E i \in DOMAIN bytes : bytes[i].code = Stop

\* A stop command ends the process once the server has the connection it comes
\* on, wherever it waits: in the kernel's buffer or in any of the four queues
\* behind it.  Only a read error may lose it.  The code can promise no more than
\* this: with vsync on and a silent compositor the main thread stays in
\* eglSwapBuffers, on a display that failed it may stay in ProcessEvents.
StopHonoured ==
  CompositorAnswers /\ DisplayLasts =>
    /\ HoldsStop(batch \o commands \o cmd \o pending) ~> Gone
    /\ \A c \in Clients :
         (conn[c] = "attached" /\ HoldsStop(inbox[c]))
           ~> (Gone \/ (conn[c] = "reset" /\ sockfd = "open"))

\* A shutdown that began ends, whatever the compositor does: join() is bounded
\* by the poll timeout and the loop test of the socket thread.
ShutdownCompletes == pc = "stop" ~> Gone

-----------------------------------------------------------------------------
(* What ShutdownCompletes rests on: a distance that only shrinks           *)

\* Main-thread steps left to the end of this Shutdown(), and of the last one.
DownStage ==
  CASE pc = "stop" -> 7 [] pc = "join" -> 6 [] pc = "close" -> 5 [] pc = "unlink" -> 4
    [] pc = "drop_renderable" -> 3 [] pc = "drop_renderer" -> 2 [] pc = "drop_backend" -> 1
    [] OTHER -> 0

ExitLeft == DownStage + (IF again THEN 7 ELSE 0)

\* What the socket thread has left once m_polling is false: the rest of Poll(),
\* then a turn of the TakeCommand loop for every pending command.
ThreadStage ==
  CASE tpc = "poll"             -> (IF at = "idle" THEN 7 ELSE IF at = "accept" THEN 6 ELSE 5)
    [] tpc \in {"take", "push"}  -> 4
    [] tpc \in {"while", "fail"} -> 3
    [] tpc = "end"              -> 2
    [] OTHER                    -> 1

ThreadLeft == <<ThreadStage, 2 * Len(pending) + (IF tpc = "push" THEN 1 ELSE 0)>>

Nearer(new, old) == new[1] < old[1] \/ (new[1] = old[1] /\ new[2] < old[2])

MainNears == IF MainStep THEN ExitLeft' < ExitLeft ELSE ExitLeft' <= ExitLeft

ThreadNears ==
  pc = "join" /\ pc' = "join" =>
    IF ThreadStep THEN Nearer(ThreadLeft', ThreadLeft) ELSE UNCHANGED ThreadLeft

\* Inside Shutdown() every step of the main thread brings the exit nearer, and
\* while it waits in join() every step of the socket thread does, however many
\* bytes its last read brought; nothing else that happens takes it back.  A
\* Poll() after the flag was cleared, or a second clearing, would break it.
ShutdownNears ==
  [][(pc \in DownPcs) => MainNears /\ ThreadNears]_vars

\* Nobody raises m_polling again: with IInv, what ShutdownNears rests on.
FlagsStay == pc = "join" => ~polling

===========================================================================
