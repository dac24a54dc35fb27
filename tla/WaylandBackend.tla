--------------------------- MODULE WaylandBackend ---------------------------
(***************************************************************************)
(* Peach::WaylandBackend (src/Backend/Wayland/WaylandBackend.cpp): connect *)
(* to the compositor, bind the globals it announces, make the layer        *)
(* surface, then once per frame read and dispatch what the compositor sent *)
(* without blocking.  The event handlers run inside the dispatch and       *)
(* change the same members.                                                *)
(*                                                                         *)
(* libwayland-client and the compositor are modelled from the calls made:  *)
(* the wire, the default event queue, the read intention of                *)
(* wl_display_prepare_read() and the error a dead connection leaves behind *)
(* (once it is set, every call on the display fails and nothing more is    *)
(* dispatched).  EGL reads the same connection inside eglSwapBuffers(), so *)
(* events may be queued before ProcessEvents() starts.                     *)
(***************************************************************************)
EXTENDS Naturals, Sequences, FiniteSets

CONSTANTS
  Outputs,   \* wl_output globals the compositor may announce
  Sizes,     \* sizes a configure may carry
  Unsized,   \* m_surface_width = m_surface_height = 0
  MaxUnread  \* bound of the model: events sent and not yet dispatched

Slots   == {"display", "registry", "compositor", "output",
            "layer_shell", "surface", "layer_surface"}
Proxies == (Slots \ {"output"}) \cup Outputs
Globals == {"compositor", "layer_shell"} \cup Outputs
Null    == "nullptr"

ASSUME WaylandAssumption ==
  /\ MaxUnread \in Nat
  /\ Outputs \cap (Slots \cup {Null}) = {} /\ Unsized \notin Sizes
  /\ Globals \cap (Sizes \cup {"removed", "closed", "sync"}) = {}
  /\ Sizes \cap {"removed", "closed", "sync"} = {}

\* A global stands for its announcement, a size for the configure that carries it.
Event == Globals \cup Sizes \cup {"removed", "closed", "sync"}

VARIABLES
  member,       \* m_display, m_registry, ... : a proxy or nullptr
  size,         \* m_surface_width, m_surface_height
  initialized,  \* m_initialized
  step,         \* where Initialize(), ProcessEvents() or Shutdown() is
  alive,        \* proxies created and not destroyed
  wire,         \* events sent and not read
  queue,        \* events read into the default queue and not dispatched
  prepared,     \* read intentions held: wl_display_prepare_read()
  sync,         \* the roundtrip's wl_callback
  error,        \* the display's sticky error is set
  connection,   \* "up", an error event ends the wire, or end of file
  announced     \* history: what became of each global

memberVars == <<member, size, initialized>>
libVars    == <<alive, queue, prepared, sync, error>>
serverVars == <<wire, connection, announced>>
vars       == <<memberVars, step, libVars, serverVars>>

RoundSteps == {"round1", "round2"}
PumpSteps  == {"idle", "prepare", "drain", "flush", "poll", "read", "dispatch"}

TypeOK ==
  /\ member \in [Slots -> Proxies \cup {Null}]
  /\ size \in Sizes \cup {Unsized} /\ initialized \in BOOLEAN
  /\ step \in {"connect", "registry", "globals", "create", "refused", "ready", "failed",
               "destroy", "down"} \cup RoundSteps \cup PumpSteps
  /\ alive \subseteq Proxies
  /\ wire \in Seq(Event) /\ queue \in Seq(Event)
  /\ prepared \in Nat
  /\ sync \in {"none", "asked", "answered", "done"}
  /\ error \in BOOLEAN
  /\ connection \in {"up", "error", "eof"}
  /\ announced \in [Globals -> {"never", "here", "gone"}]

Init ==
  /\ member = [s \in Slots |-> Null]
  /\ size = Unsized /\ initialized = FALSE
  /\ step = "connect" /\ alive = {}
  /\ wire = <<>> /\ queue = <<>> /\ prepared = 0 /\ sync = "none"
  /\ error = FALSE /\ connection = "up"
  /\ announced = [g \in Globals |-> "never"]

Goto(from, to) == step = from /\ step' = to

Made(slots) ==
  /\ member' = [s \in Slots |-> IF s \in slots THEN s ELSE member[s]]
  /\ alive' = alive \cup slots

(***************************************************************************)
(* Event handlers, one event of the queue at a time.  libwayland drops the *)
(* events of a proxy that is destroyed.                                    *)
(***************************************************************************)
SlotOf(g) == IF g \in Outputs THEN "output" ELSE g

\* global_listener: bind the global and overwrite the member.
Global(g) ==
  /\ member' = [member EXCEPT ![SlotOf(g)] = g]
  /\ alive' = alive \cup {g}
  /\ UNCHANGED <<size, initialized, sync>>

\* global_listener_remove has an empty body.
GlobalRemoved == UNCHANGED <<memberVars, alive, sync>>

LayerSurfaceConfigure(extent) ==
  /\ size' = IF "layer_surface" \in alive THEN extent ELSE size
  /\ UNCHANGED <<member, initialized, alive, sync>>

\* Mutant: the layer surface is forgotten and its wl_surface left alone.
ClosedKeepsSurface ==
  IF "layer_surface" \in alive /\ member["layer_surface"] # Null
    THEN /\ member' = [member EXCEPT !["layer_surface"] = Null]
         /\ alive' = alive \ {"layer_surface", member["surface"]}
         /\ initialized' = FALSE
         /\ UNCHANGED <<size, sync>>
    ELSE UNCHANGED <<memberVars, alive, sync>>

\* Mutant: the handler also forgets the size.
ClosedResetsSize ==
  IF "layer_surface" \in alive /\ member["layer_surface"] # Null
    THEN /\ member' = [member EXCEPT !["layer_surface"] = Null, !["surface"] = Null]
         /\ alive' = alive \ {"layer_surface", member["surface"]}
         /\ initialized' = FALSE /\ size' = Unsized
         /\ UNCHANGED sync
    ELSE UNCHANGED <<memberVars, alive, sync>>

LayerSurfaceClosed ==
  IF "layer_surface" \in alive /\ member["layer_surface"] # Null
    THEN /\ member' = [member EXCEPT !["layer_surface"] = Null, !["surface"] = Null]
         /\ alive' = alive \ {"layer_surface", member["surface"]}
         /\ initialized' = FALSE
         /\ UNCHANGED <<size, sync>>
    ELSE UNCHANGED <<memberVars, alive, sync>>

RoundtripDone == sync' = "done" /\ UNCHANGED <<memberVars, alive>>

DispatchEvent ==
  /\ queue # <<>> /\ ~error
  /\ queue' = Tail(queue)
  /\ CASE Head(queue) \in Globals     -> Global(Head(queue))
       [] Head(queue) = "removed"     -> GlobalRemoved
       [] Head(queue) \in Sizes       -> LayerSurfaceConfigure(Head(queue))
       [] Head(queue) = "closed"      -> LayerSurfaceClosed
       [] Head(queue) = "sync"        -> RoundtripDone
  /\ UNCHANGED <<prepared, error, serverVars>>

\* A read takes what is on the wire; an error event is noticed before anything
\* read with it is dispatched, the end of the file when nothing is left to read.
Readable == wire # <<>> \/ connection # "up"

ReadWire ==
  /\ queue' = queue \o wire /\ wire' = <<>>
  /\ error' = (error \/ connection = "error" \/ (connection = "eof" /\ wire = <<>>))
  /\ UNCHANGED <<connection, announced>>

(***************************************************************************)
(* Initialize().  When it returns false Start() terminates the process.    *)
(***************************************************************************)
Connect ==
  /\ Goto("connect", "registry") /\ Made({"display"})
  /\ UNCHANGED <<size, initialized, queue, prepared, sync, error, serverVars>>

GetRegistry ==
  /\ Goto("registry", "round1") /\ Made({"registry"})
  /\ sync' = "asked"
  /\ UNCHANGED <<size, initialized, queue, prepared, error, serverVars>>

\* wl_display_roundtrip: read when the queue is empty, dispatch all of it, and
\* return once the callback is done.
RoundtripReads ==
  /\ step \in RoundSteps /\ queue = <<>> /\ sync # "done" /\ ~error
  /\ Readable /\ ReadWire
  /\ UNCHANGED <<memberVars, step, alive, prepared, sync>>

RoundtripDispatches ==
  /\ step \in RoundSteps /\ DispatchEvent
  /\ UNCHANGED step

RoundtripReturns ==
  /\ \/ Goto("round1", "globals") /\ UNCHANGED initialized
     \/ Goto("round2", "ready") /\ initialized' = TRUE
  /\ queue = <<>> /\ sync = "done" /\ ~error
  /\ sync' = "none"
  /\ UNCHANGED <<member, size, alive, queue, prepared, error, serverVars>>

HasGlobals == \A s \in {"display", "registry", "compositor", "output", "layer_shell"} :
                 member[s] # Null

HasRequiredGlobals ==
  /\ Goto("globals", "create") /\ HasGlobals
  /\ UNCHANGED <<memberVars, libVars, serverVars>>

CreateLayerSurface ==
  /\ Goto("create", "round2") /\ Made({"surface", "layer_surface"})
  /\ sync' = "asked"
  /\ UNCHANGED <<size, initialized, queue, prepared, error, serverVars>>

\* Mutant: a missing global is waited for with another roundtrip.
RefuseRetries ==
  \/ /\ step \in {"connect", "registry", "create"} \/ (step \in RoundSteps /\ error)
     /\ step' = "refused"
     /\ UNCHANGED <<memberVars, libVars, serverVars>>
  \/ /\ Goto("globals", "round1") /\ ~HasGlobals
     /\ sync' = "asked"
     /\ UNCHANGED <<memberVars, alive, queue, prepared, error, serverVars>>

\* A call of libwayland failed, or a global is missing.
Refuse ==
  /\ \/ step \in {"connect", "registry", "create"}
     \/ step \in RoundSteps /\ error
     \/ step = "globals" /\ ~HasGlobals
  /\ step' = "refused"
  /\ UNCHANGED <<memberVars, libVars, serverVars>>

(***************************************************************************)
(* ProcessEvents(): IDLE_POLL_MODE, which the interface offers and the     *)
(* runtime never asks for, waits for an event; ACTIVE_POLL_MODE does not.  *)
(***************************************************************************)
ProcessEvents ==
  /\ \E mode \in {"idle", "prepare"} : Goto("ready", mode)
  /\ UNCHANGED <<memberVars, libVars, serverVars>>

\* wl_display_dispatch(): wait and read only if nothing is queued.
IdleDispatch ==
  /\ step = "idle"
  /\ \/ /\ queue # <<>> /\ step' = "dispatch"
        /\ UNCHANGED <<memberVars, libVars, serverVars>>
     \/ /\ queue = <<>> /\ Readable /\ ~error /\ ReadWire
        /\ step' = IF wire = <<>> /\ connection = "eof" THEN "failed" ELSE "dispatch"
        /\ UNCHANGED <<memberVars, alive, prepared, sync>>
     \/ /\ queue = <<>> /\ error /\ step' = "failed"
        /\ UNCHANGED <<memberVars, libVars, serverVars>>

\* prepare_read() refuses while the queue is not empty.
PrepareRead ==
  /\ step = "prepare"
  /\ IF queue = <<>> THEN prepared' = prepared + 1 /\ step' = "flush"
                     ELSE step' = "drain" /\ UNCHANGED prepared
  /\ UNCHANGED <<memberVars, alive, queue, sync, error, serverVars>>

\* Mutant: the loop asks again without dispatching.
DrainNothing ==
  /\ Goto("drain", "prepare")
  /\ UNCHANGED <<memberVars, libVars, serverVars>>

\* dispatch_pending() in the loop's body, whose result is not looked at: it does
\* nothing when the display has failed.
DrainQueue ==
  /\ step = "drain"
  /\ \/ DispatchEvent /\ UNCHANGED step
     \/ (queue = <<>> \/ error) /\ step' = "prepare"
        /\ UNCHANGED <<memberVars, libVars, serverVars>>

CancelRead == prepared' = prepared - 1

Flush ==
  /\ Goto("flush", "poll") /\ ~error
  /\ UNCHANGED <<memberVars, libVars, serverVars>>

\* Mutant: the early return keeps the read intention.
FailsUncancelled ==
  /\ step \in {"flush", "poll"} /\ step' = "failed"
  /\ UNCHANGED <<memberVars, libVars, serverVars>>

\* flush() fails on a dead connection and also, with EAGAIN, when the socket's
\* buffer is full; poll() may be interrupted.
FlushOrPollFails ==
  /\ step \in {"flush", "poll"} /\ step' = "failed"
  /\ CancelRead
  /\ UNCHANGED <<memberVars, alive, queue, sync, error, serverVars>>

Poll ==
  /\ step = "poll"
  /\ IF Readable THEN step' = "read" /\ UNCHANGED prepared
                 ELSE step' = "dispatch" /\ CancelRead
  /\ UNCHANGED <<memberVars, alive, queue, sync, error, serverVars>>

\* Mutant: the intention is cancelled although read_events() gave it up.
ReadThenCancels ==
  /\ step = "read" /\ ReadWire /\ prepared' = prepared - 2
  /\ step' = IF wire = <<>> /\ connection = "eof" THEN "failed" ELSE "dispatch"
  /\ UNCHANGED <<memberVars, alive, sync>>

\* read_events() gives up the intention, and fails at the end of the file.
ReadEvents ==
  /\ step = "read" /\ ReadWire /\ prepared' = prepared - 1
  /\ step' = IF wire = <<>> /\ connection = "eof" THEN "failed" ELSE "dispatch"
  /\ UNCHANGED <<memberVars, alive, sync>>

DispatchPending ==
  /\ step = "dispatch"
  /\ \/ DispatchEvent /\ UNCHANGED step
     \/ /\ queue = <<>> \/ error
        /\ step' = IF error THEN "failed" ELSE "ready"
        /\ UNCHANGED <<memberVars, libVars, serverVars>>

\* eglSwapBuffers() reads the connection between two calls.
EglReads ==
  /\ step = "ready" /\ Readable /\ ReadWire
  /\ UNCHANGED <<memberVars, step, alive, prepared, sync>>

(***************************************************************************)
(* Shutdown(): the program calls it after the loop and once more.          *)
(***************************************************************************)
Shutdown ==
  /\ step \in {"ready", "failed", "down"} /\ step' = "destroy"
  /\ UNCHANGED <<memberVars, libVars, serverVars>>

\* Mutant: the surface goes before the role that wraps it.
SurfaceFirst == <<"surface", "layer_surface", "layer_shell", "compositor",
                  "output", "registry", "display">>

DestroyOrder == <<"layer_surface", "surface", "layer_shell", "compositor",
                  "output", "registry", "display">>

\* The first member in the order that is not null is destroyed and reset.
DestroyWaylandObjects ==
  /\ step = "destroy"
  /\ \E i \in DOMAIN DestroyOrder :
       LET slot == DestroyOrder[i]
       IN  /\ member[slot] # Null
           /\ \A j \in 1..(i - 1) : member[DestroyOrder[j]] = Null
           /\ alive' = alive \ {member[slot]}
           /\ member' = [member EXCEPT ![slot] = Null]
  /\ UNCHANGED <<size, initialized, step, queue, prepared, sync, error, serverVars>>

ShutdownReturns ==
  /\ Goto("destroy", "down") /\ \A s \in Slots : member[s] = Null
  /\ initialized' = FALSE
  /\ UNCHANGED <<member, size, libVars, serverVars>>

(***************************************************************************)
(* The compositor.                                                         *)
(***************************************************************************)
Send(e) ==
  /\ connection = "up" /\ Len(wire) + Len(queue) < MaxUnread
  /\ wire' = Append(wire, e)
  /\ UNCHANGED <<memberVars, step, alive, queue, prepared, error, connection>>

Announce(g) ==
  /\ "registry" \in alive /\ announced[g] = "never"
  /\ announced' = [announced EXCEPT ![g] = "here"]
  /\ Send(g) /\ UNCHANGED sync

Withdraw(o) ==
  /\ "registry" \in alive /\ announced[o] = "here"
  /\ announced' = [announced EXCEPT ![o] = "gone"]
  /\ Send("removed") /\ UNCHANGED sync

SendsToLayerSurface ==
  /\ "layer_surface" \in alive
  /\ \E e \in Sizes \cup {"closed"} : Send(e)
  /\ UNCHANGED <<announced, sync>>

AnswerSync ==
  /\ sync = "asked" /\ sync' = "answered"
  /\ Send("sync") /\ UNCHANGED announced

ConnectionEnds ==
  /\ "display" \in alive /\ connection = "up" /\ connection' \in {"error", "eof"}
  /\ UNCHANGED <<memberVars, step, libVars, wire, announced>>

Compositor ==
  \/ \E g \in Globals : Announce(g)
  \/ \E o \in Outputs : Withdraw(o)
  \/ SendsToLayerSurface \/ AnswerSync \/ ConnectionEnds

InitializeStep ==
  \/ Connect \/ GetRegistry \/ HasRequiredGlobals \/ CreateLayerSurface \/ Refuse
  \/ RoundtripReads \/ RoundtripDispatches \/ RoundtripReturns

PumpStep ==
  \/ IdleDispatch \/ PrepareRead \/ DrainQueue \/ Flush \/ FlushOrPollFails \/ Poll
  \/ ReadEvents \/ DispatchPending

\* The caller: eglSwapBuffers(), ProcessEvents() and at last Shutdown().
CallerStep == EglReads \/ ProcessEvents \/ Shutdown

ShutdownStep == DestroyWaylandObjects \/ ShutdownReturns

Next ==
  \/ InitializeStep \/ PumpStep \/ CallerStep \/ ShutdownStep
  \/ (step \notin {"refused", "down"} /\ Compositor)
  \/ (step = "refused" /\ UNCHANGED vars)

Spec == Init /\ [][Next]_vars

\* The main thread runs.  Nothing is owed by the compositor or the caller.
FairSpec == Spec /\ WF_vars(InitializeStep) /\ WF_vars(PumpStep) /\ WF_vars(ShutdownStep)

-----------------------------------------------------------------------------
(* Safety *)

\* No member points at a proxy that was destroyed, although the closed handler,
\* a second global of the same kind and Shutdown() all destroy or replace them.
NoDangling == \A s \in Slots : member[s] # Null => member[s] \in alive

\* A layer surface is never left without the wl_surface it wraps, and nothing
\* the backend still holds outlives the connection (layer_surface_closed and
\* the order of DestroyWaylandObjects).
ParentsOutlive ==
  /\ "layer_surface" \in alive => "surface" \in alive
  /\ \A s \in Slots : member[s] # Null => "display" \in alive

\* Every path through ProcessEvents gives its read intention back: one that is
\* kept would make the next reader, EGL included, wait for this thread for ever.
ReadsPaired == prepared = IF step \in {"flush", "poll", "read"} THEN 1 ELSE 0

\* Seen from the runtime the backend is a window system: what the handlers do
\* inside a dispatch shows as a surface that is resized or lost between two
\* calls, and the surface never comes back.
Open == step \in {"ready", "failed"} \cup PumpSteps

Contract == INSTANCE WindowSystem WITH
  open <- Open,
  surface <- Open /\ member["surface"] # Null,
  size <- IF Open THEN size ELSE Unsized

ImplementsWindowSystem == Contract!WsSpec

-----------------------------------------------------------------------------
(* What the safety properties rest on: MemberInv is inductive with TypeOK, *)
(* and ReadsPaired besides.                                                *)

\* Each member holds its own kind of proxy or nullptr.
OwnKind ==
  /\ \A s \in Slots \ {"output"} : member[s] \in {s, Null}
  /\ member["output"] \in Outputs \cup {Null}

\* A layer surface that exists is a member, and so is the wl_surface it wraps.
LayerHeld == "layer_surface" \in alive =>
  member["layer_surface"] = "layer_surface" /\ member["surface"] = "surface"

\* The display is there as long as anything is held, and wherever events are
\* dispatched or a proxy is made.
DisplayHeld ==
  /\ \A s \in Slots : member[s] # Null => member["display"] = "display"
  /\ step \notin {"connect", "refused", "destroy", "down"} => member["display"] = "display"

MemberInv == OwnKind /\ NoDangling /\ LayerHeld /\ DisplayHeld

-----------------------------------------------------------------------------
(* Liveness, under FairSpec *)

\* While the connection holds, one ProcessEvents() ends whatever the compositor
\* sends meanwhile: the loop only empties what was queued before it.  The idle
\* mode waits only if there is no event, queued by EGL or on the wire.
PumpReturns ==
  [](~error) =>
    /\ step = "prepare" ~> step \in {"ready", "failed"}
    /\ (step = "idle" /\ (queue # <<>> \/ Readable)) ~> step \in {"ready", "failed"}

\* What one ProcessEvents() has left to do: the loop around prepare_read(), the
\* calls after it, and within either the events of the queue.
PumpStage ==
  CASE step = "idle"     -> 8
    [] step = "prepare"  -> IF queue = <<>> THEN 5 ELSE 8
    [] step = "drain"    -> IF queue = <<>> THEN 6 ELSE 7
    [] step = "flush"    -> 4
    [] step = "poll"     -> 3
    [] step = "read"     -> 2
    [] step = "dispatch" -> 1
    [] OTHER             -> 0

PumpLeft == <<PumpStage, Len(queue)>>

Nearer(new, old) == new[1] < old[1] \/ (new[1] = old[1] /\ new[2] < old[2])

\* Why PumpReturns holds: while the connection is good every call inside
\* ProcessEvents() and every handler it runs brings its end nearer, and nothing
\* the compositor sends meanwhile takes it back.
PumpNears ==
  [][~error /\ step \in PumpSteps =>
       IF PumpStep THEN Nearer(PumpLeft', PumpLeft) ELSE UNCHANGED PumpLeft]_vars

\* Initialize() ends, unless the compositor leaves a roundtrip unanswered.
InitializeReturns ==
  []<>(sync # "asked" \/ connection # "up") => <>(step \in {"ready", "refused"})

-----------------------------------------------------------------------------
(* What the comments promise and the code does not do *)

\* "true when the backend is ready to render into" (WindowSystemBackend.hpp):
\* Initialize() returns true with a surface and a size.
ReadyToRender ==
  [][Goto("round2", "ready") => member'["surface"] # Null /\ size' # Unsized]_vars

\* "Gates ProcessEvents()/state queries" (m_initialized, WaylandBackend.hpp):
\* no events are pumped while m_initialized is false.
GatedByInitialized == [][step = "ready" /\ step' \in {"idle", "prepare"} => initialized]_vars

\* "This must stay non-blocking" (ProcessEvents, WaylandBackend.cpp): every
\* call returns, also when the display has failed.
NeverBlocks == step = "prepare" ~> step \in {"ready", "failed"}

\* "Releases all Wayland resources owned by the backend" (Shutdown,
\* WaylandBackend.hpp): no proxy is left.
AllReleased == step = "down" => alive = {}

=============================================================================
