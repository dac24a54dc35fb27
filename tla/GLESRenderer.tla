---------------------------- MODULE GLESRenderer ----------------------------
(***************************************************************************)
(* Peach::GLESRenderer (src/Renderer/EGL/GLESRenderer.cpp): seven EGL and  *)
(* wayland-egl calls build a current context on the backend's surface; a   *)
(* failure of any of them runs Shutdown() on what was acquired so far.     *)
(* EGL's own side, what really exists, is modelled from those calls.       *)
(***************************************************************************)
EXTENDS Naturals, Sequences

CONSTANTS Sizes, Unsized

ASSUME RendererAssumption == Unsized \notin Sizes

VARIABLES
  handles,      \* m_egl_display, m_egl_window, m_egl_surface, m_egl_ctx that are set
  eglReady,     \* m_egl_initialized
  ready,        \* m_initialized
  extent,       \* m_width, m_height
  at,           \* the next call of Initialize() or Shutdown()
  failing,      \* Shutdown() was called by a failed Initialize()
  exists,       \* EGL's side: initialised display, window, surface, context
  current       \* EGL's side: a context is current

rendererVars == <<handles, eglReady, ready, extent, at, failing, exists, current>>

Objects == {"display", "window", "surface", "context"}

InitializeCalls == <<"get_display", "initialize", "bind_api", "choose_config",
                     "create_window", "create_surface", "create_context", "make_current">>
\* Mutant: the window goes before the surface made from it.
WindowFirst     == <<"unbind", "destroy_window", "destroy_context", "destroy_surface",
                     "terminate">>
ShutdownCalls   == <<"unbind", "destroy_context", "destroy_surface", "terminate",
                     "destroy_window">>

CallsOf(calls) == {calls[i] : i \in DOMAIN calls}

RendererTypeOK ==
  /\ handles \subseteq Objects /\ exists \subseteq Objects
  /\ eglReady \in BOOLEAN /\ ready \in BOOLEAN /\ failing \in BOOLEAN /\ current \in BOOLEAN
  /\ extent \in Sizes \cup {Unsized}
  /\ at \in {"idle", "up", "refused"} \cup CallsOf(InitializeCalls) \cup CallsOf(ShutdownCalls)

RendererInit ==
  /\ handles = {} /\ eglReady = FALSE /\ ready = FALSE /\ extent = Unsized
  /\ at = "idle" /\ failing = FALSE /\ exists = {} /\ current = FALSE

\* Make this call and go on to the one after it in the sequence, if any.
Call(calls, call, done) ==
  \E i \in DOMAIN calls :
    /\ calls[i] = call /\ at = call
    /\ at' = IF i < Len(calls) THEN calls[i + 1] ELSE done

(***************************************************************************)
(* Initialize(native_display, native_window, width, height).  Each call    *)
(* succeeds with the effect below or fails.  wl_egl_window_create()        *)
(* refuses an empty size and no EGL surface is made without a wl_surface.  *)
(***************************************************************************)
Acquire(call, objects) ==
  /\ Call(InitializeCalls, call, "up")
  /\ handles' = handles \cup objects /\ exists' = exists \cup objects

GetDisplay ==
  /\ Call(InitializeCalls, "get_display", "up")
  /\ handles' = handles \cup {"display"}
  /\ UNCHANGED <<eglReady, ready, extent, failing, exists, current>>

InitializeEgl ==
  /\ Acquire("initialize", {"display"}) /\ eglReady' = TRUE
  /\ UNCHANGED <<ready, extent, failing, current>>

ChooseApiAndConfig ==
  /\ \E call \in {"bind_api", "choose_config"} : Acquire(call, {})
  /\ UNCHANGED <<eglReady, ready, extent, failing, current>>

CreateWindow(width) ==
  /\ width # Unsized /\ Acquire("create_window", {"window"})
  /\ UNCHANGED <<eglReady, ready, extent, failing, current>>

CreateSurface(native_window) ==
  /\ native_window /\ Acquire("create_surface", {"surface"})
  /\ UNCHANGED <<eglReady, ready, extent, failing, current>>

CreateContext ==
  /\ Acquire("create_context", {"context"})
  /\ UNCHANGED <<eglReady, ready, extent, failing, current>>

MakeCurrent(width) ==
  /\ Acquire("make_current", {}) /\ current' = TRUE
  /\ extent' = width /\ ready' = TRUE
  /\ UNCHANGED <<eglReady, failing>>

InitializeFails ==
  /\ at \in CallsOf(InitializeCalls)
  /\ IF at = "get_display" THEN at' = "refused" /\ UNCHANGED failing
                           ELSE at' = "unbind" /\ failing' = TRUE
  /\ UNCHANGED <<handles, eglReady, ready, extent, exists, current>>

Initialize(native_window, width) ==
  \/ GetDisplay \/ InitializeEgl \/ ChooseApiAndConfig
  \/ CreateWindow(width) \/ CreateSurface(native_window) \/ CreateContext
  \/ MakeCurrent(width) \/ InitializeFails

(***************************************************************************)
(* Shutdown(): safe on any part of the above, and twice.                   *)
(***************************************************************************)
Finish(call) == Call(ShutdownCalls, call, IF failing THEN "refused" ELSE "idle")

Release(call, object) ==
  /\ Finish(call)
  /\ handles' = handles \ {object}
  /\ exists' = IF object \in handles /\ "display" \in handles /\ eglReady
                 THEN exists \ {object} ELSE exists

\* A failure to unbind is only logged.
Unbind ==
  /\ Finish("unbind")
  /\ current' \in IF "display" \in handles /\ eglReady THEN {current, FALSE} ELSE {current}
  /\ UNCHANGED <<handles, eglReady, ready, extent, failing, exists>>

\* Mutant: the surface is kept for the next Initialize().
ContextOnly ==
  /\ \/ Release("destroy_context", "context")
     \/ Finish("destroy_surface") /\ UNCHANGED <<handles, exists>>
  /\ UNCHANGED <<eglReady, ready, extent, failing, current>>

DestroyContextAndSurface ==
  /\ Release("destroy_context", "context") \/ Release("destroy_surface", "surface")
  /\ UNCHANGED <<eglReady, ready, extent, failing, current>>

Terminate ==
  /\ Release("terminate", "display") /\ eglReady' = FALSE
  /\ UNCHANGED <<ready, extent, failing, current>>

DestroyWindow ==
  /\ Finish("destroy_window")
  /\ handles' = handles \ {"window"} /\ exists' = exists \ (handles \cap {"window"})
  /\ ready' = FALSE
  /\ UNCHANGED <<eglReady, extent, failing, current>>

Shutdown == Unbind \/ DestroyContextAndSurface \/ Terminate \/ DestroyWindow

=============================================================================
