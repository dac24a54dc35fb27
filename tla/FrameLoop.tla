----------------------------- MODULE FrameLoop -----------------------------
(***************************************************************************)
(* What the main thread does with its window system, renderer and          *)
(* renderable (src/PeachWallpaper.cpp: Start, LoadConfig, Update,          *)
(* Shutdown), call by call: which GL, EGL and wl objects exist at each     *)
(* point, through every failure and both shutdowns.  The socket thread,    *)
(* PeachWallpaper.tla's subject, only decides when the loop ends; the      *)
(* backend is its contract, WindowSystem.tla, which WaylandBackend         *)
(* implements.                                                             *)
(***************************************************************************)
EXTENDS GLESRenderer, GLESShaderRenderable

VARIABLES
  pc,     \* the main thread
  again,  \* the engine's destructor will run Shutdown() once more
  open, surface, size  \* the backend

wsVars == <<open, surface, size>>
vars   == <<rendererVars, renderableVars, pc, again, wsVars>>

Backend == INSTANCE WindowSystem

TypeOK ==
  /\ RendererTypeOK /\ RenderableTypeOK
  /\ pc \in {"backend", "renderer", "load", "render", "swap", "events", "drop_renderable",
             "drop_renderer", "drop_backend", "exited", "aborted"}
  /\ again \in BOOLEAN /\ open \in BOOLEAN /\ surface \in BOOLEAN
  /\ size \in Sizes \cup {Unsized}

Init ==
  /\ RendererInit /\ RenderableInit
  /\ pc = "backend" /\ again = TRUE /\ Backend!WsInit

Goto(from, to) == pc = from /\ pc' = to

\* Start(): the backend, then the renderer on the backend's surface and size.
StartBackend ==
  /\ Goto("backend", "renderer") /\ Backend!WsOpen
  /\ at' = "get_display"
  /\ UNCHANGED <<handles, eglReady, ready, extent, failing, exists, current, renderableVars, again>>

StartRenderer ==
  /\ pc = "renderer"
  /\ Initialize(surface, size) \/ (failing /\ Shutdown)
  /\ UNCHANGED <<renderableVars, pc, again, wsVars>>

\* std::terminate() when the backend or the renderer refused.
StartFails ==
  /\ pc = "backend" \/ (pc = "renderer" /\ at = "refused")
  /\ pc' = "aborted"
  /\ UNCHANGED <<rendererVars, renderableVars, again, wsVars>>

\* LoadConfig(), whose renderable exists once its constructor is through.
StartLoading ==
  /\ Goto("renderer", "load") /\ at = "up"
  /\ making' = "config"
  /\ UNCHANGED <<folder, todo, attached, located, nameVars, drawing, glObjects, doomed, stateVars>>
  /\ UNCHANGED <<rendererVars, again, wsVars>>

LoadRenderable ==
  /\ pc = "load" /\ Construct
  /\ UNCHANGED <<rendererVars, pc, again, wsVars>>

Loaded ==
  /\ Goto("load", "render") /\ making = "made"
  /\ UNCHANGED <<rendererVars, renderableVars, again, wsVars>>

\* The constructor threw, or the configuration names no shader: main() returns
\* and only the engine's destructor shuts down.
LoadFails ==
  /\ Goto("load", "drop_renderable") /\ again' = FALSE
  /\ \/ making = "threw" /\ Destroy
     \/ making = "config" /\ making' = "none"
        /\ UNCHANGED <<folder, todo, attached, located, nameVars>>
        /\ UNCHANGED <<drawing, glObjects, doomed, stateVars>>
  /\ UNCHANGED <<rendererVars, wsVars>>

(***************************************************************************)
(* Update(): one frame is render, swap, events.                            *)
(***************************************************************************)
Render ==
  /\ pc = "render" /\ Draw
  /\ pc' = IF drawing' = "idle" THEN "swap" ELSE "render"
  /\ UNCHANGED <<rendererVars, again, wsVars>>

SwapBuffers ==
  /\ Goto("swap", "events")
  /\ UNCHANGED <<rendererVars, renderableVars, again, wsVars>>

\* Handlers that run inside ProcessEvents().
HandleEvents ==
  /\ pc = "events"
  /\ Backend!WsResize \/ Backend!WsLose
  /\ UNCHANGED <<rendererVars, renderableVars, pc, again>>

NextFrame ==
  /\ Goto("events", "render")
  /\ UNCHANGED <<rendererVars, renderableVars, again, wsVars>>

\* m_running is false, or the swap or ProcessEvents() failed.
LoopEnds ==
  /\ pc \in {"render", "swap", "events"} /\ drawing = "idle" /\ pc' = "drop_renderable"
  /\ UNCHANGED <<rendererVars, renderableVars, again, wsVars>>

(***************************************************************************)
(* Shutdown(), twice when the loop was reached.                            *)
(***************************************************************************)
\* Mutant: the renderer goes first.
DropRendererFirst ==
  /\ Goto("drop_renderable", "drop_renderer") /\ at' = "unbind"
  /\ UNCHANGED <<handles, eglReady, ready, extent, failing, exists, current>>
  /\ UNCHANGED <<renderableVars, again, wsVars>>

DropRenderable ==
  /\ Goto("drop_renderable", "drop_renderer") /\ at' = "unbind"
  /\ Destroy
  /\ UNCHANGED <<handles, eglReady, ready, extent, failing, exists, current, again, wsVars>>

DropRenderer ==
  /\ pc = "drop_renderer"
  /\ IF at = "idle" THEN pc' = "drop_backend" /\ UNCHANGED rendererVars
                    ELSE Shutdown /\ UNCHANGED pc
  /\ IF "context" \in exists \ exists' THEN ContextGoes ELSE UNCHANGED renderableVars
  /\ UNCHANGED <<again, wsVars>>

DropBackend ==
  /\ pc = "drop_backend"
  /\ pc' = IF again THEN "drop_renderable" ELSE "exited"
  /\ again' = FALSE
  /\ IF open THEN Backend!WsClose ELSE UNCHANGED wsVars
  /\ UNCHANGED <<rendererVars, renderableVars>>

Next ==
  \/ StartBackend \/ StartRenderer \/ StartFails
  \/ StartLoading \/ LoadRenderable \/ Loaded \/ LoadFails
  \/ Render \/ SwapBuffers \/ HandleEvents \/ NextFrame \/ LoopEnds
  \/ DropRenderable \/ DropRenderer \/ DropBackend
  \/ (pc \in {"exited", "aborted"} /\ UNCHANGED vars)

Spec == Init /\ [][Next]_vars

-----------------------------------------------------------------------------
\* Whatever the renderable has still to delete, and every call of Draw(), has a
\* current context: the renderable goes before the renderer in every shutdown,
\* and a constructor that fails takes what it made with it.
GlCallsHaveContext ==
  program \/ vbo \/ drawing # "idle" => current /\ "context" \in exists

\* Every GL object is either held in a member, once, or already deleted and
\* only waiting for what still needs it: nothing leaks from Load(), CreateShader()
\* or the constructor, whichever file, check or exception ends them, nor with
\* the program that is still in use when it is deleted.
NoGlLeak ==
  /\ "program" \in glObjects \ doomed <=> program
  /\ "vbo" \in glObjects <=> vbo
  /\ glObjects \cap Files \subseteq doomed
  /\ "context" \notin exists => glObjects = {}

\* EGL objects go before the display and window they are made from, and the
\* window before the backend's connection, in Shutdown() and in every failure
\* of Initialize().
EglChildrenFirst ==
  /\ "surface" \in exists => "window" \in exists
  /\ {"surface", "context"} \cap exists # {} => "display" \in exists
  /\ exists # {} => open

\* A failed Initialize() and every Shutdown() leave nothing behind, and a
\* member never points at what was destroyed.
EglUndone ==
  /\ handles \ {"display"} \subseteq exists
  /\ at = "idle" \/ at = "refused" => exists = {} /\ handles = {}

\* Whatever the folder holds, in whatever order it is listed and whichever
\* attributes the shaders use, a frame is drawn in a current context with the
\* renderable's own program, both stages of it linked, from the renderable's own
\* buffer, and leaves no binding and no enabled attribute to the next; only an
\* object that GL refused to make can be missing, since Load() and the
\* constructor do not look.  Without a program nothing is read; without a buffer
\* the draw reads no other buffer, but memory at address 0.
FramesAreDrawable == pc \in {"render", "swap"} => Drawable /\ ready /\ current

\* The two together: EGL objects live and go in order, and all of them go.
EglLifetimes == EglChildrenFirst /\ EglUndone

\* The backend, renderer and renderable as PeachWallpaper knows them; what a
\* terminated process held is the kernel's and the compositor's to clean up.
Stage ==
  CASE pc \in {"backend", "renderer", "load"} -> "starting"
    [] pc \in {"render", "swap", "events"}    -> "running"
    [] pc \in {"exited", "aborted"}           -> pc
    [] OTHER                                  -> "stopping"

Alive == pc # "aborted"

\* The renderable is made, even with neither program nor buffer, or its
\* constructor holds some of it.
Held == program \/ vbo \/ making = "made"

Resources == INSTANCE RuntimeResources WITH
  stage <- Stage, again <- again,
  backend <- Alive /\ open,
  renderer <- Alive /\ exists # {},
  renderable <- Alive /\ Held

\* Call by call, with every EGL object and GL object and every failure between
\* two calls, the three come and go as they do in PeachWallpaper.
ImplementsResources == Resources!RrSpec

-----------------------------------------------------------------------------
(* What the safety properties rest on: the conjuncts of FrameInv, together *)
(* with TypeOK, NoGlLeak and EglChildrenFirst, are inductive.              *)

\* Which of the renderer's calls the main thread can be at.
CallPhase ==
  /\ pc \in {"backend", "drop_backend", "exited"} => at = "idle"
  /\ pc = "renderer" =>
       at \in {"up", "refused"} \cup CallsOf(InitializeCalls) \/ (failing /\ at # "idle")
  /\ pc \in {"load", "render", "swap", "events"} => at = "up"
  /\ pc = "drop_renderable" => at \in {"up", "idle"}
  /\ pc = "drop_renderer" => at \in {"idle"} \cup CallsOf(ShutdownCalls)
  /\ pc = "aborted" => at \in {"idle", "refused"}
  /\ failing => pc \in {"renderer", "aborted"} /\ at \in {"refused"} \cup CallsOf(ShutdownCalls)
  /\ pc = "renderer" => open

\* What EGL holds for the renderer at each of its calls.
EglPhase ==
  /\ handles \ {"display"} \subseteq exists /\ exists \subseteq handles
  /\ eglReady <=> "display" \in exists
  /\ at \in {"idle", "refused", "get_display"} => handles = {}
  /\ at = "initialize" => handles = {"display"}
  /\ at \in {"bind_api", "choose_config", "create_window"} => "display" \in exists
  /\ at \in {"create_surface", "create_context", "make_current", "up"} =>
       {"display", "window"} \subseteq exists
  /\ at \in {"make_current", "up"} => "context" \in exists
  /\ at = "up" => current /\ ready
  /\ at = "destroy_surface" => "context" \notin handles
  /\ at = "terminate" => {"context", "surface"} \cap handles = {}
  /\ at = "destroy_window" => handles \subseteq {"window"}

\* What the renderable holds, and when.
LoadPhase ==
  /\ program => making \in {"files", "buffer", "made", "threw"}
  /\ making \in {"files", "buffer", "made"} => program = ("program" \notin refused)
  /\ vbo => making = "made"
  /\ making = "made" => vbo = ("vbo" \notin refused)
  /\ making \in {"files", "buffer"} => "vbo" \notin refused
  /\ making \in {"buffer", "made"} => IF program THEN attached = Stages ELSE located = {}
  /\ making # "none" => pc \in {"load", "render", "swap", "events", "drop_renderable"} /\ at = "up"
  /\ pc \in {"render", "swap", "events"} => making = "made"
  /\ pc \in {"backend", "renderer", "load"} => ~used
  /\ pc \in {"backend", "renderer"} => glObjects = {} /\ refused = {}
  /\ making \in {"config", "folder"} => glObjects = {} /\ refused = {}
  /\ "vbo" \notin doomed

\* How far Draw() has come: what GL's state is before each of its calls.
Pointing(attribs) == [a \in Attribs |-> IF a \in attribs \cap located THEN Buffer ELSE "disabled"]

DrawPhase ==
  /\ drawing # "idle" => pc = "render"
  /\ drawing \notin {"idle", "use"} => used = program
  /\ bound = IF drawing \in {"idle", "use", "uniforms", "bind"} THEN "none" ELSE Buffer
  /\ source = CASE drawing \in {"draw", "disable"} -> Pointing(Attribs)
                [] drawing = "a_uv"                -> Pointing({"a_position"})
                [] OTHER                           -> NothingSet

FrameInv == CallPhase /\ EglPhase /\ LoadPhase /\ DrawPhase

-----------------------------------------------------------------------------
(* What the comments promise and the code does not do *)

\* "Compiles shader files in a directory" (Load, GLESShader.hpp): a file that is
\* not a shader does not make Load() fail.
OtherFilesIgnored ==
  [][\A f \in todo \ todo' : folder[f] = "other" => making' # "threw"]_vars

=============================================================================
