-------------------------- MODULE FrameLoop_proofs --------------------------
(***************************************************************************)
(* Theorems about FrameLoop, for every folder, every size and every        *)
(* failure.  The invariant says at each call of Initialize(), Load(),      *)
(* Draw() and Shutdown() what EGL and GL hold.                             *)
(***************************************************************************)
EXTENDS FrameLoop, TLAPS

FrameLoopInv == TypeOK /\ FrameInv /\ NoGlLeak /\ EglChildrenFirst

-----------------------------------------------------------------------------
(* The sequences of calls *)

InitializePairs ==
  {<<"get_display", "initialize">>, <<"initialize", "bind_api">>,
   <<"bind_api", "choose_config">>, <<"choose_config", "create_window">>,
   <<"create_window", "create_surface">>, <<"create_surface", "create_context">>,
   <<"create_context", "make_current">>, <<"make_current", "up">>}

LEMMA InitializeOrder ==
  ASSUME NEW call, Call(InitializeCalls, call, "up")
  PROVE  at = call /\ <<call, at'>> \in InitializePairs
BY DEF Call, InitializeCalls, InitializePairs

ShutdownPairs(done) ==
  {<<"unbind", "destroy_context">>, <<"destroy_context", "destroy_surface">>,
   <<"destroy_surface", "terminate">>, <<"terminate", "destroy_window">>,
   <<"destroy_window", done>>}

LEMMA ShutdownOrder ==
  ASSUME NEW call, Finish(call)
  PROVE  at = call /\ <<call, at'>> \in ShutdownPairs(IF failing THEN "refused" ELSE "idle")
BY DEF Finish, Call, ShutdownCalls, ShutdownPairs

DrawPairs ==
  {<<"use", "uniforms">>, <<"uniforms", "bind">>, <<"bind", "a_position">>,
   <<"a_position", "a_uv">>, <<"a_uv", "draw">>, <<"draw", "disable">>,
   <<"disable", "unbind">>, <<"unbind", "idle">>}

LEMMA DrawOrder ==
  ASSUME NEW call, DrawCall(call)
  PROVE  drawing = call /\ <<call, drawing'>> \in DrawPairs
BY DEF DrawCall, DrawCalls, DrawPairs

LEMMA CallNames ==
  /\ CallsOf(InitializeCalls) =
       {"get_display", "initialize", "bind_api", "choose_config", "create_window",
        "create_surface", "create_context", "make_current"}
  /\ CallsOf(ShutdownCalls) =
       {"unbind", "destroy_context", "destroy_surface", "terminate", "destroy_window"}
  /\ {DrawCalls[i] : i \in DOMAIN DrawCalls} =
       {"use", "uniforms", "bind", "a_position", "a_uv", "draw", "disable", "unbind"}
<1>1. DOMAIN InitializeCalls = 1..8 /\ DOMAIN ShutdownCalls = 1..5 /\ DOMAIN DrawCalls = 1..8
  BY DEF InitializeCalls, ShutdownCalls, DrawCalls
<1>2. CallsOf(InitializeCalls) =
       {"get_display", "initialize", "bind_api", "choose_config", "create_window",
        "create_surface", "create_context", "make_current"}
  BY <1>1 DEF CallsOf, InitializeCalls
<1>3. CallsOf(ShutdownCalls) =
       {"unbind", "destroy_context", "destroy_surface", "terminate", "destroy_window"}
  BY <1>1 DEF CallsOf, ShutdownCalls
<1>4. {DrawCalls[i] : i \in DOMAIN DrawCalls} =
       {"use", "uniforms", "bind", "a_position", "a_uv", "draw", "disable", "unbind"}
  BY <1>1 DEF DrawCalls
<1>. QED  BY <1>2, <1>3, <1>4

-----------------------------------------------------------------------------
(* The renderer *)

EglInv == RendererTypeOK /\ CallPhase /\ EglPhase /\ EglChildrenFirst
GlInv == RenderableTypeOK /\ LoadPhase /\ NoGlLeak /\ DrawPhase
LoopTypeOK ==
  /\ pc \in {"backend", "renderer", "load", "render", "swap", "events", "drop_renderable",
             "drop_renderer", "drop_backend", "exited", "aborted"}
  /\ again \in BOOLEAN /\ open \in BOOLEAN /\ surface \in BOOLEAN
  /\ size \in Sizes \cup {Unsized}

LEMMA SplitInv == FrameLoopInv <=> LoopTypeOK /\ EglInv /\ GlInv
BY DEF FrameLoopInv, TypeOK, FrameInv, LoopTypeOK, EglInv, GlInv

LEMMA JoinInv ==
  ASSUME LoopTypeOK', EglInv', GlInv'
  PROVE  FrameLoopInv'
BY DEF FrameLoopInv, TypeOK, FrameInv, LoopTypeOK, EglInv, GlInv

LEMMA InitializeKeepsEgl ==
  ASSUME EglInv, LoopTypeOK, pc = "renderer", Initialize(surface, size),
         UNCHANGED <<pc, again, wsVars>>
  PROVE  EglInv'
<1>. USE CallNames DEF EglInv, RendererTypeOK, CallPhase, EglPhase, EglChildrenFirst, Objects,
                       LoopTypeOK, wsVars, Acquire, InitializePairs
<1>1. CASE GetDisplay
  BY <1>1, InitializeOrder DEF GetDisplay
<1>2. CASE InitializeEgl
  BY <1>2, InitializeOrder DEF InitializeEgl
<1>3. CASE ChooseApiAndConfig
  BY <1>3, InitializeOrder DEF ChooseApiAndConfig
<1>4. CASE CreateWindow(size)
  BY <1>4, InitializeOrder DEF CreateWindow
<1>5. CASE CreateSurface(surface)
  BY <1>5, InitializeOrder DEF CreateSurface
<1>6. CASE CreateContext
  BY <1>6, InitializeOrder DEF CreateContext
<1>7. CASE MakeCurrent(size)
  BY <1>7, InitializeOrder DEF MakeCurrent
<1>8. CASE InitializeFails
  BY <1>8 DEF InitializeFails
<1>. QED  BY <1>1, <1>2, <1>3, <1>4, <1>5, <1>6, <1>7, <1>8 DEF Initialize

\* Shutdown(), called by a failed Initialize() or by the program's exit.
LEMMA ShutdownKeepsEgl ==
  ASSUME EglInv, LoopTypeOK, Shutdown,
         (pc = "renderer" /\ failing) \/ (pc = "drop_renderer" /\ at # "idle"),
         UNCHANGED <<pc, again, wsVars>>
  PROVE  EglInv'
<1>. USE CallNames DEF EglInv, RendererTypeOK, CallPhase, EglPhase, EglChildrenFirst, Objects,
                       LoopTypeOK, wsVars, Release, ShutdownPairs
<1>1. CASE Unbind
  BY <1>1, ShutdownOrder DEF Unbind
<1>2. CASE Release("destroy_context", "context") /\ UNCHANGED <<eglReady, ready, extent, failing, current>>
  BY <1>2, ShutdownOrder
<1>3. CASE Release("destroy_surface", "surface") /\ UNCHANGED <<eglReady, ready, extent, failing, current>>
  BY <1>3, ShutdownOrder
<1>4. CASE Terminate
  <2>1. at = "terminate" /\ at' = "destroy_window"
    BY <1>4, ShutdownOrder DEF Terminate
  <2>2. handles \subseteq {"window", "display"} /\ exists \subseteq handles
    BY <2>1
  <2>3. handles' \subseteq {"window"} /\ exists' = exists \ {"display"} /\ ~eglReady'
    BY <1>4, <2>2 DEF Terminate
  <2>4. RendererTypeOK' /\ EglPhase'
    BY <1>4, <2>1, <2>2, <2>3 DEF Terminate
  <2>5. EglChildrenFirst'
    BY <2>2, <2>3
  <2>6. CallPhase'
    BY <1>4, <2>1 DEF Terminate
  <2>. QED  BY <2>4, <2>5, <2>6
<1>5. CASE DestroyWindow
  <2>1. at = "destroy_window" /\ at' = IF failing THEN "refused" ELSE "idle"
    BY <1>5, ShutdownOrder DEF DestroyWindow
  <2>2. RendererTypeOK' /\ EglPhase' /\ EglChildrenFirst'
    BY <1>5, <2>1 DEF DestroyWindow
  <2>3. CallPhase'
    BY <1>5, <2>1 DEF DestroyWindow
  <2>. QED  BY <2>2, <2>3
<1>. QED  BY <1>1, <1>2, <1>3, <1>4, <1>5 DEF Shutdown, DestroyContextAndSurface

-----------------------------------------------------------------------------
(* The renderable: construction *)

LEMMA LoadKeepsGl ==
  ASSUME GlInv, pc = "load", EglInv, Construct, UNCHANGED <<rendererVars, pc>>
  PROVE  GlInv'
<1>0. at = "up" /\ "context" \in exists /\ at' = "up" /\ "context" \in exists' /\ pc' = "load"
  BY DEF EglInv, CallPhase, EglPhase, rendererVars
<1>. USE <1>0, RenderableAssumption
     DEF GlInv, RenderableTypeOK, LoadPhase, NoGlLeak, nameVars, stateVars, Present
<1>1. drawing = "idle" /\ DrawPhase /\ ~used
  BY DEF DrawPhase
<1>2. UNCHANGED <<drawing, used, bound, source>>
  BY DEF Construct, ReadConfig, CreateProgram, NextFile, LinkProgram, MakeBuffer, Throw
<1>3. DrawPhase'
  BY <1>1, <1>2 DEF DrawPhase
<1>4. CASE ReadConfig
  BY <1>3, <1>4 DEF ReadConfig
<1>5. CASE CreateProgram
  BY <1>1, <1>3, <1>5 DEF CreateProgram, MadeOrRefused
<1>6. CASE MakeBuffer
  BY <1>1, <1>3, <1>6 DEF MakeBuffer, MadeOrRefused
<1>7. CASE Throw
  BY <1>3, <1>7 DEF Throw
<1>8. ASSUME DeleteProgram, making \in {"files", "buffer"}, todo' \subseteq todo,
             UNCHANGED <<folder, attached, located, vbo, refused, drawing, stateVars>>
      PROVE  GlInv'
  BY <1>1, <1>3, <1>8 DEF DeleteProgram, GlDeletesProgram
<1>9. ASSUME NEW f \in Files, NEW type \in Stages, making = "files", AttachShader(f, type),
             todo' \subseteq todo,
             UNCHANGED <<folder, located, vbo, refused, drawing, stateVars>>
      PROVE  GlInv'
  BY <1>1, <1>3, <1>9 DEF AttachShader
<1>10. CASE NextFile
  <2>1. PICK f \in todo :
          /\ todo' = todo \ {f}
          /\ IF folder[f] = "subdir"
               THEN UNCHANGED <<making, attached, program, glObjects, doomed>>
               ELSE \/ \E type \in ShaderTypes(folder[f]) :
                          Compiles(folder[f], type) /\ AttachShader(f, type)
                    \/ DeleteProgram /\ UNCHANGED attached
    BY <1>10 DEF NextFile
  <2>2. /\ making = "files" /\ UNCHANGED <<folder, located, vbo, refused, drawing, stateVars>>
        /\ todo' \subseteq todo /\ f \in Files
    BY <1>10, <2>1 DEF NextFile
  <2>3. CASE UNCHANGED <<making, attached, program, glObjects, doomed>>
    BY <1>3, <2>2, <2>3
  <2>4. CASE DeleteProgram /\ UNCHANGED attached
    BY <1>8, <2>2, <2>4
  <2>5. ASSUME NEW type, AttachShader(f, type), Compiles(folder[f], type)
        PROVE  GlInv'
    <3>1. type \in Stages
      BY <2>5 DEF Compiles, Stages
    <3>. QED  BY <1>9, <2>2, <2>5, <3>1
  <2>. QED  BY <2>1, <2>3, <2>4, <2>5
<1>11. CASE LinkProgram
  <2>1. CASE DeleteProgram /\ UNCHANGED located
    BY <1>8, <1>11, <2>1 DEF LinkProgram
  <2>2. CASE /\ IF program THEN attached = Stages /\ located' \in SUBSET Attribs
                           ELSE located' = {}
             /\ making' = "buffer"
             /\ UNCHANGED <<program, glObjects, doomed>>
    <3>1. DrawPhase'
      BY <1>1, <1>2 DEF DrawPhase
    <3>. QED  BY <1>3, <1>11, <2>2 DEF LinkProgram
  <2>. QED  BY <1>11, <2>1, <2>2 DEF LinkProgram
<1>. QED  BY <1>4, <1>5, <1>6, <1>7, <1>10, <1>11 DEF Construct

-----------------------------------------------------------------------------
(* The renderable: destruction and drawing *)

\* The destructor, in the context, or once more when nothing is left.
LEMMA DestroyKeepsGl ==
  ASSUME GlInv, Destroy, drawing = "idle", UNCHANGED exists,
         pc' \in {"drop_renderable", "drop_renderer"}
  PROVE  GlInv' /\ ~program' /\ ~vbo'
<1>. USE RenderableAssumption
     DEF GlInv, RenderableTypeOK, LoadPhase, NoGlLeak, stateVars, Destroy
<1>1. ~program' /\ ~vbo' /\ making' = "none" /\ UNCHANGED <<drawing, used, bound, source, located>>
  OBVIOUS
<1>2. DrawPhase'
  BY <1>1 DEF DrawPhase
<1>3. RenderableTypeOK'
  BY DEF Present
<1>4. NoGlLeak'
  OBVIOUS
<1>5. LoadPhase'
  OBVIOUS
<1>. QED  BY <1>1, <1>2, <1>3, <1>4, <1>5

LEMMA DrawKeepsGl ==
  ASSUME GlInv, pc = "render", Draw, UNCHANGED <<rendererVars>>,
         pc' = IF drawing' = "idle" THEN "swap" ELSE "render"
  PROVE  GlInv'
<1>0. UNCHANGED <<loadVars, nameVars, glObjects, doomed, exists, at>>
  BY DEF Draw, StartDraw, Bind, SetUniforms, BindBuffer, EnableAttrib, DrawArrays,
         DisableAttribs, DrawCall, rendererVars
<1>1. making = "made" /\ located \subseteq Attribs /\ Buffer' = Buffer
  BY <1>0 DEF GlInv, LoadPhase, RenderableTypeOK, Buffer, nameVars
<1>2. LoadPhase' /\ NoGlLeak'
  BY <1>0 DEF GlInv, LoadPhase, NoGlLeak, loadVars, nameVars
<1>3. /\ used' \in BOOLEAN /\ DrawPhase'
      /\ drawing' \in {"idle", "use", "uniforms", "bind", "a_position", "a_uv", "draw",
                       "disable", "unbind"}
  <2>0. Buffer \in {"vbo", "none"} /\ program \in BOOLEAN /\ Buffer' = Buffer /\ program' = program
    BY <1>0, <1>1 DEF Buffer, GlInv, RenderableTypeOK, nameVars
  <2>. USE <1>1, <2>0 DEF GlInv, RenderableTypeOK, DrawPhase, DrawPairs, Pointing, NothingSet, Attribs,
                    stateVars, HasAttrib, loadVars
  <2>1. CASE StartDraw
    BY <2>1 DEF StartDraw, DrawCalls
  <2>2. CASE Bind
    BY <2>2, DrawOrder DEF Bind
  <2>3. CASE SetUniforms
    BY <2>3, DrawOrder DEF SetUniforms
  <2>4. CASE DrawCall("bind") /\ bound' = Buffer /\ UNCHANGED <<used, source>>
    BY <1>0, <2>4, DrawOrder
  <2>5. CASE DrawCall("unbind") /\ bound' = "none" /\ UNCHANGED <<used, source>>
    BY <1>0, <2>5, DrawOrder
  <2>6. CASE EnableAttrib("a_position")
    BY <1>0, <2>6, DrawOrder DEF EnableAttrib
  <2>7. CASE EnableAttrib("a_uv")
    BY <1>0, <2>7, DrawOrder DEF EnableAttrib
  <2>8. CASE DrawArrays
    BY <1>0, <2>8, DrawOrder DEF DrawArrays
  <2>9. CASE DisableAttribs
    BY <1>0, <2>9, DrawOrder DEF DisableAttribs
  <2>. QED
    BY <2>1, <2>2, <2>3, <2>4, <2>5, <2>6, <2>7, <2>8, <2>9 DEF Draw, BindBuffer
<1>4. RenderableTypeOK'
  BY <1>0, <1>3, CallNames
  DEF GlInv, RenderableTypeOK, DrawPhase, Pointing, Buffer, NothingSet, loadVars, nameVars, Present
<1>. QED  BY <1>2, <1>3, <1>4 DEF GlInv

-----------------------------------------------------------------------------
(* The main thread *)

\* The renderable rests, and nothing of it depends on where the thread goes.
LEMMA GlRests ==
  ASSUME GlInv, UNCHANGED renderableVars, drawing # "idle" => pc' = "render",
         making # "none" =>
           pc' \in {"load", "render", "swap", "events", "drop_renderable"} /\ at' = "up",
         pc' \in {"render", "swap", "events"} => making = "made",
         pc' \in {"backend", "renderer", "load"} => pc \in {"backend", "renderer", "load"},
         pc' \in {"backend", "renderer"} => pc \in {"backend", "renderer"},
         "context" \notin exists' => glObjects = {}
  PROVE  GlInv'
<1>. USE DEF renderableVars, loadVars, nameVars, stateVars
<1>1. RenderableTypeOK'
  BY DEF GlInv, RenderableTypeOK, Present
<1>2. LoadPhase' /\ NoGlLeak'
  BY DEF GlInv, LoadPhase, NoGlLeak
<1>3. DrawPhase'
  BY DEF GlInv, DrawPhase, Pointing, NothingSet, Buffer
<1>. QED  BY <1>1, <1>2, <1>3 DEF GlInv

\* The renderer rests: only where the thread is can change what EglInv says.
LEMMA EglRests ==
  ASSUME EglInv, UNCHANGED rendererVars, UNCHANGED open, CallPhase'
  PROVE  EglInv'
<1>. USE DEF rendererVars
<1>1. RendererTypeOK'
  BY DEF EglInv, RendererTypeOK
<1>2. EglPhase'
  BY DEF EglInv, EglPhase
<1>3. EglChildrenFirst'
  BY DEF EglInv, EglChildrenFirst
<1>. QED  BY <1>1, <1>2, <1>3 DEF EglInv

LEMMA StartKeepsInv ==
  ASSUME FrameLoopInv, StartBackend \/ StartRenderer \/ StartFails \/ StartLoading
  PROVE  FrameLoopInv'
<1>0. LoopTypeOK /\ EglInv /\ GlInv
  BY SplitInv
<1>1. drawing = "idle" /\ making = "none" /\ glObjects = {}
  BY <1>0 DEF GlInv, DrawPhase, LoadPhase, EglInv, CallPhase, StartBackend, StartRenderer,
              StartFails, StartLoading, Goto
<1>2. CASE StartBackend
  <2>1. LoopTypeOK'
    BY <1>0, <1>2 DEF LoopTypeOK, StartBackend, Goto, Backend!WsOpen
  <2>2. EglInv'
    BY <1>0, <1>2, CallNames
    DEF EglInv, RendererTypeOK, CallPhase, EglPhase, EglChildrenFirst, StartBackend, Goto,
        Backend!WsOpen
  <2>3. GlInv'
    BY <1>0, <1>1, <1>2, GlRests DEF StartBackend, Goto
  <2>. QED  BY <2>1, <2>2, <2>3, JoinInv
<1>3. CASE StartRenderer
  <2>1. LoopTypeOK'
    BY <1>0, <1>3 DEF LoopTypeOK, StartRenderer, wsVars
  <2>2. EglInv'
    BY <1>0, <1>3, InitializeKeepsEgl, ShutdownKeepsEgl DEF StartRenderer
  <2>3. GlInv'
    BY <1>0, <1>1, <1>3, GlRests DEF StartRenderer
  <2>. QED  BY <2>1, <2>2, <2>3, JoinInv
<1>4. CASE StartFails
  <2>1. LoopTypeOK'
    BY <1>0, <1>4 DEF LoopTypeOK, StartFails, wsVars
  <2>2. EglInv'
    BY <1>0, <1>4, CallNames
    DEF EglInv, RendererTypeOK, CallPhase, EglPhase, EglChildrenFirst, StartFails, wsVars,
        rendererVars
  <2>3. GlInv'
    BY <1>0, <1>1, <1>4, GlRests DEF StartFails, rendererVars
  <2>. QED  BY <2>1, <2>2, <2>3, JoinInv
<1>5. CASE StartLoading
  <2>1. LoopTypeOK'
    BY <1>0, <1>5 DEF LoopTypeOK, StartLoading, Goto, wsVars
  <2>2. EglInv'
    <3>1. /\ pc = "renderer" /\ at = "up" /\ pc' = "load"
          /\ UNCHANGED rendererVars /\ UNCHANGED open
      BY <1>5 DEF StartLoading, Goto, wsVars
    <3>2. ~failing
      BY <1>0, <3>1, CallNames DEF EglInv, CallPhase
    <3>3. CallPhase'
      BY <3>1, <3>2 DEF CallPhase, rendererVars
    <3>. QED  BY <1>0, <3>1, <3>3, EglRests
  <2>3. GlInv'
    BY <1>0, <1>1, <1>5
    DEF GlInv, RenderableTypeOK, LoadPhase, NoGlLeak, DrawPhase, Present, StartLoading, Goto,
        EglInv, EglPhase, CallPhase, nameVars, stateVars, rendererVars
  <2>. QED  BY <2>1, <2>2, <2>3, JoinInv
<1>. QED  BY <1>2, <1>3, <1>4, <1>5

LEMMA LoadingKeepsInv ==
  ASSUME FrameLoopInv, LoadRenderable \/ Loaded \/ LoadFails
  PROVE  FrameLoopInv'
<1>0. LoopTypeOK /\ EglInv /\ GlInv /\ pc = "load" /\ at = "up" /\ at' = "up"
  BY SplitInv DEF LoadRenderable, Loaded, LoadFails, Goto, EglInv, CallPhase, rendererVars
<1>1. drawing = "idle" /\ ~used
  BY <1>0 DEF GlInv, DrawPhase, LoadPhase
<1>2. LoopTypeOK'
  BY <1>0 DEF LoopTypeOK, LoadRenderable, Loaded, LoadFails, Goto, wsVars
<1>3. EglInv'
  <2>1. UNCHANGED rendererVars /\ UNCHANGED open /\ pc' \in {"load", "render", "drop_renderable"}
    BY <1>0 DEF LoadRenderable, Loaded, LoadFails, Goto, wsVars
  <2>2. CallPhase'
    BY <1>0, <2>1 DEF EglInv, CallPhase, rendererVars
  <2>. QED  BY <1>0, <2>1, <2>2, EglRests
<1>4. CASE LoadRenderable
  <2>1. GlInv'
    BY <1>0, <1>4, LoadKeepsGl DEF LoadRenderable
  <2>. QED  BY <1>2, <1>3, <2>1, JoinInv
<1>5. CASE Loaded
  <2>1. GlInv'
    BY <1>0, <1>1, <1>5, GlRests DEF Loaded, Goto, rendererVars, GlInv, NoGlLeak
  <2>. QED  BY <1>2, <1>3, <2>1, JoinInv
<1>6. CASE LoadFails
  <2>1. CASE making = "threw" /\ Destroy
    <3>1. GlInv'
      BY <1>0, <1>1, <1>6, <2>1, DestroyKeepsGl DEF LoadFails, Goto, rendererVars
    <3>. QED  BY <1>2, <1>3, <3>1, JoinInv
  <2>2. CASE /\ making = "config" /\ making' = "none"
             /\ UNCHANGED <<folder, todo, attached, located, nameVars>>
             /\ UNCHANGED <<drawing, glObjects, doomed, stateVars>>
    <3>1. GlInv'
      BY <1>0, <1>1, <1>6, <2>2
      DEF GlInv, RenderableTypeOK, LoadPhase, NoGlLeak, DrawPhase, Pointing, Present, LoadFails,
          Goto, nameVars, stateVars, rendererVars
    <3>. QED  BY <1>2, <1>3, <3>1, JoinInv
  <2>. QED  BY <1>6, <2>1, <2>2 DEF LoadFails
<1>. QED  BY <1>4, <1>5, <1>6

LEMMA FrameKeepsInv ==
  ASSUME FrameLoopInv, Render \/ SwapBuffers \/ HandleEvents \/ NextFrame \/ LoopEnds
  PROVE  FrameLoopInv'
<1>0. /\ LoopTypeOK /\ EglInv /\ GlInv
      /\ pc \in {"render", "swap", "events"} /\ UNCHANGED rendererVars
  BY SplitInv DEF Render, SwapBuffers, HandleEvents, NextFrame, LoopEnds, Goto
<1>1. at = "up" /\ "context" \in exists /\ making = "made" /\ UNCHANGED <<at, exists>>
  BY <1>0 DEF EglInv, CallPhase, EglPhase, GlInv, LoadPhase, rendererVars
<1>2. pc' \in {"render", "swap", "events", "drop_renderable"} /\ UNCHANGED again
  BY DEF Render, SwapBuffers, HandleEvents, NextFrame, LoopEnds, Goto
<1>3. open' = open /\ surface' \in BOOLEAN /\ size' \in Sizes \cup {Unsized}
  BY <1>0 DEF Render, SwapBuffers, HandleEvents, NextFrame, LoopEnds, wsVars, LoopTypeOK,
              Backend!WsResize, Backend!WsLose
<1>4. LoopTypeOK'
  BY <1>0, <1>2, <1>3 DEF LoopTypeOK
<1>5. EglInv'
  BY <1>0, <1>1, <1>2, <1>3
  DEF EglInv, RendererTypeOK, CallPhase, EglPhase, EglChildrenFirst, rendererVars
<1>6. GlInv'
  <2>1. CASE Render
    BY <1>0, <2>1, DrawKeepsGl DEF Render
  <2>2. CASE SwapBuffers \/ HandleEvents \/ NextFrame \/ LoopEnds
    <3>1. UNCHANGED renderableVars
      BY <2>2 DEF SwapBuffers, HandleEvents, NextFrame, LoopEnds
    <3>2. drawing = "idle"
      BY <1>0, <2>2 DEF SwapBuffers, HandleEvents, NextFrame, LoopEnds, Goto, GlInv, DrawPhase
    <3>. QED  BY <1>0, <1>1, <1>2, <3>1, <3>2, GlRests
  <2>. QED  BY <2>1, <2>2
<1>. QED  BY <1>4, <1>5, <1>6, JoinInv

LEMMA ExitKeepsInv ==
  ASSUME FrameLoopInv, DropRenderable \/ DropRenderer \/ DropBackend
  PROVE  FrameLoopInv'
<1>0. LoopTypeOK /\ EglInv /\ GlInv
  BY SplitInv
<1>1. drawing = "idle"
  BY <1>0 DEF GlInv, DrawPhase, DropRenderable, DropRenderer, DropBackend, Goto
<1>2. CASE DropRenderable
  <2>1. LoopTypeOK'
    BY <1>0, <1>2 DEF LoopTypeOK, DropRenderable, Goto, wsVars
  <2>2. EglInv'
    BY <1>0, <1>2, CallNames
    DEF EglInv, RendererTypeOK, CallPhase, EglPhase, EglChildrenFirst, DropRenderable, Goto,
        wsVars
  <2>3. GlInv'
    BY <1>0, <1>1, <1>2, DestroyKeepsGl DEF DropRenderable, Goto
  <2>. QED  BY <2>1, <2>2, <2>3, JoinInv
<1>3. CASE DropRenderer
  <2>0. making = "none" /\ ~program /\ ~vbo /\ pc = "drop_renderer" /\ UNCHANGED <<again, wsVars>>
    BY <1>0, <1>3 DEF GlInv, LoadPhase, DropRenderer
  <2>1. LoopTypeOK'
    BY <1>0, <1>3, <2>0 DEF LoopTypeOK, DropRenderer, wsVars
  <2>2. EglInv'
    <3>1. CASE at = "idle"
      BY <1>0, <1>3, <2>0, <3>1, CallNames
      DEF EglInv, RendererTypeOK, CallPhase, EglPhase, EglChildrenFirst, DropRenderer, wsVars,
          rendererVars
    <3>2. CASE at # "idle"
      BY <1>0, <1>3, <2>0, <3>2, ShutdownKeepsEgl DEF DropRenderer
    <3>. QED  BY <3>1, <3>2
  <2>3. pc' \in {"drop_renderer", "drop_backend"}
    BY <1>3, <2>0 DEF DropRenderer
  <2>4. CASE "context" \in exists \ exists'
    <3>1. ContextGoes
      BY <1>3, <2>4 DEF DropRenderer
    <3>2. RenderableTypeOK'
      BY <1>0, <3>1
      DEF GlInv, RenderableTypeOK, Present, NothingSet, ContextGoes, loadVars, nameVars
    <3>3. LoadPhase' /\ NoGlLeak'
      BY <1>0, <2>0, <2>3, <3>1
      DEF GlInv, LoadPhase, NoGlLeak, ContextGoes, loadVars, nameVars
    <3>4. DrawPhase'
      BY <1>0, <1>1, <3>1 DEF GlInv, DrawPhase, ContextGoes
    <3>. QED  BY <2>1, <2>2, <3>2, <3>3, <3>4, JoinInv DEF GlInv
  <2>5. CASE "context" \notin exists \ exists'
    <3>1. UNCHANGED renderableVars
      BY <1>3, <2>5 DEF DropRenderer
    <3>2. "context" \notin exists' => glObjects = {}
      BY <1>0, <2>5 DEF GlInv, NoGlLeak
    <3>3. GlInv'
      BY <1>0, <1>1, <2>0, <2>3, <3>1, <3>2, GlRests
    <3>. QED  BY <2>1, <2>2, <3>3, JoinInv
  <2>. QED  BY <2>4, <2>5
<1>4. CASE DropBackend
  <2>0. making = "none" /\ at = "idle" /\ handles = {} /\ exists = {}
    BY <1>0, <1>4 DEF GlInv, LoadPhase, DropBackend, EglInv, CallPhase, EglPhase
  <2>1. LoopTypeOK'
    BY <1>0, <1>4 DEF LoopTypeOK, DropBackend, wsVars, Backend!WsClose
  <2>2. EglInv'
    BY <1>0, <1>4, <2>0, CallNames
    DEF EglInv, RendererTypeOK, CallPhase, EglPhase, EglChildrenFirst, DropBackend, rendererVars
  <2>3. GlInv'
    BY <1>0, <1>1, <1>4, <2>0, GlRests DEF DropBackend, rendererVars, GlInv, NoGlLeak
  <2>. QED  BY <2>1, <2>2, <2>3, JoinInv
<1>. QED  BY <1>2, <1>3, <1>4

-----------------------------------------------------------------------------
(* The theorems *)

LEMMA InitFrameLoop == Init => FrameLoopInv
<1>. SUFFICES ASSUME Init PROVE FrameLoopInv
  OBVIOUS
<1>1. LoopTypeOK
  BY DEF Init, LoopTypeOK, Backend!WsInit
<1>2. EglInv
  BY CallNames DEF Init, RendererInit, EglInv, RendererTypeOK, CallPhase, EglPhase, EglChildrenFirst
<1>3. GlInv
  BY DEF Init, RenderableInit, GlInv, RenderableTypeOK, LoadPhase, NoGlLeak, DrawPhase, NothingSet,
         Present
<1>. QED  BY <1>1, <1>2, <1>3, SplitInv

LEMMA NextFrameLoop == FrameLoopInv /\ [Next]_vars => FrameLoopInv'
<1>. SUFFICES ASSUME FrameLoopInv, [Next]_vars PROVE FrameLoopInv'
  OBVIOUS
<1>1. CASE UNCHANGED vars
  <2>0. LoopTypeOK /\ EglInv /\ GlInv
    BY SplitInv
  <2>1. LoopTypeOK'
    BY <1>1, <2>0 DEF LoopTypeOK, vars, wsVars
  <2>2. EglInv'
    BY <1>1, <2>0
    DEF EglInv, RendererTypeOK, CallPhase, EglPhase, EglChildrenFirst, vars, rendererVars, wsVars
  <2>3. GlInv'
    BY <1>1, <2>0, GlRests
    DEF vars, rendererVars, GlInv, DrawPhase, LoadPhase, NoGlLeak
  <2>. QED  BY <2>1, <2>2, <2>3, JoinInv
<1>. QED
  BY <1>1, StartKeepsInv, LoadingKeepsInv, FrameKeepsInv, ExitKeepsInv DEF Next

\* At every call of start-up, loading, drawing and exit EGL and GL hold what the
\* invariant says, whichever call before it failed.
THEOREM FrameLoopInvariance == Spec => []FrameLoopInv
BY InitFrameLoop, NextFrameLoop, PTL DEF Spec

\* The main thread's variables keep their types.
THEOREM FrameLoopTypeCorrect == Spec => []TypeOK
<1>1. FrameLoopInv => TypeOK
  BY DEF FrameLoopInv
<1>. QED  BY <1>1, FrameLoopInvariance, PTL

\* Every GL call of the renderable, its destructor's included, has a context.
THEOREM ContextForEveryGlCall == Spec => []GlCallsHaveContext
<1>1. FrameLoopInv => GlCallsHaveContext
  BY DEF FrameLoopInv, FrameInv, CallPhase, EglPhase, LoadPhase, DrawPhase, GlCallsHaveContext
<1>. QED  BY <1>1, FrameLoopInvariance, PTL

\* No GL object leaks, whatever ends the constructor.
THEOREM GlObjectsAccounted == Spec => []NoGlLeak
<1>1. FrameLoopInv => NoGlLeak
  BY DEF FrameLoopInv
<1>. QED  BY <1>1, FrameLoopInvariance, PTL

\* EGL objects go before what they are made from.
THEOREM EglOrder == Spec => []EglChildrenFirst
<1>1. FrameLoopInv => EglChildrenFirst
  BY DEF FrameLoopInv
<1>. QED  BY <1>1, FrameLoopInvariance, PTL

\* A failed Initialize() and every Shutdown() undo all that was acquired.
THEOREM EglAllUndone == Spec => []EglUndone
<1>1. FrameLoopInv => EglUndone
  BY DEF FrameLoopInv, FrameInv, EglPhase, EglUndone
<1>. QED  BY <1>1, FrameLoopInvariance, PTL

\* Both: at every moment EGL objects have what they are made from, and in the end
\* nothing is left of them.
THEOREM EglLifetimesKept == Spec => []EglLifetimes
BY EglOrder, EglAllUndone, PTL DEF EglLifetimes

\* For every folder, every listing order and every set of attributes a frame is
\* drawn with the renderable's own complete program and buffer and leaves nothing
\* set, unless GL refused to make one of the two; then the theorem says which of
\* them is missing and what the draw reads instead: nothing without a program,
\* memory at address 0 without a buffer.
THEOREM EveryFrameDrawable == Spec => []FramesAreDrawable
<1>1. FrameLoopInv => FramesAreDrawable
  BY DEF FrameLoopInv, FrameInv, CallPhase, EglPhase, LoadPhase, DrawPhase, FramesAreDrawable,
         Drawable, Pointing, Reads, Buffer, NothingSet, HasAttrib
<1>. QED  BY <1>1, FrameLoopInvariance, PTL

-----------------------------------------------------------------------------
(* FrameLoop implements RuntimeResources *)

ResourceStep == [Resources!RrNext]_(Resources!rrVars)

ResourceFlags == <<Alive /\ open, Alive /\ exists # {}, Alive /\ Held>>

LEMMA SameResources ==
  ASSUME Stage' = Stage, ResourceFlags' = ResourceFlags, UNCHANGED again
  PROVE  ResourceStep
BY DEF ResourceStep, Resources!rrVars, ResourceFlags

LEMMA StartTakes ==
  ASSUME FrameLoopInv, StartBackend \/ StartRenderer \/ StartFails \/ StartLoading
  PROVE  ResourceStep
<1>0. LoopTypeOK /\ EglInv /\ GlInv
  BY SplitInv
<1>1. CASE StartBackend
  <2>1. pc = "backend" /\ pc' = "renderer" /\ ~open /\ open' = TRUE
        /\ UNCHANGED <<again, exists, Held>>
    BY <1>1 DEF Held, StartBackend, Goto, Backend!WsOpen, renderableVars, loadVars, nameVars
  <2>. QED
    BY <2>1 DEF ResourceStep, Resources!RrNext, Resources!OpenBackend, Stage, Alive
<1>2. CASE StartRenderer
  <2>1. /\ pc = "renderer" /\ pc' = "renderer" /\ open /\ ~Held
        /\ UNCHANGED <<again, open, Held>>
    BY <1>0, <1>2
    DEF StartRenderer, EglInv, CallPhase, GlInv, LoadPhase, Held, wsVars, renderableVars, loadVars,
        nameVars
  <2>2. CASE (exists' # {}) = (exists # {})
    BY <2>1, <2>2, SameResources DEF Stage, Alive, ResourceFlags
  <2>3. CASE (exists' # {}) = ~(exists # {})
    BY <2>1, <2>3
    DEF ResourceStep, Resources!RrNext, Resources!InitializeRenderer, Stage, Alive
  <2>. QED  BY <2>2, <2>3
<1>3. CASE StartFails
  <2>1. Stage \notin {"exited", "aborted"} /\ Stage' = "aborted" /\ ~Alive' /\ UNCHANGED again
    BY <1>3 DEF StartFails, Stage, Alive
  <2>. QED  BY <2>1 DEF ResourceStep, Resources!RrNext, Resources!Dies
<1>4. CASE StartLoading
  <2>1. /\ pc = "renderer" /\ pc' = "load"
        /\ UNCHANGED <<again, open, exists, Held>>
    BY <1>0, <1>4
    DEF StartLoading, Goto, GlInv, LoadPhase, Held, wsVars, rendererVars, nameVars
  <2>. QED  BY <2>1, SameResources DEF Stage, Alive, ResourceFlags
<1>. QED  BY <1>1, <1>2, <1>3, <1>4

LEMMA LoadingTakes ==
  ASSUME FrameLoopInv, LoadRenderable \/ Loaded \/ LoadFails
  PROVE  ResourceStep
<1>0. /\ pc = "load" /\ exists # {}
      /\ UNCHANGED <<open, exists>>
  BY SplitInv
  DEF LoadRenderable, Loaded, LoadFails, Goto, EglInv, CallPhase, EglPhase, wsVars, rendererVars
<1>1. CASE LoadRenderable
  <2>1. pc' = "load" /\ UNCHANGED again
    BY <1>0, <1>1 DEF LoadRenderable
  <2>2. CASE Held' = Held
    BY <1>0, <2>1, <2>2, SameResources DEF Stage, Alive, ResourceFlags
  <2>3. CASE Held' = ~Held
    BY <1>0, <2>1, <2>3
    DEF ResourceStep, Resources!RrNext, Resources!LoadRenderable, Stage, Alive
  <2>4. Held \in BOOLEAN /\ Held' \in BOOLEAN
    BY DEF Held
  <2>. QED  BY <2>2, <2>3, <2>4
<1>2. CASE Loaded
  <2>1. pc' = "render" /\ making = "made" /\ UNCHANGED <<again, making>>
    BY <1>2 DEF Loaded, Goto, renderableVars, loadVars
  <2>2. Held'
    BY <2>1 DEF Held
  <2>. QED
    BY <1>0, <2>1, <2>2
    DEF ResourceStep, Resources!RrNext, Resources!Loaded, Resources!Passes, Stage, Alive
<1>3. CASE LoadFails
  <2>1. pc' = "drop_renderable" /\ again' = FALSE
    BY <1>3 DEF LoadFails, Goto
  <2>2. ~Held'
    <3>1. CASE Destroy
      BY <3>1 DEF Destroy, Held
    <3>2. CASE making = "config" /\ making' = "none" /\ UNCHANGED nameVars
      BY <3>2, SplitInv DEF GlInv, LoadPhase, Held, nameVars
    <3>. QED  BY <1>3, <3>1, <3>2 DEF LoadFails
  <2>. QED
    BY <1>0, <2>1, <2>2
    DEF ResourceStep, Resources!RrNext, Resources!LoadFails, Resources!Passes, Stage, Alive
<1>. QED  BY <1>1, <1>2, <1>3

LEMMA FramesHold ==
  ASSUME Render \/ SwapBuffers \/ HandleEvents \/ NextFrame \/ LoopEnds
  PROVE  ResourceStep
<1>1. /\ pc \in {"render", "swap", "events"}
      /\ pc' \in {"render", "swap", "events", "drop_renderable"}
      /\ UNCHANGED <<again, open, exists>>
  BY DEF Render, SwapBuffers, HandleEvents, NextFrame, LoopEnds, Goto, wsVars, rendererVars,
         Backend!WsResize, Backend!WsLose
<1>2. UNCHANGED Held
  BY DEF Held, Render, SwapBuffers, HandleEvents, NextFrame, LoopEnds, Draw, StartDraw, Bind, SetUniforms,
         BindBuffer, EnableAttrib, DrawArrays, DisableAttribs, DrawCall, renderableVars, loadVars,
         nameVars
<1>3. CASE pc' # "drop_renderable"
  BY <1>1, <1>2, <1>3, SameResources DEF Stage, Alive, ResourceFlags
<1>4. CASE pc' = "drop_renderable"
  BY <1>1, <1>2, <1>4
  DEF ResourceStep, Resources!RrNext, Resources!LoopEnds, Resources!Passes, Stage, Alive
<1>. QED  BY <1>3, <1>4

LEMMA ExitReleases ==
  ASSUME FrameLoopInv, DropRenderable \/ DropRenderer \/ DropBackend
  PROVE  ResourceStep
<1>0. LoopTypeOK /\ EglInv /\ GlInv
  BY SplitInv
<1>1. CASE DropRenderable
  <2>1. /\ pc = "drop_renderable" /\ pc' = "drop_renderer" /\ ~Held'
        /\ UNCHANGED <<again, open, exists>>
    BY <1>1 DEF DropRenderable, Goto, Destroy, Held, wsVars
  <2>. QED
    BY <2>1 DEF ResourceStep, Resources!RrNext, Resources!DropRenderable, Stage, Alive
<1>2. CASE DropRenderer
  <2>1. /\ pc = "drop_renderer" /\ pc' \in {"drop_renderer", "drop_backend"}
        /\ ~Held /\ UNCHANGED <<again, open, Held>>
    BY <1>0, <1>2
    DEF DropRenderer, GlInv, LoadPhase, Held, ContextGoes, wsVars, renderableVars, loadVars,
        nameVars
  <2>2. exists' \subseteq exists
    BY <1>2
    DEF DropRenderer, rendererVars, Shutdown, Unbind, DestroyContextAndSurface, Terminate,
        DestroyWindow, Release
  <2>3. CASE (exists' # {}) = (exists # {})
    BY <2>1, <2>3, SameResources DEF Stage, Alive, ResourceFlags
  <2>4. CASE exists' = {} /\ exists # {}
    BY <2>1, <2>4
    DEF ResourceStep, Resources!RrNext, Resources!DropRenderer, Stage, Alive
  <2>. QED  BY <2>2, <2>3, <2>4
<1>3. CASE DropBackend
  <2>1. /\ pc = "drop_backend" /\ exists = {} /\ ~Held
    BY <1>0, <1>3 DEF DropBackend, EglInv, CallPhase, EglPhase, GlInv, LoadPhase, Held
  <2>2. /\ pc' = IF again THEN "drop_renderable" ELSE "exited"
        /\ again' = FALSE /\ ~open' /\ UNCHANGED <<exists, Held>>
    BY <1>0, <1>3
    DEF DropBackend, Backend!WsClose, Held, wsVars, rendererVars, renderableVars, loadVars, nameVars,
        LoopTypeOK
  <2>. QED
    BY <2>1, <2>2
    DEF ResourceStep, Resources!RrNext, Resources!DropBackend, Resources!Passes, Stage, Alive
<1>. QED  BY <1>1, <1>2, <1>3

\* The calls of start-up, loading and exit, each with its failure, add up to the
\* three flags of PeachWallpaper: the two models describe one program.
THEOREM ResourcesRefinement == Spec => ImplementsResources
<1>1. Init => Resources!RrInit
  BY DEF Init, RendererInit, RenderableInit, Backend!WsInit, Resources!RrInit, Stage, Alive, Held
<1>2. FrameLoopInv /\ [Next]_vars => ResourceStep
  <2>. SUFFICES ASSUME FrameLoopInv, [Next]_vars PROVE ResourceStep
    OBVIOUS
  <2>1. CASE UNCHANGED vars
    BY <2>1, SameResources
    DEF vars, rendererVars, renderableVars, loadVars, nameVars, wsVars, Stage, Alive, Held,
        ResourceFlags
  <2>. QED
    BY <2>1, StartTakes, LoadingTakes, FramesHold, ExitReleases DEF Next
<1>. HIDE DEF FrameLoopInv
<1>3. FrameLoopInv /\ [Next]_vars => [Resources!RrNext]_(Resources!rrVars)
  BY <1>2 DEF ResourceStep
<1>. QED
  BY <1>1, <1>3, FrameLoopInvariance, PTL DEF Spec, ImplementsResources, Resources!RrSpec

=============================================================================
