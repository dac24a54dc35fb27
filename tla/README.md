# PeachWallpaper in TLA+

PeachWallpaper draws a shader as the desktop background of a Wayland session. One process holds a
Unix-domain socket for commands, a Wayland connection with a layer surface, an EGL context and a GL
program; a small tray program starts it and stops it through the socket. This directory models the
program's control, checks it with TLC on small instances and proves its safety with TLAPS.

File names below are relative to the repository's `src/` (`PeachWallper.hpp` is spelled so there).

## The system

| part | state it keeps | operations | modelled by |
|---|---|---|---|
| IPC socket (`IPC/Socket`) | listening descriptor, one client descriptor, `m_is_bound`, queue of command bytes | Create, Bind, Listen, Poll (accept, read), TakeCommand, Shutdown | `Socket.tla` |
| runtime (`PeachWallpaper.cpp`, `main.cpp`) | `m_running`, `m_polling` (atomics), `m_commands` under a mutex, the thread, the three parts below | Start, LoadConfig, Update, DrainCommands, HandleCommand, Shutdown; the socket thread | `PeachWallpaper.tla`, `FrameLoop.tla` |
| Wayland backend (`Backend/Wayland`) | seven proxies, surface size, `m_initialized` | Initialize, ProcessEvents, Shutdown; handlers for global, global_remove, configure, closed | `WaylandBackend.tla` |
| GLES renderer (`Renderer/EGL/GLESRenderer`) | EGL display, window, surface, context, size, vsync | Initialize, Render, SwapBuffers, SetVSync, Resize, Shutdown | `GLESRenderer.tla`, vsync in `PeachWallpaper.tla` |
| shader and renderable (`Renderer/EGL/GLESShader*`) | program, vertex buffer, uniforms, time | construction (Load, CreateShader), Update, Draw, Destroy | `GLESShaderRenderable.tla` |
| tray (`tools/tray`) | child process, restart flag, status | start, stop, restart, refresh (250 ms timer), send_command | `Lifecycle.tla` |

How they interact. `main()` calls Start (socket, backend, renderer, thread; any failure is
`std::terminate()`), LoadConfig (the renderable), Update (the frame loop) and Shutdown, which the
engine's destructor calls again. The socket thread is the only concurrent part: it owns the socket from
its creation to its join, and shares `m_running`, `m_polling` and `m_commands` with the main thread.
Wayland handlers run inside ProcessEvents on the main thread and change the backend's members under the
renderer's feet. Clients, the compositor and EGL are outside. The tray and the wallpaper meet in two
places: the child process that the tray polls every 250 ms, and the socket's path, through which a stop
command goes to whichever instance owns it, the tray's child or not.

What is hard: hand-over of commands between two threads through four queues while either side stops; a
poll result used after the world has moved on; clients that hang up, wait or stay silent with a single
client slot; a second Shutdown next to another instance on the same path; events that destroy the surface
between two frames; a read intention that must be given back on every path; a start-up of some twenty
calls each of which may fail; several instances, one path and a tray that holds only one of them, while any
of them may die at any point. `PROJECT.json` lists these hazards at the lines where they bite, with the
properties aimed at them.

What makes each part correct:
- socket: bytes in order and once, one descriptor per client and none leaked, no blocking read, only its
  own path removed, no connection forgotten;
- runtime: commands in order and once, a stop ends frames and the process, a dead control channel stops
  the runtime, the socket outlives its thread, resources go in order and completely;
- backend: no member names a dead proxy, reads are paired, one call of ProcessEvents ends, the contract
  the others rely on;
- renderer and renderable: objects go in the order they depend on each other, nothing survives a failure,
  a frame is drawn in a current context with a complete program from the renderable's own buffer, and lacks
  one of them only if GL refused to make it;
- tray and instances: one owner of the path, one live child, a stop goes to the child if it can receive one,
  one launch for one Restart, a status that does not lie, a death that is noticed, a Restart that ends.

## Modules

`CommandService.tla` (abstract): one queue from the socket's reads to HandleCommand; each command is handled
at most once and in order; once stopped the service never comes back.

`InstanceLife.tla` (abstract): what other programs see of one wallpaper: how far it has come, whether its
socket accepts, and who owns the path. It owns the path from bind() until it removes the entry itself; one
that dies in between leaves a stale entry that nobody removes. `PeachWallpaper` implements it
(`ImplementsLife`), and each instance of `Lifecycle` does (`LifeOfEach`), so that the coarse instances of the
tray's model are tied to the detailed program.

`RuntimeResources.tla` (abstract): in which order backend, renderer and renderable are taken and released,
through failures, both shutdowns and a death: a renderer only within its backend, a renderable only within
its renderer, nothing new once the loop is over, nothing left at the exit. `PeachWallpaper`, which knows each
of the three as one flag, and `FrameLoop`, which knows them as EGL and GL objects, both implement it
(`ImplementsResources` in each), so that the two models of the main thread are two views of one program.

`Socket.tla`: one action per system call of the class, because the kernel and the clients move between
them. `PollReturns`, `Accept`/`NothingToAccept`/`AcceptFails` and `ReadData`/`ReadEof`/`ReadError`/
`NothingRead` are the three stages of `Poll()`; `at` says which is next and `revents` keeps what poll()
reported. `CloseSockets` and `Unlink` are the two halves of Shutdown. External: accept queue, receive
buffers, clients (`Connect`, `ClientWrites`, `ClientCloses`), other instances of the program on the same
path (`OtherInstance`), and what the kernel does with the descriptors of a process that died
(`KernelReaps`, after which `at` is "dead" and no member function runs). `SocketNext` also says how the class
may be used: one thread at a time is inside `Poll()`, `Shutdown()` never runs next to it. Each byte carries its connection, which no action reads, so that properties can
tell equal bytes apart.

`PeachWallpaper.tla` extends Socket with the main thread (`pc`) and the socket thread (`tpc`). Every access
to an atomic and every critical section is a step. `UsesSocket` is `SocketSpec` as a property of the whole
program: its two threads call the socket only as Socket.tla allows, so Socket.tla's own environment is not
too kind. `CommandsAsSent` follows each client's bytes through the kernel's buffer, `m_pending_commands`,
`cmd`, `m_commands` and `batch` to HandleCommand. `Death` is what the kernel does for a process that
called `std::terminate()` or was killed: descriptors close, the path stays. With vsync `PresentFrame` waits
for the frame callback of the previous swap, which only the compositor sends. The display may fail at any
time (`DisplayFails`); on a failed one `PollEvents` may end, or never return (`PumpSpins`), which is the
outcome the run `wayland_spin` of the backend shows.

`WindowSystem.tla` (abstract): what the runtime may rely on of a backend: a surface that events resize or
take away for good.

`WaylandBackend.tla`: Initialize, ProcessEvents and Shutdown call by call; `DispatchEvent` runs the handlers
one event at a time, in the roundtrips, in the prepare loop and in the final dispatch. ProcessEvents has
both modes: IDLE_POLL_MODE (`IdleDispatch`), which the interface offers, and ACTIVE_POLL_MODE, the one the
runtime asks for. `member` maps the
seven members to proxies, `alive` holds the proxies that exist. libwayland is external: `wire`, `queue`,
`prepared` (read intentions) and `error` (the display's sticky error, noticed when a read reaches a
protocol error or the end of the file; afterwards nothing is dispatched). eglSwapBuffers reads the same
connection (`EglReads`), so events may be queued, and the error found, between two calls; that it may
report success all the same is an assumption about EGL, and the finding on the prepare loop rests on it.

`GLESRenderer.tla`, `GLESShaderRenderable.tla`: the EGL calls of Initialize and Shutdown, the steps of the
renderable's constructor, and Draw call by call: which program is used, which buffer is bound and where each
attribute points. GL objects are program, buffer and one shader per file; `doomed` are those already deleted
that GL keeps because something still uses them (an attached shader, the program in use). GL may refuse to
make the program, a shader or the buffer. Only the shader is checked; `refused` remembers the other two, with
which the code goes on: a program 0 takes no shader, and its link may be read as a success from the
uninitialized `link_result`; without a buffer the attributes point at the process's own memory. A folder entry
is a name's extension and whether its text compiles as that stage; the uninitialized `shader_type` of other
files is any of the stages or an invalid value, and their text may compile as a stage (`other_glsl`) or not. A
successful `wl_egl_window_create` needs a size and a successful `eglCreateWindowSurface` a surface.

`FrameLoop.tla` composes renderer and renderable with the window-system contract along the main thread.
The socket thread only decides when the loop ends, which may be at any turn.

`Lifecycle.tla`: the tray's one thread (`tray`: in its event loop, in connect() or in sendall()), its fields
(`process`, `restart`, `status`) and several instances on one path. A click or the timer runs to its end
before the next, except that the instances move while `stop()` waits in connect() and sendall(). Faults are a
kill of any instance, a stop that is closed unread, an instance started by hand, and a tray that quits or is
killed and is started again; `trouble` remembers that one happened, for the liveness properties.

`MC*.tla` add TLC's symmetry sets. `*_proofs.tla` hold the theorems. Definitions commented as `Mutant`
are alternative bodies with a plausible bug; each property of each passing run is violated under one of
them (`PROJECT.json`, "mutants").

## Runs

| run | cfg | bounds | shows |
|---|---|---|---|
| socket | `Socket.cfg` | 2 connections, 2 bytes each, chunk 2, accept queue 1 | the socket alone: bytes in order, descriptors, no blocking read; the accept queue drains and the served client is read |
| wallpaper | `Wallpaper.cfg` | 2 connections, 1 byte, 2 codes | both threads, every failure, kill and shutdown: commands as sent, stop, exit; refinement of Socket's own specification, CommandService, InstanceLife and RuntimeResources |
| stop | `WallpaperStop.cfg` | 1 connection, 2 bytes, 2 codes | a stop is honoured wherever it waits, if the compositor answers frames and the display does not fail; a shutdown ends, whatever they do |
| wayland | `Wayland.cfg` | 2 outputs, 1 size, 3 undispatched events | safety of the backend; refinement of WindowSystem; ProcessEvents and Initialize return |
| frame_loop | `FrameLoop.cfg` | 3 folder entries, 2 sizes | life and order of EGL and GL objects; a frame lacks a program or a buffer only if GL refused it; refinement of RuntimeResources |
| lifecycle | `Lifecycle.cfg` | 3 processes | path, child, stops and status under every fault; refinement of InstanceLife by each instance |
| lifecycle_live | `LifecycleLive.cfg` | 2 processes | a delivered Restart ends in a new serving instance if compositors answer; deaths are noticed |
| wayland_ready, wayland_gate, wayland_spin, wayland_leak | `WaylandReady.cfg` ... | 1 or 2 outputs, 2 events | a comment the backend does not keep (below) |
| frame_folder | `FrameFolder.cfg` | 3 entries | a comment the shader does not keep (below) |

Why the bounds are enough. One client can be served, so two show service and refusal, and an accept queue
of one shows it full. A chunk of two and two bytes give whole, partial and split reads. Commands only differ
in being the stop code or not. That commands keep their order when all four queues between read() and
HandleCommand are filled is proved for every number of bytes. Two outputs are the least that overwrite each
other; three undispatched events allow a configure behind a closed, and all globals arrive across several
reads. Three folder entries are two stages and an intruder in every order. Three processes are the tray's
child, its successor and one that is not the tray's; a process runs once, so a restarted tray still has a
fresh one. Two processes are what one Restart needs; every further failure sets `trouble`, after which
`RestartServes` claims nothing. Every safety property of these runs is proved for any number as well. `MaxSent` and `MaxUnread` are the only bounds written into actions, both in
actions of the outside world; everything else is finite by itself. Symmetry is used for safety only.

Fairness. `FairSpec` of PeachWallpaper: both threads keep running (weak fairness of all of a thread's steps
together); poll() and read() are not interrupted for ever (strong fairness of the poll that returns and of
the read that delivers, since EINTR is retried without a bound). Nothing is owed by clients, compositor or
failures: the main thread is not fair while it waits for a roundtrip of the start (`AwaitsRoundtrip`), a frame
may stay pending, and `PumpSpins` never returns. `StopHonoured` therefore has two premises, stated in the
module: `CompositorAnswers`, without which a vsynced swap waits for ever (an output that is off), and
`DisplayLasts`, without which TLC finds the stop never honoured, by way of `PumpSpins`. `ShutdownCompletes`
needs neither.
`FairSocketSpec`: the thread keeps calling Poll, the same strong fairness, and a failed Poll is followed by
Shutdown. `FairSpec` of WaylandBackend: the calls in progress go on; `InitializeReturns` has as its premise
that roundtrips are answered or the connection ends, and `PumpReturns` that the display has not failed.
`FairSpec` of Lifecycle: the 250 ms timer fires whenever the tray is back in its event loop (strong fairness,
since clicks take it out again), a call ends, at the latest by its timeout of a second, and each instance takes
the steps that are its own (`OwnStep`: bind and listen, the shutdown, the exit). The steps that wait for its
compositor (`CompositorStep`: it serves once its roundtrips are answered, it obeys a stop once its frames and
events are) are not fair; `RestartServes` has their fairness as its premise (`CompositorAnswers`), which is
what the premises of `StopHonoured` and `InitializeReturns` come to here. Without it TLC finds an old instance
that never obeys the stop and a Restart that never ends. `DeathShown` needs no such premise. No click and no
fault is fair.

## What is proved

With TLAPS, for every value of the constants the named assumptions allow (`SocketAssumption`,
`WaylandAssumption`, `RendererAssumption`, `RenderableAssumption`, `LifecycleAssumption`: mostly that model
values differ):

- `Socket_proofs.tla`: the socket's types, `OneClientDescriptor`, `ReadNeverBlocks`, `UnlinksOwnPath`.
- `SocketStream_proofs.tla`: `BytesInOrder`.
- `PeachWallpaper_proofs.tla`: `TypeOK`, `PipelineFifo`, `SocketOutlivesThread`, `PollDeathStops`,
  `NoFrameAfterStop`, `TeardownOrder`, `UnlinksOwnPath`, and the refinement `Spec => ImplementsService`.
  `PipelineFifo`, `TeardownOrder` and `UnlinksOwnPath` are parts of the inductive invariant; no run lists
  them, because `CommandsAsSent`, `ImplementsResources` and `ImplementsLife` say more.
- `InstanceLife_proofs.tla`: `NothingLeftToRelease`, and the refinement `Spec => ImplementsLife`.
- `Runtime_proofs.tla`: the refinement `Spec => UsesSocket`, and through it the socket's `OneClientDescriptor`
  and `ReadNeverBlocks` inside the program; `CommandsAsSent`; the refinement `Spec => ImplementsResources`;
  `ShutdownNears`.
- `Lifecycle_proofs.tla`: `LifecycleTypeOK`, `OwnerHolds`, `OneChild`, `LaunchesAsked`, `StoppedMeansGone`,
  `StopReachesChild`, and that each instance implements InstanceLife (`LifeOfEach`).
- `WaylandBackend_proofs.tla`: `TypeOK`, `NoDangling`, `ParentsOutlive`, `ReadsPaired`, the refinement
  `Spec => ImplementsWindowSystem`, and `PumpNears`.
- `FrameLoop_proofs.tla`: `TypeOK`, `GlCallsHaveContext`, `NoGlLeak`, `EglLifetimes` (`EglChildrenFirst` and
  `EglUndone`), `FramesAreDrawable`, and the refinement `Spec => ImplementsResources`.

The arguments.

*Runtime.* The safety properties are not inductive alone: whether an assignment to `m_running` or a close is
harmless depends on where the other thread is. `IInv` therefore adds four phase conditions: `SocketPhase`
(what is open at each point of start-up and while the thread lives), `ThreadPhase` (where the thread can be
at each point of the main thread), `QueuePhase` (when the local command and batch are empty) and
`ResourcePhase` (what exists at each point). `Invariance` proves that `IInv` holds initially and is kept by
every action; the safety theorems are its conjuncts or follow from them. The refinement of CommandService
maps the abstract queue to `batch \o commands \o cmd \o pending`: reads append at its end, HandleCommand
takes its head, and the steps that move commands from one queue to the next leave the concatenation alone,
which is why they are stutters. The socket's theorems use the same scheme with invariants of their own, and
the runtime's proof reuses their lemmas, since Socket's actions are steps of its threads. What the second
Shutdown() finds needs `ExitInv` besides: what is open, bound and held at each point of the exit, the first
time (the thread is joined only then) and the second (`Emptied`). From it follow `NothingLeftToRelease` and
the refinement of InstanceLife, in which `Death` is the abstract death and every step of another instance
the abstract `OthersMove`.

*Program and socket.* Every step of the program is a step of `SocketNext` or leaves the socket alone. What has
to be known for that is where the socket thread is when the main thread touches the socket: `ExitInv` says that
it is joined when `CloseSockets` runs and that the socket is closed when `Unlink` does, `PollPhase` that only
the running thread is ever inside `Poll()`. With the refinement the socket's theorems need no second proof, and
`CommandsAsSent` is `BytesInOrder`, now a theorem of the program, with `PipelineFifo` put in place of `taken`.

*Resources.* `ResourcePhase` and `TeardownOrder` say which of the three exist at each point, so each step of
`PeachWallpaper` is the abstract step of its name or a stutter. In `FrameLoop` a flag is "some EGL object
exists", or that a program or a buffer exists or the constructor is over (both may have been refused): the first call that makes one and the last that releases one are the
abstract steps, the calls between them stutter, and `EglPhase` and `LoadPhase` say that no other call does
either. `Initialize()` that fails half-way gives the renderer back while starting.

*Termination.* Liveness itself is out of the prover's reach, but what two of the liveness properties rest on is
not. `ShutdownNears`: inside Shutdown() a natural number (`ExitLeft`) falls with every step of the main thread,
and while that thread waits in join() a pair of naturals (`ThreadLeft`: the stage the socket thread is at, then
what is left in `m_pending_commands`) falls in the lexicographic order with every step of the socket thread;
no other step raises either. It needs that nobody raises `m_polling` again (`FlagsStay`). `PumpNears` says the
same of ProcessEvents() with the stage and the length of the queue, as long as the display has not failed; the
finding `wayland_spin` is the case without that premise. That the threads are scheduled, and hence that the
distance reaches zero, is the part TLC checks (`ShutdownCompletes`, `PumpReturns`). No run lists these two
action properties; TLC finds them true when they are added to `Wallpaper.cfg` and `Wayland.cfg`.

*Byte stream.* `BytesInOrder` says nothing of a connection still queued, nor of where the bytes being read go.
`StreamInv` adds both: a connection that is not attached yet, or was refused, has all its bytes in the buffer;
the bytes of the one in service are the *end* of the stream (`taken \o pending`), so that read() makes its piece
longer and leaves every other piece where it is. No connection is attached twice (`Turns`), and TakeCommand
only moves the border between the two queues.

*Tray.* `LifecycleInv` is the conjunction of the properties with `OwnerHolds`: without it an orderly `Unlinks`
could remove another instance's entry. `StopReachesChild` and `LifeOfEach` are action properties proved from
it: an instance that takes the path finds it empty, and `link` was the owner when connect() returned.

*Backend.* `NoDangling` and `ParentsOutlive` rest on `MemberInv`: each member holds its own kind of proxy or
nothing (so that destroying one leaves the others alone), a layer surface that exists is a member and its
wl_surface too (so that the closed handler destroys a matching pair), and the display is held whenever
anything is. The refinement of WindowSystem needs the second part: a configure that is dispatched while a
layer surface exists finds a surface to resize, and closed one to lose.

*Main thread.* `FrameInv` says for every call of Initialize, Shutdown, Load and Draw what EGL holds
(`EglPhase`), what the renderable holds (`LoadPhase`) and what GL's state is (`DrawPhase`), and which calls the
main thread can be at (`CallPhase`). The two halves, EGL and GL, are kept separately, because the renderable
rests while the renderer moves and the other way round, except when the context goes. `FramesAreDrawable` says
exactly what a frame may lack: `program` or `vbo` is missing only if it is in `refused`; with a program both
stages are attached to it, without one no attribute is located.

Only model-checked: liveness, which the prover cannot do (`QueueDrains`, `ServedClientIsRead`, `StopHonoured`,
`ShutdownCompletes`, `PumpReturns`, `InitializeReturns`, `RestartServes`, `DeathShown`), and the properties of
the violation runs, which do not hold. Every safety property of a passing run, action properties and
refinements included, is proved.

## Findings

Each is a run whose property states what a comment says and whose trace shows the code do otherwise.

- `wayland_ready`: Initialize returns "true when the backend is ready to render into", but a closed event in
  the second roundtrip is overwritten by `m_initialized = true`, and a configure may not have arrived.
- `wayland_gate`: `m_initialized` "gates ProcessEvents()", which never reads it.
- `wayland_spin`: ProcessEvents "must stay non-blocking"; on a failed display with queued events its prepare
  loop never ends.
- `wayland_leak`: Shutdown "releases all Wayland resources"; of two outputs the first is forgotten.
- `frame_folder`: Load "compiles shader files in a directory"; any other file in it is compiled with an
  uninitialized stage and, unless it happens to compile as that stage, fails the load.

Seen on the way, without a run: ProcessEvents also returns false, and the runtime ends, on a full send buffer;
nothing calls Resize, so after a second configure frames keep the old size; after a closed event the loop
swaps on a surface that is destroyed (the consequence of `wayland_gate`); a client that connects before the
previous one's hang-up is read is refused without being told; a stop that was read is not honoured when the
display failed with events queued (the consequence of `wayland_spin`); glCreateProgram() and glGenBuffers() are
not checked, and with program 0 `link_result` is read uninitialized, so that Load may return true and frames be
drawn without a program, or, without a buffer, from attributes that point at address 0; a file of another
extension that happens to compile is linked into the program as whatever stage `shader_type` held.

Of the tray, which documents no intention to compare with: `restart_requested` outlives a stop that failed, so
that a later Stop, or a crash, launches the wallpaper again (that is one launch for one Restart, as
`LaunchesAsked` says); a Stop after a Restart does not take the Restart back; a stop may reach an instance that
is not the tray's when its own child could not bind or has closed (`StopReachesChild` says exactly when); a
stop that is closed unread leaves "Stopping" over a running child; after one death before unlink() every
later launch ends in `bind()`, the status going from Starting to Stopped.

## What is not modelled

Values of uniforms, vertices and time; the text of configuration files (only what it decides: vsync, and
whether a renderable is made); logging; memory order (the atomics are sequentially consistent in the code);
what a debug build adds (GL_CALL raises SIGTRAP on a GL error, a case of `Killed`, and loops on glGetError()
before each call, for which `GlCallsHaveContext` is what it needs). `Resize` of the
renderer, which nothing calls. The image renderable and the other wallpaper types are declared or refused,
not implemented. The tray's menu, icon and argument parsing, which keep no state. What happens to clients and
compositor after the process is gone is left out.

Smaller things left out, at their place: main() returning 1 before `Start()` when there is no configuration
(`main.cpp:15-23`, nothing is held yet); the parts' own destructors, which shut down a third time after the
engine's (`NothingLeftToRelease` holds before the second already); a configure of size 0 by 0; buffer contents,
hence glBufferData() out of memory; and that after a failed unbind (`GLESRenderer.cpp:136-139`, only logged) EGL
would merely mark the current context and surface and let them go with the thread's binding, where the model
lets them go at once. When a tray restarts, its successor knows nothing of the child it left; that orphan keeps
the path (`OwnerHolds`) and makes the successor's first launch fail, but `OneChild` and `DeathShown` are about
the children of one tray and say nothing of it.

The rest of the repository's headers are declarations of what is modelled above, the JSON tables of
`GlmGlaze.hpp`, and the protocol file the handlers are generated from.

## Plan

1. Done: `CommandService`, `RuntimeResources`, `Socket`, `PeachWallpaper`; `WindowSystem`, `WaylandBackend`, `GLESRenderer`,
   `GLESShaderRenderable`, `FrameLoop`; `InstanceLife`, `Lifecycle`; the proofs listed above.
2. Left: a `Resize` if the runtime comes to call it; a joint liveness argument from `StopHonoured` and
   `InitializeReturns` to the premise `CompositorAnswers` of `RestartServes`, which today is only named after
   them; distances like those of `ShutdownNears` for `QueueDrains` and for the roundtrips of Initialize.
