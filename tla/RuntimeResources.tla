-------------------------- MODULE RuntimeResources --------------------------
(***************************************************************************)
(* In which order the runtime takes hold of its window-system backend, its *)
(* renderer and its renderable, and lets go of them again.  PeachWallpaper *)
(* knows each of the three as one flag, FrameLoop as the objects it is     *)
(* made of; both implement what is said here, and so speak of one program. *)
(***************************************************************************)
VARIABLES stage,      \* "starting", "running", "stopping", "exited" or "aborted"
          again,      \* the exit will run Shutdown() once more
          backend, renderer, renderable  \* which of them exist

rrVars == <<stage, again, backend, renderer, renderable>>

RrInit ==
  /\ stage = "starting" /\ again = TRUE
  /\ backend = FALSE /\ renderer = FALSE /\ renderable = FALSE

Passes(from, to) == stage = from /\ stage' = to

OpenBackend ==
  /\ stage = "starting" /\ ~backend /\ backend' = TRUE
  /\ UNCHANGED <<stage, again, renderer, renderable>>

\* Initialize() needs the backend, and gives back what it made when it fails.
InitializeRenderer ==
  /\ stage = "starting" /\ backend /\ ~renderable /\ renderer' = ~renderer
  /\ UNCHANGED <<stage, again, backend, renderable>>

LoadRenderable ==
  /\ stage = "starting" /\ renderer /\ renderable' = ~renderable
  /\ UNCHANGED <<stage, again, backend, renderer>>

Loaded ==
  /\ Passes("starting", "running") /\ renderer /\ renderable' = TRUE
  /\ UNCHANGED <<again, backend, renderer>>

LoadFails ==
  /\ Passes("starting", "stopping") /\ renderer /\ renderable' = FALSE /\ again' = FALSE
  /\ UNCHANGED <<backend, renderer>>

LoopEnds == Passes("running", "stopping") /\ UNCHANGED <<again, backend, renderer, renderable>>

\* Shutdown(), in its order; of what a first one released a second finds nothing.
DropRenderable ==
  /\ stage = "stopping" /\ renderable' = FALSE
  /\ UNCHANGED <<stage, again, backend, renderer>>

DropRenderer ==
  /\ stage = "stopping" /\ ~renderable /\ renderer' = FALSE
  /\ UNCHANGED <<stage, again, backend, renderable>>

DropBackend ==
  /\ Passes("stopping", IF again THEN "stopping" ELSE "exited")
  /\ ~renderable /\ ~renderer /\ backend' = FALSE /\ again' = FALSE
  /\ UNCHANGED <<renderer, renderable>>

\* std::terminate() or a kill: the kernel and the compositor clean up.
Dies ==
  /\ stage \notin {"exited", "aborted"} /\ stage' = "aborted"
  /\ backend' = FALSE /\ renderer' = FALSE /\ renderable' = FALSE
  /\ UNCHANGED again

RrNext ==
  \/ OpenBackend \/ InitializeRenderer \/ LoadRenderable \/ Loaded \/ LoadFails \/ LoopEnds
  \/ DropRenderable \/ DropRenderer \/ DropBackend \/ Dies

RrSpec == RrInit /\ [][RrNext]_rrVars

=============================================================================
