--------------------------- MODULE Runtime_proofs ---------------------------
(***************************************************************************)
(* The program and its socket together.  Every step of PeachWallpaper is a *)
(* step of Socket or leaves the socket alone, so that each theorem about   *)
(* the socket holds inside the program; with PipelineFifo the bytes of a   *)
(* client are followed from its write() to HandleCommand.  Then the order  *)
(* in which resources come and go, and why an exit cannot go on for ever.  *)
(***************************************************************************)
EXTENDS InstanceLife_proofs, SocketStream_proofs

SocketStep == [SocketNext]_socketVars

\* What the program knows of itself whenever it touches its socket.
Owns == Exit0 /\ PollPhase

-----------------------------------------------------------------------------
(* Poll() is left before the thread is *)

LEMMA MainKeepsPoll ==
  ASSUME Owns, MainStep
  PROVE  PollPhase'
<1>1. UNCHANGED at /\ pc # "aborted"
  BY DEF MainStep, OpenSocket, InitializeBackend, InitializeRenderer, SetRunning, PollSocket,
         LoadConfig, LoopTest, DrainCommands, HandleCommand, Drained, PresentFrame, PollEvents,
         ClearFlags, Join, ShutdownSocket, ResetRenderable, ShutdownRenderer, ShutdownBackend,
         Create, Bind, Listen, CloseSockets, Unlink, Goto, socketVars, pollVars
<1>2. UNCHANGED tpc \/ tpc \in {"none", "done", "joined"}
  <2>1. CASE PollSocket
    BY <2>1 DEF PollSocket, Goto, Owns, Exit0, ControlInv, ThreadPhase, BeforeThread
  <2>2. CASE Join
    BY <2>2 DEF Join
  <2>3. CASE ~PollSocket /\ ~Join
    BY <2>3
    DEF MainStep, OpenSocket, InitializeBackend, InitializeRenderer, SetRunning,
        LoadConfig, LoopTest, DrainCommands, HandleCommand, Drained, PresentFrame, PollEvents,
        ClearFlags, ShutdownSocket, ResetRenderable, ShutdownRenderer, ShutdownBackend
  <2>. QED  BY <2>1, <2>2, <2>3
<1>. QED  BY <1>1, <1>2 DEF Owns, PollPhase

LEMMA ThreadKeepsPoll ==
  ASSUME Owns, ThreadStep
  PROVE  PollPhase'
<1>. USE DEF Owns, PollPhase
<1>1. UNCHANGED pc
  BY DEF ThreadStep, PollingTest, ThreadPolls, ThreadTakes, ThreadPushes, ThreadFails, ThreadEnds
<1>2. CASE ThreadPolls
  <2>1. at' \in {"idle", "accept", "read", "failed"} \/ UNCHANGED at
    BY <1>2
    DEF ThreadPolls, PollStep, PollReturns, PollFails, PollInterrupted, Accept,
        NothingToAccept, AcceptFails, ReadData, ReadEof, ReadError, NothingRead, socketVars,
        pollVars
  <2>2. at' \in {"accept", "read"} => tpc' = "poll"
    BY <1>2 DEF ThreadPolls
  <2>. QED  BY <1>1, <2>1, <2>2
<1>3. CASE ~ThreadPolls
  <2>1. UNCHANGED at /\ tpc # "poll"
    BY <1>3
    DEF ThreadStep, PollingTest, ThreadTakes, ThreadPushes, ThreadFails, ThreadEnds,
        TakeCommand, socketVars, pollVars
  <2>. QED  BY <1>1, <2>1
<1>. QED  BY <1>2, <1>3

LEMMA NextKeepsPoll == Owns /\ [Next]_vars => PollPhase'
<1>. SUFFICES ASSUME Owns, [Next]_vars PROVE PollPhase'
  OBVIOUS
<1>1. CASE Death
  BY <1>1 DEF Death, KernelReaps, PollPhase
<1>2. CASE LoadConfigFails \/ PumpSpins \/ FrameFails
  BY <1>2
  DEF LoadConfigFails, PumpSpins, FrameFails, Goto, Owns, PollPhase, socketVars, pollVars
<1>3. CASE Outside
  BY <1>3
  DEF Outside, FrameDone, DisplayFails, Environment, Connect, ClientWrites, ClientCloses, OtherInstance,
      Owns, PollPhase, socketVars, pollVars
<1>4. CASE UNCHANGED vars
  BY <1>4 DEF Owns, PollPhase, vars, socketVars, pollVars
<1>. QED
  BY <1>1, <1>2, <1>3, <1>4, MainKeepsPoll, ThreadKeepsPoll
  DEF Next, Failure, StartTerminates, Killed

LEMMA InitPoll == Init => PollPhase
BY DEF Init, SocketInit, PollPhase

LEMMA RuntimeInvariance == Spec => [](IInv /\ ExitInv /\ PollPhase)
<1>. HIDE DEF IInv, ExitInv, PollPhase
<1>1. IInv /\ ExitInv /\ PollPhase /\ [Next]_vars => PollPhase'
  BY NextKeepsPoll, SplitIInv DEF Exit0, Owns
<1>. QED  BY <1>1, InitPoll, ExitInvariance, PTL DEF Spec

-----------------------------------------------------------------------------
(* The program uses its socket as Socket allows *)

\* Outside Poll() the socket is idle, or has failed, unless the process is dead.
LEMMA OutsidePoll ==
  ASSUME Owns, tpc # "poll", pc # "aborted"
  PROVE  at \in {"idle", "failed"}
BY DEF Owns, Exit0, PollPhase, TypeOK, SocketTypeOK

LEMMA StartUses ==
  ASSUME Owns, OpenSocket
  PROVE  SocketStep
<1>1. BeforeThread /\ pc # "aborted"
  BY DEF OpenSocket, Goto, BeforeThread, StartPcs
<1>2. tpc = "none"
  BY <1>1 DEF Owns, Exit0, ControlInv, ThreadPhase
<1>3. at = "idle"
  BY <1>1, <1>2, OutsidePoll DEF Owns, Exit0, ControlInv, ThreadPhase
<1>. QED  BY <1>3 DEF OpenSocket, SocketStep, SocketNext

\* Shutdown() closes the socket when the thread was joined, whatever Poll() it
\* was in when the flags were cleared.
LEMMA DownUses ==
  ASSUME Owns, ShutdownSocket
  PROVE  SocketStep
<1>1. CASE Goto("close", "unlink") /\ CloseSockets
  <2>1. tpc = "joined" /\ pc = "close"
    BY <1>1 DEF Goto, Owns, Exit0, ControlInv, ThreadPhase, DownPcs
  <2>2. at \in {"idle", "failed"}
    BY <2>1, OutsidePoll
  <2>3. sockfd # "unset"
    BY <2>1 DEF Owns, Exit0, ExitInv
  <2>. QED  BY <1>1, <2>2, <2>3 DEF SocketStep, SocketNext
<1>2. CASE Goto("unlink", "drop_renderable") /\ Unlink
  <2>1. sockfd = "closed"
    BY <1>2 DEF Goto, Owns, Exit0, ExitInv
  <2>. QED  BY <1>2, <2>1 DEF SocketStep, SocketNext
<1>. QED  BY <1>1, <1>2 DEF ShutdownSocket

LEMMA ThreadUses ==
  ASSUME Owns, ThreadStep
  PROVE  SocketStep
<1>1. CASE ThreadPolls
  <2>1. listening
    BY <1>1 DEF ThreadPolls, Owns, Exit0, ControlInv, SocketPhase, ThreadLive
  <2>. QED  BY <1>1, <2>1 DEF ThreadPolls, SocketStep, SocketNext
<1>2. CASE ThreadTakes
  BY <1>2 DEF ThreadTakes, SocketStep, SocketNext
<1>3. CASE PollingTest \/ ThreadPushes \/ ThreadFails \/ ThreadEnds
  BY <1>3 DEF PollingTest, ThreadPushes, ThreadFails, ThreadEnds, SocketStep
<1>. QED  BY <1>1, <1>2, <1>3 DEF ThreadStep

LEMMA NextUses == Owns /\ [Next]_vars => SocketStep
<1>. SUFFICES ASSUME Owns, [Next]_vars PROVE SocketStep
  OBVIOUS
<1>1. CASE MainStep
  <2>1. CASE OpenSocket \/ ShutdownSocket
    BY <2>1, StartUses, DownUses
  <2>2. CASE ~(OpenSocket \/ ShutdownSocket)
    BY <1>1, <2>2
    DEF MainStep, InitializeBackend, InitializeRenderer, SetRunning, PollSocket, LoadConfig,
        LoopTest, DrainCommands, HandleCommand, Drained, PresentFrame, PollEvents, ClearFlags,
        Join, ResetRenderable, ShutdownRenderer, ShutdownBackend, SocketStep
  <2>. QED  BY <2>1, <2>2
<1>2. CASE Failure
  <2>1. CASE Death /\ pc # "aborted"
    BY <2>1 DEF Death, Owns, PollPhase, SocketStep, SocketNext
  <2>2. CASE LoadConfigFails \/ PumpSpins \/ FrameFails
    BY <2>2 DEF LoadConfigFails, PumpSpins, FrameFails, SocketStep
  <2>3. (Death /\ pc # "aborted") \/ LoadConfigFails \/ PumpSpins \/ FrameFails
    BY <1>2 DEF Failure, StartTerminates, Killed, StartPcs
  <2>. QED  BY <2>1, <2>2, <2>3
<1>3. CASE Outside
  BY <1>3 DEF Outside, FrameDone, DisplayFails, SocketStep, SocketNext
<1>4. CASE UNCHANGED vars
  BY <1>4 DEF vars, SocketStep
<1>. QED  BY <1>1, <1>2, <1>3, <1>4, ThreadUses DEF Next

\* The two threads never call the socket as its specification forbids, whatever
\* happens: what is true of the socket alone is true of it in the program.
THEOREM SocketUsedAsSpecified == Spec => UsesSocket
<1>. HIDE DEF IInv, ExitInv, PollPhase
<1>1. IInv /\ ExitInv /\ PollPhase /\ [Next]_vars => [SocketNext]_socketVars
  BY NextUses, SplitIInv DEF Exit0, Owns, SocketStep
<1>2. Init => SocketInit
  BY DEF Init
<1>. QED
  BY <1>1, <1>2, RuntimeInvariance, PTL DEF Spec, UsesSocket, SocketSpec

\* In the program, too, no descriptor is leaked ...
THEOREM ProgramLeaksNoDescriptor == Spec => []OneClientDescriptor
BY SocketUsedAsSpecified, NoDescriptorLeaks, PTL DEF UsesSocket

\* ... and the thread that Shutdown() waits for never blocks in read().
THEOREM ProgramNeverBlocksInRead == Spec => []ReadNeverBlocks
BY SocketUsedAsSpecified, NoBlockingRead, PTL DEF UsesSocket

\* The bytes a client sends reach HandleCommand once each, in the order they
\* were written and not mixed with another client's, for every number of
\* clients, bytes and commands, every cut of the reads and every interleaving
\* of the two threads.
THEOREM CommandsArriveAsSent == Spec => []CommandsAsSent
<1>1. IInv /\ BytesInOrder => CommandsAsSent
  BY DEF IInv, PipelineFifo, BytesInOrder, Stream, CommandsAsSent
<1>2. Spec => []BytesInOrder
  BY SocketUsedAsSpecified, BytesArriveInOrder, PTL DEF UsesSocket
<1>. QED  BY <1>1, <1>2, Invariance, PTL

-----------------------------------------------------------------------------
(* The program implements RuntimeResources *)

ResourceStep == [Resources!RrNext]_(Resources!rrVars)

LEMMA SameResources ==
  ASSUME Stage' = Stage, UNCHANGED <<again, resourceVars>>
  PROVE  ResourceStep
BY DEF ResourceStep, Resources!rrVars, resourceVars

LEMMA StartTakes ==
  ASSUME TypeOK, ControlInv,
         \/ OpenSocket \/ InitializeBackend \/ InitializeRenderer \/ SetRunning \/ PollSocket
         \/ LoadConfig \/ LoadConfigFails
  PROVE  ResourceStep
<1>. USE DEF TypeOK, ControlInv, ResourcePhase, TeardownOrder, Stage, StartPcs, LoopPcs, DownPcs,
             Goto, resourceVars
<1>1. CASE OpenSocket \/ SetRunning \/ PollSocket
  <2>1. UNCHANGED <<again, resourceVars>>
    BY <1>1 DEF OpenSocket, SetRunning, PollSocket
  <2>2. Stage = "starting" /\ Stage' = "starting"
    BY <1>1 DEF OpenSocket, SetRunning, PollSocket
  <2>. QED  BY <2>1, <2>2, SameResources
<1>2. CASE InitializeBackend
  <2>1. /\ Stage = "starting" /\ Stage' = "starting" /\ ~backend /\ backend' = TRUE
        /\ UNCHANGED <<again, renderer, renderable>>
    BY <1>2 DEF InitializeBackend
  <2>. QED  BY <2>1 DEF ResourceStep, Resources!RrNext, Resources!OpenBackend
<1>3. CASE InitializeRenderer
  <2>1. /\ Stage = "starting" /\ Stage' = "starting" /\ backend /\ ~renderable
        /\ renderer' = ~renderer /\ UNCHANGED <<again, backend, renderable>>
    BY <1>3 DEF InitializeRenderer
  <2>. QED  BY <2>1 DEF ResourceStep, Resources!RrNext, Resources!InitializeRenderer
<1>4. CASE LoadConfig
  <2>1. /\ Stage = "starting" /\ Stage' = "running" /\ renderer /\ renderable' = TRUE
        /\ UNCHANGED <<again, backend, renderer>>
    BY <1>4 DEF LoadConfig
  <2>. QED
    BY <2>1 DEF ResourceStep, Resources!RrNext, Resources!Loaded, Resources!Passes
<1>5. CASE LoadConfigFails
  <2>1. /\ Stage = "starting" /\ Stage' = "stopping" /\ renderer /\ again' = FALSE
        /\ renderable' = FALSE /\ UNCHANGED <<backend, renderer>>
    BY <1>5 DEF LoadConfigFails
  <2>. QED
    BY <2>1 DEF ResourceStep, Resources!RrNext, Resources!LoadFails, Resources!Passes
<1>. QED  BY <1>1, <1>2, <1>3, <1>4, <1>5

LEMMA LoopHolds ==
  ASSUME LoopTest \/ DrainCommands \/ HandleCommand \/ Drained \/ PresentFrame \/ PollEvents
                  \/ PumpSpins \/ FrameFails
  PROVE  ResourceStep
<1>1. /\ pc \in LoopPcs \ {"load"} /\ pc' \in (LoopPcs \ {"load"}) \cup {"stop"}
      /\ UNCHANGED <<again, resourceVars>>
  BY DEF LoopTest, DrainCommands, HandleCommand, Drained, PresentFrame, PollEvents, PumpSpins,
         FrameFails, Goto, LoopPcs
<1>2. Stage = "running" /\ Stage' \in {"running", "stopping"}
  BY <1>1 DEF Stage, StartPcs, LoopPcs, DownPcs
<1>3. CASE Stage' = "running"
  BY <1>1, <1>2, <1>3, SameResources
<1>4. CASE Stage' = "stopping"
  BY <1>1, <1>2, <1>4
  DEF ResourceStep, Resources!RrNext, Resources!LoopEnds, Resources!Passes, resourceVars
<1>. QED  BY <1>2, <1>3, <1>4

LEMMA DownReleases ==
  ASSUME TypeOK, ControlInv,
         \/ ClearFlags \/ Join \/ ShutdownSocket
         \/ ResetRenderable \/ ShutdownRenderer \/ ShutdownBackend
  PROVE  ResourceStep
<1>0. pc \in DownPcs
  BY DEF ClearFlags, Join, ShutdownSocket, ResetRenderable, ShutdownRenderer, ShutdownBackend,
         Goto, DownPcs
<1>1. Stage = "stopping"
  BY <1>0 DEF Stage, StartPcs, LoopPcs, DownPcs
<1>2. CASE ClearFlags \/ Join \/ ShutdownSocket
  <2>1. pc' \in DownPcs /\ UNCHANGED <<again, resourceVars>>
    BY <1>2 DEF ClearFlags, Join, ShutdownSocket, Goto, DownPcs
  <2>2. Stage' = "stopping"
    BY <2>1 DEF Stage, StartPcs, LoopPcs, DownPcs
  <2>. QED  BY <1>1, <2>1, <2>2, SameResources
<1>3. CASE ResetRenderable
  <2>1. /\ Stage' = "stopping" /\ renderable' = FALSE /\ UNCHANGED <<again, backend, renderer>>
    BY <1>3 DEF ResetRenderable, Goto, Stage, StartPcs, LoopPcs, DownPcs
  <2>. QED  BY <1>1, <2>1 DEF ResourceStep, Resources!RrNext, Resources!DropRenderable
<1>4. CASE ShutdownRenderer
  <2>1. /\ Stage' = "stopping" /\ ~renderable /\ renderer' = FALSE
        /\ UNCHANGED <<again, backend, renderable>>
    BY <1>4
    DEF ShutdownRenderer, Goto, Stage, StartPcs, LoopPcs, DownPcs, ControlInv, ResourcePhase
  <2>. QED  BY <1>1, <2>1 DEF ResourceStep, Resources!RrNext, Resources!DropRenderer
<1>5. CASE ShutdownBackend
  <2>1. /\ ~renderer /\ ~renderable /\ backend' = FALSE /\ again' = FALSE
        /\ UNCHANGED <<renderer, renderable>>
        /\ pc' = IF again THEN "stop" ELSE "exited"
    BY <1>5 DEF ShutdownBackend, ControlInv, ResourcePhase, TeardownOrder
  <2>2. Stage' = IF again THEN "stopping" ELSE "exited"
    BY <2>1 DEF Stage, StartPcs, LoopPcs, DownPcs
  <2>. QED
    BY <1>1, <2>1, <2>2
    DEF ResourceStep, Resources!RrNext, Resources!DropBackend, Resources!Passes
<1>. QED  BY <1>2, <1>3, <1>4, <1>5

LEMMA DeathReleases ==
  ASSUME TypeOK, Death, ~Gone
  PROVE  ResourceStep
<1>1. Stage \notin {"exited", "aborted"}
  BY DEF TypeOK, Gone, Stage, StartPcs, LoopPcs, DownPcs
<1>2. Stage' = "aborted"
  BY DEF Death, Stage, StartPcs, LoopPcs, DownPcs
<1>3. backend' = FALSE /\ renderer' = FALSE /\ renderable' = FALSE /\ UNCHANGED again
  BY DEF Death
<1>. QED  BY <1>1, <1>2, <1>3 DEF ResourceStep, Resources!RrNext, Resources!Dies

LEMMA NextResources == IInv /\ [Next]_vars => ResourceStep
<1>. SUFFICES ASSUME TypeOK, ControlInv, [Next]_vars PROVE ResourceStep
  BY SplitIInv
<1>1. CASE MainStep
  BY <1>1, StartTakes, LoopHolds, DownReleases DEF MainStep
<1>2. CASE Failure
  <2>1. (Death /\ ~Gone) \/ LoadConfigFails \/ PumpSpins \/ FrameFails
    BY <1>2 DEF Failure, StartTerminates, Killed, Gone, StartPcs
  <2>. QED  BY <2>1, DeathReleases, StartTakes, LoopHolds
<1>3. CASE ThreadStep \/ Outside \/ UNCHANGED vars
  <2>1. UNCHANGED <<pc, again, resourceVars>>
    BY <1>3
    DEF ThreadStep, PollingTest, ThreadPolls, ThreadTakes, ThreadPushes, ThreadFails, ThreadEnds,
        Outside, FrameDone, DisplayFails, vars
  <2>. QED  BY <2>1, SameResources DEF Stage
<1>. QED  BY <1>1, <1>2, <1>3 DEF Next

LEMMA InitResources == Init => Resources!RrInit
<1>1. pc = "create" => Stage = "starting"
  BY DEF Stage, StartPcs, LoopPcs, DownPcs
<1>2. Init => pc = "create"
  BY DEF Init
<1>. QED  BY <1>1, <1>2 DEF Init, Resources!RrInit

\* The program takes its backend, renderer and renderable, and lets go of them,
\* in the order RuntimeResources allows, whatever the socket thread does and
\* wherever start-up, a frame or the configuration fails.
THEOREM ResourcesRefinement == Spec => ImplementsResources
<1>. HIDE DEF IInv
<1>1. IInv /\ [Next]_vars => [Resources!RrNext]_(Resources!rrVars)
  BY NextResources DEF ResourceStep
<1>. QED
  BY <1>1, InitResources, Invariance, PTL DEF Spec, ImplementsResources, Resources!RrSpec

-----------------------------------------------------------------------------
(* What ShutdownCompletes rests on *)

LEMMA FlagsInvariance == Spec => []FlagsStay
<1>1. FlagsStay /\ [Next]_vars => FlagsStay'
  <2>. SUFFICES ASSUME FlagsStay, [Next]_vars PROVE FlagsStay'
    OBVIOUS
  <2>1. CASE MainStep
    BY <2>1
    DEF MainStep, OpenSocket, InitializeBackend, InitializeRenderer, SetRunning, PollSocket,
        LoadConfig, LoopTest, DrainCommands, HandleCommand, Drained, PresentFrame, PollEvents,
        ClearFlags, Join, ShutdownSocket, ResetRenderable, ShutdownRenderer, ShutdownBackend,
        Goto, flagVars, FlagsStay
  <2>2. CASE ThreadStep
    BY <2>2
    DEF ThreadStep, PollingTest, ThreadPolls, ThreadTakes, ThreadPushes, ThreadFails, ThreadEnds,
        flagVars, FlagsStay
  <2>3. CASE Failure
    BY <2>3
    DEF Failure, StartTerminates, LoadConfigFails, PumpSpins, FrameFails, Killed, Death, Goto, FlagsStay
  <2>4. CASE Outside \/ UNCHANGED vars
    BY <2>4 DEF Outside, FrameDone, DisplayFails, vars, flagVars, FlagsStay
  <2>. QED  BY <2>1, <2>2, <2>3, <2>4 DEF Next
<1>2. Init => FlagsStay
  BY DEF Init, FlagsStay
<1>. QED  BY <1>1, <1>2, PTL DEF Spec

LEMMA MainStepNears ==
  ASSUME TypeOK, pc \in DownPcs, MainStep
  PROVE  ExitLeft' < ExitLeft
<1>. USE DEF ExitLeft, DownStage
<1>1. CASE ClearFlags \/ Join \/ ShutdownSocket
  BY <1>1 DEF ClearFlags, Join, ShutdownSocket, Goto
<1>2. CASE ResetRenderable \/ ShutdownRenderer
  BY <1>2 DEF ResetRenderable, ShutdownRenderer, Goto
<1>3. CASE ShutdownBackend
  BY <1>3 DEF ShutdownBackend, TypeOK
<1>4. ~(\/ OpenSocket \/ InitializeBackend \/ InitializeRenderer \/ SetRunning \/ PollSocket
        \/ LoadConfig \/ LoopTest \/ DrainCommands \/ HandleCommand \/ Drained
        \/ PresentFrame \/ PollEvents)
  BY DEF OpenSocket, InitializeBackend, InitializeRenderer, SetRunning, PollSocket, LoadConfig,
         LoopTest, DrainCommands, HandleCommand, Drained, PresentFrame, PollEvents, Goto, DownPcs
<1>. QED  BY <1>1, <1>2, <1>3, <1>4 DEF MainStep

LEMMA OthersKeepExit ==
  ASSUME [Next]_vars, ~MainStep, pc \in DownPcs
  PROVE  ExitLeft' <= ExitLeft
<1>1. UNCHANGED <<pc, again>> \/ (pc' = "aborted" /\ UNCHANGED again)
  BY DEF Next, ThreadStep, PollingTest, ThreadPolls, ThreadTakes, ThreadPushes, ThreadFails,
         ThreadEnds, Failure, StartTerminates, LoadConfigFails, PumpSpins, FrameFails, Killed, Death,
         Outside, FrameDone, DisplayFails, Goto, vars, DownPcs
<1>2. DownStage \in 1..7 /\ (UNCHANGED pc => DownStage' = DownStage)
  BY DEF DownStage, DownPcs
<1>3. pc' = "aborted" => DownStage' = 0
  BY DEF DownStage
<1>. QED  BY <1>1, <1>2, <1>3 DEF ExitLeft

\* One turn of the TakeCommand loop: a command leaves m_pending_commands, then
\* the lock is taken for it.
LEMMA TakingNears ==
  ASSUME TypeOK, ThreadTakes \/ ThreadPushes
  PROVE  Nearer(ThreadLeft', ThreadLeft)
<1>0. pending \in Seq(Byte) /\ Len(pending) \in Nat
  BY DEF TypeOK, SocketTypeOK
<1>1. CASE ThreadTakes /\ pending = <<>>
  <2>1. ThreadStage = 4 /\ ThreadStage' = 3
    BY <1>1 DEF ThreadTakes, TakeCommand, ThreadStage
  <2>. QED  BY <2>1 DEF Nearer, ThreadLeft
<1>2. CASE ThreadTakes /\ pending # <<>>
  <2>1. tpc = "take" /\ tpc' = "push" /\ pending' = Tail(pending)
    BY <1>2 DEF ThreadTakes, TakeCommand
  <2>2. Len(pending') = Len(pending) - 1
    BY <1>0, <1>2, <2>1
  <2>3. ThreadStage = 4 /\ ThreadStage' = 4
    BY <2>1 DEF ThreadStage
  <2>4. ThreadLeft[2] = 2 * Len(pending) /\ ThreadLeft'[2] = 2 * Len(pending') + 1
    BY <1>0, <2>1, <2>2 DEF ThreadLeft
  <2>5. ThreadLeft'[2] < ThreadLeft[2]
    BY <1>0, <2>2, <2>4
  <2>6. ThreadLeft'[1] = ThreadLeft[1]
    BY <2>3 DEF ThreadLeft
  <2>. QED  BY <2>5, <2>6 DEF Nearer
<1>3. CASE ThreadPushes
  <2>1. tpc = "push" /\ tpc' = "take" /\ UNCHANGED pending
    BY <1>3 DEF ThreadPushes, socketVars, memberVars
  <2>2. ThreadStage = 4 /\ ThreadStage' = 4
    BY <2>1 DEF ThreadStage
  <2>. QED  BY <1>0, <2>1, <2>2 DEF Nearer, ThreadLeft
<1>. QED  BY <1>1, <1>2, <1>3

LEMMA PollingNears ==
  ASSUME Owns, ThreadPolls
  PROVE  ThreadStage' < ThreadStage
<1>0. tpc = "poll" /\ PollStep
  BY DEF ThreadPolls
<1>1. CASE at = "idle"
  <2>1. at' \in {"accept", "failed", "idle"}
    BY <1>0, <1>1
    DEF PollStep, PollReturns, PollFails, PollInterrupted, Accept, NothingToAccept, AcceptFails,
        ReadData, ReadEof, ReadError, NothingRead, ClientReady, socketVars, pollVars
  <2>. QED  BY <1>0, <1>1, <2>1 DEF ThreadPolls, ThreadStage
<1>2. CASE at = "accept"
  <2>1. at' \in {"read", "failed"}
    BY <1>0, <1>2
    DEF PollStep, PollReturns, PollFails, PollInterrupted, Accept, NothingToAccept, AcceptFails,
        ReadData, ReadEof, ReadError, NothingRead, ClientReady
  <2>. QED  BY <1>0, <1>2, <2>1 DEF ThreadPolls, ThreadStage
<1>3. CASE at = "read"
  <2>1. at' = "idle"
    BY <1>0, <1>3
    DEF PollStep, PollReturns, PollFails, PollInterrupted, Accept, NothingToAccept, AcceptFails,
        ReadData, ReadEof, ReadError, NothingRead
  <2>. QED  BY <1>0, <1>3, <2>1 DEF ThreadPolls, ThreadStage
<1>4. at \in {"idle", "accept", "read"}
  BY <1>0
  DEF PollStep, PollReturns, PollFails, PollInterrupted, Accept, NothingToAccept, AcceptFails,
      ReadData, ReadEof, ReadError, NothingRead, ClientReady
<1>. QED  BY <1>1, <1>2, <1>3, <1>4

LEMMA ThreadStepNears ==
  ASSUME Owns, FlagsStay, pc = "join", ThreadStep
  PROVE  Nearer(ThreadLeft', ThreadLeft)
<1>1. CASE ThreadPolls
  BY <1>1, PollingNears DEF Nearer, ThreadLeft
<1>2. CASE ThreadTakes \/ ThreadPushes
  BY <1>2, TakingNears DEF Owns, Exit0
<1>3. CASE PollingTest \/ ThreadFails \/ ThreadEnds
  <2>1. ThreadStage' < ThreadStage
    BY <1>3 DEF PollingTest, ThreadFails, ThreadEnds, FlagsStay, ThreadStage
  <2>. QED  BY <2>1 DEF Nearer, ThreadLeft
<1>. QED  BY <1>1, <1>2, <1>3 DEF ThreadStep

LEMMA OthersKeepThread ==
  ASSUME [Next]_vars, ~ThreadStep, pc = "join", pc' = "join"
  PROVE  UNCHANGED ThreadLeft
<1>1. UNCHANGED <<tpc, at, pending>>
  <2>1. ~MainStep /\ ~Failure
    BY DEF MainStep, OpenSocket, InitializeBackend, InitializeRenderer, SetRunning, PollSocket,
           LoadConfig, LoopTest, DrainCommands, HandleCommand, Drained, PresentFrame, PollEvents,
           ClearFlags, Join, ShutdownSocket, ResetRenderable, ShutdownRenderer, ShutdownBackend,
           Failure, StartTerminates, LoadConfigFails, PumpSpins, FrameFails, Killed, Death, Goto
  <2>2. CASE Outside
    BY <2>2
    DEF Outside, FrameDone, DisplayFails, Environment, Connect, ClientWrites, ClientCloses, OtherInstance,
        socketVars, memberVars, pollVars
  <2>3. CASE UNCHANGED vars
    BY <2>3 DEF vars, socketVars, memberVars, pollVars
  <2>. QED  BY <2>1, <2>2, <2>3 DEF Next
<1>. QED  BY <1>1 DEF ThreadLeft, ThreadStage

\* The exit cannot wait for ever in join() for a thread that goes on: while the
\* main thread is in Shutdown() every step of either thread it depends on brings
\* the end nearer, for any number of bytes, and nothing else takes that back.
THEOREM ShutdownAlwaysNears == Spec => ShutdownNears
<1>1. IInv /\ ExitInv /\ PollPhase /\ FlagsStay /\ [Next]_vars =>
        (pc \in DownPcs => MainNears /\ ThreadNears)
  <2>. SUFFICES ASSUME Owns, FlagsStay, [Next]_vars, pc \in DownPcs
                PROVE  MainNears /\ ThreadNears
    BY SplitIInv DEF Owns, Exit0
  <2>1. MainNears
    BY MainStepNears, OthersKeepExit DEF MainNears, Owns, Exit0
  <2>2. ThreadNears
    BY ThreadStepNears, OthersKeepThread DEF ThreadNears
  <2>. QED  BY <2>1, <2>2
<1>. HIDE DEF IInv, ExitInv, PollPhase, FlagsStay
<1>. QED  BY <1>1, RuntimeInvariance, FlagsInvariance, PTL DEF Spec, ShutdownNears

=============================================================================
