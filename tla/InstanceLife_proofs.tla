------------------------- MODULE InstanceLife_proofs -------------------------
(***************************************************************************)
(* Theorems about how PeachWallpaper starts and ends: its exit releases    *)
(* everything, and to the tray and to other instances it lives as          *)
(* InstanceLife says.  Both follow from IInv and ExitInv together.         *)
(***************************************************************************)
EXTENDS PeachWallpaper_proofs

\* What of IInv the exit rests on.
Exit0 == TypeOK /\ ControlInv /\ ExitInv

LEMMA StartKeepsExit ==
  ASSUME Exit0,
         OpenSocket \/ InitializeBackend \/ InitializeRenderer \/ SetRunning \/ PollSocket
  PROVE  ExitInv'
<1>. USE DEF Exit0, ControlInv, ExitInv, Emptied, ThreadPhase, SocketPhase, BeforeThread,
             StartPcs, LoopPcs, DownPcs, Goto, TypeOK, SocketTypeOK, memberVars, kernelVars,
             pollVars, socketVars, flagVars, queueVars, resourceVars, displayVars
<1>1. CASE OpenSocket
  <2>1. CASE Goto("create", "bind") /\ Create
    BY <1>1, <2>1 DEF OpenSocket, Create
  <2>2. CASE Goto("bind", "listen") /\ Bind
    BY <1>1, <2>2 DEF OpenSocket, Bind
  <2>3. CASE Goto("listen", "backend") /\ Listen
    BY <1>1, <2>3 DEF OpenSocket, Listen
  <2>. QED  BY <1>1, <2>1, <2>2, <2>3 DEF OpenSocket
<1>2. CASE InitializeBackend BY <1>2 DEF InitializeBackend
<1>3. CASE InitializeRenderer BY <1>3 DEF InitializeRenderer
<1>4. CASE SetRunning BY <1>4 DEF SetRunning
<1>5. CASE PollSocket BY <1>5 DEF PollSocket
<1>. QED  BY <1>1, <1>2, <1>3, <1>4, <1>5

LEMMA LoopKeepsExit ==
  ASSUME Exit0,
         \/ LoadConfig \/ LoopTest \/ DrainCommands \/ HandleCommand \/ Drained
         \/ PresentFrame \/ PollEvents
  PROVE  ExitInv'
<1>. USE DEF Exit0, ControlInv, ExitInv, Emptied, ThreadPhase, ThreadLive, SocketPhase,
             LoopPcs, DownPcs, Goto, TypeOK, SocketTypeOK, memberVars, kernelVars,
             pollVars, socketVars, flagVars, queueVars, resourceVars, displayVars
<1>1. CASE LoadConfig BY <1>1 DEF LoadConfig
<1>2. CASE LoopTest BY <1>2 DEF LoopTest
<1>3. CASE DrainCommands BY <1>3 DEF DrainCommands
<1>4. CASE HandleCommand BY <1>4 DEF HandleCommand
<1>5. CASE Drained BY <1>5 DEF Drained
<1>6. CASE PresentFrame BY <1>6 DEF PresentFrame
<1>7. CASE PollEvents BY <1>7 DEF PollEvents
<1>. QED  BY <1>1, <1>2, <1>3, <1>4, <1>5, <1>6, <1>7

LEMMA DownKeepsExit ==
  ASSUME Exit0,
         \/ ClearFlags \/ Join \/ ShutdownSocket
         \/ ResetRenderable \/ ShutdownRenderer \/ ShutdownBackend
  PROVE  ExitInv'
<1>. USE DEF Exit0, ControlInv, ExitInv, Emptied, ThreadPhase, ThreadLive, SocketPhase,
             LoopPcs, DownPcs, Goto, TypeOK, SocketTypeOK, memberVars, kernelVars,
             pollVars, socketVars, flagVars, queueVars, resourceVars, displayVars
<1>1. CASE ClearFlags BY <1>1 DEF ClearFlags
<1>2. CASE Join BY <1>2 DEF Join
<1>3. CASE ShutdownSocket
  <2>1. CASE Goto("close", "unlink") /\ CloseSockets
    BY <1>3, <2>1 DEF ShutdownSocket, CloseSockets, KernelCloses
  <2>2. CASE Goto("unlink", "drop_renderable") /\ Unlink
    BY <1>3, <2>2 DEF ShutdownSocket, Unlink
  <2>. QED  BY <1>3, <2>1, <2>2 DEF ShutdownSocket
<1>4. CASE ResetRenderable BY <1>4 DEF ResetRenderable
<1>5. CASE ShutdownRenderer BY <1>5 DEF ShutdownRenderer
<1>6. CASE ShutdownBackend BY <1>6 DEF ShutdownBackend
<1>. QED  BY <1>1, <1>2, <1>3, <1>4, <1>5, <1>6

\* The thread changes neither the descriptor nor the path while the socket is
\* open, which it is as long as the thread runs.
LEMMA ThreadKeepsExit ==
  ASSUME Exit0, ThreadStep
  PROVE  ExitInv'
<1>1. UNCHANGED <<sockfd, listening, isBound, pc, backend>>
  BY DEF ThreadStep, PollingTest, ThreadPolls, ThreadTakes, ThreadPushes, ThreadFails,
         ThreadEnds, PollStep, PollReturns, PollFails, PollInterrupted, Accept,
         NothingToAccept, AcceptFails, ReadData, ReadEof, ReadError, NothingRead, Hangup,
         TakeCommand, memberVars, kernelVars, pollVars, socketVars, resourceVars
<1>2. ThreadLive /\ sockfd = "open"
  BY DEF Exit0, ControlInv, SocketPhase, ThreadLive, ThreadStep, PollingTest, ThreadPolls,
         ThreadTakes, ThreadPushes, ThreadFails, ThreadEnds
<1>3. tpc' # "joined"
  <2>1. CASE ThreadPolls BY <2>1 DEF ThreadPolls
  <2>2. CASE ThreadTakes BY <2>2 DEF ThreadTakes
  <2>3. CASE PollingTest \/ ThreadPushes \/ ThreadFails \/ ThreadEnds
    BY <2>3 DEF PollingTest, ThreadPushes, ThreadFails, ThreadEnds
  <2>. QED  BY <2>1, <2>2, <2>3 DEF ThreadStep
<1>. QED
  BY <1>1, <1>2, <1>3 DEF Exit0, ExitInv, Emptied, ThreadLive, LoopPcs, DownPcs

LEMMA FailureKeepsExit ==
  ASSUME Exit0, Failure
  PROVE  ExitInv'
<1>. USE DEF Exit0, ControlInv, ExitInv, Emptied, ThreadPhase, ThreadLive, SocketPhase,
             LoopPcs, DownPcs, Goto, TypeOK, SocketTypeOK, memberVars, kernelVars,
             pollVars, socketVars, flagVars, queueVars, resourceVars, displayVars
<1>1. CASE Death BY <1>1 DEF Death, KernelReaps, KernelCloses
<1>2. CASE LoadConfigFails BY <1>2 DEF LoadConfigFails
<1>3. CASE PumpSpins \/ FrameFails BY <1>3 DEF PumpSpins, FrameFails
<1>. QED  BY <1>1, <1>2, <1>3 DEF Failure, StartTerminates, Killed

LEMMA OutsideKeepsExit ==
  ASSUME Exit0, Outside
  PROVE  ExitInv'
<1>1. UNCHANGED <<sockfd, clientFd, listening, isBound, pc, tpc, backend>>
  BY DEF Outside, FrameDone, DisplayFails, Environment, Connect, ClientWrites, ClientCloses, OtherInstance,
         memberVars, kernelVars, socketVars, resourceVars
<1>. QED  BY <1>1 DEF Exit0, ExitInv, Emptied

LEMMA NextKeepsExit == Exit0 /\ [Next]_vars => ExitInv'
<1>. SUFFICES ASSUME Exit0, [Next]_vars PROVE ExitInv'
  OBVIOUS
<1>1. CASE MainStep
  BY <1>1, StartKeepsExit, LoopKeepsExit, DownKeepsExit DEF MainStep
<1>2. CASE UNCHANGED vars
  BY <1>2 DEF Exit0, ExitInv, Emptied, vars, socketVars, memberVars, kernelVars, resourceVars
<1>. QED
  BY <1>1, <1>2, ThreadKeepsExit, FailureKeepsExit, OutsideKeepsExit DEF Next

LEMMA InitExit == Init => ExitInv
BY DEF Init, SocketInit, ExitInv, Emptied, LoopPcs, DownPcs

LEMMA ExitInvariance == Spec => [](IInv /\ ExitInv)
<1>. HIDE DEF IInv, ExitInv
<1>1. IInv /\ ExitInv /\ [Next]_vars => ExitInv'
  BY NextKeepsExit, SplitIInv DEF Exit0
<1>. QED  BY <1>1, InitExit, Invariance, PTL DEF Spec

\* When Shutdown() runs for the second time, and when the process exits, every
\* descriptor, the path, the thread, the context and the display are released.
THEOREM ExitReleasesAll == Spec => []NothingLeftToRelease
<1>1. IInv /\ ExitInv => NothingLeftToRelease
  BY DEF IInv, ExitInv, Emptied, NothingLeftToRelease, TypeOK, SocketTypeOK, UnlinksOwnPath,
         TeardownOrder
<1>. HIDE DEF IInv, ExitInv
<1>. QED  BY <1>1, ExitInvariance, PTL

-----------------------------------------------------------------------------
(* The program implements InstanceLife *)

LifeStep == [Life!LifeNext]_(Life!lifeVars)

LEMMA SamePhase ==
  ASSUME LifePhase' = LifePhase, UNCHANGED <<path, listening>>
  PROVE  LifeStep
BY DEF LifeStep, Life!lifeVars

\* A process that is not gone has one of the phases before "gone".
LEMMA NotGone ==
  ASSUME TypeOK, ~Gone
  PROVE  LifePhase # "gone"
BY DEF TypeOK, SocketTypeOK, Gone, LifePhase, StartPcs, LoopPcs, DownPcs

LEMMA StartLives ==
  ASSUME Exit0,
         OpenSocket \/ InitializeBackend \/ InitializeRenderer \/ SetRunning \/ PollSocket
  PROVE  LifeStep
<1>. USE DEF Exit0, ControlInv, ExitInv, SocketPhase, Goto, LifePhase, LoopPcs, DownPcs,
             memberVars, kernelVars, socketVars
<1>1. CASE Goto("create", "bind") /\ Create
  BY <1>1, SamePhase DEF Create
<1>2. CASE Goto("bind", "listen") /\ Bind
  <2>1. LifePhase = "booting" /\ LifePhase' = "bound"
    BY <1>2
  <2>2. path = "none" /\ path' = "mine" /\ UNCHANGED listening
    BY <1>2 DEF Bind
  <2>. QED  BY <2>1, <2>2 DEF LifeStep, Life!LifeNext, Life!Binds, Life!Passes
<1>3. CASE Goto("listen", "backend") /\ Listen
  <2>1. LifePhase = "bound" /\ LifePhase' = "listening"
    BY <1>3
  <2>2. listening' = TRUE /\ UNCHANGED path
    BY <1>3 DEF Listen
  <2>. QED  BY <2>1, <2>2 DEF LifeStep, Life!LifeNext, Life!Listens, Life!Passes
<1>4. CASE InitializeBackend \/ InitializeRenderer \/ SetRunning
  BY <1>4, SamePhase DEF InitializeBackend, InitializeRenderer, SetRunning
<1>5. CASE PollSocket
  <2>1. LifePhase = "listening" /\ LifePhase' = "serving"
    BY <1>5 DEF PollSocket
  <2>2. UNCHANGED <<path, listening>>
    BY <1>5 DEF PollSocket
  <2>. QED  BY <2>1, <2>2 DEF LifeStep, Life!LifeNext, Life!Serves, Life!Passes
<1>. QED  BY <1>1, <1>2, <1>3, <1>4, <1>5 DEF OpenSocket

\* The loop ends, for whatever reason, with the socket still open.
LEMMA LoopEnds ==
  ASSUME Exit0, pc \in LoopPcs, pc' = "stop", UNCHANGED socketVars
  PROVE  LifeStep
<1>1. LifePhase = "serving"
  BY DEF LifePhase, LoopPcs, DownPcs
<1>2. sockfd = "open" /\ sockfd' = "open" /\ UNCHANGED <<path, listening>>
  BY DEF Exit0, ExitInv, socketVars, memberVars, kernelVars
<1>3. LifePhase' = "stopping"
  BY <1>2 DEF LifePhase, LoopPcs, DownPcs
<1>. QED  BY <1>1, <1>2, <1>3 DEF LifeStep, Life!LifeNext, Life!Ends, Life!Passes

LEMMA LoopLives ==
  ASSUME Exit0,
         \/ LoadConfig \/ LoopTest \/ DrainCommands \/ HandleCommand \/ Drained
         \/ PresentFrame \/ PollEvents \/ PumpSpins
  PROVE  LifeStep
<1>1. pc \in LoopPcs /\ pc' \in LoopPcs \cup {"stop"} /\ UNCHANGED socketVars
  BY DEF LoadConfig, LoopTest, DrainCommands, HandleCommand, Drained, PresentFrame,
         PollEvents, PumpSpins, Goto, LoopPcs
<1>2. CASE pc' \in LoopPcs
  BY <1>1, <1>2, SamePhase
  DEF LifePhase, LoopPcs, DownPcs, socketVars, memberVars, kernelVars
<1>. QED  BY <1>1, <1>2, LoopEnds

LEMMA DownLives ==
  ASSUME Exit0,
         \/ ClearFlags \/ Join \/ ShutdownSocket
         \/ ResetRenderable \/ ShutdownRenderer \/ ShutdownBackend
  PROVE  LifeStep
<1>1. CASE ClearFlags \/ Join \/ ResetRenderable \/ ShutdownRenderer
  <2>1. pc \in DownPcs /\ pc' \in DownPcs /\ UNCHANGED socketVars
    BY <1>1 DEF ClearFlags, Join, ResetRenderable, ShutdownRenderer, Goto, DownPcs
  <2>. QED
    BY <2>1, SamePhase DEF LifePhase, DownPcs, LoopPcs, socketVars, memberVars, kernelVars
<1>2. CASE ShutdownBackend
  <2>1. /\ pc = "drop_backend" /\ pc' \in {"stop", "exited"} /\ UNCHANGED socketVars
        /\ sockfd # "open" /\ ~isBound
    BY <1>2 DEF ShutdownBackend, Exit0, ExitInv
  <2>2. LifePhase = "leaving" /\ UNCHANGED <<path, listening>>
    BY <2>1 DEF LifePhase, DownPcs, LoopPcs, socketVars, kernelVars
  <2>3. CASE pc' = "stop"
    <3>1. LifePhase' = "leaving"
      BY <2>1, <2>3 DEF LifePhase, DownPcs, LoopPcs, socketVars, memberVars
    <3>. QED  BY <2>2, <3>1, SamePhase
  <2>4. CASE pc' = "exited"
    <3>1. LifePhase' = "gone"
      BY <2>4 DEF LifePhase, DownPcs, LoopPcs
    <3>. QED  BY <2>2, <3>1 DEF LifeStep, Life!LifeNext, Life!Exits, Life!Passes
  <2>. QED  BY <2>1, <2>3, <2>4
<1>3. CASE Goto("close", "unlink") /\ CloseSockets
  <2>0. isBound \in BOOLEAN /\ sockfd \in {"unset", "open", "closed"}
    BY DEF Exit0, TypeOK, SocketTypeOK
  <2>1. /\ pc = "close" /\ pc' = "unlink" /\ UNCHANGED <<path, isBound>>
        /\ listening' = FALSE /\ sockfd' # "open"
    BY <1>3 DEF Goto, CloseSockets, KernelCloses
  <2>2. CASE sockfd = "open"
    <3>1. isBound
      BY <2>1, <2>2 DEF Exit0, ExitInv, DownPcs
    <3>2. LifePhase = "stopping" /\ LifePhase' = "closed"
      BY <2>1, <2>2, <3>1 DEF LifePhase, DownPcs, LoopPcs
    <3>. QED  BY <2>1, <3>2 DEF LifeStep, Life!LifeNext, Life!Closes, Life!Passes
  <2>3. CASE sockfd # "open"
    <3>1. ~isBound /\ ~listening
      BY <2>1, <2>3 DEF Exit0, ExitInv, Emptied
    <3>2. LifePhase = "leaving" /\ LifePhase' = "leaving"
      BY <2>1, <2>3, <3>1 DEF LifePhase, DownPcs, LoopPcs
    <3>3. listening' = listening
      BY <2>1, <3>1 DEF Exit0, TypeOK, SocketTypeOK
    <3>. QED  BY <2>1, <3>2, <3>3, SamePhase
  <2>. QED  BY <2>2, <2>3
<1>4. CASE Goto("unlink", "drop_renderable") /\ Unlink
  <2>1. /\ pc = "unlink" /\ pc' = "drop_renderable"
        /\ sockfd = "closed" /\ UNCHANGED <<sockfd, listening>>
        /\ isBound' = FALSE /\ path' = IF isBound THEN "none" ELSE path
    BY <1>4 DEF Goto, Unlink, Exit0, ExitInv
  <2>2. LifePhase' = "leaving"
    BY <2>1 DEF LifePhase, DownPcs, LoopPcs
  <2>3. CASE isBound
    <3>1. path = "mine"
      BY <2>3 DEF Exit0, ControlInv, UnlinksOwnPath
    <3>2. LifePhase = "closed"
      BY <2>1, <2>3 DEF LifePhase, DownPcs, LoopPcs
    <3>. QED
      BY <2>1, <2>2, <2>3, <3>1, <3>2 DEF LifeStep, Life!LifeNext, Life!Unlinks, Life!Passes
  <2>4. CASE ~isBound
    <3>1. LifePhase = "leaving"
      BY <2>1, <2>4 DEF LifePhase, DownPcs, LoopPcs
    <3>. QED  BY <2>1, <2>2, <2>4, <3>1, SamePhase
  <2>. QED  BY <2>3, <2>4
<1>. QED  BY <1>1, <1>2, <1>3, <1>4 DEF ShutdownSocket

LEMMA ThreadLives ==
  ASSUME Exit0, ThreadStep
  PROVE  LifeStep
<1>1. UNCHANGED <<sockfd, listening, isBound, path, pc>>
  BY DEF ThreadStep, PollingTest, ThreadPolls, ThreadTakes, ThreadPushes, ThreadFails,
         ThreadEnds, PollStep, PollReturns, PollFails, PollInterrupted, Accept,
         NothingToAccept, AcceptFails, ReadData, ReadEof, ReadError, NothingRead, Hangup,
         TakeCommand, memberVars, kernelVars, pollVars, socketVars
<1>. QED  BY <1>1, SamePhase DEF LifePhase

LEMMA FailureLives ==
  ASSUME Exit0, Failure
  PROVE  LifeStep
<1>1. CASE Death /\ ~Gone
  <2>1. LifePhase # "gone"
    BY <1>1, NotGone DEF Exit0
  <2>2. LifePhase' = "gone"
    BY <1>1 DEF Death, LifePhase, LoopPcs, DownPcs
  <2>3. listening' = FALSE /\ path' = IF path = "mine" THEN "stale" ELSE path
    BY <1>1 DEF Death, KernelReaps, KernelCloses
  <2>. QED  BY <2>1, <2>2, <2>3 DEF LifeStep, Life!LifeNext, Life!Dies
<1>2. CASE LoadConfigFails \/ PumpSpins \/ FrameFails
  BY <1>2, LoopEnds, LoopLives DEF LoadConfigFails, FrameFails, Goto, LoopPcs
<1>3. Failure => (Death /\ ~Gone) \/ LoadConfigFails \/ PumpSpins \/ FrameFails
  BY DEF Failure, StartTerminates, Killed, Gone, StartPcs
<1>. QED  BY <1>1, <1>2, <1>3

LEMMA OutsideLives ==
  ASSUME Outside
  PROVE  LifeStep
<1>1. UNCHANGED <<sockfd, listening, isBound, pc>>
  BY DEF Outside, FrameDone, DisplayFails, Environment, Connect, ClientWrites, ClientCloses, OtherInstance,
         memberVars, kernelVars, socketVars
<1>2. LifePhase' = LifePhase
  BY <1>1 DEF LifePhase
<1>3. \/ UNCHANGED path
      \/ path = "none" /\ path' = "other"
      \/ path = "other" /\ path' \in {"none", "stale"}
  BY DEF Outside, FrameDone, DisplayFails, Environment, Connect, ClientWrites, ClientCloses, OtherInstance,
         kernelVars, socketVars
<1>. QED  BY <1>1, <1>2, <1>3, SamePhase DEF LifeStep, Life!LifeNext, Life!OthersMove

LEMMA NextLives == Exit0 /\ [Next]_vars => LifeStep
<1>. SUFFICES ASSUME Exit0, [Next]_vars PROVE LifeStep
  OBVIOUS
<1>1. CASE MainStep
  BY <1>1, StartLives, LoopLives, DownLives DEF MainStep
<1>2. CASE UNCHANGED vars
  BY <1>2, SamePhase DEF LifePhase, vars, socketVars, memberVars, kernelVars
<1>. QED  BY <1>1, <1>2, ThreadLives, FailureLives, OutsideLives DEF Next

LEMMA InitLives == Init => Life!LifeInit
BY DEF Init, SocketInit, LifePhase, LoopPcs, DownPcs, Life!LifeInit

\* To the tray and to other instances the program lives as InstanceLife says:
\* it owns the path from bind() to its own unlink(), accepts connections only
\* in between, and leaves a stale entry only if it dies.
THEOREM LifeRefinement == Spec => ImplementsLife
<1>. HIDE DEF IInv, ExitInv
<1>1. IInv /\ ExitInv /\ [Next]_vars => [Life!LifeNext]_(Life!lifeVars)
  BY NextLives, SplitIInv DEF Exit0, LifeStep
<1>. QED
  BY <1>1, InitLives, ExitInvariance, PTL DEF Spec, ImplementsLife, Life!LifeSpec

=============================================================================
