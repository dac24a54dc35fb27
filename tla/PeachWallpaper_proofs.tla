----------------------- MODULE PeachWallpaper_proofs -----------------------
(***************************************************************************)
(* Theorems about PeachWallpaper.  All follow from one inductive           *)
(* invariant, IInv, shown action by action: start-up, frame loop,          *)
(* shutdown, socket thread, failures and the outside world.                *)
(***************************************************************************)
EXTENDS PeachWallpaper, Socket_proofs

-----------------------------------------------------------------------------
(* Sequences *)

LEMMA HeadThenTail ==
  ASSUME NEW S, NEW s \in Seq(S), s # <<>>
  PROVE  /\ Head(s) \in S
         /\ <<Head(s)>> \in Seq(S)
         /\ Tail(s) \in Seq(S)
         /\ s = <<Head(s)>> \o Tail(s)
<1>1. Head(s) \in S /\ Tail(s) \in Seq(S)
  BY HeadTailProperties
<1>2. Len(s) \in Nat \ {0}
  BY EmptySeq
<1>3. SubSeq(s, 1, Len(s)) = <<s[1]>> \o SubSeq(s, 2, Len(s))
  BY <1>2, SubSeqRecursiveFirst
<1>4. s = <<Head(s)>> \o Tail(s)
  BY <1>3, SubSeqFull, TailIsSubSeq
<1>. QED  BY <1>1, <1>4

AppendedElements(s, e) ==
  \A i \in DOMAIN Append(s, e) :
    (i \in DOMAIN s /\ Append(s, e)[i] = s[i]) \/ Append(s, e)[i] = e

LEMMA AppendKeepsElements ==
  ASSUME NEW S, NEW s \in Seq(S), NEW e \in S
  PROVE  AppendedElements(s, e)
<1>1. /\ Append(s, e) \in Seq(S) /\ Len(s) \in Nat
      /\ DOMAIN s = 1..Len(s)
      /\ DOMAIN Append(s, e) = 1..Len(Append(s, e))
      /\ Len(Append(s, e)) = Len(s) + 1
  BY AppendProperties, LenProperties
<1>2. \A i \in 1..Len(s) : Append(s, e)[i] = s[i]
  BY AppendProperties
<1>3. Append(s, e)[Len(s) + 1] = e
  BY AppendProperties
<1>. QED  BY <1>1, <1>2, <1>3 DEF AppendedElements

LEMMA ConcatIsSeq ==
  ASSUME NEW S, NEW a \in Seq(S), NEW b \in Seq(S)
  PROVE  a \o b \in Seq(S)
BY ConcatProperties

\* What each hand-over of a command leaves of handled \o batch \o commands \o cmd:
\* m_commands is swapped out, ...
LEMMA HandOverDrain ==
  ASSUME NEW S, NEW a \in Seq(S), NEW c \in Seq(S), NEW d \in Seq(S)
  PROVE  a \o c \o <<>> \o d = a \o <<>> \o c \o d
<1>1. a \o c \in Seq(S)
  BY ConcatIsSeq
<1>2. (a \o c) \o <<>> = a \o c /\ a \o <<>> = a
  BY <1>1, ConcatEmptySeq
<1>. QED  BY <1>2

\* ... its front is handled, ...
LEMMA HandOverHandle ==
  ASSUME NEW S, NEW a \in Seq(S), NEW b \in Seq(S), b # <<>>
  PROVE  Append(a, Head(b)) \o Tail(b) = a \o b
<1>1. /\ Head(b) \in S /\ <<Head(b)>> \in Seq(S) /\ Tail(b) \in Seq(S)
      /\ b = <<Head(b)>> \o Tail(b)
  BY HeadThenTail
<1>2. Append(a, Head(b)) = a \o <<Head(b)>>
  BY <1>1, AppendIsConcat
<1>3. (a \o <<Head(b)>>) \o Tail(b) = a \o (<<Head(b)>> \o Tail(b))
  BY <1>1, ConcatAssociative
<1>. QED  BY <1>1, <1>2, <1>3

\* ... the thread takes a command, ...
LEMMA HandOverTake ==
  ASSUME NEW S, NEW a \in Seq(S), NEW b \in Seq(S), NEW c \in Seq(S), NEW e \in S
  PROVE  a \o b \o c \o <<e>> = Append(a \o b \o c \o <<>>, e)
<1>1. a \o b \in Seq(S)
  BY ConcatIsSeq
<1>2. a \o b \o c \in Seq(S)
  BY <1>1, ConcatIsSeq
<1>3. Append(a \o b \o c, e) = (a \o b \o c) \o <<e>>
  BY <1>2, AppendIsConcat
<1>4. (a \o b \o c) \o <<>> = a \o b \o c
  BY <1>2, ConcatEmptySeq
<1>. QED  BY <1>3, <1>4

\* ... and pushes it.
LEMMA HandOverPush ==
  ASSUME NEW S, NEW a \in Seq(S), NEW c \in Seq(S), NEW d \in Seq(S)
  PROVE  a \o (c \o d) \o <<>> = a \o c \o d
<1>1. c \o d \in Seq(S)
  BY ConcatIsSeq
<1>2. a \o (c \o d) \in Seq(S)
  BY <1>1, ConcatIsSeq
<1>3. (a \o (c \o d)) \o <<>> = a \o (c \o d)
  BY <1>2, ConcatEmptySeq
<1>4. (a \o c) \o d = a \o (c \o d)
  BY ConcatAssociative
<1>. QED  BY <1>3, <1>4

-----------------------------------------------------------------------------
(* Type correctness *)

\* The main thread's own variables, the socket's being left to Socket_proofs.
MainTypeOK ==
  /\ pc \in StartPcs \cup {"spawn"} \cup LoopPcs \cup DownPcs \cup {"exited", "aborted"}
  /\ again \in BOOLEAN
  /\ tpc \in {"none", "while", "poll", "take", "push", "fail", "end", "done", "joined"}
  /\ running \in BOOLEAN /\ polling \in BOOLEAN
  /\ commands \in Seq(Byte) /\ batch \in Seq(Byte) /\ handled \in Seq(Byte)
  /\ cmd \in Seq(Byte) /\ Len(cmd) <= 1
  /\ backend \in BOOLEAN /\ renderer \in BOOLEAN /\ renderable \in BOOLEAN
  /\ vsync \in BOOLEAN /\ framePending \in BOOLEAN /\ displayFailed \in BOOLEAN

LEMMA SplitType == TypeOK <=> SocketTypeOK /\ MainTypeOK
BY DEF TypeOK, MainTypeOK

LEMMA SocketStutters ==
  ASSUME SocketTypeOK, UNCHANGED socketVars
  PROVE  SocketTypeOK'
BY DEF SocketTypeOK, socketVars, memberVars, kernelVars, pollVars

LEMMA MainKeepsType ==
  ASSUME TypeOK, MainStep
  PROVE  TypeOK'
<1>. USE DEF MainTypeOK, StartPcs, LoopPcs, DownPcs, flagVars, queueVars, resourceVars,
             displayVars, Goto
<1>0. SocketTypeOK /\ MainTypeOK
  BY SplitType
<1>1. CASE OpenSocket
  <2>1. SocketTypeOK'
    BY <1>0, <1>1, SetupKeepsType DEF OpenSocket
  <2>2. MainTypeOK'
    BY <1>0, <1>1 DEF OpenSocket
  <2>. QED  BY <2>1, <2>2 DEF TypeOK
<1>2. CASE ShutdownSocket
  <2>1. SocketTypeOK'
    BY <1>0, <1>2, SetupKeepsType DEF ShutdownSocket
  <2>2. MainTypeOK'
    BY <1>0, <1>2 DEF ShutdownSocket
  <2>. QED  BY <2>1, <2>2 DEF TypeOK
<1>3. CASE DrainCommands
  <2>1. SocketTypeOK'
    BY <1>0, <1>3, SocketStutters DEF DrainCommands
  <2>2. MainTypeOK'
    BY <1>0, <1>3, EmptySeq DEF DrainCommands
  <2>. QED  BY <2>1, <2>2 DEF TypeOK
<1>4. CASE HandleCommand
  <2>1. SocketTypeOK'
    BY <1>0, <1>4, SocketStutters DEF HandleCommand
  <2>2. Head(batch) \in Byte /\ Tail(batch) \in Seq(Byte)
    BY <1>0, <1>4, HeadTailProperties DEF HandleCommand
  <2>3. Append(handled, Head(batch)) \in Seq(Byte)
    BY <1>0, <2>2, AppendProperties
  <2>4. MainTypeOK'
    BY <1>0, <1>4, <2>2, <2>3 DEF HandleCommand
  <2>. QED  BY <2>1, <2>4 DEF TypeOK
<1>5. CASE \/ InitializeBackend \/ InitializeRenderer \/ SetRunning \/ PollSocket \/ LoadConfig
           \/ LoopTest \/ Drained \/ PresentFrame \/ PollEvents
  <2>1. SocketTypeOK'
    BY <1>0, <1>5, SocketStutters
    DEF InitializeBackend, InitializeRenderer, SetRunning, PollSocket, LoadConfig,
        LoopTest, Drained, PresentFrame, PollEvents
  <2>2. CASE InitializeBackend
    BY <1>0, <2>1, <2>2 DEF TypeOK, InitializeBackend
  <2>7. CASE InitializeRenderer
    BY <1>0, <2>1, <2>7 DEF TypeOK, InitializeRenderer
  <2>5. CASE SetRunning
    BY <1>0, <2>1, <2>5 DEF TypeOK, SetRunning
  <2>8. CASE PollSocket
    BY <1>0, <2>1, <2>8 DEF TypeOK, PollSocket
  <2>6. CASE LoadConfig
    BY <1>0, <2>1, <2>6 DEF TypeOK, LoadConfig
  <2>3. CASE LoopTest \/ Drained
    BY <1>0, <2>1, <2>3 DEF TypeOK, LoopTest, Drained
  <2>4. CASE PresentFrame \/ PollEvents
    BY <1>0, <2>1, <2>4 DEF TypeOK, PresentFrame, PollEvents
  <2>. QED  BY <1>5, <2>2, <2>3, <2>4, <2>5, <2>6, <2>7, <2>8
<1>6. CASE ClearFlags \/ Join \/ ResetRenderable \/ ShutdownRenderer \/ ShutdownBackend
  <2>1. SocketTypeOK'
    BY <1>0, <1>6, SocketStutters
    DEF ClearFlags, Join, ResetRenderable, ShutdownRenderer, ShutdownBackend
  <2>2. CASE ClearFlags
    <3>1. MainTypeOK'
      BY <1>0, <2>2 DEF ClearFlags
    <3>. QED  BY <2>1, <3>1 DEF TypeOK
  <2>6. CASE Join
    <3>1. MainTypeOK'
      BY <1>0, <2>6 DEF Join
    <3>. QED  BY <2>1, <3>1 DEF TypeOK
  <2>3. CASE ResetRenderable
    <3>1. MainTypeOK'
      BY <1>0, <2>3 DEF ResetRenderable
    <3>. QED  BY <2>1, <3>1 DEF TypeOK
  <2>4. CASE ShutdownRenderer
    <3>1. MainTypeOK'
      BY <1>0, <2>4 DEF ShutdownRenderer
    <3>. QED  BY <2>1, <3>1 DEF TypeOK
  <2>5. CASE ShutdownBackend
    <3>1. MainTypeOK'
      BY <1>0, <2>5 DEF ShutdownBackend
    <3>. QED  BY <2>1, <3>1 DEF TypeOK
  <2>. QED  BY <1>6, <2>2, <2>3, <2>4, <2>5, <2>6
<1>. QED  BY <1>1, <1>2, <1>3, <1>4, <1>5, <1>6 DEF MainStep

LEMMA ThreadKeepsType ==
  ASSUME TypeOK, ThreadStep
  PROVE  TypeOK'
<1>. USE DEF MainTypeOK, flagVars, queueVars, resourceVars, displayVars
<1>0. SocketTypeOK /\ MainTypeOK
  BY SplitType
<1>1. CASE ThreadPolls
  <2>1. SocketTypeOK'
    BY <1>0, <1>1, PollKeepsType DEF ThreadPolls
  <2>2. MainTypeOK'
    BY <1>0, <1>1 DEF ThreadPolls
  <2>. QED  BY <2>1, <2>2 DEF TypeOK
<1>2. CASE ThreadTakes
  <2>1. CASE TakeCommand /\ cmd' = <<Head(pending)>> /\ tpc' = "push"
    <3>1. SocketTypeOK' /\ Head(pending) \in Byte
      BY <1>0, <2>1, TakeKeepsType
    <3>2. <<Head(pending)>> \in Seq(Byte) /\ Len(<<Head(pending)>>) = 1
      BY <3>1
    <3>. QED  BY <1>0, <1>2, <2>1, <3>1, <3>2 DEF TypeOK, ThreadTakes
  <2>2. CASE tpc' = "while" /\ UNCHANGED <<socketVars, cmd>>
    BY <1>0, <1>2, <2>2, SocketStutters DEF TypeOK, ThreadTakes
  <2>. QED  BY <1>2, <2>1, <2>2 DEF ThreadTakes
<1>3. CASE ThreadPushes
  <2>1. commands \o cmd \in Seq(Byte) /\ <<>> \in Seq(Byte) /\ Len(<<>>) = 0
    BY <1>0, ConcatProperties, EmptySeq
  <2>. QED  BY <1>0, <1>3, <2>1, SocketStutters DEF TypeOK, ThreadPushes
<1>4. CASE PollingTest \/ ThreadFails \/ ThreadEnds
  <2>1. SocketTypeOK'
    BY <1>0, <1>4, SocketStutters DEF PollingTest, ThreadFails, ThreadEnds
  <2>2. CASE PollingTest
    <3>1. MainTypeOK'
      BY <1>0, <2>2 DEF PollingTest
    <3>. QED  BY <2>1, <3>1 DEF TypeOK
  <2>3. CASE ThreadFails \/ ThreadEnds
    <3>1. MainTypeOK'
      BY <1>0, <2>3 DEF ThreadFails, ThreadEnds
    <3>. QED  BY <2>1, <3>1 DEF TypeOK
  <2>. QED  BY <1>4, <2>2, <2>3
<1>. QED  BY <1>1, <1>2, <1>3, <1>4 DEF ThreadStep

LEMMA FailureKeepsType ==
  ASSUME TypeOK, Failure
  PROVE  TypeOK'
<1>. USE DEF MainTypeOK, StartPcs, LoopPcs, DownPcs, flagVars, queueVars, resourceVars,
             displayVars, Goto
<1>0. SocketTypeOK /\ MainTypeOK
  BY SplitType
<1>1. CASE Death
  <2>1. SocketTypeOK'
    BY <1>0, <1>1, SetupKeepsType DEF Death
  <2>2. MainTypeOK'
    BY <1>0, <1>1 DEF Death
  <2>. QED  BY <2>1, <2>2 DEF TypeOK
<1>2. CASE LoadConfigFails \/ PumpSpins \/ FrameFails
  <2>1. SocketTypeOK'
    BY <1>0, <1>2, SocketStutters DEF LoadConfigFails, PumpSpins, FrameFails
  <2>2. CASE LoadConfigFails
    <3>1. MainTypeOK'
      BY <1>0, <2>2 DEF LoadConfigFails
    <3>. QED  BY <2>1, <3>1 DEF TypeOK
  <2>3. CASE PumpSpins
    <3>1. MainTypeOK'
      BY <1>0, <2>3 DEF PumpSpins
    <3>. QED  BY <2>1, <3>1 DEF TypeOK
  <2>4. CASE FrameFails
    <3>1. MainTypeOK'
      BY <1>0, <2>4 DEF FrameFails
    <3>. QED  BY <2>1, <3>1 DEF TypeOK
  <2>. QED  BY <1>2, <2>2, <2>3, <2>4
<1>. QED  BY <1>1, <1>2 DEF Failure, StartTerminates, Killed

LEMMA OutsideKeepsType ==
  ASSUME TypeOK, Outside
  PROVE  TypeOK'
<1>. USE DEF MainTypeOK, flagVars, queueVars, resourceVars, displayVars
<1>0. SocketTypeOK /\ MainTypeOK
  BY SplitType
<1>1. CASE FrameDone \/ DisplayFails
  <2>1. SocketTypeOK'
    BY <1>0, <1>1, SocketStutters DEF FrameDone, DisplayFails
  <2>2. framePending' \in BOOLEAN /\ displayFailed' \in BOOLEAN
    BY <1>0, <1>1 DEF FrameDone, DisplayFails
  <2>3. UNCHANGED <<pc, again, tpc, flagVars, queueVars, resourceVars, vsync>>
    BY <1>1 DEF FrameDone, DisplayFails
  <2>4. MainTypeOK'
    BY <1>0, <2>2, <2>3
  <2>. QED  BY <2>1, <2>4 DEF TypeOK
<1>2. CASE /\ Environment
           /\ UNCHANGED <<pc, again, tpc, flagVars, queueVars, resourceVars, displayVars>>
  BY <1>0, <1>2, EnvironmentKeepsType DEF TypeOK
<1>. QED  BY <1>1, <1>2 DEF Outside

LEMMA NextKeepsType ==
  ASSUME TypeOK, [Next]_vars
  PROVE  TypeOK'
<1>1. CASE UNCHANGED vars
  BY <1>1, SocketStutters
  DEF TypeOK, vars, flagVars, queueVars, resourceVars, displayVars
<1>. QED  BY <1>1, MainKeepsType, ThreadKeepsType, FailureKeepsType, OutsideKeepsType DEF Next

LEMMA InitType == Init => TypeOK
<1>. SUFFICES ASSUME Init PROVE TypeOK
  OBVIOUS
<1>1. <<>> \in Seq(Byte) /\ Len(<<>>) = 0
  BY EmptySeq
<1>2. SocketTypeOK
  BY SocketInitType DEF Init
<1>3. /\ commands \in Seq(Byte) /\ batch \in Seq(Byte) /\ handled \in Seq(Byte)
      /\ cmd \in Seq(Byte) /\ Len(cmd) = 0
  BY <1>1 DEF Init
<1>4. pc \in StartPcs /\ tpc = "none"
  BY DEF Init, StartPcs
<1>5. /\ again \in BOOLEAN /\ running \in BOOLEAN /\ polling \in BOOLEAN
      /\ backend \in BOOLEAN /\ renderer \in BOOLEAN /\ renderable \in BOOLEAN
      /\ vsync \in BOOLEAN /\ framePending \in BOOLEAN /\ displayFailed \in BOOLEAN
  BY DEF Init
<1>6. MainTypeOK
  BY <1>3, <1>4, <1>5 DEF MainTypeOK
<1>. QED  BY <1>2, <1>6, SplitType

\* Every variable of the program keeps its type.
THEOREM TypeCorrect == Spec => []TypeOK
<1>1. TypeOK /\ [Next]_vars => TypeOK'
  BY NextKeepsType
<1>. QED  BY <1>1, InitType, PTL DEF Spec

-----------------------------------------------------------------------------
(* The command pipeline *)

\* PipelineFifo rests on QueuePhase only: the batch is empty when m_commands is
\* swapped out, the thread's cmd is empty when the next command is taken.
LEMMA NextKeepsPipeline ==
  ASSUME TypeOK, QueuePhase, PipelineFifo, [Next]_vars
  PROVE  PipelineFifo'
<1>0. /\ commands \in Seq(Byte) /\ batch \in Seq(Byte) /\ handled \in Seq(Byte)
      /\ cmd \in Seq(Byte) /\ pending \in Seq(Byte) /\ taken \in Seq(Byte)
      /\ SocketTypeOK
  BY DEF TypeOK, SocketTypeOK
<1>. USE DEF PipelineFifo, queueVars
<1>1. CASE DrainCommands
  <2>1. batch = <<>>
    BY <1>1 DEF DrainCommands, Goto, QueuePhase
  <2>2. handled \o commands \o <<>> \o cmd = handled \o <<>> \o commands \o cmd
    BY <1>0, HandOverDrain
  <2>. QED  BY <1>1, <2>1, <2>2 DEF DrainCommands, socketVars
<1>2. CASE HandleCommand
  <2>1. Append(handled, Head(batch)) \o Tail(batch) = handled \o batch
    BY <1>0, <1>2, HandOverHandle DEF HandleCommand
  <2>. QED  BY <1>2, <2>1 DEF HandleCommand, socketVars
<1>3. CASE ThreadTakes
  <2>1. CASE TakeCommand /\ cmd' = <<Head(pending)>> /\ tpc' = "push"
    <3>1. Head(pending) \in Byte
      BY <1>0, <2>1, TakeKeepsType
    <3>2. cmd = <<>>
      BY <1>3 DEF ThreadTakes, QueuePhase
    <3>3. taken' = Append(taken, Head(pending))
      BY <2>1 DEF TakeCommand
    <3>4. handled \o batch \o commands \o <<Head(pending)>>
            = Append(handled \o batch \o commands \o <<>>, Head(pending))
      BY <1>0, <3>1, HandOverTake
    <3>. QED  BY <1>3, <2>1, <3>2, <3>3, <3>4 DEF ThreadTakes
  <2>2. CASE tpc' = "while" /\ UNCHANGED <<socketVars, cmd>>
    BY <1>3, <2>2 DEF ThreadTakes, socketVars
  <2>. QED  BY <1>3, <2>1, <2>2 DEF ThreadTakes
<1>4. CASE ThreadPushes
  <2>1. handled \o batch \o (commands \o cmd) \o <<>> = handled \o batch \o commands \o cmd
    <3>. DEFINE front == handled \o batch
    <3>1. front \in Seq(Byte)
      BY <1>0, ConcatIsSeq
    <3>2. commands \in Seq(Byte) /\ cmd \in Seq(Byte)
      BY <1>0
    <3>3. front \o (commands \o cmd) \o <<>> = front \o commands \o cmd
      <4>. HIDE DEF front, PipelineFifo, queueVars
      <4>. QED  BY ONLY <3>1, <3>2, HandOverPush
    <3>. QED  BY <3>3
  <2>. QED  BY <1>4, <2>1 DEF ThreadPushes, socketVars
<1>5. ASSUME UNCHANGED <<queueVars, taken>> PROVE PipelineFifo'
  BY <1>5
<1>6. CASE ThreadPolls
  <2>1. UNCHANGED taken
    BY <1>6
    DEF ThreadPolls, PollStep, PollReturns, PollFails, PollInterrupted, Accept,
        NothingToAccept, AcceptFails, ReadData, ReadEof, ReadError, NothingRead, socketVars
  <2>. QED  BY <1>5, <1>6, <2>1 DEF ThreadPolls
<1>7. CASE PollingTest \/ ThreadFails \/ ThreadEnds
  BY <1>5, <1>7 DEF PollingTest, ThreadFails, ThreadEnds, socketVars
<1>8. CASE OpenSocket \/ ShutdownSocket
  BY <1>5, <1>8
  DEF OpenSocket, ShutdownSocket, Create, Bind, Listen, CloseSockets, Unlink
<1>9. CASE \/ InitializeBackend \/ InitializeRenderer \/ SetRunning \/ PollSocket \/ LoadConfig
           \/ LoopTest \/ Drained \/ PresentFrame \/ PollEvents
  BY <1>5, <1>9
  DEF InitializeBackend, InitializeRenderer, SetRunning, PollSocket, LoadConfig,
      LoopTest, Drained, PresentFrame, PollEvents, socketVars
<1>10. CASE ClearFlags \/ Join \/ ResetRenderable \/ ShutdownRenderer \/ ShutdownBackend
  BY <1>5, <1>10
  DEF ClearFlags, Join, ResetRenderable, ShutdownRenderer, ShutdownBackend, socketVars
<1>11. CASE Failure
  BY <1>5, <1>11
  DEF Failure, StartTerminates, Killed, Death, KernelReaps, LoadConfigFails, PumpSpins, FrameFails, socketVars
<1>12. CASE Outside
  <2>1. UNCHANGED taken
    BY <1>12
    DEF Outside, FrameDone, DisplayFails, Environment, Connect, ClientWrites, ClientCloses, OtherInstance,
        socketVars
  <2>. QED  BY <1>5, <1>12, <2>1 DEF Outside, FrameDone, DisplayFails
<1>13. CASE UNCHANGED vars
  BY <1>5, <1>13 DEF vars, socketVars
<1>. QED
  BY <1>1, <1>2, <1>3, <1>4, <1>6, <1>7, <1>8, <1>9, <1>10, <1>11, <1>12, <1>13
  DEF Next, MainStep, ThreadStep

-----------------------------------------------------------------------------
(* The rest of IInv: where the two threads are and what they hold *)

ControlInv ==
  /\ UnlinksOwnPath
  /\ SocketPhase /\ ThreadPhase /\ QueuePhase /\ ResourcePhase
  /\ PollDeathStops /\ NoFrameAfterStop /\ TeardownOrder

LEMMA StartKeepsControl ==
  ASSUME TypeOK, ControlInv,
         OpenSocket \/ InitializeBackend \/ InitializeRenderer \/ SetRunning \/ PollSocket
  PROVE  ControlInv'
<1>. USE DEF ControlInv, UnlinksOwnPath, SocketPhase, ThreadPhase, QueuePhase, ResourcePhase,
             PollDeathStops, NoFrameAfterStop, TeardownOrder, ThreadLive, BeforeThread, Gone,
             StartPcs, LoopPcs, DownPcs, Goto, TypeOK, SocketTypeOK,
             memberVars, kernelVars, pollVars, socketVars, flagVars, queueVars, resourceVars,
             displayVars
<1>1. CASE OpenSocket
  <2>1. CASE Goto("create", "bind") /\ Create
    BY <1>1, <2>1 DEF OpenSocket, Create
  <2>2. CASE Goto("bind", "listen") /\ Bind
    BY <1>1, <2>2 DEF OpenSocket, Bind
  <2>3. CASE Goto("listen", "backend") /\ Listen
    BY <1>1, <2>3 DEF OpenSocket, Listen
  <2>. QED  BY <1>1, <2>1, <2>2, <2>3 DEF OpenSocket
<1>2. CASE InitializeBackend BY <1>2 DEF InitializeBackend
<1>3. CASE InitializeRenderer BY <1>3 DEF InitializeRenderer
<1>4. CASE SetRunning BY <1>4 DEF SetRunning
<1>5. CASE PollSocket BY <1>5 DEF PollSocket
<1>. QED  BY <1>1, <1>2, <1>3, <1>4, <1>5

LEMMA LoopKeepsControl ==
  ASSUME TypeOK, ControlInv,
         \/ LoadConfig \/ LoopTest \/ DrainCommands \/ HandleCommand \/ Drained
         \/ PresentFrame \/ PollEvents
  PROVE  ControlInv'
<1>. USE DEF ControlInv, UnlinksOwnPath, SocketPhase, ThreadPhase, QueuePhase, ResourcePhase,
             PollDeathStops, NoFrameAfterStop, TeardownOrder, ThreadLive, BeforeThread, Gone,
             StartPcs, LoopPcs, DownPcs, Goto, TypeOK, SocketTypeOK,
             memberVars, kernelVars, pollVars, socketVars, flagVars, queueVars, resourceVars,
             displayVars
<1>1. CASE LoadConfig BY <1>1 DEF LoadConfig
<1>2. CASE LoopTest BY <1>2 DEF LoopTest
<1>3. CASE DrainCommands BY <1>3 DEF DrainCommands
<1>4. CASE HandleCommand
  <2>1. Head(batch) \in Byte
    BY <1>4, HeadTailProperties DEF HandleCommand
  <2>2. \A i \in DOMAIN handled' : \/ i \in DOMAIN handled /\ handled'[i] = handled[i]
                                   \/ handled'[i] = Head(batch)
    <3>1. handled' = Append(handled, Head(batch)) /\ handled \in Seq(Byte)
      BY <1>4 DEF HandleCommand
    <3>2. AppendedElements(handled, Head(batch))
      BY <2>1, <3>1, AppendKeepsElements
    <3>. QED  BY <3>1, <3>2 DEF AppendedElements
  <2>3. NoFrameAfterStop'
    BY <1>4, <2>2 DEF HandleCommand
  <2>. QED  BY <1>4, <2>3 DEF HandleCommand
<1>5. CASE Drained BY <1>5 DEF Drained
<1>6. CASE PresentFrame BY <1>6 DEF PresentFrame
<1>7. CASE PollEvents BY <1>7 DEF PollEvents
<1>. QED  BY <1>1, <1>2, <1>3, <1>4, <1>5, <1>6, <1>7

LEMMA DownKeepsControl ==
  ASSUME TypeOK, ControlInv,
         \/ ClearFlags \/ Join \/ ShutdownSocket
         \/ ResetRenderable \/ ShutdownRenderer \/ ShutdownBackend
  PROVE  ControlInv'
<1>. USE DEF ControlInv, UnlinksOwnPath, SocketPhase, ThreadPhase, QueuePhase, ResourcePhase,
             PollDeathStops, NoFrameAfterStop, TeardownOrder, ThreadLive, BeforeThread, Gone,
             StartPcs, LoopPcs, DownPcs, Goto, TypeOK, SocketTypeOK,
             memberVars, kernelVars, pollVars, socketVars, flagVars, queueVars, resourceVars,
             displayVars
<1>1. CASE ClearFlags BY <1>1 DEF ClearFlags
<1>2. CASE Join BY <1>2 DEF Join
<1>3. CASE ShutdownSocket
  <2>1. CASE Goto("close", "unlink") /\ CloseSockets
    BY <1>3, <2>1 DEF ShutdownSocket, CloseSockets, KernelCloses
  <2>2. CASE Goto("unlink", "drop_renderable") /\ Unlink
    BY <1>3, <2>2 DEF ShutdownSocket, Unlink
  <2>. QED  BY <1>3, <2>1, <2>2 DEF ShutdownSocket
<1>4. CASE ResetRenderable BY <1>4 DEF ResetRenderable
<1>5. CASE ShutdownRenderer BY <1>5 DEF ShutdownRenderer
<1>6. CASE ShutdownBackend BY <1>6 DEF ShutdownBackend
<1>. QED  BY <1>1, <1>2, <1>3, <1>4, <1>5, <1>6

LEMMA ThreadKeepsControl ==
  ASSUME TypeOK, ControlInv, ThreadStep
  PROVE  ControlInv'
<1>. USE DEF ControlInv, UnlinksOwnPath, SocketPhase, ThreadPhase, QueuePhase, ResourcePhase,
             PollDeathStops, NoFrameAfterStop, TeardownOrder, ThreadLive, BeforeThread, Gone,
             StartPcs, LoopPcs, DownPcs, TypeOK, SocketTypeOK,
             memberVars, kernelVars, pollVars, socketVars, flagVars, queueVars, resourceVars,
             displayVars
<1>1. CASE PollingTest BY <1>1 DEF PollingTest
<1>2. CASE ThreadPolls
  <2>1. UNCHANGED <<sockfd, isBound, path, listening>>
    BY <1>2
    DEF ThreadPolls, PollStep, PollReturns, PollFails, PollInterrupted, Accept,
        NothingToAccept, AcceptFails, ReadData, ReadEof, ReadError, NothingRead
  <2>2. \/ at' = "failed" /\ tpc' = "fail"
        \/ at' # "failed" /\ tpc' \in {"poll", "take"}
    BY <1>2 DEF ThreadPolls
  <2>. QED  BY <1>2, <2>1, <2>2 DEF ThreadPolls
<1>3. CASE ThreadTakes
  <2>1. CASE TakeCommand /\ cmd' = <<Head(pending)>> /\ tpc' = "push"
    BY <1>3, <2>1 DEF ThreadTakes, TakeCommand
  <2>2. CASE tpc' = "while" /\ UNCHANGED <<socketVars, cmd>>
    BY <1>3, <2>2 DEF ThreadTakes
  <2>. QED  BY <1>3, <2>1, <2>2 DEF ThreadTakes
<1>4. CASE ThreadPushes BY <1>4 DEF ThreadPushes
<1>5. CASE ThreadFails BY <1>5 DEF ThreadFails
<1>6. CASE ThreadEnds BY <1>6 DEF ThreadEnds
<1>. QED  BY <1>1, <1>2, <1>3, <1>4, <1>5, <1>6 DEF ThreadStep

LEMMA FailureKeepsControl ==
  ASSUME TypeOK, ControlInv, Failure
  PROVE  ControlInv'
<1>. USE DEF ControlInv, UnlinksOwnPath, SocketPhase, ThreadPhase, QueuePhase, ResourcePhase,
             PollDeathStops, NoFrameAfterStop, TeardownOrder, ThreadLive, BeforeThread, Gone,
             StartPcs, LoopPcs, DownPcs, Goto, TypeOK, SocketTypeOK, PathOwners,
             memberVars, kernelVars, pollVars, socketVars, flagVars, queueVars, resourceVars,
             displayVars
<1>1. CASE Death BY <1>1 DEF Death, KernelReaps, KernelCloses
<1>2. CASE LoadConfigFails BY <1>2 DEF LoadConfigFails
<1>3. CASE PumpSpins \/ FrameFails BY <1>3 DEF PumpSpins, FrameFails
<1>. QED  BY <1>1, <1>2, <1>3 DEF Failure, StartTerminates, Killed

LEMMA OutsideKeepsControl ==
  ASSUME TypeOK, ControlInv, Outside
  PROVE  ControlInv'
<1>. USE DEF ControlInv, UnlinksOwnPath, SocketPhase, ThreadPhase, QueuePhase, ResourcePhase,
             PollDeathStops, NoFrameAfterStop, TeardownOrder, ThreadLive, BeforeThread, Gone,
             memberVars, kernelVars, pollVars, socketVars, flagVars, queueVars, resourceVars,
             displayVars
<1>1. CASE FrameDone \/ DisplayFails BY <1>1 DEF FrameDone, DisplayFails
<1>2. CASE /\ Environment
           /\ UNCHANGED <<pc, again, tpc, flagVars, queueVars, resourceVars, displayVars>>
  <2>1. /\ UNCHANGED <<sockfd, isBound, listening, at>>
        /\ path' = path \/ (path # "mine" /\ path' # "mine")
    BY <1>2 DEF Environment, Connect, ClientWrites, ClientCloses, OtherInstance
  <2>. QED  BY <1>2, <2>1
<1>. QED  BY <1>1, <1>2 DEF Outside

-----------------------------------------------------------------------------
(* The inductive invariant *)

LEMMA SplitIInv == IInv <=> TypeOK /\ ControlInv /\ PipelineFifo
BY DEF IInv, ControlInv

LEMMA InitIInv == Init => IInv
<1>. SUFFICES ASSUME Init PROVE IInv
  OBVIOUS
<1>1. TypeOK
  BY InitType
<1>2. ControlInv
  <2>1. DOMAIN handled = {}
    BY EmptySeq, LenProperties DEF Init
  <2>. QED
    BY <2>1
    DEF Init, SocketInit, ControlInv, UnlinksOwnPath, SocketPhase, ThreadPhase, QueuePhase,
        ResourcePhase, PollDeathStops, NoFrameAfterStop, TeardownOrder, ThreadLive,
        BeforeThread, Gone, StartPcs, LoopPcs, DownPcs
<1>3. PipelineFifo
  BY ConcatEmptySeq, EmptySeq DEF Init, SocketInit, PipelineFifo
<1>. QED  BY <1>1, <1>2, <1>3, SplitIInv

LEMMA NextIInv == IInv /\ [Next]_vars => IInv'
<1>. SUFFICES ASSUME IInv, [Next]_vars PROVE IInv'
  OBVIOUS
<1>1. TypeOK /\ ControlInv /\ PipelineFifo /\ QueuePhase
  BY SplitIInv DEF ControlInv
<1>2. TypeOK'
  BY <1>1, NextKeepsType
<1>3. PipelineFifo'
  BY <1>1, NextKeepsPipeline
<1>4. ControlInv'
  <2>1. CASE MainStep
    BY <1>1, <2>1, StartKeepsControl, LoopKeepsControl, DownKeepsControl DEF MainStep
  <2>2. CASE UNCHANGED vars
    BY <1>1, <2>2
    DEF ControlInv, UnlinksOwnPath, SocketPhase, ThreadPhase, QueuePhase,
        ResourcePhase, PollDeathStops, NoFrameAfterStop, TeardownOrder, ThreadLive,
        BeforeThread, Gone, vars, socketVars, memberVars, kernelVars, pollVars, flagVars,
        queueVars, resourceVars
  <2>. QED
    BY <1>1, <2>1, <2>2, ThreadKeepsControl, FailureKeepsControl, OutsideKeepsControl DEF Next
<1>. QED  BY <1>2, <1>3, <1>4 DEF IInv, ControlInv

\* Every safety property of the composition, for every number of connections,
\* every set of codes and every amount of bytes written.
THEOREM Invariance == Spec => []IInv
BY InitIInv, NextIInv, PTL DEF Spec

\* Commands reach HandleCommand once each and in the order they were taken,
\* however the two threads interleave.
THEOREM CommandsInOrder == Spec => []PipelineFifo
<1>1. IInv => PipelineFifo
  BY DEF IInv
<1>. QED  BY <1>1, Invariance, PTL

\* While the socket thread runs its descriptors stay open and the path is the
\* program's own: Shutdown() joins before it closes.
THEOREM ThreadHasSocket == Spec => []SocketOutlivesThread
<1>1. IInv => SocketOutlivesThread
  BY DEF IInv, SocketOutlivesThread, SocketPhase, ThreadLive, UnlinksOwnPath, TypeOK
<1>. QED  BY <1>1, Invariance, PTL

\* A failed Poll() stops the runtime, at whatever point of start-up or of the
\* loop the main thread is.
THEOREM PollFailureStops == Spec => []PollDeathStops
<1>1. IInv => PollDeathStops
  BY DEF IInv
<1>. QED  BY <1>1, Invariance, PTL

\* No frame is begun, presented or pumped after a stop command was handled.
THEOREM StopEndsFrames == Spec => []NoFrameAfterStop
<1>1. IInv => NoFrameAfterStop
  BY DEF IInv
<1>. QED  BY <1>1, Invariance, PTL

\* GL objects never outlive the context, nor the context the backend.
THEOREM TeardownIsOrdered == Spec => []TeardownOrder
<1>1. IInv => TeardownOrder
  BY DEF IInv
<1>. QED  BY <1>1, Invariance, PTL

\* The whole program, too, removes only a path it owns.
THEOREM ProgramUnlinksOwnPath == Spec => []UnlinksOwnPath
<1>1. IInv => UnlinksOwnPath
  BY DEF IInv
<1>. QED  BY <1>1, Invariance, PTL

-----------------------------------------------------------------------------
(* The program implements the abstract command service *)

LEMMA ConcatHeadTail ==
  ASSUME NEW S, NEW a \in Seq(S), NEW b \in Seq(S), a # <<>>
  PROVE  a \o b # <<>> /\ Head(a \o b) = Head(a) /\ Tail(a \o b) = Tail(a) \o b
<1>. DEFINE h == Head(a)
            t == Tail(a)
<1>1. h \in S /\ <<h>> \in Seq(S) /\ t \in Seq(S) /\ a = <<h>> \o t
  BY HeadThenTail
<1>2. t \o b \in Seq(S)
  BY <1>1, ConcatIsSeq
<1>3. a \o b = <<h>> \o (t \o b)
  <2>1. (<<h>> \o t) \o b = <<h>> \o (t \o b)
    <3>. HIDE DEF h, t
    <3>. QED  BY <1>1, ConcatAssociative
  <2>. QED  BY <1>1, <2>1
<1>4. a \o b \in Seq(S) /\ Len(a) \in Nat \ {0} /\ Len(b) \in Nat
      /\ Len(a \o b) = Len(a) + Len(b)
  BY ConcatProperties, EmptySeq, LenProperties
<1>5. a \o b # <<>>
  BY <1>4, EmptySeq
<1>6. Head(a \o b) = h
  <2>1. (a \o b)[1] = a[1]
    BY <1>4, ConcatProperties
  <2>. QED  BY <1>4, <1>5, <2>1
<1>7. Tail(a \o b) = t \o b
  <2>1. /\ a \o b = <<Head(a \o b)>> \o Tail(a \o b)
        /\ Tail(a \o b) \in Seq(S)
    BY <1>4, <1>5, HeadThenTail
  <2>2. <<h>> \o Tail(a \o b) = <<h>> \o (t \o b)
    BY <1>3, <1>6, <2>1
  <2>. QED
    <3>. HIDE DEF h, t
    <3>. QED  BY <1>1, <1>2, <2>1, <2>2, ConcatSimplifications
<1>. QED  BY <1>5, <1>6, <1>7

\* The refinement mapping, as CommandService's queue and live.
ServiceQueue == batch \o commands \o cmd \o pending
ServiceLive == pc \in StartPcs \/ running

LEMMA QuietOrFail ==
  ASSUME ServiceQueue' = ServiceQueue, handled' = handled,
         ServiceLive' => ServiceLive
  PROVE  [Service!SvcNext]_(Service!svcVars)
<1>1. CASE ServiceLive' <=> ServiceLive
  <2>1. ServiceLive' = ServiceLive
    BY <1>1 DEF ServiceLive
  <2>. QED  BY <2>1 DEF ServiceQueue, ServiceLive, Service!svcVars
<1>2. CASE ~ServiceLive'
  <2>1. ServiceLive' = FALSE
    BY <1>2 DEF ServiceLive
  <2>. QED
    BY <2>1 DEF ServiceQueue, ServiceLive, Service!SvcNext, Service!Fail
<1>. QED  BY <1>1, <1>2

LEMMA HandleRefines ==
  ASSUME TypeOK, HandleCommand
  PROVE  Service!Handle
<1>0. /\ commands \in Seq(Byte) /\ batch \in Seq(Byte) /\ cmd \in Seq(Byte)
      /\ pending \in Seq(Byte) /\ batch # <<>>
      /\ batch' = Tail(batch) /\ handled' = Append(handled, Head(batch))
      /\ UNCHANGED <<commands, cmd, pending, pc>>
      /\ running' = (running /\ Head(batch).code # Stop)
      /\ pc = "handle"
  BY DEF TypeOK, SocketTypeOK, HandleCommand, socketVars, memberVars
<1>. DEFINE rest == commands \o cmd \o pending
<1>1. rest \in Seq(Byte)
  <2>1. commands \o cmd \in Seq(Byte)
    BY <1>0, ConcatIsSeq
  <2>. QED  BY <1>0, <2>1, ConcatIsSeq
<1>2. Tail(batch) \in Seq(Byte)
  BY <1>0, HeadThenTail
<1>3. ASSUME NEW s \in Seq(Byte)
      PROVE  s \o commands \o cmd \o pending = s \o rest
  <2>. DEFINE middle == commands \o cmd
  <2>1. middle \in Seq(Byte) /\ pending \in Seq(Byte)
    BY <1>0, ConcatIsSeq
  <2>. s \in Seq(Byte) /\ commands \in Seq(Byte) /\ cmd \in Seq(Byte)
    BY <1>0, <1>3
  <2>2. (s \o commands) \o cmd = s \o middle
    BY ConcatAssociative
  <2>3. (s \o middle) \o pending = s \o (middle \o pending)
    <3>. HIDE DEF middle
    <3>. QED  BY <1>3, <2>1, ConcatAssociative, SMTT(30)
  <2>. QED  BY <2>2, <2>3
<1>4. /\ ServiceQueue = batch \o rest
      /\ Tail(batch) \o commands \o cmd \o pending = Tail(batch) \o rest
  BY <1>0, <1>2, <1>3 DEF ServiceQueue
<1>5. /\ batch \o rest # <<>>
      /\ Head(batch \o rest) = Head(batch)
      /\ Tail(batch \o rest) = Tail(batch) \o rest
  <2>. HIDE DEF rest
  <2>. QED  BY <1>0, <1>1, ConcatHeadTail
<1>6. /\ ServiceQueue # <<>>
      /\ Head(ServiceQueue) = Head(batch)
      /\ ServiceQueue' = Tail(ServiceQueue)
  <2>1. ServiceQueue' = Tail(batch) \o rest
    BY <1>0, <1>4 DEF ServiceQueue
  <2>. HIDE DEF rest
  <2>. QED  BY <1>4, <1>5, <2>1
<1>7. ServiceLive' = (ServiceLive /\ Head(ServiceQueue).code # Stop)
  BY <1>0, <1>6 DEF ServiceLive, StartPcs
<1>. QED
  BY <1>0, <1>6, <1>7 DEF Service!Handle, Service!Stop, Stop, ServiceQueue, ServiceLive

LEMMA ReceiveRefines ==
  ASSUME TypeOK, ThreadPolls, ReadData
  PROVE  Service!Receive
<1>0. /\ commands \in Seq(Byte) /\ batch \in Seq(Byte) /\ cmd \in Seq(Byte)
      /\ pending \in Seq(Byte) /\ clientFd \in Clients /\ inbox[clientFd] \in Seq(Byte)
      /\ UNCHANGED <<commands, cmd, batch, handled, pc, running>>
  BY DEF TypeOK, SocketTypeOK, ThreadPolls, ReadData, ClientReady, queueVars, flagVars
<1>1. PICK n \in 1..ChunkSize :
        /\ n <= Len(inbox[clientFd])
        /\ pending' = pending \o SubSeq(inbox[clientFd], 1, n)
  BY DEF ReadData
<1>. DEFINE chunk == SubSeq(inbox[clientFd], 1, n)
            front == batch \o commands \o cmd
<1>2. n \in 1..Len(inbox[clientFd])
  BY <1>0, <1>1, LenProperties, SocketAssumption
<1>3. chunk \in [1..n -> Byte] /\ chunk \in Seq(Byte)
  BY <1>0, <1>2, ChunkOfBuffer
<1>4. front \in Seq(Byte)
  <2>1. batch \o commands \in Seq(Byte)
    BY <1>0, ConcatIsSeq
  <2>. QED  BY <1>0, <2>1, ConcatIsSeq
<1>5. front \o (pending \o chunk) = (front \o pending) \o chunk
  <2>1. pending \in Seq(Byte) /\ chunk \in Seq(Byte)
    BY <1>0, <1>3
  <2>. HIDE DEF front, chunk
  <2>. QED  BY <1>4, <2>1, ConcatAssociative
<1>6. ServiceQueue' = ServiceQueue \o chunk
  BY <1>0, <1>1, <1>5 DEF ServiceQueue
<1>. QED
  BY <1>0, <1>3, <1>6 DEF Service!Receive, ServiceQueue

\* Taking, pushing and draining move a command along the queue without
\* changing it.
LEMMA MovesKeepQueue ==
  ASSUME TypeOK, QueuePhase, ThreadTakes \/ ThreadPushes \/ DrainCommands
  PROVE  /\ ServiceQueue' = ServiceQueue
         /\ handled' = handled /\ ServiceLive' = ServiceLive
<1>0. /\ commands \in Seq(Byte) /\ batch \in Seq(Byte) /\ cmd \in Seq(Byte)
      /\ pending \in Seq(Byte) /\ <<>> \in Seq(Byte) /\ SocketTypeOK
  BY EmptySeq DEF TypeOK, SocketTypeOK
<1>. USE DEF flagVars
<1>1. CASE ThreadTakes
  <2>1. CASE TakeCommand /\ cmd' = <<Head(pending)>> /\ tpc' = "push"
    <3>. DEFINE front == batch \o commands
                h == <<Head(pending)>>
                t == Tail(pending)
    <3>1. front \in Seq(Byte)
      BY <1>0, ConcatIsSeq
    <3>2. h \in Seq(Byte) /\ t \in Seq(Byte) /\ pending = h \o t
      BY <1>0, <2>1, HeadThenTail DEF TakeCommand
    <3>3. (front \o h) \o t = front \o (h \o t) /\ front \o <<>> = front
      <4>. HIDE DEF front, h, t
      <4>. QED  BY <3>1, <3>2, ConcatAssociative, ConcatEmptySeq
    <3>4. cmd = <<>>
      BY <1>1 DEF ThreadTakes, QueuePhase
    <3>5. /\ cmd' = h /\ pending' = t
          /\ UNCHANGED <<batch, commands, handled, pc, running>>
      BY <1>1, <2>1 DEF ThreadTakes, TakeCommand
    <3>6. ServiceQueue' = front \o h \o t /\ ServiceQueue = front \o <<>> \o pending
      <4>. HIDE DEF h, t
      <4>. QED  BY <3>4, <3>5 DEF ServiceQueue
    <3>7. ServiceQueue' = ServiceQueue
      BY <3>2, <3>3, <3>6
    <3>. QED  BY <3>5, <3>7 DEF ServiceLive
  <2>2. CASE tpc' = "while" /\ UNCHANGED <<socketVars, cmd>>
    BY <1>1, <2>2 DEF ThreadTakes, socketVars, memberVars, ServiceQueue, ServiceLive
  <2>. QED  BY <1>1, <2>1, <2>2 DEF ThreadTakes
<1>2. CASE ThreadPushes
  <2>1. batch \o (commands \o cmd) \o <<>> = batch \o commands \o cmd
    BY <1>0, HandOverPush
  <2>2. /\ commands' = commands \o cmd /\ cmd' = <<>>
        /\ UNCHANGED <<batch, pending, handled, pc, running>>
    BY <1>2 DEF ThreadPushes, socketVars, memberVars
  <2>. QED  BY <2>1, <2>2 DEF ServiceQueue, ServiceLive
<1>3. CASE DrainCommands
  <2>1. batch = <<>>
    BY <1>3 DEF DrainCommands, Goto, QueuePhase
  <2>2. commands \o <<>> = commands /\ <<>> \o commands = commands
    BY <1>0, ConcatEmptySeq
  <2>3. /\ batch' = commands /\ commands' = <<>>
        /\ UNCHANGED <<cmd, pending, handled, running>>
        /\ pc = "drain" /\ pc' = "handle"
    BY <1>3 DEF DrainCommands, Goto, socketVars, memberVars
  <2>. QED  BY <2>1, <2>2, <2>3 DEF ServiceQueue, ServiceLive, StartPcs
<1>. QED  BY <1>1, <1>2, <1>3

LEMMA StepRefines ==
  ASSUME IInv, [Next]_vars
  PROVE  [Service!SvcNext]_(Service!svcVars)
<1>0. TypeOK /\ QueuePhase /\ ThreadPhase
  BY DEF IInv
<1>1. CASE HandleCommand
  BY <1>0, <1>1, HandleRefines DEF Service!SvcNext
<1>2. CASE ThreadPolls /\ ReadData
  BY <1>0, <1>2, ReceiveRefines DEF Service!SvcNext
<1>3. CASE ThreadTakes \/ ThreadPushes \/ DrainCommands
  BY <1>0, <1>3, MovesKeepQueue, QuietOrFail
<1>4. ASSUME UNCHANGED <<queueVars, pending>>, ServiceLive' => ServiceLive
      PROVE  [Service!SvcNext]_(Service!svcVars)
  BY <1>4, QuietOrFail DEF queueVars, ServiceQueue
<1>. USE DEF ServiceLive, StartPcs, LoopPcs, DownPcs, Goto, flagVars, socketVars, memberVars
<1>5. CASE ThreadPolls /\ ~ReadData
  <2>1. UNCHANGED pending
    BY <1>5
    DEF ThreadPolls, PollStep, PollReturns, PollFails, PollInterrupted, Accept,
        NothingToAccept, AcceptFails, ReadEof, ReadError, NothingRead
  <2>. QED  BY <1>4, <1>5, <2>1 DEF ThreadPolls
<1>6. CASE OpenSocket
  BY <1>4, <1>6 DEF OpenSocket, Create, Bind, Listen
<1>7. CASE InitializeBackend \/ InitializeRenderer \/ SetRunning \/ PollSocket
  BY <1>4, <1>7 DEF InitializeBackend, InitializeRenderer, SetRunning, PollSocket
<1>8. CASE LoadConfig \/ LoopTest \/ Drained \/ PresentFrame \/ PollEvents
  BY <1>4, <1>8 DEF LoadConfig, LoopTest, Drained, PresentFrame, PollEvents
<1>9. CASE \/ ClearFlags \/ Join \/ ShutdownSocket
           \/ ResetRenderable \/ ShutdownRenderer \/ ShutdownBackend
  BY <1>4, <1>9
  DEF ClearFlags, Join, ShutdownSocket, CloseSockets, Unlink, KernelCloses,
      ResetRenderable, ShutdownRenderer, ShutdownBackend
<1>10. CASE PollingTest \/ ThreadFails \/ ThreadEnds
  <2>1. CASE ThreadFails
    <3>1. ~(pc \in StartPcs)
      BY <1>0, <2>1 DEF ThreadFails, ThreadPhase, BeforeThread
    <3>. QED  BY <1>4, <2>1, <3>1 DEF ThreadFails
  <2>. QED  BY <1>4, <1>10, <2>1 DEF PollingTest, ThreadEnds
<1>11. CASE Failure
  BY <1>4, <1>11 DEF Failure, StartTerminates, Killed, Death, KernelReaps, LoadConfigFails, PumpSpins, FrameFails
<1>12. CASE Outside
  <2>1. UNCHANGED <<queueVars, pending, pc, running>>
    BY <1>12
    DEF Outside, FrameDone, DisplayFails, Environment, Connect, ClientWrites, ClientCloses, OtherInstance
  <2>. QED  BY <1>4, <2>1
<1>13. CASE UNCHANGED vars
  BY <1>4, <1>13 DEF vars
<1>. QED
  BY <1>1, <1>2, <1>3, <1>5, <1>6, <1>7, <1>8, <1>9, <1>10, <1>11, <1>12, <1>13
  DEF Next, MainStep, ThreadStep

LEMMA InitRefines == Init => Service!SvcInit
<1>. SUFFICES ASSUME Init PROVE Service!SvcInit
  OBVIOUS
<1>1. <<>> \o <<>> = <<>>
  BY EmptySeq, ConcatEmptySeq
<1>. QED  BY <1>1 DEF Init, SocketInit, Service!SvcInit, StartPcs

\* Socket, socket thread and main loop implement the command service: one
\* queue, handled in order, that a stop or a failure ends for good.
THEOREM Refinement == Spec => ImplementsService
<1>. HIDE DEF IInv
<1>1. IInv /\ [Next]_vars => [Service!SvcNext]_(Service!svcVars)
  BY StepRefines
<1>. QED  BY <1>1, InitRefines, Invariance, PTL DEF Spec, ImplementsService, Service!SvcSpec

=============================================================================
