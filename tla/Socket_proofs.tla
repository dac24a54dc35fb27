--------------------------- MODULE Socket_proofs ---------------------------
(***************************************************************************)
(* Theorems about Socket, for every set of connections, every set of       *)
(* codes, every chunk size and every length of the accept queue.           *)
(***************************************************************************)
EXTENDS Socket, SequenceTheorems, TLAPS

-----------------------------------------------------------------------------
(* Sequences *)

\* A chunk cut off the front of a receive buffer: both parts are sequences,
\* the chunk has as many bytes as read() returned, and together they are the
\* buffer (the copy loop of Poll).
LEMMA ChunkOfBuffer ==
  ASSUME NEW S, NEW s \in Seq(S), NEW n \in 1..Len(s)
  PROVE  /\ SubSeq(s, 1, n) \in [1..n -> S]
         /\ SubSeq(s, 1, n) \in Seq(S)
         /\ SubSeq(s, n + 1, Len(s)) \in Seq(S)
         /\ SubSeq(s, 1, n) \o SubSeq(s, n + 1, Len(s)) = s
<1>0. Len(s) \in Nat /\ \A i \in 1..Len(s) : s[i] \in S
  BY LenProperties, ElementOfSeq
<1>1. /\ SubSeq(s, 1, n) \in Seq(S)
      /\ Len(SubSeq(s, 1, n)) = n
  BY <1>0, SubSeqProperties
<1>2. SubSeq(s, 1, n) \in [1..n -> S]
  BY <1>1, LenProperties
<1>3. SubSeq(s, n + 1, Len(s)) \in Seq(S)
  BY <1>0, SubSeqProperties
<1>4. SubSeq(s, 1, n) \o SubSeq(s, n + 1, Len(s)) = s
  <2>1. SubSeq(s, 1, n) \o SubSeq(s, n + 1, Len(s)) = SubSeq(s, 1, Len(s))
    BY <1>0, ConcatAdjacentSubSeq
  <2>. QED  BY <2>1, SubSeqFull
<1>. QED  BY <1>1, <1>2, <1>3, <1>4

LEMMA AppendNotEmpty ==
  ASSUME NEW S, NEW s \in Seq(S), NEW e \in S
  PROVE  Append(s, e) # <<>>
BY AppendProperties

-----------------------------------------------------------------------------
(* Type correctness *)

LEMMA SetupKeepsType ==
  ASSUME SocketTypeOK, Create \/ Bind \/ Listen \/ CloseSockets \/ Unlink \/ KernelReaps
  PROVE  SocketTypeOK'
<1>. USE SocketAssumption DEF SocketTypeOK, kernelVars, pollVars, PathOwners, ConnStates
<1>1. CASE Create BY <1>1 DEF Create
<1>2. CASE Bind BY <1>2 DEF Bind
<1>3. CASE Listen BY <1>3 DEF Listen, memberVars
<1>4. CASE CloseSockets BY <1>4, EmptySeq DEF CloseSockets, KernelCloses
<1>5. CASE Unlink BY <1>5 DEF Unlink
<1>6. CASE KernelReaps BY <1>6, EmptySeq DEF KernelReaps, KernelCloses
<1>. QED  BY <1>1, <1>2, <1>3, <1>4, <1>5, <1>6

LEMMA PollKeepsType ==
  ASSUME SocketTypeOK, PollStep
  PROVE  SocketTypeOK'
<1>. USE SocketAssumption DEF SocketTypeOK, PathOwners, ConnStates
<1>1. CASE PollReturns
  BY <1>1 DEF PollReturns, memberVars, kernelVars, Readable
<1>2. CASE PollFails \/ AcceptFails \/ NothingToAccept \/ NothingRead
  BY <1>2 DEF PollFails, AcceptFails, NothingToAccept, NothingRead, memberVars, kernelVars
<1>3. CASE PollInterrupted
  BY <1>3 DEF PollInterrupted, socketVars, memberVars, kernelVars, pollVars
<1>4. CASE Accept
  <2>1. Head(backlog) \in Clients /\ Tail(backlog) \in Seq(Clients)
    BY <1>4, HeadTailProperties DEF Accept
  <2>2. CASE clientFd # NoClient
    <3>1. conn' = [conn EXCEPT ![Head(backlog)] = "refused"] /\ clientFd' = clientFd
      BY <1>4, <2>2 DEF Accept
    <3>. QED  BY <1>4, <2>1, <3>1 DEF Accept
  <2>3. CASE clientFd = NoClient
    <3>1. /\ conn' = [conn EXCEPT ![Head(backlog)] = "attached"]
          /\ clientFd' = Head(backlog)
      BY <1>4, <2>3 DEF Accept
    <3>. QED  BY <1>4, <2>1, <3>1 DEF Accept
  <2>. QED  BY <2>2, <2>3
<1>5. CASE ReadData
  <2>1. clientFd \in Clients
    BY <1>5 DEF ReadData, ClientReady
  <2>2. PICK n \in 1..ChunkSize :
          /\ n <= Len(inbox[clientFd])
          /\ pending' = pending \o SubSeq(inbox[clientFd], 1, n)
          /\ inbox' = [inbox EXCEPT ![clientFd] = SubSeq(@, n + 1, Len(@))]
    BY <1>5 DEF ReadData
  <2>3. n \in 1..Len(inbox[clientFd]) /\ inbox[clientFd] \in Seq(Byte)
    BY <2>1, <2>2, LenProperties
  <2>4. pending' \in Seq(Byte)
    BY <2>2, <2>3, ChunkOfBuffer, ConcatProperties
  <2>5. inbox' \in [Clients -> Seq(Byte)]
    BY <2>1, <2>2, <2>3, ChunkOfBuffer
  <2>. QED  BY <1>5, <2>4, <2>5 DEF ReadData
<1>6. CASE ReadEof \/ ReadError
  BY <1>6 DEF ReadEof, ReadError, ClientReady, Hangup
<1>. QED  BY <1>1, <1>2, <1>3, <1>4, <1>5, <1>6 DEF PollStep

LEMMA TakeKeepsType ==
  ASSUME SocketTypeOK, TakeCommand
  PROVE  /\ SocketTypeOK'
         /\ Head(pending) \in Byte
<1>1. Head(pending) \in Byte /\ Tail(pending) \in Seq(Byte)
  BY HeadTailProperties DEF SocketTypeOK, TakeCommand
<1>2. Append(taken, Head(pending)) \in Seq(Byte)
  BY <1>1, AppendProperties DEF SocketTypeOK
<1>. QED  BY <1>1, <1>2 DEF SocketTypeOK, TakeCommand, kernelVars, pollVars

LEMMA EnvironmentKeepsType ==
  ASSUME SocketTypeOK, Environment
  PROVE  SocketTypeOK'
<1>. USE DEF SocketTypeOK, memberVars, pollVars, PathOwners, ConnStates
<1>1. ASSUME NEW c \in Clients, Connect(c) PROVE SocketTypeOK'
  <2>1. Append(backlog, c) \in Seq(Clients)
    BY AppendProperties
  <2>. QED  BY <1>1, <2>1 DEF Connect
<1>2. ASSUME NEW c \in Clients, NEW code \in Codes, ClientWrites(c, code) PROVE SocketTypeOK'
  <2>. DEFINE byte == [from |-> c, code |-> code]
  <2>1. byte \in Byte
    BY DEF Byte
  <2>2. Append(inbox[c], byte) \in Seq(Byte) /\ Append(sent[c], byte) \in Seq(Byte)
    BY <2>1, AppendProperties
  <2>3. /\ inbox' = [inbox EXCEPT ![c] = Append(inbox[c], byte)]
        /\ sent' = [sent EXCEPT ![c] = Append(sent[c], byte)]
    BY <1>2 DEF ClientWrites
  <2>4. inbox' \in [Clients -> Seq(Byte)] /\ sent' \in [Clients -> Seq(Byte)]
    BY <2>2, <2>3
  <2>. QED  BY <1>2, <2>4 DEF ClientWrites
<1>3. ASSUME NEW c \in Clients, ClientCloses(c) PROVE SocketTypeOK'
  BY <1>3 DEF ClientCloses
<1>4. ASSUME OtherInstance PROVE SocketTypeOK'
  BY <1>4 DEF OtherInstance
<1>. QED  BY <1>1, <1>2, <1>3, <1>4 DEF Environment

LEMMA SocketInitType == SocketInit => SocketTypeOK
<1>. SUFFICES ASSUME SocketInit PROVE SocketTypeOK
  OBVIOUS
<1>1. <<>> \in Seq(Byte) /\ <<>> \in Seq(Clients)
  BY EmptySeq
<1>. QED  BY <1>1 DEF SocketInit, SocketTypeOK, PathOwners, ConnStates

\* The socket's variables keep their types along every execution.
THEOREM SocketTypeCorrect == SocketSpec => []SocketTypeOK
<1>1. SocketTypeOK /\ [SocketNext]_socketVars => SocketTypeOK'
  <2>. SUFFICES ASSUME SocketTypeOK, [SocketNext]_socketVars PROVE SocketTypeOK'
    OBVIOUS
  <2>1. CASE UNCHANGED socketVars
    BY <2>1 DEF SocketTypeOK, socketVars, memberVars, kernelVars, pollVars
  <2>2. CASE SocketNext
    BY <2>1, <2>2, SetupKeepsType, PollKeepsType, TakeKeepsType, EnvironmentKeepsType DEF SocketNext
  <2>. QED  BY <2>1, <2>2
<1>. QED  BY <1>1, SocketInitType, PTL DEF SocketSpec

-----------------------------------------------------------------------------
(* Descriptors *)

\* The accept queue holds each connection once, and only while the socket
\* listens; readiness reported for the client stays true until it is used.
QueueIsQueued ==
  /\ \A i \in 1..Len(backlog) : conn[backlog[i]] = "queued"
  /\ \A i, j \in 1..Len(backlog) : backlog[i] = backlog[j] => i = j
  /\ listening => sockfd = "open"

ReadinessLasts ==
  at \in {"accept", "read"} /\ revents.client => clientFd # NoClient /\ Readable(clientFd)

SocketInv ==
  SocketTypeOK /\ OneClientDescriptor /\ QueueIsQueued /\ ReadinessLasts /\ UnlinksOwnPath

LEMMA SocketInvInit == SocketInit => SocketInv
<1>. SUFFICES ASSUME SocketInit PROVE SocketInv
  OBVIOUS
<1>1. SocketTypeOK
  BY SocketInitType
<1>2. Len(backlog) = 0
  BY EmptySeq DEF SocketInit
<1>. QED
  BY <1>1, <1>2, SocketAssumption
  DEF SocketInit, SocketInv, OneClientDescriptor, QueueIsQueued, ReadinessLasts, UnlinksOwnPath

LEMMA SetupKeepsInv ==
  ASSUME SocketInv,
         \/ Create \/ Bind \/ Listen \/ Unlink \/ KernelReaps
         \/ at \in {"idle", "failed"} /\ CloseSockets
  PROVE  SocketInv'
<1>1. SocketTypeOK'
  BY SetupKeepsType DEF SocketInv
<1>. USE SocketAssumption
     DEF SocketInv, SocketTypeOK, OneClientDescriptor, QueueIsQueued, ReadinessLasts,
         Readable, UnlinksOwnPath, kernelVars, pollVars, memberVars, PathOwners, ConnStates
<1>2. CASE Create BY <1>1, <1>2 DEF Create
<1>3. CASE Bind BY <1>1, <1>3 DEF Bind
<1>4. CASE Listen BY <1>1, <1>4 DEF Listen
<1>5. CASE Unlink BY <1>1, <1>5 DEF Unlink
<1>6. CASE at \in {"idle", "failed"} /\ CloseSockets
  <2>1. Len(backlog') = 0
    BY <1>6, EmptySeq DEF CloseSockets, KernelCloses
  <2>2. \A c \in Clients : conn'[c] \notin {"queued", "attached"}
    BY <1>6 DEF CloseSockets, KernelCloses
  <2>3. sockfd' # "open" /\ listening' = FALSE /\ clientFd' = NoClient
    BY <1>6 DEF CloseSockets, KernelCloses
  <2>. QED  BY <1>1, <1>6, <2>1, <2>2, <2>3 DEF CloseSockets
<1>7. CASE KernelReaps
  <2>1. Len(backlog') = 0
    BY <1>7, EmptySeq DEF KernelReaps, KernelCloses
  <2>2. \A c \in Clients : conn'[c] \notin {"queued", "attached"}
    BY <1>7 DEF KernelReaps, KernelCloses
  <2>3. sockfd' # "open" /\ listening' = FALSE /\ clientFd' = NoClient /\ at' = "dead"
    BY <1>7 DEF KernelReaps, KernelCloses
  <2>4. UnlinksOwnPath'
    BY <1>7 DEF KernelReaps
  <2>. QED  BY <1>1, <2>1, <2>2, <2>3, <2>4
<1>. QED  BY <1>2, <1>3, <1>4, <1>5, <1>6, <1>7

LEMMA AcceptKeepsInv ==
  ASSUME SocketInv, Accept
  PROVE  SocketInv'
<1>. DEFINE c == Head(backlog)
<1>0. SocketTypeOK'
  BY PollKeepsType DEF SocketInv, PollStep
<1>1. backlog \in Seq(Clients) /\ backlog # <<>> /\ backlog' = Tail(backlog)
  BY DEF SocketInv, SocketTypeOK, Accept
<1>2. /\ c = backlog[1] /\ c \in Clients
      /\ Len(backlog) \in Nat \ {0}
      /\ Len(backlog') = Len(backlog) - 1
      /\ \A i \in 1..Len(backlog') : backlog'[i] = backlog[i + 1]
  BY <1>1, HeadTailProperties, EmptySeq
<1>3. conn[c] = "queued" /\ \A i \in 1..Len(backlog') : backlog'[i] # c
  BY <1>2 DEF SocketInv, QueueIsQueued
<1>4. \/ conn' = [conn EXCEPT ![c] = "refused"] /\ clientFd' = clientFd /\ clientFd # NoClient
      \/ conn' = [conn EXCEPT ![c] = "attached"] /\ clientFd' = c /\ clientFd = NoClient
  BY DEF Accept
<1>5. OneClientDescriptor'
  BY <1>2, <1>3, <1>4, SocketAssumption
  DEF Accept, SocketInv, OneClientDescriptor, SocketTypeOK
<1>6. QueueIsQueued'
  <2>1. \A i \in 1..Len(backlog') : backlog'[i] \in Clients
    BY <1>1, HeadTailProperties, ElementOfSeq
  <2>2. \A i \in 1..Len(backlog') : conn'[backlog'[i]] = "queued"
    <3>. TAKE i \in 1..Len(backlog')
    <3>1. i + 1 \in 1..Len(backlog) /\ backlog'[i] = backlog[i + 1] /\ backlog'[i] # c
      BY <1>2, <1>3
    <3>2. conn[backlog'[i]] = "queued"
      BY <3>1 DEF SocketInv, QueueIsQueued
    <3>3. conn'[backlog'[i]] = conn[backlog'[i]]
      BY <2>1, <3>1, <1>4 DEF SocketInv, SocketTypeOK
    <3>. QED  BY <3>2, <3>3
  <2>3. \A i, j \in 1..Len(backlog') : backlog'[i] = backlog'[j] => i = j
    BY <1>2 DEF SocketInv, QueueIsQueued
  <2>. QED  BY <2>2, <2>3 DEF QueueIsQueued, Accept, SocketInv
<1>7. ReadinessLasts'
  BY <1>4 DEF Accept, SocketInv, ReadinessLasts, Readable
<1>8. UnlinksOwnPath'
  BY DEF Accept, SocketInv, UnlinksOwnPath
<1>. QED  BY <1>0, <1>5, <1>6, <1>7, <1>8 DEF SocketInv

\* A step that leaves the members and the kernel's state alone keeps all but the
\* part of the invariant about readiness.
LEMMA KernelStutters ==
  ASSUME SocketInv, UNCHANGED <<memberVars, kernelVars>>
  PROVE  OneClientDescriptor' /\ QueueIsQueued' /\ UnlinksOwnPath'
<1>1. OneClientDescriptor'
  BY DEF SocketInv, OneClientDescriptor, memberVars, kernelVars
<1>2. QueueIsQueued'
  BY DEF SocketInv, QueueIsQueued, memberVars, kernelVars
<1>3. UnlinksOwnPath'
  BY DEF SocketInv, UnlinksOwnPath, memberVars, kernelVars
<1>. QED  BY <1>1, <1>2, <1>3

LEMMA PollKeepsInv ==
  ASSUME SocketInv, PollStep
  PROVE  SocketInv'
<1>1. SocketTypeOK'
  BY PollKeepsType DEF SocketInv
<1>2. CASE Accept BY <1>2, AcceptKeepsInv
<1>3. CASE PollReturns
  <2>1. OneClientDescriptor' /\ QueueIsQueued' /\ UnlinksOwnPath'
    BY <1>3, KernelStutters DEF PollReturns
  <2>2. ReadinessLasts'
    BY <1>3 DEF PollReturns, ReadinessLasts, Readable, memberVars, kernelVars
  <2>. QED  BY <1>1, <2>1, <2>2 DEF SocketInv
<1>4. CASE PollFails \/ AcceptFails \/ NothingToAccept \/ NothingRead
  <2>1. UNCHANGED <<memberVars, kernelVars, revents>>
    BY <1>4 DEF PollFails, AcceptFails, NothingToAccept, NothingRead
  <2>2. OneClientDescriptor' /\ QueueIsQueued' /\ UnlinksOwnPath'
    BY <2>1, KernelStutters
  <2>3. at' \in {"accept", "read"} => at = "accept"
    BY <1>4 DEF PollFails, AcceptFails, NothingToAccept, NothingRead
  <2>4. ReadinessLasts'
    BY <2>1, <2>3 DEF SocketInv, ReadinessLasts, Readable, memberVars, kernelVars
  <2>. QED  BY <1>1, <2>2, <2>4 DEF SocketInv
<1>. USE SocketAssumption
     DEF SocketInv, SocketTypeOK, OneClientDescriptor, QueueIsQueued, ReadinessLasts,
         Readable, UnlinksOwnPath, kernelVars, pollVars, memberVars
<1>5. CASE PollInterrupted BY <1>1, <1>5 DEF PollInterrupted, socketVars
<1>6. CASE ReadData BY <1>1, <1>6 DEF ReadData
<1>7. CASE ReadEof \/ ReadError
  <2>1. clientFd \in Clients /\ conn[clientFd] = "attached"
    BY <1>7 DEF ReadEof, ReadError, ClientReady
  <2>2. /\ clientFd' = NoClient
        /\ \A c \in Clients : c # clientFd => conn'[c] = conn[c]
        /\ conn'[clientFd] \in {"closed", "reset"}
    BY <1>7, <2>1 DEF ReadEof, ReadError, Hangup
  <2>3. \A i \in 1..Len(backlog) : backlog[i] \in Clients /\ backlog[i] # clientFd
    BY <2>1, ElementOfSeq
  <2>4. OneClientDescriptor'
    BY <1>7, <2>1, <2>2 DEF ReadEof, ReadError
  <2>5. QueueIsQueued'
    BY <1>7, <2>2, <2>3 DEF ReadEof, ReadError
  <2>. QED  BY <1>1, <1>7, <2>4, <2>5 DEF ReadEof, ReadError
<1>. QED  BY <1>2, <1>3, <1>4, <1>5, <1>6, <1>7 DEF PollStep

LEMMA TakeKeepsInv ==
  ASSUME SocketInv, TakeCommand
  PROVE  SocketInv'
<1>1. SocketTypeOK'
  BY TakeKeepsType DEF SocketInv
<1>. QED
  BY <1>1
  DEF TakeCommand, SocketInv, OneClientDescriptor, QueueIsQueued, ReadinessLasts, Readable,
      UnlinksOwnPath, kernelVars, pollVars

LEMMA EnvironmentKeepsInv ==
  ASSUME SocketInv, Environment
  PROVE  SocketInv'
<1>0. SocketTypeOK'
  BY EnvironmentKeepsType DEF SocketInv
<1>. USE DEF SocketInv, SocketTypeOK, OneClientDescriptor, QueueIsQueued, ReadinessLasts,
             Readable, UnlinksOwnPath, memberVars, pollVars, PathOwners, ConnStates
<1>1. ASSUME NEW c \in Clients, Connect(c) PROVE SocketInv'
  <2>1. backlog' = Append(backlog, c) /\ conn' = [conn EXCEPT ![c] = "queued"]
    BY <1>1 DEF Connect
  <2>2. /\ Len(backlog) \in Nat
        /\ Len(backlog') = Len(backlog) + 1
        /\ \A i \in 1..Len(backlog) : backlog'[i] = backlog[i] /\ backlog[i] \in Clients
        /\ backlog'[Len(backlog) + 1] = c
    BY <2>1, AppendProperties, LenProperties, ElementOfSeq
  <2>3. \A i \in 1..Len(backlog) : backlog[i] # c
    BY <1>1 DEF Connect
  <2>4. QueueIsQueued'
    <3>1. /\ conn \in [Clients -> ConnStates]
          /\ \A i \in 1..Len(backlog) : conn[backlog[i]] = "queued"
          /\ \A i, j \in 1..Len(backlog) : backlog[i] = backlog[j] => i = j
      OBVIOUS
    <3>2. listening' => sockfd' = "open"
      BY <1>1 DEF Connect
    <3>. HIDE DEF SocketInv, SocketTypeOK, OneClientDescriptor, QueueIsQueued, ReadinessLasts,
                  Readable, UnlinksOwnPath, ConnStates, PathOwners
    <3>3. \A i \in 1..Len(backlog') :
            (i \in 1..Len(backlog) /\ backlog'[i] = backlog[i]) \/ backlog'[i] = c
      BY <2>2
    <3>4. \A i \in 1..Len(backlog') : conn'[backlog'[i]] = "queued"
      BY <2>1, <2>2, <3>1, <3>3
    <3>5. \A i, j \in 1..Len(backlog') : backlog'[i] = backlog'[j] => i = j
      BY <2>2, <2>3, <3>1
    <3>. QED  BY <3>2, <3>4, <3>5 DEF QueueIsQueued
  <2>5. OneClientDescriptor'
    BY <1>1, <2>1 DEF Connect
  <2>. QED  BY <1>0, <1>1, <2>4, <2>5, SMTT(30) DEF Connect
<1>2. ASSUME NEW c \in Clients, NEW code \in Codes, ClientWrites(c, code) PROVE SocketInv'
  <2>1. \A d \in Clients : inbox[d] # <<>> => inbox'[d] # <<>>
    <3>. DEFINE byte == [from |-> c, code |-> code]
    <3>1. byte \in Byte
      BY DEF Byte
    <3>2. Append(inbox[c], byte) # <<>>
      BY <3>1, AppendNotEmpty
    <3>3. inbox' = [inbox EXCEPT ![c] = Append(inbox[c], byte)]
      BY <1>2 DEF ClientWrites
    <3>. QED  BY <3>2, <3>3
  <2>. QED  BY <1>0, <1>2, <2>1 DEF ClientWrites
<1>3. ASSUME NEW c \in Clients, ClientCloses(c) PROVE SocketInv'
  BY <1>0, <1>3 DEF ClientCloses
<1>4. ASSUME OtherInstance PROVE SocketInv'
  BY <1>0, <1>4 DEF OtherInstance
<1>. QED  BY <1>1, <1>2, <1>3, <1>4 DEF Environment

LEMMA SocketInvariance == SocketSpec => []SocketInv
<1>1. SocketInv /\ [SocketNext]_socketVars => SocketInv'
  <2>. SUFFICES ASSUME SocketInv, [SocketNext]_socketVars PROVE SocketInv'
    OBVIOUS
  <2>1. CASE UNCHANGED socketVars
    BY <2>1
    DEF SocketInv, SocketTypeOK, OneClientDescriptor, QueueIsQueued, ReadinessLasts,
        Readable, UnlinksOwnPath, socketVars, memberVars, kernelVars, pollVars
  <2>2. CASE SocketNext
    BY <2>1, <2>2, SetupKeepsInv, PollKeepsInv, TakeKeepsInv, EnvironmentKeepsInv DEF SocketNext
  <2>. QED  BY <2>1, <2>2
<1>. QED  BY <1>1, SocketInvInit, PTL DEF SocketSpec

\* Accept, CloseClient and Shutdown leak no descriptor, whatever the number of
\* connections and the order in which they arrive, write and hang up.
THEOREM NoDescriptorLeaks == SocketSpec => []OneClientDescriptor
<1>1. SocketInv => OneClientDescriptor
  BY DEF SocketInv
<1>. QED  BY <1>1, SocketInvariance, PTL

\* The thread never blocks in read(): what poll() reported before accept() is
\* still true of the same client when read() is called.
THEOREM NoBlockingRead == SocketSpec => []ReadNeverBlocks
<1>1. SocketInv => ReadNeverBlocks
  BY DEF SocketInv, ReadinessLasts, ReadNeverBlocks, ClientReady
<1>. QED  BY <1>1, SocketInvariance, PTL

\* However instances come, go and crash, Shutdown() removes the path only when
\* this socket owns it, and leaves none that it owns.
THEOREM OnlyOwnPathUnlinked == SocketSpec => []UnlinksOwnPath
<1>1. SocketInv => UnlinksOwnPath
  BY DEF SocketInv
<1>. QED  BY <1>1, SocketInvariance, PTL

=============================================================================
