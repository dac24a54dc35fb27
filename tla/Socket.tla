------------------------------ MODULE Socket ------------------------------
(***************************************************************************)
(* Peach::Socket (src/IPC/Socket.cpp): the Unix-domain socket a running    *)
(* wallpaper listens on.  One client is served at a time; each byte it     *)
(* writes is a command.  The kernel's side of the socket (file system      *)
(* entry, accept queue, receive buffers) and the client programs are       *)
(* modelled from the calls the class makes.                                *)
(*                                                                         *)
(* A byte carries the connection it was written on.  No action reads that  *)
(* tag: it only lets the properties tell equal bytes apart.                *)
(***************************************************************************)
EXTENDS Naturals, Sequences

CONSTANTS
  Clients,    \* connections that client programs may open
  NoClient,   \* m_client_fd = -1
  Codes,      \* command bytes a client may write
  ChunkSize,  \* command_buffer_size: most bytes taken by one read()
  Backlog,    \* the argument of listen()
  MaxSent     \* bound of the model: bytes one client writes

ASSUME SocketAssumption ==
  /\ NoClient \notin Clients
  /\ ChunkSize \in Nat \ {0}
  /\ Backlog \in Nat
  /\ MaxSent \in Nat

Byte == [from : Clients, code : Codes]

VARIABLES
  sockfd,    \* m_sockfd: -1 is "unset" before Create and "closed" after close()
  isBound,   \* m_is_bound
  clientFd,  \* m_client_fd
  pending,   \* m_pending_commands
  path,      \* who owns $XDG_RUNTIME_DIR/peach-wallpaper.sock
  listening, \* listen() succeeded on the socket
  backlog,   \* connections the kernel queues for accept()
  conn,      \* the server's end of each connection
  peer,      \* is the client's end still open
  inbox,     \* bytes in the kernel's receive buffer of each connection
  at,        \* progress of the thread inside Poll(), or "dead" with its process
  revents,   \* what the last poll() reported
  sent,      \* history: bytes each client wrote
  taken      \* history: bytes TakeCommand returned

memberVars == <<sockfd, isBound, clientFd, pending>>
kernelVars == <<path, listening, backlog, conn, peer, inbox, sent>>
pollVars   == <<at, revents>>
socketVars == <<memberVars, kernelVars, pollVars, taken>>

PathOwners == {"none", "mine", "other", "stale"}
ConnStates == {"idle", "queued", "attached", "refused", "closed", "reset"}

SocketTypeOK ==
  /\ sockfd \in {"unset", "open", "closed"}
  /\ isBound \in BOOLEAN
  /\ clientFd \in Clients \cup {NoClient}
  /\ pending \in Seq(Byte)
  /\ path \in PathOwners
  /\ listening \in BOOLEAN
  /\ backlog \in Seq(Clients)
  /\ conn \in [Clients -> ConnStates]
  /\ peer \in [Clients -> BOOLEAN]
  /\ inbox \in [Clients -> Seq(Byte)]
  /\ sent \in [Clients -> Seq(Byte)]
  /\ at \in {"idle", "accept", "read", "failed", "dead"}
  /\ revents \in [listener : BOOLEAN, client : BOOLEAN]
  /\ taken \in Seq(Byte)

\* A stale entry is what a crashed instance left behind.
SocketInit ==
  /\ sockfd = "unset" /\ isBound = FALSE /\ clientFd = NoClient
  /\ pending = <<>> /\ taken = <<>>
  /\ path \in {"none", "other", "stale"}
  /\ listening = FALSE /\ backlog = <<>>
  /\ conn = [c \in Clients |-> "idle"]
  /\ peer = [c \in Clients |-> FALSE]
  /\ inbox = [c \in Clients |-> <<>>]
  /\ sent = [c \in Clients |-> <<>>]
  /\ at = "idle" /\ revents = [listener |-> FALSE, client |-> FALSE]

(***************************************************************************)
(* Create, Bind, Listen.  Each may fail; a failed call changes nothing.    *)
(***************************************************************************)
Create ==
  /\ sockfd = "unset"
  /\ sockfd' = "open"
  /\ UNCHANGED <<isBound, clientFd, pending, kernelVars, pollVars, taken>>

\* bind() reports EADDRINUSE whenever the path exists, whoever left it there.
Bind ==
  /\ sockfd = "open" /\ ~isBound
  /\ path = "none"
  /\ path' = "mine" /\ isBound' = TRUE
  /\ UNCHANGED <<sockfd, clientFd, pending, pollVars, taken>>
  /\ UNCHANGED <<listening, backlog, conn, peer, inbox, sent>>

Listen ==
  /\ sockfd = "open" /\ isBound /\ ~listening
  /\ listening' = TRUE
  /\ UNCHANGED <<memberVars, pollVars, taken>>
  /\ UNCHANGED <<path, backlog, conn, peer, inbox, sent>>

(***************************************************************************)
(* CloseClient and the two halves of CloseServer: close(), then unlink().  *)
(* Closing the listening socket resets the connections still queued on it. *)
(***************************************************************************)
Hangup(c, how) ==
  /\ clientFd' = NoClient
  /\ conn' = [conn EXCEPT ![c] = how]

KernelCloses ==
  /\ sockfd' = IF sockfd = "open" THEN "closed" ELSE sockfd
  /\ clientFd' = NoClient /\ listening' = FALSE /\ backlog' = <<>>
  /\ conn' = [c \in Clients |->
                IF conn[c] \in {"queued", "attached"} THEN "reset" ELSE conn[c]]

CloseSockets ==
  /\ KernelCloses
  /\ UNCHANGED <<isBound, pending, path, peer, inbox, sent, pollVars, taken>>

\* The process ends without a Shutdown(): the kernel closes its descriptors and
\* the path stays behind.
KernelReaps ==
  /\ KernelCloses /\ isBound' = FALSE
  /\ path' = IF path = "mine" THEN "stale" ELSE path
  /\ at' = "dead"
  /\ UNCHANGED <<pending, peer, inbox, sent, revents, taken>>

\* Mutant: m_is_bound is not reset, so a second Shutdown() unlinks again.
UnlinkStaysBound ==
  /\ path' = IF isBound THEN "none" ELSE path
  /\ UNCHANGED <<memberVars, pollVars, taken>>
  /\ UNCHANGED <<listening, backlog, conn, peer, inbox, sent>>

Unlink ==
  /\ path' = IF isBound THEN "none" ELSE path
  /\ isBound' = FALSE
  /\ UNCHANGED <<sockfd, clientFd, pending, pollVars, taken>>
  /\ UNCHANGED <<listening, backlog, conn, peer, inbox, sent>>

(***************************************************************************)
(* Poll(): poll() the listening socket and the client, accept(), read().   *)
(* The readiness sampled by poll() is used after connections, bytes and    *)
(* hang-ups may have arrived.                                              *)
(***************************************************************************)
Readable(c) == inbox[c] # <<>> \/ ~peer[c]

\* Mutant: connections are left in the queue while a client is attached.
PollServesOne ==
  /\ at = "idle" /\ sockfd = "open"
  /\ revents' = [listener |-> backlog # <<>> /\ clientFd = NoClient,
                 client   |-> clientFd # NoClient /\ Readable(clientFd)]
  /\ at' = "accept"
  /\ UNCHANGED <<memberVars, kernelVars, taken>>

\* Mutant: the client's descriptor is left out of the poll set.
PollListenerOnly ==
  /\ at = "idle" /\ sockfd = "open"
  /\ revents' = [listener |-> backlog # <<>>, client |-> FALSE]
  /\ at' = "accept"
  /\ UNCHANGED <<memberVars, kernelVars, taken>>

\* poll() returned, with descriptors ready or after its timeout.
PollReturns ==
  /\ at = "idle" /\ sockfd = "open"
  /\ revents' = [listener |-> backlog # <<>>,
                 client   |-> clientFd # NoClient /\ Readable(clientFd)]
  /\ at' = "accept"
  /\ UNCHANGED <<memberVars, kernelVars, taken>>

\* poll() failed, or the descriptor is not valid; EINTR is not a failure.
PollFails ==
  /\ at = "idle"
  /\ at' = "failed"
  /\ UNCHANGED <<memberVars, kernelVars, revents, taken>>

PollInterrupted ==
  /\ at = "idle" /\ sockfd = "open"
  /\ UNCHANGED socketVars

\* Mutant: a new connection overwrites m_client_fd.
AcceptOverwrites ==
  /\ at = "accept" /\ revents.listener /\ backlog # <<>>
  /\ backlog' = Tail(backlog)
  /\ clientFd' = Head(backlog)
  /\ conn' = [conn EXCEPT ![Head(backlog)] = "attached"]
  /\ at' = "read"
  /\ UNCHANGED <<sockfd, isBound, pending, revents, taken>>
  /\ UNCHANGED <<path, listening, peer, inbox, sent>>

\* Mutant: the newest connection replaces the client, which is closed.
AcceptReplaces ==
  /\ at = "accept" /\ revents.listener /\ backlog # <<>>
  /\ backlog' = Tail(backlog)
  /\ clientFd' = Head(backlog)
  /\ conn' = [c \in Clients |-> IF c = Head(backlog) THEN "attached"
                                ELSE IF c = clientFd THEN "reset" ELSE conn[c]]
  /\ at' = "read"
  /\ UNCHANGED <<sockfd, isBound, pending, revents, taken>>
  /\ UNCHANGED <<path, listening, peer, inbox, sent>>

\* A connection is refused by closing it when a client is already attached.
Accept ==
  /\ at = "accept" /\ revents.listener /\ backlog # <<>>
  /\ backlog' = Tail(backlog)
  /\ IF clientFd # NoClient
       THEN /\ conn' = [conn EXCEPT ![Head(backlog)] = "refused"]
            /\ UNCHANGED clientFd
       ELSE /\ conn' = [conn EXCEPT ![Head(backlog)] = "attached"]
            /\ clientFd' = Head(backlog)
  /\ at' = "read"
  /\ UNCHANGED <<sockfd, isBound, pending, revents, taken>>
  /\ UNCHANGED <<path, listening, peer, inbox, sent>>

NothingToAccept ==
  /\ at = "accept" /\ ~revents.listener
  /\ at' = "read"
  /\ UNCHANGED <<memberVars, kernelVars, revents, taken>>

\* accept() failed, EINTR included: Poll() returns false.
AcceptFails ==
  /\ at = "accept" /\ revents.listener
  /\ at' = "failed"
  /\ UNCHANGED <<memberVars, kernelVars, revents, taken>>

ClientReady == at = "read" /\ clientFd # NoClient /\ revents.client

\* Mutant: the copy loop runs to the end of the buffer, past the bytes read.
ReadWholeBuffer ==
  /\ ClientReady /\ inbox[clientFd] # <<>>
  /\ \E code \in Codes :
       pending' = pending \o inbox[clientFd] \o <<[from |-> NoClient, code |-> code]>>
  /\ inbox' = [inbox EXCEPT ![clientFd] = <<>>]
  /\ at' = "idle"
  /\ UNCHANGED <<sockfd, isBound, clientFd, revents, taken>>
  /\ UNCHANGED <<path, listening, backlog, conn, peer, sent>>

\* Mutant: the copy loop stops one byte early.
ReadDropsLast ==
  /\ ClientReady /\ inbox[clientFd] # <<>>
  /\ \E n \in 1..ChunkSize :
       /\ n <= Len(inbox[clientFd])
       /\ pending' = pending \o SubSeq(inbox[clientFd], 1, n - 1)
       /\ inbox' = [inbox EXCEPT ![clientFd] = SubSeq(@, n + 1, Len(@))]
  /\ at' = "idle"
  /\ UNCHANGED <<sockfd, isBound, clientFd, revents, taken>>
  /\ UNCHANGED <<path, listening, backlog, conn, peer, sent>>

ReadData ==
  /\ ClientReady /\ inbox[clientFd] # <<>>
  /\ \E n \in 1..ChunkSize :
       /\ n <= Len(inbox[clientFd])
       /\ pending' = pending \o SubSeq(inbox[clientFd], 1, n)
       /\ inbox' = [inbox EXCEPT ![clientFd] = SubSeq(@, n + 1, Len(@))]
  /\ at' = "idle"
  /\ UNCHANGED <<sockfd, isBound, clientFd, revents, taken>>
  /\ UNCHANGED <<path, listening, backlog, conn, peer, sent>>

\* read() returned 0: the client hung up and its bytes are all read.
ReadEof ==
  /\ ClientReady /\ inbox[clientFd] = <<>> /\ ~peer[clientFd]
  /\ Hangup(clientFd, "closed")
  /\ at' = "idle"
  /\ UNCHANGED <<sockfd, isBound, pending, revents, taken>>
  /\ UNCHANGED <<path, listening, backlog, peer, inbox, sent>>

ReadError ==
  /\ ClientReady
  /\ Hangup(clientFd, "reset")
  /\ at' = "idle"
  /\ UNCHANGED <<sockfd, isBound, pending, revents, taken>>
  /\ UNCHANGED <<path, listening, backlog, peer, inbox, sent>>

\* No client is ready, or read() reported EINTR and will be retried.
NothingRead ==
  /\ at = "read"
  /\ at' = "idle"
  /\ UNCHANGED <<memberVars, kernelVars, revents, taken>>

TakeCommand ==
  /\ at = "idle" /\ pending # <<>>
  /\ taken' = Append(taken, Head(pending))
  /\ pending' = Tail(pending)
  /\ UNCHANGED <<sockfd, isBound, clientFd, kernelVars, pollVars>>

(***************************************************************************)
(* The kernel and the client programs (the tray, or any other).  A client  *)
(* that hung up may have bytes waiting; the kernel still delivers them.    *)
(***************************************************************************)
Connect(c) ==
  /\ conn[c] = "idle" /\ path = "mine" /\ listening
  /\ Len(backlog) <= Backlog
  /\ backlog' = Append(backlog, c)
  /\ conn' = [conn EXCEPT ![c] = "queued"]
  /\ peer' = [peer EXCEPT ![c] = TRUE]
  /\ UNCHANGED <<memberVars, path, listening, inbox, sent, pollVars, taken>>

ClientWrites(c, code) ==
  /\ peer[c] /\ conn[c] \in {"queued", "attached"}
  /\ Len(sent[c]) < MaxSent
  /\ LET byte == [from |-> c, code |-> code]
     IN  /\ inbox' = [inbox EXCEPT ![c] = Append(@, byte)]
         /\ sent' = [sent EXCEPT ![c] = Append(@, byte)]
  /\ UNCHANGED <<memberVars, path, listening, backlog, conn, peer, pollVars, taken>>

ClientCloses(c) ==
  /\ peer[c]
  /\ peer' = [peer EXCEPT ![c] = FALSE]
  /\ UNCHANGED <<memberVars, pollVars, taken>>
  /\ UNCHANGED <<path, listening, backlog, conn, inbox, sent>>

\* Another instance binds the path, leaves cleanly, or crashes.
OtherInstance ==
  /\ \/ path = "none"  /\ path' = "other"
     \/ path = "other" /\ path' \in {"none", "stale"}
  /\ UNCHANGED <<memberVars, pollVars, taken>>
  /\ UNCHANGED <<listening, backlog, conn, peer, inbox, sent>>

Environment ==
  \/ \E c \in Clients : \/ Connect(c)
                        \/ \E code \in Codes : ClientWrites(c, code)
                        \/ ClientCloses(c)
  \/ OtherInstance

PollStep ==
  \/ PollReturns \/ PollFails \/ PollInterrupted
  \/ Accept \/ NothingToAccept \/ AcceptFails
  \/ ReadData \/ ReadEof \/ ReadError \/ NothingRead

(***************************************************************************)
(* The socket alone, with one thread that owns it: open it, poll and take  *)
(* commands, shut it down (twice, as the program's exit does).  Shutdown() *)
(* never runs while the thread is inside Poll(); the process may die in it. *)
(***************************************************************************)
SocketNext ==
  \/ at = "idle" /\ (Create \/ Bind \/ Listen)
  \/ listening /\ PollStep
  \/ TakeCommand
  \/ at \in {"idle", "failed"} /\ sockfd # "unset" /\ CloseSockets
  \/ sockfd = "closed" /\ Unlink
  \/ at # "dead" /\ KernelReaps
  \/ Environment
  \/ at = "dead" /\ UNCHANGED socketVars

SocketSpec == SocketInit /\ [][SocketNext]_socketVars

\* The thread keeps calling Poll(), poll() and read() are not interrupted every
\* time, and a failed Poll() is answered by Shutdown(), as PeachWallpaper does.
\* Nothing is owed by the clients.
Serving == listening /\ PollStep

FairSocketSpec ==
  /\ SocketSpec
  /\ WF_socketVars(Serving)
  /\ SF_socketVars(Serving /\ PollReturns)
  /\ SF_socketVars(Serving /\ (ReadData \/ ReadEof))
  /\ WF_socketVars(at = "failed" /\ CloseSockets)

-----------------------------------------------------------------------------
Stream == taken \o pending

\* The bytes of a connection are in the stream once each, in the order they were
\* written and in one piece, without those of another connection in between: all
\* of them if it was not refused or reset, the first ones if it was reset, and
\* none if it was refused.
ArriveInOrder(stream) ==
  \A c \in Clients :
    \E first \in 1..(Len(stream) + 1), last \in 0..Len(stream) :
      /\ SubSeq(stream, first, last) \o inbox[c] = sent[c]
      /\ \A i \in 1..Len(stream) : stream[i].from = c => i \in first..last
      /\ conn[c] = "closed" => inbox[c] = <<>>
      /\ conn[c] = "refused" => last < first

\* What Poll() reads and TakeCommand returns is what the clients sent: the copy
\* loop and m_pending_commands lose, repeat and reorder no byte, however reads
\* are cut and connections come and go.
BytesInOrder == ArriveInOrder(Stream)

\* Every accepted descriptor is either m_client_fd or already closed, so the
\* server never leaks one however connections and hang-ups interleave (Accept,
\* CloseClient, Shutdown).
OneClientDescriptor ==
  /\ \A c \in Clients : conn[c] = "attached" <=> clientFd = c
  /\ sockfd # "open" => \A c \in Clients : conn[c] # "queued"

\* m_client_fd is a blocking descriptor: the readiness poll() reported before
\* the accept() still concerns the same client, so read() returns at once and
\* the thread cannot hang where Shutdown() waits to join it.
ReadNeverBlocks == ClientReady => Readable(clientFd)

\* A Socket that will unlink the path owns it, and a path it owns it will
\* unlink: a second Shutdown() cannot remove the entry of an instance that
\* bound the path in between (m_is_bound in Bind and CloseServer).
UnlinksOwnPath == isBound <=> path = "mine"

\* No connection waits in the accept queue for ever: it is served, refused or
\* reset, even while another client holds the only slot and stays silent.
QueueDrains == \A c \in Clients : conn[c] = "queued" ~> conn[c] # "queued"

\* Every byte the served client has written is read, unless the connection ends
\* first: poll() and accept() never distract the thread from it for ever.
ServedClientIsRead ==
  \A c \in Clients :
    (conn[c] = "attached" /\ inbox[c] # <<>>) ~> (inbox[c] = <<>> \/ conn[c] # "attached")

===========================================================================
