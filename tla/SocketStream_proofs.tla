------------------------ MODULE SocketStream_proofs ------------------------
(***************************************************************************)
(* BytesInOrder of Socket, for every number of connections and bytes and   *)
(* every chunk size.  No client is served twice and one is served at a     *)
(* time, so that the bytes of the client in service are the end of the     *)
(* stream; every other client's stay where they are.                       *)
(***************************************************************************)
EXTENDS Socket_proofs

-----------------------------------------------------------------------------
(* Sequences *)

\* A piece of a sequence is not changed by what is put behind it, and the last
\* piece grows by it.
LEMMA PieceOfLonger ==
  ASSUME NEW S, NEW s \in Seq(S), NEW t \in Seq(S),
         NEW first \in 1..(Len(s) + 1), NEW last \in (first - 1)..Len(s)
  PROVE  /\ SubSeq(s \o t, first, last) = SubSeq(s, first, last)
         /\ last = Len(s) => SubSeq(s \o t, first, Len(s \o t)) = SubSeq(s, first, last) \o t
<1>1. /\ s \o t \in Seq(S) /\ Len(s \o t) = Len(s) + Len(t)
      /\ Len(s) \in Nat /\ Len(t) \in Nat
      /\ \A i \in 1..(Len(s) + Len(t)) : (s \o t)[i] = IF i <= Len(s) THEN s[i] ELSE t[i - Len(s)]
  BY ConcatProperties, LenProperties
<1>2. /\ \A i \in 1..Len(s) : s[i] \in S
      /\ \A i \in 1..Len(s \o t) : (s \o t)[i] \in S
  BY <1>1, ElementOfSeq
<1>. DEFINE piece == SubSeq(s, first, last)
            same  == SubSeq(s \o t, first, last)
            grown == SubSeq(s \o t, first, Len(s \o t))
<1>3. /\ piece \in Seq(S) /\ Len(piece) = last - first + 1
      /\ \A i \in 1..(last - first + 1) : piece[i] = s[first + i - 1]
  <2>1. \A i \in first..last : s[i] \in S
    BY <1>1, <1>2
  <2>2. first \in Int /\ last \in Int /\ Len(piece) = IF first <= last THEN last - first + 1 ELSE 0
    BY <1>1, <2>1, SubSeqProperties
  <2>. QED  BY <1>1, <2>1, <2>2, SubSeqProperties
<1>4. same = piece
  <2>1. \A i \in first..last : (s \o t)[i] \in S
    BY <1>1, <1>2
  <2>2. /\ same \in Seq(S) /\ Len(same) = IF first <= last THEN last - first + 1 ELSE 0
        /\ \A i \in 1..(last - first + 1) : same[i] = (s \o t)[first + i - 1]
    BY <1>1, <2>1, SubSeqProperties
  <2>3. Len(same) = Len(piece)
    BY <1>1, <1>3, <2>2
  <2>4. \A i \in 1..Len(same) : same[i] = piece[i]
    BY <1>1, <1>3, <2>2
  <2>. HIDE DEF piece, same
  <2>. QED  BY <1>3, <2>2, <2>3, <2>4, SeqEqual
<1>5. ASSUME last = Len(s) PROVE grown = piece \o t
  <2>1. \A i \in first..Len(s \o t) : (s \o t)[i] \in S
    BY <1>1, <1>2
  <2>2. /\ grown \in Seq(S) /\ Len(grown) = IF first <= Len(s \o t) THEN Len(s \o t) - first + 1 ELSE 0
        /\ \A i \in 1..(Len(s \o t) - first + 1) : grown[i] = (s \o t)[first + i - 1]
    BY <1>1, <2>1, SubSeqProperties
  <2>. HIDE DEF piece, grown
  <2>3. /\ piece \o t \in Seq(S) /\ Len(piece \o t) = Len(piece) + Len(t)
        /\ \A i \in 1..(Len(piece) + Len(t)) :
             (piece \o t)[i] = IF i <= Len(piece) THEN piece[i] ELSE t[i - Len(piece)]
    BY <1>3, ConcatProperties
  <2>4. Len(grown) = Len(piece \o t)
    <3>1. Len(piece \o t) = Len(s) - first + 1 + Len(t)
      BY <1>3, <1>5, <2>3
    <3>2. Len(grown) = IF first <= Len(s) + Len(t) THEN Len(s) + Len(t) - first + 1 ELSE 0
      BY <1>1, <2>2
    <3>. QED  BY <1>1, <3>1, <3>2
  <2>5. \A i \in 1..Len(grown) : grown[i] = (piece \o t)[i]
    <3>. TAKE i \in 1..Len(grown)
    <3>1. /\ Len(grown) = Len(s) + Len(t) - first + 1 /\ i \in 1..(Len(piece) + Len(t))
          /\ Len(piece) = Len(s) - first + 1
      BY <1>1, <1>3, <1>5, <2>2, <2>3, <2>4
    <3>2. grown[i] = (s \o t)[first + i - 1] /\ first + i - 1 \in 1..(Len(s) + Len(t))
      <4>. DEFINE j == first + i - 1
      <4>1. i \in 1..(Len(s \o t) - first + 1) /\ j \in 1..(Len(s) + Len(t))
        BY <1>1, <3>1
      <4>. QED  BY <2>2, <4>1
    <3>3. CASE i <= Len(piece)
      <4>1. (piece \o t)[i] = piece[i]
        BY <2>3, <3>1, <3>3
      <4>2. piece[i] = s[first + i - 1]
        BY <1>1, <1>3, <1>5, <3>1, <3>3
      <4>3. (s \o t)[first + i - 1] = s[first + i - 1]
        BY <1>1, <3>1, <3>2, <3>3
      <4>. QED  BY <3>2, <4>1, <4>2, <4>3
    <3>4. CASE ~(i <= Len(piece))
      <4>1. (piece \o t)[i] = t[i - Len(piece)]
        BY <2>3, <3>1, <3>4
      <4>2. (s \o t)[first + i - 1] = t[first + i - 1 - Len(s)]
        BY <1>1, <3>1, <3>2, <3>4
      <4>3. first + i - 1 - Len(s) = i - Len(piece)
        BY <1>1, <3>1
      <4>. QED  BY <3>2, <4>1, <4>2, <4>3
    <3>. QED  BY <3>3, <3>4
  <2>. QED  BY <2>2, <2>3, <2>4, <2>5, SeqEqual
<1>. QED  BY <1>4, <1>5

\* The head of the second queue moves to the end of the first (TakeCommand).
LEMMA HeadMovesOver ==
  ASSUME NEW S, NEW s \in Seq(S), NEW t \in Seq(S), t # <<>>
  PROVE  Append(s, Head(t)) \o Tail(t) = s \o t
<1>. DEFINE h == Head(t)
            left == Append(s, h)
            rest == Tail(t)
<1>1. /\ h \in S /\ rest \in Seq(S) /\ Len(rest) = Len(t) - 1 /\ h = t[1]
      /\ \A i \in 1..Len(rest) : rest[i] = t[i + 1]
  BY HeadTailProperties
<1>2. /\ Len(s) \in Nat /\ Len(t) \in Nat \ {0}
  BY LenProperties, EmptySeq
<1>. HIDE DEF h, rest
<1>3. /\ left \in Seq(S) /\ Len(left) = Len(s) + 1
      /\ \A i \in 1..Len(s) : left[i] = s[i]
      /\ left[Len(s) + 1] = h
  BY <1>1, AppendProperties
<1>. HIDE DEF left
<1>4. /\ left \o rest \in Seq(S) /\ Len(left \o rest) = Len(left) + Len(rest)
      /\ \A i \in 1..(Len(left) + Len(rest)) :
           (left \o rest)[i] = IF i <= Len(left) THEN left[i] ELSE rest[i - Len(left)]
  BY <1>1, <1>3, ConcatProperties
<1>5. /\ s \o t \in Seq(S) /\ Len(s \o t) = Len(s) + Len(t)
      /\ \A i \in 1..(Len(s) + Len(t)) : (s \o t)[i] = IF i <= Len(s) THEN s[i] ELSE t[i - Len(s)]
  BY ConcatProperties
<1>6. Len(left \o rest) = Len(s \o t)
  BY <1>1, <1>2, <1>3, <1>4, <1>5
<1>7. \A i \in 1..Len(left \o rest) : (left \o rest)[i] = (s \o t)[i]
  <2>. TAKE i \in 1..Len(left \o rest)
  <2>0. i \in 1..(Len(s) + Len(t)) /\ i \in 1..(Len(left) + Len(rest))
    BY <1>2, <1>4, <1>5, <1>6
  <2>1. CASE i <= Len(s)
    BY <1>2, <1>3, <1>4, <1>5, <2>0, <2>1
  <2>2. CASE i = Len(s) + 1
    BY <1>1, <1>2, <1>3, <1>4, <1>5, <2>0, <2>2
  <2>3. CASE i > Len(s) + 1
    <3>1. (left \o rest)[i] = rest[i - Len(left)] /\ i - Len(left) \in 1..Len(rest)
      BY <1>1, <1>2, <1>3, <1>4, <2>0, <2>3
    <3>2. rest[i - Len(left)] = t[i - Len(s)]
      <4>. DEFINE j == i - Len(left)
      <4>1. j \in 1..Len(rest) /\ j + 1 = i - Len(s)
        BY <1>2, <1>3, <2>0, <3>1
      <4>. HIDE DEF j
      <4>2. rest[j] = t[j + 1]
        BY <1>1, <4>1
      <4>. QED  BY <4>1, <4>2 DEF j
    <3>3. (s \o t)[i] = t[i - Len(s)]
      BY <1>2, <1>5, <2>0, <2>3
    <3>. QED  BY <3>1, <3>2, <3>3
  <2>. QED  BY <1>2, <2>0, <2>1, <2>2, <2>3
<1>8. left \o rest = s \o t
  BY <1>4, <1>5, <1>6, <1>7, SeqEqual
<1>. QED  BY <1>8 DEF left, rest, h

LEMMA AppendIsLast ==
  ASSUME NEW S, NEW s \in Seq(S), NEW t \in Seq(S), NEW e \in S
  PROVE  s \o Append(t, e) = Append(s \o t, e)
<1>1. <<e>> \in Seq(S) /\ s \o t \in Seq(S)
  BY ConcatProperties
<1>2. Append(t, e) = t \o <<e>> /\ Append(s \o t, e) = (s \o t) \o <<e>>
  BY <1>1, AppendIsConcat
<1>. QED  BY <1>1, <1>2, ConcatAssociative

-----------------------------------------------------------------------------
(* The bytes of one connection *)

Segment(c, first, last) ==
  /\ first \in 1..(Len(Stream) + 1) /\ last \in (first - 1)..Len(Stream)
  /\ SubSeq(Stream, first, last) \o inbox[c] = sent[c]
  /\ \A i \in 1..Len(Stream) : Stream[i].from = c => i \in first..last

Untouched(c) ==
  inbox[c] = sent[c] /\ \A i \in 1..Len(Stream) : Stream[i].from # c

StreamOf(c) ==
  /\ \A i \in 1..Len(inbox[c]) : inbox[c][i].from = c
  /\ conn[c] \in {"idle", "queued", "refused"} => Untouched(c)
  /\ conn[c] \in {"attached", "closed", "reset"} =>
       \E first, last \in Nat :
         Segment(c, first, last) /\ (conn[c] = "attached" => last = Len(Stream))
  /\ conn[c] = "closed" => inbox[c] = <<>>

StreamInv == SocketInv /\ \A c \in Clients : StreamOf(c)

LEMMA StreamTyped ==
  ASSUME SocketTypeOK
  PROVE  /\ Stream \in Seq(Byte) /\ Len(Stream) \in Nat
         /\ \A c \in Clients : inbox[c] \in Seq(Byte) /\ sent[c] \in Seq(Byte)
BY ConcatProperties, LenProperties DEF SocketTypeOK, Stream

LEMMA UntouchedIsSegment ==
  ASSUME SocketTypeOK, NEW c \in Clients, Untouched(c)
  PROVE  Segment(c, Len(Stream) + 1, Len(Stream))
<1>1. SubSeq(Stream, Len(Stream) + 1, Len(Stream)) = <<>>
  BY StreamTyped, SubSeqEmpty
<1>2. <<>> \o inbox[c] = inbox[c]
  BY StreamTyped, ConcatEmptySeq
<1>. QED  BY <1>1, <1>2, StreamTyped DEF Untouched, Segment

\* What may become of a connection whose bytes stay where they are.
Turns(c) ==
  \/ conn'[c] = conn[c]
  \/ conn[c] = "idle" /\ conn'[c] = "queued"
  \/ conn[c] = "queued" /\ conn'[c] \in {"attached", "refused", "reset"}
  \/ conn[c] = "attached" /\ conn'[c] = "reset"
  \/ conn[c] = "attached" /\ conn'[c] = "closed" /\ inbox[c] = <<>>

LEMMA StreamRests ==
  ASSUME SocketTypeOK, NEW c \in Clients, StreamOf(c), Turns(c),
         Stream' = Stream, inbox' = inbox, sent' = sent
  PROVE  StreamOf(c)'
<1>1. Untouched(c) => Untouched(c)'
  BY DEF Untouched
<1>2. \A first, last : Segment(c, first, last) => Segment(c, first, last)'
  BY DEF Segment
<1>3. CASE conn[c] \in {"idle", "queued", "refused"}
  <2>1. Untouched(c) /\ Untouched(c)'
    BY <1>1, <1>3 DEF StreamOf
  <2>2. Segment(c, Len(Stream) + 1, Len(Stream))' /\ Len(Stream) \in Nat
    BY <1>2, <2>1, UntouchedIsSegment, StreamTyped
  <2>3. Len(Stream)' = Len(Stream) /\ Len(Stream) + 1 \in Nat
    BY <2>2
  <2>4. conn'[c] # "closed"
    BY <1>3 DEF Turns
  <2>. QED  BY <2>1, <2>2, <2>3, <2>4 DEF StreamOf
<1>4. CASE conn[c] \in {"attached", "closed", "reset"}
  <2>1. PICK first \in Nat, last \in Nat :
          Segment(c, first, last) /\ (conn[c] = "attached" => last = Len(Stream))
    BY <1>4 DEF StreamOf
  <2>2. Segment(c, first, last)' /\ Len(Stream)' = Len(Stream)
    BY <1>2, <2>1
  <2>3. /\ conn'[c] \in {"attached", "closed", "reset"}
        /\ conn'[c] = "attached" => conn[c] = "attached"
        /\ conn'[c] = "closed" => inbox[c] = <<>>
    BY <1>4 DEF Turns, StreamOf
  <2>. QED  BY <2>1, <2>2, <2>3 DEF StreamOf
<1>5. CASE conn[c] \notin ConnStates
  BY <1>5 DEF SocketTypeOK
<1>. QED  BY <1>3, <1>4, <1>5 DEF ConnStates

\* read() takes a chunk of the attached client's buffer to the end of the stream.
LEMMA ReadDataKeepsStream ==
  ASSUME StreamInv, ReadData, NEW c \in Clients
  PROVE  StreamOf(c)'
<1>0. PICK d \in Clients :
        /\ SocketTypeOK /\ clientFd = d /\ conn[d] = "attached"
        /\ \A b \in Clients : conn[b] = "attached" => b = d
  BY SocketAssumption
  DEF StreamInv, SocketInv, SocketTypeOK, OneClientDescriptor, ReadData, ClientReady
<1>1. PICK n \in 1..ChunkSize :
        /\ n <= Len(inbox[d])
        /\ pending' = pending \o SubSeq(inbox[d], 1, n)
        /\ inbox' = [inbox EXCEPT ![d] = SubSeq(inbox[d], n + 1, Len(inbox[d]))]
  BY <1>0 DEF ReadData
<1>. DEFINE chunk == SubSeq(inbox[d], 1, n)
            rest  == SubSeq(inbox[d], n + 1, Len(inbox[d]))
<1>2. /\ inbox[d] \in Seq(Byte) /\ Len(inbox[d]) \in Nat
      /\ n \in 1..Len(inbox[d]) /\ n \in Nat
      /\ Stream \in Seq(Byte) /\ Len(Stream) \in Nat
  BY <1>0, <1>1, StreamTyped, LenProperties, SocketAssumption
<1>3. /\ chunk \in Seq(Byte) /\ rest \in Seq(Byte) /\ chunk \o rest = inbox[d]
  BY <1>2, ChunkOfBuffer
<1>4. /\ Len(chunk) = n /\ \A i \in 1..n : chunk[i].from = d
      /\ \A i \in 1..Len(rest) : rest[i].from = d
  <2>1. \A i \in 1..Len(inbox[d]) : inbox[d][i].from = d /\ inbox[d][i] \in Byte
    BY <1>0, <1>2, ElementOfSeq DEF StreamInv, StreamOf
  <2>2. Len(chunk) = n /\ \A i \in 1..n : chunk[i] = inbox[d][i]
    BY <1>2, <2>1, SubSeqProperties
  <2>3. /\ Len(rest) = IF n + 1 <= Len(inbox[d]) THEN Len(inbox[d]) - n ELSE 0
        /\ \A i \in 1..(Len(inbox[d]) - n) : rest[i] = inbox[d][n + i]
    BY <1>2, <2>1, SubSeqProperties
  <2>4. \A i \in 1..n : chunk[i].from = d
    BY <1>2, <2>1, <2>2
  <2>5. \A i \in 1..Len(rest) : rest[i].from = d
    BY <1>2, <2>1, <2>3
  <2>. QED  BY <2>2, <2>4, <2>5
<1>5. /\ inbox'[d] = rest /\ (c # d => inbox'[c] = inbox[c])
      /\ UNCHANGED <<sent, conn>>
  BY <1>0, <1>1 DEF SocketTypeOK, ReadData
<1>6. Stream' = Stream \o chunk
  <2>1. taken \in Seq(Byte) /\ pending \in Seq(Byte) /\ taken' = taken
    BY <1>0 DEF SocketTypeOK, ReadData
  <2>2. pending' = pending \o chunk
    BY <1>1
  <2>. HIDE DEF chunk
  <2>3. taken \o (pending \o chunk) = (taken \o pending) \o chunk
    <3>1. \A s, t, u \in Seq(Byte) : s \o (t \o u) = (s \o t) \o u
      BY ConcatAssociative
    <3>. QED  BY <1>3, <2>1, <3>1
  <2>. QED  BY <2>1, <2>2, <2>3 DEF Stream
<1>. HIDE DEF chunk, rest
<1>7. /\ Len(Stream)' = Len(Stream) + n
      /\ \A i \in 1..(Len(Stream) + n) :
           Stream'[i] = IF i <= Len(Stream) THEN Stream[i] ELSE chunk[i - Len(Stream)]
  BY <1>2, <1>3, <1>4, <1>6, ConcatProperties
<1>8. \A i \in 1..(Len(Stream) + n) : i > Len(Stream) => Stream'[i].from = d
  <2>. TAKE i \in 1..(Len(Stream) + n)
  <2>. HAVE i > Len(Stream)
  <2>1. i - Len(Stream) \in 1..n /\ Stream'[i] = chunk[i - Len(Stream)]
    BY <1>2, <1>7
  <2>. QED  BY <1>4, <2>1
<1>9. CASE c = d
  <2>1. PICK first \in Nat, last \in Nat : Segment(d, first, last) /\ last = Len(Stream)
    BY <1>0 DEF StreamInv, StreamOf
  <2>2. first \in 1..(Len(Stream) + 1) /\ last \in (first - 1)..Len(Stream)
    BY <2>1 DEF Segment
  <2>. DEFINE old == SubSeq(Stream, first, last)
  <2>3. old \in Seq(Byte)
    <3>1. \A i \in first..last : Stream[i] \in Byte
      BY <1>2, <2>2, ElementOfSeq
    <3>. QED  BY <1>2, <2>2, <3>1, SubSeqProperties
  <2>4. SubSeq(Stream', first, Len(Stream)') = old \o chunk
    BY <1>2, <1>3, <1>6, <2>1, <2>2, PieceOfLonger
  <2>5. old \o inbox[d] = sent[d]
    BY <2>1 DEF Segment
  <2>. HIDE DEF old
  <2>6. (old \o chunk) \o rest = sent[d]
    <3>1. \A s, t, u \in Seq(Byte) : (s \o t) \o u = s \o (t \o u)
      BY ConcatAssociative
    <3>2. (old \o chunk) \o rest = old \o (chunk \o rest)
      BY <1>3, <2>3, <3>1
    <3>. QED  BY <1>3, <2>5, <3>2
  <2>7. PICK end \in Nat : end = Len(Stream) + n
    BY <1>2
  <2>8. \A i \in 1..end : Stream'[i].from = d => i \in first..end
    <3>. TAKE i \in 1..end
    <3>. HAVE Stream'[i].from = d
    <3>1. CASE i <= Len(Stream)
      <4>1. Stream'[i] = Stream[i] /\ i \in 1..Len(Stream)
        BY <1>2, <1>7, <2>7, <3>1
      <4>2. i \in first..last
        BY <2>1, <4>1 DEF Segment
      <4>. QED  BY <1>2, <2>1, <2>2, <2>7, <4>2
    <3>2. CASE i > Len(Stream)
      BY <1>2, <2>1, <2>2, <2>7, <3>2
    <3>. QED  BY <1>2, <3>1, <3>2
  <2>9. SubSeq(Stream', first, end) \o inbox'[d] = sent'[d]
    BY <1>5, <1>7, <2>4, <2>6, <2>7
  <2>10. first \in 1..(Len(Stream') + 1) /\ end \in (first - 1)..Len(Stream')
    BY <1>2, <1>7, <2>1, <2>2, <2>7
  <2>11. Segment(d, first, end)' /\ end = Len(Stream)'
    BY <1>7, <2>7, <2>8, <2>9, <2>10 DEF Segment
  <2>12. /\ conn'[d] = "attached"
         /\ \A i \in 1..Len(inbox'[d]) : inbox'[d][i].from = d
    BY <1>0, <1>4, <1>5
  <2>. QED  BY <1>9, <2>11, <2>12 DEF StreamOf
<1>10. CASE c # d
  <2>1. conn[c] # "attached" /\ StreamOf(c)
    BY <1>0, <1>10 DEF StreamInv
  <2>2. Untouched(c) => Untouched(c)'
    BY <1>2, <1>5, <1>7, <1>8, <1>10 DEF Untouched
  <2>3. ASSUME NEW first \in Nat, NEW last \in Nat, Segment(c, first, last)
        PROVE  Segment(c, first, last)'
    <3>1. first \in 1..(Len(Stream) + 1) /\ last \in (first - 1)..Len(Stream)
      BY <2>3 DEF Segment
    <3>2. SubSeq(Stream', first, last) = SubSeq(Stream, first, last)
      BY <1>2, <1>3, <1>6, <3>1, PieceOfLonger
    <3>3. \A i \in 1..Len(Stream') : Stream'[i].from = c => i \in first..last
      <4>. TAKE i \in 1..Len(Stream')
      <4>. HAVE Stream'[i].from = c
      <4>1. i \in 1..Len(Stream) /\ Stream'[i] = Stream[i]
        BY <1>2, <1>7, <1>8, <1>10
      <4>. QED  BY <2>3, <4>1 DEF Segment
    <3>4. first \in 1..(Len(Stream') + 1) /\ last \in (first - 1)..Len(Stream')
      BY <1>2, <1>7, <3>1
    <3>5. SubSeq(Stream', first, last) \o inbox'[c] = sent'[c]
      BY <1>5, <1>10, <2>3, <3>2 DEF Segment
    <3>. QED  BY <3>3, <3>4, <3>5 DEF Segment
  <2>. QED  BY <1>5, <1>10, <2>1, <2>2, <2>3 DEF StreamOf
<1>. QED  BY <1>9, <1>10

\* A byte is written behind what is waiting in the receive buffer.
LEMMA WriteKeepsStream ==
  ASSUME StreamInv, NEW d \in Clients, NEW code \in Codes, ClientWrites(d, code),
         NEW c \in Clients
  PROVE  StreamOf(c)'
<1>. DEFINE byte == [from |-> d, code |-> code]
<1>1. /\ SocketTypeOK /\ conn[d] \in {"queued", "attached"} /\ UNCHANGED <<conn, Stream>>
      /\ inbox' = [inbox EXCEPT ![d] = Append(inbox[d], byte)]
      /\ sent' = [sent EXCEPT ![d] = Append(sent[d], byte)]
  BY DEF StreamInv, SocketInv, ClientWrites, Stream, memberVars
<1>2. byte \in Byte /\ byte.from = d
  BY DEF Byte
<1>. HIDE DEF byte
<1>3. StreamOf(c)
  BY DEF StreamInv
<1>4. CASE c # d
  <2>1. inbox'[c] = inbox[c] /\ sent'[c] = sent[c]
    BY <1>1, <1>4 DEF SocketTypeOK
  <2>2. Untouched(c) => Untouched(c)'
    BY <1>1, <2>1 DEF Untouched
  <2>3. \A first, last : Segment(c, first, last) => Segment(c, first, last)'
    BY <1>1, <2>1 DEF Segment
  <2>. QED  BY <1>1, <1>3, <2>1, <2>2, <2>3 DEF StreamOf
<1>5. CASE c = d
  <2>1. inbox'[c] = Append(inbox[c], byte) /\ sent'[c] = Append(sent[c], byte)
    BY <1>1, <1>5 DEF SocketTypeOK
  <2>2. inbox[c] \in Seq(Byte) /\ sent[c] \in Seq(Byte) /\ Stream \in Seq(Byte)
    BY <1>1, StreamTyped
  <2>3. \A i \in 1..Len(inbox'[c]) : inbox'[c][i].from = c
    <3>1. /\ Len(inbox'[c]) = Len(inbox[c]) + 1 /\ Len(inbox[c]) \in Nat
          /\ \A i \in 1..Len(inbox[c]) : inbox'[c][i] = inbox[c][i]
          /\ inbox'[c][Len(inbox[c]) + 1] = byte
      BY <1>2, <2>1, <2>2, AppendProperties, LenProperties
    <3>. QED  BY <1>2, <1>3, <1>5, <3>1 DEF StreamOf
  <2>4. Untouched(c) => Untouched(c)'
    BY <1>1, <2>1 DEF Untouched
  <2>5. ASSUME NEW first \in Nat, NEW last \in Nat, Segment(c, first, last)
        PROVE  Segment(c, first, last)'
    <3>1. first \in 1..(Len(Stream) + 1) /\ last \in (first - 1)..Len(Stream)
          /\ SubSeq(Stream, first, last) \o inbox[c] = sent[c]
      BY <2>5 DEF Segment
    <3>2. SubSeq(Stream, first, last) \in Seq(Byte)
      <4>1. \A i \in first..last : Stream[i] \in Byte
        BY <2>2, <3>1, ElementOfSeq, LenProperties
      <4>. QED  BY <4>1, SubSeqProperties
    <3>3. SubSeq(Stream, first, last) \o inbox'[c] = sent'[c]
      <4>. DEFINE piece == SubSeq(Stream, first, last)
                  box   == inbox[c]
      <4>1. piece \in Seq(Byte) /\ box \in Seq(Byte)
        BY <2>2, <3>2
      <4>. HIDE DEF piece, box
      <4>2. piece \o Append(box, byte) = Append(piece \o box, byte)
        BY <1>2, <4>1, AppendIsLast
      <4>. QED  BY <2>1, <3>1, <4>2 DEF piece, box
    <3>. QED  BY <1>1, <2>5, <3>3 DEF Segment
  <2>. QED  BY <1>1, <1>3, <1>5, <2>3, <2>4, <2>5 DEF StreamOf
<1>. QED  BY <1>4, <1>5

\* Every other step leaves the bytes where they are.
LEMMA OtherStepsTurn ==
  ASSUME SocketInv, NEW c \in Clients,
         \/ UNCHANGED socketVars
         \/ Create \/ Bind \/ Listen \/ CloseSockets \/ Unlink \/ KernelReaps
         \/ PollReturns \/ PollFails \/ PollInterrupted \/ Accept \/ NothingToAccept
         \/ AcceptFails \/ ReadEof \/ ReadError \/ NothingRead \/ TakeCommand
         \/ (\E d \in Clients : Connect(d) \/ ClientCloses(d)) \/ OtherInstance
  PROVE  Turns(c) /\ Stream' = Stream /\ inbox' = inbox /\ sent' = sent
<1>. USE DEF socketVars, memberVars, kernelVars, pollVars
<1>1. CASE TakeCommand
  <2>1. Append(taken, Head(pending)) \o Tail(pending) = taken \o pending
    BY <1>1, HeadMovesOver DEF TakeCommand, SocketInv, SocketTypeOK
  <2>. QED  BY <1>1, <2>1 DEF TakeCommand, Stream, Turns
<1>2. CASE Accept
  <2>1. /\ backlog \in Seq(Clients) /\ backlog # <<>>
        /\ Head(backlog) = backlog[1] /\ Head(backlog) \in Clients /\ Len(backlog) \in Nat \ {0}
    BY <1>2, HeadTailProperties, EmptySeq, LenProperties DEF Accept, SocketInv, SocketTypeOK
  <2>2. conn[Head(backlog)] = "queued"
    BY <2>1 DEF SocketInv, QueueIsQueued
  <2>3. /\ c # Head(backlog) => conn'[c] = conn[c]
        /\ conn'[Head(backlog)] \in {"attached", "refused"}
    BY <1>2, <2>1 DEF Accept, SocketInv, SocketTypeOK
  <2>. QED  BY <1>2, <2>2, <2>3 DEF Accept, Stream, Turns
<1>3. CASE ReadEof \/ ReadError
  <2>1. /\ clientFd \in Clients /\ conn[clientFd] = "attached"
        /\ UNCHANGED <<pending, taken, inbox, sent>>
    BY <1>3, SocketAssumption
    DEF ReadEof, ReadError, ClientReady, SocketInv, SocketTypeOK, OneClientDescriptor
  <2>2. /\ c # clientFd => conn'[c] = conn[c]
        /\ \/ conn'[clientFd] = "reset"
           \/ conn'[clientFd] = "closed" /\ inbox[clientFd] = <<>>
    BY <1>3, <2>1 DEF ReadEof, ReadError, Hangup, SocketInv, SocketTypeOK
  <2>. QED  BY <2>1, <2>2 DEF Stream, Turns
<1>4. CASE CloseSockets \/ KernelReaps
  BY <1>4 DEF CloseSockets, KernelReaps, KernelCloses, Stream, Turns
<1>5. CASE \E d \in Clients : Connect(d)
  BY <1>5 DEF Connect, SocketInv, SocketTypeOK, Stream, Turns
<1>6. CASE \/ UNCHANGED socketVars \/ Create \/ Bind \/ Listen \/ Unlink
           \/ PollReturns \/ PollFails \/ PollInterrupted \/ NothingToAccept \/ AcceptFails
           \/ NothingRead \/ (\E d \in Clients : ClientCloses(d)) \/ OtherInstance
  BY <1>6
  DEF Create, Bind, Listen, Unlink, PollReturns, PollFails, PollInterrupted, NothingToAccept,
      AcceptFails, NothingRead, ClientCloses, OtherInstance, Stream, Turns
<1>. QED  BY <1>1, <1>2, <1>3, <1>4, <1>5, <1>6

-----------------------------------------------------------------------------
(* The theorem *)

LEMMA StreamInvInit == SocketInit => StreamInv
<1>. SUFFICES ASSUME SocketInit PROVE StreamInv
  OBVIOUS
<1>1. SocketInv
  BY SocketInvInit
<1>2. taken = <<>> /\ pending = <<>> /\ Len(<<>>) = 0 /\ <<>> \in Seq(Byte)
  BY EmptySeq DEF SocketInit
<1>3. Len(Stream) = 0
  BY <1>2, ConcatEmptySeq DEF Stream
<1>4. \A c \in Clients : inbox[c] = <<>> /\ sent[c] = <<>> /\ conn[c] = "idle"
  BY DEF SocketInit
<1>5. ASSUME NEW c \in Clients PROVE Untouched(c)
  <2>1. inbox[c] = sent[c]
    BY <1>4
  <2>2. \A i \in 1..Len(Stream) : Stream[i].from # c
    BY <1>3
  <2>. QED  BY <2>1, <2>2 DEF Untouched
<1>. QED  BY <1>1, <1>2, <1>4, <1>5 DEF StreamInv, StreamOf

LEMMA StreamInvariance == SocketSpec => []StreamInv
<1>1. SocketInv /\ SocketInv' /\ StreamInv /\ [SocketNext]_socketVars => StreamInv'
  <2>. SUFFICES ASSUME SocketInv, SocketInv', StreamInv, [SocketNext]_socketVars,
                       NEW c \in Clients
                PROVE  StreamOf(c)'
    BY DEF StreamInv
  <2>1. CASE ReadData
    BY <2>1, ReadDataKeepsStream
  <2>2. CASE \E d \in Clients, code \in Codes : ClientWrites(d, code)
    BY <2>2, WriteKeepsStream
  <2>3. CASE \/ UNCHANGED socketVars
             \/ Create \/ Bind \/ Listen \/ CloseSockets \/ Unlink \/ KernelReaps
             \/ PollReturns \/ PollFails \/ PollInterrupted \/ Accept \/ NothingToAccept
             \/ AcceptFails \/ ReadEof \/ ReadError \/ NothingRead \/ TakeCommand
             \/ (\E d \in Clients : Connect(d) \/ ClientCloses(d)) \/ OtherInstance
    <3>1. Turns(c) /\ Stream' = Stream /\ inbox' = inbox /\ sent' = sent
      BY <2>3, OtherStepsTurn
    <3>2. SocketTypeOK /\ StreamOf(c)
      BY DEF SocketInv, StreamInv
    <3>. QED  BY <3>1, <3>2, StreamRests
  <2>. QED  BY <2>1, <2>2, <2>3 DEF SocketNext, PollStep, Environment
<1>. QED  BY <1>1, StreamInvInit, SocketInvariance, PTL DEF SocketSpec

\* Whatever the number of connections, bytes and queued commands, and however
\* reads are cut, the bytes of a connection arrive once, in order and in one
\* piece; all of them if it ended orderly, none if it was refused.
THEOREM BytesArriveInOrder == SocketSpec => []BytesInOrder
<1>1. StreamInv => BytesInOrder
  <2>. SUFFICES ASSUME StreamInv, NEW c \in Clients
                PROVE  \E first \in 1..(Len(Stream) + 1), last \in 0..Len(Stream) :
                         /\ SubSeq(Stream, first, last) \o inbox[c] = sent[c]
                         /\ \A i \in 1..Len(Stream) : Stream[i].from = c => i \in first..last
                         /\ conn[c] = "closed" => inbox[c] = <<>>
                         /\ conn[c] = "refused" => last < first
    BY DEF BytesInOrder, ArriveInOrder
  <2>1. SocketTypeOK /\ StreamOf(c) /\ Len(Stream) \in Nat /\ conn[c] \in ConnStates
    BY StreamTyped DEF StreamInv, SocketInv, SocketTypeOK
  <2>2. CASE conn[c] \in {"idle", "queued", "refused"}
    <3>1. Untouched(c) /\ conn[c] # "closed"
      BY <2>1, <2>2 DEF StreamOf
    <3>2. Segment(c, Len(Stream) + 1, Len(Stream))
      BY <2>1, <3>1, UntouchedIsSegment
    <3>3. Len(Stream) + 1 \in 1..(Len(Stream) + 1) /\ Len(Stream) \in 0..Len(Stream)
          /\ Len(Stream) < Len(Stream) + 1
      BY <2>1
    <3>. USE <3>3
    <3>. WITNESS Len(Stream) + 1 \in 1..(Len(Stream) + 1), Len(Stream) \in 0..Len(Stream)
    <3>. QED  BY <3>1, <3>2, <3>3 DEF Segment
  <2>3. CASE conn[c] \in {"attached", "closed", "reset"}
    <3>1. PICK first \in Nat, last \in Nat : Segment(c, first, last)
      BY <2>1, <2>3 DEF StreamOf
    <3>2. first \in 1..(Len(Stream) + 1) /\ last \in 0..Len(Stream)
      BY <2>1, <3>1 DEF Segment
    <3>3. (conn[c] = "closed" => inbox[c] = <<>>) /\ conn[c] # "refused"
      BY <2>1, <2>3 DEF StreamOf
    <3>. USE <3>2
    <3>. WITNESS first \in 1..(Len(Stream) + 1), last \in 0..Len(Stream)
    <3>. QED  BY <3>1, <3>2, <3>3 DEF Segment
  <2>. QED  BY <2>1, <2>2, <2>3 DEF ConnStates
<1>. QED  BY <1>1, StreamInvariance, PTL

=============================================================================
