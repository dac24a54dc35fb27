-------------------------- MODULE CommandService --------------------------
(***************************************************************************)
(* What the running wallpaper promises to whoever writes to its socket:    *)
(* the bytes it reads form one queue, every byte is handled at most once   *)
(* and in the order it was read, and once the service has stopped - told   *)
(* to by a stop command or on a failure - it never comes back.             *)
(***************************************************************************)
EXTENDS Naturals, Sequences

CONSTANTS Byte,      \* commands: records with a field "code"
          ChunkSize  \* most commands that arrive at once

Stop == 1

VARIABLES queue,    \* commands read and not handled yet
          handled,  \* commands handled
          live      \* the service has not stopped

svcVars == <<queue, handled, live>>

SvcInit == queue = <<>> /\ handled = <<>> /\ live = TRUE

Receive ==
  /\ \E n \in 1..ChunkSize : \E chunk \in [1..n -> Byte] : queue' = queue \o chunk
  /\ UNCHANGED <<handled, live>>

Handle ==
  /\ queue # <<>>
  /\ handled' = Append(handled, Head(queue))
  /\ queue' = Tail(queue)
  /\ live' = (live /\ Head(queue).code # Stop)

Fail ==
  /\ live' = FALSE
  /\ UNCHANGED <<queue, handled>>

SvcNext == Receive \/ Handle \/ Fail

SvcSpec == SvcInit /\ [][SvcNext]_svcVars

============================================================================
