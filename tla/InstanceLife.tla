---------------------------- MODULE InstanceLife ----------------------------
(***************************************************************************)
(* What other programs see of one running wallpaper: how far it has come   *)
(* and who owns the socket's path.  It owns the path from bind() until it  *)
(* has closed its descriptors and removed the entry itself; one that dies  *)
(* in between leaves a stale entry, which no instance ever removes.        *)
(***************************************************************************)
VARIABLES phase, \* of this instance
          path,  \* "none", "mine", "other" or "stale"
          open   \* its socket accepts connections

lifeVars == <<phase, path, open>>

Phases == {"booting", "bound", "listening", "serving", "stopping", "closed", "leaving", "gone"}

LifeInit ==
  /\ phase = "booting" /\ path \in {"none", "other", "stale"}
  /\ open = FALSE

Passes(from, to) == phase = from /\ phase' = to

Binds   == Passes("booting", "bound") /\ path = "none" /\ path' = "mine" /\ UNCHANGED open
Listens == Passes("bound", "listening") /\ open' = TRUE /\ UNCHANGED path
Serves  == Passes("listening", "serving") /\ UNCHANGED <<path, open>>
Ends    == Passes("serving", "stopping") /\ UNCHANGED <<path, open>>
Closes  == Passes("stopping", "closed") /\ open' = FALSE /\ UNCHANGED path
Unlinks == Passes("closed", "leaving") /\ path = "mine" /\ path' = "none" /\ UNCHANGED open
Exits   == Passes("leaving", "gone") /\ UNCHANGED <<path, open>>

Dies ==
  /\ phase # "gone" /\ phase' = "gone" /\ open' = FALSE
  /\ path' = IF path = "mine" THEN "stale" ELSE path

OthersMove ==
  /\ \/ path = "none"  /\ path' = "other"
     \/ path = "other" /\ path' \in {"none", "stale"}
  /\ UNCHANGED <<phase, open>>

LifeNext ==
  \/ Binds \/ Listens \/ Serves \/ Ends \/ Closes \/ Unlinks \/ Exits
  \/ Dies \/ OthersMove

LifeSpec == LifeInit /\ [][LifeNext]_lifeVars

=============================================================================
