---------------------------- MODULE WindowSystem ----------------------------
(***************************************************************************)
(* What the runtime can rely on of a WindowSystemBackend: once opened it   *)
(* has a surface or has already lost it, events resize the surface or take *)
(* it away for good, and closing takes it away as well.                    *)
(***************************************************************************)
CONSTANTS Sizes,   \* sizes a surface may have
          Unsized  \* no configure has arrived

VARIABLES open,    \* between Initialize() and Shutdown()
          surface, \* the native window handle is not null
          size     \* GetSurfaceWidth(), GetSurfaceHeight()

wsVars == <<open, surface, size>>

WsInit == open = FALSE /\ surface = FALSE /\ size = Unsized

WsOpen ==
  /\ ~open /\ open' = TRUE
  /\ surface' \in BOOLEAN /\ size' \in Sizes \cup {Unsized}

WsResize ==
  /\ open /\ surface /\ size' \in Sizes
  /\ UNCHANGED <<open, surface>>

WsLose ==
  /\ open /\ surface /\ surface' = FALSE
  /\ UNCHANGED <<open, size>>

WsClose ==
  /\ open /\ open' = FALSE
  /\ surface' = FALSE /\ size' = Unsized

WsNext == WsOpen \/ WsResize \/ WsLose \/ WsClose

WsSpec == WsInit /\ [][WsNext]_wsVars

=============================================================================
