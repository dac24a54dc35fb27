----------------------- MODULE WaylandBackend_proofs -----------------------
(***************************************************************************)
(* Theorems about WaylandBackend, for every set of outputs and sizes and   *)
(* any number of unread events: what the members hold through every        *)
(* dispatch and both shutdowns, the read intention, and that the backend   *)
(* implements WindowSystem.                                                *)
(***************************************************************************)
EXTENDS WaylandBackend, TLAPS

BackendInv == TypeOK /\ MemberInv /\ ReadsPaired

-----------------------------------------------------------------------------
(* Members and proxies *)

\* Nothing is made or destroyed, and the call in progress still has a display.
LEMMA MembersRest ==
  ASSUME MemberInv, UNCHANGED <<member, alive>>,
         step' \in {"refused", "destroy", "down"} \/ step \notin {"connect", "refused", "destroy", "down"}
         \/ UNCHANGED step
  PROVE  MemberInv'
BY DEF MemberInv, OwnKind, NoDangling, LayerHeld, DisplayHeld

\* The slots are apart, and so are the proxies they hold.
LEMMA ProxiesApart ==
  ASSUME OwnKind, NEW s \in Slots, NEW t \in Slots, s # t, member[s] # Null
  PROVE  member[s] # member[t]
BY WaylandAssumption DEF OwnKind, Slots, Null

LEMMA GlobalKeepsMembers ==
  ASSUME TypeOK, MemberInv, NEW g \in Globals, Global(g), UNCHANGED step,
         step \notin {"connect", "refused", "destroy", "down"}
  PROVE  MemberInv' /\ member' \in [Slots -> Proxies \cup {Null}] /\ alive' \subseteq Proxies
<1>. DEFINE slot == SlotOf(g)
<1>1. slot \in {"compositor", "layer_shell", "output"} /\ (slot # "output" => slot = g)
  BY DEF SlotOf, Globals
<1>2. slot = "output" => g \in Outputs
  BY WaylandAssumption DEF SlotOf, Globals, Slots
<1>3. g \in Proxies /\ g # Null
  BY WaylandAssumption DEF Globals, Proxies, Slots, Null
<1>4. /\ member' = [member EXCEPT ![slot] = g] /\ alive' = alive \cup {g}
      /\ member \in [Slots -> Proxies \cup {Null}] /\ alive \subseteq Proxies
      /\ slot \in Slots
  BY <1>1 DEF Global, TypeOK, Slots
<1>. HIDE DEF slot
<1>5. \A s \in Slots : member'[s] = IF s = slot THEN g ELSE member[s]
  BY <1>4
<1>6. OwnKind' /\ NoDangling'
  BY <1>1, <1>2, <1>4, <1>5 DEF MemberInv, OwnKind, NoDangling, Slots
<1>7. LayerHeld'
  <2>1. g # "layer_surface"
    BY WaylandAssumption DEF Globals, Slots
  <2>. QED  BY <1>1, <1>4, <1>5, <2>1 DEF MemberInv, LayerHeld, Slots
<1>8. DisplayHeld'
  BY <1>1, <1>5 DEF MemberInv, DisplayHeld, Slots
<1>. QED  BY <1>3, <1>4, <1>6, <1>7, <1>8 DEF MemberInv

LEMMA ClosedKeepsMembers ==
  ASSUME TypeOK, MemberInv, LayerSurfaceClosed, UNCHANGED step
  PROVE  MemberInv' /\ member' \in [Slots -> Proxies \cup {Null}] /\ alive' \subseteq Proxies
<1>1. CASE UNCHANGED <<memberVars, alive, sync>>
  BY <1>1, MembersRest DEF memberVars, TypeOK
<1>2. CASE /\ "layer_surface" \in alive
           /\ member' = [member EXCEPT !["layer_surface"] = Null, !["surface"] = Null]
           /\ alive' = alive \ {"layer_surface", member["surface"]}
  <2>1. member["surface"] = "surface" /\ member["display"] = "display"
    BY <1>2 DEF MemberInv, LayerHeld, DisplayHeld, Slots, Null
  <2>2. member' \in [Slots -> Proxies \cup {Null}] /\ alive' \subseteq Proxies
    BY <1>2 DEF TypeOK
  <2>3. \A s \in Slots : member'[s] = IF s \in {"layer_surface", "surface"} THEN Null ELSE member[s]
    BY <1>2 DEF TypeOK
  <2>4. OwnKind' /\ LayerHeld' /\ DisplayHeld'
    BY <1>2, <2>1, <2>3 DEF MemberInv, OwnKind, LayerHeld, DisplayHeld, Slots
  <2>5. NoDangling'
    BY <1>2, <2>1, <2>3, WaylandAssumption DEF MemberInv, OwnKind, NoDangling, Slots, Null
  <2>. QED  BY <2>2, <2>4, <2>5 DEF MemberInv
<1>. QED  BY <1>1, <1>2 DEF LayerSurfaceClosed

LEMMA MadeKeepsMembers ==
  ASSUME TypeOK, MemberInv, NEW slots \in SUBSET (Slots \ {"output"}), Made(slots),
         "layer_surface" \in slots => "surface" \in slots,
         "display" \in slots \/ member["display"] = "display"
  PROVE  MemberInv' /\ member' \in [Slots -> Proxies \cup {Null}] /\ alive' \subseteq Proxies
<1>1. \A s \in Slots : member'[s] = IF s \in slots THEN s ELSE member[s]
  BY DEF Made
<1>2. alive' = alive \cup slots /\ slots \subseteq Proxies /\ alive \subseteq Proxies
  BY DEF Made, Proxies, TypeOK
<1>3. member' \in [Slots -> Proxies \cup {Null}]
  BY <1>2 DEF Made, TypeOK
<1>4. OwnKind' /\ NoDangling'
  BY <1>1, <1>2 DEF MemberInv, OwnKind, NoDangling, Slots
<1>5. LayerHeld'
  BY <1>1, <1>2 DEF MemberInv, LayerHeld, Slots
<1>6. DisplayHeld'
  BY <1>1 DEF DisplayHeld, Slots
<1>. QED  BY <1>2, <1>3, <1>4, <1>5, <1>6 DEF MemberInv

\* One destroy call: everything the destroyed proxy is a parent of went before.
LEMMA DestroyKeepsMembers ==
  ASSUME TypeOK, MemberInv, DestroyWaylandObjects
  PROVE  MemberInv' /\ member' \in [Slots -> Proxies \cup {Null}] /\ alive' \subseteq Proxies
<1>0. DOMAIN DestroyOrder = 1..7
  BY DEF DestroyOrder
<1>1. PICK i \in 1..7 :
        /\ member[DestroyOrder[i]] # Null
        /\ \A j \in 1..(i - 1) : member[DestroyOrder[j]] = Null
        /\ alive' = alive \ {member[DestroyOrder[i]]}
        /\ member' = [member EXCEPT ![DestroyOrder[i]] = Null]
  BY <1>0 DEF DestroyWaylandObjects
<1>. DEFINE slot == DestroyOrder[i]
<1>2. slot \in Slots
  BY DEF DestroyOrder, Slots
<1>3. /\ i > 1 => member["layer_surface"] = Null
      /\ i = 7 => \A s \in Slots \ {"display"} : member[s] = Null
      /\ (i = 1 <=> slot = "layer_surface") /\ (i = 7 <=> slot = "display")
  <2>1. i > 1 => member["layer_surface"] = Null
    <3>1. i > 1 => 1 \in 1..(i - 1)
      OBVIOUS
    <3>2. DestroyOrder[1] = "layer_surface"
      BY DEF DestroyOrder
    <3>. QED  BY <1>1, <3>1, <3>2
  <2>2. i = 7 => \A s \in Slots \ {"display"} : member[s] = Null
    <3>1. \A s \in Slots \ {"display"} : \E j \in 1..6 : DestroyOrder[j] = s
      BY DEF DestroyOrder, Slots
    <3>. QED  BY <1>1, <3>1
  <2>3. (i = 1 <=> slot = "layer_surface") /\ (i = 7 <=> slot = "display")
    BY DEF DestroyOrder
  <2>. QED  BY <2>1, <2>2, <2>3
<1>4. /\ member[slot] # Null /\ alive' = alive \ {member[slot]}
      /\ member' = [member EXCEPT ![slot] = Null] /\ step' = "destroy"
  BY <1>1 DEF DestroyWaylandObjects
<1>. HIDE DEF slot
<1>5. \A s \in Slots : member'[s] = IF s = slot THEN Null ELSE member[s]
  BY <1>4 DEF TypeOK
<1>6. member' \in [Slots -> Proxies \cup {Null}] /\ alive' \subseteq Proxies
  BY <1>4 DEF TypeOK
<1>7. OwnKind'
  BY <1>5 DEF MemberInv, OwnKind, Slots
<1>8. NoDangling'
  <2>1. SUFFICES ASSUME NEW s \in Slots, s # slot, member[s] # Null
                 PROVE  member[s] \in alive'
    BY <1>5 DEF NoDangling
  <2>2. member[s] # member[slot] /\ member[s] \in alive
    BY <1>2, <2>1, ProxiesApart DEF MemberInv, NoDangling
  <2>. QED  BY <1>4, <2>2
<1>9. LayerHeld'
  <2>1. CASE slot = "layer_surface"
    <3>1. member[slot] = "layer_surface"
      BY <1>2, <1>4, <2>1 DEF MemberInv, OwnKind
    <3>. QED  BY <1>4, <3>1 DEF LayerHeld
  <2>2. CASE slot # "layer_surface"
    <3>1. member["layer_surface"] = Null
      BY <1>3, <2>2
    <3>2. "layer_surface" \notin alive
      BY <3>1 DEF MemberInv, LayerHeld, Null
    <3>. QED  BY <1>4, <3>2 DEF LayerHeld
  <2>. QED  BY <2>1, <2>2
<1>10. DisplayHeld'
  <2>1. CASE slot = "display"
    BY <1>3, <1>4, <1>5, <2>1 DEF DisplayHeld
  <2>2. CASE slot # "display"
    BY <1>4, <1>5, <2>2 DEF MemberInv, DisplayHeld, Slots
  <2>. QED  BY <2>1, <2>2
<1>. QED  BY <1>6, <1>7, <1>8, <1>9, <1>10 DEF MemberInv

-----------------------------------------------------------------------------
(* Types and the read intention *)

DispatchSteps == {"drain", "dispatch"} \cup RoundSteps

LEMMA DispatchKeepsInv ==
  ASSUME BackendInv, DispatchEvent, UNCHANGED step, step \in DispatchSteps
  PROVE  BackendInv'
<1>1. step \notin {"connect", "refused", "destroy", "down"}
  BY DEF DispatchSteps, RoundSteps
<1>2. /\ queue' \in Seq(Event) /\ Head(queue) \in Event
      /\ UNCHANGED <<step, prepared, error, wire, connection, announced>>
  BY DEF BackendInv, TypeOK, DispatchEvent, serverVars
<1>3. /\ MemberInv' /\ member' \in [Slots -> Proxies \cup {Null}] /\ alive' \subseteq Proxies
      /\ size' \in Sizes \cup {Unsized} /\ initialized' \in BOOLEAN
      /\ sync' \in {"none", "asked", "answered", "done"}
  <2>1. CASE Head(queue) \in Globals /\ Global(Head(queue))
    BY <1>1, <1>2, <2>1, GlobalKeepsMembers DEF BackendInv, TypeOK, Global
  <2>2. CASE GlobalRemoved \/ RoundtripDone
    BY <1>2, <2>2, MembersRest DEF BackendInv, TypeOK, GlobalRemoved, RoundtripDone, memberVars
  <2>3. CASE Head(queue) \in Sizes /\ LayerSurfaceConfigure(Head(queue))
    BY <1>2, <2>3, MembersRest DEF BackendInv, TypeOK, LayerSurfaceConfigure
  <2>4. CASE LayerSurfaceClosed
    BY <1>2, <2>4, ClosedKeepsMembers DEF BackendInv, TypeOK, LayerSurfaceClosed, memberVars
  <2>. QED
    BY <1>2, <2>1, <2>2, <2>3, <2>4 DEF DispatchEvent, Event
<1>. QED  BY <1>2, <1>3 DEF BackendInv, TypeOK, ReadsPaired

\* Bytes come in; the members rest.
LEMMA ReadTypes ==
  ASSUME TypeOK, ReadWire
  PROVE  /\ wire' \in Seq(Event) /\ queue' \in Seq(Event) /\ error' \in BOOLEAN
         /\ UNCHANGED <<connection, announced>>
<1>1. wire' \in Seq(Event) /\ queue' \in Seq(Event) /\ UNCHANGED <<connection, announced>>
  BY DEF TypeOK, ReadWire
<1>2. error' \in BOOLEAN
  BY DEF ReadWire
<1>. QED  BY <1>1, <1>2

Steps == {"connect", "registry", "globals", "create", "refused", "ready", "failed",
          "destroy", "down"} \cup RoundSteps \cup PumpSteps

\* A step that dispatches nothing and makes or destroys nothing.
LEMMA ControlKeepsInv ==
  ASSUME BackendInv, UNCHANGED <<member, size, alive>>, initialized' \in BOOLEAN,
         step' \in Steps,
         step' \in {"refused", "destroy", "down"} \/ step \notin {"connect", "refused", "destroy", "down"}
         \/ UNCHANGED step,
         wire' \in Seq(Event), queue' \in Seq(Event), error' \in BOOLEAN,
         sync' \in {"none", "asked", "answered", "done"},
         connection' \in {"up", "error", "eof"},
         announced' \in [Globals -> {"never", "here", "gone"}],
         prepared' = IF step' \in {"flush", "poll", "read"} THEN 1 ELSE 0
  PROVE  BackendInv'
<1>1. TypeOK'
  BY DEF BackendInv, TypeOK, Steps
<1>2. MemberInv'
  BY MembersRest DEF BackendInv
<1>. QED  BY <1>1, <1>2 DEF BackendInv, ReadsPaired

LEMMA InitializeKeepsInv ==
  ASSUME BackendInv, InitializeStep
  PROVE  BackendInv'
<1>. USE DEF memberVars, libVars, serverVars, Goto, RoundSteps
<1>1. CASE Connect \/ GetRegistry \/ CreateLayerSurface
  <2>1. MemberInv' /\ member' \in [Slots -> Proxies \cup {Null}] /\ alive' \subseteq Proxies
    BY <1>1, MadeKeepsMembers
    DEF BackendInv, Connect, GetRegistry, CreateLayerSurface, MemberInv, DisplayHeld, Slots
  <2>2. TypeOK'
    BY <1>1, <2>1 DEF BackendInv, TypeOK, Connect, GetRegistry, CreateLayerSurface
  <2>3. ReadsPaired'
    BY <1>1 DEF BackendInv, ReadsPaired, Connect, GetRegistry, CreateLayerSurface
  <2>. QED  BY <2>1, <2>2, <2>3 DEF BackendInv
<1>2. CASE HasRequiredGlobals \/ Refuse
  BY <1>2, ControlKeepsInv
  DEF HasRequiredGlobals, Refuse, BackendInv, TypeOK, ReadsPaired, Steps
<1>3. CASE RoundtripReads
  <2>1. wire' \in Seq(Event) /\ queue' \in Seq(Event) /\ error' \in BOOLEAN
    BY <1>3, ReadTypes DEF RoundtripReads, BackendInv
  <2>. QED
    BY <1>3, <2>1, ReadTypes, ControlKeepsInv
    DEF RoundtripReads, BackendInv, TypeOK, ReadsPaired, Steps, ReadWire
<1>4. CASE RoundtripDispatches
  BY <1>4, DispatchKeepsInv DEF RoundtripDispatches, DispatchSteps
<1>5. CASE RoundtripReturns
  BY <1>5, ControlKeepsInv
  DEF RoundtripReturns, BackendInv, TypeOK, ReadsPaired, Steps
<1>. QED  BY <1>1, <1>2, <1>3, <1>4, <1>5 DEF InitializeStep

LEMMA PumpKeepsInv ==
  ASSUME BackendInv, PumpStep \/ CallerStep
  PROVE  BackendInv'
<1>. USE DEF memberVars, libVars, serverVars, Goto, PumpSteps
<1>1. CASE DispatchEvent /\ UNCHANGED step /\ step \in {"drain", "dispatch"}
  BY <1>1, DispatchKeepsInv DEF DispatchSteps
<1>2. CASE ReadWire /\ UNCHANGED <<memberVars, alive, sync>>
           /\ \/ step = "read" /\ prepared' = prepared - 1 /\ step' \in {"failed", "dispatch"}
              \/ step = "idle" /\ UNCHANGED prepared /\ step' \in {"failed", "dispatch"}
              \/ step = "ready" /\ UNCHANGED <<prepared, step>>
  <2>1. prepared' = IF step' \in {"flush", "poll", "read"} THEN 1 ELSE 0
    BY <1>2 DEF BackendInv, ReadsPaired
  <2>. QED
    BY <1>2, <2>1, ReadTypes, ControlKeepsInv DEF BackendInv, TypeOK, Steps
<1>3. CASE /\ UNCHANGED <<memberVars, alive, queue, sync, error, serverVars>>
           /\ step \in {"ready", "failed", "down"} \cup PumpSteps /\ step' \in Steps
           /\ step = "down" => step' = "destroy"
           /\ prepared' = IF step' \in {"flush", "poll", "read"} THEN 1 ELSE 0
  BY <1>3, ControlKeepsInv DEF BackendInv, TypeOK, Steps
<1>. USE DEF BackendInv, ReadsPaired, Steps
<1>4. CASE IdleDispatch
  BY <1>1, <1>2, <1>3, <1>4 DEF IdleDispatch
<1>5. CASE PrepareRead
  BY <1>3, <1>5 DEF PrepareRead
<1>6. CASE DrainQueue
  BY <1>1, <1>3, <1>6 DEF DrainQueue
<1>7. CASE Flush \/ FlushOrPollFails \/ Poll
  BY <1>3, <1>7 DEF Flush, FlushOrPollFails, Poll, CancelRead
<1>8. CASE ReadEvents \/ EglReads
  BY <1>2, <1>8 DEF ReadEvents, EglReads
<1>9. CASE DispatchPending
  BY <1>1, <1>3, <1>9 DEF DispatchPending
<1>10. CASE ProcessEvents \/ Shutdown
  BY <1>3, <1>10 DEF ProcessEvents, Shutdown
<1>. QED
  BY <1>4, <1>5, <1>6, <1>7, <1>8, <1>9, <1>10 DEF PumpStep, CallerStep

LEMMA ShutdownKeepsInv ==
  ASSUME BackendInv, ShutdownStep
  PROVE  BackendInv'
<1>1. CASE DestroyWaylandObjects
  <2>1. MemberInv' /\ member' \in [Slots -> Proxies \cup {Null}] /\ alive' \subseteq Proxies
    BY <1>1, DestroyKeepsMembers DEF BackendInv
  <2>. QED
    BY <1>1, <2>1 DEF BackendInv, TypeOK, ReadsPaired, DestroyWaylandObjects, serverVars
<1>2. CASE ShutdownReturns
  BY <1>2, ControlKeepsInv
  DEF ShutdownReturns, Goto, BackendInv, TypeOK, ReadsPaired, Steps, libVars, serverVars
<1>. QED  BY <1>1, <1>2 DEF ShutdownStep

LEMMA CompositorKeepsInv ==
  ASSUME BackendInv, Compositor
  PROVE  BackendInv'
<1>. USE DEF memberVars, libVars, serverVars
<1>1. \A e \in Event : Send(e) => wire' \in Seq(Event)
  BY DEF Send, BackendInv, TypeOK
<1>2. wire' \in Seq(Event)
  BY <1>1 DEF Compositor, Announce, Withdraw, SendsToLayerSurface, AnswerSync, ConnectionEnds,
              Event, Globals, BackendInv, TypeOK
<1>3. announced' \in [Globals -> {"never", "here", "gone"}]
  BY DEF Compositor, Announce, Withdraw, SendsToLayerSurface, AnswerSync, ConnectionEnds,
         Globals, BackendInv, TypeOK
<1>4. /\ UNCHANGED <<member, size, initialized, step, alive, queue, prepared, error>>
      /\ sync' \in {"none", "asked", "answered", "done"}
      /\ connection' \in {"up", "error", "eof"}
  BY DEF Compositor, Announce, Withdraw, SendsToLayerSurface, AnswerSync, ConnectionEnds, Send,
         BackendInv, TypeOK
<1>. QED
  BY <1>2, <1>3, <1>4, ControlKeepsInv DEF BackendInv, TypeOK, ReadsPaired, Steps

-----------------------------------------------------------------------------
(* The backend is a window system *)

LEMMA WsRests ==
  ASSUME \/ ~Open /\ ~Open'
         \/ Open /\ Open' /\ UNCHANGED size /\ (member["surface"] = Null <=> member'["surface"] = Null)
  PROVE  UNCHANGED Contract!wsVars
<1>1. Open' = Open
  BY DEF Open
<1>2. (Open /\ member["surface"] # Null)' = (Open /\ member["surface"] # Null)
  BY DEF Open
<1>3. (IF Open THEN size ELSE Unsized)' = IF Open THEN size ELSE Unsized
  OBVIOUS
<1>. QED  BY <1>1, <1>2, <1>3 DEF Contract!wsVars

\* What the runtime sees of one event: nothing, a new size, or the surface lost.
LEMMA DispatchIsWs ==
  ASSUME BackendInv, DispatchEvent, UNCHANGED step
  PROVE  [Contract!WsNext]_(Contract!wsVars)
<1>0. Open' = Open /\ Head(queue) \in Event /\ size \in Sizes \cup {Unsized}
  BY DEF Open, DispatchEvent, BackendInv, TypeOK
<1>1. CASE ~Open
  BY <1>0, <1>1, WsRests
<1>2. CASE Head(queue) \in Globals /\ Global(Head(queue))
  <2>1. SlotOf(Head(queue)) # "surface"
    BY <1>2, WaylandAssumption DEF SlotOf, Globals, Slots
  <2>2. member'["surface"] = member["surface"] /\ UNCHANGED size
    BY <1>2, <2>1 DEF Global, BackendInv, TypeOK, Slots
  <2>. QED  BY <1>0, <2>2, WsRests
<1>3. CASE GlobalRemoved \/ RoundtripDone
  BY <1>0, <1>3, WsRests DEF GlobalRemoved, RoundtripDone, memberVars
<1>4. CASE Open /\ Head(queue) \in Sizes /\ LayerSurfaceConfigure(Head(queue))
  <2>1. CASE "layer_surface" \in alive
    <3>1. member["surface"] # Null /\ member' = member /\ size' \in Sizes
      BY <1>4, <2>1 DEF BackendInv, MemberInv, LayerHeld, LayerSurfaceConfigure, Null
    <3>2. Contract!WsResize
      BY <1>0, <1>4, <3>1 DEF Contract!WsResize
    <3>. QED  BY <3>2 DEF Contract!WsNext
  <2>2. CASE "layer_surface" \notin alive
    BY <1>0, <1>4, <2>2, WsRests DEF LayerSurfaceConfigure
  <2>. QED  BY <2>1, <2>2
<1>5. CASE Open /\ LayerSurfaceClosed
  <2>1. CASE UNCHANGED <<memberVars, alive, sync>>
    BY <1>0, <1>5, <2>1, WsRests DEF memberVars
  <2>2. CASE /\ "layer_surface" \in alive /\ UNCHANGED size
             /\ member' = [member EXCEPT !["layer_surface"] = Null, !["surface"] = Null]
    <3>1. member["surface"] # Null /\ member'["surface"] = Null
      BY <2>2 DEF BackendInv, TypeOK, MemberInv, LayerHeld, Slots, Null
    <3>2. Contract!WsLose
      BY <1>0, <1>5, <2>2, <3>1 DEF Contract!WsLose
    <3>. QED  BY <3>2 DEF Contract!WsNext
  <2>. QED  BY <1>5, <2>1, <2>2 DEF LayerSurfaceClosed
<1>. QED
  BY <1>0, <1>1, <1>2, <1>3, <1>4, <1>5 DEF DispatchEvent, Event

LEMMA InitializeIsWs ==
  ASSUME BackendInv, InitializeStep
  PROVE  [Contract!WsNext]_(Contract!wsVars)
<1>1. CASE Goto("round2", "ready") /\ UNCHANGED <<member, size>>
  <2>1. ~Open /\ Open' /\ size' \in Sizes \cup {Unsized}
    BY <1>1 DEF Goto, Open, PumpSteps, BackendInv, TypeOK
  <2>2. Contract!WsOpen
    BY <2>1 DEF Contract!WsOpen
  <2>. QED  BY <2>2 DEF Contract!WsNext
<1>2. CASE RoundtripDispatches
  BY <1>2, DispatchIsWs DEF RoundtripDispatches
<1>3. CASE \/ Connect \/ GetRegistry \/ HasRequiredGlobals \/ CreateLayerSurface \/ Refuse
           \/ RoundtripReads \/ (RoundtripReturns /\ step # "round2")
  <2>1. ~Open /\ ~Open'
    BY <1>3 DEF Connect, GetRegistry, HasRequiredGlobals, CreateLayerSurface, Refuse,
                RoundtripReads, RoundtripReturns, Goto, Open, PumpSteps, RoundSteps
  <2>. QED  BY <2>1, WsRests
<1>. QED
  BY <1>1, <1>2, <1>3 DEF InitializeStep, RoundtripReturns, Goto

LEMMA PumpIsWs ==
  ASSUME BackendInv, PumpStep \/ EglReads \/ ProcessEvents
  PROVE  [Contract!WsNext]_(Contract!wsVars)
<1>1. CASE DispatchEvent /\ UNCHANGED step
  BY <1>1, DispatchIsWs
<1>2. CASE Open /\ Open' /\ UNCHANGED memberVars
  BY <1>2, WsRests DEF memberVars
<1>. QED
  BY <1>1, <1>2
  DEF PumpStep, EglReads, ProcessEvents, IdleDispatch, PrepareRead, DrainQueue, Flush,
      FlushOrPollFails, Poll, ReadEvents, DispatchPending, Goto, Open, PumpSteps

LEMMA ShutdownIsWs ==
  ASSUME BackendInv, Shutdown \/ ShutdownStep
  PROVE  [Contract!WsNext]_(Contract!wsVars)
<1>1. CASE Shutdown /\ step # "down"
  <2>1. Open /\ ~Open'
    BY <1>1 DEF Shutdown, Open, PumpSteps
  <2>2. Contract!WsClose
    BY <2>1 DEF Contract!WsClose
  <2>. QED  BY <2>2 DEF Contract!WsNext
<1>2. CASE (Shutdown /\ step = "down") \/ ShutdownStep
  <2>1. ~Open /\ ~Open'
    BY <1>2 DEF Shutdown, ShutdownStep, DestroyWaylandObjects, ShutdownReturns, Goto, Open,
                PumpSteps
  <2>. QED  BY <2>1, WsRests
<1>. QED  BY <1>1, <1>2

LEMMA StepIsWs ==
  ASSUME BackendInv, [Next]_vars
  PROVE  [Contract!WsNext]_(Contract!wsVars)
<1>1. CASE UNCHANGED vars \/ Compositor
  <2>1. UNCHANGED <<step, memberVars>>
    BY <1>1 DEF vars, Compositor, Announce, Withdraw, SendsToLayerSurface, AnswerSync,
                ConnectionEnds, Send
  <2>2. Open' = Open /\ UNCHANGED <<member, size>>
    BY <2>1 DEF Open, memberVars
  <2>. QED  BY <2>2, WsRests
<1>. QED
  BY <1>1, InitializeIsWs, PumpIsWs, ShutdownIsWs DEF Next, CallerStep

-----------------------------------------------------------------------------
(* The theorems *)

LEMMA InitBackend == Init => BackendInv
<1>. SUFFICES ASSUME Init PROVE BackendInv
  OBVIOUS
<1>1. TypeOK /\ ReadsPaired
  <2>1. <<>> \in Seq(Event)
    OBVIOUS
  <2>. QED  BY <2>1 DEF Init, TypeOK, ReadsPaired, PumpSteps
<1>2. MemberInv
  BY DEF Init, MemberInv, OwnKind, NoDangling, LayerHeld, DisplayHeld, Slots
<1>. QED  BY <1>1, <1>2 DEF BackendInv

LEMMA NextBackend == BackendInv /\ [Next]_vars => BackendInv'
<1>. SUFFICES ASSUME BackendInv, [Next]_vars PROVE BackendInv'
  OBVIOUS
<1>1. CASE UNCHANGED vars
  BY <1>1, ControlKeepsInv
  DEF vars, memberVars, libVars, serverVars, BackendInv, TypeOK, ReadsPaired, Steps
<1>. QED
  BY <1>1, InitializeKeepsInv, PumpKeepsInv, ShutdownKeepsInv, CompositorKeepsInv DEF Next

\* Through every dispatch, failure and shutdown the members hold their own kind
\* of proxy, alive, and the connection outlives them.
THEOREM BackendInvariance == Spec => []BackendInv
BY InitBackend, NextBackend, PTL DEF Spec

\* Types.
THEOREM BackendTypeCorrect == Spec => []TypeOK
<1>1. BackendInv => TypeOK
  BY DEF BackendInv
<1>. QED  BY <1>1, BackendInvariance, PTL

\* No member points at a destroyed proxy.
THEOREM MembersAlive == Spec => []NoDangling
<1>1. BackendInv => NoDangling
  BY DEF BackendInv, MemberInv
<1>. QED  BY <1>1, BackendInvariance, PTL

\* A layer surface keeps its wl_surface, and what is held its connection.
THEOREM ParentsLast == Spec => []ParentsOutlive
<1>1. BackendInv => ParentsOutlive
  BY DEF BackendInv, MemberInv, NoDangling, LayerHeld, DisplayHeld, ParentsOutlive, Slots, Null
<1>. QED  BY <1>1, BackendInvariance, PTL

\* Every path through ProcessEvents() gives its read intention back.
THEOREM IntentionGivenBack == Spec => []ReadsPaired
<1>1. BackendInv => ReadsPaired
  BY DEF BackendInv
<1>. QED  BY <1>1, BackendInvariance, PTL

\* The backend implements WindowSystem, on which FrameLoop's main thread stands:
\* whatever its handlers do inside a dispatch shows there as a surface that is
\* resized or lost for good.
THEOREM BackendRefinement == Spec => ImplementsWindowSystem
<1>1. Init => Contract!WsInit
  BY DEF Init, Contract!WsInit, Open, PumpSteps
<1>2. BackendInv /\ [Next]_vars => [Contract!WsNext]_(Contract!wsVars)
  BY StepIsWs
<1>. QED
  BY <1>1, <1>2, BackendInvariance, PTL DEF Spec, ImplementsWindowSystem, Contract!WsSpec

-----------------------------------------------------------------------------
(* What PumpReturns rests on *)

LEMMA DispatchNears ==
  ASSUME TypeOK, DispatchEvent, UNCHANGED step, step \in {"drain", "dispatch"}
  PROVE  Nearer(PumpLeft', PumpLeft)
<1>1. queue \in Seq(Event) /\ queue # <<>> /\ queue' = Tail(queue)
  BY DEF TypeOK, DispatchEvent
<1>2. Len(queue') = Len(queue) - 1 /\ Len(queue) \in Nat /\ Len(queue') \in Nat
  BY <1>1
<1>4. CASE step = "dispatch"
  <2>1. PumpStage = 1 /\ PumpStage' = 1
    BY <1>4 DEF PumpStage
  <2>. QED  BY <1>2, <2>1 DEF Nearer, PumpLeft
<1>5. CASE step = "drain"
  <2>1. PumpStage = 7 /\ PumpStage' \in {6, 7}
    BY <1>1, <1>5 DEF PumpStage
  <2>. QED  BY <1>2, <2>1 DEF Nearer, PumpLeft
<1>. QED  BY <1>4, <1>5

\* The stages of one ProcessEvents(), as numbers.
LEMMA Stages ==
  /\ step = "idle" => PumpStage = 8
  /\ step = "prepare" => PumpStage = IF queue = <<>> THEN 5 ELSE 8
  /\ step = "drain" => PumpStage = IF queue = <<>> THEN 6 ELSE 7
  /\ step = "flush" => PumpStage = 4
  /\ step = "poll" => PumpStage = 3
  /\ step = "read" => PumpStage = 2
  /\ step = "dispatch" => PumpStage = 1
  /\ step \in {"ready", "failed"} => PumpStage = 0
BY DEF PumpStage

LEMMA StagesNext ==
  /\ step' = "prepare" => PumpStage' = IF queue' = <<>> THEN 5 ELSE 8
  /\ step' = "drain" => PumpStage' = IF queue' = <<>> THEN 6 ELSE 7
  /\ step' = "flush" => PumpStage' = 4
  /\ step' = "poll" => PumpStage' = 3
  /\ step' = "read" => PumpStage' = 2
  /\ step' = "dispatch" => PumpStage' = 1
  /\ step' \in {"ready", "failed"} => PumpStage' = 0
BY DEF PumpStage

LEMMA PumpStepNears ==
  ASSUME TypeOK, PumpStep, ~error
  PROVE  Nearer(PumpLeft', PumpLeft)
<1>. USE Stages, StagesNext DEF Nearer, PumpLeft
<1>1. CASE IdleDispatch
  BY <1>1 DEF IdleDispatch
<1>2. CASE PrepareRead
  BY <1>2 DEF PrepareRead
<1>3. CASE DrainQueue
  <2>1. CASE DispatchEvent /\ UNCHANGED step
    BY <1>3, <2>1, DispatchNears DEF DrainQueue
  <2>2. CASE queue = <<>> /\ step' = "prepare" /\ UNCHANGED queue
    BY <1>3, <2>2 DEF DrainQueue
  <2>. QED  BY <1>3, <2>1, <2>2 DEF DrainQueue, libVars
<1>4. CASE Flush \/ FlushOrPollFails
  BY <1>4 DEF Flush, FlushOrPollFails, Goto
<1>5. CASE Poll
  BY <1>5 DEF Poll
<1>6. CASE ReadEvents
  BY <1>6 DEF ReadEvents
<1>7. CASE DispatchPending
  <2>1. CASE DispatchEvent /\ UNCHANGED step
    BY <1>7, <2>1, DispatchNears DEF DispatchPending
  <2>2. CASE step' = "ready"
    BY <1>7, <2>2 DEF DispatchPending
  <2>. QED  BY <1>7, <2>1, <2>2 DEF DispatchPending
<1>. QED  BY <1>1, <1>2, <1>3, <1>4, <1>5, <1>6, <1>7 DEF PumpStep

LEMMA OthersWait ==
  ASSUME [Next]_vars, ~PumpStep, step \in PumpSteps
  PROVE  UNCHANGED PumpLeft
<1>1. UNCHANGED <<step, queue>>
  <2>1. CASE UNCHANGED vars
    BY <2>1 DEF vars, libVars
  <2>2. CASE Compositor
    BY <2>2
    DEF Compositor, Announce, Withdraw, SendsToLayerSurface, AnswerSync, ConnectionEnds, Send,
        libVars
  <2>3. ~InitializeStep
    BY DEF InitializeStep, Connect, GetRegistry, HasRequiredGlobals, CreateLayerSurface, Refuse,
           RoundtripReads, RoundtripDispatches, RoundtripReturns, RoundSteps, PumpSteps, Goto
  <2>4. ~CallerStep /\ ~ShutdownStep /\ step # "refused"
    BY DEF CallerStep, EglReads, ProcessEvents, Shutdown, ShutdownStep, DestroyWaylandObjects,
           ShutdownReturns, PumpSteps, Goto
  <2>. QED  BY <2>1, <2>2, <2>3, <2>4 DEF Next
<1>. QED  BY <1>1 DEF PumpLeft, PumpStage

\* While the connection is good each call and each handler inside ProcessEvents()
\* brings its end nearer, for any number of queued events, and the compositor
\* cannot take that back: its loop cannot go on for ever.
THEOREM PumpAlwaysNears == Spec => PumpNears
<1>1. BackendInv /\ [Next]_vars =>
        (~error /\ step \in PumpSteps =>
           IF PumpStep THEN Nearer(PumpLeft', PumpLeft) ELSE UNCHANGED PumpLeft)
  BY PumpStepNears, OthersWait DEF BackendInv
<1>. QED  BY <1>1, BackendInvariance, PTL DEF Spec, PumpNears

=============================================================================
