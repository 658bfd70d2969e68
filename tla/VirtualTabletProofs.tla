------------------------ MODULE VirtualTabletProofs ------------------------
(***************************************************************************)
(* Proofs about VirtualTablet, for every number of slots, every set of ids *)
(* and positions, and every set of pen events, and about TouchSession, the *)
(* tablet driven by the fingers of a client.                               *)
(***************************************************************************)
EXTENDS TouchSession, TLAPS

\* The slot the kernel has selected and the slots it shows are types of the
\* touch device; zero is the id of a slot that was never used.
LEMMA SlotFacts ==
    /\ Slot \subseteq Int
    /\ 0 \in Slot
    /\ \A s \in Slot : s + 1 \in 0 .. NumSlots
    /\ Lifted \notin TouchId \cup {0}
  BY TabletAssumption DEF Slot, Lifted

\* The pressures a stroke starts and ends with are pressures.
LEMMA ZeroPressure == 0 \in Pressure
  BY TabletAssumption DEF Pressure

LEMMA AtLeastOne ==
    ASSUME NEW n \in Pressure
    PROVE  MaxOf(n, 1) \in Pressure /\ MaxOf(n, 1) > 0
  BY TabletAssumption DEF Pressure, MaxOf

\* The events a client may send have the fields of their kind.
LEMMA EventFields ==
    ASSUME NEW e \in StylusEvent \cup {NoEvent}
    PROVE  /\ e.kind \in {"StylusMove", "StylusDown"} => e.pressure \in Pressure
           /\ e.kind = "StylusButton" => e.button \in ButtonCode
           /\ e.kind \in {"None", "StylusMove", "StylusDown", "StylusUp", "StylusButton"}
  BY DEF StylusEvent, NoEvent

\* Init satisfies TypeOK.
LEMMA InitType == Init => TypeOK
  <1> SUFFICES ASSUME Init PROVE TypeOK
    OBVIOUS
  <1>1. PICK p \in Pos : slotPos = [s \in Slot |-> p] /\ osPos = [s \in Slot |-> p]
    BY DEF Init
  <1>2. slotPos \in [Slot -> Pos] /\ osPos \in [Slot -> Pos]
    BY <1>1
  <1>3. 0 \in Pressure /\ 0 \in 0 .. NumSlots /\ Lifted \in TouchId \cup {0, Lifted}
    BY TabletAssumption DEF Pressure
  <1> QED
    BY <1>2, <1>3, SlotFacts
    DEF Init, TypeOK, ControlType, PenType, SlotType, OsPenType, OsPadType

\* What a step leaves alone keeps its type, and so does a handler that returns.
LEMMA TypeFrame ==
    ASSUME TypeOK
    PROVE  /\ Return => ControlType'
           /\ UNCHANGED control => ControlType'
           /\ UNCHANGED <<penState, penRecent>> => PenType'
           /\ UNCHANGED slotState => SlotType'
           /\ UNCHANGED osPen => OsPenType'
           /\ UNCHANGED osPad => OsPadType'
  <1>1. Return => ControlType'
    BY TabletAssumption DEF Return, ControlType
  <1>2. UNCHANGED control => ControlType'
    BY DEF TypeOK, control, ControlType
  <1>3. UNCHANGED <<penState, penRecent>> => PenType'
    BY DEF TypeOK, penState, PenType
  <1>4. UNCHANGED slotState => SlotType'
    BY DEF TypeOK, slotState, touch_slots, SlotType
  <1>5. UNCHANGED osPen => OsPenType'
    BY DEF TypeOK, osPen, OsPenType
  <1>6. UNCHANGED osPad => OsPadType'
    BY DEF TypeOK, osPad, OsPadType
  <1> QED
    BY <1>1, <1>2, <1>3, <1>4, <1>5, <1>6

\* Selecting a slot and writing to it keeps the types of the touch device.
LEMMA TouchWriteType ==
    ASSUME TypeOK, NEW s \in Slot, SelectSlot(s),
           EmitLift \/ EmitSlot(s) \/ UNCHANGED <<osId, osPos>>
    PROVE  current_slot' \in Slot /\ OsPadType'
  <1>1. current_slot' \in Slot /\ osSlot' \in Slot
    BY DEF SelectSlot, TypeOK, SlotType, OsPadType
  <1> QED
    BY <1>1 DEF EmitLift, EmitSlot, TypeOK, SlotType, OsPadType

\* The batch of enter_proximity keeps the types of the pen device.
LEMMA ProximityType == TypeOK /\ EmitProximity => OsPenType'
  <1> SUFFICES ASSUME TypeOK, EmitProximity PROVE OsPenType'
    OBVIOUS
  <1>1. osSerials' \in Nat
    BY DEF EmitProximity, TypeOK, OsPenType
  <1> QED
    BY <1>1 DEF EmitProximity, TypeOK, OsPenType

\* The steps of a pen event keep TypeOK.
LEMMA StylusType == TypeOK /\ failed' \in BOOLEAN /\ StylusStep => TypeOK'
  <1> SUFFICES ASSUME TypeOK, failed' \in BOOLEAN, StylusStep PROVE TypeOK'
    OBVIOUS
  <1> USE TypeFrame
  <1>1. ASSUME NEW s \in Slot, ReleaseSlot(s) PROVE TypeOK'
    <2>1. SlotType' /\ OsPadType'
      BY <1>1, TouchWriteType DEF ReleaseSlot, Deactivate, TypeOK, SlotType
    <2>2. ControlType'
      BY <1>1 DEF ReleaseSlot, TypeOK, ControlType
    <2> QED
      BY <1>1, <2>1, <2>2 DEF ReleaseSlot, TypeOK
  <1>3. CASE ReleaseDone
    BY <1>3 DEF ReleaseDone, TypeOK, ControlType
  <1>4. CASE UpdateContact
    <2>1. ControlType'
      BY <1>4 DEF UpdateContact, ProximityFirst, TypeOK, ControlType
    <2>2. PenType'
      BY <1>4, EventFields DEF UpdateContact, TypeOK, ControlType, PenType
    <2> QED
      BY <1>4, <2>1, <2>2 DEF UpdateContact, TypeOK
  <1>5. CASE UpdateUp
    <2>1. pressure' \in Pressure
      BY <1>5, ZeroPressure DEF UpdateUp
    <2>2. PenType'
      BY <1>5, <2>1 DEF UpdateUp, TypeOK, PenType
    <2>3. ControlType'
      BY <1>5 DEF UpdateUp, TypeOK, ControlType
    <2> QED
      BY <1>5, <2>2, <2>3 DEF UpdateUp, TypeOK
  <1>6. CASE UpdateButton
    BY <1>6 DEF UpdateButton, ProximityFirst, TypeOK, ControlType
  <1>8. CASE EnterProximity
    <2>1. ControlType' /\ PenType'
      BY <1>8 DEF EnterProximity, TypeOK, ControlType, PenType
    <2> QED
      BY <1>8, <2>1, ProximityType DEF EnterProximity, TypeOK
  <1>10. CASE EmitStylus
    <2>1. CASE EmitMove \/ EmitDown \/ EmitUp
      <3>1. osPressure' \in Pressure
        BY <2>1, ZeroPressure, AtLeastOne
        DEF EmitMove, EmitDown, EmitUp, TypeOK, PenType, OsPenType
      <3>2. OsPenType'
        BY <2>1, <3>1 DEF EmitMove, EmitDown, EmitUp, TypeOK, PenType, OsPenType
      <3> QED
        BY <1>10, <3>2 DEF EmitStylus, TypeOK
    <2>2. CASE EmitButton
      <3>1. event.button \in ButtonCode
        BY <2>2, EventFields DEF EmitButton, TypeOK, ControlType
      <3>2. OsPenType'
        BY <2>2, <3>1 DEF EmitButton, TypeOK, OsPenType
      <3> QED
        BY <1>10, <3>2 DEF EmitStylus, TypeOK
    <2> QED
      BY <1>10, <2>1, <2>2 DEF EmitStylus
  <1> QED
    BY <1>1, <1>3, <1>4, <1>5, <1>6, <1>8, <1>10 DEF StylusStep

\* The touch events and the steps of the sync loop keep TypeOK.
LEMMA TouchType == TypeOK /\ failed' \in BOOLEAN /\ (TouchEvent \/ TouchStep) => TypeOK'
  <1> SUFFICES ASSUME TypeOK, failed' \in BOOLEAN, TouchEvent \/ TouchStep PROVE TypeOK'
    OBVIOUS
  <1> USE TypeFrame
  <1>1. ASSUME NEW s \in Slot, SyncSlot(s) PROVE TypeOK'
    <2>1. ControlType'
      BY <1>1, SlotFacts DEF SyncSlot, TypeOK, ControlType
    <2>2. CASE UNCHANGED <<slotState, osPad>>
      BY <1>1, <2>1, <2>2 DEF SyncSlot, TypeOK
    <2>3. CASE ~UNCHANGED <<slotState, osPad>>
      <3>1. SelectSlot(s) /\ EmitSlot(s) /\ Wanted(s) \in BOOLEAN
        BY <1>1, <2>3 DEF SyncSlot, Wanted
      <3>2. SlotType' /\ OsPadType'
        BY <1>1, <2>3, <3>1, TouchWriteType DEF SyncSlot, TypeOK, SlotType
      <3> QED
        BY <1>1, <2>1, <3>2 DEF SyncSlot, TypeOK
    <2> QED
      BY <2>2, <2>3
  <1>3. CASE SyncDone
    BY <1>3 DEF SyncDone, TypeOK
  <1>4. StartSync => ControlType'
    BY TabletAssumption DEF StartSync, TypeOK, ControlType
  <1>5. ASSUME NEW id \in TouchId, NEW p \in Pos, TouchDown(id, p) PROVE TypeOK'
    <2>1. SlotType'
      BY <1>5 DEF TouchDown, TypeOK, SlotType
    <2> QED
      BY <1>4, <1>5, <2>1 DEF TouchDown, TypeOK
  <1>6. ASSUME NEW id \in TouchId, NEW p \in Pos, TouchMove(id, p) PROVE TypeOK'
    <2>1. SlotType'
      BY <1>6 DEF TouchMove, TypeOK, SlotType
    <2> QED
      BY <1>4, <1>6, <2>1 DEF TouchMove, TypeOK
  <1>7. ASSUME NEW id \in TouchId, TouchUp(id) PROVE TypeOK'
    <2>1. SlotType'
      BY <1>7 DEF TouchUp, Deactivate, TypeOK, SlotType
    <2> QED
      BY <1>4, <1>7, <2>1 DEF TouchUp, TypeOK
  <1> QED
    BY <1>1, <1>3, <1>5, <1>6, <1>7 DEF TouchEvent, TouchStep

\* A handler that is stopped by a failed write keeps TypeOK.
LEMMA FailedType == TypeOK /\ failed' \in BOOLEAN /\ FailedStep => TypeOK'
  <1> SUFFICES ASSUME TypeOK, failed' \in BOOLEAN, FailedStep PROVE TypeOK'
    OBVIOUS
  <1> USE TypeFrame
  <1>1. ASSUME NEW s \in Slot, ReleaseSlotFails(s) PROVE TypeOK'
    <2>1. SlotType' /\ OsPadType'
      <3>1. CASE SelectSlotFails(s)
        BY <3>1 DEF SelectSlotFails, TypeOK, SlotType, touch_slots
      <3>2. CASE ~SelectSlotFails(s)
        BY <1>1, <3>2, TouchWriteType
        DEF ReleaseSlotFails, Deactivate, TypeOK, SlotType
      <3> QED
        BY <3>1, <3>2
    <2> QED
      BY <1>1, <2>1 DEF ReleaseSlotFails, TypeOK
  <1>2. ASSUME NEW s \in Slot, SyncSlotFails(s) PROVE TypeOK'
    <2>1. SlotType' /\ OsPadType'
      <3>1. CASE SelectSlotFails(s)
        BY <3>1 DEF SelectSlotFails, TypeOK, SlotType, touch_slots
      <3>2. CASE ~SelectSlotFails(s)
        BY <1>2, <3>2, TouchWriteType DEF SyncSlotFails, touch_slots, TypeOK, SlotType
      <3> QED
        BY <3>1, <3>2
    <2> QED
      BY <1>2, <2>1 DEF SyncSlotFails, TypeOK
  <1>3. CASE ReleaseDoneFails
    BY <1>3 DEF ReleaseDoneFails, TypeOK
  <1>4. CASE EnterProximityFails
    <2>1. PenType'
      BY <1>4 DEF EnterProximityFails, TypeOK, PenType
    <2> QED
      BY <1>4, <2>1, ProximityType DEF EnterProximityFails, TypeOK
  <1>5. CASE EmitStylusFails
    BY <1>5 DEF EmitStylusFails, TypeOK
  <1> QED
    BY <1>1, <1>2, <1>3, <1>4, <1>5 DEF FailedStep

\* Every step keeps TypeOK.
LEMMA NextType == TypeOK /\ [Next]_vars => TypeOK'
  <1> SUFFICES ASSUME TypeOK, [Next]_vars PROVE TypeOK'
    OBVIOUS
  <1> USE TypeFrame
  <1>1. failed' \in BOOLEAN
    BY DEF Next, Handle, vars, TypeOK
  <1>2. ASSUME NEW e \in PenEvents, BeginStylus(e) PROVE TypeOK'
    <2>1. ControlType' /\ PenType'
      BY <1>2, PenEventsAssumption DEF BeginStylus, TypeOK, ControlType, PenType, penState
    <2> QED
      BY <1>1, <1>2, <2>1 DEF BeginStylus, TypeOK
  <1>3. CASE Timeout
    <2>1. PenType'
      BY <1>3 DEF Timeout, TypeOK, PenType, penState
    <2> QED
      BY <1>1, <1>3, <2>1 DEF Timeout, TypeOK
  <1>4. CASE UNCHANGED vars
    BY <1>1, <1>4 DEF vars, TypeOK
  <1> QED
    BY <1>1, <1>2, <1>3, <1>4, StylusType, TouchType, FailedType DEF Next, Handle

\* Every state the tablet reaches is well typed, also when writes fail.
THEOREM TypeCorrect == Spec => []TypeOK
  BY InitType, NextType, PTL DEF Spec

---------------------------------------------------------------------------
(* The touch device, until a write fails *)

\* Init satisfies TouchInv.
LEMMA InitTouch == Init => TouchInv
  BY DEF Init, TouchInv, ReportedCovers, ReleasePending, StylusCleared, SyncProgress,
         AllShown, Shown, Wanted, Contacts

\* When the cached slot is the kernel's, a write for slot s goes to slot s.
LEMMA SelectHits ==
    ASSUME NEW s \in Slot, osSlot = current_slot, SelectSlot(s)
    PROVE  osSlot' = s /\ current_slot' = s
  BY DEF SelectSlot

\* The forced release of one slot: it is lifted, the others are untouched.
LEMMA ReleaseKeeps ==
    ASSUME TypeOK, TouchInv, NEW s \in Slot, ReleaseSlot(s)
    PROVE  TouchInv'
  <1>1. osSlot' = s /\ current_slot' = s
    BY SelectHits DEF ReleaseSlot, TouchInv
  <1>2. osId' = [osId EXCEPT ![s] = Lifted]
    BY <1>1 DEF ReleaseSlot, EmitLift
  <1>3. active' = [active EXCEPT ![s] = FALSE]
        /\ UNCHANGED <<reported_to_os, tracking_id, slotPos>>
    BY DEF ReleaseSlot, Deactivate
  <1>4. pc' = "releasing" /\ pc \in {"release", "releasing"}
    BY DEF ReleaseSlot, NextToRelease
  <1>5. ReportedCovers'
    BY <1>2, <1>3 DEF TypeOK, SlotType, OsPadType, TouchInv, ReportedCovers, Contacts
  <1>6. ReleasePending'
    BY <1>2, <1>3, <1>4 DEF TypeOK, SlotType, OsPadType, TouchInv, ReleasePending, Contacts
  <1> QED
    BY <1>1, <1>4, <1>5, <1>6 DEF TouchInv, StylusCleared, SyncProgress, AllShown

\* Taking a pen event and going on to the pen device: no finger is left.
LEMMA StylusKeeps ==
    ASSUME TypeOK, TouchInv, UNCHANGED <<slotState, osPad>>,
           \/ \E e \in PenEvents : BeginStylus(e)
           \/ ReleaseDone /\ pc' = "stylus"
           \/ /\ pc \in {"stylus", "proximity", "emit"}
              /\ pc' \in {"stylus", "proximity", "emit", "idle"}
              /\ UNCHANGED penRecent
    PROVE  TouchInv'
  <1>1. UNCHANGED <<active, reported_to_os, tracking_id, slotPos, current_slot>>
        /\ UNCHANGED <<osSlot, osId, osPos>>
    BY DEF slotState, touch_slots, osPad
  <1>2. \A s \in Slot : (Wanted(s) <=> Wanted(s)') /\ (Contacts(s) <=> Contacts(s)')
                        /\ (Shown(s) <=> Shown(s)')
    BY <1>1 DEF Wanted, Contacts, Shown
  <1>3. ReportedCovers'
    BY <1>1 DEF TouchInv, ReportedCovers, Contacts
  <1>4. CASE \E e \in PenEvents : BeginStylus(e)
    <2>1. pc = "idle" /\ pc' = IF penRecent THEN "stylus" ELSE "release"
      BY <1>4 DEF BeginStylus
    <2>2. \A s \in Slot : Shown(s)
      BY <2>1 DEF TouchInv, AllShown
    <2>3. \A s \in Slot : Contacts(s) => active[s]
      BY <2>2 DEF Shown, Wanted
    <2>4. ReleasePending'
      BY <1>1, <1>2, <2>1, <2>3 DEF ReleasePending
    <2>5. StylusCleared'
      BY <1>1, <1>2, <2>1 DEF TouchInv, StylusCleared
    <2> QED
      BY <1>1, <1>3, <2>1, <2>4, <2>5 DEF TouchInv, SyncProgress, AllShown
  <1>5. CASE ~\E e \in PenEvents : BeginStylus(e)
    <2>1. \A s \in Slot : ~active[s] /\ ~Contacts(s)
      BY <1>5 DEF ReleaseDone, TouchInv, ReleasePending, StylusCleared
    <2>2. \A s \in Slot : Shown(s)
      BY <2>1 DEF Shown, Wanted
    <2>3. pc' \in {"stylus", "proximity", "emit", "idle"}
      BY <1>5
    <2> QED
      BY <1>1, <1>2, <1>3, <2>1, <2>2, <2>3
      DEF TouchInv, ReleasePending, StylusCleared, SyncProgress, AllShown
  <1> QED
    BY <1>4, <1>5

\* A touch event changes one slot and starts the sync at slot 0.
LEMMA EventKeeps ==
    ASSUME TypeOK, TouchInv, NEW id \in TouchId, NEW p \in Pos,
           TouchDown(id, p) \/ TouchMove(id, p) \/ TouchUp(id)
    PROVE  TouchInv'
  <1>1. pc = "idle" /\ pc' = "sync" /\ index' = 0 /\ UNCHANGED penRecent
    BY DEF TouchDown, TouchMove, TouchUp, StartSync
  <1>2. UNCHANGED <<current_slot, osSlot, osId, osPos>>
    BY DEF TouchDown, TouchMove, TouchUp, osPad
  <1>3. ~penRecent
    <2>1. CASE TouchUp(id)
      <3>1. \E s \in Slot : active[s]
        BY <2>1 DEF TouchUp, SlotOf
      <3> QED
        BY <1>1, <3>1 DEF TouchInv, StylusCleared
    <2>2. CASE ~TouchUp(id)
      BY <2>2 DEF TouchDown, TouchMove
    <2> QED
      BY <2>1, <2>2
  <1>4. ReportedCovers'
    <2>1. CASE TouchDown(id, p)
      <3>1. PICK s \in Slot :
               /\ FreeSlot(s)
               /\ active' = [active EXCEPT ![s] = TRUE]
               /\ reported_to_os' = [reported_to_os EXCEPT ![s] = FALSE]
               /\ tracking_id' = [tracking_id EXCEPT ![s] = id]
        BY <2>1 DEF TouchDown
      <3>2. ~Contacts(s)
        BY <1>1, <3>1 DEF TouchInv, AllShown, Shown, Wanted, FreeSlot
      <3> QED
        BY <1>2, <3>1, <3>2 DEF TypeOK, SlotType, TouchInv, ReportedCovers, Contacts
    <2>2. CASE TouchMove(id, p)
      BY <1>2, <2>2 DEF TouchMove, TouchInv, ReportedCovers, Contacts
    <2>3. CASE TouchUp(id)
      BY <1>2, <2>3 DEF TouchUp, Deactivate, TypeOK, SlotType, TouchInv,
                        ReportedCovers, Contacts
    <2> QED
      BY <2>1, <2>2, <2>3
  <1>5. SyncProgress'
    BY <1>1, <1>3, SlotFacts DEF SyncProgress, Slot
  <1> QED
    BY <1>1, <1>2, <1>4, <1>5
    DEF TouchInv, ReleasePending, StylusCleared, AllShown

\* One round of the sync loop: slot s is now as it should be, the others as before.
LEMMA SyncKeeps ==
    ASSUME TypeOK, TouchInv, NEW s \in Slot, SyncSlot(s)
    PROVE  TouchInv'
  <1>1. pc = "sync" /\ pc' = "sync" /\ index = s /\ index' = s + 1
        /\ UNCHANGED <<penRecent, active, tracking_id, slotPos>>
    BY DEF SyncSlot, slotState, touch_slots
  <1>2. \A t \in Slot : Wanted(t)' <=> Wanted(t)
    BY <1>1 DEF Wanted
  <1>3. osSlot' = current_slot'
    BY SelectHits DEF SyncSlot, TouchInv, slotState, osPad
  <1>4. Shown(s)' /\ ReportedCovers'
    <2>1. CASE ~reported_to_os[s] /\ ~Wanted(s)
      <3>1. UNCHANGED <<reported_to_os, osId, osPos>>
        BY <2>1 DEF SyncSlot, slotState, touch_slots, osPad
      <3>2. ~Contacts(s)
        BY <2>1 DEF TouchInv, ReportedCovers
      <3> QED
        BY <1>1, <1>2, <2>1, <3>1, <3>2 DEF TouchInv, ReportedCovers, Shown, Contacts
    <2>2. CASE reported_to_os[s] \/ Wanted(s)
      <3>1. /\ SelectSlot(s) /\ EmitSlot(s)
            /\ reported_to_os' = [reported_to_os EXCEPT ![s] = Wanted(s)]
        BY <2>2 DEF SyncSlot
      <3>2. osSlot' = s
        BY <3>1, SelectHits DEF TouchInv
      <3>3. CASE ~Wanted(s)
        <4>1. osId' = [osId EXCEPT ![s] = Lifted]
          BY <3>1, <3>2, <3>3 DEF EmitSlot, EmitLift
        <4>2. ReportedCovers'
          BY <1>1, <3>1, <3>3, <4>1
          DEF TypeOK, SlotType, OsPadType, TouchInv, ReportedCovers, Contacts
        <4>3. Shown(s)'
          BY <1>2, <3>3, <4>1 DEF TypeOK, OsPadType, Shown, Contacts
        <4> QED
          BY <4>2, <4>3
      <3>4. CASE Wanted(s)
        <4>1. osId' = [osId EXCEPT ![s] = tracking_id[s]]
              /\ osPos' = [osPos EXCEPT ![s] = slotPos[s]]
          <5>1. CASE reported_to_os[s]
            BY <3>1, <3>2, <3>4, <5>1
            DEF EmitSlot, Wanted, TypeOK, OsPadType, TouchInv, ReportedCovers
          <5>2. CASE ~reported_to_os[s]
            BY <3>1, <3>2, <3>4, <5>2 DEF EmitSlot
          <5> QED
            BY <5>1, <5>2
        <4>2. ReportedCovers'
          BY <1>1, <3>1, <3>4, <4>1
          DEF TypeOK, SlotType, OsPadType, TouchInv, ReportedCovers, Contacts
        <4>3. Shown(s)'
          BY <1>1, <1>2, <3>4, <4>1 DEF TypeOK, OsPadType, Shown
        <4> QED
          BY <4>2, <4>3
      <3> QED
        BY <3>3, <3>4
    <2> QED
      BY <2>1, <2>2
  <1>5. \A t \in Slot \ {s} : Shown(t) => Shown(t)'
    <2>1. \A t \in Slot \ {s} : osId'[t] = osId[t] /\ osPos'[t] = osPos[t]
      BY SelectHits DEF SyncSlot, EmitSlot, EmitLift, TouchInv, TypeOK, OsPadType, osPad
    <2> QED
      BY <1>1, <1>2, <2>1 DEF Shown, Contacts
  <1>6. SyncProgress'
    <2>1. \A t \in Slot : t < s + 1 => t = s \/ t < s
      BY SlotFacts DEF Slot
    <2>2. \A t \in Slot : t < s => Shown(t)
      BY <1>1 DEF TouchInv, SyncProgress
    <2>3. \A t \in Slot : t < s + 1 => Shown(t)'
      BY <1>4, <1>5, <2>1, <2>2
    <2>4. ~penRecent'
      BY <1>1 DEF TouchInv, SyncProgress
    <2> QED
      BY <1>1, <2>3, <2>4 DEF SyncProgress
  <1> QED
    BY <1>1, <1>3, <1>4, <1>6 DEF TouchInv, ReleasePending, StylusCleared, AllShown

\* A step in which no write fails is one of the handlers' sound steps.
LEMMA SoundStep ==
    ASSUME ~failed', [Next]_vars
    PROVE  /\ ~failed
           /\ \/ \E e \in PenEvents : BeginStylus(e)
              \/ TouchEvent \/ StylusStep \/ TouchStep \/ Timeout
              \/ UNCHANGED vars
  BY DEF Next, Handle, vars

\* Every step in which no write fails keeps TouchInv.
LEMMA NextTouch ==
    ASSUME ~failed', TypeOK, TouchInv, [Next]_vars
    PROVE  TouchInv'
  <1>1. CASE UNCHANGED vars
    BY <1>1 DEF vars, control, slotState, touch_slots, osPad, TouchInv, ReportedCovers,
       ReleasePending, StylusCleared, SyncProgress, AllShown, Shown, Wanted, Contacts
  <1>2. CASE Timeout
    BY <1>2 DEF Timeout, control, slotState, touch_slots, osPad, TouchInv, ReportedCovers,
       ReleasePending, StylusCleared, SyncProgress, AllShown, Shown, Wanted, Contacts
  <1>3. CASE SyncDone
    <2>1. \A s \in Slot : Shown(s)
      <3>1. \A s \in Slot : s < NumSlots
        BY TabletAssumption DEF Slot
      <3> QED
        BY <1>3, <3>1 DEF SyncDone, TouchInv, SyncProgress
    <2>2. ~penRecent /\ UNCHANGED penRecent /\ pc' = "idle"
      BY <1>3 DEF SyncDone, Return, TouchInv, SyncProgress
    <2> QED
      BY <1>3, <2>1, <2>2
      DEF SyncDone, slotState, touch_slots, osPad, TouchInv, ReportedCovers,
          ReleasePending, StylusCleared, SyncProgress, AllShown, Shown, Wanted, Contacts
  <1>4. CASE \E e \in PenEvents : BeginStylus(e)
    BY <1>4, StylusKeeps DEF BeginStylus
  <1>5. CASE ReleaseDone
    BY <1>5, StylusKeeps DEF ReleaseDone
  <1>6. CASE \/ UpdateContact \/ UpdateUp \/ UpdateButton
             \/ EnterProximity \/ EmitStylus
    BY <1>6, StylusKeeps
    DEF UpdateContact, UpdateUp, UpdateButton, EnterProximity, EmitStylus, ProximityFirst, Return
  <1>7. CASE TouchEvent
    BY <1>7, EventKeeps, TabletAssumption DEF TouchEvent
  <1> QED
    BY <1>1, <1>2, <1>3, <1>4, <1>5, <1>6, <1>7, SoundStep, ReleaseKeeps, SyncKeeps
    DEF StylusStep, TouchStep

\* TouchInv holds in every reachable state until a write fails.
LEMMA TouchInvariant == Spec => [](TypeOK /\ (~failed => TouchInv))
  <1> DEFINE Inv == TypeOK /\ (~failed => TouchInv)
  <1>1. Init => Inv
    BY InitType, InitTouch
  <1>2. Inv /\ [Next]_vars => Inv'
    BY NextType, NextTouch, SoundStep
  <1> QED
    BY <1>1, <1>2, PTL DEF Spec

\* The OS sees exactly the fingers it should see after every handler, whatever
\* the order of the touch and pen events.
THEOREM GestureCorrect == Spec => []GestureFilter
  <1>1. TypeOK /\ (~failed => TouchInv) => GestureFilter
    BY DEF TouchInv, AllShown, GestureFilter
  <1> QED
    BY <1>1, TouchInvariant, PTL

\* No slot is in use while the pen is.
THEOREM PalmCorrect == Spec => []PalmRejected
  <1>1. TypeOK /\ (~failed => TouchInv) => PalmRejected
    BY DEF TouchInv, StylusCleared, PalmRejected
  <1> QED
    BY <1>1, TouchInvariant, PTL

\* The pen device is written only when the OS shows no finger.
THEOREM PenAloneCorrect == Spec => []PenAlone
  <1>1. TypeOK /\ (~failed => TouchInv) => PenAlone
    BY DEF TouchInv, StylusCleared, PenAlone, ReleasedBeforePen
  <1> QED
    BY <1>1, TouchInvariant, PTL

\* No finger appears on the OS side while the pen is in use.
THEOREM NoTouchUnderPenCorrect == Spec => NoTouchUnderPen
  <1>1. ASSUME TypeOK, ~failed, TouchInv, [Next]_vars,
               NEW s \in Slot, ~Contacts(s), Contacts(s)'
        PROVE  ~penRecent
    <2>1. osId' # osId
      BY <1>1 DEF Contacts
    <2>2. ~FailedStep
      BY <2>1 DEF FailedStep, ReleaseSlotFails, SyncSlotFails, SelectSlotFails,
                  ReleaseDoneFails, EnterProximityFails, EmitStylusFails, osPad
    <2>3. ~\E t \in Slot : ReleaseSlot(t)
      <3> SUFFICES ASSUME NEW t \in Slot, ReleaseSlot(t) PROVE FALSE
        OBVIOUS
      <3>1. osId' = [osId EXCEPT ![osSlot'] = Lifted]
        BY DEF ReleaseSlot, EmitLift
      <3> QED
        BY <1>1, <3>1 DEF TypeOK, OsPadType, Contacts
    <2>4. ~UNCHANGED vars /\ ~Timeout /\ ~TouchEvent /\ ~SyncDone /\ ~ReleaseDone
      BY <2>1 DEF vars, Timeout, TouchEvent, TouchDown, TouchMove, TouchUp, SyncDone,
                  ReleaseDone, osPad
    <2>5. /\ ~UpdateContact /\ ~UpdateUp /\ ~UpdateButton /\ ~EnterProximity
          /\ ~EmitStylus /\ ~\E e \in PenEvents : BeginStylus(e)
      BY <2>1 DEF UpdateContact, UpdateUp, UpdateButton, EnterProximity, BeginStylus,
                  EmitStylus, osPad
    <2>6. \E t \in Slot : SyncSlot(t)
      BY <1>1, <2>2, <2>3, <2>4, <2>5 DEF Next, Handle, StylusStep, TouchStep
    <2> QED
      BY <1>1, <2>6 DEF SyncSlot, TouchInv, SyncProgress
  <1>2. TypeOK /\ (~failed => TouchInv) /\ [Next]_vars
        => [\A s \in Slot : ~failed /\ ~Contacts(s) /\ Contacts(s)' => ~penRecent]_vars
    BY <1>1
  <1> QED
    BY <1>2, TouchInvariant, PTL DEF Spec, NoTouchUnderPen

---------------------------------------------------------------------------
(* The pen device *)

\* What holds also after a write has failed: the tool is announced before it is
\* near, and only then is there a pressure; a handler that is about to write a batch
\* has seen to that.
PenSafe ==
    /\ osSerials =< 1 /\ (~tool_announced => osSerials = 0)
    /\ in_proximity => tool_announced /\ osTool
    /\ osPressure > 0 => osNear /\ in_proximity
    /\ pc = "proximity" => ~in_proximity /\ event.kind # "StylusUp"
    /\ pc = "emit" => in_proximity \/ event.kind = "StylusUp"

\* Until a write fails: BTN_TOUCH is what the stylus state says, but for the handler
\* that has changed the state and not yet written it.
StrokeShown ==
    IF pc \in {"proximity", "emit"} /\ event.kind \in {"StylusDown", "StylusUp"}
    THEN is_down <=> event.kind = "StylusDown"
    ELSE osTouch <=> is_down

PenMatches ==
    /\ tool_announced => osSerials = 1
    /\ osPressure > 0 => osTouch
    /\ StrokeShown

PenInv == PenSafe /\ (~failed => PenMatches)

LEMMA InitPen == Init => PenInv
  BY DEF Init, PenInv, PenSafe, PenMatches, StrokeShown

\* A step that changes no pen and comes from and goes to a place where none is
\* written.
LEMMA PenAside ==
    ASSUME PenInv, UNCHANGED <<penState, osPen>>, failed => failed',
           pc \notin {"proximity", "emit"}, pc' \notin {"proximity", "emit"}
    PROVE  PenInv'
  BY DEF PenInv, PenSafe, PenMatches, StrokeShown, penState, osPen

\* The state is updated, and the handler goes on to the proximity or to the batch.
LEMMA PenUpdate ==
    ASSUME TypeOK, PenInv, UNCHANGED failed, UpdateContact \/ UpdateUp \/ UpdateButton
    PROVE  PenInv'
  <1>1. CASE UpdateContact
    BY <1>1 DEF UpdateContact, ProximityFirst, PenInv, PenSafe, PenMatches, StrokeShown,
                osPen, TypeOK, PenType
  <1>2. CASE UpdateUp
    BY <1>2 DEF UpdateUp, PenInv, PenSafe, PenMatches, StrokeShown, osPen
  <1>3. CASE UpdateButton
    BY <1>3 DEF UpdateButton, ProximityFirst, Return, PenInv, PenSafe, PenMatches,
                StrokeShown, penState, osPen
  <1> QED
    BY <1>1, <1>2, <1>3

LEMMA PenWrite ==
    ASSUME TypeOK, PenInv, UNCHANGED failed, EnterProximity \/ EmitStylus
    PROVE  PenInv'
  <1>1. CASE EnterProximity
    <2>1. osPressure = 0
      BY <1>1 DEF EnterProximity, PenInv, PenSafe, TypeOK, OsPenType, Pressure
    <2>2. PenSafe'
      BY <1>1, <2>1 DEF EnterProximity, EmitProximity, PenInv, PenSafe, TypeOK, OsPenType
    <2>3. ~failed => PenMatches'
      BY <1>1, <2>1 DEF EnterProximity, EmitProximity, PenInv, PenSafe, PenMatches,
                        StrokeShown, TypeOK, OsPenType
    <2> QED
      BY <2>2, <2>3 DEF PenInv
  <1>2. CASE EmitStylus
    <2>1. pc = "emit" /\ pc' = "idle" /\ UNCHANGED <<is_down, pressure, in_proximity, tool_announced>>
      BY <1>2 DEF EmitStylus, Return, penState
    <2>2. CASE EmitMove \/ EmitDown
      <3>1. in_proximity /\ (osPressure' > 0 => osNear')
        BY <2>1, <2>2 DEF EmitMove, EmitDown, PenInv, PenSafe
      <3>2. PenSafe'
        BY <2>1, <2>2, <3>1 DEF EmitMove, EmitDown, PenInv, PenSafe
      <3>3. ~failed => PenMatches'
        BY <2>1, <2>2 DEF EmitMove, EmitDown, PenInv, PenMatches, StrokeShown
      <3> QED
        BY <3>2, <3>3 DEF PenInv
    <2>3. CASE EmitUp
      BY <2>1, <2>3 DEF EmitUp, PenInv, PenSafe, PenMatches, StrokeShown
    <2>4. CASE EmitButton
      BY <2>1, <2>4 DEF EmitButton, PenInv, PenSafe, PenMatches, StrokeShown
    <2> QED
      BY <1>2, <2>2, <2>3, <2>4 DEF EmitStylus
  <1> QED
    BY <1>1, <1>2

\* A refused batch may have announced the tool, and leaves the pen out of proximity.
LEMMA PenFails ==
    ASSUME TypeOK, PenInv, failed', FailedStep
    PROVE  PenInv'
  <1>1. CASE EnterProximityFails
    <2>1. osPressure = 0 /\ ~in_proximity
      BY <1>1 DEF EnterProximityFails, PenInv, PenSafe, TypeOK, OsPenType, Pressure
    <2> QED
      BY <1>1, <2>1 DEF EnterProximityFails, EmitProximity, Return, PenInv, PenSafe, osPen,
                        TypeOK, OsPenType
  <1>2. CASE ~EnterProximityFails
    <2>1. UNCHANGED <<penState, osPen>> /\ pc' = "idle"
      BY <1>2 DEF FailedStep, ReleaseSlotFails, SyncSlotFails, ReleaseDoneFails,
                  EmitStylusFails, Return
    <2> QED
      BY <2>1 DEF PenInv, PenSafe, penState, osPen
  <1> QED
    BY <1>1, <1>2

LEMMA NextPen == TypeOK /\ PenInv /\ [Next]_vars => PenInv'
  <1> SUFFICES ASSUME TypeOK, PenInv, [Next]_vars PROVE PenInv'
    OBVIOUS
  <1>1. CASE (\E e \in PenEvents : BeginStylus(e)) /\ UNCHANGED failed
    BY <1>1, PenAside DEF BeginStylus
  <1>2. CASE TouchEvent /\ UNCHANGED failed
    BY <1>2, PenAside DEF TouchEvent, TouchDown, TouchMove, TouchUp, StartSync
  <1>3. CASE TouchStep /\ UNCHANGED failed
    BY <1>3, PenAside DEF TouchStep, SyncSlot, SyncDone, Return
  <1>4. CASE StylusStep /\ UNCHANGED failed
    <2>1. CASE ReleaseDone \/ \E s \in Slot : ReleaseSlot(s)
      BY <1>4, <2>1, PenAside DEF ReleaseDone, ReleaseSlot, NextToRelease
    <2> QED
      BY <1>4, <2>1, PenUpdate, PenWrite DEF StylusStep
  <1>5. CASE FailedStep /\ failed' = TRUE
    BY <1>5, PenFails
  <1>6. CASE (Timeout /\ UNCHANGED failed) \/ UNCHANGED vars
    <2>1. UNCHANGED <<control, penState, osPen>> /\ UNCHANGED failed
      BY <1>6 DEF Timeout, vars
    <2> QED
      BY <2>1 DEF control, penState, osPen, PenInv, PenSafe, PenMatches, StrokeShown
  <1> QED
    BY <1>1, <1>2, <1>3, <1>4, <1>5, <1>6 DEF Next, Handle

LEMMA PenInvariant == Spec => [](TypeOK /\ PenInv)
  BY InitType, InitPen, NextType, NextPen, PTL DEF Spec

\* Applications see no pressure without a stroke, and BTN_TOUCH is what the stylus
\* state says whenever a handler has returned (tablet.rs:473-480).
THEOREM StrokeCorrect == Spec => []PressureOnlyInStroke
  <1>1. TypeOK /\ PenInv => PressureOnlyInStroke
    BY DEF PenInv, PenSafe, PenMatches, StrokeShown, PressureOnlyInStroke
  <1> QED
    BY <1>1, PenInvariant, PTL

\* The serial number is sent once, whatever batches are refused (tablet.rs:427).
THEOREM SerialCorrect == Spec => []SerialOnce
  <1>1. TypeOK /\ PenInv => SerialOnce
    BY DEF PenInv, PenSafe, PenMatches, SerialOnce
  <1> QED
    BY <1>1, PenInvariant, PTL

\* A hovering pen has no pressure, also after a write has failed.
THEOREM HoverCorrect == Spec => []HoverWithoutPressure
  <1>1. TypeOK /\ PenInv => HoverWithoutPressure
    BY DEF PenInv, PenSafe, HoverWithoutPressure
  <1> QED
    BY <1>1, PenInvariant, PTL

---------------------------------------------------------------------------
(* The tablet and the fingers on the glass *)

\* Whatever the fingers, the pen and the clients do, the tablet only does what
\* VirtualTablet lets it do.
LEMMA SessionStep == [SessionNext]_sessionVars => [Next]_vars
  <1> SUFFICES ASSUME [SessionNext]_sessionVars PROVE [Next]_vars
    OBVIOUS
  <1>1. CASE UNCHANGED sessionVars \/ ClientLost
    BY <1>1 DEF sessionVars, ClientLost
  <1>2. CASE (\E e \in PenEvents : PenEvent(e)) /\ UNCHANGED failed
    BY <1>2 DEF PenEvent, Next
  <1>3. CASE Handle \/ (Timeout /\ UNCHANGED failed)
    BY <1>3 DEF Next
  <1>4. ASSUME NEW id \in TouchId, UNCHANGED failed,
               \/ FingerUp(id) \/ Cancel(id) \/ Swallow(id)
               \/ \E p \in Pos : \/ FingerDown(id, p) \/ FingerMove(id, p)
                                 \/ OutOfTurn(id, p)
        PROVE  [Next]_vars
    <2>1. \/ TouchUp(id) \/ UNCHANGED vars
          \/ \E p \in Pos : TouchDown(id, p) \/ TouchMove(id, p)
      BY <1>4 DEF FingerUp, Cancel, Swallow, FingerDown, FingerMove, OutOfTurn, Lift
    <2> QED
      BY <1>4, <2>1 DEF Next, TouchEvent
  <1> QED
    BY <1>1, <1>2, <1>3, <1>4 DEF SessionNext

\* TouchSession implements VirtualTablet: all that is proved of the tablet holds of it
\* when the fingers of a client drive it.
THEOREM SessionIsTablet == SessionSpec => Spec
  BY SessionStep, PTL DEF SessionSpec, SessionInit, Spec

\* The inductive invariant behind RejectedStaysRejected: the sync of the touch device
\* leaves the slots alone, and the handler of a pen event begins with none in use.
OwnInv ==
    /\ rejected \subseteq glass /\ glass \subseteq TouchId
    /\ ~failed /\ ~orphaned /\ pc \in {"idle", "sync"} => SlotsOwned

LEMMA InitOwned == SessionInit => OwnInv
  BY DEF SessionInit, Init, OwnInv, SlotsOwned

\* When every slot in use is a finger of its own, a lift takes the finger off the
\* tablet, whether it had a slot or not.
LEMMA LiftOwned ==
    ASSUME TypeOK, SlotsOwned, NEW id \in TouchId, Lift(id)
    PROVE  /\ UNCHANGED tracking_id
           /\ \A s \in Slot : active'[s] => active[s] /\ tracking_id[s] # id
  <1>1. CASE TouchUp(id)
    <2>1. PICK s \in Slot : SlotOf(id, s) /\ Deactivate(s)
      BY <1>1 DEF TouchUp
    <2>2. active' = [active EXCEPT ![s] = FALSE] /\ UNCHANGED tracking_id
      BY <2>1 DEF Deactivate
    <2>3. \A t \in Slot \ {s} : active[t] => tracking_id[t] # id
      BY <2>1 DEF SlotOf, SlotsOwned
    <2> QED
      BY <2>2, <2>3 DEF TypeOK, SlotType
  <1>2. CASE (\A s \in Slot : ~SlotOf(id, s)) /\ UNCHANGED vars
    <2>1. UNCHANGED <<active, tracking_id>>
      BY <1>2 DEF vars, slotState, touch_slots
    <2>2. ASSUME NEW s \in Slot, active[s], tracking_id[s] = id
          PROVE  FALSE
      <3>1. \A t \in Slot : t < s => t \in Slot \ {s}
        BY SlotFacts
      <3>2. SlotOf(id, s)
        BY <2>2, <3>1 DEF SlotOf, SlotsOwned
      <3> QED
        BY <1>2, <3>2
    <2> QED
      BY <2>1, <2>2
  <1> QED
    BY <1>1, <1>2 DEF Lift

\* A finger that comes down is new to the glass, so that its slot is its only one.
LEMMA DownOwned ==
    ASSUME TypeOK, OwnInv, NEW id \in TouchId, NEW p \in Pos,
           UNCHANGED failed, FingerDown(id, p)
    PROVE  OwnInv'
  <1>1. /\ pc = "idle" /\ id \notin glass /\ glass' = glass \cup {id}
        /\ UNCHANGED orphaned
    BY DEF FingerDown
  <1>2. CASE TouchDown(id, p) /\ UNCHANGED rejected
    <2>1. PICK s \in Slot : /\ active' = [active EXCEPT ![s] = TRUE]
                            /\ tracking_id' = [tracking_id EXCEPT ![s] = id]
      BY <1>2 DEF TouchDown
    <2>2. /\ active'[s] /\ tracking_id'[s] = id
          /\ \A t \in Slot \ {s} : active'[t] = active[t] /\ tracking_id'[t] = tracking_id[t]
      BY <2>1 DEF TypeOK, SlotType
    <2>3. SlotsOwned => SlotsOwned'
      <3> SUFFICES ASSUME SlotsOwned PROVE SlotsOwned'
        OBVIOUS
      <3>1. \A t \in Slot \ {s} : active'[t] => tracking_id'[t] \in glass /\ tracking_id'[t] # id
        BY <1>1, <2>2 DEF SlotsOwned
      <3>2. id \in glass' \ rejected'
        BY <1>1, <1>2 DEF OwnInv
      <3>3. \A t \in Slot \ {s} : active'[t] => tracking_id'[t] \in glass' \ rejected'
        BY <1>1, <1>2, <2>2 DEF SlotsOwned
      <3>4. \A t, u \in Slot \ {s} : u # t /\ active'[t] /\ active'[u]
                                     => tracking_id'[u] # tracking_id'[t]
        BY <2>2 DEF SlotsOwned
      <3> QED
        BY <2>2, <3>1, <3>2, <3>3, <3>4 DEF SlotsOwned
    <2> QED
      BY <1>1, <1>2, <2>3 DEF OwnInv
  <1>3. CASE rejected' = rejected \cup {id} /\ UNCHANGED vars
    <2>1. UNCHANGED <<active, tracking_id, pc>>
      BY <1>3 DEF vars, control, slotState, touch_slots
    <2>2. SlotsOwned => SlotsOwned'
      BY <1>1, <1>3, <2>1 DEF SlotsOwned
    <2> QED
      BY <1>1, <1>3, <2>1, <2>2 DEF OwnInv
  <1> QED
    BY <1>2, <1>3 DEF FingerDown

\* Every step in which no write fails keeps OwnInv: the fingers, ...
LEMMA FingersOwned ==
    ASSUME TypeOK, OwnInv, NEW id \in TouchId, UNCHANGED failed,
           \/ FingerUp(id) \/ Cancel(id) \/ Swallow(id)
           \/ \E p \in Pos : \/ FingerDown(id, p) \/ FingerMove(id, p)
                             \/ OutOfTurn(id, p)
    PROVE  OwnInv'
  <1>1. CASE FingerUp(id)
    <2>1. /\ pc = "idle" /\ glass' = glass \ {id} /\ rejected' = rejected \ {id}
          /\ Lift(id) /\ UNCHANGED orphaned
      BY <1>1 DEF FingerUp
    <2>2. SlotsOwned => SlotsOwned'
      <3> SUFFICES ASSUME SlotsOwned PROVE SlotsOwned'
        OBVIOUS
      <3>1. /\ UNCHANGED tracking_id
            /\ \A s \in Slot : active'[s] => active[s] /\ tracking_id[s] # id
        BY <2>1, LiftOwned
      <3> QED
        BY <2>1, <3>1 DEF SlotsOwned
    <2> QED
      BY <2>1, <2>2 DEF OwnInv
  <1>2. CASE Cancel(id)
    <2>1. /\ pc = "idle" /\ glass' = {} /\ rejected' = {} /\ Lift(id)
          /\ ~orphaned' => ~orphaned /\ glass = {id}
      BY <1>2 DEF Cancel
    <2>2. ASSUME SlotsOwned, glass = {id} PROVE SlotsOwned'
      <3>1. \A s \in Slot : active'[s] => active[s] /\ tracking_id[s] # id
        BY <2>1, <2>2, LiftOwned
      <3>2. \A s \in Slot : ~active'[s]
        BY <2>2, <3>1 DEF SlotsOwned
      <3> QED
        BY <3>2 DEF SlotsOwned
    <2> QED
      BY <2>1, <2>2 DEF OwnInv
  <1>3. CASE Swallow(id) \/ \E p \in Pos : OutOfTurn(id, p)
    BY <1>3 DEF Swallow, OutOfTurn, OwnInv
  <1>4. ASSUME NEW p \in Pos, FingerMove(id, p) PROVE OwnInv'
    <2>1. UNCHANGED <<glass, rejected, orphaned, active, tracking_id>> /\ pc = "idle"
      BY <1>4 DEF FingerMove, TouchMove
    <2> QED
      BY <2>1 DEF OwnInv, SlotsOwned
  <1> QED
    BY <1>1, <1>2, <1>3, <1>4, DownOwned

\* ... and the pen, the handlers and the clients.
LEMMA HandleOwned ==
    ASSUME TypeOK, ~failed => TouchInv, OwnInv, failed => failed',
           UNCHANGED <<glass, rejected, orphaned>>, Handle
    PROVE  OwnInv'
  <1>1. CASE TouchStep
    <2>1. UNCHANGED <<active, tracking_id>> /\ pc \in {"idle", "sync"}
      BY <1>1 DEF TouchStep, SyncSlot, SyncDone, slotState, touch_slots
    <2> QED
      BY <2>1 DEF OwnInv, SlotsOwned
  <1>2. CASE StylusStep
    <2>1. CASE ReleaseDone \/ \E s \in Slot : ReleaseSlot(s)
      BY <2>1 DEF ReleaseDone, ReleaseSlot, OwnInv
    <2>2. CASE UpdateContact \/ UpdateUp \/ UpdateButton \/ EnterProximity \/ EmitStylus
      <3>1. UNCHANGED active /\ pc \in {"stylus", "proximity", "emit"}
        BY <2>2 DEF UpdateContact, UpdateUp, UpdateButton, EnterProximity, EmitStylus,
                    slotState, touch_slots
      <3>2. ~failed => \A s \in Slot : ~active'[s]
        BY <3>1 DEF TouchInv, StylusCleared
      <3>3. ~failed => SlotsOwned'
        BY <3>2 DEF SlotsOwned
      <3> QED
        BY <3>3 DEF OwnInv
    <2> QED
      BY <1>2, <2>1, <2>2 DEF StylusStep
  <1>3. CASE FailedStep /\ failed'
    BY <1>3 DEF OwnInv
  <1> QED
    BY <1>1, <1>2, <1>3 DEF Handle

LEMMA NextOwned ==
    ASSUME TypeOK, ~failed => TouchInv, OwnInv, [SessionNext]_sessionVars
    PROVE  OwnInv'
  <1>1. CASE UNCHANGED sessionVars \/ (Timeout /\ UNCHANGED <<failed, glass, rejected, orphaned>>)
    <2>1. UNCHANGED <<pc, active, tracking_id, failed, glass, rejected, orphaned>>
      BY <1>1 DEF sessionVars, vars, Timeout, control, slotState, touch_slots
    <2> QED
      BY <2>1 DEF OwnInv, SlotsOwned
  <1>2. CASE ClientLost
    BY <1>2 DEF ClientLost, OwnInv
  <1>3. CASE \E e \in PenEvents : PenEvent(e)
    BY <1>3 DEF PenEvent, BeginStylus, OwnInv
  <1>4. CASE Handle /\ UNCHANGED <<glass, rejected, orphaned>>
    <2>1. failed => failed'
      BY <1>4 DEF Handle
    <2> QED
      BY <1>4, <2>1, HandleOwned
  <1> QED
    BY <1>1, <1>2, <1>3, <1>4, FingersOwned DEF SessionNext

LEMMA SessionInvariant == SessionSpec => [](TypeOK /\ (~failed => TouchInv) /\ OwnInv)
  <1>1. SessionSpec => [](TypeOK /\ (~failed => TouchInv))
    BY SessionIsTablet, TouchInvariant, PTL
  <1> QED
    BY <1>1, InitOwned, NextOwned, PTL DEF SessionSpec

\* A finger that rested on the glass under the pen, or that found no free slot, stays
\* ignored, and each of the others has one slot.
THEOREM RejectedCorrect == SessionSpec => []RejectedStaysRejected
  <1>1. OwnInv => RejectedStaysRejected
    BY DEF OwnInv, RejectedStaysRejected
  <1> QED
    BY <1>1, SessionInvariant, PTL

\* One finger alone on the glass is no contact for the OS.
THEOREM OneFingerCorrect == SessionSpec => []OneFingerIgnored
  <1>1. ASSUME TypeOK, ~failed => TouchInv, OwnInv
        PROVE  OneFingerIgnored
    <2> SUFFICES ASSUME ~failed, pc = "idle", ~orphaned, AtMostOne(glass),
                        NEW s \in Slot, Contacts(s)
                 PROVE  FALSE
      BY DEF OneFingerIgnored
    <2>1. SlotsOwned /\ Shown(s)
      BY <1>1 DEF OwnInv, TouchInv, AllShown
    <2>2. Wanted(s)
      BY <2>1 DEF Shown
    <2>3. PICK t \in Slot \ {s} : active[s] /\ active[t]
      BY <2>2 DEF Wanted
    <2>4. tracking_id[s] \in glass /\ tracking_id[t] \in glass
          /\ tracking_id[t] # tracking_id[s]
      BY <2>1, <2>3 DEF SlotsOwned
    <2> QED
      BY <2>4 DEF AtMostOne
  <1> QED
    BY <1>1, SessionInvariant, PTL
=============================================================================
