--------------------------- MODULE VirtualTablet ---------------------------
(***************************************************************************)
(* The virtual pen and touch devices of the server                         *)
(* (crates/dt-input/src/tablet.rs): VirtualTablet::process_event and every *)
(* handler it calls, together with the state the kernel's input layer      *)
(* holds for the two uinput devices (the os... variables, external).       *)
(*                                                                         *)
(* One call of process_event is several steps, one per slot of the two     *)
(* loops over touch_slots and one per batch written to the pen device, so  *)
(* that a write that fails (`?` returns from the handler at once) stops    *)
(* the handler exactly there.  The main loop calls process_event from one  *)
(* task, so a new event is taken only when pc = "idle".                    *)
(*                                                                         *)
(* Abstractions: stylus coordinates and tilt are left out; a pressure is a *)
(* number from 0 to MaxPressure after normalisation; last_pen_activity is  *)
(* the Boolean "less than PALM_REJECTION_TIMEOUT ago", which Timeout       *)
(* clears; BTN_TOOL_FINGER.. of the touch device, which the device does    *)
(* not declare, are left out.                                              *)
(***************************************************************************)
EXTENDS Integers, FiniteSets

CONSTANTS NumSlots,     \* MT_SLOTS
          TouchId,      \* the pointer ids a client uses
          Pos,          \* normalised touch positions
          MaxPressure,  \* PRESSURE_MAX
          PenEvents,    \* the stylus events a client may send
          EmitMayFail   \* can a write to a uinput device return an error?

ASSUME TabletAssumption ==
    /\ NumSlots \in Nat \ {0}
    /\ TouchId \subseteq Nat
    /\ Pos # {}
    /\ MaxPressure \in Nat \ {0}
    /\ EmitMayFail \in BOOLEAN

Slot     == 0 .. NumSlots - 1
Pressure == 0 .. MaxPressure
Button   == {0, 1}      \* BTN_STYLUS, BTN_STYLUS2
ButtonCode == Button \cup {2}      \* 2 stands for every unknown button
Lifted   == -1          \* the ABS_MT_TRACKING_ID of a slot without a contact

NoEvent == [kind |-> "None"]
StylusEvent ==
         [kind : {"StylusMove", "StylusDown"}, pressure : Pressure]
    \cup [kind : {"StylusUp"}]
    \cup [kind : {"StylusButton"}, button : ButtonCode, pressed : BOOLEAN]

ASSUME PenEventsAssumption == PenEvents \subseteq StylusEvent

VARIABLES
    pc,              \* where the handler is
    event,           \* the stylus event being handled
    index,           \* the loop variable of sync_touch_state_to_os
    is_down, pressure,                      \* stylus_state
    in_proximity, tool_announced, penRecent,
    active, reported_to_os, tracking_id, slotPos,   \* touch_slots, field by field
    current_slot,
    osTool, osTouch, osPressure, osNear, osSerials, osButtons,  \* pen device
    osSlot, osId, osPos,                                        \* touch device
    failed                \* history: a write to a device has failed

control  == <<pc, event, index>>
penState == <<is_down, pressure, in_proximity, tool_announced>>
touch_slots == <<active, reported_to_os, tracking_id, slotPos>>
slotState == <<touch_slots, current_slot>>
osPen    == <<osTool, osTouch, osPressure, osNear, osSerials, osButtons>>
osPad    == <<osSlot, osId, osPos>>
vars     == <<control, penState, penRecent, slotState, osPen, osPad, failed>>

ControlType ==
    /\ pc \in {"idle", "release", "releasing", "stylus", "proximity", "emit", "sync"}
    /\ event \in StylusEvent \cup {NoEvent}
    /\ index \in 0 .. NumSlots

PenType ==
    /\ is_down \in BOOLEAN /\ pressure \in Pressure
    /\ in_proximity \in BOOLEAN /\ tool_announced \in BOOLEAN
    /\ penRecent \in BOOLEAN

SlotType ==
    /\ active \in [Slot -> BOOLEAN] /\ reported_to_os \in [Slot -> BOOLEAN]
    /\ tracking_id \in [Slot -> TouchId \cup {0}]
    /\ slotPos \in [Slot -> Pos]
    /\ current_slot \in Slot

OsPenType ==
    /\ osTool \in BOOLEAN /\ osTouch \in BOOLEAN /\ osNear \in BOOLEAN
    /\ osPressure \in Pressure
    /\ osSerials \in Nat
    /\ osButtons \subseteq ButtonCode

OsPadType ==
    /\ osSlot \in Slot
    /\ osId \in [Slot -> TouchId \cup {0, Lifted}]
    /\ osPos \in [Slot -> Pos]

TypeOK ==
    ControlType /\ PenType /\ SlotType /\ OsPenType /\ OsPadType /\ failed \in BOOLEAN

Init ==
    /\ pc = "idle" /\ event = NoEvent /\ index = 0
    /\ is_down = FALSE /\ pressure = 0
    /\ in_proximity = FALSE /\ tool_announced = FALSE /\ penRecent = FALSE
    /\ \E p \in Pos :
          /\ slotPos = [s \in Slot |-> p]
          /\ osPos = [s \in Slot |-> p]
    /\ active = [s \in Slot |-> FALSE]
    /\ reported_to_os = [s \in Slot |-> FALSE]
    /\ tracking_id = [s \in Slot |-> 0]
    /\ current_slot = 0
    /\ osTool = FALSE /\ osTouch = FALSE /\ osPressure = 0 /\ osNear = FALSE
    /\ osSerials = 0 /\ osButtons = {}
    /\ osSlot = 0 /\ osId = [s \in Slot |-> Lifted]
    /\ failed = FALSE

\* Mutant of Wanted: the gesture filter is gone.
WantedAlone(s) == active[s]

\* The gesture-only filter: a slot is wanted by the OS when it is active and
\* at least one other slot is.
Wanted(s) == active[s] /\ \E t \in Slot \ {s} : active[t]

SlotOf(id, s) ==
    /\ active[s] /\ tracking_id[s] = id
    /\ \A t \in Slot : t < s => ~(active[t] /\ tracking_id[t] = id)

FreeSlot(s) == ~active[s] /\ \A t \in Slot : t < s => active[t]

\* The handler returns, with Ok or with the error of a write.
Return == pc' = "idle" /\ event' = NoEvent /\ index' = 0

---------------------------------------------------------------------------
(* The touch device.  A write applies to the slot the kernel last selected *)

\* select_slot: ABS_MT_SLOT is written only when the cached slot differs.
SelectSlot(s) ==
    /\ current_slot' = s
    /\ osSlot' = IF current_slot = s THEN osSlot ELSE s

\* The write of ABS_MT_SLOT fails, after current_slot was assigned.
SelectSlotFails(s) ==
    /\ EmitMayFail
    /\ current_slot # s
    /\ current_slot' = s
    /\ UNCHANGED <<touch_slots, osPad>>

\* Mutant of Deactivate: the slot is forgotten before the sync lifts it.
DeactivateAndForget(s) ==
    /\ active' = [active EXCEPT ![s] = FALSE]
    /\ reported_to_os' = [reported_to_os EXCEPT ![s] = FALSE]
    /\ UNCHANGED <<tracking_id, slotPos>>

\* reported_to_os is left as it is: the sync after a lift still has to see it.
Deactivate(s) ==
    /\ active' = [active EXCEPT ![s] = FALSE]
    /\ UNCHANGED <<reported_to_os, tracking_id, slotPos>>

EmitLift == osId' = [osId EXCEPT ![osSlot'] = Lifted] /\ UNCHANGED osPos

---------------------------------------------------------------------------
(* Pen events *)

\* Mutant of BeginStylus: the touches are not released.
BeginStylusUnreleased(e) ==
    /\ pc = "idle"
    /\ event' = e
    /\ penRecent' = TRUE
    /\ pc' = "stylus"
    /\ UNCHANGED <<index, penState, slotState, osPen, osPad>>

\* process_event, stylus arm: the time stamp is taken before the release.
BeginStylus(e) ==
    /\ pc = "idle"
    /\ event' = e
    /\ penRecent' = TRUE
    /\ pc' = IF penRecent THEN "stylus" ELSE "release"
    /\ UNCHANGED <<index, penState, slotState, osPen, osPad>>

NextToRelease(s) ==
    /\ pc \in {"release", "releasing"}
    /\ active[s] /\ \A t \in Slot : t < s => ~active[t]

ReleaseSlot(s) ==
    /\ NextToRelease(s)
    /\ SelectSlot(s)
    /\ Deactivate(s)
    /\ EmitLift
    /\ pc' = "releasing"
    /\ UNCHANGED <<event, index, penState, penRecent, osPen>>

ReleaseSlotFails(s) ==
    /\ NextToRelease(s)
    /\ \/ SelectSlotFails(s)
       \/ /\ EmitMayFail
          /\ SelectSlot(s)
          /\ Deactivate(s)
          /\ UNCHANGED <<osId, osPos>>
    /\ Return
    /\ UNCHANGED <<penState, penRecent, osPen>>

\* Mutant of ReleaseDone: the loop may stop after its first slot.
ReleaseDoneEarly ==
    /\ pc = "releasing"
    /\ pc' = "stylus"
    /\ UNCHANGED <<event, index, penState, penRecent, slotState, osPen, osPad>>

ReleaseDone ==
    /\ pc \in {"release", "releasing"}
    /\ \A s \in Slot : ~active[s]
    /\ pc' = "stylus"
    /\ UNCHANGED <<event, index, penState, penRecent, slotState, osPen, osPad>>

\* The SYN_REPORT after the last release is refused.
ReleaseDoneFails ==
    /\ pc = "releasing" /\ EmitMayFail
    /\ \A s \in Slot : ~active[s]
    /\ Return
    /\ UNCHANGED <<penState, penRecent, slotState, osPen, osPad>>

ProximityFirst == pc' = IF in_proximity THEN "emit" ELSE "proximity"

\* stylus_move and stylus_down up to enter_proximity (update_from_event).
UpdateContact ==
    /\ pc = "stylus" /\ event.kind \in {"StylusMove", "StylusDown"}
    /\ pressure' = event.pressure
    /\ is_down' = (event.kind = "StylusDown" \/ is_down)
    /\ ProximityFirst
    /\ UNCHANGED <<event, index, in_proximity, tool_announced, penRecent,
                   slotState, osPen, osPad>>

UpdateUp ==
    /\ pc = "stylus" /\ event.kind = "StylusUp"
    /\ is_down' = FALSE /\ pressure' = 0
    /\ pc' = "emit"
    /\ UNCHANGED <<event, index, in_proximity, tool_announced, penRecent,
                   slotState, osPen, osPad>>

UpdateButton ==
    /\ pc = "stylus" /\ event.kind = "StylusButton"
    /\ IF event.button \in Button
          THEN ProximityFirst /\ UNCHANGED <<event, index>>
          ELSE Return
    /\ UNCHANGED <<penState, penRecent, slotState, osPen, osPad>>

\* Mutant of EmitProximity: the serial number is forgotten.
EmitProximitySilent ==
    /\ osTool' = TRUE /\ osNear' = FALSE
    /\ UNCHANGED <<osSerials, osTouch, osPressure, osButtons>>

\* Mutant of EmitProximity: the serial number is sent each time.
EmitProximityAlways ==
    /\ osTool' = TRUE /\ osNear' = FALSE
    /\ osSerials' = osSerials + 1
    /\ UNCHANGED <<osTouch, osPressure, osButtons>>

\* The batch enter_proximity writes.
EmitProximity ==
    /\ osTool' = TRUE
    /\ osSerials' = osSerials + (IF tool_announced THEN 0 ELSE 1)
    /\ osNear' = FALSE
    /\ UNCHANGED <<osTouch, osPressure, osButtons>>

EnterProximity ==
    /\ pc = "proximity"
    /\ tool_announced' = TRUE
    /\ EmitProximity
    /\ in_proximity' = TRUE
    /\ pc' = "emit"
    /\ UNCHANGED <<event, index, is_down, pressure, penRecent, slotState, osPad>>

\* The batch, or the SYN_REPORT after it, is refused: in_proximity stays as it was.
EnterProximityFails ==
    /\ pc = "proximity" /\ EmitMayFail
    /\ tool_announced' = TRUE
    /\ UNCHANGED osPen \/ EmitProximity
    /\ Return
    /\ UNCHANGED <<is_down, pressure, in_proximity, penRecent, slotState, osPad>>

MaxOf(a, b) == IF a >= b THEN a ELSE b

\* Mutant of EmitMove: the pressure of a hovering pen is sent.
EmitMoveRaw ==
    /\ event.kind = "StylusMove"
    /\ osPressure' = pressure
    /\ osNear' = is_down
    /\ UNCHANGED <<osTool, osTouch, osSerials, osButtons>>

EmitMove ==
    /\ event.kind = "StylusMove"
    /\ osPressure' = IF is_down THEN pressure ELSE 0
    /\ osNear' = is_down
    /\ UNCHANGED <<osTool, osTouch, osSerials, osButtons>>

EmitDown ==
    /\ event.kind = "StylusDown"
    /\ osTool' = TRUE /\ osTouch' = TRUE
    /\ osPressure' = MaxOf(pressure, 1)
    /\ osNear' = TRUE
    /\ UNCHANGED <<osSerials, osButtons>>

EmitUp ==
    /\ event.kind = "StylusUp"
    /\ osTouch' = FALSE /\ osPressure' = 0
    /\ UNCHANGED <<osTool, osNear, osSerials, osButtons>>

EmitButton ==
    /\ event.kind = "StylusButton"
    /\ osButtons' = IF event.pressed THEN osButtons \cup {event.button}
                                     ELSE osButtons \ {event.button}
    /\ UNCHANGED <<osTool, osTouch, osPressure, osNear, osSerials>>

EmitStylus ==
    /\ pc = "emit"
    /\ EmitMove \/ EmitDown \/ EmitUp \/ EmitButton
    /\ Return
    /\ UNCHANGED <<penState, penRecent, slotState, osPad>>

EmitStylusFails ==
    /\ pc = "emit" /\ EmitMayFail
    /\ Return
    /\ UNCHANGED <<penState, penRecent, slotState, osPen, osPad>>

---------------------------------------------------------------------------
(* Touch events.  An event with no effect (suppressed by palm rejection, no *)
(* free slot, unknown id) leaves every variable as it is: a stuttering step *)

StartSync == pc' = "sync" /\ index' = 0 /\ UNCHANGED event

\* Mutant of TouchDown: palm rejection is not asked.
TouchDownAnytime(id, p) ==
    /\ pc = "idle"
    /\ \E s \in Slot :
          /\ FreeSlot(s)
          /\ active' = [active EXCEPT ![s] = TRUE]
          /\ reported_to_os' = [reported_to_os EXCEPT ![s] = FALSE]
          /\ tracking_id' = [tracking_id EXCEPT ![s] = id]
          /\ slotPos' = [slotPos EXCEPT ![s] = p]
    /\ StartSync
    /\ UNCHANGED <<penState, penRecent, current_slot, osPen, osPad>>

TouchDown(id, p) ==
    /\ pc = "idle" /\ ~penRecent
    /\ \E s \in Slot :
          /\ FreeSlot(s)
          /\ active' = [active EXCEPT ![s] = TRUE]
          /\ reported_to_os' = [reported_to_os EXCEPT ![s] = FALSE]
          /\ tracking_id' = [tracking_id EXCEPT ![s] = id]
          /\ slotPos' = [slotPos EXCEPT ![s] = p]
    /\ StartSync
    /\ UNCHANGED <<penState, penRecent, current_slot, osPen, osPad>>

\* Mutant of TouchMove: a pointer that moves gets a slot.
TouchMoveAdopts(id, p) ==
    /\ pc = "idle" /\ ~penRecent
    /\ \E s \in Slot :
          /\ SlotOf(id, s) \/ FreeSlot(s)
          /\ active' = [active EXCEPT ![s] = TRUE]
          /\ tracking_id' = [tracking_id EXCEPT ![s] = id]
          /\ slotPos' = [slotPos EXCEPT ![s] = p]
          /\ UNCHANGED reported_to_os
    /\ StartSync
    /\ UNCHANGED <<penState, penRecent, current_slot, osPen, osPad>>

TouchMove(id, p) ==
    /\ pc = "idle" /\ ~penRecent
    /\ \E s \in Slot :
          /\ SlotOf(id, s)
          /\ slotPos' = [slotPos EXCEPT ![s] = p]
          /\ UNCHANGED <<active, reported_to_os, tracking_id>>
    /\ StartSync
    /\ UNCHANGED <<penState, penRecent, current_slot, osPen, osPad>>

\* A lift is handled even while the pen is in use.
TouchUp(id) ==
    /\ pc = "idle"
    /\ \E s \in Slot :
          /\ SlotOf(id, s)
          /\ Deactivate(s)
    /\ StartSync
    /\ UNCHANGED <<penState, penRecent, current_slot, osPen, osPad>>

EmitSlot(s) ==
    \/ /\ ~Wanted(s)
       /\ EmitLift
    \/ /\ Wanted(s)
       /\ osId' = IF reported_to_os[s] THEN osId
                  ELSE [osId EXCEPT ![osSlot'] = tracking_id[s]]
       /\ osPos' = [osPos EXCEPT ![osSlot'] = slotPos[s]]

\* Mutant of SyncSlot: the loop does not advance.
SyncSlotStays(s) ==
    /\ pc = "sync" /\ index = s
    /\ SelectSlot(s)
    /\ EmitSlot(s)
    /\ reported_to_os' = [reported_to_os EXCEPT ![s] = Wanted(s)]
    /\ UNCHANGED <<pc, event, index, active, tracking_id, slotPos, penState,
                   penRecent, osPen>>

\* One round of the loop of sync_touch_state_to_os.
SyncSlot(s) ==
    /\ pc = "sync" /\ index = s
    /\ \/ /\ reported_to_os[s] \/ Wanted(s)
          /\ SelectSlot(s)
          /\ EmitSlot(s)
          /\ reported_to_os' = [reported_to_os EXCEPT ![s] = Wanted(s)]
          /\ UNCHANGED <<active, tracking_id, slotPos>>
       \/ /\ ~reported_to_os[s] /\ ~Wanted(s)
          /\ UNCHANGED <<slotState, osPad>>
    /\ index' = index + 1
    /\ UNCHANGED <<pc, event, penState, penRecent, osPen>>

SyncSlotFails(s) ==
    /\ pc = "sync" /\ index = s
    /\ reported_to_os[s] \/ Wanted(s)
    /\ \/ SelectSlotFails(s)
       \/ /\ EmitMayFail
          /\ SelectSlot(s)
          /\ UNCHANGED <<touch_slots, osId, osPos>>
    /\ Return
    /\ UNCHANGED <<penState, penRecent, osPen>>

SyncDone ==
    /\ pc = "sync" /\ index = NumSlots
    /\ Return
    /\ UNCHANGED <<penState, penRecent, slotState, osPen, osPad>>

\* PALM_REJECTION_TIMEOUT elapses since the last pen event.
Timeout ==
    /\ penRecent
    /\ penRecent' = FALSE
    /\ UNCHANGED <<control, penState, slotState, osPen, osPad>>

---------------------------------------------------------------------------

StylusStep ==
    \/ \E s \in Slot : ReleaseSlot(s)
    \/ ReleaseDone
    \/ UpdateContact \/ UpdateUp \/ UpdateButton
    \/ EnterProximity \/ EmitStylus

TouchStep == (\E s \in Slot : SyncSlot(s)) \/ SyncDone

\* A write fails, and the handler returns with its error.
FailedStep ==
    \/ \E s \in Slot : ReleaseSlotFails(s) \/ SyncSlotFails(s)
    \/ ReleaseDoneFails
    \/ EnterProximityFails \/ EmitStylusFails

Handle ==
    \/ (StylusStep \/ TouchStep) /\ UNCHANGED failed
    \/ FailedStep /\ failed' = TRUE

TouchEvent ==
    \E id \in TouchId :
       \/ TouchUp(id)
       \/ \E p \in Pos : TouchDown(id, p) \/ TouchMove(id, p)

Next ==
    \/ (\E e \in PenEvents : BeginStylus(e)) /\ UNCHANGED failed
    \/ TouchEvent /\ UNCHANGED failed
    \/ Handle
    \/ Timeout /\ UNCHANGED failed

Spec == Init /\ [][Next]_vars

---------------------------------------------------------------------------
(* Properties.  Those that begin with ~failed say nothing once a write has  *)
(* failed: the handler then leaves the two sides apart for good.            *)

Contacts(s) == osId[s] # Lifted

\* While the pen was used less than a second ago the OS shows no finger and no
\* slot is active, although the release runs only on the first pen event after
\* a pause (tablet.rs:243-262): later pen events rely on it.
PalmRejected ==
    ~failed /\ pc = "idle" /\ penRecent => \A s \in Slot : ~active[s] /\ ~Contacts(s)

\* No finger is shown when the pen device is written (tablet.rs:252, "If this is the
\* FIRST pen event after a while, we should forcibly release any touches").
ReleasedBeforePen ==
    pc \in {"stylus", "proximity", "emit"} => \A s \in Slot : ~Contacts(s)

\* No pen event reaches an application beside a finger: whatever touches were
\* down have been lifted when the pen device is written (tablet.rs:252-262).
PenAlone == ~failed => ReleasedBeforePen

\* The OS shows slot s as it should: its id and last position when wanted.
Shown(s) ==
    IF Wanted(s) THEN /\ osId[s] = tracking_id[s]
                      /\ osPos[s] = slotPos[s]
                 ELSE ~Contacts(s)

\* When a handler has returned, the OS shows exactly the active slots if at
\* least two are active, each with its own id and last position, and nothing
\* otherwise: the cached current_slot and the reported_to_os flags, some of
\* them stale after a forced release, never make a write go to a wrong slot.
GestureFilter == ~failed /\ pc = "idle" => \A s \in Slot : Shown(s)

\* The inductive invariant behind them, while no write fails: the cached slot
\* is the kernel's; a slot the OS shows is marked reported, and a reported
\* slot that is active is shown under its own id; and what the handler at pc has
\* already done (the release of the lower slots, the sync of slots below index).
ReportedCovers ==
    \A s \in Slot : /\ Contacts(s) => reported_to_os[s]
                    /\ active[s] /\ reported_to_os[s] => osId[s] = tracking_id[s]

ReleasePending ==
    pc \in {"release", "releasing"} => \A s \in Slot : Contacts(s) => active[s]

StylusCleared ==
    pc \in {"stylus", "proximity", "emit"} \/ (pc = "idle" /\ penRecent)
    => \A s \in Slot : ~active[s] /\ ~Contacts(s)

SyncProgress ==
    pc = "sync" => ~penRecent /\ \A s \in Slot : s < index => Shown(s)

AllShown == pc = "idle" => \A s \in Slot : Shown(s)

TouchInv ==
    /\ osSlot = current_slot
    /\ ReportedCovers
    /\ ReleasePending
    /\ StylusCleared
    /\ SyncProgress
    /\ AllShown

\* No finger appears on the OS side while the pen is in use, whatever the order
\* of the events: a lift handled under palm rejection does not reveal others.
NoTouchUnderPen ==
    [][\A s \in Slot : ~failed /\ ~Contacts(s) /\ Contacts(s)' => ~penRecent]_vars

\* Applications read a positive pressure as a stroke: it is there only when the
\* tool touches, and at the end of every handler BTN_TOUCH is what the stylus
\* state says (tablet.rs:473-480).
PressureOnlyInStroke ==
    ~failed => /\ osPressure > 0 => osTouch /\ osNear
               /\ pc = "idle" => (osTouch <=> is_down)

\* MSC_SERIAL is sent once per session (tablet.rs:427), also when writes fail.
SerialOnce ==
    /\ osSerials =< 1
    /\ ~failed /\ in_proximity => osSerials = 1

\* Pressure is never reported for a hovering tool, even when writes fail.
HoverWithoutPressure == osPressure > 0 => osTool /\ osNear /\ in_proximity
=============================================================================
