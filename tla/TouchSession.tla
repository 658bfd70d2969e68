---------------------------- MODULE TouchSession ----------------------------
(***************************************************************************)
(* VirtualTablet driven by the fingers of a client: glass is the set of    *)
(* pointers on the client's screen.  As a rule the events of a pointer     *)
(* reach process_event in order, a TouchDown, then moves, then a TouchUp   *)
(* (InputCapture.kt:125-183); the exceptions are Swallow, a lift that is   *)
(* never sent, and OutOfTurn, events that overtake each other.  A pointer  *)
(* is in `rejected` once it was on the glass while the pen was in use, or  *)
(* found no free slot; it leaves the set when it is lifted.                *)
(*                                                                         *)
(* ClientLost is what the main loop does when a client leaves or another   *)
(* takes its place (main.rs:308-324, 364-369, 418-424): the retimer and    *)
(* the client are reset, the tablet is not told.  Cancel is the end of a   *)
(* gesture that the system takes over: every finger is gone and the lift   *)
(* of one is sent.  `orphaned` says that since the pen was used one of     *)
(* these four happened, so that the tablet may hold fingers that nobody    *)
(* will lift, or may have been told of none that is there.                 *)
(***************************************************************************)
EXTENDS VirtualTablet

VARIABLES glass, rejected, orphaned

sessionVars == <<glass, rejected, orphaned, vars>>

SessionInit == Init /\ glass = {} /\ rejected = {} /\ orphaned = FALSE

HasFreeSlot == \E s \in Slot : ~active[s]

FingerDown(id, p) ==
    /\ pc = "idle" /\ id \notin glass
    /\ glass' = glass \cup {id}
    /\ \/ TouchDown(id, p) /\ UNCHANGED rejected
       \/ /\ penRecent \/ ~HasFreeSlot
          /\ rejected' = rejected \cup {id}
          /\ UNCHANGED vars
    /\ UNCHANGED orphaned

FingerMove(id, p) ==
    /\ id \in glass
    /\ TouchMove(id, p)
    /\ UNCHANGED <<glass, rejected, orphaned>>

\* The lift of a finger without a slot has no effect.
Lift(id) ==
    \/ TouchUp(id)
    \/ (\A s \in Slot : ~SlotOf(id, s)) /\ UNCHANGED vars

FingerUp(id) ==
    /\ pc = "idle" /\ id \in glass
    /\ glass' = glass \ {id}
    /\ rejected' = rejected \ {id}
    /\ Lift(id)
    /\ UNCHANGED orphaned

Cancel(id) ==
    /\ pc = "idle" /\ id \in glass
    /\ glass' = {} /\ rejected' = {}
    /\ orphaned' = (orphaned \/ glass # {id})
    /\ Lift(id)

\* The finger leaves the glass and the client sends nothing: touch input was switched
\* off, or the event held a palm or began with another tool.
Swallow(id) ==
    /\ pc = "idle" /\ id \in glass
    /\ glass' = glass \ {id}
    /\ rejected' = rejected \ {id}
    /\ orphaned' = TRUE
    /\ UNCHANGED vars

\* Each event is sent by a coroutine of its own: a down or a lift of the finger is
\* overtaken by others, and comes when it does not belong.
OutOfTurn(id, p) ==
    /\ pc = "idle"
    /\ TouchDown(id, p) \/ Lift(id)
    /\ orphaned' = TRUE
    /\ UNCHANGED <<glass, rejected>>

PenEvent(e) ==
    /\ BeginStylus(e)
    /\ rejected' = glass
    /\ orphaned' = FALSE
    /\ UNCHANGED glass

ClientLost ==
    /\ pc = "idle"
    /\ glass' = {} /\ rejected' = {} /\ orphaned' = TRUE
    /\ UNCHANGED vars

SessionNext ==
    \/ \E id \in TouchId :
          /\ \/ FingerUp(id) \/ Cancel(id) \/ Swallow(id)
             \/ \E p \in Pos : \/ FingerDown(id, p) \/ FingerMove(id, p)
                               \/ OutOfTurn(id, p)
          /\ UNCHANGED failed
    \/ (\E e \in PenEvents : PenEvent(e)) /\ UNCHANGED failed
    \/ Handle /\ UNCHANGED <<glass, rejected, orphaned>>
    \/ Timeout /\ UNCHANGED <<failed, glass, rejected, orphaned>>
    \/ ClientLost

SessionSpec == SessionInit /\ [][SessionNext]_sessionVars

---------------------------------------------------------------------------

\* Every slot in use is a finger on the glass that was never rejected, and no finger has
\* two slots.
SlotsOwned ==
    \A s \in Slot : active[s] =>
        /\ tracking_id[s] \in glass \ rejected
        /\ \A t \in Slot \ {s} : active[t] =>
              tracking_id[t] # tracking_id[s]

\* A finger that rested on the glass while the pen was in use, or that found
\* no free slot, never becomes a contact: its moves stay ignored after the pen
\* has gone, until it is lifted.  The slots in use are those of the other fingers.
\* After a client was lost, a gesture cancelled, a lift swallowed or an event
\* overtaken this holds again from the next use of the pen on; after a failed write
\* nothing is said (tablet.rs:243-262, 557-611).
RejectedStaysRejected == ~failed /\ pc = "idle" /\ ~orphaned => SlotsOwned

AtMostOne(S) == \A a, b \in S : a = b

\* With at most one finger on the glass the OS shows none, unless another client,
\* a cancelled gesture or a lift that did not come in its turn left fingers behind,
\* or a write has failed.
OneFingerIgnored ==
    ~failed /\ pc = "idle" /\ ~orphaned /\ AtMostOne(glass)
    => \A s \in Slot : ~Contacts(s)
=============================================================================
