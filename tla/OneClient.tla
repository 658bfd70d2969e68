----------------------------- MODULE OneClient -----------------------------
(***************************************************************************)
(* What the server promises its clients, without channels, tasks or a      *)
(* loop: there is one current client; a newer connection takes its place;  *)
(* a connection joins only when it was offered the place while it was the  *)
(* current client, and joins once; work is done only for the current       *)
(* client, and only what a client that had joined asked for.  Session      *)
(* implements this.                                                        *)
(***************************************************************************)
EXTENDS Naturals

CONSTANT MaxConns

Conn  == 1 .. MaxConns
Phase == {"outside", "joined", "gone"}

VARIABLES newest,   \* how many connections have arrived; they are numbered
          current,  \* the current client, 0 if there is none
          offers,   \* who has been offered the place and has not heard of it yet
          phase,    \* what a client believes of itself
          asked,    \* who has asked for work to be done
          served    \* whose work was done last

vars == <<newest, current, offers, phase, asked, served>>

Init ==
    /\ newest = 0 /\ current = 0 /\ served = 0
    /\ offers = {} /\ asked = {}
    /\ phase = [c \in Conn |-> "outside"]

\* A connection arrives; it is the current client, or it is turned away.
Arrive ==
    /\ newest < MaxConns
    /\ newest' = newest + 1
    /\ current' \in {current, newest'}
    /\ UNCHANGED <<offers, phase, asked, served>>

Offer ==
    /\ current # 0
    /\ offers' = offers \cup {current}
    /\ UNCHANGED <<newest, current, phase, asked, served>>

\* An offer is lost on its way.
Miss(c) ==
    /\ offers' = offers \ {c}
    /\ UNCHANGED <<newest, current, phase, asked, served>>

Join(c) ==
    /\ phase[c] = "outside" /\ c \in offers
    /\ phase' = [phase EXCEPT ![c] = "joined"]
    /\ offers' \in {offers, offers \ {c}}
    /\ UNCHANGED <<newest, current, asked, served>>

\* A client gives up, is refused, loses the connection or leaves.
Part(c) ==
    /\ phase[c] # "gone"
    /\ phase' = [phase EXCEPT ![c] = "gone"]
    /\ offers' \in {offers, offers \ {c}}
    /\ UNCHANGED <<newest, current, asked, served>>

Ask(c) ==
    /\ phase[c] = "joined"
    /\ asked' = asked \cup {c}
    /\ UNCHANGED <<newest, current, offers, phase, served>>

Serve ==
    /\ current \in asked
    /\ served' = current
    /\ UNCHANGED <<newest, current, offers, phase, asked>>

\* The server gives the place of the current client up.
Forget ==
    /\ current' = 0
    /\ UNCHANGED <<newest, offers, phase, asked, served>>

Next ==
    \/ \E c \in Conn : Miss(c) \/ Join(c) \/ Part(c) \/ Ask(c)
    \/ Arrive \/ Offer \/ Serve \/ Forget

Spec == Init /\ [][Next]_vars
=============================================================================
