--------------------------- MODULE FrameReceiver ---------------------------
(***************************************************************************)
(* The client's end of the video stream: the fragments that UDP delivers   *)
(* are put together in assembleFragment (NetworkClient.kt:313-433) and the *)
(* frames wait for the decoder in a channel that drops its oldest.         *)
(*                                                                         *)
(* Frame n is sent as Count fragments; Count is above 1, since a frame of  *)
(* one packet passes through.  The network is external.  It loses and      *)
(* duplicates fragments, and it delivers one before another of an earlier  *)
(* frame, but never before one that is more than Reorder frames earlier.   *)
(* A frame's sequence number is its place in the stream: the client reads  *)
(* it as a signed 32-bit number, which a stream of 60 frames a second      *)
(* stays below for 414 days.  MaxFrames bounds the frames sent.            *)
(***************************************************************************)
EXTENDS Naturals, Sequences, FiniteSets

CONSTANTS MaxFrames, Count,
          MaxPending,       \* the frames that may be pending
          ChannelCap,       \* the capacity of videoPackets
          Reorder

ASSUME ReceiverAssumption ==
    /\ MaxFrames \in Nat /\ Count \in Nat \ {0, 1}
    /\ MaxPending \in Nat \ {0} /\ ChannelCap \in Nat \ {0}
    /\ Reorder \in Nat

VARIABLES
    sent,       \* how many frames were sent
    network,    \* the fragments under way
    delivered,  \* the fragments that have come
    copies,     \* the copies of them that UDP will deliver
    repeated,   \* history: the fragments that have come twice
    buffers,    \* fragmentBuffers: the parts that have come, for each sequence
    assembled,  \* the frames put together, in the order they were
    packets     \* the channel to the decoder

vars == <<sent, network, delivered, copies, repeated, buffers, assembled, packets>>

Frame    == 1 .. MaxFrames
Part     == 0 .. Count - 1
Fragment == [frame : Frame, part : Part]

Parts(n) == {[frame |-> n, part |-> p] : p \in Part}

TypeOK ==
    /\ sent \in 0 .. MaxFrames
    /\ network \subseteq Fragment /\ delivered \subseteq Fragment
    /\ copies \subseteq delivered /\ repeated \subseteq delivered
    /\ DOMAIN buffers \subseteq Frame
    /\ \A s \in DOMAIN buffers : buffers[s] \subseteq Part
    /\ assembled \in Seq(Frame)
    /\ packets \in Seq(Frame) /\ Len(packets) =< ChannelCap

Init ==
    /\ sent = 0
    /\ network = {} /\ delivered = {} /\ copies = {} /\ repeated = {}
    /\ buffers = [s \in {} |-> {}]
    /\ assembled = <<>> /\ packets = <<>>

---------------------------------------------------------------------------
(* The server and the network *)

Send ==
    /\ sent < MaxFrames
    /\ sent' = sent + 1
    /\ network' = network \cup Parts(sent')
    /\ UNCHANGED <<delivered, copies, repeated, buffers, assembled, packets>>

Lost(f) ==
    /\ network' = network \ {f}
    /\ UNCHANGED <<sent, delivered, copies, repeated, buffers, assembled, packets>>

\* f overtakes no fragment that is too far ahead of it.
InReach(f) == \A g \in network : f.frame =< g.frame + Reorder

---------------------------------------------------------------------------
(* The client *)

\* Mutant of Offer: the newest frame is dropped.
OfferOldest(q, n) == IF Len(q) = ChannelCap THEN q ELSE Append(q, n)

\* The channel drops its oldest frame to take another.
Offer(q, n) == Append(IF Len(q) = ChannelCap THEN Tail(q) ELSE q, n)

Pending(s) == IF s \in DOMAIN buffers THEN buffers[s] ELSE {}

Without(b, gone) == [s \in DOMAIN b \ gone |-> b[s]]

\* Mutant of Evicted: one pending frame too few.
EvictedEarly(b, current) ==
    {s \in DOMAIN b :
        /\ s < current
        /\ Cardinality({t \in DOMAIN b : t >= s}) >= MaxPending}

\* The sequences that are dropped while more than MaxPending are pending: the
\* lowest first, up to the one whose fragment has just come.
Evicted(b, current) ==
    {s \in DOMAIN b :
        /\ s < current
        /\ Cardinality({t \in DOMAIN b : t >= s}) > MaxPending}

\* Mutant of Assemble: the last fragment is not waited for.
AssembleEarly(f) ==
    LET s == f.frame
        parts == Pending(s) \cup {f.part}
        kept == [t \in DOMAIN buffers \cup {s} |->
                    IF t = s THEN parts ELSE buffers[t]]
    IN  \/ /\ Cardinality(parts) < Count - 1
           /\ buffers' = Without(kept, Evicted(kept, s))
           /\ UNCHANGED <<assembled, packets>>
        \/ /\ Cardinality(parts) >= Count - 1
           /\ buffers' = Without(kept, {s})
           /\ assembled' = Append(assembled, s)
           /\ packets' = Offer(packets, s)

\* assembleFragment, and the trySend of a frame that is complete.
Assemble(f) ==
    LET s == f.frame
        parts == Pending(s) \cup {f.part}
        kept == [t \in DOMAIN buffers \cup {s} |->
                    IF t = s THEN parts ELSE buffers[t]]
    IN  \/ /\ f.part \in Pending(s)         \* a duplicate
           /\ UNCHANGED <<buffers, assembled, packets>>
        \/ /\ f.part \notin Pending(s)
           /\ parts # Part
           /\ buffers' = Without(kept, Evicted(kept, s))
           /\ UNCHANGED <<assembled, packets>>
        \/ /\ f.part \notin Pending(s)
           /\ parts = Part
           /\ buffers' = Without(kept, {s})
           /\ assembled' = Append(assembled, s)
           /\ packets' = Offer(packets, s)

Receive(f) ==
    /\ InReach(f)
    /\ network' = network \ {f}
    /\ delivered' = delivered \cup {f}
    /\ \/ UNCHANGED copies
       \/ copies' = copies \cup {f}
    /\ Assemble(f)
    /\ UNCHANGED <<sent, repeated>>

ReceiveAgain(f) ==
    /\ copies' = copies \ {f}
    /\ repeated' = repeated \cup {f}
    /\ Assemble(f)
    /\ UNCHANGED <<sent, network, delivered>>

\* The decoder takes a frame.
Take ==
    /\ packets # <<>>
    /\ packets' = Tail(packets)
    /\ UNCHANGED <<sent, network, delivered, copies, repeated, buffers, assembled>>

---------------------------------------------------------------------------
Next ==
    \/ Send
    \/ \E f \in network : Lost(f) \/ Receive(f)
    \/ \E f \in copies : ReceiveAgain(f)
    \/ Take

Spec == Init /\ [][Next]_vars

---------------------------------------------------------------------------
(* Properties *)

Finished(n) == \E i \in DOMAIN assembled : assembled[i] = n

\* A frame whose fragments all came is put together, whatever was lost, repeated or
\* late around it: eviction takes no frame that is still coming in as long as fewer
\* than MaxPending newer frames overtake it (NetworkClient.kt:401-412).
Complete == \A n \in Frame : Parts(n) \subseteq delivered => Finished(n)

\* A frame is put together only from fragments that came, and a second time only
\* when each of them came twice: a buffer that a repeated fragment of a finished
\* frame starts is never filled with fragments of another round.
Rounds(n) == Cardinality({i \in DOMAIN assembled : assembled[i] = n})

OncePerRound ==
    \A n \in Frame :
        /\ Rounds(n) =< 2
        /\ Rounds(n) >= 1 => Parts(n) \subseteq delivered
        /\ Rounds(n) = 2 => Parts(n) \subseteq repeated

\* The decoder is offered the frames that were put together last, as many as the
\* channel holds.
ChannelIsNewest ==
    /\ Len(packets) =< ChannelCap
    /\ \E k \in 0 .. Len(assembled) :
          packets = SubSeq(assembled, k + 1, Len(assembled))
=============================================================================
