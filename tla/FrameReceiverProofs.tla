------------------------ MODULE FrameReceiverProofs ------------------------
(***************************************************************************)
(* Proofs about FrameReceiver for every number of frames and fragments,    *)
(* every capacity and any reordering: types, that the channel holds the    *)
(* newest frames, that a frame is put together once for each time all its  *)
(* fragments came, and that none whose fragments came is missed.           *)
(***************************************************************************)
EXTENDS FrameReceiver, SequenceTheorems, FiniteSetTheorems, TLAPS

\* What the arrival of a fragment does to the buffers and the frames.
LEMMA AssembleFacts ==
    ASSUME TypeOK, NEW f \in Fragment, Assemble(f)
    PROVE  /\ DOMAIN buffers' \subseteq Frame
           /\ \A s \in DOMAIN buffers' : buffers'[s] \subseteq Part
           /\ \A s \in DOMAIN buffers' :
                 \/ s \in DOMAIN buffers /\ buffers'[s] = buffers[s]
                 \/ s = f.frame /\ buffers'[s] = Pending(s) \cup {f.part}
           /\ \/ UNCHANGED <<assembled, packets>>
              \/ /\ assembled' = Append(assembled, f.frame)
                 /\ packets' = Offer(packets, f.frame)
                 /\ Pending(f.frame) \cup {f.part} = Part
                 /\ f.frame \notin DOMAIN buffers'
<1> DEFINE s == f.frame
           parts == Pending(s) \cup {f.part}
           kept == [t \in DOMAIN buffers \cup {s} |-> IF t = s THEN parts ELSE buffers[t]]
<1>1. s \in Frame /\ parts \subseteq Part
    BY DEF Fragment, Pending, TypeOK
<1>2. \A gone : \A t \in DOMAIN Without(kept, gone) :
        /\ t \in DOMAIN buffers \cup {s} /\ t \notin gone
        /\ Without(kept, gone)[t] = IF t = s THEN parts ELSE buffers[t]
    BY DEF Without
<1>3. CASE UNCHANGED <<buffers, assembled, packets>>
    BY <1>3 DEF TypeOK
<1>4. CASE /\ buffers' = Without(kept, Evicted(kept, s))
           /\ UNCHANGED <<assembled, packets>>
    <2> HIDE DEF kept, parts, s
    <2>1. \A t \in DOMAIN buffers' :
            /\ t \in DOMAIN buffers \cup {s}
            /\ buffers'[t] = IF t = s THEN parts ELSE buffers[t]
        BY <1>2, <1>4
    <2> QED  BY <1>1, <1>4, <2>1 DEF TypeOK, parts, s
<1>5. CASE /\ parts = Part
           /\ buffers' = Without(kept, {s})
           /\ assembled' = Append(assembled, s)
           /\ packets' = Offer(packets, s)
    <2> HIDE DEF kept, parts, s
    <2>1. \A t \in DOMAIN buffers' :
            /\ t \in DOMAIN buffers \cup {s} /\ t # s
            /\ buffers'[t] = IF t = s THEN parts ELSE buffers[t]
        BY <1>2, <1>5
    <2>2. \A t \in DOMAIN buffers' : t \in DOMAIN buffers /\ buffers'[t] = buffers[t]
        BY <2>1
    <2> QED  BY <1>1, <1>5, <2>1, <2>2 DEF TypeOK, parts, s
<1> QED
    BY <1>3, <1>4, <1>5 DEF Assemble

\* A channel that takes a frame keeps its bound and ends with the frame.
LEMMA OfferFacts ==
    ASSUME NEW q \in Seq(Frame), Len(q) =< ChannelCap, NEW n \in Frame
    PROVE  /\ Offer(q, n) \in Seq(Frame)
           /\ Len(Offer(q, n)) =< ChannelCap
           /\ Len(Offer(q, n)) \in 1 .. Len(q) + 1
           /\ Offer(q, n)[Len(Offer(q, n))] = n
           /\ \A i \in 1 .. Len(Offer(q, n)) - 1 :
                 Offer(q, n)[i] = q[i + (Len(q) + 1 - Len(Offer(q, n)))]
<1>1. CASE Len(q) = ChannelCap
    <2>1. q # <<>> /\ Offer(q, n) = Append(Tail(q), n)
        BY <1>1, ReceiverAssumption DEF Offer
    <2>2. /\ Tail(q) \in Seq(Frame) /\ Len(Tail(q)) = Len(q) - 1
          /\ \A i \in 1 .. Len(Tail(q)) : Tail(q)[i] = q[i + 1]
        BY <2>1, HeadTailProperties
    <2> QED  BY <1>1, <2>1, <2>2, ReceiverAssumption
<1>2. CASE Len(q) # ChannelCap
    <2>1. Offer(q, n) = Append(q, n)
        BY <1>2 DEF Offer
    <2>2. Len(q) \in Nat /\ Len(q) < ChannelCap
        BY <1>2, LenProperties, ReceiverAssumption
    <2>3. /\ Append(q, n) \in Seq(Frame) /\ Len(Append(q, n)) = Len(q) + 1
          /\ \A i \in 1 .. Len(q) : Append(q, n)[i] = q[i]
          /\ Append(q, n)[Len(q) + 1] = n
        BY AppendProperties
    <2> QED  BY <2>1, <2>2, <2>3, ReceiverAssumption
<1> QED  BY <1>1, <1>2

---------------------------------------------------------------------------
(* Types *)

LEMMA TypeInit == Init => TypeOK
<1> SUFFICES ASSUME Init
             PROVE  TypeOK
    OBVIOUS
<1>1. sent \in 0 .. MaxFrames
    BY ReceiverAssumption DEF Init
<1>2. network \subseteq Fragment /\ delivered \subseteq Fragment
    BY DEF Init
<1>3. copies \subseteq delivered /\ repeated \subseteq delivered
    BY DEF Init
<1>4. DOMAIN buffers = {}
    BY DEF Init
<1>5. assembled \in Seq(Frame) /\ packets \in Seq(Frame) /\ Len(packets) =< ChannelCap
    BY EmptySeq, ReceiverAssumption DEF Init
<1> QED
    BY <1>1, <1>2, <1>3, <1>4, <1>5 DEF TypeOK

\* The arrival of a fragment keeps the types of the buffers and the frames.
LEMMA TypeAssemble ==
    ASSUME TypeOK, NEW f \in Fragment, Assemble(f)
    PROVE  /\ DOMAIN buffers' \subseteq Frame
           /\ \A s \in DOMAIN buffers' : buffers'[s] \subseteq Part
           /\ assembled' \in Seq(Frame)
           /\ packets' \in Seq(Frame) /\ Len(packets') =< ChannelCap
<1>1. f.frame \in Frame
    BY DEF Fragment
<1>2. CASE UNCHANGED <<assembled, packets>>
    BY <1>2, AssembleFacts DEF TypeOK
<1>3. CASE assembled' = Append(assembled, f.frame) /\ packets' = Offer(packets, f.frame)
    <2>1. assembled \in Seq(Frame) /\ packets \in Seq(Frame) /\ Len(packets) =< ChannelCap
        BY DEF TypeOK
    <2>2. packets' \in Seq(Frame) /\ Len(packets') =< ChannelCap
        BY <1>1, <1>3, <2>1, OfferFacts
    <2>3. assembled' \in Seq(Frame)
        BY <1>1, <1>3, <2>1, AppendProperties
    <2> QED  BY <2>2, <2>3, AssembleFacts
<1> QED  BY <1>2, <1>3, AssembleFacts

LEMMA TypeNext == TypeOK /\ [Next]_vars => TypeOK'
<1> SUFFICES ASSUME TypeOK, [Next]_vars
             PROVE  TypeOK'
    OBVIOUS
<1>1. CASE Send
    <2>1. sent' \in 1 .. MaxFrames
        BY <1>1, ReceiverAssumption DEF Send, TypeOK
    <2>2. Parts(sent') \subseteq Fragment
        BY <2>1 DEF Parts, Fragment, Frame
    <2>3. network' \subseteq Fragment
        BY <1>1, <2>2 DEF Send, TypeOK
    <2>4. sent' \in 0 .. MaxFrames
        BY <2>1
    <2>5. UNCHANGED <<delivered, copies, repeated, buffers, assembled, packets>>
        BY <1>1 DEF Send
    <2> QED  BY <2>3, <2>4, <2>5 DEF TypeOK
<1>2. ASSUME NEW f \in network, Lost(f)
      PROVE  TypeOK'
    BY <1>2 DEF Lost, TypeOK
<1>3. ASSUME NEW f \in network, Receive(f)
      PROVE  TypeOK'
    <2>1. f \in Fragment /\ Assemble(f)
        BY <1>3 DEF TypeOK, Receive
    <2> QED  BY <1>3, <2>1, TypeAssemble DEF Receive, TypeOK
<1>4. ASSUME NEW f \in copies, ReceiveAgain(f)
      PROVE  TypeOK'
    <2>1. f \in Fragment /\ Assemble(f)
        BY <1>4 DEF TypeOK, ReceiveAgain
    <2> QED  BY <1>4, <2>1, TypeAssemble DEF ReceiveAgain, TypeOK
<1>5. CASE Take
    <2>1. packets' \in Seq(Frame) /\ Len(packets') =< ChannelCap
        BY <1>5, HeadTailProperties, ReceiverAssumption DEF Take, TypeOK
    <2> QED  BY <1>5, <2>1 DEF Take, TypeOK
<1>6. CASE UNCHANGED vars
    BY <1>6 DEF vars, TypeOK
<1> QED
    BY <1>1, <1>2, <1>3, <1>4, <1>5, <1>6 DEF Next

\* Every variable keeps its type; the channel to the decoder keeps its bound.
THEOREM TypeCorrect == Spec => []TypeOK
BY TypeInit, TypeNext, PTL DEF Spec

---------------------------------------------------------------------------
(* The channel to the decoder *)

\* The waiting frames, counted from the newest frame put together.
Newest ==
    /\ Len(packets) =< Len(assembled)
    /\ \A i \in 1 .. Len(packets) :
          packets[i] = assembled[i + (Len(assembled) - Len(packets))]

LEMMA NewestAssemble ==
    ASSUME TypeOK, Newest, NEW f \in Fragment, Assemble(f)
    PROVE  Newest'
<1>1. CASE UNCHANGED <<assembled, packets>>
    BY <1>1 DEF Newest
<1>2. CASE assembled' = Append(assembled, f.frame) /\ packets' = Offer(packets, f.frame)
    <2> DEFINE q == Offer(packets, f.frame)
               a == Append(assembled, f.frame)
    <2>1. /\ assembled \in Seq(Frame) /\ packets \in Seq(Frame) /\ Len(packets) =< ChannelCap
          /\ f.frame \in Frame /\ Len(assembled) \in Nat /\ Len(packets) \in Nat
        BY LenProperties DEF TypeOK, Fragment
    <2>2. /\ Len(q) \in 1 .. Len(packets) + 1
          /\ q[Len(q)] = f.frame
          /\ \A i \in 1 .. Len(q) - 1 : q[i] = packets[i + (Len(packets) + 1 - Len(q))]
        BY <2>1, OfferFacts
    <2>3. /\ Len(a) = Len(assembled) + 1
          /\ \A i \in 1 .. Len(assembled) : a[i] = assembled[i]
          /\ a[Len(assembled) + 1] = f.frame
        BY <2>1, AppendProperties
    <2> HIDE DEF q, a
    <2>4. Len(q) =< Len(a)
        BY <2>1, <2>2, <2>3 DEF Newest
    <2>5. ASSUME NEW i \in 1 .. Len(q)
          PROVE  q[i] = a[i + (Len(a) - Len(q))]
        <3>1. CASE i = Len(q)
            BY <2>1, <2>2, <2>3, <3>1
        <3>2. CASE i # Len(q)
            <4> DEFINE j == i + (Len(packets) + 1 - Len(q))
            <4>1. i \in 1 .. Len(q) - 1 /\ j \in 1 .. Len(packets) /\ q[i] = packets[j]
                BY <2>1, <2>2, <3>2
            <4>2. packets[j] = assembled[j + (Len(assembled) - Len(packets))]
                BY <4>1 DEF Newest
            <4>3. /\ j + (Len(assembled) - Len(packets)) = i + (Len(a) - Len(q))
                  /\ i + (Len(a) - Len(q)) \in 1 .. Len(assembled)
                BY <2>1, <2>2, <2>3, <4>1 DEF Newest
            <4> QED  BY <2>3, <4>1, <4>2, <4>3
        <3> QED  BY <3>1, <3>2
    <2> QED  BY <1>2, <2>4, <2>5 DEF Newest, q, a
<1> QED  BY <1>1, <1>2, AssembleFacts

LEMMA NewestNext == TypeOK /\ Newest /\ [Next]_vars => Newest'
<1> SUFFICES ASSUME TypeOK, Newest, [Next]_vars
             PROVE  Newest'
    OBVIOUS
<1>1. CASE UNCHANGED <<assembled, packets>>
    BY <1>1 DEF Newest
<1>2. ASSUME NEW f \in Fragment, Assemble(f)
      PROVE  Newest'
    BY <1>2, NewestAssemble
<1>3. CASE Take
    <2>1. /\ packets' = Tail(packets) /\ assembled' = assembled
          /\ packets \in Seq(Frame) /\ assembled \in Seq(Frame)
          /\ Len(packets') = Len(packets) - 1
          /\ \A i \in 1 .. Len(packets) - 1 : packets'[i] = packets[i + 1]
        BY <1>3, HeadTailProperties DEF Take, TypeOK
    <2>2. /\ Len(packets) \in Nat /\ Len(assembled) \in Nat
          /\ Len(assembled') = Len(assembled) /\ Len(packets') = Len(packets) - 1
        BY <2>1, LenProperties
    <2>3. ASSUME NEW i \in 1 .. Len(packets')
          PROVE  packets'[i] = assembled'[i + (Len(assembled') - Len(packets'))]
        <3>1. i + 1 \in 1 .. Len(packets) /\ packets'[i] = packets[i + 1]
            BY <2>1, <2>2
        <3>2. packets[i + 1] = assembled[i + 1 + (Len(assembled) - Len(packets))]
            BY <3>1 DEF Newest
        <3>3. i + 1 + (Len(assembled) - Len(packets))
                 = i + (Len(assembled') - Len(packets'))
            BY <2>2
        <3> QED  BY <2>1, <3>1, <3>2, <3>3
    <2>4. Len(packets') =< Len(assembled')
        BY <2>2 DEF Newest
    <2> QED  BY <2>3, <2>4 DEF Newest
<1>4. Send => UNCHANGED <<assembled, packets>>
    BY DEF Send
<1>5. \A f : Lost(f) => UNCHANGED <<assembled, packets>>
    BY DEF Lost
<1>6. \A f \in network : Receive(f) => f \in Fragment /\ Assemble(f)
    BY DEF Receive, TypeOK
<1>7. \A f \in copies : ReceiveAgain(f) => f \in Fragment /\ Assemble(f)
    BY DEF ReceiveAgain, TypeOK
<1>8. UNCHANGED vars => UNCHANGED <<assembled, packets>>
    BY DEF vars
<1> QED
    BY <1>1, <1>2, <1>3, <1>4, <1>5, <1>6, <1>7, <1>8 DEF Next

LEMMA NewestIsNewest == TypeOK /\ Newest => ChannelIsNewest
<1> SUFFICES ASSUME TypeOK, Newest
             PROVE  ChannelIsNewest
    OBVIOUS
<1> DEFINE k == Len(assembled) - Len(packets)
           s == SubSeq(assembled, k + 1, Len(assembled))
<1>1. /\ assembled \in Seq(Frame) /\ packets \in Seq(Frame)
      /\ Len(assembled) \in Nat /\ Len(packets) \in Nat
      /\ \A i \in 1 .. Len(assembled) : assembled[i] \in Frame
    BY LenProperties DEF TypeOK
<1>2. k \in 0 .. Len(assembled)
    BY <1>1 DEF Newest
<1>3. /\ s \in Seq(Frame)
      /\ Len(s) = Len(packets)
      /\ \A i \in 1 .. Len(packets) : s[i] = assembled[i + k]
    <2>1. /\ s \in Seq(Frame)
          /\ Len(s) = IF k + 1 =< Len(assembled) THEN Len(assembled) - (k + 1) + 1 ELSE 0
          /\ \A i \in 1 .. Len(assembled) - (k + 1) + 1 : s[i] = assembled[k + 1 + i - 1]
        <3>1. \A i \in k + 1 .. Len(assembled) : assembled[i] \in Frame
            BY <1>1, <1>2
        <3>2. k + 1 \in Int /\ Len(assembled) \in Int
            BY <1>1, <1>2
        <3> HIDE DEF k
        <3> QED  BY <3>1, <3>2, SubSeqProperties
    <2>2. Len(assembled) - (k + 1) + 1 = Len(packets)
        BY <1>1
    <2>3. k + 1 =< Len(assembled) \/ Len(packets) = 0
        BY <1>1
    <2>4. \A i \in 1 .. Len(packets) : k + 1 + i - 1 = i + k
        BY <1>1
    <2> HIDE DEF s, k
    <2>5. Len(s) = Len(packets)
        <3>1. CASE k + 1 =< Len(assembled)
            BY <2>1, <2>2, <3>1
        <3>2. CASE ~(k + 1 =< Len(assembled))
            BY <2>1, <2>3, <3>2
        <3> QED  BY <3>1, <3>2
    <2>6. \A i \in 1 .. Len(packets) : s[i] = assembled[i + k]
        BY <2>1, <2>2, <2>4
    <2> QED  BY <2>1, <2>5, <2>6
<1>4. packets = s
    <2>1. \A i \in 1 .. Len(packets) : packets[i] = s[i]
        BY <1>3 DEF Newest
    <2> HIDE DEF s
    <2> QED  BY <1>1, <1>3, <2>1, SeqEqual
<1> QED  BY <1>2, <1>4 DEF ChannelIsNewest, TypeOK

\* What waits for the decoder is the last frames put together, none missing and
\* none twice, and never more than the channel holds (NetworkClient.kt:92, 421).
THEOREM ChannelCorrect == Spec => []ChannelIsNewest
<1>1. Init => Newest
    BY EmptySeq DEF Init, Newest
<1> QED  BY <1>1, TypeInit, TypeNext, NewestNext, NewestIsNewest, PTL DEF Spec

---------------------------------------------------------------------------
(* Frames put together once for each time their fragments come *)

\* A fragment comes from the network once and from the copies once, and the
\* buffers hold what came: a first round needs every fragment to have come, and
\* what is pending after it came a second time.
FromDeliveries ==
    /\ \A f \in delivered : f.frame =< sent
    /\ network \cap delivered = {}
    /\ copies \cap repeated = {}
    /\ \A n \in Frame : \A p \in Pending(n) : [frame |-> n, part |-> p] \in delivered

RoundsOf(n) ==
    /\ Rounds(n) \in 0 .. 2
    /\ Rounds(n) >= 1 =>
          /\ Parts(n) \subseteq delivered
          /\ \A p \in Pending(n) : [frame |-> n, part |-> p] \in repeated
    /\ Rounds(n) = 2 => Parts(n) \subseteq repeated

\* What is on its way was sent.
WasSent == \A f \in network : f.frame =< sent

RoundInv == FromDeliveries /\ \A n \in Frame : RoundsOf(n)

LEMMA RoundInvImplies == RoundInv => OncePerRound
BY DEF RoundInv, RoundsOf, OncePerRound

\* Appending a frame adds one to its rounds and nothing to those of another.
LEMMA RoundsAppend ==
    ASSUME TypeOK, NEW n \in Frame, NEW s \in Frame, assembled' = Append(assembled, s)
    PROVE  Rounds(n)' = IF s = n THEN Rounds(n) + 1 ELSE Rounds(n)
<1> DEFINE Old == {i \in DOMAIN assembled : assembled[i] = n}
           New == {i \in DOMAIN assembled' : assembled'[i] = n}
<1>1. /\ assembled \in Seq(Frame) /\ Len(assembled) \in Nat
      /\ DOMAIN assembled = 1 .. Len(assembled)
    BY LenProperties DEF TypeOK
<1>2. /\ Len(assembled') = Len(assembled) + 1 /\ assembled' \in Seq(Frame)
      /\ \A i \in 1 .. Len(assembled) : assembled'[i] = assembled[i]
      /\ assembled'[Len(assembled) + 1] = s
    BY <1>1, AppendProperties
<1>3. DOMAIN assembled' = 1 .. Len(assembled) + 1
    BY <1>2, LenProperties
<1>4. IsFiniteSet(Old)
    <2>1. IsFiniteSet(1 .. Len(assembled))
        BY <1>1, FS_Interval
    <2> QED  BY <1>1, <2>1, FS_Subset
<1>5. Len(assembled) + 1 \notin Old
    BY <1>1
<1>6. New = IF s = n THEN Old \cup {Len(assembled) + 1} ELSE Old
    BY <1>1, <1>2, <1>3
<1>7. Cardinality(New) = IF s = n THEN Cardinality(Old) + 1 ELSE Cardinality(Old)
    <2> HIDE DEF Old, New
    <2> QED  BY <1>4, <1>5, <1>6, FS_AddElement
<1>8. Rounds(n) = Cardinality(Old) /\ Rounds(n)' = Cardinality(New)
    BY DEF Rounds
<1> QED  BY <1>7, <1>8

\* A fragment keeps the invariant when it comes from the network, where nothing
\* that came before is, or a second time, from the copies.
LEMMA RoundAssemble ==
    ASSUME TypeOK, RoundInv, NEW f \in Fragment, Assemble(f),
           delivered' = delivered \cup {f},
           network' \cap delivered' = {},
           UNCHANGED sent, f.frame =< sent,
           \/ f \in network /\ repeated' = repeated /\ copies' \subseteq copies \cup {f}
           \/ f \in copies /\ repeated' = repeated \cup {f} /\ copies' = copies \ {f}
    PROVE  RoundInv'
<1>1. f.frame \in Frame /\ f.part \in Part /\ f = [frame |-> f.frame, part |-> f.part]
    BY DEF Fragment
<1>2. \A n \in Frame : Pending(n)' \subseteq
         Pending(n) \cup (IF n = f.frame THEN {f.part} ELSE {})
    BY AssembleFacts DEF Pending
<1>3. FromDeliveries'
    <2>1. \A g \in delivered' : g.frame =< sent'
        BY DEF RoundInv, FromDeliveries
    <2>2. network' \cap delivered' = {}
        BY DEF RoundInv, FromDeliveries
    <2>3. copies' \cap repeated' = {}
        BY DEF RoundInv, FromDeliveries, TypeOK
    <2>4. ASSUME NEW n \in Frame, NEW p \in Pending(n)'
          PROVE  [frame |-> n, part |-> p] \in delivered'
        BY <1>1, <1>2 DEF RoundInv, FromDeliveries
    <2> QED  BY <2>1, <2>2, <2>3, <2>4 DEF FromDeliveries
<1>4. ASSUME NEW n \in Frame
      PROVE  RoundsOf(n)'
    <2>1. RoundsOf(n) /\ Rounds(n) \in 0 .. 2
        BY DEF RoundInv, RoundsOf
    <2>2. repeated \subseteq repeated' /\ delivered \subseteq delivered'
        OBVIOUS
    \* A fragment of a frame that has had a round comes from the copies.
    <2>3. n = f.frame /\ Rounds(n) >= 1 => f \in repeated' /\ f \notin repeated
        <3> SUFFICES ASSUME n = f.frame, Rounds(n) >= 1
                     PROVE  f \in repeated' /\ f \notin repeated
            OBVIOUS
        <3>1. f \in Parts(n)
            BY <1>1 DEF Parts
        <3>2. f \in delivered
            BY <2>1, <3>1 DEF RoundsOf
        <3> QED  BY <3>2 DEF RoundInv, FromDeliveries
    <2>4. Rounds(n) >= 1 => \A p \in Pending(n)' : [frame |-> n, part |-> p] \in repeated'
        BY <1>1, <1>2, <2>1, <2>2, <2>3 DEF RoundsOf
    <2>5. CASE Rounds(n)' = Rounds(n)
        BY <2>1, <2>2, <2>4, <2>5 DEF RoundsOf
    <2>6. CASE Rounds(n)' # Rounds(n)
        <3>1. /\ n = f.frame /\ Rounds(n)' = Rounds(n) + 1
              /\ Pending(n) \cup {f.part} = Part /\ n \notin DOMAIN buffers'
            <4>1. CASE UNCHANGED <<assembled, packets>>
                BY <2>6, <4>1 DEF Rounds
            <4>2. CASE ~UNCHANGED <<assembled, packets>>
                BY <1>1, <2>6, <4>2, AssembleFacts, RoundsAppend
            <4> QED  BY <4>1, <4>2
        <3>2. Pending(n)' = {}
            BY <3>1 DEF Pending
        <3>3. Parts(n) \subseteq delivered'
            BY <1>1, <3>1 DEF Parts, RoundInv, FromDeliveries
        <3>4. Rounds(n) >= 1 => Parts(n) \subseteq repeated'
            BY <1>1, <2>1, <2>2, <2>3, <3>1 DEF Parts, RoundsOf
        <3>5. Rounds(n) # 2
            BY <1>1, <2>1, <2>3, <3>1 DEF Parts, RoundsOf
        <3> QED  BY <2>1, <3>1, <3>2, <3>3, <3>4, <3>5 DEF RoundsOf
    <2> QED  BY <2>5, <2>6
<1> QED  BY <1>3, <1>4 DEF RoundInv

LEMMA WasSentNext == TypeOK /\ WasSent /\ [Next]_vars => WasSent'
<1> SUFFICES ASSUME TypeOK, WasSent, [Next]_vars
             PROVE  WasSent'
    OBVIOUS
<1>1. CASE Send
    <2>1. \A f \in network : f.frame \in Nat
        BY DEF TypeOK, Fragment, Frame
    <2>2. \A f \in Parts(sent') : f.frame = sent'
        BY DEF Parts
    <2> QED  BY <1>1, <2>1, <2>2 DEF Send, WasSent, TypeOK
<1>2. CASE network' \subseteq network /\ UNCHANGED sent
    BY <1>2 DEF WasSent
<1>3. Take \/ UNCHANGED vars => network' \subseteq network /\ UNCHANGED sent
    BY DEF Take, vars
<1>4. \A f : Lost(f) \/ Receive(f) \/ ReceiveAgain(f)
                => network' \subseteq network /\ UNCHANGED sent
    BY DEF Lost, Receive, ReceiveAgain
<1> QED
    BY <1>1, <1>2, <1>3, <1>4 DEF Next

LEMMA RoundNext == TypeOK /\ WasSent /\ RoundInv /\ [Next]_vars => RoundInv'
<1> SUFFICES ASSUME TypeOK, WasSent, RoundInv, [Next]_vars
             PROVE  RoundInv'
    OBVIOUS
<1>1. CASE /\ UNCHANGED <<delivered, copies, repeated, buffers, assembled>>
           /\ sent' \in {sent, sent + 1} /\ network' \cap delivered' = {}
    <2>1. \A n : Rounds(n)' = Rounds(n) /\ Pending(n)' = Pending(n)
        BY <1>1 DEF Rounds, Pending
    <2>2. \A n \in Frame : RoundsOf(n)'
        BY <1>1, <2>1 DEF RoundInv, RoundsOf
    <2>3. \A f \in delivered' : f.frame =< sent'
        <3>1. sent \in Nat /\ \A f \in delivered : f.frame \in Nat /\ f.frame =< sent
            BY DEF RoundInv, FromDeliveries, TypeOK, Fragment, Frame
        <3> QED  BY <1>1, <3>1
    <2> QED  BY <1>1, <2>1, <2>2, <2>3 DEF RoundInv, FromDeliveries
<1>2. CASE Send
    <2>1. \A f \in Parts(sent') : f \notin delivered
        BY <1>2 DEF Send, Parts, RoundInv, FromDeliveries, TypeOK
    <2>2. network' \cap delivered' = {}
        BY <1>2, <2>1 DEF Send, RoundInv, FromDeliveries
    <2>3. sent' \in {sent, sent + 1}
        BY <1>2 DEF Send, TypeOK
    <2> QED  BY <1>1, <1>2, <2>2, <2>3 DEF Send
<1>3. ASSUME NEW f \in network, Lost(f)
      PROVE  RoundInv'
    <2>1. network' \cap delivered' = {} /\ sent' \in {sent, sent + 1}
        BY <1>3 DEF Lost, RoundInv, FromDeliveries, TypeOK
    <2> QED  BY <1>1, <1>3, <2>1 DEF Lost
<1>4. ASSUME NEW f \in network, Receive(f)
      PROVE  RoundInv'
    <2>1. f \in Fragment /\ Assemble(f) /\ f.frame =< sent
        BY <1>4 DEF Receive, TypeOK, WasSent
    <2>2. delivered' = delivered \cup {f} /\ UNCHANGED sent
        BY <1>4 DEF Receive
    <2>3. network' \cap delivered' = {}
        BY <1>4 DEF Receive, RoundInv, FromDeliveries
    <2>4. f \in network /\ repeated' = repeated /\ copies' \subseteq copies \cup {f}
        BY <1>4 DEF Receive
    <2> QED  BY <2>1, <2>2, <2>3, <2>4, RoundAssemble
<1>5. ASSUME NEW f \in copies, ReceiveAgain(f)
      PROVE  RoundInv'
    <2>1. /\ f \in Fragment /\ Assemble(f) /\ f.frame =< sent
          /\ f \in delivered
        BY <1>5 DEF ReceiveAgain, TypeOK, RoundInv, FromDeliveries
    <2>2. /\ delivered' = delivered \cup {f} /\ network' \cap delivered' = {}
          /\ repeated' = repeated \cup {f} /\ copies' = copies \ {f} /\ UNCHANGED sent
        BY <1>5, <2>1 DEF ReceiveAgain, RoundInv, FromDeliveries
    <2> QED  BY <2>1, <2>2, RoundAssemble
<1>6. CASE Take
    <2>1. network' \cap delivered' = {} /\ sent' \in {sent, sent + 1}
        BY <1>6 DEF Take, RoundInv, FromDeliveries, TypeOK
    <2> QED  BY <1>1, <1>6, <2>1 DEF Take
<1>7. CASE UNCHANGED vars
    <2>1. network' \cap delivered' = {} /\ sent' \in {sent, sent + 1}
        BY <1>7 DEF vars, RoundInv, FromDeliveries, TypeOK
    <2> QED  BY <1>1, <1>7, <2>1 DEF vars
<1> QED
    BY <1>2, <1>3, <1>4, <1>5, <1>6, <1>7 DEF Next

LEMMA RoundInvariant == Spec => [](TypeOK /\ WasSent /\ RoundInv)
<1>1. Init => RoundInv /\ WasSent
    <2> SUFFICES ASSUME Init
                 PROVE  RoundInv /\ WasSent
        OBVIOUS
    <2>1. \A n : Rounds(n) = 0 /\ Pending(n) = {}
        BY FS_EmptySet DEF Init, Rounds, Pending
    <2> QED  BY <2>1 DEF Init, RoundInv, RoundsOf, FromDeliveries, WasSent
<1> QED
    BY <1>1, TypeInit, TypeNext, WasSentNext, RoundNext, PTL DEF Spec

\* A repeated fragment of a finished frame starts a buffer, and the frame is put
\* together again only when every fragment of it came twice (NetworkClient.kt:378-398).
THEOREM OncePerRoundCorrect == Spec => []OncePerRound
BY RoundInvariant, RoundInvImplies, PTL

---------------------------------------------------------------------------
(* A frame whose fragments all came is put together *)

\* Frame n was sent and will never be complete.
Hopeless(n) ==
    n =< sent /\ \E p \in Part : [frame |-> n, part |-> p] \notin delivered \cup network

\* Every fragment of frame n that came is pending.
AllPending(n) == \A p \in Part : [frame |-> n, part |-> p] \in delivered => p \in Pending(n)

\* The inductive invariant: eviction loses the fragments of a frame only when no other
\* fragment of it can come, since the newest that came overtakes none so far ahead of
\* it; and no buffer is empty or complete.
Reach == \A f \in delivered, h \in network : f.frame =< h.frame + Reorder

Partial == \A s \in DOMAIN buffers : buffers[s] # {} /\ buffers[s] # Part

CompleteInv ==
    Reach /\ Partial /\ \A n \in Frame : Finished(n) \/ Hopeless(n) \/ AllPending(n)

\* Among more than MaxPending numbers from n on, one is MaxPending above n.
LEMMA FarAbove ==
    ASSUME NEW D, D \subseteq Nat, NEW n \in Nat,
           Cardinality({t \in D : t >= n}) > MaxPending
    PROVE  \E t \in D : t >= n + MaxPending
<1> DEFINE S == {t \in D : t >= n}
           I == n .. n + MaxPending - 1
<1> SUFFICES ASSUME \A t \in D : ~(t >= n + MaxPending)
             PROVE  FALSE
    OBVIOUS
<1>1. S \subseteq I
    <2> SUFFICES ASSUME NEW t \in D, t >= n
                 PROVE  t \in n .. n + MaxPending - 1
        OBVIOUS
    <2>1. t \in Nat /\ ~(t >= n + MaxPending)
        OBVIOUS
    <2> QED  BY <2>1, ReceiverAssumption
<1>2. IsFiniteSet(I) /\ Cardinality(I) = MaxPending
    <2>1. n \in Int /\ n + MaxPending - 1 \in Int /\ n =< n + MaxPending - 1
        BY ReceiverAssumption
    <2>2. /\ IsFiniteSet(I)
          /\ Cardinality(I) = IF n > n + MaxPending - 1 THEN 0
                              ELSE (n + MaxPending - 1) - n + 1
        BY <2>1, FS_Interval
    <2>3. (n + MaxPending - 1) - n + 1 = MaxPending /\ ~(n > n + MaxPending - 1)
        BY ReceiverAssumption
    <2> QED  BY <2>2, <2>3
<1> HIDE DEF S, I
<1>3. Cardinality(S) =< Cardinality(I) /\ Cardinality(S) \in Nat
    BY <1>1, <1>2, FS_Subset, FS_CardinalityType
<1> QED  BY <1>2, <1>3, ReceiverAssumption DEF S

\* What the arrival of a fragment leaves in the buffers: its own frame is pending or
\* put together, and another one is evicted only for a frame far above it.
LEMMA BuffersKept ==
    ASSUME TypeOK, NEW f \in Fragment, Assemble(f)
    PROVE  /\ \A n \in DOMAIN buffers \ {f.frame} :
                 \/ n \in DOMAIN buffers' /\ buffers'[n] = buffers[n]
                 \/ \E t \in DOMAIN buffers \cup {f.frame} : t >= n + MaxPending
           /\ \/ f.part \in Pending(f.frame) /\ UNCHANGED buffers
              \/ /\ f.frame \in DOMAIN buffers'
                 /\ buffers'[f.frame] = Pending(f.frame) \cup {f.part}
                 /\ buffers'[f.frame] # Part
              \/ assembled' = Append(assembled, f.frame) /\ f.frame \notin DOMAIN buffers'
<1> DEFINE s == f.frame
           parts == Pending(s) \cup {f.part}
           kept == [t \in DOMAIN buffers \cup {s} |-> IF t = s THEN parts ELSE buffers[t]]
<1>1. s \in Frame /\ DOMAIN kept = DOMAIN buffers \cup {s} /\ DOMAIN kept \subseteq Nat
    BY DEF Fragment, Frame, TypeOK
<1>2. \A gone : /\ DOMAIN Without(kept, gone) = (DOMAIN buffers \cup {s}) \ gone
                /\ \A t \in (DOMAIN buffers \cup {s}) \ gone :
                      Without(kept, gone)[t] = IF t = s THEN parts ELSE buffers[t]
    BY DEF Without
<1>3. CASE f.part \in Pending(s) /\ UNCHANGED <<buffers, assembled, packets>>
    BY <1>3
<1>4. CASE /\ parts # Part
           /\ buffers' = Without(kept, Evicted(kept, s))
           /\ UNCHANGED <<assembled, packets>>
    <2>1. ASSUME NEW n \in Evicted(kept, s)
          PROVE  n # s /\ \E t \in DOMAIN buffers \cup {s} : t >= n + MaxPending
        <3>1. n \in DOMAIN kept /\ n \in Nat /\ n < s
            BY <1>1 DEF Evicted
        <3>2. Cardinality({t \in DOMAIN kept : t >= n}) > MaxPending
            BY DEF Evicted
        <3>3. \E t \in DOMAIN kept : t >= n + MaxPending
            <4> HIDE DEF kept
            <4> QED  BY <1>1, <3>1, <3>2, FarAbove
        <3> QED  BY <1>1, <3>1, <3>3 DEF Frame
    <2> HIDE DEF kept, parts, s
    <2>2. s \in DOMAIN buffers' /\ buffers'[s] = parts
        BY <1>2, <1>4, <2>1
    <2>3. ASSUME NEW n \in DOMAIN buffers \ {s}
          PROVE  \/ n \in DOMAIN buffers' /\ buffers'[n] = buffers[n]
                 \/ \E t \in DOMAIN buffers \cup {s} : t >= n + MaxPending
        BY <1>2, <1>4, <2>1
    <2> QED  BY <1>4, <2>2, <2>3 DEF parts, s
<1>5. CASE /\ buffers' = Without(kept, {s})
           /\ assembled' = Append(assembled, s)
    <2> HIDE DEF kept, parts, s
    <2>1. DOMAIN buffers' = (DOMAIN buffers \cup {s}) \ {s}
        BY <1>2, <1>5
    <2>2. \A n \in DOMAIN buffers \ {s} : n \in DOMAIN buffers' /\ buffers'[n] = buffers[n]
        BY <1>2, <1>5
    <2> QED  BY <1>5, <2>1, <2>2 DEF s
<1> QED
    BY <1>3, <1>4, <1>5 DEF Assemble

\* A frame that was put together stays so, whatever else comes.
LEMMA FinishedStays ==
    ASSUME TypeOK, NEW f \in Fragment, Assemble(f)
    PROVE  /\ \A n \in Frame : Finished(n) => Finished(n)'
           /\ assembled' = Append(assembled, f.frame) => Finished(f.frame)'
<1>1. assembled \in Seq(Frame) /\ f.frame \in Frame
    BY DEF TypeOK, Fragment
<1>2. CASE UNCHANGED assembled
    <2>1. Append(assembled, f.frame) # assembled
        BY <1>1, AppendProperties, LenProperties
    <2> QED  BY <1>2, <2>1 DEF Finished
<1>3. CASE assembled' = Append(assembled, f.frame)
    <2>1. /\ DOMAIN assembled = 1 .. Len(assembled) /\ Len(assembled) \in Nat
          /\ DOMAIN assembled' = 1 .. Len(assembled) + 1
          /\ \A i \in 1 .. Len(assembled) : assembled'[i] = assembled[i]
          /\ assembled'[Len(assembled) + 1] = f.frame
        BY <1>1, <1>3, AppendProperties, LenProperties
    <2> QED  BY <2>1 DEF Finished
<1> QED  BY <1>2, <1>3, AssembleFacts

\* The arrival of a fragment, from the network or a second time, keeps CompleteInv.
LEMMA CompleteAssemble ==
    ASSUME Reorder < MaxPending, TypeOK, FromDeliveries, CompleteInv,
           NEW f \in Fragment, Assemble(f), f.frame =< sent, UNCHANGED sent,
           delivered' = delivered \cup {f}, network' \subseteq network,
           delivered' \cup network' = delivered \cup network,
           \A h \in network' : f.frame =< h.frame + Reorder
    PROVE  CompleteInv'
<1> DEFINE s == f.frame
<1>1. s \in Frame /\ f.part \in Part /\ f = [frame |-> s, part |-> f.part]
    BY DEF Fragment
<1>2. Reach'
    BY DEF CompleteInv, Reach
<1>3. Partial'
    BY BuffersKept, AssembleFacts DEF CompleteInv, Partial
\* A frame that was evicted can no more be completed.
<1>4. ASSUME NEW n \in DOMAIN buffers \ {s}, AllPending(n),
             NEW t \in DOMAIN buffers \cup {s}, t >= n + MaxPending
      PROVE  Hopeless(n)
    <2>1. /\ n \in Frame /\ t \in Frame
          /\ buffers[n] # {} /\ buffers[n] # Part /\ buffers[n] \subseteq Part
        BY <1>1 DEF TypeOK, CompleteInv, Partial
    <2>2. n =< sent
        <3>1. PICK p \in Part : p \in Pending(n)
            BY <2>1 DEF Pending
        <3>2. [frame |-> n, part |-> p] \in delivered
            BY <2>1, <3>1 DEF FromDeliveries
        <3> QED  BY <3>2 DEF FromDeliveries
    <2>3. \A h \in network' : t =< h.frame + Reorder
        <3>1. CASE t = s
            BY <3>1
        <3>2. CASE t # s
            <4>1. PICK p \in Part : p \in Pending(t)
                BY <2>1, <3>2 DEF Pending, CompleteInv, Partial, TypeOK
            <4>2. [frame |-> t, part |-> p] \in delivered
                BY <2>1, <4>1 DEF FromDeliveries
            <4> QED  BY <4>2 DEF CompleteInv, Reach
        <3> QED  BY <3>1, <3>2
    <2>4. \A h \in network' : h.frame # n
        BY <1>4, <2>1, <2>3, ReceiverAssumption DEF Frame
    <2>5. PICK p \in Part : p \notin Pending(n)
        BY <2>1 DEF Pending
    <2>6. [frame |-> n, part |-> p] \notin delivered'
        BY <1>1, <1>4, <2>5 DEF AllPending
    <2>7. [frame |-> n, part |-> p] \notin network'
        BY <2>4
    <2> QED  BY <2>2, <2>5, <2>6, <2>7 DEF Hopeless
<1>5. \A n \in Frame : Hopeless(n) => Hopeless(n)'
    BY DEF Hopeless
<1>6. AllPending(s) => (Finished(s) \/ AllPending(s))'
    <2>1. CASE assembled' = Append(assembled, s)
        BY <2>1, FinishedStays
    <2>2. CASE Pending(s) \cup {f.part} \subseteq Pending(s)'
        BY <1>1, <2>2 DEF AllPending
    <2> QED  BY <2>1, <2>2, BuffersKept DEF Pending
<1>7. ASSUME NEW n \in Frame \ {s}, AllPending(n)
      PROVE  (Hopeless(n) \/ AllPending(n))'
    <2>1. CASE Pending(n) \subseteq Pending(n)'
        BY <1>1, <1>7, <2>1 DEF AllPending
    <2>2. CASE ~(Pending(n) \subseteq Pending(n)')
        <3>1. n \in DOMAIN buffers
            BY <2>2 DEF Pending
        <3>2. ~(n \in DOMAIN buffers' /\ buffers'[n] = buffers[n])
            BY <2>2, <3>1 DEF Pending
        <3>3. \E t \in DOMAIN buffers \cup {s} : t >= n + MaxPending
            BY <3>1, <3>2, BuffersKept
        <3> QED  BY <1>4, <1>5, <1>7, <3>1, <3>3
    <2> QED  BY <2>1, <2>2
<1>8. \A n \in Frame : (Finished(n) \/ Hopeless(n) \/ AllPending(n))'
    BY <1>1, <1>5, <1>6, <1>7, FinishedStays DEF CompleteInv
<1> QED  BY <1>2, <1>3, <1>8 DEF CompleteInv

LEMMA CompleteNext ==
    ASSUME Reorder < MaxPending, TypeOK, WasSent, FromDeliveries, CompleteInv, [Next]_vars
    PROVE  CompleteInv'
<1>1. CASE Send
    <2>1. /\ sent' = sent + 1 /\ sent \in Nat /\ network' = network \cup Parts(sent')
          /\ UNCHANGED <<delivered, buffers, assembled>>
        BY <1>1 DEF Send, TypeOK
    <2>2. \A f \in delivered : f.frame \in Nat /\ f.frame =< sent
        BY DEF TypeOK, Fragment, Frame, FromDeliveries
    <2>3. Reach'
        <3>1. \A h \in Parts(sent') : h.frame = sent + 1
            BY <2>1 DEF Parts
        <3>2. ASSUME NEW f \in delivered, NEW h \in network'
              PROVE  f.frame =< h.frame + Reorder
            <4>1. CASE h \in network
                BY <4>1 DEF CompleteInv, Reach
            <4>2. CASE h.frame = sent + 1
                BY <2>1, <2>2, <4>2, ReceiverAssumption
            <4> QED  BY <2>1, <3>1, <4>1, <4>2
        <3> QED  BY <2>1, <3>2 DEF Reach
    <2>4. ASSUME NEW n \in Frame, Hopeless(n)
          PROVE  Hopeless(n)'
        <3>1. PICK p \in Part : [frame |-> n, part |-> p] \notin delivered \cup network
            BY <2>4 DEF Hopeless
        <3>2. n =< sent /\ n \in Nat
            BY <2>4 DEF Hopeless, Frame
        <3>3. \A g \in Parts(sent') : g.frame = sent + 1
            BY <2>1 DEF Parts
        <3>4. [frame |-> n, part |-> p] \notin Parts(sent')
            BY <2>1, <3>2, <3>3
        <3> QED  BY <2>1, <3>1, <3>2, <3>4 DEF Hopeless
    <2>5. \A n \in Frame : (Finished(n) => Finished(n)') /\ (AllPending(n) => AllPending(n)')
        BY <2>1 DEF Finished, AllPending, Pending
    <2> QED  BY <2>1, <2>3, <2>4, <2>5 DEF CompleteInv, Partial
<1>2. ASSUME NEW f \in network, Receive(f)
      PROVE  CompleteInv'
    <2>1. /\ f \in Fragment /\ Assemble(f) /\ f.frame =< sent /\ UNCHANGED sent
          /\ delivered' = delivered \cup {f} /\ network' = network \ {f} /\ InReach(f)
        BY <1>2 DEF Receive, TypeOK, WasSent
    <2> QED  BY <2>1, CompleteAssemble DEF InReach
<1>3. ASSUME NEW f \in copies, ReceiveAgain(f)
      PROVE  CompleteInv'
    <2>1. /\ f \in Fragment /\ f \in delivered /\ Assemble(f) /\ f.frame =< sent
          /\ UNCHANGED <<sent, network, delivered>>
        BY <1>3 DEF ReceiveAgain, TypeOK, FromDeliveries
    <2>2. \A h \in network : f.frame =< h.frame + Reorder
        BY <2>1 DEF CompleteInv, Reach
    <2>3. delivered' = delivered \cup {f}
        BY <2>1
    <2> QED  BY <2>1, <2>2, <2>3, CompleteAssemble
<1>4. CASE network' \subseteq network /\ UNCHANGED <<sent, delivered, buffers, assembled>>
    BY <1>4 DEF CompleteInv, Reach, Partial, Finished, Hopeless, AllPending, Pending
<1>5. Take \/ UNCHANGED vars \/ (\E f \in network : Lost(f))
      => network' \subseteq network /\ UNCHANGED <<sent, delivered, buffers, assembled>>
    BY DEF Take, vars, Lost
<1> QED
    BY <1>1, <1>2, <1>3, <1>4, <1>5 DEF Next

LEMMA CompleteInvImplies == TypeOK /\ CompleteInv => Complete
<1> SUFFICES ASSUME TypeOK, CompleteInv, NEW n \in Frame, Parts(n) \subseteq delivered
             PROVE  Finished(n)
    BY DEF Complete
<1>1. \A p \in Part : [frame |-> n, part |-> p] \in delivered
    BY DEF Parts
<1>2. ~Hopeless(n)
    BY <1>1 DEF Hopeless
<1>3. ~AllPending(n)
    <2> SUFFICES ASSUME AllPending(n)
                 PROVE  FALSE
        OBVIOUS
    <2>1. Part \subseteq Pending(n)
        BY <1>1 DEF AllPending
    <2>2. 0 \in Part
        BY ReceiverAssumption DEF Part
    <2>3. n \in DOMAIN buffers /\ buffers[n] = Part
        BY <2>1, <2>2 DEF Pending, TypeOK
    <2> QED  BY <2>3 DEF CompleteInv, Partial
<1> QED  BY <1>2, <1>3 DEF CompleteInv

\* When fewer than MaxPending newer frames overtake a frame on its way, it is put
\* together once all its fragments have come, whatever was lost, repeated or late around
\* it (NetworkClient.kt:378-412).
THEOREM CompleteCorrect ==
    ASSUME Reorder < MaxPending
    PROVE  Spec => []Complete
<1>1. Init => CompleteInv
    <2> SUFFICES ASSUME Init
                 PROVE  CompleteInv
        OBVIOUS
    <2>1. \A n \in Frame : AllPending(n)
        BY DEF Init, AllPending
    <2> QED  BY <2>1 DEF Init, CompleteInv, Reach, Partial
<1>2. Spec => [](TypeOK /\ WasSent /\ RoundInv)
    BY RoundInvariant
<1>3. RoundInv => FromDeliveries
    BY DEF RoundInv
<1> QED
    BY <1>1, <1>2, <1>3, CompleteNext, CompleteInvImplies, PTL DEF Spec
=============================================================================
