------------------------- MODULE EventRetimerProofs -------------------------
(***************************************************************************)
(* Proofs about EventRetimer for every buffer size, delay, interval, set   *)
(* of timestamps and bound on time and packets.                            *)
(***************************************************************************)
EXTENDS EventRetimer, SequenceTheorems, TLAPS

\* Removing the head of a sequence keeps the elements, one place earlier.
LEMMA TailFacts ==
    ASSUME NEW S, NEW q \in Seq(S), q # <<>>
    PROVE  /\ Tail(q) \in Seq(S)
           /\ Len(Tail(q)) = Len(q) - 1
           /\ \A i \in 1 .. Len(q) - 1 : Tail(q)[i] = q[i + 1]
           /\ Head(q) = q[1] /\ Head(q) \in S /\ 1 \in DOMAIN q
  OBVIOUS

\* Adding an element at the end keeps the others.
LEMMA AppendFacts ==
    ASSUME NEW S, NEW q \in Seq(S), NEW e \in S
    PROVE  /\ Append(q, e) \in Seq(S)
           /\ Len(Append(q, e)) = Len(q) + 1
           /\ \A i \in 1 .. Len(q) : Append(q, e)[i] = q[i]
           /\ Append(q, e)[Len(q) + 1] = e
  OBVIOUS

\* A full buffer loses its head, another one nothing: there is room after that.
LEMMA RoomFacts ==
    ASSUME NEW b \in Seq(Entry), Len(b) =< MaxBuffer
    PROVE  /\ Room(b) \in Seq(Entry)
           /\ Len(Room(b)) < MaxBuffer
           /\ Len(Room(b)) =< Len(b)
           /\ \A i \in 1 .. Len(Room(b)) :
                 Room(b)[i] = b[i + (Len(b) - Len(Room(b)))]
  <1>1. CASE Len(b) >= MaxBuffer
    <2>1. b # <<>> /\ Room(b) = Tail(b)
      BY <1>1, RetimerAssumption DEF Room
    <2> QED
      BY <1>1, <2>1, TailFacts, RetimerAssumption
  <1>2. CASE ~(Len(b) >= MaxBuffer)
    BY <1>2, RetimerAssumption DEF Room
  <1> QED
    BY <1>1, <1>2

\* The entry push adds is well typed and clamped.
LEMMA NewEntry ==
    ASSUME TypeOK, NEW ts \in Stamp, sent < MaxEvents
    PROVE  /\ Target(ts) \in Int /\ Target(ts) =< now + MaxDelay
           /\ [target |-> Target(ts),
               packet |-> [seq |-> sent + 1, pushed |-> now]] \in Entry
  <1>1. ToInstant(ts) \in Int
    <2>1. ts \in Nat /\ base_instant \in Int /\ base_ts \in Int /\ now \in Int
      BY RetimerAssumption DEF TypeOK, None
    <2> QED
      BY <2>1 DEF ToInstant
  <1>2. Target(ts) \in Int /\ Target(ts) =< now + MaxDelay
    BY <1>1, RetimerAssumption DEF Target, MinOf, TypeOK
  <1>3. sent + 1 \in 0 .. MaxEvents
    BY RetimerAssumption DEF TypeOK
  <1> QED
    BY <1>2, <1>3 DEF Entry, Packet, TypeOK

\* No packet is held for a moment more than MaxDelay away: what WaitBound needs of the
\* targets.
Clamped == \A i \in DOMAIN buffer : buffer[i].target =< buffer[i].packet.pushed + MaxDelay

Inv == TypeOK /\ Contiguous /\ Clamped

\* Init satisfies the invariant.
LEMMA InitInv == Init => Inv
  BY RetimerAssumption DEF Init, Inv, TypeOK, Contiguous, Clamped, None, Packet, Entry

\* A push: the buffer ends with the new packet and has lost at most its head.
LEMMA PushInv ==
    ASSUME Inv, NEW ts \in Stamp, Push(ts)
    PROVE  Inv'
  <1> DEFINE r == Room(buffer)
             e == [target |-> Target(ts), packet |-> [seq |-> sent + 1, pushed |-> now]]
  <1>1. /\ buffer \in Seq(Entry) /\ Len(buffer) =< MaxBuffer
        /\ sent \in Nat /\ MaxBuffer \in Nat /\ Len(buffer) \in Nat
        /\ sent < MaxEvents /\ sent' = sent + 1 /\ buffer' = Append(r, e)
        /\ UNCHANGED <<now, emitted>>
    BY RetimerAssumption DEF Inv, TypeOK, Contiguous, Push
  <1>2. /\ r \in Seq(Entry) /\ Len(r) < MaxBuffer /\ Len(r) =< Len(buffer) /\ Len(r) \in Nat
        /\ \A i \in 1 .. Len(r) : r[i] = buffer[i + (Len(buffer) - Len(r))]
    BY <1>1, RoomFacts
  <1>3. e \in Entry /\ e.target =< now + MaxDelay
        /\ e.packet.seq = sent + 1 /\ e.packet.pushed = now
    BY <1>1, NewEntry DEF Inv
  <1> HIDE DEF r, e
  <1>4. /\ buffer' \in Seq(Entry) /\ Len(buffer') = Len(r) + 1
        /\ \A i \in 1 .. Len(r) : buffer'[i] = r[i]
        /\ buffer'[Len(r) + 1] = e
    BY <1>1, <1>2, <1>3, AppendFacts
  <1>5. DOMAIN buffer' = 1 .. Len(r) + 1 /\ DOMAIN buffer = 1 .. Len(buffer)
    BY <1>1, <1>4
  <1>6. TypeOK'
    <2>1. sent' \in 0 .. MaxEvents
      BY <1>1, RetimerAssumption
    <2>2. base_ts' \in Nat \cup {None} /\ base_instant' \in Nat \cup {None}
      BY RetimerAssumption DEF Push, clock, Inv, TypeOK
    <2> QED
      BY <1>1, <1>4, <2>1, <2>2 DEF Push, Inv, TypeOK
  <1>7. Contiguous'
    <2>1. \A i \in 1 .. Len(r) : buffer'[i].packet.seq = sent' - Len(buffer') + i
      <3> SUFFICES ASSUME NEW i \in 1 .. Len(r)
                   PROVE  buffer'[i].packet.seq = sent' - Len(buffer') + i
        OBVIOUS
      <3>1. i + (Len(buffer) - Len(r)) \in DOMAIN buffer
        BY <1>1, <1>2, <1>5
      <3>2. buffer'[i].packet.seq = sent - Len(buffer) + (i + (Len(buffer) - Len(r)))
        BY <1>2, <1>4, <3>1 DEF Inv, Contiguous
      <3> QED
        BY <1>1, <1>2, <1>4, <3>2
    <2>2. emitted.seq =< sent - Len(r) /\ emitted.seq \in Nat
      BY <1>1, <1>2 DEF Inv, Contiguous, TypeOK, Packet
    <2>3. \A i \in 1 .. Len(r) + 1 : i \in 1 .. Len(r) \/ i = Len(r) + 1
      BY <1>2
    <2>4. emitted'.seq =< sent' - Len(buffer') /\ Len(buffer') =< MaxBuffer
      BY <1>1, <1>2, <1>4, <2>2
    <2>5. buffer'[Len(r) + 1].packet.seq = sent' - Len(buffer') + (Len(r) + 1)
      BY <1>1, <1>2, <1>3, <1>4
    <2>6. \A i \in 1 .. Len(r) + 1 : buffer'[i].packet.seq = sent' - Len(buffer') + i
      BY <2>1, <2>3, <2>5
    <2> QED
      BY <1>5, <2>4, <2>6 DEF Contiguous
  <1>8. Clamped'
    <2> SUFFICES ASSUME NEW i \in 1 .. Len(r) + 1
                 PROVE  buffer'[i].target =< buffer'[i].packet.pushed + MaxDelay
      BY <1>5 DEF Clamped
    <2>1. CASE i = Len(r) + 1
      BY <1>3, <1>4, <2>1
    <2>2. CASE i # Len(r) + 1
      <3>1. i \in 1 .. Len(r)
        BY <1>2, <2>2
      <3>2. i + (Len(buffer) - Len(r)) \in DOMAIN buffer
        BY <1>1, <1>2, <1>5, <3>1
      <3> QED
        BY <1>2, <1>4, <3>1, <3>2 DEF Inv, Clamped
    <2> QED
      BY <2>1, <2>2
  <1> QED
    BY <1>6, <1>7, <1>8 DEF Inv

\* A drain takes the head or nothing.
LEMMA DrainInv ==
    ASSUME Inv, Drain
    PROVE  Inv'
  <1>1. /\ buffer \in Seq(Entry) /\ Len(buffer) =< MaxBuffer /\ Len(buffer) \in Nat
        /\ sent \in Nat /\ MaxBuffer \in Nat
        /\ UNCHANGED <<now, client, clock, sent>> /\ lastPoll' = now
    BY RetimerAssumption DEF Inv, TypeOK, Contiguous, Drain
  <1>2. CASE UNCHANGED <<emitted, buffer, last_emit>>
    BY <1>1, <1>2 DEF Inv, TypeOK, Contiguous, Clamped, clock
  <1>3. CASE Ready /\ emitted' = Head(buffer).packet /\ buffer' = Tail(buffer)
             /\ last_emit' = now
    <2>1. buffer # <<>>
      BY <1>3 DEF Ready
    <2>2. /\ buffer' \in Seq(Entry) /\ Len(buffer') = Len(buffer) - 1
          /\ \A i \in 1 .. Len(buffer) - 1 : buffer'[i] = buffer[i + 1]
          /\ Head(buffer) = buffer[1] /\ Head(buffer) \in Entry
          /\ 1 \in DOMAIN buffer
      BY <1>1, <1>3, <2>1, TailFacts
    <2>3. DOMAIN buffer' = 1 .. Len(buffer) - 1 /\ DOMAIN buffer = 1 .. Len(buffer)
      BY <1>1, <2>2
    <2>4. TypeOK'
      <3>1. emitted' \in Packet /\ now \in Nat
        BY <1>3, <2>2 DEF Entry, Inv, TypeOK
      <3> QED
        BY <1>1, <1>3, <2>2, <3>1 DEF Inv, TypeOK, clock
    <2>5. emitted'.seq = sent - Len(buffer) + 1
      BY <1>3, <2>2 DEF Inv, Contiguous
    <2>6. \A i \in 1 .. Len(buffer) - 1 : i + 1 \in DOMAIN buffer
      BY <1>1, <2>3
    <2>7. Contiguous'
      <3>1. \A i \in 1 .. Len(buffer) - 1 : buffer'[i].packet.seq = sent - Len(buffer) + (i + 1)
        BY <2>2, <2>6 DEF Inv, Contiguous
      <3> QED
        BY <1>1, <2>2, <2>3, <2>5, <3>1 DEF Contiguous
    <2>8. Clamped'
      BY <2>2, <2>3, <2>6 DEF Inv, Clamped
    <2> QED
      BY <2>4, <2>7, <2>8 DEF Inv
  <1> QED
    BY <1>2, <1>3 DEF Drain

\* Every step keeps the invariant.
LEMMA NextInv == Inv /\ [Next]_vars => Inv'
  <1> SUFFICES ASSUME Inv, [Next]_vars PROVE Inv'
    OBVIOUS
  <1>1. CASE Accept \/ Leave
    <2>1. Len(buffer) \in Nat /\ emitted.seq \in Nat /\ sent \in Nat
      BY DEF Inv, TypeOK, Packet
    <2>2. emitted.seq =< sent
      BY <2>1 DEF Inv, Contiguous
    <2>3. buffer' = <<>> /\ Len(buffer') = 0 /\ buffer' \in Seq(Entry)
      <3>1. buffer' = <<>>
        BY <1>1 DEF Accept, Leave, Reset
      <3> QED
        BY <3>1
    <2>4. TypeOK'
      BY <1>1, <2>3 DEF Accept, Leave, Reset, Inv, TypeOK
    <2> QED
      BY <1>1, <2>1, <2>2, <2>3, <2>4, RetimerAssumption
      DEF Accept, Leave, Reset, Inv, Contiguous, Clamped
  <1>4. CASE Refuse
    BY <1>4 DEF Refuse, clock, Inv, TypeOK, Contiguous, Clamped
  <1>2. CASE Tick
    <2>1. now' \in 0 .. MaxTime
      BY <1>2, RetimerAssumption DEF Tick, Inv, TypeOK
    <2> QED
      BY <1>2, <2>1 DEF Tick, Inv, TypeOK, Contiguous, Clamped, clock
  <1>3. CASE UNCHANGED vars
    BY <1>3 DEF vars, clock, Inv, TypeOK, Contiguous, Clamped
  <1> QED
    BY <1>1, <1>2, <1>3, <1>4, PushInv, DrainInv DEF Next

\* The invariant holds in every reachable state.
LEMMA Invariant == Spec => []Inv
  BY InitInv, NextInv, PTL DEF Spec

\* Every variable keeps its type.
THEOREM TypeCorrect == Spec => []TypeOK
  <1>1. Inv => TypeOK
    BY DEF Inv
  <1> QED
    BY <1>1, Invariant, PTL

\* The buffer is always the last packets pushed, without a gap.
THEOREM ContiguousCorrect == Spec => []Contiguous
  <1>1. Inv => Contiguous
    BY DEF Inv
  <1> QED
    BY <1>1, Invariant, PTL

---------------------------------------------------------------------------
(* The refinement of LossyFifo *)

\* The packets of a buffer are a sequence of the same length.
LEMMA PacketsFacts ==
    ASSUME NEW b \in Seq(Entry)
    PROVE  /\ Packets(b) \in Seq(Packet)
           /\ Len(Packets(b)) = Len(b)
           /\ \A i \in 1 .. Len(b) : Packets(b)[i] = b[i].packet
  <1>1. Len(b) \in Nat /\ DOMAIN b = 1 .. Len(b)
    OBVIOUS
  <1>2. \A i \in 1 .. Len(b) : b[i].packet \in Packet
    <2>1. \A e \in Entry : e.packet \in Packet
      BY DEF Entry
    <2>2. \A i \in 1 .. Len(b) : b[i] \in Entry
      BY ElementOfSeq
    <2> QED
      BY <2>1, <2>2
  <1>3. Packets(b) \in [1 .. Len(b) -> Packet]
    BY <1>1, <1>2 DEF Packets
  <1>4. Packets(b) \in Seq(Packet)
    BY <1>1, <1>3, SeqDef
  <1>5. DOMAIN Packets(b) = 1 .. Len(b)
    BY <1>3
  <1>6. Len(Packets(b)) = Len(b)
    BY <1>1, <1>4, <1>5, LenProperties
  <1>7. \A i \in 1 .. Len(b) : Packets(b)[i] = b[i].packet
    BY <1>1 DEF Packets
  <1> QED
    BY <1>4, <1>6, <1>7

\* Dropping the head of the buffer drops the head of the queue.
LEMMA PacketsTail ==
    ASSUME NEW b \in Seq(Entry), b # <<>>
    PROVE  /\ Packets(b) # <<>>
           /\ Packets(Tail(b)) = Tail(Packets(b))
           /\ Head(Packets(b)) = Head(b).packet
  <1> DEFINE q == Packets(b)
  <1>1. q \in Seq(Packet) /\ Len(q) = Len(b) /\ \A i \in 1 .. Len(b) : q[i] = b[i].packet
    BY PacketsFacts
  <1>2. Len(b) \in Nat \ {0}
    BY EmptySeq
  <1>3. q # <<>>
    BY <1>1, <1>2
  <1>4. /\ Tail(b) \in Seq(Entry) /\ Len(Tail(b)) = Len(b) - 1
        /\ \A i \in 1 .. Len(b) - 1 : Tail(b)[i] = b[i + 1]
        /\ Head(b) = b[1]
    BY TailFacts
  <1>5. /\ Tail(q) \in Seq(Packet) /\ Len(Tail(q)) = Len(b) - 1
        /\ \A i \in 1 .. Len(b) - 1 : Tail(q)[i] = q[i + 1]
        /\ Head(q) = q[1]
    BY <1>1, <1>3, TailFacts
  <1>6. /\ Packets(Tail(b)) \in Seq(Packet) /\ Len(Packets(Tail(b))) = Len(b) - 1
        /\ \A i \in 1 .. Len(b) - 1 : Packets(Tail(b))[i] = Tail(b)[i].packet
    BY <1>4, PacketsFacts
  <1>7. \A i \in 1 .. Len(b) - 1 : Packets(Tail(b))[i] = Tail(q)[i]
    BY <1>1, <1>2, <1>4, <1>5, <1>6
  <1> HIDE DEF q
  <1>8. Packets(Tail(b)) = Tail(q)
    BY <1>5, <1>6, <1>7, SeqEqual
  <1>9. Head(q) = Head(b).packet
    BY <1>1, <1>2, <1>4, <1>5
  <1> QED
    BY <1>3, <1>8, <1>9 DEF q

\* Appending to the buffer appends to the queue.
LEMMA PacketsAppend ==
    ASSUME NEW b \in Seq(Entry), NEW e \in Entry
    PROVE  Packets(Append(b, e)) = Append(Packets(b), e.packet)
  <1> DEFINE q == Packets(b)
             c == Append(b, e)
             d == Append(q, e.packet)
  <1>1. q \in Seq(Packet) /\ Len(q) = Len(b) /\ \A i \in 1 .. Len(b) : q[i] = b[i].packet
    BY PacketsFacts
  <1>2. /\ c \in Seq(Entry) /\ Len(c) = Len(b) + 1 /\ Len(b) \in Nat
        /\ \A i \in 1 .. Len(b) : c[i] = b[i]
        /\ c[Len(b) + 1] = e
    BY AppendFacts
  <1>3. e.packet \in Packet
    BY DEF Entry
  <1> HIDE DEF q, c
  <1>4. /\ d \in Seq(Packet) /\ Len(d) = Len(b) + 1
        /\ \A i \in 1 .. Len(b) : d[i] = q[i]
        /\ d[Len(b) + 1] = e.packet
    BY <1>1, <1>3, AppendFacts
  <1>5. /\ Packets(c) \in Seq(Packet) /\ Len(Packets(c)) = Len(b) + 1
        /\ \A i \in 1 .. Len(b) + 1 : Packets(c)[i] = c[i].packet
    BY <1>2, PacketsFacts
  <1> HIDE DEF d
  <1>6. \A i \in 1 .. Len(b) + 1 : Packets(c)[i] = d[i]
    <2> SUFFICES ASSUME NEW i \in 1 .. Len(b) + 1 PROVE Packets(c)[i] = d[i]
      OBVIOUS
    <2>1. CASE i = Len(b) + 1
      BY <1>2, <1>4, <1>5, <2>1
    <2>2. CASE i # Len(b) + 1
      <3>1. i \in 1 .. Len(b)
        BY <1>2, <2>2
      <3> QED
        BY <1>1, <1>2, <1>4, <1>5, <3>1
    <2> QED
      BY <2>1, <2>2
  <1>7. Packets(c) = d
    BY <1>4, <1>5, <1>6, SeqEqual
  <1> QED
    BY <1>7 DEF c, d, q

\* A step of the retimer is a put, a take, a take-over or the end of an owner, or leaves
\* the queue alone.
LEMMA FifoStep ==
    ASSUME Inv, [Next]_vars
    PROVE  [Fifo!Next]_<<client, Packets(buffer), emitted>>
  <1>1. buffer \in Seq(Entry) /\ Len(buffer) =< MaxBuffer
    BY DEF Inv, TypeOK, Contiguous
  <1>2. ASSUME NEW ts \in Stamp, Push(ts) PROVE Fifo!Put
    <2> DEFINE e == [target |-> Target(ts), packet |-> [seq |-> sent + 1, pushed |-> now]]
    <2>1. e \in Entry /\ e.packet \in Packet
      BY <1>2, NewEntry DEF Inv, Push, Entry
    <2>2. /\ buffer' = Append(Room(buffer), e) /\ emitted' = emitted
          /\ client # 0 /\ client' = client
      BY <1>2 DEF Push
    <2> HIDE DEF e
    <2>3. Packets(buffer)' = Append(Packets(Room(buffer)), e.packet)
      BY <1>1, <2>1, <2>2, RoomFacts, PacketsAppend
    <2>4. Packets(Room(buffer)) =
             IF Len(Packets(buffer)) >= MaxBuffer THEN Tail(Packets(buffer)) ELSE Packets(buffer)
      <3>1. Len(Packets(buffer)) = Len(buffer)
        BY <1>1, PacketsFacts
      <3>2. CASE Len(buffer) >= MaxBuffer
        <4>1. buffer # <<>>
          BY <3>2, RetimerAssumption
        <4> QED
          BY <1>1, <3>1, <3>2, <4>1, PacketsTail DEF Room
      <3>3. CASE ~(Len(buffer) >= MaxBuffer)
        BY <3>1, <3>3 DEF Room
      <3> QED
        BY <3>2, <3>3
    <2> QED
      BY <2>1, <2>2, <2>3, <2>4 DEF Fifo!Put, Fifo!After
  <1>3. CASE Drain
    <2>1. CASE Ready /\ emitted' = Head(buffer).packet /\ buffer' = Tail(buffer)
      <3>1. buffer # <<>>
        BY <2>1 DEF Ready
      <3>2. Packets(buffer)' = Tail(Packets(buffer)) /\ emitted' = Head(Packets(buffer))
            /\ Packets(buffer) # <<>>
        BY <1>1, <2>1, <3>1, PacketsTail
      <3> QED
        BY <1>3, <3>2 DEF Drain, Fifo!Next, Fifo!Take
    <2>2. CASE UNCHANGED <<emitted, buffer>>
      BY <1>3, <2>2 DEF Drain, Packets
    <2> QED
      BY <1>3, <2>1, <2>2 DEF Drain
  <1>4. CASE Accept \/ Leave
    <2>1. Packets(buffer)' = <<>>
      BY <1>4 DEF Accept, Leave, Reset, Packets
    <2> QED
      BY <1>4, <2>1 DEF Accept, Leave, Fifo!Next, Fifo!TakeOver, Fifo!GiveUp
  <1>6. CASE Refuse
    <2>1. Packets(buffer)' = Packets(buffer)
      BY <1>6 DEF Refuse, Packets
    <2> QED
      BY <1>6, <2>1 DEF Refuse, Fifo!Next, Fifo!GiveUp
  <1>5. CASE Tick \/ UNCHANGED vars
    BY <1>5 DEF Tick, vars, Packets
  <1> QED
    BY <1>2, <1>3, <1>4, <1>5, <1>6 DEF Next, Fifo!Next

\* The retimer is a first-in first-out queue that loses only its oldest items, and no
\* packet of one client is emitted for the next.
THEOREM Refinement == Spec => FifoSpec
  <1>1. Init => Fifo!Init
    <2> SUFFICES ASSUME Init PROVE Fifo!Init
      OBVIOUS
    <2>1. Packets(buffer) = <<>>
      BY DEF Init, Packets
    <2>2. emitted \in Packet /\ client = 0
      BY InitInv DEF Init, Inv, TypeOK
    <2> QED
      BY <2>1, <2>2 DEF Fifo!Init
  <1>2. Inv /\ [Next]_vars => [Fifo!Next]_<<client, Packets(buffer), emitted>>
    BY FifoStep
  <1> QED
    BY <1>1, <1>2, Invariant, PTL DEF Spec, FifoSpec, Fifo!Spec

---------------------------------------------------------------------------
(* How long a packet waits *)

Slack == MaxDelay + Poll - 1 + (MaxBuffer - 1) * Gap

\* drain_ready is called every Poll ticks, and nothing is emitted in the future.
Clocks ==
    /\ lastPoll =< now /\ now =< lastPoll + Poll
    /\ last_emit # None => last_emit =< now

\* Packets wait in the order they were pushed.
PushOrder ==
    /\ \A i \in 1 .. Len(buffer) : buffer[i].packet.pushed =< now
    /\ \A i, j \in 1 .. Len(buffer) :
          i =< j => buffer[i].packet.pushed =< buffer[j].packet.pushed

\* The head was not ready when drain_ready was called last, or was not there.
HeadDue ==
    buffer # <<>> =>
        \/ lastPoll < buffer[1].packet.pushed + MaxDelay
        \/ last_emit # None /\ lastPoll < last_emit + MinInterval

\* One gap for each place after the last emission is still within the bound of the
\* packet in that place.
Paced ==
    last_emit # None =>
        \A i \in 1 .. Len(buffer) : last_emit + i * Gap =< buffer[i].packet.pushed + Slack

WaitInv == Clocks /\ PushOrder /\ HeadDue /\ Paced

LEMMA GapFacts ==
    /\ \A i, j \in Nat : i =< j => i * Gap =< j * Gap
    /\ \A i \in Nat : i * Gap \in Nat /\ (i + 1) * Gap = i * Gap + Gap
  <1>1. Gap \in Nat
    BY RetimerAssumption DEF Gap
  <1> HIDE DEF Gap
  <1>3. \A g \in Nat : \A i \in Nat : i * g \in Nat /\ (i + 1) * g = i * g + g
    OBVIOUS
  <1>4. \A g \in Nat : \A i, j \in Nat : i =< j => i * g =< j * g
    OBVIOUS
  <1> QED
    BY <1>1, <1>3, <1>4

LEMMA GapType == Gap \in Nat /\ Slack \in Nat /\ Gap = MinInterval + Poll - 1
  <1>1. Gap \in Nat /\ Gap = MinInterval + Poll - 1 /\ MaxBuffer - 1 \in Nat
    BY RetimerAssumption DEF Gap
  <1>2. (MaxBuffer - 1) * Gap \in Nat
    BY <1>1, GapFacts
  <1> QED
    BY <1>1, <1>2, RetimerAssumption DEF Slack

\* The numbers the lemmas below compute with.
LEMMA TimeTypes ==
    ASSUME Inv
    PROVE  /\ now \in Nat /\ lastPoll \in Nat /\ (last_emit # None => last_emit \in Nat)
           /\ buffer \in Seq(Entry) /\ Len(buffer) \in Nat /\ Len(buffer) =< MaxBuffer
           /\ \A i \in 1 .. Len(buffer) :
                 /\ buffer[i].packet.pushed \in Nat /\ buffer[i].target \in Int
                 /\ buffer[i].target =< buffer[i].packet.pushed + MaxDelay
           /\ MaxDelay \in Nat /\ Poll \in Nat \ {0} /\ MinInterval \in Nat \ {0}
           /\ MaxBuffer \in Nat \ {0}
  <1>1. buffer \in Seq(Entry) /\ Len(buffer) \in Nat /\ DOMAIN buffer = 1 .. Len(buffer)
    BY DEF Inv, TypeOK
  <1>2. \A i \in 1 .. Len(buffer) :
            buffer[i].packet.pushed \in Nat /\ buffer[i].target \in Int
    <2>1. \A i \in 1 .. Len(buffer) : buffer[i] \in Entry
      BY <1>1
    <2>2. \A e \in Entry : e.packet.pushed \in Nat /\ e.target \in Int
      BY RetimerAssumption DEF Entry, Packet
    <2> QED
      BY <2>1, <2>2
  <1> QED
    BY <1>1, <1>2, RetimerAssumption DEF Inv, TypeOK, Contiguous, Clamped, None

\* An interval that a packet waits anyway is no reason to wait longer.
LEMMA PushWait ==
    ASSUME Inv, WaitInv, MinInterval =< MaxDelay, NEW ts \in Stamp, Push(ts)
    PROVE  WaitInv'
  <1> DEFINE r == Room(buffer)
             e == [target |-> Target(ts), packet |-> [seq |-> sent + 1, pushed |-> now]]
             k == Len(buffer) - Len(r)
  <1>1. /\ buffer' = Append(r, e) /\ e.packet.pushed = now /\ e \in Entry
        /\ UNCHANGED <<now, lastPoll, last_emit>>
    BY NewEntry DEF Push, Inv
  <1>2. /\ r \in Seq(Entry) /\ Len(r) < MaxBuffer /\ Len(r) \in Nat
        /\ k \in Nat /\ \A i \in 1 .. Len(r) : r[i] = buffer[i + k]
    BY RoomFacts, TimeTypes
  <1> HIDE DEF r, e
  <1>3. /\ buffer' \in Seq(Entry) /\ Len(buffer') = Len(r) + 1
        /\ \A i \in 1 .. Len(r) : buffer'[i] = buffer[i + k]
        /\ buffer'[Len(r) + 1] = e
    BY <1>1, <1>2, AppendFacts
  <1>4. \A i \in 1 .. Len(r) : i + k \in 1 .. Len(buffer)
    BY <1>2, TimeTypes
  <1> HIDE DEF k
  <1>5. \A i \in 1 .. Len(buffer') : i \in 1 .. Len(r) \/ i = Len(r) + 1
    BY <1>2, <1>3
  <1>6. Clocks'
    BY <1>1 DEF WaitInv, Clocks
  <1>7. PushOrder'
    <2>1. ASSUME NEW i \in 1 .. Len(buffer')
          PROVE  buffer'[i].packet.pushed =< now
      <3>1. CASE i \in 1 .. Len(r)
        BY <1>3, <1>4, <3>1 DEF WaitInv, PushOrder
      <3>2. CASE i = Len(r) + 1
        BY <1>1, <1>3, <3>2, TimeTypes
      <3> QED
        BY <1>5, <3>1, <3>2
    <2>2. ASSUME NEW i \in 1 .. Len(buffer'), NEW j \in 1 .. Len(buffer'), i =< j
          PROVE  buffer'[i].packet.pushed =< buffer'[j].packet.pushed
      <3>1. CASE j \in 1 .. Len(r)
        <4>1. i \in 1 .. Len(r) /\ i + k =< j + k
          BY <1>2, <2>2, <3>1
        <4> QED
          BY <1>3, <1>4, <3>1, <4>1 DEF WaitInv, PushOrder
      <3>2. CASE j = Len(r) + 1
        BY <1>1, <1>3, <2>1, <3>2
      <3> QED
        BY <1>5, <3>1, <3>2
    <2> QED
      BY <1>1, <2>1, <2>2 DEF PushOrder
  <1>8. HeadDue'
    <2>1. CASE Len(r) = 0
      <3>1. buffer'[1].packet.pushed = now
        BY <1>1, <1>3, <2>1
      <3> QED
        BY <1>1, <3>1, TimeTypes DEF HeadDue, WaitInv, Clocks
    <2>2. CASE Len(r) # 0
      <3>1. 1 \in 1 .. Len(r) /\ 1 + k \in 1 .. Len(buffer) /\ 1 \in 1 .. Len(buffer)
        BY <1>2, <1>4, <2>2, TimeTypes
      <3>2. buffer[1].packet.pushed =< buffer'[1].packet.pushed
        BY <1>2, <1>3, <3>1 DEF WaitInv, PushOrder
      <3>3. buffer # <<>> /\ buffer'[1].packet.pushed \in Nat /\ buffer[1].packet.pushed \in Nat
        BY <1>3, <3>1, TimeTypes
      <3>4. CASE lastPoll < buffer[1].packet.pushed + MaxDelay
        <4>1. lastPoll < buffer'[1].packet.pushed + MaxDelay
          BY <3>2, <3>3, <3>4, TimeTypes
        <4> QED
          BY <1>1, <4>1 DEF HeadDue
      <3>5. CASE last_emit # None /\ lastPoll < last_emit + MinInterval
        BY <1>1, <3>5 DEF HeadDue
      <3> QED
        BY <3>3, <3>4, <3>5 DEF HeadDue, WaitInv
    <2> QED
      BY <2>1, <2>2
  <1>9. Paced'
    <2> SUFFICES ASSUME last_emit # None, NEW i \in 1 .. Len(buffer')
                 PROVE  last_emit + i * Gap =< buffer'[i].packet.pushed + Slack
      BY <1>1 DEF Paced
    <2>1. CASE i \in 1 .. Len(r)
      <3>1. /\ last_emit + (i + k) * Gap =< buffer[i + k].packet.pushed + Slack
            /\ buffer'[i] = buffer[i + k]
        BY <1>3, <1>4, <2>1 DEF WaitInv, Paced
      <3>2. i * Gap =< (i + k) * Gap /\ i * Gap \in Nat /\ (i + k) * Gap \in Nat
        <4>1. i \in Nat /\ i + k \in Nat /\ i =< i + k
          BY <1>2, <2>1
        <4> QED
          BY <4>1, GapFacts
      <3>3. buffer[i + k].packet.pushed \in Nat /\ last_emit \in Nat
        BY <1>4, <2>1, TimeTypes
      <3> DEFINE a == i * Gap
                 b == (i + k) * Gap
      <3> HIDE DEF a, b
      <3>4. a =< b /\ a \in Nat /\ b \in Nat /\ last_emit + b =< buffer'[i].packet.pushed + Slack
        BY <3>1, <3>2 DEF a, b
      <3>5. last_emit + a =< buffer'[i].packet.pushed + Slack
        BY <3>1, <3>3, <3>4, GapType
      <3> QED
        BY <3>5 DEF a
    <2>2. CASE i = Len(r) + 1
      <3>1. buffer'[i].packet.pushed = now /\ last_emit =< now
        BY <1>1, <1>3, <2>2 DEF WaitInv, Clocks
      <3>2. i * Gap =< Slack
        <4>1. i - 1 \in Nat /\ i - 1 =< MaxBuffer - 1 /\ MaxBuffer - 1 \in Nat
          BY <1>2, <2>2, RetimerAssumption
        <4>2. (i - 1) * Gap =< (MaxBuffer - 1) * Gap
          BY <4>1, GapFacts
        <4>3. (i - 1 + 1) * Gap = (i - 1) * Gap + Gap /\ i - 1 + 1 = i
          BY <4>1, GapFacts
        <4>4. Gap =< MaxDelay + Poll - 1
          BY GapType, RetimerAssumption
        <4>5. (i - 1) * Gap \in Nat /\ (MaxBuffer - 1) * Gap \in Nat
          BY <4>1, GapFacts
        <4> QED
          BY <4>2, <4>3, <4>4, <4>5, GapType, RetimerAssumption DEF Slack
      <3>3. i * Gap \in Nat
        BY <1>2, <2>2, GapFacts
      <3>4. last_emit \in Nat /\ now \in Nat
        BY TimeTypes
      <3> QED
        BY <3>1, <3>2, <3>3, <3>4, GapType
    <2> QED
      BY <1>5, <2>1, <2>2
  <1> QED
    BY <1>6, <1>7, <1>8, <1>9 DEF WaitInv

\* The head leaves with the call of drain_ready after it became ready at the latest.
LEMMA HeadSoon ==
    ASSUME Inv, WaitInv, buffer # <<>>
    PROVE  \/ now =< buffer[1].packet.pushed + MaxDelay + Poll - 1
           \/ last_emit # None /\ now =< last_emit + Gap
  <1>1. 1 \in 1 .. Len(buffer) /\ buffer[1].packet.pushed \in Nat
    BY TimeTypes
  <1>2. CASE lastPoll < buffer[1].packet.pushed + MaxDelay
    BY <1>1, <1>2, TimeTypes DEF WaitInv, Clocks
  <1>3. CASE last_emit # None /\ lastPoll < last_emit + MinInterval
    BY <1>3, GapType, TimeTypes DEF WaitInv, Clocks
  <1> QED
    BY <1>2, <1>3 DEF WaitInv, HeadDue

LEMMA DrainWait ==
    ASSUME Inv, WaitInv, Drain
    PROVE  WaitInv'
  <1>t. now \in Nat /\ (last_emit # None => last_emit \in Nat) /\ MaxDelay \in Nat /\ Poll \in Nat
    BY TimeTypes
  <1>1. lastPoll' = now /\ now' = now
    BY DEF Drain
  <1>2. CASE ~Ready /\ UNCHANGED <<emitted, buffer, last_emit>>
    <2>1. Clocks' /\ PushOrder' /\ Paced'
      BY <1>1, <1>2, TimeTypes DEF WaitInv, Clocks, PushOrder, Paced
    <2>2. HeadDue'
      <3> SUFFICES ASSUME buffer # <<>>
                   PROVE  \/ now < buffer[1].packet.pushed + MaxDelay
                          \/ last_emit # None /\ now < last_emit + MinInterval
        BY <1>1, <1>2 DEF HeadDue
      <3>1. Head(buffer) = buffer[1] /\ 1 \in 1 .. Len(buffer)
        BY TimeTypes, TailFacts
      <3>2. CASE last_emit # None /\ ~(now - last_emit >= MinInterval)
        BY <3>2, TimeTypes
      <3>3. CASE ~(now >= buffer[1].target)
        BY <3>1, <3>3, TimeTypes
      <3> QED
        BY <1>2, <3>1, <3>2, <3>3 DEF Ready
    <2> QED
      BY <2>1, <2>2 DEF WaitInv
  <1>3. CASE Ready /\ buffer' = Tail(buffer) /\ last_emit' = now
    <2>1. /\ buffer # <<>> /\ Len(buffer') = Len(buffer) - 1
          /\ \A i \in 1 .. Len(buffer') : buffer'[i] = buffer[i + 1]
      BY <1>3, TimeTypes, TailFacts DEF Ready
    <2>2. \A i \in 1 .. Len(buffer') : i \in Nat \ {0} /\ i + 1 \in 1 .. Len(buffer)
      BY <2>1, TimeTypes
    <2>3. last_emit' # None
      BY <1>3, TimeTypes DEF None
    <2>4. Clocks'
      BY <1>1, <1>3, TimeTypes DEF Clocks
    <2>5. PushOrder'
      <3>1. \A i, j \in 1 .. Len(buffer') : i =< j => i + 1 =< j + 1
        OBVIOUS
      <3> QED
        BY <1>1, <2>1, <2>2, <3>1 DEF WaitInv, PushOrder
    <2>6. HeadDue'
      BY <1>1, <1>3, <2>3, TimeTypes DEF HeadDue
    <2>7. Paced'
      <3> SUFFICES ASSUME NEW i \in 1 .. Len(buffer')
                   PROVE  now + i * Gap =< buffer[i + 1].packet.pushed + Slack
        BY <1>3, <2>1 DEF Paced
      <3> DEFINE p == buffer[i + 1].packet.pushed
                 a == i * Gap
      <3>1. /\ buffer[1].packet.pushed =< p /\ p \in Nat /\ buffer[1].packet.pushed \in Nat
        <4>1. 1 \in 1 .. Len(buffer) /\ i + 1 \in 1 .. Len(buffer) /\ 1 =< i + 1
          BY <2>1, <2>2, TimeTypes
        <4> QED
          BY <4>1, TimeTypes DEF WaitInv, PushOrder
      <3>2. a \in Nat /\ (i + 1) * Gap = a + Gap
        BY <2>2, GapFacts
      <3>3. a =< (MaxBuffer - 1) * Gap /\ (MaxBuffer - 1) * Gap \in Nat
        <4>1. i =< MaxBuffer - 1 /\ MaxBuffer - 1 \in Nat /\ i \in Nat
          BY <2>1, <2>2, TimeTypes
        <4> QED
          BY <4>1, GapFacts
      <3>4. CASE now =< buffer[1].packet.pushed + MaxDelay + Poll - 1
        <4> DEFINE b == (MaxBuffer - 1) * Gap
                   q == buffer[1].packet.pushed
        <4>1. Slack = MaxDelay + Poll - 1 + b /\ a =< b /\ b \in Nat
          BY <3>3 DEF Slack
        <4>2. q =< p /\ p \in Nat /\ q \in Nat /\ a \in Nat /\ now =< q + MaxDelay + Poll - 1
          BY <3>1, <3>2, <3>4
        <4> HIDE DEF a, b, p, q
        <4>3. now + a =< p + Slack
          BY <1>t, <4>1, <4>2
        <4> QED
          BY <4>3 DEF a, p
      <3>5. CASE last_emit # None /\ now =< last_emit + Gap
        <4>1. last_emit + (a + Gap) =< p + Slack
          BY <2>2, <3>2, <3>5 DEF WaitInv, Paced
        <4> HIDE DEF a, p
        <4>2. now + a =< p + Slack
          BY <1>t, <3>1, <3>2, <3>5, <4>1, GapType
        <4> QED
          BY <4>2 DEF a, p
      <3> QED
        BY <2>1, <3>4, <3>5, HeadSoon
    <2> QED
      BY <2>4, <2>5, <2>6, <2>7 DEF WaitInv
  <1> QED
    BY <1>2, <1>3 DEF Drain

LEMMA NextWait ==
    ASSUME Inv, WaitInv, MinInterval =< MaxDelay, [Next]_vars
    PROVE  WaitInv'
  <1>1. CASE Accept \/ Leave
    <2>1. /\ buffer' = <<>> /\ Len(buffer') = 0 /\ last_emit' = None
          /\ UNCHANGED <<now, lastPoll>>
      BY <1>1 DEF Accept, Leave, Reset
    <2> QED
      BY <2>1 DEF WaitInv, Clocks, PushOrder, HeadDue, Paced
  <1>2. CASE Tick
    <2>1. /\ now' = now + 1 /\ now - lastPoll < Poll
          /\ UNCHANGED <<lastPoll, buffer, last_emit>>
      BY <1>2 DEF Tick
    <2>2. Clocks'
      BY <2>1, TimeTypes DEF WaitInv, Clocks
    <2>3. PushOrder'
      BY <2>1, TimeTypes DEF WaitInv, PushOrder
    <2> QED
      BY <2>1, <2>2, <2>3 DEF WaitInv, HeadDue, Paced
  <1>3. CASE Refuse \/ UNCHANGED vars
    BY <1>3 DEF Refuse, vars, WaitInv, Clocks, PushOrder, HeadDue, Paced
  <1> QED
    BY <1>1, <1>2, <1>3, PushWait, DrainWait DEF Next

LEMMA WaitInvImplies == Inv /\ WaitInv => WaitBound
  <1> SUFFICES ASSUME Inv, WaitInv, NEW i \in 1 .. Len(buffer)
               PROVE  now - buffer[i].packet.pushed =< Slack
    <2>1. DOMAIN buffer = 1 .. Len(buffer)
      BY TimeTypes
    <2> QED
      BY <2>1 DEF WaitBound, Slack
  <1>t. now \in Nat /\ (last_emit # None => last_emit \in Nat) /\ MaxDelay \in Nat /\ Poll \in Nat
    BY TimeTypes
  <1> DEFINE p == buffer[i].packet.pushed
  <1>1. buffer # <<>> /\ 1 \in 1 .. Len(buffer) /\ 1 =< i
    BY TimeTypes
  <1>2. buffer[1].packet.pushed =< p /\ p \in Nat /\ buffer[1].packet.pushed \in Nat
    BY <1>1, TimeTypes DEF WaitInv, PushOrder
  <1> HIDE DEF p
  <1>3. CASE now =< buffer[1].packet.pushed + MaxDelay + Poll - 1
    <2>1. (MaxBuffer - 1) * Gap \in Nat
      <3>1. MaxBuffer - 1 \in Nat
        BY RetimerAssumption
      <3> QED
        BY <3>1, GapFacts
    <2>2. MaxDelay + Poll - 1 =< Slack
      BY <2>1, TimeTypes DEF Slack
    <2>3. now - p =< Slack
      BY <1>t, <1>2, <1>3, <2>2, GapType
    <2> QED
      BY <2>3 DEF p
  <1>4. CASE last_emit # None /\ now =< last_emit + Gap
    <2> DEFINE a == i * Gap
    <2>1. last_emit + a =< p + Slack
      BY <1>4 DEF WaitInv, Paced, p
    <2>2. Gap =< a /\ a \in Nat
      <3>1. i - 1 \in Nat /\ i - 1 + 1 = i
        BY TimeTypes
      <3>2. i * Gap = (i - 1) * Gap + Gap /\ (i - 1) * Gap \in Nat
        BY <3>1, GapFacts
      <3> QED
        BY <3>2, GapType
    <2> HIDE DEF a
    <2>3. now - p =< Slack
      BY <1>t, <1>2, <1>4, <2>1, <2>2, GapType
    <2> QED
      BY <2>3 DEF p
  <1> QED
    BY <1>1, <1>3, <1>4, HeadSoon

\* No packet waits longer than MaxDelay, one poll and a gap for each packet that may be
\* before it, however the timestamps run, the buffer overflows and clients change, when
\* the interval between two emissions is not above MaxDelay, as in the code, 1 ms
\* against 50 ms (retimer.rs:15-19).
THEOREM WaitCorrect ==
    ASSUME MinInterval =< MaxDelay
    PROVE  Spec => []WaitBound
  <1>1. Init => WaitInv
    <2> SUFFICES ASSUME Init
                 PROVE  WaitInv
      OBVIOUS
    <2>1. buffer = <<>> /\ Len(buffer) = 0 /\ now = 0 /\ lastPoll = 0 /\ last_emit = None
      BY DEF Init
    <2> QED
      BY <2>1, RetimerAssumption DEF WaitInv, Clocks, PushOrder, HeadDue, Paced
  <1> QED
    BY <1>1, Invariant, NextWait, WaitInvImplies, PTL DEF Spec
=============================================================================
