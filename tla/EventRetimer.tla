---------------------------- MODULE EventRetimer ----------------------------
(***************************************************************************)
(* The retiming buffer between the TCP messages and the virtual tablet     *)
(* (crates/dt-input/src/retimer.rs), with its caller, the main loop: a     *)
(* message is pushed when it is received (main.rs:395), drain_ready runs   *)
(* in the branch of the select! that sleeps (main.rs:409-415) and reset    *)
(* when a client is accepted, says goodbye or is found to be gone          *)
(* (main.rs:315, 367, 421), but not when it is refused (main.rs:355-357):  *)
(* what a refused client has sent is still emitted.                        *)
(*                                                                         *)
(* Time is counted in ticks.  Poll bounds the ticks between two calls of   *)
(* drain_ready; the sleep asks for 100 microseconds, and sending a video   *)
(* frame or awaiting a client makes it longer.  An input packet is its     *)
(* number and the moment it was pushed, which the properties compare.  now *)
(* never exceeds MaxTime and at most MaxEvents packets are sent: the       *)
(* bounds of an instance.                                                  *)
(***************************************************************************)
EXTENDS Integers, Sequences

CONSTANTS MaxBuffer,    \* MAX_BUFFER_SIZE
          MaxDelay,     \* MAX_DELAY_MS
          MinInterval,  \* MIN_INTERVAL_US
          Poll,
          Stamp,        \* the timestamps a client may put on a packet
          Client,       \* the numbers of the clients, used again and again
          MaxEvents, MaxTime

ASSUME RetimerAssumption ==
    /\ MaxBuffer \in Nat \ {0}
    /\ MaxDelay \in Nat
    /\ MinInterval \in Nat \ {0}
    /\ Poll \in Nat \ {0}
    /\ Stamp \subseteq Nat
    /\ 0 \notin Client
    /\ MaxEvents \in Nat /\ MaxTime \in Nat

None == -1

VARIABLES now, lastPoll,
          client,           \* the connected client of the main loop, 0 if none
          buffer,           \* the pairs of target time and packet
          base_ts, base_instant,        \* clock_offset, None when unset
          last_emit,
          sent,             \* how many packets were pushed
          emitted           \* the packet emitted last

clock == <<base_ts, base_instant>>
vars  == <<now, lastPoll, client, buffer, clock, last_emit, sent, emitted>>

Packet == [seq : 0 .. MaxEvents, pushed : 0 .. MaxTime]
Entry  == [target : Int, packet : Packet]

TypeOK ==
    /\ now \in 0 .. MaxTime /\ lastPoll \in Nat
    /\ client \in Client \cup {0}
    /\ buffer \in Seq(Entry)
    /\ base_ts \in Nat \cup {None} /\ base_instant \in Nat \cup {None}
    /\ last_emit \in Nat \cup {None}
    /\ sent \in 0 .. MaxEvents
    /\ emitted \in Packet

Init ==
    /\ now = 0 /\ lastPoll = 0
    /\ client = 0
    /\ buffer = <<>>
    /\ base_ts = None /\ base_instant = None /\ last_emit = None
    /\ sent = 0
    /\ emitted = [seq |-> 0, pushed |-> 0]

MinOf(a, b) == IF a =< b THEN a ELSE b

\* client_ts_to_instant, after push has set the clock offset: a timestamp before
\* the first one counts as now.
ToInstant(ts) ==
    IF base_ts = None \/ ts < base_ts THEN now
    ELSE base_instant + (ts - base_ts)

\* Mutant of Target: no limit on the delay.
TargetUnclamped(ts) == ToInstant(ts)

\* The time push gives a packet, never more than MaxDelay ahead.
Target(ts) == MinOf(ToInstant(ts), now + MaxDelay)

\* A full buffer loses its oldest packet.
Room(b) == IF Len(b) >= MaxBuffer THEN Tail(b) ELSE b

\* A message of the connected client; those of others are dropped.
Push(ts) ==
    /\ client # 0
    /\ sent < MaxEvents
    /\ sent' = sent + 1
    /\ buffer' = Append(Room(buffer),
                   [target |-> Target(ts),
                    packet |-> [seq |-> sent + 1, pushed |-> now]])
    /\ IF base_ts = None THEN base_ts' = ts /\ base_instant' = now
                         ELSE UNCHANGED clock
    /\ UNCHANGED <<now, lastPoll, client, last_emit, emitted>>

\* pop_ready finds a packet.
Ready ==
    /\ last_emit = None \/ now - last_emit >= MinInterval
    /\ buffer # <<>>
    /\ now >= Head(buffer).target

\* drain_ready: its loop ends with the first pop_ready that finds nothing, and
\* MinInterval lets one packet pass at a time.
Drain ==
    /\ lastPoll' = now
    /\ \/ /\ Ready
          /\ emitted' = Head(buffer).packet
          /\ buffer' = Tail(buffer)
          /\ last_emit' = now
       \/ ~Ready /\ UNCHANGED <<emitted, buffer, last_emit>>
    /\ UNCHANGED <<now, client, clock, sent>>

Reset ==
    /\ buffer' = <<>>
    /\ base_ts' = None /\ base_instant' = None /\ last_emit' = None

\* Mutant of Accept: the events and the clock of the client before are kept.
AcceptUnreset ==
    /\ client' \in Client \ {client}
    /\ UNCHANGED <<now, lastPoll, buffer, clock, last_emit, sent, emitted>>

\* Another client connects and takes the place of the one before, if any.
Accept ==
    /\ client' \in Client \ {client}
    /\ Reset
    /\ UNCHANGED <<now, lastPoll, sent, emitted>>

\* The client says goodbye, or its connection is found to be closed.
Leave ==
    /\ client # 0 /\ client' = 0
    /\ Reset
    /\ UNCHANGED <<now, lastPoll, sent, emitted>>

\* A client of another protocol version is sent off, past the reset.
Refuse ==
    /\ client # 0 /\ client' = 0
    /\ UNCHANGED <<now, lastPoll, buffer, clock, last_emit, sent, emitted>>

Tick ==
    /\ now < MaxTime
    /\ now - lastPoll < Poll
    /\ now' = now + 1
    /\ UNCHANGED <<lastPoll, client, buffer, clock, last_emit, sent, emitted>>

Next ==
    \/ \E ts \in Stamp : Push(ts)
    \/ Drain
    \/ Accept \/ Leave \/ Refuse
    \/ Tick

Spec == Init /\ [][Next]_vars

---------------------------------------------------------------------------
(* Properties *)

\* The buffer is the last packets pushed, none missing between them and none
\* emitted yet: only the oldest are lost, and nothing is emitted twice or after
\* a packet that was pushed later (retimer.rs:70-75, 94).
Contiguous ==
    /\ Len(buffer) =< MaxBuffer
    /\ \A i \in DOMAIN buffer : buffer[i].packet.seq = sent - Len(buffer) + i
    /\ emitted.seq =< sent - Len(buffer)

\* The longest time between two emissions while packets wait.
Gap == MinInterval + Poll - 1

\* How long a packet waits at most: MaxDelay, one poll, and one gap for each
\* packet the buffer can hold before it.
WaitBound ==
    \A i \in DOMAIN buffer :
        now - buffer[i].packet.pushed =< MaxDelay + Poll - 1 + (MaxBuffer - 1) * Gap

\* The buffer, without the times, is a queue that loses its oldest item when full, and
\* the client that comes next finds nothing in it of the one before (main.rs:315).
Packets(b) == [i \in DOMAIN b |-> b[i].packet]

Fifo == INSTANCE LossyFifo WITH
    Item <- Packet, Capacity <- MaxBuffer, Owner <- Client, Nobody <- 0,
    owner <- client, queue <- Packets(buffer), taken <- emitted
FifoSpec == Fifo!Spec
=============================================================================
