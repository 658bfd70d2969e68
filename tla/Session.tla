------------------------------ MODULE Session ------------------------------
(***************************************************************************)
(* Who is connected: the main loop's record of the current client          *)
(* (crates/dt-server/src/main.rs:302-425, 523-530), the TCP server with a  *)
(* task per connection (crates/dt-server/src/network.rs:76-239), and the   *)
(* client's life (NetworkClient.kt, MainActivity.kt).                      *)
(*                                                                         *)
(* A connection is a NetworkClient: the app makes one for every attempt    *)
(* and never uses it again, and other devices may connect too.  They are   *)
(* numbered as they connect, which is also how next_client_id numbers      *)
(* them.  TCP delivers whole messages in order; a closed socket may lose   *)
(* what is under way.  "Work" stands for the messages that only the        *)
(* current client's session handles: input, heartbeats, keyframe requests. *)
(* A connection sends at most MaxWork of them, there are at most MaxConns  *)
(* connections, and the server's heartbeat comes due MaxBeats times.       *)
(*                                                                         *)
(* The task of a connection reads in a select!: a header of which only a   *)
(* part has come is lost when a message to the client is written first     *)
(* (network.rs:193-231).  From then on the connection is in `cut`: what    *)
(* the task reads begins anywhere in a message, so that its length and its *)
(* contents are arbitrary and nothing of it decodes.                       *)
(***************************************************************************)
EXTENDS Naturals, Sequences

CONSTANTS MaxConns, MaxWork, MaxBeats,
          MsgCap,       \* the channel of messages to the main loop
          OutCap,       \* the channel of messages to the task of a client
          MayCut,       \* can a header come in two parts?
          MayBeOld,     \* can an app have another protocol version?
          MayStall,     \* can a read of the client time out?
          MayGiveUp     \* can the user choose another server during connect?

ASSUME SessionAssumption ==
    /\ MaxConns \in Nat /\ MaxWork \in Nat /\ MaxBeats \in Nat
    /\ MsgCap \in Nat \ {0} /\ OutCap \in Nat \ {0} /\ MayCut \in BOOLEAN
    /\ MayBeOld \in BOOLEAN /\ MayStall \in BOOLEAN /\ MayGiveUp \in BOOLEAN

Conn == 1 .. MaxConns
Up   == {"Connect", "SetUdpPort", "Work", "Disconnect"}
Down == {"Ack", "Nack", "Heartbeat"}

VARIABLES
    state,              \* the client's connection state
    old,                \* the connections of apps with another protocol version
    left,               \* the user is done with this client
    worked,             \* how much Work it has sent
    closed,             \* the client closed its socket
    up, down,           \* what TCP carries
    dialed, accepted,   \* connections made by clients, and taken by the server
    handler, hand,      \* the task of a connection, the message it has read
    cut,                \* the connections whose task has lost the framing
    outgoing, senders,  \* the channels to the tasks, and client_senders
    msgs,               \* the channel from the tasks
    loop,               \* where the main loop is
    client, udp,        \* the current client, 0 if none; is its UDP port known?
    due, beats,         \* is a heartbeat due; how many were
    served              \* whose work was done last

app    == <<state, old, left, worked, closed>>
wire   == <<up, down>>
tasks  == <<handler, hand, cut, outgoing, senders>>
serv   == <<client, udp, served>>
clock  == <<due, beats>>
vars   == <<app, wire, dialed, accepted, tasks, msgs, loop, serv, clock>>

ClientState == {"new", "waiting", "connected", "error", "gone"}
HandlerAt   == {"none", "read", "payload", "push", "removing", "ended"}
LoopAt      == {"select", "ack", "nack", "body", "beat"}
Sending     == {"ack", "nack", "beat"}
Packet      == Up \cup {"garbage"}
Message     == [from : Conn, msg : Packet]

TypeOK ==
    /\ state \in [Conn -> ClientState]
    /\ old \subseteq Conn
    /\ worked \in [Conn -> 0 .. MaxWork]
    /\ left \in [Conn -> BOOLEAN] /\ closed \in [Conn -> BOOLEAN]
    /\ up \in [Conn -> Seq(Up)] /\ down \in [Conn -> Seq(Down)]
    /\ dialed \in 0 .. MaxConns /\ accepted \in 0 .. dialed
    /\ handler \in [Conn -> HandlerAt]
    /\ hand \in [Conn -> Packet \cup {"none"}]
    /\ \A c \in Conn : handler[c] = "push" => hand[c] \in Packet
    /\ cut \subseteq Conn
    /\ outgoing \in [Conn -> Seq(Down)] /\ \A c \in Conn : Len(outgoing[c]) =< OutCap
    /\ senders \subseteq Conn
    /\ msgs \in Seq(Message) /\ Len(msgs) =< MsgCap
    /\ loop \in LoopAt
    /\ client \in 0 .. MaxConns /\ udp \in BOOLEAN
    /\ served \in 0 .. MaxConns
    /\ due \in BOOLEAN /\ beats \in 0 .. MaxBeats

Init ==
    /\ state = [c \in Conn |-> "new"]
    /\ old = {}
    /\ worked = [c \in Conn |-> 0]
    /\ left = [c \in Conn |-> FALSE] /\ closed = [c \in Conn |-> FALSE]
    /\ up = [c \in Conn |-> <<>>] /\ down = [c \in Conn |-> <<>>]
    /\ dialed = 0 /\ accepted = 0
    /\ handler = [c \in Conn |-> "none"]
    /\ hand = [c \in Conn |-> "none"]
    /\ cut = {}
    /\ outgoing = [c \in Conn |-> <<>>] /\ senders = {}
    /\ msgs = <<>>
    /\ loop = "select"
    /\ client = 0 /\ udp = FALSE /\ served = 0
    /\ due = FALSE /\ beats = 0

---------------------------------------------------------------------------
(* The client *)

\* connect: the socket is opened and Connect is sent.  A close that came before
\* found no socket to close, and did not stop the connect.
Dial ==
    /\ dialed < MaxConns
    /\ dialed' = dialed + 1
    /\ state' = [state EXCEPT ![dialed'] = "waiting"]
    /\ up' = [up EXCEPT ![dialed'] = <<"Connect">>]
    /\ \E l \in BOOLEAN :
         /\ l => MayGiveUp
         /\ left' = [left EXCEPT ![dialed'] = l]
    /\ UNCHANGED old \/ (MayBeOld /\ old' = old \cup {dialed'})
    /\ UNCHANGED <<worked, closed, down, accepted, tasks, msgs, loop, serv, clock>>

\* The server's end of the socket is closed: its task ended, or the socket was
\* dropped in accept.
Hung(c) == handler[c] \in {"removing", "ended"}

\* What a client writes is lost once the server's end is closed.
Upload(c, m) == IF Hung(c) THEN up ELSE [up EXCEPT ![c] = Append(@, m)]

\* The client's end of a failed connect: cleanup closes the socket.
Fail(c) ==
    /\ state' = [state EXCEPT ![c] = "error"]
    /\ closed' = [closed EXCEPT ![c] = TRUE]
    /\ down' = [down EXCEPT ![c] = <<>>]
    /\ UNCHANGED <<old, left, worked, up>>

\* Mutant of Answer: SetUdpPort is not sent.
AnswerPortless(c) ==
    /\ state[c] = "waiting"
    /\ down[c] # <<>>
    /\ \/ /\ Head(down[c]) = "Ack"
          /\ down' = [down EXCEPT ![c] = Tail(@)]
          /\ state' = [state EXCEPT ![c] = "connected"]
          /\ UNCHANGED <<old, left, worked, closed, up>>
       \/ Head(down[c]) # "Ack" /\ Fail(c)
    /\ UNCHANGED <<dialed, accepted, tasks, msgs, loop, serv, clock>>

\* connect reads one packet; only a ConnectAck will do.
Answer(c) ==
    /\ state[c] = "waiting"
    /\ down[c] # <<>>
    /\ \/ /\ Head(down[c]) = "Ack"
          /\ down' = [down EXCEPT ![c] = Tail(@)]
          /\ state' = [state EXCEPT ![c] = "connected"]
          /\ up' = Upload(c, "SetUdpPort")
          /\ UNCHANGED <<old, left, worked, closed>>
       \/ Head(down[c]) # "Ack" /\ Fail(c)
    /\ UNCHANGED <<dialed, accepted, tasks, msgs, loop, serv, clock>>

ServerClosed(c) == Hung(c) /\ down[c] = <<>>

\* The end of the stream, or no answer within the read timeout of 100 ms.
AnswerFails(c) ==
    /\ state[c] = "waiting"
    /\ ServerClosed(c) \/ MayStall
    /\ Fail(c)
    /\ UNCHANGED <<dialed, accepted, tasks, msgs, loop, serv, clock>>

\* The receive loop of a client; close has cancelled the loops of one that was
\* given up.
Hear(c) ==
    /\ state[c] = "connected" /\ ~left[c]
    /\ down[c] # <<>>
    /\ down' = [down EXCEPT ![c] = Tail(@)]
    /\ UNCHANGED <<app, up, dialed, accepted, tasks, msgs, loop, serv, clock>>

\* The receive loop ends; nothing closes the socket.
Lost(c) ==
    /\ state[c] = "connected" /\ ~left[c]
    /\ state' = [state EXCEPT ![c] = "error"]
    /\ down' = [down EXCEPT ![c] = <<>>]
    /\ UNCHANGED <<old, left, worked, closed, up, dialed, accepted, tasks, msgs, loop,
                   serv, clock>>

\* send_to_client waits while the client's channel is full; it fails at once when
\* the sender or its task is gone.
Alive(c) == c \in senders /\ ~Hung(c)
Room(c)  == Alive(c) => Len(outgoing[c]) < OutCap
Blocked  == loop \in Sending /\ ~Room(client)

\* No heartbeat comes any more: c is not the current client, or its task waits for
\* the rest of a message, or the main loop waits itself.
Silent(c) ==
    /\ down[c] = <<>>
    /\ \/ client # c /\ outgoing[c] = <<>>
       \/ handler[c] = "payload"
       \/ Blocked

\* Mutant of Lose: silence is not noticed.
LoseWhenClosed(c) == Lost(c) /\ ServerClosed(c)

\* The stream has ended, the server has been silent for HEARTBEAT_TIMEOUT_MS, or a
\* read that timed out in the middle of a message has lost its beginning.
Lose(c) == Lost(c) /\ (ServerClosed(c) \/ Silent(c) \/ MayStall)

\* sendInput, requestKeyframe and the heartbeat.
Work(c) ==
    /\ state[c] = "connected" /\ ~left[c]
    /\ worked[c] < MaxWork
    /\ worked' = [worked EXCEPT ![c] = @ + 1]
    /\ up' = Upload(c, "Work")
    /\ UNCHANGED <<state, old, left, closed, down, dialed, accepted, tasks, msgs,
                   loop, serv, clock>>

\* disconnect and close: Disconnect is sent by a coroutine that cleanup does not
\* wait for, so it may find the socket closed.
Leave(c) ==
    /\ state[c] \in {"waiting", "connected"} /\ ~left[c]
    /\ state' = [state EXCEPT ![c] = "gone"]
    /\ left' = [left EXCEPT ![c] = TRUE]
    /\ closed' = [closed EXCEPT ![c] = TRUE]
    /\ up' = Upload(c, "Disconnect") \/ UNCHANGED up
    /\ down' = [down EXCEPT ![c] = <<>>]
    /\ UNCHANGED <<old, worked, dialed, accepted, tasks, msgs, loop, serv, clock>>

---------------------------------------------------------------------------
(* The task of a connection, handle_tcp_client *)

Read(c) ==
    /\ handler[c] = "read" /\ c \notin cut
    /\ up[c] # <<>>
    /\ hand' = [hand EXCEPT ![c] = Head(up[c])]
    /\ up' = [up EXCEPT ![c] = Tail(@)]
    /\ handler' = [handler EXCEPT ![c] = "push"]
    /\ UNCHANGED <<cut, outgoing, senders, down, msgs>>

\* Without framing more of the stream is taken for a payload, which ends somewhere.
ReadGarbled(c) ==
    /\ handler[c] \in {"read", "payload"} /\ c \in cut
    /\ up[c] # <<>>
    /\ up' = [up EXCEPT ![c] = Tail(@)]
    /\ \/ /\ handler' = [handler EXCEPT ![c] = "push"]
          /\ hand' = [hand EXCEPT ![c] = "garbage"]
       \/ handler' = [handler EXCEPT ![c] = "payload"] /\ UNCHANGED hand
    /\ UNCHANGED <<cut, outgoing, senders, down, msgs>>

\* While the channel is full the task does nothing else.
Push(c) ==
    /\ handler[c] = "push"
    /\ Len(msgs) < MsgCap
    /\ msgs' = Append(msgs, [from |-> c, msg |-> hand[c]])
    /\ hand' = [hand EXCEPT ![c] = "none"]
    /\ handler' = [handler EXCEPT ![c] = "read"]
    /\ UNCHANGED <<cut, outgoing, senders, wire>>

\* What the channel still holds is written even after the sender was removed.  The
\* read is cancelled; the part of a header it has taken is gone.  What nobody will
\* read is not kept.
Write(c) ==
    /\ handler[c] = "read"
    /\ outgoing[c] # <<>>
    /\ outgoing' = [outgoing EXCEPT ![c] = Tail(@)]
    /\ down' = IF state[c] = "waiting" \/ (state[c] = "connected" /\ ~left[c])
               THEN [down EXCEPT ![c] = Append(@, Head(outgoing[c]))] ELSE down
    /\ UNCHANGED cut \/ (MayCut /\ up[c] # <<>> /\ cut' = cut \cup {c})
    /\ UNCHANGED <<handler, hand, senders, up, msgs>>

\* The read reports the end of the stream, or the read or the write fails; the
\* socket and the receiver of the channel are dropped.
Broken(c) ==
    /\ handler[c] \in {"read", "payload"}
    /\ closed[c]
    /\ handler' = [handler EXCEPT ![c] = "removing"]
    /\ outgoing' = [outgoing EXCEPT ![c] = <<>>]
    /\ up' = [up EXCEPT ![c] = <<>>]
    /\ UNCHANGED <<hand, cut, senders, down, msgs>>

\* The write lock is free unless the main loop waits in send_to_client.
Remove(c) ==
    /\ handler[c] = "removing"
    /\ ~Blocked
    /\ senders' = senders \ {c}
    /\ handler' = [handler EXCEPT ![c] = "ended"]
    /\ UNCHANGED <<hand, cut, outgoing, wire, msgs>>

Task(c) ==
    /\ Read(c) \/ ReadGarbled(c) \/ Push(c) \/ Write(c) \/ Broken(c) \/ Remove(c)
    /\ UNCHANGED <<app, dialed, accepted, loop, serv, clock>>

---------------------------------------------------------------------------
(* The main loop *)

\* Mutant of Accept: the old client is not removed.
AcceptBeside ==
    /\ loop = "select"
    /\ accepted < dialed
    /\ accepted' = accepted + 1
    /\ handler' = [handler EXCEPT ![accepted'] = "read"]
    /\ senders' = senders \cup {accepted'}
    /\ client' = accepted'
    /\ udp' = FALSE
    /\ loop' = "body"
    /\ UNCHANGED <<app, wire, dialed, hand, cut, outgoing, msgs, served, clock>>

\* The new client takes the place of the old one, whose sender is removed.
Accept ==
    /\ loop = "select"
    /\ accepted < dialed
    /\ accepted' = accepted + 1
    /\ handler' = [handler EXCEPT ![accepted'] = "read"]
    /\ senders' = (senders \cup {accepted'}) \ {client}
    /\ client' = accepted'
    /\ udp' = FALSE
    /\ loop' = "body"
    /\ UNCHANGED <<app, wire, dialed, hand, cut, outgoing, msgs, served, clock>>

\* The select! takes another branch while accept waits for the lock that a task
\* holds to remove its sender: the accepted socket is dropped.
AcceptDropped ==
    /\ loop = "select"
    /\ accepted < dialed
    /\ \E c \in Conn : handler[c] = "removing"
    /\ accepted' = accepted + 1
    /\ handler' = [handler EXCEPT ![accepted'] = "ended"]
    /\ up' = [up EXCEPT ![accepted'] = <<>>]
    /\ UNCHANGED <<app, down, dialed, hand, cut, outgoing, senders, msgs, loop, serv,
                   clock>>

\* Mutant of Connect: the version is not compared.
ConnectAny(c) == loop' = "ack" /\ UNCHANGED <<senders, serv>>

\* What a message of the current client does.
Connect(c) ==
    /\ loop' = IF c \in old THEN "nack" ELSE "ack"
    /\ UNCHANGED <<senders, serv>>

Forget ==
    /\ senders' = senders \ {client}
    /\ client' = 0 /\ udp' = FALSE
    /\ UNCHANGED served

SetUdpPort == loop' = "body" /\ udp' = TRUE /\ UNCHANGED <<senders, client, served>>

Serve(c) == loop' = "body" /\ served' = c /\ UNCHANGED <<senders, client, udp>>

\* Mutant of Ignore: the work of any client is done.
IgnoreNobody ==
    /\ served' = Head(msgs).from
    /\ loop' = "body"
    /\ UNCHANGED <<senders, client, udp>>

\* Messages of other clients are dropped, and what does not decode.
Ignore == loop' = "body" /\ UNCHANGED <<senders, serv>>

Receive ==
    /\ loop = "select"
    /\ msgs # <<>>
    /\ msgs' = Tail(msgs)
    /\ LET c == Head(msgs).from
           m == Head(msgs).msg
       IN  \/ (c # client \/ m = "garbage") /\ Ignore
           \/ c = client /\ m = "Connect" /\ Connect(c)
           \/ c = client /\ m = "SetUdpPort" /\ SetUdpPort
           \/ c = client /\ m = "Work" /\ Serve(c)
           \/ c = client /\ m = "Disconnect" /\ Forget /\ loop' = "body"
    /\ UNCHANGED <<app, wire, dialed, accepted, handler, hand, cut, outgoing, clock>>

\* Mutant of Sleep: the client is not looked for.
SleepUnchecked ==
    /\ loop = "select"
    /\ loop' = "body"
    /\ UNCHANGED <<app, wire, dialed, accepted, tasks, msgs, serv, clock>>

\* The branch that sleeps looks whether the client's task is still there.
Sleep ==
    /\ loop = "select"
    /\ loop' = "body"
    /\ \/ client \in senders /\ UNCHANGED serv
       \/ client \notin senders /\ client' = 0 /\ udp' = FALSE /\ UNCHANGED served
    /\ UNCHANGED <<app, wire, dialed, accepted, tasks, msgs, clock>>

\* The end of every pass: a heartbeat, when one is due and there is a client.
Body ==
    /\ loop = "body"
    /\ loop' = IF client # 0 /\ due THEN "beat" ELSE "select"
    /\ UNCHANGED <<app, wire, dialed, accepted, tasks, msgs, serv, clock>>

\* send_to_client: the message is lost when the task is gone.
Sent(m) ==
    outgoing' = IF Alive(client) THEN [outgoing EXCEPT ![client] = Append(@, m)]
                ELSE outgoing

\* Mutant of Send: last_heartbeat keeps its value.
SendAgain ==
    /\ Room(client)
    /\ \/ /\ loop = "ack" /\ Sent("Ack") /\ loop' = "body"
          /\ UNCHANGED <<senders, serv>>
       \/ /\ loop = "nack" /\ Sent("Nack") /\ loop' = "select"
          /\ Forget
       \/ /\ loop = "beat" /\ Sent("Heartbeat") /\ loop' = "select"
          /\ UNCHANGED <<senders, serv>>
    /\ UNCHANGED <<app, wire, dialed, accepted, handler, hand, cut, msgs, clock>>

\* After a ConnectNack the loop continues past the rest of the pass.
Send ==
    /\ Room(client)
    /\ \/ /\ loop = "ack" /\ Sent("Ack") /\ loop' = "body"
          /\ UNCHANGED <<senders, serv, due>>
       \/ /\ loop = "nack" /\ Sent("Nack") /\ loop' = "select"
          /\ Forget /\ UNCHANGED due
       \/ /\ loop = "beat" /\ Sent("Heartbeat") /\ loop' = "select"
          /\ due' = FALSE
          /\ UNCHANGED <<senders, serv>>
    /\ UNCHANGED <<app, wire, dialed, accepted, handler, hand, cut, msgs, beats>>

\* A second has gone by since the last heartbeat, whether or not there was a
\* client to send it to.  In a second every task writes what it can write.
Second ==
    /\ ~due /\ beats < MaxBeats
    /\ \A c \in Conn : outgoing[c] # <<>> => handler[c] = "payload"
    /\ due' = TRUE /\ beats' = beats + 1
    /\ UNCHANGED <<app, wire, dialed, accepted, tasks, msgs, loop, serv>>

---------------------------------------------------------------------------
User(c)   == Work(c) \/ Leave(c)
Client(c) == Answer(c) \/ AnswerFails(c) \/ Hear(c) \/ Lose(c)
Main      == Accept \/ AcceptDropped \/ Receive \/ Sleep \/ Body \/ Send

Next ==
    \/ Dial \/ Second \/ Main
    \/ \E c \in Conn : User(c) \/ Client(c) \/ Task(c)

Spec == Init /\ [][Next]_vars

\* Tasks and the client's coroutines are scheduled.  select! polls its branches in
\* a random order, so that neither the messages nor the sleep is passed over for
\* ever.
FairSpec ==
    /\ Spec
    /\ WF_vars(Body) /\ WF_vars(Send) /\ SF_vars(Receive) /\ SF_vars(Sleep)
    /\ \A c \in Conn : WF_vars(Client(c)) /\ WF_vars(Task(c))

---------------------------------------------------------------------------
(* Properties *)

\* Only the current client can be sent messages: whoever was displaced, refused or
\* has left is not in client_senders (main.rs:309-312, 360-362, 366-368, 419-422).
OnlyClientSends == senders \subseteq {client}

\* Work that an older client left in the channel is not done once a newer one was
\* served (main.rs:338).
NoReturn == [][served' >= served]_vars

\* An app of another version never comes to believe that it is connected.
RefusedStaysOut == \A c \in old : state[c] # "connected"

\* The main loop waits for a client in send_to_client only when the task of that
\* client has lost the framing: but for that the main loop and a task never wait
\* for each other (network.rs:153-164, 203, 213).
BlockedByCut == Blocked => client \in cut

\* A client that has gone is noticed: is_client_connected or Disconnect frees its
\* place (main.rs:364-369, 418-424).
GoneIsNoticed == \A c \in Conn : closed[c] ~> client # c

\* The server learns the UDP port of a client that stays connected (main.rs:373),
\* unless the framing was lost.
PortIsLearned ==
    \A c \in Conn : state[c] = "connected" /\ client = c
                      ~> udp \/ client # c \/ state[c] # "connected" \/ c \in cut

\* A client that lost its place finds out (NetworkClient.kt:292-299), unless it was
\* given up and its loops have ended.
DisplacedFindsOut ==
    \A c \in Conn : state[c] = "connected" /\ client # c
                      ~> state[c] # "connected" \/ left[c]

---------------------------------------------------------------------------
(* The promise this keeps *)

Has(s, x) == \E i \in 1 .. Len(s) : s[i] = x

\* A place is offered by the ConnectAck on its way to the client.
IsOffered(c) == Has(outgoing[c], "Ack") \/ Has(down[c], "Ack")
Offered      == {c \in Conn : IsOffered(c)}

PhaseOf(s) == CASE s \in {"new", "waiting"} -> "outside"
                [] s = "connected"          -> "joined"
                [] OTHER                    -> "gone"
Phases     == [c \in Conn |-> PhaseOf(state[c])]

\* Whoever has sent Work.
Workers == {c \in Conn : worked[c] > 0}

Promise == INSTANCE OneClient WITH
    newest <- accepted, current <- client, offers <- Offered,
    phase <- Phases, asked <- Workers

\* The main loop, the tasks and the clients together keep the promise of OneClient:
\* whoever believes to be connected was the current client when its ConnectAck was
\* sent, and nothing is done but for the current client (main.rs:309-322, 338-425).
OneAtATime == Promise!Spec
=============================================================================
