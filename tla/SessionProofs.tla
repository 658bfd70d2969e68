--------------------------- MODULE SessionProofs ---------------------------
(***************************************************************************)
(* Proofs about the session, for any number of connections and any         *)
(* capacity of the channels: types, that only the current client can be    *)
(* sent messages, that a newer client is never passed over for an older    *)
(* one, that an app of another version is never accepted, and that the     *)
(* main loop and the task of a client never wait for each other as long as *)
(* the framing holds, and that the session implements OneClient.           *)
(***************************************************************************)
EXTENDS Session, SequenceTheorems, TLAPS

LEMMA TypeInit == Init => TypeOK
<1> SUFFICES ASSUME Init
             PROVE  TypeOK
    OBVIOUS
<1>1. msgs \in Seq(Message) /\ Len(msgs) =< MsgCap /\ Len(<<>>) =< OutCap
    BY SessionAssumption DEF Init
<1>2. 0 \in 0 .. MaxConns /\ 0 \in 0 .. MaxBeats /\ 0 \in 0 .. MaxWork /\ 0 \in 0 .. 0
    BY SessionAssumption
<1>3. /\ "Work" \in Up /\ "new" \in ClientState /\ "none" \in HandlerAt
      /\ <<>> \in Seq(Up) /\ <<>> \in Seq(Down) /\ "select" \in LoopAt
    BY DEF Up, ClientState, HandlerAt, LoopAt
<1> QED  BY <1>1, <1>2, <1>3 DEF Init, TypeOK

LEMMA TypeUser == TypeOK /\ (Dial \/ \E c \in Conn : User(c)) => TypeOK'
<1> SUFFICES ASSUME TypeOK, Dial \/ \E c \in Conn : User(c)
             PROVE  TypeOK'
    OBVIOUS
<1>0. \A c \in Conn, m \in Up : Upload(c, m) \in [Conn -> Seq(Up)]
    <2> SUFFICES ASSUME NEW c \in Conn, NEW m \in Up
                 PROVE  Upload(c, m) \in [Conn -> Seq(Up)]
        OBVIOUS
    <2>1. Append(up[c], m) \in Seq(Up) /\ up \in [Conn -> Seq(Up)]
        BY DEF TypeOK
    <2> QED  BY <2>1 DEF Upload
<1>1. CASE Dial
    <2>1. dialed' \in Conn /\ accepted \in 0 .. dialed'
        BY <1>1, SessionAssumption DEF Dial, TypeOK, Conn
    <2>2. up' \in [Conn -> Seq(Up)]
        BY <1>1, <2>1 DEF Dial, TypeOK, Up
    <2>3. /\ state' \in [Conn -> ClientState] /\ left' \in [Conn -> BOOLEAN]
          /\ old' \subseteq Conn
        BY <1>1, <2>1 DEF Dial, TypeOK, ClientState
    <2>4. dialed' \in 0 .. MaxConns
        BY <2>1, SessionAssumption DEF Conn
    <2> QED
        BY <1>1, <2>1, <2>2, <2>3, <2>4 DEF Dial, TypeOK, tasks, serv, clock
<1>2. ASSUME NEW c \in Conn, Work(c) PROVE TypeOK'
    <2>1. up' \in [Conn -> Seq(Up)]
        BY <1>0, <1>2 DEF Work, Up
    <2>2. worked' \in [Conn -> 0 .. MaxWork]
        <3>1. worked[c] \in 0 .. MaxWork /\ worked[c] < MaxWork
            BY <1>2 DEF Work, TypeOK
        <3>2. worked[c] + 1 \in 0 .. MaxWork
            BY <3>1, SessionAssumption
        <3> QED  BY <1>2, <3>2 DEF Work, TypeOK
    <2> QED  BY <1>2, <2>1, <2>2 DEF Work, TypeOK, tasks, serv, clock
<1>3. ASSUME NEW c \in Conn, Leave(c) PROVE TypeOK'
    <2>1. up' \in [Conn -> Seq(Up)]
        BY <1>0, <1>3 DEF Leave, TypeOK, Up
    <2>2. state' \in [Conn -> ClientState] /\ down' \in [Conn -> Seq(Down)]
        BY <1>3 DEF Leave, TypeOK, ClientState
    <2> QED  BY <1>3, <2>1, <2>2 DEF Leave, TypeOK, tasks, serv, clock
<1> QED  BY <1>1, <1>2, <1>3 DEF User

LEMMA TypeClient == TypeOK /\ (\E c \in Conn : Client(c)) => TypeOK'
<1> SUFFICES ASSUME TypeOK, NEW c \in Conn, Client(c)
             PROVE  TypeOK'
    OBVIOUS
<1>0. /\ Upload(c, "SetUdpPort") \in [Conn -> Seq(Up)]
      /\ down[c] # <<>> => Tail(down[c]) \in Seq(Down)
      /\ <<>> \in Seq(Down)
      /\ "connected" \in ClientState /\ "error" \in ClientState
    <2>1. /\ Append(up[c], "SetUdpPort") \in Seq(Up) /\ up \in [Conn -> Seq(Up)]
          /\ down[c] \in Seq(Down)
        BY DEF TypeOK, Up
    <2> QED  BY <2>1 DEF Upload, ClientState
<1>1. CASE Answer(c)
    <2>1. down' \in [Conn -> Seq(Down)]
        BY <1>0, <1>1 DEF Answer, Fail, TypeOK
    <2>2. up' \in [Conn -> Seq(Up)]
        BY <1>0, <1>1 DEF Answer, Fail, TypeOK
    <2>4. state' \in [Conn -> ClientState]
        BY <1>0, <1>1 DEF Answer, Fail, TypeOK
    <2>5. closed' \in [Conn -> BOOLEAN] /\ UNCHANGED <<old, left, worked>>
        BY <1>1 DEF Answer, Fail, TypeOK
    <2>3. UNCHANGED <<dialed, accepted, tasks, msgs, loop, serv, clock>>
        BY <1>1 DEF Answer
    <2> QED  BY <2>1, <2>2, <2>3, <2>4, <2>5 DEF TypeOK, tasks, serv, clock
<1>2. CASE AnswerFails(c)
    <2>1. Fail(c) /\ UNCHANGED <<dialed, accepted, tasks, msgs, loop, serv, clock>>
        BY <1>2 DEF AnswerFails
    <2>2. /\ state' \in [Conn -> ClientState] /\ closed' \in [Conn -> BOOLEAN]
          /\ down' \in [Conn -> Seq(Down)] /\ UNCHANGED <<old, left, worked, up>>
        BY <1>0, <2>1 DEF Fail, TypeOK
    <2> QED  BY <2>1, <2>2 DEF TypeOK, tasks, serv, clock
<1>3. CASE Hear(c)
    BY <1>0, <1>3 DEF Hear, TypeOK, app, tasks, serv, clock
<1>4. CASE Lose(c)
    BY <1>0, <1>4 DEF Lose, Lost, TypeOK, tasks, serv, clock
<1> QED  BY <1>1, <1>2, <1>3, <1>4 DEF Client

LEMMA TypeTask == TypeOK /\ (\E c \in Conn : Task(c)) => TypeOK'
<1> SUFFICES ASSUME TypeOK, NEW c \in Conn, Task(c)
             PROVE  TypeOK'
    OBVIOUS
<1>0. UNCHANGED <<app, dialed, accepted, loop, serv, clock>>
    BY DEF Task
<1>h. {"read", "payload", "push", "removing", "ended"} \subseteq HandlerAt
    BY DEF HandlerAt
<1>1. CASE Read(c) \/ ReadGarbled(c)
    <2>1. Head(up[c]) \in Up /\ Tail(up[c]) \in Seq(Up)
        BY <1>1 DEF Read, ReadGarbled, TypeOK
    <2>2. "garbage" \in Packet /\ Head(up[c]) \in Packet
        BY <2>1 DEF Packet
    <2>3. /\ hand' \in [Conn -> Packet \cup {"none"}]
          /\ \A d \in Conn : handler'[d] = "push" => hand'[d] \in Packet
        <3>1. CASE Read(c)
            <4>1. /\ hand' = [hand EXCEPT ![c] = Head(up[c])]
                  /\ handler' = [handler EXCEPT ![c] = "push"]
                BY <3>1 DEF Read
            <4> QED  BY <4>1, <2>2 DEF TypeOK
        <3>2. CASE ReadGarbled(c)
            <4>1. \/ /\ handler' = [handler EXCEPT ![c] = "push"]
                     /\ hand' = [hand EXCEPT ![c] = "garbage"]
                  \/ /\ handler' = [handler EXCEPT ![c] = "payload"]
                     /\ hand' = hand
                BY <3>2 DEF ReadGarbled
            <4> QED  BY <4>1, <2>2 DEF TypeOK
        <3> QED  BY <1>1, <3>1, <3>2
    <2>4. handler' \in [Conn -> HandlerAt]
        BY <1>h, <1>1 DEF Read, ReadGarbled, TypeOK
    <2>5. up' \in [Conn -> Seq(Up)]
        BY <1>1, <2>1 DEF Read, ReadGarbled, TypeOK
    <2>6. UNCHANGED <<cut, outgoing, senders, down, msgs>>
        BY <1>1 DEF Read, ReadGarbled
    <2> QED  BY <1>0, <2>3, <2>4, <2>5, <2>6 DEF TypeOK, app, serv, clock
<1>2. CASE Push(c)
    <2>1. [from |-> c, msg |-> hand[c]] \in Message
        BY <1>2 DEF Push, TypeOK, Message
    <2>2. msgs \in Seq(Message) /\ Len(msgs) < MsgCap
        BY <1>2 DEF Push, TypeOK
    <2>3. /\ Append(msgs, [from |-> c, msg |-> hand[c]]) \in Seq(Message)
          /\ Len(Append(msgs, [from |-> c, msg |-> hand[c]])) =< MsgCap
        BY ONLY <2>1, <2>2, SessionAssumption
    <2> QED  BY <1>0, <1>h, <1>2, <2>3 DEF Push, TypeOK, app, wire, serv, clock
<1>3. CASE Write(c)
    <2>1. outgoing[c] \in Seq(Down) /\ outgoing[c] # <<>> /\ Len(outgoing[c]) =< OutCap
        BY <1>3 DEF Write, TypeOK
    <2>2. /\ Tail(outgoing[c]) \in Seq(Down) /\ Len(Tail(outgoing[c])) =< OutCap
          /\ Head(outgoing[c]) \in Down
        BY ONLY <2>1, SessionAssumption
    <2>3. Append(down[c], Head(outgoing[c])) \in Seq(Down)
        BY <2>2 DEF TypeOK
    <2>4. /\ outgoing' \in [Conn -> Seq(Down)] /\ \A d \in Conn : Len(outgoing'[d]) =< OutCap
          /\ down' \in [Conn -> Seq(Down)] /\ cut' \subseteq Conn
        BY <1>3, <2>2, <2>3 DEF Write, TypeOK
    <2> QED  BY <1>0, <1>3, <2>4 DEF Write, TypeOK, app, serv, clock
<1>4. CASE Broken(c)
    <2>1. Len(<<>>) =< OutCap
        BY SessionAssumption
    <2> QED  BY <1>0, <1>h, <1>4, <2>1 DEF Broken, TypeOK, app, serv, clock
<1>5. CASE Remove(c)
    BY <1>0, <1>h, <1>5 DEF Remove, TypeOK, app, wire, serv, clock
<1> QED  BY <1>1, <1>2, <1>3, <1>4, <1>5 DEF Task

\* What the main loop sends goes to a task that has room for it.
LEMMA SentType ==
    ASSUME TypeOK, Room(client), NEW m \in Down, Sent(m)
    PROVE  /\ outgoing' \in [Conn -> Seq(Down)]
           /\ \A c \in Conn : Len(outgoing'[c]) =< OutCap
<1>1. CASE Alive(client)
    <2>1. client \in Conn /\ Len(outgoing[client]) < OutCap /\ outgoing[client] \in Seq(Down)
        BY <1>1 DEF Alive, Room, TypeOK
    <2>2. /\ Append(outgoing[client], m) \in Seq(Down)
          /\ Len(Append(outgoing[client], m)) =< OutCap
        BY ONLY <2>1, SessionAssumption, m \in Down
    <2> QED  BY <1>1, <2>1, <2>2 DEF Sent, TypeOK
<1>2. CASE ~Alive(client)
    BY <1>2 DEF Sent, TypeOK
<1> QED  BY <1>1, <1>2

LEMMA TypeMain == TypeOK /\ (Main \/ Second) => TypeOK'
<1> SUFFICES ASSUME TypeOK, Main \/ Second
             PROVE  TypeOK'
    OBVIOUS
<1>h. {"read", "ended"} \subseteq HandlerAt
    BY DEF HandlerAt
<1>l. {"select", "ack", "nack", "body", "beat"} \subseteq LoopAt
    BY DEF LoopAt
<1>a. ASSUME accepted < dialed
      PROVE  accepted + 1 \in Conn /\ accepted + 1 \in 0 .. dialed
                /\ accepted + 1 \in 0 .. MaxConns
    BY <1>a, SessionAssumption DEF TypeOK, Conn
<1>1. CASE Accept
    BY <1>h, <1>l, <1>a, <1>1 DEF Accept, TypeOK, app, wire, clock
<1>2. CASE AcceptDropped
    BY <1>h, <1>a, <1>2 DEF AcceptDropped, TypeOK, app, serv, clock
<1>3. CASE Receive
    <2> DEFINE c == Head(msgs).from
    <2>1. /\ msgs' \in Seq(Message) /\ Len(msgs') =< MsgCap /\ Head(msgs) \in Message
        <3>1. msgs \in Seq(Message) /\ Len(msgs) =< MsgCap /\ msgs # <<>> /\ msgs' = Tail(msgs)
            BY <1>3 DEF Receive, TypeOK
        <3> QED  BY ONLY <3>1, SessionAssumption
    <2>2. c \in 0 .. MaxConns /\ 0 \in 0 .. MaxConns
        BY <2>1, SessionAssumption DEF Message, Conn
    <2>3. Ignore \/ Connect(c) \/ SetUdpPort \/ Serve(c) \/ (Forget /\ loop' = "body")
        BY <1>3 DEF Receive
    <2>4. /\ senders' \subseteq Conn /\ loop' \in LoopAt
          /\ client' \in 0 .. MaxConns /\ udp' \in BOOLEAN /\ served' \in 0 .. MaxConns
        <3> HIDE DEF c
        <3> QED
            BY <1>l, <2>2, <2>3
            DEF TypeOK, Ignore, Connect, SetUdpPort, Serve, Forget, serv
    <2> QED  BY <1>3, <2>1, <2>4 DEF Receive, TypeOK, app, wire, clock
<1>4. CASE Sleep
    <2>1. client' \in 0 .. MaxConns
        BY <1>4, SessionAssumption DEF Sleep, TypeOK, serv
    <2> QED  BY <1>4, <1>l, <2>1 DEF Sleep, TypeOK, app, wire, tasks, serv, clock
<1>5. CASE Body
    BY <1>l, <1>5 DEF Body, TypeOK, app, wire, tasks, serv, clock
<1>6. CASE Send
    <2>1. /\ outgoing' \in [Conn -> Seq(Down)] /\ \A c \in Conn : Len(outgoing'[c]) =< OutCap
        BY <1>6, SentType DEF Send, Down
    <2>2. senders' \subseteq Conn /\ loop' \in LoopAt /\ due' \in BOOLEAN
        BY <1>l, <1>6 DEF Send, Forget, TypeOK
    <2>3. client' \in 0 .. MaxConns /\ udp' \in BOOLEAN /\ served' \in 0 .. MaxConns
        <3>1. UNCHANGED serv \/ Forget
            BY <1>6 DEF Send
        <3>2. 0 \in 0 .. MaxConns
            BY SessionAssumption
        <3> QED  BY <3>1, <3>2 DEF Forget, TypeOK, serv
    <2> QED  BY <1>6, <2>1, <2>2, <2>3 DEF Send, TypeOK, app, wire
<1>7. CASE Second
    <2>1. beats' \in 0 .. MaxBeats /\ due' \in BOOLEAN
        BY <1>7, SessionAssumption DEF Second, TypeOK
    <2> QED  BY <1>7, <2>1 DEF Second, TypeOK, app, wire, tasks, serv
<1> QED  BY <1>1, <1>2, <1>3, <1>4, <1>5, <1>6, <1>7 DEF Main

\* Every variable keeps its type; the channel of messages never holds more than its
\* capacity (main.rs:275).
THEOREM TypeCorrect == Spec => []TypeOK
<1>1. TypeOK /\ UNCHANGED vars => TypeOK'
    BY DEF TypeOK, vars, app, wire, tasks, serv, clock
<1>2. TypeOK /\ [Next]_vars => TypeOK'
    BY <1>1, TypeUser, TypeClient, TypeTask, TypeMain DEF Next
<1> QED  BY <1>2, TypeInit, PTL DEF Spec

---------------------------------------------------------------------------
(* One client at a time *)

\* At every moment client_senders holds at most the current client: whoever was
\* displaced, refused or has left was removed in the same step that changed
\* client (main.rs:309-322, 360-362, 366-368).
THEOREM OnlyClientCorrect == Spec => []OnlyClientSends
<1>1. Init => OnlyClientSends
    BY DEF Init, OnlyClientSends
<1>2. OnlyClientSends /\ [Next]_vars => OnlyClientSends'
    <2> SUFFICES ASSUME OnlyClientSends, [Next]_vars
                 PROVE  OnlyClientSends'
        OBVIOUS
    <2> USE DEF OnlyClientSends
    <2>1. CASE UNCHANGED <<senders, client>>
        BY <2>1
    <2>2. CASE Accept
        BY <2>2 DEF Accept
    <2>3. CASE Receive
        BY <2>3 DEF Receive, Ignore, Connect, SetUdpPort, Serve, Forget, serv
    <2>4. CASE Sleep \/ Send
        BY <2>4 DEF Sleep, Send, Forget, tasks, serv
    <2>5. ASSUME NEW c \in Conn, Remove(c), UNCHANGED serv PROVE OnlyClientSends'
        BY <2>5 DEF Remove, serv
    <2>6. CASE Dial \/ Second \/ AcceptDropped \/ Body
        BY <2>1, <2>6 DEF Dial, Second, AcceptDropped, Body, tasks, serv
    <2>7. ASSUME NEW c \in Conn, User(c) \/ Client(c) PROVE UNCHANGED <<senders, client>>
        BY <2>7 DEF User, Client, Work, Leave, Answer, AnswerFails, Hear, Lose, Lost,
                    tasks, serv
    <2>8. ASSUME NEW c \in Conn, UNCHANGED serv,
                 Read(c) \/ ReadGarbled(c) \/ Push(c) \/ Write(c) \/ Broken(c)
          PROVE  UNCHANGED <<senders, client>>
        BY <2>8 DEF Read, ReadGarbled, Push, Write, Broken, serv
    <2>9. UNCHANGED vars => UNCHANGED <<senders, client>>
        BY DEF vars, tasks, serv
    <2> QED
        BY <2>1, <2>2, <2>3, <2>4, <2>5, <2>6, <2>7, <2>8, <2>9 DEF Next, Main, Task
<1> QED  BY <1>1, <1>2, PTL DEF Spec

\* Clients are numbered as they are accepted, and only the current one is served.
Order ==
    /\ client =< accepted /\ served =< accepted
    /\ client # 0 => served =< client

LEMMA OrderStep == TypeOK /\ Order /\ [Next]_vars => Order' /\ served' >= served
<1> SUFFICES ASSUME TypeOK, Order, [Next]_vars
             PROVE  Order' /\ served' >= served
    OBVIOUS
<1>0. client \in Nat /\ served \in Nat /\ accepted \in Nat
    BY SessionAssumption DEF TypeOK
<1> USE DEF Order
<1>1. CASE UNCHANGED <<client, served, accepted>>
    BY <1>0, <1>1
<1>2. CASE Accept
    BY <1>0, <1>2 DEF Accept
<1>3. CASE AcceptDropped
    BY <1>0, <1>3 DEF AcceptDropped, serv
<1>4. CASE Receive
    <2> DEFINE c == Head(msgs).from
    <2>1. c \in Conn
        <3>1. msgs \in Seq(Message) /\ msgs # <<>>
            BY <1>4 DEF Receive, TypeOK
        <3>2. Head(msgs) \in Message
            BY ONLY <3>1
        <3> QED  BY <3>2 DEF Message
    <2>2. c # 0 /\ UNCHANGED accepted
        BY <1>4, <2>1 DEF Receive, Conn
    <2>3. \/ UNCHANGED <<client, served>>
          \/ client' = 0 /\ UNCHANGED served
          \/ c = client /\ served' = c /\ UNCHANGED client
        BY <1>4 DEF Receive, Ignore, Connect, SetUdpPort, Serve, Forget, serv
    <2> HIDE DEF c
    <2> QED  BY <1>0, <2>2, <2>3
<1>5. CASE Sleep \/ Send
    BY <1>0, <1>5 DEF Sleep, Send, Forget, serv
<1>6. Dial \/ Second \/ Body => UNCHANGED <<client, served, accepted>>
    BY DEF Dial, Second, Body, serv
<1>7. ASSUME NEW c \in Conn, User(c) \/ Client(c)
      PROVE  UNCHANGED <<client, served, accepted>>
    BY <1>7 DEF User, Client, Work, Leave, Answer, AnswerFails, Hear, Lose, Lost, serv
<1>8. ASSUME NEW c \in Conn, Task(c) PROVE UNCHANGED <<client, served, accepted>>
    BY <1>8 DEF Task, serv
<1>9. UNCHANGED vars => UNCHANGED <<client, served, accepted>>
    BY DEF vars, serv
<1> QED
    BY <1>1, <1>2, <1>3, <1>4, <1>5, <1>6, <1>7, <1>8, <1>9 DEF Next, Main

\* Once a newer client's work was done, work that an older one left in the channel
\* is never done (main.rs:338).
THEOREM NoReturnCorrect == Spec => NoReturn
<1>1. Init => Order
    BY DEF Init, Order
<1>2. TypeOK /\ Order /\ [Next]_vars => [served' >= served]_vars
    BY OrderStep
<1>3. Spec => []Order
    BY <1>1, OrderStep, TypeCorrect, PTL DEF Spec
<1> QED  BY <1>2, <1>3, TypeCorrect, PTL DEF Spec, NoReturn

---------------------------------------------------------------------------
(* No app of another version is accepted *)

NoAck(s) == \A i \in 1 .. Len(s) : s[i] # "Ack"

LEMMA NoAckTail ==
    ASSUME NEW s \in Seq(Down), s # <<>>, NoAck(s)
    PROVE  Head(s) # "Ack" /\ NoAck(Tail(s))
<1>1. Len(s) \in Nat /\ Len(s) > 0 /\ Head(s) = s[1]
    OBVIOUS
<1>2. \A i \in 1 .. Len(Tail(s)) : i + 1 \in 1 .. Len(s) /\ Tail(s)[i] = s[i + 1]
    OBVIOUS
<1> QED  BY <1>1, <1>2 DEF NoAck

LEMMA NoAckAppend ==
    ASSUME NEW s \in Seq(Down), NEW m \in Down, m # "Ack", NoAck(s)
    PROVE  NoAck(Append(s, m))
<1>1. /\ Len(Append(s, m)) = Len(s) + 1 /\ Len(s) \in Nat
      /\ \A i \in 1 .. Len(s) : Append(s, m)[i] = s[i]
      /\ Append(s, m)[Len(s) + 1] = m
    OBVIOUS
<1>2. \A i \in 1 .. Len(s) + 1 : i \in 1 .. Len(s) \/ i = Len(s) + 1
    BY <1>1
<1> QED  BY <1>1, <1>2 DEF NoAck

\* No acknowledgement is under way to an app of another version, and a connection
\* that nobody has made yet is fresh.
Refused ==
    /\ RefusedStaysOut
    /\ \A c \in old : NoAck(outgoing[c]) /\ NoAck(down[c])
    /\ loop = "ack" => client \notin old
    /\ \A c \in Conn : c > dialed => state[c] = "new" /\ outgoing[c] = <<>> /\ down[c] = <<>>

LEMMA RefusedUser == TypeOK /\ Order /\ Refused /\ (Dial \/ \E c \in Conn : User(c)) => Refused'
<1> SUFFICES ASSUME TypeOK, Order, Refused, Dial \/ \E c \in Conn : User(c)
             PROVE  Refused'
    OBVIOUS
<1> USE DEF Refused, RefusedStaysOut
<1>0. /\ dialed \in Nat /\ accepted \in Nat /\ client \in Nat /\ accepted =< dialed
      /\ Conn \subseteq Nat /\ old \subseteq Conn
    BY SessionAssumption DEF TypeOK, Conn
<1>1. CASE Dial
    <2>1. dialed' = dialed + 1 /\ dialed + 1 \in Conn /\ client < dialed + 1
        BY <1>0, <1>1, SessionAssumption DEF Dial, TypeOK, Order, Conn
    <2>2. /\ state' = [state EXCEPT ![dialed + 1] = "waiting"]
          /\ UNCHANGED <<outgoing, down, loop, client>>
          /\ old' \subseteq old \cup {dialed + 1}
        BY <1>1, <2>1 DEF Dial, tasks, serv
    <2>3. NoAck(<<>>)
        BY DEF NoAck
    <2>4. state \in [Conn -> ClientState]
        BY DEF TypeOK
    <2>5. \A c \in old' : state'[c] # "connected" /\ NoAck(outgoing'[c]) /\ NoAck(down'[c])
        <3>1. outgoing[dialed + 1] = <<>> /\ down[dialed + 1] = <<>>
            BY <1>0, <2>1
        <3>2. \A c \in old \cup {dialed + 1} :
                  state'[c] # "connected" /\ NoAck(outgoing[c]) /\ NoAck(down[c])
            BY <1>0, <2>1, <2>2, <2>3, <2>4, <3>1
        <3> QED  BY <2>2, <3>2
    <2>6. loop' = "ack" => client' \notin old'
        BY <1>0, <2>1, <2>2
    <2>7. \A c \in Conn : c > dialed' => state'[c] = "new" /\ outgoing'[c] = <<>> /\ down'[c] = <<>>
        BY <1>0, <2>1, <2>2, <2>4
    <2> QED  BY <2>5, <2>6, <2>7
<1>2. ASSUME NEW c \in Conn, Work(c) PROVE Refused'
    BY <1>2 DEF Work, tasks, serv
<1>3. ASSUME NEW c \in Conn, Leave(c) PROVE Refused'
    <2>1. /\ state' = [state EXCEPT ![c] = "gone"] /\ state[c] # "new"
          /\ down' = [down EXCEPT ![c] = <<>>]
          /\ UNCHANGED <<old, outgoing, loop, client, dialed>>
        BY <1>3 DEF Leave, tasks, serv
    <2>2. NoAck(<<>>)
        BY DEF NoAck
    <2> QED  BY <1>0, <2>1, <2>2 DEF TypeOK
<1> QED  BY <1>1, <1>2, <1>3 DEF User

LEMMA RefusedClient == TypeOK /\ Refused /\ (\E c \in Conn : Client(c)) => Refused'
<1> SUFFICES ASSUME TypeOK, Refused, NEW c \in Conn, Client(c)
             PROVE  Refused'
    OBVIOUS
<1> USE DEF Refused, RefusedStaysOut
<1>0. /\ UNCHANGED <<old, outgoing, loop, client, dialed>>
      /\ state \in [Conn -> ClientState] /\ down \in [Conn -> Seq(Down)]
      /\ old \subseteq Conn
    BY DEF Client, Answer, AnswerFails, Fail, Hear, Lose, Lost, TypeOK, app, tasks, serv
<1>1. NoAck(<<>>)
    BY DEF NoAck
<1>2. CASE \/ /\ state' = [state EXCEPT ![c] = "error"] /\ state[c] # "new"
              /\ down' = [down EXCEPT ![c] = <<>>]
    BY <1>0, <1>1, <1>2
<1>3. CASE /\ Tail(down[c]) = down'[c] /\ down[c] # <<>>
           /\ down' = [down EXCEPT ![c] = Tail(@)]
           /\ state[c] # "new" /\ \A d \in Conn \ {c} : state'[d] = state[d]
           /\ state'[c] = "connected" => state[c] = "connected" \/ Head(down[c]) = "Ack"
    <2>1. c \in old => Head(down[c]) # "Ack" /\ NoAck(Tail(down[c]))
        BY <1>0, <1>3, NoAckTail
    <2>2. \A d \in old : state'[d] # "connected" /\ NoAck(down'[d])
        BY <1>0, <1>3, <2>1
    <2>3. \A d \in Conn : d > dialed => state'[d] = "new" /\ down'[d] = <<>>
        BY <1>0, <1>3
    <2> QED  BY <1>0, <2>2, <2>3
<1>4. CASE Answer(c)
    <2>1. CASE Fail(c)
        BY <1>2, <1>4, <2>1 DEF Answer, Fail
    <2>2. CASE ~Fail(c)
        BY <1>0, <1>3, <1>4, <2>2 DEF Answer
    <2> QED  BY <2>1, <2>2
<1>5. CASE AnswerFails(c)
    BY <1>2, <1>5 DEF AnswerFails, Fail
<1>6. CASE Hear(c)
    BY <1>0, <1>3, <1>6 DEF Hear, app
<1>7. CASE Lose(c)
    BY <1>2, <1>7 DEF Lose, Lost
<1> QED  BY <1>4, <1>5, <1>6, <1>7 DEF Client

LEMMA RefusedTask == TypeOK /\ Refused /\ (\E c \in Conn : Task(c)) => Refused'
<1> SUFFICES ASSUME TypeOK, Refused, NEW c \in Conn, Task(c)
             PROVE  Refused'
    OBVIOUS
<1> USE DEF Refused, RefusedStaysOut
<1>0. /\ UNCHANGED <<state, old, loop, client, dialed>> /\ old \subseteq Conn
      /\ outgoing \in [Conn -> Seq(Down)] /\ down \in [Conn -> Seq(Down)]
    BY DEF Task, app, serv, TypeOK
<1>1. NoAck(<<>>)
    BY DEF NoAck
<1>2. CASE Write(c)
    <2>1. /\ outgoing[c] # <<>> /\ outgoing' = [outgoing EXCEPT ![c] = Tail(@)]
          /\ \/ down' = [down EXCEPT ![c] = Append(@, Head(outgoing[c]))]
             \/ down' = down
        BY <1>2 DEF Write
    <2>2. c \in old => Head(outgoing[c]) # "Ack" /\ NoAck(Tail(outgoing[c]))
        BY <1>0, <2>1, NoAckTail
    <2>3. outgoing[c] \in Seq(Down) /\ down[c] \in Seq(Down) /\ Head(outgoing[c]) \in Down
        BY <1>0, <2>1
    <2>4. c \in old => NoAck(Append(down[c], Head(outgoing[c])))
        BY <2>2, <2>3, NoAckAppend
    <2>5. \A d \in old : NoAck(outgoing'[d]) /\ NoAck(down'[d])
        BY <1>0, <2>1, <2>2, <2>4
    <2>6. ~(c > dialed)
        BY <2>1
    <2>7. \A d \in Conn : d > dialed => outgoing'[d] = <<>> /\ down'[d] = <<>>
        BY <1>0, <2>1, <2>6
    <2> QED  BY <1>0, <2>5, <2>7
<1>3. CASE Broken(c)
    BY <1>0, <1>1, <1>3 DEF Broken
<1>4. CASE Read(c) \/ ReadGarbled(c) \/ Push(c) \/ Remove(c)
    BY <1>0, <1>4 DEF Read, ReadGarbled, Push, Remove, wire
<1> QED  BY <1>2, <1>3, <1>4 DEF Task

LEMMA RefusedMain == TypeOK /\ Order /\ Refused /\ (Main \/ Second) => Refused'
<1> SUFFICES ASSUME TypeOK, Order, Refused, Main \/ Second
             PROVE  Refused'
    OBVIOUS
<1> USE DEF Refused, RefusedStaysOut
<1>0. UNCHANGED <<state, old, down, dialed>>
    BY DEF Main, Accept, AcceptDropped, Receive, Sleep, Body, Send, Second, app, wire
<1>1. CASE Accept \/ AcceptDropped \/ Body \/ Second \/ Sleep
    <2>1. UNCHANGED outgoing /\ (loop' # "ack" \/ UNCHANGED <<loop, client>>)
        BY <1>1 DEF Accept, AcceptDropped, Body, Second, Sleep, tasks, serv
    <2> QED  BY <1>0, <2>1
<1>2. CASE Receive
    <2>1. UNCHANGED outgoing
        BY <1>2 DEF Receive
    <2>2. loop' = "ack" => client' \notin old
        BY <1>2 DEF Receive, Ignore, Connect, SetUdpPort, Serve, Forget, serv
    <2> QED  BY <1>0, <2>1, <2>2
<1>3. CASE Send
    <2>1. loop' # "ack"
        BY <1>3 DEF Send
    <2>2. CASE UNCHANGED outgoing
        BY <1>0, <2>1, <2>2
    <2>3. CASE ~UNCHANGED outgoing
        <3>1. PICK m \in Down : /\ m = "Ack" => client \notin old
                                /\ outgoing' = [outgoing EXCEPT ![client] = Append(@, m)]
            BY <1>3, <2>3 DEF Send, Sent, Down
        <3>2. outgoing \in [Conn -> Seq(Down)] /\ old \subseteq Conn /\ client \in Nat
            BY SessionAssumption DEF TypeOK
        <3>3. client \in old => NoAck(Append(outgoing[client], m))
            BY <3>1, <3>2, NoAckAppend
        <3>4. \A c \in old : NoAck(outgoing'[c])
            BY <3>1, <3>2, <3>3
        <3>5. ~(client > dialed)
            BY <3>2, SessionAssumption DEF TypeOK, Order
        <3>6. \A c \in Conn : c > dialed => outgoing'[c] = <<>>
            BY <3>1, <3>2, <3>5
        <3> QED  BY <1>0, <2>1, <3>4, <3>6
    <2> QED  BY <2>2, <2>3
<1> QED  BY <1>1, <1>2, <1>3 DEF Main

\* An app of another version is never connected: it is only ever refused, and no
\* acknowledgement meant for it or for another client reaches it
\* (main.rs:342-363).
THEOREM RefusedCorrect == Spec => []RefusedStaysOut
<1>1. Init => Order /\ Refused
    BY DEF Init, Order, Refused, RefusedStaysOut
<1>2. TypeOK /\ Order /\ Refused /\ UNCHANGED vars => Refused'
    BY DEF Refused, RefusedStaysOut, vars, app, wire, tasks, serv
<1>3. TypeOK /\ Order /\ Refused /\ [Next]_vars => Order' /\ Refused'
    BY <1>2, OrderStep, RefusedUser, RefusedClient, RefusedTask, RefusedMain DEF Next
<1>4. Refused => RefusedStaysOut
    BY DEF Refused
<1> QED  BY <1>1, <1>3, <1>4, TypeCorrect, PTL DEF Spec

---------------------------------------------------------------------------
(* The main loop and a task never wait for each other *)

AtMostOnce(s, x) == \A i, j \in 1 .. Len(s) : s[i] = x /\ s[j] = x => i = j

LEMMA HasEmpty == \A x : ~Has(<<>>, x) /\ AtMostOnce(<<>>, x)
BY DEF Has, AtMostOnce

LEMMA HasTail ==
    ASSUME NEW S, NEW s \in Seq(S), s # <<>>, NEW x, AtMostOnce(s, x)
    PROVE  /\ AtMostOnce(Tail(s), x)
           /\ Has(Tail(s), x) => Has(s, x) /\ Head(s) # x
           /\ Head(s) = x => Has(s, x)
<1>1. Len(s) \in Nat /\ Len(s) > 0 /\ Head(s) = s[1] /\ Len(Tail(s)) = Len(s) - 1
    OBVIOUS
<1>2. \A i \in 1 .. Len(Tail(s)) : i + 1 \in 1 .. Len(s) /\ Tail(s)[i] = s[i + 1]
    OBVIOUS
<1>3. \A i, j \in 1 .. Len(Tail(s)) : i + 1 = j + 1 => i = j
    BY <1>1
<1>4. AtMostOnce(Tail(s), x)
    BY <1>2, <1>3 DEF AtMostOnce
<1>5. 1 \in 1 .. Len(s) /\ \A i \in 1 .. Len(Tail(s)) : i + 1 # 1
    BY <1>1
<1> QED  BY <1>1, <1>2, <1>4, <1>5 DEF Has, AtMostOnce

LEMMA HasAppend ==
    ASSUME NEW S, NEW s \in Seq(S), NEW m \in S, NEW x, AtMostOnce(s, x)
    PROVE  /\ Has(Append(s, m), x) <=> Has(s, x) \/ m = x
           /\ (m = x => ~Has(s, x)) => AtMostOnce(Append(s, m), x)
<1>1. /\ Len(Append(s, m)) = Len(s) + 1 /\ Len(s) \in Nat
      /\ \A i \in 1 .. Len(s) : Append(s, m)[i] = s[i]
      /\ Append(s, m)[Len(s) + 1] = m
    OBVIOUS
<1>2. /\ \A i \in 1 .. Len(s) + 1 : i \in 1 .. Len(s) \/ i = Len(s) + 1
      /\ \A i \in 1 .. Len(s) : i \in 1 .. Len(s) + 1
      /\ Len(s) + 1 \in 1 .. Len(s) + 1
    BY <1>1
<1>3. Has(Append(s, m), x) <=> Has(s, x) \/ m = x
    BY <1>1, <1>2 DEF Has
<1>4. (m = x => ~Has(s, x)) => AtMostOnce(Append(s, m), x)
    BY <1>1, <1>2 DEF Has, AtMostOnce
<1> QED  BY <1>3, <1>4

ConnectOf(c) == [from |-> c, msg |-> "Connect"]
InUp(c)      == Has(up[c], "Connect")
InHand(c)    == hand[c] = "Connect"
InMsgs(c)    == Has(msgs, ConnectOf(c))
Answering(c) == loop \in {"ack", "nack"} /\ client = c

\* The Connect of c was sent and not answered yet.
Asked(c) == InUp(c) \/ InHand(c) \/ InMsgs(c) \/ Answering(c)

\* A connection asks once, so that its Connect is in one place at a time.
OnceAt(c) ==
    /\ AtMostOnce(up[c], "Connect") /\ AtMostOnce(msgs, ConnectOf(c))
    /\ InUp(c) => ~InHand(c) /\ ~InMsgs(c) /\ ~Answering(c)
    /\ InHand(c) => ~InMsgs(c) /\ ~Answering(c)
    /\ InMsgs(c) => ~Answering(c)

\* What waits for the task of c, and what the main loop may yet send to it before
\* another heartbeat comes due: the answer to its Connect, and one heartbeat.
LightAt(c) ==
    c \notin cut => /\ Len(outgoing[c]) =< 2
                    /\ Asked(c) \/ due => Len(outgoing[c]) =< 1
                    /\ Asked(c) /\ due => Len(outgoing[c]) = 0

FreshAt(c) == c > dialed => up[c] = <<>> /\ hand[c] = "none" /\ ~InMsgs(c)

Budget ==
    /\ loop = "beat" => due
    /\ \A c \in Conn : /\ handler[c] = "payload" => c \in cut
                       /\ OnceAt(c) /\ LightAt(c) /\ FreshAt(c)

\* The type of what a Connect goes through, for the steps below.
LEMMA PlacesType ==
    ASSUME TypeOK
    PROVE  /\ up \in [Conn -> Seq(Up)] /\ hand \in [Conn -> Packet \cup {"none"}]
           /\ msgs \in Seq(Message) /\ outgoing \in [Conn -> Seq(Down)]
           /\ handler \in [Conn -> HandlerAt] /\ cut \subseteq Conn
           /\ dialed \in Nat /\ client \in Nat /\ Conn \subseteq Nat
           /\ \A c \in Conn : Len(outgoing[c]) \in Nat
<1>1. outgoing \in [Conn -> Seq(Down)] /\ \A c \in Conn : outgoing[c] \in Seq(Down)
    BY DEF TypeOK
<1>2. \A c \in Conn : Len(outgoing[c]) \in Nat
    BY <1>1
<1> QED  BY <1>1, <1>2, SessionAssumption DEF TypeOK, Conn

LEMMA LightKept ==
    ASSUME TypeOK, TypeOK', NEW c \in Conn, LightAt(c),
           Asked(c)' => Asked(c), due' => due, cut \subseteq cut',
           Len(outgoing'[c]) =< Len(outgoing[c])
    PROVE  LightAt(c)'
<1>1. Len(outgoing[c]) \in Nat /\ Len(outgoing'[c]) \in Nat
    <2>1. outgoing'[c] \in Seq(Down)
        BY DEF TypeOK
    <2> QED  BY <2>1, PlacesType
<1>2. CASE c \notin cut
    BY <1>1, <1>2 DEF LightAt
<1>3. CASE c \in cut
    BY <1>3 DEF LightAt
<1> QED  BY <1>2, <1>3

\* Clients send no second Connect.
LEMMA BudgetClient ==
    TypeOK /\ TypeOK' /\ Refused /\ Budget /\ (\E c \in Conn : User(c) \/ Client(c)) => Budget'
<1> SUFFICES ASSUME TypeOK, TypeOK', Refused, Budget, NEW c \in Conn, User(c) \/ Client(c)
             PROVE  Budget'
    OBVIOUS
<1>0. UNCHANGED <<hand, msgs, loop, client, due, outgoing, handler, cut, dialed>>
    BY DEF User, Client, Work, Leave, Answer, AnswerFails, Hear, Lose, Lost, tasks, serv, clock
<1>1. \/ UNCHANGED up
      \/ /\ state[c] # "new"
         /\ \E m \in Up \ {"Connect"} : up' = Upload(c, m)
    BY DEF User, Client, Work, Leave, Answer, AnswerFails, Fail, Hear, Lose, Lost, Up, app
<1>2. ASSUME NEW d \in Conn
      PROVE  /\ AtMostOnce(up'[d], "Connect") /\ (InUp(d)' <=> InUp(d))
             /\ d > dialed => up'[d] = up[d]
    <2>1. CASE up'[d] = up[d]
        BY <2>1 DEF Budget, OnceAt, InUp
    <2>2. CASE up'[d] # up[d]
        <3>1. PICK m \in Up \ {"Connect"} : d = c /\ up'[d] = Append(up[d], m)
            BY <1>1, <2>2, PlacesType DEF Upload
        <3>2. up[d] \in Seq(Up) /\ AtMostOnce(up[d], "Connect")
            BY PlacesType DEF Budget, OnceAt
        <3>3. AtMostOnce(up'[d], "Connect") /\ (InUp(d)' <=> InUp(d))
            BY <3>1, <3>2, HasAppend DEF InUp
        <3>4. ~(d > dialed)
            BY <1>1, <2>2, <3>1 DEF Refused
        <3> QED  BY <3>3, <3>4
    <2> QED  BY <2>1, <2>2
<1>3. ASSUME NEW d \in Conn PROVE OnceAt(d)' /\ LightAt(d)' /\ FreshAt(d)'
    <2>1. /\ InHand(d)' <=> InHand(d)
          /\ InMsgs(d)' <=> InMsgs(d)
          /\ Answering(d)' <=> Answering(d)
        BY <1>0 DEF InHand, InMsgs, Answering
    <2>2. Asked(d)' => Asked(d)
        BY <1>2, <2>1 DEF Asked
    <2>3. Len(outgoing'[d]) =< Len(outgoing[d])
        BY <1>0, PlacesType
    <2>4. LightAt(d)'
        BY <1>0, <2>2, <2>3, LightKept DEF Budget
    <2>5. OnceAt(d)'
        BY <1>0, <1>2, <2>1 DEF Budget, OnceAt
    <2>6. FreshAt(d)'
        BY <1>0, <1>2, <2>1 DEF Budget, FreshAt
    <2> QED  BY <2>4, <2>5, <2>6
<1> QED  BY <1>0, <1>3 DEF Budget

LEMMA BudgetDial ==
    TypeOK /\ TypeOK' /\ Order /\ Refused /\ Budget /\ Dial => Budget'
<1> SUFFICES ASSUME TypeOK, TypeOK', Order, Refused, Budget, Dial
             PROVE  Budget'
    OBVIOUS
<1> DEFINE e == dialed + 1
<1>0. /\ UNCHANGED <<hand, msgs, loop, client, due, outgoing, handler, cut>>
      /\ dialed' = e /\ up' = [up EXCEPT ![e] = <<"Connect">>]
    BY DEF Dial, tasks, serv, clock
<1>1. e \in Conn /\ e > dialed /\ client # e
    BY <1>0, PlacesType, SessionAssumption DEF Dial, Order, TypeOK, Conn
<1>2. /\ outgoing[e] = <<>> /\ hand[e] = "none" /\ ~InMsgs(e) /\ ~Answering(e)
    BY <1>1 DEF Refused, Budget, FreshAt, Answering
<1>3. ASSUME NEW d \in Conn PROVE OnceAt(d)' /\ LightAt(d)' /\ FreshAt(d)'
    <2>1. /\ InHand(d)' <=> InHand(d)
          /\ InMsgs(d)' <=> InMsgs(d)
          /\ Answering(d)' <=> Answering(d)
        BY <1>0 DEF InHand, InMsgs, Answering
    <2>2. OnceAt(d) /\ LightAt(d) /\ FreshAt(d)
        BY DEF Budget
    <2>3. CASE d # e
        <3>1. up'[d] = up[d]
            BY <1>0, <2>3, PlacesType
        <3>2. Asked(d)' => Asked(d)
            BY <2>1, <3>1 DEF Asked, InUp
        <3>3. OnceAt(d)'
            BY <1>0, <2>1, <2>2, <3>1 DEF OnceAt, InUp
        <3>4. LightAt(d)'
            BY <1>0, <2>2, <3>2, LightKept, PlacesType
        <3>5. FreshAt(d)'
            <4>1. d > e => d > dialed
                BY PlacesType
            <4> QED  BY <1>0, <2>1, <2>2, <3>1, <4>1 DEF FreshAt
        <3> QED  BY <3>3, <3>4, <3>5
    <2>4. CASE d = e
        <3>1. up'[d] = <<"Connect">>
            BY <1>0, <2>4, PlacesType
        <3>2. AtMostOnce(<<"Connect">>, "Connect")
            BY DEF AtMostOnce
        <3>3. OnceAt(d)'
            BY <1>0, <1>2, <2>1, <2>2, <2>4, <3>1, <3>2 DEF OnceAt, InHand
        <3>4. LightAt(d)'
            <4>1. Len(outgoing'[d]) = 0
                BY <1>0, <1>2, <2>4
            <4> QED  BY <4>1 DEF LightAt
        <3>5. FreshAt(d)'
            <4>1. ~(d > dialed')
                BY <1>0, <2>4, PlacesType
            <4> QED  BY <4>1 DEF FreshAt
        <3> QED  BY <3>3, <3>4, <3>5
    <2> QED  BY <2>3, <2>4
<1> QED  BY <1>0, <1>3 DEF Budget

LEMMA BudgetTask ==
    TypeOK /\ TypeOK' /\ Budget /\ (\E c \in Conn : Task(c)) => Budget'
<1> SUFFICES ASSUME TypeOK, TypeOK', Budget, NEW c \in Conn, Task(c)
             PROVE  Budget'
    OBVIOUS
<1>0. UNCHANGED <<loop, client, due, dialed>>
    BY DEF Task, serv, clock
<1>1. ASSUME NEW d \in Conn PROVE OnceAt(d) /\ LightAt(d) /\ FreshAt(d)
    BY DEF Budget
<1>2. \A d \in Conn : Answering(d)' <=> Answering(d)
    BY <1>0 DEF Answering
<1>3. \A d \in Conn : handler'[d] = "payload" => d \in cut'
    BY PlacesType DEF Budget, Task, Read, ReadGarbled, Push, Write, Broken, Remove
<1>4. cut \subseteq cut'
    BY DEF Task, Read, ReadGarbled, Push, Write, Broken, Remove
<1>5. \A d \in Conn : Len(outgoing'[d]) =< Len(outgoing[d])
    <2>1. \A d \in Conn : \/ outgoing'[d] = outgoing[d]
                          \/ outgoing[d] # <<>> /\ outgoing'[d] = Tail(outgoing[d])
                          \/ outgoing'[d] = <<>>
        BY PlacesType DEF Task, Read, ReadGarbled, Push, Write, Broken, Remove
    <2>2. ASSUME NEW d \in Conn PROVE Len(outgoing'[d]) =< Len(outgoing[d])
        <3>1. outgoing[d] \in Seq(Down)
            BY PlacesType
        <3>2. CASE outgoing[d] # <<>> /\ outgoing'[d] = Tail(outgoing[d])
            BY <3>1, <3>2
        <3>3. CASE outgoing'[d] = outgoing[d] \/ outgoing'[d] = <<>>
            BY <3>3, PlacesType
        <3> QED  BY <2>1, <3>2, <3>3
    <2> QED  BY <2>2
<1>6. ASSUME NEW d \in Conn,
             AtMostOnce(up'[d], "Connect"), InUp(d)' => InUp(d),
             AtMostOnce(msgs', ConnectOf(d)),
             \/ (InHand(d)' => InHand(d)) /\ (InMsgs(d)' => InMsgs(d))
             \/ (InHand(d)' => InUp(d)) /\ ~InUp(d)' /\ (InMsgs(d)' => InMsgs(d))
             \/ ~InHand(d)' /\ (InMsgs(d)' => InMsgs(d) \/ InHand(d))
      PROVE  OnceAt(d)' /\ LightAt(d)'
    <2>1. OnceAt(d)' /\ (Asked(d)' => Asked(d))
        BY <1>1, <1>2, <1>6 DEF OnceAt, Asked
    <2> QED  BY <1>0, <1>1, <1>4, <1>5, <2>1, LightKept
<1>7. CASE UNCHANGED msgs
    <2>1. ASSUME NEW d \in Conn
          PROVE  (InMsgs(d)' <=> InMsgs(d)) /\ AtMostOnce(msgs', ConnectOf(d))
        BY <1>1, <1>7 DEF InMsgs, OnceAt
    <2>2. ASSUME NEW d \in Conn, up'[d] = up[d], hand'[d] = hand[d]
          PROVE  OnceAt(d)' /\ LightAt(d)' /\ FreshAt(d)'
        <3>1. (InUp(d)' <=> InUp(d)) /\ (InHand(d)' <=> InHand(d))
              /\ AtMostOnce(up'[d], "Connect")
            BY <1>1, <2>2 DEF InUp, InHand, OnceAt
        <3>2. FreshAt(d)'
            BY <1>0, <1>1, <2>1, <2>2 DEF FreshAt
        <3>3. OnceAt(d)' /\ LightAt(d)'
            BY <1>6, <2>1, <3>1, Zenon
        <3> QED  BY <3>2, <3>3
    <2>3. CASE Read(c) \/ ReadGarbled(c)
        <3>1. /\ up[c] # <<>> /\ up' = [up EXCEPT ![c] = Tail(@)]
              /\ \A d \in Conn \ {c} : hand'[d] = hand[d]
              /\ hand'[c] \in {Head(up[c]), "garbage", hand[c]}
            BY <2>3, PlacesType DEF Read, ReadGarbled
        <3>2. /\ AtMostOnce(up'[c], "Connect")
              /\ InUp(c)' => InUp(c) /\ Head(up[c]) # "Connect"
              /\ Head(up[c]) = "Connect" => InUp(c)
            <4>1. up[c] \in Seq(Up) /\ AtMostOnce(up[c], "Connect") /\ up'[c] = Tail(up[c])
                BY <1>1, <3>1, PlacesType DEF OnceAt
            <4> QED  BY <3>1, <4>1, HasTail DEF InUp
        <3>3. OnceAt(c)' /\ LightAt(c)'
            BY <1>6, <2>1, <3>1, <3>2 DEF InHand
        <3>4. ~(c > dialed)
            BY <1>1, <3>1 DEF FreshAt
        <3>5. FreshAt(c)'
            BY <1>0, <3>4 DEF FreshAt
        <3>6. \A d \in Conn \ {c} : up'[d] = up[d] /\ hand'[d] = hand[d]
            BY <3>1, PlacesType
        <3> QED  BY <1>0, <1>3, <2>2, <3>3, <3>5, <3>6 DEF Budget
    <2>4. CASE Write(c) \/ Remove(c)
        <3>1. UNCHANGED <<up, hand>>
            BY <2>4 DEF Write, Remove, wire
        <3> QED  BY <1>0, <1>3, <2>2, <3>1 DEF Budget
    <2>5. CASE Broken(c)
        <3>1. UNCHANGED hand /\ up' = [up EXCEPT ![c] = <<>>]
            BY <2>5 DEF Broken
        <3>2. AtMostOnce(up'[c], "Connect") /\ ~InUp(c)' /\ up'[c] = <<>>
            BY <3>1, HasEmpty, PlacesType DEF InUp
        <3>3. OnceAt(c)' /\ LightAt(c)'
            BY <1>6, <2>1, <3>1, <3>2 DEF InHand
        <3>4. FreshAt(c)'
            BY <1>0, <1>1, <2>1, <3>1, <3>2 DEF FreshAt
        <3>5. \A d \in Conn \ {c} : up'[d] = up[d] /\ hand'[d] = hand[d]
            BY <3>1, PlacesType
        <3> QED  BY <1>0, <1>3, <2>2, <3>3, <3>4, <3>5 DEF Budget
    <2>6. CASE Push(c)
        BY <1>7, <2>6, PlacesType DEF Push
    <2> QED  BY <2>3, <2>4, <2>5, <2>6 DEF Task
<1>8. CASE Push(c)
    <2>1. /\ UNCHANGED up /\ hand' = [hand EXCEPT ![c] = "none"]
          /\ msgs' = Append(msgs, [from |-> c, msg |-> hand[c]])
          /\ hand[c] \in Packet
        BY <1>8 DEF Push, wire, TypeOK
    <2>2. [from |-> c, msg |-> hand[c]] \in Message
        BY <2>1 DEF Message
    <2>3. ASSUME NEW d \in Conn
          PROVE  /\ InMsgs(d)' <=> InMsgs(d) \/ (d = c /\ InHand(d))
                 /\ AtMostOnce(msgs', ConnectOf(d))
        <3>1. [from |-> c, msg |-> hand[c]] = ConnectOf(d) <=> d = c /\ InHand(d)
            <4>1. [from |-> c, msg |-> hand[c]] = ConnectOf(d) => d = c /\ hand[c] = "Connect"
                <5>1. /\ [from |-> c, msg |-> hand[c]].from = c
                      /\ [from |-> c, msg |-> hand[c]].msg = hand[c]
                      /\ ConnectOf(d).from = d /\ ConnectOf(d).msg = "Connect"
                    BY DEF ConnectOf
                <5> QED  BY <5>1
            <4> QED  BY <4>1 DEF ConnectOf, InHand
        <3>2. AtMostOnce(msgs, ConnectOf(d)) /\ (InHand(d) => ~InMsgs(d))
            BY <1>1 DEF OnceAt
        <3> QED  BY <2>1, <2>2, <3>1, <3>2, HasAppend, PlacesType DEF InMsgs
    <2>4. ASSUME NEW d \in Conn PROVE OnceAt(d)' /\ LightAt(d)' /\ FreshAt(d)'
        <3>1. (InUp(d)' <=> InUp(d)) /\ AtMostOnce(up'[d], "Connect") /\ up'[d] = up[d]
            BY <1>1, <2>1 DEF InUp, OnceAt
        <3>2. /\ d = c => ~InHand(d)' /\ hand'[d] = "none"
              /\ d # c => hand'[d] = hand[d] /\ (InHand(d)' <=> InHand(d))
            BY <2>1, PlacesType DEF InHand
        <3>3. OnceAt(d)' /\ LightAt(d)'
            BY <1>6, <2>3, <3>1, <3>2
        <3>4. d > dialed => ~InHand(d)
            BY <1>1 DEF FreshAt, InHand
        <3>5. FreshAt(d)'
            BY <1>0, <1>1, <2>3, <3>1, <3>2, <3>4 DEF FreshAt
        <3> QED  BY <3>3, <3>5
    <2> QED  BY <1>0, <1>3, <2>4 DEF Budget
<1> QED
    <2>1. Push(c) \/ UNCHANGED msgs
        BY DEF Task, Read, ReadGarbled, Write, Broken, Remove
    <2> QED  BY <1>7, <1>8, <2>1

LEMMA BudgetMain ==
    TypeOK /\ TypeOK' /\ Budget /\ (Main \/ Second) => Budget'
<1> SUFFICES ASSUME TypeOK, TypeOK', Budget, Main \/ Second
             PROVE  Budget'
    OBVIOUS
<1>0. UNCHANGED <<hand, cut, dialed>>
    BY DEF Main, Accept, AcceptDropped, Receive, Sleep, Body, Send, Second, tasks
<1>1. ASSUME NEW d \in Conn PROVE OnceAt(d) /\ LightAt(d) /\ FreshAt(d)
    BY DEF Budget
<1>2. \A d \in Conn : InHand(d)' <=> InHand(d)
    BY <1>0 DEF InHand
<1>3. \A d \in Conn : handler'[d] = "payload" => d \in cut'
    BY <1>0, PlacesType
    DEF Budget, Main, Accept, AcceptDropped, Receive, Sleep, Body, Send, Second, tasks
<1>4. ASSUME UNCHANGED <<up, msgs, outgoing, due>>, loop' = "beat" => due,
             \A d \in Conn : Answering(d)' => Answering(d)
      PROVE  Budget'
    <2>1. ASSUME NEW d \in Conn PROVE OnceAt(d)' /\ LightAt(d)' /\ FreshAt(d)'
        <3>1. (InUp(d)' <=> InUp(d)) /\ (InMsgs(d)' <=> InMsgs(d))
            BY <1>4 DEF InUp, InMsgs
        <3>2. OnceAt(d)' /\ (Asked(d)' => Asked(d))
            BY <1>1, <1>2, <1>4, <3>1 DEF OnceAt, Asked
        <3>3. LightAt(d)'
            BY <1>0, <1>1, <1>4, <3>2, LightKept, PlacesType
        <3>4. FreshAt(d)'
            BY <1>0, <1>1, <1>4, <3>1 DEF FreshAt
        <3> QED  BY <3>2, <3>3, <3>4
    <2> QED  BY <1>3, <1>4, <2>1 DEF Budget
<1>5. CASE Accept \/ Sleep \/ Body
    <2>1. UNCHANGED <<up, msgs, outgoing, due>> /\ loop' \notin {"ack", "nack"}
          /\ (loop' = "beat" => due)
        BY <1>5 DEF Accept, Sleep, Body, wire, tasks, clock
    <2> QED  BY <1>4, <2>1 DEF Answering
<1>6. CASE AcceptDropped
    <2>1. UNCHANGED <<msgs, outgoing, due, loop, client>>
          /\ \A d \in Conn : up'[d] \in {up[d], <<>>}
        BY <1>6, PlacesType DEF AcceptDropped, serv, clock
    <2>2. ASSUME NEW d \in Conn PROVE OnceAt(d)' /\ LightAt(d)' /\ FreshAt(d)'
        <3>1. (InUp(d)' => InUp(d)) /\ AtMostOnce(up'[d], "Connect")
            BY <1>1, <2>1, HasEmpty DEF InUp, OnceAt
        <3>2. (InMsgs(d)' <=> InMsgs(d)) /\ (Answering(d)' <=> Answering(d))
            BY <2>1 DEF InMsgs, Answering
        <3>3. OnceAt(d)' /\ (Asked(d)' => Asked(d))
            BY <1>1, <1>2, <2>1, <3>1, <3>2 DEF OnceAt, Asked
        <3>4. LightAt(d)'
            BY <1>0, <1>1, <2>1, <3>3, LightKept, PlacesType
        <3>5. FreshAt(d)'
            BY <1>0, <1>1, <2>1, <3>2 DEF FreshAt
        <3> QED  BY <3>3, <3>4, <3>5
    <2> QED  BY <1>3, <2>1, <2>2 DEF Budget
<1>7. CASE Receive
    <2>1. /\ msgs # <<>> /\ msgs' = Tail(msgs) /\ msgs \in Seq(Message)
          /\ UNCHANGED <<up, outgoing, due>> /\ loop = "select"
        BY <1>7, PlacesType DEF Receive, wire, clock
    <2>2. /\ loop' # "beat"
          /\ loop' \in {"ack", "nack"} => /\ Head(msgs).from = client /\ client' = client
                                          /\ Head(msgs).msg = "Connect"
        BY <1>7 DEF Receive, Ignore, Connect, SetUdpPort, Serve, Forget, serv
    <2>3. ASSUME NEW d \in Conn PROVE OnceAt(d)' /\ LightAt(d)' /\ FreshAt(d)'
        <3>1. /\ AtMostOnce(msgs', ConnectOf(d))
              /\ InMsgs(d)' => InMsgs(d) /\ Head(msgs) # ConnectOf(d)
              /\ Head(msgs) = ConnectOf(d) => InMsgs(d)
            BY <1>1, <2>1, HasTail DEF OnceAt, InMsgs
        <3>2. Answering(d)' => Head(msgs) = ConnectOf(d)
            <4>1. Head(msgs) \in Message
                BY <2>1
            <4> QED  BY <2>2, <4>1 DEF Answering, ConnectOf, Message
        <3>3. (InUp(d)' <=> InUp(d)) /\ ~Answering(d)
            BY <2>1 DEF InUp, Answering
        <3>4. OnceAt(d)' /\ (Asked(d)' => Asked(d))
            BY <1>1, <1>2, <2>1, <3>1, <3>2, <3>3 DEF OnceAt, Asked
        <3>5. LightAt(d)'
            BY <1>0, <1>1, <2>1, <3>4, LightKept, PlacesType
        <3>6. FreshAt(d)'
            BY <1>0, <1>1, <2>1, <3>1 DEF FreshAt
        <3> QED  BY <3>4, <3>5, <3>6
    <2> QED  BY <1>3, <2>2, <2>3 DEF Budget
<1>8. CASE Second
    <2>1. /\ UNCHANGED <<up, msgs, loop, client, outgoing>> /\ ~due /\ due' = TRUE
          /\ \A d \in Conn : outgoing[d] # <<>> => handler[d] = "payload"
        BY <1>8 DEF Second, wire, tasks, serv
    <2>2. ASSUME NEW d \in Conn PROVE OnceAt(d)' /\ LightAt(d)' /\ FreshAt(d)'
        <3>1. /\ InUp(d)' <=> InUp(d)
              /\ InMsgs(d)' <=> InMsgs(d)
              /\ Answering(d)' <=> Answering(d)
            BY <2>1 DEF InUp, InMsgs, Answering
        <3>2. OnceAt(d)'
            BY <1>1, <1>2, <2>1, <3>1 DEF OnceAt
        <3>3. d \notin cut' => Len(outgoing'[d]) = 0
            BY <1>0, <2>1 DEF Budget
        <3>4. LightAt(d)'
            BY <3>3 DEF LightAt
        <3>5. FreshAt(d)'
            BY <1>0, <1>1, <2>1, <3>1 DEF FreshAt
        <3> QED  BY <3>2, <3>4, <3>5
    <2> QED  BY <1>3, <2>1, <2>2 DEF Budget
<1>9. CASE Send
    <2>1. /\ UNCHANGED <<up, msgs>> /\ loop' \notin {"ack", "nack", "beat"}
          /\ loop \in {"ack", "nack", "beat"}
          /\ due' = (IF loop = "beat" THEN FALSE ELSE due)
        BY <1>9 DEF Send, wire
    <2>2. \/ UNCHANGED outgoing
          \/ \E m \in Down : outgoing' = [outgoing EXCEPT ![client] = Append(@, m)]
        BY <1>9 DEF Send, Sent, Down
    <2>3. ASSUME NEW d \in Conn PROVE OnceAt(d)' /\ LightAt(d)' /\ FreshAt(d)'
        <3>1. /\ InUp(d)' <=> InUp(d)
              /\ InMsgs(d)' <=> InMsgs(d)
              /\ ~Answering(d)'
            BY <2>1 DEF InUp, InMsgs, Answering
        <3>2. OnceAt(d)' /\ (Asked(d)' => Asked(d))
            BY <1>1, <1>2, <2>1, <3>1 DEF OnceAt, Asked
        <3>3. FreshAt(d)'
            BY <1>0, <1>1, <2>1, <3>1 DEF FreshAt
        <3>4. CASE outgoing'[d] = outgoing[d]
            <4>1. due' => due
                BY <2>1
            <4>2. Len(outgoing'[d]) =< Len(outgoing[d])
                BY <3>4, PlacesType
            <4>3. LightAt(d)'
                BY <1>0, <1>1, <3>2, <4>1, <4>2, LightKept
            <4> QED  BY <3>2, <3>3, <4>3
        <3>5. CASE outgoing'[d] # outgoing[d]
            <4>1. PICK m \in Down : d = client /\ outgoing'[d] = Append(outgoing[d], m)
                BY <2>2, <3>5, PlacesType
            <4>2. Len(outgoing'[d]) = Len(outgoing[d]) + 1 /\ Len(outgoing[d]) \in Nat
                <5>1. outgoing[d] \in Seq(Down)
                    BY PlacesType
                <5> QED  BY <4>1, <5>1
            <4>3. CASE loop = "beat"
                <5>1. due /\ ~due'
                    BY <2>1, <4>3 DEF Budget
                <5>2. d \notin cut' => /\ Len(outgoing[d]) =< 1
                                       /\ Asked(d) => Len(outgoing[d]) = 0
                    BY <1>0, <1>1, <4>2, <5>1 DEF LightAt
                <5>3. LightAt(d)'
                    BY <3>2, <4>2, <5>1, <5>2 DEF LightAt
                <5> QED  BY <3>2, <3>3, <5>3
            <4>4. CASE loop # "beat"
                <5>1. Answering(d) /\ Asked(d)
                    BY <2>1, <4>1, <4>4 DEF Answering, Asked
                <5>2. ~Asked(d)'
                    BY <1>1, <1>2, <3>1, <5>1 DEF OnceAt, Asked
                <5>3. due' = due
                    BY <2>1, <4>4
                <5>4. d \notin cut' => /\ Len(outgoing[d]) =< 1
                                       /\ due => Len(outgoing[d]) = 0
                    BY <1>0, <1>1, <4>2, <5>1 DEF LightAt
                <5>5. LightAt(d)'
                    BY <4>2, <5>2, <5>3, <5>4 DEF LightAt
                <5> QED  BY <3>2, <3>3, <5>5
            <4> QED  BY <4>3, <4>4
        <3> QED  BY <3>4, <3>5
    <2> QED  BY <1>3, <2>1, <2>3 DEF Budget
<1> QED  BY <1>5, <1>6, <1>7, <1>8, <1>9 DEF Main

\* With room for two messages the main loop never waits for a task that has not lost
\* the framing: at most the answer to a Connect and one heartbeat are on their way to
\* it, since within a second it writes what it has (network.rs:121, main.rs:523-530).
\* The code has room for 64.
THEOREM BlockedCorrect ==
    ASSUME OutCap > 1
    PROVE  Spec => []BlockedByCut
<1>1. Init => Budget
    <2> SUFFICES ASSUME Init
                 PROVE  Budget
        OBVIOUS
    <2>1. ASSUME NEW c \in Conn
          PROVE  /\ up[c] = <<>> /\ hand[c] = "none" /\ outgoing[c] = <<>>
                 /\ handler[c] = "none" /\ msgs = <<>> /\ loop = "select" /\ ~due
        BY DEF Init
    <2>2. ASSUME NEW c \in Conn PROVE OnceAt(c) /\ ~Asked(c) /\ FreshAt(c)
        BY <2>1, HasEmpty DEF OnceAt, Asked, FreshAt, InUp, InHand, InMsgs, Answering
    <2>3. ASSUME NEW c \in Conn PROVE LightAt(c)
        <3>1. Len(outgoing[c]) = 0
            BY <2>1
        <3> QED  BY <3>1 DEF LightAt
    <2> QED  BY <2>1, <2>2, <2>3 DEF Budget, Init
<1>2. Init => Order /\ Refused
    BY DEF Init, Order, Refused, RefusedStaysOut
<1>3. Budget /\ UNCHANGED vars => Budget'
    <2> SUFFICES ASSUME Budget, UNCHANGED vars
                 PROVE  Budget'
        OBVIOUS
    <2>1. UNCHANGED <<up, hand, msgs, loop, client, due, outgoing, handler, cut, dialed>>
        BY DEF vars, app, wire, tasks, serv, clock
    <2>2. ASSUME NEW c \in Conn PROVE OnceAt(c)' /\ LightAt(c)' /\ FreshAt(c)'
        <3>1. /\ InUp(c)' <=> InUp(c)
              /\ InHand(c)' <=> InHand(c)
              /\ InMsgs(c)' <=> InMsgs(c)
              /\ Answering(c)' <=> Answering(c)
            BY <2>1 DEF InUp, InHand, InMsgs, Answering
        <3> QED  BY <2>1, <3>1 DEF Budget, OnceAt, LightAt, FreshAt, Asked
    <2> QED  BY <2>1, <2>2 DEF Budget
<1>4. TypeOK /\ TypeOK' /\ Order /\ Refused /\ Budget /\ [Next]_vars
         => Order' /\ Refused' /\ Budget'
    <2>1. TypeOK /\ Order /\ Refused /\ UNCHANGED vars => Refused'
        BY DEF Refused, RefusedStaysOut, vars, app, wire, tasks, serv
    <2> QED
        BY <1>3, <2>1, OrderStep, RefusedUser, RefusedClient, RefusedTask, RefusedMain,
           BudgetDial, BudgetClient, BudgetTask, BudgetMain DEF Next
<1>5. TypeOK /\ Budget => BlockedByCut
    <2> SUFFICES ASSUME TypeOK, Budget, Blocked, client \notin cut
                 PROVE  FALSE
        BY DEF BlockedByCut
    <2>1. client \in Conn /\ ~(Len(outgoing[client]) < OutCap)
        BY DEF Blocked, Room, Alive, TypeOK
    <2>2. Len(outgoing[client]) \in Nat /\ LightAt(client)
        BY <2>1, PlacesType DEF Budget
    <2>3. due \/ Asked(client)
        BY DEF Blocked, Sending, Budget, Asked, Answering
    <2> QED  BY <2>1, <2>2, <2>3, SessionAssumption DEF LightAt
<1> QED  BY <1>1, <1>2, <1>4, <1>5, TypeCorrect, PTL DEF Spec

---------------------------------------------------------------------------
(* The session keeps the promise of OneClient *)

LEMMA HeadTail ==
    ASSUME NEW S, NEW s \in Seq(S), s # <<>>, NEW x
    PROVE  /\ Has(Tail(s), x) => Has(s, x)
           /\ Head(s) = x => Has(s, x)
<1>1. Len(s) \in Nat /\ Len(s) > 0 /\ Head(s) = s[1] /\ Len(Tail(s)) = Len(s) - 1
    OBVIOUS
<1>2. \A i \in 1 .. Len(Tail(s)) : i + 1 \in 1 .. Len(s) /\ Tail(s)[i] = s[i + 1]
    OBVIOUS
<1>3. 1 \in 1 .. Len(s)
    BY <1>1
<1> QED  BY <1>1, <1>2, <1>3 DEF Has

LEMMA OneMore ==
    ASSUME NEW S, NEW s \in Seq(S), NEW m \in S, NEW x
    PROVE  Has(Append(s, m), x) <=> Has(s, x) \/ m = x
<1>1. /\ Len(Append(s, m)) = Len(s) + 1 /\ Len(s) \in Nat
      /\ \A i \in 1 .. Len(s) : Append(s, m)[i] = s[i]
      /\ Append(s, m)[Len(s) + 1] = m
    OBVIOUS
<1>2. /\ \A i \in 1 .. Len(s) + 1 : i \in 1 .. Len(s) \/ i = Len(s) + 1
      /\ \A i \in 1 .. Len(s) : i \in 1 .. Len(s) + 1
      /\ Len(s) + 1 \in 1 .. Len(s) + 1
    BY <1>1
<1> QED  BY <1>1, <1>2 DEF Has

\* Wherever a Work is, its client has counted it: it was sent by the client of the
\* connection that it came from.
WorkOf(c)  == [from |-> c, msg |-> "Work"]
Pending(c) == Has(up[c], "Work") \/ hand[c] = "Work" \/ Has(msgs, WorkOf(c))
WorkInv    == \A c \in Conn : Pending(c) => worked[c] > 0

LEMMA WorkClient ==
    TypeOK /\ WorkInv /\ (Dial \/ \E c \in Conn : User(c) \/ Client(c)) => WorkInv'
<1> SUFFICES ASSUME TypeOK, WorkInv, Dial \/ \E c \in Conn : User(c) \/ Client(c)
             PROVE  WorkInv'
    OBVIOUS
<1>0. UNCHANGED <<hand, msgs>>
    BY DEF Dial, User, Client, Work, Leave, Answer, AnswerFails, Hear, Lose, Lost, tasks
<1>t. up \in [Conn -> Seq(Up)] /\ worked \in [Conn -> 0 .. MaxWork]
    BY DEF TypeOK
<1>1. ASSUME NEW c \in Conn, NEW m \in Up, up' \in {up, [up EXCEPT ![c] = Append(@, m)]},
             UNCHANGED worked, m # "Work"
      PROVE  WorkInv'
    <2>1. \A d \in Conn : Has(up'[d], "Work") => Has(up[d], "Work")
        <3>1. Has(Append(up[c], m), "Work") => Has(up[c], "Work")
            BY <1>1, <1>t, OneMore
        <3> QED  BY <1>1, <1>t, <3>1
    <2> QED  BY <1>0, <1>1, <2>1 DEF WorkInv, Pending
<1>2. ASSUME UNCHANGED <<up, worked>> PROVE WorkInv'
    BY <1>0, <1>2 DEF WorkInv, Pending
<1>3. CASE Dial
    <2>1. ~Has(<<"Connect">>, "Work")
        <3>1. Len(<<"Connect">>) = 1 /\ <<"Connect">>[1] = "Connect"
            OBVIOUS
        <3> QED  BY <3>1 DEF Has
    <2>2. \A d \in Conn : Has(up'[d], "Work") => Has(up[d], "Work")
        BY <1>3, <1>t, <2>1 DEF Dial
    <2>3. UNCHANGED worked
        BY <1>3 DEF Dial
    <2> QED  BY <1>0, <2>2, <2>3 DEF WorkInv, Pending
<1>4. ASSUME NEW c \in Conn, Work(c) PROVE WorkInv'
    <2>1. /\ \A d \in Conn \ {c} : up'[d] = up[d] /\ worked'[d] = worked[d]
          /\ worked'[c] = worked[c] + 1
        BY <1>4, <1>t DEF Work, Upload
    <2>2. worked'[c] > 0
        <3>1. worked[c] \in 0 .. MaxWork
            BY <1>t
        <3> QED  BY <2>1, <3>1, SessionAssumption
    <2> QED  BY <1>0, <2>1, <2>2 DEF WorkInv, Pending
<1>5. ASSUME NEW c \in Conn, Leave(c) PROVE WorkInv'
    BY <1>1, <1>5 DEF Leave, Upload, Up
<1>6. ASSUME NEW c \in Conn, Client(c) PROVE WorkInv'
    <2>1. CASE Answer(c)
        <3>1. up' \in {up, [up EXCEPT ![c] = Append(@, "SetUdpPort")]} /\ UNCHANGED worked
            BY <2>1 DEF Answer, Fail, Upload
        <3> QED  BY <1>1, <3>1 DEF Up
    <2>2. CASE AnswerFails(c) \/ Hear(c) \/ Lose(c)
        BY <1>2, <2>2 DEF AnswerFails, Fail, Hear, Lose, Lost, app
    <2> QED  BY <1>6, <2>1, <2>2 DEF Client
<1> QED  BY <1>3, <1>4, <1>5, <1>6 DEF User

LEMMA WorkServer ==
    TypeOK /\ WorkInv /\ (Main \/ Second \/ \E c \in Conn : Task(c)) => WorkInv'
<1> SUFFICES ASSUME TypeOK, WorkInv, Main \/ Second \/ \E c \in Conn : Task(c)
             PROVE  WorkInv'
    OBVIOUS
<1>0. UNCHANGED worked
    BY DEF Main, Accept, AcceptDropped, Receive, Sleep, Body, Send, Second, Task, app
<1>1. ASSUME \A c \in Conn : Pending(c)' => Pending(c)
      PROVE  WorkInv'
    BY <1>0, <1>1 DEF WorkInv
<1>2. CASE UNCHANGED <<up, hand, msgs>>
    BY <1>1, <1>2 DEF Pending
<1>3. CASE AcceptDropped \/ \E c \in Conn : Broken(c)
    <2>1. UNCHANGED <<hand, msgs>> /\ \A d \in Conn : up'[d] \in {up[d], <<>>}
        BY <1>3, PlacesType DEF AcceptDropped, Broken
    <2> QED  BY <1>1, <2>1, HasEmpty DEF Pending
<1>4. CASE Receive
    <2>1. UNCHANGED <<up, hand>> /\ msgs' = Tail(msgs) /\ msgs # <<>> /\ msgs \in Seq(Message)
        BY <1>4, PlacesType DEF Receive, wire
    <2>2. \A c \in Conn : Has(msgs', WorkOf(c)) => Has(msgs, WorkOf(c))
        BY <2>1, HeadTail
    <2> QED  BY <1>1, <2>1, <2>2 DEF Pending
<1>5. ASSUME NEW c \in Conn, Read(c) \/ ReadGarbled(c) PROVE WorkInv'
    <2>1. /\ up[c] # <<>> /\ up' = [up EXCEPT ![c] = Tail(@)] /\ UNCHANGED msgs
          /\ \A d \in Conn \ {c} : hand'[d] = hand[d]
          /\ hand'[c] \in {Head(up[c]), "garbage", hand[c]}
        BY <1>5, PlacesType DEF Read, ReadGarbled
    <2>2. /\ Has(Tail(up[c]), "Work") => Has(up[c], "Work")
          /\ Head(up[c]) = "Work" => Has(up[c], "Work")
        <3>1. up[c] \in Seq(Up)
            BY PlacesType
        <3> QED  BY <2>1, <3>1, HeadTail
    <2>3. up'[c] = Tail(up[c]) /\ \A d \in Conn \ {c} : up'[d] = up[d]
        BY <2>1, PlacesType
    <2> QED  BY <1>1, <2>1, <2>2, <2>3 DEF Pending
<1>6. ASSUME NEW c \in Conn, Push(c) PROVE WorkInv'
    <2>1. /\ UNCHANGED up /\ hand' = [hand EXCEPT ![c] = "none"]
          /\ msgs' = Append(msgs, [from |-> c, msg |-> hand[c]])
          /\ [from |-> c, msg |-> hand[c]] \in Message
        BY <1>6 DEF Push, wire, TypeOK, Message
    <2>2. ASSUME NEW d \in Conn, Has(msgs', WorkOf(d))
          PROVE  Has(msgs, WorkOf(d)) \/ (d = c /\ hand[d] = "Work")
        <3>1. Has(msgs, WorkOf(d)) \/ [from |-> c, msg |-> hand[c]] = WorkOf(d)
            BY <2>1, <2>2, OneMore, PlacesType
        <3>2. [from |-> c, msg |-> hand[c]] = WorkOf(d) => d = c /\ hand[c] = "Work"
            <4>1. /\ [from |-> c, msg |-> hand[c]].from = c
                  /\ [from |-> c, msg |-> hand[c]].msg = hand[c]
                  /\ WorkOf(d).from = d /\ WorkOf(d).msg = "Work"
                BY DEF WorkOf
            <4> QED  BY <4>1
        <3> QED  BY <3>1, <3>2
    <2>3. \A d \in Conn : hand'[d] = "Work" => hand[d] = "Work"
        BY <2>1, PlacesType
    <2> QED  BY <1>1, <2>1, <2>2, <2>3 DEF Pending
<1>7. CASE Accept \/ Sleep \/ Body \/ Send \/ Second
    BY <1>2, <1>7 DEF Accept, Sleep, Body, Send, Second, wire, tasks
<1>8. ASSUME NEW c \in Conn, Write(c) \/ Remove(c) PROVE WorkInv'
    BY <1>2, <1>8 DEF Write, Remove, wire
<1> QED  BY <1>3, <1>4, <1>5, <1>6, <1>7, <1>8 DEF Main, Task

\* What a step does not touch keeps its place in the promise.
LEMMA PromiseKept ==
    /\ UNCHANGED <<outgoing, down>> => UNCHANGED Offered
    /\ UNCHANGED state => UNCHANGED Phases
    /\ UNCHANGED worked => UNCHANGED Workers
    /\ UNCHANGED <<accepted, client, served, Offered, Phases, Workers>> => UNCHANGED Promise!vars
<1>1. UNCHANGED <<outgoing, down>> => UNCHANGED Offered
    BY DEF Offered, IsOffered
<1>2. UNCHANGED state => UNCHANGED Phases
    BY DEF Phases
<1>3. UNCHANGED worked => UNCHANGED Workers
    BY DEF Workers
<1> QED  BY <1>1, <1>2, <1>3 DEF Promise!vars

\* What one connection has of the promise.
LEMMA OfferAt ==
    ASSUME NEW c \in Conn, IsOffered(c)' => IsOffered(c),
           \A d \in Conn \ {c} : outgoing'[d] = outgoing[d] /\ down'[d] = down[d]
    PROVE  Offered' \in {Offered, Offered \ {c}}
<1>1. \A d \in Conn \ {c} : IsOffered(d)' <=> IsOffered(d)
    BY DEF IsOffered
<1>2. CASE IsOffered(c)' <=> IsOffered(c)
    <2>1. \A d \in Conn : IsOffered(d)' <=> IsOffered(d)
        BY <1>1, <1>2
    <2> QED  BY <2>1 DEF Offered
<1>3. CASE ~IsOffered(c)'
    BY <1>1, <1>3 DEF Offered
<1> QED  BY <1>2, <1>3

LEMMA PhaseAt ==
    ASSUME TypeOK, NEW c \in Conn, NEW s, state' = [state EXCEPT ![c] = s]
    PROVE  Phases' = [Phases EXCEPT ![c] = PhaseOf(s)] /\ Phases[c] = PhaseOf(state[c])
<1>1. \A d \in Conn : state'[d] = IF d = c THEN s ELSE state[d]
    BY DEF TypeOK
<1>2. \A d \in Conn : PhaseOf(state'[d]) = IF d = c THEN PhaseOf(s) ELSE PhaseOf(state[d])
    BY <1>1
<1>3. Phases' = [d \in Conn |-> PhaseOf(state'[d])]
    BY DEF Phases
<1> QED  BY <1>2, <1>3 DEF Phases

LEMMA PromiseClient ==
    TypeOK /\ TypeOK' /\ Refused /\ (Dial \/ \E c \in Conn : User(c) \/ Client(c))
        => [Promise!Next]_(Promise!vars)
<1> SUFFICES ASSUME TypeOK, TypeOK', Refused, Dial \/ \E c \in Conn : User(c) \/ Client(c)
             PROVE  [Promise!Next]_(Promise!vars)
    OBVIOUS
<1>0. UNCHANGED <<accepted, client, served, outgoing>>
    BY DEF Dial, User, Client, Work, Leave, Answer, AnswerFails, Hear, Lose, Lost, tasks, serv
<1>t. /\ state \in [Conn -> ClientState] /\ down \in [Conn -> Seq(Down)]
      /\ worked \in [Conn -> 0 .. MaxWork] /\ Promise!Conn = Conn
    BY DEF TypeOK, Conn, Promise!Conn
<1>p. /\ PhaseOf("waiting") = "outside" /\ PhaseOf("new") = "outside"
      /\ PhaseOf("connected") = "joined"
      /\ PhaseOf("gone") = "gone" /\ PhaseOf("error") = "gone"
    BY DEF PhaseOf
\* A client whose connection fails or that leaves parts.
<1>1. ASSUME NEW c \in Conn, NEW s \in {"error", "gone"}, state[c] \in {"waiting", "connected"},
             state' = [state EXCEPT ![c] = s], down' = [down EXCEPT ![c] = <<>>],
             UNCHANGED worked
      PROVE  Promise!Part(c)
    <2>1. IsOffered(c)' => IsOffered(c)
        BY <1>0, <1>1, <1>t, HasEmpty DEF IsOffered
    <2>2. Offered' \in {Offered, Offered \ {c}}
        BY <1>0, <1>1, <1>t, <2>1, OfferAt
    <2>3. Phases' = [Phases EXCEPT ![c] = "gone"] /\ Phases[c] # "gone"
        <3>1. Phases' = [Phases EXCEPT ![c] = PhaseOf(s)] /\ Phases[c] = PhaseOf(state[c])
            BY <1>1, PhaseAt
        <3> QED  BY <1>1, <1>p, <3>1
    <2> QED  BY <1>0, <1>1, <2>2, <2>3, PromiseKept DEF Promise!Part
<1>2. CASE Dial
    <2>1. UNCHANGED <<down, worked>>
        BY <1>2 DEF Dial
    <2>2. dialed' \in Conn /\ state[dialed'] = "new" /\ state' = [state EXCEPT ![dialed'] = "waiting"]
        <3>1. dialed' \in Conn /\ dialed' > dialed
            BY <1>2, SessionAssumption DEF Dial, TypeOK, Conn
        <3> QED  BY <1>2, <3>1 DEF Dial, Refused
    <2>3. Phases' = [Phases EXCEPT ![dialed'] = "outside"] /\ Phases[dialed'] = "outside"
        <3>1. /\ Phases' = [Phases EXCEPT ![dialed'] = PhaseOf("waiting")]
              /\ Phases[dialed'] = PhaseOf(state[dialed'])
            BY <2>2, PhaseAt
        <3> QED  BY <1>p, <2>2, <3>1
    <2>4. UNCHANGED Phases
        BY <2>2, <2>3 DEF Phases
    <2> QED  BY <1>0, <2>1, <2>4, PromiseKept
<1>3. ASSUME NEW c \in Conn, Work(c) PROVE Promise!Ask(c)
    <2>1. UNCHANGED <<state, down>> /\ Phases[c] = "joined"
        BY <1>3, <1>p DEF Work, Phases
    <2>2. worked'[c] > 0 /\ \A d \in Conn \ {c} : worked'[d] = worked[d]
        <3>1. worked[c] \in Nat
            BY <1>t, SessionAssumption
        <3> QED  BY <1>3, <1>t, <3>1 DEF Work
    <2>3. Workers' = Workers \cup {c}
        BY <2>2 DEF Workers
    <2> QED  BY <1>0, <2>1, <2>3, PromiseKept DEF Promise!Ask
<1>4. ASSUME NEW c \in Conn, Leave(c) PROVE Promise!Part(c)
    BY <1>1, <1>4 DEF Leave
<1>5. ASSUME NEW c \in Conn, Fail(c), state[c] = "waiting" PROVE Promise!Part(c)
    BY <1>1, <1>5 DEF Fail
<1>6. ASSUME NEW c \in Conn, Lose(c) PROVE Promise!Part(c)
    BY <1>1, <1>6 DEF Lose, Lost
\* A message taken from the wire may be the offer.
<1>7. ASSUME NEW c \in Conn, down[c] # <<>>, down' = [down EXCEPT ![c] = Tail(@)]
      PROVE  /\ Offered' \in {Offered, Offered \ {c}}
             /\ Head(down[c]) = "Ack" => c \in Offered
    <2>1. /\ Has(Tail(down[c]), "Ack") => Has(down[c], "Ack")
          /\ Head(down[c]) = "Ack" => Has(down[c], "Ack")
        <3>1. down[c] \in Seq(Down)
            BY <1>t
        <3> QED  BY <1>7, <3>1, HeadTail
    <2>2. IsOffered(c)' => IsOffered(c)
        BY <1>0, <1>7, <1>t, <2>1 DEF IsOffered
    <2>3. Offered' \in {Offered, Offered \ {c}}
        BY <1>0, <1>7, <1>t, <2>2, OfferAt
    <2> QED  BY <2>1, <2>3 DEF Offered, IsOffered
<1>8. ASSUME NEW c \in Conn, Hear(c) PROVE Promise!Miss(c) \/ UNCHANGED Promise!vars
    <2>1. Offered' \in {Offered, Offered \ {c}} /\ UNCHANGED <<state, worked>>
        BY <1>7, <1>8 DEF Hear, app
    <2> QED  BY <1>0, <2>1, PromiseKept DEF Promise!Miss
<1>9. ASSUME NEW c \in Conn, Answer(c), ~Fail(c) PROVE Promise!Join(c)
    <2>1. /\ Head(down[c]) = "Ack" /\ down[c] # <<>> /\ down' = [down EXCEPT ![c] = Tail(@)]
          /\ state[c] = "waiting" /\ state' = [state EXCEPT ![c] = "connected"]
          /\ UNCHANGED worked
        BY <1>9 DEF Answer
    <2>2. Phases' = [Phases EXCEPT ![c] = "joined"] /\ Phases[c] = "outside"
        <3>1. /\ Phases' = [Phases EXCEPT ![c] = PhaseOf("connected")]
              /\ Phases[c] = PhaseOf(state[c])
            BY <2>1, PhaseAt
        <3> QED  BY <1>p, <2>1, <3>1
    <2>3. Offered' \in {Offered, Offered \ {c}} /\ c \in Offered
        BY <1>7, <2>1
    <2> QED  BY <1>0, <2>1, <2>2, <2>3, PromiseKept DEF Promise!Join
<1> QED
    BY <1>t, <1>2, <1>3, <1>4, <1>5, <1>6, <1>8, <1>9
    DEF User, Client, Answer, AnswerFails, Promise!Next

\* A task passes an offer on, or drops it.
LEMMA PromiseTask ==
    TypeOK /\ (\E c \in Conn : Task(c)) => [Promise!Next]_(Promise!vars)
<1> SUFFICES ASSUME TypeOK, NEW c \in Conn, Task(c)
             PROVE  [Promise!Next]_(Promise!vars)
    OBVIOUS
<1>0. UNCHANGED <<accepted, client, served, state, worked>>
    BY DEF Task, app, serv
<1>t. /\ outgoing \in [Conn -> Seq(Down)] /\ down \in [Conn -> Seq(Down)]
      /\ Promise!Conn = Conn
    BY DEF TypeOK, Conn, Promise!Conn
<1>1. ASSUME IsOffered(c)' => IsOffered(c),
             \A d \in Conn \ {c} : outgoing'[d] = outgoing[d] /\ down'[d] = down[d]
      PROVE  Promise!Miss(c) \/ UNCHANGED Promise!vars
    <2>1. Offered' \in {Offered, Offered \ {c}}
        BY <1>1, OfferAt
    <2> QED  BY <1>0, <2>1, PromiseKept DEF Promise!Miss
<1>2. CASE Write(c)
    <2>1. /\ outgoing[c] # <<>> /\ outgoing' = [outgoing EXCEPT ![c] = Tail(@)]
          /\ down' \in {down, [down EXCEPT ![c] = Append(@, Head(outgoing[c]))]}
        BY <1>2 DEF Write
    <2>2. /\ Has(Tail(outgoing[c]), "Ack") => Has(outgoing[c], "Ack")
          /\ Head(outgoing[c]) = "Ack" => Has(outgoing[c], "Ack")
          /\ Has(Append(down[c], Head(outgoing[c])), "Ack")
                <=> Has(down[c], "Ack") \/ Head(outgoing[c]) = "Ack"
        <3>1. /\ outgoing[c] \in Seq(Down) /\ down[c] \in Seq(Down)
              /\ Head(outgoing[c]) \in Down
            BY <1>t, <2>1
        <3> QED  BY <2>1, <3>1, HeadTail, OneMore
    <2>3. /\ outgoing'[c] = Tail(outgoing[c])
          /\ down'[c] \in {down[c], Append(down[c], Head(outgoing[c]))}
          /\ \A d \in Conn \ {c} : outgoing'[d] = outgoing[d] /\ down'[d] = down[d]
        BY <1>t, <2>1
    <2>4. IsOffered(c)' => IsOffered(c)
        BY <2>2, <2>3 DEF IsOffered
    <2> QED  BY <1>1, <1>t, <2>3, <2>4 DEF Promise!Next
<1>3. CASE Broken(c)
    <2>1. /\ outgoing'[c] = <<>> /\ UNCHANGED down
          /\ \A d \in Conn \ {c} : outgoing'[d] = outgoing[d]
        BY <1>3, <1>t DEF Broken
    <2>2. IsOffered(c)' => IsOffered(c)
        BY <2>1, HasEmpty DEF IsOffered
    <2> QED  BY <1>1, <1>t, <2>1, <2>2 DEF Promise!Next
<1>4. CASE Read(c) \/ ReadGarbled(c) \/ Push(c) \/ Remove(c)
    <2>1. UNCHANGED <<outgoing, down>>
        BY <1>4 DEF Read, ReadGarbled, Push, Remove, wire
    <2> QED  BY <1>0, <2>1, PromiseKept
<1> QED  BY <1>2, <1>3, <1>4 DEF Task

\* What the main loop sends is an offer when it is an acknowledgement to a client
\* that is still there.
LEMMA SentOffer ==
    ASSUME TypeOK, UNCHANGED down, NEW m \in Down, Sent(m)
    PROVE  \/ UNCHANGED Offered
           \/ m = "Ack" /\ client # 0 /\ Offered' = Offered \cup {client}
<1>1. CASE ~Alive(client)
    BY <1>1, PromiseKept DEF Sent
<1>2. CASE Alive(client)
    <2>1. PICK k \in Conn : k = client /\ k # 0 /\ outgoing[k] \in Seq(Down)
        BY <1>2, SessionAssumption DEF Alive, TypeOK, Conn
    <2>2. /\ outgoing'[k] = Append(outgoing[k], m)
          /\ \A d \in Conn \ {k} : outgoing'[d] = outgoing[d]
        BY <1>2, <2>1 DEF Sent, TypeOK
    <2>3. IsOffered(k)' <=> IsOffered(k) \/ m = "Ack"
        <3>1. Has(outgoing'[k], "Ack") <=> Has(outgoing[k], "Ack") \/ m = "Ack"
            BY <2>1, <2>2, OneMore
        <3> QED  BY <3>1 DEF IsOffered
    <2>4. \A d \in Conn \ {k} : IsOffered(d)' <=> IsOffered(d)
        BY <2>2 DEF IsOffered
    <2>5. CASE m = "Ack"
        BY <2>1, <2>3, <2>4, <2>5 DEF Offered
    <2>6. CASE m # "Ack"
        <3>1. \A d \in Conn : IsOffered(d)' <=> IsOffered(d)
            BY <2>3, <2>4, <2>6
        <3> QED  BY <3>1 DEF Offered
    <2> QED  BY <2>5, <2>6
<1> QED  BY <1>1, <1>2

LEMMA PromiseMain ==
    TypeOK /\ WorkInv /\ (Main \/ Second) => [Promise!Next]_(Promise!vars)
<1> SUFFICES ASSUME TypeOK, WorkInv, Main \/ Second
             PROVE  [Promise!Next]_(Promise!vars)
    OBVIOUS
<1>0. UNCHANGED <<state, worked, down, Phases, Workers>>
    <2>1. UNCHANGED <<state, worked, down>>
        BY DEF Main, Accept, AcceptDropped, Receive, Sleep, Body, Send, Second, app, wire
    <2> QED  BY <2>1, PromiseKept
<1>1. ASSUME UNCHANGED <<accepted, client, served, outgoing>>
      PROVE  UNCHANGED Promise!vars
    BY <1>0, <1>1, PromiseKept
<1>2. ASSUME Forget, UNCHANGED <<accepted, Offered>> PROVE Promise!Forget
    BY <1>0, <1>2 DEF Forget, Promise!Forget
<1>3. CASE Accept \/ AcceptDropped
    <2>1. /\ accepted' = accepted + 1 /\ client' \in {client, accepted'}
          /\ UNCHANGED <<served, outgoing>> /\ accepted < dialed
        BY <1>3 DEF Accept, AcceptDropped, serv
    <2>2. accepted < MaxConns
        BY <2>1, SessionAssumption DEF TypeOK
    <2> QED  BY <1>0, <2>1, <2>2, PromiseKept DEF Promise!Arrive, Promise!Next
<1>4. CASE Receive
    <2> DEFINE c == Head(msgs).from
    <2>1. UNCHANGED <<accepted, outgoing, Offered>>
        BY <1>0, <1>4, PromiseKept DEF Receive
    <2>2. CASE Ignore \/ Connect(c) \/ SetUdpPort
        BY <1>1, <2>1, <2>2 DEF Ignore, Connect, SetUdpPort, serv
    <2>3. CASE Serve(c) /\ c = client /\ Head(msgs).msg = "Work"
        <3>1. Head(msgs) = WorkOf(c) /\ Has(msgs, Head(msgs)) /\ c \in Conn
            <4>1. msgs \in Seq(Message) /\ msgs # <<>>
                BY <1>4 DEF Receive, TypeOK
            <4>2. Head(msgs) \in Message
                BY <4>1
            <4> QED  BY <2>3, <4>1, <4>2, HeadTail DEF Message, WorkOf
        <3>2. client \in Workers
            BY <2>3, <3>1 DEF WorkInv, Pending, Workers
        <3> QED
            BY <1>0, <2>1, <2>3, <3>2 DEF Serve, Promise!Serve, Promise!Next
    <2>4. CASE Forget
        BY <1>2, <2>1, <2>4 DEF Promise!Next
    <2> QED  BY <1>4, <2>2, <2>3, <2>4 DEF Receive
<1>5. CASE Sleep
    <2>1. UNCHANGED <<accepted, outgoing, Offered>>
        BY <1>0, <1>5, PromiseKept DEF Sleep, tasks
    <2> QED  BY <1>0, <1>1, <1>5, <2>1 DEF Sleep, serv, Promise!Forget, Promise!Next
<1>6. CASE Send
    <2>1. UNCHANGED accepted
        BY <1>6 DEF Send
    <2>2. CASE Sent("Nack") /\ Forget
        BY <1>0, <1>2, <2>1, <2>2, SentOffer DEF Down, Promise!Next
    <2>3. CASE (Sent("Ack") \/ Sent("Heartbeat")) /\ UNCHANGED serv
        <3>1. \/ UNCHANGED Offered
              \/ client # 0 /\ Offered' = Offered \cup {client}
            BY <1>0, <2>3, SentOffer DEF Down
        <3> QED
            BY <1>0, <2>1, <2>3, <3>1, PromiseKept DEF serv, Promise!Offer, Promise!Next
    <2> QED  BY <1>6, <2>2, <2>3 DEF Send
<1>7. CASE Body \/ Second
    BY <1>1, <1>7 DEF Body, Second, tasks, serv
<1> QED  BY <1>3, <1>4, <1>5, <1>6, <1>7 DEF Main

\* The session implements OneClient, for any number of connections and any capacity
\* of the channels: every step of the loop, the tasks and the clients is a step of
\* the promise, or none (main.rs:302-425, network.rs:76-239).
THEOREM OneAtATimeCorrect == Spec => OneAtATime
<1>1. Init => Promise!Init /\ Order /\ Refused /\ WorkInv
    <2> SUFFICES ASSUME Init
                 PROVE  Promise!Init /\ Order /\ Refused /\ WorkInv
        OBVIOUS
    <2>1. Order /\ Refused
        BY DEF Init, Order, Refused, RefusedStaysOut
    <2>2. \A c \in Conn : /\ outgoing[c] = <<>> /\ down[c] = <<>> /\ up[c] = <<>>
                          /\ hand[c] = "none" /\ worked[c] = 0 /\ state[c] = "new"
        BY DEF Init
    <2>3. Offered = {} /\ WorkInv
        BY <2>2, HasEmpty DEF Init, Offered, IsOffered, WorkInv, Pending
    <2>4. Workers = {}
        BY <2>2 DEF Workers
    <2>5. Phases = [c \in Conn |-> "outside"] /\ Promise!Conn = Conn
        BY <2>2 DEF Phases, PhaseOf, Conn, Promise!Conn
    <2> QED  BY <2>1, <2>3, <2>4, <2>5 DEF Init, Promise!Init
<1>2. TypeOK /\ Order /\ Refused /\ WorkInv /\ UNCHANGED vars
          => Refused' /\ WorkInv' /\ UNCHANGED Promise!vars
    <2> SUFFICES ASSUME TypeOK, Order, Refused, WorkInv, UNCHANGED vars
                 PROVE  Refused' /\ WorkInv' /\ UNCHANGED Promise!vars
        OBVIOUS
    <2>1. UNCHANGED <<app, wire, dialed, accepted, tasks, msgs, loop, serv>>
        BY DEF vars
    <2> USE <2>1 DEF app, wire, tasks, serv
    <2>2. Refused'
        BY DEF Refused, RefusedStaysOut
    <2>3. WorkInv'
        BY DEF WorkInv, Pending
    <2> QED  BY <2>2, <2>3, PromiseKept
<1>3. TypeOK /\ TypeOK' /\ Order /\ Refused /\ WorkInv /\ [Next]_vars
          => Order' /\ Refused' /\ WorkInv' /\ [Promise!Next]_(Promise!vars)
    BY <1>2, OrderStep, RefusedUser, RefusedClient, RefusedTask, RefusedMain,
       WorkClient, WorkServer, PromiseClient, PromiseTask, PromiseMain DEF Next
<1> QED  BY <1>1, <1>3, TypeCorrect, PTL DEF Spec, OneAtATime, Promise!Spec

\* The promise is strong enough for the order of service: in whatever implements it, work
\* is never done for a client older than one that was served (main.rs:338).
THEOREM PromiseNoReturn == OneAtATime => NoReturn
<1> DEFINE Ascending == /\ accepted \in Nat /\ client \in 0 .. accepted
                        /\ served \in 0 .. accepted /\ (client # 0 => served =< client)
<1>1. Promise!Init => Ascending
    BY DEF Promise!Init
<1>2. Ascending /\ [Promise!Next]_(Promise!vars) => Ascending' /\ served' >= served
    <2> SUFFICES ASSUME Ascending, [Promise!Next]_(Promise!vars)
                 PROVE  Ascending' /\ served' >= served
        OBVIOUS
    <2>1. CASE UNCHANGED <<accepted, client, served>>
        BY <2>1
    <2>2. CASE Promise!Arrive
        BY <2>2 DEF Promise!Arrive
    <2>3. CASE Promise!Serve
        <3>1. client \in Workers /\ served' = client /\ UNCHANGED <<accepted, client>>
            BY <2>3 DEF Promise!Serve
        <3>2. client # 0
            BY <3>1, SessionAssumption DEF Workers, Conn
        <3> QED  BY <3>1, <3>2
    <2>4. CASE Promise!Forget
        BY <2>4 DEF Promise!Forget
    <2>5. CASE Promise!Offer \/ UNCHANGED Promise!vars
        BY <2>1, <2>5 DEF Promise!Offer, Promise!vars
    <2>6. ASSUME NEW c \in Promise!Conn,
                 Promise!Miss(c) \/ Promise!Join(c) \/ Promise!Part(c) \/ Promise!Ask(c)
          PROVE  UNCHANGED <<accepted, client, served>>
        BY <2>6 DEF Promise!Miss, Promise!Join, Promise!Part, Promise!Ask
    <2> QED  BY <2>1, <2>2, <2>3, <2>4, <2>5, <2>6 DEF Promise!Next
<1>3. Ascending /\ [Promise!Next]_(Promise!vars) => [served' >= served]_vars
    BY <1>2
<1> QED  BY <1>1, <1>2, <1>3, PTL DEF OneAtATime, NoReturn, Promise!Spec
=============================================================================
