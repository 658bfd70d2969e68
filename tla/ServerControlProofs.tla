------------------------ MODULE ServerControlProofs ------------------------
(***************************************************************************)
(* Proofs about the control of the server, for any number of servers that  *)
(* are started one after the other: types, that no two of them are alive   *)
(* together, that none is stopped by another, and what the window shows.   *)
(***************************************************************************)
EXTENDS ServerControl, TLAPS

\* The handle is that of the only server that can be alive, the last one spawned.
HandleInv ==
    /\ server_task =< spawned
    /\ \A s \in Server : Alive(s) => s = server_task
    /\ \A s \in Server : s > spawned => stage[s] = "none"

\* The flag is up only while a server is, and before it is told to be quiet.
FlagInv ==
    running => /\ server_task # 0
               /\ stage[server_task] \in Begun \cup {"join", "failed", "ended"}

StatsInv ==
    /\ (\A s \in Server : ~Alive(s)) =>
          connected_client = 0 /\ status = "Stopped"
    /\ ShownIsOurs

Safe == HandleInv /\ FlagInv /\ Undisturbed /\ StatsInv

\* A count that is reduced stays below the period.
LEMMA Reduced == \A n \in Nat : n % Period \in 0 .. Period - 1
    BY ControlAssumption

LEMMA Zero == 0 \in 0 .. MaxServers
    BY ControlAssumption

LEMMA Spawned == \A k \in 0 .. MaxServers : k < MaxServers =>
                    k + 1 \in 0 .. MaxServers /\ k + 1 \in Server
    BY ControlAssumption DEF Server

LEMMA TypeInit == Init => TypeOK
<1> USE ControlAssumption
<1>1. 0 \in 0 .. MaxServers /\ 0 \in 0 .. MaxFrames /\ 0 \in 0 .. Period - 1
    OBVIOUS
<1> QED
    BY <1>1 DEF Init, TypeOK, Stage, Begun, Over, Status

\* The steps of the window.
LEMMA TypeWindow == TypeOK /\ Window => TypeOK'
<1> SUFFICES ASSUME TypeOK, Window
             PROVE  TypeOK'
    OBVIOUS
<1> USE ControlAssumption DEF TypeOK, loops, stats
<1>1. CASE ReadFlag
    BY <1>1 DEF ReadFlag
<1>2. CASE CleanUp
    <2>1. server_task' \in {0, server_task} /\ running' \in {running, FALSE}
        BY <1>2 DEF CleanUp
    <2> QED  BY <1>2, <2>1, Zero DEF CleanUp
<1>3. CASE Click
    <2>0. ui' \in {"read", "clean", "click"} /\ is_running' \in BOOLEAN
        BY <1>3 DEF Click
    <2>1. CASE StartServer
        <3>1. spawned' \in 0 .. MaxServers /\ server_task' \in 0 .. MaxServers
            BY <2>1, Spawned DEF StartServer
        <3>2. stage' \in [Server -> Stage]
            BY <2>1 DEF StartServer, Stage, Begun
        <3>3. status' \in Status /\ connected_client' \in 0 .. MaxServers
            BY <2>1, Zero DEF StartServer, Status
        <3> QED  BY <2>0, <2>1, <3>1, <3>2, <3>3 DEF StartServer
    <2>2. CASE StopServer
        BY <2>0, <2>2 DEF StopServer
    <2>3. CASE UNCHANGED <<running, server_task, spawned, stage, loops, stats, told>>
        BY <2>0, <2>3
    <2> QED  BY <1>3, <2>1, <2>2, <2>3 DEF Click
<1> QED
    BY <1>1, <1>2, <1>3 DEF Window

\* What every step of a server does to where it is.
LEMMA TypeBecomes ==
    ASSUME TypeOK, NEW s \in Server, NEW from, NEW to \in Stage, Becomes(s, from, to)
    PROVE  /\ stage' \in [Server -> Stage]
           /\ spawned' \in 0 .. MaxServers /\ server_task' \in 0 .. MaxServers
           /\ is_running' \in BOOLEAN /\ ui' \in {"read", "clean", "click"}
    BY DEF TypeOK, Becomes, window

\* The steps of a server, and of the frames and connections.
LEMMA TypeServer ==
    ASSUME TypeOK, NEW s \in Server,
           Selected(s) \/ Proceed(s) \/ Frame(s)
    PROVE  TypeOK'
<1> DEFINE Kept == /\ stage' \in [Server -> Stage]
                   /\ spawned' \in 0 .. MaxServers /\ server_task' \in 0 .. MaxServers
                   /\ is_running' \in BOOLEAN /\ ui' \in {"read", "clean", "click"}
<1>k. \A from, to : to \in Stage /\ Becomes(s, from, to) => Kept
    BY TypeBecomes
<1>t. /\ "init" \in Stage /\ "failed" \in Stage /\ "top" \in Stage
      /\ "select" \in Stage /\ "join" \in Stage /\ "show" \in Stage
      /\ "send" \in Stage /\ "ended" \in Stage /\ "stopped" \in Stage
      /\ "finished" \in Stage
    BY DEF Stage, Begun, Over
<1> HIDE DEF Kept
<1>1. CASE Selected(s)
    <2>1. Kept  BY <1>1, <1>k, <1>t DEF Selected
    <2> QED  BY <1>1, <2>1 DEF Selected, TypeOK, loops, Kept, Status
<1>2. CASE Prepared(s)
    <2>1. Kept  BY <1>2, <1>k, <1>t DEF Prepared
    <2> QED  BY <1>2, <2>1 DEF Prepared, TypeOK, loops, Kept, Status
<1>3. CASE LoopTop(s)
    <2>1. Kept  BY <1>3, <1>k, <1>t DEF LoopTop
    <2> QED  BY <1>3, <2>1 DEF LoopTop, TypeOK, loops, stats, Kept
<1>4. CASE Select(s)
    <2>1. Kept  BY <1>4, <1>k, <1>t DEF Select
    <2>2. client' \subseteq Server
        BY <1>4 DEF Select, TypeOK
    <2> QED  BY <1>4, <2>1, <2>2 DEF Select, TypeOK, stats, Kept
<1>5. CASE Show(s)
    <2>1. Kept  BY <1>5, <1>k, <1>t DEF Show
    <2>2. connected_client' \in 0 .. MaxServers
        BY <1>5, ControlAssumption DEF Show, TypeOK, Server
    <2> QED  BY <1>5, <2>1, <2>2 DEF Show, TypeOK, loops, Kept
<1>6. CASE Send(s)
    <2>1. Kept  BY <1>6, <1>k, <1>t DEF Send
    <2>2. PICK n \in 0 .. frames[s] :
              /\ frames' = [frames EXCEPT ![s] = @ - n]
              /\ sequence' = [sequence EXCEPT ![s] = Count(s, n)]
        BY <1>6 DEF Send
    <2>3. frames[s] \in 0 .. MaxFrames /\ sequence[s] \in 0 .. Period - 1
        BY DEF TypeOK
    <2>4. frames[s] - n \in 0 .. MaxFrames
        BY <2>2, <2>3, ControlAssumption
    <2>5. frames' \in [Server -> 0 .. MaxFrames]
        BY <2>2, <2>4 DEF TypeOK
    <2>6. Count(s, n) \in 0 .. Period - 1
        <3>1. sequence[s] + n \in Nat
            BY <2>2, <2>3, ControlAssumption
        <3> QED  BY <3>1, Reduced DEF Count
    <2>7. sequence' \in [Server -> 0 .. Period - 1]
        BY <2>2, <2>6 DEF TypeOK
    <2> QED  BY <1>6, <2>1, <2>5, <2>7 DEF Send, TypeOK, stats, Kept
<1>7. CASE Join(s)
    <2>1. Kept  BY <1>7, <1>k, <1>t DEF Join
    <2>2. 0 \in 0 .. MaxFrames /\ 0 \in 0 .. Period - 1
        BY ControlAssumption
    <2> QED  BY <1>7, <2>1, <2>2 DEF Join, TypeOK, stats, Kept
<1>8. CASE Failed(s)
    <2>1. Kept  BY <1>8, <1>k, <1>t DEF Failed
    <2> QED  BY <1>8, <2>1 DEF Failed, TypeOK, loops, Kept, Status
<1>9. CASE Lower(s)
    <2>1. Kept  BY <1>9, <1>k, <1>t DEF Lower
    <2> QED  BY <1>9, <2>1 DEF Lower, TypeOK, loops, stats, Kept
<1>10. CASE Finish(s)
    <2>1. Kept  BY <1>10, <1>k, <1>t DEF Finish
    <2> QED  BY <1>10, <2>1, Zero DEF Finish, TypeOK, loops, Kept, Status
<1>11. CASE Frame(s)
    <2>1. frames' \in [Server -> 0 .. MaxFrames]
        BY <1>11, ControlAssumption DEF Frame, TypeOK
    <2> QED  BY <1>11, <2>1 DEF Frame, TypeOK, window, stats
<1> QED
    BY <1>1, <1>2, <1>3, <1>4, <1>5, <1>6, <1>7, <1>8, <1>9, <1>10, <1>11
       DEF Proceed

LEMMA TypeNext == TypeOK /\ [Next]_vars => TypeOK'
<1> SUFFICES ASSUME TypeOK, [Next]_vars
             PROVE  TypeOK'
    OBVIOUS
<1>1. CASE UNCHANGED vars
    BY <1>1 DEF TypeOK, vars, window, loops, stats
<1> QED
    BY <1>1, TypeWindow, TypeServer DEF Next

---------------------------------------------------------------------------
LEMMA SafeInit == Init => Safe
<1> SUFFICES ASSUME Init
             PROVE  Safe
    OBVIOUS
<1>1. \A s \in Server : stage[s] = "none" /\ ~Alive(s)
    BY DEF Init, Alive
<1>2. HandleInv
    BY <1>1 DEF Init, HandleInv
<1>3. FlagInv
    BY DEF Init, FlagInv
<1>4. Undisturbed
    BY <1>1 DEF Undisturbed, Begun
<1>5. StatsInv
    BY DEF Init, StatsInv, ShownIsOurs
<1> QED  BY <1>2, <1>3, <1>4, <1>5 DEF Safe

\* What is safe depends on these variables only.
LEMMA SafeSame ==
    ASSUME Safe,
           UNCHANGED <<running, server_task, spawned, stage, told, stats>>
    PROVE  Safe'
<1>1. \A s \in Server : Alive(s)' <=> Alive(s)
    BY DEF Alive
<1>2. HandleInv'  BY <1>1 DEF Safe, HandleInv
<1>3. FlagInv'  BY DEF Safe, FlagInv
<1>4. Undisturbed'  BY DEF Safe, Undisturbed
<1>5. StatsInv'
    <2>1. connected_client' = connected_client /\ status' = status
        BY DEF stats
    <2> QED  BY <1>1, <2>1 DEF Safe, StatsInv, ShownIsOurs, Alive
<1> QED  BY <1>2, <1>3, <1>4, <1>5 DEF Safe

\* No server is alive without a handle.
LEMMA NoneAlive ==
    ASSUME HandleInv, server_task = 0
    PROVE  \A s \in Server : ~Alive(s)
    BY ControlAssumption DEF HandleInv, Server

\* The handle of a finished server is dropped, and the flag lowered: nothing was alive.
LEMMA SafeCleanUp ==
    ASSUME TypeOK, Safe, CleanUp
    PROVE  Safe'
<1>0. UNCHANGED <<spawned, stage, told, stats>>
    BY DEF CleanUp
<1>1. CASE server_task # 0 /\ ~Alive(server_task)
    <2>1. server_task' = 0 /\ running' = FALSE
        BY <1>1 DEF CleanUp
    <2>2. \A s \in Server : ~Alive(s) /\ ~Alive(s)'
        BY <1>0, <1>1 DEF Safe, HandleInv, Alive
    <2>3. 0 =< spawned
        BY ControlAssumption DEF TypeOK
    <2>4. HandleInv'
        BY <1>0, <2>1, <2>2, <2>3 DEF Safe, HandleInv
    <2>5. FlagInv'  BY <2>1 DEF FlagInv
    <2>6. Undisturbed'
        BY <2>2 DEF Undisturbed, Alive, Begun
    <2>7. StatsInv'
        <3>1. connected_client = 0 /\ status = "Stopped"
            BY <2>2 DEF Safe, StatsInv
        <3> QED  BY <1>0, <3>1 DEF StatsInv, ShownIsOurs, stats
    <2> QED  BY <2>4, <2>5, <2>6, <2>7 DEF Safe
<1>2. CASE ~(server_task # 0 /\ ~Alive(server_task))
    BY <1>0, <1>2, SafeSame DEF CleanUp
<1> QED  BY <1>1, <1>2

\* A server is spawned when none is alive.
LEMMA SafeStart ==
    ASSUME TypeOK, Safe, StartServer, UNCHANGED told
    PROVE  Safe'
<1>n. PICK n \in Server : n = spawned + 1
    BY Spawned DEF StartServer, TypeOK
<1>1. /\ n # 0 /\ running' = TRUE /\ server_task' = n /\ spawned' = n
      /\ stage' = [stage EXCEPT ![n] = "dialog"] /\ connected_client' = 0
    <2>1. n # 0
        BY <1>n DEF Server
    <2> QED  BY <1>n, <2>1 DEF StartServer
<1>2. \A s \in Server : ~Alive(s)
    BY NoneAlive DEF Safe, StartServer, NoServer
<1>3. stage'[n] = "dialog" /\ \A s \in Server : s # n => stage'[s] = stage[s]
    BY <1>1 DEF TypeOK
<1>4. Alive(n)' /\ \A s \in Server : s # n => ~Alive(s)'
    BY <1>2, <1>3 DEF Alive
<1>5. HandleInv'
    <2>1. \A s \in Server : s > n => stage[s] = "none"
        BY <1>n, ControlAssumption DEF Safe, HandleInv, Server, TypeOK
    <2>2. n =< n /\ \A s \in Server : s > n => s # n
        BY <1>1 DEF Server
    <2> QED  BY <1>1, <1>3, <1>4, <2>1, <2>2 DEF HandleInv
<1>6. FlagInv'  BY <1>1, <1>3 DEF FlagInv, Begun
<1>7. Undisturbed'  BY <1>1 DEF Undisturbed
<1>8. StatsInv'
    BY <1>1, <1>4 DEF StatsInv, ShownIsOurs
<1> QED  BY <1>5, <1>6, <1>7, <1>8 DEF Safe

\* Whoever is alive is told.
LEMMA SafeStop ==
    ASSUME TypeOK, Safe, StopServer
    PROVE  Safe'
<1>1. HandleInv' /\ StatsInv'
    <2>1. \A s : Alive(s)' <=> Alive(s)
        BY DEF Alive, StopServer
    <2> QED  BY <2>1 DEF Safe, StopServer, HandleInv, StatsInv, ShownIsOurs, stats
<1>2. FlagInv'  BY DEF StopServer, FlagInv
<1>3. Undisturbed'
    <2> SUFFICES ASSUME NEW s \in Server, stage'[s] \in Begun
                 PROVE  s \in told'
        BY DEF Undisturbed
    <2>1. Alive(s)  BY DEF StopServer, Alive, Begun
    <2> QED  BY <2>1 DEF StopServer
<1> QED  BY <1>1, <1>2, <1>3 DEF Safe

LEMMA SafeWindow == TypeOK /\ Safe /\ Window => Safe'
<1> SUFFICES ASSUME TypeOK, Safe, Window
             PROVE  Safe'
    OBVIOUS
<1>1. CASE ReadFlag
    BY <1>1, SafeSame DEF ReadFlag
<1>2. CASE CleanUp
    BY <1>2, SafeCleanUp
<1>3. CASE Click
    <2>1. CASE StartServer
        BY <2>1, SafeStart DEF StartServer
    <2>2. CASE StopServer
        BY <2>2, SafeStop
    <2>3. CASE UNCHANGED <<running, server_task, spawned, stage, loops, stats, told>>
        BY <2>3, SafeSame
    <2> QED  BY <1>3, <2>1, <2>2, <2>3 DEF Click
<1> QED  BY <1>1, <1>2, <1>3 DEF Window

---------------------------------------------------------------------------
\* A server that makes a step is the one of the handle, and stays alone.
LEMMA Moved ==
    ASSUME TypeOK, HandleInv, NEW s \in Server,
           NEW from \in Stage \ {"none", "finished"}, NEW to \in Stage \ {"none"},
           Becomes(s, from, to)
    PROVE  /\ s = server_task /\ server_task' = s /\ s # 0 /\ Alive(s)
           /\ stage[s] = from /\ stage'[s] = to
           /\ \A t \in Server : t # s => ~Alive(t) /\ stage'[t] = stage[t]
           /\ HandleInv'
<1>1. Alive(s) /\ s = server_task
    BY DEF Becomes, Alive, HandleInv
<1>2. s # 0 /\ server_task' = s /\ spawned' = spawned
    BY <1>1 DEF Becomes, window, Server
<1>3. stage[s] = from /\ stage'[s] = to
    BY DEF Becomes, TypeOK
<1>4. \A t \in Server : t # s => ~Alive(t) /\ stage'[t] = stage[t]
    BY <1>1 DEF Becomes, TypeOK, HandleInv
<1>5. HandleInv'
    <2>1. \A t \in Server : Alive(t)' => t = s
        BY <1>4 DEF Alive
    <2>2. \A t \in Server : t > spawned => t # s
        BY <1>3 DEF HandleInv
    <2> QED  BY <1>1, <1>2, <1>4, <2>1, <2>2 DEF HandleInv
<1> QED  BY <1>1, <1>2, <1>3, <1>4, <1>5

\* A step of a server that has begun: the flag is lowered only when it is told.
LEMMA SafeBegun ==
    ASSUME TypeOK, Safe, NEW s \in Server,
           NEW from \in Begun, NEW to \in Begun \cup {"failed", "join"},
           Becomes(s, from, to),
           \/ UNCHANGED <<running, told>>
           \/ running' = FALSE /\ told' = told \cup {s},
           connected_client' \in {0, s, connected_client}
    PROVE  Safe'
<1>0. from \in Stage \ {"none", "finished"} /\ to \in Stage \ {"none", "finished"}
    BY DEF Stage, Begun, Over
<1>1. /\ s = server_task /\ server_task' = s /\ s # 0 /\ Alive(s)
      /\ stage[s] = from /\ stage'[s] = to
      /\ \A t \in Server : t # s => ~Alive(t) /\ stage'[t] = stage[t]
      /\ HandleInv'
    BY <1>0, Moved DEF Safe
<1>2. FlagInv'
    BY <1>1 DEF FlagInv
<1>3. Undisturbed'
    <2> SUFFICES ASSUME NEW t \in Server, stage'[t] \in Begun, ~running'
                 PROVE  t \in told'
        BY DEF Undisturbed
    <2>1. t = s
        BY <1>1 DEF Alive, Begun
    <2> QED  BY <1>1, <2>1 DEF Safe, Undisturbed
<1>4. StatsInv'
    <2>1. Alive(s)'
        BY <1>0, <1>1 DEF Alive
    <2>2. connected_client \in {0, s}
        BY <1>1, ControlAssumption DEF Safe, StatsInv, ShownIsOurs, TypeOK, Server
    <2> QED  BY <1>1, <2>1, <2>2 DEF StatsInv, ShownIsOurs
<1> QED  BY <1>1, <1>2, <1>3, <1>4 DEF Safe

\* A step of a server on its way out.
LEMMA SafeOver ==
    ASSUME TypeOK, Safe, NEW s \in Server,
           Join(s) \/ Failed(s) \/ Lower(s) \/ Finish(s)
    PROVE  Safe'
<1>1. PICK from \in {"join", "failed", "ended", "stopped"},
           to \in {"ended", "stopped", "finished"} :
        /\ Becomes(s, from, to)
        /\ to = "finished" => connected_client' = 0 /\ status' = "Stopped"
        /\ to # "finished" => connected_client' = connected_client
        /\ \/ running' = running /\ from # "ended" /\ to \in {"ended", "finished"}
           \/ running' = FALSE
        /\ to = "finished" => from = "stopped"
    BY DEF Join, Failed, Lower, Finish, stats
<1>2. from \in Stage \ {"none", "finished"} /\ to \in Stage \ {"none"}
    BY DEF Stage, Begun, Over
<1>3. /\ s = server_task /\ server_task' = s /\ s # 0 /\ Alive(s)
      /\ stage[s] = from /\ stage'[s] = to
      /\ \A t \in Server : t # s => ~Alive(t) /\ stage'[t] = stage[t]
      /\ HandleInv'
    BY <1>1, <1>2, Moved DEF Safe
<1>4. FlagInv'
    <2>1. to = "finished" => ~running
        BY <1>1, <1>3 DEF Safe, FlagInv, Begun
    <2> QED  BY <1>1, <1>3, <2>1 DEF FlagInv
<1>5. Undisturbed'
    BY <1>3 DEF Undisturbed, Alive, Begun
<1>6. StatsInv'
    <2>1. CASE to = "finished"
        BY <1>1, <2>1 DEF StatsInv, ShownIsOurs
    <2>2. CASE to # "finished"
        <3>1. Alive(s)'
            BY <1>1, <1>3, <2>2 DEF Alive
        <3>2. connected_client' \in {0, s}
            BY <1>1, <1>3, <2>2, ControlAssumption
               DEF Safe, StatsInv, ShownIsOurs, TypeOK, Server
        <3> QED  BY <1>3, <3>1, <3>2 DEF StatsInv, ShownIsOurs
    <2> QED  BY <2>1, <2>2
<1> QED  BY <1>3, <1>4, <1>5, <1>6 DEF Safe

LEMMA SafeServer ==
    ASSUME TypeOK, Safe, NEW s \in Server,
           Selected(s) \/ Proceed(s) \/ Frame(s)
    PROVE  Safe'
<1>1. CASE Selected(s) \/ Prepared(s)
    <2>1. PICK from \in Begun, to \in Begun \cup {"failed"} : Becomes(s, from, to)
        BY <1>1 DEF Selected, Prepared, Begun
    <2> QED  BY <1>1, <2>1, SafeBegun DEF Selected, Prepared
<1>2. CASE LoopTop(s) \/ Select(s) \/ Send(s)
    <2>1. PICK from \in Begun, to \in Begun \cup {"join"} : Becomes(s, from, to)
        BY <1>2 DEF LoopTop, Select, Send, Begun
    <2> QED  BY <1>2, <2>1, SafeBegun DEF LoopTop, Select, Send, stats
<1>3. CASE Show(s)
    <2>1. /\ Becomes(s, "show", "send") /\ connected_client' \in {0, s, connected_client}
          /\ \/ UNCHANGED <<running, told>>
             \/ running' = FALSE /\ told' = told \cup {s}
        BY <1>3 DEF Show
    <2> QED  BY <2>1, SafeBegun DEF Begun
<1>4. CASE Join(s) \/ Failed(s) \/ Lower(s) \/ Finish(s)
    BY <1>4, SafeOver
<1>5. CASE Frame(s)
    BY <1>5, SafeSame DEF Frame, window
<1> QED  BY <1>1, <1>2, <1>3, <1>4, <1>5 DEF Proceed

LEMMA SafeNext == TypeOK /\ Safe /\ [Next]_vars => Safe'
<1> SUFFICES ASSUME TypeOK, Safe, [Next]_vars
             PROVE  Safe'
    OBVIOUS
<1>1. CASE UNCHANGED vars
    BY <1>1, SafeSame DEF vars, window
<1> QED
    BY <1>1, SafeWindow, SafeServer DEF Next

---------------------------------------------------------------------------
\* Every variable of the control keeps its type, however often a server is started
\* (gui.rs:78-138).
THEOREM TypeCorrect == Spec => []TypeOK
    BY TypeInit, TypeNext, PTL DEF Spec

\* What is safe holds in every state.
THEOREM SafeCorrect == Spec => [](TypeOK /\ Safe)
    BY TypeInit, TypeNext, SafeInit, SafeNext, PTL DEF Spec

\* Two servers are never alive together (gui.rs:79, 255).
THEOREM OneServerCorrect == Spec => []OneServer
<1>1. TypeOK /\ Safe => OneServer
    BY DEF Safe, HandleInv, OneServer
<1> QED  BY <1>1, SafeCorrect, PTL

\* No server is stopped that was not told to, whatever the one before it and the
\* window store in the flag they share (gui.rs:121, 169).
THEOREM UndisturbedCorrect == Spec => []Undisturbed
<1>1. TypeOK /\ Safe => Undisturbed
    BY DEF Safe
<1> QED  BY <1>1, SafeCorrect, PTL

\* The window shows a client of the server that is alive (gui.rs:124).
THEOREM ShownCorrect == Spec => []ShownIsOurs
<1>1. TypeOK /\ Safe => ShownIsOurs
    BY DEF Safe, StatsInv
<1> QED  BY <1>1, SafeCorrect, PTL

\* Without a server the flag is low and the statistics do not speak of one
\* (gui.rs:121-124, 164-169).
THEOREM AtRestCorrect == Spec => []AtRest
<1>1. TypeOK /\ Safe => AtRest
    BY NoneAlive DEF Safe, FlagInv, StatsInv, AtRest
<1> QED  BY <1>1, SafeCorrect, PTL
=============================================================================
