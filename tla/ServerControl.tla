--------------------------- MODULE ServerControl ---------------------------
(***************************************************************************)
(* The start and the stop of the server (crates/dt-server/src/gui.rs:      *)
(* 78-171, 253-257, main.rs:134-222): the window, the task it spawns, the  *)
(* flag and the statistics they share, and what the window shows of the    *)
(* client (main.rs:428-434).                                               *)
(*                                                                         *)
(* The window draws a frame over and over, in three steps: it reads the    *)
(* flag, drops the handle of a task that is finished, and handles a click. *)
(* A server is a task; they are numbered as they are spawned, and at most  *)
(* MaxServers are.  Of the main loop only its passes, its current client   *)
(* and its count of encoded frames, modulo Period, are left: Session and   *)
(* VideoPipeline have the rest: VideoPipeline shows that a loop that is    *)
(* told to stop gets to its end, unless it waits for ever for room in the  *)
(* channel to a client.  A client that takes the place of another changes  *)
(* nothing here.                                                           *)
(***************************************************************************)
EXTENDS Naturals

CONSTANTS MaxServers,
          Period,       \* 60: the frames between two looks at the client
          MaxFrames     \* how many frames are on their way to the loop

ASSUME ControlAssumption ==
    MaxServers \in Nat /\ Period \in Nat \ {0} /\ MaxFrames \in Nat

VARIABLES
    running,            \* running_flag, which the window and the tasks share
    server_task,        \* the handle, 0 if none
    is_running, ui,     \* what the window read; where its frame is
    spawned, stage,     \* the servers spawned, and where each is
    client,             \* the servers that have a client
    frames, sequence,   \* the encoded frames on their way, and those taken
    status, connected_client,   \* of the statistics; the server of the client shown
    told                \* the servers that were told to stop, or lost their encoder

window == <<server_task, is_running, ui>>
loops  == <<client, frames, sequence>>
stats  == <<status, connected_client>>
vars   == <<running, window, spawned, stage, loops, stats, told>>

Server == 1 .. MaxServers
Begun  == {"dialog", "init", "top", "select", "show", "send"}
Over   == {"failed", "ended", "stopped"}
Stage  == {"none", "finished", "join"} \cup Begun \cup Over
Status == {"Starting...", "Selecting Screen...", "Initializing...",
           "Running", "Error", "Stopped"}

TypeOK ==
    /\ running \in BOOLEAN /\ is_running \in BOOLEAN
    /\ server_task \in 0 .. MaxServers /\ spawned \in 0 .. MaxServers
    /\ ui \in {"read", "clean", "click"}
    /\ stage \in [Server -> Stage]
    /\ client \subseteq Server
    /\ frames \in [Server -> 0 .. MaxFrames]
    /\ sequence \in [Server -> 0 .. Period - 1]
    /\ status \in Status /\ connected_client \in 0 .. MaxServers
    /\ told \subseteq Server

Init ==
    /\ running = FALSE
    /\ server_task = 0 /\ is_running = FALSE /\ ui = "read"
    /\ spawned = 0 /\ stage = [s \in Server |-> "none"]
    /\ client = {}
    /\ frames = [s \in Server |-> 0] /\ sequence = [s \in Server |-> 0]
    /\ status = "Stopped" /\ connected_client = 0
    /\ told = {}

Alive(s) == stage[s] \notin {"none", "finished"}

---------------------------------------------------------------------------
(* The window *)

ReadFlag ==
    /\ ui = "read" /\ ui' = "clean"
    /\ is_running' = running
    /\ UNCHANGED <<running, server_task, spawned, stage, loops, stats, told>>

\* Mutant of CleanUp: the flag is lowered and the handle kept.
CleanUpFlag ==
    /\ ui = "clean" /\ ui' = "click"
    /\ IF server_task # 0 /\ ~Alive(server_task)
       THEN running' = FALSE
       ELSE UNCHANGED running
    /\ UNCHANGED <<server_task, is_running, spawned, stage, loops, stats, told>>

CleanUp ==
    /\ ui = "clean" /\ ui' = "click"
    /\ IF server_task # 0 /\ ~Alive(server_task)
       THEN server_task' = 0 /\ running' = FALSE
       ELSE UNCHANGED <<server_task, running>>
    /\ UNCHANGED <<is_running, spawned, stage, loops, stats, told>>

\* Mutant of NoServer: the flag alone says whether there is a server.
NoServerRuns == ~running

NoServer == server_task = 0 /\ ~running

\* start_server, and the reset of the statistics
StartServer ==
    /\ ~is_running /\ NoServer
    /\ spawned < MaxServers
    /\ running' = TRUE
    /\ spawned' = spawned + 1
    /\ server_task' = spawned'
    /\ stage' = [stage EXCEPT ![spawned'] = "dialog"]
    /\ status' \in {"Starting...", "Selecting Screen..."}
    /\ connected_client' = 0
    /\ UNCHANGED <<loops, told>>

StopServer ==
    /\ is_running
    /\ running' = FALSE
    /\ told' = told \cup {s \in Server : Alive(s)}
    /\ UNCHANGED <<server_task, spawned, stage, loops, stats>>

\* The end of a frame, with or without a click of the button.
Click ==
    /\ ui = "click" /\ ui' = "read"
    /\ UNCHANGED is_running
    /\ \/ StartServer
       \/ StopServer
       \/ UNCHANGED <<running, server_task, spawned, stage, loops, stats, told>>

Window == ReadFlag \/ CleanUp \/ Click

---------------------------------------------------------------------------
(* A server *)

Becomes(s, from, to) ==
    /\ stage[s] = from
    /\ stage' = [stage EXCEPT ![s] = to]
    /\ UNCHANGED <<spawned, window>>

\* The user selects a screen, or the portal answers with an error.
Selected(s) ==
    /\ \/ Becomes(s, "dialog", "init") /\ status' = "Initializing..."
       \/ Becomes(s, "dialog", "failed") /\ UNCHANGED status
    /\ UNCHANGED <<running, loops, connected_client, told>>

\* The tablet, the encoder, the capture and the sockets are made; each may fail.
Prepared(s) ==
    /\ \/ Becomes(s, "init", "top") /\ status' = "Running"
       \/ Becomes(s, "init", "failed") /\ UNCHANGED status
    /\ UNCHANGED <<running, loops, connected_client, told>>

LoopTop(s) ==
    /\ Becomes(s, "top", IF running THEN "select" ELSE "join")
    /\ UNCHANGED <<running, loops, stats, told>>

\* A client is accepted, says that it leaves or is found to have left, or is sent off
\* with continue.
Select(s) ==
    /\ \/ Becomes(s, "select", "show") /\ s \notin client /\ client' = client \cup {s}
       \/ Becomes(s, "select", "show") /\ s \in client /\ client' = client \ {s}
       \/ Becomes(s, "select", "top") /\ s \in client /\ client' = client \ {s}
       \/ Becomes(s, "select", "show") /\ UNCHANGED client
    /\ UNCHANGED <<running, frames, sequence, stats, told>>

\* The window is told of the client; a frame may find the encoder gone.
Show(s) ==
    /\ Becomes(s, "show", "send")
    /\ connected_client' = IF sequence[s] # 0 THEN connected_client
                           ELSE IF s \in client THEN s ELSE 0
    /\ \/ UNCHANGED <<running, told>>
       \/ s \in client /\ running' = FALSE /\ told' = told \cup {s}
    /\ UNCHANGED <<loops, status>>

Count(s, n) == (sequence[s] + n) % Period

\* Encoded frames are taken, whether or not there is a client.
Send(s) ==
    /\ Becomes(s, "send", "top")
    /\ \E n \in 0 .. frames[s] :
         /\ frames' = [frames EXCEPT ![s] = @ - n]
         /\ sequence' = [sequence EXCEPT ![s] = Count(s, n)]
    /\ UNCHANGED <<running, client, stats, told>>

\* The encoder thread has ended; what the loop had is dropped.
Join(s) ==
    /\ Becomes(s, "join", "ended")
    /\ client' = client \ {s}
    /\ frames' = [frames EXCEPT ![s] = 0] /\ sequence' = [sequence EXCEPT ![s] = 0]
    /\ UNCHANGED <<running, stats, told>>

Failed(s) ==
    /\ Becomes(s, "failed", "ended")
    /\ status' = "Error"
    /\ UNCHANGED <<running, loops, connected_client, told>>

Lower(s) ==
    /\ Becomes(s, "ended", "stopped")
    /\ running' = FALSE
    /\ UNCHANGED <<loops, stats, told>>

\* Mutant of Finish: the client is left in the statistics.
FinishStatus(s) ==
    /\ Becomes(s, "stopped", "finished")
    /\ status' = "Stopped"
    /\ UNCHANGED <<running, loops, connected_client, told>>

Finish(s) ==
    /\ Becomes(s, "stopped", "finished")
    /\ status' = "Stopped" /\ connected_client' = 0
    /\ UNCHANGED <<running, loops, told>>

Proceed(s) ==
    \/ Prepared(s) \/ LoopTop(s) \/ Select(s) \/ Show(s) \/ Send(s)
    \/ Join(s) \/ Failed(s) \/ Lower(s) \/ Finish(s)

\* Frames are forwarded to the encoder only for a client.
Frame(s) ==
    /\ s \in client /\ stage[s] \in Begun
    /\ frames[s] < MaxFrames
    /\ frames' = [frames EXCEPT ![s] = @ + 1]
    /\ UNCHANGED <<running, window, spawned, stage, client, sequence, stats, told>>

---------------------------------------------------------------------------
Next ==
    \/ Window
    \/ \E s \in Server : Selected(s) \/ Proceed(s) \/ Frame(s)

Spec == Init /\ [][Next]_vars

\* The window is drawn ten times a second and the runtime runs its tasks.  Nobody has to
\* answer the dialog.  That a server proceeds assumes that its main loop never waits for
\* ever in send_to_client (main.rs:354, 361, 527; network.rs:157): VideoPipeline and
\* Session say when it might.
FairSpec ==
    /\ Spec
    /\ WF_vars(Window)
    /\ \A s \in Server : WF_vars(Proceed(s))

---------------------------------------------------------------------------
(* Properties *)

\* However the button is clicked, two servers are never alive together, which would
\* share the flag, the port and the tablet (gui.rs:79, 255).
OneServer == \A s, t \in Server : Alive(s) /\ Alive(t) => s = t

\* A server that was not told to stop, and has its encoder, is not stopped: no store
\* of the task before it and no cleanup lowers its flag (gui.rs:121, 169).
Undisturbed == \A s \in Server : stage[s] \in Begun /\ ~running => s \in told

\* The window shows the client of the server that is alive, never one of a server
\* before (gui.rs:124, main.rs:430-433).
ShownIsOurs == connected_client # 0 => Alive(connected_client)

\* When the button can start a server, the flag is low, no client is shown, and the
\* status says that no server runs (gui.rs:121-125, 164-169).
AtRest == server_task = 0 => /\ ~running
                             /\ connected_client = 0
                             /\ status = "Stopped"

\* A server whose flag is low ends, and can be started again, unless its dialog is left
\* open (gui.rs:164-170, main.rs:302) or its main loop waits for a client for ever, which
\* the fairness rules out.
Restartable ==
    \A s \in Server :
        (server_task = s /\ ~running) ~> (server_task # s \/ stage[s] = "dialog")

\* main.rs:428, "Update connected client in GUI stats": the window does not go on
\* showing a client that has left.
LeftIsHidden ==
    \A s \in Server :
        (connected_client = s /\ s \notin client) ~> (connected_client # s \/ s \in client)
=============================================================================
