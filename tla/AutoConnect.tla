---------------------------- MODULE AutoConnect ----------------------------
(***************************************************************************)
(* How the app chooses its client (MainActivity.kt:57-136, 138-170): the   *)
(* effects of DrawingTabletApp that connect by themselves and that watch   *)
(* the connection, the composition that launches them, the screen with the *)
(* list of servers, and what a NetworkClient shows of itself               *)
(* (NetworkClient.kt:92-163, 168-180, 435-438).                            *)
(*                                                                         *)
(* The main thread runs what was launched in order, `queue`, and composes  *)
(* again when that is empty and something it read has changed.  A          *)
(* composition launches the effects whose keys have changed, in the order  *)
(* of the source.  Connections are made and lost on other threads.         *)
(*                                                                         *)
(* A client that is closed or has failed, and that nothing refers to any   *)
(* more, may stand for a new one.  The other servers matter only because   *)
(* the list changes with them: `servers` says whether the remembered one   *)
(* and another one are listed.                                             *)
(***************************************************************************)
EXTENDS Naturals, Sequences

CONSTANTS Client,       \* the clients that can be alive at the same time
          None,
          MaxDisconnects        \* 3, where auto-connect is disabled

ASSUME AutoAssumption == None \notin Client /\ MaxDisconnects \in Nat \ {0}

VARIABLES
    state,              \* the connection state of a client
    currentClient, client,      \* the state of the composition, the field
    servers, remembered, shouldAutoConnect, disconnectCount,
    composed,           \* what the last composition read
    watching,           \* a watch effect waits for the connection to be stable
    queue,              \* what was launched on the main thread
    tries               \* automatic connects since the user or the time reset them

prefs == <<remembered, shouldAutoConnect>>
held  == <<currentClient, client>>
ui    == <<composed, watching, queue>>
vars  == <<state, held, servers, prefs, disconnectCount, ui, tries>>

Shown  == {"Disconnected", "Connecting", "Connected", "Error"}
State  == Shown \cup {"closed", "abandoned"}
Server == {"saved", "other"}
Task   == {"auto", "watch"} \cup Client

TypeOK ==
    /\ state \in [Client -> State]
    /\ currentClient \in Client \cup {None} /\ client \in Client \cup {None}
    /\ servers \subseteq Server
    /\ remembered \in BOOLEAN /\ shouldAutoConnect \in BOOLEAN
    /\ disconnectCount \in 0 .. MaxDisconnects - 1
    /\ composed \in [servers : SUBSET Server, client : Client \cup {None}, state : Shown]
    /\ watching \in BOOLEAN
    /\ queue \in Seq(Task)
    /\ tries \in Nat

\* What a composition collects from a client; close leaves it Disconnected.
Open(c)    == c # None /\ state[c] \in Shown
StateOf(c) == IF Open(c) THEN state[c] ELSE "Disconnected"

Seen == [servers |-> servers, client |-> currentClient, state |-> StateOf(currentClient)]

\* The app starts with what it remembers; the first composition launches both.
Init ==
    /\ state = [c \in Client |-> "closed"]
    /\ currentClient = None /\ client = None
    /\ servers = {}
    /\ remembered \in BOOLEAN /\ shouldAutoConnect \in BOOLEAN
    /\ disconnectCount = 0
    /\ composed = [servers |-> {}, client |-> None, state |-> "Disconnected"]
    /\ watching = FALSE
    /\ queue = <<"auto", "watch">>
    /\ tries = 0

---------------------------------------------------------------------------
(* The main thread *)

\* Mutant of Compose: the connection is watched by its client only.
ComposeByClient ==
    /\ queue = <<>>
    /\ composed # Seen
    /\ composed' = Seen
    /\ queue' = (IF <<servers, currentClient>> # <<composed.servers, composed.client>>
                 THEN <<"auto">> ELSE <<>>)
                  \o (IF currentClient # composed.client THEN <<"watch">> ELSE <<>>)
    /\ watching' = (watching /\ Seen.state = composed.state)
    /\ UNCHANGED <<state, held, servers, prefs, disconnectCount, tries>>

\* An effect is launched again when a key of it has changed; the old one is cancelled.
Compose ==
    /\ queue = <<>>
    /\ composed # Seen
    /\ composed' = Seen
    /\ queue' = (IF <<servers, currentClient>> # <<composed.servers, composed.client>>
                 THEN <<"auto">> ELSE <<>>)
                  \o (IF Seen.state # composed.state THEN <<"watch">> ELSE <<>>)
    /\ watching' = (watching /\ Seen.state = composed.state)
    /\ UNCHANGED <<state, held, servers, prefs, disconnectCount, tries>>

\* Nothing refers to the client, and it does nothing.
Unused(c) ==
    /\ state[c] \in {"closed", "Error"}
    /\ c \notin {currentClient, client, composed.client}
    /\ \A i \in DOMAIN queue : queue[i] # c

\* close while connect waits for the socket finds none to close.
AfterClose(s) == IF s = "Connecting" THEN {"closed", "abandoned"} ELSE {"closed"}

\* Mutant of ConnectTo: the current client is closed when the new one has taken its
\* place.
ConnectToSwapped(q) ==
    \E c \in Client :
       /\ Unused(c)
       /\ state' = [state EXCEPT ![c] = "closed"]
       /\ currentClient' = c /\ client' = c
       /\ queue' = Append(q, c)

\* connectTo: the current client is closed, a new one takes its place and connects.
ConnectTo(q) ==
    \E c \in Client :
       /\ Unused(c)
       /\ \/ currentClient = None /\ state' = [state EXCEPT ![c] = "Disconnected"]
          \/ /\ currentClient # None
             /\ \E s \in AfterClose(state[currentClient]) :
                   state' = [state EXCEPT ![currentClient] = s, ![c] = "Disconnected"]
       /\ currentClient' = c /\ client' = c
       /\ queue' = Append(q, c)

Automatic == currentClient = None /\ shouldAutoConnect /\ remembered /\ "saved" \in servers

\* The effect that connects by itself.
ConnectAuto ==
    /\ queue # <<>> /\ Head(queue) = "auto"
    /\ \/ Automatic /\ ConnectTo(Tail(queue)) /\ tries' = tries + 1
       \/ ~Automatic /\ queue' = Tail(queue) /\ UNCHANGED <<state, held, tries>>
    /\ UNCHANGED <<servers, prefs, disconnectCount, composed, watching>>

\* The state of the client that was composed, as far as it has been collected.
Collected == {composed.state, StateOf(composed.client)}

\* The connection of a client has failed, was lost, or was not made yet: it is given
\* up, and with the third in a row auto-connect is disabled.
Disconnected ==
    /\ currentClient' = None
    /\ disconnectCount' = (disconnectCount + 1) % MaxDisconnects
    /\ shouldAutoConnect' = (shouldAutoConnect /\ disconnectCount' # 0)

\* Mutant of Watch: a connection counts as stable when it is made.
WatchHasty ==
    /\ queue # <<>> /\ Head(queue) = "watch"
    /\ queue' = Tail(queue)
    /\ \E s \in Collected :
         \/ /\ s = "Connected"
            /\ disconnectCount' = 0
            /\ UNCHANGED <<currentClient, shouldAutoConnect, watching>>
         \/ /\ s \in {"Disconnected", "Error"} /\ currentClient # None
            /\ Disconnected /\ UNCHANGED watching
         \/ /\ s \in {"Disconnected", "Error"} => currentClient = None
            /\ s # "Connected"
            /\ UNCHANGED <<currentClient, disconnectCount, shouldAutoConnect, watching>>
    /\ UNCHANGED <<state, client, servers, remembered, composed, tries>>

\* The effect that watches the connection.
Watch ==
    /\ queue # <<>> /\ Head(queue) = "watch"
    /\ queue' = Tail(queue)
    /\ \E s \in Collected :
         \/ /\ s = "Connected"
            /\ watching' = TRUE
            /\ UNCHANGED <<currentClient, disconnectCount, shouldAutoConnect>>
         \/ /\ s \in {"Disconnected", "Error"} /\ currentClient # None
            /\ Disconnected /\ UNCHANGED watching
         \/ /\ s \in {"Disconnected", "Error"} => currentClient = None
            /\ s # "Connected"
            /\ UNCHANGED <<currentClient, disconnectCount, shouldAutoConnect, watching>>
    /\ UNCHANGED <<state, client, servers, remembered, composed, tries>>

\* The coroutine of connectTo: connect starts, also when the client was closed.
Connect ==
    /\ queue # <<>> /\ Head(queue) \in Client
    /\ queue' = Tail(queue)
    /\ state' = [state EXCEPT ![Head(queue)] = "Connecting"]
    /\ UNCHANGED <<held, servers, prefs, disconnectCount, composed, watching, tries>>

\* The connection has been composed as connected for five seconds.
Stable ==
    /\ watching
    /\ watching' = FALSE
    /\ disconnectCount' = 0 /\ tries' = 0
    /\ UNCHANGED <<state, held, servers, prefs, composed, queue>>

\* The user taps a server of the list.
Tap(remember) ==
    /\ composed.state \in {"Disconnected", "Error"} /\ composed.servers # {}
    /\ shouldAutoConnect' = remember
    /\ remembered' = (remembered \/ remember)
    /\ ConnectTo(queue)
    /\ tries' = 0
    /\ UNCHANGED <<servers, disconnectCount, composed, watching>>

Trying(c) == state[c] \in {"Connecting", "abandoned"}

\* onDestroy closes the client of the field; the composition goes, and with it the
\* coroutines in which its clients connect.  The app is opened again.
Destroy ==
    /\ state' = [c \in Client |->
                   IF Trying(c) \/ c = client THEN "closed" ELSE
                   IF \E i \in DOMAIN queue : queue[i] = c THEN "closed" ELSE state[c]]
    /\ currentClient' = None /\ client' = None
    /\ servers' = {}
    /\ disconnectCount' = 0
    /\ composed' = [servers |-> {}, client |-> None, state |-> "Disconnected"]
    /\ watching' = FALSE /\ queue' = <<"auto", "watch">>
    /\ tries' = 0
    /\ UNCHANGED prefs

---------------------------------------------------------------------------
(* Other threads *)

Connected(c) ==
    /\ Trying(c)
    /\ state' = [state EXCEPT ![c] = "Connected"]
    /\ UNCHANGED <<held, servers, prefs, disconnectCount, ui, tries>>

\* The connect fails, or the connection is lost.
Fails(c) ==
    /\ Trying(c) \/ state[c] = "Connected"
    /\ state' = [state EXCEPT ![c] = "Error"]
    /\ UNCHANGED <<held, servers, prefs, disconnectCount, ui, tries>>

\* A server was resolved or lost.
Discover ==
    /\ \E s \in Server : servers' = servers \cup {s} \/ servers' = servers \ {s}
    /\ servers' # servers
    /\ UNCHANGED <<state, held, prefs, disconnectCount, ui, tries>>

---------------------------------------------------------------------------
Main == Compose \/ ConnectAuto \/ Watch \/ Connect

Next ==
    \/ Main \/ Stable \/ Destroy \/ Discover
    \/ \E r \in BOOLEAN : Tap(r)
    \/ \E c \in Client : Connected(c) \/ Fails(c)

Spec == Init /\ [][Next]_vars

\* The main thread runs, and an attempt to connect has a timeout.
FairSpec ==
    /\ Spec
    /\ WF_vars(Main)
    /\ \A c \in Client : WF_vars(Trying(c) /\ (Connected(c) \/ Fails(c)))

---------------------------------------------------------------------------
(* Properties *)

\* The app does not go on connecting by itself to a server that fails, or accepts and
\* drops it, time and again: without the user and without a connection that was
\* stable it makes at most MaxDisconnects attempts (MainActivity.kt:74, 119-121).
LoopEnds == tries =< MaxDisconnects

\* The client the app uses was not closed behind its back (MainActivity.kt:79-84).
CurrentIsOpen == currentClient # None => Open(currentClient)

\* A connection that fails after it was shown being made, or made, is given up, so
\* that the app can connect again (MainActivity.kt:107-135).
ErrorIsNoticed ==
    \A c \in Client :
        /\ currentClient = c /\ state[c] = "Error"
        /\ composed.client = c /\ composed.state # "Error"
        ~> currentClient # c

\* A connection to the remembered server, listed all the time, was shown and is lost.
LostWhileListed(c) ==
    /\ currentClient = c /\ state[c] = "Error"
    /\ composed = [servers |-> {"saved"}, client |-> c, state |-> "Connected"]
    /\ servers = {"saved"} /\ remembered /\ shouldAutoConnect

\* MainActivity.kt:129-130, "Reset client to allow retry (if not disabled)", "This
\* enables the "Auto-reconnect" behavior": then the app connects again with a client
\* it uses, unless the list changes, auto-connect is disabled or the user does it.
Reconnects ==
    \A c \in Client : LostWhileListed(c) ~>
        \/ currentClient # None /\ state[currentClient] \in {"Connecting", "Connected"}
        \/ servers # {"saved"} \/ ~shouldAutoConnect
        \/ currentClient # None /\ tries = 0
=============================================================================
