------------------------- MODULE AutoConnectProofs -------------------------
(***************************************************************************)
(* Proofs about AutoConnect, for every set of clients and every number of  *)
(* disconnects: types, that the client the app uses is open, and that the  *)
(* app stops connecting by itself.                                         *)
(***************************************************************************)
EXTENDS AutoConnect, SequenceTheorems, TLAPS

Inv == TypeOK /\ CurrentIsOpen

LEMMA TypeFacts ==
    ASSUME TypeOK
    PROVE  /\ state \in [Client -> State]
           /\ currentClient \in Client \cup {None} /\ client \in Client \cup {None}
           /\ servers \subseteq Server
           /\ disconnectCount \in 0 .. MaxDisconnects - 1
           /\ queue \in Seq(Task) /\ tries \in Nat
           /\ MaxDisconnects \in Nat \ {0} /\ None \notin Client
  BY AutoAssumption DEF TypeOK

\* The count starts again with the last disconnect and else goes on.
LEMMA CountFacts ==
    ASSUME NEW n \in 0 .. MaxDisconnects - 1
    PROVE  (n + 1) % MaxDisconnects = IF n + 1 = MaxDisconnects THEN 0 ELSE n + 1
  <1>1. MaxDisconnects \in Nat \ {0} /\ n \in Nat /\ n + 1 =< MaxDisconnects
    BY AutoAssumption
  <1>2. CASE n + 1 = MaxDisconnects
    BY <1>1, <1>2
  <1>3. CASE n + 1 < MaxDisconnects
    BY <1>1, <1>3
  <1> QED
    BY <1>1, <1>2, <1>3

\* What a composition reads.
LEMMA SeenType ==
    ASSUME TypeOK
    PROVE  Seen \in [servers : SUBSET Server, client : Client \cup {None}, state : Shown]
  <1>1. StateOf(currentClient) \in Shown
    BY DEF StateOf, Open, Shown
  <1> QED
    BY <1>1, TypeFacts DEF Seen

\* A task that is taken from the queue or added to it.
LEMMA QueueFacts ==
    ASSUME NEW q \in Seq(Task)
    PROVE  /\ q # <<>> => Tail(q) \in Seq(Task)
           /\ \A c \in Client : Append(q, c) \in Seq(Task)
  <1>1. Client \subseteq Task
    BY DEF Task
  <1> QED
    BY <1>1, HeadTailProperties, AppendProperties

\* A new client takes the place of the current one: the old one is closed or given up
\* on, and every other one is left as it is.
LEMMA ConnectToFacts ==
    ASSUME TypeOK, NEW q \in Seq(Task), ConnectTo(q)
    PROVE  /\ state' \in [Client -> State] /\ queue' \in Seq(Task)
           /\ currentClient' \in Client /\ client' = currentClient'
           /\ state'[currentClient'] = "Disconnected"
  <1>1. PICK c \in Client :
           /\ Unused(c)
           /\ \/ currentClient = None /\ state' = [state EXCEPT ![c] = "Disconnected"]
              \/ /\ currentClient # None
                 /\ \E s \in AfterClose(state[currentClient]) :
                       state' = [state EXCEPT ![currentClient] = s, ![c] = "Disconnected"]
           /\ currentClient' = c /\ client' = c
           /\ queue' = Append(q, c)
    BY DEF ConnectTo
  <1>2. \A s : AfterClose(s) \subseteq State
    BY DEF AfterClose, State
  <1>3. "Disconnected" \in State
    BY DEF State, Shown
  <1>4. state' \in [Client -> State] /\ state'[c] = "Disconnected"
    BY <1>1, <1>2, <1>3, TypeFacts
  <1> QED
    BY <1>1, <1>4, QueueFacts

LEMMA InitInv == Init => Inv
  <1> SUFFICES ASSUME Init PROVE Inv
    OBVIOUS
  <1>1. queue \in Seq(Task)
    <2>1. "auto" \in Task /\ "watch" \in Task
      BY DEF Task
    <2> QED
      BY <2>1 DEF Init
  <1>2. state \in [Client -> State]
    BY DEF Init, State
  <1>3. 0 \in 0 .. MaxDisconnects - 1 /\ 0 \in Nat
    BY AutoAssumption
  <1> QED
    BY <1>1, <1>2, <1>3 DEF Init, Inv, TypeOK, CurrentIsOpen, Shown

\* Each step of the main thread keeps Inv, ...
LEMMA MainInv ==
    ASSUME Inv, Main
    PROVE  Inv'
  <1> USE DEF Inv
  <1>1. CASE Compose
    <2>1. queue' \in Seq(Task)
      <3>1. /\ <<>> \in Seq(Task) /\ <<"auto">> \in Seq(Task) /\ <<"watch">> \in Seq(Task)
        BY DEF Task
      <3>2. \A a, b \in Seq(Task) : a \o b \in Seq(Task)
        BY ConcatProperties
      <3> QED
        BY <1>1, <3>1, <3>2 DEF Compose
    <2>2. composed' \in [servers : SUBSET Server, client : Client \cup {None}, state : Shown]
      BY <1>1, SeenType DEF Compose
    <2> QED
      BY <1>1, <2>1, <2>2 DEF Compose, held, prefs, TypeOK, CurrentIsOpen, Open
  <1>2. CASE ConnectAuto
    <2>1. queue \in Seq(Task) /\ Tail(queue) \in Seq(Task)
      BY <1>2, TypeFacts, QueueFacts DEF ConnectAuto
    <2>2. CASE Automatic /\ ConnectTo(Tail(queue)) /\ tries' = tries + 1
      <3>1. tries' \in Nat /\ "Disconnected" \in Shown
        BY <2>2, TypeFacts DEF Shown
      <3> QED
        BY <1>2, <2>1, <2>2, <3>1, ConnectToFacts
        DEF ConnectAuto, prefs, TypeOK, CurrentIsOpen, Open
    <2>3. CASE queue' = Tail(queue) /\ UNCHANGED <<state, held, tries>>
      BY <1>2, <2>1, <2>3 DEF ConnectAuto, held, prefs, TypeOK, CurrentIsOpen, Open
    <2> QED
      BY <1>2, <2>2, <2>3 DEF ConnectAuto
  <1>3. CASE Watch
    <2>1. /\ queue' \in Seq(Task)
          /\ UNCHANGED <<state, client, servers, remembered, composed, tries>>
      BY <1>3, TypeFacts, QueueFacts DEF Watch
    <2>2. /\ currentClient' \in {currentClient, None}
          /\ disconnectCount' \in 0 .. MaxDisconnects - 1
          /\ shouldAutoConnect' \in BOOLEAN /\ watching' \in BOOLEAN
      <3>1. CASE Disconnected /\ UNCHANGED watching
        <4>1. disconnectCount' \in 0 .. MaxDisconnects - 1
          BY <3>1, CountFacts, TypeFacts DEF Disconnected
        <4> QED
          BY <3>1, <4>1 DEF Disconnected, TypeOK
      <3>2. CASE /\ UNCHANGED <<currentClient, disconnectCount, shouldAutoConnect>>
                 /\ watching' \in {watching, TRUE}
        BY <3>2 DEF TypeOK
      <3> QED
        BY <1>3, <3>1, <3>2 DEF Watch
    <2> QED
      BY <2>1, <2>2 DEF TypeOK, CurrentIsOpen, Open
  <1>4. CASE Connect
    <2>1. /\ queue' \in Seq(Task)
          /\ UNCHANGED <<held, servers, prefs, disconnectCount, composed, watching, tries>>
      BY <1>4, TypeFacts, QueueFacts DEF Connect
    <2>2. PICK c \in Client : state' = [state EXCEPT ![c] = "Connecting"]
      BY <1>4 DEF Connect
    <2>3. state' \in [Client -> State] /\ CurrentIsOpen'
      BY <2>1, <2>2, TypeFacts DEF held, State, Shown, CurrentIsOpen, Open
    <2> QED
      BY <2>1, <2>3 DEF held, prefs, TypeOK
  <1> QED
    BY <1>1, <1>2, <1>3, <1>4 DEF Main

\* ... and so does all that the user, the time and the other threads do.
LEMMA NextInv == Inv /\ [Next]_vars => Inv'
  <1> SUFFICES ASSUME Inv, [Next]_vars PROVE Inv'
    OBVIOUS
  <1> USE DEF Inv
  <1>1. CASE Stable
    <2>1. 0 \in 0 .. MaxDisconnects - 1 /\ 0 \in Nat
      BY AutoAssumption
    <2> QED
      BY <1>1, <2>1 DEF Stable, held, prefs, TypeOK, CurrentIsOpen, Open
  <1>2. CASE Destroy
    <2>1. state' \in [Client -> State]
      BY <1>2, TypeFacts DEF Destroy, State
    <2>2. queue' \in Seq(Task)
      <3>1. "auto" \in Task /\ "watch" \in Task
        BY DEF Task
      <3> QED
        BY <1>2, <3>1 DEF Destroy
    <2>3. 0 \in 0 .. MaxDisconnects - 1
      BY AutoAssumption
    <2> QED
      BY <1>2, <2>1, <2>2, <2>3 DEF Destroy, prefs, TypeOK, CurrentIsOpen, Shown
  <1>3. CASE Discover
    BY <1>3 DEF Discover, held, prefs, ui, TypeOK, CurrentIsOpen, Open
  <1>4. ASSUME NEW r \in BOOLEAN, Tap(r) PROVE Inv'
    <2>1. /\ state' \in [Client -> State] /\ queue' \in Seq(Task)
          /\ currentClient' \in Client /\ client' = currentClient'
          /\ state'[currentClient'] = "Disconnected"
      BY <1>4, TypeFacts, ConnectToFacts DEF Tap
    <2> QED
      BY <1>4, <2>1 DEF Tap, TypeOK, CurrentIsOpen, Open, Shown
  <1>5. ASSUME NEW c \in Client, Connected(c) \/ Fails(c) PROVE Inv'
    <2>1. PICK s \in {"Connected", "Error"} : state' = [state EXCEPT ![c] = s]
      BY <1>5 DEF Connected, Fails
    <2>2. UNCHANGED <<held, servers, prefs, disconnectCount, ui, tries>>
      BY <1>5 DEF Connected, Fails
    <2>3. state' \in [Client -> State] /\ CurrentIsOpen'
      BY <2>1, <2>2, TypeFacts DEF held, State, Shown, CurrentIsOpen, Open
    <2> QED
      BY <2>2, <2>3 DEF held, prefs, ui, TypeOK
  <1>6. CASE UNCHANGED vars
    BY <1>6 DEF vars, held, prefs, ui, TypeOK, CurrentIsOpen, Open
  <1> QED
    BY <1>1, <1>2, <1>3, <1>4, <1>5, <1>6, MainInv DEF Next

LEMMA Invariant == Spec => []Inv
  BY InitInv, NextInv, PTL DEF Spec

\* Every variable keeps its type, whatever the threads do.
THEOREM TypeCorrect == Spec => []TypeOK
  BY Invariant, PTL DEF Inv

\* The client the app uses is never one it has closed: a client that is given up on in
\* the middle of connecting is never taken up again (MainActivity.kt:79-84).
THEOREM OpenCorrect == Spec => []CurrentIsOpen
  BY Invariant, PTL DEF Inv

---------------------------------------------------------------------------
(* The app stops connecting by itself *)

\* As long as auto-connect is enabled each attempt but that of the current client was
\* counted as a disconnect.
LoopInv ==
    /\ tries =< MaxDisconnects
    /\ shouldAutoConnect =>
          /\ tries =< disconnectCount + 1
          /\ currentClient = None => tries =< disconnectCount

LEMMA NextLoop == Inv /\ LoopInv /\ [Next]_vars => LoopInv'
  <1> SUFFICES ASSUME Inv, LoopInv, [Next]_vars PROVE LoopInv'
    OBVIOUS
  <1>t. /\ disconnectCount \in Nat /\ tries \in Nat /\ MaxDisconnects \in Nat \ {0}
        /\ disconnectCount + 1 =< MaxDisconnects
    BY TypeFacts DEF Inv
  <1>1. CASE UNCHANGED <<currentClient, shouldAutoConnect, disconnectCount, tries>>
    BY <1>1 DEF LoopInv
  <1>2. CASE tries' = 0 /\ disconnectCount' \in {0, disconnectCount}
    <2>1. disconnectCount' \in Nat
      BY <1>t, <1>2
    <2>2. tries' = 0 /\ 0 =< MaxDisconnects
      BY <1>t, <1>2
    <2>3. 0 =< disconnectCount' /\ 0 =< disconnectCount' + 1
      <3>1. \A n \in Nat : 0 =< n /\ 0 =< n + 1
        OBVIOUS
      <3> QED
        BY <2>1, <3>1
    <2> QED
      BY <2>2, <2>3 DEF LoopInv
  <1>3. CASE ConnectAuto
    <2>1. CASE Automatic /\ ConnectTo(Tail(queue)) /\ tries' = tries + 1
      <3>1. tries =< disconnectCount /\ UNCHANGED disconnectCount
        BY <1>3, <2>1 DEF ConnectAuto, Automatic, LoopInv
      <3>2. currentClient' # None
        BY <2>1, AutoAssumption DEF ConnectTo
      <3> QED
        BY <1>t, <2>1, <3>1, <3>2 DEF LoopInv
    <2>2. CASE UNCHANGED <<state, held, tries>>
      BY <1>1, <1>3, <2>2 DEF ConnectAuto, held, prefs
    <2> QED
      BY <1>3, <2>1, <2>2 DEF ConnectAuto
  <1>4. CASE Watch
    <2>1. CASE currentClient # None /\ Disconnected /\ UNCHANGED tries
      <3>1. /\ currentClient' = None
            /\ disconnectCount' = IF disconnectCount + 1 = MaxDisconnects THEN 0
                                  ELSE disconnectCount + 1
            /\ shouldAutoConnect' => shouldAutoConnect /\ disconnectCount' # 0
        BY <2>1, CountFacts, TypeFacts DEF Disconnected, Inv
      <3>2. shouldAutoConnect' => disconnectCount' = disconnectCount + 1
        BY <3>1
      <3> QED
        BY <1>t, <2>1, <3>1, <3>2 DEF LoopInv
    <2>2. CASE UNCHANGED <<currentClient, disconnectCount, shouldAutoConnect, tries>>
      BY <1>1, <2>2
    <2> QED
      BY <1>4, <2>1, <2>2 DEF Watch
  <1>5. Compose \/ Connect \/ Discover \/ (\E c \in Client : Connected(c) \/ Fails(c))
           \/ UNCHANGED vars
        => UNCHANGED <<currentClient, shouldAutoConnect, disconnectCount, tries>>
    BY DEF Compose, Connect, Discover, Connected, Fails, vars, held, prefs
  <1>6. Stable \/ Destroy \/ (\E r \in BOOLEAN : Tap(r))
        => tries' = 0 /\ disconnectCount' \in {0, disconnectCount}
    BY DEF Stable, Destroy, Tap
  <1> QED
    BY <1>1, <1>2, <1>3, <1>4, <1>5, <1>6 DEF Next, Main

\* Without the user and without a stable connection the app makes at most
\* MaxDisconnects attempts, whatever servers come and go and however the connections
\* fail (MainActivity.kt:74, 119-121).
THEOREM LoopCorrect == Spec => []LoopEnds
  <1>1. Init => LoopInv
    BY AutoAssumption DEF Init, LoopInv
  <1>2. LoopInv => LoopEnds
    BY DEF LoopInv, LoopEnds
  <1> QED
    BY <1>1, <1>2, Invariant, NextLoop, PTL DEF Spec
=============================================================================
