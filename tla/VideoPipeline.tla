--------------------------- MODULE VideoPipeline ---------------------------
(***************************************************************************)
(* The way of a frame from the screen to the client: the capture thread    *)
(* (crates/dt-capture/src/pipewire.rs), the main loop and the encoder      *)
(* thread (crates/dt-server/src/main.rs:223-567), the three bounded        *)
(* channels between them, and how they stop.  Requests for a keyframe go   *)
(* the other way, from the main loop to the encoder.                       *)
(*                                                                         *)
(* A captured frame is the number of the client that was connected at the  *)
(* time, 0 when there was none; an encoded one also says whether it is a   *)
(* keyframe.  GStreamer is external: it holds up to Latency frames back    *)
(* and may make any frame a keyframe.  Sending a frame over UDP is one     *)
(* step.  MaxClients bounds the clients that connect, MaxErrors the errors *)
(* of the encoder, and Burst the frames that arrive during one pass of the *)
(* main loop: a pass takes a fraction of a millisecond, or a few while it  *)
(* sends, and a frame 1/fps seconds.  Where the loop sends a message to    *)
(* the client over TCP it waits for room in the channel to that client's   *)
(* task (network.rs:157), for as long as that task does not make room;     *)
(* module Session shows when that may be for ever.                         *)
(***************************************************************************)
EXTENDS Naturals, Sequences

CONSTANTS CaptureCap, FrameCap, EncodedCap,     \* the capacities of the channels
          Latency, Burst, MaxClients, MaxErrors

\* main.rs:235-236 create the channels with 1 and 2: what the encoder may still
\* have to hand over when the main loop no longer listens must fit.
ASSUME PipelineAssumption ==
    /\ CaptureCap \in Nat \ {0} /\ FrameCap \in Nat \ {0} /\ EncodedCap \in Nat
    /\ FrameCap + 1 =< EncodedCap
    /\ Latency \in Nat /\ Burst \in Nat
    /\ MaxClients \in Nat /\ MaxErrors \in Nat

VARIABLES
    running,            \* shared with the user interface
    loop,               \* where the main loop is
    client, clients,    \* the connected client, 0 if none; how many there were
    captured, arrived, capturing, stop_flag,    \* the capture thread
    frames, frame_tx,   \* the channel to the encoder, and whether it is open
    encoder,            \* where the encoder thread is
    frame,              \* the frame it has in hand
    encoder_running,
    encoded,            \* the channel from the encoder
    keyframe_requested, keyframe_flag, force_keyframe,
    event,              \* a force-key-unit event waits in GStreamer
    inside,             \* the frames in GStreamer
    errors,             \* how many errors there were
    owed                \* the client asked for a keyframe, was sent none since, and
                        \* GStreamer lost neither the event nor a keyframe

input    == <<captured, arrived, capturing, stop_flag>>
people   == <<client, clients>>
gst      == <<event, inside, errors>>
requests == <<keyframe_requested, keyframe_flag, force_keyframe>>
vars == <<running, loop, people, input, frames, frame_tx, encoder, frame,
          encoder_running, encoded, requests, gst, owed>>

Client  == 1 .. MaxClients
Shot    == 0 .. MaxClients
Encoded == [shot : Shot, key : BOOLEAN]

Sending   == {"ack", "nack", "beat"}    \* the awaits of send_to_client
LoopAt    == {"top", "select", "ack", "nack", "forward", "send", "beat",
              "close", "join", "drop", "done"}
EncoderAt == {"top", "recv", "swap", "encode", "pull", "send", "ended"}

TypeOK ==
    /\ running \in BOOLEAN /\ loop \in LoopAt
    /\ client \in Shot /\ clients \in Shot
    /\ captured \in Seq(Shot) /\ Len(captured) =< CaptureCap
    /\ arrived \in 0 .. Burst
    /\ capturing \in BOOLEAN /\ stop_flag \in BOOLEAN
    /\ frames \in Seq(Shot) /\ Len(frames) =< FrameCap
    /\ frame_tx \in BOOLEAN
    /\ encoder \in EncoderAt
    /\ frame \in Encoded
    /\ encoder_running \in BOOLEAN
    /\ encoded \in Seq(Encoded) /\ Len(encoded) =< EncodedCap
    /\ requests \in BOOLEAN \X BOOLEAN \X BOOLEAN
    /\ event \in BOOLEAN
    /\ inside \in Seq(Encoded)
    /\ errors \in 0 .. MaxErrors
    /\ owed \in BOOLEAN

Init ==
    /\ running = TRUE /\ loop = "top"
    /\ client = 0 /\ clients = 0
    /\ captured = <<>> /\ arrived = 0
    /\ capturing = TRUE /\ stop_flag = FALSE
    /\ frames = <<>> /\ frame_tx = TRUE
    /\ encoder = "top" /\ frame = [shot |-> 0, key |-> FALSE]
    /\ encoder_running = TRUE
    /\ encoded = <<>>
    /\ keyframe_requested = FALSE /\ keyframe_flag = FALSE
    /\ force_keyframe = FALSE
    /\ event = FALSE /\ inside = <<>> /\ errors = 0
    /\ owed = FALSE

---------------------------------------------------------------------------
(* The capture thread and the user interface *)

\* A frame that finds the channel full is lost.
Capture ==
    /\ capturing
    /\ \/ arrived < Burst /\ arrived' = arrived + 1
       \/ loop \in Sending /\ UNCHANGED arrived
    /\ captured' = IF Len(captured) < CaptureCap THEN Append(captured, client)
                   ELSE captured
    /\ UNCHANGED <<running, loop, people, capturing, stop_flag, frames, frame_tx,
                   encoder, frame, encoder_running, encoded, requests, gst, owed>>

CaptureEnds ==
    /\ capturing /\ stop_flag
    /\ capturing' = FALSE
    /\ UNCHANGED <<running, loop, people, captured, arrived, stop_flag, frames,
                   frame_tx, encoder, frame, encoder_running, encoded, requests,
                   gst, owed>>

Stop ==
    /\ running
    /\ running' = FALSE
    /\ UNCHANGED <<loop, people, input, frames, frame_tx, encoder, frame,
                   encoder_running, encoded, requests, gst, owed>>

---------------------------------------------------------------------------
(* The main loop *)

LoopTop ==
    /\ loop = "top"
    /\ loop' = IF running THEN "select" ELSE "close"
    /\ arrived' = 0
    /\ UNCHANGED <<running, people, captured, capturing, stop_flag, frames,
                   frame_tx, encoder, frame, encoder_running, encoded, requests,
                   gst, owed>>

\* Some branch of the select! was taken.
Selected(next) ==
    /\ loop = "select"
    /\ loop' = next
    /\ UNCHANGED <<running, input, frames, frame_tx, encoder, frame,
                   encoder_running, encoded, keyframe_flag, force_keyframe, gst>>

\* A client connects; it takes the place of the one before.
Accept ==
    /\ Selected("forward")
    /\ clients < MaxClients
    /\ clients' = clients + 1
    /\ client' = clients'
    /\ owed' = FALSE
    /\ UNCHANGED keyframe_requested

\* The client asks for a keyframe.
Request ==
    /\ Selected("forward")
    /\ client # 0
    /\ keyframe_requested' = TRUE
    /\ owed' = TRUE
    /\ UNCHANGED people

\* The client says which protocol it speaks and is sent an answer.
Connect ==
    /\ Selected("ack") \/ Selected("nack")
    /\ client # 0
    /\ UNCHANGED <<people, owed, keyframe_requested>>

\* The client leaves, or its connection is found to be closed.
Leave ==
    /\ Selected("forward")
    /\ client # 0
    /\ client' = 0
    /\ owed' = FALSE
    /\ UNCHANGED <<clients, keyframe_requested>>

\* A message that changes nothing here, or the sleep.
Quiet ==
    /\ Selected("forward")
    /\ UNCHANGED <<people, owed, keyframe_requested>>

\* Mutant of PassRequest: the request is only passed on with a frame.
PassRequestWithFrame ==
    /\ keyframe_requested
    /\ keyframe_requested' = FALSE
    /\ keyframe_flag' = (keyframe_flag \/ captured # <<>>)
    /\ UNCHANGED <<frames, running, captured, loop>>

\* The request reaches the encoder's flag before any frame is forwarded.
PassRequest ==
    /\ keyframe_requested
    /\ keyframe_requested' = FALSE
    /\ keyframe_flag' = TRUE
    /\ UNCHANGED <<frames, running, captured, loop>>

\* Mutant of ForwardFrame: a closed channel is taken for a full one.
ForwardFrameAnyway ==
    /\ ~keyframe_requested
    /\ client # 0 /\ captured # <<>>
    /\ captured' = Tail(captured)
    /\ frames' = IF encoder # "ended" /\ Len(frames) < FrameCap
                 THEN Append(frames, Head(captured)) ELSE frames
    /\ UNCHANGED <<running, keyframe_requested, keyframe_flag, loop>>

\* try_send finds the channel full, or finds that the encoder is gone.
ForwardFrame ==
    /\ ~keyframe_requested
    /\ client # 0 /\ captured # <<>>
    /\ captured' = Tail(captured)
    /\ frames' = IF encoder # "ended" /\ Len(frames) < FrameCap
                 THEN Append(frames, Head(captured)) ELSE frames
    /\ running' = (running /\ encoder # "ended")
    /\ UNCHANGED <<keyframe_requested, keyframe_flag, loop>>

\* Mutant of ForwardEnds: a stop is seen before the channel is drained.
ForwardEndsOrStops ==
    /\ ~keyframe_requested
    /\ client = 0 \/ captured = <<>>
    /\ loop' = IF running THEN "send" ELSE "close"
    /\ UNCHANGED <<frames, running, captured, keyframe_requested, keyframe_flag>>

ForwardEnds ==
    /\ ~keyframe_requested
    /\ client = 0 \/ captured = <<>>
    /\ loop' = "send"
    /\ UNCHANGED <<frames, running, captured, keyframe_requested, keyframe_flag>>

Forward ==
    /\ loop = "forward"
    /\ PassRequest \/ ForwardFrame \/ ForwardEnds
    /\ UNCHANGED <<people, arrived, capturing, stop_flag, frame_tx, encoder, frame,
                   encoder_running, encoded, force_keyframe, gst, owed>>

\* One encoded frame is sent, or thrown away when nobody is connected; the loop
\* ends when the channel is empty, and a heartbeat may be due.
Send ==
    /\ loop = "send"
    /\ \/ /\ encoded # <<>>
          /\ encoded' = Tail(encoded)
          /\ owed' = (owed /\ ~Head(encoded).key)
          /\ UNCHANGED loop
       \/ /\ encoded = <<>>
          /\ \/ loop' = "top"
             \/ client # 0 /\ loop' = "beat"
          /\ UNCHANGED <<encoded, owed>>
    /\ UNCHANGED <<running, people, input, frames, frame_tx, encoder, frame,
                   encoder_running, requests, gst>>

\* There is room for the message, or the task that was to make room has ended.  A client
\* of another protocol version is sent off with continue, past the rest of the pass.
Sent ==
    /\ \/ loop = "ack" /\ loop' = "forward" /\ UNCHANGED <<client, owed>>
       \/ loop = "nack" /\ loop' = "top" /\ client' = 0 /\ owed' = FALSE
       \/ loop = "beat" /\ loop' = "top" /\ UNCHANGED <<client, owed>>
    /\ UNCHANGED <<running, clients, input, frames, frame_tx, encoder, frame,
                   encoder_running, encoded, requests, gst>>

\* Mutant of Close: the channel to the encoder stays open.
CloseUndropped ==
    /\ \/ loop = "close" /\ encoder_running' = FALSE /\ loop' = "join"
          /\ UNCHANGED stop_flag
       \/ loop = "join" /\ encoder = "ended" /\ loop' = "drop" /\ stop_flag' = TRUE
          /\ UNCHANGED encoder_running
       \/ loop = "drop" /\ ~capturing /\ loop' = "done"
          /\ UNCHANGED <<encoder_running, stop_flag>>
    /\ UNCHANGED <<running, people, captured, arrived, capturing, frames, frame_tx,
                   encoder, frame, encoded, requests, gst, owed>>

\* drop(frame_tx), then the flag, then join, then the capture is dropped.
Close ==
    /\ \/ loop = "close" /\ frame_tx /\ frame_tx' = FALSE
          /\ UNCHANGED <<loop, encoder_running, stop_flag>>
       \/ loop = "close" /\ ~frame_tx /\ encoder_running' = FALSE /\ loop' = "join"
          /\ UNCHANGED <<frame_tx, stop_flag>>
       \/ loop = "join" /\ encoder = "ended" /\ loop' = "drop" /\ stop_flag' = TRUE
          /\ UNCHANGED <<frame_tx, encoder_running>>
       \/ loop = "drop" /\ ~capturing /\ loop' = "done"
          /\ UNCHANGED <<frame_tx, encoder_running, stop_flag>>
    /\ UNCHANGED <<running, people, captured, arrived, capturing, frames, encoder,
                   frame, encoded, requests, gst, owed>>

Loop == \/ LoopTop \/ Accept \/ Request \/ Connect \/ Leave \/ Quiet
        \/ Forward \/ Send \/ Close

---------------------------------------------------------------------------
(* The encoder thread *)

Error == errors < MaxErrors /\ errors' = errors + 1

EncoderTop ==
    /\ encoder = "top"
    /\ encoder' = IF encoder_running THEN "recv" ELSE "ended"
    /\ UNCHANGED <<frames, frame, encoded, keyframe_flag, force_keyframe, gst, owed>>

\* recv hands out what is left in the channel before it reports that it is closed.
EncoderRecv ==
    /\ encoder = "recv"
    /\ \/ /\ frames # <<>>
          /\ frame' = [shot |-> Head(frames), key |-> FALSE]
          /\ frames' = Tail(frames)
          /\ encoder' = "swap"
       \/ /\ frames = <<>> /\ ~frame_tx
          /\ encoder' = "ended"
          /\ UNCHANGED <<frame, frames>>
    /\ UNCHANGED <<encoded, keyframe_flag, force_keyframe, gst, owed>>

\* Mutant of EncoderSwap: a request that is still pending is overwritten.
EncoderSwapForgets ==
    /\ encoder = "swap"
    /\ force_keyframe' = keyframe_flag
    /\ keyframe_flag' = FALSE
    /\ encoder' = "encode"
    /\ UNCHANGED <<frames, frame, encoded, gst, owed>>

EncoderSwap ==
    /\ encoder = "swap"
    /\ force_keyframe' = (force_keyframe \/ keyframe_flag)
    /\ keyframe_flag' = FALSE
    /\ encoder' = "encode"
    /\ UNCHANGED <<frames, frame, encoded, gst, owed>>

\* encode fails before it looks at the request, or its thread panics on the frame.
EncodeFails ==
    /\ encoder = "encode"
    /\ Error
    /\ encoder' \in {"top", "ended"}
    /\ UNCHANGED <<frames, frame, encoded, keyframe_flag, force_keyframe, event,
                   inside, owed>>

\* GStreamer takes the event that asks for a keyframe, or refuses it, which is
\* only logged; e says whether an event is ahead of the frame that follows.
SendEvent(e) ==
    \/ e = (event \/ force_keyframe) /\ UNCHANGED <<errors, owed>>
    \/ force_keyframe /\ Error /\ e = event /\ owed' = FALSE

\* The frame is refused, after the event was sent.
PushFails ==
    /\ encoder = "encode"
    /\ force_keyframe' = FALSE
    /\ Error
    /\ \/ event' = (event \/ force_keyframe) /\ UNCHANGED owed
       \/ force_keyframe /\ UNCHANGED event /\ owed' = FALSE
    /\ encoder' = "top"
    /\ UNCHANGED <<frames, frame, encoded, keyframe_flag, inside>>

\* The frame is pushed, a keyframe if the event is ahead of it.
Encode ==
    /\ encoder = "encode"
    /\ force_keyframe' = FALSE
    /\ event' = FALSE
    /\ \E e, key \in BOOLEAN :
         /\ SendEvent(e)
         /\ e => key
         /\ inside' = Append(inside, [shot |-> frame.shot, key |-> key])
    /\ encoder' = "pull"
    /\ UNCHANGED <<frames, frame, encoded, keyframe_flag>>

\* At most one encoded frame is pulled; a sample without a readable buffer is an
\* error.
Pull ==
    /\ encoder = "pull"
    /\ \/ /\ Len(inside) =< Latency
          /\ encoder' = "top"
          /\ UNCHANGED <<frame, inside, errors, owed>>
       \/ /\ inside # <<>>
          /\ frame' = Head(inside)
          /\ inside' = Tail(inside)
          /\ encoder' = "send"
          /\ UNCHANGED <<errors, owed>>
       \/ /\ inside # <<>>
          /\ Error
          /\ inside' = Tail(inside)
          /\ owed' = (owed /\ ~Head(inside).key)
          /\ encoder' = "top"
          /\ UNCHANGED frame
    /\ UNCHANGED <<frames, encoded, keyframe_flag, force_keyframe, event>>

\* The send blocks while the channel is full.
EncoderSend ==
    /\ encoder = "send"
    /\ Len(encoded) < EncodedCap
    /\ encoded' = Append(encoded, frame)
    /\ encoder' = "top"
    /\ UNCHANGED <<frames, frame, keyframe_flag, force_keyframe, gst, owed>>

Encoder ==
    /\ \/ EncoderTop \/ EncoderRecv \/ EncoderSwap
       \/ EncodeFails \/ PushFails \/ Encode \/ Pull \/ EncoderSend
    /\ UNCHANGED <<running, loop, people, input, frame_tx, encoder_running,
                   keyframe_requested>>

---------------------------------------------------------------------------
Next == Capture \/ CaptureEnds \/ Stop \/ Loop \/ Sent \/ Encoder

Spec == Init /\ [][Next]_vars

\* Both threads are scheduled, and the compositor keeps delivering frames.  Nothing is
\* assumed of the tasks that make room for messages.
FairSpec ==
    /\ Spec
    /\ WF_vars(Loop) /\ WF_vars(Encoder)
    /\ WF_vars(Capture) /\ WF_vars(CaptureEnds)

---------------------------------------------------------------------------
(* Properties *)

\* What the encoder has between recv and the next turn of its loop.
InHand == IF encoder \in {"swap", "encode", "pull", "send"} THEN 1 ELSE 0

\* When the main loop waits for the encoder thread and reads the channel no more
\* (main.rs:559-562), the encoder is not blocked in a send into a full channel.
JoinSafe == loop = "join" => ~(encoder = "send" /\ Len(encoded) >= EncodedCap)

\* A client's request for a keyframe is in one of the flags it passes through
\* (main.rs:342, 437, 253, vaapi.rs:297), or a keyframe is on its way out.
Keys(s) == \E i \in DOMAIN s : s[i].key
RequestKept ==
    owed => \/ keyframe_requested \/ keyframe_flag \/ force_keyframe \/ event
            \/ Keys(inside) \/ Keys(encoded)
            \/ encoder = "send" /\ frame.key

\* The main loop never waits for ever to send a message to a client.
Unblocked == []<>(loop \notin Sending)

\* Once the server is told to stop, both its threads end, unless the main loop waits for
\* a client's task for ever: then it never comes back to its test (main.rs:302, 556-564).
StopEnds == Unblocked => (~running ~> loop = "done")

\* A client that asks for a keyframe is sent one, unless it leaves, the server
\* stops, GStreamer loses it or the main loop waits for a client's task for ever,
\* whatever frames could not be encoded on the way.
KeyframeServed == Unblocked => ((owed /\ running) ~> (~owed \/ ~running))

\* With a client connected the server does not go on without its encoder thread:
\* the closed channel stops it (main.rs:451-453), unless the main loop waits for a
\* client's task for ever.
DeadEncoderStops ==
    Unblocked => ((encoder = "ended" /\ client # 0) ~> (client = 0 \/ ~running))
=============================================================================
