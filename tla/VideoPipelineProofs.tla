------------------------ MODULE VideoPipelineProofs ------------------------
(***************************************************************************)
(* Proofs about the video pipeline, for every capacity of its channels:    *)
(* types, that the shutdown does not deadlock, and that a request for a    *)
(* keyframe is not forgotten.                                              *)
(***************************************************************************)
EXTENDS VideoPipeline, SequenceTheorems, TLAPS

LEMMA TypeInit == Init => TypeOK
<1> SUFFICES ASSUME Init
             PROVE  TypeOK
    OBVIOUS
<1>1. 0 \in Shot
    BY PipelineAssumption DEF Shot
<1>2. frame \in Encoded
    BY <1>1 DEF Init, Encoded
<1>3. 0 \in 0 .. Burst /\ 0 \in 0 .. MaxErrors
    BY PipelineAssumption
<1>4. /\ captured \in Seq(Shot) /\ Len(captured) =< CaptureCap
      /\ frames \in Seq(Shot) /\ Len(frames) =< FrameCap
      /\ encoded \in Seq(Encoded) /\ Len(encoded) =< EncodedCap
      /\ inside \in Seq(Encoded)
    BY PipelineAssumption DEF Init
<1>5. requests \in BOOLEAN \X BOOLEAN \X BOOLEAN
    BY DEF Init, requests
<1> QED
    BY <1>1, <1>2, <1>3, <1>4, <1>5 DEF Init, TypeOK, LoopAt, EncoderAt

\* The steps of the capture thread, the user interface and the main loop.
LEMMA TypeLoop == TypeOK /\ (Capture \/ CaptureEnds \/ Stop \/ Loop \/ Sent) => TypeOK'
<1> SUFFICES ASSUME TypeOK, Capture \/ CaptureEnds \/ Stop \/ Loop \/ Sent
             PROVE  TypeOK'
    OBVIOUS
<1> USE PipelineAssumption DEF TypeOK, requests, gst, people, input
<1>1. CASE Capture
    <2>1. client \in Shot /\ arrived' \in 0 .. Burst
        BY <1>1 DEF Capture
    <2>2. CASE captured' = captured
        BY <1>1, <2>1, <2>2 DEF Capture
    <2>3. CASE Len(captured) < CaptureCap /\ captured' = Append(captured, client)
        <3>1. captured' \in Seq(Shot) /\ Len(captured') = Len(captured) + 1
            BY <2>1, <2>3
        <3>2. Len(captured') =< CaptureCap
            BY <2>3, <3>1
        <3> QED  BY <1>1, <2>1, <3>1, <3>2 DEF Capture
    <2> QED  BY <1>1, <2>2, <2>3 DEF Capture
<1>2. CASE CaptureEnds
    BY <1>2 DEF CaptureEnds
<1>11. CASE Stop
    BY <1>11 DEF Stop
<1>3. CASE LoopTop
    <2>1. loop' \in LoopAt /\ arrived' \in 0 .. Burst
        BY <1>3 DEF LoopTop, LoopAt
    <2> QED  BY <1>3, <2>1 DEF LoopTop
<1>4. CASE Accept
    <2>1. client' \in Shot /\ clients' \in Shot
        BY <1>4 DEF Accept, Shot
    <2>2. loop' \in LoopAt
        BY <1>4 DEF Accept, Selected, LoopAt
    <2> QED  BY <1>4, <2>1, <2>2 DEF Accept, Selected
<1>5. CASE Request \/ Connect \/ Quiet
    <2>1. loop' \in LoopAt
        BY <1>5 DEF Request, Connect, Quiet, Selected, LoopAt
    <2> QED  BY <1>5, <2>1 DEF Request, Connect, Quiet, Selected
<1>6. CASE Leave
    <2>1. client' \in Shot /\ clients' \in Shot
        BY <1>6 DEF Leave, Shot
    <2>2. loop' \in LoopAt
        BY <1>6 DEF Leave, Selected, LoopAt
    <2> QED  BY <1>6, <2>1, <2>2 DEF Leave, Selected
<1>7. CASE Forward
    <2>1. CASE PassRequest
        BY <1>7, <2>1 DEF Forward, PassRequest
    <2>2. CASE ForwardFrame
        BY <1>7, <2>2 DEF Forward, ForwardFrame
    <2>3. CASE ForwardEnds
        BY <1>7, <2>3 DEF Forward, ForwardEnds, LoopAt
    <2> QED  BY <1>7, <2>1, <2>2, <2>3 DEF Forward
<1>8. CASE Send
    <2>1. CASE encoded # <<>> /\ encoded' = Tail(encoded)
        <3>1. encoded' \in Seq(Encoded) /\ Len(encoded') =< EncodedCap
            BY <2>1
        <3> QED  BY <1>8, <3>1, <2>1 DEF Send
    <2>2. CASE encoded = <<>>
        <3>1. loop' \in LoopAt
            BY <1>8, <2>2 DEF Send, LoopAt
        <3> QED  BY <1>8, <2>2, <3>1 DEF Send
    <2> QED  BY <1>8, <2>1, <2>2 DEF Send
<1>9. CASE Close
    <2>1. loop' \in LoopAt /\ frame_tx' \in BOOLEAN /\ encoder_running' \in BOOLEAN
          /\ stop_flag' \in BOOLEAN
        BY <1>9 DEF Close, LoopAt
    <2> QED  BY <1>9, <2>1 DEF Close
<1>10. CASE Sent
    <2>1. client' \in Shot
        BY <1>10 DEF Sent, Shot
    <2>2. loop' \in LoopAt
        BY <1>10 DEF Sent, LoopAt
    <2>3. owed' \in BOOLEAN
        BY <1>10 DEF Sent
    <2> QED  BY <1>10, <2>1, <2>2, <2>3 DEF Sent
<1> QED
    BY <1>1, <1>2, <1>3, <1>4, <1>5, <1>6, <1>7, <1>8, <1>9, <1>10, <1>11 DEF Loop

\* A frame that is pushed joins those in GStreamer.
LEMMA Pushed ==
    ASSUME TypeOK, Encode
    PROVE  \E e, key \in BOOLEAN :
              /\ SendEvent(e) /\ (e => key)
              /\ [shot |-> frame.shot, key |-> key] \in Encoded
              /\ inside' = Append(inside, [shot |-> frame.shot, key |-> key])
<1>1. \A key \in BOOLEAN : [shot |-> frame.shot, key |-> key] \in Encoded
    BY DEF TypeOK, Encoded
<1> QED  BY <1>1 DEF Encode

\* The oldest frame in GStreamer and those behind it are encoded frames.
LEMMA Pulled ==
    ASSUME TypeOK, inside # <<>>
    PROVE  Head(inside) \in Encoded /\ Tail(inside) \in Seq(Encoded)
<1>1. inside \in Seq(Encoded)
    BY DEF TypeOK
<1> HIDE DEF Encoded
<1> QED  BY <1>1

\* Whatever becomes of a frame, the errors stay within their bound.
LEMMA ErrorBound ==
    ASSUME TypeOK
    PROVE  /\ Error => errors' \in 0 .. MaxErrors
           /\ \A e : SendEvent(e) => errors' \in 0 .. MaxErrors /\ owed' \in BOOLEAN
<1>1. Error => errors' \in 0 .. MaxErrors
    BY PipelineAssumption DEF TypeOK, Error
<1> QED  BY <1>1 DEF SendEvent, TypeOK

\* The steps of the encoder thread.
LEMMA TypeEncoder == TypeOK /\ Encoder => TypeOK'
<1> SUFFICES ASSUME TypeOK, Encoder
             PROVE  TypeOK'
    OBVIOUS
<1> USE PipelineAssumption DEF TypeOK, EncoderAt, requests, gst, people, input
<1>0. UNCHANGED <<running, loop, people, input, frame_tx, encoder_running,
                  keyframe_requested>>
    BY DEF Encoder
<1>1. CASE EncoderTop
    BY <1>0, <1>1 DEF EncoderTop
<1>7. CASE EncodeFails
    BY <1>0, <1>7, ErrorBound DEF EncodeFails
<1>2. CASE EncoderRecv
    <2>1. CASE frames # <<>> /\ encoder' = "swap"
        <3>1. /\ frame' = [shot |-> Head(frames), key |-> FALSE]
              /\ frames' = Tail(frames)
              /\ UNCHANGED <<encoded, keyframe_flag, force_keyframe, gst, owed>>
            BY <1>2, <2>1 DEF EncoderRecv
        <3>2. frames \in Seq(Shot) /\ Len(frames) =< FrameCap
            OBVIOUS
        <3>3. /\ Head(frames) \in Shot
              /\ Tail(frames) \in Seq(Shot) /\ Len(Tail(frames)) =< FrameCap
            BY ONLY <2>1, <3>2, PipelineAssumption
        <3>4. frame' \in Encoded
            BY ONLY <3>1, <3>3 DEF Encoded
        <3> QED  BY <1>0, <2>1, <3>1, <3>3, <3>4
    <2>2. CASE frames = <<>>
        BY <1>0, <1>2, <2>2 DEF EncoderRecv
    <2> QED  BY <1>2, <2>1, <2>2 DEF EncoderRecv
<1>3. CASE EncoderSwap
    BY <1>0, <1>3 DEF EncoderSwap
<1>4. CASE PushFails
    BY <1>0, <1>4, ErrorBound DEF PushFails
<1>5. CASE Encode
    <2>1. PICK e, key \in BOOLEAN :
              /\ SendEvent(e)
              /\ [shot |-> frame.shot, key |-> key] \in Encoded
              /\ inside' = Append(inside, [shot |-> frame.shot, key |-> key])
        BY <1>5, Pushed
    <2>2. inside' \in Seq(Encoded)
        BY <2>1
    <2> QED  BY <1>0, <1>5, <2>1, <2>2, ErrorBound DEF Encode
<1>8. CASE Pull
    <2>1. CASE UNCHANGED <<frame, inside, errors, owed>> /\ encoder' = "top"
        BY <1>0, <1>8, <2>1 DEF Pull
    <2>2. CASE inside # <<>> /\ inside' = Tail(inside)
        <3>1. Head(inside) \in Encoded /\ inside' \in Seq(Encoded)
            BY <2>2, Pulled
        <3>2. /\ encoder' \in EncoderAt /\ frame' \in Encoded
              /\ errors' \in 0 .. MaxErrors /\ owed' \in BOOLEAN
            BY <1>8, <3>1, ErrorBound DEF Pull
        <3> QED  BY <1>0, <1>8, <3>1, <3>2 DEF Pull
    <2> QED  BY <1>8, <2>1, <2>2 DEF Pull
<1>6. CASE EncoderSend
    BY <1>0, <1>6 DEF EncoderSend
<1> QED
    BY <1>1, <1>2, <1>3, <1>4, <1>5, <1>6, <1>7, <1>8 DEF Encoder

\* Every variable keeps its type: main.rs:235-271, pipewire.rs:117.
THEOREM TypeCorrect == Spec => []TypeOK
<1>1. TypeOK /\ UNCHANGED vars => TypeOK'
    BY DEF TypeOK, vars, requests, gst, people, input
<1>2. TypeOK /\ [Next]_vars => TypeOK'
    BY <1>1, TypeLoop, TypeEncoder DEF Next
<1> QED  BY <1>2, TypeInit, PTL DEF Spec

---------------------------------------------------------------------------
(* The shutdown *)

\* Outside the two phases that move frames, what the encoder still has to hand
\* over is what was in its channel after the last pass, and the frame in its hand.
Margin == loop \notin {"forward", "send"}
            => Len(encoded) + Len(frames) + InHand =< FrameCap + 1

LEMMA MarginStep == TypeOK /\ Margin /\ [Next]_vars => Margin'
<1> SUFFICES ASSUME TypeOK, Margin, [Next]_vars
             PROVE  Margin'
    OBVIOUS
<1>0. /\ encoded \in Seq(Encoded) /\ frames \in Seq(Shot) /\ inside \in Seq(Encoded)
      /\ Len(frames) =< FrameCap
      /\ Len(encoded) \in Nat /\ Len(frames) \in Nat
      /\ FrameCap \in Nat
    BY PipelineAssumption DEF TypeOK
<1>1. CASE UNCHANGED vars
    BY <1>1 DEF Margin, InHand, vars
<1>2. CASE Capture \/ CaptureEnds \/ Stop \/ LoopTop \/ Close
    BY <1>2 DEF Margin, InHand, Capture, CaptureEnds, Stop, LoopTop, Close
<1>3. CASE Accept \/ Request \/ Connect \/ Leave \/ Quiet
    BY <1>3 DEF Margin, InHand, Accept, Request, Connect, Leave, Quiet, Selected
<1>4. CASE Forward
    BY <1>4 DEF Margin, Forward, PassRequest, ForwardFrame, ForwardEnds
<1>5. CASE Send
    <2>1. CASE loop' = "send"
        BY <2>1 DEF Margin
    <2>2. CASE encoded = <<>>
        BY <1>0, <1>5, <2>2 DEF Margin, InHand, Send
    <2> QED  BY <1>5, <2>1, <2>2 DEF Send
<1>6. CASE Encoder
    <2> USE DEF Margin, InHand
    <2>0. loop' = loop
        BY <1>6 DEF Encoder
    <2>1. CASE EncoderTop \/ EncoderSwap \/ EncodeFails \/ PushFails
        BY <1>0, <2>0, <2>1 DEF EncoderTop, EncoderSwap, EncodeFails, PushFails
    <2>2. CASE EncoderRecv
        <3>1. CASE frames # <<>> /\ frames' = Tail(frames)
            <4>1. Len(frames') = Len(frames) - 1
                BY <1>0, <3>1
            <4> QED  BY <1>0, <2>0, <2>2, <4>1 DEF EncoderRecv
        <3>2. CASE frames = <<>> /\ frames' = frames
            BY <1>0, <2>0, <2>2, <3>2 DEF EncoderRecv
        <3> QED  BY <2>2, <3>1, <3>2 DEF EncoderRecv
    <2>3. CASE Encode \/ Pull
        BY <1>0, <2>0, <2>3 DEF Encode, Pull
    <2>4. CASE EncoderSend
        <3>1. frame \in Encoded
            BY DEF TypeOK
        <3>2. Len(encoded') = Len(encoded) + 1
            BY <1>0, <2>4, <3>1 DEF EncoderSend
        <3> QED  BY <1>0, <2>0, <2>4, <3>2 DEF EncoderSend
    <2> QED  BY <1>6, <2>1, <2>2, <2>3, <2>4 DEF Encoder
<1>7. CASE Sent
    BY <1>7 DEF Margin, InHand, Sent
<1> QED
    BY <1>1, <1>2, <1>3, <1>4, <1>5, <1>6, <1>7 DEF Next, Loop

\* The join of the encoder thread finds it able to finish: main.rs:556-564 does
\* not deadlock, because the channel from the encoder has room for one frame
\* more than the channel to it.
THEOREM JoinCorrect == Spec => []JoinSafe
<1>1. Init => Margin
    BY PipelineAssumption DEF Init, Margin, InHand
<1>2. TypeOK /\ Margin => JoinSafe
    <2> SUFFICES ASSUME TypeOK, Margin, loop = "join", encoder = "send",
                        Len(encoded) >= EncodedCap
                 PROVE  FALSE
        BY DEF JoinSafe
    <2>1. Len(encoded) \in Nat /\ Len(frames) \in Nat
        BY DEF TypeOK
    <2> QED  BY <2>1, PipelineAssumption DEF Margin, InHand
<1> QED  BY <1>1, <1>2, MarginStep, TypeCorrect, PTL DEF Spec

---------------------------------------------------------------------------
(* Requests for a keyframe *)

\* Where the keyframes of a channel are after a put and after a take.
LEMMA KeysAppend ==
    ASSUME NEW s \in Seq(Encoded), NEW x \in Encoded
    PROVE  Keys(Append(s, x)) <=> Keys(s) \/ x.key
<1> DEFINE t == Append(s, x)
<1>1. /\ DOMAIN t = 1 .. Len(s) + 1 /\ DOMAIN s = 1 .. Len(s)
      /\ Len(s) \in Nat
      /\ t[Len(s) + 1] = x /\ \A i \in 1 .. Len(s) : t[i] = s[i]
    OBVIOUS
<1> HIDE DEF t
<1>2. ASSUME Keys(t) PROVE Keys(s) \/ x.key
    BY <1>1, <1>2 DEF Keys
<1>3. ASSUME Keys(s) \/ x.key PROVE Keys(t)
    <2>1. CASE x.key
        BY <1>1, <2>1 DEF Keys
    <2>2. CASE Keys(s)
        BY <1>1, <2>2 DEF Keys
    <2> QED  BY <1>3, <2>1, <2>2
<1> QED  BY <1>2, <1>3 DEF t

LEMMA KeysTail ==
    ASSUME NEW s \in Seq(Encoded), s # <<>>, Keys(s)
    PROVE  Head(s).key \/ Keys(Tail(s))
<1> DEFINE t == Tail(s)
<1>1. /\ DOMAIN s = 1 .. Len(s) /\ DOMAIN t = 1 .. Len(s) - 1
      /\ Len(s) \in Nat /\ Head(s) = s[1]
      /\ \A i \in 1 .. Len(s) - 1 : t[i] = s[i + 1]
    OBVIOUS
<1> HIDE DEF t
<1>2. PICK i \in DOMAIN s : s[i].key
    BY DEF Keys
<1>3. CASE i = 1
    BY <1>1, <1>2, <1>3
<1>4. CASE i # 1
    <2>1. i - 1 \in DOMAIN t /\ t[i - 1] = s[i]
        BY <1>1, <1>2, <1>4
    <2>2. Keys(t)
        BY <1>2, <2>1 DEF Keys
    <2> QED  BY <2>2 DEF t
<1> QED  BY <1>3, <1>4

LEMMA RequestStep == TypeOK /\ RequestKept /\ [Next]_vars => RequestKept'
<1> SUFFICES ASSUME TypeOK, RequestKept, [Next]_vars
             PROVE  RequestKept'
    OBVIOUS
<1>0. /\ encoded \in Seq(Encoded) /\ inside \in Seq(Encoded) /\ frame \in Encoded
    BY DEF TypeOK
<1>1. CASE UNCHANGED vars
    BY <1>1 DEF RequestKept, Keys, vars, requests, gst
<1>2. CASE Capture \/ CaptureEnds \/ Stop \/ LoopTop \/ Close
    BY <1>2 DEF RequestKept, Keys, requests, gst,
                Capture, CaptureEnds, Stop, LoopTop, Close
<1>3. CASE Accept \/ Request \/ Connect \/ Leave \/ Quiet
    BY <1>3 DEF RequestKept, Keys, gst, Accept, Request, Connect, Leave, Quiet, Selected
<1>4. CASE Forward
    BY <1>4 DEF RequestKept, Keys, gst, Forward, PassRequest, ForwardFrame, ForwardEnds
<1>5. CASE Send
    <2>1. UNCHANGED <<encoder, frame, requests, gst>>
        BY <1>5 DEF Send
    <2>2. CASE encoded # <<>> /\ encoded' = Tail(encoded) /\ owed' = (owed /\ ~Head(encoded).key)
        <3> SUFFICES ASSUME owed' PROVE RequestKept'
            BY DEF RequestKept
        <3>1. owed /\ ~Head(encoded).key
            BY <2>2
        <3>2. Keys(encoded) => Keys(encoded')
            BY <1>0, <2>2, <3>1, KeysTail
        <3> QED  BY <2>1, <3>1, <3>2 DEF RequestKept, Keys, requests, gst
    <2>3. CASE UNCHANGED <<encoded, owed>>
        BY <2>1, <2>3 DEF RequestKept, Keys, requests, gst
    <2> QED  BY <1>5, <2>2, <2>3 DEF Send
<1>6. CASE Encoder
    <2>0. UNCHANGED keyframe_requested
        BY <1>6 DEF Encoder
    <2> SUFFICES ASSUME owed' PROVE RequestKept'
        BY DEF RequestKept
    <2>1. CASE EncoderTop \/ EncoderRecv \/ EncodeFails
        BY <2>0, <2>1 DEF RequestKept, Keys, gst, EncoderTop, EncoderRecv, EncodeFails
    <2>2. CASE EncoderSwap
        BY <2>0, <2>2 DEF RequestKept, Keys, gst, EncoderSwap
    <2>3. CASE PushFails
        BY <2>0, <2>3 DEF RequestKept, Keys, PushFails
    <2>4. CASE Encode
        <3>1. PICK e, key \in BOOLEAN :
                /\ SendEvent(e) /\ (e => key)
                /\ [shot |-> frame.shot, key |-> key] \in Encoded
                /\ inside' = Append(inside, [shot |-> frame.shot, key |-> key])
            BY <2>4, Pushed
        <3>2. owed /\ (event \/ force_keyframe => key)
            BY <3>1 DEF SendEvent
        <3>3. Keys(inside') <=> Keys(inside) \/ key
            BY <1>0, <3>1, KeysAppend
        <3>4. encoder = "encode" /\ UNCHANGED <<encoded, keyframe_flag>>
            BY <2>4 DEF Encode
        <3>5. Keys(encoded) => Keys(encoded')
            BY <3>4 DEF Keys
        <3> QED  BY <2>0, <3>2, <3>3, <3>4, <3>5 DEF RequestKept
    <2>5. CASE Pull
        <3>1. owed /\ encoder = "pull"
              /\ UNCHANGED <<encoded, keyframe_flag, force_keyframe, event>>
            BY <2>5 DEF Pull
        <3>2. Keys(encoded) => Keys(encoded')
            BY <3>1 DEF Keys
        <3>3. Keys(inside) => Keys(inside') \/ (encoder' = "send" /\ frame'.key)
            BY <1>0, <2>5, KeysTail DEF Pull, Keys
        <3> QED  BY <2>0, <3>1, <3>2, <3>3 DEF RequestKept
    <2>6. CASE EncoderSend
        <3>1. /\ encoded' = Append(encoded, frame)
              /\ UNCHANGED <<keyframe_flag, force_keyframe, event, inside, owed>>
            BY <2>6 DEF EncoderSend, gst
        <3>2. Keys(encoded') <=> Keys(encoded) \/ frame.key
            BY <1>0, <3>1, KeysAppend DEF Keys
        <3>3. Keys(inside) => Keys(inside')
            BY <3>1 DEF Keys
        <3> QED  BY <2>0, <3>1, <3>2, <3>3 DEF RequestKept
    <2> QED  BY <1>6, <2>1, <2>2, <2>3, <2>4, <2>5, <2>6 DEF Encoder
<1>7. CASE Sent
    BY <1>7 DEF RequestKept, Keys, requests, gst, Sent
<1> QED
    BY <1>1, <1>2, <1>3, <1>4, <1>5, <1>6, <1>7 DEF Next, Loop

\* A client's request for a keyframe is never forgotten between the main loop and
\* GStreamer (main.rs:342, 437, 253; vaapi.rs:297), even when frames cannot be
\* encoded; only an event or a sample that GStreamer itself loses can lose it.
THEOREM RequestCorrect == Spec => []RequestKept
<1>1. Init => RequestKept
    BY DEF Init, RequestKept
<1>2. TypeOK /\ RequestKept /\ [Next]_vars => RequestKept'
    BY RequestStep
<1> QED  BY <1>1, <1>2, TypeCorrect, PTL DEF Spec
=============================================================================
