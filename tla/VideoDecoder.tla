---------------------------- MODULE VideoDecoder ----------------------------
(***************************************************************************)
(* The decoder of the client (video/VideoDecoder.kt): the user interface   *)
(* configures, starts, stops and closes it from the callbacks of the       *)
(* surface (ui/StreamScreen.kt:54-58, 71-91) while the coroutine that      *)
(* startDecoding launched, a job, decodes and reconfigures it.  Nothing    *)
(* orders the two; they read and write the same fields, one call after the *)
(* other.  stop cancels the job, which still finishes its packet.          *)
(*                                                                         *)
(* Of the MediaCodec instances one is in the field `codec`; what the model *)
(* keeps of it is its condition.  Of the others it keeps whether one was   *)
(* lost without being released since the surface was created (`leaked`),   *)
(* and whether such a one still holds the surface (`taken`), which then no *)
(* other can be configured for.                                            *)
(* The stream of a session has one SPS and one PPS.                        *)
(*                                                                         *)
(* There are at most two jobs at a time, and when MaxPending packets wait  *)
(* in pendingConfigPackets the next is a keyframe: the bounds of an        *)
(* instance.                                                               *)
(***************************************************************************)
EXTENDS Naturals, Sequences

CONSTANTS MaxPending,
          MayOverlap,   \* can a surface come while an old job is in decode?
          MayBreak      \* can a codec fail for good?

ASSUME DecoderAssumption ==
    MaxPending \in Nat /\ MayOverlap \in BOOLEAN /\ MayBreak \in BOOLEAN

VARIABLES
    surface,                \* the surface of the view
    codec, leaked, taken,
    keyed,                  \* the codec was given a keyframe
    csd, configured, waiting, pending,      \* fields of the decoder
    ui, closed,             \* where the user interface is; close was called
    decodeJob, at, cancelled, packet,       \* the jobs, and the packet of each
    disturbed, crossed      \* see below

codecs == <<codec, leaked, taken, keyed>>
fields == <<csd, configured, waiting, pending>>
jobs   == <<decodeJob, at, cancelled, packet>>
past   == <<disturbed, crossed>>
vars   == <<surface, codecs, fields, ui, closed, jobs, past>>

Job     == {1, 2}
Kind    == {"key", "bare", "delta"}     \* bare is a keyframe without SPS and PPS
Condition == {"none", "running", "dead", "released"}
Step    == {"release", "create", "configured"}      \* of configure

TypeOK ==
    /\ surface \in {"none", "valid", "gone"}
    /\ codec \in Condition /\ leaked \in BOOLEAN /\ taken \in BOOLEAN /\ keyed \in BOOLEAN
    /\ csd \in BOOLEAN /\ configured \in BOOLEAN /\ waiting \in BOOLEAN
    /\ pending \in Seq(Kind)
    /\ ui \in {"idle", "start", "null", "lost", "closing"} \cup Step
    /\ closed \in BOOLEAN
    /\ decodeJob \in Job \cup {0}
    /\ at \in [Job -> {"none", "take", "test", "stop", "null", "feed"} \cup Step]
    /\ cancelled \in [Job -> BOOLEAN]
    /\ packet \in [Job -> Kind]
    /\ disturbed \in BOOLEAN /\ crossed \in BOOLEAN
    /\ (\E j \in Job : at[j] # "none") => decodeJob # 0

Init ==
    /\ surface = "none"
    /\ codec = "none" /\ leaked = FALSE /\ taken = FALSE /\ keyed = FALSE
    /\ csd = FALSE /\ configured = FALSE /\ waiting = TRUE /\ pending = <<>>
    /\ ui = "idle" /\ closed = FALSE
    /\ decodeJob = 0
    /\ at = [j \in Job |-> "none"] /\ cancelled = [j \in Job |-> FALSE]
    /\ packet = [j \in Job |-> "delta"]
    /\ disturbed = FALSE /\ crossed = FALSE

\* A job that is inside decode.
Busy(j) == at[j] \notin {"none", "take"}

---------------------------------------------------------------------------
(* MediaCodec *)

Unreleased == codec \in {"running", "dead"}

\* stop throws when the codec has failed or was released before.
Throws == codec \in {"dead", "released"}

\* codec?.stop() and codec?.release() in one try: when stop throws, the codec is not
\* released.
StopAndRelease ==
    /\ codec' = IF codec = "running" THEN "released" ELSE codec
    /\ UNCHANGED <<leaked, taken, keyed>>

\* The field is assigned; the codec it held is not released by that.
Assign(c) ==
    /\ codec' = c
    /\ leaked' = (leaked \/ Unreleased)
    /\ taken' = (taken \/ codec = "running")

\* codec?.release()
Release ==
    /\ codec' = IF codec = "none" THEN "none" ELSE "released"
    /\ UNCHANGED <<leaked, taken, keyed>>

\* createDecoderByType, configure and start succeed unless there is another codec on
\* the surface, the surface is gone, or the new codec fails.
Creatable == surface = "valid" /\ ~taken /\ codec # "running"

---------------------------------------------------------------------------
(* configure, called with or without SPS and PPS; each step says where the *)
(* caller is next                                                          *)

\* Mutant of SetFields: the codec in the field is not released.
SetFieldsOnly(withCsd) ==
    /\ csd' = withCsd
    /\ UNCHANGED <<codecs, configured, waiting, pending, disturbed>>

SetFields(withCsd) ==
    /\ csd' = withCsd
    /\ Release
    /\ UNCHANGED <<configured, waiting, pending, disturbed>>

Create ==
    /\ Creatable
    /\ Assign("running") /\ keyed' = FALSE
    /\ UNCHANGED <<fields, disturbed>>

\* createDecoderByType throws, or one of the other calls, and the codec that was made is
\* lost; it holds the surface when only start failed.  The field keeps what was released.
CreateFails ==
    /\ \/ ~Creatable /\ leaked' = TRUE /\ UNCHANGED <<taken, disturbed>>
       \/ /\ MayBreak
          /\ \/ UNCHANGED <<leaked, taken>>
             \/ leaked' = TRUE /\ taken' \in {taken, taken \/ Creatable}
          /\ disturbed' = TRUE
    /\ configured' = FALSE /\ waiting' = TRUE
    /\ UNCHANGED <<codec, keyed, csd, pending>>

\* Mutant of Configured: isConfigured is not set.
ConfiguredNot(withCsd) ==
    /\ waiting' = ~withCsd
    /\ UNCHANGED <<codecs, configured, csd, pending, disturbed>>

Configured(withCsd) ==
    /\ configured' = TRUE /\ waiting' = ~withCsd
    /\ UNCHANGED <<codecs, csd, pending, disturbed>>

---------------------------------------------------------------------------
(* The user interface.  Of the time since the surface was created,         *)
(* `disturbed` says that a job of an earlier one was still inside decode   *)
(* then, or that a codec failed; `crossed` that stop found a job inside    *)
(* decode.                                                                 *)

SurfaceCreated ==
    /\ ui = "idle" /\ ~closed /\ surface # "valid"
    /\ MayOverlap \/ \A j \in Job : ~Busy(j)
    /\ surface' = "valid"
    /\ ui' = "release"
    /\ disturbed' = (\E j \in Job : Busy(j))
    /\ crossed' = FALSE /\ leaked' = FALSE
    /\ UNCHANGED <<codec, taken, keyed, fields, closed, jobs>>

UiConfigure ==
    /\ \/ ui = "release" /\ SetFields(FALSE) /\ ui' = "create"
       \/ ui = "create" /\ Create /\ ui' = "configured"
       \/ ui = "create" /\ CreateFails /\ ui' = "start"
       \/ ui = "configured" /\ Configured(FALSE) /\ ui' = "start"
    /\ UNCHANGED <<surface, closed, jobs, crossed>>

\* startDecoding launches a job only when the decoder is configured.
StartDecoding ==
    /\ ui = "start"
    /\ ui' = "idle"
    /\ \/ ~configured /\ UNCHANGED jobs
       \/ configured /\ \E j \in Job :
             /\ at[j] = "none"
             /\ decodeJob' = j
             /\ at' = [at EXCEPT ![j] = "take"]
             /\ cancelled' = [cancelled EXCEPT ![j] = FALSE]
             /\ UNCHANGED packet
    /\ UNCHANGED <<surface, codecs, fields, closed, past>>

\* Mutant of Stop: the job is not cancelled.
StopOnly(next) ==
    /\ StopAndRelease
    /\ ui' = next
    /\ crossed' = (crossed \/ \E j \in Job : Busy(j))
    /\ UNCHANGED <<surface, fields, jobs, disturbed>>

\* stop: the job is cancelled, the codec stopped and released, unless stop throws.
Stop(next) ==
    /\ cancelled' = [j \in Job |-> cancelled[j] \/ j = decodeJob]
    /\ StopAndRelease
    /\ ui' = next
    /\ crossed' = (crossed \/ \E j \in Job : Busy(j))
    /\ UNCHANGED <<surface, fields, decodeJob, at, packet, disturbed>>

SurfaceDestroyed == ui = "idle" /\ surface = "valid" /\ Stop("null") /\ UNCHANGED closed

\* onDispose closes the decoder; the surface is destroyed afterwards.
Close ==
    /\ ui = "idle" /\ ~closed
    /\ closed' = TRUE
    /\ Stop("closing")

\* The end of stop, whatever the field holds by now.
StopEnds ==
    /\ ui \in {"null", "closing"}
    /\ Assign("none") /\ UNCHANGED keyed
    /\ configured' = FALSE
    /\ ui' = IF ui = "null" THEN "lost" ELSE "idle"
    /\ UNCHANGED <<surface, csd, waiting, pending, closed, jobs, past>>

\* The surface is gone when surfaceDestroyed has returned.
SurfaceLost ==
    /\ ui = "lost"
    /\ surface' = "gone"
    /\ codec' = IF codec = "running" THEN "dead" ELSE codec
    /\ taken' = FALSE
    /\ ui' = "idle"
    /\ UNCHANGED <<leaked, keyed, fields, closed, jobs, past>>

---------------------------------------------------------------------------
(* A job *)

Goto(j, l) == at' = [at EXCEPT ![j] = l] /\ UNCHANGED <<decodeJob, cancelled, packet>>

\* decode returns; the job has no packet any more.
Return(j) ==
    /\ at' = [at EXCEPT ![j] = "take"]
    /\ packet' = [packet EXCEPT ![j] = "delta"]
    /\ UNCHANGED <<decodeJob, cancelled>>

Take(j, k) ==
    /\ at[j] = "take" /\ ~cancelled[j]
    /\ k = "key" \/ Len(pending) < MaxPending
    /\ at' = [at EXCEPT ![j] = "test"]
    /\ packet' = [packet EXCEPT ![j] = k]
    /\ UNCHANGED <<surface, codecs, fields, ui, closed, decodeJob, cancelled, past>>

\* The coroutine was cancelled while it waited, or finds that it is not active.
End(j) ==
    /\ at[j] = "take" /\ cancelled[j]
    /\ Goto(j, "none")
    /\ UNCHANGED <<surface, codecs, fields, ui, closed, past>>

\* decode while it waits for a keyframe: what is no keyframe, or has no SPS and PPS,
\* is kept.
Keep(j) ==
    /\ at[j] = "test" /\ waiting
    /\ packet[j] # "key"
    /\ pending' = Append(pending, packet[j])
    /\ Return(j)
    /\ UNCHANGED <<surface, codecs, csd, configured, waiting, ui, closed, past>>

\* The SPS and PPS are those of the last configure, so that the codec stays.
Same(j) == at[j] = "test" /\ waiting /\ packet[j] = "key" /\ csd

Test(j) ==
    /\ \/ at[j] = "test" /\ ~waiting /\ Goto(j, "feed") /\ UNCHANGED waiting
       \/ Same(j) /\ waiting' = FALSE /\ Goto(j, "feed")
       \/ /\ at[j] = "test" /\ waiting /\ packet[j] = "key" /\ ~csd
          /\ Goto(j, "stop") /\ UNCHANGED waiting
    /\ UNCHANGED <<surface, codecs, csd, configured, pending, ui, closed, past>>

\* The old codec is stopped and released; when stop throws, the field keeps it.
StopOld(j) ==
    /\ at[j] = "stop"
    /\ StopAndRelease
    /\ Goto(j, IF Throws THEN "release" ELSE "null")
    /\ UNCHANGED <<surface, fields, ui, closed, past>>

NullOld(j) ==
    /\ at[j] = "null"
    /\ Assign("none") /\ UNCHANGED keyed
    /\ Goto(j, "release")
    /\ UNCHANGED <<surface, fields, ui, closed, past>>

Reconfigure(j) ==
    /\ \/ at[j] = "release" /\ SetFields(TRUE) /\ Goto(j, "create")
       \/ at[j] = "create" /\ Create /\ Goto(j, "configured")
       \/ at[j] = "create" /\ CreateFails /\ Goto(j, "feed")
       \/ at[j] = "configured" /\ Configured(TRUE) /\ Goto(j, "feed")
    /\ UNCHANGED <<surface, ui, closed, crossed>>

\* queueAndDrain: nothing without a codec, an exception from a codec that does not
\* run, and nothing when no input buffer comes free.
Queue(k) ==
    \/ codec = "none" /\ UNCHANGED <<waiting, keyed>>
    \/ codec \in {"dead", "released"} /\ waiting' = TRUE /\ UNCHANGED keyed
    \/ codec = "running" /\ UNCHANGED <<waiting, keyed>>
    \/ codec = "running" /\ k = "key" /\ keyed' = TRUE /\ UNCHANGED waiting

\* The packets that were kept come first.
FeedPending(j) ==
    /\ at[j] = "feed"
    /\ pending # <<>>
    /\ pending' = Tail(pending)
    /\ Queue(Head(pending))
    /\ UNCHANGED <<surface, codec, leaked, taken, csd, configured, ui, closed, jobs, past>>

Feed(j) ==
    /\ at[j] = "feed"
    /\ pending = <<>>
    /\ \/ ~waiting /\ Queue(packet[j])
       \/ waiting /\ packet[j] # "delta" /\ Queue(packet[j])
       \/ waiting /\ packet[j] = "delta" /\ UNCHANGED <<waiting, keyed>>
    /\ Return(j)
    /\ UNCHANGED <<surface, codec, leaked, taken, csd, configured, pending, ui, closed, past>>

\* A codec fails for good; each of its methods throws from now on.
Break ==
    /\ MayBreak
    /\ codec = "running"
    /\ codec' = "dead"
    /\ disturbed' = TRUE
    /\ UNCHANGED <<surface, leaked, taken, keyed, fields, ui, closed, jobs, crossed>>

---------------------------------------------------------------------------
Callback == SurfaceCreated \/ SurfaceDestroyed \/ Close
Ui       == UiConfigure \/ StartDecoding \/ StopEnds \/ SurfaceLost

\* What a job does with a packet.
Decode(j) ==
    \/ Keep(j) \/ Test(j) \/ StopOld(j) \/ NullOld(j) \/ Reconfigure(j)
    \/ FeedPending(j) \/ Feed(j)

Next ==
    \/ Callback \/ Ui \/ Break
    \/ \E j \in Job : (\E k \in Kind : Take(j, k)) \/ End(j) \/ Decode(j)

Spec == Init /\ [][Next]_vars

\* The callbacks return and the jobs run; keyframes keep coming, the server sends
\* one with every group of pictures; an input buffer comes free in the end.
FairSpec ==
    /\ Spec
    /\ WF_vars(Ui)
    /\ \A j \in Job : /\ WF_vars(Decode(j)) /\ SF_vars(Take(j, "key"))
                      /\ SF_vars(Feed(j) /\ keyed')

---------------------------------------------------------------------------
(* Properties *)

\* Never do two jobs that were not cancelled take packets from the same channel
\* (StreamScreen.kt:71-91, VideoDecoder.kt:88, 234).
Active(j)  == at[j] # "none" /\ ~cancelled[j]
OneActive  == \A i, j \in Job : Active(i) /\ Active(j) => i = j

\* Every codec made for a surface is released, and one that an earlier surface left in
\* the field is too, unless since the surface was created stop found a job inside decode,
\* a job of an earlier surface was still there, or a codec failed: what these leave behind
\* costs no later surface a codec (VideoDecoder.kt:58, 123, 237, 241).
Held   == closed /\ ui = "idle" /\ Unreleased
NoLeak == leaked \/ Held => disturbed \/ crossed

\* A surface that stays is shown the stream, also after the decoder was stopped in
\* the middle of a packet and whatever it kept and lost by that: the decoder has a
\* codec that was given a keyframe, and it waits for none.  (That no job of an earlier
\* surface still decodes, and that the codec does not fail, is assumed.)
Steady   == surface = "valid" /\ ui = "idle" /\ ~closed /\ ~disturbed
Showing  == codec = "running" /\ keyed /\ ~waiting
Recovers == Steady ~> Showing \/ ~Steady
=============================================================================
