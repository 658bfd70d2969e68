------------------------- MODULE VideoDecoderProofs -------------------------
(***************************************************************************)
(* Proofs about the decoder of the client: types, that one job at a time   *)
(* takes packets, and that no codec is lost on a surface for which no      *)
(* callback met a job inside decode and no codec failed.                   *)
(***************************************************************************)
EXTENDS VideoDecoder, TLAPS

LEMMA TypeInit == Init => TypeOK
<1> SUFFICES ASSUME Init
             PROVE  TypeOK
    OBVIOUS
<1>1. pending \in Seq(Kind)
    BY DEF Init
<1> QED
    BY <1>1 DEF Init, TypeOK, Condition, Kind

\* What the operations on a codec leave behind.
LEMMA TypeCodec ==
    ASSUME TypeOK
    PROVE  /\ Release \/ StopAndRelease =>
                 codec' \in Condition /\ UNCHANGED <<leaked, taken, keyed>>
           /\ \A c \in Condition : Assign(c) => /\ codec' \in Condition
                                                /\ leaked' \in BOOLEAN /\ taken' \in BOOLEAN
    BY DEF TypeOK, Release, StopAndRelease, Assign, Condition

\* A step of configure.
LEMMA TypeConfigure ==
    ASSUME TypeOK, NEW b \in BOOLEAN,
           SetFields(b) \/ Create \/ CreateFails \/ Configured(b)
    PROVE  /\ codec' \in Condition /\ leaked' \in BOOLEAN /\ taken' \in BOOLEAN
           /\ keyed' \in BOOLEAN /\ csd' \in BOOLEAN /\ configured' \in BOOLEAN
           /\ waiting' \in BOOLEAN /\ pending' \in Seq(Kind)
           /\ disturbed' \in BOOLEAN /\ (disturbed => disturbed')
<1>1. CASE SetFields(b)
    BY <1>1, TypeCodec DEF SetFields, TypeOK
<1>2. CASE Create
    <2>1. "running" \in Condition  BY DEF Condition
    <2> QED  BY <1>2, <2>1, TypeCodec DEF Create, fields, TypeOK
<1>3. CASE CreateFails
    BY <1>3 DEF CreateFails, TypeOK
<1>4. CASE Configured(b)
    BY <1>4 DEF Configured, codecs, TypeOK
<1> QED  BY <1>1, <1>2, <1>3, <1>4

\* The steps of the user interface.
LEMMA TypeUi == TypeOK /\ (Callback \/ Ui) => TypeOK'
<1> SUFFICES ASSUME TypeOK, Callback \/ Ui
             PROVE  TypeOK'
    OBVIOUS
<1>c. /\ "none" \in Condition /\ "dead" \in Condition
      /\ "release" \in Step /\ "create" \in Step /\ "configured" \in Step
    BY DEF Condition, Step
<1>1. CASE SurfaceCreated
    BY <1>1, <1>c DEF SurfaceCreated, TypeOK, fields, jobs
<1>s. \A next \in {"null", "closing"} : Stop(next) =>
        /\ codec' \in Condition /\ UNCHANGED <<leaked, taken, keyed, fields, surface>>
        /\ cancelled' \in [Job -> BOOLEAN] /\ crossed' \in BOOLEAN
        /\ ui' = next /\ UNCHANGED <<decodeJob, at, packet, disturbed>>
    BY TypeCodec DEF Stop, TypeOK
<1>2. CASE SurfaceDestroyed
    BY <1>2, <1>s DEF SurfaceDestroyed, TypeOK, fields
<1>3. CASE Close
    BY <1>3, <1>s DEF Close, TypeOK, fields
<1>4. CASE UiConfigure
    <2>1. /\ SetFields(FALSE) \/ Create \/ CreateFails \/ Configured(FALSE)
          /\ ui' \in {"create", "configured", "start"}
          /\ UNCHANGED <<surface, closed, jobs, crossed>>
        BY <1>4 DEF UiConfigure
    <2> QED  BY <2>1, <1>c, TypeConfigure DEF TypeOK, jobs
<1>5. CASE StartDecoding
    <2>1. CASE UNCHANGED jobs
        BY <1>5, <2>1 DEF StartDecoding, TypeOK, codecs, fields, past, jobs
    <2>2. CASE \E j \in Job : /\ at[j] = "none" /\ decodeJob' = j
                              /\ at' = [at EXCEPT ![j] = "take"]
                              /\ cancelled' = [cancelled EXCEPT ![j] = FALSE]
                              /\ UNCHANGED packet
        BY <1>5, <2>2 DEF StartDecoding, TypeOK, codecs, fields, past, Job
    <2> QED  BY <1>5, <2>1, <2>2 DEF StartDecoding
<1>6. CASE StopEnds
    BY <1>6, <1>c, TypeCodec DEF StopEnds, TypeOK, jobs, past
<1>7. CASE SurfaceLost
    BY <1>7, <1>c DEF SurfaceLost, TypeOK, fields, jobs, past
<1> QED
    BY <1>1, <1>2, <1>3, <1>4, <1>5, <1>6, <1>7 DEF Callback, Ui

\* What Queue leaves behind.
LEMMA TypeQueue ==
    ASSUME TypeOK, NEW k, Queue(k)
    PROVE  waiting' \in BOOLEAN /\ keyed' \in BOOLEAN
    BY DEF TypeOK, Queue

\* A job that was launched goes on.
LEMMA TypeGoto ==
    ASSUME TypeOK, NEW j \in Job, at[j] # "none",
           NEW l \in {"none", "take", "test", "stop", "null", "feed"} \cup Step,
           at' = [at EXCEPT ![j] = l], UNCHANGED decodeJob
    PROVE  /\ at' \in [Job -> {"none", "take", "test", "stop", "null", "feed"} \cup Step]
           /\ (\E i \in Job : at'[i] # "none") => decodeJob' # 0
    BY DEF TypeOK

\* The steps of a job.
LEMMA TypeJob ==
    ASSUME TypeOK, NEW j \in Job,
           (\E k \in Kind : Take(j, k)) \/ End(j) \/ Decode(j)
    PROVE  TypeOK'
<1> DEFINE Place == {"none", "take", "test", "stop", "null", "feed"} \cup Step
           Placed == /\ at' \in [Job -> Place]
                     /\ (\E i \in Job : at'[i] # "none") => decodeJob' # 0
                     /\ UNCHANGED <<decodeJob, cancelled>>
                     /\ packet' \in [Job -> Kind]
<1>g. \A l \in Place : at[j] # "none" /\ Goto(j, l) => Placed
    BY TypeGoto DEF Goto, TypeOK
<1>p. /\ "none" \in Place /\ "take" \in Place /\ "test" \in Place /\ "stop" \in Place
      /\ "null" \in Place /\ "feed" \in Place /\ "release" \in Place
      /\ "create" \in Place /\ "configured" \in Place
    BY DEF Step
<1>r. at[j] # "none" /\ Return(j) => Placed
    <2>1. "delta" \in Kind  BY DEF Kind
    <2> QED  BY <1>p, <2>1, TypeGoto DEF Return, TypeOK
<1>c. "none" \in Condition  BY DEF Condition
<1>1. CASE \E k \in Kind : Take(j, k)
    <2>1. PICK k \in Kind : Take(j, k)
        BY <1>1
    <2>2. /\ at' \in [Job -> Place]
          /\ (\E i \in Job : at'[i] # "none") => decodeJob' # 0
        BY <2>1, <1>p, TypeGoto DEF Take
    <2> QED  BY <2>1, <2>2 DEF Take, TypeOK, codecs, fields, past
<1> HIDE DEF Placed
<1>2. CASE End(j)
    <2>1. Placed  BY <1>2, <1>g, <1>p DEF End
    <2> QED  BY <1>2, <2>1 DEF End, TypeOK, codecs, fields, past, Placed
<1>3. CASE Keep(j)
    <2>1. Placed  BY <1>3, <1>r DEF Keep
    <2>2. pending' \in Seq(Kind)
        BY <1>3 DEF Keep, TypeOK
    <2>3. UNCHANGED <<surface, codecs, csd, configured, waiting, ui, closed, past>>
        BY <1>3 DEF Keep
    <2>4. /\ at' \in [Job -> Place] /\ cancelled' \in [Job -> BOOLEAN]
          /\ packet' \in [Job -> Kind] /\ decodeJob' \in Job \cup {0}
          /\ (\E i \in Job : at'[i] # "none") => decodeJob' # 0
        BY <2>1 DEF TypeOK, Placed
    <2>5. /\ codec' \in Condition /\ leaked' \in BOOLEAN /\ taken' \in BOOLEAN
          /\ keyed' \in BOOLEAN /\ csd' \in BOOLEAN /\ configured' \in BOOLEAN
          /\ waiting' \in BOOLEAN /\ closed' \in BOOLEAN
          /\ disturbed' \in BOOLEAN /\ crossed' \in BOOLEAN
          /\ surface' \in {"none", "valid", "gone"}
          /\ ui' \in {"idle", "start", "null", "lost", "closing"} \cup Step
        BY <2>3 DEF TypeOK, codecs, past
    <2> QED  BY <2>2, <2>4, <2>5 DEF TypeOK
<1>4. CASE Test(j)
    <2>1. Placed  BY <1>4, <1>g, <1>p DEF Test, Same
    <2>2. /\ waiting' \in BOOLEAN
          /\ UNCHANGED <<surface, codecs, csd, configured, pending, ui, closed, past>>
        BY <1>4 DEF Test, TypeOK
    <2> QED  BY <2>1, <2>2 DEF TypeOK, codecs, past, Placed
<1>5. CASE StopOld(j)
    <2>1. Placed  BY <1>5, <1>g, <1>p DEF StopOld, Throws
    <2> QED  BY <1>5, <2>1, TypeCodec DEF StopOld, TypeOK, codecs, fields, past, Placed
<1>6. CASE NullOld(j)
    <2>1. Placed  BY <1>6, <1>g, <1>p DEF NullOld
    <2> QED  BY <1>6, <2>1, <1>c, TypeCodec DEF NullOld, TypeOK, fields, past, Placed
<1>7. CASE Reconfigure(j)
    <2>1. Placed  BY <1>7, <1>g, <1>p DEF Reconfigure
    <2>2. /\ SetFields(TRUE) \/ Create \/ CreateFails \/ Configured(TRUE)
          /\ UNCHANGED <<surface, ui, closed, crossed>>
        BY <1>7 DEF Reconfigure
    <2> QED  BY <2>1, <2>2, TypeConfigure DEF TypeOK, Placed
<1>8. CASE FeedPending(j)
    <2>1. pending' \in Seq(Kind)
        BY <1>8 DEF FeedPending, TypeOK
    <2>2. waiting' \in BOOLEAN /\ keyed' \in BOOLEAN
        BY <1>8, TypeQueue DEF FeedPending
    <2> QED  BY <1>8, <2>1, <2>2 DEF FeedPending, TypeOK, jobs, past
<1>9. CASE Feed(j)
    <2>1. Placed  BY <1>9, <1>r DEF Feed
    <2>2. waiting' \in BOOLEAN /\ keyed' \in BOOLEAN
        BY <1>9, TypeQueue DEF Feed, TypeOK
    <2> QED  BY <1>9, <2>1, <2>2 DEF Feed, TypeOK, past, Placed
<1> QED
    BY <1>1, <1>2, <1>3, <1>4, <1>5, <1>6, <1>7, <1>8, <1>9 DEF Decode

LEMMA TypeNext == TypeOK /\ [Next]_vars => TypeOK'
<1> SUFFICES ASSUME TypeOK, [Next]_vars
             PROVE  TypeOK'
    OBVIOUS
<1>1. CASE UNCHANGED vars
    BY <1>1 DEF TypeOK, vars, codecs, fields, jobs, past
<1>2. CASE Break
    BY <1>2 DEF Break, TypeOK, Condition, fields, jobs
<1> QED
    BY <1>1, <1>2, TypeUi, TypeJob DEF Next

\* The state of the decoder keeps its types.
THEOREM TypeCorrect == Spec => []TypeOK
<1> QED
    BY TypeInit, TypeNext, PTL DEF Spec

---------------------------------------------------------------------------
(* A job that was not cancelled is the one startDecoding launched last, and *)
(* runs only while the surface stays, the decoder is open and no callback   *)
(* is under way.                                                            *)

JobInv ==
    /\ \A j \in Job : Active(j) => /\ j = decodeJob
                                    /\ ui = "idle" /\ surface = "valid" /\ ~closed
    /\ ui \in Step \cup {"start"} => surface = "valid" /\ ~closed

\* The steps of a job start from a job that was launched, launch none, and leave the
\* user interface alone.
LEMMA JobStep ==
    ASSUME TypeOK, NEW j \in Job,
           (\E k \in Kind : Take(j, k)) \/ End(j) \/ Decode(j)
    PROVE  /\ at[j] # "none"
           /\ \A i \in Job : at'[i] = at[i] \/ i = j
           /\ UNCHANGED <<decodeJob, cancelled, ui, surface, closed, crossed>>
           /\ disturbed => disturbed'
<1> USE DEF Goto, Return, past, TypeOK
<1>1. CASE \E k \in Kind : Take(j, k)
    BY <1>1 DEF Take
<1>2. CASE End(j)
    BY <1>2 DEF End
<1>3. CASE Keep(j)
    BY <1>3 DEF Keep
<1>4. CASE Test(j)
    BY <1>4 DEF Test, Same
<1>5. CASE StopOld(j)
    BY <1>5 DEF StopOld
<1>6. CASE NullOld(j)
    BY <1>6 DEF NullOld
<1>7. CASE Reconfigure(j)
    <2>1. SetFields(TRUE) \/ Create \/ CreateFails \/ Configured(TRUE)
        BY <1>7 DEF Reconfigure
    <2> QED  BY <1>7, <2>1, TypeConfigure DEF Reconfigure
<1>8. CASE FeedPending(j)
    BY <1>8 DEF FeedPending, jobs
<1>9. CASE Feed(j)
    BY <1>9 DEF Feed
<1> QED
    BY <1>1, <1>2, <1>3, <1>4, <1>5, <1>6, <1>7, <1>8, <1>9 DEF Decode

LEMMA JobInit == Init => JobInv
BY DEF Init, JobInv, Active, Step

LEMMA JobNext == TypeOK /\ JobInv /\ [Next]_vars => JobInv'
<1> SUFFICES ASSUME TypeOK, JobInv, [Next]_vars
             PROVE  JobInv'
    OBVIOUS
<1>1. CASE UNCHANGED vars
    BY <1>1 DEF JobInv, Active, vars, jobs
<1>2. CASE SurfaceCreated
    BY <1>2 DEF SurfaceCreated, JobInv, Active, jobs
<1>3. ASSUME NEW next \in {"null", "closing"}, Stop(next)
      PROVE  JobInv'
    <2>1. \A j \in Job : ~Active(j)'
        BY <1>3 DEF Stop, JobInv, Active, TypeOK
    <2> QED  BY <1>3, <2>1 DEF Stop, JobInv, Step
<1>4. CASE SurfaceDestroyed
    BY <1>3, <1>4 DEF SurfaceDestroyed
<1>5. CASE Close
    BY <1>3, <1>5 DEF Close
<1>6. CASE UiConfigure
    BY <1>6 DEF UiConfigure, JobInv, Active, jobs, Step
<1>7. CASE StartDecoding
    <2>1. surface = "valid" /\ ~closed /\ ui' = "idle" /\ UNCHANGED <<surface, closed>>
        BY <1>7 DEF StartDecoding, JobInv
    <2>2. \A j \in Job : ~Active(j)
        BY <1>7 DEF StartDecoding, JobInv
    <2>3. CASE UNCHANGED jobs
        BY <2>1, <2>2, <2>3 DEF JobInv, Active, jobs
    <2>4. ASSUME NEW j \in Job, decodeJob' = j, at' = [at EXCEPT ![j] = "take"],
                 cancelled' = [cancelled EXCEPT ![j] = FALSE]
          PROVE  \A i \in Job : Active(i)' => i = decodeJob'
        BY <2>2, <2>4 DEF Active, TypeOK
    <2> QED  BY <1>7, <2>1, <2>3, <2>4 DEF StartDecoding, JobInv
<1>8. CASE StopEnds
    BY <1>8 DEF StopEnds, JobInv, Active, jobs, Step
<1>9. CASE SurfaceLost
    BY <1>9 DEF SurfaceLost, JobInv, Active, jobs, Step
<1>10. CASE Break
    BY <1>10 DEF Break, JobInv, Active, jobs
<1>11. ASSUME NEW j \in Job,
              (\E k \in Kind : Take(j, k)) \/ End(j) \/ Decode(j)
       PROVE  JobInv'
    <2>1. \A i \in Job : Active(i)' => Active(i)
        BY <1>11, JobStep DEF Active
    <2> QED  BY <1>11, <2>1, JobStep DEF JobInv
<1> QED
    BY <1>1, <1>2, <1>4, <1>5, <1>6, <1>7, <1>8, <1>9, <1>10, <1>11
    DEF Next, Callback, Ui

\* Never do two jobs that were not cancelled take packets from the same channel
\* (StreamScreen.kt:71-91, VideoDecoder.kt:88, 234).
THEOREM OneActiveCorrect == Spec => []OneActive
<1>1. Init => TypeOK /\ JobInv
    BY TypeInit, JobInit
<1>2. TypeOK /\ JobInv /\ [Next]_vars => (TypeOK /\ JobInv)'
    BY TypeNext, JobNext
<1>3. JobInv => OneActive
    BY DEF JobInv, OneActive
<1> QED
    BY <1>1, <1>2, <1>3, PTL DEF Spec

---------------------------------------------------------------------------
(* On a clean surface, one for which no callback met a job inside decode    *)
(* and no codec failed, who assigns the field `codec` has just released     *)
(* what it holds: a job decodes only while the user interface is idle, and  *)
(* no other job decodes with it.  What an earlier surface left in the field *)
(* is still there before configure has released it, and no codec holds a    *)
(* surface that is not there.                                               *)

Clean == ~disturbed /\ ~crossed
Free  == codec \in {"none", "released"}

LeakInv ==
    /\ surface # "valid" => ~taken /\ codec # "running"
    /\ Clean => /\ ~leaked /\ ~taken
                /\ \A j \in Job : Busy(j) => Active(j)
                /\ \A j \in Job : at[j] \in {"null", "create"} => Free
                /\ ui \in {"create", "null", "closing", "lost"} \/ closed => Free
                /\ codec = "dead" => ui = "release"

LEMMA LeakInit == Init => LeakInv
BY DEF Init, LeakInv, Busy, Free

\* Who assigns a free field loses no codec; stop leaves it free unless it throws.
LEMMA FreeCodec ==
    ASSUME TypeOK
    PROVE  /\ Release => Free' /\ UNCHANGED <<leaked, taken>>
           /\ StopAndRelease => /\ codec' # "running" /\ (codec # "dead" => Free')
                                /\ UNCHANGED <<leaked, taken>>
           /\ \A c : Free /\ Assign(c) => codec' = c /\ (leaked' <=> leaked) /\ (taken' <=> taken)
           /\ \A c : codec # "running" /\ Assign(c) => (taken' <=> taken)
    BY DEF TypeOK, Condition, Free, Release, StopAndRelease, Assign, Unreleased

\* A step of configure loses no codec either, on a surface that is there and not
\* taken, or a codec fails; on one that is not there it makes none.
LEMMA FreeConfigure ==
    ASSUME TypeOK, NEW b \in BOOLEAN
    PROVE  /\ SetFields(b) => Free' /\ UNCHANGED <<leaked, taken, disturbed>>
           /\ Create => /\ codec' = "running" /\ surface = "valid"
                        /\ (Free => (leaked' <=> leaked) /\ (taken' <=> taken))
           /\ CreateFails => /\ codec' = codec
                             /\ (surface # "valid" => (taken' <=> taken))
                             /\ (Free /\ surface = "valid" /\ ~taken => disturbed')
           /\ Configured(b) => UNCHANGED <<codec, leaked, taken, disturbed>>
<1>1. SetFields(b) => Free' /\ UNCHANGED <<leaked, taken, disturbed>>
    BY FreeCodec DEF SetFields
<1>2. Create => /\ codec' = "running" /\ surface = "valid"
                /\ (Free => (leaked' <=> leaked) /\ (taken' <=> taken))
    BY FreeCodec DEF Create, Creatable, Assign
<1>3. CreateFails => /\ codec' = codec
                     /\ (surface # "valid" => (taken' <=> taken))
                     /\ (Free /\ surface = "valid" /\ ~taken => disturbed')
    BY DEF CreateFails, Creatable, Free, TypeOK
<1>4. Configured(b) => UNCHANGED <<codec, leaked, taken, disturbed>>
    BY DEF Configured, codecs
<1> QED  BY <1>1, <1>2, <1>3, <1>4

\* The steps of the user interface: a clean surface stays clean only if they meet no
\* job inside decode.
LEMMA LeakUi == TypeOK /\ JobInv /\ LeakInv /\ (Callback \/ Ui) => LeakInv'
<1> SUFFICES ASSUME TypeOK, JobInv, LeakInv, Callback \/ Ui
             PROVE  LeakInv'
    OBVIOUS
<1>b. Clean /\ ui # "idle" => \A j \in Job : ~Busy(j)
    BY DEF LeakInv, JobInv
<1>1. CASE SurfaceCreated
    <2>1. /\ surface # "valid" /\ surface' = "valid" /\ ~closed' /\ ui' = "release"
          /\ ~leaked' /\ UNCHANGED <<codec, taken, at>>
          /\ disturbed' = (\E j \in Job : Busy(j))
        BY <1>1 DEF SurfaceCreated, jobs
    <2>2. Clean' => \A j \in Job : ~Busy(j)'
        BY <2>1 DEF Clean, Busy
    <2> QED  BY <2>1, <2>2 DEF LeakInv, Busy
<1>2. ASSUME NEW next \in {"null", "closing"}, ui = "idle", Stop(next)
      PROVE  LeakInv'
    <2>1. /\ StopAndRelease /\ UNCHANGED <<surface, at>> /\ ui' = next
          /\ Clean' => Clean /\ \A j \in Job : ~Busy(j)
        BY <1>2 DEF Stop, Clean, TypeOK
    <2>2. surface' # "valid" => ~taken' /\ codec' # "running"
        BY <2>1, FreeCodec DEF LeakInv
    <2>3. Clean' => ~leaked' /\ ~taken' /\ Free'
        BY <1>2, <2>1, FreeCodec DEF LeakInv
    <2>4. Clean' => \A j \in Job : ~Busy(j)'
        BY <2>1 DEF Busy
    <2> QED  BY <2>2, <2>3, <2>4 DEF LeakInv, Busy, Free
<1>3. CASE SurfaceDestroyed
    BY <1>2, <1>3 DEF SurfaceDestroyed
<1>4. CASE Close
    BY <1>2, <1>4 DEF Close
<1>5. CASE UiConfigure
    <2>1. /\ surface = "valid" /\ ~closed /\ ui # "idle"
          /\ UNCHANGED <<surface, closed, at, cancelled, crossed>>
          /\ SetFields(FALSE) \/ Create \/ CreateFails \/ Configured(FALSE)
        BY <1>5 DEF UiConfigure, JobInv, jobs, Step
    <2>2. Clean' => Clean
        BY <2>1, TypeConfigure DEF Clean
    <2>3. Clean' => \A j \in Job : ~Busy(j)'
        BY <1>b, <2>1, <2>2 DEF Busy
    <2>4. /\ ui' \in {"create", "configured", "start"}
          /\ Clean' => /\ ~leaked' /\ ~taken'
                       /\ ui' = "create" => Free'
                       /\ codec' # "dead"
        BY <1>5, <2>1, <2>2, FreeConfigure DEF UiConfigure, LeakInv, Clean, Free
    <2> QED  BY <2>1, <2>3, <2>4 DEF LeakInv, Busy
<1>6. CASE StartDecoding
    <2>1. /\ ui = "start" /\ ui' = "idle"
          /\ UNCHANGED <<surface, codecs, closed, past>> /\ ~closed
        BY <1>6 DEF StartDecoding, JobInv
    <2>2. Clean' => \A j \in Job : ~Busy(j)'
        BY <1>6, <2>1, <1>b DEF StartDecoding, Busy, Clean, jobs, past, TypeOK
    <2> QED  BY <2>1, <2>2 DEF LeakInv, Busy, Clean, Free, codecs, past
<1>7. CASE StopEnds
    <2>1. /\ ui \in {"null", "closing"} /\ ui' \in {"lost", "idle"} /\ Assign("none")
          /\ UNCHANGED <<surface, at, cancelled, past>>
        BY <1>7 DEF StopEnds, jobs
    <2>2. codec' = "none" /\ (Clean' => Clean)
        BY <2>1 DEF Assign, Clean, past
    <2>3. surface' # "valid" => ~taken'
        BY <2>1, FreeCodec DEF LeakInv
    <2>4. Clean' => ~leaked' /\ ~taken'
        BY <2>1, <2>2, FreeCodec DEF LeakInv
    <2>5. Clean' => \A j \in Job : ~Busy(j)'
        BY <2>1, <2>2, <1>b DEF Busy
    <2> QED  BY <2>2, <2>3, <2>4, <2>5 DEF LeakInv, Busy, Free
<1>8. CASE SurfaceLost
    <2>1. /\ ui = "lost" /\ ui' = "idle" /\ ~taken' /\ codec' # "running"
          /\ codec # "running" => codec' = codec
          /\ UNCHANGED <<leaked, at, cancelled, past>>
        BY <1>8 DEF SurfaceLost, jobs
    <2>2. Clean' => Clean /\ Free /\ ~leaked' /\ codec' = codec
        BY <2>1 DEF LeakInv, Clean, Free, past
    <2>3. Clean' => \A j \in Job : ~Busy(j)'
        BY <2>1, <2>2, <1>b DEF Busy
    <2> QED  BY <2>1, <2>2, <2>3 DEF LeakInv, Busy, Free
<1> QED
    BY <1>1, <1>3, <1>4, <1>5, <1>6, <1>7, <1>8 DEF Callback, Ui

\* A job inside decode is alone there, and the user interface is idle.
LEMMA LeakJob ==
    ASSUME TypeOK, JobInv, LeakInv, NEW j \in Job,
           (\E k \in Kind : Take(j, k)) \/ End(j) \/ Decode(j)
    PROVE  LeakInv'
<1>0. /\ \A i \in Job : at'[i] = at[i] \/ i = j
      /\ at[j] # "none" /\ UNCHANGED <<cancelled, ui, surface, closed, crossed>>
      /\ Clean' => Clean
    BY JobStep DEF Clean
<1> USE DEF TypeOK
<1>1. CASE (\E k \in Kind : Take(j, k)) \/ End(j)
    <2>1. /\ UNCHANGED <<codec, leaked, taken>>
          /\ at'[j] = "none" \/ (at'[j] = "test" /\ ~cancelled[j])
        BY <1>1 DEF Take, End, Goto, codecs
    <2>2. Clean' => \A i \in Job : Busy(i)' => Active(i)'
        BY <1>0, <2>1 DEF LeakInv, Busy, Active
    <2> QED  BY <1>0, <2>1, <2>2 DEF LeakInv, Free
<1>2. CASE Decode(j)
    <2>1. Busy(j)
        BY <1>2 DEF Decode, Keep, Test, Same, StopOld, NullOld, Reconfigure, FeedPending,
                    Feed, Busy
    <2>2. Clean' => Active(j) /\ ui' = "idle" /\ ui = "idle" /\ surface = "valid" /\ ~closed'
        BY <1>0, <2>1 DEF LeakInv, JobInv
    <2>3. Clean' => \A i \in Job \ {j} : ~Busy(i) /\ ~Busy(i)'
        BY <1>0, <2>2 DEF LeakInv, JobInv, Busy
    <2>4. Clean' => \A i \in Job : Busy(i)' => Active(i)'
        BY <1>0, <2>2, <2>3 DEF Active, Busy
    <2>5. SUFFICES /\ surface # "valid" => (taken' <=> taken) /\ codec' # "running"
                   /\ Clean' => /\ ~leaked' /\ ~taken' /\ codec' # "dead"
                                /\ at'[j] \in {"null", "create"} => Free'
        BY <1>0, <2>2, <2>3, <2>4, <2>5 DEF LeakInv, Busy
    <2>6. /\ surface # "valid" => codec # "running"
          /\ Clean' => ~leaked /\ ~taken /\ codec # "dead"
        BY <1>0, <2>2 DEF LeakInv
    <2> USE DEF Goto, Return
    <2>7. CASE Keep(j) \/ Test(j) \/ Feed(j)
        BY <2>6, <2>7 DEF Keep, Test, Feed, codecs
    <2>8. CASE StopOld(j)
        BY <2>6, <2>8, FreeCodec DEF StopOld, Throws, Free
    <2>9. CASE NullOld(j)
        <3>1. Assign("none") /\ at[j] = "null" /\ at'[j] = "release" /\ codec' = "none"
            BY <2>9 DEF NullOld, Assign
        <3>2. Clean' => Free
            BY <1>0, <3>1 DEF LeakInv
        <3> QED  BY <2>6, <3>1, <3>2, FreeCodec
    <2>10. CASE Reconfigure(j)
        <3>1. Clean' /\ at[j] = "create" => Free
            BY <1>0 DEF LeakInv
        <3>2. CASE at[j] = "release" /\ SetFields(TRUE)
            BY <2>6, <3>2, FreeConfigure DEF Free
        <3>3. CASE at[j] = "create" /\ Create /\ at'[j] = "configured"
            BY <2>6, <3>1, <3>3, FreeConfigure DEF Free
        <3>4. CASE at[j] = "create" /\ CreateFails /\ at'[j] = "feed"
            BY <2>2, <2>6, <3>1, <3>4, FreeConfigure DEF Clean
        <3>5. CASE at[j] = "configured" /\ Configured(TRUE) /\ at'[j] = "feed"
            BY <2>6, <3>5, FreeConfigure
        <3> QED  BY <2>10, <3>2, <3>3, <3>4, <3>5 DEF Reconfigure
    <2>11. CASE FeedPending(j)
        BY <2>1, <2>6, <2>11 DEF FeedPending, jobs, Busy
    <2> QED  BY <1>2, <2>7, <2>8, <2>9, <2>10, <2>11 DEF Decode
<1> QED  BY <1>1, <1>2

LEMMA LeakNext == TypeOK /\ JobInv /\ LeakInv /\ [Next]_vars => LeakInv'
<1> SUFFICES ASSUME TypeOK, JobInv, LeakInv, [Next]_vars
             PROVE  LeakInv'
    OBVIOUS
<1>1. CASE UNCHANGED vars
    BY <1>1 DEF LeakInv, Clean, Busy, Active, Free, vars, codecs, jobs, past
<1>2. CASE Break
    BY <1>2 DEF Break, LeakInv, Clean
<1> QED
    BY <1>1, <1>2, LeakUi, LeakJob DEF Next

\* Every codec made for a surface is released, and one that an earlier surface left in
\* the field is too, unless since the surface was created stop found a job inside decode,
\* a job of an earlier surface was still there, or a codec failed: what these leave behind
\* costs no later surface a codec (VideoDecoder.kt:58, 123, 237, 241).
THEOREM NoLeakCorrect == Spec => []NoLeak
<1>1. Init => TypeOK /\ JobInv /\ LeakInv
    BY TypeInit, JobInit, LeakInit
<1>2. TypeOK /\ JobInv /\ LeakInv /\ [Next]_vars => (TypeOK /\ JobInv /\ LeakInv)'
    BY TypeNext, JobNext, LeakNext
<1>3. LeakInv => NoLeak
    BY DEF LeakInv, NoLeak, Held, Clean, Free, Unreleased
<1> QED
    BY <1>1, <1>2, <1>3, PTL DEF Spec
=============================================================================
