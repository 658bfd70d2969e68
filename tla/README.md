# A formal model of drawing_tablet

drawing_tablet turns an Android tablet into a pen tablet and second screen of a
Linux desktop. A Rust server (`crates/`) captures the screen, encodes it and sends
it over UDP; an Android app (`android/`) shows it and sends pen and touch events
back over TCP, which the server plays into two virtual input devices.

This directory holds TLA+ modules of the parts of it whose correctness depends on
the order of events: threads and tasks that race, queues that overflow, writes that
fail, clients that come and go. TLC checks small instances (the `.cfg` files); the
`...Proofs` modules hold theorems for every value of the constants, checked by TLAPS.

## 1. Inventory

| Component | Code | State | Operations | Interacts with |
|---|---|---|---|---|
| Virtual tablet | `dt-input/tablet.rs`, `events.rs` | stylus state, ten touch slots, proximity, last pen activity, the cached slot; the kernel's view of both devices | `process_event` and a handler per kind of event | called by the main loop; writes to uinput |
| Event retimer | `dt-input/retimer.rs` | a bounded queue of packets with target times, a clock offset, the last emission | `push`, `drain_ready`, `reset` | called by the main loop |
| Main loop | `dt-server/main.rs:223-567` | current client, keyframe request, heartbeat time | a `select!` over accept, messages and a 100 µs sleep, then the work of a pass | all of the above and below |
| TCP server | `dt-server/network.rs:76-239` | senders of the connected clients; per connection a task with a channel | `accept`, `send_to_client`, `disconnect_client`, `handle_tcp_client` | main loop, sockets |
| Screen capture | `dt-capture/pipewire.rs` | a channel of ten frames, a stop flag | the PipeWire callback, `try_recv_frame`, drop | main loop |
| Encoder thread | `main.rs:244-272`, `dt-encoder/vaapi.rs` | `force_keyframe`, the frames inside GStreamer | `encode`, `request_keyframe` | channels of 1 and 2 frames, two flags |
| Client connection | `NetworkClient.kt`, `MainActivity.kt` | sockets, connection state, three jobs; which client the app uses, the count of lost connections | `connect`, `disconnect`, `close`, the loops; the effects that connect and watch | TCP server, the UI |
| Frame reassembly | `NetworkClient.kt:313-433` | buffers of incomplete frames, a channel of 2 | `assembleFragment` | UDP, the decoder |
| Video decoder | `VideoDecoder.kt`, `StreamScreen.kt` | codec, waiting packets, `waitingForKeyframe`, the decoding job | `configure`, `startDecoding`, `decode`, `stop`, `close` | surface callbacks, the channel |
| Input capture | `InputCapture.kt` | last button state, touch switch | `processMotionEvent` | `sendInput` |
| Server control | `gui.rs`, `main.rs:67-222` | running flag, task handle, status, the client shown | `start_server`, `stop_server`, `update` | main loop |
| Codec | `packets.rs`, `codec.rs`, `Protocol.kt` | none | encode, decode | everything |

Not part of the protocol: the gesture detector (no caller), the software encoder (a
stub), the portal (one call of an external service), the lookups of service discovery
(external protocols), configuration and layout.

What is hard, and what makes each part correct:

* **Tablet**: two devices and one palm-rejection timer; a cached slot number and
  per-slot flags that must agree with the kernel though a forced release bypasses
  one of them; writes that fail half way; lifts that never come. Correct: no finger
  beside the pen, exactly the wanted contacts otherwise, one serial number.
* **Retimer**: client timestamps that jump, a bound that drops, a buffer that outlives
  its client. Correct: order, nothing of one client for the next, a bound on how long a
  packet waits.
* **Pipeline**: three bounded channels, two threads and a shutdown that joins one
  of them; a request handed through three flags and an event. Correct: no deadlock,
  every stop ends unless a client blocks the loop, no request lost.
* **Session**: clients that displace, leave, stall or die, messages still in the
  channel, an `accept` that can be cancelled, a framing that can be lost. Correct:
  only the current client is served or sent to; whoever is gone is noticed, whoever
  was displaced finds out; the main loop and a task do not wait for each other.
* **Reassembly**: loss, repetition, reordering, eviction. Correct: complete frames
  are delivered, once for each time they came.
* **Decoder**: callbacks of the user interface and a coroutine that write the same
  fields. Correct: one job takes packets, what went wrong before a surface came costs it
  no codec, the picture comes back.
* **Server control**: a flag, a handle and a status shared by the window, the task of a
  server and its cleanup. Correct: never two servers, none stopped by an earlier
  one, a window that tells the truth, a server that can be started again.
* **Auto-connect**: two effects that a composition launches and that write the state
  the next composition reads. Correct: no endless loop of attempts, no use of a closed
  client, a lost connection is noticed.

`PROJECT.json` lists the hazards by line, with the properties for each.

## 2. Modules

| Module | Models | Checked through | Proofs |
|---|---|---|---|
| `VirtualTablet` | `tablet.rs`, `events.rs` | `MCVirtualTablet` | `VirtualTabletProofs` |
| `TouchSession` | `VirtualTablet` driven by the fingers of clients | `MCTouchSession` | `VirtualTabletProofs` |
| `LossyFifo` | abstract: a queue that loses its oldest item and serves one owner at a time | `Retimer.cfg` | `EventRetimerProofs` |
| `EventRetimer` | `retimer.rs` and its caller | `MCEventRetimer` | `EventRetimerProofs` |
| `VideoPipeline` | `pipewire.rs`, the loop and the encoder thread of `main.rs`, `vaapi.rs` | `MCVideoPipeline` | `VideoPipelineProofs` |
| `Session` | `network.rs`, the client record of `main.rs`, `NetworkClient.kt` | `MCSession` | `SessionProofs` |
| `OneClient` | abstract: one current client, what a connection is promised | `Session.cfg` | `SessionProofs` |
| `FrameReceiver` | `assembleFragment` and its channel | itself | `FrameReceiverProofs` |
| `VideoDecoder` | `VideoDecoder.kt`, the callbacks of `StreamScreen.kt` | itself | `VideoDecoderProofs` |
| `ServerControl` | `gui.rs`, the start of a server and its statistics in `main.rs` | itself | `ServerControlProofs` |
| `AutoConnect` | `MainActivity.kt`, the list of `ServiceDiscovery.kt` | `MCAutoConnect` | `AutoConnectProofs` |

`TouchSession` extends `VirtualTablet`; the other modules stand side by side. Each takes
of the main loop what its question needs: `Session` the client and the channels to the
connections, `VideoPipeline` the frames and the shutdown, `EventRetimer` the calls of
the retimer, `ServerControl` the passes and what the window is told.

Definitions called `...` with a comment `Mutant of X` are variants of `X` with a
plausible bug. No specification uses them; they show that the properties can fail.

### VirtualTablet

One call of `process_event` is a sequence of steps, `pc` says where it is. A pen
event begins with `BeginStylus`; if the pen was not used within the last second the
slots are released one by one (`ReleaseSlot`, `ReleaseDone`), then the state is
updated (`UpdateContact`, `UpdateUp`, `UpdateButton`), the tool is announced if
needed (`EnterProximity`) and the batch is written (`EmitStylus`). A touch event
changes its slot (`TouchDown`, `TouchMove`, `TouchUp`) and `SyncSlot` runs once for
each slot, `index` being the loop variable. Every action that writes has a `...Fails`
twin, enabled when `EmitMayFail`: the `?` of the code returns at once and leaves what
was assigned before (`FailedStep`). The history variable `failed` says that some write
has failed; most properties speak of the time before that, `HoverWithoutPressure` and
`SerialOnce` (in part) of the time afterwards too. The kernel's state is
`osTool .. osPos`: writes to a slot go to `osSlot`, the last slot selected, not to the
slot the code means. A refused batch of `enter_proximity` may or may not have reached
the device, since the error may come from the SYN_REPORT after it. An event without
effect is a stuttering step.

`last_pen_activity` is the Boolean `penRecent`, cleared by `Timeout` at any moment,
also inside a handler. Tilt and pen coordinates are left out; a pressure is a number
after normalisation.

### TouchSession

The events of `VirtualTablet` as a screen can produce them: a finger goes down, moves,
is lifted (`InputCapture.kt:125-183`). `rejected` remembers the fingers that were on
the glass while the pen was used or that found no free slot. Four things leave the
tablet with fingers that are not on the glass, or the other way round: `ClientLost` (the
glass changes and the tablet keeps its state), `Cancel` (Android takes the gesture
away, `ACTION_CANCEL` lifts only the finger of the action index although all have
gone), `Swallow` (touch input is switched off, or the event holds a palm, and the lift
is not sent) and `OutOfTurn` (each event is sent by a coroutine of its own, so that a
down or a lift comes when it does not belong). `orphaned` says that one of them
happened since the last forced release.

### EventRetimer and LossyFifo

`Push`, `Drain` and `Reset` are the three calls of the main loop. `Drain` takes at
most one packet: the second round of the loop in `drain_ready` finds the interval not
over. `Reset` is part of `Accept` and of `Leave` (`main.rs:315, 367, 421`), not of
`Refuse`: a client of another version is sent off with `continue` (`main.rs:355-357`),
and what it had sent is still emitted. Time is `now`; `Poll` bounds the time between two
calls of `drain_ready`, because the code calls it whenever the 100 µs sleep wins the
`select!`. `Fifo` maps the client to the owner of the abstract queue, and the buffer,
without target times, and the packet emitted last to its items. The queue is empty when an
owner takes over, directly from another one or after nobody.

### VideoPipeline

Three processes: the capture callback (`Capture`), the main loop (`loop` is `top`,
`select`, `forward`, `send`, one of `Sending` while it waits in `send_to_client`, and
`close`, `join`, `drop` for the shutdown) and the encoder thread (`encoder` is `top`, `recv`, `swap`, `encode`, `pull`, `send`). A frame
carries the number of the client that was connected when it was captured. `Sent` ends
the wait of `send_to_client` (`main.rs:354, 361, 527`; `network.rs:157`); it is no step of
the loop but of the task that makes room, and frames go on arriving meanwhile. GStreamer
holds back up to `Latency` frames and turns into a keyframe at least the frame after a
force-key-unit event. The call of `encode` is two steps of the encoder thread, `Encode`
(the event and the push) and `Pull` (the wait for a sample). At most `MaxErrors` of its
error paths are taken, at any point: before the request is looked at or by a panic
(`EncodeFails`), an event that is refused, which is only logged (`SendEvent`), a push
that is refused (`PushFails`), a sample without a buffer (`Pull`). The history variable
`owed` is a request that should still be answered: it is cleared when GStreamer itself
refuses the event or hands out the keyframe without its data.

### Session and OneClient

A connection is one `NetworkClient`. Its client side goes `new`, `waiting`,
`connected`, then `error` or `gone`; its server side is the task `handler` with the
bounded channel `outgoing`; `up` and `down` are what TCP carries. The main loop takes
one branch of the `select!` (`Accept`, `AcceptDropped`, `Receive`, `Sleep`) and then the
rest of the pass: a message to the client is a place of its own in the loop (`ack`,
`nack`, `beat`), where `Send` waits for room (`send_to_client`, `network.rs:153-164`).
It holds the lock on the senders meanwhile, so that no task can be removed.
`AcceptDropped` is the cancellation of `accept` between the connection and that lock.

`Write` is the branch of the task that writes a message: when a header has come in part,
the read that held it is cancelled and the stream has lost its framing, which puts the
connection into `cut` (`network.rs:193-231`). From then on `ReadGarbled` takes what
comes for a header or a payload of any length, which may never end (`payload`) and is
assumed not to decode. `Work` is any message that only a current client's session
handles. With `MayBeOld` an app may be of another protocol version (`old`, chosen at
`Dial`), with `MayGiveUp` it may be closed before its sockets are opened.

`OneClient` is what all this is for, with no channel, task or loop in it: the newest
connection takes the place of the current one; a connection joins only after it was
offered the place, which it is only while it is the current client; it joins once; and
only what the current client asked for is done. `Promise` maps the session to it: an
offer (`Offered`) is a ConnectAck in the channel to the task or on the wire, who has
joined believes to be `connected`, who has asked has sent `Work`.

### FrameReceiver

`Send` puts the fragments of a frame into the network, which may lose them, deliver
them twice, or deliver one before those of up to `Reorder` earlier frames. `Assemble`
is `assembleFragment`. `Evicted` is the set the eviction loop removes: the lowest
sequences as long as more than `MaxPending` are pending, never past the one whose
fragment has just come.

### VideoDecoder

The user interface (`ui`) runs the callbacks of the surface one after the other:
`SurfaceCreated` (`configure`, `startDecoding`), `SurfaceDestroyed` (`stop`) and `Close`
(`onDispose`). A job is the coroutine of `startDecoding`; `at[j]` is its place in
`decode`. Two can exist, because a cancelled one finishes its packet. `configure` is
three steps wherever it is called from (`SetFields`, `Create`, `Configured`), `stop` and
the release of the old codec in `decode` are two each, and nothing orders the steps of
the user interface and those of a job. `codec` is the condition of the codec in the
field; of the others the model keeps that one was never released since the surface was
created (`leaked`), and that such a one still holds the surface (`taken`), so that no other
can be configured for it. The error paths are those of the code: when `codec.stop()`
throws (`Throws`: the codec has failed or was released), the release that follows is
skipped (`StopAndRelease`), after which `stop` sets the field to null all the same
(`VideoDecoder.kt:241`) and `decode` keeps it (`:124`); `configure` may fail on a good
surface too (`CreateFails`), before there is a new codec or after. `disturbed` and
`crossed` are the history since the surface was created: that a job of an earlier surface
was still inside `decode` or a codec failed, and that `stop` found a job inside `decode`.

### ServerControl

The window draws in three steps (`read` the flag, `clean` up the handle of a finished
task, `click`), as `gui.rs:164-171, 253-257` do. A server is a task that goes through
`dialog`, `init` and the passes of its loop (`top`, `select`, `show`, `send`) to `failed`
or `join`, then `ended`, `stopped` (the flag lowered) and `finished` (the status and the
client cleared). `told` is the history of the servers that were told to stop or lost
their encoder. `Show` is the renewal of the statistics with every 60th frame
(`main.rs:428-434`); `Period` stands for 60.

### AutoConnect

The main thread runs what was launched, `queue`, in order, and composes again when it is
empty and something the composition read (`composed`) has changed. A composition
launches the effects whose keys have changed in the order of the source: `ConnectAuto`
(`MainActivity.kt:91-104`) and `Watch` (`:106-136`). `Connect` is the coroutine that
`connectTo` launches. Connections are made and lost by other threads (`Connected`,
`Fails`), the list of servers changes at any time (`Discover`), the user taps (`Tap`),
and the activity is destroyed and opened again (`Destroy`). `tries` counts the automatic
attempts since the user acted or a connection was stable (`Stable`).

## 3. Runs

Bounds are chosen so that every queue overflows or fills and every race has its two
actors; what each bound excludes is said here. A type invariant is proved for all values
of the constants in eight modules (section 4), so the runs do not check it again.

| Run | Checks | Bounds and why they are enough |
|---|---|---|
| `Tablet` | `PenAlone`, `PressureOnlyInStroke`, `SerialOnce`, `HoverWithoutPressure`, `NoTouchUnderPen` | every kind of pen event with every pressure of 0 and 1 (the forced one is 1), a known and an unknown button; two slots and one finger, which may come down twice, so that contacts are shown; every write may fail |
| `TouchSession` | `RejectedStaysRejected`, `OneFingerIgnored`, `PalmRejected`, `GestureFilter` | three slots and four fingers: two shown ones, a free slot between them and a finger that finds none; one position (1.3 million states; positions are told apart in no guard); clients are lost, gestures cancelled, lifts swallowed and events overtaken at any time; the pen only hovers, which releases touches as a stroke does; no write fails |
| `Retimer` | `WaitBound`, `FifoSpec` | a buffer of two packets, four events, so that it overflows twice; two clients that replace each other, leave and are refused; timestamps before, at and far after the first; times up to 8, at which `WaitBound` is reached exactly (a bound one lower is violated) |
| `Pipeline` | `JoinSafe`, `RequestKept`, `StopEnds`, `KeyframeServed`, `DeadEncoderStops` | channels of 1 and 2 as in the code, a capture channel of 2 instead of 10 (it only has to overflow); one client, one frame for each pass and any number while the loop waits to send a message, one frame held back in GStreamer, one error anywhere; the liveness properties have the hypothesis `Unblocked` (650 000 states) |
| `Session` | `OnlyClientSends`, `RefusedStaysOut`, `BlockedByCut`, `NoReturn`, `OneAtATime` | two connections (displacement has two actors) of either version, one message of work each, three heartbeats, a channel of one message where the code has 256, so that tasks wait for it, and of two messages to a client where the code has 64, so that it fills; apps stall and leave, and the framing may be lost (2.4 million states); a client that is given up while it connects is in `SessionLive` |
| `SessionLive` | `GoneIsNoticed`, `PortIsLearned`, `DisplacedFindsOut` | two connections that do not stall, so that only the code can end them; the user may give one up while it connects; one heartbeat; the framing may be lost. The channel to a client never fills with one heartbeat, so that the main loop is never blocked here, and no client fails of itself (`MayStall` is false): see below |
| `Receiver` | `Complete`, `OncePerRound`, `ChannelIsNewest` | four frames of two fragments, two pending buffers (three in the code) so that frames are evicted, a channel of one (two in the code), reordering over one frame, any fragment lost or delivered twice |
| `VideoDecoder` | `OneActive`, `NoLeak`, `Recovers` | two jobs, at most one packet kept before a keyframe, callbacks at every step of a job, a codec that fails for good or cannot be made (490 000 states) |
| `ServerControl` | `OneServer`, `Undisturbed`, `AtRest`, `Restartable` | three servers, so that one has a predecessor and a successor; a period of three frames, two frames on their way; the start and the loop fail at every step (10 000 states) |
| `AutoConnect` | `LoopEnds`, `CurrentIsOpen`, `ErrorIsNoticed` | three clients: one in use, one given up and alive, one to take its place; two lost connections disable auto-connect where the code has three, which leaves a retry between them (three holds too, and takes three minutes) |

`Retimer`, `Pipeline`, `Receiver` and `VideoDecoder` turn the deadlock check off: the
bounds on events, time and frames end those instances, the server stops for good, and a
decoder that was closed does nothing more. It is on for the tablet, the session, the
server control and the app's connects, where somebody can always act: there it says that
the main loop and the tasks never all wait for each other.

Runs that are expected to fail, each on one property that a comment of the repository
states:

| Run | Property | What the counterexample shows |
|---|---|---|
| `AppReconnect` | `Reconnects` | a connection is lost while its server stays listed. `Watch` sets `currentClient = null`; the next composition launches `ConnectAuto`, which connects a new client, and then `Watch`, which still sees `Disconnected`, counts a second failure and sets `currentClient = null` again. The key of `ConnectAuto` was null in both compositions, so it does not run any more: the new client connects and is used by nobody (`MainActivity.kt:116`, against `:129-130`) |
| `LeftClient` | `LeftIsHidden` | the statistics are renewed when `sequence` is a multiple of 60, and frames are encoded only for a client: once it has left, the sequence stands still and the window goes on showing it (`main.rs:429`, against `:428`) |

Seen while modelling, without a run of their own. None of these contradicts a statement
of the repository clearly enough to be called an error of the code:

* Tablet. `last_pen_activity` is set before the release succeeds (`tablet.rs:257`), so a
  finger stays down when a write of the release fails; `PenAlone` therefore speaks of the
  time before a failure, and no property covers what comes after it. A forced release leaves `reported_to_os` set (`tablet.rs:323`),
  which is harmless: `GestureFilter` holds all the same. Fingers of a lost client keep
  their slots, so that one finger of the next may be shown; its pen and buttons stay down
  as well. `ACTION_CANCEL` lifts one finger only (`InputCapture.kt:175-182`). With such
  orphaned fingers a rejected or a lone finger may be shown: `RejectedStaysRejected` and
  `OneFingerIgnored` leave that time out, `PalmRejected` and `GestureFilter` do not.
* Retimer. The bound drops the oldest packet, a pen up as well as a move, after TCP
  delivered it; and `MAX_DELAY_MS` bounds the target of a packet, not how long it waits:
  `WaitBound` is what holds. What a client of another version sent before its Connect
  was read is played into the tablet after it was refused.
* Pipeline. Frames captured while nobody was connected are sent to the next client first
  (two at most).
* Session. An overdue heartbeat precedes ConnectAck and the app takes it for an error. A
  client closed before its sockets were opened connects all the same, and takes the place
  of its successor. When a connection has lost its framing and its task waits for the
  rest of a message, heartbeats fill the channel to it and the main loop waits in
  `send_to_client`. The client gives up after its timeout, but its receive loop breaks off
  without closing the socket (`NetworkClient.kt:296`) and its heartbeats end
  (`NetworkClient.kt:357`), so that the wait may last until the user chooses another
  server or the app ends: the main loop then serves nobody and does not see a stop.
  `BlockedByCut` says when this can begin; no property says that it ends. `GoneIsNoticed`
  speaks of clients that have closed, and the bounds of its run never fill the channel. The `else` branch of the `select!` in `handle_tcp_client` is never taken.
* Reassembly. A fragment of an old frame may be pending beside `MaxPending` newer ones,
  since the eviction stops at the frame whose fragment came; and a frame completed late
  is decoded after a newer one.
* Decoder. `configure` on a surface that is gone throws after `createDecoderByType`, and
  the codec is not released; a job in `decode` may do the same after `stop` ("Stop
  decoding and release resources", `VideoDecoder.kt:231`), and `stop` itself does not
  release a codec whose `stop` throws. So codecs are lost, and `NoLeak` says what remains:
  the loss is confined to the surface for which it happened. The end of `stop` and the old job may each set the field to null over a
  codec of the other. A codec that fails for good is not configured again while SPS and
  PPS stay the same (`VideoDecoder.kt:130`). The message "Dropping" at line 107 stands
  for packets that are kept.
* Server control. The status "Error" is overwritten with "Stopped" at once
  (`gui.rs:115-124`). The task of a connection may outlive the server that accepted it: it
  ends with the next message it reads, and a client whose loop broke off sends none.
* The screen with the stream never calls `onDisconnect`: the app leaves a server by an
  error, by another choice or when it is closed.

### Fairness

* `VirtualTablet`: none; nothing it promises needs it.
* `VideoPipeline`: weak fairness of both threads, which the operating system
  schedules, of the capture thread's exit, and of frames: `KeyframeServed` needs a
  compositor that goes on delivering frames. Nothing is assumed of the user, who may
  never stop the server, nor of clients and of the tasks that make room for messages to
  them: `Sent` is never forced. The liveness properties say so themselves, by the
  hypothesis `Unblocked` that the main loop does not wait in `send_to_client` for ever.
* `Session`: weak fairness of each task, of each client's coroutines and of the main
  loop's own steps. Strong fairness of `Receive` and `Sleep`: `tokio::select!` polls its
  branches in random order, so a branch that is ready again and again is taken
  eventually, and a sleep of 100 µs completes whenever no message is there. `Accept`, the
  user's actions, heartbeats of the server and timeouts of reads are never forced.
* `VideoDecoder`: weak fairness of the user interface and of the steps of each job.
  Strong fairness of taking a keyframe, because the server sends one with every group of
  pictures, and of an input buffer coming free. No callback is forced.
* `ServerControl`: weak fairness of the window, which is drawn ten times a second, and of
  each task. That a task proceeds takes over from `VideoPipeline` the hypothesis that its
  main loop does not wait in `send_to_client` for ever; `Restartable` rests on it. Nobody
  has to answer the dialog or click.
* `AutoConnect`: weak fairness of the main thread, and of an attempt to connect, which
  has a timeout. Whether it succeeds is open.

## 4. Proofs

The theorems hold for all values of the constants allowed by the named assumptions of
the modules. Each of the eight proof modules has `TypeCorrect`.

* `VirtualTabletProofs`. `TypeCorrect` holds also after a write has failed; those of the
  touch device speak of the time before that (`~failed`). `GestureFilter` is not inductive: it speaks
  of the moment after a handler. `TouchInv` adds that the cached slot is the kernel's,
  that a contact the kernel shows is marked as reported, that a reported active slot is
  shown under its own id (`ReportedCovers`; the converse is false), and what the handler
  has done so far: during a release shown slots are still active, during a sync the slots
  below `index` are shown as they should be. From it follow `GestureCorrect`,
  `PalmCorrect`, `PenAloneCorrect` and the action property `NoTouchUnderPenCorrect`.
  The pen device has an invariant of its own, `PenInv`: `PenSafe` survives a failed write
  (proximity is recorded only after the batch of the tool was accepted, pressure only
  inside it), `PenMatches` lasts until one fails (the kernel's tip is the stylus state's,
  but for the handler that has changed one and not yet written the other). `HoverCorrect`
  and the bound in `SerialCorrect` need the first, `StrokeCorrect` both.
  `SessionIsTablet` shows that `TouchSession` is a tablet, so that all of this holds when
  fingers and clients drive it. `RejectedCorrect` and `OneFingerCorrect` rest on `OwnInv`:
  as long as nothing was orphaned and no write failed, two slots in use belong to two
  different fingers that are on the glass and were not rejected, also before `SyncSlot`
  has run for them.
* `EventRetimerProofs`. `Contiguous` (the buffer is the last packets pushed, none of them
  emitted) and `Clamped` (no target more than `MaxDelay` after the push) with `TypeOK` are
  inductive. The lemmas on `Tail` and `Append` of a bounded sequence are stated once.
  `WaitCorrect` assumes
  `MinInterval =< MaxDelay` (1 ms and 50 ms in `retimer.rs:15-19`) and rests on `WaitInv`:
  packets wait in the order they were pushed (`PushOrder`); the head was not ready at the
  last poll (`HeadDue`), so that it goes out within `MaxDelay` and one poll of its push or
  one interval and one poll after the emission before it; and counted from the last
  emission, one gap for each place in the buffer is within the bound (`Paced`), which
  dropping the oldest packet keeps. `Refinement` shows
  that every step is a put, a take, the start or the end of an owner, or a stutter of
  `LossyFifo`; this needs that
  `Packets` commutes with `Tail` and `Append`.
* `VideoPipelineProofs`. `JoinCorrect` rests on `Margin`: outside of the part of a pass
  in which it forwards and sends, the main loop leaves at most `FrameCap + 1` frames
  between the encoder's input and its output, the one in its hand included, so the
  encoder cannot fill a channel of `FrameCap + 1`. The capacities 1 and 2 of
  `main.rs:235-236` are the smallest for which that is true. `RequestCorrect` holds
  for any number of errors; what GStreamer itself loses (see `owed`) is not in it.
* `SessionProofs`. `OnlyClientSends` is inductive by itself. `NoReturn` needs
  `Order`: clients are accepted in ascending order and nobody served is newer than
  the last accepted. `RefusedCorrect` needs `Refused`: no acknowledgement is in the
  channel or on the wire to an app of another version, the loop is about to send none,
  and connections nobody has made are fresh.
  `BlockedCorrect` holds for a channel of two messages or more (the code has 64) and rests
  on `Budget`: the `Connect` of a connection is in one place at a time, on the wire, in
  the hand of its task, in the channel or with the main loop (`OnceAt`), so that what
  waits for a task whose framing holds, the answer still to come and the heartbeat that
  is due are never more than two (`LightAt`). This uses the assumption on `Second`
  (section 5) that a task writes within a second what it can write.
  `OneAtATimeCorrect` shows that every step of the session is a step of `OneClient` or
  none: an acknowledgement queued by `Send` is an offer, `Answer` joins, each way of
  losing the connection parts, `Receive` serves or forgets, a task that drops a message
  may lose an offer. It needs `Refused`, for connections nobody has made, and `WorkInv`:
  `Work` on the wire, in the hand of a task or in the channel was sent by the client it is
  attributed to. `PromiseNoReturn` derives `NoReturn` a second time, from the promise
  alone, which shows that it says enough about the order of service.
* `FrameReceiverProofs`. `ChannelCorrect` counts both sequences from their ends
  (`Newest`), which is inductive where `SubSeq` is awkward. `OncePerRoundCorrect` rests on
  `RoundInv`: what came is not under way any more and what came twice is no copy any
  more, the buffers hold only what came, and after the first round of a frame only what
  came twice; so the first round uses up the fragments from the network, the second the
  copies, and nothing is left for a third. `CompleteCorrect` holds for
  `Reorder < MaxPending`, frames that overtake each other by fewer places than buffers are
  kept (three in the code). Its invariant `CompleteInv` gives each frame three
  possibilities: it was put together, a fragment of it is lost (`Hopeless`), or every
  fragment that came is pending. Eviction takes a frame only when more than `MaxPending`
  are pending, the newest of them so far ahead that no more of it can come (`FarAbove`,
  `Reach`).
* `VideoDecoderProofs`. `OneActiveCorrect` rests on `JobInv`: a job that was not cancelled
  is the one launched last, and exists only while the surface stays and no callback is
  under way. `NoLeakCorrect` adds `LeakInv`: while nothing was disturbed
  or crossed (`Clean`), whoever is about to assign the field finds its codec released
  (`Free`), a job inside `decode` is not cancelled, and a dead codec is in the field only
  until `configure` has released it. It is stated for what happened since the surface
  was created, so that the step to prove is `SurfaceCreated`, after which `configure`
  releases whatever an earlier surface has left in the field.
* `ServerControlProofs`. All follow from `Safe`: the handle is that of the only server
  that can be alive, the last one spawned (`HandleInv`); the flag is up only for a server
  that has not lowered it (`FlagInv`); nothing of an earlier server is left in the
  statistics (`StatsInv`). `OneServerCorrect`, `UndisturbedCorrect`, `ShownCorrect` and
  `AtRestCorrect` hold for any number of servers.
* `AutoConnectProofs`. `CurrentIsOpen` is inductive with the types (`Inv`), since a client
  is closed only in the step that puts another in its place. `LoopCorrect` adds `LoopInv`: while auto-connect
  is enabled, every automatic attempt but that of the current client was counted as a
  disconnect, so the attempts end when the count reaches its limit.

Every safety property of the passing runs has a theorem, two of them under a hypothesis
on the constants that the code fulfils (`WaitCorrect`, `BlockedCorrect`) and one under a
bound on what the network does (`CompleteCorrect`); `JoinCorrect` has its capacities as an
assumption. Only model-checked is all liveness (`KeyframeServed`, `StopEnds`,
`DeadEncoderStops`, `GoneIsNoticed`, `PortIsLearned`, `DisplacedFindsOut`, `Recovers`,
`Restartable`, `ErrorIsNoticed`), because temporal reasoning with fairness and
ENABLED is out of reach of the installed provers.

## 5. What is left out, and assumptions

* uinput refuses or accepts a batch as a whole. PipeWire, GStreamer, MediaCodec, Compose,
  TCP and UDP are external and modelled from their use.
* `Session` has whole messages until the framing of a connection is lost; what is read
  afterwards does not decode. A client that loses its own framing (`readFully` with a
  timeout, `NetworkClient.kt:255`) fails with `MayStall`.
* `Second`: between two heartbeats of the server every task writes what it can write.
  `Silent`: a client hears nothing for its timeout when it is not the current one, when
  its task waits inside a message, or when the main loop waits.
* The sequence number of frames does not wrap in `FrameReceiver`: the client reads it
  as a signed number, which 60 frames a second reach after 414 days.
* `VideoDecoder`: the fields are sequentially consistent, though the code declares none
  of them `@Volatile`; the stream of a session has one SPS and one PPS; at most
  two jobs exist at a time; the surface is gone when `surfaceDestroyed` has returned.
  `Recovers` assumes that no job of an earlier surface is still decoding when the new one
  comes, and that the codec does not fail.
* `AutoConnect`: one composition takes one look at all it reads; a client that nothing
  refers to any more may stand for a new one.
* Reading and sending inside a pass is one step where the loop does not look at
  anything another process writes.

Not modelled, and why:

* The gesture detector and `time_until_next`, `has_pending`, `reset` of the decoder: they
  have no caller. The software encoder is a stub.
* `codec.rs`, `Protocol.kt`: conversions without state, tested by round trips; a model of
  bincode would be a transliteration.
* The scan for keyframes (`vaapi.rs:462-510`), the extraction of SPS and PPS
  (`VideoDecoder.kt:256-304`), pixel formats, normalisation: pure functions of bytes,
  better served by unit tests.
* The portal and the lookups of discovery: external protocols. Only what the program does
  with their result is there.
* Layout, settings, statistics, logging and the pacing of UDP batches.

## 6. Plan

Done: the tablet, the retimer, the pipeline, the session, the reassembly, the decoder,
the server control and the automatic connects, with the proofs above.

What would add most next:

1. `InputPath`: input capture, a coroutine for each event, TCP, the retimer and the
   tablet in one module, to say what reordering and overflow do to the strokes of a pen
   (`TouchSession` says it of fingers).
2. `FramedReader`: the framing of TCP byte by byte with cancellation and timeouts, and
   the abstract reader it should implement; `Session` has only its outcome.
3. Proofs: the safety half of the liveness properties of `Session` and `VideoPipeline`,
   who may be blocked by whom and what it waits for, as invariants.
