# Focus Vision PCVR: TLA+ models and proofs

Focus Vision PCVR streams a SteamVR session from a PC to a VIVE Focus Vision headset. This
directory models the parts of it in which several threads, two machines, files and an unreliable
network meet, checks them with TLC on small instances, and proves their main invariants with
TLAPS for every value of the constants.

Paths are those of the repository. The Rust engine is `src/rust/streaming-engine/src`, the
companion app `src/rust/companion-app/src`, the headset's client `src/client/app/src/main/cpp`,
the SteamVR driver `src/driver/src`.

    tlc -workers 2 -config MCStreamSession.cfg MCStreamSession    # a run of section 3
    tlapm StreamSessionProofs.tla                                 # the proofs of a component

## 1. The system

    SteamVR -> driver (C++) --FFI--> engine (Rust, tokio) ==TLS/TCP control==> client (C++, Android)
                 |  encoded frames       |                --UDP video, audio-->      |
                 |  bitrate, IDR         | status.json    <--UDP tracking, face--    |
                 +---- poses, inputs <---+ local.toml   companion app (PIN, settings, simulation)

* The **driver** (`CServerDriver`) is loaded by vrserver.exe. It takes the eyes' pictures in
  `Present`, encodes them with NVENC and hands each one to the engine; the engine calls it back
  for a bitrate, an IDR, a view and haptics.
* The **engine** owns one loop (`StreamingLoop::run`): accept and pair a client, stream to it,
  hold a lost session for five seconds, accept again. A session runs a frame loop
  (`run_session`), a control task (`handle_tcp_control`), and tasks for tracking and audio.
* The **client** has a session thread (`StreamSession::run`), a receive thread for video
  (`VideoReceiver::run`), an audio thread, and the app's main thread (`OpenXRApp::mainLoop`),
  which decodes and renders.
* The **companion app** installs and starts the rest, edits `local.toml`, shows what
  `status.json` says, and can run an engine and a mock headset in its own process.

### 1.1 Inventory

| Component | State it keeps | Operations | Talks to | What is hard | What makes it correct | Module |
|---|---|---|---|---|---|---|
| PIN pairing (`control/pairing.rs`) | PIN, deadline, attempts, lockout, `lockout.json` | verify, rotate, rearm, load | accept loop | deadlines that move while a handshake or a lockout runs; restarts, files that fail | a lockout survives, nobody pairs in it | `Pairing` |
| Engine loop (`engine.rs`, `control/tcp_server.rs`, `control/reconnect.rs`) | phase, server, caps of the client, failure counters, published PIN | accept, TLS, HELLO, PIN, STREAM_CONFIG, STREAM_START, session, hold, shutdown | clients, pairing, `status.json` | silent and failing clients, PIN expiry in a handshake, shutdown in any await | sessions rest on their own handshake, the hold keeps the PIN, no wait is for good | `EngineLoop` |
| Session of the engine (`engine.rs`, `tracking/receiver.rs`, `tracking/haptics.rs`) | authorised peer, HMD inputs, haptic route, event and notice channels, silence timer | messages, statistics, settings, poses, end of a session | driver, client | a select whose branches block, full channels, a packet stored while the session ends | nothing of an ended session remains, the reason is the right one, every session ends | `ControlSession` |
| Frame path (`direct_mode.cpp`, `pipeline.rs`, `frame_assembler.cpp`, `fec_decoder.cpp`) | frame index, encoder's reference, shard contexts, reference chain, loss counts | present, packetise, onPacket, onTick, reset | driver, network, decoder | loss, reordering, duplication, driver skips, timeouts, restarts | frames whole, in order, references kept, each counted once | `FrameStream`, `FrameAssembler` |
| FEC and slices (`pipeline.rs`, `transport/slice.rs`, `transport/fec.rs`) | redundancy, layout | choose a layout, encode, decode | frame path | boundaries: empty slices, limits of 8 bits, padding | a layout codes, a frame comes out as it went in | `FrameFec` |
| RTP and link statistics (`transport/rtp.rs`, `transport/udp.rs`, `frame_assembler.cpp`, `stats_reporter.h`) | u16 numbers, log of send times, counters, snapshots | send, count, report | bitrate | wrap, reordering, a log that is pruned | each loss counted once, a send time belongs to its packet | `LinkStats` |
| Keyframe recovery (`nvenc_encoder.cpp`, `engine.rs`, `stream_session.cpp`) | IDR flag, rate limits on both sides | ask, pass on, encode, arrive | all four programs | requests dropped at each of six places | a waiting client gets a keyframe | `KeyframeRecovery` |
| Video receiver (`video_receiver.cpp`) | frame queue, generation, active flag | receive, push, overflow, pop, requireKeyframe, begin/endSession | three threads | two mutexes taken one after the other, stalls of the render thread | sessions do not mix, order, reference chain | `VideoReceiver` |
| Headset app (`openxr_app.cpp`, `video_decoder.cpp`, `render_pose_log.h`) | XR session, launch request, codec buffers, pose log | events, decode, render | decoder, OpenXR | timestamps that repeat over streams, a log that wraps | a picture is turned from its own pose | `HeadsetApp` |
| Client session (`stream_session.cpp`, `client_session.h`) | state machine, outbox, events, view, hooks | start, stop, send, pollEvent, connect to goodbye | engine, receiver, app | stop() at any point, condition variable, events later than the state they tell of | DISCONNECT on leaving, receiver open exactly for a stream, the thread ends when stopped and only then | `StreamSession` |
| Control connection (`control/tcp_server.rs`, `tcp_client.cpp`) | receive buffers of three readers | send, write all, take a message | engine, client | messages cut anywhere, two readers of one stream | each message once, whole, in order | `ControlStream` |
| TLS identity and pin (`control/tls.rs`, `tcp_client.cpp`) | certificate file, pinned fingerprint | load, generate, persist, pin, compare | files | crashes between file operations | a paired headset stays paired, and with no other PC | `ServerTrust` |
| Bitrate, FEC, sleep and heat (`engine.rs` `AdaptiveState`, `adaptive/*`, `thermal.rs`, `sleep_mode.rs`) | bitrate, bounds, ceiling, loss average, burst pattern, redundancy | heartbeat, setting, tick, governor poll, sleep/wake | frame loop, encoder | five writers of one bitrate, some of which must tell the encoder | bounds, decisions reach the encoders, recovery | `AdaptiveBitrate` |
| Audio (`audio/capture.rs`, `audio_player.cpp`, `audio_sequence.h`) | device, sequence, ring buffer | open, reopen, conceal, play | UDP, OS | devices that come and go; u16 wrap, late packets | follows the default device; nothing heard twice or out of order | `AudioCapture`, `AudioPlayback` |
| Face tracking (`face_tracking/*`) | smoothing, profile, what was sent | FACE_DATA to OSC | VRChat over UDP | rest is told once, over UDP | a face that relaxes relaxes its avatar | `FaceTracking` |
| Recording (`recording/*`) | open files, buffers, sizes in headers | start, frame, patch, stop, purge | disk | a full disk, a process that dies | files play, none overwrites another | `Recording` |
| Metrics (`metrics/*`) | latency window, log buffer | record, flush, rotate | disk | state that outlives a session | a session's log is its own | `SessionStats` |
| Configuration (`config.rs`, `lib.rs`) | merged layers | merge, validate | start of the engine | limits that depend on each other | values in order | `EngineConfig` |
| Companion's settings (`companion-app/src/config.rs`, `main.rs`) | choices, dirty flag, file | load, save, retry, reset, exit | `local.toml`, user's editor | two writers of one file, locks, crashes | a choice applies, hand-written keys stay | `Settings` |
| Status view (`main.rs`, `status_parser.rs`) | last status, age | poll, show | `status.json` | a file that outlives its writer | nothing stale is shown for long | `StatusView` |
| Companion's work (`main.rs`, `adb.rs`, `ui/*`, `driver.rs`) | devices, jobs, registration | scan, deploy, send PIN, export, pick, register | adb, SteamVR | devices that do not answer, results of old jobs | buttons do what they show, and end | `Companion` |
| Companion's simulation (`sim.rs`, `main.rs`) | two threads, stop flags | start, stop, reap, close | `status.json`, a real engine | threads that fail to start, stop in any wait | simulations apart, Stop takes effect | `Simulation` |
| Simulator's scenarios (`simulator/scenario.rs`, `simulator/mod.rs`) | stimuli thread, process-wide knobs | clean, start, join, count | engine, `udp.rs` | knobs shared by all runs of a process | a scenario measures itself | `Scenario` |
| SteamVR driver (`server_driver.cpp`, `hmd_device.cpp`, `controller_device.cpp`, `lib.rs`) | devices, instance, callbacks | Init, RunFrame, Cleanup, callbacks | SteamVR, engine | callbacks during Cleanup, controllers that fall silent | callbacks find their device, SteamVR follows the headset | `SteamVrDriver` |
| Swap textures, pacing, compositing; renderer, overlay, trackers; delay estimator; audio conversion; mirror; charts; benchmark; installer | | | | | | not modelled, see 5 |

`PROJECT.json` lists every component with its sources, and the hazards of each at their lines.

## 2. The models

Every module has its constants with named assumptions, its variables with the source's names,
one action per operation, critical section or stretch between two awaits, and its properties at
the end. Definitions marked *Mutant* are plausible bugs; they are not part of a specification, and
show (by being put in the place of the definition after them) that a property can fail.

### The engine

`Pairing` is `PairingState` with `PersistedLockout`: `verify()` as four outcomes (`VerifyLocked`,
`VerifyOk`, `VerifyWrong`, `VerifyLockout`), `rotate_if_expired()`, `rearm_for_reconnect()`, and
`NewState` for `with_limits()`, which is what both a new server and a restarted process call.
`save()` and `clear()` may fail unnoticed (`WriteDisk`), and so may `load()` (`LoadFails`): a record that
cannot be read is taken for no lockout (`pairing.rs:64-68`), `forgot` records it, and the properties
speak of the other servers, though the comment at `:100-102` allows for none. Time is one counter; the code reads a monotonic
and a wall clock, and the model assumes that nobody sets the wall clock back.

`EngineLoop` extends it with `StreamingLoop::run` (`phase`) around
`TcpControlServer::listen_and_accept` (`step`: TLS, HELLO, PIN, STREAM_START). Clients may be any
machine: each may go silent, send any PIN, or leave at every step (`HandshakeFails`). Each `await`
is a point where the clock, a shutdown or the publishing of `status.json` comes in; `Stop` watches
the token in every phase, as each select of the loop does. A session is one state here.
`EngineLoop` implements `Pairing`: `PairingSpec` is checked and proved of it, so `Pairing` is the
abstract specification of what the loop may do with PINs.

`ControlSession` is that one state from the inside: the streaming loop (`loop`), the control task
(`control`: in its select, taking messages out of the inbox, sending, reporting, ended), the
tracking receiver that stores a packet under the read lock of `authorized_peer`, and SteamVR's
thread that queues haptics. Channels and the socket's buffer have their capacities and do fill up.
The HMD may vanish without a FIN (`hmd = "gone"`), stop reading, or say goodbye. Face data, views,
keyframe requests and recording are one "other" message here.

`AdaptiveBitrate` is the frame loop's `AdaptiveState` and what it moves. `ab` is a record and every
method of the code an operator on it (`Adjust`, `ChooseSetting`, `SetCeiling`, `AdjustFec`,
`Boost`, `EndBoost`, `CheckSleep`), composed in the order of `tick()` and `run_session()`;
`Becomes` is the end of a handler, when `notify_bitrate_change()` has told the encoder or not. The
thermal governor and the encoder outlive the session. Rates are integers, factors percent; clocks
(hysteresis, poll interval, sleep timers) are choices of the action that reads them.

`AudioCapture` is the thread of `spawn_real_capture()`: a look at the default device every two
seconds, `should_reopen()`, and a device that may change between the look and the open.
`FaceTracking` goes from the poll of the trackers to VRChat's parameter: smoothing, profile, rest
position told once, datagrams lost. `compute_profile()` is an operator whose promise
(`CalibrationSpans`) TLC evaluates over every series of up to four frames.

`Recording` has the engine's video writer and the WAV writer of each session's audio task: names
that are taken within one second, a `BufWriter` whose content is lost when the process dies, sizes
patched into a header on disk, writes that fail in part. `SessionStats` has the latency window,
which outlives sessions, and the session log, which does not.

### The frame's way

`FrameFec` is the sender's choice of a layout, slicing, shards, parity and headers, and the
reassembler that mirrors the client's. Here bytes, lengths and padding are in the model;
Reed-Solomon is what it promises.

`FrameStream` says what `FrameAssembler` promises its consumer (the class comment of
`frame_assembler.h`): frames in order, each at most once, from a keyframe on, and only a keyframe
after a loss. `FrameAssembler` is the path of a frame: the driver takes an index for every
`Present`, encodes it or not, the engine sends it or drops it, its packets (`Packets`, from
`shards_to_packets`) are lost, delayed, reordered and duplicated in any way (a packet that was
sent may arrive at any later time, any number of times), and the assembler's `onPacket`, `onTick`,
`requireKeyframe` and `reset` are operators on a record, so that `VideoReceiver` can call several
in one critical section as the code does. Shards carry their identity instead of bytes. It
implements `FrameStream` with `last <- handed.index, chained <- ~asm.waiting`.

`VideoReceiver` composes it with the three threads around the assembler and the frame queue. One
action is one critical section of `m_assemblyMutex` or `m_queueMutex`: `run()` is `Receive` then
`Push` (and `Overflow`), `requireKeyframe()` is `RequireRestart` then `ClearQueue`,
`beginSession()` and `endSession()` are two sections each. `ConsumerFails` switches the ways on in
which the decoder loses a frame and rendering pauses.

`LinkStats` is what the bitrate is driven by: sequence numbers with the log of their send times
(pruned at a size, `LogKeep`), the client's count of losses on u16 numbers and its snapshots, and
the same count by the simulator; `Figures` puts its promise beside that of `SessionStats`. `KeyframeRecovery` closes the loop across all four programs: a
request may be dropped by a client that does not stream yet, by the rate limit of either side, or
be taken by an encode that fails; a frame may be dropped by a full channel or the network.

### The headset

`StreamSession` has the client's session thread, `run()` and `runStreaming()`, as positions `at`
between two points where another thread can see or change something; the main thread (`app`) with
`pollEvent`, `setViewConfig`, `send` (split where it reads `isStreaming()` without the mutex),
`stop()` (split between `m_stop`, `notify_all()` and `join()`), `start()` and `shutdown()`; and an
engine that may refuse, reject, go silent or close at any time. `state` is both `m_state` and the
state of `ClientSession` at the top of the loop. The wait for a stop or for the backoff is in
three actions (`GoToWait`, `Wait`, `BackoffElapses`), since the loop looks at `m_stop` before it
takes the mutex of the condition variable.

`HeadsetApp` is `mainLoop()`: launch requests, OpenXR's session states, stream events, feeding the
decoder, and which orientation a decoded picture is turned from, with timestamps that repeat over
streams and a pose log that wraps. `AudioPlayback` numbers the packets of each session of the engine on
a small width, and has the client's reordering window, concealment and ring buffer. The numbering
starts over with the Streaming event, before or after which packets of another session may be read
(`ReceiveForeign`): they are decoded and played like any other, and `stretch` tells where that happened. `ControlStream` cuts the
control connection's bytes into writes and reads of any size, between the engine's two readers and
the client's. `ServerTrust` is the identity file and the pinned fingerprint, with crashes between
any two file operations and files that are damaged or cannot be read or written, on both sides: a pin
file that cannot be read counts as none, and is written anew after the next PIN (`pinLost`).

### SteamVR and the companion

`SteamVrDriver` has `Init`, `RunFrame` and `Cleanup` against callbacks of the engine's tasks, over
several Inits, with controllers and views that SteamVR must come to have. A task that is being cancelled
may still call back after `fvp_shutdown()` took `ENGINE`, until the runtime is gone. A view that no headset has
(`Plausible`) is dropped by `parse_view_config()`.

`EngineConfig` is the layers of `AppConfig` and `validate()` for values whose limits depend on each
other. `Settings` composes it with the companion's load, save with retries, reset and exit, an
editor on the same file, and the engine's start, which skips the file if it cannot read it. `StatusView` is `status.json` from both ends.
`Companion` has the scan for devices, the jobs with their threads, and the driver's registration;
`Simulation` the companion's engine and mock headset in threads of its own, whose status file is deleted
once and perhaps not at all (`file.kept`). `Scenario` is the simulator's runner: every scenario of a
process shares its knobs with the threads that earlier ones left, and what it deletes before it starts
may be there still (`runner.left`).

### Composites

`MCHeadsetParts`, `MCSafetyParts`, `MCDriverParts` and `MCLiveParts` check parts that share no state in one run: `part`
is chosen in the initial state, a behaviour is one of that part, and the others keep an initial state
(`OthersAtRest` takes one where there are several). A property over one part's variables is thus
checked over all behaviours of that part and, trivially, over the others'; the fairness in
`LivePartsFairness` and `DriverPartsFairness` is that of each part's module, restricted to its behaviours.

## 3. The runs

| Run | Instance | Asks | Distinct states |
|---|---|---|---|
| `engine_loop` | two clients, two PINs, two attempts, clock to 6 | a session rests on its own client's handshake, with frames as announced (`SessionOfItsHandshake`); a PIN somebody relies on stays, in a handshake and in the hold (`PinKept`); a lockout over rotations, new servers and restarts that can read it (`LockoutHolds`); implements `Pairing` (`PairingSpec`) | 3 617 583 |
| `engine_liveness` | one client, every limit 1 | the loop keeps accepting, a shutdown ends every wait (`KeepsServing`) | 551 332 |
| `headset_parts` | seven parts on the way to the headset, see below | what each part promises | 1 092 330 |
| `video_receiver` | queue of 2, two sessions, failing decoder, pauses | `PopsInOrder`; the chain holds until the render thread threw a frame away (`DecoderHasReferenceUntilLost`) | 1 220 572 |
| `decoder_restart` | queue of 1 | `DecoderHasReference`, *violated*, see 6 | until the violation |
| `driver_parts` | two parts, see below | what the engine has the driver do: bitrate and parity (`DecisionsReachEncoders`, `BurstIsMetByFec`, `RecoversToSetting`), devices (`CallbacksFindDevice`, `SteamVrFollowsHeadset`) | 285 142 |
| `thermal_cap` | governor | `CapReachesEncoder`, *violated*, see 6 | until the violation |
| `stream_session` | two views, two streams, two launches, outbox of 1, 2 events | the receiver is open exactly for a stream, the engine has the last view, and the app hears of every state (`StaysInStep`); `LeavesWithDisconnect`, `EndsOnlyWhenStopped` | 699 249 |
| `control_session` | two machines, two sessions, channels and buffers of 1, two messages from outside | `InputsOfSession`, `EndsForItsReason`, `SettingFollowsAcks`, `SessionsEnd` | 335 653 |
| `safety_parts` | six parts of the PC, see below | one property of each part | 2 011 144 |
| `live_parts` | six parts, see below | one property of each part (three of the companion and its simulation) | 195 230 |
| `config_order` | one limit in `local.toml` at a time | `ConfigInOrder`, *violated*, see 6 | until the violation |

The parts of `driver_parts`:

| Part | Property | States |
|---|---|---|
| `AdaptiveBitrate`: GCC, adaptive FEC, three loss values, an encoder that refuses | both encoders get what was decided (`DecisionsReachEncoders`), `BurstIsMetByFec`, `RecoversToSetting` | 57 920 |
| `SteamVrDriver`: two Inits, two connections, three inputs or callbacks, three views | `CallbacksFindDevice`: no callback meets a device that is gone; `SteamVrFollowsHeadset`: SteamVR comes to have the pose, the inputs and the view the headset sent last | 227 222 |

The parts of `headset_parts`:

| Part | Property | States |
|---|---|---|
| `FrameAssembler`, five indices of two packets, two runs of the engine | implements `FrameStream` (`HandsOverAStream`), references end to end (`ReferenceWasHanded`), `EveryFrameCountedOnce` | 169 856 |
| `ControlStream` | `MessagesArriveInOrder`: each message once, whole, in order, in both directions | 44 137 |
| `ServerTrust` | `PairingOutlivesRestarts`: a pinned PC whose identity was not damaged is reached again, and no other unless the headset's own pin was | 35 374 |
| `HeadsetApp` | `PictureTurnedFromItsPose` | 115 186 |
| `AudioPlayback` | `SoundInOrder`: nothing twice, out of order, or concealed in another packet's place, between packets of other sessions | 543 727 |
| `LinkStats`, `SessionStats` | `FiguresTell`: losses are counted once and a send time is its packet's (`LinkAccounting`); a session's log is whole, in order and its own (`LogTellsSession`) | 125 579 and 58 471 |

The parts of `safety_parts`:

| Part | Property |
|---|---|
| `Settings` | `SettingsSurvive`: a choice that was shown and is not pending applies at a start that can read the file; hand-written keys stay |
| `StatusView` | `ViewIsRecent`: no session is shown beyond the staleness threshold, no PIN beyond it and one more second, and a PIN's countdown runs with the engine's clock |
| `Recording` | `RecordingsReadable`: headers cover the sound, files do not overwrite each other, video is whole to its end |
| `FrameAssembler`, two slices with parity | `WholeFrames`: a frame is made of its own shards |
| `AdaptiveBitrate`, governor and sleep | `BitrateBounded`: floor, setting and ceiling, of the controller and of what the encoder is told |
| `Scenario` | `ScenariosApart`: a scenario measures itself, but for a PIN or recordings it could not delete |

The parts of `live_parts`:

| Part | Property |
|---|---|
| `KeyframeRecovery` | `KeyframeComes`: a client that waits for a keyframe gets one while its session lasts, if the network and the encoder let enough through (`FramesGetThrough`) |
| `AudioCapture` | `CaptureFollowsDevice` |
| `FaceTracking` | `AvatarRelaxes`, unless the last word was lost or an earlier session left it |
| `FrameFec` | `FramesComeBack`: the layout chosen codes, and what comes out is what went in |
| `Companion`, `Simulation` | `ActsAsShown`: a button acts on what it showed; `SimulationsApart`: simulations stay apart from each other and from a real engine, and leave nothing but a file they could not delete; `CompanionSettles`: the window keeps up with its jobs and the devices, and Stop takes effect |

### Bounds, and why they are enough

* **Clock** (`MaxTime`): 6 with a lockout of 2, a PIN lifetime of 3 and a hold of 2 allows a
  lockout before, in and after a hold, an expiry in a handshake and two holds in one behaviour.
  When the clock has stopped, every sleep counts as over, so the bound ends no wait early. The
  assumption `Lockout >= HoldWindow` is the code's (300 s and more against 5 s); without it a
  lockout that ends inside a hold would let in a PIN that rotated with the lockout.
* **Clients, machines, PINs, PCs**: two each, so that "another one's" exists. They are symmetric
  in the safety run of `EngineLoop`; runs with liveness have no symmetry.
* **Frames** (`MaxIndex`, `MaxRuns`): five frames hold a keyframe, a reference, a loss, a late
  packet of an older frame and a second keyframe; two runs hold an engine restart, after which
  indices start again. `MaxCountedGap` is 1 in `headset_parts`, so that gaps are cut: what is beyond
  the limit is neither lost nor skipped, and counted in `beyond`. `WholeFrames` and the queue do not
  depend on it.
* **Shards**: two data and one parity shard per code word is the least with more than one way to
  complete it, two slices the least with one complete and one not. `FrameFec` has frames of up to
  four bytes in shards of two with a prefix of one, so that empty, partial and full last shards,
  frames that are too short to slice, and redundancies of 20 and 100 percent occur.
* **Queue** (`MaxQueued`): 1 overflows on every second frame, 2 has an order.
* **Channels** of `ControlSession`: one place each, so that every one of them fills up; two
  sessions, so that an event, packet or notice can be of the former one.
* **Numbers**: `LinkStats` wraps at 6 with eight packets, `AudioPlayback` at 6 with seven in each of
  two sessions, one of them mixed once with the other's (`MaxStretch`); both reorder within half the space, as the code needs (section 6 says what happens beyond).
* **Bytes** of `ControlStream`: a header of two (four in the code), messages of up to two, reads of up to three: a read may end in a header, in a payload
  or span two messages.
* **Files**: one fault of the disk per part (`MaxFaults`; two in `SessionStats`), two sessions or
  streams, names in one second (`MaxNames`; 99 in the code), so that a name is taken.
* **Rates**: floor 20 and settings 20, 24 let 5, 10 and 20 percent steps be integers that differ;
  the proofs do not depend on them.
* **Outbox, events**: 1 and 2, so both overflow; `AppSeesState` speaks of behaviours in which no
  event was dropped (`overflowed`), since kMaxEvents = 256 drops the oldest when the main thread
  stalls, and nothing repairs that.
* **Driver**: `MaxServed` 2 lets the headset come back; of the `MaxMoves` 3 neither that nor falling
  quiet takes one, so that it sends three views, or a pose, an input and a view, or holds a trigger,
  falls quiet, lets go and holds it again; two Inits let a callback and an instance
  meet the second.
* **Streams, launches, clicks, plugs, simulations, scenarios**: two (one device that is plugged
  once; clicks 2), so that an answer can belong to an earlier one.

Deadlock is checked in `engine_loop` and the receiver's runs; the
others switch it off, since the system may stop there (the engine was shut down; the app is gone;
sessions or files are at their bound).

### Fairness, and why the code justifies it

* `EngineSpec`: weak fairness of the loop's own steps and of time limits: every handshake step has
  a timeout (`self.timeouts`), the hold and the backoffs are sleeps, `publish_pin_status` is on an
  interval, every select has the token. Nothing is assumed of clients, of SteamVR or of errors;
  listening that keeps failing is retried for ever, and allowed for.
* `FairSpec` (in `driver_parts`, with `DriverFairness` for the other part): frames come while SteamVR renders, a heartbeat every 500 ms, the hysteresis is a
  clock; the encoder takes a bitrate if it is asked again and again (strong, as a new request
  replaces an older one). `RecoversToSetting` is about a network that stays calm, and not about an
  encoder that refused the last request, which nobody repeats.
* `SessionSpec`: weak fairness of the session thread, each of whose calls has a time limit
  (`connectTimeoutMs`, `handshakeStepTimeoutMs`, `kPollMs`, the backoff), of noticing a lost link
  (`livenessTimeoutMs` whatever there is to send), of the two halves of `stop()`, and of the app's
  return to `start()` or quitting after it. The engine, the network and the user are not assumed
  to do anything.
* `ControlSpec`: weak fairness of what a task does when it is scheduled; strong fairness of the
  branches of `tokio::select!` that compete with others (a lost link, the silence timer,
  cancellation), which select picks at random among the ready ones.
* `RecoverySpec`: weak fairness of the stages of a request. What the network and the encoder owe is
  a premise of the property, `FramesGetThrough`: of keyframes sent again and again one arrives
  (strong), and not every encode fails.
* The other parts: a thread that looks every two seconds, a session that renders and polls,
  `RunFrame` and `update()` that are called again and again, timeouts of `adb` calls, waits with a
  limit. Devices, disks, users and peers are free.

## 4. What is proved

The proofs hold for every value of the constants that satisfies the named assumptions
(`PairingAssumption`, `EngineAssumption`, `AssemblerAssumption`, `ReceiverAssumption`,
`RateAssumption`, `FecAssumption`, `ReportAssumption`, `SessionAssumption`, `ControlAssumption`,
`LinkAssumption`, `StatsAssumption`, `DriverAssumption`, `RecordingAssumption`,
`StatusAssumption`, `ScenarioAssumption`, `SettingsAssumption`, `ConfigAssumption`,
`TrustAssumption`, `PlaybackAssumption`, `HeadsetAssumption`, `ControlStreamAssumption`,
`SimulationAssumption`, `ShardsAssumption`). They say
what the code's constants are: kinds of numbers, at least one of what there must be one of, and
the orders the arguments need, of which few are more than types: `Lockout >= HoldWindow`
(section 3), `LogKeep <= LogMax` and `LogKeep <= SeqSpace` (2500, 5000, 65536), and a PIN that lives
at least as long as the hold. TLC evaluates each assumption on the instances above.

| Module | Theorems | Inductive invariant, and why the property alone is not inductive |
|---|---|---|
| `EngineLoopProofs`, pairing | `PairingTypeCorrect`, `LockoutSurvives`, `NobodyPairsInLockout` | `PairingIInv`: a lockout survives a new server only because the file agrees with the running state (`LockoutRecorded`), and it does so again when a server could not read it (`forgot`). |
| `EngineLoopProofs` | `EngineImplementsPairing`, `EngineKeepsLockout`, `PinIsKept`, `SessionsAreProved`, `EngineNeverGivesUp` | `EngineIInv`: what each step of a handshake knows (`HandshakeInv`), what a session rests on (`SessionInv`), and that the rearmed PIN and any lockout outlive the hold (`HoldInv`). The engine's steps are steps of `Pairing`, so its invariant comes for free; only `ConnectionLost` needs that a session is paired. |
| `VideoReceiverProofs`, frames | `AssemblerTypeCorrect`, `FramesCountedOnce`, `ImplementsFrameStream`, `ReferencesKept`, `FramesAreWhole` | `IInv`: a P-frame that was sent refers to the last frame sent before it, or to one the driver encoded later and the engine dropped (`SentInv`); nothing was handed over beyond the newest finished frame, and the chain is whole exactly when the assembler does not wait (`ChainInv`); the counters cover every index behind it, the uncounted part of long gaps included (`EveryFrameCountedOnce`). One effect lemma for each method. |
| `VideoReceiverProofs`, queue | `QueueIsBounded`, `SessionsDoNotMix`, `FramesPoppedInOrder`, `ReferencesKeptUntilLost` | `ReceiverInv`: the generation is odd in a session; queue, popped frame and the frame in the receive thread's hands are ordered, and none is newer than what the assembler handed over. Reuses `IInv`: what a thread does to the assembler is a step of `FrameAssembler` or no step. |
| `AdaptiveBitrateProofs` | `AdaptiveTypeCorrect`, `BitrateStaysBounded`, `FecStaysInStep`, `BurstsAreMetByFec`, `DecisionsAreTold` | `AdaptiveInv`: `Sound(s)` holds between any two calls; one lemma per operation, and handlers are compositions. |
| `AdaptiveBitrateProofs`, figures | `LossesAlwaysCountedOnce`, `SentLogAlwaysAnswers`, `LogAlwaysTellsSession`, `FiguresAlwaysTell` | `LossInv`: both counts expect what follows the newest packet that arrived, and nothing newer was charged; a packet within half the sequence space of it has the distance its wrapped number says (`PacketAccounted`), so what is charged is exactly what was skipped. `SentInv`: there is a history of the frame each packet went out in; the log's entries are of packets in it, and a prune that dropped a recent packet would have kept `LogKeep` others of the few packets as young (an injection, `PruneHolds`). `StatsInv`: the lines of a file are those recorded, less the buffered ones, which are the last, and no line comes into the file before one recorded earlier. |
| `StreamSessionProofs` | `SessionTypeCorrect`, `ReceiverOpenForStream`, `EveryEngineHasView`, `LeavesPolitely`, `AppSeesEveryState`, and the three that are one run's property, `SessionStaysInStep` | `SessionInv`: the state machine's state at each position of the thread (`PositionInv`), what was sent on a connection at each (`ConnectionInv`: STREAM_START only until the end of the stream, VIEW_CONFIG only from the serving loop on, and only a lost connection is dropped). |
| `ControlSessionProofs` | `ControlStateTyped`, `InputsStayWithSession`, `SessionsEndForTheirReason`, `SettingsFollowAcks` | `PeerInv`: a packet in the receiver's hands is the authorised peer's, which is the session's machine or, once revoked, nobody, so that no packet is left to be stored when the inputs are cleared; `ReasonInv`: the task's reason is set once, when it can handle nothing more, and what is in the channel or taken from it is that reason. `SettingInv`: the setting in force is the acknowledged one, up to the events still on their way to the loop, whose last one is it. |
| `ControlSessionProofs`, packets | `FramesAlwaysComeBack` | A layout that was chosen codes because parity grows with the data (`ParityGrows`), so every word below `max_data_shards()` fits, and no slice is longer than its share (`SlicesSideBySide`). `FecInv`: every packet's word gives the slice it names (`PacketsSound`), the frame being filled has its packets' number of slices, and of the last frame sent a decoded group has that frame's slice (`FillingSound`). That the slices put together are the frame is an induction over their number, done as a least counterexample (`Flattened`, `SlicesJoin`). |
| `HostProofs` | `CallbacksAlwaysFindDevice`, `RecordingsStayReadable`, `ViewStaysRecent`, `ScenariosStayApart`, `ChosenSettingsSurvive`, `ValidateLeavesUsable` | One per part. `CallbackInv`: a callback holds a thread of an engine, and `Cleanup` joins those before it takes a device or the instance away. `RecordingInv`: what a header counts is in the file below the buffer, and open files have names of their own. `StatusInv`: what the file's age says of its writer, and the view of the file it was read from. `CountInv`, for the countdown: the file has what the last beat showed, and that is late by no more than a repeated beat and the second that runs (`FileAsShown`, `ShownIsClose`); a PIN loses no more time than has passed since its end was set (`TimeRuns`); and a countdown that is wrong belongs to a window that has not noticed a new end, which cannot be once `steady` exceeds `Grace` (`ViewCounts`, `NotNoticed`). `ScenarioInv`: knobs and threads that are left belong to a scenario that was joined. `SettingsInv`: what a save would write is what is shown, and the file has what was saved unless a failure is pending. |
| `ClientProofs` | `PairingAlwaysOutlivesRestarts`, `SoundStaysInOrder`, `PictureHasItsOwnPose`, `EveryMessageArrives` | One per part. `TrustInv`: every PC's identity is its own, and the server serves the one on disk. `PlaybackInv`: the wrapped number says which packet it is inside the window, and the buffer is in order behind it. `HeadsetInv`: which streams' frames can be in the decoder and the log. `StreamInv`, once for each direction of `ControlStream`: written, in flight and received bytes are, put together, the messages sent so far. |
| `CompanionProofs` | `ButtonsActAsShown`, `SimulationsStayApart` | `CompanionInv`: a busy button has a thread, whose targets are headsets that were listed (none in demo mode), and the driver is shown as it is unless somebody else changed it. `SimulationInv`: the window holds a simulation in one way at a time (`WindowInv`), how far a stop has come says which of its threads may still run (`StopInv`), and of a simulation that is not held and did not leak nothing runs or can write the file again (`Quiet`). |

Two proofs corrected properties of `StatusView`. It shows a PIN for one second longer than was first
claimed, since a file is read once more at the limit of its age, and the window shows that reading
until the next (`StaleAfter + MaxUnread + 1`). And when a hold gives the PIN new time close to what the
countdown showed, `apply_parsed_status()` lets the old countdown run on for some readings: the
countdown is right only when the PIN's end has stood for longer than `Grace`: twice the seconds
between two reads, and four more. `safety_parts` has a hold of 9 seconds and a PIN of 10, where that happens.

Only model-checked is liveness (`KeepsServing`, `RecoversToSetting`, `EndsOnlyWhenStopped`,
`SessionsEnd`, and the `PROPERTIES` of `live_parts` and `driver_parts`): fairness and ENABLED are beyond the prover. Every
invariant and action property of the runs that pass is a theorem, `PairingSpec` and `HandsOverAStream`
included.

## 5. What the models leave out

### Of the components that are modelled

* `EngineLoop` and `ControlSession` meet in the meaning of a session, and are not composed: a
  session begins with a peer that was paired, and ends with a reason. Backoff lengths and the
  number of reconnect attempts (both sides) are left out: the models only say that the loops go on.
* `FrameAssembler` empties the network at an engine restart. A datagram of the previous engine
  that arrives after `beginSession()` would make `isNewer()` refuse the new engine's smaller
  indices (`frame_assembler.cpp:44`); the old process ends seconds before its successor can be
  paired with. It is the one hazard of `PROJECT.json` without a property.
* The u32 frame index does not wrap (more than a year at 90 fps).
* `VideoReceiver` has no flush by the Streaming event; that is in `StreamSession` and
  `HeadsetApp`, which in turn have no queue of their own.
* `StreamSession` has no keyframe requests (`KeyframeRecovery`), heartbeats or statistics
  (`LinkStats`); a message of the engine other than sleep only takes room in the queue.
* `EngineConfig` has one key for the many with a range of their own; `Settings` two sections, one
  choice each.
* `Companion` has no contents of exports, `StatusView` no tray and charts, `Simulation` and
  `Scenario` no synthetic faces and curves.
* Reed-Solomon, codecs, GPU work, sockets, TLS, JSON and TOML are taken as what their callers see
  of them.

### Components that are not modelled

* **Delay-based bandwidth estimator**: a floating-point filter; `AdaptiveBitrate` takes its
  verdict (overuse or not) as a choice of each tick, so every behaviour of it is covered.
* **Audio conversion and encoding, codec benchmark, test patterns, headless binaries**: sample
  arithmetic, libraries and generators of input, without state that others rely on.
* **Face mirror**: picks the values mirrored to a viewer, without feedback.
* **Charts and SVG of the companion**: draw what `StatusView` and `Companion` model.
* **Swap textures, pacing, compositing, QP maps of the driver; renderer, overlay, eye tracker,
  controllers and tracking sender of the client**: GPU resources, devices and arithmetic; what
  they send is the free input of the modelled components.
* **Installer and scripts**: no run-time state.

## 6. Where code and comments disagree

Each of these is a run that TLC finds violated:

* `decoder_restart` (`video_receiver.cpp:108`): `requireKeyframe()` takes two mutexes one after
  the other; a P-frame assembled before the first section is queued after the second, and a
  keyframe assembled between the two is thrown away while the assembler no longer waits for one.
  `video_receiver.h:51-53` and `openxr_app.cpp:517-518` promise otherwise.
* `thermal_cap` (`engine.rs:2106`): the thermal ceiling lowers the controller's bitrate, and nobody
  tells the encoder; `bitrate_controller.rs:277-279` says that the cap takes effect on the next
  frame.
* `config_order` (`config.rs:673`): values are reset to their defaults one by one, without a look
  at the values they are limited by: `fec_redundancy_min = 0.5` alone makes `f32::clamp` panic,
  with `panic = "abort"`, in vrserver.exe; `warn 90, limit 100, emergency 95` come out as 90, 85,
  90. `config.rs:624` speaks of valid defaults, `:787-789` of monotonic ordering.

Files that fail, which the models allow for and the properties except by name:

* *Lockout.* `lockout.json` that cannot be read or parsed is no lockout (`pairing.rs:64-68`): a server
  that starts then takes the right PIN, and new guesses, while the lockout lasts (`forgot`).
  `pairing.rs:100-102` speaks of state that is not reset by a restart.
* *Pin.* A pin file of the headset that cannot be read counts as none (`tcp_client.cpp:379-386`): the
  client accepts any PC's certificate and, once that PC takes the PIN, pins it (`pinLost`).
* *Settings.* The engine starts without a `local.toml` that it cannot read
  (`streaming-engine/src/config.rs:549-556`, `:590-602`); what was chosen applies at the next start.
* *Deletions.* A recording directory or a `status.json` that cannot be deleted stays for the next
  scenario (`scenario.rs:343-348`, `test_helpers.rs:118-122`), which then may take an old PIN or count
  old bytes (`runner.left`); so does a simulation's `status.json` (`sim.rs:57`, `file.kept`).

Seen while modelling, and not demanded by a property (line numbers are where it happens):

* *Bitrate.* `thermal.rs:88-89` leaves it to the caller to hold the last multiplier;
  `run_session()` makes a controller without ceiling for each session, until the governor's next
  poll. `docs/CONFIG.md:117` describes the sleep bitrate as what streams while asleep; a tick
  (`engine.rs:1236`) or a new setting while asleep tells the encoder the controller's bitrate.
  `nvenc_encoder.cpp:197-198` expects to be asked for a bitrate about once a second; it is asked
  when the controller's bitrate changes, and a refused one is not asked again.
* *Frames.* The comment at `frame_assembler.cpp:15` takes a large gap of indices for a restart of
  the engine; the code counts such a gap as a loss, cut to the limit (`:49`). The simulator's
  reassembler can give a frame out again for late parity packets. `STREAM_CONFIG`'s dimensions are
  "what is actually encoded" (`tcp_server.rs:317`), while `lib.rs:221-231` keeps the encoder at
  the native size when `resolution_scale < 1`; a comment there names it as open.
* *Decoder.* A keyframe of a stream can be fed to the decoder before the Streaming event is
  handled, and is then flushed with it (`openxr_app.cpp:112`), since the receiver is open from
  `stream_session.cpp:123-130` on; `DecoderStartsAtKeyframe` of `StreamSession` states it and does
  not hold. In the same window a frame with an index of the former stream may replace its pose
  (`openxr_app.cpp:538`), which `PictureTurnedFromItsPose` leaves out (`settled`). A packet larger
  than the input buffer leaves that buffer dequeued; the "newest decoded frame" is the oldest
  output buffer.
* *Client session.* `send()` checks `isStreaming()` before it takes the mutex: a message queued
  between `m_outbox.clear()` (`stream_session.cpp:144`) and `setState()` (`:170`) goes out in the
  next stream, although "Dropped unless streaming" (`stream_session.h:103`). FACE_DATA is repeated
  at the tracker's rate, so that nothing depends on it; `outbox` records the stream of each
  message.
* *Numbers.* An outage of 32768 to 65535 packets (4 to 8 s) makes the difference of sequence
  numbers negative, and its losses go uncounted. A late datagram of an older session can do the
  same for a while. Neither client sends TRANSPORT_FEEDBACK, which the delay estimator is fed by.
* *Audio.* After a reset, packets of the former session that the socket still holds are decoded and
  played (`openxr_app.cpp:188`, `:508-511`), and can make the first ones of the new session look late;
  the same of the next session's before its event is handled. `SoundInOrder` says what holds between
  two of them. The capture thread of a session that ended may clear AUDIO_ACTIVE after the next one
  has set it (`engine.rs:947`).
* *Recording and logs.* Recording that is switched off and on again in one session resumes in the
  middle of a GOP (`engine.rs:770`). After a write that failed in part, a log
  has a torn line and repeats lines; sessions that start in the same second share a file. The
  latency average has frames of the former session until its window is full.
* *Identity.* `ServerTrust`: a transient read error replaces the identity file by a new one, after
  which paired headsets refuse the PC.
* *Driver.* A view stored before the HMD is activated is lost (`hmd_device.cpp:109`); tracking
  datagrams count in the order of their arrival (`tracking/receiver.rs:112`).
* *Face.* Rest is told once, over UDP; if that datagram is lost, or a new bridge starts with
  `sent = 0` after a session that broke off, VRChat keeps the old value (`engine.rs:1948`).
* *Settings of the companion.* A file that cannot be read shows defaults, and a later save writes them
  (`companion-app/src/config.rs:129-147`); a save writes whole sections, over keys that were edited
  by hand there meanwhile (`main.rs:348`), and an edit between its read and its rename is lost; a
  reset whose write fails is not retried; a mistyped key makes the engine ignore `local.toml`.
* *Companion.* Deploy starts the client at this PC "with the engine waiting for a PIN"
  (`ui/deploy.rs:123-124`), also when the PIN is an old one that a backoff keeps on show; its
  `am start` may come up to three minutes later and replace a connection that "Send PIN" started.
  The export's PowerShell and `vrpathreg` have no timeout, the latter on the window's thread. adb
  that was installed after the companion started is not found until it restarts. A copied and a
  registered driver are both loaded.
* *Simulation.* A client thread that cannot start leaves its engine running with nobody holding
  it, and every later Start is refused because of "a real engine". Start right after Stop is
  refused for up to a second. A real engine that starts during a simulation may have its PIN read
  by the mock client and its status file deleted at the stop. A backoff longer than five seconds
  ends the mock client with an error.
* *Scenarios.* A latency injected at second 0 can be erased by the reset that follows the start of
  the stimuli's thread (`scenario.rs:491`); a rejected PIN passes without `expect_pin_rejected`; a
  stimulus after the window delays the join for the whole of its sleep.

## 7. Plan

Done: the core (`Pairing`, `EngineLoop`, `FrameAssembler`, `VideoReceiver`, `AdaptiveBitrate`,
`StreamSession`) and, from the former plan, `KeyframeRecovery`, `ControlSession` with the tracking
receiver, audio and RTP numbers, recording, face tracking; beyond it the configuration, settings,
status, companion, simulation, scenarios, trust and driver.

Left, in this order:

1. `SessionLink`: `StreamSession` against `EngineLoop` with clocks: 5 s of hold, 3 s of client
   liveness, 1-16 s of backoff, 10 s of handshake. Property: a drop of less than the hold resumes
   without a new PIN, or the client ends in PinRejected; both sides agree on the session. Abstract
   specification: one session between two peers, which both implement.
2. `FrameAssembler` with datagrams of a former engine run (`frame_assembler.cpp:44`).
3. `SwapTextures` and frame pacing of the driver, once there is more than one caller.
