---------------------------- MODULE SteamVrDriver ----------------------------
(***************************************************************************)
(* The OpenVR driver around the engine: CServerDriver's Init, RunFrame and *)
(* Cleanup, its HMD and controllers, the callbacks by which the engine's   *)
(* tasks reach them, and the C functions by which they ask the engine      *)
(* (server_driver.cpp, hmd_device.cpp, controller_device.cpp, lib.rs).     *)
(*                                                                         *)
(* SteamVR's server thread runs Init, RunFrame and Cleanup; the callbacks  *)
(* come from the engine's threads.  s_instance and the callbacks that the  *)
(* engine library keeps are static: they outlive a Cleanup and meet the    *)
(* next Init.                                                              *)
(***************************************************************************)
EXTENDS Naturals

CONSTANTS
  Views,     \* the headset's fields of view and IPD, with the IPD dial turned this way and that
  Plausible, \* those with angles in range, left of right, down below up, and an IPD of 40 to 90 mm
  NoView,
  MaxServed, \* bound: how often a headset connects
  MaxMoves,  \* bound: poses, controller states and callbacks
  MaxInits   \* bound

ASSUME DriverAssumption ==
  /\ NoView \notin Views
  /\ Plausible \subseteq Views
  /\ {MaxServed, MaxMoves, MaxInits} \subseteq Nat

Controllers == {"left", "right"}
DriverDevices == {"hmd"} \cup Controllers

VARIABLES
  stage,       \* where the server thread is in Init or Cleanup, or "up" or "off"
  inits,
  instance,    \* s_instance is set
  registered,  \* the engine has the driver's callbacks
  device,      \* of each device: "none", "added" or "active"
  callback,    \* a callback of an engine task has seen the devices: "none", "view" or "other"
  engine,      \* ENGINE: "none", "running" or "stopping"
  serving,     \* the engine serves a headset
  head,        \* a head pose is stored
  slot,        \* of each controller: "none", "held" or "idle", with its age in `fresh`
  fresh,       \* the controllers whose state came within CONTROLLER_STALE_AFTER
  carried,     \* the view of the callback under way
  pendingView,     \* m_pendingView
  live,        \* controllers with m_inputsLive
  displayed,       \* what SteamVR has: [pose, held, view]
  told,        \* history: the last view stored in m_pendingView
  early,       \* history: it was stored before SteamVR activated the HMD
  served, moves

initVars == <<stage, inits, instance, registered, device>>
callbackVars == <<callback, carried>>
slotVars == <<head, slot, fresh>>
frameVars == <<pendingView, live, displayed, told, early>>
driverVars == <<initVars, callbackVars, engine, serving, slotVars, frameVars, served, moves>>

NoSlots == [c \in Controllers |-> "none"]
At(from, to) == stage = from /\ stage' = to

-----------------------------------------------------------------------------
(***************************************************************************)
(* Init and Cleanup, step by step.                                         *)
(***************************************************************************)
InitEngine ==
  /\ At("off", "engine up")
  /\ inits < MaxInits
  /\ inits' = inits + 1
  /\ engine' = "running"
  /\ UNCHANGED <<instance, registered, device, callbackVars, serving, slotVars, frameVars, served, moves>>

\* The devices are new; SteamVR keeps nothing of those before.
AddDevices ==
  /\ At("engine up", "devices added")
  /\ device' = [d \in DriverDevices |-> "added"]
  /\ pendingView' = NoView /\ live' = {}
  /\ displayed' = [pose |-> FALSE, held |-> {}, view |-> NoView]
  /\ told' = NoView /\ early' = FALSE
  /\ UNCHANGED <<inits, instance, registered, callbackVars, engine, serving, slotVars, served, moves>>

SetInstance ==
  /\ At("devices added", "instance set")
  /\ instance' = TRUE
  /\ UNCHANGED <<inits, registered, device, callbackVars, engine, serving, slotVars, frameVars, served, moves>>

RegisterCallbacks ==
  /\ At("instance set", "up")
  /\ registered' = TRUE
  /\ UNCHANGED <<inits, instance, device, callbackVars, engine, serving, slotVars, frameVars, served, moves>>

Activate(d) ==
  /\ device[d] = "added"
  /\ stage \in {"devices added", "instance set", "up"}
  /\ device' = [device EXCEPT ![d] = "active"]
  /\ UNCHANGED <<stage, inits, instance, registered, callbackVars, engine, serving, slotVars, frameVars, served, moves>>

\* Mutant of StopEngine: the devices go first.
StopEngineLast ==
  /\ At("up", "engine stopped")
  /\ engine' = "stopping"
  /\ device' = [d \in DriverDevices |-> "none"]
  /\ UNCHANGED <<inits, instance, registered, callbackVars, serving, slotVars, frameVars, served, moves>>

\* fvp_shutdown() takes the engine out of ENGINE, cancels its tasks ...
StopEngine ==
  /\ At("up", "engine stopped")
  /\ engine' = "stopping"
  /\ UNCHANGED <<inits, instance, registered, device, callbackVars, serving, slotVars, frameVars, served, moves>>

\* ... and drops the runtime, which waits for the polls under way.
EngineGone ==
  /\ At("engine stopped", "engine gone")
  /\ callback = "none"
  /\ engine' = "none" /\ serving' = FALSE
  /\ head' = FALSE /\ slot' = NoSlots /\ fresh' = {}
  /\ UNCHANGED <<inits, instance, registered, device, callbackVars, frameVars, served, moves>>

ClearInstance ==
  /\ At("engine gone", "instance cleared")
  /\ instance' = FALSE
  /\ UNCHANGED <<inits, registered, device, callbackVars, engine, serving, slotVars, frameVars, served, moves>>

DestroyDevices ==
  /\ At("instance cleared", "off")
  /\ device' = [d \in DriverDevices |-> "none"]
  /\ UNCHANGED <<inits, instance, registered, callbackVars, engine, serving, slotVars, frameVars, served, moves>>

-----------------------------------------------------------------------------
(***************************************************************************)
(* The headset, by way of the engine.                                      *)
(***************************************************************************)
Moves == moves < MaxMoves /\ moves' = moves + 1 /\ UNCHANGED served

HeadsetConnects ==
  /\ ~serving /\ engine = "running"
  /\ served < MaxServed /\ served' = served + 1
  /\ serving' = TRUE
  /\ UNCHANGED <<initVars, callbackVars, engine, slotVars, frameVars, moves>>

\* The peer is revoked and the inputs are cleared.
HeadsetLeaves ==
  /\ serving
  /\ serving' = FALSE
  /\ head' = FALSE /\ slot' = NoSlots /\ fresh' = {}
  /\ UNCHANGED <<initVars, callbackVars, engine, frameVars, served, moves>>

HeadPose ==
  /\ serving /\ engine = "running"
  /\ Moves
  /\ head' = TRUE
  /\ UNCHANGED <<initVars, callbackVars, engine, serving, slot, fresh, frameVars>>

ControllerState(c, state) ==
  /\ serving /\ engine = "running"
  /\ Moves
  /\ slot' = [slot EXCEPT ![c] = state]
  /\ fresh' = fresh \cup {c}
  /\ UNCHANGED <<initVars, callbackVars, engine, serving, head, frameVars>>

\* CONTROLLER_STALE_AFTER passes without a packet: the controller is not tracked any more.
ControllerQuiet(c) ==
  /\ c \in fresh
  /\ fresh' = fresh \ {c}
  /\ UNCHANGED <<initVars, callbackVars, engine, serving, head, slot, frameVars, served, moves>>

\* parse_view_config(): the engine drops a view no headset has.
Parsed(kind, view) == kind = "view" => view \in Plausible

\* notify_*() finds the callback, which finds s_instance and the HMD; without them nothing happens. A
\* poll under way may come to it after fvp_shutdown() took the engine, as long as the runtime is there.
CallBack(kind, view) ==
  /\ serving
  /\ callback = "none"
  /\ Moves
  /\ IF Parsed(kind, view) /\ registered /\ instance /\ device["hmd"] # "none"
     THEN callback' = kind /\ carried' = view
     ELSE UNCHANGED callbackVars
  /\ UNCHANGED <<initVars, engine, serving, slotVars, frameVars>>

\* updateViewConfig() stores the view; requestIdr(), updateGaze() and updateBitrate() set atomics of
\* the encoder (see KeyframeRecovery and AdaptiveBitrate).
CallbackReturns ==
  /\ callback # "none"
  /\ callback' = "none" /\ carried' = NoView
  /\ IF callback = "view"
     THEN pendingView' = carried /\ told' = carried /\ early' = (device["hmd"] # "active")
     ELSE UNCHANGED <<pendingView, told, early>>
  /\ UNCHANGED <<initVars, engine, serving, slotVars, live, displayed, served, moves>>

-----------------------------------------------------------------------------
(***************************************************************************)
(* RunFrame.                                                               *)
(***************************************************************************)

\* fvp_get_tracking_data() and fvp_get_controller_state()
Tracked == engine = "running" /\ head
Reports(c) == engine = "running" /\ slot[c] # "none" /\ c \in fresh

\* CHmdDevice::RunFrame(): the view is taken whether or not SteamVR can be told of it.
RunHmd ==
  /\ stage = "up"
  /\ pendingView' = NoView
  /\ LET active == device["hmd"] = "active"
     IN displayed' = [displayed EXCEPT !.pose = IF active THEN Tracked ELSE @,
                               !.view = IF active /\ pendingView # NoView THEN pendingView ELSE @]
  /\ UNCHANGED <<initVars, callbackVars, engine, serving, slotVars, live, told, early, served, moves>>

\* SteamVR takes inputs of components that Activate() created.
Inputs(c, held) ==
  displayed' = IF device[c] # "active" THEN displayed
           ELSE [displayed EXCEPT !.held = IF held THEN @ \cup {c} ELSE @ \ {c}]

\* Mutant of RunController: a controller that went quiet keeps its inputs.
RunControllerHolding(c) ==
  /\ stage = "up"
  /\ IF Reports(c)
     THEN Inputs(c, slot[c] = "held") /\ live' = live \cup {c}
     ELSE UNCHANGED <<displayed, live>>
  /\ UNCHANGED <<initVars, callbackVars, engine, serving, slotVars, pendingView, told, early, served, moves>>

\* CControllerDevice::RunFrame(): one that stopped reporting is released once.
RunController(c) ==
  /\ stage = "up"
  /\ IF Reports(c) THEN Inputs(c, slot[c] = "held") /\ live' = live \cup {c}
     ELSE IF c \in live THEN Inputs(c, FALSE) /\ live' = live \ {c}
     ELSE UNCHANGED <<displayed, live>>
  /\ UNCHANGED <<initVars, callbackVars, engine, serving, slotVars, pendingView, told, early, served, moves>>

DriverInit ==
  /\ stage = "off" /\ inits = 0 /\ instance = FALSE /\ registered = FALSE
  /\ device = [d \in DriverDevices |-> "none"]
  /\ callback = "none" /\ carried = NoView
  /\ engine = "none" /\ serving = FALSE
  /\ head = FALSE /\ slot = NoSlots /\ fresh = {}
  /\ pendingView = NoView /\ live = {}
  /\ displayed = [pose |-> FALSE, held |-> {}, view |-> NoView]
  /\ told = NoView /\ early = FALSE
  /\ served = 0 /\ moves = 0

DriverNext ==
  \/ InitEngine \/ AddDevices \/ SetInstance \/ RegisterCallbacks
  \/ StopEngine \/ EngineGone \/ ClearInstance \/ DestroyDevices
  \/ \E d \in DriverDevices : Activate(d)
  \/ HeadsetConnects \/ HeadsetLeaves \/ HeadPose
  \/ \E c \in Controllers : ControllerQuiet(c) \/ RunController(c)
  \/ \E c \in Controllers, state \in {"held", "idle"} : ControllerState(c, state)
  \/ \E view \in Views : CallBack("view", view)
  \/ CallBack("other", NoView) \/ CallbackReturns
  \/ RunHmd

\* vrserver calls RunFrame all the time, and a callback only sets a value.
DriverFairness ==
  /\ WF_driverVars(RunHmd) /\ WF_driverVars(CallbackReturns)
  /\ \A c \in Controllers : WF_driverVars(RunController(c))

DriverSpec == DriverInit /\ [][DriverNext]_driverVars /\ DriverFairness

-----------------------------------------------------------------------------
\* A callback under way has its HMD: Cleanup destroys the devices after the last of them, over every
\* order of Cleanup, tasks that were cancelled and a new Init.
CallbacksFindDevice == callback # "none" => device["hmd"] # "none" /\ instance

InStep ==
  /\ device["hmd"] = "active" => displayed.pose = Tracked
  /\ told = NoView \/ early \/ displayed.view = told
  /\ \A c \in Controllers :
       device[c] = "active" => (c \in displayed.held) = (Reports(c) /\ slot[c] = "held")

\* While the driver is up, SteamVR comes to have the headset's pose, the view it sent last, and the
\* inputs that its controllers hold now: a controller that went quiet or a serving that ended
\* leaves nothing pressed.
SteamVrFollowsHeadset == []<>(stage # "up" \/ InStep)

=============================================================================
