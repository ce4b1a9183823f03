------------------------------- MODULE Scenario -------------------------------
(* The scenario runner (scenario.rs): scenarios one after another in one     *)
(* process, each with an engine, a mock client and a thread that fires its   *)
(* stimuli. They share what the process has once: the loss udp.rs injects,   *)
(* the delay of frames, the route of haptics, status.json and a directory of *)
(* recordings. Stimuli fire in their order at any time; threads wait, sleep  *)
(* and fail as they like.                                                    *)
EXTENDS Integers, Sequences

CONSTANTS
  Scripts,       \* the stimuli a scenario may have, sorted by at_sec
  MaxScenarios,  \* bound of the model: scenarios run
  MaxDatagrams   \* bound of the model: packets the engine sends in a session

(* What a stimulus does to the process: it sets an injected loss or delay,   *)
(* takes it back, or sends a haptic.                                         *)
StimulusKinds == {"loss", "noLoss", "latency", "noLatency", "haptic"}

ASSUME ScenarioAssumption ==
  /\ Scripts \subseteq Seq(StimulusKinds)
  /\ {MaxScenarios, MaxDatagrams} \subseteq Nat

VARIABLES
  runner,    \* the scenario that runs, how far it is, and (a history) what of earlier ones it could not remove
  stimuli,   \* of each: what its thread has left, whether it is about to fire, whether it was told to stop
  hosts,     \* of each: its engine, what it sent, and whose loss dropped packets, whose delay held frames
  headsets,  \* of each: its mock client, the PIN it has, and what it measured
  world,     \* the process: who set loss and delay, whose session gets haptics, whose PIN and recordings there are
  outcome    \* the last report: pass or fail, and whose recordings it counted

scenarioVars == <<runner, stimuli, hosts, headsets, world, outcome>>

Scenarios == 1..MaxScenarios

Nobody == 0  \* and what an earlier process left

NoHost == [state |-> "none", sent |-> 0, dropped |-> {}, delayed |-> {}]

NoReport == [out |-> "none", counted |-> {}]

NoHeadset == [state |-> "none", pin |-> Nobody, last |-> 0, received |-> 0, lost |-> 0, haptics |-> {}]

(* The runner goes on to its next step, and nothing else changes.            *)
Goes(from, to) == runner.at = from /\ runner' = [runner EXCEPT !.at = to]

(* A scenario as its file gives it, as far as runs tell scenarios apart: the *)
(* stimuli, whether the report counts recordings, and whose PIN is wrong.    *)
ScenarioFiles == [script : Scripts, checked : BOOLEAN, wrong : BOOLEAN]

(* Overrides the configuration does not have end the run with an error.      *)
AfterOverrides == {"engine", "idle"}

-----------------------------------------------------------------------------
(* The injected loss goes, the status file, and recordings if it counts them.*)
(* A deletion that fails, or stops halfway, is not looked at: delete_stale_- *)
(* status() leaves a PIN, remove_dir_all() some recordings.                  *)
Clean(checked, pin, files) ==
  /\ pin \in {Nobody, world.pin}
  /\ IF checked THEN files \subseteq world.files ELSE files = world.files
  /\ world' = [world EXCEPT !.pin = pin, !.loss = Nobody, !.files = files]

LeftOver(checked, pin, files) ==
  {what \in {"pin", "files"} : IF what = "pin" THEN pin # Nobody ELSE checked /\ files # {}}

(* run_scenario() up to the engine, or back with an error of an override.    *)
BeginScenario ==
  /\ runner.at = "idle" /\ runner.run < MaxScenarios
  /\ \E scenario \in ScenarioFiles, to \in AfterOverrides,
        pin \in {Nobody, world.pin}, files \in SUBSET world.files :
       /\ Clean(scenario.checked, pin, files)
       /\ runner' = [run |-> runner.run + 1, at |-> to, scenario |-> scenario,
                      left |-> LeftOver(scenario.checked, pin, files)]
  /\ outcome' = NoReport
  /\ UNCHANGED <<stimuli, hosts, headsets>>

(* StreamingEngine::new(): it opens its recording, or fails.                 *)
NewEngine ==
  \/ /\ Goes("engine", "idle")
     /\ UNCHANGED <<stimuli, hosts, headsets, world, outcome>>
  \/ /\ Goes("engine", "pin")
     /\ hosts' = [hosts EXCEPT ![runner.run].state = "starting"]
     /\ world' = [world EXCEPT !.files = @ \cup {runner.run}]
     /\ UNCHANGED <<stimuli, headsets, outcome>>

(* wait_for_pin() takes any PIN there is; without one the engine is dropped. *)
PinFound ==
  /\ world.pin # Nobody /\ Goes("pin", "client")
  /\ headsets' = [headsets EXCEPT ![runner.run].pin = world.pin]
  /\ stimuli' = [stimuli EXCEPT ![runner.run].left = runner.scenario.script]
  /\ UNCHANGED <<hosts, world, outcome>>

Unrouted(run) == [world EXCEPT !.route = IF @ = run THEN Nobody ELSE @]

NoPin ==
  /\ world.pin = Nobody /\ Goes("pin", "idle")
  /\ hosts' = [hosts EXCEPT ![runner.run].state = "gone"]
  /\ world' = Unrouted(runner.run)
  /\ UNCHANGED <<stimuli, headsets, outcome>>

(* The stimuli's thread runs already.                                        *)
StartClient ==
  /\ Goes("client", "reset")
  /\ headsets' = [headsets EXCEPT ![runner.run].state = "connecting"]
  /\ UNCHANGED <<stimuli, hosts, world, outcome>>

(* The delay of an earlier scenario, or of its own first stimulus.           *)
ResetLatency ==
  /\ Goes("reset", "pumping")
  /\ world' = [world EXCEPT !.latency = Nobody]
  /\ UNCHANGED <<stimuli, hosts, headsets, outcome>>

(* The mock client's receiver: the packet, and the gap before it.            *)
Received(headset, seq) ==
  [headset EXCEPT !.received = @ + 1, !.last = seq,
                  !.lost = IF headset.last = 0 THEN @ ELSE @ + seq - 1 - headset.last]

(* A frame is submitted, and the next is as late as the delay says; a        *)
(* session sends it, or udp.rs drops it; the client counts it, and the gap.  *)
PumpFrame ==
  /\ runner.at = "pumping"
  /\ LET run == runner.run
         host == hosts[run]
         delayed == [host EXCEPT !.delayed = @ \cup {world.latency}]
     IN IF host.state # "session" \/ host.sent = MaxDatagrams
        THEN hosts' = [hosts EXCEPT ![run] = delayed] /\ UNCHANGED headsets
        ELSE \/ /\ world.loss # Nobody
                /\ hosts' = [hosts EXCEPT ![run] = [delayed EXCEPT !.sent = @ + 1, !.dropped = @ \cup {world.loss}]]
                /\ UNCHANGED headsets
             \/ /\ hosts' = [hosts EXCEPT ![run] = [delayed EXCEPT !.sent = @ + 1]]
                /\ headsets' = [headsets EXCEPT ![run] = Received(@, host.sent + 1)]
  /\ UNCHANGED <<runner, stimuli, world, outcome>>

WindowEnds ==
  /\ Goes("pumping", "join")
  /\ stimuli' = [stimuli EXCEPT ![runner.run].cancelled = TRUE]
  /\ UNCHANGED <<hosts, headsets, world, outcome>>

Joined(run) == headsets[run].state \in {"done", "rejected", "failed"}

(* Mutant: the stimuli's thread is left behind.                              *)
JoinThreadsClient ==
  /\ Goes("join", "drop") /\ Joined(runner.run)
  /\ UNCHANGED <<stimuli, hosts, headsets, world, outcome>>

(* The stimuli's thread first, however long it sleeps, then the client's.    *)
JoinThreads ==
  /\ Goes("join", "drop") /\ Joined(runner.run) /\ stimuli[runner.run].left = <<>>
  /\ UNCHANGED <<stimuli, hosts, headsets, world, outcome>>

DropEngine ==
  /\ Goes("drop", "report")
  /\ hosts' = [hosts EXCEPT ![runner.run].state = "gone"]
  /\ world' = Unrouted(runner.run)
  /\ UNCHANGED <<stimuli, headsets, outcome>>

(* measure_recording_dir(), of a report that counts recordings.              *)
CountedFiles == IF runner.scenario.checked THEN world.files ELSE {}

(* evaluate_assertions(): by what was measured, or by the PIN alone.         *)
Verdicts == {"passed", "failed"}

(* A client that failed is a failed scenario.                                *)
Report ==
  /\ Goes("report", "idle")
  /\ LET state == headsets[runner.run].state IN
     \E out \in IF state = "failed" THEN {"failed"} ELSE Verdicts :
       outcome' = [out |-> out, counted |-> IF state = "done" THEN CountedFiles ELSE {}]
  /\ UNCHANGED <<stimuli, hosts, headsets, world>>

-----------------------------------------------------------------------------
(* The stimuli's thread looks at the token before and after its sleep.       *)
StimulusDue(run) ==
  /\ stimuli[run].left # <<>> /\ ~stimuli[run].firing
  /\ stimuli' = [stimuli EXCEPT ![run] = IF @.cancelled THEN [@ EXCEPT !.left = <<>>] ELSE [@ EXCEPT !.firing = TRUE]]
  /\ UNCHANGED <<runner, hosts, headsets, world, outcome>>

(* The reader of a mock client's session counts the haptics it is sent.      *)
Captured(headset, run) == [headset EXCEPT !.haptics = @ \cup {run}]

(* execute(). A haptic may find its connection at its end.                   *)
Fire(run) ==
  /\ stimuli[run].firing
  /\ LET stimulus == Head(stimuli[run].left) IN
     /\ stimuli' = [stimuli EXCEPT ![run].left = Tail(@), ![run].firing = FALSE]
     /\ world' = CASE stimulus = "loss" -> [world EXCEPT !.loss = run]
                   [] stimulus = "noLoss" -> [world EXCEPT !.loss = Nobody]
                   [] stimulus = "latency" -> [world EXCEPT !.latency = run]
                   [] stimulus = "noLatency" -> [world EXCEPT !.latency = Nobody]
                   [] stimulus = "haptic" -> world
     /\ \/ stimulus = "haptic" /\ world.route # Nobody /\ headsets[world.route].state = "streaming"
           /\ headsets' = [headsets EXCEPT ![world.route] = Captured(@, run)]
        \/ UNCHANGED headsets
  /\ UNCHANGED <<runner, hosts, outcome>>

(* The engine listens, and its status has a PIN.                             *)
PublishesPin(run) ==
  /\ hosts[run].state \in {"starting", "waiting"}
  /\ hosts' = [hosts EXCEPT ![run].state = "waiting"]
  /\ world' = [world EXCEPT !.pin = run]
  /\ UNCHANGED <<runner, stimuli, headsets, outcome>>

(* run() of the mock client: a session with the right PIN of this engine,    *)
(* whose route haptics take; or it is refused, or the connection fails.      *)
ConnectsTo(run) ==
  /\ headsets[run].state = "connecting" /\ hosts[run].state = "waiting"
  /\ \/ /\ headsets[run].pin = run /\ ~runner.scenario.wrong
        /\ headsets' = [headsets EXCEPT ![run].state = "streaming"]
        /\ hosts' = [hosts EXCEPT ![run].state = "session"]
        /\ world' = [world EXCEPT !.pin = Nobody, !.route = run]
     \/ /\ headsets[run].pin # run \/ runner.scenario.wrong
        /\ headsets' = [headsets EXCEPT ![run].state = "rejected"]
        /\ UNCHANGED <<hosts, world>>
     \/ /\ headsets' = [headsets EXCEPT ![run].state = "failed"]
        /\ UNCHANGED <<hosts, world>>
  /\ UNCHANGED <<runner, stimuli, outcome>>

(* Its time is over, a message cannot be sent, or the token says so: it says *)
(* DISCONNECT and the engine waits again.                                    *)
LeavesSession(run) ==
  /\ headsets[run].state = "streaming"
  /\ headsets' = [headsets EXCEPT ![run].state = "done"]
  /\ hosts' = [hosts EXCEPT ![run].state = "waiting"]
  /\ world' = Unrouted(run)
  /\ UNCHANGED <<runner, stimuli, outcome>>

ScenarioInit ==
  /\ runner = [run |-> 0, at |-> "idle", left |-> {},
                scenario |-> [script |-> <<>>, checked |-> FALSE, wrong |-> FALSE]]
  /\ stimuli = [r \in Scenarios |-> [left |-> <<>>, firing |-> FALSE, cancelled |-> FALSE]]
  /\ hosts = [r \in Scenarios |-> NoHost]
  /\ headsets = [r \in Scenarios |-> NoHeadset]
  /\ world = [loss |-> Nobody, latency |-> Nobody, route |-> Nobody, pin |-> Nobody, files |-> {Nobody}]
  /\ outcome = NoReport

ScenarioNext ==
  \/ BeginScenario \/ NewEngine \/ PinFound \/ NoPin \/ StartClient \/ ResetLatency
  \/ PumpFrame \/ WindowEnds \/ JoinThreads \/ DropEngine \/ Report
  \/ \E r \in Scenarios :
       StimulusDue(r) \/ Fire(r) \/ PublishesPin(r) \/ ConnectsTo(r) \/ LeavesSession(r)

ScenarioSpec == ScenarioInit /\ [][ScenarioNext]_scenarioVars

-----------------------------------------------------------------------------
(* What a scenario measures is its own: its packets are dropped, its frames  *)
(* delayed and its haptics sent by its own stimuli, and a loss it counts is  *)
(* one that was injected (the resets of run_scenario(), its joins); and when *)
(* run_scenario() could delete what was there, its client has the PIN of its *)
(* engine, and its report counts only its recordings.                        *)
ScenariosApart ==
  /\ "files" \notin runner.left => outcome.counted \subseteq {runner.run}
  /\ \A r \in Scenarios :
       /\ hosts[r].dropped \cup headsets[r].haptics \subseteq {r}
       /\ hosts[r].delayed \subseteq {Nobody, r}
       /\ r = runner.run /\ "pin" \notin runner.left => headsets[r].pin \in {Nobody, r}
       /\ headsets[r].lost > 0 => r \in hosts[r].dropped
==============================================================================
