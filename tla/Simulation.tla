----------------------------- MODULE Simulation ------------------------------
(* The companion app's simulation: an engine and a mock headset in threads   *)
(* of the app (sim.rs, main.rs), which meet over the status file that a real *)
(* engine also writes (test_helpers.rs, simulator/mod.rs). The window's      *)
(* thread starts them, stops them on a thread of its own and reaps that one  *)
(* later; closing the window stops and waits in place.                       *)
(*                                                                           *)
(* Threads may fail to start, the engine may fail to come up, sessions break *)
(* and PINs change between the client's look at the file and its handshake;  *)
(* a real engine comes and goes.                                             *)
EXTENDS Integers, FiniteSets

CONSTANTS MaxSims, MaxRealRuns  \* bounds of the model

ASSUME SimulationAssumption == MaxSims \in Nat /\ MaxRealRuns \in Nat

VARIABLES
  window,    \* the app: its life, the simulation it holds, the one stopping, sim_error, engine_alive
  sims,      \* of each simulation: its two threads, token, SimStatus.error, and the thread that stops it
  file,      \* status.json: who wrote it, whether with a PIN, whether it is recent, and (a history)
             \* whether its simulation ended and could not delete it
  real       \* the engine in vrserver.exe: whether it runs, how often it started

simulationVars == <<window, sims, file, real>>

Sims == 1..MaxSims

None == 0

Real == MaxSims + 1  \* writes the file like they do

NoFile == [by |-> None, pin |-> FALSE, fresh |-> FALSE, kept |-> FALSE]

Unused == [engine |-> "none", client |-> "none", tried |-> None, cancelled |-> FALSE, error |-> FALSE,
           stopper |-> "none", leaked |-> FALSE]

Over == [Unused EXCEPT !.engine = "down", !.client = "ended", !.cancelled = TRUE, !.stopper = "done"]

(* The engine's own writes stop when its thread has dropped it.              *)
Writes(i) == sims[i].engine \in {"waiting", "streaming"}

Publish(i, sim) ==
  file' = [by |-> i, pin |-> sim.engine = "waiting", fresh |-> TRUE, kept |-> FALSE]

Changes(i, sim) == sims' = [sims EXCEPT ![i] = sim]

-----------------------------------------------------------------------------
(* SimHandle::shutdown() begins: on a thread, or where the handle is dropped.*)
Stopping(sim) == [sim EXCEPT !.cancelled = TRUE, !.stopper = "engine"]

(* Mutant: a start does not look at sim_stopping.                            *)
MayStartOverStopping == window.handle = None

MayStart == window.handle = None /\ window.stopping = None

(* sim::start(): both threads run, or the first could not start, or the      *)
(* second: then nobody holds the token or the thread of the first.           *)
SimOutcomes(i) ==
  {[window |-> [window EXCEPT !.handle = i, !.error = FALSE],
    sim |-> [Unused EXCEPT !.engine = "starting", !.client = "resolving"]],
   [window |-> [window EXCEPT !.error = TRUE], sim |-> [Unused EXCEPT !.engine = "down"]],
   [window |-> [window EXCEPT !.error = TRUE],
    sim |-> [Unused EXCEPT !.engine = "starting", !.leaked = TRUE]]}

(* start_sim(): a click, or --simulate in the first update(), which has read *)
(* the file before. delete_stale_status() deletes it if it can.              *)
StartSim ==
  /\ window.life = "open" /\ MayStart
  /\ IF window.alive
     THEN /\ window' = [window EXCEPT !.error = TRUE]
          /\ UNCHANGED <<sims, file>>
     ELSE \E i \in Sims :
            /\ sims[i] = Unused /\ \A j \in Sims : j < i => sims[j] # Unused
            /\ \E s \in SimOutcomes(i) : window' = s.window /\ Changes(i, s.sim)
            /\ file' \in {NoFile, file}
  /\ UNCHANGED real

(* stop_sim(): without a thread for it the window waits itself.              *)
StopSim ==
  /\ window.life = "open" /\ window.handle # None
  /\ \/ window' = [window EXCEPT !.handle = None, !.stopping = window.handle]
     \/ window' = [window EXCEPT !.handle = None, !.held = window.handle, !.life = "held"]
  /\ Changes(window.handle, Stopping(sims[window.handle]))
  /\ UNCHANGED <<file, real>>

HeldStopEnds ==
  /\ window.life = "held" /\ sims[window.held].stopper = "done"
  /\ window' = [window EXCEPT !.life = "open", !.held = None]
  /\ UNCHANGED <<sims, file, real>>

(* reap_sim_stop().                                                          *)
ReapSimStop(w) ==
  IF w.stopping # None /\ sims[w.stopping].stopper = "done" THEN [w EXCEPT !.stopping = None] ELSE w

(* update(): read_engine_status() first, then the simulation's error.        *)
UpdateSim ==
  /\ window.life = "open"
  /\ window' = ReapSimStop([window EXCEPT !.alive = file.fresh,
                                          !.error = @ \/ (window.handle # None /\ sims[window.handle].error)])
  /\ UNCHANGED <<sims, file, real>>

(* on_exit() waits for the one that stops, then the app is dropped, with its *)
(* handle; the process takes what was leaked with it.                        *)
CloseWindow ==
  /\ window.life = "open" /\ window' = [window EXCEPT !.life = "exiting"]
  /\ UNCHANGED <<sims, file, real>>

DropApp ==
  /\ window.life = "exiting"
  /\ window.stopping # None => sims[window.stopping].stopper = "done"
  /\ window' = [window EXCEPT !.life = "dropping", !.stopping = None, !.handle = None, !.held = window.handle]
  /\ IF window.handle = None THEN UNCHANGED sims ELSE Changes(window.handle, Stopping(sims[window.handle]))
  /\ UNCHANGED <<file, real>>

ProcessEnds ==
  /\ window.life = "dropping"
  /\ window.held # None => sims[window.held].stopper = "done"
  /\ window' = [window EXCEPT !.life = "closed", !.held = None]
  /\ sims' = [i \in Sims |-> IF sims[i].leaked THEN [sims[i] EXCEPT !.engine = "down"] ELSE sims[i]]
  /\ UNCHANGED <<file, real>>

-----------------------------------------------------------------------------
(* The rest of shutdown(): join the engine, join the client, and remove the  *)
(* file, or try to.                                                          *)
Shutdown(i) ==
  LET sim == sims[i] IN
  /\ \/ /\ sim.stopper = "engine" /\ sim.engine = "down"
        /\ Changes(i, [sim EXCEPT !.stopper = "client"]) /\ UNCHANGED file
     \/ /\ sim.stopper = "client" /\ sim.client = "ended"
        /\ Changes(i, [sim EXCEPT !.stopper = "file"]) /\ UNCHANGED file
     \/ /\ sim.stopper = "file"
        /\ Changes(i, Over)
        /\ file' = NoFile \/ file' = [file EXCEPT !.kept = @ \/ file.by = i]
  /\ UNCHANGED <<window, real>>

-----------------------------------------------------------------------------
(* The engine's thread: StreamingEngine::new(), which waits for a client.    *)
EngineComesUp(i) ==
  /\ sims[i].engine = "starting"
  /\ \/ LET sim == [sims[i] EXCEPT !.engine = "waiting"] IN Changes(i, sim) /\ Publish(i, sim)
     \/ Changes(i, [sims[i] EXCEPT !.engine = "down", !.error = TRUE]) /\ UNCHANGED file
  /\ UNCHANGED <<window, real>>

EnginePublishes(i) == Writes(i) /\ Publish(i, sims[i]) /\ UNCHANGED <<window, sims, real>>

(* It saw the token, after at most a frame, and drops the engine.            *)
EngineEnds(i) ==
  /\ sims[i].cancelled /\ Writes(i)
  /\ Changes(i, [sims[i] EXCEPT !.engine = "down"])
  /\ UNCHANGED <<window, file, real>>

-----------------------------------------------------------------------------
(* Mutant: a mock client that failed says nothing.                           *)
GivesUpSilently(sim) == [sim EXCEPT !.client = "ended"]

(* The client's thread ends: with an error unless it was told to.            *)
GivesUp(sim) == [sim EXCEPT !.client = "ended", !.error = @ \/ ~sim.cancelled]

ClientStep(i, from, sim) ==
  /\ sims[i].client = from /\ Changes(i, sim)
  /\ UNCHANGED <<window, file, real>>

(* wait_for_pin(): whoever wrote it; five seconds without one end the thread.*)
Resolves(i) ==
  \/ file.pin /\ ClientStep(i, "resolving", [sims[i] EXCEPT !.client = "connecting", !.tried = file.by])
  \/ ~file.pin /\ ClientStep(i, "resolving", GivesUp(sims[i]))

(* run()'s connection, TLS and handshake do not look at the token. Another   *)
(* engine's PIN is refused, and so is its own that changed meanwhile.        *)
Connects(i) ==
  \/ /\ sims[i].engine = "waiting" /\ sims[i].tried = i
     /\ ClientStep(i, "connecting", [sims[i] EXCEPT !.engine = "streaming", !.client = "streaming"])
  \/ ClientStep(i, "connecting", GivesUp(sims[i]))

(* A HEARTBEAT cannot be sent any more: run() returns, and 200 ms later the  *)
(* loop begins again. The engine holds, or waits with another PIN.           *)
SessionBreaks(i) ==
  /\ ~sims[i].cancelled /\ sims[i].engine = "streaming"
  /\ ClientStep(i, "streaming", [sims[i] EXCEPT !.client = "pausing", !.engine = "waiting"])

(* The token, or the engine that went with it, ends the session.             *)
ClientStops(i) ==
  \/ sims[i].cancelled /\ ClientStep(i, "streaming", [sims[i] EXCEPT !.client = "ended",
       !.engine = IF @ = "streaming" THEN "waiting" ELSE @])
  \/ ClientStep(i, "pausing", [sims[i] EXCEPT !.client = IF sims[i].cancelled THEN "ended" ELSE "resolving"])

-----------------------------------------------------------------------------
RealStarts ==
  /\ ~real.on /\ real.runs < MaxRealRuns
  /\ real' = [on |-> TRUE, runs |-> real.runs + 1]
  /\ UNCHANGED <<window, sims, file>>

RealPublishes ==
  /\ real.on
  /\ \E pin \in BOOLEAN : file' = [by |-> Real, pin |-> pin, fresh |-> TRUE, kept |-> FALSE]
  /\ UNCHANGED <<window, sims, real>>

RealEnds == real.on /\ real' = [real EXCEPT !.on = FALSE] /\ UNCHANGED <<window, sims, file>>

(* Five seconds without a write: ENGINE_STALE_THRESHOLD.                     *)
FileGrowsOld ==
  /\ file.fresh /\ ~real.on /\ \A i \in Sims : ~Writes(i)
  /\ file' = [file EXCEPT !.fresh = FALSE]
  /\ UNCHANGED <<window, sims, real>>

(* The first update() has read the file.                                     *)
SimulationInit ==
  /\ file \in {NoFile} \cup [by : {Real}, pin : BOOLEAN, fresh : BOOLEAN, kept : {FALSE}]
  /\ window = [life |-> "open", handle |-> None, stopping |-> None, held |-> None, error |-> FALSE,
               alive |-> file.fresh]
  /\ sims = [i \in Sims |-> Unused]
  /\ real = [on |-> file.fresh, runs |-> IF file.fresh THEN 1 ELSE 0]

SimulationNext ==
  \/ StartSim \/ StopSim \/ HeldStopEnds \/ UpdateSim \/ CloseWindow \/ DropApp \/ ProcessEnds
  \/ RealStarts \/ RealPublishes \/ RealEnds \/ FileGrowsOld
  \/ \E i \in Sims :
       \/ Shutdown(i) \/ EngineComesUp(i) \/ EnginePublishes(i) \/ EngineEnds(i)
       \/ Resolves(i) \/ Connects(i) \/ SessionBreaks(i) \/ ClientStops(i)

(* Threads run; the window redraws each second, and a file nobody writes     *)
(* grows old.                                                                *)
SimulationFairness ==
  /\ WF_simulationVars(HeldStopEnds)
  /\ WF_simulationVars(UpdateSim)
  /\ WF_simulationVars(DropApp)
  /\ WF_simulationVars(ProcessEnds)
  /\ \A i \in Sims :
       /\ WF_simulationVars(Shutdown(i))
       /\ WF_simulationVars(EngineComesUp(i))
       /\ WF_simulationVars(EngineEnds(i))
       /\ WF_simulationVars(Resolves(i))
       /\ WF_simulationVars(Connects(i))
       /\ WF_simulationVars(ClientStops(i))

SimulationSpec == SimulationInit /\ [][SimulationNext]_simulationVars /\ SimulationFairness

-----------------------------------------------------------------------------
Held == {window.handle, window.stopping, window.held} \ {None}

(* The window holds one simulation at a time, and of one it does not hold    *)
(* nothing is left, no thread and no status.json but one it failed to delete *)
(* when its last thread had ended, unless its client's thread could not be   *)
(* started (start_sim(), stop_sim(), SimHandle::shutdown()).                 *)
SimulationsApart ==
  /\ Cardinality(Held) <= 1
  /\ \A i \in Sims \ Held : ~sims[i].leaked =>
       /\ sims[i].engine \in {"none", "down"} /\ sims[i].client \in {"none", "ended"}
       /\ file.by # i \/ file.kept

(* What was stopped comes to its end, whatever its client was doing; a       *)
(* closed window lets the process end; and a simulation that lost its client *)
(* says so, as long as it is shown (shutdown(), on_exit(), set_err()).       *)
SimulationSettles ==
  []<>(/\ window.stopping = None /\ window.held = None
       /\ window.life \in {"open", "closed"}
       /\ window.life = "open" /\ window.handle # None /\ sims[window.handle].client = "ended" => window.error)
==============================================================================
