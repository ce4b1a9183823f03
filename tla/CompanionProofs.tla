-------------------------- MODULE CompanionProofs --------------------------
(***************************************************************************)
(* Proofs about the companion app, for any headsets and phones, and any    *)
(* number of clicks, scans, restarts and simulations: its buttons touch    *)
(* only what the window shows, and its simulations stay apart from each    *)
(* other and leave nothing behind. The two share no state, and each has    *)
(* its own inductive invariant.                                            *)
(***************************************************************************)
EXTENDS Companion, Simulation, FiniteSetTheorems, TLAPS

-----------------------------------------------------------------------------
(* The buttons, the scan and the threads behind them.                      *)

\* Whose thread runs, and what it may touch: adb commands go to one of the headsets
\* that were listed, and in demo mode none were.
WorkSound(w) ==
  /\ w.step \in AdbSteps => w.device \in Headsets /\ ~app.demo
  /\ w.step = "info" => w.device \in Headsets \cup {"none"} /\ (app.demo => w.device = "none")
  /\ w.targets \subseteq Headsets
  /\ app.demo => w.targets = {}

\* The steps of a thread; one that is at none of them has its result, or is not there.
Steps == {"none", "install", "address", "start", "launch", "info", "logcat", "dialog"}

Works == [step : Steps, targets : SUBSET (Headsets \cup Phones), device : Headsets \cup Phones \cup {"none"},
          pin : BOOLEAN, result : BOOLEAN]

Apps == [adb : BOOLEAN, demo : BOOLEAN, pin : BOOLEAN, apk : BOOLEAN, runs : Int, clicks : Int]

\* What the app holds is about headsets it may talk to: in demo mode no scan runs and
\* nothing is listed, so that no thread has a device.
CompanionTyped ==
  /\ app \in Apps
  /\ work \in [Jobs -> Works]
  /\ busy \in [Jobs -> BOOLEAN]
  /\ listed \subseteq Headsets \cup Phones
  /\ plugged \in [devices : SUBSET (Headsets \cup Phones), changes : Int]
  /\ scan \in [run : {"none", "running", "done"}, found : SUBSET (Headsets \cup Phones), due : BOOLEAN]
  /\ steamVr \in [registered : BOOLEAN, copied : BOOLEAN]

CompanionInv ==
  /\ CompanionTyped
  /\ issued \subseteq Headsets
  /\ app.demo => issued = {} /\ listed = {} /\ scan.run = "none" /\ scan.found = {}
  /\ \A job \in Jobs : (busy[job] <=> work[job] # Idle) /\ WorkSound(work[job])
  /\ ~outside => driverView = Looks(steamVr)

\* What a step does to the app's own fields: flags are set, counters go up.
LEMMA AppChanges ==
  ASSUME NEW a \in Apps, NEW flag \in BOOLEAN
  PROVE  /\ [a EXCEPT !.clicks = @ + 1] \in Apps
         /\ [a EXCEPT !.pin = flag, !.clicks = @ + 1] \in Apps
         /\ [a EXCEPT !.adb = flag, !.pin = FALSE, !.runs = @ + 1] \in Apps
         /\ [a EXCEPT !.apk = flag] \in Apps
         /\ [a EXCEPT !.pin = flag, !.clicks = @ + 1].demo = a.demo
         /\ [a EXCEPT !.adb = flag, !.pin = FALSE, !.runs = @ + 1].demo = a.demo
PROOF
<1>1. a.clicks + 1 \in Int /\ a.runs + 1 \in Int
  BY DEF Apps
<1> DEFINE clicks == a.clicks + 1
           runs == a.runs + 1
<1> HIDE DEF clicks, runs
<1>2. /\ [a EXCEPT !.clicks = clicks] \in Apps
      /\ [a EXCEPT !.pin = flag, !.clicks = clicks] \in Apps
      /\ [a EXCEPT !.adb = flag, !.pin = FALSE, !.runs = runs] \in Apps
      /\ [a EXCEPT !.apk = flag] \in Apps
      /\ [a EXCEPT !.pin = flag, !.clicks = clicks].demo = a.demo
      /\ [a EXCEPT !.adb = flag, !.pin = FALSE, !.runs = runs].demo = a.demo
  BY <1>1 DEF Apps, clicks, runs
<1> QED BY <1>2 DEF clicks, runs

LEMMA CompanionInvInit == CompanionInit => CompanionInv
PROOF
<1> SUFFICES ASSUME CompanionInit PROVE CompanionInv
  OBVIOUS
<1>1. CompanionTyped
  <2>1. app \in Apps /\ plugged \in [devices : SUBSET (Headsets \cup Phones), changes : Int]
    BY DEF CompanionInit, Apps
  <2>2. work \in [Jobs -> Works] /\ busy \in [Jobs -> BOOLEAN]
    BY DEF CompanionInit, Idle, Works, Steps
  <2>3. steamVr \in [registered : BOOLEAN, copied : BOOLEAN]
    BY DEF CompanionInit
  <2> QED BY <2>1, <2>2, <2>3 DEF CompanionInit, CompanionTyped, NoScan
<1>2. \A job \in Jobs : (busy[job] <=> work[job] # Idle) /\ WorkSound(work[job])
  BY DEF CompanionInit, WorkSound, Idle, AdbSteps
<1> QED BY <1>1, <1>2 DEF CompanionInit, CompanionInv, NoScan

\* A step that leaves the threads and the mode alone.
LEMMA ThreadsLeft ==
  ASSUME CompanionInv, UNCHANGED <<busy, work>>, app'.demo = app.demo
  PROVE  \A job \in Jobs : (busy'[job] <=> work'[job] # Idle) /\ WorkSound(work[job])'
PROOF BY DEF CompanionInv, WorkSound

\* scan_devices() lists what a scan found, and in demo mode nothing.
LEMMA ScanLists ==
  ASSUME CompanionInv, NEW due \in BOOLEAN, ScanDevices(due)
  PROVE  /\ listed' \subseteq Headsets \cup Phones
         /\ scan' \in [run : {"none", "running", "done"}, found : SUBSET (Headsets \cup Phones), due : BOOLEAN]
         /\ app.demo => listed' = {} /\ scan'.run = "none" /\ scan'.found = {}
PROOF BY DEF CompanionInv, CompanionTyped, ScanDevices

\* A thread whose result is taken is gone, and its button is back.
LEMMA ResultsTaken ==
  ASSUME CompanionInv, NEW jobs \in SUBSET Jobs, TakeResults(jobs), app'.demo = app.demo
  PROVE  /\ work' \in [Jobs -> Works] /\ busy' \in [Jobs -> BOOLEAN]
         /\ \A job \in Jobs : (busy'[job] <=> work'[job] # Idle) /\ WorkSound(work[job])'
PROOF
<1>1. Idle \in Works /\ WorkSound(Idle)
  BY DEF Idle, Works, Steps, WorkSound, AdbSteps
<1>2. work' \in [Jobs -> Works] /\ busy' \in [Jobs -> BOOLEAN]
  BY <1>1 DEF TakeResults, CompanionInv, CompanionTyped
<1>3. ASSUME NEW job \in Jobs
      PROVE  (busy'[job] <=> work'[job] # Idle) /\ WorkSound(work[job])'
  <2>1. CASE job \in jobs /\ work[job].result
    <3>1. work'[job] = Idle /\ busy'[job] = FALSE
      BY <2>1 DEF TakeResults
    <3> QED BY <3>1, <1>1 DEF WorkSound
  <2>2. CASE ~(job \in jobs /\ work[job].result)
    <3>1. work'[job] = work[job] /\ busy'[job] = busy[job]
      BY <2>2 DEF TakeResults, CompanionInv, CompanionTyped
    <3> QED BY <3>1 DEF WorkSound, CompanionInv
  <2> QED BY <2>1, <2>2
<1> QED BY <1>2, <1>3

LEMMA UpdateStep == ASSUME CompanionInv, Update PROVE CompanionInv'
PROOF
<1>1. scan.due \in BOOLEAN /\ Jobs \ {"apk"} \in SUBSET Jobs
  BY DEF CompanionInv, CompanionTyped
<1>2. ScanDevices(scan.due) /\ TakeResults(Jobs \ {"apk"}) /\ UNCHANGED <<plugged, app, steamVr, driverView, issued, outside>>
  BY DEF Update
<1> HIDE DEF Update
<1> QED BY <1>1, <1>2, ScanLists, ResultsTaken DEF CompanionInv, CompanionTyped

LEMMA PollDialogStep == ASSUME CompanionInv, PollDialog PROVE CompanionInv'
PROOF
<1>1. /\ TakeResults({"apk"}) /\ {"apk"} \in SUBSET Jobs
      /\ UNCHANGED <<plugged, listed, scan, steamVr, driverView, issued, outside>>
  BY DEF PollDialog, Jobs
<1>2. app'.demo = app.demo /\ app' \in Apps
  BY DEF PollDialog, CompanionInv, CompanionTyped, Apps
<1> QED BY <1>1, <1>2, ResultsTaken DEF CompanionInv, CompanionTyped

LEMMA RefreshStep == ASSUME CompanionInv, Refresh PROVE CompanionInv'
PROOF
<1>1. /\ ScanDevices(TRUE) /\ UNCHANGED <<plugged, busy, work, steamVr, driverView, issued, outside>>
      /\ app' = [app EXCEPT !.clicks = @ + 1]
  BY DEF Refresh
<1>2. app'.demo = app.demo /\ app' \in Apps
  BY <1>1 DEF CompanionInv, CompanionTyped, Apps
<1> QED BY <1>1, <1>2, ScanLists, ThreadsLeft DEF CompanionInv, CompanionTyped

\* What a button starts: a thread for one of the headsets listed, none in demo mode.
LEMMA StartedSound ==
  ASSUME CompanionInv, NEW job \in Jobs, NEW w \in Started(job)
  PROVE  w \in Works /\ w # Idle /\ WorkSound(w)
PROOF
<1> DEFINE targets == VrDevices(listed)
           on(step, d) == [Idle EXCEPT !.step = step, !.device = d, !.pin = app.pin]
<1>0. targets \subseteq Headsets /\ (app.demo => targets = {}) /\ app.pin \in BOOLEAN
  BY DEF VrDevices, CompanionInv, CompanionTyped, Apps
<1>a. \A step \in Steps \ {"none"}, d \in Headsets \cup {"none"} :
        /\ on(step, d) \in Works /\ on(step, d) # Idle
        /\ on(step, d).step = step /\ on(step, d).device = d /\ on(step, d).targets = {}
  BY <1>0 DEF Idle, Works, Steps
<1>b. \A d \in targets : LET v == [on("install", d) EXCEPT !.targets = targets \ {d}] IN
        v \in Works /\ v # Idle /\ v.step = "install" /\ v.device = d /\ v.targets = targets \ {d}
  BY <1>0 DEF Idle, Works, Steps
<1>1. CASE job = "deploy" /\ app.adb /\ app.apk
  <2>1. PICK d \in targets : w = [on("install", d) EXCEPT !.targets = targets \ {d}]
    BY <1>1 DEF Started
  <2> QED BY <2>1, <1>b, <1>0 DEF WorkSound, AdbSteps
<1>2. CASE job = "pairing" /\ app.adb /\ app.pin
  <2>1. PICK d \in targets : w = on("address", d)
    BY <1>2 DEF Started
  <2> HIDE DEF on
  <2> QED BY <2>1, <1>a, <1>0 DEF WorkSound, AdbSteps, Steps
<1>3. CASE job = "export"
  <2>1. PICK d \in (IF app.adb /\ targets # {} THEN targets ELSE {"none"}) : w = on("info", d)
    BY <1>3 DEF Started
  <2> HIDE DEF on
  <2> QED BY <2>1, <1>a, <1>0 DEF WorkSound, AdbSteps, Steps
<1>4. CASE job = "apk"
  <2>1. w = on("dialog", "none")
    BY <1>4 DEF Started
  <2> HIDE DEF on
  <2> QED BY <2>1, <1>a DEF WorkSound, AdbSteps, Steps
<1> QED BY <1>1, <1>2, <1>3, <1>4 DEF Started, Jobs

\* A thread's device is told something only if it is a headset's.
LEMMA IssuedToHeadsets ==
  ASSUME CompanionInv, NEW w, WorkSound(w), Issue(w)
  PROVE  issued' \subseteq Headsets /\ (app.demo => issued' = {})
PROOF BY DEF Issue, WorkSound, CompanionInv

LEMMA ClickStep == ASSUME CompanionInv, NEW job \in Jobs, Click(job) PROVE CompanionInv'
PROOF
<1>1. PICK w \in Started(job) : work' = [work EXCEPT ![job] = w] /\ Issue(w)
  BY DEF Click
<1>2. w \in Works /\ w # Idle /\ WorkSound(w)
  BY StartedSound
<1>3. /\ busy' = [busy EXCEPT ![job] = TRUE] /\ app' = [app EXCEPT !.clicks = @ + 1]
      /\ UNCHANGED <<plugged, listed, scan, steamVr, driverView, outside>>
  BY DEF Click
<1>4. app'.demo = app.demo /\ app' \in Apps
  BY <1>3 DEF CompanionInv, CompanionTyped, Apps
<1>5. \A other \in Jobs : (busy'[other] <=> work'[other] # Idle) /\ WorkSound(work[other])'
  BY <1>1, <1>2, <1>3, <1>4 DEF WorkSound, CompanionInv, CompanionTyped
<1>6. work' \in [Jobs -> Works] /\ busy' \in [Jobs -> BOOLEAN]
  BY <1>1, <1>2, <1>3 DEF CompanionInv, CompanionTyped
<1>7. issued' \subseteq Headsets /\ (app.demo => issued' = {})
  BY <1>1, <1>2, IssuedToHeadsets
<1> QED BY <1>3, <1>4, <1>5, <1>6, <1>7 DEF CompanionInv, CompanionTyped

LEMMA FinishedSound == Finished \in Works /\ Finished # Idle /\ WorkSound(Finished)
PROOF
<1>1. /\ Finished.step = "none" /\ Finished.targets = {} /\ Finished.result = TRUE
      /\ Finished \in Works /\ Idle.result = FALSE
  BY DEF Finished, Idle, Works, Steps
<1> QED BY <1>1 DEF WorkSound, AdbSteps

\* Deploy goes on with the targets it started with.
LEMMA NextTargetsSound ==
  ASSUME CompanionInv, NEW w \in Works, WorkSound(w), NEW v \in NextTargets(w)
  PROVE  v \in Works /\ v # Idle /\ WorkSound(v)
PROOF
<1>1. CASE w.targets = {}
  BY <1>1, FinishedSound DEF NextTargets
<1>2. CASE w.targets # {}
  <2>1. PICK d \in w.targets : v = [w EXCEPT !.step = "install", !.device = d, !.targets = @ \ {d}]
    BY <1>2 DEF NextTargets
  <2>2. d \in Headsets /\ ~app.demo
    BY <2>1 DEF WorkSound
  <2>3. v.step = "install" /\ v.device = d /\ v.targets = w.targets \ {d} /\ v \in Works
    BY <2>1, <2>2 DEF Works, Steps
  <2> QED BY <2>2, <2>3 DEF WorkSound, AdbSteps, Idle
<1> QED BY <1>1, <1>2

LEMMA SucceededSound ==
  ASSUME CompanionInv, NEW w \in Works, WorkSound(w), w.step # "none", NEW v \in Succeeded(w)
  PROVE  v \in Works /\ v # Idle /\ WorkSound(v)
PROOF
<1>1. CASE w.step \in {"install", "address"}
  <2>1. \E step \in {"address", "launch", "start"} : v = [w EXCEPT !.step = step]
    BY <1>1 DEF Succeeded
  <2> QED BY <2>1, <1>1 DEF Works, Steps, WorkSound, AdbSteps, Idle
<1>2. CASE w.step = "info" /\ w.device # "none"
  <2>1. v = [w EXCEPT !.step = "logcat"]
    BY <1>2 DEF Succeeded
  <2> QED BY <2>1, <1>2 DEF Works, Steps, WorkSound, AdbSteps, Idle
<1>3. CASE w.step \notin {"install", "address"} /\ ~(w.step = "info" /\ w.device # "none")
  <2>1. v \in NextTargets(w)
    BY <1>3 DEF Succeeded
  <2> QED BY <2>1, NextTargetsSound
<1> QED BY <1>1, <1>2, <1>3

\* A thread that goes on keeps its button busy.
LEMMA ContinuesStep ==
  ASSUME CompanionInv, NEW job \in Jobs, work[job] # Idle, NEW ws, Continues(job, ws),
         \A v \in ws : v \in Works /\ v # Idle /\ WorkSound(v)
  PROVE  CompanionInv'
PROOF
<1>1. PICK w \in ws : work' = [work EXCEPT ![job] = w] /\ Issue(w)
  BY DEF Continues
<1>2. UNCHANGED <<plugged, listed, scan, busy, app, steamVr, driverView, outside>>
  BY DEF Continues
<1>3. work' \in [Jobs -> Works]
  BY <1>1 DEF CompanionInv, CompanionTyped
<1>4. \A other \in Jobs : (busy'[other] <=> work'[other] # Idle) /\ WorkSound(work[other])'
  BY <1>1, <1>2 DEF WorkSound, CompanionInv, CompanionTyped
<1>5. issued' \subseteq Headsets /\ (app.demo => issued' = {})
  BY <1>1, IssuedToHeadsets
<1> QED BY <1>2, <1>3, <1>4, <1>5 DEF CompanionInv, CompanionTyped

LEMMA JobStep ==
  ASSUME CompanionInv, NEW job \in Jobs, Answers(job) \/ Killed(job)
  PROVE  CompanionInv'
PROOF
<1>1. /\ work[job] \in Works /\ WorkSound(work[job]) /\ work[job].step \in AdbSteps
  BY DEF CompanionInv, CompanionTyped, Answers, Killed
<1>2. work[job] # Idle /\ work[job].step # "none"
  BY <1>1 DEF Idle, AdbSteps
<1>3. Continues(job, Succeeded(work[job])) \/ Continues(job, NextTargets(work[job]))
  BY DEF Answers, Killed
<1> QED BY <1>1, <1>2, <1>3, SucceededSound, NextTargetsSound, ContinuesStep

LEMMA InfoStep == ASSUME CompanionInv, InfoAnswers \/ DialogCloses PROVE CompanionInv'
PROOF
<1>1. CASE InfoAnswers
  <2>1. /\ "export" \in Jobs /\ work["export"] \in Works /\ WorkSound(work["export"])
        /\ work["export"].step = "info"
    BY <1>1 DEF CompanionInv, CompanionTyped, InfoAnswers, Jobs
  <2>2. work["export"] # Idle
    BY <2>1 DEF Idle
  <2>3. Continues("export", Succeeded(work["export"]) \cup {Finished})
    BY <1>1 DEF InfoAnswers
  <2>4. \A v \in Succeeded(work["export"]) \cup {Finished} : v \in Works /\ v # Idle /\ WorkSound(v)
    BY <2>1, SucceededSound, FinishedSound
  <2> QED BY <2>1, <2>2, <2>3, <2>4, ContinuesStep
<1>2. CASE DialogCloses
  <2>1. "apk" \in Jobs /\ work["apk"] # Idle /\ Continues("apk", {Finished})
    BY <1>2 DEF DialogCloses, Jobs, Idle
  <2> QED BY <2>1, FinishedSound, ContinuesStep
<1> QED BY <1>1, <1>2

LEMMA DriverStep == ASSUME CompanionInv, InstallDriver \/ UninstallDriver \/ OthersRegister PROVE CompanionInv'
PROOF
<1>1. /\ app' = [app EXCEPT !.clicks = @ + 1]
      /\ UNCHANGED <<plugged, listed, scan, busy, work, issued>>
  BY DEF InstallDriver, UninstallDriver, OthersRegister
<1>2. app'.demo = app.demo /\ app' \in Apps
  BY <1>1 DEF CompanionInv, CompanionTyped, Apps
<1>3. ~outside' => driverView' = Looks(steamVr)'
  <2>1. CASE InstallDriver
    BY <2>1 DEF InstallDriver, CompanionInv, CompanionTyped, Looks
  <2>2. CASE UninstallDriver
    <3>1. ASSUME ~outside, steamVr' = [steamVr EXCEPT !.copied = FALSE],
                 driverView' = [driverView EXCEPT !.installed = FALSE]
          PROVE  driverView' = Looks(steamVr)'
      <4>1. driverView = [registered |-> FALSE, installed |-> TRUE] /\ steamVr.registered = FALSE
        BY <2>2, <3>1 DEF UninstallDriver, CompanionInv, CompanionTyped, Looks
      <4>2. steamVr'.registered = FALSE /\ steamVr'.copied = FALSE
        BY <3>1, <4>1 DEF CompanionInv, CompanionTyped
      <4> QED BY <3>1, <4>1, <4>2 DEF Looks
    <3> QED BY <2>2, <3>1 DEF UninstallDriver, CompanionInv
  <2>3. CASE OthersRegister
    BY <2>3 DEF OthersRegister
  <2> QED BY <2>1, <2>2, <2>3
<1>4. steamVr' \in [registered : BOOLEAN, copied : BOOLEAN]
  BY DEF InstallDriver, UninstallDriver, OthersRegister, CompanionInv, CompanionTyped
<1> QED BY <1>1, <1>2, <1>3, <1>4, ThreadsLeft DEF CompanionInv, CompanionTyped

LEMMA RestartStep == ASSUME CompanionInv, AppRestarts PROVE CompanionInv'
PROOF
<1>1. CompanionTyped' /\ app'.demo = app.demo
  <2>1. PICK adb \in BOOLEAN : app' = [app EXCEPT !.adb = adb, !.pin = FALSE, !.runs = @ + 1]
    BY DEF AppRestarts
  <2>2. /\ app'.demo = app.demo
        /\ app' \in Apps
    BY <2>1, AppChanges DEF CompanionInv, CompanionTyped
  <2>3. work' \in [Jobs -> Works] /\ busy' \in [Jobs -> BOOLEAN]
    BY DEF AppRestarts, Idle, Works, Steps
  <2>4. scan' \in [run : {"none", "running", "done"}, found : SUBSET (Headsets \cup Phones), due : BOOLEAN]
    BY DEF AppRestarts, NoScan
  <2> QED BY <2>2, <2>3, <2>4 DEF AppRestarts, CompanionInv, CompanionTyped
<1>2. \A job \in Jobs : (busy'[job] <=> work'[job] # Idle) /\ WorkSound(work[job])'
  BY DEF AppRestarts, WorkSound, Idle, AdbSteps
<1> QED BY <1>1, <1>2 DEF AppRestarts, CompanionInv, NoScan, Looks

LEMMA OutsideStep ==
  ASSUME CompanionInv, Plug \/ ScanEnds \/ ScanDue \/ PinComesOrGoes
  PROVE  CompanionInv'
PROOF
<1>1. UNCHANGED <<listed, busy, work, steamVr, driverView, issued, outside>> /\ app'.demo = app.demo
  BY DEF Plug, ScanEnds, ScanDue, PinComesOrGoes, CompanionInv, CompanionTyped, Apps
<1>2. CompanionTyped'
  <2>1. plugged' \in [devices : SUBSET (Headsets \cup Phones), changes : Int]
    <3>1. CASE Plug
      <4>1. PICK d \in Headsets \cup Phones :
              plugged' = [devices |-> IF d \in plugged.devices THEN plugged.devices \ {d} ELSE plugged.devices \cup {d},
                          changes |-> plugged.changes + 1]
        BY <3>1 DEF Plug
      <4> QED BY <4>1 DEF CompanionInv, CompanionTyped
    <3>2. CASE ~Plug
      BY <3>2 DEF ScanEnds, ScanDue, PinComesOrGoes, CompanionInv, CompanionTyped
    <3> QED BY <3>1, <3>2
  <2>2. scan' \in [run : {"none", "running", "done"}, found : SUBSET (Headsets \cup Phones), due : BOOLEAN]
    BY DEF Plug, ScanEnds, ScanDue, PinComesOrGoes, CompanionInv, CompanionTyped
  <2>3. app' \in Apps
    <3>1. app \in Apps /\ (~app.pin) \in BOOLEAN
      BY DEF CompanionInv, CompanionTyped
    <3> QED BY <3>1, AppChanges DEF Plug, ScanEnds, ScanDue, PinComesOrGoes
  <2> QED BY <1>1, <2>1, <2>2, <2>3 DEF CompanionInv, CompanionTyped
<1>3. app.demo => scan'.run = "none" /\ scan'.found = {}
  BY DEF Plug, ScanEnds, ScanDue, PinComesOrGoes, CompanionInv, CompanionTyped
<1> QED BY <1>1, <1>2, <1>3, ThreadsLeft DEF CompanionInv

LEMMA CompanionInvStep == CompanionInv /\ [CompanionNext]_companionVars => CompanionInv'
PROOF
<1> SUFFICES ASSUME CompanionInv, [CompanionNext]_companionVars PROVE CompanionInv'
  OBVIOUS
<1>1. CASE UNCHANGED companionVars
  BY <1>1 DEF companionVars, CompanionInv, CompanionTyped, WorkSound, Looks
<1> QED
  BY <1>1, UpdateStep, PollDialogStep, RefreshStep, ClickStep, JobStep, InfoStep, DriverStep, RestartStep, OutsideStep
     DEF CompanionNext

\* Commands go to VIVE headsets only, and to none in demo mode; a button says what its thread does; and
\* the driver is shown as it is, unless somebody else changed it: for any devices, and any number of
\* clicks, plugs and restarts of the app (deploy_targets(), check_deploy_result(), uninstall()).
THEOREM ButtonsActAsShown == CompanionSpec => []ActsAsShown
PROOF
<1>1. CompanionInv => ActsAsShown
  BY DEF CompanionInv, ActsAsShown
<1> QED BY CompanionInvInit, CompanionInvStep, <1>1, PTL DEF CompanionSpec

-----------------------------------------------------------------------------
(* The simulation.                                                         *)

SimRecords ==
  [engine : {"none", "starting", "waiting", "streaming", "down"},
   client : {"none", "resolving", "connecting", "streaming", "pausing", "ended"},
   tried : 0 .. Real, cancelled : BOOLEAN, error : BOOLEAN,
   stopper : {"none", "engine", "client", "file", "done"}, leaked : BOOLEAN]

Files == [by : 0 .. Real, pin : BOOLEAN, fresh : BOOLEAN, kept : BOOLEAN]

SimulationTyped ==
  /\ window \in [life : {"open", "held", "exiting", "dropping", "closed"},
                 handle : 0 .. MaxSims, stopping : 0 .. MaxSims, held : 0 .. MaxSims,
                 error : BOOLEAN, alive : BOOLEAN]
  /\ sims \in [Sims -> SimRecords]
  /\ file \in Files

\* The window holds a simulation in one way at a time, and waits for one in place only where it can
\* do nothing else.
WindowInv ==
  /\ window.handle # None => window.stopping = None /\ window.held = None
  /\ window.stopping # None => window.held = None
  /\ window.held # None => window.life \in {"held", "dropping"}
  /\ window.life \in {"held", "dropping", "closed"} => window.handle = None /\ window.stopping = None

\* How far the stop of a simulation has come: its engine is joined, then its client.
StopInv(sim) ==
  /\ sim.stopper \in {"client", "file", "done"} => sim.engine = "down"
  /\ sim.stopper \in {"file", "done"} => sim.client = "ended"

\* Nothing of a simulation runs, or can write the file again; the file it wrote is gone, or was kept.
Quiet(i) ==
  /\ sims[i].engine \in {"none", "down"}
  /\ sims[i].client \in {"none", "ended"}
  /\ file.by # i \/ file.kept

\* A stop that is done left nothing; neither is there anything of what the window does not hold.
SimulationInv ==
  /\ SimulationTyped
  /\ WindowInv
  /\ \A i \in Sims :
       /\ StopInv(sims[i])
       /\ sims[i].stopper = "done" => Quiet(i)
       /\ i \notin Held /\ ~sims[i].leaked => Quiet(i)

LEMMA SimNumbers == Sims \subseteq Int /\ None \notin Sims /\ Real \notin Sims /\ Real # None /\ Sims \subseteq 0 .. MaxSims
                    /\ Sims \subseteq 0 .. Real /\ Real \in 0 .. Real /\ None \in 0 .. Real /\ None \in 0 .. MaxSims
PROOF BY SimulationAssumption DEF Sims, None, Real

\* What is written to the file is a file's content.
LEMMA FilesTyped ==
  /\ NoFile \in Files
  /\ \A i \in Sims : \A sim : Publish(i, sim) => file' \in Files
  /\ \A pin \in BOOLEAN : [by |-> Real, pin |-> pin, fresh |-> TRUE, kept |-> FALSE] \in Files
PROOF
<1>1. NoFile \in Files
  BY SimNumbers DEF NoFile, Files
<1>2. ASSUME NEW i \in Sims \cup {Real}, NEW pin \in BOOLEAN
      PROVE  [by |-> i, pin |-> pin, fresh |-> TRUE, kept |-> FALSE] \in Files
  BY SimNumbers DEF Files
<1>3. ASSUME NEW i \in Sims, NEW sim, Publish(i, sim)
      PROVE  file' \in Files
  <2> DEFINE pin == sim.engine = "waiting"
  <2>1. file' = [by |-> i, pin |-> pin, fresh |-> TRUE, kept |-> FALSE] /\ pin \in BOOLEAN
    BY <1>3 DEF Publish
  <2> HIDE DEF pin
  <2> QED BY <2>1, <1>2
<1> QED BY <1>1, <1>2, <1>3

LEMMA SimulationInvInit == SimulationInit => SimulationInv
PROOF
<1> SUFFICES ASSUME SimulationInit PROVE SimulationInv
  OBVIOUS
<1>1. file \in Files /\ file.by \in {None, Real}
  <2>1. CASE file = NoFile
    BY <2>1, SimNumbers DEF NoFile, Files
  <2>2. CASE file \in [by : {Real}, pin : BOOLEAN, fresh : BOOLEAN, kept : {FALSE}]
    BY <2>2, SimNumbers DEF Files
  <2> QED BY <2>1, <2>2 DEF SimulationInit
<1>2. window \in [life : {"open", "held", "exiting", "dropping", "closed"},
                  handle : 0 .. MaxSims, stopping : 0 .. MaxSims, held : 0 .. MaxSims,
                  error : BOOLEAN, alive : BOOLEAN]
  BY <1>1, SimNumbers DEF SimulationInit, Files
<1>3. sims \in [Sims -> SimRecords]
  BY SimNumbers DEF SimulationInit, Unused, SimRecords
<1>4. ASSUME NEW i \in Sims PROVE StopInv(sims[i]) /\ Quiet(i)
  BY <1>1, SimNumbers DEF SimulationInit, Unused, StopInv, Quiet
<1>5. WindowInv
  BY DEF SimulationInit, WindowInv
<1> QED BY <1>1, <1>2, <1>3, <1>4, <1>5 DEF SimulationInv, SimulationTyped

\* What an action may do to one simulation and the file while the window looks on: nothing of one that
\* was quiet starts again, and only one that writes leaves its name in the file.
LEMMA OneSimChanges ==
  ASSUME SimulationInv, NEW i \in Sims, NEW sim \in SimRecords, Changes(i, sim), UNCHANGED window,
         sim.leaked = sims[i].leaked,
         StopInv(sim),
         file' = file \/ file' = NoFile \/ (Publish(i, sim) /\ sim.engine \notin {"none", "down"}),
         sim.stopper = "done" => sims[i].stopper = "done",
         sims[i].engine \in {"none", "down"} => sim.engine \in {"none", "down"},
         sims[i].client \in {"none", "ended"} => sim.client \in {"none", "ended"}
  PROVE  SimulationInv'
PROOF
<1>1. sims' \in [Sims -> SimRecords] /\ sims'[i] = sim /\ \A j \in Sims \ {i} : sims'[j] = sims[j]
  BY DEF Changes, SimulationInv, SimulationTyped
<1>2. file' \in Files
  BY FilesTyped DEF SimulationInv, SimulationTyped
<1>3. \/ file' = file \/ file'.by = None
      \/ file'.by = i /\ sim.engine \notin {"none", "down"}
  BY DEF Publish, NoFile
<1>4. Held' = Held /\ WindowInv' /\ window' = window
  BY DEF Held, WindowInv, SimulationInv
<1>5. ASSUME NEW j \in Sims, Quiet(j) PROVE Quiet(j)'
  <2>1. CASE j = i
    BY <2>1, <1>1, <1>3, <1>5, SimNumbers DEF Quiet
  <2>2. CASE j # i
    BY <2>2, <1>1, <1>3, <1>5, SimNumbers DEF Quiet
  <2> QED BY <2>1, <2>2
<1>6. sim.stopper = "done" => Quiet(i)'
  BY <1>5 DEF SimulationInv
<1>7. ASSUME NEW j \in Sims
      PROVE  /\ StopInv(sims[j])'
             /\ sims'[j].stopper = "done" => Quiet(j)'
             /\ j \notin Held' /\ ~sims'[j].leaked => Quiet(j)'
  <2>1. CASE j = i
    BY <2>1, <1>1, <1>4, <1>5, <1>6 DEF SimulationInv, StopInv
  <2>2. CASE j # i
    BY <2>2, <1>1, <1>4, <1>5 DEF SimulationInv, StopInv
  <2> QED BY <2>1, <2>2
<1> QED BY <1>1, <1>2, <1>4, <1>7 DEF SimulationInv, SimulationTyped

\* The window gives up a simulation it holds, or one that is quiet, or goes on with the others.
LEMMA WindowChanges ==
  ASSUME SimulationInv, UNCHANGED <<sims, file>>, WindowInv',
         window' \in [life : {"open", "held", "exiting", "dropping", "closed"},
                      handle : 0 .. MaxSims, stopping : 0 .. MaxSims, held : 0 .. MaxSims,
                      error : BOOLEAN, alive : BOOLEAN],
         \A i \in Sims : i \in Held /\ i \notin Held' => sims[i].stopper = "done"
  PROVE  SimulationInv'
PROOF
<1>1. \A i \in Sims : Quiet(i) => Quiet(i)'
  BY DEF Quiet
<1>2. \A i \in Sims : StopInv(sims[i])'
  BY DEF SimulationInv, StopInv
<1> QED BY <1>1, <1>2 DEF SimulationInv, SimulationTyped

\* What sim::start() leaves: both threads, none, or the engine's alone, which nobody holds.
LEMMA OutcomesSound ==
  ASSUME NEW i \in Sims, NEW s \in SimOutcomes(i)
  PROVE  /\ s.sim \in SimRecords /\ StopInv(s.sim) /\ s.sim.stopper = "none"
         /\ \/ s.window = [window EXCEPT !.handle = i, !.error = FALSE]
            \/ s.window = [window EXCEPT !.error = TRUE] /\ (s.sim.leaked \/ (s.sim.engine = "down" /\ s.sim.client = "none"))
PROOF
<1> DEFINE both == [Unused EXCEPT !.engine = "starting", !.client = "resolving"]
           none == [Unused EXCEPT !.engine = "down"]
           alone == [Unused EXCEPT !.engine = "starting", !.leaked = TRUE]
<1>0. Unused \in SimRecords /\ Unused.stopper = "none" /\ Unused.client = "none"
  BY SimNumbers DEF Unused, SimRecords
<1>1. both \in SimRecords /\ both.stopper = "none"
  BY <1>0 DEF SimRecords
<1>2. none \in SimRecords /\ none.stopper = "none" /\ none.engine = "down" /\ none.client = "none"
  BY <1>0 DEF SimRecords
<1>3. alone \in SimRecords /\ alone.stopper = "none" /\ alone.leaked
  BY <1>0 DEF SimRecords
<1>4. \/ s.window = [window EXCEPT !.handle = i, !.error = FALSE] /\ s.sim = both
      \/ s.window = [window EXCEPT !.error = TRUE] /\ s.sim = none
      \/ s.window = [window EXCEPT !.error = TRUE] /\ s.sim = alone
  <2> HIDE DEF both, none, alone
  <2> DEFINE held == [window EXCEPT !.handle = i, !.error = FALSE]
             failed == [window EXCEPT !.error = TRUE]
  <2>1. s \in {[window |-> held, sim |-> both], [window |-> failed, sim |-> none], [window |-> failed, sim |-> alone]}
    BY DEF SimOutcomes, both, none, alone
  <2> HIDE DEF held, failed
  <2>2. \/ s.window = held /\ s.sim = both
        \/ s.window = failed /\ s.sim = none
        \/ s.window = failed /\ s.sim = alone
    BY <2>1
  <2> QED BY <2>2 DEF held, failed
<1> HIDE DEF both, none, alone
<1>5. none.engine = "down" => StopInv(none)
  BY <1>2 DEF StopInv
<1> QED BY <1>1, <1>2, <1>3, <1>4 DEF StopInv

\* A click on Start: the simulation that is new is held, or never came up, or has leaked.
LEMMA StartSimStep == ASSUME SimulationInv, StartSim PROVE SimulationInv'
PROOF
<1>1. /\ window.life = "open" /\ window.handle = None /\ window.stopping = None /\ window.held = None
      /\ UNCHANGED real /\ Held = {}
  BY DEF StartSim, MayStart, SimulationInv, WindowInv, Held
<1>2. CASE window.alive
  <2>1. window' = [window EXCEPT !.error = TRUE] /\ UNCHANGED <<sims, file>>
    BY <1>2 DEF StartSim
  <2>2. WindowInv' /\ Held' = {}
    BY <2>1, <1>1 DEF SimulationInv, SimulationTyped, WindowInv, Held
  <2> QED BY <2>1, <2>2, <1>1, WindowChanges DEF SimulationInv, SimulationTyped
<1>3. CASE ~window.alive
  <2>1. PICK i \in Sims : sims[i] = Unused /\ \E s \in SimOutcomes(i) : window' = s.window /\ Changes(i, s.sim) /\ file' \in {NoFile, file}
    BY <1>3 DEF StartSim
  <2>2. PICK s \in SimOutcomes(i) : window' = s.window /\ Changes(i, s.sim)
    BY <2>1
  <2>3. /\ s.sim \in SimRecords /\ StopInv(s.sim) /\ s.sim.stopper = "none"
    BY OutcomesSound
  <2>4. \/ s.window = [window EXCEPT !.handle = i, !.error = FALSE]
        \/ s.window = [window EXCEPT !.error = TRUE] /\ (s.sim.leaked \/ (s.sim.engine = "down" /\ s.sim.client = "none"))
    BY OutcomesSound
  <2>5. sims' \in [Sims -> SimRecords] /\ sims'[i] = s.sim /\ \A j \in Sims \ {i} : sims'[j] = sims[j]
    BY <2>2, <2>3 DEF Changes, SimulationInv, SimulationTyped
  <2>6. window' \in [life : {"open", "held", "exiting", "dropping", "closed"},
                     handle : 0 .. MaxSims, stopping : 0 .. MaxSims, held : 0 .. MaxSims,
                     error : BOOLEAN, alive : BOOLEAN]
    BY <2>2, <2>4, SimNumbers DEF SimulationInv, SimulationTyped
  <2>7. window'.life = "open" /\ window'.stopping = None /\ window'.held = None
        /\ (window'.handle = i \/ (window'.handle = None /\ (s.sim.leaked \/ (s.sim.engine = "down" /\ s.sim.client = "none"))))
    BY <2>2, <2>4, <1>1 DEF SimulationInv, SimulationTyped
  <2>8. WindowInv' /\ (window'.handle = i => i \in Held')
    BY <2>7, SimNumbers DEF WindowInv, Held
  <2>9. /\ sims[i] = Unused
        /\ \A j \in Sims : ~sims[j].leaked \/ sims[j].stopper = "done" => Quiet(j) /\ (file'.by # j \/ file'.kept)
    <3>1. sims[i] = Unused
      BY <2>1
    <3>2. \A j \in Sims : ~sims[j].leaked \/ sims[j].stopper = "done" => Quiet(j)
      BY <1>1 DEF SimulationInv
    <3> QED BY <2>1, <3>1, <3>2, SimNumbers DEF NoFile, Quiet
  <2>10. ASSUME NEW j \in Sims
         PROVE  /\ StopInv(sims[j])'
                /\ sims'[j].stopper = "done" => Quiet(j)'
                /\ j \notin Held' /\ ~sims'[j].leaked => Quiet(j)'
    <3>1. CASE j = i
      <4>1. ~sims[i].leaked /\ (file'.by # i \/ file'.kept)
        BY <2>9 DEF Unused
      <4> QED BY <3>1, <4>1, <2>3, <2>5, <2>7, <2>8 DEF StopInv, Quiet
    <3>2. CASE j # i
      <4>1. sims'[j] = sims[j] /\ j \notin Held
        BY <3>2, <2>5, <1>1
      <4> QED BY <4>1, <2>9 DEF SimulationInv, StopInv, Quiet
    <3> QED BY <3>1, <3>2
  <2>11. file' \in Files
    BY <2>1, FilesTyped DEF SimulationInv, SimulationTyped
  <2> QED BY <2>5, <2>6, <2>8, <2>10, <2>11 DEF SimulationInv, SimulationTyped
<1> QED BY <1>2, <1>3

\* A simulation whose stop begins has all it had.
LEMMA StoppingBegins ==
  ASSUME SimulationInv, NEW i \in Sims
  PROVE  Stopping(sims[i]) \in SimRecords /\ StopInv(Stopping(sims[i])) /\ Stopping(sims[i]).stopper = "engine"
         /\ Stopping(sims[i]).leaked = sims[i].leaked /\ Stopping(sims[i]).engine = sims[i].engine
         /\ Stopping(sims[i]).client = sims[i].client
PROOF
<1>1. sims[i] \in SimRecords
  BY DEF SimulationInv, SimulationTyped
<1> QED BY <1>1 DEF Stopping, SimRecords, StopInv

\* The window lets go of its handle for a stop, which begins: of the same simulation, held in another way.
LEMMA StopBegins ==
  ASSUME SimulationInv, window.handle # None, UNCHANGED file, WindowInv',
         window' \in [life : {"open", "held", "exiting", "dropping", "closed"},
                      handle : 0 .. MaxSims, stopping : 0 .. MaxSims, held : 0 .. MaxSims,
                      error : BOOLEAN, alive : BOOLEAN],
         window.handle \in Held',
         Changes(window.handle, Stopping(sims[window.handle]))
  PROVE  SimulationInv'
PROOF
<1> DEFINE i == window.handle
<1>1. i \in Sims /\ Held = {i}
  BY SimulationAssumption DEF SimulationInv, SimulationTyped, WindowInv, Held, Sims, None
<1>2. sims' \in [Sims -> SimRecords] /\ sims'[i] = Stopping(sims[i]) /\ \A j \in Sims \ {i} : sims'[j] = sims[j]
  BY <1>1, StoppingBegins DEF Changes, SimulationInv, SimulationTyped
<1>3. ASSUME NEW j \in Sims
      PROVE  /\ StopInv(sims[j])'
             /\ sims'[j].stopper = "done" => Quiet(j)'
             /\ j \notin Held' /\ ~sims'[j].leaked => Quiet(j)'
  <2>1. CASE j = i
    BY <2>1, <1>1, <1>2, StoppingBegins DEF StopInv
  <2>2. CASE j # i
    <3>1. sims'[j] = sims[j] /\ j \notin Held
      BY <2>2, <1>1, <1>2
    <3> QED BY <3>1 DEF SimulationInv, StopInv, Quiet
  <2> QED BY <2>1, <2>2
<1> QED BY <1>2, <1>3 DEF SimulationInv, SimulationTyped

LEMMA StopSimStep == ASSUME SimulationInv, StopSim PROVE SimulationInv'
PROOF
<1>1. /\ window.life = "open" /\ window.handle # None /\ window.stopping = None /\ window.held = None
      /\ window.handle \in 0 .. MaxSims
      /\ UNCHANGED file /\ Changes(window.handle, Stopping(sims[window.handle]))
  BY DEF StopSim, SimulationInv, SimulationTyped, WindowInv
<1>2. \/ window' = [window EXCEPT !.handle = None, !.stopping = window.handle]
      \/ window' = [window EXCEPT !.handle = None, !.held = window.handle, !.life = "held"]
  BY DEF StopSim
<1>3. window' \in [life : {"open", "held", "exiting", "dropping", "closed"},
                   handle : 0 .. MaxSims, stopping : 0 .. MaxSims, held : 0 .. MaxSims,
                   error : BOOLEAN, alive : BOOLEAN]
  BY <1>1, <1>2, SimNumbers DEF SimulationInv, SimulationTyped
<1>4. WindowInv' /\ window.handle \in Held'
  BY <1>1, <1>2 DEF SimulationInv, SimulationTyped, WindowInv, Held
<1> QED BY <1>1, <1>3, <1>4, StopBegins

LEMMA WindowStep ==
  ASSUME SimulationInv, HeldStopEnds \/ UpdateSim \/ CloseWindow
  PROVE  SimulationInv'
PROOF
<1>0. UNCHANGED <<sims, file>>
  BY DEF HeldStopEnds, UpdateSim, CloseWindow
<1>1. CASE HeldStopEnds
  <2>1. window' = [window EXCEPT !.life = "open", !.held = None] /\ window.life = "held" /\ sims[window.held].stopper = "done"
    BY <1>1 DEF HeldStopEnds
  <2>2. window' \in [life : {"open", "held", "exiting", "dropping", "closed"},
                     handle : 0 .. MaxSims, stopping : 0 .. MaxSims, held : 0 .. MaxSims,
                     error : BOOLEAN, alive : BOOLEAN]
    BY <2>1, SimNumbers DEF SimulationInv, SimulationTyped
  <2>3. WindowInv' /\ Held \subseteq {window.held}
    BY <2>1 DEF SimulationInv, SimulationTyped, WindowInv, Held
  <2> QED BY <1>0, <2>1, <2>2, <2>3, WindowChanges
<1>2. CASE UpdateSim
  <2> DEFINE seen == [window EXCEPT !.alive = file.fresh,
                                    !.error = @ \/ (window.handle # None /\ sims[window.handle].error)]
  <2>1. window' = ReapSimStop(seen)
    BY <1>2 DEF UpdateSim
  <2>2. /\ seen \in [life : {"open", "held", "exiting", "dropping", "closed"},
                     handle : 0 .. MaxSims, stopping : 0 .. MaxSims, held : 0 .. MaxSims,
                     error : BOOLEAN, alive : BOOLEAN]
        /\ seen.life = window.life /\ seen.handle = window.handle /\ seen.stopping = window.stopping /\ seen.held = window.held
    <3> DEFINE error == window.error \/ (window.handle # None /\ sims[window.handle].error)
    <3>1. error \in BOOLEAN /\ file.fresh \in BOOLEAN /\ seen = [window EXCEPT !.alive = file.fresh, !.error = error]
      BY DEF SimulationInv, SimulationTyped, Files
    <3> HIDE DEF error, seen
    <3> QED BY <3>1 DEF SimulationInv, SimulationTyped
  <2> HIDE DEF seen
  <2>3. \/ window' = seen
        \/ window' = [seen EXCEPT !.stopping = None] /\ sims[window.stopping].stopper = "done"
    BY <2>1, <2>2 DEF ReapSimStop
  <2>4. window' \in [life : {"open", "held", "exiting", "dropping", "closed"},
                     handle : 0 .. MaxSims, stopping : 0 .. MaxSims, held : 0 .. MaxSims,
                     error : BOOLEAN, alive : BOOLEAN]
    BY <2>2, <2>3, SimNumbers
  <2>5. WindowInv' /\ \A i \in Held : i \in Held' \/ sims[i].stopper = "done"
    BY <2>2, <2>3 DEF SimulationInv, WindowInv, Held
  <2> QED BY <1>0, <2>4, <2>5, WindowChanges
<1>3. CASE CloseWindow
  <2>1. window' = [window EXCEPT !.life = "exiting"] /\ window.life = "open"
    BY <1>3 DEF CloseWindow
  <2>2. window' \in [life : {"open", "held", "exiting", "dropping", "closed"},
                     handle : 0 .. MaxSims, stopping : 0 .. MaxSims, held : 0 .. MaxSims,
                     error : BOOLEAN, alive : BOOLEAN]
    BY <2>1 DEF SimulationInv, SimulationTyped
  <2>3. WindowInv' /\ Held' = Held
    BY <2>1 DEF SimulationInv, SimulationTyped, WindowInv, Held
  <2> QED BY <1>0, <2>2, <2>3, WindowChanges
<1> QED BY <1>1, <1>2, <1>3

\* Dropping the app drops its handle; what the window waited for before is over.
LEMMA DropAppStep == ASSUME SimulationInv, DropApp PROVE SimulationInv'
PROOF
<1>1. /\ window.life = "exiting" /\ UNCHANGED file
      /\ window.stopping # None => sims[window.stopping].stopper = "done"
      /\ window' = [window EXCEPT !.life = "dropping", !.stopping = None, !.handle = None, !.held = window.handle]
      /\ window.held = None
  BY DEF DropApp, SimulationInv, WindowInv
<1>2. window' \in [life : {"open", "held", "exiting", "dropping", "closed"},
                   handle : 0 .. MaxSims, stopping : 0 .. MaxSims, held : 0 .. MaxSims,
                   error : BOOLEAN, alive : BOOLEAN]
  BY <1>1, SimNumbers DEF SimulationInv, SimulationTyped
<1>3. WindowInv' /\ (window.handle # None => window.handle \in Held')
  BY <1>1 DEF SimulationInv, SimulationTyped, WindowInv, Held
<1>4. CASE window.handle = None
  <2>1. UNCHANGED sims /\ Held \subseteq {window.stopping} \ {None}
    BY <1>1, <1>4 DEF DropApp, Held
  <2> QED BY <2>1, <1>1, <1>2, <1>3, WindowChanges
<1>5. CASE window.handle # None
  <2>1. Changes(window.handle, Stopping(sims[window.handle]))
    BY <1>5 DEF DropApp
  <2> QED BY <2>1, <1>1, <1>2, <1>3, <1>5, StopBegins
<1> QED BY <1>4, <1>5

LEMMA ProcessEndsStep == ASSUME SimulationInv, ProcessEnds PROVE SimulationInv'
PROOF
<1>1. /\ window.life = "dropping" /\ UNCHANGED file
      /\ window.held # None => sims[window.held].stopper = "done"
      /\ window' = [window EXCEPT !.life = "closed", !.held = None]
      /\ sims' = [i \in Sims |-> IF sims[i].leaked THEN [sims[i] EXCEPT !.engine = "down"] ELSE sims[i]]
  BY DEF ProcessEnds
<1>2. window' \in [life : {"open", "held", "exiting", "dropping", "closed"},
                   handle : 0 .. MaxSims, stopping : 0 .. MaxSims, held : 0 .. MaxSims,
                   error : BOOLEAN, alive : BOOLEAN]
  BY <1>1, SimNumbers DEF SimulationInv, SimulationTyped
<1>3. WindowInv' /\ Held \subseteq {window.held} \ {None}
  BY <1>1 DEF SimulationInv, SimulationTyped, WindowInv, Held
<1>4. \A i \in Sims : sims[i] \in SimRecords
  BY DEF SimulationInv, SimulationTyped
<1>5. ASSUME NEW i \in Sims
      PROVE  /\ sims'[i] \in SimRecords
             /\ sims'[i].stopper = sims[i].stopper /\ sims'[i].leaked = sims[i].leaked /\ sims'[i].client = sims[i].client
             /\ sims'[i].engine = sims[i].engine \/ sims'[i].engine = "down"
  BY <1>1, <1>4 DEF SimRecords
<1>6. ASSUME NEW i \in Sims
      PROVE  /\ StopInv(sims[i])'
             /\ sims'[i].stopper = "done" => Quiet(i)'
             /\ i \notin Held' /\ ~sims'[i].leaked => Quiet(i)'
  <2>1. Quiet(i) => Quiet(i)'
    BY <1>1, <1>5 DEF Quiet
  <2>2. i \in Held => sims[i].stopper = "done"
    BY <1>1, <1>3
  <2> QED BY <1>5, <2>1, <2>2 DEF SimulationInv, StopInv
<1>7. sims' \in [Sims -> SimRecords]
  BY <1>1, <1>5
<1> QED BY <1>1, <1>2, <1>3, <1>6, <1>7 DEF SimulationInv, SimulationTyped

\* The end of a stop: what is left is a simulation that was.
LEMMA StopEnds ==
  ASSUME SimulationInv, NEW i \in Sims, sims[i].stopper = "file", Changes(i, Over), UNCHANGED window,
         file' = NoFile \/ file' = [file EXCEPT !.kept = @ \/ file.by = i]
  PROVE  SimulationInv'
PROOF
<1>1. Over \in SimRecords /\ StopInv(Over) /\ Over.engine = "down" /\ Over.client = "ended" /\ Over.stopper = "done"
  BY SimNumbers DEF Over, Unused, SimRecords, StopInv
<1>2. sims' \in [Sims -> SimRecords] /\ sims'[i] = Over /\ \A j \in Sims \ {i} : sims'[j] = sims[j]
  BY <1>1 DEF Changes, SimulationInv, SimulationTyped
<1>3. /\ file' \in Files /\ (file'.by # i \/ file'.kept)
      /\ \A j \in Sims : file.by # j \/ file.kept => file'.by # j \/ file'.kept
  <2>1. CASE file' = NoFile
    BY <2>1, FilesTyped, SimNumbers DEF NoFile
  <2>2. CASE file' = [file EXCEPT !.kept = @ \/ file.by = i]
    <3> DEFINE kept == file.kept \/ file.by = i
    <3>1. file' = [file EXCEPT !.kept = kept] /\ kept \in BOOLEAN
      BY <2>2
    <3>2. file \in Files
      BY DEF SimulationInv, SimulationTyped
    <3> HIDE DEF kept
    <3>3. file' \in Files /\ file'.by = file.by /\ file'.kept = kept
      BY <3>1, <3>2 DEF Files
    <3> QED BY <3>3 DEF kept
  <2> QED BY <2>1, <2>2
<1>4. Held' = Held /\ WindowInv'
  BY DEF Held, WindowInv, SimulationInv
<1>5. ASSUME NEW j \in Sims
      PROVE  /\ StopInv(sims[j])'
             /\ sims'[j].stopper = "done" => Quiet(j)'
             /\ j \notin Held' /\ ~sims'[j].leaked => Quiet(j)'
  <2>1. CASE j = i
    BY <2>1, <1>1, <1>2, <1>3 DEF StopInv, Quiet
  <2>2. CASE j # i
    BY <2>2, <1>2, <1>3, <1>4 DEF SimulationInv, StopInv, Quiet
  <2> QED BY <2>1, <2>2
<1> QED BY <1>2, <1>3, <1>4, <1>5 DEF SimulationInv, SimulationTyped

\* The steps of one simulation's threads: each lets them end or go on with what they were at.
LEMMA ShutdownStep == ASSUME SimulationInv, NEW i \in Sims, Shutdown(i) PROVE SimulationInv'
PROOF
<1>1. sims[i] \in SimRecords /\ StopInv(sims[i]) /\ UNCHANGED window
  BY DEF SimulationInv, SimulationTyped, Shutdown
<1>2. ASSUME sims[i].stopper = "engine", sims[i].engine = "down",
             Changes(i, [sims[i] EXCEPT !.stopper = "client"]), UNCHANGED file
      PROVE  SimulationInv'
  <2> DEFINE sim == [sims[i] EXCEPT !.stopper = "client"]
  <2>1. sim \in SimRecords /\ sim.leaked = sims[i].leaked /\ StopInv(sim) /\ sim.stopper = "client"
        /\ sim.engine = sims[i].engine /\ sim.client = sims[i].client
    BY <1>1, <1>2 DEF SimRecords, StopInv
  <2> HIDE DEF sim
  <2>2. Changes(i, sim)
    BY <1>2 DEF sim
  <2> QED BY <1>1, <1>2, <2>1, <2>2, OneSimChanges
<1>3. ASSUME sims[i].stopper = "client", sims[i].client = "ended",
             Changes(i, [sims[i] EXCEPT !.stopper = "file"]), UNCHANGED file
      PROVE  SimulationInv'
  <2> DEFINE sim == [sims[i] EXCEPT !.stopper = "file"]
  <2>1. sim \in SimRecords /\ sim.leaked = sims[i].leaked /\ StopInv(sim) /\ sim.stopper = "file"
        /\ sim.engine = sims[i].engine /\ sim.client = sims[i].client
    BY <1>1, <1>3 DEF SimRecords, StopInv
  <2> HIDE DEF sim
  <2>2. Changes(i, sim)
    BY <1>3 DEF sim
  <2> QED BY <1>1, <1>3, <2>1, <2>2, OneSimChanges
<1>4. ASSUME sims[i].stopper = "file", Changes(i, Over),
             file' = NoFile \/ file' = [file EXCEPT !.kept = @ \/ file.by = i]
      PROVE  SimulationInv'
  BY <1>1, <1>4, StopEnds
<1> QED BY <1>2, <1>3, <1>4 DEF Shutdown

LEMMA EngineStep ==
  ASSUME SimulationInv, NEW i \in Sims, EngineComesUp(i) \/ EnginePublishes(i) \/ EngineEnds(i)
  PROVE  SimulationInv'
PROOF
<1>1. sims[i] \in SimRecords /\ StopInv(sims[i]) /\ UNCHANGED window
      /\ (sims[i].stopper = "done" => sims[i].engine \in {"none", "down"})
  BY DEF SimulationInv, SimulationTyped, EngineComesUp, EnginePublishes, EngineEnds, Quiet
<1>2. ASSUME NEW engine \in {"waiting", "down"}, NEW error \in BOOLEAN, sims[i].engine \notin {"none", "down"},
             Changes(i, [sims[i] EXCEPT !.engine = engine, !.error = error]),
             \/ UNCHANGED file
             \/ engine = "waiting" /\ Publish(i, [sims[i] EXCEPT !.engine = engine, !.error = error])
      PROVE  SimulationInv'
  <2> DEFINE sim == [sims[i] EXCEPT !.engine = engine, !.error = error]
  <2>1. sim \in SimRecords /\ sim.leaked = sims[i].leaked /\ sim.engine = engine /\ sim.client = sims[i].client
        /\ sim.stopper = sims[i].stopper
    BY <1>1 DEF SimRecords
  <2>2. StopInv(sim) /\ sim.stopper # "done"
    BY <1>1, <1>2, <2>1 DEF StopInv
  <2>3. Changes(i, sim) /\ (UNCHANGED file \/ (engine = "waiting" /\ Publish(i, sim)))
    BY <1>2
  <2> HIDE DEF sim
  <2> QED BY <1>1, <1>2, <2>1, <2>2, <2>3, OneSimChanges
<1>3. CASE EngineComesUp(i)
  <2>1. sims[i].error \in BOOLEAN /\ sims[i].engine = "starting"
        /\ [sims[i] EXCEPT !.engine = "waiting"] = [sims[i] EXCEPT !.engine = "waiting", !.error = sims[i].error]
    BY <1>1, <1>3 DEF SimRecords, EngineComesUp
  <2> QED BY <1>2, <1>3, <2>1 DEF EngineComesUp
<1>4. CASE EngineEnds(i)
  <2>1. sims[i].error \in BOOLEAN /\ sims[i].engine \in {"waiting", "streaming"}
        /\ [sims[i] EXCEPT !.engine = "down"] = [sims[i] EXCEPT !.engine = "down", !.error = sims[i].error]
    BY <1>1, <1>4 DEF SimRecords, EngineEnds, Writes
  <2> QED BY <1>2, <1>4, <2>1 DEF EngineEnds
<1>5. CASE EnginePublishes(i)
  <2>1. Changes(i, sims[i])
    BY <1>5 DEF EnginePublishes, Changes, SimulationInv, SimulationTyped
  <2>2. Publish(i, sims[i]) /\ sims[i].engine \notin {"none", "down"}
    BY <1>5 DEF EnginePublishes, Writes
  <2> QED BY <1>1, <2>1, <2>2, OneSimChanges
<1> QED BY <1>3, <1>4, <1>5

\* A step of the client's thread, which runs: it ends or goes on, and takes the engine with it at most
\* between waiting and streaming.
LEMMA ClientChanges ==
  ASSUME SimulationInv, NEW i \in Sims, NEW sim \in SimRecords,
         NEW from \in {"resolving", "connecting", "streaming", "pausing"}, ClientStep(i, from, sim),
         sim.leaked = sims[i].leaked, sim.stopper = sims[i].stopper,
         sim.engine = sims[i].engine \/ (sims[i].engine \in {"waiting", "streaming"} /\ sim.engine \in {"waiting", "streaming"})
  PROVE  SimulationInv'
PROOF
<1>1. sims[i].client = from /\ Changes(i, sim) /\ UNCHANGED <<window, file>>
  BY DEF ClientStep
<1>2. StopInv(sims[i]) /\ sims[i].stopper \notin {"file", "done"}
  BY <1>1 DEF SimulationInv, StopInv
<1>3. StopInv(sim)
  BY <1>2 DEF StopInv
<1> QED BY <1>1, <1>2, <1>3, OneSimChanges

LEMMA ClientStepsSound ==
  ASSUME SimulationInv, NEW i \in Sims, Resolves(i) \/ Connects(i) \/ SessionBreaks(i) \/ ClientStops(i)
  PROVE  SimulationInv'
PROOF
<1> DEFINE Goes(sim, from) ==
      /\ sim \in SimRecords /\ sim.leaked = sims[i].leaked /\ sim.stopper = sims[i].stopper
      /\ sim.engine = sims[i].engine
         \/ (sims[i].engine \in {"waiting", "streaming"} /\ sim.engine \in {"waiting", "streaming"})
      /\ ClientStep(i, from, sim)
<1>1. sims[i] \in SimRecords /\ file.by \in 0 .. Real
  BY DEF SimulationInv, SimulationTyped, Files
<1>2. GivesUp(sims[i]) \in SimRecords /\ GivesUp(sims[i]).leaked = sims[i].leaked
      /\ GivesUp(sims[i]).stopper = sims[i].stopper /\ GivesUp(sims[i]).engine = sims[i].engine
  <2> DEFINE error == sims[i].error \/ ~sims[i].cancelled
  <2>1. error \in BOOLEAN /\ GivesUp(sims[i]) = [sims[i] EXCEPT !.client = "ended", !.error = error]
    BY DEF GivesUp
  <2> HIDE DEF error
  <2> QED BY <1>1, <2>1 DEF SimRecords
<1>3. CASE Resolves(i)
  <2> DEFINE sim == [sims[i] EXCEPT !.client = "connecting", !.tried = file.by]
  <2>1. sim \in SimRecords /\ sim.leaked = sims[i].leaked /\ sim.stopper = sims[i].stopper /\ sim.engine = sims[i].engine
    BY <1>1 DEF SimRecords
  <2>2. ClientStep(i, "resolving", sim) \/ ClientStep(i, "resolving", GivesUp(sims[i]))
    BY <1>3 DEF Resolves
  <2> HIDE DEF sim
  <2> QED BY <1>2, <2>1, <2>2, ClientChanges
<1>4. CASE Connects(i)
  <2> DEFINE sim == [sims[i] EXCEPT !.engine = "streaming", !.client = "streaming"]
  <2>1. sim \in SimRecords /\ sim.leaked = sims[i].leaked /\ sim.stopper = sims[i].stopper /\ sim.engine = "streaming"
    BY <1>1 DEF SimRecords
  <2>2. \/ sims[i].engine = "waiting" /\ ClientStep(i, "connecting", sim)
        \/ ClientStep(i, "connecting", GivesUp(sims[i]))
    BY <1>4 DEF Connects
  <2> HIDE DEF sim
  <2> QED BY <1>2, <2>1, <2>2, ClientChanges
<1>5. CASE SessionBreaks(i)
  <2> DEFINE sim == [sims[i] EXCEPT !.client = "pausing", !.engine = "waiting"]
  <2>1. sim \in SimRecords /\ sim.leaked = sims[i].leaked /\ sim.stopper = sims[i].stopper /\ sim.engine = "waiting"
    BY <1>1 DEF SimRecords
  <2>2. sims[i].engine = "streaming" /\ ClientStep(i, "streaming", sim)
    BY <1>5 DEF SessionBreaks
  <2> HIDE DEF sim
  <2> QED BY <2>1, <2>2, ClientChanges
<1>6. CASE ClientStops(i)
  <2> DEFINE engine == IF sims[i].engine = "streaming" THEN "waiting" ELSE sims[i].engine
             client == IF sims[i].cancelled THEN "ended" ELSE "resolving"
             ended == [sims[i] EXCEPT !.client = "ended", !.engine = engine]
             going == [sims[i] EXCEPT !.client = client]
  <2>1. ended \in SimRecords /\ ended.leaked = sims[i].leaked /\ ended.stopper = sims[i].stopper
        /\ (ended.engine = sims[i].engine \/ (sims[i].engine = "streaming" /\ ended.engine = "waiting"))
    BY <1>1 DEF SimRecords
  <2>2. going \in SimRecords /\ going.leaked = sims[i].leaked /\ going.stopper = sims[i].stopper
        /\ going.engine = sims[i].engine
    BY <1>1 DEF SimRecords
  <2>3. ClientStep(i, "streaming", ended) \/ ClientStep(i, "pausing", going)
    BY <1>6 DEF ClientStops
  <2> HIDE DEF ended, going
  <2> QED BY <2>1, <2>2, <2>3, ClientChanges
<1> QED BY <1>3, <1>4, <1>5, <1>6

\* A real engine, and time, touch the file alone, and put no simulation's name in it.
LEMMA FileStep ==
  ASSUME SimulationInv, RealStarts \/ RealPublishes \/ RealEnds \/ FileGrowsOld
  PROVE  SimulationInv'
PROOF
<1>1. UNCHANGED <<window, sims>>
  BY DEF RealStarts, RealPublishes, RealEnds, FileGrowsOld
<1>2. /\ file' \in Files
      /\ file'.by = Real \/ (file'.by = file.by /\ file'.kept = file.kept)
  <2>1. CASE RealPublishes
    <3>1. PICK pin \in BOOLEAN : file' = [by |-> Real, pin |-> pin, fresh |-> TRUE, kept |-> FALSE]
      BY <2>1 DEF RealPublishes
    <3>2. file' \in Files
      BY <3>1, FilesTyped
    <3> QED BY <3>1, <3>2
  <2>2. CASE FileGrowsOld
    BY <2>2 DEF FileGrowsOld, SimulationInv, SimulationTyped, Files
  <2>3. CASE UNCHANGED file
    BY <2>3 DEF SimulationInv, SimulationTyped
  <2> QED BY <2>1, <2>2, <2>3 DEF RealStarts, RealEnds
<1>3. Held' = Held /\ WindowInv'
  BY <1>1 DEF SimulationInv, WindowInv, Held
<1>4. ASSUME NEW i \in Sims, Quiet(i) PROVE Quiet(i)'
  BY <1>1, <1>2, <1>4, SimNumbers DEF Quiet
<1>5. \A i \in Sims : StopInv(sims[i])'
  BY <1>1 DEF SimulationInv, StopInv
<1> QED BY <1>1, <1>2, <1>3, <1>4, <1>5 DEF SimulationInv, SimulationTyped

LEMMA SimulationInvStep == SimulationInv /\ [SimulationNext]_simulationVars => SimulationInv'
PROOF
<1> SUFFICES ASSUME SimulationInv, [SimulationNext]_simulationVars PROVE SimulationInv'
  OBVIOUS
<1>1. CASE UNCHANGED simulationVars
  BY <1>1 DEF simulationVars, SimulationInv, SimulationTyped, WindowInv, StopInv, Quiet, Held
<1>2. CASE StartSim
  BY <1>2, StartSimStep
<1>3. CASE StopSim
  BY <1>3, StopSimStep
<1>4. CASE HeldStopEnds \/ UpdateSim \/ CloseWindow
  BY <1>4, WindowStep
<1>5. CASE DropApp
  BY <1>5, DropAppStep
<1>6. CASE ProcessEnds
  BY <1>6, ProcessEndsStep
<1>7. CASE RealStarts \/ RealPublishes \/ RealEnds \/ FileGrowsOld
  BY <1>7, FileStep
<1>8. ASSUME NEW i \in Sims, Shutdown(i) PROVE SimulationInv'
  BY <1>8, ShutdownStep
<1>9. ASSUME NEW i \in Sims, EngineComesUp(i) \/ EnginePublishes(i) \/ EngineEnds(i) PROVE SimulationInv'
  BY <1>9, EngineStep
<1>10. ASSUME NEW i \in Sims, Resolves(i) \/ Connects(i) \/ SessionBreaks(i) \/ ClientStops(i) PROVE SimulationInv'
  BY <1>10, ClientStepsSound
<1> QED BY <1>1, <1>2, <1>3, <1>4, <1>5, <1>6, <1>7, <1>8, <1>9, <1>10 DEF SimulationNext

\* However often simulations are started, stopped and lost, and a real engine comes and goes, the
\* window holds one at a time, and of the others no thread runs and no status.json is left but one that
\* could not be deleted.
THEOREM SimulationsStayApart == SimulationSpec => []SimulationsApart
PROOF
<1>1. SimulationInv => SimulationsApart
  <2> SUFFICES ASSUME SimulationInv PROVE SimulationsApart
    OBVIOUS
  <2>1. Cardinality(Held) <= 1
    <3>1. Held = {} \/ Held = {window.handle} \/ Held = {window.stopping} \/ Held = {window.held}
      BY DEF SimulationInv, SimulationTyped, WindowInv, Held
    <3>2. \A i : Cardinality({i}) = 1
      BY FS_Singleton
    <3>3. Cardinality({}) = 0
      BY FS_EmptySet
    <3> HIDE DEF Held
    <3>4. Cardinality(Held) = 0 \/ Cardinality(Held) = 1
      BY <3>1, <3>2, <3>3, Zenon
    <3> QED BY <3>4
  <2>2. \A i \in Sims \ Held : ~sims[i].leaked => Quiet(i)
    BY DEF SimulationInv
  <2> QED BY <2>1, <2>2 DEF SimulationsApart, Quiet
<1> QED BY <1>1, SimulationInvInit, SimulationInvStep, PTL DEF SimulationSpec

=============================================================================
