------------------------------ MODULE Companion ------------------------------
(* The companion app's work beside its window: the scan for adb devices, the *)
(* jobs of its buttons (install the client, send the PIN, export logs, pick  *)
(* an APK), each on a thread of its own, and SteamVR's registration of the   *)
(* driver, on the window's (main.rs, ui/deploy.rs, ui/home.rs,               *)
(* ui/settings.rs, adb.rs, process.rs, headset_link.rs, export.rs,           *)
(* file_dialog.rs, driver.rs).                                               *)
(*                                                                           *)
(* update() runs each second, clicks come in between. Headsets come and go;  *)
(* an adb call succeeds, fails, or waits for a device that does not answer   *)
(* until it is killed, when it may have had its effect: the history counts   *)
(* a command from its start. The installer, or SteamVR's own tools, may      *)
(* change the registration while the app runs.                               *)
EXTENDS Integers, FiniteSets

CONSTANTS
  Headsets,   \* is_focus_vision
  Phones,     \* what else adb lists
  MaxPlugs, MaxClicks, MaxAppRuns  \* bounds of the model

VARIABLES
  plugged,    \* the devices adb lists; how often that changed or a listing failed
  listed,     \* self.devices
  scan,       \* device_scan with its answer; due: 3 s passed since last_device_scan
  busy,       \* deploy_in_progress, pairing_in_progress, export_in_progress, apk_dialog
  work,       \* the thread of each of these, and its result while nobody took it
  app,        \* adb_path, demo_mode, whether a PIN is shown and an APK chosen; runs, clicks
  steamVr,    \* the driver's registration and its copy in SteamVR's folder
  driverView, \* driver_registered_at, driver_installed
  issued,     \* history: the devices that got adb commands
  outside     \* history: steamVr changed behind the app's back since it looked

companionVars == <<plugged, listed, scan, busy, work, app, steamVr, driverView, issued, outside>>

Jobs == {"deploy", "pairing", "export", "apk"}

Idle == [step |-> "none", targets |-> {}, device |-> "none", pin |-> FALSE, result |-> FALSE]

Finished == [Idle EXCEPT !.result = TRUE]

(* The steps of a job that are adb commands to its device.                   *)
AdbSteps == {"install", "address", "start", "launch", "logcat"}

Plug ==
  /\ plugged.changes < MaxPlugs
  /\ \E d \in Headsets \cup Phones :
       plugged' = [devices |-> IF d \in plugged.devices THEN plugged.devices \ {d} ELSE plugged.devices \cup {d},
                   changes |-> plugged.changes + 1]
  /\ UNCHANGED <<listed, scan, busy, work, app, steamVr, driverView, issued, outside>>

(* scan_devices(): pick up the answer of a scan that is done, then start the *)
(* next one if it is time and none runs.                                     *)
ScanDevices(due) ==
  LET picked == IF scan.run = "done" THEN scan.found ELSE listed
      start == scan.run # "running" /\ due
  IN /\ listed' = IF start /\ app.demo THEN {} ELSE picked
     /\ scan' = [run |-> IF start /\ app.adb /\ ~app.demo THEN "running" ELSE IF scan.run = "done" THEN "none" ELSE scan.run,
                 found |-> {}, due |-> due /\ ~start]

(* check_deploy_result(), check_pairing_result(), check_export_result().     *)
TakeResults(jobs) ==
  LET taken == {job \in jobs : work[job].result}
  IN /\ work' = [job \in Jobs |-> IF job \in taken THEN Idle ELSE work[job]]
     /\ busy' = [job \in Jobs |-> busy[job] /\ job \notin taken]

(* update(), each second and at every input.                                 *)
Update ==
  /\ ScanDevices(scan.due)
  /\ TakeResults(Jobs \ {"apk"})
  /\ UNCHANGED <<plugged, app, steamVr, driverView, issued, outside>>

(* render_deploy() asks the dialog for its answer: only while its tab shows. *)
PollDialog ==
  /\ work["apk"].result
  /\ TakeResults({"apk"})
  /\ \E chosen \in {app.apk, TRUE} : app' = [app EXCEPT !.apk = chosen]
  /\ UNCHANGED <<plugged, listed, scan, steamVr, driverView, issued, outside>>

Refresh ==
  /\ app.clicks < MaxClicks
  /\ app' = [app EXCEPT !.clicks = @ + 1]
  /\ ScanDevices(TRUE)
  /\ UNCHANGED <<plugged, busy, work, steamVr, driverView, issued, outside>>

(* Mutant: any device will do.                                               *)
AnyDevice(devices) == devices

(* adb::deploy_targets(), and the device of send_to_headset and logcat.      *)
VrDevices(devices) == devices \cap Headsets

(* What a click on the button of `job` starts, none while it is disabled.    *)
Started(job) ==
  LET targets == VrDevices(listed)
      on(step, d) == [Idle EXCEPT !.step = step, !.device = d, !.pin = app.pin]
  IN CASE job = "deploy" /\ app.adb /\ app.apk -> {[on("install", d) EXCEPT !.targets = targets \ {d}] : d \in targets}
       [] job = "pairing" /\ app.adb /\ app.pin -> {on("address", d) : d \in targets}
       [] job = "export" -> {on("info", d) : d \in IF app.adb /\ targets # {} THEN targets ELSE {"none"}}
       [] job = "apk" -> {on("dialog", "none")}
       [] OTHER -> {}

Issue(w) == issued' = IF w.step \in AdbSteps THEN issued \cup {w.device} ELSE issued

Click(job) ==
  /\ app.clicks < MaxClicks
  /\ ~busy[job]
  /\ \E w \in Started(job) :
       /\ work' = [work EXCEPT ![job] = w]
       /\ Issue(w)
  /\ busy' = [busy EXCEPT ![job] = TRUE]
  /\ app' = [app EXCEPT !.clicks = @ + 1]
  /\ UNCHANGED <<plugged, listed, scan, steamVr, driverView, outside>>

(* Deploy's loop over its targets, in the order adb listed them.             *)
NextTargets(w) ==
  IF w.targets = {} THEN {Finished}
  ELSE {[w EXCEPT !.step = "install", !.device = d, !.targets = @ \ {d}] : d \in w.targets}

(* What the thread does when its step succeeds: install_apk(), then          *)
(* send_to_headset() or launch_app(); export_logs().                         *)
Succeeded(w) ==
  CASE w.step = "install" -> {[w EXCEPT !.step = IF w.pin THEN "address" ELSE "launch"]}
    [] w.step = "address" -> {[w EXCEPT !.step = "start"]}
    [] w.step = "info" /\ w.device # "none" -> {[w EXCEPT !.step = "logcat"]}
    [] OTHER -> NextTargets(w)

Continues(job, ws) ==
  /\ \E w \in ws :
       /\ work' = [work EXCEPT ![job] = w]
       /\ Issue(w)
  /\ UNCHANGED <<plugged, listed, scan, busy, app, steamVr, driverView, outside>>

(* The command answered, with success or not.                                *)
Answers(job) ==
  /\ work[job].step \in AdbSteps
  /\ \/ work[job].device \in plugged.devices /\ Continues(job, Succeeded(work[job]))
     \/ Continues(job, NextTargets(work[job]))

(* Mutant: output() instead of output_with_timeout().                        *)
WaitsForever(job) == FALSE

(* output_with_timeout(): the deadline passed.                               *)
Killed(job) ==
  /\ work[job].step \in AdbSteps
  /\ Continues(job, NextTargets(work[job]))

(* system_info() answered, and the zip could be made, or not.                *)
InfoAnswers ==
  /\ work["export"].step = "info"
  /\ Continues("export", Succeeded(work["export"]) \cup {Finished})

DialogCloses ==
  /\ work["apk"].step = "dialog"
  /\ Continues("apk", {Finished})

(* list_devices(): a listing that fails or is killed is an empty one.        *)
ScanEnds ==
  /\ scan.run = "running"
  /\ \/ scan' = [scan EXCEPT !.run = "done", !.found = plugged.devices] /\ UNCHANGED plugged
     \/ /\ plugged.changes < MaxPlugs
        /\ plugged' = [plugged EXCEPT !.changes = @ + 1]
        /\ scan' = [scan EXCEPT !.run = "done", !.found = {}]
  /\ UNCHANGED <<listed, busy, work, app, steamVr, driverView, issued, outside>>

(* Three seconds have passed since last_device_scan.                         *)
ScanDue ==
  /\ ~scan.due
  /\ scan' = [scan EXCEPT !.due = TRUE]
  /\ UNCHANGED <<plugged, listed, busy, work, app, steamVr, driverView, issued, outside>>

PinComesOrGoes ==
  /\ app.clicks < MaxClicks
  /\ app' = [app EXCEPT !.pin = ~@, !.clicks = @ + 1]
  /\ UNCHANGED <<plugged, listed, scan, busy, work, steamVr, driverView, issued, outside>>

(* find_registered_driver(), is_driver_installed().                          *)
Looks(vr) == [registered |-> vr.registered, installed |-> vr.registered \/ vr.copied]

(* register_bundled_driver(): vrpathreg may be missing, or refuse.           *)
InstallDriver ==
  /\ app.clicks < MaxClicks
  /\ ~driverView.installed /\ ~app.demo
  /\ \/ /\ steamVr' = [steamVr EXCEPT !.registered = TRUE]
        /\ driverView' = [registered |-> TRUE, installed |-> TRUE]
     \/ UNCHANGED <<steamVr, driverView>>
  /\ app' = [app EXCEPT !.clicks = @ + 1]
  /\ UNCHANGED <<plugged, listed, scan, busy, work, issued, outside>>

(* The Settings tab's uninstall_driver(), of a copy that is not registered:  *)
(* remove_dir_all() fails before or after it removed the DLL.                *)
UninstallDriver ==
  /\ app.clicks < MaxClicks
  /\ driverView.installed /\ ~driverView.registered /\ ~app.demo
  /\ \/ /\ steamVr' = [steamVr EXCEPT !.copied = FALSE]
        /\ driverView' = [driverView EXCEPT !.installed = FALSE]
        /\ UNCHANGED outside
     \/ steamVr' = [steamVr EXCEPT !.copied = FALSE] /\ outside' = TRUE /\ UNCHANGED driverView
     \/ UNCHANGED <<steamVr, driverView, outside>>
  /\ app' = [app EXCEPT !.clicks = @ + 1]
  /\ UNCHANGED <<plugged, listed, scan, busy, work, issued>>

(* run_cli() of the installer's own run of the program, or SteamVR.          *)
OthersRegister ==
  /\ app.clicks < MaxClicks
  /\ steamVr' = [steamVr EXCEPT !.registered = ~@]
  /\ outside' = TRUE
  /\ app' = [app EXCEPT !.clicks = @ + 1]
  /\ UNCHANGED <<plugged, listed, scan, busy, work, driverView, issued>>

NoScan == [run |-> "none", found |-> {}, due |-> TRUE]

(* The window closes, and new() looks around again. Threads end with it.     *)
AppRestarts ==
  /\ app.runs < MaxAppRuns
  /\ \E adb \in BOOLEAN : app' = [app EXCEPT !.adb = adb, !.pin = FALSE, !.runs = @ + 1]
  /\ listed' = {} /\ scan' = NoScan
  /\ busy' = [job \in Jobs |-> FALSE] /\ work' = [job \in Jobs |-> Idle]
  /\ driverView' = Looks(steamVr) /\ outside' = FALSE
  /\ UNCHANGED <<plugged, steamVr, issued>>

CompanionInit ==
  /\ plugged \in [devices : {{}, Headsets \cup Phones}, changes : {0}]
  /\ app \in [adb : BOOLEAN, demo : BOOLEAN, pin : BOOLEAN, apk : BOOLEAN, runs : {1}, clicks : {0}]
  /\ listed = {} /\ scan = NoScan
  /\ busy = [job \in Jobs |-> FALSE] /\ work = [job \in Jobs |-> Idle]
  /\ steamVr \in [registered : {FALSE}, copied : BOOLEAN]
  /\ driverView = Looks(steamVr)
  /\ issued = {} /\ outside = FALSE

CompanionNext ==
  \/ Plug \/ Update \/ PollDialog \/ Refresh \/ InfoAnswers \/ DialogCloses \/ ScanEnds \/ ScanDue
  \/ PinComesOrGoes \/ InstallDriver \/ UninstallDriver \/ OthersRegister \/ AppRestarts
  \/ \E job \in Jobs : Click(job) \/ Answers(job) \/ Killed(job)

(* The window redraws each second, a deadline kills, PowerShell answers.     *)
CompanionFairness ==
  /\ WF_companionVars(Update)
  /\ WF_companionVars(ScanEnds)
  /\ WF_companionVars(ScanDue)
  /\ WF_companionVars(InfoAnswers)
  /\ \A job \in Jobs : WF_companionVars(Killed(job))

CompanionSpec == CompanionInit /\ [][CompanionNext]_companionVars /\ CompanionFairness

(* Commands go to VIVE headsets only, and to none in demo mode; a button     *)
(* says what its thread does; and the driver is shown as it is, unless       *)
(* somebody else changed it (deploy_targets(), check_deploy_result(),        *)
(* register_bundled_driver()).                                               *)
ActsAsShown ==
  /\ issued \subseteq Headsets
  /\ app.demo => issued = {} /\ listed = {}
  /\ \A job \in Jobs : busy[job] <=> work[job] # Idle
  /\ ~outside => driverView = Looks(steamVr)

(* When nobody clicks or plugs any more, the buttons come back, whatever adb *)
(* and the headset do, and the list comes to show what is plugged in         *)
(* (output_with_timeout(), scan_devices(), deploy.rs's Refresh).             *)
WindowKeepsUp ==
  <>[](/\ \A job \in Jobs \ {"apk"} : ~busy[job]
       /\ ~app.demo /\ app.adb => listed = plugged.devices)
==============================================================================
