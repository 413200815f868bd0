------------------------------ MODULE InstallVm -----------------------------
(***************************************************************************)
(* InstallVm (harness/install/boot.py) as harness/install/run.py uses it:  *)
(* one `with` block in which QEMU runs twice on the same disk.  Phase 1    *)
(* boots the live ISO; reboot_to_disk_only ends it and boots the disk      *)
(* alone, phase 2, in the same object.  Every handle of the object is the  *)
(* phase whose QEMU it belongs to, 0 when there is none, so that one left  *)
(* over from the first boot can be told from one of the second.  The       *)
(* directory and QEMU exist before their handles are assigned; what a      *)
(* failure or a signal in between leaves behind is a case of its own.      *)
(***************************************************************************)
EXTENDS Naturals

Phases == {1, 2}
NoPhase == 0

VARIABLES
  pc,      \* the next step; "body" of the with block; "out" of it
  phase,   \* 1 while config.iso_path is set, then 2
  after,   \* what follows the running stop: "relaunch", "exit" or "out"
  live,    \* the phases whose QEMU is alive
  dirs,    \* the phases whose private directory exists
  process, \* _process
  qmp,     \* qmp
  agent,   \* agent
  runDir,  \* _run_dir
  tail,    \* the phase whose console final_serial_tail holds
  asked,   \* asked_to_quit
  cut      \* history: what was cut short: the keeping of a "directory" or a "process" that
           \* had just been created, the last "stop"

handles == <<process, qmp, agent, runDir>>
vars == <<pc, phase, after, live, dirs, handles, tail, asked, cut>>

Starting ==
  {"preflight", "dir", "keep dir", "popen", "keep process", "qmp", "agent", "ready"}
Stopping == {"ask", "wait", "kill", "remove"}

Init ==
  /\ pc = "preflight"
  /\ phase = 1
  /\ after = "out"
  /\ live = {}
  /\ dirs = {}
  /\ process = NoPhase /\ qmp = NoPhase /\ agent = NoPhase /\ runDir = NoPhase
  /\ tail = NoPhase
  /\ asked = FALSE
  /\ cut = {}

\* is_alive
Alive == process \in live

\* run.py attaches the agent at boot in phase 2 only.
AttachesAgent == phase = 2

\* run.py asks for the live agent's device; after the reboot it is gone.
LiveAgentChannel == phase = 1

-----------------------------------------------------------------------------
(* QEMU: the guest powers off, or QEMU crashes; with -no-reboot a guest that  *)
(* reboots by itself ends QEMU too.                                           *)

QemuExits ==
  \E p \in live : live' = live \ {p}
                  /\ UNCHANGED <<pc, phase, after, dirs, handles, tail, asked, cut>>

-----------------------------------------------------------------------------
(* _start.                                                                    *)

Preflight ==
  /\ pc = "preflight"
  /\ pc' = "dir"
  /\ UNCHANGED <<phase, after, live, dirs, handles, tail, asked, cut>>

\* mkdtemp.
MakeRunDir ==
  /\ pc = "dir"
  /\ dirs' = dirs \cup {phase}
  /\ pc' = "keep dir"
  /\ UNCHANGED <<phase, after, live, handles, tail, asked, cut>>

\* chmod, and the assignment of _run_dir.
KeepRunDir ==
  /\ pc = "keep dir"
  /\ runDir' = phase
  /\ pc' = "popen"
  /\ UNCHANGED <<phase, after, live, dirs, process, qmp, agent, tail, asked, cut>>

\* subprocess.Popen forks QEMU.
Popen ==
  /\ pc = "popen"
  /\ live' = live \cup {phase}
  /\ pc' = "keep process"
  /\ UNCHANGED <<phase, after, dirs, handles, tail, asked, cut>>

\* Popen returns, and _process is assigned.
KeepProcess ==
  /\ pc = "keep process"
  /\ process' = phase
  /\ pc' = "qmp"
  /\ UNCHANGED <<phase, after, live, dirs, qmp, agent, runDir, tail, asked, cut>>

ConnectQmp ==
  /\ pc = "qmp"
  /\ Alive
  /\ qmp' = process
  /\ pc' = IF AttachesAgent THEN "agent" ELSE "body"
  /\ UNCHANGED <<phase, after, live, dirs, process, agent, runDir, tail, asked, cut>>

ConnectAgent ==
  /\ pc = "agent"
  /\ Alive
  /\ agent' = process
  /\ pc' = "ready"
  /\ UNCHANGED <<phase, after, live, dirs, process, qmp, runDir, tail, asked, cut>>

AgentReady ==
  /\ pc = "ready"
  /\ Alive
  /\ pc' = "body"
  /\ UNCHANGED <<phase, after, live, dirs, handles, tail, asked, cut>>

\* What follows the stop when _start raised: __enter__ raises out of the block,
\* reboot_to_disk_only into it, so that __exit__ stops once more.
AfterFailure == IF phase = 1 THEN "out" ELSE "exit"

\* What exists without a handle when _start is broken off here.
Unkept ==
  CASE pc = "keep dir" -> {"directory"}
    [] pc = "keep process" -> {"process"}
    [] OTHER -> {}

\* _start raises anything, a signal included, at any of its steps.
StartFails ==
  /\ pc \in Starting
  /\ pc' = "ask"
  /\ after' = AfterFailure
  /\ cut' = cut \cup Unkept
  /\ UNCHANGED <<phase, live, dirs, handles, tail, asked>>

-----------------------------------------------------------------------------
(* The body.                                                                  *)

\* connect_live_agent; when it raises nothing has changed.
ConnectLiveAgent ==
  /\ pc = "body"
  /\ agent = NoPhase
  /\ LiveAgentChannel /\ runDir # NoPhase /\ Alive
  /\ agent' = process
  /\ UNCHANGED <<pc, phase, after, live, dirs, process, qmp, runDir, tail, asked, cut>>

\* reboot_to_disk_only is called: the guest is asked to power off if it can be.
\* (In phase 2 the call raises ValueError and nothing happens.)
Reboot ==
  /\ pc = "body"
  /\ phase = 1
  /\ after' = "relaunch"
  /\ pc' = IF qmp # NoPhase /\ Alive THEN "powerdown" ELSE "ask"
  /\ UNCHANGED <<phase, live, dirs, handles, tail, asked, cut>>

\* (Slip: the wait for the guest has no limit.)
PowerdownOverOnExit == ~Alive

\* The wait ends with the exit of QEMU or after 60 seconds.
PowerdownOver == TRUE

\* (Slip: a guest that was asked to power off needs no stop.)
RelaunchAtOnce == "relaunch"

\* stop follows whether or not the guest has powered off.
AfterPowerdown == "ask"

Powerdown ==
  /\ pc = "powerdown"
  /\ PowerdownOver
  /\ pc' = AfterPowerdown
  /\ UNCHANGED <<phase, after, live, dirs, handles, tail, asked, cut>>

\* The body ends or raises; a signal does the same, also while the body waits for
\* the guest to power off or while the stop of a reboot runs.  __exit__ stops.
LeaveBody ==
  /\ \/ pc \in {"body", "powerdown", "relaunch"}
     \/ pc \in Stopping /\ after # "out"
  /\ pc' = "ask"
  /\ after' = "out"
  /\ UNCHANGED <<phase, live, dirs, handles, tail, asked, cut>>

-----------------------------------------------------------------------------
(* stop.                                                                      *)

\* QEMU is asked to quit; it may refuse, or not answer, and exit all the same
\* (QemuExits).
Ask ==
  /\ pc = "ask"
  /\ asked' \in IF qmp # NoPhase /\ Alive THEN BOOLEAN ELSE {FALSE}
  /\ pc' = IF process # NoPhase THEN "wait" ELSE "remove"
  /\ UNCHANGED <<phase, after, live, dirs, handles, tail, cut>>

\* Ends with the exit of QEMU or after ten seconds; without an accepted request
\* there is none.
Wait ==
  /\ pc = "wait"
  /\ pc' = "kill"
  /\ UNCHANGED <<phase, after, live, dirs, handles, tail, asked, cut>>

\* (Slip: a QEMU that accepted the request is left to finish by itself.)
KilledUnlessAsked == IF asked THEN {} ELSE {process}

\* The group is killed whether or not QEMU was asked.
Killed == {process}

KillGroup ==
  /\ pc = "kill"
  /\ live' = live \ Killed
  /\ pc' = "remove"
  /\ UNCHANGED <<phase, after, dirs, handles, tail, asked, cut>>

\* (Slip: the agent is closed but not dropped.)
AgentKept == agent

\* stop drops the agent with everything else.
AgentDropped == NoPhase

\* The console is read before its directory goes, once.
Tail == IF runDir # NoPhase THEN runDir ELSE tail

\* Channels and log are closed, the tail is read, the directory, if it is known,
\* removed and every reference dropped.
Remove ==
  /\ pc = "remove"
  /\ tail' = Tail
  /\ dirs' = dirs \ {runDir}
  /\ process' = NoPhase /\ qmp' = NoPhase /\ runDir' = NoPhase
  /\ agent' = AgentDropped
  /\ pc' = IF after = "exit" THEN "ask" ELSE after
  /\ after' = IF after = "exit" THEN "out" ELSE after
  /\ UNCHANGED <<phase, live, asked, cut>>

\* A signal in the last stop, that of __exit__ or of a failed __enter__.
BreakOffStop ==
  /\ pc \in Stopping
  /\ after = "out"
  /\ cut' = cut \cup {"stop"}
  /\ pc' = "out"
  /\ UNCHANGED <<phase, after, live, dirs, handles, tail, asked>>

\* The second boot starts with no tail.
TailReset == NoPhase

\* The rest of reboot_to_disk_only: the configuration without the ISO.
Relaunch ==
  /\ pc = "relaunch"
  /\ phase' = 2
  /\ tail' = TailReset
  /\ pc' = "preflight"
  /\ UNCHANGED <<after, live, dirs, handles, asked, cut>>

Stop == Ask \/ Wait \/ KillGroup \/ Remove

Next ==
  \/ QemuExits
  \/ Preflight
  \/ MakeRunDir
  \/ KeepRunDir
  \/ Popen
  \/ KeepProcess
  \/ ConnectQmp
  \/ ConnectAgent
  \/ AgentReady
  \/ StartFails
  \/ ConnectLiveAgent
  \/ Reboot
  \/ Powerdown
  \/ LeaveBody
  \/ Stop
  \/ BreakOffStop
  \/ Relaunch

Progress ==
  \/ Preflight \/ MakeRunDir \/ KeepRunDir \/ Popen \/ KeepProcess
  \/ ConnectQmp \/ ConnectAgent \/ AgentReady \/ StartFails
  \/ Powerdown \/ Stop \/ Relaunch

\* Every wait of start, of the reboot and of stop has a limit of its own.  Nothing
\* is assumed of QEMU and the guest.
Spec == Init /\ [][Next]_vars /\ WF_vars(Progress)

-----------------------------------------------------------------------------
(* Properties.                                                                *)

\* Every variable stays within its type, and the body finds the channels of its
\* phase open.
TypeOK ==
  /\ pc \in Starting \cup Stopping \cup {"body", "powerdown", "relaunch", "out"}
  /\ phase \in Phases
  /\ after \in {"relaunch", "exit", "out"}
  /\ live \subseteq Phases /\ dirs \subseteq Phases
  /\ {process, qmp, agent, runDir, tail} \subseteq Phases \cup {NoPhase}
  /\ asked \in BOOLEAN
  /\ cut \subseteq {"directory", "process", "stop"}
  /\ pc = "body" => qmp = phase /\ runDir = phase /\ (phase = 2 => agent = phase)

\* The disk the installer wrote is never open in two QEMUs: the second boot does
\* not start before the first QEMU is gone, whether or not the guest obeyed.
OneQemu == \A p, q \in live : p = q

\* No handle of the live boot is left when the installed disk is booted: nobody
\* can ask the old agent and take its answers for the installed system's.
HandlesAreOfThisPhase ==
  {process, qmp, agent, runDir} \subseteq {phase, NoPhase}

\* The console kept for the report is that of the boot that failed, not of the
\* live boot before it.
TailIsOfThisPhase == tail \in {phase, NoPhase}

\* Nothing of one boot is taken for the other's.
PhasesAreSeparate == HandlesAreOfThisPhase /\ TailIsOfThisPhase

\* The contract the class shares with Vm: on every exit path QEMU is stopped and the
\* private directory removed, also when a signal interrupts the stop that ends phase 1
\* or a second boot that failed.  Excepted are the last stop when a signal breaks it
\* off, and what a boot had created in the very moment it was ended, without a handle.
NothingSurvives ==
  (pc = "out" /\ "stop" \notin cut) =>
    /\ live # {} => "process" \in cut
    /\ dirs # {} => "directory" \in cut

\* reboot_to_disk_only ends, in the second boot or out of the block, also when the
\* guest ignores the power button.
RebootEnds == pc = "powerdown" ~> pc \in {"body", "out"}
=============================================================================
