----------------------------- MODULE InstallRun -----------------------------
(***************************************************************************)
(* run_installed_verify (harness/install/run.py): for every firmware path  *)
(* the ISO is installed on a fresh disk, the disk is booted alone, and the *)
(* states of the plan are photographed on it and compared.  An error of    *)
(* one path is recorded and the next path is tried.                        *)
(*                                                                         *)
(* _run_states is the loop of Capture over the plan, so this module        *)
(* extends Capture and uses its SwitchMode, RunState and the other steps   *)
(* at one pair; the variables of Capture describe the path under way, its  *)
(* PNGs included.  What the two boots do inside is module InstallVm.       *)
(***************************************************************************)
EXTENDS Capture

CONSTANT PathCount \* the number of selected firmware paths

ASSUME PathCountAssumption == PathCount \in Nat \ {0}

Paths == 1 .. PathCount

VARIABLES
  path,      \* the firmware path under way
  disks,     \* the disk of each path: "none", "old", "blank" or "installed"
  installed, \* fw_entry["install"] of the path under way is set
  shots,     \* the PNGs of the other paths
  matches,   \* whether the pictures a path would take match the goldens
  verdicts   \* the outcomes of the paths that were compared

entry == <<disks, installed>>
outcomes == <<path, shots, matches, verdicts>>
allVars == <<vars, entry, outcomes>>

\* What an output directory holds: nothing, or the PNGs of a complete earlier run.
Earlier == {[p \in Pairs |-> kind] : kind \in {"none", "old"}}

InstallInit ==
  /\ pc = "start"
  /\ next = 1
  /\ current = NoMode
  /\ modeError = FALSE
  /\ lost = FALSE
  /\ results = <<>>
  /\ cause = "none"
  /\ vm = "off"
  /\ guestMode = NoMode
  /\ manifest \in {"none", "old"}
  /\ exit = "none"
  /\ path = 1
  /\ disks \in [Paths -> {"none", "old"}]
  /\ installed = FALSE
  /\ shots \in [Paths -> Earlier]
  /\ files = shots[1]
  /\ matches \in [Paths -> BOOLEAN]
  /\ verdicts = <<>>

-----------------------------------------------------------------------------
(* One firmware path.                                                      *)

\* Bad input, no KVM, no ISO, no test packages: exit code 2, nothing is touched.
Check == (Refuse \/ Accept) /\ UNCHANGED <<entry, outcomes>>

\* (Slip: the list of results is made once, before the loop.)
ResultsSoFar == results

\* Every path starts with an empty list.
NoResults == <<>>

\* The PNGs of every selected mode and state, and the disk, are removed; the
\* records of the path are new.
CleanPath ==
  /\ pc = "unlink"
  /\ files' = [p \in Pairs |-> "none"]
  /\ disks' = [disks EXCEPT ![path] = "none"]
  /\ installed' = FALSE
  /\ results' = NoResults
  /\ next' = 1 /\ current' = NoMode /\ modeError' = FALSE /\ lost' = FALSE
  /\ cause' = "none"
  /\ guestMode' = NoMode
  /\ pc' = "create"
  /\ UNCHANGED <<vm, manifest, exit, outcomes>>

\* qemu-img creates the disk.
CreateDisk ==
  /\ pc = "create"
  /\ disks' = [disks EXCEPT ![path] = "blank"]
  /\ pc' = "boot"
  /\ UNCHANGED <<loop, cause, world, manifest, exit, installed, outcomes>>

\* The live ISO is booted in phase 1.
BootLive ==
  /\ pc = "boot"
  /\ vm' = "live"
  /\ pc' = "wizard"
  /\ UNCHANGED <<loop, cause, guestMode, files, manifest, exit, entry, outcomes>>

\* The wizard is driven to Finish.
Install ==
  /\ pc = "wizard"
  /\ disks' = [disks EXCEPT ![path] = "installed"]
  /\ installed' = TRUE
  /\ pc' = "reboot"
  /\ UNCHANGED <<loop, cause, world, manifest, exit, outcomes>>

\* reboot_to_disk_only: phase 2.
BootDisk ==
  /\ pc = "reboot"
  /\ vm' = "disk"
  /\ pc' = "stage"
  /\ UNCHANGED <<loop, cause, guestMode, files, manifest, exit, entry, outcomes>>

\* The session configuration, the test packages, the login and the desktop, in this
\* order: the session reads its configuration when it starts.
Preparation == [stage |-> "packages", packages |-> "login",
                login |-> "desktop", desktop |-> "loop"]

Prepare ==
  /\ pc \in DOMAIN Preparation
  /\ pc' = Preparation[pc]
  /\ UNCHANGED <<loop, cause, world, manifest, exit, entry, outcomes>>

\* _run_states at one planned pair, and its end.
RunStates ==
  /\ \/ SkipLost
     \/ SwitchMode
     \/ SwitchFails
     \/ SwitchLoses
     \/ FailWithMode
     \/ \E status \in {"ok", "failed", "lost"} : RunState(status)
     \/ AllDone
  /\ UNCHANGED <<entry, outcomes>>

-----------------------------------------------------------------------------
(* Errors.                                                                 *)

\* Where a call of the path is under way.
Calling == {"create", "boot", "wizard", "logs", "reboot", "loop"} \cup DOMAIN Preparation

\* The block is left with an error that an except clause names, or not.
LeaveWith(why) == cause' = why /\ pc' = "leaving"

\* An error that the except clauses name: from qemu-img, a boot, the wizard or the
\* preparation.
PathFails ==
  /\ pc \in Calling \ {"logs", "loop"}
  /\ LeaveWith("error")
  /\ UNCHANGED <<loop, world, manifest, exit, entry, outcomes>>

\* Calamares reports that the installation failed, on a disk it has partitioned.
InstallFails ==
  /\ pc = "wizard"
  /\ cause' = "error"
  /\ pc' = "logs"
  /\ UNCHANGED <<loop, world, manifest, exit, entry, outcomes>>

\* The error is raised again.
AfterLogs == "leaving"

\* _pull_failure_logs: the logs are saved as far as the live agent and the disk let
\* them; nothing is raised.
PullLogs ==
  /\ pc = "logs"
  /\ pc' = AfterLogs
  /\ UNCHANGED <<loop, cause, world, manifest, exit, entry, outcomes>>

\* A QmpError or GuestAgentError, which no clause names: from connecting to QEMU, or
\* from wait_for_desktop.
Escapes ==
  /\ pc \in {"boot", "reboot", "desktop"}
  /\ LeaveWith("escape")
  /\ UNCHANGED <<loop, world, manifest, exit, entry, outcomes>>

\* apply_mode raises what _run_states does not catch, before or after the guest has
\* changed its colours: a timeout, which is an OSError and has a clause, or one of
\* the errors that have none.
StatesFail ==
  /\ AtPair /\ Connected /\ EntersMode
  /\ current' = ModeOf(next)
  /\ modeError' = FALSE
  /\ guestMode' \in {guestMode, ModeOf(next)}
  /\ \E why \in {"error", "escape"} : LeaveWith(why)
  /\ UNCHANGED <<next, lost, results, vm, files, manifest, exit, entry, outcomes>>

\* Ctrl-C: out of the with block, or out of the program.
Interrupt ==
  \/ pc \in Calling /\ Leave("signal") /\ UNCHANGED <<entry, outcomes>>
  \/ /\ pc \in {"unlink", "compare", "write"}
     /\ cause' = "signal"
     /\ pc' = "end" /\ exit' = "uncaught"
     /\ UNCHANGED <<loop, world, manifest, entry, outcomes>>

\* The with block stops the VM; the clauses around it see what came out of it.  (A QEMU
\* that a signal in its creation left without a handle is not in `vm`: see InstallVm.)
LeavePath ==
  /\ pc = "leaving"
  /\ vm' = "off"
  /\ IF cause \in {"done", "error"}
     THEN pc' = "compare" /\ UNCHANGED exit
     ELSE pc' = "end" /\ exit' = "uncaught"
  /\ UNCHANGED <<loop, cause, guestMode, files, manifest, entry, outcomes>>

\* mkdir, unlink and the writing of the manifest are outside every try.
FileFails ==
  /\ pc \in {"unlink", "write"}
  /\ cause' = "escape"
  /\ pc' = "end" /\ exit' = "uncaught"
  /\ UNCHANGED <<loop, world, manifest, entry, outcomes>>

-----------------------------------------------------------------------------
(* The verdicts.                                                           *)

\* fw_ok.
PathOk ==
  /\ cause # "error"
  /\ installed
  /\ Len(results) = Len(Plan)
  /\ \A i \in 1 .. Len(results) : results[i] = "ok"
  /\ matches[path]

\* The results are compared with the goldens and the path's outcome is recorded.
ComparePath ==
  /\ pc = "compare"
  /\ verdicts' = Append(verdicts, IF PathOk THEN "ok" ELSE "failed")
  /\ shots' = [shots EXCEPT ![path] = files]
  /\ IF path < PathCount
     THEN path' = path + 1 /\ pc' = "unlink" /\ files' = shots[path + 1]
     ELSE pc' = "write" /\ UNCHANGED <<path, files>>
  /\ UNCHANGED <<loop, cause, vm, guestMode, manifest, exit, entry, matches>>

\* (Slip: the last path decides.)
LastPathOk == verdicts[Len(verdicts)] = "ok"

\* overall_ok.
OverallOk == \A f \in 1 .. Len(verdicts) : verdicts[f] = "ok"

WriteReport ==
  /\ pc = "write"
  /\ manifest' = "new"
  /\ exit' = IF OverallOk THEN "ok" ELSE "failed"
  /\ pc' = "end"
  /\ UNCHANGED <<loop, cause, world, entry, outcomes>>

InstallWork ==
  \/ Check
  \/ CleanPath
  \/ CreateDisk
  \/ BootLive
  \/ Install
  \/ BootDisk
  \/ Prepare
  \/ RunStates
  \/ PathFails
  \/ InstallFails
  \/ PullLogs
  \/ Escapes
  \/ StatesFail
  \/ LeavePath
  \/ FileFails
  \/ ComparePath
  \/ WriteReport

InstallNext == InstallWork \/ Interrupt

\* One thread, every call of which returns or raises.
InstallSpec == InstallInit /\ [][InstallNext]_allVars /\ WF_allVars(InstallWork)

-----------------------------------------------------------------------------
(* Properties.                                                             *)

\* The PNGs of every path.
AllShots == [shots EXCEPT ![path] = files]

\* Every variable stays within its type.
InstallTypeOK ==
  /\ pc \in Calling \cup {"start", "unlink", "leaving", "compare", "write", "end"}
  /\ next \in 1 .. Len(Plan) + 1
  /\ current \in Modes \cup {NoMode}
  /\ {modeError, lost, installed} \subseteq BOOLEAN
  /\ results \in Seq({"ok", "failed"})
  /\ cause \in {"none", "done", "error", "escape", "signal"}
  /\ vm \in {"off", "live", "disk"}
  /\ guestMode \in Modes \cup {NoMode}
  /\ files \in [Pairs -> Modes \cup {"none", "old"}]
  /\ manifest \in {"none", "old", "new"}
  /\ exit \in {"none", "ok", "failed", "environment", "uncaught"}
  /\ path \in Paths
  /\ disks \in [Paths -> {"none", "old", "blank", "installed"}]
  /\ shots \in [Paths -> [Pairs -> Modes \cup {"none", "old"}]]
  /\ matches \in [Paths -> BOOLEAN]
  /\ verdicts \in Seq({"ok", "failed"})

\* Exit code 0 means that on every selected path the ISO was installed, every
\* planned state was photographed by this run in its own mode and matches its
\* golden, that the manifest is this run's, and that no VM is left.
ExitOkMeansVerified ==
  exit = "ok" =>
    \A f \in Paths :
      /\ disks[f] = "installed"
      /\ \A i \in 1 .. Len(Plan) : AllShots[f][Plan[i]] = ModeOf(i)
      /\ matches[f]
      /\ manifest = "new"
      /\ vm = "off"

\* A verdict is about its path: "ok" needs its own disk and its own pictures, although
\* an earlier path may have taken the same ones, or lost its VM half-way.
OkIsOwn ==
  \A f \in 1 .. Len(verdicts) : verdicts[f] = "ok" =>
    /\ disks[f] = "installed"
    /\ \A i \in 1 .. Len(Plan) : AllShots[f][Plan[i]] = ModeOf(i)

\* So are the results: one for each pair the loop has passed, and an "ok" has its PNG
\* in this path's directory.
ResultsAreOwn ==
  pc \in {"loop", "leaving", "compare"} =>
    /\ Len(results) = next - 1
    /\ \A i \in 1 .. Len(results) : results[i] = "ok" => files[Plan[i]] = ModeOf(i)

\* And the disk that is booted alone: on it the wizard reached Finish.
DiskIsOwn == vm = "disk" => disks[path] = "installed"

\* Nothing of one firmware path counts for another.
PathsAreSeparate == OkIsOwn /\ ResultsAreOwn /\ DiskIsOwn

\* What the module text says of a reboot or a state that fails: "the run continues
\* to the next firmware path rather than stopping there" (here: an error, not
\* Ctrl-C, on a path whose install had finished).
EveryPathTried ==
  (pc = "end" /\ cause # "signal" /\ disks[path] = "installed") => path = PathCount
=============================================================================
