------------------------------- MODULE Capture ------------------------------
(***************************************************************************)
(* run_capture and _capture_all (harness/shots/capture.py): one run of the *)
(* screenshot tool.  The results of an earlier run are removed, the guest  *)
(* is booted once, every mode of the plan is applied once and every state  *)
(* is photographed in it, the VM is stopped and the manifest written.      *)
(*                                                                         *)
(* apply_mode and run_state are single steps here; what they do inside is  *)
(* module Runner, how the VM starts and stops is module Vm.  What they may *)
(* raise is kept apart the way the except clauses keep it apart:           *)
(* StepError, ConnectionError, and the rest (QmpError, GuestAgentError,    *)
(* TimeoutError), which run_state turns into a failed result and           *)
(* apply_mode and wait_for_desktop let through.                            *)
(***************************************************************************)
EXTENDS Integers, Sequences

CONSTANTS
  Modes,  \* the selected colour modes
  States, \* the selected states
  NoMode, \* the desktop before any mode was applied
  Plan    \* the (mode, state) pairs in run order, mode by mode

Pairs == Modes \X States
ModeOf(i) == Plan[i][1]

ASSUME ModesAssumption == NoMode \notin Modes \cup {"none", "old"}
ASSUME ModeNamesAssumption == Modes \cap {"none", "old"} = {}
ASSUME PlanAssumption ==
  /\ Plan \in Seq(Pairs) /\ Plan # <<>>
  /\ \A i, j \in 1 .. Len(Plan) : Plan[i] = Plan[j] => i = j
  /\ \A i, j, k \in 1 .. Len(Plan) :
        i < j /\ j < k /\ ModeOf(i) = ModeOf(k) => ModeOf(j) = ModeOf(i)

VARIABLES
  pc,        \* where run_capture is
  next,      \* index of the planned pair the loops are at
  current,   \* current_mode, or NoMode
  modeError, \* mode_error is not empty
  lost,      \* `lost` is not empty: the connection to the VM is gone
  results,   \* the statuses recorded so far
  cause,     \* how the boot and the states ended; "none" before that
  vm,        \* "up": a QEMU process of this run exists
  guestMode, \* the mode the guest's desktop shows
  files,     \* the PNG of each pair: "none", "old", or the mode it pictures
  manifest,  \* manifest.json: "none", "old" or "new"
  exit       \* what the caller gets; "none" while the run goes on

loop == <<next, current, modeError, lost, results>>
world == <<vm, guestMode, files>>
vars == <<pc, loop, cause, world, manifest, exit>>

Init ==
  /\ pc = "start"
  /\ next = 1
  /\ current = NoMode
  /\ modeError = FALSE
  /\ lost = FALSE
  /\ results = <<>>
  /\ cause = "none"
  /\ vm = "off"
  /\ guestMode = NoMode
  /\ files \in [Pairs -> {"none", "old"}]
  /\ manifest \in {"none", "old"}
  /\ exit = "none"

-----------------------------------------------------------------------------
(* Before the boot.                                                        *)

\* states.toml, the selection or a colour scheme is bad: nothing is touched.
Refuse ==
  /\ pc = "start"
  /\ pc' = "end"
  /\ exit' = "environment"
  /\ UNCHANGED <<loop, cause, world, manifest>>

Accept ==
  /\ pc = "start"
  /\ pc' = "unlink"
  /\ UNCHANGED <<loop, cause, world, manifest, exit>>

\* The PNGs of one planned pair are removed; after the last one QEMU is started.
Unlink ==
  /\ pc = "unlink"
  /\ files' = [files EXCEPT ![Plan[next]] = "none"]
  /\ IF next < Len(Plan)
     THEN next' = next + 1 /\ UNCHANGED <<pc, vm>>
     ELSE next' = 1 /\ pc' = "boot" /\ vm' = "up"
  /\ UNCHANGED <<current, modeError, lost, results, cause, guestMode, manifest, exit>>

-----------------------------------------------------------------------------
(* Boot.                                                                   *)

VmAfterFailedEnter == "off"

\* start raises VmEnvironmentError or VmBootError, and __enter__ stops the VM.
BootFails ==
  /\ pc = "boot"
  /\ vm' = VmAfterFailedEnter
  /\ cause' = "environment"
  /\ pc' = "write"
  /\ UNCHANGED <<loop, guestMode, files, manifest, exit>>

Booted ==
  /\ pc = "boot"
  /\ pc' = "desktop"
  /\ UNCHANGED <<loop, cause, world, manifest, exit>>

DesktopReady ==
  /\ pc = "desktop"
  /\ pc' = "loop"
  /\ UNCHANGED <<loop, cause, world, manifest, exit>>

\* The with block is left; __exit__ comes next.
Leave(why) ==
  /\ cause' = why
  /\ pc' = "leaving"
  /\ UNCHANGED <<loop, world, manifest, exit>>

\* wait_for_desktop raises StepError.
DesktopFails == pc = "desktop" /\ Leave("environment")

-----------------------------------------------------------------------------
(* _capture_all.                                                           *)

Connected == ~lost

\* The pair belongs to a mode that has not been applied yet.
EntersMode == ModeOf(next) # current

\* (Slip: the error of apply_mode is logged, and the states run all the same.)
ModeInPlaceAnyway == TRUE
ModeInPlace == ~modeError

\* (Slip: the pairs after the loss are skipped without a result.)
RecordedUnlessLost(status) == IF lost THEN results ELSE Append(results, status)

Recorded(status) == Append(results, status)

AtPair == pc = "loop" /\ next <= Len(Plan)

\* The connection is gone: the pair is recorded as failed and not run.
SkipLost ==
  /\ AtPair
  /\ lost
  /\ results' = Recorded("failed")
  /\ next' = next + 1
  /\ UNCHANGED <<pc, current, modeError, lost, cause, world, manifest, exit>>

SwitchMode ==
  /\ AtPair
  /\ Connected
  /\ EntersMode
  /\ current' = ModeOf(next)
  /\ modeError' = FALSE
  /\ guestMode' = ModeOf(next)
  /\ UNCHANGED <<pc, next, lost, results, cause, vm, files, manifest, exit>>

\* apply_mode raises StepError, before or after the guest has changed its colours.
SwitchFails ==
  /\ AtPair
  /\ Connected
  /\ EntersMode
  /\ current' = ModeOf(next)
  /\ modeError' = TRUE
  /\ guestMode' \in {guestMode, ModeOf(next)}
  /\ UNCHANGED <<pc, next, lost, results, cause, vm, files, manifest, exit>>

\* apply_mode raises ConnectionError.
SwitchLoses ==
  /\ AtPair
  /\ Connected
  /\ EntersMode
  /\ current' = ModeOf(next)
  /\ modeError' = FALSE
  /\ lost' = TRUE
  /\ guestMode' \in {guestMode, ModeOf(next)}
  /\ results' = Recorded("failed")
  /\ next' = next + 1
  /\ UNCHANGED <<pc, cause, vm, files, manifest, exit>>

\* The pair of a mode that could not be applied is recorded as failed.
FailWithMode ==
  /\ AtPair
  /\ Connected
  /\ ~EntersMode
  /\ modeError
  /\ results' = Recorded("failed")
  /\ next' = next + 1
  /\ UNCHANGED <<pc, current, modeError, lost, cause, world, manifest, exit>>

\* run_state returns or raises ConnectionError.  A state that failed in its last
\* screendump may still get its PNG: QEMU carries out what was abandoned.
RunState(status) ==
  /\ AtPair
  /\ Connected
  /\ ~EntersMode
  /\ ModeInPlace
  /\ lost' = (status = "lost")
  /\ results' = Recorded(IF status = "ok" THEN "ok" ELSE "failed")
  /\ \/ files' = [files EXCEPT ![Plan[next]] = guestMode]
     \/ status # "ok" /\ UNCHANGED files
  /\ next' = next + 1
  /\ UNCHANGED <<pc, current, modeError, cause, vm, guestMode, manifest, exit>>

\* (Slip: a run that lost its VM waits for the rest of its results.)
PlanDoneUnlessLost == next > Len(Plan) /\ ~lost
PlanDone == next > Len(Plan)

AllDone == pc = "loop" /\ PlanDone /\ Leave("done")

-----------------------------------------------------------------------------
(* The end.                                                                *)

\* __exit__ stops the VM whatever the cause; an exception nobody catches goes on.
StopVm ==
  /\ pc = "leaving"
  /\ vm' = "off"
  /\ IF cause \in {"done", "environment"}
     THEN pc' = "write" /\ UNCHANGED exit
     ELSE pc' = "end" /\ exit' = "uncaught"
  /\ UNCHANGED <<loop, cause, guestMode, files, manifest>>

\* (Slip: only a lost VM fails the run.)
OkUnlessLost == cause = "done" /\ ~lost

\* The variable `ok`.
Ok ==
  /\ cause = "done"
  /\ ~lost
  /\ \A i \in 1 .. Len(results) : results[i] = "ok"
  /\ Len(results) = Len(Plan)

WriteManifest ==
  /\ pc = "write"
  /\ manifest' = "new"
  /\ exit' = IF cause = "environment" THEN "environment"
             ELSE IF Ok THEN "ok" ELSE "failed"
  /\ pc' = "end"
  /\ UNCHANGED <<loop, cause, world>>

\* What no except clause of run_capture names: an OSError of the file system, a
\* QmpError of the first QMP command, and whatever wait_for_desktop and apply_mode
\* let through.  apply_mode may have changed the colours by then.
Escape ==
  \/ /\ pc \in {"unlink", "write"}
     /\ pc' = "end" /\ exit' = "uncaught" /\ cause' = "error"
     /\ UNCHANGED <<loop, world, manifest>>
  \/ /\ pc = "boot"
     /\ vm' = VmAfterFailedEnter
     /\ pc' = "end" /\ exit' = "uncaught" /\ cause' = "error"
     /\ UNCHANGED <<loop, guestMode, files, manifest>>
  \/ pc = "desktop" /\ Leave("error")
  \/ /\ AtPair /\ Connected /\ EntersMode
     /\ current' = ModeOf(next)
     /\ modeError' = FALSE
     /\ guestMode' \in {guestMode, ModeOf(next)}
     /\ cause' = "error"
     /\ pc' = "leaving"
     /\ UNCHANGED <<next, lost, results, vm, files, manifest, exit>>

\* SIGTERM (sigterm_as_exit) or Ctrl-C: SystemExit unwinds the stack.  In the creation of
\* QEMU, and in stop, it may leave QEMU running (Vm).
Signal ==
  \/ /\ pc \in {"unlink", "write"}
     /\ pc' = "end" /\ exit' = "uncaught" /\ cause' = "signal"
     /\ UNCHANGED <<loop, world, manifest>>
  \/ /\ pc \in {"boot", "leaving"}
     /\ vm' \in {VmAfterFailedEnter, "up"}
     /\ pc' = "end" /\ exit' = "uncaught" /\ cause' = "signal"
     /\ UNCHANGED <<loop, guestMode, files, manifest>>
  \/ pc \in {"desktop", "loop"} /\ Leave("signal")

Work ==
  \/ Refuse
  \/ Accept
  \/ Unlink
  \/ BootFails
  \/ Booted
  \/ DesktopReady
  \/ DesktopFails
  \/ SkipLost
  \/ SwitchMode
  \/ SwitchFails
  \/ SwitchLoses
  \/ FailWithMode
  \/ \E status \in {"ok", "failed", "lost"} : RunState(status)
  \/ AllDone
  \/ StopVm
  \/ WriteManifest
  \/ Escape

Next == Work \/ Signal

\* One thread, every call of which returns or raises (Settle, Runner, Vm).
Spec == Init /\ [][Next]_vars /\ WF_vars(Work)

-----------------------------------------------------------------------------
(* Properties.                                                             *)

\* Every variable stays within its type; a PNG of this run pictures a mode of the
\* plan, never the desktop the guest booted with.
TypeOK ==
  /\ pc \in {"start", "unlink", "boot", "desktop", "loop", "leaving", "write", "end"}
  /\ next \in 1 .. Len(Plan) + 1
  /\ current \in Modes \cup {NoMode}
  /\ modeError \in BOOLEAN
  /\ lost \in BOOLEAN
  /\ results \in Seq({"ok", "failed"})
  /\ cause \in {"none", "done", "environment", "error", "signal"}
  /\ vm \in {"off", "up"}
  /\ guestMode \in Modes \cup {NoMode}
  /\ files \in [Pairs -> Modes \cup {"none", "old"}]
  /\ manifest \in {"none", "old", "new"}
  /\ exit \in {"none", "ok", "failed", "environment", "uncaught"}

\* Exit code 0 means that every planned pair was photographed by this run, in its
\* own mode, that the manifest is this run's and that no VM is left.
ExitOkMeansCaptured ==
  exit = "ok" =>
    /\ \A i \in 1 .. Len(Plan) : files[Plan[i]] = ModeOf(i)
    /\ manifest = "new"
    /\ vm = "off"

\* No PNG of this run shows another mode than the one it is filed under, whatever
\* modes failed to be applied, half or wholly, before it.
ShotsShowTheirMode ==
  \A p \in Pairs : files[p] \in Modes => files[p] = p[1]

\* The results a manifest is written from name the planned pairs one by one in
\* order, also after the connection was lost, and each that says "ok" has its PNG.
ResultsFollowPlan ==
  /\ pc \in {"loop", "leaving", "write"} => Len(results) = next - 1
  /\ \A i \in 1 .. Len(results) :
        results[i] = "ok" => files[Plan[i]] = ModeOf(i)

\* Once the connection is lost nothing more is asked of the guest.
NothingAfterLost == [][lost => UNCHANGED <<guestMode, files>> /\ lost']_vars

\* Whatever ends the run, but a signal (Vm says which), no QEMU process of it is left.
VmStopped == pc = "end" /\ cause # "signal" => vm = "off"
=============================================================================
