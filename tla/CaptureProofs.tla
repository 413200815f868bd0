--------------------------- MODULE CaptureProofs ----------------------------
(***************************************************************************)
(* Proofs about Capture: what the PNGs, the results and the exit code of a *)
(* run mean, for every plan, every earlier run and every failure; and      *)
(* about InstallRun: what the exit code and the verdicts of                *)
(* installed-verify mean, for every number of firmware paths; and about    *)
(* Stock: what its pictures show.                                          *)
(***************************************************************************)
EXTENDS InstallRun, Stock, TLAPS

-----------------------------------------------------------------------------
(* A capture run.                                                          *)

\* Before the states run nothing is recorded and nothing is lost.
NotStarted ==
  /\ pc \in {"start", "unlink", "boot", "desktop"} => results = <<>> /\ ~lost
  /\ pc \in {"start", "boot", "desktop"} => next = 1 /\ current = NoMode
  /\ pc = "unlink" => next <= Len(Plan) /\ current = NoMode

\* The guest shows the mode the loop believes it shows, unless an error is noted.
ModeKnown ==
  (pc = "loop" /\ current # NoMode /\ ~modeError /\ ~lost) => guestMode = current

\* The results are those of the pairs before `next`.
Counted == Len(results) < next

\* The exit code is the last thing a run sets.
ExitLast == exit # "none" => pc = "end"

\* QEMU lives between the end of the removals and the exit of the with block, and longer
\* only if a signal came at the wrong moment.
VmLife ==
  /\ pc \in {"start", "unlink", "write"} => vm = "off"
  /\ pc = "end" /\ cause # "signal" => vm = "off"

CaptureInv ==
  /\ TypeOK
  /\ NotStarted
  /\ ModeKnown
  /\ Counted
  /\ ExitLast
  /\ VmLife
  /\ ShotsShowTheirMode
  /\ ResultsFollowPlan
  /\ ExitOkMeansCaptured

\* A planned pair is filed under the mode it is captured in.
LEMMA PlannedPair ==
  \A i \in 1 .. Len(Plan) : Plan[i] \in Pairs /\ ModeOf(i) = Plan[i][1] /\ ModeOf(i) \in Modes
<1>. SUFFICES ASSUME NEW i \in 1 .. Len(Plan)
              PROVE  Plan[i] \in Pairs /\ ModeOf(i) = Plan[i][1] /\ ModeOf(i) \in Modes
  OBVIOUS
<1>1. Plan[i] \in Pairs
  BY PlanAssumption
<1>. QED
  BY <1>1 DEF Pairs, ModeOf

LEMMA CaptureInitInv == Init => CaptureInv
<1>. SUFFICES ASSUME Init PROVE CaptureInv
  OBVIOUS
<1>1. Len(Plan) \in Nat /\ Len(Plan) >= 1
  BY PlanAssumption
<1>2. TypeOK
  <2>1. files \in [Pairs -> Modes \cup {"none", "old"}]
    BY DEF Init
  <2>2. results \in Seq({"ok", "failed"})
    BY DEF Init
  <2>3. next \in 1 .. Len(Plan) + 1
    BY <1>1 DEF Init
  <2>. QED
    BY <2>1, <2>2, <2>3 DEF Init, TypeOK
<1>3. ShotsShowTheirMode
  BY ModeNamesAssumption DEF Init, ShotsShowTheirMode
<1>4. NotStarted /\ ModeKnown /\ Counted /\ ExitLast /\ VmLife
  BY <1>1 DEF Init, NotStarted, ModeKnown, Counted, ExitLast, VmLife
<1>5. ResultsFollowPlan /\ ExitOkMeansCaptured
  BY DEF Init, ResultsFollowPlan, ExitOkMeansCaptured
<1>. QED
  BY <1>2, <1>3, <1>4, <1>5 DEF CaptureInv

-----------------------------------------------------------------------------
(* The steps, in groups that disturb the same conjuncts.                   *)

\* The removal of one pair's PNGs.
LEMMA UnlinkKeeps == ASSUME CaptureInv, Unlink PROVE CaptureInv'
<1>1. next \in 1 .. Len(Plan) /\ Len(Plan) \in Nat /\ results = <<>> /\ ~lost
  BY PlanAssumption DEF CaptureInv, TypeOK, NotStarted, Unlink
<1>2. Plan[next] \in Pairs /\ files \in [Pairs -> Modes \cup {"none", "old"}]
  BY <1>1, PlannedPair DEF CaptureInv, TypeOK
<1>3. TypeOK'
  BY <1>1, <1>2 DEF CaptureInv, TypeOK, Unlink
<1>4. ShotsShowTheirMode'
  BY <1>2, ModeNamesAssumption DEF CaptureInv, ShotsShowTheirMode, Unlink
<1>5. (NotStarted /\ ModeKnown /\ Counted /\ ExitLast /\ VmLife)'
  BY <1>1 DEF CaptureInv, NotStarted, ModeKnown, Counted, ExitLast, VmLife, Unlink
<1>6. (ResultsFollowPlan /\ ExitOkMeansCaptured)'
  <2>1. exit = "none"
    BY DEF CaptureInv, ExitLast, Unlink
  <2>. QED
    BY <1>1, <2>1 DEF ResultsFollowPlan, ExitOkMeansCaptured, Unlink
<1>. QED
  BY <1>3, <1>4, <1>5, <1>6 DEF CaptureInv

\* run_state: the only step that writes a PNG.
LEMMA RunStateKeeps ==
  ASSUME CaptureInv, NEW outcome \in {"ok", "failed", "lost"}, RunState(outcome)
  PROVE  CaptureInv'
<1>. DEFINE verdict == IF outcome = "ok" THEN "ok" ELSE "failed"
<1>1. /\ pc = "loop" /\ next \in 1 .. Len(Plan) /\ Len(Plan) \in Nat
      /\ results \in Seq({"ok", "failed"}) /\ Len(results) = next - 1
  BY PlanAssumption DEF CaptureInv, TypeOK, RunState, AtPair, ResultsFollowPlan
<1>2. /\ Plan[next] \in Pairs /\ ModeOf(next) = Plan[next][1] /\ ModeOf(next) \in Modes
      /\ files \in [Pairs -> Modes \cup {"none", "old"}]
  BY <1>1, PlannedPair DEF CaptureInv, TypeOK
<1>3. guestMode = ModeOf(next)
  BY <1>1, <1>2, ModesAssumption
  DEF CaptureInv, ModeKnown, RunState, Connected, EntersMode, ModeInPlace
<1>4. /\ results' = Append(results, verdict)
      /\ files' \in {files, [files EXCEPT ![Plan[next]] = ModeOf(next)]}
      /\ outcome = "ok" => files' = [files EXCEPT ![Plan[next]] = ModeOf(next)]
  BY <1>3 DEF RunState, Recorded
<1>5. TypeOK'
  <2>1. results' \in Seq({"ok", "failed"})
    BY <1>1, <1>4
  <2>2. files' \in [Pairs -> Modes \cup {"none", "old"}]
    BY <1>2, <1>4
  <2>. QED
    BY <1>1, <2>1, <2>2 DEF CaptureInv, TypeOK, RunState
<1>6. ShotsShowTheirMode'
  BY <1>2, <1>4 DEF CaptureInv, ShotsShowTheirMode
<1>7. (NotStarted /\ ModeKnown /\ ExitLast /\ VmLife /\ ExitOkMeansCaptured)'
  BY <1>1 DEF CaptureInv, NotStarted, ModeKnown, ExitLast, VmLife, ExitOkMeansCaptured,
              RunState, Connected
<1>8. Len(results') = next' - 1 /\ Counted'
  BY <1>1, <1>4 DEF Counted, RunState
<1>9. ASSUME NEW i \in 1 .. Len(results'), results'[i] = "ok"
      PROVE  files'[Plan[i]] = ModeOf(i)
  <2>1. CASE i = next
    <3>1. outcome = "ok"
      BY <1>1, <1>4, <1>9, <2>1
    <3>. QED
      BY <1>2, <1>4, <2>1, <3>1
  <2>2. CASE i # next
    <3>1. i \in 1 .. Len(results) /\ i \in 1 .. Len(Plan)
      BY <1>1, <1>4, <2>2
    <3>2. results[i] = "ok"
      BY <1>1, <1>4, <1>9, <3>1
    <3>3. files[Plan[i]] = ModeOf(i)
      BY <3>1, <3>2 DEF CaptureInv, ResultsFollowPlan
    <3>4. Plan[i] # Plan[next]
      BY <1>1, <2>2, <3>1, PlanAssumption
    <3>5. Plan[i] \in Pairs
      BY <3>1, PlannedPair
    <3>. QED
      BY <1>2, <1>4, <3>3, <3>4, <3>5
  <2>. QED
    BY <2>1, <2>2
<1>10. ResultsFollowPlan'
  BY <1>8, <1>9 DEF ResultsFollowPlan
<1>. QED
  BY <1>5, <1>6, <1>7, <1>8, <1>10 DEF CaptureInv

\* A planned pair that is recorded as failed without being run.
LEMMA SkipKeeps == ASSUME CaptureInv, SkipLost \/ FailWithMode \/ SwitchLoses PROVE CaptureInv'
<1>1. /\ pc = "loop" /\ next \in 1 .. Len(Plan) /\ Len(Plan) \in Nat
      /\ results \in Seq({"ok", "failed"}) /\ Len(results) = next - 1
  BY PlanAssumption
  DEF CaptureInv, TypeOK, SkipLost, FailWithMode, SwitchLoses, AtPair, ResultsFollowPlan
<1>2. ModeOf(next) \in Modes
  BY <1>1, PlannedPair
<1>3. /\ results' = Append(results, "failed") /\ next' = next + 1
      /\ UNCHANGED <<pc, cause, vm, files, manifest, exit>>
  BY DEF SkipLost, FailWithMode, SwitchLoses, Recorded, world
<1>4. TypeOK'
  <2>1. results' \in Seq({"ok", "failed"}) /\ next' \in 1 .. Len(Plan) + 1
    BY <1>1, <1>3
  <2>2. /\ current' \in Modes \cup {NoMode} /\ guestMode' \in Modes \cup {NoMode}
        /\ modeError' \in BOOLEAN /\ lost' \in BOOLEAN
    BY <1>2 DEF CaptureInv, TypeOK, SkipLost, FailWithMode, SwitchLoses, world
  <2>. QED
    BY <1>3, <2>1, <2>2 DEF CaptureInv, TypeOK
<1>5. ModeKnown'
  BY DEF CaptureInv, ModeKnown, SkipLost, FailWithMode, SwitchLoses, world
<1>6. (NotStarted /\ ExitLast /\ VmLife /\ ShotsShowTheirMode /\ ExitOkMeansCaptured)'
  BY <1>1, <1>3 DEF CaptureInv, NotStarted, ExitLast, VmLife, ShotsShowTheirMode,
                    ExitOkMeansCaptured
<1>7. Counted' /\ ResultsFollowPlan'
  BY <1>1, <1>3 DEF CaptureInv, Counted, ResultsFollowPlan
<1>. QED
  BY <1>4, <1>5, <1>6, <1>7 DEF CaptureInv

\* A mode is switched, or half switched.
LEMMA SwitchKeeps == ASSUME CaptureInv, SwitchMode \/ SwitchFails PROVE CaptureInv'
<1>1. /\ pc = "loop" /\ next \in 1 .. Len(Plan)
      /\ UNCHANGED <<pc, next, lost, results, cause, vm, files, manifest, exit>>
  BY PlanAssumption DEF CaptureInv, TypeOK, SwitchMode, SwitchFails, AtPair
<1>2. ModeOf(next) \in Modes
  BY <1>1, PlannedPair
<1>3. TypeOK' /\ ModeKnown'
  BY <1>1, <1>2, ZenonT(60) DEF CaptureInv, TypeOK, ModeKnown, SwitchMode, SwitchFails
<1>4. (NotStarted /\ Counted /\ ExitLast /\ VmLife /\ ShotsShowTheirMode)'
  BY <1>1 DEF CaptureInv, NotStarted, Counted, ExitLast, VmLife, ShotsShowTheirMode
<1>5. (ResultsFollowPlan /\ ExitOkMeansCaptured)'
  BY <1>1 DEF CaptureInv, ResultsFollowPlan, ExitOkMeansCaptured
<1>. QED
  BY <1>3, <1>4, <1>5 DEF CaptureInv

\* The manifest and the exit code.
LEMMA WriteKeeps == ASSUME CaptureInv, WriteManifest PROVE CaptureInv'
<1>1. TypeOK'
  BY DEF CaptureInv, TypeOK, WriteManifest, loop, world
<1>2. (NotStarted /\ ModeKnown /\ Counted /\ ExitLast /\ VmLife /\ ShotsShowTheirMode)'
  BY DEF CaptureInv, NotStarted, ModeKnown, Counted, ExitLast, VmLife, ShotsShowTheirMode,
         WriteManifest, loop, world
<1>3. ResultsFollowPlan'
  BY DEF CaptureInv, ResultsFollowPlan, WriteManifest, loop, world
<1>4. ExitOkMeansCaptured'
  <2>. SUFFICES ASSUME Ok
                PROVE  \A i \in 1 .. Len(Plan) : files[Plan[i]] = ModeOf(i)
    BY DEF CaptureInv, VmLife, ExitOkMeansCaptured, WriteManifest, world
  <2>. QED
    BY DEF CaptureInv, ResultsFollowPlan, Ok
<1>. QED
  BY <1>1, <1>2, <1>3, <1>4 DEF CaptureInv

\* The remaining steps only move the run along: no result, no PNG and no mode
\* counts for more after them than before.
Moves ==
  \/ Refuse \/ Accept \/ BootFails \/ Booted \/ DesktopReady \/ DesktopFails \/ AllDone
  \/ StopVm \/ Escape \/ Signal

LEMMA MoveKeeps == ASSUME CaptureInv, Moves PROVE CaptureInv'
<1>1. UNCHANGED <<next, lost, results, files, manifest>>
  BY DEF Moves, Refuse, Accept, BootFails, Booted, DesktopReady, DesktopFails, AllDone,
         StopVm, Escape, Signal, Leave, loop, world
<1>2. pc # "end" /\ exit = "none" /\ exit' \in {"none", "environment", "uncaught"}
      /\ (exit' # "none" => pc' = "end")
  BY DEF CaptureInv, ExitLast, Moves, Refuse, Accept, BootFails, Booted, DesktopReady,
         DesktopFails, AllDone, AtPair, StopVm, Escape, Signal, Leave
<1>3. pc' = "loop" => pc = "desktop" /\ UNCHANGED <<current, modeError, guestMode>>
  BY DEF Moves, Refuse, Accept, BootFails, Booted, DesktopReady, DesktopFails, AllDone,
         StopVm, Escape, Signal, Leave, loop, world
<1>4. TypeOK'
  <2>1. CASE Escape
    <3>1. AtPair => ModeOf(next) \in Modes
      BY PlannedPair DEF CaptureInv, TypeOK, AtPair
    <3>. QED
      BY <1>1, <2>1, <3>1 DEF CaptureInv, TypeOK, Escape, Leave, loop, world,
                             VmAfterFailedEnter
  <2>2. CASE ~Escape
    BY <1>1, <2>2 DEF CaptureInv, TypeOK, Moves, Refuse, Accept, BootFails, Booted,
                      DesktopReady, DesktopFails, AllDone, StopVm, Signal, Leave, loop,
                      world, VmAfterFailedEnter
  <2>. QED
    BY <2>1, <2>2
<1>5. NotStarted'
  <2>1. Len(Plan) \in Nat /\ Len(Plan) >= 1
    BY PlanAssumption
  <2>. QED
    BY <1>1, <2>1 DEF CaptureInv, NotStarted, Moves, Refuse, Accept, BootFails, Booted,
                  DesktopReady, DesktopFails, AllDone, StopVm, Escape, Signal, Leave, loop,
                  world
<1>6. VmLife'
  BY DEF CaptureInv, VmLife, Moves, Refuse, Accept, BootFails, Booted, DesktopReady,
         DesktopFails, AllDone, StopVm, Escape, Signal, Leave, loop, world,
         VmAfterFailedEnter
<1>7. (ModeKnown /\ Counted /\ ExitLast /\ ShotsShowTheirMode /\ ExitOkMeansCaptured)'
  BY <1>1, <1>2, <1>3 DEF CaptureInv, NotStarted, ModeKnown, Counted, ExitLast,
                          ShotsShowTheirMode, ExitOkMeansCaptured
<1>8. ResultsFollowPlan'
  <2>1. pc' \in {"loop", "leaving", "write"} => pc \in {"boot", "desktop", "loop", "leaving"}
    BY DEF Moves, Refuse, Accept, BootFails, Booted, DesktopReady, DesktopFails, AllDone,
           AtPair, StopVm, Escape, Signal, Leave
  <2>. QED
    BY <1>1, <2>1 DEF CaptureInv, NotStarted, ResultsFollowPlan
<1>. QED
  BY <1>4, <1>5, <1>6, <1>7, <1>8 DEF CaptureInv

LEMMA CaptureInvStep == CaptureInv /\ [Next]_vars => CaptureInv'
<1>. SUFFICES ASSUME CaptureInv, [Next]_vars PROVE CaptureInv'
  OBVIOUS
<1>1. CASE UNCHANGED vars
  BY <1>1 DEF vars, loop, world, CaptureInv, TypeOK, NotStarted, ModeKnown, Counted,
              ExitLast, VmLife, ShotsShowTheirMode, ResultsFollowPlan, ExitOkMeansCaptured
<1>2. CASE Next
  BY <1>2, UnlinkKeeps, RunStateKeeps, SkipKeeps, SwitchKeeps, WriteKeeps, MoveKeeps
  DEF Next, Work, Moves
<1>. QED
  BY <1>1, <1>2

-----------------------------------------------------------------------------
(* The theorems.                                                           *)

\* The type invariant: a PNG of this run pictures a mode that was applied.
THEOREM CaptureTypeCorrect == Spec => []TypeOK
<1>1. CaptureInv => TypeOK
  BY DEF CaptureInv
<1>. QED
  BY <1>1, CaptureInitInv, CaptureInvStep, PTL DEF Spec

\* No PNG of a run shows another mode than the one it is filed under.
THEOREM CaptureShotsShowTheirMode == Spec => []ShotsShowTheirMode
<1>1. CaptureInv => ShotsShowTheirMode
  BY DEF CaptureInv
<1>. QED
  BY <1>1, CaptureInitInv, CaptureInvStep, PTL DEF Spec

\* The results name the planned pairs in order, and an "ok" has its PNG.
THEOREM CaptureResultsFollowPlan == Spec => []ResultsFollowPlan
<1>1. CaptureInv => ResultsFollowPlan
  BY DEF CaptureInv
<1>. QED
  BY <1>1, CaptureInitInv, CaptureInvStep, PTL DEF Spec

\* Exit code 0 means a complete run: every PNG, the manifest, and no VM left.
THEOREM CaptureExitOk == Spec => []ExitOkMeansCaptured
<1>1. CaptureInv => ExitOkMeansCaptured
  BY DEF CaptureInv
<1>. QED
  BY <1>1, CaptureInitInv, CaptureInvStep, PTL DEF Spec

\* However a run ends, but by a signal (Vm says which), its VM is stopped.
THEOREM CaptureVmStopped == Spec => []VmStopped
<1>1. CaptureInv => VmStopped
  BY DEF CaptureInv, VmLife, VmStopped
<1>. QED
  BY <1>1, CaptureInitInv, CaptureInvStep, PTL DEF Spec

\* No step asks anything of the guest once the connection to it is lost.
THEOREM CaptureNothingAfterLost == Spec => NothingAfterLost
<1>1. CaptureInv /\ [Next]_vars =>
        [lost => UNCHANGED <<guestMode, files>> /\ lost']_vars
  <2>. SUFFICES ASSUME CaptureInv, Next, lost
                PROVE  UNCHANGED <<guestMode, files>> /\ lost'
    OBVIOUS
  <2>1. pc \notin {"start", "unlink", "boot", "desktop"}
    BY DEF CaptureInv, NotStarted
  <2>. QED
    BY <2>1 DEF Next, Work, Refuse, Accept, Unlink, BootFails, Booted, DesktopReady,
         DesktopFails, SkipLost, SwitchMode, SwitchFails, SwitchLoses, FailWithMode,
         RunState, AllDone, StopVm, WriteManifest, Escape, Signal, Leave, Connected, loop,
         world
<1>. QED
  BY <1>1, CaptureInitInv, CaptureInvStep, PTL DEF Spec, NothingAfterLost

-----------------------------------------------------------------------------
(* installed-verify.                                                       *)

\* What the path that is under way, or was the last one, has to show for an "ok".
Shown(f) == \A i \in 1 .. Len(Plan) : AllShots[f][Plan[i]] = ModeOf(i)
Verified(f) == disks[f] = "installed" /\ matches[f] /\ Shown(f)

\* A path gets its verdict when it is left behind; the last one when all are done.
VerdictsCounted ==
  /\ pc \notin {"write", "end"} => Len(verdicts) = path - 1
  /\ pc = "write" => Len(verdicts) = path /\ path = PathCount
  /\ pc = "end" => Len(verdicts) <= path

VerdictsHold == \A f \in 1 .. Len(verdicts) : verdicts[f] = "ok" => Verified(f)

\* Before the states run nothing is recorded on the path and no mode was applied.
PathNotStarted ==
  pc \in Calling \ {"loop"} => results = <<>> /\ next = 1 /\ current = NoMode

\* `installed` says what the path's disk holds, and is set before the disk is booted.
InstallRecorded ==
  /\ pc \in {"create", "boot", "wizard", "logs"} => ~installed
  /\ pc = "reboot" => installed
  /\ pc \in Calling \cup {"leaving", "compare"} /\ installed => disks[path] = "installed"

\* QEMU lives between the boot of a path and the exit of its with block.
PathVm ==
  pc \in {"start", "unlink", "create", "boot", "compare", "write", "end"} => vm = "off"

InstallInv ==
  /\ InstallTypeOK
  /\ VerdictsCounted
  /\ VerdictsHold
  /\ PathNotStarted
  /\ InstallRecorded
  /\ PathVm
  /\ ModeKnown
  /\ ResultsAreOwn
  /\ DiskIsOwn
  /\ ExitLast
  /\ ExitOkMeansVerified

LEMMA Stages == DOMAIN Preparation = {"stage", "packages", "login", "desktop"}
  BY DEF Preparation

LEMMA StageOrder ==
  \A s \in DOMAIN Preparation : Preparation[s] \in {"packages", "login", "desktop", "loop"}
  BY DEF Preparation

LEMMA InstallInitInv == InstallInit => InstallInv
<1>. SUFFICES ASSUME InstallInit PROVE InstallInv
  OBVIOUS
<1>1. Len(Plan) \in Nat /\ Len(Plan) >= 1 /\ PathCount \in Nat /\ 1 \in Paths
  BY PlanAssumption, PathCountAssumption DEF Paths
<1>2. shots \in [Paths -> [Pairs -> Modes \cup {"none", "old"}]]
  BY DEF InstallInit, Earlier
<1>3. InstallTypeOK
  <2>1. files \in [Pairs -> Modes \cup {"none", "old"}]
    BY <1>1, <1>2 DEF InstallInit
  <2>2. results \in Seq({"ok", "failed"}) /\ verdicts \in Seq({"ok", "failed"})
    BY DEF InstallInit
  <2>3. next \in 1 .. Len(Plan) + 1
    BY <1>1 DEF InstallInit
  <2>4. disks \in [Paths -> {"none", "old", "blank", "installed"}]
    BY DEF InstallInit
  <2>. QED
    BY <1>1, <1>2, <2>1, <2>2, <2>3, <2>4 DEF InstallInit, InstallTypeOK
<1>4. VerdictsCounted /\ VerdictsHold
  BY <1>1 DEF InstallInit, VerdictsCounted, VerdictsHold
<1>5. PathNotStarted /\ InstallRecorded /\ PathVm /\ ModeKnown
  BY Stages DEF InstallInit, PathNotStarted, InstallRecorded, PathVm, ModeKnown, Calling
<1>6. ResultsAreOwn /\ DiskIsOwn /\ ExitLast /\ ExitOkMeansVerified
  BY DEF InstallInit, ResultsAreOwn, DiskIsOwn, ExitLast, ExitOkMeansVerified
<1>. QED
  BY <1>3, <1>4, <1>5, <1>6 DEF InstallInv

-----------------------------------------------------------------------------
(* The steps of one firmware path.                                         *)

\* What an earlier path was found to hold stays true while a later one changes its
\* own disk and its own pictures.
LEMMA EarlierPathsKept ==
  ASSUME InstallInv, pc \notin {"write", "end"},
         UNCHANGED <<path, shots, matches, verdicts>>,
         \A f \in Paths \ {path} : disks'[f] = disks[f]
  PROVE  VerdictsHold'
<1>. SUFFICES ASSUME NEW f \in 1 .. Len(verdicts), verdicts[f] = "ok"
              PROVE  Verified(f)'
  BY DEF VerdictsHold
<1>1. f \in Paths \ {path} /\ path \in Paths
  BY PathCountAssumption DEF InstallInv, InstallTypeOK, VerdictsCounted, Paths
<1>2. Verified(f)
  BY DEF InstallInv, VerdictsHold
<1>3. AllShots[f] = shots[f] /\ AllShots'[f] = shots'[f]
  BY <1>1 DEF AllShots, InstallInv, InstallTypeOK
<1>. QED
  BY <1>1, <1>2, <1>3 DEF Verified, Shown

LEMMA CleanKeeps == ASSUME InstallInv, CleanPath PROVE InstallInv'
<1>1. InstallTypeOK'
  <2>1. 1 \in 1 .. Len(Plan) + 1
    BY PlanAssumption
  <2>2. results' \in Seq({"ok", "failed"})
    BY DEF CleanPath, NoResults
  <2>3. files' \in [Pairs -> Modes \cup {"none", "old"}]
    BY DEF CleanPath
  <2>. QED
    BY <2>1, <2>2, <2>3 DEF InstallInv, InstallTypeOK, CleanPath, outcomes, Calling
<1>2. VerdictsHold'
  BY EarlierPathsKept DEF InstallInv, InstallTypeOK, CleanPath, outcomes
<1>3. (VerdictsCounted /\ InstallRecorded /\ PathVm /\ ModeKnown)'
  BY DEF InstallInv, InstallTypeOK, VerdictsCounted, InstallRecorded, PathVm, ModeKnown,
         CleanPath, outcomes
<1>4. (PathNotStarted /\ ResultsAreOwn /\ DiskIsOwn)'
  BY DEF InstallInv, PathNotStarted, ResultsAreOwn, DiskIsOwn, PathVm, CleanPath, NoResults
<1>5. (ExitLast /\ ExitOkMeansVerified)'
  BY DEF InstallInv, ExitLast, ExitOkMeansVerified, CleanPath
<1>. QED
  BY <1>1, <1>2, <1>3, <1>4, <1>5 DEF InstallInv

\* The steps from the disk to the desktop.
LEMMA SetUpKeeps ==
  ASSUME InstallInv, CreateDisk \/ BootLive \/ Install \/ BootDisk \/ Prepare
  PROVE  InstallInv'
<1>1. /\ UNCHANGED <<next, current, modeError, lost, results, cause, guestMode, files,
                     manifest, exit, path, shots, matches, verdicts>>
      /\ pc \in Calling \ {"loop", "logs"}
      /\ pc' \in Calling \ {"logs"}
  BY Stages, StageOrder
  DEF CreateDisk, BootLive, Install, BootDisk, Prepare, Calling, loop, world, outcomes
<1>2. pc \notin {"start", "unlink", "leaving", "compare", "write", "end", "loop"}
      /\ pc' \notin {"start", "unlink", "leaving", "compare", "write", "end", "create"}
  BY Stages, StageOrder
  DEF CreateDisk, BootLive, Install, BootDisk, Prepare, Calling
<1>3. /\ disks' \in [Paths -> {"none", "old", "blank", "installed"}]
      /\ \A f \in Paths \ {path} : disks'[f] = disks[f]
      /\ installed' \in BOOLEAN /\ vm' \in {"off", "live", "disk"}
  BY DEF InstallInv, InstallTypeOK, CreateDisk, BootLive, Install, BootDisk, Prepare, entry,
         world
<1>4. InstallTypeOK'
  BY <1>1, <1>3 DEF InstallInv, InstallTypeOK
<1>5. VerdictsHold'
  BY <1>1, <1>2, <1>3, EarlierPathsKept
<1>6. (VerdictsCounted /\ PathNotStarted /\ ModeKnown /\ ResultsAreOwn)'
  BY <1>1, <1>2 DEF InstallInv, VerdictsCounted, PathNotStarted, ModeKnown, ResultsAreOwn
<1>7. (InstallRecorded /\ PathVm /\ DiskIsOwn)'
  <2>1. path \in Paths /\ disks \in [Paths -> {"none", "old", "blank", "installed"}]
    BY DEF InstallInv, InstallTypeOK
  <2>. QED
    BY <1>1, <1>2, <2>1, Stages, StageOrder
    DEF InstallInv, InstallRecorded, PathVm, DiskIsOwn, Calling, CreateDisk, BootLive,
        Install, BootDisk, Prepare, entry, world
<1>8. (ExitLast /\ ExitOkMeansVerified)'
  BY <1>1, <1>2 DEF InstallInv, ExitLast, ExitOkMeansVerified
<1>. QED
  BY <1>4, <1>5, <1>6, <1>7, <1>8 DEF InstallInv

-----------------------------------------------------------------------------
(* The states of the plan on one path.                                     *)

\* What the steps of the loop leave alone.
LEMMA LoopFrame ==
  ASSUME InstallInv, AtPair, UNCHANGED <<vm, manifest, exit, entry, outcomes>>, pc' = pc
  PROVE  /\ VerdictsHold' /\ VerdictsCounted' /\ PathNotStarted' /\ InstallRecorded'
         /\ PathVm' /\ DiskIsOwn' /\ ExitLast' /\ ExitOkMeansVerified'
<1>1. pc = "loop" /\ UNCHANGED <<disks, installed, path, shots, matches, verdicts>>
  BY DEF AtPair, entry, outcomes
<1>2. VerdictsHold'
  BY <1>1, EarlierPathsKept
<1>3. VerdictsCounted' /\ PathNotStarted' /\ InstallRecorded'
  BY <1>1 DEF InstallInv, VerdictsCounted, PathNotStarted, InstallRecorded
<1>4. PathVm' /\ DiskIsOwn'
  BY <1>1 DEF InstallInv, PathVm, DiskIsOwn
<1>5. ExitLast' /\ ExitOkMeansVerified'
  BY <1>1 DEF InstallInv, ExitLast, ExitOkMeansVerified
<1>. QED
  BY <1>2, <1>3, <1>4, <1>5

LEMMA AtPlannedPair ==
  ASSUME InstallInv, AtPair
  PROVE  /\ next \in 1 .. Len(Plan) /\ Len(Plan) \in Nat /\ pc = "loop"
         /\ results \in Seq({"ok", "failed"}) /\ Len(results) = next - 1
         /\ Plan[next] \in Pairs /\ ModeOf(next) \in Modes
<1>1. next \in 1 .. Len(Plan) /\ Len(Plan) \in Nat /\ pc = "loop"
  BY PlanAssumption DEF AtPair, InstallInv, InstallTypeOK
<1>2. results \in Seq({"ok", "failed"}) /\ Len(results) = next - 1
  BY <1>1 DEF InstallInv, InstallTypeOK, ResultsAreOwn
<1>. QED
  BY <1>1, <1>2, PlannedPair

\* The only step that writes a picture.
LEMMA PathStateKeeps ==
  ASSUME InstallInv, NEW outcome \in {"ok", "failed", "lost"}, RunState(outcome),
         UNCHANGED <<entry, outcomes>>
  PROVE  InstallInv'
<1>. DEFINE verdict == IF outcome = "ok" THEN "ok" ELSE "failed"
<1>1. AtPair
  BY DEF RunState
<1>2. guestMode = ModeOf(next)
  BY <1>1, AtPlannedPair, ModesAssumption
  DEF InstallInv, ModeKnown, RunState, Connected, EntersMode, ModeInPlace
<1>3. /\ results' = Append(results, verdict)
      /\ files' \in {files, [files EXCEPT ![Plan[next]] = ModeOf(next)]}
      /\ outcome = "ok" => files' = [files EXCEPT ![Plan[next]] = ModeOf(next)]
      /\ next' = next + 1
  BY <1>2 DEF RunState, Recorded
<1>4. files \in [Pairs -> Modes \cup {"none", "old"}]
  BY DEF InstallInv, InstallTypeOK
<1>5. InstallTypeOK'
  <2>1. results' \in Seq({"ok", "failed"}) /\ next' \in 1 .. Len(Plan) + 1
    BY <1>1, <1>3, AtPlannedPair
  <2>2. files' \in [Pairs -> Modes \cup {"none", "old"}]
    BY <1>1, <1>3, <1>4, AtPlannedPair
  <2>. QED
    BY <2>1, <2>2 DEF InstallInv, InstallTypeOK, RunState, entry, outcomes
<1>6. ModeKnown'
  BY DEF InstallInv, ModeKnown, RunState, Connected
<1>7. ASSUME NEW i \in 1 .. Len(results'), results'[i] = "ok"
      PROVE  files'[Plan[i]] = ModeOf(i)
  <2>1. CASE i = next
    <3>1. outcome = "ok"
      BY <1>1, <1>3, <1>7, <2>1, AtPlannedPair
    <3>. QED
      BY <1>1, <1>3, <1>4, <2>1, <3>1, AtPlannedPair
  <2>2. CASE i # next
    <3>1. i \in 1 .. Len(results) /\ i \in 1 .. Len(Plan)
      BY <1>1, <1>3, <2>2, AtPlannedPair
    <3>2. results[i] = "ok"
      BY <1>1, <1>3, <1>7, <3>1, AtPlannedPair
    <3>3. files[Plan[i]] = ModeOf(i)
      BY <1>1, <3>1, <3>2, AtPlannedPair DEF InstallInv, ResultsAreOwn
    <3>4. Plan[i] # Plan[next] /\ Plan[i] \in Pairs
      BY <1>1, <2>2, <3>1, PlanAssumption, PlannedPair, AtPlannedPair
    <3>. QED
      BY <1>1, <1>3, <1>4, <3>3, <3>4, AtPlannedPair
  <2>. QED
    BY <2>1, <2>2
<1>8. ResultsAreOwn'
  BY <1>1, <1>3, <1>7, AtPlannedPair DEF ResultsAreOwn
<1>9. pc' = pc /\ UNCHANGED <<vm, manifest, exit>>
  BY DEF RunState
<1>. QED
  BY <1>1, <1>5, <1>6, <1>8, <1>9, LoopFrame DEF InstallInv

\* A pair that is recorded as failed without being run.
LEMMA PathSkipKeeps ==
  ASSUME InstallInv, SkipLost \/ FailWithMode \/ SwitchLoses, UNCHANGED <<entry, outcomes>>
  PROVE  InstallInv'
<1>1. AtPair
  BY DEF SkipLost, FailWithMode, SwitchLoses
<1>2. /\ results' = Append(results, "failed") /\ next' = next + 1
      /\ UNCHANGED <<pc, cause, vm, files, manifest, exit>>
  BY DEF SkipLost, FailWithMode, SwitchLoses, Recorded, world
<1>3. InstallTypeOK'
  <2>1. results' \in Seq({"ok", "failed"}) /\ next' \in 1 .. Len(Plan) + 1
    BY <1>1, <1>2, AtPlannedPair
  <2>2. /\ current' \in Modes \cup {NoMode} /\ guestMode' \in Modes \cup {NoMode}
        /\ {modeError', lost'} \subseteq BOOLEAN
    BY <1>1, AtPlannedPair
    DEF InstallInv, InstallTypeOK, SkipLost, FailWithMode, SwitchLoses, world
  <2>. QED
    BY <1>2, <2>1, <2>2 DEF InstallInv, InstallTypeOK, entry, outcomes
<1>4. ModeKnown'
  BY DEF InstallInv, ModeKnown, SkipLost, FailWithMode, SwitchLoses, world
<1>5. ResultsAreOwn'
  BY <1>1, <1>2, AtPlannedPair DEF InstallInv, ResultsAreOwn
<1>. QED
  BY <1>1, <1>2, <1>3, <1>4, <1>5, LoopFrame DEF InstallInv

\* A mode is switched, or half switched.
LEMMA PathSwitchKeeps ==
  ASSUME InstallInv, SwitchMode \/ SwitchFails, UNCHANGED <<entry, outcomes>>
  PROVE  InstallInv'
<1>1. /\ AtPair
      /\ UNCHANGED <<pc, next, lost, results, cause, vm, files, manifest, exit>>
  BY DEF SwitchMode, SwitchFails
<1>2. InstallTypeOK' /\ ModeKnown'
  <2>1. CASE SwitchMode
    BY <1>1, <2>1, AtPlannedPair
    DEF InstallInv, InstallTypeOK, ModeKnown, SwitchMode, entry, outcomes
  <2>2. CASE SwitchFails
    BY <1>1, <2>2, AtPlannedPair
    DEF InstallInv, InstallTypeOK, ModeKnown, SwitchFails, entry, outcomes
  <2>3. QED
    BY <2>1, <2>2
<1>3. ResultsAreOwn'
  BY <1>1 DEF InstallInv, ResultsAreOwn
<1>. QED
  BY <1>1, <1>2, <1>3, LoopFrame DEF InstallInv

-----------------------------------------------------------------------------
(* Leaving a path, and the verdicts.                                       *)

\* Every way out: the results, the pictures and the disk stay as they are.
Leaves ==
  \/ Check \/ (AllDone /\ UNCHANGED <<entry, outcomes>>)
  \/ PathFails \/ InstallFails \/ PullLogs \/ Escapes \/ StatesFail \/ Interrupt
  \/ LeavePath \/ FileFails

LEMMA LeavesKeep == ASSUME InstallInv, Leaves PROVE InstallInv'
<1>1. UNCHANGED <<next, lost, results, files, manifest, disks, installed, path, shots,
                  matches, verdicts>>
  BY DEF Leaves, Check, Refuse, Accept, AllDone, PathFails, InstallFails, PullLogs, Escapes,
         StatesFail, Interrupt, LeavePath, FileFails, Leave, LeaveWith, loop, world, entry,
         outcomes
<1>2. /\ pc # "end" /\ (pc = "write" => pc' = "end")
      /\ pc' \in {"logs", "unlink", "leaving", "compare", "end"}
      /\ pc' = "logs" => pc = "wizard" /\ current' = current
      /\ pc' \in {"leaving", "compare"} => pc \in Calling \cup {"leaving"}
  BY Stages
  DEF Leaves, Check, Refuse, Accept, AllDone, AtPair, PathFails, InstallFails, PullLogs,
      AfterLogs, Escapes, StatesFail, Interrupt, LeavePath, FileFails, Leave, LeaveWith,
      loop, Calling
<1>3. /\ exit' # exit => pc' = "end" /\ exit' # "ok"
      /\ exit' \in {"none", "ok", "failed", "environment", "uncaught"}
      /\ cause' \in {"none", "done", "error", "escape", "signal"}
      /\ vm' \in {vm, "off"} /\ (vm' # "off" => pc' \in {"logs", "leaving"})
  BY Stages
  DEF InstallInv, InstallTypeOK, PathVm, Leaves, Check, Refuse, Accept, AllDone, AtPair,
      PathFails, InstallFails, PullLogs, AfterLogs, Escapes, StatesFail, Interrupt, LeavePath,
      FileFails, Leave, LeaveWith, loop, world, Calling
<1>4. InstallTypeOK'
  <2>1. /\ current' \in Modes \cup {NoMode} /\ guestMode' \in Modes \cup {NoMode}
        /\ modeError' \in BOOLEAN
    BY AtPlannedPair
    DEF InstallInv, InstallTypeOK, Leaves, Check, Refuse, Accept, AllDone, PathFails,
        InstallFails, PullLogs, Escapes, StatesFail, Interrupt, LeavePath, FileFails, Leave,
        LeaveWith, loop, world
  <2>. QED
    BY <1>1, <1>2, <1>3, <2>1 DEF InstallInv, InstallTypeOK, Calling
<1>5. VerdictsHold' /\ VerdictsCounted'
  BY <1>1, <1>2, PathCountAssumption
  DEF InstallInv, InstallTypeOK, Paths, VerdictsHold, VerdictsCounted, Verified, Shown,
      AllShots
<1>6. PathNotStarted' /\ InstallRecorded'
  BY <1>1, <1>2, Stages DEF InstallInv, PathNotStarted, InstallRecorded, Calling
<1>7. PathVm' /\ DiskIsOwn' /\ ModeKnown'
  BY <1>1, <1>2, <1>3 DEF InstallInv, PathVm, DiskIsOwn, ModeKnown
<1>8. ResultsAreOwn'
  BY <1>1, <1>2 DEF InstallInv, ResultsAreOwn, PathNotStarted
<1>9. ExitLast' /\ ExitOkMeansVerified'
  BY <1>2, <1>3 DEF InstallInv, ExitLast, ExitOkMeansVerified
<1>. QED
  BY <1>4, <1>5, <1>6, <1>7, <1>8, <1>9 DEF InstallInv

\* A path is left behind with its verdict.
LEMMA CompareKeeps == ASSUME InstallInv, ComparePath PROVE InstallInv'
<1>. DEFINE verdict == IF PathOk THEN "ok" ELSE "failed"
<1>1. /\ path \in Paths /\ PathCount \in Nat /\ path \in 1 .. PathCount
      /\ verdicts \in Seq({"ok", "failed"}) /\ Len(verdicts) = path - 1
      /\ verdicts' = Append(verdicts, verdict)
      /\ shots' = [shots EXCEPT ![path] = files]
      /\ shots \in [Paths -> [Pairs -> Modes \cup {"none", "old"}]]
      /\ files \in [Pairs -> Modes \cup {"none", "old"}]
      /\ pc = "compare" /\ vm = "off" /\ exit = "none"
      /\ UNCHANGED <<disks, matches, installed>>
  BY PathCountAssumption
  DEF InstallInv, InstallTypeOK, VerdictsCounted, PathVm, ExitLast, ComparePath, Paths, entry
<1>2. \/ path < PathCount /\ path' = path + 1 /\ pc' = "unlink" /\ files' = shots[path + 1]
      \/ path = PathCount /\ path' = path /\ pc' = "write" /\ files' = files
  BY <1>1 DEF ComparePath
<1>3. ASSUME NEW f \in 1 .. path PROVE AllShots'[f] = AllShots[f]
  <2>1. AllShots[f] = IF f = path THEN files ELSE shots[f]
    BY <1>1 DEF AllShots, Paths
  <2>2. CASE path < PathCount
    BY <1>1, <1>2, <2>1, <2>2 DEF AllShots, Paths
  <2>3. CASE path = PathCount
    BY <1>1, <1>2, <2>1, <2>3 DEF AllShots, Paths
  <2>. QED
    BY <1>1, <2>2, <2>3
<1>4. ASSUME PathOk PROVE Verified(path)
  <2>1. disks[path] = "installed" /\ matches[path]
    BY <1>1, <1>4 DEF PathOk, InstallInv, InstallRecorded
  <2>2. \A i \in 1 .. Len(Plan) : files[Plan[i]] = ModeOf(i)
    BY <1>1, <1>4 DEF PathOk, InstallInv, ResultsAreOwn
  <2>3. AllShots[path] = files
    BY <1>1 DEF AllShots
  <2>. QED
    BY <2>1, <2>2, <2>3 DEF Verified, Shown
<1>5. VerdictsHold'
  <2>. SUFFICES ASSUME NEW f \in 1 .. Len(verdicts'), verdicts'[f] = "ok"
                PROVE  Verified(f)'
    BY DEF VerdictsHold
  <2>1. f \in 1 .. path
    BY <1>1
  <2>2. Verified(f)
    <3>1. CASE f = path
      BY <1>1, <1>4, <3>1
    <3>2. CASE f # path
      BY <1>1, <2>1, <3>2 DEF InstallInv, VerdictsHold
    <3>. QED
      BY <3>1, <3>2
  <2>. QED
    BY <1>1, <1>3, <2>1, <2>2 DEF Verified, Shown
<1>6. InstallTypeOK'
  <2>1. /\ files' \in [Pairs -> Modes \cup {"none", "old"}] /\ path' \in Paths
        /\ shots' \in [Paths -> [Pairs -> Modes \cup {"none", "old"}]]
        /\ verdicts' \in Seq({"ok", "failed"})
    BY <1>1, <1>2 DEF Paths
  <2>. QED
    BY <1>2, <2>1 DEF InstallInv, InstallTypeOK, ComparePath, loop, entry
<1>7. VerdictsCounted'
  BY <1>1, <1>2 DEF VerdictsCounted
<1>8. (PathNotStarted /\ InstallRecorded /\ PathVm)'
  BY <1>1, <1>2, Stages DEF PathNotStarted, InstallRecorded, PathVm, Calling, ComparePath
<1>9. (ModeKnown /\ ResultsAreOwn /\ DiskIsOwn /\ ExitLast /\ ExitOkMeansVerified)'
  BY <1>1, <1>2
  DEF ModeKnown, ResultsAreOwn, DiskIsOwn, ExitLast, ExitOkMeansVerified, ComparePath
<1>. QED
  BY <1>5, <1>6, <1>7, <1>8, <1>9 DEF InstallInv

\* The manifest and the exit code, when every path has its verdict.
LEMMA ReportKeeps == ASSUME InstallInv, WriteReport PROVE InstallInv'
<1>1. /\ UNCHANGED <<next, current, modeError, lost, results, cause, vm, guestMode, files,
                     disks, installed, path, shots, matches, verdicts>>
      /\ pc = "write" /\ pc' = "end" /\ manifest' = "new" /\ vm = "off"
      /\ Len(verdicts) = PathCount /\ path = PathCount
      /\ exit' = IF OverallOk THEN "ok" ELSE "failed"
  BY DEF WriteReport, InstallInv, VerdictsCounted, PathVm, loop, world, entry, outcomes
<1>2. InstallTypeOK'
  BY <1>1 DEF InstallInv, InstallTypeOK
<1>3. ExitOkMeansVerified'
  <2>. SUFFICES ASSUME OverallOk, NEW f \in Paths PROVE Verified(f)
    BY <1>1 DEF ExitOkMeansVerified, Verified, Shown, AllShots
  <2>1. f \in 1 .. Len(verdicts)
    BY <1>1 DEF Paths
  <2>. QED
    BY <2>1 DEF OverallOk, InstallInv, VerdictsHold
<1>4. (VerdictsCounted /\ VerdictsHold)'
  BY <1>1, PathCountAssumption
  DEF InstallInv, VerdictsCounted, VerdictsHold, Verified, Shown, AllShots
<1>5. (PathNotStarted /\ InstallRecorded /\ PathVm /\ ModeKnown)'
  BY <1>1, Stages DEF PathNotStarted, InstallRecorded, PathVm, ModeKnown, Calling
<1>6. (ResultsAreOwn /\ DiskIsOwn /\ ExitLast)'
  BY <1>1 DEF ResultsAreOwn, DiskIsOwn, ExitLast
<1>. QED
  BY <1>2, <1>3, <1>4, <1>5, <1>6 DEF InstallInv

LEMMA InstallInvStep == InstallInv /\ [InstallNext]_allVars => InstallInv'
<1>. SUFFICES ASSUME InstallInv, [InstallNext]_allVars PROVE InstallInv'
  OBVIOUS
<1>1. CASE UNCHANGED allVars
  BY <1>1
  DEF allVars, vars, loop, world, entry, outcomes, InstallInv, InstallTypeOK, VerdictsCounted,
      VerdictsHold, Verified, Shown, AllShots, PathNotStarted, InstallRecorded, PathVm,
      ModeKnown, ResultsAreOwn, DiskIsOwn, ExitLast, ExitOkMeansVerified
<1>2. CASE RunStates
  <2>1. CASE AllDone /\ UNCHANGED <<entry, outcomes>>
    BY <2>1, LeavesKeep DEF Leaves
  <2>. QED
    BY <1>2, <2>1, PathSkipKeeps, PathSwitchKeeps, PathStateKeeps DEF RunStates
<1>3. CASE Leaves
  BY <1>3, LeavesKeep
<1>4. CASE CreateDisk \/ BootLive \/ Install \/ BootDisk \/ Prepare
  BY <1>4, SetUpKeeps
<1>5. CASE CleanPath \/ ComparePath \/ WriteReport
  BY <1>5, CleanKeeps, CompareKeeps, ReportKeeps
<1>. QED
  BY <1>1, <1>2, <1>3, <1>4, <1>5 DEF InstallNext, InstallWork, Leaves

-----------------------------------------------------------------------------
(* The theorems.                                                           *)

\* The type invariant, for every number of paths and every plan.
THEOREM InstallRunTypeCorrect == InstallSpec => []InstallTypeOK
<1>1. InstallInv => InstallTypeOK
  BY DEF InstallInv
<1>. QED
  BY <1>1, InstallInitInv, InstallInvStep, PTL DEF InstallSpec

\* Exit code 0 means that every selected firmware path was installed, photographed in
\* full by this run and matched, whatever failed on the way of any of them.
THEOREM InstallRunExitOk == InstallSpec => []ExitOkMeansVerified
<1>1. InstallInv => ExitOkMeansVerified
  BY DEF InstallInv
<1>. QED
  BY <1>1, InstallInitInv, InstallInvStep, PTL DEF InstallSpec

\* No disk, result or picture of one firmware path counts for another's verdict.
THEOREM InstallRunPathsAreSeparate == InstallSpec => []PathsAreSeparate
<1>1. InstallInv => PathsAreSeparate
  BY DEF InstallInv, PathsAreSeparate, OkIsOwn, VerdictsHold, Verified, Shown
<1>. QED
  BY <1>1, InstallInitInv, InstallInvStep, PTL DEF InstallSpec

-----------------------------------------------------------------------------
(* run_stock.                                                              *)

StockTypeOK ==
  /\ at \in {"start", "boot", "desktop", "product", "revert", "read", "states", "leaving",
             "write", "end"}
  /\ command \in Nat
  /\ session \in [Settings -> {"product", "stock"}]
  /\ named \in BOOLEAN
  /\ pictures \in [Chosen -> {"none", "old", "product", "stock"}]
  /\ why \in {"none", "done", "environment", "uncaught"}

BeforeStates == {"start", "boot", "desktop", "product", "revert", "read"}

\* What has been read back is evidence against the session or stock for good.
ReadMeansStock ==
  /\ at \in {"revert", "read", "states"} => named
  /\ at = "read" => \A s \in ReadBack \ left : s \in evidence \/ session[s] = "stock"
  /\ at = "states" => \A s \in ReadBack : session[s] = "stock"

StockProgress ==
  /\ at \in BeforeStates => oks = {} /\ why = "none"
  /\ at = "states" => why = "none"
  /\ at \in {"read", "states"} \/ why = "done" => command > Len(RevertPlan)
  /\ at \in {"write"} => qemu = "off"
  /\ status = "ok" =>
       at = "end" /\ why = "done" /\ oks = Chosen /\ report = "new" /\ qemu = "off"

OksAreStock == \A p \in oks : p \in Chosen /\ pictures[p] = "stock"
NoneIsProduct == \A p \in Chosen : pictures[p] # "product"

StockInv ==
  StockTypeOK /\ ReadMeansStock /\ StockProgress /\ OksAreStock /\ NoneIsProduct

LEMMA RevertPlanHasFour == Len(RevertPlan) = 4 /\ Len(RevertPlan) \in Nat
BY DEF RevertPlan

LEMMA StockInitial == StockInit => StockInv
<1> SUFFICES ASSUME StockInit PROVE StockInv
  OBVIOUS
<1>1. StockTypeOK
  BY DEF StockInit, StockTypeOK
<1>2. ReadMeansStock /\ StockProgress /\ OksAreStock /\ NoneIsProduct
  BY DEF StockInit, ReadMeansStock, StockProgress, OksAreStock, NoneIsProduct
<1>3. QED
  BY <1>1, <1>2 DEF StockInv

\* A reset that comes about, or a command that is run, only ever takes a setting to stock.
LEMMA SessionMoves ==
  ASSUME StockInv, session' \in [Settings -> {"product", "stock"}],
         \A s \in Settings : session[s] = "stock" => session'[s] = "stock",
         command' \in Nat, command' >= command, named' = named,
         UNCHANGED <<at, left, evidence, gone, oks, why, qemu, pictures, report, status>>
  PROVE  StockInv'
<1>1. StockTypeOK'
  BY DEF StockInv, StockTypeOK
<1>2. ReadMeansStock'
  BY DEF StockInv, ReadMeansStock, ReadBack, Settings
<1>3. StockProgress'
  BY RevertPlanHasFour DEF StockInv, StockTypeOK, StockProgress
<1>4. OksAreStock' /\ NoneIsProduct'
  BY DEF StockInv, OksAreStock, NoneIsProduct
<1>5. QED
  BY <1>1, <1>2, <1>3, <1>4 DEF StockInv

\* Leaving the with block, at any place, for any cause but "done".
LEMMA LeavingKeeps ==
  ASSUME StockInv, at' = "leaving", why' \in {"environment", "uncaught"}, at # "end",
         UNCHANGED <<command, oks, qemu, session, named, pictures, report, status>>
  PROVE  StockInv'
BY DEF StockInv, StockTypeOK, ReadMeansStock, StockProgress, OksAreStock, NoneIsProduct,
       BeforeStates

LEMMA GoOnKeeps ==
  ASSUME StockInv, NEW from \in {"boot", "desktop"}, NEW to \in {"desktop", "product"},
         GoOn(from, to)
  PROVE  StockInv'
BY DEF GoOn, guest, StockInv, StockTypeOK, ReadMeansStock, StockProgress, OksAreStock,
       NoneIsProduct, BeforeStates

LEMMA ProductCheckedKeeps == ASSUME StockInv, ProductChecked PROVE StockInv'
BY DEF ProductChecked, BuiltAsNamed, GoOn, guest, StockInv, StockTypeOK, ReadMeansStock,
       StockProgress, OksAreStock, NoneIsProduct, BeforeStates

LEMMA RunCommandKeeps ==
  ASSUME StockInv, NEW now \in SUBSET Settings, NEW later \in SUBSET Settings,
         RunCommand(now, later)
  PROVE  StockInv'
<1>1. session' \in [Settings -> {"product", "stock"}]
      /\ \A s \in Settings : session[s] = "stock" => session'[s] = "stock"
  BY DEF RunCommand, StockInv, StockTypeOK
<1>2. command' \in Nat /\ command' >= command
  BY DEF RunCommand, StockInv, StockTypeOK
<1>3. QED
  BY <1>1, <1>2, SessionMoves DEF RunCommand

LEMMA LandKeeps == ASSUME StockInv, NEW s \in Settings, Land(s) PROVE StockInv'
<1>1. session' \in [Settings -> {"product", "stock"}]
      /\ \A t \in Settings : session[t] = "stock" => session'[t] = "stock"
  BY DEF Land, StockInv, StockTypeOK
<1>2. command' \in Nat /\ command' >= command
  BY DEF Land, StockInv, StockTypeOK
<1>3. QED
  BY <1>1, <1>2, SessionMoves DEF Land

\* What is done at the start touches the pictures, of which none is this run's yet.
LEMMA StartKeeps ==
  ASSUME StockInv, at = "start", at' \in {"boot", "end"}, status' # "ok",
         pictures' \in [Chosen -> {"none", "old", "product", "stock"}],
         \A p \in Chosen : pictures'[p] \in {"none", pictures[p]},
         UNCHANGED <<command, oks, why, session, named>>
  PROVE  StockInv'
BY DEF StockInv, StockTypeOK, ReadMeansStock, StockProgress, OksAreStock,
       NoneIsProduct, BeforeStates

LEMMA ReadSettingKeeps ==
  ASSUME StockInv, NEW s \in Settings, ReadSetting(s) PROVE StockInv'
<1> USE DEF ReadSetting, guest
<1>1. StockTypeOK'
  BY DEF StockInv, StockTypeOK
<1>2. ReadMeansStock'
  <2>1. named /\ at = "read"
    BY DEF StockInv, ReadMeansStock
  <2>2. ASSUME NEW t \in ReadBack \ left' PROVE t \in evidence' \/ session[t] = "stock"
    <3>1. CASE t = s
      BY <2>1, <3>1 DEF StockInv, StockTypeOK
    <3>2. CASE t # s
      BY <2>2, <3>2 DEF StockInv, ReadMeansStock
    <3>3. QED
      BY <3>1, <3>2
  <2>3. QED
    BY <2>1, <2>2 DEF ReadMeansStock
<1>3. StockProgress' /\ OksAreStock' /\ NoneIsProduct'
  BY DEF StockInv, StockProgress, OksAreStock, NoneIsProduct, BeforeStates
<1>4. QED
  BY <1>1, <1>2, <1>3 DEF StockInv

LEMMA StockStateKeeps ==
  ASSUME StockInv, NEW p \in Chosen, NEW outcome \in {"ok", "failed", "lost"},
         StockState(p, outcome)
  PROVE  StockInv'
<1> USE DEF StockState, guest
<1>1. Look = "stock"
  BY DEF StockInv, ReadMeansStock, Look
<1>2. \/ pictures' = [pictures EXCEPT ![p] = "stock"]
      \/ pictures' = pictures /\ outcome # "ok"
  BY <1>1
<1>3. StockTypeOK'
  BY <1>2 DEF StockInv, StockTypeOK
<1>4. ReadMeansStock' /\ StockProgress'
  BY DEF StockInv, ReadMeansStock, StockProgress, BeforeStates
<1>5. OksAreStock' /\ NoneIsProduct'
  <2>1. CASE pictures' = [pictures EXCEPT ![p] = "stock"]
    <3>1. \A q \in Chosen : pictures'[q] = IF q = p THEN "stock" ELSE pictures[q]
      BY <2>1 DEF StockInv, StockTypeOK
    <3>2. oks' \subseteq oks \cup {p}
      OBVIOUS
    <3>3. QED
      BY <3>1, <3>2 DEF StockInv, OksAreStock, NoneIsProduct
  <2>2. CASE pictures' = pictures /\ outcome # "ok"
    BY <2>2 DEF StockInv, OksAreStock, NoneIsProduct
  <2>3. QED
    BY <1>2, <2>1, <2>2
<1>6. QED
  BY <1>3, <1>4, <1>5 DEF StockInv

\* The steps that touch neither the session nor the pictures.
LEMMA OtherStepsKeep ==
  ASSUME StockInv,
         \/ StockSettles \/ Proven \/ StockSkips \/ StatesDone \/ StockStops \/ StockReports
  PROVE  StockInv'
<1> USE DEF guest
<1>1. CASE StockSettles
  BY <1>1 DEF StockSettles, StockInv, StockTypeOK, ReadMeansStock, StockProgress,
     OksAreStock, NoneIsProduct, BeforeStates
<1>2. CASE Proven
  BY <1>2 DEF Proven, ProvenStock, StockInv, StockTypeOK, ReadMeansStock, StockProgress,
     OksAreStock, NoneIsProduct, BeforeStates
<1>3. CASE StockSkips
  BY <1>3 DEF StockSkips, StockInv, StockTypeOK, ReadMeansStock, StockProgress,
     OksAreStock, NoneIsProduct, BeforeStates
<1>4. CASE StatesDone
  BY <1>4 DEF StatesDone, StockLeaves, StockInv, StockTypeOK, ReadMeansStock, StockProgress,
     OksAreStock, NoneIsProduct, BeforeStates
<1>5. CASE StockStops
  <2>1. at = "leaving" /\ at' \in {"end", "write"} /\ qemu' = "off" /\ status' \in {status, "uncaught"}
        /\ UNCHANGED <<command, left, evidence, gone, oks, why, session, named, pictures, report>>
    BY <1>5 DEF StockStops
  <2>2. QED
    BY <2>1 DEF StockInv, StockTypeOK, ReadMeansStock, StockProgress,
       OksAreStock, NoneIsProduct, BeforeStates
<1>6. CASE StockReports
  <2>1. at = "write" /\ at' = "end" /\ report' = "new"
        /\ UNCHANGED <<command, left, evidence, gone, oks, why, qemu, session, named, pictures>>
    BY <1>6 DEF StockReports
  <2>2. status' = "ok" => why = "done" /\ oks = Chosen
    BY <1>6 DEF StockReports, StockOk
  <2>3. QED
    BY <2>1, <2>2 DEF StockInv, StockTypeOK, ReadMeansStock, StockProgress,
       OksAreStock, NoneIsProduct, BeforeStates
<1>7. QED
  BY <1>1, <1>2, <1>3, <1>4, <1>5, <1>6

LEMMA StockFailuresKeep ==
  ASSUME StockInv,
         \/ \E later \in SUBSET Settings : CommandFails(later)
         \/ NotProven \/ StockProblem \/ StockEscapes
  PROVE  StockInv'
<1>1. at' = "leaving" /\ why' \in {"environment", "uncaught"} /\ at # "end"
      /\ UNCHANGED <<command, oks, qemu, session, named, pictures, report, status>>
  <2>1. CASE \E later \in SUBSET Settings : CommandFails(later)
    BY <2>1 DEF CommandFails, RevertStops
  <2>2. CASE NotProven
    BY <2>2 DEF NotProven, RevertStops, guest
  <2>3. CASE StockProblem
    BY <2>3 DEF StockProblem, StockLeaves, guest
  <2>4. CASE StockEscapes
    BY <2>4 DEF StockEscapes, StockLeaves, guest
  <2>5. QED
    BY <2>1, <2>2, <2>3, <2>4
<1>2. QED
  BY <1>1, LeavingKeeps

LEMMA StockStartsKeep ==
  ASSUME StockInv, StockRefuses \/ StockStarts \/ (StockFileFails /\ at = "start")
  PROVE  StockInv'
<1>1. CASE StockRefuses
  BY <1>1, StartKeeps DEF StockRefuses, guest, StockInv, StockTypeOK
<1>2. CASE StockStarts
  <2>1. status # "ok"
    BY <1>2 DEF StockStarts, StockInv, StockProgress
  <2>2. QED
    BY <1>2, <2>1, StartKeeps DEF StockStarts, guest
<1>3. CASE StockFileFails /\ at = "start"
  <2>1. /\ pictures' \in [Chosen -> {"none", "old", "product", "stock"}]
        /\ \A p \in Chosen : pictures'[p] \in {"none", pictures[p]}
    BY <1>3 DEF StockFileFails, StockInv, StockTypeOK
  <2>2. QED
    BY <1>3, <2>1, StartKeeps DEF StockFileFails, guest
<1>4. QED
  BY <1>1, <1>2, <1>3

LEMMA ManifestFailsKeeps == ASSUME StockInv, StockFileFails, at = "write" PROVE StockInv'
<1>1. at' = "end" /\ status' = "uncaught"
      /\ UNCHANGED <<command, left, evidence, gone, oks, why, qemu, session, named, pictures, report>>
  BY DEF StockFileFails, guest
<1>2. QED
  BY <1>1 DEF StockInv, StockTypeOK, ReadMeansStock, StockProgress, OksAreStock,
     NoneIsProduct, BeforeStates

LEMMA StockStep == StockInv /\ [StockNext]_stockVars => StockInv'
<1> SUFFICES ASSUME StockInv, [StockNext]_stockVars PROVE StockInv'
  OBVIOUS
<1>1. CASE UNCHANGED stockVars
  BY <1>1 DEF stockVars, guest, StockInv, StockTypeOK, ReadMeansStock, StockProgress,
     OksAreStock, NoneIsProduct, BeforeStates
<1>2. CASE \E s \in Settings : Land(s)
  BY <1>2, LandKeeps
<1>3. CASE StockWork
  <2>1. CASE StockBooted
    BY <2>1, GoOnKeeps DEF StockBooted
  <2>2. CASE \E now, later \in SUBSET Settings : RunCommand(now, later)
    BY <2>2, RunCommandKeeps
  <2>3. CASE \E s \in Settings : ReadSetting(s)
    BY <2>3, ReadSettingKeeps
  <2>4. CASE \E p \in Chosen, outcome \in {"ok", "failed", "lost"} : StockState(p, outcome)
    BY <2>4, StockStateKeeps
  <2>5. CASE StockFileFails
    <3>1. at \in {"start", "write"}
      BY <2>5 DEF StockFileFails
    <3>2. QED
      BY <2>5, <3>1, StockStartsKeep, ManifestFailsKeeps
  <2>6. QED
    BY <1>3, <2>1, <2>2, <2>3, <2>4, <2>5, ProductCheckedKeeps, OtherStepsKeep,
       StockFailuresKeep, StockStartsKeep
    DEF StockWork
<1>4. QED
  BY <1>1, <1>2, <1>3 DEF StockNext

\* No picture of run_stock shows the product's session, and exit code 0 means a stock
\* picture of every state (stock.py), however many states were chosen.
THEOREM StockShowsStock == StockSpec => []StockShotsAreStock
<1>1. StockInv => StockShotsAreStock
  BY DEF StockInv, StockTypeOK, StockProgress, OksAreStock, NoneIsProduct, StockShotsAreStock
<1>2. QED
  BY StockInitial, StockStep, <1>1, PTL DEF StockSpec
=============================================================================
