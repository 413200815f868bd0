------------------------------- MODULE Runner -------------------------------
(***************************************************************************)
(* Runner.run_state and Runner.apply_mode (harness/shots/runner.py): bring *)
(* the desktop to a state and photograph it, or switch its colour mode.    *)
(* Both are the same walk over step lists, with the settle of module       *)
(* Settle run by name wherever the code calls self.settle; the guest goes  *)
(* on repainting between any two steps of the walk.                        *)
(*                                                                         *)
(* A step is an "effect" (EFFECT_KINDS: key, type, move, click, run), a    *)
(* "wait" or a "settle".                                                   *)
(***************************************************************************)
EXTENDS Settle

CONSTANTS
  SettleFrames, \* settings.settle_frames
  ResetSteps,   \* settings.reset
  Programs      \* the step lists of the states

StepKinds == {"effect", "wait", "settle"}

ASSUME SettleFramesAssumption == SettleFrames \in FrameCounts
ASSUME StepListsAssumption ==
  ResetSteps \in Seq(StepKinds) /\ Programs \subseteq Seq(StepKinds) /\ Programs # {}

VARIABLES
  job,     \* "state": run_state; "mode": apply_mode; "none" before the first call
  phase,   \* where the job is; "idle" between calls
  todo,    \* the steps of the current list still to come
  dirty,   \* an effect has happened since the last settle of this list
  mark,    \* the local `reference`: the last settled picture, or NoPicture
  waiting, \* inside a call of settle
  status,  \* how the last job ended; "none" while one runs
  shot     \* the picture in the state's PNG, or NoPicture

walk == <<job, phase, todo, dirty, mark, waiting, status, shot>>
allVars == <<vars, walk>>

RunnerInit ==
  /\ Init
  /\ job = "none"
  /\ phase = "idle"
  /\ todo = <<>>
  /\ dirty = FALSE
  /\ mark = NoPicture
  /\ waiting = FALSE
  /\ status = "ok"
  /\ shot = NoPicture

-----------------------------------------------------------------------------
(* The walk.                                                               *)

\* A call of run_state or apply_mode: the reset steps come first, and their
\* settles have no reference (baseline is None).  A lost connection ends the run.
Begin(j) ==
  /\ phase = "idle"
  /\ status # "lost"
  /\ job' = j
  /\ phase' = "reset"
  /\ todo' = ResetSteps
  /\ dirty' = FALSE
  /\ mark' = NoPicture
  /\ waiting' = FALSE
  /\ status' = "none"
  /\ shot' = NoPicture
  /\ UNCHANGED vars

AtStep(kind) ==
  /\ phase \in {"reset", "steps"}
  /\ ~waiting
  /\ todo # <<>>
  /\ Head(todo) = kind

\* (Slip: an effect of this kind is missing from EFFECT_KINDS.)
DirtyWithoutKind(kind) == dirty

DirtyAfter(kind) == dirty \/ kind = "effect"

\* _execute: the step reaches the guest, which will repaint k times.
Execute(k) ==
  /\ AtStep("effect")
  /\ Act(k)
  /\ todo' = Tail(todo)
  /\ dirty' = DirtyAfter("effect")
  /\ UNCHANGED <<job, phase, mark, waiting, status, shot>>

Wait ==
  /\ AtStep("wait")
  /\ todo' = Tail(todo)
  /\ dirty' = DirtyAfter("wait")
  /\ UNCHANGED <<vars, job, phase, mark, waiting, status, shot>>

\* (Slip: the settle after an action does not ask for a change.)
NoReference == NoPicture

\* What a settle of the step list must see the screen leave.
Reference == IF dirty THEN mark ELSE NoPicture

\* A settle step, or one of the settles that end a list: after the reset steps,
\* and after state steps that end with an effect.
CallSettle(reading) ==
  \/ /\ AtStep("settle")
     /\ Start(Reference, SettleFrames, reading)
     /\ waiting' = TRUE
     /\ UNCHANGED <<job, phase, todo, dirty, mark, status, shot>>
  \/ /\ phase = "reset" /\ todo = <<>> /\ ~waiting
     /\ Start(NoPicture, SettleFrames, reading)
     /\ waiting' = TRUE
     /\ phase' = "baseline"
     /\ UNCHANGED <<job, todo, dirty, mark, status, shot>>
  \/ /\ phase = "steps" /\ todo = <<>> /\ ~waiting /\ dirty
     /\ Start(Reference, SettleFrames, reading)
     /\ waiting' = TRUE
     /\ phase' = "final"
     /\ UNCHANGED <<job, todo, dirty, mark, status, shot>>

Settled == waiting /\ pc = "idle" /\ outcome = "stable"

\* _snapshot: the last polled frame becomes the reference of the steps to come.
LastFrame == frames[slot]

\* A settle step succeeded.  The reset steps keep no reference.
StepSettled ==
  /\ Settled
  /\ phase \in {"reset", "steps"}
  /\ todo' = Tail(todo)
  /\ dirty' = FALSE
  /\ mark' = IF phase = "steps" THEN LastFrame ELSE mark
  /\ waiting' = FALSE
  /\ UNCHANGED <<vars, job, phase, status, shot>>

\* The empty desktop is quiet: run_state goes on with the state's own steps.
BaselineSettled(program) ==
  /\ Settled
  /\ phase = "baseline"
  /\ job = "state"
  /\ phase' = "steps"
  /\ todo' = program
  /\ dirty' = FALSE
  /\ mark' = LastFrame
  /\ waiting' = FALSE
  /\ UNCHANGED <<vars, job, status, shot>>

\* apply_mode takes a fresh frame, once the crossfade is gone, and then its one
\* effect: plasma-apply-colorscheme, with the screen to leave that frame.
ModeSnapshot ==
  /\ Settled
  /\ phase = "baseline"
  /\ job = "mode"
  /\ SnapshotNow
  /\ phase' = "steps"
  /\ todo' = <<"effect">>
  /\ dirty' = FALSE
  /\ mark' = screen
  /\ waiting' = FALSE
  /\ UNCHANGED <<job, status, shot>>

\* The steps are done and the screen is settled: run_state photographs it.
Shoot ==
  /\ job = "state"
  /\ \/ Settled /\ phase = "final"
     \/ phase = "steps" /\ todo = <<>> /\ ~waiting /\ ~dirty
  /\ phase' = "idle"
  /\ waiting' = FALSE
  /\ status' = "ok"
  /\ shot' = screen
  /\ UNCHANGED <<vars, job, todo, dirty, mark>>

\* apply_mode returns.
ModeApplied ==
  /\ job = "mode"
  /\ Settled
  /\ phase = "final"
  /\ phase' = "idle"
  /\ waiting' = FALSE
  /\ status' = "ok"
  /\ UNCHANGED <<vars, job, todo, dirty, mark, shot>>

-----------------------------------------------------------------------------
(* Failures.                                                               *)

FailureStatus(reason) == IF reason = "lost" THEN "lost" ELSE "failed"

\* The job ends: a failed state still gets its diagnostic screenshot, a lost
\* connection is passed on at once.
Fail(reason) ==
  /\ status' = FailureStatus(reason)
  /\ phase' = IF job = "state" /\ reason # "lost" THEN "diagnose" ELSE "idle"
  /\ waiting' = FALSE
  /\ UNCHANGED <<job, todo, dirty, mark, shot>>

\* settle gave up, or its screendump raised (a refusal, or the connection is gone).
SettleFailed ==
  /\ waiting
  /\ pc = "idle"
  /\ \/ outcome \in {"timeout", "never changed"} /\ Fail(outcome)
     \/ outcome = "error" /\ \E reason \in {"error", "lost"} : Fail(reason)
  /\ UNCHANGED vars

\* A step raises; its effect may have reached the guest all the same.
ExecuteFails(k, reason) ==
  /\ AtStep("effect")
  /\ Act(k)
  /\ Fail(reason)

\* The last screendump, or what apply_mode does before its snapshot, raises.
CallFails(reason) ==
  /\ \/ Settled /\ phase = "final" /\ job = "state"
     \/ Settled /\ phase = "baseline" /\ job = "mode"
     \/ phase = "steps" /\ todo = <<>> /\ ~waiting /\ ~dirty
  /\ Fail(reason)
  /\ UNCHANGED vars

\* The diagnostic screenshot; whatever it raises is swallowed.
Diagnose ==
  /\ phase = "diagnose"
  /\ phase' = "idle"
  /\ UNCHANGED <<vars, job, todo, dirty, mark, waiting, status, shot>>

Poll ==
  \/ Dump
  \/ \E r \in Reading : \E late \in Clock : Judge(r, late)

InSettle == Poll \/ PollFails

Walk ==
  \/ \E k \in 0 .. MaxWork : Execute(k)
  \/ Wait
  \/ \E r \in Reading : CallSettle(r)
  \/ StepSettled
  \/ \E p \in Programs : BaselineSettled(p)
  \/ ModeSnapshot
  \/ Shoot
  \/ ModeApplied
  \/ SettleFailed
  \/ \E k \in 0 .. MaxWork : \E reason \in {"error", "lost"} : ExecuteFails(k, reason)
  \/ \E reason \in {"error", "lost"} : CallFails(reason)
  \/ Diagnose

RunnerNext ==
  \/ GuestRepaints /\ UNCHANGED walk
  \/ InSettle /\ UNCHANGED walk
  \/ \E j \in {"state", "mode"} : Begin(j)
  \/ Walk

\* The runner is one thread whose every call has a deadline.
RunnerFairness ==
  /\ WF_allVars(Poll /\ UNCHANGED walk)
  /\ WF_allVars(Walk)

RunnerSpec == RunnerInit /\ [][RunnerNext]_allVars /\ RunnerFairness

-----------------------------------------------------------------------------
(* Properties.                                                             *)

\* Every variable of the walk stays within its type.
WalkTypeOK ==
  /\ job \in {"none", "state", "mode"}
  /\ phase \in {"idle", "reset", "baseline", "steps", "final", "diagnose"}
  /\ todo \in Seq(StepKinds)
  /\ dirty \in BOOLEAN
  /\ mark \in Pictures \cup {NoPicture}
  /\ waiting \in BOOLEAN
  /\ status \in {"none", "ok", "failed", "lost"}
  /\ shot \in Pictures \cup {NoPicture}

\* The last settle ended on evidence: two frames or more and an answered reading.
OnEvidence == need >= 2 /\ readings # <<>> /\ Measured(readings[Len(readings)])

\* A state reported ok was photographed after the guest had finished reacting to
\* every step, in whatever order its list puts effects, waits and settles: the
\* picture in the PNG is the one the screen keeps.
ShotIsFinal ==
  (job = "state" /\ status = "ok" /\ OnEvidence) => work = 0 /\ shot = screen

\* While nothing has been done since the last settle, the reference is the picture
\* on the screen and the guest is finished: the reset, the state before and a mode
\* switch leave nothing behind that could be taken for the next step's effect.
ReferenceIsCurrent ==
  (phase = "steps" /\ ~waiting /\ ~dirty /\ OnEvidence) => work = 0 /\ mark = screen

\* A settle that follows an effect is not accepted until the screen has left the
\* picture that was there before the effect.
EffectWasSeen ==
  (phase \in {"steps", "final"} /\ dirty /\ Settled) =>
    \E i \in 1 .. Len(shown) : shown[i] # mark

\* A call of run_state or apply_mode always returns.
JobReturns == phase # "idle" ~> phase = "idle"
=============================================================================
