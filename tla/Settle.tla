------------------------------- MODULE Settle -------------------------------
(***************************************************************************)
(* Runner.settle (harness/shots/runner.py): the loop that decides whether  *)
(* the guest's screen is still, polling frames through QMP and the guest's *)
(* CPU counters through the guest agent while the guest goes on working.   *)
(*                                                                         *)
(* A picture stands for an equivalence class of frames: frames_match finds *)
(* two frames equal exactly when they are the same outside the masks, so   *)
(* two frames that match are one picture here.  The guest's reaction to an *)
(* action is a number of repaints still to come; every repaint, and every  *)
(* interval in which one is outstanding, spends CPU or I/O-wait time above *)
(* the limits of _guest_quiet (MAX_BUSY_FRACTION, MAX_IOWAIT_FRACTION).    *)
(***************************************************************************)
EXTENDS Integers, Sequences

CONSTANTS
  Pictures,      \* what the screen can show, outside the masks
  NoPicture,     \* "None": no reference frame, or a frame file not written yet
  FrameCounts,   \* the values of `need`: settle_frames, or what a caller passes
  MaxPolls,      \* settle_timeout_s / settle_interval_s: polls before the timeout
  MaxWork,       \* bound: repaints the guest may owe at once
  ReadingsMissed \* FALSE: the guest agent answers every CPU reading

ASSUME PicturesAssumption == Pictures # {} /\ NoPicture \notin Pictures
ASSUME FrameCountsAssumption == FrameCounts \subseteq Nat \ {0}
ASSUME BoundsAssumption == MaxPolls \in Nat \ {0} /\ MaxWork \in Nat
ASSUME ReadingsAssumption == ReadingsMissed \in BOOLEAN

VARIABLES
  screen,    \* the picture the guest's display shows
  work,      \* repaints the guest still owes
  active,    \* the guest worked since the counters were last asked for
  pc,        \* "idle": the caller runs; "dump", "judge": inside the loop
  reference, \* the picture the screen must first differ from, or NoPicture
  need,      \* consecutive identical frames required
  frames,    \* contents of frame-a.png and frame-b.png
  slot,      \* the file the next screendump goes to
  previous,  \* the slot of the frame to compare with, or NoSlot
  changed,   \* the screen has differed from the reference
  run,       \* length of the current run of identical frames
  answered,  \* cpu_before is a reading (TRUE) or None (FALSE)
  outcome,   \* result of the last settle since the last action, or "none"
  shown,     \* history: the picture of every frame of this settle
  readings   \* history: what is true of every poll of this settle

guest == <<screen, work, active>>
locals == <<reference, need, frames, slot, previous, changed, run, answered>>
history == <<shown, readings>>
vars == <<guest, pc, locals, outcome, history>>

Slots == {0, 1}
NoSlot == 2
Reading == {TRUE} \cup {~ReadingsMissed}   \* a reading is answered, or None
Outcomes == {"none", "stable", "timeout", "never changed", "error"}
Polls == [before : BOOLEAN, after : BOOLEAN, active : BOOLEAN]

Init ==
  /\ screen \in Pictures
  /\ work \in 0 .. MaxWork
  /\ active = FALSE
  /\ pc = "idle"
  /\ reference = NoPicture
  /\ need \in FrameCounts
  /\ frames = [s \in Slots |-> NoPicture]
  /\ slot = 0
  /\ previous = NoSlot
  /\ changed = TRUE
  /\ run = 1
  /\ answered = FALSE
  /\ outcome = "none"
  /\ shown = <<>>
  /\ readings = <<>>

-----------------------------------------------------------------------------
(* The guest and the caller.                                               *)

\* The guest performs one outstanding repaint.
GuestRepaints ==
  /\ work > 0
  /\ work' = work - 1
  /\ screen' \in Pictures
  /\ active' = TRUE
  /\ UNCHANGED <<pc, locals, outcome, history>>

\* The caller acts on the guest (a key, a click, a program), which will
\* repaint k times in reaction; k = 0 is an action without a visible effect.
Act(k) ==
  /\ pc = "idle"
  /\ work + k <= MaxWork
  /\ work' = work + k
  /\ outcome' = "none"
  /\ UNCHANGED <<screen, active, pc, locals, history>>

\* _snapshot_now: the caller dumps the screen into frame-a.png.
SnapshotNow ==
  /\ pc = "idle"
  /\ frames' = [frames EXCEPT ![0] = screen]
  /\ UNCHANGED <<guest, pc, reference, need, slot, previous, changed, run, answered,
                 outcome, history>>

-----------------------------------------------------------------------------
(* The loop.                                                               *)

\* Entry of settle: the locals and the first CPU reading.
Start(ref, n, reading) ==
  /\ pc = "idle"
  /\ reference' = ref
  /\ need' = n
  /\ slot' = 0
  /\ previous' = NoSlot
  /\ changed' = (ref = NoPicture)
  /\ run' = 1
  /\ answered' = reading
  /\ active' = FALSE
  /\ outcome' = "none"
  /\ shown' = <<>>
  /\ readings' = <<>>
  /\ pc' = "dump"
  /\ UNCHANGED <<screen, work, frames>>

\* The screendump of one poll.  (The bound on the history is Clock's: no settle
\* polls more often.)
Dump ==
  /\ pc = "dump"
  /\ Len(shown) < MaxPolls
  /\ frames' = [frames EXCEPT ![slot] = screen]
  /\ shown' = Append(shown, screen)
  /\ pc' = "judge"
  /\ UNCHANGED <<guest, reference, need, slot, previous, changed, run,
                 answered, outcome, readings>>

\* The screendump raises, or the connection is lost in a CPU reading: the error
\* leaves settle.
PollFails ==
  /\ pc # "idle"
  /\ pc' = "idle"
  /\ outcome' = "error"
  /\ UNCHANGED <<guest, locals, history>>

\* _guest_quiet: a missing reading is no evidence of activity.
GuestQuiet(before, after, busy) == ~before \/ ~after \/ ~busy

\* What the counters show of the time since the last reading.
Busy == active \/ work > 0

\* The frame just taken is the first, or a later one, that is not the old picture.
HasChanged == changed \/ frames[slot] # reference

\* The length of the run of identical frames, the frame just taken included.
Extended(reading) ==
  IF /\ HasChanged
     /\ previous # NoSlot
     /\ GuestQuiet(answered, reading, Busy)
     /\ frames[slot] = frames[previous]
  THEN run + 1
  ELSE 1

\* (Slips: the timeout is looked at only once the screen has changed; the reason
\* is taken from `changed` as it was before this frame.)
VerdictWaitsForChange(reading, late) ==
  IF HasChanged /\ Extended(reading) >= need THEN "stable"
  ELSE IF HasChanged /\ late THEN "timeout" ELSE "none"
VerdictOfLastPoll(reading, late) ==
  IF HasChanged /\ Extended(reading) >= need THEN "stable"
  ELSE IF ~late THEN "none"
  ELSE IF changed THEN "timeout" ELSE "never changed"

\* The verdict on a frame: the settle returns, or the loop goes on.
Verdict(reading, late) ==
  IF HasChanged /\ Extended(reading) >= need THEN "stable"
  ELSE IF ~late THEN "none"
  ELSE IF HasChanged THEN "timeout" ELSE "never changed"

\* (Slip: one file for all frames.)
OneSlot == slot

\* The file the next frame goes to: `previous` must survive the comparison.
NextSlot == IF HasChanged THEN 1 - slot ELSE slot

\* The second half of a poll: CPU reading, comparison, verdict, sleep.
Judge(reading, late) ==
  LET verdict == Verdict(reading, late)
  IN  /\ pc = "judge"
      /\ changed' = HasChanged
      /\ run' = Extended(reading)
      /\ previous' = IF HasChanged THEN slot ELSE NoSlot
      /\ slot' = IF verdict = "stable" THEN slot ELSE NextSlot
      /\ answered' = reading
      /\ active' = FALSE
      /\ readings' = Append(readings, [before |-> answered, after |-> reading,
                                       active |-> Busy])
      /\ outcome' = verdict
      /\ pc' = IF verdict = "none" THEN "dump" ELSE "idle"
      /\ UNCHANGED <<screen, work, reference, need, frames, shown>>

\* The clock: the timeout is reached at the latest after MaxPolls polls.
Clock == IF Len(shown) >= MaxPolls THEN {TRUE} ELSE BOOLEAN

Next ==
  \/ GuestRepaints
  \/ \E k \in 0 .. MaxWork : Act(k)
  \/ SnapshotNow
  \/ \E ref \in Pictures \cup {NoPicture}, n \in FrameCounts, r \in Reading :
        Start(ref, n, r)
  \/ Dump
  \/ PollFails
  \/ \E r \in Reading : \E late \in Clock : Judge(r, late)

\* The loop is one thread; every call it makes has a deadline of its own.
Fairness ==
  /\ WF_vars(Dump)
  /\ WF_vars(\E r \in Reading : \E late \in Clock : Judge(r, late))

Spec == Init /\ [][Next]_vars /\ Fairness

-----------------------------------------------------------------------------
(* Properties.                                                             *)

\* Every variable stays within its type, in every state of a settle.
TypeOK ==
  /\ screen \in Pictures
  /\ work \in Nat
  /\ active \in BOOLEAN
  /\ pc \in {"idle", "dump", "judge"}
  /\ reference \in Pictures \cup {NoPicture}
  /\ need \in FrameCounts
  /\ frames \in [Slots -> Pictures \cup {NoPicture}]
  /\ slot \in Slots
  /\ previous \in Slots \cup {NoSlot}
  /\ changed \in BOOLEAN
  /\ run \in Nat \ {0}
  /\ answered \in BOOLEAN
  /\ outcome \in Outcomes
  /\ shown \in Seq(Pictures)
  /\ readings \in Seq(Polls)

Measured(poll) == poll.before /\ poll.after

\* A stable settle has seen its last `need` frames show one picture, none of
\* the polls that extended the run was measured busy, and the screen had
\* differed from the reference by then (the startup trap of the module text).
\* The history holds what the screen showed, not what the frame files hold, so
\* a screendump over the frame still to be compared breaks this.
StableIsStill ==
  outcome = "stable" =>
    LET n == Len(shown)
    IN  /\ need <= n
        /\ \A i \in n - need + 1 .. n : shown[i] = shown[n]
        /\ \A i \in n - need + 2 .. n : ~(Measured(readings[i]) /\ readings[i].active)
        /\ reference = NoPicture \/ \E i \in 1 .. n : shown[i] # reference

\* When the run was extended on measured evidence, the guest has finished: no
\* repaint is outstanding and the frame kept is what the screen shows (the
\* starved-guest and disk-wait traps).  Both conditions are needed: a missed reading
\* blinds this poll and the next, and with one frame no run is ever extended.
StableIsFinal ==
  (outcome = "stable" /\ need >= 2 /\ Measured(readings[Len(readings)])) =>
    work = 0 /\ shown[Len(shown)] = screen

\* "never changed" is said only of a screen whose every frame was the old picture,
\* "timeout" only of one that differed from it.
VerdictNamesTheFault ==
  /\ outcome = "never changed" =>
        \A i \in 1 .. Len(shown) : shown[i] = reference
  /\ outcome = "timeout" =>
        reference = NoPicture \/ \E i \in 1 .. Len(shown) : shown[i] # reference

\* Whatever the verdict, it is true: of the screen that was seen, of the screen that is
\* there, and of the fault it names.
VerdictIsTrue == StableIsStill /\ StableIsFinal /\ VerdictNamesTheFault
=============================================================================
