---------------------------- MODULE RunnerProofs ----------------------------
(***************************************************************************)
(* Theorems about Settle, for every set of pictures, every number of       *)
(* required frames and every timeout, and about Runner, for every list of  *)
(* reset steps, every set of state programs and every number of frames.  A *)
(* step of the walk is a step of Settle or leaves its variables alone, so  *)
(* the invariant of the settle loop holds throughout the walk.             *)
(***************************************************************************)
EXTENDS Runner, TLAPS

-----------------------------------------------------------------------------
(* The settle loop.                                                        *)

(* The inductive invariant.  n polls have been judged so far.              *)

\* The histories run level with the loop, and a frame not yet judged is the
\* newest picture; it is still on the screen unless the guest has worked since.
LoopInv ==
  /\ pc # "idle" => outcome = "none"
  /\ pc = "dump" => Len(shown) = Len(readings)
  /\ pc = "judge" => /\ Len(shown) = Len(readings) + 1
                     /\ frames[slot] = shown[Len(shown)]
                     /\ ~active => frames[slot] = screen

\* `run` counts frames that really showed one picture; `previous` names the file
\* that holds the last of them, and that file is not the next one to be written.
RunInv ==
  pc # "idle" =>
    LET n == Len(readings)
    IN  /\ previous = NoSlot => run = 1
        /\ previous # NoSlot =>
             /\ previous = 1 - slot
             /\ changed
             /\ run <= n
             /\ frames[previous] = shown[n]
             /\ \A i \in n - run + 1 .. n : shown[i] = shown[n]
             /\ \A i \in n - run + 2 .. n : ~(Measured(readings[i]) /\ readings[i].active)

\* `changed` says whether a judged frame differed from the reference.
ChangedInv ==
  pc # "idle" =>
    LET n == Len(readings)
    IN  /\ changed => reference = NoPicture \/ \E i \in 1 .. n : shown[i] # reference
        /\ ~changed => /\ previous = NoSlot
                       /\ reference # NoPicture
                       /\ \A i \in 1 .. n : shown[i] = reference

IInv ==
  /\ TypeOK
  /\ LoopInv
  /\ RunInv
  /\ ChangedInv
  /\ StableIsStill
  /\ StableIsFinal
  /\ VerdictNamesTheFault

\* Outside the loop the loop's own conjuncts hold vacuously.
LEMMA InitIInv == Init => IInv
<1>. SUFFICES ASSUME Init PROVE IInv
  OBVIOUS
<1>1. TypeOK
  <2>1. /\ shown \in Seq(Pictures)
        /\ readings \in Seq(Polls)
    BY DEF Init
  <2>2. frames \in [Slots -> Pictures \cup {NoPicture}]
    BY DEF Init
  <2>. QED
    BY <2>1, <2>2, BoundsAssumption DEF Init, TypeOK, Slots, NoSlot, Outcomes
<1>2. pc = "idle" /\ outcome = "none"
  BY DEF Init
<1>. QED
  BY <1>1, <1>2 DEF IInv, LoopInv, RunInv, ChangedInv, StableIsStill, StableIsFinal,
                    VerdictNamesTheFault

\* Extended is a positive number, at most one more than run.
LEMMA ExtendedType ==
  ASSUME TypeOK, NEW r \in BOOLEAN
  PROVE  /\ Extended(r) \in Nat \ {0}
         /\ Extended(r) # 1 => Extended(r) = run + 1
  BY DEF TypeOK, Extended

LEMMA TypeStep == TypeOK /\ [Next]_vars => TypeOK'
<1>. SUFFICES ASSUME TypeOK, [Next]_vars PROVE TypeOK'
  OBVIOUS
<1>. USE DEF TypeOK
<1>1. CASE GuestRepaints
  BY <1>1 DEF GuestRepaints, locals, history
<1>2. ASSUME NEW k \in 0 .. MaxWork, Act(k) PROVE TypeOK'
  <2>1. work' \in Nat
    BY <1>2, BoundsAssumption DEF Act
  <2>2. outcome' \in Outcomes
    BY <1>2 DEF Act, Outcomes
  <2>. QED
    BY <1>2, <2>1, <2>2 DEF Act, locals, history
<1>3. ASSUME NEW ref \in Pictures \cup {NoPicture}, NEW n \in FrameCounts,
             NEW r \in Reading, Start(ref, n, r)
      PROVE  TypeOK'
  <2>1. shown' \in Seq(Pictures) /\ readings' \in Seq(Polls)
    BY <1>3 DEF Start
  <2>2. r \in BOOLEAN /\ changed' \in BOOLEAN
    BY <1>3, ReadingsAssumption DEF Start, Reading
  <2>3. slot' \in Slots /\ previous' \in Slots \cup {NoSlot} /\ outcome' \in Outcomes
    BY <1>3 DEF Start, Slots, Outcomes
  <2>4. reference' \in Pictures \cup {NoPicture} /\ need' \in FrameCounts
    BY <1>3 DEF Start
  <2>5. /\ screen' \in Pictures
        /\ work' \in Nat
        /\ frames' \in [Slots -> Pictures \cup {NoPicture}]
    BY <1>3 DEF Start
  <2>6. run' \in Nat \ {0} /\ pc' \in {"idle", "dump", "judge"}
    BY <1>3 DEF Start
  <2>7. active' \in BOOLEAN /\ answered' \in BOOLEAN
    BY <1>3, <2>2 DEF Start
  <2>. QED
    BY <2>1, <2>2, <2>3, <2>4, <2>5, <2>6, <2>7
<1>4. CASE Dump
  BY <1>4 DEF Dump, guest, Slots
<1>5. CASE PollFails
  BY <1>5 DEF PollFails, guest, locals, history, Outcomes
<1>6. ASSUME NEW r \in Reading, NEW late \in Clock, Judge(r, late) PROVE TypeOK'
  <2>1. r \in BOOLEAN
    BY ReadingsAssumption DEF Reading
  <2>2. Extended(r) \in Nat \ {0}
    BY <2>1, ExtendedType
  <2>3. /\ Verdict(r, late) \in Outcomes
        /\ HasChanged \in BOOLEAN
        /\ Busy \in BOOLEAN
    BY DEF Verdict, Outcomes, HasChanged, Busy
  <2>4. NextSlot \in Slots
    BY DEF NextSlot, Slots
  <2>5. [before |-> answered, after |-> r, active |-> Busy] \in Polls
    BY <2>1, <2>3 DEF Polls
  <2>6. readings' \in Seq(Polls)
    BY <1>6, <2>5 DEF Judge
  <2>. QED
    BY <1>6, <2>1, <2>2, <2>3, <2>4, <2>6 DEF Judge
<1>7. CASE SnapshotNow
  BY <1>7 DEF SnapshotNow, guest, history, Slots
<1>8. CASE UNCHANGED vars
  BY <1>8 DEF vars, guest, locals, history
<1>. QED
  BY <1>1, <1>2, <1>3, <1>4, <1>5, <1>6, <1>7, <1>8 DEF Next

\* The type invariant of Settle.
THEOREM SettleTypeCorrect == Spec => []TypeOK
<1>1. Init => TypeOK
  BY InitIInv DEF IInv
<1>. QED
  BY <1>1, TypeStep, PTL DEF Spec

-----------------------------------------------------------------------------
(* The invariant is kept by every step.                                    *)

\* A repaint marks the interval as active, and a settled guest has none to do.
LEMMA RepaintKeeps == IInv /\ GuestRepaints => IInv'
<1>. SUFFICES ASSUME IInv, GuestRepaints PROVE IInv'
  OBVIOUS
<1>1. TypeOK'
  BY TypeStep DEF IInv, Next
<1>2. UNCHANGED <<pc, reference, need, frames, slot, previous, changed, run,
                  answered, outcome, shown, readings>>
  BY DEF GuestRepaints, locals, history
<1>3. LoopInv'
  BY <1>2 DEF IInv, LoopInv, GuestRepaints
<1>4. RunInv' /\ ChangedInv'
  BY <1>2 DEF IInv, RunInv, ChangedInv, Measured
<1>5. StableIsStill' /\ VerdictNamesTheFault'
  BY <1>2 DEF IInv, StableIsStill, VerdictNamesTheFault, Measured
<1>6. StableIsFinal'
  BY <1>2 DEF IInv, StableIsFinal, GuestRepaints, Measured
<1>. QED
  BY <1>1, <1>3, <1>4, <1>5, <1>6 DEF IInv

\* The caller's actions, and the entry of settle, forget the last outcome.
LEMMA CallerKeeps ==
  ASSUME IInv, TypeOK', outcome' \in {"none", "error"},
         pc' = "idle" \/ (pc' = "dump" /\ shown' = <<>> /\ readings' = <<>>
                          /\ previous' = NoSlot /\ run' = 1 /\ outcome' = "none"
                          /\ changed' = (reference' = NoPicture))
  PROVE  IInv'
<1>1. LoopInv'
  BY DEF LoopInv
<1>2. RunInv'
  BY DEF RunInv, NoSlot
<1>3. ChangedInv'
  <2>. SUFFICES ASSUME pc' # "idle" PROVE ChangedInv'
    BY DEF ChangedInv
  <2>1. changed' = (reference' = NoPicture) /\ previous' = NoSlot
    OBVIOUS
  <2>2. \A i \in 1 .. Len(readings') : FALSE
    OBVIOUS
  <2>. QED
    BY <2>1, <2>2 DEF ChangedInv
<1>4. StableIsStill' /\ StableIsFinal' /\ VerdictNamesTheFault'
  BY DEF StableIsStill, StableIsFinal, VerdictNamesTheFault
<1>. QED
  BY <1>1, <1>2, <1>3, <1>4 DEF IInv

\* A screendump adds one picture to the history and writes the free file.
LEMMA DumpKeeps == IInv /\ Dump => IInv'
<1>. SUFFICES ASSUME IInv, Dump PROVE IInv'
  OBVIOUS
<1>. USE DEF Measured
<1>1. TypeOK /\ TypeOK'
  BY TypeStep DEF IInv, Next
<1>2. /\ pc = "dump" /\ pc' = "judge"
      /\ UNCHANGED <<screen, work, active, reference, need, slot, previous, changed, run,
                     answered, outcome, readings>>
      /\ frames' = [frames EXCEPT ![slot] = screen]
      /\ shown' = Append(shown, screen)
  BY DEF Dump, guest
<1>3. /\ outcome = "none"
      /\ Len(shown) = Len(readings)
  BY <1>2 DEF IInv, LoopInv
<1>4. /\ Len(shown') = Len(shown) + 1
      /\ shown'[Len(shown')] = screen
      /\ \A i \in 1 .. Len(shown) : shown'[i] = shown[i]
      /\ Len(shown) \in Nat
  BY <1>1, <1>2 DEF TypeOK
<1>5. frames'[slot] = screen /\ \A s \in Slots \ {slot} : frames'[s] = frames[s]
  BY <1>1, <1>2 DEF TypeOK
<1>6. LoopInv'
  BY <1>2, <1>3, <1>4, <1>5 DEF LoopInv
<1>7. RunInv'
  <2>1. previous = NoSlot => run = 1
    BY <1>2 DEF IInv, RunInv
  <2>. SUFFICES ASSUME previous # NoSlot
                PROVE  /\ previous' = 1 - slot'
                       /\ changed'
                       /\ run' <= Len(readings')
                       /\ frames'[previous'] = shown'[Len(readings')]
                       /\ \A i \in Len(readings') - run' + 1 .. Len(readings') :
                             shown'[i] = shown'[Len(readings')]
                       /\ \A i \in Len(readings') - run' + 2 .. Len(readings') :
                             ~(Measured(readings'[i]) /\ readings'[i].active)
    BY <2>1, <1>2 DEF RunInv
  <2>2. /\ previous = 1 - slot
        /\ changed
        /\ run <= Len(readings)
        /\ frames[previous] = shown[Len(readings)]
        /\ \A i \in Len(readings) - run + 1 .. Len(readings) :
              shown[i] = shown[Len(readings)]
        /\ \A i \in Len(readings) - run + 2 .. Len(readings) :
              ~(Measured(readings[i]) /\ readings[i].active)
    BY <1>2 DEF IInv, RunInv
  <2>3. previous \in Slots \ {slot}
    BY <1>1, <2>2 DEF TypeOK, Slots, NoSlot
  <2>4. frames'[previous] = frames[previous]
    BY <2>3, <1>5
  <2>5. run \in Nat \ {0} /\ Len(readings) \in Nat
    BY <1>1 DEF TypeOK
  <2>6. \A i \in Len(readings) - run + 1 .. Len(readings) : shown'[i] = shown[i]
    BY <1>3, <1>4, <2>2, <2>5
  <2>7. Len(readings) \in Len(readings) - run + 1 .. Len(readings)
    BY <2>5
  <2>8. shown'[Len(readings)] = shown[Len(readings)]
    BY <2>6, <2>7
  <2>. QED
    BY <1>2, <2>2, <2>4, <2>6, <2>8
<1>8. ChangedInv'
  <2>1. CASE changed
    <3>1. reference = NoPicture \/ \E i \in 1 .. Len(readings) : shown[i] # reference
      BY <1>2, <2>1 DEF IInv, ChangedInv
    <3>2. reference = NoPicture \/ \E i \in 1 .. Len(readings) : shown'[i] # reference
      BY <3>1, <1>3, <1>4
    <3>. QED
      BY <2>1, <3>2, <1>2 DEF ChangedInv
  <2>2. CASE ~changed
    <3>1. /\ previous = NoSlot
          /\ reference # NoPicture
          /\ \A i \in 1 .. Len(readings) : shown[i] = reference
      BY <1>2, <2>2 DEF IInv, ChangedInv
    <3>. QED
      BY <2>2, <3>1, <1>2, <1>3, <1>4 DEF ChangedInv
  <2>. QED
    BY <2>1, <2>2
<1>9. StableIsStill' /\ StableIsFinal' /\ VerdictNamesTheFault'
  BY <1>2, <1>3 DEF StableIsStill, StableIsFinal, VerdictNamesTheFault
<1>. QED
  BY <1>1, <1>6, <1>7, <1>8, <1>9 DEF IInv

\* A poll is judged: the run grows by a frame that matches the previous one in a
\* poll not measured busy, or starts again with the frame just taken.
LEMMA JudgeKeeps ==
  ASSUME IInv, NEW r \in Reading, NEW late \in Clock, Judge(r, late)
  PROVE  IInv'
<1>. USE DEF Measured
<1>. DEFINE n == Len(shown)
            poll == [before |-> answered, after |-> r, active |-> Busy]
            x == Extended(r)
<1>1. TypeOK /\ TypeOK'
  BY TypeStep DEF IInv, Next
<1>2. r \in BOOLEAN
  BY ReadingsAssumption DEF Reading
<1>3. x \in Nat \ {0} /\ (x # 1 => x = run + 1)
  BY <1>1, <1>2, ExtendedType
<1>4. /\ pc = "judge"
      /\ UNCHANGED <<screen, work, reference, need, frames, shown>>
      /\ changed' = HasChanged
      /\ run' = x
      /\ previous' = IF HasChanged THEN slot ELSE NoSlot
      /\ readings' = Append(readings, poll)
      /\ outcome' = Verdict(r, late)
      /\ pc' = IF outcome' = "none" THEN "dump" ELSE "idle"
  BY DEF Judge
<1>5. /\ Len(readings') = Len(readings) + 1
      /\ readings'[Len(readings')] = poll
      /\ \A i \in 1 .. Len(readings) : readings'[i] = readings[i]
      /\ Len(readings) \in Nat
  BY <1>1, <1>4 DEF TypeOK
<1>6. /\ n = Len(readings')
      /\ n \in Nat \ {0}
      /\ frames[slot] = shown[n]
      /\ ~active => frames[slot] = screen
      /\ outcome = "none"
  BY <1>4, <1>5 DEF IInv, LoopInv
\* What the run now stands for.
<1>7. /\ x <= n
      /\ \A i \in n - x + 1 .. n : shown[i] = shown[n]
      /\ \A i \in n - x + 2 .. n : ~(Measured(readings'[i]) /\ readings'[i].active)
  <2>1. CASE x = 1
    BY <2>1, <1>6
  <2>2. CASE x # 1
    <3>1. /\ previous # NoSlot
          /\ GuestQuiet(answered, r, Busy)
          /\ frames[slot] = frames[previous]
          /\ x = run + 1
      BY <2>2 DEF Extended
    <3>2. /\ run <= n - 1
          /\ run \in Nat \ {0}
          /\ frames[previous] = shown[n - 1]
          /\ \A i \in n - run .. n - 1 : shown[i] = shown[n - 1]
          /\ \A i \in n - run + 1 .. n - 1 :
                ~(Measured(readings[i]) /\ readings[i].active)
      BY <3>1, <1>1, <1>4, <1>5, <1>6 DEF IInv, RunInv, TypeOK
    <3>3. shown[n - 1] = shown[n]
      BY <3>1, <3>2, <1>6
    <3>4. ~(Measured(poll) /\ poll.active)
      BY <3>1, <1>1 DEF GuestQuiet
    <3>5. \A i \in n - x + 1 .. n : shown[i] = shown[n]
      BY <3>1, <3>2, <3>3, <1>6
    <3>6. \A i \in n - x + 2 .. n : ~(Measured(readings'[i]) /\ readings'[i].active)
      <4>. TAKE i \in n - x + 2 .. n
      <4>1. CASE i = n
        BY <4>1, <3>4, <1>5, <1>6
      <4>2. CASE i # n
        <5>1. i \in n - run + 1 .. n - 1 /\ i \in 1 .. Len(readings)
          <6>1. n - 1 = Len(readings) /\ n \in Nat /\ run \in Nat /\ x = run + 1
            BY <3>1, <3>2, <1>5, <1>6
          <6>. HIDE DEF n, x
          <6>. QED
            BY <4>2, <3>2, <6>1
        <5>. QED
          BY <5>1, <3>2, <1>5
      <4>. QED
        BY <4>1, <4>2
    <3>. QED
      BY <3>1, <3>2, <3>5, <3>6, <1>6
  <2>. QED
    BY <2>1, <2>2
\* What `changed` now stands for.
<1>8. /\ HasChanged => reference = NoPicture \/ \E i \in 1 .. n : shown[i] # reference
      /\ ~HasChanged => reference # NoPicture /\ \A i \in 1 .. n : shown[i] = reference
  <2>1. n - 1 = Len(readings) /\ n \in 1 .. n
    BY <1>5, <1>6
  <2>2. CASE changed
    <3>1. reference = NoPicture \/ \E i \in 1 .. n - 1 : shown[i] # reference
      BY <2>1, <2>2, <1>4 DEF IInv, ChangedInv
    <3>. QED
      BY <2>2, <3>1, <1>6 DEF HasChanged
  <2>3. CASE ~changed
    <3>1. reference # NoPicture /\ \A i \in 1 .. n - 1 : shown[i] = reference
      BY <2>1, <2>3, <1>4 DEF IInv, ChangedInv
    <3>. QED
      BY <2>1, <2>3, <3>1, <1>6 DEF HasChanged
  <2>. QED
    BY <2>2, <2>3
<1>9. LoopInv'
  BY <1>4, <1>6 DEF LoopInv
<1>10. RunInv'
  <2>. SUFFICES ASSUME pc' # "idle" PROVE RunInv'
    BY DEF RunInv
  <2>1. outcome' = "none" /\ slot' = NextSlot
    BY <1>4 DEF Judge
  <2>2. CASE HasChanged
    <3>1. slot' = 1 - slot /\ previous' = slot /\ changed'
      BY <2>1, <2>2, <1>4 DEF NextSlot
    <3>2. previous' = 1 - slot'
      BY <3>1, <1>1 DEF TypeOK, Slots
    <3>3. previous' # NoSlot
      BY <3>1, <1>1 DEF TypeOK, Slots, NoSlot
    <3>. QED
      BY <3>1, <3>2, <3>3, <1>4, <1>6, <1>7 DEF RunInv
  <2>3. CASE ~HasChanged
    BY <2>3, <1>4 DEF RunInv, Extended
  <2>. QED
    BY <2>2, <2>3
<1>11. ChangedInv'
  BY <1>4, <1>6, <1>8 DEF ChangedInv
<1>12. StableIsStill'
  <2>. SUFFICES ASSUME outcome' = "stable" PROVE StableIsStill'
    BY DEF StableIsStill
  <2>1. HasChanged /\ x >= need /\ need \in Nat \ {0}
    BY <1>1, <1>4, FrameCountsAssumption DEF Verdict, TypeOK
  <2>2. need <= n
    BY <2>1, <1>3, <1>6, <1>7
  <2>3. \A i \in n - need + 1 .. n : i \in n - x + 1 .. n
    BY <2>1, <1>3, <1>6
  <2>4. \A i \in n - need + 2 .. n : i \in n - x + 2 .. n
    BY <2>1, <1>3, <1>6
  <2>. QED
    BY <2>1, <2>2, <2>3, <2>4, <1>4, <1>7, <1>8 DEF StableIsStill
<1>13. StableIsFinal'
  <2>. SUFFICES ASSUME outcome' = "stable", need' >= 2,
                       Measured(readings'[Len(readings')])
                PROVE  work' = 0 /\ shown'[Len(shown')] = screen'
    BY DEF StableIsFinal
  <2>1. x # 1
    BY <1>1, <1>3, <1>4, FrameCountsAssumption DEF Verdict, TypeOK
  <2>2. GuestQuiet(answered, r, Busy)
    BY <2>1 DEF Extended
  <2>3. answered /\ r
    BY <1>5
  <2>4. ~active /\ work = 0
    BY <2>2, <2>3, <1>1 DEF GuestQuiet, Busy, TypeOK
  <2>. QED
    BY <2>4, <1>4, <1>6
<1>14. VerdictNamesTheFault'
  <2>1. /\ outcome' = "never changed" => ~HasChanged
        /\ outcome' = "timeout" => HasChanged
    BY <1>4 DEF Verdict
  <2>. QED
    BY <2>1, <1>4, <1>8 DEF VerdictNamesTheFault
<1>. QED
  BY <1>1, <1>9, <1>10, <1>11, <1>12, <1>13, <1>14 DEF IInv

-----------------------------------------------------------------------------
(* The theorems.                                                           *)

LEMMA IInvStep == IInv /\ [Next]_vars => IInv'
<1>. SUFFICES ASSUME IInv, [Next]_vars PROVE IInv'
  OBVIOUS
<1>. TypeOK'
  BY TypeStep DEF IInv
<1>1. CASE GuestRepaints
  BY <1>1, RepaintKeeps
<1>2. ASSUME NEW k \in 0 .. MaxWork, Act(k) PROVE IInv'
  BY <1>2, CallerKeeps DEF Act
<1>3. ASSUME NEW ref \in Pictures \cup {NoPicture}, NEW n \in FrameCounts,
             NEW r \in Reading, Start(ref, n, r)
      PROVE  IInv'
  BY <1>3, CallerKeeps DEF Start
<1>4. CASE Dump
  BY <1>4, DumpKeeps
<1>5. CASE PollFails
  BY <1>5, CallerKeeps DEF PollFails
<1>6. ASSUME NEW r \in Reading, NEW late \in Clock, Judge(r, late) PROVE IInv'
  BY <1>6, JudgeKeeps
<1>7. CASE SnapshotNow
  <2>1. pc' = "idle" /\ UNCHANGED <<screen, work, need, reference, outcome, shown, readings>>
    BY <1>7 DEF SnapshotNow, guest, history
  <2>. QED
    BY <2>1 DEF IInv, LoopInv, RunInv, ChangedInv, StableIsStill, StableIsFinal,
                VerdictNamesTheFault, Measured
<1>8. CASE UNCHANGED vars
  BY <1>8 DEF vars, guest, locals, history, IInv, TypeOK, LoopInv, RunInv, ChangedInv,
              StableIsStill, StableIsFinal, VerdictNamesTheFault, Measured
<1>. QED
  BY <1>1, <1>2, <1>3, <1>4, <1>5, <1>6, <1>7, <1>8 DEF Next

\* A stable settle saw `need` frames of one picture, in polls none of which was
\* measured busy, after the screen had left the reference.
THEOREM SettleStill == Spec => []StableIsStill
<1>1. IInv => StableIsStill
  BY DEF IInv
<1>. QED
  BY <1>1, InitIInv, IInvStep, PTL DEF Spec

\* A settle of two frames or more that ends on measured evidence leaves the guest
\* with nothing to repaint and the screen as it was photographed.
THEOREM SettleFinal == Spec => []StableIsFinal
<1>1. IInv => StableIsFinal
  BY DEF IInv
<1>. QED
  BY <1>1, InitIInv, IInvStep, PTL DEF Spec

\* The reason of a failed settle is the true one.
THEOREM SettleReason == Spec => []VerdictNamesTheFault
<1>1. IInv => VerdictNamesTheFault
  BY DEF IInv
<1>. QED
  BY <1>1, InitIInv, IInvStep, PTL DEF Spec

\* The verdict of a settle is true, whichever it is.
THEOREM SettleVerdict == Spec => []VerdictIsTrue
BY SettleStill, SettleFinal, SettleReason, PTL DEF VerdictIsTrue

-----------------------------------------------------------------------------
(* The walk.                                                               *)

(* The inductive invariant.                                                *)

\* The screen is known to be settled: nothing was done since a stable settle.
Quiescent == pc = "idle" /\ outcome = "stable"

WalkInv ==
  /\ ~waiting => pc = "idle"
  /\ phase \in {"baseline", "final"} => waiting
  /\ phase \in {"idle", "diagnose"} => ~waiting
  /\ (phase \in {"reset", "steps"} /\ waiting) => todo # <<>>
  /\ phase = "final" => dirty
  /\ phase \in {"steps", "final"} => mark # NoPicture
  \* The settle that runs asks the screen to leave the mark.
  /\ (phase \in {"steps", "final"} /\ waiting /\ dirty) => reference = mark
  \* The frame about to be kept as the mark is the last one of the history.
  /\ (waiting /\ Quiescent) => /\ shown # <<>>
                               /\ LastFrame = shown[Len(shown)]
  /\ (phase = "steps" /\ ~waiting /\ ~dirty) =>
        /\ Quiescent
        /\ OnEvidence => mark = screen
  /\ status = "ok" => phase = "idle"
  /\ (status = "ok" /\ job = "state") =>
        /\ Quiescent
        /\ OnEvidence => shot = screen

RunnerInv == IInv /\ WalkTypeOK /\ WalkInv

LEMMA RunnerInitInv == RunnerInit => RunnerInv
<1>. SUFFICES ASSUME RunnerInit PROVE RunnerInv
  OBVIOUS
<1>1. IInv
  BY InitIInv DEF RunnerInit
<1>2. WalkTypeOK
  <2>1. todo \in Seq(StepKinds)
    BY DEF RunnerInit
  <2>. QED
    BY <2>1 DEF RunnerInit, WalkTypeOK
<1>3. WalkInv
  BY DEF RunnerInit, Init, WalkInv
<1>. QED
  BY <1>1, <1>2, <1>3 DEF RunnerInv

-----------------------------------------------------------------------------
(* The walk runs the settle of module Settle.                              *)

LEMMA WalkIsSettle == WalkTypeOK /\ [RunnerNext]_allVars => [Next]_vars
<1>. SUFFICES ASSUME WalkTypeOK, [RunnerNext]_allVars PROVE [Next]_vars
  OBVIOUS
<1>. USE DEF Next
<1>1. CASE GuestRepaints /\ UNCHANGED walk
  BY <1>1
<1>2. CASE InSettle /\ UNCHANGED walk
  BY <1>2 DEF InSettle, Poll
<1>3. ASSUME NEW j \in {"state", "mode"}, Begin(j) PROVE [Next]_vars
  BY <1>3 DEF Begin
<1>4. ASSUME NEW k \in 0 .. MaxWork, Execute(k) PROVE [Next]_vars
  BY <1>4 DEF Execute
<1>5. ASSUME NEW r \in Reading, CallSettle(r) PROVE [Next]_vars
  <2>1. \E ref \in {Reference, NoPicture} : Start(ref, SettleFrames, r)
    BY <1>5 DEF CallSettle
  <2>2. Reference \in Pictures \cup {NoPicture}
    BY DEF Reference, WalkTypeOK
  <2>. QED
    BY <2>1, <2>2, SettleFramesAssumption
<1>6. CASE ModeSnapshot
  BY <1>6 DEF ModeSnapshot
<1>7. ASSUME NEW k \in 0 .. MaxWork, NEW reason \in {"error", "lost"},
             ExecuteFails(k, reason)
      PROVE  [Next]_vars
  BY <1>7 DEF ExecuteFails
<1>8. CASE Wait \/ StepSettled \/ (\E p \in Programs : BaselineSettled(p)) \/ Shoot
           \/ ModeApplied \/ SettleFailed \/ (\E q \in {"error", "lost"} : CallFails(q))
           \/ Diagnose
  BY <1>8 DEF Wait, StepSettled, BaselineSettled, Shoot, ModeApplied, SettleFailed,
              CallFails, Diagnose
<1>9. CASE UNCHANGED allVars
  BY <1>9 DEF allVars
<1>. QED
  BY <1>1, <1>2, <1>3, <1>4, <1>5, <1>6, <1>7, <1>8, <1>9 DEF RunnerNext, Walk

\* The tail of a list of steps is a list of steps.
LEMMA TailOfSteps ==
  ASSUME NEW s \in Seq(StepKinds), s # <<>>
  PROVE  Tail(s) \in Seq(StepKinds)
  OBVIOUS

LEMMA LastFrameType ==
  ASSUME TypeOK, shown # <<>>, LastFrame = shown[Len(shown)]
  PROVE  LastFrame \in Pictures /\ LastFrame # NoPicture
<1>1. Len(shown) \in 1 .. Len(shown)
  BY DEF TypeOK
<1>. QED
  BY <1>1, PicturesAssumption DEF TypeOK

-----------------------------------------------------------------------------
(* The invariant is kept by every step.                                    *)

\* A failure leaves a job that is neither walking nor ok.
LEMMA FailKeeps ==
  ASSUME WalkTypeOK, NEW reason \in {"error", "lost", "timeout", "never changed"},
         Fail(reason), pc' = "idle"
  PROVE  WalkTypeOK' /\ WalkInv'
<1>1. /\ phase' \in {"diagnose", "idle"}
      /\ status' \in {"failed", "lost"}
      /\ waiting' = FALSE
      /\ UNCHANGED <<job, todo, dirty, mark, shot>>
  BY DEF Fail, FailureStatus
<1>2. WalkTypeOK'
  BY <1>1 DEF WalkTypeOK
<1>3. WalkInv'
  BY <1>1 DEF WalkInv
<1>. QED
  BY <1>2, <1>3

LEMMA GuestKeeps ==
  ASSUME RunnerInv, GuestRepaints, UNCHANGED walk
  PROVE  WalkTypeOK' /\ WalkInv'
<1>1. /\ UNCHANGED <<pc, reference, need, frames, slot, outcome, shown, readings>>
      /\ UNCHANGED <<job, phase, todo, dirty, mark, waiting, status, shot>>
  BY DEF GuestRepaints, locals, history, walk
<1>2. WalkTypeOK'
  BY <1>1 DEF RunnerInv, WalkTypeOK
\* A settled guest, seen on evidence, has nothing to repaint.
<1>3. ~(Quiescent /\ OnEvidence)
  BY DEF RunnerInv, IInv, TypeOK, StableIsFinal, Quiescent, OnEvidence, GuestRepaints
<1>4. Quiescent' = Quiescent /\ OnEvidence' = OnEvidence /\ LastFrame' = LastFrame
  BY <1>1 DEF Quiescent, OnEvidence, LastFrame, Measured
<1>5. WalkInv'
  BY <1>1, <1>3, <1>4 DEF RunnerInv, WalkInv
<1>. QED
  BY <1>2, <1>5

LEMMA SettleStepKeeps ==
  ASSUME RunnerInv, InSettle, UNCHANGED walk
  PROVE  WalkTypeOK' /\ WalkInv'
<1>1. /\ pc # "idle"
      /\ UNCHANGED reference
      /\ UNCHANGED <<job, phase, todo, dirty, mark, waiting, status, shot>>
  BY DEF InSettle, Poll, Dump, PollFails, Judge, locals, walk
<1>2. WalkTypeOK'
  BY <1>1 DEF RunnerInv, WalkTypeOK
<1>3. waiting /\ ~(phase = "steps" /\ ~waiting) /\ ~(status = "ok" /\ job = "state")
  BY <1>1 DEF RunnerInv, WalkInv, Quiescent
<1>4. Quiescent' => shown' # <<>> /\ LastFrame' = shown'[Len(shown')]
  <2>. SUFFICES ASSUME pc' = "idle", outcome' = "stable"
                PROVE  shown' # <<>> /\ LastFrame' = shown'[Len(shown')]
    BY DEF Quiescent
  <2>1. PICK r \in Reading, late \in Clock : Judge(r, late)
    BY DEF InSettle, Poll, Dump, PollFails
  <2>2. pc = "judge" /\ slot' = slot /\ UNCHANGED <<frames, shown>>
    BY <2>1 DEF Judge
  <2>3. Len(shown) = Len(readings) + 1 /\ frames[slot] = shown[Len(shown)]
    BY <2>2 DEF RunnerInv, IInv, LoopInv
  <2>4. shown # <<>>
    BY <2>3 DEF RunnerInv, IInv, TypeOK
  <2>. QED
    BY <2>2, <2>3, <2>4 DEF LastFrame
<1>5. status # "ok"
  BY <1>1, <1>3 DEF RunnerInv, WalkInv
<1>6. WalkInv'
  BY <1>1, <1>3, <1>4, <1>5 DEF RunnerInv, WalkInv
<1>. QED
  BY <1>2, <1>6

LEMMA BeginKeeps ==
  ASSUME RunnerInv, NEW j \in {"state", "mode"}, Begin(j)
  PROVE  WalkTypeOK' /\ WalkInv'
<1>1. WalkTypeOK'
  BY StepListsAssumption DEF RunnerInv, WalkTypeOK, Begin
<1>2. pc = "idle" /\ pc' = pc
  BY DEF RunnerInv, WalkInv, Begin, vars
<1>3. WalkInv'
  BY <1>2 DEF Begin, WalkInv
<1>. QED
  BY <1>1, <1>3

LEMMA ExecuteKeeps ==
  ASSUME RunnerInv, NEW k \in 0 .. MaxWork, Execute(k)
  PROVE  WalkTypeOK' /\ WalkInv'
<1>1. /\ phase \in {"reset", "steps"} /\ ~waiting /\ todo # <<>>
      /\ todo' = Tail(todo)
      /\ dirty' = TRUE
      /\ pc' = "idle"
      /\ UNCHANGED <<job, phase, mark, waiting, status, shot>>
  BY DEF Execute, AtStep, DirtyAfter, Act
<1>2. todo' \in Seq(StepKinds)
  BY <1>1, TailOfSteps DEF RunnerInv, WalkTypeOK
<1>3. WalkTypeOK'
  BY <1>1, <1>2 DEF RunnerInv, WalkTypeOK
<1>4. WalkInv'
  BY <1>1 DEF RunnerInv, WalkInv
<1>. QED
  BY <1>3, <1>4

LEMMA WaitKeeps == RunnerInv /\ Wait => WalkTypeOK' /\ WalkInv'
<1>. SUFFICES ASSUME RunnerInv, Wait PROVE WalkTypeOK' /\ WalkInv'
  OBVIOUS
<1>1. /\ phase \in {"reset", "steps"} /\ ~waiting /\ todo # <<>>
      /\ todo' = Tail(todo)
      /\ dirty' = dirty
      /\ UNCHANGED <<job, phase, mark, waiting, status, shot>>
      /\ UNCHANGED <<screen, pc, reference, need, frames, slot, outcome, shown, readings>>
  BY DEF Wait, AtStep, DirtyAfter, RunnerInv, WalkTypeOK, vars, guest, locals, history
<1>2. todo' \in Seq(StepKinds)
  BY <1>1, TailOfSteps DEF RunnerInv, WalkTypeOK
<1>3. WalkTypeOK'
  BY <1>1, <1>2 DEF RunnerInv, WalkTypeOK
<1>4. Quiescent' = Quiescent /\ OnEvidence' = OnEvidence
  BY <1>1 DEF Quiescent, OnEvidence, Measured
<1>5. WalkInv'
  BY <1>1, <1>4 DEF RunnerInv, WalkInv
<1>. QED
  BY <1>3, <1>5

LEMMA CallSettleKeeps ==
  ASSUME RunnerInv, NEW r \in Reading, CallSettle(r)
  PROVE  WalkTypeOK' /\ WalkInv'
<1>1. /\ waiting' = TRUE /\ pc' = "dump" /\ outcome' = "none"
      /\ phase' \in {"reset", "baseline", "steps", "final"}
      /\ phase' \in {"steps", "final"} => phase = "steps"
      /\ phase' = "final" => dirty
      /\ (phase' \in {"steps", "final"} /\ dirty) => reference' = mark
      /\ phase \in {"reset", "steps"} /\ ~waiting
      /\ phase' \in {"reset", "steps"} => todo # <<>>
      /\ UNCHANGED <<job, todo, dirty, mark, status, shot>>
  BY DEF CallSettle, AtStep, Start, Reference
<1>2. WalkTypeOK'
  BY <1>1 DEF RunnerInv, WalkTypeOK
<1>3. WalkInv'
  BY <1>1 DEF RunnerInv, WalkInv, Quiescent
<1>. QED
  BY <1>2, <1>3

\* What a successful settle hands to the walk.
LEMMA SettledFacts ==
  ASSUME RunnerInv, Settled
  PROVE  /\ Quiescent
         /\ LastFrame \in Pictures
         /\ LastFrame # NoPicture
         /\ OnEvidence => LastFrame = screen
<1>1. Quiescent /\ waiting
  BY DEF Settled, Quiescent
<1>2. shown # <<>> /\ LastFrame = shown[Len(shown)]
  BY <1>1 DEF RunnerInv, WalkInv
<1>3. LastFrame \in Pictures /\ LastFrame # NoPicture
  BY <1>2, LastFrameType DEF RunnerInv, IInv
<1>4. OnEvidence => shown[Len(shown)] = screen
  BY <1>1 DEF RunnerInv, IInv, StableIsFinal, OnEvidence, Quiescent
<1>. QED
  BY <1>1, <1>2, <1>3, <1>4

LEMMA StepSettledKeeps == RunnerInv /\ StepSettled => WalkTypeOK' /\ WalkInv'
<1>. SUFFICES ASSUME RunnerInv, StepSettled PROVE WalkTypeOK' /\ WalkInv'
  OBVIOUS
<1>1. /\ Settled /\ phase \in {"reset", "steps"}
      /\ todo' = Tail(todo)
      /\ dirty' = FALSE
      /\ mark' = IF phase = "steps" THEN LastFrame ELSE mark
      /\ waiting' = FALSE
      /\ UNCHANGED <<job, phase, status, shot>>
      /\ UNCHANGED <<screen, pc, reference, need, frames, slot, outcome, shown, readings>>
  BY DEF StepSettled, vars, guest, locals, history
<1>2. /\ Quiescent
      /\ LastFrame \in Pictures
      /\ LastFrame # NoPicture
      /\ OnEvidence => LastFrame = screen
  BY <1>1, SettledFacts
<1>3. todo' \in Seq(StepKinds)
  BY <1>1, TailOfSteps DEF RunnerInv, WalkTypeOK, WalkInv, Settled
<1>4. WalkTypeOK'
  BY <1>1, <1>2, <1>3 DEF RunnerInv, WalkTypeOK
<1>5. Quiescent' = Quiescent /\ OnEvidence' = OnEvidence
  BY <1>1 DEF Quiescent, OnEvidence, Measured
<1>6. WalkInv'
  BY <1>1, <1>2, <1>5 DEF RunnerInv, WalkInv, Quiescent
<1>. QED
  BY <1>4, <1>6

LEMMA BaselineKeeps ==
  ASSUME RunnerInv, NEW p \in Programs, BaselineSettled(p)
  PROVE  WalkTypeOK' /\ WalkInv'
<1>1. /\ Settled /\ phase = "baseline" /\ phase' = "steps"
      /\ todo' = p
      /\ dirty' = FALSE
      /\ mark' = LastFrame
      /\ waiting' = FALSE
      /\ UNCHANGED <<job, status, shot>>
      /\ UNCHANGED <<screen, pc, reference, need, frames, slot, outcome, shown, readings>>
  BY DEF BaselineSettled, vars, guest, locals, history
<1>2. /\ Quiescent
      /\ LastFrame \in Pictures
      /\ LastFrame # NoPicture
      /\ OnEvidence => LastFrame = screen
  BY <1>1, SettledFacts
<1>3. WalkTypeOK'
  BY <1>1, <1>2, StepListsAssumption DEF RunnerInv, WalkTypeOK
<1>4. Quiescent' = Quiescent /\ OnEvidence' = OnEvidence
  BY <1>1 DEF Quiescent, OnEvidence, Measured
<1>5. WalkInv'
  BY <1>1, <1>2, <1>4 DEF RunnerInv, WalkInv, Quiescent
<1>. QED
  BY <1>3, <1>5

LEMMA SnapshotKeeps == RunnerInv /\ ModeSnapshot => WalkTypeOK' /\ WalkInv'
<1>. SUFFICES ASSUME RunnerInv, ModeSnapshot PROVE WalkTypeOK' /\ WalkInv'
  OBVIOUS
<1>1. /\ Settled /\ phase = "baseline" /\ phase' = "steps"
      /\ todo' = <<"effect">>
      /\ dirty' = FALSE
      /\ mark' = screen
      /\ waiting' = FALSE
      /\ UNCHANGED <<job, status, shot, screen, pc, outcome>>
  BY DEF ModeSnapshot, SnapshotNow, guest
<1>2. screen \in Pictures /\ screen # NoPicture
  BY PicturesAssumption DEF RunnerInv, IInv, TypeOK
<1>3. todo' \in Seq(StepKinds)
  BY <1>1 DEF StepKinds
<1>4. WalkTypeOK'
  BY <1>1, <1>2, <1>3 DEF RunnerInv, WalkTypeOK
<1>5. Quiescent'
  BY <1>1 DEF Quiescent, Settled
<1>6. WalkInv'
  BY <1>1, <1>2, <1>5 DEF RunnerInv, WalkInv, Quiescent
<1>. QED
  BY <1>4, <1>6

LEMMA ShootKeeps == RunnerInv /\ Shoot => WalkTypeOK' /\ WalkInv'
<1>. SUFFICES ASSUME RunnerInv, Shoot PROVE WalkTypeOK' /\ WalkInv'
  OBVIOUS
<1>1. /\ phase' = "idle" /\ waiting' = FALSE /\ status' = "ok" /\ shot' = screen
      /\ UNCHANGED <<job, todo, dirty, mark>>
      /\ UNCHANGED <<screen, pc, reference, need, frames, slot, outcome, shown, readings>>
  BY DEF Shoot, vars, guest, locals, history
<1>2. Quiescent
  BY SettledFacts DEF Shoot, RunnerInv, WalkInv
<1>3. WalkTypeOK'
  BY <1>1 DEF RunnerInv, WalkTypeOK, IInv, TypeOK
<1>4. Quiescent'
  BY <1>1, <1>2 DEF Quiescent
<1>5. WalkInv'
  BY <1>1, <1>4 DEF WalkInv, Quiescent
<1>. QED
  BY <1>3, <1>5

LEMMA AppliedKeeps == RunnerInv /\ ModeApplied => WalkTypeOK' /\ WalkInv'
<1>. SUFFICES ASSUME RunnerInv, ModeApplied PROVE WalkTypeOK' /\ WalkInv'
  OBVIOUS
<1>1. /\ phase' = "idle" /\ waiting' = FALSE /\ status' = "ok" /\ job = "mode"
      /\ pc = "idle"
      /\ UNCHANGED <<job, todo, dirty, mark, shot, pc>>
  BY DEF ModeApplied, Settled, vars
<1>2. WalkTypeOK'
  BY <1>1 DEF RunnerInv, WalkTypeOK
<1>3. WalkInv'
  BY <1>1 DEF WalkInv
<1>. QED
  BY <1>2, <1>3

LEMMA WalkKeeps == RunnerInv /\ Walk => WalkTypeOK' /\ WalkInv'
<1>. SUFFICES ASSUME RunnerInv, Walk PROVE WalkTypeOK' /\ WalkInv'
  OBVIOUS
<1>. WalkTypeOK
  BY DEF RunnerInv
<1>1. ASSUME NEW k \in 0 .. MaxWork, Execute(k) PROVE WalkTypeOK' /\ WalkInv'
  BY <1>1, ExecuteKeeps
<1>2. ASSUME NEW r \in Reading, CallSettle(r) PROVE WalkTypeOK' /\ WalkInv'
  BY <1>2, CallSettleKeeps
<1>3. ASSUME NEW p \in Programs, BaselineSettled(p) PROVE WalkTypeOK' /\ WalkInv'
  BY <1>3, BaselineKeeps
<1>4. CASE Wait \/ StepSettled \/ ModeSnapshot \/ Shoot \/ ModeApplied
  BY <1>4, WaitKeeps, StepSettledKeeps, SnapshotKeeps, ShootKeeps, AppliedKeeps
<1>5. CASE SettleFailed
  <2>1. \E reason \in {"error", "lost", "timeout", "never changed"} : Fail(reason)
    BY <1>5 DEF SettleFailed
  <2>2. pc' = "idle"
    BY <1>5 DEF SettleFailed, vars
  <2>. QED
    BY <2>1, <2>2, FailKeeps
<1>6. ASSUME NEW k \in 0 .. MaxWork, NEW reason \in {"error", "lost"},
             ExecuteFails(k, reason)
      PROVE  WalkTypeOK' /\ WalkInv'
  <2>1. Fail(reason) /\ pc' = "idle"
    BY <1>6 DEF ExecuteFails, Act
  <2>. QED
    BY <2>1, FailKeeps
<1>7. ASSUME NEW reason \in {"error", "lost"}, CallFails(reason)
      PROVE  WalkTypeOK' /\ WalkInv'
  <2>1. Fail(reason) /\ pc' = pc
    BY <1>7 DEF CallFails, vars
  <2>2. pc = "idle"
    BY <1>7 DEF CallFails, RunnerInv, WalkInv, Settled
  <2>. QED
    BY <2>1, <2>2, FailKeeps
<1>8. CASE Diagnose
  <2>1. /\ phase = "diagnose" /\ phase' = "idle"
        /\ UNCHANGED <<job, todo, dirty, mark, waiting, status, shot>>
        /\ UNCHANGED <<screen, pc, reference, need, frames, slot, outcome, shown, readings>>
    BY <1>8 DEF Diagnose, vars, guest, locals, history
  <2>2. Quiescent' = Quiescent /\ OnEvidence' = OnEvidence /\ LastFrame' = LastFrame
    BY <2>1 DEF Quiescent, OnEvidence, Measured, LastFrame
  <2>3. WalkTypeOK'
    BY <2>1 DEF WalkTypeOK
  <2>4. WalkInv'
    BY <2>1, <2>2 DEF RunnerInv, WalkInv
  <2>. QED
    BY <2>3, <2>4
<1>. QED
  BY <1>1, <1>2, <1>3, <1>4, <1>5, <1>6, <1>7, <1>8 DEF Walk

LEMMA RunnerInvStep == RunnerInv /\ [RunnerNext]_allVars => RunnerInv'
<1>. SUFFICES ASSUME RunnerInv, [RunnerNext]_allVars PROVE RunnerInv'
  OBVIOUS
<1>1. IInv'
  BY WalkIsSettle, IInvStep DEF RunnerInv
<1>2. CASE GuestRepaints /\ UNCHANGED walk
  BY <1>1, <1>2, GuestKeeps DEF RunnerInv
<1>3. CASE InSettle /\ UNCHANGED walk
  BY <1>1, <1>3, SettleStepKeeps DEF RunnerInv
<1>4. ASSUME NEW j \in {"state", "mode"}, Begin(j) PROVE RunnerInv'
  BY <1>1, <1>4, BeginKeeps DEF RunnerInv
<1>5. CASE Walk
  BY <1>1, <1>5, WalkKeeps DEF RunnerInv
<1>6. CASE UNCHANGED allVars
  <2>1. WalkTypeOK'
    BY <1>6 DEF allVars, walk, RunnerInv, WalkTypeOK
  <2>2. Quiescent' = Quiescent /\ OnEvidence' = OnEvidence /\ LastFrame' = LastFrame
    BY <1>6 DEF allVars, vars, locals, history, Quiescent, OnEvidence, Measured, LastFrame
  <2>3. WalkInv'
    BY <1>6, <2>2 DEF allVars, walk, vars, guest, locals, history, RunnerInv, WalkInv
  <2>. QED
    BY <1>1, <2>1, <2>3 DEF RunnerInv
<1>. QED
  BY <1>2, <1>3, <1>4, <1>5, <1>6 DEF RunnerNext

-----------------------------------------------------------------------------
(* The theorems.                                                           *)

\* The walk of run_state and apply_mode uses settle as module Settle specifies it.
THEOREM RunnerRunsSettle == RunnerSpec => Init /\ [][Next]_vars
<1>1. RunnerInit => Init
  BY DEF RunnerInit
<1>2. RunnerInv /\ [RunnerNext]_allVars => [Next]_vars
  BY WalkIsSettle DEF RunnerInv
<1>. QED
  BY <1>1, <1>2, RunnerInitInv, RunnerInvStep, PTL DEF RunnerSpec

\* The type invariant of the walk.
THEOREM RunnerTypeCorrect == RunnerSpec => []WalkTypeOK
<1>1. RunnerInv => WalkTypeOK
  BY DEF RunnerInv
<1>. QED
  BY <1>1, RunnerInitInv, RunnerInvStep, PTL DEF RunnerSpec

\* A state reported ok was photographed once the guest had finished, whatever its
\* step list, the reset steps and the jobs before it.
THEOREM RunnerShotFinal == RunnerSpec => []ShotIsFinal
<1>1. RunnerInv => ShotIsFinal
  <2>. SUFFICES ASSUME RunnerInv, job = "state", status = "ok", OnEvidence
                PROVE  work = 0 /\ shot = screen
    BY DEF ShotIsFinal
  <2>1. Quiescent /\ shot = screen
    BY DEF RunnerInv, WalkInv
  <2>2. work = 0
    BY <2>1 DEF RunnerInv, IInv, StableIsFinal, Quiescent, OnEvidence
  <2>. QED
    BY <2>1, <2>2
<1>. QED
  BY <1>1, RunnerInitInv, RunnerInvStep, PTL DEF RunnerSpec

\* Between two steps the reference is the screen of a guest that has finished.
THEOREM RunnerReferenceCurrent == RunnerSpec => []ReferenceIsCurrent
<1>1. RunnerInv => ReferenceIsCurrent
  <2>. SUFFICES ASSUME RunnerInv, phase = "steps", ~waiting, ~dirty, OnEvidence
                PROVE  work = 0 /\ mark = screen
    BY DEF ReferenceIsCurrent
  <2>1. Quiescent /\ mark = screen
    BY DEF RunnerInv, WalkInv
  <2>2. work = 0
    BY <2>1 DEF RunnerInv, IInv, StableIsFinal, Quiescent, OnEvidence
  <2>. QED
    BY <2>1, <2>2
<1>. QED
  BY <1>1, RunnerInitInv, RunnerInvStep, PTL DEF RunnerSpec

\* No settle after an effect is accepted before the screen left the old picture.
THEOREM RunnerEffectSeen == RunnerSpec => []EffectWasSeen
<1>1. RunnerInv => EffectWasSeen
  <2>. SUFFICES ASSUME RunnerInv, phase \in {"steps", "final"}, dirty, Settled
                PROVE  \E i \in 1 .. Len(shown) : shown[i] # mark
    BY DEF EffectWasSeen
  <2>1. reference = mark /\ mark # NoPicture
    BY DEF RunnerInv, WalkInv, Settled
  <2>2. \E i \in 1 .. Len(shown) : shown[i] # reference
    BY <2>1 DEF RunnerInv, IInv, StableIsStill, Settled
  <2>. QED
    BY <2>1, <2>2
<1>. QED
  BY <1>1, RunnerInitInv, RunnerInvStep, PTL DEF RunnerSpec
=============================================================================
