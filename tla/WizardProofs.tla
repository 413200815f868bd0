---------------------------- MODULE WizardProofs ----------------------------
(***************************************************************************)
(* Proofs about Wizard and Preparation, the two programs that make the     *)
(* installed system ready for its pictures.  For every number of pages and *)
(* of attempts, no page is passed unseen, and a finished wizard has        *)
(* installed; for all files, fragments and packages, a session starts only *)
(* when everything it reads is in place, and the product is left alone.    *)
(***************************************************************************)
EXTENDS Wizard, Preparation, FiniteSetTheorems, WellFoundedInduction, NaturalsInduction, TLAPS

-----------------------------------------------------------------------------
(* The wizard.                                                             *)

\* What a call of the driver has counted and recognised so far.
CallInv ==
  /\ pc \in {"click", "poll"} => attempt \in 1 .. PageAttempts
  /\ pc \in {"install", "watch"} => attempt \in 1 .. InstallAttempts
  /\ pc \in {"click", "poll"} => target \in 1 .. Summary
  /\ pc = "shot" => target \in 0 .. Summary
  /\ pc = "fill" => target \in Forms
  /\ pc \in {"launch"} => target = 0
  /\ pc \in {"install", "watch", "finish", "finished"} => target = InstallPage
  /\ pc = "click" => last = NoPage \/ last <= target

\* Calamares' side: the screen shows its page, and the page tells how far the
\* installation is.
GuestInv ==
  /\ screen.page = page
  /\ screen.dialog = (jobs = "failed")
  /\ jobs = "no" => page <= Summary
  /\ jobs = "running" => page = InstallPage
  /\ jobs \in {"ok", "failed"} => page = FinishPage

TypeInv == TypeOK /\ CallInv /\ GuestInv

\* While no click can be late, what is under way leads no further than the page the
\* driver waits for.
UnderWay ==
  ~slow =>
    /\ target <= Summary => page + pending["next"] <= target /\ pending["install"] = 0
    /\ pc \in {"launch", "shot", "fill"} => page = target
    /\ pc \in {"click", "poll"} => page >= target - 1 /\ start.page = target - 1
    /\ pc = "click" => pending["next"] = 0 /\ (click => page = target - 1)

Inv == TypeInv /\ UnderWay /\ FinishedMeansInstalled

LEMMA Bounds ==
  /\ Summary \in Nat /\ Summary >= 1
  /\ InstallPage = Summary + 1 /\ FinishPage = Summary + 2 /\ NoPage = Summary + 3
  /\ PageAttempts \in Nat /\ PageAttempts >= 1
  /\ InstallAttempts \in Nat /\ InstallAttempts >= 1
  /\ \A f \in Forms : f \in 1 .. Summary - 1
BY SummaryAssumption, AttemptsAssumption, FormsAssumption
   DEF InstallPage, FinishPage, NoPage

LEMMA PageAtType ==
  ASSUME NEW picture \in Pictures
  PROVE  /\ PageAt(picture) \in Pages \cup {NoPage}
         /\ PageAt(picture) # NoPage => PageAt(picture) = picture.page
         /\ picture.page \in Pages
BY DEF PageAt, Pictures

LEMMA PaintedType ==
  ASSUME NEW p \in Pages, NEW q \in Painted(p)
  PROVE  q \in Pictures /\ q.page = p
BY DEF Painted

LEMMA InitInv == Init => Inv
<1>. SUFFICES ASSUME Init PROVE Inv
  OBVIOUS
<1>1. screen \in Pictures /\ screen.page = 0 /\ screen.dialog = FALSE
  BY Bounds DEF Init, Pictures, Pages
<1>2. TypeOK
  BY <1>1, Bounds DEF Init, TypeOK, Pages, Buttons
<1>3. CallInv
  BY Bounds DEF Init, CallInv
<1>4. GuestInv
  <2>1. screen.dialog = (jobs = "failed")
    BY <1>1 DEF Init
  <2>2. page = 0 /\ jobs = "no"
    BY DEF Init
  <2>. QED
    BY <1>1, <2>1, <2>2, Bounds DEF GuestInv
<1>5. UnderWay /\ FinishedMeansInstalled
  BY Bounds DEF Init, UnderWay, Buttons, FinishedMeansInstalled
<1>. QED
  BY <1>2, <1>3, <1>4, <1>5 DEF Inv, TypeInv

-----------------------------------------------------------------------------
(* The types, step by step.                                                *)

LEMMA RepaintType == ASSUME TypeInv, Repaint PROVE TypeInv'
<1>1. screen' \in Pictures /\ screen'.page = page /\ screen'.dialog = (jobs = "failed")
  BY PaintedType DEF TypeInv, TypeOK, Repaint
<1>2. UNCHANGED <<slow, page, pending, jobs, pc, target, attempt, click, start, ref, last>>
  BY DEF Repaint, call
<1>3. TypeOK'
  BY <1>1, <1>2 DEF TypeInv, TypeOK
<1>4. CallInv'
  BY <1>2 DEF TypeInv, CallInv
<1>5. GuestInv'
  BY <1>1, <1>2 DEF TypeInv, GuestInv
<1>. QED
  BY <1>3, <1>4, <1>5 DEF TypeInv

LEMMA TakeClickType ==
  ASSUME TypeInv, NEW button \in Buttons, TakeClick(button) PROVE TypeInv'
<1>1. UNCHANGED <<slow, pc, target, attempt, click, start, ref, last>>
  BY DEF TakeClick, call
<1>2. pending' \in [Buttons -> Nat]
  BY DEF TakeClick, TypeInv, TypeOK
<1>3. CallInv'
  BY <1>1 DEF TypeInv, CallInv
<1>4. CASE LeadsOn(button)
  <2>1. page \in Nat /\ page <= Summary /\ page' = page + 1 /\ page' \in Pages
    BY <1>4, Bounds DEF LeadsOn, TakeClick, TypeInv, TypeOK, Pages
  <2>2. screen' \in Pictures /\ screen'.page = page' /\ screen'.dialog = FALSE
    BY <1>4, <2>1, PaintedType DEF TakeClick, Pictures
  <2>3. jobs = "no"
    BY <2>1, Bounds DEF TypeInv, TypeOK, GuestInv
  <2>4. jobs' = (IF button = "install" THEN "running" ELSE "no")
    BY <1>4, <2>3 DEF TakeClick
  <2>5. TypeOK'
    BY <1>1, <1>2, <2>1, <2>2, <2>4 DEF TypeInv, TypeOK
  <2>6. button = "install" => page = Summary
    BY <1>4 DEF LeadsOn
  <2>7. button # "install" => page < Summary
    BY <1>4 DEF LeadsOn, Buttons
  <2>8. screen'.dialog = (jobs' = "failed")
    BY <2>2, <2>4
  <2>9. GuestInv'
    BY <2>1, <2>2, <2>4, <2>6, <2>7, <2>8, Bounds DEF GuestInv
  <2>. QED
    BY <1>3, <2>5, <2>9 DEF TypeInv
<1>5. CASE ~LeadsOn(button)
  <2>1. UNCHANGED <<page, screen, jobs>>
    BY <1>5 DEF TakeClick
  <2>. QED
    BY <1>1, <1>2, <1>3, <2>1 DEF TypeInv, TypeOK, GuestInv
<1>. QED
  BY <1>4, <1>5

LEMMA LoseClickType ==
  ASSUME TypeInv, NEW button \in Buttons, LoseClick(button) PROVE TypeInv'
<1>1. UNCHANGED <<slow, page, screen, jobs, pc, target, attempt, click, start, ref, last>>
  BY DEF LoseClick, call
<1>2. pending' \in [Buttons -> Nat]
  BY DEF LoseClick, TypeInv, TypeOK
<1>3. TypeOK' /\ CallInv' /\ GuestInv'
  BY <1>1, <1>2 DEF TypeInv, TypeOK, CallInv, GuestInv
<1>. QED
  BY <1>3 DEF TypeInv

LEMMA JobsEndType == ASSUME TypeInv, JobsEnd PROVE TypeInv'
<1>1. UNCHANGED <<slow, pending, pc, target, attempt, click, start, ref, last>>
  BY DEF JobsEnd, call
<1>2. page' = FinishPage /\ page' \in Pages /\ jobs' \in {"ok", "failed"}
  BY Bounds DEF JobsEnd, Pages
<1>3. /\ screen' \in Pictures /\ screen'.page = page'
      /\ screen'.dialog = (jobs' = "failed")
  BY <1>2, PaintedType DEF JobsEnd
<1>4. TypeOK'
  BY <1>1, <1>2, <1>3 DEF TypeInv, TypeOK
<1>5. CallInv' /\ GuestInv'
  BY <1>1, <1>2, <1>3 DEF TypeInv, CallInv, GuestInv
<1>. QED
  BY <1>4, <1>5 DEF TypeInv

\* The steps of the driver leave Calamares alone but for a click under way.
LEMMA DriverGuest ==
  ASSUME TypeInv, UNCHANGED <<slow, page, screen, jobs>>,
         pending' \in [Buttons -> Nat], TypeOK', CallInv'
  PROVE  TypeInv'
BY DEF TypeInv, GuestInv

LEMMA CallSteps ==
  ASSUME TypeInv, Launch \/ Fill \/ SeeFinish \/ TimeOut \/ Raise PROVE TypeInv'
<1>1. UNCHANGED <<slow, page, screen, pending, jobs, target, attempt, click, start, ref, last>>
  BY DEF Launch, Fill, SeeFinish, TimeOut, Raise, guest, call
<1>2. /\ pc' \in {"shot", "finished", "raised"}
      /\ pc' = "shot" => target \in 0 .. Summary
      /\ pc' = "finished" => target = InstallPage
  BY Bounds DEF Launch, Fill, SeeFinish, TimeOut, Raise, TypeInv, CallInv
<1>3. TypeOK' /\ CallInv'
  BY <1>1, <1>2 DEF TypeInv, TypeOK, CallInv
<1>. QED
  BY <1>1, <1>3, DriverGuest DEF TypeInv, TypeOK

LEMMA ShootType == ASSUME TypeInv, Shoot PROVE TypeInv'
<1>1. UNCHANGED <<slow, page, screen, pending, jobs>>
  BY DEF Shoot, guest
<1>2. start' = screen /\ ref' = screen /\ attempt' = 1 /\ click' = TRUE
  BY DEF Shoot
<1>3. target \in 0 .. Summary
  BY DEF Shoot, TypeInv, CallInv
<1>4. \/ pc' = "click" /\ target' \in 1 .. Summary /\ last' = NoPage
      \/ pc' = "install" /\ target' = InstallPage /\ last' = Summary
  BY <1>3, Bounds DEF Shoot
<1>5. TypeOK'
  <2>1. last' \in Pages \cup {NoPage} /\ target' \in 0 .. InstallPage
    BY <1>4, Bounds DEF Pages
  <2>. QED
    BY <1>1, <1>2, <1>4, <2>1, Bounds DEF TypeInv, TypeOK
<1>6. CallInv'
  BY <1>2, <1>4, Bounds DEF CallInv
<1>. QED
  BY <1>1, <1>5, <1>6, DriverGuest DEF TypeInv, TypeOK

LEMMA ClickType == ASSUME TypeInv, ClickNext \/ ClickInstall PROVE TypeInv'
<1>1. UNCHANGED <<slow, page, screen, jobs, target, attempt, click, start, ref, last>>
  BY DEF ClickNext, ClickInstall, call
<1>2. pending' \in [Buttons -> Nat]
  BY DEF ClickNext, ClickInstall, TypeInv, TypeOK, Buttons
<1>3. \/ pc = "click" /\ pc' = "poll"
      \/ pc = "install" /\ pc' = "watch"
  <2>1. ClickNext => pc = "click" /\ pc' = "poll"
    BY DEF ClickNext
  <2>2. ClickInstall => pc = "install" /\ pc' = "watch"
    BY DEF ClickInstall
  <2>. QED
    BY <2>1, <2>2
<1>4. TypeOK' /\ CallInv'
  BY <1>1, <1>2, <1>3 DEF TypeInv, TypeOK, CallInv
<1>. QED
  BY <1>1, <1>2, <1>4, DriverGuest

LEMMA PollPageType == ASSUME TypeInv, PollPage PROVE TypeInv'
<1>1. UNCHANGED <<slow, page, screen, pending, jobs, target, attempt, click, start>>
  BY DEF PollPage, guest
<1>2. last' \in Pages \cup {NoPage} /\ ref' \in Pictures
  BY PageAtType DEF PollPage, TypeInv, TypeOK
<1>3. target \in 1 .. Summary
  BY DEF PollPage, TypeInv, CallInv
<1>4. pc' \in {"fill", "shot", "raised", "poll"} /\ (pc' = "fill" => target \in Forms)
  BY DEF PollPage, AtPage
<1>5. TypeOK' /\ CallInv'
  BY <1>1, <1>2, <1>3, <1>4 DEF PollPage, TypeInv, TypeOK, CallInv
<1>. QED
  BY <1>1, <1>5, DriverGuest DEF TypeInv, TypeOK

LEMMA JudgeFreshType == ASSUME TypeInv, JudgeFresh PROVE TypeInv'
<1>1. UNCHANGED <<slow, page, screen, pending, jobs, target, start, ref>>
  BY DEF JudgeFresh, guest
<1>2. last' = PageAt(screen) /\ last' \in Pages \cup {NoPage}
  BY PageAtType DEF JudgeFresh, TypeInv, TypeOK
<1>3. target \in 1 .. Summary /\ attempt \in 1 .. PageAttempts
  BY DEF JudgeFresh, TypeInv, CallInv
<1>4. click' \in BOOLEAN
  <2>1. Repeat(screen) \in BOOLEAN
    BY DEF Repeat
  <2>. QED
    BY <2>1, Zenon DEF JudgeFresh, TypeInv, TypeOK
<1>5. \/ /\ pc' \in {"fill", "shot", "raised"} /\ (pc' = "fill" => target \in Forms)
         /\ attempt' \in Nat
      \/ /\ pc' = "click" /\ attempt' \in 1 .. PageAttempts
         /\ last' = NoPage \/ last' <= target
  BY <1>2, <1>3, Bounds
  DEF JudgeFresh, AtPage, AttemptsLeft, Overshot, FreshOvershot, Pages
<1>6. TypeOK'
  BY <1>1, <1>2, <1>4, <1>5 DEF TypeInv, TypeOK
<1>7. CallInv'
  BY <1>1, <1>2, <1>3, <1>5 DEF TypeInv, CallInv
<1>. QED
  BY <1>1, <1>6, <1>7, DriverGuest DEF TypeInv, TypeOK

LEMMA WatchType == ASSUME TypeInv, WatchPage \/ WatchOver PROVE TypeInv'
<1>1. UNCHANGED <<slow, page, screen, pending, jobs, target, click, start>>
  BY DEF WatchPage, WatchOver, guest
<1>2. last' \in Pages \cup {NoPage} /\ ref' \in Pictures
  BY PageAtType DEF WatchPage, WatchOver, TypeInv, TypeOK
<1>3. target = InstallPage /\ attempt \in 1 .. InstallAttempts
  BY DEF WatchPage, WatchOver, TypeInv, CallInv
<1>4. pc' \in {"finish", "watch", "install", "raised"} /\ attempt' \in 1 .. InstallAttempts
  BY <1>3, Bounds DEF WatchPage, WatchOver
<1>5. TypeOK' /\ CallInv'
  BY <1>1, <1>2, <1>3, <1>4 DEF TypeInv, TypeOK, CallInv
<1>. QED
  BY <1>1, <1>5, DriverGuest DEF TypeInv, TypeOK

LEMMA StepType == TypeInv /\ [Next]_vars => TypeInv'
<1>. SUFFICES ASSUME TypeInv, [Next]_vars PROVE TypeInv'
  OBVIOUS
<1>1. CASE UNCHANGED vars
  BY <1>1 DEF vars, guest, call, TypeInv, TypeOK, CallInv, GuestInv
<1>2. CASE Next
  BY <1>2, RepaintType, TakeClickType, LoseClickType, JobsEndType, CallSteps, ShootType,
     ClickType, PollPageType, JudgeFreshType, WatchType DEF Next
<1>. QED
  BY <1>1, <1>2

\* Every variable of the driver and of its picture of Calamares keeps its type,
\* and no call makes more attempts than it may.
THEOREM WizardTypeCorrect == Spec => []TypeOK
<1>1. Init => TypeInv
  BY InitInv DEF Inv
<1>2. TypeInv => TypeOK
  BY DEF TypeInv
<1>. QED
  BY <1>1, <1>2, StepType, PTL DEF Spec

-----------------------------------------------------------------------------
(* What is under way.                                                      *)

\* The cells the invariant speaks about are numbers.
LEMMA Numbers ==
  ASSUME TypeInv
  PROVE  /\ page \in Nat /\ target \in Nat
         /\ pending \in [Buttons -> Nat]
         /\ pending["next"] \in Nat /\ pending["install"] \in Nat
         /\ start.page \in Nat /\ screen.page = page
         /\ screen \in Pictures /\ start \in Pictures
BY Bounds DEF TypeInv, TypeOK, GuestInv, Pages, Buttons, Pictures

LEMMA TakeClickUnderWay ==
  ASSUME Inv, NEW button \in Buttons, TakeClick(button) PROVE UnderWay'
<1>. SUFFICES ASSUME ~slow' PROVE UnderWay'
  BY DEF UnderWay
<1>1. TypeInv /\ ~slow /\ UnderWay
  BY DEF Inv, TakeClick
<1>2. UNCHANGED <<slow, pc, target, click, start>>
  BY DEF TakeClick, call
<1>3. CASE button = "next"
  <2>1. pending["next"] > 0 /\ pending'["next"] = pending["next"] - 1
    BY <1>1, <1>3, Numbers DEF TakeClick, Buttons
  <2>2. pending'["install"] = pending["install"]
    BY <1>1, <1>3, Numbers DEF TakeClick, Buttons
  <2>3. page' \in {page, page + 1}
    BY DEF TakeClick
  <2>4. pc \notin {"launch", "shot", "fill"}
    BY <1>1, <2>1, Numbers, Bounds DEF UnderWay, TypeInv, CallInv
  <2>5. pc # "click"
    BY <1>1, <2>1, Numbers DEF UnderWay
  <2>. QED
    BY <1>1, <1>2, <2>1, <2>2, <2>3, <2>4, <2>5, Numbers DEF UnderWay
<1>4. CASE button = "install"
  <2>1. pending["install"] > 0 /\ target > Summary
    BY <1>1, <1>4, Numbers, Bounds DEF TakeClick, UnderWay
  <2>2. pc \notin {"launch", "shot", "fill", "click", "poll"}
    BY <1>1, <2>1, Numbers, Bounds DEF TypeInv, CallInv
  <2>. QED
    BY <1>1, <1>2, <2>1, <2>2, Bounds DEF UnderWay
<1>. QED
  BY <1>3, <1>4 DEF Buttons

LEMMA LoseClickUnderWay ==
  ASSUME Inv, NEW button \in Buttons, LoseClick(button) PROVE UnderWay'
<1>1. TypeInv /\ UnderWay
  BY DEF Inv
<1>2. UNCHANGED <<slow, page, pc, target, click, start>>
  BY DEF LoseClick, call
<1>3. pending' = [pending EXCEPT ![button] = pending[button] - 1] /\ pending[button] > 0
  BY DEF LoseClick
<1>4. CASE button = "next"
  <2>1. /\ pending'["next"] = pending["next"] - 1 /\ pending["next"] > 0
        /\ pending'["install"] = pending["install"]
    BY <1>1, <1>3, <1>4, Numbers DEF Buttons
  <2>. QED
    BY <1>1, <1>2, <2>1, Numbers DEF UnderWay
<1>5. CASE button = "install"
  <2>1. /\ pending["install"] > 0
        /\ pending'["next"] = pending["next"]
    BY <1>1, <1>3, <1>5, Numbers DEF Buttons
  <2>. QED
    BY <1>1, <1>2, <2>1, Numbers DEF UnderWay
<1>. QED
  BY <1>4, <1>5 DEF Buttons

\* Steps that make no click and stay at, or give up, the page of the call.
LEMMA QuietUnderWay ==
  ASSUME Inv, Repaint \/ Launch \/ Fill \/ SeeFinish \/ TimeOut \/ Raise PROVE UnderWay'
<1>1. TypeInv /\ UnderWay
  BY DEF Inv
<1>2. UNCHANGED <<slow, page, pending, target, click, start>>
  BY DEF Repaint, Launch, Fill, SeeFinish, TimeOut, Raise, guest, call
<1>3. \/ pc' = pc
      \/ pc \in {"launch", "fill"} /\ pc' = "shot"
      \/ pc' \in {"raised", "finished"}
  BY DEF Repaint, Launch, Fill, SeeFinish, TimeOut, Raise
<1>. QED
  BY <1>1, <1>2, <1>3 DEF UnderWay

LEMMA JobsEndUnderWay == ASSUME Inv, JobsEnd PROVE UnderWay'
<1>1. TypeInv /\ UnderWay
  BY DEF Inv
<1>2. UNCHANGED <<slow, pending, pc, target, click, start>>
  BY DEF JobsEnd, call
<1>3. page = InstallPage
  BY <1>1 DEF JobsEnd, TypeInv, GuestInv
<1>4. ~slow => target > Summary
  BY <1>1, <1>3, Numbers, Bounds DEF UnderWay
<1>5. ~slow => pc \notin {"launch", "shot", "fill", "click", "poll"}
  BY <1>1, <1>4, Numbers, Bounds DEF TypeInv, CallInv
<1>. QED
  BY <1>1, <1>2, <1>4, <1>5, Numbers, Bounds DEF UnderWay

LEMMA ShootUnderWay == ASSUME Inv, Shoot PROVE UnderWay'
<1>1. TypeInv /\ UnderWay /\ target \in 0 .. Summary /\ pc = "shot"
  BY DEF Inv, TypeInv, CallInv, Shoot
<1>2. UNCHANGED <<slow, page, pending>> /\ start' = screen
  BY DEF Shoot, guest
<1>3. ~slow => page = target /\ pending["next"] = 0 /\ pending["install"] = 0
  BY <1>1, Numbers, Bounds DEF UnderWay
<1>4. \/ pc' = "click" /\ target' = target + 1
      \/ pc' = "install" /\ target' = Summary + 1
  BY Bounds DEF Shoot
<1>. QED
  BY <1>1, <1>2, <1>3, <1>4, Numbers, Bounds DEF UnderWay

LEMMA ClickUnderWay == ASSUME Inv, ClickNext \/ ClickInstall PROVE UnderWay'
<1>1. TypeInv /\ UnderWay
  BY DEF Inv
<1>2. UNCHANGED <<slow, page, target, click, start>>
  BY DEF ClickNext, ClickInstall, call
<1>3. CASE ClickNext
  <2>1. /\ pc = "click" /\ pc' = "poll"
        /\ pending'["next"] = (IF click THEN pending["next"] + 1 ELSE pending["next"])
        /\ pending'["install"] = pending["install"]
    BY <1>1, <1>3, Numbers DEF ClickNext, Buttons
  <2>2. click => pending'["next"] = pending["next"] + 1
    BY <2>1
  <2>3. ~click => pending'["next"] = pending["next"]
    BY <2>1
  <2>4. click \in BOOLEAN
    BY <1>1 DEF TypeInv, TypeOK
  <2>. QED
    BY <1>1, <1>2, <2>1, <2>2, <2>3, <2>4, Numbers DEF UnderWay
<1>4. CASE ClickInstall
  <2>1. pc = "install" /\ pc' = "watch"
    BY <1>4 DEF ClickInstall
  <2>2. target = Summary + 1
    BY <1>1, <2>1, Bounds DEF TypeInv, CallInv
  <2>. QED
    BY <1>2, <2>1, <2>2, Bounds DEF UnderWay
<1>. QED
  BY <1>3, <1>4

LEMMA PollPageUnderWay == ASSUME Inv, PollPage PROVE UnderWay'
<1>1. TypeInv /\ UnderWay /\ pc = "poll" /\ target \in 1 .. Summary
  BY DEF Inv, TypeInv, CallInv, PollPage
<1>2. UNCHANGED <<slow, page, pending, target, click, start>>
  BY DEF PollPage, guest
<1>3. \/ pc' \in {"fill", "shot"} /\ Arrived(screen)
      \/ pc' = "raised"
      \/ pc' = pc
  BY <1>1 DEF PollPage, AtPage
<1>4. Arrived(screen) => page = target
  BY <1>1, Numbers, PageAtType, Bounds DEF Arrived
<1>. QED
  BY <1>1, <1>2, <1>3, <1>4, Numbers DEF UnderWay

LEMMA JudgeFreshUnderWay == ASSUME Inv, JudgeFresh PROVE UnderWay'
<1>. SUFFICES ASSUME ~slow' PROVE UnderWay'
  BY DEF UnderWay
<1>1. TypeInv /\ UnderWay /\ pc = "poll" /\ target \in 1 .. Summary
  BY DEF Inv, TypeInv, CallInv, JudgeFresh
<1>2. UNCHANGED <<slow, page, pending, target, start>>
  BY DEF JudgeFresh, guest
<1>3. pending["next"] = 0 /\ pending["install"] = 0 /\ ~slow
  BY <1>2 DEF JudgeFresh, WaitOver, Buttons
<1>4. page >= target - 1 /\ page <= target /\ start.page = target - 1
  BY <1>1, <1>3, Numbers, Bounds DEF UnderWay
<1>5. Arrived(screen) => page = target
  BY <1>1, Numbers, PageAtType, Bounds DEF Arrived
<1>6. ~Arrived(screen) /\ Repeat(screen) => page = target - 1
  <2>. SUFFICES ASSUME ~Arrived(screen), Repeat(screen) PROVE page = target - 1
    OBVIOUS
  <2>1. CASE PageAt(screen) = NoPage
    BY <1>1, <1>4, <2>1, Numbers DEF Repeat
  <2>2. CASE PageAt(screen) # NoPage
    <3>1. PageAt(screen) = page /\ page # target
      BY <1>1, <2>2, Numbers, PageAtType DEF Arrived
    <3>. QED
      BY <1>1, <1>4, <3>1, Numbers
  <2>. QED
    BY <2>1, <2>2
<1>7. \/ pc' \in {"fill", "shot"} /\ Arrived(screen)
      \/ pc' = "raised"
      \/ pc' = "click" /\ ~Arrived(screen) /\ click' = Repeat(screen)
  BY DEF JudgeFresh, AtPage
<1>8. pc' = "click" => (click' => page = target - 1)
  BY <1>5, <1>6, <1>7, Zenon
<1>9. /\ pc' \in {"fill", "shot", "raised", "click"}
      /\ pc' \in {"fill", "shot"} => page = target
  BY <1>5, <1>7
<1>. QED
  BY <1>1, <1>2, <1>3, <1>4, <1>8, <1>9, Numbers DEF UnderWay

LEMMA WatchUnderWay == ASSUME Inv, WatchPage \/ WatchOver PROVE UnderWay'
<1>1. TypeInv /\ pc = "watch"
  BY DEF Inv, WatchPage, WatchOver
<1>2. target' = Summary + 1
  BY <1>1, Bounds DEF TypeInv, CallInv, WatchPage, WatchOver
<1>3. pc' \in {"finish", "watch", "install", "raised"}
  BY <1>1 DEF WatchPage, WatchOver
<1>. QED
  BY <1>2, <1>3, Bounds DEF UnderWay

\* The driver says finished only of a picture without the dialog, and Calamares does
\* not start again.
LEMMA FinishedKept == ASSUME Inv, Next PROVE FinishedMeansInstalled'
<1>1. TypeInv /\ FinishedMeansInstalled
  BY DEF Inv
<1>2. CASE SeeFinish
  <2>1. pc' = "finished" => screen.page = FinishPage /\ ~screen.dialog
    BY <1>1, <1>2, Numbers, PageAtType, Bounds DEF SeeFinish, Success
  <2>2. page = FinishPage => jobs \in {"ok", "failed"}
    BY <1>1, Numbers, Bounds DEF TypeInv, TypeOK, GuestInv
  <2>3. ~screen.dialog => jobs # "failed"
    BY <1>1 DEF TypeInv, GuestInv
  <2>4. screen.page = page
    BY <1>1, Numbers
  <2>5. pc' = "finished" => jobs = "ok"
    BY <2>1, <2>2, <2>3, <2>4
  <2>. QED
    BY <1>2, <2>5 DEF SeeFinish, guest, FinishedMeansInstalled
<1>3. CASE \E button \in Buttons : TakeClick(button)
  <2>1. PICK button \in Buttons : TakeClick(button)
    BY <1>3
  <2>2. jobs' # jobs => jobs = "no"
    BY <1>1, <2>1, Numbers, Bounds DEF TakeClick, LeadsOn, TypeInv, TypeOK, GuestInv
  <2>. QED
    BY <1>1, <2>1, <2>2 DEF TakeClick, FinishedMeansInstalled
<1>4. CASE JobsEnd
  BY <1>1, <1>4 DEF JobsEnd, FinishedMeansInstalled
<1>5. CASE /\ ~SeeFinish /\ ~JobsEnd
           /\ ~ \E button \in Buttons : TakeClick(button)
  <2>1. UNCHANGED jobs
    BY <1>5 DEF Next, Repaint, LoseClick, Launch, Shoot, ClickNext, ClickInstall, PollPage,
       JudgeFresh, Fill, WatchPage, WatchOver, TimeOut, Raise, guest
  <2>2. pc' = "finished" => pc = "finished"
    BY <1>5 DEF Next, Repaint, LoseClick, Launch, Shoot, ClickNext, ClickInstall, PollPage,
       JudgeFresh, Fill, WatchPage, WatchOver, TimeOut, Raise, AtPage
  <2>. QED
    BY <1>1, <2>1, <2>2 DEF FinishedMeansInstalled
<1>. QED
  BY <1>2, <1>3, <1>4, <1>5

LEMMA StepInv == Inv /\ [Next]_vars => Inv'
<1>. SUFFICES ASSUME Inv, [Next]_vars PROVE Inv'
  OBVIOUS
<1>1. TypeInv'
  BY StepType DEF Inv
<1>2. CASE UNCHANGED vars
  BY <1>1, <1>2 DEF vars, guest, call, Inv, UnderWay, FinishedMeansInstalled
<1>3. CASE Next
  <2>1. UnderWay'
    BY <1>3, QuietUnderWay, TakeClickUnderWay, LoseClickUnderWay, JobsEndUnderWay,
       ShootUnderWay, ClickUnderWay, PollPageUnderWay, JudgeFreshUnderWay, WatchUnderWay
    DEF Next
  <2>. QED
    BY <1>1, <1>3, <2>1, FinishedKept DEF Inv
<1>. QED
  BY <1>2, <1>3

-----------------------------------------------------------------------------

\* Unless the host is slow, no page is passed unseen, for any number of lost clicks,
\* half-painted pictures, pages and attempts.
THEOREM WizardNoPagePassed == Spec => []NoPagePassed
<1>1. Inv => NoPagePassed
  <2>. SUFFICES ASSUME Inv, ~slow PROVE NoPagePassed
    BY DEF NoPagePassed
  <2>. QED
    BY Numbers DEF Inv, UnderWay, NoPagePassed
<1>. QED
  BY <1>1, InitInv, StepInv, PTL DEF Spec

\* A wizard reported finished has installed the system, on a slow host too.
THEOREM WizardFinishedMeansInstalled == Spec => []FinishedMeansInstalled
<1>1. Inv => FinishedMeansInstalled
  BY DEF Inv
<1>. QED
  BY <1>1, InitInv, StepInv, PTL DEF Spec

\* No further click is made after a page behind the expected one was recognised.
THEOREM WizardStopsAfterOvershoot == Spec => StopsAfterOvershoot
<1>1. TypeInv /\ [Next]_vars =>
        [pending'["next"] > pending["next"] => last = NoPage \/ last <= target]_vars
  <2>. SUFFICES ASSUME TypeInv, Next, pending'["next"] > pending["next"]
                PROVE  last = NoPage \/ last <= target
    OBVIOUS
  <2>1. pending["next"] \in Nat
    BY Numbers
  <2>2. CASE ClickNext
    BY <2>2 DEF ClickNext, TypeInv, CallInv
  <2>3. ASSUME NEW button \in Buttons, TakeClick(button) \/ LoseClick(button) PROVE FALSE
    BY <2>1, <2>3, Numbers DEF TakeClick, LoseClick, Buttons
  <2>4. CASE ClickInstall
    BY <2>1, <2>4, Numbers DEF ClickInstall, Buttons
  <2>5. CASE UNCHANGED pending
    BY <2>1, <2>5
  <2>6. \/ ClickNext \/ ClickInstall \/ UNCHANGED pending
        \/ \E button \in Buttons : TakeClick(button) \/ LoseClick(button)
    BY DEF Next, Repaint, JobsEnd, Launch, Shoot, PollPage, JudgeFresh, Fill, WatchPage,
       WatchOver, SeeFinish, TimeOut, Raise, guest
  <2>. QED
    BY <2>2, <2>3, <2>4, <2>5, <2>6
<1>2. Init => TypeInv
  BY InitInv DEF Inv
<1>. QED
  BY <1>1, <1>2, StepType, PTL DEF Spec, StopsAfterOvershoot

-----------------------------------------------------------------------------
(* The preparation.  A property of all numbers is proved for the least of  *)
(* those without it, and one of a recursive function for the least         *)
(* argument: that every set of numbers has a least one is proved here.     *)

Less == {ss \in Nat \X Nat : ss[1] < ss[2]}

LEMMA NatMin == \A S \in SUBSET Nat : S # {} => \E n \in S : \A m \in S : n <= m
<1>. SUFFICES ASSUME NEW S \in SUBSET Nat, S # {}
              PROVE \E n \in S : \A m \in S : n <= m
  OBVIOUS
<1>1. IsWellFoundedOn(Less, Nat)
  BY NatLessThanWellFounded DEF OpToRel, Less
<1>2. PICK n \in S : \A m \in S : ~(<<m, n>> \in Less)
  BY <1>1, WFMin
<1>3. ASSUME NEW m \in S PROVE n <= m
  <2>1. n \in Nat /\ m \in Nat
    OBVIOUS
  <2>2. ~(m < n)
    BY <1>2, <2>1 DEF Less
  <2>. QED
    BY <2>1, <2>2
<1>. QED
  BY <1>3

-----------------------------------------------------------------------------
(* Sequences made of sequences, and of sets.                               *)

Joined(s, t) == s \o t

LEMMA JoinedContains ==
  ASSUME NEW T, NEW s \in Seq(T), NEW t \in Seq(T)
  PROVE /\ Joined(s, t) \in Seq(T)
        /\ Len(Joined(s, t)) = Len(s) + Len(t)
        /\ \A x : Contains(Joined(s, t), x) <=> Contains(s, x) \/ Contains(t, x)
<1>1. Joined(s, t) \in Seq(T) /\ Len(Joined(s, t)) = Len(s) + Len(t)
  BY DEF Joined
<1>2. ASSUME NEW x, NEW i \in 1 .. Len(s), s[i] = x PROVE Contains(Joined(s, t), x)
  BY <1>2 DEF Joined, Contains
<1>3. ASSUME NEW x, NEW i \in 1 .. Len(t), t[i] = x PROVE Contains(Joined(s, t), x)
  <2>1. Len(s) + i \in 1 .. Len(s \o t) /\ (s \o t)[Len(s) + i] = x
    BY <1>3
  <2>. QED
    BY <2>1 DEF Joined, Contains
<1>4. ASSUME NEW x, NEW k \in 1 .. Len(Joined(s, t)), Joined(s, t)[k] = x
      PROVE Contains(s, x) \/ Contains(t, x)
  <2>1. CASE k <= Len(s)
    BY <1>4, <2>1 DEF Joined, Contains
  <2>2. CASE k > Len(s)
    <3>1. k - Len(s) \in 1 .. Len(t) /\ t[k - Len(s)] = x
      BY <1>4, <2>2 DEF Joined
    <3>. QED
      BY <3>1 DEF Contains
  <2>. QED
    BY <2>1, <2>2, <1>1
<1>. QED
  BY <1>1, <1>2, <1>3, <1>4 DEF Contains

\* What FlattenSeq has joined after each of the sequences.
IsFlatten(f, ss, n) ==
  \A i \in 1 .. n : f[i] = IF i = 1 THEN ss[i] ELSE Joined(f[i - 1], ss[i])

\* The recursion has a function that satisfies it, of which the CHOOSE of FlattenSeq is one.
LEMMA FlattenExists ==
  ASSUME NEW T, NEW ss \in Seq(Seq(T)), NEW n \in 1 .. Len(ss)
  PROVE \E f \in [1 .. n -> Seq(T)] : IsFlatten(f, ss, n)
<1>. DEFINE Bad == {m \in Nat : m \in 1 .. Len(ss) /\ ~ \E f \in [1 .. m -> Seq(T)] : IsFlatten(f, ss, m)}
<1>. SUFFICES ASSUME Bad # {} PROVE FALSE
  <2>1. n \in Nat
    OBVIOUS
  <2>. QED
    BY <2>1
<1>1. PICK m \in Bad : \A k \in Bad : m <= k
  BY NatMin
<1>2. CASE m = 1
  <2>1. [i \in 1 .. 1 |-> ss[1]] \in [1 .. 1 -> Seq(T)] /\ IsFlatten([i \in 1 .. 1 |-> ss[1]], ss, 1)
    BY <1>1, <1>2 DEF IsFlatten
  <2>. QED
    BY <1>1, <1>2, <2>1
<1>3. CASE m # 1
  <2>1. m - 1 \in 1 .. Len(ss) /\ m - 1 \in Nat /\ m - 1 \notin Bad /\ m \in Nat /\ m \in 1 .. Len(ss)
    <3>1. m \in Nat /\ m \in 1 .. Len(ss)
      OBVIOUS
    <3>2. ~ (m <= m - 1)
      BY <3>1
    <3>3. m - 1 \notin Bad
      BY <1>1, <3>2
    <3>. QED
      BY <3>1, <3>3, <1>3
  <2>2. PICK f \in [1 .. m - 1 -> Seq(T)] : IsFlatten(f, ss, m - 1)
    BY <2>1
  <2>. DEFINE g == [i \in 1 .. m |-> IF i < m THEN f[i] ELSE Joined(f[m - 1], ss[m])]
  <2>3. m - 1 \in 1 .. m - 1 /\ f[m - 1] \in Seq(T) /\ ss[m] \in Seq(T)
    BY <2>1
  <2>4. Joined(f[m - 1], ss[m]) \in Seq(T)
    BY <2>3, JoinedContains
  <2>5. g \in [1 .. m -> Seq(T)]
    BY <2>1, <2>4
  <2>6. ASSUME NEW i \in 1 .. m
        PROVE g[i] = IF i = 1 THEN ss[i] ELSE Joined(g[i - 1], ss[i])
    <3>1. CASE i = m
      BY <3>1, <2>1, <1>3
    <3>2. CASE i # m
      <4>1. i \in 1 .. m - 1 /\ g[i] = f[i] /\ (i # 1 => i - 1 \in 1 .. m - 1 /\ g[i - 1] = f[i - 1])
        BY <3>2, <2>1
      <4>2. f[i] = IF i = 1 THEN ss[i] ELSE Joined(f[i - 1], ss[i])
        BY <4>1, <2>2 DEF IsFlatten
      <4>. QED
        BY <4>1, <4>2
    <3>. QED
      BY <3>1, <3>2
  <2>7. IsFlatten(g, ss, m)
    BY <2>6, Zenon DEF IsFlatten
  <2>. QED
    BY <2>1, <2>5, <2>7
<1>. QED
  BY <1>2, <1>3

LEMMA FlattenStep ==
  ASSUME NEW T, NEW f, NEW g, NEW m, NEW k, f[k] \in Seq(T), g[m] \in Seq(T),
         f[m] = Joined(f[k], g[m])
  PROVE  /\ f[m] \in Seq(T)
         /\ \A x : Contains(f[m], x) <=> Contains(f[k], x) \/ Contains(g[m], x)
<1>1. Joined(f[k], g[m]) \in Seq(T)
  BY JoinedContains
<1>2. ASSUME NEW x PROVE Contains(f[m], x) <=> Contains(f[k], x) \/ Contains(g[m], x)
  <2>1. Contains(Joined(f[k], g[m]), x) <=> Contains(f[k], x) \/ Contains(g[m], x)
    BY JoinedContains
  <2>. QED
    BY <2>1
<1>. QED
  BY <1>1, <1>2

\* FlattenSeq has the elements of all the sequences and no others.
LEMMA FlattenContains ==
  ASSUME NEW T, NEW ss \in Seq(Seq(T))
  PROVE /\ FlattenSeq(ss) \in Seq(T)
        /\ \A x : Contains(FlattenSeq(ss), x) <=> \E i \in 1 .. Len(ss) : Contains(ss[i], x)
<1>1. CASE Len(ss) = 0
  <2>1. ss = <<>> /\ FlattenSeq(ss) = ss
    BY <1>1 DEF FlattenSeq
  <2>2. ss \in Seq(T)
    BY <2>1
  <2>3. \A x : ~Contains(ss, x)
    BY <1>1 DEF Contains
  <2>4. \A x : ~ \E i \in 1 .. Len(ss) : Contains(ss[i], x)
    BY <1>1
  <2>. QED
    BY <2>1, <2>2, <2>3, <2>4
<1>2. CASE Len(ss) # 0
  <2>1. Len(ss) \in 1 .. Len(ss) /\ Len(ss) \in Nat
    BY <1>2
  <2>2. PICK h \in [1 .. Len(ss) -> Seq(T)] : IsFlatten(h, ss, Len(ss))
    BY <2>1, FlattenExists
  <2>3. h = [i \in 1 .. Len(ss) |-> IF i = 1 THEN ss[i] ELSE h[i - 1] \o ss[i]]
    BY <2>2 DEF IsFlatten, Joined
  <2>4. PICK f : /\ f = [i \in 1 .. Len(ss) |-> IF i = 1 THEN ss[i] ELSE f[i - 1] \o ss[i]]
                 /\ FlattenSeq(ss) = f[Len(ss)]
    BY <2>3, <1>2, Zenon DEF FlattenSeq
  <2>5. \A i \in 1 .. Len(ss) : f[i] = IF i = 1 THEN ss[i] ELSE Joined(f[i - 1], ss[i])
    BY <2>4 DEF Joined
  <2>. DEFINE Upto(n, x) == \E i \in 1 .. n : Contains(ss[i], x)
              Good(n) == f[n] \in Seq(T) /\ \A x : Contains(f[n], x) <=> Upto(n, x)
              Bad == {n \in Nat : n \in 1 .. Len(ss) /\ ~Good(n)}
  <2>6. Bad = {}
    <3>. SUFFICES ASSUME Bad # {} PROVE FALSE
      OBVIOUS
    <3>1. PICK m \in Bad : \A k \in Bad : m <= k
      BY NatMin
    <3>2. m \in 1 .. Len(ss) /\ m \in Nat /\ ~Good(m)
      OBVIOUS
    <3>3. CASE m = 1
      <4>1. f[1] = ss[1] /\ ss[1] \in Seq(T)
        BY <2>5, <3>2, <3>3
      <4>2. \A x : Upto(1, x) <=> Contains(ss[1], x)
        OBVIOUS
      <4>. QED
        BY <4>1, <4>2, <3>2, <3>3
    <3>4. CASE m # 1
      <4>0. Len(ss) \in Nat /\ m \in 1 .. Len(ss) /\ m # 1
        BY <3>2, <3>4
      <4>1. m - 1 \in 1 .. Len(ss) /\ m - 1 \in Nat /\ ~ (m <= m - 1)
        BY <4>0
      <4>2. Good(m - 1)
        BY <4>1, <3>1
      <4>3. f[m] = Joined(f[m - 1], ss[m]) /\ ss[m] \in Seq(T)
        BY <2>5, <3>2, <3>4
      <4>. HIDE DEF Upto
      <4>6. f[m - 1] \in Seq(T) /\ \A x : Contains(f[m - 1], x) <=> Upto(m - 1, x)
        BY <4>2
      <4>7. /\ f[m] \in Seq(T)
            /\ \A x : Contains(f[m], x) <=> Contains(f[m - 1], x) \/ Contains(ss[m], x)
        BY <4>3, <4>6, FlattenStep
      <4>4. f[m] \in Seq(T) /\ \A x : Contains(f[m], x) <=> Upto(m - 1, x) \/ Contains(ss[m], x)
        BY <4>6, <4>7
      <4>5. ASSUME NEW x PROVE Upto(m, x) <=> Upto(m - 1, x) \/ Contains(ss[m], x)
        <5>1. 1 .. m = (1 .. m - 1) \cup {m}
          BY <3>2, <3>4
        <5>. QED
          BY <5>1 DEF Upto
      <4>. QED
        BY <4>4, <4>5, <3>2
    <3>. QED
      BY <3>3, <3>4
  <2>7. Good(Len(ss))
    BY <2>1, <2>6
  <2>. QED
    BY <2>4, <2>7
<1>. QED
  BY <1>1, <1>2

\* SetToSeq has the elements of its set, whatever their order: as many places as elements,
\* and no element twice, leave none out.
LEMMA SetToSeqContains ==
  ASSUME NEW S, IsFiniteSet(S)
  PROVE /\ SetToSeq(S) \in Seq(S)
        /\ \A x : Contains(SetToSeq(S), x) <=> x \in S
<1>. DEFINE n == Cardinality(S)
            q == SetToSeq(S)
            Image == {q[i] : i \in 1 .. n}
<1>1. n \in Nat /\ \E f \in [1 .. n -> S] : IsInjective(f)
  BY FS_CardinalityType, Zenon DEF ExistsBijection, Bijection, Injection
<1>2. q \in [1 .. n -> S] /\ IsInjective(q)
  BY <1>1, Zenon DEF SetToSeq
<1>. HIDE DEF q
<1>3. q \in Seq(S) /\ Len(q) = n
  BY <1>1, <1>2
<1>4. Image \in SUBSET S /\ q \in Surjection(1 .. n, Image) /\ q \in Injection(1 .. n, Image)
  BY <1>2 DEF Surjection, Injection
<1>5. IsFiniteSet(1 .. n) /\ Cardinality(1 .. n) = n
  BY <1>1, FS_Interval
<1>6. Cardinality(Image) = n
  BY <1>4, <1>5, FS_Surjection
<1>7. Image = S
  BY <1>4, <1>6, FS_Subset
<1>8. \A x : Contains(q, x) <=> x \in S
  BY <1>3, <1>7 DEF Contains
<1>. QED
  BY <1>3, <1>8 DEF q

-----------------------------------------------------------------------------
(* The fragments: parse_fragment reads what the text asks for.             *)

\* g is the group of the last header among the first n lines.
LastHeader(lines, n, g) ==
  \E h \in 1 .. n :
    /\ lines[h] = <<"header", g>>
    /\ \A k \in h + 1 .. n : lines[k][1] # "header"

\* The first n lines ask for the setting.
Asked(lines, n, setting) ==
  \E i \in 1 .. n :
    lines[i] = <<"pair", setting[2]>> /\ LastHeader(lines, i, setting[1])

LEMMA LineKinds ==
  ASSUME NEW line \in Lines
  PROVE  \/ line = <<"ignored">> /\ line[1] = "ignored"
         \/ line = <<"malformed">> /\ line[1] = "malformed"
         \/ line[1] = "header" /\ line[2] \in Groups /\ line = <<"header", line[2]>>
         \/ line[1] = "pair" /\ line[2] \in Names /\ line = <<"pair", line[2]>>
BY DEF Lines

\* A line stands under one group at most.
LEMMA OneHeader ==
  ASSUME NEW lines \in Seq(Lines), NEW n \in 1 .. Len(lines), NEW g, NEW f,
         LastHeader(lines, n, g), LastHeader(lines, n, f)
  PROVE  g = f
<1>1. PICK h \in 1 .. n : lines[h] = <<"header", g>> /\ \A k \in h + 1 .. n : lines[k][1] # "header"
  BY DEF LastHeader
<1>2. PICK j \in 1 .. n : lines[j] = <<"header", f>> /\ \A k \in j + 1 .. n : lines[k][1] # "header"
  BY DEF LastHeader
<1>3. lines[h][1] = "header" /\ lines[j][1] = "header" /\ lines[h][2] = g /\ lines[j][2] = f
  BY <1>1, <1>2
<1>4. h = j
  BY <1>1, <1>2, <1>3
<1>. QED
  BY <1>3, <1>4

LEMMA HeaderLine ==
  ASSUME NEW lines \in Seq(Lines), NEW n \in 1 .. Len(lines), lines[n][1] = "header"
  PROVE  LastHeader(lines, n, lines[n][2])
<1>1. lines[n] = <<"header", lines[n][2]>>
  BY LineKinds
<1>. QED
  BY <1>1 DEF LastHeader

LEMMA HeaderStays ==
  ASSUME NEW lines \in Seq(Lines), NEW n \in 1 .. Len(lines), lines[n][1] # "header", NEW g
  PROVE  LastHeader(lines, n, g) <=> LastHeader(lines, n - 1, g)
<1>1. ASSUME NEW h \in 1 .. n, lines[h] = <<"header", g>>, \A k \in h + 1 .. n : lines[k][1] # "header"
      PROVE  LastHeader(lines, n - 1, g)
  <2>1. h # n
    BY <1>1
  <2>2. h \in 1 .. n - 1 /\ \A k \in h + 1 .. n - 1 : k \in h + 1 .. n
    BY <2>1
  <2>. QED
    BY <1>1, <2>2 DEF LastHeader
<1>2. ASSUME NEW h \in 1 .. n - 1, lines[h] = <<"header", g>>, \A k \in h + 1 .. n - 1 : lines[k][1] # "header"
      PROVE  LastHeader(lines, n, g)
  <2>1. h \in 1 .. n /\ \A k \in h + 1 .. n : k \in h + 1 .. n - 1 \/ k = n
    OBVIOUS
  <2>. QED
    BY <1>2, <2>1 DEF LastHeader
<1>. QED
  BY <1>1, <1>2 DEF LastHeader

LEMMA AskedStep ==
  ASSUME NEW lines, NEW n \in Nat \ {0}, NEW s
  PROVE  Asked(lines, n, s) <=>
           \/ Asked(lines, n - 1, s)
           \/ lines[n] = <<"pair", s[2]>> /\ LastHeader(lines, n, s[1])
<1>1. 1 .. n = (1 .. n - 1) \cup {n}
  OBVIOUS
<1>. QED
  BY <1>1, Zenon DEF Asked

\* Up to the last line, this is what AsksFor says of the whole text.
LEMMA AskedIsAsksFor ==
  ASSUME NEW lines \in Seq(Lines), NEW s
  PROVE  Asked(lines, Len(lines), s) <=> AsksFor(lines, s)
<1>1. ASSUME NEW i \in 1 .. Len(lines), NEW h \in 1 .. i,
             lines[i] = <<"pair", s[2]>>, lines[h] = <<"header", s[1]>>,
             \A k \in h + 1 .. i : lines[k][1] # "header"
      PROVE  AsksFor(lines, s)
  <2>1. lines[i][1] = "pair" /\ lines[h][1] = "header"
    BY <1>1
  <2>2. h \in 1 .. Len(lines) /\ h < i
    BY <2>1
  <2>. QED
    BY <1>1, <2>2, Zenon DEF AsksFor
<1>2. ASSUME NEW i \in 1 .. Len(lines), NEW h \in 1 .. Len(lines), h < i
      PROVE  h \in 1 .. i
  BY <1>2
<1>3. ASSUME AsksFor(lines, s) PROVE Asked(lines, Len(lines), s)
  BY <1>2, <1>3, Zenon DEF AsksFor, Asked, LastHeader
<1>. QED
  BY <1>1, <1>3, Zenon DEF Asked, LastHeader

\* The automaton before the first line, one step of it, and its run over m lines.
Start == [ok |-> TRUE, group |-> NoGroup, entries |-> <<>>]

NextRead(read, line) == IF read.ok THEN ReadLine(read, line) ELSE Rejected

IsRead(f, lines, m) ==
  f = [n \in 0 .. m |-> IF n = 0 THEN Start ELSE NextRead(f[n - 1], lines[n])]

LEMMA ReadExists ==
  ASSUME NEW lines, NEW n \in Nat
  PROVE  \E f : IsRead(f, lines, n)
<1>. DEFINE Bad == {m \in Nat : ~ \E f : IsRead(f, lines, m)}
<1>. SUFFICES ASSUME Bad # {} PROVE FALSE
  OBVIOUS
<1>1. PICK m \in Bad : \A k \in Bad : m <= k
  BY NatMin
<1>2. m \in Nat /\ ~ \E f : IsRead(f, lines, m)
  OBVIOUS
<1>3. CASE m = 0
  <2>1. IsRead([k \in 0 .. 0 |-> Start], lines, 0)
    BY DEF IsRead
  <2>. QED
    BY <2>1, <1>2, <1>3
<1>4. CASE m # 0
  <2>1. m - 1 \in Nat /\ ~ (m <= m - 1)
    BY <1>2, <1>4
  <2>2. PICK f : IsRead(f, lines, m - 1)
    BY <2>1, <1>1
  <2>. DEFINE g == [k \in 0 .. m |-> IF k < m THEN f[k] ELSE NextRead(f[m - 1], lines[m])]
  <2>3. ASSUME NEW k \in 0 .. m
        PROVE  g[k] = IF k = 0 THEN Start ELSE NextRead(g[k - 1], lines[k])
    <3>1. CASE k = m
      BY <3>1, <1>2, <1>4
    <3>2. CASE k # m
      <4>1. k \in 0 .. m - 1 /\ g[k] = f[k] /\ (k # 0 => g[k - 1] = f[k - 1])
        BY <3>2, <1>2
      <4>2. f[k] = IF k = 0 THEN Start ELSE NextRead(f[k - 1], lines[k])
        BY <4>1, <2>2 DEF IsRead
      <4>. QED
        BY <4>1, <4>2
    <3>. QED
      BY <3>1, <3>2
  <2>4. IsRead(g, lines, m)
    BY <2>3, Zenon DEF IsRead
  <2>. QED
    BY <1>2, <2>4
<1>. QED
  BY <1>3, <1>4

\* What parse_fragment knows after n lines, if it has not given up.
ReadGood(read, lines, n) ==
  /\ read \in [ok : {TRUE}, group : {NoGroup} \cup {<<g>> : g \in Groups}, entries : Seq(Settings)]
  /\ read.group # NoGroup =>
       \E g \in Groups : read.group = <<g>> /\ LastHeader(lines, n, g)
  /\ \A s \in Settings : Contains(read.entries, s) <=> Asked(lines, n, s)

LEMMA AppendContains ==
  ASSUME NEW T, NEW q \in Seq(T), NEW e \in T, NEW x
  PROVE  Contains(Append(q, e), x) <=> Contains(q, x) \/ e = x
<1>1. Joined(q, <<e>>) = Append(q, e)
  BY DEF Joined
<1>2. Contains(Joined(q, <<e>>), x) <=> Contains(q, x) \/ Contains(<<e>>, x)
  <2>1. <<e>> \in Seq(T)
    OBVIOUS
  <2>. QED
    BY <2>1, JoinedContains
<1>3. Contains(<<e>>, x) <=> e = x
  BY DEF Contains
<1>. QED
  BY <1>1, <1>2, <1>3

LEMMA ReadStep ==
  ASSUME NEW lines \in Seq(Lines), NEW n \in 1 .. Len(lines), NEW read,
         read.ok => ReadGood(read, lines, n - 1),
         NEW next, next = NextRead(read, lines[n]), next.ok
  PROVE  ReadGood(next, lines, n)
<1>1. read.ok /\ next = ReadLine(read, lines[n])
  BY DEF NextRead, Rejected
<1>2. ReadGood(read, lines, n - 1)
  BY <1>1
<1>3. n \in Nat \ {0}
  OBVIOUS
<1>4. lines[n] \in Lines
  OBVIOUS
<1>5. CASE lines[n][1] = "ignored"
  <2>1. next = read
    BY <1>1, <1>5, Zenon DEF ReadLine
  <2>2. \A g : LastHeader(lines, n, g) <=> LastHeader(lines, n - 1, g)
    BY <1>5, HeaderStays
  <2>3. \A s : Asked(lines, n, s) <=> Asked(lines, n - 1, s)
    BY <1>3, <1>5, AskedStep
  <2>. QED
    BY <1>2, <2>1, <2>2, <2>3 DEF ReadGood
<1>6. CASE lines[n][1] = "malformed"
  <2>1. next = Rejected
    BY <1>1, <1>6 DEF ReadLine
  <2>. QED
    BY <2>1 DEF Rejected
<1>7. CASE lines[n][1] = "header"
  <2>. DEFINE g == lines[n][2]
  <2>1. lines[n] = <<"header", g>> /\ g \in Groups
    BY <1>4, <1>7, LineKinds
  <2>2. next = [read EXCEPT !.group = <<g>>]
    BY <1>1, <1>7 DEF ReadLine
  <2>3. LastHeader(lines, n, g)
    BY <1>7, HeaderLine
  <2>4. \A s : Asked(lines, n, s) <=> Asked(lines, n - 1, s)
    <3>1. \A s : lines[n] # <<"pair", s[2]>>
      BY <2>1
    <3>. QED
      BY <1>3, <3>1, AskedStep
  <2>. HIDE DEF g
  <2>5. next.group = <<g>> /\ next.entries = read.entries
        /\ next \in [ok : {TRUE}, group : {NoGroup} \cup {<<f>> : f \in Groups}, entries : Seq(Settings)]
    BY <1>2, <2>1, <2>2 DEF ReadGood
  <2>6. \A s \in Settings : Contains(next.entries, s) <=> Asked(lines, n, s)
    BY <1>2, <2>4, <2>5 DEF ReadGood
  <2>. QED
    BY <2>1, <2>3, <2>5, <2>6 DEF ReadGood
<1>8. CASE lines[n][1] = "pair"
  <2>. DEFINE setting == <<read.group[1], lines[n][2]>>
  <2>1. read.group # NoGroup /\ next = [read EXCEPT !.entries = Append(@, setting)]
    BY <1>1, <1>8 DEF ReadLine, Rejected
  <2>2. PICK g \in Groups : read.group = <<g>> /\ LastHeader(lines, n - 1, g)
    BY <1>2, <2>1 DEF ReadGood
  <2>3. lines[n] = <<"pair", lines[n][2]>> /\ lines[n][2] \in Names
    BY <1>4, <1>8, LineKinds
  <2>4. setting = <<g, lines[n][2]>> /\ setting \in Settings
    BY <2>2, <2>3 DEF Settings
  <2>5. LastHeader(lines, n, g)
    BY <1>8, <2>2, HeaderStays
  <2>. HIDE DEF setting
  <2>6. read.entries \in Seq(Settings)
    BY <1>2 DEF ReadGood
  <2>7. next.group = <<g>> /\ next.entries = Append(read.entries, setting)
        /\ next \in [ok : {TRUE}, group : {NoGroup} \cup {<<f>> : f \in Groups}, entries : Seq(Settings)]
    <3>1. Append(read.entries, setting) \in Seq(Settings)
      BY <2>4, <2>6
    <3>2. read \in [ok : {TRUE}, group : {NoGroup} \cup {<<f>> : f \in Groups}, entries : Seq(Settings)]
      BY <1>2 DEF ReadGood
    <3>3. next = [read EXCEPT !.entries = Append(read.entries, setting)]
      BY <2>1
    <3>. HIDE DEF Settings
    <3>. QED
      BY <2>2, <3>1, <3>2, <3>3
  <2>8. ASSUME NEW s \in Settings
        PROVE  Contains(next.entries, s) <=> Asked(lines, n, s)
    <3>1. Contains(next.entries, s) <=> Contains(read.entries, s) \/ setting = s
      <4>. HIDE DEF Settings
      <4>. DEFINE q == read.entries
      <4>0. q \in Seq(Settings) /\ setting \in Settings
        BY <2>4, <2>6
      <4>. HIDE DEF q
      <4>1. Contains(Append(q, setting), s) <=> Contains(q, s) \/ setting = s
        BY <4>0, AppendContains, SMTT(30)
      <4>. QED
        BY <2>7, <4>1 DEF q
    <3>2. s = <<s[1], s[2]>>
      BY DEF Settings
    <3>3. setting = s <=> lines[n] = <<"pair", s[2]>> /\ LastHeader(lines, n, s[1])
      <4>1. LastHeader(lines, n, s[1]) <=> s[1] = g
        BY <2>5, OneHeader
      <4>. QED
        BY <2>3, <2>4, <3>2, <4>1
    <3>4. Asked(lines, n, s) <=>
            \/ Asked(lines, n - 1, s)
            \/ lines[n] = <<"pair", s[2]>> /\ LastHeader(lines, n, s[1])
      BY <1>3, AskedStep
    <3>. QED
      BY <1>2, <3>1, <3>3, <3>4 DEF ReadGood
  <2>. QED
    BY <2>2, <2>5, <2>7, <2>8 DEF ReadGood
<1>. QED
  BY <1>4, <1>5, <1>6, <1>7, <1>8, LineKinds

\* parse_fragment yields the settings the text asks for, each under its group.
LEMMA ParsedAsks ==
  ASSUME NEW lines \in Seq(Lines), Parsed(lines).ok
  PROVE  /\ Parsed(lines).entries \in Seq(Settings)
         /\ \A s \in Settings : Contains(Parsed(lines).entries, s) <=> AsksFor(lines, s)
<1>1. PICK h : IsRead(h, lines, Len(lines))
  <2>1. Len(lines) \in Nat
    OBVIOUS
  <2>. QED
    BY <2>1, ReadExists
<1>2. h = [n \in 0 .. Len(lines) |->
             IF n = 0 THEN [ok |-> TRUE, group |-> NoGroup, entries |-> <<>>]
             ELSE IF h[n - 1].ok THEN ReadLine(h[n - 1], lines[n]) ELSE Rejected]
  BY <1>1 DEF IsRead, Start, NextRead
<1>3. PICK f : /\ f = [n \in 0 .. Len(lines) |->
                         IF n = 0 THEN [ok |-> TRUE, group |-> NoGroup, entries |-> <<>>]
                         ELSE IF f[n - 1].ok THEN ReadLine(f[n - 1], lines[n]) ELSE Rejected]
               /\ Parsed(lines) = f[Len(lines)]
  BY <1>2, Zenon DEF Parsed
<1>4. \A n \in 0 .. Len(lines) : f[n] = IF n = 0 THEN Start ELSE NextRead(f[n - 1], lines[n])
  BY <1>3 DEF Start, NextRead
<1>. DEFINE Good(n) == f[n].ok => ReadGood(f[n], lines, n)
            Bad == {n \in Nat : n \in 0 .. Len(lines) /\ ~Good(n)}
<1>5. Bad = {}
  <2>. SUFFICES ASSUME Bad # {} PROVE FALSE
    OBVIOUS
  <2>1. PICK m \in Bad : \A k \in Bad : m <= k
    BY NatMin
  <2>2. m \in 0 .. Len(lines) /\ m \in Nat /\ ~Good(m)
    OBVIOUS
  <2>3. CASE m = 0
    <3>1. f[0] = Start
      BY <1>4
    <3>2. Start \in [ok : {TRUE}, group : {NoGroup} \cup {<<g>> : g \in Groups}, entries : Seq(Settings)]
      BY DEF Start
    <3>3. \A s : ~Contains(Start.entries, s) /\ ~Asked(lines, 0, s)
      BY DEF Start, Contains, Asked
    <3>4. Start.group = NoGroup
      BY DEF Start
    <3>5. ReadGood(Start, lines, 0)
      BY <3>2, <3>3, <3>4 DEF ReadGood
    <3>. QED
      BY <2>2, <2>3, <3>1, <3>5
  <2>4. CASE m # 0
    <3>1. m - 1 \in 0 .. Len(lines) /\ m - 1 \in Nat /\ ~ (m <= m - 1) /\ m \in 1 .. Len(lines)
      BY <2>2, <2>4
    <3>2. Good(m - 1)
      BY <3>1, <2>1
    <3>3. f[m] = NextRead(f[m - 1], lines[m])
      BY <1>4, <2>2, <2>4
    <3>4. f[m].ok => ReadGood(f[m], lines, m)
      BY <3>1, <3>2, <3>3, ReadStep
    <3>. QED
      BY <2>2, <3>4
  <2>. QED
    BY <2>3, <2>4
<1>6. Len(lines) \in Nat /\ Len(lines) \in 0 .. Len(lines)
  OBVIOUS
<1>7. ReadGood(Parsed(lines), lines, Len(lines))
  BY <1>3, <1>5, <1>6
<1>8. \A s : Asked(lines, Len(lines), s) <=> AsksFor(lines, s)
  BY AskedIsAsksFor
<1>. QED
  BY <1>7, <1>8 DEF ReadGood

-----------------------------------------------------------------------------
(* The tasks.                                                              *)

MergeTasks == {"merge"} \X ProductFiles \X Settings
CopyTasks == {"copy"} \X SkelFiles
RootTasks == {"stage", "install"} \X (OverlayFiles \cup {"rule"})
OneTasks ==
  {<<"script">>, <<"tree">>, <<"unscript">>, <<"load">>, <<"utc">>, <<"list">>,
   <<"unstage">>, <<"name">>}
UdevTasks == {"udev"} \X {"reload", "trigger", "settle"}

Tasks == MergeTasks \cup CopyTasks \cup RootTasks \cup OneTasks \cup UdevTasks

\* _merge_fragments: a key is merged just when the fragment of its file asks for it.
LEMMA MergesAre ==
  ASSUME FragmentsOk, fragments \in [ProductFiles -> Seq(Lines)]
  PROVE  /\ Merges \in Seq(MergeTasks)
         /\ \A f \in ProductFiles, s \in Settings :
              Contains(Merges, <<"merge", f, s>>) <=> AsksFor(fragments[f], s)
<1>. DEFINE q == SetToSeq(ProductFiles)
            ss == [i \in 1 .. Len(q) |-> MergesInto(q[i])]
<1>1. q \in Seq(ProductFiles) /\ \A x : Contains(q, x) <=> x \in ProductFiles
  BY FilesAssumption, SetToSeqContains
<1>2. Merges = FlattenSeq(ss)
  BY DEF Merges
<1>. HIDE DEF q
<1>3. ASSUME NEW f \in ProductFiles
      PROVE  /\ MergesInto(f) \in Seq(MergeTasks)
             /\ \A g, s : s \in Settings =>
                  (Contains(MergesInto(f), <<"merge", g, s>>) <=> g = f /\ AsksFor(fragments[f], s))
  <2>. DEFINE e == Parsed(fragments[f]).entries
  <2>1. e \in Seq(Settings) /\ \A s \in Settings : Contains(e, s) <=> AsksFor(fragments[f], s)
    <3>1. Parsed(fragments[f]).ok /\ fragments[f] \in Seq(Lines)
      BY DEF FragmentsOk
    <3>. QED
      BY <3>1, ParsedAsks
  <2>2. MergesInto(f) = [i \in 1 .. Len(e) |-> <<"merge", f, e[i]>>]
    BY DEF MergesInto
  <2>. HIDE DEF e
  <2>3. MergesInto(f) \in Seq(MergeTasks) /\ Len(MergesInto(f)) = Len(e)
    <3>1. \A i \in 1 .. Len(e) : <<"merge", f, e[i]>> \in MergeTasks
      BY <2>1 DEF MergeTasks
    <3>2. Len(e) \in Nat
      BY <2>1
    <3>. QED
      BY <2>2, <3>1, <3>2
  <2>4. ASSUME NEW g, NEW s \in Settings
        PROVE  Contains(MergesInto(f), <<"merge", g, s>>) <=> g = f /\ Contains(e, s)
    <3>1. \A i \in 1 .. Len(e) : MergesInto(f)[i] = <<"merge", f, e[i]>>
      BY <2>2
    <3>2. \A i \in 1 .. Len(e) : MergesInto(f)[i] = <<"merge", g, s>> <=> g = f /\ e[i] = s
      BY <3>1
    <3>. QED
      BY <2>3, <3>2, Zenon DEF Contains
  <2>. QED
    BY <2>1, <2>3, <2>4
<1>4. ss \in Seq(Seq(MergeTasks)) /\ Len(ss) = Len(q)
  <2>1. \A i \in 1 .. Len(q) : MergesInto(q[i]) \in Seq(MergeTasks)
    BY <1>1, <1>3
  <2>2. Len(q) \in Nat
    BY <1>1
  <2>. QED
    BY <2>1, <2>2
<1>5. \A i \in 1 .. Len(ss) : ss[i] = MergesInto(q[i]) /\ q[i] \in ProductFiles
  BY <1>1, <1>4
<1>6. /\ Merges \in Seq(MergeTasks)
      /\ \A x : Contains(Merges, x) <=> \E i \in 1 .. Len(ss) : Contains(ss[i], x)
  BY <1>2, <1>4, FlattenContains
<1>7. ASSUME NEW f \in ProductFiles, NEW s \in Settings
      PROVE  Contains(Merges, <<"merge", f, s>>) <=> AsksFor(fragments[f], s)
  <2>. DEFINE t == <<"merge", f, s>>
  <2>. HIDE DEF ss
  <2>1. ASSUME NEW i \in 1 .. Len(ss), Contains(ss[i], t) PROVE AsksFor(fragments[f], s)
    <3>1. ss[i] = MergesInto(q[i]) /\ q[i] \in ProductFiles
      BY <1>5
    <3>. QED
      BY <1>3, <2>1, <3>1
  <2>2. ASSUME AsksFor(fragments[f], s) PROVE \E i \in 1 .. Len(ss) : Contains(ss[i], t)
    <3>1. PICK i \in 1 .. Len(q) : q[i] = f
      BY <1>1 DEF Contains
    <3>2. ss[i] = MergesInto(f) /\ i \in 1 .. Len(ss)
      BY <1>4, <1>5, <3>1
    <3>3. Contains(MergesInto(f), t)
      BY <1>3, <2>2
    <3>. QED
      BY <3>2, <3>3
  <2>3. Contains(Merges, t) <=> \E i \in 1 .. Len(ss) : Contains(ss[i], t)
    BY <1>6
  <2>. QED
    BY <2>1, <2>2, <2>3
<1>. QED
  BY <1>6, <1>7

LEMMA TupleContains ==
  /\ \A x, t : Contains(<<x>>, t) <=> t = x
  /\ \A x, y, t : Contains(<<x, y>>, t) <=> t = x \/ t = y
  /\ \A x, y, z, t : Contains(<<x, y, z>>, t) <=> t = x \/ t = y \/ t = z
BY DEF Contains

\* _install_root_file is two tasks for each file, whatever the order of the files.
LEMMA RootFilesAre ==
  ASSUME NEW q \in Seq(OverlayFiles), \A x : Contains(q, x) <=> x \in OverlayFiles,
         NEW ss, ss = [i \in 1 .. Len(q) |-> RootFile(q[i])]
  PROVE  /\ FlattenSeq(ss) \in Seq(RootTasks)
         /\ \A f \in OverlayFiles : Contains(FlattenSeq(ss), <<"install", f>>)
<1>1. Len(q) \in Nat /\ \A i \in 1 .. Len(q) : q[i] \in OverlayFiles
  OBVIOUS
<1>2. ASSUME NEW f \in OverlayFiles \cup {"rule"}
      PROVE  RootFile(f) \in Seq(RootTasks) /\ Contains(RootFile(f), <<"install", f>>)
  <2>1. <<"stage", f>> \in RootTasks /\ <<"install", f>> \in RootTasks
    BY DEF RootTasks
  <2>2. RootFile(f) = <<<<"stage", f>>, <<"install", f>>>>
    BY DEF RootFile
  <2>3. RootFile(f) \in Seq(RootTasks)
    BY <2>1, <2>2
  <2>. QED
    BY <2>2, <2>3, TupleContains
<1>3. ss \in Seq(Seq(RootTasks)) /\ Len(ss) = Len(q) /\ \A i \in 1 .. Len(q) : ss[i] = RootFile(q[i])
  <2>1. \A i \in 1 .. Len(q) : RootFile(q[i]) \in Seq(RootTasks)
    BY <1>1, <1>2
  <2>. QED
    BY <1>1, <2>1
<1>4. /\ FlattenSeq(ss) \in Seq(RootTasks)
      /\ \A x : Contains(FlattenSeq(ss), x) <=> \E i \in 1 .. Len(ss) : Contains(ss[i], x)
  BY <1>3, FlattenContains
<1>5. ASSUME NEW f \in OverlayFiles PROVE Contains(FlattenSeq(ss), <<"install", f>>)
  <2>1. PICK i \in 1 .. Len(q) : q[i] = f
    BY DEF Contains
  <2>2. Contains(ss[i], <<"install", f>>) /\ i \in 1 .. Len(ss)
    BY <1>2, <1>3, <2>1
  <2>. QED
    BY <1>4, <2>2
<1>. QED
  BY <1>4, <1>5

\* What is left when the fragments are loaded holds everything wanted but the tree.
LastKinds == {"utc", "list", "stage", "install", "unstage", "name", "udev"}

LEMMA LastTasksAre ==
  /\ LastTasks \in Seq(Tasks)
  /\ \A w \in Wanted : w # <<"tree">> => Contains(LastTasks, w)
  /\ \A t : Contains(LastTasks, t) => t[1] \in LastKinds
<1>. DEFINE q == SetToSeq(OverlayFiles)
            ss == [i \in 1 .. Len(q) |-> RootFile(q[i])]
            A == <<<<"utc">>, <<"list">>>>
            F == FlattenSeq(ss)
            R == RootFile("rule")
            U == <<<<"unstage">>, <<"name">>>>
            V == <<<<"udev", "reload">>, <<"udev", "trigger">>, <<"udev", "settle">>>>
            Of == {t \in Tasks : t[1] \in LastKinds}
<1>1. q \in Seq(OverlayFiles) /\ \A x : Contains(q, x) <=> x \in OverlayFiles
  BY FilesAssumption, SetToSeqContains
<1>2. LastTasks = Joined(Joined(Joined(Joined(A, F), R), U), V)
  BY Zenon DEF LastTasks, Joined
<1>. HIDE DEF q
<1>3. F \in Seq(RootTasks) /\ \A f \in OverlayFiles : Contains(F, <<"install", f>>)
  BY <1>1, RootFilesAre
<1>4. A \in Seq(Of) /\ R \in Seq(Of) /\ U \in Seq(Of) /\ V \in Seq(Of)
  BY DEF Tasks, OneTasks, UdevTasks, RootTasks, RootFile, LastKinds
<1>5. RootTasks \subseteq Of
  BY DEF Tasks, RootTasks, LastKinds
<1>6. F \in Seq(Of)
  BY <1>3, <1>5
<1>7. /\ Contains(A, <<"utc">>) /\ Contains(R, <<"install", "rule">>) /\ Contains(U, <<"name">>)
      /\ \A k \in {"reload", "trigger", "settle"} : Contains(V, <<"udev", k>>)
  BY TupleContains DEF RootFile
<1>. HIDE DEF A, F, R, U, V, Of
<1>8. /\ Joined(A, F) \in Seq(Of)
      /\ \A x : Contains(Joined(A, F), x) <=> Contains(A, x) \/ Contains(F, x)
  BY <1>4, <1>6, JoinedContains
<1>. DEFINE AF == Joined(A, F)
<1>. HIDE DEF AF
<1>9. /\ Joined(AF, R) \in Seq(Of)
      /\ \A x : Contains(Joined(AF, R), x) <=> Contains(AF, x) \/ Contains(R, x)
  BY <1>4, <1>8, JoinedContains DEF AF
<1>. DEFINE AR == Joined(AF, R)
<1>. HIDE DEF AR
<1>10. /\ Joined(AR, U) \in Seq(Of)
       /\ \A x : Contains(Joined(AR, U), x) <=> Contains(AR, x) \/ Contains(U, x)
  BY <1>4, <1>9, JoinedContains DEF AR
<1>. DEFINE AU == Joined(AR, U)
<1>. HIDE DEF AU
<1>11. /\ Joined(AU, V) \in Seq(Of)
       /\ \A x : Contains(Joined(AU, V), x) <=> Contains(AU, x) \/ Contains(V, x)
  BY <1>4, <1>10, JoinedContains DEF AU
<1>12. LastTasks = Joined(AU, V)
  BY <1>2 DEF AU, AR, AF
<1>13. \A w \in Wanted : w # <<"tree">> =>
         w \in {<<"utc">>, <<"name">>, <<"install", "rule">>}
         \/ (\E f \in OverlayFiles : w = <<"install", f>>)
         \/ (\E k \in {"reload", "trigger", "settle"} : w = <<"udev", k>>)
  BY DEF Wanted
<1>14. \A x : Contains(LastTasks, x) <=>
         Contains(A, x) \/ Contains(F, x) \/ Contains(R, x) \/ Contains(U, x) \/ Contains(V, x)
  BY <1>8, <1>9, <1>10, <1>11, <1>12, Zenon DEF AU, AR, AF
<1>15. \A w \in Wanted : w # <<"tree">> => Contains(LastTasks, w)
  BY <1>3, <1>7, <1>13, <1>14
<1>16. LastTasks \in Seq(Of)
  BY <1>11, <1>12
<1>17. LastTasks \in Seq(Tasks) /\ \A t : Contains(LastTasks, t) => t[1] \in LastKinds
  BY <1>16 DEF Of, Contains
<1>. QED
  BY <1>15, <1>17

\* The first tasks copy every file and merge none, and loading is the last of them.
LEMMA FirstTasksAre ==
  /\ FirstTasks \in Seq(Tasks) /\ FirstTasks # <<>>
  /\ Contains(FirstTasks, <<"tree">>) /\ Contains(FirstTasks, <<"load">>)
  /\ \A f \in SkelFiles : Contains(FirstTasks, <<"copy", f>>)
  /\ \A t : Contains(FirstTasks, t) => t[1] # "merge"
  /\ \A i \in 1 .. Len(FirstTasks) : FirstTasks[i] = <<"load">> => i = Len(FirstTasks)
<1>. DEFINE q == SetToSeq(SkelFiles)
            A == <<<<"script">>, <<"tree">>, <<"unscript">>>>
            C == [i \in 1 .. Len(q) |-> <<"copy", q[i]>>]
            L == <<<<"load">>>>
            Of == {t \in Tasks : t[1] \notin {"merge", "load"}}
<1>1. q \in Seq(SkelFiles) /\ \A x : Contains(q, x) <=> x \in SkelFiles
  BY FilesAssumption, SetToSeqContains
<1>2. FirstTasks = Joined(Joined(A, C), L)
  BY Zenon DEF FirstTasks, Joined
<1>. HIDE DEF q
<1>3. C \in Seq(Of) /\ \A f \in SkelFiles : Contains(C, <<"copy", f>>)
  <2>1. Len(q) \in Nat /\ \A i \in 1 .. Len(q) : <<"copy", q[i]>> \in Of
    BY <1>1 DEF Tasks, CopyTasks
  <2>2. C \in Seq(Of) /\ Len(C) = Len(q)
    BY <2>1
  <2>3. ASSUME NEW f \in SkelFiles PROVE Contains(C, <<"copy", f>>)
    <3>1. PICK i \in 1 .. Len(q) : q[i] = f
      BY <1>1 DEF Contains
    <3>2. C[i] = <<"copy", f>> /\ i \in 1 .. Len(C)
      BY <2>2, <3>1
    <3>. QED
      BY <3>2 DEF Contains
  <2>. QED
    BY <2>2, <2>3
<1>4. A \in Seq(Of) /\ Contains(A, <<"tree">>)
  BY TupleContains DEF Tasks, OneTasks
<1>5. /\ L \in Seq(Tasks) /\ Len(L) = 1 /\ Contains(L, <<"load">>) /\ L[1] = <<"load">>
      /\ \A t : Contains(L, t) => t = <<"load">>
  BY TupleContains DEF Tasks, OneTasks
<1>. HIDE DEF A, C, L
<1>6. /\ Joined(A, C) \in Seq(Of)
      /\ \A x : Contains(Joined(A, C), x) <=> Contains(A, x) \/ Contains(C, x)
  <2>. HIDE DEF Of
  <2>. QED
    BY <1>3, <1>4, JoinedContains
<1>. DEFINE D == Joined(A, C)
<1>. HIDE DEF D
<1>7. D \in Seq(Of) /\ D \in Seq(Tasks) /\ \A t : Contains(D, t) => t \in Of
  BY <1>6 DEF D, Contains
<1>8. /\ Joined(D, L) \in Seq(Tasks) /\ Len(Joined(D, L)) = Len(D) + Len(L)
      /\ \A x : Contains(Joined(D, L), x) <=> Contains(D, x) \/ Contains(L, x)
  <2>. HIDE DEF Of
  <2>. QED
    BY <1>5, <1>7, JoinedContains
<1>9. FirstTasks = Joined(D, L)
  BY <1>2 DEF D
<1>10. \A t \in Of : t[1] # "merge" /\ t # <<"load">>
  OBVIOUS
<1>11. \A i \in 1 .. Len(Joined(D, L)) : Joined(D, L)[i] = <<"load">> => i = Len(Joined(D, L))
  <2>. SUFFICES ASSUME NEW i \in 1 .. Len(Joined(D, L)), i # Len(Joined(D, L))
                PROVE  Joined(D, L)[i] # <<"load">>
    OBVIOUS
  <2>1. Len(D) \in Nat /\ i \in 1 .. Len(D)
    BY <1>5, <1>7, <1>8
  <2>2. Joined(D, L)[i] = D[i]
    BY <1>5, <1>7, <2>1 DEF Joined
  <2>3. D[i] \in Of
    BY <1>7, <2>1
  <2>. QED
    BY <1>10, <2>2, <2>3
<1>. HIDE DEF Of
<1>12. \A t : Contains(FirstTasks, t) => t[1] # "merge"
  <2>1. <<"load">>[1] = "load"
    OBVIOUS
  <2>. QED
    BY <1>5, <1>7, <1>8, <1>9, <1>10, <2>1
<1>13. FirstTasks # <<>>
  BY <1>5, <1>7, <1>8, <1>9
<1>. QED
  BY <1>3, <1>4, <1>5, <1>6, <1>8, <1>9, <1>11, <1>12, <1>13 DEF D

-----------------------------------------------------------------------------
(* The staging: the invariant.                                             *)

SystemStates == [SystemFiles -> {"absent", "product", "harness", "edited"}]

ConfigType ==
  /\ fragments \in [ProductFiles -> Seq(Lines)]
  /\ home \in [SkelFiles \cup ProductFiles -> [Settings -> {"harness", "product", "unset"}]]
  /\ system \in SystemStates
  /\ todo \in Seq(Tasks)
  /\ giveUp \in BOOLEAN
  /\ staging \in {"idle", "running", "ok", "raised"}
  /\ staging = "running" => todo # <<>>
  /\ staging \in {"idle", "ok"} => todo = <<>> /\ giveUp = FALSE

\* The fragments are loaded when nothing else is left of the first tasks.
LoadIsLast ==
  \A i \in 1 .. Len(todo) : todo[i] = <<"load">> => i = Len(todo)

\* Keys are merged, and have been merged, only where a fragment asks for them.
MergesAsked ==
  \A f \in ProductFiles, s \in Settings :
    Contains(todo, <<"merge", f, s>>) \/ home[f][s] = "harness" => AsksFor(fragments[f], s)

CopiesLeft ==
  \A f \in SkelFiles, s \in Settings : home[f][s] = "harness" \/ Contains(todo, <<"copy", f>>)

MergesLeft ==
  \A f \in ProductFiles, s \in Settings :
    AsksFor(fragments[f], s) =>
      \/ home[f][s] = "harness"
      \/ Contains(todo, <<"merge", f, s>>) \/ Contains(todo, <<"load">>)

WantedLeft ==
  \A w \in Wanted :
    \/ InPlace(w) \/ Contains(todo, w)
    \/ w # <<"tree">> /\ Contains(todo, <<"load">>)

\* Until it gives up, what is not in place is still to be done.
NothingForgotten ==
  staging \in {"running", "ok"} /\ ~giveUp => CopiesLeft /\ MergesLeft /\ WantedLeft

ConfigInv == ConfigType /\ LoadIsLast /\ MergesAsked /\ NothingForgotten

LEMMA ConfigInitial == ConfigInit => ConfigInv
<1>. SUFFICES ASSUME ConfigInit PROVE ConfigInv
  OBVIOUS
<1>1. fragments \in [ProductFiles -> Seq(Lines)]
  <2>1. \A n \in 0 .. MaxLines : [1 .. n -> Lines] \subseteq Seq(Lines)
    BY FilesAssumption
  <2>. QED
    BY <2>1 DEF ConfigInit
<1>2. PICK shipped \in Settings :
        home = [f \in SkelFiles \cup ProductFiles |->
                  [s \in Settings |->
                     IF f \in ProductFiles /\ s = shipped THEN "product" ELSE "unset"]]
  BY DEF ConfigInit
<1>3. /\ home \in [SkelFiles \cup ProductFiles -> [Settings -> {"harness", "product", "unset"}]]
      /\ \A f \in ProductFiles, s \in Settings : home[f][s] # "harness"
  <2>. DEFINE of(f) == [s \in Settings |->
                          IF f \in ProductFiles /\ s = shipped THEN "product" ELSE "unset"]
  <2>1. \A f : of(f) \in [Settings -> {"harness", "product", "unset"}]
             /\ \A s \in Settings : of(f)[s] # "harness"
    OBVIOUS
  <2>2. home = [f \in SkelFiles \cup ProductFiles |-> of(f)]
    BY <1>2
  <2>. HIDE DEF of
  <2>. QED
    BY <2>1, <2>2
<1>4. \A t : ~Contains(<<>>, t)
  BY DEF Contains
<1>5. todo = <<>> /\ giveUp = FALSE /\ staging = "idle"
  BY DEF ConfigInit
<1>6. ConfigType
  <2>1. todo \in Seq(Tasks)
    BY <1>5
  <2>2. giveUp \in BOOLEAN /\ staging \in {"idle", "running", "ok", "raised"} /\ staging # "running"
    BY <1>5
  <2>. QED
    <3>1. system \in SystemStates
      BY DEF ConfigInit, SystemStates
    <3>. QED
      BY <1>1, <1>3, <1>5, <2>1, <2>2, <3>1, Zenon DEF ConfigType
<1>7. LoadIsLast /\ NothingForgotten
  BY <1>5 DEF LoadIsLast, NothingForgotten
<1>8. MergesAsked
  BY <1>3, <1>4, <1>5 DEF MergesAsked
<1>. QED
  BY <1>6, <1>7, <1>8 DEF ConfigInv

\* The task at hand is the first of those to do.
LEMMA TaskIs ==
  ASSUME ConfigType, staging = "running"
  PROVE  /\ Task \in Tasks /\ Len(todo) \in Nat /\ Len(todo) >= 1 /\ Task = todo[1]
         /\ Contains(todo, Task)
         /\ Tail(todo) \in Seq(Tasks)
         /\ \A t : t # Task /\ Contains(todo, t) => Contains(Tail(todo), t)
         /\ \A t : Contains(Tail(todo), t) => Contains(todo, t)
<1>1. todo \in Seq(Tasks) /\ todo # <<>>
  BY DEF ConfigType
<1>2. /\ Len(todo) \in Nat /\ Len(todo) >= 1 /\ Task = todo[1] /\ Task \in Tasks
      /\ Tail(todo) \in Seq(Tasks) /\ Len(Tail(todo)) = Len(todo) - 1
      /\ \A i \in 1 .. Len(todo) - 1 : Tail(todo)[i] = todo[i + 1]
  BY <1>1 DEF Task
<1>3. Contains(todo, Task)
  BY <1>2 DEF Contains
<1>4. ASSUME NEW t, t # Task, NEW i \in 1 .. Len(todo), todo[i] = t
      PROVE  Contains(Tail(todo), t)
  <2>1. i - 1 \in 1 .. Len(Tail(todo)) /\ Tail(todo)[i - 1] = t
    BY <1>2, <1>4
  <2>. QED
    BY <2>1 DEF Contains
<1>5. ASSUME NEW t, NEW i \in 1 .. Len(Tail(todo)), Tail(todo)[i] = t
      PROVE  Contains(todo, t)
  <2>1. i + 1 \in 1 .. Len(todo) /\ todo[i + 1] = t
    BY <1>2, <1>5
  <2>. QED
    BY <2>1 DEF Contains
<1>. QED
  BY <1>2, <1>3, <1>4, <1>5 DEF Contains

LEMMA TaskKindsAre ==
  ASSUME NEW t \in Tasks
  PROVE  /\ t[1] = "merge" => /\ t[2] \in ProductFiles /\ t[3] \in Settings
                              /\ t = <<"merge", t[2], t[3]>>
         /\ t[1] = "copy" => t[2] \in SkelFiles /\ t = <<"copy", t[2]>>
         /\ t[1] = "load" => t = <<"load">>
         /\ t[1] = "install" => t[2] \in OverlayFiles \cup {"rule"} /\ t = <<"install", t[2]>>
         /\ t \in Wanted => t[1] \in {"tree", "utc", "install", "name", "udev"}
BY DEF Tasks, MergeTasks, CopyTasks, RootTasks, OneTasks, UdevTasks, Wanted

\* What wizard.py says it puts in the system.
SystemNamed(f) ==
  \/ f \in OverlayFiles \cup {"localtime", "rule"} /\ system'[f] = "harness"
  \/ f = "passwd" /\ system'[f] = "edited"

\* What a task may change, whether it is carried out or not ...
Touched ==
  /\ home' \in [SkelFiles \cup ProductFiles -> [Settings -> {"harness", "product", "unset"}]]
  /\ \A f \in SkelFiles, s \in Settings : home[f][s] = "harness" => home'[f][s] = "harness"
  /\ \A f \in ProductFiles, s \in Settings :
       \/ home'[f][s] = home[f][s]
       \/ Task = <<"merge", f, s>> /\ home'[f][s] = "harness"
  /\ system' \in SystemStates
  /\ \A w \in Wanted : InPlace(w) => InPlace(w)'
  /\ \A f \in SystemFiles : system'[f] # system[f] => SystemNamed(f)

\* ... and what is in place when it was.
Carried ==
  /\ \A f \in SkelFiles, s \in Settings : Task = <<"copy", f>> => home'[f][s] = "harness"
  /\ \A f \in ProductFiles, s \in Settings : Task = <<"merge", f, s>> => home'[f][s] = "harness"
  /\ \A w \in Wanted : Task = w => InPlace(w)'

\* No file of the system that was put in place is replaced by another task.
LEMMA SystemEffect ==
  ASSUME ConfigType, NEW t \in Tasks, t = Task, Effect
  PROVE  /\ system' \in SystemStates
         /\ \A w \in Wanted : InPlace(w) => InPlace(w)'
         /\ t \in Wanted => InPlace(t)'
         /\ \A f \in SystemFiles : system'[f] # system[f] => SystemNamed(f)
<1>. DEFINE Own == OverlayFiles \cup {"rule"}
<1>1. /\ OverlayFiles \cup {"localtime", "passwd", "rule"} \subseteq SystemFiles
      /\ "localtime" \notin Own /\ "passwd" \notin Own
  BY SystemAssumption DEF OwnTargets
<1>2. system \in SystemStates
  BY DEF ConfigType
<1>3. /\ t[1] = "install" => t[2] \in Own
      /\ t \in Wanted => t[1] \in {"tree", "utc", "install", "name", "udev"}
  BY TaskKindsAre
<1>4. placed \subseteq placed' /\ (t[1] \in {"tree", "udev"} => t \in placed')
  BY DEF Effect
<1>5. \A w \in Wanted : w[1] = "install" => w[2] \in Own
  BY DEF Wanted
<1>6. CASE t[1] = "install"
  <2>1. system' = [system EXCEPT ![t[2]] = "harness"] /\ t[2] \in Own
    BY <1>3, <1>6 DEF Effect, SystemAfter
  <2>2. \A f \in SystemFiles : system'[f] = IF f = t[2] THEN "harness" ELSE system[f]
    BY <1>2, <2>1 DEF SystemStates
  <2>3. system' \in SystemStates
    BY <1>2, <2>1 DEF SystemStates
  <2>. QED
    BY <1>1, <1>4, <1>5, <1>6, <2>1, <2>2, <2>3 DEF InPlace, SystemNamed
<1>7. CASE t[1] = "utc"
  <2>1. system' = [system EXCEPT !["localtime"] = "harness"]
    BY <1>7 DEF Effect, SystemAfter
  <2>2. \A f \in SystemFiles : system'[f] = IF f = "localtime" THEN "harness" ELSE system[f]
    BY <1>2, <2>1 DEF SystemStates
  <2>3. system' \in SystemStates
    BY <1>2, <2>1 DEF SystemStates
  <2>. QED
    BY <1>1, <1>4, <1>5, <1>7, <2>2, <2>3 DEF InPlace, SystemNamed
<1>8. CASE t[1] = "name"
  <2>1. system' = [system EXCEPT !["passwd"] = "edited"]
    BY <1>8 DEF Effect, SystemAfter
  <2>2. \A f \in SystemFiles : system'[f] = IF f = "passwd" THEN "edited" ELSE system[f]
    BY <1>2, <2>1 DEF SystemStates
  <2>3. system' \in SystemStates
    BY <1>2, <2>1 DEF SystemStates
  <2>. QED
    BY <1>1, <1>4, <1>5, <1>8, <2>2, <2>3 DEF InPlace, SystemNamed
<1>9. CASE t[1] \notin {"install", "utc", "name"}
  <2>1. system' = system
    BY <1>9 DEF Effect, SystemAfter
  <2>. QED
    BY <1>2, <1>3, <1>4, <1>9, <2>1 DEF InPlace
<1>. QED
  BY <1>6, <1>7, <1>8, <1>9

LEMMA EffectTouches ==
  ASSUME ConfigType, staging = "running", Effect
  PROVE  Touched /\ Carried
<1>. DEFINE H == [SkelFiles \cup ProductFiles -> [Settings -> {"harness", "product", "unset"}]]
<1>1. Task \in Tasks
  BY TaskIs
<1>2. home \in H
  BY DEF ConfigType
<1>3. /\ Task[1] = "copy" => home' = [home EXCEPT ![Task[2]] = [s \in Settings |-> "harness"]]
      /\ Task[1] = "merge" => home' = [home EXCEPT ![Task[2]][Task[3]] = "harness"]
      /\ Task[1] \notin {"copy", "merge"} => home' = home
  BY DEF Effect, OneKey
<1>. DEFINE t == Task
<1>4. /\ t[1] = "merge" => t[2] \in ProductFiles /\ t[3] \in Settings /\ t = <<"merge", t[2], t[3]>>
      /\ t[1] = "copy" => t[2] \in SkelFiles /\ t = <<"copy", t[2]>>
  BY <1>1, TaskKindsAre
<1>5. /\ \A f, s : t = <<"merge", f, s>> => t[1] = "merge" /\ t[2] = f /\ t[3] = s
      /\ \A f : t = <<"copy", f>> => t[1] = "copy" /\ t[2] = f
  OBVIOUS
<1>6. /\ system' \in SystemStates
      /\ \A w \in Wanted : InPlace(w) => InPlace(w)'
      /\ \A w \in Wanted : Task = w => InPlace(w)'
      /\ \A f \in SystemFiles : system'[f] # system[f] => SystemNamed(f)
  <2>1. ASSUME NEW u, u = Task
        PROVE  /\ system' \in SystemStates
               /\ \A w \in Wanted : InPlace(w) => InPlace(w)'
               /\ u \in Wanted => InPlace(u)'
               /\ \A f \in SystemFiles : system'[f] # system[f] => SystemNamed(f)
    BY <1>1, <2>1, SystemEffect
  <2>. QED
    BY <2>1
<1>7. SkelFiles \cap ProductFiles = {}
  BY FilesAssumption
<1>. HIDE DEF t
<1>8. CASE t[1] = "copy"
  <2>1. home' = [home EXCEPT ![t[2]] = [s \in Settings |-> "harness"]] /\ t[2] \in SkelFiles
    BY <1>3, <1>4, <1>8 DEF t
  <2>2. home' \in H
    BY <1>2, <2>1
  <2>3. \A f \in SkelFiles \cup ProductFiles, s \in Settings :
          home'[f][s] = IF f = t[2] THEN "harness" ELSE home[f][s]
    BY <1>2, <2>1
  <2>4. \A f, s : t # <<"merge", f, s>>
    BY <1>5, <1>8
  <2>5. \A f : t = <<"copy", f>> => t[2] = f
    BY <1>5
  <2>. QED
    BY <1>6, <1>7, <2>1, <2>2, <2>3, <2>4, <2>5 DEF Touched, Carried, t
<1>9. CASE t[1] = "merge"
  <2>1. /\ home' = [home EXCEPT ![t[2]][t[3]] = "harness"]
        /\ t[2] \in ProductFiles /\ t[3] \in Settings /\ t = <<"merge", t[2], t[3]>>
    BY <1>3, <1>4, <1>9 DEF t
  <2>2. home' \in H
    BY <1>2, <2>1
  <2>3. \A f \in SkelFiles \cup ProductFiles, s \in Settings :
          home'[f][s] = IF f = t[2] /\ s = t[3] THEN "harness" ELSE home[f][s]
    BY <1>2, <2>1
  <2>4. \A f : t # <<"copy", f>>
    BY <1>5, <1>9
  <2>5. \A f, s : t = <<"merge", f, s>> <=> t[2] = f /\ t[3] = s
    BY <1>5, <2>1
  <2>. QED
    BY <1>6, <1>7, <2>1, <2>2, <2>3, <2>4, <2>5 DEF Touched, Carried, t
<1>10. CASE t[1] \notin {"copy", "merge"}
  <2>1. home' = home
    BY <1>3, <1>10 DEF t
  <2>2. \A f, s : t # <<"merge", f, s>> /\ t # <<"copy", f>>
    BY <1>5, <1>10
  <2>. QED
    BY <1>2, <1>6, <2>1, <2>2 DEF Touched, Carried, t
<1>. QED
  BY <1>8, <1>9, <1>10

LEMMA NoEffectTouches ==
  ASSUME ConfigType, NoEffect
  PROVE  Touched
BY DEF ConfigType, NoEffect, Touched, InPlace

\* A task that was carried out leaves the rest to be done ...
LEMMA GoesOnKeeps ==
  ASSUME ConfigInv, staging = "running", Task # <<"load">>, Touched, Carried, Advance,
         UNCHANGED fragments
  PROVE  ConfigInv'
<1>1. /\ Task \in Tasks /\ Len(todo) \in Nat /\ Len(todo) >= 1 /\ Task = todo[1]
      /\ Contains(todo, Task)
      /\ Tail(todo) \in Seq(Tasks)
      /\ \A t : t # Task /\ Contains(todo, t) => Contains(Tail(todo), t)
      /\ \A t : Contains(Tail(todo), t) => Contains(todo, t)
  BY TaskIs DEF ConfigInv
<1>2. todo \in Seq(Tasks)
  BY DEF ConfigInv, ConfigType
<1>3. Len(Tail(todo)) = Len(todo) - 1 /\ \A i \in 1 .. Len(todo) - 1 : Tail(todo)[i] = todo[i + 1]
  BY <1>1, <1>2
<1>4. Len(todo) = 1 => Tail(todo) = <<>>
  BY <1>1, <1>2, <1>3
<1>5. todo' = IF giveUp THEN <<>> ELSE Tail(todo)
  BY DEF Advance
<1>6. giveUp \in BOOLEAN
  BY DEF ConfigInv, ConfigType
<1>7. ConfigType'
  <2>1. todo' \in Seq(Tasks)
    BY <1>1, <1>5
  <2>2. staging' = "running" => ~giveUp /\ Len(todo) # 1
    BY DEF Advance
  <2>3. Len(todo) # 1 => Tail(todo) # <<>>
    <3>1. Len(<<>>) = 0
      OBVIOUS
    <3>2. Len(Tail(todo)) = Len(todo) - 1 /\ Len(todo) \in Nat
      BY <1>1, <1>3
    <3>3. Len(todo) # 1 => Len(Tail(todo)) # 0
      BY <3>2
    <3>. QED
      BY <3>1, <3>3, Zenon
  <2>4. /\ staging' \in {"idle", "running", "ok", "raised"}
        /\ staging' = "running" => todo' # <<>>
        /\ staging' \in {"idle", "ok"} => todo' = <<>> /\ giveUp' = FALSE
    BY <1>1, <1>4, <1>5, <1>6, <2>2, <2>3 DEF Advance
  <2>. QED
    BY <1>6, <2>1, <2>4 DEF ConfigType, ConfigInv, Touched, Advance
<1>8. \A t : Contains(todo', t) => Contains(todo, t)
  <2>1. \A t : ~Contains(<<>>, t)
    BY DEF Contains
  <2>. QED
    BY <1>1, <1>5, <2>1
<1>9. LoadIsLast'
  <2>1. LoadIsLast
    BY DEF ConfigInv
  <2>2. CASE giveUp
    BY <1>5, <2>2 DEF LoadIsLast
  <2>3. CASE ~giveUp
    <3>. SUFFICES ASSUME NEW i \in 1 .. Len(Tail(todo)), Tail(todo)[i] = <<"load">>
                  PROVE  i = Len(Tail(todo))
      BY <1>5, <2>3, Zenon DEF LoadIsLast
    <3>1. i + 1 \in 1 .. Len(todo) /\ todo[i + 1] = <<"load">>
      BY <1>1, <1>3
    <3>2. i + 1 = Len(todo)
      BY <2>1, <3>1 DEF LoadIsLast
    <3>3. Len(Tail(todo)) = Len(todo) - 1 /\ Len(todo) \in Nat /\ i \in Int
      BY <1>1, <1>3
    <3>. QED
      BY <3>2, <3>3
  <2>. QED
    BY <2>2, <2>3
<1>10. MergesAsked'
  <2>. SUFFICES ASSUME NEW f \in ProductFiles, NEW s \in Settings,
                       Contains(todo', <<"merge", f, s>>) \/ home'[f][s] = "harness"
                PROVE  AsksFor(fragments[f], s)
    BY DEF MergesAsked
  <2>1. Contains(todo, <<"merge", f, s>>) \/ home[f][s] = "harness"
    BY <1>1, <1>8 DEF Touched
  <2>. QED
    BY <2>1 DEF ConfigInv, MergesAsked
<1>11. NothingForgotten'
  <2>. SUFFICES ASSUME ~giveUp PROVE (CopiesLeft /\ MergesLeft /\ WantedLeft)'
    BY DEF NothingForgotten, Advance
  <2>1. CopiesLeft /\ MergesLeft /\ WantedLeft
    BY DEF ConfigInv, NothingForgotten
  <2>2. \A t : Contains(todo, t) => t = Task \/ Contains(todo', t)
    BY <1>1, <1>5
  <2>3. CopiesLeft'
    BY <2>1, <2>2 DEF CopiesLeft, Touched, Carried
  <2>4. MergesLeft'
    BY <2>1, <2>2 DEF MergesLeft, Touched, Carried
  <2>5. WantedLeft'
    <3>. SUFFICES ASSUME NEW w \in Wanted
                  PROVE  \/ InPlace(w)' \/ Contains(todo', w)
                         \/ w # <<"tree">> /\ Contains(todo', <<"load">>)
      BY DEF WantedLeft
    <3>1. InPlace(w) => InPlace(w)'
      BY DEF Touched
    <3>2. Task = w => InPlace(w)'
      BY DEF Carried
    <3>. QED
      BY <2>1, <2>2, <3>1, <3>2 DEF WantedLeft
  <2>. QED
    BY <2>3, <2>4, <2>5
<1>. QED
  BY <1>7, <1>9, <1>10, <1>11 DEF ConfigInv

\* ... and after one that was not, nothing but the removal of what it left behind is.
LEMMA GivesUpKeeps ==
  ASSUME ConfigInv, staging = "running", Touched, UNCHANGED fragments,
         NEW left \in {<<"unscript">>, <<"unstage">>},
         \/ todo' = <<>> /\ staging' = "raised" /\ giveUp' = giveUp
         \/ todo' = <<left>> /\ staging' = "running" /\ giveUp' = TRUE
  PROVE  ConfigInv'
<1>1. giveUp \in BOOLEAN
  BY DEF ConfigInv, ConfigType
<1>2. todo' \in Seq(Tasks)
  <2>1. left \in Tasks
    BY DEF Tasks, OneTasks
  <2>2. <<left>> \in Seq(Tasks) /\ <<>> \in Seq(Tasks)
    BY <2>1
  <2>. QED
    BY <2>2
<1>3. \A t : Contains(todo', t) => t = left
  <2>1. \A t : ~Contains(<<>>, t)
    BY DEF Contains
  <2>. QED
    BY <2>1, TupleContains
<1>4. /\ staging' \in {"running", "raised"} /\ giveUp' \in BOOLEAN
      /\ staging' = "running" => todo' # <<>> /\ giveUp' = TRUE
  <2>1. <<left>> # <<>>
    OBVIOUS
  <2>2. CASE todo' = <<>> /\ staging' = "raised" /\ giveUp' = giveUp
    BY <1>1, <2>2
  <2>3. CASE todo' = <<left>> /\ staging' = "running" /\ giveUp' = TRUE
    BY <2>1, <2>3
  <2>. QED
    BY <2>2, <2>3
<1>5. ConfigType'
  BY <1>2, <1>4 DEF ConfigType, ConfigInv, Touched
<1>6. LoadIsLast'
  <2>1. left # <<"load">>
    OBVIOUS
  <2>2. \A i \in 1 .. Len(todo') : todo'[i] # <<"load">>
    BY <1>3, <2>1 DEF Contains
  <2>. QED
    BY <2>2 DEF LoadIsLast
<1>7. MergesAsked'
  <2>1. \A f, s : left # <<"merge", f, s>>
    OBVIOUS
  <2>. SUFFICES ASSUME NEW f \in ProductFiles, NEW s \in Settings, home'[f][s] = "harness"
                PROVE  AsksFor(fragments[f], s)
    BY <1>3, <2>1 DEF MergesAsked
  <2>2. home[f][s] = "harness" \/ Contains(todo, <<"merge", f, s>>)
    BY TaskIs DEF Touched, ConfigInv
  <2>. QED
    BY <2>2 DEF ConfigInv, MergesAsked
<1>8. NothingForgotten'
  BY <1>4 DEF NothingForgotten
<1>. QED
  BY <1>5, <1>6, <1>7, <1>8 DEF ConfigInv

LEMMA BeginConfigKeeps == ASSUME ConfigInv, BeginConfig PROVE ConfigInv'
<1>1. /\ todo' = FirstTasks /\ staging' = "running" /\ giveUp' = giveUp /\ home' = home
      /\ system' = system /\ placed' = placed /\ fragments' = fragments
  BY DEF BeginConfig
<1>2. ConfigType'
  <2>1. FirstTasks \in Seq(Tasks) /\ FirstTasks # <<>>
    BY FirstTasksAre
  <2>. QED
    BY <1>1, <2>1 DEF ConfigInv, ConfigType
<1>3. LoadIsLast'
  BY <1>1, FirstTasksAre DEF LoadIsLast
<1>4. \A f, s : <<"merge", f, s>>[1] = "merge"
  OBVIOUS
<1>5. MergesAsked'
  BY <1>1, <1>4, FirstTasksAre DEF ConfigInv, MergesAsked
<1>6. CopiesLeft' /\ MergesLeft' /\ WantedLeft'
  BY <1>1, FirstTasksAre DEF CopiesLeft, MergesLeft, WantedLeft
<1>. QED
  BY <1>2, <1>3, <1>5, <1>6 DEF ConfigInv, NothingForgotten

LEMMA LoadFragmentsKeeps == ASSUME ConfigInv, LoadFragments PROVE ConfigInv'
<1>1. /\ staging = "running" /\ FragmentsOk /\ todo' = Joined(Merges, LastTasks)
      /\ staging' = staging /\ giveUp' = giveUp /\ home' = home
      /\ system' = system /\ placed' = placed /\ fragments' = fragments
  BY DEF LoadFragments, Joined
<1>2. Task = <<"load">> /\ todo[1] = <<"load">> /\ Len(todo) \in Nat /\ Len(todo) >= 1
  BY <1>1, TaskIs, TaskKindsAre DEF ConfigInv, LoadFragments
<1>3. \A t : Contains(todo, t) => t = <<"load">>
  <2>1. Len(todo) = 1
    BY <1>2 DEF ConfigInv, LoadIsLast
  <2>. QED
    BY <1>2, <2>1 DEF Contains
<1>4. /\ Merges \in Seq(MergeTasks)
      /\ \A f \in ProductFiles, s \in Settings :
           Contains(Merges, <<"merge", f, s>>) <=> AsksFor(fragments[f], s)
  BY <1>1, MergesAre DEF ConfigInv, ConfigType
<1>5. Merges \in Seq(Tasks)
  BY <1>4 DEF Tasks
<1>6. LastTasks \in Seq(Tasks)
  BY LastTasksAre
<1>7. /\ Joined(Merges, LastTasks) \in Seq(Tasks)
      /\ \A t : Contains(Joined(Merges, LastTasks), t) <=> Contains(Merges, t) \/ Contains(LastTasks, t)
  BY <1>5, <1>6, JoinedContains
<1>8. \A t : Contains(todo', t) <=> Contains(Merges, t) \/ Contains(LastTasks, t)
  BY <1>1, <1>7
<1>9. \A t : Contains(Merges, t) => t[1] = "merge"
  BY <1>4 DEF Contains, MergeTasks
<1>10. todo' # <<>>
  <2>1. <<"utc">> \in Wanted /\ <<"utc">> # <<"tree">>
    BY DEF Wanted
  <2>2. Contains(todo', <<"utc">>)
    BY <1>8, <2>1, LastTasksAre
  <2>3. \A t : ~Contains(<<>>, t)
    BY DEF Contains
  <2>. QED
    BY <2>2, <2>3
<1>11. ConfigType'
  BY <1>1, <1>7, <1>10 DEF ConfigInv, ConfigType
<1>12. LoadIsLast'
  <2>1. <<"load">>[1] = "load"
    OBVIOUS
  <2>2. ~Contains(todo', <<"load">>)
    BY <1>8, <1>9, <2>1, LastTasksAre DEF LastKinds
  <2>. QED
    BY <2>2 DEF LoadIsLast, Contains
<1>13. \A f \in ProductFiles, s \in Settings :
         Contains(todo', <<"merge", f, s>>) <=> AsksFor(fragments[f], s)
  <2>1. \A f, s : <<"merge", f, s>>[1] = "merge"
    OBVIOUS
  <2>2. \A f, s : ~Contains(LastTasks, <<"merge", f, s>>)
    BY <2>1, LastTasksAre DEF LastKinds
  <2>. QED
    BY <1>4, <1>8, <2>2
<1>14. MergesAsked'
  BY <1>1, <1>13 DEF ConfigInv, MergesAsked
<1>15. NothingForgotten'
  <2>. SUFFICES ASSUME ~giveUp PROVE (CopiesLeft /\ MergesLeft /\ WantedLeft)'
    BY <1>1 DEF NothingForgotten
  <2>1. CopiesLeft /\ WantedLeft
    BY <1>1 DEF ConfigInv, NothingForgotten
  <2>2. \A f : <<"copy", f>> # <<"load">>
    OBVIOUS
  <2>3. CopiesLeft'
    BY <1>1, <1>3, <2>1, <2>2 DEF CopiesLeft
  <2>4. MergesLeft'
    BY <1>1, <1>13 DEF MergesLeft
  <2>5. InPlace(<<"tree">>)
    <3>1. <<"tree">> \in Wanted /\ <<"tree">> # <<"load">>
      BY DEF Wanted
    <3>. QED
      BY <1>3, <2>1, <3>1 DEF WantedLeft
  <2>6. WantedLeft'
    <3>1. \A w : InPlace(w)' <=> InPlace(w)
      BY <1>1 DEF InPlace
    <3>. QED
      BY <1>1, <1>8, <2>5, <3>1, LastTasksAre DEF WantedLeft
  <2>. QED
    BY <2>3, <2>4, <2>6
<1>. QED
  BY <1>11, <1>12, <1>14, <1>15 DEF ConfigInv

\* A task whose effect leaves nothing that is wanted counts as carried out.
LEMMA NothingToCarry ==
  ASSUME ConfigType, staging = "running", Task[1] \in {"unscript", "unstage", "list"}
  PROVE  Carried /\ Task # <<"load">>
<1>1. Task \in Tasks
  BY TaskIs
<1>2. Task \notin Wanted
  BY <1>1, TaskKindsAre
<1>3. /\ \A f, s : Task # <<"merge", f, s>>
      /\ \A f : Task # <<"copy", f>>
      /\ Task # <<"load">>
  OBVIOUS
<1>. QED
  BY <1>2, <1>3 DEF Carried

LEMMA GiveUpKeeps ==
  ASSUME ConfigInv, staging = "running", Touched, UNCHANGED fragments,
         GiveUp \/ (todo' = <<<<"unscript">>>> /\ giveUp' = TRUE /\ UNCHANGED staging)
  PROVE  ConfigInv'
<1>1. CASE Staged /\ GiveUp
  BY <1>1, GivesUpKeeps DEF GiveUp
<1>2. CASE ~Staged /\ GiveUp
  BY <1>2, GivesUpKeeps DEF GiveUp
<1>3. CASE todo' = <<<<"unscript">>>> /\ giveUp' = TRUE /\ UNCHANGED staging
  BY <1>3, GivesUpKeeps
<1>. QED
  BY <1>1, <1>2, <1>3

\* Every step of the staging touches only what its task is about.
LEMMA ConfigStepTouches ==
  ASSUME ConfigInv, ConfigNext
  PROVE  /\ UNCHANGED fragments
         /\ UNCHANGED <<home, system>> \/ (staging = "running" /\ Touched)
<1>1. ConfigType
  BY DEF ConfigInv
<1>. QED
  BY <1>1, EffectTouches, NoEffectTouches
     DEF ConfigNext, BeginConfig, TaskDone, LoadFragments, ListOverlay, ExitsNonzero, RmFails,
         TaskFails

LEMMA ConfigStep == ConfigInv /\ (ConfigNext \/ UNCHANGED configVars) => ConfigInv'
<1>. SUFFICES ASSUME ConfigInv, ConfigNext \/ UNCHANGED configVars PROVE ConfigInv'
  OBVIOUS
<1>1. ConfigType
  BY DEF ConfigInv
<1>2. CASE TaskDone
  <2>1. Touched /\ Carried
    BY <1>1, <1>2, EffectTouches DEF TaskDone
  <2>2. Task # <<"load">>
    BY <1>2 DEF TaskDone, OnHost
  <2>. QED
    BY <1>2, <2>1, <2>2, GoesOnKeeps DEF TaskDone
<1>3. CASE ListOverlay
  <2>1. Touched
    BY <1>1, <1>3, NoEffectTouches DEF ListOverlay, NoEffect, ConfigType, Touched, InPlace
  <2>2. Carried /\ Task # <<"load">>
    BY <1>1, <1>3, NothingToCarry DEF ListOverlay
  <2>. QED
    BY <1>3, <2>1, <2>2, GoesOnKeeps DEF ListOverlay
<1>4. CASE ExitsNonzero
  <2>1. Touched
    BY <1>1, <1>4, EffectTouches, NoEffectTouches DEF ExitsNonzero
  <2>. QED
    BY <1>4, <2>1, GiveUpKeeps DEF ExitsNonzero
<1>5. CASE RmFails
  <2>1. Touched
    BY <1>1, <1>5, NoEffectTouches DEF RmFails
  <2>2. Carried /\ Task # <<"load">>
    BY <1>1, <1>5, NothingToCarry DEF RmFails
  <2>. QED
    BY <1>5, <2>1, <2>2, GoesOnKeeps DEF RmFails
<1>6. CASE TaskFails
  <2>1. Touched
    BY <1>1, <1>6, EffectTouches, NoEffectTouches DEF TaskFails
  <2>2. CASE Task[1] = "unstage"
    <3>1. Carried /\ Task # <<"load">>
      BY <1>1, <1>6, <2>2, NothingToCarry DEF TaskFails
    <3>. QED
      BY <1>6, <2>1, <2>2, <3>1, GoesOnKeeps DEF TaskFails
  <2>3. CASE Task[1] # "unstage"
    BY <1>6, <2>1, <2>3, GiveUpKeeps DEF TaskFails
  <2>. QED
    BY <2>2, <2>3
<1>7. CASE UNCHANGED configVars
  BY <1>7 DEF configVars, ConfigInv, ConfigType, LoadIsLast, MergesAsked, NothingForgotten,
              CopiesLeft, MergesLeft, WantedLeft, InPlace
<1>. QED
  BY <1>2, <1>3, <1>4, <1>5, <1>6, <1>7, BeginConfigKeeps, LoadFragmentsKeeps DEF ConfigNext

\* When the staging has returned, nothing is to be done, hence everything is in place.
LEMMA ConfigOkIsWhole == ASSUME ConfigInv, staging = "ok" PROVE ConfigWhole
<1>1. todo = <<>> /\ ~giveUp
  BY DEF ConfigInv, ConfigType
<1>2. \A t : ~Contains(todo, t)
  BY <1>1 DEF Contains
<1>3. CopiesLeft /\ MergesLeft /\ WantedLeft
  BY <1>1 DEF ConfigInv, NothingForgotten
<1>. QED
  BY <1>2, <1>3 DEF ConfigInv, MergesAsked, CopiesLeft, MergesLeft, WantedLeft, ConfigWhole

-----------------------------------------------------------------------------
(* The test packages.                                                      *)

PackageType ==
  /\ snapshot \subseteq Packages
  /\ guestHas \in [Packages -> {"none", "snapshot", "other"}]
  /\ copied \subseteq need
  /\ at \in {"resolve", "query", "download", "conf", "copy", "install", "clean"}
  /\ failing \in BOOLEAN
  /\ packing \in {"idle", "running", "ok", "raised"}

AllOfSnapshot == \A p \in snapshot : guestHas[p] = "snapshot"

\* What each place of the call has made sure of.
PackagesSoFar ==
  /\ at \in {"resolve", "query"} => copied = {}
  /\ at \in {"query", "download", "conf", "copy", "install"} \/ (at = "clean" /\ ~failing) =>
       Targets \subseteq snapshot
  /\ at \in {"download", "conf", "copy", "install"} => need = Missing /\ ~Differs
  /\ at = "install" => need \subseteq copied
  /\ at = "clean" /\ ~failing => AllOfSnapshot
  /\ at # "clean" => ~failing
  /\ packing = "ok" => PackagesWhole

PackageInv == PackageType /\ PackagesSoFar

LEMMA PackageInitial == PackageInit => PackageInv
BY DEF PackageInit, PackageInv, PackageType, PackagesSoFar

\* With no other version installed, what is not missing is installed as the snapshot has it.
LEMMA Complete ==
  ASSUME PackageType, ~Differs
  PROVE  \A p \in snapshot : guestHas[p] = "snapshot" \/ p \in Missing
BY DEF PackageType, Differs, Missing

\* A failing step of the packages cleans up and raises, wherever it was.
LEMMA ThrowKeeps ==
  ASSUME PackageInv, packing = "running", at # "clean", Throw,
         UNCHANGED <<snapshot, synced>>,
         guestHas' = guestHas \/ at = "install",
         guestHas' \in [Packages -> {"none", "snapshot", "other"}],
         copied' \subseteq need',
         at \in {"resolve", "query"} => copied' = {},
         need' = need \/ at = "query",
         at = "query" => copied' = copied
  PROVE  PackageInv'
<1>1. CASE at \in {"conf", "copy", "install"}
  BY <1>1 DEF Throw, PackageInv, PackageType, PackagesSoFar
<1>2. CASE at \in {"resolve", "query", "download"}
  BY <1>2 DEF Throw, PackageInv, PackageType, PackagesSoFar, Missing, Differs
<1>. QED
  BY <1>1, <1>2 DEF PackageInv, PackageType

LEMMA InstalledIs ==
  ASSUME PackageInv, at = "install"
  PROVE  /\ Installed \in [Packages -> {"none", "snapshot", "other"}]
         /\ \A p \in snapshot : Installed[p] = "snapshot"
         /\ \A p \in Packages : Installed[p] # guestHas[p] => guestHas[p] = "none"
<1>1. \A p \in snapshot : guestHas[p] = "snapshot" \/ p \in copied
  BY Complete DEF PackageInv, PackagesSoFar
<1>2. \A p \in copied : guestHas[p] = "none"
  BY DEF PackageInv, PackageType, PackagesSoFar, Missing
<1>. QED
  BY <1>1, <1>2 DEF PackageInv, PackageType, Installed

LEMMA PackageStep ==
  ASSUME PackageInv, PackageNext \/ UNCHANGED packageVars
  PROVE  /\ PackageInv'
         /\ \A p \in Packages : guestHas'[p] # guestHas[p] => guestHas[p] = "none"
<1>. USE DEF Running, Go
<1>1. CASE BeginPackages
  BY <1>1 DEF BeginPackages, PackageInv, PackageType, PackagesSoFar, Missing, Differs, AllOfSnapshot
<1>2. CASE Sync
  BY <1>2, ThrowKeeps DEF Sync, PackageInv, PackageType, PackagesSoFar, Missing, Differs, AllOfSnapshot
<1>3. CASE Resolve
  BY <1>3, ThrowKeeps DEF Resolve, PackageInv, PackageType, PackagesSoFar, Missing, Differs, AllOfSnapshot
<1>4. CASE Query
  BY <1>4, ThrowKeeps, Complete DEF Query, PackageInv, PackageType, PackagesSoFar, Missing, Differs, AllOfSnapshot, PackagesWhole
<1>5. CASE Download
  BY <1>5, ThrowKeeps DEF Download, PackageInv, PackageType, PackagesSoFar, Missing, Differs, AllOfSnapshot
<1>6. CASE WriteConf
  BY <1>6, ThrowKeeps DEF WriteConf, PackageInv, PackageType, PackagesSoFar, Missing, Differs, AllOfSnapshot
<1>7. ASSUME NEW p \in Packages, CopyFile(p) PROVE PackageInv' /\ guestHas' = guestHas
  BY <1>7, ThrowKeeps DEF CopyFile, PackageInv, PackageType, PackagesSoFar, Missing, Differs, AllOfSnapshot
<1>8. CASE CopiedAll
  BY <1>8 DEF CopiedAll, PackageInv, PackageType, PackagesSoFar, Missing, Differs, AllOfSnapshot
<1>9. CASE InstallPackages
  BY <1>9, ThrowKeeps, InstalledIs DEF InstallPackages, PacmanU, PackageInv, PackageType, PackagesSoFar, AllOfSnapshot
<1>10. CASE Clean
  BY <1>10 DEF Clean, PackageInv, PackageType, PackagesSoFar, Missing, Differs, AllOfSnapshot, PackagesWhole
<1>11. CASE UNCHANGED packageVars
  BY <1>11 DEF packageVars, PackageInv, PackageType, PackagesSoFar, Missing, Differs, AllOfSnapshot, PackagesWhole
<1>. QED
  BY <1>1, <1>2, <1>3, <1>4, <1>5, <1>6, <1>7, <1>8, <1>9, <1>10, <1>11 DEF PackageNext

-----------------------------------------------------------------------------
(* The login.                                                              *)

\* The screen tells whether a session runs, and only a whole session was started.
LoginInv ==
  /\ greeter \in {"boot", "greeter", "starting", "desktop"}
  /\ saw = IF greeter \in {"starting", "desktop"} THEN "whole" ELSE "none"
  /\ greeter = "boot" => ~white
  /\ greeter = "greeter" => white
  /\ accepted => MayLogIn
  /\ login # "idle" => MayLogIn
  /\ login \in {"tile", "fill", "submit", "dismiss", "ok"} => greeter # "boot"
  /\ login = "ok" => saw = "whole"

PrepInv == ConfigInv /\ PackageInv /\ LoginInv

LEMMA LoginStep ==
  ASSUME PrepInv, LoginNext, UNCHANGED <<configVars, packageVars>>
  PROVE  LoginInv'
<1>1. UNCHANGED <<staging, packing>>
  BY DEF configVars, packageVars
<1>2. MayLogIn => ConfigWhole /\ PackagesWhole
  BY ConfigOkIsWhole DEF MayLogIn, PrepInv, PackageInv, PackagesSoFar
<1>. USE <1>1 DEF PrepInv, LoginInv, MayLogIn
<1>3. CASE GreeterAppears
  BY <1>3 DEF GreeterAppears
<1>4. CASE SessionStarts
  BY <1>2, <1>4 DEF SessionStarts
<1>5. CASE DesktopAppears
  BY <1>5 DEF DesktopAppears
<1>6. CASE BeginLogin
  BY <1>6 DEF BeginLogin
<1>7. CASE SeeGreeter
  BY <1>7 DEF SeeGreeter, FieldVisible
<1>8. CASE ClickTile
  BY <1>8 DEF ClickTile
<1>9. CASE FillPassword
  BY <1>9 DEF FillPassword
<1>10. CASE ClickLogIn
  BY <1>10 DEF ClickLogIn
<1>11. CASE SeeDismissed
  BY <1>11 DEF SeeDismissed, Dismissed, FieldVisible
<1>12. CASE LoginFails
  BY <1>12 DEF LoginFails
<1>. QED
  BY <1>3, <1>4, <1>5, <1>6, <1>7, <1>8, <1>9, <1>10, <1>11, <1>12 DEF LoginNext

LEMMA PrepInitial == PrepInit => PrepInv
<1>1. LoginInit => LoginInv
  BY DEF LoginInit, LoginInv
<1>. QED
  BY <1>1, ConfigInitial, PackageInitial DEF PrepInit, PrepInv

LEMMA PrepStep ==
  PrepInv /\ [PrepNext]_prepVars =>
    /\ PrepInv'
    /\ \A p \in Packages : guestHas'[p] # guestHas[p] => guestHas[p] = "none"
<1>. SUFFICES ASSUME PrepInv, [PrepNext]_prepVars
              PROVE  PrepInv' /\ \A p \in Packages : guestHas'[p] # guestHas[p] => guestHas[p] = "none"
  OBVIOUS
<1>1. ConfigInv /\ PackageInv /\ LoginInv
  BY DEF PrepInv
<1>2. CASE ConfigNext /\ UNCHANGED <<packageVars, loginVars>>
  <2>1. ConfigInv'
    BY <1>1, <1>2, ConfigStep
  <2>2. PackageInv' /\ \A p \in Packages : guestHas'[p] # guestHas[p] => guestHas[p] = "none"
    BY <1>1, <1>2, PackageStep
  <2>4. MayLogIn => MayLogIn'
    BY <1>2 DEF MayLogIn, ConfigNext, BeginConfig, TaskDone, LoadFragments, ListOverlay,
       ExitsNonzero, RmFails, TaskFails, packageVars
  <2>5. LoginInv'
    BY <1>1, <1>2, <2>4 DEF LoginInv, loginVars
  <2>. QED
    BY <2>1, <2>2, <2>5 DEF PrepInv
<1>3. CASE staging = "ok" /\ PackageNext /\ UNCHANGED <<configVars, loginVars>>
  <2>1. ConfigInv'
    BY <1>1, <1>3, ConfigStep
  <2>2. PackageInv' /\ \A p \in Packages : guestHas'[p] # guestHas[p] => guestHas[p] = "none"
    BY <1>1, <1>3, PackageStep
  <2>4. MayLogIn => MayLogIn'
    BY <1>3 DEF MayLogIn, PackageNext, BeginPackages, Sync, Resolve, Query, Download,
       WriteConf, CopyFile, CopiedAll, InstallPackages, Clean, Running, configVars
  <2>5. LoginInv'
    BY <1>1, <1>3, <2>4 DEF LoginInv, loginVars
  <2>. QED
    BY <2>1, <2>2, <2>5 DEF PrepInv
<1>4. CASE LoginNext /\ UNCHANGED <<configVars, packageVars>>
  <2>1. ConfigInv'
    BY <1>1, <1>4, ConfigStep
  <2>2. PackageInv' /\ \A p \in Packages : guestHas'[p] # guestHas[p] => guestHas[p] = "none"
    BY <1>1, <1>4, PackageStep
  <2>. QED
    BY <1>4, <2>1, <2>2, LoginStep DEF PrepInv
<1>5. CASE UNCHANGED prepVars
  <2>1. ConfigInv'
    BY <1>1, <1>5, ConfigStep DEF prepVars
  <2>2. PackageInv' /\ \A p \in Packages : guestHas'[p] # guestHas[p] => guestHas[p] = "none"
    BY <1>1, <1>5, PackageStep DEF prepVars
  <2>3. LoginInv'
    BY <1>1, <1>5 DEF LoginInv, MayLogIn, prepVars, loginVars, configVars, packageVars
  <2>. QED
    BY <2>1, <2>2, <2>3 DEF PrepInv
<1>. QED
  BY <1>2, <1>3, <1>4, <1>5 DEF PrepNext

-----------------------------------------------------------------------------
(* The theorems.                                                           *)

\* The login returns only when a session has started, and every session that starts finds
\* the whole of the configuration and of the packages, for all fragments, files and
\* packages (wizard.py, testpackages.py, run.py).
THEOREM PreparationIsWhole == PrepSpec => []SessionIsPrepared
<1>1. PrepInv => SessionIsPrepared
  BY DEF PrepInv, LoginInv, SessionIsPrepared
<1>. QED
  BY <1>1, PrepInitial, PrepStep, PTL DEF PrepSpec

\* Of what the product ships the preparation changes in the home only the keys the
\* fragments name, in the system only the files the overlay replaces, the timezone and the
\* user's line in /etc/passwd, and no package, also when steps of it fail.
THEOREM PreparationSparesProduct == PrepSpec => OnlyNamedChanges
<1>1. PrepInv /\ [PrepNext]_prepVars =>
        [/\ \A f \in ProductFiles, s \in Settings :
              home'[f][s] # home[f][s] =>
                home'[f][s] = "harness" /\ AsksFor(fragments[f], s)
         /\ \A f \in SystemFiles : system'[f] # system[f] =>
              \/ f \in OverlayFiles \cup {"localtime", "rule"} /\ system'[f] = "harness"
              \/ f = "passwd" /\ system'[f] = "edited"
         /\ \A p \in Packages : guestHas'[p] # guestHas[p] => guestHas[p] = "none"]_prepVars
  <2>. SUFFICES ASSUME PrepInv, PrepNext
                PROVE  /\ \A f \in ProductFiles, s \in Settings :
                            home'[f][s] # home[f][s] =>
                              home'[f][s] = "harness" /\ AsksFor(fragments[f], s)
                       /\ \A f \in SystemFiles : system'[f] # system[f] => SystemNamed(f)
    BY PrepStep DEF SystemNamed
  <2>1. ConfigNext \/ UNCHANGED <<home, system>>
    BY DEF PrepNext, configVars
  <2>2. ASSUME NEW f \in ProductFiles, NEW s \in Settings, home'[f][s] # home[f][s]
        PROVE  home'[f][s] = "harness" /\ AsksFor(fragments[f], s)
    <3>1. Task = <<"merge", f, s>> /\ home'[f][s] = "harness" /\ staging = "running"
      BY <2>1, <2>2, ConfigStepTouches DEF PrepInv, Touched
    <3>2. Contains(todo, <<"merge", f, s>>)
      BY <3>1, TaskIs DEF PrepInv, ConfigInv
    <3>. QED
      BY <3>1, <3>2 DEF PrepInv, ConfigInv, MergesAsked
  <2>3. \A f \in SystemFiles : system'[f] # system[f] => SystemNamed(f)
    BY <2>1, ConfigStepTouches DEF PrepInv, Touched
  <2>. QED
    BY <2>2, <2>3
<1>. QED
  BY <1>1, PrepInitial, PrepStep, PTL DEF PrepSpec, OnlyNamedChanges
=============================================================================
