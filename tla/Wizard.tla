------------------------------- MODULE Wizard -------------------------------
(***************************************************************************)
(* run_install (harness/install/wizard.py): Calamares is driven page by    *)
(* page over a screen that can only be clicked and photographed.  A click  *)
(* may be lost, a page may paint itself piece by piece, and only the       *)
(* sidebar tells which page a picture shows.                               *)
(*                                                                         *)
(* The installer and its screen are outside the repository; they are       *)
(* modelled from what the driver's comments say of them.  On a slow host a *)
(* click may also be taken after the driver has given it up.               *)
(***************************************************************************)
EXTENDS Naturals

CONSTANTS
  Summary,         \* the index of the Summary page; Welcome is page 0
  Forms,           \* the pages on which the driver fills something in
  PageAttempts,    \* _PAGE_CLICK_ATTEMPTS
  InstallAttempts  \* _INSTALL_CLICK_ATTEMPTS

ASSUME SummaryAssumption == Summary \in Nat \ {0}
ASSUME FormsAssumption == Forms \subseteq 1 .. Summary - 1
ASSUME AttemptsAssumption ==
  PageAttempts \in Nat \ {0} /\ InstallAttempts \in Nat \ {0}

InstallPage == Summary + 1
FinishPage == Summary + 2
Pages == 0 .. FinishPage

\* What _page_at makes of a picture whose sidebar cannot be read.
NoPage == FinishPage + 1

\* A picture: the page it was painted from, whether its sidebar is readable, whether
\* the "Installation Failed" dialog is on it, and anything else (a blinking caret).
Pictures == [page : Pages, readable : BOOLEAN, dialog : BOOLEAN, look : {0, 1}]

VARIABLES
  slow,    \* the host: a click may be taken when its wait is over
  page,    \* the page Calamares is on
  screen,  \* the picture on the screen
  pending, \* per button, the clicks that have not been taken or lost
  jobs,    \* the installation: "no", "running", "ok" or "failed"
  pc,      \* where the driver is
  target,  \* expected_page
  attempt, \* attempt
  click,   \* click_needed
  start,   \* `current`, the picture before the first click
  ref,     \* `reference`, the last picture looked at
  last     \* last_page

guest == <<slow, page, screen, pending, jobs>>
call == <<target, attempt, click, start, ref, last>>
vars == <<guest, pc, call>>

\* The Install button is below where Next is on the other pages.
Buttons == {"next", "install"}

\* _page_at
PageAt(picture) == IF picture.readable THEN picture.page ELSE NoPage

Painted(p) == {q \in Pictures : q.page = p /\ (q.dialog => p = FinishPage)}

Init ==
  /\ slow \in BOOLEAN
  /\ page = 0
  /\ screen = [page |-> 0, readable |-> FALSE, dialog |-> FALSE, look |-> 0]
  /\ pending = [b \in Buttons |-> 0]
  /\ jobs = "no"
  /\ pc = "launch"
  /\ target = 0
  /\ attempt = 1
  /\ click = TRUE
  /\ start = screen
  /\ ref = screen
  /\ last = NoPage

-----------------------------------------------------------------------------
(* Calamares.                                                              *)

\* The screen is repainted: carets, tooltips, half a page.  The dialog of a failed
\* installation comes with the Finish page.
Repaint ==
  /\ screen' \in {q \in Painted(page) : q.dialog = (jobs = "failed")}
  /\ UNCHANGED <<slow, page, pending, jobs, pc, call>>

\* Where a click on a button leads on: Next from the pages before Summary, Install
\* from Summary; elsewhere there is no button in its place.
LeadsOn(button) == IF button = "next" THEN page < Summary ELSE page = Summary

TakeClick(button) ==
  /\ pending[button] > 0
  /\ pending' = [pending EXCEPT ![button] = @ - 1]
  /\ IF LeadsOn(button)
     THEN /\ page' = page + 1
          /\ jobs' = IF button = "install" THEN "running" ELSE jobs
          /\ screen' \in {q \in Painted(page + 1) : ~q.dialog}
     ELSE UNCHANGED <<page, screen, jobs>>
  /\ UNCHANGED <<slow, pc, call>>

LoseClick(button) ==
  /\ pending[button] > 0
  /\ pending' = [pending EXCEPT ![button] = @ - 1]
  /\ UNCHANGED <<slow, page, screen, jobs, pc, call>>

\* The installation ends: Calamares shows Finish, over it the dialog if it failed.
JobsEnd ==
  /\ jobs = "running"
  /\ jobs' \in {"ok", "failed"}
  /\ page' = FinishPage
  /\ screen' \in {q \in Painted(FinishPage) : q.dialog = (jobs' = "failed")}
  /\ UNCHANGED <<slow, pending, pc, call>>

-----------------------------------------------------------------------------
(* The driver.                                                             *)

\* The live desktop appears and Calamares is launched: the first readable sidebar is
\* taken for Welcome, and the picture kept is a later one.
Launch ==
  /\ pc = "launch"
  /\ screen.readable
  /\ pc' = "shot"
  /\ UNCHANGED <<guest, call>>

\* The page reached is photographed; the call for the next one starts, or the
\* Install button is looked for on the picture.
Shoot ==
  /\ pc = "shot"
  /\ start' = screen /\ ref' = screen
  /\ attempt' = 1
  /\ click' = TRUE
  /\ IF target < Summary
     THEN target' = target + 1 /\ last' = NoPage /\ pc' = "click"
     ELSE target' = InstallPage /\ last' = Summary /\ pc' = "install"
  /\ UNCHANGED guest

\* Next is clicked, if it has to be.
ClickNext ==
  /\ pc = "click"
  /\ pending' = [pending EXCEPT !["next"] = IF click THEN @ + 1 ELSE @]
  /\ pc' = "poll"
  /\ UNCHANGED <<slow, page, screen, jobs, call>>

\* The Install button is clicked where it was found.
ClickInstall ==
  /\ pc = "install"
  /\ pending' = [pending EXCEPT !["install"] = @ + 1]
  /\ pc' = "watch"
  /\ UNCHANGED <<slow, page, screen, jobs, call>>

\* A page was recognised: go on from the expected one, stop after one behind it.
Arrived(picture) == PageAt(picture) = target
Overshot(picture) == PageAt(picture) \in target + 1 .. FinishPage

\* (Slip: the page of the polled picture alone is judged, not of the fresh one.)
FreshOvershotUnseen(picture) == FALSE
FreshOvershot(picture) == Overshot(picture)

AtPage == IF target \in Forms THEN "fill" ELSE "shot"

\* A picture that differs from the last one is judged (_settle_screen, frames=1).
PollPage ==
  /\ pc = "poll"
  /\ screen # ref
  /\ last' = PageAt(screen)
  /\ IF Arrived(screen)
     THEN pc' = AtPage /\ UNCHANGED ref
     ELSE IF Overshot(screen)
          THEN pc' = "raised" /\ UNCHANGED ref
          ELSE ref' = screen /\ UNCHANGED pc
  /\ UNCHANGED <<guest, target, attempt, click, start>>

\* The wait for the page is over when its deadline has passed; unless the host is
\* slow, a click was taken or lost by then.
WaitOver == slow \/ \A b \in Buttons : pending[b] = 0

\* (Slip: whatever the picture, the click is repeated.)
RepeatAlways(picture) == TRUE

\* A click is repeated if the picture is still the one before it, or shows the page
\* it was made on, or one before.
Repeat(picture) ==
  IF PageAt(picture) = NoPage
  THEN picture = start
  ELSE PageAt(start) = NoPage \/ PageAt(picture) <= PageAt(start)

AttemptsLeft == attempt < PageAttempts

\* A fresh picture is judged, and decides whether the next attempt clicks.
JudgeFresh ==
  /\ pc = "poll"
  /\ WaitOver
  /\ last' = PageAt(screen)
  /\ \/ Arrived(screen) /\ pc' = AtPage /\ UNCHANGED <<attempt, click>>
     \/ FreshOvershot(screen) /\ pc' = "raised" /\ UNCHANGED <<attempt, click>>
     \/ /\ ~Arrived(screen) /\ ~FreshOvershot(screen)
        /\ click' = Repeat(screen)
        /\ attempt' = attempt + 1
        /\ pc' = IF AttemptsLeft THEN "click" ELSE "raised"
  /\ UNCHANGED <<guest, target, start, ref>>

\* Erase disk is chosen, or the fields are filled, and the screen changes.
Fill ==
  /\ pc = "fill"
  /\ pc' = "shot"
  /\ UNCHANGED <<guest, call>>

\* The page after the Install click.
WatchPage ==
  /\ pc = "watch"
  /\ screen # ref
  /\ last' = PageAt(screen)
  /\ IF PageAt(screen) \in {InstallPage, FinishPage}
     THEN pc' = "finish" /\ UNCHANGED ref
     ELSE ref' = screen /\ UNCHANGED pc
  /\ UNCHANGED <<guest, target, attempt, click, start>>

WatchOver ==
  /\ pc = "watch"
  /\ WaitOver
  /\ attempt' = IF attempt < InstallAttempts THEN attempt + 1 ELSE attempt
  /\ pc' = IF attempt < InstallAttempts THEN "install" ELSE "raised"
  /\ UNCHANGED <<guest, target, click, start, ref, last>>

\* (Slip: the page is tested before the dialog.)
SuccessOnFinish(picture) == PageAt(picture) = FinishPage

\* _install_failed_dialog_visible is asked first.
Success(picture) == PageAt(picture) = FinishPage /\ ~picture.dialog

\* A settled picture while the installation runs.
SeeFinish ==
  /\ pc = "finish"
  /\ PageAt(screen) = FinishPage
  /\ pc' = IF Success(screen) THEN "finished" ELSE "raised"
  /\ UNCHANGED <<guest, call>>

\* (Slip: an installation may take as long as it likes.)
TimedToLaunch == {"launch"}

\* Waits that end with their deadline, whatever is on the screen.
Timed == {"launch", "finish"}

\* The desktop or Calamares does not appear in time, or the installation does not end.
TimeOut ==
  /\ pc \in Timed
  /\ pc' = "raised"
  /\ UNCHANGED <<guest, call>>

\* A QMP call fails, the picture does not change after filling in, or the Install
\* button is not found.
Raise ==
  /\ pc \notin {"finished", "raised"}
  /\ pc' = "raised"
  /\ UNCHANGED <<guest, call>>

Next ==
  \/ Repaint
  \/ \E button \in Buttons : TakeClick(button) \/ LoseClick(button)
  \/ JobsEnd
  \/ Launch
  \/ Shoot
  \/ ClickNext
  \/ ClickInstall
  \/ PollPage
  \/ JudgeFresh
  \/ Fill
  \/ WatchPage
  \/ WatchOver
  \/ SeeFinish
  \/ TimeOut
  \/ Raise

\* Every wait of the driver has a deadline, whatever the screen shows; a click
\* is taken or lost in the end.  Nothing is assumed of the installation.
Fairness ==
  /\ WF_vars(Shoot \/ ClickNext \/ ClickInstall \/ Fill)
  /\ WF_vars(JudgeFresh \/ WatchOver)
  /\ WF_vars(TimeOut)
  /\ WF_vars(\E button \in Buttons : TakeClick(button) \/ LoseClick(button))

Spec == Init /\ [][Next]_vars /\ Fairness

-----------------------------------------------------------------------------
(* Properties.                                                             *)

\* Every variable stays within its type, and a call never waits for a page of an
\* attempt too many.
TypeOK ==
  /\ slow \in BOOLEAN
  /\ page \in Pages
  /\ screen \in Pictures /\ start \in Pictures /\ ref \in Pictures
  /\ pending \in [Buttons -> Nat]
  /\ jobs \in {"no", "running", "ok", "failed"}
  /\ pc \in {"launch", "shot", "click", "poll", "fill", "install", "watch",
             "finish", "finished", "raised"}
  /\ target \in 0 .. InstallPage
  /\ attempt \in Nat
  /\ pc = "poll" => attempt \in 1 .. PageAttempts
  /\ pc = "watch" => attempt \in 1 .. InstallAttempts
  /\ click \in BOOLEAN
  /\ last \in Pages \cup {NoPage}

\* Unless the host is slow, no page is ever passed unseen, however often clicks
\* are lost and pages come up half painted: the wizard is never behind the page the
\* driver waits for, and on that page when the driver fills it in.
NoPagePassed ==
  ~slow => /\ target <= Summary => page <= target
           /\ pc = "fill" => page = target

\* Also when clicks are late: after a picture of a page behind the expected one no
\* further click is made.
StopsAfterOvershoot ==
  [][pending'["next"] > pending["next"] => last = NoPage \/ last <= target]_vars

\* The wizard is reported finished only if the installation succeeded; the Finish
\* page alone, over which the error dialog may lie, does not tell.
FinishedMeansInstalled == pc = "finished" => jobs = "ok"

\* run_install always ends, whatever Calamares does.
WizardReturns == <>(pc \in {"finished", "raised"})
=============================================================================
