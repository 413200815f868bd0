----------------------------- MODULE Preparation ----------------------------
(***************************************************************************)
(* What run_installed_verify does between the reboot and the desktop       *)
(* (harness/install/run.py): the session configuration is staged           *)
(* (SessionConfig), the test-only packages are installed (TestPackages),   *)
(* and the user is logged in on SDDM's greeter (log_into_sddm,             *)
(* harness/install/wizard.py), which can only be clicked and photographed. *)
(* An error of one ends it.  The session reads its configuration when it   *)
(* starts.                                                                 *)
(***************************************************************************)
EXTENDS SessionConfig, TestPackages

VARIABLES
  greeter,  \* the screen: "boot", "greeter", "starting" or "desktop"
  white,    \* the pixel in the middle of the password field is white
  tile,     \* the greeter knows the user
  typed,    \* the password is in the field
  accepted, \* the login was accepted
  saw,      \* the session: not started, or whether it found everything in place
  login     \* log_into_sddm: where it is

loginVars == <<greeter, white, tile, typed, accepted, saw, login>>
prepVars == <<configVars, packageVars, loginVars>>

LoginInit ==
  /\ greeter = "boot" /\ white = FALSE
  /\ tile = FALSE /\ typed = FALSE /\ accepted = FALSE
  /\ saw = "none"
  /\ login = "idle"

PrepInit == ConfigInit /\ PackageInit /\ LoginInit

-----------------------------------------------------------------------------
(* The greeter.                                                            *)

GreeterAppears ==
  /\ greeter = "boot"
  /\ greeter' = "greeter" /\ white' = TRUE
  /\ UNCHANGED <<tile, typed, accepted, saw, login>>

\* The session starts, and reads its configuration.
SessionStarts ==
  /\ greeter = "greeter" /\ accepted
  /\ greeter' = "starting" /\ white' = FALSE
  /\ saw' = IF ConfigWhole /\ PackagesWhole THEN "whole" ELSE "part"
  /\ UNCHANGED <<tile, typed, accepted, login>>

\* A desktop may be white where the field was.
DesktopAppears ==
  /\ greeter = "starting"
  /\ greeter' = "desktop" /\ white' \in BOOLEAN
  /\ UNCHANGED <<tile, typed, accepted, saw, login>>

-----------------------------------------------------------------------------
(* log_into_sddm.                                                          *)

\* The staging and the packages come before the login.
MayLogIn == staging = "ok" /\ packing = "ok"

BeginLogin ==
  /\ login = "idle" /\ MayLogIn
  /\ login' = "wait"
  /\ UNCHANGED <<greeter, white, tile, typed, accepted, saw>>

\* _sddm_password_field_visible.  Before the greeter the pixel is not white: the screen is
\* still a plain dark background then.
FieldVisible == white

SeeGreeter ==
  /\ login = "wait" /\ FieldVisible
  /\ login' = "tile"
  /\ UNCHANGED <<greeter, white, tile, typed, accepted, saw>>

\* A click or a key may be lost.
ClickTile ==
  /\ login = "tile"
  /\ tile' \in BOOLEAN
  /\ login' = "fill"
  /\ UNCHANGED <<greeter, white, typed, accepted, saw>>

FillPassword ==
  /\ login = "fill"
  /\ typed' \in BOOLEAN
  /\ login' = "submit"
  /\ UNCHANGED <<greeter, white, tile, accepted, saw>>

\* Without a user or its password the login is refused and the greeter stays.
ClickLogIn ==
  /\ login = "submit"
  /\ accepted' \in {FALSE, tile /\ typed}
  /\ login' = "dismiss"
  /\ UNCHANGED <<greeter, white, tile, typed, saw>>

\* (Slip: the login is taken for done when it was submitted.)
DismissedAnyway == TRUE
Dismissed == ~FieldVisible

SeeDismissed ==
  /\ login = "dismiss" /\ Dismissed
  /\ login' = "ok"
  /\ UNCHANGED <<greeter, white, tile, typed, accepted, saw>>

\* A wait is over, or a QMP call fails.
LoginFails ==
  /\ login \in {"wait", "tile", "fill", "submit", "dismiss"}
  /\ login' = "raised"
  /\ UNCHANGED <<greeter, white, tile, typed, accepted, saw>>

LoginNext ==
  \/ GreeterAppears
  \/ SessionStarts
  \/ DesktopAppears
  \/ BeginLogin
  \/ SeeGreeter
  \/ ClickTile
  \/ FillPassword
  \/ ClickLogIn
  \/ SeeDismissed
  \/ LoginFails

PrepNext ==
  \/ ConfigNext /\ UNCHANGED <<packageVars, loginVars>>
  \/ staging = "ok" /\ PackageNext /\ UNCHANGED <<configVars, loginVars>>
  \/ LoginNext /\ UNCHANGED <<configVars, packageVars>>

PrepSpec == PrepInit /\ [][PrepNext]_prepVars

-----------------------------------------------------------------------------
(* Properties.                                                             *)

\* The login returns only when a session has started, whatever clicks were lost, and
\* that session found the whole of the configuration and of the packages: a session
\* that starts on half of it would fail every picture for the harness's own reason.
SessionIsPrepared ==
  /\ saw # "part"
  /\ login = "ok" => saw = "whole"

\* What the preparation changes of the product is what the text of wizard.py names, also
\* when steps of it fail: of the files in the home only keys a fragment asks for; of the
\* system those that files of the overlay replace, the timezone and the user's line in
\* /etc/passwd; and of the packages none, those it installs were not there.
OnlyNamedChanges ==
  [][/\ \A f \in ProductFiles, s \in Settings :
          home'[f][s] # home[f][s] =>
            home'[f][s] = "harness" /\ AsksFor(fragments[f], s)
     /\ \A f \in SystemFiles : system'[f] # system[f] =>
          \/ f \in OverlayFiles \cup {"localtime", "rule"} /\ system'[f] = "harness"
          \/ f = "passwd" /\ system'[f] = "edited"
     /\ \A p \in Packages : guestHas'[p] # guestHas[p] => guestHas[p] = "none"]_prepVars
=============================================================================
