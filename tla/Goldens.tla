------------------------------- MODULE Goldens ------------------------------
(***************************************************************************)
(* The files a capture leaves and the tools that read them: `make shots`   *)
(* and `make goldens-review` (capture, then harness/shots/compare.py), a   *)
(* capture of a selection, and `make goldens-accept` (accept.py).  The     *)
(* tools share nothing but the two directories, and each may be            *)
(* interrupted or fail half-way, so every tool starts from whatever the    *)
(* one before it left.                                                     *)
(*                                                                         *)
(* A capture is the one of module Capture, pair by pair; comparing two     *)
(* pictures (module Frames) is equality of looks here.                     *)
(***************************************************************************)
EXTENDS Integers

CONSTANTS
  Planned, \* the (mode, state) pairs states.toml plans
  Skipped, \* pairs of a planned state in a mode it no longer lists
  Renamed, \* pairs of a state that is no longer in the file
  Looks    \* what a whole picture may show

Pairs == Planned \cup Skipped \cup Renamed
ASSUME PairsAssumption ==
  /\ Planned \cap (Skipped \cup Renamed) = {} /\ Skipped \cap Renamed = {}
  /\ {"none", "torn", "failure"} \cap Looks = {}

\* <mode>/<state>.png and <mode>/<state>.FAILED.png
Files == Pairs \X {"shot", "failed"}
Shot(p) == <<p, "shot">>
Diagnostic(p) == <<p, "failed">>

\* "torn": a file whose writer died; "failure": what a diagnostic shows.
Contents == Looks \cup {"none", "torn", "failure"}

VARIABLES
  shots,   \* the pictures in the shots directory
  goldens, \* the pictures in the goldens directory
  job,     \* the tool that runs, or ran last
  pc,      \* where it is; "idle" when it has ended
  chosen,  \* the pairs it was asked for
  todo,    \* what its loop has still to do
  done,    \* capture: the pairs reported ok; accept: the files copied
  exit     \* its exit code, -1 while it runs

vars == <<shots, goldens, job, pc, chosen, todo, done, exit>>

Init ==
  /\ shots \in [Files -> {"none"} \cup Looks]
  /\ \A f \in Files : f[1] \in Planned \/ f[2] = "failed" => shots[f] = "none"
  /\ goldens \in [Files -> {"none"} \cup Looks]
  /\ \A f \in Files : f[1] \in Planned \/ f[2] = "failed" => goldens[f] = "none"
  /\ job = "none" /\ pc = "idle"
  /\ chosen = {} /\ todo = {} /\ done = {}
  /\ exit = 0

End(code) ==
  /\ pc' = "idle"
  /\ exit' = code
  /\ todo' = {}

-----------------------------------------------------------------------------
(* Capture.                                                                *)

StartCapture(tool, pairs) ==
  /\ pc = "idle"
  /\ job' = tool
  /\ chosen' = pairs
  /\ done' = {}
  /\ pc' = "unlink"
  /\ todo' = pairs
  /\ exit' = -1
  /\ UNCHANGED <<shots, goldens>>

\* make shots, make goldens-review: the whole plan.  By hand: --states, --modes.
Capture ==
  \/ StartCapture("shots", Planned)
  \/ StartCapture("review", Planned)
  \/ \E pairs \in (SUBSET Planned) \ {{}} : StartCapture("capture", pairs)

Removed(pairs) ==
  [f \in Files |-> IF f[1] \in pairs THEN "none" ELSE shots[f]]

\* The earlier results of the chosen pairs are removed.
Unlink ==
  /\ pc = "unlink"
  /\ shots' = Removed(chosen)
  /\ pc' = "shoot"
  /\ UNCHANGED <<goldens, job, chosen, todo, done, exit>>

\* A state that is ok has its picture.
ShootOk(p, look) ==
  /\ pc = "shoot" /\ p \in todo
  /\ shots' = [shots EXCEPT ![Shot(p)] = look]
  /\ done' = done \cup {p}
  /\ todo' = todo \ {p}
  /\ UNCHANGED <<goldens, job, pc, chosen, exit>>

\* A failed state may have a picture all the same (a late screendump), half a one (QEMU
\* died writing it), and has a diagnostic if the connection allows it.
ShootFails(p, picture, diagnostic) ==
  /\ pc = "shoot" /\ p \in todo
  /\ shots' = [shots EXCEPT ![Shot(p)] = picture, ![Diagnostic(p)] = diagnostic]
  /\ todo' = todo \ {p}
  /\ UNCHANGED <<goldens, job, pc, chosen, done, exit>>

\* make goes on to the comparison only after exit code 0.
CaptureEnds ==
  /\ pc = "shoot" /\ todo = {}
  /\ IF done = chosen /\ job # "capture"
     THEN pc' = "compare" /\ UNCHANGED <<exit, todo>>
     ELSE End(IF done = chosen THEN 0 ELSE 1)
  /\ UNCHANGED <<shots, goldens, job, chosen, done>>

\* The image is missing, the guest does not boot, a signal: the pairs not reached
\* stay without a picture, also those whose removal was not reached stay as they were.
CaptureStops ==
  \/ /\ pc = "unlink"
     /\ \E pairs \in SUBSET chosen : shots' = Removed(pairs)
     /\ End(2) /\ UNCHANGED <<goldens, job, chosen, done>>
  \/ /\ pc = "shoot"
     /\ End(2) /\ UNCHANGED <<shots, goldens, job, chosen, done>>

-----------------------------------------------------------------------------
(* compare.                                                                *)

\* A state without a rule is compared in every mode.
InMode(f) == f[2] = "failed" \/ f[1] \notin Skipped

Compared == {f \in Files : shots[f] # "none" /\ InMode(f)}
MissingGoldens == {f \in Compared : goldens[f] = "none"}
Unreadable == {f \in Compared : goldens[f] # "none" /\ "torn" \in {shots[f], goldens[f]}}
Failing == {f \in Compared : goldens[f] # "none" /\ shots[f] # goldens[f]}
MissingShots == {f \in Files : goldens[f] # "none" /\ shots[f] = "none"}

\* (Slip: what has no golden is left to the review, in `make shots` as well.)
CompareExitLenient(allowMissing) ==
  IF Unreadable # {} THEN 2
  ELSE IF Failing # {} \/ MissingShots # {} THEN 1 ELSE 0

CompareExit(allowMissing) ==
  IF Unreadable # {} THEN 2
  ELSE IF \/ Failing # {} \/ MissingShots # {}
          \/ ~allowMissing /\ MissingGoldens # {}
       THEN 1 ELSE 0

\* In goldens-review a difference is what the review is for: exit code 1 counts as 0.
\* 2 also when a directory cannot be scanned or a report not be written.
Compare ==
  /\ pc = "compare"
  /\ \E code \in {CompareExit(job = "review"), 2} :
       End(IF job = "review" /\ code = 1 THEN 0 ELSE code)
  /\ UNCHANGED <<shots, goldens, job, chosen, done>>

-----------------------------------------------------------------------------
(* accept.                                                                 *)

\* All states, or those of --states.
StartAccept(pairs) ==
  /\ pc = "idle"
  /\ job' = "accept"
  /\ chosen' = pairs
  /\ todo' = {f \in Files : shots[f] # "none"}
  /\ done' = {}
  /\ pc' = "accept"
  /\ exit' = -1
  /\ UNCHANGED <<shots, goldens>>

\* (Slip: the pattern lets capitals and dots through.)
AnyName(f) == TRUE

\* _validate_name: lower case letters, digits and "-"; "s.FAILED" is not such a name.
SafeName(f) == f[2] = "shot"

Readable(f) == shots[f] # "torn"

\* Files come in the order of the directory, that is in any order.
AcceptCopies(f) ==
  /\ pc = "accept" /\ f \in todo
  /\ SafeName(f) /\ f[1] \in chosen /\ Readable(f)
  /\ goldens' = [goldens EXCEPT ![f] = shots[f]]
  /\ done' = done \cup {f}
  /\ todo' = todo \ {f}
  /\ UNCHANGED <<shots, job, pc, chosen, exit>>

AcceptFilters(f) ==
  /\ pc = "accept" /\ f \in todo
  /\ SafeName(f) /\ f[1] \notin chosen
  /\ todo' = todo \ {f}
  /\ UNCHANGED <<shots, goldens, job, pc, chosen, done, exit>>

\* A name that is not safe, or a file that is no PNG, ends the tool where it is.
AcceptRefuses(f) ==
  /\ pc = "accept" /\ f \in todo
  /\ SafeName(f) => f[1] \in chosen /\ ~Readable(f)
  /\ End(2)
  /\ UNCHANGED <<shots, goldens, job, chosen, done>>

\* The copy fails or is interrupted, maybe with half a file written.
AcceptBreaks(f) ==
  /\ pc = "accept" /\ f \in todo
  /\ SafeName(f) /\ f[1] \in chosen /\ Readable(f)
  /\ goldens' \in {goldens, [goldens EXCEPT ![f] = "torn"]}
  /\ End(2)
  /\ UNCHANGED <<shots, job, chosen, done>>

\* CI is set, or a directory is not there or cannot be scanned.
AcceptFails ==
  /\ pc = "accept"
  /\ End(2)
  /\ UNCHANGED <<shots, goldens, job, chosen, done>>

AcceptEnds ==
  /\ pc = "accept" /\ todo = {}
  /\ End(IF done = {} THEN 1 ELSE 0)
  /\ UNCHANGED <<shots, goldens, job, chosen, done>>

Next ==
  \/ Capture
  \/ Unlink
  \/ \E p \in Planned, look \in Looks : ShootOk(p, look)
  \/ \E p \in Planned, picture \in Looks \cup {"none", "torn"},
        diagnostic \in {"none", "failure"} :
       ShootFails(p, picture, diagnostic)
  \/ CaptureEnds
  \/ CaptureStops
  \/ Compare
  \/ StartAccept(Pairs)
  \/ \E pairs \in (SUBSET Planned) \ {{}} : StartAccept(pairs)
  \/ \E f \in Files :
       AcceptCopies(f) \/ AcceptFilters(f) \/ AcceptRefuses(f) \/ AcceptBreaks(f)
  \/ AcceptFails
  \/ AcceptEnds

Spec == Init /\ [][Next]_vars

-----------------------------------------------------------------------------
(* Properties.                                                             *)

\* Every variable stays within its type.
TypeOK ==
  /\ shots \in [Files -> Contents]
  /\ goldens \in [Files -> Contents]
  /\ job \in {"none", "shots", "review", "capture", "accept"}
  /\ pc \in {"idle", "unlink", "shoot", "compare", "accept"}
  /\ chosen \subseteq Pairs
  /\ todo \subseteq Pairs \cup Files
  /\ done \subseteq Pairs \cup Files
  /\ exit \in -1 .. 2

Ended(tool) == pc = "idle" /\ job = tool /\ exit = 0

\* A green `make shots` means that every pair states.toml plans was photographed by
\* this very capture, ended ok, and looks like its golden, whatever captures of a
\* selection, interrupted runs and half-made acceptances went before.
GreenMeansMatched ==
  Ended("shots") =>
    \A p \in Planned :
      /\ p \in done
      /\ shots[Shot(p)] \in Looks
      /\ goldens[Shot(p)] = shots[Shot(p)]

\* The picture of a failure never becomes a golden, and a golden that was half
\* written is never compared with success: it stays an error until it is replaced.
NoFalseGolden ==
  /\ \A p \in Pairs : goldens[Diagnostic(p)] = "none"
  /\ \A p \in Planned :
       goldens[Shot(p)] = "torn" => ~Ended("shots") /\ ~Ended("review")

\* After an acceptance of everything that reports success, the comparison of the same
\* shots finds nothing that differs, has no golden or cannot be read: all that can be
\* left is a golden whose shot does not exist.
AcceptedMeansEqual ==
  Ended("accept") /\ chosen = Pairs =>
    Failing = {} /\ MissingGoldens = {} /\ Unreadable = {}

\* The goldens are what was reviewed: nothing broken among them passes, and nothing that
\* was accepted fails.
GoldensAreReviewed == NoFalseGolden /\ AcceptedMeansEqual
=============================================================================
