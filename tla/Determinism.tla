----------------------------- MODULE Determinism ----------------------------
(***************************************************************************)
(* harness/shots/determinism.py: the whole plan is captured several times, *)
(* each time from a fresh boot and into a directory of its own, and every  *)
(* later run is compared with the first.  The directories may hold the     *)
(* pictures of an earlier invocation.                                      *)
(***************************************************************************)
EXTENDS Integers

CONSTANTS
  Plan,     \* the planned (mode, state) pairs
  RunCount, \* --runs, from 2 to 10
  Shows,    \* what a picture may show
  Close     \* the pairs of pictures that compare_images lets pass

ASSUME RunCountAssumption == RunCount \in 2 .. 10
ASSUME CloseAssumption ==
  /\ Close \subseteq Shows \X Shows
  /\ \A x \in Shows : <<x, x>> \in Close
  /\ "none" \notin Shows

Runs == 1 .. RunCount

VARIABLES
  run,     \* the run that is next
  worst,   \* the worst exit code of a run so far
  folders, \* the pictures in run1, run2, ...
  ended,   \* the program has ended
  code,    \* its exit code
  fresh    \* the pictures taken by this invocation (history)

detVars == <<run, worst, folders, ended, code, fresh>>

DetInit ==
  /\ run = 1
  /\ worst = 0
  /\ folders \in [Runs -> [Plan -> Shows \cup {"none"}]]
  /\ ended = FALSE
  /\ code = -1
  /\ fresh = {}

Max2(a, b) == IF a > b THEN a ELSE b

WorstWith(status) == Max2(worst, status)

\* run_capture returns 0: every planned pair has its picture.
RunOk(pictures) ==
  /\ ~ended /\ run <= RunCount
  /\ folders' = [folders EXCEPT ![run] = pictures]
  /\ fresh' = fresh \cup {<<run, p>> : p \in Plan}
  /\ worst' = WorstWith(0)
  /\ run' = run + 1
  /\ UNCHANGED <<ended, code>>

\* It returns 1: some pairs have theirs.
RunFails(pictures, taken) ==
  /\ ~ended /\ run <= RunCount
  /\ folders' = [folders EXCEPT ![run] =
                   [p \in Plan |-> IF p \in taken THEN pictures[p] ELSE "none"]]
  /\ fresh' = fresh \cup {<<run, p>> : p \in taken}
  /\ worst' = WorstWith(1)
  /\ run' = run + 1
  /\ UNCHANGED <<ended, code>>

\* It raises, in the removal of old pictures or after it: 2 for what the except clause
\* names, 1 for any other exception (and here for a signal).
RunRaises(pictures, left) ==
  /\ ~ended /\ run <= RunCount
  /\ \E there \in {folders[run], pictures} :
       folders' = [folders EXCEPT ![run] =
                     [p \in Plan |-> IF p \in left THEN there[p] ELSE "none"]]
  /\ ended' = TRUE
  /\ code' \in {1, 2}
  /\ UNCHANGED <<run, worst, fresh>>

\* (Slip: every run is compared with the one before it.)
AgreesWithBefore(p, k) ==
  /\ folders[k - 1][p] # "none" /\ folders[k][p] # "none"
  /\ <<folders[k][p], folders[k - 1][p]>> \in Close

\* compare_runs: the verdict "same".
Agrees(p, k) ==
  /\ folders[1][p] # "none" /\ folders[k][p] # "none"
  /\ <<folders[k][p], folders[1][p]>> \in Close

\* 2: a picture or the rules cannot be read.
CompareRuns ==
  /\ ~ended /\ run > RunCount
  /\ ended' = TRUE
  /\ code' \in {IF worst = 0 /\ \A p \in Plan, k \in 2 .. RunCount : Agrees(p, k)
                THEN 0 ELSE 1, 2}
  /\ UNCHANGED <<run, worst, folders, fresh>>

DetNext ==
  \/ \E pictures \in [Plan -> Shows] :
       \/ RunOk(pictures)
       \/ \E taken \in SUBSET Plan : RunFails(pictures, taken) \/ RunRaises(pictures, taken)
  \/ CompareRuns

DetSpec == DetInit /\ [][DetNext]_detVars

\* Exit code 0 means that every run of this invocation ended ok, took every planned
\* picture itself (none is a left-over of an earlier invocation) and agrees with the
\* first; two later runs agree with each other only as far as tolerance adds up.
DeterministicMeansSame ==
  ended /\ code = 0 =>
    \A p \in Plan, k \in Runs :
      /\ <<k, p>> \in fresh
      /\ <<folders[k][p], folders[1][p]>> \in Close
=============================================================================
