---------------------------- MODULE GoldensProofs ---------------------------
(***************************************************************************)
(* Proofs about the files the harness and the build leave behind: the      *)
(* shots and the goldens (Goldens), the folders of the repeated capture    *)
(* (Determinism), and the ISO and the release made of it (Release); and    *)
(* about the functions they rest on: decoding and comparing pictures       *)
(* (Frames) for every size, reading states.toml (StatesFile) for every     *)
(* file.                                                                   *)
(***************************************************************************)
EXTENDS Goldens, Determinism, Release, PureFunctions,
        FiniteSetTheorems, WellFoundedInduction, NaturalsInduction, TLAPS

-----------------------------------------------------------------------------
(* The tools over shots and goldens: the invariant.                        *)

Captures == {"shots", "review", "capture"}

\* A tool is where its own code is.
JobOfPc ==
  /\ pc \in {"unlink", "shoot"} => job \in Captures
  /\ pc = "compare" => job \in {"shots", "review"}
  /\ pc = "accept" => job = "accept"

\* A capture is about planned pairs, the ones of make about all of them.
ChosenArePlanned ==
  /\ job \in Captures => chosen \subseteq Planned
  /\ job \in {"shots", "review"} => chosen = Planned

\* What is reported ok has a picture that nothing in the same capture touches again.
DoneHaveShots ==
  /\ pc = "unlink" => done = {}
  /\ pc = "shoot" => done \cap todo = {}
  /\ pc = "compare" => done = chosen
  /\ pc \in {"shoot", "compare"} => \A p \in done : p \in Planned /\ shots[Shot(p)] \in Looks

\* A shot the acceptance has passed is left out by --states, or is a golden now.
PassedIsGolden ==
  pc = "accept" =>
    \A f \in Files : shots[f] # "none" /\ f \notin todo =>
      /\ f[2] = "shot"
      /\ f[1] \in chosen => goldens[f] = shots[f] /\ shots[f] # "torn"

NoDiagnosticGolden == \A p \in Pairs : goldens[Diagnostic(p)] = "none"
NoTornGreen ==
  \A p \in Planned : goldens[Shot(p)] = "torn" => ~Ended("shots") /\ ~Ended("review")

GoldensInv ==
  /\ TypeOK
  /\ JobOfPc /\ ChosenArePlanned /\ DoneHaveShots /\ PassedIsGolden
  /\ NoDiagnosticGolden /\ NoTornGreen
  /\ GreenMeansMatched /\ AcceptedMeansEqual

-----------------------------------------------------------------------------
(* Files.                                                                  *)

LEMMA FileFacts ==
  /\ \A f \in Files : f[1] \in Pairs /\ f[2] \in {"shot", "failed"} /\ f = <<f[1], f[2]>>
  /\ \A p \in Pairs : Shot(p) \in Files /\ Diagnostic(p) \in Files
  /\ \A p, q : Shot(p) # Diagnostic(q)
  /\ \A p, q : Shot(p) = Shot(q) => p = q
  /\ \A p, q : Diagnostic(p) = Diagnostic(q) => p = q
  /\ \A p : Shot(p)[1] = p /\ Shot(p)[2] = "shot"
  /\ \A p : Diagnostic(p)[1] = p /\ Diagnostic(p)[2] = "failed"
  /\ Planned \subseteq Pairs
BY SMT DEF Files, Shot, Diagnostic, Pairs

LEMMA NotALook == "none" \notin Looks /\ "torn" \notin Looks /\ "failure" \notin Looks
BY PairsAssumption

LEMMA RemovedType ==
  ASSUME TypeOK, NEW pairs
  PROVE  Removed(pairs) \in [Files -> Contents]
BY DEF TypeOK, Removed, Contents

-----------------------------------------------------------------------------
(* The steps.                                                              *)

LEMMA GoldensInitial == Init => GoldensInv
<1> SUFFICES ASSUME Init PROVE GoldensInv
  OBVIOUS
<1>1. TypeOK
  BY DEF Init, TypeOK, Contents
<1>2. JobOfPc /\ ChosenArePlanned /\ DoneHaveShots /\ PassedIsGolden
  BY DEF Init, JobOfPc, ChosenArePlanned, DoneHaveShots, PassedIsGolden, Captures
<1>3. NoDiagnosticGolden
  BY FileFacts DEF Init, NoDiagnosticGolden
<1>4. NoTornGreen /\ GreenMeansMatched /\ AcceptedMeansEqual
  BY DEF Init, NoTornGreen, GreenMeansMatched, AcceptedMeansEqual, Ended
<1>5. QED
  BY <1>1, <1>2, <1>3, <1>4 DEF GoldensInv

\* While a tool runs, nothing has ended well.
LEMMA RunningIsNotEnded ==
  ASSUME pc' # "idle" \/ exit' # 0
  PROVE  NoTornGreen' /\ GreenMeansMatched' /\ AcceptedMeansEqual'
BY DEF NoTornGreen, GreenMeansMatched, AcceptedMeansEqual, Ended

\* Nor has anything changed where a tool ended before and nothing was written since.
LEMMA CaptureStarts ==
  ASSUME GoldensInv, NEW tool \in Captures, NEW pairs \in SUBSET Planned,
         StartCapture(tool, pairs), tool # "capture" => pairs = Planned
  PROVE  GoldensInv'
<1> USE DEF StartCapture
<1>1. TypeOK'
  BY FileFacts DEF GoldensInv, TypeOK, Captures
<1>2. JobOfPc' /\ ChosenArePlanned' /\ DoneHaveShots' /\ PassedIsGolden'
  BY DEF JobOfPc, ChosenArePlanned, DoneHaveShots, PassedIsGolden, Captures
<1>3. NoDiagnosticGolden'
  BY DEF GoldensInv, NoDiagnosticGolden
<1>4. NoTornGreen' /\ GreenMeansMatched' /\ AcceptedMeansEqual'
  BY RunningIsNotEnded
<1>5. QED
  BY <1>1, <1>2, <1>3, <1>4 DEF GoldensInv

LEMMA UnlinkKeeps == ASSUME GoldensInv, Unlink PROVE GoldensInv'
<1> USE DEF Unlink
<1>1. TypeOK'
  BY RemovedType DEF GoldensInv, TypeOK
<1>2. JobOfPc' /\ ChosenArePlanned' /\ DoneHaveShots' /\ PassedIsGolden'
  BY DEF GoldensInv, JobOfPc, ChosenArePlanned, DoneHaveShots, PassedIsGolden, Captures
<1>3. NoDiagnosticGolden'
  BY DEF GoldensInv, NoDiagnosticGolden
<1>4. NoTornGreen' /\ GreenMeansMatched' /\ AcceptedMeansEqual'
  BY RunningIsNotEnded
<1>5. QED
  BY <1>1, <1>2, <1>3, <1>4 DEF GoldensInv

LEMMA ShootOkKeeps ==
  ASSUME GoldensInv, NEW p \in Planned, NEW look \in Looks, ShootOk(p, look)
  PROVE  GoldensInv'
<1> USE DEF ShootOk
<1>1. TypeOK'
  BY FileFacts DEF GoldensInv, TypeOK, Contents
<1>2. JobOfPc' /\ ChosenArePlanned' /\ PassedIsGolden'
  BY DEF GoldensInv, JobOfPc, ChosenArePlanned, PassedIsGolden, Captures
<1>3. DoneHaveShots'
  <2>1. done' \cap todo' = {}
    BY DEF GoldensInv, DoneHaveShots
  <2>2. ASSUME NEW q \in done' PROVE q \in Planned /\ shots'[Shot(q)] \in Looks
    <3>1. CASE q = p
      BY <3>1, FileFacts DEF GoldensInv, TypeOK
    <3>2. CASE q # p
      <4>1. q \in done
        BY <3>2, <2>2
      <4>2. shots[Shot(q)] \in Looks /\ q \in Planned
        BY <4>1 DEF GoldensInv, DoneHaveShots
      <4>3. shots'[Shot(q)] = shots[Shot(q)]
        BY <3>2, <4>2, FileFacts DEF GoldensInv, TypeOK
      <4>4. QED
        BY <4>2, <4>3
    <3>3. QED
      BY <3>1, <3>2
  <2>3. QED
    BY <2>1, <2>2 DEF DoneHaveShots
<1>4. NoDiagnosticGolden'
  BY DEF GoldensInv, NoDiagnosticGolden
<1>5. NoTornGreen' /\ GreenMeansMatched' /\ AcceptedMeansEqual'
  BY RunningIsNotEnded
<1>6. QED
  BY <1>1, <1>2, <1>3, <1>4, <1>5 DEF GoldensInv

LEMMA ShootFailsKeeps ==
  ASSUME GoldensInv, NEW p \in Planned, NEW picture \in Looks \cup {"none", "torn"},
         NEW diagnostic \in {"none", "failure"}, ShootFails(p, picture, diagnostic)
  PROVE  GoldensInv'
<1> USE DEF ShootFails
<1>1. TypeOK'
  BY FileFacts DEF GoldensInv, TypeOK, Contents
<1>2. JobOfPc' /\ ChosenArePlanned' /\ PassedIsGolden'
  BY DEF GoldensInv, JobOfPc, ChosenArePlanned, PassedIsGolden, Captures
<1>3. DoneHaveShots'
  <2>1. done' \cap todo' = {}
    BY DEF GoldensInv, DoneHaveShots
  <2>2. ASSUME NEW q \in done' PROVE q \in Planned /\ shots'[Shot(q)] \in Looks
    <3>1. q \in done /\ q # p
      BY <2>2 DEF GoldensInv, DoneHaveShots
    <3>2. shots[Shot(q)] \in Looks /\ q \in Planned
      BY <3>1 DEF GoldensInv, DoneHaveShots
    <3>3. shots'[Shot(q)] = shots[Shot(q)]
      BY <3>1, <3>2, FileFacts DEF GoldensInv, TypeOK
    <3>4. QED
      BY <3>2, <3>3
  <2>3. QED
    BY <2>1, <2>2 DEF DoneHaveShots
<1>4. NoDiagnosticGolden'
  BY DEF GoldensInv, NoDiagnosticGolden
<1>5. NoTornGreen' /\ GreenMeansMatched' /\ AcceptedMeansEqual'
  BY RunningIsNotEnded
<1>6. QED
  BY <1>1, <1>2, <1>3, <1>4, <1>5 DEF GoldensInv

LEMMA CaptureEndsKeeps == ASSUME GoldensInv, CaptureEnds PROVE GoldensInv'
<1> USE DEF CaptureEnds
<1>1. CASE done = chosen /\ job # "capture"
  <2>0. pc' = "compare" /\ exit' = exit /\ todo' = todo /\ job' = job /\ chosen' = chosen /\ done' = done
        /\ shots' = shots /\ goldens' = goldens
    BY <1>1
  <2>1. TypeOK'
    BY <2>0 DEF GoldensInv, TypeOK
  <2>2. JobOfPc' /\ ChosenArePlanned' /\ DoneHaveShots' /\ PassedIsGolden'
    BY <1>1, <2>0
    DEF GoldensInv, JobOfPc, ChosenArePlanned, DoneHaveShots, PassedIsGolden, Captures
  <2>3. NoDiagnosticGolden'
    BY <2>0 DEF GoldensInv, NoDiagnosticGolden
  <2>4. NoTornGreen' /\ GreenMeansMatched' /\ AcceptedMeansEqual'
    BY <2>0, RunningIsNotEnded
  <2>5. QED
    BY <2>1, <2>2, <2>3, <2>4 DEF GoldensInv
<1>2. CASE ~(done = chosen /\ job # "capture")
  <2>0. /\ pc' = "idle" /\ todo' = {} /\ exit' \in {0, 1} /\ (done # chosen => exit' = 1)
        /\ job' = job /\ chosen' = chosen /\ done' = done /\ shots' = shots /\ goldens' = goldens
    BY <1>2 DEF End
  <2>1. TypeOK'
    BY <2>0 DEF GoldensInv, TypeOK
  <2>2. JobOfPc' /\ ChosenArePlanned' /\ DoneHaveShots' /\ PassedIsGolden'
    BY <2>0 DEF GoldensInv, JobOfPc, ChosenArePlanned, DoneHaveShots, PassedIsGolden, Captures
  <2>3. NoDiagnosticGolden'
    BY <2>0 DEF GoldensInv, NoDiagnosticGolden
  <2>4. ~Ended("shots")' /\ ~Ended("review")' /\ ~Ended("accept")'
    BY <1>2, <2>0 DEF GoldensInv, JobOfPc, Captures, Ended
  <2>5. NoTornGreen' /\ GreenMeansMatched' /\ AcceptedMeansEqual'
    BY <2>4 DEF NoTornGreen, GreenMeansMatched, AcceptedMeansEqual
  <2>6. QED
    BY <2>1, <2>2, <2>3, <2>5 DEF GoldensInv
<1>3. QED
  BY <1>1, <1>2

\* Any end with an error that leaves the goldens without a diagnostic.
LEMMA FailureKeeps ==
  ASSUME GoldensInv, End(2), shots' \in [Files -> Contents], goldens' \in [Files -> Contents],
         NoDiagnosticGolden', UNCHANGED <<job, chosen, done>>
  PROVE  GoldensInv'
<1> USE DEF End
<1>1. TypeOK'
  BY DEF GoldensInv, TypeOK
<1>2. JobOfPc' /\ ChosenArePlanned' /\ DoneHaveShots' /\ PassedIsGolden'
  BY DEF GoldensInv, JobOfPc, ChosenArePlanned, DoneHaveShots, PassedIsGolden, Captures
<1>3. NoTornGreen' /\ GreenMeansMatched' /\ AcceptedMeansEqual'
  BY RunningIsNotEnded
<1>4. QED
  BY <1>1, <1>2, <1>3 DEF GoldensInv

LEMMA CaptureStopsKeeps == ASSUME GoldensInv, CaptureStops PROVE GoldensInv'
<1>1. End(2) /\ UNCHANGED <<goldens, job, chosen, done>>
  BY DEF CaptureStops
<1>2. shots' \in [Files -> Contents]
  <2>1. CASE \E pairs \in SUBSET chosen : shots' = Removed(pairs)
    BY <2>1, RemovedType DEF GoldensInv
  <2>2. CASE shots' = shots
    BY <2>2 DEF GoldensInv, TypeOK
  <2>3. QED
    BY <2>1, <2>2 DEF CaptureStops
<1>3. NoDiagnosticGolden' /\ goldens' \in [Files -> Contents]
  BY <1>1 DEF GoldensInv, NoDiagnosticGolden, TypeOK
<1>4. QED
  BY <1>1, <1>2, <1>3, FailureKeeps

\* A comparison that finds nothing unreadable and nothing that fails has seen every
\* planned pair.
LEMMA CompareSeesPlanned ==
  ASSUME GoldensInv, pc = "compare", NEW p \in Planned
  PROVE  /\ p \in done /\ shots[Shot(p)] \in Looks
         /\ Shot(p) \in Compared
<1>1. done = Planned
  BY DEF GoldensInv, JobOfPc, ChosenArePlanned, DoneHaveShots
<1>2. p \in done /\ shots[Shot(p)] \in Looks
  BY <1>1 DEF GoldensInv, DoneHaveShots
<1>3. Shot(p) \in Files /\ Shot(p)[1] \notin Skipped
  BY FileFacts, PairsAssumption
<1>4. QED
  BY <1>2, <1>3, NotALook DEF Compared, InMode

LEMMA CompareKeeps == ASSUME GoldensInv, Compare PROVE GoldensInv'
<1>1. /\ pc = "compare" /\ pc' = "idle" /\ todo' = {}
      /\ shots' = shots /\ goldens' = goldens /\ job' = job /\ chosen' = chosen /\ done' = done
  BY DEF Compare, End
<1>2. CompareExit(job = "review") \in 0 .. 2
  BY DEF CompareExit
<1>3. exit' \in 0 .. 2
  BY <1>2 DEF Compare, End
<1>4. exit' = 0 => Unreadable = {}
  <2>1. CompareExit(job = "review") # 2 => Unreadable = {}
    BY DEF CompareExit
  <2>2. exit' = 0 => CompareExit(job = "review") # 2
    BY <1>2 DEF Compare, End
  <2>3. QED
    BY <2>1, <2>2
<1>5. exit' = 0 /\ job = "shots" => Failing = {} /\ MissingGoldens = {}
  <2> SUFFICES ASSUME exit' = 0, job = "shots" PROVE Failing = {} /\ MissingGoldens = {}
    OBVIOUS
  <2>1. CompareExit(job = "review") = 0
    BY DEF Compare, End
  <2>2. QED
    BY <2>1 DEF CompareExit
<1>6. TypeOK'
  BY <1>1, <1>3 DEF GoldensInv, TypeOK
<1>7. JobOfPc' /\ ChosenArePlanned' /\ DoneHaveShots' /\ PassedIsGolden'
  BY <1>1 DEF GoldensInv, JobOfPc, ChosenArePlanned, DoneHaveShots, PassedIsGolden, Captures
<1>8. NoDiagnosticGolden'
  BY <1>1 DEF GoldensInv, NoDiagnosticGolden
<1>9. NoTornGreen'
  <2> SUFFICES ASSUME NEW p \in Planned, goldens[Shot(p)] = "torn" PROVE exit' # 0
    BY <1>1 DEF NoTornGreen, Ended
  <2>1. Shot(p) \in Unreadable
    BY <1>1, CompareSeesPlanned DEF Unreadable
  <2>2. QED
    BY <2>1, <1>4
<1>10. GreenMeansMatched'
  <2> SUFFICES ASSUME job = "shots", exit' = 0, NEW p \in Planned
               PROVE  p \in done /\ shots[Shot(p)] \in Looks /\ goldens[Shot(p)] = shots[Shot(p)]
    BY <1>1 DEF GreenMeansMatched, Ended
  <2>1. p \in done /\ shots[Shot(p)] \in Looks /\ Shot(p) \in Compared
    BY <1>1, CompareSeesPlanned
  <2>2. Shot(p) \notin MissingGoldens /\ Shot(p) \notin Failing
    BY <1>5
  <2>3. goldens[Shot(p)] = shots[Shot(p)]
    BY <2>1, <2>2 DEF MissingGoldens, Failing
  <2>4. QED
    BY <2>1, <2>3
<1>11. AcceptedMeansEqual'
  BY <1>1 DEF GoldensInv, JobOfPc, AcceptedMeansEqual, Ended
<1>12. QED
  BY <1>6, <1>7, <1>8, <1>9, <1>10, <1>11 DEF GoldensInv

LEMMA AcceptStarts ==
  ASSUME GoldensInv, NEW pairs \in SUBSET Pairs, StartAccept(pairs)
  PROVE  GoldensInv'
<1> USE DEF StartAccept
<1>1. TypeOK'
  BY DEF GoldensInv, TypeOK
<1>2. JobOfPc' /\ ChosenArePlanned' /\ DoneHaveShots' /\ PassedIsGolden'
  BY DEF JobOfPc, ChosenArePlanned, DoneHaveShots, PassedIsGolden, Captures
<1>3. NoDiagnosticGolden'
  BY DEF GoldensInv, NoDiagnosticGolden
<1>4. NoTornGreen' /\ GreenMeansMatched' /\ AcceptedMeansEqual'
  BY RunningIsNotEnded
<1>5. QED
  BY <1>1, <1>2, <1>3, <1>4 DEF GoldensInv

\* Only a file with a safe name is written, so no diagnostic becomes a golden.
LEMMA SafeWrite ==
  ASSUME GoldensInv, NEW f \in Files, SafeName(f), NEW c \in Contents,
         goldens' = [goldens EXCEPT ![f] = c]
  PROVE  NoDiagnosticGolden' /\ goldens' \in [Files -> Contents]
<1>1. goldens' \in [Files -> Contents]
  BY DEF GoldensInv, TypeOK
<1>2. ASSUME NEW p \in Pairs PROVE goldens'[Diagnostic(p)] = "none"
  <2>1. Diagnostic(p) # f /\ Diagnostic(p) \in Files
    BY FileFacts DEF SafeName
  <2>2. QED
    BY <2>1 DEF GoldensInv, TypeOK, NoDiagnosticGolden
<1>3. QED
  BY <1>1, <1>2 DEF NoDiagnosticGolden

LEMMA AcceptCopiesKeeps ==
  ASSUME GoldensInv, NEW f \in Files, AcceptCopies(f)
  PROVE  GoldensInv'
<1> USE DEF AcceptCopies
<1>0. shots[f] \in Contents
  BY DEF GoldensInv, TypeOK
<1>1. NoDiagnosticGolden' /\ goldens' \in [Files -> Contents]
  BY <1>0, SafeWrite
<1>2. TypeOK'
  BY <1>1 DEF GoldensInv, TypeOK
<1>3. JobOfPc' /\ ChosenArePlanned' /\ DoneHaveShots'
  BY DEF GoldensInv, JobOfPc, ChosenArePlanned, DoneHaveShots, Captures
<1>4. PassedIsGolden'
  <2> SUFFICES ASSUME NEW g \in Files, shots[g] # "none", g \notin todo \ {f}
               PROVE  /\ g[2] = "shot"
                      /\ g[1] \in chosen => goldens'[g] = shots[g] /\ shots[g] # "torn"
    BY DEF PassedIsGolden
  <2>1. CASE g = f
    BY <2>1 DEF SafeName, Readable, GoldensInv, TypeOK
  <2>2. CASE g # f
    BY <2>2 DEF GoldensInv, TypeOK, PassedIsGolden
  <2>3. QED
    BY <2>1, <2>2
<1>5. NoTornGreen' /\ GreenMeansMatched' /\ AcceptedMeansEqual'
  BY RunningIsNotEnded
<1>6. QED
  BY <1>1, <1>2, <1>3, <1>4, <1>5 DEF GoldensInv

LEMMA AcceptFiltersKeeps ==
  ASSUME GoldensInv, NEW f \in Files, AcceptFilters(f)
  PROVE  GoldensInv'
<1> USE DEF AcceptFilters
<1>1. TypeOK'
  BY DEF GoldensInv, TypeOK
<1>2. JobOfPc' /\ ChosenArePlanned' /\ DoneHaveShots'
  BY DEF GoldensInv, JobOfPc, ChosenArePlanned, DoneHaveShots, Captures
<1>3. PassedIsGolden'
  BY DEF GoldensInv, PassedIsGolden, SafeName
<1>4. NoDiagnosticGolden'
  BY DEF GoldensInv, NoDiagnosticGolden
<1>5. NoTornGreen' /\ GreenMeansMatched' /\ AcceptedMeansEqual'
  BY RunningIsNotEnded
<1>6. QED
  BY <1>1, <1>2, <1>3, <1>4, <1>5 DEF GoldensInv

LEMMA AcceptBreaksKeeps ==
  ASSUME GoldensInv, NEW f \in Files, AcceptBreaks(f)
  PROVE  GoldensInv'
<1> USE DEF AcceptBreaks
<1>1. NoDiagnosticGolden' /\ goldens' \in [Files -> Contents]
  <2>1. CASE goldens' = goldens
    BY <2>1 DEF GoldensInv, TypeOK, NoDiagnosticGolden
  <2>2. CASE goldens' = [goldens EXCEPT ![f] = "torn"]
    BY <2>2, SafeWrite DEF Contents
  <2>3. QED
    BY <2>1, <2>2
<1>2. shots' \in [Files -> Contents]
  BY DEF GoldensInv, TypeOK
<1>3. QED
  BY <1>1, <1>2, FailureKeeps

\* AcceptRefuses and AcceptFails.
LEMMA AcceptStopsKeeps ==
  ASSUME GoldensInv, End(2), UNCHANGED <<shots, goldens, job, chosen, done>>
  PROVE  GoldensInv'
BY FailureKeeps DEF GoldensInv, TypeOK, NoDiagnosticGolden

LEMMA AcceptEndsKeeps == ASSUME GoldensInv, AcceptEnds PROVE GoldensInv'
<1>1. /\ pc = "accept" /\ todo = {} /\ pc' = "idle" /\ todo' = {} /\ exit' \in {0, 1}
      /\ shots' = shots /\ goldens' = goldens /\ job' = job /\ chosen' = chosen /\ done' = done
  BY DEF AcceptEnds, End
<1>2. TypeOK'
  BY <1>1 DEF GoldensInv, TypeOK
<1>3. JobOfPc' /\ ChosenArePlanned' /\ DoneHaveShots' /\ PassedIsGolden'
  BY <1>1 DEF GoldensInv, JobOfPc, ChosenArePlanned, DoneHaveShots, PassedIsGolden, Captures
<1>4. NoDiagnosticGolden'
  BY <1>1 DEF GoldensInv, NoDiagnosticGolden
<1>5. job = "accept"
  BY <1>1 DEF GoldensInv, JobOfPc
<1>6. NoTornGreen' /\ GreenMeansMatched'
  BY <1>1, <1>5 DEF NoTornGreen, GreenMeansMatched, Ended
<1>7. AcceptedMeansEqual'
  <2> SUFFICES ASSUME chosen = Pairs
               PROVE  Failing' = {} /\ MissingGoldens' = {} /\ Unreadable' = {}
    BY <1>1 DEF AcceptedMeansEqual
  <2>1. \A f \in Files : shots[f] # "none" => goldens[f] = shots[f] /\ shots[f] # "torn"
    BY <1>1, FileFacts DEF GoldensInv, PassedIsGolden
  <2>2. QED
    BY <1>1, <2>1 DEF Failing, MissingGoldens, Unreadable, Compared
<1>8. QED
  BY <1>2, <1>3, <1>4, <1>6, <1>7 DEF GoldensInv

LEMMA GoldensStutters == ASSUME GoldensInv, UNCHANGED vars PROVE GoldensInv'
BY DEF vars, GoldensInv, TypeOK, JobOfPc, ChosenArePlanned, DoneHaveShots, PassedIsGolden,
       NoDiagnosticGolden, NoTornGreen, GreenMeansMatched, AcceptedMeansEqual, Ended,
       Failing, MissingGoldens, Unreadable, Compared

LEMMA GoldensStep == GoldensInv /\ [Next]_vars => GoldensInv'
<1> SUFFICES ASSUME GoldensInv, [Next]_vars PROVE GoldensInv'
  OBVIOUS
<1>1. CASE Capture
  <2>1. ASSUME NEW tool \in Captures, NEW pairs \in SUBSET Planned,
               StartCapture(tool, pairs), tool # "capture" => pairs = Planned
        PROVE  GoldensInv'
    BY <2>1, CaptureStarts
  <2>2. QED
    BY <1>1, <2>1, Zenon DEF Capture, Captures
<1>2. CASE Unlink
  BY <1>2, UnlinkKeeps
<1>3. CASE \E p \in Planned, look \in Looks : ShootOk(p, look)
  BY <1>3, ShootOkKeeps
<1>4. CASE \E p \in Planned, picture \in Looks \cup {"none", "torn"},
              diagnostic \in {"none", "failure"} : ShootFails(p, picture, diagnostic)
  BY <1>4, ShootFailsKeeps
<1>5. CASE CaptureEnds
  BY <1>5, CaptureEndsKeeps
<1>6. CASE CaptureStops
  BY <1>6, CaptureStopsKeeps
<1>7. CASE Compare
  BY <1>7, CompareKeeps
<1>8. CASE StartAccept(Pairs) \/ \E pairs \in (SUBSET Planned) \ {{}} : StartAccept(pairs)
  <2>1. \A pairs \in (SUBSET Planned) \ {{}} : pairs \in SUBSET Pairs
    BY FileFacts
  <2>2. QED
    BY <1>8, <2>1, AcceptStarts
<1>9. CASE \E f \in Files :
             AcceptCopies(f) \/ AcceptFilters(f) \/ AcceptRefuses(f) \/ AcceptBreaks(f)
  <2>1. PICK f \in Files :
          AcceptCopies(f) \/ AcceptFilters(f) \/ AcceptRefuses(f) \/ AcceptBreaks(f)
    BY <1>9
  <2>2. CASE AcceptCopies(f)
    BY <2>2, AcceptCopiesKeeps
  <2>3. CASE AcceptFilters(f)
    BY <2>3, AcceptFiltersKeeps
  <2>4. CASE AcceptRefuses(f)
    BY <2>4, AcceptStopsKeeps DEF AcceptRefuses
  <2>5. CASE AcceptBreaks(f)
    BY <2>5, AcceptBreaksKeeps
  <2>6. QED
    BY <2>1, <2>2, <2>3, <2>4, <2>5
<1>10. CASE AcceptFails
  BY <1>10, AcceptStopsKeeps DEF AcceptFails
<1>11. CASE AcceptEnds
  BY <1>11, AcceptEndsKeeps
<1>12. CASE UNCHANGED vars
  BY <1>12, GoldensStutters
<1>13. QED
  BY <1>1, <1>2, <1>3, <1>4, <1>5, <1>6, <1>7, <1>8, <1>9, <1>10, <1>11, <1>12 DEF Next

-----------------------------------------------------------------------------
(* The tools over shots and goldens: the theorems.                         *)

\* Every variable of the tools over shots and goldens stays within its type.
THEOREM GoldensTypeCorrect == Spec => []TypeOK
<1>1. GoldensInv => TypeOK
  BY DEF GoldensInv
<1>2. QED
  BY GoldensInitial, GoldensStep, <1>1, PTL DEF Spec

\* A `make shots` that exits with 0 has photographed every planned pair itself, and each
\* looks like its golden (runner.py, compare.py), after any sequence of other tools.
THEOREM GreenShotsMatchGoldens == Spec => []GreenMeansMatched
<1>1. GoldensInv => GreenMeansMatched
  BY DEF GoldensInv
<1>2. QED
  BY GoldensInitial, GoldensStep, <1>1, PTL DEF Spec

\* No picture of a failure becomes a golden, no torn golden passes, and what was accepted
\* as a whole compares as equal (accept.py, compare.py).
THEOREM GoldensStayReviewed == Spec => []GoldensAreReviewed
<1>1. GoldensInv => GoldensAreReviewed
  BY DEF GoldensInv, GoldensAreReviewed, NoFalseGolden, NoDiagnosticGolden, NoTornGreen
<1>2. QED
  BY GoldensInitial, GoldensStep, <1>1, PTL DEF Spec

-----------------------------------------------------------------------------
(* determinism.py.                                                         *)

DetTypeOK ==
  /\ run \in 1 .. RunCount + 1
  /\ worst \in {0, 1}
  /\ folders \in [Runs -> [Plan -> Shows \cup {"none"}]]
  /\ ended \in BOOLEAN
  /\ code \in {-1, 0, 1, 2}
  /\ fresh \subseteq Runs \X Plan

\* As long as every run was ok, each has photographed the whole plan.
AllFresh == worst = 0 => \A k \in Runs, p \in Plan : k < run => <<k, p>> \in fresh

DetInv == DetTypeOK /\ AllFresh /\ DeterministicMeansSame

LEMMA RunFacts ==
  /\ RunCount \in Nat /\ RunCount >= 2
  /\ Runs = 1 .. RunCount /\ 1 \in Runs
BY RunCountAssumption DEF Runs

LEMMA DetInitial == DetInit => DetInv
<1> SUFFICES ASSUME DetInit PROVE DetInv
  OBVIOUS
<1>1. DetTypeOK
  <2>1. run \in 1 .. RunCount + 1 /\ worst \in {0, 1} /\ code \in {-1, 0, 1, 2}
    BY RunFacts DEF DetInit
  <2>2. ended \in BOOLEAN /\ fresh \subseteq Runs \X Plan
    BY DEF DetInit
  <2>3. folders \in [Runs -> [Plan -> Shows \cup {"none"}]]
    BY DEF DetInit
  <2>4. QED
    BY <2>1, <2>2, <2>3 DEF DetTypeOK
<1>2. AllFresh
  BY RunFacts DEF DetInit, AllFresh
<1>3. DeterministicMeansSame
  BY DEF DetInit, DeterministicMeansSame
<1>4. QED
  BY <1>1, <1>2, <1>3 DEF DetInv

LEMMA RunOkKeeps ==
  ASSUME DetInv, NEW pictures \in [Plan -> Shows], RunOk(pictures) PROVE DetInv'
<1> USE RunFacts DEF RunOk, DetInv, DetTypeOK
<1>1. worst' = worst
  BY DEF WorstWith, Max2
<1>2. DetTypeOK'
  <2>1. run \in Runs /\ run' \in 1 .. RunCount + 1
    OBVIOUS
  <2>2. pictures \in [Plan -> Shows \cup {"none"}]
    OBVIOUS
  <2>3. folders' \in [Runs -> [Plan -> Shows \cup {"none"}]]
    BY <2>1, <2>2
  <2>4. fresh' \subseteq Runs \X Plan
    BY <2>1
  <2>5. QED
    BY <1>1, <2>1, <2>3, <2>4
<1>3. AllFresh'
  <2> SUFFICES ASSUME worst = 0, NEW k \in Runs, NEW p \in Plan, k < run + 1
               PROVE  <<k, p>> \in fresh'
    BY <1>1 DEF AllFresh
  <2>1. CASE k = run
    BY <2>1
  <2>2. CASE k # run
    BY <2>2 DEF AllFresh
  <2>3. QED
    BY <2>1, <2>2
<1>4. DeterministicMeansSame'
  BY DEF DeterministicMeansSame
<1>5. QED
  BY <1>2, <1>3, <1>4

LEMMA RunFailsKeeps ==
  ASSUME DetInv, NEW pictures \in [Plan -> Shows], NEW taken \in SUBSET Plan,
         RunFails(pictures, taken)
  PROVE  DetInv'
<1> USE RunFacts DEF RunFails, DetInv, DetTypeOK
<1>1. worst' = 1
  BY DEF WorstWith, Max2
<1>2. DetTypeOK'
  <2>1. run \in Runs /\ run' \in 1 .. RunCount + 1
    OBVIOUS
  <2>2. [p \in Plan |-> IF p \in taken THEN pictures[p] ELSE "none"]
          \in [Plan -> Shows \cup {"none"}]
    OBVIOUS
  <2>3. folders' \in [Runs -> [Plan -> Shows \cup {"none"}]]
    BY <2>1, <2>2
  <2>4. fresh' \subseteq Runs \X Plan
    BY <2>1
  <2>5. QED
    BY <1>1, <2>1, <2>3, <2>4
<1>3. AllFresh' /\ DeterministicMeansSame'
  BY <1>1 DEF AllFresh, DeterministicMeansSame
<1>4. QED
  BY <1>2, <1>3

LEMMA RunRaisesKeeps ==
  ASSUME DetInv, NEW pictures \in [Plan -> Shows], NEW left \in SUBSET Plan,
         RunRaises(pictures, left)
  PROVE  DetInv'
<1> USE RunFacts DEF RunRaises, DetInv, DetTypeOK
<1>1. DetTypeOK'
  <2>1. PICK there \in {folders[run], pictures} :
          folders' = [folders EXCEPT ![run] =
                        [p \in Plan |-> IF p \in left THEN there[p] ELSE "none"]]
    OBVIOUS
  <2>2. run \in Runs
    OBVIOUS
  <2>3. there \in [Plan -> Shows \cup {"none"}]
    BY <2>2
  <2>4. [p \in Plan |-> IF p \in left THEN there[p] ELSE "none"]
          \in [Plan -> Shows \cup {"none"}]
    BY <2>3
  <2>5. folders' \in [Runs -> [Plan -> Shows \cup {"none"}]]
    BY <2>1, <2>2, <2>4
  <2>6. QED
    BY <2>5
<1>2. AllFresh' /\ DeterministicMeansSame'
  BY DEF AllFresh, DeterministicMeansSame
<1>3. QED
  BY <1>1, <1>2

LEMMA CompareRunsKeeps == ASSUME DetInv, CompareRuns PROVE DetInv'
<1> USE RunFacts DEF CompareRuns, DetInv, DetTypeOK
<1>1. DetTypeOK'
  OBVIOUS
<1>2. AllFresh'
  BY DEF AllFresh
<1>3. DeterministicMeansSame'
  <2> SUFFICES ASSUME code' = 0, NEW p \in Plan, NEW k \in Runs
               PROVE  <<k, p>> \in fresh /\ <<folders[k][p], folders[1][p]>> \in Close
    BY DEF DeterministicMeansSame
  <2>1. worst = 0 /\ \A q \in Plan, j \in 2 .. RunCount : Agrees(q, j)
    OBVIOUS
  <2>2. <<k, p>> \in fresh
    BY <2>1 DEF AllFresh
  <2>3. CASE k # 1
    <3>1. k \in 2 .. RunCount
      BY <2>3
    <3>2. Agrees(p, k)
      BY <2>1, <3>1
    <3>3. QED
      BY <2>2, <3>2 DEF Agrees
  <2>4. CASE k = 1
    <3>1. folders[1][p] \in Shows \cup {"none"} /\ 2 \in 2 .. RunCount
      OBVIOUS
    <3>2. folders[1][p] # "none"
      BY <2>1, <3>1 DEF Agrees
    <3>3. \A x \in Shows : <<x, x>> \in Close
      BY CloseAssumption
    <3>4. <<folders[1][p], folders[1][p]>> \in Close
      BY <3>1, <3>2, <3>3
    <3>5. QED
      BY <2>2, <2>4, <3>4
  <2>5. QED
    BY <2>2, <2>3, <2>4
<1>4. QED
  BY <1>1, <1>2, <1>3

LEMMA DetStep == DetInv /\ [DetNext]_detVars => DetInv'
<1> SUFFICES ASSUME DetInv, [DetNext]_detVars PROVE DetInv'
  OBVIOUS
<1>1. CASE CompareRuns
  BY <1>1, CompareRunsKeeps
<1>2. CASE UNCHANGED detVars
  BY <1>2 DEF detVars, DetInv, DetTypeOK, AllFresh, DeterministicMeansSame
<1>3. ASSUME NEW pictures \in [Plan -> Shows],
             \/ RunOk(pictures)
             \/ \E taken \in SUBSET Plan : RunFails(pictures, taken) \/ RunRaises(pictures, taken)
      PROVE  DetInv'
  BY <1>3, RunOkKeeps, RunFailsKeeps, RunRaisesKeeps
<1>4. QED
  BY <1>1, <1>2, <1>3 DEF DetNext

\* `make determinism` that exits with 0 has taken every picture of every run itself, and
\* each later run agrees with the first (determinism.py), for any number of runs.
THEOREM DeterminismIsReal == DetSpec => []DeterministicMeansSame
<1>1. DetInv => DeterministicMeansSame
  BY DEF DetInv
<1>2. QED
  BY DetInitial, DetStep, <1>1, PTL DEF DetSpec

-----------------------------------------------------------------------------
(* build_iso_host.sh and release.py.                                       *)

Copies == Nat \X {"whole", "damaged", "part"}
Notes == Copies \X Copies
Directories ==
  [there : BOOLEAN, iso : Copies \cup {Nothing}, notes : Notes \cup {Nothing},
   sums : (Copies \X Notes) \cup {Nothing}, signed : (Copies \X Notes) \cup {Nothing},
   torn : BOOLEAN, build : Nat, undisturbed : BOOLEAN]

Stages == {"idle", "partial", "final", "mkdir", "hash", "copy", "compare", "notes", "sums",
           "sign", "rename"}

ReleaseTypeOK ==
  /\ isos \in [FileNames -> Copies \cup {Nothing}]
  /\ builds \in Nat
  /\ building \in {"idle", "fresh", "mkdir", "mark", "stage", "make", "remove", "copy", "check"}
  /\ output \in Copies \cup {Nothing}
  /\ verified \in SUBSET Nat
  /\ stage \in Stages
  /\ selected \in FileNames
  /\ hash \in Copies \cup {Nothing}
  /\ partial \in Directories /\ final \in Directories
  /\ undisturbed \in BOOLEAN

\* A build is verified at its end, and until then it is not.
VerifiedAtEnd ==
  /\ \A b \in verified : b <= builds
  /\ building # "idle" => builds \notin verified

\* The whole of the last build, in the directory alone, is what a verified build leaves.
IsosOfBuild ==
  /\ building \in {"remove", "copy", "check"} => output = <<builds, "whole">>
  /\ building \in {"copy", "check"} => isos["other"] = Nothing
  /\ building = "idle" /\ builds \in verified =>
       \A f \in FileNames : isos[f] \in {Nothing, <<builds, "whole">>}

\* What a release has read and written by the time it is at each of its steps.
Made ==
  /\ stage \in {"hash", "copy"} => partial = [NoDirectory EXCEPT !.there = TRUE]
  /\ stage \in {"copy", "compare", "notes", "sums", "sign", "rename"} => hash \in Copies
  /\ stage \in {"compare", "notes", "sums", "sign", "rename"} =>
       partial.iso \in Copies /\ partial.there /\ ~partial.torn
  /\ stage \in {"notes", "sums", "sign", "rename"} => partial.iso = hash
  /\ stage \in {"sums", "sign", "rename"} => partial.notes \in Notes /\ partial.notes[1] = hash
  /\ stage \in {"sign", "rename"} => partial.sums = <<partial.iso, partial.notes>>
  /\ stage = "rename" => partial.signed = partial.sums

\* While no build begins, a release reads one and the same ISO three times.
ReadUndisturbed ==
  undisturbed =>
    /\ building = "idle" /\ builds \in verified
    /\ stage # "idle" => isos[selected] # Nothing
    /\ stage \in {"copy", "compare", "notes", "sums", "sign", "rename"} => hash = isos[selected]
    /\ stage \in {"sums", "sign", "rename"} => partial.notes[2] = hash

\* Sums that exist speak of notes that name their ISO, also in a torn release.
SumsSound == final.sums # Nothing => final.sums[2][1] = final.sums[1]

ReleaseInv ==
  /\ ReleaseTypeOK
  /\ VerifiedAtEnd
  /\ IsosOfBuild
  /\ Made
  /\ ReadUndisturbed
  /\ SumsSound
  /\ final.there /\ ~final.torn => Verifies(final)
  /\ ReleaseIsVerifiedBuild

LEMMA NoDirectoryType ==
  /\ NoDirectory \in Directories
  /\ [NoDirectory EXCEPT !.there = TRUE] \in Directories
  BY DEF NoDirectory, Directories

LEMMA ReleaseInitInv == ReleaseInit => ReleaseInv
<1>. SUFFICES ASSUME ReleaseInit PROVE ReleaseInv
  OBVIOUS
<1>1. ReleaseTypeOK
  <2>1. isos \in [FileNames -> Copies \cup {Nothing}]
    BY DEF ReleaseInit, Copies
  <2>. QED
    BY <2>1, NoDirectoryType DEF ReleaseInit, ReleaseTypeOK, Stages, FileNames
<1>2. VerifiedAtEnd /\ IsosOfBuild /\ Made /\ ReadUndisturbed
  BY DEF ReleaseInit, VerifiedAtEnd, IsosOfBuild, Made, ReadUndisturbed
<1>3. SumsSound /\ ~final.there
  BY DEF ReleaseInit, SumsSound, NoDirectory
<1>. QED
  BY <1>1, <1>2, <1>3 DEF ReleaseInv, ReleaseIsVerifiedBuild

-----------------------------------------------------------------------------
(* The build.                                                              *)

\* Builds are counted at their beginning, and verified at their end.
LEMMA BuildCounts ==
  ASSUME BuilderNext
  PROVE  \/ /\ builds' = builds + 1 /\ verified' = verified /\ undisturbed' = FALSE
            /\ building = "idle" /\ building' = "fresh"
         \/ /\ UNCHANGED <<builds, undisturbed>> /\ verified' = verified \cup {builds}
            /\ building = "check" /\ building' = "idle"
         \/ UNCHANGED <<builds, verified, undisturbed>> /\ building # "idle"
  BY DEF BuilderNext, CheckHost, RemoveScratch, MakeScratch, MarkScratch, StageProfile,
         MakeIso, RemoveIso, IsosRemoved, CopyIso, IsoCopied, VerifyCopy, BuilderDies, BuilderGoes

LEMMA BuildCountsKeep ==
  ASSUME ReleaseInv, BuilderNext
  PROVE  /\ builds' \in Nat /\ verified' \in SUBSET Nat /\ undisturbed' \in BOOLEAN
         /\ VerifiedAtEnd' /\ verified \subseteq verified'
<1>1. builds \in Nat /\ verified \in SUBSET Nat
  BY DEF ReleaseInv, ReleaseTypeOK
<1>2. undisturbed' \in BOOLEAN
  BY BuildCounts, Zenon DEF ReleaseInv, ReleaseTypeOK
<1>3. CASE builds' = builds + 1 /\ verified' = verified /\ building = "idle"
  BY <1>1, <1>2, <1>3 DEF ReleaseInv, VerifiedAtEnd
<1>4. CASE builds' = builds /\ verified' = verified \cup {builds} /\ building' = "idle"
  BY <1>1, <1>2, <1>4 DEF ReleaseInv, VerifiedAtEnd
<1>5. CASE builds' = builds /\ verified' = verified /\ building # "idle"
  BY <1>1, <1>2, <1>5 DEF ReleaseInv, VerifiedAtEnd
<1>. QED
  BY <1>3, <1>4, <1>5, BuildCounts

\* A build that has begun takes the promise from every release under way; a release that
\* is finished keeps what it has.
LEMMA BuilderKeeps == ASSUME ReleaseInv, BuilderNext PROVE ReleaseInv'
<1>. USE DEF BuilderNext, CheckHost, RemoveScratch, MakeScratch, MarkScratch, StageProfile,
             MakeIso, RemoveIso, IsosRemoved, CopyIso, IsoCopied, VerifyCopy, BuilderDies, BuilderGoes,
             OfBuilds
<1>1. UNCHANGED <<stage, selected, hash, partial, final>>
  BY DEF releaser
<1>2. ReleaseTypeOK'
  <2>1. isos' \in [FileNames -> Copies \cup {Nothing}]
    BY DEF ReleaseInv, ReleaseTypeOK, Copies, FileNames
  <2>2. output' \in Copies \cup {Nothing}
    BY DEF ReleaseInv, ReleaseTypeOK, Copies
  <2>3. building' \in {"idle", "fresh", "mkdir", "mark", "stage", "make", "remove", "copy",
                       "check"}
    BY DEF ReleaseInv, ReleaseTypeOK
  <2>. QED
    BY <1>1, <2>1, <2>2, <2>3, BuildCountsKeep DEF ReleaseInv, ReleaseTypeOK
<1>3. IsosOfBuild'
  BY DEF ReleaseInv, ReleaseTypeOK, VerifiedAtEnd, IsosOfBuild, SumsAgree, FileNames
<1>4. ReadUndisturbed'
  BY <1>1 DEF ReleaseInv, ReadUndisturbed
<1>5. (Made /\ SumsSound /\ (final.there /\ ~final.torn => Verifies(final)))'
  BY <1>1 DEF ReleaseInv, Made, SumsSound, Verifies
<1>6. ReleaseIsVerifiedBuild'
  BY <1>1, BuildCountsKeep DEF ReleaseInv, ReleaseIsVerifiedBuild
<1>. QED
  BY <1>2, <1>3, <1>4, <1>5, <1>6, BuildCountsKeep DEF ReleaseInv

-----------------------------------------------------------------------------
(* The release.                                                            *)

\* What a release leaves alone.
LEMMA ReleaserFrame ==
  ASSUME ReleaseInv, ReleaseNext
  PROVE  /\ UNCHANGED <<isos, builds, building, output, verified>>
         /\ VerifiedAtEnd' /\ IsosOfBuild'
<1>1. UNCHANGED <<isos, builds, building, output, verified>>
  BY DEF ReleaseNext, Checks, RemovePartial, TearFinal, RemoveFinal, MakePartial, HashIso,
         ReleaseCopy, CompareCopy, WriteNotes, WriteSums, Sign, Rename, ReleaseFails,
         ReleaserGoes, builder
<1>. QED
  BY <1>1 DEF ReleaseInv, VerifiedAtEnd, IsosOfBuild

\* The choice of the ISO is the only step that begins a promise.
LEMMA ChecksKeeps == ASSUME ReleaseInv, NEW f \in FileNames, Checks(f) PROVE ReleaseInv'
<1>0. ReleaseNext
  BY DEF ReleaseNext
<1>1. UNCHANGED <<hash, partial, final>> /\ stage' = "partial" /\ selected' = f
      /\ undisturbed' = (building = "idle" /\ builds \in verified)
  BY DEF Checks
<1>2. ReleaseTypeOK'
  BY <1>0, <1>1, ReleaserFrame DEF ReleaseInv, ReleaseTypeOK, Stages
<1>3. Made'
  BY <1>1 DEF Made
<1>4. ReadUndisturbed'
  <2>1. isos[f] # Nothing
    BY DEF Checks, OnlyIso, Present
  <2>2. UNCHANGED <<isos, builds, building, verified>>
    BY <1>0, ReleaserFrame
  <2>. QED
    BY <1>1, <2>1, <2>2 DEF ReadUndisturbed
<1>5. (SumsSound /\ (final.there /\ ~final.torn => Verifies(final)))'
  BY <1>1 DEF ReleaseInv, SumsSound, Verifies
<1>6. ReleaseIsVerifiedBuild'
  BY <1>0, <1>1, ReleaserFrame DEF ReleaseInv, ReleaseIsVerifiedBuild
<1>. QED
  BY <1>0, <1>2, <1>3, <1>4, <1>5, <1>6, ReleaserFrame DEF ReleaseInv

\* A release that is being removed: what is torn no longer passes for whole.
LEMMA RemovalKeeps == ASSUME ReleaseInv, TearFinal \/ RemoveFinal PROVE ReleaseInv'
<1>0. ReleaseNext
  BY DEF ReleaseNext
<1>1. UNCHANGED <<selected, hash, partial, undisturbed>> /\ stage = "final"
      /\ stage' \in {"final", "mkdir"}
  BY DEF TearFinal, RemoveFinal, ReleaserGoes
<1>2. /\ final' \in Directories
      /\ final'.there => final'.torn
      /\ final'.sums # Nothing => final'.sums = final.sums
  <2>1. CASE TearFinal
    BY <2>1, ZenonT(60) DEF TearFinal, ReleaseFiles, ReleaseInv, ReleaseTypeOK, Directories
  <2>2. CASE RemoveFinal
    BY <2>2, NoDirectoryType DEF RemoveFinal, NoDirectory
  <2>. QED
    BY <2>1, <2>2
<1>3. ReleaseTypeOK'
  BY <1>0, <1>1, <1>2, ReleaserFrame DEF ReleaseInv, ReleaseTypeOK, Stages
<1>4. Made' /\ ReadUndisturbed'
  BY <1>0, <1>1, ReleaserFrame DEF ReleaseInv, Made, ReadUndisturbed
<1>5. (SumsSound /\ (final.there /\ ~final.torn => Verifies(final)) /\ ReleaseIsVerifiedBuild)'
  BY <1>2 DEF ReleaseInv, SumsSound, ReleaseIsVerifiedBuild
<1>. QED
  BY <1>0, <1>3, <1>4, <1>5, ReleaserFrame DEF ReleaseInv

\* The directory that is being made.
Making ==
  \/ RemovePartial \/ MakePartial \/ HashIso \/ ReleaseCopy \/ CompareCopy
  \/ WriteNotes \/ WriteSums \/ Sign \/ ReleaseFails

LEMMA MakingKeeps == ASSUME ReleaseInv, Making PROVE ReleaseInv'
<1>0. ReleaseNext
  BY DEF ReleaseNext, Making
<1>1. UNCHANGED <<selected, final, undisturbed>> /\ stage # "idle"
  BY DEF Making, RemovePartial, MakePartial, HashIso, ReleaseCopy, CompareCopy, WriteNotes,
         WriteSums, Sign, ReleaseFails, ReleaserGoes
<1>2. /\ isos[selected] # Nothing => isos[selected] \in Copies
      /\ selected \in FileNames
  BY DEF ReleaseInv, ReleaseTypeOK
<1>3. /\ stage' \in Stages /\ hash' \in Copies \cup {Nothing} /\ partial' \in Directories
      /\ Made'
  <2>. USE DEF ReleaseInv, ReleaseTypeOK, Stages, Made, ReleaserGoes
  <2>1. CASE RemovePartial \/ MakePartial \/ ReleaseFails
    BY <2>1, NoDirectoryType DEF RemovePartial, MakePartial, ReleaseFails
  <2>2. CASE HashIso \/ CompareCopy
    BY <1>2, <2>2 DEF HashIso, CompareCopy, CopyIsHashed
  <2>3. CASE ReleaseCopy
    <3>1. PICK content \in {isos[selected], <<isos[selected][1], "damaged">>} :
            partial' = [partial EXCEPT !.iso = content]
      BY <2>3 DEF ReleaseCopy
    <3>2. content \in Copies
      BY <1>2, <2>3, <3>1 DEF ReleaseCopy, Copies
    <3>3. /\ partial' \in Directories /\ partial'.iso \in Copies /\ partial'.there
          /\ ~partial'.torn
      BY <2>3, <3>1, <3>2, NoDirectoryType DEF ReleaseCopy, NoDirectory, Directories
    <3>. QED
      BY <2>3, <3>3 DEF ReleaseCopy
  <2>4. CASE WriteNotes
    BY <1>2, <2>4 DEF WriteNotes, Directories, Notes
  <2>5. CASE WriteSums
    BY <2>5 DEF WriteSums, Directories
  <2>6. CASE Sign
    BY <2>6 DEF Sign, Directories
  <2>. QED
    BY <2>1, <2>2, <2>3, <2>4, <2>5, <2>6 DEF Making
<1>4. ReleaseTypeOK'
  BY <1>0, <1>1, <1>3, ReleaserFrame DEF ReleaseInv, ReleaseTypeOK
<1>5. ReadUndisturbed'
  <2>. SUFFICES ASSUME undisturbed PROVE ReadUndisturbed'
    BY <1>1 DEF ReadUndisturbed
  <2>. USE DEF ReleaserGoes
  <2>1. /\ building = "idle" /\ builds \in verified /\ isos[selected] # Nothing
        /\ UNCHANGED <<isos, builds, building, verified, selected>>
    BY <1>0, <1>1, ReleaserFrame DEF ReleaseInv, ReadUndisturbed
  <2>2. CASE RemovePartial \/ MakePartial \/ ReleaseFails
    BY <2>1, <2>2 DEF ReadUndisturbed, RemovePartial, MakePartial, ReleaseFails
  <2>3. CASE HashIso
    BY <2>1, <2>3 DEF ReadUndisturbed, HashIso
  <2>4. CASE ReleaseCopy \/ CompareCopy
    BY <2>1, <2>4 DEF ReleaseInv, ReadUndisturbed, ReleaseCopy, CompareCopy
  <2>5. CASE WriteNotes
    BY <2>1, <2>5 DEF ReleaseInv, ReleaseTypeOK, Directories, ReadUndisturbed, WriteNotes
  <2>6. CASE WriteSums \/ Sign
    BY <2>1, <2>6 DEF ReleaseInv, ReleaseTypeOK, Directories, ReadUndisturbed, WriteSums, Sign
  <2>. QED
    BY <2>2, <2>3, <2>4, <2>5, <2>6 DEF Making
<1>6. (SumsSound /\ (final.there /\ ~final.torn => Verifies(final)))'
  BY <1>1 DEF ReleaseInv, SumsSound, Verifies
<1>7. ReleaseIsVerifiedBuild'
  BY <1>0, <1>1, ReleaserFrame DEF ReleaseInv, ReleaseIsVerifiedBuild
<1>. QED
  BY <1>0, <1>3, <1>4, <1>5, <1>6, <1>7, ReleaserFrame DEF ReleaseInv

\* The rename, which makes it the release.
LEMMA RenameKeeps == ASSUME ReleaseInv, Rename PROVE ReleaseInv'
<1>0. ReleaseNext
  BY DEF ReleaseNext
<1>1. /\ stage = "rename" /\ stage' = "idle" /\ UNCHANGED <<selected, hash, undisturbed>>
      /\ partial' = NoDirectory
      /\ final' = [partial EXCEPT !.build = builds, !.undisturbed = undisturbed]
  BY DEF Rename, ReleaserGoes
<1>2. /\ partial \in Directories /\ partial.iso \in Copies /\ partial.iso = hash
      /\ partial.notes \in Notes /\ partial.notes[1] = hash
      /\ partial.sums = <<partial.iso, partial.notes>> /\ partial.signed = partial.sums
      /\ ~partial.torn
  BY <1>1 DEF ReleaseInv, ReleaseTypeOK, Made
<1>3. /\ final' \in Directories /\ final'.undisturbed = undisturbed
      /\ final'.build = builds
      /\ final'.iso = partial.iso /\ final'.notes = partial.notes
      /\ final'.sums = partial.sums /\ final'.signed = partial.signed
  BY <1>1, <1>2 DEF ReleaseInv, ReleaseTypeOK, Directories
<1>4. ReleaseTypeOK'
  BY <1>0, <1>1, <1>3, NoDirectoryType, ReleaserFrame DEF ReleaseInv, ReleaseTypeOK, Stages
<1>5. Made' /\ ReadUndisturbed'
  BY <1>0, <1>1, ReleaserFrame DEF ReleaseInv, Made, ReadUndisturbed
<1>6. SumsSound' /\ Verifies(final)'
  <2>1. partial.sums # Nothing
    BY <1>2 DEF Nothing
  <2>. QED
    BY <1>2, <1>3, <2>1 DEF SumsSound, Verifies
<1>7. ReleaseIsVerifiedBuild'
  <2>. SUFFICES ASSUME undisturbed
                PROVE  /\ hash = <<builds, "whole">> /\ builds \in verified
                       /\ partial.notes[2] = hash
    BY <1>0, <1>2, <1>3, ReleaserFrame DEF ReleaseIsVerifiedBuild
  <2>1. /\ building = "idle" /\ builds \in verified /\ isos[selected] # Nothing
        /\ hash = isos[selected] /\ partial.notes[2] = hash /\ selected \in FileNames
    BY <1>1 DEF ReleaseInv, ReleaseTypeOK, ReadUndisturbed
  <2>2. hash = <<builds, "whole">>
    BY <2>1 DEF ReleaseInv, IsosOfBuild
  <2>. QED
    BY <2>1, <2>2
<1>. QED
  BY <1>0, <1>4, <1>5, <1>6, <1>7, ReleaserFrame DEF ReleaseInv

LEMMA ReleaseInvStep ==
  ReleaseInv /\ [BuilderNext \/ ReleaseNext]_releaseVars => ReleaseInv'
<1>. SUFFICES ASSUME ReleaseInv, [BuilderNext \/ ReleaseNext]_releaseVars PROVE ReleaseInv'
  OBVIOUS
<1>1. CASE UNCHANGED releaseVars
  BY <1>1
  DEF releaseVars, builder, releaser, ReleaseInv, ReleaseTypeOK, VerifiedAtEnd, IsosOfBuild,
      Made, ReadUndisturbed, SumsSound, Verifies, ReleaseIsVerifiedBuild
<1>2. CASE BuilderNext
  BY <1>2, BuilderKeeps
<1>3. CASE ReleaseNext
  BY <1>3, ChecksKeeps, RemovalKeeps, MakingKeeps, RenameKeeps DEF ReleaseNext, Making
<1>. QED
  BY <1>1, <1>2, <1>3

-----------------------------------------------------------------------------
(* The theorems.                                                           *)

\* What lies in the place of the finished release verifies and speaks of one ISO, or is
\* marked by a removal that was broken off, for any number of builds that replace the ISO
\* while it is read.
THEOREM ReleaseWhole == ReleaseSpec => []ReleaseIsWhole
<1>1. ReleaseInv => ReleaseIsWhole
  <2>. SUFFICES ASSUME ReleaseInv, Verifies(final) PROVE final.notes[1] = final.iso
    BY DEF ReleaseInv, ReleaseIsWhole
  <2>. QED
    BY DEF ReleaseInv, SumsSound, Verifies
<1>. QED
  BY <1>1, ReleaseInitInv, ReleaseInvStep, PTL DEF ReleaseSpec

\* A release during which no build began, after one that ended well, holds the ISO of that
\* build and names its size.
THEOREM ReleaseVerifiedBuild == ReleaseSpec => []ReleaseIsVerifiedBuild
<1>1. ReleaseInv => ReleaseIsVerifiedBuild
  BY DEF ReleaseInv
<1>. QED
  BY <1>1, ReleaseInitInv, ReleaseInvStep, PTL DEF ReleaseSpec

-----------------------------------------------------------------------------
(* PNG: decoding undoes every filter.                                      *)

Less == {ss \in Nat \X Nat : ss[1] < ss[2]}

\* Every set of numbers has a least one.
LEMMA NatMin == \A S \in SUBSET Nat : S # {} => \E n \in S : \A m \in S : n <= m
<1>. SUFFICES ASSUME NEW S \in SUBSET Nat, S # {}
              PROVE \E n \in S : \A m \in S : n <= m
  OBVIOUS
<1>1. IsWellFoundedOn(Less, Nat)
  BY NatLessThanWellFounded DEF OpToRel, Less
<1>2. PICK n \in S : \A m \in S : ~(<<m, n>> \in Less)
  BY <1>1, WFMin
<1>3. ASSUME NEW m \in S PROVE n <= m
  <2>1. n \in Nat /\ m \in Nat
    OBVIOUS
  <2>2. ~(m < n)
    BY <1>2, <2>1 DEF Less
  <2>. QED
    BY <2>1, <2>2
<1>. QED
  BY <1>3

\* A multiple of n nearer to 0 than n is 0.
LEMMA NoMultiple ==
  ASSUME NEW n \in Nat \ {0}, NEW k \in Int, n * k < n, -n < n * k
  PROVE  k = 0
<1>1. CASE k >= 1
  <2>1. PICK j \in Nat : k = j + 1
    <3>1. k - 1 \in Nat /\ k = (k - 1) + 1
      BY <1>1
    <3>. QED
      BY <3>1
  <2>2. n * k = n * j + n /\ n * j >= 0
    BY <2>1
  <2>. QED
    BY <2>2
<1>2. CASE k <= -1
  <2>1. PICK j \in Nat : k = -j - 1
    <3>1. -k - 1 \in Nat /\ k = -(-k - 1) - 1
      BY <1>2
    <3>. QED
      BY <3>1
  <2>2. n * k = -(n * j) - n /\ n * j >= 0
    BY <2>1
  <2>. QED
    BY <2>2
<1>. QED
  BY <1>1, <1>2

\* What division by a positive number is.
LEMMA Division ==
  ASSUME NEW n \in Nat \ {0}, NEW z \in Int
  PROVE  /\ z \div n \in Int /\ z % n \in Int
         /\ z = n * (z \div n) + (z % n)
         /\ 0 <= z % n /\ z % n < n
OBVIOUS

\* What the encoder subtracts the decoder adds, around the end of a byte too.
LEMMA AddBack ==
  ASSUME NEW v \in Bytes, NEW p \in Int
  PROVE  /\ (v - p) % Levels \in Bytes
         /\ (((v - p) % Levels) + p) % Levels = v
<1>. DEFINE n == Levels
            w == ((v - p) % n) + p
<1>1. n \in Nat \ {0} /\ v \in Int /\ 0 <= v /\ v < n
  BY SizeAssumption DEF Bytes
<1>2. /\ (v - p) \div n \in Int /\ (v - p) % n \in Int
      /\ v - p = n * ((v - p) \div n) + ((v - p) % n)
      /\ 0 <= (v - p) % n /\ (v - p) % n < n
  <2>1. v - p \in Int
    BY <1>1
  <2>. QED
    BY <1>1, <2>1, Division
<1>3. /\ w \in Int /\ w \div n \in Int /\ w % n \in Int
      /\ w = n * (w \div n) + (w % n)
      /\ 0 <= w % n /\ w % n < n
  <2>1. w \in Int
    BY <1>2
  <2>. QED
    BY <1>1, <2>1, Division
<1>. DEFINE q == (v - p) \div n
            r == w \div n
<1>4. v - (w % n) = n * q + n * r
  BY <1>1, <1>2, <1>3
<1>. HIDE DEF q, r, w
<1>5. n * q + n * r = n * (q + r) /\ q \in Int /\ r \in Int
  BY <1>1, <1>2, <1>3 DEF q, r
<1>6. n * (q + r) < n /\ -n < n * (q + r)
  BY <1>1, <1>3, <1>4, <1>5
<1>7. q + r = 0
  BY <1>1, <1>5, <1>6, NoMultiple
<1>8. n * (q + r) = 0
  BY <1>1, <1>7
<1>9. v = w % n
  BY <1>1, <1>3, <1>4, <1>5, <1>8
<1>10. (v - p) % n \in Bytes
  BY <1>1, <1>2 DEF Bytes
<1>. QED
  BY <1>9, <1>10 DEF w

\* The predictor of the code is that of the standard, ties included.
LEMMA PaethIsStandard ==
  ASSUME NEW a \in Int, NEW b \in Int, NEW c \in Int
  PROVE  Paeth(a, b, c) = StandardPaeth(a, b, c)
<1>. DEFINE Best(v) ==
              /\ \A w \in {a, b, c} : Distance(a + b - c, v) <= Distance(a + b - c, w)
              /\ v # a => Distance(a + b - c, a) > Distance(a + b - c, v)
              /\ v \notin {a, b} => Distance(a + b - c, b) > Distance(a + b - c, v)
<1>1. Paeth(a, b, c) \in {a, b, c} /\ Best(Paeth(a, b, c))
  BY DEF Paeth, Distance
<1>2. ASSUME NEW v \in {a, b, c}, NEW w \in {a, b, c}, Best(v), Best(w) PROVE v = w
  BY <1>2 DEF Distance
<1>3. StandardPaeth(a, b, c) = CHOOSE v \in {a, b, c} : Best(v)
  BY DEF StandardPaeth
<1>. HIDE DEF Best
<1>. QED
  BY <1>1, <1>2, <1>3

\* A prediction is a number, and the one of the standard.
LEMMA PredictionType ==
  ASSUME NEW filter \in Filters, NEW a \in Bytes, NEW b \in Bytes, NEW c \in Bytes
  PROVE  /\ Prediction(filter, a, b, c) \in Int
         /\ StandardPrediction(filter, a, b, c) = Prediction(filter, a, b, c)
<1>1. a \in Int /\ b \in Int /\ c \in Int /\ (a + b) \div 2 \in Int
  BY SizeAssumption DEF Bytes
<1>2. Paeth(a, b, c) \in Int
  BY <1>1 DEF Paeth
<1>3. Prediction(filter, a, b, c) \in Int
  BY <1>1, <1>2 DEF Prediction, Filters
<1>4. CASE filter = "paeth"
  BY <1>1, <1>3, <1>4, PaethIsStandard DEF StandardPrediction, Prediction
<1>5. CASE filter # "paeth"
  BY <1>3, <1>5 DEF StandardPrediction
<1>. QED
  BY <1>3, <1>4, <1>5

\* The neighbours a prediction is made from are bytes and rows, at the edges too.
LEMMA LeftType ==
  ASSUME NEW line \in Line, NEW x \in Xs
  PROVE  Left(line, x) \in Bytes
<1>1. x \in Int /\ 0 \in Bytes
  BY SizeAssumption DEF Xs, Bytes
<1>2. x # 0 => x - 1 \in Xs
  BY SizeAssumption DEF Xs
<1>. QED
  BY <1>1, <1>2 DEF Left, Line

\* One row: what UnfilteredLine makes of a filtered row is the row.
LEMMA LineDecodes ==
  ASSUME NEW filter \in Filters, NEW line \in Line, NEW above \in Line
  PROVE  UnfilteredLine(filter, Filtered(filter, line, above).line, above) = line
<1>. DEFINE e == Filtered(filter, line, above).line
            NextByte(before, x) ==
              (e[x] + Prediction(filter, before, above[x], Left(above, x))) % Levels
            IsDecoded(f) == f = [x \in Xs |-> NextByte(IF x = 0 THEN 0 ELSE f[x - 1], x)]
<1>1. ASSUME NEW x \in Xs PROVE NextByte(Left(line, x), x) = line[x]
  <2>1. Left(line, x) \in Bytes /\ Left(above, x) \in Bytes /\ above[x] \in Bytes /\ line[x] \in Bytes
    BY LeftType DEF Line
  <2>. DEFINE p == Prediction(filter, Left(line, x), above[x], Left(above, x))
  <2>2. p \in Int /\ StandardPrediction(filter, Left(line, x), above[x], Left(above, x)) = p
    BY <2>1, PredictionType
  <2>3. e[x] = (line[x] - p) % Levels
    BY <2>2 DEF Filtered
  <2>. HIDE DEF e, p
  <2>4. (((line[x] - p) % Levels) + p) % Levels = line[x]
    BY <2>1, <2>2, AddBack
  <2>. QED
    BY <2>3, <2>4 DEF p
<1>. HIDE DEF NextByte
<1>2. IsDecoded(line)
  <2>1. \A x \in Xs : line[x] = NextByte(IF x = 0 THEN 0 ELSE line[x - 1], x)
    BY <1>1 DEF Left
  <2>. QED
    BY <2>1 DEF Line
<1>3. ASSUME NEW f, IsDecoded(f) PROVE f = line
  <2>. DEFINE Bad == {x \in Xs : f[x] # line[x]}
  <2>1. Bad = {}
    <3>. SUFFICES ASSUME Bad # {} PROVE FALSE
      OBVIOUS
    <3>1. Bad \in SUBSET Nat
      BY SizeAssumption DEF Xs
    <3>2. PICK x \in Bad : \A y \in Bad : x <= y
      BY <3>1, NatMin
    <3>3. x \in Xs /\ f[x] # line[x]
      BY <3>2
    <3>4. x # 0 => x - 1 \in Xs /\ ~ (x <= x - 1)
      BY <3>3, SizeAssumption DEF Xs
    <3>5. x # 0 => f[x - 1] = line[x - 1]
      BY <3>2, <3>4
    <3>6. f[x] = NextByte(IF x = 0 THEN 0 ELSE f[x - 1], x)
      BY <1>3, <3>3
    <3>7. f[x] = NextByte(Left(line, x), x)
      BY <3>5, <3>6 DEF Left
    <3>. QED
      BY <1>1, <3>3, <3>7
  <2>2. f \in [Xs -> {f[x] : x \in Xs}]
    BY <1>3
  <2>. QED
    BY <2>1, <2>2 DEF Line
<1>4. UnfilteredLine(filter, e, above) = CHOOSE f : IsDecoded(f)
  BY DEF UnfilteredLine, NextByte
<1>. HIDE DEF IsDecoded, e
<1>. QED
  BY <1>2, <1>3, <1>4 DEF e

LEMMA AboveType ==
  ASSUME NEW picture \in Pictures, NEW y \in Ys
  PROVE  Above(picture, y) \in Line
<1>1. [x \in Xs |-> 0] \in Line
  BY SizeAssumption DEF Line, Bytes
<1>2. y # 0 => y - 1 \in Ys
  BY SizeAssumption DEF Ys
<1>. QED
  BY <1>1, <1>2 DEF Above, Pictures

\* read_png gives back every picture, whatever filter an encoder has picked for each of its
\* rows, for every size and number of levels (pngio.py, _unfilter).
THEOREM PngDecodes ==
  \A picture \in Pictures, filters \in [Ys -> Filters] : DecodeIsInverse(picture, filters)
<1>. SUFFICES ASSUME NEW picture \in Pictures, NEW filters \in [Ys -> Filters]
              PROVE  Unfilter(Encode(picture, filters)) = picture
  BY DEF DecodeIsInverse
<1>. DEFINE raw == Encode(picture, filters)
            NextRow(above, y) == UnfilteredLine(raw[y].filter, raw[y].line, above)
            IsDecoded(f) == f = [y \in Ys |-> NextRow(IF y = 0 THEN [x \in Xs |-> 0] ELSE f[y - 1], y)]
<1>1. ASSUME NEW y \in Ys PROVE NextRow(Above(picture, y), y) = picture[y]
  <2>1. raw[y] = Filtered(filters[y], picture[y], Above(picture, y))
    BY DEF Encode
  <2>2. raw[y].filter = filters[y]
    BY <2>1 DEF Filtered
  <2>3. filters[y] \in Filters /\ picture[y] \in Line /\ Above(picture, y) \in Line
    BY AboveType DEF Pictures
  <2>. HIDE DEF raw
  <2>. QED
    BY <2>1, <2>2, <2>3, LineDecodes
<1>. HIDE DEF NextRow
<1>2. IsDecoded(picture)
  <2>1. \A y \in Ys : picture[y] = NextRow(IF y = 0 THEN [x \in Xs |-> 0] ELSE picture[y - 1], y)
    BY <1>1 DEF Above
  <2>. QED
    BY <2>1 DEF Pictures
<1>3. ASSUME NEW f, IsDecoded(f) PROVE f = picture
  <2>. DEFINE Bad == {y \in Ys : f[y] # picture[y]}
  <2>1. Bad = {}
    <3>. SUFFICES ASSUME Bad # {} PROVE FALSE
      OBVIOUS
    <3>1. Bad \in SUBSET Nat
      BY SizeAssumption DEF Ys
    <3>2. PICK y \in Bad : \A x \in Bad : y <= x
      BY <3>1, NatMin
    <3>3. y \in Ys /\ f[y] # picture[y]
      BY <3>2
    <3>4. y # 0 => y - 1 \in Ys /\ ~ (y <= y - 1)
      BY <3>3, SizeAssumption DEF Ys
    <3>5. y # 0 => f[y - 1] = picture[y - 1]
      BY <3>2, <3>4
    <3>6. f[y] = NextRow(IF y = 0 THEN [x \in Xs |-> 0] ELSE f[y - 1], y)
      BY <1>3, <3>3
    <3>7. f[y] = NextRow(Above(picture, y), y)
      BY <3>5, <3>6 DEF Above
    <3>. QED
      BY <1>1, <3>3, <3>7
  <2>2. f \in [Ys -> {f[y] : y \in Ys}]
    BY <1>3
  <2>. QED
    BY <2>1, <2>2 DEF Pictures
<1>4. Unfilter(raw) = CHOOSE f : IsDecoded(f)
  BY DEF Unfilter, NextRow
<1>. HIDE DEF IsDecoded, raw
<1>. QED
  BY <1>2, <1>3, <1>4 DEF raw

-----------------------------------------------------------------------------
(* The comparison of two pictures.                                         *)

\* Two rows, or two pictures, that are not the same differ in a pixel.
LEMMA SamePixels ==
  /\ \A s, t \in Line : s = t <=> \A x \in Xs : s[x] = t[x]
  /\ \A a, b \in Pictures : a = b <=> \A x \in Xs, y \in Ys : a[y][x] = b[y][x]
<1>1. \A s, t \in Line : s = t <=> \A x \in Xs : s[x] = t[x]
  BY DEF Line
<1>2. ASSUME NEW a \in Pictures, NEW b \in Pictures,
             \A x \in Xs, y \in Ys : a[y][x] = b[y][x]
      PROVE  a = b
  <2>1. \A y \in Ys : a[y] \in Line /\ b[y] \in Line
    BY DEF Pictures
  <2>2. \A y \in Ys : a[y] = b[y]
    BY <1>1, <1>2, <2>1
  <2>. QED
    BY <2>2 DEF Pictures
<1>. QED
  BY <1>1, <1>2

\* Pixels are numbers, and at distance 0 just when they are the same.
LEMMA FarApart ==
  ASSUME NEW a \in Pictures, NEW b \in Pictures, NEW x \in Xs, NEW y \in Ys
  PROVE  /\ a[y][x] \in Int /\ b[y][x] \in Int
         /\ Distance(a[y][x], b[y][x]) \in Nat
         /\ Distance(a[y][x], b[y][x]) = 0 <=> a[y][x] = b[y][x]
<1>1. a[y][x] \in Bytes /\ b[y][x] \in Bytes
  BY DEF Pictures, Line
<1>2. a[y][x] \in Int /\ b[y][x] \in Int
  BY <1>1, SizeAssumption DEF Bytes
<1>. DEFINE v == a[y][x]
            w == b[y][x]
<1>. HIDE DEF v, w
<1>3. v \in Int /\ w \in Int => Distance(v, w) \in Nat /\ (Distance(v, w) = 0 <=> v = w)
  BY DEF Distance
<1>. QED
  BY <1>2, <1>3 DEF v, w

\* The differing pixels are finitely many, and are those farther apart than the tolerance.
LEMMA PixelsAre ==
  ASSUME NEW a \in Pictures, NEW b \in Pictures, NEW tolerance \in Nat, NEW masks
  PROVE  /\ DifferingPixels(a, b, tolerance, masks) =
              {p \in Xs \X Ys : Differs(a, b, tolerance, masks, p[1], p[2])}
         /\ IsFiniteSet(DifferingPixels(a, b, tolerance, masks))
         /\ Cardinality(DifferingPixels(a, b, tolerance, masks)) \in Nat
         /\ Cardinality(DifferingPixels(a, b, tolerance, masks)) = 0
              <=> DifferingPixels(a, b, tolerance, masks) = {}
<1>. DEFINE D == DifferingPixels(a, b, tolerance, masks)
<1>1. ASSUME NEW p \in Xs \X Ys, Differs(a, b, tolerance, masks, p[1], p[2])
      PROVE  a[p[2]] # b[p[2]]
  <2>1. p[1] \in Xs /\ p[2] \in Ys
    OBVIOUS
  <2>2. Distance(a[p[2]][p[1]], b[p[2]][p[1]]) > tolerance
    BY <1>1 DEF Differs
  <2>3. a[p[2]][p[1]] # b[p[2]][p[1]]
    BY <2>1, <2>2, FarApart
  <2>. QED
    BY <2>3
<1>2. D = {p \in Xs \X Ys : Differs(a, b, tolerance, masks, p[1], p[2])}
  BY <1>1 DEF DifferingPixels
<1>3. IsFiniteSet(Xs) /\ IsFiniteSet(Ys)
  BY FS_Interval, SizeAssumption DEF Xs, Ys
<1>4. IsFiniteSet(Xs \X Ys) /\ D \subseteq Xs \X Ys
  BY <1>2, <1>3, FS_Product
<1>5. IsFiniteSet(D)
  BY <1>4, FS_Subset
<1>. HIDE DEF D
<1>6. Cardinality(D) \in Nat /\ (Cardinality(D) = 0 <=> D = {})
  BY <1>5, FS_CardinalityType, FS_EmptySet
<1>. QED
  BY <1>2, <1>5, <1>6 DEF D

\* With tolerance and limit 0 a comparison passes when nothing outside the masks differs.
LEMMA PassedExactly ==
  ASSUME NEW a \in Pictures, NEW b \in Pictures, NEW masks
  PROVE  Passed(a, b, 0, 0, masks) <=> AgreeOutside(a, b, masks)
<1>. DEFINE D == DifferingPixels(a, b, 0, masks)
<1>1. D = {p \in Xs \X Ys : Differs(a, b, 0, masks, p[1], p[2])}
      /\ Cardinality(D) \in Nat /\ (Cardinality(D) = 0 <=> D = {})
  <2>1. 0 \in Nat
    OBVIOUS
  <2>. QED
    BY <2>1, PixelsAre
<1>. HIDE DEF D
<1>2. Passed(a, b, 0, 0, masks) <=> D = {}
  <2>1. Columns \in Nat /\ Rows \in Nat
    BY SizeAssumption
  <2>2. 0 * Columns * Rows = 0
    BY <2>1
  <2>3. Passed(a, b, 0, 0, masks) <=> Cardinality(D) * 10000 <= 0
    BY <2>2 DEF Passed, D
  <2>. QED
    BY <1>1, <2>3
<1>3. ASSUME NEW x \in Xs, NEW y \in Ys
      PROVE  Differs(a, b, 0, masks, x, y) <=> ~(Masked(masks, x, y) \/ a[y][x] = b[y][x])
  <2>1. Distance(a[y][x], b[y][x]) \in Nat /\ (Distance(a[y][x], b[y][x]) = 0 <=> a[y][x] = b[y][x])
    BY FarApart
  <2>. QED
    BY <2>1 DEF Differs
<1>4. ASSUME NEW x \in Xs, NEW y \in Ys
      PROVE  <<x, y>> \in D <=> Differs(a, b, 0, masks, x, y)
  BY <1>1
<1>5. \A p \in D : p[1] \in Xs /\ p[2] \in Ys /\ p = <<p[1], p[2]>>
  BY <1>1
<1>6. D = {} <=> \A x \in Xs, y \in Ys : ~Differs(a, b, 0, masks, x, y)
  <2>1. ASSUME NEW p \in D PROVE Differs(a, b, 0, masks, p[1], p[2])
    BY <1>4, <1>5
  <2>2. D = {} => \A x \in Xs, y \in Ys : ~Differs(a, b, 0, masks, x, y)
    BY <1>4
  <2>3. (\A x \in Xs, y \in Ys : ~Differs(a, b, 0, masks, x, y)) => D = {}
    BY <1>5, <2>1
  <2>. QED
    BY <2>2, <2>3
<1>. QED
  BY <1>2, <1>3, <1>6 DEF AgreeOutside

\* A scanline is made of its row and the row above.
LEMMA ScanlineOf ==
  ASSUME NEW a \in Pictures, NEW b \in Pictures, NEW y \in Ys,
         a[y] = b[y], y # 0 => a[y - 1] = b[y - 1]
  PROVE  Scanlines(a)[y] = Scanlines(b)[y]
<1>1. Above(a, y) = Above(b, y)
  BY DEF Above
<1>. QED
  BY <1>1, Zenon DEF Scanlines

\* A masked pixel explains its own scanline and the next one.
LEMMA MaskExplains ==
  ASSUME NEW masks \in SUBSET Rects, NEW x \in Xs, NEW y \in Ys, Masked(masks, x, y)
  PROVE  Explained(masks, y) /\ Explained(masks, y + 1)
<1>1. PICK mask \in masks : mask.y0 <= y /\ y < mask.y1
  BY DEF Masked, Inside
<1>2. mask.y0 \in Int /\ mask.y1 \in Int /\ y \in Int
  BY SizeAssumption DEF Rects, Ys
<1>3. y <= mask.y1 /\ mask.y0 <= y + 1 /\ y + 1 <= mask.y1
  BY <1>1, <1>2
<1>. QED
  BY <1>1, <1>3 DEF Explained

\* The filtered scanlines decide nothing the pixels do not: frames_match holds exactly when
\* every pixel outside the masks is the same, for every size, picture and set of masks
\* (runner.py, frames_match).
THEOREM FramesMatchIsExact ==
  \A a, b \in Pictures, masks \in SUBSET Rects : MatchIsExact(a, b, masks)
<1>. SUFFICES ASSUME NEW a \in Pictures, NEW b \in Pictures, NEW masks \in SUBSET Rects
              PROVE  MatchIsExact(a, b, masks)
  OBVIOUS
<1>. DEFINE Same == AgreeOutside(a, b, masks)
<1>1. Passed(a, b, 0, 0, masks) <=> Same
  BY PassedExactly
<1>2. a = b => Same
  BY DEF AgreeOutside
<1>3. ASSUME Same, masks = {} PROVE a = b
  <2>1. \A x \in Xs, y \in Ys : ~Masked(masks, x, y)
    BY <1>3 DEF Masked
  <2>. QED
    BY <1>3, <2>1, SamePixels DEF AgreeOutside
<1>4. ASSUME Same PROVE ~DiffersOutsideMaskRows(a, b, masks)
  <2>. SUFFICES ASSUME NEW y \in Ys, ~Explained(masks, y)
                PROVE  Scanlines(a)[y] = Scanlines(b)[y]
    BY DEF DiffersOutsideMaskRows
  <2>1. a[y] = b[y]
    <3>1. \A x \in Xs : a[y][x] = b[y][x]
      BY <1>4, MaskExplains DEF AgreeOutside
    <3>. QED
      BY <3>1, SamePixels DEF Pictures
  <2>2. ASSUME y # 0 PROVE a[y - 1] = b[y - 1]
    <3>1. y - 1 \in Ys /\ (y - 1) + 1 = y
      BY <2>2, SizeAssumption DEF Ys
    <3>2. \A x \in Xs : ~Masked(masks, x, y - 1)
      BY <3>1, MaskExplains
    <3>3. \A x \in Xs : a[y - 1][x] = b[y - 1][x]
      BY <1>4, <3>1, <3>2 DEF AgreeOutside
    <3>. QED
      BY <3>1, <3>3, SamePixels DEF Pictures
  <2>. QED
    BY <2>1, <2>2, ScanlineOf
<1>. QED
  BY <1>1, <1>2, <1>3, <1>4 DEF MatchIsExact, FramesMatch

\* A set of numbers below a bound has a largest and a smallest one.
LEMMA Extremes ==
  ASSUME NEW n \in Nat, NEW S \in SUBSET (0 .. n), S # {}
  PROVE  \A x \in S : Min(S) <= x /\ x <= Max(S)
<1>. DEFINE T == {k \in 0 .. n : n - k \in S}
<1>1. S \in SUBSET Nat /\ T \in SUBSET Nat
  OBVIOUS
<1>2. PICK least \in S : \A x \in S : least <= x
  BY <1>1, NatMin
<1>3. \A x \in S : n - x \in T /\ n - (n - x) = x
  OBVIOUS
<1>4. T # {}
  BY <1>3
<1>5. PICK far \in T : \A k \in T : far <= k
  BY <1>1, <1>4, NatMin
<1>6. n - far \in S /\ far \in 0 .. n
  BY <1>5
<1>7. ASSUME NEW x \in S PROVE n - far >= x
  <2>1. far <= n - x
    BY <1>3, <1>5
  <2>2. x \in Int /\ far \in Int
    BY <1>6
  <2>. QED
    BY <2>1, <2>2
<1>8. \A x \in S : Min(S) <= x
  BY <1>2 DEF Min
<1>9. \A x \in S : Max(S) >= x
  BY <1>6, <1>7 DEF Max
<1>10. Max(S) \in S
  BY <1>6, <1>7 DEF Max
<1>11. \A x \in S : x <= Max(S)
  BY <1>1, <1>9, <1>10
<1>. QED
  BY <1>8, <1>11

\* The picture of a difference shows what the verdict counted, for every two pictures,
\* every tolerance, limit and set of masks (diff.py, write_diff_image).
THEOREM DiffShowsTheVerdict ==
  \A a, b \in Pictures, tolerance, limit \in Nat, masks \in SUBSET Rects :
    DiffShowsVerdict(a, b, tolerance, limit, masks)
<1>. SUFFICES ASSUME NEW a \in Pictures, NEW b \in Pictures,
                     NEW tolerance \in Nat, NEW limit \in Nat, NEW masks \in SUBSET Rects
              PROVE  DiffShowsVerdict(a, b, tolerance, limit, masks)
  OBVIOUS
<1>. DEFINE D == DifferingPixels(a, b, tolerance, masks)
            red == {p \in Xs \X Ys : Paint(a, b, tolerance, masks, p[1], p[2]) = "red"}
            box == BoundingBox(D)
<1>1. /\ D = {p \in Xs \X Ys : Differs(a, b, tolerance, masks, p[1], p[2])}
      /\ Cardinality(D) \in Nat /\ (Cardinality(D) = 0 <=> D = {})
  BY PixelsAre
<1>. HIDE DEF D
<1>2. red = D
  <2>1. \A x, y : Paint(a, b, tolerance, masks, x, y) = "red" <=> Differs(a, b, tolerance, masks, x, y)
    BY DEF Paint, Differs
  <2>. QED
    BY <1>1, <2>1
<1>3. ~Passed(a, b, tolerance, limit, masks) => D # {}
  <2>1. Columns \in Nat /\ Rows \in Nat
    BY SizeAssumption
  <2>2. limit * Columns \in Nat
    BY <2>1
  <2>3. limit * Columns * Rows \in Nat
    BY <2>1, <2>2
  <2>. QED
    BY <1>1, <2>3 DEF Passed, D
<1>4. ASSUME NEW p \in D
      PROVE  box[1] <= p[1] /\ p[1] <= box[3] /\ box[2] <= p[2] /\ p[2] <= box[4]
  <2>. DEFINE xs == {q[1] : q \in D}
              ys == {q[2] : q \in D}
  <2>1. box = <<Min(xs), Min(ys), Max(xs), Max(ys)>>
    BY DEF BoundingBox
  <2>2. Columns - 1 \in Nat /\ Rows - 1 \in Nat
    BY SizeAssumption
  <2>3. /\ p[1] \in xs /\ p[2] \in ys
        /\ xs \subseteq 0 .. Columns - 1 /\ ys \subseteq 0 .. Rows - 1
    BY <1>1 DEF Xs, Ys
  <2>. HIDE DEF xs, ys
  <2>4. Min(xs) <= p[1] /\ p[1] <= Max(xs)
    BY <2>2, <2>3, Extremes
  <2>5. Min(ys) <= p[2] /\ p[2] <= Max(ys)
    BY <2>2, <2>3, Extremes
  <2>. HIDE DEF box
  <2>. QED
    BY <2>1, <2>4, <2>5
<1>. HIDE DEF red, box
<1>5. red = D /\ (~Passed(a, b, tolerance, limit, masks) => red # {})
      /\ \A p \in red : box[1] <= p[1] /\ p[1] <= box[3] /\ box[2] <= p[2] /\ p[2] <= box[4]
  BY <1>2, <1>3, <1>4
<1>. QED
  BY <1>5 DEF DiffShowsVerdict, red, box, D

-----------------------------------------------------------------------------
(* The states file: a step that is let through can be carried out.         *)

\* A product is ordered as its factors are.
LEMMA Monotone ==
  ASSUME NEW n \in Nat, NEW p \in Int, NEW q \in Int, p <= q
  PROVE  n * p <= n * q /\ n * p \in Int /\ n * q \in Int
<1>1. PICK d \in Nat : q = p + d
  <2>1. q - p \in Nat /\ q = p + (q - p)
    OBVIOUS
  <2>. QED
    BY <2>1
<1>2. n * q = n * p + n * d /\ n * d >= 0 /\ n * p \in Int
  BY <1>1
<1>. QED
  BY <1>2

\* abs_value stays on the axis of the tablet.
LEMMA AbsValueOnAxis ==
  ASSUME NEW size \in Nat, size >= 2, NEW c \in 0 .. size - 1
  PROVE  AbsValue(c, size) \in 0 .. AxisMax
<1>. DEFINE m == size - 1
            n == 2 * m
            z == 2 * c * AxisMax + m
            q == z \div n
<1>1. AxisMax \in Nat /\ m \in Nat \ {0} /\ n \in Nat \ {0} /\ c \in Nat /\ c <= m
  BY ScreenAssumption
<1>2. AxisMax * c <= AxisMax * m /\ AxisMax * c \in Int /\ AxisMax * m \in Int
  BY <1>1, Monotone
<1>3. AxisMax * c >= 0 /\ 2 * c * AxisMax = 2 * (AxisMax * c)
  BY <1>1
<1>4. z \in Int /\ 0 <= z /\ z <= 2 * (AxisMax * m) + m
  BY <1>1, <1>2, <1>3
<1>5. q \in Int /\ z % n \in Int /\ z = n * q + (z % n) /\ 0 <= z % n /\ z % n < n
  BY <1>1, <1>4, Division
<1>6. n * AxisMax = 2 * (AxisMax * m) /\ n * AxisMax \in Int
  BY <1>1
<1>. HIDE DEF q, z
<1>7. q >= 0
  <2>. SUFFICES ASSUME q <= -1 PROVE FALSE
    BY <1>5
  <2>1. n * q <= n * (-1)
    BY <1>1, <1>5, Monotone
  <2>2. n * (-1) = -n
    BY <1>1
  <2>. QED
    BY <1>1, <1>4, <1>5, <2>1, <2>2
<1>8. q <= AxisMax
  <2>. SUFFICES ASSUME AxisMax + 1 <= q PROVE FALSE
    BY <1>1, <1>5
  <2>1. n * (AxisMax + 1) <= n * q
    BY <1>1, <1>5, Monotone
  <2>2. n * (AxisMax + 1) = n * AxisMax + n
    BY <1>1
  <2>. HIDE DEF n
  <2>3. n * q >= 2 * (AxisMax * m) + n /\ n * q \in Int
    BY <1>1, <1>5, <1>6, <2>1, <2>2
  <2>4. n = 2 * m
    BY DEF n
  <2>. QED
    BY <1>1, <1>2, <1>4, <1>5, <2>3, <2>4
<1>9. AbsValue(c, size) = q
  BY DEF AbsValue, q, z
<1>. QED
  BY <1>1, <1>5, <1>7, <1>8, <1>9

\* A chord of as many keys as names presses none of them twice.
LEMMA ChordIsInjective ==
  ASSUME NEW parts \in Seq(STRING), DistinctModifiers(parts)
  PROVE  IsInjective(ParseChord(parts))
<1>. DEFINE chord == ParseChord(parts)
            keys == {Qcode(p) : p \in ToSet(parts)}
            I == 1 .. Len(parts)
<1>1. Len(parts) \in Nat /\ DOMAIN parts = I /\ chord = [i \in I |-> Qcode(parts[i])]
  BY DEF ParseChord
<1>2. keys = {Qcode(parts[i]) : i \in I}
  BY <1>1 DEF ToSet
<1>. HIDE DEF keys, chord
<1>3. chord \in Surjection(I, keys)
  BY <1>1, <1>2 DEF Surjection
<1>4. IsFiniteSet(I) /\ Cardinality(I) = Len(parts)
  <2>1. /\ IsFiniteSet(1 .. Len(parts))
        /\ Cardinality(1 .. Len(parts)) = IF 1 > Len(parts) THEN 0 ELSE Len(parts) - 1 + 1
    BY <1>1, FS_Interval
  <2>. QED
    BY <1>1, <2>1
<1>5. Cardinality(keys) = Len(parts)
  BY DEF DistinctModifiers, keys
<1>6. chord \in Injection(I, keys)
  BY <1>3, <1>4, <1>5, FS_SurjSameCardinalityImpliesInj
<1>7. IsInjective(chord)
  BY <1>1, <1>6 DEF Injection
<1>. QED
  BY <1>7 DEF chord

\* No chord of a text presses a key twice.
LEMMA TextIsInjective ==
  ASSUME NEW chars \in Seq(STRING), NEW i \in DOMAIN chars
  PROVE  IsInjective(TextToChords(chars)[i])
<1>1. TextToChords(chars)[i] = IF chars[i] = "upper" THEN <<"shift", "lower">> ELSE <<chars[i]>>
  BY DEF TextToChords
<1>2. IsInjective(<<"shift", "lower">>)
  BY DEF IsInjective
<1>3. IsInjective(<<chars[i]>>)
  BY DEF IsInjective
<1>. QED
  BY <1>1, <1>2, <1>3

\* "Validated HERE, before a VM is booted" (states.py): every step the parser lets through
\* can be carried out, whatever its chord, text, coordinates or arguments.
THEOREM AcceptedStepsCanRun ==
  ASSUME NEW step, \A kind \in DOMAIN step : ValueType(step[kind])
  PROVE  AcceptedStepsRun(step)
<1>. SUFFICES ASSUME StepOk(step), NEW kind \in DOMAIN step \cap StepKinds
              PROVE  Performable(kind, step[kind])
  BY DEF AcceptedStepsRun
<1>. DEFINE value == step[kind]
<1>1. ValueOk(kind, value) /\ ValueType(value) /\ kind \in StepKinds
  BY DEF StepOk
<1>. HIDE DEF value
<1>2. CASE kind \in {"move", "click"}
  <2>1. value[2] \in 0 .. Width - 1 /\ value[3] \in 0 .. Height - 1
    BY <1>1, <1>2 DEF ValueOk, CoordinatesOk
  <2>2. AbsValue(value[2], Width) \in 0 .. AxisMax /\ AbsValue(value[3], Height) \in 0 .. AxisMax
    BY <2>1, ScreenAssumption, AbsValueOnAxis
  <2>. QED
    BY <1>2, <2>1, <2>2, ScreenAssumption DEF Performable, value
<1>3. CASE kind = "run"
  <2>1. ArgumentsOk(value)
    BY <1>1, <1>3 DEF ValueOk
  <2>2. value[2] \in Seq(STRING) /\ Len(value[2]) \in 1 .. MaxRunArgs
    BY <1>1, <2>1 DEF ValueType, ArgumentsOk, Is
  <2>3. value[2] # <<>> /\ Len(value[2]) <= MaxRunArgs /\ Head(value[2]) = value[2][1]
    BY <2>2, ScreenAssumption
  <2>4. \A i \in DOMAIN value[2] : value[2][i] # "bad"
    BY <2>1 DEF ArgumentsOk, ToSet
  <2>5. value[2][1] # "a=b"
    BY <2>1, <2>3 DEF ArgumentsOk
  <2>. QED
    BY <1>3, <2>3, <2>4, <2>5 DEF Performable, value
<1>4. CASE kind = "key"
  <2>1. value[2] \in Seq(STRING) /\ DistinctModifiers(value[2])
    BY <1>1, <1>4 DEF ValueOk, ValueType, Is, ChordOk
  <2>2. IsInjective(ParseChord(value[2]))
    BY <2>1, ChordIsInjective
  <2>. QED
    BY <1>4, <2>2 DEF Performable, value
<1>5. CASE kind = "type"
  <2>1. value[2] \in Seq(STRING)
    BY <1>1, <1>5 DEF ValueOk, ValueType, Is
  <2>2. \A i \in DOMAIN value[2] : IsInjective(TextToChords(value[2])[i])
    BY <2>1, TextIsInjective
  <2>. QED
    BY <1>5, <2>2 DEF Performable, value
<1>6. CASE kind = "wait"
  BY <1>1, <1>6 DEF ValueOk, Within, Performable, value
<1>7. CASE kind = "settle"
  BY <1>7 DEF Performable, value
<1>. QED
  BY <1>1, <1>2, <1>3, <1>4, <1>5, <1>6, <1>7 DEF StepKinds, value

-----------------------------------------------------------------------------
(* The states file: its readers agree.                                     *)

\* Of states with names of their own, the last one of a name is the only one.
LEMMA RuleIsOwn ==
  ASSUME NEW S, NEW file, file.states \in Seq(S), FileOk(file), NEW i \in DOMAIN file.states
  PROVE  RuleModes(file, file.states[i].name) = ModesOf(file, file.states[i])
<1>. DEFINE IsLast(k) == /\ file.states[k].name = file.states[i].name
                         /\ \A j \in DOMAIN file.states :
                              file.states[j].name = file.states[i].name => j <= k
<1>1. \A k, j \in DOMAIN file.states : file.states[k].name = file.states[j].name => k = j
  BY DEF FileOk
<1>2. i \in Nat
  OBVIOUS
<1>3. IsLast(i)
  BY <1>1, <1>2
<1>4. \A k \in DOMAIN file.states : IsLast(k) => k = i
  BY <1>1
<1>5. (CHOOSE k \in DOMAIN file.states : IsLast(k)) = i
  BY <1>3, <1>4
<1>. DEFINE last == CHOOSE k \in DOMAIN file.states : IsLast(k)
<1>6. RuleModes(file, file.states[i].name) =
        IF file.states[last].modes = Absent THEN file.modes ELSE ToSet(file.states[last].modes[2])
  BY DEF RuleModes
<1>. HIDE DEF last
<1>7. last = i
  BY <1>5 DEF last
<1>. QED
  BY <1>6, <1>7 DEF ModesOf

\* The modes of a state are some of those of the file, and there are any.
LEMMA ModesAre ==
  ASSUME NEW file, FileOk(file), NEW i \in DOMAIN file.states,
         ValueType(file.states[i].modes)
  PROVE  /\ ModesOf(file, file.states[i]) # {}
         /\ ModesOf(file, file.states[i]) \subseteq file.modes
<1>. DEFINE m == file.states[i].modes
<1>1. StateOk(file.states[i], file.modes) /\ file.modes # {}
  BY DEF FileOk
<1>2. CASE m = Absent
  BY <1>1, <1>2 DEF ModesOf
<1>3. CASE m # Absent
  <2>1. /\ m[1] = "list" /\ m[2] # <<>> /\ ToSet(m[2]) \subseteq file.modes
    BY <1>1, <1>3 DEF StateOk, Is
  <2>2. m[2] \in Seq(STRING)
    BY <2>1 DEF ValueType
  <2>3. 1 \in DOMAIN m[2]
    BY <2>1, <2>2
  <2>4. ToSet(m[2]) # {}
    BY <2>3 DEF ToSet
  <2>. QED
    BY <1>3, <2>1, <2>4 DEF ModesOf
<1>. QED
  BY <1>2, <1>3

\* A table of rules the parser accepts is one load_rules accepts.
LEMMA RulesLoad ==
  ASSUME NEW table, NEW defaults, RulesOk(table), RulesOk(defaults)
  PROVE  RuleValuesOk(table, defaults)
<1>. DEFINE tolerance == Or(table.tolerance, Or(defaults.tolerance, <<"int", 3>>))
            ratio == Or(table.ratio, Or(defaults.ratio, <<"float", 0>>))
            mask == Or(table.mask, Or(defaults.mask, <<"list", <<>>>>))
<1>. DEFINE Limited(v) == v # Absent => Is(v, "int") /\ Within(v, 0, 255)
            Share(v) == v # Absent => Number(v) /\ Within(v, 0, 1)
<1>1. Is(tolerance, "int") /\ Within(tolerance, 0, 255)
  <2>1. Limited(table.tolerance) /\ Limited(defaults.tolerance)
    BY DEF RulesOk
  <2>2. Is(<<"int", 3>>, "int") /\ Within(<<"int", 3>>, 0, 255)
    BY DEF Is, Within
  <2>. QED
    BY <2>1, <2>2, Zenon DEF Or
<1>2. Number(ratio) /\ Within(ratio, 0, 1)
  <2>1. Share(table.ratio) /\ Share(defaults.ratio)
    BY DEF RulesOk
  <2>2. Number(<<"float", 0>>) /\ Within(<<"float", 0>>, 0, 1)
    BY DEF Number, Within
  <2>. QED
    BY <2>1, <2>2, Zenon DEF Or
<1>3. Is(mask, "list") /\ \A k \in DOMAIN mask[2] : RectOk(mask[2][k])
  BY DEF RulesOk, Or, Is
<1>4. ~Is(tolerance, "str") /\ ~Is(ratio, "str")
  BY <1>1, <1>2 DEF Is, Number
<1>5. \A k \in DOMAIN mask[2] :
        LET r == mask[2][k] IN Len(r) = 4 /\ 0 <= r[1] /\ r[1] < r[3] /\ 0 <= r[2] /\ r[2] < r[4]
  BY <1>3 DEF RectOk
<1>. HIDE DEF tolerance, ratio, mask
<1>6. /\ ~Is(tolerance, "str") /\ Within(tolerance, 0, 255)
      /\ ~Is(ratio, "str") /\ Within(ratio, 0, 1)
      /\ Is(mask, "list")
      /\ \A k \in DOMAIN mask[2] :
           LET r == mask[2][k] IN Len(r) = 4 /\ 0 <= r[1] /\ r[1] < r[3] /\ 0 <= r[2] /\ r[2] < r[4]
  BY <1>1, <1>2, <1>3, <1>4, <1>5
<1>. QED
  BY <1>6, Zenon DEF RuleValuesOk, tolerance, ratio, mask

\* A states file the capture side accepts is one the comparison side accepts; both plan the
\* same pairs, a selection is a part of the plan, and every mask lies on the screen
\* (states.py and load_rules in compare.py).
THEOREM FileReadersAlwaysAgree ==
  ASSUME NEW S, NEW file, file.states \in Seq(S),
         \A i \in DOMAIN file.states : ValueType(file.states[i].modes),
         NEW names, NEW modes
  PROVE  ReadersAgree(file, names, modes)
<1>. SUFFICES ASSUME FileOk(file) PROVE ReadersAgree(file, names, modes)
  BY DEF ReadersAgree
<1>. DEFINE all == {file.states[i].name : i \in DOMAIN file.states}
<1>1. RulesOk(file.defaults) /\ \A i \in DOMAIN file.states : RulesOk(file.states[i])
  BY DEF FileOk, StateOk
<1>2. LoadRulesOk(file)
  BY <1>1, RulesLoad DEF LoadRulesOk
<1>3. ASSUME NEW m \in file.modes, NEW i \in DOMAIN file.states
      PROVE  /\ <<m, file.states[i].name>> \in PlanOf(file, NotGiven, NotGiven)
                  <=> m \in ModesOf(file, file.states[i])
             /\ IsCompared(file, m, file.states[i].name) <=> m \in ModesOf(file, file.states[i])
  <2>1. RuleModes(file, file.states[i].name) = ModesOf(file, file.states[i])
        /\ ModesOf(file, file.states[i]) # {}
    BY RuleIsOwn, ModesAre
  <2>2. IsCompared(file, m, file.states[i].name) <=> m \in ModesOf(file, file.states[i])
    BY <2>1 DEF IsCompared
  <2>3. ASSUME m \in ModesOf(file, file.states[i])
        PROVE  <<m, file.states[i].name>> \in PlanOf(file, NotGiven, NotGiven)
    <3>. DEFINE of(k) == {<<n, file.states[k].name>> : n \in ModesOf(file, file.states[k])}
                picked == {j \in DOMAIN file.states :
                             NotGiven = NotGiven \/ file.states[j].name \in NotGiven}
                pair == <<m, file.states[i].name>>
                plan == PlanOf(file, NotGiven, NotGiven)
    <3>1. i \in picked /\ pair \in of(i)
      BY <2>3
    <3>2. pair \in file.modes \X all
      OBVIOUS
    <3>3. plan = (UNION {of(k) : k \in picked}) \cap (file.modes \X all)
      BY DEF PlanOf
    <3>. HIDE DEF picked, of, pair, plan, all
    <3>4. pair \in UNION {of(k) : k \in picked}
      BY <3>1
    <3>5. pair \in plan
      BY <3>2, <3>3, <3>4
    <3>. QED
      BY <3>5 DEF pair, plan
  <2>4. ASSUME <<m, file.states[i].name>> \in PlanOf(file, NotGiven, NotGiven)
        PROVE  m \in ModesOf(file, file.states[i])
    <3>1. PICK k \in DOMAIN file.states :
            \E n \in ModesOf(file, file.states[k]) : <<m, file.states[i].name>> = <<n, file.states[k].name>>
      BY <2>4 DEF PlanOf
    <3>2. file.states[k].name = file.states[i].name /\ m \in ModesOf(file, file.states[k])
      BY <3>1
    <3>3. k = i
      BY <3>2 DEF FileOk
    <3>. QED
      BY <3>2, <3>3
  <2>. QED
    BY <2>2, <2>3, <2>4
<1>4. ASSUME SelectOk(file, names, modes)
      PROVE  PlanOf(file, names, modes) \subseteq PlanOf(file, NotGiven, NotGiven)
  <2>1. (IF modes = NotGiven THEN file.modes ELSE modes) \subseteq file.modes
    BY <1>4 DEF SelectOk
  <2>2. {j \in DOMAIN file.states : names = NotGiven \/ file.states[j].name \in names}
          \subseteq {j \in DOMAIN file.states : NotGiven = NotGiven \/ file.states[j].name \in NotGiven}
    OBVIOUS
  <2>. QED
    BY <2>1, <2>2 DEF PlanOf
<1>5. ASSUME NEW i \in DOMAIN file.states
      PROVE  \A j \in DOMAIN MasksOf(file, file.states[i]) : RectOk(MasksOf(file, file.states[i])[j])
  BY <1>1 DEF MasksOf, RulesOk, Or
<1>. QED
  BY <1>2, <1>3, <1>4, <1>5 DEF ReadersAgree

-----------------------------------------------------------------------------
(* The functions, applied to all inputs of their types.                    *)

\* The input is one of the function's, and a result is what the function makes of it.
FunctionInv ==
  /\ function = "frames" =>
       input \in FrameInputs /\ result \in {<<>>, <<FramesMatch(input.a, input.b, input.masks)>>}
  /\ function = "png" =>
       input \in PngInputs /\ result \in {<<>>, <<Unfilter(Encode(input.picture, input.filters))>>}
  /\ function = "step" => input \in StepInputs
  /\ function = "file" => input \in FileInputs

LEMMA FunctionInitial == FunctionInit => FunctionInv
  BY DEF FunctionInit, FunctionInv

LEMMA FunctionStep == FunctionInv /\ [FunctionNext]_functionVars => FunctionInv'
<1>. SUFFICES ASSUME FunctionInv, [FunctionNext]_functionVars PROVE FunctionInv'
  OBVIOUS
<1>1. function' = function /\ input' = input
  BY DEF FunctionNext, Returns, functionVars
<1>2. CASE UNCHANGED functionVars
  BY <1>2 DEF FunctionInv, functionVars
<1>3. CASE FunctionNext
  <2>1. function = "frames" =>
          result' \in {<<>>, <<FramesMatch(input.a, input.b, input.masks)>>}
    BY <1>3, Zenon DEF FunctionNext, Returns
  <2>2. function = "png" =>
          result' \in {<<>>, <<Unfilter(Encode(input.picture, input.filters))>>}
    BY <1>3, Zenon DEF FunctionNext, Returns
  <2>. QED
    BY <1>1, <2>1, <2>2 DEF FunctionInv
<1>. QED
  BY <1>2, <1>3

LEMMA FunctionAlways == FunctionSpec => []FunctionInv
  BY FunctionInitial, FunctionStep, PTL DEF FunctionSpec

LEMMA PicturesAre == FunctionInv => PicturesExact
<1>. SUFFICES ASSUME FunctionInv PROVE PicturesExact
  OBVIOUS
<1>1. ASSUME function = "frames", result # <<>>
      PROVE  /\ result = <<AgreeOutside(input.a, input.b, input.masks)>>
             /\ DiffShowsVerdict(input.a, input.b, input.tolerance, 5000, input.masks)
  <2>1. /\ input.a \in Pictures /\ input.b \in Pictures
        /\ input.masks \in SUBSET Rects /\ input.tolerance \in Nat
    BY <1>1, FunctionInputsAssumption DEF FunctionInv
  <2>2. MatchIsExact(input.a, input.b, input.masks)
    BY <2>1, FramesMatchIsExact
  <2>3. result = <<FramesMatch(input.a, input.b, input.masks)>>
    BY <1>1 DEF FunctionInv
  <2>4. FramesMatch(input.a, input.b, input.masks) = AgreeOutside(input.a, input.b, input.masks)
    BY <2>2 DEF MatchIsExact, FramesMatch, AgreeOutside
  <2>5. DiffShowsVerdict(input.a, input.b, input.tolerance, 5000, input.masks)
    BY <2>1, DiffShowsTheVerdict
  <2>. QED
    BY <2>3, <2>4, <2>5
<1>2. ASSUME function = "png", result # <<>> PROVE result = <<input.picture>>
  <2>1. input.picture \in Pictures /\ input.filters \in [Ys -> Filters]
    BY <1>2, FunctionInputsAssumption DEF FunctionInv
  <2>2. Unfilter(Encode(input.picture, input.filters)) = input.picture
    BY <2>1, PngDecodes DEF DecodeIsInverse
  <2>. QED
    BY <1>2, <2>2 DEF FunctionInv
<1>. QED
  BY <1>1, <1>2 DEF PicturesExact, ComparisonExact, PngDecoded

\* PicturesExact for every size of a picture, number of levels and set of inputs: read_png
\* undoes the filters, frames_match and compare_images count exactly the pixels outside the
\* masks, and write_diff_image paints those.
THEOREM PicturesAlwaysExact == FunctionSpec => []PicturesExact
  BY FunctionAlways, PicturesAre, PTL

LEMMA StatesAre == FunctionInv => StatesFileSound
<1>. SUFFICES ASSUME FunctionInv PROVE StatesFileSound
  OBVIOUS
<1>1. ASSUME function = "step" PROVE AcceptedStepsRun(input)
  <2>1. \A kind \in DOMAIN input : ValueType(input[kind])
    BY <1>1, FunctionInputsAssumption DEF FunctionInv
  <2>. QED
    BY <2>1, AcceptedStepsCanRun
<1>2. ASSUME function = "file" PROVE ReadersAgree(input.file, input.names, input.modes)
  <2>1. /\ IsSequence(input.file.states)
        /\ \A i \in DOMAIN input.file.states : ValueType(input.file.states[i].modes)
    BY <1>2, FunctionInputsAssumption DEF FunctionInv
  <2>. DEFINE S == {input.file.states[i] : i \in DOMAIN input.file.states}
  <2>2. input.file.states \in Seq(S)
    BY <2>1 DEF IsSequence
  <2>. HIDE DEF S
  <2>. QED
    BY <2>1, <2>2, FileReadersAlwaysAgree
<1>. QED
  BY <1>1, <1>2 DEF StatesFileSound, FileReadersAgree, StepsValidated

\* StatesFileSound for every screen, every step and every file: what states.py lets through,
\* compare.py reads in the same sense, and qmp.py and guest.py can carry out.
THEOREM StatesFileAlwaysSound == FunctionSpec => []StatesFileSound
  BY FunctionAlways, StatesAre, PTL
=============================================================================
