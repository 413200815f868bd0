---------------------------- MODULE MCInstallRun ----------------------------
(***************************************************************************)
(* Instance of the verification of the installed system: the run over two  *)
(* firmware paths (InstallRun), with two modes and a state that is         *)
(* captured in one of them only, and what prepares one path's session      *)
(* (Preparation).  `part` says which of them a behaviour is about; the     *)
(* other one stands still.                                                 *)
(***************************************************************************)
EXTENDS InstallRun, Preparation

VARIABLE part

mcVars == <<allVars, prepVars, part>>

MCPlan == <<<<"light", "s1">>, <<"light", "s2">>, <<"dark", "s1">>>>

NoFragments == [f \in ProductFiles |-> <<>>]
NoPackages == [p \in Packages |-> "none"]

\* The fragments vary, or the packages do, or nothing of the preparation.
MCInit ==
  /\ \/ part = "prepare" /\ snapshot = Packages /\ guestHas = NoPackages
     \/ part = "prepare" /\ fragments = NoFragments
     \/ part = "run" /\ snapshot = Packages /\ guestHas = NoPackages /\ fragments = NoFragments
  /\ part = "prepare" =>
       /\ manifest = "none"
       /\ disks = [f \in Paths |-> "none"]
       /\ shots = [f \in Paths |-> [p \in Pairs |-> "none"]]
       /\ matches = [f \in Paths |-> TRUE]
  /\ InstallInit /\ PrepInit
  /\ part = "run" => ~synced /\ cache = {} /\ home["globals"][<<"A", "k">>] = "product"
                      /\ \A f \in OverlayFiles : system[f] = "product"

MCNext ==
  \/ part = "run" /\ InstallNext /\ UNCHANGED <<prepVars, part>>
  \/ part = "prepare" /\ PrepNext /\ UNCHANGED <<allVars, part>>

MCSpec ==
  /\ MCInit /\ [][MCNext]_mcVars
  /\ WF_mcVars(part = "run" /\ InstallWork /\ UNCHANGED <<prepVars, part>>)

\* Every run ends, on whatever path, by an error or a signal too.
RunsEnd == part = "run" ~> pc = "end"
=============================================================================
