------------------------------ MODULE MCLiveIso -----------------------------
(***************************************************************************)
(* Instance of what is done with the live ISO: it is built and released    *)
(* (Release), and installed from in a VM that then boots the disk          *)
(* (InstallVm).  `part` says which of the two a behaviour is about; the    *)
(* other one stands still.                                                 *)
(***************************************************************************)
EXTENDS InstallVm, Release

VARIABLE part

mcVars == <<vars, releaseVars, part>>

MCInit ==
  /\ part \in {"release", "install"}
  /\ Init /\ ReleaseInit
  /\ part = "install" => isos = [f \in FileNames |-> Nothing] /\ scratch = "none"

MCNext ==
  \/ part = "install" /\ Next /\ UNCHANGED <<releaseVars, part>>
  \/ part = "release" /\ (BuilderNext \/ ReleaseNext) /\ UNCHANGED <<vars, part>>

MCSpec ==
  /\ MCInit /\ [][MCNext]_mcVars
  /\ WF_mcVars(part = "install" /\ Progress /\ UNCHANGED <<releaseVars, part>>)
=============================================================================
