---------------------------- MODULE TestPackages ---------------------------
(***************************************************************************)
(* install_test_only_packages and ArchiveFetcher                           *)
(* (harness/install/testpackages.py): programs the product does not ship   *)
(* are resolved and downloaded on the host, from the archive snapshot the  *)
(* ISO was built from, and installed offline in the guest.                 *)
(***************************************************************************)
EXTENDS Naturals, FiniteSets

CONSTANTS
  Targets,    \* TEST_ONLY_PACKAGES
  Libraries,  \* packages they may depend on
  MaxPerCall  \* _MAX_PACKAGES_PER_CALL

ASSUME PackagesAssumption == Targets # {} /\ Targets \cap Libraries = {} /\ MaxPerCall \in Nat

Packages == Targets \cup Libraries

VARIABLES
  snapshot, \* the packages of the snapshot: the closure of those targets it has
  guestHas, \* the versions in the installed system: "none", "snapshot" or "other"
  synced,   \* _synced
  cache,    \* the package files in the host's cache
  need,     \* missing
  copied,   \* the package files in the guest
  dir,      \* the guest's package directory is there
  failing,  \* an exception is on its way through the finally clause
  at,       \* where the call is
  packing   \* the call: "idle", "running", "ok" or "raised"

packageVars ==
  <<snapshot, guestHas, synced, cache, need, copied, dir, failing, at, packing>>

PackageInit ==
  /\ snapshot \in SUBSET Packages
  /\ guestHas \in [Packages -> {"none", "snapshot", "other"}]
  /\ synced \in BOOLEAN
  /\ cache \in {{}, Packages}
  /\ need = {} /\ copied = {}
  /\ dir = FALSE /\ failing = FALSE
  /\ at = "resolve"
  /\ packing = "idle"

Running(place) == packing = "running" /\ at = place

\* A TestPackageError; from the try around the guest it goes through the removal of
\* the directory.
Throw ==
  IF at \in {"conf", "copy", "install"}
  THEN at' = "clean" /\ failing' = TRUE /\ UNCHANGED packing
  ELSE packing' = "raised" /\ UNCHANGED <<at, failing>>

Go(place) == at' = place /\ UNCHANGED <<failing, packing>>

BeginPackages ==
  /\ packing = "idle"
  /\ packing' = "running"
  /\ UNCHANGED <<snapshot, guestHas, synced, cache, need, copied, dir, failing, at>>

\* ArchiveFetcher._pacman with -Sy: once per fetcher, and again until it succeeded.
Sync ==
  /\ Running("resolve") /\ ~synced
  /\ \/ synced' = TRUE /\ Go("resolve")
     \/ Throw /\ UNCHANGED synced
  /\ UNCHANGED <<snapshot, guestHas, cache, need, copied, dir>>

\* resolve: the closure with its versions, or an error if a target is not in it.
Resolve ==
  /\ Running("resolve") /\ synced
  /\ \/ Targets \subseteq snapshot /\ Go("query")
     \/ Throw
  /\ UNCHANGED <<snapshot, guestHas, synced, cache, need, copied, dir>>

Missing == {p \in snapshot : guestHas[p] = "none"}

\* A package of the closure is installed in another version.
Differs == \E p \in snapshot \ Missing : guestHas[p] = "other"

\* The guest's packages are asked for and compared with the closure.
Query ==
  /\ Running("query")
  /\ need' = Missing
  /\ \/ Throw
     \/ ~Differs /\ Missing = {} /\ packing' = "ok" /\ UNCHANGED <<at, failing>>
     \/ ~Differs /\ Cardinality(Missing) \in 1 .. MaxPerCall /\ Go("download")
  /\ UNCHANGED <<snapshot, guestHas, synced, cache, copied, dir>>

\* download: exactly those packages, without their dependencies.
Download ==
  /\ Running("download")
  /\ cache' \in {cache, cache \cup need}
  /\ \/ need \subseteq cache' /\ Go("conf")
     \/ Throw
  /\ UNCHANGED <<snapshot, guestHas, synced, need, copied, dir>>

\* The configuration and the files are written into the guest.
WriteConf ==
  /\ Running("conf")
  /\ \/ dir' = TRUE /\ Go("copy")
     \/ dir' \in BOOLEAN /\ Throw
  /\ UNCHANGED <<snapshot, guestHas, synced, cache, need, copied>>

CopyFile(p) ==
  /\ Running("copy") /\ p \in need \ copied
  /\ \/ copied' = copied \cup {p} /\ Go("copy")
     \/ copied' \in {copied, copied \cup {p}} /\ Throw
  /\ UNCHANGED <<snapshot, guestHas, synced, cache, need, dir>>

CopiedAll ==
  /\ Running("copy") /\ need \subseteq copied
  /\ Go("install")
  /\ UNCHANGED <<snapshot, guestHas, synced, cache, need, copied, dir>>

\* pacman -U installs the files in one transaction.
Installed == [p \in Packages |-> IF p \in copied THEN "snapshot" ELSE guestHas[p]]

\* It exits with 0, or not; a call that is abandoned may still install them.
PacmanU ==
  \/ guestHas' = Installed /\ Go("clean")
  \/ guestHas' \in {guestHas, Installed} /\ Throw

InstallPackages ==
  /\ Running("install")
  /\ PacmanU
  /\ UNCHANGED <<snapshot, synced, cache, need, copied, dir>>

\* The directory is removed; a failure of that is passed over.
Clean ==
  /\ Running("clean")
  /\ \/ dir' = FALSE /\ copied' = {}
     \/ UNCHANGED <<dir, copied>>
  /\ packing' = IF failing THEN "raised" ELSE "ok"
  /\ UNCHANGED <<snapshot, guestHas, synced, cache, need, failing, at>>

PackageNext ==
  \/ BeginPackages
  \/ Sync
  \/ Resolve
  \/ Query
  \/ Download
  \/ WriteConf
  \/ \E p \in Packages : CopyFile(p)
  \/ CopiedAll
  \/ InstallPackages
  \/ Clean

\* The programs of the tests are there, all of the snapshot's version.
PackagesWhole ==
  /\ Targets \subseteq snapshot
  /\ \A p \in snapshot : guestHas[p] = "snapshot"
=============================================================================
