------------------------------ MODULE Release -------------------------------
(***************************************************************************)
(* From the build of the live ISO to the signed release: build_iso_host.sh *)
(* replaces the ISO in .build/iso, release.py makes a release directory of *)
(* the one ISO that is there.  They are two commands that meet in a        *)
(* directory only: either can fail or be killed at every step, be run      *)
(* again, and run while the other one does.                                *)
(*                                                                         *)
(* A content is what a file holds and what its SHA-256 tells: the ISO of a *)
(* build, whole, damaged by the copying, or copied in part (how much of it *)
(* is there is not told apart).                                            *)
(***************************************************************************)
EXTENDS Naturals

CONSTANTS
  MaxBuilds,   \* bound: builds
  MaxReleases  \* bound: releases

ASSUME ReleaseAssumption == MaxBuilds \in Nat /\ MaxReleases \in Nat

Nothing == <<>>

\* A release directory: the ISO, the notes (the hash and the size they name), the sums of
\* both, and what was signed.  For the properties: whether its removal has begun, the last
\* build when it was finished, and whether it was made of that build, verified, and of
\* nothing else.
NoDirectory == [there |-> FALSE, iso |-> Nothing, notes |-> Nothing, sums |-> Nothing,
                signed |-> Nothing, torn |-> FALSE, build |-> 0, undisturbed |-> FALSE]
ReleaseFiles == {"iso", "notes", "sums", "signed"}

VARIABLES
  isos,     \* .build/iso: content by file name, Nothing for no file
  builds,   \* builds started
  building, \* build_iso_host.sh: where it is
  scratch,  \* its scratch directory: "none", "unmarked" or "marked"
  output,   \* the ISO in it
  verified, \* the builds whose copy has passed the checksum
  releases, \* releases started
  stage,    \* release.py: where it is
  selected,   \* the file name of the ISO it releases
  hash,     \* iso_hash
  partial,  \* the directory that is being made
  final,    \* the finished release
  undisturbed \* history: no build has been under way since a verified one

builder == <<builds, building, scratch, output, verified>>
releaser == <<releases, stage, selected, hash, partial, final>>
releaseVars == <<isos, builder, releaser, undisturbed>>

FileNames == {"live", "other"}

\* An ISO of another build may lie in the directory, and an earlier release beside it.
ReleaseInit ==
  /\ isos \in [FileNames -> {Nothing, <<0, "whole">>}]
  /\ builds = 0 /\ building = "idle"
  /\ scratch \in {"none", "unmarked", "marked"}
  /\ output = Nothing
  /\ verified = {0}
  /\ releases = 0 /\ stage = "idle"
  /\ selected = "live" /\ hash = Nothing
  /\ partial = NoDirectory /\ final = NoDirectory
  /\ undisturbed = TRUE

-----------------------------------------------------------------------------
(* build_iso_host.sh                                                       *)

BuilderGoes(place) ==
  building' = place /\ UNCHANGED <<releaser, builds, verified, undisturbed>>

OfBuilds == <<isos, scratch, output>>

\* load_config and check_host: a directory that exists without the marker is refused.
CheckHost ==
  /\ building = "idle" /\ builds < MaxBuilds
  /\ scratch # "unmarked"
  /\ builds' = builds + 1
  /\ building' = "fresh"
  /\ undisturbed' = FALSE
  /\ UNCHANGED <<releaser, verified, OfBuilds>>

\* fresh_dir: removed, made, marked.
RemoveScratch ==
  /\ building = "fresh"
  /\ scratch' = "none" /\ output' = Nothing
  /\ BuilderGoes("mkdir") /\ UNCHANGED isos

MakeScratch ==
  /\ building = "mkdir"
  /\ scratch' = "unmarked"
  /\ BuilderGoes("mark") /\ UNCHANGED <<isos, output>>

MarkScratch ==
  /\ building = "mark"
  /\ scratch' = "marked"
  /\ BuilderGoes("stage") /\ UNCHANGED <<isos, output>>

\* stage_profile with pin_pacman_conf, trust_repo_key, purge_pacman_cache.
StageProfile == building = "stage" /\ BuilderGoes("make") /\ UNCHANGED OfBuilds

\* mkarchiso leaves exactly one ISO.
MakeIso ==
  /\ building = "make"
  /\ output' = <<builds, "whole">>
  /\ BuilderGoes("remove") /\ UNCHANGED <<isos, scratch>>

\* Every ISO in .build/iso is deleted, one after the other.
RemoveIso ==
  /\ building = "remove"
  /\ \E f \in FileNames : isos[f] # Nothing /\ isos' = [isos EXCEPT ![f] = Nothing]
  /\ BuilderGoes("remove") /\ UNCHANGED <<scratch, output>>

IsosRemoved ==
  /\ building = "remove"
  /\ \A f \in FileNames : isos[f] = Nothing
  /\ BuilderGoes("copy") /\ UNCHANGED OfBuilds

\* cp: the copy grows, and may be damaged.
CopyIso ==
  /\ building = "copy"
  /\ isos["live"] = Nothing
  /\ isos' = [isos EXCEPT !["live"] = <<builds, "part">>]
  /\ BuilderGoes("copy") /\ UNCHANGED <<scratch, output>>

IsoCopied ==
  /\ building = "copy"
  /\ isos["live"] = <<builds, "part">>
  /\ \E kind \in {"whole", "damaged"} : isos' = [isos EXCEPT !["live"] = <<builds, kind>>]
  /\ BuilderGoes("check") /\ UNCHANGED <<scratch, output>>

\* (Slip: cp is believed.)
CopyBelieved == TRUE
SumsAgree == isos["live"] = output

\* The checksums of both files agree, and the build is done.
VerifyCopy ==
  /\ building = "check" /\ SumsAgree
  /\ verified' = verified \cup {builds}
  /\ building' = "idle"
  /\ UNCHANGED <<releaser, builds, undisturbed, OfBuilds>>

\* die, set -e, or a signal: everything stays as it is.  A removal of the scratch
\* directory that is broken off may have taken the marker first.
BuilderDies ==
  /\ building # "idle"
  /\ scratch' \in {scratch} \cup {s \in {"unmarked"} : building = "fresh" /\ scratch = "marked"}
  /\ BuilderGoes("idle") /\ UNCHANGED <<isos, output>>

-----------------------------------------------------------------------------
(* release.py                                                              *)

Present == {f \in FileNames : isos[f] # Nothing}

ReleaserGoes(place) == stage' = place /\ UNCHANGED <<builder, isos, releases, undisturbed>>

\* select_iso
OnlyIso(f) == Present = {f}

\* Configuration, version, tag and tree, ISO and documents are as they must be;
\* otherwise nothing is touched.
Checks(f) ==
  /\ stage = "idle" /\ releases < MaxReleases
  /\ OnlyIso(f)
  /\ selected' = f
  /\ releases' = releases + 1
  /\ stage' = "partial"
  /\ undisturbed' = (building = "idle" /\ builds \in verified)
  /\ UNCHANGED <<builder, isos, hash, partial, final>>

\* The remains of a killed run and the release of the same version are removed, the
\* release file by file.
RemovePartial ==
  /\ stage = "partial"
  /\ partial' = NoDirectory
  /\ ReleaserGoes("final") /\ UNCHANGED <<selected, hash, final>>

TearFinal ==
  /\ stage = "final" /\ final.there
  /\ \E f \in ReleaseFiles : final' = [final EXCEPT ![f] = Nothing, !.torn = TRUE]
  /\ ReleaserGoes("final") /\ UNCHANGED <<selected, hash, partial>>

RemoveFinal ==
  /\ stage = "final"
  /\ final' = NoDirectory
  /\ ReleaserGoes("mkdir") /\ UNCHANGED <<selected, hash, partial>>

MakePartial ==
  /\ stage = "mkdir"
  /\ partial' = [NoDirectory EXCEPT !.there = TRUE]
  /\ ReleaserGoes("hash") /\ UNCHANGED <<selected, hash, final>>

HashIso ==
  /\ stage = "hash" /\ isos[selected] # Nothing
  /\ hash' = isos[selected]
  /\ ReleaserGoes("copy") /\ UNCHANGED <<selected, partial, final>>

\* The copy may be damaged too.
ReleaseCopy ==
  /\ stage = "copy" /\ isos[selected] # Nothing
  /\ \E content \in {isos[selected], <<isos[selected][1], "damaged">>} :
       partial' = [partial EXCEPT !.iso = content]
  /\ ReleaserGoes("compare") /\ UNCHANGED <<selected, hash, final>>

\* (Slip: the copy is not hashed.)
AnyCopy == TRUE
CopyIsHashed == partial.iso = hash

\* The copy has the hash of the source; the documents follow.
CompareCopy ==
  /\ stage = "compare" /\ CopyIsHashed
  /\ ReleaserGoes("notes") /\ UNCHANGED <<selected, hash, partial, final>>

\* The notes have the hash, and the size the source has now.
WriteNotes ==
  /\ stage = "notes" /\ isos[selected] # Nothing
  /\ partial' = [partial EXCEPT !.notes = <<hash, isos[selected]>>]
  /\ ReleaserGoes("sums") /\ UNCHANGED <<selected, hash, final>>

WriteSums ==
  /\ stage = "sums"
  /\ partial' = [partial EXCEPT !.sums = <<partial.iso, partial.notes>>]
  /\ ReleaserGoes("sign") /\ UNCHANGED <<selected, hash, final>>

\* sign_file: the signature is verified.
Sign ==
  /\ stage = "sign"
  /\ partial' = [partial EXCEPT !.signed = partial.sums]
  /\ ReleaserGoes("rename") /\ UNCHANGED <<selected, hash, final>>

Rename ==
  /\ stage = "rename"
  /\ final' = [partial EXCEPT !.build = builds, !.undisturbed = undisturbed]
  /\ partial' = NoDirectory
  /\ ReleaserGoes("idle") /\ UNCHANGED <<selected, hash>>

\* An error: the directory that was being made is removed, if it can be.
ReleaseFails ==
  /\ stage # "idle"
  /\ partial' \in {NoDirectory, partial}
  /\ ReleaserGoes("idle") /\ UNCHANGED <<selected, hash, final>>

BuilderNext ==
  \/ CheckHost
  \/ RemoveScratch
  \/ MakeScratch
  \/ MarkScratch
  \/ StageProfile
  \/ MakeIso
  \/ RemoveIso
  \/ IsosRemoved
  \/ CopyIso
  \/ IsoCopied
  \/ VerifyCopy
  \/ BuilderDies

ReleaseNext ==
  \/ \E f \in FileNames : Checks(f)
  \/ RemovePartial
  \/ TearFinal
  \/ RemoveFinal
  \/ MakePartial
  \/ HashIso
  \/ ReleaseCopy
  \/ CompareCopy
  \/ WriteNotes
  \/ WriteSums
  \/ Sign
  \/ Rename
  \/ ReleaseFails

ReleaseSpec == ReleaseInit /\ [][BuilderNext \/ ReleaseNext]_releaseVars

-----------------------------------------------------------------------------
(* Properties.                                                             *)

\* gpg --verify and sha256sum -c accept it.
Verifies(d) ==
  /\ d.sums # Nothing /\ d.signed = d.sums
  /\ d.sums = <<d.iso, d.notes>>

\* What is in the place of the finished release can be verified and speaks of one file, or
\* it is what a broken-off removal left, although the source is read three times and
\* may be replaced between.  Only the size in the notes may be another ISO's.
ReleaseIsWhole ==
  final.there =>
    /\ ~final.torn => Verifies(final)
    /\ Verifies(final) => final.notes[1] = final.iso

\* When no build was under way from the choice of the ISO to the end, and the last one had
\* ended well, the release holds that build's ISO, and its notes name its size: a failed
\* build may leave a bad ISO where a release would pick it up, a successful one never.
ReleaseIsVerifiedBuild ==
  final.there /\ ~final.torn /\ final.undisturbed =>
    /\ final.iso = <<final.build, "whole">> /\ final.build \in verified
    /\ final.notes[2] = final.iso

=============================================================================
