--------------------------- MODULE SessionConfig ---------------------------
(***************************************************************************)
(* inject_test_only_session_config (harness/install/wizard.py): before the *)
(* first login the installed system is given what the screenshot image has *)
(* and the product has not: files of the harness are copied, single keys   *)
(* are merged into files of the product (harness/skelmerge.py), system     *)
(* files are put in place of the product's own or edited, and the rest is  *)
(* done by programs in the guest.  Each task is one or more calls of the   *)
(* guest agent, answered, refused or abandoned; an abandoned one may have  *)
(* been carried out.                                                       *)
(***************************************************************************)
EXTENDS Naturals, Sequences, FiniteSets, SequencesExt

CONSTANTS
  SkelFiles,     \* the files below harness/vm/guest/skel
  ProductFiles,  \* files of the product into which keys are merged
  OverlayFiles,  \* the files below harness/vm/guest/overlay
  SystemFiles,   \* the files outside the homes, the harness's and the product's
  Groups, Names, \* the groups of a file, and the keys of a group
  MaxLines       \* bound: lines of a fragment

\* harness/tests/test_guest_skel.py: the harness replaces no file of the product.
ASSUME FilesAssumption ==
  /\ SkelFiles \cap ProductFiles = {} /\ MaxLines \in Nat
  /\ IsFiniteSet(SkelFiles) /\ IsFiniteSet(ProductFiles) /\ IsFiniteSet(OverlayFiles)

\* /etc/localtime, /etc/passwd and the udev rule.
OwnTargets == {"localtime", "passwd", "rule"}

ASSUME SystemAssumption ==
  OverlayFiles \cup OwnTargets \subseteq SystemFiles /\ OverlayFiles \cap OwnTargets = {}

Settings == Groups \X Names

\* A line of a fragment: ignored, a header, key=value, or neither.
Lines == {<<"ignored">>, <<"malformed">>} \cup ({"header"} \X Groups) \cup ({"pair"} \X Names)

VARIABLES
  fragments, \* skel-merge: the lines for each file of the product
  home,      \* the user's files: what each setting comes from
  system,    \* the system files: "absent", the "product"'s, the "harness"'s, or the
             \* product's with one field "edited"
  placed,    \* what else of the image is in place
  scratch,   \* the harness's own files left in the guest
  todo,      \* the tasks left
  giveUp,    \* an exception is on its way through the finally clause
  staging    \* the call: "idle", "running", "ok" or "raised"

configVars == <<fragments, home, system, placed, scratch, todo, giveUp, staging>>

ConfigInit ==
  /\ fragments \in [ProductFiles -> UNION {[1 .. n -> Lines] : n \in 0 .. MaxLines}]
  /\ \E shipped \in Settings :
       home = [f \in SkelFiles \cup ProductFiles |->
                 [s \in Settings |->
                    IF f \in ProductFiles /\ s = shipped THEN "product" ELSE "unset"]]
  /\ \E shipped \in SUBSET OverlayFiles :
       system = [f \in SystemFiles |->
                   IF f \in (OverlayFiles \ shipped) \cup {"rule"} THEN "absent" ELSE "product"]
  /\ placed = {}
  /\ scratch = {}
  /\ todo = <<>>
  /\ giveUp = FALSE
  /\ staging = "idle"

-----------------------------------------------------------------------------
(* The fragments.                                                          *)

NoGroup == <<>>

Rejected == [ok |-> FALSE, group |-> NoGroup, entries |-> <<>>]

\* One line of parse_fragment; the entry is a ConfigEntry.
ReadLine(read, line) ==
  CASE line[1] = "ignored" -> read
    [] line[1] = "malformed" -> Rejected
    [] line[1] = "header" -> [read EXCEPT !.group = <<line[2]>>]
    [] line[1] = "pair" ->
         LET setting == <<read.group[1], line[2]>>
         IN IF read.group = NoGroup \/ Contains(read.entries, setting) THEN Rejected
            ELSE [read EXCEPT !.entries = Append(@, setting)]

\* parse_fragment: the entries in the order of the file.
Parsed(lines) ==
  LET read[n \in 0 .. Len(lines)] ==
        IF n = 0 THEN [ok |-> TRUE, group |-> NoGroup, entries |-> <<>>]
        ELSE IF read[n - 1].ok THEN ReadLine(read[n - 1], lines[n]) ELSE Rejected
  IN read[Len(lines)]

FragmentsOk == \A f \in ProductFiles : Parsed(fragments[f]).ok

MergesInto(f) ==
  LET entries == Parsed(fragments[f]).entries
  IN [i \in 1 .. Len(entries) |-> <<"merge", f, entries[i]>>]

\* load_fragments: the entries of every file, file by file.
Merges == FlattenSeq([i \in 1 .. Len(SetToSeq(ProductFiles)) |-> MergesInto(SetToSeq(ProductFiles)[i])])

-----------------------------------------------------------------------------
(* The tasks.                                                              *)

\* Step 0, the sample tree, and step 1, the copies.
FirstTasks ==
  <<<<"script">>, <<"tree">>, <<"unscript">>>>
    \o [i \in 1 .. Len(SetToSeq(SkelFiles)) |-> <<"copy", SetToSeq(SkelFiles)[i]>>]
    \o <<<<"load">>>>

\* _install_root_file: staged as the user, placed as root.
RootFile(f) == <<<<"stage", f>>, <<"install", f>>>>

\* Steps 3 to 6.  The overlay is listed before its try.
LastTasks ==
  <<<<"utc">>, <<"list">>>>
    \o FlattenSeq([i \in 1 .. Len(SetToSeq(OverlayFiles)) |-> RootFile(SetToSeq(OverlayFiles)[i])])
    \o RootFile("rule") \o <<<<"unstage">>, <<"name">>>>
    \o <<<<"udev", "reload">>, <<"udev", "trigger">>, <<"udev", "settle">>>>

Task == Head(todo)
Staged == Task[1] \in {"stage", "install"}
OnHost == Task[1] \in {"load", "list"}

\* Programs, whose exit code is looked at.
Checked == Task[1] \in {"tree", "merge", "utc", "install", "name", "udev"}

BeginConfig ==
  /\ staging = "idle"
  /\ staging' = "running"
  /\ todo' = FirstTasks
  /\ UNCHANGED <<fragments, home, system, placed, scratch, giveUp>>

\* (Slip: kwriteconfig6 is left out, and the fragment copied as a file.)
WholeFile(f, setting) ==
  [home EXCEPT ![f] = [s \in Settings |-> IF s = setting THEN "harness" ELSE "unset"]]

\* kwriteconfig6 changes one key.
OneKey(f, setting) == [home EXCEPT ![f][setting] = "harness"]

\* A file of the harness replaces what was there, ln -sfn the link to the timezone, and
\* sed empties one field of /etc/passwd.
SystemAfter ==
  CASE Task[1] = "install" -> [system EXCEPT ![Task[2]] = "harness"]
    [] Task[1] = "utc" -> [system EXCEPT !["localtime"] = "harness"]
    [] Task[1] = "name" -> [system EXCEPT !["passwd"] = "edited"]
    [] OTHER -> system

\* What carrying out the task does to the guest.
Effect ==
  /\ home' = CASE Task[1] = "copy" -> [home EXCEPT ![Task[2]] = [s \in Settings |-> "harness"]]
               [] Task[1] = "merge" -> OneKey(Task[2], Task[3])
               [] OTHER -> home
  /\ system' = SystemAfter
  /\ placed' = IF Task[1] \in {"tree", "udev"} THEN placed \cup {Task} ELSE placed
  /\ scratch' = CASE Task[1] = "script" -> scratch \cup {"script"}
                  [] Task[1] = "stage" -> scratch \cup {"stage"}
                  [] Task[1] = "unscript" -> scratch \ {"script"}
                  [] Task[1] = "unstage" -> scratch \ {"stage"}
                  [] OTHER -> scratch

NoEffect == UNCHANGED <<home, system, placed, scratch>>

\* The next task, or the end; an exception goes on behind the finally clause.
Advance ==
  /\ todo' = IF giveUp THEN <<>> ELSE Tail(todo)
  /\ staging' = IF giveUp THEN "raised" ELSE IF Len(todo) = 1 THEN "ok" ELSE "running"
  /\ UNCHANGED giveUp

TaskDone ==
  /\ staging = "running" /\ ~OnHost
  /\ Effect
  /\ Advance
  /\ UNCHANGED fragments

\* The real fragments are loaded.
LoadFragments ==
  /\ staging = "running" /\ Task[1] = "load" /\ FragmentsOk
  /\ todo' = Merges \o LastTasks
  /\ UNCHANGED <<fragments, home, system, placed, scratch, giveUp, staging>>

ListOverlay ==
  /\ staging = "running" /\ Task[1] = "list"
  /\ Advance
  /\ UNCHANGED <<fragments, home, system, placed, scratch>>

\* A WizardError; out of the overlay it goes through the removal of the stage.
GiveUp ==
  IF Staged THEN todo' = <<<<"unstage">>>> /\ giveUp' = TRUE /\ UNCHANGED staging
  ELSE todo' = <<>> /\ staging' = "raised" /\ UNCHANGED giveUp

\* A program exits with another code than 0, and may have done its work in part.  The
\* script of the sample tree is removed before its exit code is looked at.
ExitsNonzero ==
  /\ staging = "running" /\ Checked
  /\ Effect \/ NoEffect
  /\ IF Task[1] = "tree"
     THEN todo' = <<<<"unscript">>>> /\ giveUp' = TRUE /\ UNCHANGED staging
     ELSE GiveUp
  /\ UNCHANGED fragments

\* The exit code of rm is not looked at.
RmFails ==
  /\ staging = "running" /\ Task[1] \in {"unscript", "unstage"}
  /\ NoEffect
  /\ Advance
  /\ UNCHANGED fragments

\* An agent call fails or is abandoned, a host file cannot be read, a fragment is
\* malformed.  A failing removal of the stage is passed over.
TaskFails ==
  /\ staging = "running"
  /\ IF OnHost THEN NoEffect ELSE Effect \/ NoEffect
  /\ IF Task[1] = "unstage" THEN Advance ELSE GiveUp
  /\ UNCHANGED fragments

ConfigNext ==
  \/ BeginConfig
  \/ TaskDone
  \/ LoadFragments
  \/ ListOverlay
  \/ ExitsNonzero
  \/ RmFails
  \/ TaskFails

-----------------------------------------------------------------------------
(* What is to be in place.                                                 *)

\* By the text of the fragment: a key line gives the setting under the last header
\* above it.
AsksFor(lines, setting) ==
  \E i \in 1 .. Len(lines), h \in 1 .. Len(lines) :
    /\ h < i
    /\ lines[h] = <<"header", setting[1]>>
    /\ lines[i] = <<"pair", setting[2]>>
    /\ \A k \in h + 1 .. i : lines[k][1] # "header"

\* A task that is to leave something in place.
Wanted ==
  {<<"tree">>, <<"utc">>, <<"name">>} \cup ({"install"} \X (OverlayFiles \cup {"rule"}))
    \cup ({"udev"} \X {"reload", "trigger", "settle"})

InPlace(task) ==
  CASE task[1] = "install" -> system[task[2]] = "harness"
    [] task[1] = "utc" -> system["localtime"] = "harness"
    [] task[1] = "name" -> system["passwd"] = "edited"
    [] OTHER -> task \in placed

\* The system has everything the image has; files of the harness may be left in /tmp.
ConfigWhole ==
  /\ \A f \in SkelFiles, s \in Settings : home[f][s] = "harness"
  /\ \A f \in ProductFiles, s \in Settings :
       (home[f][s] = "harness") <=> AsksFor(fragments[f], s)
  /\ \A task \in Wanted : InPlace(task)
=============================================================================
