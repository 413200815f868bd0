-------------------------------- MODULE Stock -------------------------------
(***************************************************************************)
(* run_stock (harness/shots/stock.py): pictures of stock Plasma, taken in  *)
(* an image of the product.  The session is turned back to Plasma's        *)
(* defaults by a list of commands, then it is asked what it has become,    *)
(* and only a session that is proven stock is photographed.                *)
(*                                                                         *)
(* A setting is "product" or "stock".  A command may exit 0 and have no    *)
(* effect, or have it later; what is not read back rests on the exit code. *)
(***************************************************************************)
EXTENDS Integers, Sequences

CONSTANT Chosen \* the selected states

\* What the product changes in a session: config keys that are read back (decoration,
\* buttons, crossfade, overview, runner) and keys that are not (popups, rounded corners,
\* lock screen, GTK and Kvantum themes, panel views), the look-and-feel with its panels
\* and wallpaper, and the glass effect.
Settings == {"keys", "unread", "look", "effect"}

\* build_revert_plan: the settings each group of commands resets, in order.
RevertPlan == <<{"keys"}, {"unread"}, {"look", "keys"}, {"effect"}>>

\* read_stock_evidence; the effect's id is derived from the product's name.
ReadBack == {"keys", "look", "effect"}
ByName == {"effect"}

VARIABLES
  at,       \* where run_stock is
  command,  \* the revert command that is next
  left,     \* what a loop has still to do: states to remove, to read, to run
  evidence, \* the settings that were read back as the product's
  gone,     \* `lost` is not empty
  oks,      \* the states whose result is ok
  why,      \* how the with block ended; "none" before that
  qemu,     \* "up": a QEMU process of this run exists
  session,  \* the settings of the guest's session
  coming,   \* settings whose reset was asked for and has not come about
  named,    \* --name is the name the image was built with
  pictures, \* the PNG of each state: "none", "old", or what it shows
  report,   \* manifest.json: "none", "old" or "new"
  status    \* what the caller gets; "none" while the run goes on

guest == <<session, coming, named>>
stockVars == <<at, command, left, evidence, gone, oks, why, qemu, guest, pictures, report, status>>

StockInit ==
  /\ at = "start"
  /\ command = 1
  /\ left = {} /\ evidence = {} /\ oks = {}
  /\ gone = FALSE
  /\ why = "none"
  /\ qemu = "off"
  /\ session = [s \in Settings |-> "product"]
  /\ coming = {}
  /\ named \in BOOLEAN
  /\ pictures \in [Chosen -> {"none", "old"}]
  /\ report \in {"none", "old"}
  /\ status = "none"

-----------------------------------------------------------------------------
(* The guest.                                                              *)

\* What a picture shows of the settings that are read back.
Look == IF \E s \in ReadBack : session[s] = "product" THEN "product" ELSE "stock"

Land(s) ==
  /\ s \in coming
  /\ session' = [session EXCEPT ![s] = "stock"]
  /\ coming' = coming \ {s}
  /\ UNCHANGED <<at, command, left, evidence, gone, oks, why, qemu, named, pictures, report, status>>

-----------------------------------------------------------------------------
(* Before the states.                                                      *)

\* states.toml cannot be read, or select_states refuses a name.
StockRefuses ==
  /\ at = "start"
  /\ at' = "end"
  /\ status' = "environment"
  /\ UNCHANGED <<command, left, evidence, gone, oks, why, qemu, guest, pictures, report>>

\* The PNGs of all chosen states are removed, then QEMU is started.
StockStarts ==
  /\ at = "start"
  /\ pictures' = [p \in Chosen |-> "none"]
  /\ at' = "boot"
  /\ qemu' = "up"
  /\ UNCHANGED <<command, left, evidence, gone, oks, why, guest, report, status>>

GoOn(from, to) ==
  /\ at = from
  /\ at' = to
  /\ UNCHANGED <<command, left, evidence, gone, oks, why, qemu, guest, pictures, report, status>>

\* The VM is up; then the desktop settles.
StockBooted == GoOn("boot", "desktop") \/ GoOn("desktop", "product")

\* (Slip: the package is not asked for.)
AnyImage == TRUE

\* _check_product: pacman knows the metapackage of this name.
BuiltAsNamed == named

\* The frame before the revert is the reference of the settle after it.
ProductChecked == BuiltAsNamed /\ GoOn("product", "revert")

\* StockRevertError ends the with block.
RevertStops == at' = "leaving" /\ why' = "environment" /\ UNCHANGED <<command, left>>

\* A command exits 0: its settings are reset now, later or never.  A command about the
\* wrong name has nothing to act on.
RunCommand(now, later) ==
  /\ at = "revert" /\ command <= Len(RevertPlan)
  /\ now \subseteq RevertPlan[command] /\ later \subseteq RevertPlan[command] \ now
  /\ ~named => (now \cup later) \cap ByName = {}
  /\ session' = [s \in Settings |-> IF s \in now THEN "stock" ELSE session[s]]
  /\ coming' = coming \cup later
  /\ command' = command + 1
  /\ UNCHANGED <<at, left, evidence, gone, oks, why, qemu, named, pictures, report, status>>

\* It exits with an error or no answer comes; it may have done its work all the same.
CommandFails(later) ==
  /\ at = "revert" /\ command <= Len(RevertPlan)
  /\ later \subseteq RevertPlan[command]
  /\ ~named => later \cap ByName = {}
  /\ coming' = coming \cup later
  /\ RevertStops
  /\ UNCHANGED <<evidence, gone, oks, qemu, session, named, pictures, report, status>>

\* The screen has left the picture before the revert and stands still.
StockSettles ==
  /\ at = "revert" /\ command > Len(RevertPlan)
  /\ at' = "read"
  /\ left' = ReadBack
  /\ UNCHANGED <<command, evidence, gone, oks, why, qemu, guest, pictures, report, status>>

\* read_stock_evidence: one query after the other, while resets may still come about.
\* The effect is asked for by its name: one of another name is never loaded.
ReadSetting(s) ==
  /\ at = "read" /\ s \in left
  /\ left' = left \ {s}
  /\ evidence' = IF session[s] = "product" /\ (named \/ s \notin ByName)
                 THEN evidence \cup {s} ELSE evidence
  /\ UNCHANGED <<at, command, gone, oks, why, qemu, guest, pictures, report, status>>

\* check_stock_evidence finds no problem.
ProvenStock == left = {} /\ evidence = {}

Proven ==
  /\ at = "read" /\ ProvenStock
  /\ at' = "states"
  /\ left' = Chosen
  /\ UNCHANGED <<command, evidence, gone, oks, why, qemu, guest, pictures, report, status>>

NotProven ==
  /\ at = "read" /\ left = {} /\ ~ProvenStock
  /\ RevertStops
  /\ UNCHANGED <<evidence, gone, oks, qemu, guest, pictures, report, status>>

-----------------------------------------------------------------------------
(* The states.                                                             *)

\* run_state returns ok or failed, or the connection is lost.  A picture may exist of a
\* state that failed.
StockState(p, outcome) ==
  /\ at = "states" /\ p \in left /\ ~gone
  /\ left' = left \ {p}
  /\ gone' = (outcome = "lost")
  /\ oks' = IF outcome = "ok" THEN oks \cup {p} ELSE oks
  /\ \/ pictures' = [pictures EXCEPT ![p] = Look]
     \/ outcome # "ok" /\ UNCHANGED pictures
  /\ UNCHANGED <<at, command, evidence, why, qemu, guest, report, status>>

\* Not run: recorded as failed.
StockSkips ==
  /\ at = "states" /\ gone
  /\ left' = {}
  /\ left # {}
  /\ UNCHANGED <<at, command, evidence, gone, oks, why, qemu, guest, pictures, report, status>>

StockLeaves(cause) ==
  /\ at' = "leaving"
  /\ why' = cause
  /\ UNCHANGED <<command, left, evidence, gone, oks, qemu, guest, pictures, report, status>>

StatesDone == at = "states" /\ left = {} /\ StockLeaves("done")

-----------------------------------------------------------------------------
(* Failures, and the end.                                                  *)

\* The exceptions that become exit code 2: of the boot, of wait_for_desktop (StepError),
\* of the revert and its proof (StockRevertError).
StockProblem ==
  /\ \/ at \in {"boot", "desktop", "product"}
     \/ at = "revert" /\ command > Len(RevertPlan)
     \/ at = "read" /\ left # {}
  /\ StockLeaves("environment")

\* A signal, or an exception no clause names: a lost connection before the states, a
\* QmpError or TimeoutError of a screendump.
StockEscapes ==
  /\ at \in {"boot", "desktop", "product", "revert", "read", "states"}
  /\ StockLeaves("uncaught")

StockStops ==
  /\ at = "leaving"
  /\ qemu' = "off"
  /\ IF why = "uncaught" THEN at' = "end" /\ status' = "uncaught"
     ELSE at' = "write" /\ UNCHANGED status
  /\ UNCHANGED <<command, left, evidence, gone, oks, why, guest, pictures, report>>

StockOk == why = "done" /\ ~gone /\ oks = Chosen

StockReports ==
  /\ at = "write"
  /\ report' = "new"
  /\ status' = IF why = "environment" THEN "environment"
               ELSE IF StockOk THEN "ok" ELSE "failed"
  /\ at' = "end"
  /\ UNCHANGED <<command, left, evidence, gone, oks, why, qemu, guest, pictures>>

\* The manifest, or the removal of the old pictures, meets an OSError.
StockFileFails ==
  /\ at \in {"start", "write"}
  /\ at' = "end"
  /\ status' = "uncaught"
  /\ \/ UNCHANGED pictures
     \/ /\ at = "start"
        /\ \E some \in SUBSET Chosen :
             pictures' = [p \in Chosen |-> IF p \in some THEN "none" ELSE pictures[p]]
  /\ UNCHANGED <<command, left, evidence, gone, oks, why, qemu, guest, report>>

StockWork ==
  \/ StockRefuses
  \/ StockStarts
  \/ StockBooted
  \/ ProductChecked
  \/ \E now, later \in SUBSET Settings : RunCommand(now, later)
  \/ \E later \in SUBSET Settings : CommandFails(later)
  \/ StockSettles
  \/ \E s \in Settings : ReadSetting(s)
  \/ Proven
  \/ NotProven
  \/ \E p \in Chosen, outcome \in {"ok", "failed", "lost"} : StockState(p, outcome)
  \/ StockSkips
  \/ StatesDone
  \/ StockProblem
  \/ StockEscapes
  \/ StockStops
  \/ StockReports
  \/ StockFileFails

StockNext == StockWork \/ \E s \in Settings : Land(s)

\* One thread, every call of which returns or raises; the guest promises nothing.
StockSpec == StockInit /\ [][StockNext]_stockVars /\ WF_stockVars(StockWork)

-----------------------------------------------------------------------------
(* Properties.                                                             *)

\* A picture of this run shows a session in which nothing that is read back is the
\* product's, whatever the image was built as, whichever commands did nothing, did
\* their work late, or failed; and exit code 0 means there is one for every state.
StockShotsAreStock ==
  /\ \A p \in Chosen : pictures[p] # "product"
  /\ status = "ok" =>
       /\ \A p \in Chosen : pictures[p] = "stock"
       /\ command > Len(RevertPlan)
       /\ report = "new" /\ qemu = "off"
=============================================================================
