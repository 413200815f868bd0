----------------------------- MODULE StatesFile -----------------------------
(***************************************************************************)
(* harness/states.toml as its readers see it.  The capture side parses it  *)
(* (harness/shots/states.py), the comparison side reads its rules again    *)
(* (load_rules in compare.py), and the steps of a state are looked at once *)
(* more when they are carried out (qmp.py, guest.py).  The three must      *)
(* agree: what the parser lets through must not fail an hour later.        *)
(*                                                                         *)
(* A value of the file is <<type, value>>, <<"absent">> for a missing key. *)
(* A name or a text is the sequence of what its parts or characters are.   *)
(***************************************************************************)
EXTENDS Integers, Sequences, FiniteSets, SequencesExt

CONSTANTS
  Width, Height, \* settings.resolution
  MaxRunArgs,    \* states.MAX_RUN_ARGS, guest._MAX_ARGS
  AxisMax        \* the last value of the tablet's axis

\* _parse_settings asks for 640 x 480 at least, abs_value for 2 pixels.
ASSUME ScreenAssumption ==
  /\ Width \in Nat \ {0, 1} /\ Height \in Nat \ {0, 1}
  /\ MaxRunArgs \in Nat \ {0} /\ AxisMax \in Nat

Absent == <<"absent">>
Is(value, type) == value[1] = type
Number(value) == value[1] \in {"int", "float"}
Within(value, lo, hi) == lo <= value[2] /\ value[2] <= hi

\* Names, characters and arguments are sequences.
ValueType(value) ==
  value[1] \in {"parts", "chars", "list"} => value[2] \in Seq(STRING)

-----------------------------------------------------------------------------
(* Keys (harness/shots/keys.py).                                           *)

ModifierKeys == {"meta", "super", "ctrl"}
Qcode(name) == IF name = "super" THEN "meta" ELSE name
PlainKeys == {"w", "esc"}

DistinctModifiers(parts) == Cardinality({Qcode(n) : n \in ToSet(parts)}) = Len(parts)

\* parse_chord: distinct modifiers and one key, in this order, or one modifier alone.
ChordOk(parts) ==
  /\ parts # <<>>
  /\ ToSet(parts) \subseteq ModifierKeys \cup PlainKeys
  /\ DistinctModifiers(parts)
  /\ ToSet(Front(parts)) \subseteq ModifierKeys
  /\ Last(parts) \in PlainKeys \/ Len(parts) = 1

ParseChord(parts) == [i \in DOMAIN parts |-> Qcode(parts[i])]

\* text_to_chords: letters, digits and spaces only.
TextOk(chars) == chars # <<>> /\ ToSet(chars) \subseteq {"lower", "upper", "digit", "space"}

TextToChords(chars) ==
  [i \in DOMAIN chars |-> IF chars[i] = "upper" THEN <<"shift", "lower">> ELSE <<chars[i]>>]

-----------------------------------------------------------------------------
(* The parser (states.py).                                                 *)

StepKinds == {"key", "type", "move", "click", "run", "wait", "settle"}

\* _parse_coordinate_pair
CoordinatesOk(value) ==
  /\ Is(value, "pair")
  /\ value[2] \in 0 .. Width - 1 /\ value[3] \in 0 .. Height - 1

\* Arguments: "word", "a=b", or "bad" (empty, NUL inside, too long, no string).
ArgumentsOk(value) ==
  /\ Is(value, "list")
  /\ Len(value[2]) \in 1 .. MaxRunArgs
  /\ "bad" \notin ToSet(value[2])
  /\ Head(value[2]) # "a=b"

ValueOk(kind, value) ==
  CASE kind = "key" -> Is(value, "parts") /\ ChordOk(value[2])
    [] kind = "type" -> Is(value, "chars") /\ TextOk(value[2])
    [] kind \in {"move", "click"} -> CoordinatesOk(value)
    [] kind = "run" -> ArgumentsOk(value)
    [] kind = "wait" -> Number(value) /\ Within(value, 0, 60)
    [] OTHER -> value = <<"bool", TRUE>>

\* parse_step: a table of keys with values; exactly one key is a step's.
StepOk(step) ==
  LET kinds == DOMAIN step \cap StepKinds IN
  /\ DOMAIN step \subseteq StepKinds \cup {"wait_exit"}
  /\ Cardinality(kinds) = 1
  /\ "wait_exit" \in DOMAIN step => kinds = {"run"} /\ Is(step["wait_exit"], "bool")
  /\ \A kind \in kinds : ValueOk(kind, step[kind])

\* _check_rules: a rectangle is <<x0, y0, x1, y1>>, or <<>> for anything else.
RectOk(r) ==
  /\ Len(r) = 4
  /\ 0 <= r[1] /\ r[1] < r[3] /\ r[3] <= Width
  /\ 0 <= r[2] /\ r[2] < r[4] /\ r[4] <= Height

\* (Slip: the limit of the tolerance is the number of its values.)
RulesOkToCount(table) ==
  /\ table.tolerance # Absent => Is(table.tolerance, "int") /\ Within(table.tolerance, 0, 256)
  /\ table.ratio # Absent => Number(table.ratio) /\ Within(table.ratio, 0, 1)
  /\ table.mask # Absent =>
       Is(table.mask, "list") /\ \A i \in DOMAIN table.mask[2] : RectOk(table.mask[2][i])

RulesOk(table) ==
  /\ table.tolerance # Absent => Is(table.tolerance, "int") /\ Within(table.tolerance, 0, 255)
  /\ table.ratio # Absent => Number(table.ratio) /\ Within(table.ratio, 0, 1)
  /\ table.mask # Absent =>
       Is(table.mask, "list") /\ \A i \in DOMAIN table.mask[2] : RectOk(table.mask[2][i])

\* _parse_settings: resolution and rtc_base are well formed here.
SettingsOk(settings) ==
  /\ Is(settings.frames, "int") /\ Within(settings.frames, 1, 10)
  /\ Number(settings.interval) /\ Within(settings.interval, 1, 100) \* tenths of a second
  /\ Number(settings.timeout) /\ Within(settings.timeout, 10, 6000)
  /\ \A i \in DOMAIN settings.reset : StepOk(settings.reset[i])

\* _parse_state
StateOk(state, modes) ==
  /\ state.name # "Bad Name"
  /\ \A i \in DOMAIN state.steps : StepOk(state.steps[i])
  /\ RulesOk(state)
  /\ state.modes # Absent =>
       /\ Is(state.modes, "list") /\ state.modes[2] # <<>>
       /\ IsInjective(state.modes[2])
       /\ ToSet(state.modes[2]) \subseteq modes

\* parse_states
FileOk(file) ==
  /\ SettingsOk(file.settings)
  /\ RulesOk(file.defaults)
  /\ file.modes # {}
  /\ file.states # <<>>
  /\ \A i \in DOMAIN file.states : StateOk(file.states[i], file.modes)
  /\ \A i, j \in DOMAIN file.states : file.states[i].name = file.states[j].name => i = j

ModesOf(file, state) == IF state.modes = Absent THEN file.modes ELSE ToSet(state.modes[2])

\* select: an unknown name is refused.  An option that is not given is {"all"} here.
NotGiven == {"all"}
SelectOk(file, names, modes) ==
  /\ names # NotGiven => names \subseteq {file.states[i].name : i \in DOMAIN file.states}
  /\ modes # NotGiven => modes \subseteq file.modes

\* The plan run_capture makes of a selection.
PlanOf(file, names, modes) ==
  (UNION {{<<m, file.states[i].name>> : m \in ModesOf(file, file.states[i])} :
            i \in {j \in DOMAIN file.states : names = NotGiven \/ file.states[j].name \in names}})
    \cap ((IF modes = NotGiven THEN file.modes ELSE modes) \X {file.states[i].name : i \in DOMAIN file.states})

-----------------------------------------------------------------------------
(* The rules of the comparison (load_rules in compare.py).                 *)

Or(value, default) == IF value = Absent THEN default ELSE value

\* The values of load_rules are compared with their limits, whatever their type; a
\* string or a malformed rectangle raises (TypeError), which not every caller catches.
RuleValuesOk(table, defaults) ==
  LET tolerance == Or(table.tolerance, Or(defaults.tolerance, <<"int", 3>>))
      ratio == Or(table.ratio, Or(defaults.ratio, <<"float", 0>>))
      mask == Or(table.mask, Or(defaults.mask, <<"list", <<>>>>))
  IN /\ ~Is(tolerance, "str") /\ Within(tolerance, 0, 255)
     /\ ~Is(ratio, "str") /\ Within(ratio, 0, 1)
     /\ Is(mask, "list")
     /\ \A i \in DOMAIN mask[2] :
          LET r == mask[2][i] IN Len(r) = 4 /\ 0 <= r[1] /\ r[1] < r[3] /\ 0 <= r[2] /\ r[2] < r[4]

LoadRulesOk(file) ==
  /\ RuleValuesOk(file.defaults, file.defaults)
  /\ \A i \in DOMAIN file.states : RuleValuesOk(file.states[i], file.defaults)

\* The masks that reach the settle loop and the comparison.
MasksOf(file, state) == Or(state.mask, Or(file.defaults.mask, <<"list", <<>>>>))[2]

\* The rules are keyed by name, and the last state of a name counts.
RuleModes(file, name) ==
  LET last == CHOOSE i \in DOMAIN file.states :
                /\ file.states[i].name = name
                /\ \A j \in DOMAIN file.states : file.states[j].name = name => j <= i
      modes == file.states[last].modes
  IN  IF modes = Absent THEN file.modes ELSE ToSet(modes[2])

\* compare passes over a shot of a mode its state's rule does not name.
IsCompared(file, mode, name) ==
  RuleModes(file, name) # {} => mode \in RuleModes(file, name)

-----------------------------------------------------------------------------
(* Carrying a step out.                                                    *)

\* abs_value
AbsValue(coordinate, size) == (2 * coordinate * AxisMax + (size - 1)) \div (2 * (size - 1))

\* The ValueErrors of pointer_move and abs_value, of send_keys and type_text, and of
\* _check_argv: none is raised for this value.
Performable(kind, value) ==
  CASE kind \in {"move", "click"} ->
         /\ 0 <= value[2] /\ value[2] < Width /\ 0 <= value[3] /\ value[3] < Height
         /\ AbsValue(value[2], Width) \in 0 .. AxisMax
         /\ AbsValue(value[3], Height) \in 0 .. AxisMax
    [] kind = "run" ->
         /\ value[2] # <<>> /\ Len(value[2]) <= MaxRunArgs
         /\ \A i \in DOMAIN value[2] : value[2][i] # "bad"
         /\ value[2][1] # "a=b"
    [] kind = "key" -> IsInjective(ParseChord(value[2]))
    [] kind = "type" -> \A i \in DOMAIN value[2] : IsInjective(TextToChords(value[2])[i])
    [] kind = "wait" -> 0 <= value[2]
    [] OTHER -> TRUE

-----------------------------------------------------------------------------
(* Properties, of a file and of a step.                                    *)

\* What the module text of states.py promises: a file the capture side accepts is one
\* the comparison side accepts, and both take the same pairs for planned, so that
\* every shot of a whole capture is compared and none of them lacks a rule; a
\* selection is a part of the plan, and its masks lie on the screen.
ReadersAgree(file, names, modes) ==
  FileOk(file) =>
    /\ LoadRulesOk(file)
    /\ \A m \in file.modes, i \in DOMAIN file.states :
         (<<m, file.states[i].name>> \in PlanOf(file, NotGiven, NotGiven))
           <=> IsCompared(file, m, file.states[i].name)
    /\ SelectOk(file, names, modes) =>
         PlanOf(file, names, modes) \subseteq PlanOf(file, NotGiven, NotGiven)
    /\ \A i \in DOMAIN file.states : \A j \in DOMAIN MasksOf(file, file.states[i]) :
         RectOk(MasksOf(file, file.states[i])[j])

\* "Validated HERE, before a VM is booted": an accepted step raises no ValueError when
\* it is carried out, and a chord presses no key twice (its release would come first).
AcceptedStepsRun(step) ==
  StepOk(step) =>
    \A kind \in DOMAIN step \cap StepKinds : Performable(kind, step[kind])
=============================================================================
