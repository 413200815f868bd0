------------------------------ MODULE MCGoldens -----------------------------
(***************************************************************************)
(* Instance of the screenshot files for TLC: the tools over the            *)
(* directories (Goldens), the repeated capture (Determinism), the pure     *)
(* functions they rest on (PureFunctions), applied to every input of small *)
(* sets.  `part` says which of them a behaviour is about.                  *)
(***************************************************************************)
EXTENDS Goldens, Determinism, PureFunctions, TLC

VARIABLE part

mcVars == <<vars, detVars, functionVars, part>>

MCSymmetry == Permutations(Looks) \cup Permutations(Planned)

\* Tolerance makes likeness intransitive.
MCClose == (Shows \X Shows) \ {<<"a", "c">>, <<"c", "a">>}

-----------------------------------------------------------------------------
(* Inputs.                                                                 *)

Mask(x0, y0, x1, y1) == [x0 |-> x0, y0 |-> y0, x1 |-> x1, y1 |-> y1]
MaskSets ==
  {{}, {Mask(0, 0, 1, 1)}, {Mask(0, 0, 2, 1)}, {Mask(0, 1, 2, 2)}, {Mask(1, 1, 2, 3)},
   {Mask(0, 0, 1, 2), Mask(1, 2, 2, 3)}}

MCFrames == [Ys -> [Xs -> {0, 1}]]
MCFrameInputs == [a : MCFrames, b : MCFrames, masks : MaskSets, tolerance : {0, 1}]

\* The Paeth predictor needs four levels for its ties, and two rows.
MCPngInputs ==
  [picture : {p \in Pictures : \A y \in Ys : y >= 2 => p[y] = [x \in Xs |-> 0]},
   filters : {f \in [Ys -> Filters] : \A y \in Ys : y >= 2 => f[y] = "none"}]

KeyParts == {"meta", "super", "ctrl", "w", "esc", ""}
Words == {"word", "a=b", "bad"}
Coordinates == {<<"pair", x, y>> : x \in -1 .. Width, y \in -1 .. Height}
Odd == <<"str">>
ValuesOf(kind) ==
  CASE kind = "key" -> {<<"parts", s>> : s \in SeqOf(KeyParts, 3)} \cup {Odd}
    [] kind = "type" -> {<<"chars", s>> : s \in SeqOf({"lower", "upper", "other"}, 2)} \cup {Odd}
    [] kind \in {"move", "click"} -> Coordinates \cup {Odd}
    [] kind = "run" -> {<<"list", s>> : s \in SeqOf(Words, MaxRunArgs + 1)} \cup {Odd}
    [] kind = "wait" -> {<<"int", -1>>, <<"int", 0>>, <<"float", 60>>, <<"int", 61>>, <<"bool", 1>>}
    [] OTHER -> {<<"bool", TRUE>>, <<"bool", FALSE>>, <<"int", 1>>}

OneKey == UNION {{kind :> value : value \in ValuesOf(kind)} : kind \in StepKinds}
WithExit == {"wait_exit" :> <<"bool", TRUE>>, "wait_exit" :> <<"int", 1>>}
MCStepInputs ==
  OneKey \cup {step @@ waits : step \in OneKey, waits \in WithExit}
    \cup {"wiat" :> <<"int", 1>>, ("key" :> <<"parts", <<"w">>>>) @@ ("settle" :> <<"bool", TRUE>>)}

Tolerances == {Absent, <<"int", 0>>, <<"int", 255>>, <<"int", 256>>, <<"bool", 1>>, Odd}
Ratios == {Absent, <<"float", 1>>, <<"int", 2>>}
MaskLists ==
  {Absent, Odd, <<"list", <<<<0, 0, Width, Height>>>>>>, <<"list", <<<<0, 0, Width + 1, 1>>>>>>,
   <<"list", <<<<1, 0, 1, 1>>>>>>, <<"list", <<<<0, 0>>>>>>}
RuleTables == [tolerance : Tolerances, ratio : Ratios, mask : MaskLists]
NoRules == [tolerance |-> Absent, ratio |-> Absent, mask |-> Absent]
ModeLists ==
  {Absent, Odd, <<"list", <<>>>>, <<"list", <<"dark">>>>, <<"list", <<"dark", "light">>>>,
   <<"list", <<"dark", "dark">>>>, <<"list", <<"neon">>>>}

AState(name, steps, modes, rules) ==
  [name |-> name, steps |-> steps, modes |-> modes] @@ rules
SomeSettings ==
  [frames |-> <<"int", 2>>, interval |-> <<"float", 5>>, timeout |-> <<"int", 600>>, reset |-> <<>>]
AFile(settings, defaults, modes, states) ==
  [settings |-> settings, defaults |-> defaults, modes |-> modes, states |-> states]

FilesOfRules ==
  {AFile(SomeSettings, defaults, {"light"}, <<AState("s1", <<>>, Absent, rules)>>) :
     defaults \in RuleTables, rules \in RuleTables}
FilesOfModes ==
  {AFile(SomeSettings, NoRules, modes, <<AState(n1, <<>>, m1, NoRules), AState(n2, <<>>, m2, NoRules)>>) :
     modes \in {{}, {"dark"}, {"light", "dark"}}, n1 \in {"s1", "s2"}, n2 \in {"s2", "Bad Name"},
     m1 \in ModeLists, m2 \in ModeLists}
FilesOfSettings ==
  {AFile([frames |-> f, interval |-> i, timeout |-> t, reset |-> <<s>>], NoRules, {"light"},
         <<AState("s1", <<s>>, Absent, NoRules)>>) :
     f \in {<<"int", 0>>, <<"int", 10>>, <<"int", 11>>, <<"float", 2>>}, i \in {<<"int", 0>>, <<"float", 1>>},
     t \in {<<"int", 600>>, <<"int", 6001>>}, s \in {"wait" :> <<"int", 1>>, "wait" :> <<"int", 61>>}}
MCFileInputs ==
  [file : FilesOfRules \cup FilesOfSettings, names : {{"all"}}, modes : {{"all"}}]
    \cup [file : FilesOfModes, names : {{"all"}, {"s1"}, {"s1", "s3"}}, modes : {{"all"}, {"dark"}, {"neon"}}]

-----------------------------------------------------------------------------

NoGoldens ==
  /\ shots = [f \in Files |-> "none"] /\ goldens = shots /\ job = "none" /\ pc = "off"
  /\ chosen = {} /\ todo = {} /\ done = {} /\ exit = 0
NoDeterminism ==
  run = 0 /\ worst = 0 /\ folders = <<>> /\ ended = TRUE /\ code = -1 /\ fresh = {}
NoFunction == function = "none" /\ input = <<>> /\ result = <<>>

MCInit ==
  \/ part = "goldens" /\ Init /\ NoDeterminism /\ NoFunction
  \/ part = "determinism" /\ NoGoldens /\ DetInit /\ NoFunction
  \/ part = "functions" /\ NoGoldens /\ NoDeterminism /\ FunctionInit

MCNext ==
  \/ part = "goldens" /\ Next /\ UNCHANGED <<detVars, functionVars, part>>
  \/ part = "determinism" /\ DetNext /\ UNCHANGED <<vars, functionVars, part>>
  \/ part = "functions" /\ FunctionNext /\ UNCHANGED <<vars, detVars, part>>

MCSpec == MCInit /\ [][MCNext]_mcVars
=============================================================================
