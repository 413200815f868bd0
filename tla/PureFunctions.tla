---------------------------- MODULE PureFunctions ---------------------------
(***************************************************************************)
(* The functions the tools over screenshots rest on: one step from an      *)
(* input to the result.  What they compute is in Frames (decoding and      *)
(* comparing pictures) and StatesFile (states.toml and its steps).         *)
(***************************************************************************)
EXTENDS Frames, StatesFile

CONSTANTS
  FrameInputs, \* two frames or screenshots, with masks and a tolerance
  PngInputs,   \* a picture and the filters an encoder has picked for its rows
  StepInputs,  \* steps of a state
  FileInputs   \* states files, with the selection of a command line

\* A list of names, of steps or of numbers is a sequence; what the entries are is open.
IsSequence(s) == s \in Seq({s[i] : i \in DOMAIN s})

ASSUME FunctionInputsAssumption ==
  /\ FrameInputs \subseteq [a : Pictures, b : Pictures, masks : SUBSET Rects, tolerance : Nat]
  /\ PngInputs \subseteq [picture : Pictures, filters : [Ys -> Filters]]
  /\ \A step \in StepInputs : \A kind \in DOMAIN step : ValueType(step[kind])
  /\ \A i \in FileInputs :
       /\ IsSequence(i.file.states)
       /\ \A s \in DOMAIN i.file.states : ValueType(i.file.states[s].modes)

VARIABLES
  function, \* "frames", "png", "step" or "file"
  input,    \* what it is applied to
  result    \* what it returns, <<>> before

functionVars == <<function, input, result>>

FunctionInit ==
  /\ result = <<>>
  /\ \/ function = "frames" /\ input \in FrameInputs
     \/ function = "png" /\ input \in PngInputs
     \/ function = "step" /\ input \in StepInputs
     \/ function = "file" /\ input \in FileInputs

Returns(which, value) ==
  /\ function = which /\ result = <<>>
  /\ result' = <<value>>
  /\ UNCHANGED <<function, input>>

FunctionNext ==
  \/ Returns("frames", FramesMatch(input.a, input.b, input.masks))
  \/ Returns("png", Unfilter(Encode(input.picture, input.filters)))
  \/ Returns("step", StepOk(input))
  \/ Returns("file", FileOk(input.file))

FunctionSpec == FunctionInit /\ [][FunctionNext]_functionVars

-----------------------------------------------------------------------------
(* Properties.                                                             *)

\* frames_match is exact, and a painted difference shows what the comparison counted.
ComparisonExact ==
  function = "frames" /\ result # <<>> =>
    /\ result = <<AgreeOutside(input.a, input.b, input.masks)>>
    /\ DiffShowsVerdict(input.a, input.b, input.tolerance, 5000, input.masks)

\* read_png undoes every filter in every row.
PngDecoded == function = "png" /\ result # <<>> => result = <<input.picture>>

\* What is compared is what the files hold, and what is reported is what was compared.
PicturesExact == ComparisonExact /\ PngDecoded

\* The readers of states.toml agree about every file.
FileReadersAgree ==
  function = "file" /\ result # <<>> => ReadersAgree(input.file, input.names, input.modes)

\* Every step that is let through can be carried out.
StepsValidated ==
  function = "step" /\ result # <<>> => AcceptedStepsRun(input)

\* A states file that is accepted means the same to every tool, and all of it can be done.
StatesFileSound == FileReadersAgree /\ StepsValidated
=============================================================================
