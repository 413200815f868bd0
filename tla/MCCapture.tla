------------------------------ MODULE MCCapture -----------------------------
(***************************************************************************)
(* Instance of the two tools that boot a guest and photograph it: Capture, *)
(* with two modes and a state that is captured in one of them only, and    *)
(* Stock.  `tool` says which of them a behaviour is about; the other one   *)
(* stands still.                                                           *)
(***************************************************************************)
EXTENDS Capture, Stock

VARIABLE tool

mcVars == <<vars, stockVars, tool>>

MCPlan == <<<<"light", "s1">>, <<"light", "s2">>, <<"dark", "s1">>>>

MCInit ==
  /\ Init /\ StockInit
  /\ tool \in {"capture", "stock"}
  /\ tool = "stock" => manifest = "none" /\ \A p \in Pairs : files[p] = "none"
  /\ tool = "capture" => named /\ report = "none" /\ \A p \in Chosen : pictures[p] = "none"

MCNext ==
  \/ tool = "capture" /\ Next /\ UNCHANGED <<stockVars, tool>>
  \/ tool = "stock" /\ StockNext /\ UNCHANGED <<vars, tool>>

MCSpec ==
  /\ MCInit /\ [][MCNext]_mcVars
  /\ WF_mcVars(tool = "capture" /\ Work /\ UNCHANGED <<stockVars, tool>>)
  /\ WF_mcVars(tool = "stock" /\ StockWork /\ UNCHANGED <<vars, tool>>)

\* Every run of either tool ends: at the end of its plan, by an error, or by a signal.
RunsEnd ==
  /\ tool = "capture" ~> pc = "end"
  /\ tool = "stock" ~> at = "end"
=============================================================================
