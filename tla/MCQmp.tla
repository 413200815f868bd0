-------------------------------- MODULE MCQmp -------------------------------
(***************************************************************************)
(* Instance of the harness's hold on the guest's screen, keyboard and      *)
(* pointer: the input operations on one QMP connection (QmpSession, and in *)
(* it QmpClient), the same operations as fates of commands (QmpInput), and *)
(* the screenshots of the gpu mode (Vnc), which VncScreen takes in place   *)
(* of QMP's.  `part` says which of them a behaviour is about; the others   *)
(* stand still.                                                            *)
(***************************************************************************)
EXTENDS QmpSession, QmpInput, Vnc

VARIABLE part

mcVars == <<sessionVars, inputVars, vncVars, part>>

MCKeys == {"meta", "shift", "w", "a", "b"}
MCPlaces == {"corner", "button"}

MCOperations ==
  {<<"keys", <<"meta", "w">>>>, <<"type", <<<<"shift", "a">>, <<"b">>>>>>,
   <<"move", "corner">>, <<"click", "button">>}

MCSizes == {<<2, 2>>, <<3, 2>>, <<0, 2>>, <<3, 3>>}

InSession(action) == part = "session" /\ action /\ UNCHANGED <<inputVars, vncVars, part>>
InGrab(action) == part = "grab" /\ action /\ UNCHANGED <<sessionVars, inputVars, part>>

MCInit == SessionInit /\ InputInit /\ VncInit /\ part \in {"session", "fates", "grab"}

MCNext ==
  \/ InSession(SessionNext)
  \/ part = "fates" /\ InputNext /\ UNCHANGED <<sessionVars, vncVars, part>>
  \/ InGrab(VncNext)

\* A reply that is there is received, time passes, and what is over is given up.
MCSpec ==
  /\ MCInit /\ [][MCNext]_mcVars
  /\ WF_mcVars(InSession(Read)) /\ WF_mcVars(InSession(Expire))
  /\ WF_mcVars(InGrab(Tick)) /\ WF_mcVars(InGrab(DeadlineRaises))
  /\ WF_mcVars(InGrab(UpdateEnds))

\* Nothing holds the harness for ever: neither events and other commands' replies, nor
\* a VNC server that goes on talking and never sends the frame.
CallsReturn ==
  /\ ExecuteReturns
  /\ Grabbing ~> ~Grabbing
=============================================================================
