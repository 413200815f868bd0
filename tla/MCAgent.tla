------------------------------- MODULE MCAgent ------------------------------
(***************************************************************************)
(* Instance of the guest agent client: one connection with its messages    *)
(* (GuestAgentClient) and the operations made of its calls                 *)
(* (GuestPrograms).  `part` says which of them a behaviour is about; the   *)
(* other one stands still.                                                 *)
(***************************************************************************)
EXTENDS GuestAgentClient, GuestPrograms

VARIABLE part

mcVars == <<vars, guestVars, part>>

MCInit == Init /\ GuestInit /\ part \in {"call", "programs"}

MCNext ==
  \/ part = "call" /\ Next /\ UNCHANGED <<guestVars, part>>
  \/ part = "programs" /\ GuestNext /\ UNCHANGED <<vars, part>>

MCSpec ==
  /\ MCInit /\ [][MCNext]_mcVars
  /\ \A step \in {1, 2, 3, 4} :
       WF_mcVars(/\ part = "call"
                 /\ \/ step = 1 /\ DiscardStale
                    \/ step = 2 /\ SendCommand
                    \/ step = 3 /\ TakeReply
                    \/ step = 4 /\ TimeOut
                 /\ UNCHANGED <<guestVars, part>>)
=============================================================================
