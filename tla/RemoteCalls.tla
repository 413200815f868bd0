----------------------------- MODULE RemoteCalls ----------------------------
(***************************************************************************)
(* What a client of the VM promises its callers, whichever channel it      *)
(* speaks: calls are made one at a time, the other side performs them in   *)
(* the order they were made, each at most once, and an answer belongs to   *)
(* the call it is given to.  A call that was given up may still be         *)
(* performed, but never after a later call has been answered.              *)
(***************************************************************************)
EXTENDS Integers

CONSTANT MaxCalls \* bound: calls made in one connection

VARIABLES
  issued,    \* number of calls made; the last one is call `issued`
  open,      \* the last call is still waited for
  performed, \* the calls the other side has carried out
  answer     \* the call whose reply was returned for call c, 0 for none

callVars == <<issued, open, performed, answer>>

Calls == 1 .. MaxCalls

CallsInit ==
  /\ issued = 0
  /\ open = FALSE
  /\ performed = {}
  /\ answer = [c \in Calls |-> 0]

Issue ==
  /\ ~open
  /\ issued < MaxCalls
  /\ issued' = issued + 1
  /\ open' = TRUE
  /\ UNCHANGED <<performed, answer>>

Perform(c) ==
  /\ c <= issued
  /\ \A d \in performed : d < c
  /\ \A d \in Calls : d >= c => answer[d] = 0
  /\ performed' = performed \cup {c}
  /\ UNCHANGED <<issued, open, answer>>

Return ==
  /\ open
  /\ issued \in performed
  /\ answer' = [answer EXCEPT ![issued] = issued]
  /\ open' = FALSE
  /\ UNCHANGED <<issued, performed>>

GiveUp ==
  /\ open
  /\ open' = FALSE
  /\ UNCHANGED <<issued, performed, answer>>

CallsNext ==
  \/ Issue
  \/ \E c \in Calls : Perform(c)
  \/ Return
  \/ GiveUp

CallsSpec == CallsInit /\ [][CallsNext]_callVars
=============================================================================
