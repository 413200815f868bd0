-------------------------- MODULE GuestAgentClient --------------------------
(***************************************************************************)
(* GuestAgent.call (harness/shots/guest.py) over a JsonLineChannel.  The   *)
(* agent's replies carry no id, so every command is preceded by a          *)
(* guest-sync with a fresh number: what arrives before its echo is thrown  *)
(* away, and the first message after it is taken for the reply.  The agent *)
(* may be slow (it may not have started), and a restart of the agent loses *)
(* the request it was working on.                                          *)
(*                                                                         *)
(* A message is a number: c for command c or its reply, -s for the request *)
(* or the echo of sync s.                                                  *)
(***************************************************************************)
EXTENDS Integers, Sequences

CONSTANTS
  MaxCalls, \* bound: commands sent on one connection
  MaxSyncs  \* bound: guest-syncs sent on one connection

ASSUME AgentBoundsAssumption == MaxCalls \in Nat \ {0} /\ MaxSyncs \in Nat

VARIABLES
  pc,        \* "idle", "sync": waiting for the echo, "call": for the reply
  syncs,     \* _sync_id, counted from the client's seed
  issued,    \* number of commands sent
  broken,    \* the connection is lost
  toAgent,   \* requests the agent has not carried out yet
  toClient,  \* replies not read yet
  performed, \* the commands the agent has carried out
  answer     \* the message `call` took for the reply to each command, 0: none

vars == <<pc, syncs, issued, broken, toAgent, toClient, performed, answer>>

Commands == 1 .. MaxCalls
Messages == (-MaxSyncs .. MaxCalls) \ {0}

Init ==
  /\ pc = "idle"
  /\ syncs = 0
  /\ issued = 0
  /\ broken = FALSE
  /\ toAgent = <<>>
  /\ toClient = <<>>
  /\ performed = {}
  /\ answer = [c \in Commands |-> 0]

-----------------------------------------------------------------------------
(* The agent inside the guest.                                             *)

PerformedWith(message) ==
  IF message > 0 THEN performed \cup {message} ELSE performed

\* The agent carries out the oldest request and replies.
AgentServes ==
  /\ toAgent # <<>>
  /\ performed' = PerformedWith(Head(toAgent))
  /\ toClient' = Append(toClient, Head(toAgent))
  /\ toAgent' = Tail(toAgent)
  /\ UNCHANGED <<pc, syncs, issued, broken, answer>>

\* The agent restarts while it works on a request, before or after its effect.
AgentRestarts ==
  /\ toAgent # <<>>
  /\ performed' \in {performed, PerformedWith(Head(toAgent))}
  /\ toAgent' = Tail(toAgent)
  /\ UNCHANGED <<pc, syncs, issued, broken, toClient, answer>>

-----------------------------------------------------------------------------
(* GuestAgent.call.                                                        *)

\* Entry of call: _sync sends the next number.
Sync ==
  /\ pc = "idle"
  /\ ~broken
  /\ syncs < MaxSyncs
  /\ issued < MaxCalls
  /\ syncs' = syncs + 1
  /\ toAgent' = Append(toAgent, -(syncs + 1))
  /\ pc' = "sync"
  /\ UNCHANGED <<issued, broken, toClient, performed, answer>>

\* (Slip: an echo is taken for the echo of this sync whatever its number.)
AnyEcho(message) == message < 0

\* The message is the echo of the sync just sent.
IsEcho(message) == message = -syncs

\* _sync throws a stale message away.
DiscardStale ==
  /\ pc = "sync"
  /\ toClient # <<>>
  /\ ~IsEcho(Head(toClient))
  /\ toClient' = Tail(toClient)
  /\ UNCHANGED <<pc, syncs, issued, broken, toAgent, performed, answer>>

\* _sync sees its echo, and call sends the command.
SendCommand ==
  /\ pc = "sync"
  /\ toClient # <<>>
  /\ IsEcho(Head(toClient))
  /\ toClient' = Tail(toClient)
  /\ issued' = issued + 1
  /\ toAgent' = Append(toAgent, issued + 1)
  /\ pc' = "call"
  /\ UNCHANGED <<syncs, broken, performed, answer>>

\* The next message is the reply, a result or an error.
TakeReply ==
  /\ pc = "call"
  /\ toClient # <<>>
  /\ answer' = [answer EXCEPT ![issued] = Head(toClient)]
  /\ toClient' = Tail(toClient)
  /\ pc' = "idle"
  /\ UNCHANGED <<syncs, issued, broken, toAgent, performed>>

\* (Slip: only the wait for the reply has a deadline.)
TimeOutOfReply ==
  /\ pc = "call"
  /\ pc' = "idle"
  /\ UNCHANGED <<syncs, issued, broken, toAgent, toClient, performed, answer>>

\* The time for the echo, or for the reply, is over: TimeoutError.
TimeOut ==
  /\ pc # "idle"
  /\ pc' = "idle"
  /\ UNCHANGED <<syncs, issued, broken, toAgent, toClient, performed, answer>>

\* QEMU closes the socket: ConnectionError, now and for every later call.
Break ==
  /\ ~broken
  /\ broken' = TRUE
  /\ pc' = "idle"
  /\ UNCHANGED <<syncs, issued, toAgent, toClient, performed, answer>>

Next ==
  \/ AgentServes
  \/ AgentRestarts
  \/ Sync
  \/ DiscardStale
  \/ SendCommand
  \/ TakeReply
  \/ TimeOut
  \/ Break

\* Both waits have a deadline, and a message that has arrived is read.
Fairness ==
  /\ WF_vars(DiscardStale)
  /\ WF_vars(SendCommand)
  /\ WF_vars(TakeReply)
  /\ WF_vars(TimeOut)

Spec == Init /\ [][Next]_vars /\ Fairness

-----------------------------------------------------------------------------
(* Properties.                                                             *)

\* Every variable stays within its type, and nobody waits on a lost connection.
TypeOK ==
  /\ pc \in {"idle", "sync", "call"}
  /\ broken \in BOOLEAN
  /\ broken => pc = "idle"
  /\ syncs \in 0 .. MaxSyncs
  /\ issued \in 0 .. MaxCalls
  /\ toAgent \in Seq(Messages)
  /\ toClient \in Seq(Messages)
  /\ performed \subseteq Commands
  /\ answer \in [Commands -> Messages \cup {0}]

\* Abstract state: a call is open from the sending of the command on.
Abstract == INSTANCE RemoteCalls WITH open <- pc = "call"

\* What the class text promises: stale replies cannot be mistaken for the answer,
\* although no reply says which command it answers.
ImplementsCalls == Abstract!CallsSpec

\* While a command is under way nothing older is: neither a stale reply that could
\* be read for it, nor an abandoned command (a guest-exec whose reply timed out)
\* that the guest could still start behind it.
SyncFlushes ==
  pc = "call" =>
    /\ \A i \in 1 .. Len(toAgent) : toAgent[i] = issued
    /\ \A i \in 1 .. Len(toClient) : toClient[i] = issued

\* A call always returns or raises.
CallReturns == pc # "idle" ~> pc = "idle"
=============================================================================
