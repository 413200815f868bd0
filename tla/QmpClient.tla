------------------------------ MODULE QmpClient -----------------------------
(***************************************************************************)
(* Qmp.execute over a JsonLineChannel (harness/shots/qmp.py): commands     *)
(* carry an id, QEMU carries them out one after the other and writes the   *)
(* replies, with events between them, to the same stream.  A command whose *)
(* reply does not come in time is abandoned, not withdrawn: QEMU may still *)
(* carry it out, and its reply may still arrive.  A partial line survives  *)
(* a timeout in the channel's buffer, so a message is read whole or stays  *)
(* at the head of the stream.                                              *)
(***************************************************************************)
EXTENDS Integers, Sequences

CONSTANTS
  MaxCalls,  \* bound: commands sent on one connection
  MaxEvents  \* bound: events unread at any time

ASSUME QmpBoundsAssumption == MaxCalls \in Nat \ {0} /\ MaxEvents \in Nat

VARIABLES
  issued,    \* the id of the last command (itertools.count)
  waiting,   \* inside execute, reading the stream
  broken,    \* the connection is lost
  toQemu,    \* ids of the commands QEMU has not carried out yet
  toClient,  \* ids of the replies not read yet; Event for an event
  performed, \* ids of the commands QEMU has carried out
  answer     \* the id of the reply execute returned for each command, 0: none

vars == <<issued, waiting, broken, toQemu, toClient, performed, answer>>

Commands == 1 .. MaxCalls
Event == 0

Init ==
  /\ issued = 0
  /\ waiting = FALSE
  /\ broken = FALSE
  /\ toQemu = <<>>
  /\ toClient = <<>>
  /\ performed = {}
  /\ answer = [c \in Commands |-> 0]

-----------------------------------------------------------------------------
(* QEMU.                                                                   *)

\* QEMU carries out the oldest command and writes its reply, a result or an error.
QemuServes ==
  /\ toQemu # <<>>
  /\ performed' = performed \cup {Head(toQemu)}
  /\ toClient' = Append(toClient, Head(toQemu))
  /\ toQemu' = Tail(toQemu)
  /\ UNCHANGED <<issued, waiting, broken, answer>>

\* QEMU writes an asynchronous notification.
QemuNotifies ==
  /\ Len(SelectSeq(toClient, LAMBDA m : m = Event)) < MaxEvents
  /\ toClient' = Append(toClient, Event)
  /\ UNCHANGED <<issued, waiting, broken, toQemu, performed, answer>>

-----------------------------------------------------------------------------
(* Qmp.execute.                                                            *)

Execute ==
  /\ ~waiting
  /\ ~broken
  /\ issued < MaxCalls
  /\ issued' = issued + 1
  /\ toQemu' = Append(toQemu, issued + 1)
  /\ waiting' = TRUE
  /\ UNCHANGED <<broken, toClient, performed, answer>>

\* (Slip: any message that is not an event is taken for the reply.)
AnyReply(message) == message # Event

\* The message is the reply to the command just sent.
IsReply(message) == message = issued

Receive ==
  /\ waiting
  /\ toClient # <<>>
  /\ toClient' = Tail(toClient)
  /\ IF IsReply(Head(toClient))
     THEN /\ answer' = [answer EXCEPT ![issued] = Head(toClient)]
          /\ waiting' = FALSE
     ELSE UNCHANGED <<answer, waiting>>
  /\ UNCHANGED <<issued, broken, toQemu, performed>>

\* (Slip: the time allowed is that of one read, so every event grants it anew.)
TimeOutOfOneRead ==
  /\ waiting
  /\ toClient = <<>>
  /\ waiting' = FALSE
  /\ UNCHANGED <<issued, broken, toQemu, toClient, performed, answer>>

\* The deadline passes: TimeoutError.
TimeOut ==
  /\ waiting
  /\ waiting' = FALSE
  /\ UNCHANGED <<issued, broken, toQemu, toClient, performed, answer>>

\* The peer closes the socket: ConnectionError, now and for every later command.
Break ==
  /\ ~broken
  /\ broken' = TRUE
  /\ waiting' = FALSE
  /\ UNCHANGED <<issued, toQemu, toClient, performed, answer>>

Next ==
  \/ QemuServes
  \/ QemuNotifies
  \/ Execute
  \/ Receive
  \/ TimeOut
  \/ Break

\* execute reads the stream until its deadline: a reply that has arrived is read,
\* and an answered command does not wait for ever.
Fairness == WF_vars(Receive) /\ WF_vars(TimeOut)

Spec == Init /\ [][Next]_vars /\ Fairness

-----------------------------------------------------------------------------
(* Properties.                                                             *)

\* Every variable stays within its type, and nobody waits on a lost connection.
TypeOK ==
  /\ issued \in 0 .. MaxCalls
  /\ waiting \in BOOLEAN
  /\ broken \in BOOLEAN
  /\ broken => ~waiting
  /\ toQemu \in Seq(Commands)
  /\ toClient \in Seq(Commands \cup {Event})
  /\ performed \subseteq Commands
  /\ answer \in [Commands -> Commands \cup {0}]

\* Abstract state: a call is open while execute waits for its reply.
Abstract == INSTANCE RemoteCalls WITH open <- waiting

\* execute is a client that answers each call with that call's own reply, although
\* replies to abandoned commands and events come in between.
ImplementsCalls == Abstract!CallsSpec

\* Once a command is answered, no command sent before it is outstanding: the late
\* screendump of an abandoned poll can no longer overwrite a frame file, nor can an
\* abandoned key press reach the guest.
AnsweredMeansFlushed ==
  \A c \in Commands : answer[c] # 0 =>
    \A i \in 1 .. Len(toQemu) : toQemu[i] > c

\* execute always returns or raises.
ExecuteReturns == waiting ~> ~waiting
=============================================================================
