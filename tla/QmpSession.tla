------------------------------ MODULE QmpSession ----------------------------
(***************************************************************************)
(* The input operations of harness/shots/qmp.py over the connection they   *)
(* really use: every command is an Qmp.execute of QmpClient, sent when the *)
(* one before was answered, carried out by QEMU when it comes to it, and   *)
(* over when its own reply is read, its time has passed, or the connection *)
(* breaks.  QmpInput is what remains when the ids, the replies and the     *)
(* stream are forgotten.                                                   *)
(***************************************************************************)
EXTENDS QmpClient, InputCommands

VARIABLES
  requests, \* the operations asked for; the last one is current
  rest,     \* commands of the current one not answered yet; the first may be under way
  fate,     \* of the current operation: "running", "ok" or "failed"
  bodies,   \* the command that was sent with each id
  errors,   \* the ids QEMU refused
  carried   \* the ids of the commands QEMU carried out, in that order

sessionVars == <<vars, requests, rest, fate, bodies, errors, carried>>

SessionInit ==
  /\ Init
  /\ requests = <<>> /\ rest = <<>> /\ fate = "ok"
  /\ bodies = <<>> /\ errors = {} /\ carried = <<>>

Request(op) ==
  /\ fate # "running" /\ Len(requests) < MaxOps
  /\ requests' = Append(requests, op)
  /\ rest' = CommandsOf(op)
  /\ fate' = "running"
  /\ UNCHANGED <<vars, bodies, errors, carried>>

\* _send_events calls execute for the next command.
Send ==
  /\ fate = "running"
  /\ Execute
  /\ bodies' = Append(bodies, Head(rest))
  /\ UNCHANGED <<requests, rest, fate, errors, carried>>

\* QEMU carries out the oldest command, or refuses it.
Serve ==
  /\ QemuServes
  /\ \/ carried' = Append(carried, Head(toQemu)) /\ UNCHANGED errors
     \/ errors' = errors \cup {Head(toQemu)} /\ UNCHANGED carried
  /\ UNCHANGED <<requests, rest, fate, bodies>>

Notify ==
  /\ QemuNotifies
  /\ UNCHANGED <<requests, rest, fate, bodies, errors, carried>>

\* An exception leaves the operation: nothing more of it is sent.
Fail == rest' = <<>> /\ fate' = "failed"

\* execute returns, and the operation goes on with its next command.
GoOn ==
  /\ rest' = Tail(rest)
  /\ fate' = IF Len(rest) = 1 THEN "ok" ELSE "running"

\* A message is read.  The command's own reply ends the wait, as a result or as a QmpError.
Read ==
  /\ Receive
  /\ IF waiting' THEN UNCHANGED <<rest, fate>>
     ELSE IF issued \in errors THEN Fail ELSE GoOn
  /\ UNCHANGED <<requests, bodies, errors, carried>>

\* (Slip: the operation goes on after a command whose reply did not come in time.)
GoesOnLate == GoOn

\* No except clause in the input operations: a TimeoutError leaves them.
AfterTimeout == Fail

Expire ==
  /\ TimeOut
  /\ AfterTimeout
  /\ UNCHANGED <<requests, bodies, errors, carried>>

\* The connection breaks, under a command or between two.
Lose ==
  /\ Break
  /\ IF waiting THEN Fail ELSE UNCHANGED <<rest, fate>>
  /\ UNCHANGED <<requests, bodies, errors, carried>>

\* execute on a lost connection: ConnectionError from send.
SendFails ==
  /\ fate = "running" /\ ~waiting /\ broken
  /\ Fail
  /\ UNCHANGED <<vars, requests, bodies, errors, carried>>

SessionNext ==
  \/ \E op \in Operations : Request(op)
  \/ Send
  \/ Serve
  \/ Notify
  \/ Read
  \/ Expire
  \/ Lose
  \/ SendFails

SessionSpec == SessionInit /\ [][SessionNext]_sessionVars

-----------------------------------------------------------------------------
(* Properties.                                                             *)

\* The command under way is no past yet: it counts as carried out once it is answered or
\* given up.
IsUnderWay(id) == waiting /\ id = issued

Outstanding ==
  IF toQemu # <<>> /\ IsUnderWay(Last(toQemu)) THEN Front(toQemu) ELSE toQemu

Past ==
  IF carried # <<>> /\ IsUnderWay(Last(carried)) THEN Front(carried) ELSE carried

Contents(ids) == [i \in DOMAIN ids |-> bodies[ids[i]]]

\* The operations without the connection.
Input == INSTANCE QmpInput WITH
  asked <- requests, todo <- rest, outcome <- fate,
  late <- Contents(Outstanding), seen <- Contents(Past)

\* On a connection with late replies, events, timeouts and refusals in any order, the
\* operations are what QmpInput says: answered commands in their order, and behind an
\* operation given up at most the command it was waiting for, carried out before
\* anything that is answered later.
SessionImplementsInput == Input!InputSpec
=============================================================================
