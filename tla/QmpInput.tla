------------------------------- MODULE QmpInput -----------------------------
(***************************************************************************)
(* Keys, text and the pointer (send_keys, type_text, pointer_move and      *)
(* pointer_click of harness/shots/qmp.py), command by command.  A command  *)
(* is answered, refused, or abandoned; what was abandoned QEMU may have    *)
(* carried out already, or may still carry out, in its order, but not      *)
(* after a later answer.  QmpSession shows that these are the commands'    *)
(* fates on a connection.                                                  *)
(***************************************************************************)
EXTENDS InputCommands

VARIABLES
  asked,  \* the operations asked for; the last one is current
  todo,   \* the commands of the current one not sent yet
  late,   \* abandoned commands QEMU has not carried out or dropped
  seen,   \* the commands carried out: what the guest has seen, list by list of events
  outcome \* of the current operation: "running", "ok" or "failed"

inputVars == <<asked, todo, late, seen, outcome>>

InputInit ==
  /\ asked = <<>> /\ todo = <<>> /\ late = <<>> /\ seen = <<>>
  /\ outcome = "ok"

Ask(op) ==
  /\ outcome # "running" /\ Len(asked) < MaxOps
  /\ asked' = Append(asked, op)
  /\ todo' = CommandsOf(op)
  /\ outcome' = "running"
  /\ UNCHANGED <<late, seen>>

\* The command is carried out and answered; after the last one the operation returns.
Answered ==
  /\ outcome = "running" /\ late = <<>>
  /\ seen' = Append(seen, Head(todo))
  /\ todo' = Tail(todo)
  /\ outcome' = IF Len(todo) = 1 THEN "ok" ELSE "running"
  /\ UNCHANGED <<asked, late>>

\* QmpError, or ConnectionError before QEMU has read the command.
Refused ==
  /\ outcome = "running"
  /\ outcome' = "failed"
  /\ todo' = <<>>
  /\ UNCHANGED <<asked, late, seen>>

\* (Slip: a command whose reply does not come in time is sent again.)
SendsAgain == UNCHANGED <<todo, outcome>>

\* No except clause here: the rest of the operation, the release of what is down
\* included, is not sent.
GivesUp == todo' = <<>> /\ outcome' = "failed"

\* TimeoutError, or ConnectionError once the command is sent.  QEMU has carried it out,
\* with all that was abandoned before, or has it still to do.
Abandoned ==
  /\ outcome = "running"
  /\ \/ late' = Append(late, Head(todo)) /\ UNCHANGED seen
     \/ late = <<>> /\ seen' = Append(seen, Head(todo)) /\ UNCHANGED late
  /\ GivesUp
  /\ UNCHANGED asked

\* QEMU carries out an abandoned command, or refuses it.
Late ==
  /\ late # <<>>
  /\ seen' \in {seen, Append(seen, Head(late))}
  /\ late' = Tail(late)
  /\ UNCHANGED <<asked, todo, outcome>>

InputNext ==
  \/ \E op \in Operations : Ask(op)
  \/ Answered
  \/ Refused
  \/ Abandoned
  \/ Late

InputSpec == InputInit /\ [][InputNext]_inputVars

-----------------------------------------------------------------------------
(* Properties.                                                             *)

\* An operation that returns was seen by the guest whole, once, and with nothing of an
\* abandoned one in between: a click presses where it was aimed at, a text has each
\* character once, and what it pressed it has released.  What is held down after it was
\* held before: a key that an operation given up has pressed and never released stays.
InputIsWhole ==
  outcome = "ok" /\ asked # <<>> =>
    LET own == CommandsOf(asked[Len(asked)])
        before == Len(seen) - Len(own)
    IN  /\ before >= 0
        /\ \A i \in 1 .. Len(own) : seen[before + i] = own[i]
        /\ Held(seen) \subseteq Held(SubSeq(seen, 1, before))
        /\ Len(asked) = 1 => Held(seen) = {}
=============================================================================
