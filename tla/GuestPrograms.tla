---------------------------- MODULE GuestPrograms ---------------------------
(***************************************************************************)
(* What the harness does in the guest through the agent: exec, start,      *)
(* run_as_user with the session's environment, write_file, cpu_sample,     *)
(* process_running and wait_ready (harness/shots/guest.py).  Each is a     *)
(* sequence of agent calls, and each call is answered, refused, or         *)
(* abandoned; what was abandoned the agent may still carry out, in its     *)
(* order, but not after a later answer (RemoteCalls, which                 *)
(* GuestAgent.call implements).                                            *)
(***************************************************************************)
EXTENDS Integers, Sequences, FiniteSets

CONSTANTS
  Chunks,       \* guest-file-writes a file takes, at least one
  MaxGuestOps   \* bound: operations on one connection

ASSUME GuestAssumption == Chunks \in Nat \ {0} /\ MaxGuestOps \in Nat \ {0}

Operations == {"ready", "start", "run", "query", "write"}

VARIABLES
  op,       \* number of the current operation
  kind,     \* which one it is
  tasks,    \* what is left of it, as <<task, program>>, "none" for no program
  polling,  \* the pid exec waits for, 0 if none
  failed,   \* an exception is on its way through the finally clause
  result,   \* of the current operation: "running", "ok" or "raised"
  cached,   \* _session_env is set
  pending,  \* abandoned calls the agent has not carried out
  programs, \* the programs started, by pid: whose and which, running or exit code
  session,  \* the desktop session has exported its variables
  file      \* the file that is written: its content, its owner, its open handles

client == <<op, kind, tasks, polling, failed, result, cached>>
guestVars == <<client, pending, programs, session, file>>

GuestInit ==
  /\ op = 0 /\ kind = "ready" /\ tasks = <<>> /\ polling = 0 /\ failed = FALSE
  /\ result = "ok"
  /\ cached = FALSE
  /\ pending = <<>>
  /\ programs = <<>>
  /\ session \in BOOLEAN
  /\ file = [content |-> <<>>, owner |-> "none", handles |-> {}]

-----------------------------------------------------------------------------
(* The guest.                                                              *)

\* What carrying out a call does: a call is <<operation, task, program>>.
Started(call) ==
  IF call[2] = "exec" THEN Append(programs, [op |-> call[1], name |-> call[3], exit |-> "none"])
  ELSE programs

Written(call) ==
  CASE call[2] = "open" ->
         [content |-> <<>>, owner |-> IF file.owner = "none" THEN "root" ELSE file.owner,
          handles |-> file.handles \cup {call[1]}]
    [] call[2] = "write" /\ call[1] \in file.handles ->
         [file EXCEPT !.content = Append(@, call[1])]
    [] call[2] = "close" -> [file EXCEPT !.handles = @ \ {call[1]}]
    [] OTHER -> file

CarryOut(call) == programs' = Started(call) /\ file' = Written(call)

\* The agent carries out an abandoned call, refuses it, or restarts and forgets it.
CarryOutLate ==
  /\ pending # <<>>
  /\ CarryOut(Head(pending)) \/ UNCHANGED <<programs, file>>
  /\ pending' = Tail(pending)
  /\ UNCHANGED <<client, session>>

\* A program ends; chown has given the file to the user if it exits with 0.
ProgramEnds(pid, exit) ==
  /\ programs[pid].exit = "none"
  /\ programs' = [programs EXCEPT ![pid].exit = exit]
  /\ file' = IF programs[pid].name = "chown" /\ exit = "zero"
             THEN [file EXCEPT !.owner = "user"] ELSE file
  /\ UNCHANGED <<client, pending, session>>

SessionStarts ==
  /\ ~session
  /\ session' = TRUE
  /\ UNCHANGED <<client, pending, programs, file>>

-----------------------------------------------------------------------------
(* The operations.                                                         *)

Exec(name) == <<<<"exec", name>>, <<"poll", name>>>>

\* session_environment
Lookup == IF cached THEN <<>> ELSE Exec("lookup")

\* The data is written chunk by chunk, an empty file as one empty chunk.
WriteTasks ==
  <<<<"open", "none">>>> \o [n \in 1 .. Chunks |-> <<"write", "none">>] \o <<<<"close", "none">>>>

TasksOf(operation) ==
  CASE operation = "ready" -> <<<<"ping", "none">>>>
    [] operation = "start" -> Lookup \o <<<<"exec", "program">>>>
    [] operation = "run" -> Lookup \o Exec("program")
    [] operation = "query" -> Exec("program")
    [] operation = "write" -> Lookup \o Exec("mkdir") \o WriteTasks \o Exec("chown")

Ask(operation) ==
  /\ result # "running" /\ op < MaxGuestOps
  /\ op' = op + 1
  /\ kind' = operation
  /\ tasks' = TasksOf(operation)
  /\ polling' = 0
  /\ failed' = FALSE
  /\ result' = "running"
  /\ UNCHANGED <<cached, pending, programs, session, file>>

Task == Head(tasks)[1]
Call == <<op, Task, Head(tasks)[2]>>
Calling == result = "running" /\ Task # "poll"

\* The operation goes on with the next task, or returns.
Advance ==
  /\ tasks' = Tail(tasks)
  /\ result' = IF Len(tasks) > 1 THEN "running" ELSE IF failed THEN "raised" ELSE "ok"

\* (Slip: a chunk whose reply does not come in time is written once more.)
RaiseUnlessWrite ==
  IF Task = "write" THEN UNCHANGED <<tasks, failed, result>>
  ELSE tasks' = <<>> /\ result' = "raised" /\ UNCHANGED failed

\* An exception leaves the operation; from the writes it goes through the close.
Raise ==
  IF Task = "write"
  THEN tasks' = <<<<"close", "none">>>> /\ failed' = TRUE /\ UNCHANGED result
  ELSE tasks' = <<>> /\ result' = "raised" /\ UNCHANGED failed

CallAnswered ==
  /\ Calling /\ pending = <<>>
  /\ CarryOut(Call)
  /\ polling' = IF Task = "exec" THEN Len(programs) + 1 ELSE polling
  /\ Advance
  /\ UNCHANGED <<op, kind, failed, cached, pending, session>>

\* GuestAgentError.
CallRefused ==
  /\ Calling /\ pending = <<>>
  /\ Raise
  /\ UNCHANGED <<op, kind, polling, cached, pending, programs, session, file>>

\* (Slip: exec asks for its program again, as wait_ready asks for the agent.)
RetriesExec == Task \in {"ping", "exec"}

\* wait_ready calls again until its own time is over.
Retries == Task = "ping"

\* TimeoutError, and ConnectionError once the agent may have read the call.
CallAbandoned ==
  /\ Calling /\ Len(pending) < 2
  /\ pending' = Append(pending, Call)
  /\ \/ Retries /\ UNCHANGED <<tasks, failed, result>>
     \/ Raise
  /\ UNCHANGED <<op, kind, polling, cached, programs, session, file>>

\* exec sees that its program has ended.  mkdir and chown must have exited with 0, as
\* must the programs of cpu_sample; the environment is kept once it was really seen.
PollAnswered(seen) ==
  /\ result = "running" /\ Task = "poll" /\ pending = <<>>
  /\ programs[polling].exit # "none"
  /\ seen => Call[3] = "lookup" /\ session /\ programs[polling].exit = "zero"
  /\ cached' = (cached \/ seen)
  /\ polling' = 0
  /\ IF Call[3] \in {"mkdir", "chown"} /\ programs[polling].exit # "zero"
     THEN Raise ELSE Advance /\ UNCHANGED failed
  /\ UNCHANGED <<op, kind, pending, programs, session, file>>

\* A poll fails, or the time of exec is over.  The program is left to itself.
PollFails ==
  /\ result = "running" /\ Task = "poll"
  /\ polling' = 0
  /\ Raise
  /\ UNCHANGED <<op, kind, cached, pending, programs, session, file>>

GuestNext ==
  \/ CarryOutLate
  \/ \E pid \in DOMAIN programs, exit \in {"zero", "nonzero"} : ProgramEnds(pid, exit)
  \/ SessionStarts
  \/ \E operation \in Operations : Ask(operation)
  \/ CallAnswered
  \/ CallRefused
  \/ CallAbandoned
  \/ \E seen \in BOOLEAN : PollAnswered(seen)
  \/ PollFails

GuestSpec == GuestInit /\ [][GuestNext]_guestVars

-----------------------------------------------------------------------------
(* Properties.                                                             *)

\* A write_file that returns leaves the whole of its data, nothing of an earlier one
\* that was given up, its handle closed, and the file the user's.
WrittenIsWhole ==
  kind = "write" /\ result = "ok" /\ op > 0 =>
    /\ file.content = [n \in 1 .. Chunks |-> op]
    /\ file.owner = "user"
    /\ op \notin file.handles

Mine(name) == {pid \in DOMAIN programs : programs[pid].op = op /\ programs[pid].name = name}

\* No operation starts a program twice, and one that waits and returns has seen all its
\* programs end: what goes on running was started to be left alone, or was given up.
OnlyAbandonedRun ==
  /\ \A p, q \in DOMAIN programs :
       programs[p].op = programs[q].op /\ programs[p].name = programs[q].name => p = q
  /\ result = "ok" /\ kind \in {"run", "query", "write"} =>
       \A pid \in DOMAIN programs : programs[pid].op = op => programs[pid].exit # "none"
  /\ result = "ok" /\ kind \in {"start", "run", "query"} => Mine("program") # {}
=============================================================================
