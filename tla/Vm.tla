---------------------------------- MODULE Vm --------------------------------
(***************************************************************************)
(* The life of Vm (harness/shots/vm.py): start boots QEMU and connects to  *)
(* it, the body of the with block uses it, stop ends it.  A failure or a   *)
(* signal at any step of start or of the body leads to stop, which also    *)
(* has to cope with a QEMU that died, that hangs, that was asked to quit   *)
(* and takes its time, or that left a process of its group behind.  The    *)
(* directory and the process exist before the attribute that stop knows    *)
(* them by is assigned: a failure or a signal in between is a case of its  *)
(* own.                                                                    *)
(***************************************************************************)
CONSTANT
  SignalsIn \* where else than between two steps of start and in the body a signal may
            \* arrive: "creation" (mkdtemp, Popen), "stop"

ASSUME SignalsInAssumption == SignalsIn \subseteq {"creation", "stop"}

VARIABLES
  pc,      \* the next step of start or stop; "body"; "out" of the with block
  qemu,    \* the QEMU process: "none", "running", "quitting" or "gone"
  helpers, \* a process that QEMU started in its group exists
  process, \* _process is set
  qmp,     \* qmp is connected
  agent,   \* agent is connected
  dir,     \* the private runtime directory exists
  runDir,  \* _run_dir is set
  logFile, \* the log file is open
  asked,   \* asked_to_quit
  tail,    \* final_serial_tail holds the console's last lines
  raised,  \* the exception on its way to the caller, or "none"
  slipped, \* history: what start created and could not keep: "directory", "qemu" or "none"
  broken   \* history: a signal broke off the last stop

host == <<qemu, helpers, dir>>
handles == <<process, qmp, agent, runDir, logFile>>
history == <<slipped, broken>>
vars == <<pc, host, handles, asked, tail, raised, history>>

\* The directory, and later QEMU, exists and its attribute is not assigned yet.
Creating == {"keep dir", "keep process"}
Starting ==
  {"preflight", "dir", "popen", "qmp", "agent", "ready"} \cup Creating
Stopping == {"ask", "wait", "kill", "close", "remove"}

Init ==
  /\ pc = "preflight"
  /\ qemu = "none"
  /\ helpers = FALSE
  /\ dir = FALSE
  /\ process = FALSE /\ qmp = FALSE /\ agent = FALSE
  /\ runDir = FALSE /\ logFile = FALSE
  /\ asked = FALSE
  /\ tail = FALSE
  /\ raised = "none"
  /\ slipped = "none" /\ broken = FALSE

Alive == qemu \in {"running", "quitting"}

-----------------------------------------------------------------------------
(* QEMU and the rest of the host.                                          *)

\* QEMU exits: because it was asked to, or by a crash.
QemuExits ==
  /\ Alive
  /\ qemu' = "gone"
  /\ UNCHANGED <<pc, helpers, dir, handles, asked, tail, raised, history>>

QemuForks ==
  /\ Alive
  /\ helpers' = TRUE
  /\ UNCHANGED <<pc, qemu, dir, handles, asked, tail, raised, history>>

-----------------------------------------------------------------------------
(* start.                                                                  *)

Preflight ==
  /\ pc = "preflight"
  /\ pc' = "dir"
  /\ UNCHANGED <<host, handles, asked, tail, raised, history>>

\* mkdtemp.
MakeRunDir ==
  /\ pc = "dir"
  /\ dir' = TRUE
  /\ pc' = "keep dir"
  /\ UNCHANGED <<qemu, helpers, handles, asked, tail, raised, history>>

\* chmod, and the assignment of _run_dir.
KeepRunDir ==
  /\ pc = "keep dir"
  /\ runDir' = TRUE
  /\ pc' = "popen"
  /\ UNCHANGED <<host, process, qmp, agent, logFile, asked, tail, raised, history>>

\* The log file is opened, and subprocess.Popen forks QEMU.
Popen ==
  /\ pc = "popen"
  /\ logFile' = TRUE
  /\ qemu' = "running"
  /\ pc' = "keep process"
  /\ UNCHANGED <<helpers, dir, process, qmp, agent, runDir, asked, tail, raised, history>>

\* Popen returns, and _process is assigned.
KeepProcess ==
  /\ pc = "keep process"
  /\ process' = TRUE
  /\ pc' = "qmp"
  /\ UNCHANGED <<host, qmp, agent, runDir, logFile, asked, tail, raised, history>>

ConnectQmp ==
  /\ pc = "qmp"
  /\ Alive
  /\ qmp' = TRUE
  /\ pc' = "agent"
  /\ UNCHANGED <<host, process, agent, runDir, logFile, asked, tail, raised, history>>

ConnectAgent ==
  /\ pc = "agent"
  /\ Alive
  /\ agent' = TRUE
  /\ pc' = "ready"
  /\ UNCHANGED <<host, process, qmp, runDir, logFile, asked, tail, raised, history>>

AgentReady ==
  /\ pc = "ready"
  /\ Alive
  /\ pc' = "body"
  /\ UNCHANGED <<host, handles, asked, tail, raised, history>>

\* What start raises: VmEnvironmentError before there is anything to stop, an
\* OSError of mkdtemp, chmod or Popen, VmBootError for everything that took too long or
\* broke, and the errors of QEMU and the agent as they are.
StartErrors ==
  CASE pc = "preflight" -> {"environment", "error"}
    [] pc \in {"dir", "keep dir", "popen"} -> {"error"}
    [] pc = "keep process" -> {}
    [] OTHER -> {"boot", "error"}

\* What nobody knows of once start is broken off here.
Slips ==
  CASE pc = "keep dir" -> "directory"
    [] pc = "keep process" -> "qemu"
    [] OTHER -> slipped

\* The log file is opened just before QEMU is started.
LogFileThen == IF pc = "popen" THEN BOOLEAN ELSE {logFile}

\* __enter__ calls stop on whatever start raises.
AfterFailure == "ask"

StartFails(error) ==
  /\ pc \in Starting
  /\ error \in StartErrors
  /\ raised' = error
  /\ logFile' \in LogFileThen
  /\ slipped' = Slips
  /\ pc' = AfterFailure
  /\ UNCHANGED <<host, process, qmp, agent, runDir, asked, tail, broken>>

-----------------------------------------------------------------------------
(* The with block.                                                         *)

\* The body ends, or raises.
LeaveBody(error) ==
  /\ pc = "body"
  /\ raised' = error
  /\ pc' = "ask"
  /\ UNCHANGED <<host, handles, asked, tail, history>>

\* Where a signal finds the harness.
Interruptible ==
  {"body"} \cup (Starting \ Creating)
    \cup (IF "creation" \in SignalsIn THEN Creating ELSE {})
    \cup (IF "stop" \in SignalsIn THEN Stopping ELSE {})

\* SIGTERM or Ctrl-C: a BaseException, which no except clause of stop names.
Signal ==
  /\ pc \in Interruptible
  /\ raised' = "signal"
  /\ slipped' = Slips
  /\ broken' = (pc \in Stopping)
  /\ logFile' \in LogFileThen
  /\ pc' = IF pc \in Stopping THEN "out" ELSE "ask"
  /\ UNCHANGED <<host, process, qmp, agent, runDir, asked, tail>>

-----------------------------------------------------------------------------
(* stop.                                                                   *)

\* QEMU is asked to quit if it can be asked; the request may be refused, or time
\* out, or break the connection, and take effect all the same.
Ask ==
  /\ pc = "ask"
  /\ IF qmp /\ process /\ Alive
     THEN /\ asked' \in BOOLEAN
          /\ qemu' \in IF asked' THEN {"quitting"} ELSE {qemu, "quitting"}
     ELSE asked' = FALSE /\ UNCHANGED qemu
  /\ pc' = IF process THEN "wait" ELSE "close"
  /\ UNCHANGED <<helpers, dir, handles, tail, raised, history>>

\* (Slip: no limit on the wait.)
WaitOverOnExit == asked => ~Alive

\* The wait ends with the exit of QEMU or after ten seconds; without an accepted
\* request there is none.
WaitOver == TRUE

Wait ==
  /\ pc = "wait"
  /\ WaitOver
  /\ pc' = "kill"
  /\ UNCHANGED <<host, handles, asked, tail, raised, history>>

\* (Slip: a QEMU that accepted the request is not killed.)
KillsUnlessAsked == ~asked

\* The group is killed whether or not QEMU has exited by itself.
Kills == TRUE

\* killpg, and the wait for the killed process.
KillGroup ==
  /\ pc = "kill"
  /\ IF Kills
     THEN qemu' = "gone" /\ helpers' = FALSE
     ELSE UNCHANGED <<qemu, helpers>>
  /\ pc' = "close"
  /\ UNCHANGED <<dir, handles, asked, tail, raised, history>>

\* The channels and the log file are closed.
Close ==
  /\ pc = "close"
  /\ logFile' = FALSE
  /\ pc' = "remove"
  /\ UNCHANGED <<host, process, qmp, agent, runDir, asked, tail, raised, history>>

\* (Slip: the console is read on every call of stop.)
TailOfEveryStop == runDir

\* The console is read before the directory that holds its log is removed, and
\* not again by a later call.
Tail == IF runDir THEN TRUE ELSE tail

\* The directory, if it is known, is removed and the references are dropped.
Remove ==
  /\ pc = "remove"
  /\ tail' = Tail
  /\ dir' = (dir /\ ~runDir)
  /\ runDir' = FALSE
  /\ process' = FALSE /\ qmp' = FALSE /\ agent' = FALSE
  /\ pc' = "out"
  /\ UNCHANGED <<qemu, helpers, logFile, asked, raised, history>>

\* stop is called once more.
StopAgain ==
  /\ pc = "out"
  /\ broken' = FALSE
  /\ pc' = "ask"
  /\ UNCHANGED <<host, handles, asked, tail, raised, slipped>>

Stop == Ask \/ Wait \/ KillGroup \/ Close \/ Remove

Next ==
  \/ QemuExits
  \/ QemuForks
  \/ Preflight
  \/ MakeRunDir
  \/ KeepRunDir
  \/ Popen
  \/ KeepProcess
  \/ ConnectQmp
  \/ ConnectAgent
  \/ AgentReady
  \/ \E error \in {"environment", "boot", "error"} : StartFails(error)
  \/ \E error \in {"none", "error"} : LeaveBody(error)
  \/ Signal
  \/ Stop
  \/ StopAgain

\* Every step of stop has a time limit of its own.  Nothing is assumed of QEMU.
Spec == Init /\ [][Next]_vars /\ WF_vars(Stop)

-----------------------------------------------------------------------------
(* Properties.                                                             *)

\* Every variable stays within its type, and the body finds both channels open.
TypeOK ==
  /\ pc \in Starting \cup Stopping \cup {"body", "out"}
  /\ qemu \in {"none", "running", "quitting", "gone"}
  /\ {helpers, dir, process, qmp, agent, runDir, logFile, asked, tail, broken}
       \subseteq BOOLEAN
  /\ slipped \in {"none", "directory", "qemu"}
  /\ raised \in {"none", "environment", "boot", "error", "signal"}
  /\ pc = "body" => process /\ qmp /\ agent /\ runDir

\* What the module text says of every exit path (normal end, exception, Ctrl-C,
\* failed boot): QEMU and its whole process group are gone, and so are the private
\* directory and the open log.  Two cases are excepted, and no other: a stop that a
\* second signal broke off (until stop is called again), and what was created
\* in the very moment a failure or a signal ended start, of which stop never heard.
NothingSurvives ==
  (pc = "out" /\ ~broken) =>
    /\ ~logFile
    /\ dir => slipped = "directory"
    /\ Alive \/ helpers => slipped = "qemu"

\* The same text, of QEMU alone and taken at its word: it is stopped on every exit path.
EveryExitStopsQemu == pc = "out" => ~Alive

\* Whoever reports a boot that failed finds the console's last lines, although the
\* directory that held them is gone, and however often stop was called.
TailTells == (pc = "out" /\ raised = "boot") => tail

\* Out of the block, what remains of a VM is what a failed boot has said.
OnlyTheTailRemains == NothingSurvives /\ TailTells

\* stop always returns, also when QEMU accepts the request and then hangs.
StopReturns == pc \in Stopping ~> pc = "out"
=============================================================================
