------------------------------ MODULE VmProofs ------------------------------
(***************************************************************************)
(* Proofs about Vm: what is released on every exit, for a QEMU that may    *)
(* crash, hang or fork at any moment and a failure or a signal at any step *)
(* of start, the creation of the directory and of QEMU included, and of    *)
(* stop.                                                                   *)
(***************************************************************************)
EXTENDS Vm, TLAPS

\* What start has acquired by the time it is at each of its steps.
Acquired ==
  /\ pc \in {"popen", "keep process", "qmp", "agent", "ready", "body"} => runDir
  /\ pc \in {"preflight", "dir", "keep dir", "popen", "keep process"} => ~process
  /\ pc \in {"qmp", "agent", "ready", "body"} => process
  /\ pc \in {"agent", "ready", "body"} => qmp
  /\ pc \in {"ready", "body"} => agent

\* QEMU and what it forked live only while the reference needed to kill them is kept or
\* about to be assigned, unless they slipped; each step of a stop that no signal broke
\* off leaves its own resource released.
Released ==
  /\ Alive \/ helpers => process \/ pc = "keep process" \/ slipped = "qemu"
  /\ pc \in {"close", "remove"} => (Alive \/ helpers => slipped = "qemu")
  /\ pc = "out" /\ ~broken => (Alive \/ helpers => slipped = "qemu")
  /\ pc = "remove" => ~logFile
  /\ pc = "out" /\ ~broken => ~logFile

\* The same of the directory.
DirKept ==
  /\ dir => runDir \/ pc = "keep dir" \/ slipped = "directory"
  /\ pc = "out" /\ ~broken => ~runDir

\* Only one thing can slip, and no step of start follows.
Slipped ==
  /\ pc \in Starting \cup {"body"} => slipped = "none"
  /\ slipped = "directory" => ~Alive /\ ~helpers /\ ~process

\* The console's last lines are still to be read, or have been read.
TailKept ==
  /\ raised = "boot" => runDir \/ tail
  /\ TailTells

VmInv ==
  /\ TypeOK
  /\ Acquired
  /\ Slipped
  /\ Released
  /\ DirKept
  /\ TailKept

LEMMA VmInitInv == Init => VmInv
  BY DEF Init, VmInv, TypeOK, Acquired, Slipped, Released, DirKept, TailKept, TailTells,
         Alive, Starting, Creating, Stopping

\* The steps of QEMU.
LEMMA HostKeeps == VmInv /\ (QemuExits \/ QemuForks) => VmInv'
<1>. SUFFICES ASSUME VmInv, QemuExits \/ QemuForks PROVE VmInv'
  OBVIOUS
<1>1. /\ Alive /\ UNCHANGED <<pc, dir, handles, asked, tail, raised, history>>
      /\ qemu' \in {qemu, "gone"} /\ helpers' \in BOOLEAN
  BY DEF QemuExits, QemuForks, VmInv, TypeOK
<1>2. TypeOK'
  BY <1>1 DEF VmInv, TypeOK, handles, history
<1>3. Acquired' /\ TailKept'
  BY <1>1 DEF VmInv, Acquired, TailKept, TailTells, handles
<1>4. DirKept'
  BY <1>1 DEF VmInv, DirKept, handles, history
<1>5. Released' /\ Slipped'
  BY <1>1 DEF VmInv, Released, Slipped, Alive, handles, history
<1>. QED
  BY <1>2, <1>3, <1>4, <1>5 DEF VmInv

\* What start creates exists before it is kept.
LEMMA NothingBefore ==
  ASSUME VmInv
  PROVE  /\ pc \in {"preflight", "dir", "keep dir", "popen"} =>
              slipped = "none" /\ ~process /\ ~Alive /\ ~helpers
         /\ pc \in {"preflight", "dir"} => (dir => runDir)
  BY DEF VmInv, Acquired, Released, DirKept, Slipped, Starting, Creating

\* The steps of start that succeed.
LEMMA StartKeeps ==
  ASSUME VmInv,
         \/ Preflight \/ MakeRunDir \/ KeepRunDir \/ Popen \/ KeepProcess
         \/ ConnectQmp \/ ConnectAgent \/ AgentReady
  PROVE  VmInv'
<1>1. pc \in Starting /\ slipped = "none" /\ slipped' = "none" /\ UNCHANGED <<broken, raised, tail>>
  BY DEF VmInv, Slipped, Starting, Creating, history, Preflight, MakeRunDir, KeepRunDir,
         Popen, KeepProcess, ConnectQmp, ConnectAgent, AgentReady
<1>2. runDir => runDir'
  BY DEF host, handles, Preflight, MakeRunDir, KeepRunDir, Popen, KeepProcess, ConnectQmp,
         ConnectAgent, AgentReady
<1>. pc' \in Starting \cup {"body"} /\ pc' \notin Stopping \cup {"out"}
  BY DEF Starting, Creating, Stopping, Preflight, MakeRunDir, KeepRunDir, Popen,
         KeepProcess, ConnectQmp, ConnectAgent, AgentReady
<1>3. Acquired'
  <2>1. CASE Preflight
    BY <2>1 DEF VmInv, TypeOK, Acquired, handles, Preflight
  <2>7. CASE AgentReady
    BY <2>7 DEF VmInv, Acquired, handles, AgentReady
  <2>4. CASE MakeRunDir
    BY <2>4 DEF VmInv, TypeOK, Acquired, handles, MakeRunDir
  <2>5. CASE KeepRunDir
    BY <2>5 DEF VmInv, TypeOK, Acquired, KeepRunDir
  <2>6. CASE Popen
    BY <2>6 DEF VmInv, TypeOK, Acquired, Popen
  <2>2. CASE KeepProcess
    BY <2>2 DEF VmInv, Acquired, KeepProcess
  <2>3. CASE ConnectQmp \/ ConnectAgent
    BY <2>3 DEF VmInv, Acquired, host, handles, ConnectQmp, ConnectAgent
  <2>. QED
    BY <2>1, <2>2, <2>3, <2>4, <2>5, <2>6, <2>7
<1>8. TypeOK'
  <2>1. CASE Preflight \/ MakeRunDir \/ KeepRunDir
    BY <2>1 DEF VmInv, TypeOK, host, handles, history, Starting, Creating, Stopping,
                Preflight, MakeRunDir, KeepRunDir
  <2>2. CASE Popen \/ KeepProcess
    BY <2>2 DEF VmInv, TypeOK, host, handles, history, Starting, Creating, Stopping, Popen,
                KeepProcess
  <2>3. CASE ConnectQmp \/ ConnectAgent
    BY <2>3 DEF VmInv, TypeOK, host, handles, history, Starting, Creating, Stopping,
                ConnectQmp, ConnectAgent
  <2>4. CASE AgentReady
    BY <2>4 DEF VmInv, TypeOK, Acquired, host, handles, history, AgentReady
  <2>. QED
    BY <2>1, <2>2, <2>3, <2>4
<1>4. TailKept'
  BY <1>1, <1>2 DEF VmInv, TailKept, TailTells
<1>5. Slipped'
  BY <1>1 DEF Slipped
<1>6. Released'
  <2>1. Alive' \/ helpers' => process' \/ pc' = "keep process"
    BY <1>1 DEF VmInv, Released, Alive, host, handles, Preflight, MakeRunDir, KeepRunDir,
                Popen, KeepProcess, ConnectQmp, ConnectAgent, AgentReady
  <2>. QED
    BY <1>2, <2>1 DEF Released, Stopping
<1>7. DirKept'
  <2>1. dir' => runDir' \/ pc' = "keep dir"
    BY <1>1 DEF VmInv, DirKept, host, handles, Preflight, MakeRunDir, KeepRunDir,
                Popen, KeepProcess, ConnectQmp, ConnectAgent, AgentReady
  <2>. QED
    BY <1>2, <2>1 DEF DirKept
<1>. QED
  BY <1>3, <1>4, <1>5, <1>6, <1>7, <1>8 DEF VmInv

\* A step of start that fails, and a signal in start: stop follows, and what exists and
\* is not kept has slipped.
LEMMA BreakingOffKeeps ==
  ASSUME VmInv, pc \in Starting \cup {"body"}, pc' = "ask",
         UNCHANGED <<host, process, qmp, agent, runDir, asked, tail>>,
         logFile' \in BOOLEAN, slipped' = Slips, broken' \in BOOLEAN,
         raised' \in {"none", "environment", "boot", "error", "signal"},
         raised' = "boot" => runDir
  PROVE  VmInv'
<1>1. TypeOK'
  BY DEF VmInv, TypeOK, host, Starting, Creating, Stopping, Slips
<1>2. Acquired' /\ TailKept'
  BY DEF VmInv, Acquired, TailKept, TailTells
<1>3. Slipped'
  <2>1. slipped' = "directory" => ~Alive /\ ~helpers /\ ~process
    BY NothingBefore DEF VmInv, Slipped, Acquired, Slips, Starting, Creating
  <2>. QED
    BY <2>1 DEF Slipped, host, Alive, Starting, Creating
<1>4. Released'
  BY DEF VmInv, Slipped, Released, Slips, host, Alive, Starting, Creating
<1>5. DirKept'
  BY DEF VmInv, Slipped, DirKept, Slips, host, Starting, Creating
<1>. QED
  BY <1>1, <1>2, <1>3, <1>4, <1>5 DEF VmInv

LEMMA StartFailsKeeps ==
  ASSUME VmInv, NEW error \in {"environment", "boot", "error"}, StartFails(error)
  PROVE  VmInv'
<1>1. error = "boot" => runDir
  BY DEF StartFails, StartErrors, Starting, Creating, VmInv, Acquired
<1>2. logFile' \in BOOLEAN /\ broken' \in BOOLEAN
  BY DEF StartFails, LogFileThen, VmInv, TypeOK
<1>. QED
  BY <1>1, <1>2, BreakingOffKeeps DEF StartFails, AfterFailure

\* The ends of the body, and the signal.
LEMMA LeaveKeeps ==
  ASSUME VmInv, Signal \/ \E error \in {"none", "error"} : LeaveBody(error)
  PROVE  VmInv'
<1>1. CASE pc \in Starting \cup {"body"}
  <2>1. /\ pc' = "ask"
        /\ UNCHANGED <<host, process, qmp, agent, runDir, asked, tail>>
        /\ slipped' = Slips
        /\ raised' \in {"none", "error", "signal"}
    BY <1>1 DEF Signal, LeaveBody, handles, history, Slips, Starting, Creating, Stopping
  <2>2. logFile' \in BOOLEAN
    BY DEF Signal, LeaveBody, handles, LogFileThen, VmInv, TypeOK
  <2>3. broken' \in BOOLEAN
    <3>1. CASE Signal
      BY <3>1 DEF Signal
    <3>2. CASE broken' = broken
      BY <3>2 DEF VmInv, TypeOK
    <3>. QED
      BY <3>1, <3>2 DEF LeaveBody, history
  <2>. QED
    BY <1>1, <2>1, <2>2, <2>3, BreakingOffKeeps
<1>2. CASE pc \in Stopping
  <2>1. /\ pc' = "out" /\ broken' = TRUE /\ raised' = "signal"
        /\ UNCHANGED <<host, handles, asked, tail, slipped>>
    BY <1>2 DEF Signal, LeaveBody, LogFileThen, handles, Slips, Stopping
  <2>2. TypeOK' /\ Acquired' /\ TailKept'
    BY <2>1 DEF VmInv, TypeOK, Acquired, TailKept, TailTells, host, handles
  <2>3. Released' /\ DirKept' /\ Slipped'
    BY <1>2, <2>1 DEF VmInv, Released, DirKept, Slipped, Alive, host, handles, Starting,
                      Creating, Stopping
  <2>. QED
    BY <2>2, <2>3 DEF VmInv
<1>. QED
  BY <1>1, <1>2 DEF Signal, LeaveBody, Interruptible, Starting, Creating, Stopping

\* The steps of stop.
LEMMA StopKeeps == ASSUME VmInv, Stop \/ StopAgain PROVE VmInv'
<1>0. /\ helpers \in BOOLEAN /\ dir \in BOOLEAN /\ broken \in BOOLEAN
      /\ process \in BOOLEAN /\ runDir \in BOOLEAN /\ logFile \in BOOLEAN
  BY DEF VmInv, TypeOK
<1>1. TypeOK'
  BY DEF VmInv, TypeOK, host, handles, history, Starting, Creating, Stopping, Stop, Ask,
         Wait, KillGroup, Close, Remove, StopAgain, Tail, Kills
<1>2. Acquired'
  BY DEF Acquired, Stop, Ask, Wait, KillGroup, Close, Remove, StopAgain
<1>3. TailKept'
  BY DEF VmInv, TailKept, TailTells, handles, Stop, Ask, Wait, KillGroup, Close, Remove,
         StopAgain, Tail
<1>4. Slipped'
  <2>1. /\ slipped' = slipped /\ pc' \notin Starting \cup {"body"}
    BY DEF history, Starting, Creating, Stop, Ask, Wait, KillGroup, Close, Remove, StopAgain
  <2>2. /\ Alive' => Alive
        /\ helpers' = helpers \/ ~helpers'
        /\ process' = process \/ ~process'
    BY <1>0 DEF host, handles, Alive, Stop, Ask, Wait, KillGroup, Close, Remove, StopAgain
  <2>3. (helpers' => helpers) /\ (process' => process)
    BY <2>2
  <2>. QED
    BY <2>1, <2>2, <2>3 DEF VmInv, Slipped
<1>5. Released'
  <2>1. CASE Ask
    <3>1. /\ Alive' => Alive
          /\ UNCHANGED <<helpers, process, slipped>> /\ pc = "ask"
          /\ pc' \in {"wait", "close"} /\ (pc' = "close" => ~process)
      BY <2>1 DEF Ask, Alive, handles, history
    <3>. QED
      BY <3>1 DEF VmInv, TypeOK, Released
  <2>2. CASE Wait
    BY <1>0, <2>2 DEF VmInv, Released, Alive, host, handles, history, Wait
  <2>6. CASE StopAgain
    BY <1>0, <2>6 DEF VmInv, Released, Alive, host, handles, StopAgain
  <2>3. CASE KillGroup
    BY <2>3 DEF Released, Alive, KillGroup, Kills
  <2>4. CASE Close
    BY <2>4 DEF VmInv, Released, Alive, host, history, Close
  <2>5. CASE Remove
    BY <2>5 DEF VmInv, Released, Alive, history, Remove
  <2>. QED
    BY <2>1, <2>2, <2>3, <2>4, <2>5, <2>6 DEF Stop
<1>6. DirKept'
  <2>1. CASE Remove
    BY <2>1 DEF VmInv, TypeOK, DirKept, history, Remove
  <2>2. CASE pc' # "out"
    <3>1. UNCHANGED <<dir, runDir, slipped>> /\ pc # "keep dir"
      BY <2>2 DEF host, handles, history, Stop, Ask, Wait, KillGroup, Close, Remove,
                  StopAgain
    <3>. QED
      BY <1>0, <2>2, <3>1 DEF VmInv, DirKept
  <2>. QED
    BY <2>1, <2>2 DEF Stop, Ask, Wait, KillGroup, Close, StopAgain
<1>. QED
  BY <1>1, <1>2, <1>3, <1>4, <1>5, <1>6 DEF VmInv

LEMMA VmInvStep == VmInv /\ [Next]_vars => VmInv'
<1>. SUFFICES ASSUME VmInv, [Next]_vars PROVE VmInv'
  OBVIOUS
<1>1. CASE UNCHANGED vars
  <2>1. TypeOK' /\ Acquired'
    BY <1>1 DEF vars, host, handles, history, VmInv, TypeOK, Acquired
  <2>2. Slipped' /\ Released'
    BY <1>1 DEF vars, host, handles, history, VmInv, Slipped, Released, Alive
  <2>3. DirKept' /\ TailKept'
    BY <1>1 DEF vars, host, handles, history, VmInv, DirKept, TailKept, TailTells
  <2>. QED
    BY <2>1, <2>2, <2>3 DEF VmInv
<1>2. CASE Next
  BY <1>2, HostKeeps, StartKeeps, StartFailsKeeps, LeaveKeeps, StopKeeps DEF Next
<1>. QED
  BY <1>1, <1>2

\* The type invariant: above all, the body finds both channels open.
THEOREM VmTypeCorrect == Spec => []TypeOK
<1>1. VmInv => TypeOK
  BY DEF VmInv
<1>. QED
  BY <1>1, VmInitInv, VmInvStep, PTL DEF Spec

\* After every exit no QEMU, no process of its group, no directory and no open log is
\* left, wherever signals arrive: but for a stop that a signal broke off, until it is
\* called again, and for what was created in the moment that ended start.
THEOREM VmNothingSurvives == Spec => []NothingSurvives
<1>1. VmInv => NothingSurvives
  BY DEF VmInv, Released, DirKept, NothingSurvives
<1>. QED
  BY <1>1, VmInitInv, VmInvStep, PTL DEF Spec

\* A boot that failed is reported with the console's last lines, signals in stop or not.
THEOREM VmTailTells == Spec => []TailTells
<1>1. VmInv => TailTells
  BY DEF VmInv, TailKept
<1>. QED
  BY <1>1, VmInitInv, VmInvStep, PTL DEF Spec

\* Both together: after every exit, with the two exceptions NothingSurvives names, the
\* console's last lines, if a boot failed, are all there is.
THEOREM VmOnlyTheTailRemains == Spec => []OnlyTheTailRemains
<1>1. VmInv => OnlyTheTailRemains
  BY DEF VmInv, Released, DirKept, TailKept, NothingSurvives, OnlyTheTailRemains
<1>. QED
  BY <1>1, VmInitInv, VmInvStep, PTL DEF Spec
=============================================================================
