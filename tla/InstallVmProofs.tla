--------------------------- MODULE InstallVmProofs --------------------------
(***************************************************************************)
(* Proofs about InstallVm: however the two boots, the reboot between them  *)
(* and the stops are interrupted, they share neither a QEMU nor a handle,  *)
(* and only what was being created then can be left over.                  *)
(***************************************************************************)
EXTENDS InstallVm, TLAPS

\* Where a QEMU can be alive that process does not name: in Popen itself, and after it if
\* it was broken off there.
Unheld == pc = "keep process" \/ "process" \in cut

\* A QEMU that lives is that of this phase, and can be killed unless it is unheld.
QemuIsHeld ==
  /\ live \subseteq {phase}
  /\ live # {} => process = phase \/ Unheld
  /\ pc \in {"remove", "relaunch", "preflight", "dir", "keep dir", "popen"} =>
       live = {} \/ "process" \in cut
  /\ pc = "out" => live = {} \/ "process" \in cut \/ "stop" \in cut
  /\ pc \in {"relaunch", "preflight", "dir", "keep dir", "popen", "keep process"} =>
       process = NoPhase

\* The same of the directory.
DirIsHeld ==
  /\ dirs \subseteq {phase}
  /\ dirs # {} => runDir = phase \/ pc = "keep dir" \/ "directory" \in cut
  /\ pc = "out" => runDir = NoPhase \/ "stop" \in cut

\* After a boot that was broken off nothing but its stop follows, and nothing at all after
\* a last stop that was.
CutIsLast ==
  /\ cut # {} => pc \in Stopping \cup {"out"} /\ after # "relaunch"
  /\ "stop" \in cut => pc = "out"

\* The stop has dropped every handle before the next boot begins.
HandlesDropped ==
  pc = "relaunch" => {process, qmp, agent, runDir} = {NoPhase}

\* What a boot has acquired by the time it is at each of its steps.
Acquired ==
  /\ pc \in {"popen", "keep process", "qmp", "agent", "ready", "body"} => runDir = phase
  /\ pc \in {"qmp", "agent", "ready", "body"} => process = phase
  /\ pc \in {"agent", "ready", "body"} => qmp = phase
  /\ pc = "ready" \/ (pc = "body" /\ phase = 2) => agent = phase

InstallVmInv ==
  /\ TypeOK
  /\ QemuIsHeld
  /\ DirIsHeld
  /\ CutIsLast
  /\ HandlesDropped
  /\ Acquired
  /\ PhasesAreSeparate

LEMMA InstallVmInitInv == Init => InstallVmInv
  BY DEF Init, InstallVmInv, TypeOK, QemuIsHeld, DirIsHeld, CutIsLast, HandlesDropped,
         Acquired, PhasesAreSeparate, HandlesAreOfThisPhase, TailIsOfThisPhase, Starting,
         Stopping, Phases, NoPhase

\* The end of QEMU, whatever the harness is doing then.
LEMMA QemuExitsKeeps == ASSUME InstallVmInv, QemuExits PROVE InstallVmInv'
<1>1. /\ UNCHANGED <<pc, phase, after, dirs, handles, tail, asked, cut>>
      /\ live' \subseteq live
  BY DEF QemuExits
<1>2. TypeOK' /\ Acquired' /\ HandlesDropped' /\ PhasesAreSeparate'
  BY <1>1 DEF InstallVmInv, TypeOK, HandlesDropped, Acquired, PhasesAreSeparate,
              HandlesAreOfThisPhase, TailIsOfThisPhase, handles
<1>3. QemuIsHeld' /\ DirIsHeld' /\ CutIsLast'
  BY <1>1 DEF InstallVmInv, QemuIsHeld, Unheld, DirIsHeld, CutIsLast, handles
<1>. QED
  BY <1>2, <1>3 DEF InstallVmInv

\* The steps of _start that succeed.
StartSteps ==
  \/ Preflight \/ MakeRunDir \/ KeepRunDir \/ Popen \/ KeepProcess
  \/ ConnectQmp \/ ConnectAgent \/ AgentReady

LEMMA StartKeeps == ASSUME InstallVmInv, StartSteps PROVE InstallVmInv'
<1>. USE DEF StartSteps, Preflight, MakeRunDir, KeepRunDir, Popen, KeepProcess, ConnectQmp,
             ConnectAgent, AgentReady, InstallVmInv
<1>1. TypeOK'
  BY DEF TypeOK, Acquired, QemuIsHeld, Alive, AttachesAgent, handles, Starting, Stopping,
         Phases, NoPhase
<1>2. /\ cut = {} /\ cut' = {}
      /\ pc \notin Stopping \cup {"out"} /\ pc' \notin Stopping \cup {"out"}
  BY DEF TypeOK, CutIsLast, AttachesAgent, Stopping
<1>3. CutIsLast'
  BY <1>2 DEF CutIsLast
<1>4. QemuIsHeld'
  BY <1>2 DEF TypeOK, QemuIsHeld, Unheld, AttachesAgent, handles, Stopping
<1>5. DirIsHeld'
  BY <1>2 DEF TypeOK, DirIsHeld, AttachesAgent, handles, Stopping
<1>6. HandlesDropped' /\ Acquired'
  BY DEF TypeOK, HandlesDropped, Acquired, AttachesAgent, Alive, handles, Starting, Phases,
         NoPhase
<1>7. PhasesAreSeparate'
  BY DEF PhasesAreSeparate, HandlesAreOfThisPhase, TailIsOfThisPhase, handles
<1>. QED
  BY <1>1, <1>3, <1>4, <1>5, <1>6, <1>7

\* What _start raises: what exists without a handle is in cut from here on.
LEMMA StartFailsKeeps == ASSUME InstallVmInv, StartFails PROVE InstallVmInv'
<1>. USE DEF StartFails, InstallVmInv
<1>1. TypeOK'
  BY DEF TypeOK, Unkept, AfterFailure, handles, Starting, Stopping, Phases
<1>2. QemuIsHeld'
  BY DEF QemuIsHeld, Unheld, Unkept, handles, Starting
<1>3. DirIsHeld'
  BY DEF DirIsHeld, Unkept, handles, Starting
<1>4. CutIsLast'
  BY DEF CutIsLast, Unkept, AfterFailure, Starting, Stopping
<1>5. HandlesDropped' /\ Acquired' /\ PhasesAreSeparate'
  BY DEF HandlesDropped, Acquired, PhasesAreSeparate, HandlesAreOfThisPhase,
         TailIsOfThisPhase, handles
<1>. QED
  BY <1>1, <1>2, <1>3, <1>4, <1>5

\* The steps of the body, up to the stop.
BodySteps == ConnectLiveAgent \/ Reboot \/ Powerdown \/ LeaveBody

LEMMA BodyKeeps == ASSUME InstallVmInv, BodySteps PROVE InstallVmInv'
<1>. USE DEF BodySteps, ConnectLiveAgent, Reboot, Powerdown, LeaveBody, InstallVmInv
<1>1. TypeOK'
  BY DEF TypeOK, LiveAgentChannel, AfterPowerdown, handles, Starting, Stopping, Phases
<1>2. QemuIsHeld' /\ DirIsHeld'
  BY DEF TypeOK, QemuIsHeld, Unheld, DirIsHeld, LiveAgentChannel, AfterPowerdown, handles,
         Stopping
<1>3. CutIsLast'
  BY DEF CutIsLast, AfterPowerdown, Stopping
<1>4. HandlesDropped' /\ Acquired'
  BY DEF TypeOK, HandlesDropped, Acquired, LiveAgentChannel, AfterPowerdown, handles,
         Stopping, Phases
<1>5. PhasesAreSeparate'
  BY DEF TypeOK, Acquired, PhasesAreSeparate, HandlesAreOfThisPhase, TailIsOfThisPhase, handles
<1>. QED
  BY <1>1, <1>2, <1>3, <1>4, <1>5

\* The stop, the signal in it, and the change to the second boot.
LEMMA StopKeeps == ASSUME InstallVmInv, Stop \/ BreakOffStop \/ Relaunch PROVE InstallVmInv'
<1>. USE DEF Stop, Ask, Wait, KillGroup, Remove, BreakOffStop, Relaunch, InstallVmInv
<1>1. TypeOK'
  BY DEF TypeOK, Killed, AgentDropped, Tail, TailReset, handles, Starting, Stopping, Phases,
         NoPhase
<1>2. QemuIsHeld'
  <2>1. CASE Ask
    <3>1. phase # NoPhase
      BY DEF TypeOK, Phases, NoPhase
    <3>. QED
      BY <2>1, <3>1 DEF QemuIsHeld, Unheld, handles
  <2>5. CASE Wait \/ BreakOffStop
    BY <2>5 DEF QemuIsHeld, Unheld, handles, Stopping
  <2>2. CASE KillGroup
    BY <2>2 DEF QemuIsHeld, Unheld, Killed, handles
  <2>3. CASE Remove
    BY <2>3 DEF TypeOK, QemuIsHeld, Unheld, CutIsLast, Stopping
  <2>4. CASE Relaunch
    BY <2>4 DEF QemuIsHeld, Unheld, CutIsLast, Stopping, handles
  <2>. QED
    BY <2>1, <2>2, <2>3, <2>4, <2>5
<1>3. DirIsHeld'
  <2>1. CASE Ask \/ Wait \/ KillGroup \/ BreakOffStop
    BY <2>1 DEF DirIsHeld, Stopping, handles
  <2>2. CASE Remove
    <3>1. /\ dirs' \subseteq dirs /\ (runDir = phase => dirs' = {})
          /\ runDir' = NoPhase /\ UNCHANGED <<phase, cut>> /\ pc = "remove"
      BY <2>2 DEF DirIsHeld
    <3>. QED
      BY <3>1 DEF DirIsHeld
  <2>3. CASE Relaunch
    BY <2>3 DEF TypeOK, DirIsHeld, HandlesDropped, CutIsLast, Stopping, handles, Phases, NoPhase
  <2>. QED
    BY <2>1, <2>2, <2>3
<1>4. CutIsLast'
  BY DEF TypeOK, CutIsLast, Stopping
<1>5. HandlesDropped' /\ Acquired'
  BY DEF TypeOK, HandlesDropped, Acquired, AgentDropped, handles, Phases, NoPhase
<1>6. PhasesAreSeparate'
  BY DEF TypeOK, PhasesAreSeparate, HandlesAreOfThisPhase, TailIsOfThisPhase, HandlesDropped,
         AgentDropped, Tail, TailReset, handles, Phases, NoPhase
<1>. QED
  BY <1>1, <1>2, <1>3, <1>4, <1>5, <1>6

LEMMA InstallVmInvStep == InstallVmInv /\ [Next]_vars => InstallVmInv'
<1>. SUFFICES ASSUME InstallVmInv, [Next]_vars PROVE InstallVmInv'
  OBVIOUS
<1>1. CASE UNCHANGED vars
  <2>1. TypeOK' /\ HandlesDropped' /\ Acquired' /\ PhasesAreSeparate'
    BY <1>1 DEF vars, handles, InstallVmInv, TypeOK, HandlesDropped, Acquired,
                PhasesAreSeparate, HandlesAreOfThisPhase, TailIsOfThisPhase
  <2>2. QemuIsHeld' /\ DirIsHeld' /\ CutIsLast'
    BY <1>1 DEF vars, handles, InstallVmInv, QemuIsHeld, Unheld, DirIsHeld, CutIsLast
  <2>. QED
    BY <2>1, <2>2 DEF InstallVmInv
<1>2. CASE Next
  BY <1>2, QemuExitsKeeps, StartKeeps, StartFailsKeeps, BodyKeeps, StopKeeps
     DEF Next, StartSteps, BodySteps
<1>. QED
  BY <1>1, <1>2

-----------------------------------------------------------------------------
(* The theorems.                                                           *)

\* The disk the installer wrote is never open in two QEMUs.
THEOREM InstallVmOneQemu == Spec => []OneQemu
<1>1. InstallVmInv => OneQemu
  BY DEF InstallVmInv, QemuIsHeld, OneQemu
<1>. QED
  BY <1>1, InstallVmInitInv, InstallVmInvStep, PTL DEF Spec

\* No handle and no console of the live boot is left in the boot of the disk.
THEOREM InstallVmPhasesAreSeparate == Spec => []PhasesAreSeparate
<1>1. InstallVmInv => PhasesAreSeparate
  BY DEF InstallVmInv
<1>. QED
  BY <1>1, InstallVmInitInv, InstallVmInvStep, PTL DEF Spec

\* Out of the with block there is no QEMU and no private directory, unless a signal broke
\* off the last stop, or a boot was ended in the moment it created them.
THEOREM InstallVmNothingSurvives == Spec => []NothingSurvives
<1>1. InstallVmInv => NothingSurvives
  <2>1. InstallVmInv => phase # NoPhase
    BY DEF InstallVmInv, TypeOK, Phases, NoPhase
  <2>. QED
    BY <2>1 DEF InstallVmInv, QemuIsHeld, DirIsHeld, NothingSurvives
<1>. QED
  BY <1>1, InstallVmInitInv, InstallVmInvStep, PTL DEF Spec
=============================================================================
