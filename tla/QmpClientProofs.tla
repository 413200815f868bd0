--------------------------- MODULE QmpClientProofs --------------------------
(***************************************************************************)
(* Proofs about QmpClient: Qmp.execute implements RemoteCalls for every    *)
(* number of commands and events, however many commands were abandoned.    *)
(* About QmpInput: what a key, a text or a click that returns was for the  *)
(* guest; about QmpSession: that the operations over the connection are    *)
(* those of QmpInput.  And about Vnc: the frame of a grab is the screen,   *)
(* for every size and every division of an update into rectangles.         *)
(***************************************************************************)
EXTENDS QmpSession, QmpInput, Vnc, FiniteSets, FiniteSetTheorems, TLAPS

\* QEMU is asked in the order of the ids, and carries commands out in that order.
InOrder ==
  /\ waiting => issued >= 1
  /\ \A i \in 1 .. Len(toQemu) : toQemu[i] <= issued
  /\ \A i, j \in 1 .. Len(toQemu) : i < j => toQemu[i] < toQemu[j]
  /\ \A c \in performed : c <= issued
  /\ \A c \in performed : \A i \in 1 .. Len(toQemu) : c < toQemu[i]

\* Replies and answers are those of commands that were carried out.
Genuine ==
  /\ \A i \in 1 .. Len(toClient) : toClient[i] # Event => toClient[i] \in performed
  /\ \A c \in Commands : answer[c] # 0 => answer[c] = c /\ c \in performed

QmpInv == TypeOK /\ InOrder /\ Genuine

LEMMA QmpInitInv == Init => QmpInv
<1>. SUFFICES ASSUME Init PROVE QmpInv
  OBVIOUS
<1>1. TypeOK
  <2>1. answer \in [Commands -> Commands \cup {0}]
    BY DEF Init
  <2>2. toQemu \in Seq(Commands) /\ toClient \in Seq(Commands \cup {Event})
    BY DEF Init
  <2>3. issued \in 0 .. MaxCalls
    BY QmpBoundsAssumption DEF Init
  <2>. QED
    BY <2>1, <2>2, <2>3, Zenon DEF Init, TypeOK
<1>2. InOrder /\ Genuine
  BY DEF Init, InOrder, Genuine
<1>. QED
  BY <1>1, <1>2 DEF QmpInv

LEMMA ServesKeeps == ASSUME QmpInv, QemuServes PROVE QmpInv'
<1>1. /\ toQemu \in Seq(Commands) /\ toQemu # <<>>
      /\ toClient \in Seq(Commands \cup {Event}) /\ performed \subseteq Commands
  BY DEF QmpInv, TypeOK, QemuServes
<1>2. Head(toQemu) \in Commands /\ Head(toQemu) = toQemu[1] /\ Len(toQemu) >= 1
  BY <1>1
<1>3. /\ Tail(toQemu) \in Seq(Commands)
      /\ Len(Tail(toQemu)) = Len(toQemu) - 1
      /\ \A i \in 1 .. Len(toQemu) - 1 : Tail(toQemu)[i] = toQemu[i + 1]
  BY <1>1
<1>4. TypeOK'
  BY <1>1, <1>2, <1>3 DEF QmpInv, TypeOK, QemuServes
<1>5. InOrder'
  BY <1>1, <1>2, <1>3 DEF QmpInv, InOrder, QemuServes
<1>6. Genuine'
  BY <1>1, <1>2 DEF QmpInv, Genuine, QemuServes, Event, Commands
<1>. QED
  BY <1>4, <1>5, <1>6 DEF QmpInv

LEMMA NotifiesKeeps == ASSUME QmpInv, QemuNotifies PROVE QmpInv'
<1>1. TypeOK'
  BY DEF QmpInv, TypeOK, QemuNotifies
<1>2. InOrder'
  BY DEF QmpInv, InOrder, QemuNotifies
<1>3. Genuine'
  BY DEF QmpInv, TypeOK, Genuine, QemuNotifies
<1>. QED
  BY <1>1, <1>2, <1>3 DEF QmpInv

LEMMA ExecuteKeeps == ASSUME QmpInv, Execute PROVE QmpInv'
<1>1. issued + 1 \in Commands /\ toQemu \in Seq(Commands) /\ performed \subseteq Commands
  BY QmpBoundsAssumption DEF QmpInv, TypeOK, Execute, Commands
<1>2. TypeOK'
  BY <1>1, QmpBoundsAssumption DEF QmpInv, TypeOK, Execute
<1>3. InOrder'
  <2>1. /\ toQemu' = Append(toQemu, issued + 1) /\ issued' = issued + 1
        /\ performed' = performed
    BY DEF Execute
  <2>2. issued \in Nat /\ Len(toQemu) \in Nat
    BY <1>1 DEF QmpInv, TypeOK
  <2>3. \A i \in 1 .. Len(toQemu) : toQemu[i] \in Nat
    <3>1. \A i \in 1 .. Len(toQemu) : toQemu[i] \in Commands
      BY <1>1
    <3>. QED
      BY <3>1 DEF Commands
  <2>4. /\ Len(toQemu') = Len(toQemu) + 1
        /\ toQemu'[Len(toQemu) + 1] = issued + 1
        /\ \A i \in 1 .. Len(toQemu) : toQemu'[i] = toQemu[i]
    BY <1>1, <2>1
  <2>5. /\ \A i \in 1 .. Len(toQemu) : toQemu[i] <= issued
        /\ \A i, j \in 1 .. Len(toQemu) : i < j => toQemu[i] < toQemu[j]
        /\ \A c \in performed : c <= issued /\ c \in Nat
        /\ \A c \in performed : \A i \in 1 .. Len(toQemu) : c < toQemu[i]
    BY <1>1 DEF QmpInv, InOrder, Commands
  <2>6. issued' >= 1 /\ \A i \in 1 .. Len(toQemu') : toQemu'[i] <= issued'
    BY <2>1, <2>2, <2>3, <2>4, <2>5
  <2>7. ASSUME NEW i \in 1 .. Len(toQemu'), NEW j \in 1 .. Len(toQemu'), i < j
        PROVE  toQemu'[i] < toQemu'[j]
    <3>1. i \in 1 .. Len(toQemu) /\ toQemu'[i] = toQemu[i] /\ toQemu[i] \in Nat
      BY <2>2, <2>3, <2>4, <2>7
    <3>2. CASE j \in 1 .. Len(toQemu)
      BY <2>4, <2>5, <2>7, <3>1, <3>2
    <3>3. CASE j = Len(toQemu) + 1
      BY <2>2, <2>4, <2>5, <3>1, <3>3
    <3>. QED
      BY <2>2, <2>4, <3>2, <3>3
  <2>8. \A c \in performed' : c <= issued' /\ \A i \in 1 .. Len(toQemu') : c < toQemu'[i]
    BY <2>1, <2>2, <2>4, <2>5
  <2>. QED
    BY <2>6, <2>7, <2>8 DEF InOrder
<1>4. Genuine'
  BY DEF QmpInv, Genuine, Execute
<1>. QED
  BY <1>2, <1>3, <1>4 DEF QmpInv

LEMMA ReceiveKeeps == ASSUME QmpInv, Receive PROVE QmpInv'
<1>1. /\ toClient \in Seq(Commands \cup {Event}) /\ toClient # <<>>
      /\ answer \in [Commands -> Commands \cup {0}]
  BY DEF QmpInv, TypeOK, Receive
<1>2. /\ Head(toClient) = toClient[1] /\ Len(toClient) >= 1
      /\ Head(toClient) \in Commands \cup {Event}
      /\ Tail(toClient) \in Seq(Commands \cup {Event})
      /\ Len(Tail(toClient)) = Len(toClient) - 1
      /\ \A i \in 1 .. Len(toClient) - 1 : Tail(toClient)[i] = toClient[i + 1]
  BY <1>1
<1>3. \A i \in 1 .. Len(Tail(toClient)) :
        Tail(toClient)[i] # Event => Tail(toClient)[i] \in performed
  BY <1>2 DEF QmpInv, Genuine
<1>4. CASE IsReply(Head(toClient))
  <2>1. issued \in Commands /\ issued = Head(toClient)
    BY <1>4, QmpBoundsAssumption DEF QmpInv, TypeOK, InOrder, Receive, IsReply, Commands
  <2>2. issued \in performed
    BY <1>2, <2>1 DEF QmpInv, Genuine, Event, Commands
  <2>3. answer' = [answer EXCEPT ![issued] = issued]
    BY <1>4, <2>1 DEF Receive
  <2>4. TypeOK'
    BY <1>1, <1>2, <1>4, <2>1, <2>3 DEF QmpInv, TypeOK, Receive
  <2>5. InOrder'
    BY <1>4 DEF QmpInv, InOrder, Receive
  <2>6. Genuine'
    BY <1>1, <1>3, <2>1, <2>2, <2>3 DEF QmpInv, Genuine, Receive
  <2>. QED
    BY <2>4, <2>5, <2>6 DEF QmpInv
<1>5. CASE ~IsReply(Head(toClient))
  <2>1. TypeOK'
    BY <1>2, <1>5 DEF QmpInv, TypeOK, Receive
  <2>2. InOrder'
    BY <1>5 DEF QmpInv, InOrder, Receive
  <2>3. Genuine'
    BY <1>3, <1>5 DEF QmpInv, Genuine, Receive
  <2>. QED
    BY <2>1, <2>2, <2>3 DEF QmpInv
<1>. QED
  BY <1>4, <1>5

LEMMA QmpInvStep == QmpInv /\ [Next]_vars => QmpInv'
<1>. SUFFICES ASSUME QmpInv, [Next]_vars PROVE QmpInv'
  OBVIOUS
<1>1. CASE TimeOut \/ Break \/ UNCHANGED vars
  <2>1. UNCHANGED <<issued, toQemu, toClient, performed, answer>>
    BY <1>1 DEF TimeOut, Break, vars
  <2>2. waiting' => waiting
    BY <1>1 DEF TimeOut, Break, vars
  <2>3. waiting' \in BOOLEAN /\ broken' \in BOOLEAN /\ (broken' => ~waiting')
    <3>1. CASE TimeOut
      BY <3>1, Zenon DEF TimeOut, QmpInv, TypeOK
    <3>2. CASE Break
      BY <3>2, Zenon DEF Break
    <3>3. CASE UNCHANGED vars
      BY <3>3, Zenon DEF vars, QmpInv, TypeOK
    <3>. QED
      BY <1>1, <3>1, <3>2, <3>3
  <2>4. TypeOK'
    BY <2>1, <2>3, Zenon DEF QmpInv, TypeOK
  <2>5. InOrder' /\ Genuine'
    BY <2>1, <2>2, Zenon DEF QmpInv, InOrder, Genuine
  <2>. QED
    BY <2>4, <2>5 DEF QmpInv
<1>. QED
  BY <1>1, ServesKeeps, NotifiesKeeps, ExecuteKeeps, ReceiveKeeps DEF Next

-----------------------------------------------------------------------------
(* The refinement of RemoteCalls.                                          *)

LEMMA InitCalls == Init => Abstract!CallsInit
  BY DEF Init, Abstract!CallsInit, Abstract!Calls, Commands

\* Every step is a step of RemoteCalls, or leaves the abstract state alone.
LEMMA StepCalls ==
  ASSUME QmpInv, [Next]_vars PROVE [Abstract!CallsNext]_(Abstract!callVars)
<1>1. CASE QemuServes
  <2>. DEFINE c == Head(toQemu)
  <2>1. c \in Commands /\ c = toQemu[1] /\ 1 \in 1 .. Len(toQemu)
    BY <1>1 DEF QmpInv, TypeOK, QemuServes
  <2>2. c <= issued /\ \A d \in performed : d < c
    BY <2>1 DEF QmpInv, InOrder
  <2>3. \A d \in Commands : d >= c => answer[d] = 0
    BY <2>1, <2>2 DEF QmpInv, Genuine, Commands
  <2>4. Abstract!Perform(c)
    BY <1>1, <2>2, <2>3 DEF Abstract!Perform, Abstract!Calls, Commands, QemuServes
  <2>. QED
    BY <2>1, <2>4 DEF Abstract!CallsNext, Abstract!Calls, Commands
<1>2. CASE Execute
  BY <1>2 DEF Execute, Abstract!CallsNext, Abstract!Issue
<1>3. CASE Receive /\ IsReply(Head(toClient))
  <2>1. toClient \in Seq(Commands \cup {Event}) /\ toClient # <<>> /\ issued >= 1
    BY <1>3 DEF QmpInv, TypeOK, InOrder, Receive
  <2>2. Head(toClient) = toClient[1] /\ 1 \in 1 .. Len(toClient)
    BY <2>1
  <2>3. issued = Head(toClient) /\ issued \in performed
    BY <1>3, <2>1, <2>2 DEF QmpInv, Genuine, IsReply, Event
  <2>. QED
    BY <1>3, <2>3 DEF Receive, Abstract!CallsNext, Abstract!Return
<1>4. CASE Receive /\ ~IsReply(Head(toClient))
  BY <1>4 DEF Receive, Abstract!callVars
<1>5. CASE QemuNotifies \/ UNCHANGED vars
  BY <1>5 DEF QemuNotifies, vars, Abstract!callVars
<1>6. CASE TimeOut
  BY <1>6 DEF TimeOut, Abstract!CallsNext, Abstract!GiveUp
<1>7. CASE Break
  BY <1>7 DEF Break, QmpInv, TypeOK, Abstract!CallsNext, Abstract!GiveUp, Abstract!callVars
<1>. QED
  BY <1>1, <1>2, <1>3, <1>4, <1>5, <1>6, <1>7 DEF Next

-----------------------------------------------------------------------------
(* The theorems.                                                           *)

\* An answer means that everything asked before it is over.
THEOREM QmpAnsweredMeansFlushed == Spec => []AnsweredMeansFlushed
<1>1. QmpInv => AnsweredMeansFlushed
  <2>. SUFFICES ASSUME QmpInv, NEW c \in Commands, answer[c] # 0,
                       NEW i \in 1 .. Len(toQemu)
                PROVE  toQemu[i] > c
    BY DEF AnsweredMeansFlushed
  <2>1. c \in performed
    BY DEF QmpInv, Genuine
  <2>2. c < toQemu[i]
    BY <2>1 DEF QmpInv, InOrder
  <2>3. toQemu[i] \in Commands
    BY DEF QmpInv, TypeOK
  <2>. QED
    BY <2>2, <2>3 DEF Commands
<1>. QED
  BY <1>1, QmpInitInv, QmpInvStep, PTL DEF Spec

\* Qmp.execute is a RemoteCalls client: each answer is the call's own.
THEOREM QmpImplementsCalls == Spec => ImplementsCalls
<1>1. QmpInv /\ [Next]_vars => [Abstract!CallsNext]_(Abstract!callVars)
  BY StepCalls
<1>. QED
  BY <1>1, InitCalls, QmpInitInv, QmpInvStep, PTL
  DEF Spec, ImplementsCalls, Abstract!CallsSpec

-----------------------------------------------------------------------------
(* The operations of the keyboard and the pointer.                         *)

Events == {"down", "up"} \X (Keys \cup {Button}) \cup {"move"} \X Places

LEMMA EmptySeq ==
  ASSUME NEW S, NEW s \in Seq(S) PROVE s = <<>> <=> Len(s) = 0
OBVIOUS

LEMMA PressIs ==
  ASSUME NEW chord \in Seq(Keys)
  PROVE  /\ Press(chord) \in Seq(Seq(Events)) /\ Len(Press(chord)) = 2
         /\ Len(Press(chord)[1]) = Len(chord) /\ Len(Press(chord)[2]) = Len(chord)
         /\ DOMAIN Press(chord) = {1, 2} /\ Press(chord) # <<>>
         /\ DOMAIN Press(chord)[1] = 1 .. Len(chord) /\ DOMAIN Press(chord)[2] = 1 .. Len(chord)
         /\ \A a \in 1 .. Len(chord) : Press(chord)[1][a] = Down(chord[a])
         /\ \A a \in 1 .. Len(chord) : Press(chord)[2][a] = Up(chord[Len(chord) - a + 1])
<1> DEFINE down == [i \in DOMAIN chord |-> Down(chord[i])]
           up == [i \in DOMAIN chord |-> Up(Reverse(chord)[i])]
<1>1. DOMAIN chord = 1 .. Len(chord) /\ Len(chord) \in Nat
      /\ \A a \in 1 .. Len(chord) : chord[a] \in Keys
  OBVIOUS
<1>2. \A a \in 1 .. Len(chord) :
        Len(chord) - a + 1 \in 1 .. Len(chord) /\ Reverse(chord)[a] = chord[Len(chord) - a + 1]
  BY <1>1 DEF Reverse
<1>3. \A k \in Keys : Down(k) \in Events /\ Up(k) \in Events
  BY DEF Down, Up, Events
<1>4. down \in Seq(Events) /\ Len(down) = Len(chord)
      /\ \A a \in 1 .. Len(chord) : down[a] = Down(chord[a])
  <2> HIDE DEF Down, Events
  <2>1. QED
    BY <1>1, <1>3
<1>5. up \in Seq(Events) /\ Len(up) = Len(chord)
      /\ \A a \in 1 .. Len(chord) : up[a] = Up(chord[Len(chord) - a + 1])
  <2>1. \A a \in 1 .. Len(chord) : up[a] = Up(chord[Len(chord) - a + 1]) /\ up[a] \in Events
    BY <1>1, <1>2, <1>3
  <2>2. up = [i \in 1 .. Len(chord) |-> up[i]]
    BY <1>1
  <2> HIDE DEF up, Events
  <2>3. up \in Seq(Events) /\ Len(up) = Len(chord)
    BY <1>1, <2>1, <2>2
  <2>4. QED
    BY <2>1, <2>3
<1>6. Press(chord) = <<down, up>>
  BY Zenon DEF Press
<1> HIDE DEF down, up, Events
<1>7. <<down, up>> \in Seq(Seq(Events)) /\ Len(<<down, up>>) = 2 /\ <<down, up>>[1] = down
      /\ <<down, up>>[2] = up /\ DOMAIN <<down, up>> = {1, 2} /\ <<down, up>> # <<>>
  BY <1>4, <1>5
<1>8. DOMAIN down = 1 .. Len(chord) /\ DOMAIN up = 1 .. Len(chord)
  BY <1>1, <1>4, <1>5
<1>9. QED
  BY <1>4, <1>5, <1>6, <1>7, <1>8

\* What is pressed in a sequence of commands is released further on.
Releases(commands) ==
  \A key \in Keys \cup {Button} : \A i \in DOMAIN commands : \A a \in DOMAIN commands[i] :
    commands[i][a] = Down(key) =>
      \E j \in DOMAIN commands : \E b \in DOMAIN commands[j] :
        i < j /\ commands[j][b] = Up(key)

LEMMA Apart ==
  ASSUME NEW k, NEW l PROVE Down(k) # Up(l) /\ (Down(k) = Down(l) => k = l)
BY DEF Down, Up

LEMMA PressReleases ==
  ASSUME NEW chord \in Seq(Keys), NEW key, NEW a \in 1 .. Len(chord),
         Press(chord)[1][a] = Down(key)
  PROVE  \E b \in 1 .. Len(chord) : Press(chord)[2][b] = Up(key)
<1>1. chord[a] = key
  <2>1. Press(chord)[1][a] = Down(chord[a])
    BY PressIs
  <2>2. QED
    BY <2>1, Apart
<1>2. Len(chord) - a + 1 \in 1 .. Len(chord)
      /\ Len(chord) - (Len(chord) - a + 1) + 1 = a
  OBVIOUS
<1>3. Press(chord)[2][Len(chord) - a + 1] = Up(key)
  <2> DEFINE b == Len(chord) - a + 1
  <2>1. b \in 1 .. Len(chord) /\ Len(chord) - b + 1 = a
    BY <1>2
  <2> HIDE DEF b
  <2>2. Press(chord)[2][b] = Up(chord[Len(chord) - b + 1])
    BY <2>1, PressIs
  <2>3. Press(chord)[2][b] = Up(key)
    BY <1>1, <2>1, <2>2
  <2>4. QED
    BY <2>3 DEF b
<1>4. QED
  BY <1>2, <1>3

LEMMA OperationCommands ==
  ASSUME NEW op \in AllOperations
  PROVE  /\ CommandsOf(op) \in Seq(Seq(Events)) /\ CommandsOf(op) # <<>>
         /\ Releases(CommandsOf(op))
<1>1. CASE op[1] = "keys" /\ op[2] \in Seq(Keys)
  <2> DEFINE chord == op[2]
  <2>1. CommandsOf(op) = Press(chord)
    BY <1>1, Zenon DEF CommandsOf
  <2> HIDE DEF chord
  <2>2. chord \in Seq(Keys)
    BY <1>1 DEF chord
  <2> DEFINE cs == Press(chord)
  <2>3. /\ cs \in Seq(Seq(Events)) /\ Len(cs) = 2
        /\ DOMAIN cs[1] = 1 .. Len(chord) /\ DOMAIN cs[2] = 1 .. Len(chord)
        /\ DOMAIN cs = {1, 2} /\ cs # <<>>
        /\ \A a \in 1 .. Len(chord) : cs[2][a] = Up(chord[Len(chord) - a + 1])
    BY <2>2, PressIs
  <2>4. \A key : \A a \in 1 .. Len(chord) : cs[1][a] = Down(key) =>
          \E b \in 1 .. Len(chord) : cs[2][b] = Up(key)
    BY <2>2, PressReleases
  <2> HIDE DEF cs
  <2>5. Releases(cs)
    <3> SUFFICES ASSUME NEW key \in Keys \cup {Button}, NEW i \in DOMAIN cs,
                        NEW a \in DOMAIN cs[i], cs[i][a] = Down(key)
                 PROVE  \E j \in DOMAIN cs : \E b \in DOMAIN cs[j] : i < j /\ cs[j][b] = Up(key)
      BY DEF Releases
    <3>1. i # 2
      <4> SUFFICES ASSUME i = 2 PROVE FALSE
        OBVIOUS
      <4>1. a \in 1 .. Len(chord) /\ cs[2][a] = Down(key)
        BY <2>3
      <4>2. cs[2][a] = Up(chord[Len(chord) - a + 1])
        BY <2>3, <4>1
      <4>3. QED
        BY <4>1, <4>2, Apart
    <3>2. i = 1 /\ 1 < 2
      BY <2>3, <3>1
    <3>3. QED
      BY <2>3, <2>4, <3>2
  <2>6. QED
    BY <2>1, <2>3, <2>5 DEF cs
<1>2. CASE op[1] = "type" /\ op[2] \in Seq(Seq(Keys)) /\ op[2] # <<>>
  <2> DEFINE chords == op[2]
             cs == [n \in 1 .. 2 * Len(chords) |-> Press(chords[(n + 1) \div 2])[2 - (n % 2)]]
  <2>1. CommandsOf(op) = cs
    BY <1>2, Zenon DEF CommandsOf
  <2>2. chords \in Seq(Seq(Keys)) /\ Len(chords) \in Nat /\ Len(chords) >= 1
    BY <1>2
  <2> HIDE DEF chords
  <2>3. ASSUME NEW n \in 1 .. 2 * Len(chords)
        PROVE  /\ chords[(n + 1) \div 2] \in Seq(Keys) /\ 2 - (n % 2) \in {1, 2}
               /\ cs[n] = Press(chords[(n + 1) \div 2])[2 - (n % 2)]
               /\ cs[n] \in Seq(Events) /\ Len(cs[n]) = Len(chords[(n + 1) \div 2])
    <3> DEFINE m == (n + 1) \div 2  half == 2 - (n % 2)
    <3>1. m \in 1 .. Len(chords) /\ half \in {1, 2}
      BY <2>2
    <3>2. cs[n] = Press(chords[m])[half]
      OBVIOUS
    <3> HIDE DEF m, half, cs
    <3>3. chords[m] \in Seq(Keys)
      BY <2>2, <3>1
    <3>4. Press(chords[m]) \in Seq(Seq(Events)) /\ Len(Press(chords[m])) = 2
          /\ Len(Press(chords[m])[1]) = Len(chords[m])
          /\ Len(Press(chords[m])[2]) = Len(chords[m])
      BY <3>3, PressIs
    <3>5. Press(chords[m])[half] \in Seq(Events) /\ Len(Press(chords[m])[half]) = Len(chords[m])
      BY <3>1, <3>4
    <3>6. QED
      BY <3>1, <3>2, <3>3, <3>5 DEF m, half
  <2>4. DOMAIN cs = 1 .. 2 * Len(chords) /\ cs \in Seq(Seq(Events)) /\ cs # <<>>
    <3>1. cs = [n \in 1 .. 2 * Len(chords) |-> cs[n]] /\ 2 * Len(chords) \in Nat
          /\ 2 * Len(chords) >= 1
      BY <2>2
    <3>2. \A n \in 1 .. 2 * Len(chords) : cs[n] \in Seq(Events)
      BY <2>3
    <3> HIDE DEF cs
    <3>3. cs \in Seq(Seq(Events)) /\ DOMAIN cs = 1 .. 2 * Len(chords) /\ Len(cs) >= 1
      BY <3>1, <3>2
    <3>4. QED
      BY <3>3
  <2> HIDE DEF cs
  <2>5. Releases(cs)
    <3> SUFFICES ASSUME NEW key \in Keys \cup {Button}, NEW i \in DOMAIN cs,
                        NEW a \in DOMAIN cs[i], cs[i][a] = Down(key)
                 PROVE  \E j \in DOMAIN cs : \E b \in DOMAIN cs[j] : i < j /\ cs[j][b] = Up(key)
      BY DEF Releases
    <3> DEFINE chord == chords[(i + 1) \div 2]
    <3>1. /\ chord \in Seq(Keys) /\ 2 - (i % 2) \in {1, 2} /\ cs[i] = Press(chord)[2 - (i % 2)]
          /\ cs[i] \in Seq(Events) /\ Len(cs[i]) = Len(chord) /\ i \in 1 .. 2 * Len(chords)
      BY <2>3, <2>4
    <3> HIDE DEF chord
    <3>2. a \in 1 .. Len(chord)
      BY <3>1
    <3>3. i % 2 = 1
      <4>1. CASE 2 - (i % 2) = 2
        <5>1. cs[i] = Press(chord)[2]
          BY <3>1, <4>1
        <5>2. Press(chord)[2][a] = Up(chord[Len(chord) - a + 1])
          BY <3>1, <3>2, PressIs, ZenonT(60)
        <5>3. QED
          BY <5>1, <5>2, Apart
      <4>2. i % 2 \in {0, 1}
        BY <3>1
      <4>3. QED
        BY <4>1, <4>2
    <3>4. PICK b \in 1 .. Len(chord) : Press(chord)[2][b] = Up(key)
      <4>1. Press(chord)[1][a] = Down(key)
        BY <3>1, <3>3
      <4>2. QED
        BY <3>1, <3>2, <4>1, PressReleases
    <3>5. /\ i + 1 \in 1 .. 2 * Len(chords) /\ 2 - ((i + 1) % 2) = 2
          /\ (i + 1 + 1) \div 2 = (i + 1) \div 2 /\ i < i + 1
      <4>1. i \in Nat /\ Len(chords) \in Nat /\ i <= 2 * Len(chords)
        BY <2>2, <3>1
      <4>2. PICK h \in Nat : i = 2 * h + 1
        <5>1. i = 2 * (i \div 2) + 1 /\ i \div 2 \in Nat
          BY <3>3, <4>1
        <5>2. QED
          BY <5>1
      <4>3. i + 1 <= 2 * Len(chords)
        BY <4>1, <4>2
      <4>4. (i + 1) % 2 = 0 /\ (i + 1 + 1) \div 2 = h + 1 /\ (i + 1) \div 2 = h + 1
        BY <4>2
      <4>5. QED
        BY <4>1, <4>3, <4>4
    <3> DEFINE j == i + 1
    <3>6. j \in 1 .. 2 * Len(chords) /\ 2 - (j % 2) = 2 /\ (j + 1) \div 2 = (i + 1) \div 2 /\ i < j
      BY <3>5
    <3> HIDE DEF j
    <3>7. /\ cs[j] = Press(chords[(j + 1) \div 2])[2 - (j % 2)]
          /\ cs[j] \in Seq(Events) /\ Len(cs[j]) = Len(chords[(j + 1) \div 2])
      BY <2>3, <3>6
    <3>8. cs[j] = Press(chord)[2] /\ Len(cs[j]) = Len(chord)
      BY <3>6, <3>7 DEF chord
    <3>9. j \in DOMAIN cs /\ b \in DOMAIN cs[j] /\ cs[j][b] = Up(key)
      BY <2>4, <3>4, <3>6, <3>7, <3>8, SMTT(30)
    <3>10. QED
      BY <3>6, <3>9
  <2>6. QED
    BY <2>1, <2>4, <2>5
<1>3. CASE op[1] = "move" /\ op[2] \in Places /\ op = <<op[1], op[2]>>
  <2> DEFINE cs == <<<<op>>>>
  <2>1. CommandsOf(op) = cs
    BY <1>3, Zenon DEF CommandsOf
  <2>2. op \in Events
    BY <1>3 DEF Events
  <2> HIDE DEF Events
  <2>3. cs \in Seq(Seq(Events)) /\ DOMAIN cs = {1} /\ cs[1][1] = op /\ DOMAIN cs[1] = {1}
        /\ Len(cs) = 1
    BY <2>2
  <2> HIDE DEF cs
  <2>4. Releases(cs)
    <3>1. \A key : op # Down(key)
      BY <1>3 DEF Down
    <3>2. QED
      BY <2>3, <3>1 DEF Releases
  <2>5. cs # <<>>
    <3>1. Len(cs) # 0
      BY <2>3
    <3> DEFINE Cs == Seq(Events)
    <3>2. cs \in Seq(Cs)
      BY <2>3
    <3> HIDE DEF Cs
    <3>3. QED
      BY <3>1, <3>2, EmptySeq
  <2>6. QED
    BY <2>1, <2>3, <2>4, <2>5 DEF Events
<1>4. CASE op[1] = "click" /\ op[2] \in Places
  <2> DEFINE m == <<"move", op[2]>>  d == Down(Button)  u == Up(Button)
             cs == <<<<m>>, <<d>>, <<u>>>>
  <2>1. CommandsOf(op) = cs
    BY <1>4, Zenon DEF CommandsOf
  <2>2. m \in Events /\ d \in Events /\ u \in Events
    BY <1>4 DEF Events, Down, Up
  <2>3. (\A key : m # Down(key) /\ u # Down(key)) /\ d = Down(Button) /\ u = Up(Button)
        /\ (\A key : d = Down(key) => key = Button)
    BY DEF Down, Up
  <2> HIDE DEF m, d, u, Events
  <2>4. cs \in Seq(Seq(Events)) /\ DOMAIN cs = {1, 2, 3} /\ Len(cs) = 3
        /\ cs[1][1] = m /\ cs[2][1] = d /\ cs[3][1] = u
        /\ DOMAIN cs[1] = {1} /\ DOMAIN cs[2] = {1} /\ DOMAIN cs[3] = {1}
    BY <2>2
  <2> HIDE DEF cs
  <2>5. Releases(cs)
    BY <2>3, <2>4 DEF Releases
  <2>6. QED
    BY <2>1, <2>4, <2>5
<1>5. QED
  BY <1>1, <1>2, <1>3, <1>4 DEF AllOperations

\* The events of a sequence of commands that end with ones that release what they press
\* hold nothing down that was not held before.
LEMMA HeldBefore ==
  ASSUME NEW cs \in Seq(Seq(Events)), NEW own \in Seq(Seq(Events)), Releases(own),
         Len(own) <= Len(cs),
         \A i \in 1 .. Len(own) : cs[Len(cs) - Len(own) + i] = own[i]
  PROVE  Held(cs) \subseteq Held(SubSeq(cs, 1, Len(cs) - Len(own)))
<1> DEFINE n == Len(cs) - Len(own)  before == SubSeq(cs, 1, n)
<1>1. n \in Nat /\ Len(own) \in Nat /\ Len(cs) \in Nat /\ Len(cs) = n + Len(own)
      /\ DOMAIN cs = 1 .. Len(cs) /\ DOMAIN own = 1 .. Len(own)
      /\ \A i \in 1 .. Len(own) : cs[n + i] = own[i]
  OBVIOUS
<1>2. DOMAIN before = 1 .. n /\ \A i \in 1 .. n : before[i] = cs[i]
  BY <1>1
<1> HIDE DEF n, before
<1>3. SUFFICES ASSUME NEW key \in Held(cs) PROVE key \in Held(before)
  BY DEF n, before
<1>4. PICK i \in DOMAIN cs : \E a \in DOMAIN cs[i] :
        /\ cs[i][a] = Down(key)
        /\ \A j \in DOMAIN cs : \A b \in DOMAIN cs[j] :
             i < j \/ (i = j /\ a < b) => cs[j][b] # Up(key)
  BY <1>3 DEF Held
<1>5. PICK a \in DOMAIN cs[i] :
        /\ cs[i][a] = Down(key)
        /\ \A j \in DOMAIN cs : \A b \in DOMAIN cs[j] :
             i < j \/ (i = j /\ a < b) => cs[j][b] # Up(key)
  BY <1>4
<1>6. key \in Keys \cup {Button}
  BY <1>3 DEF Held
<1>7. i \in 1 .. n
  <2> SUFFICES ASSUME i \notin 1 .. n PROVE FALSE
    OBVIOUS
  <2> DEFINE k == i - n
  <2>1. k \in 1 .. Len(own) /\ i = n + k
    BY <1>1
  <2>2. own[k] = cs[i] /\ k \in DOMAIN own
    BY <1>1, <2>1
  <2> HIDE DEF k
  <2>3. PICK j \in DOMAIN own : \E b \in DOMAIN own[j] : k < j /\ own[j][b] = Up(key)
    BY <1>5, <1>6, <2>2 DEF Releases
  <2>4. PICK b \in DOMAIN own[j] : k < j /\ own[j][b] = Up(key)
    BY <2>3
  <2>5. j \in 1 .. Len(own)
    BY <1>1
  <2> DEFINE m == n + j
  <2>6. cs[m] = own[j]
    BY <1>1, <2>5
  <2>7. m \in DOMAIN cs /\ i < m /\ cs[m] = own[j]
    <3>1. k \in Nat /\ j \in Nat /\ k < j
      BY <1>1, <2>1, <2>4, <2>5
    <3>2. m \in 1 .. Len(cs) /\ i < m
      <4>1. n \in Nat /\ Len(own) \in Nat /\ Len(cs) = n + Len(own)
        BY <1>1
      <4>2. j <= Len(own) /\ 1 <= j /\ i = n + k
        BY <2>1, <2>5
      <4>3. QED
        BY <3>1, <4>1, <4>2, SMTT(30)
    <3>3. QED
      BY <1>1, <2>6, <3>2
  <2> HIDE DEF m
  <2>8. b \in DOMAIN cs[m] /\ cs[m][b] = Up(key)
    BY <2>4, <2>7
  <2>9. QED
    BY <1>5, <2>7, <2>8
<1>8. DOMAIN before \subseteq DOMAIN cs
  BY <1>1, <1>2
<1>9. i \in DOMAIN before /\ a \in DOMAIN before[i] /\ before[i][a] = Down(key)
  BY <1>2, <1>5, <1>7
<1>10. \A j \in DOMAIN before : \A b \in DOMAIN before[j] :
         i < j \/ (i = j /\ a < b) => before[j][b] # Up(key)
  BY <1>2, <1>5, <1>8
<1>11. QED
  BY <1>6, <1>9, <1>10 DEF Held

LEMMA NothingHeld ==
  ASSUME NEW cs \in Seq(Seq(Events)) PROVE Held(SubSeq(cs, 1, 0)) = {}
<1>1. DOMAIN SubSeq(cs, 1, 0) = {}
  OBVIOUS
<1>2. QED
  BY <1>1 DEF Held

\* The commands of the current operation, and how many of them were carried out.
Own == CommandsOf(asked[Len(asked)])
Sent == Len(Own) - Len(todo)

InputType ==
  /\ asked \in Seq(AllOperations)
  /\ todo \in Seq(Seq(Events)) /\ late \in Seq(Seq(Events)) /\ seen \in Seq(Seq(Events))
  /\ outcome \in {"running", "ok", "failed"}

\* The guest has seen last what the operation has sent, and is behind only as long as
\* nothing of it was answered.
Prefix ==
  /\ outcome = "running" =>
       /\ asked # <<>> /\ todo # <<>> /\ Sent \in Nat
       /\ \A i \in 1 .. Len(todo) : todo[i] = Own[Sent + i]
       /\ Sent > 0 => late = <<>>
  /\ outcome = "ok" => todo = <<>> /\ late = <<>>
  /\ outcome \in {"running", "ok"} /\ asked # <<>> =>
       /\ Sent <= Len(seen)
       /\ \A i \in 1 .. Sent : seen[Len(seen) - Sent + i] = Own[i]
       /\ Len(asked) = 1 => late = <<>> /\ Len(seen) = Sent
  /\ asked = <<>> => late = <<>> /\ seen = <<>> /\ outcome = "ok"

InputInv == InputType /\ Prefix

LEMMA OwnIs ==
  ASSUME InputType, asked # <<>>
  PROVE  /\ Len(asked) \in Nat \ {0} /\ asked[Len(asked)] \in AllOperations
         /\ Own \in Seq(Seq(Events)) /\ Len(Own) \in Nat \ {0} /\ Releases(Own)
<1>1. Len(asked) \in Nat \ {0} /\ asked[Len(asked)] \in AllOperations
  <2>1. asked \in Seq(AllOperations)
    BY DEF InputType
  <2> HIDE DEF AllOperations
  <2>2. QED
    BY <2>1
<1>2. Own \in Seq(Seq(Events)) /\ Own # <<>> /\ Releases(Own)
  BY <1>1, OperationCommands DEF Own
<1>3. Len(Own) \in Nat \ {0}
  BY <1>2
<1>4. QED
  BY <1>1, <1>2, <1>3

LEMMA InputWhole ==
  ASSUME InputInv PROVE InputIsWhole
<1> SUFFICES ASSUME outcome = "ok", asked # <<>>
             PROVE  /\ Len(seen) - Len(Own) >= 0
                    /\ \A i \in 1 .. Len(Own) : seen[Len(seen) - Len(Own) + i] = Own[i]
                    /\ Held(seen) \subseteq Held(SubSeq(seen, 1, Len(seen) - Len(Own)))
                    /\ Len(asked) = 1 => Held(seen) = {}
  BY Zenon DEF InputIsWhole, Own
<1>1. InputType /\ Prefix
  BY DEF InputInv
<1>2. Own \in Seq(Seq(Events)) /\ Len(Own) \in Nat \ {0} /\ Releases(Own)
  BY <1>1, OwnIs
<1>3. seen \in Seq(Seq(Events)) /\ Len(seen) \in Nat
  BY <1>1 DEF InputType
<1>4. Sent = Len(Own)
  BY <1>1, <1>2 DEF Prefix, Sent
<1>5. /\ Len(Own) <= Len(seen)
      /\ \A i \in 1 .. Len(Own) : seen[Len(seen) - Len(Own) + i] = Own[i]
      /\ Len(asked) = 1 => Len(seen) = Len(Own)
  BY <1>1, <1>4 DEF Prefix
<1>6. Held(seen) \subseteq Held(SubSeq(seen, 1, Len(seen) - Len(Own)))
  BY <1>2, <1>3, <1>5, HeldBefore
<1>7. Len(asked) = 1 => Held(seen) = {}
  <2> SUFFICES ASSUME Len(asked) = 1 PROVE Held(seen) = {}
    OBVIOUS
  <2>1. Len(seen) - Len(Own) = 0
    BY <1>2, <1>3, <1>5
  <2>2. Held(SubSeq(seen, 1, 0)) = {}
    BY <1>3, NothingHeld
  <2>3. QED
    BY <1>6, <2>1, <2>2
<1>8. QED
  BY <1>2, <1>3, <1>5, <1>6, <1>7

LEMMA InputStep == InputInv /\ [InputNext]_inputVars => InputInv'
<1> SUFFICES ASSUME InputInv, [InputNext]_inputVars PROVE InputInv'
  OBVIOUS
<1>1. InputType /\ Prefix
  BY DEF InputInv
<1>2. /\ asked \in Seq(AllOperations) /\ todo \in Seq(Seq(Events)) /\ late \in Seq(Seq(Events))
      /\ seen \in Seq(Seq(Events)) /\ outcome \in {"running", "ok", "failed"}
      /\ Len(asked) \in Nat /\ Len(todo) \in Nat /\ Len(late) \in Nat /\ Len(seen) \in Nat
  BY <1>1 DEF InputType
<1> DEFINE Cs == Seq(Events)
<1>3. ASSUME NEW op \in Operations, Ask(op) PROVE InputInv'
  <2>1. /\ asked' = Append(asked, op) /\ todo' = CommandsOf(op) /\ outcome' = "running"
        /\ late' = late /\ seen' = seen /\ outcome # "running"
    BY <1>3 DEF Ask
  <2>2. op \in AllOperations
    BY InputAssumption
  <2>3. CommandsOf(op) \in Seq(Cs) /\ CommandsOf(op) # <<>>
    BY <2>2, OperationCommands
  <2> DEFINE cs == CommandsOf(op)
  <2> HIDE DEF cs, Cs, AllOperations
  <2>4. /\ asked' \in Seq(AllOperations) /\ asked'[Len(asked')] = op /\ Len(asked') = Len(asked) + 1
        /\ asked' # <<>>
    <3>1. /\ asked' \in Seq(AllOperations) /\ asked'[Len(asked')] = op
          /\ Len(asked') = Len(asked) + 1
      BY <1>2, <2>1, <2>2
    <3>2. QED
      BY <1>2, <3>1, EmptySeq
  <2>5. Own' = cs
    BY <2>4 DEF Own, cs
  <2>6. Len(cs) \in Nat /\ cs # <<>> /\ cs \in Seq(Cs) /\ todo' = cs
    BY <2>1, <2>3 DEF cs
  <2>7. Sent' = 0
    BY <2>5, <2>6 DEF Sent
  <2>8. InputType'
    BY <1>2, <2>1, <2>4, <2>6 DEF InputType, Cs
  <2>9. Len(asked') = 1 => asked = <<>>
    BY <1>2, <2>4, SMTT(30)
  <2>10. Len(asked') = 1 => late = <<>> /\ Len(seen) = 0
    BY <1>1, <2>9 DEF Prefix
  <2>11. Prefix'
    BY <1>2, <2>1, <2>4, <2>5, <2>6, <2>7, <2>10 DEF Prefix
  <2>12. QED
    BY <2>8, <2>11 DEF InputInv
<1>4. ASSUME outcome = "running" PROVE Len(todo) >= 1 /\ Len(asked) >= 1 /\ Head(todo) = todo[1]
      /\ Head(todo) \in Cs /\ asked # <<>> /\ Own \in Seq(Cs) /\ Len(Own) \in Nat
      /\ Sent \in Nat /\ Len(Own) = Sent + Len(todo)
  <2>1. asked # <<>> /\ todo # <<>> /\ Sent \in Nat
    BY <1>1, <1>4 DEF Prefix
  <2>2. Own \in Seq(Cs) /\ Len(Own) \in Nat /\ Len(asked) >= 1
    BY <1>1, <2>1, OwnIs
  <2>3. Len(Own) = Sent + Len(todo)
    BY <1>2, <2>2 DEF Sent
  <2> HIDE DEF Cs
  <2>4. todo \in Seq(Cs)
    BY <1>2 DEF Cs
  <2>5. Len(todo) >= 1 /\ Head(todo) = todo[1] /\ Head(todo) \in Cs
    BY <2>1, <2>4
  <2>6. QED
    BY <2>1, <2>2, <2>3, <2>5
<1>5. CASE Answered
  <2>1. /\ outcome = "running" /\ late = <<>> /\ seen' = Append(seen, Head(todo))
        /\ todo' = Tail(todo) /\ outcome' = IF Len(todo) = 1 THEN "ok" ELSE "running"
        /\ asked' = asked /\ late' = late
    BY <1>5 DEF Answered
  <2>2. /\ Len(todo) >= 1 /\ Len(asked) >= 1 /\ Head(todo) = todo[1] /\ Head(todo) \in Cs
        /\ asked # <<>> /\ Own \in Seq(Cs) /\ Len(Own) \in Nat /\ Sent \in Nat
        /\ Len(Own) = Sent + Len(todo)
    BY <1>4, <2>1
  <2>3. /\ todo \in Seq(Cs) /\ seen \in Seq(Cs)
    BY <1>2
  <2> HIDE DEF Cs
  <2>4. /\ todo' \in Seq(Cs) /\ Len(todo') = Len(todo) - 1
        /\ \A i \in 1 .. Len(todo) - 1 : todo'[i] = todo[i + 1]
    BY <1>2, <2>1, <2>2, <2>3
  <2>5. /\ seen' \in Seq(Cs) /\ Len(seen') = Len(seen) + 1 /\ seen'[Len(seen) + 1] = Head(todo)
        /\ \A i \in 1 .. Len(seen) : seen'[i] = seen[i]
    BY <1>2, <2>1, <2>2, <2>3
  <2>6. Own' = Own
    BY <2>1 DEF Own
  <2>7. Sent' = Sent + 1
    BY <1>2, <2>2, <2>4, <2>6 DEF Sent
  <2>8. /\ \A i \in 1 .. Len(todo) : todo[i] = Own[Sent + i]
        /\ Sent <= Len(seen)
        /\ \A i \in 1 .. Sent : seen[Len(seen) - Sent + i] = Own[i]
        /\ Len(asked) = 1 => Len(seen) = Sent
    BY <1>1, <2>1, <2>2 DEF Prefix
  <2>9. ASSUME NEW i \in 1 .. Len(todo') PROVE todo'[i] = Own[Sent + 1 + i]
    <3>1. i + 1 \in 1 .. Len(todo) /\ i \in 1 .. Len(todo) - 1 /\ Sent + (i + 1) = Sent + 1 + i
      BY <1>2, <2>2, <2>4
    <3>2. QED
      BY <2>4, <2>8, <3>1
  <2>10. ASSUME NEW i \in 1 .. Sent + 1 PROVE seen'[Len(seen') - (Sent + 1) + i] = Own[i]
    <3>1. CASE i = Sent + 1
      <4>1. Len(seen') - (Sent + 1) + i = Len(seen) + 1 /\ 1 \in 1 .. Len(todo)
        BY <1>2, <2>2, <2>5, <3>1
      <4>2. QED
        BY <2>2, <2>5, <2>8, <3>1, <4>1
    <3>2. CASE i \in 1 .. Sent
      <4>1. Len(seen') - (Sent + 1) + i = Len(seen) - Sent + i
            /\ Len(seen) - Sent + i \in 1 .. Len(seen)
        BY <1>2, <2>2, <2>5, <2>8, <3>2
      <4>2. QED
        BY <2>5, <2>8, <3>2, <4>1
    <3>3. QED
      BY <2>2, <3>1, <3>2
  <2>11. InputType'
    BY <1>2, <2>1, <2>4, <2>5 DEF InputType, Cs
  <2>12. /\ outcome' = "running" => todo' # <<>>
         /\ outcome' = "ok" => todo' = <<>>
    <3>1. todo' = <<>> <=> Len(todo') = 0
      BY <2>4, EmptySeq
    <3>2. Len(todo') = 0 <=> Len(todo) = 1
      BY <1>2, <2>2, <2>4
    <3>3. QED
      BY <2>1, <3>1, <3>2
  <2>13. Sent + 1 \in Nat /\ Sent + 1 <= Len(seen') /\ (Len(asked) = 1 => Len(seen') = Sent + 1)
    BY <1>2, <2>2, <2>5, <2>8
  <2>14. Prefix'
    BY <2>1, <2>2, <2>6, <2>7, <2>9, <2>10, <2>12, <2>13 DEF Prefix
  <2>15. QED
    BY <2>11, <2>14 DEF InputInv
<1>6. CASE Refused
  <2>1. /\ outcome' = "failed" /\ todo' = <<>> /\ asked' = asked /\ late' = late /\ seen' = seen
        /\ outcome = "running"
    BY <1>6 DEF Refused
  <2>2. <<>> \in Seq(Seq(Events)) /\ asked # <<>>
    BY <1>4, <2>1
  <2>3. QED
    BY <1>2, <2>1, <2>2 DEF InputInv, InputType, Prefix
<1>7. CASE Abandoned
  <2>1. /\ outcome' = "failed" /\ todo' = <<>> /\ asked' = asked /\ outcome = "running"
        /\ \/ late' = Append(late, Head(todo)) /\ seen' = seen
           \/ late' = late /\ seen' = Append(seen, Head(todo))
    BY <1>7 DEF Abandoned, GivesUp
  <2>2. <<>> \in Seq(Cs) /\ asked # <<>> /\ Head(todo) \in Cs
    BY <1>4, <2>1
  <2>3. late \in Seq(Cs) /\ seen \in Seq(Cs)
    BY <1>2
  <2> HIDE DEF Cs
  <2>4. late' \in Seq(Cs) /\ seen' \in Seq(Cs)
    BY <2>1, <2>2, <2>3, SMTT(30)
  <2>5. QED
    BY <1>2, <2>1, <2>2, <2>4 DEF InputInv, InputType, Prefix, Cs
<1>8. CASE Late
  <2>1. /\ late # <<>> /\ seen' \in {seen, Append(seen, Head(late))} /\ late' = Tail(late)
        /\ asked' = asked /\ todo' = todo /\ outcome' = outcome
    BY <1>8 DEF Late
  <2>2. late \in Seq(Cs) /\ seen \in Seq(Cs)
    BY <1>2
  <2> HIDE DEF Cs
  <2>3. late' \in Seq(Cs) /\ seen' \in Seq(Cs)
    BY <2>1, <2>2
  <2>4. InputType'
    BY <1>2, <2>1, <2>3 DEF InputType, Cs
  <2>5. Own' = Own /\ Sent' = Sent
    BY <2>1 DEF Own, Sent
  <2>6. outcome # "ok" /\ asked # <<>> /\ (outcome = "running" => Sent = 0 /\ Len(asked) # 1)
    BY <1>1, <2>1 DEF Prefix
  <2>7. Prefix'
    <3>1. Len(seen') \in Nat
      BY <2>3
    <3>2. QED
      BY <1>1, <2>1, <2>5, <2>6, <3>1 DEF Prefix
  <2>8. QED
    BY <2>4, <2>7 DEF InputInv
<1>9. CASE UNCHANGED inputVars
  BY <1>1, <1>9 DEF inputVars, InputInv, InputType, Prefix, Own, Sent
<1>10. QED
  BY <1>3, <1>5, <1>6, <1>7, <1>8, <1>9 DEF InputNext

\* What a chord, a text, a move or a click (qmp.py) that returns was for the guest:
\* whole, once, not mixed with what was given up before, and released again.
THEOREM InputSeenWhole == InputSpec => []InputIsWhole
<1>1. InputInit => InputInv
  <2> SUFFICES ASSUME InputInit PROVE InputInv
    OBVIOUS
  <2>1. asked = <<>> /\ todo = <<>> /\ late = <<>> /\ seen = <<>> /\ outcome = "ok"
    BY DEF InputInit
  <2>2. <<>> \in Seq(AllOperations) /\ <<>> \in Seq(Seq(Events))
    OBVIOUS
  <2>3. QED
    BY <2>1, <2>2 DEF InputInv, InputType, Prefix
<1>2. QED
  BY <1>1, InputStep, InputWhole, PTL DEF InputSpec

-----------------------------------------------------------------------------
(* Rows and columns.                                                       *)

LEMMA Divides ==
  ASSUME NEW w \in Nat, w > 0, NEW i \in Nat
  PROVE  i \div w \in Nat /\ i % w \in 0 .. w - 1 /\ i = (i \div w) * w + (i % w)
OBVIOUS

LEMMA NextRow ==
  ASSUME NEW a \in Nat, NEW b \in Nat, NEW w \in Nat, a < b
  PROVE  a * w + w <= b * w
<1>1. PICK d \in Nat : b = a + 1 + d
  <2>1. b - a - 1 \in Nat /\ b = a + 1 + (b - a - 1)
    OBVIOUS
  <2>2. QED
    BY <2>1
<1>2. b * w = a * w + w + d * w
  BY <1>1
<1>3. a * w \in Nat /\ b * w \in Nat /\ d * w \in Nat
  OBVIOUS
<1>4. QED
  BY <1>2, <1>3

LEMMA OneRow ==
  ASSUME NEW w \in Nat, NEW a \in Nat, NEW b \in Nat,
         NEW r \in 0 .. w - 1, NEW s \in 0 .. w - 1, a * w + r = b * w + s
  PROVE  a = b /\ r = s
<1>1. ~(a < b)
  BY NextRow
<1>2. ~(b < a)
  BY NextRow
<1>3. a = b
  BY <1>1, <1>2
<1>4. QED
  BY <1>3

LEMMA InFrame ==
  ASSUME NEW w \in Nat, NEW h \in Nat, NEW x \in 0 .. w - 1, NEW y \in 0 .. h - 1
  PROVE  y * w + x \in 0 .. w * h - 1
<1>1. y * w + w <= h * w
  BY NextRow
<1>2. y * w \in Nat /\ h * w = w * h
  OBVIOUS
<1>3. QED
  BY <1>1, <1>2

-----------------------------------------------------------------------------
(* The screenshots of the gpu mode: the invariant.                         *)

Frame == (0 .. Width - 1) \X (0 .. Height - 1)
Index(position) == position[2] * Width + position[1]

Handshake == {"idle", "version", "security", "result", "init"}

\* What the server sent is in its place, and counted once.
VncInv ==
  /\ size \in Nat \X Nat
  /\ sent \subseteq Frame
  /\ covered = Cardinality(sent)
  /\ grab \in Handshake => sent = {}
  /\ grab \in {"message", "rectangle", "ok"} =>
       /\ DOMAIN pixels = 0 .. Width * Height - 1
       /\ \A position \in sent : pixels[Index(position)] = Rgb(Bytes(position))
  /\ grab = "ok" => covered >= Width * Height

LEMMA VncInitial == VncInit => VncInv
BY FS_EmptySet DEF VncInit, VncInv, Frame, Handshake, Width, Height

\* The data of a rectangle inside the frame, one by one.
LEMMA DataInPlace ==
  ASSUME size \in Nat \X Nat, NEW r \in Rectangles, Inside(r), NEW i \in DOMAIN Data(r)
  PROVE  \E position \in Area(r) :
           /\ position \in Frame
           /\ Place(r, i) = Index(position)
           /\ Data(r)[i] = Bytes(position)
<1>1. /\ Width \in Nat /\ Height \in Nat
      /\ r[1] \in Nat /\ r[2] \in Nat /\ r[3] \in Nat /\ r[4] \in Nat
      /\ r[1] + r[3] <= Width /\ r[2] + r[4] <= Height
  BY DEF Rectangles, Inside, Width, Height
<1> DEFINE w == r[3]  h == r[4]  row == i \div w  column == i % w
<1>2. i \in 0 .. w * h - 1
  BY DEF Data
<1>3. w > 0
  <2>1. w = 0 => w * h = 0
    BY <1>1
  <2>2. QED
    BY <1>1, <1>2, <2>1
<1>4. w * h \in Nat /\ i \in Nat
  BY <1>1, <1>2
<1>5. row \in Nat /\ column \in 0 .. w - 1 /\ i = row * w + column
  BY <1>1, <1>3, <1>4, Divides
<1>6. row < h
  <2> SUFFICES ASSUME ~(row < h) PROVE FALSE
    OBVIOUS
  <2>1. row = h \/ h < row
    BY <1>1, <1>5
  <2>2. h * w <= row * w
    <3> HIDE DEF row, column, w, h
    <3>1. CASE row = h
      BY <1>1, <3>1 DEF w, h
    <3>2. CASE h < row
      <4>1. h * w + w <= row * w
        BY <1>1, <1>5, <3>2, NextRow DEF w, h
      <4>2. h * w \in Nat /\ row * w \in Nat
        BY <1>1, <1>5 DEF w, h
      <4>3. QED
        BY <1>1, <4>1, <4>2 DEF w, h
    <3>3. QED
      BY <2>1, <3>1, <3>2
  <2>3. row * w \in Nat /\ h * w \in Nat /\ h * w = w * h
    <3> HIDE DEF row, column, w, h
    <3>1. w \in Nat /\ h \in Nat
      BY <1>1 DEF w, h
    <3>2. QED
      BY <1>5, <3>1
  <2>4. QED
    <3> HIDE DEF row, column, w, h
    <3>1. w \in Nat
      BY <1>1 DEF w
    <3>2. QED
      BY <1>2, <1>5, <2>2, <2>3, <3>1
<1> DEFINE position == <<r[1] + column, r[2] + row>>
<1>7. position \in Area(r) /\ position \in Frame
  <2> HIDE DEF row, column
  <2>1. r[1] + column \in r[1] .. r[1] + r[3] - 1 /\ r[2] + row \in r[2] .. r[2] + r[4] - 1
    BY <1>1, <1>5, <1>6
  <2>2. r[1] + column \in 0 .. Width - 1 /\ r[2] + row \in 0 .. Height - 1
    BY <1>1, <1>5, <1>6
  <2>3. QED
    BY <2>1, <2>2 DEF Area, Frame
<1>8. Place(r, i) = Index(position)
  <2>1. Place(r, i) = (r[2] + row) * Width + r[1] + column
    BY DEF Place
  <2>2. Index(position) = (r[2] + row) * Width + (r[1] + column)
    BY DEF Index
  <2>3. (r[2] + row) * Width \in Nat /\ column \in Nat
    <3> HIDE DEF row, column
    <3>1. QED
      BY <1>1, <1>5
  <2>4. QED
    <3> HIDE DEF row, column
    <3>1. QED
      BY <1>1, <2>1, <2>2, <2>3
<1>9. Data(r)[i] = Bytes(position)
  BY <1>2 DEF Data
<1>10. QED
  BY <1>7, <1>8, <1>9

\* Every position of a rectangle has its datum.
LEMMA PlaceHasData ==
  ASSUME size \in Nat \X Nat, NEW r \in Rectangles, Inside(r), NEW position \in Area(r)
  PROVE  \E i \in DOMAIN Data(r) : Place(r, i) = Index(position)
<1>1. /\ Width \in Nat /\ Height \in Nat
      /\ r[1] \in Nat /\ r[2] \in Nat /\ r[3] \in Nat /\ r[4] \in Nat
  BY DEF Rectangles, Width, Height
<1> DEFINE w == r[3]  h == r[4]
           column == position[1] - r[1]  row == position[2] - r[2]
           i == row * w + column
<1>2. /\ position[1] \in r[1] .. r[1] + w - 1 /\ position[2] \in r[2] .. r[2] + h - 1
  BY DEF Area
<1>3. column \in 0 .. w - 1 /\ row \in 0 .. h - 1 /\ w > 0
  BY <1>1, <1>2
<1>4. r[1] + column = position[1] /\ r[2] + row = position[2]
  BY <1>1, <1>2
<1> HIDE DEF column, row
<1>5. i \in 0 .. w * h - 1
  BY <1>1, <1>3, InFrame
<1>6. i \in DOMAIN Data(r)
  BY <1>5 DEF Data
<1>7. i \div w = row /\ i % w = column
  <2>1. i \in Nat
    <3>1. row * w \in Nat
      BY <1>1, <1>3
    <3>2. QED
      BY <1>3, <3>1
  <2> HIDE DEF i, w, h
  <2>2. w \in Nat /\ w > 0
    BY <1>1, <1>3 DEF w
  <2>3. i \div w \in Nat /\ i % w \in 0 .. w - 1 /\ i = (i \div w) * w + (i % w)
    BY <2>1, <2>2, Divides
  <2>4. row \in Nat /\ column \in 0 .. w - 1 /\ i = row * w + column
    BY <1>3 DEF i
  <2>5. \A q \in Nat, m \in 0 .. w - 1 : q * w + m = row * w + column => q = row /\ m = column
    BY <2>2, <2>4, OneRow
  <2>6. QED
    BY <2>3, <2>4, <2>5
<1>8. Place(r, i) = Index(position)
  <2>1. Place(r, i) = (r[2] + row) * Width + r[1] + column
    BY <1>7 DEF Place
  <2>2. Index(position) = position[2] * Width + position[1]
    BY DEF Index
  <2>3. (r[2] + row) * Width \in Nat /\ column \in Nat
    BY <1>1, <1>3
  <2>4. QED
    BY <1>1, <1>4, <2>1, <2>2, <2>3
<1>9. QED
  BY <1>6, <1>8

\* A place of the frame belongs to one position.
LEMMA OnePlace ==
  ASSUME size \in Nat \X Nat, NEW a \in Frame, NEW b \in Frame, Index(a) = Index(b)
  PROVE  a = b
<1>1. /\ a = <<a[1], a[2]>> /\ b = <<b[1], b[2]>>
      /\ a[1] \in 0 .. Width - 1 /\ b[1] \in 0 .. Width - 1 /\ a[2] \in Nat /\ b[2] \in Nat
      /\ Width \in Nat
  BY DEF Frame, Width, Height
<1>2. a[2] * Width + a[1] = b[2] * Width + b[1]
  BY DEF Index
<1>3. a[2] = b[2] /\ a[1] = b[1]
  BY <1>1, <1>2, OneRow
<1>4. QED
  BY <1>1, <1>3

\* Pasting a rectangle writes its positions, and no other.
LEMMA PasteWrites ==
  ASSUME size \in Nat \X Nat, DOMAIN pixels = 0 .. Width * Height - 1,
         NEW r \in Rectangles, Inside(r), NEW position \in Frame
  PROVE  /\ DOMAIN Paste(r) = DOMAIN pixels
         /\ Paste(r)[Index(position)] = IF position \in Area(r) THEN Rgb(Bytes(position))
                                        ELSE pixels[Index(position)]
<1> DEFINE p == Index(position)
<1>1. p \in DOMAIN pixels
  BY InFrame DEF Index, Frame, Width, Height
<1>2. DOMAIN Paste(r) = DOMAIN pixels
  BY DEF Paste
<1> HIDE DEF p
<1>3. CASE position \in Area(r)
  <2> DEFINE i == CHOOSE n \in DOMAIN Data(r) : Place(r, n) = p
  <2>1. \E n \in DOMAIN Data(r) : Place(r, n) = p
    BY <1>3, PlaceHasData DEF p
  <2>2. i \in DOMAIN Data(r) /\ Place(r, i) = p
    BY <2>1
  <2>3. Paste(r)[p] = Rgb(Data(r)[i])
    BY <1>1, <2>1 DEF Paste
  <2> HIDE DEF i
  <2>4. PICK other \in Area(r) :
          other \in Frame /\ Place(r, i) = Index(other) /\ Data(r)[i] = Bytes(other)
    BY <2>2, DataInPlace
  <2>5. other = position
    BY <2>2, <2>4, OnePlace DEF p
  <2>6. QED
    BY <1>2, <1>3, <2>3, <2>4, <2>5 DEF p
<1>4. CASE position \notin Area(r)
  <2>1. ~ \E n \in DOMAIN Data(r) : Place(r, n) = p
    BY <1>4, DataInPlace, OnePlace DEF p
  <2>2. Paste(r)[p] = pixels[p]
    BY <1>1, <2>1 DEF Paste
  <2>3. QED
    BY <1>2, <1>4, <2>2 DEF p
<1>5. QED
  BY <1>3, <1>4

LEMMA IntervalSize ==
  ASSUME NEW a \in Nat, NEW n \in Nat
  PROVE  IsFiniteSet(a .. a + n - 1) /\ Cardinality(a .. a + n - 1) = n
<1>1. a \in Int /\ a + n - 1 \in Int
  OBVIOUS
<1>2. QED
  BY <1>1, FS_Interval

LEMMA AreaSize ==
  ASSUME NEW r, r[1] \in Nat, r[2] \in Nat, r[3] \in Nat, r[4] \in Nat
  PROVE  IsFiniteSet(Area(r)) /\ Cardinality(Area(r)) = r[3] * r[4]
<1> DEFINE columns == r[1] .. r[1] + r[3] - 1  rows == r[2] .. r[2] + r[4] - 1
<1>1. IsFiniteSet(columns) /\ Cardinality(columns) = r[3]
  BY IntervalSize
<1>2. IsFiniteSet(rows) /\ Cardinality(rows) = r[4]
  BY IntervalSize
<1>3. Area(r) = columns \X rows
  BY DEF Area
<1> HIDE DEF columns, rows
<1>4. QED
  BY <1>1, <1>2, <1>3, FS_Product

LEMMA FrameSize ==
  ASSUME size \in Nat \X Nat
  PROVE  IsFiniteSet(Frame) /\ Cardinality(Frame) = Width * Height
<1>1. Width \in Nat /\ Height \in Nat
  BY DEF Width, Height
<1>2. /\ IsFiniteSet(0 .. Width - 1) /\ Cardinality(0 .. Width - 1) = Width
      /\ IsFiniteSet(0 .. Height - 1) /\ Cardinality(0 .. Height - 1) = Height
  <2>1. \A n \in Nat : 0 .. n - 1 = 0 .. 0 + n - 1
    OBVIOUS
  <2>2. \A n \in Nat : IsFiniteSet(0 .. n - 1) /\ Cardinality(0 .. n - 1) = n
    BY <2>1, IntervalSize
  <2>3. QED
    BY <1>1, <2>2
<1>3. QED
  BY <1>2, FS_Product, ZenonT(60) DEF Frame

-----------------------------------------------------------------------------
(* The steps of the grab.                                                  *)

LEMMA RectangleKeeps ==
  ASSUME VncInv, NEW r \in Rectangles, Rectangle(r) PROVE VncInv'
<1>1. CASE ~Inside(r)
  BY <1>1 DEF Rectangle, GrabRaises, VncInv, Frame, Width, Height, Index, Handshake
<1>2. CASE Inside(r)
  <2>1. /\ grab = "rectangle" /\ Area(r) \cap sent = {}
        /\ pixels' = Paste(r) /\ covered' = covered + r[3] * r[4] /\ sent' = sent \cup Area(r)
        /\ grab' = grab /\ size' = size
    BY <1>2 DEF Rectangle, Reads
  <2>2. /\ r[1] \in Nat /\ r[2] \in Nat /\ r[3] \in Nat /\ r[4] \in Nat
        /\ Width \in Nat /\ Height \in Nat
        /\ r[1] + r[3] <= Width /\ r[2] + r[4] <= Height
    BY <1>2, SMTT(30) DEF VncInv, Rectangles, Inside, Width, Height
  <2>3. Area(r) \subseteq Frame
    <3>1. r[1] .. r[1] + r[3] - 1 \subseteq 0 .. Width - 1
      BY <2>2
    <3>2. r[2] .. r[2] + r[4] - 1 \subseteq 0 .. Height - 1
      BY <2>2
    <3>3. QED
      BY <3>1, <3>2 DEF Area, Frame
  <2>4. covered' = Cardinality(sent')
    <3>1. IsFiniteSet(sent)
      BY FrameSize, FS_Subset DEF VncInv
    <3>2. IsFiniteSet(Area(r)) /\ Cardinality(Area(r)) = r[3] * r[4]
      BY <2>2, AreaSize
    <3>3. /\ Cardinality(sent \cup Area(r))
             = Cardinality(sent) + Cardinality(Area(r)) - Cardinality(sent \cap Area(r))
      BY <3>1, <3>2, FS_Union
    <3>4. Cardinality(sent \cap Area(r)) = 0
      <4>1. sent \cap Area(r) = {}
        BY <2>1
      <4>2. QED
        BY <4>1, FS_EmptySet, Zenon
    <3>5. Cardinality(sent) \in Nat /\ Cardinality(Area(r)) \in Nat
      BY <3>1, <3>2, FS_CardinalityType
    <3>6. Cardinality(sent \cup Area(r)) = Cardinality(sent) + Cardinality(Area(r))
      BY <3>3, <3>4, <3>5
    <3>7. covered = Cardinality(sent)
      BY DEF VncInv
    <3>8. QED
      BY <2>1, <3>2, <3>6, <3>7
  <2>5. DOMAIN pixels = 0 .. Width * Height - 1
    BY <2>1 DEF VncInv
  <2>6. ASSUME NEW position \in sent \cup Area(r)
        PROVE  Paste(r)[Index(position)] = Rgb(Bytes(position))
    <3>1. position \in Frame
      BY <2>3 DEF VncInv
    <3>2. position \notin Area(r) => pixels[Index(position)] = Rgb(Bytes(position))
      BY <2>1 DEF VncInv
    <3>3. QED
      BY <1>2, <2>5, <3>1, <3>2, PasteWrites DEF VncInv
  <2>7. DOMAIN Paste(r) = DOMAIN pixels
    BY DEF Paste
  <2>8. Width' = Width /\ Height' = Height /\ Frame' = Frame
        /\ \A position : Index(position)' = Index(position)
    BY <2>1 DEF Width, Height, Frame, Index
  <2>9. QED
    BY <2>1, <2>3, <2>4, <2>5, <2>6, <2>7, <2>8 DEF VncInv, Handshake, Index, Width, Height
<1>3. QED
  BY <1>1, <1>2

LEMMA ServerInitKeeps ==
  ASSUME VncInv, NEW dimensions \in Sizes, ServerInit(dimensions) PROVE VncInv'
<1>1. grab = "init" /\ sent = {} /\ dimensions \in Nat \X Nat
  BY VncAssumption DEF ServerInit, Reads, VncInv, Handshake
<1>2. CASE GrabRaises
  BY <1>2 DEF GrabRaises, VncInv, Frame, Width, Height, Index, Handshake
<1>3. CASE ~GrabRaises
  <2>1. /\ size' = dimensions /\ grab' = "message" /\ UNCHANGED <<covered, sent>>
        /\ DOMAIN pixels' = 0 .. dimensions[1] * dimensions[2] - 1
    BY <1>3 DEF ServerInit
  <2>2. QED
    BY <1>1, <2>1 DEF VncInv, Handshake, Width, Height, Frame
<1>4. QED
  BY <1>2, <1>3

\* The steps that write nothing.
LEMMA WaitingKeeps ==
  ASSUME VncInv, UNCHANGED <<size, pixels, covered, sent>>,
         \/ grab' \in {grab, "raised"}
         \/ grab \in Handshake /\ grab' \in Handshake
         \/ grab \in {"message", "rectangle"} /\ grab' \in {"message", "rectangle"}
         \/ grab = "rectangle" /\ grab' = "ok" /\ covered >= Width * Height
  PROVE  VncInv'
BY DEF VncInv, Frame, Width, Height, Index, Handshake

LEMMA VncStep == VncInv /\ [VncNext]_vncVars => VncInv'
<1> SUFFICES ASSUME VncInv, [VncNext]_vncVars PROVE VncInv'
  OBVIOUS
<1>1. CASE \E dimensions \in Sizes : ServerInit(dimensions)
  BY <1>1, ServerInitKeeps
<1>2. CASE \E r \in Rectangles : Rectangle(r)
  BY <1>2, RectangleKeeps
<1>3. CASE Tick \/ DeadlineRaises \/ ServerFails
  BY <1>3, WaitingKeeps DEF Tick, DeadlineRaises, ServerFails, GrabRaises
<1>4. CASE Connect
  BY <1>4, WaitingKeeps DEF Connect, Handshake
<1>5. CASE Shake
  <2>1. grab \in {"version", "security", "result"} /\ grab' \in {"security", "result", "init"}
        /\ UNCHANGED <<size, pixels, covered, sent>>
    BY <1>5 DEF Shake, Exchange
  <2>2. QED
    BY <2>1, WaitingKeeps DEF Handshake
<1>6. CASE Chatter \/ UNCHANGED vncVars
  BY <1>6, WaitingKeeps DEF Chatter, vncVars
<1>7. CASE \E count \in 0 .. 2 : Update(count)
  BY <1>7, WaitingKeeps DEF Update, Reads
<1>8. CASE UpdateEnds
  BY <1>8, WaitingKeeps DEF UpdateEnds, WholeFrame
<1>9. QED
  BY <1>1, <1>2, <1>3, <1>4, <1>5, <1>6, <1>7, <1>8 DEF VncNext

\* A complete count means that every position of the frame was sent.
LEMMA CoveredIsFrame == VncInv => FrameIsTheScreen
<1> SUFFICES ASSUME VncInv, grab = "ok", NEW x \in 0 .. Width - 1, NEW y \in 0 .. Height - 1
             PROVE  pixels[y * Width + x] =
                      <<<<"red", <<x, y>>>>, <<"green", <<x, y>>>>, <<"blue", <<x, y>>>>>>
  BY DEF FrameIsTheScreen
<1>1. sent = Frame
  <2>1. IsFiniteSet(Frame) /\ Cardinality(Frame) = Width * Height
    BY FrameSize DEF VncInv
  <2>2. Cardinality(sent) <= Cardinality(Frame) /\ (Cardinality(Frame) = Cardinality(sent) => Frame = sent)
    BY <2>1, FS_Subset DEF VncInv
  <2>3. Cardinality(sent) >= Cardinality(Frame)
    BY <2>1 DEF VncInv
  <2>4. IsFiniteSet(sent)
    BY <2>1, FS_Subset DEF VncInv
  <2>5. Cardinality(sent) \in Nat /\ Cardinality(Frame) \in Nat
    BY <2>1, <2>4, FS_CardinalityType
  <2>6. QED
    BY <2>2, <2>3, <2>5
<1>2. <<x, y>> \in sent
  BY <1>1 DEF Frame
<1>3. pixels[Index(<<x, y>>)] = Rgb(Bytes(<<x, y>>))
  BY <1>2 DEF VncInv
<1>4. QED
  BY <1>3 DEF Index, Rgb, Bytes

\* A grab that returns has every pixel of the screen in its place (vnc.py), for every size
\* of the framebuffer and every way the server cuts it into rectangles.
THEOREM VncFrameIsTheScreen == VncSpec => []FrameIsTheScreen
BY VncInitial, VncStep, CoveredIsFrame, PTL DEF VncSpec

-----------------------------------------------------------------------------
(* The input operations over the connection (QmpSession).                  *)

Cmds == Seq(Events)
Done == issued - Len(toQemu)

SessionType ==
  /\ rest \in Seq(Cmds) /\ bodies \in Seq(Cmds) /\ carried \in Seq(Commands)

Numbered ==
  /\ Len(bodies) = issued
  /\ \A i \in 1 .. Len(toQemu) : toQemu[i] = Done + i
  /\ performed = 1 .. Done

Carried ==
  /\ errors \subseteq performed
  /\ \A i \in 1 .. Len(carried) : carried[i] \in performed \ errors
  /\ Done >= 1 /\ Done \notin errors => carried # <<>> /\ carried[Len(carried)] = Done

Current ==
  /\ fate = "running" => rest # <<>>
  /\ waiting => fate = "running" /\ bodies[issued] = Head(rest)

SessionInv == QmpInv /\ SessionType /\ Numbered /\ Carried /\ Current

ContentsOf(s, ids) == [i \in DOMAIN ids |-> s[ids[i]]]

\* Two sequences with the same elements.
LEMMA SameSeq ==
  ASSUME NEW C, NEW s \in Seq(C), NEW t \in Seq(C), Len(s) = Len(t),
         \A i \in 1 .. Len(s) : s[i] = t[i]
  PROVE  s = t
  OBVIOUS

\* A sequence without its last element.
LEMMA FrontLast ==
  ASSUME NEW C, NEW s \in Seq(C), s # <<>>
  PROVE  /\ Front(s) \in Seq(C) /\ Last(s) = s[Len(s)] /\ Last(s) \in C
         /\ Len(s) \in Nat /\ Len(s) >= 1 /\ Len(Front(s)) = Len(s) - 1
         /\ \A i \in 1 .. Len(s) - 1 : Front(s)[i] = s[i]
         /\ Append(Front(s), Last(s)) = s
<1>1. Len(s) \in Nat /\ Len(s) >= 1
  OBVIOUS
<1>2. /\ Front(s) \in Seq(C) /\ Len(Front(s)) = Len(s) - 1
      /\ \A i \in 1 .. Len(s) - 1 : Front(s)[i] = s[i]
  BY <1>1 DEF Front
<1>3. Last(s) = s[Len(s)] /\ Last(s) \in C
  BY <1>1 DEF Last
<1>4. Append(Front(s), Last(s)) = s
  <2>. DEFINE f == Front(s) l == Last(s)
  <2>1. f \in Seq(C) /\ l \in C /\ Len(f) = Len(s) - 1 /\ l = s[Len(s)]
        /\ \A i \in 1 .. Len(s) - 1 : f[i] = s[i]
    BY <1>2, <1>3
  <2>. HIDE DEF f, l
  <2>2. /\ Append(f, l) \in Seq(C) /\ Len(Append(f, l)) = Len(s)
        /\ \A i \in 1 .. Len(s) : Append(f, l)[i] = s[i]
    BY <1>1, <2>1
  <2>3. Append(f, l) = s
    BY <2>2, SameSeq
  <2>. QED
    BY <2>3 DEF f, l
<1>. QED
  BY <1>1, <1>2, <1>3, <1>4

LEMMA TailOfAppend ==
  ASSUME NEW C, NEW s \in Seq(C), s # <<>>, NEW e \in C
  PROVE  Tail(Append(s, e)) = Append(Tail(s), e)
<1>. DEFINE l == Tail(Append(s, e)) r == Append(Tail(s), e)
<1>1. Len(s) \in Nat /\ Len(s) >= 1
  OBVIOUS
<1>2. l \in Seq(C) /\ Len(l) = Len(s) /\ \A i \in 1 .. Len(s) : l[i] = Append(s, e)[i + 1]
  BY <1>1
<1>3. r \in Seq(C) /\ Len(r) = Len(s)
      /\ \A i \in 1 .. Len(s) : r[i] = IF i = Len(s) THEN e ELSE s[i + 1]
  BY <1>1
<1>4. \A i \in 1 .. Len(s) : Append(s, e)[i + 1] = IF i = Len(s) THEN e ELSE s[i + 1]
  BY <1>1
<1>. HIDE DEF l, r
<1>5. l = r
  BY <1>1, <1>2, <1>3, <1>4, SameSeq
<1>. QED
  BY <1>5 DEF l, r

LEMMA FrontOfAppend ==
  ASSUME NEW C, NEW s \in Seq(C), NEW e \in C
  PROVE  /\ Front(Append(s, e)) = s /\ Last(Append(s, e)) = e
         /\ Append(s, e) # <<>> /\ Append(s, e) \in Seq(C)
<1>. DEFINE t == Append(s, e)
<1>1. /\ t \in Seq(C) /\ Len(t) = Len(s) + 1 /\ Len(s) \in Nat /\ t[Len(s) + 1] = e
      /\ \A i \in 1 .. Len(s) : t[i] = s[i]
  OBVIOUS
<1>. HIDE DEF t
<1>2. t # <<>>
  BY <1>1
<1>3. /\ Front(t) \in Seq(C) /\ Len(Front(t)) = Len(s) /\ Last(t) = e
      /\ \A i \in 1 .. Len(s) : Front(t)[i] = s[i]
  BY <1>1, <1>2, FrontLast
<1>4. Front(t) = s
  BY <1>3, SameSeq
<1>. QED
  BY <1>1, <1>2, <1>3, <1>4 DEF t

\* The commands of a list of ids that were sent.
LEMMA ContentsIs ==
  ASSUME NEW C, NEW s \in Seq(C), NEW ids \in Seq(1 .. Len(s))
  PROVE  /\ ContentsOf(s, ids) \in Seq(C) /\ Len(ContentsOf(s, ids)) = Len(ids)
         /\ Len(ids) \in Nat
         /\ \A i \in 1 .. Len(ids) : ContentsOf(s, ids)[i] = s[ids[i]] /\ ids[i] \in 1 .. Len(s)
<1>. DEFINE c == ContentsOf(s, ids)
<1>1. Len(ids) \in Nat /\ DOMAIN ids = 1 .. Len(ids)
      /\ \A i \in 1 .. Len(ids) : ids[i] \in 1 .. Len(s)
  OBVIOUS
<1>2. \A i \in 1 .. Len(ids) : s[ids[i]] \in C
  BY <1>1
<1>3. c = [i \in 1 .. Len(ids) |-> s[ids[i]]]
  BY <1>1 DEF ContentsOf
<1>. HIDE DEF c
<1>4. c \in Seq(C) /\ Len(c) = Len(ids) /\ \A i \in 1 .. Len(ids) : c[i] = s[ids[i]]
  BY <1>1, <1>2, <1>3
<1>. QED
  BY <1>1, <1>4 DEF c

LEMMA ContentsAppend ==
  ASSUME NEW C, NEW s \in Seq(C), NEW ids \in Seq(1 .. Len(s)), NEW id \in 1 .. Len(s)
  PROVE  ContentsOf(s, Append(ids, id)) = Append(ContentsOf(s, ids), s[id])
<1>. DEFINE more == Append(ids, id)
<1>1. /\ more \in Seq(1 .. Len(s)) /\ Len(more) = Len(ids) + 1 /\ Len(ids) \in Nat
      /\ more[Len(ids) + 1] = id /\ \A i \in 1 .. Len(ids) : more[i] = ids[i]
  OBVIOUS
<1>2. s[id] \in C
  OBVIOUS
<1>. HIDE DEF more
<1>. DEFINE c == ContentsOf(s, ids)
            d == ContentsOf(s, more)
<1>3. /\ c \in Seq(C) /\ Len(c) = Len(ids)
      /\ \A i \in 1 .. Len(ids) : c[i] = s[ids[i]]
  BY ContentsIs
<1>4. /\ d \in Seq(C) /\ Len(d) = Len(ids) + 1
      /\ \A i \in 1 .. Len(ids) + 1 : d[i] = s[more[i]]
  BY <1>1, ContentsIs
<1>. HIDE DEF c, d
<1>5. /\ Append(c, s[id]) \in Seq(C) /\ Len(Append(c, s[id])) = Len(ids) + 1
      /\ \A i \in 1 .. Len(ids) + 1 : Append(c, s[id])[i] = d[i]
  BY <1>1, <1>2, <1>3, <1>4
<1>6. Append(c, s[id]) = d
  BY <1>4, <1>5, SameSeq
<1>. QED
  BY <1>6 DEF c, d, more

LEMMA ContentsTail ==
  ASSUME NEW C, NEW s \in Seq(C), NEW ids \in Seq(1 .. Len(s)), ids # <<>>
  PROVE  /\ ContentsOf(s, ids) # <<>>
         /\ Head(ContentsOf(s, ids)) = s[Head(ids)]
         /\ ContentsOf(s, Tail(ids)) = Tail(ContentsOf(s, ids))
         /\ Tail(ids) \in Seq(1 .. Len(s))
<1>. DEFINE less == Tail(ids)
<1>1. /\ less \in Seq(1 .. Len(s)) /\ Len(less) = Len(ids) - 1 /\ Len(ids) \in Nat
      /\ Len(ids) >= 1 /\ \A i \in 1 .. Len(ids) - 1 : less[i] = ids[i + 1]
      /\ Head(ids) = ids[1]
  OBVIOUS
<1>. HIDE DEF less
<1>. DEFINE c == ContentsOf(s, ids)
            d == ContentsOf(s, less)
<1>2. /\ c \in Seq(C) /\ Len(c) = Len(ids)
      /\ \A i \in 1 .. Len(ids) : c[i] = s[ids[i]]
  BY ContentsIs
<1>3. /\ d \in Seq(C) /\ Len(d) = Len(ids) - 1
      /\ \A i \in 1 .. Len(ids) - 1 : d[i] = s[less[i]]
  BY <1>1, ContentsIs
<1>. HIDE DEF c, d
<1>4. /\ c # <<>> /\ Head(c) = s[ids[1]] /\ Tail(c) \in Seq(C) /\ Len(Tail(c)) = Len(ids) - 1
      /\ \A i \in 1 .. Len(ids) - 1 : Tail(c)[i] = c[i + 1]
  <2>1. Len(c) >= 1 /\ Len(c) \in Nat /\ c[1] = s[ids[1]]
    BY <1>1, <1>2
  <2>2. c # <<>> /\ Head(c) = c[1]
    BY <1>2, <2>1
  <2>3. /\ Tail(c) \in Seq(C) /\ Len(Tail(c)) = Len(c) - 1
        /\ \A i \in 1 .. Len(c) - 1 : Tail(c)[i] = c[i + 1]
    BY <1>2, <2>1, <2>2
  <2>. QED
    BY <1>2, <2>1, <2>2, <2>3
<1>5. ASSUME NEW i \in 1 .. Len(ids) - 1 PROVE Tail(c)[i] = d[i]
  <2>1. Tail(c)[i] = c[i + 1] /\ d[i] = s[less[i]] /\ less[i] = ids[i + 1]
    BY <1>1, <1>3, <1>4
  <2>2. i + 1 \in 1 .. Len(ids)
    BY <1>1
  <2>3. c[i + 1] = s[ids[i + 1]]
    BY <1>2, <2>2
  <2>. QED
    BY <2>1, <2>3
<1>6. Tail(c) = d
  BY <1>1, <1>3, <1>4, <1>5, SameSeq
<1>. QED
  BY <1>1, <1>4, <1>6 DEF c, d, less

\* What is sent later changes nothing of it.
LEMMA ContentsStay ==
  ASSUME NEW C, NEW s \in Seq(C), NEW ids \in Seq(1 .. Len(s)), NEW e \in C
  PROVE  ContentsOf(Append(s, e), ids) = ContentsOf(s, ids)
<1>. DEFINE t == Append(s, e)
<1>1. t \in Seq(C) /\ Len(t) = Len(s) + 1 /\ Len(s) \in Nat /\ \A i \in 1 .. Len(s) : t[i] = s[i]
  OBVIOUS
<1>2. ids \in Seq(1 .. Len(t)) /\ \A i \in 1 .. Len(ids) : ids[i] \in 1 .. Len(s)
  <2>1. \A i \in 1 .. Len(ids) : ids[i] \in 1 .. Len(s) /\ ids[i] \in 1 .. Len(t)
    BY <1>1
  <2>2. Len(ids) \in Nat /\ ids = [i \in 1 .. Len(ids) |-> ids[i]]
    OBVIOUS
  <2>. HIDE DEF t
  <2>. QED
    BY <2>1, <2>2, SMTT(30)
<1>. HIDE DEF t
<1>3. /\ ContentsOf(t, ids) \in Seq(C) /\ Len(ContentsOf(t, ids)) = Len(ids)
      /\ \A i \in 1 .. Len(ids) : ContentsOf(t, ids)[i] = t[ids[i]]
  BY <1>1, <1>2, ContentsIs
<1>4. /\ ContentsOf(s, ids) \in Seq(C) /\ Len(ContentsOf(s, ids)) = Len(ids)
      /\ \A i \in 1 .. Len(ids) : ContentsOf(s, ids)[i] = s[ids[i]]
  BY ContentsIs
<1>5. ContentsOf(t, ids) = ContentsOf(s, ids)
  BY <1>1, <1>2, <1>3, <1>4, SameSeq
<1>. QED
  BY <1>5 DEF t

-----------------------------------------------------------------------------
LEMMA SessionInitInv == SessionInit => SessionInv
<1>. SUFFICES ASSUME SessionInit PROVE SessionInv
  OBVIOUS
<1>1. QmpInv
  BY QmpInitInv DEF SessionInit
<1>2. /\ rest = <<>> /\ bodies = <<>> /\ carried = <<>> /\ errors = {} /\ fate = "ok"
      /\ issued = 0 /\ toQemu = <<>> /\ performed = {} /\ waiting = FALSE
  BY DEF SessionInit, Init
<1>3. SessionType
  BY <1>2 DEF SessionType
<1>4. Numbered /\ Carried /\ Current
  BY <1>2 DEF Numbered, Carried, Current, Done
<1>. QED
  BY <1>1, <1>3, <1>4 DEF SessionInv

\* What the invariant says of the ids.
LEMMA SessionFacts ==
  ASSUME SessionInv
  PROVE  /\ issued \in Nat /\ Len(toQemu) \in Nat /\ Done \in Nat /\ Done <= issued
         /\ toQemu \in Seq(Commands) /\ toQemu \in Seq(1 .. Len(bodies))
         /\ carried \in Seq(1 .. Len(bodies)) /\ Len(bodies) = issued
         /\ rest \in Seq(Cmds) /\ bodies \in Seq(Cmds)
<1>1. /\ issued \in Nat /\ Len(toQemu) \in Nat /\ toQemu \in Seq(Commands)
      /\ \A i \in 1 .. Len(toQemu) : toQemu[i] \in Nat \ {0} /\ toQemu[i] <= issued
  <2>1. toQemu \in Seq(Commands) /\ issued \in 0 .. MaxCalls
    BY DEF SessionInv, QmpInv, TypeOK
  <2>2. \A i \in 1 .. Len(toQemu) : toQemu[i] \in Commands /\ toQemu[i] <= issued
    BY <2>1 DEF SessionInv, QmpInv, InOrder
  <2>. QED
    BY <2>1, <2>2, QmpBoundsAssumption DEF Commands
<1>2. Done \in Nat /\ Done <= issued
  <2>1. CASE Len(toQemu) = 0
    BY <1>1, <2>1 DEF Done
  <2>2. CASE Len(toQemu) # 0
    <3>1. 1 \in 1 .. Len(toQemu) /\ toQemu[1] = Done + 1 /\ toQemu[1] \in Nat \ {0}
      BY <1>1, <2>2 DEF SessionInv, Numbered
    <3>. QED
      BY <1>1, <3>1 DEF Done
  <2>. QED
    BY <2>1, <2>2
<1>3. rest \in Seq(Cmds) /\ bodies \in Seq(Cmds) /\ carried \in Seq(Commands) /\ Len(bodies) = issued
  BY DEF SessionInv, SessionType, Numbered
<1>4. toQemu \in Seq(1 .. issued)
  <2>1. \A i \in 1 .. Len(toQemu) : toQemu[i] \in 1 .. issued
    BY <1>1
  <2>2. toQemu = [i \in 1 .. Len(toQemu) |-> toQemu[i]]
    BY <1>1
  <2>. QED
    BY <1>1, <2>1, <2>2
<1>5. carried \in Seq(1 .. issued)
  <2>1. \A i \in 1 .. Len(carried) : carried[i] \in 1 .. issued
    <3>1. \A i \in 1 .. Len(carried) : carried[i] \in 1 .. Done
      BY DEF SessionInv, Carried, Numbered
    <3>. QED
      BY <1>1, <1>2, <3>1
  <2>2. carried = [i \in 1 .. Len(carried) |-> carried[i]] /\ Len(carried) \in Nat
    BY <1>3
  <2>. QED
    BY <1>1, <2>1, <2>2
<1>. QED
  BY <1>1, <1>2, <1>3, <1>4, <1>5

LEMMA ServedIsNext ==
  ASSUME SessionInv, toQemu # <<>>
  PROVE  Head(toQemu) = Done + 1 /\ Len(toQemu) >= 1 /\ Head(toQemu) \in Commands
<1>1. toQemu \in Seq(Commands)
  BY SessionFacts
<1>2. Len(toQemu) >= 1 /\ Head(toQemu) = toQemu[1] /\ toQemu[1] \in Commands
  BY <1>1
<1>. QED
  BY <1>1, <1>2 DEF SessionInv, Numbered

\* While a command is under way, QEMU has carried it out or it is the last one to do.
LEMMA UnderWay ==
  ASSUME SessionInv, waiting
  PROVE  /\ toQemu # <<>> => Last(toQemu) = issued
         /\ toQemu = <<>> => issued = Done /\ issued \in performed
         /\ issued >= 1
<1>1. /\ issued \in Nat /\ Len(toQemu) \in Nat /\ toQemu \in Seq(Commands)
      /\ Done \in Nat /\ Done <= issued
  BY SessionFacts
<1>2. issued >= 1
  BY DEF SessionInv, QmpInv, InOrder
<1>3. ASSUME toQemu # <<>> PROVE Last(toQemu) = issued
  <2>1. Last(toQemu) = toQemu[Len(toQemu)] /\ Len(toQemu) >= 1
    BY <1>1, <1>3, FrontLast
  <2>2. toQemu[Len(toQemu)] = Done + Len(toQemu)
    BY <1>1, <2>1 DEF SessionInv, Numbered
  <2>. QED
    BY <1>1, <2>1, <2>2 DEF Done
<1>4. ASSUME toQemu = <<>> PROVE issued = Done /\ issued \in performed
  <2>1. Len(toQemu) = 0
    BY <1>4
  <2>2. issued = Done
    BY <1>1, <2>1 DEF Done
  <2>. QED
    BY <1>1, <1>2, <2>2 DEF SessionInv, Numbered
<1>. QED
  BY <1>2, <1>3, <1>4

\* Every step is a step of the connection.
LEMMA SessionRunsClient == ASSUME [SessionNext]_sessionVars PROVE [Next]_vars
  BY DEF SessionNext, sessionVars, Request, Send, Serve, Notify, Read, Expire, Lose, SendFails,
         Next, vars

LEMMA RequestKeeps ==
  ASSUME SessionInv, NEW op \in Operations, Request(op), QmpInv' PROVE SessionInv'
<1>1. CommandsOf(op) \in Seq(Cmds) /\ CommandsOf(op) # <<>>
  BY InputAssumption, OperationCommands DEF Cmds
<1>2. /\ rest' = CommandsOf(op) /\ fate' = "running" /\ fate # "running"
      /\ UNCHANGED vars /\ bodies' = bodies /\ errors' = errors /\ carried' = carried
  BY DEF Request
<1>3. SessionType'
  BY <1>1, <1>2 DEF SessionInv, SessionType
<1>4. Numbered' /\ Carried'
  BY <1>2 DEF SessionInv, Numbered, Carried, Done, vars
<1>5. Current'
  BY <1>1, <1>2 DEF SessionInv, Current, vars
<1>. QED
  BY <1>3, <1>4, <1>5 DEF SessionInv

LEMMA SendKeeps == ASSUME SessionInv, Send, QmpInv' PROVE SessionInv'
<1>1. /\ fate = "running" /\ ~waiting /\ issued' = issued + 1 /\ toQemu' = Append(toQemu, issued + 1)
      /\ waiting' /\ performed' = performed
      /\ bodies' = Append(bodies, Head(rest)) /\ rest' = rest /\ fate' = fate
      /\ errors' = errors /\ carried' = carried
  BY DEF Send, Execute
<1>2. /\ issued \in Nat /\ Len(toQemu) \in Nat /\ Done \in Nat
      /\ toQemu \in Seq(Commands) /\ Len(bodies) = issued
      /\ rest \in Seq(Cmds) /\ bodies \in Seq(Cmds)
  BY SessionFacts
<1>3. rest # <<>>
  BY <1>1 DEF SessionInv, Current
<1>4. Head(rest) \in Cmds
  <2>. HIDE DEF Cmds
  <2>. QED
    BY <1>2, <1>3
<1>5. bodies' \in Seq(Cmds) /\ Len(bodies') = issued + 1 /\ bodies'[issued + 1] = Head(rest)
  <2>. HIDE DEF Cmds
  <2>. QED
    BY <1>1, <1>2, <1>4
<1>6. SessionType'
  BY <1>1, <1>5 DEF SessionInv, SessionType
<1>7. /\ Len(toQemu') = Len(toQemu) + 1 /\ toQemu'[Len(toQemu) + 1] = issued + 1
      /\ \A i \in 1 .. Len(toQemu) : toQemu'[i] = toQemu[i]
  BY <1>1, <1>2
<1>8. Done' = Done /\ issued = Done + Len(toQemu)
  BY <1>1, <1>2, <1>7 DEF Done
<1>9. Numbered'
  <2>1. ASSUME NEW i \in 1 .. Len(toQemu') PROVE toQemu'[i] = Done + i
    <3>1. CASE i \in 1 .. Len(toQemu)
      BY <1>7, <3>1 DEF SessionInv, Numbered
    <3>2. CASE i = Len(toQemu) + 1
      BY <1>2, <1>7, <1>8, <3>2
    <3>. QED
      BY <1>2, <1>7, <3>1, <3>2
  <2>. QED
    BY <1>1, <1>5, <1>8, <2>1 DEF SessionInv, Numbered
<1>10. Carried'
  BY <1>1, <1>8 DEF SessionInv, Carried
<1>11. Current'
  BY <1>1, <1>3, <1>5 DEF Current
<1>. QED
  BY <1>6, <1>9, <1>10, <1>11 DEF SessionInv

LEMMA ServeKeeps == ASSUME SessionInv, Serve, QmpInv' PROVE SessionInv'
<1>. DEFINE h == Head(toQemu)
<1>1. /\ toQemu # <<>> /\ performed' = performed \cup {h} /\ toQemu' = Tail(toQemu)
      /\ issued' = issued /\ waiting' = waiting
      /\ rest' = rest /\ fate' = fate /\ bodies' = bodies
      /\ \/ carried' = Append(carried, h) /\ errors' = errors
         \/ errors' = errors \cup {h} /\ carried' = carried
  BY DEF Serve, QemuServes
<1>2. h = Done + 1 /\ Len(toQemu) >= 1 /\ h \in Commands
  BY <1>1, ServedIsNext
<1>. HIDE DEF h
<1>3. issued \in Nat /\ Len(toQemu) \in Nat /\ Done \in Nat /\ toQemu \in Seq(Commands)
  BY SessionFacts
<1>4. /\ Len(toQemu') = Len(toQemu) - 1
      /\ \A i \in 1 .. Len(toQemu) - 1 : toQemu'[i] = toQemu[i + 1]
  BY <1>1, <1>2, <1>3
<1>5. Done' = Done + 1
  BY <1>1, <1>3, <1>4 DEF Done
<1>6. carried \in Seq(Commands) /\ Len(carried) \in Nat
  BY DEF SessionInv, SessionType
<1>7. SessionType'
  <2>1. carried' \in Seq(Commands)
    BY <1>1, <1>2, <1>6, SMTT(30)
  <2>. QED
    BY <1>1, <2>1 DEF SessionInv, SessionType
<1>8. Numbered'
  <2>1. ASSUME NEW i \in 1 .. Len(toQemu') PROVE toQemu'[i] = Done' + i
    <3>1. i + 1 \in 1 .. Len(toQemu) /\ i \in 1 .. Len(toQemu) - 1
      BY <1>2, <1>3, <1>4
    <3>2. toQemu'[i] = toQemu[i + 1] /\ toQemu[i + 1] = Done + (i + 1)
      BY <1>4, <3>1 DEF SessionInv, Numbered
    <3>. QED
      BY <1>3, <1>5, <3>1, <3>2
  <2>2. performed' = 1 .. Done'
    <3>1. performed = 1 .. Done
      BY DEF SessionInv, Numbered
    <3>. QED
      BY <1>1, <1>2, <1>3, <1>5, <3>1
  <2>. QED
    BY <1>1, <2>1, <2>2 DEF SessionInv, Numbered
<1>9. Carried'
  <2>1. /\ errors \subseteq performed /\ performed = 1 .. Done /\ h \notin performed
        /\ \A i \in 1 .. Len(carried) : carried[i] \in performed \ errors
    BY <1>2, <1>3 DEF SessionInv, Carried, Numbered
  <2>2. CASE carried' = Append(carried, h) /\ errors' = errors
    <3>1. /\ Len(carried') = Len(carried) + 1 /\ carried'[Len(carried) + 1] = h
          /\ \A i \in 1 .. Len(carried) : carried'[i] = carried[i]
          /\ carried' # <<>>
      BY <1>2, <1>6, <2>2
    <3>2. ASSUME NEW i \in 1 .. Len(carried') PROVE carried'[i] \in performed' \ errors'
      <4>1. CASE i \in 1 .. Len(carried)
        BY <1>1, <2>1, <2>2, <3>1, <4>1
      <4>2. CASE i = Len(carried) + 1
        BY <1>1, <2>1, <2>2, <3>1, <4>2
      <4>. QED
        BY <1>6, <3>1, <4>1, <4>2
    <3>3. carried'[Len(carried')] = Done'
      BY <1>2, <1>5, <3>1
    <3>4. errors' \subseteq performed'
      BY <1>1, <2>1, <2>2
    <3>. QED
      BY <3>1, <3>2, <3>3, <3>4 DEF Carried
  <2>3. CASE errors' = errors \cup {h} /\ carried' = carried
    BY <1>1, <1>2, <1>5, <2>1, <2>3 DEF Carried
  <2>. QED
    BY <1>1, <2>2, <2>3
<1>10. Current'
  BY <1>1 DEF SessionInv, Current
<1>. QED
  BY <1>7, <1>8, <1>9, <1>10 DEF SessionInv

\* The ids and what became of them, when only the waiting, the stream or the operation changes.
LEMMA IdsKeep ==
  ASSUME SessionInv, UNCHANGED <<issued, toQemu, performed, bodies, errors, carried>>,
         rest' \in Seq(Cmds)
  PROVE  SessionType' /\ Numbered' /\ Carried'
  BY DEF SessionInv, SessionType, Numbered, Carried, Done

\* An operation that fails or goes on leaves a list of commands.
LEMMA RestOfOperation ==
  ASSUME SessionInv
  PROVE  /\ Fail => rest' \in Seq(Cmds)
         /\ GoOn /\ fate = "running" =>
              /\ rest' \in Seq(Cmds) /\ (fate' = "running" => rest' # <<>>)
              /\ Len(rest) >= 1
<1>. HIDE DEF Cmds
<1>1. rest \in Seq(Cmds)
  BY SessionFacts
<1>2. ASSUME Fail PROVE rest' \in Seq(Cmds)
  BY <1>2 DEF Fail
<1>3. ASSUME GoOn, fate = "running"
      PROVE  rest' \in Seq(Cmds) /\ (fate' = "running" => rest' # <<>>) /\ Len(rest) >= 1
  <2>1. rest # <<>>
    BY <1>3 DEF SessionInv, Current
  <2>2. Len(rest) \in Nat /\ Len(rest) >= 1 /\ Tail(rest) \in Seq(Cmds)
        /\ Len(Tail(rest)) = Len(rest) - 1
    BY <1>1, <2>1
  <2>3. Len(rest) # 1 => Tail(rest) # <<>>
    BY <2>2
  <2>. QED
    BY <1>3, <2>2, <2>3 DEF GoOn
<1>. QED
  BY <1>2, <1>3

LEMMA ReadKeeps == ASSUME SessionInv, Read, QmpInv' PROVE SessionInv'
<1>1. /\ waiting /\ UNCHANGED <<issued, toQemu, performed, bodies, errors, carried>>
      /\ IF waiting' THEN UNCHANGED <<rest, fate>> ELSE IF issued \in errors THEN Fail ELSE GoOn
      /\ waiting' \in BOOLEAN
  BY DEF Read, Receive, SessionInv, QmpInv, TypeOK
<1>2. fate = "running" /\ rest # <<>> /\ rest \in Seq(Cmds) /\ bodies[issued] = Head(rest)
  BY <1>1, SessionFacts DEF SessionInv, Current
<1>3. rest' \in Seq(Cmds) /\ Current'
  <2>1. CASE waiting'
    BY <1>1, <1>2, <2>1 DEF Current
  <2>2. CASE ~waiting' /\ issued \in errors
    <3>1. Fail
      BY <1>1, <2>2
    <3>. QED
      BY <1>1, <2>2, <3>1, RestOfOperation DEF Current, Fail
  <2>3. CASE ~waiting' /\ issued \notin errors
    <3>1. GoOn
      BY <1>1, <2>3
    <3>. QED
      BY <1>1, <1>2, <2>3, <3>1, RestOfOperation DEF Current
  <2>. QED
    BY <2>1, <2>2, <2>3
<1>. QED
  BY <1>1, <1>3, IdsKeep DEF SessionInv

LEMMA SessionStep == SessionInv /\ [SessionNext]_sessionVars => SessionInv'
<1>. SUFFICES ASSUME SessionInv, [SessionNext]_sessionVars PROVE SessionInv'
  OBVIOUS
<1>1. QmpInv'
  BY SessionRunsClient, QmpInvStep DEF SessionInv
<1>2. rest \in Seq(Cmds)
  BY SessionFacts
<1>3. CASE \E op \in Operations : Request(op)
  BY <1>1, <1>3, RequestKeeps
<1>4. CASE Send
  BY <1>1, <1>4, SendKeeps
<1>5. CASE Serve
  BY <1>1, <1>5, ServeKeeps
<1>6. CASE Read
  BY <1>1, <1>6, ReadKeeps
<1>7. CASE Notify \/ UNCHANGED sessionVars
  <2>1. UNCHANGED <<issued, waiting, toQemu, performed, bodies, errors, carried, rest, fate>>
    BY <1>7 DEF Notify, QemuNotifies, sessionVars, vars
  <2>2. Current'
    BY <2>1 DEF SessionInv, Current
  <2>. QED
    BY <1>1, <1>2, <2>1, <2>2, IdsKeep DEF SessionInv
<1>8. CASE Expire \/ SendFails
  <2>1. /\ UNCHANGED <<issued, toQemu, performed, bodies, errors, carried>> /\ Fail /\ ~waiting'
    BY <1>8 DEF Expire, AfterTimeout, TimeOut, SendFails, vars
  <2>2. Current'
    BY <2>1 DEF Current, Fail
  <2>. QED
    BY <1>1, <2>1, <2>2, RestOfOperation, IdsKeep DEF SessionInv
<1>9. CASE Lose
  <2>1. /\ UNCHANGED <<issued, toQemu, performed, bodies, errors, carried>> /\ ~waiting'
        /\ IF waiting THEN Fail ELSE UNCHANGED <<rest, fate>>
    BY <1>9 DEF Lose, Break
  <2>2. Current' /\ rest' \in Seq(Cmds)
    BY <1>2, <2>1, RestOfOperation DEF SessionInv, Current, Fail
  <2>. QED
    BY <1>1, <2>1, <2>2, IdsKeep DEF SessionInv
<1>. QED
  BY <1>3, <1>4, <1>5, <1>6, <1>7, <1>8, <1>9 DEF SessionNext

-----------------------------------------------------------------------------
(* The operations over the connection implement QmpInput.                  *)

\* What is outstanding, and what is past, of the calls that are not under way.
LEMMA AbstractLists ==
  ASSUME SessionInv
  PROVE  /\ ~waiting => Outstanding = toQemu /\ Past = carried
         /\ waiting /\ toQemu # <<>> =>
              /\ Outstanding \in Seq(1 .. Len(bodies)) /\ toQemu = Append(Outstanding, issued)
              /\ Past = carried
         /\ waiting /\ toQemu = <<>> =>
              /\ Outstanding = <<>>
              /\ issued \in errors => Past = carried
              /\ issued \notin errors =>
                   Past \in Seq(1 .. Len(bodies)) /\ carried = Append(Past, issued)
<1>1. /\ toQemu \in Seq(1 .. Len(bodies)) /\ carried \in Seq(1 .. Len(bodies))
      /\ issued \in Nat /\ Len(toQemu) \in Nat /\ Done \in Nat
  BY SessionFacts
<1>2. ~waiting => Outstanding = toQemu /\ Past = carried
  BY DEF Outstanding, Past, IsUnderWay
<1>3. ASSUME waiting, toQemu # <<>>
      PROVE  /\ Outstanding \in Seq(1 .. Len(bodies)) /\ toQemu = Append(Outstanding, issued)
             /\ Past = carried
  <2>1. Last(toQemu) = issued
    BY <1>3, UnderWay
  <2>2. Outstanding = Front(toQemu)
    BY <1>3, <2>1 DEF Outstanding, IsUnderWay
  <2>3. Outstanding \in Seq(1 .. Len(bodies)) /\ toQemu = Append(Outstanding, issued)
    BY <1>1, <1>3, <2>1, <2>2, FrontLast
  <2>4. Done < issued
    <3>1. Len(toQemu) >= 1
      BY <1>1, <1>3
    <3>. QED
      BY <1>1, <3>1 DEF Done
  <2>5. carried # <<>> => Last(carried) # issued
    <3>. SUFFICES ASSUME carried # <<>> PROVE Last(carried) # issued
      OBVIOUS
    <3>1. Last(carried) = carried[Len(carried)] /\ Len(carried) \in Nat /\ Len(carried) >= 1
      BY <1>1, FrontLast
    <3>2. Last(carried) \in 1 .. Done
      BY <3>1 DEF SessionInv, Carried, Numbered
    <3>. QED
      BY <1>1, <2>4, <3>2
  <2>. QED
    BY <2>3, <2>5 DEF Past, IsUnderWay
<1>4. ASSUME waiting, toQemu = <<>>
      PROVE  /\ Outstanding = <<>>
             /\ issued \in errors => Past = carried
             /\ issued \notin errors =>
                  Past \in Seq(1 .. Len(bodies)) /\ carried = Append(Past, issued)
  <2>1. issued = Done /\ issued >= 1
    BY <1>4, UnderWay
  <2>2. Outstanding = <<>>
    BY <1>4 DEF Outstanding
  <2>3. ASSUME issued \in errors PROVE Past = carried
    <3>1. carried # <<>> => Last(carried) # issued
      <4>. SUFFICES ASSUME carried # <<>> PROVE Last(carried) # issued
        OBVIOUS
      <4>1. Last(carried) = carried[Len(carried)] /\ Len(carried) \in Nat /\ Len(carried) >= 1
        BY <1>1, FrontLast
      <4>2. Last(carried) \notin errors
        BY <4>1 DEF SessionInv, Carried
      <4>. QED
        BY <2>3, <4>2
    <3>. QED
      BY <3>1 DEF Past, IsUnderWay
  <2>4. ASSUME issued \notin errors
        PROVE  Past \in Seq(1 .. Len(bodies)) /\ carried = Append(Past, issued)
    <3>1. carried # <<>> /\ carried[Len(carried)] = issued
      BY <2>1, <2>4 DEF SessionInv, Carried
    <3>2. Last(carried) = issued
      BY <1>1, <3>1, FrontLast
    <3>3. Past = Front(carried)
      BY <1>4, <3>1, <3>2 DEF Past, IsUnderWay
    <3>. QED
      BY <1>1, <3>1, <3>2, <3>3, FrontLast
  <2>. QED
    BY <2>2, <2>3, <2>4
<1>. QED
  BY <1>2, <1>3, <1>4

LateNow == Contents(Outstanding)
SeenNow == Contents(Past)

\* Nothing is late or seen anew when the command under way is answered or given up, but
\* that command.
LEMMA WaitEnds ==
  ASSUME SessionInv, waiting, ~waiting',
         UNCHANGED <<issued, toQemu, bodies, errors, carried>>
  PROVE  /\ fate = "running" /\ rest # <<>>
         /\ toQemu # <<>> => LateNow' = Append(LateNow, Head(rest)) /\ SeenNow' = SeenNow
         /\ toQemu = <<>> => LateNow = <<>> /\ LateNow' = <<>>
         /\ toQemu = <<>> /\ issued \in errors => SeenNow' = SeenNow
         /\ toQemu = <<>> /\ issued \notin errors => SeenNow' = Append(SeenNow, Head(rest))
<1>1. /\ fate = "running" /\ rest # <<>> /\ bodies[issued] = Head(rest)
  BY DEF SessionInv, Current
<1>2. issued \in 1 .. Len(bodies) /\ bodies \in Seq(Cmds)
  BY UnderWay, SessionFacts
<1>3. Outstanding' = toQemu /\ Past' = carried
  BY DEF Outstanding, Past, IsUnderWay
<1>4. LateNow' = ContentsOf(bodies, toQemu) /\ SeenNow' = ContentsOf(bodies, carried)
  BY <1>3 DEF LateNow, SeenNow, Contents, ContentsOf
<1>5. LateNow = ContentsOf(bodies, Outstanding) /\ SeenNow = ContentsOf(bodies, Past)
  BY DEF LateNow, SeenNow, Contents, ContentsOf
<1>. HIDE DEF Cmds
<1>6. ASSUME toQemu # <<>> PROVE LateNow' = Append(LateNow, Head(rest)) /\ SeenNow' = SeenNow
  <2>1. /\ Outstanding \in Seq(1 .. Len(bodies)) /\ toQemu = Append(Outstanding, issued)
        /\ Past = carried
    BY <1>6, AbstractLists
  <2>2. ContentsOf(bodies, toQemu) = Append(ContentsOf(bodies, Outstanding), bodies[issued])
    BY <1>2, <2>1, ContentsAppend
  <2>. QED
    BY <1>1, <1>4, <1>5, <2>1, <2>2
<1>7. ASSUME toQemu = <<>> PROVE LateNow = <<>> /\ LateNow' = <<>>
  <2>1. Outstanding = <<>>
    BY <1>7, AbstractLists
  <2>. QED
    BY <1>4, <1>5, <1>7, <2>1 DEF ContentsOf
<1>8. ASSUME toQemu = <<>>, issued \in errors PROVE SeenNow' = SeenNow
  BY <1>4, <1>5, <1>8, AbstractLists
<1>9. ASSUME toQemu = <<>>, issued \notin errors PROVE SeenNow' = Append(SeenNow, Head(rest))
  <2>1. Past \in Seq(1 .. Len(bodies)) /\ carried = Append(Past, issued)
    BY <1>9, AbstractLists
  <2>2. ContentsOf(bodies, carried) = Append(ContentsOf(bodies, Past), bodies[issued])
    BY <1>2, <2>1, ContentsAppend
  <2>. QED
    BY <1>1, <1>4, <1>5, <2>2
<1>. QED
  BY <1>1, <1>6, <1>7, <1>8, <1>9

\* A command under way that fails is given up, or was refused.
LEMMA FailIsInput ==
  ASSUME SessionInv, waiting, ~waiting', Fail, requests' = requests,
         UNCHANGED <<issued, toQemu, bodies, errors, carried>>
  PROVE  Input!Abandoned \/ Input!Refused
<1>1. fate = "running" /\ fate' = "failed" /\ rest' = <<>>
  BY WaitEnds DEF Fail
<1>2. CASE toQemu # <<>>
  <2>1. LateNow' = Append(LateNow, Head(rest)) /\ SeenNow' = SeenNow
    BY <1>2, WaitEnds
  <2>. QED
    BY <1>1, <2>1 DEF Input!Abandoned, Input!GivesUp, LateNow, SeenNow
<1>3. CASE toQemu = <<>> /\ issued \in errors
  <2>1. LateNow' = LateNow /\ SeenNow' = SeenNow
    BY <1>3, WaitEnds
  <2>. QED
    BY <1>1, <2>1 DEF Input!Refused, LateNow, SeenNow
<1>4. CASE toQemu = <<>> /\ issued \notin errors
  <2>1. LateNow = <<>> /\ LateNow' = <<>> /\ SeenNow' = Append(SeenNow, Head(rest))
    BY <1>4, WaitEnds
  <2>. QED
    BY <1>1, <2>1 DEF Input!Abandoned, Input!GivesUp, LateNow, SeenNow
<1>. QED
  BY <1>2, <1>3, <1>4

\* A reply that is read is that of the command, which QEMU is done with.
LEMMA ReplyIsLast ==
  ASSUME SessionInv, Receive, ~waiting' PROVE waiting /\ toQemu = <<>>
<1>1. /\ waiting /\ toClient # <<>> /\ IsReply(Head(toClient))
      /\ toClient \in Seq(Commands \cup {Event})
  BY DEF Receive, SessionInv, QmpInv, TypeOK
<1>2. Head(toClient) = toClient[1] /\ 1 \in 1 .. Len(toClient) /\ toClient[1] = issued
  BY <1>1 DEF IsReply
<1>3. issued >= 1 /\ issued \in Nat /\ Len(toQemu) \in Nat /\ Done \in Nat
  BY <1>1, UnderWay, SessionFacts
<1>4. issued \in performed
  BY <1>2, <1>3 DEF SessionInv, QmpInv, Genuine, Event
<1>5. issued <= Done
  BY <1>4 DEF SessionInv, Numbered
<1>6. Len(toQemu) = 0
  BY <1>3, <1>5 DEF Done
<1>. QED
  BY <1>1, <1>6, SessionFacts, EmptySeq

LEMMA ReadIsInput == ASSUME SessionInv, Read PROVE [Input!InputNext]_(Input!inputVars)
<1>1. /\ waiting /\ UNCHANGED <<issued, toQemu, bodies, errors, carried, requests>>
      /\ IF waiting' THEN UNCHANGED <<rest, fate>> ELSE IF issued \in errors THEN Fail ELSE GoOn
      /\ Receive
  BY DEF Read, Receive
<1>2. CASE waiting'
  <2>1. waiting' = waiting
    BY <1>1, <1>2 DEF Receive
  <2>2. Outstanding' = Outstanding /\ Past' = Past
    BY <1>1, <2>1 DEF Outstanding, Past, IsUnderWay
  <2>3. LateNow' = LateNow /\ SeenNow' = SeenNow
    BY <1>1, <2>2 DEF LateNow, SeenNow, Contents
  <2>. QED
    BY <1>1, <1>2, <2>3 DEF Input!inputVars, LateNow, SeenNow
<1>3. CASE ~waiting' /\ issued \in errors
  BY <1>1, <1>3, FailIsInput DEF Input!InputNext
<1>4. CASE ~waiting' /\ issued \notin errors
  <2>1. toQemu = <<>> /\ GoOn
    BY <1>1, <1>4, ReplyIsLast
  <2>2. /\ fate = "running" /\ LateNow = <<>> /\ LateNow' = <<>>
        /\ SeenNow' = Append(SeenNow, Head(rest))
    BY <1>1, <1>4, <2>1, WaitEnds
  <2>3. Input!Answered
    BY <1>1, <2>1, <2>2 DEF Input!Answered, GoOn, LateNow, SeenNow
  <2>. QED
    BY <2>3 DEF Input!InputNext
<1>. QED
  BY <1>2, <1>3, <1>4

LEMMA SendIsInput == ASSUME SessionInv, Send PROVE UNCHANGED Input!inputVars
<1>1. /\ fate = "running" /\ ~waiting /\ issued' = issued + 1 /\ toQemu' = Append(toQemu, issued + 1)
      /\ waiting' /\ bodies' = Append(bodies, Head(rest)) /\ rest' = rest /\ fate' = fate
      /\ carried' = carried /\ requests' = requests
  BY DEF Send, Execute
<1>2. /\ issued \in Nat /\ toQemu \in Seq(1 .. Len(bodies)) /\ carried \in Seq(1 .. Len(bodies))
      /\ toQemu \in Seq(Commands) /\ Len(bodies) = issued
      /\ rest \in Seq(Cmds) /\ bodies \in Seq(Cmds)
  BY SessionFacts
<1>3. Head(rest) \in Cmds
  <2>1. rest # <<>>
    BY <1>1 DEF SessionInv, Current
  <2>. HIDE DEF Cmds
  <2>. QED
    BY <1>2, <2>1
<1>4. issued + 1 \in Nat
  BY <1>2
<1>5. Outstanding' = toQemu
  <2>1. toQemu \in Seq(Nat)
    BY <1>2 DEF Commands
  <2>2. /\ Front(Append(toQemu, issued + 1)) = toQemu
        /\ Last(Append(toQemu, issued + 1)) = issued + 1 /\ Append(toQemu, issued + 1) # <<>>
    BY <1>4, <2>1, FrontOfAppend
  <2>. QED
    BY <1>1, <2>2 DEF Outstanding, IsUnderWay
<1>6. Past' = carried
  <2>1. carried # <<>> => Last(carried) # issued + 1
    <3>. SUFFICES ASSUME carried # <<>> PROVE Last(carried) # issued + 1
      OBVIOUS
    <3>1. Last(carried) \in 1 .. Len(bodies)
      BY <1>2, FrontLast
    <3>. QED
      BY <1>2, <3>1
  <2>. QED
    BY <1>1, <2>1 DEF Past, IsUnderWay
<1>7. Outstanding = toQemu /\ Past = carried
  BY <1>1, AbstractLists
<1>8. LateNow' = ContentsOf(Append(bodies, Head(rest)), toQemu)
      /\ SeenNow' = ContentsOf(Append(bodies, Head(rest)), carried)
  BY <1>1, <1>5, <1>6 DEF LateNow, SeenNow, Contents, ContentsOf
<1>9. LateNow = ContentsOf(bodies, toQemu) /\ SeenNow = ContentsOf(bodies, carried)
  BY <1>7 DEF LateNow, SeenNow, Contents, ContentsOf
<1>10. LateNow' = LateNow /\ SeenNow' = SeenNow
  <2>. HIDE DEF Cmds
  <2>. QED
    BY <1>2, <1>3, <1>8, <1>9, ContentsStay
<1>. QED
  BY <1>1, <1>10 DEF Input!inputVars, LateNow, SeenNow

\* QEMU carries out what was given up before, or the command under way.
LEMMA ServeIsInput == ASSUME SessionInv, Serve PROVE [Input!InputNext]_(Input!inputVars)
<1>. DEFINE h == Head(toQemu)
<1>1. /\ toQemu # <<>> /\ toQemu' = Tail(toQemu) /\ issued' = issued /\ waiting' = waiting
      /\ rest' = rest /\ fate' = fate /\ bodies' = bodies /\ requests' = requests
      /\ \/ carried' = Append(carried, h)
         \/ carried' = carried
  BY DEF Serve, QemuServes
<1>2. /\ h = Done + 1 /\ Len(toQemu) >= 1 /\ Len(toQemu) \in Nat /\ issued \in Nat /\ Done \in Nat
      /\ Done = issued - Len(toQemu)
  BY <1>1, ServedIsNext, SessionFacts DEF Done
<1>3. /\ toQemu \in Seq(1 .. Len(bodies)) /\ carried \in Seq(1 .. Len(bodies))
      /\ bodies \in Seq(Cmds) /\ Len(bodies) = issued
  BY SessionFacts
<1>4. /\ Len(toQemu') = Len(toQemu) - 1 /\ h \in 1 .. Len(bodies)
      /\ toQemu' \in Seq(1 .. Len(bodies))
  BY <1>1, <1>2, <1>3
<1>5. LateNow = ContentsOf(bodies, Outstanding) /\ SeenNow = ContentsOf(bodies, Past)
      /\ LateNow' = ContentsOf(bodies, Outstanding') /\ SeenNow' = ContentsOf(bodies, Past')
  BY <1>1 DEF LateNow, SeenNow, Contents, ContentsOf
<1>. HIDE DEF h, Cmds
<1>6. CASE waiting /\ Len(toQemu) < 2
  <2>1. h = issued /\ toQemu' = <<>>
    <3>1. Len(toQemu') = 0
      BY <1>2, <1>4, <1>6
    <3>2. toQemu' = <<>>
      BY <1>4, <3>1, EmptySeq
    <3>. QED
      BY <1>2, <1>6, <3>2
  <2>2. Outstanding \in Seq(1 .. Len(bodies)) /\ toQemu = Append(Outstanding, issued)
        /\ Past = carried
    BY <1>1, <1>6, AbstractLists
  <2>3. Outstanding = <<>>
    <3>1. Len(Outstanding) = 0
      BY <1>2, <1>6, <2>2
    <3>. QED
      BY <2>2, <3>1, EmptySeq
  <2>4. Outstanding' = <<>>
    BY <2>1 DEF Outstanding
  <2>5. Past' = carried
    <3>1. CASE carried' = Append(carried, h)
      <4>1. Front(carried') = carried /\ Last(carried') = h /\ carried' # <<>>
        <5>1. /\ Front(Append(carried, h)) = carried /\ Last(Append(carried, h)) = h
              /\ Append(carried, h) # <<>>
          BY <1>3, <1>4, FrontOfAppend
        <5>. QED
          BY <3>1, <5>1
      <4>. QED
        BY <1>1, <1>6, <2>1, <4>1 DEF Past, IsUnderWay
    <3>2. CASE carried' = carried
      BY <1>1, <2>2, <3>2 DEF Past, IsUnderWay
    <3>. QED
      BY <1>1, <3>1, <3>2
  <2>6. LateNow' = LateNow /\ SeenNow' = SeenNow
    BY <1>5, <2>2, <2>3, <2>4, <2>5
  <2>. QED
    BY <1>1, <2>6 DEF Input!inputVars, LateNow, SeenNow
<1>7. CASE ~(waiting /\ Len(toQemu) < 2)
  <2>1. Outstanding # <<>> /\ Head(Outstanding) = h /\ Outstanding' = Tail(Outstanding)
        /\ Outstanding \in Seq(1 .. Len(bodies))
    <3>1. CASE ~waiting
      <4>1. Outstanding = toQemu /\ Outstanding' = toQemu'
        BY <1>1, <3>1 DEF Outstanding, IsUnderWay
      <4>. QED
        BY <1>1, <1>3, <4>1 DEF h
    <3>2. CASE waiting /\ ~(Len(toQemu) < 2)
      <4>. DEFINE o == Outstanding
      <4>1. o \in Seq(1 .. Len(bodies)) /\ toQemu = Append(o, issued)
        BY <1>1, <3>2, AbstractLists
      <4>. HIDE DEF o
      <4>2. Len(o) = Len(toQemu) - 1 /\ Len(o) >= 1 /\ o # <<>>
        BY <1>2, <3>2, <4>1
      <4>3. Head(o) = h /\ toQemu' = Append(Tail(o), issued) /\ Tail(o) \in Seq(1 .. Len(bodies))
            /\ issued \in 1 .. Len(bodies)
        <5>1. Head(toQemu) = toQemu[1] /\ toQemu[1] = o[1] /\ Head(o) = o[1]
          BY <1>1, <1>3, <4>1, <4>2
        <5>2. Tail(o) \in Seq(1 .. Len(bodies)) /\ Len(Tail(o)) = Len(o) - 1
              /\ \A i \in 1 .. Len(o) - 1 : Tail(o)[i] = o[i + 1]
          BY <4>1, <4>2
        <5>3. issued \in 1 .. Len(bodies)
          BY <1>2, <1>3
        <5>4. toQemu' = Append(Tail(o), issued)
          BY <1>1, <4>1, <4>2, <5>3, TailOfAppend
        <5>. QED
          BY <5>1, <5>2, <5>3, <5>4 DEF h
      <4>4. Front(toQemu') = Tail(o) /\ Last(toQemu') = issued /\ toQemu' # <<>>
        <5>. DEFINE t == Tail(o)
        <5>1. t \in Seq(1 .. Len(bodies)) /\ issued \in 1 .. Len(bodies) /\ toQemu' = Append(t, issued)
          BY <4>3
        <5>. HIDE DEF t
        <5>2. /\ Front(Append(t, issued)) = t /\ Last(Append(t, issued)) = issued
              /\ Append(t, issued) # <<>>
          BY <5>1, FrontOfAppend
        <5>. QED
          BY <5>1, <5>2 DEF t
      <4>5. Outstanding' = Tail(o)
        BY <1>1, <3>2, <4>4 DEF Outstanding, IsUnderWay
      <4>. QED
        BY <4>1, <4>2, <4>3, <4>5 DEF o
    <3>. QED
      BY <1>7, <3>1, <3>2
  <2>2. LateNow # <<>> /\ Head(LateNow) = bodies[h] /\ LateNow' = Tail(LateNow)
    BY <1>3, <1>5, <2>1, ContentsTail
  <2>3. Past = carried
    BY <1>1, AbstractLists
  <2>4. Past' = carried'
    <3>1. ASSUME waiting PROVE h # issued
      <4>1. ~(Len(toQemu) < 2)
        BY <1>7, <3>1
      <4>. QED
        BY <1>2, <4>1
    <3>2. waiting /\ carried # <<>> => Last(carried) # issued
      <4>. SUFFICES ASSUME waiting, carried # <<>> PROVE Last(carried) # issued
        OBVIOUS
      <4>1. Last(carried) = carried[Len(carried)] /\ Len(carried) \in Nat /\ Len(carried) >= 1
        BY <1>3, FrontLast
      <4>2. Last(carried) \in 1 .. Done
        BY <4>1 DEF SessionInv, Carried, Numbered
      <4>. QED
        BY <1>2, <4>2
    <3>3. CASE carried' = Append(carried, h)
      <4>1. Last(carried') = h
        BY <1>3, <1>4, <3>3, FrontOfAppend
      <4>. QED
        BY <1>1, <3>1, <4>1 DEF Past, IsUnderWay
    <3>4. CASE carried' = carried
      BY <1>1, <3>2, <3>4 DEF Past, IsUnderWay
    <3>. QED
      BY <1>1, <3>3, <3>4
  <2>5. SeenNow' \in {SeenNow, Append(SeenNow, Head(LateNow))}
    <3>1. CASE carried' = Append(carried, h)
      BY <1>3, <1>4, <1>5, <2>2, <2>3, <2>4, <3>1, ContentsAppend, SMTT(30)
    <3>2. CASE carried' = carried
      BY <1>5, <2>3, <2>4, <3>2
    <3>. QED
      BY <1>1, <3>1, <3>2
  <2>6. Input!Late
    BY <1>1, <2>2, <2>5 DEF Input!Late, LateNow, SeenNow
  <2>. QED
    BY <2>6 DEF Input!InputNext
<1>. QED
  BY <1>6, <1>7

LEMMA SessionIsInput ==
  ASSUME SessionInv, [SessionNext]_sessionVars PROVE [Input!InputNext]_(Input!inputVars)
<1>1. ASSUME NEW op \in Operations, Request(op) PROVE Input!InputNext
  <2>1. UNCHANGED <<issued, waiting, toQemu, bodies, carried>>
    BY <1>1 DEF Request, vars
  <2>2. LateNow' = LateNow /\ SeenNow' = SeenNow
    BY <2>1 DEF LateNow, SeenNow, Outstanding, Past, IsUnderWay, Contents
  <2>3. Input!CommandsOf(op) = CommandsOf(op)
    <3>1. \A chord : Input!Press(chord) = Press(chord)
      BY Zenon DEF Press, Input!Press, Down, Input!Down, Up, Input!Up, Reverse, Input!Reverse
    <3>. QED
      BY <3>1, Zenon DEF CommandsOf, Input!CommandsOf, Down, Input!Down, Up, Input!Up, Button,
        Input!Button
  <2>4. Input!Ask(op)
    BY <1>1, <2>2, <2>3 DEF Request, Input!Ask, LateNow, SeenNow
  <2>5. \E o \in Operations : Input!Ask(o)
    BY <1>1, <2>4
  <2>. QED
    BY <2>5 DEF Input!InputNext
<1>2. CASE Send
  BY <1>2, SendIsInput
<1>3. CASE Serve
  BY <1>3, ServeIsInput
<1>4. CASE Read
  BY <1>4, ReadIsInput
<1>5. CASE Notify \/ UNCHANGED sessionVars \/ (Lose /\ ~waiting)
  <2>1. UNCHANGED <<issued, waiting, toQemu, bodies, carried, rest, fate, requests>>
    BY <1>5 DEF Notify, QemuNotifies, Lose, Break, SessionInv, QmpInv, TypeOK, sessionVars, vars
  <2>2. LateNow' = LateNow /\ SeenNow' = SeenNow
    BY <2>1 DEF LateNow, SeenNow, Outstanding, Past, IsUnderWay, Contents
  <2>. QED
    BY <2>1, <2>2 DEF Input!inputVars, LateNow, SeenNow
<1>6. CASE Expire \/ (Lose /\ waiting)
  <2>1. /\ waiting /\ ~waiting' /\ Fail /\ requests' = requests
        /\ UNCHANGED <<issued, toQemu, bodies, errors, carried>>
    BY <1>6 DEF Expire, AfterTimeout, TimeOut, Lose, Break
  <2>. QED
    BY <2>1, FailIsInput DEF Input!InputNext
<1>7. CASE SendFails
  <2>1. LateNow' = LateNow /\ SeenNow' = SeenNow
    BY <1>7 DEF SendFails, vars, LateNow, SeenNow, Outstanding, Past, IsUnderWay, Contents
  <2>2. Input!Refused
    BY <1>7, <2>1 DEF SendFails, Fail, Input!Refused, LateNow, SeenNow
  <2>. QED
    BY <2>2 DEF Input!InputNext
<1>. QED
  BY <1>1, <1>2, <1>3, <1>4, <1>5, <1>6, <1>7 DEF SessionNext

LEMMA SessionStartsAsInput == SessionInit => Input!InputInit
<1>. SUFFICES ASSUME SessionInit PROVE Input!InputInit
  OBVIOUS
<1>1. /\ requests = <<>> /\ rest = <<>> /\ fate = "ok" /\ toQemu = <<>> /\ carried = <<>>
      /\ ~waiting
  BY DEF SessionInit, Init
<1>2. Outstanding = <<>> /\ Past = <<>>
  BY <1>1 DEF Outstanding, Past, IsUnderWay
<1>3. Contents(<<>>) = <<>>
  BY DEF Contents
<1>. QED
  BY <1>1, <1>2, <1>3 DEF Input!InputInit

\* SessionImplementsInput for every bound and every set of operations: on a connection
\* that answers late, refuses, says other things in between or breaks, what Qmp.execute
\* makes of send_keys, type_text and the pointer is a run of QmpInput, so what InputIsWhole
\* says of QmpInput it says of the guest.
THEOREM SessionOfOperations == SessionSpec => SessionImplementsInput
<1>1. SessionInv /\ [SessionNext]_sessionVars => [Input!InputNext]_(Input!inputVars)
  BY SessionIsInput
<1>. QED
  BY <1>1, SessionStartsAsInput, SessionInitInv, SessionStep, PTL
  DEF SessionSpec, SessionImplementsInput, Input!InputSpec
=============================================================================
