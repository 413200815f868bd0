----------------------- MODULE GuestAgentClientProofs -----------------------
(***************************************************************************)
(* Proofs about GuestAgentClient: the guest-sync before every command is   *)
(* enough to tell, without ids in the replies, which reply is the answer,  *)
(* with an agent that is slow, that restarts, and whose late replies pile  *)
(* up in the stream.  And about GuestPrograms: the operations made of such *)
(* calls are whole when they return, whatever was abandoned before.        *)
(***************************************************************************)
EXTENDS GuestAgentClient, GuestPrograms, TLAPS

\* Nothing in the streams is newer than what was sent last.
Sent ==
  /\ pc = "call" => issued >= 1
  /\ pc = "sync" => syncs >= 1 /\ issued < MaxCalls
  /\ \A i \in 1 .. Len(toAgent) : -syncs <= toAgent[i] /\ toAgent[i] <= issued
  /\ \A i \in 1 .. Len(toClient) : -syncs <= toClient[i] /\ toClient[i] <= issued

\* While an echo is awaited nothing was sent after its request: the request is the
\* last message to the agent, or the echo is the last one of both streams.
SyncIsLast ==
  pc = "sync" =>
    /\ \A i \in 1 .. Len(toAgent) : IsEcho(toAgent[i]) => i = Len(toAgent)
    /\ \A i \in 1 .. Len(toClient) :
          IsEcho(toClient[i]) => i = Len(toClient) /\ toAgent = <<>>

\* Commands reach the agent, and are carried out, in the order they were sent.
InOrder ==
  /\ \A i, j \in 1 .. Len(toAgent) :
        i < j /\ toAgent[i] > 0 /\ toAgent[j] > 0 => toAgent[i] < toAgent[j]
  /\ \A c \in performed : c <= issued
  /\ \A c \in performed : \A i \in 1 .. Len(toAgent) : toAgent[i] > 0 => c < toAgent[i]

\* Replies and answers are those of commands that were carried out.
Genuine ==
  /\ \A i \in 1 .. Len(toClient) : toClient[i] > 0 => toClient[i] \in performed
  /\ \A c \in Commands : answer[c] # 0 => answer[c] = c /\ c \in performed

AgentInv ==
  /\ TypeOK
  /\ Sent
  /\ SyncIsLast
  /\ SyncFlushes
  /\ InOrder
  /\ Genuine

\* Messages and commands are integers.
LEMMA MessageFacts ==
  /\ Messages \subseteq Int
  /\ \A m \in Messages : m # 0 /\ -MaxSyncs <= m /\ m <= MaxCalls
  /\ \A m \in Messages : m > 0 => m \in Commands
  /\ Commands \subseteq Nat \ {0} /\ Commands \subseteq Messages
  BY AgentBoundsAssumption DEF Messages, Commands

\* The elements of a stream are messages.
LEMMA ElementFacts ==
  ASSUME NEW s \in Seq(Messages)
  PROVE  Len(s) \in Nat /\ \A i \in 1 .. Len(s) : s[i] \in Messages
  OBVIOUS

\* The head and the rest of a stream.
LEMMA StreamFacts ==
  ASSUME NEW s \in Seq(Messages), s # <<>>
  PROVE  /\ Len(s) \in Nat /\ Len(s) >= 1
         /\ Head(s) = s[1] /\ Head(s) \in Messages
         /\ Tail(s) \in Seq(Messages) /\ Len(Tail(s)) = Len(s) - 1
         /\ \A i \in 1 .. Len(s) - 1 : Tail(s)[i] = s[i + 1]
  OBVIOUS

\* The elements of a stream that a message was appended to.
LEMMA AppendFacts ==
  ASSUME NEW s \in Seq(Messages), NEW m \in Messages
  PROVE  /\ Append(s, m) \in Seq(Messages) /\ Len(Append(s, m)) = Len(s) + 1
         /\ \A i \in 1 .. Len(s) : Append(s, m)[i] = s[i]
         /\ Append(s, m)[Len(s) + 1] = m
  OBVIOUS

LEMMA AgentInitInv == Init => AgentInv
<1>. SUFFICES ASSUME Init PROVE AgentInv
  OBVIOUS
<1>1. TypeOK
  <2>1. answer \in [Commands -> Messages \cup {0}]
    BY DEF Init
  <2>2. toAgent \in Seq(Messages) /\ toClient \in Seq(Messages)
    BY DEF Init
  <2>3. syncs \in 0 .. MaxSyncs /\ issued \in 0 .. MaxCalls
    BY AgentBoundsAssumption DEF Init
  <2>. QED
    BY <2>1, <2>2, <2>3, Zenon DEF Init, TypeOK
<1>2. Sent /\ SyncIsLast /\ SyncFlushes /\ InOrder /\ Genuine
  BY DEF Init, Sent, SyncIsLast, SyncFlushes, InOrder, Genuine
<1>. QED
  BY <1>1, <1>2 DEF AgentInv

\* The agent takes the oldest request, and carries it out, replies to it, or both:
\* the invariant holds after either step of the agent.
LEMMA AgentKeeps ==
  ASSUME AgentInv, AgentServes \/ AgentRestarts
  PROVE  AgentInv'
<1>. DEFINE m == Head(toAgent)
<1>1. /\ toAgent \in Seq(Messages) /\ toAgent # <<>> /\ toClient \in Seq(Messages)
      /\ performed \subseteq Commands /\ syncs \in Nat /\ issued \in Nat
  BY AgentBoundsAssumption DEF AgentInv, TypeOK, AgentServes, AgentRestarts
<1>2. /\ toAgent' = Tail(toAgent)
      /\ UNCHANGED <<pc, syncs, issued, broken, answer>>
      /\ performed' \in {performed, PerformedWith(m)}
  BY DEF AgentServes, AgentRestarts
<1>3. \/ toClient' = toClient
      \/ toClient' = Append(toClient, m) /\ performed' = PerformedWith(m)
  BY DEF AgentServes, AgentRestarts
<1>4. /\ Len(toAgent) \in Nat /\ Len(toAgent) >= 1
      /\ m = toAgent[1] /\ m \in Messages
      /\ Tail(toAgent) \in Seq(Messages) /\ Len(Tail(toAgent)) = Len(toAgent) - 1
      /\ \A i \in 1 .. Len(toAgent) - 1 : Tail(toAgent)[i] = toAgent[i + 1]
  BY <1>1, StreamFacts
<1>5. /\ Append(toClient, m) \in Seq(Messages)
      /\ Len(Append(toClient, m)) = Len(toClient) + 1
      /\ \A i \in 1 .. Len(toClient) : Append(toClient, m)[i] = toClient[i]
      /\ Append(toClient, m)[Len(toClient) + 1] = m
  BY <1>1, <1>4, AppendFacts
<1>6. m \in Int /\ m # 0 /\ (m > 0 => m \in Commands)
  BY <1>4, MessageFacts
<1>7. \A c \in performed' : c \in performed \/ (c = m /\ m > 0)
  BY <1>2 DEF PerformedWith
<1>8. performed \subseteq performed'
  BY <1>2 DEF PerformedWith
<1>9. Len(toClient) \in Nat /\ \A i \in 1 .. Len(toAgent) : toAgent[i] \in Int
  BY <1>1, ElementFacts, MessageFacts
<1>10. TypeOK'
  <2>1. performed' \subseteq Commands
    BY <1>1, <1>6, <1>7
  <2>2. toAgent' \in Seq(Messages) /\ toClient' \in Seq(Messages)
    BY <1>1, <1>2, <1>3, <1>4, <1>5
  <2>. QED
    BY <1>2, <2>1, <2>2, Zenon DEF AgentInv, TypeOK
<1>11. Sent'
  <2>1. -syncs <= m /\ m <= issued
    BY <1>4 DEF AgentInv, Sent
  <2>2. \A i \in 1 .. Len(toAgent') : -syncs <= toAgent'[i] /\ toAgent'[i] <= issued
    BY <1>2, <1>4 DEF AgentInv, Sent
  <2>3. \A i \in 1 .. Len(toClient') : -syncs <= toClient'[i] /\ toClient'[i] <= issued
    BY <1>3, <1>5, <1>9, <2>1 DEF AgentInv, Sent
  <2>. QED
    BY <1>2, <2>2, <2>3 DEF AgentInv, Sent
<1>12. SyncIsLast'
  <2>. SUFFICES ASSUME pc = "sync"
                PROVE  /\ \A i \in 1 .. Len(toAgent') : toAgent'[i] = -syncs => i = Len(toAgent')
                       /\ \A i \in 1 .. Len(toClient') : toClient'[i] = -syncs =>
                             i = Len(toClient') /\ toAgent' = <<>>
    BY <1>2 DEF SyncIsLast, IsEcho
  <2>1. /\ \A i \in 1 .. Len(toAgent) : toAgent[i] = -syncs => i = Len(toAgent)
        /\ \A i \in 1 .. Len(toClient) : toClient[i] # -syncs
    BY <1>1 DEF AgentInv, SyncIsLast, IsEcho
  <2>2. /\ Len(toAgent) \in Nat /\ Len(toAgent) >= 1 /\ Len(toAgent') = Len(toAgent) - 1
        /\ \A i \in 1 .. Len(toAgent') : toAgent'[i] = toAgent[i + 1]
    BY <1>2, <1>4
  <2>3. \A i \in 1 .. Len(toAgent') : toAgent'[i] = -syncs => i = Len(toAgent')
    <3>. SUFFICES ASSUME NEW i \in 1 .. Len(toAgent'), toAgent'[i] = -syncs
                  PROVE  i = Len(toAgent')
      OBVIOUS
    <3>1. i + 1 \in 1 .. Len(toAgent) /\ toAgent[i + 1] = -syncs
      BY <2>2
    <3>2. i + 1 = Len(toAgent)
      BY <2>1, <3>1
    <3>. QED
      BY <2>2, <3>2
  <2>4. m = -syncs => Len(toAgent') = 0
    <3>1. 1 \in 1 .. Len(toAgent) /\ m = toAgent[1]
      BY <1>4
    <3>2. ASSUME m = -syncs PROVE Len(toAgent') = 0
      <4>1. Len(toAgent) = 1
        BY <2>1, <3>1, <3>2
      <4>. QED
        BY <2>2, <4>1
    <3>. QED
      BY <3>2
  <2>5. m = -syncs => toAgent' = <<>>
    BY <1>2, <1>4, <2>4
  <2>6. \A i \in 1 .. Len(toClient') : toClient'[i] = -syncs =>
           i = Len(toClient') /\ m = -syncs
    BY <1>3, <1>5, <1>9, <2>1
  <2>. QED
    BY <2>3, <2>5, <2>6
<1>13. SyncFlushes'
  <2>. SUFFICES ASSUME pc = "call"
                PROVE  /\ \A i \in 1 .. Len(toAgent') : toAgent'[i] = issued
                       /\ \A i \in 1 .. Len(toClient') : toClient'[i] = issued
    BY <1>2 DEF SyncFlushes
  <2>1. /\ \A i \in 1 .. Len(toAgent) : toAgent[i] = issued
        /\ \A i \in 1 .. Len(toClient) : toClient[i] = issued
    BY DEF AgentInv, SyncFlushes
  <2>2. \A i \in 1 .. Len(toAgent') : toAgent'[i] = issued
    BY <1>2, <1>4, <2>1
  <2>3. \A i \in 1 .. Len(toClient') : toClient'[i] = issued
    BY <1>3, <1>4, <1>5, <1>9, <2>1
  <2>. QED
    BY <2>2, <2>3
<1>14. InOrder'
  <2>1. /\ \A i, j \in 1 .. Len(toAgent) :
              i < j /\ toAgent[i] > 0 /\ toAgent[j] > 0 => toAgent[i] < toAgent[j]
        /\ \A c \in performed : c <= issued
        /\ \A c \in performed : \A i \in 1 .. Len(toAgent) :
              toAgent[i] > 0 => c < toAgent[i]
        /\ \A i \in 1 .. Len(toAgent) : toAgent[i] <= issued
    BY DEF AgentInv, InOrder, Sent
  <2>2. \A i, j \in 1 .. Len(toAgent') :
              i < j /\ toAgent'[i] > 0 /\ toAgent'[j] > 0 => toAgent'[i] < toAgent'[j]
    BY <1>2, <1>4, <2>1
  <2>3. \A c \in performed' : c <= issued
    BY <1>4, <1>7, <2>1
  <2>4. ASSUME NEW c \in performed', NEW i \in 1 .. Len(toAgent'), toAgent'[i] > 0
        PROVE  c < toAgent'[i]
    BY <1>2, <1>4, <1>7, <2>1, <2>4
  <2>. QED
    BY <1>2, <2>2, <2>3, <2>4 DEF InOrder
<1>15. Genuine'
  <2>1. \A i \in 1 .. Len(toClient') : toClient'[i] > 0 => toClient'[i] \in performed'
    <3>1. \A i \in 1 .. Len(toClient) : toClient[i] > 0 => toClient[i] \in performed'
      BY <1>8 DEF AgentInv, Genuine
    <3>2. CASE toClient' = toClient
      BY <3>1, <3>2
    <3>3. CASE toClient' = Append(toClient, m) /\ performed' = PerformedWith(m)
      <4>1. m > 0 => m \in performed'
        BY <3>3 DEF PerformedWith
      <4>. QED
        BY <1>5, <1>9, <3>1, <3>3, <4>1
    <3>. QED
      BY <1>3, <3>2, <3>3
  <2>2. \A c \in Commands : answer'[c] # 0 => answer'[c] = c /\ c \in performed'
    BY <1>2, <1>8 DEF AgentInv, Genuine
  <2>. QED
    BY <2>1, <2>2 DEF Genuine
<1>. QED
  BY <1>10, <1>11, <1>12, <1>13, <1>14, <1>15 DEF AgentInv

\* A fresh guest-sync.
LEMMA SyncKeeps == ASSUME AgentInv, Sync PROVE AgentInv'
<1>. DEFINE m == -(syncs + 1)
<1>1. /\ pc = "idle" /\ pc' = "sync" /\ syncs' = syncs + 1
      /\ toAgent' = Append(toAgent, m)
      /\ UNCHANGED <<issued, broken, toClient, performed, answer>>
      /\ syncs < MaxSyncs /\ issued < MaxCalls
  BY DEF Sync
<1>2. /\ syncs \in Nat /\ issued \in Nat /\ syncs + 1 \in 0 .. MaxSyncs /\ m \in Messages
      /\ toAgent \in Seq(Messages) /\ toClient \in Seq(Messages)
  BY <1>1, AgentBoundsAssumption DEF AgentInv, TypeOK, Messages
<1>3. /\ toAgent' \in Seq(Messages) /\ Len(toAgent') = Len(toAgent) + 1
      /\ \A i \in 1 .. Len(toAgent) : toAgent'[i] = toAgent[i]
      /\ toAgent'[Len(toAgent) + 1] = m
  BY <1>1, <1>2, AppendFacts
<1>4. /\ Len(toAgent) \in Nat /\ Len(toClient) \in Nat
      /\ \A i \in 1 .. Len(toAgent) : toAgent[i] \in Int
      /\ \A i \in 1 .. Len(toClient) : toClient[i] \in Int
  BY <1>2, ElementFacts, MessageFacts
<1>5. /\ m \in Int /\ m = -(syncs') /\ m < -syncs /\ m <= issued /\ ~(m > 0)
  BY <1>1, <1>2
<1>6. TypeOK'
  <2>1. ~broken
    BY DEF Sync
  <2>2. syncs' \in 0 .. MaxSyncs
    BY <1>1, <1>2
  <2>3. toAgent' \in Seq(Messages)
    BY <1>3
  <2>. QED
    BY <1>1, <2>1, <2>2, <2>3, Zenon DEF AgentInv, TypeOK
<1>7. /\ \A i \in 1 .. Len(toAgent) : -syncs <= toAgent[i] /\ toAgent[i] <= issued
      /\ \A i \in 1 .. Len(toClient) : -syncs <= toClient[i] /\ toClient[i] <= issued
  BY DEF AgentInv, Sent
<1>8. syncs \in Int /\ issued \in Int
  BY <1>2
<1>9. /\ \A i \in 1 .. Len(toAgent) : m < toAgent[i] /\ toAgent[i] <= issued
      /\ \A i \in 1 .. Len(toClient) : m < toClient[i] /\ toClient[i] <= issued
  BY <1>4, <1>5, <1>7, <1>8
<1>10. Sent'
  <2>1. \A i \in 1 .. Len(toAgent') : m <= toAgent'[i] /\ toAgent'[i] <= issued
    BY <1>3, <1>4, <1>5, <1>8, <1>9
  <2>2. \A i \in 1 .. Len(toClient) : m <= toClient[i] /\ toClient[i] <= issued
    BY <1>4, <1>5, <1>9
  <2>3. syncs' >= 1 /\ issued < MaxCalls
    BY <1>1, <1>2
  <2>. QED
    BY <1>1, <1>5, <2>1, <2>2, <2>3 DEF Sent
<1>11. SyncIsLast'
  <2>1. \A i \in 1 .. Len(toAgent') : toAgent'[i] = m => i = Len(toAgent')
    BY <1>3, <1>4, <1>5, <1>9, SMTT(30)
  <2>2. \A i \in 1 .. Len(toClient') : toClient'[i] # m
    BY <1>1, <1>4, <1>5, <1>9
  <2>. QED
    BY <1>5, <2>1, <2>2 DEF SyncIsLast, IsEcho
<1>12. SyncFlushes'
  BY <1>1 DEF SyncFlushes
<1>13. InOrder'
  <2>1. \A i, j \in 1 .. Len(toAgent') :
           i < j /\ toAgent'[i] > 0 /\ toAgent'[j] > 0 => toAgent'[i] < toAgent'[j]
    <3>. SUFFICES ASSUME NEW i \in 1 .. Len(toAgent'), NEW j \in 1 .. Len(toAgent'),
                         i < j, toAgent'[i] > 0, toAgent'[j] > 0
                  PROVE  toAgent'[i] < toAgent'[j]
      OBVIOUS
    <3>1. i \in 1 .. Len(toAgent) /\ j \in 1 .. Len(toAgent)
      BY <1>3, <1>4, <1>5, <1>8
    <3>. QED
      BY <1>3, <3>1 DEF AgentInv, InOrder
  <2>2. \A c \in performed : \A i \in 1 .. Len(toAgent') : toAgent'[i] > 0 => c < toAgent'[i]
    BY <1>3, <1>4, <1>5 DEF AgentInv, InOrder
  <2>. QED
    BY <1>1, <2>1, <2>2 DEF AgentInv, InOrder
<1>14. Genuine'
  BY <1>1 DEF AgentInv, Genuine
<1>. QED
  BY <1>6, <1>10, <1>11, <1>12, <1>13, <1>14 DEF AgentInv

\* What was sent earlier is thrown away.
LEMMA DiscardKeeps == ASSUME AgentInv, DiscardStale PROVE AgentInv'
<1>1. /\ pc = "sync" /\ toClient' = Tail(toClient) /\ toClient # <<>>
      /\ UNCHANGED <<pc, syncs, issued, broken, toAgent, performed, answer>>
  BY DEF DiscardStale
<1>2. toClient \in Seq(Messages)
  BY DEF AgentInv, TypeOK
<1>3. /\ toClient' \in Seq(Messages) /\ Len(toClient) \in Nat /\ Len(toClient) >= 1
      /\ Len(toClient') = Len(toClient) - 1
      /\ \A i \in 1 .. Len(toClient') : toClient'[i] = toClient[i + 1]
  BY <1>1, <1>2, StreamFacts
<1>4. TypeOK'
  BY <1>1, <1>3, Zenon DEF AgentInv, TypeOK
<1>5. Sent' /\ SyncFlushes' /\ InOrder' /\ Genuine'
  <2>1. Sent'
    BY <1>1, <1>3 DEF AgentInv, Sent
  <2>2. SyncFlushes' /\ InOrder'
    BY <1>1 DEF AgentInv, SyncFlushes, InOrder
  <2>3. Genuine'
    BY <1>1, <1>3 DEF AgentInv, Genuine
  <2>. QED
    BY <2>1, <2>2, <2>3
<1>6. SyncIsLast'
  <2>1. \A i \in 1 .. Len(toClient') : IsEcho(toClient'[i]) => i = Len(toClient') /\ toAgent = <<>>
    <3>. SUFFICES ASSUME NEW i \in 1 .. Len(toClient'), IsEcho(toClient'[i])
                  PROVE  i = Len(toClient') /\ toAgent = <<>>
      OBVIOUS
    <3>1. i + 1 \in 1 .. Len(toClient) /\ IsEcho(toClient[i + 1])
      BY <1>3
    <3>2. i + 1 = Len(toClient) /\ toAgent = <<>>
      BY <1>1, <3>1 DEF AgentInv, SyncIsLast
    <3>. QED
      BY <1>3, <3>2
  <2>. QED
    BY <1>1, <2>1 DEF AgentInv, SyncIsLast, IsEcho
<1>. QED
  BY <1>4, <1>5, <1>6 DEF AgentInv

\* The echo has come, so both streams are empty when the command is sent.
LEMMA SendKeeps == ASSUME AgentInv, SendCommand PROVE AgentInv'
<1>1. /\ pc = "sync" /\ pc' = "call" /\ toClient # <<>> /\ IsEcho(Head(toClient))
      /\ toClient' = Tail(toClient) /\ issued' = issued + 1
      /\ toAgent' = Append(toAgent, issued + 1)
      /\ UNCHANGED <<syncs, broken, performed, answer>>
  BY DEF SendCommand
<1>2. /\ toClient \in Seq(Messages) /\ syncs \in Nat /\ issued \in Nat
      /\ issued < MaxCalls /\ performed \subseteq Commands
  BY <1>1, AgentBoundsAssumption DEF AgentInv, TypeOK, Sent
<1>3. /\ Len(toClient) \in Nat /\ Len(toClient) >= 1 /\ Head(toClient) = toClient[1]
      /\ toClient' \in Seq(Messages) /\ Len(toClient') = Len(toClient) - 1
  BY <1>1, <1>2, StreamFacts
<1>4. 1 = Len(toClient) /\ toAgent = <<>>
  <2>1. 1 \in 1 .. Len(toClient) /\ IsEcho(toClient[1])
    BY <1>1, <1>3
  <2>. QED
    BY <1>1, <2>1 DEF AgentInv, SyncIsLast
<1>5. Len(toClient') = 0
  <2>1. Len(toClient) = 1
    BY <1>4
  <2>. QED
    BY <1>3, <2>1
<1>6. toAgent' = <<issued + 1>>
  BY <1>1, <1>4
<1>7. issued + 1 \in Commands /\ issued + 1 \in Messages /\ issued + 1 \in 0 .. MaxCalls
  BY <1>2, AgentBoundsAssumption DEF Commands, Messages
<1>8. Len(toAgent') = 1 /\ toAgent'[1] = issued' /\ toAgent' \in Seq(Messages)
  <2>1. issued + 1 \in Messages /\ issued' = issued + 1
    BY <1>1, <1>7
  <2>. QED
    BY <1>6, <2>1
<1>9. TypeOK'
  <2>1. ~broken
    BY <1>1, Zenon DEF AgentInv, TypeOK
  <2>2. issued' \in 0 .. MaxCalls
    BY <1>1, <1>7
  <2>. QED
    BY <1>1, <1>3, <1>8, <2>1, <2>2, Zenon DEF AgentInv, TypeOK
<1>10. Sent' /\ SyncIsLast' /\ SyncFlushes'
  BY <1>1, <1>2, <1>5, <1>8 DEF AgentInv, Sent, SyncIsLast, SyncFlushes
<1>11. InOrder'
  <2>1. \A c \in performed : c <= issued /\ c \in Nat
    BY <1>2, MessageFacts DEF AgentInv, InOrder
  <2>. QED
    BY <1>1, <1>2, <1>8, <2>1 DEF InOrder
<1>12. Genuine'
  BY <1>1, <1>5 DEF AgentInv, Genuine
<1>. QED
  BY <1>9, <1>10, <1>11, <1>12 DEF AgentInv

\* In a call the next message is the reply to the command of this call.
LEMMA NextMessage ==
  ASSUME AgentInv, pc = "call", toClient # <<>>
  PROVE  Head(toClient) = issued /\ issued \in performed /\ issued \in Commands
<1>1. toClient \in Seq(Messages) /\ issued \in 0 .. MaxCalls /\ issued >= 1
  BY DEF AgentInv, TypeOK, Sent
<1>2. Head(toClient) = toClient[1] /\ 1 \in 1 .. Len(toClient)
  BY <1>1, StreamFacts
<1>3. toClient[1] = issued
  BY <1>2 DEF AgentInv, SyncFlushes
<1>4. toClient[1] > 0
  BY <1>1, <1>3, AgentBoundsAssumption
<1>5. issued \in performed
  BY <1>2, <1>3, <1>4 DEF AgentInv, Genuine
<1>. QED
  BY <1>1, <1>2, <1>3, <1>5, AgentBoundsAssumption DEF Commands

LEMMA TakeKeeps == ASSUME AgentInv, TakeReply PROVE AgentInv'
<1>1. /\ pc = "call" /\ pc' = "idle" /\ toClient' = Tail(toClient) /\ toClient # <<>>
      /\ UNCHANGED <<syncs, issued, broken, toAgent, performed>>
  BY DEF TakeReply
<1>2. Head(toClient) = issued /\ issued \in performed /\ issued \in Commands
  BY <1>1, NextMessage
<1>3. answer' = [answer EXCEPT ![issued] = issued]
  BY <1>2 DEF TakeReply
<1>4. toClient \in Seq(Messages) /\ answer \in [Commands -> Messages \cup {0}]
  BY DEF AgentInv, TypeOK
<1>5. /\ toClient' \in Seq(Messages) /\ Len(toClient) \in Nat /\ Len(toClient) >= 1
      /\ Len(toClient') = Len(toClient) - 1
      /\ \A i \in 1 .. Len(toClient') : toClient'[i] = toClient[i + 1]
  BY <1>1, <1>4, StreamFacts
<1>6. answer' \in [Commands -> Messages \cup {0}]
  BY <1>2, <1>3, <1>4, MessageFacts
<1>7. TypeOK'
  BY <1>1, <1>5, <1>6, Zenon DEF AgentInv, TypeOK
<1>8. Sent' /\ SyncIsLast' /\ SyncFlushes' /\ InOrder'
  BY <1>1, <1>5 DEF AgentInv, Sent, SyncIsLast, SyncFlushes, InOrder
<1>9. Genuine'
  <2>1. \A c \in Commands : answer'[c] # 0 => answer'[c] = c /\ c \in performed
    BY <1>2, <1>3, <1>4 DEF AgentInv, Genuine
  <2>2. \A i \in 1 .. Len(toClient') : toClient'[i] > 0 => toClient'[i] \in performed
    BY <1>5 DEF AgentInv, Genuine
  <2>. QED
    BY <1>1, <2>1, <2>2 DEF Genuine
<1>. QED
  BY <1>7, <1>8, <1>9 DEF AgentInv

\* Giving up leaves both streams as they are.
LEMMA GiveUpKeeps == ASSUME AgentInv, TimeOut \/ Break \/ UNCHANGED vars PROVE AgentInv'
<1>1. /\ UNCHANGED <<syncs, issued, toAgent, toClient, performed, answer>>
      /\ pc' \in {"idle", pc}
  BY DEF TimeOut, Break, vars
<1>2. broken' \in BOOLEAN /\ (broken' => pc' = "idle")
  <2>1. CASE TimeOut
    BY <2>1, Zenon DEF TimeOut, AgentInv, TypeOK
  <2>2. CASE Break
    BY <2>2, Zenon DEF Break
  <2>3. CASE UNCHANGED vars
    BY <2>3, Zenon DEF vars, AgentInv, TypeOK
  <2>. QED
    BY <2>1, <2>2, <2>3
<1>3. TypeOK'
  BY <1>1, <1>2, Zenon DEF AgentInv, TypeOK
<1>4. Sent' /\ SyncIsLast' /\ SyncFlushes' /\ InOrder' /\ Genuine'
  BY <1>1 DEF AgentInv, Sent, SyncIsLast, SyncFlushes, InOrder, Genuine, IsEcho
<1>. QED
  BY <1>3, <1>4 DEF AgentInv

LEMMA AgentInvStep == AgentInv /\ [Next]_vars => AgentInv'
  BY AgentKeeps, SyncKeeps, DiscardKeeps, SendKeeps, TakeKeeps, GiveUpKeeps DEF Next

-----------------------------------------------------------------------------
(* The refinement of RemoteCalls.                                          *)

LEMMA InitCalls == Init => Abstract!CallsInit
  BY DEF Init, Abstract!CallsInit, Abstract!Calls, Commands

\* The agent carries a command out: every command before it is over by then.
LEMMA PerformCalls ==
  ASSUME AgentInv, toAgent # <<>>,
         performed' = PerformedWith(Head(toAgent)),
         UNCHANGED <<pc, issued, answer>>
  PROVE  [Abstract!CallsNext]_(Abstract!callVars)
<1>. DEFINE c == Head(toAgent)
<1>1. c = toAgent[1] /\ 1 \in 1 .. Len(toAgent) /\ c \in Messages
  BY StreamFacts DEF AgentInv, TypeOK
<1>2. CASE c > 0
  <2>1. c \in Commands
    BY <1>1, <1>2, MessageFacts
  <2>2. c <= issued /\ \A d \in performed : d < c
    BY <1>1, <1>2 DEF AgentInv, Sent, InOrder
  <2>3. \A d \in Commands : d >= c => answer[d] = 0
    <3>. SUFFICES ASSUME NEW d \in Commands, d >= c, answer[d] # 0 PROVE FALSE
      OBVIOUS
    <3>1. d < c
      BY <2>2 DEF AgentInv, Genuine
    <3>2. c \in Int /\ d \in Int
      BY <2>1, MessageFacts
    <3>. QED
      BY <3>1, <3>2
  <2>4. Abstract!Perform(c)
    BY <1>2, <2>2, <2>3
    DEF Abstract!Perform, Abstract!Calls, Commands, PerformedWith
  <2>. QED
    BY <2>1, <2>4 DEF Abstract!CallsNext, Abstract!Calls, Commands
<1>3. CASE ~(c > 0)
  BY <1>3 DEF PerformedWith, Abstract!callVars
<1>. QED
  BY <1>2, <1>3

\* Every step is a step of RemoteCalls, or leaves the abstract state alone.
LEMMA StepCalls ==
  ASSUME AgentInv, [Next]_vars PROVE [Abstract!CallsNext]_(Abstract!callVars)
<1>1. CASE AgentServes
  BY <1>1, PerformCalls DEF AgentServes
<1>2. CASE AgentRestarts
  <2>1. CASE performed' = performed
    BY <1>2, <2>1 DEF AgentRestarts, Abstract!callVars
  <2>2. CASE performed' = PerformedWith(Head(toAgent))
    BY <1>2, <2>2, PerformCalls DEF AgentRestarts
  <2>. QED
    BY <1>2, <2>1, <2>2 DEF AgentRestarts
<1>3. CASE Sync \/ DiscardStale \/ UNCHANGED vars
  BY <1>3 DEF Sync, DiscardStale, vars, Abstract!callVars
<1>4. CASE SendCommand
  BY <1>4 DEF SendCommand, AgentInv, Sent, Abstract!CallsNext, Abstract!Issue
<1>5. CASE TakeReply
  <2>1. pc = "call" /\ Head(toClient) = issued /\ issued \in performed
    BY <1>5, NextMessage DEF TakeReply
  <2>. QED
    BY <1>5, <2>1 DEF TakeReply, Abstract!CallsNext, Abstract!Return
<1>6. CASE TimeOut \/ Break
  BY <1>6 DEF TimeOut, Break, Abstract!CallsNext, Abstract!GiveUp, Abstract!callVars
<1>. QED
  BY <1>1, <1>2, <1>3, <1>4, <1>5, <1>6 DEF Next

-----------------------------------------------------------------------------
(* The theorems.                                                           *)

\* While a command is under way nothing older is in either stream.
THEOREM AgentSyncFlushes == Spec => []SyncFlushes
<1>1. AgentInv => SyncFlushes
  BY DEF AgentInv
<1>. QED
  BY <1>1, AgentInitInv, AgentInvStep, PTL DEF Spec

\* GuestAgent.call is a RemoteCalls client: each answer is the call's own.
THEOREM AgentImplementsCalls == Spec => ImplementsCalls
<1>1. AgentInv /\ [Next]_vars => [Abstract!CallsNext]_(Abstract!callVars)
  BY StepCalls
<1>. QED
  BY <1>1, InitCalls, AgentInitInv, AgentInvStep, PTL
  DEF Spec, ImplementsCalls, Abstract!CallsSpec

-----------------------------------------------------------------------------
(* The operations of the guest: their tasks, counted from the last one.    *)

TaskKinds == {"ping", "exec", "poll", "open", "write", "close"}
Names == {"lookup", "program", "mkdir", "chown"}

\* The task that has d tasks behind it.
TaskAt(k, d) ==
  IF k = "ready" THEN <<"ping", "none">>
  ELSE IF k = "start" THEN
    IF d = 0 THEN <<"exec", "program">>
    ELSE IF d = 1 THEN <<"poll", "lookup">> ELSE <<"exec", "lookup">>
  ELSE IF k = "run" THEN
    IF d = 0 THEN <<"poll", "program">> ELSE IF d = 1 THEN <<"exec", "program">>
    ELSE IF d = 2 THEN <<"poll", "lookup">> ELSE <<"exec", "lookup">>
  ELSE IF k = "query" THEN
    IF d = 0 THEN <<"poll", "program">> ELSE <<"exec", "program">>
  ELSE
    IF d = 0 THEN <<"poll", "chown">> ELSE IF d = 1 THEN <<"exec", "chown">>
    ELSE IF d = 2 THEN <<"close", "none">> ELSE IF d < Chunks + 3 THEN <<"write", "none">>
    ELSE IF d = Chunks + 3 THEN <<"open", "none">>
    ELSE IF d = Chunks + 4 THEN <<"poll", "mkdir">>
    ELSE IF d = Chunks + 5 THEN <<"exec", "mkdir">>
    ELSE IF d = Chunks + 6 THEN <<"poll", "lookup">> ELSE <<"exec", "lookup">>

\* How many tasks the first one has behind it, at most.
Longest(k) ==
  IF k = "ready" THEN 0 ELSE IF k = "start" THEN 2 ELSE IF k = "run" THEN 3
  ELSE IF k = "query" THEN 1 ELSE Chunks + 7

Waiting == {"run", "query", "write"}

LEMMA LongestType ==
  ASSUME NEW k \in Operations PROVE Longest(k) \in Nat
BY GuestAssumption DEF Operations, Longest

\* A program is started by one task of an operation only.
LEMMA ExecOnce ==
  ASSUME NEW k \in Operations, NEW c \in 0 .. Longest(k), NEW d \in 0 .. Longest(k),
         TaskAt(k, c)[1] = "exec", TaskAt(k, d) = TaskAt(k, c)
  PROVE  c = d
<1> USE GuestAssumption
<1>1. CASE k = "write"
  BY <1>1 DEF TaskAt, Longest
<1>2. CASE k \in {"ready", "query"}
  BY <1>2 DEF TaskAt, Longest
<1>3. CASE k \in {"start", "run"}
  BY <1>3 DEF TaskAt, Longest
<1>4. QED
  BY <1>1, <1>2, <1>3 DEF Operations

\* An operation that waits polls the program it has just started.
LEMMA PollAfterExec ==
  ASSUME NEW k \in Waiting, NEW d \in 0 .. Longest(k), TaskAt(k, d)[1] = "exec"
  PROVE  d >= 1 /\ TaskAt(k, d - 1) = <<"poll", TaskAt(k, d)[2]>>
<1> USE GuestAssumption
<1>1. CASE k = "write"
  BY <1>1 DEF TaskAt, Longest
<1>2. CASE k \in {"run", "query"}
  BY <1>2 DEF TaskAt, Longest
<1>3. QED
  BY <1>1, <1>2 DEF Waiting

\* A poll comes after the start of its program.
LEMMA ExecBeforePoll ==
  ASSUME NEW k \in Operations, NEW d \in 0 .. Longest(k), d >= 1, TaskAt(k, d - 1)[1] = "poll"
  PROVE  TaskAt(k, d) = <<"exec", TaskAt(k, d - 1)[2]>>
<1> USE GuestAssumption
<1>1. CASE k = "write"
  BY <1>1 DEF TaskAt, Longest
<1>2. CASE k \in {"ready", "query", "start", "run"}
  BY <1>2 DEF TaskAt, Longest
<1>3. QED
  BY <1>1, <1>2 DEF Operations

LEMMA TaskAtType ==
  ASSUME NEW k \in Operations, NEW d \in Nat
  PROVE  /\ TaskAt(k, d) \in TaskKinds \X (Names \cup {"none"})
         /\ TaskAt(k, d)[1] \in {"exec", "poll"} => TaskAt(k, d)[2] \in Names
BY GuestAssumption DEF Operations, TaskAt, TaskKinds, Names

IsSuffix(k, s) ==
  /\ s \in Seq(TaskKinds \X (Names \cup {"none"}))
  /\ Len(s) \in 1 .. Longest(k) + 1
  /\ \A i \in 1 .. Len(s) : s[i] = TaskAt(k, Len(s) - i)

LEMMA ShortTasks ==
  /\ TaskAt("ready", 0) = <<"ping", "none">>
  /\ TaskAt("start", 0) = <<"exec", "program">> /\ TaskAt("start", 1) = <<"poll", "lookup">>
  /\ TaskAt("start", 2) = <<"exec", "lookup">>
  /\ TaskAt("run", 0) = <<"poll", "program">> /\ TaskAt("run", 1) = <<"exec", "program">>
  /\ TaskAt("run", 2) = <<"poll", "lookup">> /\ TaskAt("run", 3) = <<"exec", "lookup">>
  /\ TaskAt("query", 0) = <<"poll", "program">> /\ TaskAt("query", 1) = <<"exec", "program">>
  /\ Longest("ready") = 0 /\ Longest("start") = 2 /\ Longest("run") = 3
  /\ Longest("query") = 1
BY DEF TaskAt, Longest

LEMMA WriteTasksInOrder ==
  /\ TaskAt("write", 0) = <<"poll", "chown">> /\ TaskAt("write", 1) = <<"exec", "chown">>
  /\ TaskAt("write", 2) = <<"close", "none">>
  /\ \A d \in 3 .. Chunks + 2 : TaskAt("write", d) = <<"write", "none">>
  /\ TaskAt("write", Chunks + 3) = <<"open", "none">>
  /\ TaskAt("write", Chunks + 4) = <<"poll", "mkdir">>
  /\ TaskAt("write", Chunks + 5) = <<"exec", "mkdir">>
  /\ TaskAt("write", Chunks + 6) = <<"poll", "lookup">>
  /\ TaskAt("write", Chunks + 7) = <<"exec", "lookup">>
  /\ Longest("write") = Chunks + 7
BY GuestAssumption DEF TaskAt, Longest

LEMMA OneTask ==
  ASSUME NEW k \in Operations, NEW a \in TaskKinds \X (Names \cup {"none"}),
         a = TaskAt(k, 0)
  PROVE  IsSuffix(k, <<a>>)
<1>1. <<a>> \in Seq(TaskKinds \X (Names \cup {"none"})) /\ Len(<<a>>) = 1
  OBVIOUS
<1>2. Longest(k) \in Nat
  BY LongestType
<1>3. QED
  BY <1>1, <1>2 DEF IsSuffix

LEMMA OneMoreTask ==
  ASSUME NEW k \in Operations, NEW a \in TaskKinds \X (Names \cup {"none"}),
         NEW s, IsSuffix(k, s), a = TaskAt(k, Len(s)), Len(s) <= Longest(k)
  PROVE  IsSuffix(k, <<a>> \o s)
<1>1. /\ s \in Seq(TaskKinds \X (Names \cup {"none"})) /\ Len(s) \in 1 .. Longest(k) + 1
      /\ \A i \in 1 .. Len(s) : s[i] = TaskAt(k, Len(s) - i)
      /\ Longest(k) \in Nat
  BY LongestType DEF IsSuffix
<1>2. /\ <<a>> \o s \in Seq(TaskKinds \X (Names \cup {"none"}))
      /\ Len(<<a>> \o s) = Len(s) + 1
      /\ (<<a>> \o s)[1] = a
      /\ \A i \in 2 .. Len(s) + 1 : (<<a>> \o s)[i] = s[i - 1]
  BY <1>1
<1> DEFINE all == <<a>> \o s
<1> HIDE DEF all
<1>3. ASSUME NEW i \in 1 .. Len(s) + 1 PROVE all[i] = TaskAt(k, Len(s) + 1 - i)
  <2>1. CASE i = 1
    BY <1>1, <1>2, <2>1 DEF all
  <2>2. CASE i # 1
    <3>1. i - 1 \in 1 .. Len(s) /\ Len(s) - (i - 1) = Len(s) + 1 - i /\ i \in 2 .. Len(s) + 1
      BY <1>1, <2>2
    <3>2. QED
      BY <1>1, <1>2, <3>1 DEF all
  <2>3. QED
    BY <2>1, <2>2
<1>4. QED
  BY <1>1, <1>2, <1>3 DEF IsSuffix, all

LEMMA TwoMoreTasks ==
  ASSUME NEW k \in Operations,
         NEW a \in TaskKinds \X (Names \cup {"none"}), NEW b \in TaskKinds \X (Names \cup {"none"}),
         NEW s, IsSuffix(k, s), b = TaskAt(k, Len(s)), a = TaskAt(k, Len(s) + 1),
         Len(s) + 1 <= Longest(k)
  PROVE  IsSuffix(k, <<a, b>> \o s) /\ Len(<<a, b>> \o s) = Len(s) + 2
<1>1. s \in Seq(TaskKinds \X (Names \cup {"none"})) /\ Len(s) \in Nat /\ Longest(k) \in Nat
  BY LongestType DEF IsSuffix
<1>2. IsSuffix(k, <<b>> \o s)
  BY <1>1, OneMoreTask
<1>3. Len(<<b>> \o s) = Len(s) + 1 /\ <<a>> \o (<<b>> \o s) = <<a, b>> \o s
  BY <1>1
<1>4. IsSuffix(k, <<a>> \o (<<b>> \o s))
  BY <1>1, <1>2, <1>3, OneMoreTask
<1>5. IsSuffix(k, <<a, b>> \o s)
  BY <1>3, <1>4, Zenon
<1>6. Len(<<a, b>> \o s) = Len(s) + 2
  BY <1>1
<1>7. QED
  BY <1>5, <1>6

Join(a, b) == a \o b

LEMMA JoinIsSeq ==
  ASSUME NEW S, NEW a \in Seq(S), NEW b \in Seq(S)
  PROVE  /\ Join(a, b) \in Seq(S) /\ Len(Join(a, b)) = Len(a) + Len(b)
         /\ \A i \in 1 .. Len(a) : Join(a, b)[i] = a[i]
         /\ \A i \in Len(a) + 1 .. Len(a) + Len(b) : Join(a, b)[i] = b[i - Len(a)]
BY DEF Join

LEMMA JoinAssociates ==
  ASSUME NEW S, NEW a \in Seq(S), NEW b \in Seq(S), NEW c \in Seq(S)
  PROVE  Join(Join(a, b), c) = Join(a, Join(b, c))
BY DEF Join

LEMMA StartThenPoll ==
  ASSUME NEW k \in Operations, NEW n \in Names,
         NEW s, IsSuffix(k, s), TaskAt(k, Len(s)) = <<"poll", n>>,
         TaskAt(k, Len(s) + 1) = <<"exec", n>>, Len(s) + 1 <= Longest(k)
  PROVE  IsSuffix(k, Exec(n) \o s) /\ Len(Exec(n) \o s) = Len(s) + 2
<1>1. /\ <<"exec", n>> \in TaskKinds \X (Names \cup {"none"})
      /\ <<"poll", n>> \in TaskKinds \X (Names \cup {"none"})
  BY DEF TaskKinds
<1> DEFINE a == <<"exec", n>>  b == <<"poll", n>>
<1>2. Exec(n) = <<a, b>>
  BY DEF Exec
<1> HIDE DEF a, b
<1>3. IsSuffix(k, <<a, b>> \o s) /\ Len(<<a, b>> \o s) = Len(s) + 2
  BY <1>1, TwoMoreTasks DEF a, b
<1>4. QED
  BY <1>2, <1>3

LEMMA StartAndPoll ==
  ASSUME NEW k \in Operations, NEW n \in Names,
         TaskAt(k, 0) = <<"poll", n>>, TaskAt(k, 1) = <<"exec", n>>, 1 <= Longest(k)
  PROVE  IsSuffix(k, Exec(n)) /\ Len(Exec(n)) = 2
<1>1. /\ <<"exec", n>> \in TaskKinds \X (Names \cup {"none"})
      /\ <<"poll", n>> \in TaskKinds \X (Names \cup {"none"})
  BY DEF TaskKinds
<1> DEFINE a == <<"exec", n>>  b == <<"poll", n>>
<1>2. Exec(n) = <<a, b>>
  BY DEF Exec
<1> HIDE DEF a, b
<1>5. <<a, b>> \in Seq(TaskKinds \X (Names \cup {"none"}))
  BY <1>1 DEF a, b
<1>6. Len(<<a, b>>) = 2 /\ <<a, b>>[1] = a /\ <<a, b>>[2] = b
  OBVIOUS
<1>7. IsSuffix(k, <<a, b>>)
  <2> DEFINE s == <<a, b>>
  <2>1. s \in Seq(TaskKinds \X (Names \cup {"none"})) /\ Len(s) = 2 /\ s[1] = a /\ s[2] = b
    BY <1>5, <1>6
  <2>2. a = TaskAt(k, 1) /\ b = TaskAt(k, 0) /\ Longest(k) \in Nat
    BY LongestType DEF a, b
  <2> HIDE DEF s
  <2>3. IsSuffix(k, s)
    BY <2>1, <2>2 DEF IsSuffix
  <2>4. QED
    BY <2>3 DEF s
<1>8. QED
  BY <1>2, <1>6, <1>7, Zenon

LEMMA WithLookup ==
  ASSUME NEW k \in Operations, NEW s, IsSuffix(k, s), TaskAt(k, Len(s)) = <<"poll", "lookup">>,
         TaskAt(k, Len(s) + 1) = <<"exec", "lookup">>, Len(s) + 1 <= Longest(k),
         TaskAt(k, Len(s) - 1)[1] = "exec"
  PROVE  /\ IsSuffix(k, Lookup \o s) /\ Len(Lookup \o s) >= Len(s)
         /\ TaskAt(k, Len(Lookup \o s) - 1)[1] = "exec"
<1>1. CASE cached
  <2>1. s \in Seq(TaskKinds \X (Names \cup {"none"}))
    BY DEF IsSuffix
  <2>2. Lookup = <<>> /\ <<>> \o s = s
    BY <1>1, <2>1 DEF Lookup
  <2>3. Len(s) >= Len(s)
    BY <2>1
  <2>4. QED
    BY <2>2, <2>3
<1>2. CASE ~cached
  <2>1. Lookup = Exec("lookup")
    BY <1>2 DEF Lookup
  <2>2. "lookup" \in Names
    BY DEF Names
  <2>3. IsSuffix(k, Exec("lookup") \o s) /\ Len(Exec("lookup") \o s) = Len(s) + 2
    BY <2>2, StartThenPoll
  <2> DEFINE t == Exec("lookup") \o s
  <2> HIDE DEF t
  <2>4. IsSuffix(k, t) /\ Len(t) = Len(s) + 2 /\ Len(s) \in Nat
    BY <2>3 DEF t, IsSuffix
  <2>5. Len(t) >= Len(s) /\ Len(t) - 1 = Len(s) + 1
    BY <2>4
  <2>6. TaskAt(k, Len(t) - 1)[1] = "exec"
    BY <2>5
  <2>7. QED
    BY <2>1, <2>4, <2>5, <2>6, Zenon DEF t
<1>3. QED
  BY <1>1, <1>2

\* What an operation begins with is its tasks, with or without the lookup.
LEMMA TasksOfIsSuffix ==
  ASSUME NEW k \in Operations
  PROVE  /\ IsSuffix(k, TasksOf(k))
         /\ TaskAt(k, Len(TasksOf(k)) - 1)[1] \in {"ping", "exec"}
         /\ k = "write" => Len(TasksOf(k)) >= Chunks + 6
<1> USE GuestAssumption
<1> DEFINE Ts == TaskKinds \X (Names \cup {"none"})
<1>0. \A t \in TaskKinds, n \in Names \cup {"none"} : <<t, n>> \in Ts
  OBVIOUS
<1>1. CASE k = "ready"
  <2> DEFINE s == <<<<"ping", "none">>>>
  <2>1. TasksOf(k) = s
    BY <1>1, Zenon DEF TasksOf
  <2>2. IsSuffix(k, s)
    BY <1>1, ShortTasks, OneTask DEF TaskKinds
  <2>3. Len(s) - 1 = 0
    OBVIOUS
  <2> HIDE DEF s
  <2>4. TaskAt(k, Len(s) - 1)[1] = "ping"
    <3>1. TaskAt(k, Len(s) - 1) = <<"ping", "none">>
      BY <1>1, <2>3, ShortTasks, Zenon
    <3>2. QED
      BY <3>1
  <2>5. QED
    BY <1>1, <2>1, <2>2, <2>4
<1>2. CASE k = "query"
  <2> DEFINE s == Exec("program")
  <2>1. TasksOf(k) = s
    BY <1>2, Zenon DEF TasksOf
  <2>2. IsSuffix(k, s) /\ Len(s) = 2
    BY <1>2, ShortTasks, StartAndPoll DEF Names
  <2> HIDE DEF s
  <2>3. Len(s) - 1 = 1
    BY <2>2
  <2>4. TaskAt(k, Len(s) - 1)[1] = "exec"
    <3>1. TaskAt(k, Len(s) - 1) = <<"exec", "program">>
      BY <1>2, <2>3, ShortTasks, Zenon
    <3>2. QED
      BY <3>1
  <2>5. QED
    BY <1>2, <2>1, <2>2, <2>4
<1>3. CASE k = "start"
  <2> DEFINE s == <<<<"exec", "program">>>>
  <2>1. IsSuffix(k, s) /\ Len(s) = 1
    BY <1>3, ShortTasks, OneTask DEF TaskKinds, Names
  <2>2. TasksOf(k) = Lookup \o s
    BY <1>3, Zenon DEF TasksOf
  <2> HIDE DEF s
  <2>3. Len(s) - 1 = 0 /\ Len(s) + 1 = 2
    BY <2>1
  <2>4. /\ TaskAt(k, Len(s)) = <<"poll", "lookup">> /\ TaskAt(k, Len(s) + 1) = <<"exec", "lookup">>
        /\ Len(s) + 1 <= Longest(k) /\ TaskAt(k, Len(s) - 1)[1] = "exec"
    BY <1>3, <2>1, <2>3, ShortTasks
  <2>5. QED
    BY <1>3, <2>1, <2>2, <2>4, WithLookup
<1>4. CASE k = "run"
  <2> DEFINE s == Exec("program")
  <2>1. IsSuffix(k, s) /\ Len(s) = 2
    BY <1>4, ShortTasks, StartAndPoll DEF Names
  <2>2. TasksOf(k) = Lookup \o s
    BY <1>4, Zenon DEF TasksOf
  <2> HIDE DEF s
  <2>3. Len(s) - 1 = 1 /\ Len(s) + 1 = 3
    BY <2>1
  <2>4. /\ TaskAt(k, Len(s)) = <<"poll", "lookup">> /\ TaskAt(k, Len(s) + 1) = <<"exec", "lookup">>
        /\ Len(s) + 1 <= Longest(k) /\ TaskAt(k, Len(s) - 1)[1] = "exec"
    BY <1>4, <2>1, <2>3, ShortTasks
  <2>5. QED
    BY <1>4, <2>1, <2>2, <2>4, WithLookup
<1>5. CASE k = "write"
  <2> DEFINE w == [n \in 1 .. Chunks |-> <<"write", "none">>]
             last == <<<<"close", "none">>>> \o Exec("chown")
             first == <<<<"open", "none">>>>
             s == first \o w \o last
             L == Chunks + 4
  <2>1. TasksOf(k) = Lookup \o (Exec("mkdir") \o s)
    <3>1. TasksOf(k) = Lookup \o Exec("mkdir") \o WriteTasks \o Exec("chown")
      BY <1>5, Zenon DEF TasksOf
    <3>2. WriteTasks = <<<<"open", "none">>>> \o w \o <<<<"close", "none">>>>
      BY Zenon DEF WriteTasks
    <3>3. w \in Seq(Ts)
      BY DEF TaskKinds
    <3> HIDE DEF w
    <3> DEFINE o == <<<<"open", "none">>>>  c == <<<<"close", "none">>>>  x == Exec("chown")
    <3>4. o \in Seq(Ts) /\ c \in Seq(Ts)
      BY DEF TaskKinds
    <3>5. Lookup \in Seq(Ts) /\ Exec("mkdir") \in Seq(Ts) /\ x \in Seq(Ts)
      <4>1. ASSUME NEW n \in Names PROVE Exec(n) \in Seq(Ts)
        <5>1. <<"exec", n>> \in Ts /\ <<"poll", n>> \in Ts
          BY <1>0 DEF TaskKinds
        <5> HIDE DEF Ts
        <5>2. QED
          BY <5>1 DEF Exec
      <4>2. "lookup" \in Names /\ "mkdir" \in Names /\ "chown" \in Names
        BY DEF Names
      <4>3. <<>> \in Seq(Ts)
        OBVIOUS
      <4>4. QED
        BY <4>1, <4>2, <4>3 DEF Lookup
    <3>6. c \o x = last
      BY Zenon DEF last, c, x
    <3>7. TasksOf(k) = ((Lookup \o Exec("mkdir")) \o ((o \o w) \o c)) \o x
      BY <3>1, <3>2, Zenon
    <3> HIDE DEF o, c, x, Ts
    <3> DEFINE l == Lookup  m == Exec("mkdir")
    <3>8. l \in Seq(Ts) /\ m \in Seq(Ts)
      BY <3>5
    <3> HIDE DEF l, m
    <3>9. Join(Join(Join(l, m), Join(Join(o, w), c)), x)
            = Join(l, Join(m, Join(Join(o, w), Join(c, x))))
      <4>1. Join(o, w) \in Seq(Ts) /\ Join(l, m) \in Seq(Ts) /\ Join(c, x) \in Seq(Ts)
        BY <3>3, <3>4, <3>5, <3>8, JoinIsSeq
      <4>2. Join(Join(o, w), c) \in Seq(Ts) /\ Join(Join(o, w), Join(c, x)) \in Seq(Ts)
        BY <3>4, <4>1, JoinIsSeq
      <4>3. Join(Join(Join(o, w), c), x) = Join(Join(o, w), Join(c, x))
        BY <3>4, <3>5, <4>1, JoinAssociates
      <4>4. Join(Join(Join(l, m), Join(Join(o, w), c)), x)
              = Join(Join(l, m), Join(Join(Join(o, w), c), x))
        BY <3>5, <4>1, <4>2, JoinAssociates
      <4>5. Join(Join(l, m), Join(Join(o, w), Join(c, x)))
              = Join(l, Join(m, Join(Join(o, w), Join(c, x))))
        BY <3>8, <4>2, JoinAssociates
      <4>6. QED
        BY <4>3, <4>4, <4>5
    <3>10. QED
      BY <3>6, <3>7, <3>9, Zenon DEF l, m, o, Join
  <2>2. w \in Seq(Ts) /\ Len(w) = Chunks /\ \A n \in 1 .. Chunks : w[n] = <<"write", "none">>
    BY DEF TaskKinds
  <2>3. /\ last \in Seq(Ts) /\ Len(last) = 3 /\ last[1] = <<"close", "none">>
        /\ last[2] = <<"exec", "chown">> /\ last[3] = <<"poll", "chown">>
    <3> DEFINE e == <<"exec", "chown">>  p == <<"poll", "chown">>  cl == <<"close", "none">>
               x == <<e, p>>  c == <<cl>>
    <3>1. e \in Ts /\ p \in Ts /\ cl \in Ts
      BY DEF TaskKinds, Names
    <3>2. last = Join(c, x)
      BY Zenon DEF Exec, Join
    <3> HIDE DEF e, p, cl, Ts, last
    <3>3. c \in Seq(Ts) /\ Len(c) = 1 /\ c[1] = cl
      BY <3>1
    <3>4. x \in Seq(Ts) /\ Len(x) = 2 /\ x[1] = e /\ x[2] = p
      BY <3>1
    <3> HIDE DEF c, x
    <3>5. /\ last \in Seq(Ts) /\ Len(last) = 3 /\ last[1] = c[1]
          /\ \A i \in 2 .. 3 : last[i] = x[i - 1]
      <4>1.
          /\ Join(c, x) \in Seq(Ts) /\ Len(Join(c, x)) = Len(c) + Len(x)
          /\ \A i \in 1 .. Len(c) : Join(c, x)[i] = c[i]
          /\ \A i \in Len(c) + 1 .. Len(c) + Len(x) : Join(c, x)[i] = x[i - Len(c)]
        BY <3>3, <3>4, JoinIsSeq
      <4>2. QED
        BY <3>2, <3>3, <3>4, <4>1
    <3>6. QED
      BY <3>3, <3>4, <3>5 DEF e, p, cl
  <2> HIDE DEF w, last
  <2>3a. first \in Seq(Ts) /\ Len(first) = 1 /\ first[1] = <<"open", "none">>
    BY DEF TaskKinds
  <2> HIDE DEF first, Ts
  <2>4. /\ s \in Seq(Ts) /\ Len(s) = L /\ s[1] = <<"open", "none">>
        /\ \A n \in 2 .. Chunks + 1 : s[n] = <<"write", "none">>
        /\ s[L - 2] = <<"close", "none">> /\ s[L - 1] = <<"exec", "chown">>
        /\ s[L] = <<"poll", "chown">>
    <3> DEFINE fw == Join(first, w)
    <3>1. /\ fw \in Seq(Ts) /\ Len(fw) = Chunks + 1 /\ fw[1] = first[1]
          /\ \A n \in 2 .. Chunks + 1 : fw[n] = w[n - 1]
      <4>1.
          /\ Join(first, w) \in Seq(Ts) /\ Len(Join(first, w)) = Len(first) + Len(w)
          /\ \A i \in 1 .. Len(first) : Join(first, w)[i] = first[i]
          /\ \A i \in Len(first) + 1 .. Len(first) + Len(w) : Join(first, w)[i] = w[i - Len(first)]
        BY <2>2, <2>3a, JoinIsSeq, ZenonT(60)
      <4>2. QED
        BY <2>2, <2>3a, <4>1, SMTT(30)
    <3>2. s = Join(fw, last)
      BY Zenon DEF Join
    <3> HIDE DEF fw, s, L
    <3>3. /\ s \in Seq(Ts) /\ Len(s) = Chunks + 4
          /\ \A n \in 1 .. Chunks + 1 : s[n] = fw[n]
          /\ \A n \in Chunks + 2 .. Chunks + 4 : s[n] = last[n - (Chunks + 1)]
      <4>1.
          /\ Join(fw, last) \in Seq(Ts) /\ Len(Join(fw, last)) = Len(fw) + Len(last)
          /\ \A i \in 1 .. Len(fw) : Join(fw, last)[i] = fw[i]
          /\ \A i \in Len(fw) + 1 .. Len(fw) + Len(last) : Join(fw, last)[i] = last[i - Len(fw)]
        BY <2>3, <3>1, JoinIsSeq
      <4>2. QED
        BY <2>3, <3>1, <3>2, <4>1
    <3>4. \A n \in 2 .. Chunks + 1 : fw[n] = <<"write", "none">>
      BY <2>2, <3>1
    <3>5. s \in Seq(Ts) /\ Len(s) = L /\ \A n \in 1 .. Chunks + 1 : s[n] = fw[n]
      BY <3>3 DEF L
    <3>6. s[L - 2] = last[1] /\ s[L - 1] = last[2] /\ s[L] = last[3]
      <4>1. L - 2 = Chunks + 2 /\ L - 1 = Chunks + 3 /\ L = Chunks + 4
        BY DEF L
      <4>2. QED
        BY <3>3, <4>1
    <3>7. QED
      BY <2>3, <2>3a, <3>1, <3>4, <3>5, <3>6
  <2> HIDE DEF s
  <2>5. ASSUME NEW i \in 1 .. L PROVE s[i] = TaskAt("write", L - i)
    <3>1. CASE i = 1
      <4>1. L - i = Chunks + 3
        BY <3>1
      <4>2. QED
        BY <2>4, <3>1, <4>1, WriteTasksInOrder
    <3>2. CASE i \in 2 .. Chunks + 1
      <4>1. L - i \in 3 .. Chunks + 2
        BY <3>2
      <4>2. QED
        BY <2>4, <3>2, <4>1, WriteTasksInOrder
    <3>3. CASE i \in {L - 2, L - 1, L}
      <4>1. \/ i = L - 2 /\ L - i = 2
            \/ i = L - 1 /\ L - i = 1
            \/ i = L /\ L - i = 0
        BY <3>3
      <4>2. QED
        BY <2>4, <4>1, WriteTasksInOrder
    <3>4. QED
      BY <3>1, <3>2, <3>3
  <2>6. IsSuffix(k, s) /\ L = Chunks + 4
    <3>1. L \in 1 .. Longest(k) + 1
      BY <1>5, WriteTasksInOrder
    <3>2. QED
      BY <1>5, <2>4, <2>5, <3>1 DEF IsSuffix, Ts
  <2>7. /\ TaskAt(k, Len(s)) = <<"poll", "mkdir">> /\ TaskAt(k, Len(s) + 1) = <<"exec", "mkdir">>
        /\ Len(s) + 1 <= Longest(k) /\ Len(s) + 2 = Chunks + 6 /\ "mkdir" \in Names
    BY <1>5, <2>4, <2>6, WriteTasksInOrder DEF Names
  <2> DEFINE t == Exec("mkdir") \o s
  <2>8. IsSuffix(k, t) /\ Len(t) = Chunks + 6
    BY <2>6, <2>7, StartThenPoll
  <2> HIDE DEF t
  <2>9. /\ TaskAt(k, Len(t)) = <<"poll", "lookup">> /\ TaskAt(k, Len(t) + 1) = <<"exec", "lookup">>
        /\ Len(t) + 1 <= Longest(k) /\ TaskAt(k, Len(t) - 1)[1] = "exec"
    BY <1>5, <2>8, WriteTasksInOrder
  <2>10. TasksOf(k) = Lookup \o t
    BY <2>1 DEF t
  <2>11. /\ IsSuffix(k, Lookup \o t) /\ Len(Lookup \o t) >= Len(t)
         /\ TaskAt(k, Len(Lookup \o t) - 1)[1] = "exec"
    BY <2>8, <2>9, WithLookup
  <2>12. QED
    BY <2>8, <2>10, <2>11
<1>6. QED
  BY <1>1, <1>2, <1>3, <1>4, <1>5 DEF Operations

\* What is left after a task is a suffix again.
LEMMA TailIsSuffix ==
  ASSUME NEW k \in Operations, NEW s, IsSuffix(k, s)
  PROVE  /\ Head(s) = TaskAt(k, Len(s) - 1)
         /\ Len(s) - 1 \in 0 .. Longest(k)
         /\ Len(Tail(s)) = Len(s) - 1
         /\ Len(s) > 1 => IsSuffix(k, Tail(s)) /\ Head(Tail(s)) = TaskAt(k, Len(s) - 2)
<1>1. Longest(k) \in Nat
  BY LongestType
<1>2. /\ s \in Seq(TaskKinds \X (Names \cup {"none"})) /\ Len(s) \in 1 .. Longest(k) + 1
      /\ \A i \in 1 .. Len(s) : s[i] = TaskAt(k, Len(s) - i)
  BY DEF IsSuffix
<1>3. Head(s) = TaskAt(k, Len(s) - 1) /\ Len(s) - 1 \in 0 .. Longest(k)
  BY <1>1, <1>2
<1>4. /\ Tail(s) \in Seq(TaskKinds \X (Names \cup {"none"})) /\ Len(Tail(s)) = Len(s) - 1
      /\ \A i \in 1 .. Len(s) - 1 : Tail(s)[i] = s[i + 1]
  BY <1>1, <1>2
<1>5. ASSUME NEW i \in 1 .. Len(s) - 1 PROVE Tail(s)[i] = TaskAt(k, Len(Tail(s)) - i)
  <2>1. i + 1 \in 1 .. Len(s) /\ Len(s) - (i + 1) = Len(Tail(s)) - i
    BY <1>1, <1>2, <1>4
  <2>2. QED
    BY <1>2, <1>4, <2>1
<1>6. Len(s) > 1 => IsSuffix(k, Tail(s))
  BY <1>1, <1>2, <1>4, <1>5 DEF IsSuffix
<1>7. Len(s) > 1 => Head(Tail(s)) = TaskAt(k, Len(s) - 2)
  <2> SUFFICES ASSUME Len(s) > 1 PROVE Head(Tail(s)) = TaskAt(k, Len(s) - 2)
    OBVIOUS
  <2>1. 1 \in 1 .. Len(s) - 1
    BY <1>1, <1>2
  <2>1a. Head(Tail(s)) = Tail(s)[1]
    <3> DEFINE t == Tail(s)
    <3>1. t \in Seq(TaskKinds \X (Names \cup {"none"})) /\ Len(t) >= 1
      BY <1>1, <1>2, <1>4
    <3> HIDE DEF t
    <3>2. Head(t) = t[1]
      BY <3>1
    <3>3. QED
      BY <3>2 DEF t
  <2>2. Len(Tail(s)) - 1 = Len(s) - 2
    BY <1>1, <1>2, <1>4
  <2>3. QED
    BY <1>5, <2>1, <2>1a, <2>2
<1>8. QED
  BY <1>3, <1>4, <1>6, <1>7
-----------------------------------------------------------------------------
(* The inductive invariant of the guest's operations.                      *)

Calls == Nat \X TaskKinds \X (Names \cup {"none"})

GuestType ==
  /\ op \in Nat /\ kind \in Operations /\ polling \in Nat
  /\ tasks \in Seq(TaskKinds \X (Names \cup {"none"}))
  /\ failed \in BOOLEAN /\ cached \in BOOLEAN /\ session \in BOOLEAN
  /\ result \in {"running", "ok", "raised"}
  /\ pending \in Seq(Calls)
  /\ programs \in Seq([op : Nat, name : Names, exit : {"none", "zero", "nonzero"}])
  /\ file \in [content : Seq(Nat), owner : {"none", "root", "user"}, handles : SUBSET Nat]

\* What is left of an operation, and what its finally clause leaves of it.
Remaining ==
  result = "running" =>
    IF failed THEN kind = "write" /\ tasks = <<<<"close", "none">>>> ELSE IsSuffix(kind, tasks)

\* Nothing is newer than the operation, and nothing is given up once it returns.
Past ==
  /\ \A pid \in DOMAIN programs : programs[pid].op <= op
  /\ \A i \in DOMAIN pending : pending[i][1] <= op
  /\ \A i \in DOMAIN pending : pending[i][2] = "exec" => pending[i][3] \in Names
  /\ result = "ok" => pending = <<>>

\* No two programs, started or still asked for, are the same one of one operation.
Unique ==
  /\ \A p, q \in DOMAIN programs :
       programs[p].op = programs[q].op /\ programs[p].name = programs[q].name => p = q
  /\ \A i, j \in DOMAIN pending :
       pending[i][2] = "exec" /\ pending[j] = pending[i] => i = j
  /\ \A p \in DOMAIN programs, i \in DOMAIN pending :
       pending[i][2] = "exec" =>
         ~(programs[p].op = pending[i][1] /\ programs[p].name = pending[i][3])

\* An operation has started its programs by tasks it has behind it, and abandoned none.
Behind ==
  result = "running" =>
    /\ \A i \in DOMAIN pending : pending[i][1] = op => pending[i][2] # "exec"
    /\ ~failed => \A pid \in DOMAIN programs : programs[pid].op = op =>
         \E d \in Len(tasks) .. Longest(kind) : TaskAt(kind, d) = <<"exec", programs[pid].name>>

\* A program that may still run is the one that is waited for.
Awaited ==
  /\ result = "running" /\ Task = "poll" =>
       /\ polling \in DOMAIN programs
       /\ programs[polling].op = op /\ programs[polling].name = Head(tasks)[2]
  /\ kind \in Waiting /\ result \in {"running", "ok"} =>
       \A pid \in DOMAIN programs : programs[pid].op = op /\ programs[pid].exit = "none" =>
         result = "running" /\ Task = "poll" /\ pid = polling

\* The program was started when only its poll, or nothing, is left.
Begun ==
  /\ kind \in {"start", "run", "query"} /\ result = "ok" => Mine("program") # {}
  /\ kind \in {"run", "query"} /\ result = "running" /\ Len(tasks) = 1 => Mine("program") # {}

\* chown gives the file away, and nothing takes it back.
Chowned ==
  \A pid \in DOMAIN programs :
    programs[pid].name = "chown" /\ programs[pid].exit = "zero" => file.owner = "user"

\* From its open on, write_file is the only one to touch the file: nothing is pending.
Writing ==
  /\ kind = "write" /\ result = "running" /\ ~failed /\ Len(tasks) <= Chunks + 3 =>
       /\ pending = <<>>
       /\ op \in file.handles <=> Len(tasks) >= 3
       /\ file.content = [n \in 1 .. (IF Len(tasks) >= 3 THEN Chunks + 3 - Len(tasks) ELSE Chunks)
                            |-> op]
  /\ kind = "write" /\ result = "ok" =>
       /\ file.content = [n \in 1 .. Chunks |-> op]
       /\ file.owner = "user"
       /\ op \notin file.handles

GuestInv ==
  /\ GuestType
  /\ Remaining
  /\ Past
  /\ Unique
  /\ Behind
  /\ Awaited
  /\ Begun
  /\ Chowned
  /\ Writing

\* Which task is which, by its place.
LEMMA KindOfTask ==
  ASSUME NEW k \in Operations, NEW d \in 0 .. Longest(k)
  PROVE  /\ TaskAt(k, d)[1] = "write" <=> k = "write" /\ d \in 3 .. Chunks + 2
         /\ TaskAt(k, d)[1] = "open" <=> k = "write" /\ d = Chunks + 3
         /\ TaskAt(k, d)[1] = "close" <=> k = "write" /\ d = 2
         /\ TaskAt(k, d)[1] = "ping" <=> k = "ready"
         /\ k = "write" /\ d <= 1 => TaskAt(k, d) = <<IF d = 0 THEN "poll" ELSE "exec", "chown">>
         /\ k \in {"run", "query"} /\ d <= 1 =>
              TaskAt(k, d) = <<IF d = 0 THEN "poll" ELSE "exec", "program">>
         /\ k = "start" /\ d = 0 => TaskAt(k, d) = <<"exec", "program">>
<1> USE GuestAssumption
<1>1. CASE k = "write"
  BY <1>1 DEF TaskAt, Longest
<1>2. CASE k = "ready"
  BY <1>2 DEF TaskAt, Longest
<1>3. CASE k \in {"query", "start", "run"}
  BY <1>3 DEF TaskAt, Longest
<1>4. QED
  BY <1>1, <1>2, <1>3 DEF Operations

\* The task an operation is at.
LEMMA CurrentTask ==
  ASSUME GuestInv, result = "running"
  PROVE  /\ tasks \in Seq(TaskKinds \X (Names \cup {"none"})) /\ Len(tasks) >= 1
         /\ Head(tasks) \in TaskKinds \X (Names \cup {"none"})
         /\ Task \in {"exec", "poll"} => Head(tasks)[2] \in Names
         /\ failed => kind = "write" /\ Task = "close" /\ Len(tasks) = 1
         /\ ~failed => /\ IsSuffix(kind, tasks) /\ Len(tasks) - 1 \in 0 .. Longest(kind)
                       /\ Head(tasks) = TaskAt(kind, Len(tasks) - 1)
         /\ Task = "write" => kind = "write" /\ ~failed /\ Len(tasks) \in 4 .. Chunks + 3
<1>1. GuestType /\ Remaining
  BY DEF GuestInv
<1>2. CASE failed
  <2>1. kind = "write" /\ tasks = <<<<"close", "none">>>>
    BY <1>1, <1>2 DEF Remaining
  <2>2. Len(tasks) = 1 /\ Head(tasks) = <<"close", "none">>
    BY <2>1
  <2>3. QED
    BY <1>1, <1>2, <2>1, <2>2 DEF GuestType, TaskKinds, Task
<1>3. CASE ~failed
  <2>1. IsSuffix(kind, tasks) /\ kind \in Operations
    BY <1>1, <1>3 DEF Remaining, GuestType
  <2>2. Head(tasks) = TaskAt(kind, Len(tasks) - 1) /\ Len(tasks) - 1 \in 0 .. Longest(kind)
    BY <2>1, TailIsSuffix
  <2>3. Len(tasks) \in Nat /\ Len(tasks) >= 1 /\ Longest(kind) \in Nat
    BY <2>1, LongestType DEF IsSuffix
  <2>4. TaskAt(kind, Len(tasks) - 1) \in TaskKinds \X (Names \cup {"none"})
    BY <2>1, <2>2, <2>3, TaskAtType
  <2>5. Task \in {"exec", "poll"} => Head(tasks)[2] \in Names
    BY <2>1, <2>2, <2>3, TaskAtType DEF Task
  <2>6. Task = "write" => kind = "write" /\ Len(tasks) - 1 \in 3 .. Chunks + 2
    BY <2>1, <2>2, KindOfTask DEF Task
  <2>7. QED
    BY <1>1, <1>3, <2>1, <2>2, <2>3, <2>4, <2>5, <2>6, GuestAssumption DEF GuestType
<1>4. QED
  BY <1>1, <1>2, <1>3 DEF GuestType

\* An operation that goes on has its next task, one that returns has had its last.
LEMMA Advances ==
  ASSUME GuestInv, result = "running", Advance, UNCHANGED <<op, kind, failed>>
  PROVE  /\ tasks' \in Seq(TaskKinds \X (Names \cup {"none"}))
         /\ result' \in {"running", "ok", "raised"}
         /\ Remaining'
         /\ result' = "running" => /\ ~failed /\ Len(tasks) - 2 \in 0 .. Longest(kind)
                                   /\ Len(tasks') = Len(tasks) - 1
                                   /\ Head(tasks') = TaskAt(kind, Len(tasks) - 2)
         /\ result' = "ok" => ~failed /\ Len(tasks) = 1
<1>1. /\ tasks \in Seq(TaskKinds \X (Names \cup {"none"})) /\ Len(tasks) >= 1
      /\ failed => Len(tasks) = 1
      /\ ~failed => IsSuffix(kind, tasks)
      /\ kind \in Operations /\ failed \in BOOLEAN /\ Longest(kind) \in Nat
  BY CurrentTask, LongestType DEF GuestInv, GuestType
<1>2. tasks' = Tail(tasks)
      /\ result' = IF Len(tasks) > 1 THEN "running" ELSE IF failed THEN "raised" ELSE "ok"
  BY DEF Advance
<1>3. tasks' \in Seq(TaskKinds \X (Names \cup {"none"}))
  BY <1>1, <1>2
<1>4. result' \in {"running", "ok", "raised"}
  BY <1>2
<1>5. result' = "ok" => ~failed /\ Len(tasks) = 1
  <2>1. result' = "ok" => ~(Len(tasks) > 1) /\ ~failed
    BY <1>2, Zenon
  <2>2. Len(tasks) \in Nat /\ Len(tasks) >= 1
    BY <1>1
  <2> DEFINE n == Len(tasks)
  <2> HIDE DEF n
  <2>3. n \in Nat /\ n >= 1 /\ ~(n > 1) => n = 1
    OBVIOUS
  <2>4. QED
    BY <2>1, <2>2, <2>3, Zenon DEF n
<1>6. ASSUME result' = "running"
      PROVE  /\ ~failed /\ Len(tasks) - 2 \in 0 .. Longest(kind)
             /\ Len(tasks') = Len(tasks) - 1 /\ IsSuffix(kind, Tail(tasks))
             /\ Head(tasks') = TaskAt(kind, Len(tasks) - 2)
  <2>1. Len(tasks) > 1 /\ ~failed
    BY <1>1, <1>2, <1>6
  <2>2. /\ Len(tasks) - 1 \in 0 .. Longest(kind) /\ Len(Tail(tasks)) = Len(tasks) - 1
        /\ IsSuffix(kind, Tail(tasks)) /\ Head(Tail(tasks)) = TaskAt(kind, Len(tasks) - 2)
    BY <1>1, <2>1, TailIsSuffix
  <2>3. Len(tasks) \in Nat
    BY <1>1
  <2>4. Len(tasks) - 2 \in 0 .. Longest(kind)
    BY <1>1, <2>1, <2>2, <2>3
  <2>5. QED
    BY <1>2, <2>1, <2>2, <2>4
<1>7. Remaining'
  <2> SUFFICES ASSUME result' = "running" PROVE ~failed' /\ IsSuffix(kind, tasks)'
    BY Zenon DEF Remaining
  <2>1. ~failed /\ IsSuffix(kind, Tail(tasks))
    BY <1>6
  <2>2. QED
    BY <1>2, <2>1 DEF IsSuffix, TaskAt, Longest
<1>8. QED
  BY <1>3, <1>4, <1>5, <1>6, <1>7

\* An exception ends the operation, or leaves write_file with its close.
LEMMA Raises ==
  ASSUME GuestInv, result = "running", Raise, UNCHANGED <<op, kind>>
  PROVE  /\ tasks' \in Seq(TaskKinds \X (Names \cup {"none"}))
         /\ failed' \in BOOLEAN
         /\ result' \in {"running", "raised"}
         /\ Remaining'
         /\ result' = "running" =>
              Task = "write" /\ failed' /\ kind = "write" /\ Head(tasks')[1] = "close"
<1>1. CASE Task = "write"
  <2>1. tasks' = <<<<"close", "none">>>> /\ failed' = TRUE /\ result' = result
    BY <1>1 DEF Raise
  <2>2. kind = "write"
    BY <1>1, CurrentTask
  <2>3. <<<<"close", "none">>>> \in Seq(TaskKinds \X (Names \cup {"none"}))
    BY DEF TaskKinds
  <2>4. Head(tasks') = <<"close", "none">>
    BY <2>1
  <2>5. QED
    BY <1>1, <2>1, <2>2, <2>3, <2>4 DEF Remaining
<1>2. CASE Task # "write"
  <2>1. tasks' = <<>> /\ result' = "raised" /\ failed' = failed
    BY <1>2 DEF Raise
  <2>2. <<>> \in Seq(TaskKinds \X (Names \cup {"none"})) /\ failed \in BOOLEAN
    BY DEF GuestInv, GuestType
  <2>3. QED
    BY <2>1, <2>2 DEF Remaining
<1>3. QED
  BY <1>1, <1>2

\* The program an operation is about to start is not one it has started.
LEMMA StartedOnce ==
  ASSUME GuestInv, result = "running", Task = "exec",
         NEW pid \in DOMAIN programs, programs[pid].op = op
  PROVE  programs[pid].name # Head(tasks)[2]
<1>1. ~failed
  BY CurrentTask
<1>2. /\ kind \in Operations /\ Len(tasks) - 1 \in 0 .. Longest(kind)
      /\ Head(tasks) = TaskAt(kind, Len(tasks) - 1)
      /\ Head(tasks) \in TaskKinds \X (Names \cup {"none"})
      /\ tasks \in Seq(TaskKinds \X (Names \cup {"none"})) /\ Longest(kind) \in Nat
  BY <1>1, CurrentTask, LongestType DEF GuestInv, GuestType
<1>3. PICK d \in Len(tasks) .. Longest(kind) : TaskAt(kind, d) = <<"exec", programs[pid].name>>
  BY <1>1 DEF GuestInv, Behind
<1>4. Head(tasks) = <<"exec", Head(tasks)[2]>> /\ Head(tasks)[1] = "exec"
  BY <1>2 DEF Task
<1>5. d \in 0 .. Longest(kind) /\ d # Len(tasks) - 1
  BY <1>2
<1>6. TaskAt(kind, d) # TaskAt(kind, Len(tasks) - 1)
  <2> DEFINE c == Len(tasks) - 1
  <2>1. c \in 0 .. Longest(kind) /\ TaskAt(kind, c)[1] = "exec" /\ d # c
    BY <1>2, <1>4, <1>5
  <2> HIDE DEF c
  <2>2. TaskAt(kind, d) # TaskAt(kind, c)
    BY <1>2, <1>5, <2>1, ExecOnce
  <2>3. QED
    BY <2>2 DEF c
<1>7. QED
  BY <1>2, <1>3, <1>4, <1>6

\* A step of the client that raises keeps the invariant, whether or not its call is
\* given up with the agent.
LEMMA RaisingKeeps ==
  ASSUME GuestInv, result = "running", Raise,
         UNCHANGED <<op, kind, programs, session, file>>, polling' \in Nat, cached' \in BOOLEAN,
         \/ UNCHANGED pending
         \/ Task # "poll" /\ pending' = Append(pending, Call)
  PROVE  GuestInv'
<1>1. /\ tasks' \in Seq(TaskKinds \X (Names \cup {"none"})) /\ failed' \in BOOLEAN
      /\ result' \in {"running", "raised"} /\ Remaining'
      /\ result' = "running" =>
           Task = "write" /\ failed' /\ kind = "write" /\ Head(tasks')[1] = "close"
  BY Raises
<1>2. /\ GuestType /\ Past /\ Unique /\ Behind /\ Awaited /\ Chowned
  BY DEF GuestInv
<1>3. Call \in Calls /\ Call[1] = op /\ Call[2] = Task /\ Call[3] = Head(tasks)[2]
  BY <1>2, CurrentTask DEF Call, Calls, GuestType, Task
<1>4. pending \in Seq(Calls) /\ op \in Nat
  BY <1>2 DEF GuestType
<1>5. /\ pending' \in Seq(Calls)
      /\ \A i \in DOMAIN pending' :
           \/ i \in DOMAIN pending /\ pending'[i] = pending[i]
           \/ i = Len(pending) + 1 /\ pending'[i] = Call /\ Task # "poll"
  <2>1. CASE UNCHANGED pending
    BY <1>4, <2>1
  <2>2. CASE Task # "poll" /\ pending' = Append(pending, Call)
    <3> HIDE DEF Call
    <3>1. QED
      BY <1>3, <1>4, <2>2
  <2>3. QED
    BY <2>1, <2>2
<1>6. GuestType'
  BY <1>1, <1>2, <1>5 DEF GuestType
<1>7. Past'
  <2>1. Task = "exec" => Head(tasks)[2] \in Names
    BY CurrentTask
  <2>2. \A i \in DOMAIN pending' :
          pending'[i][1] <= op /\ (pending'[i][2] = "exec" => pending'[i][3] \in Names)
    BY <1>2, <1>3, <1>4, <1>5, <2>1 DEF Past
  <2>3. QED
    BY <1>1, <1>2, <2>2 DEF Past
<1>8. Unique'
  <2>1. ASSUME Task = "exec"
        PROVE  /\ \A i \in DOMAIN pending : pending[i][1] = op => pending[i][2] # "exec"
               /\ \A pid \in DOMAIN programs :
                    programs[pid].op = op => programs[pid].name # Head(tasks)[2]
    <3>1. \A i \in DOMAIN pending : pending[i][1] = op => pending[i][2] # "exec"
      BY <1>2 DEF Behind
    <3>2. ASSUME NEW pid \in DOMAIN programs, programs[pid].op = op,
                 programs[pid].name = Head(tasks)[2]
          PROVE  FALSE
      BY <1>2, <2>1, <3>2, StartedOnce
    <3>3. QED
      BY <3>1, <3>2
  <2>2. ASSUME NEW i \in DOMAIN pending', NEW j \in DOMAIN pending',
               pending'[i][2] = "exec", pending'[j] = pending'[i]
        PROVE  i = j
    BY <1>2, <1>3, <1>5, <2>1, <2>2 DEF Unique
  <2>3. ASSUME NEW p \in DOMAIN programs, NEW i \in DOMAIN pending', pending'[i][2] = "exec",
               programs[p].op = pending'[i][1], programs[p].name = pending'[i][3]
        PROVE  FALSE
    BY <1>2, <1>3, <1>5, <2>1, <2>3 DEF Unique
  <2>4. QED
    BY <1>2, <2>2, <2>3 DEF Unique
<1>9. Behind'
  <2> SUFFICES ASSUME result' = "running"
               PROVE  \A i \in DOMAIN pending' : pending'[i][1] = op => pending'[i][2] # "exec"
    BY <1>1, Zenon DEF Behind
  <2>1. result = "running" /\ Task = "write"
    BY <1>1
  <2>2. QED
    BY <1>2, <1>3, <1>5, <2>1 DEF Behind
<1>10. Awaited'
  <2> SUFFICES ASSUME result' = "running"
               PROVE  /\ Head(tasks')[1] # "poll"
                      /\ kind \in Waiting => \A pid \in DOMAIN programs :
                           ~(programs[pid].op = op /\ programs[pid].exit = "none")
    BY <1>1, Zenon DEF Awaited, Task
  <2>1. Task = "write" /\ Head(tasks')[1] = "close"
    BY <1>1
  <2>2. QED
    BY <1>2, <2>1 DEF Awaited
<1>11. Begun'
  <2>1. result' = "running" => kind' = "write"
    BY <1>1
  <2>2. QED
    BY <1>1, <2>1, Zenon DEF Begun
<1>12. Chowned'
  BY <1>2 DEF Chowned
<1>13. Writing'
  BY <1>1 DEF Writing
<1>14. QED
  BY <1>1, <1>6, <1>7, <1>8, <1>9, <1>10, <1>11, <1>12, <1>13 DEF GuestInv

\* An operation begins with nothing of its own in the guest.
LEMMA AskKeeps ==
  ASSUME GuestInv, NEW operation \in Operations, Ask(operation) PROVE GuestInv'
<1>1. GuestType /\ Past /\ Unique /\ Chowned
  BY DEF GuestInv
<1>2. /\ op' = op + 1 /\ kind' = operation /\ tasks' = TasksOf(operation) /\ polling' = 0
      /\ failed' = FALSE /\ result' = "running"
      /\ cached' = cached /\ pending' = pending /\ programs' = programs
      /\ session' = session /\ file' = file
  BY DEF Ask
<1> DEFINE s == TasksOf(operation)
<1>3. /\ IsSuffix(operation, s) /\ TaskAt(operation, Len(s) - 1)[1] \in {"ping", "exec"}
      /\ operation = "write" => Len(s) >= Chunks + 6
  BY TasksOfIsSuffix
<1> HIDE DEF s
<1>4. /\ s \in Seq(TaskKinds \X (Names \cup {"none"})) /\ Len(s) \in Nat /\ Len(s) >= 1
      /\ Head(s) = TaskAt(operation, Len(s) - 1)
      /\ Longest(operation) \in Nat /\ Len(s) - 1 \in 0 .. Longest(operation)
  BY <1>3, TailIsSuffix, LongestType DEF IsSuffix
<1>5. tasks' = s
  BY <1>2 DEF s
<1>6. GuestType'
  <2>1. failed' \in BOOLEAN
    BY <1>2, Zenon
  <2>2. op' \in Nat /\ polling' \in Nat /\ result' \in {"running", "ok", "raised"}
    BY <1>1, <1>2 DEF GuestType
  <2>3. QED
    BY <1>1, <1>2, <1>4, <1>5, <2>1, <2>2, Zenon DEF GuestType
<1>7. Remaining'
  BY <1>2, <1>3, <1>5 DEF Remaining, IsSuffix, TaskAt, Longest
<1>8. /\ \A pid \in DOMAIN programs : programs[pid].op # op + 1
      /\ \A i \in DOMAIN pending : pending[i][1] # op + 1
  BY <1>1 DEF GuestType, Past, Calls
<1>9. Past'
  <2>1. \A pid \in DOMAIN programs : programs[pid].op <= op + 1
    <3> DEFINE R == [op : Nat, name : Names, exit : {"none", "zero", "nonzero"}]
    <3>1. op \in Nat /\ programs \in Seq(R)
      BY <1>1 DEF GuestType
    <3>2. \A r \in R : r.op \in Nat
      OBVIOUS
    <3> HIDE DEF R
    <3>3. \A pid \in DOMAIN programs : programs[pid].op \in Nat
      BY <3>1, <3>2
    <3>4. \A pid \in DOMAIN programs : programs[pid].op <= op
      BY <1>1 DEF Past
    <3>5. QED
      BY <3>1, <3>3, <3>4
  <2>2. \A i \in DOMAIN pending : pending[i][1] <= op + 1
    BY <1>1 DEF GuestType, Past, Calls
  <2>3. QED
    BY <1>1, <1>2, <2>1, <2>2 DEF Past
<1>10. Unique'
  BY <1>1, <1>2 DEF Unique
<1>11. Behind'
  BY <1>2, <1>8 DEF Behind
<1>12. Awaited'
  <2>1. Head(tasks')[1] # "poll"
    BY <1>3, <1>4, <1>5
  <2>2. QED
    BY <1>2, <1>8, <2>1 DEF Awaited, Task
<1>13. Begun'
  <2>1. operation \in {"run", "query"} => Len(s) # 1
    <3> SUFFICES ASSUME operation \in {"run", "query"}, Len(s) = 1 PROVE FALSE
      OBVIOUS
    <3>1. Len(s) - 1 = 0
      OBVIOUS
    <3>2. TaskAt(operation, 0) = <<"poll", "program">>
      BY ShortTasks
    <3>3. QED
      BY <1>3, <3>1, <3>2
  <2>2. result' # "ok" /\ (kind' \in {"run", "query"} => Len(tasks') # 1)
    BY <1>2, <1>5, <2>1
  <2>3. QED
    BY <2>2, Zenon DEF Begun
<1>14. Chowned'
  BY <1>1, <1>2 DEF Chowned
<1>15. Writing'
  <2>1. operation = "write" => ~(Len(s) <= Chunks + 3)
    BY <1>3, <1>4, GuestAssumption
  <2>2. QED
    BY <1>2, <1>5, <2>1 DEF Writing
<1>16. QED
  BY <1>6, <1>7, <1>9, <1>10, <1>11, <1>12, <1>13, <1>14, <1>15 DEF GuestInv

LEMMA CallRefusedKeeps ==
  ASSUME GuestInv, CallRefused PROVE GuestInv'
<1>1. polling \in Nat /\ cached \in BOOLEAN
  BY DEF GuestInv, GuestType
<1>2. QED
  BY <1>1, RaisingKeeps DEF CallRefused, Calling

LEMMA PollFailsKeeps ==
  ASSUME GuestInv, PollFails PROVE GuestInv'
<1>1. cached \in BOOLEAN
  BY DEF GuestInv, GuestType
<1>2. QED
  BY <1>1, RaisingKeeps DEF PollFails

LEMMA CallAbandonedKeeps ==
  ASSUME GuestInv, CallAbandoned PROVE GuestInv'
<1>1. /\ result = "running" /\ Task # "poll" /\ pending' = Append(pending, Call)
      /\ op' = op /\ kind' = kind /\ polling' = polling /\ cached' = cached
      /\ programs' = programs /\ session' = session /\ file' = file
  BY DEF CallAbandoned, Calling
<1>2. GuestType /\ Remaining /\ Past /\ Unique /\ Behind /\ Awaited /\ Begun /\ Chowned
  BY DEF GuestInv
<1>3. CASE Raise
  BY <1>1, <1>2, <1>3, RaisingKeeps DEF GuestType
<1>4. CASE Retries /\ UNCHANGED <<tasks, failed, result>>
  <2>1. Task = "ping" /\ tasks' = tasks /\ failed' = failed /\ result' = result
    BY <1>4 DEF Retries
  <2>2. kind = "ready"
    <3>1. ~failed /\ Head(tasks) = TaskAt(kind, Len(tasks) - 1)
          /\ Len(tasks) - 1 \in 0 .. Longest(kind) /\ kind \in Operations
      BY <1>1, <1>2, <2>1, CurrentTask DEF GuestType
    <3>2. QED
      BY <2>1, <3>1, KindOfTask DEF Task
  <2>3. Call \in Calls /\ Call[1] = op /\ Call[2] = "ping"
    BY <1>1, <1>2, <2>1, CurrentTask DEF Call, Calls, GuestType, Task
  <2>4. pending \in Seq(Calls) /\ op \in Nat
    BY <1>2 DEF GuestType
  <2> HIDE DEF Call
  <2>5. /\ pending' \in Seq(Calls)
        /\ \A i \in DOMAIN pending' :
             \/ i \in DOMAIN pending /\ pending'[i] = pending[i]
             \/ pending'[i] = Call
    BY <1>1, <2>3, <2>4
  <2>6. GuestType'
    BY <1>1, <1>2, <2>1, <2>5 DEF GuestType
  <2>7. Remaining'
    BY <1>1, <1>2, <2>1 DEF Remaining, IsSuffix, TaskAt, Longest
  <2>8. Past'
    BY <1>1, <1>2, <2>1, <2>3, <2>4, <2>5 DEF Past
  <2>9. Unique'
    <3>1. ASSUME NEW i \in DOMAIN pending', pending'[i][2] = "exec"
          PROVE  i \in DOMAIN pending /\ pending'[i] = pending[i]
      BY <2>3, <2>5, <3>1
    <3>2. QED
      BY <1>1, <1>2, <3>1 DEF Unique
  <2>10. Behind'
    BY <1>1, <1>2, <2>1, <2>3, <2>5 DEF Behind, TaskAt, Longest
  <2>11. Awaited'
    BY <1>1, <1>2, <2>1 DEF Awaited, Task
  <2>12. Begun'
    BY <1>1, <1>2, <2>1 DEF Begun, Mine
  <2>13. Chowned'
    BY <1>1, <1>2 DEF Chowned
  <2>14. Writing'
    BY <1>1, <2>2 DEF Writing
  <2>15. QED
    BY <2>6, <2>7, <2>8, <2>9, <2>10, <2>11, <2>12, <2>13, <2>14 DEF GuestInv
<1>5. QED
  BY <1>3, <1>4 DEF CallAbandoned

\* The answer to an exec: the program runs, and is polled next if it is waited for.
LEMMA ExecAnsweredKeeps ==
  ASSUME GuestInv, CallAnswered, Task = "exec" PROVE GuestInv'
<1>1. /\ result = "running" /\ pending = <<>> /\ CarryOut(Call) /\ Advance
      /\ polling' = Len(programs) + 1
      /\ op' = op /\ kind' = kind /\ failed' = failed /\ cached' = cached /\ pending' = pending
      /\ session' = session
  BY DEF CallAnswered, Calling
<1>2. GuestType /\ Past /\ Unique /\ Behind /\ Awaited /\ Begun /\ Chowned /\ Writing
  BY DEF GuestInv
<1> DEFINE n == Head(tasks)[2]  d == Len(tasks) - 1
           new == [op |-> op, name |-> n, exit |-> "none"]
<1>3. n \in Names /\ ~failed /\ d \in 0 .. Longest(kind) /\ TaskAt(kind, d) = <<"exec", n>>
      /\ kind \in Operations
  <2>1. /\ n \in Names /\ ~failed /\ d \in 0 .. Longest(kind) /\ Head(tasks) = TaskAt(kind, d)
        /\ Head(tasks) \in TaskKinds \X (Names \cup {"none"})
    BY <1>1, CurrentTask
  <2>2. Head(tasks) = <<"exec", n>>
    BY <2>1 DEF Task
  <2>3. QED
    BY <1>2, <2>1, <2>2 DEF GuestType
<1>4. programs' = Append(programs, new) /\ file' = file
  <2>1. Call = <<op, "exec", n>>
    BY DEF Call
  <2>2. Call[1] = op /\ Call[2] = "exec" /\ Call[3] = n
    BY <2>1
  <2>3. programs' = Started(Call) /\ file' = Written(Call)
    BY <1>1 DEF CarryOut
  <2>4. Started(Call) = Append(programs, new)
    BY <2>2, Zenon DEF Started
  <2>5. Written(Call) = file
    BY <2>2, Zenon DEF Written
  <2>6. QED
    BY <2>3, <2>4, <2>5
<1>5. /\ tasks' \in Seq(TaskKinds \X (Names \cup {"none"}))
      /\ result' \in {"running", "ok", "raised"} /\ Remaining'
      /\ result' = "running" => /\ d - 1 \in 0 .. Longest(kind) /\ Len(tasks') = d
                                /\ Head(tasks') = TaskAt(kind, d - 1)
      /\ result' = "ok" => d = 0
      /\ d > 0 => result' = "running"
  <2>1. /\ tasks' \in Seq(TaskKinds \X (Names \cup {"none"}))
        /\ result' \in {"running", "ok", "raised"} /\ Remaining'
        /\ result' = "running" => /\ Len(tasks) - 2 \in 0 .. Longest(kind)
                                  /\ Len(tasks') = Len(tasks) - 1
                                  /\ Head(tasks') = TaskAt(kind, Len(tasks) - 2)
        /\ result' = "ok" => Len(tasks) = 1
    BY <1>1, Advances
  <2>2. Len(tasks) \in Nat /\ (Len(tasks) > 1 => result' = "running")
    BY <1>1, <1>2 DEF GuestType, Advance
  <2>3. d - 1 = Len(tasks) - 2 /\ (d > 0 => Len(tasks) > 1) /\ (Len(tasks) = 1 => d = 0)
    BY <2>2
  <2>4. d > 0 => result' = "running"
    BY <2>2, <2>3
  <2>5. result' = "ok" => d = 0
    BY <2>1, <2>3
  <2>6. result' = "running" => /\ d - 1 \in 0 .. Longest(kind) /\ Len(tasks') = d
                               /\ Head(tasks') = TaskAt(kind, d - 1)
    BY <2>1, <2>3
  <2>7. QED
    BY <2>1, <2>4, <2>5, <2>6
<1> HIDE DEF n, d
<1>6. new \in [op : Nat, name : Names, exit : {"none", "zero", "nonzero"}]
      /\ new.op = op /\ new.name = n /\ new.exit = "none"
  BY <1>2, <1>3 DEF GuestType
<1> HIDE DEF new
<1>7. /\ programs' \in Seq([op : Nat, name : Names, exit : {"none", "zero", "nonzero"}])
      /\ DOMAIN programs' = 1 .. Len(programs) + 1 /\ DOMAIN programs = 1 .. Len(programs)
      /\ Len(programs) \in Nat
      /\ \A pid \in DOMAIN programs : programs'[pid] = programs[pid]
      /\ programs'[Len(programs) + 1] = new
  <2>1. programs \in Seq([op : Nat, name : Names, exit : {"none", "zero", "nonzero"}])
    BY <1>2 DEF GuestType
  <2>2. QED
    BY <1>4, <1>6, <2>1
<1> DEFINE pids == DOMAIN programs  last == Len(programs) + 1
<1>8. /\ \A pid \in DOMAIN programs' : pid = last \/ pid \in pids
      /\ last \in DOMAIN programs' /\ last \notin pids /\ last \in Nat
      /\ \A pid \in pids : pid \in DOMAIN programs'
  BY <1>7
<1> HIDE DEF pids, last
<1>9. /\ \A pid \in pids : programs'[pid] = programs[pid]
      /\ programs'[last] = new /\ pids = DOMAIN programs
  BY <1>7 DEF pids, last
<1>10. polling' = last
  BY <1>1 DEF last
<1>11. GuestType'
  BY <1>1, <1>2, <1>4, <1>5, <1>7, <1>8, <1>10 DEF GuestType
<1>12. Past'
  BY <1>1, <1>2, <1>6, <1>8, <1>9 DEF Past, GuestType
<1>13. Unique'
  <2>1. \A pid \in pids : programs[pid].op = op => programs[pid].name # n
    BY <1>1, <1>9, StartedOnce DEF n
  <2>2. DOMAIN pending = {}
    BY <1>1
  <2>3. ASSUME NEW p \in DOMAIN programs', NEW q \in DOMAIN programs',
               programs'[p].op = programs'[q].op, programs'[p].name = programs'[q].name
        PROVE  p = q
    <3>1. CASE p \in pids /\ q \in pids
      BY <1>2, <1>9, <2>3, <3>1 DEF Unique
    <3>2. CASE p = last /\ q \in pids
      BY <1>6, <1>9, <2>1, <2>3, <3>2
    <3>3. CASE p \in pids /\ q = last
      BY <1>6, <1>9, <2>1, <2>3, <3>3
    <3>4. QED
      BY <1>8, <3>1, <3>2, <3>3
  <2>4. QED
    BY <1>1, <2>2, <2>3, Zenon DEF Unique
<1>14. Behind'
  <2> SUFFICES ASSUME result' = "running"
               PROVE  \A pid \in DOMAIN programs' : programs'[pid].op = op =>
                        \E c \in Len(tasks') .. Longest(kind) :
                          TaskAt(kind, c) = <<"exec", programs'[pid].name>>
    <3>1. DOMAIN pending = {}
      BY <1>1
    <3>2. QED
      BY <1>1, <3>1, Zenon DEF Behind, TaskAt, Longest
  <2>1. Len(tasks') = d /\ d \in Nat /\ Len(tasks) = d + 1 /\ Longest(kind) \in Nat
    <3>1. Len(tasks) \in Nat
      BY <1>2 DEF GuestType
    <3>2. QED
      BY <1>3, <1>5, <3>1, LongestType DEF d
  <2>2. ASSUME NEW pid \in pids, programs'[pid].op = op
        PROVE  \E c \in d .. Longest(kind) : TaskAt(kind, c) = <<"exec", programs'[pid].name>>
    <3>1. PICK c \in Len(tasks) .. Longest(kind) :
                 TaskAt(kind, c) = <<"exec", programs[pid].name>>
      BY <1>1, <1>2, <1>3, <1>9, <2>2 DEF Behind
    <3>2. c \in d .. Longest(kind)
      BY <2>1
    <3>3. QED
      BY <1>9, <3>1, <3>2
  <2>3. d \in d .. Longest(kind) /\ TaskAt(kind, d) = <<"exec", programs'[last].name>>
    BY <1>3, <1>6, <1>9
  <2>4. QED
    BY <1>8, <2>1, <2>2, <2>3
<1>15. Awaited'
  <2>1. ASSUME result' = "running", Head(tasks')[1] = "poll"
        PROVE  n = Head(tasks')[2]
    <3>1. d \in 0 .. Longest(kind) /\ d >= 1 /\ TaskAt(kind, d - 1)[1] = "poll"
          /\ Head(tasks') = TaskAt(kind, d - 1)
      BY <1>3, <1>5, <2>1
    <3>2. TaskAt(kind, d) = <<"exec", TaskAt(kind, d - 1)[2]>>
      BY <1>3, <3>1, ExecBeforePoll
    <3>3. QED
      BY <1>3, <3>1, <3>2
  <2>2. ASSUME kind \in Waiting
        PROVE  result' = "running" /\ Head(tasks')[1] = "poll"
    <3>1. TaskAt(kind, d)[1] = "exec"
      BY <1>3
    <3>2. d >= 1 /\ TaskAt(kind, d - 1) = <<"poll", TaskAt(kind, d)[2]>>
      BY <1>3, <2>2, <3>1, PollAfterExec
    <3>3. QED
      BY <1>3, <1>5, <3>2
  <2>3. ASSUME kind \in Waiting, NEW pid \in pids, programs'[pid].op = op
        PROVE  programs'[pid].exit # "none"
    BY <1>1, <1>2, <1>9, <2>3 DEF Awaited
  <2>4. result' = "running" /\ Head(tasks')[1] = "poll" =>
          /\ last \in DOMAIN programs' /\ programs'[last].op = op
          /\ programs'[last].name = Head(tasks')[2]
    BY <1>6, <1>8, <1>9, <2>1
  <2>5. kind \in Waiting => \A pid \in DOMAIN programs' :
          programs'[pid].op = op /\ programs'[pid].exit = "none" =>
            result' = "running" /\ Head(tasks')[1] = "poll" /\ pid = last
    BY <1>8, <2>2, <2>3
  <2>6. QED
    BY <1>1, <1>10, <2>4, <2>5, Zenon DEF Awaited, Task
<1>16. Begun'
  <2>1. ASSUME \/ kind = "start" /\ result' = "ok"
               \/ kind \in {"run", "query"} /\ result' = "running" /\ Len(tasks') = 1
        PROVE  n = "program"
    <3>1. \/ kind = "start" /\ d = 0
          \/ kind \in {"run", "query"} /\ d = 1
      BY <1>5, <2>1
    <3>2. TaskAt(kind, d) = <<"exec", "program">>
      BY <3>1, ShortTasks
    <3>3. QED
      BY <1>3, <3>2
  <2>2. kind \in {"run", "query"} => result' # "ok"
    <3> SUFFICES ASSUME kind \in {"run", "query"}, result' = "ok" PROVE FALSE
      OBVIOUS
    <3>1. TaskAt(kind, d) = <<"poll", "program">>
      BY <1>5, ShortTasks
    <3>2. QED
      BY <1>3, <3>1
  <2>3. n = "program" => Mine("program")' # {}
    <3>1. n = "program" => last \in Mine("program")'
      BY <1>1, <1>6, <1>8, <1>9 DEF Mine
    <3>2. QED
      BY <3>1, Zenon
  <2>4. QED
    BY <1>1, <2>1, <2>2, <2>3, Zenon DEF Begun
<1>17. Chowned'
  BY <1>2, <1>4, <1>6, <1>8, <1>9 DEF Chowned
<1>18. Writing'
  <2>1. ASSUME kind = "write", d <= Chunks + 3
        PROVE  d = 1
    BY <1>3, <2>1, KindOfTask, GuestAssumption
  <2>2. ASSUME kind = "write", result' = "running", Len(tasks') <= Chunks + 3
        PROVE  Len(tasks) = 2 /\ Len(tasks') = 1
    <3>1. d = 1 /\ Len(tasks') = 1
      BY <1>5, <2>1, <2>2
    <3>2. Len(tasks) \in Nat
      BY <1>2 DEF GuestType
    <3>3. QED
      BY <3>1, <3>2 DEF d
  <2>3. kind = "write" => result' # "ok"
    BY <1>5, <2>1, GuestAssumption
  <2>4. ASSUME kind = "write", Len(tasks) = 2
        PROVE  op \notin file.handles /\ file.content = [i \in 1 .. Chunks |-> op]
    <3>1. 2 <= Chunks + 3 /\ ~(2 >= 3)
      BY GuestAssumption
    <3>2. QED
      BY <1>1, <1>2, <1>3, <2>4, <3>1 DEF Writing
  <2>5. ~(1 >= 3)
    OBVIOUS
  <2>6. QED
    BY <1>1, <1>4, <2>2, <2>3, <2>4, <2>5 DEF Writing
<1>19. QED
  BY <1>5, <1>11, <1>12, <1>13, <1>14, <1>15, <1>16, <1>17, <1>18 DEF GuestInv

\* What a call does to the file: the file it leaves is one, and is no longer the user's
\* only if it was not.
LEMMA WrittenFile ==
  ASSUME file \in [content : Seq(Nat), owner : {"none", "root", "user"}, handles : SUBSET Nat],
         NEW call, call[1] \in Nat
  PROVE  /\ Written(call) \in
              [content : Seq(Nat), owner : {"none", "root", "user"}, handles : SUBSET Nat]
         /\ file.owner = "user" => Written(call).owner = "user"
<1> DEFINE n == call[1]
<1>1. file.content \in Seq(Nat) /\ file.owner \in {"none", "root", "user"}
      /\ file.handles \in SUBSET Nat
  OBVIOUS
<1>2. CASE call[2] = "open"
  <2>1. <<>> \in Seq(Nat) /\ file.handles \cup {n} \in SUBSET Nat
    BY <1>1
  <2> DEFINE owner == IF file.owner = "none" THEN "root" ELSE file.owner
  <2>2. owner \in {"none", "root", "user"} /\ (file.owner = "user" => owner = "user")
    BY <1>1
  <2>3. Written(call) = [content |-> <<>>, owner |-> owner, handles |-> file.handles \cup {n}]
    BY <1>2, Zenon DEF Written
  <2> HIDE DEF owner
  <2>4. QED
    BY <2>1, <2>2, <2>3
<1>3. CASE call[2] = "write" /\ n \in file.handles
  <2> DEFINE c == Append(file.content, n)
  <2>1. c \in Seq(Nat)
    BY <1>1
  <2>2. Written(call) = [file EXCEPT !.content = c]
    BY <1>3, Zenon DEF Written
  <2> HIDE DEF c
  <2>3. QED
    BY <2>1, <2>2
<1>4. CASE call[2] = "close"
  <2>1. Written(call) = [file EXCEPT !.handles = @ \ {n}]
    BY <1>4, Zenon DEF Written
  <2>2. QED
    BY <1>1, <2>1
<1>5. CASE call[2] \notin {"open", "close"} /\ ~(call[2] = "write" /\ n \in file.handles)
  <2>1. Written(call) = file
    BY <1>5, Zenon DEF Written
  <2>2. QED
    BY <2>1
<1>6. QED
  BY <1>2, <1>3, <1>4, <1>5

\* An answer that starts no program: the ping's, and those of the file.
LEMMA OtherAnsweredKeeps ==
  ASSUME GuestInv, CallAnswered, Task # "exec" PROVE GuestInv'
<1>1. /\ result = "running" /\ Task # "poll" /\ pending = <<>> /\ CarryOut(Call) /\ Advance
      /\ polling' = polling
      /\ op' = op /\ kind' = kind /\ failed' = failed /\ cached' = cached /\ pending' = pending
      /\ session' = session
  BY DEF CallAnswered, Calling
<1>2. GuestType /\ Past /\ Unique /\ Behind /\ Awaited /\ Begun /\ Chowned /\ Writing
  BY DEF GuestInv
<1> DEFINE d == Len(tasks) - 1
<1>3. /\ Task \in {"ping", "open", "write", "close"}
      /\ kind \in Operations /\ op \in Nat
      /\ ~failed => d \in 0 .. Longest(kind) /\ TaskAt(kind, d)[1] = Task
      /\ failed => kind = "write" /\ Len(tasks) = 1
      /\ Len(tasks) \in Nat /\ Len(tasks) = d + 1
  <2>1. /\ Head(tasks) \in TaskKinds \X (Names \cup {"none"})
        /\ ~failed => d \in 0 .. Longest(kind) /\ Head(tasks) = TaskAt(kind, d)
        /\ failed => kind = "write" /\ Len(tasks) = 1
    BY <1>1, CurrentTask
  <2>2. Task \in TaskKinds
    BY <2>1 DEF Task
  <2>3. Task \in {"ping", "open", "write", "close"}
    BY <1>1, <2>2 DEF TaskKinds
  <2>4. kind \in Operations /\ op \in Nat /\ Len(tasks) \in Nat
    BY <1>2 DEF GuestType
  <2>5. Len(tasks) = d + 1
    BY <2>4
  <2>6. QED
    BY <2>1, <2>3, <2>4, <2>5 DEF Task
<1>4. Call[1] = op /\ Call[2] = Task
  BY DEF Call
<1>5. programs' = programs /\ file' = Written(Call)
  <2>1. programs' = Started(Call) /\ file' = Written(Call)
    BY <1>1 DEF CarryOut
  <2>2. Started(Call) = programs
    BY <1>1, <1>4 DEF Started
  <2>3. QED
    BY <2>1, <2>2
<1>6. /\ Task = "open" => file' = [content |-> <<>>,
                                   owner |-> IF file.owner = "none" THEN "root" ELSE file.owner,
                                   handles |-> file.handles \cup {op}]
      /\ Task = "write" =>
           file' = IF op \in file.handles THEN [file EXCEPT !.content = Append(@, op)] ELSE file
      /\ Task = "close" => file' = [file EXCEPT !.handles = @ \ {op}]
      /\ Task = "ping" => file' = file
  BY <1>4, <1>5, Zenon DEF Written
<1>7. file \in [content : Seq(Nat), owner : {"none", "root", "user"}, handles : SUBSET Nat]
  BY <1>2 DEF GuestType
<1>8. /\ file' \in [content : Seq(Nat), owner : {"none", "root", "user"}, handles : SUBSET Nat]
      /\ file.owner = "user" => file'.owner = "user"
  <2>1. Call[1] \in Nat
    BY <1>3, <1>4
  <2> HIDE DEF Call
  <2>2. QED
    BY <1>5, <1>7, <2>1, WrittenFile
<1>9. /\ tasks' \in Seq(TaskKinds \X (Names \cup {"none"}))
      /\ result' \in {"running", "ok", "raised"} /\ Remaining'
      /\ result' = "running" => /\ ~failed /\ d - 1 \in 0 .. Longest(kind) /\ Len(tasks') = d
                                /\ Head(tasks') = TaskAt(kind, d - 1)
      /\ result' = "ok" => ~failed /\ d = 0
  <2>1. /\ tasks' \in Seq(TaskKinds \X (Names \cup {"none"}))
        /\ result' \in {"running", "ok", "raised"} /\ Remaining'
        /\ result' = "running" => /\ ~failed /\ Len(tasks) - 2 \in 0 .. Longest(kind)
                                  /\ Len(tasks') = Len(tasks) - 1
                                  /\ Head(tasks') = TaskAt(kind, Len(tasks) - 2)
        /\ result' = "ok" => ~failed /\ Len(tasks) = 1
    BY <1>1, Advances
  <2>2. d - 1 = Len(tasks) - 2 /\ (Len(tasks) = 1 => d = 0)
    BY <1>3
  <2>3. result' = "ok" => ~failed /\ d = 0
    BY <2>1, <2>2
  <2>4. QED
    BY <2>1, <2>2, <2>3
<1> HIDE DEF d
<1>10. ~failed =>
         /\ Task = "write" <=> kind = "write" /\ d \in 3 .. Chunks + 2
         /\ Task = "open" <=> kind = "write" /\ d = Chunks + 3
         /\ Task = "close" <=> kind = "write" /\ d = 2
         /\ Task = "ping" <=> kind = "ready"
  BY <1>3, KindOfTask
<1>11. GuestType'
  BY <1>1, <1>2, <1>5, <1>8, <1>9 DEF GuestType
<1>12. Past'
  BY <1>1, <1>2, <1>5 DEF Past
<1>13. Unique'
  BY <1>1, <1>2, <1>5 DEF Unique
<1>14. Behind'
  <2> SUFFICES ASSUME result' = "running"
               PROVE  \A pid \in DOMAIN programs' : programs'[pid].op = op =>
                        \E c \in Len(tasks') .. Longest(kind) :
                          TaskAt(kind, c) = <<"exec", programs'[pid].name>>
    <3>1. DOMAIN pending = {}
      BY <1>1
    <3>2. QED
      BY <1>1, <3>1, Zenon DEF Behind, TaskAt, Longest
  <2>1. Len(tasks) .. Longest(kind) \subseteq Len(tasks') .. Longest(kind)
    BY <1>3, <1>9
  <2>2. \A pid \in DOMAIN programs : programs[pid].op = op =>
          \E c \in Len(tasks) .. Longest(kind) :
            TaskAt(kind, c) = <<"exec", programs[pid].name>>
    BY <1>1, <1>2, <1>9 DEF Behind
  <2>3. \A pid \in DOMAIN programs : programs[pid].op = op =>
          \E c \in Len(tasks') .. Longest(kind) :
            TaskAt(kind, c) = <<"exec", programs[pid].name>>
    BY <2>1, <2>2, Zenon
  <2>4. QED
    BY <1>5, <2>3
<1>15. Awaited'
  <2>1. ASSUME result' = "running", Head(tasks')[1] = "poll"
        PROVE  FALSE
    <3>1. /\ d \in 0 .. Longest(kind) /\ d >= 1 /\ TaskAt(kind, d - 1)[1] = "poll"
          /\ TaskAt(kind, d)[1] # "exec"
      BY <1>1, <1>3, <1>9, <2>1
    <3>2. TaskAt(kind, d) = <<"exec", TaskAt(kind, d - 1)[2]>>
      BY <1>3, <3>1, ExecBeforePoll
    <3>3. QED
      BY <3>1, <3>2
  <2>2. kind \in Waiting => \A pid \in DOMAIN programs :
          ~(programs[pid].op = op /\ programs[pid].exit = "none")
    BY <1>1, <1>2 DEF Awaited
  <2>3. QED
    BY <1>1, <1>5, <2>1, <2>2, Zenon DEF Awaited, Task
<1>16. Begun'
  <2>1. kind \in {"ready", "write"}
    BY <1>3, <1>10
  <2>2. QED
    BY <1>1, <2>1 DEF Begun
<1>17. Chowned'
  BY <1>2, <1>5, <1>8 DEF Chowned
<1>18. Writing'
  <2> SUFFICES ASSUME kind = "write", ~failed, result' = "running" \/ result' = "ok"
               PROVE  /\ Len(tasks') = d /\ result' = "running"
                      /\ op \in file'.handles <=> d >= 3
                      /\ file'.content = [i \in 1 .. (IF d >= 3 THEN Chunks + 3 - d ELSE Chunks)
                                            |-> op]
    BY <1>1, <1>9, Zenon DEF Writing
  <2>1. d # 0 /\ d \in {2, Chunks + 3} \cup 3 .. Chunks + 2 /\ Task # "ping"
    BY <1>3, <1>10, GuestAssumption
  <2>2. Len(tasks') = d /\ result' = "running"
    BY <1>9, <2>1
  <2>3. ASSUME d <= Chunks + 2
        PROVE  /\ op \in file.handles <=> d + 1 >= 3
               /\ file.content = [i \in 1 .. (IF d + 1 >= 3 THEN Chunks + 3 - (d + 1) ELSE Chunks)
                                    |-> op]
    <3>1. Len(tasks) <= Chunks + 3
      BY <1>3, <2>1, <2>3, GuestAssumption
    <3>2. QED
      BY <1>1, <1>2, <1>3, <3>1 DEF Writing
  <2>4. CASE Task = "open"
    <3>1. d = Chunks + 3
      BY <1>10, <2>4
    <3>2. file'.content = <<>> /\ file'.handles = file.handles \cup {op}
      BY <1>6, <2>4
    <3>3. d >= 3 /\ 1 .. (Chunks + 3 - d) = {}
      BY <3>1, GuestAssumption
    <3>4. <<>> = [i \in 1 .. (Chunks + 3 - d) |-> op]
      BY <3>3
    <3>5. QED
      BY <2>2, <3>2, <3>3, <3>4
  <2>5. CASE Task = "write"
    <3>1. d \in 3 .. Chunks + 2
      BY <1>10, <2>5
    <3> DEFINE m == Chunks + 3 - (d + 1)
    <3>2. d >= 3 /\ d + 1 >= 3 /\ d <= Chunks + 2 /\ m \in Nat /\ Chunks + 3 - d = m + 1
      BY <3>1, GuestAssumption
    <3>3. op \in file.handles /\ file.content = [i \in 1 .. m |-> op]
      BY <2>3, <3>2
    <3>4. file'.content = Append(file.content, op) /\ file'.handles = file.handles
      BY <1>6, <1>7, <2>5, <3>3
    <3> HIDE DEF m
    <3>5. Append([i \in 1 .. m |-> op], op) = [i \in 1 .. m + 1 |-> op]
      BY <1>3, <3>2
    <3>6. QED
      BY <2>2, <3>2, <3>3, <3>4, <3>5
  <2>6. CASE Task = "close"
    <3>1. d = 2
      BY <1>10, <2>6
    <3>2. file'.content = file.content /\ file'.handles = file.handles \ {op}
      BY <1>6, <1>7, <2>6
    <3>3. d <= Chunks + 2 /\ d + 1 >= 3 /\ Chunks + 3 - (d + 1) = Chunks /\ ~(d >= 3)
      BY <3>1, GuestAssumption
    <3>4. file.content = [i \in 1 .. Chunks |-> op]
      BY <2>3, <3>3
    <3>5. QED
      BY <2>2, <3>2, <3>3, <3>4
  <2>7. QED
    BY <1>3, <2>1, <2>4, <2>5, <2>6
<1>19. QED
  BY <1>9, <1>11, <1>12, <1>13, <1>14, <1>15, <1>16, <1>17, <1>18 DEF GuestInv

\* A poll that is answered: the program has ended.
LEMMA PollAnsweredKeeps ==
  ASSUME GuestInv, NEW seen \in BOOLEAN, PollAnswered(seen) PROVE GuestInv'
<1>1. /\ result = "running" /\ Task = "poll" /\ pending = <<>>
      /\ programs[polling].exit # "none"
      /\ polling' = 0 /\ cached' = (cached \/ seen)
      /\ op' = op /\ kind' = kind /\ pending' = pending /\ programs' = programs
      /\ session' = session /\ file' = file
  BY DEF PollAnswered
<1>2. GuestType /\ Past /\ Unique /\ Behind /\ Awaited /\ Begun /\ Chowned /\ Writing
  BY DEF GuestInv
<1>3. polling' \in Nat /\ cached' \in BOOLEAN
  <2>1. cached' \in BOOLEAN
    BY <1>1, Zenon
  <2>2. QED
    BY <1>1, <2>1
<1>4. CASE Raise
  BY <1>1, <1>3, <1>4, RaisingKeeps
<1>5. CASE /\ Advance /\ UNCHANGED failed
           /\ ~(Call[3] \in {"mkdir", "chown"} /\ programs[polling].exit # "zero")
  <2> DEFINE d == Len(tasks) - 1
  <2>1. /\ tasks' \in Seq(TaskKinds \X (Names \cup {"none"}))
        /\ result' \in {"running", "ok", "raised"} /\ Remaining'
        /\ result' = "running" => /\ d - 1 \in 0 .. Longest(kind) /\ Len(tasks') = d
                                  /\ Head(tasks') = TaskAt(kind, d - 1)
        /\ result' = "ok" => d = 0
    <3>1. /\ tasks' \in Seq(TaskKinds \X (Names \cup {"none"}))
          /\ result' \in {"running", "ok", "raised"} /\ Remaining'
          /\ result' = "running" => /\ Len(tasks) - 2 \in 0 .. Longest(kind)
                                    /\ Len(tasks') = Len(tasks) - 1
                                    /\ Head(tasks') = TaskAt(kind, Len(tasks) - 2)
          /\ result' = "ok" => Len(tasks) = 1
      BY <1>1, <1>5, Advances
    <3>2. Len(tasks) \in Nat
      BY <1>2 DEF GuestType
    <3>3. d - 1 = Len(tasks) - 2 /\ (Len(tasks) = 1 => d = 0)
      BY <3>2
    <3>4. QED
      BY <3>1, <3>3
  <2>2. ~failed
    <3>1. failed => Task = "close"
      BY <1>1, CurrentTask
    <3>2. QED
      BY <1>1, <3>1
  <2>3. /\ kind \in Operations /\ d \in 0 .. Longest(kind) /\ Head(tasks) = TaskAt(kind, d)
        /\ TaskAt(kind, d)[1] = "poll" /\ Len(tasks) \in Nat /\ Len(tasks) = d + 1
    <3>1. d \in 0 .. Longest(kind) /\ Head(tasks) = TaskAt(kind, d)
      BY <1>1, <2>2, CurrentTask
    <3>2. kind \in Operations /\ Len(tasks) \in Nat
      BY <1>2 DEF GuestType
    <3>3. Len(tasks) = d + 1
      BY <3>2
    <3>4. QED
      BY <1>1, <3>1, <3>2, <3>3 DEF Task
  <2> HIDE DEF d
  <2>4. GuestType'
    <3>1. failed' = failed
      BY <1>5
    <3>2. QED
      BY <1>1, <1>2, <1>3, <2>1, <3>1, Zenon DEF GuestType
  <2>5. Past'
    BY <1>1, <1>2 DEF Past
  <2>6. Unique'
    BY <1>1, <1>2 DEF Unique
  <2>7. Behind'
    <3> SUFFICES ASSUME result' = "running"
                 PROVE  \A pid \in DOMAIN programs' : programs'[pid].op = op =>
                          \E c \in Len(tasks') .. Longest(kind) :
                            TaskAt(kind, c) = <<"exec", programs'[pid].name>>
      <4>1. DOMAIN pending = {}
        BY <1>1
      <4>2. op' = op /\ kind' = kind /\ pending' = pending
        BY <1>1
      <4>3. QED
        BY <4>1, <4>2, Zenon DEF Behind, TaskAt, Longest
    <3>1. Len(tasks) .. Longest(kind) \subseteq Len(tasks') .. Longest(kind)
      BY <2>1, <2>3
    <3>2. \A pid \in DOMAIN programs : programs[pid].op = op =>
            \E c \in Len(tasks) .. Longest(kind) :
              TaskAt(kind, c) = <<"exec", programs[pid].name>>
      BY <1>1, <1>2, <2>2 DEF Behind
    <3>3. \A pid \in DOMAIN programs : programs[pid].op = op =>
            \E c \in Len(tasks') .. Longest(kind) :
              TaskAt(kind, c) = <<"exec", programs[pid].name>>
      BY <3>1, <3>2, Zenon
    <3>4. QED
      BY <1>1, <3>3
  <2>8. Awaited'
    <3>1. ASSUME result' = "running", Head(tasks')[1] = "poll"
          PROVE  FALSE
      <4>1. /\ d \in 0 .. Longest(kind) /\ d >= 1 /\ TaskAt(kind, d - 1)[1] = "poll"
            /\ TaskAt(kind, d)[1] # "exec"
        BY <2>1, <2>3, <3>1
      <4>2. TaskAt(kind, d) = <<"exec", TaskAt(kind, d - 1)[2]>>
        BY <2>3, <4>1, ExecBeforePoll
      <4>3. QED
        BY <4>1, <4>2
    <3>2. kind \in Waiting => \A pid \in DOMAIN programs :
            ~(programs[pid].op = op /\ programs[pid].exit = "none")
      BY <1>1, <1>2 DEF Awaited
    <3>3. QED
      BY <1>1, <3>1, <3>2, Zenon DEF Awaited, Task
  <2>9. Begun'
    <3>1. kind \in {"run", "query"} => d # 1
      <4> SUFFICES ASSUME kind \in {"run", "query"}, d = 1 PROVE FALSE
        OBVIOUS
      <4>1. TaskAt(kind, d) = <<"exec", "program">>
        BY ShortTasks
      <4>2. QED
        BY <2>3, <4>1
    <3>2. kind = "start" => d # 0
      <4> SUFFICES ASSUME kind = "start", d = 0 PROVE FALSE
        OBVIOUS
      <4>1. TaskAt(kind, d) = <<"exec", "program">>
        BY ShortTasks
      <4>2. QED
        BY <2>3, <4>1
    <3>3. kind \in {"run", "query"} /\ d = 0 => Mine("program") # {}
      <4>1. d = 0 => Len(tasks) = 1
        BY <2>3
      <4>2. QED
        BY <1>1, <1>2, <4>1, Zenon DEF Begun
    <3>4. Mine("program")' = Mine("program")
      BY <1>1 DEF Mine
    <3>5. result' = "ok" => d = 0
      BY <2>1
    <3>6. result' = "running" /\ Len(tasks') = 1 => d = 1
      BY <2>1
    <3>7. kind' = "start" => kind = "start"
      BY <1>1
    <3>8. QED
      BY <1>1, <3>1, <3>2, <3>3, <3>4, <3>5, <3>6, <3>7, Zenon DEF Begun
  <2>10. Chowned'
    BY <1>1, <1>2 DEF Chowned
  <2>11. Writing'
    <3>1. ASSUME kind = "write", d <= Chunks + 3 PROVE d = 0
      BY <2>3, <3>1, KindOfTask, GuestAssumption
    <3>2. kind = "write" /\ result' = "running" => ~(Len(tasks') <= Chunks + 3)
      BY <2>1, <3>1
    <3>3. ASSUME kind = "write", result' = "ok"
          PROVE  /\ file.content = [n \in 1 .. Chunks |-> op] /\ op \notin file.handles
                 /\ file.owner = "user"
      <4>1. Len(tasks) = 1 /\ Head(tasks) = <<"poll", "chown">>
        BY <2>1, <2>3, <3>3, WriteTasksInOrder
      <4>2. 1 <= Chunks + 3 /\ ~(1 >= 3)
        BY GuestAssumption
      <4>3. file.content = [n \in 1 .. Chunks |-> op] /\ op \notin file.handles
        BY <1>1, <1>2, <2>2, <3>3, <4>1, <4>2 DEF Writing
      <4>4. /\ polling \in DOMAIN programs /\ programs[polling].name = "chown"
        BY <1>1, <1>2, <4>1 DEF Awaited
      <4>5. programs[polling].exit = "zero"
        <5>1. Call[3] = "chown"
          BY <4>1 DEF Call
        <5>2. QED
          BY <1>5, <5>1
      <4>6. QED
        BY <1>2, <4>3, <4>4, <4>5 DEF Chowned
    <3>4. QED
      BY <1>1, <3>2, <3>3 DEF Writing
  <2>12. QED
    BY <2>1, <2>4, <2>5, <2>6, <2>7, <2>8, <2>9, <2>10, <2>11 DEF GuestInv
<1>6. QED
  BY <1>4, <1>5 DEF PollAnswered

\* What was given up and is carried out late is the agent's business only.
LEMMA CarryOutLateKeeps ==
  ASSUME GuestInv, CarryOutLate PROVE GuestInv'
<1>1. /\ pending # <<>> /\ pending' = Tail(pending)
      /\ op' = op /\ kind' = kind /\ tasks' = tasks /\ polling' = polling /\ failed' = failed
      /\ result' = result /\ cached' = cached /\ session' = session
      /\ \/ CarryOut(Head(pending))
         \/ programs' = programs /\ file' = file
  BY DEF CarryOutLate, client
<1>2. /\ GuestType /\ Remaining /\ Past /\ Unique /\ Behind /\ Awaited /\ Begun /\ Chowned
      /\ Writing
  BY DEF GuestInv
<1> DEFINE c == Head(pending)  new == [op |-> c[1], name |-> c[3], exit |-> "none"]
           R == [op : Nat, name : Names, exit : {"none", "zero", "nonzero"}]
<1>3. /\ c \in Calls /\ c = pending[1] /\ 1 \in DOMAIN pending
      /\ pending' \in Seq(Calls)
      /\ \A i \in DOMAIN pending' :
           i + 1 \in DOMAIN pending /\ pending'[i] = pending[i + 1] /\ i + 1 # 1
  <2>1. pending \in Seq(Calls)
    BY <1>2 DEF GuestType
  <2>2. QED
    BY <1>1, <2>1
<1>4. /\ c[2] = "exec" => c[3] \in Names
      /\ c[1] \in Nat /\ c[1] <= op /\ result # "ok"
      /\ result = "running" /\ c[1] = op => c[2] # "exec"
  BY <1>1, <1>2, <1>3 DEF Past, Behind, Calls
<1> HIDE DEF c
<1>5. /\ \/ programs' = programs
         \/ c[2] = "exec" /\ programs' = Append(programs, new)
      /\ \/ file' = file
         \/ file' = Written(c)
  <2>1. CASE CarryOut(c)
    BY <2>1, Zenon DEF CarryOut, Started
  <2>2. CASE programs' = programs /\ file' = file
    BY <2>2
  <2>3. QED
    BY <1>1, <2>1, <2>2 DEF c
<1>6. file \in [content : Seq(Nat), owner : {"none", "root", "user"}, handles : SUBSET Nat]
  BY <1>2 DEF GuestType
<1>7. /\ file' \in [content : Seq(Nat), owner : {"none", "root", "user"}, handles : SUBSET Nat]
      /\ file.owner = "user" => file'.owner = "user"
  BY <1>4, <1>5, <1>6, WrittenFile
<1>8. programs \in Seq(R)
  BY <1>2 DEF GuestType
<1>9. c[2] = "exec" => new \in R /\ new.op = c[1] /\ new.name = c[3] /\ new.exit = "none"
  BY <1>4
<1> DEFINE last == Len(programs) + 1  pids == DOMAIN programs
<1> HIDE DEF new, R
<1>10. /\ programs' \in Seq(R)
       /\ \A pid \in pids : pid \in DOMAIN programs' /\ programs'[pid] = programs[pid]
       /\ \A pid \in DOMAIN programs' :
            \/ pid \in pids
            \/ pid = last /\ c[2] = "exec" /\ programs'[pid] = new
  <2>1. CASE programs' = programs
    <3>1. \A pid \in pids : pid \in DOMAIN programs /\ programs[pid] = programs[pid]
      OBVIOUS
    <3>2. \A pid \in DOMAIN programs : pid \in pids
      OBVIOUS
    <3>3. QED
      BY <1>8, <2>1, <3>1, <3>2, Zenon
  <2>2. CASE c[2] = "exec" /\ programs' = Append(programs, new)
    <3>1. /\ programs' \in Seq(R)
          /\ DOMAIN programs' = 1 .. Len(programs) + 1 /\ DOMAIN programs = 1 .. Len(programs)
          /\ Len(programs) \in Nat
          /\ \A pid \in DOMAIN programs : programs'[pid] = programs[pid]
          /\ programs'[Len(programs) + 1] = new
      BY <1>8, <1>9, <2>2
    <3>2. QED
      BY <2>2, <3>1
  <2>3. QED
    BY <1>5, <2>1, <2>2
<1> HIDE DEF last, pids
<1>11. pids = DOMAIN programs
  BY DEF pids
<1>12. GuestType'
  <2>1. programs' \in Seq([op : Nat, name : Names, exit : {"none", "zero", "nonzero"}])
    BY <1>10 DEF R
  <2>2. QED
    BY <1>1, <1>2, <1>3, <1>7, <2>1, Zenon DEF GuestType
<1>13. Remaining'
  BY <1>1, <1>2 DEF Remaining, IsSuffix, TaskAt, Longest
<1>14. Past'
  <2>1. \A pid \in DOMAIN programs' : programs'[pid].op <= op
    BY <1>2, <1>4, <1>9, <1>10, <1>11 DEF Past
  <2>2. \A i \in DOMAIN pending' : pending'[i][1] <= op
                                   /\ (pending'[i][2] = "exec" => pending'[i][3] \in Names)
    BY <1>2, <1>3 DEF Past
  <2>3. QED
    BY <1>1, <1>4, <2>1, <2>2 DEF Past
<1>15. Unique'
  <2>1. ASSUME NEW i \in DOMAIN pending', NEW j \in DOMAIN pending',
               pending'[i][2] = "exec", pending'[j] = pending'[i]
        PROVE  i = j
    <3>1. i + 1 = j + 1
      BY <1>2, <1>3, <2>1 DEF Unique
    <3>2. i \in Nat /\ j \in Nat
      <4>1. pending' \in Seq(Calls)
        BY <1>3
      <4>2. QED
        BY <4>1
    <3>3. QED
      BY <3>1, <3>2
  <2>2. ASSUME c[2] = "exec", NEW p \in pids, programs[p].op = c[1], programs[p].name = c[3]
        PROVE  FALSE
    BY <1>2, <1>3, <1>11, <2>2 DEF Unique
  <2>3. ASSUME c[2] = "exec", NEW i \in DOMAIN pending', pending'[i][2] = "exec",
               pending'[i][1] = c[1], pending'[i][3] = c[3]
        PROVE  FALSE
    <3>1. i + 1 \in DOMAIN pending /\ pending'[i] = pending[i + 1] /\ i + 1 # 1
          /\ pending'[i] \in Calls
      <4>1. pending' \in Seq(Calls)
        BY <1>3
      <4>2. pending'[i] \in Calls
        BY <4>1
      <4>3. QED
        BY <1>3, <4>2
    <3>2. pending'[i] = c
      <4> DEFINE q == pending'[i]
      <4>1. q \in Calls /\ q[1] = c[1] /\ q[2] = c[2] /\ q[3] = c[3]
        BY <2>3, <3>1
      <4> HIDE DEF q
      <4>2. q = c
        <5>1. q = <<q[1], q[2], q[3]>> /\ c = <<c[1], c[2], c[3]>>
          BY <1>3, <4>1 DEF Calls
        <5>2. QED
          BY <4>1, <5>1, Zenon
      <4>3. QED
        BY <4>2 DEF q
    <3>3. QED
      BY <1>2, <1>3, <2>3, <3>1, <3>2 DEF Unique
  <2>4. ASSUME NEW p \in DOMAIN programs', NEW q \in DOMAIN programs',
               programs'[p].op = programs'[q].op, programs'[p].name = programs'[q].name
        PROVE  p = q
    BY <1>2, <1>9, <1>10, <1>11, <2>2, <2>4 DEF Unique
  <2>5. ASSUME NEW p \in DOMAIN programs', NEW i \in DOMAIN pending', pending'[i][2] = "exec",
               programs'[p].op = pending'[i][1], programs'[p].name = pending'[i][3]
        PROVE  FALSE
    <3>1. CASE p \in pids
      BY <1>2, <1>3, <1>10, <1>11, <2>5, <3>1 DEF Unique
    <3>2. CASE p \notin pids
      BY <1>9, <1>10, <2>3, <2>5, <3>2
    <3>3. QED
      BY <3>1, <3>2
  <2>6. QED
    BY <2>1, <2>4, <2>5, Zenon DEF Unique
<1>16. result = "running" => \A pid \in DOMAIN programs' :
         programs'[pid].op = op => pid \in pids /\ programs'[pid] = programs[pid]
  BY <1>4, <1>9, <1>10
<1>17. Behind'
  <2>1. ASSUME result = "running", ~failed, NEW pid \in DOMAIN programs', programs'[pid].op = op
        PROVE  \E d \in Len(tasks) .. Longest(kind) :
                 TaskAt(kind, d) = <<"exec", programs'[pid].name>>
    BY <1>2, <1>11, <1>16, <2>1 DEF Behind
  <2>2. ASSUME result = "running", NEW i \in DOMAIN pending', pending'[i][1] = op
        PROVE  pending'[i][2] # "exec"
    BY <1>2, <1>3, <2>2 DEF Behind
  <2>3. QED
    BY <1>1, <2>1, <2>2, Zenon DEF Behind, TaskAt, Longest
<1>18. Awaited'
  <2>1. result = "running" /\ Head(tasks)[1] = "poll" =>
          /\ polling \in DOMAIN programs'
          /\ programs'[polling].op = op /\ programs'[polling].name = Head(tasks)[2]
    BY <1>2, <1>10, <1>11 DEF Awaited, Task
  <2>2. ASSUME kind \in Waiting, result = "running", NEW pid \in DOMAIN programs',
               programs'[pid].op = op, programs'[pid].exit = "none"
        PROVE  Head(tasks)[1] = "poll" /\ pid = polling
    BY <1>2, <1>11, <1>16, <2>2 DEF Awaited, Task
  <2>3. QED
    BY <1>1, <1>4, <2>1, <2>2, Zenon DEF Awaited, Task
<1>19. Begun'
  <2>1. Mine("program") \subseteq Mine("program")'
    BY <1>1, <1>10, <1>11 DEF Mine
  <2>2. QED
    BY <1>1, <1>2, <1>4, <2>1 DEF Begun
<1>20. Chowned'
  <2>1. ASSUME NEW pid \in DOMAIN programs', programs'[pid].name = "chown",
               programs'[pid].exit = "zero"
        PROVE  file'.owner = "user"
    BY <1>2, <1>7, <1>9, <1>10, <1>11, <2>1 DEF Chowned
  <2>2. QED
    BY <2>1 DEF Chowned
<1>21. Writing'
  BY <1>1, <1>2, <1>4 DEF Writing
<1>22. QED
  BY <1>12, <1>13, <1>14, <1>15, <1>17, <1>18, <1>19, <1>20, <1>21 DEF GuestInv

\* A program that ends changes its own entry, and the owner at most.
LEMMA ProgramEndsKeeps ==
  ASSUME GuestInv, NEW pid \in DOMAIN programs, NEW exit \in {"zero", "nonzero"},
         ProgramEnds(pid, exit)
  PROVE  GuestInv'
<1>1. /\ programs[pid].exit = "none"
      /\ programs' = [programs EXCEPT ![pid].exit = exit]
      /\ \/ file' = [file EXCEPT !.owner = "user"]
         \/ file' = file /\ ~(programs[pid].name = "chown" /\ exit = "zero")
      /\ op' = op /\ kind' = kind /\ tasks' = tasks /\ polling' = polling /\ failed' = failed
      /\ result' = result /\ cached' = cached /\ session' = session /\ pending' = pending
  BY DEF ProgramEnds, client
<1>2. /\ GuestType /\ Remaining /\ Past /\ Unique /\ Behind /\ Awaited /\ Begun /\ Chowned
      /\ Writing
  BY DEF GuestInv
<1> DEFINE R == [op : Nat, name : Names, exit : {"none", "zero", "nonzero"}]
<1>3. programs \in Seq(R)
  BY <1>2 DEF GuestType
<1>4. /\ programs' \in Seq(R) /\ DOMAIN programs' = DOMAIN programs
      /\ \A p \in DOMAIN programs :
           /\ programs'[p].op = programs[p].op /\ programs'[p].name = programs[p].name
           /\ programs'[p].exit = (IF p = pid THEN exit ELSE programs[p].exit)
  <2> DEFINE new == [programs[pid] EXCEPT !.exit = exit]
  <2>1. programs' = [programs EXCEPT ![pid] = new]
    BY <1>1
  <2>2. programs[pid] \in R
    <3> HIDE DEF R
    <3>1. QED
      BY <1>3
  <2>3. new \in R /\ new.op = programs[pid].op /\ new.name = programs[pid].name /\ new.exit = exit
    BY <2>2
  <2> HIDE DEF new, R
  <2>4. QED
    BY <1>3, <2>1, <2>3
<1>5. file \in [content : Seq(Nat), owner : {"none", "root", "user"}, handles : SUBSET Nat]
  BY <1>2 DEF GuestType
<1>6. /\ file' \in [content : Seq(Nat), owner : {"none", "root", "user"}, handles : SUBSET Nat]
      /\ file'.content = file.content /\ file'.handles = file.handles
      /\ file.owner = "user" => file'.owner = "user"
      /\ programs[pid].name = "chown" /\ exit = "zero" => file'.owner = "user"
  BY <1>1, <1>5
<1>7. GuestType'
  BY <1>1, <1>2, <1>4, <1>6, Zenon DEF GuestType
<1> HIDE DEF R
<1>8. Remaining'
  BY <1>1, <1>2 DEF Remaining, IsSuffix, TaskAt, Longest
<1>9. Past'
  BY <1>1, <1>2, <1>4 DEF Past
<1>10. Unique'
  BY <1>1, <1>2, <1>4 DEF Unique
<1>11. Behind'
  <2>1. ASSUME result = "running", ~failed, NEW p \in DOMAIN programs', programs'[p].op = op
        PROVE  \E d \in Len(tasks) .. Longest(kind) :
                 TaskAt(kind, d) = <<"exec", programs'[p].name>>
    BY <1>2, <1>4, <2>1 DEF Behind
  <2>2. result = "running" => \A i \in DOMAIN pending : pending[i][1] = op => pending[i][2] # "exec"
    BY <1>2 DEF Behind
  <2>3. QED
    BY <1>1, <2>1, <2>2, ZenonT(60) DEF Behind, TaskAt, Longest
<1>12. Awaited'
  <2>1. result = "running" /\ Head(tasks)[1] = "poll" =>
          /\ polling \in DOMAIN programs'
          /\ programs'[polling].op = op /\ programs'[polling].name = Head(tasks)[2]
    BY <1>2, <1>4 DEF Awaited, Task
  <2>2. ASSUME kind \in Waiting, result \in {"running", "ok"}, NEW p \in DOMAIN programs',
               programs'[p].op = op, programs'[p].exit = "none"
        PROVE  result = "running" /\ Head(tasks)[1] = "poll" /\ p = polling
    BY <1>2, <1>4, <2>2 DEF Awaited, Task
  <2>3. QED
    BY <1>1, <2>1, <2>2, Zenon DEF Awaited, Task
<1>13. Begun'
  <2>1. Mine("program")' = Mine("program")
    BY <1>1, <1>4 DEF Mine
  <2>2. QED
    BY <1>1, <1>2, <2>1 DEF Begun
<1>14. Chowned'
  <2>1. ASSUME NEW p \in DOMAIN programs', programs'[p].name = "chown", programs'[p].exit = "zero"
        PROVE  file'.owner = "user"
    BY <1>2, <1>4, <1>6, <2>1 DEF Chowned
  <2>2. QED
    BY <2>1 DEF Chowned
<1>15. Writing'
  BY <1>1, <1>2, <1>6 DEF Writing
<1>16. QED
  BY <1>7, <1>8, <1>9, <1>10, <1>11, <1>12, <1>13, <1>14, <1>15 DEF GuestInv

\* A step that leaves all but the session alone.
LEMMA SessionKeeps ==
  ASSUME GuestInv, session' \in BOOLEAN, UNCHANGED <<client, pending, programs, file>>
  PROVE  GuestInv'
<1>1. /\ op' = op /\ kind' = kind /\ tasks' = tasks /\ polling' = polling /\ failed' = failed
      /\ result' = result /\ cached' = cached /\ pending' = pending /\ programs' = programs
      /\ file' = file
  BY DEF client
<1>2. /\ GuestType /\ Remaining /\ Past /\ Unique /\ Behind /\ Awaited /\ Begun /\ Chowned
      /\ Writing
  BY DEF GuestInv
<1>3. GuestType' /\ Past' /\ Unique' /\ Chowned'
  BY <1>1, <1>2 DEF GuestType, Past, Unique, Chowned
<1>4. Remaining'
  BY <1>1, <1>2 DEF Remaining, IsSuffix, TaskAt, Longest
<1>5. Behind'
  BY <1>1, <1>2 DEF Behind, TaskAt, Longest
<1>6. Awaited' /\ Begun' /\ Writing'
  BY <1>1, <1>2 DEF Awaited, Task, Begun, Mine, Writing
<1>7. QED
  BY <1>3, <1>4, <1>5, <1>6 DEF GuestInv

LEMMA GuestInvInductive == GuestSpec => []GuestInv
<1>1. GuestInit => GuestInv
  <2> SUFFICES ASSUME GuestInit PROVE GuestInv
    OBVIOUS
  <2>1. /\ op = 0 /\ kind = "ready" /\ tasks = <<>> /\ polling = 0 /\ failed = FALSE
        /\ result = "ok" /\ cached = FALSE /\ pending = <<>> /\ programs = <<>>
        /\ session \in BOOLEAN /\ file = [content |-> <<>>, owner |-> "none", handles |-> {}]
    BY DEF GuestInit
  <2>2. GuestType
    <3>1. <<>> \in Seq(TaskKinds \X (Names \cup {"none"})) /\ <<>> \in Seq(Calls)
          /\ <<>> \in Seq([op : Nat, name : Names, exit : {"none", "zero", "nonzero"}])
          /\ <<>> \in Seq(Nat)
      OBVIOUS
    <3>2. file \in [content : Seq(Nat), owner : {"none", "root", "user"}, handles : SUBSET Nat]
      BY <2>1, <3>1
    <3>3. failed \in BOOLEAN /\ cached \in BOOLEAN
      BY <2>1, Zenon
    <3>4. op \in Nat /\ polling \in Nat /\ kind \in Operations
          /\ result \in {"running", "ok", "raised"}
      BY <2>1 DEF Operations
    <3>5. QED
      BY <2>1, <3>1, <3>2, <3>3, <3>4, Zenon DEF GuestType
  <2>3. DOMAIN programs = {} /\ DOMAIN pending = {}
    BY <2>1
  <2>4. Remaining /\ Behind /\ Begun /\ Writing
    BY <2>1 DEF Remaining, Behind, Begun, Writing
  <2>5. Past /\ Unique /\ Awaited /\ Chowned
    BY <2>1, <2>3 DEF Past, Unique, Awaited, Chowned
  <2>6. QED
    BY <2>2, <2>4, <2>5 DEF GuestInv
<1>2. GuestInv /\ [GuestNext]_guestVars => GuestInv'
  <2> SUFFICES ASSUME GuestInv, [GuestNext]_guestVars PROVE GuestInv'
    OBVIOUS
  <2>1. CASE CarryOutLate
    BY <2>1, CarryOutLateKeeps
  <2>2. CASE \E pid \in DOMAIN programs, exit \in {"zero", "nonzero"} : ProgramEnds(pid, exit)
    BY <2>2, ProgramEndsKeeps
  <2>3. CASE SessionStarts \/ UNCHANGED guestVars
    <3>1. session \in BOOLEAN
      BY DEF GuestInv, GuestType
    <3>2. session' \in BOOLEAN /\ UNCHANGED <<client, pending, programs, file>>
      <4>1. CASE SessionStarts
        BY <4>1, Zenon DEF SessionStarts
      <4>2. CASE UNCHANGED guestVars
        BY <3>1, <4>2 DEF guestVars
      <4>3. QED
        BY <2>3, <4>1, <4>2
    <3>3. QED
      BY <3>2, SessionKeeps
  <2>4. CASE \E operation \in Operations : Ask(operation)
    BY <2>4, AskKeeps
  <2>5. CASE CallAnswered
    BY <2>5, ExecAnsweredKeeps, OtherAnsweredKeeps
  <2>6. CASE CallRefused
    BY <2>6, CallRefusedKeeps
  <2>7. CASE CallAbandoned
    BY <2>7, CallAbandonedKeeps
  <2>8. CASE \E seen \in BOOLEAN : PollAnswered(seen)
    BY <2>8, PollAnsweredKeeps
  <2>9. CASE PollFails
    BY <2>9, PollFailsKeeps
  <2>10. QED
    BY <2>1, <2>2, <2>3, <2>4, <2>5, <2>6, <2>7, <2>8, <2>9 DEF GuestNext
<1>3. QED
  BY <1>1, <1>2, PTL DEF GuestSpec

\* A write_file (guest.py) that returns has left exactly its own chunks in the file,
\* closed its handle and given the file to the user, whatever was abandoned before.
THEOREM GuestWritesWhole == GuestSpec => []WrittenIsWhole
<1>1. GuestInv => WrittenIsWhole
  BY DEF GuestInv, Writing, WrittenIsWhole
<1>2. QED
  BY <1>1, GuestInvInductive, PTL

\* exec, start and run_as_user never start their program twice, and do not return
\* before it was started and, where they wait for it, has ended.
THEOREM GuestRunsOnce == GuestSpec => []OnlyAbandonedRun
<1>1. GuestInv => OnlyAbandonedRun
  <2> SUFFICES ASSUME GuestInv PROVE OnlyAbandonedRun
    OBVIOUS
  <2>1. Unique /\ Awaited /\ Begun
    BY DEF GuestInv
  <2>2. QED
    BY <2>1 DEF Unique, Awaited, Begun, Waiting, OnlyAbandonedRun
<1>2. QED
  BY <1>1, GuestInvInductive, PTL
=============================================================================
