--------------------------- MODULE UdpPeerProof ----------------------------
(***************************************************************************)
(* Proofs about UdpPeer, for any number of senders, packets and tries: its *)
(* types, that an acknowledgement is never a false one, that packets       *)
(* overtake only dropped ones, that events and datagrams match, that only  *)
(* resends make copies, and that the peers implement AtLeastOnce.          *)
(***************************************************************************)
EXTENDS UdpPeer, FiniteSetTheorems, TLAPS

\* Where the receiver has a packet once it has acknowledged it.
Taken(p) ==
  Holds(popped, p) \/ Holds(receivedQueue, p) \/ (rpc = "queue" /\ hand = p)

\* The packet a sender works on has been taken from its queue, and the queue holds
\* the packets that follow it.
Numbered ==
  \A s \in Senders :
    /\ spc[s] \in {"send", "wait"} => cur[s] > 0
    /\ given[s] = cur[s] + Len(sendQueue[s])
    /\ \A i \in 1..Len(sendQueue[s]) : sendQueue[s][i] = cur[s] + i

\* What is in the socket, in the receiver's hand or acknowledged comes from a
\* packet that was sent.
Sourced ==
  /\ \A p \in Packets :
       net[p] > 0 \/ reads[p] > 0 \/ Holds(socket, p) => attempts[p] > 0
  /\ rpc = "decode" => hand \in Packets /\ reads[hand] > 0

\* Acknowledgements under way and acknowledgements heard are about packets that
\* the receiver has.
Acknowledged ==
  \A p \in Packets : acks[p] > 0 \/ p \in acked => Taken(p) /\ reads[p] > 0

\* A sender has sent nothing beyond its current packet, has settled everything
\* before it, and has not settled the one it is working on.
Busy(s) == spc[s] \in {"send", "wait"}
Settled == acked \cup dropped
OneAtATime ==
  \A s \in Senders : \A n \in 1..MaxPackets :
    /\ attempts[<<s, n>>] > 0 => n <= cur[s]
    /\ <<s, n>> \in Settled => attempts[<<s, n>>] > 0 /\ ~(Busy(s) /\ n = cur[s])
    /\ attempts[<<s, n>>] > 0 /\ <<s, n>> \notin Settled
         => n = cur[s] /\ (Busy(s) \/ spc[s] = "crashed")
    /\ spc[s] = "wait" /\ n = cur[s] => attempts[<<s, n>>] > 0

PeerInv == TypeOK /\ Numbered /\ Sourced /\ Acknowledged /\ OneAtATime

-----------------------------------------------------------------------------
\* A sequence holds what was appended to it, and keeps holding the rest.
LEMMA HoldsAppend ==
  ASSUME NEW S, NEW q \in Seq(S), NEW x \in S, NEW p
  PROVE  Holds(Append(q, x), p) <=> Holds(q, p) \/ x = p
<1>1. Append(q, x) \in Seq(S) /\ Len(Append(q, x)) = Len(q) + 1
      /\ \A i \in 1..Len(q) : Append(q, x)[i] = q[i]
  OBVIOUS
<1>2. Append(q, x)[Len(q) + 1] = x
  OBVIOUS
<1> DEFINE n == Len(q)
<1>3. n \in Nat
  OBVIOUS
<1>4. 1..(n + 1) = 1..n \cup {n + 1}
  BY <1>3
<1> QED
  BY <1>1, <1>2, <1>3, <1>4 DEF Holds

\* A sequence holds its head and what its tail holds.
LEMMA HoldsTail ==
  ASSUME NEW S, NEW q \in Seq(S), q # <<>>, NEW p
  PROVE  Holds(q, p) <=> Holds(Tail(q), p) \/ Head(q) = p
<1> DEFINE n == Len(q)
<1>1. n \in Nat /\ n > 0 /\ Head(q) = q[1]
  OBVIOUS
<1>2. Len(Tail(q)) = n - 1 /\ \A i \in 1..(n - 1) : Tail(q)[i] = q[i + 1]
  OBVIOUS
<1> HIDE DEF n
<1>3. ASSUME Holds(Tail(q), p) PROVE Holds(q, p)
  <2>1. PICK i \in 1..(n - 1) : Tail(q)[i] = p
    BY <1>2, <1>3 DEF Holds
  <2>2. i + 1 \in 1..n /\ q[i + 1] = p
    BY <1>1, <1>2, <2>1
  <2> QED
    BY <2>2 DEF Holds, n
<1>4. ASSUME Head(q) = p PROVE Holds(q, p)
  <2>1. 1 \in 1..n /\ q[1] = p
    BY <1>1, <1>4
  <2> QED
    BY <2>1 DEF Holds, n
<1>5. ASSUME Holds(q, p), Head(q) # p PROVE Holds(Tail(q), p)
  <2>1. PICK i \in 1..n : q[i] = p
    BY <1>5 DEF Holds, n
  <2>2. i # 1
    BY <1>1, <1>5, <2>1
  <2>3. i - 1 \in 1..(n - 1) /\ (i - 1) + 1 = i
    BY <1>1, <2>1, <2>2
  <2>4. Tail(q)[i - 1] = p
    BY <1>2, <2>1, <2>3
  <2> QED
    BY <1>2, <2>3, <2>4 DEF Holds
<1> QED
  BY <1>3, <1>4, <1>5

\* The initial state satisfies the invariant.
LEMMA PeerInit == Init => PeerInv
<1> SUFFICES ASSUME Init PROVE PeerInv
  OBVIOUS
<1> USE PeersAssumption, NumbersAssumption
<1>1. TypeOK
  <2>1. 0 \in 0..MaxPackets /\ 0 \in 0..MaxTries /\ 0 \in Nat /\ Default \in Entries
    BY DEF Entries
  <2>2. \A S : <<>> \in Seq(S)
    OBVIOUS
  <2>3. /\ sendQueue \in [Senders -> Seq(1..MaxPackets)]
        /\ socket \in Seq(Packets) /\ receivedQueue \in Seq(Entries)
        /\ popped \in Seq(Entries)
    BY <2>2 DEF Init
  <2>4. /\ connected \in [Senders \cup {Receiver} -> BOOLEAN]
        /\ spc \in [Senders -> {"loop", "enter", "send", "wait", "done", "crashed"}]
        /\ rpc \in {"loop", "poll", "read", "decode", "queue", "done", "crashed"}
    BY DEF Init
  <2>5. /\ cur \in [Senders -> 0..MaxPackets] /\ tries \in [Senders -> 0..MaxTries]
        /\ given \in [Senders -> 0..MaxPackets]
    BY <2>1 DEF Init
  <2> QED
    BY <2>1, <2>3, <2>4, <2>5 DEF Init, TypeOK
<1>2. Numbered /\ OneAtATime
  BY DEF Init, Numbered, OneAtATime, Packets, Settled, Busy
<1>3. Sourced /\ Acknowledged
  BY DEF Init, Sourced, Acknowledged, Holds
<1> QED
  BY <1>1, <1>2, <1>3 DEF PeerInv

\* Every step keeps the types.
LEMMA PeerTypeStep ==
  ASSUME TypeOK, Numbered, Sourced, Next
  PROVE  TypeOK'
<1> USE PeersAssumption, NumbersAssumption DEF TypeOK, Goto, senderVars, wireVars, receiverVars
<1>1. ASSUME NEW s \in Senders, SendPacket(s)
      PROVE  TypeOK'
  <2>1. given[s] + 1 \in 1..MaxPackets
    BY <1>1 DEF SendPacket
  <2>2. given' = [given EXCEPT ![s] = given[s] + 1] /\ given'[s] = given[s] + 1
    BY <1>1 DEF SendPacket
  <2>3. given' \in [Senders -> 0..MaxPackets]
    BY <2>1, <2>2
  <2>4. Append(sendQueue[s], given'[s]) \in Seq(1..MaxPackets)
    BY <2>1, <2>2
  <2>5. sendQueue' \in [Senders -> Seq(1..MaxPackets)]
    BY <1>1, <2>4 DEF SendPacket
  <2> QED
    BY <1>1, <2>3, <2>5 DEF SendPacket
<1>2. ASSUME NEW s \in Senders, SenderLoop(s)
      PROVE  TypeOK'
  BY <1>2 DEF SenderLoop
<1>3. ASSUME NEW s \in Senders, SenderIdle(s)
      PROVE  TypeOK'
  BY <1>3 DEF SenderIdle
<1>4. ASSUME NEW s \in Senders, SenderTake(s)
      PROVE  TypeOK'
  <2>1. sendQueue[s] \in Seq(1..MaxPackets) /\ sendQueue[s] # <<>>
    BY <1>4 DEF SenderTake
  <2>2. Head(sendQueue[s]) \in 1..MaxPackets /\ Tail(sendQueue[s]) \in Seq(1..MaxPackets)
    BY <2>1
  <2>3. cur' \in [Senders -> 0..MaxPackets] /\ tries' \in [Senders -> 0..MaxTries]
    <3>1. cur' = [cur EXCEPT ![s] = Head(sendQueue[s])]
      BY <1>4 DEF SenderTake
    <3>2. tries' = [tries EXCEPT ![s] = MaxTries] /\ MaxTries \in 0..MaxTries
      BY <1>4 DEF SenderTake
    <3> QED
      BY <2>2, <3>1, <3>2
  <2>4. sendQueue' \in [Senders -> Seq(1..MaxPackets)]
    BY <1>4, <2>2 DEF SenderTake
  <2>5. spc' \in [Senders -> {"loop", "enter", "send", "wait", "done", "crashed"}]
    BY <1>4 DEF SenderTake
  <2> QED
    BY <1>4, <2>1, <2>2, <2>3, <2>4, <2>5 DEF SenderTake
<1>5. ASSUME NEW s \in Senders, Transmit(s)
      PROVE  TypeOK'
  <2>1. Sending(s) \in Packets
    BY <1>5 DEF Transmit, Numbered, Sending, Packets
  <2>2. net[Sending(s)] + 1 \in Nat /\ attempts[Sending(s)] + 1 \in Nat
    BY SMTT(30), <2>1
  <2>3. net' \in [Packets -> Nat] /\ attempts' \in [Packets -> Nat]
    <3>1. net' = [net EXCEPT ![Sending(s)] = net[Sending(s)] + 1]
      BY <1>5 DEF Transmit
    <3>2. attempts' = [attempts EXCEPT ![Sending(s)] = attempts[Sending(s)] + 1]
      BY <1>5 DEF Transmit
    <3> QED
      BY <2>2, <3>1, <3>2
  <2> QED
    BY <1>5, <2>3 DEF Transmit
<1>6. ASSUME NEW s \in Senders, Timeout(s)
      PROVE  TypeOK'
  <2>1. tries[s] \in 0..MaxTries /\ tries[s] >= 1
    BY <1>6 DEF Timeout
  <2>2. tries[s] - 1 \in 0..MaxTries
    BY <2>1
  <2>3. tries' \in [Senders -> 0..MaxTries]
    BY <1>6, <2>2 DEF Timeout
  <2>4. Sending(s) \in Packets
    BY <1>6 DEF Timeout, Numbered, Sending, Packets
  <2>5. dropped' \subseteq Packets
    BY <1>6, <2>4 DEF Timeout
  <2>6. spc' \in [Senders -> {"loop", "enter", "send", "wait", "done", "crashed"}]
    BY <1>6 DEF Timeout
  <2> QED
    BY <1>6, <2>1, <2>2, <2>3, <2>4, <2>5, <2>6 DEF Timeout
<1>7. ASSUME NEW s \in Senders, ReceiveAck(s)
      PROVE  TypeOK'
  <2>1. Sending(s) \in Packets
    BY <1>7 DEF ReceiveAck, Numbered, Sending, Packets
  <2>2. acks[Sending(s)] - 1 \in Nat
    BY <1>7, <2>1 DEF ReceiveAck
  <2>3. acks' \in [Packets -> Nat] /\ acked' \subseteq Packets
    BY <1>7, <2>1, <2>2 DEF ReceiveAck
  <2> QED
    BY <1>7, <2>1, <2>2, <2>3 DEF ReceiveAck
<1>8. ASSUME NEW s \in Senders, SenderThrows(s)
      PROVE  TypeOK'
  BY <1>8 DEF SenderThrows
<1>9. ASSUME NEW s \in Senders, DisconnectSender(s)
      PROVE  TypeOK'
  BY <1>9 DEF DisconnectSender
<1>10. ASSUME NEW p \in Packets, LoseDatagram(p)
      PROVE  TypeOK'
  <2>1. net[p] - 1 \in Nat
    BY <1>10 DEF LoseDatagram
  <2>2. net' \in [Packets -> Nat]
    BY <1>10, <2>1 DEF LoseDatagram
  <2> QED
    BY <1>10, <2>1, <2>2 DEF LoseDatagram
<1>11. ASSUME NEW p \in Packets, LoseAck(p)
      PROVE  TypeOK'
  <2>1. acks[p] - 1 \in Nat
    BY <1>11 DEF LoseAck
  <2>2. acks' \in [Packets -> Nat]
    BY <1>11, <2>1 DEF LoseAck
  <2> QED
    BY <1>11, <2>1, <2>2 DEF LoseAck
<1>12. ASSUME NEW p \in Packets, Arrive(p)
      PROVE  TypeOK'
  <2>1. net[p] - 1 \in Nat
    BY <1>12 DEF Arrive
  <2>2. net' \in [Packets -> Nat]
    BY <1>12, <2>1 DEF Arrive
  <2>3. socket' \in Seq(Packets) /\ ready' \in BOOLEAN /\ coalesced' \in BOOLEAN
    BY <1>12 DEF Arrive
  <2> QED
    BY <1>12, <2>1, <2>2, <2>3 DEF Arrive
<1>13. ASSUME ReceiverLoop
      PROVE  TypeOK'
  BY <1>13 DEF ReceiverLoop
<1>14. ASSUME EpollEvent
      PROVE  TypeOK'
  BY <1>14 DEF EpollEvent
<1>15. ASSUME EpollTimeout
      PROVE  TypeOK'
  BY <1>15 DEF EpollTimeout
<1>16. ASSUME Read
      PROVE  TypeOK'
  <2>1. Head(socket) \in Packets /\ Tail(socket) \in Seq(Packets)
    BY <1>16 DEF Read
  <2>2. reads' \in [Packets -> Nat]
    <3>1. reads[Head(socket)] + 1 \in Nat
      BY <2>1
    <3>2. reads' = [reads EXCEPT ![Head(socket)] = reads[Head(socket)] + 1]
      BY <1>16 DEF Read
    <3> QED
      BY <3>1, <3>2
  <2>3. hand' \in Entries /\ socket' \in Seq(Packets)
    BY <1>16, <2>1 DEF Read, Entries
  <2> QED
    BY <1>16, <2>1, <2>2, <2>3 DEF Read
<1>17. ASSUME ReadFails
      PROVE  TypeOK'
  <2>1. hand' \in Entries
    BY <1>17 DEF ReadFails, Entries
  <2> QED
    BY <1>17, <2>1 DEF ReadFails
<1>18. ASSUME Acknowledge
      PROVE  TypeOK'
  <2>1. acks[hand] + 1 \in Nat
    BY <1>18 DEF Acknowledge, Sourced
  <2>2. acks' \in [Packets -> Nat]
    BY <1>18, <2>1 DEF Acknowledge
  <2> QED
    BY <1>18, <2>2 DEF Acknowledge
<1>19. ASSUME QueuePacket
      PROVE  TypeOK'
  BY <1>19 DEF QueuePacket
<1>20. ASSUME DecodeThrows
      PROVE  TypeOK'
  <2>0. \A S : <<>> \in Seq(S)
    OBVIOUS
  <2>1. socket' \in Seq(Packets) /\ ready' \in BOOLEAN
    BY <1>20, <2>0 DEF DecodeThrows
  <2> QED
    BY <1>20, <2>1 DEF DecodeThrows
<1>21. ASSUME PopReceivedPacket
      PROVE  TypeOK'
  <2>1. receivedQueue \in Seq(Entries) /\ receivedQueue # <<>> /\ popped \in Seq(Entries)
    BY <1>21 DEF PopReceivedPacket
  <2>2. Head(receivedQueue) \in Entries /\ Tail(receivedQueue) \in Seq(Entries)
    BY <2>1
  <2>3. Append(popped, Head(receivedQueue)) \in Seq(Entries)
    BY <2>1, <2>2
  <2>4. receivedQueue' \in Seq(Entries) /\ popped' \in Seq(Entries)
    BY <1>21, <2>2, <2>3 DEF PopReceivedPacket
  <2> QED
    BY <1>21, <2>4 DEF PopReceivedPacket
<1>22. ASSUME DisconnectReceiver
      PROVE  TypeOK'
  <2>0. \A S : <<>> \in Seq(S)
    OBVIOUS
  <2>1. socket' \in Seq(Packets) /\ ready' \in BOOLEAN
    BY <1>22, <2>0 DEF DisconnectReceiver
  <2>2. connected' \in [Senders \cup {Receiver} -> BOOLEAN]
    BY <1>22 DEF DisconnectReceiver
  <2> QED
    BY <1>22, <2>1, <2>2 DEF DisconnectReceiver
<1> QED
  BY <1>1, <1>2, <1>3, <1>4, <1>5, <1>6, <1>7, <1>8, <1>9, <1>10, <1>11, <1>12, <1>13, <1>14, <1>15, <1>16, <1>17, <1>18, <1>19, <1>20, <1>21, <1>22
  DEF Next, SenderNext, ReceiverNext

\* Every step keeps the numbers of the packets in line.
LEMMA NumberedStep ==
  ASSUME TypeOK, Numbered, Next
  PROVE  Numbered'
<1> USE DEF Numbered, Goto, senderVars, wireVars, receiverVars
<1>1. ASSUME NEW s \in Senders, SendPacket(s)
      PROVE  Numbered'
  <2> DEFINE q == sendQueue[s]
             len == Len(q)
  <2>1. q \in Seq(1..MaxPackets) /\ given[s] \in Nat /\ cur[s] \in Nat /\ len \in Nat
    BY DEF TypeOK
  <2>2. given' = [given EXCEPT ![s] = given[s] + 1] /\ given'[s] = given[s] + 1
    BY <1>1 DEF SendPacket, TypeOK
  <2>3. sendQueue' = [sendQueue EXCEPT ![s] = Append(q, given[s] + 1)]
    BY <1>1, <2>2 DEF SendPacket
  <2>4. sendQueue'[s] = Append(q, given[s] + 1)
    BY <2>3 DEF TypeOK
  <2>5. given[s] + 1 \in Nat
    BY <2>1
  <2>6. Len(Append(q, given[s] + 1)) = len + 1
    BY <2>1
  <2>7. \A i \in 1..len : Append(q, given[s] + 1)[i] = q[i]
    BY <2>1
  <2>8. Append(q, given[s] + 1)[len + 1] = given[s] + 1
    BY <2>1
  <2>9. given[s] = cur[s] + len /\ \A i \in 1..len : q[i] = cur[s] + i
    OBVIOUS
  <2> HIDE DEF len
  <2>10. 1..(len + 1) = 1..len \cup {len + 1}
    BY <2>1
  <2>11. /\ given'[s] = cur[s] + Len(sendQueue'[s])
         /\ \A i \in 1..Len(sendQueue'[s]) : sendQueue'[s][i] = cur[s] + i
    <3> DEFINE r == Append(q, given[s] + 1)
    <3>1. given[s] + 1 = cur[s] + (len + 1)
      BY <2>1, <2>9
    <3>2. r[len + 1] = cur[s] + (len + 1) /\ Len(r) = len + 1
      BY <2>6, <2>8, <3>1
    <3>3. \A i \in 1..len : r[i] = cur[s] + i
      BY <2>7, <2>9
    <3> HIDE DEF r
    <3>4. \A i \in 1..(len + 1) : r[i] = cur[s] + i
      BY <2>10, <3>2, <3>3
    <3>5. sendQueue'[s] = r
      BY <2>4 DEF r
    <3> QED
      BY <2>2, <3>1, <3>2, <3>4, <3>5
  <2>12. \A t \in Senders \ {s} : sendQueue'[t] = sendQueue[t] /\ given'[t] = given[t]
    BY <2>2, <2>3 DEF TypeOK
  <2>13. cur' = cur /\ spc' = spc
    BY <1>1 DEF SendPacket
  <2> QED
    BY <2>11, <2>12, <2>13
<1>2. ASSUME NEW s \in Senders, SenderTake(s)
      PROVE  Numbered'
  <2> DEFINE q == sendQueue[s]
             len == Len(q)
  <2>1. q \in Seq(1..MaxPackets) /\ q # <<>> /\ cur[s] \in Nat /\ len \in Nat /\ len > 0
    BY <1>2 DEF TypeOK, SenderTake
  <2>2. Head(q) = q[1]
    BY <2>1
  <2>3. Len(Tail(q)) = len - 1 /\ \A i \in 1..(len - 1) : Tail(q)[i] = q[i + 1]
    BY <2>1
  <2>4. given[s] = cur[s] + len /\ \A i \in 1..len : q[i] = cur[s] + i
    OBVIOUS
  <2>5. cur'[s] = Head(q) /\ sendQueue'[s] = Tail(q)
    BY <1>2 DEF SenderTake, TypeOK
  <2> HIDE DEF len
  <2>6. cur'[s] = cur[s] + 1
    BY <2>1, <2>2, <2>4, <2>5
  <2>7. \A i \in 1..(len - 1) : i + 1 \in 1..len
    BY <2>1
  <2>8. \A i \in 1..(len - 1) : Tail(q)[i] = (cur[s] + 1) + i
    BY <2>1, <2>3, <2>4, <2>7
  <2>9. given[s] = cur'[s] + Len(Tail(q))
    BY <2>1, <2>3, <2>4, <2>6
  <2>10. \A t \in Senders \ {s} :
           sendQueue'[t] = sendQueue[t] /\ cur'[t] = cur[t] /\ spc'[t] = spc[t]
    BY <1>2 DEF SenderTake, TypeOK
  <2>11. given' = given
    BY <1>2 DEF SenderTake
  <2>12. /\ cur'[s] > 0 /\ given'[s] = cur'[s] + Len(sendQueue'[s])
         /\ \A i \in 1..Len(sendQueue'[s]) : sendQueue'[s][i] = cur'[s] + i
    BY <2>1, <2>3, <2>5, <2>6, <2>8, <2>9, <2>11
  <2> QED
    BY <2>10, <2>11, <2>12
<1>3. ASSUME NEW s \in Senders,
             SenderLoop(s) \/ SenderIdle(s) \/ Transmit(s) \/ Timeout(s) \/ ReceiveAck(s)
               \/ SenderThrows(s) \/ DisconnectSender(s)
      PROVE  Numbered'
  <2>1. UNCHANGED <<sendQueue, cur, given>>
    BY <1>3 DEF SenderLoop, SenderIdle, Transmit, Timeout, ReceiveAck, SenderThrows,
                DisconnectSender
  <2>2. \A t \in Senders : spc'[t] \in {"send", "wait"} => spc[t] \in {"send", "wait"}
    BY <1>3 DEF SenderLoop, SenderIdle, Transmit, Timeout, ReceiveAck, SenderThrows,
                DisconnectSender, TypeOK
  <2> QED
    BY <2>1, <2>2
<1>4. ASSUME NEW p \in Packets, LoseDatagram(p) \/ LoseAck(p) \/ Arrive(p)
      PROVE  Numbered'
  BY <1>4 DEF LoseDatagram, LoseAck, Arrive
<1>5. ASSUME ReceiverNext \/ DecodeThrows \/ PopReceivedPacket \/ DisconnectReceiver
      PROVE  Numbered'
  BY <1>5 DEF ReceiverNext, ReceiverLoop, EpollEvent, EpollTimeout, Read, ReadFails,
              Acknowledge, QueuePacket, DecodeThrows, PopReceivedPacket,
              DisconnectReceiver
<1> QED
  BY <1>1, <1>2, <1>3, <1>4, <1>5 DEF Next, SenderNext

\* Every step keeps the origin of what the receiver has.
LEMMA SourcedStep ==
  ASSUME TypeOK, Numbered, Sourced, Next
  PROVE  Sourced'
<1> USE DEF Goto, senderVars, wireVars, receiverVars
<1>1. ASSUME NEW s \in Senders, Transmit(s)
      PROVE  Sourced'
  <2>1. /\ socket' = socket /\ reads' = reads /\ rpc' = rpc /\ hand' = hand
        /\ Sending(s) \in Packets
    BY <1>1 DEF Transmit, Numbered, Sending, Packets, TypeOK
  <2>2. /\ attempts[Sending(s)] \in Nat
        /\ attempts'[Sending(s)] = attempts[Sending(s)] + 1
    BY <1>1, <2>1 DEF Transmit, TypeOK
  <2>3. \A p \in Packets \ {Sending(s)} : net'[p] = net[p] /\ attempts'[p] = attempts[p]
    BY <1>1 DEF Transmit, TypeOK
  <2> QED
    BY <2>1, <2>2, <2>3 DEF Sourced, Holds
<1>2. ASSUME NEW s \in Senders,
             SendPacket(s) \/ SenderLoop(s) \/ SenderIdle(s) \/ SenderTake(s)
               \/ Timeout(s) \/ ReceiveAck(s) \/ SenderThrows(s) \/ DisconnectSender(s)
      PROVE  Sourced'
  <2>1. UNCHANGED <<net, reads, socket, attempts, rpc, hand>>
    BY <1>2 DEF SendPacket, SenderLoop, SenderIdle, SenderTake, Timeout, ReceiveAck,
                SenderThrows, DisconnectSender
  <2> QED
    BY <2>1 DEF Sourced, Holds
<1>3. ASSUME NEW p \in Packets, LoseDatagram(p)
      PROVE  Sourced'
  <2>1. UNCHANGED <<reads, socket, attempts, rpc, hand>> /\ net[p] > 0
    BY <1>3 DEF LoseDatagram
  <2>2. \A r \in Packets \ {p} : net'[r] = net[r]
    BY <1>3 DEF LoseDatagram, TypeOK
  <2> QED
    BY <2>1, <2>2 DEF Sourced, Holds
<1>4. ASSUME NEW p \in Packets, LoseAck(p)
      PROVE  Sourced'
  BY <1>4 DEF LoseAck, Sourced, Holds
<1>5. ASSUME NEW p \in Packets, Arrive(p)
      PROVE  Sourced'
  <2>1. UNCHANGED <<reads, attempts, rpc, hand>> /\ net[p] > 0
    BY <1>5 DEF Arrive
  <2>2. \A r \in Packets \ {p} : net'[r] = net[r]
    BY <1>5 DEF Arrive, TypeOK
  <2>3. socket \in Seq(Packets) /\ socket' = Append(socket, p)
    BY <1>5 DEF Arrive, TypeOK
  <2>4. \A r \in Packets : Holds(socket', r) <=> Holds(socket, r) \/ p = r
    BY <2>3, HoldsAppend
  <2>5. \A r \in Packets : Holds(socket, r)' <=> Holds(socket', r)
    BY DEF Holds
  <2> QED
    BY <2>1, <2>2, <2>4, <2>5 DEF Sourced
<1>6. ASSUME Read
      PROVE  Sourced'
  <2>1. UNCHANGED <<net, attempts>> /\ hand' = Head(socket)
    BY <1>6 DEF Read
  <2>2. socket \in Seq(Packets) /\ socket # <<>> /\ socket' = Tail(socket)
    BY <1>6 DEF Read, TypeOK
  <2>3. Head(socket) \in Packets
    BY <2>2
  <2>4. \A r \in Packets : Holds(socket, r) <=> Holds(socket', r) \/ Head(socket) = r
    BY <2>2, HoldsTail
  <2>5. \A r \in Packets : Holds(socket, r)' <=> Holds(socket', r)
    BY DEF Holds
  <2>6. \A r \in Packets \ {Head(socket)} : reads'[r] = reads[r]
    BY <1>6 DEF Read, TypeOK
  <2>7. reads[Head(socket)] \in Nat /\ reads'[Head(socket)] = reads[Head(socket)] + 1
    BY <1>6, <2>3 DEF Read, TypeOK
  <2>8. reads'[Head(socket)] > 0
    BY <2>7
  <2> QED
    BY <2>1, <2>3, <2>4, <2>5, <2>6, <2>8 DEF Sourced
<1>7. ASSUME \/ ReceiverLoop \/ EpollEvent \/ EpollTimeout \/ ReadFails
             \/ Acknowledge \/ QueuePacket \/ PopReceivedPacket
      PROVE  Sourced'
  <2>1. UNCHANGED <<net, reads, socket, attempts>>
    BY <1>7 DEF ReceiverLoop, EpollEvent, EpollTimeout, ReadFails, Acknowledge,
                QueuePacket, PopReceivedPacket
  <2>2. rpc' = "decode" => rpc = "decode" /\ hand' = hand
    BY <1>7 DEF ReceiverLoop, EpollEvent, EpollTimeout, ReadFails, Acknowledge,
                QueuePacket, PopReceivedPacket
  <2> QED
    BY <2>1, <2>2 DEF Sourced, Holds
<1>8. ASSUME DecodeThrows \/ DisconnectReceiver
      PROVE  Sourced'
  <2>1. UNCHANGED <<net, reads, attempts>> /\ socket' = <<>>
    BY <1>8 DEF DecodeThrows, DisconnectReceiver
  <2>2. rpc' = "decode" => rpc = "decode" /\ hand' = hand
    BY <1>8 DEF DecodeThrows, DisconnectReceiver
  <2>3. \A p \in Packets : ~Holds(socket, p)'
    BY <2>1 DEF Holds
  <2> QED
    BY <2>1, <2>2, <2>3 DEF Sourced
<1> QED
  BY <1>1, <1>2, <1>3, <1>4, <1>5, <1>6, <1>7, <1>8 DEF Next, SenderNext, ReceiverNext

\* What the receiver has taken, it keeps.
LEMMA TakenStep ==
  ASSUME TypeOK, Next, NEW p \in Packets, Taken(p)
  PROVE  Taken(p)'
<1> USE DEF Goto, senderVars, wireVars, receiverVars
<1>1. ASSUME NEW s \in Senders,
             SendPacket(s) \/ SenderNext(s) \/ SenderThrows(s) \/ DisconnectSender(s)
      PROVE  Taken(p)'
  <2>1. UNCHANGED <<popped, receivedQueue, rpc, hand>>
    BY <1>1 DEF SendPacket, SenderNext, SenderLoop, SenderIdle, SenderTake, Transmit,
                Timeout, ReceiveAck, SenderThrows, DisconnectSender
  <2> QED
    BY <2>1 DEF Taken, Holds
<1>2. ASSUME NEW q \in Packets, LoseDatagram(q) \/ LoseAck(q) \/ Arrive(q)
      PROVE  Taken(p)'
  <2>1. UNCHANGED <<popped, receivedQueue, rpc, hand>>
    BY <1>2 DEF LoseDatagram, LoseAck, Arrive
  <2> QED
    BY <2>1 DEF Taken, Holds
<1>3. ASSUME \/ ReceiverLoop \/ EpollEvent \/ EpollTimeout \/ Read \/ ReadFails
             \/ Acknowledge \/ DecodeThrows \/ DisconnectReceiver
      PROVE  Taken(p)'
  <2>1. UNCHANGED <<popped, receivedQueue>>
    BY <1>3 DEF ReceiverLoop, EpollEvent, EpollTimeout, Read, ReadFails, Acknowledge,
                DecodeThrows, DisconnectReceiver
  <2>2. rpc = "queue" => rpc' = "queue" /\ hand' = hand
    BY <1>3 DEF ReceiverLoop, EpollEvent, EpollTimeout, Read, ReadFails, Acknowledge,
                DecodeThrows, DisconnectReceiver
  <2> QED
    BY <2>1, <2>2 DEF Taken, Holds
<1>4. CASE QueuePacket
  <2>1. receivedQueue' = Append(receivedQueue, hand) /\ UNCHANGED popped
    BY <1>4 DEF QueuePacket
  <2>2. receivedQueue \in Seq(Entries) /\ hand \in Entries
    BY DEF TypeOK
  <2>3. Holds(receivedQueue', p) <=> Holds(receivedQueue, p) \/ hand = p
    BY <2>1, <2>2, HoldsAppend
  <2> QED
    BY <2>1, <2>3 DEF Taken, Holds
<1>5. CASE PopReceivedPacket
  <2>1. /\ popped' = Append(popped, Head(receivedQueue))
        /\ receivedQueue' = Tail(receivedQueue) /\ receivedQueue # <<>>
        /\ UNCHANGED <<rpc, hand>>
    BY <1>5 DEF PopReceivedPacket
  <2>2. receivedQueue \in Seq(Entries) /\ popped \in Seq(Entries)
    BY DEF TypeOK
  <2>3. Head(receivedQueue) \in Entries
    BY <2>1, <2>2
  <2>4. Holds(popped', p) <=> Holds(popped, p) \/ Head(receivedQueue) = p
    BY <2>1, <2>2, <2>3, HoldsAppend
  <2>5. Holds(receivedQueue, p) <=> Holds(receivedQueue', p) \/ Head(receivedQueue) = p
    BY <2>1, <2>2, HoldsTail
  <2> QED
    BY <2>1, <2>4, <2>5 DEF Taken, Holds
<1> QED
  BY <1>1, <1>2, <1>3, <1>4, <1>5 DEF Next, ReceiverNext

\* Every step keeps acknowledgements true.
LEMMA AcknowledgedStep ==
  ASSUME TypeOK, Numbered, Sourced, Acknowledged, Next
  PROVE  Acknowledged'
<1> USE DEF Goto, senderVars, wireVars, receiverVars
<1>1. \A p \in Packets : Taken(p) => Taken(p)'
  BY TakenStep
<1>2. \A p \in Packets : reads[p] > 0 => reads'[p] > 0
  <2>1. CASE Read
    <3>1. Head(socket) \in Packets
      BY <2>1 DEF Read, TypeOK
    <3>2. reads[Head(socket)] \in Nat /\ reads'[Head(socket)] = reads[Head(socket)] + 1
      BY <2>1, <3>1 DEF Read, TypeOK
    <3>3. \A p \in Packets \ {Head(socket)} : reads'[p] = reads[p]
      BY <2>1 DEF Read, TypeOK
    <3> QED
      BY <3>2, <3>3
  <2>2. CASE ~Read
    <3>1. UNCHANGED reads
      BY <2>2 DEF Next, SenderNext, ReceiverNext, SendPacket, SenderLoop, SenderIdle,
                  SenderTake, Transmit, Timeout, ReceiveAck, SenderThrows,
                  DisconnectSender, LoseDatagram, LoseAck, Arrive, ReceiverLoop,
                  EpollEvent, EpollTimeout, ReadFails, Acknowledge, QueuePacket,
                  DecodeThrows, PopReceivedPacket, DisconnectReceiver
    <3> QED
      BY <3>1
  <2> QED
    BY <2>1, <2>2
<1>3. ASSUME \A p \in Packets : acks'[p] > 0 \/ p \in acked' => acks[p] > 0 \/ p \in acked
      PROVE  Acknowledged'
  BY <1>1, <1>2, <1>3 DEF Acknowledged
<1>4. ASSUME NEW s \in Senders, ReceiveAck(s)
      PROVE  Acknowledged'
  <2>1. /\ Sending(s) \in Packets /\ acks[Sending(s)] > 0
        /\ acked' = acked \cup {Sending(s)}
    BY <1>4 DEF ReceiveAck, Numbered, Sending, Packets, TypeOK
  <2>2. \A p \in Packets \ {Sending(s)} : acks'[p] = acks[p]
    BY <1>4 DEF ReceiveAck, TypeOK
  <2> QED
    BY <1>3, <2>1, <2>2
<1>5. ASSUME NEW q \in Packets, LoseAck(q)
      PROVE  Acknowledged'
  <2>1. acks[q] > 0 /\ UNCHANGED acked
    BY <1>5 DEF LoseAck
  <2>2. \A p \in Packets \ {q} : acks'[p] = acks[p]
    BY <1>5 DEF LoseAck, TypeOK
  <2> QED
    BY <1>3, <2>1, <2>2
<1>6. CASE Acknowledge
  <2>1. rpc = "decode" /\ rpc' = "queue" /\ UNCHANGED <<hand, acked>>
    BY <1>6 DEF Acknowledge
  <2>2. hand \in Packets /\ reads[hand] > 0
    BY <2>1 DEF Sourced
  <2>3. Taken(hand)'
    BY <2>1 DEF Taken
  <2>4. \A p \in Packets \ {hand} : acks'[p] = acks[p]
    BY <1>6 DEF Acknowledge, TypeOK
  <2> QED
    BY <1>1, <1>2, <2>1, <2>2, <2>3, <2>4 DEF Acknowledged
<1>7. CASE UNCHANGED <<acks, acked>>
  BY <1>3, <1>7
<1> QED
  BY <1>4, <1>5, <1>6, <1>7
  DEF Next, SenderNext, ReceiverNext, SendPacket, SenderLoop, SenderIdle, SenderTake,
      Transmit, Timeout, SenderThrows, DisconnectSender, LoseDatagram, Arrive,
      ReceiverLoop, EpollEvent, EpollTimeout, Read, ReadFails, QueuePacket,
      DecodeThrows, PopReceivedPacket, DisconnectReceiver

\* Every step keeps a sender at one packet at a time.
LEMMA OneAtATimeStep ==
  ASSUME TypeOK, Numbered, OneAtATime, Next
  PROVE  OneAtATime'
<1> USE DEF Goto, senderVars, wireVars, receiverVars
<1> DEFINE One(s, n) ==
             /\ attempts[<<s, n>>] > 0 => n <= cur[s]
             /\ <<s, n>> \in Settled
                  => attempts[<<s, n>>] > 0 /\ ~(Busy(s) /\ n = cur[s])
             /\ attempts[<<s, n>>] > 0 /\ <<s, n>> \notin Settled
                  => n = cur[s] /\ (Busy(s) \/ spc[s] = "crashed")
             /\ spc[s] = "wait" /\ n = cur[s] => attempts[<<s, n>>] > 0
<1>1. \A s \in Senders, n \in 1..MaxPackets : One(s, n)
  BY DEF OneAtATime
<1>2. ASSUME \A s \in Senders, n \in 1..MaxPackets : One(s, n)'
      PROVE  OneAtATime'
  BY <1>2 DEF OneAtATime
<1>3. \A s \in Senders, n \in 1..MaxPackets : <<s, n>> \in Packets
  BY DEF Packets
<1>4. ASSUME NEW s \in Senders, SenderTake(s)
      PROVE  OneAtATime'
  <2>1. UNCHANGED <<attempts, acked, dropped>> /\ spc[s] = "enter" /\ spc'[s] = "send"
    BY <1>4 DEF SenderTake, TypeOK
  <2>2. cur'[s] = cur[s] + 1
    <3> DEFINE q == sendQueue[s]
    <3>1. q \in Seq(1..MaxPackets) /\ q # <<>>
      BY <1>4 DEF SenderTake, TypeOK
    <3>2. 1 \in 1..Len(q) /\ Head(q) = q[1]
      BY <3>1
    <3>3. q[1] = cur[s] + 1
      BY <3>2 DEF Numbered
    <3>4. cur'[s] = Head(q)
      BY <1>4 DEF SenderTake, TypeOK
    <3> QED
      BY <3>2, <3>3, <3>4
  <2>3. \A t \in Senders \ {s} : cur'[t] = cur[t] /\ spc'[t] = spc[t]
    BY <1>4 DEF SenderTake, TypeOK
  <2>4. cur[s] \in Nat
    BY DEF TypeOK
  <2>5. \A n \in 1..MaxPackets : One(s, n)'
    BY <1>1, <2>1, <2>2, <2>4 DEF Busy, Settled
  <2>6. \A t \in Senders \ {s}, n \in 1..MaxPackets : One(t, n)'
    BY <1>1, <2>1, <2>3 DEF Busy, Settled
  <2> QED
    BY <1>2, <2>5, <2>6
<1>5. ASSUME NEW s \in Senders, Transmit(s)
      PROVE  OneAtATime'
  <2>1. UNCHANGED <<cur, acked, dropped>> /\ spc[s] = "send" /\ spc'[s] = "wait"
    BY <1>5 DEF Transmit, TypeOK
  <2>2. \A t \in Senders \ {s} : spc'[t] = spc[t]
    BY <1>5 DEF Transmit, TypeOK
  <2>3. cur[s] \in 1..MaxPackets /\ Sending(s) \in Packets /\ cur[s] \in Nat
    BY <2>1 DEF Numbered, Sending, Packets, TypeOK
  <2>4. attempts'[Sending(s)] = attempts[Sending(s)] + 1 /\ attempts[Sending(s)] \in Nat
    BY <1>5, <2>3 DEF Transmit, TypeOK
  <2>5. \A p \in Packets \ {Sending(s)} : attempts'[p] = attempts[p]
    BY <1>5 DEF Transmit, TypeOK
  <2>6. \A n \in 1..MaxPackets \ {cur[s]} : One(s, n)'
    <3>1. \A n \in 1..MaxPackets \ {cur[s]} : attempts'[<<s, n>>] = attempts[<<s, n>>]
      BY <1>3, <2>5 DEF Sending
    <3> QED
      BY <1>1, <2>1, <3>1 DEF Busy, Settled
  <2>7. One(s, cur[s])'
    <3>1. attempts'[<<s, cur[s]>>] > 0
      BY <2>4 DEF Sending
    <3>2. <<s, cur[s]>> \notin Settled'
      BY <1>1, <2>1, <2>3 DEF Busy, Settled
    <3> QED
      BY <2>1, <2>3, <3>1, <3>2 DEF Busy
  <2>8. \A t \in Senders \ {s}, n \in 1..MaxPackets : One(t, n)'
    <3> SUFFICES ASSUME NEW t \in Senders \ {s}, NEW n \in 1..MaxPackets
                 PROVE  One(t, n)'
      OBVIOUS
    <3>1. attempts'[<<t, n>>] = attempts[<<t, n>>]
      BY <1>3, <2>5 DEF Sending
    <3>2. cur'[t] = cur[t] /\ spc'[t] = spc[t]
      BY <2>1, <2>2
    <3>3. (Busy(t)' <=> Busy(t)) /\ Settled' = Settled
      BY <2>1, <3>2 DEF Busy, Settled
    <3>4. One(t, n)
      BY <1>1
    <3> QED
      BY <3>1, <3>2, <3>3, <3>4
  <2> QED
    BY <1>2, <2>1, <2>6, <2>7, <2>8
<1>6. ASSUME NEW s \in Senders, Timeout(s) \/ ReceiveAck(s)
      PROVE  OneAtATime'
  <2>1. UNCHANGED <<cur, attempts>> /\ spc[s] = "wait"
    BY <1>6 DEF Timeout, ReceiveAck
  <2>2. \/ spc'[s] = "send" /\ Settled' = Settled
        \/ spc'[s] = "loop" /\ Settled' = Settled \cup {Sending(s)}
    BY <1>6 DEF Timeout, ReceiveAck, Settled, TypeOK
  <2>3. \A t \in Senders \ {s} : spc'[t] = spc[t]
    BY <1>6 DEF Timeout, ReceiveAck, TypeOK
  <2>4. \A t \in Senders, n \in 1..MaxPackets :
          <<t, n>> \in Settled' <=>
            <<t, n>> \in Settled \/ (spc'[s] = "loop" /\ t = s /\ n = cur[s])
    BY <2>2 DEF Sending
  <2>5. \A n \in 1..MaxPackets : One(s, n)'
    BY <1>1, <2>1, <2>2, <2>4 DEF Busy
  <2>6. \A t \in Senders \ {s}, n \in 1..MaxPackets : One(t, n)'
    BY <1>1, <2>1, <2>3, <2>4 DEF Busy
  <2> QED
    BY <1>2, <2>5, <2>6
<1>7. ASSUME NEW s \in Senders,
             SenderLoop(s) \/ SenderIdle(s) \/ SenderThrows(s)
      PROVE  OneAtATime'
  <2>1. UNCHANGED <<cur, attempts, acked, dropped>>
    BY <1>7 DEF SenderLoop, SenderIdle, SenderThrows
  <2>2. \/ ~Busy(s) /\ spc[s] # "crashed" /\ spc'[s] \notin {"send", "wait"}
        \/ spc'[s] = "crashed"
    BY <1>7 DEF SenderLoop, SenderIdle, SenderThrows, Busy, TypeOK
  <2>3. \A t \in Senders \ {s} : spc'[t] = spc[t]
    BY <1>7 DEF SenderLoop, SenderIdle, SenderThrows, TypeOK
  <2>4. \A n \in 1..MaxPackets : One(s, n)'
    BY <1>1, <2>1, <2>2 DEF Busy, Settled
  <2>5. \A t \in Senders \ {s}, n \in 1..MaxPackets : One(t, n)'
    BY <1>1, <2>1, <2>3 DEF Busy, Settled
  <2> QED
    BY <1>2, <2>4, <2>5
<1>8. CASE UNCHANGED <<cur, spc, attempts, acked, dropped>>
  BY <1>8 DEF OneAtATime, Busy, Settled
<1> QED
  BY <1>4, <1>5, <1>6, <1>7, <1>8
  DEF Next, SenderNext, ReceiverNext, SendPacket, DisconnectSender, LoseDatagram,
      LoseAck, Arrive, ReceiverLoop, EpollEvent, EpollTimeout, Read, ReadFails,
      Acknowledge, QueuePacket, DecodeThrows, PopReceivedPacket, DisconnectReceiver

-----------------------------------------------------------------------------
\* The inductive invariant holds in every state, for any number of senders, packets
\* and tries, and any size of the receiver's socket.
THEOREM PeerInvariance == Spec => []PeerInv
<1>1. PeerInv /\ [Next]_vars => PeerInv'
  <2>1. ASSUME PeerInv, Next PROVE PeerInv'
    BY <2>1, PeerTypeStep, NumberedStep, SourcedStep, AcknowledgedStep, OneAtATimeStep
    DEF PeerInv
  <2>2. ASSUME PeerInv, UNCHANGED vars PROVE PeerInv'
    <3> USE DEF vars, senderVars, wireVars, receiverVars
    <3>1. TypeOK'
      BY <2>2 DEF PeerInv, TypeOK
    <3>2. Numbered' /\ OneAtATime'
      BY <2>2 DEF PeerInv, Numbered, OneAtATime, Settled, Busy
    <3>3. Sourced' /\ Acknowledged'
      BY <2>2 DEF PeerInv, Sourced, Acknowledged, Taken, Holds
    <3> QED
      BY <3>1, <3>2, <3>3 DEF PeerInv
  <2> QED
    BY <2>1, <2>2
<1> QED
  BY <1>1, PeerInit, PTL DEF Spec

\* Every variable keeps its type.
THEOREM PeerTypeCorrect == Spec => []TypeOK
<1>1. PeerInv => TypeOK
  BY DEF PeerInv
<1> QED
  BY <1>1, PeerInvariance, PTL

\* A packet whose sender has heard an acknowledgement is with the receiver
\* (sendMessageTo and receivePacketFrom).
THEOREM NoFalseAcknowledgement == Spec => []AckedIsReceived
<1>1. PeerInv => AckedIsReceived
  BY DEF PeerInv, TypeOK, Acknowledged, Taken, AckedIsReceived
<1> QED
  BY <1>1, PeerInvariance, PTL

\* The peers implement AtLeastOnce: one packet of a sender at a time, in order, and
\* none is confirmed that has not been received.
THEOREM Refinement == Spec => ImplementsAtLeastOnce
<1> DEFINE started == {p \in Packets : attempts[p] > 0}
           received == {p \in Packets : reads[p] > 0}
<1>1. Init => Promise!Init
  BY DEF Init, Promise!Init
<1> DEFINE abstract == <<started, received, acked, dropped>>
<1>2. ASSUME PeerInv, [Next]_vars
      PROVE  [Promise!Next]_abstract
  <2>0. TypeOK /\ Numbered /\ Sourced /\ Acknowledged /\ OneAtATime
    BY <1>2 DEF PeerInv
  <2> USE <2>0
  <2>1. ASSUME NEW s \in Senders, Transmit(s)
        PROVE  Promise!Next \/ UNCHANGED abstract
    <3>1. Sending(s) \in Packets /\ UNCHANGED <<reads, acked, dropped>>
      BY <2>1 DEF Transmit, Numbered, Sending, Packets, TypeOK, receiverVars
    <3>2. attempts'[Sending(s)] = attempts[Sending(s)] + 1 /\ attempts[Sending(s)] \in Nat
      BY <2>1, <3>1 DEF Transmit, TypeOK
    <3>3. \A q \in Packets \ {Sending(s)} : attempts'[q] = attempts[q]
      BY <2>1 DEF Transmit, TypeOK
    <3>4. attempts'[Sending(s)] > 0
      BY <3>2
    <3>5. started' = started \cup {Sending(s)} /\ received' = received
      BY <3>1, <3>3, <3>4
    <3>6. CASE attempts[Sending(s)] > 0
      BY <3>1, <3>5, <3>6
    <3>7. CASE attempts[Sending(s)] = 0
      <4>1. ASSUME NEW q \in started, q[1] = s
            PROVE  q[2] < cur[s] /\ q \in acked \cup dropped
        <5>1. PICK t \in Senders, n \in 1..MaxPackets : q = <<t, n>>
          BY DEF Packets
        <5>2. t = s /\ q[2] = n
          BY <4>1, <5>1
        <5>3. attempts[<<s, n>>] > 0 /\ q = <<s, n>>
          BY <5>1, <5>2
        <5>4. n <= cur[s] /\ (q \in acked \cup dropped \/ n = cur[s])
          BY <5>3 DEF OneAtATime, Settled
        <5>5. n # cur[s]
          BY <3>7, <5>3 DEF Sending
        <5>6. n \in Nat /\ cur[s] \in Nat
          BY DEF TypeOK
        <5> QED
          BY <5>2, <5>4, <5>5, <5>6
      <4>2. Sending(s)[1] = s /\ Sending(s)[2] = cur[s]
        BY DEF Sending
      <4>3. Promise!Start(Sending(s))
        BY <3>1, <3>5, <4>1, <4>2 DEF Promise!Start, Promise!Unsettled
      <4>4. \E p \in Packets : Promise!Start(p)
        BY <3>1, <4>3 DEF Promise!Start
      <4> QED
        BY <4>4 DEF Promise!Next
    <3> QED
      BY <3>2, <3>6, <3>7
  <2>2. ASSUME NEW s \in Senders, spc[s] = "wait"
        PROVE  Sending(s) \in Promise!Unsettled /\ Sending(s) \in started
    <3>1. cur[s] \in 1..MaxPackets /\ Sending(s) \in Packets
      BY <2>2 DEF Numbered, Sending, Packets, TypeOK
    <3>2. attempts[Sending(s)] > 0 /\ Sending(s) \notin Settled
      BY <2>2, <3>1 DEF OneAtATime, Sending, Busy
    <3> QED
      BY <3>1, <3>2 DEF Promise!Unsettled, Settled
  <2>3. ASSUME NEW s \in Senders, Timeout(s)
        PROVE  Promise!Next \/ UNCHANGED abstract
    <3>1. UNCHANGED <<attempts, reads, acked>> /\ spc[s] = "wait"
      BY <2>3 DEF Timeout, receiverVars
    <3>2. dropped' = dropped \/ dropped' = dropped \cup {Sending(s)}
      BY <2>3 DEF Timeout
    <3>3. UNCHANGED <<started, received>>
      BY <3>1
    <3>4. ASSUME dropped' = dropped \cup {Sending(s)} PROVE Promise!Drop(Sending(s))
      BY <2>2, <3>1, <3>3, <3>4 DEF Promise!Drop
    <3> QED
      BY <2>2, <3>1, <3>2, <3>3, <3>4 DEF Promise!Next
  <2>4. ASSUME NEW s \in Senders, ReceiveAck(s)
        PROVE  Promise!Next
    <3>1. /\ UNCHANGED <<attempts, reads, dropped>> /\ spc[s] = "wait"
          /\ acked' = acked \cup {Sending(s)} /\ acks[Sending(s)] > 0
      BY <2>4 DEF ReceiveAck, receiverVars
    <3>2. Sending(s) \in received
      BY <2>2, <3>1 DEF Acknowledged
    <3>3. UNCHANGED <<started, received>>
      BY <3>1
    <3>4. Promise!Confirm(Sending(s))
      BY <2>2, <3>1, <3>2, <3>3 DEF Promise!Confirm
    <3> QED
      BY <2>2, <3>1, <3>4 DEF Promise!Next
  <2>5. ASSUME Read
        PROVE  Promise!Next
    <3>1. socket \in Seq(Packets) /\ socket # <<>>
      BY <2>5 DEF Read, TypeOK
    <3>2. PICK front \in Packets :
            front = Head(socket) /\ 1 \in 1..Len(socket) /\ front = socket[1]
      <4>1. Head(socket) \in Packets /\ 1 \in 1..Len(socket) /\ Head(socket) = socket[1]
        BY <3>1
      <4> QED
        BY <4>1
    <3>3. Holds(socket, front)
      BY <3>2 DEF Holds
    <3>4. front \in started
      BY <3>2, <3>3 DEF Sourced
    <3>5. UNCHANGED <<attempts, acked, dropped>>
      BY <2>5 DEF Read, senderVars
    <3>6. reads'[front] = reads[front] + 1 /\ reads[front] \in Nat
      <4>1. reads' = [reads EXCEPT ![front] = reads[front] + 1]
        BY <2>5, <3>2 DEF Read
      <4>2. reads \in [Packets -> Nat]
        BY DEF TypeOK
      <4> QED
        BY <4>1, <4>2
    <3>7. \A q \in Packets \ {front} : reads'[q] = reads[q]
      BY <2>5, <3>2 DEF Read, TypeOK
    <3>8. reads'[front] > 0
      BY <3>6
    <3>9. received' = received \cup {front} /\ started' = started
      BY <3>2, <3>5, <3>7, <3>8
    <3>10. Promise!Receive(front)
      BY <3>5, <3>9 DEF Promise!Receive
    <3>11. \E p \in started : Promise!Receive(p)
      BY <3>4, <3>10
    <3> QED
      BY <3>11 DEF Promise!Next
  <2>6. CASE UNCHANGED <<attempts, reads, acked, dropped>>
    BY <2>6
  <2> HIDE DEF abstract, started, received, PeerInv
  <2> QED
    BY <1>2, <2>1, <2>3, <2>4, <2>5, <2>6
    DEF Next, SenderNext, ReceiverNext, SendPacket, SenderLoop, SenderIdle, SenderTake,
        SenderThrows, DisconnectSender, LoseDatagram, LoseAck, Arrive, ReceiverLoop,
        EpollEvent, EpollTimeout, ReadFails, Acknowledge, QueuePacket, DecodeThrows,
        PopReceivedPacket, DisconnectReceiver, vars, senderVars, receiverVars
<1> QED
  BY <1>1, <1>2, PeerInvariance, PTL DEF Spec, ImplementsAtLeastOnce, Promise!Spec

-----------------------------------------------------------------------------
\* A sender turns to a packet when it has settled all before it.
EarlierSettled ==
  \A s \in Senders : \A n \in 1..MaxPackets :
    n < cur[s] \/ (n = cur[s] /\ spc[s] \in {"loop", "enter", "done"})
      => <<s, n>> \in Settled

\* Every step keeps that.
LEMMA EarlierSettledStep ==
  ASSUME TypeOK, Numbered, EarlierSettled, Next
  PROVE  EarlierSettled'
<1> USE DEF Goto, Settled, senderVars, wireVars, receiverVars
<1>1. ASSUME NEW s \in Senders, SenderTake(s)
      PROVE  EarlierSettled'
  <2>1. sendQueue[s] \in Seq(1..MaxPackets) /\ sendQueue[s] # <<>>
    BY <1>1 DEF SenderTake, TypeOK
  <2>2. Head(sendQueue[s]) = sendQueue[s][1] /\ 1 \in 1..Len(sendQueue[s])
    BY <2>1
  <2>3. cur'[s] = cur[s] + 1 /\ cur[s] \in Nat
    BY <1>1, <2>2 DEF SenderTake, Numbered, TypeOK
  <2>4. UNCHANGED <<acked, dropped>> /\ spc[s] = "enter" /\ spc'[s] = "send"
    BY <1>1 DEF SenderTake, TypeOK
  <2>5. \A t \in Senders \ {s} : cur'[t] = cur[t] /\ spc'[t] = spc[t]
    BY <1>1 DEF SenderTake, TypeOK
  <2>6. ASSUME NEW n \in 1..MaxPackets, n < cur'[s]
        PROVE  <<s, n>> \in Settled'
    <3>1. n < cur[s] \/ n = cur[s]
      BY <2>3, <2>6
    <3> QED
      BY <2>4, <3>1 DEF EarlierSettled
  <2> QED
    BY <2>4, <2>5, <2>6 DEF EarlierSettled
<1>2. ASSUME NEW s \in Senders, Timeout(s) \/ ReceiveAck(s)
      PROVE  EarlierSettled'
  <2>1. /\ cur' = cur /\ Settled \subseteq Settled'
        /\ spc[s] = "wait" /\ (spc'[s] = "send" \/ Sending(s) \in Settled')
    BY <1>2 DEF Timeout, ReceiveAck, TypeOK
  <2>2. \A t \in Senders \ {s} : spc'[t] = spc[t]
    BY <1>2 DEF Timeout, ReceiveAck, TypeOK
  <2> QED
    BY <2>1, <2>2 DEF EarlierSettled, Sending
<1>3. ASSUME NEW s \in Senders,
             SendPacket(s) \/ SenderLoop(s) \/ SenderIdle(s) \/ Transmit(s)
               \/ SenderThrows(s) \/ DisconnectSender(s)
      PROVE  EarlierSettled'
  <2>1. UNCHANGED <<cur, acked, dropped>>
    BY <1>3 DEF SendPacket, SenderLoop, SenderIdle, Transmit, SenderThrows, DisconnectSender
  <2>2. \A t \in Senders :
          spc'[t] \in {"loop", "enter", "done"} => spc[t] \in {"loop", "enter", "done"}
    BY <1>3 DEF SendPacket, SenderLoop, SenderIdle, Transmit, SenderThrows,
                DisconnectSender, TypeOK
  <2> QED
    BY <2>1, <2>2 DEF EarlierSettled
<1>4. CASE UNCHANGED <<spc, cur, acked, dropped>>
  BY <1>4 DEF EarlierSettled
<1> QED
  BY <1>1, <1>2, <1>3, <1>4
  DEF Next, SenderNext, ReceiverNext, LoseDatagram, LoseAck, Arrive, ReceiverLoop,
      EpollEvent, EpollTimeout, Read, ReadFails, Acknowledge, QueuePacket, DecodeThrows,
      PopReceivedPacket, DisconnectReceiver

\* Packets are first received in the order sendPacket got them, but for those that
\* have been given up (sendSession finishes with a packet before it takes the next).
THEOREM OvertakingRare == Spec => []OvertakesOnlyDropped
<1>1. Init => EarlierSettled
  BY NumbersAssumption DEF Init, EarlierSettled
<1>2. PeerInv /\ EarlierSettled /\ [Next]_vars => EarlierSettled'
  <2>1. ASSUME PeerInv, EarlierSettled, Next PROVE EarlierSettled'
    BY <2>1, EarlierSettledStep DEF PeerInv
  <2>2. ASSUME EarlierSettled, UNCHANGED vars PROVE EarlierSettled'
    BY <2>2 DEF vars, senderVars, EarlierSettled, Settled
  <2> QED
    BY <2>1, <2>2
<1>3. PeerInv /\ EarlierSettled => OvertakesOnlyDropped
  <2> SUFFICES ASSUME PeerInv, EarlierSettled, NEW s \in Senders,
                      NEW m \in 1..MaxPackets, NEW n \in 1..MaxPackets,
                      m < n, reads[<<s, n>>] > 0
               PROVE  reads[<<s, m>>] > 0 \/ <<s, m>> \in dropped
    BY DEF OvertakesOnlyDropped
  <2>1. <<s, m>> \in Packets /\ <<s, n>> \in Packets /\ cur[s] \in Nat
    BY DEF Packets, PeerInv, TypeOK
  <2>2. n <= cur[s]
    BY <2>1 DEF PeerInv, Sourced, OneAtATime
  <2>3. <<s, m>> \in Settled
    BY <2>1, <2>2 DEF EarlierSettled
  <2> QED
    BY <2>1, <2>3 DEF Settled, PeerInv, Acknowledged
<1> QED
  BY <1>1, <1>2, <1>3, PeerInvariance, PTL DEF Spec

-----------------------------------------------------------------------------
\* Events and datagrams are counted one against the other (epoll's edges, and one
\* receivePacketFrom for each).
EventInv == EventsHaveDatagrams /\ NoDatagramForgotten

\* Every step keeps the count.
LEMMA EventStep ==
  ASSUME TypeOK, EventInv, Next
  PROVE  EventInv'
<1> USE PeersAssumption DEF TypeOK, senderVars, wireVars, receiverVars
<1> DEFINE n == Len(socket)
           m == Len(socket')
<1>1. n \in Nat /\ Pending \in 0..2
  BY DEF Pending
<1>2. /\ connected[Receiver] /\ rpc # "crashed" => Pending <= n
      /\ ~coalesced => n <= Pending
  BY DEF EventInv, EventsHaveDatagrams, NoDatagramForgotten
<1>3. ASSUME /\ connected'[Receiver] /\ rpc' # "crashed" => Pending' <= m
             /\ ~coalesced' => m <= Pending'
      PROVE  EventInv'
  BY <1>3 DEF EventInv, EventsHaveDatagrams, NoDatagramForgotten
<1>4. ASSUME NEW p \in Packets, Arrive(p)
      PROVE  EventInv'
  <2>1. m = n + 1
    BY <1>4 DEF Arrive
  <2>2. Pending' = Pending + (IF ready THEN 0 ELSE 1)
    <3>1. ready' /\ rpc' = rpc
      BY <1>4 DEF Arrive
    <3> QED
      BY <3>1 DEF Pending
  <2>3. UNCHANGED <<connected, rpc>> /\ (~coalesced' => ~coalesced /\ ~ready)
    BY <1>4 DEF Arrive
  <2> HIDE DEF n, m, TypeOK
  <2>4. Pending' <= Pending + 1
    BY <1>1, <2>2
  <2>5. connected'[Receiver] /\ rpc' # "crashed" => Pending' <= m
    BY <1>1, <1>2, <2>1, <2>3, <2>2
  <2>6. ~coalesced' => m <= Pending'
    BY <1>1, <1>2, <2>1, <2>2, <2>3
  <2> QED
    BY <1>3, <2>5, <2>6
<1>5. CASE Read
  <2>1. m = n - 1 /\ n > 0
    BY <1>5 DEF Read
  <2>2. Pending' = Pending - 1
    <3>1. rpc = "read" /\ rpc' = "decode" /\ ready' = ready
      BY <1>5 DEF Read
    <3> QED
      BY <3>1 DEF Pending
  <2>3. UNCHANGED <<connected, coalesced>> /\ rpc = "read"
    BY <1>5 DEF Read
  <2> HIDE DEF n, m, TypeOK
  <2> QED
    BY <1>1, <1>2, <1>3, <2>1, <2>2, <2>3
<1>6. CASE ReadFails
  <2>1. m = 0 /\ n = 0
    BY <1>6 DEF ReadFails
  <2>2. Pending' = Pending - 1
    <3>1. rpc = "read" /\ rpc' = "queue" /\ ready' = ready
      BY <1>6 DEF ReadFails
    <3> QED
      BY <3>1 DEF Pending
  <2>3. UNCHANGED <<connected, coalesced>> /\ rpc = "read"
    BY <1>6 DEF ReadFails
  <2>4. Pending' \in Nat
    <3>1. ready' \in BOOLEAN
      BY <1>6 DEF ReadFails
    <3> QED
      BY <3>1 DEF Pending
  <2> HIDE DEF n, m, TypeOK
  <2> QED
    BY <1>1, <1>2, <1>3, <2>1, <2>2, <2>3, <2>4
<1>7. CASE DecodeThrows \/ DisconnectReceiver
  <2>1. m = 0 /\ (rpc' = "crashed" \/ ~connected'[Receiver])
    BY <1>7 DEF DecodeThrows, DisconnectReceiver
  <2>2. Pending' \in Nat
    <3>1. ready' = FALSE
      BY <1>7 DEF DecodeThrows, DisconnectReceiver
    <3> QED
      BY <3>1 DEF Pending
  <2> HIDE DEF m
  <2> QED
    BY <1>3, <2>1, <2>2
<1>8. ASSUME /\ UNCHANGED <<socket, coalesced>> /\ Pending' = Pending
             /\ connected'[Receiver] => connected[Receiver]
             /\ rpc' # "crashed" => rpc # "crashed"
      PROVE  EventInv'
  BY <1>2, <1>3, <1>8
<1>9. CASE EpollEvent
  <2>1. ready /\ rpc = "poll" /\ ~ready' /\ rpc' = "read"
    BY <1>9 DEF EpollEvent
  <2>2. Pending' = Pending
    BY <2>1 DEF Pending
  <2> QED
    BY <1>8, <1>9, <2>2 DEF EpollEvent
<1>10. CASE ReceiverLoop \/ EpollTimeout \/ Acknowledge \/ QueuePacket \/ PopReceivedPacket
  <2>1. UNCHANGED ready /\ (rpc' = "read" <=> rpc = "read")
    BY <1>10 DEF ReceiverLoop, EpollTimeout, Acknowledge, QueuePacket, PopReceivedPacket
  <2>2. Pending' = Pending
    BY <2>1 DEF Pending
  <2> QED
    BY <1>8, <1>10, <2>2
    DEF ReceiverLoop, EpollTimeout, Acknowledge, QueuePacket, PopReceivedPacket
<1>11. ASSUME NEW s \in Senders, DisconnectSender(s)
       PROVE  EventInv'
  <2>1. Receiver # s /\ connected'[Receiver] = connected[Receiver]
    BY <1>11 DEF DisconnectSender
  <2>2. Pending' = Pending
    BY <1>11 DEF DisconnectSender, Pending
  <2> QED
    BY <1>8, <1>11, <2>1, <2>2 DEF DisconnectSender
<1>12. CASE UNCHANGED <<connected, socket, ready, rpc, coalesced>>
  <2>1. Pending' = Pending
    BY <1>12 DEF Pending
  <2> QED
    BY <1>8, <1>12, <2>1
<1> QED
  BY <1>4, <1>5, <1>6, <1>7, <1>9, <1>10, <1>11, <1>12
  DEF Next, SenderNext, ReceiverNext, SendPacket, SenderLoop, SenderIdle, SenderTake,
      Transmit, Timeout, ReceiveAck, SenderThrows, LoseDatagram, LoseAck

\* The initial state satisfies the count, and it stays satisfied.
THEOREM EventsMatch == Spec => []EventInv
<1>1. Init => EventInv
  <2> SUFFICES ASSUME Init PROVE EventInv
    OBVIOUS
  <2>1. Pending = 0 /\ Len(socket) = 0
    BY DEF Init, Pending
  <2> QED
    BY <2>1 DEF EventInv, EventsHaveDatagrams, NoDatagramForgotten
<1>2. TypeOK /\ EventInv /\ [Next]_vars => EventInv'
  <2>1. ASSUME EventInv, UNCHANGED vars PROVE EventInv'
    <3>1. UNCHANGED <<connected, socket, ready, rpc, coalesced>>
      BY <2>1 DEF vars, receiverVars
    <3> QED
      BY <2>1, <3>1 DEF EventInv, EventsHaveDatagrams, NoDatagramForgotten, Pending
  <2> QED
    BY <2>1, EventStep
<1> QED
  BY <1>1, <1>2, PeerTypeCorrect, PTL DEF Spec

\* Every event has an unread datagram (receiveSession's epoll_wait).
THEOREM EventsHaveTheirs == Spec => []EventsHaveDatagrams
<1>1. EventInv => EventsHaveDatagrams
  BY DEF EventInv
<1> QED
  BY <1>1, EventsMatch, PTL

\* No datagram stays unread as long as none arrives on a pending event.
THEOREM NoneForgotten == Spec => []NoDatagramForgotten
<1>1. EventInv => NoDatagramForgotten
  BY DEF EventInv
<1> QED
  BY <1>1, EventsMatch, PTL

-----------------------------------------------------------------------------
(* Copies: what is under way, in the socket and read, of one packet.       *)

\* The number of places of a sequence that hold a packet.
LEMMA CountType ==
  ASSUME NEW S, NEW q \in Seq(S), NEW p
  PROVE  /\ IsFiniteSet({i \in 1..Len(q) : q[i] = p})
         /\ Count(q, p) \in Nat
<1>1. Len(q) \in Nat
  OBVIOUS
<1>2. IsFiniteSet(1..Len(q))
  BY <1>1, FS_Interval
<1>3. {i \in 1..Len(q) : q[i] = p} \in SUBSET (1..Len(q))
  OBVIOUS
<1>4. IsFiniteSet({i \in 1..Len(q) : q[i] = p})
  BY <1>2, <1>3, FS_Subset
<1> QED
  BY <1>4, FS_CardinalityType DEF Count

\* A sequence has one place more for what was appended to it.
LEMMA CountAppend ==
  ASSUME NEW S, NEW q \in Seq(S), NEW x \in S, NEW p
  PROVE  Count(Append(q, x), p) = Count(q, p) + (IF x = p THEN 1 ELSE 0)
<1> DEFINE n == Len(q)
           before == {i \in 1..n : q[i] = p}
           after == {i \in 1..Len(Append(q, x)) : Append(q, x)[i] = p}
<1>1. n \in Nat /\ Len(Append(q, x)) = n + 1 /\ Append(q, x)[n + 1] = x
      /\ \A i \in 1..n : Append(q, x)[i] = q[i]
  OBVIOUS
<1>2. IsFiniteSet(before) /\ Cardinality(before) \in Nat
  BY CountType DEF Count
<1>3. 1..(n + 1) = 1..n \cup {n + 1} /\ n + 1 \notin 1..n
  BY <1>1
<1>4. CASE x = p
  <2>1. after = before \cup {n + 1} /\ n + 1 \notin before
    BY <1>1, <1>3, <1>4
  <2>2. Cardinality(before \cup {n + 1}) = Cardinality(before) + 1
    BY <1>2, <2>1, FS_AddElement
  <2> QED
    BY <1>4, <2>1, <2>2 DEF Count
<1>5. CASE x # p
  <2>1. after = before
    BY <1>1, <1>3, <1>5
  <2>2. Cardinality(before) = Cardinality(before) + 0
    BY <1>2
  <2> QED
    BY <1>5, <2>1, <2>2 DEF Count
<1> QED
  BY <1>4, <1>5

\* The places of a tail are those of the sequence, one to the left.
LEMMA CountTail ==
  ASSUME NEW S, NEW q \in Seq(S), q # <<>>, NEW p
  PROVE  Count(q, p) = Count(Tail(q), p) + (IF Head(q) = p THEN 1 ELSE 0)
<1> DEFINE n == Len(q)
           whole == {i \in 1..n : q[i] = p}
           rest == {i \in 1..(n - 1) : q[i + 1] = p}
           shift == [i \in rest |-> i + 1]
<1>1. n \in Nat /\ n > 0 /\ Head(q) = q[1]
      /\ Tail(q) \in Seq(S) /\ Len(Tail(q)) = n - 1
      /\ \A i \in 1..(n - 1) : Tail(q)[i] = q[i + 1]
  OBVIOUS
<1>2. {i \in 1..Len(Tail(q)) : Tail(q)[i] = p} = rest
  BY <1>1
<1>3. IsFiniteSet(rest) /\ Cardinality(rest) = Count(Tail(q), p) /\ Cardinality(rest) \in Nat
  <2> DEFINE places == {i \in 1..Len(Tail(q)) : Tail(q)[i] = p}
  <2>1. IsFiniteSet(places) /\ Count(Tail(q), p) \in Nat
    BY <1>1, CountType
  <2>2. Cardinality(places) = Count(Tail(q), p)
    BY DEF Count
  <2>3. places = rest
    BY <1>2
  <2> HIDE DEF places, rest
  <2> QED
    BY <2>1, <2>2, <2>3
<1> HIDE DEF n
<1>4. shift \in Bijection(rest, whole \ {1})
  <2>1. shift \in [rest -> whole \ {1}]
    BY <1>1
  <2>2. \A i, j \in rest : shift[i] = shift[j] => i = j
    BY <1>1
  <2>3. \A j \in whole \ {1} : \E i \in rest : shift[i] = j
    <3>1. ASSUME NEW j \in whole \ {1}
          PROVE  j - 1 \in rest /\ shift[j - 1] = j
      BY <1>1
    <3> QED
      BY <3>1
  <2> QED
    BY <2>1, <2>2, <2>3 DEF Bijection, Injection, Surjection, IsInjective
<1>5. IsFiniteSet(whole \ {1}) /\ Cardinality(whole \ {1}) = Cardinality(rest)
  <2>1. ExistsBijection(rest, whole \ {1})
    BY <1>4 DEF ExistsBijection
  <2> HIDE DEF rest, whole, shift
  <2> QED
    BY <1>3, <2>1, FS_Bijection
<1>8. Cardinality(whole) = Count(q, p)
  BY DEF Count, n
<1>6. CASE Head(q) = p
  <2>1. whole = (whole \ {1}) \cup {1}
    BY <1>1, <1>6
  <2>2. Cardinality(whole) = Cardinality(whole \ {1}) + 1
    BY <1>5, <2>1, FS_AddElement
  <2> QED
    BY <1>3, <1>5, <1>6, <1>8, <2>2
<1>7. CASE Head(q) # p
  <2>1. whole = whole \ {1}
    BY <1>1, <1>7
  <2>2. Cardinality(whole) = Cardinality(rest)
    BY <1>5, <2>1
  <2> HIDE DEF whole, rest
  <2> QED
    BY <1>3, <1>7, <1>8, <2>2
<1> QED
  BY <1>6, <1>7

\* A sender's attempts at its current packet and the tries it has left add up
\* (sendMessageTo's maxResendCount), and no packet is tried more often.
Tried ==
  /\ \A p \in Packets : attempts[p] <= MaxTries
  /\ \A s \in Senders :
       /\ Busy(s) => tries[s] > 0
       /\ spc[s] = "send" => attempts[Sending(s)] + tries[s] = MaxTries
       /\ spc[s] = "wait" => attempts[Sending(s)] + tries[s] = MaxTries + 1

\* Every step keeps the account of the tries.
LEMMA TriedStep ==
  ASSUME TypeOK, Numbered, OneAtATime, Tried, Next
  PROVE  Tried'
<1> USE NumbersAssumption DEF Goto, senderVars, wireVars, receiverVars
<1>1. ASSUME NEW s \in Senders, SenderTake(s)
      PROVE  Tried'
  <2>1. sendQueue[s] \in Seq(1..MaxPackets) /\ sendQueue[s] # <<>>
    BY <1>1 DEF SenderTake, TypeOK
  <2>2. Head(sendQueue[s]) = sendQueue[s][1] /\ 1 \in 1..Len(sendQueue[s])
        /\ Head(sendQueue[s]) \in 1..MaxPackets
    BY <2>1
  <2>3. cur'[s] = cur[s] + 1 /\ cur[s] \in Nat /\ cur'[s] \in 1..MaxPackets
    BY <1>1, <2>2 DEF SenderTake, Numbered, TypeOK
  <2>4. attempts' = attempts /\ spc'[s] = "send" /\ tries'[s] = MaxTries
    BY <1>1 DEF SenderTake, TypeOK
  <2>5. \A t \in Senders \ {s} :
          cur'[t] = cur[t] /\ spc'[t] = spc[t] /\ tries'[t] = tries[t]
    BY <1>1 DEF SenderTake, TypeOK
  <2>6. attempts[<<s, cur'[s]>>] = 0
    <3>1. <<s, cur'[s]>> \in Packets
      BY <2>3 DEF Packets
    <3>2. attempts[<<s, cur'[s]>>] \in Nat
      BY <3>1 DEF TypeOK
    <3>3. ~(attempts[<<s, cur'[s]>>] > 0)
      BY <2>3 DEF OneAtATime
    <3> QED
      BY <3>2, <3>3
  <2>7. \A t \in Senders \ {s} : Sending(t)' = Sending(t) /\ Busy(t)' = Busy(t)
    BY <2>5 DEF Sending, Busy
  <2>8. Sending(s)' = <<s, cur'[s]>>
    BY DEF Sending
  <2> QED
    BY <2>4, <2>5, <2>6, <2>7, <2>8 DEF Tried
<1>2. ASSUME NEW s \in Senders, Transmit(s)
      PROVE  Tried'
  <2>1. Sending(s) \in Packets /\ spc[s] = "send" /\ spc'[s] = "wait"
    BY <1>2 DEF Transmit, Numbered, Sending, Packets, TypeOK
  <2>2. attempts[Sending(s)] \in Nat /\ tries[s] \in Nat
        /\ attempts'[Sending(s)] = attempts[Sending(s)] + 1
        /\ \A p \in Packets \ {Sending(s)} : attempts'[p] = attempts[p]
    BY <1>2, <2>1 DEF Transmit, TypeOK
  <2>3. tries[s] > 0 /\ attempts[Sending(s)] + tries[s] = MaxTries
    BY <2>1 DEF Tried, Busy
  <2>4. \A p \in Packets : attempts'[p] <= MaxTries
    BY <2>2, <2>3 DEF Tried
  <2>5. UNCHANGED <<cur, tries>> /\ \A t \in Senders \ {s} : spc'[t] = spc[t]
    BY <1>2 DEF Transmit, TypeOK
  <2>6. \A t \in Senders : Sending(t)' = Sending(t)
    BY <2>5 DEF Sending
  <2>7. ASSUME NEW t \in Senders \ {s}
        PROVE  /\ Busy(t)' = Busy(t)
               /\ Busy(t) => attempts'[Sending(t)] = attempts[Sending(t)]
    <3>1. Busy(t) => Sending(t) \in Packets /\ Sending(t) # Sending(s)
      BY SMTT(30) DEF Busy, Numbered, Sending, Packets, TypeOK
    <3> QED
      BY SMTT(30), <2>2, <2>5, <3>1 DEF Busy
  <2>8. attempts'[Sending(s)] + tries[s] = MaxTries + 1
    BY <2>2, <2>3
  <2> QED
    BY <2>1, <2>3, <2>4, <2>5, <2>6, <2>7, <2>8 DEF Tried, Busy
<1>3. ASSUME NEW s \in Senders, Timeout(s)
      PROVE  Tried'
  <2>1. UNCHANGED <<attempts, cur>> /\ spc[s] = "wait" /\ tries[s] \in Nat
        /\ tries'[s] = tries[s] - 1
        /\ spc'[s] = (IF tries[s] > 1 THEN "send" ELSE "loop")
    BY <1>3 DEF Timeout, TypeOK
  <2>2. \A t \in Senders \ {s} : spc'[t] = spc[t] /\ tries'[t] = tries[t]
    BY <1>3 DEF Timeout, TypeOK
  <2>3. \A t \in Senders : Sending(t)' = Sending(t)
    BY <2>1 DEF Sending
  <2>4. Sending(s) \in Packets /\ attempts[Sending(s)] \in Nat
    BY <2>1 DEF Numbered, Sending, Packets, TypeOK
  <2>5. attempts[Sending(s)] + tries[s] = MaxTries + 1
    BY <2>1 DEF Tried
  <2>6. attempts[Sending(s)] + tries'[s] = MaxTries
    BY <2>1, <2>4, <2>5
  <2> QED
    BY <2>1, <2>2, <2>3, <2>6 DEF Tried, Busy
<1>4. ASSUME NEW s \in Senders,
             SendPacket(s) \/ SenderLoop(s) \/ SenderIdle(s) \/ ReceiveAck(s)
               \/ SenderThrows(s) \/ DisconnectSender(s)
      PROVE  Tried'
  <2>1. UNCHANGED <<attempts, cur, tries>>
    BY <1>4 DEF SendPacket, SenderLoop, SenderIdle, ReceiveAck, SenderThrows, DisconnectSender
  <2>2. \A t \in Senders : spc'[t] = spc[t] \/ spc'[t] \notin {"send", "wait"}
    BY <1>4 DEF SendPacket, SenderLoop, SenderIdle, ReceiveAck, SenderThrows,
                DisconnectSender, TypeOK
  <2> QED
    BY <2>1, <2>2 DEF Tried, Busy, Sending
<1>5. CASE UNCHANGED <<attempts, cur, tries, spc>>
  BY <1>5 DEF Tried, Busy, Sending
<1> QED
  BY <1>1, <1>2, <1>3, <1>4, <1>5
  DEF Next, SenderNext, ReceiverNext, LoseDatagram, LoseAck, Arrive, ReceiverLoop,
      EpollEvent, EpollTimeout, Read, ReadFails, Acknowledge, QueuePacket, DecodeThrows,
      PopReceivedPacket, DisconnectReceiver

\* A copy under way, in the socket or read is a copy that was sent.
Sent == \A p \in Packets : Copies(p) <= attempts[p]

\* Every step keeps the account of the copies.
LEMMA SentStep ==
  ASSUME TypeOK, Numbered, Sent, Next
  PROVE  Sent'
<1> USE DEF Goto, senderVars, wireVars, receiverVars
<1>1. ASSUME NEW p \in Packets
      PROVE  /\ net[p] \in Nat /\ reads[p] \in Nat /\ attempts[p] \in Nat
             /\ Count(socket, p) \in Nat
             /\ net[p] + reads[p] + Count(socket, p) <= attempts[p]
  <2>1. socket \in Seq(Packets)
    BY DEF TypeOK
  <2>2. Count(socket, p) \in Nat
    BY <2>1, CountType
  <2> QED
    BY <2>2 DEF TypeOK, Sent, Copies
<1>2. ASSUME \A p \in Packets : net'[p] + reads'[p] + Count(socket', p) <= attempts'[p]
      PROVE  Sent'
  BY <1>2 DEF Sent, Copies, Count
<1>3. \A p \in Packets : Count(<<>>, p) = 0
  <2>1. \A p : {i \in 1..Len(<<>>) : <<>>[i] = p} = {}
    OBVIOUS
  <2> QED
    BY <2>1, FS_EmptySet DEF Count
<1>4. ASSUME NEW s \in Senders, Transmit(s)
      PROVE  Sent'
  <2>1. Sending(s) \in Packets
    BY <1>4 DEF Transmit, Numbered, Sending, Packets, TypeOK
  <2>2. /\ net' = [net EXCEPT ![Sending(s)] = net[Sending(s)] + 1]
        /\ attempts' = [attempts EXCEPT ![Sending(s)] = attempts[Sending(s)] + 1]
        /\ UNCHANGED <<reads, socket>>
    BY <1>4 DEF Transmit
  <2>3. net \in [Packets -> Nat] /\ attempts \in [Packets -> Nat]
    BY DEF TypeOK
  <2>4. ASSUME NEW p \in Packets
        PROVE  net'[p] + reads'[p] + Count(socket', p) <= attempts'[p]
    <3>1. CASE p = Sending(s)
      <4>1. net'[p] = net[p] + 1 /\ attempts'[p] = attempts[p] + 1
        BY <2>1, <2>2, <2>3, <3>1
      <4> QED
        BY <1>1, <2>2, <4>1
    <3>2. CASE p # Sending(s)
      <4>1. net'[p] = net[p] /\ attempts'[p] = attempts[p]
        BY <2>2, <2>3, <3>2
      <4> QED
        BY <1>1, <2>2, <4>1
    <3> QED
      BY <3>1, <3>2
  <2> QED
    BY <1>2, <2>4
<1>5. ASSUME NEW q \in Packets, LoseDatagram(q)
      PROVE  Sent'
  <2>1. net' = [net EXCEPT ![q] = net[q] - 1] /\ UNCHANGED <<reads, socket, attempts>>
    BY <1>5 DEF LoseDatagram
  <2>2. ASSUME NEW p \in Packets
        PROVE  net'[p] + reads'[p] + Count(socket', p) <= attempts'[p]
    <3>1. net'[p] \in {net[p], net[p] - 1}
      BY <2>1 DEF TypeOK
    <3> QED
      BY <1>1, <2>1, <3>1
  <2> QED
    BY <1>2, <2>2
<1>6. ASSUME NEW q \in Packets, Arrive(q)
      PROVE  Sent'
  <2>1. /\ net' = [net EXCEPT ![q] = net[q] - 1] /\ socket' = Append(socket, q)
        /\ UNCHANGED <<reads, attempts>> /\ socket \in Seq(Packets)
    BY <1>6 DEF Arrive, TypeOK
  <2>2. ASSUME NEW p \in Packets
        PROVE  net'[p] + reads'[p] + Count(socket', p) <= attempts'[p]
    <3>1. net'[p] = net[p] - (IF q = p THEN 1 ELSE 0)
      BY SMTT(30), <1>1, <2>1 DEF TypeOK
    <3>2. Count(socket', p) = Count(socket, p) + (IF q = p THEN 1 ELSE 0)
      BY <2>1, CountAppend
    <3> QED
      BY <1>1, <2>1, <3>1, <3>2
  <2> QED
    BY <1>2, <2>2
<1>7. CASE Read
  <2>1. /\ socket' = Tail(socket) /\ socket \in Seq(Packets) /\ socket # <<>>
        /\ reads' = [reads EXCEPT ![Head(socket)] = reads[Head(socket)] + 1]
        /\ UNCHANGED <<net, attempts>>
    BY <1>7 DEF Read, TypeOK
  <2>2. socket' \in Seq(Packets) /\ Head(socket) \in Packets
    BY <2>1
  <2>3. ASSUME NEW p \in Packets
        PROVE  net'[p] + reads'[p] + Count(socket', p) <= attempts'[p]
    <3>1. reads'[p] = reads[p] + (IF Head(socket) = p THEN 1 ELSE 0)
      <4> DEFINE front == Head(socket)
      <4>1. reads \in [Packets -> Nat] /\ front \in Packets
            /\ reads' = [reads EXCEPT ![front] = reads[front] + 1]
        BY <2>1, <2>2 DEF TypeOK
      <4> HIDE DEF front
      <4>2. front = p => reads'[p] = reads[p] + 1
        BY <4>1
      <4>3. front # p => reads'[p] = reads[p]
        BY <4>1
      <4>4. reads'[p] = reads[p] + (IF front = p THEN 1 ELSE 0)
        BY <1>1, <4>2, <4>3
      <4> QED
        BY <4>4 DEF front
    <3>2. Count(socket, p) = Count(socket', p) + (IF Head(socket) = p THEN 1 ELSE 0)
      BY <2>1, CountTail
    <3>3. Count(socket', p) \in Nat
      BY <2>2, CountType
    <3> DEFINE moved == IF Head(socket) = p THEN 1 ELSE 0
    <3>4. moved \in Nat
      OBVIOUS
    <3>5. reads'[p] = reads[p] + moved
      BY <3>1
    <3>6. Count(socket, p) = Count(socket', p) + moved
      BY <3>2
    <3>7. /\ net[p] \in Nat /\ reads[p] \in Nat /\ attempts[p] \in Nat
          /\ net[p] + reads[p] + Count(socket, p) <= attempts[p]
      BY <1>1
    <3>8. net'[p] = net[p] /\ attempts'[p] = attempts[p]
      BY <2>1
    <3> HIDE DEF moved
    <3> QED
      BY <3>3, <3>4, <3>5, <3>6, <3>7, <3>8
  <2> QED
    BY <1>2, <2>3
<1>8. CASE DecodeThrows \/ DisconnectReceiver
  <2>1. socket' = <<>> /\ UNCHANGED <<net, reads, attempts>>
    BY <1>8 DEF DecodeThrows, DisconnectReceiver
  <2>2. ASSUME NEW p \in Packets
        PROVE  net'[p] + reads'[p] + Count(socket', p) <= attempts'[p]
    BY <1>1, <1>3, <2>1
  <2> QED
    BY <1>2, <2>2
<1>9. CASE UNCHANGED <<net, reads, socket, attempts>>
  BY <1>1, <1>2, <1>9
<1> QED
  BY <1>4, <1>5, <1>6, <1>7, <1>8, <1>9
  DEF Next, SenderNext, ReceiverNext, SendPacket, SenderLoop, SenderIdle, SenderTake, Timeout,
      ReceiveAck, SenderThrows, DisconnectSender, LoseAck, ReceiverLoop, EpollEvent,
      EpollTimeout, ReadFails, Acknowledge, QueuePacket, PopReceivedPacket

\* The receiver sees a packet at most MaxTries times: sendMessageTo resends it as often
\* as its counter allows, and nothing else makes copies.
THEOREM ResendsOnly == Spec => []CopiesBounded
<1>1. Init => Tried /\ Sent
  <2> SUFFICES ASSUME Init PROVE Tried /\ Sent
    OBVIOUS
  <2>1. Tried
    BY NumbersAssumption DEF Init, Tried, Busy
  <2>2. \A p \in Packets : Count(<<>>, p) = 0
    <3>1. \A p : {i \in 1..Len(<<>>) : <<>>[i] = p} = {}
      OBVIOUS
    <3> QED
      BY <3>1, FS_EmptySet DEF Count
  <2>3. Sent
    BY <2>2 DEF Init, Sent, Copies
  <2> QED
    BY <2>1, <2>3
<1>2. PeerInv /\ Tried /\ Sent /\ [Next]_vars => (Tried /\ Sent)'
  <2>1. ASSUME PeerInv, Tried, Sent, Next PROVE (Tried /\ Sent)'
    BY <2>1, TriedStep, SentStep DEF PeerInv
  <2>2. ASSUME Tried, Sent, UNCHANGED vars PROVE (Tried /\ Sent)'
    BY <2>2 DEF vars, senderVars, wireVars, receiverVars, Tried, Sent, Busy, Sending,
                Copies, Count
  <2> QED
    BY <2>1, <2>2
<1>3. Tried /\ Sent => CopiesBounded
  BY DEF Tried, Sent, CopiesBounded
<1> QED
  BY <1>1, <1>2, <1>3, PeerInvariance, PTL DEF Spec

=============================================================================
