------------------------ MODULE SessionQueuesProof ------------------------
(***************************************************************************)
(* What SessionQueues keeps for every number of callers and packets, as    *)
(* theorems.  The inductive invariant is Inv; the run server checks it on  *)
(* a small instance.                                                       *)
(***************************************************************************)
EXTENDS SessionQueues, TLAPS, FiniteSetTheorems

\* A queue holds its latest packets, in the order they were put.
Numbered ==
  \A q \in Queues :
    /\ Len(queue[q]) <= put[q]
    /\ \A i \in 1..Len(queue[q]) : queue[q][i] = put[q] - Len(queue[q]) + i

\* The socket is closed before the flag is cleared.
ClosedFirst ==
  /\ ~connected => ~socketOpen
  /\ \A t \in Threads : pc[t] = "closing" => ~socketOpen

\* The packet being sent is the last one taken, or the stale one of an empty
\* queue, for which the socket is closed.
HandIsLast ==
  pc[Sender] = "sending" =>
    IF hand = Stale THEN ~socketOpen ELSE hand = Taken

\* Who can hold a mutex between two steps: the sender writing to the socket, the
\* thread inside disconnect(), and for ever a caller of peekRequest.
MutexHolders ==
  \A m \in Mutexes :
    owner[m] # Nobody =>
      \/ m = Outgoing /\ owner[m] = Sender /\ pc[Sender] = "sending"
      \/ m = "connected" /\ pc[owner[m]] = "closing"
      \/ m = "request" /\ owner[m] \in Peekers /\ pc[owner[m]] = "stuck"

\* The inductive invariant: every step of the session keeps it, and it implies
\* the safety properties of SessionQueues that do not speak of one consumer.
Inv ==
  /\ TypeOK
  /\ Numbered
  /\ ClosedFirst
  /\ HandIsLast
  /\ TakenAccounted
  /\ SentInPushOrder
  /\ MutexHolders
  /\ NoLostWakeup

-----------------------------------------------------------------------------
\* The queue the session sends from and the one it receives into are the two queues.
LEMMA TwoQueues ==
  /\ Outgoing \in Queues /\ Incoming \in Queues /\ Outgoing # Incoming
  /\ Queues = {Outgoing, Incoming}
BY RoleAssumption DEF Outgoing, Incoming, Queues

\* The initial state satisfies the invariant.
LEMMA InvInit == Init => Inv
<1> SUFFICES ASSUME Init PROVE Inv
  OBVIOUS
<1>1. TypeOK
  <2>1. queue \in [Queues -> Seq(Nat)] /\ put \in [Queues -> Nat]
    BY DEF Init
  <2>2. owner \in [Mutexes -> Threads \cup {Nobody}] /\ index \in [Callers -> Nat]
    BY DEF Init
  <2>3. pc \in [Threads -> Labels]
    BY DEF Init, Labels
  <2>4. hand \in Nat /\ sent \in Seq(Nat) /\ failed \subseteq Nat
    BY DEF Init, Stale
  <2> QED
    BY <2>1, <2>2, <2>3, <2>4 DEF Init, TypeOK
<1>2. Numbered /\ ClosedFirst /\ HandIsLast /\ TakenAccounted /\ SentInPushOrder
  <2>1. pc[Sender] = "loop" /\ \A t \in Threads : pc[t] # "closing"
    BY ThreadsAssumption DEF Init, Threads
  <2>2. Numbered /\ ClosedFirst /\ HandIsLast /\ SentInPushOrder
    BY <2>1 DEF Init, Numbered, ClosedFirst, HandIsLast, SentInPushOrder
  <2>3. Written = {} /\ failed = {} /\ Taken = 0 /\ InHand = 0
    BY <2>1, TwoQueues DEF Init, Written, Taken, InHand
  <2>4. TakenAccounted
    BY <2>3 DEF TakenAccounted, Settled
  <2> QED
    BY <2>2, <2>4
<1>3. MutexHolders
  BY DEF Init, MutexHolders
<1>4. NoLostWakeup
  BY ThreadsAssumption DEF Init, NoLostWakeup, Waiting, Consumers, Threads
<1> QED
  BY <1>1, <1>2, <1>3, <1>4 DEF Inv

\* The target label of every step of control is a label, so these steps keep the
\* types; the others change one more variable each.
LEMMA TypeStep ==
  ASSUME TypeOK, Next
  PROVE  TypeOK'
<1> USE TwoQueues, ThreadsAssumption
<1>0. /\ queue[Outgoing] \in Seq(Nat) /\ queue[Incoming] \in Seq(Nat)
      /\ put[Outgoing] \in Nat /\ put[Incoming] \in Nat
  BY DEF TypeOK
<1>1. \A t \in Callers : t \in Threads /\ t # Receiver /\ t # Sender
  BY DEF Threads
<1>2. Sender \in Threads /\ Receiver \in Threads /\ Sender # Receiver
  BY DEF Threads
<1>3. ASSUME NEW q \in Queues, Enqueue(q)
      PROVE  queue' \in [Queues -> Seq(Nat)] /\ put' \in [Queues -> Nat]
  <2>1. queue[q] \in Seq(Nat) /\ put[q] \in Nat
    BY DEF TypeOK
  <2>2. Append(queue[q], put[q] + 1) \in Seq(Nat)
    BY <2>1
  <2> QED
    BY <1>3, <2>1, <2>2 DEF Enqueue, TypeOK
<1>4. ASSUME NEW q \in Queues, queue[q] # <<>>
      PROVE  /\ [queue EXCEPT ![q] = Tail(@)] \in [Queues -> Seq(Nat)]
             /\ Head(queue[q]) \in Nat
  <2>1. queue[q] \in Seq(Nat)
    BY DEF TypeOK
  <2>2. Tail(queue[q]) \in Seq(Nat) /\ Head(queue[q]) \in Nat
    BY <1>4, <2>1
  <2> QED
    BY <2>2 DEF TypeOK
<1>5. ASSUME OnlyControl, NEW t \in Threads, NEW l \in Labels, Goto(t, l)
      PROVE  TypeOK'
  BY <1>5 DEF OnlyControl, Goto, TypeOK
<1>6. ASSUME NEW t \in Callers, Push(t)
      PROVE  TypeOK'
  <2>1. pc' \in [Threads -> Labels]
    BY <1>6, <1>1 DEF Push, Goto, TypeOK, Labels
  <2> QED
    BY <1>3, <1>6, <2>1 DEF Push, TypeOK
<1>7. ASSUME ReceiverPush
      PROVE  TypeOK'
  <2>1. pc' \in [Threads -> Labels]
    BY <1>7, <1>2 DEF ReceiverPush, Goto, TypeOK, Labels
  <2> QED
    BY <1>3, <1>7, <2>1 DEF ReceiverPush, TypeOK
<1>8. ASSUME NEW t \in Threads, Notify(t)
      PROVE  TypeOK'
  <2>1. pc' \in [Threads -> Labels]
    BY <1>8 DEF Notify, Goto, Resume, TypeOK, Labels
  <2> QED
    BY <1>8, <2>1 DEF Notify, OnlyControl, TypeOK
<1>9. ASSUME NEW t \in Callers, Pop(t)
      PROVE  TypeOK'
  <2>1. pc' \in [Threads -> Labels]
    BY <1>9, <1>1 DEF Pop, PopWait, PopFirst, PopEmpty, Goto, TypeOK, Labels
  <2>2. queue' \in [Queues -> Seq(Nat)]
    BY <1>9, <1>4 DEF Pop, PopWait, PopFirst, PopEmpty, TypeOK
  <2>3. faults' \subseteq {"pop", "send", "peek"} /\ crashed' \in BOOLEAN
    BY <1>9 DEF Pop, PopWait, PopFirst, PopEmpty, Undefined, TypeOK
  <2> QED
    BY <1>9, <2>1, <2>2, <2>3 DEF Pop, TypeOK
<1>10. ASSUME NEW t \in Callers, NEW i \in Nat, PeekResponse(t, i)
       PROVE  TypeOK'
  <2>1. pc' \in [Threads -> Labels]
    BY <1>10, <1>1 DEF PeekResponse, Goto, TypeOK, Labels
  <2> QED
    BY <1>10, <2>1 DEF PeekResponse, TypeOK
<1>11. ASSUME NEW t \in Callers, PeekResponseRead(t)
       PROVE  TypeOK'
  <2>1. pc' \in [Threads -> Labels]
    BY <1>11, <1>1 DEF PeekResponseRead, Goto, TypeOK, Labels
  <2>2. faults' \subseteq {"pop", "send", "peek"} /\ crashed' \in BOOLEAN
    BY <1>11 DEF PeekResponseRead, Undefined, TypeOK
  <2> QED
    BY <1>11, <2>1, <2>2 DEF PeekResponseRead, TypeOK
<1>12. ASSUME NEW t \in Callers, PeekRequest(t)
       PROVE  TypeOK'
  <2>1. pc' \in [Threads -> Labels]
    BY <1>12, <1>1 DEF PeekRequest, Goto, TypeOK, Labels
  <2>2. owner' \in [Mutexes -> Threads \cup {Nobody}]
    BY <1>12, <1>1 DEF PeekRequest, TypeOK
  <2> QED
    BY <1>12, <2>1, <2>2 DEF PeekRequest, TypeOK
<1>13. ASSUME NEW t \in Threads, DisconnectClose(t) \/ DisconnectFlag(t)
       PROVE  TypeOK'
  <2>1. pc' \in [Threads -> Labels]
    BY <1>13 DEF DisconnectClose, DisconnectFlag, Goto, Resume, TypeOK, Labels
  <2>2. owner' \in [Mutexes -> Threads \cup {Nobody}]
    BY <1>13 DEF DisconnectClose, DisconnectFlag, TypeOK
  <2> QED
    BY <1>13, <2>1, <2>2 DEF DisconnectClose, DisconnectFlag, TypeOK
<1>14. ASSUME SenderTake
       PROVE  TypeOK'
  <2>1. pc' \in [Threads -> Labels]
    BY <1>14, <1>2 DEF SenderTake, SenderWait, SenderFirst, SenderEmpty, Goto, TypeOK, Labels
  <2>2. queue' \in [Queues -> Seq(Nat)]
    BY <1>14, <1>4 DEF SenderTake, SenderWait, SenderFirst, SenderEmpty, TypeOK
  <2>3. faults' \subseteq {"pop", "send", "peek"} /\ crashed' \in BOOLEAN
    BY <1>14 DEF SenderTake, SenderWait, SenderFirst, SenderEmpty, Undefined, TypeOK
  <2>4. owner' \in [Mutexes -> Threads \cup {Nobody}]
    BY <1>14, <1>2 DEF SenderTake, SenderWait, SenderFirst, SenderEmpty, TypeOK
  <2>5. hand' \in Nat
    BY <1>14, <1>4, TwoQueues
    DEF SenderTake, SenderWait, SenderFirst, SenderEmpty, Stale, TypeOK
  <2> QED
    BY <1>14, <2>1, <2>2, <2>3, <2>4, <2>5 DEF SenderTake, TypeOK
<1>15. ASSUME SenderSend
       PROVE  TypeOK'
  <2>1. pc' \in [Threads -> Labels]
    BY <1>15, <1>2 DEF SenderSend, Goto, TypeOK, Labels
  <2>2. owner' \in [Mutexes -> Threads \cup {Nobody}]
    BY <1>15 DEF SenderSend, TypeOK
  <2>3. sent' \in Seq(Nat) /\ failed' \subseteq Nat /\ hand' \in Nat
    <3>1. hand \in Nat /\ sent \in Seq(Nat) /\ failed \subseteq Nat
      BY DEF TypeOK
    <3>2. SenderWrites => sent' \in Seq(Nat) /\ failed' \subseteq Nat
      BY <3>1 DEF SenderWrites
    <3>3. SenderFails => sent' \in Seq(Nat) /\ failed' \subseteq Nat
      BY <3>1 DEF SenderFails
    <3> QED
      BY <1>15, <3>1, <3>2, <3>3 DEF SenderSend
  <2> QED
    BY <1>15, <2>1, <2>2, <2>3 DEF SenderSend, TypeOK
<1>16. ASSUME ReceiverHangup
       PROVE  TypeOK'
  <2>1. pc' \in [Threads -> Labels]
    BY <1>16, <1>2 DEF ReceiverHangup, Goto, TypeOK, Labels
  <2> QED
    BY <1>16, <2>1 DEF ReceiverHangup, TypeOK
<1>17. ASSUME NEW t \in Callers, Has(t)
       PROVE  TypeOK'
  BY <1>1, <1>5, <1>17 DEF Has, Labels
<1>18. ASSUME NEW t \in Threads, SpuriousWake(t)
       PROVE  TypeOK'
  BY <1>5, <1>18 DEF SpuriousWake, Labels
<1>19. ASSUME SenderLoop
       PROVE  TypeOK'
  BY <1>2, <1>5, <1>19 DEF SenderLoop, Labels
<1>20. ASSUME \/ ReceiverLoop \/ ReceiverEvent \/ ReceiverNothing \/ ReceiverPacket
              \/ ReceiverEof
       PROVE  TypeOK'
  BY <1>2, <1>5, <1>20
  DEF ReceiverLoop, ReceiverEvent, ReceiverNothing, ReceiverPacket, ReceiverEof, Labels
<1>21. \A i \in 0..(MaxPushes + MaxArrivals) : i \in Nat
  BY BoundsAssumption
<1> QED
  BY <1>6, <1>7, <1>8, <1>9, <1>10, <1>11, <1>12, <1>13, <1>14, <1>15, <1>16, <1>17,
     <1>18, <1>19, <1>20, <1>21
  DEF Next, CallerNext, SenderNext, ReceiverNext, SharedNext

-----------------------------------------------------------------------------
\* The five steps that move packets.  No other step touches a packet, opens the
\* socket, or takes the sender into or out of sendPacket().
LEMMA PacketSteps ==
  ASSUME TypeOK, Next
  PROVE  \/ \E t \in Callers : Push(t) \/ Pop(t)
         \/ ReceiverPush \/ SenderTake \/ SenderSend
         \/ /\ UNCHANGED <<queue, put, hand, sent, failed>>
            /\ socketOpen' => socketOpen
            /\ pc'[Sender] = "sending" <=> pc[Sender] = "sending"
<1> USE ThreadsAssumption DEF Goto, Threads, TypeOK
<1>1. ASSUME NEW t \in Callers,
             \/ Has(t) \/ PeekResponseRead(t) \/ PeekRequest(t)
             \/ \E i \in 0..(MaxPushes + MaxArrivals) : PeekResponse(t, i)
      PROVE  UNCHANGED <<queue, put, hand, sent, failed, socketOpen>> /\ pc'[Sender] = pc[Sender]
  BY <1>1 DEF Has, PeekResponse, PeekResponseRead, PeekRequest, OnlyControl
<1>2. ASSUME NEW t \in Threads, Notify(t)
      PROVE  /\ UNCHANGED <<queue, put, hand, sent, failed, socketOpen>>
             /\ pc'[Sender] = "sending" <=> pc[Sender] = "sending"
  BY <1>2 DEF Notify, OnlyControl, Resume, Waiting
<1>3. ASSUME NEW t \in Threads, SpuriousWake(t) \/ DisconnectClose(t) \/ DisconnectFlag(t)
      PROVE  /\ UNCHANGED <<queue, put, hand, sent, failed>> /\ (socketOpen' => socketOpen)
             /\ pc'[Sender] = "sending" <=> pc[Sender] = "sending"
  BY <1>3 DEF SpuriousWake, DisconnectClose, DisconnectFlag, OnlyControl, Resume
<1>4. ASSUME SenderLoop
      PROVE  /\ UNCHANGED <<queue, put, hand, sent, failed, socketOpen>>
             /\ pc'[Sender] = "sending" <=> pc[Sender] = "sending"
  BY <1>4 DEF SenderLoop, OnlyControl
<1>5. ASSUME \/ ReceiverLoop \/ ReceiverEvent \/ ReceiverNothing \/ ReceiverPacket
             \/ ReceiverEof \/ ReceiverHangup
      PROVE  /\ UNCHANGED <<queue, put, hand, sent, failed>> /\ (socketOpen' => socketOpen)
             /\ pc'[Sender] = pc[Sender]
  BY <1>5 DEF ReceiverLoop, ReceiverEvent, ReceiverNothing, ReceiverPacket, ReceiverEof,
              ReceiverHangup, OnlyControl
<1> QED
  BY <1>1, <1>2, <1>3, <1>4, <1>5
  DEF Next, CallerNext, SenderNext, ReceiverNext, SharedNext

\* A push appends the next number, a take removes the oldest.
LEMMA NumberedStep ==
  ASSUME TypeOK, Numbered, Next
  PROVE  Numbered'
<1> USE TwoQueues
<1>1. ASSUME NEW q \in Queues, Enqueue(q)
      PROVE  Numbered'
  <2> SUFFICES ASSUME NEW r \in Queues
               PROVE  /\ Len(queue'[r]) <= put'[r]
                      /\ \A i \in 1..Len(queue'[r]) :
                           queue'[r][i] = put'[r] - Len(queue'[r]) + i
    BY DEF Numbered
  <2>1. queue[r] \in Seq(Nat) /\ put[r] \in Nat
    BY DEF TypeOK
  <2>2. CASE r # q
    BY <1>1, <2>2 DEF Enqueue, Numbered, TypeOK
  <2>3. CASE r = q
    <3>1. queue'[r] = Append(queue[r], put[r] + 1) /\ put'[r] = put[r] + 1
      BY <1>1, <2>3 DEF Enqueue, TypeOK
    <3> QED
      <4> DEFINE n == Len(queue[r])
      <4>1. n \in Nat /\ n <= put[r]
            /\ \A i \in 1..n : queue[r][i] = put[r] - n + i
        BY SMTT(30), <2>1 DEF Numbered
      <4>2. Len(queue'[r]) = n + 1 /\ queue'[r][n + 1] = put[r] + 1
            /\ \A i \in 1..n : queue'[r][i] = queue[r][i]
        BY <2>1, <3>1
      <4>3. ASSUME NEW i \in 1..(n + 1)
            PROVE  queue'[r][i] = (put[r] + 1) - (n + 1) + i
        <5> HIDE DEF n
        <5>1. CASE i = n + 1
          BY <2>1, <4>1, <4>2, <5>1
        <5>2. CASE i \in 1..n
          <6>1. queue'[r][i] = put[r] - n + i
            BY <4>1, <4>2, <5>2
          <6> QED
            BY <2>1, <4>1, <6>1
        <5> QED
          BY <4>1, <5>1, <5>2
      <4> DEFINE len == Len(queue'[r])
      <4>4. put'[r] = put[r] + 1 /\ len = n + 1
        BY <3>1, <4>2
      <4> HIDE DEF n, len
      <4>5. len <= put'[r]
        BY <2>1, <4>1, <4>4
      <4>6. ASSUME NEW i \in 1..len
            PROVE  queue'[r][i] = put'[r] - len + i
        BY <4>3, <4>4
      <4> QED
        BY <4>5, <4>6 DEF len
  <2> QED
    BY <2>2, <2>3
<1>2. ASSUME NEW q \in Queues, queue[q] # <<>>, put' = put,
             queue' = [queue EXCEPT ![q] = Tail(@)]
      PROVE  Numbered'
  <2> SUFFICES ASSUME NEW r \in Queues
               PROVE  /\ Len(queue'[r]) <= put'[r]
                      /\ \A i \in 1..Len(queue'[r]) :
                           queue'[r][i] = put'[r] - Len(queue'[r]) + i
    BY DEF Numbered
  <2>1. queue[r] \in Seq(Nat) /\ put[r] \in Nat
    BY DEF TypeOK
  <2>2. CASE r # q
    BY <1>2, <2>2 DEF Numbered, TypeOK
  <2>3. CASE r = q
    <3>1. queue'[r] = Tail(queue[r]) /\ put'[r] = put[r]
      BY <1>2, <2>3 DEF TypeOK
    <3>2. Len(Tail(queue[r])) = Len(queue[r]) - 1
          /\ \A i \in 1..Len(Tail(queue[r])) : Tail(queue[r])[i] = queue[r][i + 1]
      BY <1>2, <2>1, <2>3
    <3> QED
      <4> DEFINE n == Len(queue[r])
      <4>1. n \in Nat /\ n <= put[r] /\ n > 0
            /\ \A i \in 1..n : queue[r][i] = put[r] - n + i
        BY <1>2, <2>1, <2>3 DEF Numbered
      <4>2. Len(queue'[r]) = n - 1 /\ \A i \in 1..(n - 1) : queue'[r][i] = queue[r][i + 1]
        BY <3>1, <3>2
      <4>3. ASSUME NEW i \in 1..(n - 1)
            PROVE  queue'[r][i] = put[r] - (n - 1) + i
        <5> HIDE DEF n
        <5>1. i + 1 \in 1..n
          BY <4>1
        <5>2. queue'[r][i] = put[r] - n + (i + 1)
          BY <4>1, <4>2, <5>1
        <5>3. put[r] \in Int /\ n \in Int /\ i \in Int
          BY <2>1, <4>1
        <5>4. put[r] - n + (i + 1) = put[r] - (n - 1) + i
          BY <5>3
        <5> QED
          BY <5>2, <5>4
      <4> DEFINE len == Len(queue'[r])
      <4>4. put'[r] = put[r] /\ len = n - 1
        BY <3>1, <4>2
      <4> HIDE DEF n, len
      <4>5. len <= put'[r]
        BY <2>1, <4>1, <4>4
      <4>6. ASSUME NEW i \in 1..len
            PROVE  queue'[r][i] = put'[r] - len + i
        BY <4>3, <4>4
      <4> QED
        BY <4>5, <4>6 DEF len
  <2> QED
    BY <2>2, <2>3
<1>3. ASSUME UNCHANGED <<queue, put>>
      PROVE  Numbered'
  BY <1>3 DEF Numbered
<1>4. ASSUME NEW t \in Callers, Push(t) \/ Pop(t)
      PROVE  Numbered'
  BY <1>1, <1>2, <1>3, <1>4 DEF Push, Pop, PopWait, PopFirst, PopEmpty
<1>5. ASSUME ReceiverPush \/ SenderTake \/ SenderSend
      PROVE  Numbered'
  BY <1>1, <1>2, <1>3, <1>5
  DEF ReceiverPush, SenderTake, SenderWait, SenderFirst, SenderEmpty, SenderSend
<1> QED
  BY <1>3, <1>4, <1>5, PacketSteps

\* The flag is cleared by a thread that has closed the socket, and the socket is
\* never opened again.
LEMMA ClosedFirstStep ==
  ASSUME TypeOK, ClosedFirst, Next
  PROVE  ClosedFirst'
<1> USE ThreadsAssumption DEF ClosedFirst, Goto, Threads, TypeOK
<1>1. ASSUME NEW t \in Callers, CallerNext(t)
      PROVE  ClosedFirst'
  BY <1>1 DEF CallerNext, Push, Has, Pop, PopWait, PopFirst, PopEmpty, PeekResponse,
              PeekResponseRead, PeekRequest, OnlyControl
<1>2. ASSUME SenderNext
      PROVE  ClosedFirst'
  BY <1>2 DEF SenderNext, SenderLoop, SenderTake, SenderWait, SenderFirst, SenderEmpty,
              SenderSend, OnlyControl
<1>3. ASSUME ReceiverNext
      PROVE  ClosedFirst'
  BY <1>3 DEF ReceiverNext, ReceiverLoop, ReceiverEvent, ReceiverNothing, ReceiverPacket,
              ReceiverPush, ReceiverEof, ReceiverHangup, OnlyControl
<1>4. ASSUME NEW t \in Threads, SharedNext(t)
      PROVE  ClosedFirst'
  <2>1. CASE Notify(t)
    BY <2>1 DEF Notify, Resume, OnlyControl, Waiting
  <2>2. CASE SpuriousWake(t)
    BY <2>2 DEF SpuriousWake, OnlyControl
  <2>3. CASE DisconnectClose(t)
    BY <2>3 DEF DisconnectClose
  <2>4. CASE DisconnectFlag(t)
    BY <2>4 DEF DisconnectFlag, Resume
  <2> QED
    BY <1>4, <2>1, <2>2, <2>3, <2>4 DEF SharedNext
<1> QED
  BY <1>1, <1>2, <1>3, <1>4 DEF Next

\* The account of the outgoing packets; a step moves one of them to the next place.
Flow == HandIsLast /\ TakenAccounted /\ SentInPushOrder

\* The numbers of the packets settled grow by the next one.
LEMMA OneMore ==
  \A n \in Nat : 1..(n + 1) = (1..n) \cup {n + 1} /\ n + 1 \notin 1..n /\ n + 1 # 0
OBVIOUS

\* The packets written grow by the one that is written next.
LEMMA WrittenGrows ==
  ASSUME sent \in Seq(Nat), NEW x \in Nat, sent' = Append(sent, x)
  PROVE  Written' = Written \cup {x}
<1> DEFINE n == Len(sent)
<1>1. n \in Nat
  BY DEF n
<1>2. Len(sent') = n + 1 /\ sent'[n + 1] = x /\ \A i \in 1..n : sent'[i] = sent[i]
  BY DEF n
<1>3. Written = {sent[i] : i \in 1..n} /\ Written' = {sent'[i] : i \in 1..(n + 1)}
  BY <1>2 DEF Written
<1> HIDE DEF n
<1>4. 1..(n + 1) = (1..n) \cup {n + 1}
  BY <1>1, OneMore
<1> QED
  BY <1>2, <1>3, <1>4

\* A step that leaves alone what the account speaks of.
LEMMA FlowStays ==
  ASSUME Flow, Taken' = Taken, UNCHANGED <<hand, sent, failed>>, socketOpen' => socketOpen,
         pc'[Sender] = "sending" <=> pc[Sender] = "sending"
  PROVE  Flow'
<1>1. HandIsLast' /\ SentInPushOrder'
  BY DEF Flow, HandIsLast, SentInPushOrder
<1>2. Written' = Written
  BY DEF Written
<1>3. Settled' = Settled
  BY DEF Settled, InHand
<1> QED
  BY <1>1, <1>2, <1>3 DEF Flow, TakenAccounted

\* How many packets have left the queue, as a push, a take and other steps change it.
LEMMA TakenStep ==
  ASSUME TypeOK, Numbered, Next
  PROVE  /\ Taken \in Nat
         /\ (\E t \in Callers : Push(t) \/ Pop(t)) \/ ReceiverPush => Taken' = Taken
         /\ SenderTake /\ queue[Outgoing] # <<>>
              => Taken' = Taken + 1 /\ Head(queue[Outgoing]) = Taken + 1
         /\ SenderSend \/ UNCHANGED <<queue, put>> => Taken' = Taken
         /\ SenderTake /\ queue[Outgoing] = <<>> => Taken' = Taken
<1> USE TwoQueues
<1> DEFINE p == put[Outgoing]
           n == Len(queue[Outgoing])
<1>0. queue[Outgoing] \in Seq(Nat) /\ p \in Nat /\ n \in Nat /\ n <= p /\ Taken = p - n
  BY DEF TypeOK, Numbered, Taken
<1>1. Taken \in Nat
  <2> HIDE DEF p, n
  <2> QED
    BY <1>0
<1>2. ASSUME queue'[Outgoing] = queue[Outgoing], put'[Outgoing] = put[Outgoing]
      PROVE  Taken' = Taken
  BY <1>2 DEF Taken
<1>3. ASSUME NEW t \in Callers, Push(t)
      PROVE  Taken' = Taken
  <2>1. queue'[Outgoing] = Append(queue[Outgoing], p + 1) /\ put'[Outgoing] = p + 1
    BY <1>3 DEF Push, Enqueue, TypeOK
  <2>2. Len(queue'[Outgoing]) = n + 1
    BY <1>0, <2>1
  <2>3. Taken' = (p + 1) - (n + 1)
    BY <2>1, <2>2 DEF Taken
  <2> HIDE DEF p, n
  <2> QED
    BY <1>0, <2>3
<1>4. ASSUME NEW t \in Callers, Pop(t)
      PROVE  Taken' = Taken
  BY <1>2, <1>4 DEF Pop, PopWait, PopFirst, PopEmpty, TypeOK
<1>5. ASSUME ReceiverPush
      PROVE  Taken' = Taken
  BY <1>2, <1>5 DEF ReceiverPush, Enqueue, TypeOK
<1>6. ASSUME SenderTake, queue[Outgoing] # <<>>
      PROVE  Taken' = Taken + 1 /\ Head(queue[Outgoing]) = Taken + 1
  <2>1. queue'[Outgoing] = Tail(queue[Outgoing]) /\ put' = put
    BY <1>6 DEF SenderTake, SenderWait, SenderFirst, SenderEmpty, TypeOK
  <2>2. n > 0 /\ Head(queue[Outgoing]) = queue[Outgoing][1] /\ Len(queue'[Outgoing]) = n - 1
    BY <1>0, <1>6, <2>1
  <2>3. queue[Outgoing][1] = p - n + 1
    BY <1>0, <2>2 DEF Numbered
  <2>4. Taken' = p - (n - 1)
    BY <2>1, <2>2 DEF Taken
  <2> HIDE DEF p, n
  <2> QED
    BY <1>0, <2>2, <2>3, <2>4
<1>7. ASSUME SenderTake, queue[Outgoing] = <<>>
      PROVE  Taken' = Taken
  BY <1>2, <1>7 DEF SenderTake, SenderWait, SenderFirst, SenderEmpty
<1>8. ASSUME SenderSend \/ UNCHANGED <<queue, put>>
      PROVE  Taken' = Taken
  BY <1>2, <1>8 DEF SenderSend
<1> QED
  BY <1>1, <1>3, <1>4, <1>5, <1>6, <1>7, <1>8

\* Every step keeps the account of the outgoing packets: what has left the queue is in
\* hand, written or failed, and what was written was pushed in that order.
LEMMA FlowStep ==
  ASSUME TypeOK, Numbered, ClosedFirst, Flow, Next
  PROVE  Flow'
<1> USE TwoQueues, ThreadsAssumption
<1>0. /\ sent \in Seq(Nat) /\ failed \subseteq Nat /\ hand \in Nat /\ Taken \in Nat
      /\ Sender \in Threads /\ pc \in [Threads -> Labels]
  BY TakenStep DEF TypeOK, Threads
<1>1. ASSUME NEW t \in Callers, Push(t) \/ Pop(t)
      PROVE  Flow'
  <2>1. UNCHANGED <<hand, sent, failed, socketOpen>> /\ pc'[Sender] = pc[Sender]
    BY <1>0, <1>1 DEF Push, Pop, PopWait, PopFirst, PopEmpty, Goto
  <2> QED
    BY <1>1, <2>1, TakenStep, FlowStays
<1>2. ASSUME ReceiverPush
      PROVE  Flow'
  <2>1. UNCHANGED <<hand, sent, failed, socketOpen>> /\ pc'[Sender] = pc[Sender]
    BY <1>0, <1>2 DEF ReceiverPush, Goto
  <2> QED
    BY <1>2, <2>1, TakenStep, FlowStays
<1>3. ASSUME SenderTake
      PROVE  Flow'
  <2>1. /\ pc[Sender] # "sending" /\ UNCHANGED <<sent, failed, socketOpen>>
        /\ Written' = Written /\ SentInPushOrder'
    BY <1>3 DEF SenderTake, Flow, SentInPushOrder, Written
  <2>2. InHand = 0 /\ Settled = Taken
    BY <1>0, <2>1 DEF InHand, Settled
  <2>3. ASSUME Settled' = Taken
        PROVE  TakenAccounted'
    BY <2>1, <2>2, <2>3 DEF Flow, TakenAccounted
  <2>4. CASE SenderWait
    <3>1. pc'[Sender] = "waiting" /\ UNCHANGED hand /\ queue[Outgoing] = <<>>
      BY <1>0, <2>4 DEF SenderWait, Goto
    <3> QED
      BY <1>3, <2>1, <3>1, TakenStep, FlowStays
  <2>5. CASE SenderFirst
    <3>1. /\ pc'[Sender] = "sending" /\ hand' = Taken + 1 /\ Taken' = Taken + 1
      BY <1>0, <1>3, <2>5, TakenStep DEF SenderFirst, Goto
    <3>2. HandIsLast' /\ InHand' = 1
      BY <1>0, <3>1 DEF HandIsLast, InHand, Stale
    <3>3. Settled' = Taken
      BY <1>0, <3>1, <3>2 DEF Settled
    <3> QED
      BY <2>1, <2>3, <3>2, <3>3 DEF Flow
  <2>6. CASE SenderEmpty
    <3>1. ~socketOpen' /\ hand' = Stale /\ Taken' = Taken
      BY <1>3, <2>1, <2>6, TakenStep DEF SenderEmpty, ClosedFirst
    <3>2. HandIsLast' /\ InHand' = 0
      BY <3>1 DEF HandIsLast, InHand
    <3>3. Settled' = Taken
      BY <1>0, <3>1, <3>2 DEF Settled
    <3> QED
      BY <2>1, <2>3, <3>2, <3>3 DEF Flow
  <2> QED
    BY <1>3, <2>4, <2>5, <2>6 DEF SenderTake
<1>4. ASSUME SenderSend
      PROVE  Flow'
  <2>1. /\ pc[Sender] = "sending" /\ pc'[Sender] = "loop" /\ InHand' = 0
        /\ UNCHANGED socketOpen /\ Taken' = Taken
    BY <1>0, <1>4, TakenStep DEF SenderSend, Goto, InHand
  <2>2. HandIsLast' /\ Settled' = Taken
    BY <1>0, <2>1 DEF HandIsLast, Settled
  <2>3. CASE hand = Stale
    <3>1. Settled = Taken /\ UNCHANGED <<sent, failed>>
      <4>1. InHand = 0 /\ ~socketOpen
        BY <2>1, <2>3 DEF InHand, Flow, HandIsLast
      <4>2. SenderFails
        BY <1>4, <4>1 DEF SenderSend, SenderWrites
      <4>3. UNCHANGED <<sent, failed>>
        BY <2>3, <4>2 DEF SenderFails
      <4> QED
        BY <1>0, <4>1, <4>3 DEF Settled
    <3>2. Written' = Written /\ SentInPushOrder'
      BY <3>1 DEF Written, Flow, SentInPushOrder
    <3> QED
      BY <2>2, <3>1, <3>2 DEF Flow, TakenAccounted
  <2>4. CASE hand # Stale
    <3>1. hand = Taken /\ Settled = Taken - 1 /\ Taken > 0
      BY <1>0, <2>1, <2>4 DEF Flow, HandIsLast, Settled, InHand, Stale
    <3>2. 1..Taken = (1..Settled) \cup {hand} /\ hand \notin 1..Settled /\ Settled \in Nat
      BY <1>0, <3>1, OneMore
    <3>3. Written \cup failed = 1..Settled /\ Written \cap failed = {}
      BY DEF Flow, TakenAccounted
    <3>4. CASE SenderWrites
      <4>1. sent' = Append(sent, hand) /\ UNCHANGED failed
        BY <3>4 DEF SenderWrites
      <4>2. Written' = Written \cup {hand}
        BY <1>0, <4>1, WrittenGrows
      <4>3. TakenAccounted'
        BY <2>2, <3>2, <3>3, <4>1, <4>2 DEF TakenAccounted
      <4>4. SentInPushOrder'
        <5> DEFINE n == Len(sent)
        <5>1. n \in Nat /\ \A i \in 1..n : sent[i] \in Nat /\ sent[i] \in 1..Settled
          BY <1>0, <3>3 DEF Written
        <5>2. /\ Len(sent') = n + 1 /\ sent'[n + 1] = hand
              /\ \A i \in 1..n : sent'[i] = sent[i]
          BY <1>0, <4>1
        <5>3. \A i \in 1..n : sent[i] # Stale /\ \A j \in 1..(i - 1) : sent[j] < sent[i]
          BY DEF Flow, SentInPushOrder
        <5>4. \A i \in 1..n : sent[i] < hand
          BY <1>0, <3>1, <5>1
        <5> SUFFICES ASSUME NEW i \in 1..Len(sent')
                     PROVE  /\ sent'[i] # Stale
                            /\ \A j \in 1..(i - 1) : sent'[j] < sent'[i]
          BY DEF SentInPushOrder
        <5> HIDE DEF n
        <5>5. CASE i = n + 1
          <6>1. \A j \in 1..(i - 1) : j \in 1..n
            BY <5>1, <5>5
          <6> QED
            BY <2>4, <5>2, <5>4, <5>5, <6>1
        <5>6. CASE i \in 1..n
          <6>1. \A j \in 1..(i - 1) : j \in 1..n
            BY <5>1, <5>6
          <6> QED
            BY <5>2, <5>3, <5>6, <6>1
        <5> QED
          BY <5>1, <5>2, <5>5, <5>6
      <4> QED
        BY <2>2, <4>3, <4>4 DEF Flow
    <3>5. CASE SenderFails
      <4>1. failed' = failed \cup {hand} /\ UNCHANGED sent
        BY <2>4, <3>5 DEF SenderFails
      <4>2. Written' = Written /\ SentInPushOrder'
        BY <4>1 DEF Written, Flow, SentInPushOrder
      <4>3. TakenAccounted'
        BY <2>2, <3>2, <3>3, <4>1, <4>2 DEF TakenAccounted
      <4> QED
        BY <2>2, <4>2, <4>3 DEF Flow
    <3> QED
      BY <1>4, <3>4, <3>5 DEF SenderSend
  <2> QED
    BY <2>3, <2>4
<1>5. ASSUME UNCHANGED <<queue, put, hand, sent, failed>>, socketOpen' => socketOpen,
             pc'[Sender] = "sending" <=> pc[Sender] = "sending"
      PROVE  Flow'
  BY <1>5, TakenStep, FlowStays
<1> QED
  BY <1>1, <1>2, <1>3, <1>4, <1>5, PacketSteps

\* Mutexes are taken by the sender, in disconnect() and in peekRequest, each
\* when it is free, and each holder but the last gives its own back.
LEMMA MutexStep ==
  ASSUME TypeOK, MutexHolders, Next
  PROVE  MutexHolders'
<1> USE TwoQueues, ThreadsAssumption DEF Goto, Free
<1>0. /\ Sender \in Threads /\ Receiver \in Threads /\ Callers \subseteq Threads
      /\ Nobody \notin Threads /\ Outgoing \in Mutexes /\ "connected" \in Mutexes
      /\ "request" \in Mutexes /\ "connected" \notin Queues
      /\ pc \in [Threads -> Labels] /\ owner \in [Mutexes -> Threads \cup {Nobody}]
  BY DEF TypeOK, Threads, Mutexes, Queues
<1>1. ASSUME owner' = owner, pc' \in [Threads -> Labels],
             \A t \in Threads : pc[t] \in {"sending", "closing", "stuck"} => pc'[t] = pc[t]
      PROVE  MutexHolders'
  BY <1>0, <1>1 DEF MutexHolders
<1>2. ASSUME NEW t \in Callers, CallerNext(t)
      PROVE  MutexHolders'
  <2>1. CASE PeekRequest(t)
    BY <1>0, <2>1 DEF PeekRequest, MutexHolders
  <2>2. CASE ~PeekRequest(t)
    <3>1. owner' = owner /\ pc[t] \in {"idle", "has", "woken", "peek"}
      BY <1>2, <2>2
      DEF CallerNext, Push, Has, Pop, PeekResponse, PeekResponseRead, OnlyControl
    <3>2. \A u \in Threads : u # t => pc'[u] = pc[u]
      BY <1>0, <1>2, <2>2
      DEF CallerNext, Push, Has, Pop, PopWait, PopFirst, PopEmpty, PeekResponse,
          PeekResponseRead
    <3>3. pc' \in [Threads -> Labels]
      BY TypeStep DEF TypeOK
    <3> QED
      BY <1>1, <3>1, <3>2, <3>3
  <2> QED
    BY <2>1, <2>2
<1>3. ASSUME SenderNext
      PROVE  MutexHolders'
  <2>1. CASE SenderLoop
    BY <1>0, <2>1 DEF SenderLoop, OnlyControl, MutexHolders
  <2>2. CASE SenderTake
    <3>1. CASE SenderWait
      BY <1>0, <2>2, <3>1 DEF SenderTake, SenderWait, MutexHolders
    <3>2. CASE SenderFirst \/ SenderEmpty
      BY <1>0, <2>2, <3>2 DEF SenderTake, SenderFirst, SenderEmpty, MutexHolders
    <3> QED
      BY <2>2, <3>1, <3>2 DEF SenderTake
  <2>3. CASE SenderSend
    BY <1>0, <2>3 DEF SenderSend, MutexHolders
  <2> QED
    BY <1>3, <2>1, <2>2, <2>3 DEF SenderNext
<1>4. ASSUME ReceiverNext
      PROVE  MutexHolders'
  <2>1. owner' = owner /\ pc[Receiver] \in {"loop", "poll", "event", "push"}
    BY <1>4 DEF ReceiverNext, ReceiverLoop, ReceiverEvent, ReceiverNothing, ReceiverPacket,
                ReceiverPush, ReceiverEof, ReceiverHangup, OnlyControl
  <2>2. \A u \in Threads : u # Receiver => pc'[u] = pc[u]
    BY <1>0, <1>4 DEF ReceiverNext, ReceiverLoop, ReceiverEvent, ReceiverNothing,
                      ReceiverPacket, ReceiverPush, ReceiverEof, ReceiverHangup
  <2>3. pc' \in [Threads -> Labels]
    BY TypeStep DEF TypeOK
  <2> QED
    BY <1>1, <2>1, <2>2, <2>3
<1>5. ASSUME NEW t \in Threads, SharedNext(t)
      PROVE  MutexHolders'
  <2>1. CASE Notify(t) \/ SpuriousWake(t)
    <3>1. owner' = owner
      BY <2>1 DEF Notify, SpuriousWake, OnlyControl
    <3>2. \A u \in Threads : pc[u] \notin {"notify", "waiting"} => pc'[u] = pc[u]
      BY <1>0, <2>1 DEF Notify, SpuriousWake, Waiting
    <3>3. pc' \in [Threads -> Labels]
      BY TypeStep DEF TypeOK
    <3> QED
      BY <1>1, <3>1, <3>2, <3>3
  <2>2. CASE DisconnectClose(t)
    BY <1>0, <2>2 DEF DisconnectClose, MutexHolders
  <2>3. CASE DisconnectFlag(t)
    BY <1>0, <2>3 DEF DisconnectFlag, MutexHolders
  <2> QED
    BY <1>5, <2>1, <2>2, <2>3 DEF SharedNext
<1> QED
  BY <1>2, <1>3, <1>4, <1>5 DEF Next

-----------------------------------------------------------------------------
\* NoLostWakeup, one queue at a time.
Covered(q) ==
  Waiting(q) # {} =>
    Len(queue[q]) <= Cardinality(Notifying(q)) + Cardinality(Woken(q))

\* Sets of threads are finite, and lose or gain one element as sets of one size do.
LEMMA Subsets ==
  \A S : S \subseteq Threads =>
    /\ IsFiniteSet(S) /\ Cardinality(S) \in Nat
    /\ \A T \in SUBSET S : Cardinality(T) <= Cardinality(S)
    /\ \A x \in S : Cardinality(S \ {x}) = Cardinality(S) - 1
    /\ \A x : x \notin S => Cardinality(S \cup {x}) = Cardinality(S) + 1
<1>1. IsFiniteSet(Threads)
  <2>1. IsFiniteSet(Callers \cup {Sender})
    BY ThreadsAssumption, FS_AddElement
  <2>2. IsFiniteSet((Callers \cup {Sender}) \cup {Receiver})
    BY <2>1, FS_AddElement
  <2>3. Threads = (Callers \cup {Sender}) \cup {Receiver}
    BY DEF Threads
  <2> QED
    BY <2>2, <2>3
<1> SUFFICES ASSUME NEW S, S \subseteq Threads
             PROVE  /\ IsFiniteSet(S) /\ Cardinality(S) \in Nat
                    /\ \A T \in SUBSET S : Cardinality(T) <= Cardinality(S)
                    /\ \A x \in S : Cardinality(S \ {x}) = Cardinality(S) - 1
                    /\ \A x : x \notin S => Cardinality(S \cup {x}) = Cardinality(S) + 1
  OBVIOUS
<1>2. IsFiniteSet(S)
  BY <1>1, FS_Subset
<1> QED
  BY <1>2, FS_Subset, FS_CardinalityType, FS_AddElement, FS_RemoveElement

\* Only threads wait, are woken or owe a notification.
LEMMA CoveredSets ==
  /\ \A q \in Queues : Waiting(q) \subseteq Threads /\ Notifying(q) \subseteq Threads
                       /\ Woken(q) \subseteq Threads
  /\ \A q \in Queues : Woken(q)' \subseteq Threads /\ Notifying(q)' \subseteq Threads
BY ThreadsAssumption DEF Waiting, Notifying, Woken, Consumers, Threads

\* Nobody starts to wait, no notification and no woken consumer is used up, and
\* the queue does not grow.
LEMMA CoveredStays ==
  ASSUME NEW q \in Queues, Covered(q), queue'[q] = queue[q],
         Waiting(q)' \subseteq Waiting(q), Notifying(q) \subseteq Notifying(q)',
         Woken(q) \subseteq Woken(q)', Len(queue[q]) \in Nat
  PROVE  Covered(q)'
<1> DEFINE n == Len(queue[q]) a == Cardinality(Notifying(q)) b == Cardinality(Woken(q))
           c == Cardinality(Notifying(q)') d == Cardinality(Woken(q)')
<1>1. a \in Nat /\ b \in Nat /\ c \in Nat /\ d \in Nat /\ n \in Nat
  BY Subsets, CoveredSets
<1>2. a <= c /\ b <= d
  BY Subsets, CoveredSets
<1>3. SUFFICES ASSUME Waiting(q)' # {} PROVE n <= c + d
  BY DEF Covered
<1>4. n <= a + b
  BY <1>3 DEF Covered
<1> HIDE DEF n, a, b, c, d
<1> QED
  BY <1>1, <1>2, <1>4

\* A thread puts a packet and owes a notification.
LEMMA CoveredPut ==
  ASSUME NEW q \in Queues, NEW t \in Threads, Covered(q), Len(queue[q]) \in Nat,
         Len(queue'[q]) = Len(queue[q]) + 1,
         Waiting(q)' \subseteq Waiting(q), Woken(q) \subseteq Woken(q)',
         t \notin Notifying(q), Notifying(q)' = Notifying(q) \cup {t}
  PROVE  Covered(q)'
<1> DEFINE n == Len(queue[q]) a == Cardinality(Notifying(q)) b == Cardinality(Woken(q))
           c == Cardinality(Notifying(q)') d == Cardinality(Woken(q)')
<1>1. a \in Nat /\ b \in Nat /\ c \in Nat /\ d \in Nat /\ n \in Nat
  BY Subsets, CoveredSets
<1>2. c = a + 1 /\ b <= d
  BY Subsets, CoveredSets
<1>3. SUFFICES ASSUME Waiting(q)' # {} PROVE n + 1 <= c + d
  BY DEF Covered
<1>4. n <= a + b
  BY <1>3 DEF Covered
<1> HIDE DEF n, a, b, c, d
<1> QED
  BY <1>1, <1>2, <1>4

\* A notification is used up to wake a consumer.
LEMMA CoveredWake ==
  ASSUME NEW q \in Queues, NEW t \in Threads, NEW w \in Threads, Covered(q),
         queue' = queue, Len(queue[q]) \in Nat, Waiting(q)' \subseteq Waiting(q),
         t \in Notifying(q), Notifying(q)' = Notifying(q) \ {t},
         w \notin Woken(q), Woken(q)' = Woken(q) \cup {w}
  PROVE  Covered(q)'
<1> DEFINE n == Len(queue[q]) a == Cardinality(Notifying(q)) b == Cardinality(Woken(q))
           c == Cardinality(Notifying(q)') d == Cardinality(Woken(q)')
<1>1. a \in Nat /\ b \in Nat /\ c \in Nat /\ d \in Nat /\ n \in Nat
  BY Subsets, CoveredSets
<1>2. c = a - 1 /\ d = b + 1
  BY Subsets, CoveredSets
<1>3. SUFFICES ASSUME Waiting(q)' # {} PROVE n <= c + d
  BY DEF Covered
<1>4. n <= a + b
  BY <1>3 DEF Covered
<1> HIDE DEF n, a, b, c, d
<1> QED
  BY <1>1, <1>2, <1>4

\* A consumer takes a packet; it may be one that was woken for it.
LEMMA CoveredTake ==
  ASSUME NEW q \in Queues, NEW t \in Threads, Covered(q), Len(queue[q]) \in Nat,
         Len(queue'[q]) = Len(queue[q]) - 1, Waiting(q)' \subseteq Waiting(q),
         Notifying(q)' = Notifying(q), Woken(q)' = Woken(q) \ {t}
  PROVE  Covered(q)'
<1> DEFINE n == Len(queue[q]) a == Cardinality(Notifying(q)) b == Cardinality(Woken(q))
           c == Cardinality(Notifying(q)') d == Cardinality(Woken(q)')
<1>1. a \in Nat /\ b \in Nat /\ c \in Nat /\ d \in Nat /\ n \in Nat
  BY Subsets, CoveredSets
<1>2. c = a /\ b - 1 <= d
  <2>1. CASE t \in Woken(q)
    BY <2>1, Subsets, CoveredSets
  <2>2. CASE t \notin Woken(q)
    <3>1. Woken(q)' = Woken(q)
      BY <2>2
    <3>2. c = a /\ d = b
      BY <3>1
    <3> HIDE DEF a, b, c, d
    <3> QED
      BY <1>1, <3>2
  <2> QED
    BY <2>1, <2>2
<1>3. SUFFICES ASSUME Waiting(q)' # {} PROVE n - 1 <= c + d
  BY DEF Covered
<1>4. n <= a + b
  BY <1>3 DEF Covered
<1> HIDE DEF n, a, b, c, d
<1> QED
  BY <1>1, <1>2, <1>4

\* Every step keeps NoLostWakeup: a push brings the notification that covers its
\* packet, a notification wakes a waiter or finds none, and a woken consumer that
\* returns takes a packet along.
LEMMA NoLostWakeupStep ==
  ASSUME TypeOK, NoLostWakeup, Next
  PROVE  NoLostWakeup'
<1> USE TwoQueues, ThreadsAssumption DEF Goto
<1>0. /\ Sender \in Threads /\ Receiver \in Threads /\ Callers \subseteq Threads
      /\ pc \in [Threads -> Labels] /\ Poppers \subseteq Callers
      /\ Sender \notin Callers /\ Receiver \notin Callers /\ Sender # Receiver
      /\ Consumers(Outgoing) = {Sender} /\ Consumers(Incoming) = Poppers
      /\ \A t \in Callers : Target(t) = Outgoing
      /\ Target(Receiver) = Incoming
  BY DEF TypeOK, Threads, Consumers, Target
<1>q. \A q \in Queues : queue[q] \in Seq(Nat) /\ Len(queue[q]) \in Nat /\ Covered(q)
  BY DEF TypeOK, NoLostWakeup, Covered
<1> SUFFICES ASSUME NEW q \in Queues
             PROVE  Covered(q)'
  BY DEF NoLostWakeup, Covered
<1>e. ASSUME Waiting(q)' = {} \/ Len(queue'[q]) = 0
      PROVE  Covered(q)'
  <2>1. CASE Waiting(q)' = {}
    BY <2>1 DEF Covered
  <2>2. CASE Len(queue'[q]) = 0
    <3> DEFINE c == Cardinality(Notifying(q)') d == Cardinality(Woken(q)')
    <3>1. c \in Nat /\ d \in Nat
      BY Subsets, CoveredSets
    <3>2. SUFFICES 0 <= c + d
      BY <2>2 DEF Covered
    <3> HIDE DEF c, d
    <3> QED
      BY <3>1
  <2> QED
    BY <1>e, <2>1, <2>2
\* A thread that moves between two labels of no interest here.
<1>1. ASSUME NEW t \in Threads, queue'[q] = queue[q],
             pc[t] \notin {"waiting", "woken", "notify"},
             pc'[t] \notin {"waiting", "woken", "notify"},
             \A u \in Threads : u # t => pc'[u] = pc[u]
      PROVE  Covered(q)'
  <2>1. /\ Waiting(q)' = Waiting(q) /\ Notifying(q)' = Notifying(q)
        /\ Woken(q)' = Woken(q)
    BY <1>0, <1>1 DEF Waiting, Notifying, Woken, Consumers, Target
  <2> QED
    BY <1>1, <1>q, <2>1, CoveredStays
<1>2. ASSUME NEW t \in Threads, queue' = queue, SpuriousWake(t)
      PROVE  Covered(q)'
  <2>1. /\ Waiting(q)' \subseteq Waiting(q) /\ Notifying(q)' = Notifying(q)
        /\ Woken(q) \subseteq Woken(q)'
    BY <1>0, <1>2 DEF SpuriousWake, Waiting, Notifying, Woken, Consumers, Target
  <2> QED
    BY <1>2, <1>q, <2>1, CoveredStays
<1>3. ASSUME NEW t \in Threads, NEW r \in Queues, Target(t) = r,
             pc[t] \notin {"waiting", "woken", "notify"}, Goto(t, "notify"), Enqueue(r)
      PROVE  Covered(q)'
  <2>1. /\ Waiting(q)' = Waiting(q) /\ Woken(q)' = Woken(q)
        /\ Notifying(q)' = IF q = r THEN Notifying(q) \cup {t} ELSE Notifying(q)
        /\ t \notin Notifying(q)
    BY <1>0, <1>3 DEF Waiting, Notifying, Woken, Consumers, Target
  <2>2. CASE q = r
    <3>1. queue'[q] = Append(queue[q], put[q] + 1) /\ put[q] \in Nat
      BY <1>3, <2>2 DEF Enqueue, TypeOK
    <3>2. Len(queue'[q]) = Len(queue[q]) + 1
      BY <1>q, <3>1
    <3> QED
      BY <1>q, <2>1, <2>2, <3>2, CoveredPut
  <2>3. CASE q # r
    <3>1. queue'[q] = queue[q]
      BY <1>3, <2>3 DEF Enqueue, TypeOK
    <3> QED
      BY <1>q, <2>1, <2>3, <3>1, CoveredStays
  <2> QED
    BY <2>2, <2>3
<1>4. ASSUME NEW t \in Threads, Notify(t)
      PROVE  Covered(q)'
  <2>0. queue' = queue /\ Resume(t) \notin {"waiting", "woken", "notify"} /\ pc[t] = "notify"
    BY <1>4 DEF Notify, OnlyControl, Resume
  <2>1. CASE Target(t) = q /\ Waiting(q) = {}
    <3>1. Waiting(q)' = {}
      BY <1>0, <1>4, <2>0, <2>1 DEF Notify, Waiting, Consumers
    <3> QED
      BY <1>e, <3>1
  <2>2. CASE Target(t) = q /\ Waiting(q) # {}
    <3>1. PICK w \in Waiting(q) : pc' = [pc EXCEPT ![t] = Resume(t), ![w] = "woken"]
      BY <1>4, <2>2 DEF Notify
    <3>2. w \in Threads /\ w # t /\ pc[w] = "waiting"
      BY <2>0, CoveredSets DEF Waiting
    <3>3. /\ Waiting(q)' \subseteq Waiting(q) /\ Notifying(q)' = Notifying(q) \ {t}
          /\ t \in Notifying(q) /\ w \notin Woken(q) /\ Woken(q)' = Woken(q) \cup {w}
      BY <1>0, <2>0, <2>2, <3>1, <3>2 DEF Waiting, Notifying, Woken, Consumers, Target
    <3> QED
      BY <1>q, <2>0, <3>2, <3>3, CoveredWake
  <2>3. CASE Target(t) # q
    <3>1. \A u \in Consumers(q) : u \notin Consumers(Target(t))
      BY <1>0, <2>3 DEF Consumers, Target
    <3>2. /\ Waiting(q)' \subseteq Waiting(q) /\ Notifying(q)' = Notifying(q)
          /\ Woken(q) \subseteq Woken(q)'
      BY <1>0, <1>4, <2>0, <2>3, <3>1
      DEF Notify, Waiting, Notifying, Woken, Consumers, Target
    <3> QED
      BY <1>q, <2>0, <3>2, CoveredStays
  <2> QED
    BY <2>1, <2>2, <2>3
<1>5. ASSUME NEW t \in Callers, Pop(t)
      PROVE  Covered(q)'
  <2>0. /\ t \in Poppers /\ t \in Threads /\ t # Sender /\ t # Receiver
        /\ pc[t] \in {"idle", "has", "woken"} /\ pc'[t] \in {"idle", "waiting"}
        /\ \A u \in Threads : u # t => pc'[u] = pc[u]
    BY <1>0, <1>5 DEF Pop, PopWait, PopFirst, PopEmpty
  <2>1. CASE q = Outgoing
    <3>1. queue'[q] = queue[q]
      BY <1>5, <2>1 DEF Pop, PopWait, PopFirst, PopEmpty, TypeOK
    <3>2. /\ Waiting(q)' = Waiting(q) /\ Notifying(q)' = Notifying(q)
          /\ Woken(q)' = Woken(q)
      BY <1>0, <2>0, <2>1 DEF Waiting, Notifying, Woken, Consumers, Target
    <3> QED
      BY <1>q, <3>1, <3>2, CoveredStays
  <2>2. CASE q = Incoming /\ queue[q] = <<>>
    <3>1. queue'[q] = <<>>
      BY <1>5, <2>2 DEF Pop, PopWait, PopFirst, PopEmpty
    <3>2. Len(queue'[q]) = 0
      BY <3>1
    <3> QED
      BY <1>e, <3>2
  <2>3. CASE q = Incoming /\ queue[q] # <<>>
    <3>1. queue'[q] = Tail(queue[q]) /\ pc'[t] = "idle"
      BY <1>0, <1>5, <2>0, <2>3 DEF Pop, PopWait, PopFirst, PopEmpty, TypeOK
    <3>2. Len(queue'[q]) = Len(queue[q]) - 1
      BY <1>q, <2>3, <3>1
    <3>3. /\ Waiting(q)' \subseteq Waiting(q) /\ Notifying(q)' = Notifying(q)
          /\ Woken(q)' = Woken(q) \ {t}
      BY <1>0, <2>0, <2>3, <3>1 DEF Waiting, Notifying, Woken, Consumers, Target
    <3> QED
      BY <1>q, <2>0, <3>2, <3>3, CoveredTake
  <2> QED
    BY <2>1, <2>2, <2>3
<1>6. ASSUME SenderTake
      PROVE  Covered(q)'
  <2>0. /\ pc[Sender] \in {"enter", "woken"} /\ pc'[Sender] \in {"waiting", "sending"}
        /\ \A u \in Threads : u # Sender => pc'[u] = pc[u]
    BY <1>0, <1>6 DEF SenderTake, SenderWait, SenderFirst, SenderEmpty
  <2>1. CASE q = Incoming
    <3>1. queue'[q] = queue[q]
      BY <1>6, <2>1 DEF SenderTake, SenderWait, SenderFirst, SenderEmpty, TypeOK
    <3>2. /\ Waiting(q)' = Waiting(q) /\ Notifying(q)' = Notifying(q)
          /\ Woken(q)' = Woken(q)
      BY <1>0, <2>0, <2>1 DEF Waiting, Notifying, Woken, Consumers, Target
    <3> QED
      BY <1>q, <3>1, <3>2, CoveredStays
  <2>2. CASE q = Outgoing /\ pc'[Sender] = "waiting"
    <3>1. queue'[q] = <<>>
      BY <1>0, <1>6, <2>2 DEF SenderTake, SenderWait, SenderFirst, SenderEmpty
    <3>2. Len(queue'[q]) = 0
      BY <3>1
    <3> QED
      BY <1>e, <3>2
  <2>3. CASE q = Outgoing /\ pc'[Sender] # "waiting"
    <3>1. Waiting(q)' = {}
      BY <1>0, <2>3 DEF Waiting, Consumers
    <3> QED
      BY <1>e, <3>1
  <2> QED
    BY <2>0, <2>1, <2>2, <2>3
<1>7. ASSUME SenderLoop \/ SenderSend
      PROVE  Covered(q)'
  <2>1. /\ queue' = queue /\ pc[Sender] \notin {"waiting", "woken", "notify"}
        /\ pc'[Sender] \notin {"waiting", "woken", "notify"}
        /\ \A u \in Threads : u # Sender => pc'[u] = pc[u]
    BY <1>0, <1>7 DEF SenderLoop, SenderSend, OnlyControl
  <2> QED
    BY <1>0, <1>1, <2>1
<1>8. ASSUME \/ ReceiverLoop \/ ReceiverEvent \/ ReceiverNothing \/ ReceiverPacket
             \/ ReceiverEof \/ ReceiverHangup
      PROVE  Covered(q)'
  <2>1. /\ queue' = queue /\ pc[Receiver] \notin {"waiting", "woken", "notify"}
        /\ pc'[Receiver] \notin {"waiting", "woken", "notify"}
        /\ \A u \in Threads : u # Receiver => pc'[u] = pc[u]
    BY <1>0, <1>8 DEF ReceiverLoop, ReceiverEvent, ReceiverNothing, ReceiverPacket,
                      ReceiverEof, ReceiverHangup, OnlyControl
  <2> QED
    BY <1>0, <1>1, <2>1
<1>9. ASSUME NEW t \in Threads, DisconnectClose(t) \/ DisconnectFlag(t)
      PROVE  Covered(q)'
  <2>1. /\ queue' = queue /\ pc[t] \notin {"waiting", "woken", "notify"}
        /\ pc'[t] \notin {"waiting", "woken", "notify"}
        /\ \A u \in Threads : u # t => pc'[u] = pc[u]
    BY <1>0, <1>9 DEF DisconnectClose, DisconnectFlag, Resume
  <2> QED
    BY <1>1, <2>1
<1>10. ASSUME NEW t \in Callers,
              \/ Has(t) \/ PeekResponseRead(t) \/ PeekRequest(t)
              \/ \E i \in 0..(MaxPushes + MaxArrivals) : PeekResponse(t, i)
       PROVE  Covered(q)'
  <2>1. /\ queue' = queue /\ pc[t] \notin {"waiting", "woken", "notify"}
        /\ pc'[t] \notin {"waiting", "woken", "notify"}
        /\ \A u \in Threads : u # t => pc'[u] = pc[u]
    BY <1>0, <1>10 DEF Has, PeekResponse, PeekResponseRead, PeekRequest, OnlyControl
  <2> QED
    BY <1>0, <1>1, <2>1
<1>11. ASSUME NEW t \in Callers, Push(t)
       PROVE  Covered(q)'
  BY <1>0, <1>3, <1>11 DEF Push
<1>12. ASSUME ReceiverPush
       PROVE  Covered(q)'
  BY <1>0, <1>3, <1>12 DEF ReceiverPush
<1>13. ASSUME NEW t \in Threads, SpuriousWake(t)
       PROVE  Covered(q)'
  BY <1>2, <1>13 DEF SpuriousWake, OnlyControl
<1> QED
  BY <1>4, <1>5, <1>6, <1>7, <1>8, <1>9, <1>10, <1>11, <1>12, <1>13
  DEF Next, CallerNext, SenderNext, ReceiverNext, SharedNext

-----------------------------------------------------------------------------
\* Every step keeps the invariant, conjunct by conjunct.
LEMMA InvStep == Inv /\ [Next]_vars => Inv'
<1> SUFFICES ASSUME Inv, [Next]_vars PROVE Inv'
  OBVIOUS
<1>1. CASE Next
  <2>1. TypeOK' /\ Numbered' /\ ClosedFirst'
    BY <1>1, TypeStep, NumberedStep, ClosedFirstStep DEF Inv
  <2>2. HandIsLast' /\ TakenAccounted' /\ SentInPushOrder'
    BY <1>1, FlowStep DEF Inv, Flow
  <2>3. MutexHolders' /\ NoLostWakeup'
    BY <1>1, MutexStep, NoLostWakeupStep DEF Inv
  <2> QED
    BY <2>1, <2>2, <2>3 DEF Inv
<1>2. CASE UNCHANGED vars
  <2>1. TypeOK' /\ Numbered' /\ ClosedFirst' /\ HandIsLast'
    BY <1>2 DEF vars, Inv, TypeOK, Numbered, ClosedFirst, HandIsLast, Taken
  <2>2. TakenAccounted' /\ SentInPushOrder'
    BY <1>2
    DEF vars, Inv, TakenAccounted, Written, Settled, Taken, InHand, SentInPushOrder
  <2>3. MutexHolders'
    BY <1>2 DEF vars, Inv, MutexHolders
  <2>4. NoLostWakeup'
    BY <1>2 DEF vars, Inv, NoLostWakeup, Waiting, Notifying, Woken
  <2> QED
    BY <2>1, <2>2, <2>3, <2>4 DEF Inv
<1> QED
  BY <1>1, <1>2

-----------------------------------------------------------------------------
\* While the only consumer of a queue is between its look at the queue and what it
\* does next, the queue does not shrink, and the index it has checked stays.
LEMMA AloneKeeps ==
  ASSUME TypeOK, Next, NEW q \in Queues, NEW t \in Callers, Consumers(q) \subseteq {t},
         pc[t] \in {"has", "peek"}, pc'[t] = pc[t]
  PROVE  Len(queue'[q]) >= Len(queue[q]) /\ index'[t] = index[t]
<1> USE TwoQueues, ThreadsAssumption
<1>1. queue[q] \in Seq(Nat) /\ Sender # t /\ t \in Threads
  BY DEF TypeOK, Threads
<1>2. index'[t] = index[t]
  <2>1. ASSUME NEW u \in Callers, NEW i \in 0..(MaxPushes + MaxArrivals), PeekResponse(u, i)
        PROVE  index'[t] = index[t]
    BY <2>1 DEF PeekResponse, TypeOK
  <2> QED
    BY <2>1 DEF Next, CallerNext, SenderNext, ReceiverNext, SharedNext, Push, Has, Pop,
      PeekResponseRead, PeekRequest, SenderLoop, SenderTake, SenderSend, ReceiverLoop,
      ReceiverEvent, ReceiverNothing, ReceiverPacket, ReceiverPush, ReceiverEof,
      ReceiverHangup, Notify, SpuriousWake, DisconnectClose, DisconnectFlag, OnlyControl
<1>3. ASSUME NEW r \in Queues, Enqueue(r)
      PROVE  Len(queue'[q]) >= Len(queue[q])
  <2>1. CASE r # q
    BY <1>1, <1>3, <2>1 DEF Enqueue, TypeOK
  <2>2. CASE r = q
    <3>1. queue'[q] = Append(queue[q], put[q] + 1) /\ put[q] + 1 \in Nat
      BY <1>3, <2>2 DEF Enqueue, TypeOK
    <3> QED
      BY <1>1, <3>1
  <2> QED
    BY <2>1, <2>2
<1>4. ASSUME NEW u \in Callers, Pop(u)
      PROVE  queue'[q] = queue[q]
  <2>1. CASE q = Outgoing
    BY <1>4, <2>1 DEF Pop, PopWait, PopFirst, PopEmpty, TypeOK
  <2>2. CASE q = Incoming
    <3>1. u = t
      BY <1>4, <2>2 DEF Pop, Consumers
    <3>2. pc'[t] \in {"idle", "waiting"}
      BY <1>1, <1>4, <3>1 DEF Pop, PopWait, PopFirst, PopEmpty, Goto, TypeOK
    <3> QED
      BY <3>2
  <2> QED
    BY <2>1, <2>2
<1>5. ASSUME SenderTake
      PROVE  queue'[q] = queue[q]
  <2>1. q # Outgoing
    BY <1>1 DEF Consumers
  <2> QED
    BY <1>5, <2>1 DEF SenderTake, SenderWait, SenderFirst, SenderEmpty, TypeOK
<1>6. Len(queue[q]) \in Nat
  BY <1>1
<1> QED
  <2>1. ASSUME queue'[q] = queue[q]
        PROVE  Len(queue'[q]) >= Len(queue[q])
    BY <1>6, <2>1
  <2>2. CASE \E u \in Callers : Push(u)
    BY <1>2, <1>3, <2>2 DEF Push
  <2>3. CASE \E u \in Callers : Pop(u)
    BY <1>2, <1>4, <2>1, <2>3
  <2>4. CASE ReceiverPush
    BY <1>2, <1>3, <2>4 DEF ReceiverPush
  <2>5. CASE SenderTake
    BY <1>2, <1>5, <2>1, <2>5
  <2>6. CASE SenderSend \/ UNCHANGED queue
    BY <1>2, <2>1, <2>6 DEF SenderSend
  <2> QED
    BY <2>2, <2>3, <2>4, <2>5, <2>6, PacketSteps

\* A caller gets between the look and what it does next by looking.
LEMMA LooksFirst ==
  ASSUME TypeOK, Next, NEW t \in Callers
  PROVE  /\ pc'[t] = "has" /\ pc[t] # "has" => Has(t)
         /\ pc'[t] = "peek" /\ pc[t] # "peek"
              => \E i \in 0..(MaxPushes + MaxArrivals) : PeekResponse(t, i)
<1> USE ThreadsAssumption DEF Goto, Threads, TypeOK
<1>1. ASSUME NEW u \in Callers, CallerNext(u)
      PROVE  \/ Has(u) /\ \A v \in Callers : v # u => pc'[v] = pc[v]
             \/ /\ \E i \in 0..(MaxPushes + MaxArrivals) : PeekResponse(u, i)
                /\ pc'[u] = "peek"
                /\ \A v \in Callers : v # u => pc'[v] = pc[v]
             \/ /\ pc'[u] \notin {"has", "peek"}
                /\ \A v \in Callers : v # u => pc'[v] = pc[v]
  <2>1. CASE Has(u)
    BY <2>1 DEF Has
  <2>2. ASSUME NEW i \in 0..(MaxPushes + MaxArrivals), PeekResponse(u, i)
        PROVE  pc'[u] = "peek" /\ \A v \in Callers : v # u => pc'[v] = pc[v]
    BY <2>2 DEF PeekResponse
  <2>3. CASE Push(u) \/ Pop(u) \/ PeekResponseRead(u) \/ PeekRequest(u)
    BY <2>3 DEF Push, Pop, PopWait, PopFirst, PopEmpty, PeekResponseRead, PeekRequest
  <2> QED
    BY <1>1, <2>1, <2>2, <2>3 DEF CallerNext
<1>2. CASE \E u \in Callers : CallerNext(u)
  <2>1. PICK u \in Callers : CallerNext(u)
    BY <1>2
  <2>2. Has(u) => pc'[u] = "has"
    BY DEF Has
  <2>3. CASE u = t
    BY <1>1, <2>1, <2>2, <2>3
  <2>4. CASE u # t
    BY <1>1, <2>1, <2>4
  <2> QED
    BY <2>3, <2>4
<1>3. ASSUME SenderNext \/ ReceiverNext \/ \E u \in Threads : SharedNext(u)
      PROVE  pc'[t] \in {"has", "peek"} => pc'[t] = pc[t]
  <2>1. CASE SenderNext
    BY <2>1 DEF SenderNext, SenderLoop, SenderTake, SenderWait, SenderFirst, SenderEmpty,
                SenderSend
  <2>2. CASE ReceiverNext
    BY <2>2 DEF ReceiverNext, ReceiverLoop, ReceiverEvent, ReceiverNothing, ReceiverPacket,
                ReceiverPush, ReceiverEof, ReceiverHangup
  <2>3. ASSUME NEW u \in Threads, SharedNext(u)
        PROVE  pc'[t] \in {"has", "peek"} => pc'[t] = pc[t]
    BY <2>3 DEF SharedNext, Notify, SpuriousWake, DisconnectClose, DisconnectFlag, Resume
  <2> QED
    BY <1>3, <2>1, <2>2, <2>3
<1> QED
  BY <1>2, <1>3 DEF Next

\* The invariant holds in every state of every session.
THEOREM Invariance == Spec => []Inv
BY InvInit, InvStep, PTL DEF Spec

\* Every variable keeps its type.
THEOREM TypeCorrect == Spec => []TypeOK
<1>1. Inv => TypeOK
  BY DEF Inv
<1> QED
  BY Invariance, <1>1, PTL

\* No packet is left behind by consumers that sleep: see NoLostWakeup.
THEOREM WakeupsSuffice == Spec => []NoLostWakeup
<1>1. Inv => NoLostWakeup
  BY DEF Inv
<1> QED
  BY Invariance, <1>1, PTL

\* What the sender writes to the open socket is what was pushed, in order, each
\* packet once and never the stale one.
THEOREM SendOrder == Spec => []SentInPushOrder
<1>1. Inv => SentInPushOrder
  BY DEF Inv
<1> QED
  BY Invariance, <1>1, PTL

\* Every packet that has left the outgoing queue is in the sender's hand, written,
\* or one whose sendPacket() failed, and only one of these.
THEOREM NothingForgotten == Spec => []TakenAccounted
<1>1. Inv => TakenAccounted
  BY DEF Inv
<1> QED
  BY Invariance, <1>1, PTL

\* No thread but a caller of peekRequest keeps a mutex for ever.
THEOREM MutexesComeBack == Spec => []MutexHolders
<1>1. Inv => MutexHolders
  BY DEF Inv
<1> QED
  BY Invariance, <1>1, PTL

\* Nothing is written to the socket once the session is disconnected.
THEOREM SilentAfterDisconnect == Spec => NothingSentAfterDisconnect
<1>1. Inv /\ [Next]_vars => [~connected => sent' = sent]_vars
  <2> SUFFICES ASSUME Inv, Next, ~connected PROVE sent' = sent
    BY DEF vars
  <2>1. CASE SenderSend
    BY <2>1 DEF SenderSend, SenderWrites, SenderFails, Inv, ClosedFirst
  <2>2. CASE ~SenderSend
    BY <2>2 DEF Next, CallerNext, SenderNext, ReceiverNext, SharedNext, Push, Has, Pop,
      PeekResponse, PeekResponseRead, PeekRequest, SenderLoop, SenderTake, ReceiverLoop,
      ReceiverEvent, ReceiverNothing, ReceiverPacket, ReceiverPush, ReceiverEof,
      ReceiverHangup, Notify, SpuriousWake, DisconnectClose, DisconnectFlag, OnlyControl
  <2> QED
    BY <2>1, <2>2
<1> QED
  BY Invariance, <1>1, PTL DEF Spec, NothingSentAfterDisconnect

\* What the only consumer of a queue has found in it is still there when it comes
\* back: a pop after hasRequest() does not wait, and a peek stays in bounds.
THEOREM OnlyConsumerFinds == Spec => [](HasImpliesPop /\ PeekInBounds)
<1> DEFINE Finds == HasImpliesPop /\ PeekInBounds
<1>1. Init => Finds
  BY ThreadsAssumption DEF Init, HasImpliesPop, PeekInBounds, Threads
<1>2. TypeOK /\ Finds /\ [Next]_vars => Finds'
  <2> SUFFICES ASSUME TypeOK, Finds, Next PROVE Finds'
    BY DEF vars, HasImpliesPop, PeekInBounds
  <2> USE TwoQueues, ThreadsAssumption
  <2>1. \A q \in Queues : queue[q] \in Seq(Nat)
    BY DEF TypeOK
  <2>2. TypeOK'
    BY TypeStep
  <2>3. ASSUME NEW t \in Poppers, Poppers = {t}, pc'[t] = "has"
        PROVE  queue'[Incoming] # <<>>
    <3>1. CASE pc[t] = "has"
      <4>1. Consumers(Incoming) \subseteq {t}
        BY <2>3 DEF Consumers
      <4>2. Len(queue'[Incoming]) >= Len(queue[Incoming]) /\ queue[Incoming] # <<>>
        BY <2>3, <3>1, <4>1, AloneKeeps DEF HasImpliesPop
      <4>3. Len(queue[Incoming]) > 0
        BY <2>1, <4>2
      <4>4. queue'[Incoming] \in Seq(Nat)
        BY <2>2 DEF TypeOK
      <4> QED
        BY <2>1, <4>2, <4>3, <4>4
    <3>2. CASE pc[t] # "has"
      BY <2>3, <3>2, LooksFirst DEF Has, OnlyControl
    <3> QED
      BY <3>1, <3>2
  <2>4. ASSUME NEW t \in Peekers, Consumers("response") \subseteq {t}, pc'[t] = "peek"
        PROVE  index'[t] < Len(queue'["response"])
    <3>0. "response" \in Queues /\ t \in Callers
      BY DEF Queues
    <3>1. CASE pc[t] = "peek"
      <4>1. index[t] < Len(queue["response"])
        BY <2>4, <3>1 DEF PeekInBounds
      <4>2. index'[t] = index[t] /\ Len(queue'["response"]) >= Len(queue["response"])
        BY <2>4, <3>0, <3>1, AloneKeeps
      <4>3. /\ Len(queue["response"]) \in Nat /\ Len(queue'["response"]) \in Nat
            /\ index[t] \in Nat
        BY <2>1, <2>2, <3>0 DEF TypeOK
      <4> DEFINE before == Len(queue["response"])
                 after == Len(queue'["response"])
      <4> HIDE DEF before, after
      <4>4. index[t] < before /\ after >= before /\ before \in Nat /\ after \in Nat
        BY <4>1, <4>2, <4>3 DEF before, after
      <4>5. index'[t] < after
        BY <4>2, <4>3, <4>4
      <4> QED
        BY <4>5 DEF after
    <3>2. CASE pc[t] # "peek"
      <4>1. PICK i \in 0..(MaxPushes + MaxArrivals) : PeekResponse(t, i)
        BY <2>4, <3>0, <3>2, LooksFirst
      <4>2. index'[t] = i /\ queue' = queue /\ i < Len(queue["response"])
        BY <3>0, <4>1 DEF PeekResponse, TypeOK
      <4> QED
        BY <4>2
    <3> QED
      BY <3>1, <3>2
  <2>5. HasImpliesPop'
    BY <2>3 DEF HasImpliesPop
  <2>6. PeekInBounds'
    BY <2>4 DEF PeekInBounds, Consumers
  <2> QED
    BY <2>5, <2>6
<1> QED
  BY TypeCorrect, <1>1, <1>2, PTL DEF Spec

\* A pop after hasRequest() or hasResponse() does not wait, if nobody else pops.
THEOREM HasMeansPop == Spec => []HasImpliesPop
<1>1. HasImpliesPop /\ PeekInBounds => HasImpliesPop
  OBVIOUS
<1> QED
  BY OnlyConsumerFinds, <1>1, PTL

\* A peek reads inside the vector, if nobody else takes from it.
THEOREM PeeksInBounds == Spec => []PeekInBounds
<1>1. HasImpliesPop /\ PeekInBounds => PeekInBounds
  OBVIOUS
<1> QED
  BY OnlyConsumerFinds, <1>1, PTL

=============================================================================
