--------------------------- MODULE SessionQueues ---------------------------
(***************************************************************************)
(* One TTP2 session controller (ClientSessionController or                 *)
(* ServerSessionController on top of TcpNetworking): the request and the   *)
(* response queue, each behind a mutex and a condition variable, the       *)
(* "connected" flag behind a third mutex, the two threads that             *)
(* networkingSession() starts and joins, and the application's threads     *)
(* that call the queue functions.                                          *)
(*                                                                         *)
(* A step is what a thread does between two points where another thread    *)
(* can get in: a critical section that blocks on nothing is one step, a    *)
(* mutex held over several steps is recorded in "owner".  The byte stream  *)
(* below the socket is the subject of TcpLink.                             *)
(*                                                                         *)
(* The packets of a queue are numbered in the order they were put into it, *)
(* so a packet is a positive number; Stale stands for what a read through  *)
(* an empty std::vector finds.                                             *)
(*                                                                         *)
(* An operator defined directly before one whose name it extends           *)
(* (EnqueueFront before Enqueue) is that operator with a plausible bug in  *)
(* it.  No specification uses it: it shows which property the bug breaks.  *)
(***************************************************************************)
EXTENDS Naturals, Sequences, FiniteSets

CONSTANTS
  Role,        \* "client" or "server": which controller this is
  Callers,     \* the application's threads
  Poppers,     \* the callers that take packets from the incoming queue
  Peekers,     \* the callers that use peekRequest and peekResponse
  Peekable,    \* the queues they peek at
  Sender,      \* the thread in sendRequestSession / sendResponseSession
  Receiver,    \* the thread in receiveResponseSession / receiveRequestSession
  Nobody,      \* "no thread", the owner of a free mutex
  MaxPushes,   \* bound: packets the callers push
  MaxArrivals  \* bound: packets the socket delivers

Queues == {"request", "response"}

ASSUME RoleAssumption == Role \in {"client", "server"}
ASSUME ThreadsAssumption ==
  /\ IsFiniteSet(Callers)
  /\ Poppers \subseteq Callers
  /\ Peekers \subseteq Callers
  /\ Sender \notin Callers /\ Receiver \notin Callers /\ Sender # Receiver
  /\ Nobody \notin Callers \cup {Sender, Receiver}
ASSUME QueuesAssumption == Peekable \subseteq Queues
ASSUME BoundsAssumption == MaxPushes \in Nat /\ MaxArrivals \in Nat

\* A client sends requests and receives responses, a server the reverse.
Outgoing == IF Role = "client" THEN "request" ELSE "response"
Incoming == IF Role = "client" THEN "response" ELSE "request"

Threads == Callers \cup {Sender, Receiver}
Mutexes == Queues \cup {"connected"}
Stale == 0

VARIABLES
  queue,       \* requestQueue and responseQueue
  owner,       \* the thread that holds each mutex between two steps
  connected,   \* the flag isConnected() returns
  socketOpen,  \* whether the session's descriptor is still open
  pc,          \* where each thread is
  index,       \* the index a peeking caller has checked
  hand,        \* the packet the sender took last
  put,         \* history: how many packets each queue was given
  sent,        \* history: the packets written to the open socket
  failed,      \* history: the packets sendPacket() did not write
  faults,      \* history: the accesses made outside a vector's elements
  crashed      \* such an access has ended the process

vars == <<queue, owner, connected, socketOpen, pc, index, hand, put, sent,
          failed, faults, crashed>>

Labels ==
  {"idle", "has", "peek", "stuck",           \* a caller
   "notify", "waiting", "woken", "closing",  \* inside a shared operation
   "loop", "enter", "sending",               \* the sender
   "poll", "event", "push", "close", "done"}          \* the receiver

TypeOK ==
  /\ queue \in [Queues -> Seq(Nat)]
  /\ owner \in [Mutexes -> Threads \cup {Nobody}]
  /\ connected \in BOOLEAN /\ socketOpen \in BOOLEAN /\ crashed \in BOOLEAN
  /\ pc \in [Threads -> Labels]
  /\ index \in [Callers -> Nat]
  /\ hand \in Nat
  /\ put \in [Queues -> Nat]
  /\ sent \in Seq(Nat)
  /\ failed \subseteq Nat
  /\ faults \subseteq {"pop", "send", "peek"}

Init ==
  /\ queue = [q \in Queues |-> <<>>]
  /\ owner = [m \in Mutexes |-> Nobody]
  /\ connected = TRUE
  /\ socketOpen = TRUE
  /\ pc = [t \in Threads |-> IF t \in Callers THEN "idle" ELSE "loop"]
  /\ index = [t \in Callers |-> 0]
  /\ hand = Stale
  /\ put = [q \in Queues |-> 0]
  /\ sent = <<>>
  /\ failed = {}
  /\ faults = {}
  /\ crashed = FALSE

-----------------------------------------------------------------------------
(* Mutexes, condition variables and the accesses C++ leaves undefined.     *)

Free(m) == owner[m] = Nobody
\* A thread goes on to a label, in a process that has not crashed.
Goto(t, label) == ~crashed /\ pc' = [pc EXCEPT ![t] = label]
\* A step that moves threads and changes nothing else.
OnlyControl ==
  UNCHANGED <<queue, owner, connected, socketOpen, index, hand, put, sent,
              failed, faults, crashed>>

\* Where a thread goes on when a shared operation returns.
Resume(t) == IF t = Receiver THEN "loop" ELSE "idle"

Consumers(q) == IF q = Outgoing THEN {Sender} ELSE Poppers
Waiting(q) == {t \in Consumers(q) : pc[t] = "waiting"}
Woken(q) == {t \in Consumers(q) : pc[t] = "woken"}
\* The queue a thread has just pushed to.
Target(t) == IF t = Receiver THEN Incoming ELSE Outgoing
Notifying(q) == {t \in Threads : pc[t] = "notify" /\ Target(t) = q}

\* A vector access outside its elements: the process may end there, or go on
\* with whatever the memory holds.
Undefined(kind) ==
  /\ faults' = faults \cup {kind}
  /\ crashed' \in BOOLEAN

-----------------------------------------------------------------------------
(* pushRequest, pushResponse: append under the mutex, then notify_one      *)
(* outside of it.                                                          *)

EnqueueFront(q) ==
  /\ put' = [put EXCEPT ![q] = @ + 1]
  /\ queue' = [queue EXCEPT ![q] = <<put[q] + 1>> \o @]
Enqueue(q) ==
  /\ put' = [put EXCEPT ![q] = @ + 1]
  /\ queue' = [queue EXCEPT ![q] = Append(@, put[q] + 1)]

Push(t) ==
  /\ pc[t] = "idle"
  /\ put[Outgoing] < MaxPushes
  /\ Free(Outgoing)
  /\ Enqueue(Outgoing)
  /\ Goto(t, "notify")
  /\ UNCHANGED <<owner, connected, socketOpen, index, hand, sent, failed, faults, crashed>>

ReceiverPush ==
  /\ pc[Receiver] = "push"
  /\ Free(Incoming)
  /\ Enqueue(Incoming)
  /\ Goto(Receiver, "notify")
  /\ UNCHANGED <<owner, connected, socketOpen, index, hand, sent, failed, faults, crashed>>

NotifyNobody(t) ==
  /\ pc[t] = "notify"
  /\ Goto(t, Resume(t))
  /\ OnlyControl
Notify(t) ==
  /\ pc[t] = "notify"
  /\ \/ /\ Waiting(Target(t)) = {}
        /\ Goto(t, Resume(t))
     \/ \E w \in Waiting(Target(t)) :
          ~crashed /\ pc' = [pc EXCEPT ![t] = Resume(t), ![w] = "woken"]
  /\ OnlyControl

\* A condition variable may wake a waiter nobody notified.
SpuriousWake(t) ==
  /\ pc[t] = "waiting"
  /\ Goto(t, "woken")
  /\ OnlyControl

-----------------------------------------------------------------------------
(* hasRequest, hasResponse; popRequest, popResponse.  The wait predicate   *)
(* is "not empty, or not connected", and reads the flag without its mutex; *)
(* the element is taken in the critical section that found it true.        *)

\* The answer FALSE changes nothing, so only the answer TRUE is a step.
HasEver(t) ==
  /\ t \in Poppers
  /\ pc[t] = "idle"
  /\ Free(Incoming)
  /\ put[Incoming] > 0
  /\ Goto(t, "has")
  /\ OnlyControl
Has(t) ==
  /\ t \in Poppers
  /\ pc[t] = "idle"
  /\ Free(Incoming)
  /\ queue[Incoming] # <<>>
  /\ Goto(t, "has")
  /\ OnlyControl

PopWait(t) ==
  /\ queue[Incoming] = <<>> /\ connected
  /\ Goto(t, "waiting")
  /\ UNCHANGED <<queue, faults, crashed>>

PopFirst(t) ==
  /\ queue[Incoming] # <<>>
  /\ queue' = [queue EXCEPT ![Incoming] = Tail(@)]
  /\ Goto(t, "idle")
  /\ UNCHANGED <<faults, crashed>>

\* queue[0] and erase(begin()) on an empty vector.
PopEmpty(t) ==
  /\ queue[Incoming] = <<>> /\ ~connected
  /\ Undefined("pop")
  /\ Goto(t, "idle")
  /\ UNCHANGED queue

Pop(t) ==
  /\ t \in Poppers
  /\ pc[t] \in {"idle", "has", "woken"}
  /\ Free(Incoming)
  /\ \/ PopWait(t)
     \/ PopFirst(t)
     \/ PopEmpty(t)
  /\ UNCHANGED <<owner, connected, socketOpen, index, hand, put, sent, failed>>

-----------------------------------------------------------------------------
(* peekResponse(index), peekRequest(index).                                *)

\* The size is read in a critical section of its own.  An index outside the
\* queue returns a default and changes nothing.
PeekResponseKeepsMutex(t, i) ==
  /\ t \in Peekers /\ "response" \in Peekable
  /\ pc[t] = "idle"
  /\ Free("response")
  /\ i < Len(queue["response"])
  /\ owner' = [owner EXCEPT !["response"] = t]
  /\ index' = [index EXCEPT ![t] = i]
  /\ Goto(t, "peek")
  /\ UNCHANGED <<queue, connected, socketOpen, hand, put, sent, failed, faults, crashed>>
PeekResponseOffByOne(t, i) ==
  /\ t \in Peekers /\ "response" \in Peekable
  /\ pc[t] = "idle"
  /\ Free("response")
  /\ i <= Len(queue["response"])
  /\ index' = [index EXCEPT ![t] = i]
  /\ Goto(t, "peek")
  /\ UNCHANGED <<queue, owner, connected, socketOpen, hand, put, sent, failed, faults, crashed>>
PeekResponse(t, i) ==
  /\ t \in Peekers /\ "response" \in Peekable
  /\ pc[t] = "idle"
  /\ Free("response")
  /\ i < Len(queue["response"])
  /\ index' = [index EXCEPT ![t] = i]
  /\ Goto(t, "peek")
  /\ UNCHANGED <<queue, owner, connected, socketOpen, hand, put, sent, failed, faults, crashed>>

\* The second critical section indexes the vector without looking again.
PeekResponseRead(t) ==
  /\ pc[t] = "peek"
  /\ Free("response")
  /\ \/ index[t] < Len(queue["response"]) /\ UNCHANGED <<faults, crashed>>
     \/ index[t] >= Len(queue["response"]) /\ Undefined("peek")
  /\ Goto(t, "idle")
  /\ UNCHANGED <<queue, owner, connected, socketOpen, index, hand, put, sent, failed>>

\* getRequestQueueSize() locks the std::mutex its caller already holds: the
\* thread stops there, and the mutex stays taken.
PeekRequest(t) ==
  /\ t \in Peekers /\ "request" \in Peekable
  /\ pc[t] = "idle"
  /\ Free("request")
  /\ owner' = [owner EXCEPT !["request"] = t]
  /\ Goto(t, "stuck")
  /\ UNCHANGED <<queue, connected, socketOpen, index, hand, put, sent, failed, faults, crashed>>

-----------------------------------------------------------------------------
(* disconnect(): close the socket, then clear the flag, under              *)
(* connectedMutex.  No condition variable is notified.                     *)

\* Bound: a caller disconnects a session it still sees connected.
DisconnectForgetsClose(t) ==
  /\ \/ t \in Callers /\ pc[t] = "idle" /\ connected
     \/ t = Receiver /\ pc[t] = "close"
  /\ Free("connected")
  /\ owner' = [owner EXCEPT !["connected"] = t]
  /\ Goto(t, "closing")
  /\ UNCHANGED <<queue, connected, socketOpen, index, hand, put, sent, failed, faults, crashed>>
DisconnectClose(t) ==
  /\ \/ t \in Callers /\ pc[t] = "idle" /\ connected
     \/ t = Receiver /\ pc[t] = "close"
  /\ Free("connected")
  /\ owner' = [owner EXCEPT !["connected"] = t]
  /\ socketOpen' = FALSE
  /\ Goto(t, "closing")
  /\ UNCHANGED <<queue, connected, index, hand, put, sent, failed, faults, crashed>>

DisconnectFlag(t) ==
  /\ pc[t] = "closing"
  /\ connected' = FALSE
  /\ owner' = [owner EXCEPT !["connected"] = Nobody]
  /\ Goto(t, Resume(t))
  /\ UNCHANGED <<queue, socketOpen, index, hand, put, sent, failed, faults, crashed>>

-----------------------------------------------------------------------------
(* sendRequestSession / sendResponseSession.                               *)

SenderLoopForever ==
  /\ pc[Sender] = "loop"
  /\ Free("connected")
  /\ Goto(Sender, "enter")
  /\ OnlyControl
SenderLoop ==
  /\ pc[Sender] = "loop"
  /\ Free("connected")
  /\ Goto(Sender, IF connected THEN "enter" ELSE "done")
  /\ OnlyControl

SenderWait ==
  /\ queue[Outgoing] = <<>> /\ Free("connected") /\ connected
  /\ Goto(Sender, "waiting")
  /\ UNCHANGED <<queue, owner, hand, faults, crashed>>

SenderFirstUnerased ==
  /\ queue[Outgoing] # <<>>
  /\ hand' = Head(queue[Outgoing])
  /\ owner' = [owner EXCEPT ![Outgoing] = Sender]
  /\ Goto(Sender, "sending")
  /\ UNCHANGED <<queue, faults, crashed>>
SenderFirst ==
  /\ queue[Outgoing] # <<>>
  /\ hand' = Head(queue[Outgoing])
  /\ queue' = [queue EXCEPT ![Outgoing] = Tail(@)]
  /\ owner' = [owner EXCEPT ![Outgoing] = Sender]
  /\ Goto(Sender, "sending")
  /\ UNCHANGED <<faults, crashed>>

\* The predicate is also true once the session is disconnected.
SenderEmpty ==
  /\ queue[Outgoing] = <<>> /\ Free("connected") /\ ~connected
  /\ Undefined("send")
  /\ hand' = Stale
  /\ owner' = [owner EXCEPT ![Outgoing] = Sender]
  /\ Goto(Sender, "sending")
  /\ UNCHANGED queue

\* The predicate's isConnected() is evaluated with the queue's mutex held, and
\* only if the queue is empty.  Nothing else can change the queue while it
\* blocks, so one step for all of it loses no behaviour.
SenderTake ==
  /\ pc[Sender] \in {"enter", "woken"}
  /\ Free(Outgoing)
  /\ SenderWait \/ SenderFirst \/ SenderEmpty
  /\ UNCHANGED <<connected, socketOpen, index, put, sent, failed>>

SenderWrites ==
  /\ socketOpen
  /\ sent' = Append(sent, hand)
  /\ UNCHANGED failed

\* The packet does not encode, or send() fails: on a closed descriptor always, on
\* an open one when its buffers are full or the connection is not there.  The
\* sender ignores the result, and the packet is gone.
SenderFails ==
  /\ failed' = failed \cup ({hand} \ {Stale})
  /\ UNCHANGED sent

\* sendPacket() with the queue's mutex still held, then the end of the loop body.
SenderSend ==
  /\ pc[Sender] = "sending"
  /\ SenderWrites \/ SenderFails
  /\ owner' = [owner EXCEPT ![Outgoing] = Nobody]
  /\ Goto(Sender, "loop")
  /\ UNCHANGED <<queue, connected, socketOpen, index, hand, put, faults, crashed>>

-----------------------------------------------------------------------------
(* receiveResponseSession / receiveRequestSession, at the level of whole   *)
(* packets.                                                                *)

ReceiverLoopForever ==
  /\ pc[Receiver] = "loop"
  /\ Free("connected")
  /\ Goto(Receiver, "poll")
  /\ OnlyControl
ReceiverLoop ==
  /\ pc[Receiver] = "loop"
  /\ Free("connected")
  /\ Goto(Receiver, IF connected THEN "poll" ELSE "done")
  /\ OnlyControl

\* epoll_wait reports the descriptor, which it no longer watches once closed.
ReceiverEvent ==
  /\ pc[Receiver] = "poll"
  /\ socketOpen
  /\ Goto(Receiver, "event")
  /\ OnlyControl

\* epoll_wait times out, or receiveMessage returns the default packet (id -1).
ReceiverNothing ==
  /\ pc[Receiver] \in {"poll", "event"}
  /\ Goto(Receiver, "loop")
  /\ OnlyControl

\* A disconnected receiveMessage skips recv() and still parses what is buffered;
\* in between, with the socket closed and the flag set, recv() fails.
ReceiverPacket ==
  /\ pc[Receiver] = "event"
  /\ socketOpen \/ ~connected
  /\ put[Incoming] < MaxArrivals
  /\ Goto(Receiver, "push")
  /\ OnlyControl

\* recv() returns 0: receiveMessage calls disconnect().
ReceiverEof ==
  /\ pc[Receiver] = "event"
  /\ socketOpen
  /\ Goto(Receiver, "close")
  /\ OnlyControl

\* EPOLLHUP or EPOLLERR: both close the descriptor, only the server disconnects.
ReceiverHangup ==
  /\ pc[Receiver] = "event"
  /\ socketOpen' = FALSE
  /\ Goto(Receiver, IF Role = "server" THEN "close" ELSE "loop")
  /\ UNCHANGED <<queue, owner, connected, index, hand, put, sent, failed, faults, crashed>>

-----------------------------------------------------------------------------
CallerNext(t) ==
  \/ Push(t) \/ Has(t) \/ Pop(t)
  \/ \E i \in 0..(MaxPushes + MaxArrivals) : PeekResponse(t, i)
  \/ PeekResponseRead(t) \/ PeekRequest(t)

SenderNext == SenderLoop \/ SenderTake \/ SenderSend

ReceiverNext ==
  \/ ReceiverLoop \/ ReceiverEvent \/ ReceiverNothing \/ ReceiverPacket
  \/ ReceiverPush \/ ReceiverEof \/ ReceiverHangup

SharedNext(t) ==
  Notify(t) \/ SpuriousWake(t) \/ DisconnectClose(t) \/ DisconnectFlag(t)

Next ==
  \/ \E t \in Callers : CallerNext(t)
  \/ SenderNext
  \/ ReceiverNext
  \/ \E t \in Threads : SharedNext(t)

Spec == Init /\ [][Next]_vars

\* The scheduler runs every thread that is inside an operation; it makes no
\* caller start one, no peer send or hang up, and no waiter wake by itself.
Fairness ==
  /\ \A t \in Threads : WF_vars(Notify(t) \/ DisconnectFlag(t))
  /\ \A t \in Callers :
       WF_vars(PeekResponseRead(t) \/ (pc[t] = "woken" /\ Pop(t)))
  /\ WF_vars(SenderNext)
  /\ WF_vars(ReceiverNext \/ DisconnectClose(Receiver))

FairSpec == Spec /\ Fairness

-----------------------------------------------------------------------------
(* Properties.                                                             *)

\* notify_one comes after the mutex is released.  Still no packet is left behind
\* by sleeping consumers: when one of them waits, every packet in the queue has
\* a notification on its way or a consumer that has been woken for it.
NoLostWakeup ==
  \A q \in Queues :
    Waiting(q) # {} =>
      Len(queue[q]) <= Cardinality(Notifying(q)) + Cardinality(Woken(q))

\* What reaches the socket is what was pushed, in that order and without a
\* repetition; a packet is missing only where its sendPacket() failed.  The stale
\* packet read from an empty queue is never written: the stale read needs a
\* cleared flag, and the socket is closed before the flag is cleared.
SentInPushOrder ==
  \A i \in 1..Len(sent) :
    sent[i] # Stale /\ \A j \in 1..(i - 1) : sent[j] < sent[i]

Written == {sent[i] : i \in 1..Len(sent)}
\* How many packets have left the queue, and how many of them sendPacket() has
\* returned from.
Taken == put[Outgoing] - Len(queue[Outgoing])
InHand == IF pc[Sender] = "sending" /\ hand # Stale THEN 1 ELSE 0
Settled == Taken - InHand

\* The sender's pop-then-send forgets no packet and repeats none, through every
\* race with pushes and disconnect(): the packets that have left the queue are
\* the one in its hand, those written, and those whose sendPacket() failed, which
\* is the only way a packet is lost between the queue and the socket.
TakenAccounted ==
  /\ Written \cup failed = 1..Settled
  /\ Written \cap failed = {}

\* A caller that is the only consumer of the incoming queue and has been told
\* hasRequest() / hasResponse() is not going to wait in the pop that follows.
HasImpliesPop ==
  \A t \in Poppers :
    Poppers = {t} /\ pc[t] = "has" => queue[Incoming] # <<>>

\* peekResponse's check of the index is still good in its second critical
\* section if nobody but the peeking thread takes packets from that queue.
PeekInBounds ==
  \A t \in Peekers :
    Consumers("response") \subseteq {t} /\ pc[t] = "peek"
      => index[t] < Len(queue["response"])

\* Nothing is written to the socket once isConnected() answers FALSE, although
\* the sender is not stopped and still takes packets.
NothingSentAfterDisconnect == [][~connected => sent' = sent]_vars

\* A packet the receiver has read from the socket gets into the incoming queue:
\* no operation keeps that queue's mutex.
ReceivedIsQueued == pc[Receiver] = "push" ~> (pc[Receiver] = "notify" \/ crashed)

\* A caller of peekRequest has stopped with the request queue's mutex.
PeekStuck == \E t \in Peekers : pc[t] = "stuck"

\* A packet pushed on a session whose socket stays open is tried: sendPacket() is
\* called for it, however its notification, the sender's sleep and the other
\* packets interleave.  Only a caller of peekRequest can keep it in the queue.
EveryPushIsTried ==
  \A k \in 1..MaxPushes :
    put[Outgoing] >= k ~> (k \in Written \cup failed \/ ~socketOpen \/ PeekStuck)

\* The receiver leaves its loop after a disconnect, whoever called it: epoll_wait
\* returns within its timeout and the loop condition is read again.
ReceiverStops == ~connected ~> (pc[Receiver] = "done" \/ crashed)

\* After a disconnect nothing keeps the sender but sleep on an empty queue (which
\* SessionEnds is about), or a caller of peekRequest: it does not spin in its loop,
\* and does not sleep in front of a packet.
SenderEndsOrSleeps ==
  ~connected ~>
    [](\/ pc[Sender] = "done"
       \/ pc[Sender] = "waiting" /\ queue[Outgoing] = <<>>
       \/ crashed
       \/ PeekStuck)

\* networkingSession() returns after a disconnect: both joins succeed.
SessionEnds ==
  ~connected ~> ((pc[Sender] = "done" /\ pc[Receiver] = "done") \/ crashed)

=============================================================================
