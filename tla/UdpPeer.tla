------------------------------ MODULE UdpPeer -------------------------------
(***************************************************************************)
(* TTP2 over UDP: the sending half of some peers and the receiving half of *)
(* one (PeerSessionController on top of UdpNetworking).  The halves of a   *)
(* peer share its "connected" flag and its process; the senders here are   *)
(* other peers than the receiver, so that neither ends with the other.     *)
(*                                                                         *)
(* A sender resends the packet in front of its queue until it hears an     *)
(* acknowledgement or has tried MaxTries times, with the queue's mutex     *)
(* held all the while.  The receiver reads one datagram for each edge-     *)
(* triggered event, acknowledges it, and then queues it.                   *)
(*                                                                         *)
(* The packet <<s, n>> is the n-th that s was given.  Each packet is sent  *)
(* from a socket of its own, so that an acknowledgement belongs to one     *)
(* packet; the kernel is taken not to reuse the port of such a socket      *)
(* while datagrams for it are under way.  The network loses, delays and    *)
(* reorders datagrams.                                                     *)
(*                                                                         *)
(* An operator defined directly before one whose name it extends is that   *)
(* operator with a plausible bug in it; no specification uses it.          *)
(***************************************************************************)
EXTENDS Naturals, Sequences, FiniteSets

CONSTANTS
  Senders,    \* the peers that send
  Receiver,   \* the peer that receives
  Default,    \* the entry that stands for a failed read
  MaxTries,   \* how often a packet is sent (10 in the code)
  Capacity,   \* datagrams the receiver's socket holds
  MaxPackets  \* bound: packets each sender is given

Packets == Senders \X (1..MaxPackets)

ASSUME PeersAssumption == Receiver \notin Senders /\ Default \notin Packets
ASSUME NumbersAssumption ==
  MaxTries \in Nat \ {0} /\ Capacity \in Nat /\ MaxPackets \in Nat

VARIABLES
  connected,      \* each controller's flag
  sendQueue,      \* each sender's queue, by packet number
  spc,            \* where each sender's thread is
  cur,            \* the number of the packet it sends
  tries,          \* maxResendCount
  net,            \* copies of each packet under way
  acks,           \* acknowledgements of each packet under way
  socket,         \* the datagrams in the receiver's socket
  ready,          \* epoll has an event to report for it
  rpc,            \* where the receiver's thread is
  hand,           \* the entry it is about to queue
  receivedQueue,  \* the receiver's queue
  given,          \* history: packets each sender was given
  attempts,       \* history: how often each packet was sent
  acked,          \* history: packets whose sender heard an acknowledgement
  dropped,        \* history: packets given up after the last try
  reads,          \* history: how often each packet was read
  popped,         \* history: what the receiving application was given
  coalesced       \* history: a datagram arrived while an event was pending

senderVars == <<sendQueue, spc, cur, tries, given, attempts, acked, dropped>>
wireVars == <<net, acks>>
receiverVars == <<socket, ready, rpc, hand, receivedQueue, reads, popped, coalesced>>
vars == <<connected, senderVars, wireVars, receiverVars>>

Entries == Packets \cup {Default}

TypeOK ==
  /\ connected \in [Senders \cup {Receiver} -> BOOLEAN]
  /\ sendQueue \in [Senders -> Seq(1..MaxPackets)]
  /\ spc \in [Senders -> {"loop", "enter", "send", "wait", "done", "crashed"}]
  /\ cur \in [Senders -> 0..MaxPackets]
  /\ tries \in [Senders -> 0..MaxTries]
  /\ net \in [Packets -> Nat] /\ acks \in [Packets -> Nat]
  /\ socket \in Seq(Packets) /\ ready \in BOOLEAN
  /\ rpc \in {"loop", "poll", "read", "decode", "queue", "done", "crashed"}
  /\ hand \in Entries /\ receivedQueue \in Seq(Entries)
  /\ given \in [Senders -> 0..MaxPackets]
  /\ attempts \in [Packets -> Nat] /\ reads \in [Packets -> Nat]
  /\ acked \subseteq Packets /\ dropped \subseteq Packets
  /\ popped \in Seq(Entries) /\ coalesced \in BOOLEAN

Init ==
  /\ connected = [p \in Senders \cup {Receiver} |-> TRUE]
  /\ sendQueue = [s \in Senders |-> <<>>]
  /\ spc = [s \in Senders |-> "loop"]
  /\ cur = [s \in Senders |-> 0] /\ tries = [s \in Senders |-> 0]
  /\ given = [s \in Senders |-> 0]
  /\ net = [p \in Packets |-> 0] /\ acks = [p \in Packets |-> 0]
  /\ attempts = [p \in Packets |-> 0] /\ reads = [p \in Packets |-> 0]
  /\ acked = {} /\ dropped = {}
  /\ socket = <<>> /\ ready = FALSE /\ rpc = "loop"
  /\ hand = Default /\ receivedQueue = <<>> /\ popped = <<>>
  /\ coalesced = FALSE

-----------------------------------------------------------------------------
(* The sender: sendPacket, sendSession, sendPacketTo and sendMessageTo.    *)

Sending(s) == <<s, cur[s]>>
Goto(s, label) == spc' = [spc EXCEPT ![s] = label]

\* The caller of sendPacket waits while the thread has the queue's mutex.
SendPacket(s) ==
  /\ spc[s] \in {"loop", "enter", "done"}
  /\ given[s] < MaxPackets
  /\ given' = [given EXCEPT ![s] = @ + 1]
  /\ sendQueue' = [sendQueue EXCEPT ![s] = Append(@, given'[s])]
  /\ UNCHANGED <<connected, spc, cur, tries, attempts, acked, dropped, wireVars,
                 receiverVars>>

SenderLoop(s) ==
  /\ spc[s] = "loop"
  /\ Goto(s, IF connected[s] THEN "enter" ELSE "done")
  /\ UNCHANGED <<connected, sendQueue, cur, tries, given, attempts, acked, dropped,
                 wireVars, receiverVars>>

SenderIdle(s) ==
  /\ spc[s] = "enter"
  /\ sendQueue[s] = <<>>
  /\ Goto(s, "loop")
  /\ UNCHANGED <<connected, sendQueue, cur, tries, given, attempts, acked, dropped,
                 wireVars, receiverVars>>

SenderTakeLast(s) ==
  /\ spc[s] = "enter"
  /\ sendQueue[s] # <<>>
  /\ cur' = [cur EXCEPT ![s] = sendQueue[s][Len(sendQueue[s])]]
  /\ sendQueue' = [sendQueue EXCEPT ![s] = SubSeq(@, 1, Len(@) - 1)]
  /\ tries' = [tries EXCEPT ![s] = MaxTries]
  /\ Goto(s, "send")
  /\ UNCHANGED <<connected, given, attempts, acked, dropped, wireVars, receiverVars>>
SenderTake(s) ==
  /\ spc[s] = "enter"
  /\ sendQueue[s] # <<>>
  /\ cur' = [cur EXCEPT ![s] = Head(sendQueue[s])]
  /\ sendQueue' = [sendQueue EXCEPT ![s] = Tail(@)]
  /\ tries' = [tries EXCEPT ![s] = MaxTries]
  /\ Goto(s, "send")
  /\ UNCHANGED <<connected, given, attempts, acked, dropped, wireVars, receiverVars>>

Transmit(s) ==
  /\ spc[s] = "send"
  /\ net' = [net EXCEPT ![Sending(s)] = @ + 1]
  /\ attempts' = [attempts EXCEPT ![Sending(s)] = @ + 1]
  /\ Goto(s, "wait")
  /\ UNCHANGED <<connected, sendQueue, cur, tries, given, acked, dropped, acks,
                 receiverVars>>

\* One second without an acknowledgement.  After the last try the packet is
\* forgotten, and nobody is told.
TimeoutWaitsAgain(s) ==
  /\ spc[s] = "wait"
  /\ UNCHANGED vars
TimeoutOnceMore(s) ==
  /\ spc[s] = "wait"
  /\ tries' = [tries EXCEPT ![s] = @ - 1]
  /\ \/ tries[s] > 0 /\ Goto(s, "send") /\ UNCHANGED dropped
     \/ tries[s] = 0 /\ Goto(s, "loop") /\ dropped' = dropped \cup {Sending(s)}
  /\ UNCHANGED <<connected, sendQueue, cur, given, attempts, acked, wireVars,
                 receiverVars>>
Timeout(s) ==
  /\ spc[s] = "wait"
  /\ tries' = [tries EXCEPT ![s] = @ - 1]
  /\ \/ tries[s] > 1 /\ Goto(s, "send") /\ UNCHANGED dropped
     \/ tries[s] = 1 /\ Goto(s, "loop") /\ dropped' = dropped \cup {Sending(s)}
  /\ UNCHANGED <<connected, sendQueue, cur, given, attempts, acked, wireVars,
                 receiverVars>>

\* Whichever attempt the acknowledgement answers.
ReceiveAnyAck(s) ==
  /\ spc[s] = "wait"
  /\ \E n \in 1..MaxPackets :
       acks[<<s, n>>] > 0 /\ acks' = [acks EXCEPT ![<<s, n>>] = @ - 1]
  /\ acked' = acked \cup {Sending(s)}
  /\ Goto(s, "loop")
  /\ UNCHANGED <<connected, sendQueue, cur, tries, given, attempts, dropped, net,
                 receiverVars>>
ReceiveAck(s) ==
  /\ spc[s] = "wait"
  /\ acks[Sending(s)] > 0
  /\ acks' = [acks EXCEPT ![Sending(s)] = @ - 1]
  /\ acked' = acked \cup {Sending(s)}
  /\ Goto(s, "loop")
  /\ UNCHANGED <<connected, sendQueue, cur, tries, given, attempts, dropped, net,
                 receiverVars>>

\* A packet that does not encode, a socket that cannot be made or read: nothing
\* catches the exception, and the process ends.
SenderThrows(s) ==
  /\ spc[s] \in {"send", "wait"}
  /\ Goto(s, "crashed")
  /\ UNCHANGED <<connected, sendQueue, cur, tries, given, attempts, acked, dropped,
                 wireVars, receiverVars>>

-----------------------------------------------------------------------------
(* The network and the receiver's kernel.                                  *)

\* A datagram is lost, or finds the socket full or closed.
LoseDatagram(p) ==
  /\ net[p] > 0
  /\ net' = [net EXCEPT ![p] = @ - 1]
  /\ UNCHANGED <<connected, senderVars, acks, receiverVars>>

\* An acknowledgement is lost, or finds its socket closed.
LoseAck(p) ==
  /\ acks[p] > 0
  /\ acks' = [acks EXCEPT ![p] = @ - 1]
  /\ UNCHANGED <<connected, senderVars, net, receiverVars>>

Listening == connected[Receiver] /\ rpc # "crashed"

\* An arrival makes one edge; a second one before epoll_wait adds nothing to it.
Arrive(p) ==
  /\ net[p] > 0
  /\ Listening
  /\ Len(socket) < Capacity
  /\ net' = [net EXCEPT ![p] = @ - 1]
  /\ socket' = Append(socket, p)
  /\ ready' = TRUE
  /\ coalesced' = (coalesced \/ ready)
  /\ UNCHANGED <<connected, senderVars, acks, rpc, hand, receivedQueue, reads, popped>>

-----------------------------------------------------------------------------
(* The receiver: receiveSession and receivePacketFrom.                     *)

ReceiverLoopForever ==
  /\ rpc = "loop"
  /\ rpc' = "poll"
  /\ UNCHANGED <<connected, senderVars, wireVars, socket, ready, hand, receivedQueue,
                 reads, popped, coalesced>>
ReceiverLoop ==
  /\ rpc = "loop"
  /\ rpc' = IF connected[Receiver] THEN "poll" ELSE "done"
  /\ UNCHANGED <<connected, senderVars, wireVars, socket, ready, hand, receivedQueue,
                 reads, popped, coalesced>>

EpollEventAgain ==
  /\ rpc = "poll"
  /\ ready
  /\ rpc' = "read"
  /\ UNCHANGED <<connected, senderVars, wireVars, socket, ready, hand, receivedQueue,
                 reads, popped, coalesced>>
EpollEvent ==
  /\ rpc = "poll"
  /\ ready
  /\ ready' = FALSE
  /\ rpc' = "read"
  /\ UNCHANGED <<connected, senderVars, wireVars, socket, hand, receivedQueue, reads,
                 popped, coalesced>>

\* One second without an event, or a descriptor that has been closed.
EpollTimeout ==
  /\ rpc = "poll"
  /\ ~ready
  /\ rpc' = "loop"
  /\ UNCHANGED <<connected, senderVars, wireVars, socket, ready, hand, receivedQueue,
                 reads, popped, coalesced>>

\* Both recvfrom() calls, under the queue's mutex.
ReadClearsEvent ==
  /\ rpc = "read"
  /\ socket # <<>>
  /\ hand' = Head(socket)
  /\ socket' = Tail(socket)
  /\ ready' = FALSE
  /\ reads' = [reads EXCEPT ![Head(socket)] = @ + 1]
  /\ rpc' = "decode"
  /\ UNCHANGED <<connected, senderVars, wireVars, receivedQueue, popped, coalesced>>
Read ==
  /\ rpc = "read"
  /\ socket # <<>>
  /\ hand' = Head(socket)
  /\ socket' = Tail(socket)
  /\ reads' = [reads EXCEPT ![Head(socket)] = @ + 1]
  /\ rpc' = "decode"
  /\ UNCHANGED <<connected, senderVars, wireVars, ready, receivedQueue, popped, coalesced>>

\* recvfrom() fails; a default packet is queued all the same.
ReadFails ==
  /\ rpc = "read"
  /\ socket = <<>>
  /\ hand' = Default
  /\ rpc' = "queue"
  /\ UNCHANGED <<connected, senderVars, wireVars, socket, ready, receivedQueue, reads,
                 popped, coalesced>>

\* The acknowledgement leaves before the packet is queued.
Acknowledge ==
  /\ rpc = "decode"
  /\ acks' = IF connected[Receiver] THEN [acks EXCEPT ![hand] = @ + 1] ELSE acks
  /\ rpc' = "queue"
  /\ UNCHANGED <<connected, senderVars, net, socket, ready, hand, receivedQueue, reads,
                 popped, coalesced>>

\* A datagram that does not decode: nothing catches the exception.
DecodeThrows ==
  /\ rpc = "decode"
  /\ rpc' = "crashed"
  /\ socket' = <<>> /\ ready' = FALSE
  /\ UNCHANGED <<connected, senderVars, wireVars, hand, receivedQueue, reads, popped,
                 coalesced>>

QueuePacketOpen ==
  /\ rpc = "queue"
  /\ receivedQueue' =
       IF connected[Receiver] THEN Append(receivedQueue, hand) ELSE receivedQueue
  /\ rpc' = "loop"
  /\ UNCHANGED <<connected, senderVars, wireVars, socket, ready, hand, reads, popped,
                 coalesced>>
QueuePacket ==
  /\ rpc = "queue"
  /\ receivedQueue' = Append(receivedQueue, hand)
  /\ rpc' = "loop"
  /\ UNCHANGED <<connected, senderVars, wireVars, socket, ready, hand, reads, popped,
                 coalesced>>

\* hasPacket and popReceivedPacket.  An empty queue gives a default packet and
\* changes nothing.  The receiver holds the mutex while it reads and queues.
PopReceivedPacket ==
  /\ rpc \notin {"decode", "queue", "crashed"}
  /\ receivedQueue # <<>>
  /\ popped' = Append(popped, Head(receivedQueue))
  /\ receivedQueue' = Tail(receivedQueue)
  /\ UNCHANGED <<connected, senderVars, wireVars, socket, ready, rpc, hand, reads,
                 coalesced>>

-----------------------------------------------------------------------------
(* disconnect: clear the flag, close the sockets.                          *)

DisconnectSender(s) ==
  /\ connected[s] /\ spc[s] # "crashed"
  /\ connected' = [connected EXCEPT ![s] = FALSE]
  /\ UNCHANGED <<senderVars, wireVars, receiverVars>>

DisconnectReceiver ==
  /\ connected[Receiver] /\ rpc # "crashed"
  /\ connected' = [connected EXCEPT ![Receiver] = FALSE]
  /\ socket' = <<>> /\ ready' = FALSE
  /\ UNCHANGED <<senderVars, wireVars, rpc, hand, receivedQueue, reads, popped,
                 coalesced>>

-----------------------------------------------------------------------------
SenderNext(s) ==
  \/ SenderLoop(s) \/ SenderIdle(s) \/ SenderTake(s)
  \/ Transmit(s) \/ Timeout(s) \/ ReceiveAck(s)

ReceiverNext ==
  \/ ReceiverLoop \/ EpollEvent \/ EpollTimeout
  \/ Read \/ ReadFails \/ Acknowledge \/ QueuePacket

Next ==
  \/ \E s \in Senders :
       SendPacket(s) \/ SenderNext(s) \/ SenderThrows(s) \/ DisconnectSender(s)
  \/ \E p \in Packets : LoseDatagram(p) \/ LoseAck(p) \/ Arrive(p)
  \/ ReceiverNext \/ DecodeThrows \/ PopReceivedPacket \/ DisconnectReceiver

Spec == Init /\ [][Next]_vars

\* The threads run: a receive timeout and an epoll timeout are one second each.
\* The network delivers nothing it does not want to.
Fairness == /\ \A s \in Senders : WF_vars(SenderNext(s))
            /\ WF_vars(ReceiverNext)

FairSpec == Spec /\ Fairness

-----------------------------------------------------------------------------
(* Properties.                                                             *)

Holds(queue, p) == \E i \in 1..Len(queue) : queue[i] = p

\* A packet whose sender has heard an acknowledgement is the receiving
\* application's to pop, or about to be queued for it: neither a resent copy, nor
\* a late acknowledgement, nor a disconnect between the acknowledgement and the
\* queueing makes it a false one.
AckedIsReceived ==
  \A p \in acked :
    Holds(popped, p) \/ Holds(receivedQueue, p) \/ (rpc = "queue" /\ hand = p)

\* A packet overtakes an earlier one of the same sender only if that one has been
\* given up: packets are first received in the order sendPacket got them.
OvertakesOnlyDropped ==
  \A s \in Senders : \A m, n \in 1..MaxPackets :
    m < n /\ reads[<<s, n>>] > 0 => reads[<<s, m>>] > 0 \/ <<s, m>> \in dropped

\* The peers keep the promise of AtLeastOnce: one packet of a sender at a time,
\* each received at least once before it counts as confirmed.
Promise ==
  INSTANCE AtLeastOnce WITH
    started <- {p \in Packets : attempts[p] > 0},
    received <- {p \in Packets : reads[p] > 0},
    confirmed <- acked
ImplementsAtLeastOnce == Promise!Spec

Count(queue, p) == Cardinality({i \in 1..Len(queue) : queue[i] = p})
Copies(p) == net[p] + reads[p] + Count(socket, p)

\* The receiver sees a packet at most MaxTries times: resending makes duplicates,
\* and nothing else does.
CopiesBounded == \A p \in Packets : Copies(p) <= attempts[p] /\ attempts[p] <= MaxTries

Pending == (IF ready THEN 1 ELSE 0) + (IF rpc = "read" THEN 1 ELSE 0)

\* Every event has a datagram that is still unread, so that only a disconnect
\* makes the receiver queue a default packet.
EventsHaveDatagrams == connected[Receiver] /\ rpc # "crashed" => Pending <= Len(socket)

\* One datagram per event is enough as long as no datagram has arrived while an
\* event was pending: each one in the socket has an event of its own.
NoDatagramForgotten == ~coalesced => Len(socket) <= Pending

\* The bounded number of tries lets a sender finish with each packet, whether the
\* receiver answers or not.
PacketSettled ==
  \A s \in Senders : \A n \in 1..MaxPackets :
    given[s] >= n ~>
      (<<s, n>> \in acked \cup dropped \/ ~connected[s] \/ spc[s] = "crashed")

\* networkingSession() returns after a disconnect, even in the middle of the
\* attempts to reach a peer that does not answer.
PeerStops ==
  /\ \A s \in Senders : ~connected[s] ~> spc[s] \in {"done", "crashed"}
  /\ ~connected[Receiver] ~> rpc \in {"done", "crashed"}

=============================================================================
