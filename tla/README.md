# A verification project for TTP2

TTP2 (`src/lib/ttp2`) is a C++ library that exchanges typed packets: over TCP
between a client and a server, over UDP between peers. Packets are encoded
with ASN.1 DER; over TCP a frame is a four-byte length and the DER bytes. This
directory holds TLA+ models of the library, TLC configurations that check them
on small instances, and proofs that TLAPS checks for instances of any size.

Paths below are relative to `src/lib/ttp2/src` unless they start with `test/`.

## Inventory

| component | state | operations | what makes it correct |
|---|---|---|---|
| packet queues (`core/tcp_networking.cpp`) | two vectors, each with a mutex and a condition variable; the `connected` flag and its mutex | `has…`, `pop…`, `push…`, `peek…`, `isConnected`, `disconnect` | FIFO; no packet lost, repeated or invented; a sleeping consumer is woken for every packet; the vector is indexed only inside its elements; mutexes come back |
| framing (`core/tcp_networking.cpp`) | `sessionBuffers`, `autoId` | `sendMessage`, `sendBytes`, `receiveMessage` | the receiver sees frames where the sender made them; delivery in order, at most once, unaltered, eventually |
| client controller (`client_session_controller.cpp`) | descriptor, epoll descriptor, two threads | `networkingSession`, sender loop, receiver loop, `disconnect` | nothing is sent after a disconnect; both loops end; every end of the connection is noticed |
| server controller (`server_session_controller.cpp`) | the same | the same | the same; a number it closes or writes to is still its own |
| UDP networking (`core/udp_networking.cpp`) | bound socket, epoll descriptor, `autoId` | `sendPacketTo`, `sendMessageTo`, `receivePacketFrom` | a packet the sender believes acknowledged has been received |
| peer controller (`peer_session_controller.cpp`) | two queues with a mutex each, flag | sender and receiver loop, `sendPacket`, `popReceivedPacket`, `hasPacket`, `disconnect` | what is acknowledged is queued; no datagram is left unread |
| ASN.1 codec (`helpers/asn1_*.cpp`) | none | encode and decode of each packet type | decode after encode is the identity on what the types can hold |
| Arrow conversion (`helpers/asn1_helpers.cpp:169-229`) | none | `tableToBuffer`, `bufferToTable` | belongs to Apache Arrow |
| interface helpers (`core/tcp_networking.cpp:187-346`) | none | address queries, validation of strings | the address is one of the interface asked for, on whatever list each call finds |
| test server (`test/server/main.cpp`) | listening socket, epoll descriptor, a thread per client | accept loop, echo loop (`clientManager`) | each client gets the answers to its own requests; a client that leaves harms nobody else |
| benchmark (`test/client/src/utils/benchmark.cpp`) | in-flight counter, flag, condition variable | throughput loop, `sendSession`, `disconnect` | the window is kept, the sender is woken, the threads end |
| test client, test peer (`test/`) | menus | calls of the library | |

How they interact. `networkingSession()` starts one sender and one receiver
thread and joins them. The application pushes into the outgoing queue (requests
on a client, responses on a server) and pops from the incoming one. The sender
thread waits on the outgoing queue's condition variable, takes the first packet
and writes its frame to the socket with the queue's mutex still held. The
receiver thread waits in `epoll_wait` (level-triggered, one second at most),
drains the socket into the session buffer, parses at most one frame and pushes
it into the incoming queue. `disconnect()` may be called by the application, by
`receiveMessage` at the end of the stream, and on a server by the hang-up branch.

What is hard: application, sender and receiver threads on the same queues;
condition variables that are notified outside the mutex, or not at all; a flag
that is read with and without its mutex; sockets that are closed under a thread
that still uses them, and whose numbers the kernel hands out again; writes to a
client that has left; partial writes and full buffers on non-blocking sockets;
frames cut into arbitrary segments; one datagram read per edge-triggered event.
`PROJECT.json` lists each hazard at its line.

## Modules

| module | models | used by |
|---|---|---|
| `SessionQueues` | one session controller: queues, flag, sender, receiver, application threads | runs `queues_client`, `queues_end` |
| `SessionQueuesProof` | the inductive invariant and the theorems about `SessionQueues` | |
| `MCSessionQueues` | the server instance with interchangeable application threads | run `queues_server` |
| `OrderedChannel` | the promise of one direction of a TCP session | refinement in `TcpLink` |
| `TcpLink` | one direction of a TCP session in bytes: sender, kernels, receiver, parser | runs `link_…` |
| `TcpLinkProof` | the inductive invariant of `TcpLink`, its refinement of `OrderedChannel` | |
| `ServerFds` | all sessions of the test server: accept loop, descriptor numbers, who gets whose answer | runs `server_fds`, `server_fds_answers` |
| `ServerFdsProof` | the inductive invariant and the theorems about `ServerFds` | |
| `AtLeastOnce` | the promise of TTP2 over UDP | refinement in `UdpPeer` |
| `UdpPeer` | the sending halves of some peers, the network, the receiving half of one | run `udp_order` |
| `UdpPeerProof` | the inductive invariant of `UdpPeer`, its refinement of `AtLeastOnce` | |
| `Benchmark` | the two threads of the throughput benchmark on a session | run `benchmark` |
| `BenchmarkProof` | the inductive invariant and the theorems about `Benchmark` | |
| `Asn1Codec` | the packet codec, field by field (operators, no state) | `EchoSession` |
| `EchoSession` | a client and the echo server end to end: ids and codec | |
| `MCEchoSession` | an instance with packets at the codec's boundaries | run `echo_session` |
| `EchoSessionProof` | the codec's round trip, the inductive invariant and the theorems about `EchoSession` | |
| `HostAddresses` | the interface and address helpers and the server's start | |
| `MCHostAddresses` | an instance with interface lists and texts | run `host_addresses` |
| `HostAddressesProof` | the loop invariants and the theorems about `HostAddresses` | |
| `LoopLemmas` | induction, and that a loop has a value after every round | `EchoSessionProof`, `HostAddressesProof` |

`SessionQueues`, `TcpLink` and `ServerFds` are three views of the same session.
The first has every interleaving of its threads and keeps packets whole; the
second has the bytes; the third has several sessions and the numbers they share,
with queues as sets and a packet per client. An operator defined directly before
one whose name it extends (`MainSignalsNobody` before `MainSignals`) is that operator with a
plausible bug in it: no specification uses it, but it is how `PROJECT.json` shows
that a property can fail.

### SessionQueues

`TcpNetworking` is the base of both controllers, so one module serves both; the
constant `Role` chooses which queue is the outgoing one and what a hang-up does.
A step is what a thread does between two points at which another thread can get
in. A critical section that blocks on nothing is one step; a mutex that is kept
across steps is recorded in `owner` (the sender around `sendPacket`, a thread
inside `disconnect` between `close` and the assignment to the flag, and a caller
of `peekRequest`, for ever). Packets carry the number of their push, which makes
order and loss visible; `Stale` is what a read through an empty vector finds.

| code | actions |
|---|---|
| `pushRequest`, `pushResponse` | `Push` / `ReceiverPush` (under the mutex), then `Notify` (outside it) |
| `hasRequest`, `hasResponse` | `Has` (the answer TRUE) |
| `popRequest`, `popResponse` | `Pop` = `PopWait`, `PopFirst` or `PopEmpty`; `SpuriousWake` |
| `peekResponse` | `PeekResponse` (the size), `PeekResponseRead` (the element) |
| `peekRequest` | `PeekRequest` |
| `disconnect` | `DisconnectClose`, `DisconnectFlag` |
| `sendRequestSession`, `sendResponseSession` | `SenderLoop`, `SenderTake`, `SenderSend` (`SenderWrites` or `SenderFails`) |
| `receiveResponseSession`, `receiveRequestSession` | `ReceiverLoop`, `ReceiverEvent`, `ReceiverNothing`, `ReceiverPacket`, `ReceiverPush`, `ReceiverEof`, `ReceiverHangup` |

An access outside a vector's elements is undefined in C++: `Undefined` lets the
process end there (`crashed`) or go on with a stale packet. The model says which
accesses happened in `faults`. A `sendPacket` may fail on an open socket too: the
packet does not encode, the buffers are full, the connection is not there. The sender
ignores the result, and the packet is gone; `failed` is the history of these.

### TcpLink

A frame is `HeaderLen` units of length and a body of one of the lengths in
`BodyLens`; the unit `<<k, i>>` is the i-th unit of frame k. The stream is never
shortened, so the two kernels and the session buffer are positions in it:
`consumed <= buffered <= arrived <= Len(stream)`. `Write(n)` is a `send()` that
takes n units, at most what the current `sendBytes` call still has and what the
socket buffers have room for. `WriteFails` is a `send()` that fails because they
are full or the connection is not open; `sendBytes` then gives up, and
`sendMessage` goes on with the second `sendBytes` whatever the first returned.
`Recv` and `DrainEnds` are the drain loop, `ParseIncomplete` and `ParseFrame` the
parser, which runs once per event. A length read from units that are not a
prefix is any of `GarbageLens`. A misaligned or patched body decodes only if it
starts with the tag of a packet and has that packet's total length (`Decoded`); that
octets from inside a body are taken for a whole packet is left out. The frames are
those of packets that encode (`EchoSession` has the others).
The link ends in order (`SenderClose`), by a reset, or is refused. A write to a
link that has been reset fails here; that it also ends the process of a sender
that does not ignore SIGPIPE is in `ServerFds`.

`OrderedChannel` is what this promises: in-order, at-most-once delivery, and,
until a write fails, no gap and no altered content.

### ServerFds

`table` says what each descriptor number stands for: a connection, an epoll
instance, or nothing. The kernel hands out the lowest free number (`Grant`) and
drops a closed connection from every epoll instance that watches it. `sock` and
`epoll` are the numbers a session keeps: it never forgets them, so they can be
stale. All sessions share `NumFds` numbers.

| code | actions |
|---|---|
| accept loop, `test/server/main.cpp` | `Accept` (-1 when no number is left) |
| `networkingSession` | `EpollCreate`, `EpollAdd` (a failure starts no thread) |
| `receiveRequestSession`, `receiveMessage` | `EpollEvent`, `Receive`; on a hang-up `HangupClose`, then `HangupDisconnects` |
| `disconnect` | `Disconnect`, the end of `Receive` and of the hang-up |
| `clientManager` | `Echo`, `Terminate` |
| `sendResponseSession`, `sendPacket` | `SenderTake`, `SenderTakeStale`, `SenderSend` |
| the clients | `ClientSends`, `ClientLeaves` (in order or by a reset) |

`SenderSend` writes to whatever the number stands for at that moment. A client that
has closed its end may answer a write with a reset, and the next write then raises
SIGPIPE, which nothing in the repository ignores: `fatal` names the packet, and
the process takes no more steps. `raced`, `exhausted` and `abandoned` record the three
things the guarantees are conditional on: a number handed out between the two
closes of a hang-up, no number left, and a client that leaves before its answer.

### UdpPeer

The two halves of a peer share only the `connected` flag and the process, and each
queue has a mutex of its own, so the module has the sending halves of several peers
and the receiving half of one. A sender holds its queue's mutex from the take to the
end of `sendPacketTo`, which is why `SendPacket` is not enabled while it sends.

| code | actions |
|---|---|
| `sendPacket` | `SendPacket` |
| `sendSession` | `SenderLoop`, `SenderIdle`, `SenderTake` |
| `sendPacketTo`, `sendMessageTo` | `Transmit`, `ReceiveAck`, `Timeout` (one second; the last one drops the packet), `SenderThrows` |
| the network, the kernel, epoll | `LoseDatagram`, `LoseAck`, `Arrive` (`ready` is the edge that `epoll_wait` will report) |
| `receiveSession` | `ReceiverLoop`, `EpollEvent`, `EpollTimeout`, `QueuePacket` |
| `receivePacketFrom` | `Read`, `ReadFails`, `Acknowledge`, `DecodeThrows` |
| `hasPacket`, `popReceivedPacket` | `PopReceivedPacket` (an empty queue gives a default packet and changes nothing) |
| `disconnect` | `DisconnectSender`, `DisconnectReceiver` |

What it leaves out: a peer's own two halves are in one process, so the senders here
are those of other peers, and an exception in one leaves the receiver alone; the
network does not duplicate datagrams (resending does); the port of an attempt's
socket is not reused while datagrams for it are under way; nobody but the receiver
answers; `createServerSocket` succeeds. An exception that nothing catches ends the
process (`crashed`). `net` and `acks` count copies; `given`, `attempts`, `acked`,
`dropped`, `reads`, `popped` and `coalesced` are history.

`AtLeastOnce` has four actions: a packet is started (when no other packet of its
sender is unsettled, and in order), received, confirmed (if it has been
received), or dropped. The mapping is in `Promise`: started is "sent at least
once", received "read at least once", confirmed `acked`.

### Asn1Codec and EchoSession

`Written` and `Read` are the fields each encoder writes and each decoder reads, with
their kinds; `EncodeField` and `DecodeField` are what happens to a value of a kind.
An int becomes its shortest two's complement octets and is read back without sign
extension; a string ends at its first NUL; the strings of a vector keep their sizes.
The copy of an empty byte vector has no memory: libtasn1 refuses the null value, the
field stays unset, and the packet does not encode (`EmptyBytes`). libtasn1 and Arrow
are external: they give back the octets they were given, and Arrow may refuse a
table. `IsPacket` says what the structs of `packet_types.h` can hold; every packet
of the constant `Packets` is one. `Schema` is `packets.asn1` in its compiled form,
`FitsSchema` says whether the fields an encoder writes are the ones the schema of
its type asks for, and `Encodable` whether `encode` returns.

`EchoSession` puts the codec between two ends. `Send` is `sendMessage` with the
choice of the id and the counter, `Receive` is `receiveMessage` and the push of
what has an id, `Echo` is the loop of `clientManager`. Its queues and its
connection are the ones `SessionQueues` and `OrderedChannel` promise, as long as
no write fails. `vanished` is the history of what the codec refused, with the end at
which it did.

### Benchmark

Each label of `main` and `sender` is a point of `benchmark.cpp` at which the other
thread can get in; `packetMutex` is held between the two halves of the wait's
predicate (`SenderReadsFlag`, `SenderReadsCounter`) and the sleep. `wire` and `answers`
are what the client session holds of the benchmark's packets. `Answer` and `Lose`
are all the rest of the system may do to a request. The menu's other options push
requests too, so that `Init` finds up to `MaxLeft` requests and answers in the session;
`Again` is the menu that starts the benchmark once more on the same session. `carried`
counts what is left from before, which the benchmark pops as if it were its own. `missed` is set
when `notify_all` comes after the sender has seen the flag and before it sleeps.

### HostAddresses

The start of the test server (`isValidInterface`, then `getLocalIpAddress`, then
`bind`) and `getBroadcastIpAddress`, loop by loop. Each `getifaddrs()` finds any list of
`Lists`, or fails; `isValidInterface` then walks a pointer that nothing has set, and
anything may follow. `bind` may succeed or fail whatever the address: without one,
`inet_addr("")` makes it 255.255.255.255, which Linux lets bind. `isValidIpV4` works
on a text that is split at its dots; `Numeral` and `Value` are what `std::stoi` makes of
an octet, white space, sign and trailing characters included, and `NoInt` is when it
throws. `OctetVerdict` asks its questions in the order of the code: an octet may be both
padded and no number, and then it is the first that counts.

## Runs

| run | question | instance and why it is enough | result |
|---|---|---|---|
| `queues_client` | what a client session guarantees | two application threads of which one consumes and peeks, two pushes, two arrivals: two packets are needed to see order, two threads and the receiver to race | holds |
| `queues_server` | is the invariant of the proofs right with everything in play | two threads that push, pop, peek at both queues and disconnect; two pushes and two arrivals; symmetry in the threads (no temporal property) | holds |
| `queues_end` | does a session that is disconnected end | as `queues_client` | violated: the sender sleeps through the disconnect |
| `link_order` | is the link an `OrderedChannel`, and what arrives under fairness | three frames of four units through buffers of three: writes fail in the header, in the body and between them, reads of three cut frames in every place, and every end of the link | holds |
| `link_held` | does everything arrive on an open link | two frames of three or four units, buffers of four | violated: two frames in one drain |
| `link_altered` | is what arrives unaltered | buffers of three | violated: a body cut by EAGAIN, filled with the next frame |
| `udp_order` | does an acknowledgement mean what it says, does every datagram get its event, does a sender get through | one sender, two packets, two tries (ten in the code), a socket for two datagrams: the second packet is what a late copy or acknowledgement of the first could be taken for, and two tries make a copy | holds |
| `echo_session` | what comes back from the echo server | two requests: every packet type, ints at each boundary of their length, strings with NULs, empty vectors, ids of the application; an int of three bytes (TLC's own integers have four) | holds |
| `benchmark` | is the window kept, is the sleeper woken, does the benchmark end | a window of three, up to two packets of the menu, three benchmarks in a row: each starts with what is left from before | holds |
| `server_fds` | whose are the numbers, who gets whose answer, which sessions end | two sessions, three numbers: the second session gets the numbers the first has closed, one between two closes, or none | holds |
| `server_fds_answers` | does a client get only answers to its own requests | as `server_fds` | violated: the number went to the next client |
| `host_addresses` | which address does the server bind to, which texts are addresses | every list of up to three of nine entries at each call; texts of up to five octets, each at a boundary of the parser; an int of up to 999 | holds |

The properties:

- `NoLostWakeup`: whenever a consumer sleeps, each packet of its queue has a
  notification on its way or a consumer already woken. `notify_one` outside of
  the mutex is safe because of it.
- `HasImpliesPop`, `PeekInBounds`: what a single consumer may rely on. With a second
  one, the check of the index and its use fall apart (`faults`).
- `SentInPushOrder`, `TakenAccounted`, `NothingSentAfterDisconnect`: what reaches the
  socket, through every race with `disconnect()`. A packet taken from the queue is in the
  sender's hand, written, or its `sendPacket` failed, exactly once: only a failed send
  loses a packet or leaves a gap.
- `ReceivedIsQueued`, `EveryPushIsTried`, `SenderEndsOrSleeps`, `ReceiverStops`: what goes
  on happening, under weak fairness of the threads that are inside an operation. That a
  push is tried is all the code gives: no one looks at what `sendPacket` returns. After a
  disconnect, sleep on an empty queue is all that keeps a sender (`queues_end`), apart from
  the mutex that `peekRequest` never gives back.
- `AlignedUntilCut`, `ImplementsChannel`: the parser stays on frame boundaries
  until a write fails, and whatever fails, order and uniqueness survive.
- `DeliveredUnlessCutOrCoalesced`, `ServerNoticesEnd`: progress.
- `NumbersStayOwn`: what a session closes, watches or writes to is its own, except
  after a hang-up's race with `accept4` (`raced`).
- `AnswersReachTheirClient`, `OnlyLeaversHarm`: what one client's leaving can do to the
  others: a wrong answer and the end of the process both need a client that did not
  wait for its answer, or the stale packet of a session that is over, as long as no
  number was handed out between the two closes of a hang-up.
- `SessionNoticesEnd`: both loops of a session end when its client has left, its
  sender apart (`queues_end`).
- `WindowKept`, `SleepsOnFullWindow`, `SleeperIsServed`, `StopSeen`: the counter is
  changed in critical sections of its own, after the push and after the pop. The
  window is kept up to what was left in the session before, a sleeper has an answer or a
  wake-up on its way, and only the notification of the end can be missed.
- `AckedIsReceived`: no acknowledgement is a false one, through every resend,
  loss, late answer, disconnect and crash.
- `OvertakesOnlyDropped`, `CopiesBounded`, `ImplementsAtLeastOnce`: the order and
  the number of the copies a receiver can see.
- `EventsHaveDatagrams`, `NoDatagramForgotten`: edge-triggered events and unread
  datagrams match, as long as no datagram arrives while an event is pending
  (`coalesced`). The condition is needed: the code reads one datagram per event.
- `PacketSettled`, `PeerStops`: the bounded tries free the sender.
- `UnalteredIfPreserved`: which packets the codec preserves, in both directions.
- `EchoSettles`: a second trip alters nothing that the first left.
- `AnswersMatchRequests`: ids identify requests; `TypeOK` of `EchoSession` adds that
  the server never numbers a packet itself.
- `LossesExplained`: every packet is in exactly one place, and encoder, schema and
  decoder agree on every type: what is lost on the way is a table that Arrow refuses or,
  at the client, an empty byte vector. What the server decoded it can always encode.
- `AddressesRight`, `VerdictsRight`: the loops find what a definition without loops
  finds, on a list that may have changed since the interface was validated; and
  `isValidIpV4` answers right on texts of digits, letters and dots, and throws at an
  octet that is no int. A sign, a blank or a trailing character it lets through.

Bounds: `MaxTries`, `MaxInFlight`, `Width` and `IntMax` stand for ten tries, 500
requests, four bytes and 2^31 - 1; `MaxPackets`, `MaxPushes`, `MaxArrivals`,
`MaxFrames`, `MaxSessions`, `MaxRuns` and `MaxLeft` for any number; `Capacity`,
`RecvMax` and `NumFds` for the kernel's limits. A caller disconnects only a session
it still sees connected. The proved statements hold for every value of these.

Fairness: each thread inside an operation keeps running (the operating system's
scheduler), `epoll_wait` returns within its one-second timeout, an established
connection carries what it has accepted. No application thread has to start an
operation, no other end has to send or close, and no waiter wakes spuriously.
A UDP sender's `recvfrom` returns within its one-second timeout; the network
need deliver nothing. In `Benchmark` both threads run and time passes; no request
has to be answered. In `ServerFds` every thread of every session runs; clients and
the accept loop do as they like.
Deadlock is not an error in these models: a session whose threads are done, or
a process that has crashed, stops.

## Proofs

`SessionQueuesProof` proves, for every finite set of application threads, every
choice of consumers and peekers, both roles and all bounds:

- `Invariance`: `Spec => []Inv`, the inductive invariant;
- `TypeCorrect`, `WakeupsSuffice`, `SendOrder`, `NothingForgotten`,
  `MutexesComeBack`: its conjuncts that a user of the library relies on;
- `HasMeansPop`, `PeeksInBounds`: what a single consumer relies on, from
  `OnlyConsumerFinds`: a queue only shrinks by the hand of its consumer;
- `SilentAfterDisconnect`: the action property `NothingSentAfterDisconnect`.

The assumptions are those `SessionQueues` states about its constants: threads
are distinct, there are finitely many, consumers and peekers are application
threads. None of the properties is inductive alone. `SentInPushOrder` needs
`Numbered` (a queue holds consecutive numbers up to the last one given out) and
`HandIsLast` (the packet in the sender's hand is the last one taken from the queue); with
`TakenAccounted` they form the account pushed = queued + in hand + written + failed.
`ClosedFirst` (a cleared flag means a closed socket) is why the stale packet of
an empty queue never reaches the wire, and why nothing is sent after a
disconnect. `NoLostWakeup` is proved queue by queue (`Covered`): a push adds a
packet and a notification, a notification becomes a woken consumer, a woken
consumer that returns takes a packet with it, and a consumer goes to sleep only
when the queue is empty.

`UdpPeerProof` proves, for every set of senders, any number of packets and tries
and any socket size:

- `PeerInvariance`: `Spec => []PeerInv`;
- `PeerTypeCorrect`, `NoFalseAcknowledgement`: `TypeOK` and `AckedIsReceived`;
- `OvertakingRare`: `OvertakesOnlyDropped`;
- `EventsHaveTheirs`, `NoneForgotten`: the two properties of the events, which hold
  together or not at all (`EventsMatch`);
- `ResendsOnly`: `CopiesBounded`, from two accounts: attempts and tries left add up
  (`Tried`), and copies under way, in the socket and read are copies sent (`Sent`);
- `Refinement`: `Spec => ImplementsAtLeastOnce`.

`PeerInv` says more than `AckedIsReceived`, which is not inductive: also an
acknowledgement still under way is about a packet the receiver has
(`Acknowledged`), for which the packet in its hand must be one it has read
(`Sourced`). That `Taken` is stable (`TakenStep`) is the heart of it: a packet goes
from the hand to the queue to the application and leaves none of them before it
is in the next. For the refinement, `OneAtATime` relates a sender's attempts to
its place in its program: what lies before the current packet is settled, what
lies beyond is not sent, and the current packet is unsettled while it is being
sent; `Numbered` shows that the next packet in the queue has the next number.
`Transmit` is the start of a packet the first time and a stutter afterwards; the
last `Timeout`, `ReceiveAck` and `Read` are the other three actions.

`TcpLinkProof` proves, for any lengths, any buffers and any number of frames,
`LinkInvariance`, `TypeCorrect`, `ParserAligned` (`AlignedUntilCut`) and
`ChannelImplemented` (`ImplementsChannel`). Its invariant describes the stream:

- `Ordered`: the units in it come from the frames sent, each once, in order, and
  before the unit that is written next. It survives failed writes, because
  `sendBytes` only ever skips forward.
- `Gapless`: until a write fails, a frame goes on up to its end and the first unit of
  the next one follows. The unit that comes next counts as the position after the
  last, which makes an append no special case.
- `Aligned`: until then, the parser stands at the first unit of the frame after the
  last one delivered. With `Gapless` this gives that the length read there is the
  frame's, and that the body behind it is the frame's too.
- `Behind`: after a failed write the parser may take anything for a frame, but what
  it delivers begins with the first body unit of some packet (`Decoded`), and the one
  of the last delivered packet lies behind the parser. With `Ordered` the next
  delivery is of a later packet: order and uniqueness need no alignment.

`BenchmarkProof` proves, for any window, any number of benchmarks in a row and any leftovers,
`WindowHolds`, `AnswersWake`, `SleepersAreServed` and `OnlyMissedSleeps` (the join waits for
a sleeper only after a missed notification, the safety half of `StopSeen`). `IInv`
adds to the properties the account (`Account`: what is on its way, what is counted
and what each thread has done but not counted yet), what the labels of the two
threads exclude (`Phases`), and that a sender about to push has room (`Room`).

`ServerFdsProof` proves, for any number of sessions and numbers,
`NumbersHeldAreOwn`, `AnswersArriveRight` and `LeaversHarm`. `FdsInv` says for each session
which number stands for which of its objects as long as no number has been raced
(`Owned`), that a receiver that has seen an end has lost its own client
(`EndsAreReal`), that a packet is in one place of its own session (`InOnePlace`), and
that a client that left had its answer, unless `abandoned` (`LeftSettled`).

`EchoSessionProof` proves, for any set of packets, any number of them and an int of
any number of bytes, `EchoTypeCorrect`, `UnalteredExactlyIfPreserved`, `EchoSettled`,
`AnswersMatch` and `LossesAreExplained`. Its assumptions are that the packets are ones the
program's types can hold (`PacketsAssumption`) and that the counter of the ids does not
overflow an int (`MaxPacketsAssumption`). The proof has two parts.

- The codec. `DerIsRead` and `IntTrip` say what an int is read as after it was written:
  itself, or, for a negative one shorter than an int, the number with the same octets
  and no sign. The loop of `bytesToInt` holds, after i octets, the quotient of the int by
  the weight of the octets still to come (`OctetsAreRead`), which is an induction over the
  octets. `StringTrip` does the same for the cut at a NUL, and `PacketTrip` puts the fields
  together: a trip changes a packet exactly if one of its fields is changed, and a
  second trip changes nothing more. Octets come back as they are, so that no decoded
  packet has an empty byte vector (`BytesTrip`, `SentTrip`).
- The session. `EchoInv` says where each packet is: what is on the wire is the encoding
  of a packet that was sent (`RequestsSent`, or, for an answer, of one that arrived,
  `AnswersSent`), what arrived is the decoding of one (`RequestsArrived`,
  `AnswersArrived`), ids grow along the history of what was sent (`IdsGrow`), and requests
  arrive in the order in which they were sent, each once (`ArrivedInOrder`). Since every
  encoder writes the fields the schema asks for (`AllFitSchema`), a packet is refused only
  for its table or its empty bytes, and the second kind never leaves the client; so the
  account of `LossesExplained` is kept by every step.

`HostAddressesProof` proves, for any interface lists and texts of any length,
`AddressesAreRight` and `VerdictsAreRight`. `WalkInv` is the invariant of the walks: no entry
before the position passes the test, so that the first one that does is the first of
the list (`FirstIs`, and `MinIs` for the definition without loops). `TextInv` is that of
`isValidIpV4`: every octet before the position was found good, and a text that was
refused is no dotted quad: for its length because a quad has seven characters
(`QuadIsLong`), for an octet because the body lets every octet of a quad pass
(`VerdictIs`, which rests on what `stoi` reads of digits, `NumeralIs`). The assumptions
say that the lists and texts are finite sequences, the texts over the characters the
model knows, and that an int holds more than 255.

The loops of these two modules run over data, so their proofs need induction. The
library's induction theorems take an operator as a parameter, which the provers
cannot instantiate; `LoopLemmas` derives from the one on well-founded relations
the same principle for sets (`Induction`), and from it that a recursive function over the
rounds of a loop exists (`LoopExists`). For the same reason the models write these loops
as recursive functions.

Only model-checked: liveness (`ReceivedIsQueued`, `EveryPushIsTried`,
`SenderEndsOrSleeps`, `ReceiverStops`, `DeliveredUnlessCutOrCoalesced`,
`ServerNoticesEnd`, `PacketSettled`, `PeerStops`, `StopSeen`, `SessionNoticesEnd`),
which rests on fairness and `ENABLED`, out of the provers' reach here. Every
invariant, action property and refinement that a passing run checks is proved.

## Findings

The run `queues_end` shows that a session whose sender waits never ends after
`disconnect()`; `link_held` that a frame stays in the session buffer; `link_altered`
that a full socket buffer makes the receiver deliver an altered packet;
`server_fds_answers` that a client can get the answer to another client's request. Met
while modelling: `peekRequest` blocks on a mutex it holds; a client that sees a
hang-up stays connected; frames read together with the end of the stream are
dropped; on UDP, a datagram that arrives while an event is pending is not read,
a received packet's address is a pointer to a destroyed string, and a packet that
was given up is logged as sent; a client that does not wait
for its answer can end the server by SIGPIPE; the stop of the benchmark can miss its
sleeping sender; the codec turns short negative ints into positive
ones, cuts strings at a NUL, and refuses an empty byte vector, whose packet is dropped;
a server whose interface has no address binds to 255.255.255.255.
`PROJECT.json` quotes the lines.

## Plan

1. `SessionQueues` with its proofs (done).
2. `OrderedChannel`, `TcpLink` (done).
3. `UdpPeer`, `AtLeastOnce` with their proofs (done).
4. `Asn1Codec`, `EchoSession` (done).
5. `TcpLinkProof` (done).
6. `ServerFds` with its proofs (done).
7. `Benchmark` with its proofs (done).
8. `HostAddresses` with its proofs (done).
9. The proofs of `EchoSession` and the codec (done).
10. The replies of strangers to a UDP sender, and failures while a client or a peer
    sets up its sockets.

## Not modelled

Arrow's IPC format and libtasn1 are other projects' code. Logging and the build
files have no state to check. Failures of `socket`, `epoll_create1` and `epoll_ctl` on
a client or a peer are not modelled: the code logs them and goes on or returns
before any thread exists (a server's are in `ServerFds`). The pointer that a received
UDP packet keeps to a destroyed string dangles in every run, whatever the order of
events. `PROJECT.json` gives the status of every component.
