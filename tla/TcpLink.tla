------------------------------ MODULE TcpLink ------------------------------
(***************************************************************************)
(* One direction of a TTP2 TCP session, from sendMessage on one end to the *)
(* packet receiveMessage returns on the other: the length-prefixed frames, *)
(* the two sendBytes calls that write a frame on a non-blocking socket,    *)
(* the byte stream between the kernels, and the receive loop that drains   *)
(* the socket into the session buffer and parses one frame per event.      *)
(*                                                                         *)
(* The k-th encoded packet is the frame k.  Its bytes are taken in units:  *)
(* <<k, 1>> .. <<k, HeaderLen>> hold its length, the rest its DER body, of *)
(* which the first unit holds the DER tag and length.  The stream is never *)
(* shortened: arrived, buffered and consumed are positions in it.          *)
(*                                                                         *)
(* An operator defined directly before one whose name it extends is that   *)
(* operator with a plausible bug in it; no specification uses it.          *)
(***************************************************************************)
EXTENDS Naturals, Sequences

CONSTANTS
  HeaderLen,    \* units of the length prefix (4 bytes in the code)
  BodyLens,     \* lengths of encoded packets, in units
  GarbageLens,  \* lengths read from bytes that are not a length prefix
  Capacity,     \* units the two socket buffers hold
  RecvMax,      \* units one recv() takes (4096 bytes in the code)
  MaxFrames     \* bound: packets sent

ASSUME LengthsAssumption ==
  /\ HeaderLen \in Nat \ {0} /\ RecvMax \in Nat \ {0} /\ Capacity \in Nat
  /\ BodyLens \subseteq Nat \ {0} /\ GarbageLens \subseteq Nat
  /\ MaxFrames \in Nat

VARIABLES
  role,       \* "client" or "server": which end receives
  frames,     \* history: the body length of every frame sent
  pos,        \* the unit of the last frame to write next; 0: none
  stream,     \* the units the sender's kernel has accepted
  arrived,    \* how many of them the receiver's kernel has
  buffered,   \* how many of them recv() has moved to the session buffer
  consumed,   \* how many of them parsed frames have taken out of it
  link,       \* the connection: "connecting", "open", "fin" or "reset"
  connected,  \* the receiving controller's flag
  rpc,        \* the receiver: "poll", "drain" or "parse"
  delivered,  \* history: the packets returned, and whether they are unchanged
  cut,        \* history: a write has failed
  coalesced   \* history: a parse has left a complete frame in the buffer

senderVars == <<frames, pos, cut>>
wireVars == <<stream, arrived, link>>
receiverVars == <<buffered, consumed, connected, rpc, delivered, coalesced>>
vars == <<role, senderVars, wireVars, receiverVars>>

Last == Len(frames)
FrameLen(k) == HeaderLen + frames[k]

TypeOK ==
  /\ role \in {"client", "server"}
  /\ frames \in Seq(BodyLens)
  /\ pos \in Nat /\ (pos > 0 => Last > 0 /\ pos <= FrameLen(Last))
  /\ stream \in Seq((Nat \ {0}) \X (Nat \ {0}))
  /\ arrived \in Nat /\ buffered \in Nat /\ consumed \in Nat
  /\ consumed <= buffered /\ buffered <= arrived /\ arrived <= Len(stream)
  /\ link \in {"connecting", "open", "fin", "reset"}
  /\ rpc \in {"poll", "drain", "parse"}
  /\ delivered \in Seq((Nat \ {0}) \X BOOLEAN)
  /\ connected \in BOOLEAN /\ cut \in BOOLEAN /\ coalesced \in BOOLEAN

Init ==
  /\ role \in {"client", "server"}
  /\ frames = <<>> /\ pos = 0 /\ cut = FALSE
  /\ stream = <<>> /\ arrived = 0 /\ link = "connecting"
  /\ buffered = 0 /\ consumed = 0
  /\ connected = TRUE /\ rpc = "poll"
  /\ delivered = <<>> /\ coalesced = FALSE

-----------------------------------------------------------------------------
(* The sender: sendMessage and sendBytes.  One thread at a time sends on a *)
(* socket.  A packet that does not encode is not a frame.                  *)

\* The server's controller exists once the connection does; the client's sends
\* from the start.
Send(len) ==
  /\ pos = 0
  /\ Last < MaxFrames
  /\ role = "client" => link # "connecting"
  /\ frames' = Append(frames, len)
  /\ pos' = 1
  /\ UNCHANGED <<role, cut, wireVars, receiverVars>>

\* sendBytes is called for the header, then for the body.
CallEnd == IF pos <= HeaderLen THEN HeaderLen ELSE FrameLen(Last)
Space == Capacity - (Len(stream) - buffered)

\* send() takes n units, which may be fewer than it is offered.
Write(n) ==
  /\ pos > 0
  /\ link = "open"
  /\ pos + n - 1 <= CallEnd /\ n <= Space
  /\ stream' = stream \o [i \in 1..n |-> <<Last, pos + i - 1>>]
  /\ pos' = IF pos + n > FrameLen(Last) THEN 0 ELSE pos + n
  /\ UNCHANGED <<role, frames, cut, arrived, link, receiverVars>>

\* send() fails: the buffer is full (EAGAIN), or there is no connection.
\* sendBytes gives up, and sendMessage goes on with the next sendBytes.
WriteFailsUnseen ==
  /\ pos > 0
  /\ link # "open" \/ Space = 0
  /\ pos' = IF pos <= HeaderLen THEN HeaderLen + 1 ELSE 0
  /\ UNCHANGED <<role, frames, cut, wireVars, receiverVars>>
WriteFails ==
  /\ pos > 0
  /\ link # "open" \/ Space = 0
  /\ pos' = IF pos <= HeaderLen THEN HeaderLen + 1 ELSE 0
  /\ cut' = TRUE
  /\ UNCHANGED <<role, frames, wireVars, receiverVars>>

-----------------------------------------------------------------------------
(* The connection.                                                         *)

Establish ==
  /\ link = "connecting"
  /\ link' = "open"
  /\ UNCHANGED <<role, senderVars, stream, arrived, receiverVars>>

\* A refused client still has its controller; a server's is never made.
Refuse ==
  /\ link = "connecting"
  /\ role = "client"
  /\ link' = "reset"
  /\ UNCHANGED <<role, senderVars, stream, arrived, receiverVars>>

Arrive(n) ==
  /\ link \in {"open", "fin"}
  /\ arrived + n <= Len(stream)
  /\ arrived' = arrived + n
  /\ UNCHANGED <<role, senderVars, stream, link, receiverVars>>

\* The sender's side closes its socket, at any moment of a frame.
SenderClose ==
  /\ link = "open"
  /\ link' = "fin"
  /\ UNCHANGED <<role, senderVars, stream, arrived, receiverVars>>

Reset ==
  /\ link \in {"open", "fin"}
  /\ link' = "reset"
  /\ UNCHANGED <<role, senderVars, stream, arrived, receiverVars>>

-----------------------------------------------------------------------------
(* The receiver: the epoll loop and receiveMessage.                        *)

AtEnd == link = "fin" /\ buffered = Len(stream)

\* Epoll is level-triggered: it reports unread bytes, or the end of the stream.
\* It does not know of frames that wait in the session buffer.
EpollEvent ==
  /\ rpc = "poll" /\ connected
  /\ link \in {"open", "fin"}
  /\ arrived > buffered \/ AtEnd
  /\ rpc' = "drain"
  /\ UNCHANGED <<role, senderVars, wireVars, buffered, consumed, connected, delivered,
                 coalesced>>

\* Bytes that have arrived can still be read when the connection is reset.
RecvPastArrived ==
  /\ rpc = "drain" /\ connected
  /\ arrived > buffered
  /\ buffered' = buffered + RecvMax
  /\ UNCHANGED <<role, senderVars, wireVars, consumed, connected, rpc, delivered, coalesced>>
Recv ==
  /\ rpc = "drain" /\ connected
  /\ arrived > buffered
  /\ buffered' = IF arrived - buffered < RecvMax THEN arrived ELSE buffered + RecvMax
  /\ UNCHANGED <<role, senderVars, wireVars, consumed, connected, rpc, delivered, coalesced>>

\* recv() has nothing more (EAGAIN), or the loop finds the session disconnected.
DrainEndsUnparsed ==
  /\ rpc = "drain"
  /\ \/ connected /\ link # "reset" /\ arrived = buffered /\ ~AtEnd
     \/ ~connected
  /\ rpc' = "poll"
  /\ UNCHANGED <<role, senderVars, wireVars, buffered, consumed, connected, delivered,
                 coalesced>>
DrainEnds ==
  /\ rpc = "drain"
  /\ \/ connected /\ link # "reset" /\ arrived = buffered /\ ~AtEnd
     \/ ~connected
  /\ rpc' = "parse"
  /\ UNCHANGED <<role, senderVars, wireVars, buffered, consumed, connected, delivered,
                 coalesced>>

\* recv() returns 0: disconnect(), and return without a look at the buffer.
RecvEof ==
  /\ rpc = "drain" /\ connected
  /\ AtEnd
  /\ connected' = FALSE
  /\ rpc' = "poll"
  /\ UNCHANGED <<role, senderVars, wireVars, buffered, consumed, delivered, coalesced>>

RecvError ==
  /\ rpc = "drain" /\ connected
  /\ link = "reset"
  /\ rpc' = "poll"
  /\ UNCHANGED <<role, senderVars, wireVars, buffered, consumed, connected, delivered,
                 coalesced>>

\* EPOLLHUP or EPOLLERR: both ends close the descriptor and hear no more of it.
\* The server also disconnects; nothing else of the client changes.
HangupKeepsFlag ==
  /\ rpc = "poll" /\ connected
  /\ link = "reset"
  /\ UNCHANGED vars
Hangup ==
  /\ rpc = "poll" /\ connected
  /\ link = "reset"
  /\ role = "server"
  /\ connected' = FALSE
  /\ UNCHANGED <<role, senderVars, wireVars, buffered, consumed, rpc, delivered, coalesced>>

\* The application calls disconnect() on the receiving controller.
Disconnect ==
  /\ connected
  /\ connected' = FALSE
  /\ UNCHANGED <<role, senderVars, wireVars, buffered, consumed, rpc, delivered, coalesced>>

-----------------------------------------------------------------------------
(* The parser.                                                             *)

IsHeader(c, k) == \A i \in 1..HeaderLen : stream[c + i] = <<k, i>>

\* What the length prefix at position c reads as.  The same garbage may read
\* differently at every try: more than the code does.
LengthsAt(c) ==
  IF \E k \in 1..Last : IsHeader(c, k)
    THEN {frames[k] : k \in {j \in 1..Last : IsHeader(c, j)}}
    ELSE GarbageLens

\* A complete frame with a body of len units lies at c, before the position end.
Holds(c, end, len) == c + HeaderLen + len <= end
HoldsFrame(c, end) ==
  c + HeaderLen <= end /\ \E len \in LengthsAt(c) : Holds(c, end, len)

\* The packet the decoder makes of the len units after c: it wants the DER tag
\* and length of a packet in front, and checks the total length against them.
\* Bytes of another frame inside the body may decode to altered content.
Whole(c, k) == \A i \in 1..frames[k] : stream[c + i] = <<k, HeaderLen + i>>
Decoded(c, len) ==
  {<<k, Whole(c, k)>> :
     k \in {j \in 1..Last : len = frames[j] /\ stream[c + 1] = <<j, HeaderLen + 1>>}}
MayFail(c, len) == ~\E k \in 1..Last : len = frames[k] /\ Whole(c, k)

ParseIncomplete ==
  /\ rpc = "parse"
  /\ \/ buffered < consumed + HeaderLen
     \/ /\ buffered >= consumed + HeaderLen
        /\ \E len \in LengthsAt(consumed) : ~Holds(consumed, buffered, len)
  /\ rpc' = "poll"
  /\ UNCHANGED <<role, senderVars, wireVars, buffered, consumed, connected, delivered,
                 coalesced>>

\* At most one frame per event.  A body that does not decode is dropped.
ParseFrameKeepsHeader(len) ==
  /\ rpc = "parse"
  /\ buffered >= consumed + HeaderLen
  /\ len \in LengthsAt(consumed) /\ Holds(consumed, buffered, len)
  /\ \/ \E packet \in Decoded(consumed + HeaderLen, len) :
          delivered' = Append(delivered, packet)
     \/ MayFail(consumed + HeaderLen, len) /\ UNCHANGED delivered
  /\ consumed' = consumed + len
  /\ coalesced' = (coalesced \/ HoldsFrame(consumed', buffered))
  /\ rpc' = "poll"
  /\ UNCHANGED <<role, senderVars, wireVars, buffered, connected>>
ParseFrame(len) ==
  /\ rpc = "parse"
  /\ buffered >= consumed + HeaderLen
  /\ len \in LengthsAt(consumed) /\ Holds(consumed, buffered, len)
  /\ \/ \E packet \in Decoded(consumed + HeaderLen, len) :
          delivered' = Append(delivered, packet)
     \/ MayFail(consumed + HeaderLen, len) /\ UNCHANGED delivered
  /\ consumed' = consumed + HeaderLen + len
  /\ coalesced' = (coalesced \/ HoldsFrame(consumed', buffered))
  /\ rpc' = "poll"
  /\ UNCHANGED <<role, senderVars, wireVars, buffered, connected>>

-----------------------------------------------------------------------------
SenderNext ==
  (\E n \in 1..Capacity : Write(n)) \/ WriteFails

WireNext ==
  \/ Establish \/ Refuse \/ SenderClose \/ Reset
  \/ \E n \in 1..Capacity : Arrive(n)

ReceiverNext ==
  \/ EpollEvent \/ Recv \/ DrainEnds \/ RecvEof \/ RecvError \/ Hangup
  \/ ParseIncomplete
  \/ \E len \in BodyLens \cup GarbageLens : ParseFrame(len)

Next ==
  \/ \E len \in BodyLens : Send(len)
  \/ SenderNext \/ WireNext \/ ReceiverNext \/ Disconnect

Spec == Init /\ [][Next]_vars

\* The sender's thread is inside sendMessage, the receiver's loops on epoll, and
\* an established connection carries what it has accepted.
Fairness ==
  /\ WF_vars(SenderNext)
  /\ WF_vars(\E n \in 1..Capacity : Arrive(n))
  /\ WF_vars(ReceiverNext)

FairSpec == Spec /\ Fairness

-----------------------------------------------------------------------------
(* Properties.                                                             *)

\* The link keeps the promise of OrderedChannel: whatever is cut, coalesced or
\* lost, nothing is delivered twice or out of order, and until a write fails
\* nothing is missing or altered.
Channel ==
  INSTANCE OrderedChannel WITH sent <- Last, got <- delivered, broken <- cut
ImplementsChannel == Channel!Spec

\* Until a write fails the parser stands at the start of the frame after the
\* last one it delivered: it never reads a body as a length.
AlignedUntilCut ==
  ~cut => /\ consumed < Len(stream) => stream[consumed + 1] = <<Len(delivered) + 1, 1>>
          /\ consumed = Len(stream) => Len(delivered) = IF pos = 0 THEN Last ELSE Last - 1

\* A packet sent on a connection that stays open is delivered, unless a write
\* fails or two frames reach the session buffer together.
DeliveredUnlessCutOrCoalesced ==
  \A k \in 1..MaxFrames :
    Last >= k ~>
      (Len(delivered) >= k \/ cut \/ coalesced \/ link # "open" \/ ~connected)

\* A server notices every end of the connection, orderly or not.
ServerNoticesEnd ==
  role = "server" /\ link \in {"fin", "reset"} ~> ~connected

\* A packet sent on an open connection to a receiver that listens is delivered.
EveryPacketDelivered ==
  \A k \in 1..MaxFrames :
    Last >= k ~> (Len(delivered) >= k \/ cut \/ link # "open" \/ ~connected)

\* A packet that is delivered has the content that was sent.
DeliveredUnaltered == \A i \in 1..Len(delivered) : delivered[i][2]

=============================================================================
