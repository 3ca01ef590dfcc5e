---------------------------- MODULE EchoSession -----------------------------
(***************************************************************************)
(* A client and the test server's echo loop (clientManager), end to end:   *)
(* queues, packet numbers and codec.  The queues are those SessionQueues   *)
(* proves right, and the two directions of the connection are those of     *)
(* OrderedChannel as long as no write fails: in order, without gap,        *)
(* unaltered.  The connection may end at any time; then no more steps are  *)
(* taken.                                                                  *)
(*                                                                         *)
(* An entry of a queue is a packet together with the request it stems from *)
(* (history).                                                              *)
(*                                                                         *)
(* An operator defined directly before one whose name it extends is that   *)
(* operator with a plausible bug in it; no specification uses it.          *)
(***************************************************************************)
EXTENDS Asn1Codec

CONSTANTS
  Packets,    \* the packets an application pushes, with id -1 or an id of its own
  MaxPackets  \* bound: packets pushed

ASSUME PacketsAssumption == \A packet \in Packets : IsPacket(packet)

\* The counter of the ids is an int, which does not overflow.
ASSUME MaxPacketsAssumption == MaxPackets \in Nat /\ Fits(MaxPackets, Width)

VARIABLES
  outgoing,  \* each end's outgoing queue
  incoming,  \* each end's incoming queue
  wire,      \* the frames on their way from each end
  autoId,    \* each end's counter
  pushed,    \* history: the number of packets pushed
  sent,      \* history: the requests as they were sent, with their ids
  arrived,   \* history: the requests the server has decoded, by their number
  vanished   \* history: what an exception threw away, and at which end

vars == <<outgoing, incoming, wire, autoId, pushed, sent, arrived, vanished>>

Ends == {"client", "server"}
Other(end) == IF end = "client" THEN "server" ELSE "client"
AutoId == -1

Init ==
  /\ outgoing = [end \in Ends |-> <<>>] /\ incoming = [end \in Ends |-> <<>>]
  /\ wire = [end \in Ends |-> <<>>] /\ autoId = [end \in Ends |-> 0]
  /\ pushed = 0 /\ sent = <<>> /\ arrived = <<>>
  /\ vanished = <<>>

-----------------------------------------------------------------------------
PushRequest(packet) ==
  /\ pushed < MaxPackets
  /\ pushed' = pushed + 1
  /\ outgoing' = [outgoing EXCEPT !["client"] = Append(@, [packet |-> packet, of |-> 0])]
  /\ UNCHANGED <<incoming, wire, autoId, sent, arrived, vanished>>

\* sendMessage() numbers a packet without an id, whether it can be encoded or not.
IdOfRenumbered(end, packet) == autoId[end]
IdOf(end, packet) == IF packet.id = AutoId THEN autoId[end] ELSE packet.id

TakeUncounted(end) ==
  /\ outgoing[end] # <<>>
  /\ outgoing' = [outgoing EXCEPT ![end] = Tail(@)]
  /\ autoId' = autoId
Take(end) ==
  /\ outgoing[end] # <<>>
  /\ outgoing' = [outgoing EXCEPT ![end] = Tail(@)]
  /\ autoId' = IF Head(outgoing[end]).packet.id = AutoId
               THEN [autoId EXCEPT ![end] = @ + 1] ELSE autoId

Send(end) ==
  LET entry == Head(outgoing[end])
      id == IdOf(end, entry.packet)
      of == IF end = "client" THEN Len(sent) + 1 ELSE entry.of
  IN
  /\ Take(end)
  /\ Encodable(entry.packet)
  /\ wire' = [wire EXCEPT ![end] = Append(@, [der |-> Encode(entry.packet, id), of |-> of])]
  /\ sent' = IF end = "server" THEN sent
             ELSE Append(sent, [packet |-> [entry.packet EXCEPT !.id = id],
                                numbered |-> entry.packet.id = AutoId])
  /\ UNCHANGED <<incoming, pushed, arrived, vanished>>

Loss(end, payload) ==
  [end |-> end, type |-> payload.type, empty |-> EmptyBytes(payload)]

\* encode() throws and sendMessage() logs it: the packet is gone.
SendThrows(end) ==
  LET packet == Head(outgoing[end]).packet IN
  /\ Take(end)
  /\ HasTable(packet.type) \/ ~Encodable(packet)
  /\ vanished' = Append(vanished, Loss(end, packet))
  /\ UNCHANGED <<incoming, wire, pushed, sent, arrived>>

\* A packet with id -1 stands for "no packet" and is not queued.
Receive(end) ==
  LET entry == Head(wire[Other(end)])
      packet == Decode(entry.der)
      decoded == [packet |-> packet, of |-> entry.of]
  IN
  /\ wire[Other(end)] # <<>>
  /\ wire' = [wire EXCEPT ![Other(end)] = Tail(@)]
  /\ incoming' = IF packet.id = AutoId THEN incoming
                 ELSE [incoming EXCEPT ![end] = Append(@, decoded)]
  /\ arrived' = IF end = "server" THEN Append(arrived, decoded) ELSE arrived
  /\ UNCHANGED <<outgoing, autoId, pushed, sent, vanished>>

\* decode() throws and receiveMessage() returns the default packet, whose id is -1.
ReceiveThrows(end) ==
  LET der == Head(wire[Other(end)]).der IN
  /\ wire[Other(end)] # <<>>
  /\ HasTable(der.type)
  /\ vanished' = Append(vanished, Loss(end, der))
  /\ wire' = [wire EXCEPT ![Other(end)] = Tail(@)]
  /\ UNCHANGED <<outgoing, incoming, autoId, pushed, sent, arrived>>

\* clientManager: hasRequest(), popRequest(), pushResponse().
Echo ==
  /\ incoming["server"] # <<>>
  /\ incoming' = [incoming EXCEPT !["server"] = Tail(@)]
  /\ outgoing' = [outgoing EXCEPT !["server"] = Append(@, Head(incoming["server"]))]
  /\ UNCHANGED <<wire, autoId, pushed, sent, arrived, vanished>>

Next ==
  \/ \E packet \in Packets : PushRequest(packet)
  \/ \E end \in Ends :
       Send(end) \/ SendThrows(end) \/ Receive(end) \/ ReceiveThrows(end)
  \/ Echo

Spec == Init /\ [][Next]_vars

-----------------------------------------------------------------------------
(* Properties.                                                             *)

Entries == UNION {ToSet(outgoing[end]) \cup ToSet(incoming[end]) : end \in Ends}
IntFields(packet) ==
  {packet.fields[f] : f \in {g \in DOMAIN packet.fields : Written[packet.type][g] = "int"}}

TypeOK ==
  /\ pushed \in 0..MaxPackets
  /\ autoId \in [Ends -> 0..MaxPackets] /\ autoId["server"] = 0
  /\ \A entry \in Entries :
       /\ entry.of \in 0..Len(sent)
       /\ \A n \in IntFields(entry.packet) \cup {entry.packet.id} : Fits(n, Width)

\* What the server decodes is what the client encoded if the codec preserves it, and
\* only then.
UnalteredIfPreserved ==
  \A request \in ToSet(arrived) :
    LET original == sent[request.of].packet IN
    request.packet = original <=> Preserved(original)

\* Whatever the first trip altered, the second leaves alone: a client gets back the
\* very packet the server saw.
EchoSettles ==
  \A response \in ToSet(incoming["client"]), request \in ToSet(arrived) :
    response.of = request.of => response.packet = request.packet

\* An answer carries the id its request was sent with, unless that is a negative one
\* the codec does not preserve; and no two requests the client numbered share an id.
AnswersMatchRequests ==
  /\ \A response \in ToSet(incoming["client"]) :
       LET id == sent[response.of].packet.id IN
       PreservedInt(id) => response.packet.id = id
  /\ \A i, j \in DOMAIN sent :
       sent[i].numbered /\ sent[j].numbered /\ sent[i].packet.id = sent[j].packet.id => i = j

Places(end) == Len(outgoing[end]) + Len(wire[end]) + Len(incoming[end])

\* A request is always in exactly one queue or on one wire, on its way there or back,
\* unless the codec threw: for its table, or, at the client only, for an empty byte
\* vector.  Encoder, schema and decoder agree on every type, what the server has
\* decoded it can encode again, and no packet is taken for "no packet".
LossesExplained ==
  /\ \A loss \in ToSet(vanished) :
       HasTable(loss.type) \/ (loss.end = "client" /\ loss.empty)
  /\ pushed = Places("client") + Places("server") + Len(vanished)

=============================================================================
