-------------------------- MODULE ServerFdsProof ---------------------------
(***************************************************************************)
(* The inductive invariant of ServerFds, for any number of sessions and    *)
(* descriptors: as long as no number is handed out between the two closes  *)
(* of a hang-up, a session holds its own numbers and its own packets.      *)
(***************************************************************************)
EXTENDS ServerFds, TLAPS

USE FdsAssumption

-----------------------------------------------------------------------------
(* The inductive invariant.                                                *)

OwnsConn(s) ==
  sock[s] # NoFd /\ net[s] \notin {"reclose", "done"} => At(sock[s]) = Conn(s)
OwnsEpoll(s) == epoll[s] # NoFd => At(epoll[s]) = Epoll(s)
ClosedOnce(s) == net[s] = "reclose" => At(sock[s]) = Nothing
EventIsOwn(s) == net[s] \in {"readable", "hangup"} => event[s] = sock[s]

Own(s) ==
  /\ OwnsConn(s) /\ OwnsEpoll(s) /\ ClosedOnce(s) /\ EventIsOwn(s)
  /\ watches[s] \subseteq {s}

Owned == ~raced => \A s \in Sessions : Own(s)

\* A session whose receiver has seen the end has lost its client.
EndsAreReal ==
  ~raced =>
    \A s \in Sessions : net[s] \in {"hangup", "reclose", "done"} => peer[s] # "open"

\* A packet is in one place of its own session at a time.
Packets(s) ==
  /\ requests[s] \subseteq {s} /\ responses[s] \subseteq {s} /\ hand[s] \in {s, Stale}
  /\ s \in requests[s] => s \notin responses[s] /\ hand[s] # s
  /\ s \in responses[s] => hand[s] # s
Held(s) == s \in requests[s] \/ s \in responses[s] \/ hand[s] = s
Accounted(s) ==
  /\ Held(s) => request[s] = "read" /\ s \notin answered[s]
  /\ s \in answered[s] => request[s] = "read"

InOnePlace == ~raced => \A s \in Sessions : Packets(s) /\ Accounted(s)

LeftSettled ==
  ~raced /\ ~abandoned =>
    \A s \in Sessions :
      peer[s] # "open" => request[s] = "unsent" \/ s \in answered[s]

FdsInv ==
  /\ TypeOK /\ Owned /\ EndsAreReal /\ InOnePlace /\ LeftSettled
  /\ AnswersReachTheirClient /\ OnlyLeaversHarm

-----------------------------------------------------------------------------
(* Descriptor numbers and what they stand for.                             *)

\* The objects a number may stand for are distinct.
LEMMA Distinct ==
  /\ \A s, t \in Sessions : Conn(s) = Conn(t) => s = t
  /\ \A s, t \in Sessions : Epoll(s) = Epoll(t) => s = t
  /\ \A s, t \in Sessions : Conn(s) # Epoll(t)
  /\ \A s \in Sessions : Conn(s) # Nothing /\ Epoll(s) # Nothing
  /\ NoFd \notin Fds /\ Stale \notin Sessions /\ NoPacket \notin Sessions
BY DEF Conn, Epoll, Nothing, NoFd, Fds, Sessions, Stale, NoPacket

\* What is a connection is the connection of a session.
LEMMA Connections ==
  ASSUME NEW object \in Objects \cup {Nothing}, object[1] = "conn"
  PROVE  object[2] \in Sessions /\ object = Conn(object[2])
BY DEF Objects, Nothing, Conn

\* A number is handed out only if it stands for nothing, and a half-closed one
\* only in a race.
LEMMA GrantKeeps ==
  ASSUME NEW object \in Objects, NEW n \in Fds \cup {NoFd}, TypeOK, Grant(object, n)
  PROVE  /\ table' \in [Fds -> Objects \cup {Nothing}]
         /\ raced' \in BOOLEAN /\ exhausted' \in BOOLEAN
         /\ \A m \in Fds : table[m] # Nothing => table'[m] = table[m]
         /\ n # NoFd => n \in Fds /\ table'[n] = object
         /\ ~raced' => ~raced /\ \A m \in HalfClosed \cap Fds : table'[m] = table[m]
<1>1. CASE n = NoFd
  BY <1>1, Distinct DEF Grant, Free, TypeOK
<1>2. CASE n # NoFd
  <2>1. n \in Fds /\ table[n] = Nothing /\ table' = [table EXCEPT ![n] = object]
        /\ raced' = (raced \/ n \in HalfClosed) /\ exhausted' = exhausted
    BY <1>2 DEF Grant, Free
  <2>2. table \in [Fds -> Objects \cup {Nothing}] /\ raced \in BOOLEAN /\ exhausted \in BOOLEAN
    BY DEF TypeOK
  <2> QED BY <2>1, <2>2, <1>2
<1> QED BY <1>1, <1>2

\* A close takes away what the number stands for, and nothing else.
LEMMA CloseKeeps ==
  ASSUME NEW n \in Fds \cup {NoFd}, TypeOK, Close(n)
  PROVE  /\ table' \in [Fds -> Objects \cup {Nothing}]
         /\ \A m \in Fds : m # n => table'[m] = table[m]
         /\ n \in Fds => table'[n] = Nothing
BY DEF Close, TypeOK

-----------------------------------------------------------------------------
(* What the two steps do that use a number.                                *)

ReceivesEnd(s, c) ==
  /\ At(event[s]) = Conn(c) /\ peer[c] = "closed"
  /\ net' = [net EXCEPT ![s] = "done"]
  /\ Disconnect(s)
  /\ UNCHANGED <<request, requests>>

ReceivesData(s, c) ==
  /\ At(event[s]) = Conn(c) /\ peer[c] = "open" /\ request[c] = "unread"
  /\ net' = [net EXCEPT ![s] = "poll"]
  /\ request' = [request EXCEPT ![c] = "read"]
  /\ requests' = [requests EXCEPT ![s] = @ \cup {c}]
  /\ UNCHANGED <<table, connected>>

\* The receiver reads the end or the packet of a connection, or nothing.
LEMMA ReceiveCases ==
  ASSUME TypeOK, NEW s \in Sessions, Receive(s)
  PROVE  /\ net[s] = "readable" /\ event' = [event EXCEPT ![s] = NoFd]
         /\ UNCHANGED <<sock, epoll, watches, started, manager, sender, hand, responses,
                        peer, answered, past, fatal>>
         /\ \/ \E c \in Sessions : ReceivesEnd(s, c) \/ ReceivesData(s, c)
            \/ /\ net' = [net EXCEPT ![s] = "poll"]
               /\ UNCHANGED <<table, connected, request, requests>>
<1> DEFINE object == At(event[s])
           c == object[2]
           eof == object[1] = "conn" /\ peer[c] = "closed"
           data == object[1] = "conn" /\ peer[c] = "open" /\ request[c] = "unread"
<1>1. /\ NetGoes(s, "readable", IF eof THEN "done" ELSE "poll")
      /\ event' = [event EXCEPT ![s] = NoFd]
      /\ IF eof THEN Disconnect(s) ELSE UNCHANGED <<table, connected>>
      /\ IF data THEN /\ request' = [request EXCEPT ![c] = "read"]
                      /\ requests' = [requests EXCEPT ![s] = @ \cup {c}]
                 ELSE UNCHANGED <<request, requests>>
      /\ UNCHANGED <<sock, epoll, watches, started, manager, sender, hand, responses,
                     peer, answered, past, fatal>>
  BY DEF Receive
<1>2. object \in Objects \cup {Nothing}
  BY DEF At, TypeOK
<1>3. object[1] = "conn" => c \in Sessions /\ object = Conn(c)
  BY <1>2, Connections
<1>4. CASE eof
  <2>1. ~data
    BY <1>4
  <2>2. ReceivesEnd(s, c)
    BY <1>1, <1>3, <1>4, <2>1 DEF ReceivesEnd, NetGoes
  <2> QED BY <1>1, <1>3, <1>4, <2>2 DEF NetGoes
<1>5. CASE data
  <2>1. ~eof
    BY <1>5
  <2>2. ReceivesData(s, c)
    BY <1>1, <1>3, <1>5, <2>1 DEF ReceivesData, NetGoes
  <2> QED BY <1>1, <1>3, <1>5, <2>2 DEF NetGoes
<1>6. CASE ~eof /\ ~data
  BY <1>1, <1>6 DEF NetGoes
<1> QED BY <1>4, <1>5, <1>6

SendsTo(s, c) ==
  /\ At(sock[s]) = Conn(c)
  /\ \/ /\ peer[c] # "reset"
        /\ answered' = [answered EXCEPT ![c] = @ \cup {hand[s]}]
        /\ \/ UNCHANGED peer
           \/ peer[c] = "closed" /\ peer' = [peer EXCEPT ![c] = "reset"]
        /\ UNCHANGED fatal
     \/ /\ peer[c] # "open"
        /\ fatal' = hand[s]
        /\ UNCHANGED <<answered, peer>>

\* The sender writes to a connection, or to nothing.
LEMMA SendCases ==
  ASSUME TypeOK, NEW s \in Sessions, SenderSend(s)
  PROVE  /\ sender[s] = "sending" /\ hand' = [hand EXCEPT ![s] = Stale]
         /\ sender' = [sender EXCEPT ![s] = IF connected[s] THEN "idle" ELSE "done"]
         /\ UNCHANGED <<descriptors, net, event, connected, manager, requests, responses,
                        request, past>>
         /\ \/ \E c \in Sessions : SendsTo(s, c)
            \/ UNCHANGED <<answered, peer, fatal>>
<1> DEFINE c == At(sock[s])[2]
<1>1. At(sock[s]) \in Objects \cup {Nothing}
  BY DEF At, TypeOK
<1>2. At(sock[s])[1] = "conn" => c \in Sessions /\ At(sock[s]) = Conn(c)
  BY <1>1, Connections
<1>3. CASE At(sock[s])[1] = "conn"
  <2>1. SendsTo(s, c)
    BY <1>2, <1>3 DEF SenderSend, SendsTo
  <2> QED BY <1>2, <1>3, <2>1 DEF SenderSend, SenderGoes
<1>4. CASE At(sock[s])[1] # "conn"
  BY <1>4 DEF SenderSend, SenderGoes
<1> QED BY <1>3, <1>4

-----------------------------------------------------------------------------
(* Types.                                                                  *)

\* Every step keeps the types.
LEMMA TypeStep ==
  ASSUME TypeOK, [Next]_vars
  PROVE  TypeOK'
<1> USE DEF TypeOK, NetLabels, NetGoes, SenderGoes
<1>1. CASE UNCHANGED vars
  BY <1>1 DEF vars, clients, control, descriptors, past
<1>2. CASE Accept
  <2>1. started' \in 0..MaxSessions /\ started + 1 \in Sessions
    BY <1>2 DEF Accept, Sessions
  <2>2. PICK n \in Fds \cup {NoFd} :
          Grant(Conn(started + 1), n) /\ sock' = [sock EXCEPT ![started + 1] = n]
    BY <1>2 DEF Accept
  <2>3. Conn(started + 1) \in Objects
    BY <2>1 DEF Conn, Objects
  <2>4. table' \in [Fds -> Objects \cup {Nothing}] /\ raced' \in BOOLEAN /\ exhausted' \in BOOLEAN
    BY <2>2, <2>3, GrantKeeps
  <2> QED BY <1>2, <2>1, <2>2, <2>4 DEF Accept, clients
<1>3. ASSUME NEW s \in Sessions, EpollCreate(s)
      PROVE  TypeOK'
  <2>1. PICK n \in Fds \cup {NoFd} : Grant(Epoll(s), n) /\ epoll' = [epoll EXCEPT ![s] = n]
    BY <1>3 DEF EpollCreate
  <2>2. Epoll(s) \in Objects
    BY DEF Epoll, Objects
  <2>3. table' \in [Fds -> Objects \cup {Nothing}] /\ raced' \in BOOLEAN /\ exhausted' \in BOOLEAN
    BY <2>1, <2>2, GrantKeeps
  <2> QED BY <1>3, <2>1, <2>3 DEF EpollCreate, clients
<1>4. ASSUME NEW s \in Sessions, EpollAdd(s)
      PROVE  TypeOK'
  BY SMTT(30), <1>4 DEF EpollAdd, Watchable, clients, past
<1>5. ASSUME NEW s \in Sessions, EpollEvent(s)
      PROVE  TypeOK'
  <2>1. PICK c \in Sessions :
          NetGoes(s, "poll", Reports(c)) /\ event' = [event EXCEPT ![s] = sock[c]]
    BY <1>5 DEF EpollEvent
  <2> QED BY <1>5, <2>1 DEF EpollEvent, Reports, clients, descriptors, past
<1>6. ASSUME NEW s \in Sessions, Receive(s)
      PROVE  TypeOK'
  <2>1. /\ net[s] = "readable" /\ event' = [event EXCEPT ![s] = NoFd]
        /\ UNCHANGED <<sock, epoll, watches, started, manager, sender, hand, responses,
                       peer, answered, past, fatal>>
    BY <1>6, ReceiveCases
  <2>2. ASSUME NEW c \in Sessions, ReceivesEnd(s, c)
        PROVE  TypeOK'
    <3>1. table' \in [Fds -> Objects \cup {Nothing}]
      BY <2>2, CloseKeeps DEF ReceivesEnd, Disconnect
    <3> QED BY <2>1, <2>2, <3>1 DEF ReceivesEnd, Disconnect, past
  <2>3. ASSUME NEW c \in Sessions, ReceivesData(s, c)
        PROVE  TypeOK'
    BY <2>1, <2>3 DEF ReceivesData, past
  <2>4. CASE net' = [net EXCEPT ![s] = "poll"] /\ UNCHANGED <<table, connected, request, requests>>
    BY <2>1, <2>4 DEF past
  <2> QED BY <1>6, <2>2, <2>3, <2>4, ReceiveCases
<1>7. ASSUME NEW s \in Sessions, HangupClose(s)
      PROVE  TypeOK'
  <2>1. table' \in [Fds -> Objects \cup {Nothing}]
    BY <1>7, CloseKeeps DEF HangupClose
  <2> QED BY <1>7, <2>1 DEF HangupClose, clients, past
<1>8. ASSUME NEW s \in Sessions, HangupDisconnects(s)
      PROVE  TypeOK'
  <2>1. table' \in [Fds -> Objects \cup {Nothing}]
    BY <1>8, CloseKeeps DEF HangupDisconnects, Disconnect
  <2> QED BY <1>8, <2>1 DEF HangupDisconnects, Disconnect, clients, past
<1>9. ASSUME NEW s \in Sessions, ManagerNext(s)
      PROVE  TypeOK'
  BY SMTT(30), <1>9 DEF ManagerNext, Echo, Terminate, clients, descriptors, past
<1>10. ASSUME NEW s \in Sessions, SenderTake(s) \/ SenderTakeStale(s)
       PROVE  TypeOK'
  BY SMTT(30), <1>10 DEF SenderTake, SenderTakeStale, clients, descriptors, past
<1>11. ASSUME NEW s \in Sessions, SenderSend(s)
       PROVE  TypeOK'
  <2>1. /\ hand' = [hand EXCEPT ![s] = Stale]
        /\ sender' = [sender EXCEPT ![s] = IF connected[s] THEN "idle" ELSE "done"]
        /\ UNCHANGED <<descriptors, net, event, connected, manager, requests, responses,
                       request, past>>
    BY <1>11, SendCases
  <2>2. CASE UNCHANGED <<answered, peer, fatal>>
    BY <2>1, <2>2 DEF descriptors, past
  <2>3. ASSUME NEW c \in Sessions, SendsTo(s, c)
        PROVE  TypeOK'
    <3>1. answered' \in [Sessions -> SUBSET (Sessions \cup {Stale})]
      BY <2>3 DEF SendsTo
    <3>2. peer' \in [Sessions -> {"open", "closed", "reset"}]
      BY <2>3 DEF SendsTo
    <3>3. fatal' \in Sessions \cup {Stale, NoPacket}
      BY <2>3 DEF SendsTo
    <3> QED BY <2>1, <3>1, <3>2, <3>3 DEF descriptors, past
  <2> QED BY <1>11, <2>2, <2>3, SendCases
<1>12. ASSUME NEW s \in Sessions, ClientNext(s)
       PROVE  TypeOK'
  <2>1. abandoned' \in BOOLEAN
    BY <1>12 DEF ClientNext, ClientSends, ClientLeaves, past
  <2>2. peer' \in [Sessions -> {"open", "closed", "reset"}]
        /\ request' \in [Sessions -> {"unsent", "unread", "read"}]
    BY <1>12 DEF ClientNext, ClientSends, ClientLeaves
  <2> QED
    BY <1>12, <2>1, <2>2 DEF ClientNext, ClientSends, ClientLeaves, control, descriptors, past
<1> QED
  BY <1>1, <1>2, <1>3, <1>4, <1>5, <1>6, <1>7, <1>8, <1>9, <1>10, <1>11, <1>12
  DEF Next, NetNext, SenderNext

-----------------------------------------------------------------------------
(* Numbers.                                                                *)

\* A session that is ready to watch, or to hear of an event, watches itself.
LEMMA WatchesItself ==
  ASSUME TypeOK, NEW s \in Sessions, Own(s), NEW e \in Sessions, At(epoll[s]) = Epoll(e)
  PROVE  e = s
<1>1. epoll[s] \in Fds /\ At(epoll[s]) = Epoll(s)
  BY Distinct DEF Own, OwnsEpoll, At, TypeOK
<1> QED BY <1>1, Distinct

\* Outside a race every step leaves each session its own numbers.
LEMMA OwnedStep ==
  ASSUME TypeOK, TypeOK', Owned, [Next]_vars
  PROVE  Owned'
<1> SUFFICES ASSUME ~raced'
             PROVE  \A t \in Sessions : Own(t)'
  BY DEF Owned
<1>0. ASSUME ~raced
      PROVE  \A t \in Sessions : Own(t)
  BY <1>0 DEF Owned
<1>1. CASE UNCHANGED vars
  BY <1>0, <1>1 DEF vars, clients, control, descriptors, past, Own, OwnsConn, OwnsEpoll,
                    ClosedOnce, EventIsOwn, At
<1>2. CASE Accept
  <2> DEFINE k == started + 1
  <2>1. k \in Sessions /\ Conn(k) \in Objects
    BY <1>2 DEF Accept, TypeOK, Sessions, Conn, Objects
  <2>2. PICK n \in Fds \cup {NoFd} :
          Grant(Conn(k), n) /\ sock' = [sock EXCEPT ![k] = n]
    BY <1>2 DEF Accept
  <2>3. /\ ~raced
        /\ \A m \in Fds : table[m] # Nothing => table'[m] = table[m]
        /\ n # NoFd => n \in Fds /\ table'[n] = Conn(k)
        /\ \A m \in HalfClosed \cap Fds : table'[m] = table[m]
    BY <2>1, <2>2, GrantKeeps
  <2>4. net' = [net EXCEPT ![k] = "create"] /\ UNCHANGED <<epoll, watches, event>>
    BY <1>2 DEF Accept
  <2> HIDE DEF k
  <2> TAKE t \in Sessions
  <2>5. Own(t)
    BY <1>0, <2>3
  <2>6. sock' \in [Sessions -> Fds \cup {NoFd}] /\ sock \in [Sessions -> Fds \cup {NoFd}]
        /\ net \in [Sessions -> NetLabels] /\ epoll \in [Sessions -> Fds \cup {NoFd}]
    BY DEF TypeOK
  <2>7. OwnsConn(t)'
    BY <2>1, <2>2, <2>3, <2>4, <2>5, <2>6, Distinct DEF Own, OwnsConn, At
  <2>8. OwnsEpoll(t)'
    BY <2>3, <2>4, <2>5, <2>6, Distinct DEF Own, OwnsEpoll, At
  <2>9. ClosedOnce(t)'
    BY <2>1, <2>2, <2>3, <2>4, <2>5, <2>6, Distinct DEF Own, ClosedOnce, At, HalfClosed
  <2>10. EventIsOwn(t)' /\ watches'[t] \subseteq {t}
    BY <2>1, <2>2, <2>4, <2>5, <2>6 DEF Own, EventIsOwn
  <2> QED BY <2>7, <2>8, <2>9, <2>10 DEF Own
<1>3. ASSUME NEW s \in Sessions, EpollCreate(s)
      PROVE  \A t \in Sessions : Own(t)'
  <2>1. Epoll(s) \in Objects
    BY DEF Epoll, Objects
  <2>2. PICK n \in Fds \cup {NoFd} :
          Grant(Epoll(s), n) /\ epoll' = [epoll EXCEPT ![s] = n]
    BY <1>3 DEF EpollCreate
  <2>3. /\ ~raced
        /\ \A m \in Fds : table[m] # Nothing => table'[m] = table[m]
        /\ n # NoFd => n \in Fds /\ table'[n] = Epoll(s)
        /\ \A m \in HalfClosed \cap Fds : table'[m] = table[m]
    BY <2>1, <2>2, GrantKeeps
  <2>4. /\ net[s] = "create" /\ net' = [net EXCEPT ![s] = "add"]
        /\ UNCHANGED <<sock, watches, event>>
    BY <1>3 DEF EpollCreate, NetGoes
  <2> TAKE t \in Sessions
  <2>5. Own(t)
    BY <1>0, <2>3
  <2>6. sock \in [Sessions -> Fds \cup {NoFd}] /\ net \in [Sessions -> NetLabels]
        /\ epoll \in [Sessions -> Fds \cup {NoFd}]
    BY DEF TypeOK
  <2>7. OwnsConn(t)'
    BY <2>3, <2>4, <2>5, <2>6, Distinct DEF Own, OwnsConn, At
  <2>8. OwnsEpoll(t)'
    BY <2>2, <2>3, <2>5, <2>6, Distinct DEF Own, OwnsEpoll, At
  <2>9. ClosedOnce(t)'
    BY <2>3, <2>4, <2>5, <2>6, Distinct DEF Own, ClosedOnce, At, HalfClosed
  <2>10. EventIsOwn(t)' /\ watches'[t] \subseteq {t}
    BY <2>4, <2>5, <2>6 DEF Own, EventIsOwn
  <2> QED BY <2>7, <2>8, <2>9, <2>10 DEF Own
<1>4. ASSUME NEW s \in Sessions, EpollAdd(s)
      PROVE  \A t \in Sessions : Own(t)'
  <2>1. ~raced /\ UNCHANGED <<table, sock, epoll, event>>
    BY <1>4 DEF EpollAdd, past
  <2>2. net' \in {[net EXCEPT ![s] = "poll"], [net EXCEPT ![s] = "failed"]} /\ net[s] = "add"
    BY <1>4 DEF EpollAdd, NetGoes
  <2>3. Own(s) /\ sock[s] \in Fds \cup {NoFd}
    BY <1>0, <2>1 DEF TypeOK
  <2>4. ASSUME NEW w \in Watchable(s)
        PROVE  w[1] = s /\ w[2] = s
    <3>1. w[1] \in Sessions /\ w[2] \in Sessions
          /\ At(epoll[s]) = Epoll(w[1]) /\ At(sock[s]) = Conn(w[2])
      BY DEF Watchable
    <3>2. At(sock[s]) = Conn(s)
      BY <2>2, <2>3, <3>1, Distinct DEF Own, OwnsConn, At
    <3> QED BY <2>3, <3>1, <3>2, WatchesItself, Distinct
  <2>5. watches' \in {watches, [watches EXCEPT ![s] = @ \cup {s}]}
    BY <1>4, <2>4 DEF EpollAdd
  <2> TAKE t \in Sessions
  <2>6. Own(t) /\ watches \in [Sessions -> SUBSET Sessions] /\ net \in [Sessions -> NetLabels]
    BY <1>0, <2>1 DEF TypeOK
  <2>7. watches'[t] \subseteq {t}
    BY <2>5, <2>6 DEF Own
  <2> QED BY <2>1, <2>2, <2>6, <2>7
          DEF Own, OwnsConn, OwnsEpoll, ClosedOnce, EventIsOwn, At
<1>5. ASSUME NEW s \in Sessions, EpollEvent(s)
      PROVE  \A t \in Sessions : Own(t)'
  <2>1. ~raced /\ UNCHANGED <<table, sock, epoll, watches>>
    BY <1>5 DEF EpollEvent, past, descriptors
  <2>2. Own(s) /\ net \in [Sessions -> NetLabels] /\ event \in [Sessions -> Fds \cup {NoFd}]
    BY <1>0, <2>1 DEF TypeOK
  <2>3. PICK e \in Sessions : \E c \in watches[e] :
          At(epoll[s]) = Epoll(e) /\ NetGoes(s, "poll", Reports(c))
          /\ event' = [event EXCEPT ![s] = sock[c]]
    BY <1>5 DEF EpollEvent
  <2>4. e = s
    BY <2>2, <2>3, WatchesItself
  <2>5. /\ event' = [event EXCEPT ![s] = sock[s]] /\ net[s] = "poll"
        /\ net' \in {[net EXCEPT ![s] = "hangup"], [net EXCEPT ![s] = "readable"]}
    BY <2>2, <2>3, <2>4 DEF Own, NetGoes, Reports
  <2> TAKE t \in Sessions
  <2>6. Own(t)
    BY <1>0, <2>1
  <2> QED BY <2>1, <2>2, <2>5, <2>6
          DEF Own, OwnsConn, OwnsEpoll, ClosedOnce, EventIsOwn, At
<1>6. ASSUME NEW s \in Sessions, Receive(s)
      PROVE  \A t \in Sessions : Own(t)'
  <2>1. /\ ~raced /\ net[s] = "readable" /\ event' = [event EXCEPT ![s] = NoFd]
        /\ UNCHANGED <<sock, epoll, watches>>
    BY <1>6, ReceiveCases DEF past
  <2>2. /\ net \in [Sessions -> NetLabels] /\ event \in [Sessions -> Fds \cup {NoFd}]
        /\ sock \in [Sessions -> Fds \cup {NoFd}] /\ epoll \in [Sessions -> Fds \cup {NoFd}]
    BY DEF TypeOK
  <2>3. CASE \E c \in Sessions : ReceivesEnd(s, c)
    <3>1. net' = [net EXCEPT ![s] = "done"] /\ Close(sock[s])
      BY <2>3 DEF ReceivesEnd, Disconnect
    <3>2. \A m \in Fds : m # sock[s] => table'[m] = table[m]
      BY <2>2, <3>1, CloseKeeps
    <3>3. sock[s] # NoFd => At(sock[s]) = Conn(s)
      BY <1>0, <2>1 DEF Own, OwnsConn
    <3> TAKE t \in Sessions
    <3>4. Own(t)
      BY <1>0, <2>1
    <3>5. OwnsConn(t)'
      BY <2>1, <2>2, <3>1, <3>2, <3>3, <3>4, Distinct DEF Own, OwnsConn, At
    <3>6. OwnsEpoll(t)'
      BY <2>1, <2>2, <3>2, <3>3, <3>4, Distinct DEF Own, OwnsEpoll, At
    <3>7. ClosedOnce(t)'
      BY <2>1, <2>2, <3>1, <3>2, <3>3, <3>4, Distinct, CloseKeeps DEF Own, ClosedOnce, At
    <3>8. EventIsOwn(t)' /\ watches'[t] \subseteq {t}
      BY <2>1, <2>2, <3>1, <3>4 DEF Own, EventIsOwn
    <3> QED BY <3>5, <3>6, <3>7, <3>8 DEF Own
  <2>4. CASE net' = [net EXCEPT ![s] = "poll"] /\ UNCHANGED table
    <3> TAKE t \in Sessions
    <3>1. Own(t)
      BY <1>0, <2>1
    <3> QED BY <2>1, <2>2, <2>4, <3>1
            DEF Own, OwnsConn, OwnsEpoll, ClosedOnce, EventIsOwn, At
  <2> QED BY <1>6, <2>3, <2>4, ReceiveCases DEF ReceivesData
<1>7. ASSUME NEW s \in Sessions, HangupClose(s)
      PROVE  \A t \in Sessions : Own(t)'
  <2>1. /\ ~raced /\ net[s] = "hangup" /\ net' = [net EXCEPT ![s] = "reclose"]
        /\ Close(event[s]) /\ event' = [event EXCEPT ![s] = NoFd]
        /\ UNCHANGED <<sock, epoll, watches>>
    BY <1>7 DEF HangupClose, NetGoes, past
  <2>2. /\ net \in [Sessions -> NetLabels] /\ event \in [Sessions -> Fds \cup {NoFd}]
        /\ sock \in [Sessions -> Fds \cup {NoFd}] /\ epoll \in [Sessions -> Fds \cup {NoFd}]
    BY DEF TypeOK
  <2>3. event[s] = sock[s] /\ (sock[s] # NoFd => At(sock[s]) = Conn(s))
    BY <1>0, <2>1 DEF Own, OwnsConn, EventIsOwn
  <2>4. /\ \A m \in Fds : m # sock[s] => table'[m] = table[m]
        /\ sock[s] \in Fds => table'[sock[s]] = Nothing
    BY <2>1, <2>2, <2>3, CloseKeeps
  <2> TAKE t \in Sessions
  <2>5. Own(t)
    BY <1>0, <2>1
  <2>6. OwnsConn(t)'
    BY <2>1, <2>2, <2>3, <2>4, <2>5, Distinct DEF Own, OwnsConn, At
  <2>7. OwnsEpoll(t)'
    BY <2>1, <2>2, <2>3, <2>4, <2>5, Distinct DEF Own, OwnsEpoll, At
  <2>8. ClosedOnce(t)'
    BY <2>1, <2>2, <2>3, <2>4, <2>5, Distinct DEF Own, ClosedOnce, At
  <2>9. EventIsOwn(t)' /\ watches'[t] \subseteq {t}
    BY <2>1, <2>2, <2>5 DEF Own, EventIsOwn
  <2> QED BY <2>6, <2>7, <2>8, <2>9 DEF Own
<1>8. ASSUME NEW s \in Sessions, HangupDisconnects(s)
      PROVE  \A t \in Sessions : Own(t)'
  <2>1. /\ ~raced /\ net[s] = "reclose" /\ net' = [net EXCEPT ![s] = "done"]
        /\ Close(sock[s]) /\ UNCHANGED <<sock, epoll, watches, event>>
    BY <1>8 DEF HangupDisconnects, Disconnect, NetGoes, past
  <2>2. net \in [Sessions -> NetLabels] /\ sock[s] \in Fds \cup {NoFd}
        /\ table \in [Fds -> Objects \cup {Nothing}]
    BY DEF TypeOK
  <2>3. table' = table
    BY <1>0, <2>1, <2>2 DEF Own, ClosedOnce, At, Close
  <2> TAKE t \in Sessions
  <2>4. Own(t)
    BY <1>0, <2>1
  <2> QED BY <2>1, <2>2, <2>3, <2>4
          DEF Own, OwnsConn, OwnsEpoll, ClosedOnce, EventIsOwn, At
<1>9. CASE UNCHANGED <<descriptors, net, event, raced>>
  BY <1>0, <1>9 DEF descriptors, Own, OwnsConn, OwnsEpoll, ClosedOnce, EventIsOwn, At
<1>10. ASSUME NEW s \in Sessions, ManagerNext(s) \/ SenderNext(s) \/ ClientNext(s)
       PROVE  UNCHANGED <<descriptors, net, event, raced>>
  BY <1>10 DEF ManagerNext, Echo, Terminate, SenderNext, SenderTake, SenderTakeStale,
               SenderSend, ClientNext, ClientSends, ClientLeaves, past, control
<1> QED
  BY <1>1, <1>2, <1>3, <1>4, <1>5, <1>6, <1>7, <1>8, <1>9, <1>10 DEF Next, NetNext

-----------------------------------------------------------------------------
(* Packets and clients.                                                    *)

\* A race, and a client that did not wait, are not forgotten.
LEMMA PastStays ==
  ASSUME TypeOK, TypeOK', [Next]_vars
  PROVE  (~raced' => ~raced) /\ (~abandoned' => ~abandoned)
<1>0. raced \in BOOLEAN /\ raced' \in BOOLEAN /\ abandoned \in BOOLEAN /\ abandoned' \in BOOLEAN
  BY DEF TypeOK
<1>1. ASSUME NEW object, NEW n, Grant(object, n)
      PROVE  ~raced' => ~raced
  BY <1>0, <1>1 DEF Grant
<1>2. CASE UNCHANGED vars
  BY <1>2 DEF vars, past
<1>3. CASE Accept
  BY <1>1, <1>3 DEF Accept
<1>4. ASSUME NEW s \in Sessions, EpollCreate(s)
      PROVE  (~raced' => ~raced) /\ (~abandoned' => ~abandoned)
  BY <1>1, <1>4 DEF EpollCreate
<1>5. ASSUME NEW s \in Sessions, ClientLeaves(s)
      PROVE  (~raced' => ~raced) /\ (~abandoned' => ~abandoned)
  BY <1>0, <1>5 DEF ClientLeaves
<1>6. ASSUME NEW s \in Sessions,
             EpollAdd(s) \/ EpollEvent(s) \/ Receive(s) \/ HangupClose(s) \/ HangupDisconnects(s)
      PROVE  UNCHANGED <<raced, abandoned>>
  BY <1>6 DEF EpollAdd, EpollEvent, Receive, HangupClose, HangupDisconnects, past
<1>7. ASSUME NEW s \in Sessions, ManagerNext(s) \/ SenderNext(s) \/ ClientSends(s)
      PROVE  UNCHANGED <<raced, abandoned>>
  BY <1>7 DEF ManagerNext, Echo, Terminate, SenderNext, SenderTake, SenderTakeStale,
              SenderSend, ClientSends, past
<1> QED
  BY <1>2, <1>3, <1>4, <1>5, <1>6, <1>7 DEF Next, NetNext, ClientNext

\* The event a receiver handles is its own client's.
LEMMA EventsOwnClient ==
  ASSUME TypeOK, NEW s \in Sessions, Own(s), net[s] = "readable",
         NEW c \in Sessions, At(event[s]) = Conn(c)
  PROVE  c = s
<1>1. event[s] = sock[s] /\ event[s] \in Fds
  BY Distinct DEF Own, EventIsOwn, At, TypeOK
<1>2. At(event[s]) = Conn(s)
  BY <1>1, Distinct DEF Own, OwnsConn
<1> QED BY <1>2, Distinct

\* Outside a race no receiver ends the session of a client that is there.
LEMMA EndsStep ==
  ASSUME TypeOK, TypeOK', Owned, EndsAreReal, [Next]_vars
  PROVE  EndsAreReal'
<1> SUFFICES ASSUME ~raced', NEW t \in Sessions,
                    net'[t] \in {"hangup", "reclose", "done"}
             PROVE  peer'[t] # "open"
  BY DEF EndsAreReal
<1>0. /\ Own(t) /\ net \in [Sessions -> NetLabels] /\ started + 1 \in Nat
      /\ net[t] \in {"hangup", "reclose", "done"} => peer[t] # "open"
  BY PastStays DEF EndsAreReal, Owned, TypeOK
<1>1. CASE UNCHANGED vars
  BY <1>0, <1>1 DEF vars, clients, control
<1>2. CASE Accept
  BY <1>0, <1>2 DEF Accept, clients
<1>3. ASSUME NEW s \in Sessions, EpollEvent(s)
      PROVE  peer'[t] # "open"
  <2>1. UNCHANGED peer
    BY <1>3 DEF EpollEvent, clients
  <2>2. CASE t # s
    BY <1>0, <1>3, <2>1, <2>2 DEF EpollEvent, NetGoes
  <2>3. CASE t = s
    <3>1. PICK e \in Sessions : \E c \in watches[e] :
            At(epoll[s]) = Epoll(e) /\ NetGoes(s, "poll", Reports(c))
      BY <1>3 DEF EpollEvent
    <3>2. e = s
      BY <1>0, <2>3, <3>1, WatchesItself
    <3>3. net'[s] = Reports(s)
      BY <1>0, <2>3, <3>1, <3>2 DEF Own, NetGoes
    <3> QED BY <2>1, <2>3, <3>3 DEF Reports
  <2> QED BY <2>2, <2>3
<1>4. ASSUME NEW s \in Sessions, Receive(s)
      PROVE  peer'[t] # "open"
  <2>1. UNCHANGED peer /\ net[s] = "readable"
    BY <1>4, ReceiveCases
  <2>2. ASSUME NEW c \in Sessions, ReceivesEnd(s, c)
        PROVE  peer'[t] # "open"
    <3>1. CASE t # s
      BY <1>0, <2>1, <2>2, <3>1 DEF ReceivesEnd
    <3>2. CASE t = s
      <4>1. c = s
        BY <1>0, <2>1, <2>2, <3>2, EventsOwnClient DEF ReceivesEnd
      <4> QED BY <2>1, <2>2, <3>2, <4>1 DEF ReceivesEnd
    <3> QED BY <3>1, <3>2
  <2>3. CASE net' = [net EXCEPT ![s] = "poll"]
    BY <1>0, <2>1, <2>3
  <2> QED BY <1>4, <2>2, <2>3, ReceiveCases DEF ReceivesData
<1>5. ASSUME NEW s \in Sessions, SenderSend(s)
      PROVE  peer'[t] # "open"
  <2>1. UNCHANGED net
    BY <1>5, SendCases
  <2>2. peer[t] # "open" /\ peer \in [Sessions -> {"open", "closed", "reset"}]
    BY <1>0, <2>1 DEF TypeOK
  <2> QED BY <1>5, <2>2, SendCases DEF SendsTo
<1>6. ASSUME NEW s \in Sessions, ClientNext(s)
      PROVE  peer'[t] # "open"
  <2>1. UNCHANGED net
    BY <1>6 DEF ClientNext, ClientSends, ClientLeaves, control
  <2>2. peer[t] # "open" /\ peer \in [Sessions -> {"open", "closed", "reset"}]
    BY <1>0, <2>1 DEF TypeOK
  <2> QED BY <1>6, <2>2 DEF ClientNext, ClientSends, ClientLeaves
<1>7. ASSUME NEW s \in Sessions,
             EpollCreate(s) \/ EpollAdd(s) \/ HangupClose(s) \/ HangupDisconnects(s)
      PROVE  peer'[t] # "open"
  BY <1>0, <1>7 DEF EpollCreate, EpollAdd, HangupClose, HangupDisconnects, NetGoes, clients
<1>8. ASSUME NEW s \in Sessions, ManagerNext(s) \/ SenderTake(s) \/ SenderTakeStale(s)
      PROVE  peer'[t] # "open"
  BY <1>0, <1>8 DEF ManagerNext, Echo, Terminate, SenderTake, SenderTakeStale, clients
<1> QED
  BY <1>1, <1>2, <1>3, <1>4, <1>5, <1>6, <1>7, <1>8 DEF Next, NetNext, SenderNext

\* Outside a race a packet moves on alone, inside its own session.
LEMMA PlaceStep ==
  ASSUME TypeOK, TypeOK', Owned, InOnePlace, [Next]_vars
  PROVE  InOnePlace'
<1> SUFFICES ASSUME ~raced', NEW t \in Sessions
             PROVE  Packets(t)' /\ Accounted(t)'
  BY DEF InOnePlace
<1>0. Own(t) /\ Packets(t) /\ Accounted(t) /\ t # Stale
  BY PastStays, Distinct DEF InOnePlace, Owned
<1>t. /\ hand \in [Sessions -> Sessions \cup {Stale}]
      /\ requests \in [Sessions -> SUBSET Sessions] /\ responses \in [Sessions -> SUBSET Sessions]
      /\ request \in [Sessions -> {"unsent", "unread", "read"}]
      /\ answered \in [Sessions -> SUBSET (Sessions \cup {Stale})]
  BY DEF TypeOK
<1>1. CASE UNCHANGED <<requests, responses, hand, request, answered>>
  BY <1>0, <1>1 DEF Packets, Accounted, Held
<1>2. ASSUME NEW s \in Sessions, Receive(s)
      PROVE  Packets(t)' /\ Accounted(t)'
  <2>1. /\ net[s] = "readable" /\ UNCHANGED <<responses, hand, answered>>
    BY <1>2, ReceiveCases
  <2>2. ASSUME NEW c \in Sessions, ReceivesData(s, c)
        PROVE  Packets(t)' /\ Accounted(t)'
    <3>1. Own(s)
      BY PastStays DEF Owned
    <3>2. c = s
      BY <2>1, <2>2, <3>1, EventsOwnClient DEF ReceivesData
    <3>3. /\ request[s] = "unread" /\ request' = [request EXCEPT ![s] = "read"]
          /\ requests' = [requests EXCEPT ![s] = @ \cup {s}]
      BY <2>2, <3>2 DEF ReceivesData
    <3>4. CASE t = s
      <4>1. s \notin requests[s] /\ s \notin responses[s] /\ hand[s] # s /\ s \notin answered[s]
        BY <1>0, <3>3, <3>4 DEF Accounted, Held
      <4> QED BY <1>0, <1>t, <2>1, <3>3, <3>4, <4>1 DEF Packets, Accounted, Held
    <3>5. CASE t # s
      BY <1>0, <1>t, <2>1, <3>3, <3>5 DEF Packets, Accounted, Held
    <3> QED BY <3>4, <3>5
  <2>3. CASE UNCHANGED <<request, requests>>
    BY <1>1, <2>1, <2>3
  <2> QED BY <1>2, <2>2, <2>3, ReceiveCases DEF ReceivesEnd
<1>3. ASSUME NEW s \in Sessions, Echo(s)
      PROVE  Packets(t)' /\ Accounted(t)'
  <2>1. PICK p \in requests[s] :
          /\ requests' = [requests EXCEPT ![s] = @ \ {p}]
          /\ responses' = [responses EXCEPT ![s] = @ \cup {p}]
    BY <1>3 DEF Echo
  <2>2. UNCHANGED <<hand, request, answered>>
    BY <1>3 DEF Echo, clients
  <2>3. CASE t = s
    <3>1. p = t
      BY <1>0, <2>1, <2>3 DEF Packets
    <3> QED BY <1>0, <1>t, <2>1, <2>2, <2>3, <3>1 DEF Packets, Accounted, Held
  <2>4. CASE t # s
    BY <1>0, <1>t, <2>1, <2>2, <2>4 DEF Packets, Accounted, Held
  <2> QED BY <2>3, <2>4
<1>4. ASSUME NEW s \in Sessions, SenderTake(s)
      PROVE  Packets(t)' /\ Accounted(t)'
  <2>1. PICK p \in responses[s] :
          /\ hand' = [hand EXCEPT ![s] = p]
          /\ responses' = [responses EXCEPT ![s] = @ \ {p}]
    BY <1>4 DEF SenderTake
  <2>2. UNCHANGED <<requests, request, answered>>
    BY <1>4 DEF SenderTake, clients
  <2>3. CASE t = s
    <3>1. p = t
      BY <1>0, <2>1, <2>3 DEF Packets
    <3> QED BY <1>0, <1>t, <2>1, <2>2, <2>3, <3>1 DEF Packets, Accounted, Held
  <2>4. CASE t # s
    BY <1>0, <1>t, <2>1, <2>2, <2>4 DEF Packets, Accounted, Held
  <2> QED BY <2>3, <2>4
<1>5. ASSUME NEW s \in Sessions, SenderTakeStale(s)
      PROVE  Packets(t)' /\ Accounted(t)'
  <2>1. hand' = [hand EXCEPT ![s] = Stale] /\ UNCHANGED <<requests, responses, request, answered>>
    BY <1>5 DEF SenderTakeStale, clients
  <2> QED BY <1>0, <1>t, <2>1 DEF Packets, Accounted, Held
<1>6. ASSUME NEW s \in Sessions, SenderSend(s)
      PROVE  Packets(t)' /\ Accounted(t)'
  <2>1. hand' = [hand EXCEPT ![s] = Stale] /\ UNCHANGED <<requests, responses, request>>
    BY <1>6, SendCases
  <2>2. Packets(t)'
    BY <1>0, <1>t, <2>1 DEF Packets
  <2>3. Packets(s)
    BY PastStays DEF InOnePlace
  <2>4. answered'[t] \subseteq answered[t] \cup {hand[s]}
    BY SMTT(30), <1>6, <1>t, SendCases DEF SendsTo
  <2>5. CASE t # s
    <3>1. hand[s] # t
      BY <1>0, <2>3, <2>5 DEF Packets
    <3>2. \/ UNCHANGED answered
          \/ \E c \in Sessions : answered' = [answered EXCEPT ![c] = @ \cup {hand[s]}]
      BY <1>6, SendCases DEF SendsTo
    <3>3. answered[t] \subseteq answered'[t]
      BY <1>t, <3>2
    <3> QED BY <1>0, <1>t, <2>1, <2>2, <2>4, <2>5, <3>1, <3>3 DEF Accounted, Held
  <2>6. CASE t = s
    <3>1. CASE hand[s] = s
      <4>1. s \notin requests[s] /\ s \notin responses[s] /\ request[s] = "read"
        BY <1>0, <2>6, <3>1 DEF Packets, Accounted, Held
      <4>2. hand'[s] # s
        BY <1>0, <1>t, <2>1, <2>6
      <4> QED BY <2>1, <2>2, <2>6, <4>1, <4>2 DEF Accounted, Held
    <3>2. CASE hand[s] = Stale
      BY <1>0, <1>t, <2>1, <2>2, <2>4, <2>6, <3>2 DEF Accounted, Held, Packets
    <3> QED BY <2>3, <3>1, <3>2 DEF Packets
  <2> QED BY <2>5, <2>6
<1>7. ASSUME NEW s \in Sessions, ClientSends(s)
      PROVE  Packets(t)' /\ Accounted(t)'
  <2>1. /\ request[s] = "unsent" /\ request' = [request EXCEPT ![s] = "unread"]
        /\ UNCHANGED <<requests, responses, hand, answered>>
    BY <1>7 DEF ClientSends, control
  <2> QED BY <1>0, <1>t, <2>1 DEF Packets, Accounted, Held
<1>8. ASSUME NEW s \in Sessions,
             \/ EpollCreate(s) \/ EpollAdd(s) \/ EpollEvent(s) \/ HangupClose(s)
             \/ HangupDisconnects(s) \/ Terminate(s) \/ ClientLeaves(s)
      PROVE  UNCHANGED <<requests, responses, hand, request, answered>>
  BY <1>8 DEF EpollCreate, EpollAdd, EpollEvent, HangupClose, HangupDisconnects, Terminate,
              ClientLeaves, clients, control
<1>9. UNCHANGED vars \/ Accept => UNCHANGED <<requests, responses, hand, request, answered>>
  BY DEF vars, Accept, clients, control
<1> QED
  BY <1>1, <1>2, <1>3, <1>4, <1>5, <1>6, <1>7, <1>8, <1>9
  DEF Next, NetNext, ManagerNext, SenderNext, ClientNext

\* While every client waits for its answer, one that leaves leaves nothing behind.
LEMMA LeftStep ==
  ASSUME TypeOK, TypeOK', LeftSettled, [Next]_vars
  PROVE  LeftSettled'
<1> SUFFICES ASSUME ~raced', ~abandoned', NEW t \in Sessions, peer'[t] # "open"
             PROVE  request'[t] = "unsent" \/ t \in answered'[t]
  BY DEF LeftSettled
<1>0. ~abandoned /\ (peer[t] # "open" => request[t] = "unsent" \/ t \in answered[t])
  BY PastStays DEF LeftSettled
<1>t. /\ peer \in [Sessions -> {"open", "closed", "reset"}]
      /\ request \in [Sessions -> {"unsent", "unread", "read"}]
      /\ answered \in [Sessions -> SUBSET (Sessions \cup {Stale})]
      /\ abandoned \in BOOLEAN /\ abandoned' \in BOOLEAN
  BY DEF TypeOK
<1>1. CASE UNCHANGED <<peer, request, answered>>
  BY <1>0, <1>1
<1>2. ASSUME NEW s \in Sessions, Receive(s)
      PROVE  request'[t] = "unsent" \/ t \in answered'[t]
  <2>1. UNCHANGED <<peer, answered>>
    BY <1>2, ReceiveCases
  <2>2. ASSUME NEW c \in Sessions, ReceivesData(s, c)
        PROVE  request'[t] = "unsent" \/ t \in answered'[t]
    BY <1>0, <1>t, <2>1, <2>2 DEF ReceivesData
  <2>3. CASE UNCHANGED request
    BY <1>0, <2>1, <2>3
  <2> QED BY <1>2, <2>2, <2>3, ReceiveCases DEF ReceivesEnd
<1>3. ASSUME NEW s \in Sessions, SenderSend(s)
      PROVE  request'[t] = "unsent" \/ t \in answered'[t]
  <2>1. UNCHANGED request
    BY <1>3, SendCases
  <2>2. peer[t] # "open"
    BY <1>3, <1>t, SendCases DEF SendsTo
  <2>3. \/ UNCHANGED answered
        \/ \E c \in Sessions : answered' = [answered EXCEPT ![c] = @ \cup {hand[s]}]
    BY <1>3, SendCases DEF SendsTo
  <2>4. answered[t] \subseteq answered'[t]
    BY <1>t, <2>3
  <2> QED BY <1>0, <2>1, <2>2, <2>4
<1>4. ASSUME NEW s \in Sessions, ClientSends(s)
      PROVE  request'[t] = "unsent" \/ t \in answered'[t]
  BY <1>0, <1>t, <1>4 DEF ClientSends
<1>5. ASSUME NEW s \in Sessions, ClientLeaves(s)
      PROVE  request'[t] = "unsent" \/ t \in answered'[t]
  <2>1. UNCHANGED <<request, answered>>
    BY <1>5 DEF ClientLeaves
  <2>2. CASE t = s
    <3>1. ~(request[s] # "unsent" /\ s \notin answered[s])
      BY <1>5, <1>t DEF ClientLeaves
    <3> QED BY <2>1, <2>2, <3>1
  <2>3. CASE t # s
    BY <1>0, <1>t, <1>5, <2>1, <2>3 DEF ClientLeaves
  <2> QED BY <2>2, <2>3
<1>6. ASSUME NEW s \in Sessions,
             \/ EpollCreate(s) \/ EpollAdd(s) \/ EpollEvent(s) \/ HangupClose(s)
             \/ HangupDisconnects(s) \/ ManagerNext(s) \/ SenderTake(s) \/ SenderTakeStale(s)
      PROVE  UNCHANGED <<peer, request, answered>>
  BY <1>6 DEF EpollCreate, EpollAdd, EpollEvent, HangupClose, HangupDisconnects, ManagerNext,
              Echo, Terminate, SenderTake, SenderTakeStale, clients
<1>7. UNCHANGED vars \/ Accept => UNCHANGED <<peer, request, answered>>
  BY DEF vars, Accept, clients
<1> QED
  BY <1>1, <1>2, <1>3, <1>4, <1>5, <1>6, <1>7 DEF Next, NetNext, SenderNext, ClientNext

\* Outside a race a sender that writes its client's answer to a connection writes
\* it to that client's, or its client has left.
LEMMA WritesOwn ==
  ASSUME TypeOK, Owned, EndsAreReal, ~raced,
         NEW s \in Sessions, NEW c \in Sessions, At(sock[s]) = Conn(c)
  PROVE  c = s \/ peer[s] # "open"
<1>1. sock[s] # NoFd /\ Own(s) /\ net[s] # "reclose"
  BY Distinct DEF Owned, Own, ClosedOnce, At
<1>2. CASE net[s] = "done"
  BY <1>2 DEF EndsAreReal
<1>3. CASE net[s] # "done"
  BY <1>1, <1>3, Distinct DEF Own, OwnsConn
<1> QED BY <1>2, <1>3

\* A step without an answer in it keeps the answers, and the process running.
LEMMA OtherSteps ==
  ASSUME [Next]_vars
  PROVE  \/ \E s \in Sessions : SenderSend(s) /\ Running
         \/ UNCHANGED answered /\ (UNCHANGED vars \/ (Running /\ UNCHANGED fatal))
<1>1. ASSUME NEW s \in Sessions, NetNext(s)
      PROVE  UNCHANGED <<answered, fatal>>
  BY <1>1 DEF NetNext, EpollCreate, EpollAdd, EpollEvent, Receive, HangupClose,
              HangupDisconnects, clients
<1>2. ASSUME NEW s \in Sessions, ManagerNext(s) \/ ClientNext(s) \/ SenderTake(s) \/ SenderTakeStale(s)
      PROVE  UNCHANGED <<answered, fatal>>
  BY <1>2 DEF ManagerNext, Echo, Terminate, ClientNext, ClientSends, ClientLeaves, SenderTake,
              SenderTakeStale, clients
<1>3. Accept => UNCHANGED <<answered, fatal>>
  BY DEF Accept, clients
<1>4. UNCHANGED vars => UNCHANGED answered
  BY DEF vars, clients
<1> QED
  BY <1>1, <1>2, <1>3, <1>4 DEF Next, NetNext, ManagerNext, ClientNext, SenderNext

\* Answers reach their clients.
LEMMA AnswersStep ==
  ASSUME TypeOK, TypeOK', Owned, EndsAreReal, InOnePlace, LeftSettled,
         AnswersReachTheirClient, [Next]_vars
  PROVE  AnswersReachTheirClient'
<1> SUFFICES ASSUME ~raced', ~abandoned', NEW t \in Sessions
             PROVE  answered'[t] \subseteq {t, Stale}
  BY DEF AnswersReachTheirClient
<1>0. ~raced /\ ~abandoned /\ answered[t] \subseteq {t, Stale}
  BY PastStays DEF AnswersReachTheirClient
<1>1. ASSUME NEW s \in Sessions, SenderSend(s)
      PROVE  answered'[t] \subseteq {t, Stale}
  <2>1. CASE UNCHANGED answered
    BY <1>0, <2>1
  <2>2. ASSUME NEW c \in Sessions, SendsTo(s, c), ~UNCHANGED answered
        PROVE  answered'[t] \subseteq {t, Stale}
    <3>1. At(sock[s]) = Conn(c) /\ answered' = [answered EXCEPT ![c] = @ \cup {hand[s]}]
      BY <2>2 DEF SendsTo
    <3>2. c = s \/ peer[s] # "open"
      BY <1>0, <3>1, WritesOwn
    <3>3. hand[s] \in {s, Stale}
      BY <1>0 DEF InOnePlace, Packets
    <3>4. hand[s] = s => request[s] = "read" /\ s \notin answered[s]
      BY <1>0 DEF InOnePlace, Accounted, Held
    <3>5. peer[s] # "open" => request[s] = "unsent" \/ s \in answered[s]
      BY <1>0 DEF LeftSettled
    <3>6. hand[s] \in {c, Stale}
      BY <3>2, <3>3, <3>4, <3>5
    <3>7. answered \in [Sessions -> SUBSET (Sessions \cup {Stale})]
      BY DEF TypeOK
    <3> QED BY <1>0, <3>1, <3>6, <3>7
  <2> QED BY <1>1, <2>1, <2>2, SendCases
<1>2. CASE UNCHANGED answered
  BY <1>0, <1>2
<1> QED BY <1>1, <1>2, OtherSteps

\* Only a client that did not wait ends the process.
LEMMA HarmStep ==
  ASSUME TypeOK, TypeOK', Owned, EndsAreReal, InOnePlace, OnlyLeaversHarm, [Next]_vars
  PROVE  OnlyLeaversHarm'
<1> SUFFICES ASSUME fatal' \in Sessions, ~raced'
             PROVE  peer'[fatal'] # "open" /\ fatal' \notin answered'[fatal']
  BY DEF OnlyLeaversHarm
<1>0. ~raced
  BY PastStays
<1>1. ASSUME NEW s \in Sessions, SenderSend(s), Running
      PROVE  peer'[fatal'] # "open" /\ fatal' \notin answered'[fatal']
  <2>1. fatal \notin Sessions
    BY <1>1, Distinct DEF Running
  <2>2. PICK c \in Sessions : SendsTo(s, c)
    BY <1>1, <2>1, SendCases
  <2>3. peer[c] # "open" /\ fatal' = hand[s] /\ UNCHANGED <<answered, peer>>
        /\ At(sock[s]) = Conn(c)
    BY <2>1, <2>2 DEF SendsTo
  <2>4. hand[s] = s /\ s \notin answered[s]
    BY <1>0, <2>3, Distinct DEF InOnePlace, Packets, Accounted, Held
  <2>5. c = s \/ peer[s] # "open"
    BY <1>0, <2>3, WritesOwn
  <2> QED BY <2>3, <2>4, <2>5
<1>2. CASE UNCHANGED vars
  BY <1>0, <1>2 DEF OnlyLeaversHarm, vars, clients
<1>3. CASE Running /\ UNCHANGED fatal
  BY <1>3, Distinct DEF Running
<1> QED BY <1>1, <1>2, <1>3, OtherSteps

-----------------------------------------------------------------------------
(* The theorems.                                                           *)

\* A server starts without sessions.
LEMMA FdsInitially == Init => FdsInv
<1> SUFFICES ASSUME Init
             PROVE  FdsInv
  OBVIOUS
<1>1. TypeOK
  <2>1. /\ table \in [Fds -> Objects \cup {Nothing}] /\ started \in 0..MaxSessions
        /\ sock \in [Sessions -> Fds \cup {NoFd}] /\ epoll \in [Sessions -> Fds \cup {NoFd}]
        /\ watches \in [Sessions -> SUBSET Sessions] /\ net \in [Sessions -> NetLabels]
        /\ event \in [Sessions -> Fds \cup {NoFd}]
    BY DEF Init, Everywhere, NetLabels
  <2>2. /\ connected \in [Sessions -> BOOLEAN] /\ manager \in [Sessions -> {"running", "done"}]
        /\ sender \in [Sessions -> {"idle", "sending", "done"}]
        /\ hand \in [Sessions -> Sessions \cup {Stale}]
        /\ requests \in [Sessions -> SUBSET Sessions] /\ responses \in [Sessions -> SUBSET Sessions]
    BY DEF Init, Everywhere
  <2>3. /\ peer \in [Sessions -> {"open", "closed", "reset"}]
        /\ request \in [Sessions -> {"unsent", "unread", "read"}]
        /\ answered \in [Sessions -> SUBSET (Sessions \cup {Stale})]
        /\ raced \in BOOLEAN /\ exhausted \in BOOLEAN /\ abandoned \in BOOLEAN
        /\ fatal \in Sessions \cup {Stale, NoPacket}
    BY DEF Init, Everywhere
  <2> QED BY <2>1, <2>2, <2>3 DEF TypeOK
<1>2. Owned
  BY DEF Init, Owned, Own, OwnsConn, OwnsEpoll, ClosedOnce, EventIsOwn, Everywhere
<1>3. EndsAreReal /\ LeftSettled
  BY DEF Init, EndsAreReal, LeftSettled, Everywhere
<1>4. InOnePlace
  BY Distinct DEF Init, InOnePlace, Packets, Accounted, Held, Everywhere
<1>5. AnswersReachTheirClient
  BY DEF Init, AnswersReachTheirClient, Everywhere
<1>6. fatal \notin Sessions
  BY Distinct DEF Init
<1>7. OnlyLeaversHarm
  BY <1>6 DEF OnlyLeaversHarm
<1> QED BY <1>1, <1>2, <1>3, <1>4, <1>5, <1>7 DEF FdsInv

\* The inductive invariant holds in every state of the server, for any number of
\* sessions and descriptors.
THEOREM FdsInvariance == Spec => []FdsInv
<1>1. FdsInv /\ [Next]_vars => FdsInv'
  <2> SUFFICES ASSUME FdsInv, [Next]_vars
               PROVE  FdsInv'
    OBVIOUS
  <2>1. TypeOK'
    BY TypeStep DEF FdsInv
  <2>2. Owned'
    BY <2>1, OwnedStep DEF FdsInv
  <2>3. EndsAreReal'
    BY <2>1, EndsStep DEF FdsInv
  <2>4. InOnePlace'
    BY <2>1, PlaceStep DEF FdsInv
  <2>5. LeftSettled'
    BY <2>1, LeftStep DEF FdsInv
  <2>6. AnswersReachTheirClient'
    BY <2>1, AnswersStep DEF FdsInv
  <2>7. OnlyLeaversHarm'
    BY <2>1, HarmStep DEF FdsInv
  <2> QED BY <2>1, <2>2, <2>3, <2>4, <2>5, <2>6, <2>7 DEF FdsInv
<1> QED BY <1>1, FdsInitially, PTL DEF Spec

\* The numbers a session holds stand for its own connection and epoll instance
\* (server_session_controller.cpp:22-33, 72-77, 89-93), unless a number was handed
\* out between the two closes of a hang-up.
THEOREM NumbersHeldAreOwn == Spec => []NumbersStayOwn
<1>1. FdsInv => NumbersStayOwn
  BY DEF FdsInv, Owned, Own, OwnsConn, OwnsEpoll, NumbersStayOwn
<1> QED BY <1>1, FdsInvariance, PTL

\* Nobody gets the answer to another client's request
\* (server_session_controller.cpp:52-62), unless a number was handed out between
\* its two closes or a client did not wait.
THEOREM AnswersArriveRight == Spec => []AnswersReachTheirClient
<1>1. FdsInv => AnswersReachTheirClient
  BY DEF FdsInv
<1> QED BY <1>1, FdsInvariance, PTL

\* Unless a number was handed out between the two closes of a hang-up, the packet whose
\* write ends the process (tcp_networking.cpp:177) is the answer to a client that left
\* before it came, or no packet at all.
THEOREM LeaversHarm == Spec => []OnlyLeaversHarm
<1>1. FdsInv => OnlyLeaversHarm
  BY DEF FdsInv
<1> QED BY <1>1, FdsInvariance, PTL

=============================================================================
