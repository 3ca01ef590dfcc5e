----------------------------- MODULE ServerFds ------------------------------
(***************************************************************************)
(* The descriptors of the test server: its accept loop, and the sessions   *)
(* it starts, each with the threads of a ServerSessionController and the   *)
(* echo loop of clientManager.  A session knows its connection and its     *)
(* epoll instance by number only, and the kernel hands a closed number out *)
(* again.                                                                  *)
(*                                                                         *)
(* The n-th accept4() starts session n for client n.  A client sends at    *)
(* most one packet, named after it; the queues are sets.  Session numbers  *)
(* stand for the objects, descriptor numbers for what the code holds.      *)
(*                                                                         *)
(* An operator defined directly before one whose name it extends is that   *)
(* operator with a plausible bug in it; no specification uses it.          *)
(***************************************************************************)
EXTENDS Integers

CONSTANTS
  MaxSessions,  \* bound: calls of accept4
  NumFds        \* the descriptors the process may still open

ASSUME FdsAssumption == MaxSessions \in Nat \ {0} /\ NumFds \in Nat

Sessions == 1..MaxSessions
Fds == 1..NumFds
NoFd == -1
Stale == 0      \* a packet read from an empty vector
NoPacket == -1

Conn(s) == <<"conn", s>>
Epoll(s) == <<"epoll", s>>
Nothing == <<"nothing", 0>>
Objects == {"conn", "epoll"} \X Sessions

VARIABLES
  table,      \* what each descriptor number stands for
  started,    \* sessions started
  sock,       \* each session's clientSocket
  epoll,      \* each session's epollFd
  watches,    \* the connections each epoll instance watches, while they are open
  net,        \* where networkingSession's thread, then the receiver is
  event,      \* the number in the event the receiver handles
  connected,  \* each session's flag
  manager,    \* where clientManager is
  sender,     \* where the sender is
  hand,       \* the packet it took
  requests, responses,  \* each session's queues
  peer,       \* what each client has done with its connection
  request,    \* each client's packet
  answered,   \* history: the packets written to each connection
  raced,      \* history: a number was handed out between its two closes
  exhausted,  \* history: no descriptor was left for a session
  abandoned,  \* history: a client left before its answer came
  fatal       \* the packet whose write has ended the process, or NoPacket

clients == <<peer, request, answered>>
control == <<net, event, connected, manager, sender, hand, requests, responses>>
descriptors == <<table, sock, epoll, watches, started>>
past == <<raced, exhausted, abandoned>>
vars == <<clients, control, descriptors, past, fatal>>

NetLabels ==
  {"none", "create", "add", "failed", "poll", "readable", "hangup", "reclose", "done"}

TypeOK ==
  /\ table \in [Fds -> Objects \cup {Nothing}]
  /\ started \in 0..MaxSessions
  /\ sock \in [Sessions -> Fds \cup {NoFd}] /\ epoll \in [Sessions -> Fds \cup {NoFd}]
  /\ watches \in [Sessions -> SUBSET Sessions]
  /\ net \in [Sessions -> NetLabels]
  /\ event \in [Sessions -> Fds \cup {NoFd}]
  /\ connected \in [Sessions -> BOOLEAN]
  /\ manager \in [Sessions -> {"running", "done"}]
  /\ sender \in [Sessions -> {"idle", "sending", "done"}]
  /\ hand \in [Sessions -> Sessions \cup {Stale}]
  /\ requests \in [Sessions -> SUBSET Sessions]
  /\ responses \in [Sessions -> SUBSET Sessions]
  /\ peer \in [Sessions -> {"open", "closed", "reset"}]
  /\ request \in [Sessions -> {"unsent", "unread", "read"}]
  /\ answered \in [Sessions -> SUBSET (Sessions \cup {Stale})]
  /\ raced \in BOOLEAN /\ exhausted \in BOOLEAN /\ abandoned \in BOOLEAN
  /\ fatal \in Sessions \cup {Stale, NoPacket}

Everywhere(value) == [s \in Sessions |-> value]

Init ==
  /\ table = [n \in Fds |-> Nothing] /\ started = 0
  /\ sock = Everywhere(NoFd) /\ epoll = Everywhere(NoFd) /\ watches = Everywhere({})
  /\ net = Everywhere("none") /\ event = Everywhere(NoFd)
  /\ connected = Everywhere(TRUE) /\ manager = Everywhere("running")
  /\ sender = Everywhere("idle") /\ hand = Everywhere(Stale)
  /\ requests = Everywhere({}) /\ responses = Everywhere({})
  /\ peer = Everywhere("open") /\ request = Everywhere("unsent")
  /\ answered = Everywhere({})
  /\ raced = FALSE /\ exhausted = FALSE /\ abandoned = FALSE /\ fatal = NoPacket

-----------------------------------------------------------------------------
(* Descriptor numbers.                                                     *)

Free == {n \in Fds : table[n] = Nothing}
At(n) == IF n \in Fds THEN table[n] ELSE Nothing
Alive(s) == \E n \in Fds : table[n] = Conn(s)

\* The numbers a hang-up has closed once and will close again.
HalfClosed == {sock[s] : s \in {t \in Sessions : net[t] = "reclose"}}

\* The kernel hands out the lowest free number, or fails.
Grant(object, n) ==
  \/ /\ n \in Free /\ \A m \in Free : n <= m
     /\ table' = [table EXCEPT ![n] = object]
     /\ raced' = (raced \/ n \in HalfClosed)
     /\ UNCHANGED exhausted
  \/ /\ n = NoFd /\ Free = {}
     /\ exhausted' = TRUE
     /\ UNCHANGED <<table, raced>>

Close(n) == table' = IF n \in Fds THEN [table EXCEPT ![n] = Nothing] ELSE table

NetGoes(s, from, to) == net[s] = from /\ net' = [net EXCEPT ![s] = to]
SenderGoes(s, from, to) == sender[s] = from /\ sender' = [sender EXCEPT ![s] = to]
Threads(s) == net[s] \notin {"none", "create", "add", "failed"}

-----------------------------------------------------------------------------
(* The accept loop and networkingSession().                                *)

Accept ==
  /\ started < MaxSessions
  /\ started' = started + 1
  /\ \E n \in Fds \cup {NoFd} :
       /\ Grant(Conn(started + 1), n)
       /\ sock' = [sock EXCEPT ![started + 1] = n]
  /\ net' = [net EXCEPT ![started + 1] = "create"]
  /\ UNCHANGED <<clients, epoll, watches, event, connected, manager, sender, hand,
                 requests, responses, abandoned, fatal>>

EpollCreate(s) ==
  /\ NetGoes(s, "create", "add")
  /\ \E n \in Fds \cup {NoFd} :
       /\ Grant(Epoll(s), n)
       /\ epoll' = [epoll EXCEPT ![s] = n]
  /\ UNCHANGED <<clients, sock, watches, started, event, connected, manager, sender,
                 hand, requests, responses, abandoned, fatal>>

\* Without the watch networkingSession() returns and starts no thread.
Watchable(s) ==
  {w \in Sessions \X Sessions :
     At(epoll[s]) = Epoll(w[1]) /\ At(sock[s]) = Conn(w[2]) /\ w[2] \notin watches[w[1]]}

EpollAdd(s) ==
  /\ \/ /\ NetGoes(s, "add", "poll")
        /\ \E w \in Watchable(s) : watches' = [watches EXCEPT ![w[1]] = @ \cup {w[2]}]
     \/ /\ NetGoes(s, "add", "failed")
        /\ Watchable(s) = {}
        /\ UNCHANGED watches
  /\ UNCHANGED <<clients, table, sock, epoll, started, event, connected, manager,
                 sender, hand, requests, responses, past, fatal>>

-----------------------------------------------------------------------------
(* The receiver: receiveRequestSession(), receiveMessage(), disconnect().  *)

\* What epoll_wait reports for a connection; the number is the one it was added with.
Reports(c) == IF peer[c] = "reset" THEN "hangup" ELSE "readable"
Ready(c) == Alive(c) /\ (peer[c] # "open" \/ request[c] = "unread")

EpollEvent(s) ==
  /\ connected[s]
  /\ \E e \in Sessions : \E c \in watches[e] :
       /\ At(epoll[s]) = Epoll(e) /\ Ready(c)
       /\ NetGoes(s, "poll", Reports(c))
       /\ event' = [event EXCEPT ![s] = sock[c]]
  /\ UNCHANGED <<clients, descriptors, connected, manager, sender, hand, requests,
                 responses, past, fatal>>

\* disconnect(): whoever asks for the flag waits for connectedMutex until it is
\* cleared, so the close and the flag are one step.
DisconnectCloseEpoll(s) ==
  /\ Close(epoll[s])
  /\ connected' = [connected EXCEPT ![s] = FALSE]
Disconnect(s) ==
  /\ Close(sock[s])
  /\ connected' = [connected EXCEPT ![s] = FALSE]

\* recv() drains what there is; the end of the stream disconnects and drops it.
ReceiveIntoShared(s) ==
  LET object == At(event[s])
      c == object[2]
      eof == object[1] = "conn" /\ peer[c] = "closed"
      data == object[1] = "conn" /\ peer[c] = "open" /\ request[c] = "unread"
  IN
  /\ NetGoes(s, "readable", IF eof THEN "done" ELSE "poll")
  /\ event' = [event EXCEPT ![s] = NoFd]
  /\ IF eof THEN Disconnect(s) ELSE UNCHANGED <<table, connected>>
  /\ IF data THEN /\ request' = [request EXCEPT ![c] = "read"]
                  /\ requests' = [r \in Sessions |-> requests[r] \cup {c}]
             ELSE UNCHANGED <<request, requests>>
  /\ UNCHANGED <<sock, epoll, watches, started, manager, sender, hand, responses,
                 peer, answered, past, fatal>>
Receive(s) ==
  LET object == At(event[s])
      c == object[2]
      eof == object[1] = "conn" /\ peer[c] = "closed"
      data == object[1] = "conn" /\ peer[c] = "open" /\ request[c] = "unread"
  IN
  /\ NetGoes(s, "readable", IF eof THEN "done" ELSE "poll")
  /\ event' = [event EXCEPT ![s] = NoFd]
  /\ IF eof THEN Disconnect(s) ELSE UNCHANGED <<table, connected>>
  /\ IF data THEN /\ request' = [request EXCEPT ![c] = "read"]
                  /\ requests' = [requests EXCEPT ![s] = @ \cup {c}]
             ELSE UNCHANGED <<request, requests>>
  /\ UNCHANGED <<sock, epoll, watches, started, manager, sender, hand, responses,
                 peer, answered, past, fatal>>

HangupClose(s) ==
  /\ NetGoes(s, "hangup", "reclose")
  /\ Close(event[s])
  /\ event' = [event EXCEPT ![s] = NoFd]
  /\ UNCHANGED <<clients, sock, epoll, watches, started, connected, manager, sender,
                 hand, requests, responses, past, fatal>>

HangupReturns(s) ==
  /\ NetGoes(s, "reclose", "done")
  /\ UNCHANGED <<clients, table, connected, sock, epoll, watches, started, event,
                 manager, sender, hand, requests, responses, past, fatal>>
HangupDisconnects(s) ==
  /\ NetGoes(s, "reclose", "done")
  /\ Disconnect(s)
  /\ UNCHANGED <<clients, sock, epoll, watches, started, event, manager, sender, hand,
                 requests, responses, past, fatal>>

-----------------------------------------------------------------------------
(* clientManager and the sender.  Both look at the flag once per turn of   *)
(* their loop, and finish the turn they are in when it is cleared.         *)

Echo(s) ==
  /\ manager[s] = "running"
  /\ \E p \in requests[s] :
       /\ requests' = [requests EXCEPT ![s] = @ \ {p}]
       /\ responses' = [responses EXCEPT ![s] = @ \cup {p}]
  /\ manager' = [manager EXCEPT ![s] = IF connected[s] THEN "running" ELSE "done"]
  /\ UNCHANGED <<clients, descriptors, net, event, connected, sender, hand, past, fatal>>

Terminate(s) ==
  /\ manager[s] = "running" /\ ~connected[s]
  /\ manager' = [manager EXCEPT ![s] = "done"]
  /\ UNCHANGED <<clients, descriptors, net, event, connected, sender, hand, requests,
                 responses, past, fatal>>

\* An idle sender is anywhere between isConnected() and the take, or asleep.
SenderTake(s) ==
  /\ Threads(s) /\ SenderGoes(s, "idle", "sending")
  /\ \E p \in responses[s] :
       /\ hand' = [hand EXCEPT ![s] = p]
       /\ responses' = [responses EXCEPT ![s] = @ \ {p}]
  /\ UNCHANGED <<clients, descriptors, net, event, connected, manager, requests, past, fatal>>

\* The predicate lets a disconnected sender through to an empty vector: it reads
\* what it finds, or the process ends and takes no more steps.
SenderTakeStale(s) ==
  /\ Threads(s) /\ SenderGoes(s, "idle", "sending")
  /\ responses[s] = {} /\ ~connected[s]
  /\ hand' = [hand EXCEPT ![s] = Stale]
  /\ UNCHANGED <<clients, descriptors, net, event, connected, manager, requests,
                 responses, past, fatal>>

\* sendPacket() to whatever the number stands for.  A client that has closed its end
\* may answer with a reset; a write to a connection that has been reset, the body
\* after the header for one, raises SIGPIPE.
SenderSend(s) ==
  LET c == At(sock[s])[2] IN
  /\ SenderGoes(s, "sending", IF connected[s] THEN "idle" ELSE "done")
  /\ hand' = [hand EXCEPT ![s] = Stale]
  /\ \/ /\ At(sock[s])[1] # "conn"
        /\ UNCHANGED <<answered, peer, fatal>>
     \/ /\ At(sock[s])[1] = "conn" /\ peer[c] # "reset"
        /\ answered' = [answered EXCEPT ![c] = @ \cup {hand[s]}]
        /\ \/ UNCHANGED peer
           \/ peer[c] = "closed" /\ peer' = [peer EXCEPT ![c] = "reset"]
        /\ UNCHANGED fatal
     \/ /\ At(sock[s])[1] = "conn" /\ peer[c] # "open"
        /\ fatal' = hand[s]
        /\ UNCHANGED <<answered, peer>>
  /\ UNCHANGED <<descriptors, net, event, connected, manager, requests, responses,
                 request, past>>

-----------------------------------------------------------------------------
(* The clients.                                                            *)

ClientSends(c) ==
  /\ Alive(c) /\ peer[c] = "open" /\ request[c] = "unsent"
  /\ request' = [request EXCEPT ![c] = "unread"]
  /\ UNCHANGED <<control, descriptors, peer, answered, past, fatal>>

\* In order, or by a reset.
ClientLeaves(c) ==
  /\ Alive(c) /\ peer[c] = "open"
  /\ \E end \in {"closed", "reset"} : peer' = [peer EXCEPT ![c] = end]
  /\ abandoned' = (abandoned \/ (request[c] # "unsent" /\ c \notin answered[c]))
  /\ UNCHANGED <<control, descriptors, request, answered, raced, exhausted, fatal>>

-----------------------------------------------------------------------------
Running == fatal = NoPacket

NetNext(s) ==
  /\ Running
  /\ \/ EpollCreate(s) \/ EpollAdd(s) \/ EpollEvent(s) \/ Receive(s)
     \/ HangupClose(s) \/ HangupDisconnects(s)

ManagerNext(s) == Running /\ (Echo(s) \/ Terminate(s))
SenderNext(s) == Running /\ (SenderTake(s) \/ SenderTakeStale(s) \/ SenderSend(s))
ClientNext(s) == Running /\ (ClientSends(s) \/ ClientLeaves(s))

Next ==
  \/ Running /\ Accept
  \/ \E s \in Sessions : NetNext(s) \/ SenderNext(s) \/ ManagerNext(s) \/ ClientNext(s)

Spec == Init /\ [][Next]_vars

\* Every thread of every session is scheduled; clients and the accept loop do what
\* they like.
FairSpec ==
  Spec /\ \A s \in Sessions :
            WF_vars(NetNext(s)) /\ WF_vars(SenderNext(s)) /\ WF_vars(ManagerNext(s))

-----------------------------------------------------------------------------
(* Properties.                                                             *)

\* Unless a number is handed out between the two closes of a hang-up, the numbers a
\* session holds are its own: the connection's until it is closed, and the epoll
\* instance's for ever, also when the session is over.
NumbersStayOwn ==
  ~raced =>
    \A s \in Sessions :
      /\ sock[s] # NoFd /\ net[s] \notin {"reclose", "done"}
           => At(sock[s]) = Conn(s)
      /\ epoll[s] # NoFd => At(epoll[s]) = Epoll(s)

\* Nobody gets the answer to another client's request, unless a number was handed
\* out between its two closes or a client did not wait for its answer.
AnswersReachTheirClient ==
  ~raced /\ ~abandoned => \A c \in Sessions : answered[c] \subseteq {c, Stale}

\* Unless a number is handed out between the two closes of a hang-up, what ends the
\* process is the answer to a client that did not wait for it, or the stale packet of a
\* session that is over.
OnlyLeaversHarm ==
  fatal \in Sessions /\ ~raced => peer[fatal] # "open" /\ fatal \notin answered[fatal]

\* The session of a client that leaves ends, up to its sender, unless the answer it
\* did not wait for ends the process.
SessionNoticesEnd ==
  \A s \in Sessions :
    peer[s] # "open" ~>
      (net[s] = "done" /\ manager[s] = "done") \/ raced \/ exhausted \/ ~Running

\* Of the requests the server answers, a client gets the answer to its own.
AnswersOwnRequest == \A c \in Sessions : answered[c] \subseteq {c, Stale}

=============================================================================
