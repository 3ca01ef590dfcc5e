----------------------------- MODULE Benchmark ------------------------------
(***************************************************************************)
(* The throughput benchmark of the test client                             *)
(* (test/client/src/utils/benchmark.cpp): the constructor's thread counts  *)
(* responses and stops the clock, sendSession's thread keeps at most       *)
(* maxInFlight requests on their way.  They share inFlight (under          *)
(* packetMutex), the flag (under connectedMutex, only ever held for one    *)
(* access) and the condition variable packetReceivedSignal.                *)
(*                                                                         *)
(* The menu starts it on a session that may hold requests and answers, and *)
(* may start it again: "carried" counts what is left from before.          *)
(*                                                                         *)
(* An operator defined directly before one whose name it extends is that   *)
(* operator with a plausible bug in it; no specification uses it.          *)
(***************************************************************************)
EXTENDS Naturals, Integers

CONSTANTS
  MaxInFlight,  \* the window: 500 in the code
  MaxRuns,      \* bound: how often the menu starts the benchmark
  MaxLeft       \* bound: what the menu's other options left in the session

ASSUME BenchmarkAssumption == MaxInFlight \in Nat \ {0} /\ MaxRuns \in Nat \ {0} /\ MaxLeft \in Nat

VARIABLES
  connected,  \* the benchmark's own flag
  inFlight,   \* the counter
  elapsed,    \* the sixty seconds are over
  main,       \* where the constructor's thread is
  sender,     \* where the thread in sendSession is
  wire,       \* requests the session has that are not answered
  answers,    \* responses in the session's queue
  lost,       \* history: requests of the session that get no answer any more
  carried,    \* history: what was unanswered or uncollected when this run began
  missed,     \* history: notify_all came between the predicate and the sleep
  runs        \* history: benchmarks started

session == <<wire, answers, lost>>
past == <<carried, missed, runs>>
vars == <<connected, inFlight, elapsed, main, sender, session, past>>

MainLabels ==
  {"clock", "drain", "settle", "signal", "stop", "signalAll", "join", "cleanup", "done"}
SenderLabels == {"loop", "wait", "checked", "asleep", "enter", "push", "count", "done"}

TypeOK ==
  /\ connected \in BOOLEAN /\ elapsed \in BOOLEAN /\ missed \in BOOLEAN
  /\ inFlight \in Int
  /\ main \in MainLabels /\ sender \in SenderLabels
  /\ wire \in Nat /\ answers \in Nat /\ lost \in Nat /\ carried \in Nat
  /\ runs \in 1..MaxRuns

\* The menu's other options push requests too, and need not have collected the answers.
Init ==
  /\ connected = TRUE /\ inFlight = 0 /\ elapsed = FALSE
  /\ main = "clock" /\ sender = "loop"
  /\ wire \in 0..MaxLeft /\ answers \in 0..MaxLeft
  /\ carried = wire + answers /\ lost = 0
  /\ missed = FALSE /\ runs = 1

MainGoes(from, to) == main = from /\ main' = to
SenderGoes(from, to) == sender = from /\ sender' = to
\* The sender holds packetMutex from the predicate to its sleep or its return.
MutexFree == sender # "checked"
\* It has seen the flag set and will see the window full.
AboutToSleep == sender = "checked" /\ inFlight >= MaxInFlight

-----------------------------------------------------------------------------
(* sendSession.                                                            *)

SenderLoop ==
  /\ SenderGoes("loop", IF connected THEN "wait" ELSE "done")
  /\ UNCHANGED <<connected, inFlight, elapsed, main, session, past>>

\* The predicate reads the flag, and the counter only if the flag is still set.
SenderReadsFlag ==
  /\ SenderGoes("wait", IF connected THEN "checked" ELSE "enter")
  /\ UNCHANGED <<connected, inFlight, elapsed, main, session, past>>

SenderReadsCounterOffByOne ==
  /\ SenderGoes("checked", IF inFlight <= MaxInFlight THEN "enter" ELSE "asleep")
  /\ UNCHANGED <<connected, inFlight, elapsed, main, session, past>>
SenderReadsCounter ==
  /\ SenderGoes("checked", IF inFlight < MaxInFlight THEN "enter" ELSE "asleep")
  /\ UNCHANGED <<connected, inFlight, elapsed, main, session, past>>

SenderEnters ==
  /\ SenderGoes("enter", IF connected THEN "push" ELSE "done")
  /\ UNCHANGED <<connected, inFlight, elapsed, main, session, past>>

SenderPushes ==
  /\ SenderGoes("push", "count")
  /\ wire' = wire + 1
  /\ UNCHANGED <<connected, inFlight, elapsed, main, answers, lost, past>>

SenderCounts ==
  /\ SenderGoes("count", "loop")
  /\ inFlight' = inFlight + 1
  /\ UNCHANGED <<connected, elapsed, main, session, past>>

SpuriousWake ==
  /\ SenderGoes("asleep", "wait")
  /\ UNCHANGED <<connected, inFlight, elapsed, main, session, past>>

SenderNext ==
  \/ SenderLoop \/ SenderReadsFlag \/ SenderReadsCounter
  \/ SenderEnters \/ SenderPushes \/ SenderCounts

-----------------------------------------------------------------------------
(* The constructor.                                                        *)

MainClock ==
  /\ MainGoes("clock", IF elapsed THEN "stop" ELSE "drain")
  /\ UNCHANGED <<connected, inFlight, elapsed, sender, session, past>>

\* hasResponse() and popResponse(): nothing else takes a response in between.
\* The clock is not read again before the queue is found empty.
MainPops ==
  /\ MainGoes("drain", "settle")
  /\ answers > 0
  /\ answers' = answers - 1
  /\ UNCHANGED <<connected, inFlight, elapsed, sender, wire, lost, past>>

MainFindsNone ==
  /\ MainGoes("drain", "clock")
  /\ answers = 0
  /\ UNCHANGED <<connected, inFlight, elapsed, sender, session, past>>

MainSettlesNothing ==
  /\ MainGoes("settle", "signal")
  /\ MutexFree
  /\ UNCHANGED <<connected, inFlight, elapsed, sender, session, past>>
MainSettles ==
  /\ MainGoes("settle", "signal")
  /\ MutexFree
  /\ inFlight' = inFlight - 1
  /\ UNCHANGED <<connected, elapsed, sender, session, past>>

\* notify_one and notify_all: only one thread ever waits.
Notify == sender' = IF sender = "asleep" THEN "wait" ELSE sender

MainSignalsNobody ==
  /\ MainGoes("signal", "drain")
  /\ UNCHANGED <<connected, inFlight, elapsed, sender, session, past>>
MainSignals ==
  /\ MainGoes("signal", "drain")
  /\ Notify
  /\ UNCHANGED <<connected, inFlight, elapsed, session, past>>

\* disconnect(): under connectedMutex, not under packetMutex.
MainStops ==
  /\ MainGoes("stop", "signalAll")
  /\ connected' = FALSE
  /\ UNCHANGED <<inFlight, elapsed, sender, session, past>>

MainSignalsAllToNobody ==
  /\ MainGoes("signalAll", "join")
  /\ missed' = AboutToSleep
  /\ UNCHANGED <<connected, inFlight, elapsed, sender, wire, answers, lost, carried, runs>>
MainSignalsAll ==
  /\ MainGoes("signalAll", "join")
  /\ Notify
  /\ missed' = AboutToSleep
  /\ UNCHANGED <<connected, inFlight, elapsed, wire, answers, lost, carried, runs>>

MainJoins ==
  /\ MainGoes("join", "cleanup")
  /\ sender = "done"
  /\ UNCHANGED <<connected, inFlight, elapsed, sender, session, past>>

MainCleansUp ==
  /\ MainGoes("cleanup", IF answers > 0 THEN "cleanup" ELSE "done")
  /\ answers' = IF answers > 0 THEN answers - 1 ELSE 0
  /\ UNCHANGED <<connected, inFlight, elapsed, sender, wire, lost, past>>

\* The menu starts another benchmark on the same session; losses that are past
\* belong to no run.
Again ==
  /\ MainGoes("done", "clock") /\ runs < MaxRuns
  /\ runs' = runs + 1
  /\ connected' = TRUE /\ inFlight' = 0 /\ elapsed' = FALSE /\ missed' = FALSE
  /\ sender' = "loop"
  /\ carried' = wire + answers /\ lost' = 0
  /\ UNCHANGED <<wire, answers>>

MainNext ==
  \/ MainClock \/ MainPops \/ MainFindsNone \/ MainSettles \/ MainSignals
  \/ MainStops \/ MainSignalsAll \/ MainJoins \/ MainCleansUp

-----------------------------------------------------------------------------
(* The client session, the server and the clock.                           *)

Answer ==
  /\ wire > 0
  /\ wire' = wire - 1 /\ answers' = answers + 1
  /\ UNCHANGED <<connected, inFlight, elapsed, main, sender, lost, past>>

Lose ==
  /\ wire > 0
  /\ wire' = wire - 1 /\ lost' = lost + 1
  /\ UNCHANGED <<connected, inFlight, elapsed, main, sender, answers, past>>

TimeElapses ==
  /\ ~elapsed /\ elapsed' = TRUE
  /\ UNCHANGED <<connected, inFlight, main, sender, session, past>>

Next ==
  \/ SenderNext \/ SpuriousWake
  \/ MainNext \/ Again
  \/ Answer \/ Lose \/ TimeElapses

Spec == Init /\ [][Next]_vars

\* Both threads are scheduled and time passes.  No request has to be answered,
\* no sleeper wakes by itself.
FairSpec ==
  Spec /\ WF_vars(SenderNext) /\ WF_vars(MainNext) /\ WF_vars(TimeElapses)

-----------------------------------------------------------------------------
(* Properties.                                                             *)

\* The counter is changed after the push and after the pop, in critical sections
\* of their own.  Still the requests on their way never exceed the window by more
\* than what was left in the session before, and the counter never falls below what is
\* explained by late answers to those and one answer that came before its
\* request was counted.
WindowKept ==
  /\ wire + answers + lost <= MaxInFlight + carried
  /\ inFlight >= -(carried + 1)

\* While the benchmark runs, the sender sleeps only on a full window: an answer
\* that makes room wakes it or is about to.
SleepsOnFullWindow ==
  sender = "asleep" /\ connected => inFlight >= MaxInFlight \/ main = "signal"

\* A benchmark whose answers all come does not sleep on an empty session: what the
\* sender waits for is still on its way.
SleeperIsServed ==
  sender = "asleep" /\ connected /\ lost = 0 /\ main \notin {"settle", "signal"}
    => wire + answers > 0

\* Once the time has been found to be over the constructor returns, unless
\* notify_all came between the sender's look at the flag and its sleep.
StopSeen == main = "stop" ~> (main = "done" \/ missed)

=============================================================================
