--------------------------- MODULE BenchmarkProof ---------------------------
(***************************************************************************)
(* Proofs about Benchmark, for every window and any number of runs.        *)
(***************************************************************************)
EXTENDS Benchmark, TLAPS

USE BenchmarkAssumption DEF BenchmarkAssumption

Running == main \notin {"cleanup", "done"}

\* What the counter counts: the requests on their way or lost, less those left
\* from before, up to the one request that is pushed and not counted, and the one
\* answer that is popped and not settled.
Account ==
  Running =>
    inFlight + carried =
      wire + answers + lost + (IF main = "settle" THEN 1 ELSE 0)
                            - (IF sender = "count" THEN 1 ELSE 0)

\* The flag is up until the constructor's thread clears it, and the cleanup starts
\* when the sender is done.
Phases ==
  /\ connected <=> main \in {"clock", "drain", "settle", "signal", "stop"}
  /\ ~Running => sender = "done"

\* Only the sender fills the window, so room that it has seen stays.
Room ==
  /\ inFlight <= MaxInFlight
  /\ sender = "enter" /\ connected => inFlight < MaxInFlight
  /\ sender \in {"push", "count"} => inFlight < MaxInFlight

\* After notify_all the sender sleeps, or is about to, only if it was missed.
Missed ==
  main = "join" /\ (sender = "asleep" \/ AboutToSleep) => missed

IInv ==
  /\ TypeOK /\ Account /\ Phases /\ Room /\ WindowKept
  /\ SleepsOnFullWindow /\ Missed

-----------------------------------------------------------------------------
\* The initial state satisfies the invariant: what is on its way is carried.
LEMMA InitIInv == Init => IInv
<1> SUFFICES ASSUME Init PROVE IInv OBVIOUS
<1> USE DEF Init
<1>1. TypeOK
  <2>1. connected \in BOOLEAN /\ elapsed \in BOOLEAN /\ missed \in BOOLEAN OBVIOUS
  <2>2. runs \in 1..MaxRuns OBVIOUS
  <2>3. wire \in Nat /\ answers \in Nat /\ carried \in Nat /\ lost \in Nat OBVIOUS
  <2> QED BY <2>1, <2>2, <2>3 DEF TypeOK, MainLabels, SenderLabels
<1>2. Account BY DEF Account
<1>3. Phases
  <2>1. connected /\ main = "clock" OBVIOUS
  <2> QED BY <2>1 DEF Phases, Running
<1>4. Room BY DEF Room
<1>5. WindowKept BY DEF WindowKept
<1>6. SleepsOnFullWindow /\ Missed BY DEF SleepsOnFullWindow, Missed, AboutToSleep
<1> QED BY <1>1, <1>2, <1>3, <1>4, <1>5, <1>6 DEF IInv

\* A step of sendSession keeps the invariant.
LEMMA SenderKeeps ==
  ASSUME IInv, SenderNext \/ SpuriousWake
  PROVE  IInv'
<1> USE DEF IInv, TypeOK, Account, Phases, Room, WindowKept, SleepsOnFullWindow,
            Missed, AboutToSleep, Running, MainLabels, SenderLabels, SenderGoes,
            session, past
<1>1. CASE SenderLoop BY <1>1 DEF SenderLoop
<1>2. CASE SenderReadsFlag BY <1>2 DEF SenderReadsFlag
<1>3. CASE SenderReadsCounter BY <1>3 DEF SenderReadsCounter
<1>4. CASE SenderEnters BY <1>4 DEF SenderEnters
<1>5. CASE SenderPushes BY <1>5 DEF SenderPushes
<1>6. CASE SenderCounts BY <1>6 DEF SenderCounts
<1>7. CASE SpuriousWake BY <1>7 DEF SpuriousWake
<1> QED BY <1>1, <1>2, <1>3, <1>4, <1>5, <1>6, <1>7 DEF SenderNext

\* A step of the constructor keeps the invariant.
LEMMA MainKeeps ==
  ASSUME IInv, MainNext \/ Again
  PROVE  IInv'
<1> USE DEF IInv, TypeOK, Account, Phases, Room, WindowKept, SleepsOnFullWindow,
            Missed, AboutToSleep, Running, MainLabels, SenderLabels, MainGoes,
            session, past
<1>1. CASE MainClock BY <1>1 DEF MainClock
<1>2. CASE MainPops BY <1>2 DEF MainPops
<1>3. CASE MainFindsNone BY <1>3 DEF MainFindsNone
<1>4. CASE MainSettles BY <1>4 DEF MainSettles, MutexFree
<1>5. CASE MainSignals BY <1>5 DEF MainSignals, Notify
<1>6. CASE MainStops BY <1>6 DEF MainStops
<1>7. CASE MainSignalsAll BY <1>7 DEF MainSignalsAll, Notify
<1>8. CASE MainJoins BY <1>8 DEF MainJoins
<1>9. CASE MainCleansUp BY <1>9 DEF MainCleansUp
<1>10. CASE Again
  <2> USE <1>10 DEF Again
  <2>1. connected' /\ main' = "clock" OBVIOUS
  <2>2. (connected \in BOOLEAN /\ elapsed \in BOOLEAN /\ missed \in BOOLEAN)'
    OBVIOUS
  <2>3. (runs \in 1..MaxRuns)' OBVIOUS
  <2>4. TypeOK' BY <2>2, <2>3
  <2>5. Account' /\ Room' /\ WindowKept' OBVIOUS
  <2> QED BY <2>1, <2>4, <2>5
<1> QED BY <1>1, <1>2, <1>3, <1>4, <1>5, <1>6, <1>7, <1>8, <1>9, <1>10 DEF MainNext

\* Answers, losses and the clock keep the invariant.
LEMMA SessionKeeps ==
  ASSUME IInv, Answer \/ Lose \/ TimeElapses
  PROVE  IInv'
<1> USE DEF IInv, TypeOK, Account, Phases, Room, WindowKept, SleepsOnFullWindow,
            Missed, AboutToSleep, Running, MainLabels, SenderLabels, session, past
<1>1. CASE Answer BY <1>1 DEF Answer
<1>2. CASE Lose BY <1>2 DEF Lose
<1>3. CASE TimeElapses BY <1>3 DEF TimeElapses
<1> QED BY <1>1, <1>2, <1>3

\* The inductive invariant of the benchmark, for every window and any number of runs.
THEOREM BenchmarkInvariance == Spec => []IInv
<1>1. IInv /\ UNCHANGED vars => IInv'
  BY DEF IInv, TypeOK, Account, Phases, Room, WindowKept, SleepsOnFullWindow,
         Missed, AboutToSleep, Running, vars, session, past
<1>2. IInv /\ [Next]_vars => IInv'
  BY <1>1, SenderKeeps, MainKeeps, SessionKeeps DEF Next
<1> QED BY InitIInv, <1>2, PTL DEF Spec

\* The counter is changed outside the critical section that compared it, and still
\* no benchmark has more requests on their way than its window and what was
\* left in the session before (benchmark.cpp:115-131).
THEOREM WindowHolds == Spec => []WindowKept
<1>1. IInv => WindowKept BY DEF IInv
<1> QED BY BenchmarkInvariance, <1>1, PTL

\* No answer's notification is lost: a sender that sleeps while the benchmark runs
\* has a full window in front of it (benchmark.cpp:48-52, 117-120).
THEOREM AnswersWake == Spec => []SleepsOnFullWindow
<1>1. IInv => SleepsOnFullWindow BY DEF IInv
<1> QED BY BenchmarkInvariance, <1>1, PTL

\* While no request is lost, whatever the sender sleeps for is on its way.
THEOREM SleepersAreServed == Spec => []SleeperIsServed
<1>1. IInv => SleeperIsServed
  BY DEF IInv, TypeOK, Account, Phases, Running, SleepsOnFullWindow, SleeperIsServed
<1> QED BY BenchmarkInvariance, <1>1, PTL

\* The join can only hang on a sender that notify_all missed between its look at
\* the flag and its sleep (benchmark.cpp:70-78, 118-120).
THEOREM OnlyMissedSleeps == Spec => [](main = "join" /\ sender = "asleep" => missed)
<1>1. IInv => (main = "join" /\ sender = "asleep" => missed) BY DEF IInv, Missed
<1> QED BY BenchmarkInvariance, <1>1, PTL

=============================================================================
