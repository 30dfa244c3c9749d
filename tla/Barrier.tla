------------------------------ MODULE Barrier ------------------------------
(***************************************************************************)
(* ao::Barrier (aocommon/barrier.h): wait() blocks until n threads have    *)
(* called it, then all go on and the barrier is ready for the next round.  *)
(* The thread that arrives last calls the completion function before it    *)
(* wakes the others.  A thread may be woken without having been notified,  *)
(* and may be back in wait() for the next round before another has left    *)
(* the previous one: the cycle number tells the rounds apart.              *)
(*                                                                         *)
(* The mutex is held between any two points where a thread may be          *)
(* interrupted, so arriving and waking up are one step each.               *)
(***************************************************************************)
EXTENDS Naturals, FiniteSets

CONSTANT Threads   \* the n threads that use the barrier

ASSUME ThreadsAssumption == IsFiniteSet(Threads) /\ Threads # {}

VARIABLES
  count,    \* _count
  cycle,    \* _cycle
  seen,     \* the local `cycle' of a thread in wait()
  waiting   \* where a thread is in wait(): out, asleep or awake

barrierVars == <<count, cycle, seen, waiting>>

n == Cardinality(Threads)

BarrierInit ==
  /\ count = n
  /\ cycle = 0
  /\ seen = [t \in Threads |-> 0]
  /\ waiting = [t \in Threads |-> "out"]

WakeAll == [t \in Threads |-> IF waiting[t] = "asleep" THEN "awake" ELSE waiting[t]]

FullCount == n

\* The last thread starts a new cycle, calls the completion function (the
\* caller's part of the step) and does not wait.
ArriveLast(t) ==
  /\ waiting[t] = "out" /\ count = 1
  /\ cycle' = cycle + 1
  /\ count' = FullCount
  /\ waiting' = WakeAll
  /\ UNCHANGED seen

ArriveEarly(t) ==
  /\ waiting[t] = "out" /\ count # 1
  /\ count' = count - 1
  /\ seen' = [seen EXCEPT ![t] = cycle]
  /\ waiting' = [waiting EXCEPT ![t] = "asleep"]
  /\ UNCHANGED cycle

AnyWakeup(t) == TRUE   \* mutant: the cycle is not looked at
CycleEnded(t) == seen[t] # cycle

Leave(t) ==
  /\ waiting[t] = "awake" /\ CycleEnded(t)
  /\ waiting' = [waiting EXCEPT ![t] = "out"]
  /\ UNCHANGED <<count, cycle, seen>>

SleepOn(t) ==
  /\ waiting[t] = "awake" /\ ~ CycleEnded(t)
  /\ waiting' = [waiting EXCEPT ![t] = "asleep"]
  /\ UNCHANGED <<count, cycle, seen>>

\* A condition variable may wake up without being notified.
SpuriousWakeup(t) ==
  /\ waiting[t] = "asleep"
  /\ waiting' = [waiting EXCEPT ![t] = "awake"]
  /\ UNCHANGED <<count, cycle, seen>>
=============================================================================
