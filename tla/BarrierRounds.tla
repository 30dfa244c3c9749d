---------------------------- MODULE BarrierRounds ----------------------------
(***************************************************************************)
(* Threads that meet at one barrier, round after round, as those of        *)
(* ParallelFor and LMSPredicter do.                                        *)
(***************************************************************************)
EXTENDS Barrier

CONSTANT MaxRounds   \* bound: how often a thread calls wait()

VARIABLES
  called,    \* history: how often each thread has called wait()
  returned   \* history: how often that call has returned

historyVars == <<called, returned>>
meetVars == <<barrierVars, historyVars>>

MeetInit ==
  /\ BarrierInit
  /\ called = [t \in Threads |-> 0]
  /\ returned = [t \in Threads |-> 0]

Plus1(f, t) == [f EXCEPT ![t] = @ + 1]

CallLast(t) ==
  /\ called[t] < MaxRounds
  /\ ArriveLast(t)
  /\ called' = Plus1(called, t)
  /\ returned' = Plus1(returned, t)

CallEarly(t) ==
  /\ called[t] < MaxRounds
  /\ ArriveEarly(t)
  /\ called' = Plus1(called, t)
  /\ UNCHANGED returned

Return(t) ==
  /\ Leave(t)
  /\ returned' = Plus1(returned, t)
  /\ UNCHANGED called

KeepWaiting(t) == (SleepOn(t) \/ SpuriousWakeup(t)) /\ UNCHANGED historyVars

EverybodyPassed == \A t \in Threads : returned[t] = MaxRounds
MeetOver == EverybodyPassed /\ UNCHANGED meetVars

MeetNext ==
  \/ \E t \in Threads : CallLast(t) \/ CallEarly(t) \/ Return(t) \/ KeepWaiting(t)
  \/ MeetOver

MeetSpec == MeetInit /\ [][MeetNext]_meetVars

\* A thread that can take a step of its own does so; wakeups that nobody asked
\* for are not relied on.
Arrive(t) == CallLast(t) \/ CallEarly(t)
WakeUp(t) == Return(t) \/ (SleepOn(t) /\ UNCHANGED historyVars)

(***************************************************************************)
(* Properties.                                                             *)
(***************************************************************************)

\* Types of the barrier: the count is never zero between two calls, where one
\* more decrement would wrap around.
MeetTypeOK ==
  /\ count \in 1 .. n
  /\ cycle \in Nat
  /\ seen \in [Threads -> Nat]
  /\ waiting \in [Threads -> {"out", "asleep", "awake"}]
  /\ called \in [Threads -> Nat] /\ returned \in [Threads -> Nat]

\* Nobody passes the barrier in a round before everybody has arrived in it, also
\* when a fast thread is a round ahead of one that has not woken up yet.
NobodyPassesAlone == \A t, u \in Threads : returned[t] <= called[u]

=============================================================================
