----------------------------- MODULE ParallelFor -----------------------------
(***************************************************************************)
(* ao::ParallelFor (aocommon/parallelfor.h): the thread that calls Run and *)
(* n-1 threads that are kept between calls take iterations one by one and  *)
(* meet at a barrier, whose completion function sets _hasTasks to false.   *)
(* It is used to reorder measurement sets and to clean subimages.          *)
(*                                                                         *)
(* A section that holds _mutex is one step, and so is a call of            *)
(* _barrier.wait up to the point where it sleeps.  _loopFunction is read   *)
(* without the lock, when it is called; functions are numbered by the Run  *)
(* that brought them.                                                      *)
(***************************************************************************)
EXTENDS Barrier

CONSTANTS
  Caller,      \* the thread that calls Run, one of Threads
  Lengths,     \* bound: the sizes of the ranges
  MaxRuns      \* bound: how often Run is called

ASSUME CallerAssumption == Caller \in Threads
ASSUME LengthsAssumption == Lengths \subseteq Nat

VARIABLES
  pc,          \* where each thread is
  current,     \* _current, counted from the start of the range
  end,         \* _end, likewise
  hasTasks,    \* _hasTasks
  stop,        \* _stop
  function,    \* _loopFunction: the number of its Run
  iter,        \* the iteration a thread took, and the function it called with it
  runs         \* the number of calls of Run

forVars == <<pc, current, end, hasTasks, stop, function, iter, runs>>
parallelForVars == <<barrierVars, forVars>>

OtherThreads == Threads \ {Caller}
Places == {"none", "idle", "started", "single", "singleCall", "singleDone", "tasks", "asleep", "test",
           "loop", "ready", "call", "arrive", "barrier", "join", "gone"}

ForInit ==
  /\ BarrierInit
  /\ pc = [t \in Threads |-> IF t = Caller THEN "idle" ELSE "none"]
  /\ current = 0 /\ end = 0
  /\ hasTasks = FALSE /\ stop = FALSE
  /\ function = 0 /\ runs = 0
  /\ iter = [t \in Threads |-> [index |-> 0, of |-> 0]]

Goto(t, place) == pc' = [pc EXCEPT ![t] = place]

(***************************************************************************)
(* Run.                                                                    *)
(***************************************************************************)

\* A range of one iteration is called directly, without the threads.
RunSingle ==
  /\ pc[Caller] = "idle" /\ runs < MaxRuns /\ 1 \in Lengths
  /\ runs' = runs + 1
  /\ iter' = [iter EXCEPT ![Caller] = [index |-> 1, of |-> runs + 1]]
  /\ Goto(Caller, "single")
  /\ UNCHANGED <<barrierVars, current, end, hasTasks, stop, function>>

AfterSingle == [single |-> "singleCall", singleCall |-> "singleDone", singleDone |-> "idle"]

ContinueSingle ==
  /\ pc[Caller] \in DOMAIN AfterSingle
  /\ Goto(Caller, AfterSingle[pc[Caller]])
  /\ UNCHANGED <<barrierVars, current, end, hasTasks, stop, function, iter, runs>>

\* The threads are started by the first other call, and may get to
\* waitForTasks before Run has taken the mutex.
StartThreads ==
  /\ pc[Caller] = "idle" /\ runs < MaxRuns /\ Lengths # {1}
  /\ \E t \in Threads : pc[t] = "none"
  /\ pc' = [t \in Threads |-> IF t = Caller THEN "started" ELSE "tasks"]
  /\ UNCHANGED <<barrierVars, current, end, hasTasks, stop, function, iter, runs>>

\* _conditionChanged is notified while the mutex is held.
Notified(places) == [t \in Threads |-> IF places[t] = "asleep" THEN "tasks" ELSE places[t]]

RunMany(length) ==
  /\ pc[Caller] \in {"idle", "started"} /\ runs < MaxRuns /\ length # 1
  /\ \A t \in OtherThreads : pc[t] # "none"
  /\ runs' = runs + 1
  /\ current' = 0 /\ end' = length
  /\ function' = runs + 1
  /\ hasTasks' = TRUE
  /\ pc' = [Notified(pc) EXCEPT ![Caller] = "loop"]
  /\ UNCHANGED <<barrierVars, stop, iter>>

(***************************************************************************)
(* loop() and next().                                                      *)
(***************************************************************************)
Increment == current + 1

TakeIteration(t) ==
  /\ pc[t] = "loop" /\ current # end
  /\ iter' = [iter EXCEPT ![t].index = current + 1]
  /\ current' = Increment
  /\ Goto(t, "ready")
  /\ UNCHANGED <<barrierVars, end, hasTasks, stop, function, runs>>

CallerGoesOn(t) == IF t = Caller THEN "idle" ELSE "arrive"   \* mutant: Run does not wait
AfterLoop(t) == "arrive"

NoIteration(t) ==
  /\ pc[t] = "loop" /\ current = end
  /\ Goto(t, AfterLoop(t))
  /\ UNCHANGED <<barrierVars, current, end, hasTasks, stop, function, iter, runs>>

CallFunction(t) ==
  /\ pc[t] = "ready"
  /\ iter' = [iter EXCEPT ![t].of = function]
  /\ Goto(t, "call")
  /\ UNCHANGED <<barrierVars, current, end, hasTasks, stop, function, runs>>

FunctionReturns(t) ==
  /\ pc[t] = "call"
  /\ Goto(t, "loop")
  /\ UNCHANGED <<barrierVars, current, end, hasTasks, stop, function, iter, runs>>

(***************************************************************************)
(* The barrier at the end of the loop.                                     *)
(***************************************************************************)
AfterBarrier(t) == IF t = Caller THEN "idle" ELSE "tasks"

CompletionFunction == FALSE

LastAtBarrier(t) ==
  /\ pc[t] = "arrive"
  /\ ArriveLast(t)
  /\ hasTasks' = CompletionFunction
  /\ Goto(t, AfterBarrier(t))
  /\ UNCHANGED <<current, end, stop, function, iter, runs>>

EarlyAtBarrier(t) ==
  /\ pc[t] = "arrive"
  /\ ArriveEarly(t)
  /\ Goto(t, "barrier")
  /\ UNCHANGED <<current, end, hasTasks, stop, function, iter, runs>>

LeaveBarrier(t) ==
  /\ pc[t] = "barrier"
  /\ Leave(t)
  /\ Goto(t, AfterBarrier(t))
  /\ UNCHANGED <<current, end, hasTasks, stop, function, iter, runs>>

StayAtBarrier(t) ==
  /\ pc[t] = "barrier"
  /\ SleepOn(t) \/ SpuriousWakeup(t)
  /\ UNCHANGED forVars

(***************************************************************************)
(* waitForTasks() and run() of the other threads.                          *)
(***************************************************************************)
WaitForTasks(t) ==
  /\ pc[t] = "tasks"
  /\ Goto(t, IF hasTasks THEN "test" ELSE "asleep")
  /\ UNCHANGED <<barrierVars, current, end, hasTasks, stop, function, iter, runs>>

WakeUpSpuriously(t) ==
  /\ pc[t] = "asleep"
  /\ Goto(t, "tasks")
  /\ UNCHANGED <<barrierVars, current, end, hasTasks, stop, function, iter, runs>>

TestStop(t) ==
  /\ pc[t] = "test"
  /\ Goto(t, IF stop THEN "gone" ELSE "loop")
  /\ UNCHANGED <<barrierVars, current, end, hasTasks, stop, function, iter, runs>>

(***************************************************************************)
(* The destructor.                                                         *)
(***************************************************************************)
Destruct ==
  /\ pc[Caller] = "idle"
  /\ IF \A t \in OtherThreads : pc[t] = "none"
     THEN Goto(Caller, "gone") /\ UNCHANGED <<hasTasks, stop>>
     ELSE /\ stop' = TRUE /\ hasTasks' = TRUE
          /\ pc' = [Notified(pc) EXCEPT ![Caller] = "join"]
  /\ UNCHANGED <<barrierVars, current, end, function, iter, runs>>

Join ==
  /\ pc[Caller] = "join" /\ \A t \in OtherThreads : pc[t] = "gone"
  /\ Goto(Caller, "gone")
  /\ UNCHANGED <<barrierVars, current, end, hasTasks, stop, function, iter, runs>>

ForOver == pc[Caller] = "gone" /\ UNCHANGED parallelForVars

CallerStep == RunSingle \/ ContinueSingle \/ StartThreads \/ (\E length \in Lengths : RunMany(length)) \/ Destruct \/ Join

ThreadStep(t) ==
  \/ TakeIteration(t) \/ NoIteration(t) \/ CallFunction(t) \/ FunctionReturns(t)
  \/ LastAtBarrier(t) \/ EarlyAtBarrier(t) \/ LeaveBarrier(t) \/ StayAtBarrier(t)
  \/ WaitForTasks(t) \/ WakeUpSpuriously(t) \/ TestStop(t)

ForNext == CallerStep \/ (\E t \in Threads : ThreadStep(t)) \/ ForOver

ForSpec == ForInit /\ [][ForNext]_parallelForVars

\* What a thread does by itself: the function that is called returns, and threads that can go on
\* do so (weak fairness of these steps and of CallerStep, in MCThreads).  Nothing is assumed of
\* spurious wakeups.
OwnStep(t) ==
  \/ TakeIteration(t) \/ NoIteration(t) \/ CallFunction(t) \/ FunctionReturns(t)
  \/ LastAtBarrier(t) \/ EarlyAtBarrier(t) \/ LeaveBarrier(t)
  \/ (pc[t] = "barrier" /\ SleepOn(t) /\ UNCHANGED forVars)
  \/ WaitForTasks(t) \/ TestStop(t)

(***************************************************************************)
(* Properties.                                                             *)
(***************************************************************************)

\* Types of the state.  The barrier's count does not get to zero, and _current
\* not past _end, from where it would go on for ever.
ForTypeOK ==
  /\ count \in 1 .. n /\ cycle \in Nat
  /\ seen \in [Threads -> Nat]
  /\ waiting \in [Threads -> {"out", "asleep", "awake"}]
  /\ pc \in [Threads -> Places]
  /\ end \in Lengths \cup {0} /\ current \in 0 .. end
  /\ hasTasks \in BOOLEAN /\ stop \in BOOLEAN
  /\ function \in Nat /\ runs \in Nat
  /\ iter \in [Threads -> [index : Nat, of : Nat]]

\* What the caller of Run sees of it.
InRun == pc[Caller] \notin {"idle", "started", "join", "gone"}
NotCalled == {iter[t].index : t \in {u \in Threads : pc[u] \in {"ready", "single"}}} \cup (current + 1 .. end)
BeingCalled ==
  {<<iter[t].of, iter[t].index>> : t \in {u \in Threads : pc[u] \in {"call", "singleCall"}}}

Loop == INSTANCE ForLoop WITH running <- InRun, todo <- NotCalled, active <- BeingCalled

\* Every call of Run calls its own function (which is read without the lock)
\* once with each iteration, and returns when all those calls have returned.
LoopRefinement == Loop!LoopSpec

\* The completion function writes _hasTasks under the mutex of the barrier, and
\* waitForTasks reads it under that of the loop: that is sound because all other
\* threads are in the barrier when it is written.
HasTasksNotShared ==
  \A t \in Threads : pc[t] = "arrive" /\ count = 1 =>
    \A u \in Threads \ {t} : pc[u] = "barrier"

\* The destructor finds no thread that it cannot join.
AllGone == \A t \in Threads : pc[t] \in {"gone", "none"}
=============================================================================
