-------------------------- MODULE ParallelForProofs --------------------------
(***************************************************************************)
(* Proofs about the barrier and about ParallelFor, for any number of       *)
(* threads, rounds and runs and ranges of any size: nobody passes the      *)
(* barrier alone and its count never wraps around; _hasTasks is not        *)
(* written while another thread may read it; and Run calls its function as *)
(* its documentation says.                                                 *)
(***************************************************************************)
EXTENDS BarrierRounds, ParallelFor, FiniteSetTheorems, TLAPS

\* The number of threads is a positive number, and so finite is every set of them.
LEMMA ThreadCount ==
  /\ n \in Nat \ {0}
  /\ \A S \in SUBSET Threads : IsFiniteSet(S) /\ Cardinality(S) \in Nat /\ Cardinality(S) <= n
<1>1. IsFiniteSet(Threads) /\ Threads # {}  BY ThreadsAssumption DEF ThreadsAssumption
<1>2. Cardinality(Threads) \in Nat /\ Cardinality(Threads) # 0  BY <1>1, FS_CardinalityType, FS_EmptySet
<1>3. ASSUME NEW S \in SUBSET Threads
      PROVE IsFiniteSet(S) /\ Cardinality(S) \in Nat /\ Cardinality(S) <= Cardinality(Threads)
  BY <1>1, FS_Subset, FS_CardinalityType
<1> QED BY <1>2, <1>3 DEF n

----
\* The barrier alone.  count is the number of threads that have still to
\* arrive in this round.  Those that have arrived sleep (or have woken up
\* in vain); the others are out of wait(), or have not yet found out that
\* the round before is over.
Arrivals == {t \in Threads : called[t] = cycle + 1}

InWait(t) ==
  /\ waiting[t] \in {"asleep", "awake"}
  /\ seen[t] = cycle /\ returned[t] = cycle

NotYet(t) ==
  /\ called[t] = cycle
  /\ \/ waiting[t] = "out" /\ returned[t] = cycle
     \/ waiting[t] = "awake" /\ returned[t] = cycle - 1 /\ seen[t] = cycle - 1

Rounds ==
  /\ MeetTypeOK
  /\ count = n - Cardinality(Arrivals)
  /\ \A t \in Threads : IF called[t] = cycle + 1 THEN InWait(t) ELSE NotYet(t)

\* At first nobody has arrived.
LEMMA RoundsInit == MeetInit => Rounds
<1> SUFFICES ASSUME MeetInit PROVE Rounds OBVIOUS
<1> USE DEF MeetInit, BarrierInit
<1>1. MeetTypeOK BY ThreadCount DEF MeetTypeOK
<1>2. Arrivals = {} BY DEF Arrivals
<1>3. Cardinality(Arrivals) = 0 BY <1>2, FS_EmptySet
<1>4. \A t \in Threads : called[t] # cycle + 1 /\ NotYet(t) BY DEF NotYet
<1> QED BY <1>1, <1>3, <1>4, ThreadCount DEF Rounds

\* The thread that arrives last finds all others in wait().
LEMMA LastFindsAllArrived ==
  ASSUME Rounds, NEW t \in Threads, count = 1, waiting[t] = "out"
  PROVE  /\ called[t] = cycle /\ returned[t] = cycle
         /\ \A u \in Threads \ {t} : called[u] = cycle + 1
<1>1. called[t] # cycle + 1 /\ called[t] = cycle /\ returned[t] = cycle  BY DEF Rounds, InWait, NotYet, MeetTypeOK
<1>2. Arrivals \in SUBSET Threads /\ t \notin Arrivals BY <1>1 DEF Arrivals
<1>3. IsFiniteSet(Arrivals) /\ Cardinality(Arrivals) \in Nat BY <1>2, ThreadCount
<1>4. Cardinality(Arrivals) = n - 1 BY <1>3, ThreadCount DEF Rounds
<1>5. Cardinality(Arrivals \cup {t}) = Cardinality(Arrivals) + 1  BY <1>2, <1>3, FS_AddElement
<1>6. Cardinality(Arrivals \cup {t}) = Cardinality(Threads)  BY <1>4, <1>5, ThreadCount DEF n
<1>7. Arrivals \cup {t} = Threads  BY <1>2, <1>6, ThreadsAssumption, FS_Subset DEF ThreadsAssumption
<1> QED BY <1>1, <1>7 DEF Arrivals

\* A step of a thread that has arrived before, or has left, changes no count.
LEMMA SameRounds ==
  ASSUME Rounds, UNCHANGED <<called, cycle, count>>, MeetTypeOK',
         \A u \in Threads : (IF called[u] = cycle + 1 THEN InWait(u) ELSE NotYet(u))'
  PROVE  Rounds'
<1>1. Arrivals' = Arrivals BY DEF Arrivals
<1>2. count' = (n - Cardinality(Arrivals))'  BY <1>1 DEF Rounds, n
<1> QED BY <1>2 DEF Rounds

\* The invariant is kept by every step.
LEMMA RoundsNext == Rounds /\ [MeetNext]_meetVars => Rounds'
<1> SUFFICES ASSUME Rounds, [MeetNext]_meetVars PROVE Rounds' OBVIOUS
<1>a. n \in Nat \ {0} BY ThreadCount
<1>b. MeetTypeOK BY DEF Rounds
<1>1. ASSUME NEW t \in Threads, CallLast(t) PROVE Rounds'
  <2> USE DEF CallLast, ArriveLast
  <2>1. /\ called[t] = cycle /\ returned[t] = cycle
        /\ \A u \in Threads \ {t} : called[u] = cycle + 1  BY <1>1, LastFindsAllArrived
  <2>2. MeetTypeOK' BY <1>1, <1>a, <1>b DEF MeetTypeOK, FullCount, WakeAll, Plus1, n
  <2>3. \A u \in Threads : called'[u] = cycle'  BY <1>1, <1>b, <2>1 DEF MeetTypeOK, Plus1
  <2>4. Arrivals' = {} BY <2>2, <2>3 DEF Arrivals, MeetTypeOK
  <2>5. count' = n - Cardinality(Arrivals')  BY <1>1, <1>a, <2>4, FS_EmptySet DEF FullCount
  <2>6. NotYet(t)'  BY <1>1, <1>b, <2>1, <2>3 DEF NotYet, MeetTypeOK, Plus1, WakeAll
  <2>7. ASSUME NEW u \in Threads, u # t PROVE NotYet(u)'
    <3>1. InWait(u) BY <2>1, <2>7 DEF Rounds
    <3> QED BY <1>1, <1>b, <2>3, <2>7, <3>1 DEF InWait, NotYet, MeetTypeOK, Plus1, WakeAll
  <2> QED BY <2>2, <2>3, <2>5, <2>6, <2>7 DEF Rounds, n, MeetTypeOK
<1>2. ASSUME NEW t \in Threads, CallEarly(t) PROVE Rounds'
  <2> USE DEF CallEarly, ArriveEarly
  <2>1. called[t] = cycle /\ called[t] # cycle + 1 /\ returned[t] = cycle
    BY <1>2 DEF Rounds, InWait, NotYet, MeetTypeOK
  <2>2. MeetTypeOK' BY <1>2, <1>a, <1>b DEF MeetTypeOK, Plus1, n
  <2>3. Arrivals' = Arrivals \cup {t} /\ t \notin Arrivals /\ Arrivals \in SUBSET Threads
    BY <1>2, <1>b, <2>1 DEF Arrivals, MeetTypeOK, Plus1
  <2>4. Cardinality(Arrivals') = Cardinality(Arrivals) + 1 /\ Cardinality(Arrivals) \in Nat
    BY <2>3, ThreadCount, FS_AddElement
  <2>5. count' = n - Cardinality(Arrivals')  BY <1>2, <1>a, <2>4 DEF Rounds
  <2>6. called'[t] = cycle' + 1 /\ InWait(t)'  BY <1>2, <1>b, <2>1 DEF InWait, MeetTypeOK, Plus1
  <2>7. ASSUME NEW u \in Threads, u # t PROVE (IF called[u] = cycle + 1 THEN InWait(u) ELSE NotYet(u))'
    BY <1>2, <1>b, <2>7 DEF Rounds, InWait, NotYet, MeetTypeOK, Plus1
  <2> QED BY <2>2, <2>5, <2>6, <2>7 DEF Rounds, n
<1>3. ASSUME NEW t \in Threads, Return(t) PROVE Rounds'
  <2> USE DEF Return, Leave, CycleEnded
  <2>1. called[t] # cycle + 1 /\ called[t] = cycle /\ returned[t] = cycle - 1  BY <1>3 DEF Rounds, InWait, NotYet
  <2>2. MeetTypeOK' BY <1>3, <1>b DEF MeetTypeOK, Plus1, n
  <2>3. ASSUME NEW u \in Threads PROVE (IF called[u] = cycle + 1 THEN InWait(u) ELSE NotYet(u))'
    BY <1>3, <1>b, <2>1 DEF Rounds, InWait, NotYet, MeetTypeOK, Plus1
  <2> QED BY <1>3, <2>2, <2>3, SameRounds
<1>4. ASSUME NEW t \in Threads, KeepWaiting(t) PROVE Rounds'
  <2> USE DEF KeepWaiting, SleepOn, SpuriousWakeup, CycleEnded, historyVars
  <2>1. called[t] = cycle + 1 /\ InWait(t)  BY <1>4, <1>b DEF Rounds, NotYet, MeetTypeOK
  <2>2. MeetTypeOK' BY <1>4, <1>b DEF MeetTypeOK, n
  <2>3. ASSUME NEW u \in Threads PROVE (IF called[u] = cycle + 1 THEN InWait(u) ELSE NotYet(u))'
    BY <1>4, <1>b, <2>1 DEF Rounds, InWait, NotYet, MeetTypeOK
  <2> QED BY <1>4, <2>2, <2>3, SameRounds
<1>5. CASE UNCHANGED meetVars
  <2> USE DEF meetVars, barrierVars, historyVars
  <2>1. MeetTypeOK' BY <1>5, <1>b DEF MeetTypeOK, n
  <2>2. \A u \in Threads : (IF called[u] = cycle + 1 THEN InWait(u) ELSE NotYet(u))'
    BY <1>5 DEF Rounds, InWait, NotYet
  <2> QED BY <1>5, <2>1, <2>2, SameRounds
<1> QED BY <1>1, <1>2, <1>3, <1>4, <1>5 DEF MeetNext, MeetOver

\* Whoever has returned from a round did so at most in the current one, in which
\* everybody has at least ended the round before.
LEMMA RoundsImplyBarrier == Rounds => NobodyPassesAlone
<1> SUFFICES ASSUME Rounds, NEW t \in Threads, NEW u \in Threads PROVE returned[t] <= called[u]
  BY DEF NobodyPassesAlone
<1>1. cycle \in Nat /\ called[u] \in Nat /\ returned[t] \in Nat BY DEF Rounds, MeetTypeOK
<1>2. returned[t] <= cycle BY <1>1 DEF Rounds, InWait, NotYet
<1>3. cycle <= called[u] BY <1>1 DEF Rounds, NotYet
<1> QED BY <1>1, <1>2, <1>3

\* The barrier's state is well-typed; _count stays between 1 and n
\* (barrier.h, wait), so that it cannot wrap around.
THEOREM BarrierTypeOK == MeetSpec => []MeetTypeOK
<1>1. Rounds => MeetTypeOK BY DEF Rounds
<1> QED BY RoundsInit, RoundsNext, <1>1, PTL DEF MeetSpec

\* No thread returns from its k-th wait() before all threads have called wait()
\* k times (barrier.h, wait), whatever wakeups there are.
THEOREM BarrierHolds == MeetSpec => []NobodyPassesAlone
BY RoundsInit, RoundsNext, RoundsImplyBarrier, PTL DEF MeetSpec

----
\* ParallelFor.

\* As for the barrier alone, count is the number of threads that have still to arrive.
InRound(t) == pc[t] = "barrier" /\ seen[t] = cycle
Arrived == {t \in Threads : InRound(t)}

BarrierPlace(t) ==
  IF pc[t] = "barrier"
  THEN waiting[t] \in {"asleep", "awake"} /\ (seen[t] # cycle => waiting[t] = "awake")
  ELSE waiting[t] = "out"

Counted ==
  /\ count = n - Cardinality(Arrived)
  /\ \A t \in Threads : BarrierPlace(t)

\* A thread that has no part in a loop: it waits for one, or has still to leave the barrier.
Resting(t) == pc[t] \in {"none", "tasks", "asleep"} \/ (pc[t] = "barrier" /\ ~ InRound(t))

\* Between the loops, and while a range of one is called without the threads, nobody else takes part.
Between ==
  /\ ~ stop /\ current = end
  /\ \A t \in OtherThreads : Resting(t)
  /\ \/ pc[Caller] \in {"idle", "started", "gone"}
     \/ pc[Caller] = "barrier" /\ ~ InRound(Caller)
     \/ pc[Caller] \in {"single", "singleCall", "singleDone"} /\ iter[Caller] = [index |-> 1, of |-> runs]

\* In a loop, whoever gets to the barrier has found no iteration left.
Within ==
  /\ function = runs
  /\ pc[Caller] \in {"loop", "ready", "call", "arrive"} \/ InRound(Caller)
  /\ \A t \in OtherThreads : pc[t] \in {"tasks", "asleep", "barrier", "test", "loop", "ready", "call", "arrive"}
  /\ \A t \in Threads : pc[t] = "arrive" \/ InRound(t) => current = end

\* When the object is destructed the others only look at _stop.
Stopping ==
  /\ current = end
  /\ pc[Caller] \in {"join", "gone"}
  /\ \A t \in OtherThreads : Resting(t) \/ pc[t] \in {"test", "gone"}

\* The iterations that threads hold are taken from the range, and differ.
Busy == {t \in Threads : pc[t] \in {"ready", "call"}}
Taken ==
  /\ \A t \in Busy : iter[t].index \in 1 .. current
  /\ \A t, u \in Busy : iter[t].index = iter[u].index => t = u
  /\ \A t \in Busy : pc[t] = "call" => iter[t].of = function

Phases ==
  /\ ~ hasTasks => Between
  /\ hasTasks /\ ~ stop => Within
  /\ stop => Stopping
  /\ (\E t \in OtherThreads : pc[t] = "none") => \A t \in OtherThreads : pc[t] = "none"

ForInv == ForTypeOK /\ Counted /\ Phases /\ Taken

\* The thread that finds count at one is the only one that is not in this round's wait().
LEMMA LastFindsOthers ==
  ASSUME Counted, NEW t \in Threads, count = 1, pc[t] # "barrier"
  PROVE  \A u \in Threads \ {t} : InRound(u)
<1>1. Arrived \in SUBSET Threads /\ t \notin Arrived BY DEF Arrived, InRound
<1>2. IsFiniteSet(Arrived) /\ Cardinality(Arrived) \in Nat BY <1>1, ThreadCount
<1>3. Cardinality(Arrived) = n - 1 BY <1>2, ThreadCount DEF Counted
<1>4. Cardinality(Arrived \cup {t}) = Cardinality(Arrived) + 1 BY <1>1, <1>2, FS_AddElement
<1>5. Cardinality(Arrived \cup {t}) = Cardinality(Threads) BY <1>3, <1>4, ThreadCount DEF n
<1>6. Arrived \cup {t} = Threads  BY <1>1, <1>5, ThreadsAssumption, FS_Subset DEF ThreadsAssumption
<1> QED BY <1>6 DEF Arrived

LEMMA ForInvInit == ForInit => ForInv
<1> SUFFICES ASSUME ForInit PROVE ForInv OBVIOUS
<1> USE DEF ForInit, BarrierInit
<1>n. n \in Nat \ {0} BY ThreadCount
<1>1. ForTypeOK
  <2>1. count \in 1 .. n /\ cycle \in Nat BY <1>n
  <2>2. seen \in [Threads -> Nat] /\ waiting \in [Threads -> {"out", "asleep", "awake"}] OBVIOUS
  <2>3. pc \in [Threads -> Places] BY DEF Places
  <2>4. end \in Lengths \cup {0} /\ current \in 0 .. end /\ function \in Nat /\ runs \in Nat OBVIOUS
  <2>5. iter \in [Threads -> [index : Nat, of : Nat]] OBVIOUS
  <2> QED BY <2>1, <2>2, <2>3, <2>4, <2>5 DEF ForTypeOK
<1>2. Arrived = {} BY DEF Arrived, InRound
<1>3. Cardinality(Arrived) = 0 BY <1>2, FS_EmptySet
<1>4. Counted BY <1>3, ThreadCount DEF Counted, BarrierPlace
<1>5. Phases  BY CallerAssumption DEF Phases, Between, Resting, OtherThreads
<1>6. Taken BY DEF Taken, Busy
<1> QED BY <1>1, <1>4, <1>5, <1>6 DEF ForInv

\* A step in which nobody comes to the barrier or leaves it.
LEMMA SameArrivals ==
  ASSUME Counted, UNCHANGED barrierVars,
         \A t \in Threads : pc'[t] = "barrier" <=> pc[t] = "barrier"
  PROVE  Counted' /\ \A t \in Threads : InRound(t)' <=> InRound(t)
<1>1. \A t \in Threads : InRound(t)' <=> InRound(t) BY DEF InRound, barrierVars
<1>2. Arrived' = Arrived BY <1>1 DEF Arrived
<1>3. count' = (n - Cardinality(Arrived))' BY <1>2 DEF Counted, n, barrierVars
<1>4. \A t \in Threads : BarrierPlace(t)' BY DEF Counted, BarrierPlace, barrierVars
<1> QED BY <1>1, <1>3, <1>4 DEF Counted

\* The calls of Run and of the destructor.
LEMMA CallerKeepsInv == ASSUME ForInv, CallerStep PROVE ForInv'
<1> USE CallerAssumption DEF ForInv
<1>t. ForTypeOK BY DEF ForInv
<1>o. OtherThreads = Threads \ {Caller} BY DEF OtherThreads
<1>b. \* outside the loops
      ASSUME pc[Caller] \in {"idle", "started", "single", "singleCall", "singleDone"}
      PROVE  ~ hasTasks /\ ~ stop /\ Between  BY <1>b, <1>t DEF Phases, Within, Between, Stopping, ForTypeOK, InRound
<1>1. CASE RunSingle
  <2> USE DEF RunSingle, Goto
  <2>1. ForTypeOK' BY <1>1, <1>t DEF ForTypeOK, Places, barrierVars, n
  <2>2. Counted' /\ \A t \in Threads : InRound(t)' <=> InRound(t)  BY <1>1, <1>t, SameArrivals DEF ForTypeOK
  <2>3. Between' /\ Taken'  BY <1>1, <1>t, <1>o, <1>b, <2>2 DEF Between, Resting, Taken, Busy, ForTypeOK
  <2>4. Phases' BY <1>1, <1>t, <1>o, <1>b, <2>3 DEF Phases, ForTypeOK
  <2> QED BY <2>1, <2>2, <2>3, <2>4
<1>2. CASE ContinueSingle
  <2> USE DEF ContinueSingle, Goto, AfterSingle
  <2>1. pc[Caller] \in {"single", "singleCall", "singleDone"} /\ AfterSingle[pc[Caller]] \in {"singleCall", "singleDone", "idle"}
    BY <1>2
  <2>2. ForTypeOK' BY <1>2, <1>t, <2>1 DEF ForTypeOK, Places, barrierVars, n
  <2>3. Counted' /\ \A t \in Threads : InRound(t)' <=> InRound(t)  BY <1>2, <1>t, <2>1, SameArrivals DEF ForTypeOK
  <2>4. Between' /\ Taken'  BY <1>2, <1>t, <1>o, <1>b, <2>1, <2>3 DEF Between, Resting, Taken, Busy, ForTypeOK
  <2>5. Phases' BY <1>2, <1>t, <1>o, <1>b, <2>1, <2>4 DEF Phases, ForTypeOK
  <2> QED BY <2>2, <2>3, <2>4, <2>5
<1>3. CASE StartThreads
  <2> USE DEF StartThreads
  <2>1. \A t \in OtherThreads : pc[t] = "none"  BY <1>3, <1>o DEF Phases
  <2>2. ForTypeOK' BY <1>3, <1>t DEF ForTypeOK, Places, barrierVars, n
  <2>3. Counted' /\ \A t \in Threads : InRound(t)' <=> InRound(t)
    BY <1>3, <1>t, <1>o, <2>1, SameArrivals DEF ForTypeOK
  <2>4. Between' /\ Taken'  BY <1>3, <1>t, <1>o, <1>b, <2>1, <2>3 DEF Between, Resting, Taken, Busy, ForTypeOK
  <2>5. Phases' BY <1>3, <1>t, <1>o, <1>b, <2>4 DEF Phases, ForTypeOK
  <2> QED BY <2>2, <2>3, <2>4, <2>5
<1>4. ASSUME NEW length \in Lengths, RunMany(length) PROVE ForInv'
  <2> USE DEF RunMany, Notified
  <2>1. ForTypeOK' BY <1>4, <1>t, LengthsAssumption DEF ForTypeOK, Places, barrierVars, n, LengthsAssumption
  <2>2. Counted' /\ \A t \in Threads : InRound(t)' <=> InRound(t)  BY <1>4, <1>t, SameArrivals DEF ForTypeOK
  <2>3. \A t \in OtherThreads : pc'[t] \in {"tasks", "barrier"} /\ ~ InRound(t)'
    BY <1>4, <1>t, <1>o, <1>b, <2>2 DEF Between, Resting, InRound, ForTypeOK
  <2>4. Within' /\ Busy' = {}  BY <1>4, <1>t, <1>o, <2>3 DEF Within, InRound, Busy, ForTypeOK
  <2>5. Taken' BY <2>4 DEF Taken
  <2>6. Phases' BY <1>4, <1>t, <1>o, <1>b, <2>3, <2>4 DEF Phases, ForTypeOK
  <2> QED BY <2>1, <2>2, <2>5, <2>6
<1>5. CASE Destruct
  <2> USE DEF Destruct, Goto, Notified
  <2>1. ForTypeOK' BY <1>5, <1>t DEF ForTypeOK, Places, barrierVars, n
  <2>2. Counted' /\ \A t \in Threads : InRound(t)' <=> InRound(t)  BY <1>5, <1>t, SameArrivals DEF ForTypeOK
  <2>3. Taken' BY <1>5, <1>t, <1>o, <1>b DEF Between, Resting, Taken, Busy, ForTypeOK
  <2>4. CASE \A t \in OtherThreads : pc[t] = "none"
    <3>1. Between'  BY <1>5, <1>t, <1>o, <1>b, <2>2, <2>4 DEF Between, Resting, ForTypeOK
    <3>2. Phases' BY <1>5, <1>t, <1>o, <1>b, <2>4, <3>1 DEF Phases, ForTypeOK
    <3> QED BY <2>1, <2>2, <2>3, <3>2
  <2>5. CASE ~ \A t \in OtherThreads : pc[t] = "none"
    <3>1. Stopping'  BY <1>5, <1>t, <1>o, <1>b, <2>2, <2>5 DEF Between, Stopping, Resting, ForTypeOK
    <3>2. Phases' BY <1>5, <1>t, <1>o, <1>b, <2>5, <3>1 DEF Phases, ForTypeOK
    <3> QED BY <2>1, <2>2, <2>3, <3>2
  <2> QED BY <2>4, <2>5
<1>6. CASE Join
  <2> USE DEF Join, Goto
  <2>1. ForTypeOK' BY <1>6, <1>t DEF ForTypeOK, Places, barrierVars, n
  <2>2. Counted' /\ \A t \in Threads : InRound(t)' <=> InRound(t)  BY <1>6, <1>t, SameArrivals DEF ForTypeOK
  <2>3. stop /\ Stopping  BY <1>6, <1>t DEF Phases, Within, Between, InRound, ForTypeOK
  <2>4. Stopping' /\ Taken'  BY <1>6, <1>t, <1>o, <2>2, <2>3 DEF Stopping, Resting, Taken, Busy, ForTypeOK
  <2>5. Phases' BY <1>6, <1>t, <1>o, <2>3, <2>4 DEF Phases, Between, ForTypeOK
  <2> QED BY <2>1, <2>2, <2>4, <2>5
<1> QED BY <1>1, <1>2, <1>3, <1>4, <1>5, <1>6 DEF CallerStep

\* A step of the barrier that changes no round: only where a thread is in wait().
LEMMA SameRound ==
  ASSUME Counted, UNCHANGED <<count, cycle, seen>>,
         \A t \in Threads : BarrierPlace(t)' /\ (InRound(t)' <=> InRound(t))
  PROVE  Counted'
<1>1. Arrived' = Arrived BY DEF Arrived
<1> QED BY <1>1 DEF Counted, n

\* A thread that goes through the loop.
LEMMA LoopKeepsInv ==
  ASSUME ForInv, NEW t \in Threads,
         TakeIteration(t) \/ NoIteration(t) \/ CallFunction(t) \/ FunctionReturns(t)
  PROVE  ForInv'
<1> USE CallerAssumption DEF ForInv
<1>t. ForTypeOK BY DEF ForInv
<1>o. OtherThreads = Threads \ {Caller} BY DEF OtherThreads
<1>w. hasTasks /\ ~ stop /\ Within  BY <1>t, <1>o DEF Phases, Between, Stopping, Resting, ForTypeOK,
     TakeIteration, NoIteration, CallFunction, FunctionReturns
<1>p. ASSUME Within', UNCHANGED <<hasTasks, stop>>, \A u \in OtherThreads : pc'[u] # "none" PROVE Phases'
  BY <1>p, <1>w DEF Phases
<1>1. CASE TakeIteration(t)
  <2> USE DEF TakeIteration, Goto, Increment
  <2>a. end \in Nat BY <1>t, LengthsAssumption DEF ForTypeOK, LengthsAssumption
  <2>d. current \in 0 .. end /\ current # end /\ current' = current + 1 /\ end' = end BY <1>1, <1>t DEF ForTypeOK
  <2>b. current' \in 0 .. end' /\ current + 1 \in Nat BY <2>a, <2>d
  <2>c. iter' \in [Threads -> [index : Nat, of : Nat]] BY <1>1, <1>t, <2>b DEF ForTypeOK
  <2>1. ForTypeOK' BY <1>1, <1>t, <2>b, <2>c DEF ForTypeOK, Places, barrierVars, n
  <2>2. Counted' /\ \A u \in Threads : InRound(u)' <=> InRound(u)  BY <1>1, <1>t, SameArrivals DEF ForTypeOK
  <2>3. Within' BY <1>1, <1>t, <1>o, <1>w, <2>2 DEF Within, ForTypeOK
  <2>4. current \in Nat BY <1>t, LengthsAssumption DEF ForTypeOK, LengthsAssumption
  <2>5. Taken' BY <1>1, <1>t, <2>4 DEF Taken, Busy, ForTypeOK
  <2>6. Phases' BY <1>1, <1>p, <2>3 DEF Within
  <2> QED BY <2>1, <2>2, <2>5, <2>6
<1>2. CASE NoIteration(t)
  <2> USE DEF NoIteration, Goto, AfterLoop
  <2>1. ForTypeOK' BY <1>2, <1>t DEF ForTypeOK, Places, barrierVars, n
  <2>2. Counted' /\ \A u \in Threads : InRound(u)' <=> InRound(u)  BY <1>2, <1>t, SameArrivals DEF ForTypeOK
  <2>3. Within' BY <1>2, <1>t, <1>o, <1>w, <2>2 DEF Within, ForTypeOK
  <2>4. Taken' BY <1>2, <1>t DEF Taken, Busy, ForTypeOK
  <2>5. Phases' BY <1>2, <1>p, <2>3 DEF Within
  <2> QED BY <2>1, <2>2, <2>4, <2>5
<1>3. CASE CallFunction(t)
  <2> USE DEF CallFunction, Goto
  <2>1. ForTypeOK' BY <1>3, <1>t DEF ForTypeOK, Places, barrierVars, n
  <2>2. Counted' /\ \A u \in Threads : InRound(u)' <=> InRound(u)  BY <1>3, <1>t, SameArrivals DEF ForTypeOK
  <2>3. Within' BY <1>3, <1>t, <1>o, <1>w, <2>2 DEF Within, ForTypeOK
  <2>4. Taken' BY <1>3, <1>t DEF Taken, Busy, ForTypeOK
  <2>5. Phases' BY <1>3, <1>p, <2>3 DEF Within
  <2> QED BY <2>1, <2>2, <2>4, <2>5
<1>4. CASE FunctionReturns(t)
  <2> USE DEF FunctionReturns, Goto
  <2>1. ForTypeOK' BY <1>4, <1>t DEF ForTypeOK, Places, barrierVars, n
  <2>2. Counted' /\ \A u \in Threads : InRound(u)' <=> InRound(u)  BY <1>4, <1>t, SameArrivals DEF ForTypeOK
  <2>3. Within' BY <1>4, <1>t, <1>o, <1>w, <2>2 DEF Within, ForTypeOK
  <2>4. Taken' BY <1>4, <1>t DEF Taken, Busy, ForTypeOK
  <2>5. Phases' BY <1>4, <1>p, <2>3 DEF Within
  <2> QED BY <2>1, <2>2, <2>4, <2>5
<1> QED BY <1>1, <1>2, <1>3, <1>4

\* A thread at the barrier.
LEMMA BarrierKeepsInv ==
  ASSUME ForInv, NEW t \in Threads,
         LastAtBarrier(t) \/ EarlyAtBarrier(t) \/ LeaveBarrier(t) \/ StayAtBarrier(t)
  PROVE  ForInv'
<1> USE CallerAssumption DEF ForInv
<1>t. ForTypeOK BY DEF ForInv
<1>o. OtherThreads = Threads \ {Caller} BY DEF OtherThreads
<1>n. n \in Nat \ {0} BY ThreadCount
<1>w. ASSUME pc[t] = "arrive" PROVE hasTasks /\ ~ stop /\ Within
  BY <1>w, <1>t, <1>o DEF Phases, Between, Stopping, Resting, ForTypeOK
<1>1. CASE LastAtBarrier(t)
  <2> USE DEF LastAtBarrier, ArriveLast, Goto, FullCount, CompletionFunction, AfterBarrier
  <2>1. \A u \in Threads \ {t} : InRound(u) BY <1>1, LastFindsOthers
  <2>a. count' \in 1 .. n /\ cycle' \in Nat BY <1>1, <1>t, <1>n DEF ForTypeOK
  <2>b. n' = n BY DEF n
  <2>2. ForTypeOK' BY <1>1, <1>t, <2>a, <2>b DEF ForTypeOK, Places, WakeAll
  <2>3. \A u \in Threads : ~ InRound(u)' BY <1>1, <1>t, <2>1 DEF InRound, ForTypeOK
  <2>4. Arrived' = {} BY <2>3 DEF Arrived
  <2>5. Cardinality(Arrived') = 0 BY <2>4, FS_EmptySet
  <2>6. count' = n - Cardinality(Arrived') BY <1>1, <1>n, <2>5
  <2>7. \A u \in Threads : BarrierPlace(u)'
    BY <1>1, <1>t, <2>1 DEF Counted, BarrierPlace, InRound, WakeAll, ForTypeOK
  <2>8. Between'  BY <1>1, <1>t, <1>o, <1>w, <2>1, <2>3 DEF Between, Within, Resting, InRound, ForTypeOK
  <2>9. \A u \in OtherThreads : pc'[u] # "none"  BY <1>1, <1>t, <1>o, <2>1 DEF InRound, ForTypeOK
  <2>10. Phases' BY <1>1, <1>w, <2>8, <2>9 DEF Phases
  <2>11. Taken' BY <1>1, <1>t, <2>1 DEF Taken, Busy, InRound, ForTypeOK
  <2> QED BY <2>2, <2>6, <2>7, <2>10, <2>11 DEF Counted, n
<1>2. CASE EarlyAtBarrier(t)
  <2> USE DEF EarlyAtBarrier, ArriveEarly, Goto
  <2>1. Arrived' = Arrived \cup {t} /\ t \notin Arrived /\ Arrived \in SUBSET Threads
    BY <1>2, <1>t DEF Arrived, InRound, ForTypeOK
  <2>2. Cardinality(Arrived') = Cardinality(Arrived) + 1 /\ Cardinality(Arrived) \in Nat
    BY <2>1, ThreadCount, FS_AddElement
  <2>3. count' = n - Cardinality(Arrived') BY <1>2, <1>n, <2>2 DEF Counted
  <2>4. ForTypeOK' BY <1>2, <1>t, <1>n DEF ForTypeOK, Places, n
  <2>5. \A u \in Threads : BarrierPlace(u)' BY <1>2, <1>t DEF Counted, BarrierPlace, ForTypeOK
  <2>6. \A u \in Threads \ {t} : InRound(u)' <=> InRound(u) BY <1>2, <1>t DEF InRound, ForTypeOK
  <2>7. InRound(t)' BY <1>2, <1>t DEF InRound, ForTypeOK
  <2>8. Within' BY <1>2, <1>t, <1>o, <1>w, <2>6, <2>7 DEF Within, ForTypeOK
  <2>9. Taken' BY <1>2, <1>t DEF Taken, Busy, ForTypeOK
  <2>10. Phases' BY <1>2, <1>w, <2>8 DEF Phases, Within
  <2> QED BY <2>3, <2>4, <2>5, <2>9, <2>10 DEF Counted, n
<1>3. CASE LeaveBarrier(t)
  <2> USE DEF LeaveBarrier, Leave, Goto, AfterBarrier, CycleEnded
  <2>1. ForTypeOK' BY <1>3, <1>t DEF ForTypeOK, Places, n
  <2>2. \A u \in Threads : BarrierPlace(u)' /\ (InRound(u)' <=> InRound(u))
    BY <1>3, <1>t DEF Counted, BarrierPlace, InRound, ForTypeOK
  <2>3. Counted' BY <1>3, <2>2, SameRound
  <2>4. Between => Between'  BY <1>3, <1>t, <1>o, <2>2 DEF Between, Resting, ForTypeOK
  <2>5. Within => Within'  BY <1>3, <1>t, <1>o, <2>2 DEF Within, InRound, ForTypeOK
  <2>6. Stopping => Stopping'  BY <1>3, <1>t, <1>o, <2>2 DEF Stopping, Resting, ForTypeOK
  <2>7. Taken' BY <1>3, <1>t DEF Taken, Busy, ForTypeOK
  <2>8. Phases' BY <1>3, <1>t, <1>o, <2>4, <2>5, <2>6 DEF Phases, ForTypeOK
  <2> QED BY <2>1, <2>3, <2>7, <2>8
<1>4. CASE StayAtBarrier(t)
  <2> USE DEF StayAtBarrier, SleepOn, SpuriousWakeup, CycleEnded, forVars
  <2>1. ForTypeOK' BY <1>4, <1>t DEF ForTypeOK, Places, n
  <2>2. \A u \in Threads : BarrierPlace(u)' /\ (InRound(u)' <=> InRound(u))
    BY <1>4, <1>t DEF Counted, BarrierPlace, InRound, ForTypeOK
  <2>3. Counted' BY <1>4, <2>2, SameRound
  <2>4. (Between' <=> Between) /\ (Within' <=> Within) /\ (Stopping' <=> Stopping)
    BY <1>4, <1>o, <2>2 DEF Between, Within, Stopping, Resting, OtherThreads
  <2>5. Taken' BY <1>4 DEF Taken, Busy
  <2>6. Phases' BY <1>4, <2>4 DEF Phases, OtherThreads
  <2> QED BY <2>1, <2>3, <2>5, <2>6
<1> QED BY <1>1, <1>2, <1>3, <1>4

\* A thread that waits for a loop, or for the end.
LEMMA WaitingKeepsInv ==
  ASSUME ForInv, NEW t \in Threads, WaitForTasks(t) \/ WakeUpSpuriously(t) \/ TestStop(t)
  PROVE  ForInv'
<1> USE CallerAssumption DEF ForInv
<1>t. ForTypeOK BY DEF ForInv
<1>o. OtherThreads = Threads \ {Caller} BY DEF OtherThreads
<1>c. t # Caller
  BY <1>t DEF Phases, Between, Within, Stopping, InRound, ForTypeOK, WaitForTasks, WakeUpSpuriously, TestStop
<1>1. CASE WaitForTasks(t)
  <2> USE DEF WaitForTasks, Goto
  <2>1. ForTypeOK' BY <1>1, <1>t DEF ForTypeOK, Places, barrierVars, n
  <2>2. Counted' /\ \A u \in Threads : InRound(u)' <=> InRound(u)  BY <1>1, <1>t, SameArrivals DEF ForTypeOK
  <2>3. ~ hasTasks /\ Between => Between'  BY <1>1, <1>t, <1>o, <1>c, <2>2 DEF Between, Resting, ForTypeOK
  <2>4. hasTasks /\ Within => Within'  BY <1>1, <1>t, <1>o, <1>c, <2>2 DEF Within, ForTypeOK
  <2>5. Stopping => Stopping'  BY <1>1, <1>t, <1>o, <1>c, <2>2 DEF Stopping, Resting, ForTypeOK
  <2>6. Taken' BY <1>1, <1>t DEF Taken, Busy, ForTypeOK
  <2>7. Phases' BY <1>1, <1>t, <1>o, <2>3, <2>4, <2>5 DEF Phases, ForTypeOK
  <2> QED BY <2>1, <2>2, <2>6, <2>7
<1>2. CASE WakeUpSpuriously(t)
  <2> USE DEF WakeUpSpuriously, Goto
  <2>1. ForTypeOK' BY <1>2, <1>t DEF ForTypeOK, Places, barrierVars, n
  <2>2. Counted' /\ \A u \in Threads : InRound(u)' <=> InRound(u)  BY <1>2, <1>t, SameArrivals DEF ForTypeOK
  <2>3. Between => Between'  BY <1>2, <1>t, <1>o, <1>c, <2>2 DEF Between, Resting, ForTypeOK
  <2>4. Within => Within'  BY <1>2, <1>t, <1>o, <1>c, <2>2 DEF Within, ForTypeOK
  <2>5. Stopping => Stopping'  BY <1>2, <1>t, <1>o, <1>c, <2>2 DEF Stopping, Resting, ForTypeOK
  <2>6. Taken' BY <1>2, <1>t DEF Taken, Busy, ForTypeOK
  <2>7. Phases' BY <1>2, <1>t, <1>o, <2>3, <2>4, <2>5 DEF Phases, ForTypeOK
  <2> QED BY <2>1, <2>2, <2>6, <2>7
<1>3. CASE TestStop(t)
  <2> USE DEF TestStop, Goto
  <2>1. ForTypeOK' BY <1>3, <1>t DEF ForTypeOK, Places, barrierVars, n
  <2>2. Counted' /\ \A u \in Threads : InRound(u)' <=> InRound(u)  BY <1>3, <1>t, SameArrivals DEF ForTypeOK
  <2>3. ~ Between  BY <1>3, <1>o, <1>c DEF Between, Resting
  <2>4. ~ stop /\ Within => Within'  BY <1>3, <1>t, <1>o, <1>c, <2>2 DEF Within, ForTypeOK
  <2>5. stop /\ Stopping => Stopping'  BY <1>3, <1>t, <1>o, <1>c, <2>2 DEF Stopping, Resting, ForTypeOK
  <2>6. Taken' BY <1>3, <1>t DEF Taken, Busy, ForTypeOK
  <2>7. Phases' BY <1>3, <1>t, <1>o, <2>3, <2>4, <2>5 DEF Phases, ForTypeOK
  <2> QED BY <2>1, <2>2, <2>6, <2>7
<1> QED BY <1>1, <1>2, <1>3

LEMMA ForInvNext == ForInv /\ [ForNext]_parallelForVars => ForInv'
<1> SUFFICES ASSUME ForInv, [ForNext]_parallelForVars PROVE ForInv' OBVIOUS
<1>1. CASE CallerStep BY <1>1, CallerKeepsInv
<1>2. ASSUME NEW t \in Threads, ThreadStep(t) PROVE ForInv'
  BY <1>2, LoopKeepsInv, BarrierKeepsInv, WaitingKeepsInv DEF ThreadStep
<1>3. CASE UNCHANGED parallelForVars
  <2> USE <1>3 DEF parallelForVars, forVars, barrierVars, ForInv
  <2>1. ForTypeOK' BY DEF ForTypeOK, n
  <2>2. Counted' /\ \A t \in Threads : InRound(t)' <=> InRound(t) BY SameArrivals
  <2>3. (Between' <=> Between) /\ (Within' <=> Within) /\ (Stopping' <=> Stopping)
    BY <2>2, CallerAssumption DEF Between, Within, Stopping, Resting, OtherThreads
  <2>4. Phases' /\ Taken' BY <2>3 DEF Phases, Taken, Busy, OtherThreads
  <2> QED BY <2>1, <2>2, <2>4
<1> QED BY <1>1, <1>2, <1>3 DEF ForNext, ForOver

----
\* Every step is one of ForLoop, or none.

\* What a step that is none of ForLoop leaves as it is.
LEMMA Unseen ==
  ASSUME runs' = runs, InRun' = InRun, NotCalled' = NotCalled, BeingCalled' = BeingCalled
  PROVE  [Loop!LoopNext]_(Loop!loopVars)  BY DEF Loop!loopVars

\* Nobody has an iteration left.
LEMMA NothingToDo ==
  ASSUME ForTypeOK, current = end, \A t \in Threads : pc[t] \notin {"ready", "single", "call", "singleCall"}
  PROVE  NotCalled = {} /\ BeingCalled = {}
<1>1. end \in Nat BY LengthsAssumption DEF LengthsAssumption, ForTypeOK
<1>2. current + 1 .. end = {} BY <1>1
<1> QED BY <1>2 DEF NotCalled, BeingCalled

LEMMA CallerRefines == ASSUME ForInv, CallerStep PROVE [Loop!LoopNext]_(Loop!loopVars)
<1> USE CallerAssumption
<1>i. ForTypeOK' /\ ForTypeOK BY CallerKeepsInv DEF ForInv
<1>o. OtherThreads = Threads \ {Caller} BY DEF OtherThreads
<1>b. \* outside the loops
      ASSUME pc[Caller] \in {"idle", "started", "single", "singleCall", "singleDone"}
      PROVE  ~ hasTasks /\ ~ stop /\ Between
  BY <1>b, <1>i DEF ForInv, Phases, Within, Between, Stopping, ForTypeOK, InRound
<1>m. \* the caller alone decides
      ASSUME Between
      PROVE  \A t \in OtherThreads : pc[t] \in {"none", "tasks", "asleep", "barrier"}  BY <1>m DEF Between, Resting
<1>e. end \in Nat /\ current \in Nat BY <1>i, LengthsAssumption DEF LengthsAssumption, ForTypeOK
<1>1. CASE RunSingle
  <2> USE DEF RunSingle, Goto
  <2>1. NotCalled = {} /\ BeingCalled = {}  BY <1>1, <1>b, <1>m, <1>i, <1>o, NothingToDo DEF Between
  <2>2. \A t \in OtherThreads : pc'[t] \in {"none", "tasks", "asleep", "barrier"} /\ pc'[Caller] = "single"
    BY <1>1, <1>b, <1>m, <1>i, <1>o DEF ForTypeOK
  <2>3. {t \in Threads : pc'[t] \in {"ready", "single"}} = {Caller} /\ {t \in Threads : pc'[t] \in {"call", "singleCall"}} = {}
    BY <1>1, <2>2, <1>i, <1>o DEF ForTypeOK
  <2>4. current' + 1 .. end' = {} BY <1>1, <1>b, <1>e DEF Between
  <2>5. iter'[Caller].index = 1 BY <1>1, <1>i DEF ForTypeOK
  <2>6. NotCalled' = {1} /\ BeingCalled' = {} BY <2>3, <2>4, <2>5 DEF NotCalled, BeingCalled
  <2>7. 1 .. 1 = {1} OBVIOUS
  <2>8. ~ InRun /\ InRun' BY <1>1, <1>i DEF InRun, ForTypeOK
  <2>9. Loop!Start BY <1>1, <2>1, <2>6, <2>7, <2>8 DEF Loop!Start
  <2> QED BY <2>9 DEF Loop!LoopNext
<1>2. CASE ContinueSingle
  <2> USE DEF ContinueSingle, Goto, AfterSingle
  <2>1. iter[Caller] = [index |-> 1, of |-> runs] /\ ~ stop /\ current = end /\ InRun
    BY <1>2, <1>b DEF Between, InRun
  <2>2. current + 1 .. end = {} BY <2>1, <1>e
  <2>3. \A t \in OtherThreads : pc[t] \in {"none", "tasks", "asleep", "barrier"} /\ pc'[t] = pc[t]
    BY <1>2, <1>b, <1>m, <1>i, <1>o DEF ForTypeOK
  <2>4. CASE pc[Caller] = "single"
    <3>1. pc'[Caller] = "singleCall" BY <1>2, <2>4, <1>i DEF ForTypeOK
    <3>2. /\ {t \in Threads : pc[t] \in {"ready", "single"}} = {Caller} /\ {t \in Threads : pc[t] \in {"call", "singleCall"}} = {}
          /\ {t \in Threads : pc'[t] \in {"ready", "single"}} = {} /\ {t \in Threads : pc'[t] \in {"call", "singleCall"}} = {Caller}
      BY <2>3, <2>4, <3>1, <1>o
    <3>3. NotCalled = {1} /\ BeingCalled = {}  BY <2>1, <2>2, <3>2 DEF NotCalled, BeingCalled
    <3>4. NotCalled' = {} /\ BeingCalled' = {<<runs, 1>>}  BY <1>2, <2>1, <2>2, <3>2 DEF NotCalled, BeingCalled
    <3>5. Loop!Call(1) BY <1>2, <2>1, <3>1, <3>3, <3>4 DEF Loop!Call, InRun
    <3> QED BY <3>3, <3>5 DEF Loop!LoopNext
  <2>5. CASE pc[Caller] = "singleCall"
    <3>1. pc'[Caller] = "singleDone" BY <1>2, <2>5, <1>i DEF ForTypeOK
    <3>2. /\ {t \in Threads : pc[t] \in {"ready", "single"}} = {} /\ {t \in Threads : pc[t] \in {"call", "singleCall"}} = {Caller}
          /\ {t \in Threads : pc'[t] \in {"ready", "single"}} = {} /\ {t \in Threads : pc'[t] \in {"call", "singleCall"}} = {}
      BY <2>3, <2>5, <3>1, <1>o
    <3>3. NotCalled = {} /\ BeingCalled = {<<runs, 1>>}  BY <2>1, <2>2, <3>2 DEF NotCalled, BeingCalled
    <3>4. NotCalled' = {} /\ BeingCalled' = {}  BY <1>2, <2>1, <2>2, <3>2 DEF NotCalled, BeingCalled
    <3>5. Loop!Return(<<runs, 1>>) BY <1>2, <2>1, <3>1, <3>3, <3>4 DEF Loop!Return, InRun
    <3> QED BY <3>3, <3>5 DEF Loop!LoopNext
  <2>6. CASE pc[Caller] = "singleDone"
    <3>1. pc'[Caller] = "idle" BY <1>2, <2>6, <1>i DEF ForTypeOK
    <3>2. NotCalled = {} /\ BeingCalled = {}  BY <2>1, <2>3, <2>6, <1>i, <1>o, NothingToDo
    <3>3. NotCalled' = {} /\ BeingCalled' = {}
      <4>1. \A t \in Threads : pc'[t] \notin {"ready", "single", "call", "singleCall"}  BY <2>3, <3>1, <1>o
      <4>2. current' = end' BY <1>2, <2>1
      <4>3. current' + 1 .. end' = {} BY <1>2, <2>2
      <4> QED BY <4>1, <4>3 DEF NotCalled, BeingCalled
    <3>4. Loop!Finish BY <1>2, <2>1, <3>1, <3>2, <3>3 DEF Loop!Finish, InRun
    <3> QED BY <3>4 DEF Loop!LoopNext
  <2> QED BY <1>2, <2>4, <2>5, <2>6
<1>3. CASE StartThreads
  <2> USE DEF StartThreads
  <2>1. InRun' = InRun BY <1>3 DEF InRun
  <2>2. NotCalled' = NotCalled /\ BeingCalled' = BeingCalled
    <3>1. /\ {t \in Threads : pc[t] \in {"ready", "single"}} = {} /\ {t \in Threads : pc[t] \in {"call", "singleCall"}} = {}
          /\ {t \in Threads : pc'[t] \in {"ready", "single"}} = {} /\ {t \in Threads : pc'[t] \in {"call", "singleCall"}} = {}
      BY <1>3, <1>b, <1>m, <1>i, <1>o DEF ForTypeOK
    <3> QED BY <1>3, <3>1 DEF NotCalled, BeingCalled
  <2> QED BY <1>3, <2>1, <2>2, Unseen
<1>4. ASSUME NEW length \in Lengths, RunMany(length) PROVE [Loop!LoopNext]_(Loop!loopVars)
  <2> USE DEF RunMany, Notified
  <2>1. NotCalled = {} /\ BeingCalled = {}  BY <1>4, <1>b, <1>m, <1>i, <1>o, NothingToDo DEF Between
  <2>2. {t \in Threads : pc'[t] \in {"ready", "single"}} = {} /\ {t \in Threads : pc'[t] \in {"call", "singleCall"}} = {}
    BY <1>4, <1>b, <1>m, <1>i, <1>o DEF ForTypeOK
  <2>a. current' + 1 .. end' = 1 .. length BY <1>4
  <2>3. NotCalled' = 1 .. length /\ BeingCalled' = {}  BY <2>2, <2>a DEF NotCalled, BeingCalled
  <2>4. ~ InRun /\ InRun' BY <1>4, <1>i DEF InRun, ForTypeOK
  <2>5. Loop!Start BY <1>4, <2>1, <2>3, <2>4 DEF Loop!Start
  <2> QED BY <2>5 DEF Loop!LoopNext
<1>5. CASE Destruct
  <2> USE DEF Destruct, Goto, Notified
  <2>1. InRun' = InRun BY <1>5, <1>i DEF InRun, ForTypeOK
  <2>2. NotCalled' = NotCalled /\ BeingCalled' = BeingCalled
    <3>1. /\ {t \in Threads : pc[t] \in {"ready", "single"}} = {} /\ {t \in Threads : pc[t] \in {"call", "singleCall"}} = {}
          /\ {t \in Threads : pc'[t] \in {"ready", "single"}} = {} /\ {t \in Threads : pc'[t] \in {"call", "singleCall"}} = {}
      BY <1>5, <1>b, <1>m, <1>i, <1>o DEF ForTypeOK
    <3> QED BY <1>5, <3>1 DEF NotCalled, BeingCalled
  <2> QED BY <1>5, <2>1, <2>2, Unseen
<1>6. CASE Join
  <2> USE DEF Join, Goto
  <2>1. InRun' = InRun BY <1>6, <1>i DEF InRun, ForTypeOK
  <2>2. /\ {t \in Threads : pc'[t] \in {"ready", "single"}} = {t \in Threads : pc[t] \in {"ready", "single"}}
        /\ {t \in Threads : pc'[t] \in {"call", "singleCall"}} = {t \in Threads : pc[t] \in {"call", "singleCall"}}
    BY <1>6, <1>i DEF ForTypeOK
  <2>3. NotCalled' = NotCalled /\ BeingCalled' = BeingCalled  BY <1>6, <2>2 DEF NotCalled, BeingCalled
  <2> QED BY <1>6, <2>1, <2>3, Unseen
<1> QED BY <1>1, <1>2, <1>3, <1>4, <1>5, <1>6 DEF CallerStep

\* A step that changes neither who is about to call the function nor who is in it.
LEMMA SameCalls ==
  ASSUME ForTypeOK, UNCHANGED <<current, end, iter, runs>>, InRun' = InRun,
         \A t \in Threads : pc'[t] = pc[t]
           \/ (pc[t] \notin {"ready", "single", "call", "singleCall"} /\ pc'[t] \notin {"ready", "single", "call", "singleCall"})
  PROVE  [Loop!LoopNext]_(Loop!loopVars)
<1>1. /\ {t \in Threads : pc'[t] \in {"ready", "single"}} = {t \in Threads : pc[t] \in {"ready", "single"}}
      /\ {t \in Threads : pc'[t] \in {"call", "singleCall"}} = {t \in Threads : pc[t] \in {"call", "singleCall"}}
  OBVIOUS
<1>2. NotCalled' = NotCalled /\ BeingCalled' = BeingCalled BY <1>1 DEF NotCalled, BeingCalled
<1> QED BY <1>2, Unseen

\* In a loop the places of a range of one are empty.
LEMMA NobodySingle ==
  ASSUME ForTypeOK, Within
  PROVE  /\ \A t \in Threads : pc[t] \notin {"single", "singleCall"}
         /\ InRun  BY CallerAssumption DEF Within, ForTypeOK, InRound, InRun, OtherThreads

LEMMA LoopRefines ==
  ASSUME ForInv, NEW t \in Threads,
         TakeIteration(t) \/ NoIteration(t) \/ CallFunction(t) \/ FunctionReturns(t)
  PROVE  [Loop!LoopNext]_(Loop!loopVars)
<1> USE CallerAssumption
<1>i. ForTypeOK /\ ForTypeOK' /\ Taken BY LoopKeepsInv DEF ForInv
<1>o. OtherThreads = Threads \ {Caller} BY DEF OtherThreads
<1>w. Within  BY <1>i, <1>o DEF ForInv, Phases, Between, Stopping, Resting, ForTypeOK,
     TakeIteration, NoIteration, CallFunction, FunctionReturns
<1>s. (\A u \in Threads : pc[u] \notin {"single", "singleCall"}) /\ InRun BY <1>i, <1>w, NobodySingle
<1>r. InRun'
  BY <1>s, <1>i DEF InRun, ForTypeOK, TakeIteration, NoIteration, CallFunction, FunctionReturns, Goto, AfterLoop
<1>e. end \in Nat /\ current \in Nat /\ current <= end BY <1>i, LengthsAssumption DEF LengthsAssumption, ForTypeOK
<1>c. BeingCalled = {<<iter[u].of, iter[u].index>> : u \in {v \in Threads : pc[v] = "call"}}
  <2>1. {v \in Threads : pc[v] \in {"call", "singleCall"}} = {v \in Threads : pc[v] = "call"} BY <1>s
  <2> QED BY <2>1 DEF BeingCalled
<1>n. NotCalled = {iter[u].index : u \in {v \in Threads : pc[v] = "ready"}} \cup (current + 1 .. end)
  <2>1. {v \in Threads : pc[v] \in {"ready", "single"}} = {v \in Threads : pc[v] = "ready"} BY <1>s
  <2> QED BY <2>1 DEF NotCalled
<1>1. CASE TakeIteration(t)
  <2> USE DEF TakeIteration, Goto, Increment
  <2>1. /\ {v \in Threads : pc'[v] \in {"ready", "single"}} = {v \in Threads : pc[v] = "ready"} \cup {t}
        /\ {v \in Threads : pc'[v] \in {"call", "singleCall"}} = {v \in Threads : pc[v] = "call"}
    BY <1>1, <1>s, <1>i DEF ForTypeOK
  <2>2. iter'[t].index = current + 1 /\ \A u \in Threads \ {t} : iter'[u] = iter[u]  BY <1>1, <1>i DEF ForTypeOK
  <2>3. current + 1 .. end = {current + 1} \cup (current' + 1 .. end')
    <3>1. current # end /\ current' = current + 1 /\ end' = end BY <1>1
    <3> QED BY <3>1, <1>e
  <2>4. t \notin {v \in Threads : pc[v] = "ready"} /\ t \notin {v \in Threads : pc[v] = "call"} BY <1>1
  <2>5. NotCalled' = {iter'[u].index : u \in {v \in Threads : pc[v] = "ready"} \cup {t}} \cup (current' + 1 .. end')
    BY <2>1 DEF NotCalled
  <2>6. NotCalled' = NotCalled BY <1>n, <2>2, <2>3, <2>4, <2>5
  <2>7. BeingCalled' = {<<iter'[u].of, iter'[u].index>> : u \in {v \in Threads : pc[v] = "call"}}
    BY <2>1 DEF BeingCalled
  <2>8. BeingCalled' = BeingCalled BY <1>c, <2>2, <2>4, <2>7
  <2> QED BY <1>1, <1>s, <1>r, <2>6, <2>8, Unseen
<1>2. CASE NoIteration(t)
  <2>1. \A u \in Threads : pc'[u] = pc[u]
          \/ (pc[u] \notin {"ready", "single", "call", "singleCall"} /\ pc'[u] \notin {"ready", "single", "call", "singleCall"})
    BY <1>2, <1>i DEF NoIteration, Goto, AfterLoop, ForTypeOK
  <2> QED BY <1>2, <1>s, <1>r, <1>i, <2>1, SameCalls DEF NoIteration
<1>3. CASE CallFunction(t)
  <2> USE DEF CallFunction, Goto
  <2> DEFINE i == iter[t].index
  <2>1. /\ {v \in Threads : pc'[v] \in {"ready", "single"}} = {v \in Threads : pc[v] = "ready"} \ {t}
        /\ {v \in Threads : pc'[v] \in {"call", "singleCall"}} = {v \in Threads : pc[v] = "call"} \cup {t}
    BY <1>3, <1>s, <1>i DEF ForTypeOK
  <2>2. /\ iter'[t].index = i /\ iter'[t].of = runs
        /\ \A u \in Threads \ {t} : iter'[u] = iter[u]  BY <1>3, <1>i, <1>w DEF ForTypeOK, Within
  <2>3. /\ i \in 1 .. current
        /\ \A u \in Threads \ {t} : pc[u] = "ready" => iter[u].index # i  BY <1>3, <1>i DEF Taken, Busy
  <2>4. i \notin current + 1 .. end BY <2>3, <1>e
  <2>5. NotCalled' = {iter'[u].index : u \in {v \in Threads : pc[v] = "ready"} \ {t}} \cup (current + 1 .. end)
    BY <1>3, <2>1 DEF NotCalled
  <2>a. i \in NotCalled BY <1>3, <1>n
  <2>6. NotCalled' = NotCalled \ {i}  BY <1>n, <1>3, <2>2, <2>3, <2>4, <2>5
  <2>7. BeingCalled' = {<<iter'[u].of, iter'[u].index>> : u \in {v \in Threads : pc[v] = "call"} \cup {t}}
    BY <2>1 DEF BeingCalled
  <2>8. t \notin {v \in Threads : pc[v] = "call"} BY <1>3
  <2>9. BeingCalled' = BeingCalled \cup {<<runs, i>>} BY <1>c, <2>2, <2>7, <2>8
  <2>10. Loop!Call(i) BY <1>3, <1>s, <1>r, <2>a, <2>6, <2>9 DEF Loop!Call
  <2> QED BY <2>a, <2>10 DEF Loop!LoopNext
<1>4. CASE FunctionReturns(t)
  <2> USE DEF FunctionReturns, Goto
  <2> DEFINE call == <<iter[t].of, iter[t].index>>
  <2>1. /\ {v \in Threads : pc'[v] \in {"ready", "single"}} = {v \in Threads : pc[v] = "ready"}
        /\ {v \in Threads : pc'[v] \in {"call", "singleCall"}} = {v \in Threads : pc[v] = "call"} \ {t}
    BY <1>4, <1>s, <1>i DEF ForTypeOK
  <2>2. \A u \in Threads \ {t} : pc[u] = "call" => iter[u].index # iter[t].index  BY <1>4, <1>i DEF Taken, Busy
  <2>3. NotCalled' = NotCalled BY <1>4, <1>n, <2>1 DEF NotCalled
  <2>4. BeingCalled' = {<<iter[u].of, iter[u].index>> : u \in {v \in Threads : pc[v] = "call"} \ {t}}
    BY <1>4, <2>1 DEF BeingCalled
  <2>5. call \in BeingCalled BY <1>4, <1>c
  <2>6. BeingCalled' = BeingCalled \ {call} BY <1>c, <1>4, <2>2, <2>4
  <2>7. Loop!Return(call) BY <1>4, <1>s, <1>r, <2>3, <2>5, <2>6 DEF Loop!Return
  <2> QED BY <2>5, <2>7 DEF Loop!LoopNext
<1> QED BY <1>1, <1>2, <1>3, <1>4

LEMMA BarrierRefines ==
  ASSUME ForInv, NEW t \in Threads,
         LastAtBarrier(t) \/ EarlyAtBarrier(t) \/ LeaveBarrier(t) \/ StayAtBarrier(t)
  PROVE  [Loop!LoopNext]_(Loop!loopVars)
<1> USE CallerAssumption
<1>i. ForTypeOK /\ Counted /\ ForTypeOK' BY BarrierKeepsInv DEF ForInv
<1>o. OtherThreads = Threads \ {Caller} BY DEF OtherThreads
<1> DEFINE Calling == {"ready", "single", "call", "singleCall"}
<1>f. \* Run returns when nobody has anything to do
      ASSUME UNCHANGED <<current, end, iter, runs>>, current = end, InRun, ~ InRun',
             \A u \in Threads : pc[u] \notin Calling, \A u \in Threads : pc'[u] \notin Calling
      PROVE  Loop!LoopNext
  <2>1. NotCalled = {} /\ BeingCalled = {} BY <1>f, <1>i, NothingToDo
  <2>2. current' + 1 .. end' = {} BY <1>f, <1>i, LengthsAssumption DEF LengthsAssumption, ForTypeOK
  <2>3. NotCalled' = {} /\ BeingCalled' = {} BY <1>f, <2>2 DEF NotCalled, BeingCalled
  <2>4. Loop!Finish BY <1>f, <2>1, <2>3 DEF Loop!Finish
  <2> QED BY <2>4 DEF Loop!LoopNext
<1>1. CASE LastAtBarrier(t)
  <2> USE DEF LastAtBarrier, ArriveLast, Goto, AfterBarrier
  <2>1. \A u \in Threads \ {t} : InRound(u) BY <1>1, <1>i, LastFindsOthers
  <2>2. \A u \in Threads : pc[u] \notin Calling /\ pc'[u] \notin Calling  BY <1>1, <1>i, <2>1 DEF InRound, ForTypeOK
  <2>3. CASE t = Caller
    <3>1. Within BY <1>1, <2>3, <1>i DEF ForInv, Phases, Between, Stopping, ForTypeOK
    <3>2. current = end BY <1>1, <3>1 DEF Within
    <3>3. InRun /\ ~ InRun' BY <1>1, <2>3, <1>i DEF InRun, ForTypeOK
    <3> QED BY <1>1, <1>f, <2>2, <3>2, <3>3
  <2>4. CASE t # Caller
    <3>1. InRun' = InRun BY <1>1, <2>4, <1>i DEF InRun, ForTypeOK
    <3> QED BY <1>1, <1>i, <2>2, <3>1, SameCalls
  <2> QED BY <2>3, <2>4
<1>2. CASE EarlyAtBarrier(t)
  <2> USE DEF EarlyAtBarrier, Goto
  <2>1. InRun' = InRun BY <1>2, <1>i DEF InRun, ForTypeOK
  <2>2. \A u \in Threads : pc'[u] = pc[u] \/ (pc[u] \notin Calling /\ pc'[u] \notin Calling)
    BY <1>2, <1>i DEF ForTypeOK
  <2> QED BY <1>2, <1>i, <2>1, <2>2, SameCalls
<1>3. CASE LeaveBarrier(t)
  <2> USE DEF LeaveBarrier, Leave, CycleEnded, Goto, AfterBarrier
  <2>1. CASE t = Caller
    <3>1. Between BY <1>3, <2>1, <1>i DEF ForInv, Phases, Within, Stopping, InRound, ForTypeOK
    <3>2. \A u \in Threads : pc[u] \notin Calling /\ pc'[u] \notin Calling
      BY <1>3, <2>1, <3>1, <1>i, <1>o DEF Between, Resting, ForTypeOK
    <3>3. InRun /\ ~ InRun' /\ current = end BY <1>3, <2>1, <3>1, <1>i DEF InRun, Between, ForTypeOK
    <3> QED BY <1>3, <1>f, <3>2, <3>3
  <2>2. CASE t # Caller
    <3>1. InRun' = InRun BY <1>3, <2>2, <1>i DEF InRun, ForTypeOK
    <3>2. \A u \in Threads : pc'[u] = pc[u] \/ (pc[u] \notin Calling /\ pc'[u] \notin Calling)
      BY <1>3, <2>2, <1>i DEF ForTypeOK
    <3> QED BY <1>3, <1>i, <3>1, <3>2, SameCalls
  <2> QED BY <2>1, <2>2
<1>4. CASE StayAtBarrier(t)
  <2>1. UNCHANGED forVars BY <1>4 DEF StayAtBarrier
  <2> QED BY <2>1, Unseen DEF forVars, InRun, NotCalled, BeingCalled
<1> QED BY <1>1, <1>2, <1>3, <1>4

LEMMA StepRefines == ForInv /\ [ForNext]_parallelForVars => [Loop!LoopNext]_(Loop!loopVars)
<1> SUFFICES ASSUME ForInv, [ForNext]_parallelForVars PROVE [Loop!LoopNext]_(Loop!loopVars) OBVIOUS
<1>1. CASE CallerStep BY <1>1, CallerRefines
<1>2. ASSUME NEW t \in Threads, WaitForTasks(t) \/ WakeUpSpuriously(t) \/ TestStop(t)
      PROVE  [Loop!LoopNext]_(Loop!loopVars)
  <2> USE CallerAssumption DEF WaitForTasks, WakeUpSpuriously, TestStop, Goto
  <2>1. ForTypeOK BY DEF ForInv
  <2>2. t # Caller  BY <1>2, <2>1 DEF ForInv, Phases, Between, Within, Stopping, InRound, ForTypeOK
  <2>3. InRun' = InRun BY <1>2, <2>1, <2>2 DEF InRun, ForTypeOK
  <2>4. \A u \in Threads : pc'[u] = pc[u]
          \/ (pc[u] \notin {"ready", "single", "call", "singleCall"} /\ pc'[u] \notin {"ready", "single", "call", "singleCall"})
    BY <1>2, <2>1, <2>3 DEF InRun, ForTypeOK
  <2> QED BY <1>2, <2>1, <2>3, <2>4, SameCalls
<1>3. ASSUME NEW t \in Threads, ThreadStep(t) PROVE [Loop!LoopNext]_(Loop!loopVars)
  BY <1>2, <1>3, LoopRefines, BarrierRefines DEF ThreadStep
<1>4. CASE UNCHANGED parallelForVars  BY <1>4, Unseen DEF parallelForVars, forVars, InRun, NotCalled, BeingCalled
<1> QED BY <1>1, <1>3, <1>4 DEF ForNext, ForOver

----
\* The results.

\* The state keeps its types; in particular the iterations that are handed out stay within the
\* range (parallelfor.h, next), and the barrier's count above zero.
THEOREM ForTypes == ForSpec => []ForTypeOK
<1>1. ForInv => ForTypeOK BY DEF ForInv
<1> QED BY <1>1, ForInvInit, ForInvNext, PTL DEF ForSpec

\* When a thread is about to run the completion function, which writes _hasTasks without the mutex
\* under which it is read, all other threads are inside the barrier.
THEOREM ForHasTasksNotShared == ForSpec => []HasTasksNotShared
<1>1. ForInv => HasTasksNotShared  BY LastFindsOthers DEF ForInv, HasTasksNotShared, InRound
<1> QED BY <1>1, ForInvInit, ForInvNext, PTL DEF ForSpec

\* For any number of threads and runs, and ranges of any size, Run calls its own function once for
\* every iteration, and returns when all those calls have returned (parallelfor.h, Run).
THEOREM ForImplementsLoop == ForSpec => LoopRefinement
<1>1. ForInit => Loop!LoopInit
  <2> SUFFICES ASSUME ForInit PROVE Loop!LoopInit OBVIOUS
  <2>1. \A t \in Threads : pc[t] \in {"idle", "none"} BY DEF ForInit
  <2>2. current + 1 .. end = {} BY DEF ForInit
  <2>3. NotCalled = {} /\ BeingCalled = {} BY <2>1, <2>2 DEF NotCalled, BeingCalled
  <2>4. ~ InRun BY CallerAssumption DEF ForInit, InRun
  <2> QED BY <2>3, <2>4 DEF ForInit, Loop!LoopInit
<1> QED BY <1>1, ForInvInit, ForInvNext, StepRefines, PTL DEF ForSpec, LoopRefinement, Loop!LoopSpec
=============================================================================
