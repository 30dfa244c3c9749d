--------------------- MODULE GriddingTaskManagerProofs ---------------------
(* Proofs about GriddingTaskManager for any number of workers and tasks. *)
EXTENDS GriddingTaskManager, FiniteSetTheorems, SequenceTheorems, TLAPS

(***************************************************************************)
(* What keeps the write under _mutex from blocking: a call of Run that     *)
(* queues a task has either added a thread for it or found the list empty, *)
(* so there is never more in the list than there are threads.              *)
(***************************************************************************)
NThreads == Cardinality(threadList)

Room ==
  /\ main \notin {"join", "gone"} => ~ listEnded /\ Len(taskList) <= NThreads
  /\ main \in {"lock", "locked"} => Len(taskList) < NThreads
  /\ main = "wait" => NThreads = parallelGridding
  /\ main \in {"direct", "wait", "lock", "locked"} => tasks > 0
  /\ \A w \in Workers : worker[w] = "grid" => carries[w] \in Tasks

IInv == ManagerTypeOK /\ Room

\* The list of threads is finite, and starting a thread that is not in it makes
\* it one longer.
LEMMA ThreadCount ==
  ASSUME worker \in [Workers -> WorkerPlaces]
  PROVE  /\ IsFiniteSet(threadList)
         /\ NThreads \in Nat
<1>1. threadList \subseteq Workers  BY DEF threadList
<1>2. IsFiniteSet(threadList)  BY <1>1, WorkersAssumption, FS_Subset DEF WorkersAssumption
<1> QED  BY <1>2, FS_CardinalityType DEF NThreads

LEMMA ThreadAdded ==
  ASSUME worker \in [Workers -> WorkerPlaces],
         NEW w \in Workers \ threadList, worker' = [worker EXCEPT ![w] = "read"]
  PROVE  NThreads' = NThreads + 1
<1>1. threadList' = threadList \cup {w}  BY DEF threadList
<1>2. IsFiniteSet(threadList)  BY ThreadCount
<1>3. Cardinality(threadList \cup {w}) = Cardinality(threadList) + 1  BY <1>2, FS_AddElement
<1> QED  BY <1>1, <1>3 DEF NThreads

\* A thread that stays in the list, wherever it goes, does not change its
\* length.
LEMMA ThreadMoved ==
  ASSUME worker \in [Workers -> WorkerPlaces],
         NEW w \in threadList, NEW p \in WorkerPlaces \ {"none"},
         worker' = [worker EXCEPT ![w] = p]
  PROVE  NThreads' = NThreads
<1>1. threadList' = threadList  BY DEF threadList
<1> QED  BY <1>1 DEF NThreads

LEMMA NoThreads ==
  ASSUME worker' = [w \in Workers |-> "none"]
  PROVE  NThreads' = 0
<1>1. threadList' = {}  BY DEF threadList
<1> QED  BY <1>1, FS_EmptySet DEF NThreads

\* The invariant holds at first.
LEMMA InitRoom == ManagerInit => IInv
<1> SUFFICES ASSUME ManagerInit PROVE IInv  OBVIOUS
<1>1. threadList = {}  BY DEF ManagerInit, threadList
<1>2. NThreads = 0  BY <1>1, FS_EmptySet DEF NThreads
<1>3. Cardinality(Workers) \in Nat  BY WorkersAssumption, FS_CardinalityType DEF WorkersAssumption
<1>4. MaxTasks \in Nat  BY MaxTasksAssumption DEF MaxTasksAssumption
<1>5. ManagerTypeOK
  <2>1. /\ parallelGridding \in 1 .. Cardinality(Workers)
        /\ Cardinality(threadList) <= parallelGridding  BY <1>2, <1>3 DEF ManagerInit, NThreads
  <2>2. worker \in [Workers -> WorkerPlaces] /\ carries \in [Workers -> Tasks \cup {NoTask}]
    BY DEF ManagerInit, WorkerPlaces, NoTask
  <2>3. taskList \in Seq(Tasks) /\ readyList \in Seq(Tasks) /\ calledBack \in Seq(Tasks)  BY DEF ManagerInit
  <2>4. listEnded \in BOOLEAN /\ locked \in BOOLEAN /\ destroying \in BOOLEAN  BY DEF ManagerInit
  <2>5. main \in MainPlaces /\ tasks \in 0 .. MaxTasks  BY <1>4 DEF ManagerInit, MainPlaces
  <2> QED  BY <2>1, <2>2, <2>3, <2>4, <2>5 DEF ManagerTypeOK
<1>6. Room  BY <1>2 DEF Room, ManagerInit
<1> QED  BY <1>5, <1>6 DEF IInv

\* Parts of a sequence of tasks.
LEMMA FrontType ==
  ASSUME NEW S, NEW s \in Seq(S), s # <<>>
  PROVE  WithoutLast(s) \in Seq(S) /\ LastOf(s) \in S
<1>1. Len(s) \in Nat /\ Len(s) > 0  BY EmptySeq, LenProperties
<1>2. WithoutLast(s) \in Seq(S)  BY <1>1, SubSeqProperties DEF WithoutLast
<1>3. LastOf(s) \in S  BY <1>1, ElementOfSeq DEF LastOf
<1> QED  BY <1>2, <1>3

LEMMA HeadTailType ==
  ASSUME NEW S, NEW s \in Seq(S), s # <<>>
  PROVE  Head(s) \in S /\ Tail(s) \in Seq(S) /\ Len(Tail(s)) = Len(s) - 1  BY HeadTailProperties

LEMMA AppendType ==
  ASSUME NEW S, NEW s \in Seq(S), NEW x \in S
  PROVE  Append(s, x) \in Seq(S) /\ Len(Append(s, x)) = Len(s) + 1  BY AppendProperties

\* The invariant with its parts that do not depend on where a thread is
\* spelled out, for steps that leave the threads alone.
THEOREM RoomInductive == IInv /\ [ManagerNext]_managerVars => IInv'
<1> SUFFICES ASSUME IInv, [ManagerNext]_managerVars PROVE IInv'  OBVIOUS
<1> USE DEF IInv
<1>n. /\ NThreads \in Nat /\ MaxTasks \in Nat /\ parallelGridding \in Nat \ {0}
      /\ Cardinality(Workers) \in Nat /\ NThreads <= parallelGridding
  <2>1. worker \in [Workers -> WorkerPlaces] /\ parallelGridding \in 1 .. Cardinality(Workers)
        /\ NThreads <= parallelGridding  BY DEF ManagerTypeOK, NThreads
  <2>2. Cardinality(Workers) \in Nat  BY WorkersAssumption, FS_CardinalityType DEF WorkersAssumption
  <2>3. NThreads \in Nat  BY <2>1, ThreadCount
  <2> QED  BY <2>1, <2>2, <2>3, MaxTasksAssumption DEF MaxTasksAssumption
<1>l. Len(taskList) \in Nat  BY LenProperties DEF ManagerTypeOK
<1>s. \* steps that leave the threads alone
      ASSUME UNCHANGED <<parallelGridding, worker>>,
             carries' \in [Workers -> Tasks \cup {NoTask}],
             taskList' \in Seq(Tasks), readyList' \in Seq(Tasks), calledBack' \in Seq(Tasks),
             listEnded' \in BOOLEAN, locked' \in BOOLEAN, destroying' \in BOOLEAN,
             main' \in MainPlaces, tasks' \in 0 .. MaxTasks
      PROVE  ManagerTypeOK' /\ NThreads' = NThreads
  <2>1. threadList' = threadList  BY <1>s DEF threadList
  <2>2. NThreads' = NThreads  BY <2>1 DEF NThreads
  <2>3. Cardinality(threadList)' = Cardinality(threadList)  BY <2>1
  <2> QED  BY <1>s, <2>2, <2>3 DEF ManagerTypeOK
<1>t. \* the types of what a step leaves alone
      /\ carries \in [Workers -> Tasks \cup {NoTask}]
      /\ taskList \in Seq(Tasks) /\ readyList \in Seq(Tasks) /\ calledBack \in Seq(Tasks)
      /\ listEnded \in BOOLEAN /\ locked \in BOOLEAN /\ destroying \in BOOLEAN
      /\ main \in MainPlaces /\ tasks \in 0 .. MaxTasks
      /\ worker \in [Workers -> WorkerPlaces]
      /\ parallelGridding \in 1 .. Cardinality(Workers)  BY DEF ManagerTypeOK
<1>1. CASE RunDirect
  <2>1. ManagerTypeOK' /\ NThreads' = NThreads  BY <1>1, <1>s, <1>t, <1>n DEF RunDirect, MainPlaces
  <2> QED  BY <1>1, <2>1, <1>n, <1>t DEF RunDirect, Room
<1>2. CASE DirectCallback
  <2>1. tasks \in Tasks  BY <1>2, <1>t, <1>n DEF DirectCallback, Room, Tasks
  <2>2. calledBack' \in Seq(Tasks)  BY <1>2, <1>t, <2>1, AppendType DEF DirectCallback
  <2>3. ManagerTypeOK' /\ NThreads' = NThreads  BY <1>2, <2>2, <1>s, <1>t, <1>n DEF DirectCallback, MainPlaces
  <2> QED  BY <1>2, <2>3 DEF DirectCallback, Room
<1>3. CASE ReturnDirect
  <2>1. ManagerTypeOK' /\ NThreads' = NThreads  BY <1>3, <1>s, <1>t, <1>n DEF ReturnDirect, MainPlaces
  <2> QED  BY <1>3, <2>1 DEF ReturnDirect, Room
<1>4. CASE RunAddThread
  <2>1. PICK w \in Workers \ threadList : worker' = [worker EXCEPT ![w] = "read"]  BY <1>4 DEF RunAddThread
  <2>2. NThreads' = NThreads + 1  BY <2>1, <1>t, ThreadAdded
  <2>3. NThreads' <= parallelGridding'  BY <1>4, <2>2, <1>n DEF RunAddThread, MayAddThread, NThreads
  <2>4. worker' \in [Workers -> WorkerPlaces]  BY <2>1, <1>t DEF WorkerPlaces
  <2>5. tasks' \in 0 .. MaxTasks /\ tasks' > 0  BY <1>4, <1>t, <1>n DEF RunAddThread
  <2>6. ManagerTypeOK'  BY <1>4, <1>t, <2>3, <2>4, <2>5 DEF RunAddThread, ManagerTypeOK, NThreads, MainPlaces
  <2> QED  BY <1>4, <1>n, <1>l, <2>2, <2>5, <2>6 DEF RunAddThread, Room
<1>5. CASE RunWithoutThread
  <2>1. ManagerTypeOK' /\ NThreads' = NThreads  BY <1>5, <1>s, <1>t, <1>n DEF RunWithoutThread, MainPlaces
  <2>2. NThreads = parallelGridding  BY <1>5, <1>n DEF RunWithoutThread, MayAddThread, NThreads
  <2> QED  BY <1>5, <1>n, <1>t, <2>1, <2>2 DEF RunWithoutThread, Room
<1>6. CASE WaitForEmptyTaskList
  <2>1. ManagerTypeOK' /\ NThreads' = NThreads  BY <1>6, <1>s, <1>t, <1>n DEF WaitForEmptyTaskList, MainPlaces
  <2>2. Len(taskList) = 0  BY <1>6, <1>t, EmptySeq DEF WaitForEmptyTaskList, TaskListDrained
  <2> QED  BY <1>6, <1>n, <2>1, <2>2 DEF WaitForEmptyTaskList, Room
<1>7. CASE Lock
  <2>1. ManagerTypeOK' /\ NThreads' = NThreads  BY <1>7, <1>s, <1>t, <1>n DEF Lock, MainPlaces
  <2> QED  BY <1>7, <2>1 DEF Lock, Room
<1>8. CASE RunCallback
  <2>1. LastOf(readyList) \in Tasks /\ WithoutLast(readyList) \in Seq(Tasks)
    BY <1>8, <1>t, FrontType DEF RunCallback, CallBackLast
  <2>2. calledBack' \in Seq(Tasks)  BY <1>8, <1>t, <2>1, AppendType DEF RunCallback, CallBackLast
  <2>3. ManagerTypeOK' /\ NThreads' = NThreads
    BY <1>8, <2>1, <2>2, <1>s, <1>t DEF RunCallback, CallBackLast, RemainingReady
  <2> QED  BY <1>8, <2>3 DEF RunCallback, CallBackLast, Room
<1>9. CASE WriteTask
  <2>1. tasks \in Tasks /\ ~ listEnded /\ Len(taskList) < NThreads  BY <1>9, <1>t, <1>n DEF WriteTask, Room, Tasks
  <2>2. taskList' \in Seq(Tasks) /\ Len(taskList') = Len(taskList) + 1  BY <1>9, <1>t, <2>1, AppendType DEF WriteTask
  <2>3. ManagerTypeOK' /\ NThreads' = NThreads  BY <1>9, <2>2, <1>s, <1>t DEF WriteTask, MainPlaces
  <2> QED  BY <1>9, <1>n, <1>l, <2>1, <2>2, <2>3 DEF WriteTask, Room
<1>10. CASE FinishDirect
  <2>1. ManagerTypeOK' /\ NThreads' = NThreads  BY <1>10, <1>s, <1>t, <1>n DEF FinishDirect, MainPlaces
  <2> QED  BY <1>10, <2>1 DEF FinishDirect, Room
<1>11. CASE Finish
  <2>1. ManagerTypeOK' /\ NThreads' = NThreads  BY <1>11, <1>s, <1>t, <1>n DEF Finish, BeginFinish, MainPlaces
  <2> QED  BY <1>11, <2>1 DEF Finish, BeginFinish, Room
<1>12. CASE DestroyWithThreads
  <2>1. ManagerTypeOK' /\ NThreads' = NThreads
    BY <1>12, <1>s, <1>t, <1>n DEF DestroyWithThreads, BeginFinish, MainPlaces
  <2> QED  BY <1>12, <2>1 DEF DestroyWithThreads, BeginFinish, Room
<1>13. CASE DestroyIdle
  <2>1. ManagerTypeOK' /\ NThreads' = NThreads  BY <1>13, <1>s, <1>t, <1>n DEF DestroyIdle, MainPlaces
  <2> QED  BY <1>13, <2>1 DEF DestroyIdle, Room
<1>14. CASE JoinAll
  <2>1. NThreads' = 0  BY <1>14, NoThreads DEF JoinAll
  <2>2. worker' \in [Workers -> WorkerPlaces]  BY <1>14 DEF JoinAll, WorkerPlaces
  <2>3. taskList' = <<>> /\ Len(taskList') = 0 /\ listEnded' = FALSE  BY <1>14, EmptySeq DEF JoinAll, EndedAfterClear
  <2>a. (Cardinality(threadList) <= parallelGridding)'  BY <1>14, <1>n, <2>1 DEF JoinAll, NThreads
  <2>b. taskList' \in Seq(Tasks)  BY <2>3
  <2>4. ManagerTypeOK'  BY <1>14, <1>t, <2>2, <2>3, <2>a, <2>b DEF JoinAll, ManagerTypeOK, MainPlaces
  <2>5. \A w \in Workers : worker'[w] # "grid"  BY <1>14 DEF JoinAll
  <2>6. main' = "drain"  BY <1>14 DEF JoinAll
  <2>7. \A w \in Workers : (worker[w] = "grid" => carries[w] \in Tasks)'  BY <2>5
  <2>8. Room'  BY <2>1, <2>3, <2>6, <2>7 DEF Room
  <2> QED  BY <2>4, <2>8
<1>15. CASE FinishCallback
  <2>1. LastOf(readyList) \in Tasks /\ WithoutLast(readyList) \in Seq(Tasks)
    BY <1>15, <1>t, FrontType DEF FinishCallback, CallBackLast
  <2>2. calledBack' \in Seq(Tasks)  BY <1>15, <1>t, <2>1, AppendType DEF FinishCallback, CallBackLast
  <2>3. ManagerTypeOK' /\ NThreads' = NThreads
    BY <1>15, <2>1, <2>2, <1>s, <1>t DEF FinishCallback, CallBackLast, RemainingReady
  <2> QED  BY <1>15, <2>3 DEF FinishCallback, CallBackLast, Room
<1>16. CASE FinishEnd
  <2>1. main' \in {"idle", "gone"} /\ main \in {"leave", "drain"}  BY <1>16 DEF FinishEnd
  <2>2. ManagerTypeOK' /\ NThreads' = NThreads  BY <1>16, <2>1, <1>s, <1>t, <1>n DEF FinishEnd, MainPlaces
  <2> QED  BY <1>16, <2>1, <2>2 DEF FinishEnd, Room
<1>17. ASSUME NEW w \in Workers, TakeTask(w) PROVE IInv'
  <2>1. w \in threadList /\ Len(taskList') = Len(taskList) - 1
        /\ taskList' \in Seq(Tasks) /\ Head(taskList) \in Tasks  BY <1>17, <1>t, HeadTailType DEF TakeTask, threadList
  <2>2. NThreads' = NThreads  BY <1>17, <1>t, <2>1, ThreadMoved DEF TakeTask, WorkerPlaces
  <2>3. worker' \in [Workers -> WorkerPlaces]  BY <1>17, <1>t DEF TakeTask, WorkerPlaces
  <2>4. carries' \in [Workers -> Tasks \cup {NoTask}]  BY <1>17, <1>t, <2>1 DEF TakeTask
  <2>5. ManagerTypeOK'  BY <1>17, <1>t, <1>n, <2>1, <2>2, <2>3, <2>4 DEF TakeTask, ManagerTypeOK, NThreads
  <2>6. \A v \in Workers : worker'[v] = "grid" => carries'[v] \in Tasks  BY <1>17, <1>t, <2>1 DEF TakeTask, Room
  <2>7. /\ main \notin {"join", "gone"} => ~ listEnded' /\ Len(taskList') <= NThreads'
        /\ main \in {"lock", "locked"} => Len(taskList') < NThreads'
        /\ main = "wait" => NThreads' = parallelGridding'  BY <1>17, <1>n, <1>l, <2>1, <2>2 DEF TakeTask, Room
  <2> QED  BY <1>17, <2>5, <2>6, <2>7 DEF TakeTask, Room
<1>18. ASSUME NEW w \in Workers, Publish(w) PROVE IInv'
  <2>1. w \in threadList  BY <1>18 DEF Publish, threadList
  <2>2. NThreads' = NThreads  BY <1>18, <1>t, <2>1, ThreadMoved DEF Publish, WorkerPlaces
  <2>3. worker' \in [Workers -> WorkerPlaces]  BY <1>18, <1>t DEF Publish, WorkerPlaces
  <2>4. carries' \in [Workers -> Tasks \cup {NoTask}]  BY <1>18, <1>t DEF Publish
  <2>5. carries[w] \in Tasks  BY <1>18 DEF Publish, Room
  <2>6. readyList' \in Seq(Tasks)  BY <1>18, <1>t, <2>5, AppendType DEF Publish
  <2>7. ManagerTypeOK'  BY <1>18, <1>t, <1>n, <2>2, <2>3, <2>4, <2>6 DEF Publish, ManagerTypeOK, NThreads
  <2>8. \A v \in Workers : worker'[v] = "grid" => carries'[v] \in Tasks  BY <1>18, <1>t DEF Publish, Room
  <2> QED  BY <1>18, <2>2, <2>7, <2>8 DEF Publish, Room
<1>19. ASSUME NEW w \in Workers, LeaveQueue(w) PROVE IInv'
  <2>1. w \in threadList  BY <1>19 DEF LeaveQueue, threadList
  <2>2. NThreads' = NThreads  BY <1>19, <1>t, <2>1, ThreadMoved DEF LeaveQueue, WorkerPlaces
  <2>3. worker' \in [Workers -> WorkerPlaces]  BY <1>19, <1>t DEF LeaveQueue, WorkerPlaces
  <2>4. ManagerTypeOK'  BY <1>19, <1>t, <1>n, <2>2, <2>3 DEF LeaveQueue, ManagerTypeOK, NThreads
  <2> QED  BY <1>19, <2>2, <2>4 DEF LeaveQueue, Room
<1>20. CASE Gone \/ UNCHANGED managerVars
  <2>1. UNCHANGED managerVars  BY <1>20 DEF Gone
  <2>2. ManagerTypeOK' /\ NThreads' = NThreads  BY <2>1, <1>s, <1>t DEF managerVars
  <2> QED  BY <2>1, <2>2 DEF managerVars, Room
<1> QED BY <1>1, <1>2, <1>3, <1>4, <1>5, <1>6, <1>7, <1>8, <1>9, <1>10, <1>11, <1>12, <1>13,
     <1>14, <1>15, <1>16, <1>17, <1>18, <1>19, <1>20
  DEF ManagerNext, MainSteps, WorkerSteps

----
\* TaskBatch.  A task that was accepted and not called back is in exactly
\* one place: in Run, in the list, with a worker or in the ready list.
Elements(s) == {s[i] : i \in DOMAIN s}
Distinct(s) == \A i, j \in DOMAIN s : s[i] = s[j] => i = j

Due == (1 .. tasks) \ CalledTasks
InRun == IF main \in {"direct", "wait", "lock", "locked"} THEN {tasks} ELSE {}
Gridding == {w \in Workers : worker[w] = "grid"}
Carried == {carries[w] : w \in Gridding}

OnePlace ==
  /\ CalledTasks \subseteq 1 .. tasks
  /\ Due = InRun \cup Elements(taskList) \cup Carried \cup Elements(readyList)
  /\ Distinct(taskList) /\ Distinct(readyList)
  /\ \A v, w \in Gridding : carries[v] = carries[w] => v = w
  /\ Elements(taskList) \cap Carried = {}
  /\ Elements(taskList) \cap Elements(readyList) = {}
  /\ Carried \cap Elements(readyList) = {}
  /\ InRun \cap (Elements(taskList) \cup Carried \cup Elements(readyList)) = {}

\* Without parallel gridding there are no threads and lists; with it, the list is empty when a
\* worker has left, and there is nobody when the last callbacks run.
Places ==
  /\ parallelGridding = 1 => /\ threadList = {} /\ taskList = <<>> /\ readyList = <<>>
                             /\ main \in {"idle", "direct", "return", "leave", "gone"}
  /\ main \in {"direct", "return", "leave"} => parallelGridding = 1
  /\ main = "join" => Len(taskList) <= NThreads
  /\ \A w \in Workers : worker[w] = "exited" => taskList = <<>> /\ main = "join"
  /\ main = "drain" => threadList = {} /\ taskList = <<>>
  /\ main = "gone" => threadList = {}
  /\ destroying => main \in {"join", "drain", "gone"}

\* Each of the first calls of Run in a batch starts a thread; the later ones find the list empty.
Backlog ==
  /\ /\ parallelGridding # 1 /\ NThreads < parallelGridding
     /\ main \notin {"join", "drain", "gone"}
     => Cardinality(Due) <= NThreads
  /\ main \in {"lock", "locked"} => taskList = <<>> \/ Cardinality(Due) <= NThreads

BatchInv == IInv /\ OnePlace /\ Places /\ Backlog

\* What is in a sequence that an element is added to or taken from.
LEMMA AppendElements ==
  ASSUME NEW S, NEW s \in Seq(S), NEW x \in S
  PROVE  /\ Elements(Append(s, x)) = Elements(s) \cup {x}
         /\ Distinct(s) /\ x \notin Elements(s) => Distinct(Append(s, x))
<1>1. /\ Len(s) \in Nat /\ DOMAIN s = 1 .. Len(s) /\ DOMAIN Append(s, x) = 1 .. Len(s) + 1
      /\ \A i \in 1 .. Len(s) : Append(s, x)[i] = s[i]
      /\ Append(s, x)[Len(s) + 1] = x  BY AppendProperties, LenProperties
<1>2. 1 .. Len(s) + 1 = (1 .. Len(s)) \cup {Len(s) + 1} /\ Len(s) + 1 \notin 1 .. Len(s) BY <1>1
<1> QED BY <1>1, <1>2 DEF Elements, Distinct

LEMMA FrontElements ==
  ASSUME NEW S, NEW s \in Seq(S), s # <<>>, Distinct(s)
  PROVE  /\ LastOf(s) \in Elements(s)
         /\ Elements(WithoutLast(s)) = Elements(s) \ {LastOf(s)}
         /\ Distinct(WithoutLast(s))
<1>1. Len(s) \in Nat \ {0} /\ DOMAIN s = 1 .. Len(s) BY EmptySeq, LenProperties
<1>2. /\ DOMAIN WithoutLast(s) = 1 .. Len(s) - 1
      /\ \A i \in 1 .. Len(s) - 1 : WithoutLast(s)[i] = s[i]  BY <1>1, SubSeqProperties DEF WithoutLast
<1>3. 1 .. Len(s) = (1 .. Len(s) - 1) \cup {Len(s)} /\ Len(s) \notin 1 .. Len(s) - 1 BY <1>1
<1> QED BY <1>1, <1>2, <1>3 DEF Elements, Distinct, LastOf

LEMMA TailElements ==
  ASSUME NEW S, NEW s \in Seq(S), s # <<>>, Distinct(s)
  PROVE  /\ Elements(s) = Elements(Tail(s)) \cup {Head(s)}
         /\ Head(s) \notin Elements(Tail(s))
         /\ Distinct(Tail(s))
<1>1. Len(s) \in Nat \ {0} /\ DOMAIN s = 1 .. Len(s) BY EmptySeq, LenProperties
<1>2. /\ Head(s) = s[1] /\ DOMAIN Tail(s) = 1 .. Len(s) - 1
      /\ \A i \in 1 .. Len(s) - 1 : Tail(s)[i] = s[i + 1]  BY <1>1, HeadTailProperties, LenProperties
<1>3. Elements(s) = {s[1]} \cup {s[i + 1] : i \in 1 .. Len(s) - 1}
  <2>1. \A k \in 1 .. Len(s) : k = 1 \/ (k - 1 \in 1 .. Len(s) - 1 /\ k = (k - 1) + 1) BY <1>1
  <2>2. \A i \in 1 .. Len(s) - 1 : i + 1 \in 1 .. Len(s) BY <1>1
  <2>3. 1 \in 1 .. Len(s) BY <1>1
  <2>4. ASSUME NEW e \in Elements(s) PROVE e \in {s[1]} \cup {s[i + 1] : i \in 1 .. Len(s) - 1}
    <3>1. PICK k \in 1 .. Len(s) : e = s[k] BY <1>1 DEF Elements
    <3>2. CASE k = 1 BY <3>1, <3>2
    <3>3. CASE k # 1
      <4>1. k - 1 \in 1 .. Len(s) - 1 /\ k = (k - 1) + 1 BY <2>1, <3>3
      <4>2. e = s[(k - 1) + 1] BY <3>1, <4>1
      <4> QED BY <4>1, <4>2
    <3> QED BY <3>2, <3>3
  <2>5. ASSUME NEW i \in 1 .. Len(s) - 1 PROVE s[i + 1] \in Elements(s)  BY <1>1, <2>2 DEF Elements
  <2>6. s[1] \in Elements(s) BY <1>1, <2>3 DEF Elements
  <2> QED BY <2>4, <2>5, <2>6
<1>4. Elements(Tail(s)) = {s[i + 1] : i \in 1 .. Len(s) - 1} BY <1>2 DEF Elements
<1>5. \A i \in 1 .. Len(s) - 1 : i + 1 \in 1 .. Len(s) /\ i + 1 # 1 BY <1>1
<1>6. s[1] \notin Elements(Tail(s)) BY <1>1, <1>4, <1>5 DEF Distinct
<1>7. Distinct(Tail(s)) BY <1>1, <1>2, <1>5 DEF Distinct
<1> QED BY <1>2, <1>3, <1>4, <1>6, <1>7

LEMMA NoElements == Elements(<<>>) = {} /\ Distinct(<<>>)  BY DEF Elements, Distinct

\* The invariant of the refinement: it holds at first, and every step keeps it.
LEMMA BatchInvInit == ManagerInit => BatchInv
<1> SUFFICES ASSUME ManagerInit PROVE BatchInv OBVIOUS
<1>1. IInv BY InitRoom
<1>2. threadList = {} /\ NThreads = 0  BY FS_EmptySet DEF ManagerInit, threadList, NThreads
<1>3. Gridding = {} /\ Carried = {} BY DEF ManagerInit, Gridding, Carried
<1>4. CalledTasks = {} /\ Due = {} BY DEF ManagerInit, CalledTasks, Due
<1>5. OnePlace BY <1>3, <1>4, NoElements DEF ManagerInit, OnePlace, InRun
<1>6. Places BY <1>2 DEF ManagerInit, Places
<1>7. Cardinality(Due) = 0 BY <1>4, FS_EmptySet
<1>8. Backlog BY <1>2, <1>7 DEF ManagerInit, Backlog
<1> QED BY <1>1, <1>5, <1>6, <1>8 DEF BatchInv

\* Whatever moves a task keeps it in one place.
LEMMA OnePlaceNext == ASSUME BatchInv, [ManagerNext]_managerVars PROVE OnePlace'
<1>t. /\ carries \in [Workers -> Tasks \cup {NoTask}] /\ worker \in [Workers -> WorkerPlaces]
      /\ taskList \in Seq(Tasks) /\ readyList \in Seq(Tasks) /\ calledBack \in Seq(Tasks)
      /\ tasks \in 0 .. MaxTasks /\ tasks \in Nat
  BY MaxTasksAssumption DEF BatchInv, IInv, ManagerTypeOK, MaxTasksAssumption
<1>p. OnePlace BY DEF BatchInv
<1>c. CalledTasks = Elements(calledBack) /\ CalledTasks' = Elements(calledBack') BY DEF CalledTasks, Elements
<1>g. ASSUME UNCHANGED <<worker, carries>> PROVE Gridding' = Gridding /\ Carried' = Carried
  BY <1>g DEF Gridding, Carried
<1>1. CASE RunDirect \/ RunAddThread \/ RunWithoutThread
  <2> USE DEF RunDirect, RunAddThread, RunWithoutThread
  <2>1. /\ main = "idle" /\ main' \in {"direct", "wait", "lock"} /\ tasks' = tasks + 1
        /\ UNCHANGED <<carries, taskList, readyList, calledBack>>  BY <1>1
  <2>2. Gridding' = Gridding BY <1>1, <1>t DEF Gridding, threadList
  <2>3. Carried' = Carried BY <2>1, <2>2 DEF Carried
  <2>4. InRun = {} /\ InRun' = {tasks + 1} BY <2>1 DEF InRun
  <2>5. 1 .. tasks' = (1 .. tasks) \cup {tasks + 1} /\ tasks + 1 \notin 1 .. tasks BY <2>1, <1>t
  <2>6. CalledTasks' = CalledTasks BY <2>1 DEF CalledTasks
  <2>7. Due' = Due \cup {tasks + 1} /\ tasks + 1 \notin Due BY <2>5, <2>6, <1>p DEF Due, OnePlace
  <2> QED BY <2>1, <2>2, <2>3, <2>4, <2>5, <2>6, <2>7, <1>p DEF OnePlace
<1>2. CASE DirectCallback
  <2> USE DEF DirectCallback
  <2>1. InRun = {tasks} /\ InRun' = {} BY <1>2 DEF InRun
  <2>2. tasks \in Tasks /\ tasks \in 1 .. tasks  BY <1>2, <1>t DEF BatchInv, IInv, Room, Tasks
  <2>3. CalledTasks' = CalledTasks \cup {tasks}  BY <1>2, <1>t, <1>c, <2>2, AppendElements
  <2>4. Due' = Due \ {tasks} BY <1>2, <2>3 DEF Due
  <2> QED BY <1>2, <1>g, <1>p, <2>1, <2>2, <2>3, <2>4 DEF OnePlace
<1>3. CASE ReturnDirect \/ WaitForEmptyTaskList \/ Lock \/ FinishDirect \/ Finish \/ DestroyWithThreads \/ DestroyIdle \/ FinishEnd
  <2> USE DEF ReturnDirect, WaitForEmptyTaskList, Lock, FinishDirect, Finish, DestroyWithThreads, BeginFinish, DestroyIdle, FinishEnd
  <2>1. UNCHANGED <<worker, carries, taskList, readyList, calledBack, tasks>> BY <1>3
  <2>2. InRun' = InRun BY <1>3 DEF InRun
  <2> QED BY <1>g, <1>p, <2>1, <2>2 DEF OnePlace, Due, CalledTasks
<1>4. CASE RunCallback \/ FinishCallback
  <2> USE DEF RunCallback, FinishCallback, CallBackLast, RemainingReady
  <2>1. /\ readyList # <<>> /\ calledBack' = Append(calledBack, LastOf(readyList)) /\ readyList' = WithoutLast(readyList)
        /\ UNCHANGED <<worker, carries, taskList, main, tasks>>  BY <1>4
  <2>2. LastOf(readyList) \in Tasks BY <2>1, <1>t, FrontType
  <2>3. /\ LastOf(readyList) \in Elements(readyList) /\ Distinct(readyList')
        /\ Elements(readyList') = Elements(readyList) \ {LastOf(readyList)}
    BY <2>1, <1>t, <1>p, FrontElements DEF OnePlace
  <2>4. CalledTasks' = CalledTasks \cup {LastOf(readyList)}  BY <2>1, <2>2, <1>t, <1>c, AppendElements
  <2>5. LastOf(readyList) \in 1 .. tasks BY <2>3, <1>p DEF OnePlace, Due
  <2>6. Due' = Due \ {LastOf(readyList)} BY <2>1, <2>4 DEF Due
  <2>7. InRun' = InRun BY <2>1 DEF InRun
  <2> QED BY <1>g, <1>p, <2>1, <2>3, <2>4, <2>5, <2>6, <2>7 DEF OnePlace
<1>5. CASE WriteTask
  <2> USE DEF WriteTask
  <2>1. tasks \in Tasks /\ ~ listEnded  BY <1>5, <1>t DEF BatchInv, IInv, Room, Tasks
  <2>2. taskList' = Append(taskList, tasks) BY <1>5, <2>1
  <2>3. InRun = {tasks} /\ InRun' = {} BY <1>5 DEF InRun
  <2>4. tasks \notin Elements(taskList) BY <2>3, <1>p DEF OnePlace
  <2>5. Elements(taskList') = Elements(taskList) \cup {tasks} /\ Distinct(taskList')
    BY <2>1, <2>2, <2>4, <1>t, <1>p, AppendElements DEF OnePlace
  <2>6. Due' = Due /\ CalledTasks' = CalledTasks BY <1>5 DEF Due, CalledTasks
  <2> QED BY <1>5, <1>g, <1>p, <2>3, <2>5, <2>6 DEF OnePlace
<1>6. CASE JoinAll
  <2> USE DEF JoinAll
  <2>1. \A w \in Workers : worker[w] # "grid"  BY <1>6, <1>t DEF AllJoinable, threadList
  <2>2. Gridding = {} /\ Carried = {} BY <2>1 DEF Gridding, Carried
  <2>3. Gridding' = {} /\ Carried' = {} BY <1>6 DEF Gridding, Carried
  <2>4. taskList = <<>>
    <3>1. CASE threadList = {}
      <4>1. NThreads = 0 BY <3>1, FS_EmptySet DEF NThreads
      <4>2. Len(taskList) <= 0 BY <1>6, <4>1 DEF BatchInv, Places
      <4> QED BY <4>2, <1>t, EmptySeq, LenProperties
    <3>2. CASE threadList # {}
      <4>1. PICK w \in threadList : TRUE BY <3>2
      <4>2. w \in Workers /\ worker[w] = "exited" BY <1>6, <4>1 DEF AllJoinable, threadList
      <4> QED BY <4>2 DEF BatchInv, Places
    <3> QED BY <3>1, <3>2
  <2>5. taskList' = taskList /\ UNCHANGED <<readyList, calledBack, tasks>> BY <1>6, <2>4
  <2>6. InRun' = InRun BY <1>6 DEF InRun
  <2>7. Due' = Due /\ CalledTasks' = CalledTasks BY <2>5 DEF Due, CalledTasks
  <2> QED BY <1>p, <2>2, <2>3, <2>5, <2>6, <2>7 DEF OnePlace
<1>7. ASSUME NEW w \in Workers, TakeTask(w) PROVE OnePlace'
  <2> USE DEF TakeTask
  <2>1. /\ Elements(taskList) = Elements(taskList') \cup {Head(taskList)}
        /\ Head(taskList) \notin Elements(taskList') /\ Distinct(taskList')
    BY <1>7, <1>t, <1>p, TailElements DEF OnePlace
  <2>2. Gridding' = Gridding \cup {w} /\ w \notin Gridding BY <1>7, <1>t DEF Gridding
  <2>3. carries'[w] = Head(taskList) /\ \A v \in Workers \ {w} : carries'[v] = carries[v] BY <1>7, <1>t
  <2>4. Carried' = Carried \cup {Head(taskList)} BY <2>2, <2>3 DEF Carried, Gridding
  <2>5. \A v \in Gridding : carries[v] # Head(taskList) BY <2>1, <1>p DEF OnePlace, Carried
  <2>6. \A u, v \in Gridding' : carries'[u] = carries'[v] => u = v  BY <2>2, <2>3, <2>5, <1>p DEF OnePlace, Gridding
  <2>7. UNCHANGED <<readyList, calledBack, tasks>> /\ InRun' = InRun BY <1>7 DEF InRun
  <2>8. Due' = Due /\ CalledTasks' = CalledTasks BY <2>7 DEF Due, CalledTasks
  <2> QED BY <1>p, <2>1, <2>4, <2>6, <2>7, <2>8 DEF OnePlace
<1>8. ASSUME NEW w \in Workers, Publish(w) PROVE OnePlace'
  <2> USE DEF Publish
  <2>1. w \in Gridding /\ carries[w] \in Carried /\ carries[w] \in Tasks
    BY <1>8 DEF Gridding, Carried, BatchInv, IInv, Room
  <2>2. carries[w] \notin Elements(readyList) BY <2>1, <1>p DEF OnePlace
  <2>3. Elements(readyList') = Elements(readyList) \cup {carries[w]} /\ Distinct(readyList')
    BY <1>8, <1>t, <1>p, <2>1, <2>2, AppendElements DEF OnePlace
  <2>4. Gridding' = Gridding \ {w} BY <1>8, <1>t DEF Gridding
  <2>5. \A v \in Workers \ {w} : carries'[v] = carries[v] BY <1>8, <1>t
  <2>6. \A v \in Gridding \ {w} : carries[v] # carries[w] BY <2>1, <1>p DEF OnePlace
  <2>7. Carried' = Carried \ {carries[w]} BY <2>4, <2>5, <2>6 DEF Carried, Gridding
  <2>8. \A u, v \in Gridding' : carries'[u] = carries'[v] => u = v  BY <2>4, <2>5, <1>p DEF OnePlace, Gridding
  <2>9. UNCHANGED <<taskList, calledBack, tasks>> /\ InRun' = InRun BY <1>8 DEF InRun
  <2>10. Due' = Due /\ CalledTasks' = CalledTasks BY <2>9 DEF Due, CalledTasks
  <2> QED BY <1>p, <2>1, <2>3, <2>7, <2>8, <2>9, <2>10 DEF OnePlace
<1>9. ASSUME NEW w \in Workers, LeaveQueue(w) PROVE OnePlace'
  <2>1. Gridding' = Gridding BY <1>9, <1>t DEF LeaveQueue, Gridding
  <2>2. UNCHANGED <<carries, taskList, readyList, calledBack, tasks, main>> BY <1>9 DEF LeaveQueue
  <2> QED BY <1>p, <2>1, <2>2 DEF OnePlace, Carried, Due, CalledTasks, InRun
<1>10. CASE Gone \/ UNCHANGED managerVars
  <2>1. UNCHANGED managerVars BY <1>10 DEF Gone
  <2> QED BY <1>p, <1>g, <2>1 DEF managerVars, OnePlace, Due, CalledTasks, InRun
<1> QED BY <1>1, <1>2, <1>3, <1>4, <1>5, <1>6, <1>7, <1>8, <1>9, <1>10 DEF ManagerNext, MainSteps, WorkerSteps

\* The places agree with the lists.
LEMMA PlacesNext == ASSUME BatchInv, [ManagerNext]_managerVars PROVE Places'
<1>t. /\ worker \in [Workers -> WorkerPlaces] /\ taskList \in Seq(Tasks) /\ readyList \in Seq(Tasks)
      /\ parallelGridding \in Nat \ {0} /\ NThreads \in Nat /\ Len(taskList) \in Nat
  <2>1. /\ worker \in [Workers -> WorkerPlaces] /\ taskList \in Seq(Tasks) /\ readyList \in Seq(Tasks)
        /\ parallelGridding \in 1 .. Cardinality(Workers)  BY DEF BatchInv, IInv, ManagerTypeOK
  <2>2. Cardinality(Workers) \in Nat BY WorkersAssumption, FS_CardinalityType DEF WorkersAssumption
  <2>3. parallelGridding \in Nat \ {0} BY <2>1, <2>2
  <2> QED BY <2>1, <2>3, ThreadCount, LenProperties
<1>p. Places /\ Room BY DEF BatchInv, IInv
<1>1. CASE RunDirect \/ DirectCallback \/ ReturnDirect \/ FinishDirect
  <2>1. parallelGridding = 1  BY <1>1, <1>p DEF RunDirect, DirectCallback, ReturnDirect, FinishDirect, Places
  <2>2. threadList' = threadList  BY <1>1 DEF RunDirect, DirectCallback, ReturnDirect, FinishDirect, threadList
  <2> QED BY <1>1, <1>p, <2>1, <2>2 DEF RunDirect, DirectCallback, ReturnDirect, FinishDirect, Places
<1>2. CASE RunAddThread
  <2>1. PICK w \in Workers \ threadList : worker' = [worker EXCEPT ![w] = "read"]  BY <1>2 DEF RunAddThread
  <2>2. parallelGridding # 1 /\ main = "idle" /\ main' = "lock"
        /\ UNCHANGED <<parallelGridding, taskList, readyList, destroying>>  BY <1>2 DEF RunAddThread
  <2>3. \A v \in Workers : worker'[v] = "exited" => worker[v] = "exited" BY <2>1, <1>t
  <2> QED BY <1>p, <2>2, <2>3 DEF Places
<1>3. CASE RunWithoutThread \/ WaitForEmptyTaskList \/ Lock \/ RunCallback \/ WriteTask
  <2> USE DEF RunWithoutThread, WaitForEmptyTaskList, Lock, RunCallback, CallBackLast, WriteTask
  <2>1. /\ parallelGridding # 1 /\ main \in {"idle", "wait", "lock", "locked"}
        /\ main' \in {"idle", "wait", "lock", "locked"}
        /\ UNCHANGED <<parallelGridding, worker, destroying>>  BY <1>3, <1>p DEF Places
  <2>2. ~ destroying /\ \A w \in Workers : worker[w] # "exited" BY <2>1, <1>p DEF Places
  <2> QED BY <1>p, <2>1, <2>2 DEF Places
<1>4. CASE Finish \/ DestroyWithThreads
  <2> USE DEF Finish, DestroyWithThreads, BeginFinish
  <2>1. threadList' = threadList BY <1>4 DEF threadList
  <2>2. NThreads' = NThreads BY <2>1 DEF NThreads
  <2>3. Len(taskList) <= NThreads BY <1>4, <1>p DEF Room
  <2> QED BY <1>4, <1>p, <2>1, <2>2, <2>3 DEF Places
<1>5. CASE DestroyIdle
  <2>1. threadList' = threadList BY <1>5 DEF DestroyIdle, threadList
  <2> QED BY <1>5, <1>p, <2>1 DEF DestroyIdle, Places
<1>6. CASE JoinAll
  <2>1. parallelGridding # 1 BY <1>6, <1>p DEF JoinAll, Places
  <2>2. threadList' = {} BY <1>6 DEF JoinAll, threadList
  <2> QED BY <1>6, <1>p, <2>1, <2>2 DEF JoinAll, Places
<1>7. CASE FinishCallback
  <2> USE DEF FinishCallback, CallBackLast
  <2>1. main = "drain" /\ UNCHANGED <<parallelGridding, worker, taskList, main, destroying>> BY <1>7
  <2>2. threadList' = threadList BY <2>1 DEF threadList
  <2> QED BY <1>p, <2>1, <2>2 DEF Places
<1>8. CASE FinishEnd
  <2>1. threadList' = threadList BY <1>8 DEF FinishEnd, threadList
  <2> QED BY <1>8, <1>p, <2>1 DEF FinishEnd, Places
<1>9. ASSUME NEW w \in Workers, WorkerSteps(w) PROVE Places'
  <2> USE DEF WorkerSteps, TakeTask, Publish, LeaveQueue, NothingLeftToRead
  <2>1. w \in threadList /\ worker' \in [Workers -> WorkerPlaces] /\ threadList' = threadList
    BY <1>9, <1>t DEF threadList, WorkerPlaces
  <2>2. NThreads' = NThreads BY <2>1 DEF NThreads
  <2>3. UNCHANGED <<parallelGridding, main, destroying>> BY <1>9
  <2>4. parallelGridding # 1 /\ main # "drain" BY <2>1, <1>p DEF Places
  <2>5. CASE TakeTask(w)
    <3>1. Len(taskList') = Len(taskList) - 1 BY <2>5, <1>t, HeadTailType
    <3>2. \A v \in Workers : worker'[v] # "exited"  BY <2>5, <1>p, <1>t DEF Places
    <3> QED BY <1>p, <1>t, <2>1, <2>2, <2>3, <2>4, <3>1, <3>2 DEF Places
  <2>6. CASE Publish(w)
    <3>1. \A v \in Workers : worker'[v] = "exited" => worker[v] = "exited" BY <2>6, <1>t
    <3> QED BY <2>6, <1>p, <2>1, <2>2, <2>3, <2>4, <3>1 DEF Places
  <2>7. CASE LeaveQueue(w)
    <3>1. taskList = <<>> /\ listEnded /\ taskList' = taskList BY <2>7
    <3>2. main = "join"
      <4>1. main \in {"join", "gone"} BY <3>1, <1>p DEF Room
      <4>2. main # "gone" BY <2>1, <1>p DEF Places
      <4> QED BY <4>1, <4>2
    <3> QED BY <1>p, <2>1, <2>2, <2>3, <2>4, <3>1, <3>2 DEF Places
  <2> QED BY <1>9, <2>5, <2>6, <2>7
<1>10. CASE Gone \/ UNCHANGED managerVars
  <2>1. UNCHANGED managerVars BY <1>10 DEF Gone
  <2>2. threadList' = threadList BY <2>1 DEF managerVars, threadList
  <2>3. NThreads' = NThreads BY <2>2 DEF NThreads
  <2> QED BY <1>p, <2>1, <2>2, <2>3 DEF managerVars, Places
<1> QED BY <1>1, <1>2, <1>3, <1>4, <1>5, <1>6, <1>7, <1>8, <1>9, <1>10 DEF ManagerNext, MainSteps

\* There are finitely many tasks, and what is with the workers is no more than the threads.
LEMMA DueCount ==
  ASSUME tasks \in Nat
  PROVE  /\ IsFiniteSet(Due) /\ Cardinality(Due) \in Nat
         /\ \A S \in SUBSET Due : IsFiniteSet(S) /\ Cardinality(S) <= Cardinality(Due)
<1>1. IsFiniteSet(1 .. tasks) BY FS_Interval
<1>2. IsFiniteSet(Due) BY <1>1, FS_Subset DEF Due
<1> QED BY <1>2, FS_CardinalityType, FS_Subset

LEMMA CarriedCount ==
  ASSUME worker \in [Workers -> WorkerPlaces]
  PROVE  IsFiniteSet(Carried) /\ Cardinality(Carried) \in Nat /\ Cardinality(Carried) <= NThreads
<1> DEFINE f == [w \in Gridding |-> carries[w]]
<1>1. Gridding \subseteq threadList BY DEF Gridding, threadList
<1>2. IsFiniteSet(threadList) /\ NThreads \in Nat BY ThreadCount
<1>3. IsFiniteSet(Gridding) /\ Cardinality(Gridding) <= NThreads /\ Cardinality(Gridding) \in Nat
  BY <1>1, <1>2, FS_Subset, FS_CardinalityType DEF NThreads
<1>4. f \in Surjection(Gridding, Carried) BY DEF Surjection, Carried
<1>5. IsFiniteSet(Carried) /\ Cardinality(Carried) <= Cardinality(Gridding)  BY <1>3, <1>4, FS_Surjection
<1>6. Cardinality(Carried) \in Nat BY <1>5, FS_CardinalityType
<1> QED BY <1>2, <1>3, <1>5, <1>6

\* A step that starts no Run leaves no more to be done than before.
LEMMA DueShrinks ==
  ASSUME BatchInv, [ManagerNext]_managerVars, tasks' = tasks
  PROVE  Due' \subseteq Due
<1>1. calledBack \in Seq(Tasks) BY DEF BatchInv, IInv, ManagerTypeOK
<1>2. \A x : /\ DOMAIN calledBack \subseteq DOMAIN Append(calledBack, x)
             /\ \A i \in DOMAIN calledBack : Append(calledBack, x)[i] = calledBack[i]  BY <1>1
<1>3. \/ calledBack' = calledBack
      \/ calledBack' = Append(calledBack, tasks)
      \/ calledBack' = Append(calledBack, LastOf(readyList))
  BY DEF ManagerNext, MainSteps, WorkerSteps, managerVars, RunDirect, RunAddThread, RunWithoutThread, FinishDirect,
         Finish, DestroyWithThreads, BeginFinish, DestroyIdle, DirectCallback, ReturnDirect, WaitForEmptyTaskList, Lock,
         RunCallback, CallBackLast, WriteTask, JoinAll, FinishCallback, FinishEnd, TakeTask, Publish, LeaveQueue, Gone
<1>4. CalledTasks \subseteq CalledTasks' BY <1>2, <1>3 DEF CalledTasks
<1> QED BY <1>4 DEF Due

\* Nothing is left when the threads have ended and the last callbacks have run.
LEMMA NothingDue ==
  ASSUME OnePlace, threadList = {}, taskList = <<>>, readyList = <<>>, InRun = {},
         worker \in [Workers -> WorkerPlaces]
  PROVE  Due = {} /\ Cardinality(Due) = 0
<1>1. Gridding = {} BY DEF Gridding, threadList
<1>2. Carried = {} BY <1>1 DEF Carried
<1>3. Due = {} BY <1>2, NoElements DEF OnePlace
<1> QED BY <1>3, FS_EmptySet

\* Every step keeps the tasks that are left within the threads and the list.
LEMMA BacklogNext == ASSUME BatchInv, [ManagerNext]_managerVars PROVE Backlog'
<1>t. /\ worker \in [Workers -> WorkerPlaces] /\ taskList \in Seq(Tasks) /\ readyList \in Seq(Tasks)
      /\ tasks \in Nat /\ NThreads \in Nat
  BY ThreadCount, MaxTasksAssumption DEF BatchInv, IInv, ManagerTypeOK, MaxTasksAssumption
<1>d. IsFiniteSet(Due) /\ Cardinality(Due) \in Nat BY <1>t, DueCount
<1>s. \* a step that starts no Run
      ASSUME tasks' = tasks PROVE Cardinality(Due') <= Cardinality(Due) /\ Cardinality(Due') \in Nat
  <2>1. Due' \in SUBSET Due BY <1>s, DueShrinks
  <2>2. IsFiniteSet(Due') /\ Cardinality(Due') <= Cardinality(Due) BY <1>t, <2>1, DueCount
  <2> QED BY <2>2, FS_CardinalityType
<1>p. Backlog /\ Places /\ OnePlace /\ Room BY DEF BatchInv, IInv
<1>1. CASE RunDirect \/ DirectCallback \/ ReturnDirect \/ FinishDirect
  BY <1>1, <1>p DEF RunDirect, DirectCallback, ReturnDirect, FinishDirect, Places, Backlog
<1>2. CASE RunAddThread
  <2>1. PICK w \in Workers \ threadList : worker' = [worker EXCEPT ![w] = "read"]  BY <1>2 DEF RunAddThread
  <2>2. NThreads' = NThreads + 1 BY <2>1, <1>t, ThreadAdded
  <2>3. Cardinality(Due) <= NThreads  BY <1>2, <1>p DEF RunAddThread, MayAddThread, Backlog, NThreads
  <2>4. Due' \subseteq Due \cup {tasks + 1}
    <3>1. 1 .. tasks' = (1 .. tasks) \cup {tasks + 1} BY <1>2, <1>t DEF RunAddThread
    <3>2. CalledTasks' = CalledTasks BY <1>2 DEF RunAddThread, CalledTasks
    <3> QED BY <3>1, <3>2 DEF Due
  <2>5. /\ IsFiniteSet(Due \cup {tasks + 1})
        /\ Cardinality(Due \cup {tasks + 1}) <= Cardinality(Due) + 1
        /\ Cardinality(Due \cup {tasks + 1}) \in Nat
    <3>1. /\ IsFiniteSet(Due \cup {tasks + 1})
          /\ Cardinality(Due \cup {tasks + 1}) = IF tasks + 1 \in Due THEN Cardinality(Due) ELSE Cardinality(Due) + 1
      BY <1>d, FS_AddElement
    <3> QED BY <1>d, <3>1, FS_CardinalityType
  <2>6. Cardinality(Due') <= Cardinality(Due \cup {tasks + 1}) /\ IsFiniteSet(Due')  BY <2>4, <2>5, FS_Subset
  <2>7. Cardinality(Due') \in Nat BY <2>6, FS_CardinalityType
  <2>8. Cardinality(Due') <= NThreads' BY <1>d, <1>t, <2>2, <2>3, <2>5, <2>6, <2>7
  <2> QED BY <2>8 DEF Backlog
<1>3. CASE RunWithoutThread
  <2>1. threadList' = threadList BY <1>3 DEF RunWithoutThread, threadList
  <2>2. ~ (NThreads' < parallelGridding') BY <1>3, <2>1 DEF RunWithoutThread, MayAddThread, NThreads
  <2>3. main' = "wait" BY <1>3 DEF RunWithoutThread
  <2> QED BY <2>2, <2>3 DEF Backlog
<1>4. CASE WaitForEmptyTaskList \/ Lock \/ RunCallback \/ WriteTask
  <2> USE DEF WaitForEmptyTaskList, Lock, RunCallback, CallBackLast, WriteTask
  <2>1. tasks' = tasks /\ UNCHANGED <<worker, parallelGridding>> BY <1>4
  <2>2. threadList' = threadList BY <2>1 DEF threadList
  <2>3. NThreads' = NThreads BY <2>2 DEF NThreads
  <2>4. Cardinality(Due') <= Cardinality(Due) /\ Cardinality(Due') \in Nat BY <2>1, <1>s
  <2>5. main \notin {"join", "drain", "gone"} BY <1>4
  <2>6. parallelGridding' # 1 /\ NThreads' < parallelGridding' => Cardinality(Due') <= NThreads'
    <3> HAVE parallelGridding' # 1 /\ NThreads' < parallelGridding'
    <3>1. Cardinality(Due) <= NThreads BY <2>1, <2>3, <2>5, <1>p DEF Backlog
    <3> QED BY <3>1, <2>3, <2>4, <1>d, <1>t
  <2>7. main' \in {"lock", "locked"} => taskList' = <<>> \/ Cardinality(Due') <= NThreads'
    <3> HAVE main' \in {"lock", "locked"}
    <3>1. taskList' = taskList BY <1>4
    <3>2. CASE WaitForEmptyTaskList BY <3>1, <3>2 DEF TaskListDrained
    <3>3. CASE ~ WaitForEmptyTaskList
      <4>1. main \in {"lock", "locked"} BY <1>4, <3>3
      <4>2. taskList = <<>> \/ Cardinality(Due) <= NThreads BY <4>1, <1>p DEF Backlog
      <4> QED BY <3>1, <4>2, <2>3, <2>4, <1>d, <1>t
    <3> QED BY <3>2, <3>3
  <2> QED BY <2>6, <2>7 DEF Backlog
<1>5. CASE Finish \/ DestroyWithThreads \/ DestroyIdle \/ JoinAll \/ FinishCallback
  <2>1. main' \in {"join", "drain", "gone"}
    BY <1>5 DEF Finish, DestroyWithThreads, BeginFinish, DestroyIdle, JoinAll, FinishCallback, CallBackLast
  <2> QED BY <2>1 DEF Backlog
<1>6. CASE FinishEnd
  <2>1. main' \in {"idle", "gone"} BY <1>6 DEF FinishEnd
  <2>2. CASE main = "leave"  BY <1>6, <2>1, <2>2, <1>p DEF FinishEnd, Places, Backlog
  <2>3. CASE main = "drain"
    <3>1. threadList = {} /\ taskList = <<>> /\ readyList = <<>> BY <1>6, <2>3, <1>p DEF FinishEnd, Places
    <3>2. InRun = {} BY <2>3 DEF InRun
    <3>3. Cardinality(Due) = 0 BY <1>p, <1>t, <3>1, <3>2, NothingDue
    <3>4. tasks' = tasks /\ worker' = worker BY <1>6 DEF FinishEnd
    <3>5. Cardinality(Due') <= 0 BY <3>3, <3>4, <1>s
    <3>6. NThreads' = NThreads BY <3>4 DEF NThreads, threadList
    <3>7. Cardinality(Due') <= NThreads' BY <1>s, <1>t, <3>4, <3>5, <3>6
    <3> QED BY <3>7 DEF Backlog
  <2> QED BY <1>6, <2>2, <2>3 DEF FinishEnd
<1>7. ASSUME NEW w \in Workers, WorkerSteps(w) PROVE Backlog'
  <2> USE DEF WorkerSteps, TakeTask, Publish, LeaveQueue
  <2>1. w \in threadList /\ worker' \in [Workers -> WorkerPlaces] /\ threadList' = threadList
    BY <1>7, <1>t DEF threadList, WorkerPlaces
  <2>2. NThreads' = NThreads BY <2>1 DEF NThreads
  <2>3. UNCHANGED <<parallelGridding, main, tasks>> BY <1>7
  <2>4. Cardinality(Due') <= Cardinality(Due) /\ Cardinality(Due') \in Nat BY <2>3, <1>s
  <2>5. parallelGridding' # 1 /\ NThreads' < parallelGridding' /\ main' \notin {"join", "drain", "gone"}
        => Cardinality(Due') <= NThreads'
    <3> HAVE parallelGridding' # 1 /\ NThreads' < parallelGridding' /\ main' \notin {"join", "drain", "gone"}
    <3>1. Cardinality(Due) <= NThreads BY <2>2, <2>3, <1>p DEF Backlog
    <3> QED BY <3>1, <2>2, <2>4, <1>d, <1>t
  <2>6. main' \in {"lock", "locked"} => taskList' = <<>> \/ Cardinality(Due') <= NThreads'
    <3> HAVE main' \in {"lock", "locked"}
    <3>1. taskList = <<>> \/ Cardinality(Due) <= NThreads BY <2>3, <1>p DEF Backlog
    <3>2. taskList = <<>> => taskList' = <<>> BY <1>7
    <3> QED BY <3>1, <3>2, <2>2, <2>4, <1>d, <1>t
  <2> QED BY <2>5, <2>6 DEF Backlog
<1>8. CASE Gone \/ UNCHANGED managerVars
  <2>1. UNCHANGED managerVars BY <1>8 DEF Gone
  <2>2. threadList' = threadList BY <2>1 DEF managerVars, threadList
  <2>3. NThreads' = NThreads /\ Due' = Due BY <2>1, <2>2 DEF managerVars, NThreads, Due, CalledTasks
  <2> QED BY <1>p, <2>1, <2>3 DEF managerVars, Backlog
<1> QED BY <1>1, <1>2, <1>3, <1>4, <1>5, <1>6, <1>7, <1>8 DEF ManagerNext, MainSteps

\* The three together.
LEMMA BatchInvNext == BatchInv /\ [ManagerNext]_managerVars => BatchInv'
BY RoomInductive, OnePlaceNext, PlacesNext, BacklogNext DEF BatchInv

\* When Run has handed over its task, there is one for each thread and one in the list, or there
\* are no more than threads.
LEMMA RoomForTheRest ==
  ASSUME BatchInv, main = "locked", readyList = <<>>
  PROVE  Cardinality(Due) <= parallelGridding + 1
<1>t. /\ worker \in [Workers -> WorkerPlaces] /\ tasks \in Nat /\ NThreads \in Nat
      /\ parallelGridding \in Nat /\ NThreads <= parallelGridding
  <2>1. /\ worker \in [Workers -> WorkerPlaces] /\ tasks \in 0 .. MaxTasks
        /\ parallelGridding \in 1 .. Cardinality(Workers) /\ NThreads <= parallelGridding
    BY DEF BatchInv, IInv, ManagerTypeOK, NThreads
  <2>2. Cardinality(Workers) \in Nat BY WorkersAssumption, FS_CardinalityType DEF WorkersAssumption
  <2>3. parallelGridding \in Nat BY <2>1, <2>2
  <2>4. tasks \in Nat BY <2>1, MaxTasksAssumption DEF MaxTasksAssumption
  <2> QED BY <2>1, <2>3, <2>4, ThreadCount
<1>d. Cardinality(Due) \in Nat BY <1>t, DueCount
<1>1. CASE Cardinality(Due) <= NThreads BY <1>1, <1>t, <1>d
<1>2. CASE taskList = <<>>
  <2>1. Due = Carried \cup {tasks} BY <1>2, NoElements DEF BatchInv, OnePlace, InRun
  <2>2. IsFiniteSet(Carried) /\ Cardinality(Carried) \in Nat /\ Cardinality(Carried) <= NThreads
    BY <1>t, CarriedCount
  <2>3. Cardinality(Due) <= Cardinality(Carried) + 1 BY <2>1, <2>2, FS_AddElement
  <2> QED BY <1>t, <1>d, <2>2, <2>3
<1> QED BY <1>1, <1>2 DEF BatchInv, Backlog

\* The instance counts as this module does.
LEMMA SameCardinality == ASSUME NEW S PROVE Batch!Cardinality(S) = Cardinality(S)
BY DEF Batch!Cardinality, Cardinality

\* Every step is one of TaskBatch, or none.
LEMMA StepRefines == BatchInv /\ [ManagerNext]_managerVars => [Batch!BatchNext]_(Batch!vars)
<1> SUFFICES ASSUME BatchInv, [ManagerNext]_managerVars PROVE [Batch!BatchNext]_(Batch!vars) OBVIOUS
<1>t. /\ worker \in [Workers -> WorkerPlaces] /\ tasks \in Nat
      /\ readyList \in Seq(Tasks) /\ calledBack \in Seq(Tasks)
  BY MaxTasksAssumption DEF BatchInv, IInv, ManagerTypeOK, MaxTasksAssumption
<1>p. OnePlace /\ Places /\ Backlog /\ Room BY DEF BatchInv, IInv
<1>o. Batch!Outstanding = Due BY DEF Batch!Outstanding, Due
<1>c. \* the callback of a task
      ASSUME NEW x \in Due, x \in Tasks, calledBack' = Append(calledBack, x), UNCHANGED <<parallelGridding, tasks>>,
             ClientOf \in {"run", "finish"}, ClientOf' = ClientOf
      PROVE  Batch!BatchNext
  <2>1. Elements(calledBack') = Elements(calledBack) \cup {x} BY <1>c, <1>t, AppendElements
  <2>2. CalledTasks' = CalledTasks \cup {x} BY <2>1 DEF CalledTasks, Elements
  <2>3. Batch!CallbackOf(x) BY <1>c, <2>2 DEF Batch!CallbackOf, Unreturned
  <2> QED BY <1>o, <2>3 DEF Batch!BatchNext, Batch!Callback
<1>1. CASE RunDirect \/ RunAddThread \/ RunWithoutThread
  <2> USE DEF RunDirect, RunAddThread, RunWithoutThread
  <2>1. /\ main = "idle" /\ main' \in {"direct", "lock", "wait"} /\ tasks' = tasks + 1
        /\ UNCHANGED <<calledBack, parallelGridding>>  BY <1>1
  <2>2. ClientOf = "idle" /\ ClientOf' = "run" BY <2>1 DEF ClientOf
  <2> QED BY <2>1, <2>2 DEF Batch!BatchNext, Batch!CallRun, CalledTasks, Unreturned
<1>2. CASE DirectCallback
  <2>1. tasks \in Due /\ tasks \in Tasks
    BY <1>2, <1>p DEF DirectCallback, OnePlace, InRun, BatchInv, IInv, Room, ManagerTypeOK, Tasks
  <2>2. ClientOf = "run" /\ ClientOf' = "run" BY <1>2 DEF DirectCallback, ClientOf
  <2> QED BY <1>2, <1>c, <2>1, <2>2 DEF DirectCallback
<1>3. CASE ReturnDirect
  <2>1. /\ main = "return" /\ main' = "idle" /\ UNCHANGED <<tasks, calledBack, parallelGridding>>
    BY <1>3 DEF ReturnDirect
  <2>2. parallelGridding = 1 /\ threadList = {} /\ taskList = <<>> /\ readyList = <<>>  BY <2>1, <1>p DEF Places
  <2>3. InRun = {} BY <2>1 DEF InRun
  <2>4. Cardinality(Due) = 0 BY <1>p, <1>t, <2>2, <2>3, NothingDue
  <2>5. ClientOf = "run" /\ ClientOf' = "idle" BY <2>1 DEF ClientOf
  <2>6. Cardinality(Due) <= Unreturned BY <2>2, <2>4 DEF Unreturned
  <2> QED BY <1>o, <2>1, <2>5, <2>6, SameCardinality DEF Batch!BatchNext, Batch!ReturnRun, CalledTasks, Unreturned
<1>4. CASE RunCallback \/ FinishCallback
  <2> USE DEF RunCallback, FinishCallback, CallBackLast
  <2>1. LastOf(readyList) \in Elements(readyList) BY <1>4, <1>t, <1>p, FrontElements DEF OnePlace
  <2>2. LastOf(readyList) \in Due /\ LastOf(readyList) \in Tasks  BY <1>4, <1>t, <1>p, <2>1, FrontType DEF OnePlace
  <2>3. ClientOf \in {"run", "finish"} /\ ClientOf' = ClientOf BY <1>4 DEF ClientOf
  <2> QED BY <1>4, <1>c, <2>2, <2>3
<1>5. CASE WriteTask
  <2>1. /\ main = "locked" /\ main' = "idle" /\ readyList = <<>>
        /\ UNCHANGED <<tasks, calledBack, parallelGridding>>  BY <1>5 DEF WriteTask
  <2>2. Cardinality(Due) <= parallelGridding + 1 BY <2>1, RoomForTheRest
  <2>3. parallelGridding # 1 BY <2>1, <1>p DEF Places
  <2>4. ClientOf = "run" /\ ClientOf' = "idle" BY <2>1 DEF ClientOf
  <2> QED BY <1>o, <2>1, <2>2, <2>3, <2>4, SameCardinality DEF Batch!BatchNext, Batch!ReturnRun, CalledTasks, Unreturned
<1>6. CASE FinishDirect \/ Finish \/ DestroyWithThreads
  <2> USE DEF FinishDirect, Finish, DestroyWithThreads, BeginFinish
  <2>1. /\ main = "idle" /\ main' \in {"leave", "join"} /\ UNCHANGED <<tasks, calledBack, parallelGridding>>  BY <1>6
  <2>2. ClientOf = "idle" /\ ClientOf' = "finish" BY <2>1 DEF ClientOf
  <2> QED BY <2>1, <2>2 DEF Batch!BatchNext, Batch!CallFinish, CalledTasks, Unreturned
<1>7. CASE DestroyIdle
  <2>1. /\ main = "idle" /\ main' = "gone" /\ threadList = {} /\ UNCHANGED <<tasks, calledBack, parallelGridding>>
    BY <1>7 DEF DestroyIdle
  <2>2. ClientOf = "idle" /\ ClientOf' = "gone" BY <2>1 DEF ClientOf
  <2>3. Due = {}
    <3>1. CASE parallelGridding = 1
      <4>1. taskList = <<>> /\ readyList = <<>> BY <3>1, <1>p DEF Places
      <4>2. InRun = {} BY <2>1 DEF InRun
      <4> QED BY <1>p, <1>t, <2>1, <4>1, <4>2, NothingDue
    <3>2. CASE parallelGridding # 1
      <4>1. NThreads = 0 BY <2>1, FS_EmptySet DEF NThreads
      <4>2. NThreads < parallelGridding
        <5>1. parallelGridding \in 1 .. Cardinality(Workers) /\ Cardinality(Workers) \in Nat
          BY WorkersAssumption, FS_CardinalityType DEF WorkersAssumption, BatchInv, IInv, ManagerTypeOK
        <5> QED BY <4>1, <5>1
      <4>3. Cardinality(Due) <= 0 BY <2>1, <3>2, <4>1, <4>2, <1>p DEF Backlog
      <4>4. IsFiniteSet(Due) /\ Cardinality(Due) \in Nat BY <1>t, DueCount
      <4>5. Cardinality(Due) = 0 BY <4>3, <4>4
      <4> QED BY <4>4, <4>5, FS_EmptySet
    <3> QED BY <3>1, <3>2
  <2> QED BY <1>o, <2>1, <2>2, <2>3 DEF Batch!BatchNext, Batch!QuickFinish, CalledTasks, Unreturned
<1>8. CASE FinishEnd
  <2>1. /\ main \in {"leave", "drain"} /\ main' \in {"idle", "gone"} /\ UNCHANGED <<tasks, calledBack, parallelGridding>>
    BY <1>8 DEF FinishEnd
  <2>2. ClientOf = "finish" /\ ClientOf' \in {"idle", "gone"} BY <2>1 DEF ClientOf
  <2>3. threadList = {} /\ taskList = <<>> /\ readyList = <<>> BY <1>8, <1>p DEF FinishEnd, Places
  <2>4. InRun = {} BY <2>1 DEF InRun
  <2>5. Due = {} BY <1>p, <1>t, <2>3, <2>4, NothingDue
  <2> QED BY <1>o, <2>1, <2>2, <2>5 DEF Batch!BatchNext, Batch!ReturnFinish, CalledTasks, Unreturned
<1>9. \* the other steps are not seen by the caller
      ASSUME UNCHANGED <<tasks, calledBack, parallelGridding>>, ClientOf' = ClientOf
      PROVE  UNCHANGED Batch!vars  BY <1>9 DEF Batch!vars, CalledTasks, Unreturned
<1>10. CASE WaitForEmptyTaskList \/ Lock \/ JoinAll
  <2> USE DEF WaitForEmptyTaskList, Lock, JoinAll
  <2>1. ClientOf' = ClientOf BY <1>10 DEF ClientOf
  <2> QED BY <1>9, <1>10, <2>1
<1>11. ASSUME NEW w \in Workers, WorkerSteps(w) PROVE UNCHANGED Batch!vars
  BY <1>9, <1>11 DEF WorkerSteps, TakeTask, Publish, LeaveQueue, ClientOf
<1>12. CASE Gone \/ UNCHANGED managerVars  BY <1>9, <1>12 DEF Gone, managerVars, ClientOf
<1> QED BY <1>1, <1>2, <1>3, <1>4, <1>5, <1>6, <1>7, <1>8, <1>10, <1>11, <1>12 DEF ManagerNext, MainSteps

----
\* The results.

\* The manager's state keeps its types, and never has more threads than
\* -parallel-gridding asks for.
THEOREM ManagerTypes == ManagerSpec => []ManagerTypeOK
<1>1. IInv => ManagerTypeOK  BY DEF IInv
<1> QED  BY <1>1, InitRoom, RoomInductive, PTL DEF ManagerSpec

\* However many workers and tasks, Run never waits for room in _taskList while
\* it holds the mutex that the workers need, and never writes to an ended list.
THEOREM ManagerNeverBlocksHoldingMutex == ManagerSpec => []NeverBlocksHoldingMutex
<1>1. IInv => NeverBlocksHoldingMutex
  <2> SUFFICES ASSUME IInv, main \in {"lock", "locked"}
               PROVE  ~ listEnded /\ Len(taskList) < parallelGridding  BY DEF NeverBlocksHoldingMutex
  <2>1. ~ listEnded /\ Len(taskList) < NThreads  BY DEF IInv, Room
  <2>2. NThreads <= parallelGridding  BY DEF IInv, ManagerTypeOK, NThreads
  <2>3. NThreads \in Nat  BY ThreadCount DEF IInv, ManagerTypeOK
  <2>4. Len(taskList) \in Nat /\ parallelGridding \in Int
    <3>1. Cardinality(Workers) \in Nat  BY WorkersAssumption, FS_CardinalityType DEF WorkersAssumption
    <3>2. taskList \in Seq(Tasks)  BY DEF IInv, ManagerTypeOK
    <3>3. Len(taskList) \in Nat  BY <3>2, LenProperties
    <3> QED  BY <3>1, <3>3 DEF IInv, ManagerTypeOK
  <2> QED  BY <2>1, <2>2, <2>3, <2>4
<1> QED  BY <1>1, InitRoom, RoomInductive, PTL DEF ManagerSpec

\* Whatever the number of workers and tasks, every task that Run accepted and that was not called
\* back is in one place: with Run, in the task lane, with one worker or in the ready list, and once
\* there; no task is called back that is not accepted (griddingtaskmanager.cpp, Run and processQueue).
THEOREM ManagerKeepsTasks == ManagerSpec => []OnePlace
<1>1. BatchInv => OnePlace BY DEF BatchInv
<1> QED BY <1>1, BatchInvInit, BatchInvNext, PTL DEF ManagerSpec

\* Whatever the number of workers and tasks, a task that Run accepted is called back once, within
\* Run or Finish; Run leaves no more than parallelGridding + 1 tasks, and Finish none
\* (griddingtaskmanager.cpp, Run and Finish).
THEOREM ManagerImplementsBatch == ManagerSpec => BatchRefinement
<1>1. ManagerInit => Batch!BatchInit
  <2> SUFFICES ASSUME ManagerInit PROVE Batch!BatchInit OBVIOUS
  <2>1. CalledTasks = {} /\ ClientOf = "idle" BY DEF ManagerInit, CalledTasks, ClientOf
  <2>2. Cardinality(Workers) \in Nat BY WorkersAssumption, FS_CardinalityType DEF WorkersAssumption
  <2>3. parallelGridding \in 1 .. Cardinality(Workers) BY DEF ManagerInit
  <2>4. parallelGridding \in Nat BY <2>2, <2>3
  <2>5. Unreturned \in Nat BY <2>4 DEF Unreturned
  <2> QED BY <2>1, <2>5 DEF ManagerInit, Batch!BatchInit
<1> QED BY <1>1, BatchInvInit, BatchInvNext, StepRefines, PTL DEF ManagerSpec, BatchRefinement, Batch!BatchSpec
=============================================================================
