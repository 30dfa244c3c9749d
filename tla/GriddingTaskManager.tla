------------------------ MODULE GriddingTaskManager ------------------------
(***************************************************************************)
(* GriddingTaskManager (wsclean/griddingtaskmanager.cpp).  The thread that *)
(* drives the imaging calls Run for each gridding task and Finish for each *)
(* batch; worker threads take tasks from _taskList, grid them, and publish *)
(* the result on _readyList.  The callbacks of published results run in    *)
(* the calling thread, during a later Run or during Finish.                *)
(*                                                                         *)
(* _taskList is an ao::lane of parallelGridding elements; here it is the   *)
(* first-in first-out queue that module Lane implements.  A task is the    *)
(* number of the Run call that brought it.                                 *)
(***************************************************************************)
EXTENDS Integers, Sequences, FiniteSets

CONSTANTS
  Workers,     \* identities for the worker threads
  MaxTasks     \* bound: calls of Run

ASSUME WorkersAssumption == IsFiniteSet(Workers)
ASSUME MaxTasksAssumption == MaxTasks \in Nat

VARIABLES
  parallelGridding,   \* _settings.parallelGridding
  worker,             \* where each worker is; "none": not in _threadList
  carries,            \* the task a worker is gridding
  taskList,           \* _taskList
  listEnded,              \* write_end() was called on _taskList
  readyList,          \* _readyList
  locked,             \* the calling thread holds _mutex
  main,               \* where the calling thread is
  tasks,              \* number of calls of Run so far
  calledBack,             \* history: tasks in the order of their callbacks
  destroying          \* Finish was called by the destructor

managerVars == <<parallelGridding, worker, carries, taskList, listEnded, readyList, locked,
          main, tasks, calledBack, destroying>>

threadList == {w \in Workers : worker[w] # "none"}
NoTask == 0
LastOf(s) == s[Len(s)]
WithoutLast(s) == SubSeq(s, 1, Len(s) - 1)

ManagerInit ==
  /\ parallelGridding \in 1 .. Cardinality(Workers)
  /\ worker = [w \in Workers |-> "none"]
  /\ carries = [w \in Workers |-> NoTask]
  /\ taskList = <<>>
  /\ listEnded = FALSE
  /\ readyList = <<>>
  /\ locked = FALSE
  /\ main = "idle"
  /\ tasks = 0
  /\ calledBack = <<>>
  /\ destroying = FALSE

(***************************************************************************)
(* Run.                                                                    *)
(***************************************************************************)

\* Run, up to the point where it may have to wait: without parallel gridding
\* the task is gridded at once; otherwise a thread is added until there are
\* parallelGridding of them, and from then on Run waits for an empty list.
RunDirect ==
  /\ main = "idle" /\ tasks < MaxTasks /\ parallelGridding = 1
  /\ tasks' = tasks + 1
  /\ main' = "direct"
  /\ UNCHANGED <<parallelGridding, worker, carries, taskList, listEnded, readyList,
                 locked, calledBack, destroying>>

DirectCallback ==
  /\ main = "direct"
  /\ calledBack' = Append(calledBack, tasks)
  /\ main' = "return"
  /\ UNCHANGED <<parallelGridding, worker, carries, taskList, listEnded, readyList,
                 locked, tasks, destroying>>

ReturnDirect ==
  /\ main = "return"
  /\ main' = "idle"
  /\ UNCHANGED <<parallelGridding, worker, carries, taskList, listEnded, readyList,
                 locked, tasks, calledBack, destroying>>

MayAddThread == Cardinality(threadList) < parallelGridding

RunAddThread ==
  /\ main = "idle" /\ tasks < MaxTasks /\ parallelGridding # 1
  /\ MayAddThread
  /\ \E w \in Workers \ threadList : worker' = [worker EXCEPT ![w] = "read"]
  /\ tasks' = tasks + 1
  /\ main' = "lock"
  /\ UNCHANGED <<parallelGridding, carries, taskList, listEnded, readyList, locked,
                 calledBack, destroying>>

RunWithoutThread ==
  /\ main = "idle" /\ tasks < MaxTasks /\ parallelGridding # 1
  /\ ~ MayAddThread
  /\ tasks' = tasks + 1
  /\ main' = "wait"
  /\ UNCHANGED <<parallelGridding, worker, carries, taskList, listEnded, readyList,
                 locked, calledBack, destroying>>

\* wait_for_empty returns when every queued task was taken by a worker.
NoNeedToWait == TRUE   \* mutant
TaskListDrained == taskList = <<>>

WaitForEmptyTaskList ==
  /\ main = "wait"
  /\ TaskListDrained
  /\ main' = "lock"
  /\ UNCHANGED <<parallelGridding, worker, carries, taskList, listEnded, readyList,
                 locked, tasks, calledBack, destroying>>

Lock ==
  /\ main = "lock"
  /\ locked' = TRUE
  /\ main' = "locked"
  /\ UNCHANGED <<parallelGridding, worker, carries, taskList, listEnded, readyList,
                 tasks, calledBack, destroying>>

\* The callback at the back of _readyList runs, then the entry is removed.
RemainingReady == WithoutLast(readyList)

CallBackLast(where) ==
  /\ main = where /\ readyList # <<>>
  /\ calledBack' = Append(calledBack, LastOf(readyList))
  /\ readyList' = RemainingReady
  /\ UNCHANGED <<parallelGridding, worker, carries, taskList, listEnded, locked,
                 main, tasks, destroying>>

RunCallback == CallBackLast("locked")

\* _taskList.write with _mutex held.  A lane whose end was announced drops
\* what is written to it, and a full one makes the writer wait.
WriteTask ==
  /\ main = "locked" /\ readyList = <<>>
  /\ listEnded \/ Len(taskList) < parallelGridding
  /\ taskList' = IF listEnded THEN taskList ELSE Append(taskList, tasks)
  /\ locked' = FALSE
  /\ main' = "idle"
  /\ UNCHANGED <<parallelGridding, worker, carries, listEnded, readyList, tasks,
                 calledBack, destroying>>

(***************************************************************************)
(* Finish, and the destructor that calls it while there are threads.       *)
(***************************************************************************)

\* The guard that makes Finish do nothing without parallel gridding.
FinishDirect ==
  /\ main = "idle" /\ parallelGridding = 1
  /\ main' = "leave"
  /\ UNCHANGED <<parallelGridding, worker, carries, taskList, listEnded, readyList,
                 locked, tasks, calledBack, destroying>>

BeginFinish(byDestructor) ==
  /\ main = "idle" /\ parallelGridding # 1
  /\ byDestructor => threadList # {}
  /\ listEnded' = TRUE
  /\ destroying' = byDestructor
  /\ main' = "join"
  /\ UNCHANGED <<parallelGridding, worker, carries, taskList, readyList, locked,
                 tasks, calledBack>>

Finish == BeginFinish(FALSE)
DestroyWithThreads == BeginFinish(TRUE)

DestroyIdle ==
  /\ main = "idle" /\ threadList = {}
  /\ main' = "gone"
  /\ UNCHANGED <<parallelGridding, worker, carries, taskList, listEnded, readyList,
                 locked, tasks, calledBack, destroying>>

\* Every thread has left processQueue: join, forget the threads, and make the
\* lane ready for the next batch.
JoinNobody == TRUE   \* mutant
AllJoinable == \A w \in threadList : worker[w] = "exited"
StaysEnded == TRUE   \* mutant
EndedAfterClear == FALSE

JoinAll ==
  /\ main = "join"
  /\ AllJoinable
  /\ worker' = [w \in Workers |-> "none"]
  /\ taskList' = <<>>
  /\ listEnded' = EndedAfterClear
  /\ main' = "drain"
  /\ UNCHANGED <<parallelGridding, carries, readyList, locked, tasks, calledBack,
                 destroying>>

\* The last callbacks run without the lock: no other thread is left.
FinishCallback == CallBackLast("drain")

FinishEnd ==
  /\ main = "leave" \/ (main = "drain" /\ readyList = <<>>)
  /\ main' = IF destroying THEN "gone" ELSE "idle"
  /\ UNCHANGED <<parallelGridding, worker, carries, taskList, listEnded, readyList,
                 locked, tasks, calledBack, destroying>>

(***************************************************************************)
(* processQueue.                                                           *)
(***************************************************************************)
TakeTask(w) ==
  /\ worker[w] = "read" /\ taskList # <<>>
  /\ carries' = [carries EXCEPT ![w] = Head(taskList)]
  /\ taskList' = Tail(taskList)
  /\ worker' = [worker EXCEPT ![w] = "grid"]
  /\ UNCHANGED <<parallelGridding, listEnded, readyList, locked, main, tasks, calledBack,
                 destroying>>

\* runDirect is over: append the result to _readyList under _mutex.
MayPublish == ~ locked

Publish(w) ==
  /\ worker[w] = "grid" /\ MayPublish
  /\ readyList' = Append(readyList, carries[w])
  /\ carries' = [carries EXCEPT ![w] = NoTask]
  /\ worker' = [worker EXCEPT ![w] = "read"]
  /\ UNCHANGED <<parallelGridding, taskList, listEnded, locked, main, tasks, calledBack,
                 destroying>>

NothingLeftToRead == listEnded /\ taskList = <<>>

LeaveQueue(w) ==
  /\ worker[w] = "read" /\ NothingLeftToRead
  /\ worker' = [worker EXCEPT ![w] = "exited"]
  /\ UNCHANGED <<parallelGridding, carries, taskList, listEnded, readyList, locked,
                 main, tasks, calledBack, destroying>>

Gone == main = "gone" /\ UNCHANGED managerVars

MainSteps ==
  \/ DirectCallback \/ ReturnDirect \/ WaitForEmptyTaskList \/ Lock \/ RunCallback \/ WriteTask
  \/ JoinAll \/ FinishCallback \/ FinishEnd
WorkerSteps(w) == TakeTask(w) \/ Publish(w) \/ LeaveQueue(w)

ManagerNext ==
  \/ RunDirect \/ RunAddThread \/ RunWithoutThread
  \/ FinishDirect \/ Finish \/ DestroyWithThreads \/ DestroyIdle
  \/ MainSteps
  \/ \E w \in Workers : WorkerSteps(w)
  \/ Gone

ManagerSpec == ManagerInit /\ [][ManagerNext]_managerVars

\* Each thread keeps running and gridding a task ends (weak fairness of MainSteps and of
\* WorkerSteps, in MCThreads); that the caller makes another call is not assumed.
\* std::mutex is not fair, but the holder of _mutex only runs callbacks and one write, so
\* each waiter gets it.

(***************************************************************************)
(* Properties.                                                             *)
(***************************************************************************)
MainPlaces == {"idle", "direct", "return", "wait", "lock", "locked", "join", "drain",
               "leave", "gone"}
WorkerPlaces == {"none", "read", "grid", "exited"}
Tasks == 1 .. MaxTasks

\* Types of the manager's state.
ManagerTypeOK ==
  /\ parallelGridding \in 1 .. Cardinality(Workers)
  /\ worker \in [Workers -> WorkerPlaces]
  /\ Cardinality(threadList) <= parallelGridding
  /\ carries \in [Workers -> Tasks \cup {NoTask}]
  /\ taskList \in Seq(Tasks)
  /\ readyList \in Seq(Tasks)
  /\ calledBack \in Seq(Tasks)
  /\ listEnded \in BOOLEAN /\ locked \in BOOLEAN /\ destroying \in BOOLEAN
  /\ main \in MainPlaces
  /\ tasks \in 0 .. MaxTasks

\* Run writes to _taskList while it holds _mutex, and every worker needs that
\* mutex to publish: if the lane could be full, or could have ended, at that
\* point, the imaging would deadlock or lose the task.  It never is.
NeverBlocksHoldingMutex ==
  main \in {"lock", "locked"} => ~ listEnded /\ Len(taskList) < parallelGridding

\* What Run may leave behind: one task for each thread, plus the one that was
\* just handed over (their images and weights are all in memory).
Unreturned == (IF parallelGridding = 1 THEN 0 ELSE parallelGridding + 1)

\* The manager keeps what WSClean relies on: callbacks once and only within a
\* call, none left after Finish, a bounded backlog after Run.
ClientOf ==
  CASE main \in {"direct", "return", "wait", "lock", "locked"} -> "run"
    [] main \in {"join", "drain", "leave"} -> "finish"
    [] OTHER -> main
CalledTasks == {calledBack[i] : i \in DOMAIN calledBack}
Batch == INSTANCE TaskBatch WITH
  accepted <- tasks, called <- CalledTasks, client <- ClientOf, backlog <- Unreturned
BatchRefinement == Batch!BatchSpec
=============================================================================
