----------------------------- MODULE TaskBatch -----------------------------
(***************************************************************************)
(* What WSClean relies on when it hands gridding tasks to the              *)
(* GriddingTaskManager: one thread calls Run for every task and then       *)
(* Finish; the callback of an accepted task runs exactly once, in any      *)
(* order, but only while that thread is inside Run or Finish, so callbacks *)
(* need no lock of their own; Finish returns when no callback is left; and *)
(* Run does not return with more than Backlog tasks still to be called     *)
(* back.                                                                   *)
(***************************************************************************)
EXTENDS Naturals, FiniteSets

VARIABLES
  accepted,   \* number of tasks given to Run so far, 1 .. accepted
  called,     \* those whose callback has run
  client,     \* where the calling thread is
  backlog     \* bound on the tasks that Run may leave behind

vars == <<accepted, called, client, backlog>>

Outstanding == (1 .. accepted) \ called

BatchInit ==
  /\ accepted = 0
  /\ called = {}
  /\ client = "idle"
  /\ backlog \in Nat

CallRun ==
  /\ client = "idle"
  /\ accepted' = accepted + 1
  /\ client' = "run"
  /\ UNCHANGED <<called, backlog>>

CallbackOf(t) ==
  /\ client \in {"run", "finish"}
  /\ called' = called \cup {t}
  /\ UNCHANGED <<accepted, client, backlog>>

Callback == \E t \in Outstanding : CallbackOf(t)

ReturnRun ==
  /\ client = "run"
  /\ Cardinality(Outstanding) <= backlog
  /\ client' = "idle"
  /\ UNCHANGED <<accepted, called, backlog>>

CallFinish ==
  /\ client = "idle"
  /\ client' = "finish"
  /\ UNCHANGED <<accepted, called, backlog>>

\* After Finish the manager is idle again, or destroyed.
ReturnFinish ==
  /\ client = "finish"
  /\ Outstanding = {}
  /\ client' \in {"idle", "gone"}
  /\ UNCHANGED <<accepted, called, backlog>>

\* Finish with nothing to do, and destruction without it.
QuickFinish ==
  /\ client = "idle"
  /\ Outstanding = {}
  /\ client' = "gone"
  /\ UNCHANGED <<accepted, called, backlog>>

BatchNext == CallRun \/ Callback \/ ReturnRun \/ CallFinish \/ ReturnFinish \/ QuickFinish

BatchSpec == BatchInit /\ [][BatchNext]_vars
=============================================================================
