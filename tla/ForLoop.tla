------------------------------ MODULE ForLoop ------------------------------
(***************************************************************************)
(* What a caller of ParallelFor::Run relies on (aocommon/parallelfor.h):   *)
(* "it is called (end-start) times", that is, once for every iteration,    *)
(* by any threads and in any order, and all calls have returned when Run   *)
(* returns.                                                                *)
(***************************************************************************)
EXTENDS Naturals

CONSTANT Lengths   \* bound: the sizes of the ranges

VARIABLES
  runs,      \* how many calls of Run there were
  running,   \* whether the last of them has not returned
  todo,      \* its iterations whose function call has not started
  active     \* the calls that have not returned: <<run, iteration>>

loopVars == <<runs, running, todo, active>>

LoopInit == runs = 0 /\ running = FALSE /\ todo = {} /\ active = {}

Start ==
  /\ ~ running
  /\ runs' = runs + 1
  /\ running' = TRUE
  /\ \E size \in Lengths : todo' = 1 .. size
  /\ UNCHANGED active

Call(i) ==
  /\ i \in todo
  /\ todo' = todo \ {i}
  /\ active' = active \cup {<<runs, i>>}
  /\ UNCHANGED <<runs, running>>

Return(call) ==
  /\ call \in active
  /\ active' = active \ {call}
  /\ UNCHANGED <<runs, running, todo>>

Finish ==
  /\ running /\ todo = {} /\ active = {}
  /\ running' = FALSE
  /\ UNCHANGED <<runs, todo, active>>

LoopNext == Start \/ (\E i \in todo : Call(i)) \/ (\E call \in active : Return(call)) \/ Finish

LoopSpec == LoopInit /\ [][LoopNext]_loopVars
=============================================================================
