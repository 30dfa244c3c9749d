--------------------- MODULE ThreadedDeconvolutionTools ---------------------
(***************************************************************************)
(* The threads that transform, search and subtract for the multi-scale and *)
(* the CLEAN algorithm.  Every thread has a lane of one task and a lane of *)
(* one result; the owner hands the images of a call out round by round.    *)
(*                                                                         *)
(* The memory of an image holds what was done to it: the kernels it was    *)
(* convolved with, or the slices of rows that a psf was subtracted from.   *)
(***************************************************************************)
EXTENDS Integers, Sequences, SequencesExt

CONSTANTS
  ToolThreads,   \* _threadCount
  ToolCalls,     \* the calls that are made
  MaxCalls       \* bound: how many calls are made

\* Without a scale of its own for each image, the owner has one kernel for all.
ASSUME ToolsAssumption ==
  /\ ToolThreads \in Nat \ {0}
  /\ \A c \in ToolCalls :
       /\ c.op \in {"find peaks", "transform", "transform one scale", "subtract"}
       /\ c.scales \in Seq(Nat)
       /\ c.op = "transform one scale" => \A i \in DOMAIN c.scales : c.scales[i] = c.scales[1]

VARIABLES
  toolCall,      \* the call of the owner
  owner,         \* where the owner is in it
  imageIndex,
  nextThread,    \* tasks handed out in this round
  readThread,    \* results read in this round
  taskLanes, resultLanes,
  toolThread,    \* what each thread does, with its task
  memory,        \* what the buffers hold
  results,
  callsMade

toolVars == <<toolCall, owner, imageIndex, nextThread, readThread, taskLanes, resultLanes, toolThread,
              memory, results, callsMade>>

ToolLanes == 0 .. ToolThreads - 1

\* The images of the caller, one copy and one scratch buffer per thread, and a shared kernel.
ImageBuffer(i) == <<"image", i>>
CopyOf(thr) == <<"copy", thr>>
ScratchOfFirst(thr) == <<"scratch", 0>>   \* mutant: the threads share a scratch image
ScratchOf(thr) == <<"scratch", thr>>
Kernel == <<"kernel", 0>>

BuffersOf(c) ==
  {Kernel} \cup {ImageBuffer(i) : i \in DOMAIN c.scales \cup {1}}
    \cup {CopyOf(t) : t \in ToolLanes} \cup {ScratchOf(t) : t \in ToolLanes}

NoCall == [op |-> "none", scales |-> <<>>]
NoToolTask == [op |-> "none", image |-> Kernel, scratch |-> Kernel, scale |-> 0, mask |-> 0]

\* The images of the call, or the slices of a subtraction, of which each thread has one.
Count == IF toolCall.op = "subtract" THEN ToolThreads ELSE Len(toolCall.scales)

\* The task for an image.  The mask of a peak search is the one of its scale.
TaskFor(i, thr) ==
  [op |-> toolCall.op,
   image |-> CASE toolCall.op = "find peaks" -> CopyOf(thr)
               [] toolCall.op = "subtract" -> ImageBuffer(1)
               [] OTHER -> ImageBuffer(i),
   scratch |-> IF toolCall.op = "transform one scale" THEN Kernel ELSE ScratchOf(thr),
   scale |-> IF toolCall.op = "subtract" THEN i ELSE toolCall.scales[i],
   mask |-> i]

ToolsInit ==
  /\ toolCall = NoCall /\ owner = "idle" /\ callsMade = 0
  /\ imageIndex = 1 /\ nextThread = 0 /\ readThread = 0
  /\ taskLanes = [t \in ToolLanes |-> <<>>] /\ resultLanes = [t \in ToolLanes |-> <<>>]
  /\ toolThread = [t \in ToolLanes |-> [at |-> "idle", task |-> NoToolTask]]
  /\ memory = [b \in BuffersOf(NoCall) |-> <<>>] /\ results = <<>>

-----------------------------------------------------------------------------
(* The owner *)

\* With one scale for all images the owner prepares the kernel.
Call(c) ==
  /\ owner = "idle" /\ callsMade < MaxCalls
  /\ callsMade' = callsMade + 1 /\ toolCall' = c
  /\ imageIndex' = 1 /\ results' = <<>> /\ owner' = "prepare"
  /\ memory' = [b \in BuffersOf(c) |->
                  IF b = Kernel /\ c.op = "transform one scale" THEN <<c.scales[1]>> ELSE <<>>]
  /\ UNCHANGED <<nextThread, readThread, taskLanes, resultLanes, toolThread>>

\* The last slice of a subtraction is for the owner itself.
IsOwn == toolCall.op = "subtract" /\ imageIndex = ToolThreads

\* A peak search works on a copy of the image.
PrepareTask ==
  /\ owner = "prepare" /\ imageIndex <= Count /\ ~IsOwn
  /\ memory' = IF toolCall.op = "find peaks" THEN [memory EXCEPT ![CopyOf(nextThread)] = <<>>] ELSE memory
  /\ owner' = "write"
  /\ UNCHANGED <<toolCall, imageIndex, nextThread, readThread, taskLanes, resultLanes, toolThread, results, callsMade>>

WriteToolTask ==
  /\ owner = "write" /\ taskLanes[nextThread] = <<>>
  /\ taskLanes' = [taskLanes EXCEPT ![nextThread] = <<TaskFor(imageIndex, nextThread)>>]
  /\ imageIndex' = imageIndex + 1 /\ nextThread' = nextThread + 1
  /\ owner' = IF nextThread + 1 = ToolThreads THEN "read" ELSE "prepare"
  /\ UNCHANGED <<toolCall, readThread, resultLanes, toolThread, memory, results, callsMade>>

SubtractOwn ==
  /\ owner = "prepare" /\ imageIndex <= Count /\ IsOwn
  /\ memory' = [memory EXCEPT ![ImageBuffer(1)] = Append(@, imageIndex)]
  /\ imageIndex' = imageIndex + 1
  /\ UNCHANGED <<toolCall, owner, nextThread, readThread, taskLanes, resultLanes, toolThread, results, callsMade>>

LastRound ==
  /\ owner = "prepare" /\ imageIndex > Count /\ owner' = "read"
  /\ UNCHANGED <<toolCall, imageIndex, nextThread, readThread, taskLanes, resultLanes, toolThread, memory, results, callsMade>>

\* Results are read in the order of the threads.
ResultPlace == Len(results) + 1
ReadResult ==
  /\ owner = "read" /\ readThread < nextThread /\ resultLanes[readThread] # <<>>
  /\ results' = IF toolCall.op = "find peaks"
                  THEN [i \in 1 .. ResultPlace |->
                          IF i = ResultPlace THEN Head(resultLanes[readThread]) ELSE results[i]]
                  ELSE results
  /\ resultLanes' = [resultLanes EXCEPT ![readThread] = <<>>]
  /\ readThread' = readThread + 1
  /\ UNCHANGED <<toolCall, owner, imageIndex, nextThread, taskLanes, toolThread, memory, callsMade>>

\* The next round, or the call returns.
RoundDone ==
  /\ owner = "read" /\ readThread = nextThread
  /\ nextThread' = 0 /\ readThread' = 0
  /\ owner' = IF imageIndex > Count THEN "idle" ELSE "prepare"
  /\ UNCHANGED <<toolCall, imageIndex, taskLanes, resultLanes, toolThread, memory, results, callsMade>>

\* write_end for every lane.
DestroyTools ==
  /\ owner = "idle" /\ owner' = "join"
  /\ UNCHANGED <<toolCall, imageIndex, nextThread, readThread, taskLanes, resultLanes, toolThread, memory, results, callsMade>>

JoinTools ==
  /\ owner = "join" /\ \A t \in ToolLanes : toolThread[t].at = "gone"
  /\ owner' = "gone"
  /\ UNCHANGED <<toolCall, imageIndex, nextThread, readThread, taskLanes, resultLanes, toolThread, memory, results, callsMade>>

OwnerStep ==
  \/ PrepareTask \/ WriteToolTask \/ SubtractOwn \/ LastRound \/ ReadResult \/ RoundDone
  \/ DestroyTools \/ JoinTools

-----------------------------------------------------------------------------
(* A thread *)

ThreadGoes(t, place) == toolThread' = [toolThread EXCEPT ![t].at = place]

TakeToolTask(t) ==
  /\ toolThread[t].at = "idle" /\ taskLanes[t] # <<>>
  /\ toolThread' = [toolThread EXCEPT ![t] =
       [task |-> Head(taskLanes[t]),
        at |-> IF Head(taskLanes[t]).op \in {"find peaks", "transform"} THEN "prepare" ELSE "finish"]]
  /\ taskLanes' = [taskLanes EXCEPT ![t] = <<>>]
  /\ UNCHANGED <<toolCall, owner, imageIndex, nextThread, readThread, resultLanes, memory, results, callsMade>>

\* PrepareTransform makes the kernel of a scale in the scratch buffer.
PrepareTransform(t) ==
  /\ toolThread[t].at = "prepare"
  /\ memory' = [memory EXCEPT ![toolThread[t].task.scratch] = <<toolThread[t].task.scale>>]
  /\ ThreadGoes(t, "finish")
  /\ UNCHANGED <<toolCall, owner, imageIndex, nextThread, readThread, taskLanes, resultLanes, results, callsMade>>

\* FinishTransform convolves the image with what is in the scratch buffer, and a
\* subtraction works on its slice.
FinishTransform(t) ==
  LET task == toolThread[t].task
  IN  /\ toolThread[t].at = "finish"
      /\ memory' = [memory EXCEPT ![task.image] =
                      @ \o (IF task.op = "subtract" THEN <<task.scale>> ELSE memory[task.scratch])]
      /\ ThreadGoes(t, "answer")
      /\ UNCHANGED <<toolCall, owner, imageIndex, nextThread, readThread, taskLanes, resultLanes, results, callsMade>>

\* The peak of what the image is now, under the mask.
WriteResult(t) ==
  /\ toolThread[t].at = "answer" /\ resultLanes[t] = <<>>
  /\ resultLanes' = [resultLanes EXCEPT ![t] =
       <<[image |-> memory[toolThread[t].task.image], mask |-> toolThread[t].task.mask]>>]
  /\ ThreadGoes(t, "idle")
  /\ UNCHANGED <<toolCall, owner, imageIndex, nextThread, readThread, taskLanes, memory, results, callsMade>>

LeaveTools(t) ==
  /\ toolThread[t].at = "idle" /\ taskLanes[t] = <<>> /\ owner = "join"
  /\ ThreadGoes(t, "gone")
  /\ UNCHANGED <<toolCall, owner, imageIndex, nextThread, readThread, taskLanes, resultLanes, memory, results, callsMade>>

ToolThreadStep(t) ==
  TakeToolTask(t) \/ PrepareTransform(t) \/ FinishTransform(t) \/ WriteResult(t) \/ LeaveTools(t)

ToolsOver == owner = "gone" /\ UNCHANGED toolVars

ToolsNext ==
  \/ \E c \in ToolCalls : Call(c)
  \/ OwnerStep \/ ToolsOver
  \/ \E t \in ToolLanes : ToolThreadStep(t)

\* The owner and its threads keep running; nobody needs to make a call.
ToolsFairness ==
  /\ WF_toolVars(OwnerStep)
  /\ \A t \in ToolLanes : WF_toolVars(ToolThreadStep(t))

ToolsSpec == ToolsInit /\ [][ToolsNext]_toolVars /\ ToolsFairness

-----------------------------------------------------------------------------
(* Properties *)

\* When a call returns, the images were transformed once, with the kernel of their own
\* scale, the peak of every scale was searched in the image of that scale and under its
\* mask, and every slice was subtracted once: buffers and lanes are used again round after
\* round and by thread after thread (threadeddeconvolutiontools.cpp).
CallsDoTheirWork ==
  owner = "idle" =>
    CASE toolCall.op \in {"transform", "transform one scale"} ->
           \A i \in DOMAIN toolCall.scales : memory[ImageBuffer(i)] = <<toolCall.scales[i]>>
      [] toolCall.op = "find peaks" ->
           results = [i \in DOMAIN toolCall.scales |-> [image |-> <<toolCall.scales[i]>>, mask |-> i]]
      [] toolCall.op = "subtract" ->
           /\ Len(memory[ImageBuffer(1)]) = ToolThreads
           /\ ToSet(memory[ImageBuffer(1)]) = 1 .. ToolThreads
      [] OTHER -> TRUE
=============================================================================
