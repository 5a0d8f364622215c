----------------------------- MODULE ActionQueue -----------------------------
(***************************************************************************)
(* ActionQueue (policies/rtc/action_queue.py) between its users: the       *)
(* control thread takes actions and clears the queue, the inference thread *)
(* merges chunks.  Every method is one critical section of the queue's     *)
(* lock, so every action here is one method call.                          *)
(*                                                                         *)
(* A chunk is numbered by the order in which it was inferred; its step i   *)
(* is the model-space action <<n, i>> and the robot-space action <<n, i>>  *)
(* (the postprocessor maps them one to one).                               *)
(***************************************************************************)
EXTENDS ActionQueueOps, FiniteSets

CONSTANTS
  Task,        \* instructions
  ChunkLen,    \* actions in one chunk
  MaxChunks,   \* bound: chunks inferred in one behaviour
  MaxDelay     \* bound: the largest measured delay

ASSUME QueueAssumption ==
  /\ ChunkLen \in Nat \ {0}
  /\ MaxChunks \in Nat
  /\ MaxDelay \in Nat

VARIABLES
  rtc,      \* cfg.enabled, given to the queue once: chunks replace (TRUE) or append (FALSE)
  q,        \* the queue object
  chunks,   \* chunks inferred so far
  out       \* <<original, processed, task>> of the last dispatched action

vars == <<rtc, q, chunks, out>>

Chunk(n) == [i \in 1..ChunkLen |-> <<n, i>>]

Init == rtc \in BOOLEAN /\ q = Cleared /\ chunks = 0 /\ out = <<>>

\* get_with_task by the control thread, when an action is left.
Get ==
  /\ HasAction(q)
  /\ ~OutOfStep(q)
  /\ out' = <<q.original_queue[q.last_index + 1], NextAction(q), NextTask(q)>>
  /\ q' = Popped(q)
  /\ UNCHANGED <<rtc, chunks>>

\* clear by engine.reset on the control thread.
Clear ==
  /\ q # Cleared
  /\ q' = Cleared
  /\ UNCHANGED <<rtc, chunks, out>>

\* merge by the inference thread of a chunk measured late by `delay` steps.
Merge(task, delay) ==
  /\ chunks < MaxChunks
  /\ chunks' = chunks + 1
  /\ q' = Merged(rtc, q, Chunk(chunks'), Chunk(chunks'), delay, task)
  /\ UNCHANGED <<rtc, out>>

\* All chunks are used up and the queue is drained.
Idle == chunks = MaxChunks /\ ~HasAction(q) /\ UNCHANGED vars

Next ==
  \/ Get
  \/ Clear
  \/ \E task \in Task, delay \in 0..MaxDelay : Merge(task, delay)
  \/ Idle

Spec == Init /\ [][Next]_vars

-----------------------------------------------------------------------------
Entry == (1..MaxChunks) \X (1..ChunkLen)

TypeOK ==
  /\ q \in QueueObject(Entry, Task)
  /\ chunks \in 0..MaxChunks
  /\ rtc \in BOOLEAN

\* The three parallel arrays stay in lockstep and the cursor inside them, so
\* get_with_task never meets the mismatch it raises RuntimeError for
\* (action_queue.py:87); a queue of None has its cursor at the start, which
\* _append_actions_queue relies on when it takes a first chunk without
\* resetting it.
Lockstep ==
  /\ InStep(q)
  /\ q.original_queue = q.queue

\* What is left to execute, without cursor and arrays.
Pending ==
  [i \in 1..(Len(q.queue) - q.last_index) |->
     <<q.original_queue[q.last_index + i], q.queue[q.last_index + i],
       q.task_queue[q.last_index + i]>>]

Stream == INSTANCE ActionStream
            WITH pending <- Pending, made <- chunks

\* The queue implements the ordered action stream: every action is handed to
\* the robot at most once and in order, under the instruction of its own
\* chunk; a superseding chunk replaces all of the rest by its own end, and an
\* appended one comes whole and disturbs nothing.
ImplementsStream == Stream!Spec

\* Actions of a newer chunk are never followed by those of an older one, and
\* within a chunk the robot moves only forward: neither merging nor the cursor
\* arithmetic can make it repeat a step.
NeverBackwards ==
  [][out # <<>> /\ out' # out =>
       \/ out'[2][1] > out[2][1]
       \/ out'[2][1] = out[2][1] /\ out'[2][2] > out[2][2]]_vars
=============================================================================
