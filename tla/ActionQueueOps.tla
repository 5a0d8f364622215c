--------------------------- MODULE ActionQueueOps ---------------------------
(***************************************************************************)
(* The operations of ActionQueue (policies/rtc/action_queue.py), each the  *)
(* body of one critical section of the queue's lock.  A queue object is a  *)
(* record of its four fields; `set` tells the tensors apart from None.     *)
(* Sequences are indexed from 1 here, so the action at Python index        *)
(* last_index is queue[last_index + 1].                                    *)
(***************************************************************************)
EXTENDS Integers, Sequences

\* The queue objects over some actions and instructions.
QueueObject(Action, Task) ==
  [set : BOOLEAN, queue : Seq(Action), original_queue : Seq(Action),
   task_queue : Seq(Task), last_index : Nat]

\* The three parallel arrays match and the cursor is inside them.
InStep(q) ==
  /\ Len(q.task_queue) = Len(q.queue)
  /\ Len(q.original_queue) = Len(q.queue)
  /\ q.last_index <= Len(q.queue)
  /\ ~q.set => q.queue = <<>>

\* A queue holding no tensors, as __init__ and clear() leave it.
Cleared ==
  [set |-> FALSE, queue |-> <<>>, original_queue |-> <<>>,
   task_queue |-> <<>>, last_index |-> 0]

\* s[n:]
Drop(s, n) == SubSeq(s, n + 1, Len(s))

\* [task] * n
Labels(task, n) == [i \in 1..n |-> task]

\* Fault: the consumed actions are still counted.
qsize_Consumed(q) == IF q.set THEN Len(q.queue) ELSE 0

qsize(q) == IF q.set THEN Len(q.queue) - q.last_index ELSE 0

\* get_with_task returns an action, rather than None.
HasAction(q) == q.set /\ q.last_index < Len(q.queue)

\* get_with_task raises RuntimeError: the labels no longer match the actions.
OutOfStep(q) == HasAction(q) /\ Len(q.task_queue) # Len(q.queue)

NextAction(q) == q.queue[q.last_index + 1]

NextTask(q) == q.task_queue[q.last_index + 1]

Popped(q) == [q EXCEPT !.last_index = @ + 1]

\* The unconsumed tail of the model-space chunk; <<>> also stands for None.
LeftOver(q) == Drop(q.original_queue, q.last_index)

\* The unconsumed tail of the robot-space chunk; <<>> also stands for None.
ProcessedLeftOver(q) == Drop(q.queue, q.last_index)

\* max(0, min(real_delay, len(original), len(processed)))
ClampedDelay(delay, original, processed) ==
  LET upper == IF Len(original) < Len(processed) THEN Len(original) ELSE Len(processed)
  IN  IF delay < 0 THEN 0 ELSE IF delay < upper THEN delay ELSE upper

\* Fault: the model-space chunk keeps its head.
Replaced_Original(q, original, processed, delay, task) ==
  LET d == ClampedDelay(delay, original, processed)
  IN  [set |-> TRUE, queue |-> Drop(processed, d), original_queue |-> original,
       task_queue |-> Labels(task, Len(processed) - d), last_index |-> 0]

\* Fault: what was left of the old chunk follows the new one.
Replaced_Tail(q, original, processed, delay, task) ==
  LET d == ClampedDelay(delay, original, processed)
  IN  [set |-> TRUE, queue |-> Drop(processed, d) \o ProcessedLeftOver(q),
       original_queue |-> Drop(original, d) \o LeftOver(q),
       task_queue |-> Labels(task, Len(processed) - d + Len(ProcessedLeftOver(q))),
       last_index |-> 0]

\* _replace_actions_queue: the chunk minus the steps that elapsed.
Replaced(q, original, processed, delay, task) ==
  LET d == ClampedDelay(delay, original, processed)
  IN  [set |-> TRUE, queue |-> Drop(processed, d), original_queue |-> Drop(original, d),
       task_queue |-> Labels(task, Len(processed) - d), last_index |-> 0]

\* Fault: the consumed labels are not trimmed with their actions.
Appended_Labels(q, original, processed, task) ==
  [set |-> TRUE,
   queue |-> Drop(q.queue \o processed, q.last_index),
   original_queue |-> Drop(q.original_queue \o original, q.last_index),
   task_queue |-> q.task_queue \o Labels(task, Len(processed)), last_index |-> 0]

\* _append_actions_queue: a first chunk leaves last_index as it is.
Appended(q, original, processed, task) ==
  IF q.set
  THEN [set |-> TRUE,
        queue          |-> Drop(q.queue \o processed, q.last_index),
        original_queue |-> Drop(q.original_queue \o original, q.last_index),
        task_queue     |-> Drop(q.task_queue, q.last_index)
                             \o Labels(task, Len(processed)),
        last_index     |-> 0]
  ELSE [set |-> TRUE, queue |-> processed, original_queue |-> original,
        task_queue |-> Labels(task, Len(processed)), last_index |-> q.last_index]

\* merge: the consumed-index comparison only logs, the measured delay is used.
Merged(rtc, q, original, processed, delay, task) ==
  IF rtc THEN Replaced(q, original, processed, delay, task)
         ELSE Appended(q, original, processed, task)

=============================================================================
