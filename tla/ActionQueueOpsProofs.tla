------------------------ MODULE ActionQueueOpsProofs ------------------------
(***************************************************************************)
(* Facts about the operations of ActionQueue, for every kind of action and *)
(* instruction: what they return is a queue object again, and the actions  *)
(* in it come from where they should.                                      *)
(***************************************************************************)
EXTENDS ActionQueueOps, SequenceTheorems, TLAPS

\* Drop(s, n) is s without its first n elements.
LEMMA DropProperties ==
  ASSUME NEW S, NEW s \in Seq(S), NEW n \in Nat
  PROVE  /\ Drop(s, n) \in Seq(S)
         /\ Len(Drop(s, n)) = IF n <= Len(s) THEN Len(s) - n ELSE 0
         /\ \A i \in 1..Len(Drop(s, n)) : Drop(s, n)[i] = s[i + n]
<1>1. CASE n <= Len(s)
  BY <1>1, SubSeqProperties DEF Drop
<1>2. CASE n > Len(s)
  BY <1>2, SubSeqProperties DEF Drop
<1> QED BY <1>1, <1>2, LenProperties

\* An empty queue object, and one an action is taken from, are queue objects.
LEMMA ClearedType ==
  ASSUME NEW Action, NEW Task
  PROVE  Cleared \in QueueObject(Action, Task)
BY EmptySeq DEF Cleared, QueueObject

\* Popping an action leaves a queue object.
LEMMA PoppedType ==
  ASSUME NEW Action, NEW Task, NEW q \in QueueObject(Action, Task)
  PROVE  Popped(q) \in QueueObject(Action, Task)
<1>1. q.last_index + 1 \in Nat
  BY DEF QueueObject
<1>2. Popped(q) = [set |-> q.set, queue |-> q.queue, original_queue |-> q.original_queue,
                   task_queue |-> q.task_queue, last_index |-> q.last_index + 1]
  BY DEF Popped, QueueObject
<1> QED BY <1>1, <1>2 DEF QueueObject

\* The new chunk's labels are all its instruction.
LEMMA LabelsProperties ==
  ASSUME NEW Task, NEW task \in Task, NEW n \in Nat
  PROVE  Labels(task, n) \in Seq(Task) /\ Len(Labels(task, n)) = n
BY DEF Labels

\* The clamped delay lies within both arrays.
LEMMA ClampedDelayBounds ==
  ASSUME NEW S, NEW original \in Seq(S), NEW processed \in Seq(S), NEW delay \in Int
  PROVE  /\ ClampedDelay(delay, original, processed) \in Nat
         /\ ClampedDelay(delay, original, processed) <= Len(original)
         /\ ClampedDelay(delay, original, processed) <= Len(processed)
BY LenProperties DEF ClampedDelay

\* A superseding merge returns a queue object.
LEMMA ReplacedType ==
  ASSUME NEW Action, NEW Task, NEW q \in QueueObject(Action, Task), NEW task \in Task,
         NEW original \in Seq(Action), NEW processed \in Seq(Action), NEW delay \in Int
  PROVE  Replaced(q, original, processed, delay, task) \in QueueObject(Action, Task)
<1> DEFINE d == ClampedDelay(delay, original, processed)
<1>1. d \in Nat /\ d <= Len(processed)
  BY ClampedDelayBounds
<1>2. Drop(processed, d) \in Seq(Action) /\ Drop(original, d) \in Seq(Action)
  BY <1>1, DropProperties
<1>3. Len(processed) - d \in Nat
  BY <1>1, LenProperties
<1>4. Labels(task, Len(processed) - d) \in Seq(Task)
  BY <1>3, LabelsProperties
<1> QED BY <1>2, <1>4 DEF Replaced, QueueObject

\* An appending merge returns a queue object.
LEMMA AppendedType ==
  ASSUME NEW Action, NEW Task, NEW q \in QueueObject(Action, Task), NEW task \in Task,
         NEW original \in Seq(Action), NEW processed \in Seq(Action)
  PROVE  Appended(q, original, processed, task) \in QueueObject(Action, Task)
<1>1. /\ q.queue \in Seq(Action) /\ q.original_queue \in Seq(Action)
      /\ q.task_queue \in Seq(Task) /\ q.last_index \in Nat
  BY DEF QueueObject
<1>2. Len(processed) \in Nat
  BY LenProperties
<1>3. Labels(task, Len(processed)) \in Seq(Task)
  BY <1>2, LabelsProperties
<1>4. /\ q.queue \o processed \in Seq(Action) /\ q.original_queue \o original \in Seq(Action)
      /\ Drop(q.task_queue, q.last_index) \in Seq(Task)
  BY <1>1, ConcatProperties, DropProperties
<1>5. /\ Drop(q.queue \o processed, q.last_index) \in Seq(Action)
      /\ Drop(q.original_queue \o original, q.last_index) \in Seq(Action)
      /\ Drop(q.task_queue, q.last_index) \o Labels(task, Len(processed)) \in Seq(Task)
  BY <1>1, <1>3, <1>4, ConcatProperties, DropProperties
<1> QED BY <1>1, <1>3, <1>5 DEF Appended, QueueObject

\* merge returns a queue object, in either mode.
LEMMA MergedType ==
  ASSUME NEW Action, NEW Task, NEW q \in QueueObject(Action, Task), NEW task \in Task,
         NEW original \in Seq(Action), NEW processed \in Seq(Action), NEW delay \in Int,
         NEW rtc \in BOOLEAN
  PROVE  Merged(rtc, q, original, processed, delay, task) \in QueueObject(Action, Task)
BY ReplacedType, AppendedType DEF Merged

\* A queue object in step stays in step: when an action is taken from it ...
LEMMA PoppedInStep ==
  ASSUME NEW Action, NEW Task, NEW q \in QueueObject(Action, Task), InStep(q), HasAction(q)
  PROVE  InStep(Popped(q))
BY LenProperties DEF Popped, QueueObject, InStep, HasAction

\* ... and when a chunk is merged into it, in either mode.
LEMMA MergedInStep ==
  ASSUME NEW Action, NEW Task, NEW q \in QueueObject(Action, Task), NEW task \in Task,
         NEW original \in Seq(Action), NEW processed \in Seq(Action), NEW delay \in Int,
         NEW rtc \in BOOLEAN, InStep(q), Len(original) = Len(processed)
  PROVE  InStep(Merged(rtc, q, original, processed, delay, task))
<1> DEFINE d == ClampedDelay(delay, original, processed)
<1>1. /\ q.queue \in Seq(Action) /\ q.original_queue \in Seq(Action)
      /\ q.task_queue \in Seq(Task) /\ q.last_index \in Nat /\ q.set \in BOOLEAN
  BY DEF QueueObject
<1>2. /\ Len(processed) \in Nat /\ Len(q.queue) \in Nat
      /\ Len(q.task_queue) = Len(q.queue) /\ Len(q.original_queue) = Len(q.queue)
      /\ q.last_index <= Len(q.queue)
  BY <1>1, LenProperties DEF InStep
<1>3. CASE rtc
  <2>1. d \in Nat /\ d <= Len(original) /\ d <= Len(processed)
    BY ClampedDelayBounds
  <2>2. /\ Len(Drop(processed, d)) = Len(processed) - d
        /\ Len(Drop(original, d)) = Len(processed) - d
    BY <2>1, DropProperties
  <2>3. Len(Labels(task, Len(processed) - d)) = Len(processed) - d
    <3>1. Len(processed) - d \in Nat
      BY <2>1, <1>2
    <3> QED BY <3>1, LabelsProperties
  <2> QED BY <1>3, <1>2, <2>1, <2>2, <2>3 DEF Merged, Replaced, InStep
<1>4. CASE ~rtc /\ q.set
  <2> DEFINE actions   == q.queue \o processed
             originals == q.original_queue \o original
             n         == q.last_index
  <2>1. /\ actions \in Seq(Action) /\ Len(actions) = Len(q.queue) + Len(processed)
        /\ originals \in Seq(Action) /\ Len(originals) = Len(q.original_queue) + Len(original)
    BY <1>1, ConcatProperties
  <2> HIDE DEF actions, originals
  <2>2. Len(Drop(actions, n)) = Len(actions) - n /\ Len(Drop(originals, n)) = Len(originals) - n
    <3>1. n \in Nat /\ n <= Len(actions) /\ n <= Len(originals)
      BY <1>1, <1>2, <2>1
    <3>2. ASSUME NEW s \in Seq(Action), n <= Len(s)
          PROVE  Len(Drop(s, n)) = Len(s) - n
      BY <3>1, <3>2, DropProperties
    <3> QED BY <2>1, <3>1, <3>2
  <2>3. /\ Drop(q.task_queue, q.last_index) \in Seq(Task)
        /\ Len(Drop(q.task_queue, q.last_index)) = Len(q.queue) - q.last_index
    BY <1>1, <1>2, DropProperties
  <2>4. /\ Labels(task, Len(processed)) \in Seq(Task)
        /\ Len(Labels(task, Len(processed))) = Len(processed)
    BY <1>2, LabelsProperties
  <2>5. Len(Drop(q.task_queue, q.last_index) \o Labels(task, Len(processed)))
          = Len(q.queue) - q.last_index + Len(processed)
    <3> DEFINE kept == Drop(q.task_queue, q.last_index)
               new  == Labels(task, Len(processed))
    <3>1. Len(kept \o new) = Len(kept) + Len(new)
      BY <2>3, <2>4, ConcatProperties
    <3> QED BY <3>1, <2>3, <2>4
  <2>6. /\ Len(Drop(actions, n)) = Len(q.queue) - q.last_index + Len(processed)
        /\ Len(Drop(originals, n)) = Len(q.queue) - q.last_index + Len(processed)
    BY SMTT(30), <1>1, <1>2, <2>1, <2>2
  <2> QED BY <1>4, <1>1, <1>2, <2>5, <2>6 DEF Merged, Appended, InStep, actions, originals
<1>5. CASE ~rtc /\ ~q.set
  <2>1. Len(Labels(task, Len(processed))) = Len(processed)
    BY <1>2, LabelsProperties
  <2>2. q.last_index = 0
    BY <1>5, <1>1, EmptySeq DEF InStep
  <2> QED BY <1>5, <1>2, <2>1, <2>2 DEF Merged, Appended, InStep
<1> QED BY <1>3, <1>4, <1>5

\* The label get_with_task returns is one of the queue's instructions.
LEMMA NextTaskType ==
  ASSUME NEW Action, NEW Task, NEW q \in QueueObject(Action, Task), InStep(q), HasAction(q)
  PROVE  /\ NextTask(q) \in Task
         /\ \E i \in 1..Len(q.task_queue) : NextTask(q) = q.task_queue[i]
<1>1. q.last_index + 1 \in 1..Len(q.task_queue)
  BY LenProperties DEF QueueObject, InStep, HasAction
<1>2. q.task_queue \in Seq(Task)
  BY DEF QueueObject
<1> QED BY <1>1, <1>2, ElementOfSeq DEF NextTask

\* Every element of s is in P.
Within(s, P) == \A i \in 1..Len(s) : s[i] \in P

\* Dropping elements and appending sequences stays within P.
LEMMA WithinDrop ==
  ASSUME NEW S, NEW s \in Seq(S), NEW n \in Nat, NEW P, Within(s, P)
  PROVE  Within(Drop(s, n), P)
<1>1. \A i \in 1..Len(Drop(s, n)) : i + n \in 1..Len(s)
  BY DropProperties, LenProperties
<1> QED BY <1>1, DropProperties DEF Within

\* A concatenation of two sequences within a set is within it.
LEMMA WithinConcat ==
  ASSUME NEW S, NEW s \in Seq(S), NEW t \in Seq(S), NEW P, Within(s, P), Within(t, P)
  PROVE  s \o t \in Seq(S) /\ Within(s \o t, P)
<1>1. s \o t \in Seq(S)
  BY ConcatProperties
<1>2. ASSUME NEW i \in 1..Len(s \o t) PROVE (s \o t)[i] \in P
  <2>1. Len(s) \in Nat /\ Len(t) \in Nat /\ Len(s \o t) = Len(s) + Len(t)
    BY LenProperties, ConcatProperties
  <2>2. CASE i <= Len(s)
    BY <1>2, <2>1, <2>2, ConcatProperties DEF Within
  <2>3. CASE i > Len(s)
    <3>1. i - Len(s) \in 1..Len(t)
      BY <1>2, <2>1, <2>3
    <3> QED BY <1>2, <2>1, <2>3, <3>1, ConcatProperties DEF Within
  <2> QED BY <1>2, <2>1, <2>2, <2>3
<1> QED BY <1>1, <1>2 DEF Within

\* A merge brings in nothing of its own: if the queue's actions and the chunk
\* are within P, so are the merged queue's actions ...
LEMMA MergedActions ==
  ASSUME NEW Action, NEW Task, NEW q \in QueueObject(Action, Task), NEW task \in Task,
         NEW original \in Seq(Action), NEW processed \in Seq(Action), NEW delay \in Int,
         NEW rtc \in BOOLEAN, NEW P, Within(original, P), Within(processed, P),
         Within(q.queue, P), Within(q.original_queue, P)
  PROVE  /\ Within(Merged(rtc, q, original, processed, delay, task).queue, P)
         /\ Within(Merged(rtc, q, original, processed, delay, task).original_queue, P)
<1> DEFINE d == ClampedDelay(delay, original, processed)
<1>1. /\ q.queue \in Seq(Action) /\ q.original_queue \in Seq(Action) /\ q.last_index \in Nat
  BY DEF QueueObject
<1>2. d \in Nat
  BY ClampedDelayBounds
<1>3. CASE rtc
  <2>1. Within(Drop(processed, d), P) /\ Within(Drop(original, d), P)
    BY <1>2, WithinDrop
  <2> QED BY <1>3, <2>1 DEF Merged, Replaced
<1>4. CASE ~rtc /\ q.set
  <2>1. /\ Within(q.queue \o processed, P) /\ Within(q.original_queue \o original, P)
        /\ q.queue \o processed \in Seq(Action) /\ q.original_queue \o original \in Seq(Action)
    BY <1>1, WithinConcat
  <2>2. /\ Within(Drop(q.queue \o processed, q.last_index), P)
        /\ Within(Drop(q.original_queue \o original, q.last_index), P)
    BY <1>1, <2>1, WithinDrop
  <2> QED BY <1>4, <2>2 DEF Merged, Appended
<1>5. CASE ~rtc /\ ~q.set
  BY <1>5 DEF Merged, Appended
<1> QED BY <1>3, <1>4, <1>5

\* ... and so are its instructions.
LEMMA MergedTasks ==
  ASSUME NEW Action, NEW Task, NEW q \in QueueObject(Action, Task), NEW task \in Task,
         NEW original \in Seq(Action), NEW processed \in Seq(Action), NEW delay \in Int,
         NEW rtc \in BOOLEAN, NEW P, task \in P, Within(q.task_queue, P)
  PROVE  Within(Merged(rtc, q, original, processed, delay, task).task_queue, P)
<1> DEFINE d == ClampedDelay(delay, original, processed)
<1>1. q.task_queue \in Seq(Task) /\ q.last_index \in Nat
  BY DEF QueueObject
<1>2. d \in Nat /\ Len(processed) - d \in Nat /\ Len(processed) \in Nat
  <2>1. d \in Nat /\ d <= Len(processed)
    BY ClampedDelayBounds
  <2>2. Len(processed) \in Nat
    BY LenProperties
  <2> HIDE DEF d
  <2> QED BY <2>1, <2>2
<1>3. ASSUME NEW n \in Nat PROVE Labels(task, n) \in Seq(Task) /\ Within(Labels(task, n), P)
  <2>1. Labels(task, n) \in Seq(Task) /\ Len(Labels(task, n)) = n
    BY <1>3, LabelsProperties
  <2> QED BY <2>1 DEF Within, Labels
<1>4. CASE rtc
  BY <1>2, <1>3, <1>4 DEF Merged, Replaced
<1>5. CASE ~rtc /\ q.set
  <2>1. Drop(q.task_queue, q.last_index) \in Seq(Task) /\ Within(Drop(q.task_queue, q.last_index), P)
    BY <1>1, DropProperties, WithinDrop
  <2>2. Within(Drop(q.task_queue, q.last_index) \o Labels(task, Len(processed)), P)
    BY <1>2, <1>3, <2>1, WithinConcat
  <2> QED BY <1>5, <2>2 DEF Merged, Appended
<1>6. CASE ~rtc /\ ~q.set
  BY <1>2, <1>3, <1>6 DEF Merged, Appended
<1> QED BY <1>4, <1>5, <1>6
=============================================================================
