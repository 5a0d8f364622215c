-------------------------- MODULE ActionQueueProofs --------------------------
(***************************************************************************)
(* Theorems about ActionQueue, for any chunk length, delay and number of   *)
(* chunks, in both merge modes.                                            *)
(***************************************************************************)
EXTENDS ActionQueue, ActionQueueOpsProofs

Inv == TypeOK /\ Lockstep

\* A chunk is a sequence of its steps.
LEMMA ChunkProperties ==
  ASSUME NEW n \in 1..MaxChunks
  PROVE  Chunk(n) \in Seq(Entry) /\ Len(Chunk(n)) = ChunkLen
BY QueueAssumption DEF Chunk, Entry

\* A merge keeps the model-space and the robot-space array equal.
LEMMA MergedTwins ==
  ASSUME NEW object, NEW chunk, NEW task, NEW delay, object.original_queue = object.queue
  PROVE  LET m == Merged(rtc, object, chunk, chunk, delay, task)
         IN  m.original_queue = m.queue
BY DEF Merged, Replaced, Appended

\* The new queue satisfies the invariant.
LEMMA InitInv == Init => Inv
BY QueueAssumption, ClearedType, EmptySeq DEF Init, Inv, TypeOK, Lockstep, InStep, Cleared

\* Every pop, clear and merge preserves the invariant.
LEMMA NextInv == Inv /\ [Next]_vars => Inv'
<1> SUFFICES ASSUME Inv, [Next]_vars PROVE Inv'
  OBVIOUS
<1>0. /\ q \in QueueObject(Entry, Task) /\ chunks \in 0..MaxChunks
      /\ InStep(q) /\ q.original_queue = q.queue /\ rtc \in BOOLEAN
  BY DEF Inv, TypeOK, Lockstep
<1>1. CASE Get
  <2>1. HasAction(q) /\ q' = Popped(q) /\ chunks' = chunks /\ rtc' = rtc
    BY <1>1 DEF Get
  <2>2. q' \in QueueObject(Entry, Task) /\ InStep(q')
    BY <1>0, <2>1, PoppedType, PoppedInStep
  <2>3. q'.original_queue = q'.queue
    BY <1>0, <2>1 DEF Popped, QueueObject
  <2> QED BY <1>0, <2>1, <2>2, <2>3 DEF Inv, TypeOK, Lockstep
<1>2. CASE Clear
  <2>1. q' = Cleared /\ chunks' = chunks /\ rtc' = rtc
    BY <1>2 DEF Clear
  <2>2. InStep(Cleared) /\ Cleared.original_queue = Cleared.queue
    BY EmptySeq DEF InStep, Cleared
  <2> QED BY <1>0, <2>1, <2>2, ClearedType DEF Inv, TypeOK, Lockstep
<1>3. ASSUME NEW task \in Task, NEW delay \in 0..MaxDelay, Merge(task, delay)
      PROVE  Inv'
  <2> DEFINE c == Chunk(chunks')
  <2>1. /\ chunks' \in 1..MaxChunks
        /\ q' = Merged(rtc, q, c, c, delay, task) /\ rtc' = rtc
    BY <1>0, <1>3, QueueAssumption DEF Merge
  <2>2. c \in Seq(Entry) /\ delay \in Int /\ rtc \in BOOLEAN
    BY <1>0, <2>1, ChunkProperties, QueueAssumption
  <2> HIDE DEF c
  <2>3. q' \in QueueObject(Entry, Task)
    BY <1>0, <1>3, <2>1, <2>2, MergedType
  <2>4. InStep(q')
    BY <1>0, <1>3, <2>1, <2>2, MergedInStep
  <2>5. q'.original_queue = q'.queue
    BY <1>0, <2>1, MergedTwins
  <2> QED BY <1>0, <2>1, <2>3, <2>4, <2>5, QueueAssumption DEF Inv, TypeOK, Lockstep
<1>4. CASE Idle \/ UNCHANGED vars
  BY <1>0, <1>4 DEF Idle, vars, Inv, TypeOK, Lockstep
<1> QED BY <1>1, <1>2, <1>3, <1>4 DEF Next

\* The types of the queue's fields are correct.
THEOREM QueueTypeCorrect == Spec => []TypeOK
<1>1. Inv => TypeOK
  BY DEF Inv
<1> QED BY <1>1, InitInv, NextInv, PTL DEF Spec

\* The parallel arrays never get out of step, so get_with_task never raises.
THEOREM AlwaysLockstep == Spec => []Lockstep
<1>1. Inv => Lockstep
  BY DEF Inv
<1> QED BY <1>1, InitInv, NextInv, PTL DEF Spec

\* The prefix the next inference is conditioned on is the model-space twin of
\* exactly the actions the robot has still to execute.
THEOREM LeftOverMatches == Spec => [](LeftOver(q) = ProcessedLeftOver(q))
<1>1. Inv => LeftOver(q) = ProcessedLeftOver(q)
  BY DEF Inv, Lockstep, LeftOver, ProcessedLeftOver
<1> QED BY <1>1, InitInv, NextInv, PTL DEF Spec

-----------------------------------------------------------------------------
(* The queue implements the abstract stream.                               *)

Item == Entry \X Entry \X Task

\* What is left of a queue object, as items (Pending is Left(q)).
Left(o) ==
  [i \in 1..(Len(o.queue) - o.last_index) |->
     <<o.original_queue[o.last_index + i], o.queue[o.last_index + i],
       o.task_queue[o.last_index + i]>>]

\* The items left of a queue object in step are well defined.
LEMMA LeftProperties ==
  ASSUME NEW o \in QueueObject(Entry, Task), InStep(o)
  PROVE  /\ Len(o.queue) - o.last_index \in Nat
         /\ Left(o) \in Seq(Item) /\ Len(Left(o)) = Len(o.queue) - o.last_index
         /\ \A i \in 1..Len(Left(o)) :
              Left(o)[i] = <<o.original_queue[o.last_index + i], o.queue[o.last_index + i],
                             o.task_queue[o.last_index + i]>>
<1>1. /\ o.queue \in Seq(Entry) /\ o.original_queue \in Seq(Entry)
      /\ o.task_queue \in Seq(Task) /\ o.last_index \in Nat
      /\ Len(o.original_queue) = Len(o.queue) /\ Len(o.task_queue) = Len(o.queue)
      /\ o.last_index <= Len(o.queue)
  BY DEF QueueObject, InStep
<1>2. Len(o.queue) \in Nat
  BY <1>1, LenProperties
<1> DEFINE n == Len(o.queue) - o.last_index
<1>3. n \in Nat
  BY <1>1, <1>2
<1>4. \A i \in 1..n : o.last_index + i \in 1..Len(o.queue)
  BY <1>1, <1>2
<1>5. \A i \in 1..n : /\ o.original_queue[o.last_index + i] \in Entry
                      /\ o.queue[o.last_index + i] \in Entry
                      /\ o.task_queue[o.last_index + i] \in Task
  BY <1>1, <1>4, ElementOfSeq
<1>6. Left(o) \in [1..n -> Item]
  BY <1>5 DEF Left, Item
<1>7. Left(o) \in Seq(Item) /\ Len(Left(o)) = n
  BY <1>3, <1>6
<1> QED BY <1>3, <1>7 DEF Left

\* Taking an action delivers the oldest item.
LEMMA GetDelivers == Inv /\ Get => Stream!Deliver
<1> SUFFICES ASSUME Inv, Get PROVE Stream!Deliver
  OBVIOUS
<1>1. /\ q \in QueueObject(Entry, Task) /\ InStep(q) /\ HasAction(q) /\ q' = Popped(q)
      /\ chunks' = chunks /\ rtc' = rtc
      /\ out' = <<q.original_queue[q.last_index + 1], q.queue[q.last_index + 1],
                  q.task_queue[q.last_index + 1]>>
  BY DEF Inv, TypeOK, Lockstep, Get, NextAction, NextTask
<1>2. q' \in QueueObject(Entry, Task) /\ InStep(q')
  BY <1>1, PoppedType, PoppedInStep
<1>3. /\ q'.queue = q.queue /\ q'.original_queue = q.original_queue
      /\ q'.task_queue = q.task_queue /\ q'.last_index = q.last_index + 1
  BY <1>1 DEF Popped, QueueObject
<1>4. Len(q.queue) \in Nat /\ q.last_index \in Nat /\ q.last_index < Len(q.queue)
  BY <1>1, LenProperties DEF QueueObject, HasAction
<1>5. /\ Left(q) \in Seq(Item) /\ Len(Left(q)) = Len(q.queue) - q.last_index
      /\ \A i \in 1..Len(Left(q)) :
           Left(q)[i] = <<q.original_queue[q.last_index + i], q.queue[q.last_index + i],
                          q.task_queue[q.last_index + i]>>
  BY <1>1, LeftProperties
<1>6. /\ Left(q') \in Seq(Item) /\ Len(Left(q')) = Len(q.queue) - (q.last_index + 1)
      /\ \A i \in 1..Len(Left(q')) :
           Left(q')[i] = <<q.original_queue[(q.last_index + 1) + i], q.queue[(q.last_index + 1) + i],
                           q.task_queue[(q.last_index + 1) + i]>>
  BY <1>2, <1>3, LeftProperties
<1> HIDE DEF Left
<1>7. Len(Left(q)) > 0 /\ Len(Left(q')) = Len(Left(q)) - 1
  BY <1>4, <1>5, <1>6
<1>8. Left(q) # <<>> /\ Head(Left(q)) = out'
  <2>1. Left(q) # <<>>
    BY <1>7
  <2>2. Head(Left(q)) = Left(q)[1]
    BY <1>5, <2>1
  <2> QED BY <1>1, <1>5, <1>7, <2>1, <2>2
<1>9. Left(q') = Tail(Left(q))
  <2>1. /\ Tail(Left(q)) \in Seq(Item) /\ Len(Tail(Left(q))) = Len(Left(q)) - 1
        /\ \A i \in 1..Len(Tail(Left(q))) : Tail(Left(q))[i] = Left(q)[i + 1]
    BY <1>5, <1>8, HeadTailProperties
  <2>2. ASSUME NEW i \in 1..Len(Left(q')) PROVE Left(q')[i] = Tail(Left(q))[i]
    <3>0. Len(Left(q)) \in Nat /\ i \in Nat \ {0} /\ i <= Len(Left(q')) /\ Len(Left(q')) \in Nat
      BY <1>5, <1>6, <2>2, LenProperties
    <3>1. i + 1 \in 1..Len(Left(q))
      BY <1>7, <3>0
    <3>2. q.last_index + (i + 1) = (q.last_index + 1) + i
      BY <1>4, <3>0
    <3> QED BY <1>5, <1>6, <1>7, <2>1, <2>2, <3>1, <3>2
  <2> QED BY <1>6, <1>7, <2>1, <2>2, SeqEqual
<1> QED BY <1>1, <1>8, <1>9 DEF Stream!Deliver, Pending, Left

\* Clearing the queue flushes the stream.
LEMMA ClearFlushes == Inv /\ Clear => Stream!Flush
<1> SUFFICES ASSUME Inv, Clear PROVE Stream!Flush
  OBVIOUS
<1>1. q' = Cleared /\ out' = out /\ chunks' = chunks /\ rtc' = rtc
  BY DEF Clear
<1>2. Cleared \in QueueObject(Entry, Task) /\ InStep(Cleared) /\ Len(Cleared.queue) = 0
      /\ Cleared.last_index = 0
  BY ClearedType, EmptySeq DEF InStep, Cleared
<1>3. Left(Cleared) \in Seq(Item) /\ Len(Left(Cleared)) = 0
  BY <1>2, LeftProperties
<1>4. Left(Cleared) = <<>>
  BY <1>3, EmptySeq
<1> QED BY <1>1, <1>4 DEF Stream!Flush, Pending, Left

\* The end of a chunk is a sequence of items.
LEMMA EndingProperties ==
  ASSUME NEW n \in 1..MaxChunks, NEW d \in 0..ChunkLen, NEW task \in Task
  PROVE  LET e == Stream!Ending(n, d, task)
         IN  /\ e \in Seq(Item) /\ Len(e) = ChunkLen - d
             /\ \A i \in 1..(ChunkLen - d) : e[i] = <<<<n, d + i>>, <<n, d + i>>, task>>
<1> DEFINE e == Stream!Ending(n, d, task)
<1>1. ChunkLen - d \in Nat /\ \A i \in 1..(ChunkLen - d) : d + i \in 1..ChunkLen
  BY QueueAssumption
<1>2. e = [i \in 1..(ChunkLen - d) |-> <<<<n, d + i>>, <<n, d + i>>, task>>]
  BY DEF Stream!Ending
<1>3. \A i \in 1..(ChunkLen - d) : <<<<n, d + i>>, <<n, d + i>>, task>> \in Item
  BY <1>1 DEF Item, Entry
<1>4. e \in [1..(ChunkLen - d) -> Item]
  BY <1>2, <1>3
<1>5. e \in Seq(Item) /\ Len(e) = ChunkLen - d
  BY <1>1, <1>4
<1> QED BY <1>2, <1>5

\* A merge that replaces the queue supersedes what was left.
LEMMA ReplaceSupersedes ==
  ASSUME Inv, rtc, NEW task \in Task, NEW delay \in 0..MaxDelay, Merge(task, delay)
  PROVE  Stream!Supersede
<1> DEFINE c == Chunk(chunks')
           d == ClampedDelay(delay, c, c)
<1>1. /\ chunks' \in 1..MaxChunks /\ out' = out
      /\ q' = Replaced(q, c, c, delay, task)
  BY QueueAssumption DEF Inv, TypeOK, Merge, Merged
<1>2. c \in Seq(Entry) /\ delay \in Int
  BY <1>1, ChunkProperties, QueueAssumption
<1>3. d \in Nat /\ d <= Len(c) /\ Len(c) \in Nat /\ Len(c) = ChunkLen
  BY <1>1, <1>2, ChunkProperties, ClampedDelayBounds, LenProperties
<1>4. q' \in QueueObject(Entry, Task) /\ InStep(q')
  <2>1. q' = Merged(rtc, q, c, c, delay, task)
    BY DEF Merge
  <2>2. q \in QueueObject(Entry, Task) /\ InStep(q) /\ rtc \in BOOLEAN
    BY QueueAssumption DEF Inv, TypeOK, Lockstep
  <2> HIDE DEF c
  <2> QED BY <1>2, <2>1, <2>2, MergedType, MergedInStep
<1> HIDE DEF c
<1>5. /\ q'.last_index = 0 /\ q'.queue = Drop(c, d) /\ q'.original_queue = Drop(c, d)
      /\ q'.task_queue = Labels(task, Len(c) - d)
  BY <1>1 DEF Replaced
<1>6. Len(q'.queue) = Len(c) - d
  BY <1>2, <1>3, <1>5, DropProperties
<1> HIDE DEF d
<1>7. Len(c) - d \in Nat
  BY <1>3
<1>8. \A i \in 1..(Len(c) - d) : q'.task_queue[i] = task
  BY <1>5, <1>7 DEF Labels
<1>9. \A i \in 1..(Len(c) - d) : q'.queue[i] = <<chunks', d + i>>
  <2>1. \A i \in 1..(Len(c) - d) : Drop(c, d)[i] = c[i + d]
    BY <1>2, <1>3, DropProperties
  <2>2. \A i \in 1..(Len(c) - d) : i + d \in 1..ChunkLen /\ i + d = d + i
    BY <1>3, <1>7
  <2>3. \A i \in 1..ChunkLen : c[i] = <<chunks', i>>
    BY DEF c, Chunk
  <2> QED BY <1>5, <2>1, <2>2, <2>3
<1>10. /\ Left(q') \in Seq(Item) /\ Len(Left(q')) = Len(c) - d
       /\ \A i \in 1..(Len(c) - d) :
            Left(q')[i] = <<q'.original_queue[i], q'.queue[i], q'.task_queue[i]>>
  <2>1. Len(q'.queue) - q'.last_index = Len(c) - d
        /\ \A i \in 1..(Len(c) - d) : q'.last_index + i = i
    BY <1>5, <1>6, <1>7
  <2> QED BY <1>4, <2>1, LeftProperties
<1> HIDE DEF Left
<1>11. Left(q') = Stream!Ending(chunks', d, task)
  <2>1. d \in 0..ChunkLen
    BY <1>3
  <2>2. /\ Stream!Ending(chunks', d, task) \in Seq(Item)
        /\ Len(Stream!Ending(chunks', d, task)) = Len(c) - d
        /\ \A i \in 1..(Len(c) - d) : Stream!Ending(chunks', d, task)[i] =
             <<<<chunks', d + i>>, <<chunks', d + i>>, task>>
    BY <1>1, <1>3, <2>1, EndingProperties
  <2>3. ASSUME NEW i \in 1..(Len(c) - d)
        PROVE  Left(q')[i] = Stream!Ending(chunks', d, task)[i]
    <3>1. Left(q')[i] = <<q'.original_queue[i], q'.queue[i], q'.task_queue[i]>>
      BY <1>10
    <3>2. q'.original_queue[i] = q'.queue[i]
      BY <1>5
    <3>3. q'.queue[i] = <<chunks', d + i>> /\ q'.task_queue[i] = task
      BY <1>8, <1>9
    <3>4. Stream!Ending(chunks', d, task)[i] = <<<<chunks', d + i>>, <<chunks', d + i>>, task>>
      BY <2>2
    <3> QED BY <3>1, <3>2, <3>3, <3>4
  <2> QED BY <1>10, <2>2, <2>3, SeqEqual
<1>12. d \in 0..ChunkLen
  BY <1>3
<1>13. chunks' = chunks + 1 /\ rtc /\ rtc' = rtc /\ out' = out
  BY <1>1 DEF Merge
<1> QED BY <1>11, <1>12, <1>13 DEF Stream!Supersede, Pending, Left

\* Positions behind what was left, before and after the trim.
LEMMA Behind ==
  ASSUME NEW len \in Nat, NEW k \in Nat, k <= len, NEW more \in Nat
  PROVE  \A i \in (len - k + 1)..(len - k + more) :
           /\ i \in 1..(len - k + more) /\ i + k \in 1..(len + more)
           /\ ~(i + k <= len) /\ (i + k) - len = i - (len - k)
OBVIOUS

\* A merge that appends leaves what was left in place.
LEMMA AppendExtends ==
  ASSUME Inv, ~rtc, NEW task \in Task, NEW delay \in 0..MaxDelay, Merge(task, delay)
  PROVE  Stream!Extend
<1> DEFINE c == Chunk(chunks')
           k == q.last_index
           n == Len(q.queue) - q.last_index
<1>1. /\ chunks' \in 1..MaxChunks /\ out' = out
      /\ q' = Appended(q, c, c, task)
  BY QueueAssumption DEF Inv, TypeOK, Merge, Merged
<1>2. /\ c \in Seq(Entry) /\ delay \in Int /\ Len(c) \in Nat /\ Len(c) = ChunkLen
      /\ \A i \in 1..Len(c) : c[i] = <<chunks', i>>
  BY <1>1, ChunkProperties, QueueAssumption DEF Chunk
<1>3. /\ q \in QueueObject(Entry, Task) /\ InStep(q) /\ rtc \in BOOLEAN
      /\ q.original_queue = q.queue
  BY QueueAssumption DEF Inv, TypeOK, Lockstep
<1>4. q' \in QueueObject(Entry, Task) /\ InStep(q')
  <2>1. q' = Merged(rtc, q, c, c, delay, task)
    BY DEF Merge
  <2> HIDE DEF c
  <2> QED BY <1>2, <1>3, <2>1, MergedType, MergedInStep
<1> HIDE DEF c
<1>5. /\ q.queue \in Seq(Entry) /\ q.task_queue \in Seq(Task) /\ Len(q.queue) \in Nat
      /\ Len(q.task_queue) = Len(q.queue)
      /\ k \in Nat /\ k <= Len(q.queue) /\ n \in Nat
  BY <1>3, LenProperties DEF QueueObject, InStep
<1>6. /\ Left(q) \in Seq(Item) /\ Len(Left(q)) = n
      /\ \A i \in 1..n : Left(q)[i] = <<q.queue[k + i], q.queue[k + i], q.task_queue[k + i]>>
  BY <1>3, LeftProperties
\* The merged queue: its cursor is at the start, what was left comes first,
\* and the rest is the chunk, labelled with the new instruction.
<1>7. /\ q'.last_index = 0 /\ Len(q'.queue) = n + Len(c)
      /\ q'.original_queue = q'.queue
      /\ \A i \in 1..n : q'.queue[i] = q.queue[k + i] /\ q'.task_queue[i] = q.task_queue[k + i]
      /\ \A i \in (n + 1)..(n + Len(c)) : q'.queue[i] = c[i - n] /\ q'.task_queue[i] = task
  <2>0. Labels(task, Len(c)) \in Seq(Task) /\ Len(Labels(task, Len(c))) = Len(c)
        /\ \A i \in 1..Len(c) : Labels(task, Len(c))[i] = task
    BY <1>2, LabelsProperties DEF Labels
  <2>1. CASE q.set
    <3> DEFINE s == q.queue \o c
               t == Drop(q.task_queue, k)
    <3>1. /\ q'.last_index = 0 /\ q'.queue = Drop(s, k) /\ q'.original_queue = Drop(s, k)
          /\ q'.task_queue = t \o Labels(task, Len(c))
      BY <1>1, <1>3, <2>1 DEF Appended
    <3>2. /\ s \in Seq(Entry) /\ Len(s) = Len(q.queue) + Len(c)
          /\ \A i \in 1..Len(q.queue) : s[i] = q.queue[i]
          /\ \A i \in 1..(Len(q.queue) + Len(c)) : ~(i <= Len(q.queue)) => s[i] = c[i - Len(q.queue)]
      <4>1. /\ s \in Seq(Entry) /\ Len(s) = Len(q.queue) + Len(c)
            /\ \A i \in 1..(Len(q.queue) + Len(c)) :
                 s[i] = IF i <= Len(q.queue) THEN q.queue[i] ELSE c[i - Len(q.queue)]
        <5> HIDE DEF k, n
        <5> QED BY <1>2, <1>5, ConcatProperties
      <4>2. \A i \in 1..Len(q.queue) : i \in 1..(Len(q.queue) + Len(c)) /\ i <= Len(q.queue)
        BY <1>2, <1>5
      <4> HIDE DEF s, t, k, n
      <4> QED BY <4>1, <4>2
    <3>3. /\ t \in Seq(Task) /\ Len(t) = n
          /\ \A i \in 1..n : t[i] = q.task_queue[i + k]
      <4>1. k <= Len(q.task_queue) /\ Len(q.task_queue) - k = n
        BY <1>5
      <4>2. /\ t \in Seq(Task) /\ Len(t) = Len(q.task_queue) - k
            /\ \A i \in 1..Len(t) : t[i] = q.task_queue[i + k]
        <5> HIDE DEF k, n
        <5> QED BY <1>5, <4>1, DropProperties
      <4> HIDE DEF t, k, n
      <4> QED BY <4>1, <4>2
    <3> HIDE DEF s, t
    <3>4. k <= Len(s) /\ Len(s) - k = n + Len(c)
      BY SMTT(30), <1>2, <1>5, <3>2
    <3>5. /\ Len(Drop(s, k)) = n + Len(c)
          /\ \A i \in 1..(n + Len(c)) : Drop(s, k)[i] = s[i + k]
      <4> HIDE DEF k, n
      <4>1. /\ Len(Drop(s, k)) = Len(s) - k
            /\ \A i \in 1..Len(Drop(s, k)) : Drop(s, k)[i] = s[i + k]
        BY <1>5, <3>2, <3>4, DropProperties
      <4> QED BY <3>4, <4>1
    <3>6. \A i \in 1..n : i + k \in 1..Len(q.queue) /\ i \in 1..(n + Len(c)) /\ k + i = i + k
      <4>1. /\ k \in Nat /\ n \in Nat /\ Len(q.queue) \in Nat /\ Len(c) \in Nat
            /\ Len(q.queue) = n + k
        BY <1>2, <1>5
      <4> HIDE DEF k, n
      <4> QED BY ONLY <4>1
    <3>7. \A i \in 1..n : Drop(s, k)[i] = q.queue[k + i]
      BY <3>2, <3>5, <3>6
    <3>8. /\ \A i \in 1..n : (t \o Labels(task, Len(c)))[i] = q.task_queue[k + i]
          /\ \A i \in (n + 1)..(n + Len(c)) : (t \o Labels(task, Len(c)))[i] = task
      <4>1. \A i \in 1..(n + Len(c)) :
               (t \o Labels(task, Len(c)))[i] = IF i <= n THEN t[i] ELSE Labels(task, Len(c))[i - n]
        BY <2>0, <3>3, ConcatProperties
      <4> HIDE DEF n, k
      <4>2. \A i \in (n + 1)..(n + Len(c)) : i \in 1..(n + Len(c)) /\ ~(i <= n) /\ i - n \in 1..Len(c)
        BY <1>2, <1>5
      <4>3. \A i \in 1..n : i \in 1..(n + Len(c)) /\ i <= n
        BY <1>2, <1>5
      <4> QED BY <2>0, <3>3, <3>6, <4>1, <4>2, <4>3
    <3>9. \A i \in (n + 1)..(n + Len(c)) : Drop(s, k)[i] = c[i - n]
      <4>1. \A i \in (n + 1)..(n + Len(c)) :
               /\ i \in 1..(n + Len(c)) /\ i + k \in 1..(Len(q.queue) + Len(c))
               /\ ~(i + k <= Len(q.queue)) /\ (i + k) - Len(q.queue) = i - n
        BY <1>2, <1>5, Behind
      <4> HIDE DEF n, k
      <4> QED BY <3>2, <3>5, <4>1
    <3> QED BY <3>1, <3>5, <3>7, <3>8, <3>9
  <2>2. CASE ~q.set
    <3>1. q.queue = <<>> /\ Len(q.queue) = 0
      BY <1>3, <2>2, EmptySeq DEF InStep
    <3>2. n = 0 /\ k = 0
      BY <1>5, <3>1
    <3>3. /\ q'.last_index = k /\ q'.queue = c /\ q'.original_queue = c
          /\ q'.task_queue = Labels(task, Len(c))
      BY <1>1, <2>2 DEF Appended
    <3> HIDE DEF n, k
    <3>4. \A i \in (n + 1)..(n + Len(c)) : i \in 1..Len(c) /\ i - n = i
      BY <1>2, <3>2
    <3> QED BY <1>2, <2>0, <3>2, <3>3, <3>4
  <2> QED BY <2>1, <2>2
<1>8. /\ Left(q') \in Seq(Item) /\ Len(Left(q')) = n + Len(c)
      /\ \A i \in 1..(n + Len(c)) : Left(q')[i] = <<q'.queue[i], q'.queue[i], q'.task_queue[i]>>
  <2>1. /\ Len(q'.queue) - q'.last_index = n + Len(c)
        /\ \A i \in 1..(n + Len(c)) : q'.last_index + i = i
    BY <1>2, <1>5, <1>7
  <2> QED BY <1>4, <1>7, <2>1, LeftProperties
<1> HIDE DEF n, k, Left
<1> DEFINE e == Stream!Ending(chunks', 0, task)
<1>9. /\ e \in Seq(Item) /\ Len(e) = Len(c)
      /\ \A i \in 1..Len(c) : e[i] = <<<<chunks', i>>, <<chunks', i>>, task>>
  <2>1. 0 \in 0..ChunkLen /\ ChunkLen - 0 = ChunkLen /\ \A i \in 1..ChunkLen : 0 + i = i
    BY QueueAssumption
  <2>2. /\ e \in Seq(Item) /\ Len(e) = ChunkLen - 0
        /\ \A i \in 1..(ChunkLen - 0) : e[i] = <<<<chunks', 0 + i>>, <<chunks', 0 + i>>, task>>
    BY <1>1, <2>1, EndingProperties
  <2> HIDE DEF e
  <2>3. \A i \in 1..ChunkLen : e[i] = <<<<chunks', i>>, <<chunks', i>>, task>>
    BY <2>1, <2>2
  <2> QED BY <1>2, <2>1, <2>2, <2>3
<1> HIDE DEF e
<1>10. /\ Left(q) \o e \in Seq(Item) /\ Len(Left(q) \o e) = n + Len(c)
       /\ \A i \in 1..(n + Len(c)) :
            (Left(q) \o e)[i] = IF i <= n THEN Left(q)[i] ELSE e[i - n]
  <2>1. Left(q) \o e \in Seq(Item) /\ Len(Left(q) \o e) = Len(Left(q)) + Len(e)
        /\ \A i \in 1..(Len(Left(q)) + Len(e)) :
             (Left(q) \o e)[i] = IF i <= Len(Left(q)) THEN Left(q)[i] ELSE e[i - Len(Left(q))]
    BY <1>6, <1>9, ConcatProperties
  <2> QED BY <1>6, <1>9, <2>1
<1>11. ASSUME NEW i \in 1..(n + Len(c)) PROVE Left(q')[i] = (Left(q) \o e)[i]
  <2>1. CASE i <= n
    <3>1. i \in 1..n
      BY <1>2, <1>5, <2>1
    <3>2. Left(q')[i] = <<q'.queue[i], q'.queue[i], q'.task_queue[i]>>
      BY <1>8
    <3>3. q'.queue[i] = q.queue[k + i] /\ q'.task_queue[i] = q.task_queue[k + i]
      BY <1>7, <3>1
    <3>4. Left(q)[i] = <<q.queue[k + i], q.queue[k + i], q.task_queue[k + i]>>
      BY <1>6, <3>1
    <3>5. (Left(q) \o e)[i] = Left(q)[i]
      BY <1>10, <2>1
    <3> QED BY <3>2, <3>3, <3>4, <3>5
  <2>2. CASE ~(i <= n)
    <3>1. i \in (n + 1)..(n + Len(c)) /\ i - n \in 1..Len(c)
      BY <1>2, <1>5, <2>2
    <3>2. Left(q')[i] = <<q'.queue[i], q'.queue[i], q'.task_queue[i]>>
      BY <1>8
    <3>3. q'.queue[i] = c[i - n] /\ q'.task_queue[i] = task
      BY <1>7, <3>1
    <3>4. c[i - n] = <<chunks', i - n>>
      BY <1>2, <3>1
    <3>5. e[i - n] = <<<<chunks', i - n>>, <<chunks', i - n>>, task>>
      BY <1>9, <3>1
    <3>6. (Left(q) \o e)[i] = e[i - n]
      BY <1>10, <2>2
    <3> QED BY <3>2, <3>3, <3>4, <3>5, <3>6
  <2> QED BY <2>1, <2>2
<1>12. Left(q') = Left(q) \o e
  BY <1>8, <1>10, <1>11, SeqEqual
<1>13. chunks' = chunks + 1 /\ ~rtc /\ rtc' = rtc /\ out' = out
  BY <1>1 DEF Merge
<1> QED BY <1>12, <1>13 DEF Stream!Extend, Pending, Left, e

\* Every step of the queue is a step of the stream, or none.
LEMMA StepSimulates == Inv /\ [Next]_vars => [Stream!Next]_(Stream!stream)
<1> SUFFICES ASSUME Inv, [Next]_vars PROVE [Stream!Next]_(Stream!stream)
  OBVIOUS
<1>1. CASE Get
  BY <1>1, GetDelivers DEF Stream!Next
<1>2. CASE Clear
  BY <1>2, ClearFlushes DEF Stream!Next
<1>3. ASSUME NEW task \in Task, NEW delay \in 0..MaxDelay, Merge(task, delay)
      PROVE  Stream!Next
  BY <1>3, ReplaceSupersedes, AppendExtends DEF Stream!Next
<1>4. CASE Idle \/ UNCHANGED vars
  BY <1>4 DEF Idle, vars, Stream!stream, Pending
<1> QED BY <1>1, <1>2, <1>3, <1>4 DEF Next

\* The new queue is the empty stream.
LEMMA InitSimulates == Init => Stream!Init
<1> SUFFICES ASSUME Init PROVE Stream!Init
  OBVIOUS
<1>1. q \in QueueObject(Entry, Task) /\ InStep(q) /\ Len(q.queue) - q.last_index = 0
  BY ClearedType, EmptySeq DEF Init, InStep, Cleared
<1>2. Left(q) = <<>>
  BY <1>1, LeftProperties, EmptySeq
<1> QED BY <1>2 DEF Init, Stream!Init, Pending, Left

\* The queue implements the ordered action stream, for every chunk length, delay and order of
\* calls and in both merge modes.
THEOREM QueueImplementsStream == Spec => ImplementsStream
<1>1. Inv /\ [Next]_vars => [Stream!Next]_(Stream!stream)
  BY StepSimulates
<1>2. Init => Stream!Init
  BY InitSimulates
<1> QED BY <1>1, <1>2, InitInv, NextInv, PTL DEF Spec, ImplementsStream, Stream!Spec
------------------------------------------------------------------------------
(* The robot never goes back *)

\* Step b of the action stream comes after step a.
After(a, b) == b[1] > a[1] \/ (b[1] = a[1] /\ b[2] > a[2])

Step == Nat \X Nat

\* What is left is in order, comes after what was handed out last, and is of no later chunk
\* than the last.
OrderInv ==
  /\ \A i \in 1..Len(Pending) : Pending[i][2] \in Step /\ Pending[i][2][1] <= chunks
  /\ \A i, j \in 1..Len(Pending) : i < j => After(Pending[i][2], Pending[j][2])
  /\ out # <<>> => /\ out[2] \in Step /\ out[2][1] <= chunks
                   /\ \A i \in 1..Len(Pending) : After(out[2], Pending[i][2])

LEMMA PendingIsSeq == Inv => Pending \in Seq(Item) /\ chunks \in Nat
<1> SUFFICES ASSUME Inv PROVE Pending \in Seq(Item) /\ chunks \in Nat
  OBVIOUS
<1>1. q \in QueueObject(Entry, Task) /\ InStep(q) /\ chunks \in 0..MaxChunks
  BY DEF Inv, TypeOK, Lockstep
<1>2. Left(q) \in Seq(Item)
  BY <1>1, LeftProperties
<1> QED BY <1>1, <1>2, QueueAssumption DEF Pending, Left

LEMMA InitOrder == Init => OrderInv
<1> SUFFICES ASSUME Init PROVE OrderInv
  OBVIOUS
<1>1. Pending = <<>> /\ out = <<>>
  BY InitSimulates DEF Stream!Init
<1> QED BY <1>1 DEF OrderInv

LEMMA SeqMonotone ==
  ASSUME NEW S, NEW T, NEW s \in Seq(S) PROVE s \in Seq(S \cup T) /\ s \in Seq(T \cup S)
OBVIOUS

Items(task) == Step \X Step \X {task}

\* A sequence of items that are the steps of chunk n after d, in order.
InOrder(e, n, d, task) ==
  /\ e \in Seq(Items(task)) /\ Len(e) \in Nat
  /\ \A i \in 1..Len(e) : e[i][2] = <<n, d + i>> /\ e[i][2] \in Step
  /\ \A i, j \in 1..Len(e) : i < j => After(e[i][2], e[j][2])

\* The end of a new chunk is one.
LEMMA EndingOrder ==
  ASSUME NEW n \in Nat, NEW d \in 0..ChunkLen, NEW task
  PROVE  InOrder(Stream!Ending(n, d, task), n, d, task)
<1> DEFINE e == Stream!Ending(n, d, task)
           k == ChunkLen - d
<1>1. k \in Nat /\ d \in Nat
  BY QueueAssumption
<1>2. e = [i \in 1..k |-> <<<<n, d + i>>, <<n, d + i>>, task>>]
  BY DEF Stream!Ending
<1> HIDE DEF e, k
<1>3. \A i \in 1..k : d + i \in Nat
  BY <1>1
<1>4. \A i \in 1..k : <<n, d + i>> \in Step
  BY <1>3 DEF Step
<1>5. \A i \in 1..k : <<<<n, d + i>>, <<n, d + i>>, task>> \in Items(task)
  BY <1>4 DEF Items
<1>6. e \in Seq(Items(task)) /\ Len(e) = k
  <2>1. e \in [1..k -> Items(task)]
    BY <1>2, <1>5
  <2> QED BY <1>1, <2>1
<1>7. \A i \in 1..k : e[i][2] = <<n, d + i>>
  BY <1>2
<1>8. ASSUME NEW i \in 1..k, NEW j \in 1..k, i < j PROVE After(e[i][2], e[j][2])
  <2>1. d + i < d + j
    BY <1>1, <1>8
  <2> QED BY <1>7, <2>1 DEF After
<1> QED BY <1>1, <1>4, <1>6, <1>7, <1>8 DEF InOrder, e

\* Every step of the stream keeps its order.
LEMMA StepOrder == Inv /\ OrderInv /\ Stream!Next => OrderInv'
<1> SUFFICES ASSUME Inv, OrderInv, Stream!Next PROVE OrderInv'
  OBVIOUS
<1>0. Pending \in Seq(Item) /\ chunks \in Nat
  BY PendingIsSeq
<1> DEFINE p == Pending
           r == Pending'
           n == Len(Pending)
<1>n. n \in Nat
  BY <1>0
<1>i. /\ \A i \in 1..n : p[i][2] \in Step /\ p[i][2][1] <= chunks
      /\ \A i, j \in 1..n : i < j => After(p[i][2], p[j][2])
      /\ out # <<>> => /\ out[2] \in Step /\ out[2][1] <= chunks
                       /\ \A i \in 1..n : After(out[2], p[i][2])
  BY DEF OrderInv
<1>1. CASE Stream!Deliver
  <2>1. /\ p # <<>> /\ out' = Head(p) /\ r = Tail(p) /\ chunks' = chunks
    BY <1>1 DEF Stream!Deliver
  <2> HIDE DEF p, r
  <2>2. p \in Seq(Item)
    BY <1>0 DEF p
  <2>3. /\ n > 0 /\ Len(r) = n - 1 /\ out' = p[1]
        /\ \A i \in 1..(n - 1) : r[i] = p[i + 1]
    BY <2>1, <2>2 DEF p
  <2> HIDE DEF n
  <2>4. \A i \in 1..(n - 1) : i + 1 \in 1..n /\ 1 < i + 1
    BY <1>n
  <2>5. 1 \in 1..n
    BY <1>n, <2>3
  <2>6. \A i \in 1..Len(r) : r[i][2] \in Step /\ r[i][2][1] <= chunks'
    BY <1>i, <2>1, <2>3, <2>4
  <2>7. \A i, j \in 1..Len(r) : i < j => After(r[i][2], r[j][2])
    <3> SUFFICES ASSUME NEW i \in 1..(n - 1), NEW j \in 1..(n - 1), i < j
                 PROVE  After(r[i][2], r[j][2])
      BY <2>3
    <3>1. i + 1 < j + 1
      BY <1>n
    <3> QED BY <1>i, <2>3, <2>4, <3>1
  <2>8. /\ out'[2] \in Step /\ out'[2][1] <= chunks'
        /\ \A i \in 1..Len(r) : After(out'[2], r[i][2])
    BY <1>i, <2>1, <2>3, <2>4, <2>5
  <2> QED BY <2>6, <2>7, <2>8 DEF OrderInv, r
<1>2. CASE Stream!Supersede
  <2>1. PICK d \in 0..ChunkLen, task \in Task : r = Stream!Ending(chunks', d, task)
    BY <1>2 DEF Stream!Supersede
  <2>2. chunks' = chunks + 1 /\ out' = out
    BY <1>2 DEF Stream!Supersede
  <2>3. chunks' \in Nat
    BY <1>0, <2>2
  <2> HIDE DEF r, p, n
  <2>4. /\ \A i \in 1..Len(r) : r[i][2] = <<chunks', d + i>> /\ r[i][2] \in Step
        /\ \A i, j \in 1..Len(r) : i < j => After(r[i][2], r[j][2])
    <3>1. InOrder(r, chunks', d, task)
      BY <2>1, <2>3, EndingOrder
    <3> QED BY <3>1 DEF InOrder
  <2>5. \A i \in 1..Len(r) : r[i][2][1] <= chunks'
    BY <2>3, <2>4
  <2>6. ASSUME out # <<>>
        PROVE  /\ out'[2] \in Step /\ out'[2][1] <= chunks'
               /\ \A i \in 1..Len(r) : After(out'[2], r[i][2])
    <3>1. out[2] \in Step /\ out[2][1] <= chunks
      BY <1>i, <2>6
    <3>2. out[2][1] \in Nat
      BY <3>1 DEF Step
    <3>3. out[2][1] < chunks'
      BY <1>0, <2>2, <3>1, <3>2
    <3> QED BY <2>2, <2>3, <2>4, <3>1, <3>2, <3>3 DEF After
  <2> QED BY <2>2, <2>4, <2>5, <2>6 DEF OrderInv, r
<1>3. CASE Stream!Extend
  <2>1. PICK task \in Task : r = p \o Stream!Ending(chunks', 0, task)
    BY <1>3 DEF Stream!Extend
  <2>2. chunks' = chunks + 1 /\ out' = out
    BY <1>3 DEF Stream!Extend
  <2>3. chunks' \in Nat /\ 0 \in 0..ChunkLen
    BY <1>0, <2>2, QueueAssumption
  <2> DEFINE e == Stream!Ending(chunks', 0, task)
             m == Len(e)
  <2>4. /\ m \in Nat /\ e \in Seq(Items(task))
        /\ \A i \in 1..m : e[i][2] = <<chunks', 0 + i>> /\ e[i][2] \in Step
        /\ \A i, j \in 1..m : i < j => After(e[i][2], e[j][2])
    <3>1. InOrder(e, chunks', 0, task)
      BY <2>3, EndingOrder
    <3> QED BY <3>1 DEF InOrder
  <2> HIDE DEF e, p, r
  <2>5. p \in Seq(Item)
    BY <1>0 DEF p
  <2>6. Len(p) = n /\ Len(e) = m /\ r = p \o e
    BY <2>1 DEF p, n, e
  <2>a. p \in Seq(Item \cup Items(task)) /\ e \in Seq(Item \cup Items(task))
    BY <2>4, <2>5, SeqMonotone
  <2>b. /\ Len(r) = n + m
        /\ \A i \in 1..(n + m) : r[i] = IF i <= n THEN p[i] ELSE e[i - n]
    <3> HIDE DEF n, m
    <3>1. /\ Len(p \o e) = Len(p) + Len(e)
          /\ \A i \in 1..(Len(p) + Len(e)) :
               (p \o e)[i] = IF i <= Len(p) THEN p[i] ELSE e[i - Len(p)]
      BY <2>a, ConcatProperties
    <3> QED BY <2>6, <3>1
  <2> HIDE DEF n, m
  <2>7. Len(r) = n + m
    BY <2>b
  <2>8. /\ \A i \in 1..n : i \in 1..(n + m) /\ r[i] = p[i]
        /\ \A i \in (n + 1)..(n + m) : i - n \in 1..m /\ r[i] = e[i - n]
        /\ \A i \in 1..(n + m) : i \in 1..n \/ i \in (n + 1)..(n + m)
    BY <1>n, <2>4, <2>b
  <2>9. \A i \in (n + 1)..(n + m) : r[i][2] \in Step /\ r[i][2][1] = chunks'
    BY <2>4, <2>8
  <2>10. \A i \in 1..n : r[i][2] \in Step /\ r[i][2][1] < chunks'
    <3> SUFFICES ASSUME NEW i \in 1..n PROVE r[i][2] \in Step /\ r[i][2][1] < chunks'
      OBVIOUS
    <3>1. r[i][2] \in Step /\ r[i][2][1] <= chunks
      BY <1>i, <2>8
    <3>2. r[i][2][1] \in Nat
      BY <3>1 DEF Step
    <3> QED BY <1>0, <2>2, <3>1, <3>2
  <2>11. \A i \in 1..Len(r) : r[i][2] \in Step /\ r[i][2][1] <= chunks'
    <3> SUFFICES ASSUME NEW i \in 1..(n + m) PROVE r[i][2] \in Step /\ r[i][2][1] <= chunks'
      BY <2>7
    <3>1. CASE i \in 1..n
      <4>1. r[i][2] \in Step /\ r[i][2][1] < chunks'
        BY <2>10, <3>1
      <4>2. r[i][2][1] \in Nat
        BY <4>1 DEF Step
      <4> QED BY <2>3, <4>1, <4>2
    <3>2. CASE i \in (n + 1)..(n + m)
      BY <2>3, <2>9, <3>2
    <3> QED BY <2>8, <3>1, <3>2
  <2>12. \A i, j \in 1..Len(r) : i < j => After(r[i][2], r[j][2])
    <3> SUFFICES ASSUME NEW i \in 1..(n + m), NEW j \in 1..(n + m), i < j
                 PROVE  After(r[i][2], r[j][2])
      BY <2>7
    <3>1. CASE j \in 1..n
      <4>1. i \in 1..n
        BY <1>n, <2>4, <3>1
      <4> QED BY <1>i, <2>8, <3>1, <4>1
    <3>2. CASE i \in 1..n /\ j \in (n + 1)..(n + m)
      BY <2>9, <2>10, <3>2 DEF After
    <3>3. CASE i \in (n + 1)..(n + m) /\ j \in (n + 1)..(n + m)
      <4>1. i - n < j - n /\ i - n \in 1..m /\ j - n \in 1..m
        BY <1>n, <2>4, <3>3
      <4>2. r[i] = e[i - n] /\ r[j] = e[j - n]
        BY <2>8, <3>3
      <4> QED BY <2>4, <4>1, <4>2
    <3> QED BY <2>8, <3>1, <3>2, <3>3
  <2>13. ASSUME out # <<>>
         PROVE  /\ out'[2] \in Step /\ out'[2][1] <= chunks'
                /\ \A i \in 1..Len(r) : After(out'[2], r[i][2])
    <3>1. /\ out[2] \in Step /\ out[2][1] <= chunks
          /\ \A i \in 1..n : After(out[2], p[i][2])
      BY <1>i, <2>13
    <3>2. out[2][1] \in Nat
      BY <3>1 DEF Step
    <3>3. out[2][1] < chunks' /\ out[2][1] <= chunks'
      BY <1>0, <2>2, <3>1, <3>2
    <3>4. ASSUME NEW i \in 1..(n + m) PROVE After(out[2], r[i][2])
      <4>1. CASE i \in 1..n
        BY <2>8, <3>1, <4>1
      <4>2. CASE i \in (n + 1)..(n + m)
        BY <2>9, <3>3, <4>2 DEF After
      <4> QED BY <2>8, <4>1, <4>2
    <3> QED BY <2>2, <2>7, <3>1, <3>3, <3>4
  <2> QED BY <2>2, <2>11, <2>12, <2>13 DEF OrderInv, r
<1>4. CASE Stream!Flush
  <2>1. r = <<>> /\ out' = out /\ chunks' = chunks
    BY <1>4 DEF Stream!Flush
  <2> HIDE DEF r
  <2>2. Len(r) = 0
    BY <2>1
  <2>3. 1..Len(r) = {}
    BY <2>2
  <2> QED BY <1>i, <2>1, <2>3 DEF OrderInv, r
<1> QED BY <1>1, <1>2, <1>3, <1>4 DEF Stream!Next

\* The robot never repeats a step and never goes back to an older chunk, whichever way chunks
\* are merged, however late they are and however often the queue is cleared.
THEOREM NeverGoesBack == Spec => NeverBackwards
<1> DEFINE Forward == out # <<>> /\ out' # out =>
                        \/ out'[2][1] > out[2][1]
                        \/ out'[2][1] = out[2][1] /\ out'[2][2] > out[2][2]
<1>1. Inv /\ OrderInv /\ [Next]_vars => OrderInv'
  <2> SUFFICES ASSUME Inv, OrderInv, [Next]_vars PROVE OrderInv'
    OBVIOUS
  <2>1. CASE Stream!Next
    BY <2>1, StepOrder
  <2>2. CASE UNCHANGED Stream!stream
    <3>1. Pending' = Pending /\ out' = out /\ chunks' = chunks
      BY <2>2 DEF Stream!stream
    <3> QED BY <3>1 DEF OrderInv
  <2> QED BY <2>1, <2>2, StepSimulates
<1>2. Inv /\ OrderInv /\ [Next]_vars => [Forward]_vars
  <2> SUFFICES ASSUME Inv, OrderInv, [Next]_vars, out # <<>>, out' # out
               PROVE  \/ out'[2][1] > out[2][1]
                      \/ out'[2][1] = out[2][1] /\ out'[2][2] > out[2][2]
    OBVIOUS
  <2>1. Stream!Deliver
    BY StepSimulates DEF Stream!Next, Stream!stream, Stream!Supersede, Stream!Extend, Stream!Flush
  <2>2. Pending # <<>> /\ out' = Head(Pending)
    BY <2>1 DEF Stream!Deliver
  <2>3. Pending \in Seq(Item)
    BY PendingIsSeq
  <2> DEFINE p == Pending
  <2> HIDE DEF p
  <2>4. p \in Seq(Item) /\ p # <<>> /\ out' = Head(p)
    BY <2>2, <2>3 DEF p
  <2>5. 1 \in 1..Len(p) /\ out' = p[1]
    BY <2>4
  <2>6. After(out[2], p[1][2])
    BY <2>5 DEF OrderInv, p
  <2> QED BY <2>5, <2>6 DEF After
<1> QED BY <1>1, <1>2, InitInv, NextInv, InitOrder, PTL DEF Spec, NeverBackwards
=============================================================================
