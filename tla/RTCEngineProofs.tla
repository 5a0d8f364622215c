--------------------------- MODULE RTCEngineProofs ---------------------------
(***************************************************************************)
(* Theorems about RTCEngine, for any number of starts and resets, any set  *)
(* of instructions, and any chunk length, threshold, history and delay.    *)
(***************************************************************************)
EXTENDS RTCEngine, ActionQueueOpsProofs

Queue == QueueObject(SUBSET Epoch, Task)

\* What the assumption on the constants says of each of them.
LEMMA Constants ==
  /\ InitialTask \in Task
  /\ RTC \in BOOLEAN /\ Trained \in BOOLEAN /\ UseCompile \in BOOLEAN /\ Interactive \in BOOLEAN
  /\ WarmupRequired \in Nat /\ ChunkLen \in Nat /\ MaxStarts \in Nat \ {0}
  /\ HistoryLen \in Nat /\ MaxDelay \in Nat
BY EngineAssumption

-----------------------------------------------------------------------------
(* Type correctness.  TypeOK is not inductive: a dispatched label is an    *)
(* instruction only because the queue's arrays are in step, and the        *)
(* workers and the control loop only use a queue object that exists.       *)

Busy == WorkerPoint \ {"none", "top", "dead"}

QueuesInStep == \A g \in Gen : InStep(queues[g])

Begun ==
  /\ cur = 0 => ctl \in {"reset", "reset_queue", "reset_task", "start"} /\ ret = "start"
  /\ \A g \in Gen : pc[g] # "none" => cur # 0
  /\ \A g \in Gen : pc[g] \in Busy => seenQueue[g] # 0

WellFormed == TypeOK /\ QueuesInStep /\ Begun

\* The frames a bounded history keeps are the newest of its frames.
LEMMA LastNProperties ==
  ASSUME NEW S, NEW s \in Seq(S), NEW n \in Nat
  PROVE  LastN(s, n) \in Seq(S) /\ Elements(LastN(s, n)) \subseteq Elements(s)
<1>1. CASE Len(s) <= n
  BY <1>1 DEF LastN
<1>2. CASE ~(Len(s) <= n)
  <2>1. Len(s) \in Nat /\ Len(s) - n \in Nat
    BY <1>2, LenProperties
  <2>2. LastN(s, n) = Drop(s, Len(s) - n)
    BY <1>2 DEF LastN
  <2>3. /\ Drop(s, Len(s) - n) \in Seq(S) /\ Len(Drop(s, Len(s) - n)) = n
        /\ \A i \in 1..Len(Drop(s, Len(s) - n)) : Drop(s, Len(s) - n)[i] = s[i + (Len(s) - n)]
    BY <1>2, <2>1, DropProperties
  <2>4. \A i \in 1..n : i + (Len(s) - n) \in 1..Len(s)
    BY <2>1
  <2> QED BY <2>2, <2>3, <2>4 DEF Elements
<1> QED BY <1>1, <1>2

\* A new engine is well formed.
LEMMA InitWellFormed == Init => WellFormed
<1> SUFFICES ASSUME Init PROVE WellFormed
  OBVIOUS
<1>1. Cleared \in Queue /\ InStep(Cleared)
  BY ClearedType, EmptySeq DEF Queue, Cleared, InStep
<1>2. ControlType
  BY DEF Init, ControlType, ControlPoint
<1>3. EngineType
  <2>1. history \in Seq(Epoch)
    BY EmptySeq DEF Init
  <2>2. queues \in [Gen -> Queue]
    BY <1>1 DEF Init
  <2>3. ready \in BOOLEAN /\ active \in BOOLEAN /\ stopping \in BOOLEAN /\ failed \in BOOLEAN
    BY Constants DEF Init
  <2>4. obs \in Epoch /\ cur \in 0..MaxStarts /\ thread \in 0..MaxStarts /\ epoch \in Nat
    BY Constants DEF Init, Epoch, NoObs
  <2> QED BY <2>1, <2>2, <2>3, <2>4 DEF EngineType, Queue
<1>4. ChatType
  BY Constants DEF Init, ChatType
<1>5. WorkerType
  BY Constants DEF Init, WorkerType, WorkerPoint
<1>6. QueuesInStep
  BY <1>1 DEF Init, QueuesInStep
<1>7. Begun
  BY DEF Init, Begun, Busy
<1> QED BY <1>2, <1>3, <1>4, <1>5, <1>6, <1>7 DEF WellFormed, TypeOK

\* The control thread and the outside world preserve the types.
LEMMA ControlTypes == WellFormed /\ (Control \/ Outside) => TypeOK'
<1> SUFFICES ASSUME WellFormed, Control \/ Outside PROVE TypeOK'
  OBVIOUS
<1>0. TypeOK /\ QueuesInStep /\ Begun
  BY DEF WellFormed
<1> USE DEF TypeOK, ControlType, EngineType, ChatType, WorkerType
<1> USE DEF control, engine, chat, local, ghosts
<1>1. CASE ResetPolicy
  BY ZenonT(40), <1>0, <1>1 DEF ResetPolicy, ControlPoint
<1>2. CASE ResetTask
  BY <1>0, <1>2 DEF ResetTask, ControlPoint
<1>3. CASE Resume
  BY ZenonT(40), <1>0, <1>3 DEF Resume, ControlPoint
<1>4. CASE Stop
  BY <1>0, <1>4 DEF Stop, ControlPoint
<1>5. CASE JoinTimeout
  BY ZenonT(40), <1>0, <1>5 DEF JoinTimeout, ControlPoint
<1>5a. CASE LookForWorker
  BY ZenonT(40), <1>0, <1>5a DEF LookForWorker, ControlPoint
<1>6. CASE RestartCheck
  BY ZenonT(40), <1>0, <1>6 DEF RestartCheck, ControlPoint
<1>7. CASE LeaveLoop
  BY ZenonT(40), <1>0, <1>7 DEF LeaveLoop, ControlPoint
<1>8. CASE BeginRestart
  BY <1>0, <1>8 DEF BeginRestart, ControlPoint
<1>9. CASE ServeEnds
  BY ZenonT(40), <1>0, <1>9 DEF ServeEnds, ControlPoint
<1>10. CASE AcceptStart
  BY <1>0, <1>10 DEF AcceptStart, ControlPoint
<1>11. CASE BeginSegment
  BY ZenonT(40), <1>0, <1>11 DEF BeginSegment, ControlPoint
<1>12. CASE CheckSegment
  BY ZenonT(40), <1>0, <1>12 DEF CheckSegment, ControlPoint
<1>13. CASE Join
  <2>1. ControlType'
    BY <1>0, <1>13 DEF Join, ControlPoint
  <2>2. EngineType'
    <3>1. thread' \in 0..MaxStarts
      BY <1>13, Constants DEF Join
    <3> QED BY <1>0, <1>13, <3>1 DEF Join
  <2>3. ChatType'
    BY <1>0, <1>13 DEF Join
  <2>4. WorkerType'
    BY <1>0, <1>13 DEF Join
  <2> QED BY <2>1, <2>2, <2>3, <2>4
<1>14. CASE HandleWarmup
  <2>1. ControlType'
    BY <1>0, <1>14 DEF HandleWarmup, ControlPoint
  <2>2. EngineType'
    BY <1>0, <1>14 DEF HandleWarmup
  <2>3. ChatType'
    BY <1>0, <1>14 DEF HandleWarmup
  <2>4. WorkerType'
    BY <1>0, <1>14 DEF HandleWarmup
  <2> QED BY <2>1, <2>2, <2>3, <2>4
<1>15. CASE PressR
  <2>1. ControlType'
    BY <1>0, <1>15 DEF PressR, ControlPoint
  <2>2. EngineType'
    BY <1>0, <1>15 DEF PressR
  <2>3. ChatType'
    BY <1>0, <1>15 DEF PressR
  <2>4. WorkerType'
    BY <1>0, <1>15 DEF PressR
  <2> QED BY <2>1, <2>2, <2>3, <2>4
<1>16. CASE Interrupt
  <2>1. ControlType'
    BY <1>0, <1>16 DEF Interrupt, ControlPoint
  <2>2. EngineType'
    BY <1>0, <1>16 DEF Interrupt
  <2>3. ChatType'
    BY <1>0, <1>16 DEF Interrupt
  <2>4. WorkerType'
    BY <1>0, <1>16 DEF Interrupt
  <2> QED BY <2>1, <2>2, <2>3, <2>4
<1>17. CASE Ask
  <2>1. ControlType'
    BY <1>0, <1>17 DEF Ask, ControlPoint
  <2>2. EngineType'
    BY <1>0, <1>17 DEF Ask
  <2>3. ChatType'
    BY <1>0, <1>17 DEF Ask
  <2>4. WorkerType'
    BY <1>0, <1>17 DEF Ask
  <2> QED BY <2>1, <2>2, <2>3, <2>4
<1>18. CASE \E t \in Task : SetTask(t)
  <2> PICK t \in Task : SetTask(t)
    BY <1>18
  <2>1. ControlType'
    BY <1>0 DEF SetTask
  <2>2. EngineType'
    BY <1>0 DEF SetTask
  <2>3. ChatType'
    BY <1>0 DEF SetTask
  <2>4. WorkerType'
    BY <1>0 DEF SetTask
  <2> QED BY <2>1, <2>2, <2>3, <2>4
<1>19. CASE ResetQueue
  <2>1. ControlType' /\ ChatType' /\ WorkerType'
    BY <1>0, <1>19 DEF ResetQueue, ControlPoint
  <2>2. queues' \in [Gen -> Queue]
    BY <1>0, <1>19, ClearedType DEF ResetQueue, ClearAndBump, Queue
  <2>3. history' \in Seq(Epoch) /\ obs' \in Epoch /\ epoch' \in Nat
    BY <1>0, <1>19, EmptySeq DEF ResetQueue, ClearAndBump, NoObs, Epoch
  <2>4. EngineType'
    BY <1>0, <1>19, <2>2, <2>3 DEF ResetQueue, Queue
  <2> QED BY <2>1, <2>4
<1>20. CASE Start
  <2>1. ControlType' /\ ChatType'
    BY <1>0, <1>20 DEF Start, ControlPoint
  <2>2. EngineType'
    <3>1. cur' \in 0..MaxStarts /\ thread' \in 0..MaxStarts
      BY <1>0, <1>20, Constants DEF Start
    <3>2. obs' \in Epoch
      BY <1>20 DEF Start, NoObs, Epoch
    <3> QED BY <1>0, <1>20, <3>1, <3>2 DEF Start
  <2>3. WorkerType'
    <3>1. pc' \in [Gen -> WorkerPoint]
      BY <1>0, <1>20 DEF Start, WorkerPoint
    <3> QED BY <1>0, <1>20, <3>1 DEF Start
  <2> QED BY <2>1, <2>2, <2>3
<1>21. CASE Observe
  <2>1. ControlType' /\ ChatType' /\ WorkerType'
    BY <1>0, <1>21 DEF Observe, ControlPoint
  <2>2. Append(history, epoch) \in Seq(Epoch)
    BY <1>0, AppendProperties DEF Epoch
  <2>3. LastN(Append(history, epoch), HistoryLen) \in Seq(Epoch)
    BY <2>2, LastNProperties, Constants
  <2>4. obs' \in Epoch /\ history' \in Seq(Epoch)
    BY <1>0, <1>21, <2>3 DEF Observe, Epoch
  <2>5. EngineType'
    BY <1>0, <1>21, <2>4 DEF Observe
  <2> QED BY <2>1, <2>5
<1>22. CASE Dispatch
  <2>1. ControlType' /\ WorkerType'
    BY <1>0, <1>22 DEF Dispatch, ControlPoint
  <2>2. cur \in Gen
    BY <1>0, <1>22, Constants DEF Dispatch, Begun, Gen
  <2>3. queues[cur] \in Queue /\ InStep(queues[cur])
    BY <1>0, <2>2 DEF Queue, QueuesInStep
  <2>4. HasAction(queues[cur]) => Popped(queues[cur]) \in Queue /\ NextTask(queues[cur]) \in Task
    BY <2>3, PoppedType, NextTaskType DEF Queue
  <2>5. queues' \in [Gen -> Queue]
    BY <1>0, <1>22, <2>4 DEF Dispatch, Queue
  <2>6. EngineType'
    BY <1>0, <1>22, <2>5 DEF Dispatch, Queue
  <2>7. ChatType'
    BY <1>0, <1>22, <2>4 DEF Dispatch
  <2> QED BY <2>1, <2>6, <2>7
<1> QED BY <1>1, <1>2, <1>3, <1>4, <1>5, <1>5a, <1>6, <1>7, <1>8, <1>9, <1>10, <1>11, <1>12, <1>13, <1>14, <1>15, <1>16, <1>17, <1>18, <1>19, <1>20, <1>21, <1>22
     DEF Control, Outside


\* A worker using a queue uses one that exists.
LEMMA SeenQueueExists ==
  ASSUME WellFormed, NEW g \in Gen, pc[g] \in Busy
  PROVE  /\ seenQueue[g] \in Gen
         /\ queues[seenQueue[g]] \in Queue /\ InStep(queues[seenQueue[g]])
<1>1. seenQueue[g] \in 0..MaxStarts /\ seenQueue[g] # 0
  BY DEF WellFormed, TypeOK, WorkerType, Begun
<1>2. seenQueue[g] \in Gen
  BY <1>1, Constants DEF Gen
<1> QED BY <1>2 DEF WellFormed, TypeOK, EngineType, QueuesInStep, Queue

\* The chunk a worker merges, as a sequence.
LEMMA ChunkProperties ==
  ASSUME WellFormed, NEW g \in Gen
  PROVE  /\ ChunkOf(g) \in Seq(SUBSET Epoch) /\ Len(ChunkOf(g)) = ChunkLen
         /\ \A i \in 1..Len(ChunkOf(g)) : ChunkOf(g)[i] = from[g]
<1>1. from[g] \in SUBSET Epoch
  BY DEF WellFormed, TypeOK, WorkerType
<1> QED BY <1>1, Constants DEF ChunkOf

\* What is left of a queue comes out of it.
LEMMA LeftOverProperties ==
  ASSUME NEW q \in Queue
  PROVE  /\ LeftOver(q) \in Seq(SUBSET Epoch)
         /\ Elements(LeftOver(q)) \subseteq Elements(q.original_queue)
<1>1. q.original_queue \in Seq(SUBSET Epoch) /\ q.last_index \in Nat
  BY DEF Queue, QueueObject
<1>2. /\ LeftOver(q) \in Seq(SUBSET Epoch)
      /\ Len(LeftOver(q)) = IF q.last_index <= Len(q.original_queue)
                            THEN Len(q.original_queue) - q.last_index ELSE 0
      /\ \A i \in 1..Len(LeftOver(q)) : LeftOver(q)[i] = q.original_queue[i + q.last_index]
  BY <1>1, DropProperties DEF LeftOver
<1>3. Len(q.original_queue) \in Nat
  BY <1>1, LenProperties
<1>4. \A i \in 1..Len(LeftOver(q)) : i + q.last_index \in 1..Len(q.original_queue)
  BY <1>1, <1>2, <1>3
<1> QED BY <1>2, <1>4 DEF Elements

\* A merge changes at most the worker's own queue, to one that is in step.
LEMMA MergeProperties ==
  ASSUME WellFormed, NEW g \in Gen, MergeChunk(g)
  PROVE  /\ queues' \in [Gen -> Queue]
         /\ \A h \in Gen : InStep(queues'[h])
<1>0. queues \in [Gen -> Queue] /\ \A h \in Gen : InStep(queues[h])
  BY DEF WellFormed, TypeOK, EngineType, QueuesInStep, Queue
<1>1. CASE ~StillCurrent(g)
  BY <1>0, <1>1 DEF MergeChunk
<1>2. CASE StillCurrent(g)
  <2>1. seenQueue[g] \in Gen /\ queues[seenQueue[g]] \in Queue /\ InStep(queues[seenQueue[g]])
    BY SeenQueueExists DEF MergeChunk, Busy, WorkerPoint
  <2>2. seenTask[g] \in Task
    BY DEF WellFormed, TypeOK, WorkerType
  <2> DEFINE M(delay) == Merged(RTC, queues[seenQueue[g]], ChunkOf(g), ChunkOf(g), delay, seenTask[g])
  <2>3. PICK delay \in 0..MaxDelay : queues' = [queues EXCEPT ![seenQueue[g]] = M(delay)]
    BY <1>2 DEF MergeChunk
  <2>4. delay \in Int
    BY Constants
  <2>5. M(delay) \in Queue
    BY <2>1, <2>2, <2>4, ChunkProperties, MergedType, Constants DEF Queue
  <2>6. InStep(M(delay))
    BY <2>1, <2>2, <2>4, ChunkProperties, MergedInStep, Constants DEF Queue
  <2> QED BY <1>0, <2>1, <2>3, <2>5, <2>6
<1> QED BY <1>1, <1>2

\* A worker preserves the types.
LEMMA WorkerTypes ==
  ASSUME WellFormed, NEW g \in Gen, Worker(g)
  PROVE  TypeOK'
<1>0. TypeOK /\ QueuesInStep /\ Begun
  BY DEF WellFormed
<1> USE DEF TypeOK, ControlType, EngineType, ChatType, WorkerType
<1> USE DEF control, engine, chat, local, ghosts
<1>1. CASE Top(g)
  BY <1>0, <1>1 DEF Top, Goto, WorkerPoint
<1>2. CASE StopSeen(g)
  <2>1. ControlType'
    BY <1>0, <1>2 DEF StopSeen, Exit, Goto
  <2>2. EngineType' /\ ChatType'
    BY <1>0, <1>2 DEF StopSeen, Exit, Goto
  <2>3. pc' \in [Gen -> WorkerPoint]
    BY <1>0, <1>2 DEF StopSeen, Goto, Exit, WorkerPoint
  <2>4. /\ seenEpoch' \in [Gen -> Nat] /\ seenQueue' \in [Gen -> 0..MaxStarts]
        /\ seenTask' \in [Gen -> Task] /\ from' \in [Gen -> SUBSET Epoch]
    BY <1>0, <1>2, Constants DEF StopSeen, Exit
  <2>5. /\ prefixed' \in [Gen -> BOOLEAN] /\ count' \in [Gen -> Nat]
        /\ errors' \in [Gen -> Nat] /\ discards' \in [Gen -> Nat]
    BY <1>0, <1>2 DEF StopSeen, Exit
  <2> QED BY <2>1, <2>2, <2>3, <2>4, <2>5
<1>3. CASE ClaimQuery(g)
  BY ZenonT(40), <1>0, <1>3 DEF ClaimQuery, Goto, WorkerPoint
<1>4. CASE AnswerQuery(g)
  BY ZenonT(40), <1>0, <1>4 DEF AnswerQuery, Goto, WorkerPoint
<1>5. CASE CheckQueue(g)
  BY ZenonT(40), <1>0, <1>5 DEF CheckQueue, Goto, WorkerPoint
<1>6. CASE TakeTask(g)
  BY ZenonT(40), <1>0, <1>6 DEF TakeTask, Goto, WorkerPoint
<1>7. CASE InferUsable(g)
  <2>1. ControlType'
    BY <1>0, <1>7 DEF InferUsable, Goto
  <2>2. EngineType' /\ ChatType'
    BY <1>0, <1>7 DEF InferUsable, Goto
  <2>3. pc' \in [Gen -> WorkerPoint]
    BY <1>0, <1>7 DEF InferUsable, Goto, WorkerPoint
  <2>4. /\ seenEpoch' \in [Gen -> Nat] /\ seenQueue' \in [Gen -> 0..MaxStarts]
        /\ seenTask' \in [Gen -> Task] /\ from' \in [Gen -> SUBSET Epoch]
        /\ prefixed' \in [Gen -> BOOLEAN]
    BY <1>0, <1>7 DEF InferUsable
  <2>5. count' \in [Gen -> Nat] /\ errors' \in [Gen -> Nat] /\ discards' \in [Gen -> Nat]
    BY <1>0, <1>7, Constants DEF InferUsable
  <2> QED BY <2>1, <2>2, <2>3, <2>4, <2>5
<1>8. CASE InferTooLate(g)
  <2>1. ControlType'
    BY <1>0, <1>8 DEF InferTooLate, Goto
  <2>2. EngineType' /\ ChatType'
    BY <1>0, <1>8 DEF InferTooLate, Goto
  <2>3. pc' \in [Gen -> WorkerPoint]
    BY <1>0, <1>8 DEF InferTooLate, Goto, WorkerPoint
  <2>4. /\ seenEpoch' \in [Gen -> Nat] /\ seenQueue' \in [Gen -> 0..MaxStarts]
        /\ seenTask' \in [Gen -> Task] /\ from' \in [Gen -> SUBSET Epoch]
        /\ prefixed' \in [Gen -> BOOLEAN]
    BY <1>0, <1>8 DEF InferTooLate
  <2>5. count' \in [Gen -> Nat] /\ errors' \in [Gen -> Nat] /\ discards' \in [Gen -> Nat]
    BY <1>0, <1>8, Constants DEF InferTooLate
  <2> QED BY <2>1, <2>2, <2>3, <2>4, <2>5
<1>9. CASE InferError(g)
  <2>1. ControlType'
    BY <1>0, <1>9 DEF InferError, Goto
  <2>2. EngineType' /\ ChatType'
    BY <1>0, <1>9 DEF InferError, Goto
  <2>3. pc' \in [Gen -> WorkerPoint]
    BY <1>0, <1>9 DEF InferError, Goto, WorkerPoint
  <2>4. /\ seenEpoch' \in [Gen -> Nat] /\ seenQueue' \in [Gen -> 0..MaxStarts]
        /\ seenTask' \in [Gen -> Task] /\ from' \in [Gen -> SUBSET Epoch]
        /\ prefixed' \in [Gen -> BOOLEAN]
    BY <1>0, <1>9 DEF InferError
  <2>5. count' \in [Gen -> Nat] /\ errors' \in [Gen -> Nat] /\ discards' \in [Gen -> Nat]
    BY <1>0, <1>9, Constants DEF InferError
  <2> QED BY <2>1, <2>2, <2>3, <2>4, <2>5
<1>10. CASE FinishWarmup(g)
  BY <1>0, <1>10 DEF FinishWarmup, Goto, WorkerPoint
<1>11. CASE Fail(g)
  BY <1>0, <1>11 DEF Fail, Goto, WorkerPoint
<1>12. CASE Unblock(g)
  BY <1>0, <1>12 DEF Unblock, Goto, WorkerPoint
<1>13. CASE Signal(g)
  <2>1. ControlType'
    BY <1>0, <1>13 DEF Signal, Exit, Goto
  <2>2. EngineType' /\ ChatType'
    BY <1>0, <1>13 DEF Signal, Exit, Goto
  <2>3. pc' \in [Gen -> WorkerPoint]
    BY <1>0, <1>13 DEF Signal, Goto, Exit, WorkerPoint
  <2>4. /\ seenEpoch' \in [Gen -> Nat] /\ seenQueue' \in [Gen -> 0..MaxStarts]
        /\ seenTask' \in [Gen -> Task] /\ from' \in [Gen -> SUBSET Epoch]
    BY <1>0, <1>13, Constants DEF Signal, Exit
  <2>5. /\ prefixed' \in [Gen -> BOOLEAN] /\ count' \in [Gen -> Nat]
        /\ errors' \in [Gen -> Nat] /\ discards' \in [Gen -> Nat]
    BY <1>0, <1>13 DEF Signal, Exit
  <2> QED BY <2>1, <2>2, <2>3, <2>4, <2>5
<1>14. CASE Snapshot(g)
  <2>1. ControlType' /\ EngineType' /\ ChatType'
    BY <1>0, <1>14 DEF Snapshot, Goto, ReadSnapshot
  <2>2. {obs} \union Elements(history) \in SUBSET Epoch
    BY <1>0, ElementOfSeq DEF Elements
  <2>3. WorkerType'
    BY <1>0, <1>14, <2>2 DEF Snapshot, Goto, ReadSnapshot, WorkerPoint
  <2> QED BY <2>1, <2>3
<1>15. CASE Reread(g)
  <2>1. ControlType' /\ EngineType' /\ ChatType'
    BY <1>0, <1>15 DEF Reread, Goto, ReadSnapshot
  <2>2. {obs} \union Elements(history) \in SUBSET Epoch
    BY <1>0, ElementOfSeq DEF Elements
  <2>3. WorkerType'
    BY <1>0, <1>15, <2>2 DEF Reread, Goto, ReadSnapshot, WorkerPoint
  <2> QED BY <2>1, <2>3
<1>16. CASE ReadPrefix(g)
  <2>1. ControlType' /\ EngineType' /\ ChatType'
    BY <1>0, <1>16 DEF ReadPrefix, Goto
  <2> DEFINE prev == LeftOver(queues[seenQueue[g]])
  <2>2. queues[seenQueue[g]] \in Queue
    BY <1>16, SeenQueueExists DEF ReadPrefix, Busy, WorkerPoint
  <2>3. prev \in Seq(SUBSET Epoch)
    BY <2>2, LeftOverProperties
  <2> HIDE DEF prev
  <2>4. UNION Elements(prev) \in SUBSET Epoch
    BY <2>3, ElementOfSeq DEF Elements
  <2>5. from[g] \union UNION Elements(prev) \in SUBSET Epoch
    BY <1>0, <2>4
  <2>6. from' \in [Gen -> SUBSET Epoch] /\ prefixed' \in [Gen -> BOOLEAN]
    BY <1>0, <1>16, <2>5 DEF ReadPrefix, prev
  <2>7. WorkerType'
    BY <1>0, <1>16, <2>6 DEF ReadPrefix, Goto, WorkerPoint
  <2> QED BY <2>1, <2>7
<1>17. CASE MergeChunk(g)
  <2>1. ControlType' /\ ChatType' /\ WorkerType'
    BY <1>0, <1>17 DEF MergeChunk, Goto, WorkerPoint
  <2>2. queues' \in [Gen -> Queue]
    BY <1>17, MergeProperties
  <2>3. EngineType'
    BY <1>0, <1>17, <2>2 DEF MergeChunk, Queue
  <2> QED BY <2>1, <2>3
<1> QED BY <1>1, <1>2, <1>3, <1>4, <1>5, <1>6, <1>7, <1>8, <1>9, <1>10, <1>11, <1>12, <1>13, <1>14, <1>15, <1>16, <1>17
     DEF Worker

\* No step gets the arrays of a queue out of step.
LEMMA NextInStep == WellFormed /\ [Next]_vars => QueuesInStep'
<1> SUFFICES ASSUME WellFormed, [Next]_vars PROVE QueuesInStep'
  OBVIOUS
<1>0. queues \in [Gen -> Queue] /\ \A g \in Gen : InStep(queues[g])
  BY DEF WellFormed, TypeOK, EngineType, QueuesInStep, Queue
<1>1. CASE ResetQueue
  <2>1. InStep(Cleared)
    BY EmptySeq DEF Cleared, InStep
  <2> QED BY <1>0, <1>1, <2>1 DEF ResetQueue, ClearAndBump, QueuesInStep
<1>2. CASE Dispatch
  <2>1. cur \in Gen
    BY <1>2, Constants DEF Dispatch, WellFormed, Begun, Gen, TypeOK, EngineType
  <2>2. HasAction(queues[cur]) => InStep(Popped(queues[cur]))
    BY <1>0, <2>1, PoppedInStep DEF Queue
  <2> QED BY <1>0, <1>2, <2>2 DEF Dispatch, QueuesInStep
<1>3. CASE \E g \in Gen : MergeChunk(g)
  BY <1>3, MergeProperties DEF QueuesInStep
<1>4. CASE UNCHANGED queues
  BY <1>0, <1>4 DEF QueuesInStep
<1>5. ASSUME Control PROVE ResetQueue \/ Dispatch \/ UNCHANGED queues
  BY <1>5 DEF Control, ResetPolicy, ResetTask, Start, Resume, Stop, LookForWorker, Join, JoinTimeout, RestartCheck,
     LeaveLoop, BeginRestart, Observe, HandleWarmup, ServeEnds, AcceptStart, BeginSegment,
     CheckSegment, engine
<1>6. ASSUME Outside PROVE UNCHANGED queues
  BY <1>6 DEF Outside, PressR, Interrupt, Ask, SetTask, engine
<1>7. ASSUME NEW g \in Gen, Worker(g) PROVE MergeChunk(g) \/ UNCHANGED queues
  BY <1>7 DEF Worker, Top, StopSeen, Snapshot, ClaimQuery, AnswerQuery, Reread, CheckQueue,
     ReadPrefix, TakeTask, InferUsable, InferTooLate, InferError, FinishWarmup, Fail, Unblock,
     Signal, engine
<1>8. CASE Done \/ UNCHANGED vars
  BY <1>4, <1>8 DEF Done, vars, engine
<1> QED BY <1>1, <1>2, <1>3, <1>4, <1>5, <1>6, <1>7, <1>8 DEF Next

\* A worker runs only after a start, and past its gate it holds a queue.
LEMMA NextBegun == WellFormed /\ [Next]_vars => Begun'
<1> SUFFICES ASSUME WellFormed, [Next]_vars PROVE Begun'
  OBVIOUS
<1>0. /\ ctl \in ControlPoint /\ cur \in Nat /\ pc \in [Gen -> WorkerPoint]
      /\ seenQueue \in [Gen -> 0..MaxStarts] /\ Begun
  BY Constants DEF WellFormed, TypeOK, ControlType, EngineType, WorkerType
<1> USE DEF Begun, control, engine, chat, local
<1>1. CASE Start
  <2>1. cur' # 0
    BY <1>0, <1>1 DEF Start
  <2>2. \A g \in Gen : pc'[g] \in Busy => pc'[g] = pc[g]
    BY <1>0, <1>1 DEF Start, Busy
  <2>3. \A g \in Gen : seenQueue'[g] = seenQueue[g]
    BY <1>1 DEF Start
  <2> QED BY <1>0, <2>1, <2>2, <2>3
<1>2. CASE Control /\ ~Start
  <2>1. cur' = cur /\ pc' = pc /\ seenQueue' = seenQueue
    BY <1>2 DEF Control, ResetPolicy, ResetQueue, ResetTask, Resume, Stop, LookForWorker, Join, JoinTimeout,
       RestartCheck, LeaveLoop, BeginRestart, Observe, HandleWarmup, Dispatch, ServeEnds,
       AcceptStart, BeginSegment, CheckSegment
  <2>2. cur = 0 => ctl' \in {"reset", "reset_queue", "reset_task", "start"} /\ ret' = "start"
    BY <1>0, <1>2 DEF Control, ResetPolicy, ResetQueue, ResetTask, Resume, Stop, LookForWorker, Join,
       JoinTimeout, RestartCheck, LeaveLoop, BeginRestart, Observe, HandleWarmup, Dispatch,
       ServeEnds, AcceptStart, BeginSegment, CheckSegment
  <2> QED BY <1>0, <2>1, <2>2
<1>3. CASE Outside
  <2>1. ctl' = ctl /\ ret' = ret /\ cur' = cur /\ pc' = pc /\ seenQueue' = seenQueue
    BY <1>3 DEF Outside, PressR, Interrupt, Ask, SetTask
  <2> QED BY <1>0, <2>1
<1>4. ASSUME NEW g \in Gen, Worker(g) PROVE Begun'
  <2>1. cur' = cur /\ ctl' = ctl /\ ret' = ret
    BY <1>4 DEF Worker, Top, StopSeen, Snapshot, ClaimQuery, AnswerQuery, Reread, CheckQueue,
       ReadPrefix, TakeTask, InferUsable, InferTooLate, InferError, MergeChunk, FinishWarmup, Fail,
       Unblock, Signal
  <2>2. /\ pc[g] \notin {"none", "dead"}
        /\ \A h \in Gen \ {g} : pc'[h] = pc[h] /\ seenQueue'[h] = seenQueue[h]
    BY <1>0, <1>4 DEF Worker, Top, StopSeen, Snapshot, ClaimQuery, AnswerQuery, Reread, CheckQueue,
       ReadPrefix, TakeTask, InferUsable, InferTooLate, InferError, MergeChunk, FinishWarmup, Fail,
       Unblock, Signal, Goto, Exit
  <2>3. cur # 0
    BY <1>0, <2>2
  <2>4. pc'[g] \in Busy => seenQueue'[g] # 0
    <3>1. CASE Top(g)
      BY <1>0, <2>3, <3>1 DEF Top
    <3>2. CASE StopSeen(g) \/ Signal(g)
      BY <1>0, <3>2 DEF StopSeen, Signal, Exit, Goto, Busy
    <3>3. CASE ~Top(g) /\ ~StopSeen(g) /\ ~Signal(g)
      <4>1. seenQueue' = seenQueue
        BY <1>4, <3>3 DEF Worker, Snapshot, ClaimQuery, AnswerQuery, Reread, CheckQueue, ReadPrefix,
           TakeTask, InferUsable, InferTooLate, InferError, MergeChunk, FinishWarmup, Fail, Unblock
      <4>2. pc[g] \in Busy
        BY <1>4, <3>3 DEF Worker, Snapshot, ClaimQuery, AnswerQuery, Reread, CheckQueue, ReadPrefix,
           TakeTask, InferUsable, InferTooLate, InferError, MergeChunk, FinishWarmup, Fail, Unblock,
           Busy, WorkerPoint
      <4> QED BY <1>0, <4>1, <4>2
    <3> QED BY <3>1, <3>2, <3>3
  <2> QED BY <1>0, <2>1, <2>2, <2>3, <2>4
<1>5. CASE Done \/ UNCHANGED vars
  BY <1>0, <1>5 DEF Done, vars
<1> QED BY <1>1, <1>2, <1>3, <1>4, <1>5 DEF Next

\* A stuttering step preserves the types.
LEMMA StutterTypes == TypeOK /\ UNCHANGED vars => TypeOK'
<1> SUFFICES ASSUME TypeOK, UNCHANGED vars PROVE TypeOK'
  OBVIOUS
<1> USE DEF TypeOK, vars
<1>1. ControlType'
  BY DEF ControlType, control
<1>2. EngineType'
  BY DEF EngineType, engine
<1>3. ChatType'
  BY DEF ChatType, chat, ghosts
<1>4. WorkerType'
  BY DEF WorkerType, local
<1> QED BY <1>1, <1>2, <1>3, <1>4

\* Well-formedness is inductive.
LEMMA NextWellFormed == WellFormed /\ [Next]_vars => WellFormed'
<1> SUFFICES ASSUME WellFormed, [Next]_vars PROVE WellFormed'
  OBVIOUS
<1>1. TypeOK'
  <2>1. TypeOK
    BY DEF WellFormed
  <2> QED BY <2>1, ControlTypes, WorkerTypes, StutterTypes DEF Next, Done
<1> QED BY <1>1, NextInStep, NextBegun DEF WellFormed

\* In every reachable state the engine is well formed ...
THEOREM AlwaysWellFormed == Spec => []WellFormed
<1> QED BY InitWellFormed, NextWellFormed, PTL DEF Spec

\* ... in particular every variable has its type.
THEOREM TypeCorrect == Spec => []TypeOK
<1>1. WellFormed => TypeOK
  BY DEF WellFormed
<1> QED BY <1>1, AlwaysWellFormed, PTL

-----------------------------------------------------------------------------
(* Fresh queue.  The queue is fresh because whatever can still be merged   *)
(* into it is: a worker whose epoch and queue are the current ones holds   *)
(* data of this epoch only.  Every other worker fails the epoch comparison *)
(* of the merge, or merges into a queue nobody reads.                      *)

Holding == {"query", "generating", "reread", "refill", "prefix", "take", "infer", "merge"}

Current(g) == pc[g] \in Holding /\ seenEpoch[g] = epoch /\ seenQueue[g] = cur

OnlyOf(q, x) == Within(q.queue, {x}) /\ Within(q.original_queue, {x})

SharedFresh ==
  /\ obs \in {NoObs, epoch}
  /\ Elements(history) \subseteq {epoch}
  /\ cur # 0 => OnlyOf(queues[cur], {epoch})
  /\ \A h \in Gen : h > cur => queues[h] = Cleared

WorkersFresh ==
  \A g \in Gen : /\ seenEpoch[g] <= epoch /\ seenQueue[g] <= cur
                 /\ Current(g) => from[g] = {epoch}

FreshInv == WellFormed /\ SharedFresh /\ WorkersFresh

\* A queue without actions holds only fresh ones.
LEMMA ClearedOnly == \A x : OnlyOf(Cleared, x)
BY EmptySeq DEF OnlyOf, Within, Cleared

\* In a new engine there is nothing stale.
LEMMA InitFresh == Init => FreshInv
<1> SUFFICES ASSUME Init PROVE FreshInv
  OBVIOUS
<1>1. WellFormed
  BY InitWellFormed
<1>2. SharedFresh
  BY EmptySeq DEF Init, SharedFresh, Elements
<1>3. WorkersFresh
  BY DEF Init, WorkersFresh, Current, Holding
<1> QED BY <1>1, <1>2, <1>3 DEF FreshInv

\* The control thread and the outside world keep what the workers hold and
\* what the queue holds fresh.
LEMMA ControlFresh == FreshInv /\ (Control \/ Outside) => SharedFresh' /\ WorkersFresh'
<1> SUFFICES ASSUME FreshInv, Control \/ Outside PROVE SharedFresh' /\ WorkersFresh'
  OBVIOUS
<1>0. /\ queues \in [Gen -> Queue] /\ cur \in 0..MaxStarts /\ epoch \in Nat
      /\ history \in Seq(Epoch) /\ pc \in [Gen -> WorkerPoint]
      /\ seenEpoch \in [Gen -> Nat] /\ seenQueue \in [Gen -> 0..MaxStarts]
      /\ SharedFresh /\ WorkersFresh /\ Begun
  BY DEF FreshInv, WellFormed, TypeOK, EngineType, WorkerType, Queue
<1> USE DEF engine, chat, local, control
<1>1. CASE ResetQueue
  <2>1. epoch' = epoch + 1 /\ obs' = NoObs /\ history' = <<>> /\ cur' = cur
    BY <1>1 DEF ResetQueue, ClearAndBump
  <2>2. queues' = IF cur = 0 THEN queues ELSE [queues EXCEPT ![cur] = Cleared]
    BY <1>1 DEF ResetQueue, ClearAndBump
  <2>3. seenEpoch' = seenEpoch /\ seenQueue' = seenQueue
    BY <1>1 DEF ResetQueue
  <2>4. Elements(history') = {}
    BY <2>1, EmptySeq DEF Elements
  <2>5. cur # 0 => cur \in Gen
    BY <1>0, Constants DEF Gen
  <2>6. cur' # 0 => OnlyOf(queues'[cur'], {epoch'})
    BY <1>0, <2>1, <2>2, <2>5, ClearedOnly
  <2>7. \A h \in Gen : h > cur' => queues'[h] = Cleared
    BY <1>0, <2>1, <2>2 DEF SharedFresh
  <2>8. SharedFresh'
    BY <2>1, <2>4, <2>6, <2>7 DEF SharedFresh
  <2>9. \A g \in Gen : seenEpoch'[g] < epoch' /\ seenQueue'[g] <= cur'
    BY <1>0, <2>1, <2>3 DEF WorkersFresh
  <2>10. \A g \in Gen : seenEpoch'[g] \in Nat
    BY <1>0, <2>3
  <2>11. WorkersFresh'
    BY <1>0, <2>1, <2>9, <2>10 DEF WorkersFresh, Current
  <2> QED BY <2>8, <2>11
<1>2. CASE Start
  <2>1. cur' = cur + 1 /\ obs' = NoObs /\ history' = history /\ epoch' = epoch /\ queues' = queues
    BY <1>2 DEF Start
  <2>2. seenEpoch' = seenEpoch /\ seenQueue' = seenQueue /\ from' = from
    BY <1>2 DEF Start
  <2>3. cur + 1 \in Gen /\ cur + 1 > cur
    BY <1>0, <1>2, Constants DEF Start, Gen
  <2>4. queues[cur + 1] = Cleared
    BY <1>0, <2>3 DEF SharedFresh
  <2>5. \A h \in Gen : h > cur' => h > cur
    BY <1>0, <2>1 DEF Gen
  <2>6. SharedFresh'
    BY <1>0, <2>1, <2>4, <2>5, ClearedOnly DEF SharedFresh
  <2>7. \A g \in Gen : seenEpoch'[g] <= epoch' /\ seenQueue'[g] < cur' /\ seenQueue'[g] \in Nat
    BY <1>0, <2>1, <2>2 DEF WorkersFresh
  <2>8. WorkersFresh'
    BY <1>0, <2>1, <2>7 DEF WorkersFresh, Current
  <2> QED BY <2>6, <2>8
<1>3. CASE Observe
  <2>1. /\ obs' = epoch /\ epoch' = epoch /\ cur' = cur /\ queues' = queues
        /\ history' = LastN(Append(history, epoch), HistoryLen)
    BY <1>3 DEF Observe
  <2>2. UNCHANGED <<pc, seenEpoch, seenQueue, from>>
    BY <1>3 DEF Observe
  <2>3. Append(history, epoch) \in Seq(Epoch)
    BY <1>0, AppendProperties DEF Epoch
  <2>4. Elements(LastN(Append(history, epoch), HistoryLen)) \subseteq Elements(Append(history, epoch))
    BY <2>3, LastNProperties, Constants
  <2>5. Elements(Append(history, epoch)) \subseteq Elements(history) \union {epoch}
    BY <1>0, AppendProperties, LenProperties DEF Elements, Epoch
  <2>6. Elements(history') \subseteq {epoch'}
    BY <1>0, <2>1, <2>4, <2>5 DEF SharedFresh
  <2>7. SharedFresh'
    BY <1>0, <2>1, <2>6 DEF SharedFresh
  <2>8. WorkersFresh'
    BY <1>0, <2>1, <2>2 DEF WorkersFresh, Current
  <2> QED BY <2>7, <2>8
<1>4. CASE Dispatch
  <2>1. /\ UNCHANGED <<obs, epoch, cur, history>>
        /\ UNCHANGED <<pc, seenEpoch, seenQueue, from>>
    BY <1>4 DEF Dispatch
  <2>2. cur \in Gen
    BY <1>0, <1>4, Constants DEF Dispatch, Begun, Gen
  <2>3. /\ \A h \in Gen \ {cur} : queues'[h] = queues[h]
        /\ queues'[cur] \in {queues[cur], Popped(queues[cur])}
    BY <1>0, <1>4, <2>2 DEF Dispatch
  <2>4. queues[cur] \in Queue
    BY <1>0, <2>2
  <2>5. /\ queues'[cur].queue = queues[cur].queue
        /\ queues'[cur].original_queue = queues[cur].original_queue
    BY <2>3, <2>4 DEF Popped, Queue, QueueObject
  <2>6. OnlyOf(queues'[cur], {epoch})
    BY <1>0, <2>2, <2>5 DEF SharedFresh, OnlyOf, Gen
  <2>7. \A h \in Gen : h > cur => h # cur
    BY <1>0 DEF Gen
  <2>8. SharedFresh'
    BY <1>0, <2>1, <2>3, <2>6, <2>7 DEF SharedFresh
  <2>9. WorkersFresh'
    BY <1>0, <2>1 DEF WorkersFresh, Current
  <2> QED BY <2>8, <2>9
<1>5. CASE UNCHANGED <<queues, cur, obs, history, epoch, pc, seenEpoch, seenQueue, from>>
  BY <1>0, <1>5 DEF SharedFresh, WorkersFresh, Current
<1>6. CASE Control /\ ~ResetQueue /\ ~Start /\ ~Observe /\ ~Dispatch
  BY <1>5, <1>6 DEF Control, ResetPolicy, ResetTask, Resume, Stop, LookForWorker, Join, JoinTimeout, RestartCheck,
     LeaveLoop, BeginRestart, HandleWarmup, ServeEnds, AcceptStart, BeginSegment, CheckSegment
<1>7. CASE Outside
  BY <1>5, <1>7 DEF Outside, PressR, Interrupt, Ask, SetTask
<1> QED BY <1>1, <1>2, <1>3, <1>4, <1>6, <1>7

\* What a worker does to the others' local state and to the shared state.
LEMMA WorkerFrame ==
  ASSUME WellFormed, NEW g \in Gen, Worker(g)
  PROVE  /\ UNCHANGED <<cur, obs, history, epoch, ctl, ret, thread, dispatched>>
         /\ MergeChunk(g) \/ UNCHANGED queues
         /\ Alive(g)
         /\ \A h \in Gen \ {g} : /\ pc'[h] = pc[h] /\ seenEpoch'[h] = seenEpoch[h]
                                 /\ seenQueue'[h] = seenQueue[h] /\ seenTask'[h] = seenTask[h]
                                 /\ from'[h] = from[h]
<1>0. /\ pc \in [Gen -> WorkerPoint]
      /\ seenEpoch \in [Gen -> Nat] /\ seenQueue \in [Gen -> 0..MaxStarts]
      /\ seenTask \in [Gen -> Task] /\ from \in [Gen -> SUBSET Epoch]
  BY DEF WellFormed, TypeOK, WorkerType
<1>1. UNCHANGED <<cur, obs, history, epoch, ctl, ret, thread, dispatched>>
  BY DEF Worker, Top, StopSeen, Snapshot, ClaimQuery, AnswerQuery, Reread, CheckQueue, ReadPrefix,
     TakeTask, InferUsable, InferTooLate, InferError, MergeChunk, FinishWarmup, Fail, Unblock,
     Signal, control, engine, chat
<1>2. MergeChunk(g) \/ UNCHANGED queues
  BY DEF Worker, Top, StopSeen, Snapshot, ClaimQuery, AnswerQuery, Reread, CheckQueue, ReadPrefix,
     TakeTask, InferUsable, InferTooLate, InferError, FinishWarmup, Fail, Unblock, Signal, engine
<1>3. Alive(g)
  BY DEF Worker, Top, StopSeen, Snapshot, ClaimQuery, AnswerQuery, Reread, CheckQueue, ReadPrefix,
     TakeTask, InferUsable, InferTooLate, InferError, MergeChunk, FinishWarmup, Fail, Unblock,
     Signal, Alive
<1>4. \A h \in Gen \ {g} : pc'[h] = pc[h]
  BY <1>0 DEF Worker, Top, StopSeen, Snapshot, ClaimQuery, AnswerQuery, Reread, CheckQueue,
     ReadPrefix, TakeTask, InferUsable, InferTooLate, InferError, MergeChunk, FinishWarmup, Fail,
     Unblock, Signal, Goto, Exit
<1>5. \A h \in Gen \ {g} : seenEpoch'[h] = seenEpoch[h] /\ seenQueue'[h] = seenQueue[h]
  BY <1>0 DEF Worker, Top, StopSeen, Snapshot, ClaimQuery, AnswerQuery, Reread, CheckQueue,
     ReadPrefix, TakeTask, InferUsable, InferTooLate, InferError, MergeChunk, FinishWarmup, Fail,
     Unblock, Signal, ReadSnapshot, Exit, local
<1>6. \A h \in Gen \ {g} : seenTask'[h] = seenTask[h]
  BY <1>0 DEF Worker, Top, StopSeen, Snapshot, ClaimQuery, AnswerQuery, Reread, CheckQueue,
     ReadPrefix, TakeTask, InferUsable, InferTooLate, InferError, MergeChunk, FinishWarmup, Fail,
     Unblock, Signal, ReadSnapshot, Exit, local
<1>7. \A h \in Gen \ {g} : from'[h] = from[h]
  BY <1>0 DEF Worker, Top, StopSeen, Snapshot, ClaimQuery, AnswerQuery, Reread, CheckQueue,
     ReadPrefix, TakeTask, InferUsable, InferTooLate, InferError, MergeChunk, FinishWarmup, Fail,
     Unblock, Signal, ReadSnapshot, Exit, local
<1> QED BY <1>1, <1>2, <1>3, <1>4, <1>5, <1>6, <1>7

\* A merge leaves the queue fresh.
LEMMA MergeFresh ==
  ASSUME FreshInv, NEW g \in Gen, MergeChunk(g)
  PROVE  SharedFresh'
<1>0. WellFormed /\ SharedFresh /\ WorkersFresh
  BY DEF FreshInv
<1>1. /\ queues \in [Gen -> Queue] /\ cur \in 0..MaxStarts /\ epoch \in Nat
      /\ seenQueue[g] \in Gen /\ queues[seenQueue[g]] \in Queue
      /\ seenTask[g] \in Task
  BY <1>0, SeenQueueExists DEF WellFormed, TypeOK, EngineType, WorkerType, Queue, MergeChunk, Busy,
     WorkerPoint
<1>2. UNCHANGED <<cur, obs, history, epoch>>
  BY DEF MergeChunk
<1>3. CASE ~StillCurrent(g)
  <2>1. queues' = queues
    BY <1>3 DEF MergeChunk
  <2> QED BY <1>0, <1>2, <2>1 DEF SharedFresh
<1>4. CASE StillCurrent(g)
  <2> DEFINE M(delay) == Merged(RTC, queues[seenQueue[g]], ChunkOf(g), ChunkOf(g), delay, seenTask[g])
  <2>1. PICK delay \in 0..MaxDelay : queues' = [queues EXCEPT ![seenQueue[g]] = M(delay)]
    BY <1>4 DEF MergeChunk
  <2>2. delay \in Int
    BY Constants
  <2>3. /\ queues'[seenQueue[g]] = M(delay)
        /\ \A h \in Gen : h # seenQueue[g] => queues'[h] = queues[h]
    BY <1>1, <2>1
  <2> HIDE DEF M
  <2>4. seenQueue[g] <= cur
    BY <1>0 DEF WorkersFresh
  <2>5. \A h \in Gen : h > cur => h # seenQueue[g]
    BY <1>1, <2>4 DEF Gen
  <2>6. \A h \in Gen : h > cur => queues'[h] = Cleared
    BY <1>0, <2>3, <2>5 DEF SharedFresh
  <2>7. cur # 0 => OnlyOf(queues'[cur], {epoch})
    <3>1. CASE seenQueue[g] # cur
      BY <1>0, <1>1, <2>3, <3>1 DEF SharedFresh, Gen
    <3>2. CASE seenQueue[g] = cur
      <4>1. from[g] = {epoch}
        BY <1>0, <1>4, <3>2 DEF WorkersFresh, Current, Holding, StillCurrent, MergeChunk
      <4>2. ChunkOf(g) \in Seq(SUBSET Epoch) /\ Within(ChunkOf(g), {{epoch}})
        BY <1>0, <4>1, ChunkProperties DEF Within
      <4>3. Within(queues[cur].queue, {{epoch}}) /\ Within(queues[cur].original_queue, {{epoch}})
        BY <1>0, <1>1, <3>2 DEF SharedFresh, OnlyOf, Gen
      <4>4. /\ Within(M(delay).queue, {{epoch}})
            /\ Within(M(delay).original_queue, {{epoch}})
        BY <1>1, <2>2, <3>2, <4>2, <4>3, MergedActions, Constants DEF Queue, M
      <4> QED BY <2>3, <3>2, <4>4 DEF OnlyOf
    <3> QED BY <3>1, <3>2
  <2> QED BY <1>0, <1>2, <2>6, <2>7 DEF SharedFresh
<1> QED BY <1>3, <1>4

\* What a worker of the current epoch and queue reads is of this epoch.
LEMMA WorkerFresh ==
  ASSUME FreshInv, NEW g \in Gen, Worker(g)
  PROVE  SharedFresh' /\ WorkersFresh'
<1>0. /\ WellFormed /\ SharedFresh /\ WorkersFresh
      /\ queues \in [Gen -> Queue] /\ cur \in 0..MaxStarts /\ epoch \in Nat
      /\ history \in Seq(Epoch) /\ pc \in [Gen -> WorkerPoint]
      /\ seenEpoch \in [Gen -> Nat] /\ seenQueue \in [Gen -> 0..MaxStarts]
      /\ from \in [Gen -> SUBSET Epoch]
  BY DEF FreshInv, WellFormed, TypeOK, EngineType, WorkerType, Queue
<1>1. /\ UNCHANGED <<cur, obs, history, epoch>>
      /\ MergeChunk(g) \/ UNCHANGED queues
      /\ \A h \in Gen \ {g} : /\ pc'[h] = pc[h] /\ seenEpoch'[h] = seenEpoch[h]
                              /\ seenQueue'[h] = seenQueue[h] /\ from'[h] = from[h]
  BY <1>0, WorkerFrame
<1>2. SharedFresh'
  <2>1. CASE UNCHANGED queues
    BY <1>0, <1>1, <2>1 DEF SharedFresh
  <2> QED BY <1>1, <2>1, MergeFresh
<1>3. ASSUME NEW h \in Gen \ {g}
      PROVE  seenEpoch'[h] <= epoch' /\ seenQueue'[h] <= cur' /\ (Current(h)' => from'[h] = {epoch'})
  BY <1>0, <1>1, <1>3 DEF WorkersFresh, Current
<1>4. seenEpoch'[g] <= epoch' /\ seenQueue'[g] <= cur' /\ (Current(g)' => from'[g] = {epoch'})
  <2>0. seenEpoch[g] <= epoch /\ seenQueue[g] <= cur /\ (Current(g) => from[g] = {epoch})
    BY <1>0 DEF WorkersFresh
  <2> DEFINE Unread == UNCHANGED <<seenEpoch, seenQueue, from>>
  <2>1. CASE Top(g)
    <3>1. /\ seenEpoch' = seenEpoch /\ seenQueue'[g] = cur /\ pc'[g] = "snapshot"
      BY <1>0, <2>1 DEF Top, Goto
    <3> QED BY <1>0, <1>1, <2>0, <3>1 DEF Current, Holding
  <2>2. CASE StopSeen(g) \/ Signal(g)
    <3>1. seenEpoch'[g] = 0 /\ seenQueue'[g] = 0 /\ pc'[g] = "dead"
      BY <1>0, <2>2 DEF StopSeen, Signal, Exit, Goto
    <3> QED BY <1>0, <1>1, <3>1 DEF Current, Holding
  <2>3. CASE Snapshot(g) \/ Reread(g)
    <3>1. /\ seenEpoch'[g] = epoch /\ seenQueue'[g] = seenQueue[g]
          /\ from'[g] = {obs} \union Elements(history)
      BY <1>0, <2>3 DEF Snapshot, Reread, ReadSnapshot
    <3>2. obs = NoObs => pc'[g] = "top"
      BY <1>0, <2>3 DEF Snapshot, Reread, Goto
    <3>3. obs # NoObs => from'[g] = {epoch}
      BY <1>0, <3>1 DEF SharedFresh
    <3>4. seenEpoch'[g] <= epoch' /\ seenQueue'[g] <= cur'
      BY <1>0, <1>1, <2>0, <3>1
    <3>5. Current(g)' => obs # NoObs
      BY <3>2 DEF Current, Holding
    <3> QED BY <1>1, <3>3, <3>4, <3>5
  <2>4. CASE ReadPrefix(g)
    <3> DEFINE prev == LeftOver(queues[seenQueue[g]])
    <3>1. /\ seenEpoch'[g] = seenEpoch[g] /\ seenQueue'[g] = seenQueue[g] /\ pc[g] = "prefix"
          /\ from'[g] = from[g] \union UNION Elements(prev)
      BY <1>0, <2>4 DEF ReadPrefix
    <3>2. Current(g)' => Current(g)
      BY <1>1, <3>1 DEF Current, Holding
    <3>3. ASSUME Current(g) PROVE UNION Elements(prev) \subseteq {epoch}
      <4>1. seenQueue[g] = cur /\ cur \in Gen /\ queues[cur] \in Queue
        BY <1>0, <3>1, <3>3, SeenQueueExists DEF Current, Busy, WorkerPoint
      <4>2. Elements(prev) \subseteq Elements(queues[cur].original_queue)
        BY <4>1, LeftOverProperties
      <4>3. Elements(queues[cur].original_queue) \subseteq {{epoch}}
        BY <1>0, <4>1 DEF SharedFresh, OnlyOf, Within, Elements, Gen
      <4> QED BY <4>2, <4>3
    <3> HIDE DEF prev
    <3> QED BY <1>0, <1>1, <2>0, <3>1, <3>2, <3>3
  <2>5. CASE ~(Top(g) \/ StopSeen(g) \/ Signal(g) \/ Snapshot(g) \/ Reread(g) \/ ReadPrefix(g))
    <3>1. Unread
      BY <2>5 DEF Worker, ClaimQuery, AnswerQuery, CheckQueue, TakeTask, InferUsable, InferTooLate,
         InferError, MergeChunk, FinishWarmup, Fail, Unblock, local
    <3>2. pc'[g] \in Holding => pc[g] \in Holding
      BY <1>0, <2>5 DEF Worker, ClaimQuery, AnswerQuery, CheckQueue, TakeTask, InferUsable,
         InferTooLate, InferError, MergeChunk, FinishWarmup, Fail, Unblock, Goto, Holding
    <3> QED BY <1>0, <1>1, <2>0, <3>1, <3>2 DEF Current
  <2> QED BY <2>1, <2>2, <2>3, <2>4, <2>5
<1>5. WorkersFresh'
  BY <1>3, <1>4 DEF WorkersFresh
<1> QED BY <1>2, <1>5

\* Every step of every thread keeps what is current fresh.
LEMMA NextFresh == FreshInv /\ [Next]_vars => FreshInv'
<1> SUFFICES ASSUME FreshInv, [Next]_vars PROVE FreshInv'
  OBVIOUS
<1>0. WellFormed /\ SharedFresh /\ WorkersFresh
  BY DEF FreshInv
<1>1. WellFormed'
  BY <1>0, NextWellFormed
<1>2. SharedFresh' /\ WorkersFresh'
  <2>1. CASE UNCHANGED vars
    <3>1. UNCHANGED <<queues, cur, obs, history, epoch, pc, seenEpoch, seenQueue, from>>
      BY <2>1 DEF vars, engine, local
    <3>2. \A g \in Gen : Current(g)' <=> Current(g)
      BY <3>1 DEF Current
    <3> QED BY <1>0, <3>1, <3>2 DEF SharedFresh, WorkersFresh
  <2> QED BY <1>0, <2>1, ControlFresh, WorkerFresh DEF Next, Done
<1> QED BY <1>1, <1>2 DEF FreshInv

\* Nothing computed before a reset can be sent to the robot after it, however
\* the worker's reads and its merge interleave with resets and restarts.
THEOREM QueueStaysFresh == Spec => []FreshQueue
<1>1. FreshInv => FreshQueue
  BY DEF FreshInv, SharedFresh, FreshQueue, OnlyOf, Within, Elements
<1> QED BY <1>1, InitFresh, NextFresh, PTL DEF Spec

-----------------------------------------------------------------------------
(* One worker.  The engine's handle is the only living worker, and between *)
(* the join of a restart and the start that follows no worker is alive.    *)

Joined ==
  \/ ctl \in {"check", "start"}
  \/ ctl \in {"reset", "reset_queue", "reset_task"} /\ ret = "start"

Exclusive ==
  /\ \A g \in Gen : Alive(g) => g = thread
  /\ Joined => \A g \in Gen : ~Alive(g)

ExclusiveInv == WellFormed /\ Exclusive

\* A new engine has no worker.
LEMMA InitExclusive == Init => ExclusiveInv
<1>1. Init => Exclusive
  BY DEF Init, Exclusive, Alive
<1> QED BY <1>1, InitWellFormed DEF ExclusiveInv

\* Every step preserves that the only living worker is the one held.
LEMMA NextExclusive == ExclusiveInv /\ [Next]_vars => ExclusiveInv'
<1> SUFFICES ASSUME ExclusiveInv, [Next]_vars PROVE ExclusiveInv'
  OBVIOUS
<1>0. /\ WellFormed /\ Exclusive
      /\ pc \in [Gen -> WorkerPoint] /\ cur \in 0..MaxStarts
      /\ ret \in {"start", "resume", "resume_flushed"}
  BY DEF ExclusiveInv, WellFormed, TypeOK, ControlType, EngineType, WorkerType
<1>1. WellFormed'
  BY <1>0, NextWellFormed
<1>2. Exclusive'
  <2> USE DEF control, engine, chat, local
  <2>1. CASE Start
    <3>1. thread' = cur + 1 /\ ctl' \in {"idle", "resume"}
      BY <2>1 DEF Start
    <3>2. \A g \in Gen : ~Alive(g)
      BY <1>0, <2>1 DEF Start, Exclusive, Joined
    <3>3. \A g \in Gen : g # cur + 1 => pc'[g] = pc[g]
      BY <1>0, <2>1 DEF Start
    <3> QED BY <3>1, <3>2, <3>3 DEF Exclusive, Alive, Joined
  <2>2. CASE Join
    <3>1. \A g \in Gen : ~Alive(g)
      BY <1>0, <2>2 DEF Join, WorkerHeld, Exclusive, Gen
    <3>2. thread' = 0 /\ pc' = pc
      BY <2>2 DEF Join
    <3> QED BY <3>1, <3>2 DEF Exclusive, Alive
  <2>2a. CASE LookForWorker
    <3>1. thread' = thread /\ pc' = pc
      BY <2>2a DEF LookForWorker
    <3>2. Joined' => ~WorkerHeld
      BY <2>2a DEF LookForWorker, Joined
    <3>3. ~WorkerHeld => \A g \in Gen : ~Alive(g)
      BY <1>0 DEF WorkerHeld, Exclusive, Gen
    <3> QED BY <1>0, <3>1, <3>2, <3>3 DEF Exclusive, Alive
  <2>3. CASE Control /\ ~Start /\ ~Join /\ ~LookForWorker
    <3>1. thread' = thread /\ pc' = pc
      BY <2>3 DEF Control, ResetPolicy, ResetQueue, ResetTask, Resume, Stop, LookForWorker, JoinTimeout,
         RestartCheck, LeaveLoop, BeginRestart, Observe, HandleWarmup, Dispatch, ServeEnds,
         AcceptStart, BeginSegment, CheckSegment
    <3>2. Joined' => Joined
      BY <1>0, <2>3 DEF Control, ResetPolicy, ResetQueue, ResetTask, Resume, Stop, LookForWorker, JoinTimeout,
         RestartCheck, LeaveLoop, BeginRestart, Observe, HandleWarmup, Dispatch, ServeEnds,
         AcceptStart, BeginSegment, CheckSegment, Joined
    <3> QED BY <1>0, <3>1, <3>2 DEF Exclusive, Alive
  <2>4. CASE Outside
    <3>1. UNCHANGED <<ctl, ret, thread, pc>>
      BY <2>4 DEF Outside, PressR, Interrupt, Ask, SetTask
    <3> QED BY <1>0, <3>1 DEF Exclusive, Alive, Joined
  <2>5. ASSUME NEW g \in Gen, Worker(g) PROVE Exclusive'
    <3>1. /\ UNCHANGED <<ctl, ret, thread>> /\ Alive(g)
          /\ \A h \in Gen \ {g} : pc'[h] = pc[h]
      BY <1>0, <2>5, WorkerFrame
    <3>2. \A h \in Gen : Alive(h)' => Alive(h)
      BY <3>1 DEF Alive
    <3> QED BY <1>0, <3>1, <3>2 DEF Exclusive, Joined
  <2>6. CASE UNCHANGED vars
    <3>1. UNCHANGED <<ctl, ret, thread, pc>>
      BY <2>6 DEF vars
    <3> QED BY <1>0, <3>1 DEF Exclusive, Alive, Joined
  <2> QED BY <2>1, <2>2, <2>3, <2>4, <2>5, <2>6, <2>2a DEF Next, Done
<1> QED BY <1>1, <1>2 DEF ExclusiveInv

\* Two workers never run inference at the same time, whichever joins time out.
THEOREM AlwaysOneWorker == Spec => []OneWorker
<1>1. ExclusiveInv => OneWorker
  BY DEF ExclusiveInv, Exclusive, OneWorker
<1> QED BY <1>1, InitExclusive, NextExclusive, PTL DEF Spec

\* A restart resets the policy only when no worker can be using it.
THEOREM RestartAlone == Spec => []RestartExclusive
<1>1. ExclusiveInv => RestartExclusive
  BY DEF ExclusiveInv, Exclusive, Joined, RestartExclusive, Gen
<1> QED BY <1>1, InitExclusive, NextExclusive, PTL DEF Spec

-----------------------------------------------------------------------------
(* Labels.  A label in the current queue, or about to be merged into it,   *)
(* was asked for since the last reset.                                     *)

Labelling(g) == pc[g] \in {"infer", "merge"} /\ seenEpoch[g] = epoch /\ seenQueue[g] = cur

LabelsFresh ==
  /\ task \in asked
  /\ cur # 0 => Within(queues[cur].task_queue, asked)
  /\ ctl # "reset_task" => dispatched \in asked
  /\ \A g \in Gen : Labelling(g) => seenTask[g] \in asked

LabelsInv == FreshInv /\ LabelsFresh

\* A new engine knows the initial instruction only.
LEMMA InitLabels == Init => LabelsInv
<1> SUFFICES ASSUME Init PROVE LabelsFresh
  BY InitFresh DEF LabelsInv
<1> QED BY DEF Init, LabelsFresh, Labelling

\* The control thread and the outside keep the labels fresh: a reset empties
\* the queue before it forgets which instructions were asked for.
LEMMA ControlLabels == LabelsInv /\ (Control \/ Outside) => LabelsFresh'
<1> SUFFICES ASSUME LabelsInv, Control \/ Outside PROVE LabelsFresh'
  OBVIOUS
<1>0. /\ FreshInv /\ LabelsFresh /\ WellFormed /\ SharedFresh /\ WorkersFresh /\ Begun
      /\ queues \in [Gen -> Queue] /\ cur \in 0..MaxStarts /\ epoch \in Nat
      /\ seenEpoch \in [Gen -> Nat] /\ seenQueue \in [Gen -> 0..MaxStarts]
      /\ pc \in [Gen -> WorkerPoint]
  BY DEF LabelsInv, FreshInv, WellFormed, TypeOK, EngineType, WorkerType, Queue
<1>c. Within(Cleared.task_queue, asked')
  BY EmptySeq DEF Within, Cleared
<1> USE DEF control, engine, chat, local, ghosts
<1>1. CASE ResetQueue
  <2>1. /\ epoch' = epoch + 1 /\ cur' = cur /\ asked' = {task} /\ task' = task
        /\ ctl' = "reset_task" /\ seenEpoch' = seenEpoch
        /\ queues' = IF cur = 0 THEN queues ELSE [queues EXCEPT ![cur] = Cleared]
    BY <1>1 DEF ResetQueue, ClearAndBump
  <2>2. cur # 0 => queues'[cur] = Cleared
    BY <1>0, <2>1, Constants DEF Gen
  <2>3. \A g \in Gen : seenEpoch'[g] # epoch'
    BY <1>0, <2>1 DEF WorkersFresh
  <2> QED BY <1>c, <2>1, <2>2, <2>3 DEF LabelsFresh, Labelling
<1>2. CASE ResetTask
  BY <1>0, <1>2 DEF ResetTask, LabelsFresh, Labelling
<1>3. CASE Start
  <2>1. /\ cur' = cur + 1 /\ queues' = queues /\ seenQueue' = seenQueue
        /\ UNCHANGED <<asked, task, dispatched>> /\ ctl = "start"
    BY <1>3 DEF Start
  <2>2. queues[cur + 1] = Cleared
    BY <1>0, <1>3, Constants DEF Start, SharedFresh, Gen
  <2>3. \A g \in Gen : seenQueue'[g] # cur'
    BY <1>0, <2>1 DEF WorkersFresh
  <2> QED BY <1>0, <1>c, <2>1, <2>2, <2>3 DEF LabelsFresh, Labelling
<1>4. CASE Dispatch
  <2>1. /\ UNCHANGED <<cur, epoch, pc, seenEpoch, seenQueue, seenTask, asked, task>>
        /\ ctl' = "loop" /\ ctl = "dispatch"
    BY <1>4 DEF Dispatch
  <2>2. cur \in Gen /\ cur # 0 /\ queues[cur] \in Queue /\ InStep(queues[cur])
    BY <1>0, <2>1, Constants DEF Begun, Gen, WellFormed, QueuesInStep
  <2>3. Within(queues[cur].task_queue, asked)
    BY <1>0, <2>2 DEF LabelsFresh
  <2>4. CASE HasAction(queues[cur])
    <3>1. queues'[cur] = Popped(queues[cur]) /\ dispatched' = NextTask(queues[cur])
      BY <1>0, <1>4, <2>2, <2>4 DEF Dispatch
    <3>2. queues'[cur].task_queue = queues[cur].task_queue
      BY <2>2, <3>1 DEF Popped, Queue, QueueObject
    <3>3. dispatched' \in asked
      BY <2>2, <2>3, <2>4, <3>1, NextTaskType DEF Within, Queue
    <3> QED BY <1>0, <2>1, <2>3, <3>2, <3>3 DEF LabelsFresh, Labelling
  <2>5. CASE ~HasAction(queues[cur])
    BY <1>0, <1>4, <2>1, <2>5 DEF Dispatch, LabelsFresh, Labelling
  <2> QED BY <2>4, <2>5
<1>5. CASE \E t \in Task : SetTask(t)
  <2>1. /\ UNCHANGED <<queues, cur, epoch, ctl, dispatched, pc, seenEpoch, seenQueue, seenTask>>
        /\ task' \in asked' /\ asked \subseteq asked'
    BY <1>5 DEF SetTask
  <2> QED BY <1>0, <2>1 DEF LabelsFresh, Labelling, Within
<1>6. CASE /\ UNCHANGED <<queues, cur, epoch, task, dispatched, asked, pc, seenEpoch, seenQueue, seenTask>>
           /\ ctl # "reset_task"
  BY <1>0, <1>6 DEF LabelsFresh, Labelling
<1>7. CASE Control /\ ~ResetQueue /\ ~ResetTask /\ ~Start /\ ~Dispatch
  BY <1>6, <1>7 DEF Control, ResetPolicy, Resume, Stop, LookForWorker, Join, JoinTimeout, RestartCheck,
     LeaveLoop, BeginRestart, Observe, HandleWarmup, ServeEnds, AcceptStart, BeginSegment,
     CheckSegment
<1>8. CASE PressR \/ Interrupt \/ Ask
  <2>1. UNCHANGED <<queues, cur, epoch, task, dispatched, asked, pc, seenEpoch, seenQueue,
                    seenTask, ctl>>
    BY <1>8 DEF PressR, Interrupt, Ask
  <2> QED BY <1>0, <2>1 DEF LabelsFresh, Labelling
<1> QED BY <1>1, <1>2, <1>3, <1>4, <1>5, <1>7, <1>8 DEF Outside

\* A worker keeps the labels fresh: a chunk whose task was taken before the
\* reset is not merged, since its epoch is no longer current.
LEMMA WorkerLabels ==
  ASSUME LabelsInv, NEW g \in Gen, Worker(g)
  PROVE  LabelsFresh'
<1>0. /\ FreshInv /\ LabelsFresh /\ WellFormed /\ SharedFresh /\ WorkersFresh
      /\ queues \in [Gen -> Queue] /\ cur \in 0..MaxStarts /\ epoch \in Nat
      /\ pc \in [Gen -> WorkerPoint] /\ seenTask \in [Gen -> Task]
  BY DEF LabelsInv, FreshInv, WellFormed, TypeOK, EngineType, WorkerType, Queue
<1>1. /\ UNCHANGED <<cur, epoch, ctl, dispatched>>
      /\ MergeChunk(g) \/ UNCHANGED queues
      /\ \A h \in Gen \ {g} : /\ pc'[h] = pc[h] /\ seenEpoch'[h] = seenEpoch[h]
                              /\ seenQueue'[h] = seenQueue[h] /\ seenTask'[h] = seenTask[h]
  BY <1>0, WorkerFrame
<1>2. /\ asked \subseteq asked' /\ task' \in asked'
  <2>1. CASE AnswerQuery(g)
    BY <2>1 DEF AnswerQuery
  <2>2. CASE ~AnswerQuery(g)
    BY <1>0, <2>2 DEF LabelsFresh, Worker, Top, StopSeen, Snapshot, ClaimQuery, Reread, CheckQueue,
       ReadPrefix, TakeTask, InferUsable, InferTooLate, InferError, MergeChunk, FinishWarmup, Fail,
       Unblock, Signal, chat, ghosts
  <2> QED BY <2>1, <2>2
<1>3. cur' # 0 => Within(queues'[cur'].task_queue, asked')
  <2>1. CASE UNCHANGED queues
    BY <1>0, <1>1, <1>2, <2>1 DEF LabelsFresh, Within
  <2>2. CASE MergeChunk(g)
    <3>1. seenQueue[g] \in Gen /\ queues[seenQueue[g]] \in Queue
      BY <1>0, <2>2, SeenQueueExists DEF MergeChunk, Busy, WorkerPoint
    <3>2. CASE StillCurrent(g) /\ seenQueue[g] = cur
      <4> DEFINE M(delay) == Merged(RTC, queues[cur], ChunkOf(g), ChunkOf(g), delay, seenTask[g])
      <4>1. PICK delay \in 0..MaxDelay : queues' = [queues EXCEPT ![cur] = M(delay)]
        BY <2>2, <3>2 DEF MergeChunk
      <4>2. delay \in Int /\ RTC \in BOOLEAN /\ seenTask[g] \in Task
        BY <1>0, Constants
      <4>3. seenTask[g] \in asked /\ Within(queues[cur].task_queue, asked)
        BY <1>0, <2>2, <3>1, <3>2 DEF LabelsFresh, Labelling, MergeChunk, StillCurrent, Gen
      <4>4. ChunkOf(g) \in Seq(SUBSET Epoch)
        BY <1>0, ChunkProperties
      <4>5. Within(M(delay).task_queue, asked)
        BY <3>1, <3>2, <4>2, <4>3, <4>4, MergedTasks DEF Queue
      <4>6. queues'[cur] = M(delay)
        BY <1>0, <3>1, <3>2, <4>1
      <4> QED BY <1>1, <1>2, <4>5, <4>6 DEF Within
    <3>3. CASE ~(StillCurrent(g) /\ seenQueue[g] = cur)
      <4>1. cur # 0 => queues'[cur] = queues[cur]
        BY <1>0, <2>2, <3>1, <3>3, Constants DEF MergeChunk, Gen
      <4> QED BY <1>0, <1>1, <1>2, <4>1 DEF LabelsFresh, Within
    <3> QED BY <3>2, <3>3
  <2> QED BY <1>1, <2>1, <2>2
<1>4. ASSUME NEW h \in Gen \ {g}, Labelling(h)' PROVE seenTask'[h] \in asked'
  BY <1>0, <1>1, <1>2, <1>4 DEF LabelsFresh, Labelling
<1>5. ASSUME Labelling(g)' PROVE seenTask'[g] \in asked'
  <2>1. CASE TakeTask(g)
    BY <1>0, <1>2, <2>1 DEF TakeTask, LabelsFresh, chat, ghosts
  <2>2. CASE InferUsable(g)
    <3>1. Labelling(g) /\ seenTask'[g] = seenTask[g]
      BY <1>1, <1>5, <2>2 DEF InferUsable, Labelling
    <3> QED BY <1>0, <1>2, <3>1 DEF LabelsFresh
  <2>3. CASE ~TakeTask(g) /\ ~InferUsable(g)
    <3>1. pc'[g] \notin {"infer", "merge"}
      BY <1>0, <2>3 DEF Worker, Top, StopSeen, Snapshot, ClaimQuery, AnswerQuery, Reread, CheckQueue,
         ReadPrefix, InferTooLate, InferError, MergeChunk, FinishWarmup, Fail, Unblock, Signal,
         Goto, Exit
    <3> QED BY <1>5, <3>1 DEF Labelling
  <2> QED BY <2>1, <2>2, <2>3
<1> QED BY <1>0, <1>1, <1>2, <1>3, <1>4, <1>5 DEF LabelsFresh

\* Every step of every thread keeps the labels fresh.
LEMMA NextLabels == LabelsInv /\ [Next]_vars => LabelsInv'
<1> SUFFICES ASSUME LabelsInv, [Next]_vars PROVE LabelsInv'
  OBVIOUS
<1>1. FreshInv'
  BY NextFresh DEF LabelsInv
<1>2. LabelsFresh'
  <2>1. CASE UNCHANGED vars
    <3>1. UNCHANGED <<queues, cur, epoch, ctl, task, dispatched, asked, pc, seenEpoch, seenQueue,
                      seenTask>>
      BY <2>1 DEF vars, control, engine, chat, local, ghosts
    <3> QED BY <3>1 DEF LabelsInv, LabelsFresh, Labelling
  <2> QED BY <2>1, ControlLabels, WorkerLabels DEF Next, Done
<1> QED BY <1>1, <1>2 DEF LabelsInv

\* After a reset, neither a queued action nor the label of a frame carries an
\* instruction that was only asked for before it.
THEOREM LabelsStayFresh == Spec => []LabelsSinceReset
<1>1. LabelsInv => LabelsSinceReset
  BY DEF LabelsInv, LabelsFresh, LabelsSinceReset, Within, Elements
<1> QED BY <1>1, InitLabels, NextLabels, PTL DEF Spec
-----------------------------------------------------------------------------
(* Failures.  With the keyboard restart a failure is on its way to the     *)
(* shutdown event, carried by a worker that is still alive, or has arrived *)
(* there; the join and the check after it leave neither possible.  Run     *)
(* segments take the event back, but never call start() again.             *)

FailureSeen ==
  failed => "engine" \in shutdown \/ \E g \in Gen : pc[g] \in {"unblock", "signal"}

StartsUnfailed ==
  /\ Interactive => ~restart /\ ctl \notin {"restart", "stop_restart", "join_restart", "check"}
  /\ ~Interactive => FailureSeen /\ ctl \notin {"idle", "starting", "segment"}
  /\ Joined /\ ctl # "check" => ~failed

FailureInv == ExclusiveInv /\ StartsUnfailed

\* A new engine has not failed.
LEMMA InitFailure == Init => FailureInv
<1>1. Init => StartsUnfailed
  BY DEF Init, StartsUnfailed, FailureSeen
<1> QED BY <1>1, InitExclusive DEF FailureInv

\* The control thread and the outside world: only the check after a join
\* leads to a start, and nothing but a segment takes the stop flag back.
LEMMA ControlFailure == FailureInv /\ (Control \/ Outside) => StartsUnfailed'
<1> SUFFICES ASSUME FailureInv, Control \/ Outside PROVE StartsUnfailed'
  OBVIOUS
<1> USE DEF control, engine, chat, local
<1>0. /\ WellFormed /\ Exclusive /\ StartsUnfailed
      /\ pc \in [Gen -> WorkerPoint] /\ cur \in 0..MaxStarts
      /\ Interactive \in BOOLEAN
  BY Constants DEF FailureInv, ExclusiveInv, WellFormed, TypeOK, EngineType, WorkerType
<1>1. failed' = failed
  BY DEF Control, Outside, ResetPolicy, ResetQueue, ResetTask, Start, Resume, Stop, LookForWorker, Join, JoinTimeout,
     RestartCheck, LeaveLoop, BeginRestart, Observe, HandleWarmup, Dispatch, ServeEnds,
     AcceptStart, BeginSegment, CheckSegment, PressR, Interrupt, Ask, SetTask
<1>2. Interactive => (~restart /\ ctl \notin {"restart", "stop_restart", "join_restart", "check"})'
  BY <1>0 DEF StartsUnfailed, Control, Outside, ResetPolicy, ResetQueue, ResetTask, Start, Resume,
     Stop, LookForWorker, Join, JoinTimeout, RestartCheck, LeaveLoop, BeginRestart, Observe, HandleWarmup, Dispatch,
     ServeEnds, AcceptStart, BeginSegment, CheckSegment, PressR, Interrupt, Ask, SetTask,
     WellFormed, TypeOK, ControlType
<1>3. ASSUME ~Interactive PROVE FailureSeen' /\ (ctl \notin {"idle", "starting", "segment"})'
  <2>1. (ctl \notin {"idle", "starting", "segment"})'
    BY <1>0, <1>3 DEF StartsUnfailed, Control, Outside, ResetPolicy, ResetQueue, ResetTask, Start,
       Resume, Stop, LookForWorker, Join, JoinTimeout, RestartCheck, LeaveLoop, BeginRestart, Observe, HandleWarmup,
       Dispatch, ServeEnds, AcceptStart, BeginSegment, CheckSegment, PressR, Interrupt, Ask, SetTask,
       WellFormed, TypeOK, ControlType
  <2>2. shutdown \subseteq shutdown'
    BY <1>0, <1>3 DEF StartsUnfailed, Control, Outside, ResetPolicy, ResetQueue, ResetTask, Start,
       Resume, Stop, LookForWorker, Join, JoinTimeout, RestartCheck, LeaveLoop, BeginRestart, Observe, HandleWarmup,
       Dispatch, ServeEnds, AcceptStart, BeginSegment, CheckSegment, PressR, Interrupt, Ask, SetTask
  <2>3. CASE Start
    <3>1. ~failed
      BY <1>0, <2>3 DEF Start, StartsUnfailed, Joined
    <3> QED BY <1>1, <2>1, <3>1 DEF FailureSeen
  <2>4. CASE ~Start
    <3>1. pc' = pc
      BY <2>4 DEF Control, Outside, ResetPolicy, ResetQueue, ResetTask, Resume, Stop, LookForWorker, Join,
         JoinTimeout, RestartCheck, LeaveLoop, BeginRestart, Observe, HandleWarmup, Dispatch,
         ServeEnds, AcceptStart, BeginSegment, CheckSegment, PressR, Interrupt, Ask, SetTask
    <3> QED BY <1>0, <1>1, <1>3, <2>1, <2>2, <3>1 DEF StartsUnfailed, FailureSeen
  <2> QED BY <2>3, <2>4
<1>4. (Joined /\ ctl # "check")' => ~failed'
  <2>1. CASE RestartCheck
    <3>1. ~Interactive
      BY <1>0, <2>1 DEF RestartCheck, StartsUnfailed
    <3>2. \A g \in Gen : ~Alive(g)
      BY <1>0, <2>1 DEF RestartCheck, Exclusive, Joined
    <3>3. failed => "engine" \in shutdown
      BY <1>0, <3>1, <3>2 DEF StartsUnfailed, FailureSeen, Alive
    <3> QED BY <1>1, <2>1, <3>3 DEF RestartCheck, Joined
  <2>2. CASE ~RestartCheck
    <3>1. (Joined /\ ctl # "check")' => Joined /\ ctl # "check"
      BY <2>2, <1>0 DEF Joined, Control, Outside, ResetPolicy, ResetQueue, ResetTask, Start, Resume,
         Stop, LookForWorker, Join, JoinTimeout, LeaveLoop, BeginRestart, Observe, HandleWarmup, Dispatch,
         ServeEnds, AcceptStart, BeginSegment, CheckSegment, PressR, Interrupt, Ask, SetTask,
         WellFormed, TypeOK, ControlType
    <3> QED BY <1>0, <1>1, <3>1 DEF StartsUnfailed
  <2> QED BY <2>1, <2>2
<1> QED BY <1>2, <1>3, <1>4 DEF StartsUnfailed

\* A worker that fails stays alive until it has asked the program to stop.
LEMMA WorkerFailure ==
  ASSUME FailureInv, NEW g \in Gen, Worker(g)
  PROVE  StartsUnfailed'
<1> USE DEF control, engine, chat, local
<1>0. /\ WellFormed /\ Exclusive /\ StartsUnfailed
      /\ pc \in [Gen -> WorkerPoint]
  BY DEF FailureInv, ExclusiveInv, WellFormed, TypeOK, WorkerType
<1>1. /\ UNCHANGED <<ctl, ret>> /\ Alive(g)
      /\ \A h \in Gen \ {g} : pc'[h] = pc[h]
  BY <1>0, WorkerFrame
<1>2. ~Joined
  BY <1>0, <1>1 DEF Exclusive
<1>3. UNCHANGED restart /\ shutdown \subseteq shutdown'
  BY DEF Worker, Top, StopSeen, Snapshot, ClaimQuery, AnswerQuery, Reread, CheckQueue, ReadPrefix,
     TakeTask, InferUsable, InferTooLate, InferError, MergeChunk, FinishWarmup, Fail, Unblock,
     Signal
<1>4. FailureSeen => FailureSeen'
  <2>1. CASE Fail(g)
    <3>1. pc'[g] = "unblock"
      BY <1>0, <2>1 DEF Fail, Goto
    <3> QED BY <3>1 DEF FailureSeen
  <2>2. CASE Unblock(g)
    <3>1. pc'[g] = "signal"
      BY <1>0, <2>2 DEF Unblock, Goto
    <3> QED BY <3>1 DEF FailureSeen
  <2>3. CASE Signal(g)
    <3>1. "engine" \in shutdown'
      BY <2>3 DEF Signal
    <3> QED BY <3>1 DEF FailureSeen
  <2>4. CASE ~(Fail(g) \/ Unblock(g) \/ Signal(g))
    <3>1. failed' = failed /\ pc[g] \notin {"unblock", "signal"}
      BY <2>4 DEF Worker, Top, StopSeen, Snapshot, ClaimQuery, AnswerQuery, Reread, CheckQueue,
         ReadPrefix, TakeTask, InferUsable, InferTooLate, InferError, MergeChunk, FinishWarmup
    <3> QED BY <1>1, <1>3, <3>1 DEF FailureSeen
  <2> QED BY <2>1, <2>2, <2>3, <2>4
<1> QED BY <1>0, <1>1, <1>2, <1>3, <1>4 DEF StartsUnfailed, Joined

\* Every step keeps failures away from the next start.
LEMMA NextFailure == FailureInv /\ [Next]_vars => FailureInv'
<1> SUFFICES ASSUME FailureInv, [Next]_vars PROVE FailureInv'
  OBVIOUS
<1>1. ExclusiveInv'
  BY NextExclusive DEF FailureInv
<1>2. StartsUnfailed'
  <2>1. CASE UNCHANGED vars
    <3>1. UNCHANGED <<ctl, ret, restart, shutdown, failed, pc>>
      BY <2>1 DEF vars, control, engine
    <3> QED BY <3>1 DEF FailureInv, StartsUnfailed, FailureSeen, Joined
  <2> QED BY <2>1, ControlFailure, WorkerFailure DEF Next, Done
<1> QED BY <1>1, <1>2 DEF FailureInv

\* Only start() replaces the queue object, and it is not reached once the
\* engine has failed.
LEMMA StartUnfailed == FailureInv /\ [Next]_vars => (cur' # cur => ~failed)
<1> SUFFICES ASSUME FailureInv, [Next]_vars, cur' # cur PROVE ~failed
  OBVIOUS
<1> USE DEF control, engine, chat, local
<1>0. WellFormed /\ StartsUnfailed
  BY DEF FailureInv, ExclusiveInv
<1>1. Control
  BY <1>0, WorkerFrame DEF Next, Done, vars, Outside, PressR, Interrupt, Ask, SetTask
<1>2. Start
  BY <1>1 DEF Control, ResetPolicy, ResetQueue, ResetTask, Resume, Stop, LookForWorker, Join, JoinTimeout,
     RestartCheck, LeaveLoop, BeginRestart, Observe, HandleWarmup, Dispatch, ServeEnds,
     AcceptStart, BeginSegment, CheckSegment
<1> QED BY <1>0, <1>2 DEF Start, StartsUnfailed, Joined

\* An engine that failed is never started again, whether the failure came
\* before the restart, while it joined the worker or between the two.
THEOREM FailedStaysDown == Spec => NoStartAfterFailure
<1>1. FailureInv /\ [Next]_vars => [cur' # cur => ~failed]_vars
  BY StartUnfailed
<1> QED BY <1>1, InitFailure, NextFailure, PTL DEF Spec, NoStartAfterFailure
=============================================================================
