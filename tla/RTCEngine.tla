------------------------------ MODULE RTCEngine ------------------------------
(***************************************************************************)
(* RTCInferenceEngine (rollout/inference/rtc.py) and the control thread    *)
(* that drives it: BaseStrategy.run with its keyboard restart              *)
(* (rollout/strategies/base.py, strategies/core.py), or the run segments   *)
(* of RolloutController (rollout/controller.py) when Interactive.          *)
(*                                                                         *)
(* Threads: the control thread (`ctl`), the RTC workers, one per call of   *)
(* start() (`pc[g]`), and whoever presses R, changes the instruction, asks *)
(* a question or interrupts the program.  Every action is one critical     *)
(* section or one access to shared state of the thread that takes it.      *)
(*                                                                         *)
(* Data: an observation is the reset epoch in which the control thread     *)
(* published it.  An action in the queue carries the set of epochs of      *)
(* everything its chunk was computed from (observation, history frames and *)
(* the previous chunk's left-over prefix), so "stale" is a comparison.     *)
(***************************************************************************)
EXTENDS ActionQueueOps, FiniteSets

CONSTANTS
  Task, InitialTask,  \* instructions, and the one the rollout starts with
  RTC,                \* RTCConfig.enabled
  Trained,            \* RTCConfig.mode = "trained": late chunks are discarded
  UseCompile,         \* use_torch_compile: warm up before the robot moves
  WarmupRequired,     \* compile_warmup_inferences, at least 1
  Interactive,        \* the strategy runs in segments of a RolloutController
  ChunkLen,           \* actions in one chunk
  Threshold,          \* rtc_queue_threshold
  HistoryLen,         \* frames the observation history keeps, 0 without CycleManip
  MaxErrors,          \* _RTC_MAX_CONSECUTIVE_ERRORS
  MaxDiscards,        \* _RTC_MAX_CONSECUTIVE_DISCARDS
  MaxStarts,          \* bound: calls of start()
  MaxEpoch,           \* bound: resets
  MaxDelay            \* bound: the largest measured delay of a merged chunk

ASSUME EngineAssumption ==
  /\ InitialTask \in Task
  /\ {RTC, Trained, UseCompile, Interactive} \subseteq BOOLEAN
  /\ {WarmupRequired, ChunkLen} \subseteq Nat \ {0}
  /\ {MaxErrors, MaxDiscards, MaxStarts} \subseteq Nat \ {0}
  /\ {Threshold, HistoryLen, MaxEpoch, MaxDelay} \subseteq Nat
  /\ Trained => RTC /\ HistoryLen = 0   \* a PI05 checkpoint, context.py:108

NoObs == -1
Gen == 1..MaxStarts

VARIABLES
  \* the control thread and the outside world
  ctl,        \* where the control thread is
  ret,        \* where it continues after engine.reset()
  restart,    \* BaseStrategy._restart_requested
  shutdown,   \* who set the shutdown event: subset of {"operator", "engine"}
  flushed,    \* _warmup_flushed
  \* the engine's shared state
  queues,     \* queue objects, one per start()
  cur,        \* the start() whose queue is _action_queue, 0 for None
  thread,     \* _rtc_thread: the start() of the worker held, 0 for None
  obs,        \* _obs_holder["obs"]
  history,    \* the frames of _observation_history
  epoch,      \* _reset_epoch
  active,     \* _policy_active
  ready,      \* _compile_warmup_done
  stopping,   \* _shutdown_event
  failed,     \* _rtc_error
  task,       \* _task
  dispatched, \* _dispatched_task
  pending,    \* a text query is queued
  \* the workers' local variables, by start()
  pc, seenEpoch, seenQueue, seenTask, from, prefixed, count, errors, discards,
  \* history variables, read by properties only
  asked,      \* instructions requested since the queue was last cleared
  moved       \* an action was dispatched since the queue was last cleared

control == <<ctl, ret, restart, shutdown, flushed>>
engine  == <<queues, cur, thread, obs, history, epoch, active, ready, stopping, failed>>
chat    == <<task, dispatched, pending>>
local   == <<seenEpoch, seenQueue, seenTask, from, prefixed, count, errors, discards>>
ghosts  == <<asked, moved>>
vars    == <<control, engine, chat, pc, local, ghosts>>

Alive(g) == pc[g] \notin {"none", "dead"}
Elements(s) == {s[i] : i \in 1..Len(s)}

Init ==
  /\ ctl = "reset" /\ ret = "start"
  /\ restart = FALSE /\ shutdown = {} /\ flushed = FALSE
  /\ queues = [g \in Gen |-> Cleared] /\ cur = 0 /\ thread = 0
  /\ obs = NoObs /\ history = <<>> /\ epoch = 0
  /\ active = FALSE /\ ready = ~UseCompile /\ stopping = FALSE /\ failed = FALSE
  /\ task = InitialTask /\ dispatched = InitialTask /\ pending = FALSE
  /\ pc = [g \in Gen |-> "none"]
  /\ seenEpoch = [g \in Gen |-> 0]
  /\ seenQueue = [g \in Gen |-> 0] /\ seenTask = [g \in Gen |-> InitialTask]
  /\ from = [g \in Gen |-> {}] /\ prefixed = [g \in Gen |-> FALSE]
  /\ count = [g \in Gen |-> 0]
  /\ errors = [g \in Gen |-> 0] /\ discards = [g \in Gen |-> 0]
  /\ asked = {InitialTask} /\ moved = FALSE

-----------------------------------------------------------------------------
(* engine.reset(), called by the control thread.                           *)

\* policy.reset, preprocessor.reset, postprocessor.reset: no lock is held.
ResetPolicy ==
  /\ ctl = "reset"
  /\ ctl' = "reset_queue"
  /\ UNCHANGED <<ret, restart, shutdown, flushed, engine, chat, pc, local, ghosts>>

\* Fault: the epoch counts down.
ClearAndBump_Down(holder, frames, next) ==
  /\ queues' = IF cur = 0 THEN queues ELSE [queues EXCEPT ![cur] = Cleared]
  /\ obs' = holder /\ history' = frames /\ epoch' = next - 2

\* Under _obs_lock: drop queue, observation and history, bump the epoch.
ClearAndBump(holder, frames, next) ==
  /\ queues' = IF cur = 0 THEN queues ELSE [queues EXCEPT ![cur] = Cleared]
  /\ obs' = holder /\ history' = frames /\ epoch' = next

ResetQueue ==
  /\ ctl = "reset_queue"
  /\ ctl' = "reset_task"
  /\ ClearAndBump(NoObs, <<>>, epoch + 1)
  /\ asked' = {task} /\ moved' = FALSE
  /\ UNCHANGED <<ret, restart, shutdown, flushed, cur, thread, active, ready, stopping,
                 failed, chat, pc, local>>

\* Fault: the task of the last frame before the reset still labels frames.
ResetTask_Kept ==
  /\ ctl = "reset_task"
  /\ ctl' = ret
  /\ flushed' = (flushed \/ ret = "resume_flushed")
  /\ UNCHANGED <<ret, restart, shutdown, engine, chat, pc, local, ghosts>>

\* _discard_task_change, then back into the caller: a start or restart goes on
\* with engine.start(), a segment with strategy.run() and a warmup flush with
\* marking itself done.
ResetTask ==
  /\ ctl = "reset_task"
  /\ ctl' = ret
  /\ flushed' = (flushed \/ ret = "resume_flushed")
  /\ dispatched' = task
  /\ UNCHANGED <<ret, restart, shutdown, engine, task, pending, pc, local, ghosts>>

-----------------------------------------------------------------------------
(* engine.start(), resume() and stop(), called by the control thread.      *)

\* Fault: the stop flag of the last run is still up.
Start_Stopping ==
  /\ ctl = "start"
  /\ cur < MaxStarts
  /\ cur' = cur + 1 /\ thread' = cur + 1
  /\ obs' = NoObs
  /\ pc' = [pc EXCEPT ![cur + 1] = "top"]
  /\ ctl' = IF Interactive THEN "idle" ELSE "resume"
  /\ UNCHANGED <<ret, restart, shutdown, flushed, queues, history, epoch, active, ready,
                 stopping, failed, chat, local, ghosts>>

\* A new queue object, no observation, the stop flag down and a new worker.
Start ==
  /\ ctl = "start"
  /\ cur < MaxStarts
  /\ cur' = cur + 1 /\ thread' = cur + 1
  /\ obs' = NoObs /\ stopping' = FALSE
  /\ pc' = [pc EXCEPT ![cur + 1] = "top"]
  /\ ctl' = IF Interactive THEN "idle" ELSE "resume"
  /\ UNCHANGED <<ret, restart, shutdown, flushed, queues, history, epoch, active, ready,
                 failed, chat, local, ghosts>>

\* resume() at the start of run(), after a restart, or after the warmup flush.
Resume ==
  /\ ctl \in {"resume", "resume_flushed"}
  /\ active' = TRUE
  /\ ctl' = IF ctl = "resume" THEN "loop" ELSE "dispatch"
  /\ UNCHANGED <<ret, restart, shutdown, flushed, queues, cur, thread, obs, history,
                 epoch, ready, stopping, failed, chat, pc, local, ghosts>>

\* stop() raises the stop flag; the restart pauses the engine first, which
\* stop() does again.
Stop ==
  /\ ctl \in {"restart", "teardown"}
  /\ stopping' = TRUE /\ active' = FALSE
  /\ ctl' = IF ctl = "restart" THEN "stop_restart" ELSE "stop_teardown"
  /\ UNCHANGED <<ret, restart, shutdown, flushed, queues, cur, thread, obs, history,
                 epoch, ready, failed, chat, pc, local, ghosts>>

\* Fault: stop() does not join.
WorkerHeld_NoJoin == FALSE

\* _rtc_thread is not None and _rtc_thread.is_alive()
WorkerHeld == thread # 0 /\ Alive(thread)

\* Only a worker that is alive is joined; the handle of a dead one stays.
LookForWorker ==
  /\ ctl \in {"stop_restart", "stop_teardown"}
  /\ ctl' = IF ctl = "stop_restart" THEN (IF WorkerHeld THEN "join_restart" ELSE "check")
                                    ELSE (IF WorkerHeld THEN "join_teardown" ELSE "done")
  /\ UNCHANGED <<ret, restart, shutdown, flushed, engine, chat, pc, local, ghosts>>

\* The worker returned while stop() waited for it: its handle is dropped.
Join ==
  /\ ctl \in {"join_restart", "join_teardown"}
  /\ ~WorkerHeld
  /\ thread' = 0
  /\ ctl' = IF ctl = "join_restart" THEN "check" ELSE "done"
  /\ UNCHANGED <<ret, restart, shutdown, flushed, queues, cur, obs, history, epoch,
                 active, ready, stopping, failed, chat, pc, local, ghosts>>

\* Fault: the timeout is only logged.
JoinTimeout_Logged ==
  /\ ctl \in {"join_restart", "join_teardown"}
  /\ WorkerHeld
  /\ ctl' = IF ctl = "join_restart" THEN "check" ELSE "done"
  /\ UNCHANGED <<ret, restart, shutdown, flushed, engine, chat, pc, local, ghosts>>

\* The join timed out: stop() raises and keeps the handle.  Out of a restart
\* the exception unwinds run() into teardown, which stops again.
JoinTimeout ==
  /\ ctl \in {"join_restart", "join_teardown"}
  /\ WorkerHeld
  /\ ctl' = IF ctl = "join_restart" THEN "teardown" ELSE "done"
  /\ UNCHANGED <<ret, restart, shutdown, flushed, engine, chat, pc, local, ghosts>>

\* Fault: the restart goes on whatever happened meanwhile.
RestartCheck_Blind ==
  /\ ctl = "check"
  /\ ctl' = "reset" /\ ret' = "start"
  /\ UNCHANGED <<restart, shutdown, flushed, engine, chat, pc, local, ghosts>>

\* The restart gives up if shutdown was requested meanwhile.
RestartCheck ==
  /\ ctl = "check"
  /\ IF shutdown # {} THEN ctl' = "teardown" /\ UNCHANGED ret
                      ELSE ctl' = "reset" /\ ret' = "start"
  /\ UNCHANGED <<restart, shutdown, flushed, engine, chat, pc, local, ghosts>>

-----------------------------------------------------------------------------
(* The control loop of BaseStrategy.run.                                   *)

\* The head of the loop sees shutdown, or the run's duration is over.
LeaveLoop ==
  /\ ctl = "loop"
  /\ shutdown # {} \/ ~restart
  /\ IF Interactive THEN ctl' = "idle" /\ active' = FALSE
                    ELSE ctl' = "teardown" /\ UNCHANGED active
  /\ UNCHANGED <<ret, restart, shutdown, flushed, queues, cur, thread, obs, history,
                 epoch, ready, stopping, failed, chat, pc, local, ghosts>>

\* The head of the loop sees R.
BeginRestart ==
  /\ ctl = "loop" /\ shutdown = {} /\ restart
  /\ restart' = FALSE
  /\ ctl' = "restart"
  /\ UNCHANGED <<ret, shutdown, flushed, engine, chat, pc, local, ghosts>>

\* The tail of s that a deque of length n keeps.
LastN(s, n) == IF Len(s) <= n THEN s ELSE Drop(s, Len(s) - n)

\* notify_observation under _obs_lock: history and holder move together.
Observe ==
  /\ ctl = "loop" /\ shutdown = {} /\ ~restart
  /\ obs' = epoch
  /\ history' = LastN(Append(history, epoch), HistoryLen)
  /\ ctl' = "observed"
  /\ UNCHANGED <<ret, restart, shutdown, flushed, queues, cur, thread, epoch, active,
                 ready, stopping, failed, chat, pc, local, ghosts>>

\* _handle_warmup: wait for the compile warmup, flush once it is over.
HandleWarmup ==
  /\ ctl = "observed"
  /\ IF UseCompile /\ ~ready THEN ctl' = "loop" /\ UNCHANGED ret
     ELSE IF UseCompile /\ ~flushed THEN ctl' = "reset" /\ ret' = "resume_flushed"
     ELSE ctl' = "dispatch" /\ UNCHANGED ret
  /\ UNCHANGED <<restart, shutdown, flushed, engine, chat, pc, local, ghosts>>

\* send_next_action: get_action pops the queue, if there is something in it.
Dispatch ==
  /\ ctl = "dispatch"
  /\ IF HasAction(queues[cur])
     THEN /\ queues' = [queues EXCEPT ![cur] = Popped(@)]
          /\ dispatched' = NextTask(queues[cur])
          /\ moved' = TRUE
     ELSE UNCHANGED <<queues, dispatched, moved>>
  /\ ctl' = "loop"
  /\ UNCHANGED <<ret, restart, shutdown, flushed, cur, thread, obs, history, epoch,
                 active, ready, stopping, failed, task, pending, pc, local, asked>>

-----------------------------------------------------------------------------
(* Run segments: RolloutController.serve and _run_segment.                 *)

\* serve() ends on a failed engine or a shutdown request.
ServeEnds ==
  /\ ctl = "idle"
  /\ failed \/ "operator" \in shutdown
  /\ ctl' = "teardown"
  /\ UNCHANGED <<ret, restart, shutdown, flushed, engine, chat, pc, local, ghosts>>

\* start() was requested and serve() saw nothing against it; the run bound
\* stands for an operator who stops asking.
AcceptStart ==
  /\ ctl = "idle" /\ epoch < MaxEpoch
  /\ ~failed /\ "operator" \notin shutdown
  /\ ctl' = "starting"
  /\ UNCHANGED <<ret, restart, shutdown, flushed, engine, chat, pc, local, ghosts>>

\* _run_segment takes back the local stop flag, which a dying engine sets too.
BeginSegment ==
  /\ ctl = "starting"
  /\ shutdown' = shutdown \ {"engine"}
  /\ ctl' = "segment"
  /\ UNCHANGED <<ret, restart, flushed, engine, chat, pc, local, ghosts>>

\* Fault: only a shutdown request is looked at.
CheckSegment_Failure ==
  /\ ctl = "segment"
  /\ IF "operator" \in shutdown THEN ctl' = "idle" /\ UNCHANGED ret
                                ELSE ctl' = "reset" /\ ret' = "resume"
  /\ UNCHANGED <<restart, shutdown, flushed, engine, chat, pc, local, ghosts>>

\* ... and only then looks whether the segment may run.
CheckSegment ==
  /\ ctl = "segment"
  /\ IF failed \/ "operator" \in shutdown THEN ctl' = "idle" /\ UNCHANGED ret
                                          ELSE ctl' = "reset" /\ ret' = "resume"
  /\ UNCHANGED <<restart, shutdown, flushed, engine, chat, pc, local, ghosts>>

-----------------------------------------------------------------------------
(* The outside world.                                                      *)

\* A restart is between the key press and its engine.start().
Restarting ==
  \/ ctl \in {"restart", "stop_restart", "join_restart", "check", "start"}
  \/ ctl \in {"reset", "reset_queue", "reset_task"} /\ ret = "start"

\* The keyboard thread only requests the restart.
PressR ==
  /\ ~Interactive /\ ~restart /\ cur # 0
  /\ cur + (IF Restarting THEN 1 ELSE 0) < MaxStarts
  /\ ctl \notin {"teardown", "stop_teardown", "join_teardown", "done"}
  /\ restart' = TRUE
  /\ UNCHANGED <<ctl, ret, shutdown, flushed, engine, chat, pc, local, ghosts>>

Interrupt ==
  /\ "operator" \notin shutdown
  /\ shutdown' = shutdown \union {"operator"}
  /\ UNCHANGED <<ctl, ret, restart, flushed, engine, chat, pc, local, ghosts>>

\* set_task, from any thread.
SetTask(t) ==
  /\ t # task
  /\ task' = t /\ asked' = asked \union {t}
  /\ UNCHANGED <<control, engine, dispatched, pending, pc, local, moved>>

\* ask, or the autosteer poll, queues a query.
Ask ==
  /\ ~pending
  /\ pending' = TRUE
  /\ UNCHANGED <<control, engine, task, dispatched, pc, local, ghosts>>

-----------------------------------------------------------------------------
(* _rtc_loop, the worker of one start().                                   *)

Goto(g, label) == pc' = [pc EXCEPT ![g] = label]

\* Loop condition and gate; a paused worker sleeps and looks again.
Top(g) ==
  /\ pc[g] = "top" /\ ~stopping /\ active
  /\ Goto(g, "snapshot")
  /\ seenQueue' = [seenQueue EXCEPT ![g] = cur]
  /\ UNCHANGED <<control, engine, chat, seenEpoch, seenTask, from, prefixed, count,
                 errors, discards, ghosts>>

\* The worker returns, and its local variables are gone.
Exit(g) ==
  /\ Goto(g, "dead")
  /\ seenEpoch' = [seenEpoch EXCEPT ![g] = 0] /\ seenQueue' = [seenQueue EXCEPT ![g] = 0]
  /\ seenTask' = [seenTask EXCEPT ![g] = InitialTask] /\ from' = [from EXCEPT ![g] = {}]
  /\ prefixed' = [prefixed EXCEPT ![g] = FALSE] /\ count' = [count EXCEPT ![g] = 0]
  /\ errors' = [errors EXCEPT ![g] = 0] /\ discards' = [discards EXCEPT ![g] = 0]

StopSeen(g) ==
  /\ pc[g] = "top" /\ stopping
  /\ Exit(g)
  /\ UNCHANGED <<control, engine, chat, ghosts>>

\* Under _obs_lock: observation, epoch and history are read together.
ReadSnapshot(g) ==
  /\ seenEpoch' = [seenEpoch EXCEPT ![g] = epoch]
  /\ from' = [from EXCEPT ![g] = {obs} \union Elements(history)]

Snapshot(g) ==
  /\ pc[g] = "snapshot"
  /\ ReadSnapshot(g)
  /\ Goto(g, IF obs = NoObs THEN "top" ELSE "query")
  /\ UNCHANGED <<control, engine, chat, seenQueue, seenTask, prefixed, count, errors,
                 discards, ghosts>>

\* _service_query claims a queued query, if there is one.
ClaimQuery(g) ==
  /\ pc[g] = "query"
  /\ pending' = FALSE
  /\ Goto(g, IF pending THEN "generating" ELSE "refill")
  /\ UNCHANGED <<control, engine, task, dispatched, local, ghosts>>

\* Seconds later the answer is there; a next-subtask answer sets the task.
AnswerQuery(g) ==
  /\ pc[g] = "generating"
  /\ \E t \in Task : task' = t /\ asked' = asked \union {t}
  /\ Goto(g, "reread")
  /\ UNCHANGED <<control, engine, dispatched, pending, local, moved>>

\* The snapshot is stale by now: read it again.
Reread(g) ==
  /\ pc[g] = "reread"
  /\ ReadSnapshot(g)
  /\ Goto(g, IF obs = NoObs THEN "top" ELSE "refill")
  /\ UNCHANGED <<control, engine, chat, seenQueue, seenTask, prefixed, count, errors,
                 discards, ghosts>>

\* Enough actions left: sleep and start over.
CheckQueue(g) ==
  /\ pc[g] = "refill"
  /\ Goto(g, IF qsize(queues[seenQueue[g]]) <= Threshold THEN "prefix" ELSE "top")
  /\ UNCHANGED <<control, engine, chat, local, ghosts>>

\* get_left_over: what is left of the previous chunk conditions this one.
ReadPrefix(g) ==
  /\ pc[g] = "prefix"
  /\ LET prev == LeftOver(queues[seenQueue[g]]) IN
       /\ from' = [from EXCEPT ![g] = @ \union UNION Elements(prev)]
       /\ prefixed' = [prefixed EXCEPT ![g] = prev # <<>>]
  /\ Goto(g, "take")
  /\ UNCHANGED <<control, engine, chat, seenEpoch, seenQueue, seenTask, count,
                 errors, discards, ghosts>>

TakeTask(g) ==
  /\ pc[g] = "take"
  /\ seenTask' = [seenTask EXCEPT ![g] = task]
  /\ Goto(g, "infer")
  /\ UNCHANGED <<control, engine, chat, seenEpoch, seenQueue, from, prefixed,
                 count, errors, discards, ghosts>>

IsWarmup(n) == UseCompile /\ n <= WarmupRequired

WarmupOver(n) == IsWarmup(n) /\ n >= WarmupRequired

\* The policy answered and the chunk may be merged.
InferUsable(g) ==
  /\ pc[g] = "infer"
  /\ count' = [count EXCEPT ![g] = IF @ <= WarmupRequired THEN @ + 1 ELSE @]
  /\ errors' = [errors EXCEPT ![g] = 0]
  /\ discards' = [discards EXCEPT ![g] = 0]
  /\ Goto(g, "merge")
  /\ UNCHANGED <<control, engine, chat, seenEpoch, seenQueue, seenTask, from,
                 prefixed, ghosts>>

\* A trained chunk came too late for its prefix: retry, or give up.
InferTooLate(g) ==
  /\ pc[g] = "infer" /\ Trained /\ prefixed[g]
  /\ count' = [count EXCEPT ![g] = IF @ <= WarmupRequired THEN @ + 1 ELSE @]
  /\ ~IsWarmup(count'[g])
  /\ errors' = [errors EXCEPT ![g] = 0]
  /\ discards' = [discards EXCEPT ![g] = @ + 1]
  /\ Goto(g, IF discards'[g] >= MaxDiscards THEN "fatal" ELSE "top")
  /\ UNCHANGED <<control, engine, chat, seenEpoch, seenQueue, seenTask, from,
                 prefixed, ghosts>>

\* Anything else raised: retry, or give up.
InferError(g) ==
  /\ pc[g] = "infer"
  /\ errors' = [errors EXCEPT ![g] = @ + 1]
  /\ Goto(g, IF errors'[g] >= MaxErrors THEN "fatal" ELSE "top")
  /\ UNCHANGED <<control, engine, chat, seenEpoch, seenQueue, seenTask, from,
                 prefixed, count, discards, ghosts>>

\* The chunk as it enters the queue: every step has the chunk's provenance.
ChunkOf(g) == [i \in 1..ChunkLen |-> from[g]]

\* Fault: a chunk is merged whatever happened since its snapshot.
StillCurrent_Always(g) == TRUE

\* epoch_before == self._reset_epoch
StillCurrent(g) == seenEpoch[g] = epoch

\* Under _obs_lock: merge, unless a reset came in between.
MergeChunk(g) ==
  /\ pc[g] = "merge"
  /\ \E delay \in 0..MaxDelay :
       queues' = IF StillCurrent(g)
                 THEN [queues EXCEPT ![seenQueue[g]] =
                         Merged(RTC, @, ChunkOf(g), ChunkOf(g), delay, seenTask[g])]
                 ELSE queues
  /\ Goto(g, "merged")
  /\ UNCHANGED <<control, cur, thread, obs, history, epoch, active, ready, stopping,
                 failed, chat, local, ghosts>>

\* The last warmup inference opens the gate for the control loop.
FinishWarmup(g) ==
  /\ pc[g] = "merged"
  /\ ready' = (ready \/ WarmupOver(count[g]))
  /\ Goto(g, "top")
  /\ UNCHANGED <<control, queues, cur, thread, obs, history, epoch, active, stopping,
                 failed, chat, local, ghosts>>

\* The outer handler: record the failure, wake the warmup wait, ask to stop.
Fail(g) ==
  /\ pc[g] = "fatal"
  /\ failed' = TRUE
  /\ Goto(g, "unblock")
  /\ UNCHANGED <<control, queues, cur, thread, obs, history, epoch, active, ready,
                 stopping, chat, local, ghosts>>

Unblock(g) ==
  /\ pc[g] = "unblock"
  /\ ready' = TRUE
  /\ Goto(g, "signal")
  /\ UNCHANGED <<control, queues, cur, thread, obs, history, epoch, active, stopping,
                 failed, chat, local, ghosts>>

Signal(g) ==
  /\ pc[g] = "signal"
  /\ shutdown' = shutdown \union {"engine"}
  /\ Exit(g)
  /\ UNCHANGED <<ctl, ret, restart, flushed, engine, chat, ghosts>>

-----------------------------------------------------------------------------
Control ==
  \/ ResetPolicy \/ ResetQueue \/ ResetTask
  \/ Start \/ Resume \/ Stop \/ LookForWorker \/ Join \/ JoinTimeout \/ RestartCheck
  \/ LeaveLoop \/ BeginRestart \/ Observe \/ HandleWarmup \/ Dispatch
  \/ ServeEnds \/ AcceptStart \/ BeginSegment \/ CheckSegment

Outside == PressR \/ Interrupt \/ Ask \/ \E t \in Task : SetTask(t)

Worker(g) ==
  \/ Top(g) \/ StopSeen(g) \/ Snapshot(g) \/ ClaimQuery(g) \/ AnswerQuery(g) \/ Reread(g)
  \/ CheckQueue(g) \/ ReadPrefix(g) \/ TakeTask(g)
  \/ InferUsable(g) \/ InferTooLate(g) \/ InferError(g)
  \/ MergeChunk(g) \/ FinishWarmup(g) \/ Fail(g) \/ Unblock(g) \/ Signal(g)

\* The program is over once teardown is.
Done == ctl = "done" /\ UNCHANGED vars

Next == Control \/ Outside \/ (\E g \in Gen : Worker(g)) \/ Done

Spec == Init /\ [][Next]_vars

\* The control thread and every worker keep running; nobody has to press a
\* key.  A worker may still fail at every inference, and a join may time out.
FairSpec ==
  /\ Spec
  /\ WF_vars(Control)
  /\ \A g \in Gen : WF_vars(Worker(g))

-----------------------------------------------------------------------------
ControlPoint ==
  {"reset", "reset_queue", "reset_task", "start", "resume", "resume_flushed", "restart",
   "stop_restart", "join_restart", "check", "loop", "observed", "dispatch", "idle",
   "starting", "segment", "teardown", "stop_teardown", "join_teardown", "done"}

WorkerPoint ==
  {"none", "top", "snapshot", "query", "generating", "reread", "refill", "prefix", "take",
   "infer", "merge", "merged", "fatal", "unblock", "signal", "dead"}

Epoch == Int
ControlType ==
  /\ ctl \in ControlPoint /\ ret \in {"start", "resume", "resume_flushed"}
  /\ restart \in BOOLEAN /\ flushed \in BOOLEAN
  /\ shutdown \subseteq {"operator", "engine"}

EngineType ==
  /\ queues \in [Gen -> QueueObject(SUBSET Epoch, Task)]
  /\ cur \in 0..MaxStarts /\ thread \in 0..MaxStarts
  /\ obs \in Epoch /\ history \in Seq(Epoch) /\ epoch \in Nat
  /\ active \in BOOLEAN /\ ready \in BOOLEAN /\ stopping \in BOOLEAN /\ failed \in BOOLEAN

ChatType ==
  /\ task \in Task /\ dispatched \in Task /\ pending \in BOOLEAN
  /\ asked \subseteq Task /\ moved \in BOOLEAN

WorkerType ==
  /\ pc \in [Gen -> WorkerPoint]
  /\ seenEpoch \in [Gen -> Nat]
  /\ seenQueue \in [Gen -> 0..MaxStarts] /\ seenTask \in [Gen -> Task]
  /\ from \in [Gen -> SUBSET Epoch] /\ prefixed \in [Gen -> BOOLEAN]
  /\ count \in [Gen -> Nat] /\ errors \in [Gen -> Nat] /\ discards \in [Gen -> Nat]

TypeOK == ControlType /\ EngineType /\ ChatType /\ WorkerType

\* Every action the robot can still be sent was computed only from
\* observations, history frames and left-over actions of the current reset
\* epoch, in whichever order the worker's reads and the control thread's
\* reset, restart or warmup flush interleave (rtc.py:216 and :337).
FreshQueue ==
  cur # 0 => \A e \in Elements(queues[cur].queue) \union Elements(queues[cur].original_queue) :
                e = {epoch}

\* After a reset no action and no frame label carries an instruction that was
\* only asked for before it: "with queued actions gone, the next dispatched
\* action can only come from the current instruction" (inference/base.py:188).
LabelsSinceReset ==
  /\ cur # 0 => Elements(queues[cur].task_queue) \subseteq asked
  /\ ctl # "reset_task" => dispatched \in asked

\* A restart never has two workers running inference (rtc.py:307).
OneWorker == \A g, h \in Gen : Alive(g) /\ Alive(h) => g = h

\* When a restart touches the policy and its processors, no worker is left
\* that could be using them (strategies/base.py:52).
RestartExclusive == ctl = "reset" /\ ret = "start" => \A g \in Gen : ~Alive(g)

\* An engine that failed is not started again: the restart looks at the
\* shutdown event only after it joined the worker that may be setting it
\* (strategies/base.py:55).
NoStartAfterFailure == [][cur' # cur => ~failed]_vars

\* A failed engine ends the program; in particular _run_segment taking back
\* the stop flag cannot swallow the failure (controller.py:395).
FailureEndsRun == failed ~> ctl = "done"

\* An engine that holds actions gets ready: `ready` is "True once the backend can
\* produce actions (e.g. warmup done)" (inference/base.py:485).
ReadyWithActions == cur # 0 /\ HasAction(queues[cur]) ~> ready \/ ctl = "done"

\* After a start or restart the robot moves again, on a chunk of the new
\* run, unless the run or its segment ends: pauses, failed inferences, discarded
\* chunks and queries do not wedge the engine.
RestartMovesAgain == ctl = "start" ~> moved \/ ctl \in {"idle", "done"}

\* An instruction that stays requested reaches the robot, unless the run ends.
TaskLands ==
  \A t \in Task : task = t ~> dispatched = t \/ task # t \/ ctl = "done"
=============================================================================
