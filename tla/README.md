# TLA+ verification of the CycleSmolVLA rollout stack

CycleSmolVLA is a fork of LeRobot (`src/.lerobot-src/`) that adds CycleManip-style
temporal observation windows to the SmolVLA policy, together with its own top-level
documents, a `config/` and helper scripts.  Everything below refers
to files under `src/.lerobot-src/src/lerobot/`, called by their path from there.

The part of that code where order and timing decide correctness is the *rollout*: a
control thread reads the robot at a fixed rate and executes one action per period,
while an inference thread computes chunks of future actions that take many periods to
arrive.  A key press, a text instruction, a compile warmup, a failing inference or the
end of a run segment may come at any moment in between.  This project models that
first, then the recording strategies that turn it into datasets, and the asynchronous
inference client and server, which are a second way to feed a robot with chunks.

- [1. Inventory](#1-inventory)
- [2. Plan](#2-plan)
- [3. The modules and the code](#3-the-modules-and-the-code)
- [4. What the runs check](#4-what-the-runs-check)
- [5. Bounds](#5-bounds)
- [6. Fairness](#6-fairness)
- [7. What is proved](#7-what-is-proved)
- [8. Where the code departs from its documentation](#8-where-the-code-departs-from-its-documentation)
- [9. What is not modelled](#9-what-is-not-modelled)

## 1. Inventory

### Action queue: `policies/rtc/action_queue.py`

*State.*  Three parallel arrays (`queue`, `original_queue`, `_task_queue`), a cursor
`last_index`, one lock.
*Operations.*  `get`/`get_with_task` pop one action with the instruction it was
generated under; `merge` replaces the queue by the end of a new chunk (RTC) or appends
the chunk behind what is left (no RTC); `clear`; `qsize`, `empty`;
`get_left_over` and `get_processed_left_over` return what is not yet executed.
*Interaction.*  The control thread pops and clears, the inference thread merges and
reads left-overs.
*Hard.*  The arrays must stay in step over every sequence of calls from two threads;
delays of zero, of the whole chunk and beyond.
*Correct when* it is an ordered stream: every action is delivered at most once, in
order, under its own chunk's instruction, with its model-space twin.

### RTC inference engine: `rollout/inference/rtc.py`

*State.*  The queue, the observation holder and the observation history under
`_obs_lock`; `_reset_epoch`; the events `_policy_active`, `_compile_warmup_done`,
`_shutdown_event`, `_rtc_error` and the global shutdown event; the thread handle; and
the worker's locals (warmup count, consecutive errors and discards, latency tracker).
*Operations.*  `start`, `stop`, `pause`, `resume`, `reset`, `notify_observation`,
`get_action`, and the worker's loop `_rtc_loop`.
*Interaction.*  Called by the control thread; the worker calls policy, processors, the
queue, the text-query channel, and sets the shutdown event when it dies.
*Hard.*  The worker reads observation, history, epoch, left-over and instruction at
different moments, then is away for a long time; meanwhile the control thread resets,
restarts or stops it.  Joins time out.  The trained mode commits to a prefix length
before it knows how long the inference takes.
*Correct when* nothing from before a reset reaches the robot, one worker at most runs,
a failure is noticed by everybody who waits, and the robot moves again.

### Control loop: `rollout/strategies/base.py`, `rollout/strategies/core.py`

*State.*  The restart request, the warmup flag, the shutdown event, the interpolator.
*Operations.*  `setup`, `run` with its restart by the R key, `_handle_warmup`,
`send_next_action`, `teardown`.
*Interaction.*  Calls the engine and the robot; is stopped by an event.
*Hard.*  Flags set by other threads between two looks at them; a restart overlaps a
failing worker.
*Correct when* a failure always ends the program and a restart is exclusive.

### Rollout controller: `rollout/controller.py`

*State.*  The request flags `_start_requested`, `_reset_requested`, `_stop_requested`
and `_wake`; `_running`, `_stopped`; `_segment_stop`, an event linked to the parent's
shutdown; the control lock; the failure of a strategy.
*Operations.*  `start`, `reset`, `stop`, `set_task`, `ask`, `autosteer`, callable from
any thread, one at a time; `serve`, the loop of the thread that runs segments, with
`_run_segment` and `_reset_robot`.
*Interaction.*  A segment is one call of `BaseStrategy.run`.  The strategy sees
`_segment_stop` as its shutdown event, and so does the engine's worker, which sets it
when it dies.
*Hard.*  Every flag is read by the serve thread without the lock the callers hold; a
segment lowers a stop flag that a request or a dying worker has just raised.
*Correct when* requests take effect in the order they were made, none is swallowed, and
nothing asked of one segment leaks into the next.

### Text-query channel and autosteer: `rollout/inference/base.py`

*State.*  The current and the dispatched instruction under `_task_lock`; under
`_query_lock` the one queued query, whether one is in flight, the answers not yet
delivered, and the sequencer's goal and next due time.
*Operations.*  `set_task`, `ask`, `start_autosteer`, `stop_autosteer` from any thread;
`pump_query` (plan a turn, serve it if this thread owns the policy, deliver answers)
from the control thread; `_take_query`, `_service_query`, `_apply_subtask`,
`_fail_subtask`, `_publish_answer` on the thread that owns the policy;
`drop_pending_query`, `drop_ready_subtask_answers` at the end of a segment.
*Interaction.*  Three threads meet here: the caller of a control method, the serve
thread, the worker.
*Hard.*  A generation takes seconds and holds no lock; the goal may be stopped, replaced
or started again meanwhile; application and publication of an answer are two critical
sections.
*Correct when* every accepted question is answered or reported once, a turn touches only
the sequencer it was generated for, and the operator's instruction has the last word.

### Observation history and CycleManip windows: `rollout/inference/observation_history.py`, `policies/smolvla/cyclemanip.py`, `policies/smolvla/modeling_smolvla.py`, `datasets/dataset_reader.py`

*State.*  A bounded deque per observation key, live and in the policy's fallback; the
dataset's episode boundaries.
*Operations.*  `append`, `snapshot`, `stack`, `clear`; `_prepare_cycle_batch`;
`_get_query_indices`; the window and progress-label functions.
*Hard.*  The same window is computed in three places, and a policy only works if they
agree at every tick, above all near the start of an episode; arrays are shared with a
camera backend that overwrites them.
*Correct when* the live windows equal the training windows.

### Asynchronous inference: `async_inference/robot_client.py`, `async_inference/policy_server.py`

*State.*  Client: the action queue and `latest_action`, each under a lock of its own, the
event `must_go`.  Server: the observation queue of size one, `_predicted_timesteps` under
a lock, `last_processed_obs` under none.
*Operations.*  Client: `control_loop` (pop and execute an action, send an observation when
few are left) and `receive_actions` with `_aggregate_action_queues`, in two threads.
Server: `SendObservations` (`_enqueue_observation`, `_obs_sanity_checks`) and `GetActions`
(`_predict_action_chunk`), each call in a thread of the gRPC pool.
*Interaction.*  Two remote calls, either of which may fail at the client while its handler
goes on.
*Hard.*  The receiver filters a chunk against a `latest_action` that moves, and replaces a
queue the control loop pops from meanwhile; `must_go` is lowered by one thread and raised by
the other; the server looks at its one slot, empties it and fills it in three steps.
*Correct when* the robot goes through the timeline without gaps, repeats as little as the
rebuilding allows, and never waits for an observation that was filtered out.

### Recording strategies and dataset writing: `rollout/strategies/{core,sentry,dagger,highlight,episodic}.py`, `rollout/ring_buffer.py`, `datasets/dataset_writer.py`

*State.*  The episode buffer, the data files and their metadata; an executor of one worker
that pushes to the Hub, `_needs_push`, `_episode_lock`; per strategy a phase, a requested
transition, the flags its keys raise, the ring of recent frames, a poison latch.
*Operations.*  `add_frame`, `save_episode`, `clear_episode_buffer`, `finalize`,
`push_to_hub`; the four control loops with their `finally` clauses and `teardown()`; the
key handlers.
*Interaction.*  Strategy thread, executor and keyboard thread; the Hub.
*Hard.*  A save may fail between rows and metadata; pushes run while episodes are being
saved; keys arrive between the places that read them; what is left at the end has to be
saved behind an exception.
*Correct when* every frame is in exactly one episode, no episode joins what does not belong
together, and the Hub ends up with all of it.

### Further components

| Component | State and operations | Hard behaviour | What would make it correct |
|---|---|---|---|
| Synchronous engine, interpolator, latency tracker (`rollout/inference/sync.py`, `utils/action_interpolator.py`, `policies/rtc/latency_tracker.py`) | precomputed actions, interpolation buffer, latency window | a task change against precomputed actions | a dispatched label belongs to the executed action |
| Keyboard and stdin (`utils/stdin_input.py`, `utils/keyboard_input.py`, `rollout/interactive.py`) | listener threads, events | a line that arrives while the reader is torn down | every command is handled once |
| Image writers and video encoders (`datasets/image_writer.py`, `video_utils.py`) | queues of frames, encoder threads, codecs | an encoder slower than the recording | a video has the frames of its episode |
| Actor-learner RL (`rl/`) | queues between processes, replay buffer | wrap-around, process shutdown | sampled transitions belong together |
| Camera threads (`cameras/`) | latest frame, frame event, stop event | read against disconnect | a frame read is fresh |
| Policies, training, processors | networks, optimizers | none that is control | numerical |
| Robots, teleoperators, motors | device handles | device protocols | the device moves as told |

The hazards of all of these, each at its line and with the property that watches it,
are listed in `PROJECT.json`.

## 2. Plan

Done now, in this order:

1. `ActionQueueOps`, `ActionQueue`, `ActionStream`: the queue, and what it promises.
2. `RTCEngine`: engine, worker and control thread, over the queue's operators.
3. `RTCPrefix`: the delay arithmetic of trained mode against a moving robot.
4. `ObservationHistory`, `CycleManip`: live windows against training windows.
5. `ActionQueueOpsProofs`, `ActionQueueProofs`, `RTCEngineProofs`.
6. `QueryChannel` and, composed with it, `RolloutController`: requests, segments,
   questions and the sequencer, with the RTC worker and with the synchronous engine.
7. `RolloutControllerProofs`.
8. `AsyncInference`, `AsyncInferenceProofs`: client and server with calls that fail.
9. `EpisodeDataset`, `Recorder`, the four strategies, `Recording`.
10. `RTCPrefixProofs`, `ObservationHistoryProofs`.
11. `RecordingProofs`, about all four strategies; the failure of the engine, the
    conservation of questions and the balance of progress labels in the proof modules of
    their components.

What a continuation would take up, most important first:

- `ControlTick`: the synchronous engine and the interpolator against labels.
- Camera threads; the queues and the replay buffer of the actor-learner.
- The reconnecting client: `Ready` and `SendPolicyInstructions` reset the server's queue
  and its predicted timesteps while handlers of an earlier client may still run.

Every safety property of the passing runs is now a theorem.  What is still worth proving: an
abstract channel, the multiset of open questions that `QuestionConserved` speaks of, with
`RolloutController` shown to implement it; an abstract dataset, the set of recorded frames
divided into episodes, for the recording strategies; and `FallbackAsTrained` for the
windows that `CycleManip` makes, of which it now assumes that they have no gap.

## 3. The modules and the code

| Module | Models | Extends / instantiates |
|---|---|---|
| `ActionQueueOps` | the queue object and every method of `ActionQueue`, as operators | |
| `ActionQueue` | one queue between control thread and inference thread | `ActionQueueOps`; `ActionStream` as abstraction |
| `ActionStream` | abstract: an ordered stream of labelled actions | |
| `RTCEngine` | `RTCInferenceEngine`, `BaseStrategy.run`, the segments of `RolloutController` | `ActionQueueOps` |
| `MCEngine`, `MCEngineLive` | configurations of the engine, one chosen at the start of a behaviour | `RTCEngine`, several times |
| `RTCPrefix` | one refill of the RTC loop in trained mode, in control periods | |
| `CycleManip` | the pure functions of `cyclemanip.py` | |
| `ObservationHistory` | live history, policy fallback and dataset reader | |
| `MCObservationHistory` | model values: windows made by `CycleManip`, the progress labels | both |
| `QueryChannel` | the task, the question slot, the sequencer and the answers, as operators | |
| `RolloutController` | the control methods, `serve`, `_run_segment`, and the thread that owns the policy | `QueryChannel` |
| `MCController` | the RTC worker or the synchronous engine, chosen at the start of a behaviour | `RolloutController`, twice |
| `AsyncInference`, `MCAsyncInference` | `RobotClient` and `PolicyServer`; two configurations, one chosen at the start of a behaviour | the second instantiates the first twice |
| `EpisodeDataset` | the dataset and what `DatasetWriter` makes of it, as operators | |
| `Recorder` | the strategies' common part: frames, saves, the push executor, `teardown()` | `EpisodeDataset` |
| `SentryRecording`, `DaggerRecording`, `HighlightRecording`, `EpisodicRecording` | one strategy each | `Recorder` |
| `Recording` | the four strategies, one chosen at the start of a behaviour | `SentryRecording`; instances of the others |
| `ActionQueueOpsProofs`, `ActionQueueProofs`, `RTCEngineProofs`, `RTCPrefixProofs`, `ObservationHistoryProofs`, `RolloutControllerProofs`, `AsyncInferenceProofs`, `RecordingProofs` | theorems | the module they are about (`ObservationHistoryProofs`: `MCObservationHistory`, where `ProgressBalanced` is stated), `TLAPS` |

Definitions called `X_Something` and introduced by "Fault:" are not part of the model:
each is a plausible bug in `X`, kept beside it to show that the property that should
notice it does.

### The queue

A chunk is numbered; step `i` of chunk `n` is `<<n, i>>` in both spaces.  Every method
is one critical section of the queue's lock and hence one action.  `Merged` is
`merge` in both modes: `Replaced` drops the first `ClampedDelay` steps and puts the
cursor back, `Appended` trims what was consumed and lines up the new chunk; an empty
queue is `None` in the code and `<<>>` here, with the same cursor.  The merge mode `rtc`
is chosen in `Init` and never changes.  `OutOfStep` is the
condition under which `get_with_task` raises.

### The engine

A thread is a program counter; an action is one critical section, or one access to
shared state, of the thread that takes it.  `ctl` is the control thread.  It goes
through `reset` (`ResetPolicy`, `ResetQueue`, `ResetTask`: three steps, because only
the middle one holds `_obs_lock`), `Start`, `Resume`, the control loop (`LeaveLoop`,
`BeginRestart`, `Observe`, `HandleWarmup`, `Dispatch`), the restart (`Stop`, `LookForWorker`, `Join` or
`JoinTimeout`, `RestartCheck`, then reset and start again) and teardown.  With
`Interactive`, the loop is entered through `serve` and `_run_segment` instead
(`AcceptStart`, `BeginSegment`, `CheckSegment`, `ServeEnds`).

`pc[g]` is the worker that the `g`-th call of `start()` launched.  `Top` is the loop
condition and the gate; `Snapshot` the read under `_obs_lock`; `ClaimQuery`,
`AnswerQuery`, `Reread` the detour over a text query; `CheckQueue`, `ReadPrefix`,
`TakeTask` the three reads before the inference; `InferUsable`, `InferTooLate`,
`InferError` the ways it can end; `MergeChunk` the epoch check and merge under
`_obs_lock`; `FinishWarmup`; and `Fail`, `Unblock`, `Signal` the handler of a dead
engine, three steps in its order.

Data are provenance.  An observation is the epoch it was published in; an action in the
queue is the *set* of epochs of everything its chunk was computed from, which includes
the history frames and, through the left-over, the chunk before.  "Nothing stale" is
then `= {epoch}`.  `asked` and `moved` are history variables: nothing reads them but
properties.

### The controller

Three program counters.  `call` is the control method that holds `_control_lock`: a
method is one step per lock or flag that another thread can see it between, so `Reset`
(cancel the start, stop the sequencer), `RestoreTask` and `RequestSegmentEnd` are the
three steps of `reset()`.  `serve` is the serve thread: `Leave`, `LookForReset`,
`LookForStart`, `IdlePump`, `ClearWake` are the loop of `serve()` in its order;
`Consume`, `ClearSegmentStop`, `CheckSegment`, `BeginSegment`, the tick (`Tick`, `Pump`,
`Deliver`), `LeaveLoop`, `Pause`, `EndSegment` are a segment.  `w` is the thread that
owns the policy and `q` the query it holds: `Look` is the worker's gate, `Claim`,
`Generate`, `Apply` or `Fail`, `Publish` are `_service_query`, and `Refill`, `Signal`
are what the rest of the worker's loop, which `RTCEngine` models, does to the
controller.  With `Inline` there is no worker: the serve thread goes through the same
steps between `Pump` and `Deliver`.

A question is its number, a turn its goal.  `ready` is a bag: the answers waiting to be
delivered are counted, their order is left out.  Four history variables are read by
properties only: `owed` (an accepted start that nothing has overruled), `told` (the
instruction in force when nobody steers), `sequencer` (how many have been started; a
claimed turn remembers the number in `of`) and `reported` (deliveries per question).

`RTCEngine` and `RolloutController` both contain the segments of the controller, for
different questions: the first what they do to the worker's data and failures, the
second what requests and queries do to them.

### The prefix

Only counts matter here, so the queue is its length and time is counted in control
periods.  `Snapshot` takes the epoch; `QueueFull` finds enough actions left, otherwise
`ReadClock` notes the time, `ReadPrefix` reads the left-over and clamps the
estimated delay to it, `Reanchor` is the second read that relative actions need,
`Infer` measures and judges, `InferError` is an exception anywhere before (retried, or one
too many), `Merge` drops the measured delay unless the epoch has changed; `Tick` is the
control thread executing an action, at any point in between.  A latency that crosses `k`
period boundaries rounds up to `k` or `k + 1` periods.  With `Warmup`, the first inferences
are merged unjudged and teach the tracker nothing (`IsWarmup`), the last of them sets
`ready` (`FinishWarmup`), and only then does the control thread clear the queue (`Flush`)
and begin to execute.

### The windows

Arrays are addresses: a private copy of the n-th frame, the camera's one buffer, or
zeros.  `Observe` appends a copy to the live history and to the policy's fallback,
`TakeSnapshot` freezes the window under the lock and stacks it later, `Reset` begins
the next episode.  `Training` is what the dataset reader would return for the same
frame.

### Asynchronous inference

An action is its timestep.  A queue holds each timestep once (chunks ascend, and a rebuilt
queue is filtered from one chunk) and is popped from its smallest, so it is a set.  `ctl` is
the control loop: `Top` looks whether actions are available, `Pop` takes one, `Execute` sends
it and sets `latest_action`, `Ready` compares the queue with the threshold, `Observe` forms
the observation, `Request`, `Sent` or `SendLost` are the remote call, `ClearMustGo` what
follows it.  `rcv` is the receiver: `Call`, `Receive` or `GetLost`, then
`_aggregate_action_queues` as `Copy` (the dict comprehension over the deque), one `Rebuild`
per action of the chunk, `Swap`, and `SetMustGo`.  `send[h]` and `infer[h]` are handlers: of
`SendObservations`, `Check` (the filters), `LookForRoom` (whether the queue is full), `Evict`, `Put`; of
`GetActions`, `Take`, `Mark`, `Prepare`, `Infer` or `InferFails`, `Expire`.  A handler whose
call failed goes on; its answer goes nowhere.  The aggregate function is left out: it
combines the values of two actions of one timestep and keeps the timestep.  `frontier`,
`behind`, `popping` and `undone` are history variables.

### Recording

A frame is its number and the *take* it belongs to: the run segment (Sentry), the attempt
(Episodic), the correction (DAgger), the highlight.  `EpisodeDataset` keeps rows and the
intervals the metadata gives them apart, because a save writes one after the other and may
fail in between (`Failed`); `sized` is the `"size"` that `save_episode` pops out of the
buffer before anything else.  `open` says that the files still lack their footer.  A save
is one step, as it holds `_episode_lock`; a push holds it from `BeginPush` to `EndPush` or
`FailPush`, and a save waits for it (`LockFree`).  What is *not* under the lock is a step of
its own: `_needs_push` after a save of Sentry or DAgger (`SetNeedsPush`, `Register`,
`RegisterTail`), Sentry's poison latch, the finalizing of
`VideoEncodingManager`.  The strategies' loops are program counters again: `Tick`, `Rotate`,
`SaveTail`, ... of Sentry; `Consume`, `SaveCorrection`, `Register`, `Upload`, `Correct`,
`Drive`, `Rotate` of one DAgger iteration in its order; `KeepFrame`, `StartLive`, `EndLive`
of Highlight; the policy loop, reset loop and decision of Episodic, where an attempt is given
up in three steps (`Rerecord`, `LowerExit`, `ClearBuffer`) with keys in between.  Keys are actions of the
keyboard thread that only raise what the code's handlers raise.

## 4. What the runs check

| Run | Question | Properties |
|---|---|---|
| `queue` | Does the queue keep its promise, in both merge modes? | `Lockstep` (the arrays and the cursor are in step, so the `RuntimeError` never happens), `ImplementsStream` (refinement), `NeverBackwards` (a step is never repeated and an older chunk never follows a newer one) |
| `engine` | R pressed at any moment, segments over a paused worker, the warmup flush; queries, task changes, failing inferences and timed-out joins throughout | `TypeOK`, `FreshQueue`, `LabelsSinceReset`, `OneWorker`, `RestartExclusive`, `NoStartAfterFailure` |
| `engine_live` | Does the robot move again after every restart, a new instruction reach it, a failure end the run, in segments too? | `RestartMovesAgain`, `TaskLands`, `FailureEndsRun` |
| `prefix` | Trained mode, for every latency and every interleaving of robot and worker, through the warmup, its flush and retried errors | `HardPrefixBacked`, `RobotInsidePrefix`, `NoRepeat`, `DiscardTeaches` |
| `history` | Live, fallback and training windows, over episodes and resets | `LiveMatchesTraining`, `SnapshotSurvives`, `FallbackMatchesTraining`, `ProgressBalanced` |
| `controller` | Any control calls, from any thread, at any moment of a segment or between two | `RequestEndsSegment`, `NoOrphan`, `SingleTurn`, `QuestionConserved`, `TaskIsTold`, `StartCurrent` |
| `controller_live` | Is every request, failure and question dealt with, and does the sequencer keep going? | `ResetHonoured`, `StopEnds`, `QuestionAnswered`, `SequencerTurns` |
| `prefix_relative` | The same as `prefix` with relative actions: *violated*, see section 8 | `HardPrefixBacked` |
| `async` | Client and server, with calls that fail, handlers that go on and inferences that raise | `NoSkip`, `BackOnlyAcrossRebuild`, `Unstarved` |
| `recording` | The four strategies, with keys at any moment, saves and pushes that fail, exceptions | `FramesKept`, `TakesApart`, `CorrectionWhole`, `Stretches`, `TailSaved`, `HubCurrent`, `PoisonHolds` |
| `start_lost` | What `start()` returns: *violated*, see section 8 | `StartKept` |
| `hub_unreadable` | What Sentry's docstring says of its background pushes: *violated*, see section 8 | `HubReadable` |

What they show in a few words:

- *A reset is a clean cut.*  `_reset_epoch` and the one critical section that clears and
  bumps are enough.  The interesting interleavings are the reads after the snapshot: a
  worker whose snapshot is of this epoch can only have read a left-over of this epoch,
  and a worker that mixed two epochs fails the comparison.
- *A restart is exclusive* only because a timed-out join raises; merely logging it would
  lose the handle and run two workers.
- *A failure is never lost*: the order `_rtc_error`, `_compile_warmup_done`, shutdown
  matters, as does the look at the failure after a segment took back its stop flag.
- *Flag first, event second, clear before check.*  This order, on which the comment at
  controller.py:393-395 relies, is what `RequestEndsSegment` and `StopEnds` rest on; so
  does the engine's failure flag, which is set before the worker's signal.
- *One slot, one lock, no lost question.*  A question is accepted, dropped or reported
  under locks that make `QuestionConserved` hold through every end of a segment.
- *The sequencer does not overrule the operator* (`TaskIsTold`) since its goal is looked
  at under the lock that also guards the instruction; and it never stalls, since a
  discarded turn takes its in-flight mark back.
- *Two conditions bound what the prefix promises.*  `RobotInsidePrefix` and `NoRepeat`
  carry the term `late`: actions executed between the measurement of the latency
  (rtc.py:532) and the merge are counted nowhere, so the robot may execute as many more
  actions of the old chunk as there are periods in between, and repeat that many steps.
  Without the term both are violated.  In the code nothing but a lock stands in between.
- *The asynchronous robot never jumps.*  A chunk is a contiguous stretch that begins at or
  before what the robot has done, whatever chunk it is and however late, and filtering it
  keeps its upper end: hence `NoSkip`.  Backwards it does go, by what it popped between the
  receiver's copy and its swap; `BackOnlyAcrossRebuild` says by no more than that.
- *An empty queue does not starve the robot* as long as nothing fails: the must-go
  observation passes every filter, and the three-step replacement in the single slot loses
  an observation only to a newer one or to a reader that is about to answer.
- *Every recorded frame is in one episode* in all four strategies, up to the first failing
  save; behind it, Sentry's latch keeps further segments and pushes away (`PoisonHolds`).
- *The Hub has everything at the end* (`HubCurrent`).  In Sentry `_needs_push` is raised
  after the save's lock was released; a push that comes in between, or lowers the flag
  later, began after the save and has the episode.  Raised any later it would not hold.
- *A highlight is one stretch of the rollout* across the flush of its ring, and the wrong
  byte count of the ring costs frames of context only, never order.
- *The fallback differs from training harmlessly*: its masked state slots hold zeros and
  not the clamped first frame; the masks agree and images agree entirely.

## 5. Bounds

All bounds are constants, and named as such where they are declared.

- Queue: four chunks of three actions, delays from 0 to beyond the chunk, two
  instructions.  Four merges include replace-after-partly-consumed,
  append-after-trim, and clear in between, twice over; three actions are the least
  with a first, an inner and a last one.
- Engine: two starts (one restart: an old worker and a new one), three resets, chunks of
  two actions, thresholds at which the refill overlaps dispatch, two failures in a row
  before giving up, two instructions.  Two workers can both be alive if anything is
  wrong; a third start brings no new pair.  A third reset lets a worker hold data older
  than the previous epoch.  The theorems of section 7 do not depend on these bounds.
- `MaxEpoch` and `MaxStarts` bound how often the *operator* asks, never what the engine
  does; `MaxDelay` bounds the delay of a merged chunk, whose effect ends at `ChunkLen`.
  `count` stops one past the warmup threshold, beyond which the code only compares it.
- `engine` runs three configurations (keyboard restart; segments with appended chunks;
  warmup of a checkpoint trained for RTC), `engine_live` four (changes of instruction in
  one run; restarts; restarts with warmup; segments), each chosen in the initial state.
  The warmup of `engine_live` is of one inference: with two it may never end
  (section 8), and `RestartMovesAgain` would fail for that reason.
  In `engine_live` delays are 0 and only one configuration has two instructions: delays
  and labels are data, on which no liveness property depends, and safety runs vary them.
- Controller: `MaxCalls` control calls (five; four in the live run and in the violation
  runs), at most `MaxQuestions` of them questions (two and one), one goal, two
  instructions (one in the live run, whose properties do not look at it).  Five calls
  are start, sequencer, stop of it, second start of it and any other; or start,
  question, reset, start, question.  One goal suffices, as a sequencer started again with
  the same goal is the hard case.  The theorems do not depend on these bounds.
- Prefix: chunks of six, a trained delay of three, inferences from 0 to 6 periods: less
  than, equal to and more than what any prefix covers; two warmup inferences, so that one
  chunk is replaced by the next before the flush (none in `prefix_relative`).  The configuration obeys what
  `rollout/context.py` demands.
- Asynchronous inference: chunks of three, a threshold of one, two handlers of each kind;
  one configuration with up to three steps and one failure (which leaves a handler running
  beside its successor), one with four steps and none, in which an old answer can follow a
  newer one.  `LastStep` bounds when the operator stops the client.  The server's test for
  similar observations may answer either way each time.
- Recording: five frames, three takes, one waiting push of the operator's, a push every two
  episodes, two episodes or corrections wanted, a correction tick out of two recorded, a
  ring of two frames or three times a frame's bytes: less than what two takes fill, so it
  overflows by number first and, as its count then goes wrong, by bytes next.  Five frames
  and three takes divide into episodes in every way the loops allow, a tail included.
- History: twelve frames in two episodes, windows of 2, 3, 5 and 8 frames with 2 to 6
  images, so deques overflow in the first episode or the second or never, and
  `cycle_image_delta_indices` takes each of its branches.

## 6. Fairness

Safety runs use `Spec`, without fairness.  Liveness runs use `FairSpec`: weak fairness
of the control thread as a whole and of each worker as a whole.  This is what the
operating system gives a runnable thread; it says only that a thread which can take a
step takes one.  It does not say which: a worker may fail at every inference
(`InferError`, `InferTooLate`), and a join may always time out, so progress is not
assumed into the model.  That a query ends is assumed: `AnswerQuery` is a step of the
worker.  Key presses, interrupts, questions and new instructions are not fair:
nobody has to type.

In `RolloutController`, `ThreadFairness` is weak fairness of the serve thread, of a call
that has begun, of the thread that owns the policy, and of the clock that makes a turn
due.  A segment need not reach its duration: `LeaveLoop` is fair only when the stop flag
is up.  A strategy or engine need not fail.  The timeout of the idle wait is fair only
when no request is up (`PollIdle`): so `ResetHonoured` holds because the request wakes
the thread, not because the wait ends anyway.  Weak fairness for steps that take the
control lock rests on `MaxCalls`: operators calling without pause could keep a Python
lock from the serve thread for ever.

In `AsyncInference`, the control loop, the receiver and each handler of `SendObservations`
are weakly fair.  A handler of `GetActions` is strongly fair: its `get` is disabled whenever
the next `SendObservations` takes the observation out of the slot again, but `put` wakes it,
and that next observation is a control period away.  Nothing that fails is fair.
`Unstarved` names what it excludes: a failed call or inference, the death of a thread by the
other's access to the queue, and a `must_go` lowered after a newer chunk had raised it.

Liveness properties of the engine are stated against the end of the run (`ctl = "done"`), as the
operator may interrupt at any time.  `RestartMovesAgain` says "on a chunk of the new
run" through `moved`, which the reset clears.  `TaskLands` needs the instruction to stay
requested.

## 7. What is proved

All proofs are checked by TLAPS, for every value of the constants that satisfies
`QueueAssumption`, `EngineAssumption`, `PrefixAssumption`, `WindowsAssumption`,
`BinsAssumption` (at least two bins, as cyclemanip.py:43 demands), `ChannelAssumption` and
`ControllerAssumption`, `AsyncAssumption`, or `RecorderAssumption`, `SentryAssumption` and
`StrategyAssumption`: any number of starts, resets, instructions, goals, calls, questions,
handlers, failures, frames, episodes and segments, any chunk length, horizon, delay,
threshold, latency, window, history length, number of bins, upload cadence, interpolation
multiplier and size of the ring, with and without RTC,
compile warmup, segments or trained mode, with either kind of engine.

| Theorem | Says |
|---|---|
| `QueueTypeCorrect`, `AlwaysLockstep` | `TypeOK` and `Lockstep` are invariant |
| `LeftOverMatches` | the prefix of the next inference is the model-space twin of exactly the actions still to be executed |
| `QueueImplementsStream` | the queue implements `ActionStream`: initial states map to initial states, and every step to a step or a stutter |
| `NeverGoesBack` | `NeverBackwards` |
| `TypeCorrect` | the types of engine, control thread and workers |
| `QueueStaysFresh` | `FreshQueue` |
| `AlwaysOneWorker`, `RestartAlone` | `OneWorker`, `RestartExclusive` |
| `LabelsStayFresh` | `LabelsSinceReset` |
| `FailedStaysDown` | `NoStartAfterFailure` |
| `TypeCorrect` (controller) | the types of serve thread, calls, worker and channel |
| `QuestionsAreConserved` | `QuestionConserved` |
| `RequestsEndSegments` | `RequestEndsSegment`: no request and no death of the worker is swallowed by a segment |
| `StartsAreCurrent` | `StartCurrent` |
| `NoOrphans` | `NoOrphan` |
| `OneTurnAtATime` | `SingleTurn` |
| `TaskStaysTold` | `TaskIsTold` |
| `RobotNeverSkips`, `RepeatsOnlyRebuilt` | `NoSkip`, `BackOnlyAcrossRebuild` |
| `FramesAreConserved`, `EpisodesOfOneTake`, `HubStaysCurrent`, `PoisonAlwaysHolds` | of Sentry's own specification: `FramesConserved`, `OneTake`, `HubCurrent`, `PoisonHolds` |
| `AnyInvHolds` | the invariant of all strategies together, types included |
| `FramesAreKept`, `TakesStayApart` | `FramesKept`, `TakesApart`, in every strategy they speak of |
| `CorrectionsStayWhole`, `EpisodesAreStretches` | DAgger's `CorrectionWhole`, Highlight's `Stretches` |
| `TailIsSaved`, `HubIsCurrent`, `PoisonHoldsForAll` | `TailSaved`, `HubCurrent`, `PoisonHolds`, in every strategy |
| `RobotStaysInside`, `NeverRepeats` | `RobotInsidePrefix`, `NoRepeat` |
| `PrefixIsBacked` | `HardPrefixBacked`, with absolute actions (with relative ones it is violated, section 8) |
| `DiscardsTeach` | `DiscardTeaches` |
| `LiveAsTrained`, `SnapshotsSurvive` | `LiveMatchesTraining`, `SnapshotSurvives`, for all windows that do not look ahead |
| `FallbackAsTrained` | `FallbackMatchesTraining`, when the states of a window reach back without a gap |
| `ProgressIsBalanced` | `ProgressBalanced` |

*The queue.*  `TypeOK` and `Lockstep` together are inductive; `ActionQueueOpsProofs`
shows once what each operator preserves, for queues of any elements, and both other
proof modules cite it.  For the refinement each action gets a lemma: `Get` is `Deliver`
(`GetDelivers`), `Clear` is `Flush`, a replacing `Merge` is `Supersede` by the end of its own chunk, an appending one
is `Extend`.  The mapping `Pending` depends on the cursor, and the lemmas are about how
`Drop`, cursor and concatenation move its indices.

`NeverBackwards` compares the action delivered with the one delivered before.  `OrderInv`
carries what that needs: labels ascend along the queue (chunk, then step), the last action
delivered lies before everything that is left, and no merged chunk is as new as the next.

*The engine's types.*  `TypeOK` is not inductive: a pop needs `InStep`, and the worker's
`queues[seenQueue[g]]` is only defined when it has passed `Top`.  `WellFormed` adds
`QueuesInStep` and `Begun` (a worker or control thread that is past a start has a queue).

*Freshness.*  `FreshQueue` says nothing of the worker that is about to merge.  The
strengthening `FreshInv` does: `SharedFresh` (observation, history and current queue are
of this epoch) and `WorkersFresh`: a worker whose `seenEpoch` is the current epoch and
whose `seenQueue` is the current queue holds data of this epoch only.  Any other worker
either fails `StillCurrent` or merges into a queue that nobody reads.  A reset makes no
worker current; a read by a current worker adds only fresh data; that is the whole
argument, and it does not need `OneWorker`.

*One worker.*  `ExclusiveInv`: the only living worker is the one in `_rtc_thread`, and
from the join of a restart to its start none is alive.  (`stop()` keeps the reference to a
worker it finds dead, rtc.py:305, so "no handle" would be too strong.)

*Failure.*  `NoStartAfterFailure` speaks of one step, and `RestartCheck` looks at the shutdown
event, not at `failed`.  `StartsUnfailed` connects them.  With the keyboard restart a failure
has reached the event, or is carried there by a worker past `Fail` (`FailureSeen`); behind the
join no worker is alive (`ExclusiveInv`), so the check finds it, and from the check to the start
none can be added.  Run segments do take the event back, but never restart.

*Labels.*  `LabelsInv` follows the task from `TakeTask` to the queue: a worker that is
current and past `TakeTask` took its task after the last clear.

*The controller.*  `ControlInv` and `ChannelInv`.  `RequestEndsSegment` speaks of moments
when no call is under way; `SignalInv` adds what holds during one (the call that raised
the flag has yet to end the segment), and `FailureInv` that a dying worker has set its
failure flag first: with both, `CheckSegment` cannot enter a segment whose stop was
swallowed.  `StartCurrent` is inductive with `RunningInv`, where the segment runs.
`SingleTurn` needs `FlightInv`: whatever is being served is marked as in flight, which
is what the poll looks at.  `TaskIsTold` needs `TurnInv`: a turn's text is a goal, hence
never equal to `None`, so that an applied turn has a sequencer.  `NoOrphan` is inductive
with `RunningInv`, since calls that queue or steer look at `running` under the lock the
end of a segment takes.

*Questions.*  `QuestionConserved` says that the four places a question may be in add up to
one.  `PlacesInv` adds that they add up to zero for a number not asked yet, so a new question
is in no place already.  `ServerInv` is needed for the claim: whoever claims a query holds none
(`q` is empty at `top` and `claim`), so none is overwritten.  The rest follows what each operator
of `QueryChannel` moves: `Gained` is about one more answer, `QuestionsKept` says that the end of
a segment drops turns only.  The controller's types come in four parts (`ServeType`,
`FlagType`, `ThreadType`, `ChannelType`); `ChannelType` needs `SequencerInv`, which bounds the
number a claimed turn carries.

*Asynchronous inference.*  `StepInv` says that no observation and no chunk, wherever on its
way, begins beyond the step after the frontier.  `GaplessInv` says that the queue, and what
is coming (the part of a chunk already kept and the part not yet looked at), has no gap
beyond the frontier, with the action in the robot's hand counted in; `NoSkip` follows.
`RepeatInv` says which steps can be repeated: whatever in the queue is not newer than
`latest_action`, or than the action in hand, is at most `behind`; while the queue is being
rebuilt, the same of what was kept and `popping`.

*Recording: the dataset.*  What a save, a failed save, a new frame and a discarded buffer do to
rows, metadata and buffer is shown once for all strategies (`SavedFields`, `FailedFields`,
`AddFrameFields`, `DiscardedFields`), and then which shapes of a dataset they keep: the
metadata tile the rows (`SavedTiled`), the frames are numbered through (`Counted`), an
episode is of one take (`Divided`).  Every step appends, so sequences are reasoned about by
index, without induction.

*Sentry.*  `CountInv` numbers rows and buffer through and has the metadata tile the rows.
`TakeInv` adds that the buffer is of the current segment and empty between segments, so that
an episode takes frames of one only.  `PushInv`:
what is being uploaded are all episodes there are, since a save waits for the lock; and an
episode the Hub does not have is owed a push, by the flag or by a strategy that is about to
raise it.  `TailInv` follows the buffer from the loop's end to `down`.

*The Hub of the others.*  A save waits for a push, so what is being uploaded are all episodes
there are; an episode the Hub does not have is owed a push, by the flag in DAgger and by the
push at the end in the other two (`HubInv`, proved once in `HubStep` for steps that save, push
or do neither).

*DAgger.*  `DaggerCount` numbers the frames as Sentry does.  `WholeInv` orders the *tagged*
frames by take: those of the correction under way are in no row, and no take has tagged frames
both in rows and in the buffer, or in two episodes.  A save during a correction would break it;
hence the conjuncts about `pc` and `phase`.  `SettledInv` says where the buffer must be empty;
when only corrections are recorded, all it holds is of the current one.

*Highlight.*  `Stretched` says that ring and buffer end with the latest frame, that one of them
is empty, and that every row was recorded before either, each episode without a gap.  A flush
then moves the ring in front of the new frame and nothing is between them.  `AppendedEnds` shows
that the ring stays such a stretch whatever its byte count makes it evict: what is kept is a
suffix, beginning at a least number (`LeastNumber`, from well-foundedness).

*Episodic.*  `Kept` says that rows and buffer ascend and have exactly the numbers recorded and
not thrown away by recording once more; `OfTake` and `Divided` that buffer and episodes are of
one attempt each; `Emptied` names the stages where the buffer has been saved or thrown away.  A
save can fail only on the way out (`Ending`), so in the loops nothing was lost.

`AnyInv` is the conjunction of the cases.  The other strategies are instances inside
`Recording`, hence the lemmas named `...Data`, `...Actions` and `...Copies`, which identify their
operators with those of the module.

*The prefix.*  `RobotInv` relates what the robot executed to the worker's clock: never more
since the read than periods that have begun, and a latency is rounded up.  A merge needs the
latency within the delay, so the robot stayed inside it.  `BackedInv` is that the delay stays
below the prefix once it was clamped; with relative actions the second read breaks just that.
`TeachInv` keeps which limit cut the delay: the checkpoint, the prefix, or the largest
latency so far; a chunk that came too late therefore tells of a larger one, or of a limit that
no latency moves.  `WarmInv` brings in the warmup: until the flush the robot executes nothing,
and no chunk merged once the engine is ready is a warmup chunk, so a chunk that is merged
unjudged is one during which the robot stood still.

*The windows.*  `Latest` says a deque holds the last frames of the episode in order, as many
as there are or as it has room for; `PushedIsLatest` shows that an append keeps this.
`SlotsMatch` then compares live window and training window slot by slot: the room, one more
than the largest offset, suffices for every slot (`RoomSuffices`, from the existence of a
least entry), and clamping to the oldest frame held is clamping to the episode's first
whenever the deque is not full.  `FallbackAsTrained` needs state windows without gaps, as
`cycle_state_delta_indices` makes them, because the fallback counts slots instead of offsets.
`SnapshotInv` adds that a snapshot refers to copies, which no later frame changes.

*The progress labels.*  `First(bin)` is the first frame of a bin, the quotient rounded up.
A label is at least `bin` exactly from there on (`LabelAtLeast`), so a bin's frames are an
interval and its size a difference of two `First`; `Shares` says that two successive ones are
the share of the frames apart or one more.

Only model-checked, not proved: what rests on fairness, `RestartMovesAgain`,
`FailureEndsRun`, `TaskLands`, `ResetHonoured`, `StopEnds`, `QuestionAnswered`,
`SequencerTurns` and `Unstarved`, as `ENABLED` and induction over progress are beyond the
prover's reach.

## 8. Where the code departs from its documentation

With relative actions, `_rtc_loop` clamps the delay to the length of the left-over it
read first (rtc.py:465, 479), but then conditions the policy on a *second* read of the
queue (rtc.py:511), after the preprocessor, during which the control thread may have
executed some of those actions.  The second left-over may be shorter than the delay, and
`_normalize_prev_actions_length` fills it up with zeros inside the hard prefix, which is
what the docstring of `_clamp_trained_rtc_delay` (rtc.py:146-153) says the clamp is there
to prevent.  Run `prefix_relative` reaches the state.

*A start may be lost* (run `start_lost`).  `serve()` looks for a reset (controller.py:360)
and then for a start (364), without the lock.  If `reset()` and then `start()` are called
in between, both flags are up: the start is consumed, `_run_segment` sees the reset and
returns, the robot goes home, and no start is left.  `start()` returned `True`, "the
segment was scheduled" (controller.py:231-232), and the controller promises that calls
issued in order keep that order (135-136).  Without this interleaving the reset is
carried out first and the start afterwards.

*The Hub may be left with files nobody can read* (run `hub_unreadable`).  Sentry's background
push uploads parquet files that have no footer yet, since nothing finalizes them before
(lerobot_dataset.py:619-694), and lowers `_needs_push` (sentry.py:322).  If no episode
follows, `teardown()` finalizes (275) and then does not push (278).  sentry.py:154-157 says
the pusher "only ever touches *finalised* episode artifacts on disk"; lerobot_dataset.py:535
says that without the footer "the dataset will be invalid".

The following are stated in the modules, are violated by what the code does, and have no run
of their own.

*A warmup may never end* (`ReadyWithActions` in `RTCEngine`).  The worker makes an inference
only while the queue holds at most `queue_threshold` actions (rtc.py:461), a warmup inference
like any other; until `ready`, the control loop takes none (core.py:143-145).  With two warmup
inferences (the default, configs.py:348), blending off, and a chunk longer than the threshold
(default 30, factory.py:74), the queue stays full behind the first one: the engine holds
actions and is never ready, against inference/base.py:485 ("True once the backend can produce
actions"), and the robot does not move.  With blending it takes warmup latencies so short that
more than the threshold is left of the merged chunk.  Under `FairSpec` with `RTC = FALSE`,
`UseCompile = TRUE`, `WarmupRequired = 2`, `ChunkLen = 2` and `Threshold = 1`, TLC finds the
cycle in which the worker finds the queue full for ever.

*A subtask may be announced after its segment* (`NoLateAnnouncement` in
`RolloutController`).  `_service_query` applies a subtask and publishes it in two critical
sections (base.py:351, 355).  If the segment ends in between, `drop_ready_subtask_answers`
has nothing to drop, and the idle pump announces the subtask of a sequencer that has
stopped, which base.py:429-430 and controller.py:423 say cannot be.

*A turn may serve another sequencer* (`TurnsOwnSequencer`).  `_apply_subtask` and
`_fail_subtask` compare the goal's text (base.py:389, 365).  Stopped and started again
with the same goal while a turn is being generated, the new sequencer gets the old turn,
or is stopped by its failure; base.py:361-362 says it is stopped "only if it is still the
one that requested this turn".

*A must-go may not go through* (`MustGoHonoured` in `AsyncInference`).  The server marks a
timestep as predicted before the inference (policy_server.py:229) and the client lowers
`must_go` whether or not the observation arrived (robot_client.py:450).  If the inference
fails, or a call is lost, the next observations of the same timestep are filtered out and
none of them is a must-go: the robot waits until something else changes.  The comment at
robot_client.py:440 says the observation must go through processing.

*Rows no metadata knows may be uploaded* (`NoOrphanPushed` in `SentryRecording`).  A failed
save releases the lock before `_dataset_poisoned` is set (sentry.py:207-210), and a push
queued earlier may run in between; sentry.py:78-80 says the latch is there to prevent that.

Smaller things the models contain as the code has them:

- The control loop of the asynchronous client dies of `queue.Empty` if an empty queue is
  swapped in between its look and its `get_nowait` (robot_client.py:374, 391), and the
  receiver of `RuntimeError` if the deque is popped while it iterates over it (252; only
  `RpcError` is caught, 371).  With chunks of one action the client never gets past its first.
- `_enqueue_observation`, which "never blocks" by its comment (policy_server.py:306-307),
  blocks when two handlers found room, and `get_nowait` raises when `GetActions` was faster.
- A DAgger episode that rotates during a pause longer than an episode, and an Episodic
  attempt cut short by a key press left over from the one before, save an empty buffer: the
  save raises and the run ends.  In Sentry it poisons the dataset.  DAgger has no latch, and
  looks at its phase only when a push is submitted (dagger.py:787), not when it runs.
- A frame evicted by the ring's own length is not subtracted from its byte count
  (ring_buffer.py:69), so a ring long in use keeps fewer frames than it could.
- `VideoEncodingManager` finalizes without `_episode_lock` while a push may run; an
  exception of the final push leaves `teardown()` before the hardware is disconnected.

## 9. What is not modelled

- The numerical content of policies, processors and interpolation.  An inference is an
  arbitrary moment and one of three outcomes.
- In the engine: `get_action` before `start()`; the guided (not trained) mode's soft
  prefix; the interpolator, whose ticks between two actions repeat a dispatch without
  looking at the queue; exceptions out of the strategy's own code; the latency of the
  `sleep`s.
- What `policy.reset()` does to an inference that is running.  `RestartExclusive` shows
  that a restart never meets one.  A segment or a warmup flush does (rtc.py:333 holds no
  lock), and what then happens inside the policy depends on the policy.
- Of the controller: which events are emitted, apart from answers; the robot's way to its
  reset pose, which is one step; an exception out of `reset_control_state`; the warmup's
  ticks.  `supports_text_queries` is taken as true, as without it calls are refused.
- The scene a question is answered from.  A worker that looked at its observation just
  before a segment ended may claim the next segment's question and answer it from there
  (rtc.py:429-446); no observation carries its segment in `RolloutController`.
- Float rounding in `cycle_progress_targets`: the arithmetic here is exact.
- Of asynchronous inference: the handshake, reconnecting, and `stop()` of the client beyond
  leaving the loops; the values of actions, hence the aggregate functions; the choice between
  similar and different observations, which is an input.
- Of recording: the contents of frames, image writers, video encoding and statistics (a
  save fails or not, in one of three places); the robot and teleoperator DAgger moves.
  `dataset.push_to_hub` is true: without it the final push is skipped, while background
  pushes are not.
- `save_episode`'s batch encoding of videos, resuming of a dataset, and its chunking into
  files: `EpisodeDataset` has one file.
- The synchronous engine's precomputed actions, the interpolator, input listeners, camera
  threads, the RL queues: planned above.
- Training, networks, processors and data transforms (most of this repository's lines: the
  policies' and vendored models' tensors, optimizers, configuration classes, command-line
  tools, dataset conversion) are numerical or sequential code without state that order or
  timing could spoil; TLA+ has nothing to say about them that a unit test does not say better.
  That is why the mapped lines are a small part of the repository's.  Robots,
  teleoperators and motors are I/O behind `get_observation` and `send_action`.
