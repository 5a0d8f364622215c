------------------------------ MODULE RTCPrefix ------------------------------
(***************************************************************************)
(* How one RTC inference lines up with the actions the robot executes      *)
(* meanwhile (the refill branch of _rtc_loop, rollout/inference/rtc.py, in *)
(* "trained" mode).  The worker reads the clock, then the left-over of the *)
(* queue, conditions the policy on its first `delay` actions as a hard     *)
(* prefix, and drops as many steps of the new chunk as periods elapsed.    *)
(* The control thread executes an action per period all the while.  With   *)
(* torch.compile it first waits for a few inferences that only warm up,    *)
(* and then clears the queue (_handle_warmup, strategies/core.py).         *)
(*                                                                         *)
(* Only the number of actions matters here, so the queue is its length.    *)
(* Time is counted in control periods: a latency that spans k period       *)
(* boundaries measures, rounded up, as k or k + 1 periods, and at least 1. *)
(***************************************************************************)
EXTENDS Integers, FiniteSetsExt

CONSTANTS
  Relative,       \* relative actions: the prefix is re-anchored
  ChunkLen,       \* actions in one chunk
  Horizon,        \* execution_horizon
  TrainingMax,    \* rtc_training_max_delay
  Threshold,      \* rtc_queue_threshold
  MaxDiscards,    \* _RTC_MAX_CONSECUTIVE_DISCARDS
  Warmup,         \* warmup_required, 0 without torch.compile
  MaxElapsed      \* bound: periods one inference takes

\* What rollout/context.py:114-138 demands of a trained-mode configuration.
ASSUME PrefixAssumption ==
  /\ Relative \in BOOLEAN
  /\ {ChunkLen, TrainingMax, MaxDiscards} \subseteq Nat \ {0}
  /\ {Horizon, Threshold, Warmup, MaxElapsed} \subseteq Nat
  /\ TrainingMax <= Horizon /\ TrainingMax <= Threshold
  /\ Horizon <= ChunkLen - TrainingMax

VARIABLES
  left,       \* actions left in the queue
  pc,         \* where the worker is
  elapsed,    \* period boundaries since the worker read the clock
  since,      \* actions executed since it read the prefix it uses
  late,       \* actions executed since it measured its latency
  prefix,     \* committed actions in the prefix, the rest of it is zeros
  hadPrev,    \* has_previous_actions
  delay,      \* inference_delay the policy is conditioned on
  measured,   \* new_delay
  worst,      \* ceil(latency_tracker.max() / time_per_chunk), 0 when empty
  discards,   \* consecutive_discards
  count,      \* inference_count, up to one past the warmup
  ready,      \* _compile_warmup_done
  flushed,    \* _warmup_flushed, or nothing to flush: the robot moves
  stale       \* the epoch has changed since the snapshot

local  == <<prefix, hadPrev, delay, measured, worst, discards, count>>
warmup == <<ready, flushed, stale>>
vars   == <<left, pc, elapsed, since, late, local, warmup>>

Init ==
  /\ left = 0 /\ pc = "idle" /\ elapsed = 0 /\ since = 0 /\ late = 0
  /\ prefix = 0 /\ hadPrev = FALSE /\ delay = 0 /\ measured = 0 /\ worst = 0 /\ discards = 0
  /\ count = 0 /\ ready = (Warmup = 0) /\ flushed = (Warmup = 0) /\ stale = FALSE

-----------------------------------------------------------------------------
\* Fault: the latency is rounded down.
Estimate_Floor(has_previous) == IF worst # 0 THEN worst - 1 ELSE IF has_previous THEN TrainingMax ELSE 0

\* _estimate_rtc_delay: the worst latency seen, or the capacity to begin with.
Estimate(has_previous) ==
  IF worst # 0 THEN worst ELSE IF has_previous THEN TrainingMax ELSE 0

\* Fault: only what the checkpoint supports counts.
Clamped_Checkpoint(wanted, available) == Min({wanted, TrainingMax})

\* _clamp_trained_rtc_delay: what the checkpoint and the queue can back.
Clamped(wanted, available) ==
  IF wanted > 0 THEN Min({wanted, TrainingMax, available}) ELSE wanted

\* _normalize_prev_actions_length: cut at the horizon, zeros after the end.
Normalized(steps) == Min({steps, Horizon})

\* Fault: only the checkpoint's range is checked, not this chunk's prefix.
CanMerge_Range(d) == ~hadPrev \/ d <= TrainingMax

\* _trained_rtc_chunk_can_merge
CanMerge(d) == ~hadPrev \/ (d <= TrainingMax /\ d <= delay)

\* Fault: the latency is rounded down to whole periods.
Measured_Floor == {elapsed, Max({elapsed - 1, 0})}

\* math.ceil(new_latency / time_per_chunk)
Measured == {Max({elapsed, 1}), elapsed + 1}

-----------------------------------------------------------------------------
\* Observation and epoch, the latter to notice a reset by.
Snapshot ==
  /\ pc = "idle"
  /\ stale' = FALSE
  /\ pc' = "refill"
  /\ UNCHANGED <<left, elapsed, since, late, local, ready, flushed>>

\* Enough actions left: sleep and start over.
QueueFull ==
  /\ pc = "refill" /\ left > Threshold
  /\ pc' = "idle"
  /\ UNCHANGED <<left, elapsed, since, late, local, warmup>>

\* The queue is low: note the time, before anything is read of it.
ReadClock ==
  /\ pc = "refill" /\ left <= Threshold
  /\ elapsed' = 0
  /\ pc' = "prefix"
  /\ UNCHANGED <<left, since, late, local, warmup>>

\* get_left_over, and the delay worked out from what it returned.
ReadPrefix ==
  /\ pc = "prefix"
  /\ since' = 0
  /\ hadPrev' = (left > 0)
  /\ delay' = Clamped(Estimate(left > 0), left)
  /\ prefix' = Normalized(left)
  /\ pc' = "anchor"
  /\ UNCHANGED <<left, elapsed, late, measured, worst, discards, count, warmup>>

\* After preprocessing: a relative-action policy gets the prefix re-anchored
\* from a second read of the queue, unless that is empty by now.
Reanchor ==
  /\ pc = "anchor"
  /\ IF Relative /\ left > 0
     THEN prefix' = Normalized(left) /\ since' = 0
     ELSE UNCHANGED <<prefix, since>>
  /\ pc' = "infer"
  /\ UNCHANGED <<left, elapsed, late, hadPrev, delay, measured, worst, discards, count, warmup>>

\* The n-th inference only warms up.
IsWarmup(n) == n <= Warmup

\* The chunk is there: measure, update the tracker, and judge the chunk.  A
\* warmup chunk and the first one, which had no prefix, say nothing about the
\* latency, and a warmup chunk is not judged.
Infer ==
  /\ pc = "infer"
  /\ count' = IF IsWarmup(count) THEN count + 1 ELSE count
  /\ measured' \in Measured
  /\ worst' = IF hadPrev /\ ~IsWarmup(count') THEN Max({worst, measured'}) ELSE 0
  /\ late' = 0
  /\ IF IsWarmup(count') \/ CanMerge(measured')
     THEN discards' = 0 /\ pc' = "merge"
     ELSE /\ discards' = discards + 1
          /\ pc' = IF discards' >= MaxDiscards THEN "failed" ELSE "idle"
  /\ UNCHANGED <<left, elapsed, since, prefix, hadPrev, delay, warmup>>

\* Anything raised before that: retry, or give up when it was one error too
\* many in a row (RTCEngine counts them).
InferError ==
  /\ pc \in {"prefix", "anchor", "infer"}
  /\ pc' \in {"idle", "failed"}
  /\ UNCHANGED <<left, elapsed, since, late, local, warmup>>

\* queue.merge, unless a reset came in between: the steps that elapsed are
\* dropped from the new chunk.
Merge ==
  /\ pc = "merge"
  /\ left' = IF stale THEN left ELSE ChunkLen - Min({measured, ChunkLen})
  /\ pc' = "merged"
  /\ UNCHANGED <<elapsed, since, late, local, warmup>>

\* The last warmup inference opens the gate for the control loop.
FinishWarmup ==
  /\ pc = "merged"
  /\ ready' = (ready \/ (IsWarmup(count) /\ count >= Warmup))
  /\ pc' = "idle"
  /\ UNCHANGED <<left, elapsed, since, late, local, flushed, stale>>

\* _handle_warmup, once the engine is ready: reset() clears the queue and
\* changes the epoch, and the robot may move.
Flush ==
  /\ ready /\ ~flushed
  /\ left' = 0
  /\ flushed' = TRUE /\ stale' = TRUE
  /\ UNCHANGED <<pc, elapsed, since, late, local, ready>>

\* The worker is not measuring a latency.
Resting == pc \in {"idle", "refill", "merged", "failed"}

\* One period of the control loop: the robot executes an action if it has one
\* and the warmup is over.
Tick ==
  /\ Resting \/ elapsed < MaxElapsed
  /\ elapsed' = IF Resting THEN 0 ELSE elapsed + 1
  /\ IF flushed /\ left > 0
     THEN /\ left' = left - 1
          /\ since' = IF pc \in {"anchor", "infer", "merge"} THEN since + 1 ELSE since
          /\ late' = IF pc = "merge" THEN late + 1 ELSE late
     ELSE UNCHANGED <<left, since, late>>
  /\ UNCHANGED <<pc, local, warmup>>

Next ==
  \/ Snapshot \/ QueueFull \/ ReadClock \/ ReadPrefix \/ Reanchor
  \/ Infer \/ InferError \/ Merge \/ FinishWarmup \/ Flush \/ Tick

Spec == Init /\ [][Next]_vars
-----------------------------------------------------------------------------
TypeOK ==
  /\ left \in 0..ChunkLen /\ prefix \in 0..Horizon /\ delay \in 0..TrainingMax
  /\ pc \in {"idle", "refill", "prefix", "anchor", "infer", "merge", "merged", "failed"}
  /\ elapsed \in Nat /\ since \in Nat /\ late \in Nat
  /\ measured \in Nat /\ worst \in Nat /\ discards \in Nat
  /\ count \in Nat
  /\ {hadPrev, ready, flushed, stale} \subseteq BOOLEAN

\* The policy is never told that a padding zero is a committed action: the
\* clamp keeps the hard prefix to "what both the checkpoint and the queue can
\* back" (rtc.py:146-153).
HardPrefixBacked == pc \in {"infer", "merge"} => delay <= prefix /\ delay <= TrainingMax

\* While a merged chunk was computed the robot executed only actions the chunk
\* was conditioned on, except for what it executes between the measurement and
\* the merge: it never runs past the hard prefix into actions the new chunk
\* contradicts.
RobotInsidePrefix == pc = "merge" /\ hadPrev => since <= delay + late

\* A merge never makes the robot repeat what it executed before the latency was
\* measured.
NoRepeat == pc = "merge" => since <= measured + late

\* Retrying with the updated latency makes progress: a chunk is discarded only
\* for a latency worse than all seen before, or one no prefix can cover.
DiscardTeaches ==
  [][discards' > discards =>
       measured' > worst \/ measured' > TrainingMax \/ measured' > prefix]_vars
=============================================================================
