---------------------------- MODULE RTCPrefixProofs ----------------------------
(***************************************************************************)
(* Theorems about RTCPrefix, for chunks and horizons of any length, any    *)
(* trained delay and threshold, and inferences that take any time.         *)
(*                                                                         *)
(* WarmInv says that the robot stands still while inferences warm up;      *)
(* RobotInv relates what the robot executed to the clock of the worker;    *)
(* BackedInv relates the delay to the prefix it is a part of; TeachInv     *)
(* says which of the three limits a delay was cut to.                      *)
(***************************************************************************)
EXTENDS RTCPrefix, TLAPS

LEMMA Constants ==
  /\ Relative \in BOOLEAN /\ ChunkLen \in Nat /\ MaxDiscards \in Nat
  /\ TrainingMax \in Nat /\ TrainingMax > 0 /\ Horizon \in Nat /\ TrainingMax <= Horizon
  /\ Warmup \in Nat
BY PrefixAssumption

LEMMA MaxOfTwo ==
  ASSUME NEW a \in Int, NEW b \in Int
  PROVE  /\ Max({a, b}) \in {a, b} /\ Max({a, b}) >= a /\ Max({a, b}) >= b
<1>1. \E x \in {a, b} : \A y \in {a, b} : x >= y
  <2>1. CASE a >= b
    BY <2>1
  <2>2. CASE b >= a
    BY <2>2
  <2> QED BY <2>1, <2>2
<1> QED BY <1>1 DEF Max

LEMMA MinOfTwo ==
  ASSUME NEW a \in Int, NEW b \in Int
  PROVE  /\ Min({a, b}) \in {a, b} /\ Min({a, b}) <= a /\ Min({a, b}) <= b
<1>1. \E x \in {a, b} : \A y \in {a, b} : x <= y
  <2>1. CASE a <= b
    BY <2>1
  <2>2. CASE b <= a
    BY <2>2
  <2> QED BY <2>1, <2>2
<1> QED BY <1>1 DEF Min

LEMMA MinOfThree ==
  ASSUME NEW a \in Int, NEW b \in Int, NEW c \in Int
  PROVE  /\ Min({a, b, c}) \in {a, b, c}
         /\ Min({a, b, c}) <= a /\ Min({a, b, c}) <= b /\ Min({a, b, c}) <= c
<1>1. \E x \in {a, b, c} : \A y \in {a, b, c} : x <= y
  <2>1. CASE a <= b /\ a <= c
    BY <2>1
  <2>2. CASE b <= a /\ b <= c
    BY <2>2
  <2>3. CASE c <= a /\ c <= b
    BY <2>3
  <2> QED BY <2>1, <2>2, <2>3
<1> QED BY <1>1 DEF Min

-----------------------------------------------------------------------------
(* What the helpers return.                                                *)

\* The committed part of the prefix is as long as the queue, up to the horizon.
LEMMA NormalizedBounds ==
  ASSUME NEW n \in Nat
  PROVE  /\ Normalized(n) \in 0..Horizon /\ Normalized(n) <= n
         /\ Normalized(n) = n \/ Normalized(n) = Horizon
<1>1. Horizon \in Int /\ n \in Int
  BY Constants
<1>2. /\ Min({n, Horizon}) \in {n, Horizon} /\ Min({n, Horizon}) <= n
      /\ Min({n, Horizon}) <= Horizon
  BY ONLY <1>1, MinOfTwo
<1> QED BY <1>1, <1>2, Constants DEF Normalized

\* The delay is backed by the checkpoint and the queue, and one of them, or the estimate, is
\* what it was cut to.
LEMMA ClampedBounds ==
  ASSUME NEW n \in Nat, TypeOK
  PROVE  LET d == Clamped(Estimate(n > 0), n)
         IN  /\ d \in 0..TrainingMax /\ d <= n
             /\ n > 0 => d = TrainingMax \/ d = n \/ (worst # 0 /\ d = worst)
<1> DEFINE e == Estimate(n > 0)
           d == Clamped(e, n)
<1>1. worst \in Nat
  BY DEF TypeOK
<1>2. /\ e \in Nat /\ (e = 0 => n = 0)
      /\ n > 0 => e = TrainingMax \/ (worst # 0 /\ e = worst)
  BY <1>1, Constants DEF Estimate
<1>3. CASE e = 0
  <2>1. d = 0
    BY <1>3 DEF Clamped
  <2> QED BY <1>2, <1>3, <2>1, Constants
<1>4. CASE e > 0
  <2> HIDE DEF e
  <2>1. d = Min({e, TrainingMax, n})
    BY <1>4 DEF Clamped
  <2>2. e \in Int /\ TrainingMax \in Int /\ n \in Int
    BY <1>2, Constants
  <2>3. LET m == Min({e, TrainingMax, n})
        IN  m \in {e, TrainingMax, n} /\ m <= e /\ m <= TrainingMax /\ m <= n
    BY ONLY <2>2, MinOfThree
  <2>4. d \in 0..TrainingMax /\ d <= n
    BY <1>2, <2>1, <2>2, <2>3, Constants
  <2>5. n > 0 => d = TrainingMax \/ d = n \/ (worst # 0 /\ d = worst)
    BY <1>2, <2>1, <2>3
  <2> QED BY <2>4, <2>5 DEF e
<1> QED BY <1>2, <1>3, <1>4

\* A latency covers every period that has begun.
LEMMA MeasuredCovers ==
  ASSUME TypeOK, NEW m \in Measured PROVE m \in Nat /\ elapsed <= m
<1>1. elapsed \in Nat
  BY DEF TypeOK
<1>2. Max({elapsed, 1}) \in Nat /\ elapsed <= Max({elapsed, 1})
  BY <1>1, MaxOfTwo
<1> QED BY <1>1, <1>2 DEF Measured

-----------------------------------------------------------------------------
LEMMA InitTyped == Init => TypeOK
<1> SUFFICES ASSUME Init PROVE TypeOK
  OBVIOUS
<1>1. 0 \in 0..ChunkLen /\ 0 \in 0..Horizon /\ 0 \in 0..TrainingMax
  BY Constants
<1> QED BY <1>1 DEF Init, TypeOK

LEMMA StepTyped == TypeOK /\ [Next]_vars => TypeOK'
<1> SUFFICES ASSUME TypeOK, [Next]_vars PROVE TypeOK'
  OBVIOUS
<1> USE Constants DEF TypeOK, local, warmup
<1>1. CASE QueueFull \/ ReadClock \/ InferError
  BY <1>1 DEF QueueFull, ReadClock, InferError
<1>9. CASE Snapshot
  <2>1. stale' \in BOOLEAN
    BY Zenon, <1>9 DEF Snapshot
  <2> QED BY <1>9, <2>1 DEF Snapshot
<1>10. CASE FinishWarmup
  <2>1. ready' \in BOOLEAN
    BY Zenon, <1>10 DEF FinishWarmup
  <2> QED BY <1>10, <2>1 DEF FinishWarmup
<1>2. CASE ReadPrefix
  BY <1>2, NormalizedBounds, ClampedBounds DEF ReadPrefix
<1>3. CASE Reanchor
  BY <1>3, NormalizedBounds DEF Reanchor
<1>4. CASE Infer
  <2>1. measured' \in Nat
    BY <1>4, MeasuredCovers DEF Infer
  <2>2. Max({worst, measured'}) \in Nat
    <3>1. worst \in Int /\ measured' \in Int /\ worst \in Nat
      BY <2>1
    <3> QED BY ONLY <2>1, <3>1, MaxOfTwo
  <2>3. worst' \in Nat
    BY <1>4, <2>2 DEF Infer
  <2>4. count' \in Nat
    BY <1>4 DEF Infer
  <2>5. discards' \in Nat /\ pc' \in {"merge", "failed", "idle"}
    BY <1>4 DEF Infer
  <2>6. UNCHANGED <<left, elapsed, since, prefix, hadPrev, delay, ready, flushed, stale>> /\ late' = 0
    BY <1>4 DEF Infer
  <2> QED BY <2>1, <2>3, <2>4, <2>5, <2>6
<1>5. CASE Merge
  <2>1. Min({measured, ChunkLen}) \in 0..ChunkLen
    <3>1. measured \in Nat /\ ChunkLen \in Nat
      OBVIOUS
    <3> QED BY ONLY <3>1, MinOfTwo
  <2> QED BY <1>5, <2>1 DEF Merge
<1>6. CASE Flush
  BY <1>6 DEF Flush
<1>7. CASE Tick
  BY <1>7 DEF Tick
<1>8. CASE UNCHANGED vars
  BY <1>8 DEF vars
<1> QED BY <1>1, <1>2, <1>3, <1>4, <1>5, <1>6, <1>7, <1>8, <1>9, <1>10 DEF Next

\* The variables of the refill have their types, whatever the queue held and however long
\* inferences take.
THEOREM TypeCorrect == Spec => []TypeOK
<1> QED BY InitTyped, StepTyped, PTL DEF Spec

-----------------------------------------------------------------------------
(* The warmup.                                                             *)

\* The engine gets ready with the merge of its last warmup chunk, and before
\* that the robot executes nothing.
WarmInv ==
  /\ flushed => ready
  /\ ready => count >= Warmup
  /\ pc = "merge" /\ ready => ~IsWarmup(count)
  /\ ~flushed => since = 0 /\ late = 0

LEMMA InitWarm == Init => WarmInv
<1> SUFFICES ASSUME Init PROVE WarmInv
  OBVIOUS
<1>1. (flushed => ready) /\ pc # "merge" /\ since = 0 /\ late = 0
  BY DEF Init
<1>2. ready => Warmup = 0
  BY Zenon DEF Init
<1>3. count = 0
  BY DEF Init
<1> QED BY <1>1, <1>2, <1>3, Constants DEF WarmInv

LEMMA StepWarm == TypeOK /\ WarmInv /\ [Next]_vars => WarmInv'
<1> SUFFICES ASSUME TypeOK, WarmInv, [Next]_vars PROVE WarmInv'
  OBVIOUS
<1> USE Constants DEF TypeOK, WarmInv, IsWarmup, local, warmup
<1>1. CASE Snapshot \/ QueueFull \/ ReadClock \/ ReadPrefix \/ Reanchor \/ InferError \/ Merge
  BY <1>1 DEF Snapshot, QueueFull, ReadClock, ReadPrefix, Reanchor, InferError, Merge
<1>2. CASE Infer
  BY <1>2 DEF Infer
<1>3. CASE FinishWarmup
  BY <1>3 DEF FinishWarmup
<1>4. CASE Flush
  BY <1>4 DEF Flush
<1>5. CASE Tick
  BY <1>5 DEF Tick
<1>6. CASE UNCHANGED vars
  BY <1>6 DEF vars
<1> QED BY <1>1, <1>2, <1>3, <1>4, <1>5, <1>6 DEF Next

-----------------------------------------------------------------------------
(* The robot against the chunk.                                            *)

\* The robot executes no more actions than periods begin, and a chunk is only merged when its
\* delay, or the lack of a prefix, covers the latency, or when it is a warmup chunk.
RobotInv ==
  /\ pc \in {"anchor", "infer"} => since <= elapsed
  /\ pc = "merge" => since <= measured + late
  /\ pc = "merge" /\ hadPrev /\ ~IsWarmup(count) => measured <= delay

LEMMA InitRobot == Init => RobotInv
BY DEF Init, RobotInv

LEMMA StepRobot == TypeOK /\ RobotInv /\ [Next]_vars => RobotInv'
<1> SUFFICES ASSUME TypeOK, RobotInv, [Next]_vars PROVE RobotInv'
  OBVIOUS
<1> USE DEF TypeOK, RobotInv, local, warmup, IsWarmup
<1>1. CASE Snapshot \/ QueueFull \/ ReadClock \/ ReadPrefix \/ Reanchor \/ InferError
  BY <1>1 DEF Snapshot, QueueFull, ReadClock, ReadPrefix, Reanchor, InferError
<1>2. CASE Infer
  <2>1. PICK m \in Nat : measured' = m /\ elapsed <= m
    <3>1. measured' \in Measured
      BY <1>2 DEF Infer
    <3> QED BY <3>1, MeasuredCovers
  <2>2. pc = "infer" /\ late' = 0 /\ since' = since
    BY <1>2 DEF Infer
  <2>3. pc' \in {"merge", "failed", "idle"}
    BY <1>2 DEF Infer
  <2>4. pc' = "merge" /\ hadPrev' /\ ~IsWarmup(count)' => measured' <= delay'
    BY <1>2 DEF Infer, CanMerge
  <2>5. since' <= measured' + late'
    BY <2>1, <2>2
  <2> QED BY <2>3, <2>4, <2>5
<1>3. CASE Merge \/ FinishWarmup \/ Flush
  BY <1>3 DEF Merge, FinishWarmup, Flush
<1>4. CASE Tick
  BY <1>4 DEF Tick, Resting
<1>5. CASE UNCHANGED vars
  BY <1>5 DEF vars
<1> QED BY <1>1, <1>2, <1>3, <1>4, <1>5 DEF Next

\* While a merged chunk was computed the robot executed nothing beyond its hard prefix, but for
\* what it executed after the measurement; in a warmup chunk it executed nothing at all.
THEOREM RobotStaysInside == Spec => []RobotInsidePrefix
<1>1. TypeOK /\ WarmInv /\ RobotInv => RobotInsidePrefix
  <2> SUFFICES ASSUME TypeOK, WarmInv, RobotInv, pc = "merge", hadPrev
               PROVE  since <= delay + late
    BY DEF RobotInsidePrefix
  <2> USE Constants DEF TypeOK
  <2>1. CASE IsWarmup(count)
    <3>1. since = 0 /\ late = 0
      BY <2>1 DEF WarmInv
    <3> QED BY <3>1
  <2>2. CASE ~IsWarmup(count)
    BY <2>2 DEF RobotInv
  <2> QED BY <2>1, <2>2
<1> QED BY <1>1, InitTyped, StepTyped, InitWarm, StepWarm, InitRobot, StepRobot, PTL DEF Spec

\* A merge drops at least what the robot executed before the measurement.
THEOREM NeverRepeats == Spec => []NoRepeat
<1>1. RobotInv => NoRepeat
  BY DEF RobotInv, NoRepeat
<1> QED BY <1>1, InitTyped, StepTyped, InitRobot, StepRobot, PTL DEF Spec

-----------------------------------------------------------------------------
(* The prefix against the delay.                                           *)

BackedInv == pc \in {"anchor", "infer", "merge"} => delay <= prefix

LEMMA InitBacked == Init => BackedInv
BY DEF Init, BackedInv

LEMMA StepBacked == ~Relative /\ TypeOK /\ BackedInv /\ [Next]_vars => BackedInv'
<1> SUFFICES ASSUME ~Relative, TypeOK, BackedInv, [Next]_vars PROVE BackedInv'
  OBVIOUS
<1> USE Constants DEF TypeOK, BackedInv, local, warmup
<1>1. CASE ReadPrefix
  BY <1>1, NormalizedBounds, ClampedBounds DEF ReadPrefix
<1>2. CASE Reanchor
  BY <1>2 DEF Reanchor
<1>3. CASE Snapshot \/ QueueFull \/ ReadClock \/ InferError \/ Merge \/ FinishWarmup
  BY <1>3 DEF Snapshot, QueueFull, ReadClock, InferError, Merge, FinishWarmup
<1>4. CASE Flush \/ Tick
  BY <1>4 DEF Flush, Tick
<1>5. CASE Infer
  BY <1>5 DEF Infer
<1>6. CASE UNCHANGED vars
  BY <1>6 DEF vars
<1> QED BY <1>1, <1>2, <1>3, <1>4, <1>5, <1>6 DEF Next

\* With absolute actions the policy is never told that a padding zero is a committed action,
\* nor conditioned on more than the checkpoint was trained for.
THEOREM PrefixIsBacked == ~Relative => (Spec => []HardPrefixBacked)
<1> SUFFICES ASSUME ~Relative PROVE Spec => []HardPrefixBacked
  OBVIOUS
<1>1. TypeOK /\ BackedInv => HardPrefixBacked
  BY Constants DEF TypeOK, BackedInv, HardPrefixBacked
<1>2. TypeOK /\ BackedInv /\ [Next]_vars => BackedInv'
  BY StepBacked
<1> QED BY <1>1, <1>2, InitTyped, StepTyped, InitBacked, PTL DEF Spec

-----------------------------------------------------------------------------
(* What a discarded chunk teaches.                                         *)

\* With a prefix, the delay is the worst latency, or all the checkpoint or the queue can back;
\* the queue only shrinks until a second read.
TeachInv ==
  /\ pc \in {"anchor", "infer"} /\ hadPrev =>
       delay >= TrainingMax \/ delay >= prefix \/ delay = worst
  /\ pc = "anchor" => left <= prefix \/ prefix = Horizon

LEMMA InitTeach == Init => TeachInv
BY DEF Init, TeachInv

LEMMA StepTeach == TypeOK /\ TeachInv /\ [Next]_vars => TeachInv'
<1> SUFFICES ASSUME TypeOK, TeachInv, [Next]_vars PROVE TeachInv'
  OBVIOUS
<1> USE Constants DEF TypeOK, TeachInv, local, warmup
<1>1. CASE ReadPrefix
  BY <1>1, NormalizedBounds, ClampedBounds DEF ReadPrefix
<1>2. CASE Reanchor
  <2>1. CASE Relative /\ left > 0
    <3>1. prefix' <= prefix /\ prefix' \in Nat
      BY <1>2, <2>1, NormalizedBounds DEF Reanchor
    <3> QED BY <1>2, <2>1, <3>1 DEF Reanchor
  <2> QED BY <1>2, <2>1 DEF Reanchor
<1>3. CASE Snapshot \/ QueueFull \/ ReadClock \/ InferError \/ Merge \/ FinishWarmup
  BY <1>3 DEF Snapshot, QueueFull, ReadClock, InferError, Merge, FinishWarmup
<1>4. CASE Flush \/ Tick
  BY <1>4 DEF Flush, Tick
<1>5. CASE Infer
  BY <1>5 DEF Infer
<1>6. CASE UNCHANGED vars
  BY <1>6 DEF vars
<1> QED BY <1>1, <1>2, <1>3, <1>4, <1>5, <1>6 DEF Next

\* A chunk is discarded only for a latency worse than all before, or one no prefix can cover:
\* retrying with what was learnt makes progress.
THEOREM DiscardsTeach == Spec => DiscardTeaches
<1>1. TypeOK /\ TypeOK' /\ TeachInv /\ [Next]_vars =>
        [discards' > discards =>
           measured' > worst \/ measured' > TrainingMax \/ measured' > prefix]_vars
  <2> SUFFICES ASSUME TypeOK, TypeOK', TeachInv, Next, discards' > discards
               PROVE  measured' > worst \/ measured' > TrainingMax \/ measured' > prefix
    OBVIOUS
  <2> USE Constants DEF TypeOK, TeachInv
  <2>1. Infer
    BY DEF Next, Snapshot, QueueFull, ReadClock, ReadPrefix, Reanchor, InferError, Merge,
           FinishWarmup, Flush, Tick, local
  <2>2. hadPrev /\ (measured' > TrainingMax \/ measured' > delay)
    BY <2>1 DEF Infer, CanMerge
  <2> QED BY <2>1, <2>2 DEF Infer
<1> QED BY <1>1, InitTyped, StepTyped, InitTeach, StepTeach, PTL DEF Spec, DiscardTeaches
=============================================================================
