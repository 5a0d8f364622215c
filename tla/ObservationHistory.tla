-------------------------- MODULE ObservationHistory --------------------------
(***************************************************************************)
(* The temporal observation windows of a live CycleManip policy, and the   *)
(* windows the dataset reader builds when it is trained:                   *)
(*   - ObservationHistory (rollout/inference/observation_history.py), fed  *)
(*     by the control thread and read by the inference thread, both under  *)
(*     the engine's observation lock;                                      *)
(*   - the policy's own fallback for callers that supply single frames     *)
(*     (_prepare_cycle_batch, policies/smolvla/modeling_smolvla.py);       *)
(*   - the reader, DatasetReader._get_query_indices                        *)
(*     (datasets/dataset_reader.py).                                       *)
(*                                                                         *)
(* An array is an address: n is a private copy of the n-th frame, Camera   *)
(* is the buffer the camera backend overwrites with every frame.           *)
(***************************************************************************)
EXTENDS Integers, Sequences, FiniteSetsExt

CONSTANTS
  Windows,      \* the windows a policy may be configured with, by key
  MaxFrames,    \* bound: control ticks in all
  MaxEpisodes   \* bound: episodes

Key == {"state", "image"}

Entries(s) == {s[i] : i \in DOMAIN s}

\* Windows look at the current frame and back, never ahead.
ASSUME WindowsAssumption ==
  /\ Windows \subseteq [Key -> Seq(Int) \ {<<>>}]
  /\ \A w \in Windows, key \in Key : \A offset \in Entries(w[key]) : offset <= 0
  /\ {MaxFrames, MaxEpisodes} \subseteq Nat

Camera == 0
Zeros == -1     \* an array nobody has written

VARIABLES
  offsets,    \* the configured windows: state_offsets and image_offsets
  episode,    \* the episode the robot is in
  recorded,   \* every frame of every episode so far, <<episode, tick>>
  start,      \* frames recorded before the current episode
  frames,     \* ObservationHistory._frames, by key
  fallback,   \* _cycle_state_history and _cycle_image_history, by key
  snap,       \* the snapshot the inference thread holds, NoSnapshot for none
  due         \* history variable: what the snapshot has to show

vars == <<offsets, episode, recorded, start, frames, fallback, snap, due>>

NoSnapshot == <<>>

Init ==
  /\ offsets \in Windows
  /\ episode = 1 /\ recorded = <<>> /\ start = 0
  /\ frames = [key \in Key |-> <<>>] /\ fallback = [key \in Key |-> <<>>]
  /\ snap = NoSnapshot /\ due = NoSnapshot

\* The content of an array.
Content(a) == IF a = Camera THEN recorded[Len(recorded)] ELSE recorded[a]

-----------------------------------------------------------------------------
(* The live windows.                                                       *)

\* Fault: one frame too few is kept.
Pushed_Short(queue, offs, a) ==
  LET maxlen == Max({1, -Min(Entries(offs))})
  IN  IF Len(queue) < maxlen THEN Append(queue, a) ELSE Append(Tail(queue), a)

\* queue.append on a deque(maxlen=1 - min(offsets)).
Pushed(queue, offs, a) ==
  LET maxlen == 1 - Min(Entries(offs))
  IN  IF Len(queue) < maxlen THEN Append(queue, a) ELSE Append(Tail(queue), a)

\* snapshot(): the slot of each offset, clamped to the oldest frame, and
\* whether it is padding.
Snapshot(queue, offs) ==
  LET Index(i) == Len(queue) - 1 + offs[i]
  IN  [i \in DOMAIN offs |->
         [array |-> queue[Max({0, Index(i)}) + 1], is_pad |-> Index(i) < 0]]

\* _prepare_cycle_batch, images: clamped and masked slot by slot.
FallbackImages(queue, offs) ==
  LET Index(slot) == Len(queue) - 1 + offs[slot]
  IN  [slot \in DOMAIN offs |->
         [array |-> queue[Max({0, Index(slot)}) + 1], is_pad |-> Index(slot) < 0]]

\* Fault: padding at the wrong end.
FallbackState_Right(queue, offs) ==
  [slot \in DOMAIN offs |->
     IF slot > Len(queue) THEN [array |-> Zeros, is_pad |-> TRUE]
                          ELSE [array |-> queue[slot], is_pad |-> FALSE]]

\* _prepare_cycle_batch, states: the frames there are, behind zeros.
FallbackState(queue, offs) ==
  LET missing == Len(offs) - Len(queue)
  IN  [slot \in DOMAIN offs |->
         IF slot <= missing THEN [array |-> Zeros, is_pad |-> TRUE]
                            ELSE [array |-> queue[slot - missing], is_pad |-> FALSE]]

\* What the arrays of a window show.
Shown(window) ==
  [i \in DOMAIN window |->
     [frame  |-> IF window[i].array = Zeros THEN Zeros ELSE Content(window[i].array),
      is_pad |-> window[i].is_pad]]

-----------------------------------------------------------------------------
(* The training windows: the item at the current frame of the current      *)
(* episode, read from the dataset of all frames recorded so far.           *)

Training(offs) ==
  LET ep_start == start
      ep_end   == Len(recorded)
      abs_idx  == Len(recorded) - 1
  IN  [i \in DOMAIN offs |->
         [frame  |-> recorded[Max({ep_start, Min({ep_end - 1, abs_idx + offs[i]})}) + 1],
          is_pad |-> \/ abs_idx + offs[i] < ep_start
                     \/ abs_idx + offs[i] >= ep_end]]

-----------------------------------------------------------------------------
\* Fault: the camera's own buffer is kept.
Copied_Alias(n) == Camera

\* value.copy(), of the frame the camera just delivered.
Copied(n) == n

\* A control tick: the camera overwrites its buffer with the next frame and
\* both histories append a copy of it.
Observe ==
  /\ Len(recorded) < MaxFrames
  /\ recorded' = Append(recorded, <<episode, Len(recorded) - start + 1>>)
  /\ frames' = [key \in Key |-> Pushed(frames[key], offsets[key], Copied(Len(recorded')))]
  /\ fallback' = [key \in Key |-> Pushed(fallback[key], offsets[key], Len(recorded'))]
  /\ UNCHANGED <<offsets, episode, start, snap, due>>

\* The inference thread freezes the windows, to stack their arrays later.
TakeSnapshot ==
  /\ Len(recorded) > start
  /\ snap' = [key \in Key |-> Snapshot(frames[key], offsets[key])]
  /\ due' = [key \in Key |-> Training(offsets[key])]
  /\ UNCHANGED <<offsets, episode, recorded, start, frames, fallback>>

\* engine.reset(): policy.reset() and ObservationHistory.clear().
Reset ==
  /\ Len(recorded) > start /\ episode < MaxEpisodes
  /\ episode' = episode + 1
  /\ start' = Len(recorded)
  /\ frames' = [key \in Key |-> <<>>] /\ fallback' = [key \in Key |-> <<>>]
  /\ UNCHANGED <<offsets, recorded, snap, due>>

\* The last tick of the last episode was observed.
Finished == Len(recorded) = MaxFrames /\ UNCHANGED vars

Next == Observe \/ TakeSnapshot \/ Reset \/ Finished

Spec == Init /\ [][Next]_vars
-----------------------------------------------------------------------------
TypeOK ==
  /\ offsets \in Windows
  /\ episode \in Nat /\ start \in 0..Len(recorded)
  /\ recorded \in Seq(Nat \X Nat)
  /\ frames \in [Key -> Seq(0..Len(recorded))]
  /\ fallback \in [Key -> Seq(0..Len(recorded))]

\* At every tick of every episode the live policy sees exactly what it was
\* trained on there: the same frames in the same slots, clamped to the same
\* episode start, with the same padding mask (observation_history.py:44), for
\* every configured window, before, at and after the tick the deque fills up.
LiveMatchesTraining ==
  Len(recorded) > start =>
    \A key \in Key :
      Shown(Snapshot(frames[key], offsets[key])) = Training(offsets[key])

\* A snapshot that is stacked outside the lock still shows what it showed when
\* it was taken, whatever the camera overwrites, the control thread appends or
\* a reset clears meanwhile (observation_history.py:40 and :56).
SnapshotSurvives ==
  snap # NoSnapshot => \A key \in Key : Shown(snap[key]) = due[key]

\* The policy's own windows agree with training too: images entirely
\* (modeling_smolvla.py:560); states in the mask and in every slot that is not
\* masked, while the masked slots hold zeros instead of the first frame.
FallbackMatchesTraining ==
  Len(recorded) > start =>
    /\ Shown(FallbackImages(fallback["image"], offsets["image"])) = Training(offsets["image"])
    /\ LET shown == Shown(FallbackState(fallback["state"], offsets["state"]))
           due_now == Training(offsets["state"])
       IN  \A i \in DOMAIN due_now :
             /\ shown[i].is_pad = due_now[i].is_pad
             /\ ~shown[i].is_pad => shown[i].frame = due_now[i].frame
=============================================================================
