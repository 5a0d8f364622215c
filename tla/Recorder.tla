------------------------------- MODULE Recorder -------------------------------
(***************************************************************************)
(* What the recording strategies share: the dataset, the single-worker     *)
(* executor that pushes it to the Hub in the background, the final push of *)
(* teardown(), and the properties of the recording.  Each strategy extends *)
(* this module with its own control loop, whose place is pc.               *)
(*                                                                         *)
(* _episode_lock is held by a push for as long as it uploads and by a save *)
(* for one step here, so it is free when nothing is being uploaded.        *)
(***************************************************************************)
EXTENDS EpisodeDataset

CONSTANTS
  MaxFrames,   \* frames recorded in all (bound)
  MaxTakes,    \* takes: segments, attempts, corrections, highlights (bound)
  MaxQueued,   \* pushes the operator asks for before one begins (bound)
  None

ASSUME RecorderAssumption == {MaxFrames, MaxTakes, MaxQueued} \subseteq Nat

VARIABLES
  data,        \* the dataset on disk, and the buffer of the episode under way
  hub,         \* what the Hub has: the contents of the last upload
  queued,      \* pushes submitted to the executor and not begun
  uploading,   \* what the push under way uploads, None without one
  needsPush,   \* _needs_push
  pc,          \* where the thread of the strategy is
  frames,      \* frames recorded so far
  take,        \* number of the segment, attempt, correction or highlight under way
  discarded    \* numbers of the frames the operator threw away

recorderVars == <<data, hub, queued, uploading, needsPush, pc, frames, take, discarded>>
hubVars == <<hub, queued, uploading>>
takeVars == <<frames, take, discarded>>

RecorderInit ==
  /\ data = NewDataset
  /\ hub = Contents(NewDataset)
  /\ queued = 0
  /\ uploading = None
  /\ needsPush = FALSE
  /\ frames = 0
  /\ take = 0
  /\ discarded = {}

NextFrame == [n |-> frames + 1, take |-> take]

CountFrame == frames < MaxFrames /\ frames' = frames + 1

\* dataset.add_frame() with the frame of this tick.
RecordFrame == CountFrame /\ data' = AddFrame(data, NextFrame) /\ UNCHANGED <<take, discarded>>

LockFree == uploading = None

\* dataset.save_episode() under the lock.
SaveEpisode == LockFree /\ HasPending(data) /\ data' = Saved(data)

SaveRaises == LockFree /\ data' \in Failed(data)

SubmitPush == queued' = queued + 1
------------------------------------------------------------------------------
(* The thread of the executor. *)

\* Fault: what is known of the dataset is looked at only when the push is submitted.
BeginPush_Unchecked(refused) ==
  /\ queued > 0 /\ LockFree
  /\ queued' = queued - 1
  /\ uploading' = IF data.episodes = <<>> THEN None ELSE Contents(data)
  /\ UNCHANGED <<data, hub, needsPush, pc, takeVars>>

\* The task takes the lock; it does nothing when refused or when no episode is saved.
BeginPush(refused) ==
  /\ queued > 0 /\ LockFree
  /\ queued' = queued - 1
  /\ uploading' = IF refused \/ data.episodes = <<>> THEN None ELSE Contents(data)
  /\ UNCHANGED <<data, hub, needsPush, pc, takeVars>>

\* finalize() is not under the lock and may run during the upload: with it or without it.
Uploaded == {uploading, [uploading EXCEPT !.open = @ /\ data.open]}

EndPush ==
  /\ uploading # None
  /\ hub' \in Uploaded
  /\ uploading' = None
  /\ needsPush' = FALSE
  /\ UNCHANGED <<data, queued, pc, takeVars>>

FailPush ==
  /\ uploading # None
  /\ uploading' = None
  /\ UNCHANGED <<data, hub, queued, needsPush, pc, takeVars>>
------------------------------------------------------------------------------
(* teardown() *)

\* executor.shutdown(wait=True), then finalize().
Close ==
  /\ pc = "closing"
  /\ queued = 0 /\ uploading = None
  /\ data' = Finalized(data)
  /\ pc' = "final"
  /\ UNCHANGED <<hubVars, needsPush, takeVars>>

\* The final push; its exception would leave teardown().
FinalPush(wanted) ==
  /\ pc = "final"
  /\ IF wanted /\ data.episodes # <<>>
     THEN \/ hub' = Contents(data) /\ pc' = "down"
          \/ UNCHANGED hub         /\ pc' = "raised"
     ELSE UNCHANGED hub /\ pc' = "down"
  /\ UNCHANGED <<data, queued, uploading, needsPush, takeVars>>

Over == pc \in {"down", "raised"} /\ UNCHANGED recorderVars
------------------------------------------------------------------------------
(* Properties of every strategy. *)

Numbers(s) == [i \in 1..Len(s) |-> s[i].n]

\* The metadata divides the rows into episodes, without a gap and without an overlap.
Tiled(d) ==
  /\ \A e \in 1..Len(d.episodes) :
       /\ d.episodes[e].from = IF e = 1 THEN 0 ELSE d.episodes[e - 1].to
       /\ d.episodes[e].from <= d.episodes[e].to
  /\ TotalFrames(d) = Len(d.rows)

\* The frames recorded and not thrown away, each once and in order.
AreKept(numbers) ==
  /\ \A i, j \in DOMAIN numbers : i < j => numbers[i] < numbers[j]
  /\ {numbers[i] : i \in DOMAIN numbers} = (1..frames) \ discarded

Episodes(d) == [e \in 1..Len(d.episodes) |-> Episode(d, e)]

TakesOf(s) == {s[i].take : i \in DOMAIN s}

NoOrphans(d) == TotalFrames(d) = Len(d.rows)
=============================================================================
