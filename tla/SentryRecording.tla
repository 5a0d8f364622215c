--------------------------- MODULE SentryRecording ---------------------------
(***************************************************************************)
(* SentryStrategy (rollout/strategies/sentry.py): every frame of every run *)
(* segment is recorded, episodes are rotated by the clock, what is left at *)
(* the end of a segment is saved as its tail, and the dataset is pushed    *)
(* after UploadEvery episodes.  A save that fails may leave rows no        *)
(* metadata knows; it poisons the dataset.                                 *)
(***************************************************************************)
EXTENDS Recorder

CONSTANT UploadEvery   \* upload_every_n_episodes

ASSUME SentryAssumption == UploadEvery \in Nat \ {0}

VARIABLES
  tail,        \* the save under way is the one of run()'s finally clause
  sincePush,   \* _episodes_since_push
  poisoned     \* _dataset_poisoned

sentryVars == <<tail, sincePush, poisoned>>
vars == <<recorderVars, sentryVars>>

Init ==
  /\ RecorderInit
  /\ pc = "idle"
  /\ tail = FALSE
  /\ sincePush = 0
  /\ poisoned = FALSE
------------------------------------------------------------------------------
(* The thread of the strategy. *)

\* run(), which refuses a poisoned dataset.
BeginSegment ==
  /\ pc = "idle" /\ ~poisoned /\ take < MaxTakes
  /\ pc' = "loop" /\ take' = take + 1 /\ tail' = FALSE
  /\ UNCHANGED <<data, hubVars, needsPush, frames, discarded, sincePush, poisoned>>

\* A tick that records a frame.
Tick == pc = "loop" /\ RecordFrame /\ UNCHANGED <<hubVars, needsPush, pc, sentryVars>>

\* The episode's time is over; nothing asks whether it has a frame.
Rotate ==
  /\ pc = "loop"
  /\ \/ SaveEpisode /\ pc' = "saved"
     \/ SaveRaises  /\ pc' = "failed"
  /\ UNCHANGED <<hubVars, needsPush, takeVars, sentryVars>>

\* The duration, a shutdown or an exception ends the loop.
LeaveLoop ==
  /\ pc = "loop" /\ pc' = "finally" /\ tail' = TRUE
  /\ UNCHANGED <<data, hubVars, needsPush, takeVars, sincePush, poisoned>>

\* Fault: the tail is left for the next segment to save.
SaveTail_Left ==
  /\ pc = "finally" /\ pc' = "idle"
  /\ UNCHANGED <<data, hubVars, needsPush, takeVars, sentryVars>>

SaveTail ==
  /\ pc = "finally"
  /\ \/ ~HasPending(data) /\ pc' = "idle" /\ UNCHANGED data
     \/ SaveEpisode /\ pc' = "saved"
     \/ HasPending(data) /\ SaveRaises /\ pc' = "failed"
  /\ UNCHANGED <<hubVars, needsPush, takeVars, sentryVars>>

\* The except clause, which runs after the lock was released; the finally clause of run()
\* then finds the dataset poisoned.
Poison ==
  /\ pc = "failed" /\ pc' = "idle"
  /\ poisoned' = TRUE
  /\ data' = Discarded(data)
  /\ UNCHANGED <<hubVars, needsPush, takeVars, tail, sincePush>>

\* Fault: a push is owed from the first episode the upload cadence counts.
SetNeedsPush_Late ==
  /\ pc = "saved" /\ pc' = "counting"
  /\ needsPush' = (sincePush + 1 >= UploadEvery)
  /\ UNCHANGED <<data, hubVars, takeVars, sentryVars>>

SetNeedsPush ==
  /\ pc = "saved" /\ pc' = "counting"
  /\ needsPush' = TRUE
  /\ UNCHANGED <<data, hubVars, takeVars, sentryVars>>

\* _register_saved_episode() counts the episode; _background_push() refuses a poisoned dataset.
CountEpisode ==
  /\ pc = "counting" /\ pc' = IF tail THEN "idle" ELSE "loop"
  /\ IF sincePush + 1 < UploadEvery
     THEN sincePush' = sincePush + 1 /\ UNCHANGED queued
     ELSE sincePush' = 0 /\ IF poisoned THEN UNCHANGED queued ELSE SubmitPush
  /\ UNCHANGED <<data, hub, uploading, needsPush, takeVars, tail, poisoned>>

Teardown ==
  /\ pc = "idle" /\ pc' = "closing"
  /\ UNCHANGED <<data, hubVars, needsPush, takeVars, sentryVars>>
------------------------------------------------------------------------------
Strategy ==
  \/ BeginSegment \/ Tick \/ Rotate \/ LeaveLoop \/ SaveTail \/ Poison
  \/ SetNeedsPush \/ CountEpisode \/ Teardown
  \/ Close /\ UNCHANGED sentryVars
  \/ FinalPush(needsPush /\ ~poisoned) /\ UNCHANGED sentryVars

Executor == (BeginPush(poisoned) \/ EndPush \/ FailPush) /\ UNCHANGED sentryVars

Next == Strategy \/ Executor \/ (Over /\ UNCHANGED sentryVars)

Spec == Init /\ [][Next]_vars
------------------------------------------------------------------------------
(* Properties *)

Frame == [n : Nat, take : Nat]

Interval == [from : Nat, to : Nat]

TypeOK ==
  /\ data \in [buffer : Seq(Frame), sized : BOOLEAN, rows : Seq(Frame),
               episodes : Seq(Interval), open : BOOLEAN]
  /\ pc \in {"idle", "loop", "finally", "saved", "failed", "counting", "closing", "final",
             "down", "raised"}
  /\ queued \in Nat /\ sincePush \in Nat /\ frames \in Nat /\ take \in Nat
  /\ needsPush \in BOOLEAN /\ tail \in BOOLEAN /\ poisoned \in BOOLEAN

Unbroken == data.sized /\ ~poisoned

\* As long as no save has failed, the metadata divides the rows into episodes and the rows,
\* with the episode under way, are the frames recorded so far, each once and in order.
FramesConserved ==
  Unbroken => Tiled(data) /\ Numbers(data.rows \o data.buffer) = [i \in 1..frames |-> i]

\* An episode holds frames of one segment only, so no episode joins what was recorded
\* before and after a reset of the robot.
OneTake == Unbroken => \A e \in DOMAIN data.episodes : Cardinality(TakesOf(Episode(data, e))) = 1

\* No upload begins once a failed save has poisoned the dataset, pushes that were queued
\* before it included.
NoUploadIfPoisoned ==
  poisoned => uploading' \in {uploading, None} /\ (uploading = None => hub' = hub)

PoisonHolds == [][NoUploadIfPoisoned]_vars

\* At the end of the program the Hub has every episode, whatever the order of saves,
\* background pushes and failing pushes, unless the final push itself failed.
HubCurrent == pc = "down" /\ Unbroken => hub.episodes = data.episodes

\* Rows unknown to the metadata are never uploaded (sentry.py: "recording more into it or
\* pushing it would grow/upload corruption. Hence the poison latch").
NoOrphanPushed == NoOrphans(hub)

\* What is on the Hub at the end can be read (sentry.py: "the background pusher only ever
\* touches *finalised* episode artifacts on disk").
HubReadable == pc = "down" /\ ~poisoned => ~hub.open
=============================================================================
