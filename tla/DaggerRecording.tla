--------------------------- MODULE DaggerRecording ---------------------------
(***************************************************************************)
(* DAggerStrategy (rollout/strategies/dagger.py): the policy drives, the   *)
(* operator pauses it and corrects.  Corrections are recorded, each an     *)
(* episode of its own; or, when Continuous, everything is, in episodes     *)
(* rotated by the clock.  The keys arrive in a thread of their own, which  *)
(* leaves a requested transition for the loop to consume.                  *)
(***************************************************************************)
EXTENDS Recorder

CONSTANTS
  Continuous,    \* record_autonomous
  UploadEvery,   \* upload_every_n_episodes (Continuous)
  NumEpisodes,   \* num_episodes (otherwise)
  Stride         \* interpolation multiplier: a correction records every Stride-th tick

VARIABLES
  phase,         \* DAggerEvents._phase
  pending,       \* DAggerEvents._pending_transition
  asked,         \* DAggerEvents.upload_requested
  tick,          \* correction_tick, modulo Stride
  sincePush,     \* episodes_since_push
  recorded,      \* episodes saved by corrections
  human          \* numbers of the frames tagged as an intervention

daggerVars == <<phase, pending, asked, tick, sincePush, recorded, human>>
vars == <<recorderVars, daggerVars>>

Key == {"pause_resume", "correction"}

\* _DAGGER_TRANSITIONS
Transition ==
  [move \in {<<"autonomous", "pause_resume">>, <<"paused", "pause_resume">>,
             <<"paused", "correction">>, <<"correcting", "correction">>} |->
     CASE move = <<"paused", "pause_resume">> -> "autonomous"
       [] move = <<"paused", "correction">>   -> "correcting"
       [] OTHER                               -> "paused"]

Init ==
  /\ RecorderInit
  /\ pc = "top"
  /\ phase = "autonomous" /\ pending = None /\ asked = FALSE
  /\ tick = 0 /\ sincePush = 0 /\ recorded = 0 /\ human = {}
------------------------------------------------------------------------------
(* The thread of the keyboard or pedal. *)

Valid(key) == <<phase, key>> \in DOMAIN Transition

\* request_transition(): the last valid request stands.
Request(key) ==
  /\ pc \notin {"closing", "final", "down", "raised"}
  /\ Valid(key) /\ (phase = "paused" /\ key = "correction" => take < MaxTakes)
  /\ pending' = key
  /\ UNCHANGED <<recorderVars, phase, asked, tick, sincePush, recorded, human>>

AskUpload ==
  /\ pc \notin {"closing", "final", "down", "raised"} /\ ~Continuous /\ queued < MaxQueued
  /\ asked' = TRUE
  /\ UNCHANGED <<recorderVars, phase, pending, tick, sincePush, recorded, human>>
------------------------------------------------------------------------------
(* The control loop. *)

\* The loop ends, at its top or by an exception: of a transition being applied ("ended",
\* "upload"), of the operator's upload, of the robot or of the policy.
Leave ==
  /\ pc \in {"top", "ended", "upload", "act"} /\ pc' = "finally"
  /\ UNCHANGED <<data, hubVars, needsPush, takeVars, daggerVars>>

\* Enough corrections are recorded.
MoreWanted == Continuous \/ recorded < NumEpisodes

\* consume_transition(), the bookkeeping of the loop behind it, and where it goes on: to save a
\* correction that has ended, or to the requested uploads.
Consume ==
  /\ pc = "top" /\ MoreWanted
  /\ pending' = None
  /\ LET key == <<phase, pending>>
         new == IF key \in DOMAIN Transition THEN Transition[key] ELSE phase
     IN /\ phase' = new
        /\ IF new = "correcting" /\ phase # new
           THEN tick' = 0 /\ take' = take + 1
           ELSE UNCHANGED <<tick, take>>
        /\ pc' = IF ~Continuous /\ phase = "correcting" /\ new = "paused" THEN "ended" ELSE "upload"
  /\ UNCHANGED <<data, hubVars, needsPush, frames, discarded, asked, sincePush, recorded, human>>

\* A correction has ended: corrections only.
SaveCorrection ==
  /\ pc = "ended"
  /\ \/ SaveEpisode /\ pc' = "saved" /\ recorded' = recorded + 1
     \/ SaveRaises  /\ pc' = "finally" /\ UNCHANGED recorded
  /\ UNCHANGED <<hubVars, needsPush, takeVars, phase, pending, asked, tick, sincePush, human>>

MayPush == phase # "correcting"

\* _background_push()
BackgroundPush == IF MayPush THEN SubmitPush ELSE UNCHANGED queued

\* The rest of an iteration after a saved episode.
Register ==
  /\ pc = "saved"
  /\ needsPush' = TRUE
  /\ IF Continuous
     THEN /\ pc' = "top"
          /\ IF sincePush + 1 < UploadEvery
             THEN sincePush' = sincePush + 1 /\ UNCHANGED queued
             ELSE sincePush' = 0 /\ BackgroundPush
     ELSE pc' = "upload" /\ UNCHANGED <<sincePush, queued>>
  /\ UNCHANGED <<data, hub, uploading, takeVars, phase, pending, asked, tick, recorded, human>>

\* The upload the operator asked for.
Upload ==
  /\ pc = "upload" /\ pc' = "act"
  /\ IF asked THEN BackgroundPush ELSE UNCHANGED queued
  /\ asked' = FALSE
  /\ UNCHANGED <<data, hub, uploading, needsPush, takeVars, phase, pending, tick, sincePush,
                 recorded, human>>

Rotating == IF Continuous THEN "rotate" ELSE "top"

\* The operator drives.
Correct ==
  /\ pc = "act" /\ phase = "correcting" /\ pc' = Rotating
  /\ tick' = (tick + 1) % Stride
  /\ IF tick = 0
     THEN RecordFrame /\ human' = human \union {frames + 1}
     ELSE UNCHANGED <<data, takeVars, human>>
  /\ UNCHANGED <<hubVars, needsPush, phase, pending, asked, sincePush, recorded>>

\* The robot holds its position, or the policy drives; the compile warmup skips the rest.
Drive ==
  /\ pc = "act" /\ phase # "correcting"
  /\ \/ pc' = Rotating /\ UNCHANGED <<data, takeVars>>
     \/ phase = "autonomous" /\ pc' = "top" /\ UNCHANGED <<data, takeVars>>
     \/ phase = "autonomous" /\ Continuous /\ pc' = Rotating /\ RecordFrame
  /\ UNCHANGED <<hubVars, needsPush, daggerVars>>

\* Fault: the episode is rotated in any phase.
MayRotate_Always == TRUE

MayRotate == phase # "correcting"

\* The episode's time may be over.
Rotate ==
  /\ pc = "rotate"
  /\ \/ pc' = "top" /\ UNCHANGED data
     \/ MayRotate /\ SaveEpisode /\ pc' = "saved"
     \/ MayRotate /\ SaveRaises  /\ pc' = "finally"
  /\ UNCHANGED <<hubVars, needsPush, takeVars, daggerVars>>

\* The finally clause: every exception of save_episode() is suppressed.
SaveTail ==
  /\ pc = "finally"
  /\ \/ SaveEpisode /\ pc' = "owing"
     \/ SaveRaises  /\ pc' = "exit"
  /\ UNCHANGED <<hubVars, needsPush, takeVars, daggerVars>>

\* _needs_push is set when the lock is free again.
RegisterTail ==
  /\ pc = "owing" /\ pc' = "exit"
  /\ needsPush' = TRUE
  /\ UNCHANGED <<data, hubVars, takeVars, daggerVars>>

\* VideoEncodingManager finalizes the dataset, without the lock.
Exit ==
  /\ pc = "exit" /\ pc' = "closing"
  /\ data' = Finalized(data)
  /\ UNCHANGED <<hubVars, needsPush, takeVars, daggerVars>>
------------------------------------------------------------------------------
Loop ==
  \/ Leave \/ Consume \/ SaveCorrection \/ Register \/ Upload \/ Correct \/ Drive \/ Rotate
  \/ SaveTail \/ RegisterTail \/ Exit
  \/ (Close \/ FinalPush(needsPush)) /\ UNCHANGED daggerVars

Executor == (BeginPush(FALSE) \/ EndPush \/ FailPush) /\ UNCHANGED daggerVars

Input == AskUpload \/ \E key \in Key : Request(key)

Next == Loop \/ Executor \/ Input \/ (Over /\ UNCHANGED daggerVars)

Spec == Init /\ [][Next]_vars
------------------------------------------------------------------------------
(* Properties *)

Unbroken == data.sized

\* As long as no save has failed, no recorded frame is lost, doubled or given to another
\* episode: see SentryRecording.
FramesConserved ==
  Unbroken => Tiled(data) /\ Numbers(data.rows \o data.buffer) = [i \in 1..frames |-> i]

HumanTakes(s) == {s[i].take : i \in {j \in DOMAIN s : s[j].n \in human}}

\* A correction is never divided between two episodes (dagger.py: "Saving is deferred while a
\* correction is ongoing"), and without autonomous frames an episode is one correction.
CorrectionWhole ==
  LET all == Append(Episodes(data), data.buffer) IN
  Unbroken =>
    /\ \A i, j \in DOMAIN all : HumanTakes(all[i]) \intersect HumanTakes(all[j]) # {} => i = j
    /\ ~Continuous => \A i \in DOMAIN all : Cardinality(TakesOf(all[i])) <= 1
=============================================================================
