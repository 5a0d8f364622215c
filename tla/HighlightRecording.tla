-------------------------- MODULE HighlightRecording --------------------------
(***************************************************************************)
(* HighlightStrategy (rollout/strategies/highlight.py): frames go into a   *)
(* ring buffer (rollout/ring_buffer.py) until the operator presses the     *)
(* save key; the ring is then flushed into an episode, recorded live until *)
(* the key is pressed again.  Keys only raise flags the loop reads.        *)
(***************************************************************************)
EXTENDS Recorder, SequencesExt

CONSTANTS
  RingFrames,   \* RolloutRingBuffer._max_frames
  RingBytes,    \* RolloutRingBuffer._max_bytes
  FrameBytes    \* bytes of a frame

VARIABLES
  ring,         \* RolloutRingBuffer: [buffer, bytes]
  asked,        \* _save_requested
  pushAsked,    \* _push_requested
  live,         \* _recording_live
  shutdown      \* the shutdown event, raised by ESC

highlightVars == <<ring, asked, pushAsked, live, shutdown>>
vars == <<recorderVars, highlightVars>>
------------------------------------------------------------------------------
(* RolloutRingBuffer *)

EmptyRing == [buffer |-> <<>>, bytes |-> 0]

\* append() evicts the oldest frames until the new one fits into the memory; the deque evicts
\* one more when it is at its length, which nothing subtracts from the byte count.
Appended(r, f) ==
  LET fits(k) == r.bytes - k * FrameBytes + FrameBytes <= RingBytes \/ k = Len(r.buffer)
      k       == CHOOSE i \in 0..Len(r.buffer) : fits(i) /\ \A j \in 0..i - 1 : ~fits(j)
      kept    == Append(SubSeq(r.buffer, k + 1, Len(r.buffer)), f)
  IN [buffer |-> IF Len(kept) > RingFrames THEN Tail(kept) ELSE kept,
      bytes  |-> r.bytes - k * FrameBytes + FrameBytes]
------------------------------------------------------------------------------
Init ==
  /\ RecorderInit
  /\ pc = "loop"
  /\ ring = EmptyRing
  /\ asked = FALSE /\ pushAsked = FALSE /\ live = FALSE /\ shutdown = FALSE

Listening == pc \notin {"final", "closing", "down", "raised"}

\* The keys.
PressSave ==
  /\ Listening
  /\ asked' = TRUE
  /\ UNCHANGED <<recorderVars, ring, pushAsked, live, shutdown>>

PressPush ==
  /\ Listening /\ queued < MaxQueued
  /\ pushAsked' = TRUE
  /\ UNCHANGED <<recorderVars, ring, asked, live, shutdown>>

PressEsc ==
  /\ Listening
  /\ asked' = FALSE /\ shutdown' = TRUE
  /\ UNCHANGED <<recorderVars, ring, pushAsked, live>>
------------------------------------------------------------------------------
(* The control loop. *)

\* A tick that has an action; it submits a requested push first.
Look ==
  /\ pc = "loop" /\ ~shutdown
  /\ pc' = "frame"
  /\ IF pushAsked THEN SubmitPush ELSE UNCHANGED queued
  /\ pushAsked' = FALSE
  /\ UNCHANGED <<data, hub, uploading, needsPush, takeVars, ring, asked, live, shutdown>>

\* The action was interpolated: no frame.
NoFrame ==
  /\ pc = "frame" /\ pc' = "loop"
  /\ UNCHANGED <<data, hubVars, needsPush, takeVars, highlightVars>>

\* No save was requested: the frame goes to the episode or to the ring.
KeepFrame ==
  /\ pc = "frame" /\ ~asked /\ pc' = "loop"
  /\ CountFrame
  /\ IF live
     THEN data' = AddFrame(data, NextFrame) /\ UNCHANGED ring
     ELSE ring' = Appended(ring, NextFrame) /\ UNCHANGED data
  /\ UNCHANGED <<hubVars, needsPush, take, discarded, asked, pushAsked, live, shutdown>>

\* Fault: drain() leaves the frames in the ring.
Drained_Kept == ring

Drained == EmptyRing

\* A save was requested: the ring is flushed and live recording starts with this frame.
StartLive ==
  /\ pc = "frame" /\ asked /\ ~live /\ pc' = "loop"
  /\ CountFrame
  /\ data' = AddFrame([data EXCEPT !.buffer = @ \o ring.buffer], NextFrame)
  /\ ring' = Drained
  /\ asked' = FALSE /\ live' = TRUE
  /\ take' = take + 1
  /\ UNCHANGED <<hubVars, needsPush, discarded, pushAsked, shutdown>>

\* A save was requested while recording: this frame is the last of the episode.
EndLive ==
  /\ pc = "frame" /\ asked /\ live /\ pc' = "saving"
  /\ RecordFrame
  /\ asked' = FALSE
  /\ UNCHANGED <<hubVars, needsPush, ring, pushAsked, live, shutdown>>

SaveLive ==
  /\ pc = "saving"
  /\ \/ SaveEpisode /\ pc' = "loop" /\ live' = FALSE
     \/ SaveRaises /\ pc' = "finally" /\ UNCHANGED live
  /\ UNCHANGED <<hubVars, needsPush, takeVars, ring, asked, pushAsked, shutdown>>

\* The shutdown event, the duration or an exception.
Leave ==
  /\ pc \in {"loop", "frame"} /\ pc' = "finally"
  /\ UNCHANGED <<data, hubVars, needsPush, takeVars, highlightVars>>

\* Fault: the finally clause looks at the request instead of the recording.
SaveTail_Asked ==
  /\ pc = "finally" /\ pc' = "exit"
  /\ IF asked THEN SaveEpisode \/ SaveRaises ELSE UNCHANGED data
  /\ UNCHANGED <<hubVars, needsPush, takeVars, highlightVars>>

\* The finally clause.
SaveTail ==
  /\ pc = "finally" /\ pc' = "exit"
  /\ IF live THEN SaveEpisode \/ SaveRaises ELSE UNCHANGED data
  /\ UNCHANGED <<hubVars, needsPush, takeVars, highlightVars>>

\* VideoEncodingManager finalizes the dataset, without the lock.
Exit ==
  /\ pc = "exit" /\ pc' = "closing"
  /\ data' = Finalized(data)
  /\ UNCHANGED <<hubVars, needsPush, takeVars, highlightVars>>
------------------------------------------------------------------------------
Loop ==
  \/ Look \/ NoFrame \/ KeepFrame \/ StartLive \/ EndLive \/ SaveLive \/ Leave \/ SaveTail \/ Exit
  \/ (Close \/ FinalPush(TRUE)) /\ UNCHANGED highlightVars

Executor == (BeginPush(FALSE) \/ EndPush \/ FailPush) /\ UNCHANGED highlightVars

Input == PressSave \/ PressPush \/ PressEsc

Next == Loop \/ Executor \/ Input \/ (Over /\ UNCHANGED highlightVars)

Spec == Init /\ [][Next]_vars
------------------------------------------------------------------------------
(* Properties *)

\* The frames of s follow each other without a gap.
Gapless(s) == \A i \in 1..Len(s) - 1 : s[i + 1].n = s[i].n + 1

\* Every episode is one stretch of the rollout, flushed and live frames together, that ends
\* before the next begins: no frame is doubled or lost across the flush of the ring.
Stretches ==
  LET all == Episodes(data) \o <<data.buffer, ring.buffer>>
  IN data.sized =>
       /\ \A i \in DOMAIN all : Gapless(all[i])
       /\ \A i, j \in DOMAIN all : i < j /\ all[i] # <<>> /\ all[j] # <<>> =>
            Last(all[i]).n < Head(all[j]).n
=============================================================================
