-------------------------- MODULE EpisodicRecording --------------------------
(***************************************************************************)
(* EpisodicStrategy (rollout/strategies/episodic.py): NumEpisodes episodes *)
(* with a phase in between in which the operator resets the environment.   *)
(* The keys of another thread raise flags that both loops read: the right  *)
(* arrow ends either early, the left arrow records the episode once more,  *)
(* ESC stops.  An attempt at an episode is a take here; nothing is pushed  *)
(* before teardown().                                                      *)
(***************************************************************************)
EXTENDS Recorder

CONSTANT NumEpisodes   \* num_episodes

VARIABLES
  exitEarly,   \* events["exit_early"]
  rerecord,    \* events["rerecord_episode"]
  stop,        \* events["stop_recording"]
  recorded     \* recorded_episodes

eventVars == <<exitEarly, rerecord, stop>>
episodicVars == <<eventVars, recorded>>
vars == <<recorderVars, episodicVars>>

Init ==
  /\ RecorderInit
  /\ pc = "next"
  /\ exitEarly = FALSE /\ rerecord = FALSE /\ stop = FALSE
  /\ recorded = 0
------------------------------------------------------------------------------
(* The keys. *)

Listening == pc \notin {"final", "down", "raised"}

RightArrow ==
  /\ Listening
  /\ exitEarly' = TRUE
  /\ UNCHANGED <<recorderVars, rerecord, stop, recorded>>

LeftArrow ==
  /\ Listening
  /\ exitEarly' = TRUE /\ rerecord' = TRUE
  /\ UNCHANGED <<recorderVars, stop, recorded>>

Esc ==
  /\ Listening
  /\ exitEarly' = TRUE /\ stop' = TRUE
  /\ UNCHANGED <<recorderVars, rerecord, recorded>>
------------------------------------------------------------------------------
(* run() *)

BeginEpisode ==
  /\ pc = "next" /\ recorded < NumEpisodes /\ ~stop /\ take < MaxTakes
  /\ pc' = "policy" /\ take' = take + 1
  /\ UNCHANGED <<data, hubVars, needsPush, frames, discarded, episodicVars>>

\* Enough episodes, ESC or the shutdown event.
EndSession ==
  /\ pc = "next" /\ pc' = "finally"
  /\ UNCHANGED <<data, hubVars, needsPush, takeVars, episodicVars>>

\* _policy_loop(): a tick looks at the flag, ...
Look ==
  /\ pc = "policy" /\ ~exitEarly /\ pc' = "tick"
  /\ UNCHANGED <<data, hubVars, needsPush, takeVars, episodicVars>>

\* ... and records a frame, or none: the warmup, an interpolated action.
Tick ==
  /\ pc = "tick" /\ pc' = "policy"
  /\ RecordFrame \/ UNCHANGED <<data, takeVars>>
  /\ UNCHANGED <<hubVars, needsPush, episodicVars>>

\* _policy_loop() ends: by the flag, which it lowers, or by the clock or the shutdown event.
EndPolicy ==
  /\ pc = "policy" /\ pc' = "between"
  /\ exitEarly' \in {exitEarly, FALSE}
  /\ UNCHANGED <<data, hubVars, needsPush, takeVars, rerecord, stop, recorded>>

\* An exception in either loop, or of clear_episode_buffer().
Raise ==
  /\ pc \in {"tick", "between", "reset", "discard"} /\ pc' = "finally"
  /\ UNCHANGED <<data, hubVars, needsPush, takeVars, episodicVars>>

ResetWanted == ~stop /\ (recorded < NumEpisodes - 1 \/ rerecord)

SkipReset ==
  /\ pc = "between" /\ ~ResetWanted /\ pc' = "decide"
  /\ UNCHANGED <<data, hubVars, needsPush, takeVars, episodicVars>>

BeginReset ==
  /\ pc = "between" /\ ResetWanted /\ pc' = "reset"
  /\ UNCHANGED <<data, hubVars, needsPush, takeVars, episodicVars>>

\* _reset_loop() ends, like _policy_loop().
EndReset ==
  /\ pc = "reset" /\ pc' = "decide"
  /\ exitEarly' \in {exitEarly, FALSE}
  /\ UNCHANGED <<data, hubVars, needsPush, takeVars, rerecord, stop, recorded>>

\* The left arrow was pressed: the flags are lowered, one after the other, ...
Rerecord ==
  /\ pc = "decide" /\ rerecord /\ pc' = "retry"
  /\ rerecord' = FALSE
  /\ UNCHANGED <<data, hubVars, needsPush, takeVars, exitEarly, stop, recorded>>

LowerExit ==
  /\ pc = "retry" /\ pc' = "discard"
  /\ exitEarly' = FALSE
  /\ UNCHANGED <<data, hubVars, needsPush, takeVars, rerecord, stop, recorded>>

\* ... and the attempt is thrown away.
ClearBuffer ==
  /\ pc = "discard" /\ pc' = "next"
  /\ data' = Discarded(data)
  /\ discarded' = discarded \union {data.buffer[i].n : i \in DOMAIN data.buffer}
  /\ UNCHANGED <<hubVars, needsPush, frames, take, episodicVars>>

Accept ==
  /\ pc = "decide" /\ ~rerecord /\ pc' = "saving"
  /\ UNCHANGED <<data, hubVars, needsPush, takeVars, episodicVars>>

Save ==
  /\ pc = "saving"
  /\ \/ SaveEpisode /\ pc' = "next" /\ recorded' = recorded + 1
     \/ SaveRaises  /\ pc' = "finally" /\ UNCHANGED recorded
  /\ UNCHANGED <<hubVars, needsPush, takeVars, eventVars>>

\* The finally clause.
SaveTail ==
  /\ pc = "finally" /\ pc' = "closing"
  /\ SaveEpisode \/ SaveRaises
  /\ UNCHANGED <<hubVars, needsPush, takeVars, episodicVars>>
------------------------------------------------------------------------------
Strategy ==
  \/ BeginEpisode \/ EndSession \/ Look \/ Tick \/ EndPolicy \/ Raise \/ SkipReset \/ BeginReset
  \/ EndReset \/ Rerecord \/ LowerExit \/ ClearBuffer \/ Accept \/ Save \/ SaveTail
  \/ (Close \/ FinalPush(TRUE)) /\ UNCHANGED episodicVars

Keys == RightArrow \/ LeftArrow \/ Esc

Next == Strategy \/ Keys \/ (Over /\ UNCHANGED episodicVars)

Spec == Init /\ [][Next]_vars
------------------------------------------------------------------------------
(* Properties *)

\* The rows of the episodes, and the one under way, are the frames recorded and not thrown
\* away, whatever key is pressed when: no discarded attempt returns, no accepted one is lost.
FramesConserved ==
  data.sized => Tiled(data) /\ AreKept(Numbers(data.rows \o data.buffer))

\* An episode is one attempt.
OneTake == data.sized => \A e \in DOMAIN data.episodes : Cardinality(TakesOf(Episode(data, e))) = 1
=============================================================================
