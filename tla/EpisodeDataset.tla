---------------------------- MODULE EpisodeDataset ----------------------------
(***************************************************************************)
(* The dataset a recording strategy writes: a dataset object and what      *)
(* DatasetWriter's methods make of it.                                     *)
(*                                                                         *)
(* buffer is the episode under way.  save_episode() takes "size" out of it *)
(* before anything can fail, so a buffer abandoned by a failed save is no  *)
(* longer sized.  rows are the frames in the data files, in order; an      *)
(* entry of episodes is the interval of rows the metadata gives to an      *)
(* episode; open says that the parquet files written last still lack their *)
(* footer, and the last episodes their metadata.                           *)
(***************************************************************************)
EXTENDS Integers, Sequences, FiniteSets

NewDataset == [buffer |-> <<>>, sized |-> TRUE, rows |-> <<>>, episodes |-> <<>>, open |-> FALSE]

\* total_frames of the metadata, which is where the next episode begins.
TotalFrames(d) == IF d.episodes = <<>> THEN 0 ELSE d.episodes[Len(d.episodes)].to

\* What a reader finds as episode e.
Episode(d, e) == SubSeq(d.rows, d.episodes[e].from + 1, d.episodes[e].to)

\* has_pending_frames(), which is also what validate_episode_buffer() asks for.
HasPending(d) == d.sized /\ d.buffer # <<>>

AddFrame(d, f) == [d EXCEPT !.buffer = Append(@, f)]

\* _save_episode_data(): the rows are written, the metadata does not know them yet.
WithRows(d) == [d EXCEPT !.rows = @ \o d.buffer, !.open = TRUE]

\* meta.save_episode() after it.
Committed(d) ==
  [WithRows(d) EXCEPT !.episodes =
     Append(@, [from |-> TotalFrames(d), to |-> TotalFrames(d) + Len(d.buffer)])]

\* Fault: the buffer of the saved episode is used again.
Saved_Kept(d) == Committed(d)

\* save_episode() that succeeds.
Saved(d) == [Committed(d) EXCEPT !.buffer = <<>>]

\* save_episode() that raises: refused at once, or before the rows, between the rows and the
\* metadata (while a video is encoded, say), or after both.
Failed(d) ==
  IF HasPending(d) THEN {[x EXCEPT !.sized = FALSE] : x \in {d, WithRows(d), Committed(d)}} ELSE {d}

\* clear_episode_buffer().
Discarded(d) == [d EXCEPT !.buffer = <<>>, !.sized = TRUE]

\* finalize(): flushes the metadata and writes the footers.
Finalized(d) == [d EXCEPT !.open = FALSE]

\* What push_to_hub() uploads.
Contents(d) == [rows |-> d.rows, episodes |-> d.episodes, open |-> d.open]
=============================================================================
