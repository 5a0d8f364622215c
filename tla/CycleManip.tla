----------------------------- MODULE CycleManip -----------------------------
(***************************************************************************)
(* The observation windows and progress labels of the CycleManip history   *)
(* (policies/smolvla/cyclemanip.py), as pure functions.  An offset is      *)
(* relative to the current frame: 0 is now, -3 is three ticks ago.         *)
(***************************************************************************)
EXTENDS Integers, Sequences, FiniteSetsExt, SequencesExt

\* The range of a window that looks at each of the last n frames.
Dense(n) == [i \in 1..n |-> i - n]

cycle_state_delta_indices(history_size) == Dense(history_size)

\* The landmarks sorted into a window: when they coincide, so that there are
\* too few of them, the window is dense; too many are cut, but for the 0.
cycle_image_delta_indices(history_size, num_frames) ==
  LET landmarks == {-(history_size - 1), -2, -1, 0}
                     \union {-Max({1, history_size \div d}) : d \in {2, 4}}
      result    == SetToSortSeq(landmarks, <)
  IN  IF Len(result) < num_frames THEN Dense(num_frames)
      ELSE IF Len(result) > num_frames THEN SubSeq(result, 1, num_frames - 1) \o <<0>>
      ELSE result

\* Fault: progress in units of the length, so that 1 is never reached.
cycle_progress_target_Length(frame_index, length, num_bins) ==
  Min({(frame_index * num_bins) \div Max({1, length}), num_bins - 1})

\* The progress bin of the frame with this index in an episode of this length.
cycle_progress_target(frame_index, length, num_bins) ==
  LET last     == Max({1, Max({1, length}) - 1})
      progress == Min({frame_index, last})      \* in units of 1/last
  IN  Min({(progress * num_bins) \div last, num_bins - 1})
=============================================================================
