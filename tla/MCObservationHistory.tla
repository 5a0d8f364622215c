------------------------- MODULE MCObservationHistory -------------------------
(***************************************************************************)
(* ObservationHistory with the windows of small CycleManip configurations, *)
(* and the progress label of every frame such an episode can have.         *)
(***************************************************************************)
EXTENDS ObservationHistory, CycleManip, FiniteSets

CONSTANTS
  HistorySizes,   \* values of cycle_history_size
  ImageFrames,    \* values of cycle_image_history_size
  Bins            \* cycle_progress_bins

\* The head needs two bins to tell progress by (cyclemanip.py:43).
ASSUME BinsAssumption == Bins \in Nat /\ Bins >= 2

MCWindows ==
  {[key \in Key |-> IF key = "state" THEN cycle_state_delta_indices(h)
                                     ELSE cycle_image_delta_indices(h, n)] :
     h \in HistorySizes, n \in ImageFrames}

\* Were the episode over now, its frames would be spread over all progress
\* bins, in order and evenly: a bin never misses out or collects the frames of
\* another, except that the last one also takes the episode's last frame, whose
\* progress of 1 is clamped into it (cyclemanip.py:52).
ProgressBalanced ==
  LET length  == Len(recorded) - start
      Label(i) == cycle_progress_target(i, length, Bins)
      Size(bin) == Cardinality({i \in 0..(length - 1) : Label(i) = bin})
      share   == (length - 1) \div Bins
  IN  length > Bins =>
        /\ Label(0) = 0 /\ Label(length - 1) = Bins - 1
        /\ \A i \in 1..(length - 1) : Label(i) - Label(i - 1) \in {0, 1}
        /\ \A bin \in 0..(Bins - 1) :
             Size(bin) - (IF bin = Bins - 1 THEN 1 ELSE 0) \in {share, share + 1}
=============================================================================
