------------------------------- MODULE MCEngine -------------------------------
(***************************************************************************)
(* RTCEngine in three configurations, chosen at the start: driven by the   *)
(* keyboard restart (the constants as they are), by the run segments of a  *)
(* RolloutController with chunks appended to the queue, and with the       *)
(* compile warmup of a checkpoint trained for RTC.                         *)
(***************************************************************************)
EXTENDS RTCEngine

VARIABLE config

Segments == INSTANCE RTCEngine WITH Interactive <- TRUE, RTC <- FALSE
Warmup   == INSTANCE RTCEngine WITH UseCompile <- TRUE, Trained <- TRUE, HistoryLen <- 0

MCInit ==
  \/ config = "restart"  /\ Init
  \/ config = "segments" /\ Segments!Init
  \/ config = "warmup"   /\ Warmup!Init

MCNext ==
  /\ UNCHANGED config
  /\ \/ config = "restart"  /\ Next
     \/ config = "segments" /\ Segments!Next
     \/ config = "warmup"   /\ Warmup!Next

MCSpec == MCInit /\ [][MCNext]_<<config, vars>>
=============================================================================
