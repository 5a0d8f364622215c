----------------------------- MODULE MCEngineLive -----------------------------
(***************************************************************************)
(* RTCEngine under its fairness, in four configurations chosen at the      *)
(* start: changes of the instruction in one run (the constants as they     *)
(* are), and, with one instruction, two runs divided by a restart, the     *)
(* same with the compile warmup, and segments of a RolloutController.      *)
(***************************************************************************)
EXTENDS RTCEngine

VARIABLE config

Restarts == INSTANCE RTCEngine WITH Task <- {InitialTask}, MaxStarts <- 2
Warmup   == INSTANCE RTCEngine WITH Task <- {InitialTask}, MaxStarts <- 2, UseCompile <- TRUE
Segments == INSTANCE RTCEngine WITH
              Task <- {InitialTask}, Interactive <- TRUE, RTC <- FALSE, Trained <- FALSE,
              HistoryLen <- 1

MCInit ==
  \/ config = "task"     /\ Init
  \/ config = "restarts" /\ Restarts!Init
  \/ config = "warmup"   /\ Warmup!Init
  \/ config = "segments" /\ Segments!Init

MCNext ==
  /\ UNCHANGED config
  /\ \/ config = "task"     /\ Next
     \/ config = "restarts" /\ Restarts!Next
     \/ config = "warmup"   /\ Warmup!Next
     \/ config = "segments" /\ Segments!Next

MCControl ==
  /\ UNCHANGED config
  /\ \/ config = "task"     /\ Control
     \/ config = "restarts" /\ Restarts!Control
     \/ config = "warmup"   /\ Warmup!Control
     \/ config = "segments" /\ Segments!Control

MCWorker(g) ==
  /\ UNCHANGED config
  /\ g \in DOMAIN pc
  /\ \/ config = "task"     /\ Worker(g)
     \/ config = "restarts" /\ Restarts!Worker(g)
     \/ config = "warmup"   /\ Warmup!Worker(g)
     \/ config = "segments" /\ Segments!Worker(g)

\* FairSpec of the configuration.
MCFairSpec ==
  /\ MCInit /\ [][MCNext]_<<config, vars>>
  /\ WF_<<config, vars>>(MCControl)
  /\ \A g \in 1..2 : WF_<<config, vars>>(MCWorker(g))
=============================================================================
