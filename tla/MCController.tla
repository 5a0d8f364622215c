----------------------------- MODULE MCController -----------------------------
(***************************************************************************)
(* RolloutController with an engine whose worker owns the policy (the      *)
(* constants as they are), or with the synchronous engine, chosen at the   *)
(* start.                                                                  *)
(***************************************************************************)
EXTENDS RolloutController

VARIABLE backend

Sync == INSTANCE RolloutController WITH Inline <- TRUE

MCvars == <<backend, vars>>

MCInit == Init /\ backend \in {"rtc", "sync"}

Of(asynchronous, synchronous) ==
  /\ UNCHANGED backend
  /\ \/ backend = "rtc"  /\ asynchronous
     \/ backend = "sync" /\ synchronous

MCNext ==
  /\ UNCHANGED backend
  /\ \/ backend = "rtc"  /\ Next
     \/ backend = "sync" /\ Sync!Next

MCSpec == MCInit /\ [][MCNext]_MCvars

\* FairSpec of the backend.
MCFairSpec ==
  /\ MCSpec
  /\ WF_MCvars(Of(Serve, Sync!Serve)) /\ WF_MCvars(Of(FinishCall, Sync!FinishCall))
  /\ WF_MCvars(Of(Worker, Sync!Worker)) /\ WF_MCvars(Of(Due, Sync!Due))
  /\ WF_MCvars(Of(PollIdle, Sync!PollIdle))
=============================================================================
