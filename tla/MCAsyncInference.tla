--------------------------- MODULE MCAsyncInference ---------------------------
(***************************************************************************)
(* AsyncInference with a call lost or an inference failed (the constants   *)
(* as they are), or without faults and longer, chosen at the start.        *)
(***************************************************************************)
EXTENDS AsyncInference

VARIABLE config

Long == INSTANCE AsyncInference WITH LastStep <- LastStep + 1, MaxFaults <- 0

MCvars == <<config, vars>>

MCInit == Init /\ config \in {"faults", "long"}

Of(faulty, long) ==
  /\ UNCHANGED config
  /\ \/ config = "faults" /\ faulty
     \/ config = "long"   /\ long

MCNext ==
  /\ UNCHANGED config
  /\ \/ config = "faults" /\ Next
     \/ config = "long"   /\ Long!Next

\* FairSpec of the configuration.
MCFairSpec ==
  /\ MCInit /\ [][MCNext]_MCvars
  /\ WF_MCvars(Of(Control, Long!Control)) /\ WF_MCvars(Of(Receiver, Long!Receiver))
  /\ \A h \in Handler :
       /\ WF_MCvars(Of(Sending(h), Long!Sending(h)))
       /\ SF_MCvars(Of(Inferring(h), Long!Inferring(h)))
=============================================================================
