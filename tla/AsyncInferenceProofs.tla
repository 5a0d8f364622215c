------------------------- MODULE AsyncInferenceProofs -------------------------
(***************************************************************************)
(* Theorems about AsyncInference, for chunks of any length, any threshold, *)
(* any outcome of the similarity filter, any number of handlers and of     *)
(* lost calls and failed inferences.                                       *)
(*                                                                         *)
(* Three inductive invariants, each resting on the one before: StepInv,    *)
(* where a chunk may start; GaplessInv, that queues have no gap beyond the *)
(* furthest executed step; and RepeatInv, which of their steps are old.    *)
(***************************************************************************)
EXTENDS AsyncInference, TLAPS

\* A timestep no further than the one after the furthest executed.
Reached(x) == x \in Nat /\ x <= frontier + 1

SendState ==
  [pc : {"idle"}] \cup
  [pc : {"check", "full", "evict", "put"}, obs : [step : Nat, mustGo : BOOLEAN]]
InferState == [pc : {"idle", "wait"}] \cup [pc : {"mark", "prepare", "infer", "reply", "empty"}, step : Nat]

ClientTyped ==
  /\ latest \in Int /\ frontier \in Int /\ hand \in Int /\ behind \in Int /\ popping \in Int
  /\ -1 <= latest /\ latest <= frontier /\ -1 <= hand
  /\ queue \subseteq Nat /\ chunk \subseteq Nat /\ future \subseteq Nat
  /\ mustGo \in BOOLEAN

ObservationsReached ==
  /\ ctl = "send" => obs \in [step : Nat, mustGo : BOOLEAN] /\ Reached(obs.step)
  /\ slot # None => slot \in [step : Nat, mustGo : BOOLEAN] /\ Reached(slot.step)
  /\ send \in [Handler -> SendState]
  /\ \A h \in Handler : send[h].pc # "idle" => Reached(send[h].obs.step)

CallsReached ==
  /\ infer \in [Handler -> InferState]
  /\ \A h \in Handler : infer[h].pc \notin {"idle", "wait"} => Reached(infer[h].step)
  /\ rcv = "wait" => get \in Handler

\* Every observation, and so every chunk, is of a step the robot has reached.
StepInv == ClientTyped /\ ObservationsReached /\ CallsReached

-----------------------------------------------------------------------------
(* Where chunks start.                                                     *)

LEMMA ControlKeepsStep ==
  ASSUME StepInv, Control \/ SendLost PROVE StepInv'
<1> USE DEF StepInv, ClientTyped, ObservationsReached, CallsReached, Reached, MaxOf, receiver,
  shared, server
<1>1. CASE Top \/ PopEmpty \/ Ready
  BY <1>1 DEF Top, PopEmpty, Ready
<1>2. CASE Pop
  BY <1>2 DEF Pop
<1>3. CASE Execute
  BY <1>3 DEF Execute
<1>4. CASE Observe
  BY <1>4 DEF Observe
<1>5. ASSUME NEW h \in Handler, Request(h) PROVE StepInv'
  <2>1. send' \in [Handler -> SendState]
    BY <1>5 DEF Request, SendState
  <2>2. \A k \in Handler : send'[k].pc # "idle" => Reached(send'[k].obs.step)
    BY <1>5 DEF Request, SendState
  <2> QED BY <1>5, <2>1, <2>2 DEF Request
<1>6. CASE Sent \/ SendLost \/ ClearMustGo
  BY <1>6 DEF Sent, SendLost, ClearMustGo, Lowered
<1> QED BY <1>1, <1>2, <1>3, <1>4, <1>5, <1>6 DEF Control

LEMMA ReceiverKeepsStep ==
  ASSUME StepInv, Receiver \/ GetLost PROVE StepInv'
<1> USE DEF StepInv, ClientTyped, ObservationsReached, CallsReached, Reached,
  control, shared, server
<1>1. ASSUME NEW h \in Handler, Call(h) PROVE StepInv'
  <2>1. infer' \in [Handler -> InferState]
    BY <1>1 DEF Call, InferState
  <2> QED BY <1>1, <2>1 DEF Call
<1>2. CASE Receive
  <2>1. infer' \in [Handler -> InferState]
    BY <1>2 DEF Receive, InferState, Idle
  <2>2. \A h \in Handler : infer'[h].pc \notin {"idle", "wait"} => Reached(infer'[h].step)
    BY <1>2 DEF Receive, Idle
  <2>3. chunk' \subseteq Nat
    <3>1. CASE infer[get].pc = "reply"
      <4>1. infer[get].step \in Nat
        BY <1>2, <3>1 DEF Receive
      <4> QED BY <1>2, <3>1, <4>1, AsyncAssumption DEF Receive
    <3>2. CASE infer[get].pc # "reply"
      BY <1>2, <3>2 DEF Receive
    <3> QED BY <3>1, <3>2
  <2> QED BY <1>2, <2>1, <2>2, <2>3 DEF Receive
<1>3. CASE GetLost
  <2>1. infer' \in [Handler -> InferState]
    BY <1>3 DEF GetLost, InferState, Idle
  <2>2. \A h \in Handler : infer'[h].pc \notin {"idle", "wait"} => Reached(infer'[h].step)
    BY <1>3 DEF GetLost, Idle
  <2> QED BY <1>3, <2>1, <2>2 DEF GetLost
<1>4. CASE Copy
  BY <1>4 DEF Copy
<1>5. CASE Rebuild
  BY <1>5 DEF Rebuild
<1>6. CASE Swap
  BY <1>6 DEF Swap
<1>7. CASE SetMustGo
  BY <1>7 DEF SetMustGo
<1> QED BY <1>1, <1>2, <1>3, <1>4, <1>5, <1>6, <1>7 DEF Receiver

LEMMA ServerKeepsStep ==
  ASSUME StepInv, Serving PROVE StepInv'
<1> USE DEF StepInv, ClientTyped, ObservationsReached, CallsReached, Reached, control, receiver,
  shared
<1>1. ASSUME NEW h \in Handler, Check(h) \/ LookForRoom(h) \/ Evict(h) \/ Put(h) PROVE StepInv'
  <2>1. send' \in [Handler -> SendState]
    BY <1>1 DEF Check, LookForRoom, Evict, Put, Go, Handled, SendState, Idle
  <2>2. \A k \in Handler : send'[k].pc # "idle" => Reached(send'[k].obs.step)
    BY <1>1 DEF Check, LookForRoom, Evict, Put, Go, Handled, SendState, Idle
  <2>3. slot' # None => slot' \in [step : Nat, mustGo : BOOLEAN] /\ Reached(slot'.step)
    BY <1>1 DEF Check, LookForRoom, Evict, Put, SendState
  <2> QED BY <1>1, <2>1, <2>2, <2>3 DEF Check, LookForRoom, Evict, Put
<1>2. ASSUME NEW h \in Handler, Inferring(h) \/ InferFails(h) PROVE StepInv'
  <2>1. infer' \in [Handler -> InferState]
    BY <1>2 DEF Inferring, Take, Expire, Mark, Prepare, Infer, InferFails, Answer, InferState, Idle
  <2>2. \A k \in Handler : infer'[k].pc \notin {"idle", "wait"} => Reached(infer'[k].step)
    BY <1>2 DEF Inferring, Take, Expire, Mark, Prepare, Infer, InferFails, Answer, InferState, Idle
  <2> QED BY <1>2, <2>1, <2>2 DEF Inferring, Take, Expire, Mark, Prepare, Infer, InferFails
<1> QED BY <1>1, <1>2 DEF Serving, Sending

LEMMA StepInvariant == Spec => []StepInv
<1>1. Init => StepInv
  BY DEF Init, StepInv, ClientTyped, ObservationsReached, CallsReached, Idle, SendState, InferState
<1>2. StepInv /\ [Next]_vars => StepInv'
  <2> SUFFICES ASSUME StepInv, [Next]_vars PROVE StepInv'
    OBVIOUS
  <2>1. CASE UNCHANGED vars
    BY <2>1 DEF StepInv, ClientTyped, ObservationsReached, CallsReached, Reached, vars, control,
      receiver, shared, server
  <2> QED BY <2>1, ControlKeepsStep, ReceiverKeepsStep, ServerKeepsStep DEF Next, Over
<1> QED BY <1>1, <1>2, PTL DEF Spec

-----------------------------------------------------------------------------
(* No gaps.                                                                *)

\* What will be the queue: the actions kept and those still to be looked at.
Coming == future \cup chunk

\* Beyond the furthest executed step a queue has no gap, except for the action
\* that is being executed.
GaplessInv ==
  /\ \A x \in queue : \A y \in Nat :
       frontier < y /\ y < x => y \in queue \/ (ctl = "execute" /\ y = hand)
  /\ rcv \in {"copy", "rebuild"} =>
       \A x \in Coming : \A y \in Nat : frontier < y /\ y < x => y \in Coming
  /\ rcv # "rebuild" => future = {}
  /\ ctl = "execute" => Reached(hand)

LEMMA GaplessStep ==
  ASSUME StepInv, StepInv', GaplessInv, [Next]_vars PROVE GaplessInv'
<1> USE DEF StepInv, ClientTyped, GaplessInv, Coming, Reached
<1>1. CASE Pop
  <2>1. PICK x \in queue : Least(x, queue) /\ hand' = x
    BY <1>1 DEF Pop
  <2>2. x \in Nat /\ x <= frontier + 1
    BY <1>1, <2>1 DEF Pop, Least
  <2> QED BY <1>1, <2>1, <2>2 DEF Pop, receiver
<1>2. CASE Execute
  BY <1>2 DEF Execute, MaxOf, receiver, shared
<1>3. CASE Receive
  <2>1. CASE infer[get].pc = "reply"
    <3>1. infer[get].step \in Nat /\ infer[get].step <= frontier + 1
      BY <1>3, <2>1 DEF Receive, CallsReached
    <3>2. chunk' = infer[get].step .. infer[get].step + ChunkLen - 1 /\ future' = {}
          /\ frontier' = frontier
      BY <1>3, <2>1 DEF Receive, control
    <3>3. \A x \in Coming' : \A y \in Nat : frontier' < y /\ y < x => y \in Coming'
      BY <3>1, <3>2, AsyncAssumption
    <3> QED BY <1>3, <2>1, <3>3 DEF Receive, control
  <2>2. CASE infer[get].pc # "reply"
    BY <1>3, <2>2 DEF Receive, control
  <2> QED BY <2>1, <2>2
<1>4. CASE Rebuild
  BY <1>4 DEF Rebuild, Kept, control, shared
<1>5. CASE Swap
  BY <1>5 DEF Swap, control
<1>6. CASE Top \/ PopEmpty \/ Ready \/ Observe \/ Sent \/ SendLost \/ ClearMustGo
           \/ (\E h \in Handler : Request(h))
  BY <1>6 DEF Top, PopEmpty, Ready, Observe, Sent, SendLost, ClearMustGo, Request, receiver, shared
<1>7. CASE (\E h \in Handler : Call(h)) \/ GetLost \/ Copy \/ SetMustGo
  BY <1>7 DEF Call, GetLost, Copy, SetMustGo, control, shared
<1>8. CASE Serving
  BY <1>8 DEF Serving, Sending, Check, LookForRoom, Evict, Put, Inferring, Take, Expire, Mark, Prepare, Infer,
    InferFails, control, receiver, shared
<1>9. CASE UNCHANGED vars
  BY <1>9 DEF vars, control, receiver, shared
<1> QED BY <1>1, <1>2, <1>3, <1>4, <1>5, <1>6, <1>7, <1>8, <1>9 DEF Next, Control, Receiver, Over

LEMMA GaplessInvariant == Spec => [](StepInv /\ GaplessInv)
<1>1. Init => GaplessInv
  BY DEF Init, GaplessInv, Coming
<1>2. StepInv /\ StepInv' /\ GaplessInv /\ [Next]_vars => GaplessInv'
  BY GaplessStep
<1> QED BY <1>1, <1>2, StepInvariant, PTL DEF Spec

\* Property NoSkip: late chunks, filtered against a moving latest_action and
\* replacing each other whole, never make the robot skip a step.
THEOREM RobotNeverSkips == Spec => NoSkip
<1>1. StepInv /\ GaplessInv /\ [Next]_vars => [frontier' <= frontier + 1]_vars
  <2> SUFFICES ASSUME StepInv, GaplessInv, Next PROVE frontier' <= frontier + 1
    OBVIOUS
  <2>1. CASE Execute
    BY <2>1 DEF Execute, MaxOf, StepInv, ClientTyped, GaplessInv, Reached
  <2>2. CASE ~Execute
    <3>1. frontier' = frontier
      <4>1. CASE Control \/ SendLost
        BY <2>2, <4>1 DEF Control, Top, PopEmpty, Pop, Ready, Observe, Request, Sent, SendLost,
          ClearMustGo
      <4>2. CASE Receiver \/ GetLost
        BY <4>2 DEF Receiver, Call, GetLost, Receive, Copy, Rebuild, Swap, SetMustGo, control
      <4>3. CASE Serving
        BY <4>3 DEF Serving, Sending, Check, LookForRoom, Evict, Put, Inferring, Take, Expire, Mark, Prepare,
          Infer, InferFails, control
      <4>4. CASE Over
        BY <4>4 DEF Over, vars, control
      <4> QED BY <4>1, <4>2, <4>3, <4>4 DEF Next
    <3> QED BY <3>1 DEF StepInv, ClientTyped
  <2> QED BY <2>1, <2>2
<1> QED BY <1>1, GaplessInvariant, PTL DEF Spec, NoSkip

-----------------------------------------------------------------------------
(* Steps that come back.                                                   *)

\* Every old step in a queue is covered by a pop during its rebuild; what is
\* being executed will be old when it is done.
RepeatInv ==
  /\ \A x \in queue : x > latest \/ x <= behind
  /\ ctl = "execute" =>
       /\ hand > latest \/ hand <= behind
       /\ \A x \in queue : x > hand \/ x <= behind
  /\ rcv = "rebuild" =>
       /\ \A x \in future : x > latest \/ x <= popping
       /\ ctl = "execute" =>
            hand <= popping /\ \A x \in future : x > hand \/ x <= popping

LEMMA RepeatStep ==
  ASSUME StepInv, StepInv', GaplessInv, RepeatInv, [Next]_vars PROVE RepeatInv'
<1> USE DEF StepInv, ClientTyped, RepeatInv
<1>1. CASE Pop
  <2>1. PICK x \in queue : Least(x, queue) /\ hand' = x
    BY <1>1 DEF Pop
  <2> QED BY <1>1, <2>1 DEF Pop, Least, MaxOf, receiver
<1>2. CASE Execute
  BY <1>2 DEF Execute, receiver, shared
<1>3. CASE Receive
  BY <1>3 DEF Receive, control
<1>4. CASE Copy
  BY <1>4 DEF Copy, GaplessInv, control
<1>5. CASE Rebuild
  BY <1>5 DEF Rebuild, Kept, control, shared
<1>6. CASE Swap
  BY <1>6 DEF Swap, control
<1>7. CASE Top \/ PopEmpty \/ Ready \/ Observe \/ Sent \/ SendLost \/ ClearMustGo
           \/ (\E h \in Handler : Request(h))
  BY <1>7 DEF Top, PopEmpty, Ready, Observe, Sent, SendLost, ClearMustGo, Request, receiver, shared
<1>8. CASE (\E h \in Handler : Call(h)) \/ GetLost \/ SetMustGo
  BY <1>8 DEF Call, GetLost, SetMustGo, control, shared
<1>9. CASE Serving
  BY <1>9 DEF Serving, Sending, Check, LookForRoom, Evict, Put, Inferring, Take, Expire, Mark, Prepare, Infer,
    InferFails, control, receiver, shared
<1>10. CASE UNCHANGED vars
  BY <1>10 DEF vars, control, receiver, shared
<1> QED BY <1>1, <1>2, <1>3, <1>4, <1>5, <1>6, <1>7, <1>8, <1>9, <1>10
        DEF Next, Control, Receiver, Over

\* Property BackOnlyAcrossRebuild: the robot goes back only to what it was
\* given while the receiver rebuilt the queue.
THEOREM RepeatsOnlyRebuilt == Spec => BackOnlyAcrossRebuild
<1>1. Init => RepeatInv
  BY DEF Init, RepeatInv
<1>2. StepInv /\ StepInv' /\ GaplessInv /\ RepeatInv /\ [Next]_vars => RepeatInv'
  BY RepeatStep
<1>3. RepeatInv /\ StepInv /\ [Next]_vars => [Execute /\ hand <= latest => hand <= behind]_vars
  BY DEF RepeatInv, StepInv, ClientTyped, Execute
<1> QED BY <1>1, <1>2, <1>3, GaplessInvariant, PTL DEF Spec, BackOnlyAcrossRebuild
=============================================================================
