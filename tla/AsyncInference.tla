---------------------------- MODULE AsyncInference ----------------------------
(***************************************************************************)
(* Asynchronous inference: a RobotClient (async_inference/robot_client.py) *)
(* and a PolicyServer (async_inference/policy_server.py).                  *)
(*                                                                         *)
(* The client has two threads.  The control loop executes one action per   *)
(* period and, when few are left, sends an observation; the receiver calls *)
(* GetActions for ever and replaces the action queue by what it gets.  On  *)
(* the server every call is a handler of its own; they share a queue of    *)
(* one observation, the timesteps already predicted and the observation    *)
(* processed last.  A call may fail at the client although its handler     *)
(* goes on, so a second one may run beside it.                             *)
(*                                                                         *)
(* An action is its timestep.  Chunks ascend and so does every action      *)
(* queue, which is therefore a set, popped at its minimum.                 *)
(***************************************************************************)
EXTENDS Integers, FiniteSets

CONSTANTS
  ChunkLen,     \* actions_per_chunk
  Threshold,    \* queue size at which an observation is sent (chunk_size_threshold)
  Similar,      \* outcomes of observations_similar for another timestep
  Handler,      \* numbers of server handlers, of each kind; a call gets one
  LastStep,     \* bound: the operator stops the client after this step
  MaxFaults,    \* bound: calls that fail on the way, and exceptions on the server
  None          \* no observation

ASSUME AsyncAssumption ==
  /\ ChunkLen \in Nat \ {0}
  /\ Threshold \in Nat
  /\ Similar \subseteq BOOLEAN
  /\ LastStep \in Nat
  /\ MaxFaults \in Nat
  /\ Handler \subseteq Nat

VARIABLES
  ctl,        \* program counter of the control loop
  hand,       \* timestep of the action popped last
  obs,        \* the observation being sent: [step, mustGo]
  put,        \* the handler its SendObservations call waits for
  latest,     \* latest_action
  queue,      \* action_queue
  mustGo,     \* the event must_go
  rcv,        \* program counter of the receiver
  get,        \* the handler its GetActions call waits for
  chunk,      \* timesteps of the received chunk not yet looked at
  future,     \* future_action_queue
  touched,    \* the deque was popped since the receiver began to iterate over it
  slot,       \* observation_queue: an observation or None
  predicted,  \* _predicted_timesteps
  last,       \* timestep of last_processed_obs, or None
  send,       \* handlers of SendObservations: [pc, obs]
  infer,      \* handlers of GetActions: [pc, step]
  faults,     \* calls lost and inferences failed so far
  frontier,   \* history: the furthest step executed
  behind,     \* history: the last step popped while the queue was last rebuilt
  popping,    \* history: the same for a rebuild under way
  undone      \* history: must_go was lowered after a newer chunk had raised it

control  == <<ctl, hand, obs, put, latest, frontier>>
receiver == <<rcv, get, chunk, future>>
shared   == <<queue, mustGo, touched, behind, popping, undone>>
server   == <<slot, predicted, last, send, infer>>
vars     == <<control, receiver, shared, server, faults>>

Observation == [step : 0..LastStep + ChunkLen, mustGo : BOOLEAN]
Idle == [pc |-> "idle"]

Least(x, S) == x \in S /\ \A y \in S : x <= y
MaxOf(x, y) == IF x > y THEN x ELSE y

\* A call is served by the first handler that is free.
Free(handlers, h) ==
  handlers[h] = Idle /\ \A k \in Handler : k < h => handlers[k] # Idle

Init ==
  /\ ctl = "top" /\ hand = -1 /\ obs = None /\ put = None
  /\ latest = -1 /\ queue = {} /\ mustGo = TRUE
  /\ rcv = "call" /\ get = None /\ chunk = {} /\ future = {} /\ touched = FALSE
  /\ slot = None /\ predicted = {} /\ last = None
  /\ send = [h \in Handler |-> Idle] /\ infer = [h \in Handler |-> Idle]
  /\ faults = 0
  /\ frontier = -1 /\ behind = -1 /\ popping = -1 /\ undone = FALSE

-----------------------------------------------------------------------------
(* The control loop.                                                       *)

Running == ctl \notin {"done", "dead"}

\* Top of control_loop: the operator stops it after LastStep.
Top ==
  /\ ctl = "top"
  /\ ctl' = IF latest >= LastStep THEN "done"
            ELSE IF queue # {} THEN "pop" ELSE "ready"
  /\ UNCHANGED <<hand, obs, put, latest, frontier, receiver, shared, server, faults>>

\* get_nowait in control_loop_action: if the receiver swapped in an empty queue
\* since actions_available looked, Empty leaves the control loop.
PopEmpty ==
  /\ ctl = "pop" /\ queue = {}
  /\ ctl' = "dead"
  /\ UNCHANGED <<hand, obs, put, latest, frontier, receiver, shared, server, faults>>

Pop ==
  /\ ctl = "pop"
  /\ \E x \in queue : Least(x, queue) /\ hand' = x
  /\ queue' = queue \ {hand'}
  /\ touched' = (rcv = "copy")
  /\ popping' = IF rcv = "rebuild" THEN MaxOf(popping, hand') ELSE popping
  /\ ctl' = "execute"
  /\ UNCHANGED <<obs, put, latest, frontier, mustGo, behind, undone, receiver, server, faults>>

\* send_action returns and latest_action is set.
Execute ==
  /\ ctl = "execute"
  /\ latest' = hand
  /\ frontier' = MaxOf(frontier, hand)
  /\ hand' = -1
  /\ ctl' = "ready"
  /\ UNCHANGED <<obs, put, receiver, shared, server, faults>>

\* _ready_to_send_observation.
Ready ==
  /\ ctl = "ready"
  /\ ctl' = IF Cardinality(queue) <= Threshold THEN "observe" ELSE "top"
  /\ UNCHANGED <<hand, obs, put, latest, frontier, receiver, shared, server, faults>>

\* control_loop_observation up to the call: must go if the queue is empty.
Observe ==
  /\ ctl = "observe"
  /\ obs' = [step |-> MaxOf(latest, 0), mustGo |-> mustGo /\ queue = {}]
  /\ ctl' = "send"
  /\ UNCHANGED <<hand, put, latest, frontier, receiver, shared, server, faults>>

\* The request arrives, and a handler begins.
Request(h) ==
  /\ ctl = "send" /\ put = None /\ Free(send, h)
  /\ send' = [send EXCEPT ![h] = [pc |-> "check", obs |-> obs]]
  /\ put' = h
  /\ UNCHANGED <<ctl, hand, obs, latest, frontier, receiver, shared,
                 slot, predicted, last, infer, faults>>

\* SendObservations returns or raises: send_observation catches RpcError and
\* control_loop_observation does not look at what it returns.
Sent ==
  /\ ctl = "send" /\ put # None /\ send[put] = Idle
  /\ ctl' = "sent" /\ put' = None
  /\ UNCHANGED <<hand, obs, latest, frontier, receiver, shared, server, faults>>

\* The call fails before the request arrives or while its handler runs.
SendLost ==
  /\ ctl = "send" /\ faults < MaxFaults
  /\ faults' = faults + 1
  /\ ctl' = "sent" /\ put' = None
  /\ UNCHANGED <<hand, obs, latest, frontier, receiver, shared, server>>

\* Fault: the event is lowered after every observation.
Lowered_Always == FALSE

\* must_go after an observation was sent: lowered if it was a must-go.
Lowered == mustGo /\ ~obs.mustGo

ClearMustGo ==
  /\ ctl = "sent"
  /\ mustGo' = Lowered
  /\ obs' = None
  /\ ctl' = "top"
  /\ UNCHANGED <<hand, put, latest, frontier, queue, touched, behind, popping, undone,
                 receiver, server, faults>>

-----------------------------------------------------------------------------
(* The receiver.                                                           *)

\* receive_actions calls GetActions, also again after `Empty` or an error.
Call(h) ==
  /\ rcv = "call" /\ Running /\ Free(infer, h)
  /\ infer' = [infer EXCEPT ![h] = [pc |-> "wait"]]
  /\ get' = h
  /\ rcv' = "wait"
  /\ UNCHANGED <<control, chunk, future, shared, slot, predicted, last, send, faults>>

Answered(h) == infer[h].pc \in {"empty", "reply"}

\* The call fails: its handler goes on, or its answer is lost.
GetLost ==
  /\ rcv = "wait" /\ faults < MaxFaults
  /\ faults' = faults + 1
  /\ rcv' = "call" /\ get' = None
  /\ infer' = IF Answered(get) THEN [infer EXCEPT ![get] = Idle] ELSE infer
  /\ UNCHANGED <<control, chunk, future, shared, slot, predicted, last, send>>

\* A chunk, or Empty after a failed inference.  A wait that times out on the
\* server is repeated at once, and not told apart from one that goes on.
Receive ==
  /\ rcv = "wait" /\ Answered(get)
  /\ IF infer[get].pc = "reply"
       THEN rcv' = "copy" /\ chunk' = infer[get].step .. infer[get].step + ChunkLen - 1
       ELSE rcv' = "call" /\ chunk' = {}
  /\ infer' = [infer EXCEPT ![get] = Idle]
  /\ get' = None
  /\ touched' = FALSE
  /\ UNCHANGED <<control, future, queue, mustGo, behind, popping, undone,
                 slot, predicted, last, send, faults>>

\* _aggregate_action_queues iterates over the deque without the lock: a pop in
\* the meantime raises RuntimeError, which receive_actions does not catch.
Copy ==
  /\ rcv = "copy"
  /\ rcv' = IF touched THEN "dead" ELSE "rebuild"
  /\ touched' = FALSE
  /\ popping' = IF ctl = "execute" THEN hand ELSE -1
  /\ UNCHANGED <<control, get, chunk, future, queue, mustGo, behind, undone,
                 server, faults>>

\* Fault: equal timesteps are kept.
Kept_Same(x) == x >= latest
\* Fault: the action after latest_action is taken for executed.
Kept_Beyond(x) == x > latest + 1

\* One action of the chunk: kept if it is newer than latest_action now.
Kept(x) == x > latest

Rebuild ==
  /\ rcv = "rebuild"
  /\ \E x \in chunk :
       /\ Least(x, chunk)
       /\ chunk' = chunk \ {x}
       /\ future' = IF Kept(x) THEN future \cup {x} ELSE future
  /\ UNCHANGED <<control, rcv, get, shared, server, faults>>

Swap ==
  /\ rcv = "rebuild" /\ chunk = {}
  /\ queue' = future /\ future' = {}
  /\ behind' = popping /\ popping' = -1
  /\ rcv' = "swapped"
  /\ UNCHANGED <<control, get, chunk, mustGo, touched, undone, server, faults>>

\* must_go.set(); the control loop may be about to lower it for an observation
\* sent before.
SetMustGo ==
  /\ rcv = "swapped"
  /\ mustGo' = TRUE
  /\ undone' = (ctl \in {"send", "sent"} /\ obs.mustGo)
  /\ rcv' = "call"
  /\ UNCHANGED <<control, get, chunk, future, queue, touched, behind, popping,
                 server, faults>>

-----------------------------------------------------------------------------
(* Handlers of SendObservations.                                           *)

Handled(h) == send' = [send EXCEPT ![h] = Idle]
Go(h, pc)  == send' = [send EXCEPT ![h].pc = pc]

\* _obs_sanity_checks.
Sane(o, similar) == o.step \notin predicted /\ ~similar

\* _enqueue_observation: the observation goes on, or is filtered out.
Check(h) ==
  /\ send[h].pc = "check"
  /\ \E similar \in Similar :
       IF send[h].obs.mustGo \/ last = None \/ Sane(send[h].obs, similar)
         THEN Go(h, "full") ELSE Handled(h)
  /\ UNCHANGED <<control, receiver, shared, slot, predicted, last, infer, faults>>

\* full(): GetActions may have emptied the queue since the observation was let through.
LookForRoom(h) ==
  /\ send[h].pc = "full"
  /\ Go(h, IF slot # None THEN "evict" ELSE "put")
  /\ UNCHANGED <<control, receiver, shared, slot, predicted, last, infer, faults>>

\* get_nowait: if GetActions was faster it raises, and the call fails with the
\* new observation lost.
Evict(h) ==
  /\ send[h].pc = "evict"
  /\ slot' = None
  /\ IF slot = None THEN Handled(h) ELSE Go(h, "put")
  /\ UNCHANGED <<control, receiver, shared, predicted, last, infer, faults>>

\* put blocks if another handler was faster.
Put(h) ==
  /\ send[h].pc = "put" /\ slot = None
  /\ slot' = send[h].obs
  /\ Handled(h)
  /\ UNCHANGED <<control, receiver, shared, predicted, last, infer, faults>>

-----------------------------------------------------------------------------
(* Handlers of GetActions.                                                 *)

Take(h) ==
  /\ infer[h].pc = "wait" /\ slot # None
  /\ infer' = [infer EXCEPT ![h] = [pc |-> "mark", step |-> slot.step]]
  /\ slot' = None
  /\ UNCHANGED <<control, receiver, shared, predicted, last, send, faults>>

\* The wait of a handler nobody listens to ends with its timeout.
Expire(h) ==
  /\ infer[h].pc = "wait" /\ h # get
  /\ infer' = [infer EXCEPT ![h] = Idle]
  /\ UNCHANGED <<control, receiver, shared, slot, predicted, last, send, faults>>

Mark(h) ==
  /\ infer[h].pc = "mark"
  /\ predicted' = predicted \cup {infer[h].step}
  /\ infer' = [infer EXCEPT ![h].pc = "prepare"]
  /\ UNCHANGED <<control, receiver, shared, slot, last, send, faults>>

\* _predict_action_chunk through the preprocessor.
Prepare(h) ==
  /\ infer[h].pc = "prepare"
  /\ last' = infer[h].step
  /\ infer' = [infer EXCEPT ![h].pc = "infer"]
  /\ UNCHANGED <<control, receiver, shared, slot, predicted, send, faults>>

\* What GetActions answers; the answer to a call that failed goes nowhere.
Answer(h, pc) ==
  infer' = [infer EXCEPT ![h] = IF h = get THEN [pc |-> pc, step |-> @.step] ELSE Idle]

Infer(h) ==
  /\ infer[h].pc = "infer"
  /\ Answer(h, "reply")
  /\ UNCHANGED <<control, receiver, shared, slot, predicted, last, send, faults>>

\* An exception in preprocessing or inference is answered with Empty.
InferFails(h) ==
  /\ infer[h].pc \in {"prepare", "infer"} /\ faults < MaxFaults
  /\ faults' = faults + 1
  /\ Answer(h, "empty")
  /\ UNCHANGED <<control, receiver, shared, slot, predicted, last, send>>

-----------------------------------------------------------------------------
Control ==
  \/ Top \/ PopEmpty \/ Pop \/ Execute \/ Ready \/ Observe
  \/ \E h \in Handler : Request(h)
  \/ Sent \/ ClearMustGo
Receiver ==
  \/ \E h \in Handler : Call(h)
  \/ Receive \/ Copy \/ Rebuild \/ Swap \/ SetMustGo
Sending(h)   == Check(h) \/ LookForRoom(h) \/ Evict(h) \/ Put(h)
Inferring(h) == Take(h) \/ Expire(h) \/ Mark(h) \/ Prepare(h) \/ Infer(h)

Serving == \E h \in Handler : Sending(h) \/ Inferring(h) \/ InferFails(h)

\* The client was stopped or one of its threads died.
Over == (~Running \/ rcv = "dead") /\ UNCHANGED vars

Next == Control \/ SendLost \/ Receiver \/ GetLost \/ Serving \/ Over

Spec == Init /\ [][Next]_vars

\* A thread that can go on does.  A GetActions waiting for an observation gets
\* one if they keep coming, although each may be evicted by the next: put wakes
\* the waiting thread, and the next observation is a control period away.
FairSpec ==
  /\ Spec
  /\ WF_vars(Control) /\ WF_vars(Receiver)
  /\ \A h \in Handler : WF_vars(Sending(h)) /\ SF_vars(Inferring(h))

-----------------------------------------------------------------------------
Step == -1 .. LastStep + ChunkLen

TypeOK ==
  /\ ctl \in {"top", "pop", "execute", "ready", "observe", "send", "sent", "done", "dead"}
  /\ rcv \in {"call", "wait", "copy", "rebuild", "swapped", "dead"}
  /\ {hand, latest, frontier, behind, popping} \subseteq Step
  /\ queue \cup chunk \cup future \cup predicted \subseteq Step \ {-1}
  /\ {obs, slot} \subseteq Observation \cup {None}
  /\ last \in Step \cup {None}

\* The robot goes through the timeline without gaps: an action beyond the
\* furthest one executed is the next one.  Chunks arrive late, are filtered
\* against a moving latest_action, replace each other whole, and an old answer
\* may follow a newer one (_aggregate_action_queues, control_loop_observation).
NoSkip == [][frontier' <= frontier + 1]_vars

\* The robot goes back only to what it executed while the queue was rebuilt:
\* a step at or before the last one is at most the last step popped between the
\* receiver's copy of the queue and its swap (_aggregate_action_queues).
BackOnlyAcrossRebuild == [][Execute /\ hand <= latest => hand <= behind]_vars

\* When no call fails and no inference raises, the client gets to its last step
\* whatever the server takes for similar, unless one of its threads dies of the
\* other's access to the queue or a must-go is undone: an observation sent on an
\* empty queue gets through, filter and single slot notwithstanding.
Unstarved ==
  <>(~Running \/ rcv = "dead" \/ undone \/ faults > 0)

\* robot_client.py:440: without actions left the observation must go through
\* processing, and so there are actions again.
MustGoHonoured ==
  [](ctl = "observe" /\ queue = {} => <>(queue # {} \/ ~Running \/ rcv = "dead"))
=============================================================================
