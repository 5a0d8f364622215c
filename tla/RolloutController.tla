--------------------------- MODULE RolloutController ---------------------------
(***************************************************************************)
(* RolloutController (rollout/controller.py) over the query channel of its *)
(* engine: the thread inside serve(), which runs segments of               *)
(* BaseStrategy.run and moves the robot home; operators calling the        *)
(* control methods from their own threads, one at a time under             *)
(* _control_lock; and the engine's worker, which owns the policy, unless   *)
(* the engine is Inline and the serve thread owns it.                      *)
(*                                                                         *)
(* A control method takes one step per lock or flag the other threads can  *)
(* see it between: `call` holds the rest of it, and the control lock.      *)
(***************************************************************************)
EXTENDS QueryChannel

CONSTANTS
  Inline,        \* control_thread_owns_policy: the synchronous engine
  MaxCalls,      \* bound: calls of control methods
  MaxQuestions   \* bound: questions asked

ASSUME ControllerAssumption ==
  /\ Inline \in BOOLEAN
  /\ {MaxCalls, MaxQuestions} \subseteq Nat

VARIABLES
  serve,      \* where serve() is
  startReq, resetReq, stopReq, wake,  \* _start_requested, ..., _wake
  running, stopped,                   \* _running, _stopped
  segStop,    \* the local flag of _segment_stop
  parent,     \* _global_shutdown
  strategyFailed, engineFailed,
  call,       \* the control method holding _control_lock, Free if none
  active,     \* the engine is not paused (_policy_active)
  obs,        \* the engine has an observation
  w, q,       \* the thread owning the policy: its place and its query
  \* history variables, read by properties only
  owed,       \* an accepted start() that no later command has overruled
  calls, asked

requests == <<startReq, resetReq, stopReq, wake>>
phase    == <<running, stopped, segStop>>
outside  == <<parent, strategyFailed, engineFailed>>
engine   == <<active, obs>>
worker   == <<w, q>>
history  == <<owed, calls, asked>>
vars == <<serve, requests, phase, outside, call, engine, worker, history, channel>>

Free == [op |-> "free", task |-> InitialTask]
Doing(op) == [op |-> op, task |-> InitialTask]

Init ==
  /\ ChannelInit
  /\ reported = [n \in 1..MaxQuestions |-> 0]
  /\ serve = "head"
  /\ startReq = FALSE /\ resetReq = FALSE /\ stopReq = FALSE /\ wake = FALSE
  /\ running = FALSE /\ stopped = FALSE /\ segStop = FALSE
  /\ parent = FALSE /\ strategyFailed = FALSE /\ engineFailed = FALSE
  /\ call = Free
  /\ active = FALSE /\ obs = FALSE
  /\ w = "top" /\ q = NoQuery
  /\ owed = FALSE /\ calls = 0 /\ asked = 0

Failed == engineFailed \/ strategyFailed

-----------------------------------------------------------------------------
(* Control methods.  A refused call changes nothing and is left out.       *)

Call ==
  /\ call = Free /\ calls < MaxCalls
  /\ calls' = calls + 1

StartAccepted == ~stopped /\ ~stopReq /\ ~Failed /\ ~running

Start ==
  /\ Call
  /\ StartAccepted
  /\ startReq' = TRUE /\ wake' = TRUE
  /\ owed' = TRUE
  /\ UNCHANGED <<serve, resetReq, stopReq, phase, outside, call, engine, worker,
                 asked, channel>>

\* Fault: a start() from before survives.
CancelStart_Kept == startReq' = startReq /\ owed' = FALSE

\* "Last command wins": reset() and stop() cancel a start().
CancelStart == startReq' = FALSE /\ owed' = FALSE

\* reset() cancels and stops the sequencer, ...
Reset ==
  /\ Call
  /\ ~stopped /\ ~stopReq
  /\ CancelStart
  /\ stop_autosteer
  /\ call' = Doing("restore")
  /\ UNCHANGED <<serve, resetReq, stopReq, wake, phase, outside, engine, worker,
                 asked, task, due, sequencer, pending, inFlight, ready, reported>>

\* ... restores the task and raises its flag, ...
RestoreTask ==
  /\ call.op = "restore"
  /\ set_task(InitialTask)
  /\ resetReq' = TRUE
  /\ call' = Doing("end_segment")
  /\ UNCHANGED <<serve, startReq, stopReq, wake, phase, outside, engine, worker,
                 history, goal, due, sequencer, pending, inFlight, ready, reported>>

\* ... and ends the segment, as stop() does.
RequestSegmentEnd ==
  /\ call.op = "end_segment"
  /\ segStop' = TRUE /\ wake' = TRUE
  /\ call' = Free
  /\ UNCHANGED <<serve, startReq, resetReq, stopReq, running, stopped, outside,
                 engine, worker, history, channel>>

Stop ==
  /\ Call
  /\ ~stopped
  /\ CancelStart
  /\ stopReq' = TRUE
  /\ call' = Doing("end_segment")
  /\ UNCHANGED <<serve, resetReq, wake, phase, outside, engine, worker, asked,
                 channel>>

\* set_task() stops the sequencer, which would overwrite the instruction, ...
SetTask ==
  /\ Call
  /\ ~stopped /\ ~stopReq
  /\ stop_autosteer
  /\ \E t \in Task : call' = [op |-> "set_task", task |-> t]
  /\ UNCHANGED <<serve, requests, phase, outside, engine, worker, owed, asked, task,
                 due, sequencer, pending, inFlight, ready, reported>>

\* ... and gives it to the engine.
GiveTask ==
  /\ call.op = "set_task"
  /\ set_task(call.task)
  /\ call' = Free
  /\ UNCHANGED <<serve, requests, phase, outside, engine, worker, history, goal, due,
                 sequencer, pending, inFlight, ready, reported>>

Ask ==
  /\ Call
  /\ running
  /\ asked < MaxQuestions
  /\ ask(Question(asked + 1))
  /\ asked' = asked + 1
  /\ UNCHANGED <<serve, requests, phase, outside, call, engine, worker, owed,
                 steering, inFlight, ready, reported>>

Autosteer ==
  /\ Call
  /\ \/ running /\ \E g \in Goal : start_autosteer(g) /\ UNCHANGED told
     \/ stop_autosteer /\ UNCHANGED <<due, sequencer>>
  /\ UNCHANGED <<serve, requests, phase, outside, call, engine, worker, owed, asked,
                 task, pending, inFlight, ready, reported>>

Interrupt ==
  /\ ~parent
  /\ parent' = TRUE
  /\ UNCHANGED <<serve, requests, phase, strategyFailed, engineFailed, call, engine,
                 worker, history, channel>>

-----------------------------------------------------------------------------
(* The serve thread between segments.                                      *)

Go(from, to) == serve = from /\ serve' = to

\* The loop's conditions, and the return after a finished one.
Leave ==
  /\ Go("head", "leaving")
  /\ parent \/ Failed \/ stopReq
  /\ UNCHANGED <<requests, phase, outside, call, engine, worker, history, channel>>

LatchStopped ==
  /\ Go("leaving", "stopped")
  /\ stopped' = TRUE
  /\ UNCHANGED <<requests, running, segStop, outside, call, engine, worker, history,
                 channel>>

LookForReset ==
  /\ serve = "head"
  /\ ~parent /\ ~Failed /\ ~stopReq
  /\ serve' = IF resetReq THEN "homing" ELSE "look_for_start"
  /\ resetReq' = FALSE
  /\ UNCHANGED <<startReq, stopReq, wake, phase, outside, call, engine, worker,
                 history, channel>>

\* The engine is paused, and the robot moved if its initial pose is known.
ReturnHome ==
  /\ Go("homing", "head")
  /\ active' = FALSE
  /\ UNCHANGED <<requests, phase, outside, call, obs, worker, history, channel>>

LookForStart ==
  /\ serve = "look_for_start"
  /\ serve' = IF startReq THEN "consume" ELSE "idle"
  /\ UNCHANGED <<requests, phase, outside, call, engine, worker, history, channel>>

\* The idle pump delivers, and neither plans nor serves without an observation.
IdlePump ==
  /\ Go("idle", "waiting")
  /\ deliver_answer
  /\ UNCHANGED <<requests, phase, outside, call, engine, worker, history, steering,
                 pending, inFlight>>

\* Fault: the flag is lowered before the wait.
ClearWake_Early ==
  /\ \/ Go("waiting", "woken") /\ wake' = FALSE
     \/ Go("woken", "head") /\ wake /\ UNCHANGED wake
  /\ UNCHANGED <<startReq, resetReq, stopReq, phase, outside, call, engine, worker,
                 history, channel>>

\* The wait returns because somebody raised the flag, which is then lowered.
ClearWake ==
  /\ \/ Go("waiting", "woken") /\ wake /\ UNCHANGED wake
     \/ Go("woken", "head") /\ wake' = FALSE
  /\ UNCHANGED <<startReq, resetReq, stopReq, phase, outside, call, engine, worker,
                 history, channel>>

\* The wait returns after _POLL_INTERVAL_S.
PollTimeout ==
  /\ Go("waiting", "woken")
  /\ UNCHANGED <<requests, phase, outside, call, engine, worker, history, channel>>

-----------------------------------------------------------------------------
(* The serve thread in a segment: _run_segment around BaseStrategy.run.    *)

\* Under the control lock: the start is consumed and the segment runs.
Consume ==
  /\ serve = "consume" /\ call = Free
  /\ serve' = IF startReq THEN "clear" ELSE "head"
  /\ startReq' = FALSE
  /\ running' = startReq
  /\ UNCHANGED <<resetReq, stopReq, wake, stopped, segStop, outside, call, engine,
                 worker, history, channel>>

ClearSegmentStop ==
  /\ Go("clear", "check")
  /\ segStop' = FALSE
  /\ UNCHANGED <<requests, running, stopped, outside, call, engine, worker, history,
                 channel>>

\* Fault: a reset() that the clear has swallowed is not looked for.
Overtaken_Reset == stopReq \/ parent \/ engineFailed

\* Fault: a worker that died is not looked for.
Overtaken_Failure == stopReq \/ resetReq \/ parent

\* A request or failure whose segment-stop the clear may have swallowed.
Overtaken == stopReq \/ resetReq \/ parent \/ engineFailed

CheckSegment ==
  /\ serve = "check"
  /\ serve' = IF Overtaken THEN "end" ELSE "begin"
  /\ UNCHANGED <<requests, phase, outside, call, engine, worker, history, channel>>

\* reset_control_state drops the observation, SEGMENT_STARTED is emitted and
\* run() resumes the engine; a paused worker notices none of it in between.
BeginSegment ==
  /\ Go("begin", "loop")
  /\ obs' = FALSE /\ active' = TRUE
  /\ owed' = FALSE
  /\ UNCHANGED <<requests, phase, outside, call, worker, calls, asked, channel>>

\* run() returns on the segment's stop flag or the parent's, after its
\* duration, or by an exception before or after it has observed.
LeaveLoop ==
  /\ \/ Go("loop", "pause") /\ UNCHANGED strategyFailed
     \/ serve \in {"loop", "pump"} /\ serve' = "pause" /\ strategyFailed' = TRUE
  /\ UNCHANGED <<requests, phase, parent, engineFailed, call, engine, worker,
                 history, channel>>

MustLeave == segStop \/ parent

Tick ==
  /\ Go("loop", "pump")
  /\ ~MustLeave
  /\ obs' = TRUE
  /\ UNCHANGED <<requests, phase, outside, call, active, worker, history, channel>>

\* pump_query plans a turn if one is due; an inline engine then serves.
Pump ==
  /\ serve = "pump"
  /\ serve' = IF Inline THEN "serve_query" ELSE "deliver"
  /\ poll_autosteer
  /\ UNCHANGED <<requests, phase, outside, call, engine, worker, history, steering,
                 inFlight, ready, reported>>

Deliver ==
  /\ Go("deliver", "loop")
  /\ Inline => w = "top"
  /\ deliver_answer
  /\ UNCHANGED <<requests, phase, outside, call, engine, worker, history, steering,
                 pending, inFlight>>

Pause ==
  /\ Go("pause", "end")
  /\ active' = FALSE
  /\ UNCHANGED <<requests, phase, outside, call, obs, worker, history, channel>>

\* Under the control lock; a question lost to it is reported right after.
EndSegment ==
  /\ call = Free
  /\ Go("end", "head")
  /\ running' = FALSE
  /\ EndChannel
  /\ UNCHANGED <<requests, stopped, segStop, outside, call, engine, worker, history,
                 task, due, sequencer, inFlight>>

-----------------------------------------------------------------------------
(* The thread that owns the policy.                                        *)

\* The worker's gate: not paused, and an observation to look at.
Look ==
  /\ ~Inline
  /\ w = "top" /\ w' = "claim"
  /\ active /\ obs
  /\ UNCHANGED <<serve, requests, phase, outside, call, engine, q, history,
                 channel>>

\* Where the thread goes on when no query is being served.
Rest == IF Inline THEN "top" ELSE "refill"

Claim ==
  /\ \/ w = "claim" /\ UNCHANGED serve
     \/ Go("serve_query", "deliver")
  /\ q' = Claimed
  /\ w' = IF pending = NoQuery THEN Rest ELSE "generate"
  /\ take_query
  /\ UNCHANGED <<requests, phase, outside, call, engine, history, steering, ready,
                 reported>>

\* The text head answers, or raises; nothing is locked meanwhile.
Generate ==
  /\ w = "generate"
  /\ w' \in IF IsTurn(q) THEN {"apply", "fail"} ELSE {"publish"}
  /\ UNCHANGED <<serve, requests, phase, outside, call, engine, q, history,
                 channel>>

PublishIf(live) ==
  IF live THEN w' = "publish" /\ UNCHANGED q ELSE w' = Rest /\ q' = NoQuery

Apply ==
  /\ w = "apply"
  /\ \E t \in Task : apply_subtask(q, t)
  /\ PublishIf(Live(q))
  /\ UNCHANGED <<serve, requests, phase, outside, call, engine, history, sequencer,
                 pending, ready, reported>>

Fail ==
  /\ w = "fail"
  /\ fail_subtask(q)
  /\ PublishIf(Live(q))
  /\ UNCHANGED <<serve, requests, phase, outside, call, engine, history, task, due,
                 sequencer, pending, ready, reported>>

Publish ==
  /\ w = "publish" /\ w' = Rest
  /\ publish_answer(q) /\ q' = NoQuery
  /\ UNCHANGED <<serve, requests, phase, outside, call, engine, history, steering,
                 pending, reported>>

\* The worker refills the action queue (RTCEngine); errors may persist.
Refill ==
  /\ w = "refill"
  /\ \/ w' = "top" /\ UNCHANGED engineFailed
     \/ w' = "signal" /\ engineFailed' = TRUE
  /\ UNCHANGED <<serve, requests, phase, parent, strategyFailed, call, engine, q,
                 history, channel>>

\* The stop event it was given is the controller's _segment_stop.
Signal ==
  /\ w = "signal" /\ w' = "dead"
  /\ segStop' = TRUE
  /\ UNCHANGED <<serve, requests, running, stopped, outside, call, engine, q,
                 history, channel>>

Due ==
  /\ goal # None /\ ~due
  /\ due' = TRUE
  /\ UNCHANGED <<serve, requests, phase, outside, call, engine, worker, history,
                 task, goal, told, sequencer, pending, inFlight, ready, reported>>

-----------------------------------------------------------------------------
FinishCall == RestoreTask \/ RequestSegmentEnd \/ GiveTask

BetweenSegments ==
  Leave \/ LatchStopped \/ LookForReset \/ ReturnHome \/ LookForStart \/ IdlePump \/ ClearWake

InSegment ==
  \/ Consume \/ ClearSegmentStop \/ CheckSegment \/ BeginSegment
  \/ Tick \/ Pump \/ Deliver \/ Pause \/ EndSegment

Worker == Look \/ Claim \/ Generate \/ Apply \/ Fail \/ Publish \/ Refill \/ Signal

Operator == Start \/ Reset \/ Stop \/ SetTask \/ Ask \/ Autosteer \/ Interrupt

Next ==
  \/ Operator \/ FinishCall
  \/ BetweenSegments \/ PollTimeout \/ InSegment \/ LeaveLoop
  \/ Worker \/ Due

PollIdle == ~startReq /\ ~resetReq /\ ~stopReq /\ PollTimeout

Serve == BetweenSegments \/ InSegment \/ (MustLeave /\ LeaveLoop)

Spec == Init /\ [][Next]_vars

\* Threads run on, calls return, text generation ends and time passes.  Nobody
\* has to call, to fail or to interrupt, and a duration need not be set.  Weak
\* fairness for the control lock rests on MaxCalls: operators who call without
\* pause could keep a CPython Lock from the serve thread.
ThreadFairness ==
  /\ WF_vars(Serve)
  /\ WF_vars(FinishCall) /\ WF_vars(Worker) /\ WF_vars(Due)

\* The timeout of the idle wait is relied upon only when no request is up: a
\* request has to be seen because it wakes the serve thread.
FairSpec ==
  /\ Spec /\ ThreadFairness
  /\ WF_vars(PollIdle)

-----------------------------------------------------------------------------
(* Properties.                                                             *)

Queries ==
  {NoQuery} \cup {Turn(g, n) : g \in Goal, n \in 0..MaxCalls}
            \cup {Question(n) : n \in 1..MaxQuestions}

SegmentBody == {"begin", "loop", "pump", "serve_query", "deliver", "pause"}

ServeType ==
  /\ serve \in SegmentBody \cup {"head", "leaving", "stopped", "look_for_start", "homing",
               "idle", "waiting", "woken", "consume", "clear", "check", "end"}
  /\ running <=> serve \in SegmentBody \cup {"clear", "check", "end"}

FlagType ==
  /\ startReq \in BOOLEAN /\ resetReq \in BOOLEAN /\ stopReq \in BOOLEAN /\ wake \in BOOLEAN
  /\ running \in BOOLEAN /\ stopped \in BOOLEAN /\ segStop \in BOOLEAN
  /\ parent \in BOOLEAN /\ strategyFailed \in BOOLEAN /\ engineFailed \in BOOLEAN
  /\ active \in BOOLEAN /\ obs \in BOOLEAN /\ owed \in BOOLEAN

ThreadType ==
  /\ call.op \in {"free", "restore", "end_segment", "set_task"} /\ call.task \in Task
  /\ w \in {"top", "claim", "generate", "apply", "fail", "publish", "refill", "signal", "dead"}
  /\ calls \in 0..MaxCalls /\ asked \in 0..MaxQuestions

ChannelType ==
  /\ task \in Task /\ told \in Task /\ goal \in Goal \cup {None}
  /\ due \in BOOLEAN /\ inFlight \in BOOLEAN
  /\ sequencer \in 0..MaxCalls
  /\ {pending, q} \subseteq Queries
  /\ IsABag(ready) /\ BagToSet(ready) \subseteq Queries \ {NoQuery}
  /\ reported \in [1..MaxQuestions -> Nat]

\* Every variable has its type, and the robot is only driven while the
\* segment counts as running.
TypeOK == ServeType /\ FlagType /\ ThreadType /\ ChannelType

\* Once reset() or stop() has returned, or a dying worker has signalled, a
\* segment that has not ended has its stop flag up, whatever _run_segment's
\* clear of the flag met (controller.py:393-403).
RequestEndsSegment ==
  serve \in SegmentBody /\ call = Free /\ (resetReq \/ stopReq \/ w = "dead") => segStop

\* Outside a segment no query waits and no sequencer drives: ask() and
\* autosteer() cannot slip past the end of the segment (controller.py:301, 416).
NoOrphan == ~running => pending = NoQuery /\ goal = None

\* While a turn of the sequencer is queued, no other is being served: the poll
\* sees every claimed turn, those of a stopped or replaced sequencer included
\* (base.py:127-129, 310).
SingleTurn == IsTurn(pending) => ~IsTurn(q)

\* Every question accepted is queued, being answered, answered and undelivered,
\* or reported: never lost, never twice, however segments end and turns are
\* discarded in between (base.py:316, 440-456, controller.py:416-430).
QuestionConserved ==
  \A n \in 1..asked :
    LET Here(query) == IF query = Question(n) THEN 1 ELSE 0
    IN  Here(pending) + Here(q) + Copies(Question(n), ready) + reported[n] = 1

\* Unless a sequencer drives, the instruction is the one the operator last gave
\* or left in force when stopping it: a turn generated for seconds without a
\* lock never overwrites it (base.py:381-395).
TaskIsTold == goal = None => task = told

\* A pending start request is one accepted after every reset() and stop(), and
\* none is armed behind a running segment (controller.py:253, 365).
StartCurrent == startReq => owed /\ ~running

\* No subtask is left to be announced once its segment has ended
\* (controller.py:423, base.py:429-430).
NoLateAnnouncement == ~running => \A answer \in BagToSet(ready) : ~IsTurn(answer)

\* A start() that returned True and that no later reset() or stop() overruled
\* is still to be consumed or running, unless the program ends
\* (controller.py:231-232).
StartKept == owed /\ ~stopReq /\ ~Failed /\ ~parent => startReq \/ running

\* A turn is applied to, or stops, only the sequencer that drove when it was
\* claimed, not one started while it was being generated
\* (base.py:361-362).
TurnsOwnSequencer ==
  [][(w \in {"apply", "fail"} /\ w' = "publish") => q.of = sequencer]_vars

\* A reset is carried out, or serve() returns, even if the idle wait never
\* times out (controller.py:360, 377-379).
ResetHonoured == resetReq ~> (~resetReq \/ stopped)

\* stop(), a failure and the parent's shutdown all end serve(), also when the
\* segment-stop of a dying worker is swallowed (controller.py:351-359, 395).
StopEnds == (stopReq \/ Failed \/ parent) ~> stopped

\* Every accepted question is answered or reported, unless serve() returns.
QuestionAnswered == \A n \in 1..MaxQuestions : asked >= n ~> (reported[n] = 1 \/ stopped)

\* A sequencer never stalls: turn follows turn until it is stopped, discarded
\* turns and questions in between notwithstanding (base.py:370, 395).
SequencerTurns == []<>(goal = None \/ (w = "generate" /\ IsTurn(q)))
=============================================================================
