------------------------ MODULE RolloutControllerProofs ------------------------
(***************************************************************************)
(* Theorems about RolloutController, for both kinds of engine, any         *)
(* instructions and goals, and any number of calls and questions.          *)
(*                                                                         *)
(* Three invariants.  ControlInv is about requests, the segment stop and   *)
(* the segment; ChannelInv, which needs where the segment runs from the    *)
(* first, is about the query channel and the thread that serves it; and    *)
(* QuestionInv says where each question is.                                *)
(***************************************************************************)
EXTENDS RolloutController, TLAPS

\* Where the segment counts as running.
RunningPlaces == SegmentBody \cup {"clear", "check", "end"}

RunningInv == running <=> serve \in RunningPlaces

\* A dying worker has marked the engine as failed before it signals, so that
\* the check after the clear sees the failure the clear may have swallowed.
FailureInv == w \in {"signal", "dead"} => engineFailed

\* A request or a dead worker that the segment should notice: its stop is up,
\* or the call that raised the request has yet to raise it.
SignalInv ==
  serve \in SegmentBody /\ (resetReq \/ stopReq \/ w = "dead")
    => segStop \/ call.op = "end_segment"

ControlInv == RunningInv /\ FailureInv /\ SignalInv /\ StartCurrent

\* A turn's text is a goal, and only a turn is applied or fails.
TurnInv ==
  /\ goal \in Goal \cup {None}
  /\ IsTurn(pending) => pending.text \in Goal
  /\ IsTurn(q) => q.text \in Goal
  /\ w \in {"apply", "fail"} => IsTurn(q)

\* Whatever is being served is marked as in flight, so the poll sees it.
FlightInv == q # NoQuery => inFlight

ChannelInv == TurnInv /\ FlightInv /\ NoOrphan /\ SingleTurn /\ TaskIsTold

IInv == ControlInv /\ ChannelInv

-----------------------------------------------------------------------------
(* The control side.                                                       *)

\* Every control method, and the rest of it, keeps ControlInv.
LEMMA CallsKeepControl ==
  ASSUME ControlInv, Operator \/ FinishCall PROVE ControlInv'
<1> USE DEF ControlInv, RunningInv, FailureInv, SignalInv, StartCurrent, requests, phase,
  outside, worker, history
<1>1. CASE Start
  BY <1>1 DEF Start, StartAccepted
<1>2. CASE Reset
  BY <1>2 DEF Reset, Call, Free, CancelStart
<1>3. CASE Stop
  BY <1>3 DEF Stop, Call, Free, CancelStart, Doing
<1>4. CASE SetTask
  BY <1>4 DEF SetTask, Call, Free
<1>5. CASE Ask \/ Autosteer
  BY <1>5 DEF Ask, Autosteer
<1>6. CASE Interrupt
  BY <1>6 DEF Interrupt
<1>7. CASE RestoreTask
  BY <1>7 DEF RestoreTask, Doing
<1>8. CASE RequestSegmentEnd
  BY <1>8 DEF RequestSegmentEnd
<1>9. CASE GiveTask
  BY <1>9 DEF GiveTask
<1> QED BY <1>1, <1>2, <1>3, <1>4, <1>5, <1>6, <1>7, <1>8, <1>9 DEF Operator, FinishCall

\* So does every step of the serve thread.
LEMMA ServeKeepsControl ==
  ASSUME ControlInv, BetweenSegments \/ PollTimeout \/ InSegment \/ LeaveLoop PROVE ControlInv'
<1> USE DEF ControlInv, RunningInv, RunningPlaces, SegmentBody, FailureInv, SignalInv,
  StartCurrent, requests, phase, outside, worker, history, Go
<1>1. CASE Leave \/ LatchStopped
  BY <1>1 DEF Leave, LatchStopped
<1>2. CASE LookForReset
  BY <1>2 DEF LookForReset
<1>3. CASE ReturnHome \/ LookForStart
  BY <1>3 DEF ReturnHome, LookForStart
<1>4. CASE IdlePump \/ ClearWake \/ PollTimeout
  BY <1>4 DEF IdlePump, ClearWake, PollTimeout
<1>5. CASE Consume
  BY <1>5 DEF Consume
<1>6. CASE ClearSegmentStop
  BY <1>6 DEF ClearSegmentStop
<1>7. CASE CheckSegment
  <2>1. serve' = "begin" => ~resetReq /\ ~stopReq /\ w # "dead"
    BY <1>7 DEF CheckSegment, Overtaken
  <2> QED BY <1>7, <2>1 DEF CheckSegment
<1>8. CASE BeginSegment
  BY <1>8 DEF BeginSegment
<1>9. CASE LeaveLoop
  BY <1>9 DEF LeaveLoop
<1>10. CASE Tick \/ Pump \/ Deliver
  BY <1>10 DEF Tick, Pump, Deliver
<1>11. CASE Pause \/ EndSegment
  BY <1>11 DEF Pause, EndSegment
<1> QED BY <1>1, <1>2, <1>3, <1>4, <1>5, <1>6, <1>7, <1>8, <1>9, <1>10, <1>11
  DEF BetweenSegments, InSegment

\* So does every step of the thread that owns the policy.
LEMMA WorkerKeepsControl ==
  ASSUME ControlInv, Worker \/ Due PROVE ControlInv'
<1> USE DEF ControlInv, RunningInv, RunningPlaces, SegmentBody, FailureInv, SignalInv,
  StartCurrent, requests, phase, outside, worker, history
<1>1. CASE Look \/ Generate \/ Due
  BY <1>1 DEF Look, Generate, Due
<1>2. CASE Claim
  BY <1>2 DEF Claim, Go, Rest
<1>3. CASE Apply \/ Fail
  BY <1>3 DEF Apply, Fail, PublishIf, Rest
<1>4. CASE Publish
  BY <1>4 DEF Publish, Rest
<1>5. CASE Refill
  BY <1>5 DEF Refill
<1>6. CASE Signal
  BY <1>6 DEF Signal
<1> QED BY <1>1, <1>2, <1>3, <1>4, <1>5, <1>6 DEF Worker

LEMMA NextControl == ControlInv /\ [Next]_vars => ControlInv'
<1> SUFFICES ASSUME ControlInv, [Next]_vars PROVE ControlInv'
  OBVIOUS
<1>1. CASE UNCHANGED vars
  BY <1>1 DEF vars, requests, phase, outside, worker, history, ControlInv, RunningInv, FailureInv,
    SignalInv, StartCurrent
<1> QED BY <1>1, CallsKeepControl, ServeKeepsControl, WorkerKeepsControl DEF Next

-----------------------------------------------------------------------------
(* The query channel.                                                      *)

\* A step that leaves the channel and its server alone, and does not end the
\* segment, keeps ChannelInv.
LEMMA ChannelFrame ==
  ASSUME ChannelInv, UNCHANGED <<goal, task, told, pending, inFlight, q>>,
         w' \in {"apply", "fail"} => w' = w \/ IsTurn(q),
         running => running'
  PROVE  ChannelInv'
  BY DEF ChannelInv, TurnInv, FlightInv, NoOrphan, SingleTurn, TaskIsTold

\* The control methods.
LEMMA CallsKeepChannel ==
  ASSUME ChannelInv, Operator \/ FinishCall PROVE ChannelInv'
<1> USE ChannelAssumption DEF ChannelInv, TurnInv, FlightInv, NoOrphan, SingleTurn, TaskIsTold,
  phase, worker
<1>1. CASE Start \/ Stop \/ Interrupt \/ RequestSegmentEnd
  BY <1>1, ChannelFrame DEF Start, Stop, Interrupt, RequestSegmentEnd, channel, steering
<1>2. CASE Reset
  BY <1>2 DEF Reset, stop_autosteer
<1>3. CASE SetTask
  BY <1>3 DEF SetTask, stop_autosteer
<1>4. CASE RestoreTask \/ GiveTask
  BY <1>4 DEF RestoreTask, GiveTask, set_task
<1>5. CASE Ask
  BY <1>5 DEF Ask, ask, Question, IsTurn, steering
<1>6. CASE Autosteer
  BY <1>6 DEF Autosteer, start_autosteer, stop_autosteer
<1> QED BY <1>1, <1>2, <1>3, <1>4, <1>5, <1>6 DEF Operator, FinishCall

\* The serve thread: only the poll queues a turn, and only the end of a segment
\* stops the sequencer.
LEMMA ServeKeepsChannel ==
  ASSUME RunningInv, ChannelInv, BetweenSegments \/ PollTimeout \/ InSegment \/ LeaveLoop
  PROVE  ChannelInv'
<1> USE DEF channel, steering, phase, worker
<1>1. CASE BetweenSegments \/ PollTimeout \/ LeaveLoop
  BY <1>1, ChannelFrame DEF BetweenSegments, Leave, LatchStopped, LookForReset, ReturnHome,
    LookForStart, IdlePump, ClearWake, PollTimeout, LeaveLoop
<1>2. CASE Consume
  <2>1. ~running
    BY <1>2 DEF Consume, RunningInv, RunningPlaces, SegmentBody
  <2> QED BY <1>2, <2>1, ChannelFrame DEF Consume
<1>3. CASE ClearSegmentStop \/ CheckSegment \/ BeginSegment \/ Tick \/ Deliver \/ Pause
  BY <1>3, ChannelFrame DEF ClearSegmentStop, CheckSegment, BeginSegment, Tick, Deliver, Pause
<1>4. CASE Pump
  <2>1. running
    BY <1>4 DEF Pump, RunningInv, RunningPlaces, SegmentBody
  <2>2. pending' = pending \/ (pending' = Turn(goal, 0) /\ goal # None /\ ~inFlight)
    BY <1>4 DEF Pump, poll_autosteer, CanPlan
  <2> QED BY <1>4, <2>1, <2>2
    DEF Pump, ChannelInv, TurnInv, FlightInv, NoOrphan, SingleTurn, TaskIsTold, Turn, IsTurn,
    NoQuery
<1>5. CASE EndSegment
  BY <1>5 DEF EndSegment, EndChannel, stop_autosteer, ChannelInv, TurnInv, FlightInv, NoOrphan,
    SingleTurn, TaskIsTold, IsTurn, NoQuery
<1> QED BY <1>1, <1>2, <1>3, <1>4, <1>5 DEF InSegment

\* The thread that owns the policy: the claim empties the slot, and a turn is
\* applied only while a goal is set.
LEMMA WorkerKeepsChannel ==
  ASSUME ChannelInv, Worker \/ Due PROVE ChannelInv'
<1> USE DEF channel, steering, phase, worker
<1>1. CASE Look \/ Refill \/ Signal \/ Due
  BY <1>1, ChannelFrame DEF Look, Refill, Signal, Due
<1>2. CASE Generate
  BY <1>2, ChannelFrame DEF Generate
<1>3. CASE Claim
  BY <1>3 DEF Claim, Claimed, take_query, Rest, ChannelInv, TurnInv, FlightInv, NoOrphan,
    SingleTurn, TaskIsTold, Turn, IsTurn, NoQuery
<1>4. CASE Apply
  <2>1. Live(q) => goal # None
    BY <1>4, ChannelAssumption DEF Apply, Live, ChannelInv, TurnInv
  <2> QED BY <1>4, <2>1 DEF Apply, apply_subtask, PublishIf, Rest, ChannelInv, TurnInv, FlightInv,
    NoOrphan, SingleTurn, TaskIsTold, IsTurn, NoQuery
<1>5. CASE Fail
  BY <1>5 DEF Fail, fail_subtask, stop_autosteer, PublishIf, Rest, ChannelInv, TurnInv, FlightInv,
    NoOrphan, SingleTurn, TaskIsTold, IsTurn, NoQuery
<1>6. CASE Publish
  BY <1>6 DEF Publish, publish_answer, Rest, ChannelInv, TurnInv, FlightInv, NoOrphan, SingleTurn,
    TaskIsTold, IsTurn, NoQuery
<1> QED BY <1>1, <1>2, <1>3, <1>4, <1>5, <1>6 DEF Worker

-----------------------------------------------------------------------------
(* Questions.  Each of them is in exactly one place, which needs that the  *)
(* thread owning the policy holds no query when it claims the next, and    *)
(* that the queries are told apart by what they carry.                     *)

\* Only a thread that is serving holds a query; an inline engine serves
\* between the pump and the delivery only, any other never there.
ServerInv ==
  /\ q = NoQuery <=> w \in {"top", "claim", "refill", "signal", "dead"}
  /\ Inline => (w # "top" => serve = "deliver")
  /\ ~Inline => serve # "serve_query"

\* Every sequencer was started by a call.
SequencerInv == sequencer <= calls

TypeInv == TypeOK /\ SequencerInv

Here(query, n) == IF query = Question(n) THEN 1 ELSE 0

\* In how many places question n is.
Places(n) == Here(pending, n) + Here(q, n) + Copies(Question(n), ready) + reported[n]

\* One place for a question that was asked, none for a question to come.
PlacesInv == \A n \in 1..MaxQuestions : Places(n) = IF n <= asked THEN 1 ELSE 0

QuestionInv == TypeInv /\ ServerInv /\ PlacesInv

\* Queries of different kinds differ, and so do different questions.
LEMMA Kinds ==
  /\ \A m, n : Question(m) = Question(n) <=> m = n
  /\ \A n : Question(n) # NoQuery /\ IsQuestion(Question(n)) /\ ~IsTurn(Question(n))
  /\ \A g, n, m : Question(n) # Turn(g, m) /\ IsTurn(Turn(g, m)) /\ Turn(g, m) # NoQuery
  /\ ~IsTurn(NoQuery) /\ ~IsQuestion(NoQuery)
  BY DEF Question, Turn, NoQuery, IsQuestion, IsTurn

\* The members of Queries.
LEMMA QueriesAre ==
  /\ NoQuery \in Queries
  /\ \A g \in Goal, n \in 0..MaxCalls : Turn(g, n) \in Queries
  /\ \A n \in 1..MaxQuestions : Question(n) \in Queries
  BY DEF Queries

\* A bag that gains one element.
LEMMA Gained ==
  ASSUME NEW b, IsABag(b), NEW x
  PROVE  /\ IsABag(b (+) SetToBag({x}))
         /\ BagToSet(b (+) SetToBag({x})) = BagToSet(b) \cup {x}
         /\ \A e : Copies(e, b (+) SetToBag({x})) = Copies(e, b) + (IF e = x THEN 1 ELSE 0)
  BY DEF IsABag, (+), SetToBag, Copies, BagIn, BagToSet

\* A bag that keeps its questions only.
LEMMA QuestionsKept ==
  ASSUME NEW b, IsABag(b)
  PROVE  /\ IsABag(QuestionsIn(b))
         /\ BagToSet(QuestionsIn(b)) \subseteq BagToSet(b)
         /\ \A n : Copies(Question(n), QuestionsIn(b)) = Copies(Question(n), b)
  BY Kinds DEF IsABag, QuestionsIn, Copies, BagIn, BagToSet

\* The empty bag, a bag of one element, and how many copies there can be.
LEMMA SmallBags ==
  /\ IsABag(EmptyBag) /\ BagToSet(EmptyBag) = {}
  /\ \A e : Copies(e, EmptyBag) = 0
  /\ \A e, x : Copies(e, SetToBag({x})) = IF e = x THEN 1 ELSE 0
  /\ \A b, e : IsABag(b) => Copies(e, b) \in Nat
  /\ \A x : IsABag(SetToBag({x}))
  BY DEF IsABag, EmptyBag, SetToBag, Copies, BagIn, BagToSet

\* Counting adds to every question the copies that are handed over.
LEMMA Counted ==
  ASSUME NEW b, IsABag(b), reported \in [1..MaxQuestions -> Nat]
  PROVE  /\ Count(reported, b) \in [1..MaxQuestions -> Nat]
         /\ \A n \in 1..MaxQuestions :
              Count(reported, b)[n] = reported[n] + Copies(Question(n), b)
  BY SmallBags DEF Count

\* Where the serve thread is, and that the segment counts as running there.
LEMMA ServeTypes == TypeInv /\ Next => ServeType'
<1> SUFFICES ASSUME ServeType, Next PROVE ServeType'
  BY DEF TypeInv, TypeOK
<1> USE DEF ServeType, SegmentBody, phase, Go
<1>1. CASE Operator \/ FinishCall
  BY <1>1 DEF Operator, FinishCall, Start, Reset, Stop, SetTask, Ask, Autosteer, Interrupt,
    RestoreTask, RequestSegmentEnd, GiveTask
<1>2. CASE BetweenSegments \/ PollTimeout
  BY <1>2 DEF BetweenSegments, Leave, LatchStopped, LookForReset, ReturnHome, LookForStart, IdlePump,
    ClearWake, PollTimeout
<1>3. CASE Consume
  BY <1>3 DEF Consume
<1>4. CASE (InSegment /\ ~Consume) \/ LeaveLoop
  BY <1>4 DEF InSegment, ClearSegmentStop, CheckSegment, BeginSegment, Tick, Pump, Deliver, Pause,
    EndSegment, LeaveLoop
<1>5. CASE Worker \/ Due
  BY <1>5 DEF Worker, Look, Claim, Generate, Apply, Fail, Publish, Refill, Signal, Due
<1> QED BY <1>1, <1>2, <1>3, <1>4, <1>5 DEF Next

\* The flags: most steps raise them, those named here lower one.
LEMMA FlagTypes == TypeInv /\ Next => FlagType'
<1> SUFFICES ASSUME FlagType, Next PROVE FlagType'
  BY DEF TypeInv, TypeOK
<1> USE DEF FlagType, requests, phase, outside, engine, worker, history, channel
<1>1. CASE Operator
  <2>1. CASE Reset
    <3>1. startReq' \in BOOLEAN
      BY Zenon, <2>1 DEF Reset, CancelStart
    <3>2. owed' \in BOOLEAN
      BY Zenon, <2>1 DEF Reset, CancelStart
    <3> QED BY <2>1, <3>1, <3>2 DEF Reset, CancelStart
  <2>2. CASE Stop
    <3>1. startReq' \in BOOLEAN
      BY Zenon, <2>2 DEF Stop, CancelStart
    <3>2. owed' \in BOOLEAN
      BY Zenon, <2>2 DEF Stop, CancelStart
    <3> QED BY <2>2, <3>1, <3>2 DEF Stop, CancelStart
  <2>3. CASE Start
    BY <2>3 DEF Start
  <2>4. CASE SetTask
    BY <2>4 DEF SetTask
  <2>5. CASE Ask
    BY <2>5 DEF Ask
  <2>6. CASE Autosteer
    BY <2>6 DEF Autosteer
  <2>7. CASE Interrupt
    BY <2>7 DEF Interrupt
  <2> QED BY <1>1, <2>1, <2>2, <2>3, <2>4, <2>5, <2>6, <2>7 DEF Operator
<1>2. CASE FinishCall
  <2>1. CASE RestoreTask
    BY <2>1 DEF RestoreTask
  <2>2. CASE RequestSegmentEnd
    BY <2>2 DEF RequestSegmentEnd
  <2>3. CASE GiveTask
    BY <2>3 DEF GiveTask
  <2> QED BY <1>2, <2>1, <2>2, <2>3 DEF FinishCall
<1>3. CASE BetweenSegments
  <2>1. CASE LookForReset
    <3>1. resetReq' \in BOOLEAN
      BY Zenon, <2>1 DEF LookForReset
    <3> QED BY <2>1, <3>1 DEF LookForReset
  <2>2. CASE ReturnHome
    <3>1. active' \in BOOLEAN
      BY Zenon, <2>2 DEF ReturnHome
    <3> QED BY <2>2, <3>1 DEF ReturnHome
  <2>3. CASE ClearWake
    <3>1. wake' \in BOOLEAN
      BY Zenon, <2>3 DEF ClearWake
    <3> QED BY <2>3, <3>1 DEF ClearWake
  <2>4. CASE Leave
    <3>1. UNCHANGED <<requests, phase, outside, engine, history>>
      BY <2>4 DEF Leave
    <3> QED BY <3>1
  <2>5. CASE LatchStopped
    BY <2>5 DEF LatchStopped
  <2>6. CASE LookForStart \/ IdlePump
    BY <2>6 DEF LookForStart, IdlePump
  <2> QED BY <1>3, <2>1, <2>2, <2>3, <2>4, <2>5, <2>6 DEF BetweenSegments
<1>4. CASE InSegment
  <2>1. CASE Consume
    <3>1. startReq' \in BOOLEAN
      BY Zenon, <2>1 DEF Consume
    <3> QED BY <2>1, <3>1 DEF Consume
  <2>2. CASE ClearSegmentStop
    <3>1. segStop' \in BOOLEAN
      BY Zenon, <2>2 DEF ClearSegmentStop
    <3> QED BY <2>2, <3>1 DEF ClearSegmentStop
  <2>3. CASE BeginSegment
    <3>1. obs' \in BOOLEAN
      BY Zenon, <2>3 DEF BeginSegment
    <3>2. owed' \in BOOLEAN
      BY Zenon, <2>3 DEF BeginSegment
    <3> QED BY <2>3, <3>1, <3>2 DEF BeginSegment
  <2>4. CASE Pause
    <3>1. active' \in BOOLEAN
      BY Zenon, <2>4 DEF Pause
    <3> QED BY <2>4, <3>1 DEF Pause
  <2>5. CASE EndSegment
    <3>1. running' \in BOOLEAN
      BY Zenon, <2>5 DEF EndSegment
    <3> QED BY <2>5, <3>1 DEF EndSegment
  <2>6. CASE CheckSegment
    <3>1. UNCHANGED <<requests, phase, outside, engine, history>>
      BY <2>6 DEF CheckSegment
    <3> QED BY <3>1
  <2>7. CASE Tick
    <3>1. UNCHANGED <<requests, phase, outside, active, history>> /\ obs' = TRUE
      BY <2>7 DEF Tick
    <3> QED BY <3>1
  <2>8. CASE Pump \/ Deliver
    BY <2>8 DEF Pump, Deliver
  <2> QED BY <1>4, <2>1, <2>2, <2>3, <2>4, <2>5, <2>6, <2>7, <2>8 DEF InSegment
<1>5. CASE Worker
  <2>1. CASE Look
    BY <2>1 DEF Look
  <2>2. CASE Claim
    BY <2>2 DEF Claim
  <2>3. CASE Generate
    BY <2>3 DEF Generate
  <2>4. CASE Apply
    BY <2>4 DEF Apply
  <2>5. CASE Fail
    BY <2>5 DEF Fail
  <2>6. CASE Publish
    BY <2>6 DEF Publish
  <2>7. CASE Refill
    <3>1. engineFailed' = engineFailed \/ engineFailed' = TRUE
      BY <2>7 DEF Refill
    <3>2. engineFailed' \in BOOLEAN
      BY Zenon, <3>1
    <3>3. UNCHANGED <<requests, phase, parent, strategyFailed, engine, history>>
      BY <2>7 DEF Refill
    <3> QED BY <3>2, <3>3
  <2>8. CASE Signal
    BY <2>8 DEF Signal
  <2> QED BY <1>5, <2>1, <2>2, <2>3, <2>4, <2>5, <2>6, <2>7, <2>8 DEF Worker
<1>6. CASE PollTimeout \/ LeaveLoop \/ Due
  <2>1. CASE PollTimeout
    BY <2>1 DEF PollTimeout
  <2>2. CASE LeaveLoop
    <3>1. strategyFailed' = strategyFailed \/ strategyFailed' = TRUE
      BY <2>2 DEF LeaveLoop
    <3>2. strategyFailed' \in BOOLEAN
      BY Zenon, <3>1
    <3>3. UNCHANGED <<requests, phase, parent, engineFailed, engine, history>>
      BY <2>2 DEF LeaveLoop
    <3> QED BY <3>2, <3>3
  <2>3. CASE Due
    BY <2>3 DEF Due
  <2> QED BY <1>6, <2>1, <2>2, <2>3
<1> QED BY <1>1, <1>2, <1>3, <1>4, <1>5, <1>6 DEF Next

\* The control lock, the serving thread's place and the bounds.
LEMMA ThreadTypes == TypeInv /\ Next => ThreadType'
<1> SUFFICES ASSUME TypeInv, Next PROVE ThreadType'
  OBVIOUS
<1>0. InitialTask \in Task /\ MaxCalls \in Nat /\ MaxQuestions \in Nat
  BY ChannelAssumption, ControllerAssumption
<1> USE DEF TypeInv, TypeOK, ThreadType, worker, history
<1>1. CASE Operator \/ FinishCall
  BY <1>0, <1>1 DEF Operator, FinishCall, Start, Reset, CancelStart, Stop, SetTask, Ask,
    Autosteer, Interrupt, RestoreTask, RequestSegmentEnd, GiveTask, Call, Free, Doing
<1>2. CASE BetweenSegments \/ PollTimeout
  BY <1>2 DEF BetweenSegments, Leave, LatchStopped, LookForReset, ReturnHome, LookForStart, IdlePump,
    ClearWake, PollTimeout
<1>3. CASE InSegment \/ LeaveLoop
  BY <1>3 DEF InSegment, Consume, ClearSegmentStop, CheckSegment, BeginSegment, Tick, Pump, Deliver,
    Pause, EndSegment, LeaveLoop
<1>4. CASE Worker \/ Due
  BY <1>4 DEF Worker, Look, Claim, Generate, Apply, Fail, Publish, Refill, Signal, Due, Rest,
    PublishIf
<1> QED BY <1>1, <1>2, <1>3, <1>4 DEF Next

\* Steps that leave the channel and its server alone.
LEMMA ChannelTypeFrame ==
  ASSUME TypeInv, UNCHANGED <<channel, q>>, calls' \in Nat, calls <= calls'
  PROVE  ChannelType' /\ SequencerInv'
<1>1. calls \in 0..MaxCalls /\ MaxCalls \in Nat
  BY ControllerAssumption DEF TypeInv, TypeOK, ThreadType
<1> QED BY <1>1 DEF TypeInv, TypeOK, ChannelType, SequencerInv, channel, steering

\* The channel, whichever thread is in it.
LEMMA ChannelTypes == TypeInv /\ ServerInv /\ Next => ChannelType' /\ SequencerInv'
<1> SUFFICES ASSUME TypeInv, ServerInv, Next PROVE ChannelType' /\ SequencerInv'
  OBVIOUS
<1>0. /\ InitialTask \in Task /\ MaxCalls \in Nat /\ MaxQuestions \in Nat
      /\ ChannelType /\ calls \in 0..MaxCalls /\ asked \in 0..MaxQuestions /\ sequencer <= calls
      /\ call.task \in Task
  BY ChannelAssumption, ControllerAssumption DEF TypeInv, TypeOK, ThreadType, SequencerInv
<1> USE DEF worker, history
<1>1. CASE Start \/ Stop \/ Interrupt \/ RequestSegmentEnd
  <2>1. UNCHANGED <<channel, q>> /\ calls' \in {calls, calls + 1}
    BY <1>1 DEF Start, Stop, Interrupt, RequestSegmentEnd, Call
  <2> QED BY <1>0, <2>1, ChannelTypeFrame
<1>2. CASE Reset \/ SetTask
  <2>1. /\ UNCHANGED <<task, due, sequencer, pending, inFlight, ready, reported, q>>
        /\ goal' = None /\ told' \in {told, task} /\ calls' = calls + 1
    BY <1>2 DEF Reset, SetTask, stop_autosteer, Call
  <2> QED BY <1>0, <2>1 DEF ChannelType, SequencerInv
<1>3. CASE RestoreTask \/ GiveTask
  <2>1. /\ UNCHANGED <<goal, due, sequencer, pending, inFlight, ready, reported, q, calls>>
        /\ task' \in Task /\ told' \in Task
    BY <1>0, <1>3 DEF RestoreTask, GiveTask, set_task
  <2> QED BY <1>0, <2>1 DEF ChannelType, SequencerInv
<1>4. CASE Ask
  <2>1. /\ UNCHANGED <<task, goal, due, told, sequencer, inFlight, ready, reported, q>>
        /\ pending' = Question(asked + 1) /\ asked + 1 \in 1..MaxQuestions /\ calls' = calls + 1
    BY <1>0, <1>4 DEF Ask, ask, steering, Call
  <2> QED BY <1>0, <2>1, QueriesAre DEF ChannelType, SequencerInv
<1>5. CASE Autosteer
  <2>1. /\ UNCHANGED <<task, pending, inFlight, ready, reported, q>>
        /\ calls' = calls + 1 /\ calls < MaxCalls
        /\ goal' \in Goal \cup {None} /\ told' \in {told, task}
        /\ sequencer' \in {sequencer, sequencer + 1}
    BY <1>5 DEF Autosteer, start_autosteer, stop_autosteer, Call
  <2>2. due' \in BOOLEAN
    BY Zenon, <1>0, <1>5 DEF Autosteer, start_autosteer, ChannelType
  <2> QED BY <1>0, <2>1, <2>2 DEF ChannelType, SequencerInv
<1>6. CASE IdlePump \/ Deliver
  <2>1. /\ UNCHANGED <<steering, pending, inFlight, q, calls>>
        /\ ready' = EmptyBag /\ reported' = Count(reported, ready)
    BY <1>6 DEF IdlePump, Deliver, deliver_answer
  <2>2. IsABag(ready') /\ BagToSet(ready') = {} /\ reported' \in [1..MaxQuestions -> Nat]
    BY <1>0, <2>1, SmallBags, Counted DEF ChannelType
  <2> QED BY <1>0, <2>1, <2>2 DEF ChannelType, SequencerInv, steering
<1>7. CASE Pump
  <2>1. /\ UNCHANGED <<steering, inFlight, ready, reported, q, calls>>
    BY <1>7 DEF Pump
  <2>2. pending' = pending \/ (pending' = Turn(goal, 0) /\ goal # None)
    BY <1>7 DEF Pump, poll_autosteer, CanPlan
  <2> QED BY <1>0, <2>1, <2>2, QueriesAre DEF ChannelType, SequencerInv, steering
<1>8. CASE EndSegment
  <2>1. /\ UNCHANGED <<task, due, sequencer, inFlight, q, calls>>
        /\ goal' = None /\ told' \in {told, task} /\ pending' = NoQuery
        /\ ready' = QuestionsIn(ready) /\ reported' = Count(reported, SetToBag({pending}))
    BY <1>8 DEF EndSegment, EndChannel, stop_autosteer
  <2>2. IsABag(ready') /\ BagToSet(ready') \subseteq BagToSet(ready)
    BY <1>0, <2>1, QuestionsKept DEF ChannelType
  <2>3. reported' \in [1..MaxQuestions -> Nat]
    BY <1>0, <2>1, SmallBags, Counted DEF ChannelType
  <2> QED BY <1>0, <2>1, <2>2, <2>3, QueriesAre DEF ChannelType, SequencerInv
<1>9. CASE Claim
  <2>1. /\ UNCHANGED <<steering, ready, reported, calls>>
        /\ inFlight' \in BOOLEAN /\ pending' = NoQuery /\ q' = Claimed
    BY <1>9 DEF Claim, take_query
  <2>2. Claimed \in Queries
    <3>1. CASE IsTurn(pending)
      <4>1. PICK g \in Goal, n \in 0..MaxCalls : pending = Turn(g, n)
        BY <1>0, <3>1, Kinds DEF ChannelType, Queries
      <4>2. pending.text \in Goal
        BY <4>1 DEF Turn
      <4> QED BY <1>0, <3>1, <4>2, QueriesAre DEF Claimed, ChannelType
    <3> QED BY <1>0, <3>1 DEF Claimed, ChannelType
  <2> QED BY <1>0, <2>1, <2>2, QueriesAre DEF ChannelType, SequencerInv, steering
<1>10. CASE Apply
  <2>1. /\ UNCHANGED <<goal, told, sequencer, pending, ready, reported, calls>>
        /\ task' \in Task \cup {task} /\ due' \in {due, FALSE} /\ inFlight' \in {inFlight, FALSE}
        /\ q' \in {q, NoQuery}
    BY <1>10 DEF Apply, apply_subtask, PublishIf
  <2> QED BY <1>0, <2>1, QueriesAre DEF ChannelType, SequencerInv
<1>11. CASE Fail
  <2>1. /\ UNCHANGED <<task, due, sequencer, pending, ready, reported, calls>>
        /\ goal' \in {goal, None} /\ told' \in {told, task} /\ inFlight' \in {inFlight, FALSE}
        /\ q' \in {q, NoQuery}
    BY <1>11 DEF Fail, fail_subtask, stop_autosteer, PublishIf
  <2> QED BY <1>0, <2>1, QueriesAre DEF ChannelType, SequencerInv
<1>12. CASE Publish
  <2>1. /\ UNCHANGED <<steering, pending, reported, calls>>
        /\ inFlight' = FALSE /\ ready' = ready (+) SetToBag({q}) /\ q' = NoQuery
    BY <1>12 DEF Publish, publish_answer
  <2>2. q \in Queries \ {NoQuery}
    BY <1>0, <1>12 DEF Publish, ServerInv, ChannelType
  <2>3. IsABag(ready') /\ BagToSet(ready') = BagToSet(ready) \cup {q}
    <3>1. IsABag(ready)
      BY <1>0 DEF ChannelType
    <3> QED BY <2>1, <3>1, Gained
  <2> QED BY <1>0, <2>1, <2>2, <2>3, QueriesAre DEF ChannelType, SequencerInv, steering
<1>13. CASE Due
  <2>1. /\ UNCHANGED <<task, goal, told, sequencer, pending, inFlight, ready, reported, q, calls>>
        /\ due' = TRUE
    BY <1>13 DEF Due
  <2> QED BY <1>0, <2>1 DEF ChannelType, SequencerInv
<1>14. CASE (BetweenSegments /\ ~IdlePump) \/ PollTimeout \/ LeaveLoop
  <2>1. UNCHANGED <<channel, q, calls>>
    BY <1>14 DEF BetweenSegments, Leave, LatchStopped, LookForReset, ReturnHome, LookForStart,
      ClearWake, PollTimeout, LeaveLoop
  <2> QED BY <1>0, <2>1, ChannelTypeFrame
<1>15. CASE InSegment /\ ~(Pump \/ Deliver \/ EndSegment)
  <2>1. UNCHANGED <<channel, q, calls>>
    BY <1>15 DEF InSegment, Consume, ClearSegmentStop, CheckSegment, BeginSegment, Tick, Pause
  <2> QED BY <1>0, <2>1, ChannelTypeFrame
<1>16. CASE Look \/ Generate \/ Refill \/ Signal
  <2>1. UNCHANGED <<channel, q, calls>>
    BY <1>16 DEF Look, Generate, Refill, Signal
  <2> QED BY <1>0, <2>1, ChannelTypeFrame
<1> QED BY <1>1, <1>2, <1>3, <1>4, <1>5, <1>6, <1>7, <1>8, <1>9, <1>10, <1>11, <1>12, <1>13, <1>14,
  <1>15, <1>16 DEF Next, Operator, FinishCall, InSegment, Worker

\* Who holds a query, and when an inline engine serves.
LEMMA NextServer == TypeInv /\ ServerInv /\ Next => ServerInv'
<1> SUFFICES ASSUME TypeInv, ServerInv, Next PROVE ServerInv'
  OBVIOUS
<1>0. /\ Inline \in BOOLEAN
      /\ w \in {"top", "claim", "generate", "apply", "fail", "publish", "refill", "signal", "dead"}
  BY ControllerAssumption DEF TypeInv, TypeOK, ThreadType
<1> USE DEF ServerInv, worker, Go
<1>1. CASE Operator \/ FinishCall
  BY <1>1 DEF Operator, FinishCall, Start, Reset, Stop, SetTask, Ask, Autosteer, Interrupt,
    RestoreTask, RequestSegmentEnd, GiveTask
<1>2. CASE BetweenSegments \/ PollTimeout
  BY <1>2 DEF BetweenSegments, Leave, LatchStopped, LookForReset, ReturnHome, LookForStart, IdlePump,
    ClearWake, PollTimeout
<1>3. CASE InSegment \/ LeaveLoop
  BY <1>3 DEF InSegment, Consume, ClearSegmentStop, CheckSegment, BeginSegment, Tick, Pump, Deliver,
    Pause, EndSegment, LeaveLoop
<1>4. CASE Claim
  <2>1. pending # NoQuery => Claimed # NoQuery
    BY Kinds DEF Claimed
  <2>2. pending = NoQuery => Claimed = NoQuery
    BY Kinds DEF Claimed
  <2> QED BY <1>0, <1>4, <2>1, <2>2 DEF Claim, Rest
<1>5. CASE Apply \/ Fail \/ Publish
  BY <1>0, <1>5 DEF Apply, Fail, Publish, PublishIf, Rest
<1>6. CASE Look \/ Generate \/ Refill \/ Signal \/ Due
  BY <1>0, <1>6 DEF Look, Generate, Refill, Signal, Due
<1> QED BY <1>1, <1>2, <1>3, <1>4, <1>5, <1>6 DEF Next, Worker

LEMMA NextType == TypeInv /\ ServerInv /\ [Next]_vars => TypeInv' /\ ServerInv'
<1> SUFFICES ASSUME TypeInv, ServerInv, [Next]_vars PROVE TypeInv' /\ ServerInv'
  OBVIOUS
<1>1. CASE UNCHANGED vars
  <2>1. ServeType' /\ ThreadType' /\ ServerInv'
    BY <1>1 DEF vars, TypeInv, TypeOK, ServeType, ThreadType, ServerInv, phase, worker, history
  <2>2. FlagType'
    BY <1>1 DEF vars, TypeInv, TypeOK, FlagType, requests, phase, outside, engine, history
  <2>3. UNCHANGED <<channel, q, calls>> /\ calls \in Nat
    BY <1>1, ControllerAssumption DEF vars, worker, history, TypeInv, TypeOK, ThreadType
  <2> QED BY <2>1, <2>2, <2>3, ChannelTypeFrame DEF TypeInv, TypeOK
<1>2. CASE Next
  BY <1>2, ServeTypes, FlagTypes, ThreadTypes, ChannelTypes, NextServer DEF TypeInv, TypeOK
<1> QED BY <1>1, <1>2

\* The numbers that Places adds.
LEMMA PlacesAdd ==
  ASSUME TypeInv, NEW n \in 1..MaxQuestions
  PROVE  /\ Here(pending, n) \in Nat /\ Here(q, n) \in Nat
         /\ Copies(Question(n), ready) \in Nat /\ reported[n] \in Nat
  BY SmallBags DEF TypeInv, TypeOK, ChannelType, Here

\* A step that moves no question.
LEMMA PlacesFrame ==
  ASSUME PlacesInv, ready' = ready, reported' = reported, asked' = asked,
         \A n \in 1..MaxQuestions : /\ Here(pending, n)' = Here(pending, n)
                                    /\ Here(q, n)' = Here(q, n)
  PROVE  PlacesInv'
  BY DEF PlacesInv, Places

\* A question is asked, claimed, published, delivered or reported as lost: it
\* moves from one place to the next.
LEMMA NextPlaces == QuestionInv /\ TurnInv /\ Next => PlacesInv'
<1> SUFFICES ASSUME QuestionInv, TurnInv, Next PROVE PlacesInv'
  OBVIOUS
<1>0. /\ TypeInv /\ ServerInv /\ PlacesInv /\ ChannelType
      /\ asked \in 0..MaxQuestions /\ MaxQuestions \in Nat
  BY ControllerAssumption DEF QuestionInv, TypeInv, TypeOK, ThreadType
<1> USE DEF worker, history, Here
<1>1. CASE Ask
  <2>1. /\ UNCHANGED <<ready, reported, q>>
        /\ pending = NoQuery /\ pending' = Question(asked + 1) /\ asked' = asked + 1
        /\ asked < MaxQuestions
    BY <1>1 DEF Ask, ask
  <2>2. SUFFICES ASSUME NEW n \in 1..MaxQuestions
                 PROVE  Places(n)' = IF n <= asked' THEN 1 ELSE 0
    BY DEF PlacesInv
  <2>3. Here(pending, n) = 0 /\ Here(pending, n)' = IF n = asked + 1 THEN 1 ELSE 0
    BY <2>1, Kinds
  <2>4. Places(n)' = Places(n) + Here(pending, n)'
    <3> HIDE DEF Here
    <3> QED BY <1>0, <2>1, <2>3, PlacesAdd DEF Places
  <2>5. Places(n) = IF n <= asked THEN 1 ELSE 0
    BY <1>0 DEF PlacesInv
  <2> QED BY <1>0, <2>1, <2>3, <2>4, <2>5
<1>2. CASE IdlePump \/ Deliver
  <2>1. /\ UNCHANGED <<pending, q, asked>>
        /\ ready' = EmptyBag /\ reported' = Count(reported, ready)
    BY <1>2 DEF IdlePump, Deliver, deliver_answer
  <2>2. SUFFICES ASSUME NEW n \in 1..MaxQuestions PROVE Places(n)' = Places(n)
    BY <1>0, <2>1 DEF PlacesInv
  <2>3. /\ reported'[n] = reported[n] + Copies(Question(n), ready)
        /\ Copies(Question(n), ready') = 0
    BY <1>0, <2>1, SmallBags, Counted DEF ChannelType
  <2> HIDE DEF Here
  <2>4. UNCHANGED <<Here(pending, n), Here(q, n)>>
    BY <2>1 DEF Here
  <2> QED BY <1>0, <2>3, <2>4, PlacesAdd DEF Places
<1>3. CASE Pump
  <2>1. /\ UNCHANGED <<ready, reported, q, asked>>
        /\ pending' = pending \/ (pending = NoQuery /\ pending' = Turn(goal, 0))
    BY <1>3 DEF Pump, poll_autosteer, CanPlan
  <2> QED BY <1>0, <2>1, Kinds, PlacesFrame
<1>4. CASE EndSegment
  <2>1. /\ UNCHANGED <<q, asked>> /\ pending' = NoQuery
        /\ ready' = QuestionsIn(ready) /\ reported' = Count(reported, SetToBag({pending}))
    BY <1>4 DEF EndSegment, EndChannel
  <2>2. SUFFICES ASSUME NEW n \in 1..MaxQuestions PROVE Places(n)' = Places(n)
    BY <1>0, <2>1 DEF PlacesInv
  <2>3. Copies(Question(n), ready') = Copies(Question(n), ready)
    BY <1>0, <2>1, QuestionsKept DEF ChannelType
  <2>4. reported'[n] = reported[n] + Here(pending, n)
    <3>1. Copies(Question(n), SetToBag({pending})) = Here(pending, n)
      BY SmallBags
    <3>2. Count(reported, SetToBag({pending}))[n]
            = reported[n] + Copies(Question(n), SetToBag({pending}))
      BY <1>0, SmallBags, Counted DEF ChannelType
    <3> QED BY <2>1, <3>1, <3>2
  <2>5. Here(pending, n)' = 0
    BY <2>1, Kinds
  <2> HIDE DEF Here
  <2>6. UNCHANGED Here(q, n)
    BY <2>1 DEF Here
  <2> QED BY <1>0, <2>3, <2>4, <2>5, <2>6, PlacesAdd DEF Places
<1>5. CASE Claim
  <2>1. /\ UNCHANGED <<ready, reported, asked>> /\ pending' = NoQuery /\ q' = Claimed
    BY <1>5 DEF Claim, take_query
  <2>2. q = NoQuery
    <3>1. w = "claim" \/ serve = "serve_query"
      BY <1>5 DEF Claim, Go
    <3>2. serve = "serve_query" => w = "top"
      BY <1>0, ControllerAssumption DEF ServerInv
    <3> QED BY <1>0, <3>1, <3>2 DEF ServerInv
  <2>3. SUFFICES ASSUME NEW n \in 1..MaxQuestions PROVE Places(n)' = Places(n)
    BY <1>0, <2>1 DEF PlacesInv
  <2>4. Here(pending, n)' = 0 /\ Here(q, n) = 0 /\ Here(q, n)' = Here(pending, n)
    BY <2>1, <2>2, Kinds DEF Claimed
  <2> HIDE DEF Here
  <2> QED BY <1>0, <2>1, <2>4, PlacesAdd DEF Places
<1>6. CASE Apply \/ Fail
  <2>1. /\ UNCHANGED <<pending, ready, reported, asked>>
        /\ IsTurn(q) /\ (q' = q \/ q' = NoQuery)
    BY <1>6 DEF Apply, Fail, PublishIf, TurnInv
  <2> QED BY <1>0, <2>1, Kinds, PlacesFrame
<1>7. CASE Publish
  <2>1. /\ UNCHANGED <<pending, reported, asked>>
        /\ ready' = ready (+) SetToBag({q}) /\ q' = NoQuery
    BY <1>7 DEF Publish, publish_answer
  <2>2. SUFFICES ASSUME NEW n \in 1..MaxQuestions PROVE Places(n)' = Places(n)
    BY <1>0, <2>1 DEF PlacesInv
  <2>3. Copies(Question(n), ready') = Copies(Question(n), ready) + Here(q, n)
    BY <1>0, <2>1, Gained DEF ChannelType
  <2>4. Here(q, n)' = 0
    BY <2>1, Kinds
  <2> HIDE DEF Here
  <2>5. UNCHANGED <<Here(pending, n), reported>>
    BY <2>1 DEF Here
  <2> QED BY <1>0, <2>3, <2>4, <2>5, PlacesAdd DEF Places
<1>8. CASE (Operator /\ ~Ask) \/ FinishCall
  <2>1. UNCHANGED <<pending, q, ready, reported, asked>>
    BY <1>8 DEF Operator, FinishCall, Start, Reset, Stop, SetTask, Autosteer, Interrupt,
      RestoreTask, RequestSegmentEnd, GiveTask, channel
  <2> QED BY <1>0, <2>1, PlacesFrame
<1>9. CASE (BetweenSegments /\ ~IdlePump) \/ PollTimeout \/ LeaveLoop
  <2>1. UNCHANGED <<pending, q, ready, reported, asked>>
    BY <1>9 DEF BetweenSegments, Leave, LatchStopped, LookForReset, ReturnHome, LookForStart,
      ClearWake, PollTimeout, LeaveLoop, channel
  <2> QED BY <1>0, <2>1, PlacesFrame
<1>10. CASE InSegment /\ ~(Pump \/ Deliver \/ EndSegment)
  <2>1. UNCHANGED <<pending, q, ready, reported, asked>>
    BY <1>10 DEF InSegment, Consume, ClearSegmentStop, CheckSegment, BeginSegment, Tick, Pause,
      channel
  <2> QED BY <1>0, <2>1, PlacesFrame
<1>11. CASE Look \/ Generate \/ Refill \/ Signal \/ Due
  <2>1. UNCHANGED <<pending, q, ready, reported, asked>>
    BY <1>11 DEF Look, Generate, Refill, Signal, Due, channel
  <2> QED BY <1>0, <2>1, PlacesFrame
<1> QED BY <1>1, <1>2, <1>3, <1>4, <1>5, <1>6, <1>7, <1>8, <1>9, <1>10, <1>11
  DEF Next, Operator, InSegment, Worker

\* A new program has no questions.
LEMMA InitQuestions == Init => QuestionInv
<1> SUFFICES ASSUME Init PROVE QuestionInv
  OBVIOUS
<1>0. InitialTask \in Task /\ MaxCalls \in Nat /\ MaxQuestions \in Nat
  BY ChannelAssumption, ControllerAssumption
<1>1. ServeType /\ ThreadType /\ SequencerInv /\ ServerInv
  BY <1>0 DEF Init, ChannelInit, ServeType, SegmentBody, ThreadType, Free, SequencerInv, ServerInv
<1>2. FlagType
  BY DEF Init, FlagType
<1>3. ChannelType
  <2>1. task \in Task /\ told \in Task /\ goal = None /\ sequencer \in 0..MaxCalls
    BY <1>0 DEF Init, ChannelInit
  <2>2. due \in BOOLEAN /\ inFlight \in BOOLEAN
    BY Zenon DEF Init, ChannelInit
  <2>3. {pending, q} \subseteq Queries
    BY QueriesAre DEF Init, ChannelInit
  <2>4. IsABag(ready) /\ BagToSet(ready) = {}
    BY SmallBags DEF Init, ChannelInit
  <2>5. reported \in [1..MaxQuestions -> Nat]
    BY DEF Init
  <2> QED BY <2>1, <2>2, <2>3, <2>4, <2>5 DEF ChannelType
<1>4. PlacesInv
  BY <1>0, SmallBags, Kinds DEF Init, ChannelInit, PlacesInv, Places, Here
<1> QED BY <1>1, <1>2, <1>3, <1>4 DEF QuestionInv, TypeInv, TypeOK

\* No step loses a question or answers it twice.
LEMMA NextQuestions == QuestionInv /\ TurnInv /\ [Next]_vars => QuestionInv'
<1> SUFFICES ASSUME QuestionInv, TurnInv, [Next]_vars PROVE PlacesInv'
  BY NextType DEF QuestionInv
<1>1. CASE UNCHANGED vars
  <2>1. UNCHANGED <<pending, q, ready, reported, asked>>
    BY <1>1 DEF vars, worker, history, channel
  <2> QED BY <2>1, PlacesFrame DEF QuestionInv, Here
<1> QED BY <1>1, NextPlaces

-----------------------------------------------------------------------------
(* The theorems.                                                           *)

LEMMA InitInv == Init => IInv
  BY DEF Init, ChannelInit, IInv, ControlInv, RunningInv, RunningPlaces, SegmentBody, FailureInv,
    SignalInv, StartCurrent, ChannelInv, TurnInv, FlightInv, NoOrphan, SingleTurn, TaskIsTold,
    IsTurn, NoQuery

LEMMA NextInv == IInv /\ [Next]_vars => IInv'
<1> SUFFICES ASSUME IInv, [Next]_vars PROVE IInv'
  OBVIOUS
<1>1. ControlInv'
  BY NextControl DEF IInv
<1>2. ChannelInv'
  <2>1. CASE UNCHANGED vars
    BY <2>1, ChannelFrame DEF vars, phase, worker, channel, steering, IInv
  <2> QED BY <2>1, CallsKeepChannel, ServeKeepsChannel, WorkerKeepsChannel
    DEF Next, IInv, ControlInv
<1> QED BY <1>1, <1>2 DEF IInv

\* The inductive invariant holds in every reachable state.
LEMMA AlwaysIInv == Spec => []IInv
  BY InitInv, NextInv, PTL DEF Spec

\* Once reset() or stop() has returned, or a dying worker has signalled, the
\* segment's stop flag is up until the segment has ended.
THEOREM RequestsEndSegments == Spec => []RequestEndsSegment
<1>1. IInv => RequestEndsSegment
  BY DEF IInv, ControlInv, SignalInv, RequestEndsSegment, Free
<1> QED BY <1>1, AlwaysIInv, PTL

\* A pending start request is one no reset() or stop() has overruled, and none
\* is armed behind a running segment.
THEOREM StartsAreCurrent == Spec => []StartCurrent
<1>1. IInv => StartCurrent
  BY DEF IInv, ControlInv
<1> QED BY <1>1, AlwaysIInv, PTL

\* Outside a segment no query waits and no sequencer drives.
THEOREM NoOrphans == Spec => []NoOrphan
<1>1. IInv => NoOrphan
  BY DEF IInv, ChannelInv
<1> QED BY <1>1, AlwaysIInv, PTL

\* While a turn of the sequencer is queued, no other is being served.
THEOREM OneTurnAtATime == Spec => []SingleTurn
<1>1. IInv => SingleTurn
  BY DEF IInv, ChannelInv
<1> QED BY <1>1, AlwaysIInv, PTL

\* Unless a sequencer drives, the instruction is the operator's own: no turn
\* overwrites it, however long it was being generated.
THEOREM TaskStaysTold == Spec => []TaskIsTold
<1>1. IInv => TaskIsTold
  BY DEF IInv, ChannelInv
<1> QED BY <1>1, AlwaysIInv, PTL

\* All three invariants hold in every reachable state.
LEMMA AlwaysQuestionInv == Spec => [](IInv /\ QuestionInv)
<1>1. IInv => TurnInv
  BY DEF IInv, ChannelInv
<1>2. IInv /\ QuestionInv /\ [Next]_vars => (IInv /\ QuestionInv)'
  BY <1>1, NextInv, NextQuestions
<1> QED BY <1>2, InitInv, InitQuestions, PTL DEF Spec

\* Every variable keeps its type, and the robot is only driven while the segment
\* counts as running.
THEOREM TypeCorrect == Spec => []TypeOK
<1>1. QuestionInv => TypeOK
  BY DEF QuestionInv, TypeInv
<1> QED BY <1>1, AlwaysQuestionInv, PTL

\* Every question accepted is queued, being answered, answered and undelivered,
\* or reported: exactly one of these, however segments end.
THEOREM QuestionsAreConserved == Spec => []QuestionConserved
<1>1. QuestionInv => QuestionConserved
  <2> SUFFICES ASSUME QuestionInv, NEW n \in 1..asked
               PROVE  Here(pending, n) + Here(q, n) + Copies(Question(n), ready) + reported[n] = 1
    BY DEF QuestionConserved, Here
  <2>1. n \in 1..MaxQuestions /\ n <= asked
    BY ControllerAssumption DEF QuestionInv, TypeInv, TypeOK, ThreadType
  <2> QED BY <2>1 DEF QuestionInv, PlacesInv, Places
<1> QED BY <1>1, AlwaysQuestionInv, PTL
=============================================================================
