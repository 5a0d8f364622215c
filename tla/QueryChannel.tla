----------------------------- MODULE QueryChannel -----------------------------
(***************************************************************************)
(* The task and text-query channel of an inference engine                  *)
(* (rollout/inference/base.py): the instruction, the single-slot question  *)
(* queue, the autosteer sequencer that replans a goal every few seconds,   *)
(* and the answers waiting to be delivered.                                *)
(*                                                                         *)
(* Every operator is one critical section of _query_lock or _task_lock     *)
(* (_apply_subtask holds both), to be conjoined with the program counter   *)
(* of the thread that runs it.  RolloutController composes them.           *)
(***************************************************************************)
EXTENDS Naturals, Bags

CONSTANTS
  Task, InitialTask,  \* instructions, and the one the rollout starts with
  Goal,               \* high-level goals of the sequencer
  None                \* no goal

ASSUME ChannelAssumption == InitialTask \in Task /\ None \notin Goal

VARIABLES
  task,      \* _task
  goal,      \* _autosteer_goal
  due,       \* the clock has reached _autosteer_due_at
  pending,   \* _pending_query
  inFlight,  \* _query_in_flight
  ready,     \* _ready_answers, a bag: their order is left out
  \* history variables, read by properties only
  told,      \* the instruction in force when no sequencer drives
  sequencer, \* sequencers started, by start_autosteer with another goal
  reported   \* how often each question was answered, by question

steering == <<task, goal, due, told, sequencer>>
channel  == <<steering, pending, inFlight, ready, reported>>

\* Queries: the text of a turn is its goal, a question is told from others by
\* its number.  `of`, the sequencer that drives when a turn is claimed, is not in
\* the code.
Turn(g, n)  == [kind |-> "next_subtask", text |-> g, of |-> n]
Question(n) == [kind |-> "vqa", text |-> n, of |-> 0]
NoQuery     == [kind |-> "none", text |-> None, of |-> 0]

IsTurn(query)     == query.kind = "next_subtask"
IsQuestion(query) == query.kind = "vqa"

ChannelInit ==
  /\ task = InitialTask /\ told = InitialTask
  /\ goal = None /\ due = FALSE /\ sequencer = 0
  /\ pending = NoQuery /\ inFlight = FALSE /\ ready = EmptyBag

-----------------------------------------------------------------------------
(* Any thread.                                                             *)

set_task(t) == task' = t /\ told' = t

\* With nobody steering, the instruction in force is the operator's own.
stop_autosteer ==
  /\ goal' = None
  /\ told' = IF goal = None THEN told ELSE task

start_autosteer(g) ==
  /\ goal' = g /\ due' = TRUE
  /\ sequencer' = IF goal = g THEN sequencer ELSE sequencer + 1

\* Refused while another query is queued.
ask(question) == pending = NoQuery /\ pending' = question

-----------------------------------------------------------------------------
(* The control thread.                                                     *)

\* Fault: a turn being generated does not hold back the next.
CanPlan_Twice == goal # None /\ due /\ pending = NoQuery

CanPlan == goal # None /\ due /\ pending = NoQuery /\ ~inFlight

poll_autosteer ==
  pending' = IF CanPlan THEN Turn(goal, 0) ELSE pending

Copies(query, answers) == IF BagIn(query, answers) THEN answers[query] ELSE 0

Count(questions, answers) ==
  [n \in DOMAIN questions |-> questions[n] + Copies(Question(n), answers)]

\* Every ready answer reaches the observer.
deliver_answer ==
  /\ ready' = EmptyBag
  /\ reported' = Count(reported, ready)

\* What drop_ready_subtask_answers keeps.
QuestionsIn(answers) ==
  [a \in {a \in BagToSet(answers) : IsQuestion(a)} |-> answers[a]]

\* End of a segment: the sequencer stops, an unserved query is dropped (the
\* caller reports a question it loses), and so are undelivered turns.
EndChannel_Quiet ==
  /\ stop_autosteer
  /\ pending' = NoQuery
  /\ ready' = QuestionsIn(ready)
  /\ reported' = reported

\* Fault: an unserved query survives the segment.
EndChannel_Pending ==
  /\ stop_autosteer
  /\ pending' = pending
  /\ ready' = QuestionsIn(ready)
  /\ reported' = reported

EndChannel ==
  /\ stop_autosteer
  /\ pending' = NoQuery
  /\ ready' = QuestionsIn(ready)
  /\ reported' = Count(reported, SetToBag({pending}))

-----------------------------------------------------------------------------
(* The thread that owns the policy.                                        *)

\* Fault: the slot is not emptied by the claim.
take_query_Kept == inFlight' = TRUE /\ pending' = pending

\* The claim; nothing is pending afterwards.
take_query ==
  /\ inFlight' = (inFlight \/ pending # NoQuery)
  /\ pending' = NoQuery

\* The query as its server holds it.
Claimed == IF IsTurn(pending) THEN Turn(pending.text, sequencer) ELSE pending

\* The sequencer is recognised by the text of its goal.
Live(query) == goal = query.text

\* Fault: the instruction may have changed while the turn was generated.
apply_subtask_Blind(query, subtask) ==
  /\ task' = subtask /\ due' = FALSE
  /\ UNCHANGED <<goal, told, inFlight>>

\* Fault: a discarded turn stays in flight.
apply_subtask_Held(query, subtask) ==
  /\ IF Live(query)
       THEN task' = subtask /\ due' = FALSE
       ELSE UNCHANGED <<task, due>>
  /\ UNCHANGED <<goal, told, inFlight>>

\* A live turn sets the task and arms the next; any other is discarded.
apply_subtask(query, subtask) ==
  /\ IF Live(query)
       THEN task' = subtask /\ due' = FALSE /\ UNCHANGED inFlight
       ELSE inFlight' = FALSE /\ UNCHANGED <<task, due>>
  /\ UNCHANGED <<goal, told>>

\* A live turn that failed stops the sequencer; any other is discarded.
fail_subtask(query) ==
  IF Live(query)
    THEN stop_autosteer /\ UNCHANGED inFlight
    ELSE inFlight' = FALSE /\ UNCHANGED <<goal, told>>

publish_answer(query) ==
  /\ inFlight' = FALSE
  /\ ready' = ready (+) SetToBag({query})
=============================================================================
