---------------------------- MODULE ActionStream ----------------------------
(***************************************************************************)
(* What the action queue promises its two users: the robot loop takes from *)
(* one ordered stream of actions, every action travelling with its         *)
(* model-space twin and the instruction its chunk was generated under; the *)
(* inference side either supersedes what is left with the end of a new     *)
(* chunk, or extends it by all of one.  There are no indices, no None and  *)
(* no parallel arrays here.                                                *)
(***************************************************************************)
EXTENDS Integers, Sequences

CONSTANTS
  Task,     \* instructions
  ChunkLen  \* actions in one chunk

VARIABLES
  rtc,      \* TRUE: chunks supersede; FALSE: chunks extend
  pending,  \* the items still to be executed, in order
  out,      \* the item most recently handed to the robot, <<>> before the first
  made      \* chunks inferred so far

stream == <<rtc, pending, out, made>>

\* Chunk n after its first d steps: model-space action, robot-space action
\* and instruction of each.
Ending(n, d, task) ==
  [i \in 1..(ChunkLen - d) |-> <<<<n, d + i>>, <<n, d + i>>, task>>]

Init == rtc \in BOOLEAN /\ pending = <<>> /\ out = <<>> /\ made = 0

\* The robot takes the oldest item: it is handed out exactly once.
Deliver ==
  /\ pending # <<>>
  /\ out' = Head(pending)
  /\ pending' = Tail(pending)
  /\ UNCHANGED <<rtc, made>>

\* All of what is left gives way to the end of a new chunk.
Supersede ==
  /\ rtc
  /\ made' = made + 1
  /\ \E d \in 0..ChunkLen, task \in Task : pending' = Ending(made', d, task)
  /\ UNCHANGED <<rtc, out>>

\* A new chunk lines up behind what is left, which it does not disturb.
Extend ==
  /\ ~rtc
  /\ made' = made + 1
  /\ \E task \in Task : pending' = pending \o Ending(made', 0, task)
  /\ UNCHANGED <<rtc, out>>

Flush == pending' = <<>> /\ UNCHANGED <<rtc, out, made>>

Next == Deliver \/ Supersede \/ Extend \/ Flush

Spec == Init /\ [][Next]_stream
=============================================================================
