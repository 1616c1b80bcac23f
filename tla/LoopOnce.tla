------------------------------ MODULE LoopOnce ------------------------------
(***************************************************************************)
(* What a parallel reduction loop promises to the function that contains   *)
(* it, whatever threads and chunks are used below: every iteration is      *)
(* performed exactly once, in any order, and the loop's result appears     *)
(* only after all of them, with each iteration's operand applied once and  *)
(* with its sign.  (In the source program the loop is the Python loop      *)
(* "for i in prange(...): res = res OP x[i]".)                             *)
(*                                                                         *)
(* A value is represented by how often each iteration's operand was        *)
(* applied to it: value[i] = 1 for one addition (or multiplication) of the *)
(* operand of iteration i, -1 for one subtraction.                         *)
(***************************************************************************)
EXTENDS Integers

CONSTANTS
  Iterations,   \* the iterations of the loop
  Unit          \* what one application contributes: 1, or -1 for subtraction

VARIABLES
  executed,     \* the iterations performed so far
  value         \* the loop's result, NoValue while the loop runs

NoValue == << >>

Expected == [i \in Iterations |-> Unit]

Init ==
  /\ executed = {}
  /\ value = NoValue

Execute(i) ==
  /\ i \notin executed
  /\ executed' = executed \cup {i}
  /\ UNCHANGED value

Publish ==
  /\ executed = Iterations
  /\ value' = Expected
  /\ UNCHANGED executed

Next == (\E i \in Iterations : Execute(i)) \/ Publish

Spec == Init /\ [][Next]_<<executed, value>>
=============================================================================
