--------------------------- MODULE RakRecordSource ---------------------------
(***************************************************************************)
(* What a script of RakRecord means to its author: each variable holds a   *)
(* value of its own, and a statement, as one step, changes the variable it *)
(* names and nothing else.                                                 *)
(***************************************************************************)
EXTENDS Naturals

CONSTANTS
  Program,        \* the statements of the script, as trees
  Locals,         \* how many variables it declares
  NilValue,       \* what they hold at first
  Nothing,        \* no statement
  Results(_, _)   \* the values a statement may give to the variable it names

VARIABLES
  env,      \* [1..Locals -> value]: the variables
  todo,     \* the statement that is being executed, or Nothing
  running   \* whether the script has neither ended nor failed

vars == <<env, todo, running>>

Begin ==
  /\ running /\ todo = Nothing
  /\ \E s \in Program : todo' = s
  /\ UNCHANGED <<env, running>>

\* One assignment: one variable changes, and no value that is held elsewhere.
Execute ==
  /\ running /\ todo # Nothing
  /\ \E v \in Results(env, todo) : env' = [env EXCEPT ![todo.x] = v]
  /\ todo' = Nothing
  /\ UNCHANGED running

\* The end, a type error, or a bound of the stack or the memory.
Stop ==
  /\ running
  /\ running' = FALSE /\ todo' = Nothing
  /\ UNCHANGED env

Init ==
  /\ env = [x \in 1..Locals |-> NilValue]
  /\ todo = Nothing
  /\ running = TRUE

Next == Begin \/ Execute \/ Stop

Spec == Init /\ [][Next]_vars
==============================================================================
