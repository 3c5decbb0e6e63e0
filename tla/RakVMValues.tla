----------------------------- MODULE RakVMValues -----------------------------
(***************************************************************************)
(* RakVM implements the value semantics of RakValues: counting references, *)
(* copying on write and writing in place are not observable.               *)
(*                                                                         *)
(* Between the load that starts an assignment and the store that ends it,  *)
(* an unshared array is already changed in place while the variable it     *)
(* came from still holds it.  Nothing may look at the variable meanwhile,  *)
(* so the mapping keeps the value it had when it was loaded, in a history  *)
(* variable that no action of RakVM reads.                                 *)
(***************************************************************************)
EXTENDS RakVM

VARIABLE lent     \* [Slot -> value]: what a slot held when it was loaded

NotLent == <<"none", 0>>

RECURSIVE DenotesAt(_, _)
\* The value a word of the machine stands for.  An array nested deeper than
\* there are objects contains itself, and stands for no value.
DenotesAt(v, depth) ==
  IF v.type = "array"
  THEN IF depth = 0 THEN <<"cyclic", 0>>
       ELSE <<"array", [i \in 1..len[v.data] |->
                          DenotesAt(cell[<<v.data, i>>], depth - 1)]>>
  ELSE IF v.type = "closure" THEN <<"closure", class[v.data]>>
  ELSE <<v.type, v.data>>

Denotes(v) == DenotesAt(v, Cardinality(Obj))

View(s) == IF lent[s] # NotLent THEN lent[s] ELSE Denotes(stk[s])

\* The slot a load for writing takes its value from.
Lenders ==
  IF At("FETCH_LOCAL") THEN {Top.base + A}
  ELSE IF At("LOAD_LOCAL_REF") THEN {Local(A).data}
  ELSE IF At("FETCH_ELEMENT") THEN {sp - 1}
  ELSE {}

\* The slots below the top that the next instruction assigns.
Assigned ==
  IF At("STORE_LOCAL") \/ At("MOVE") THEN {Top.base + A}
  ELSE IF At("STORE_LOCAL_REF") THEN {Local(A).data}
  ELSE IF At("APPEND") THEN {Local(1).data}
  ELSE {}

\* An instruction runs, as opposed to a statement being chosen or memory freed.
Executing == status = "running" /\ dying = {} /\ Top.code # <<>>

LentAfterwards(s) ==
  IF s > sp' \/ s \in Assigned \/ (s = sp' /\ sp' <= sp) THEN NotLent
  ELSE IF s \in Lenders THEN View(s)
  ELSE lent[s]

Lend ==
  lent' = [s \in Slot |-> IF status' = "ended" THEN NotLent
                          ELSE IF Executing THEN LentAfterwards(s)
                          ELSE lent[s]]

LentInit == Init /\ lent = [s \in Slot |-> NotLent]

LentNext == Next /\ Lend

LentSpec == LentInit /\ [][LentNext]_<<vars, lent>>

-----------------------------------------------------------------------------
Running == status = "running"

\* SubSeq makes TLC build the sequence once instead of a function it evaluates
\* anew, and differently, under EXCEPT.
AbsStack == IF Running THEN SubSeq([s \in 1..sp |-> View(s)], 1, sp) ELSE <<>>

AbsFrame(fr) == [base |-> fr.base, fn |-> fr.fn, code |-> fr.code]
AbsCalls == IF Running THEN [i \in 1..Len(frames) |-> AbsFrame(frames[i])] ELSE <<>>

Values == INSTANCE RakValues WITH
  stack <- AbsStack, calls <- AbsCalls, running <- Running

\* Every step of the machine is a step of the program over values, or none:
\* "mutations do not produce unintended side effects".
ValueSemantics == Values!Spec
==============================================================================
