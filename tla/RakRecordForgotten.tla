-------------------------- MODULE RakRecordForgotten --------------------------
(***************************************************************************)
(* RakRecord, and how many references to each object its handlers have     *)
(* forgotten so far, in a history variable that no action reads.  Every    *)
(* count is exact up to these.                                             *)
(***************************************************************************)
EXTENDS RakRecord

VARIABLE
  forgotten \* [Obj -> Nat]: the references that were forgotten so far

Done(op) == At(op) /\ code' = Tail(code)

\* The references to o an instruction forgets: SET_ELEMENT clears the slot of
\* its key, the reference with it, and NEW_RECORD that of a key it has met
\* before, whose value it retains although it takes it over from the stack.
Forgotten(o) ==
  IF Done("SET_ELEMENT") THEN Cardinality({v \in {Get(1)} : Holds(v, o)})
  ELSE IF Done("NEW_RECORD") /\ A > 0
  THEN Cardinality({i \in Repeats : KeyAt(i) = o})
         + Cardinality({i \in Repeats : Holds(ValAt(i), o)})
  ELSE 0

NoneForgotten == forgotten = [o \in Obj |-> 0]
Forget        == forgotten' = [o \in Obj |-> forgotten[o] + Forgotten(o)]

ForgettingSpec ==
  Init /\ NoneForgotten /\ [][Next /\ Forget]_<<vars, forgotten>>

\* Every key and value moves with the count it had, through every path of the
\* instructions on records: what a count has beyond the slots and fields that
\* hold the object is what SET_ELEMENT and NEW_RECORD forgot.
RefCountExact == \A o \in Obj : rc[o] = Holders(o) + forgotten[o]
==============================================================================
