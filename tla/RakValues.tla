------------------------------ MODULE RakValues ------------------------------
(***************************************************************************)
(* What a Rak program promises its reader: mutable value semantics.        *)
(*                                                                         *)
(* The same instructions as RakVM over values that cannot be shared.  An   *)
(* array is the sequence of its elements, a variable is a slot that holds  *)
(* a value, and an assignment changes one slot.  There is no heap, no      *)
(* count and no flag; the only alias is a reference to a slot.             *)
(***************************************************************************)
EXTENDS Integers, Sequences

CONSTANTS Fun, Main, Natives, Arity, Inouts, Prologue, Stmts, MaxNum

VARIABLES
  stack,    \* Seq of values, the live slots from 1 up
  calls,    \* Seq of [base, fn, code]
  running   \* whether the script has neither returned nor failed

vars == <<stack, calls, running>>

-----------------------------------------------------------------------------
(***************************************************************************)
(* A value is its kind and its content.                                    *)
(***************************************************************************)
PNil      == <<"nil", 0>>
PBool(x)  == <<"bool", x>>
PNum(n)   == <<"number", n>>
PFn(f)    == <<"closure", f>>
PRef(s)   == <<"ref", s>>
PArr(es)  == <<"array", es>>

Kind(v) == v[1]
Data(v) == v[2]

-----------------------------------------------------------------------------
sp  == Len(stack)
Top == calls[Len(calls)]

At(op) == running /\ calls # <<>> /\ Top.code # <<>> /\ Head(Top.code).op = op
A == Head(Top.code).a
B == Head(Top.code).b

Local(i) == Top.base + i
Get(i)   == stack[sp - i]

Step == /\ calls' = [calls EXCEPT ![Len(calls)].code = Tail(@)]
        /\ UNCHANGED running

\* n operands are replaced by the values of vs.
Replace(n, vs) == stack' = SubSeq(stack, 1, sp - n) \o vs /\ Step

Assign(s, t, v) == [s EXCEPT ![t] = v]

-----------------------------------------------------------------------------
Constant ==
  \/ At("PUSH_NIL") /\ Replace(0, <<PNil>>)
  \/ At("PUSH_INT") /\ Replace(0, <<PNum(A)>>)
  \/ At("LOAD_GLOBAL") /\ Replace(0, <<PFn(Natives[A])>>)
  \/ At("NEW_CLOSURE") /\ Replace(0, <<PFn(A)>>)

\* Reading a variable, to use it or to write a part of it, copies its value.
Read ==
  \/ At("LOAD_LOCAL") /\ Replace(0, <<stack[Local(A)]>>)
  \/ At("FETCH_LOCAL") /\ Replace(0, <<stack[Local(A)]>>)
  \/ At("LOAD_LOCAL_REF") /\ Replace(0, <<stack[Data(stack[Local(A)])]>>)

TakeRef == At("REF_LOCAL") /\ Replace(0, <<PRef(Local(A))>>)

Drop == At("POP") /\ Replace(1, <<>>)

\* A store changes the variable it names and no other.
StoreTo(t) ==
  /\ stack' = Assign(SubSeq(stack, 1, sp - 1), t, Get(0))
  /\ Step

Write ==
  \/ At("STORE_LOCAL") /\ StoreTo(Local(A))
  \/ At("STORE_LOCAL_REF") /\ StoreTo(Data(stack[Local(A)]))
  \/ /\ At("MOVE")
     /\ stack' = Assign(stack, Local(A), stack[Local(B)])
     /\ Step

InRange(v, i) == Kind(v) = "array" /\ Kind(i) = "number" /\ Data(i) < Len(Data(v))
Element(v, i) == Data(v)[Data(i) + 1]

Build == At("NEW_ARRAY") /\ Replace(A, <<PArr(SubSeq(stack, sp - A + 1, sp))>>)

Project ==
  \/ /\ At("GET_ELEMENT") /\ InRange(Get(1), Get(0))
     /\ Replace(2, <<Element(Get(1), Get(0))>>)
  \/ /\ At("LOAD_ELEMENT") \/ At("FETCH_ELEMENT")
     /\ InRange(Get(1), Get(0))
     /\ Replace(0, <<Element(Get(1), Get(0))>>)

\* The value with one element replaced; every other copy of it stays as it is.
Update ==
  /\ At("SET_ELEMENT") \/ At("UPDATE_ELEMENT")
  /\ InRange(Get(2), Get(1))
  /\ Replace(3, <<PArr([Data(Get(2)) EXCEPT ![Data(Get(1)) + 1] = Get(0)])>>)

Unpack ==
  /\ At("UNPACK_ELEMENTS") /\ Kind(Get(A)) = "array"
  /\ LET n == A
         elems == Data(Get(n))
     IN  Replace(n + 1, [i \in 1..n |-> IF i <= Len(elems) THEN elems[i] ELSE PNil])

Equal == At("EQ") /\ \E x \in {0, 1} : Replace(2, <<PBool(x)>>)

Sum ==
  /\ At("ADD") /\ Kind(Get(1)) = Kind(Get(0))
  /\ \/ Kind(Get(0)) = "number" /\ \E n \in 0..MaxNum : Replace(2, <<PNum(n)>>)
     \/ Kind(Get(0)) = "array" /\ Replace(2, <<PArr(Data(Get(1)) \o Data(Get(0)))>>)

-----------------------------------------------------------------------------
Entry(base, f) == [base |-> base, fn |-> f, code |-> Prologue[f]]

\* The callee and exactly as many arguments as it has parameters.
Activation(f) ==
  [i \in 1..(Arity[f] + 1) |-> IF sp - A + i - 1 <= sp THEN stack[sp - A + i - 1] ELSE PNil]

RefsGiven(f) == \A i \in Inouts[f] : Kind(Activation(f)[i + 1]) = "ref"

Invoke ==
  /\ At("CALL") /\ Kind(Get(A)) = "closure"
  /\ LET f == Data(Get(A)) IN
     /\ RefsGiven(f)
     /\ stack' = SubSeq(stack, 1, sp - A - 1) \o Activation(f)
     /\ calls' = Append([calls EXCEPT ![Len(calls)].code = Tail(@)], Entry(sp - A, f))
     /\ UNCHANGED running

\* The activation of the callee takes the place of the caller's.
TailInvoke ==
  /\ At("TAIL_CALL") /\ Kind(Get(A)) = "closure"
  /\ LET f == Data(Get(A)) IN
     /\ RefsGiven(f)
     /\ stack' = SubSeq(stack, 1, Top.base - 1) \o Activation(f)
     /\ calls' = [calls EXCEPT ![Len(calls)] = Entry(Top.base, f)]
     /\ UNCHANGED running

\* The script is over: nothing of it can be observed any more.
Halt == stack' = <<>> /\ calls' = <<>> /\ running' = FALSE

Yield(s, v) ==
  \/ /\ Len(calls) > 1
     /\ stack' = SubSeq(s, 1, Top.base - 1) \o <<v>>
     /\ calls' = SubSeq(calls, 1, Len(calls) - 1)
     /\ UNCHANGED running
  \/ Len(calls) = 1 /\ Halt

Return ==
  \/ At("RETURN") /\ Yield(stack, Get(0))
  \/ At("RETURN_NIL") /\ Yield(stack, PNil)

Target == stack[Data(stack[Local(1)])]
Grown  == PArr(Append(Data(Target), stack[Local(2)]))

\* append changes the variable its first argument refers to, and returns its
\* new value.
AppendNative ==
  /\ At("APPEND") /\ Kind(stack[Local(1)]) = "ref" /\ Kind(Target) = "array"
  /\ Yield([stack EXCEPT ![Data(stack[Local(1)])] = Grown], Grown)

\* array(val, n) is n times val, and array() is empty.
Filled(v, n) == PArr(SubSeq([i \in 1..n |-> v], 1, n))

ArrayNative ==
  /\ At("ARRAY")
  /\ LET n == stack[Local(2)] IN
     \/ Kind(n) = "nil" /\ Yield(stack, PArr(<<>>))
     \/ Kind(n) = "number" /\ Yield(stack, Filled(stack[Local(1)], Data(n)))

LenNative ==
  /\ At("LEN") /\ Kind(stack[Local(1)]) = "array"
  /\ Yield(stack, PNum(Len(Data(stack[Local(1)]))))

Builtins == AppendNative \/ ArrayNative \/ LenNative

\* A type error, a bound of the stacks or of the memory stops the script.
Abort == running /\ Halt

NextStatement ==
  /\ running /\ calls # <<>> /\ Top.code = <<>>
  /\ \E s \in Stmts[Top.fn] : calls' = [calls EXCEPT ![Len(calls)].code = s]
  /\ UNCHANGED <<stack, running>>

Init ==
  /\ stack = <<PFn(Main)>>
  /\ calls = <<Entry(1, Main)>>
  /\ running = TRUE

Next ==
  \/ Constant \/ Read \/ TakeRef \/ Drop \/ Write
  \/ Build \/ Project \/ Update \/ Unpack \/ Equal \/ Sum
  \/ Invoke \/ TailInvoke \/ Return \/ Builtins
  \/ NextStatement \/ Abort

Spec == Init /\ [][Next]_vars
==============================================================================
