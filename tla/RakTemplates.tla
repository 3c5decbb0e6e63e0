---------------------------- MODULE RakTemplates ----------------------------
(***************************************************************************)
(* The code the compiler (src/src/compiler.c) emits for the statements and *)
(* expressions whose execution RakVM studies.  A variable is its slot in   *)
(* the frame and whether it is an inout parameter.                         *)
(***************************************************************************)
EXTENDS Integers, Sequences, SequencesExt

Ins(op, a, b) == [op |-> op, a |-> a, b |-> b]
One(op, a) == <<Ins(op, a, 0)>>

Var(i)   == [idx |-> i, isRef |-> FALSE]
Inout(i) == [idx |-> i, isRef |-> TRUE]

-----------------------------------------------------------------------------
(***************************************************************************)
(* Expressions.                                                            *)
(***************************************************************************)
Num(n) == One("PUSH_INT", n)

NilOf == One("PUSH_NIL", 0)

\* An inout parameter is read through its reference.
Load(x) == One(IF x.isRef THEN "LOAD_LOCAL_REF" ELSE "LOAD_LOCAL", x.idx)

ArrayOf(es) == FlattenSeq(es) \o One("NEW_ARRAY", Len(es))

Subscript(e, i) == e \o i \o One("GET_ELEMENT", 0)

Equals(e1, e2) == e1 \o e2 \o One("EQ", 0)

\* Mutant: a parameter that is a reference is referred to again.
RefArgAlwaysRef(x) == One("REF_LOCAL", x.idx)

\* &x as an argument: a parameter that is a reference already is passed on.
RefArg(x) == One(IF x.isRef THEN "LOAD_LOCAL" ELSE "REF_LOCAL", x.idx)

CallOf(callee, args) ==
  callee \o FlattenSeq(args) \o One("CALL", Len(args))

\* A built-in function, by its position among the globals.
Global(i) == One("LOAD_GLOBAL", i)

-----------------------------------------------------------------------------
(***************************************************************************)
(* Statements.                                                             *)
(***************************************************************************)
\* Mutant: the source operand of the move is the destination.
StoreLocalInstrToItself(dst, e) ==
  IF Last(e).op = "LOAD_LOCAL"
  THEN Front(e) \o <<Ins("MOVE", dst, dst)>>
  ELSE e \o One("STORE_LOCAL", dst)

\* emit_store_local_instr: a load just emitted becomes a move.
StoreLocalInstr(dst, e) ==
  IF Last(e).op = "LOAD_LOCAL"
  THEN Front(e) \o <<Ins("MOVE", dst, Last(e).a)>>
  ELSE e \o One("STORE_LOCAL", dst)

Store(x, e) ==
  IF x.isRef THEN e \o One("STORE_LOCAL_REF", x.idx) ELSE StoreLocalInstr(x.idx, e)

\* &x = e;
Assign(x, e) == Store(x, e)

\* The load that starts an assignment to a part of x.
Fetch(x) == One(IF x.isRef THEN "LOAD_LOCAL_REF" ELSE "FETCH_LOCAL", x.idx)

\* &x[i] = e;
AssignElement(x, i, e) ==
  Store(x, Fetch(x) \o i \o e \o One("SET_ELEMENT", 0))

\* &x[i] += e;
AddAssignElement(x, i, e) ==
  Store(x, Fetch(x) \o i \o One("LOAD_ELEMENT", 0) \o e \o One("ADD", 0)
             \o One("UPDATE_ELEMENT", 0))

\* &x[i][j] = e;
AssignNested(x, i, j, e) ==
  Store(x, Fetch(x) \o i \o One("FETCH_ELEMENT", 0) \o j \o e
             \o One("SET_ELEMENT", 0) \o One("UPDATE_ELEMENT", 0))

\* let [x1, ..., xn] = e;
Destructure(e, n) ==
  e \o FlattenSeq([i \in 1..n |-> Num(i - 1)]) \o One("UNPACK_ELEMENTS", n)

FnDecl(f) == One("NEW_CLOSURE", f)

ExprStmt(e) == e \o One("POP", 0)

\* return e;   A call in tail position is fused with the return.
ReturnOf(e) ==
  IF Last(e).op = "CALL"
  THEN Front(e) \o One("TAIL_CALL", Last(e).a)
  ELSE e \o One("RETURN", 0)

\* yield e;
YieldOf(e) == e \o One("YIELD", 0)

ReturnNothing == One("RETURN_NIL", 0)
==============================================================================
