------------------------------- MODULE MCRakVM -------------------------------
(***************************************************************************)
(* Small scripts for RakVM.  Each is a set of functions, what each of them *)
(* runs when it is entered and the statements it then runs in any order.   *)
(***************************************************************************)
EXTENDS RakVMValues, RakTemplates, TLC

CONSTANTS
  F, G,                               \* user functions of the scripts
  NativeAppend, NativeArray, NativeLen,
  apcl, arcl                          \* the addresses of the natives' closures

Symmetry == Permutations(Obj \ ({GlobalsObj, MainObj} \cup Range(NativeObjs)))

\* The instructions of a script.
InstrOf(prologue, stmts) ==
  UNION {Range(p) : p \in {prologue[f] : f \in DOMAIN prologue}
                            \cup UNION {stmts[f] : f \in DOMAIN stmts}}

-----------------------------------------------------------------------------
(***************************************************************************)
(* Arrays: two variables that come to share arrays, and that are written   *)
(* through one level, through two, and by the native append.               *)
(*     let a = [0];   let b = [a];                                         *)
(***************************************************************************)
CallAppend(args) == CallOf(Global(1), args)
CallArray(args)  == CallOf(Global(2), args)
a == Var(1)
b == Var(2)

ArraysNatives == <<NativeAppend, NativeArray>>
ArraysNativeObjs == <<apcl, arcl>>
ArraysFun == {Main, NativeAppend, NativeArray}
ArraysArity == (Main :> 0) @@ (NativeAppend :> 2) @@ (NativeArray :> 3)
ArraysInouts == (Main :> {}) @@ (NativeAppend :> {1}) @@ (NativeArray :> {})
ArraysPrologue ==
  (Main :> ArrayOf(<<Num(0)>>) \o ArrayOf(<<Load(a)>>))
  @@ (NativeAppend :> One("APPEND", 0)) @@ (NativeArray :> One("ARRAY", 0))
NoneElse(f, stmts) == [g \in f |-> IF g \in DOMAIN stmts THEN stmts[g] ELSE {}]
ArraysStmts ==
  NoneElse(ArraysFun,
  (Main :> {Assign(a, Load(b)),
            Assign(b, ArrayOf(<<Load(a), Num(0)>>)),
            AssignElement(a, Num(0), Load(b)),
            AssignElement(b, Num(0), Load(a)),
            AssignNested(b, Num(0), Num(0), Num(1)),
            AddAssignElement(b, Num(0), ArrayOf(<<Num(0)>>)),
            AddAssignElement(a, Num(0), Num(1)),
            ExprStmt(Equals(Subscript(Load(a), Num(0)), Load(b))),
            Destructure(Load(b), 2) \o One("POP", 0) \o One("POP", 0),
            ExprStmt(CallAppend(<<RefArg(a), Num(0)>>)),
            ExprStmt(CallAppend(<<RefArg(a), Load(b)>>)),
            Assign(a, CallAppend(<<RefArg(b), Num(0)>>)),
            ExprStmt(CallAppend(<<Load(a), Load(b), Load(b)>>)),
            Assign(a, CallArray(<<Num(0), Num(2)>>)),
            Assign(a, CallArray(<<>>)),
            ExprStmt(CallArray(<<Num(0), Num(3)>>)),
            ExprStmt(Equals(Load(a), Equals(Load(b), CallArray(<<>>)))),
            ExprStmt(CallArray(<<Num(0), Load(a)>>)),
            Assign(b, CallArray(<<Num(0), Num(1), Load(b)>>)),
            Assign(a, ArrayOf(<<>>)),
            Assign(a, NilOf),
            ReturnNothing}))
ArraysInstr == InstrOf(ArraysPrologue, ArraysStmts)

-----------------------------------------------------------------------------
(***************************************************************************)
(* Calls: a function that writes the variable it is given a reference to,  *)
(* functions as values, calls with too many and too few arguments,         *)
(* recursion and tail calls.                                               *)
(*     fn f(inout p, q) { ... }   fn g(x) { ... }                          *)
(*     let a = [0];   let b = [a];                                         *)
(***************************************************************************)
f1 == Var(1)
g1 == Var(2)
a1 == Var(3)
b1 == Var(4)
self == Var(0)
p1 == Inout(1)
q1 == Var(2)
x1 == Var(1)

CallsNatives == <<NativeLen>>
CallsNativeObjs == <<apcl>>
CallsFun == {Main, NativeLen, F, G}
CallsArity == (Main :> 0) @@ (NativeLen :> 1) @@ (F :> 2) @@ (G :> 1)
CallsInouts == (F :> {1}) @@ [f \in {Main, NativeLen, G} |-> {}]
CallsPrologue ==
  (Main :> FnDecl(F) \o FnDecl(G) \o ArrayOf(<<Num(0)>>) \o ArrayOf(<<Load(a1)>>))
  @@ (F :> <<>>) @@ (G :> <<>>) @@ (NativeLen :> One("LEN", 0))
CallsStmts ==
  NoneElse(CallsFun,
  (Main :> {ExprStmt(CallOf(Load(f1), <<RefArg(a1), Load(b1)>>)),
            ExprStmt(CallOf(Load(f1), <<Load(a1)>>)),
            Assign(b1, CallOf(Load(f1), <<RefArg(b1), Load(g1)>>)),
            Assign(a1, CallOf(Load(g1), <<Load(a1), Load(f1)>>)),
            Assign(a1, Load(b1)),
            AssignElement(a1, Num(0), Load(b1)),
            ReturnNothing})
  @@ (F :> {AssignElement(p1, Num(0), Load(q1)),
            AssignNested(p1, Num(0), Num(0), Num(1)),
            Assign(p1, ArrayOf(<<Load(q1)>>)),
            ExprStmt(CallOf(Load(q1), <<Load(q1)>>)),
            ReturnOf(CallOf(Load(self), <<RefArg(p1), ArrayOf(<<Num(1)>>)>>)),
            ReturnOf(CallOf(Load(self), <<RefArg(p1), Load(q1), Load(p1)>>)),
            ReturnOf(CallOf(Load(self), <<Load(p1)>>)),
            ReturnOf(Load(p1)),
            ReturnNothing})
  @@ (G :> {Assign(x1, Num(1)),
            ReturnOf(ArrayOf(<<Load(x1)>>)),
            Assign(x1, CallOf(Global(1), <<Load(x1)>>)),
            ReturnOf(CallOf(Load(x1), <<ArrayOf(<<>>)>>)),
            ExprStmt(CallOf(Load(x1), <<>>)),
            ReturnOf(CallOf(Load(self), <<>>)),
            ReturnOf(CallOf(Load(self), <<ArrayOf(<<Load(x1)>>)>>)),
            ReturnNothing}))
CallsInstr == InstrOf(CallsPrologue, CallsStmts)

-----------------------------------------------------------------------------
(***************************************************************************)
(* Scripts that leave the discipline the runtime depends on.               *)
(***************************************************************************)
\* let a = [0];   let b = [a];   &b = array(a, 2);
FillStmts ==
  NoneElse(ArraysFun, Main :> {Assign(b, CallArray(<<Load(a), Num(2)>>)), ReturnNothing})
FillInstr == InstrOf(ArraysPrologue, FillStmts)

\* &b[0] = f(&a, b);   where f is   fn f(inout p, q) { &p = q; }
StaleStmts ==
  NoneElse(CallsFun,
    (Main :> {AssignElement(b1, Num(0), CallOf(Load(f1), <<RefArg(a1), Load(b1)>>)),
              ReturnNothing})
    @@ (F :> {Assign(p1, Load(q1)), ReturnNothing}))
StaleInstr == InstrOf(CallsPrologue, StaleStmts)

\* f(&a, g);   where f is   fn f(inout p, q) { return q(p); }
\* and g is   fn g(x) { return x; }
ApplyStmts ==
  NoneElse(CallsFun,
    (Main :> {ExprStmt(CallOf(Load(f1), <<RefArg(a1), Load(g1)>>)), ReturnNothing})
    @@ (F :> {ReturnOf(CallOf(Load(q1), <<Load(p1)>>))})
    @@ (G :> {ReturnOf(Load(x1))}))
ApplyInstr == InstrOf(CallsPrologue, ApplyStmts)
=============================================================================
