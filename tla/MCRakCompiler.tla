---------------------------- MODULE MCRakCompiler ----------------------------
(***************************************************************************)
(* Small functions for RakCompiler.                                        *)
(***************************************************************************)
EXTENDS RakCompiler

\* Values: nil, which is false, and two that are true.  A sum and a result depend
\* on their operands, and a sum on their order.
MCValue == {"nil", "one", "two"}
MCFalsy == {"nil"}
MCSum == [p \in MCValue \X MCValue |-> IF p[1] = p[2] THEN "nil" ELSE p[1]]
MCResult == [v \in MCValue |-> IF v = "nil" THEN "two" ELSE "nil"]

f == VarOf("f")
p == VarOf("p")
x == VarOf("x")

\* fn f(p) { ... }, with a variable x in its blocks.
MCParams == <<"f", "p">>
MCName == {"f", "p", "x"}

\* An expression and its parts.
RECURSIVE PartsOf(_)
PartsOf(e) ==
  {e} \cup IF e.op = "var" THEN {} ELSE UNION {PartsOf(e.of[i]) : i \in DOMAIN e.of}
AllParts(exprs, assigned) ==
  UNION {PartsOf(e) : e \in {NilExpr}
                            \cup UNION {exprs[k] : k \in DOMAIN exprs}
                            \cup {a[2] : a \in assigned["let"] \cup assigned["assign"]}
                            \cup {Plus(VarOf(a[1]), a[2]) : a \in assigned["op"]}}

\* Statements of every kind: x is declared, p shadowed and both assigned.
LevelAssigned ==
  [let |-> {<<"x", p>>, <<"p", Plus(p, f)>>},
   assign |-> {<<"x", p>>, <<"x", And(p, Call(f))>>, <<"p", Plus(f, p)>>},
   op |-> {<<"p", If(p, f, NilExpr)>>}]
LevelExprs == [test |-> {p}, do |-> {Or(x, p)}, return |-> {Call(p), x}]
LevelExpr == AllParts(LevelExprs, LevelAssigned)

AllConstructs == {"block", "if", "else", "loop", "while"}

\* let x = p;   while p { ... }   break;   continue;
JumpAssigned == [let |-> {<<"x", p>>}, assign |-> {}, op |-> {}]
JumpExprs == [test |-> {p}, do |-> {}, return |-> {x}]
JumpExpr == AllParts(JumpExprs, JumpAssigned)
JumpConstructs == {"block", "while"}

\* return p && f();   let x = (p && f) + p;   &p = if p { f } else { p };
FusedAssigned ==
  [let |-> {<<"x", Plus(And(p, f), p)>>}, assign |-> {<<"p", If(p, f, p)>>}, op |-> {}]
NoConstructs == {}
FusedExprs == [test |-> {}, do |-> {}, return |-> {And(p, Call(f))}]
FusedExpr == AllParts(FusedExprs, FusedAssigned)
==============================================================================
