---------------------------- MODULE MCRakRecord ----------------------------
(***************************************************************************)
(* Small scripts for RakRecord:   let x;   let y;   and then statements    *)
(* from Program in any order.                                              *)
(***************************************************************************)
EXTENDS RakRecordMeaning, TLC

CONSTANTS ka, kb    \* the addresses of the constants "a" and "b"

Symmetry == Permutations(Obj \ {ka, kb})

MCChar   == {"a", "b"}
MCConsts == <<ka, kb>>
TextA == <<"a">>
TextB == <<"b">>
MCTexts  == <<TextA, TextB>>

x == 1
y == 2

\* "a" as a string of its own: "a"[0..1]
NewA == Sub(Quote(TextA), From(Lit(0), Lit(1)))
Zero == Lit(0)
One1 == Lit(1)
X == Ref(x)
Y == Ref(y)
DotA == ByName(TextA)
DotB == ByName(TextB)

\* &x.a = y;  &x.b += "a";  and the same with computed keys, through one record
\* and through two; slices, ranges and destructuring.
RecordsProgram ==
  {SetTo(x, <<>>, Y),
   SetTo(x, <<>>, Rec(<<<<TextA, Y>>, <<TextB, Quote(TextA)>>>>)),
   SetTo(y, <<>>, Rec(<<<<TextA, X>>>>)),
   SetTo(y, <<>>, Rec(<<<<TextA, Zero>>, <<TextA, Rec(<<>>)>>>>)),
   SetTo(x, <<DotA>>, Y),
   SetTo(x, <<DotA, DotB>>, Quote(TextA)),
   AddTo(x, <<DotA, DotB>>, One1),
   AddTo(x, <<DotB>>, Quote(TextA)),
   SetTo(x, <<DotA, DotB>>, Rec(<<<<TextA, Rec(<<>>)>>>>)),
   SetTo(x, <<ByKey(NewA)>>, Y),
   AddTo(x, <<ByKey(NewA)>>, One1),
   SetTo(y, <<ByKey(NewA), DotB>>, One1),
   SetTo(x, <<>>, Dot(Y, TextA)),
   SetTo(x, <<>>, Sub(Y, NewA)),
   SetTo(x, <<>>, Sub(Y, Zero)),
   SetTo(y, <<>>, From(Zero, One1)),
   Take(<<TextA, TextB>>, X, y, 2)}

CodeFor(program) == {StmtCode(s) : s \in program}
InstrOf(stmts) == UNION {{c[i] : i \in 1..Len(c)} : c \in stmts}

RecordsStmts == CodeFor(RecordsProgram)
RecordsInstr == InstrOf(RecordsStmts)
==============================================================================
