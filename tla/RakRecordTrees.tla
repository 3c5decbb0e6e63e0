--------------------------- MODULE RakRecordTrees ---------------------------
(***************************************************************************)
(* The statements of Rak that RakRecord runs, as trees: the code the       *)
(* compiler emits for them, and what they mean.  A record means a sequence *)
(* of <<key, value>> pairs, a string its characters and a range its two    *)
(* ends, wherever they are kept.                                           *)
(***************************************************************************)
EXTENDS RakRecord, RakTemplates

-----------------------------------------------------------------------------
(***************************************************************************)
(* Trees.  A key of a path is a name, as in x.a, or an expression.         *)
(***************************************************************************)
Lit(n)       == [kind |-> "number", n |-> n]
Quote(t)     == [kind |-> "string", text |-> t]
Ref(x)       == [kind |-> "variable", x |-> x]
From(lo, hi) == [kind |-> "range", lo |-> lo, hi |-> hi]
Rec(fs)      == [kind |-> "record", fields |-> fs]    \* Seq of <<text, tree>>
Dot(e, t)    == [kind |-> "field", of |-> e, name |-> t]
Sub(e, i)    == [kind |-> "element", of |-> e, at |-> i]

ByName(t) == [named |-> TRUE, key |-> Quote(t)]
ByKey(e)  == [named |-> FALSE, key |-> e]

\* &x k1 ... kn = e;    &x k1 ... kn += e;
SetTo(x, path, e)   == [kind |-> "set", x |-> x, path |-> path, e |-> e]
AddTo(x, path, e) == [kind |-> "add", x |-> x, path |-> path, e |-> e]

\* { let {names} = e;  &x = names[i]; }
Take(names, e, x, i) ==
  [kind |-> "take", names |-> names, e |-> e, x |-> x, i |-> i]

Nothing == [kind |-> "nothing"]

-----------------------------------------------------------------------------
(***************************************************************************)
(* Code.                                                                   *)
(***************************************************************************)
ConstOf(t) == CHOOSE i \in 1..Len(Texts) : Texts[i] = t

RECURSIVE CodeOf(_)
\* compile_expr, down to the literals
CodeOf(e) ==
  CASE e.kind = "number"   -> Num(e.n)
    [] e.kind = "string"   -> One("LOAD_CONST", ConstOf(e.text))
    [] e.kind = "variable" -> Load(Var(e.x))
    [] e.kind = "range"    -> CodeOf(e.lo) \o CodeOf(e.hi) \o One("NEW_RANGE", 0)
    [] e.kind = "record"   ->
         FlattenSeq([i \in 1..Len(e.fields) |->
                       CodeOf(Quote(e.fields[i][1])) \o CodeOf(e.fields[i][2])])
           \o One("NEW_RECORD", Len(e.fields))
    [] e.kind = "field"    -> CodeOf(e.of) \o One("GET_FIELD", ConstOf(e.name))
    [] e.kind = "element"  -> CodeOf(e.of) \o CodeOf(e.at) \o One("GET_ELEMENT", 0)

KeyCode(k) == IF k.named THEN <<>> ELSE CodeOf(k.key)

\* The instruction for the key k: opField with the name, or opElement.
ForKey(k, opField, opElement) ==
  IF k.named THEN One(opField, ConstOf(k.key.text)) ELSE One(opElement, 0)

UpdateFor(k) == One(IF k.named THEN "UPDATE_FIELD" ELSE "UPDATE_ELEMENT", 0)

RECURSIVE AssignCont(_, _)
\* compile_assign_stmt_cont: what the keys of path that are left emit.
AssignCont(s, path) ==
  LET k == Head(path) IN
  KeyCode(k) \o
    IF Len(path) > 1
    THEN ForKey(k, "FETCH_FIELD", "FETCH_ELEMENT") \o AssignCont(s, Tail(path))
           \o UpdateFor(k)
    ELSE IF s.kind = "set"
    THEN CodeOf(s.e) \o ForKey(k, "PUT_FIELD", "SET_ELEMENT")
    ELSE ForKey(k, "LOAD_FIELD", "LOAD_ELEMENT") \o CodeOf(s.e) \o One("ADD", 0)
           \o UpdateFor(k)

\* compile_destruct_fields; the locals of the block come after those of the
\* script and are popped where it ends.
TakeCode(s) ==
  LET n == Len(s.names) IN
  CodeOf(s.e) \o FlattenSeq([i \in 1..n |-> CodeOf(Quote(s.names[i]))])
    \o One("UNPACK_FIELDS", n)
    \o Assign(Var(s.x), Load(Var(Locals + s.i)))
    \o FlattenSeq([i \in 1..n |-> One("POP", 0)])

StmtCode(s) ==
  IF s.kind = "take" THEN TakeCode(s)
  ELSE IF s.path = <<>> THEN Assign(Var(s.x), CodeOf(s.e))
  ELSE Store(Var(s.x), Fetch(Var(s.x)) \o AssignCont(s, s.path))

-----------------------------------------------------------------------------
(***************************************************************************)
(* Meaning.                                                                *)
(***************************************************************************)
Undefined == <<"undefined", 0>>
NilValue  == <<"nil", 0>>

Has(v, t) == v[1] = "record" /\ \E i \in 1..Len(v[2]) : v[2][i][1] = t

ValueAt(v, t) ==
  IF Has(v, t) THEN v[2][CHOOSE i \in 1..Len(v[2]) : v[2][i][1] = t][2] ELSE Undefined

\* The record v with w for the key t, which comes last if it is new.
PutIn(v, t, w) ==
  <<"record", IF Has(v, t)
              THEN [i \in 1..Len(v[2]) |-> IF v[2][i][1] = t THEN <<t, w>> ELSE v[2][i]]
              ELSE Append(v[2], <<t, w>>)>>

\* The element of the string, range or record v that i selects.
Selected(v, i) ==
  CASE v[1] = "string" /\ i[1] = "range" /\ i[2][2] <= Len(v[2]) ->
         <<"string", SubSeq(v[2], i[2][1] + 1, i[2][2])>>
    [] v[1] = "range" /\ i[1] = "number" /\ v[2][1] + i[2] < v[2][2] ->
         <<"number", v[2][1] + i[2]>>
    [] v[1] = "record" /\ i[1] = "string" -> ValueAt(v, i[2])
    [] OTHER -> Undefined

RECURSIVE Eval(_, _)
\* What e evaluates to when the variables have the values env.
Eval(env, e) ==
  CASE e.kind = "number"   -> <<"number", e.n>>
    [] e.kind = "string"   -> <<"string", e.text>>
    [] e.kind = "variable" -> env[e.x]
    [] e.kind = "range"    -> <<"range", <<Eval(env, e.lo)[2], Eval(env, e.hi)[2]>>>>
    [] e.kind = "record" /\ e.fields = <<>> -> <<"record", <<>>>>
    [] e.kind = "record" /\ e.fields # <<>> ->
         LET v == Eval(env, Rec(Front(e.fields)))
             w == Eval(env, Last(e.fields)[2])
         IN  IF v = Undefined \/ w = Undefined THEN Undefined
             ELSE PutIn(v, Last(e.fields)[1], w)
    [] e.kind = "field"    -> ValueAt(Eval(env, e.of), e.name)
    [] e.kind = "element"  -> Selected(Eval(env, e.of), Eval(env, e.at))

RECURSIVE Written(_, _, _, _)
\* What v may become when the statement s writes below the keys of path.
Written(env, s, v, path) ==
  LET w == Eval(env, s.e) IN
  IF path = <<>>
  THEN IF s.kind = "set" THEN {w}
       ELSE IF v[1] = "number" /\ w[1] = "number" THEN {<<"number", n>> : n \in 0..MaxNum}
       ELSE IF v[1] = "string" /\ w[1] = "string" THEN {<<"string", v[2] \o w[2]>>}
       ELSE {}
  ELSE LET t    == Eval(env, Head(path).key)[2]
           last == s.kind = "set" /\ Len(path) = 1
       IN  IF v[1] = "record" /\ (last \/ Has(v, t))
           THEN {PutIn(v, t, u) : u \in Written(env, s, ValueAt(v, t), Tail(path))}
           ELSE {}

\* The values a statement may give to the variable it names; none when it has
\* no meaning.
Results(env, s) ==
  IF s.kind = "take"
  THEN LET v == Eval(env, s.e) IN
       IF \A i \in 1..Len(s.names) : Has(v, s.names[i]) THEN {ValueAt(v, s.names[s.i])} ELSE {}
  ELSE Written(env, s, env[s.x], s.path) \ {Undefined}
==============================================================================
