------------------------------ MODULE RakCompiler ------------------------------
(***************************************************************************)
(* The compiler's control (src/src/compiler.c): scopes and slots, jumps    *)
(* and their patching, loops, and the rewriting of the last instructions.  *)
(*                                                                         *)
(* A behaviour compiles one function declaration, statement by statement,  *)
(* in one pass as the C code does, and then runs the code on its arguments *)
(* beside the source: `steps' records what the source says is done from    *)
(* one offset of the code to another, src is the source program, run step  *)
(* by step on variables with names in nested scopes, and the invariants    *)
(* compare it with the machine, which has slots.                           *)
(*                                                                         *)
(* The parser is left out: the text is any sequence of statements, an      *)
(* expression a tree over variables.  Arithmetic and calls are functions   *)
(* of the values: `+' stands for the five operators, which are compiled    *)
(* alike.                                                                  *)
(***************************************************************************)
EXTENDS Integers, FiniteSets, SequencesExt

CONSTANTS
  Name,       \* identifiers
  Params,     \* the name of the function, then those of its parameters
  Expr,       \* the expressions of a program, and their parts
  Exprs,      \* [{"test", "do", "return"} -> SUBSET Expr]: those of each statement
  Assigned,   \* [{"let", "assign", "op"} -> SUBSET (Name \X Expr)]
  Constructs, \* which of the statements with a block a program may use
  Value, Falsy, Nil,
  Self,       \* the closure that is called, which is in slot 0
  SumOf,      \* [Value \X Value -> Value]
  Result,     \* [Value -> Value]: what calling a value returns
  MaxSymbols, \* RAK_COMPILER_MAX_SYMBOLS
  MaxInstrs,  \* RAK_CHUNK_MAX_INSTRS, the range of uint16_t
  MaxBreaks,  \* the capacity of loop->jumps
  MaxStmts    \* bound: statements in the text

ASSUME CompilerAssumption ==
  /\ Params \in Seq(Name) /\ Len(Params) \in 1..MaxSymbols
  /\ Nil \in Falsy /\ Falsy \subseteq Value /\ Self \in Value \ Falsy
  /\ SumOf \in [Value \X Value -> Value] /\ Result \in [Value -> Value]
  /\ MaxSymbols \in Nat /\ MaxInstrs \in Nat \ {0} /\ MaxBreaks \in Nat /\ MaxStmts \in Nat

VARIABLES
  status,     \* "compiling", "rejected", "running" or "returned"
  code,       \* chunk->instrs; an offset of the C code is an index less 1
  symbols,    \* comp->symbols: name and depth; the slot is the index less 1
  scopeDepth, \* comp->scopeDepth
  loops,      \* comp->loop and its parents, innermost last
  open,       \* the compile_* functions waiting for the end of a block
  stmts,      \* the statements read
  steps,      \* what the source does from one offset to another
  pc, stk,    \* frame->state and the slots of the frame
  src         \* where the source is, and its variables

compiling == <<symbols, scopeDepth, loops, open, stmts>>
vars == <<status, code, compiling, steps, pc, stk, src>>

-----------------------------------------------------------------------------
(***************************************************************************)
(* Expressions.                                                            *)
(***************************************************************************)
VarOf(n)      == [op |-> "var", name |-> n]
NilExpr       == [op |-> "nil", of |-> <<>>]
And(d, e)     == [op |-> "and", of |-> <<d, e>>]
Or(d, e)      == [op |-> "or", of |-> <<d, e>>]
Plus(d, e)    == [op |-> "sum", of |-> <<d, e>>]
Call(d)       == [op |-> "call", of |-> <<d>>]
If(d, e, f)   == [op |-> "if", of |-> <<d, e, f>>]

ASSUME ExprAssumption ==
  /\ NilExpr \in Expr
  /\ \A e \in Expr :
       \/ e.op = "var" /\ e.name \in Name
       \/ e.op = "nil" /\ e.of = <<>>
       \/ e.op = "call" /\ \E d \in Expr : e.of = <<d>>
       \/ e.op \in {"and", "or", "sum"} /\ e.of \in Expr \X Expr
       \/ e.op = "if" /\ e.of \in Expr \X Expr \X Expr
  \* They are trees: some expression of any set has no part in it.
  /\ \A S \in (SUBSET Expr) \ {{}} :
       \E e \in S : e.op = "var" \/ \A i \in DOMAIN e.of : e.of[i] \notin S
  /\ \A k \in {"test", "do", "return"} : Exprs[k] \subseteq Expr
  /\ \A k \in {"let", "assign", "op"} : Assigned[k] \subseteq Name \X Expr
  /\ \A a \in Assigned["op"] : Plus(VarOf(a[1]), a[2]) \in Expr

Names(e) ==
  LET names[d \in Expr] ==
        IF d.op = "var" THEN {d.name} ELSE UNION {names[d.of[i]] : i \in DOMAIN d.of}
  IN  names[e]

\* resolve_local: the slot of the innermost variable of that name.
IsDeclared(n) == \E i \in DOMAIN symbols : symbols[i].name = n
\* Mutant: the outermost variable of that name.
SlotOfFirst(n) == SelectInSeq(symbols, LAMBDA s : s.name = n) - 1
Slot(n) == SelectLastInSeq(symbols, LAMBDA s : s.name = n) - 1

Jumps == {"JUMP", "JUMP_IF_FALSE", "JUMP_IF_FALSE_OR_POP", "JUMP_IF_TRUE_OR_POP"}
Instr ==
  {<<op>> : op \in {"NOP", "PUSH_NIL", "POP", "ADD", "CALL", "TAIL_CALL", "RETURN", "RETURN_NIL"}}
    \cup ((Jumps \cup {"LOAD_LOCAL", "STORE_LOCAL"}) \X Int)
    \cup ({"MOVE", "ADD2"} \X Int \X Int)
    \cup ({"ADD3"} \X Int \X Int \X Int)

Offset(c) == Len(c) % MaxInstrs      \* (uint16_t) chunk->instrs.len
Nop == <<"NOP">>
Patch(c, off, instr) == [c EXCEPT ![off + 1] = instr]
Op(c, i) == c[i][1]

\* emit_add_instr and its four likes.
EmitSum(c) ==
  LET n == Len(c) IN
    IF Op(c, n - 1) = "LOAD_LOCAL" /\ Op(c, n) = "LOAD_LOCAL"
    THEN Append(SubSeq(c, 1, n - 2), <<"ADD2", c[n - 1][2], c[n][2]>>)
    ELSE Append(c, <<"ADD">>)

\* compile_expr and what it calls: the code c followed by that of e.
Compiled(c, e) ==
  LET compiled[x \in Seq(Instr) \X Expr] ==
        LET On(d, i) == compiled[<<d, x[2].of[i]>>]
            ShortCut(op) ==    \* compile_and_expr_cont, compile_expr_cont
              LET left == On(x[1], 1)
                  all  == On(Append(left, Nop), 2)
              IN  Patch(all, Len(left), <<op, Offset(all)>>)
            Branch ==
              LET test == On(x[1], 1)
                  yes  == Append(On(Append(test, Nop), 2), Nop)
                  no   == On(Patch(yes, Len(test), <<"JUMP_IF_FALSE", Offset(yes)>>), 3)
              IN  Patch(no, Len(yes) - 1, <<"JUMP", Offset(no)>>)
        IN CASE x[2].op = "var"  -> Append(x[1], <<"LOAD_LOCAL", Slot(x[2].name)>>)
             [] x[2].op = "nil"  -> Append(x[1], <<"PUSH_NIL">>)
             [] x[2].op = "and"  -> ShortCut("JUMP_IF_FALSE_OR_POP")
             [] x[2].op = "or"   -> ShortCut("JUMP_IF_TRUE_OR_POP")
             [] x[2].op = "sum"  -> EmitSum(On(On(x[1], 1), 2))
             [] x[2].op = "call" -> Append(On(x[1], 1), <<"CALL">>)
             [] x[2].op = "if"   -> Branch
  IN  compiled[<<c, e>>]

\* emit_store_local_instr
EmitStore(c, dst) ==
  LET last == Last(c) IN
    IF last[1] = "LOAD_LOCAL" THEN Append(Front(c), <<"MOVE", dst, last[2]>>)
    ELSE IF last[1] = "ADD2" THEN Append(Front(c), <<"ADD3", dst, last[2], last[3]>>)
    ELSE Append(c, <<"STORE_LOCAL", dst>>)

\* emit_return_instr
EmitReturn(c) ==
  IF Last(c)[1] = "CALL" THEN Append(Front(c), <<"TAIL_CALL">>)
  ELSE Append(c, <<"RETURN">>)

-----------------------------------------------------------------------------
(***************************************************************************)
(* What the source means: a sequence of variables, the innermost last.     *)
(***************************************************************************)
Binding(n, v) == [name |-> n, val |-> v]
Innermost(env, n) == SelectLastInSeq(env, LAMBDA b : b.name = n)
Truthy(v) == v \notin Falsy

Eval(e, env) ==
  LET eval[d \in Expr] ==
        LET Part(i) == eval[d.of[i]] IN
          CASE d.op = "var"  -> env[Innermost(env, d.name)].val
            [] d.op = "nil"  -> Nil
            [] d.op = "and"  -> IF Truthy(Part(1)) THEN Part(2) ELSE Part(1)
            [] d.op = "or"   -> IF Truthy(Part(1)) THEN Part(1) ELSE Part(2)
            [] d.op = "sum"  -> SumOf[<<Part(1), Part(2)>>]
            [] d.op = "call" -> Result[Part(1)]
            [] d.op = "if"   -> IF Truthy(Part(1)) THEN Part(2) ELSE Part(3)
  IN  eval[e]

Done == MaxInstrs    \* no offset: the function has returned

\* From one offset to another the source does this; nothing if they are one.
Step(from, to, do) == IF from = to THEN {} ELSE {[from |-> from, to |-> to, do |-> do]}

Enabled(do, env) ==
  CASE do[1] = "if" -> Truthy(Eval(do[2], env))
    [] do[1] = "unless" -> ~Truthy(Eval(do[2], env))
    [] OTHER -> TRUE

Effect(do, env) ==
  CASE do[1] = "let" -> Append(env, Binding(do[2], Eval(do[3], env)))
    [] do[1] = "assign" -> [env EXCEPT ![Innermost(env, do[2])].val = Eval(do[3], env)]
    [] do[1] = "leave" -> SubSeq(env, 1, do[2])
    [] do[1] = "return" -> <<Binding(Params[1], Eval(do[2], env))>>
    [] OTHER -> env

-----------------------------------------------------------------------------
(***************************************************************************)
(* Statements, one action for each point where the compiler reads one.     *)
(***************************************************************************)
Symbol(n, depth) == [name |-> n, depth |-> depth]

\* The symbols that a scope of that depth has added last.
Inner(syms, depth) == {i \in DOMAIN syms : \A j \in i..Len(syms) : syms[j].depth = depth}
\* Mutant: the slots are popped but the symbols stay.
WithoutNone(syms, depth) == syms
Without(syms, depth) == SubSeq(syms, 1, Len(syms) - Cardinality(Inner(syms, depth)))

\* discard_scope
\* Mutant: one slot more, as if the loop ended one symbol too late.
DiscardedOneMore(c, syms, depth) ==
  c \o [i \in 1..(Cardinality(Inner(syms, depth)) + 1) |-> <<"POP">>]
Discarded(c, syms, depth) == c \o [i \in 1..Cardinality(Inner(syms, depth)) |-> <<"POP">>]

\* define_local
CanDefine(n) ==
  /\ \A i \in Inner(symbols, scopeDepth) : symbols[i].name # n
  /\ Len(symbols) < MaxSymbols

Known(e) == \A n \in Names(e) : IsDeclared(n)

Blocks == {"body", "block", "then", "else", "loop", "do"}
Begun(kind) == [kind |-> kind, level |-> Len(symbols), jump |-> 0, from |-> 0, test |-> NilExpr]

Reading(kinds) == status = "compiling" /\ Last(open).kind \in kinds
NextStmt(kinds) == Reading(kinds) /\ stmts < MaxStmts /\ stmts' = stmts + 1

Emit(c, done) ==
  /\ code' = c
  /\ steps' = steps \cup done
  /\ UNCHANGED <<status, pc, stk, src>>

Here == Len(code)
SameScope == UNCHANGED <<symbols, scopeDepth, loops, open>>

\* compiler_deinit: nothing is left of the compiler.
Released == symbols' = <<>> /\ scopeDepth' = 0 /\ loops' = <<>> /\ open' = <<>> /\ stmts' = 0

\* A compile error: the function is freed.
Reject ==
  /\ status' = "rejected"
  /\ code' = <<>> /\ steps' = {}
  /\ Released
  /\ UNCHANGED <<pc, stk, src>>

\* compile_variable, of a let statement or at the head of an if or a while.
LetDecl ==
  \E a \in Assigned["let"] :
    LET n  == a[1]
        e  == a[2]
        c  == Compiled(code, e)
        ok == Known(e) /\ CanDefine(n)
    IN
      \/ /\ ok
         /\ NextStmt(Blocks \cup {"if", "while"})
         /\ Emit(c, Step(Here, Len(c), <<"let", n, e>>))
         /\ symbols' = Append(symbols, Symbol(n, scopeDepth))
         /\ UNCHANGED <<scopeDepth, loops, open>>
      \/ ~ok /\ Reading(Blocks \cup {"if", "while"}) /\ stmts < MaxStmts /\ Reject

AssignStmt ==
  \E a \in Assigned["assign"] :
    LET n == a[1]
        e == a[2]
        c == EmitStore(Compiled(code, e), Slot(n))
    IN /\ IsDeclared(n) /\ Known(e)
       /\ NextStmt(Blocks)
       /\ Emit(c, Step(Here, Len(c), <<"assign", n, e>>))
       /\ SameScope

\* &n += e;
AssignOp ==
  \E a \in Assigned["op"] :
    LET n    == a[1]
        e    == a[2]
        both == Compiled(Append(code, <<"LOAD_LOCAL", Slot(n)>>), e)
        c    == EmitStore(Append(both, <<"ADD">>), Slot(n))
    IN /\ IsDeclared(n) /\ Known(e)
       /\ NextStmt(Blocks)
       /\ Emit(c, Step(Here, Len(c), <<"assign", n, Plus(VarOf(n), e)>>))
       /\ SameScope

ExprStmt ==
  \E e \in Exprs["do"] :
    LET c == Append(Compiled(code, e), <<"POP">>) IN
      /\ Known(e)
      /\ NextStmt(Blocks)
      /\ Emit(c, Step(Here, Len(c), <<"do">>))
      /\ SameScope

ReturnStmt ==
  \E e \in Exprs["return"] :
    LET c == EmitReturn(Compiled(code, e)) IN
      /\ Known(e)
      /\ NextStmt(Blocks)
      /\ Emit(c, Step(Here, Done, <<"return", e>>))
      /\ SameScope

\* A variable is used that is not declared.
Undefined ==
  /\ Reading(Blocks \cup {"if", "while"}) /\ stmts < MaxStmts
  /\ \/ \E e \in UNION {Exprs[k] : k \in DOMAIN Exprs} : ~Known(e)
     \/ \E a \in Assigned["assign"] \cup Assigned["op"] : ~IsDeclared(a[1]) \/ ~Known(a[2])
  /\ Reject

\* `{' and the head of a statement: a scope begins.
BeginBlock ==
  /\ "block" \in Constructs
  /\ NextStmt(Blocks)
  /\ scopeDepth' = scopeDepth + 1
  /\ open' = Append(open, Begun("block"))
  /\ Emit(code, {})
  /\ UNCHANGED <<symbols, loops>>

BeginIf ==
  /\ "if" \in Constructs
  /\ NextStmt(Blocks)
  /\ scopeDepth' = scopeDepth + 1
  /\ open' = Append(open, Begun("if"))
  /\ Emit(code, {})
  /\ UNCHANGED <<symbols, loops>>

\* compile_loop_stmt and compile_while_stmt up to begin_loop and begin_scope.
BeginLoop ==
  \E kind \in {"loop", "while"} \cap Constructs :
    /\ NextStmt(Blocks)
    /\ loops' = Append(loops, [off |-> Offset(code), level |-> Len(symbols),
                               inner |-> Len(symbols), jumps |-> <<>>])
    /\ scopeDepth' = scopeDepth + 1
    /\ open' = Append(open, Begun(kind))
    /\ Emit(code, {})
    /\ UNCHANGED symbols

\* The condition, and the `{' that follows it.
Condition ==
  \E e \in Exprs["test"], body \in {"then", "do"} :
    LET c    == Append(Compiled(code, e), Nop)
        head == [Last(open) EXCEPT !.jump = Len(c) - 1, !.from = Here, !.test = e]
    IN /\ Known(e)
       /\ Reading({IF body = "then" THEN "if" ELSE "while"})
       /\ Emit(c, Step(Here, Len(c), <<"if", e>>))
       /\ scopeDepth' = scopeDepth + 1
       /\ open' = Front(open) \o <<head, Begun(body)>>
       /\ loops' = IF body = "then" THEN loops
                   ELSE [loops EXCEPT ![Len(loops)].inner = Len(symbols)]
       /\ UNCHANGED <<symbols, stmts>>

\* The `}' of a block, and of an else.
EndBlock ==
  LET c == Discarded(code, symbols, scopeDepth) IN
    /\ Reading({"block", "else"})
    /\ Emit(c, Step(Here, Len(c), <<"leave", Last(open).level>>))
    /\ symbols' = Without(symbols, scopeDepth)
    /\ scopeDepth' = scopeDepth - 1
    /\ open' = Front(open)
    /\ UNCHANGED <<loops, stmts>>

\* The `}' after the condition holds: a jump past the else, to be patched.
EndThen ==
  LET head == open[Len(open) - 1]
      left == Discarded(code, symbols, scopeDepth)
      c    == Append(left, Nop)
  IN /\ Reading({"then"})
     /\ Emit(Patch(c, head.jump, <<"JUMP_IF_FALSE", Offset(c)>>),
             Step(Here, Len(left), <<"leave", Last(open).level>>)
               \cup Step(head.from, Len(c), <<"unless", head.test>>))
     /\ symbols' = Without(symbols, scopeDepth)
     /\ scopeDepth' = scopeDepth - 1
     /\ open' = Append(SubSeq(open, 1, Len(open) - 2),
                       [head EXCEPT !.kind = "rest", !.jump = Len(left)])
     /\ UNCHANGED <<loops, stmts>>

\* compile_if_stmt_cont: an else, or another if, of which this one awaits the end.
BeginElse ==
  \E kind \in {"else", "if"} :
    /\ "else" \in Constructs
    /\ NextStmt({"rest"})
    /\ scopeDepth' = scopeDepth + 1
    /\ open' = Front(open) \o <<[Last(open) EXCEPT !.kind = "ending"], Begun(kind)>>
    /\ Emit(code, {})
    /\ UNCHANGED <<symbols, loops>>

\* Mutant: the jump over an else is patched only when there is no else.
EndIfUnpatched ==
  LET head == Last(open)
      c    == Discarded(IF head.kind = "rest" THEN Patch(code, head.jump, <<"JUMP", Offset(code)>>)
                        ELSE code, symbols, scopeDepth)
  IN /\ Reading({"rest", "ending"})
     /\ Emit(c, Step(head.jump, Here, <<"do">>)
                  \cup Step(Here, Len(c), <<"leave", head.level>>))
     /\ symbols' = Without(symbols, scopeDepth)
     /\ scopeDepth' = scopeDepth - 1
     /\ open' = Front(open)
     /\ UNCHANGED <<loops, stmts>>

EndIf ==
  LET head == Last(open)
      c    == Discarded(Patch(code, head.jump, <<"JUMP", Offset(code)>>), symbols, scopeDepth)
  IN /\ Reading({"rest", "ending"})
     /\ Emit(c, Step(head.jump, Here, <<"do">>)
                  \cup Step(Here, Len(c), <<"leave", head.level>>))
     /\ symbols' = Without(symbols, scopeDepth)
     /\ scopeDepth' = scopeDepth - 1
     /\ open' = Front(open)
     /\ UNCHANGED <<loops, stmts>>

\* end_loop: the breaks of the loop jump here.
Joined(c, loop) ==
  [i \in DOMAIN c |-> IF \E j \in DOMAIN loop.jumps : loop.jumps[j] = i - 1
                      THEN <<"JUMP", Offset(c)>> ELSE c[i]]
Broken(loop, here) ==
  UNION {Step(loop.jumps[j], here, <<"leave", loop.inner>>) : j \in DOMAIN loop.jumps}

\* Mutant: the scope of the loop is ended twice.
EndLoopTwice ==
  LET loop == Last(loops)
      c    == Append(Discarded(code, symbols, scopeDepth), <<"JUMP", loop.off>>)
  IN /\ Reading({"loop"})
     /\ Emit(Joined(c, loop), Step(Here, loop.off, <<"leave", loop.level>>)
                                \cup Broken(loop, Len(c)))
     /\ symbols' = Without(symbols, scopeDepth)
     /\ scopeDepth' = scopeDepth - 2
     /\ loops' = Front(loops)
     /\ open' = Front(open)
     /\ UNCHANGED stmts

EndLoop ==
  LET loop == Last(loops)
      c    == Append(Discarded(code, symbols, scopeDepth), <<"JUMP", loop.off>>)
  IN /\ Reading({"loop"})
     /\ Emit(Joined(c, loop), Step(Here, loop.off, <<"leave", loop.level>>)
                                \cup Broken(loop, Len(c)))
     /\ symbols' = Without(symbols, scopeDepth)
     /\ scopeDepth' = scopeDepth - 1
     /\ loops' = Front(loops)
     /\ open' = Front(open)
     /\ UNCHANGED stmts

EndWhile ==
  LET loop  == Last(loops)
      head  == open[Len(open) - 1]
      outer == Without(symbols, scopeDepth)
      body  == Discarded(Discarded(code, symbols, scopeDepth), outer, scopeDepth - 1)
      again == Append(body, <<"JUMP", loop.off>>)
      exit  == Patch(again, head.jump, <<"JUMP_IF_FALSE", Offset(again)>>)
      c     == Discarded(Joined(exit, loop), outer, scopeDepth - 1)
  IN /\ Reading({"do"})
     /\ Emit(c, Step(Here, loop.off, <<"leave", loop.level>>)
                  \cup Step(head.from, Len(again), <<"unless", head.test>>)
                  \cup Broken(loop, Len(again))
                  \cup Step(Len(again), Len(c), <<"leave", loop.level>>))
     /\ symbols' = Without(outer, scopeDepth - 1)
     /\ scopeDepth' = scopeDepth - 2
     /\ loops' = Front(loops)
     /\ open' = SubSeq(open, 1, Len(open) - 2)
     /\ UNCHANGED stmts

BreakStmt ==
  LET ok == loops # <<>> /\ Len(Last(loops).jumps) < MaxBreaks IN
    \/ /\ ok
       /\ NextStmt(Blocks)
       /\ Emit(Append(code, Nop), {})
       /\ loops' = [loops EXCEPT ![Len(loops)].jumps = Append(@, Here)]
       /\ UNCHANGED <<symbols, scopeDepth, open>>
    \/ ~ok /\ Reading(Blocks) /\ stmts < MaxStmts /\ Reject

ContinueStmt ==
  \/ /\ loops # <<>>
     /\ NextStmt(Blocks)
     /\ Emit(Append(code, <<"JUMP", Last(loops).off>>),
             Step(Here, Last(loops).off, <<"leave", Last(loops).level>>))
     /\ SameScope
  \/ loops = <<>> /\ Reading(Blocks) /\ stmts < MaxStmts /\ Reject

\* The end of the body.  If there is room for all the code (that which does not
\* fit is refused when it is emitted, and never gets shorter) the function is
\* called, on any arguments.
EndBody ==
  LET left == Discarded(code, symbols, scopeDepth)
      c    == Append(left, <<"RETURN_NIL">>)
  IN /\ Reading({"body"})
     /\ \/ /\ Len(c) <= MaxInstrs
           /\ status' = "running"
           /\ code' = c
           /\ steps' = steps \cup Step(Here, Len(left), <<"leave", Last(open).level>>)
                             \cup Step(Len(left), Done, <<"return", NilExpr>>)
           /\ stk' \in {args \in [DOMAIN Params -> Value] : args[1] = Self}
           /\ src' = [at |-> 0, env |-> [i \in DOMAIN Params |-> Binding(Params[i], stk'[i])]]
           /\ Released
           /\ UNCHANGED pc
        \/ Len(c) > MaxInstrs /\ Reject

-----------------------------------------------------------------------------
(***************************************************************************)
(* The machine, as far as control and slots go (src/include/rak/vm.h).     *)
(***************************************************************************)
I == code[pc + 1]
Top == Last(stk)
Local(i) == stk[i + 1]
Boundary == {s.from : s \in steps}

At(op, operands) ==
  status = "running" /\ pc < Len(code) /\ I[1] = op /\ Len(stk) >= operands

\* When the machine leaves a boundary the source makes the step that is due.
SourceMoves ==
  src' = IF pc \in Boundary /\ src.at \in Boundary
         THEN LET s == CHOOSE s \in steps : s.from = src.at /\ Enabled(s.do, src.env)
              IN [at |-> s.to, env |-> Effect(s.do, src.env)]
         ELSE src

Becomes(slots, off) ==
  /\ stk' = slots /\ pc' = off
  /\ SourceMoves
  /\ UNCHANGED <<status, code, compiling, steps>>

Leaves(v) ==
  /\ status' = "returned" /\ stk' = <<v>> /\ pc' = Done
  /\ SourceMoves
  /\ UNCHANGED <<code, compiling, steps>>

Dropped(k) == SubSeq(stk, 1, Len(stk) - k)
IsSlot(i) == i < Len(stk)

PushNil   == At("PUSH_NIL", 0) /\ Becomes(Append(stk, Nil), pc + 1)
Pop       == At("POP", 1) /\ Becomes(Dropped(1), pc + 1)
LoadLocal == At("LOAD_LOCAL", 0) /\ IsSlot(I[2]) /\ Becomes(Append(stk, Local(I[2])), pc + 1)
StoreLocal ==
  At("STORE_LOCAL", 1) /\ IsSlot(I[2]) /\ Becomes(Front([stk EXCEPT ![I[2] + 1] = Top]), pc + 1)
Move ==
  /\ At("MOVE", 0) /\ IsSlot(I[2]) /\ IsSlot(I[3])
  /\ Becomes([stk EXCEPT ![I[2] + 1] = Local(I[3])], pc + 1)
Add == At("ADD", 2) /\ Becomes(Append(Dropped(2), SumOf[<<stk[Len(stk) - 1], Top>>]), pc + 1)
Add2 ==
  /\ At("ADD2", 0) /\ IsSlot(I[2]) /\ IsSlot(I[3])
  /\ Becomes(Append(stk, SumOf[<<Local(I[2]), Local(I[3])>>]), pc + 1)
Add3 ==
  /\ At("ADD3", 0) /\ IsSlot(I[2]) /\ IsSlot(I[3]) /\ IsSlot(I[4])
  /\ Becomes([stk EXCEPT ![I[2] + 1] = SumOf[<<Local(I[3]), Local(I[4])>>]], pc + 1)
Jump == At("JUMP", 0) /\ Becomes(stk, I[2])
JumpIfFalse ==
  At("JUMP_IF_FALSE", 1) /\ Becomes(Dropped(1), IF Top \in Falsy THEN I[2] ELSE pc + 1)
JumpIfFalseOrPop ==
  /\ At("JUMP_IF_FALSE_OR_POP", 1)
  /\ IF Top \in Falsy THEN Becomes(stk, I[2]) ELSE Becomes(Dropped(1), pc + 1)
JumpIfTrueOrPop ==
  /\ At("JUMP_IF_TRUE_OR_POP", 1)
  /\ IF Top \in Falsy THEN Becomes(Dropped(1), pc + 1) ELSE Becomes(stk, I[2])
CallValue == At("CALL", 1) /\ Becomes(Append(Dropped(1), Result[Top]), pc + 1)
TailCall  == At("TAIL_CALL", 1) /\ Leaves(Result[Top])
Return    == At("RETURN", 1) /\ Leaves(Top)
ReturnNil == At("RETURN_NIL", 0) /\ Leaves(Nil)

Stop == status \in {"rejected", "returned"} /\ UNCHANGED vars

\* compile_fn_decl: the function and its parameters are in slots, its body begins.
Init ==
  /\ status = "compiling"
  /\ code = <<>> /\ steps = {}
  /\ symbols = [i \in DOMAIN Params |-> Symbol(Params[i], 0)]
  /\ scopeDepth = 1 /\ loops = <<>>
  /\ open = <<Begun("body")>>
  /\ stmts = 0
  /\ pc = 0 /\ stk = <<>>
  /\ src = [at |-> 0, env |-> <<>>]

Statements ==
  LetDecl \/ AssignStmt \/ AssignOp \/ ExprStmt \/ ReturnStmt \/ Undefined
    \/ BeginBlock \/ BeginIf \/ BeginLoop \/ Condition \/ EndBlock \/ EndThen \/ BeginElse
    \/ EndIf \/ EndLoop \/ EndWhile \/ EndBody
Instructions ==
  PushNil \/ Pop \/ LoadLocal \/ StoreLocal \/ Move \/ Add \/ Add2 \/ Add3 \/ Jump
    \/ JumpIfFalse \/ JumpIfFalseOrPop \/ JumpIfTrueOrPop \/ CallValue \/ TailCall
    \/ Return \/ ReturnNil

Next == Statements \/ BreakStmt \/ ContinueStmt \/ Instructions \/ Stop

Spec == Init /\ [][Next]_vars

\* The programs in which no break or continue leaves the scope of a variable: for
\* the others the code keeps the slots of the scopes it leaves.
LevelNext ==
  \/ Statements \/ Instructions \/ Stop
  \/ (loops # <<>> => Len(symbols) = Last(loops).inner) /\ BreakStmt
  \/ (loops # <<>> => Len(symbols) = Last(loops).level) /\ ContinueStmt

LevelSpec == Init /\ [][LevelNext]_vars

-----------------------------------------------------------------------------
(***************************************************************************)
(* Correctness.                                                            *)
(***************************************************************************)
Offsets == 0..MaxInstrs

\* Every variable has its type.
TypeOK ==
  /\ status \in {"compiling", "rejected", "running", "returned"}
  /\ symbols \in Seq([name : Name, depth : Nat]) /\ scopeDepth \in Nat
  /\ loops \in Seq([off : Offsets, level : Nat, inner : Nat, jumps : Seq(Nat)])
  /\ \A i \in DOMAIN open : open[i].kind \in Blocks \cup {"if", "while", "rest", "ending"}
  /\ stmts \in 0..MaxStmts
  /\ pc \in Offsets /\ stk \in Seq(Value)
  /\ src.at \in Offsets /\ \A i \in DOMAIN src.env : src.env[i].val \in Value

Values(env) == [i \in DOMAIN env |-> env[i].val]

\* At every boundary the machine is where the source is, and its slots hold the
\* source's variables, outermost first, and nothing else: a variable is read and
\* written in the slot of the declaration that is in scope, a scope that ends or
\* is left takes its slots with it, a condition leads where it should, an
\* expression leaves one value, and what is returned is what the source returns.
Follows ==
  status \in {"running", "returned"} /\ pc \in Boundary \cup {Done} =>
    pc = src.at /\ stk = Values(src.env)

\* The operands of the instruction about to run are on the stack: no path through
\* the code reaches an instruction with fewer slots than the compiler assumed.
Operands ==
  CASE I[1] \in {"POP", "STORE_LOCAL", "JUMP_IF_FALSE", "JUMP_IF_FALSE_OR_POP",
                 "JUMP_IF_TRUE_OR_POP", "CALL", "TAIL_CALL", "RETURN"} -> 1
    [] I[1] = "ADD" -> 2
    [] OTHER -> 0
OperandsExist ==
  status = "running" =>
    /\ Len(stk) >= Len(Params) + Operands
    /\ I[1] \in {"LOAD_LOCAL", "STORE_LOCAL", "MOVE", "ADD2", "ADD3"} =>
         \A i \in 2..Len(I) : I[i] < Len(stk) - Operands

\* In code that runs every jump has been patched and lands on an instruction: no
\* path runs off the end of it.
Sealed ==
  status = "running" =>
    \A i \in DOMAIN code :
      /\ code[i] # Nop
      /\ code[i][1] \in Jumps => code[i][2] < Len(code)

\* The compiler's own account of scopes, while it compiles: the blocks that are
\* open began one inside the other, each symbol belongs to one of the scopes, the
\* outer ones first, and every block or head that is open has a scope of its own.
ScopesNest ==
  status = "compiling" =>
    /\ \A i \in 1..(Len(open) - 1) : open[i].level <= open[i + 1].level
    /\ Last(open).level <= Len(symbols)
    /\ scopeDepth = Len(open)
    /\ \A i \in DOMAIN symbols :
         symbols[i].depth = Cardinality({j \in DOMAIN open : open[j].level < i})
    /\ Len(loops) = Cardinality({i \in DOMAIN open : open[i].kind \in {"loop", "while"}})
==============================================================================
