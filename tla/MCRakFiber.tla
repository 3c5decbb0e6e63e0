------------------------------ MODULE MCRakFiber ------------------------------
(***************************************************************************)
(* Small scripts for RakFiber.                                             *)
(***************************************************************************)
EXTENDS RakFiber, RakTemplates, TLC

CONSTANTS NativeFiber, NativeResume, Gen, Relay, Inc, \* functions
          FiberObj, ResumeObj, GenObj, RelayObj, IncObj \* their closures

MCFun == {Main, NativeFiber, NativeResume, Gen, Relay, Inc}

MCFunOf == (MainObj :> Main) @@ (FiberObj :> NativeFiber) @@ (ResumeObj :> NativeResume)
             @@ (GenObj :> Gen) @@ (RelayObj :> Relay) @@ (IncObj :> Inc)

MCGlobals == <<FiberObj, ResumeObj>>
MCDeclared == <<GenObj, RelayObj, IncObj>>

MCArity == (Main :> 0) @@ (NativeFiber :> 2) @@ (NativeResume :> 1)
             @@ (Gen :> 0) @@ (Relay :> 1) @@ (Inc :> 1)
MCInouts == [f \in MCFun |-> IF f = Inc THEN {1} ELSE {}]

fiber == One("LOAD_GLOBAL", 1)
resume == One("LOAD_GLOBAL", 2)
self == Var(0)
gen == Var(1)
relay == Var(2)
inc == Var(3)
x == Var(4)
y == Var(5)

\* let x;   let y;
MCPrologue ==
  (Main :> NilOf \o NilOf) @@ (NativeFiber :> One("FIBER", 0))
  @@ (NativeResume :> One("RESUME", 0)) @@ [f \in {Gen, Relay, Inc} |-> <<>>]

\* fn gen() { yield 1; | yield gen(); | return 1; }
GenStmts == {YieldOf(Num(1)), YieldOf(CallOf(Load(self), <<>>)), ReturnOf(Num(1))}

\* fn relay(g) { yield resume(g); | yield fiber(relay, [g]); | return g; }
RelayStmts ==
  {YieldOf(CallOf(resume, <<Load(Var(1))>>)),
   YieldOf(CallOf(fiber, <<Load(self), Load(Var(1))>>)),
   ReturnOf(Load(Var(1)))}

MainStmts ==
  {Assign(x, CallOf(fiber, <<Load(gen)>>)),
   Assign(y, CallOf(fiber, <<Load(relay), Load(x)>>)),
   Assign(x, CallOf(resume, <<Load(y)>>)),
   Assign(y, CallOf(resume, <<Load(x)>>)),
   Assign(y, NilOf),
   ExprStmt(CallOf(fiber, <<Load(x)>>)),
   ExprStmt(CallOf(Load(gen), <<Load(x)>>)),
   YieldOf(Load(x)),
   ExprStmt(CallOf(Load(gen), <<Num(1), CallOf(resume, <<Load(y)>>)>>)),
   ExprStmt(CallOf(Load(gen), <<Num(1), Num(1), CallOf(Load(relay), <<>>)>>)),
   ExprStmt(CallOf(Load(gen), <<Num(1), Num(1), Num(1), Num(1)>>)),
   ExprStmt(CallOf(Load(inc), <<Num(1)>>)),
   ReturnOf(Load(x))}

NativeStmts == [f \in {NativeFiber, NativeResume, Inc} |-> {}]

FibersStmts ==
  (Main :> MainStmts \cup {ExprStmt(CallOf(fiber, <<Load(inc), Num(1)>>))})
  @@ (Gen :> GenStmts) @@ (Relay :> RelayStmts) @@ NativeStmts

InstrOf(stmts) ==
  UNION {Range(p) : p \in {MCPrologue[f] : f \in MCFun}
                            \cup UNION {stmts[f] : f \in MCFun}}
FibersInstr == InstrOf(FibersStmts)
==============================================================================
