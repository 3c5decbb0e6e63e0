CONSTANTS
  Root = Root
  GlobalsObj = glob
  MainObj = main
  FiberObj = fibercl
  ResumeObj = resumecl
  GenObj = gencl
  RelayObj = relaycl
  IncObj = inccl
  Obj = {glob, main, fibercl, resumecl, gencl, relaycl, inccl, o1, o2, o3}
  Main = Main
  NativeFiber = NativeFiber
  NativeResume = NativeResume
  Gen = Gen
  Relay = Relay
  Inc = Inc
  Fun <- MCFun
  FunOf <- MCFunOf
  Globals <- MCGlobals
  Declared <- MCDeclared
  Arity <- MCArity
  Inouts <- MCInouts
  Prologue <- MCPrologue
  Stmts <- FibersStmts
  Instr <- FibersInstr
  MaxSlots = 10
  MaxFrames = 3
SPECIFICATION FairSpec
INVARIANTS
  TypeOK
  RefCountExact
  NoDangling
  ChainSound
  StacksLevel
  Acyclic
  NoLeak
PROPERTIES
  ResumeReturns
