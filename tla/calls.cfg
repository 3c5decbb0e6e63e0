CONSTANTS
  o1 = o1
  o2 = o2
  o3 = o3
  o4 = o4
  o5 = o5
  o6 = o6
  GlobalsObj = glob
  NativeObjs <- CallsNativeObjs
  apcl = apcl
  arcl = arcl
  MainObj = main
  Obj = {glob, apcl, main, o1, o2, o3, o4, o5, o6}
  Main = Main
  Natives <- CallsNatives
  NativeAppend = NativeAppend
  NativeArray = NativeArray
  NativeLen = NativeLen
  F = F
  G = G
  Fun <- CallsFun
  Arity <- CallsArity
  Inouts <- CallsInouts
  Prologue <- CallsPrologue
  Stmts <- CallsStmts
  Instr <- CallsInstr
  MaxSlots = 11
  MaxFrames = 3
  MaxLen = 2
  MaxNum = 1
SPECIFICATION LentSpec
SYMMETRY Symmetry
INVARIANTS
  Disciplined
  WellTyped
  NoDangling
  RefsAimBelow
  NoLeak
  FramesAnchored
PROPERTIES
  ValueSemantics
