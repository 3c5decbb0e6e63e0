CONSTANTS
  o1 = o1
  o2 = o2
  o3 = o3
  o4 = o4
  GlobalsObj = glob
  NativeObjs <- ArraysNativeObjs
  apcl = apcl
  arcl = arcl
  MainObj = main
  Obj = {glob, apcl, arcl, main, o1, o2, o3, o4}
  Main = Main
  Natives <- ArraysNatives
  NativeAppend = NativeAppend
  NativeArray = NativeArray
  NativeLen = NativeLen
  F = F
  G = G
  Fun <- ArraysFun
  Arity <- ArraysArity
  Inouts <- ArraysInouts
  Prologue <- ArraysPrologue
  Stmts <- ArraysStmts
  Instr <- ArraysInstr
  MaxSlots = 8
  MaxFrames = 2
  MaxLen = 2
  MaxNum = 0
SPECIFICATION LentSpec
SYMMETRY Symmetry
INVARIANTS
  TypeOK
  RefCountExact
  Reclaimed
  Thrifty
  NoLeak
PROPERTIES
  ValueSemantics
