CONSTANTS
  ka = ka
  kb = kb
  o1 = o1
  o2 = o2
  o3 = o3
  o4 = o4
  Obj = {ka, kb, o1, o2, o3, o4}
  Char <- MCChar
  Consts <- MCConsts
  Texts <- MCTexts
  Locals = 2
  Program <- RecordsProgram
  Stmts <- RecordsStmts
  Instr <- RecordsInstr
  MaxSlots = 6
  MaxFields = 2
  MaxText = 2
  MaxNum = 1
  MaxForgotten = 2
SPECIFICATION SeenSpec
SYMMETRY Symmetry
INVARIANTS
  TypeOK
  RefCountExact
  NoDangling
  KeysDistinct
  OnlyForgottenLeak
  FailsRightly
PROPERTIES
  SourceMeaning
