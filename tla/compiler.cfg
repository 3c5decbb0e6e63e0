CONSTANTS
  Name <- MCName
  Params <- MCParams
  Expr <- LevelExpr
  Exprs <- LevelExprs
  Assigned <- LevelAssigned
  Constructs <- AllConstructs
  Value <- MCValue
  Falsy <- MCFalsy
  Nil = "nil"
  Self = "one"
  SumOf <- MCSum
  Result <- MCResult
  MaxSymbols = 4
  MaxInstrs = 15
  MaxBreaks = 1
  MaxStmts = 4
SPECIFICATION LevelSpec
INVARIANTS
  TypeOK
  Follows
  OperandsExist
  Sealed
  ScopesNest
