CONSTANTS
  Name <- MCName
  Params <- MCParams
  Expr <- FusedExpr
  Exprs <- FusedExprs
  Assigned <- FusedAssigned
  Constructs <- NoConstructs
  Value <- MCValue
  Falsy <- MCFalsy
  Nil = "nil"
  Self = "one"
  SumOf <- MCSum
  Result <- MCResult
  MaxSymbols = 4
  MaxInstrs = 15
  MaxBreaks = 1
  MaxStmts = 2
SPECIFICATION LevelSpec
INVARIANTS
  Follows
