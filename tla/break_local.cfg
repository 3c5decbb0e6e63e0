CONSTANTS
  Name <- MCName
  Params <- MCParams
  Expr <- JumpExpr
  Exprs <- JumpExprs
  Assigned <- JumpAssigned
  Constructs <- JumpConstructs
  Value <- MCValue
  Falsy <- MCFalsy
  Nil = "nil"
  Self = "one"
  SumOf <- MCSum
  Result <- MCResult
  MaxSymbols = 4
  MaxInstrs = 20
  MaxBreaks = 1
  MaxStmts = 4
SPECIFICATION Spec
INVARIANTS
  Follows
