SPECIFICATION PrepareSpec
CONSTANTS
  sa = sa
  sb = sb
  sc = sc
  sd = sd
  NoName = NoName
  N = 4
  Names <- FourNames
  Pipelines <- AllPipelines
  Cases <- AllCases
  Keys <- TwoKeys
CHECK_DEADLOCK FALSE
INVARIANTS
  SortIsRight
  VerdictIsRight
  BuiltIsRunnable
  EnvIsOwn
  CheckoutAuth
