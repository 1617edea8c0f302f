SPECIFICATION EvaluatorSpec
CONSTANTS
  e1 = e1
  e2 = e2
  e3 = e3
  Frame <- MCFrame
  Global = Global
  NULL = NULL
  ENV_FREELIST_MAX_DEPTH = 2
  MaxDepth = 3
  t1 = t1
  Nil = Nil
  Terminate = Terminate
  Tag = {t1, Nil}
  Value = {"v1", "v2"}
  Condition = {"error", "warning"}
  Serious = {"error"}
  Error = "error"
  Type = {{"error"}, {"error", "warning"}}
  MaxForms = 4
  MaxRecursion = 0
  Key <- MCKey
  HashValue = {"v1", "v2"}
  Varied = {"k1"}
  First = "v1"
  Removed = {"k1"}
  NoKey = NoKey
  NoEntry = NoEntry
  SMALL_SIZE = 2
  CACHE_SIZE = 2
  INITIAL_MASK = 3
  Hash <- MCHash
  NoValue = NoValue
  Junk = Junk
  END = END
  Blank = Blank
  SCRATCH_PAD_SIZE = 6
  Counts = {0, 2}
  MaxNesting = 3
INVARIANTS
  LastSetWins
CHECK_DEADLOCK FALSE
