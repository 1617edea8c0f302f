SPECIFICATION UnwindSpec
CONSTANTS
  Nil = Nil
  Terminate = Terminate
  Tag = {t1, Nil}
  Value = {v1, v2}
  Condition = {error, warning}
  Serious = {error}
  Error = error
  Type = {{error}, {error, warning}}
  MaxForms = 4
  MaxRecursion = 0
INVARIANTS
  NeverWithoutTarget
CHECK_DEADLOCK FALSE
