SPECIFICATION Spec
CONSTANTS
  Frame = {Global, e1, e2, e3}
  Global = Global
  NULL = NULL
  ENV_FREELIST_MAX_DEPTH = 2
  MaxDepth = 3
INVARIANTS
  ObjectsKeepEnvironments
