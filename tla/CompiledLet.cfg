INIT CompilerInit
NEXT CompilerNext
CONSTANTS
  Name = {"x", "y"}
  Program <- MCProgram
  Top <- MCTop
  Outer <- MCOuter
  Value = {2}
  recompile_precompiled = 1
  MaxCalls = 2
INVARIANT LetHidesConstant
CHECK_DEADLOCK FALSE
