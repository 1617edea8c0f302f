----------------------------- MODULE MCCompiler -----------------------------
(***************************************************************************)
(* An instance of Compiler for TLC, with functions that define a constant  *)
(* and use a variable of its name, or of another one, after it.            *)
(***************************************************************************)
EXTENDS Compiler

MCTop == [n \in {"x"} |-> 1]
MCOuter == [n \in {"y"} |-> 2]

Leaf == {Const(0), Const(1), Var("x"), Var("y")}
MCProgram ==
  {Begin(Define("constant", m, v), Let(n, w, b)) : m, n \in Name, v, w, b \in Leaf}
=============================================================================
