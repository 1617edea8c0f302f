----------------------------- MODULE Expression -----------------------------
(***************************************************************************)
(* The expressions that the compiler of src/compiler.c is modelled for:    *)
(* what the forms of src/forms.c are given, names for symbols and small    *)
(* numbers for objects, NIL for the false one.                             *)
(***************************************************************************)
EXTENDS Naturals

NIL == 0
LIST == 3     \* a pair: as an expression it is not its own value
QUOTE == 4    \* the object that the form quote is

Const(v) == [op |-> "const", val |-> v]
\* (quote v): the head is the symbol, as a program is read, or else the form
\* itself, as generated code has it.
Quote(v, head) == [op |-> "quote", val |-> v, head |-> head]
Var(n) == [op |-> "var", name |-> n]
If(test, consequent, alternate) ==
  [op |-> "if", test |-> test, consequent |-> consequent, alternate |-> alternate]
Let(n, val, body) == [op |-> "let", name |-> n, val |-> val, body |-> body]
Begin(a, b) == [op |-> "begin", first |-> a, rest |-> b]
\* kind is variable, constant or set
Define(kind, n, val) == [op |-> "define", kind |-> kind, name |-> n, val |-> val]
\* A pure primitive applied to one argument.
Call(arg) == [op |-> "call", arg |-> arg]
\* ((lambda (n) body) arg); in compiled code the lambda is a %reclose-closure
Apply(n, body, arg) ==
  [op |-> "apply", name |-> n, body |-> body, arg |-> arg, reclose |-> FALSE]
=============================================================================
