----------------------------- MODULE MCEvaluator -----------------------------
(***************************************************************************)
(* An instance for TLC of the evaluator's data structures, each driven by  *)
(* any program: environment frames and their reuse, the stack and what     *)
(* unwinds it, the identity hashes of frames, the scratch pad, and the     *)
(* compiler.  A behaviour is one of one of them: which says of which, and  *)
(* the variables of the others stay as they are.                           *)
(***************************************************************************)
EXTENDS Frames, Unwind, ScratchPad, EqHash, Expression, TLC

CONSTANTS e1, e2, e3, t1

VARIABLES
  which,
  frames, orig_code, code, compiled, call_count, calls, answer, expected, marks   \* Compiler

compiling == <<frames, orig_code, code, compiled, call_count, calls, answer, expected, marks>>
allvars == <<which, vars, unwindVars, hashVars, padVars, compiling>>

\* The frames but the top-level one are alike.
MCFrame == {Global, e1, e2, e3}
Alike == Permutations({e1, e2, e3})

\* Three of the keys share a bucket of every vector of an identity hash, which
\* is also the one the mark of free entries hashes to, and places of the cache.
MCKey == {"k1", "k2", "k3", "k4"}
Bits(low, mid, high) == [low |-> low, mid |-> mid, high |-> high]
MCHash ==
  "k1" :> Bits(1, 0, 1) @@ "k2" :> Bits(1, 1, 0) @@ "k3" :> Bits(5, 0, 0)
    @@ "k4" :> Bits(2, 1, 1) @@ NoKey :> Bits(1, 0, 0)

\* Bodies of functions: x and y are constants, and y is hidden by the variable
\* of the frame in which the function is made.
Names == {"x", "y"}
Use == {Var("x"), Var("y")}
Definition ==
  {Define(k, n, v) : k \in {"variable", "constant", "set"}, n \in Names,
                     v \in {Const(0), Var("x"), Call(Const(1))}}
Simple ==
  Use \union Definition \union {Const(1), Call(Const(1)), Call(Var("x")),
                         Call(Quote(LIST, "form")), Call(Quote(LIST, "symbol"))}
    \union {Let(n, Const(0), b) : n \in Names, b \in Use}
    \union {Apply(n, b, Const(0)) : n \in Names, b \in Use}
Choice ==
  {If(t, d, Const(0)) : t \in {Const(1), Var("y"), Quote(NIL, "form"), Quote(NIL, "symbol")},
                        d \in Definition}
Programs ==
  {Begin(a, b) : a \in Definition \union Choice, b \in Simple}
    \union {Let(n, v, b) : n \in Names, v \in {Const(0)} \union Definition, b \in Simple}
    \union {Apply(n, b, v) : n \in Names, b \in Simple, v \in {Const(0)} \union Definition}

-----------------------------------------------------------------------------

\* What the theorems about Unwind assume of its tags holds of these.
ASSUME DistinctTags == TagAssumption

CO == INSTANCE Compiler WITH
        Name <- Names, Program <- Programs, Top <- [n \in Names |-> 1],
        Outer <- [n \in {"y"} |-> 2], Value <- {0, 2}, recompile_precompiled <- 1, MaxCalls <- 2

NoVariables == HashInit /\ ~table.is_large
NoPad ==
  /\ waiting = <<>> /\ doing = "nothing" /\ pad = <<>> /\ values = <<>> /\ result = Junk
  /\ throwing = <<>> /\ yielded = <<>> /\ astray = FALSE
NoCode ==
  /\ frames = <<>> /\ orig_code = <<>> /\ code = <<>> /\ compiled = FALSE
  /\ call_count = 0 /\ calls = 0 /\ answer = <<>> /\ expected = <<>> /\ marks = {}

EvaluatorInit ==
  /\ Init /\ UnwindInit
  /\ \/ which \in {"frames", "unwind"} /\ NoVariables /\ NoPad /\ NoCode
     \/ which = "eqhash" /\ HashInit /\ NoPad /\ NoCode
     \/ which = "pad" /\ PadInit /\ NoVariables /\ NoCode
     \/ which = "compiler" /\ CO!CompilerInit /\ NoVariables /\ NoPad

EvaluatorNext ==
  \/ which = "frames" /\ Next /\ UNCHANGED <<which, unwindVars, hashVars, padVars, compiling>>
  \/ which = "unwind" /\ UnwindNext /\ UNCHANGED <<which, vars, hashVars, padVars, compiling>>
  \/ which = "eqhash" /\ HashNext /\ UNCHANGED <<which, vars, unwindVars, padVars, compiling>>
  \/ which = "pad" /\ PadNext /\ UNCHANGED <<which, vars, unwindVars, hashVars, compiling>>
  \/ which = "compiler" /\ CO!CompilerNext /\ UNCHANGED <<which, vars, unwindVars, hashVars, padVars>>

EvaluatorSpec == EvaluatorInit /\ [][EvaluatorNext]_allvars

-----------------------------------------------------------------------------

\* Compilation does not change what a function does (compiler.c, forms.c).
CompiledMeansSame == which = "compiler" => CO!CompiledMeansSame
=============================================================================
