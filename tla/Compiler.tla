------------------------------ MODULE Compiler ------------------------------
(***************************************************************************)
(* The compiler of src/compiler.c and the compile methods of forms.c: a    *)
(* function is compiled when it is first applied, and its constants are    *)
(* folded into the code.  So that a variable is not taken for a constant   *)
(* which it hides, compilation declares variables in frames of its own, in *)
(* the order in which it meets their definitions.                          *)
(*                                                                         *)
(* One function of no argument is called, in a frame of a variable under   *)
(* that of the constants; in between, the variable changes.  A function    *)
(* within a compiled one is compiled beforehand, in the frames of the      *)
(* compiler, and again in its own ones when it was called often enough.    *)
(* Macros, breakpoints, destructuring and conditions are not modelled.     *)
(***************************************************************************)
EXTENDS Expression, Integers, Sequences

CONSTANTS
  Name,
  Program,                \* bound: the bodies of the function
  Top,                    \* the constants: a function of names to values
  Outer,                  \* the variable of the frame in which it is made
  Value,                  \* bound: what is assigned to that variable
  recompile_precompiled,
  MaxCalls                \* bound

INVALID == -1             \* DFSCH_INVALID_OBJECT
FAILED == -2              \* a condition was signalled

VARIABLES
  frames,     \* those the function is made in
  orig_code, code, compiled, call_count,
  calls,      \* how many there were
  answer,     \* history: what the last call gave, and the frames after it
  expected,   \* history: the same when nothing is compiled
  marks       \* history: what compilation does not expect

function == <<orig_code, code, compiled, call_count>>
compilerVars == <<frames, function, calls, answer, expected, marks>>

\* An environment, of a program or of the compiler: its frames, the innermost
\* one last, and the marks made so far.  changed: a constant was defined anew
\* or set; clobbered: a constant of a frame was declared in the same frame as a
\* variable; undeclared: a definition was not declared before the code that it
\* concerns; conditional: a constant that is defined in a branch was taken for
\* defined after it; quoted: the form quote was taken for what it quotes.
Environment(fs) == [frames |-> fs, marks |-> {}]

-----------------------------------------------------------------------------
(* Variables, and the values of expressions.                               *)

\* The primitive, a pure one, makes a list of 1 and signals errors.
Primitive(v) ==
  CASE v = 1 -> LIST
    [] v = 2 -> 1
    [] v = LIST -> NIL
    [] v \in {NIL, QUOTE} -> FAILED

\* Where a variable is: the innermost frame that has it, 0 if none.
Place(env, n) ==
  LET at == {i \in 1..Len(env.frames) : env.frames[i][n].val # INVALID}
  IN  IF at = {} THEN 0 ELSE CHOOSE i \in at : \A j \in at : j <= i

NewFrame(env) ==
  [env EXCEPT !.frames = Append(@, [n \in Name |-> [val |-> INVALID, constant |-> FALSE]])]
LeaveFrame(env) == [env EXCEPT !.frames = SubSeq(@, 1, Len(@) - 1)]

\* A value stored in a frame: a constant stays one.
Store(env, i, n, v, constant, mark) ==
  LET old == env.frames[i][n]
  IN  [frames |-> [env.frames EXCEPT ![i][n] =
                     [val |-> v, constant |-> constant \/ old.constant]],
       marks |-> env.marks \union (IF old.constant THEN {mark} ELSE {})]

\* dfsch_define
DefineIn(env, n, v, constant, mark) == Store(env, Len(env.frames), n, v, constant, mark)

\* dfsch_variable_constant_value
VariableConstant(env, n) ==
  LET i == Place(env, n)
  IN  IF i # 0 /\ env.frames[i][n].constant THEN env.frames[i][n].val ELSE INVALID

\* dfsch_quote_expression_p: a quote that still names its form is not one.
QuoteExpression(e) == e.op = "quote" /\ e.head = "form"

\* dfsch_constant_expression_value: for a quote it is the form, which is the
\* first of the expression, and not what it quotes.
ConstantValue(e, env) ==
  CASE e.op = "const" -> e.val
    [] e.op = "var" -> VariableConstant(env, e.name)
    [] QuoteExpression(e) -> QUOTE
    [] OTHER -> INVALID

\* dfsch_make_constant_ast_node: pairs, and symbols, are quoted.
ConstantNode(v) == IF v = LIST THEN Quote(v, "form") ELSE Const(v)

-----------------------------------------------------------------------------
(* Compilation gives code and the environment of the compiler after it.    *)

RECURSIVE Compile(_, _), Eval(_, _, _), Defines(_, _)

Compiled(e, env) == [code |-> e, env |-> env]

\* Whether the evaluation of an expression may define something of one of the
\* kinds in its frame.
Defines(e, kinds) ==
  CASE e.op = "define" -> e.kind \in kinds \/ Defines(e.val, kinds)
    [] e.op = "if" -> \E f \in {e.test, e.consequent, e.alternate} : Defines(f, kinds)
    [] e.op = "let" -> Defines(e.val, kinds)
    [] e.op = "begin" -> \E f \in {e.first, e.rest} : Defines(f, kinds)
    [] e.op \in {"call", "apply"} -> Defines(e.arg, kinds)
    [] OTHER -> FALSE

Marked(env, condition, mark) ==
  IF condition THEN [env EXCEPT !.marks = @ \union {mark}] ELSE env

\* The environment of the compiler if it has not seen the definitions of e.
LeftOut(env, e) == Marked(env, Defines(e, {"variable", "constant"}), "undeclared")

\* And if it has seen constants of e that may not be there.
Conditional(env, e) == Marked(env, Defines(e, {"constant"}), "conditional")

\* dfsch_compiler_declare_variable
Declare(env, n) == DefineIn(env, n, NIL, FALSE, "clobbered")

\* Variant: the branch that is not taken is left.
TakeOther(e, value) == IF value # NIL THEN e.alternate ELSE e.consequent
\* The branch of a condition that is known: it is left as it is.
Take(e, value) == IF value # NIL THEN e.consequent ELSE e.alternate

CompileIf(e, env) ==
  LET test == Compile(e.test, env)
      value == ConstantValue(test.code, test.env)
      known == Marked(test.env, QuoteExpression(test.code) /\ test.code.val = NIL, "quoted")
      consequent == Compile(e.consequent, test.env)
      alternate == Compile(e.alternate, consequent.env)
      taken == Take(e, value)
  IN  IF value # INVALID
      THEN Compiled(taken, LeftOut(known, taken))
      ELSE Compiled(If(test.code, consequent.code, alternate.code),
                    Conditional(Conditional(alternate.env, e.consequent), e.alternate))

\* Variant: the variable of a let is not declared.
CompileLetOnly(e, env) ==
  LET val == Compile(e.val, env)
      body == Compile(e.body, NewFrame(val.env))
  IN  Compiled(Let(e.name, val.code, body.code), LeaveFrame(body.env))
\* The variable is declared in the frame around the let, before its value and
\* its body, in a frame of its own, are compiled.
CompileLet(e, env) ==
  LET val == Compile(e.val, Declare(env, e.name))
      body == Compile(e.body, NewFrame(val.env))
  IN  Compiled(Let(e.name, val.code, body.code), LeaveFrame(body.env))

CompileBegin(e, env) ==
  LET first == Compile(e.first, env)
      rest == Compile(e.rest, first.env)
  IN  Compiled(Begin(first.code, rest.code), rest.env)

\* dfsch_compiler_update_constant
UpdateConstant(env, n, val) ==
  LET value == ConstantValue(val, env)
  IN  IF value = INVALID
      THEN Declare(env, n)
      ELSE Marked(DefineIn(env, n, value, TRUE, "clobbered"), QuoteExpression(val), "quoted")

CompileDefine(e, env) ==
  LET val == Compile(e.val, Declare(env, e.name))
  IN  Compiled(Define(e.kind, e.name, val.code),
               IF e.kind = "constant" THEN UpdateConstant(val.env, e.name, val.code) ELSE val.env)

\* compile_funcall: a call is replaced by its value if there is one; an
\* argument that is quoted is evaluated to what it quotes.
CompileCall(e, env) ==
  IF (e.arg.op = "const" \/ QuoteExpression(e.arg)) /\ Primitive(e.arg.val) # FAILED
  THEN Compiled(ConstantNode(Primitive(e.arg.val)), env)
  ELSE LET arg == Compile(e.arg, env) IN Compiled(Call(arg.code), arg.env)

\* compile_function: the body of a function is compiled in a frame of its own,
\* in which its argument, if it has one, is declared.
CompileBody(body, argument, env) ==
  LET inner == NewFrame(env)
      ready == IF argument = "" THEN inner ELSE Declare(inner, argument)
      done == Compile(body, ready)
  IN  Compiled(done.code, LeaveFrame(done.env))

\* The function is compiled before its argument.
CompileApply(e, env) ==
  LET body == CompileBody(e.body, e.name, LeftOut(env, e.arg))
      arg == Compile(e.arg, body.env)
  IN  Compiled([Apply(e.name, body.code, arg.code) EXCEPT !.reclose = TRUE], arg.env)

\* dfsch_compile_expression: quote has no method, so it is left as it is.
Compile(e, env) ==
  CASE e.op \in {"const", "quote"} -> Compiled(e, env)
    [] e.op = "var" ->
         LET value == VariableConstant(env, e.name)
         IN  Compiled(IF value = INVALID THEN e ELSE ConstantNode(value), env)
    [] e.op = "if" -> CompileIf(e, env)
    [] e.op = "let" -> CompileLet(e, env)
    [] e.op = "begin" -> CompileBegin(e, env)
    [] e.op = "define" -> CompileDefine(e, env)
    [] e.op = "call" -> CompileCall(e, env)
    [] e.op = "apply" -> CompileApply(e, env)

-----------------------------------------------------------------------------
(* Evaluation gives a value and the environment after it.                  *)

Gives(v, env) == [val |-> v, env |-> env]

\* What is evaluated next, unless a condition was signalled.
Then(done, Next(_)) == IF done.val = FAILED THEN done ELSE Next(done)

EvalDefine(e, env, compile_on_apply) ==
  Then(Eval(e.val, env, compile_on_apply),
       LAMBDA d :
         LET at == Place(d.env, e.name)
         IN  CASE e.kind = "set" /\ at = 0 -> Gives(FAILED, d.env)
               [] e.kind = "set" /\ at # 0 ->
                    Gives(d.val, Store(d.env, at, e.name, d.val, FALSE, "changed"))
               [] OTHER -> Gives(d.val, DefineIn(d.env, e.name, d.val, e.kind = "constant", "changed")))

\* A body evaluated in a new frame with one variable.
EvalWith(n, v, body, env, compile_on_apply) ==
  LET done == Eval(body, DefineIn(NewFrame(env), n, v, FALSE, "changed"), compile_on_apply)
  IN  Gives(done.val, LeaveFrame(done.env))

\* A function that is made anew is compiled when it is applied.
EvalApply(e, env, compile_on_apply) ==
  Then(Eval(e.arg, env, compile_on_apply),
       LAMBDA d :
         LET body == CompileBody(e.body, e.name, d.env)
         IN  IF compile_on_apply /\ ~e.reclose
             THEN EvalWith(e.name, d.val, body.code,
                           [d.env EXCEPT !.marks = body.env.marks], compile_on_apply)
             ELSE EvalWith(e.name, d.val, e.body, d.env, compile_on_apply))

Eval(e, env, compile_on_apply) ==
  CASE e.op \in {"const", "quote"} -> Gives(e.val, env)
    [] e.op = "var" ->
         LET i == Place(env, e.name)
         IN  Gives(IF i = 0 THEN FAILED ELSE env.frames[i][e.name].val, env)
    [] e.op = "if" ->
         Then(Eval(e.test, env, compile_on_apply),
              LAMBDA d : Eval(IF d.val # NIL THEN e.consequent ELSE e.alternate, d.env,
                              compile_on_apply))
    [] e.op = "let" ->
         Then(Eval(e.val, env, compile_on_apply),
              LAMBDA d : EvalWith(e.name, d.val, e.body, d.env, compile_on_apply))
    [] e.op = "begin" ->
         Then(Eval(e.first, env, compile_on_apply),
              LAMBDA d : Eval(e.rest, d.env, compile_on_apply))
    [] e.op = "define" -> EvalDefine(e, env, compile_on_apply)
    [] e.op = "call" ->
         Then(Eval(e.arg, env, compile_on_apply),
              LAMBDA d : Gives(Primitive(d.val), d.env))
    [] e.op = "apply" -> EvalApply(e, env, compile_on_apply)

-----------------------------------------------------------------------------
(* The function and its calls.                                             *)

\* A frame with the given variables.
FrameOf(vals, constant) ==
  [n \in Name |-> IF n \in DOMAIN vals THEN [val |-> vals[n], constant |-> constant]
                                        ELSE [val |-> INVALID, constant |-> FALSE]]

\* It is made by code that is evaluated, or by compiled code: compilation knew
\* of the variables around it but not their values.
CompilerInit ==
  /\ frames = <<FrameOf(Top, TRUE), FrameOf(Outer, FALSE)>>
  /\ orig_code \in Program
  /\ \/ code = orig_code /\ call_count = 0 /\ marks = {}
     \/ LET around == <<FrameOf(Top, TRUE), FrameOf([n \in DOMAIN Outer |-> NIL], FALSE)>>
            done == CompileBody(orig_code, "", Environment(around))
        IN  /\ code = done.code
            /\ call_count = recompile_precompiled
            /\ marks = done.env.marks
  /\ compiled = FALSE
  /\ calls = 0
  /\ answer = <<>> /\ expected = <<>>

\* What a call without arguments gives.
Run(body, env, compile_on_apply) ==
  LET done == Eval(body, NewFrame(env), compile_on_apply)
  IN  Gives(done.val, LeaveFrame(done.env))

\* dfsch_apply_impl, for a function of the standard type.  One that marks were
\* made for is not called again.
CallFunction ==
  /\ calls < MaxCalls
  /\ calls > 0 => marks = {}
  /\ LET compiling == ~compiled /\ call_count = 0
         done == IF compiling THEN CompileBody(orig_code, "", Environment(frames))
                              ELSE Compiled(code, Environment(frames))
         got == Run(done.code, [done.env EXCEPT !.frames = frames], TRUE)
         plain == Run(orig_code, Environment(frames), FALSE)
     IN  /\ code' = done.code
         /\ compiled' = (compiled \/ compiling)
         /\ call_count' = IF compiled \/ compiling THEN call_count ELSE call_count - 1
         /\ frames' = got.env.frames
         /\ answer' = <<got.val, got.env.frames>>
         /\ expected' = <<plain.val, plain.env.frames>>
         /\ marks' = marks \union got.env.marks \union plain.env.marks
  /\ calls' = calls + 1
  /\ UNCHANGED orig_code

\* dfsch_compile_function, on behalf of compile-function!
CompileFunction ==
  /\ LET done == CompileBody(orig_code, "", Environment(frames))
     IN  code' = done.code /\ marks' = marks \union done.env.marks
  /\ compiled' = TRUE
  /\ UNCHANGED <<frames, orig_code, call_count, calls, answer, expected>>

\* Other code assigns to a variable that the function sees.
Assign(n, v) ==
  /\ frames' = [frames EXCEPT ![2][n].val = v]
  /\ answer' = <<>> /\ expected' = <<>>
  /\ UNCHANGED <<function, calls, marks>>

CompilerNext ==
  \/ CallFunction
  \/ CompileFunction
  \/ \E n \in DOMAIN Outer, v \in Value : Assign(n, v)

-----------------------------------------------------------------------------
(* Properties.                                                             *)

\* What a function gives, and what it leaves in the variables, does not depend
\* on whether it was compiled, when, and in which environment: a variable that
\* hides a constant is never taken for it (dfsch_compile_expression,
\* dfsch_compiler_declare_variable and the compile methods of forms.c).  This
\* holds for the programs that never change a constant, as long as no constant
\* is declared as a variable in its own frame, no definition is left out, none
\* of a constant is conditional, and no quote made by generated or compiled code
\* is what a constant is defined by, or quotes the false object in a condition.
CompiledMeansSame == marks = {} => answer = expected

\* A let hides a constant also in the frame of the constant, as the tests of
\* the compiler say of a constant in another one (tests/compiler-tests.scm).
LetHidesConstant == marks \subseteq {"clobbered"} => answer = expected
=============================================================================
