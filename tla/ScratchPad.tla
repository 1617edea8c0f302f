----------------------------- MODULE ScratchPad ------------------------------
(***************************************************************************)
(* The scratch pad of a thread, src/dfsch.c and dfsch/magic.h: a few cells *)
(* that hold the arguments of a tail call on their way to the procedure,   *)
(* and the values after the first that an expression returns on their way  *)
(* to who wants them.  Whatever is evaluated in between may use it too.    *)
(*                                                                         *)
(* The thread evaluates any expressions: constants, calls, catch, throw,   *)
(* unwind-protect, %get-values, and forms such as set! that evaluate one   *)
(* expression and return a value.  A body stands for its last expression,  *)
(* since the values of those before are forgotten when the next begins.    *)
(*                                                                         *)
(* The code that runs inside an activation before its arguments are bound  *)
(* (an asynchronously applied procedure, the hook of a traced function,    *)
(* the compiler with its macros) is one step that overwrites the pad.      *)
(***************************************************************************)
EXTENDS Naturals, Sequences, SequencesExt

CONSTANTS
  Junk,              \* what other code leaves in the pad
  Blank,             \* NULL, what an unused cell holds
  END,               \* DFSCH_INVALID_OBJECT, which ends a list of cells
  SCRATCH_PAD_SIZE,  \* 16 in magic.h
  Counts,            \* bound: how many arguments calls have
  MaxNesting         \* bound: how deep evaluation nests

\* What marks the end of a list is no value.
ASSUME PadAssumption ==
  /\ SCRATCH_PAD_SIZE \in Nat /\ Counts \subseteq Nat
  /\ END \notin {Junk, Blank} \union (Nat \X Nat)

VARIABLES
  waiting,      \* what waits for the evaluation of an expression, the last one on top
  doing,        \* what the thread does with it
  pad,          \* ti->scratch_pad
  values,       \* ti->values
  result,       \* what the expression has returned
  throwing,     \* ti->throw_value and ti->throw_values during an unwinding
  yielded,      \* history: the values the expression was to return
  astray        \* history: a form has returned values that are not its own

padVars == <<waiting, doing, pad, values, result, throwing, yielded, astray>>

-----------------------------------------------------------------------------
(* Lists in the pad and elsewhere.                                         *)

InPad(at) == [in |-> "pad", at |-> at, list |-> <<>>]
InHeap(list) == [in |-> "heap", at |-> 0, list |-> list]

\* values: NULL says that there is one, DFSCH_INVALID_OBJECT that there is none.
One == [in |-> "one", at |-> 0, list |-> <<>>]
None == [in |-> "none", at |-> 0, list |-> <<>>]

\* The cells of a pad from one up to the first END.
Cells(p, at) ==
  LET ends == {i \in at..SCRATCH_PAD_SIZE : p[i] = END}
  IN  IF ends = {} THEN SubSeq(p, at, SCRATCH_PAD_SIZE)
      ELSE SubSeq(p, at, (CHOOSE i \in ends : \A j \in ends : i <= j) - 1)

\* What a list is, with the pad as it is.
Content(ref) == IF ref.in = "pad" THEN Cells(pad, ref.at) ELSE ref.list

\* The pad with other cells in front.
Copied(cells) ==
  [i \in 1..SCRATCH_PAD_SIZE |-> IF i <= Len(cells) THEN cells[i] ELSE pad[i]]

Overwritten == [i \in 1..SCRATCH_PAD_SIZE |-> Junk]

\* dfsch_get_values_list: what the expression has returned.
Collected ==
  CASE values = None -> <<>>
    [] values = One -> <<result>>
    [] OTHER -> <<result>> \o Content(values)

-----------------------------------------------------------------------------
NothingThrown == [value |-> Junk, yielded |-> <<>>, astray |-> FALSE, values |-> One]

Latest == Last(waiting)
Beneath == Front(waiting)
Second == Last(Beneath)
Nesting == Len(waiting)
PushFrame(f) == waiting' = Append(waiting, f)
Replace(f) == waiting' = Append(Beneath, f)
ReplaceBoth(f) == waiting' = Append(Front(Beneath), f)

Arguments(list, to) == [is |-> "arguments", list |-> list, of |-> to]
Invocation(args, list) ==
  [is |-> "activation", args |-> args, given |-> list, reuse |-> FALSE, traced |-> FALSE,
   exposed |-> FALSE, bound |-> <<>>]

\* catch and unwind-protect save the pad.
Form(kind) == [is |-> kind, pad |-> IF kind \in {"catch", "protect"} THEN pad ELSE <<>>]

\* What was returned has been taken.
Taken == result' = Junk /\ yielded' = <<>> /\ astray' = FALSE

\* What is evaluated yields the place of its evaluation.
Here ==
  <<Nesting, IF waiting # <<>> /\ Latest.is = "arguments" THEN Len(Latest.list) ELSE 0>>

\* The thread begins with an expression, or with the body of a function.
PadInit ==
  /\ waiting \in {<<>>, <<[Invocation(InHeap(<<>>), <<>>) EXCEPT !.reuse = TRUE]>>}
  /\ doing = "eval"
  /\ pad = [i \in 1..SCRATCH_PAD_SIZE |-> Blank] /\ values = One
  /\ result = Junk /\ throwing = NothingThrown
  /\ yielded = <<>> /\ astray = FALSE

\* dfsch_eval_impl of a constant or of a variable.
Constant ==
  /\ doing = "eval"
  /\ doing' = "return" /\ result' = Here /\ values' = One
  /\ yielded' = <<Here>> /\ astray' = FALSE
  /\ UNCHANGED <<waiting, pad, throwing>>

\* Of a form that evaluates an expression; not in tail position.
BeginForm ==
  /\ doing = "eval" /\ Nesting < MaxNesting
  /\ \E kind \in {"catch", "throw", "protect", "get", "keep"} : PushFrame(Form(kind))
  /\ values' = One
  /\ UNCHANGED <<doing, pad, result, throwing, yielded, astray>>

\* Of a call: eval_args_and_apply begins.
BeginCall ==
  /\ doing = "eval" /\ Nesting < MaxNesting
  /\ \E n \in Counts :
       /\ PushFrame(Arguments(<<>>, n))
       /\ doing' = IF n = 0 THEN "apply" ELSE "eval"
  /\ values' = One
  /\ UNCHANGED <<pad, result, throwing, yielded, astray>>

\* An argument is evaluated and kept on the C stack.
NextArgument ==
  /\ doing = "return" /\ waiting # <<>> /\ Latest.is = "arguments"
  /\ Replace([Latest EXCEPT !.list = Append(@, result)])
  /\ doing' = IF Len(Latest.list) + 1 = Latest.of THEN "apply" ELSE "eval"
  /\ Taken
  /\ UNCHANGED <<pad, values, throwing>>

\* The expression is the last one of an activation's body: the call escapes
\* there, unless the function is traced.
InTail == Nesting > 1 /\ Second.is = "activation" /\ ~Second.traced

\* The call: dfsch_apply_impl of a new activation,
ApplyCall ==
  /\ doing = "apply" /\ ~InTail
  /\ Replace(Invocation(InHeap(Latest.list), Latest.list))
  /\ doing' = "enter"
  /\ UNCHANGED <<pad, values, result, throwing, yielded, astray>>

\* or of the one it escapes to, with the arguments in the pad if they are few.
TailApply ==
  /\ doing = "apply" /\ InTail
  /\ LET inPad == Latest.list # <<>> /\ Latest.of <= SCRATCH_PAD_SIZE - 4
     IN  /\ pad' = IF inPad THEN Copied(Latest.list \o <<END, Blank, Blank, Blank>>) ELSE pad
         /\ ReplaceBoth([Invocation(IF inPad THEN InPad(1) ELSE InHeap(Latest.list), Latest.list)
                          EXCEPT !.reuse = Second.reuse])
  /\ doing' = "enter"
  /\ UNCHANGED <<values, result, throwing, yielded, astray>>

\* Other code uses the pad while an activation's arguments are in it or not.
Disturb(f) == [f EXCEPT !.exposed = (@ \/ f.args.in = "pad")]

\* The activation looks for a procedure to be applied asynchronously and calls
\* the hook of a function that is traced.
Invoke ==
  /\ doing = "enter"
  /\ values' = One /\ doing' = "dispatch"
  /\ \/ UNCHANGED <<waiting, pad>>
     \/ pad' = Overwritten /\ Replace(Disturb(Latest))
     \/ pad' = Overwritten /\ Replace([Disturb(Latest) EXCEPT !.traced = TRUE])
  /\ UNCHANGED <<result, throwing, yielded, astray>>

\* Variant: the arguments stay where they are.
CompiledArgumentsThere(f) == f.args

\* What is bound after the function was compiled.
CompiledArguments(f) == IF f.reuse THEN InHeap(Content(f.args)) ELSE f.args

\* A function, which may be compiled first.
ApplyClosure ==
  /\ doing = "dispatch"
  /\ \/ /\ Replace([Latest EXCEPT !.reuse = TRUE])
        /\ UNCHANGED pad
     \/ /\ Replace([IF Latest.reuse THEN Latest ELSE Disturb(Latest)
                      EXCEPT !.args = CompiledArguments(Latest), !.reuse = TRUE])
        /\ pad' = Overwritten
  /\ doing' = "bind"
  /\ UNCHANGED <<values, result, throwing, yielded, astray>>

\* A generic function hands its arguments on to a method, copied if the method
\* had to be computed, and the eval primitive goes on with an expression: both
\* escape.
ApplyGeneric ==
  /\ doing = "dispatch" /\ ~Latest.traced
  /\ \/ Replace([Latest EXCEPT !.reuse = FALSE]) /\ UNCHANGED pad
     \/ /\ Replace([Latest EXCEPT !.reuse = FALSE, !.args = InHeap(Content(@))])
        /\ pad' = Overwritten
  /\ doing' = "enter"
  /\ UNCHANGED <<values, result, throwing, yielded, astray>>
ApplyEval ==
  /\ doing = "dispatch"
  /\ Replace([Latest EXCEPT !.reuse = FALSE, !.args = InHeap(<<>>), !.given = <<>>])
  /\ doing' = "eval"
  /\ UNCHANGED <<pad, values, result, throwing, yielded, astray>>

\* dfsch_values_list of a list.
ReturnValues(ref) ==
  LET list == Content(ref) IN
  /\ doing' = "return"
  /\ IF list = <<>> THEN values' = None /\ UNCHANGED <<pad, result>>
     ELSE /\ result' = Head(list)
          /\ IF ref = InPad(1) THEN values' = InPad(2) /\ UNCHANGED pad
             ELSE IF Len(list) < SCRATCH_PAD_SIZE
             THEN values' = InPad(1) /\ pad' = Copied(Append(Tail(list), END))
             ELSE values' = InHeap(Tail(list)) /\ UNCHANGED pad

\* The values primitive.
ApplyValues ==
  /\ doing = "dispatch"
  /\ ReturnValues(Latest.args)
  /\ Replace([Latest EXCEPT !.reuse = FALSE, !.args = InHeap(<<>>), !.given = <<>>])
  /\ yielded' = Latest.given /\ astray' = Latest.exposed
  /\ UNCHANGED throwing

\* destructure_impl: the arguments are bound,
Bind ==
  /\ doing = "bind"
  /\ Replace([Latest EXCEPT !.bound = Content(Latest.args)]) /\ doing' = "body"
  /\ UNCHANGED <<pad, values, result, throwing, yielded, astray>>

\* or the first one is a list itself, with a default that is evaluated before
\* the others are bound.
BindFirst ==
  /\ doing = "bind" /\ Content(Latest.args) # <<>> /\ Nesting < MaxNesting
  /\ waiting' = Append(Append(Beneath, [Latest EXCEPT !.bound = <<Head(Content(Latest.args))>>]),
                       Form("default"))
  /\ doing' = "eval"
  /\ UNCHANGED <<pad, values, result, throwing, yielded, astray>>
BindOthers ==
  /\ doing = "return" /\ waiting # <<>> /\ Latest.is = "default"
  /\ LET args == Second.args
         others == IF args.in = "pad" THEN Content(InPad(args.at + 1)) ELSE Tail(args.list)
     IN  ReplaceBoth([Disturb(Second) EXCEPT !.bound = @ \o others])
  /\ doing' = "body"
  /\ Taken
  /\ UNCHANGED <<pad, values, throwing>>

\* Then they are in the frame, and the body is evaluated.
Body ==
  /\ doing = "body"
  /\ Replace([Latest EXCEPT !.args = InHeap(<<>>), !.given = <<>>, !.bound = <<>>,
                         !.exposed = FALSE])
  /\ doing' = "eval"
  /\ UNCHANGED <<pad, values, result, throwing, yielded, astray>>

\* Variant: the values are not put aside for the hook.
TracedValuesKept == values' = values /\ pad' = Overwritten /\ result' = result /\ doing' = "return"

\* The exit hook of a traced function is given the values as a list.
TracedValues == ReturnValues(InHeap(Collected))

\* The activation returns what its body does.
ReturnCall ==
  /\ doing = "return" /\ waiting # <<>> /\ Latest.is = "activation"
  /\ waiting' = Beneath
  /\ IF Latest.traced THEN TracedValues ELSE UNCHANGED <<doing, pad, values, result>>
  /\ UNCHANGED <<throwing, yielded, astray>>

-----------------------------------------------------------------------------
(* Forms.                                                                  *)

\* The body of catch has ended: the pad is restored, as after a throw.
EndCatch ==
  /\ doing = "return" /\ waiting # <<>> /\ Latest.is = "catch"
  /\ waiting' = Beneath /\ pad' = Latest.pad
  /\ astray' = (astray \/ values.in = "pad")
  /\ UNCHANGED <<doing, values, result, throwing, yielded>>

\* The form unwind-protect has made a list of the values before that,
EndProtected ==
  /\ doing = "return" /\ waiting # <<>> /\ Latest.is = "protect"
  /\ Replace([is |-> "cleanup", list |-> Collected, yielded |-> yielded, astray |-> astray])
  /\ pad' = Latest.pad /\ values' = (IF values = None THEN None ELSE One) /\ doing' = "eval"
  /\ Taken
  /\ UNCHANGED throwing

\* and returns them after the cleanup.
ReturnCleanup ==
  /\ doing = "return" /\ waiting # <<>> /\ Latest.is = "cleanup"
  /\ waiting' = Beneath
  /\ ReturnValues(InHeap(Latest.list))
  /\ yielded' = Latest.yielded /\ astray' = Latest.astray
  /\ UNCHANGED throwing

\* The form %get-values returns them as one value.  That there is none is not
\* forgotten.
GetValues ==
  /\ doing = "return" /\ waiting # <<>> /\ Latest.is = "get"
  /\ waiting' = Beneath
  /\ values' = (IF values = None THEN None ELSE One)
  /\ result' = Here /\ yielded' = <<Here>>
  /\ astray' = (values = None)
  /\ UNCHANGED <<doing, pad, throwing>>

\* A form returns one value of its own; those of the expression stay.
EndForm ==
  /\ doing = "return" /\ waiting # <<>> /\ Latest.is = "keep"
  /\ waiting' = Beneath
  /\ result' = Here /\ yielded' = <<Here>>
  /\ astray' = (values # One)
  /\ UNCHANGED <<doing, pad, values, throwing>>

\* dfsch_throw: to the innermost form that catches or protects.
ThrowValues ==
  /\ doing = "return" /\ waiting # <<>> /\ Latest.is = "throw"
  /\ \E i \in DOMAIN waiting : waiting[i].is = "catch"
  /\ \A i \in DOMAIN waiting : waiting[i].is # "unwound"   \* see Unwind
  /\ throwing' = [value |-> result, yielded |-> yielded, astray |-> astray,
                  values |-> IF values.in = "pad" THEN InHeap(Content(values)) ELSE values]
  /\ values' = One
  /\ waiting' = Beneath /\ doing' = "unwind"
  /\ Taken
  /\ UNCHANGED pad

\* What is not such a form is left.
LeaveForm ==
  /\ doing = "unwind" /\ Latest.is \notin {"catch", "protect", "unwound"}
  /\ waiting' = Beneath
  /\ UNCHANGED <<doing, pad, values, result, throwing, yielded, astray>>

\* catch returns what was thrown.
CatchThrown ==
  /\ doing = "unwind" /\ Latest.is = "catch"
  /\ waiting' = Beneath /\ doing' = "return" /\ pad' = Latest.pad
  /\ result' = throwing.value /\ values' = throwing.values
  /\ yielded' = throwing.yielded /\ astray' = throwing.astray
  /\ throwing' = NothingThrown

\* unwind-protect evaluates the cleanup, and the unwinding goes on.
BeginUnwound ==
  /\ doing = "unwind" /\ Latest.is = "protect"
  /\ Replace([is |-> "unwound"])
  /\ pad' = Latest.pad /\ doing' = "eval"
  /\ UNCHANGED <<values, result, throwing, yielded, astray>>
EndUnwound ==
  /\ doing = "return" /\ waiting # <<>> /\ Latest.is = "unwound"
  /\ waiting' = Beneath /\ doing' = "unwind"
  /\ Taken
  /\ UNCHANGED <<pad, values, throwing>>

PadNext ==
  \/ Constant \/ BeginForm \/ BeginCall \/ NextArgument
  \/ ApplyCall \/ TailApply
  \/ Invoke \/ ApplyClosure \/ ApplyGeneric \/ ApplyEval \/ ApplyValues
  \/ Bind \/ BindFirst \/ BindOthers \/ Body \/ ReturnCall
  \/ EndCatch \/ EndProtected \/ ReturnCleanup \/ GetValues \/ EndForm
  \/ ThrowValues \/ LeaveForm \/ CatchThrown \/ BeginUnwound \/ EndUnwound

PadSpec == PadInit /\ [][PadNext]_padVars

-----------------------------------------------------------------------------
(* Correctness.                                                            *)

\* A function gets the arguments that were evaluated for it, whatever uses the
\* pad meanwhile: arguments in the pad are exposed only to the code that runs
\* in the activation before they are bound, and to the compiler only when they
\* came through a primitive or a generic function.
ArgumentsIntact ==
  doing = "body" /\ ~Latest.exposed => Latest.bound = Latest.given

\* An expression returns the values it was to return, however calls and
\* non-local exits are nested in it; astray says which forms break this.
ValuesIntact == doing = "return" /\ ~astray => Collected = yielded

\* Arguments reach the function they were evaluated for, and values who wants
\* them (dfsch.c, eval_args_and_apply, destructure_impl and dfsch_values_list).
PassedIntact == ArgumentsIntact /\ ValuesIntact

\* %get-values returns "all values of last form".
AllValues == doing = "return" /\ waiting # <<>> /\ Latest.is = "get" => Collected = yielded
=============================================================================
