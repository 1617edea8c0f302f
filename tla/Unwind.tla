------------------------------- MODULE Unwind -------------------------------
(***************************************************************************)
(* The control stack of one thread of dfsch: catch and throw,              *)
(* unwind-protect, handlers, restarts, the debugger and the termination of *)
(* the thread (dfsch/magic.h, src/dfsch.c, src/conditions.c, src/forms.c). *)
(*                                                                         *)
(* The program run is any program: at each step the running code enters a  *)
(* form, returns from the innermost one, throws, signals a condition,      *)
(* invokes a restart or terminates the thread.  The forms that have been   *)
(* entered are the frames of the stack.  SCATCH_BEGIN, which is in every   *)
(* frame that a throw may stop at, saves the registers of the thread and   *)
(* SCATCH restores them, whether its body returned or was thrown out of.   *)
(***************************************************************************)
EXTENDS Naturals, Sequences, SequencesExt, FiniteSets

CONSTANTS
  Tag,          \* the tags the program gives to catch
  Value,
  Condition,
  Serious,      \* the conditions that are a serious-condition
  Error,        \* the condition of dfsch_error
  Type,         \* the types given to handler-bind, as sets of conditions
  Nil,          \* NULL, which is the empty list and may be a tag
  Terminate,    \* DFSCH_INVALID_OBJECT as a tag, none of Tag, and the restart
                \* that uses it
  MaxForms,     \* bound: the frames a form may be entered on top of
  MaxRecursion  \* max_debugger_recursion

\* Tags of the program are none of those of restarts.
TagAssumption ==
  Terminate \notin Tag /\ Tag \intersect ({"gensym", "bound"} \X Nat) = {}

VARIABLES
  forms,          \* the frames, outermost first
  reg,            \* throw_ret and the lists of the thread info
  throw,          \* its throw_tag and throw_value
  debugger_depth,
  mode,           \* "running" code, "unwinding" to throw_ret, or ended:
                  \* "exited", "aborted" for want of a target, or "lost" when
                  \* a serious condition went unhandled
  owed,           \* history: the protects entered and not yet cleaned up
  aim,            \* history: the last throw, with the frame it is meant for
  interrupted     \* history: a throw was caught inside the cleanup of another

unwindVars == <<forms, reg, throw, debugger_depth, mode, owed, aim, interrupted>>
history == <<owed, aim, interrupted>>

-----------------------------------------------------------------------------
(* Frames.                                                                 *)

\* saved holds the registers to restore; of depends on the kind:
\*   "catch"     the tag
\*   "protect"   whether its "body", or its cleanup after a "return" or a
\*               "throw", is running
\*   "handlers"  the handler bound
\*   "restarts"  the restart bound by restart-bind
\*   "signal"    the condition, the handler that runs (at 0: none) and the
\*               handlers active meanwhile
\*   "debugger"  nothing
StackFrame(kind, of, saved) == [kind |-> kind, of |-> of, saved |-> saved]

Depth == Len(forms)
TopForm == forms[Depth]
Below == Front(forms)

\* The frames on top of which the code may enter a form.
MayEnter == mode = "running" /\ Depth < MaxForms

\* DFSCH_SCATCH_BEGIN in the d-th frame of the stack.
ScatchBegin(d, registers) == [registers EXCEPT !.throw_ret = d]

\* The tag of a restart's catch is a new symbol: the frame it is in names it.
Gensym(d) == <<"gensym", d>>

\* A restart of restart-bind, whose procedure may do anything.
Bound(d) == <<"bound", d>>

NoHandler == [type |-> {}, at |-> 0]
NoThrow == [tag |-> Nil, value |-> Nil]
NoAim == [tag |-> Nil, value |-> Nil, at |-> 0]

\* The innermost of some frames; 0 if there are none.
Innermost(frames) ==
  IF frames = {} THEN 0 ELSE CHOOSE d \in frames : \A e \in frames : e <= d

\* The frames, of the first d of a stack s, with a catch.
Catches(s, d) == {e \in 1..d : s[e].kind = "catch"}
CatchOf(tag) == Innermost({d \in Catches(forms, Depth) : forms[d].of = tag})

UnwindInit ==
  /\ forms = <<>>
  /\ reg = [throw_ret |-> 0, catch_list |-> <<>>, handler_list |-> <<>>,
            restart_list |-> <<Terminate>>]
  /\ throw = NoThrow
  /\ debugger_depth = 0
  /\ mode = "running"
  /\ owed = 0
  /\ aim = NoAim
  /\ interrupted = FALSE

-----------------------------------------------------------------------------
(* Entering and leaving forms.                                             *)

\* The catch form, and internal-loop with the tag break: the tag is pushed
\* before the registers are saved.
EnterCatch(tag) ==
  LET pushed == [reg EXCEPT !.catch_list = <<tag>> \o @]
  IN  /\ MayEnter
      /\ forms' = Append(forms, StackFrame("catch", tag, pushed))
      /\ reg' = ScatchBegin(Depth + 1, pushed)
      /\ UNCHANGED <<throw, debugger_depth, mode, history>>

\* DFSCH_WITH_SIMPLE_RESTART and DFSCH_WITH_RETRY_WITH_RESTART
EnterRestart ==
  LET tag == Gensym(Depth + 1)
      pushed == [reg EXCEPT !.catch_list = <<tag>> \o @]
  IN  /\ MayEnter
      /\ forms' = Append(forms, StackFrame("catch", tag, pushed))
      /\ reg' = [ScatchBegin(Depth + 1, pushed) EXCEPT !.restart_list = <<tag>> \o @]
      /\ UNCHANGED <<throw, debugger_depth, mode, history>>

\* Variant: the cleanup form is set up without saving the registers.
EnterProtectUnsaved ==
  /\ MayEnter
  /\ forms' = Append(forms, StackFrame("protect", "body", reg))
  /\ owed' = owed + 1
  /\ UNCHANGED <<reg, throw, debugger_depth, mode, aim, interrupted>>

\* DFSCH_UNWIND
EnterProtect ==
  /\ MayEnter
  /\ forms' = Append(forms, StackFrame("protect", "body", reg))
  /\ reg' = ScatchBegin(Depth + 1, reg)
  /\ owed' = owed + 1
  /\ UNCHANGED <<throw, debugger_depth, mode, aim, interrupted>>

\* The handler-bind form, DFSCH_SAVE_HANDLERS and dfsch_handler_bind
EnterHandlers(type) ==
  LET handler == [type |-> type, at |-> Depth + 1]
  IN  /\ MayEnter
      /\ forms' = Append(forms, StackFrame("handlers", handler, reg))
      /\ reg' = [reg EXCEPT !.handler_list = <<handler>> \o @]
      /\ UNCHANGED <<throw, debugger_depth, mode, history>>

\* The restart-bind form, DFSCH_SAVE_RESTARTS and dfsch_restart_bind
EnterRestarts ==
  LET restart == Bound(Depth + 1)
  IN  /\ MayEnter
      /\ forms' = Append(forms, StackFrame("restarts", restart, reg))
      /\ reg' = [reg EXCEPT !.restart_list = <<restart>> \o @]
      /\ UNCHANGED <<throw, debugger_depth, mode, history>>

Returning(kind) == mode = "running" /\ Depth > 0 /\ TopForm.kind = kind

\* Variant: leaving a catch normally does not unlink it from the list.
ReturnCatchLinked ==
  /\ Returning("catch")
  /\ forms' = Below
  /\ reg' = TopForm.saved
  /\ UNCHANGED <<throw, debugger_depth, mode, history>>

\* The body of a catch or restart returns: DFSCH_SCATCH, DFSCH_CATCH_END
ReturnCatch ==
  /\ Returning("catch")
  /\ forms' = Below
  /\ reg' = [TopForm.saved EXCEPT !.catch_list = Tail(@)]
  /\ UNCHANGED <<throw, debugger_depth, mode, history>>

\* The protected body returns, and the cleanup code follows: DFSCH_PROTECT
ReturnProtected ==
  /\ Returning("protect") /\ TopForm.of = "body"
  /\ forms' = [forms EXCEPT ![Depth].of = "return"]
  /\ reg' = TopForm.saved
  /\ owed' = owed - 1
  /\ UNCHANGED <<throw, debugger_depth, mode, aim, interrupted>>

\* The cleanup code ends: DFSCH_PROTECT_END goes on with what it interrupted.
EndCleanup ==
  /\ Returning("protect") /\ TopForm.of # "body"
  /\ forms' = Below
  /\ mode' = IF TopForm.of = "throw" THEN "unwinding" ELSE "running"
  /\ UNCHANGED <<reg, throw, debugger_depth, history>>

\* DFSCH_RESTORE_HANDLERS
ReturnHandlers ==
  /\ Returning("handlers")
  /\ forms' = Below
  /\ reg' = [reg EXCEPT !.handler_list = TopForm.saved.handler_list]
  /\ UNCHANGED <<throw, debugger_depth, mode, history>>

\* DFSCH_RESTORE_RESTARTS
ReturnRestarts ==
  /\ Returning("restarts")
  /\ forms' = Below
  /\ reg' = [reg EXCEPT !.restart_list = TopForm.saved.restart_list]
  /\ UNCHANGED <<throw, debugger_depth, mode, history>>

-----------------------------------------------------------------------------
(* Conditions.  below is the stack beneath the call of dfsch_signal, save  *)
(* the registers it was called with.                                       *)

\* dfsch_terminate_thread, called on a stack s.
TerminateFrom(s) ==
  /\ forms' = s
  /\ throw' = [tag |-> Terminate, value |-> Nil]
  /\ aim' = [tag |-> Terminate, value |-> Nil, at |-> 0]
  /\ mode' = "unwinding"

\* The end of dfsch_signal.  For a serious condition that nobody handled, the
\* error policy is to terminate the thread or the process.
EndSignal(below, condition, save) ==
  \/ /\ condition \notin Serious
     /\ forms' = below
     /\ reg' = [reg EXCEPT !.handler_list = save.handler_list]
     /\ UNCHANGED <<throw, mode, history>>
  \/ /\ condition \in Serious
     /\ TerminateFrom(below)
     /\ UNCHANGED <<reg, owed, interrupted>>
  \/ /\ condition \in Serious
     /\ forms' = below
     /\ mode' = "lost"
     /\ UNCHANGED <<reg, throw, history>>

\* dfsch_enter_debugger: its body is the debugger procedure.
EnterDebugger(below, condition, save) ==
  IF debugger_depth > MaxRecursion
  THEN EndSignal(below, condition, save) /\ UNCHANGED debugger_depth
  ELSE LET of == [condition |-> condition, handler |-> NoHandler,
                  active |-> reg.handler_list]
       IN  /\ forms' = below \o <<StackFrame("signal", of, save),
                                  StackFrame("debugger", <<>>, reg)>>
           /\ reg' = ScatchBegin(Len(below) + 2, reg)
           /\ debugger_depth' = debugger_depth + 1
           /\ UNCHANGED <<throw, mode, history>>

\* The handlers active while the n-th of a list runs.
ActiveFromSame(handlers, n) == SubSeq(handlers, n, Len(handlers))  \* Variant
ActiveDuring(handlers, n) == SubSeq(handlers, n + 1, Len(handlers))

\* The loop of dfsch_signal over the handlers that remain: the next one of
\* the condition is applied, with those that follow it active; after the last
\* comes the debugger, for serious conditions or for all.
Handle(below, condition, save, handlers) ==
  LET n == SelectInSeq(handlers, LAMBDA h : condition \in h.type)
      active == ActiveDuring(handlers, n)
      of == [condition |-> condition, handler |-> handlers[n], active |-> active]
  IN  \/ /\ n > 0
         /\ forms' = Append(below, StackFrame("signal", of, save))
         /\ reg' = [reg EXCEPT !.handler_list = active]
         /\ UNCHANGED <<throw, debugger_depth, mode, history>>
      \/ /\ n = 0
         /\ EnterDebugger(below, condition, save)
      \/ /\ n = 0 /\ condition \notin Serious
         /\ EndSignal(below, condition, save)
         /\ UNCHANGED debugger_depth

\* dfsch_signal
Signal(condition) ==
  /\ MayEnter
  /\ Handle(forms, condition, reg, reg.handler_list)

\* A handler returns, that is it declines the condition.
Decline ==
  /\ Returning("signal")
  /\ Handle(Below, TopForm.of.condition, TopForm.saved,
            SubSeq(TopForm.saved.handler_list,
                   SelectInSeq(TopForm.saved.handler_list, LAMBDA h : h = TopForm.of.handler) + 1,
                   Len(TopForm.saved.handler_list)))

\* The debugger procedure returns.
ReturnDebugger ==
  LET signal == forms[Depth - 1]
  IN  /\ Returning("debugger")
      /\ debugger_depth' = debugger_depth - 1
      /\ \/ /\ signal.of.condition \notin Serious
            /\ forms' = Front(Below)
            /\ reg' = [TopForm.saved EXCEPT !.handler_list = signal.saved.handler_list]
            /\ UNCHANGED <<throw, mode, history>>
         \/ /\ signal.of.condition \in Serious
            /\ TerminateFrom(Front(Below))
            /\ reg' = TopForm.saved
            /\ UNCHANGED <<owed, interrupted>>
         \/ /\ signal.of.condition \in Serious
            /\ forms' = Front(Below)
            /\ reg' = TopForm.saved
            /\ mode' = "lost"
            /\ UNCHANGED <<throw, history>>

-----------------------------------------------------------------------------
(* Non-local exits.                                                        *)

\* dfsch_throw to a tag that is in catch_list
ThrowTo(tag, value) ==
  /\ throw' = [tag |-> tag, value |-> value]
  /\ aim' = [tag |-> tag, value |-> value, at |-> CatchOf(tag)]
  /\ mode' = "unwinding"
  /\ UNCHANGED <<forms, reg, debugger_depth, owed, interrupted>>

ThrowTag(tag, value) ==
  /\ mode = "running"
  /\ \/ tag \in ToSet(reg.catch_list) /\ ThrowTo(tag, value)
     \/ tag \notin ToSet(reg.catch_list) /\ Signal(Error)

\* dfsch_invoke_restart, of one of the restarts it knows.  The procedure of
\* one that restart-bind bound is code like any other.
InvokeRestart(restart, value) ==
  /\ restart \in ToSet(reg.restart_list)
  /\ \A d \in 1..Depth : restart # Bound(d)
  /\ \/ restart # Terminate /\ ThrowTag(restart, value)
     \/ /\ restart = Terminate
        /\ mode = "running"
        /\ TerminateFrom(forms)
        /\ UNCHANGED <<reg, debugger_depth, owed, interrupted>>

Target == forms[reg.throw_ret]
Landing(kind) == mode = "unwinding" /\ reg.throw_ret > 0 /\ Target.kind = kind

\* Whether the frame the throw lands on was entered by the cleanup code of
\* an unwinding.
InsideCleanup ==
  \E d \in 1..(reg.throw_ret - 1) : forms[d].kind = "protect" /\ forms[d].of = "throw"

\* dfsch__continue_unwind with no frame left to jump to
NoTarget ==
  /\ mode = "unwinding" /\ reg.throw_ret = 0
  /\ forms' = <<>>
  /\ mode' = IF throw.tag = Terminate THEN "exited" ELSE "aborted"
  /\ UNCHANGED <<reg, throw, debugger_depth, history>>

\* Variant: a catch that is passed by ends the unwinding as well.
LandOnAnyCatch ==
  /\ Landing("catch")
  /\ forms' = SubSeq(forms, 1, reg.throw_ret - 1)
  /\ reg' = IF throw.tag = Target.of
            THEN [Target.saved EXCEPT !.catch_list = Tail(@)] ELSE Target.saved
  /\ mode' = IF throw.tag = Target.of THEN "running" ELSE "unwinding"
  /\ throw' = NoThrow
  /\ aim' = IF throw.tag = Target.of THEN NoAim ELSE aim
  /\ interrupted' = (interrupted \/ (throw.tag = Target.of /\ InsideCleanup))
  /\ UNCHANGED <<debugger_depth, owed>>

\* A catch of the tag ends the unwinding, dfsch__finalize_unwind; another one
\* continues it.
LandOnCatch ==
  /\ Landing("catch")
  /\ forms' = SubSeq(forms, 1, reg.throw_ret - 1)
  /\ \/ /\ throw.tag = Target.of
        /\ reg' = [Target.saved EXCEPT !.catch_list = Tail(@)]
        /\ throw' = NoThrow
        /\ mode' = "running"
        /\ aim' = NoAim
        /\ interrupted' = (interrupted \/ InsideCleanup)
     \/ /\ throw.tag # Target.of
        /\ reg' = Target.saved
        /\ UNCHANGED <<throw, mode, aim, interrupted>>
  /\ UNCHANGED <<debugger_depth, owed>>

\* The cleanup code runs, the throw is pending.
LandOnProtect ==
  /\ Landing("protect")
  /\ forms' = Append(SubSeq(forms, 1, reg.throw_ret - 1), [Target EXCEPT !.of = "throw"])
  /\ reg' = Target.saved
  /\ mode' = "running"
  /\ owed' = owed - 1
  /\ UNCHANGED <<throw, debugger_depth, aim, interrupted>>

\* The debugger's own cleanup is no code of the program.
LandOnDebugger ==
  /\ Landing("debugger")
  /\ forms' = SubSeq(forms, 1, reg.throw_ret - 1)
  /\ reg' = Target.saved
  /\ debugger_depth' = debugger_depth - 1
  /\ UNCHANGED <<throw, mode, history>>

EnterForm ==
  \/ EnterRestart \/ EnterProtect \/ EnterRestarts
  \/ \E tag \in Tag : EnterCatch(tag)
  \/ \E type \in Type : EnterHandlers(type)

ReturnForm ==
  \/ ReturnCatch \/ ReturnProtected \/ EndCleanup \/ ReturnHandlers
  \/ ReturnRestarts \/ Decline \/ ReturnDebugger

Exit ==
  \/ \E tag \in Tag, value \in Value : ThrowTag(tag, value)
  \/ \E restart \in ToSet(reg.restart_list), value \in Value : InvokeRestart(restart, value)
  \/ \E condition \in Condition : Signal(condition)

Continue == NoTarget \/ LandOnCatch \/ LandOnProtect \/ LandOnDebugger

UnwindNext == EnterForm \/ ReturnForm \/ Exit \/ Continue

UnwindSpec == UnwindInit /\ [][UnwindNext]_unwindVars

-----------------------------------------------------------------------------
(* Correctness.                                                            *)

\* The frames a throw may stop at, those that offer a restart, the calls of
\* dfsch_signal, and the handlers bound since the innermost one.
Targets(s, d) ==
  {e \in 1..d : s[e].kind \in {"catch", "debugger"} \/ (s[e].kind = "protect" /\ s[e].of = "body")}
Offers(s, d) ==
  {e \in 1..d : s[e].kind = "restarts" \/ (s[e].kind = "catch" /\ s[e].of \notin Tag)}
Signals(s, d) == {e \in 1..d : s[e].kind = "signal"}
Bindings(s, d) == {e \in 1..d : s[e].kind = "handlers" /\ e > Innermost(Signals(s, d))}
ActiveThen(s, d) == IF Signals(s, d) = {} THEN <<>> ELSE s[Innermost(Signals(s, d))].of.active

\* A list has what some frames of s are of, from the innermost one, and then rest.
Lists(list, s, frames, rest) ==
  /\ Len(list) = Cardinality(frames) + Len(rest)
  /\ \A d \in frames : list[Cardinality({e \in frames : e >= d})] = s[d].of
  /\ \A i \in DOMAIN rest : list[Cardinality(frames) + i] = rest[i]

\* The registers are as the first d frames of s ask for.
Match(r, s, d) ==
  /\ r.throw_ret = Innermost(Targets(s, d))
  /\ Lists(r.catch_list, s, Catches(s, d), <<>>)
  /\ Lists(r.handler_list, s, Bindings(s, d), ActiveThen(s, d))
  /\ Lists(r.restart_list, s, Offers(s, d), <<Terminate>>)

\* Whatever was entered, left, thrown through, signalled and cleaned up, the
\* lists the thread keeps beside its C stack are those of the forms that are
\* still being evaluated, for DFSCH_SCATCH restores what every exit may change,
\* and the recursion limit of the debugger counts the debuggers that are
\* running: one that is left by a throw is counted down too.
ListsMatchStack ==
  /\ mode = "running" => Match(reg, forms, Depth)
  /\ debugger_depth = Cardinality({d \in 1..Depth : forms[d].kind = "debugger"})

\* Every protected body that was entered is still on the stack, or its
\* cleanup code was started, once: no exit skips or repeats it, and a thread
\* that exits owes none.
CleanupsOwed ==
  owed = Cardinality({d \in 1..Depth : forms[d].kind = "protect" /\ forms[d].of = "body"})

\* An unwinding goes to the innermost catch of its tag that was there when it
\* began, with the value it began with, whatever cleanup code ran on its way;
\* as long as no throw was caught inside such cleanup code.
UnwindingKeepsTarget ==
  mode = "unwinding" /\ ~interrupted =>
    /\ throw = [tag |-> aim.tag, value |-> aim.value]
    /\ aim.tag = Terminate \/ (aim.at > 0 /\ CatchOf(aim.tag) = aim.at)

\* A condition signalled by a handler, or by what it calls, never runs the
\* same handler again: dfsch_signal leaves only the outer ones active.
HandlerNotReentered ==
  \A d, e \in 1..Depth :
    /\ d < e /\ forms[d].kind = "signal" /\ forms[e].kind = "signal"
    /\ forms[d].of.handler # NoHandler
    => forms[d].of.handler # forms[e].of.handler

\* dfsch_throw begins to unwind only when there is a catch of its tag, so
\* dfsch__continue_unwind never runs out of targets.
NeverWithoutTarget == mode # "aborted"
=============================================================================
