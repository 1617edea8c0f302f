------------------------------- MODULE Frames -------------------------------
(***************************************************************************)
(* The environment frames of one thread of the evaluator, src/src/dfsch.c. *)
(*                                                                         *)
(* A frame lives as long as the call or the let that made it, and is then  *)
(* put on the thread's freelist, or given to the function that replaces    *)
(* the call in a tail call.  A frame that the program got hold of, in a    *)
(* closure or as an object, is marked with EFRAME_RETAIN, along with the   *)
(* frames around it, and is left to the collector.                         *)
(*                                                                         *)
(* The program is arbitrary, but evaluates nothing in an environment it    *)
(* holds only as Leak gives it out.                                        *)
(***************************************************************************)
EXTENDS Naturals, Sequences, FiniteSets

CONSTANTS
  Frame,                    \* the frames memory has room for
  Global,                   \* the top-level environment, one of them
  NULL,
  ENV_FREELIST_MAX_DEPTH,
  MaxDepth                  \* bound: activations within each other

ASSUME FrameAssumption == Global \in Frame /\ NULL \notin Frame
ASSUME DepthAssumption == ENV_FREELIST_MAX_DEPTH \in Nat /\ MaxDepth \in Nat

VARIABLES
  heap,       \* frames that are allocated, those of the freelist included
  parent,
  retained,   \* frames with EFRAME_RETAIN
  freelist,   \* env_freelist, the frame to be used next first
  stack,      \* the activations of the evaluator, the innermost last
  refs,       \* environments that closures and other objects refer to
  leaked,     \* environments that objects refer to without their mark
  cleared     \* history: the frames wiped by the last step, for reuse

memory == <<heap, parent, retained, freelist, cleared>>
vars == <<memory, stack, refs, leaked>>

\* An activation: a call of a procedure, a let that evaluates the values of
\* its variables, the body of a let, or code evaluated in an environment that
\* outlives it; its frame, NULL in a primitive; and whether its value is the
\* value of the activation around it.
Activation ==
  [kind : {"apply", "bind", "let", "eval"}, frame : Frame \union {NULL}, tail : BOOLEAN]

Depths == DOMAIN stack
Outermost == [kind |-> "eval", frame |-> Global, tail |-> FALSE]
Top == IF stack = <<>> THEN Outermost ELSE stack[Len(stack)]

\* The activations that may free their frame.
Owns(a, f) == a.kind # "eval" /\ a.frame = f

\* The environment an activation evaluates in, NULL in a primitive.
Env(a) == IF a.kind = "bind" THEN parent[a.frame] ELSE a.frame
Envs == {Env(stack[i]) : i \in Depths} \union {Global}

-----------------------------------------------------------------------------
(* The frames.                                                             *)

\* alloc_environment and initialize_frame: frame f, from the freelist or
\* from the collector, within p.
NewFrame(f, p) ==
  /\ \/ freelist # <<>> /\ f = Head(freelist) /\ freelist' = Tail(freelist) /\ UNCHANGED heap
     \/ freelist = <<>> /\ f \in Frame \ heap /\ heap' = heap \union {f} /\ UNCHANGED freelist
  /\ parent' = [parent EXCEPT ![f] = p]
  /\ retained' = retained \ {f}
  /\ cleared' = {}

\* Variant: the freelist has no limit.
FreeUnbounded(f) ==
  IF f # NULL /\ f \notin retained
  THEN /\ freelist' = <<f>> \o freelist
       /\ parent' = [parent EXCEPT ![f] = NULL]
       /\ cleared' = {f}
       /\ UNCHANGED <<heap, retained>>
  ELSE cleared' = {} /\ UNCHANGED <<heap, parent, retained, freelist>>

\* free_environment, if there is a frame.
Free(f) ==
  IF f # NULL /\ f \notin retained /\ Len(freelist) < ENV_FREELIST_MAX_DEPTH
  THEN /\ freelist' = <<f>> \o freelist
       /\ parent' = [parent EXCEPT ![f] = NULL]
       /\ cleared' = {f}
       /\ UNCHANGED <<heap, retained>>
  ELSE cleared' = {} /\ UNCHANGED <<heap, parent, retained, freelist>>

\* maybe_reuse_frame, to go on in frame g within p.
MaybeReuse(f, g, p) ==
  IF f = p \/ f \in retained
  THEN NewFrame(g, p)
  ELSE /\ g = f
       /\ parent' = [parent EXCEPT ![f] = p]
       /\ cleared' = {f}
       /\ UNCHANGED <<heap, retained, freelist>>

\* Variant: the frames around f are not marked.
MarkedAlone(f) == {f}

\* The frames dfsch_reify_environment marks: f and those around it, up to
\* one that is marked.
Marked(f) ==
  IF f \in retained THEN {}
  ELSE {g \in Frame : \A S \in SUBSET Frame :
          f \in S /\ (\A h \in S : parent[h] \in S \union retained \union {NULL}) => g \in S}

\* The collector may take all frames but a set closed under parent that
\* holds everything the thread can reach.
ParentClosed(S) == \A f \in S : parent[f] \in S \union {NULL}
StackFrames == {stack[i].frame : i \in Depths} \ {NULL}
InFreelist == {freelist[i] : i \in DOMAIN freelist}

Collect ==
  \E S \in SUBSET heap :
    /\ {Global} \union refs \union leaked \union StackFrames \union InFreelist \subseteq S
    /\ ParentClosed(S)
    /\ S # heap
    /\ heap' = S
    /\ parent' = [f \in Frame |-> IF f \in S THEN parent[f] ELSE NULL]
    /\ retained' = retained \intersect S
    /\ cleared' = {}
    /\ UNCHANGED <<freelist, stack, refs, leaked>>

-----------------------------------------------------------------------------
(* The evaluator.                                                          *)

Init ==
  /\ heap = {Global} /\ parent = [f \in Frame |-> NULL] /\ retained = {}
  /\ freelist = <<>> /\ stack = <<>>
  /\ refs = {Global} /\ leaked = {} /\ cleared = {}

Enter(activation) ==
  /\ Len(stack) < MaxDepth
  /\ stack' = Append(stack, activation)
  /\ UNCHANGED <<refs, leaked>>

\* dfsch_apply_impl without esc, of a closure over r.
CallClosure(r, f) ==
  /\ r \in refs
  /\ NewFrame(f, r)
  /\ Enter([kind |-> "apply", frame |-> f, tail |-> FALSE])

\* The same of a primitive, or of another object with an apply method.
CallPrimitive ==
  /\ Enter([kind |-> "apply", frame |-> NULL, tail |-> FALSE])
  /\ cleared' = {} /\ UNCHANGED <<heap, parent, retained, freelist>>

\* internal_let: it makes its frame before it evaluates the values.
EnterLet(f) ==
  /\ Env(Top) # NULL
  /\ NewFrame(f, Env(Top))
  /\ Enter([kind |-> "bind", frame |-> f, tail |-> FALSE])

\* Its body: the value is that of the form around it, or is used there.
LetBody(tail) ==
  /\ Top.kind = "bind"
  /\ stack' = [stack EXCEPT ![Len(stack)] = [@ EXCEPT !.kind = "let", !.tail = tail]]
  /\ cleared' = {} /\ UNCHANGED <<heap, parent, retained, freelist, refs, leaked>>

\* destructuring-bind: nobody frees its frame.
EnterDestructuring(f, tail) ==
  /\ Env(Top) # NULL
  /\ NewFrame(f, Env(Top))
  /\ Enter([kind |-> "eval", frame |-> f, tail |-> tail])

\* make-environment and make-empty-environment: an object that is not marked.
MakeEnvironment(f, p) ==
  /\ p \in refs \union {NULL} /\ Top.kind = "apply" /\ Top.frame = NULL
  /\ NewFrame(f, p)
  /\ refs' = refs \union {f}
  /\ UNCHANGED <<stack, leaked>>

\* The primitives eval and eval-proc, in an environment the program holds.
EnterEval(r) ==
  /\ r \in refs /\ Top.kind = "apply" /\ Top.frame = NULL
  /\ Enter([kind |-> "eval", frame |-> r, tail |-> TRUE])
  /\ cleared' = {} /\ UNCHANGED <<heap, parent, retained, freelist>>

\* The call whose tail escape an application in tail position is given: all
\* activations within it return what it returns.
Escape(d) ==
  /\ d \in Depths /\ stack[d].kind = "apply"
  /\ \A e \in (d + 1)..Len(stack) : stack[e].kind # "apply" /\ stack[e].tail

\* longjmp to the call: the activations within it are gone, and their frames
\* are not freed.
JumpTo(d, f) ==
  /\ stack' = Append(SubSeq(stack, 1, d - 1), [kind |-> "apply", frame |-> f, tail |-> FALSE])
  /\ UNCHANGED <<refs, leaked>>

\* dfsch_apply_impl with esc, of a closure over r: its frame is the one of
\* the call that it replaces, if that has one and may give it up.
TailClosure(r, d, f) ==
  /\ r \in refs /\ Escape(d)
  /\ IF stack[d].frame = NULL THEN NewFrame(f, r) ELSE MaybeReuse(stack[d].frame, f, r)
  /\ JumpTo(d, f)

\* Variant: reuse_frame is not reset.
TailPrimitiveKeeping(d) ==
  /\ Escape(d)
  /\ Free(stack[d].frame)
  /\ JumpTo(d, stack[d].frame)

\* The same of a primitive: the frame is freed and forgotten.
TailPrimitive(d) ==
  /\ Escape(d)
  /\ Free(stack[d].frame)
  /\ JumpTo(d, NULL)

\* The innermost activation ends with a value.
Return ==
  /\ stack # <<>> /\ Top.kind # "bind"
  /\ stack' = SubSeq(stack, 1, Len(stack) - 1)
  /\ IF Top.kind = "eval" THEN cleared' = {} /\ UNCHANGED <<heap, parent, retained, freelist>>
     ELSE Free(Top.frame)
  /\ UNCHANGED <<refs, leaked>>

\* A throw to a catch of the activation at depth d, or of the C code around:
\* the frames of the activations it ends are left to the collector.
Throw(d) ==
  /\ d < Len(stack)
  /\ stack' = SubSeq(stack, 1, d)
  /\ cleared' = {} /\ UNCHANGED <<heap, parent, retained, freelist, refs, leaked>>

\* dfsch_reify_environment, for a closure or current-environment in the
\* innermost activation, or a stack trace of all of them.
Reify(f) ==
  /\ f # NULL
  /\ refs' = refs \union {f}
  /\ retained' = retained \union Marked(f)
  /\ cleared' = {} /\ UNCHANGED <<heap, parent, freelist, stack, leaked>>

\* Environments put into objects as they are: the data of the condition for
\* an unbound variable, the environment of a breakpoint, and that of a macro
\* that is being expanded.
Leak(f) ==
  /\ f # NULL
  /\ leaked' = leaked \union {f}
  /\ cleared' = {} /\ UNCHANGED <<heap, parent, retained, freelist, stack, refs>>

\* The last object that refers to environment r is gone.
Drop(r) ==
  /\ \/ r \in refs \ {Global} /\ refs' = refs \ {r} /\ UNCHANGED leaked
     \/ r \in leaked /\ leaked' = leaked \ {r} /\ UNCHANGED refs
  /\ cleared' = {} /\ UNCHANGED <<heap, parent, retained, freelist, stack>>

Next ==
  \/ \E r \in refs, f \in Frame : CallClosure(r, f)
  \/ CallPrimitive
  \/ \E f \in Frame : EnterLet(f)
  \/ \E tail \in BOOLEAN : LetBody(tail)
  \/ \E f \in Frame, tail \in BOOLEAN : EnterDestructuring(f, tail)
  \/ \E f \in Frame, p \in refs \union {NULL} : MakeEnvironment(f, p)
  \/ \E r \in refs : EnterEval(r)
  \/ \E r \in refs, d \in Depths, f \in Frame : TailClosure(r, d, f)
  \/ \E d \in Depths : TailPrimitive(d)
  \/ Return
  \/ \E d \in 0..(Len(stack) - 1) : Throw(d)
  \/ \E f \in Envs : Reify(f) \/ Leak(f)
  \/ \E r \in Frame : Drop(r)
  \/ Collect

Spec == Init /\ [][Next]_vars

-----------------------------------------------------------------------------
(* Correctness.                                                            *)

\* What is reachable is allocated, and the freelist is no longer than it may
\* be.
TypeOK ==
  /\ heap \subseteq Frame /\ Global \in heap
  /\ parent \in [Frame -> heap \union {NULL}]
  /\ retained \subseteq heap /\ cleared \subseteq heap
  /\ freelist \in Seq(heap) /\ Len(freelist) <= ENV_FREELIST_MAX_DEPTH
  /\ stack \in Seq(Activation) /\ StackFrames \subseteq heap
  /\ refs \subseteq heap /\ leaked \subseteq heap

\* A frame belongs to one activation, or is on the freelist once: no two
\* calls ever share a frame, however calls, tail calls and throws follow.
FramesApart ==
  /\ \A f \in Frame, c, d \in Depths : Owns(stack[c], f) /\ Owns(stack[d], f) => c = d
  /\ \A i, j \in DOMAIN freelist : freelist[i] = freelist[j] => i = j
  /\ StackFrames \intersect InFreelist = {}

\* What can still reach a frame once its activation is over.
OutOfReach(f, from) == \E S \in SUBSET heap :
  from \subseteq S /\ ParentClosed(S) /\ f \notin S

UsedBeside(f) == {stack[d].frame : d \in {d \in Depths : ~Owns(stack[d], f)}}

\* A frame is wiped only when no closure, no environment object and no other
\* activation can reach it, directly or through the frames within it.
ClearedOutOfReach ==
  \A f \in cleared :
    OutOfReach(f, refs \union (UsedBeside(f) \ {NULL}))

\* "dfsch_reify_environment() disables this behavior" (dfsch/types.h) of
\* reusing environments that come out of scope: those in objects stay.
ObjectsKeepEnvironments ==
  \A f \in cleared : OutOfReach(f, refs \union leaked)
=============================================================================
