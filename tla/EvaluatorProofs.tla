--------------------------- MODULE EvaluatorProofs --------------------------
(***************************************************************************)
(* Proofs about what the evaluator reuses.                                 *)
(*                                                                         *)
(* Frames, for any number of frames, any length of the freelist and any    *)
(* depth of calls: no frame is wiped or given away while it can be         *)
(* reached.                                                                *)
(*                                                                         *)
(* ScratchPad, for a pad of any size, calls with any numbers of arguments  *)
(* and any nesting: arguments reach the function they were evaluated for,  *)
(* and values who wants them, but for those that the model counts as       *)
(* exposed or astray.                                                      *)
(***************************************************************************)
EXTENDS Frames, ScratchPad, WellFoundedInduction, TLAPS

(***************************************************************************)
(* The inductive invariant.  A frame can be wiped because all that can     *)
(* reach it is gone.  There is a set K of frames that outlive their        *)
(* activations: it is closed under parent, holds what objects refer to and *)
(* all marked frames, and has no other frame that an activation will free. *)
(* The frame around any other frame in use is in use below it.             *)
(***************************************************************************)
Marks(K) ==
  /\ retained \union refs \union {Global} \subseteq K
  /\ \A f \in K : parent[f] \in K \union {NULL}
  /\ K \intersect InFreelist = {}

Activations(K) ==
  \A d \in Depths :
    /\ stack[d].kind = "bind" => stack[d].frame # NULL
    /\ stack[d].frame # NULL =>
         /\ stack[d].kind # "eval" /\ stack[d].frame \in K => stack[d].frame \in retained
         /\ \/ parent[stack[d].frame] \in K \union {NULL}
            \/ \E c \in 1..(d - 1) : stack[c].frame = parent[stack[d].frame]
         /\ \A c \in Depths \ {d} : stack[c].frame = stack[d].frame => stack[d].frame \in K

Wiped(K) ==
  \A f \in cleared : f \notin K /\ (f \in InFreelist \/ (stack # <<>> /\ Owns(Top, f)))

InvWith(K) ==
  /\ K \subseteq heap /\ TypeOK /\ FramesApart
  /\ Marks(K) /\ Activations(K) /\ Wiped(K)

Inv == \E K \in SUBSET Frame : InvWith(K)

LEMMA InitInv == Init => Inv
<1>. SUFFICES ASSUME Init
              PROVE  InvWith({Global})
  BY FrameAssumption DEF Inv
<1>1. stack = <<>> /\ freelist = <<>> /\ Depths = {} /\ StackFrames = {} /\ InFreelist = {}
  BY DEF Init, Depths, StackFrames, InFreelist
<1>2. TypeOK
  BY <1>1, FrameAssumption, DepthAssumption DEF Init, TypeOK
<1>. QED
  BY <1>1, <1>2, FrameAssumption DEF Init, InvWith, FramesApart, Marks, Activations, Wiped

\* What the thread can use is closed under parent.
LEMMA LiveClosed ==
  ASSUME NEW K, InvWith(K)
  PROVE  ParentClosed(K \union StackFrames) /\ K \union StackFrames \subseteq heap
<1>1. ASSUME NEW f \in StackFrames
      PROVE  parent[f] \in K \union StackFrames \union {NULL}
  <2>1. PICK d \in Depths : f = stack[d].frame /\ f # NULL
    BY DEF StackFrames
  <2>2. ASSUME NEW c \in 1..(d - 1), stack[c].frame = parent[f]
        PROVE  parent[f] \in StackFrames \union {NULL}
    <3>1. c \in Depths
      BY DEF InvWith, TypeOK, Depths
    <3>. QED  BY <2>2, <3>1 DEF StackFrames
  <2>. QED  BY <2>1, <2>2 DEF InvWith, Activations
<1>. QED  BY <1>1 DEF InvWith, TypeOK, Marks, ParentClosed

\* So is what activations evaluate in.
LEMMA EnvLive ==
  ASSUME NEW K, InvWith(K), NEW f \in Envs, f # NULL
  PROVE  f \in K \union StackFrames
<1>1. CASE f = Global
  BY <1>1 DEF InvWith, Marks
<1>2. ASSUME NEW d \in Depths, f = Env(stack[d])
      PROVE  f \in K \union StackFrames
  <2>1. stack[d].frame # NULL => stack[d].frame \in StackFrames
    BY DEF StackFrames
  <2>2. CASE stack[d].kind = "bind"
    <3>1. stack[d].frame \in StackFrames /\ f = parent[stack[d].frame]
      BY <1>2, <2>1, <2>2 DEF Env, InvWith, Activations
    <3>. QED  BY <3>1, LiveClosed DEF ParentClosed
  <2>3. CASE stack[d].kind # "bind"
    BY <1>2, <2>1, <2>3 DEF Env
  <2>. QED  BY <2>2, <2>3
<1>. QED  BY <1>1, <1>2 DEF Envs

-----------------------------------------------------------------------------
(***************************************************************************)
(* The invariant makes ClearedOutOfReach true: the set of the frames in    *)
(* use, without the one that was wiped, is closed under parent.            *)
(***************************************************************************)
LEMMA InvCleared == Inv => ClearedOutOfReach
<1>. SUFFICES ASSUME NEW K, InvWith(K), NEW f \in cleared
              PROVE  OutOfReach(f, refs \union (UsedBeside(f) \ {NULL}))
  BY DEF ClearedOutOfReach, Inv
<1>. DEFINE S == (K \union StackFrames) \ {f}
<1>1. f \notin K /\ f # NULL
  BY FrameAssumption DEF InvWith, Wiped, TypeOK
<1>2. ASSUME NEW d \in Depths, stack[d].frame = f
      PROVE  Owns(stack[d], f) /\ d = Len(stack)
  <2>1. f \in StackFrames
    BY <1>1, <1>2 DEF StackFrames
  <2>2. Owns(stack[Len(stack)], f) /\ Len(stack) \in Depths
    BY <2>1 DEF InvWith, TypeOK, FramesApart, Wiped, Top, Depths
  <2>3. d = Len(stack)
    BY <1>1, <1>2, <2>2 DEF InvWith, Activations, Owns
  <2>. QED  BY <2>2, <2>3
<1>3. refs \union (UsedBeside(f) \ {NULL}) \subseteq S
  <2>1. refs \subseteq S
    BY <1>1 DEF InvWith, Marks
  <2>2. UsedBeside(f) \ {NULL} \subseteq S
    BY <1>2 DEF UsedBeside, StackFrames
  <2>. QED  BY <2>1, <2>2
<1>4. ASSUME NEW g \in S
      PROVE  parent[g] # f
  <2>1. CASE g \in K
    BY <1>1, <2>1 DEF InvWith, Marks
  <2>2. CASE g \in StackFrames
    <3>1. PICK d \in Depths : g = stack[d].frame /\ g # NULL
      BY <2>2 DEF StackFrames
    <3>2. ASSUME NEW c \in 1..(d - 1), stack[c].frame = f
          PROVE  FALSE
      <4>1. c \in Depths /\ d \in 1..Len(stack) /\ Len(stack) \in Nat
        BY DEF InvWith, TypeOK, Depths
      <4>2. c = Len(stack)
        BY <1>2, <3>2, <4>1
      <4>. QED  BY <4>1, <4>2
    <3>. QED  BY <1>1, <3>1, <3>2 DEF InvWith, Activations
  <2>. QED  BY <2>1, <2>2
<1>5. S \in SUBSET heap /\ ParentClosed(S)
  BY <1>4, LiveClosed DEF ParentClosed
<1>. QED  BY <1>3, <1>5 DEF OutOfReach

-----------------------------------------------------------------------------
(***************************************************************************)
(* What a step does to the frames, seen from the activations that stay.    *)
(***************************************************************************)
PrefixFrames(n) == {stack[e].frame : e \in 1..n} \ {NULL}

\* The frames L are left alone.
LeavesAlone(L) ==
  /\ heap \subseteq heap' /\ heap' \subseteq Frame
  /\ parent' \in [Frame -> heap' \union {NULL}]
  /\ retained' = retained
  /\ freelist' \in Seq(heap') /\ Len(freelist') <= ENV_FREELIST_MAX_DEPTH
  /\ \A i, j \in DOMAIN freelist' : freelist'[i] = freelist'[j] => i = j
  /\ \A g \in L : parent'[g] = parent[g] /\ g \notin InFreelist'

LEMMA AllPrefix ==
  ASSUME TypeOK
  PROVE  /\ PrefixFrames(Len(stack)) = StackFrames
         /\ \A n \in 0..Len(stack) : PrefixFrames(n) \subseteq StackFrames
<1>1. Depths = 1..Len(stack)
  BY DEF TypeOK, Depths
<1>. QED  BY <1>1 DEF PrefixFrames, StackFrames, TypeOK

LEMMA NothingFreed ==
  ASSUME NEW K, InvWith(K), UNCHANGED <<heap, parent, retained, freelist>>
  PROVE  LeavesAlone(K \union StackFrames)
<1>1. InFreelist' = InFreelist
  BY DEF InFreelist
<1>. QED  BY <1>1 DEF InvWith, TypeOK, FramesApart, Marks, LeavesAlone

\* A new frame is nowhere in use.
LEMMA NewFrameFresh ==
  ASSUME NEW K, InvWith(K), NEW f \in Frame, NEW p \in heap \union {NULL}, NewFrame(f, p)
  PROVE  /\ LeavesAlone(K \union StackFrames)
         /\ f \in heap' /\ f \notin K \union StackFrames \union InFreelist'
         /\ parent'[f] = p /\ cleared' = {}
<1>1. CASE freelist # <<>> /\ f = Head(freelist) /\ freelist' = Tail(freelist) /\ UNCHANGED heap
  <2>1. /\ f = freelist[1] /\ 1 \in DOMAIN freelist
        /\ DOMAIN freelist' = 1..(Len(freelist) - 1)
        /\ \A i \in DOMAIN freelist' : freelist'[i] = freelist[i + 1] /\ i + 1 \in DOMAIN freelist
        /\ Len(freelist') = Len(freelist) - 1 /\ freelist' \in Seq(heap)
    BY <1>1 DEF InvWith, TypeOK
  <2>2. f \in InFreelist /\ InFreelist' \subseteq InFreelist
    BY <2>1 DEF InFreelist
  <2>3. f \notin K \union StackFrames
    BY <2>2 DEF InvWith, FramesApart, Marks
  <2>4. f \notin InFreelist'
    <3>1. SUFFICES ASSUME NEW i \in DOMAIN freelist', freelist'[i] = f
                   PROVE  FALSE
      BY DEF InFreelist
    <3>2. i \in Nat \ {0} /\ i + 1 = 1
      BY <2>1, <3>1 DEF InvWith, FramesApart
    <3>. QED  BY <3>2
  <2>5. Len(freelist') <= ENV_FREELIST_MAX_DEPTH
    BY <2>1, DepthAssumption DEF InvWith, TypeOK
  <2>6. \A i, j \in DOMAIN freelist' : freelist'[i] = freelist'[j] => i = j
    <3>1. SUFFICES ASSUME NEW i \in DOMAIN freelist', NEW j \in DOMAIN freelist',
                          freelist'[i] = freelist'[j]
                   PROVE  i = j
      OBVIOUS
    <3>2. i + 1 = j + 1 /\ i \in Nat /\ j \in Nat
      BY <2>1, <3>1 DEF InvWith, FramesApart
    <3>. QED  BY <3>2
  <2>7. heap' = heap /\ f \in heap /\ heap \subseteq Frame
    BY <1>1, <2>1 DEF InvWith, TypeOK
  <2>8. /\ retained' = retained /\ parent' \in [Frame -> heap' \union {NULL}]
        /\ parent'[f] = p /\ cleared' = {}
        /\ \A g \in Frame \ {f} : parent'[g] = parent[g]
    BY <2>3, <2>7 DEF InvWith, TypeOK, Marks, NewFrame
  <2>9. \A g \in K \union StackFrames : g \in Frame /\ g # f /\ g \notin InFreelist'
    BY <2>2, <2>3 DEF InvWith, TypeOK, FramesApart, Marks
  <2>. QED  BY <2>1, <2>3, <2>4, <2>5, <2>6, <2>7, <2>8, <2>9 DEF LeavesAlone
<1>2. CASE freelist = <<>> /\ f \in Frame \ heap /\ heap' = heap \union {f} /\ UNCHANGED freelist
  <2>1. InFreelist' = {} /\ freelist' = <<>>
    BY <1>2 DEF InFreelist
  <2>2. f \notin K \union StackFrames
    BY <1>2 DEF InvWith, TypeOK
  <2>3. /\ retained' = retained /\ parent' \in [Frame -> heap' \union {NULL}]
        /\ parent'[f] = p /\ cleared' = {}
        /\ \A g \in Frame \ {f} : parent'[g] = parent[g]
    BY <1>2, <2>2 DEF InvWith, TypeOK, Marks, NewFrame
  <2>4. \A g \in K \union StackFrames : g \in Frame /\ g # f
    BY <2>2 DEF InvWith, TypeOK
  <2>5. freelist' \in Seq(heap') /\ Len(freelist') = 0 /\ DOMAIN freelist' = {}
    BY <2>1
  <2>. QED  BY <1>2, <2>1, <2>2, <2>3, <2>4, <2>5, DepthAssumption DEF InvWith, TypeOK, LeavesAlone
<1>. QED  BY <1>1, <1>2 DEF NewFrame

\* A frame that the activation at depth d owns is not in use below it, and
\* nothing that outlives d reaches it unless it is marked.
LEMMA BelowApart ==
  ASSUME NEW K, InvWith(K), NEW d \in Depths, NEW f, Owns(stack[d], f), f # NULL, f \notin retained
  PROVE  /\ f \notin K \union PrefixFrames(d - 1) \union InFreelist
         /\ f \in heap /\ f \in Frame
<1>1. f \in StackFrames
  BY DEF StackFrames, Owns
<1>2. f \in heap /\ f \in Frame /\ f \notin InFreelist
  BY <1>1 DEF InvWith, TypeOK, FramesApart
<1>3. f \notin K
  BY DEF InvWith, Activations, Owns
<1>4. ASSUME NEW e \in 1..(d - 1), stack[e].frame = f
      PROVE  FALSE
  <2>1. e \in Depths \ {d}
    BY DEF InvWith, TypeOK, Depths
  <2>. QED  BY <1>3, <1>4, <2>1 DEF InvWith, Activations, Owns
<1>. QED  BY <1>2, <1>3, <1>4 DEF PrefixFrames

\* Freeing the frame of an activation.
LEMMA FreeKeeps ==
  ASSUME NEW K, InvWith(K), NEW d \in Depths, stack[d].kind # "eval", Free(stack[d].frame)
  PROVE  /\ LeavesAlone(K \union PrefixFrames(d - 1))
         /\ cleared' \subseteq heap' /\ cleared' \subseteq InFreelist'
         /\ cleared' \intersect K = {}
<1>. DEFINE f == stack[d].frame
<1>0. d \in 1..Len(stack) /\ Len(stack) \in Nat
  BY DEF InvWith, TypeOK, Depths
<1>1. PrefixFrames(d - 1) \subseteq StackFrames
  BY <1>0, AllPrefix DEF InvWith
<1>2. CASE f # NULL /\ f \notin retained /\ Len(freelist) < ENV_FREELIST_MAX_DEPTH
  <2>1. /\ f \notin K \union PrefixFrames(d - 1) \union InFreelist
        /\ f \in heap /\ f \in Frame
    BY <1>0, <1>2, BelowApart DEF Owns
  <2>2. /\ freelist' = <<f>> \o freelist /\ parent' = [parent EXCEPT ![f] = NULL]
        /\ cleared' = {f} /\ UNCHANGED <<heap, retained>>
    BY <1>2 DEF Free
  <2>3. /\ freelist' \in Seq(heap') /\ Len(freelist') = Len(freelist) + 1
        /\ DOMAIN freelist' = 1..(Len(freelist) + 1) /\ DOMAIN freelist = 1..Len(freelist)
        /\ Len(freelist) \in Nat
        /\ freelist'[1] = f
        /\ \A i \in 2..(Len(freelist) + 1) : freelist'[i] = freelist[i - 1]
    BY <2>1, <2>2 DEF InvWith, TypeOK
  <2>4. InFreelist' \subseteq InFreelist \union {f} /\ f \in InFreelist'
    <3>1. \A i \in DOMAIN freelist' : i = 1 \/ (i \in 2..(Len(freelist) + 1) /\ i - 1 \in DOMAIN freelist)
      BY <2>3
    <3>2. \A i \in DOMAIN freelist' : freelist'[i] \in InFreelist \union {f}
      BY <2>3, <3>1 DEF InFreelist
    <3>3. 1 \in DOMAIN freelist'
      BY <2>3
    <3>. QED  BY <2>3, <3>2, <3>3 DEF InFreelist
  <2>5. \A i, j \in DOMAIN freelist' : freelist'[i] = freelist'[j] => i = j
    <3>1. SUFFICES ASSUME NEW i \in DOMAIN freelist', NEW j \in DOMAIN freelist',
                          freelist'[i] = freelist'[j]
                   PROVE  i = j
      OBVIOUS
    <3>2. \A k \in 2..(Len(freelist) + 1) : freelist'[k] # f
      BY <2>1, <2>3 DEF InFreelist
    <3>3. CASE i = 1 \/ j = 1
      BY <2>3, <3>1, <3>2, <3>3
    <3>4. CASE i # 1 /\ j # 1
      <4>1. /\ i \in 2..(Len(freelist) + 1) /\ i - 1 \in DOMAIN freelist
            /\ j \in 2..(Len(freelist) + 1) /\ j - 1 \in DOMAIN freelist
        BY <2>3, <3>4
      <4>2. freelist[i - 1] = freelist[j - 1]
        BY <2>3, <3>1, <4>1
      <4>3. i - 1 = j - 1
        BY <4>1, <4>2 DEF InvWith, FramesApart
      <4>. QED  BY <4>1, <4>3
    <3>. QED  BY <3>3, <3>4
  <2>6. Len(freelist') <= ENV_FREELIST_MAX_DEPTH
    BY <1>2, <2>3, DepthAssumption
  <2>7. parent' \in [Frame -> heap' \union {NULL}] /\ \A g \in Frame \ {f} : parent'[g] = parent[g]
    BY <2>1, <2>2 DEF InvWith, TypeOK
  <2>8. \A g \in K \union PrefixFrames(d - 1) : g \in Frame /\ g # f /\ g \notin InFreelist'
    BY <1>1, <2>1, <2>4 DEF InvWith, TypeOK, FramesApart, Marks
  <2>9. heap \subseteq heap' /\ heap' \subseteq Frame /\ retained' = retained
    BY <2>2 DEF InvWith, TypeOK
  <2>10. LeavesAlone(K \union PrefixFrames(d - 1))
    BY <2>3, <2>5, <2>6, <2>7, <2>8, <2>9 DEF LeavesAlone
  <2>. QED  BY <2>1, <2>2, <2>4, <2>10
<1>3. CASE ~(f # NULL /\ f \notin retained /\ Len(freelist) < ENV_FREELIST_MAX_DEPTH)
  <2>1. cleared' = {} /\ UNCHANGED <<heap, parent, retained, freelist>>
    BY <1>3 DEF Free
  <2>. QED  BY <1>1, <2>1, NothingFreed DEF LeavesAlone
<1>. QED  BY <1>2, <1>3

\* A tail call goes on in the frame of the call it replaces, or in another.
LEMMA ReuseKeeps ==
  ASSUME NEW K, InvWith(K), NEW d \in Depths, stack[d].kind # "eval", stack[d].frame # NULL,
         NEW g \in Frame, NEW p \in heap, MaybeReuse(stack[d].frame, g, p)
  PROVE  /\ LeavesAlone(K \union PrefixFrames(d - 1))
         /\ g \in heap' /\ g \notin K \union PrefixFrames(d - 1) \union InFreelist'
         /\ parent'[g] = p /\ cleared' \subseteq {g}
<1>0. d \in 1..Len(stack) /\ Len(stack) \in Nat
  BY DEF InvWith, TypeOK, Depths
<1>1. PrefixFrames(d - 1) \subseteq StackFrames
  BY <1>0, AllPrefix DEF InvWith
<1>2. CASE NewFrame(g, p)
  BY <1>1, <1>2, NewFrameFresh DEF LeavesAlone
<1>3. CASE /\ g = stack[d].frame /\ g \notin retained
           /\ parent' = [parent EXCEPT ![g] = p] /\ cleared' = {g}
           /\ UNCHANGED <<heap, retained, freelist>>
  <2>1. g \notin K \union PrefixFrames(d - 1) \union InFreelist /\ g \in heap
    BY <1>0, <1>3, BelowApart DEF Owns
  <2>2. InFreelist' = InFreelist
    BY <1>3 DEF InFreelist
  <2>3. parent' \in [Frame -> heap' \union {NULL}] /\ parent'[g] = p
        /\ \A h \in Frame \ {g} : parent'[h] = parent[h]
    BY <1>3 DEF InvWith, TypeOK
  <2>4. \A h \in K \union PrefixFrames(d - 1) : h \in Frame /\ h # g /\ h \notin InFreelist'
    BY <1>1, <2>1, <2>2 DEF InvWith, TypeOK, FramesApart, Marks
  <2>5. LeavesAlone(K \union PrefixFrames(d - 1))
    BY <1>3, <2>3, <2>4 DEF InvWith, TypeOK, FramesApart, LeavesAlone
  <2>. QED  BY <1>3, <2>1, <2>2, <2>3, <2>5
<1>. QED  BY <1>2, <1>3 DEF MaybeReuse

-----------------------------------------------------------------------------
(***************************************************************************)
(* A step that keeps n activations, leaves their frames alone, starts at   *)
(* most one activation, and after which the frames J outlive activations.  *)
(***************************************************************************)
Keeps(n) ==
  /\ n \in 0..Len(stack)
  /\ stack' \in Seq(Activation)
  /\ Len(stack') \in n..(n + 1)
  /\ \A d \in 1..n : stack'[d] = stack[d]

\* What the new activation may be.
Starts(a, n, J) ==
  \/ a.kind = "apply" /\ a.frame = NULL
  \/ a.kind = "eval" /\ a.frame \in J
  \/ /\ a.frame \in heap' /\ a.frame \notin J \union PrefixFrames(n) \union InFreelist'
     /\ \/ parent'[a.frame] \in J \union {NULL}
        \/ \E c \in 1..n : stack[c].frame = parent'[a.frame]

\* The objects refer to frames of J, and J takes no frame from an activation.
Outlive(K, J, n) ==
  /\ K \subseteq J /\ J \subseteq heap' /\ refs' \subseteq J /\ leaked' \subseteq heap'
  /\ J \intersect PrefixFrames(n) \subseteq K
  /\ J \intersect InFreelist' = {}
  /\ \A f \in J : parent'[f] \in J \union {NULL}

WipesUnused(J) ==
  /\ cleared' \subseteq heap'
  /\ \A f \in cleared' : f \notin J /\ (f \in InFreelist' \/ (stack' # <<>> /\ Owns(Top', f)))

LEMMA EvaluatorStep ==
  ASSUME NEW K, InvWith(K), NEW n \in Nat, NEW J,
         LeavesAlone(K \union PrefixFrames(n)), Keeps(n),
         n + 1 \in Depths' => Starts(stack'[n + 1], n, J),
         Outlive(K, J, n), WipesUnused(J)
  PROVE  Inv'
<1>1. Depths' = 1..Len(stack') /\ Depths = 1..Len(stack) /\ n \in 0..Len(stack) /\ Len(stack) \in Nat
  BY DEF Keeps, Depths, InvWith, TypeOK
<1>2. \A d \in Depths' : d \in 1..n \/ d = n + 1
  BY <1>1 DEF Keeps
<1>3. \A d \in 1..n : d \in Depths /\ stack'[d] = stack[d]
  BY <1>1 DEF Keeps
<1>4. PrefixFrames(n) \subseteq StackFrames
  BY <1>1, AllPrefix DEF InvWith
<1>5. /\ StackFrames' \subseteq heap'
      /\ \A d \in Depths' : stack'[d].frame # NULL => stack'[d].frame \notin InFreelist'
  <2>1. SUFFICES ASSUME NEW d \in Depths', stack'[d].frame # NULL
                 PROVE  stack'[d].frame \in heap' /\ stack'[d].frame \notin InFreelist'
    BY DEF StackFrames, Depths
  <2>2. CASE d \in 1..n
    <3>1. stack'[d].frame \in PrefixFrames(n)
      BY <1>3, <2>1, <2>2 DEF PrefixFrames
    <3>. QED  BY <1>4, <3>1 DEF LeavesAlone, InvWith, TypeOK
  <2>3. CASE d = n + 1
    BY <2>1, <2>3 DEF Starts, Outlive
  <2>. QED  BY <1>2, <2>2, <2>3
<1>6. TypeOK'
  <2>1. heap' \subseteq Frame /\ Global \in heap' /\ retained' \subseteq heap'
    BY DEF LeavesAlone, InvWith, TypeOK
  <2>2. refs' \subseteq heap' /\ leaked' \subseteq heap'
    BY DEF Outlive
  <2>. QED  BY <1>5, <2>1, <2>2 DEF TypeOK, LeavesAlone, Keeps, WipesUnused
<1>7. ASSUME NEW d \in 1..n, n + 1 \in Depths', stack'[n + 1].frame = stack[d].frame,
             stack[d].frame # NULL
      PROVE  stack'[n + 1].kind = "eval" /\ stack[d].frame \in J
  BY <1>7 DEF Starts, PrefixFrames
<1>8. FramesApart'
  <2>1. ASSUME NEW f \in Frame, NEW c \in Depths', NEW d \in Depths',
               Owns(stack'[c], f), Owns(stack'[d], f)
        PROVE  c = d
    <3>1. f # NULL
      BY FrameAssumption
    <3>2. CASE c \in 1..n /\ d \in 1..n
      BY <1>3, <2>1, <3>2 DEF InvWith, FramesApart
    <3>3. CASE c \in 1..n /\ d = n + 1
      BY <1>3, <1>7, <2>1, <3>1, <3>3 DEF Owns
    <3>4. CASE d \in 1..n /\ c = n + 1
      BY <1>3, <1>7, <2>1, <3>1, <3>4 DEF Owns
    <3>. QED  BY <1>2, <3>2, <3>3, <3>4
  <2>2. StackFrames' \intersect InFreelist' = {}
    BY <1>5 DEF StackFrames, Depths
  <2>. QED  BY <2>1, <2>2 DEF FramesApart, LeavesAlone
<1>9. Marks(J)'
  BY DEF InvWith, Marks, LeavesAlone, Outlive
<1>10. ASSUME NEW d \in Depths'
       PROVE
    /\ stack'[d].kind = "bind" => stack'[d].frame # NULL
    /\ stack'[d].frame # NULL =>
         /\ stack'[d].kind # "eval" /\ stack'[d].frame \in J => stack'[d].frame \in retained
         /\ \/ parent'[stack'[d].frame] \in J \union {NULL}
            \/ \E c \in 1..(d - 1) : stack'[c].frame = parent'[stack'[d].frame]
         /\ \A c \in Depths' \ {d} : stack'[c].frame = stack'[d].frame => stack'[d].frame \in J
  <2>1. CASE d \in 1..n
    <3>1. stack[d].frame # NULL => stack[d].frame \in PrefixFrames(n)
      BY <2>1 DEF PrefixFrames
    <3>2. stack[d].frame # NULL => parent'[stack[d].frame] = parent[stack[d].frame]
      BY <3>1 DEF LeavesAlone
    <3>3. \A c \in 1..(d - 1) : c \in 1..n /\ stack'[c] = stack[c]
      BY <1>3, <2>1
    <3>4. d \in Depths /\ stack'[d] = stack[d]
      BY <1>3, <2>1
    <3>5. stack[d].frame # NULL =>
             /\ stack[d].kind # "eval" /\ stack[d].frame \in J => stack[d].frame \in retained
             /\ \/ parent'[stack[d].frame] \in J \union {NULL}
                \/ \E c \in 1..(d - 1) : stack'[c].frame = parent'[stack[d].frame]
      BY <3>1, <3>2, <3>3, <3>4 DEF InvWith, Activations, Outlive
    <3>6. ASSUME stack[d].frame # NULL, NEW c \in Depths' \ {d}, stack'[c].frame = stack[d].frame
          PROVE  stack[d].frame \in J
      <4>1. CASE c \in 1..n
        BY <1>3, <3>4, <3>6, <4>1 DEF InvWith, Activations, Outlive
      <4>2. CASE c = n + 1
        BY <1>7, <2>1, <3>6, <4>2
      <4>. QED  BY <1>2, <4>1, <4>2
    <3>7. stack[d].kind = "bind" => stack[d].frame # NULL
      BY <3>4 DEF InvWith, Activations
    <3>. QED  BY <3>4, <3>5, <3>6, <3>7
  <2>2. CASE d = n + 1
    <3>1. \A c \in Depths' \ {d} : c \in 1..n /\ stack'[c] = stack[c]
      BY <1>2, <1>3, <2>2
    <3>2. d - 1 = n /\ \A c \in 1..n : stack'[c] = stack[c]
      BY <1>3, <2>2
    <3>3. Starts(stack'[d], n, J)
      BY <2>2
    <3>4. stack'[d].kind = "bind" => stack'[d].frame # NULL
      BY <1>6, <3>3, FrameAssumption DEF Starts, TypeOK
    <3>5. stack'[d].kind # "eval" /\ stack'[d].frame # NULL => stack'[d].frame \notin J
      BY <3>3 DEF Starts
    <3>6. stack'[d].frame # NULL =>
             \/ parent'[stack'[d].frame] \in J \union {NULL}
             \/ \E c \in 1..(d - 1) : stack'[c].frame = parent'[stack'[d].frame]
      BY <3>2, <3>3 DEF Starts, Outlive
    <3>7. ASSUME stack'[d].frame # NULL, NEW c \in Depths' \ {d}, stack'[c].frame = stack'[d].frame
          PROVE  stack'[d].frame \in J
      BY <1>7, <2>2, <3>1, <3>7
    <3>. QED  BY <3>4, <3>5, <3>6, <3>7
  <2>. QED  BY <1>2, <2>1, <2>2
<1>11. Activations(J)'
  BY <1>10 DEF Activations, LeavesAlone, Depths
<1>12. Wiped(J)'
  BY DEF WipesUnused, Wiped
<1>13. J \subseteq heap' /\ J \in SUBSET Frame
  BY DEF Outlive, LeavesAlone
<1>14. InvWith(J)'
  BY <1>6, <1>8, <1>9, <1>11, <1>12, <1>13 DEF InvWith
<1>. QED  BY <1>13, <1>14 DEF Inv

\* Most steps leave K as it is.
LEMMA SameOutlive ==
  ASSUME NEW K, InvWith(K), NEW n, LeavesAlone(K \union PrefixFrames(n)),
         refs' \subseteq K, leaked' \subseteq heap
  PROVE  Outlive(K, K, n)
BY DEF InvWith, TypeOK, Marks, LeavesAlone, Outlive

-----------------------------------------------------------------------------
(* The actions of the evaluator.                                           *)

LEMMA Entering ==
  ASSUME NEW K, InvWith(K), NEW a \in Activation, Enter(a)
  PROVE  /\ Len(stack) \in Nat /\ Keeps(Len(stack)) /\ PrefixFrames(Len(stack)) = StackFrames
         /\ stack'[Len(stack) + 1] = a
         /\ refs' \subseteq K /\ leaked' \subseteq heap
<1>1. stack \in Seq(Activation) /\ stack' = Append(stack, a)
  BY DEF InvWith, TypeOK, Enter
<1>2. /\ Len(stack) \in Nat /\ stack' \in Seq(Activation) /\ Len(stack') = Len(stack) + 1
      /\ \A d \in 1..Len(stack) : stack'[d] = stack[d]
      /\ stack'[Len(stack) + 1] = a
  BY <1>1
<1>. QED  BY <1>2, AllPrefix DEF InvWith, TypeOK, Marks, Keeps, Enter

\* What every activation with a new frame has in common.
LEMMA FramedStep ==
  ASSUME NEW K, InvWith(K), NEW f \in Frame, NEW p \in heap, NewFrame(f, p),
         NEW a \in Activation, a.frame = f, Enter(a),
         p \in K \/ \E c \in 1..Len(stack) : stack[c].frame = p
  PROVE  Inv'
<1>1. /\ Len(stack) \in Nat /\ Keeps(Len(stack)) /\ PrefixFrames(Len(stack)) = StackFrames
      /\ stack'[Len(stack) + 1] = a /\ refs' \subseteq K /\ leaked' \subseteq heap
  BY Entering
<1>2. /\ LeavesAlone(K \union StackFrames)
      /\ f \in heap' /\ f \notin K \union StackFrames \union InFreelist'
      /\ parent'[f] = p /\ cleared' = {}
  BY NewFrameFresh
<1>3. Outlive(K, K, Len(stack))
  BY <1>1, <1>2, SameOutlive
<1>4. Starts(stack'[Len(stack) + 1], Len(stack), K) /\ WipesUnused(K)
  BY <1>1, <1>2 DEF Starts, WipesUnused
<1>. QED  BY <1>1, <1>2, <1>3, <1>4, EvaluatorStep

LEMMA CallClosureStep ==
  ASSUME NEW K, InvWith(K), NEW r \in refs, NEW f \in Frame, CallClosure(r, f)
  PROVE  Inv'
<1>. DEFINE a == [kind |-> "apply", frame |-> f, tail |-> FALSE]
<1>1. a \in Activation /\ a.frame = f
  BY DEF Activation
<1>2. Enter(a) /\ NewFrame(f, r) /\ r \in heap /\ r \in K
  BY DEF CallClosure, InvWith, TypeOK, Marks
<1>. HIDE DEF a
<1>. QED  BY <1>1, <1>2, FramedStep

\* The environment of the innermost activation, around the next one's frame.
LEMMA TopEnv ==
  ASSUME NEW K, InvWith(K), Env(Top) # NULL
  PROVE  /\ Env(Top) \in heap
         /\ Env(Top) \in K \/ \E c \in 1..Len(stack) : stack[c].frame = Env(Top)
<1>1. CASE stack = <<>>
  BY <1>1 DEF Top, Outermost, Env, InvWith, TypeOK, Marks
<1>2. CASE stack # <<>>
  <2>1. /\ Len(stack) \in Depths /\ Top = stack[Len(stack)] /\ Depths = 1..Len(stack)
        /\ Len(stack) \in Nat
    BY <1>2 DEF InvWith, TypeOK, Depths, Top
  <2>2. Env(Top) \in Envs
    BY <2>1 DEF Envs
  <2>3. Env(Top) \in K \union StackFrames
    BY <2>2, EnvLive
  <2>4. Env(Top) \in StackFrames => \E c \in 1..Len(stack) : stack[c].frame = Env(Top)
    BY <2>1 DEF StackFrames
  <2>. QED  BY <2>3, <2>4, LiveClosed
<1>. QED  BY <1>1, <1>2

LEMMA EnterFormStep ==
  ASSUME NEW K, InvWith(K), NEW f \in Frame, NEW tail \in BOOLEAN,
         EnterLet(f) \/ EnterDestructuring(f, tail)
  PROVE  Inv'
<1>1. PICK a \in Activation : a.frame = f /\ Enter(a)
  <2>1. CASE EnterLet(f)
    <3>. DEFINE a == [kind |-> "bind", frame |-> f, tail |-> FALSE]
    <3>1. a \in Activation /\ a.frame = f
      BY DEF Activation
    <3>2. Enter(a)
      BY <2>1 DEF EnterLet
    <3>. QED  BY <3>1, <3>2
  <2>2. CASE EnterDestructuring(f, tail)
    <3>. DEFINE a == [kind |-> "eval", frame |-> f, tail |-> tail]
    <3>1. a \in Activation /\ a.frame = f
      BY DEF Activation
    <3>2. Enter(a)
      BY <2>2 DEF EnterDestructuring
    <3>. QED  BY <3>1, <3>2
  <2>. QED  BY <2>1, <2>2
<1>2. Env(Top) # NULL /\ NewFrame(f, Env(Top))
  BY DEF EnterLet, EnterDestructuring
<1>. QED  BY <1>1, <1>2, TopEnv, FramedStep

\* The activations that begin without a frame of their own.
LEMMA FramelessStep ==
  ASSUME NEW K, InvWith(K), CallPrimitive \/ \E r \in refs : EnterEval(r)
  PROVE  Inv'
<1>1. PICK a \in Activation :
        /\ Enter(a)
        /\ \/ a.kind = "eval" /\ a.frame \in K
           \/ a.kind = "apply" /\ a.frame = NULL
  <2>1. CASE CallPrimitive
    <3>. DEFINE a == [kind |-> "apply", frame |-> NULL, tail |-> FALSE]
    <3>1. a \in Activation /\ a.kind = "apply" /\ a.frame = NULL
      BY DEF Activation
    <3>2. Enter(a)
      BY <2>1 DEF CallPrimitive
    <3>. QED  BY <3>1, <3>2
  <2>2. CASE \E r \in refs : EnterEval(r)
    <3>1. PICK r \in refs : EnterEval(r)
      BY <2>2
    <3>2. r \in Frame /\ r \in K
      BY DEF InvWith, TypeOK, Marks
    <3>. DEFINE a == [kind |-> "eval", frame |-> r, tail |-> TRUE]
    <3>3. a \in Activation /\ a.kind = "eval" /\ a.frame \in K
      BY <3>2 DEF Activation
    <3>4. Enter(a)
      BY <3>1 DEF EnterEval
    <3>. QED  BY <3>3, <3>4
  <2>. QED  BY <2>1, <2>2
<1>2. cleared' = {} /\ UNCHANGED <<heap, parent, retained, freelist>>
  BY DEF CallPrimitive, EnterEval
<1>3. /\ Len(stack) \in Nat /\ Keeps(Len(stack)) /\ PrefixFrames(Len(stack)) = StackFrames
      /\ stack'[Len(stack) + 1] = a /\ refs' \subseteq K /\ leaked' \subseteq heap
  BY <1>1, Entering
<1>4. LeavesAlone(K \union StackFrames)
  BY <1>2, NothingFreed
<1>5. Outlive(K, K, Len(stack))
  BY <1>3, <1>4, SameOutlive
<1>6. Starts(stack'[Len(stack) + 1], Len(stack), K) /\ WipesUnused(K)
  BY <1>1, <1>2, <1>3 DEF Starts, WipesUnused
<1>. QED  BY <1>3, <1>4, <1>5, <1>6, EvaluatorStep

LEMMA Jumping ==
  ASSUME NEW K, InvWith(K), NEW d, Escape(d), NEW f \in Frame \union {NULL}, JumpTo(d, f)
  PROVE  /\ d \in Depths /\ d - 1 \in Nat /\ Keeps(d - 1) /\ stack[d].kind # "eval"
         /\ stack' # <<>> /\ (d - 1) + 1 = d
         /\ Top' = [kind |-> "apply", frame |-> f, tail |-> FALSE] /\ stack'[d] = Top'
         /\ refs' \subseteq K /\ leaked' \subseteq heap
<1>. DEFINE a == [kind |-> "apply", frame |-> f, tail |-> FALSE]
<1>1. /\ stack \in Seq(Activation) /\ d \in 1..Len(stack) /\ Len(stack) \in Nat /\ a \in Activation
      /\ d \in Depths /\ stack[d].kind = "apply"
      /\ stack' = Append(SubSeq(stack, 1, d - 1), a)
  BY DEF InvWith, TypeOK, Depths, Escape, Activation, JumpTo
<1>. HIDE DEF a
<1>2. /\ SubSeq(stack, 1, d - 1) \in Seq(Activation) /\ Len(SubSeq(stack, 1, d - 1)) = d - 1
      /\ \A e \in 1..(d - 1) : SubSeq(stack, 1, d - 1)[e] = stack[e]
  BY <1>1
<1>3. /\ stack' \in Seq(Activation) /\ Len(stack') = d /\ stack'[d] = a /\ stack' # <<>>
      /\ \A e \in 1..(d - 1) : stack'[e] = stack[e]
  BY <1>1, <1>2
<1>4. Keeps(d - 1) /\ d - 1 \in Nat /\ (d - 1) + 1 = d
  BY <1>1, <1>3 DEF Keeps
<1>5. Top' = a
  BY <1>3 DEF Top
<1>6. refs' \subseteq K /\ leaked' \subseteq heap
  BY DEF JumpTo, InvWith, TypeOK, Marks
<1>. QED  BY <1>1, <1>3, <1>4, <1>5, <1>6 DEF a

LEMMA TailClosureStep ==
  ASSUME NEW K, InvWith(K), NEW r \in refs, NEW d \in Depths, NEW f \in Frame, TailClosure(r, d, f)
  PROVE  Inv'
<1>1. Escape(d) /\ JumpTo(d, f) /\ r \in heap /\ r \in K
  BY DEF TailClosure, InvWith, TypeOK, Marks
<1>2. /\ d - 1 \in Nat /\ Keeps(d - 1) /\ stack[d].kind # "eval"
      /\ stack' # <<>> /\ (d - 1) + 1 = d
      /\ Top' = [kind |-> "apply", frame |-> f, tail |-> FALSE] /\ stack'[d] = Top'
      /\ refs' \subseteq K /\ leaked' \subseteq heap
  BY <1>1, Jumping
<1>3. /\ LeavesAlone(K \union PrefixFrames(d - 1))
      /\ f \in heap' /\ f \notin K \union PrefixFrames(d - 1) \union InFreelist'
      /\ parent'[f] = r /\ cleared' \subseteq {f}
  <2>1. CASE stack[d].frame = NULL
    <3>1. PrefixFrames(d - 1) \subseteq StackFrames
      BY <1>2, AllPrefix DEF InvWith, Keeps
    <3>2. NewFrame(f, r)
      BY <2>1 DEF TailClosure
    <3>. QED  BY <1>1, <3>1, <3>2, NewFrameFresh DEF LeavesAlone
  <2>2. CASE stack[d].frame # NULL
    <3>1. MaybeReuse(stack[d].frame, f, r)
      BY <2>2 DEF TailClosure
    <3>. QED  BY <1>1, <1>2, <2>2, <3>1, ReuseKeeps
  <2>. QED  BY <2>1, <2>2
<1>4. Outlive(K, K, d - 1)
  BY <1>2, <1>3, SameOutlive
<1>5. Starts(stack'[d], d - 1, K)
  BY <1>1, <1>2, <1>3 DEF Starts
<1>6. WipesUnused(K)
  BY <1>2, <1>3 DEF WipesUnused, Owns
<1>. QED  BY <1>2, <1>3, <1>4, <1>5, <1>6, EvaluatorStep

LEMMA TailPrimitiveStep ==
  ASSUME NEW K, InvWith(K), NEW d \in Depths, TailPrimitive(d)
  PROVE  Inv'
<1>1. Escape(d) /\ JumpTo(d, NULL) /\ Free(stack[d].frame)
  BY DEF TailPrimitive
<1>2. /\ d - 1 \in Nat /\ Keeps(d - 1) /\ stack[d].kind # "eval" /\ (d - 1) + 1 = d
      /\ Top' = [kind |-> "apply", frame |-> NULL, tail |-> FALSE] /\ stack'[d] = Top'
      /\ refs' \subseteq K /\ leaked' \subseteq heap
  BY <1>1, Jumping
<1>3. /\ LeavesAlone(K \union PrefixFrames(d - 1))
      /\ cleared' \subseteq heap' /\ cleared' \subseteq InFreelist'
      /\ cleared' \intersect K = {}
  BY <1>1, <1>2, FreeKeeps
<1>4. Outlive(K, K, d - 1)
  BY <1>2, <1>3, SameOutlive
<1>5. Starts(stack'[d], d - 1, K) /\ WipesUnused(K)
  BY <1>2, <1>3 DEF Starts, WipesUnused
<1>. QED  BY <1>2, <1>3, <1>4, <1>5, EvaluatorStep

\* The stack is cut.
LEMMA Cutting ==
  ASSUME NEW K, InvWith(K), NEW n \in 0..Len(stack), stack' = SubSeq(stack, 1, n)
  PROVE  Keeps(n) /\ n + 1 \notin Depths' /\ n \in Nat
<1>1. stack \in Seq(Activation) /\ Len(stack) \in Nat
  BY DEF InvWith, TypeOK
<1>2. /\ stack' \in Seq(Activation) /\ Len(stack') = n /\ n + 1 \notin DOMAIN stack'
      /\ \A d \in 1..n : stack'[d] = stack[d]
  BY <1>1
<1>. QED  BY <1>1, <1>2 DEF Keeps, Depths

LEMMA ReturnStep ==
  ASSUME NEW K, InvWith(K), Return
  PROVE  Inv'
<1>. DEFINE n == Len(stack) - 1
<1>1. /\ n \in 0..Len(stack) /\ Len(stack) \in Depths /\ Top = stack[Len(stack)]
      /\ Len(stack) - 1 = n /\ PrefixFrames(n) \subseteq StackFrames
  BY AllPrefix DEF Return, InvWith, TypeOK, Depths, Top
<1>2. Keeps(n) /\ n + 1 \notin Depths' /\ n \in Nat
  BY <1>1, Cutting DEF Return
<1>3. /\ LeavesAlone(K \union PrefixFrames(n))
      /\ cleared' \subseteq heap' /\ cleared' \subseteq InFreelist'
      /\ cleared' \intersect K = {}
  <2>1. CASE Top.kind = "eval"
    BY <1>1, <2>1, NothingFreed DEF Return, LeavesAlone
  <2>2. CASE Top.kind # "eval"
    BY <1>1, <2>2, FreeKeeps DEF Return
  <2>. QED  BY <2>1, <2>2
<1>4. refs' \subseteq K /\ leaked' \subseteq heap
  BY DEF Return, InvWith, TypeOK, Marks
<1>5. Outlive(K, K, n) /\ WipesUnused(K)
  BY <1>3, <1>4, SameOutlive DEF WipesUnused
<1>. QED  BY <1>2, <1>3, <1>5, EvaluatorStep

LEMMA ThrowStep ==
  ASSUME NEW K, InvWith(K), NEW d \in 0..(Len(stack) - 1), Throw(d)
  PROVE  Inv'
<1>1. d \in 0..Len(stack) /\ PrefixFrames(d) \subseteq StackFrames
  BY AllPrefix DEF InvWith, TypeOK
<1>2. Keeps(d) /\ d + 1 \notin Depths' /\ d \in Nat
  BY <1>1, Cutting DEF Throw
<1>3. LeavesAlone(K \union PrefixFrames(d))
  BY <1>1, NothingFreed DEF Throw, LeavesAlone
<1>4. refs' \subseteq K /\ leaked' \subseteq heap /\ WipesUnused(K)
  BY DEF Throw, WipesUnused, InvWith, TypeOK, Marks
<1>5. Outlive(K, K, d)
  BY <1>3, <1>4, SameOutlive
<1>. QED  BY <1>2, <1>3, <1>4, <1>5, EvaluatorStep

\* The steps that leave the stack alone keep all of it.
LEMMA Staying ==
  ASSUME NEW K, InvWith(K), stack' = stack
  PROVE  /\ Len(stack) \in Nat /\ Keeps(Len(stack)) /\ Len(stack) + 1 \notin Depths'
         /\ PrefixFrames(Len(stack)) = StackFrames
BY AllPrefix DEF InvWith, TypeOK, Keeps, Depths

\* A made environment outlives every activation without a mark.
LEMMA MakeEnvironmentStep ==
  ASSUME NEW K, InvWith(K), NEW f \in Frame, NEW p \in refs \union {NULL}, MakeEnvironment(f, p)
  PROVE  Inv'
<1>1. /\ Len(stack) \in Nat /\ Keeps(Len(stack)) /\ Len(stack) + 1 \notin Depths'
      /\ PrefixFrames(Len(stack)) = StackFrames
  BY Staying DEF MakeEnvironment
<1>2. p \in heap \union {NULL} /\ p \in K \union {NULL} /\ NewFrame(f, p)
  BY DEF MakeEnvironment, InvWith, TypeOK, Marks
<1>3. /\ LeavesAlone(K \union StackFrames)
      /\ f \in heap' /\ f \notin K \union StackFrames \union InFreelist'
      /\ parent'[f] = p /\ cleared' = {}
  BY <1>2, NewFrameFresh
<1>4. refs' \subseteq K \union {f} /\ leaked' \subseteq heap
  BY DEF MakeEnvironment, InvWith, TypeOK, Marks
<1>5. Outlive(K, K \union {f}, Len(stack))
  BY <1>1, <1>2, <1>3, <1>4 DEF Outlive, LeavesAlone, InvWith, Marks
<1>6. WipesUnused(K \union {f})
  BY <1>3 DEF WipesUnused
<1>. QED  BY <1>1, <1>3, <1>5, <1>6, EvaluatorStep

\* Objects that come and go, but are not marked.
LEMMA ObjectStep ==
  ASSUME NEW K, InvWith(K), (\E f \in Envs : Leak(f)) \/ (\E r \in Frame : Drop(r))
  PROVE  Inv'
<1>1. \A f \in Envs : f # NULL => f \in heap
  BY EnvLive, LiveClosed
<1>2. /\ cleared' = {} /\ UNCHANGED <<heap, parent, retained, freelist, stack>>
      /\ refs' \subseteq refs /\ leaked' \subseteq heap
  BY <1>1 DEF Leak, Drop, InvWith, TypeOK
<1>3. /\ Len(stack) \in Nat /\ Keeps(Len(stack)) /\ Len(stack) + 1 \notin Depths'
      /\ PrefixFrames(Len(stack)) = StackFrames
  BY <1>2, Staying
<1>4. LeavesAlone(K \union StackFrames)
  BY <1>2, NothingFreed
<1>5. Outlive(K, K, Len(stack)) /\ WipesUnused(K)
  BY <1>2, <1>3, <1>4, SameOutlive DEF WipesUnused, InvWith, Marks
<1>. QED  BY <1>3, <1>4, <1>5, EvaluatorStep

\* A let that comes to its body keeps its frame.
LEMMA LetBodyStep ==
  ASSUME NEW K \in SUBSET Frame, InvWith(K), NEW tail \in BOOLEAN, LetBody(tail)
  PROVE  Inv'
<1>1. /\ stack \in Seq(Activation) /\ Len(stack) \in Nat /\ Len(stack) \in Depths
      /\ Depths = 1..Len(stack) /\ Top = stack[Len(stack)] /\ Top.kind = "bind"
      /\ Top \in Activation
  <2>1. stack # <<>>
    BY DEF LetBody, Top, Outermost
  <2>. QED  BY <2>1 DEF LetBody, InvWith, TypeOK, Depths, Top
<1>. DEFINE a == [Top EXCEPT !.kind = "let", !.tail = tail]
<1>2. a \in Activation /\ a.frame = Top.frame /\ a.kind = "let"
  BY <1>1 DEF Activation
<1>3. stack' = [stack EXCEPT ![Len(stack)] = a]
  BY <1>1 DEF LetBody
<1>. HIDE DEF a
<1>4. /\ stack' \in Seq(Activation) /\ Depths' = Depths /\ Len(stack') = Len(stack)
      /\ stack'[Len(stack)] = a
      /\ \A d \in Depths : d # Len(stack) => stack'[d] = stack[d]
  BY <1>1, <1>2, <1>3 DEF Depths
<1>5. \A d \in Depths : /\ stack'[d].frame = stack[d].frame
                        /\ stack'[d].kind = "eval" <=> stack[d].kind = "eval"
                        /\ stack'[d].kind = "bind" => stack[d].kind = "bind"
  BY <1>1, <1>2, <1>4
<1>6. cleared' = {} /\ UNCHANGED <<heap, parent, retained, freelist, refs, leaked>>
  BY DEF LetBody
<1>7. InFreelist' = InFreelist /\ StackFrames' = StackFrames
  BY <1>4, <1>5, <1>6 DEF InFreelist, StackFrames
<1>8. TypeOK'
  BY <1>4, <1>6, <1>7 DEF InvWith, TypeOK
<1>9. FramesApart'
  BY <1>4, <1>5, <1>6, <1>7 DEF InvWith, FramesApart, Owns
<1>10. Marks(K)'
  BY <1>6, <1>7 DEF InvWith, Marks
<1>11. \A d \in Depths : \A c \in 1..(d - 1) : c \in Depths
  BY <1>1
<1>12. Activations(K)'
  BY <1>4, <1>5, <1>6, <1>11 DEF InvWith, Activations
<1>13. Wiped(K)'
  BY <1>6 DEF Wiped
<1>14. InvWith(K)'
  BY <1>6, <1>8, <1>9, <1>10, <1>12, <1>13 DEF InvWith
<1>. QED  BY <1>14 DEF Inv

-----------------------------------------------------------------------------
(* Marking, the collector, and the theorems.                               *)

LEMMA ReifyStep ==
  ASSUME NEW K \in SUBSET Frame, InvWith(K), NEW f \in Envs, Reify(f)
  PROVE  Inv'
<1>0. PICK M : M = Marked(f)
  OBVIOUS
<1>. DEFINE L == K \union StackFrames
<1>1. ParentClosed(L) /\ L \subseteq heap /\ heap \subseteq Frame /\ f \in L
  BY LiveClosed, EnvLive DEF InvWith, TypeOK, Reify
<1>2. M \subseteq L
  <2>1. L \in SUBSET Frame /\ \A h \in L : parent[h] \in L \union retained \union {NULL}
    BY <1>1 DEF ParentClosed
  <2>. QED  BY <1>0, <1>1, <2>1 DEF Marked
<1>3. ASSUME NEW g \in M
      PROVE  parent[g] \in M \union retained \union {NULL}
  <2>1. SUFFICES ASSUME parent[g] \notin retained \union {NULL}
                 PROVE  parent[g] \in M
    OBVIOUS
  <2>2. f \notin retained /\ g \in Frame
    BY <1>0, <1>3 DEF Marked
  <2>3. parent[g] \in Frame
    BY <2>1, <2>2 DEF InvWith, TypeOK
  <2>4. ASSUME NEW S \in SUBSET Frame, f \in S,
               \A h \in S : parent[h] \in S \union retained \union {NULL}
        PROVE  parent[g] \in S
    <3>1. g \in S
      BY <1>0, <1>3, <2>2, <2>4 DEF Marked
    <3>. QED  BY <2>1, <2>4, <3>1
  <2>. QED  BY <1>0, <2>2, <2>3, <2>4 DEF Marked
<1>4. f \in M \union retained
  BY <1>0, <1>1 DEF Marked
<1>5. /\ refs' = refs \union {f} /\ retained' = retained \union M
      /\ cleared' = {} /\ UNCHANGED <<heap, parent, freelist, stack, leaked>>
  BY <1>0 DEF Reify
<1>6. /\ Depths' = Depths /\ StackFrames' = StackFrames /\ InFreelist' = InFreelist
  BY <1>5 DEF Depths, StackFrames, InFreelist
<1>7. L \intersect InFreelist = {}
  BY DEF InvWith, FramesApart, Marks
<1>. HIDE DEF L
<1>8. M \subseteq heap /\ M \intersect InFreelist = {}
  BY <1>1, <1>2, <1>7
<1>9. TypeOK'
  BY <1>1, <1>5, <1>6, <1>8 DEF InvWith, TypeOK
<1>10. FramesApart'
  BY <1>5, <1>6 DEF InvWith, FramesApart
<1>11. Marks(K \union M)'
  BY <1>3, <1>4, <1>5, <1>6, <1>8 DEF InvWith, Marks
<1>12. Activations(K \union M)'
  BY <1>5, <1>6 DEF InvWith, Activations
<1>13. Wiped(K \union M)'
  BY <1>5 DEF Wiped
<1>14. InvWith(K \union M)'
  BY <1>5, <1>8, <1>9, <1>10, <1>11, <1>12, <1>13 DEF InvWith
<1>15. K \union M \in SUBSET Frame
  BY <1>1, <1>8
<1>. QED  BY <1>14, <1>15 DEF Inv

LEMMA CollectStep ==
  ASSUME NEW K \in SUBSET Frame, InvWith(K), Collect
  PROVE  Inv'
<1>1. PICK S \in SUBSET heap :
        /\ {Global} \union refs \union leaked \union StackFrames \union InFreelist \subseteq S
        /\ ParentClosed(S)
        /\ heap' = S
        /\ parent' = [f \in Frame |-> IF f \in S THEN parent[f] ELSE NULL]
        /\ retained' = retained \intersect S
        /\ cleared' = {} /\ UNCHANGED <<freelist, stack, refs, leaked>>
  BY DEF Collect
<1>2. /\ Depths' = Depths /\ StackFrames' = StackFrames /\ InFreelist' = InFreelist
  BY <1>1 DEF Depths, StackFrames, InFreelist
<1>3. \A f \in S : f \in Frame /\ parent'[f] = parent[f] /\ parent[f] \in S \union {NULL}
  BY <1>1 DEF InvWith, TypeOK, ParentClosed
<1>4. freelist' \in Seq(S)
  BY <1>1 DEF InvWith, TypeOK, InFreelist
<1>5. parent' \in [Frame -> S \union {NULL}]
  BY <1>1, <1>3
<1>6. TypeOK'
  BY <1>1, <1>2, <1>4, <1>5 DEF InvWith, TypeOK
<1>7. FramesApart'
  BY <1>1, <1>2 DEF InvWith, FramesApart
<1>8. Marks(K \intersect S)'
  BY <1>1, <1>2, <1>3 DEF InvWith, Marks
<1>9. ASSUME NEW d \in Depths, stack[d].frame # NULL
      PROVE
        /\ stack[d].kind # "eval" /\ stack[d].frame \in K \intersect S => stack[d].frame \in retained'
        /\ \/ parent'[stack[d].frame] \in (K \intersect S) \union {NULL}
           \/ \E c \in 1..(d - 1) : stack[c].frame = parent'[stack[d].frame]
        /\ \A c \in Depths \ {d} : stack[c].frame = stack[d].frame => stack[d].frame \in K \intersect S
  <2>1. stack[d].frame \in S
    BY <1>1, <1>9 DEF StackFrames
  <2>2. /\ parent'[stack[d].frame] = parent[stack[d].frame]
        /\ parent[stack[d].frame] \in S \union {NULL}
    BY <1>3, <2>1
  <2>. QED  BY <1>1, <1>9, <2>1, <2>2 DEF InvWith, Activations
<1>10. Activations(K \intersect S)'
  BY <1>1, <1>2, <1>9 DEF InvWith, Activations
<1>11. Wiped(K \intersect S)'
  BY <1>1 DEF Wiped
<1>12. InvWith(K \intersect S)'
  BY <1>1, <1>6, <1>7, <1>8, <1>10, <1>11 DEF InvWith
<1>13. K \intersect S \in SUBSET Frame
  OBVIOUS
<1>. QED  BY <1>12, <1>13 DEF Inv

LEMMA StutterStep ==
  ASSUME NEW K \in SUBSET Frame, InvWith(K), UNCHANGED vars
  PROVE  Inv'
<1>1. UNCHANGED <<heap, parent, retained, freelist, cleared, stack, refs, leaked>>
  BY DEF vars, memory
<1>2. /\ Depths' = Depths /\ StackFrames' = StackFrames /\ InFreelist' = InFreelist
      /\ Top' = Top
  BY <1>1 DEF Depths, StackFrames, InFreelist, Top
<1>3. TypeOK' /\ FramesApart'
  BY <1>1, <1>2 DEF InvWith, TypeOK, FramesApart
<1>4. Marks(K)' /\ Activations(K)'
  BY <1>1, <1>2 DEF InvWith, Marks, Activations
<1>5. Wiped(K)'
  BY <1>1, <1>2 DEF InvWith, Wiped
<1>6. InvWith(K)'
  BY <1>1, <1>3, <1>4, <1>5 DEF InvWith
<1>. QED  BY <1>6 DEF Inv

LEMMA InvStep == Inv /\ [Next]_vars => Inv'
<1>. SUFFICES ASSUME NEW K \in SUBSET Frame, InvWith(K), [Next]_vars
              PROVE  Inv'
  BY DEF Inv
<1>1. CASE \E r \in refs, f \in Frame : CallClosure(r, f)
  BY <1>1, CallClosureStep
<1>2. CASE CallPrimitive \/ \E r \in refs : EnterEval(r)
  BY <1>2, FramelessStep
<1>3. CASE \/ \E f \in Frame : EnterLet(f)
           \/ \E f \in Frame, tail \in BOOLEAN : EnterDestructuring(f, tail)
  BY <1>3, EnterFormStep
<1>4. CASE \E tail \in BOOLEAN : LetBody(tail)
  BY <1>4, LetBodyStep
<1>5. CASE \E f \in Frame, p \in refs \union {NULL} : MakeEnvironment(f, p)
  BY <1>5, MakeEnvironmentStep
<1>6. CASE \E r \in refs, d \in Depths, f \in Frame : TailClosure(r, d, f)
  BY <1>6, TailClosureStep
<1>7. CASE \E d \in Depths : TailPrimitive(d)
  BY <1>7, TailPrimitiveStep
<1>8. CASE Return
  BY <1>8, ReturnStep
<1>9. CASE \E d \in 0..(Len(stack) - 1) : Throw(d)
  BY <1>9, ThrowStep
<1>10. CASE \E f \in Envs : Reify(f)
  BY <1>10, ReifyStep
<1>11. CASE (\E f \in Envs : Leak(f)) \/ (\E r \in Frame : Drop(r))
  BY <1>11, ObjectStep
<1>12. CASE Collect
  BY <1>12, CollectStep
<1>13. CASE UNCHANGED vars
  BY <1>13, StutterStep
<1>. QED
  BY <1>1, <1>2, <1>3, <1>4, <1>5, <1>6, <1>7, <1>8, <1>9, <1>10, <1>11, <1>12, <1>13 DEF Next

LEMMA Invariance == Spec => []Inv
BY InitInv, InvStep, PTL DEF Spec

\* What a thread can reach is allocated, and its freelist is as short as
\* free_environment keeps it.
THEOREM TypeCorrect == Spec => []TypeOK
<1>1. Inv => TypeOK
  BY DEF Inv, InvWith
<1>. QED  BY <1>1, Invariance, PTL

\* No frame is ever given to two activations, or to one while it waits for
\* reuse, by new_frame_impl, maybe_reuse_frame and free_environment.
THEOREM FramesStayApart == Spec => []FramesApart
<1>1. Inv => FramesApart
  BY DEF Inv, InvWith
<1>. QED  BY <1>1, Invariance, PTL

\* free_environment and maybe_reuse_frame never wipe a frame that a closure,
\* an environment object or another activation can still reach.
THEOREM NothingInUseCleared == Spec => []ClearedOutOfReach
BY InvCleared, Invariance, PTL

-----------------------------------------------------------------------------
(* The scratch pad.  Arguments and values are where they were put until    *)
(* they are taken: what an activation was given as long as its arguments   *)
(* are not exposed, what a cleanup has put aside, what is being thrown.    *)

Cell == {Junk, Blank} \union (Nat \X Nat)
Pad == [1..SCRATCH_PAD_SIZE -> Cell \union {END}]
List == Seq(Cell)

HeapRef == [in : {"heap"}, at : {0}, list : List]
Outside == HeapRef \union {One, None}

\* What waits; unwind-protect has put the values aside that were to be returned.
Called ==
  [is : {"activation"}, args : HeapRef \union {InPad(1)}, given : List, reuse : BOOLEAN,
   traced : BOOLEAN, exposed : BOOLEAN, bound : List]
Cleanup ==
  {f \in [is : {"cleanup"}, list : List, yielded : List, astray : BOOLEAN] :
     ~f.astray => f.list = f.yielded}
Plain ==
  [is : {"arguments"}, list : List, of : Nat]
    \union [is : {"catch", "protect"}, pad : Pad]
    \union [is : {"throw", "get", "keep"}, pad : {<<>>}]
Waiting ==
  Called \union Plain \union Cleanup \union [is : {"default"}, pad : {<<>>}]
    \union [is : {"unwound"}]
Thrown == [value : Cell, yielded : List, astray : BOOLEAN, values : Outside]

PadTypes ==
  /\ waiting \in Seq(Waiting)
  /\ doing \in {"eval", "apply", "enter", "dispatch", "bind", "body", "return", "unwind"}
  /\ pad \in Pad
  /\ values \in Outside \union {InPad(1), InPad(2)} /\ result \in Cell
  /\ throwing \in Thrown
  /\ yielded \in List /\ astray \in BOOLEAN

\* An activation whose first argument is bound, and which was given the others.
FirstBound(f) ==
  f.args.in = "heap" => /\ f.args.list # <<>>
                        /\ ~f.exposed => f.bound \o Tail(f.args.list) = f.given

\* A default is evaluated for an activation, and a cleanup during an unwinding
\* goes on to a catch; there is one unwinding at a time.
Ordered(s) ==
  /\ \A i \in DOMAIN s :
       /\ s[i].is = "default" => i > 1 /\ s[i - 1].is = "activation" /\ FirstBound(s[i - 1])
       /\ s[i].is = "unwound" => \E j \in DOMAIN s : j < i /\ s[j].is = "catch"
  /\ \A i, j \in DOMAIN s : s[i].is = "unwound" /\ s[j].is = "unwound" => i = j

Unwinds(s) == \E i \in DOMAIN s : s[i].is = "unwound"
Catches(s) == \E i \in DOMAIN s : s[i].is = "catch"

\* What the thread is about to do is to what waits for it.
AtHand ==
  /\ doing = "apply" =>
       waiting # <<>> /\ Latest.is = "arguments" /\ Len(Latest.list) = Latest.of
  /\ doing \in {"enter", "dispatch", "bind", "body"} => waiting # <<>> /\ Latest.is = "activation"
  /\ doing = "unwind" => Catches(waiting) /\ ~Unwinds(waiting)

\* Until they are bound, arguments are where they were put.
GivenThere ==
  doing \in {"enter", "dispatch", "bind"} /\ ~Latest.exposed => Content(Latest.args) = Latest.given

\* What is thrown are the values that were to be.
ThrownValues ==
  CASE throwing.values = None -> <<>>
    [] throwing.values = One -> <<throwing.value>>
    [] OTHER -> <<throwing.value>> \o throwing.values.list
ThrownRight ==
  (doing = "unwind" \/ Unwinds(waiting)) /\ ~throwing.astray => ThrownValues = throwing.yielded

PadInv ==
  /\ PadTypes /\ Ordered(waiting) /\ AtHand
  /\ GivenThere /\ ThrownRight /\ ArgumentsIntact /\ ValuesIntact

-----------------------------------------------------------------------------
(* What waits.                                                             *)

LEMMA FrontIs ==
  ASSUME NEW S, NEW s \in Seq(S), s # <<>>
  PROVE  /\ Len(s) \in Nat /\ Len(s) > 0 /\ Last(s) = s[Len(s)] /\ Last(s) \in S
         /\ Front(s) \in Seq(S) /\ Len(Front(s)) = Len(s) - 1
         /\ \A i \in 1..(Len(s) - 1) : Front(s)[i] = s[i]
<1>1. PICK n \in Nat : n = Len(s)
  OBVIOUS
<1>2. n > 0 /\ Last(s) = s[n] /\ s[n] \in S
  BY <1>1 DEF Last
<1>3. Front(s) = SubSeq(s, 1, n - 1) /\ n - 1 \in 0..n
  BY <1>1, <1>2 DEF Front
<1>4. Front(s) \in Seq(S) /\ Len(Front(s)) = n - 1
  BY <1>1, <1>2, <1>3
<1>5. \A i \in 1..(n - 1) : Front(s)[i] = s[i]
  BY <1>1, <1>2, <1>3
<1>. QED  BY <1>1, <1>2, <1>4, <1>5

LEMMA AppendIs ==
  ASSUME NEW S, NEW s \in Seq(S), NEW x \in S
  PROVE  /\ Append(s, x) \in Seq(S) /\ Append(s, x) # <<>>
         /\ DOMAIN Append(s, x) = 1..(Len(s) + 1) /\ DOMAIN s = 1..Len(s) /\ Len(s) \in Nat
         /\ \A i \in 1..Len(s) : Append(s, x)[i] = s[i]
         /\ Append(s, x)[Len(s) + 1] = x
         /\ Last(Append(s, x)) = x /\ Front(Append(s, x)) = s
<1>1. PICK n \in Nat : n = Len(s)
  OBVIOUS
<1>0. Append(s, x) \in Seq(S)
  OBVIOUS
<1>2. PICK t \in Seq(S) : t = Append(s, x)
  BY <1>0
<1>3. Len(t) = n + 1 /\ DOMAIN t = 1..(n + 1) /\ DOMAIN s = 1..n /\ t # <<>>
  BY <1>1, <1>2
<1>4. \A i \in 1..n : t[i] = s[i]
  BY <1>1, <1>2
<1>5. t[n + 1] = x
  BY <1>1, <1>2
<1>6. Last(t) = x /\ Front(t) \in Seq(S) /\ Len(Front(t)) = n /\ \A i \in 1..n : Front(t)[i] = t[i]
  BY <1>3, <1>5, FrontIs
<1>7. Front(t) = s
  BY <1>1, <1>4, <1>6
<1>. QED  BY <1>1, <1>2, <1>3, <1>4, <1>5, <1>6, <1>7

LEMMA Pushed ==
  ASSUME NEW s \in Seq(Waiting), Ordered(s), NEW f \in Called \union Plain \union Cleanup
  PROVE  /\ Append(s, f) \in Seq(Waiting) /\ Append(s, f) # <<>> /\ Ordered(Append(s, f))
         /\ Last(Append(s, f)) = f
         /\ Unwinds(Append(s, f)) => Unwinds(s)
<1>1. f \in Waiting /\ f.is \notin {"default", "unwound"}
  BY DEF Waiting, Called, Plain, Cleanup
<1>2. PICK n \in Nat : n = Len(s) /\ DOMAIN s = 1..n
  OBVIOUS
<1>3. PICK t \in Seq(Waiting) :
        /\ t = Append(s, f) /\ t # <<>> /\ DOMAIN t = 1..(n + 1) /\ Last(t) = f
        /\ \A i \in 1..n : t[i] = s[i]
        /\ t[n + 1] = f
  <2>1. /\ Append(s, f) \in Seq(Waiting) /\ Append(s, f) # <<>>
        /\ DOMAIN Append(s, f) = 1..(n + 1) /\ Last(Append(s, f)) = f
        /\ \A i \in 1..n : Append(s, f)[i] = s[i]
        /\ Append(s, f)[n + 1] = f
    BY ONLY <1>1, <1>2, AppendIs
  <2>. QED  BY <2>1
<1>4. Ordered(t)
  <2>1. ASSUME NEW i \in DOMAIN t, t[i].is = "default"
        PROVE  i > 1 /\ t[i - 1].is = "activation" /\ FirstBound(t[i - 1])
    <3>1. i \in 1..n /\ s[i].is = "default"
      BY <1>1, <1>3, <2>1
    <3>2. i > 1 /\ s[i - 1].is = "activation" /\ FirstBound(s[i - 1])
      BY <1>2, <3>1 DEF Ordered
    <3>3. i - 1 \in 1..n
      BY <3>1, <3>2
    <3>. QED  BY <1>3, <3>2, <3>3
  <2>2. ASSUME NEW i \in DOMAIN t, t[i].is = "unwound"
        PROVE  i \in 1..n /\ s[i].is = "unwound" /\ \E j \in DOMAIN t : j < i /\ t[j].is = "catch"
    <3>1. i \in 1..n /\ s[i].is = "unwound"
      BY <1>1, <1>3, <2>2
    <3>2. PICK j \in 1..n : j < i /\ s[j].is = "catch"
      BY <1>2, <3>1 DEF Ordered
    <3>. QED  BY <1>3, <3>1, <3>2
  <2>. QED  BY <1>2, <2>1, <2>2 DEF Ordered
<1>5. Unwinds(t) => Unwinds(s)
  BY <1>1, <1>2, <1>3 DEF Unwinds
<1>. QED  BY <1>3, <1>4, <1>5

LEMMA Popped ==
  ASSUME NEW s \in Seq(Waiting), Ordered(s), s # <<>>
  PROVE  /\ Front(s) \in Seq(Waiting) /\ Ordered(Front(s)) /\ Last(s) \in Waiting
         /\ Unwinds(Front(s)) => Unwinds(s)
         /\ Catches(s) /\ Last(s).is # "catch" => Catches(Front(s))
         /\ Last(s).is = "unwound" => Unwinds(s) /\ ~Unwinds(Front(s)) /\ Catches(Front(s))
         /\ Last(s).is = "default" => /\ Front(s) # <<>> /\ Last(Front(s)).is = "activation"
                                      /\ FirstBound(Last(Front(s)))
<1>1. PICK n \in Nat : n + 1 = Len(s) /\ DOMAIN s = 1..(n + 1)
  <2>1. Len(s) \in Nat /\ Len(s) > 0 /\ DOMAIN s = 1..Len(s)
    BY FrontIs
  <2>. WITNESS Len(s) - 1 \in Nat
  <2>. QED  BY <2>1
<1>2. PICK t \in Seq(Waiting) :
        /\ t = Front(s) /\ DOMAIN t = 1..n /\ Len(t) = n /\ \A i \in 1..n : t[i] = s[i]
  BY <1>1, FrontIs
<1>3. Last(s) = s[n + 1] /\ s[n + 1] \in Waiting
  BY <1>1, FrontIs
<1>4. Ordered(t)
  <2>1. ASSUME NEW i \in 1..n, t[i].is = "default"
        PROVE  i > 1 /\ t[i - 1].is = "activation" /\ FirstBound(t[i - 1])
    <3>0. i \in DOMAIN s /\ s[i].is = "default"
      BY <1>1, <1>2, <2>1
    <3>1. i > 1 /\ s[i - 1].is = "activation" /\ FirstBound(s[i - 1])
      BY <3>0 DEF Ordered
    <3>. QED  BY <1>2, <3>1
  <2>2. ASSUME NEW i \in 1..n, t[i].is = "unwound"
        PROVE  \E j \in 1..n : j < i /\ t[j].is = "catch"
    <3>0. i \in DOMAIN s /\ s[i].is = "unwound"
      BY <1>1, <1>2, <2>2
    <3>1. PICK j \in DOMAIN s : j < i /\ s[j].is = "catch"
      BY <3>0 DEF Ordered
    <3>2. j \in 1..n
      BY <1>1, <3>1
    <3>. QED  BY <1>2, <3>1, <3>2
  <2>3. ASSUME NEW i \in 1..n, NEW j \in 1..n, t[i].is = "unwound", t[j].is = "unwound"
        PROVE  i = j
    BY <1>1, <1>2, <2>3 DEF Ordered
  <2>. QED  BY <1>2, <2>1, <2>2, <2>3 DEF Ordered
<1>5. Unwinds(t) => Unwinds(s)
  BY <1>1, <1>2 DEF Unwinds
<1>6. Catches(s) /\ s[n + 1].is # "catch" => Catches(t)
  BY <1>1, <1>2 DEF Catches
<1>7. ASSUME s[n + 1].is = "unwound"
      PROVE  Unwinds(s) /\ ~Unwinds(t) /\ Catches(t)
  <2>1. Unwinds(s)
    BY <1>1, <1>7 DEF Unwinds
  <2>2. ~Unwinds(t)
    <3>1. ASSUME NEW i \in 1..n, t[i].is = "unwound"
          PROVE  FALSE
      <4>1. s[i].is = "unwound"
        BY <1>2, <3>1
      <4>2. i = n + 1
        BY <1>1, <1>7, <4>1 DEF Ordered
      <4>. QED  BY <4>2
    <3>. QED  BY <1>2, <3>1 DEF Unwinds
  <2>3. PICK j \in DOMAIN s : j < n + 1 /\ s[j].is = "catch"
    <3>1. n + 1 \in DOMAIN s
      BY <1>1
    <3>. QED  BY <1>7, <3>1 DEF Ordered
  <2>4. Catches(t)
    <3>1. j \in 1..n
      BY <1>1, <2>3
    <3>. QED  BY <1>2, <2>3, <3>1 DEF Catches
  <2>. QED  BY <2>1, <2>2, <2>4
<1>8. ASSUME s[n + 1].is = "default"
      PROVE  t # <<>> /\ Last(t).is = "activation" /\ FirstBound(Last(t))
  <2>1. n + 1 > 1 /\ s[n].is = "activation" /\ FirstBound(s[n])
    <3>1. n + 1 \in DOMAIN s /\ (n + 1) - 1 = n
      BY <1>1
    <3>. QED  BY <1>8, <3>1 DEF Ordered
  <2>2. t # <<>>
    BY <1>2, <2>1
  <2>3. Last(t) = t[n] /\ t[n] = s[n]
    <3>1. Last(t) = t[n]
      BY <1>2, <2>2, FrontIs
    <3>2. n \in 1..n
      BY <2>1
    <3>. QED  BY <1>2, <3>1, <3>2
  <2>. QED  BY <2>1, <2>2, <2>3
<1>. QED  BY <1>2, <1>3, <1>4, <1>5, <1>6, <1>7, <1>8

-----------------------------------------------------------------------------
(* Lists in the pad.                                                       *)

LEMMA LeastOf ==
  ASSUME NEW some \in SUBSET Nat, some # {}
  PROVE  \E i \in some : \A j \in some : i <= j
<1>1. OpToRel(<, Nat) = {ss \in Nat \X Nat : ss[1] < ss[2]}
  BY DEF OpToRel
<1>2. PICK k \in some : \A j \in some : ~(<<j, k>> \in OpToRel(<, Nat))
  BY NatLessThanWellFounded, WFMin, Zenon
<1>3. \A j \in some : k <= j
  <2>1. SUFFICES ASSUME NEW j \in some, ~(k <= j)
                 PROVE  FALSE
    OBVIOUS
  <2>2. j \in Nat /\ k \in Nat /\ j < k
    BY <2>1
  <2>3. <<j, k>> \in {ss \in Nat \X Nat : ss[1] < ss[2]}
    BY <2>2
  <2>. QED  BY <1>1, <1>2, <2>3
<1>. QED  BY <1>3

\* The list in a pad ends before the first END, or with the pad.
LEMMA CellsAre ==
  ASSUME PadAssumption, NEW p \in Pad, NEW at \in {1, 2}
  PROVE  \E n \in Nat :
           /\ n <= SCRATCH_PAD_SIZE /\ Cells(p, at) = SubSeq(p, at, n)
           /\ n = SCRATCH_PAD_SIZE \/ (n + 1 \in at..SCRATCH_PAD_SIZE /\ p[n + 1] = END)
           /\ \A i \in at..n : p[i] # END
<1>. DEFINE ends == {i \in at..SCRATCH_PAD_SIZE : p[i] = END}
            first == CHOOSE i \in ends : \A j \in ends : i <= j
<1>0. SCRATCH_PAD_SIZE \in Nat
  BY DEF PadAssumption
<1>1. CASE ends = {}
  <2>1. Cells(p, at) = SubSeq(p, at, SCRATCH_PAD_SIZE)
    BY <1>1 DEF Cells
  <2>2. \A i \in at..SCRATCH_PAD_SIZE : p[i] # END
    BY <1>1
  <2>. QED  BY <1>0, <2>1, <2>2
<1>2. CASE ends # {}
  <2>1. Cells(p, at) = SubSeq(p, at, first - 1)
    BY <1>2 DEF Cells
  <2>2. ends \in SUBSET Nat
    BY <1>0
  <2>3. \E i \in ends : \A j \in ends : i <= j
    BY <1>2, <2>2, LeastOf
  <2>4. first \in ends /\ \A j \in ends : first <= j
    BY <2>3
  <2>5. PICK f \in ends : f = first /\ \A j \in ends : f <= j
    BY <2>4
  <2>6. f \in at..SCRATCH_PAD_SIZE /\ p[f] = END
    BY <2>5
  <2>7. f - 1 \in Nat /\ (f - 1) + 1 = f /\ f - 1 <= SCRATCH_PAD_SIZE
    BY <1>0, <2>6
  <2>8. \A i \in at..(f - 1) : p[i] # END
    <3>1. SUFFICES ASSUME NEW i \in at..(f - 1), p[i] = END
                   PROVE  FALSE
      OBVIOUS
    <3>2. i \in at..SCRATCH_PAD_SIZE /\ i < f
      BY <1>0, <2>6, <3>1
    <3>3. i \in ends
      BY <3>1, <3>2
    <3>4. f <= i
      BY <2>5, <3>3
    <3>. QED  BY <2>6, <3>2, <3>4
  <2>. QED  BY <2>1, <2>5, <2>6, <2>7, <2>8
<1>. QED  BY <1>1, <1>2

LEMMA PadCells ==
  ASSUME PadAssumption, NEW p \in Pad, NEW at \in {1, 2}, NEW n \in Nat, n <= SCRATCH_PAD_SIZE,
         \A i \in at..n : p[i] # END
  PROVE  /\ SubSeq(p, at, n) \in List
         /\ Len(SubSeq(p, at, n)) = IF at <= n THEN (n - at) + 1 ELSE 0
         /\ \A i \in 1..((n - at) + 1) : SubSeq(p, at, n)[i] = p[at + i - 1]
<1>1. SCRATCH_PAD_SIZE \in Nat
  BY DEF PadAssumption
<1>2. PICK m \in Nat : m = IF at <= n THEN (n - at) + 1 ELSE 0
  <2>1. (IF at <= n THEN (n - at) + 1 ELSE 0) \in Nat
    OBVIOUS
  <2>. QED  BY <2>1
<1>3. 1..((n - at) + 1) = 1..m
  BY <1>2
<1>4. /\ SubSeq(p, at, n) = [i \in 1..m |-> p[at + i - 1]]
      /\ \A i \in 1..m : p[at + i - 1] \in Cell
  <2>1. SubSeq(p, at, n) = [i \in 1..((n - at) + 1) |-> p[at + i - 1]]
    BY <1>1 DEF SubSeq
  <2>2. ASSUME NEW i \in 1..m
        PROVE  p[at + i - 1] \in Cell
    <3>1. at + i - 1 \in at..n /\ at + i - 1 \in 1..SCRATCH_PAD_SIZE
      BY <1>1, <1>2
    <3>2. p[at + i - 1] \in Cell \union {END} /\ p[at + i - 1] # END
      BY <3>1 DEF Pad
    <3>. QED  BY <3>2
  <2>. QED  BY <1>3, <2>1, <2>2
<1>5. PICK f : f = SubSeq(p, at, n)
  OBVIOUS
<1>6. f = [i \in 1..m |-> p[at + i - 1]] /\ f \in [1..m -> Cell]
  BY <1>4, <1>5
<1>7. f \in Seq(Cell) /\ Len(f) = m
  BY <1>6
<1>8. \A i \in 1..m : f[i] = p[at + i - 1]
  BY <1>6
<1>. QED  BY <1>2, <1>3, <1>5, <1>7, <1>8 DEF List

LEMMA CellsList ==
  ASSUME PadAssumption, NEW p \in Pad, NEW at \in {1, 2}
  PROVE  Cells(p, at) \in List
<1>1. PICK n \in Nat : /\ n <= SCRATCH_PAD_SIZE /\ Cells(p, at) = SubSeq(p, at, n)
                       /\ \A i \in at..n : p[i] # END
  BY CellsAre
<1>. QED  BY <1>1, PadCells

\* What follows the first cell.
LEMMA CellsBehind ==
  ASSUME PadAssumption, NEW p \in Pad, Cells(p, 1) # <<>>
  PROVE  Cells(p, 2) = Tail(Cells(p, 1))
<1>0. SCRATCH_PAD_SIZE \in Nat
  BY DEF PadAssumption
<1>1. PICK n \in Nat :
        /\ n <= SCRATCH_PAD_SIZE /\ Cells(p, 1) = SubSeq(p, 1, n)
        /\ n = SCRATCH_PAD_SIZE \/ (n + 1 \in 1..SCRATCH_PAD_SIZE /\ p[n + 1] = END)
        /\ \A i \in 1..n : p[i] # END
  BY CellsAre
<1>2. PICK m \in Nat :
        /\ m <= SCRATCH_PAD_SIZE /\ Cells(p, 2) = SubSeq(p, 2, m)
        /\ m = SCRATCH_PAD_SIZE \/ (m + 1 \in 2..SCRATCH_PAD_SIZE /\ p[m + 1] = END)
        /\ \A i \in 2..m : p[i] # END
  BY CellsAre
<1>3. /\ Cells(p, 1) \in List /\ Len(Cells(p, 1)) = (IF 1 <= n THEN (n - 1) + 1 ELSE 0)
      /\ \A i \in 1..((n - 1) + 1) : Cells(p, 1)[i] = p[1 + i - 1]
  <2>1. /\ SubSeq(p, 1, n) \in List
        /\ Len(SubSeq(p, 1, n)) = (IF 1 <= n THEN (n - 1) + 1 ELSE 0)
        /\ \A i \in 1..((n - 1) + 1) : SubSeq(p, 1, n)[i] = p[1 + i - 1]
    BY ONLY <1>1, PadAssumption, p \in Pad, PadCells
  <2>. QED  BY <1>1, <2>1
<1>4. /\ Cells(p, 2) \in List /\ Len(Cells(p, 2)) = (IF 2 <= m THEN (m - 2) + 1 ELSE 0)
      /\ \A i \in 1..((m - 2) + 1) : Cells(p, 2)[i] = p[2 + i - 1]
  <2>1. /\ SubSeq(p, 2, m) \in List
        /\ Len(SubSeq(p, 2, m)) = (IF 2 <= m THEN (m - 2) + 1 ELSE 0)
        /\ \A i \in 1..((m - 2) + 1) : SubSeq(p, 2, m)[i] = p[2 + i - 1]
    BY ONLY <1>2, PadAssumption, p \in Pad, PadCells
  <2>. QED  BY <1>2, <2>1
<1>5. n >= 1
  BY <1>3 DEF List
<1>6. m = n
  <2>1. ~(n < m)
    <3>1. SUFFICES ASSUME n < m
                   PROVE  FALSE
      OBVIOUS
    <3>2. p[n + 1] = END /\ n + 1 \in 2..m
      BY <1>0, <1>1, <1>2, <1>5, <3>1
    <3>. QED  BY <1>2, <3>2
  <2>2. ~(m < n)
    <3>1. SUFFICES ASSUME m < n
                   PROVE  FALSE
      OBVIOUS
    <3>2. p[m + 1] = END /\ m + 1 \in 1..n
      BY <1>0, <1>1, <1>2, <1>5, <3>1
    <3>. QED  BY <1>1, <3>2
  <2>. QED  BY <2>1, <2>2
<1>7. PICK all \in List : all = Cells(p, 1)
  BY <1>3
<1>8. PICK rest \in List : rest = Cells(p, 2)
  BY <1>4
<1>9. Len(all) = n /\ \A i \in 1..n : all[i] = p[i]
  <2>1. Len(all) = n
    BY <1>3, <1>5, <1>7
  <2>2. ASSUME NEW i \in 1..n
        PROVE  all[i] = p[i]
    <3>1. i \in 1..((n - 1) + 1) /\ 1 + i - 1 = i
      OBVIOUS
    <3>. QED  BY <1>3, <1>7, <3>1
  <2>. QED  BY <2>1, <2>2
<1>10. Len(rest) = n - 1 /\ \A i \in 1..(n - 1) : rest[i] = p[i + 1]
  <2>1. Len(rest) = n - 1
    BY <1>4, <1>5, <1>6, <1>8
  <2>2. ASSUME NEW i \in 1..(n - 1)
        PROVE  rest[i] = p[i + 1]
    <3>1. i \in 1..((m - 2) + 1) /\ 2 + i - 1 = i + 1
      BY <1>6
    <3>. QED  BY <1>4, <1>8, <3>1
  <2>. QED  BY <2>1, <2>2
<1>11. Tail(all) \in Seq(Cell) /\ Len(Tail(all)) = n - 1
       /\ \A i \in 1..(n - 1) : Tail(all)[i] = all[i + 1]
  BY <1>5, <1>9 DEF List
<1>12. \A i \in 1..(n - 1) : rest[i] = Tail(all)[i]
  <2>1. SUFFICES ASSUME NEW i \in 1..(n - 1)
                 PROVE  rest[i] = Tail(all)[i]
    OBVIOUS
  <2>2. i + 1 \in 1..n
    BY <1>5
  <2>. QED  BY <1>9, <1>10, <1>11, <2>2
<1>13. rest = Tail(all)
  BY <1>5, <1>10, <1>11, <1>12 DEF List
<1>. QED  BY <1>7, <1>8, <1>13

\* The list that was put into a pad, with END behind it.
LEMMA CellsPut ==
  ASSUME PadAssumption, NEW p \in Pad, NEW list \in List, Len(list) + 1 <= SCRATCH_PAD_SIZE,
         \A i \in 1..Len(list) : p[i] = list[i], p[Len(list) + 1] = END
  PROVE  Cells(p, 1) = list
<1>0. SCRATCH_PAD_SIZE \in Nat /\ END \notin Cell
  BY DEF PadAssumption, Cell
<1>1. PICK n \in Nat :
        /\ n <= SCRATCH_PAD_SIZE /\ Cells(p, 1) = SubSeq(p, 1, n)
        /\ n = SCRATCH_PAD_SIZE \/ (n + 1 \in 1..SCRATCH_PAD_SIZE /\ p[n + 1] = END)
        /\ \A i \in 1..n : p[i] # END
  BY CellsAre
<1>2. PICK l \in Nat : l = Len(list) /\ \A i \in 1..l : list[i] \in Cell
  BY DEF List
<1>3. n = l
  <2>1. ~(n < l)
    <3>1. SUFFICES ASSUME n < l
                   PROVE  FALSE
      OBVIOUS
    <3>2. n + 1 \in 1..l /\ p[n + 1] = END
      BY <1>0, <1>1, <1>2, <3>1
    <3>3. p[n + 1] = list[n + 1] /\ list[n + 1] \in Cell
      BY <1>2, <3>2
    <3>. QED  BY <1>0, <3>2, <3>3
  <2>2. ~(l < n)
    <3>1. SUFFICES ASSUME l < n
                   PROVE  FALSE
      OBVIOUS
    <3>2. l + 1 \in 1..n
      BY <3>1
    <3>. QED  BY <1>1, <1>2, <3>2
  <2>. QED  BY <2>1, <2>2
<1>4. /\ SubSeq(p, 1, n) \in List /\ Len(SubSeq(p, 1, n)) = (IF 1 <= n THEN (n - 1) + 1 ELSE 0)
      /\ \A i \in 1..((n - 1) + 1) : SubSeq(p, 1, n)[i] = p[1 + i - 1]
  BY <1>1, PadCells
<1>5. PICK all \in List : all = SubSeq(p, 1, n)
  BY <1>4
<1>6. Len(all) = n
  BY <1>4, <1>5
<1>7. ASSUME NEW i \in 1..n
      PROVE  all[i] = list[i]
  <2>1. i \in 1..((n - 1) + 1) /\ 1 + i - 1 = i
    OBVIOUS
  <2>2. all[i] = p[i]
    BY <1>4, <1>5, <2>1
  <2>. QED  BY <1>2, <1>3, <2>2
<1>8. all = list
  BY <1>2, <1>3, <1>6, <1>7 DEF List
<1>. QED  BY <1>1, <1>5, <1>8

LEMMA CopiedList ==
  ASSUME PadAssumption, PadTypes, NEW cells \in Seq(Cell \union {END}), NEW list \in List,
         Len(list) < Len(cells), Len(list) < SCRATCH_PAD_SIZE,
         \A i \in 1..Len(list) : cells[i] = list[i], cells[Len(list) + 1] = END
  PROVE  Copied(cells) \in Pad /\ Cells(Copied(cells), 1) = list
<1>0. SCRATCH_PAD_SIZE \in Nat /\ pad \in Pad
  BY DEF PadAssumption, PadTypes
<1>1. PICK n \in Nat : n = Len(cells) /\ \A i \in 1..n : cells[i] \in Cell \union {END}
  OBVIOUS
<1>2. PICK l \in Nat : l = Len(list)
  BY DEF List
<1>3. PICK p : p = Copied(cells)
  OBVIOUS
<1>4. p = [i \in 1..SCRATCH_PAD_SIZE |-> IF i <= n THEN cells[i] ELSE pad[i]]
  BY <1>1, <1>3 DEF Copied
<1>5. p \in Pad
  <2>1. \A i \in 1..SCRATCH_PAD_SIZE : i <= n => i \in 1..n
    OBVIOUS
  <2>2. \A i \in 1..SCRATCH_PAD_SIZE : pad[i] \in Cell \union {END}
    BY <1>0 DEF Pad
  <2>. QED  BY <1>1, <1>4, <2>1, <2>2 DEF Pad
<1>6. \A i \in 1..l : p[i] = list[i]
  <2>1. SUFFICES ASSUME NEW i \in 1..l
                 PROVE  p[i] = list[i]
    OBVIOUS
  <2>2. i \in 1..SCRATCH_PAD_SIZE /\ i <= n
    BY <1>0, <1>1, <1>2
  <2>3. p[i] = cells[i]
    BY <1>4, <2>2
  <2>. QED  BY <1>2, <2>3
<1>7. p[l + 1] = END
  <2>1. l + 1 \in 1..SCRATCH_PAD_SIZE /\ l + 1 <= n
    BY <1>0, <1>1, <1>2
  <2>2. p[l + 1] = cells[l + 1]
    BY <1>4, <2>1
  <2>. QED  BY <1>2, <2>2
<1>8. l + 1 <= SCRATCH_PAD_SIZE
  BY <1>0, <1>2
<1>9. Cells(p, 1) = list
  BY <1>2, <1>5, <1>6, <1>7, <1>8, CellsPut
<1>. QED  BY <1>3, <1>5, <1>9

LEMMA ContentList ==
  ASSUME PadAssumption, PadTypes, NEW ref \in HeapRef \union {InPad(1), InPad(2)}
  PROVE  Content(ref) \in List
<1>1. CASE ref \in HeapRef
  BY <1>1 DEF Content, HeapRef
<1>2. CASE ref \in {InPad(1), InPad(2)}
  <2>1. PICK at \in {1, 2} : ref = InPad(at)
    BY <1>2
  <2>2. Content(ref) = Cells(pad, at)
    BY <2>1 DEF Content, InPad
  <2>3. pad \in Pad
    BY DEF PadTypes
  <2>. QED  BY <2>2, <2>3, CellsList
<1>. QED  BY <1>1, <1>2

\* dfsch_values_list returns the values that are in a list.
LEMMA Returned ==
  ASSUME PadAssumption, PadTypes, NEW ref \in HeapRef \union {InPad(1)}, ReturnValues(ref)
  PROVE  /\ doing' = "return" /\ pad' \in Pad /\ result' \in Cell
         /\ values' \in Outside \union {InPad(1), InPad(2)}
         /\ Collected' = Content(ref) /\ Content(ref) \in List
<1>0. SCRATCH_PAD_SIZE \in Nat /\ pad \in Pad /\ result \in Cell
  BY DEF PadAssumption, PadTypes
<1>1. PICK list \in List : list = Content(ref)
  BY ContentList
<1>2. doing' = "return"
  BY DEF ReturnValues
<1>3. CASE list = <<>>
  <2>1. values' = None /\ UNCHANGED <<pad, result>>
    BY <1>1, <1>3 DEF ReturnValues
  <2>2. Collected' = <<>>
    BY <2>1 DEF Collected, None, One
  <2>. QED  BY <1>0, <1>1, <1>2, <1>3, <2>1, <2>2 DEF Outside
<1>4. CASE list # <<>>
  <2>1. result' = Head(list)
    BY <1>1, <1>4 DEF ReturnValues
  <2>2. /\ Head(list) \in Cell /\ Tail(list) \in List /\ list = <<Head(list)>> \o Tail(list)
        /\ Len(list) \in Nat /\ Len(list) > 0 /\ Len(Tail(list)) = Len(list) - 1
    BY <1>4 DEF List
  <2>3. CASE ref = InPad(1)
    <3>1. values' = InPad(2) /\ pad' = pad
      BY <1>1, <1>4, <2>3 DEF ReturnValues
    <3>2. list = Cells(pad, 1)
      BY <1>1, <2>3 DEF Content, InPad
    <3>3. Cells(pad, 2) = Tail(list)
      BY <1>0, <1>4, <3>2, CellsBehind
    <3>4. Collected' = <<result'>> \o Cells(pad', 2)
      BY <3>1 DEF Collected, Content, InPad, None, One
    <3>5. Collected' = list
      BY <2>1, <2>2, <3>1, <3>3, <3>4
    <3>. QED  BY <1>0, <1>1, <1>2, <2>1, <2>2, <3>1, <3>5
  <2>4. CASE ref # InPad(1) /\ Len(list) < SCRATCH_PAD_SIZE
    <3>1. values' = InPad(1) /\ pad' = Copied(Append(Tail(list), END))
      BY <1>1, <1>4, <2>4 DEF ReturnValues
    <3>2. PICK rest \in List : rest = Tail(list)
      BY <2>2
    <3>3. PICK cells \in Seq(Cell \union {END}) : cells = Append(rest, END)
      <4>1. rest \in Seq(Cell \union {END})
        BY DEF List
      <4>2. Append(rest, END) \in Seq(Cell \union {END})
        BY <4>1
      <4>. QED  BY <4>2
    <3>4. /\ Len(cells) = Len(rest) + 1 /\ Len(rest) \in Nat
          /\ \A i \in 1..Len(rest) : cells[i] = rest[i]
          /\ cells[Len(rest) + 1] = END
      BY <3>3 DEF List
    <3>5. Len(rest) < SCRATCH_PAD_SIZE
      BY <1>0, <2>2, <2>4, <3>2
    <3>6. Copied(cells) \in Pad /\ Cells(Copied(cells), 1) = rest
      BY <3>4, <3>5, CopiedList
    <3>7. pad' \in Pad /\ Cells(pad', 1) = Tail(list)
      BY <3>1, <3>2, <3>3, <3>6
    <3>8. Collected' = <<result'>> \o Cells(pad', 1)
      BY <3>1 DEF Collected, Content, InPad, None, One
    <3>9. Collected' = list
      BY <2>1, <2>2, <3>7, <3>8
    <3>. QED  BY <1>1, <1>2, <2>1, <2>2, <3>1, <3>7, <3>9
  <2>5. CASE ref # InPad(1) /\ ~(Len(list) < SCRATCH_PAD_SIZE)
    <3>1. values' = InHeap(Tail(list)) /\ pad' = pad
      BY <1>1, <1>4, <2>5 DEF ReturnValues
    <3>2. values' \in HeapRef
      BY <2>2, <3>1 DEF InHeap, HeapRef
    <3>3. Collected' = <<result'>> \o Tail(list)
      BY <3>1 DEF Collected, Content, InHeap, None, One
    <3>4. Collected' = list
      BY <2>1, <2>2, <3>3
    <3>. QED  BY <1>0, <1>1, <1>2, <2>1, <2>2, <3>1, <3>2, <3>4 DEF Outside
  <2>. QED  BY <2>3, <2>4, <2>5
<1>. QED  BY <1>3, <1>4

LEMMA CollectedList ==
  ASSUME PadAssumption, PadTypes
  PROVE  Collected \in List
<1>1. result \in Cell /\ values \in Outside \union {InPad(1), InPad(2)}
  BY DEF PadTypes
<1>2. <<result>> \in List
  BY <1>1 DEF List
<1>3. CASE values \in {None, One}
  BY <1>2, <1>3 DEF Collected, List, None, One
<1>4. CASE values \notin {None, One}
  <2>1. values \in HeapRef \union {InPad(1), InPad(2)}
    BY <1>1, <1>4 DEF Outside
  <2>2. PICK v \in HeapRef \union {InPad(1), InPad(2)} : v = values
    BY <2>1
  <2>3. Content(v) \in List
    BY ContentList
  <2>4. Collected = <<result>> \o Content(v)
    BY <1>4, <2>2 DEF Collected
  <2>. QED  BY <1>2, <2>3, <2>4 DEF List
<1>. QED  BY <1>3, <1>4

-----------------------------------------------------------------------------
(* The steps.                                                              *)

\* What is being thrown stays.
LEMMA ThrowStays ==
  ASSUME ThrownRight, throwing' = throwing, Unwinds(waiting') => Unwinds(waiting),
         doing' = "unwind" => doing = "unwind" \/ Unwinds(waiting)
  PROVE  ThrownRight'
<1>1. ThrownValues' = ThrownValues
  BY DEF ThrownValues
<1>. QED  BY <1>1 DEF ThrownRight

\* The thread goes on to evaluate,
LEMMA ToEval ==
  ASSUME PadInv, PadTypes', Ordered(waiting'), throwing' = throwing,
         Unwinds(waiting') => Unwinds(waiting), doing' = "eval"
  PROVE  PadInv'
<1>1. ThrownRight'
  BY ThrowStays DEF PadInv
<1>. QED  BY <1>1 DEF PadInv, AtHand, GivenThere, ArgumentsIntact, ValuesIntact

\* to call,
LEMMA ToApply ==
  ASSUME PadInv, PadTypes', Ordered(waiting'), throwing' = throwing,
         Unwinds(waiting') => Unwinds(waiting), doing' = "apply", waiting' # <<>>,
         Latest'.is = "arguments", Len(Latest'.list) = Latest'.of
  PROVE  PadInv'
<1>1. ThrownRight'
  BY ThrowStays DEF PadInv
<1>. QED  BY <1>1 DEF PadInv, AtHand, GivenThere, ArgumentsIntact, ValuesIntact

\* to bind the arguments of a call,
LEMMA ToBind ==
  ASSUME PadInv, PadTypes', Ordered(waiting'), throwing' = throwing,
         Unwinds(waiting') => Unwinds(waiting), doing' \in {"enter", "dispatch", "bind"},
         waiting' # <<>>, Latest'.is = "activation",
         ~Latest'.exposed => Content(Latest.args)' = Latest'.given
  PROVE  PadInv'
<1>1. ThrownRight'
  BY ThrowStays DEF PadInv
<1>. QED  BY <1>1 DEF PadInv, AtHand, GivenThere, ArgumentsIntact, ValuesIntact

\* to the body,
LEMMA ToBody ==
  ASSUME PadInv, PadTypes', Ordered(waiting'), throwing' = throwing,
         Unwinds(waiting') => Unwinds(waiting), doing' = "body",
         waiting' # <<>>, Latest'.is = "activation", ~Latest'.exposed => Latest'.bound = Latest'.given
  PROVE  PadInv'
<1>1. ThrownRight'
  BY ThrowStays DEF PadInv
<1>. QED  BY <1>1 DEF PadInv, AtHand, GivenThere, ArgumentsIntact, ValuesIntact

\* or returns.
LEMMA ToReturn ==
  ASSUME PadInv, PadTypes', Ordered(waiting'), throwing' = throwing,
         Unwinds(waiting') => Unwinds(waiting), doing' = "return",
         ~astray' => Collected' = yielded'
  PROVE  PadInv'
<1>1. ThrownRight'
  BY ThrowStays DEF PadInv
<1>. QED  BY <1>1 DEF PadInv, AtHand, GivenThere, ArgumentsIntact, ValuesIntact

LEMMA HereIs ==
  ASSUME PadTypes
  PROVE  Here \in Cell
<1>1. waiting \in Seq(Waiting)
  BY DEF PadTypes
<1>2. Len(waiting) \in Nat
  BY <1>1
<1>3. ASSUME waiting # <<>>, Latest.is = "arguments"
      PROVE  Len(Latest.list) \in Nat
  <2>1. Latest \in Waiting
    BY <1>1, <1>3, FrontIs DEF Latest
  <2>2. PICK f : f = Latest
    OBVIOUS
  <2>3. f \in [is : {"arguments"}, list : List, of : Nat]
    BY <1>3, <2>1, <2>2 DEF Waiting, Called, Plain, Cleanup
  <2>4. f.list \in Seq(Cell)
    BY <2>3 DEF List
  <2>. QED  BY <2>2, <2>4
<1>. QED  BY <1>2, <1>3 DEF Here, Nesting, Cell

\* What waits, by its kind.
LEMMA Kinds ==
  ASSUME NEW f \in Waiting
  PROVE  /\ f.is = "arguments" => f \in [is : {"arguments"}, list : List, of : Nat]
         /\ f.is = "activation" => f \in Called
         /\ f.is \in {"catch", "protect"} => f \in [is : {"catch", "protect"}, pad : Pad]
         /\ f.is = "cleanup" => f \in Cleanup
BY DEF Waiting, Called, Plain, Cleanup

LEMMA Basics ==
  /\ Junk \in Cell /\ <<>> \in List /\ One \in Outside /\ None \in Outside
  /\ \A x \in Cell : <<x>> \in List
  /\ \A list \in List : InHeap(list) \in HeapRef /\ InHeap(list) \in Outside
  /\ \A list \in List, x \in Cell :
       Append(list, x) \in List /\ Len(Append(list, x)) = Len(list) + 1
<1>1. \A list \in List : InHeap(list) \in HeapRef
  BY DEF InHeap, HeapRef
<1>. QED  BY <1>1 DEF Cell, List, Outside

\* An activation that has just been called.
LEMMA Invoked ==
  ASSUME NEW args \in HeapRef \union {InPad(1)}, NEW list \in List
  PROVE  Invocation(args, list) \in Called
<1>1. <<>> \in List
  BY Basics
<1>. QED  BY <1>1 DEF Invocation, Called

LEMMA Above ==
  ASSUME PadInv, waiting # <<>>
  PROVE  /\ Latest \in Waiting /\ Beneath \in Seq(Waiting) /\ Ordered(Beneath)
         /\ Unwinds(Beneath) => Unwinds(waiting)
         /\ Catches(waiting) /\ Latest.is # "catch" => Catches(Beneath)
         /\ Latest.is = "unwound" => Unwinds(waiting) /\ ~Unwinds(Beneath) /\ Catches(Beneath)
         /\ Latest.is = "default" => /\ Beneath # <<>> /\ Second.is = "activation"
                                     /\ FirstBound(Second)
BY Popped DEF PadInv, PadTypes, Latest, Beneath, Second

LEMMA ConstantStep ==
  ASSUME PadAssumption, PadInv, Constant
  PROVE  PadInv'
<1>1. PICK here \in Cell : here = Here
  BY HereIs DEF PadInv
<1>2. /\ doing' = "return" /\ result' = here /\ values' = One
      /\ yielded' = <<here>> /\ astray' = FALSE
      /\ waiting' = waiting /\ pad' = pad /\ throwing' = throwing
  BY <1>1 DEF Constant
<1>3. PadTypes'
  BY <1>2, Basics DEF PadInv, PadTypes
<1>4. Collected' = <<here>>
  BY <1>2 DEF Collected, None, One
<1>. QED  BY <1>2, <1>3, <1>4, ToReturn DEF PadInv

LEMMA BeginFormStep ==
  ASSUME PadAssumption, PadInv, BeginForm
  PROVE  PadInv'
<1>1. PICK kind \in {"catch", "throw", "protect", "get", "keep"} :
        waiting' = Append(waiting, Form(kind))
  BY DEF BeginForm, PushFrame
<1>2. /\ doing' = "eval" /\ values' = One
      /\ UNCHANGED <<pad, result, throwing, yielded, astray>>
  BY DEF BeginForm
<1>3. pad \in Pad
  BY DEF PadInv, PadTypes
<1>4. Form(kind) \in Plain
  BY <1>3 DEF Form, Plain
<1>5. /\ waiting' \in Seq(Waiting) /\ Ordered(waiting')
      /\ Unwinds(waiting') => Unwinds(waiting)
  BY <1>1, <1>4, Pushed DEF PadInv, PadTypes
<1>6. PadTypes'
  BY <1>2, <1>5 DEF PadInv, PadTypes, Outside
<1>. QED  BY <1>2, <1>5, <1>6, ToEval

LEMMA BeginCallStep ==
  ASSUME PadAssumption, PadInv, BeginCall
  PROVE  PadInv'
<1>1. PICK n \in Counts : /\ waiting' = Append(waiting, Arguments(<<>>, n))
                          /\ doing' = IF n = 0 THEN "apply" ELSE "eval"
  BY DEF BeginCall, PushFrame
<1>2. values' = One /\ UNCHANGED <<pad, result, throwing, yielded, astray>>
  BY DEF BeginCall
<1>3. PICK f \in Plain : f = Arguments(<<>>, n)
  <2>1. n \in Nat /\ <<>> \in List
    BY Basics DEF PadAssumption
  <2>2. Arguments(<<>>, n) \in Plain
    BY <2>1 DEF Arguments, Plain
  <2>. QED  BY <2>2
<1>4. /\ waiting' \in Seq(Waiting) /\ Ordered(waiting') /\ waiting' # <<>>
      /\ Unwinds(waiting') => Unwinds(waiting)
      /\ Latest' = f
  BY <1>1, <1>3, Pushed DEF PadInv, PadTypes, Latest
<1>5. PadTypes'
  BY <1>1, <1>2, <1>4, Basics DEF PadInv, PadTypes
<1>6. CASE n = 0
  <2>1. Latest'.is = "arguments" /\ Len(Latest'.list) = Latest'.of
    BY <1>3, <1>4, <1>6 DEF Arguments
  <2>. QED  BY <1>1, <1>2, <1>4, <1>5, <1>6, <2>1, ToApply
<1>7. CASE n # 0
  BY <1>1, <1>2, <1>4, <1>5, <1>7, ToEval
<1>. QED  BY <1>6, <1>7

LEMMA NextArgumentStep ==
  ASSUME PadAssumption, PadInv, NextArgument
  PROVE  PadInv'
<1>1. /\ waiting # <<>> /\ Latest.is = "arguments"
      /\ waiting' = Append(Beneath, [Latest EXCEPT !.list = Append(@, result)])
      /\ doing' = IF Len(Latest.list) + 1 = Latest.of THEN "apply" ELSE "eval"
      /\ result' = Junk /\ yielded' = <<>> /\ astray' = FALSE
      /\ pad' = pad /\ values' = values /\ throwing' = throwing
  BY DEF NextArgument, Replace, Taken
<1>2. PICK list \in List, n \in Nat : Latest = [is |-> "arguments", list |-> list, of |-> n]
  BY <1>1, Above, Kinds
<1>3. PICK longer \in List : longer = Append(list, result) /\ Len(longer) = Len(list) + 1
  <2>1. result \in Cell
    BY DEF PadInv, PadTypes
  <2>. QED  BY <2>1, Basics
<1>4. PICK f \in Plain : f = [is |-> "arguments", list |-> longer, of |-> n]
  <2>1. [is |-> "arguments", list |-> longer, of |-> n] \in Plain
    BY DEF Plain
  <2>. QED  BY <2>1
<1>5. waiting' = Append(Beneath, f)
  <2>1. PICK old : old = Latest
    OBVIOUS
  <2>2. old = [is |-> "arguments", list |-> list, of |-> n] /\ old.list = list
    BY <1>2, <2>1
  <2>3. [old EXCEPT !.list = longer] = f
    BY <1>4, <2>2
  <2>4. [Latest EXCEPT !.list = Append(@, result)] = f
    BY <1>3, <2>1, <2>2, <2>3
  <2>. QED  BY <1>1, <2>4
<1>6. /\ waiting' \in Seq(Waiting) /\ Ordered(waiting') /\ waiting' # <<>>
      /\ Unwinds(waiting') => Unwinds(waiting)
      /\ Latest' = f
  BY <1>1, <1>5, Above, Pushed DEF Latest
<1>7. PadTypes'
  BY <1>1, <1>6, Basics DEF PadInv, PadTypes
<1>8. CASE Len(list) + 1 = n
  <2>1. Latest'.is = "arguments" /\ Len(Latest'.list) = Latest'.of
    BY <1>3, <1>4, <1>6, <1>8
  <2>2. doing' = "apply"
    BY <1>1, <1>2, <1>8
  <2>. QED  BY <1>1, <1>6, <1>7, <2>1, <2>2, ToApply
<1>9. CASE Len(list) + 1 # n
  <2>1. doing' = "eval"
    BY <1>1, <1>2, <1>9
  <2>. QED  BY <1>1, <1>6, <1>7, <2>1, ToEval
<1>. QED  BY <1>8, <1>9

LEMMA ApplyCallStep ==
  ASSUME PadAssumption, PadInv, ApplyCall
  PROVE  PadInv'
<1>1. /\ waiting # <<>> /\ Latest.is = "arguments"
      /\ waiting' = Append(Beneath, Invocation(InHeap(Latest.list), Latest.list))
      /\ doing' = "enter"
      /\ UNCHANGED <<pad, values, result, throwing, yielded, astray>>
  BY DEF ApplyCall, Replace, PadInv, AtHand
<1>2. PICK list \in List : Latest.list = list
  BY <1>1, Above, Kinds
<1>3. PICK f \in Called : f = Invocation(InHeap(list), list)
  BY Basics, Invoked
<1>4. /\ waiting' \in Seq(Waiting) /\ Ordered(waiting') /\ waiting' # <<>>
      /\ Unwinds(waiting') => Unwinds(waiting)
      /\ Latest' = f
  BY <1>1, <1>2, <1>3, Above, Pushed DEF Latest
<1>5. PadTypes'
  BY <1>1, <1>4 DEF PadInv, PadTypes
<1>6. Latest'.is = "activation" /\ Content(Latest.args)' = Latest'.given
  BY <1>3, <1>4 DEF Invocation, InHeap, Content
<1>. QED  BY <1>1, <1>4, <1>5, <1>6, ToBind

\* An activation in place of the one on top, or of the one beneath.
LEMMA Replaced ==
  ASSUME PadInv, waiting # <<>>, NEW f \in Called, waiting' = Append(Beneath, f)
  PROVE  /\ waiting' \in Seq(Waiting) /\ Ordered(waiting') /\ waiting' # <<>>
         /\ Unwinds(waiting') => Unwinds(waiting)
         /\ Latest' = f /\ Latest'.is = "activation"
BY Above, Pushed DEF Latest, Called

LEMMA BothReplaced ==
  ASSUME PadInv, waiting # <<>>, Beneath # <<>>, NEW f \in Called,
         waiting' = Append(Front(Beneath), f)
  PROVE  /\ waiting' \in Seq(Waiting) /\ Ordered(waiting') /\ waiting' # <<>>
         /\ Unwinds(waiting') => Unwinds(waiting)
         /\ Latest' = f /\ Latest'.is = "activation"
<1>1. /\ Front(Beneath) \in Seq(Waiting) /\ Ordered(Front(Beneath))
      /\ Unwinds(Front(Beneath)) => Unwinds(waiting)
  BY Above, Popped
<1>. QED  BY <1>1, Pushed DEF Latest, Called

LEMMA TailApplyStep ==
  ASSUME PadAssumption, PadInv, TailApply
  PROVE  PadInv'
<1>1. /\ waiting # <<>> /\ Latest.is = "arguments" /\ Len(Latest.list) = Latest.of
      /\ Nesting > 1 /\ Second.is = "activation"
      /\ doing' = "enter"
      /\ UNCHANGED <<values, result, throwing, yielded, astray>>
  BY DEF TailApply, InTail, PadInv, AtHand
<1>2. PICK list \in List : Latest.list = list /\ Len(list) = Latest.of
  BY <1>1, Above, Kinds
<1>3. Beneath # <<>> /\ Beneath \in Seq(Waiting)
  <2>1. waiting \in Seq(Waiting)
    BY DEF PadInv, PadTypes
  <2>2. Len(Beneath) = Nesting - 1 /\ Nesting \in Nat /\ Beneath \in Seq(Waiting)
    BY <1>1, <2>1, FrontIs DEF Nesting, Beneath
  <2>. QED  BY <1>1, <2>2
<1>4. Second \in Called
  <2>1. Second \in Waiting
    BY <1>3, FrontIs DEF Second
  <2>. QED  BY <1>1, <2>1, Kinds
<1>5. PICK reuse \in BOOLEAN : reuse = Second.reuse
  BY <1>4 DEF Called
<1>6. PICK inPad \in BOOLEAN :
        inPad = (Latest.list # <<>> /\ Latest.of <= SCRATCH_PAD_SIZE - 4)
  OBVIOUS
<1>7. PICK args \in HeapRef \union {InPad(1)} : args = IF inPad THEN InPad(1) ELSE InHeap(list)
  BY Basics
<1>8. PICK f \in Called : f = [Invocation(args, list) EXCEPT !.reuse = reuse]
  <2>1. PICK g \in Called : g = Invocation(args, list)
    BY Invoked
  <2>2. [g EXCEPT !.reuse = reuse] \in Called
    BY DEF Called
  <2>. QED  BY <2>1, <2>2
<1>9. /\ waiting' = Append(Front(Beneath), f)
      /\ pad' = IF inPad THEN Copied(list \o <<END, Blank, Blank, Blank>>) ELSE pad
  <2>1. /\ pad' = IF inPad THEN Copied(Latest.list \o <<END, Blank, Blank, Blank>>) ELSE pad
        /\ waiting' = Append(Front(Beneath),
                             [Invocation(IF inPad THEN InPad(1) ELSE InHeap(Latest.list), Latest.list)
                                EXCEPT !.reuse = Second.reuse])
    BY <1>6 DEF TailApply, ReplaceBoth
  <2>. QED  BY <1>2, <1>5, <1>7, <1>8, <2>1
<1>10. /\ waiting' \in Seq(Waiting) /\ Ordered(waiting') /\ waiting' # <<>>
       /\ Unwinds(waiting') => Unwinds(waiting)
       /\ Latest' = f /\ Latest'.is = "activation"
  BY <1>1, <1>3, <1>9, BothReplaced
<1>11. pad' \in Pad /\ (inPad => Cells(pad', 1) = list)
  <2>1. CASE inPad
    <3>1. PICK cells \in Seq(Cell \union {END}) : cells = list \o <<END, Blank, Blank, Blank>>
      <4>1. <<END, Blank, Blank, Blank>> \in Seq(Cell \union {END})
        BY DEF Cell
      <4>2. list \in Seq(Cell \union {END})
        BY DEF List
      <4>3. list \o <<END, Blank, Blank, Blank>> \in Seq(Cell \union {END})
        BY <4>1, <4>2
      <4>. QED  BY <4>3
    <3>2. /\ Len(list) \in Nat /\ Len(cells) = Len(list) + 4
          /\ \A i \in 1..Len(list) : cells[i] = list[i]
          /\ cells[Len(list) + 1] = END
      BY <3>1 DEF List
    <3>3. Len(list) < Len(cells) /\ Len(list) < SCRATCH_PAD_SIZE
      <4>1. Latest.of <= SCRATCH_PAD_SIZE - 4
        BY <1>6, <2>1
      <4>2. PICK n \in Nat : n = Len(list) /\ n <= SCRATCH_PAD_SIZE - 4
        BY <1>2, <3>2, <4>1
      <4>. QED  BY <3>2, <4>2 DEF PadAssumption
    <3>4. Copied(cells) \in Pad /\ Cells(Copied(cells), 1) = list
      BY <3>2, <3>3, CopiedList DEF PadInv
    <3>. QED  BY <1>9, <2>1, <3>1, <3>4
  <2>2. CASE ~inPad
    BY <1>9, <2>2 DEF PadInv, PadTypes
  <2>. QED  BY <2>1, <2>2
<1>12. PadTypes'
  BY <1>1, <1>10, <1>11 DEF PadInv, PadTypes
<1>13. f.args = args /\ f.given = list
  BY <1>8 DEF Invocation
<1>14. Content(Latest.args)' = Latest'.given
  <2>1. Content(Latest.args)' = IF args.in = "pad" THEN Cells(pad', args.at) ELSE args.list
    BY <1>10, <1>13 DEF Content
  <2>2. CASE inPad
    <3>1. args.in = "pad" /\ args.at = 1
      BY <1>7, <2>2 DEF InPad
    <3>. QED  BY <1>10, <1>11, <1>13, <2>1, <2>2, <3>1
  <2>3. CASE ~inPad
    <3>1. args.in # "pad" /\ args.list = list
      BY <1>7, <2>3 DEF InHeap
    <3>. QED  BY <1>10, <1>13, <2>1, <3>1
  <2>. QED  BY <2>2, <2>3
<1>. QED  BY <1>1, <1>10, <1>12, <1>14, ToBind

LEMMA Disturbed ==
  ASSUME NEW f \in Called
  PROVE  /\ Disturb(f) \in Called /\ Disturb(f).args = f.args /\ Disturb(f).given = f.given
         /\ Disturb(f).reuse = f.reuse /\ Disturb(f).traced = f.traced /\ Disturb(f).bound = f.bound
         /\ ~Disturb(f).exposed => ~f.exposed /\ f.args.in = "heap"
<1>1. PICK b \in BOOLEAN : b = (f.exposed \/ f.args.in = "pad")
  OBVIOUS
<1>2. Disturb(f) = [f EXCEPT !.exposed = b]
  BY <1>1 DEF Disturb
<1>3. f.args \in HeapRef \union {InPad(1)}
  BY DEF Called
<1>4. f.args.in \in {"heap", "pad"}
  BY <1>3 DEF HeapRef, InPad
<1>. QED  BY <1>1, <1>2, <1>4 DEF Called

LEMMA OverwrittenPad ==
  ASSUME PadAssumption
  PROVE  Overwritten \in Pad
BY Basics DEF Overwritten, Pad

\* The activation whose arguments are at hand.
LEMMA InvocationAtHand ==
  ASSUME PadInv, doing \in {"enter", "dispatch", "bind"}
  PROVE  /\ waiting # <<>> /\ Latest \in Called
         /\ Latest.args \in HeapRef \union {InPad(1)}
         /\ ~Latest.exposed => Content(Latest.args) = Latest.given
<1>1. waiting # <<>> /\ Latest.is = "activation"
  BY DEF PadInv, AtHand
<1>2. Latest \in Called
  BY <1>1, Above, Kinds
<1>3. Latest.args \in HeapRef \union {InPad(1)}
  BY <1>2 DEF Called
<1>. QED  BY <1>1, <1>2, <1>3 DEF PadInv, GivenThere

\* What it becomes, when its arguments are where they were, or in the heap.
LEMMA StaysGiven ==
  ASSUME PadInv, doing \in {"enter", "dispatch", "bind"}, NEW f \in Called,
         f.given = Latest.given, f.args = Latest.args,
         \/ pad' = pad /\ (~f.exposed => ~Latest.exposed)
         \/ ~f.exposed => ~Latest.exposed /\ Latest.args.in = "heap",
         waiting' = Append(Beneath, f)
  PROVE  ~Latest'.exposed => Content(Latest.args)' = Latest'.given
<1>1. Latest' = f
  BY InvocationAtHand, Replaced
<1>2. SUFFICES ASSUME ~f.exposed
               PROVE  Content(Latest.args)' = f.given
  BY <1>1
<1>3. ~Latest.exposed /\ Content(Latest.args) = f.given
  BY <1>2, InvocationAtHand
<1>4. Content(Latest.args)' = IF f.args.in = "pad" THEN Cells(pad', f.args.at) ELSE f.args.list
  BY <1>1 DEF Content
<1>5. Content(Latest.args) = IF f.args.in = "pad" THEN Cells(pad, f.args.at) ELSE f.args.list
  BY DEF Content
<1>6. pad' = pad \/ f.args.in = "heap"
  BY <1>2
<1>. QED  BY <1>3, <1>4, <1>5, <1>6

LEMMA InvokeStep ==
  ASSUME PadAssumption, PadInv, Invoke
  PROVE  PadInv'
<1>1. doing = "enter" /\ values' = One /\ doing' = "dispatch"
      /\ UNCHANGED <<result, throwing, yielded, astray>>
  BY DEF Invoke
<1>2. PICK f \in Called : f = Latest
  BY <1>1, InvocationAtHand
<1>3. waiting # <<>>
  BY <1>1, InvocationAtHand
<1>4. CASE UNCHANGED <<waiting, pad>>
  <2>1. PadTypes'
    BY <1>1, <1>4, Basics DEF PadInv, PadTypes
  <2>2. Latest' = Latest /\ Content(Latest.args)' = Content(Latest.args)
    BY <1>4 DEF Latest, Content
  <2>3. Latest'.is = "activation" /\ (~Latest'.exposed => Content(Latest.args)' = Latest'.given)
    BY <1>1, <1>2, <2>2, InvocationAtHand DEF Called
  <2>4. Ordered(waiting') /\ waiting' # <<>> /\ (Unwinds(waiting') => Unwinds(waiting))
    BY <1>3, <1>4 DEF PadInv
  <2>. QED  BY <1>1, <2>1, <2>3, <2>4, ToBind
<1>5. ASSUME NEW g \in Called, g.given = f.given, g.args = f.args,
             ~g.exposed => ~f.exposed /\ f.args.in = "heap",
             waiting' = Append(Beneath, g), pad' = Overwritten
      PROVE  PadInv'
  <2>1. /\ waiting' \in Seq(Waiting) /\ Ordered(waiting') /\ waiting' # <<>>
        /\ Unwinds(waiting') => Unwinds(waiting)
        /\ Latest'.is = "activation"
    BY <1>3, <1>5, Replaced
  <2>2. PadTypes'
    BY <1>1, <1>5, <2>1, Basics, OverwrittenPad DEF PadInv, PadTypes
  <2>3. ~Latest'.exposed => Content(Latest.args)' = Latest'.given
    BY <1>1, <1>2, <1>5, StaysGiven
  <2>. QED  BY <1>1, <2>1, <2>2, <2>3, ToBind
<1>6. CASE pad' = Overwritten /\ Replace(Disturb(Latest))
  BY <1>2, <1>5, <1>6, Disturbed DEF Replace
<1>7. CASE pad' = Overwritten /\ Replace([Disturb(Latest) EXCEPT !.traced = TRUE])
  <2>1. PICK g \in Called : g = Disturb(f)
    BY Disturbed
  <2>2. PICK h \in Called : h = [g EXCEPT !.traced = TRUE]
    <3>1. [g EXCEPT !.traced = TRUE] \in Called
      BY DEF Called
    <3>. QED  BY <3>1
  <2>3. h.given = f.given /\ h.args = f.args /\ (~h.exposed => ~f.exposed /\ f.args.in = "heap")
    BY <2>1, <2>2, Disturbed DEF Called
  <2>4. waiting' = Append(Beneath, h)
    BY <1>2, <1>7, <2>1, <2>2 DEF Replace
  <2>. QED  BY <1>5, <1>7, <2>3, <2>4
<1>. QED  BY <1>4, <1>6, <1>7 DEF Invoke

\* A step that leaves an activation on top, with its arguments there.
LEMMA ActivationStep ==
  ASSUME PadInv, doing \in {"enter", "dispatch", "bind"}, NEW f \in Called,
         waiting' = Append(Beneath, f), pad' \in Pad,
         doing' \in {"enter", "dispatch", "bind"},
         UNCHANGED <<values, result, throwing, yielded, astray>>,
         ~f.exposed => (IF f.args.in = "pad" THEN Cells(pad', f.args.at) ELSE f.args.list) = f.given
  PROVE  PadInv'
<1>1. waiting # <<>>
  BY InvocationAtHand
<1>2. /\ waiting' \in Seq(Waiting) /\ Ordered(waiting') /\ waiting' # <<>>
      /\ Unwinds(waiting') => Unwinds(waiting)
      /\ Latest' = f /\ Latest'.is = "activation"
  BY <1>1, Replaced
<1>3. PadTypes'
  BY <1>2 DEF PadInv, PadTypes
<1>4. ~Latest'.exposed => Content(Latest.args)' = Latest'.given
  BY <1>2 DEF Content
<1>. QED  BY <1>2, <1>3, <1>4, ToBind

LEMMA ArgumentsThere ==
  ASSUME PadInv, doing \in {"enter", "dispatch", "bind"}, ~Latest.exposed
  PROVE  (IF Latest.args.in = "pad" THEN Cells(pad, Latest.args.at) ELSE Latest.args.list)
            = Latest.given
BY InvocationAtHand DEF Content

LEMMA ApplyClosureStep ==
  ASSUME PadAssumption, PadInv, ApplyClosure
  PROVE  PadInv'
<1>1. doing = "dispatch" /\ doing' = "bind"
      /\ UNCHANGED <<values, result, throwing, yielded, astray>>
  BY DEF ApplyClosure
<1>2. PICK f \in Called : f = Latest /\ f.args \in HeapRef \union {InPad(1)}
  BY <1>1, InvocationAtHand
<1>3. ~f.exposed =>
        (IF f.args.in = "pad" THEN Cells(pad, f.args.at) ELSE f.args.list) = f.given
  BY <1>1, <1>2, ArgumentsThere
<1>4. CASE Replace([Latest EXCEPT !.reuse = TRUE]) /\ UNCHANGED pad
  <2>1. PICK g \in Called : g = [f EXCEPT !.reuse = TRUE]
    <3>1. [f EXCEPT !.reuse = TRUE] \in Called
      BY DEF Called
    <3>. QED  BY <3>1
  <2>2. g.args = f.args /\ g.given = f.given /\ g.exposed = f.exposed
    BY <2>1 DEF Called
  <2>3. waiting' = Append(Beneath, g) /\ pad' = pad /\ pad' \in Pad
    BY <1>2, <1>4, <2>1 DEF Replace, PadInv, PadTypes
  <2>. QED  BY <1>1, <1>3, <2>2, <2>3, ActivationStep
<1>5. CASE /\ Replace([IF Latest.reuse THEN Latest ELSE Disturb(Latest)
                         EXCEPT !.args = CompiledArguments(Latest), !.reuse = TRUE])
           /\ pad' = Overwritten
  <2>0. pad' \in Pad
    BY <1>5, OverwrittenPad
  <2>1. CASE f.reuse
    <3>1. PICK list \in List : list = Content(f.args)
      BY <1>2, ContentList DEF PadInv
    <3>2. PICK g \in Called : g = [f EXCEPT !.args = InHeap(list), !.reuse = TRUE]
      <4>1. InHeap(list) \in HeapRef
        BY Basics
      <4>2. [f EXCEPT !.args = InHeap(list), !.reuse = TRUE] \in Called
        BY <4>1 DEF Called
      <4>. QED  BY <4>2
    <3>3. g.args = InHeap(list) /\ g.given = f.given /\ g.exposed = f.exposed
      BY <3>2 DEF Called
    <3>4. g.args.in # "pad" /\ g.args.list = list
      BY <3>3 DEF InHeap
    <3>5. waiting' = Append(Beneath, g)
      BY <1>2, <1>5, <2>1, <3>1, <3>2 DEF Replace, CompiledArguments
    <3>6. ~g.exposed => list = g.given
      BY <1>3, <3>1, <3>3 DEF Content
    <3>. QED  BY <1>1, <2>0, <3>4, <3>5, <3>6, ActivationStep
  <2>2. CASE ~f.reuse
    <3>1. PICK h \in Called : h = Disturb(f)
      BY Disturbed
    <3>2. h.args = f.args /\ h.given = f.given /\ (~h.exposed => ~f.exposed /\ f.args.in = "heap")
      BY <3>1, Disturbed
    <3>3. PICK g \in Called : g = [h EXCEPT !.args = f.args, !.reuse = TRUE]
      <4>1. [h EXCEPT !.args = f.args, !.reuse = TRUE] \in Called
        BY <1>2 DEF Called
      <4>. QED  BY <4>1
    <3>4. g.args = f.args /\ g.given = h.given /\ g.exposed = h.exposed
      BY <3>3 DEF Called
    <3>5. waiting' = Append(Beneath, g)
      BY <1>2, <1>5, <2>2, <3>1, <3>3 DEF Replace, CompiledArguments
    <3>6. ~g.exposed => f.args.in = "heap" /\ f.args.list = f.given
      BY <1>3, <3>2, <3>4
    <3>. QED  BY <1>1, <2>0, <3>2, <3>4, <3>5, <3>6, ActivationStep
  <2>. QED  BY <2>1, <2>2
<1>. QED  BY <1>4, <1>5 DEF ApplyClosure

LEMMA ApplyGenericStep ==
  ASSUME PadAssumption, PadInv, ApplyGeneric
  PROVE  PadInv'
<1>1. doing = "dispatch" /\ doing' = "enter"
      /\ UNCHANGED <<values, result, throwing, yielded, astray>>
  BY DEF ApplyGeneric
<1>2. PICK f \in Called : f = Latest /\ f.args \in HeapRef \union {InPad(1)}
  BY <1>1, InvocationAtHand
<1>3. ~f.exposed =>
        (IF f.args.in = "pad" THEN Cells(pad, f.args.at) ELSE f.args.list) = f.given
  BY <1>1, <1>2, ArgumentsThere
<1>4. CASE Replace([Latest EXCEPT !.reuse = FALSE]) /\ UNCHANGED pad
  <2>1. PICK g \in Called : g = [f EXCEPT !.reuse = FALSE]
    <3>1. [f EXCEPT !.reuse = FALSE] \in Called
      BY DEF Called
    <3>. QED  BY <3>1
  <2>2. g.args = f.args /\ g.given = f.given /\ g.exposed = f.exposed
    BY <2>1 DEF Called
  <2>3. waiting' = Append(Beneath, g) /\ pad' = pad /\ pad' \in Pad
    BY <1>2, <1>4, <2>1 DEF Replace, PadInv, PadTypes
  <2>. QED  BY <1>1, <1>3, <2>2, <2>3, ActivationStep
<1>5. CASE /\ Replace([Latest EXCEPT !.reuse = FALSE, !.args = InHeap(Content(@))])
           /\ pad' = Overwritten
  <2>1. pad' \in Pad
    BY <1>5, OverwrittenPad
  <2>2. PICK list \in List : list = Content(f.args)
    BY <1>2, ContentList DEF PadInv
  <2>3. PICK g \in Called : g = [f EXCEPT !.reuse = FALSE, !.args = InHeap(list)]
    <3>1. InHeap(list) \in HeapRef
      BY Basics
    <3>2. [f EXCEPT !.reuse = FALSE, !.args = InHeap(list)] \in Called
      BY <3>1 DEF Called
    <3>. QED  BY <3>2
  <2>4. g.args = InHeap(list) /\ g.given = f.given /\ g.exposed = f.exposed
    BY <2>3 DEF Called
  <2>5. g.args.in # "pad" /\ g.args.list = list
    BY <2>4 DEF InHeap
  <2>6. waiting' = Append(Beneath, g)
    BY <1>2, <1>5, <2>2, <2>3 DEF Replace
  <2>7. ~g.exposed => list = g.given
    BY <1>3, <2>2, <2>4 DEF Content
  <2>. QED  BY <1>1, <2>1, <2>5, <2>6, <2>7, ActivationStep
<1>. QED  BY <1>4, <1>5 DEF ApplyGeneric

\* The activation goes on without arguments.
LEMMA Emptied ==
  ASSUME PadInv, doing \in {"enter", "dispatch", "bind"}
  PROVE  [Latest EXCEPT !.reuse = FALSE, !.args = InHeap(<<>>), !.given = <<>>] \in Called
<1>1. PICK f \in Called : f = Latest
  BY InvocationAtHand
<1>2. InHeap(<<>>) \in HeapRef /\ <<>> \in List
  BY Basics
<1>3. [f EXCEPT !.reuse = FALSE, !.args = InHeap(<<>>), !.given = <<>>] \in Called
  BY <1>2 DEF Called
<1>. QED  BY <1>1, <1>3

LEMMA ApplyEvalStep ==
  ASSUME PadAssumption, PadInv, ApplyEval
  PROVE  PadInv'
<1>1. doing = "dispatch" /\ doing' = "eval"
      /\ UNCHANGED <<pad, values, result, throwing, yielded, astray>>
  BY DEF ApplyEval
<1>2. PICK g \in Called : waiting' = Append(Beneath, g)
  BY <1>1, Emptied DEF ApplyEval, Replace
<1>3. waiting' \in Seq(Waiting) /\ Ordered(waiting') /\ (Unwinds(waiting') => Unwinds(waiting))
  BY <1>1, <1>2, InvocationAtHand, Replaced
<1>4. PadTypes'
  BY <1>1, <1>3 DEF PadInv, PadTypes
<1>. QED  BY <1>1, <1>3, <1>4, ToEval

LEMMA ApplyValuesStep ==
  ASSUME PadAssumption, PadInv, ApplyValues
  PROVE  PadInv'
<1>1. doing = "dispatch" /\ ReturnValues(Latest.args)
      /\ yielded' = Latest.given /\ astray' = Latest.exposed /\ throwing' = throwing
  BY DEF ApplyValues
<1>2. PICK f \in Called : f = Latest /\ f.args \in HeapRef \union {InPad(1)}
  BY <1>1, InvocationAtHand
<1>3. /\ doing' = "return" /\ pad' \in Pad /\ result' \in Cell
      /\ values' \in Outside \union {InPad(1), InPad(2)}
      /\ Collected' = Content(f.args)
  BY <1>1, <1>2, Returned DEF PadInv
<1>4. PICK g \in Called : waiting' = Append(Beneath, g)
  BY <1>1, Emptied DEF ApplyValues, Replace
<1>5. waiting' \in Seq(Waiting) /\ Ordered(waiting') /\ (Unwinds(waiting') => Unwinds(waiting))
  BY <1>1, <1>4, InvocationAtHand, Replaced
<1>6. PadTypes'
  BY <1>1, <1>2, <1>3, <1>5 DEF PadInv, PadTypes, Called
<1>7. ~astray' => Collected' = yielded'
  BY <1>1, <1>2, <1>3, InvocationAtHand
<1>. QED  BY <1>1, <1>3, <1>5, <1>6, <1>7, ToReturn

LEMMA BindStep ==
  ASSUME PadAssumption, PadInv, Bind
  PROVE  PadInv'
<1>1. doing = "bind" /\ doing' = "body"
      /\ waiting' = Append(Beneath, [Latest EXCEPT !.bound = Content(Latest.args)])
      /\ UNCHANGED <<pad, values, result, throwing, yielded, astray>>
  BY DEF Bind, Replace
<1>2. PICK f \in Called : f = Latest /\ f.args \in HeapRef \union {InPad(1)}
  BY <1>1, InvocationAtHand
<1>3. PICK list \in List : list = Content(f.args) /\ (~f.exposed => list = f.given)
  <2>1. Content(f.args) \in List
    BY <1>2, ContentList DEF PadInv
  <2>. QED  BY <1>1, <1>2, <2>1, InvocationAtHand
<1>4. PICK g \in Called : g = [f EXCEPT !.bound = list]
  <2>1. [f EXCEPT !.bound = list] \in Called
    BY DEF Called
  <2>. QED  BY <2>1
<1>5. g.given = f.given /\ g.exposed = f.exposed /\ g.bound = list
  BY <1>4 DEF Called
<1>6. waiting' = Append(Beneath, g)
  BY <1>1, <1>2, <1>3, <1>4
<1>7. /\ waiting' \in Seq(Waiting) /\ Ordered(waiting') /\ waiting' # <<>>
      /\ Unwinds(waiting') => Unwinds(waiting)
      /\ Latest' = g /\ Latest'.is = "activation"
  BY <1>1, <1>6, InvocationAtHand, Replaced
<1>8. PadTypes'
  BY <1>1, <1>7 DEF PadInv, PadTypes
<1>. QED  BY <1>1, <1>3, <1>5, <1>7, <1>8, ToBody

LEMMA PushedDefault ==
  ASSUME NEW s \in Seq(Waiting), Ordered(s), s # <<>>, Last(s).is = "activation",
         FirstBound(Last(s)), NEW f \in [is : {"default"}, pad : {<<>>}]
  PROVE  /\ Append(s, f) \in Seq(Waiting) /\ Ordered(Append(s, f))
         /\ Unwinds(Append(s, f)) => Unwinds(s)
<1>1. f \in Waiting /\ f.is = "default"
  BY DEF Waiting
<1>2. PICK n \in Nat : n = Len(s) /\ DOMAIN s = 1..n /\ n > 0 /\ Last(s) = s[n]
  <2>1. Len(s) \in Nat /\ Len(s) > 0 /\ Last(s) = s[Len(s)]
    BY FrontIs
  <2>2. DOMAIN s = 1..Len(s)
    OBVIOUS
  <2>. QED  BY <2>1, <2>2
<1>3. PICK t \in Seq(Waiting) :
        /\ t = Append(s, f) /\ DOMAIN t = 1..(n + 1)
        /\ \A i \in 1..n : t[i] = s[i]
        /\ t[n + 1] = f
  <2>1. /\ Append(s, f) \in Seq(Waiting)
        /\ DOMAIN Append(s, f) = 1..(n + 1)
        /\ \A i \in 1..n : Append(s, f)[i] = s[i]
        /\ Append(s, f)[n + 1] = f
    BY ONLY <1>1, <1>2, AppendIs
  <2>. QED  BY <2>1
<1>4. ASSUME NEW i \in DOMAIN t, t[i].is = "default"
      PROVE  i > 1 /\ t[i - 1].is = "activation" /\ FirstBound(t[i - 1])
  <2>1. CASE i = n + 1
    <3>1. i - 1 = n /\ n \in 1..n /\ i > 1
      BY <1>2, <2>1
    <3>. QED  BY <1>2, <1>3, <3>1
  <2>2. CASE i # n + 1
    <3>1. i \in DOMAIN s /\ s[i].is = "default"
      BY <1>2, <1>3, <1>4, <2>2
    <3>2. i > 1 /\ s[i - 1].is = "activation" /\ FirstBound(s[i - 1])
      BY <3>1 DEF Ordered
    <3>3. i - 1 \in 1..n
      BY <1>2, <3>1, <3>2
    <3>. QED  BY <1>3, <3>2, <3>3
  <2>. QED  BY <2>1, <2>2
<1>5. ASSUME NEW i \in DOMAIN t, t[i].is = "unwound"
      PROVE  i \in DOMAIN s /\ s[i].is = "unwound" /\ \E j \in DOMAIN t : j < i /\ t[j].is = "catch"
  <2>1. i \in DOMAIN s /\ s[i].is = "unwound"
    BY <1>1, <1>2, <1>3, <1>5
  <2>2. PICK j \in DOMAIN s : j < i /\ s[j].is = "catch"
    BY <2>1 DEF Ordered
  <2>. QED  BY <1>2, <1>3, <2>1, <2>2
<1>6. Ordered(t)
  BY <1>4, <1>5 DEF Ordered
<1>7. Unwinds(t) => Unwinds(s)
  BY <1>5 DEF Unwinds
<1>. QED  BY <1>3, <1>6, <1>7

LEMMA BindFirstStep ==
  ASSUME PadAssumption, PadInv, BindFirst
  PROVE  PadInv'
<1>1. /\ doing = "bind" /\ doing' = "eval" /\ Content(Latest.args) # <<>>
      /\ waiting' = Append(Append(Beneath, [Latest EXCEPT !.bound = <<Head(Content(Latest.args))>>]),
                           Form("default"))
      /\ UNCHANGED <<pad, values, result, throwing, yielded, astray>>
  BY DEF BindFirst
<1>2. PICK f \in Called : f = Latest /\ f.args \in HeapRef \union {InPad(1)}
  BY <1>1, InvocationAtHand
<1>3. PICK list \in List : /\ list = Content(f.args) /\ list # <<>>
                           /\ ~f.exposed => list = f.given
  <2>1. Content(f.args) \in List
    BY <1>2, ContentList DEF PadInv
  <2>. QED  BY <1>1, <1>2, <2>1, InvocationAtHand
<1>4. PICK first \in Cell : first = Head(list) /\ <<first>> \o Tail(list) = list
  BY <1>3 DEF List
<1>5. PICK g \in Called : g = [f EXCEPT !.bound = <<first>>]
  <2>1. [f EXCEPT !.bound = <<first>>] \in Called
    BY Basics DEF Called
  <2>. QED  BY <2>1
<1>6. /\ g.is = "activation" /\ g.args = f.args /\ g.given = f.given
      /\ g.exposed = f.exposed /\ g.bound = <<first>>
  BY <1>5 DEF Called
<1>7. FirstBound(g)
  <2>1. SUFFICES ASSUME f.args.in = "heap"
                 PROVE  /\ f.args.list # <<>>
                        /\ ~f.exposed => <<first>> \o Tail(f.args.list) = f.given
    BY <1>6 DEF FirstBound
  <2>2. f.args.list = list
    BY <1>3, <2>1 DEF Content
  <2>. QED  BY <1>3, <1>4, <2>2
<1>8. PICK s \in Seq(Waiting) :
        /\ s = Append(Beneath, g) /\ Ordered(s) /\ s # <<>> /\ Last(s) = g
        /\ Unwinds(s) => Unwinds(waiting)
  <2>1. /\ Append(Beneath, g) \in Seq(Waiting) /\ Ordered(Append(Beneath, g))
        /\ Append(Beneath, g) # <<>> /\ Last(Append(Beneath, g)) = g
        /\ Unwinds(Append(Beneath, g)) => Unwinds(waiting)
    BY <1>1, InvocationAtHand, Above, Pushed
  <2>. QED  BY <2>1
<1>9. PICK d \in [is : {"default"}, pad : {<<>>}] : d = Form("default")
  <2>1. Form("default") \in [is : {"default"}, pad : {<<>>}]
    BY DEF Form
  <2>. QED  BY <2>1
<1>10. waiting' = Append(s, d)
  BY <1>1, <1>2, <1>3, <1>4, <1>5, <1>8, <1>9
<1>11. waiting' \in Seq(Waiting) /\ Ordered(waiting') /\ (Unwinds(waiting') => Unwinds(waiting))
  BY <1>6, <1>7, <1>8, <1>10, PushedDefault
<1>12. PadTypes'
  BY <1>1, <1>11 DEF PadInv, PadTypes
<1>. QED  BY <1>1, <1>11, <1>12, ToEval

LEMMA BindOthersStep ==
  ASSUME PadAssumption, PadInv, BindOthers
  PROVE  PadInv'
<1>1. /\ waiting # <<>> /\ Latest.is = "default" /\ doing' = "body"
      /\ result' = Junk /\ yielded' = <<>> /\ astray' = FALSE
      /\ UNCHANGED <<pad, values, throwing>>
  BY DEF BindOthers, Taken
<1>2. PICK others : /\ others = IF Second.args.in = "pad" THEN Content(InPad(Second.args.at + 1))
                                ELSE Tail(Second.args.list)
                    /\ waiting' = Append(Front(Beneath), [Disturb(Second) EXCEPT !.bound = @ \o others])
  BY DEF BindOthers, ReplaceBoth
<1>3. Beneath # <<>> /\ Second.is = "activation" /\ FirstBound(Second)
  BY <1>1, Above
<1>4. PICK f \in Called : f = Second /\ f.args \in HeapRef \union {InPad(1)}
  <2>1. Second \in Waiting
    BY <1>1, <1>3, Above, FrontIs DEF Second
  <2>2. Second \in Called
    BY <1>3, <2>1, Kinds
  <2>. QED  BY <2>2 DEF Called
<1>5. others \in List
  <2>1. CASE f.args \in HeapRef
    <3>1. f.args.in = "heap" /\ f.args.list \in List /\ f.args.list # <<>>
      BY <1>3, <1>4, <2>1 DEF HeapRef, FirstBound
    <3>. QED  BY <1>2, <1>4, <3>1 DEF List
  <2>2. CASE f.args = InPad(1)
    <3>1. f.args.in = "pad" /\ f.args.at + 1 = 2
      BY <2>2 DEF InPad
    <3>2. Content(InPad(2)) \in List
      BY ContentList DEF PadInv
    <3>. QED  BY <1>2, <1>4, <3>1, <3>2
  <2>. QED  BY <1>4, <2>1, <2>2
<1>6. PICK h \in Called :
        /\ h = Disturb(f) /\ h.args = f.args /\ h.given = f.given /\ h.bound = f.bound
        /\ ~h.exposed => ~f.exposed /\ f.args.in = "heap"
  BY Disturbed
<1>7. PICK g \in Called : g = [h EXCEPT !.bound = @ \o others]
  <2>1. h.bound \o others \in List
    BY <1>5 DEF Called, List
  <2>2. [h EXCEPT !.bound = h.bound \o others] \in Called
    BY <2>1 DEF Called
  <2>. QED  BY <2>2
<1>8. g.given = f.given /\ g.exposed = h.exposed /\ g.bound = f.bound \o others
  BY <1>6, <1>7 DEF Called
<1>9. waiting' = Append(Front(Beneath), g)
  BY <1>2, <1>4, <1>6, <1>7
<1>10. /\ waiting' \in Seq(Waiting) /\ Ordered(waiting') /\ waiting' # <<>>
       /\ Unwinds(waiting') => Unwinds(waiting)
       /\ Latest' = g /\ Latest'.is = "activation"
  BY <1>1, <1>3, <1>9, BothReplaced
<1>11. PadTypes'
  BY <1>1, <1>10, Basics DEF PadInv, PadTypes
<1>12. ~g.exposed => g.bound = g.given
  <2>1. SUFFICES ASSUME ~h.exposed
                 PROVE  f.bound \o others = f.given
    BY <1>8
  <2>2. ~f.exposed /\ f.args.in = "heap"
    BY <1>6, <2>1
  <2>3. others = Tail(f.args.list)
    BY <1>2, <1>4, <2>2
  <2>. QED  BY <1>3, <1>4, <2>2, <2>3 DEF FirstBound
<1>. QED  BY <1>1, <1>10, <1>11, <1>12, ToBody

LEMMA BodyStep ==
  ASSUME PadAssumption, PadInv, Body
  PROVE  PadInv'
<1>1. /\ doing = "body" /\ doing' = "eval"
      /\ waiting' = Append(Beneath, [Latest EXCEPT !.args = InHeap(<<>>), !.given = <<>>,
                                                   !.bound = <<>>, !.exposed = FALSE])
      /\ UNCHANGED <<pad, values, result, throwing, yielded, astray>>
  BY DEF Body, Replace
<1>2. waiting # <<>> /\ Latest.is = "activation"
  BY <1>1 DEF PadInv, AtHand
<1>3. PICK f \in Called : f = Latest
  BY <1>2, Above, Kinds
<1>4. PICK g \in Called :
        g = [f EXCEPT !.args = InHeap(<<>>), !.given = <<>>, !.bound = <<>>, !.exposed = FALSE]
  <2>1. InHeap(<<>>) \in HeapRef /\ <<>> \in List
    BY Basics
  <2>2. [f EXCEPT !.args = InHeap(<<>>), !.given = <<>>, !.bound = <<>>, !.exposed = FALSE]
          \in Called
    BY <2>1 DEF Called
  <2>. QED  BY <2>2
<1>5. waiting' = Append(Beneath, g)
  BY <1>1, <1>3, <1>4
<1>6. waiting' \in Seq(Waiting) /\ Ordered(waiting') /\ (Unwinds(waiting') => Unwinds(waiting))
  BY <1>2, <1>5, Replaced
<1>7. PadTypes'
  BY <1>1, <1>6 DEF PadInv, PadTypes
<1>. QED  BY <1>1, <1>6, <1>7, ToEval

LEMMA ReturnCallStep ==
  ASSUME PadAssumption, PadInv, ReturnCall
  PROVE  PadInv'
<1>1. /\ doing = "return" /\ waiting # <<>> /\ waiting' = Beneath
      /\ IF Latest.traced THEN TracedValues ELSE UNCHANGED <<doing, pad, values, result>>
      /\ UNCHANGED <<throwing, yielded, astray>>
  BY DEF ReturnCall
<1>2. waiting' \in Seq(Waiting) /\ Ordered(waiting') /\ (Unwinds(waiting') => Unwinds(waiting))
  BY <1>1, Above
<1>3. ~astray => Collected = yielded
  BY <1>1 DEF PadInv, ValuesIntact
<1>4. CASE TracedValues
  <2>1. PICK list \in List : list = Collected
    BY CollectedList DEF PadInv
  <2>2. InHeap(list) \in HeapRef /\ Content(InHeap(list)) = list
    BY Basics DEF InHeap, Content
  <2>3. /\ doing' = "return" /\ pad' \in Pad /\ result' \in Cell
        /\ values' \in Outside \union {InPad(1), InPad(2)}
        /\ Collected' = list
    BY <1>4, <2>1, <2>2, Returned DEF TracedValues, PadInv
  <2>4. PadTypes'
    BY <1>1, <1>2, <2>3 DEF PadInv, PadTypes
  <2>. QED  BY <1>1, <1>2, <1>3, <2>1, <2>3, <2>4, ToReturn
<1>5. CASE UNCHANGED <<doing, pad, values, result>>
  <2>1. PadTypes'
    BY <1>1, <1>2, <1>5 DEF PadInv, PadTypes
  <2>2. Collected' = Collected
    BY <1>5 DEF Collected, Content
  <2>. QED  BY <1>1, <1>2, <1>3, <1>5, <2>1, <2>2, ToReturn
<1>. QED  BY <1>1, <1>4, <1>5

\* Values that are not in the pad stay when it is restored.
LEMMA EndCatchStep ==
  ASSUME PadAssumption, PadInv, EndCatch
  PROVE  PadInv'
<1>1. /\ doing = "return" /\ waiting # <<>> /\ Latest.is = "catch"
      /\ waiting' = Beneath /\ pad' = Latest.pad
      /\ astray' = (astray \/ values.in = "pad")
      /\ UNCHANGED <<doing, values, result, throwing, yielded>>
  BY DEF EndCatch
<1>2. waiting' \in Seq(Waiting) /\ Ordered(waiting') /\ (Unwinds(waiting') => Unwinds(waiting))
  BY <1>1, Above
<1>3. pad' \in Pad
  BY <1>1, Above, Kinds
<1>4. PadTypes'
  BY <1>1, <1>2, <1>3 DEF PadInv, PadTypes
<1>5. ASSUME values.in # "pad"
      PROVE  Collected' = Collected
  <2>1. Content(values)' = Content(values)
    BY <1>1, <1>5 DEF Content
  <2>. QED  BY <1>1, <2>1 DEF Collected
<1>6. ~astray' => Collected' = yielded'
  BY <1>1, <1>5 DEF PadInv, ValuesIntact
<1>. QED  BY <1>1, <1>2, <1>4, <1>6, ToReturn

LEMMA EndProtectedStep ==
  ASSUME PadAssumption, PadInv, EndProtected
  PROVE  PadInv'
<1>1. /\ doing = "return" /\ waiting # <<>> /\ Latest.is = "protect"
      /\ waiting' = Append(Beneath, [is |-> "cleanup", list |-> Collected,
                                     yielded |-> yielded, astray |-> astray])
      /\ pad' = Latest.pad /\ values' = (IF values = None THEN None ELSE One) /\ doing' = "eval"
      /\ result' = Junk /\ yielded' = <<>> /\ astray' = FALSE
      /\ throwing' = throwing
  BY DEF EndProtected, Replace, Taken
<1>2. PICK list \in List : list = Collected /\ (~astray => list = yielded)
  <2>1. Collected \in List
    BY CollectedList DEF PadInv
  <2>. QED  BY <1>1, <2>1 DEF PadInv, ValuesIntact
<1>3. PICK f \in Cleanup :
        f = [is |-> "cleanup", list |-> list, yielded |-> yielded, astray |-> astray]
  <2>1. yielded \in List /\ astray \in BOOLEAN
    BY DEF PadInv, PadTypes
  <2>2. [is |-> "cleanup", list |-> list, yielded |-> yielded, astray |-> astray] \in Cleanup
    BY <1>2, <2>1 DEF Cleanup
  <2>. QED  BY <2>2
<1>4. /\ waiting' \in Seq(Waiting) /\ Ordered(waiting')
      /\ Unwinds(waiting') => Unwinds(waiting)
  BY <1>1, <1>2, <1>3, Above, Pushed
<1>5. pad' \in Pad
  BY <1>1, Above, Kinds
<1>6. PadTypes'
  BY <1>1, <1>4, <1>5, Basics DEF PadInv, PadTypes
<1>. QED  BY <1>1, <1>4, <1>6, ToEval

LEMMA ReturnCleanupStep ==
  ASSUME PadAssumption, PadInv, ReturnCleanup
  PROVE  PadInv'
<1>1. /\ doing = "return" /\ waiting # <<>> /\ Latest.is = "cleanup"
      /\ waiting' = Beneath /\ ReturnValues(InHeap(Latest.list))
      /\ yielded' = Latest.yielded /\ astray' = Latest.astray /\ throwing' = throwing
  BY DEF ReturnCleanup
<1>2. waiting' \in Seq(Waiting) /\ Ordered(waiting') /\ (Unwinds(waiting') => Unwinds(waiting))
  BY <1>1, Above
<1>3. PICK f \in Cleanup : f = Latest
  BY <1>1, Above, Kinds
<1>4. /\ f.list \in List /\ f.yielded \in List /\ f.astray \in BOOLEAN
      /\ ~f.astray => f.list = f.yielded
  BY DEF Cleanup
<1>5. InHeap(f.list) \in HeapRef /\ Content(InHeap(f.list)) = f.list
  BY <1>4, Basics DEF InHeap, Content
<1>6. /\ doing' = "return" /\ pad' \in Pad /\ result' \in Cell
      /\ values' \in Outside \union {InPad(1), InPad(2)}
      /\ Collected' = f.list
  BY <1>1, <1>3, <1>5, Returned DEF PadInv
<1>7. PadTypes'
  BY <1>1, <1>2, <1>3, <1>4, <1>6 DEF PadInv, PadTypes
<1>. QED  BY <1>1, <1>2, <1>3, <1>4, <1>6, <1>7, ToReturn

LEMMA GetValuesStep ==
  ASSUME PadAssumption, PadInv, GetValues
  PROVE  PadInv'
<1>1. PICK here \in Cell : here = Here
  BY HereIs DEF PadInv
<1>2. /\ doing = "return" /\ waiting # <<>> /\ waiting' = Beneath
      /\ values' = (IF values = None THEN None ELSE One)
      /\ result' = here /\ yielded' = <<here>> /\ astray' = (values = None)
      /\ UNCHANGED <<doing, pad, throwing>>
  BY <1>1 DEF GetValues
<1>3. waiting' \in Seq(Waiting) /\ Ordered(waiting') /\ (Unwinds(waiting') => Unwinds(waiting))
  BY <1>2, Above
<1>4. PadTypes'
  <2>1. values' \in Outside
    BY <1>2, Basics
  <2>. QED  BY <1>2, <1>3, <2>1, Basics DEF PadInv, PadTypes
<1>5. ~astray' => Collected' = yielded'
  BY <1>2 DEF Collected, None, One
<1>. QED  BY <1>2, <1>3, <1>4, <1>5, ToReturn

LEMMA EndFormStep ==
  ASSUME PadAssumption, PadInv, EndForm
  PROVE  PadInv'
<1>1. PICK here \in Cell : here = Here
  BY HereIs DEF PadInv
<1>2. /\ doing = "return" /\ waiting # <<>> /\ waiting' = Beneath
      /\ result' = here /\ yielded' = <<here>> /\ astray' = (values # One)
      /\ UNCHANGED <<doing, pad, values, throwing>>
  BY <1>1 DEF EndForm
<1>3. waiting' \in Seq(Waiting) /\ Ordered(waiting') /\ (Unwinds(waiting') => Unwinds(waiting))
  BY <1>2, Above
<1>4. PadTypes'
  BY <1>2, <1>3, Basics DEF PadInv, PadTypes
<1>5. ASSUME ~astray'
      PROVE  Collected' = yielded'
  <2>1. values' = One
    BY <1>2, <1>5
  <2>. QED  BY <1>2, <2>1 DEF Collected, None, One
<1>. QED  BY <1>2, <1>3, <1>4, <1>5, ToReturn

-----------------------------------------------------------------------------
(* Unwinding.                                                              *)

\* The values are put aside as they are when the throw begins.
LEMMA ThrowValuesStep ==
  ASSUME PadAssumption, PadInv, ThrowValues
  PROVE  PadInv'
<1>1. /\ doing = "return" /\ waiting # <<>> /\ Latest.is = "throw"
      /\ \E i \in DOMAIN waiting : waiting[i].is = "catch"
      /\ \A i \in DOMAIN waiting : waiting[i].is # "unwound"
      /\ throwing' = [value |-> result, yielded |-> yielded, astray |-> astray,
                      values |-> IF values.in = "pad" THEN InHeap(Content(values)) ELSE values]
      /\ values' = One
      /\ waiting' = Beneath /\ doing' = "unwind" /\ pad' = pad
      /\ result' = Junk /\ yielded' = <<>> /\ astray' = FALSE
  BY DEF ThrowValues, Taken
<1>2. Catches(waiting) /\ ~Unwinds(waiting)
  BY <1>1 DEF Catches, Unwinds
<1>3. /\ waiting' \in Seq(Waiting) /\ Ordered(waiting')
      /\ Catches(waiting') /\ ~Unwinds(waiting')
  BY <1>1, <1>2, Above
<1>4. /\ result \in Cell /\ yielded \in List /\ astray \in BOOLEAN
      /\ values \in Outside \union {InPad(1), InPad(2)}
      /\ ~astray => Collected = yielded
  BY <1>1 DEF PadInv, PadTypes, ValuesIntact
<1>5. PICK aside \in Outside :
        /\ aside = IF values.in = "pad" THEN InHeap(Content(values)) ELSE values
        /\ Collected = CASE aside = None -> <<>>
                         [] aside = One -> <<result>>
                         [] OTHER -> <<result>> \o aside.list
  <2>1. CASE values \in Outside
    <3>1. values.in # "pad"
      BY <2>1 DEF Outside, HeapRef, One, None
    <3>2. Content(values) = values.list
      BY <3>1 DEF Content
    <3>. QED  BY <2>1, <3>1, <3>2 DEF Collected
  <2>2. CASE values \in {InPad(1), InPad(2)}
    <3>1. PICK list \in List : list = Content(values)
      BY <2>2, ContentList DEF PadInv
    <3>2. values.in = "pad" /\ values # None /\ values # One
      BY <2>2 DEF InPad, None, One
    <3>3. InHeap(list) \in Outside /\ InHeap(list).list = list
          /\ InHeap(list) # None /\ InHeap(list) # One
      BY Basics DEF InHeap, None, One
    <3>4. Collected = <<result>> \o list
      BY <3>1, <3>2 DEF Collected
    <3>. QED  BY <3>1, <3>2, <3>3, <3>4
  <2>. QED  BY <1>4, <2>1, <2>2
<1>6. throwing' = [value |-> result, yielded |-> yielded, astray |-> astray, values |-> aside]
  BY <1>1, <1>5
<1>7. PadTypes'
  <2>1. throwing' \in Thrown
    BY <1>4, <1>6 DEF Thrown
  <2>. QED  BY <1>1, <1>3, <2>1, Basics DEF PadInv, PadTypes
<1>8. ThrownValues' = Collected
  BY <1>5, <1>6 DEF ThrownValues
<1>9. ThrownRight'
  BY <1>4, <1>6, <1>8 DEF ThrownRight
<1>. QED  BY <1>1, <1>3, <1>7, <1>9 DEF PadInv, AtHand, GivenThere, ArgumentsIntact, ValuesIntact

\* The unwinding goes on.
LEMMA ToUnwind ==
  ASSUME PadInv, PadTypes', Ordered(waiting'), throwing' = throwing, doing' = "unwind",
         doing = "unwind" \/ Unwinds(waiting), Catches(waiting'), ~Unwinds(waiting')
  PROVE  PadInv'
<1>1. ThrownRight'
  BY ThrowStays DEF PadInv
<1>. QED  BY <1>1 DEF PadInv, AtHand, GivenThere, ArgumentsIntact, ValuesIntact

LEMMA Unwinding ==
  ASSUME PadInv, doing = "unwind"
  PROVE  waiting # <<>> /\ Catches(waiting) /\ ~Unwinds(waiting)
<1>1. Catches(waiting) /\ ~Unwinds(waiting)
  BY DEF PadInv, AtHand
<1>2. waiting # <<>>
  <2>1. PICK i \in DOMAIN waiting : TRUE
    BY <1>1 DEF Catches
  <2>2. DOMAIN <<>> = {}
    OBVIOUS
  <2>. QED  BY <2>1, <2>2
<1>. QED  BY <1>1, <1>2

LEMMA LeaveFormStep ==
  ASSUME PadAssumption, PadInv, LeaveForm
  PROVE  PadInv'
<1>1. /\ doing = "unwind" /\ Latest.is # "catch" /\ waiting' = Beneath
      /\ UNCHANGED <<doing, pad, values, result, throwing, yielded, astray>>
  BY DEF LeaveForm
<1>2. /\ waiting' \in Seq(Waiting) /\ Ordered(waiting')
      /\ Catches(waiting') /\ ~Unwinds(waiting')
  BY <1>1, Unwinding, Above
<1>3. PadTypes'
  BY <1>1, <1>2 DEF PadInv, PadTypes
<1>. QED  BY <1>1, <1>2, <1>3, ToUnwind

LEMMA CatchThrownStep ==
  ASSUME PadAssumption, PadInv, CatchThrown
  PROVE  PadInv'
<1>1. /\ doing = "unwind" /\ Latest.is = "catch" /\ waiting' = Beneath /\ doing' = "return"
      /\ pad' = Latest.pad /\ result' = throwing.value /\ values' = throwing.values
      /\ yielded' = throwing.yielded /\ astray' = throwing.astray
      /\ throwing' = NothingThrown
  BY DEF CatchThrown
<1>2. waiting' \in Seq(Waiting) /\ Ordered(waiting') /\ ~Unwinds(waiting')
  BY <1>1, Unwinding, Above
<1>3. throwing \in Thrown
  BY DEF PadInv, PadTypes
<1>4. /\ throwing.value \in Cell /\ throwing.yielded \in List
      /\ throwing.astray \in BOOLEAN /\ throwing.values \in Outside
  BY <1>3 DEF Thrown
<1>5. PadTypes'
  <2>1. pad' \in Pad
    BY <1>1, Unwinding, Above, Kinds
  <2>2. throwing' \in Thrown
    BY <1>1, Basics DEF NothingThrown, Thrown
  <2>. QED  BY <1>1, <1>2, <1>4, <2>1, <2>2 DEF PadTypes
<1>6. Collected' = ThrownValues
  <2>1. values' \in Outside /\ values'.in # "pad"
    BY <1>1, <1>4 DEF Outside, HeapRef, One, None
  <2>2. Content(values)' = values'.list
    BY <2>1 DEF Content
  <2>. QED  BY <1>1, <2>2 DEF Collected, ThrownValues
<1>7. ~throwing.astray => ThrownValues = throwing.yielded
  BY <1>1 DEF PadInv, ThrownRight
<1>8. ThrownRight'
  BY <1>1, <1>2 DEF ThrownRight
<1>. QED  BY <1>1, <1>2, <1>5, <1>6, <1>7, <1>8
          DEF PadInv, AtHand, GivenThere, ArgumentsIntact, ValuesIntact

LEMMA PushedUnwound ==
  ASSUME NEW s \in Seq(Waiting), Ordered(s), Catches(s), ~Unwinds(s)
  PROVE  Append(s, [is |-> "unwound"]) \in Seq(Waiting) /\ Ordered(Append(s, [is |-> "unwound"]))
<1>1. PICK f \in Waiting : f = [is |-> "unwound"] /\ f.is = "unwound"
  <2>1. [is |-> "unwound"] \in Waiting
    BY DEF Waiting
  <2>. QED  BY <2>1
<1>2. PICK n \in Nat : n = Len(s) /\ DOMAIN s = 1..n
  OBVIOUS
<1>3. PICK t \in Seq(Waiting) :
        /\ t = Append(s, f) /\ DOMAIN t = 1..(n + 1)
        /\ \A i \in 1..n : t[i] = s[i]
        /\ t[n + 1] = f
  <2>1. /\ Append(s, f) \in Seq(Waiting)
        /\ DOMAIN Append(s, f) = 1..(n + 1)
        /\ \A i \in 1..n : Append(s, f)[i] = s[i]
        /\ Append(s, f)[n + 1] = f
    BY ONLY <1>1, <1>2, AppendIs
  <2>. QED  BY <2>1
<1>4. ASSUME NEW i \in DOMAIN t, t[i].is = "default"
      PROVE  i > 1 /\ t[i - 1].is = "activation" /\ FirstBound(t[i - 1])
  <2>1. i \in DOMAIN s /\ s[i].is = "default"
    BY <1>1, <1>2, <1>3, <1>4
  <2>2. i > 1 /\ s[i - 1].is = "activation" /\ FirstBound(s[i - 1])
    BY <2>1 DEF Ordered
  <2>3. i - 1 \in 1..n
    BY <1>2, <2>1, <2>2
  <2>. QED  BY <1>3, <2>2, <2>3
<1>5. ASSUME NEW i \in DOMAIN t, t[i].is = "unwound"
      PROVE  i = n + 1
  <2>1. SUFFICES ASSUME i # n + 1
                 PROVE  FALSE
    OBVIOUS
  <2>2. i \in DOMAIN s /\ s[i].is = "unwound"
    BY <1>2, <1>3, <1>5, <2>1
  <2>. QED  BY <2>2 DEF Unwinds
<1>6. PICK j \in 1..n : s[j].is = "catch"
  BY <1>2 DEF Catches
<1>7. j \in DOMAIN t /\ j < n + 1 /\ t[j].is = "catch"
  BY <1>2, <1>3, <1>6
<1>8. Ordered(t)
  BY <1>4, <1>5, <1>7 DEF Ordered
<1>. QED  BY <1>1, <1>3, <1>8

LEMMA BeginUnwoundStep ==
  ASSUME PadAssumption, PadInv, BeginUnwound
  PROVE  PadInv'
<1>1. /\ doing = "unwind" /\ Latest.is = "protect" /\ doing' = "eval"
      /\ waiting' = Append(Beneath, [is |-> "unwound"])
      /\ pad' = Latest.pad
      /\ UNCHANGED <<values, result, throwing, yielded, astray>>
  BY DEF BeginUnwound, Replace
<1>2. /\ Beneath \in Seq(Waiting) /\ Ordered(Beneath) /\ Catches(Beneath) /\ ~Unwinds(Beneath)
  BY <1>1, Unwinding, Above
<1>3. waiting' \in Seq(Waiting) /\ Ordered(waiting')
  BY <1>1, <1>2, PushedUnwound
<1>4. PadTypes'
  <2>1. pad' \in Pad
    BY <1>1, Unwinding, Above, Kinds
  <2>. QED  BY <1>1, <1>3, <2>1 DEF PadInv, PadTypes
<1>5. ThrownRight'
  <2>1. ThrownValues' = ThrownValues
    BY <1>1 DEF ThrownValues
  <2>. QED  BY <1>1, <2>1 DEF PadInv, ThrownRight
<1>. QED  BY <1>1, <1>3, <1>4, <1>5 DEF PadInv, AtHand, GivenThere, ArgumentsIntact, ValuesIntact

LEMMA EndUnwoundStep ==
  ASSUME PadAssumption, PadInv, EndUnwound
  PROVE  PadInv'
<1>1. /\ doing = "return" /\ waiting # <<>> /\ Latest.is = "unwound"
      /\ waiting' = Beneath /\ doing' = "unwind"
      /\ result' = Junk /\ yielded' = <<>> /\ astray' = FALSE
      /\ UNCHANGED <<pad, values, throwing>>
  BY DEF EndUnwound, Taken
<1>2. /\ waiting' \in Seq(Waiting) /\ Ordered(waiting')
      /\ Unwinds(waiting) /\ Catches(waiting') /\ ~Unwinds(waiting')
  BY <1>1, Above
<1>3. PadTypes'
  BY <1>1, <1>2, Basics DEF PadInv, PadTypes
<1>. QED  BY <1>1, <1>2, <1>3, ToUnwind

-----------------------------------------------------------------------------
(* The theorem.                                                            *)

LEMMA PadInitial ==
  ASSUME PadAssumption, PadInit
  PROVE  PadInv
<1>1. /\ waiting \in {<<>>, <<[Invocation(InHeap(<<>>), <<>>) EXCEPT !.reuse = TRUE]>>}
      /\ doing = "eval"
      /\ pad = [i \in 1..SCRATCH_PAD_SIZE |-> Blank] /\ values = One
      /\ result = Junk /\ throwing = NothingThrown
      /\ yielded = <<>> /\ astray = FALSE
  BY DEF PadInit
<1>2. PICK f \in Called : f = [Invocation(InHeap(<<>>), <<>>) EXCEPT !.reuse = TRUE]
  <2>1. PICK g \in Called : g = Invocation(InHeap(<<>>), <<>>)
    BY Basics, Invoked
  <2>2. [g EXCEPT !.reuse = TRUE] \in Called
    BY DEF Called
  <2>. QED  BY <2>1, <2>2
<1>3. f \in Waiting /\ f.is = "activation"
  BY DEF Called, Waiting
<1>4. waiting \in Seq(Waiting) /\ Ordered(waiting) /\ ~Unwinds(waiting)
  <2>1. CASE waiting = <<>>
    BY <2>1 DEF Ordered, Unwinds
  <2>2. CASE waiting = <<f>>
    <3>1. waiting \in Seq(Waiting) /\ DOMAIN waiting = {1} /\ waiting[1] = f
      BY <1>3, <2>2
    <3>. QED  BY <1>3, <3>1 DEF Ordered, Unwinds
  <2>. QED  BY <1>1, <1>2, <2>1, <2>2
<1>5. pad \in Pad
  BY <1>1 DEF Pad, Cell
<1>6. throwing \in Thrown
  BY <1>1, Basics DEF NothingThrown, Thrown
<1>7. PadTypes
  BY <1>1, <1>4, <1>5, <1>6, Basics DEF PadTypes
<1>. QED  BY <1>1, <1>4, <1>7
          DEF PadInv, AtHand, GivenThere, ThrownRight, ArgumentsIntact, ValuesIntact

LEMMA PadUnchanged ==
  ASSUME PadInv, UNCHANGED padVars
  PROVE  PadInv'
<1>1. /\ waiting' = waiting /\ doing' = doing /\ pad' = pad /\ values' = values
      /\ result' = result /\ throwing' = throwing /\ yielded' = yielded /\ astray' = astray
  BY DEF padVars
<1>. QED  BY <1>1 DEF PadInv, PadTypes, AtHand, GivenThere, ThrownRight, ThrownValues,
                     ArgumentsIntact, ValuesIntact, Collected, Content, Latest

LEMMA PadInvariant == PadSpec => []PadInv
<1>0. PadAssumption
  BY PadAssumption
<1>1. PadInit => PadInv
  BY <1>0, PadInitial
<1>2. PadInv /\ [PadNext]_padVars => PadInv'
  <2>1. SUFFICES ASSUME PadInv, [PadNext]_padVars
                 PROVE  PadInv'
    OBVIOUS
  <2>2. CASE Constant \/ BeginForm \/ BeginCall \/ NextArgument \/ ApplyCall \/ TailApply
    BY <1>0, <2>1, <2>2, ConstantStep, BeginFormStep, BeginCallStep, NextArgumentStep,
       ApplyCallStep, TailApplyStep
  <2>3. CASE Invoke \/ ApplyClosure \/ ApplyGeneric \/ ApplyEval \/ ApplyValues
    BY <1>0, <2>1, <2>3, InvokeStep, ApplyClosureStep, ApplyGenericStep, ApplyEvalStep,
       ApplyValuesStep
  <2>4. CASE Bind \/ BindFirst \/ BindOthers \/ Body \/ ReturnCall
    BY <1>0, <2>1, <2>4, BindStep, BindFirstStep, BindOthersStep, BodyStep, ReturnCallStep
  <2>5. CASE EndCatch \/ EndProtected \/ ReturnCleanup \/ GetValues \/ EndForm
    BY <1>0, <2>1, <2>5, EndCatchStep, EndProtectedStep, ReturnCleanupStep, GetValuesStep,
       EndFormStep
  <2>6. CASE ThrowValues \/ LeaveForm \/ CatchThrown \/ BeginUnwound \/ EndUnwound
    BY <1>0, <2>1, <2>6, ThrowValuesStep, LeaveFormStep, CatchThrownStep, BeginUnwoundStep,
       EndUnwoundStep
  <2>7. CASE UNCHANGED padVars
    BY <2>1, <2>7, PadUnchanged
  <2>. QED  BY <2>1, <2>2, <2>3, <2>4, <2>5, <2>6, <2>7 DEF PadNext
<1>. QED  BY <1>1, <1>2, PTL DEF PadSpec

\* Arguments reach the function they were evaluated for, and values who wants
\* them, whatever else uses the pad (dfsch.c, eval_args_and_apply,
\* destructure_impl and dfsch_values_list).
THEOREM ArgumentsAndValuesArrive == PadSpec => []PassedIntact
<1>1. PadInv => PassedIntact
  BY DEF PadInv, PassedIntact
<1>. QED  BY <1>1, PadInvariant, PTL
=============================================================================
