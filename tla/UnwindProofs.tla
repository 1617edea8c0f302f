---------------------------- MODULE UnwindProofs ----------------------------
(***************************************************************************)
(* Theorems about Unwind, for any tags, conditions, handlers, depth of the *)
(* stack and limit of the debugger's recursion.                            *)
(***************************************************************************)
EXTENDS Unwind, WellFoundedInduction, FiniteSetTheorems, TLAPS

-----------------------------------------------------------------------------
(* The operators of the model.                                             *)

\* The innermost of some frames is one of them, and none is further in.
LEMMA InnermostIs ==
  ASSUME NEW n \in Nat, NEW frames \in SUBSET (1..n)
  PROVE  /\ frames = {} => Innermost(frames) = 0
         /\ frames # {} => /\ Innermost(frames) \in frames
                           /\ \A e \in frames : e <= Innermost(frames)
<1>1. CASE frames = {}
  BY <1>1 DEF Innermost
<1>2. CASE frames # {}
  <2>. DEFINE above == {k \in Nat : n - k \in frames}
  <2>1. above # {} /\ above \subseteq Nat
    <3>1. PICK e \in frames : TRUE
      BY <1>2
    <3>2. n - e \in Nat /\ n - (n - e) = e
      OBVIOUS
    <3>. QED  BY <3>1, <3>2
  <2>2. PICK k \in above : \A j \in above : ~(<<j, k>> \in OpToRel(<, Nat))
    <3>. HIDE DEF above
    <3>. QED  BY <2>1, NatLessThanWellFounded, WFMin, Zenon
  <2>3. OpToRel(<, Nat) = {ss \in Nat \X Nat : ss[1] < ss[2]}
    BY DEF OpToRel
  <2>4. \A e \in frames : e <= n - k
    <3>1. SUFFICES ASSUME NEW e \in frames, ~(e <= n - k)
                   PROVE  FALSE
      OBVIOUS
    <3>2. n - e \in above /\ n - e < k /\ k \in Nat /\ n - e \in Nat
      <4>1. n - e \in Nat /\ n - (n - e) = e
        OBVIOUS
      <4>. QED  BY <3>1, <4>1
    <3>3. <<n - e, k>> \in {ss \in Nat \X Nat : ss[1] < ss[2]}
      BY <3>2
    <3>. QED  BY <2>2, <2>3, <3>2, <3>3
  <2>. QED  BY <1>2, <2>4 DEF Innermost
<1>. QED  BY <1>1, <1>2

\* The innermost is the last, where that is one of them.
LEMMA InnermostLast ==
  ASSUME NEW n \in Nat, NEW frames \in SUBSET (1..n), n \in frames
  PROVE  Innermost(frames) = n
<1>1. Innermost(frames) \in frames /\ n <= Innermost(frames)
  BY InnermostIs
<1>2. Innermost(frames) \in 1..n
  BY <1>1
<1>. QED  BY <1>1, <1>2

\* The frames from one on are as many as before, and one more when a frame is
\* added further in.
LEMMA CountFrom ==
  ASSUME NEW n \in Nat, NEW frames \in SUBSET (1..n)
  PROVE  /\ IsFiniteSet(frames) /\ Cardinality(frames) \in Nat
         /\ Cardinality(frames \union {n + 1}) = Cardinality(frames) + 1
         /\ \A d \in frames :
              /\ Cardinality({e \in frames : e >= d}) \in 1..Cardinality(frames)
              /\ Cardinality({e \in frames \union {n + 1} : e >= d})
                   = Cardinality({e \in frames : e >= d}) + 1
         /\ Cardinality({e \in frames \union {n + 1} : e >= n + 1}) = 1
<1>1. IsFiniteSet(1..n)
  BY FS_Interval
<1>2. IsFiniteSet(frames)
  BY <1>1, FS_Subset
<1>3. Cardinality(frames) \in Nat
  BY <1>2, FS_CardinalityType
<1>4. n + 1 \notin frames
  OBVIOUS
<1>5. Cardinality(frames \union {n + 1}) = Cardinality(frames) + 1
  BY <1>2, <1>4, FS_AddElement
<1>6. ASSUME NEW d \in frames
      PROVE  /\ Cardinality({e \in frames : e >= d}) \in 1..Cardinality(frames)
             /\ Cardinality({e \in frames \union {n + 1} : e >= d})
                  = Cardinality({e \in frames : e >= d}) + 1
  <2>. DEFINE from == {e \in frames : e >= d}
  <2>1. IsFiniteSet(from) /\ Cardinality(from) <= Cardinality(frames)
    <3>1. from \in SUBSET frames
      OBVIOUS
    <3>. QED  BY <1>2, <3>1, FS_Subset
  <2>2. Cardinality(from) \in Nat
    BY <2>1, FS_CardinalityType
  <2>3. Cardinality(from) # 0
    <3>1. d \in from
      OBVIOUS
    <3>. QED  BY <2>1, <3>1, FS_EmptySet
  <2>4. {e \in frames \union {n + 1} : e >= d} = from \union {n + 1}
    OBVIOUS
  <2>5. Cardinality(from \union {n + 1}) = Cardinality(from) + 1
    <3>1. n + 1 \notin from
      BY <1>4
    <3>. QED  BY <2>1, <3>1, FS_AddElement
  <2>. QED  BY <1>3, <2>1, <2>2, <2>3, <2>4, <2>5
<1>7. Cardinality({e \in frames \union {n + 1} : e >= n + 1}) = 1
  <2>1. {e \in frames \union {n + 1} : e >= n + 1} = {n + 1}
    <3>1. \A e \in frames : e \in 1..n
      OBVIOUS
    <3>2. \A e \in frames : ~(e >= n + 1)
      BY <3>1
    <3>3. n + 1 >= n + 1
      OBVIOUS
    <3>4. \A e : e \in {d \in frames \union {n + 1} : d >= n + 1} <=> e = n + 1
      BY <3>2, <3>3
    <3>. QED  BY <3>4
  <2>. QED  BY <2>1, FS_Singleton
<1>. QED  BY <1>2, <1>3, <1>5, <1>6, <1>7

\* A list gets what a frame that is further in is of.
LEMMA ListsPush ==
  ASSUME NEW n \in Nat, NEW frames \in SUBSET (1..n), NEW S, NEW list \in Seq(S),
         NEW R, NEW rest \in Seq(R), NEW s, s[n + 1].of \in S, Lists(list, s, frames, rest)
  PROVE  Lists(<<s[n + 1].of>> \o list, s, frames \union {n + 1}, rest)
<1>. DEFINE longer == <<s[n + 1].of>> \o list
            more == frames \union {n + 1}
<1>1. /\ Len(longer) = Len(list) + 1
      /\ longer[1] = s[n + 1].of
      /\ \A i \in 1..Len(list) : longer[i + 1] = list[i]
  OBVIOUS
<1>2. Len(list) = Cardinality(frames) + Len(rest) /\ Len(rest) \in Nat /\ DOMAIN rest = 1..Len(rest)
  BY DEF Lists
<1>3. Cardinality(frames) \in Nat /\ Cardinality(more) = Cardinality(frames) + 1
  BY CountFrom
<1>4. Len(longer) = Cardinality(more) + Len(rest)
  BY <1>1, <1>2, <1>3
<1>5. ASSUME NEW d \in more
      PROVE  longer[Cardinality({e \in more : e >= d})] = s[d].of
  <2>1. CASE d = n + 1
    BY <1>1, <2>1, CountFrom
  <2>2. CASE d \in frames
    <3>. DEFINE k == Cardinality({e \in frames : e >= d})
    <3>1. k \in 1..Cardinality(frames) /\ Cardinality({e \in more : e >= d}) = k + 1
      BY <2>2, CountFrom
    <3>2. list[k] = s[d].of
      BY <2>2 DEF Lists
    <3>3. k \in 1..Len(list)
      BY <1>2, <1>3, <3>1
    <3>4. longer[k + 1] = list[k]
      BY <1>1, <3>3
    <3>. QED  BY <3>1, <3>2, <3>4
  <2>. QED  BY <2>1, <2>2
<1>6. ASSUME NEW i \in DOMAIN rest
      PROVE  longer[Cardinality(more) + i] = rest[i]
  <2>1. Cardinality(frames) + i \in 1..Len(list)
    BY <1>2, <1>3
  <2>2. longer[(Cardinality(frames) + i) + 1] = list[Cardinality(frames) + i]
    BY <1>1, <2>1
  <2>3. (Cardinality(frames) + i) + 1 = Cardinality(more) + i
    BY <1>2, <1>3
  <2>4. list[Cardinality(frames) + i] = rest[i]
    BY DEF Lists
  <2>. QED  BY <2>2, <2>3, <2>4
<1>. QED  BY <1>4, <1>5, <1>6 DEF Lists

-----------------------------------------------------------------------------
(* Types.                                                                  *)

CatchTag == Tag \union ({"gensym"} \X Nat)
Restart == ({"gensym", "bound"} \X Nat) \union {Terminate}
Handler == [type : Type, at : Nat]
Registers ==
  [throw_ret : Nat, catch_list : Seq(CatchTag), handler_list : Seq(Handler),
   restart_list : Seq(Restart)]
Call == [condition : Condition \union {Error}, handler : Handler \union {NoHandler},
         active : Seq(Handler)]
FrameType ==
  [kind : {"catch"}, of : CatchTag, saved : Registers]
    \union [kind : {"protect"}, of : {"body", "return", "throw"}, saved : Registers]
    \union [kind : {"handlers"}, of : Handler, saved : Registers]
    \union [kind : {"restarts"}, of : {"bound"} \X Nat, saved : Registers]
    \union [kind : {"signal"}, of : Call, saved : Registers]
    \union [kind : {"debugger"}, of : {<<>>}, saved : Registers]

-----------------------------------------------------------------------------
(* Which registers fit a stack.                                            *)

\* Every tag of catch_list is that of a catch.
Catching(list, s, d) ==
  /\ Lists(list, s, Catches(s, d), <<>>)
  /\ \A i \in DOMAIN list : \E e \in Catches(s, d) : s[e].of = list[i]

\* The handlers of a list were bound one after the other, by frames of the
\* stack, and none is the one of a call of dfsch_signal or bound between the
\* two.
Apart(list, s, d) ==
  /\ \A i \in DOMAIN list : list[i].at \in 1..d /\ s[list[i].at].kind = "handlers"
  /\ \A i, j \in DOMAIN list : i < j => list[j].at < list[i].at
  /\ \A e \in Signals(s, d) : s[e].of.handler # NoHandler =>
       \A i \in DOMAIN list : list[i].at < s[e].of.handler.at \/ list[i].at > e

Handling(list, s, d) ==
  Lists(list, s, Bindings(s, d), ActiveThen(s, d)) /\ Apart(list, s, d)

Offering(list, s, d) == Lists(list, s, Offers(s, d), <<Terminate>>)

Fit(r, s, d) ==
  /\ r.throw_ret = Innermost(Targets(s, d))
  /\ Catching(r.catch_list, s, d)
  /\ Handling(r.handler_list, s, d)
  /\ Offering(r.restart_list, s, d)

\* The registers that a frame leaves behind.
Under(f) == IF f.kind = "catch" THEN [f.saved EXCEPT !.catch_list = Tail(@)] ELSE f.saved

\* The handler of a call was not active in the calls it is within.
CallKept(s, e) ==
  s[e].of.handler # NoHandler =>
    /\ s[e].of.handler.at \in 1..(e - 1)
    /\ \A c \in Signals(s, e - 1) : s[c].of.handler # NoHandler =>
         s[e].of.handler.at < s[c].of.handler.at \/ s[e].of.handler.at > c

Kept(s, e) ==
  /\ Fit(Under(s[e]), s, e - 1)
  /\ s[e].kind = "catch" => s[e].saved.catch_list # <<>>
  /\ s[e].kind = "signal" => CallKept(s, e)
  /\ s[e].kind = "debugger" => e > 1 /\ s[e - 1].kind = "signal"

Stack(s) == s \in Seq(FrameType) /\ \A e \in 1..Len(s) : Kept(s, e)

\* The frames that are counted: debuggers and bodies of protects; and the
\* cleanups of unwindings.
Debuggers(s, d) == {e \in 1..d : s[e].kind = "debugger"}
Bodies(s, d) == {e \in 1..d : s[e].kind = "protect" /\ s[e].of = "body"}
Pending(s, d) == {e \in 1..d : s[e].kind = "protect" /\ s[e].of = "throw"}

IsTarget(f) == f.kind \in {"catch", "debugger"} \/ (f.kind = "protect" /\ f.of = "body")
IsOffer(f) == f.kind = "restarts" \/ (f.kind = "catch" /\ f.of \notin Tag)

\* What the frames ask for when there is one more.
LEMMA FramesAdd ==
  ASSUME NEW d \in Nat, NEW s
  PROVE  /\ Targets(s, d + 1) =
              IF IsTarget(s[d + 1]) THEN Targets(s, d) \union {d + 1} ELSE Targets(s, d)
         /\ Catches(s, d + 1) =
              IF s[d + 1].kind = "catch" THEN Catches(s, d) \union {d + 1} ELSE Catches(s, d)
         /\ Offers(s, d + 1) =
              IF IsOffer(s[d + 1]) THEN Offers(s, d) \union {d + 1} ELSE Offers(s, d)
         /\ Signals(s, d + 1) =
              IF s[d + 1].kind = "signal" THEN Signals(s, d) \union {d + 1} ELSE Signals(s, d)
<1>1. \A e : e \in 1..(d + 1) <=> e \in 1..d \/ e = d + 1
  OBVIOUS
<1>2. Targets(s, d + 1) =
        IF IsTarget(s[d + 1]) THEN Targets(s, d) \union {d + 1} ELSE Targets(s, d)
  BY <1>1 DEF Targets, IsTarget
<1>3. Catches(s, d + 1) =
        IF s[d + 1].kind = "catch" THEN Catches(s, d) \union {d + 1} ELSE Catches(s, d)
  BY <1>1 DEF Catches
<1>4. Offers(s, d + 1) =
        IF IsOffer(s[d + 1]) THEN Offers(s, d) \union {d + 1} ELSE Offers(s, d)
  BY <1>1 DEF Offers, IsOffer
<1>5. Signals(s, d + 1) =
        IF s[d + 1].kind = "signal" THEN Signals(s, d) \union {d + 1} ELSE Signals(s, d)
  BY <1>1 DEF Signals
<1>. QED  BY <1>2, <1>3, <1>4, <1>5

\* And what counts.
LEMMA CountsAdd ==
  ASSUME NEW d \in Nat, NEW s
  PROVE  /\ Cardinality(Debuggers(s, d)) \in Nat /\ Cardinality(Bodies(s, d)) \in Nat
         /\ Cardinality(Debuggers(s, d + 1)) =
              Cardinality(Debuggers(s, d)) + IF s[d + 1].kind = "debugger" THEN 1 ELSE 0
         /\ Cardinality(Bodies(s, d + 1)) =
              Cardinality(Bodies(s, d))
                + IF s[d + 1].kind = "protect" /\ s[d + 1].of = "body" THEN 1 ELSE 0
         /\ Pending(s, d + 1) =
              IF s[d + 1].kind = "protect" /\ s[d + 1].of = "throw"
              THEN Pending(s, d) \union {d + 1} ELSE Pending(s, d)
<1>1. \A e : e \in 1..(d + 1) <=> e \in 1..d \/ e = d + 1
  OBVIOUS
<1>2. Debuggers(s, d) \in SUBSET (1..d) /\ Bodies(s, d) \in SUBSET (1..d)
  BY DEF Debuggers, Bodies
<1>3. Cardinality(Debuggers(s, d)) \in Nat /\ Cardinality(Bodies(s, d)) \in Nat
  BY <1>2, CountFrom
<1>4. Debuggers(s, d + 1) =
        IF s[d + 1].kind = "debugger" THEN Debuggers(s, d) \union {d + 1} ELSE Debuggers(s, d)
  BY <1>1 DEF Debuggers
<1>5. Bodies(s, d + 1) =
        IF s[d + 1].kind = "protect" /\ s[d + 1].of = "body"
        THEN Bodies(s, d) \union {d + 1} ELSE Bodies(s, d)
  BY <1>1 DEF Bodies
<1>6. Pending(s, d + 1) =
        IF s[d + 1].kind = "protect" /\ s[d + 1].of = "throw"
        THEN Pending(s, d) \union {d + 1} ELSE Pending(s, d)
  BY <1>1 DEF Pending
<1>7. /\ Cardinality(Debuggers(s, d) \union {d + 1}) = Cardinality(Debuggers(s, d)) + 1
      /\ Cardinality(Bodies(s, d) \union {d + 1}) = Cardinality(Bodies(s, d)) + 1
  BY <1>2, CountFrom
<1>. QED  BY <1>3, <1>4, <1>5, <1>6, <1>7

\* The handlers bound since the innermost signal, and those active then, when
\* there is one more frame.
LEMMA BindingsAdd ==
  ASSUME NEW d \in Nat, NEW s, NEW k, k = s[d + 1].kind
  PROVE  /\ k = "signal" => /\ Bindings(s, d + 1) = {}
                            /\ ActiveThen(s, d + 1) = s[d + 1].of.active
         /\ k # "signal" => ActiveThen(s, d + 1) = ActiveThen(s, d)
         /\ k = "handlers" => Bindings(s, d + 1) = Bindings(s, d) \union {d + 1}
         /\ k \notin {"signal", "handlers"} => Bindings(s, d + 1) = Bindings(s, d)
<1>1. \A e : e \in 1..(d + 1) <=> e \in 1..d \/ e = d + 1
  OBVIOUS
<1>2. Signals(s, d + 1) = IF k = "signal" THEN Signals(s, d) \union {d + 1} ELSE Signals(s, d)
  BY FramesAdd
<1>3. Signals(s, d) \in SUBSET (1..d)
  BY DEF Signals
<1>4. CASE k = "signal"
  <2>1. Signals(s, d + 1) \in SUBSET (1..(d + 1)) /\ d + 1 \in Signals(s, d + 1)
    BY <1>1, <1>2, <1>3, <1>4
  <2>2. Innermost(Signals(s, d + 1)) = d + 1
    BY <2>1, InnermostLast
  <2>3. Bindings(s, d + 1) = {}
    BY <2>2 DEF Bindings
  <2>4. ActiveThen(s, d + 1) = s[d + 1].of.active
    BY <2>1, <2>2 DEF ActiveThen
  <2>. QED  BY <1>4, <2>3, <2>4
<1>5. CASE k # "signal"
  <2>1. Signals(s, d + 1) = Signals(s, d)
    BY <1>2, <1>5
  <2>2. Innermost(Signals(s, d)) \in 0..d
    <3>1. CASE Signals(s, d) = {}
      BY <1>3, <3>1, InnermostIs
    <3>2. CASE Signals(s, d) # {}
      <4>1. Innermost(Signals(s, d)) \in Signals(s, d)
        BY <1>3, <3>2, InnermostIs
      <4>. QED  BY <1>3, <4>1
    <3>. QED  BY <3>1, <3>2
  <2>3. d + 1 > Innermost(Signals(s, d))
    BY <2>2
  <2>4. k = "handlers" => Bindings(s, d + 1) = Bindings(s, d) \union {d + 1}
    BY <1>1, <2>1, <2>3 DEF Bindings
  <2>5. k # "handlers" => Bindings(s, d + 1) = Bindings(s, d)
    BY <1>1, <2>1 DEF Bindings
  <2>. QED  BY <1>5, <2>1, <2>4, <2>5 DEF ActiveThen
<1>. QED  BY <1>4, <1>5

\* Stacks that agree up to a frame ask for the same.
LEMMA FramesSame ==
  ASSUME NEW d \in Nat, NEW s, NEW t, \A e \in 1..d : s[e] = t[e]
  PROVE  /\ Targets(s, d) = Targets(t, d) /\ Catches(s, d) = Catches(t, d)
         /\ Offers(s, d) = Offers(t, d) /\ Signals(s, d) = Signals(t, d)
         /\ Bindings(s, d) = Bindings(t, d) /\ ActiveThen(s, d) = ActiveThen(t, d)
         /\ Debuggers(s, d) = Debuggers(t, d) /\ Bodies(s, d) = Bodies(t, d)
         /\ Pending(s, d) = Pending(t, d)
<1>1. /\ Targets(s, d) = Targets(t, d) /\ Catches(s, d) = Catches(t, d)
      /\ Offers(s, d) = Offers(t, d) /\ Signals(s, d) = Signals(t, d)
      /\ Debuggers(s, d) = Debuggers(t, d) /\ Bodies(s, d) = Bodies(t, d)
      /\ Pending(s, d) = Pending(t, d)
  BY DEF Targets, Catches, Offers, Signals, Debuggers, Bodies, Pending
<1>2. Bindings(s, d) = Bindings(t, d)
  BY <1>1 DEF Bindings
<1>3. ActiveThen(s, d) = ActiveThen(t, d)
  <2>1. CASE Signals(s, d) = {}
    BY <1>1, <2>1 DEF ActiveThen
  <2>2. CASE Signals(s, d) # {}
    <3>1. Signals(s, d) \in SUBSET (1..d)
      BY DEF Signals
    <3>2. Innermost(Signals(s, d)) \in 1..d
      BY <2>2, <3>1, InnermostIs
    <3>. QED  BY <1>1, <2>2, <3>2 DEF ActiveThen
  <2>. QED  BY <2>1, <2>2
<1>. QED  BY <1>1, <1>2, <1>3

LEMMA ListsSame ==
  ASSUME NEW d \in Nat, NEW s, NEW t, \A e \in 1..d : s[e] = t[e],
         NEW frames \in SUBSET (1..d), NEW list, NEW rest, Lists(list, s, frames, rest)
  PROVE  Lists(list, t, frames, rest)
BY DEF Lists

\* The frames of a stack are among the first d.
LEMMA FramesWithin ==
  ASSUME NEW d \in Nat, NEW s
  PROVE  /\ Targets(s, d) \in SUBSET (1..d) /\ Catches(s, d) \in SUBSET (1..d)
         /\ Offers(s, d) \in SUBSET (1..d) /\ Signals(s, d) \in SUBSET (1..d)
         /\ Bindings(s, d) \in SUBSET (1..d) /\ Pending(s, d) \in SUBSET (1..d)
BY DEF Targets, Catches, Offers, Signals, Bindings, Pending

LEMMA ApartSame ==
  ASSUME NEW d \in Nat, NEW s, NEW t, \A e \in 1..d : s[e] = t[e], NEW list, Apart(list, s, d)
  PROVE  Apart(list, t, d)
<1>1. Signals(s, d) = Signals(t, d) /\ Signals(s, d) \in SUBSET (1..d)
  BY FramesSame, FramesWithin
<1>2. \A i \in DOMAIN list : list[i].at \in 1..d /\ t[list[i].at].kind = "handlers"
  BY DEF Apart
<1>3. \A e \in Signals(t, d) : s[e] = t[e]
  BY <1>1
<1>4. \A e \in Signals(t, d) : t[e].of.handler # NoHandler =>
        \A i \in DOMAIN list : list[i].at < t[e].of.handler.at \/ list[i].at > e
  BY <1>1, <1>3 DEF Apart
<1>. QED  BY <1>2, <1>4 DEF Apart

\* Parts of what fits.
LEMMA RestSame ==
  ASSUME NEW d \in Nat, NEW s, NEW t, \A e \in 1..d : s[e] = t[e], NEW list
  PROVE  /\ Targets(s, d) = Targets(t, d)
         /\ Catching(list, s, d) => Catching(list, t, d)
         /\ Handling(list, s, d) => Handling(list, t, d)
         /\ Offering(list, s, d) => Offering(list, t, d)
<1>1. /\ Targets(s, d) = Targets(t, d) /\ Catches(s, d) = Catches(t, d)
      /\ Offers(s, d) = Offers(t, d) /\ Signals(s, d) = Signals(t, d)
      /\ Bindings(s, d) = Bindings(t, d) /\ ActiveThen(s, d) = ActiveThen(t, d)
  BY FramesSame
<1>2. /\ Catches(s, d) \in SUBSET (1..d) /\ Offers(s, d) \in SUBSET (1..d)
      /\ Bindings(s, d) \in SUBSET (1..d)
  BY FramesWithin
<1>3. ASSUME Catching(list, s, d)
      PROVE  Catching(list, t, d)
  <2>1. Lists(list, t, Catches(s, d), <<>>)
    BY <1>2, <1>3, ListsSame DEF Catching
  <2>2. \A i \in DOMAIN list : \E e \in Catches(s, d) : t[e].of = list[i]
    BY <1>2, <1>3 DEF Catching
  <2>. QED  BY <1>1, <2>1, <2>2 DEF Catching
<1>4. Handling(list, s, d) => Handling(list, t, d)
  BY <1>1, <1>2, ListsSame, ApartSame DEF Handling
<1>5. Offering(list, s, d) => Offering(list, t, d)
  BY <1>1, <1>2, ListsSame DEF Offering
<1>. QED  BY <1>1, <1>3, <1>4, <1>5

LEMMA FitSame ==
  ASSUME NEW d \in Nat, NEW s, NEW t, \A e \in 1..d : s[e] = t[e], NEW r, Fit(r, s, d)
  PROVE  Fit(r, t, d)
BY RestSame DEF Fit

\* So they agree on which frames are kept.
LEMMA KeptSame ==
  ASSUME NEW d \in Nat, NEW s, NEW t, \A e \in 1..d : s[e] = t[e],
         \A e \in 1..d : Kept(s, e)
  PROVE  \A e \in 1..d : Kept(t, e)
<1>1. SUFFICES ASSUME NEW e \in 1..d  PROVE Kept(t, e)
  OBVIOUS
<1>2. e - 1 \in Nat /\ (\A c \in 1..(e - 1) : c \in 1..d) /\ s[e] = t[e] /\ Kept(s, e)
  OBVIOUS
<1>3. \A c \in 1..(e - 1) : s[c] = t[c]
  BY <1>2
<1>4. Fit(Under(t[e]), t, e - 1)
  BY <1>2, <1>3, FitSame DEF Kept
<1>5. t[e].kind = "signal" => CallKept(t, e)
  <2>1. Signals(s, e - 1) = Signals(t, e - 1) /\ Signals(s, e - 1) \subseteq 1..(e - 1)
    BY <1>2, <1>3 DEF Signals
  <2>. QED  BY <1>2, <1>3, <2>1 DEF Kept, CallKept
<1>6. t[e].kind = "debugger" => e > 1 /\ t[e - 1].kind = "signal"
  BY <1>2, <1>3 DEF Kept
<1>. QED  BY <1>2, <1>4, <1>5, <1>6 DEF Kept

\* A frame that does not concern a register leaves what it has to be alone.
LEMMA FitOther ==
  ASSUME NEW d \in Nat, NEW s, NEW list
  PROVE  /\ ~IsTarget(s[d + 1]) => Targets(s, d + 1) = Targets(s, d)
         /\ s[d + 1].kind # "catch" => (Catching(list, s, d + 1) <=> Catching(list, s, d))
         /\ ~IsOffer(s[d + 1]) => (Offering(list, s, d + 1) <=> Offering(list, s, d))
         /\ s[d + 1].kind \notin {"handlers", "signal"} =>
              (Handling(list, s, d + 1) <=> Handling(list, s, d))
<1>1. ~IsTarget(s[d + 1]) => Targets(s, d + 1) = Targets(s, d)
  BY FramesAdd
<1>2. s[d + 1].kind # "catch" => (Catching(list, s, d + 1) <=> Catching(list, s, d))
  BY FramesAdd DEF Catching
<1>3. ~IsOffer(s[d + 1]) => (Offering(list, s, d + 1) <=> Offering(list, s, d))
  BY FramesAdd DEF Offering
<1>4. ASSUME s[d + 1].kind \notin {"handlers", "signal"}
      PROVE  Handling(list, s, d + 1) <=> Handling(list, s, d)
  <2>1. /\ Bindings(s, d + 1) = Bindings(s, d) /\ ActiveThen(s, d + 1) = ActiveThen(s, d)
        /\ Signals(s, d + 1) = Signals(s, d)
    BY <1>4, BindingsAdd, FramesAdd
  <2>2. Apart(list, s, d + 1) <=> Apart(list, s, d)
    <3>1. ASSUME NEW i \in DOMAIN list
          PROVE  (list[i].at \in 1..(d + 1) /\ s[list[i].at].kind = "handlers")
                   <=> (list[i].at \in 1..d /\ s[list[i].at].kind = "handlers")
      <4>1. \A e : e \in 1..(d + 1) <=> e \in 1..d \/ e = d + 1
        OBVIOUS
      <4>. QED  BY <1>4, <4>1
    <3>. QED  BY <2>1, <3>1 DEF Apart
  <2>. QED  BY <2>1, <2>2 DEF Handling
<1>. QED  BY <1>1, <1>2, <1>3, <1>4

\* catch_list and restart_list get what a frame is of, throw_ret becomes it.
LEMMA TargetAdd ==
  ASSUME NEW d \in Nat, NEW s, IsTarget(s[d + 1])
  PROVE  Innermost(Targets(s, d + 1)) = d + 1
<1>1. Targets(s, d + 1) = Targets(s, d) \union {d + 1}
  BY FramesAdd
<1>2. Targets(s, d + 1) \in SUBSET (1..(d + 1)) /\ d + 1 \in Targets(s, d + 1)
  BY <1>1, FramesWithin
<1>. QED  BY <1>2, InnermostLast

LEMMA CatchAdd ==
  ASSUME NEW d \in Nat, NEW s, s[d + 1].kind = "catch", s[d + 1].of \in CatchTag,
         NEW list \in Seq(CatchTag), Catching(list, s, d)
  PROVE  Catching(<<s[d + 1].of>> \o list, s, d + 1)
<1>1. Catches(s, d + 1) = Catches(s, d) \union {d + 1} /\ Catches(s, d) \in SUBSET (1..d)
  BY FramesAdd, FramesWithin
<1>2. Lists(<<s[d + 1].of>> \o list, s, Catches(s, d + 1), <<>>)
  <2>. DEFINE rest == <<>>
  <2>1. Lists(list, s, Catches(s, d), rest) /\ rest \in Seq(CatchTag)
    BY DEF Catching
  <2>2. Lists(<<s[d + 1].of>> \o list, s, Catches(s, d) \union {d + 1}, rest)
    <3>. HIDE DEF rest
    <3>. QED  BY <1>1, <2>1, ListsPush
  <2>. QED  BY <1>1, <2>2
<1>3. ASSUME NEW i \in DOMAIN (<<s[d + 1].of>> \o list)
      PROVE  \E e \in Catches(s, d + 1) : s[e].of = (<<s[d + 1].of>> \o list)[i]
  <2>1. CASE i = 1
    <3>1. (<<s[d + 1].of>> \o list)[i] = s[d + 1].of
      BY <2>1
    <3>. QED  BY <1>1, <3>1
  <2>2. CASE i # 1
    <3>1. i - 1 \in DOMAIN list /\ (<<s[d + 1].of>> \o list)[i] = list[i - 1]
      BY <1>3, <2>2
    <3>. QED  BY <1>1, <3>1 DEF Catching
  <2>. QED  BY <2>1, <2>2
<1>. QED  BY <1>2, <1>3 DEF Catching

LEMMA OfferAdd ==
  ASSUME NEW d \in Nat, NEW s, IsOffer(s[d + 1]), s[d + 1].of \in Restart,
         NEW list \in Seq(Restart), Offering(list, s, d)
  PROVE  Offering(<<s[d + 1].of>> \o list, s, d + 1)
<1>1. Offers(s, d + 1) = Offers(s, d) \union {d + 1} /\ Offers(s, d) \in SUBSET (1..d)
  BY FramesAdd, FramesWithin
<1>. DEFINE rest == <<Terminate>>
<1>2. Lists(list, s, Offers(s, d), rest) /\ rest \in Seq(Restart)
  BY DEF Offering, Restart
<1>3. Lists(<<s[d + 1].of>> \o list, s, Offers(s, d) \union {d + 1}, rest)
  <2>. HIDE DEF rest
  <2>. QED  BY <1>1, <1>2, ListsPush
<1>. QED  BY <1>1, <1>3 DEF Offering

\* A handler is bound.
LEMMA HandlerAdd ==
  ASSUME NEW d \in Nat, NEW s, s[d + 1].kind = "handlers", s[d + 1].of \in Handler,
         s[d + 1].of.at = d + 1, NEW list \in Seq(Handler), Handling(list, s, d),
         ActiveThen(s, d) \in Seq(Handler)
  PROVE  Handling(<<s[d + 1].of>> \o list, s, d + 1)
<1>. DEFINE longer == <<s[d + 1].of>> \o list
<1>1. /\ Bindings(s, d + 1) = Bindings(s, d) \union {d + 1} /\ Bindings(s, d) \in SUBSET (1..d)
      /\ ActiveThen(s, d + 1) = ActiveThen(s, d)
      /\ Signals(s, d + 1) = Signals(s, d) /\ Signals(s, d) \in SUBSET (1..d)
  BY BindingsAdd, FramesAdd, FramesWithin
<1>2. Lists(longer, s, Bindings(s, d + 1), ActiveThen(s, d + 1))
  <2>1. Lists(list, s, Bindings(s, d), ActiveThen(s, d))
    BY DEF Handling
  <2>. HIDE DEF longer
  <2>. QED  BY <1>1, <2>1, ListsPush DEF longer
<1>3. \A i \in DOMAIN longer :
        \/ i = 1 /\ longer[i] = s[d + 1].of
        \/ i - 1 \in DOMAIN list /\ longer[i] = list[i - 1] /\ i > 1
  OBVIOUS
<1>4. /\ \A i \in DOMAIN list : list[i].at \in 1..d /\ s[list[i].at].kind = "handlers"
      /\ \A i, j \in DOMAIN list : i < j => list[j].at < list[i].at
      /\ \A e \in Signals(s, d) : s[e].of.handler # NoHandler =>
           \A i \in DOMAIN list : list[i].at < s[e].of.handler.at \/ list[i].at > e
  BY DEF Handling, Apart
<1>5. DOMAIN longer \subseteq Nat /\ DOMAIN list \subseteq Nat
  OBVIOUS
<1>6. \A i \in DOMAIN longer : longer[i].at \in 1..(d + 1) /\ s[longer[i].at].kind = "handlers"
  <2>. HIDE DEF longer
  <2>. QED  BY <1>3, <1>4
<1>7. ASSUME NEW i \in DOMAIN longer, NEW j \in DOMAIN longer, i < j
      PROVE  longer[j].at < longer[i].at
  <2>. HIDE DEF longer
  <2>1. j - 1 \in DOMAIN list /\ longer[j] = list[j - 1] /\ list[j - 1].at \in 1..d
    BY <1>3, <1>4, <1>5, <1>7
  <2>2. CASE i = 1
    BY <1>3, <2>1, <2>2
  <2>3. CASE i # 1
    <3>1. i - 1 \in DOMAIN list /\ longer[i] = list[i - 1] /\ i - 1 < j - 1
      BY <1>3, <1>5, <1>7, <2>3
    <3>. QED  BY <1>4, <2>1, <3>1
  <2>. QED  BY <2>2, <2>3
<1>8. ASSUME NEW e \in Signals(s, d + 1), s[e].of.handler # NoHandler, NEW i \in DOMAIN longer
      PROVE  longer[i].at < s[e].of.handler.at \/ longer[i].at > e
  <2>. HIDE DEF longer
  <2>1. e \in 1..d
    BY <1>1
  <2>2. CASE i = 1
    <3>1. longer[i].at = d + 1
      BY <1>3, <2>2
    <3>. QED  BY <2>1, <3>1
  <2>3. CASE i # 1
    <3>1. i - 1 \in DOMAIN list /\ longer[i] = list[i - 1]
      BY <1>3, <2>3
    <3>. QED  BY <1>1, <1>4, <1>8, <3>1
  <2>. QED  BY <2>2, <2>3
<1>9. Apart(longer, s, d + 1)
  <2>. HIDE DEF longer
  <2>. QED  BY <1>6, <1>7, <1>8 DEF Apart
<1>. QED  BY <1>2, <1>9 DEF Handling

\* The handlers stay apart within a call of dfsch_signal that has one of its
\* own, where they are further out than that one.
LEMMA ApartAdd ==
  ASSUME NEW d \in Nat, NEW s, s[d + 1].kind = "signal", NEW list, Apart(list, s, d),
         s[d + 1].of.handler # NoHandler =>
           \A i \in DOMAIN list : list[i].at < s[d + 1].of.handler.at
  PROVE  Apart(list, s, d + 1)
<1>1. Signals(s, d + 1) = Signals(s, d) \union {d + 1}
  BY FramesAdd
<1>. QED  BY <1>1 DEF Apart

\* The handlers active in a call of dfsch_signal are those it was left with.
LEMMA SignalAdd ==
  ASSUME NEW d \in Nat, NEW s, s[d + 1].kind = "signal", NEW list \in Seq(Handler),
         s[d + 1].of.active = list, Apart(list, s, d + 1)
  PROVE  Handling(list, s, d + 1)
<1>1. Bindings(s, d + 1) = {} /\ ActiveThen(s, d + 1) = list
  BY BindingsAdd
<1>2. Cardinality({}) = 0
  BY FS_EmptySet
<1>3. Len(list) \in Nat /\ DOMAIN list \subseteq Nat
  OBVIOUS
<1>4. Lists(list, s, {}, list)
  BY <1>2, <1>3 DEF Lists
<1>. QED  BY <1>1, <1>4 DEF Handling

-----------------------------------------------------------------------------
(* The stack with one frame more, and with fewer.                          *)

LEMMA FrameIs ==
  ASSUME NEW f \in FrameType
  PROVE  /\ f.saved \in Registers
         /\ f.kind \in {"catch", "protect", "handlers", "restarts", "signal", "debugger"}
         /\ f.kind = "catch" => f.of \in CatchTag
         /\ f.kind = "signal" => f.of \in Call
         /\ f.kind = "handlers" => f.of \in Handler
         /\ f.kind # "catch" => Under(f) = f.saved
         /\ f.kind = "catch" /\ f.saved.catch_list # <<>> =>
              Under(f) = [f.saved EXCEPT !.catch_list = Tail(@)] /\ Under(f) \in Registers
<1>1. /\ f.saved \in Registers
      /\ f.kind \in {"catch", "protect", "handlers", "restarts", "signal", "debugger"}
      /\ f.kind = "catch" => f.of \in CatchTag
      /\ f.kind = "signal" => f.of \in Call
      /\ f.kind = "handlers" => f.of \in Handler
  BY DEF FrameType
<1>2. f.kind # "catch" => Under(f) = f.saved
  BY DEF Under
<1>3. ASSUME f.kind = "catch", f.saved.catch_list # <<>>
      PROVE  Under(f) = [f.saved EXCEPT !.catch_list = Tail(@)] /\ Under(f) \in Registers
  <2>1. f.saved.catch_list \in Seq(CatchTag)
    BY <1>1 DEF Registers
  <2>2. Tail(f.saved.catch_list) \in Seq(CatchTag)
    BY <1>3, <2>1
  <2>3. Under(f) = [f.saved EXCEPT !.catch_list = Tail(@)]
    BY <1>3 DEF Under
  <2>. QED  BY <1>1, <2>2, <2>3 DEF Registers
<1>. QED  BY <1>1, <1>2, <1>3

LEMMA Grow ==
  ASSUME NEW s \in Seq(FrameType), NEW f \in FrameType
  PROVE  /\ Append(s, f) \in Seq(FrameType) /\ Len(Append(s, f)) = Len(s) + 1
         /\ Append(s, f)[Len(s) + 1] = f
         /\ \A e \in 1..Len(s) : Append(s, f)[e] = s[e]
         /\ Len(s) \in Nat
OBVIOUS

LEMMA Push ==
  ASSUME NEW s, Stack(s), NEW f \in FrameType, Fit(Under(f), s, Len(s)),
         f.kind = "catch" => f.saved.catch_list # <<>>,
         f.kind = "signal" => CallKept(Append(s, f), Len(s) + 1),
         f.kind = "debugger" => Len(s) > 0 /\ s[Len(s)].kind = "signal"
  PROVE  Stack(Append(s, f))
<1>. DEFINE t == Append(s, f)
            d == Len(s)
<1>1. s \in Seq(FrameType) /\ d \in Nat
  BY DEF Stack
<1>2. /\ t \in Seq(FrameType) /\ Len(t) = d + 1 /\ t[d + 1] = f
      /\ \A e \in 1..d : s[e] = t[e]
  BY <1>1, Grow
<1>. HIDE DEF t, d
<1>3. \A e \in 1..d : Kept(t, e)
  BY <1>1, <1>2, KeptSame DEF Stack, d
<1>4. Kept(t, d + 1)
  <2>1. (d + 1) - 1 = d
    BY <1>1
  <2>2. Fit(Under(f), t, d)
    BY <1>1, <1>2, FitSame DEF d
  <2>3. f.kind = "debugger" => d + 1 > 1 /\ t[d].kind = "signal"
    BY <1>1, <1>2 DEF d
  <2>. QED  BY <1>2, <2>1, <2>2, <2>3 DEF Kept, t, d
<1>5. \A e \in 1..(d + 1) : e \in 1..d \/ e = d + 1
  BY <1>1
<1>. QED  BY <1>2, <1>3, <1>4, <1>5 DEF Stack, t

LEMMA Cut ==
  ASSUME NEW s, Stack(s), NEW d \in 0..Len(s), NEW t, t = SubSeq(s, 1, d)
  PROVE  /\ Stack(t) /\ Len(t) = d /\ d \in Nat
         /\ \A e \in 1..d : s[e] = t[e] /\ e \in 1..Len(s)
<1>1. s \in Seq(FrameType) /\ \A e \in 1..Len(s) : Kept(s, e)
  BY DEF Stack
<1>2. t \in Seq(FrameType) /\ Len(t) = d /\ d \in Nat
  BY <1>1
<1>3. \A e \in 1..d : s[e] = t[e] /\ e \in 1..Len(s)
  BY <1>1
<1>4. \A e \in 1..d : Kept(s, e)
  BY <1>1, <1>3
<1>5. \A e \in 1..d : s[e] = t[e]
  BY <1>3
<1>6. \A e \in 1..d : Kept(t, e)
  BY <1>2, <1>4, <1>5, KeptSame
<1>. QED  BY <1>2, <1>3, <1>6 DEF Stack

\* The frame that is popped, and what it leaves.
LEMMA Pop ==
  ASSUME NEW s, Stack(s), NEW n \in Nat, Len(s) = n + 1
  PROVE  /\ Front(s) = SubSeq(s, 1, n) /\ Stack(Front(s)) /\ Len(Front(s)) = n
         /\ \A e \in 1..n : s[e] = Front(s)[e]
         /\ s[n + 1] \in FrameType /\ Kept(s, n + 1) /\ (n + 1) - 1 = n
         /\ Fit(Under(s[n + 1]), Front(s), n)
<1>1. Front(s) = SubSeq(s, 1, n) /\ n \in 0..Len(s)
  BY DEF Front
<1>2. Stack(Front(s)) /\ Len(Front(s)) = n /\ \A e \in 1..n : s[e] = Front(s)[e]
  BY <1>1, Cut
<1>3. s[n + 1] \in FrameType /\ Kept(s, n + 1) /\ (n + 1) - 1 = n
  BY DEF Stack
<1>4. Fit(Under(s[n + 1]), s, n)
  BY <1>3 DEF Kept
<1>. QED  BY <1>1, <1>2, <1>3, <1>4, FitSame

\* The handlers that were active in a call of dfsch_signal.
LEMMA ActiveType ==
  ASSUME NEW s, Stack(s), NEW d \in 0..Len(s)
  PROVE  ActiveThen(s, d) \in Seq(Handler)
<1>1. CASE Signals(s, d) = {}
  BY <1>1 DEF ActiveThen
<1>2. CASE Signals(s, d) # {}
  <2>. d \in Nat
    BY DEF Stack
  <2>1. Innermost(Signals(s, d)) \in Signals(s, d)
    BY <1>2, FramesWithin, InnermostIs
  <2>2. PICK e \in Signals(s, d) : ActiveThen(s, d) = s[e].of.active
    BY <1>2, <2>1 DEF ActiveThen
  <2>3. s[e] \in FrameType /\ s[e].kind = "signal"
    BY DEF Signals, Stack
  <2>. QED  BY <2>2, <2>3, FrameIs DEF Call
<1>. QED  BY <1>1, <1>2

-----------------------------------------------------------------------------
(* The inductive invariant.                                                *)

\* The stack is one of frames that leave behind what fits the frames beneath
\* them; while code runs the registers fit all of it, while it is unwound
\* throw_ret does.
Shape(s, r, m) ==
  /\ Stack(s) /\ r \in Registers
  /\ m = "running" => Fit(r, s, Len(s))
  /\ m = "unwinding" => r.throw_ret = Innermost(Targets(s, Len(s)))

Counted(s, debuggers, bodies) ==
  /\ debuggers = Cardinality(Debuggers(s, Len(s)))
  /\ bodies = Cardinality(Bodies(s, Len(s)))

\* A throw is on its way to its aim, the innermost catch of its tag in the
\* first d frames.
Going(s, d, t, a) ==
  /\ t = [tag |-> a.tag, value |-> a.value]
  /\ \/ a.tag = Terminate
     \/ a.at > 0 /\ a.at = Innermost({e \in Catches(s, d) : s[e].of = a.tag})

\* The throw that is unwinding is, and the one that waits for the innermost
\* cleanup that it runs, for only that one will continue before it is dropped
\* or another throw is caught inside a cleanup.
Aimed(s, t, a, m, i) ==
  ~i => /\ m = "unwinding" => Going(s, Len(s), t, a)
        /\ m = "running" /\ Pending(s, Len(s)) # {} =>
             Going(s, Innermost(Pending(s, Len(s))) - 1, t, a)

IInv ==
  /\ Shape(forms, reg, mode)
  /\ Counted(forms, debugger_depth, owed)
  /\ Aimed(forms, throw, aim, mode, interrupted)

LEMMA Pushed ==
  ASSUME NEW S, NEW x \in S, NEW list \in Seq(S)
  PROVE  /\ <<x>> \o list \in Seq(S) /\ <<x>> \o list # <<>> /\ Tail(<<x>> \o list) = list
<1>1. <<x>> \o list \in Seq(S) /\ Len(<<x>> \o list) = 1 + Len(list) /\ Len(list) \in Nat
  OBVIOUS
<1>2. <<x>> \o list # <<>>
  <2>1. Len(<<x>> \o list) # 0
    BY <1>1
  <2>. QED  BY <2>1
<1>3. Tail(<<x>> \o list) = list
  OBVIOUS
<1>. QED  BY <1>1, <1>2, <1>3

LEMMA WithThrowRet ==
  ASSUME NEW r \in Registers, NEW n \in Nat, NEW q, q = [r EXCEPT !.throw_ret = n]
  PROVE  /\ q \in Registers /\ q.throw_ret = n /\ q.catch_list = r.catch_list
         /\ q.handler_list = r.handler_list /\ q.restart_list = r.restart_list
BY DEF Registers

LEMMA WithCatches ==
  ASSUME NEW r \in Registers, NEW list \in Seq(CatchTag), NEW q,
         q = [r EXCEPT !.catch_list = list]
  PROVE  /\ q \in Registers /\ q.throw_ret = r.throw_ret /\ q.catch_list = list
         /\ q.handler_list = r.handler_list /\ q.restart_list = r.restart_list
BY DEF Registers

LEMMA WithHandlers ==
  ASSUME NEW r \in Registers, NEW list \in Seq(Handler), NEW q,
         q = [r EXCEPT !.handler_list = list]
  PROVE  /\ q \in Registers /\ q.throw_ret = r.throw_ret /\ q.catch_list = r.catch_list
         /\ q.handler_list = list /\ q.restart_list = r.restart_list
BY DEF Registers

LEMMA WithRestarts ==
  ASSUME NEW r \in Registers, NEW list \in Seq(Restart), NEW q,
         q = [r EXCEPT !.restart_list = list]
  PROVE  /\ q \in Registers /\ q.throw_ret = r.throw_ret /\ q.catch_list = r.catch_list
         /\ q.handler_list = r.handler_list /\ q.restart_list = list
BY DEF Registers

\* A catch f of a tag is entered with registers r, and runs with q: it offers
\* a restart where the tag is none of the program's.
Entered(s, r, tag, f, q) ==
  /\ tag \in CatchTag
  /\ f.kind = "catch" /\ f.of = tag /\ f.saved \in Registers
  /\ f.saved = [r EXCEPT !.catch_list = <<tag>> \o @]
  /\ q \in Registers /\ q.throw_ret = Len(s) + 1
  /\ q.catch_list = <<tag>> \o r.catch_list /\ q.handler_list = r.handler_list
  /\ \/ tag \in Tag /\ q.restart_list = r.restart_list
     \/ tag \notin Tag /\ tag \in Restart /\ q.restart_list = <<tag>> \o r.restart_list

LEMMA CatchFrame ==
  ASSUME NEW s, Stack(s), NEW r \in Registers, Fit(r, s, Len(s)), NEW tag, NEW f \in FrameType,
         NEW q, Entered(s, r, tag, f, q)
  PROVE  Stack(Append(s, f)) /\ Fit(q, Append(s, f), Len(s) + 1) /\ Len(Append(s, f)) = Len(s) + 1
<1>. DEFINE t == Append(s, f)
            d == Len(s)
            list == <<tag>> \o r.catch_list
<1>1. r.catch_list \in Seq(CatchTag) /\ r.restart_list \in Seq(Restart)
  BY DEF Registers
<1>2. tag \in CatchTag /\ f.kind = "catch" /\ f.of = tag
  BY DEF Entered
<1>3. list \in Seq(CatchTag) /\ list # <<>> /\ Tail(list) = r.catch_list
  BY <1>1, <1>2, Pushed
<1>4. f.saved = [r EXCEPT !.catch_list = list] /\ f.saved.catch_list = list
  BY DEF Entered, Registers
<1>5. Under(f) = r
  <2>1. Under(f) = [f.saved EXCEPT !.catch_list = r.catch_list]
    BY <1>3, <1>2, <1>4 DEF Under
  <2>. QED  BY <1>4, <2>1 DEF Registers
<1>6. s \in Seq(FrameType)
  BY DEF Stack
<1>7. /\ d \in Nat /\ t[d + 1] = f /\ \A e \in 1..d : s[e] = t[e]
      /\ Len(t) = d + 1
  BY <1>6, Grow
<1>8. Stack(t)
  BY <1>3, <1>2, <1>4, <1>5, Push
<1>9. /\ q.throw_ret = d + 1 /\ q.catch_list = list /\ q.handler_list = r.handler_list
      /\ \/ tag \in Tag /\ q.restart_list = r.restart_list
         \/ tag \notin Tag /\ tag \in Restart /\ q.restart_list = <<tag>> \o r.restart_list
  BY DEF Entered
<1>. HIDE DEF t, d, list
<1>10. Fit(r, t, d)
  BY <1>7, FitSame DEF d
<1>11. q.throw_ret = Innermost(Targets(t, d + 1))
  BY <1>2, <1>7, <1>9, TargetAdd DEF IsTarget
<1>12. Catching(q.catch_list, t, d + 1)
  BY <1>1, <1>2, <1>7, <1>9, <1>10, CatchAdd DEF Fit, list
<1>13. Handling(q.handler_list, t, d + 1)
  BY <1>2, <1>7, <1>9, <1>10, FitOther DEF Fit
<1>14. Offering(q.restart_list, t, d + 1)
  <2>1. CASE tag \in Tag
    BY <1>2, <1>7, <1>9, <1>10, <2>1, FitOther DEF Fit, IsOffer
  <2>2. CASE tag \notin Tag
    <3>1. IsOffer(t[d + 1]) /\ t[d + 1].of = tag
      BY <1>2, <1>7, <2>2 DEF IsOffer
    <3>2. q.restart_list = <<tag>> \o r.restart_list /\ tag \in Restart
      BY <1>9, <2>2
    <3>3. Offering(r.restart_list, t, d)
      BY <1>10 DEF Fit
    <3>. QED  BY <1>1, <1>7, <3>1, <3>2, <3>3, OfferAdd
  <2>. QED  BY <2>1, <2>2
<1>. QED  BY <1>7, <1>8, <1>11, <1>12, <1>13, <1>14 DEF Fit, t, d

\* Any other frame is pushed, which saves registers that fit.
LEMMA OtherFrame ==
  ASSUME NEW s, Stack(s), NEW f \in FrameType, f.kind # "catch", Fit(f.saved, s, Len(s)),
         f.kind = "signal" => CallKept(Append(s, f), Len(s) + 1),
         f.kind = "debugger" => Len(s) > 0 /\ s[Len(s)].kind = "signal"
  PROVE  /\ Stack(Append(s, f)) /\ Len(s) \in Nat /\ Append(s, f)[Len(s) + 1] = f
         /\ \A e \in 1..Len(s) : s[e] = Append(s, f)[e]
         /\ Len(Append(s, f)) = Len(s) + 1
<1>1. s \in Seq(FrameType)
  BY DEF Stack
<1>2. Under(f) = f.saved
  BY FrameIs
<1>. QED  BY <1>1, <1>2, Push, Grow

\* The forms that are entered.
LEMMA EnterShape ==
  ASSUME TagAssumption, Shape(forms, reg, mode), EnterForm
  PROVE  Shape(forms', reg', mode')
<1>. DEFINE d == Depth
<1>1. mode = "running" /\ Stack(forms) /\ reg \in Registers /\ Fit(reg, forms, d) /\ mode' = mode
  BY DEF Shape, EnterForm, MayEnter, EnterRestart, EnterProtect, EnterRestarts, EnterCatch,
         EnterHandlers, Depth, history
<1>2. d \in Nat /\ d = Len(forms) /\ forms \in Seq(FrameType)
  BY <1>1 DEF Depth, Stack
<1>3. ASSUME NEW tag \in Tag, EnterCatch(tag)
      PROVE  Shape(forms', reg', mode')
  <2>. DEFINE pushed == [reg EXCEPT !.catch_list = <<tag>> \o @]
              f == StackFrame("catch", tag, pushed)
  <2>1. forms' = Append(forms, f) /\ reg' = [pushed EXCEPT !.throw_ret = d + 1]
    BY <1>3 DEF EnterCatch, ScatchBegin
  <2>2. tag \in CatchTag /\ <<tag>> \o reg.catch_list \in Seq(CatchTag)
    BY <1>1, Pushed DEF CatchTag, Registers
  <2>3. /\ pushed \in Registers /\ pushed.catch_list = <<tag>> \o reg.catch_list
        /\ pushed.handler_list = reg.handler_list /\ pushed.restart_list = reg.restart_list
    <3>. DEFINE list == <<tag>> \o reg.catch_list
    <3>1. list \in Seq(CatchTag) /\ pushed = [reg EXCEPT !.catch_list = list]
      BY <2>2
    <3>. HIDE DEF list, pushed
    <3>2. /\ pushed \in Registers /\ pushed.catch_list = list
          /\ pushed.handler_list = reg.handler_list /\ pushed.restart_list = reg.restart_list
      BY <1>1, <3>1, WithCatches
    <3>. QED  BY <3>2 DEF list
  <2>4. f.kind = "catch" /\ f.of = tag /\ f.saved = pushed /\ f \in FrameType
    BY <2>2, <2>3 DEF StackFrame, FrameType
  <2>5. /\ reg' \in Registers /\ reg'.throw_ret = d + 1 /\ reg'.catch_list = pushed.catch_list
        /\ reg'.handler_list = pushed.handler_list /\ reg'.restart_list = pushed.restart_list
    <3>1. d + 1 \in Nat
      BY <1>2
    <3>. HIDE DEF pushed, f
    <3>. QED  BY <2>1, <2>3, <3>1, WithThrowRet
  <2>6. Entered(forms, reg, tag, f, reg')
    <3>. HIDE DEF f
    <3>. QED  BY <1>2, <2>2, <2>3, <2>4, <2>5 DEF Entered
  <2>. HIDE DEF f
  <2>. QED  BY <1>1, <1>2, <2>1, <2>4, <2>5, <2>6, CatchFrame DEF Shape
<1>4. ASSUME EnterRestart
      PROVE  Shape(forms', reg', mode')
  <2>. DEFINE tag == Gensym(d + 1)
              pushed == [reg EXCEPT !.catch_list = <<tag>> \o @]
              f == StackFrame("catch", tag, pushed)
              begun == [pushed EXCEPT !.throw_ret = d + 1]
  <2>1. forms' = Append(forms, f) /\ reg' = [begun EXCEPT !.restart_list = <<tag>> \o @]
    BY <1>4 DEF EnterRestart, ScatchBegin
  <2>2. tag \in {"gensym"} \X Nat
    BY <1>2 DEF Gensym
  <2>3. tag \in CatchTag /\ tag \in Restart /\ tag \notin Tag
    BY <2>2 DEF CatchTag, Restart, TagAssumption
  <2>. HIDE DEF tag
  <2>4. /\ <<tag>> \o reg.catch_list \in Seq(CatchTag)
        /\ <<tag>> \o reg.restart_list \in Seq(Restart)
    BY <1>1, <2>3, Pushed DEF Registers
  <2>5. /\ pushed \in Registers /\ pushed.catch_list = <<tag>> \o reg.catch_list
        /\ pushed.handler_list = reg.handler_list /\ pushed.restart_list = reg.restart_list
    <3>. DEFINE list == <<tag>> \o reg.catch_list
    <3>1. list \in Seq(CatchTag) /\ pushed = [reg EXCEPT !.catch_list = list]
      BY <2>4
    <3>. HIDE DEF list, pushed
    <3>2. /\ pushed \in Registers /\ pushed.catch_list = list
          /\ pushed.handler_list = reg.handler_list /\ pushed.restart_list = reg.restart_list
      BY <1>1, <3>1, WithCatches
    <3>. QED  BY <3>2 DEF list
  <2>6. f.kind = "catch" /\ f.of = tag /\ f.saved = pushed /\ f \in FrameType
    BY <2>3, <2>5 DEF StackFrame, FrameType
  <2>7. /\ begun \in Registers /\ begun.throw_ret = d + 1
        /\ begun.catch_list = pushed.catch_list /\ begun.handler_list = pushed.handler_list
        /\ begun.restart_list = pushed.restart_list
    <3>1. d + 1 \in Nat /\ begun = [pushed EXCEPT !.throw_ret = d + 1]
      BY <1>2
    <3>. HIDE DEF begun, pushed, f
    <3>. QED  BY <2>5, <3>1, WithThrowRet
  <2>8. /\ reg' \in Registers /\ reg'.throw_ret = d + 1 /\ reg'.catch_list = pushed.catch_list
        /\ reg'.handler_list = pushed.handler_list
        /\ reg'.restart_list = <<tag>> \o reg.restart_list
    <3>. DEFINE list == <<tag>> \o reg.restart_list
    <3>1. list \in Seq(Restart) /\ reg' = [begun EXCEPT !.restart_list = list]
      BY <2>1, <2>4, <2>5, <2>7
    <3>. HIDE DEF list, begun, pushed, f
    <3>2. /\ reg' \in Registers /\ reg'.throw_ret = begun.throw_ret
          /\ reg'.catch_list = begun.catch_list /\ reg'.handler_list = begun.handler_list
          /\ reg'.restart_list = list
      BY <2>7, <3>1, WithRestarts
    <3>. QED  BY <2>5, <2>7, <3>2 DEF list
  <2>9. Entered(forms, reg, tag, f, reg')
    <3>. HIDE DEF f
    <3>. QED  BY <1>2, <2>3, <2>5, <2>6, <2>8 DEF Entered
  <2>. HIDE DEF f
  <2>. QED  BY <1>1, <1>2, <2>1, <2>6, <2>8, <2>9, CatchFrame DEF Shape
<1>5. ASSUME EnterProtect
      PROVE  Shape(forms', reg', mode')
  <2>. DEFINE f == StackFrame("protect", "body", reg)
              q == [reg EXCEPT !.throw_ret = d + 1]
              t == Append(forms, f)
  <2>1. forms' = t /\ reg' = q
    BY <1>5 DEF EnterProtect, ScatchBegin
  <2>2. f \in FrameType /\ f.kind = "protect" /\ f.of = "body" /\ f.saved = reg
    BY <1>1 DEF StackFrame, FrameType
  <2>3. /\ q \in Registers /\ q.throw_ret = d + 1 /\ q.catch_list = reg.catch_list
        /\ q.handler_list = reg.handler_list /\ q.restart_list = reg.restart_list
    BY <1>1, <1>2, WithThrowRet
  <2>. HIDE DEF f, q
  <2>4. /\ Stack(t) /\ t[d + 1] = f /\ Len(t) = d + 1
        /\ \A e \in 1..d : forms[e] = t[e]
    BY <1>1, <1>2, <2>2, OtherFrame
  <2>. HIDE DEF t
  <2>5. Fit(reg, t, d)
    BY <1>1, <1>2, <2>4, FitSame
  <2>6. q.throw_ret = Innermost(Targets(t, d + 1))
    BY <1>2, <2>2, <2>3, <2>4, TargetAdd DEF IsTarget
  <2>7. Fit(q, t, d + 1)
    BY <1>2, <2>2, <2>3, <2>4, <2>5, <2>6, FitOther DEF Fit, IsOffer
  <2>. QED  BY <1>1, <2>1, <2>3, <2>4, <2>7 DEF Shape
<1>6. ASSUME EnterRestarts
      PROVE  Shape(forms', reg', mode')
  <2>. DEFINE restart == Bound(d + 1)
              list == <<restart>> \o reg.restart_list
              f == StackFrame("restarts", restart, reg)
              q == [reg EXCEPT !.restart_list = list]
              t == Append(forms, f)
  <2>1. forms' = t /\ reg' = q
    BY <1>6 DEF EnterRestarts
  <2>2. restart \in {"bound"} \X Nat
    BY <1>2 DEF Bound
  <2>. HIDE DEF restart
  <2>3. restart \in Restart
    BY <2>2 DEF Restart
  <2>4. f \in FrameType /\ f.kind = "restarts" /\ f.of = restart /\ f.saved = reg
    BY <1>1, <2>2 DEF StackFrame, FrameType
  <2>5. list \in Seq(Restart)
    BY <1>1, <2>3, Pushed DEF Registers
  <2>. HIDE DEF list
  <2>6. /\ q \in Registers /\ q.throw_ret = reg.throw_ret /\ q.catch_list = reg.catch_list
        /\ q.handler_list = reg.handler_list /\ q.restart_list = list
    BY <1>1, <2>5, WithRestarts
  <2>. HIDE DEF f, q
  <2>7. /\ Stack(t) /\ t[d + 1] = f /\ Len(t) = d + 1
        /\ \A e \in 1..d : forms[e] = t[e]
    BY <1>1, <1>2, <2>4, OtherFrame
  <2>. HIDE DEF t
  <2>8. Fit(reg, t, d)
    BY <1>1, <1>2, <2>7, FitSame
  <2>9. Offering(q.restart_list, t, d + 1)
    <3>1. reg.restart_list \in Seq(Restart) /\ IsOffer(t[d + 1])
      BY <1>1, <2>4, <2>7 DEF Registers, IsOffer
    <3>. QED  BY <1>2, <2>3, <2>4, <2>6, <2>7, <2>8, <3>1, OfferAdd DEF Fit, list
  <2>10. Fit(q, t, d + 1)
    BY <1>2, <2>4, <2>6, <2>7, <2>8, <2>9, FitOther DEF Fit, IsTarget
  <2>. QED  BY <1>1, <2>1, <2>6, <2>7, <2>10 DEF Shape
<1>7. ASSUME NEW type \in Type, EnterHandlers(type)
      PROVE  Shape(forms', reg', mode')
  <2>. DEFINE handler == [type |-> type, at |-> d + 1]
              list == <<handler>> \o reg.handler_list
              f == StackFrame("handlers", handler, reg)
              q == [reg EXCEPT !.handler_list = list]
              t == Append(forms, f)
  <2>1. forms' = t /\ reg' = q
    BY <1>7 DEF EnterHandlers
  <2>2. handler \in Handler /\ handler.at = d + 1
    BY <1>2 DEF Handler
  <2>. HIDE DEF handler
  <2>3. f \in FrameType /\ f.kind = "handlers" /\ f.of = handler /\ f.saved = reg
    BY <1>1, <2>2 DEF StackFrame, FrameType
  <2>4. list \in Seq(Handler)
    BY <1>1, <2>2, Pushed DEF Registers
  <2>. HIDE DEF list
  <2>5. /\ q \in Registers /\ q.throw_ret = reg.throw_ret /\ q.catch_list = reg.catch_list
        /\ q.handler_list = list /\ q.restart_list = reg.restart_list
    BY <1>1, <2>4, WithHandlers
  <2>. HIDE DEF f, q
  <2>6. /\ Stack(t) /\ t[d + 1] = f /\ Len(t) = d + 1
        /\ \A e \in 1..d : forms[e] = t[e]
    BY <1>1, <1>2, <2>3, OtherFrame
  <2>7. ActiveThen(t, d) \in Seq(Handler)
    <3>1. d \in 0..Len(t)
      BY <1>2, <2>6
    <3>. QED  BY <2>6, <3>1, ActiveType
  <2>. HIDE DEF t
  <2>8. Fit(reg, t, d)
    BY <1>1, <1>2, <2>6, FitSame
  <2>9. Handling(q.handler_list, t, d + 1)
    <3>1. reg.handler_list \in Seq(Handler)
      BY <1>1 DEF Registers
    <3>. QED  BY <1>2, <2>2, <2>3, <2>5, <2>6, <2>7, <2>8, <3>1, HandlerAdd DEF Fit, list
  <2>10. Fit(q, t, d + 1)
    BY <1>2, <2>3, <2>5, <2>6, <2>8, <2>9, FitOther DEF Fit, IsTarget, IsOffer
  <2>. QED  BY <1>1, <2>1, <2>5, <2>6, <2>10 DEF Shape
<1>. QED  BY <1>3, <1>4, <1>5, <1>6, <1>7 DEF EnterForm

-----------------------------------------------------------------------------
(* Conditions.                                                             *)

LEMMA LeastIs ==
  ASSUME NEW n \in Nat, NEW I \in SUBSET (1..n), I # {}
  PROVE  Min(I) \in 1..n
<1>1. I \subseteq Nat
  OBVIOUS
<1>2. PICK k \in I : \A j \in I : ~(<<j, k>> \in OpToRel(<, Nat))
  BY <1>1, NatLessThanWellFounded, WFMin, Zenon
<1>3. OpToRel(<, Nat) = {ss \in Nat \X Nat : ss[1] < ss[2]}
  BY DEF OpToRel
<1>4. ASSUME NEW j \in I
      PROVE  k <= j
  <2>1. <<j, k>> \notin OpToRel(<, Nat) /\ j \in Nat /\ k \in Nat
    BY <1>1, <1>2
  <2>2. ~(j < k)
    BY <1>3, <2>1
  <2>3. \A a, b \in Nat : ~(a < b) => b <= a
    OBVIOUS
  <2>4. j \in Nat /\ k \in Nat
    BY <2>1
  <2>. QED  BY <2>2, <2>3, <2>4
<1>. QED  BY <1>4 DEF Min

\* Those that follow in a list stay apart.
LEMMA Suffix ==
  ASSUME NEW list \in Seq(Handler), NEW k \in 0..Len(list), NEW rest,
         rest = SubSeq(list, k + 1, Len(list))
  PROVE  /\ rest \in Seq(Handler) /\ Len(rest) = Len(list) - k
         /\ \A i \in DOMAIN rest : rest[i] = list[i + k] /\ i + k \in DOMAIN list /\ i + k > k
OBVIOUS

LEMMA SuffixApart ==
  ASSUME NEW s, NEW d, NEW list \in Seq(Handler), Apart(list, s, d), NEW k \in 0..Len(list),
         NEW rest, rest = SubSeq(list, k + 1, Len(list))
  PROVE  Apart(rest, s, d)
<1>1. \A i \in DOMAIN rest : rest[i] = list[i + k] /\ i + k \in DOMAIN list
  BY Suffix
<1>2. \A i, j \in DOMAIN rest : i < j => i + k < j + k
  BY Suffix
<1>. QED  BY <1>1, <1>2 DEF Apart

\* Where dfsch_signal goes on: beneath it is a stack, which the registers it
\* was called with fit; those it has now do as well, but for the handlers.
Beneath(below, save) ==
  /\ Stack(below) /\ save \in Registers /\ Fit(save, below, Len(below))
  /\ reg \in Registers
  /\ reg.throw_ret = Innermost(Targets(below, Len(below)))
  /\ Catching(reg.catch_list, below, Len(below))
  /\ Apart(reg.handler_list, below, Len(below))
  /\ Offering(reg.restart_list, below, Len(below))

LEMMA EndSignalShape ==
  ASSUME NEW below, NEW condition, NEW save, Beneath(below, save), mode = "running",
         EndSignal(below, condition, save)
  PROVE  Shape(forms', reg', mode')
<1>1. CASE forms' = below /\ reg' = [reg EXCEPT !.handler_list = save.handler_list]
  <2>. DEFINE list == save.handler_list
  <2>1. list \in Seq(Handler) /\ reg' = [reg EXCEPT !.handler_list = list]
    BY <1>1 DEF Beneath, Registers
  <2>2. Handling(list, below, Len(below))
    BY DEF Beneath, Fit
  <2>. HIDE DEF list
  <2>3. /\ reg' \in Registers /\ reg'.throw_ret = reg.throw_ret
        /\ reg'.catch_list = reg.catch_list /\ reg'.handler_list = list
        /\ reg'.restart_list = reg.restart_list
    BY <2>1, WithHandlers DEF Beneath
  <2>. QED  BY <1>1, <2>2, <2>3 DEF Shape, Beneath, Fit
<1>2. CASE forms' = below /\ reg' = reg /\ mode' = "unwinding"
  BY <1>2 DEF Shape, Beneath
<1>3. CASE forms' = below /\ reg' = reg /\ mode' = "lost"
  BY <1>3 DEF Shape, Beneath
<1>. QED  BY <1>1, <1>2, <1>3 DEF EndSignal, TerminateFrom

\* A call of dfsch_signal, while a handler or the debugger runs.
LEMMA SignalFrame ==
  ASSUME NEW below, NEW save, Beneath(below, save), NEW of \in Call, NEW f,
         f = StackFrame("signal", of, save),
         CallKept(Append(below, f), Len(below) + 1), Apart(of.active, below, Len(below)),
         of.handler # NoHandler =>
           \A i \in DOMAIN of.active : of.active[i].at < of.handler.at
  PROVE  LET t == Append(below, f)
             d == Len(below)
         IN  /\ Stack(t) /\ Len(t) = d + 1 /\ d \in Nat
             /\ t[d + 1] = f /\ f.kind = "signal" /\ f.of = of /\ f.saved = save
             /\ f \in FrameType
             /\ reg.throw_ret = Innermost(Targets(t, d + 1))
             /\ Catching(reg.catch_list, t, d + 1)
             /\ Handling(of.active, t, d + 1)
             /\ Offering(reg.restart_list, t, d + 1)
<1>. DEFINE t == Append(below, f)
            d == Len(below)
<1>1. f \in FrameType /\ f.kind = "signal" /\ f.of = of /\ f.saved = save
  BY DEF StackFrame, FrameType, Beneath
<1>2. /\ Stack(t) /\ t[d + 1] = f /\ Len(t) = d + 1 /\ d \in Nat
      /\ \A e \in 1..d : below[e] = t[e]
  BY <1>1, OtherFrame DEF Beneath
<1>. HIDE DEF t, d
<1>3. Targets(t, d) = Targets(below, d)
  BY <1>2, FramesSame
<1>4. Catching(reg.catch_list, t, d) /\ Offering(reg.restart_list, t, d)
  <2>1. /\ Catches(below, d) = Catches(t, d) /\ Offers(below, d) = Offers(t, d)
        /\ Catches(t, d) \in SUBSET (1..d) /\ Offers(t, d) \in SUBSET (1..d)
    BY <1>2, FramesSame, FramesWithin
  <2>2. Catching(reg.catch_list, below, d) /\ Offering(reg.restart_list, below, d)
    BY DEF Beneath, d
  <2>3. Offering(reg.restart_list, t, d)
    BY <1>2, <2>1, <2>2, ListsSame DEF Offering
  <2>4. \A e \in Catches(t, d) : below[e] = t[e]
    BY <1>2, <2>1
  <2>5. Lists(reg.catch_list, t, Catches(t, d), <<>>)
    BY <1>2, <2>1, <2>2, ListsSame DEF Catching
  <2>. QED  BY <2>1, <2>2, <2>3, <2>4, <2>5 DEF Catching
<1>5. reg.throw_ret = Innermost(Targets(t, d + 1))
  BY <1>1, <1>2, <1>3, FitOther DEF IsTarget, Beneath, d
<1>6. Catching(reg.catch_list, t, d + 1) /\ Offering(reg.restart_list, t, d + 1)
  BY <1>1, <1>2, <1>4, FitOther DEF IsOffer
<1>7. Handling(of.active, t, d + 1)
  <2>1. Apart(of.active, t, d)
    BY <1>2, ApartSame DEF d
  <2>2. Apart(of.active, t, d + 1)
    BY <1>1, <1>2, <2>1, ApartAdd
  <2>3. of.active \in Seq(Handler)
    BY DEF Call
  <2>. QED  BY <1>1, <1>2, <2>2, <2>3, SignalAdd
<1>. QED  BY <1>1, <1>2, <1>5, <1>6, <1>7 DEF t, d

LEMMA EnterDebuggerShape ==
  ASSUME NEW below, NEW condition \in Condition \union {Error}, NEW save,
         Beneath(below, save), mode = "running", EnterDebugger(below, condition, save)
  PROVE  Shape(forms', reg', mode')
<1>1. CASE debugger_depth > MaxRecursion
  BY <1>1, EndSignalShape DEF EnterDebugger
<1>2. CASE ~(debugger_depth > MaxRecursion)
  <2>. DEFINE of == [condition |-> condition, handler |-> NoHandler, active |-> reg.handler_list]
              f == StackFrame("signal", of, save)
              g == StackFrame("debugger", <<>>, reg)
              t == Append(below, f)
              d == Len(below)
              u == Append(t, g)
  <2>1. /\ forms' = below \o <<f, g>> /\ reg' = [reg EXCEPT !.throw_ret = d + 2]
        /\ mode' = "running"
    BY <1>2 DEF EnterDebugger, ScatchBegin
  <2>2. of \in Call /\ of.handler = NoHandler /\ of.active = reg.handler_list
    BY DEF Call, Beneath, Registers
  <2>. HIDE DEF of
  <2>3. below \in Seq(FrameType) /\ f \in FrameType
    BY <2>2 DEF Beneath, Stack, StackFrame, FrameType
  <2>4. t[d + 1] = f /\ f.of = of /\ d \in Nat /\ Len(t) = d + 1
    BY <2>3, Grow DEF StackFrame
  <2>5. CallKept(t, d + 1)
    BY <2>2, <2>4 DEF CallKept
  <2>6. /\ Stack(t) /\ f.kind = "signal"
        /\ reg.throw_ret = Innermost(Targets(t, d + 1))
        /\ Catching(reg.catch_list, t, d + 1)
        /\ Handling(reg.handler_list, t, d + 1)
        /\ Offering(reg.restart_list, t, d + 1)
    <3>1. Apart(of.active, below, Len(below))
      BY <2>2 DEF Beneath
    <3>. HIDE DEF f
    <3>. QED  BY <2>2, <2>5, <3>1, SignalFrame DEF f
  <2>7. g \in FrameType /\ g.kind = "debugger" /\ g.saved = reg
    BY DEF StackFrame, FrameType, Beneath
  <2>. HIDE DEF f, g, t
  <2>8. Fit(reg, t, Len(t))
    BY <2>4, <2>6 DEF Fit
  <2>9. /\ Stack(u) /\ u[d + 2] = g /\ Len(u) = d + 2 /\ d + 1 \in Nat
        /\ \A e \in 1..(d + 1) : t[e] = u[e]
    <3>1. Len(t) > 0 /\ t[Len(t)].kind = "signal" /\ (d + 1) + 1 = d + 2
      BY <2>4, <2>6
    <3>. QED  BY <2>4, <2>6, <2>7, <2>8, <3>1, OtherFrame
  <2>10. forms' = u
    BY <2>1, <2>3, <2>7 DEF t
  <2>. HIDE DEF u
  <2>11. Fit(reg, u, d + 1)
    BY <2>4, <2>8, <2>9, FitSame
  <2>12. /\ reg' \in Registers /\ reg'.throw_ret = d + 2 /\ reg'.catch_list = reg.catch_list
         /\ reg'.handler_list = reg.handler_list /\ reg'.restart_list = reg.restart_list
    <3>1. d + 2 \in Nat
      BY <2>4
    <3>. QED  BY <2>1, <3>1, WithThrowRet DEF Beneath
  <2>13. Fit(reg', u, (d + 1) + 1)
    <3>1. (d + 1) + 1 = d + 2
      BY <2>4
    <3>2. reg'.throw_ret = Innermost(Targets(u, (d + 1) + 1))
      BY <2>7, <2>9, <2>12, <3>1, TargetAdd DEF IsTarget
    <3>. QED  BY <2>7, <2>9, <2>11, <2>12, <3>1, <3>2, FitOther DEF Fit, IsOffer
  <2>14. (d + 1) + 1 = d + 2
    BY <2>4
  <2>. QED  BY <2>1, <2>9, <2>10, <2>12, <2>13, <2>14 DEF Shape
<1>. QED  BY <1>1, <1>2

\* The next of some handlers that were active runs, or the debugger, or none.
LEMMA HandleShape ==
  ASSUME NEW below, NEW condition \in Condition \union {Error}, NEW save,
         Beneath(below, save), mode = "running",
         NEW handlers \in Seq(Handler), Apart(handlers, below, Len(below)),
         Handle(below, condition, save, handlers)
  PROVE  Shape(forms', reg', mode')
<1>. DEFINE n == SelectInSeq(handlers, LAMBDA h : condition \in h.type)
            active == ActiveDuring(handlers, n)
            of == [condition |-> condition, handler |-> handlers[n], active |-> active]
            f == StackFrame("signal", of, save)
            t == Append(below, f)
            d == Len(below)
<1>1. n \in 0..Len(handlers)
  <2>. DEFINE I == {i \in 1..Len(handlers) : condition \in handlers[i].type}
  <2>1. n = IF I # {} THEN Min(I) ELSE 0
    BY DEF SelectInSeq
  <2>2. Len(handlers) \in Nat /\ I \in SUBSET (1..Len(handlers))
    OBVIOUS
  <2>. HIDE DEF I, n
  <2>3. I # {} => Min(I) \in 1..Len(handlers)
    BY <2>2, LeastIs
  <2>. QED  BY <2>1, <2>2, <2>3
<1>2. CASE /\ n > 0 /\ forms' = t /\ reg' = [reg EXCEPT !.handler_list = active]
           /\ mode' = mode
  <2>. HIDE DEF n
  <2>1. n \in 1..Len(handlers) /\ handlers[n] \in Handler /\ active = SubSeq(handlers, n + 1, Len(handlers))
    BY <1>1, <1>2 DEF ActiveDuring
  <2>. HIDE DEF active
  <2>2. /\ active \in Seq(Handler)
        /\ \A i \in DOMAIN active : active[i] = handlers[i + n] /\ i + n \in DOMAIN handlers /\ i + n > n
    BY <1>1, <2>1, Suffix
  <2>3. Apart(active, below, d)
    BY <1>1, <2>1, SuffixApart
  <2>4. of \in Call /\ of.handler = handlers[n] /\ of.active = active
    BY <2>1, <2>2 DEF Call
  <2>. HIDE DEF of
  <2>5. \A i \in DOMAIN active : active[i].at < handlers[n].at
    BY <2>1, <2>2 DEF Apart
  <2>6. below \in Seq(FrameType) /\ f \in FrameType
    BY <2>4 DEF Beneath, Stack, StackFrame, FrameType
  <2>7. /\ t[d + 1] = f /\ f.of = of /\ d \in Nat /\ Len(t) = d + 1 /\ (d + 1) - 1 = d
        /\ \A e \in 1..d : below[e] = t[e]
    BY <2>6, Grow DEF StackFrame
  <2>8. CallKept(t, d + 1)
    <3>1. n \in DOMAIN handlers
      BY <2>1
    <3>2. handlers[n].at \in 1..d
      BY <3>1 DEF Apart
    <3>3. Signals(t, d) = Signals(below, d) /\ Signals(t, d) \in SUBSET (1..d)
      BY <2>7, FramesSame, FramesWithin
    <3>. HIDE DEF t
    <3>. QED  BY <2>4, <2>7, <3>1, <3>2, <3>3 DEF CallKept, Apart
  <2>9. /\ Stack(t)
        /\ reg.throw_ret = Innermost(Targets(t, d + 1))
        /\ Catching(reg.catch_list, t, d + 1)
        /\ Handling(active, t, d + 1)
        /\ Offering(reg.restart_list, t, d + 1)
    <3>. HIDE DEF f
    <3>. QED  BY <2>3, <2>4, <2>5, <2>8, SignalFrame DEF f
  <2>10. /\ reg' \in Registers /\ reg'.throw_ret = reg.throw_ret
         /\ reg'.catch_list = reg.catch_list /\ reg'.handler_list = active
         /\ reg'.restart_list = reg.restart_list
    BY <1>2, <2>2, WithHandlers DEF Beneath
  <2>. HIDE DEF t, f
  <2>. QED  BY <1>2, <2>7, <2>9, <2>10 DEF Shape, Fit
<1>3. CASE EnterDebugger(below, condition, save)
  BY <1>3, EnterDebuggerShape
<1>4. CASE EndSignal(below, condition, save)
  BY <1>4, EndSignalShape
<1>. QED  BY <1>2, <1>3, <1>4 DEF Handle

LEMMA SignalShape ==
  ASSUME Shape(forms, reg, mode), NEW condition \in Condition \union {Error}, Signal(condition)
  PROVE  Shape(forms', reg', mode')
<1>1. mode = "running" /\ Stack(forms) /\ reg \in Registers /\ Fit(reg, forms, Len(forms))
  BY DEF Shape, Signal, MayEnter
<1>2. Beneath(forms, reg)
  BY <1>1 DEF Beneath, Fit, Handling
<1>3. reg.handler_list \in Seq(Handler) /\ Apart(reg.handler_list, forms, Len(forms))
  BY <1>1 DEF Registers, Fit, Handling
<1>. QED  BY <1>1, <1>2, <1>3, HandleShape DEF Signal

\* The top frame, while code runs.
LEMMA TopIs ==
  ASSUME Shape(forms, reg, mode), NEW kind, Returning(kind)
  PROVE  LET d == Depth - 1
         IN  /\ d \in Nat /\ Depth = d + 1 /\ Len(forms) = d + 1 /\ mode = "running"
             /\ TopForm = forms[d + 1] /\ TopForm.kind = kind /\ TopForm \in FrameType /\ Kept(forms, d + 1)
             /\ (d + 1) - 1 = d /\ Stack(forms)
             /\ Stack(Below) /\ Len(Below) = d /\ \A e \in 1..d : forms[e] = Below[e]
             /\ Fit(Under(TopForm), Below, d)
             /\ Fit(reg, forms, d + 1) /\ reg \in Registers
<1>. DEFINE d == Depth - 1
<1>1. mode = "running" /\ Depth > 0 /\ TopForm.kind = kind /\ Depth = Len(forms)
  BY DEF Returning, Depth
<1>2. Stack(forms) /\ reg \in Registers /\ Fit(reg, forms, Len(forms))
  BY <1>1 DEF Shape
<1>3. forms \in Seq(FrameType)
  BY <1>2 DEF Stack
<1>4. d \in Nat /\ Depth = d + 1
  BY <1>1, <1>3
<1>5. /\ Stack(Front(forms)) /\ Len(Front(forms)) = d
      /\ \A e \in 1..d : forms[e] = Front(forms)[e]
      /\ forms[d + 1] \in FrameType /\ Kept(forms, d + 1) /\ (d + 1) - 1 = d
      /\ Fit(Under(forms[d + 1]), Front(forms), d)
  <2>. HIDE DEF d
  <2>. QED  BY <1>1, <1>2, <1>4, Pop
<1>. HIDE DEF d
<1>6. TopForm = forms[d + 1]
  BY <1>4 DEF TopForm
<1>. QED  BY <1>1, <1>2, <1>4, <1>5, <1>6 DEF Below, d

LEMMA ReturnCatchShape ==
  ASSUME Shape(forms, reg, mode), ReturnCatch
  PROVE  Shape(forms', reg', mode')
<1>. DEFINE d == Depth - 1
<1>1. Returning("catch") /\ forms' = Below /\ mode' = mode
      /\ reg' = [TopForm.saved EXCEPT !.catch_list = Tail(@)]
  BY DEF ReturnCatch
<1>2. /\ d \in Nat /\ TopForm = forms[d + 1] /\ TopForm.kind = "catch" /\ TopForm \in FrameType
      /\ Kept(forms, d + 1) /\ Stack(Below) /\ Len(Below) = d /\ Fit(Under(TopForm), Below, d)
      /\ mode = "running"
  BY <1>1, TopIs
<1>3. TopForm.saved.catch_list # <<>>
  BY <1>2 DEF Kept
<1>4. reg' = Under(TopForm) /\ reg' \in Registers
  BY <1>1, <1>2, <1>3, FrameIs
<1>. QED  BY <1>1, <1>2, <1>4 DEF Shape

\* A cleanup that is running asks for nothing.
LEMMA CleanupFit ==
  ASSUME NEW d \in Nat, NEW s, s[d + 1].kind = "protect", s[d + 1].of # "body", NEW r
  PROVE  Fit(r, s, d + 1) <=> Fit(r, s, d)
BY FitOther DEF Fit, IsTarget, IsOffer

LEMMA ReturnProtectedShape ==
  ASSUME Shape(forms, reg, mode), ReturnProtected
  PROVE  Shape(forms', reg', mode')
<1>. DEFINE d == Depth - 1
            f == [TopForm EXCEPT !.of = "return"]
            t == Append(Below, f)
<1>1. Returning("protect") /\ forms' = [forms EXCEPT ![Depth].of = "return"] /\ mode' = mode
      /\ reg' = TopForm.saved /\ TopForm.of = "body"
  BY DEF ReturnProtected
<1>2. /\ d \in Nat /\ Depth = d + 1 /\ Len(forms) = d + 1 /\ TopForm = forms[d + 1]
      /\ TopForm.kind = "protect" /\ TopForm \in FrameType
      /\ Stack(forms) /\ Stack(Below) /\ Len(Below) = d /\ Fit(Under(TopForm), Below, d)
      /\ \A e \in 1..d : forms[e] = Below[e]
      /\ mode = "running"
  BY <1>1, TopIs
<1>3. Under(TopForm) = TopForm.saved /\ TopForm.saved \in Registers
  BY <1>2, FrameIs
<1>4. f \in FrameType /\ f.kind = "protect" /\ f.of = "return" /\ f.saved = TopForm.saved
  BY <1>2 DEF FrameType
<1>. HIDE DEF f, d
<1>5. forms' = t
  <2>1. forms \in Seq(FrameType) /\ Below \in Seq(FrameType)
    BY <1>2 DEF Stack
  <2>2. forms' = [forms EXCEPT ![d + 1] = f]
    BY <1>1, <1>2, <2>1 DEF f
  <2>3. forms' \in Seq(FrameType) /\ Len(forms') = d + 1
    BY <1>2, <1>4, <2>1, <2>2
  <2>4. t \in Seq(FrameType) /\ Len(t) = d + 1
    BY <1>2, <1>4, <2>1
  <2>5. \A e \in 1..(d + 1) : forms'[e] = t[e]
    <3>1. \A e \in 1..(d + 1) : e \in 1..d \/ e = d + 1
      BY <1>2
    <3>2. t[d + 1] = f /\ \A e \in 1..d : t[e] = Below[e]
      BY <1>2, <1>4, <2>1, Grow
    <3>3. forms'[d + 1] = f /\ \A e \in 1..d : forms'[e] = forms[e]
      BY <1>2, <2>1, <2>2
    <3>. QED  BY <1>2, <3>1, <3>2, <3>3
  <2>. QED  BY <2>3, <2>4, <2>5
<1>6. Stack(t) /\ t[d + 1] = f /\ Len(t) = d + 1 /\ \A e \in 1..d : Below[e] = t[e]
  BY <1>2, <1>3, <1>4, OtherFrame
<1>. HIDE DEF t
<1>7. Fit(TopForm.saved, t, d + 1)
  <2>1. Fit(TopForm.saved, t, d)
    BY <1>2, <1>3, <1>6, FitSame
  <2>2. t[d + 1].kind = "protect" /\ t[d + 1].of # "body"
    BY <1>4, <1>6
  <2>. QED  BY <1>2, <2>1, <2>2, CleanupFit
<1>8. mode' = "running"
  BY <1>1, <1>2
<1>. QED  BY <1>1, <1>3, <1>5, <1>6, <1>7, <1>8 DEF Shape

LEMMA EndCleanupShape ==
  ASSUME Shape(forms, reg, mode), EndCleanup
  PROVE  Shape(forms', reg', mode')
<1>. DEFINE d == Depth - 1
<1>1. Returning("protect") /\ forms' = Below /\ reg' = reg /\ TopForm.of # "body"
  BY DEF EndCleanup
<1>2. /\ d \in Nat /\ TopForm = forms[d + 1] /\ TopForm.kind = "protect"
      /\ Stack(Below) /\ Len(Below) = d /\ \A e \in 1..d : forms[e] = Below[e]
      /\ Fit(reg, forms, d + 1) /\ reg \in Registers
  BY <1>1, TopIs
<1>. HIDE DEF d
<1>3. Fit(reg, forms, d)
  BY <1>1, <1>2, CleanupFit
<1>4. Fit(reg, Below, d)
  BY <1>2, <1>3, FitSame
<1>. QED  BY <1>1, <1>2, <1>4 DEF Shape, Fit

LEMMA ReturnHandlersShape ==
  ASSUME Shape(forms, reg, mode), ReturnHandlers
  PROVE  Shape(forms', reg', mode')
<1>. DEFINE d == Depth - 1
            list == TopForm.saved.handler_list
<1>1. Returning("handlers") /\ forms' = Below /\ mode' = mode
      /\ reg' = [reg EXCEPT !.handler_list = list]
  BY DEF ReturnHandlers
<1>2. /\ d \in Nat /\ TopForm = forms[d + 1] /\ TopForm.kind = "handlers" /\ TopForm \in FrameType
      /\ Stack(Below) /\ Len(Below) = d /\ \A e \in 1..d : forms[e] = Below[e]
      /\ Fit(reg, forms, d + 1) /\ reg \in Registers /\ Fit(Under(TopForm), Below, d)
  BY <1>1, TopIs
<1>3. Under(TopForm) = TopForm.saved /\ TopForm.saved \in Registers
  BY <1>2, FrameIs
<1>4. list \in Seq(Handler)
  BY <1>3 DEF Registers
<1>5. Handling(list, Below, d)
  BY <1>2, <1>3 DEF Fit
<1>. HIDE DEF d, list
<1>6. /\ reg' \in Registers /\ reg'.throw_ret = reg.throw_ret
      /\ reg'.catch_list = reg.catch_list /\ reg'.handler_list = list
      /\ reg'.restart_list = reg.restart_list
  BY <1>1, <1>2, <1>4, WithHandlers
<1>7. /\ reg.throw_ret = Innermost(Targets(forms, d))
      /\ Catching(reg.catch_list, forms, d) /\ Offering(reg.restart_list, forms, d)
  BY <1>2, FitOther DEF Fit, IsTarget, IsOffer
<1>8. /\ reg.throw_ret = Innermost(Targets(Below, d))
      /\ Catching(reg.catch_list, Below, d) /\ Offering(reg.restart_list, Below, d)
  BY <1>2, <1>7, RestSame
<1>. QED  BY <1>1, <1>2, <1>5, <1>6, <1>8 DEF Shape, Fit

LEMMA ReturnRestartsShape ==
  ASSUME Shape(forms, reg, mode), ReturnRestarts
  PROVE  Shape(forms', reg', mode')
<1>. DEFINE d == Depth - 1
            list == TopForm.saved.restart_list
<1>1. Returning("restarts") /\ forms' = Below /\ mode' = mode
      /\ reg' = [reg EXCEPT !.restart_list = list]
  BY DEF ReturnRestarts
<1>2. /\ d \in Nat /\ TopForm = forms[d + 1] /\ TopForm.kind = "restarts" /\ TopForm \in FrameType
      /\ Stack(Below) /\ Len(Below) = d /\ \A e \in 1..d : forms[e] = Below[e]
      /\ Fit(reg, forms, d + 1) /\ reg \in Registers /\ Fit(Under(TopForm), Below, d)
  BY <1>1, TopIs
<1>3. Under(TopForm) = TopForm.saved /\ TopForm.saved \in Registers
  BY <1>2, FrameIs
<1>4. list \in Seq(Restart)
  BY <1>3 DEF Registers
<1>5. Offering(list, Below, d)
  BY <1>2, <1>3 DEF Fit
<1>. HIDE DEF d, list
<1>6. /\ reg' \in Registers /\ reg'.throw_ret = reg.throw_ret
      /\ reg'.catch_list = reg.catch_list /\ reg'.handler_list = reg.handler_list
      /\ reg'.restart_list = list
  BY <1>1, <1>2, <1>4, WithRestarts
<1>7. /\ reg.throw_ret = Innermost(Targets(forms, d))
      /\ Catching(reg.catch_list, forms, d) /\ Handling(reg.handler_list, forms, d)
  BY <1>2, FitOther DEF Fit, IsTarget, IsOffer
<1>8. /\ reg.throw_ret = Innermost(Targets(Below, d))
      /\ Catching(reg.catch_list, Below, d) /\ Handling(reg.handler_list, Below, d)
  BY <1>2, <1>7, RestSame
<1>. QED  BY <1>1, <1>2, <1>5, <1>6, <1>8 DEF Shape, Fit

\* A handler declines.
LEMMA DeclineShape ==
  ASSUME Shape(forms, reg, mode), Decline
  PROVE  Shape(forms', reg', mode')
<1>. DEFINE d == Depth - 1
            list == TopForm.saved.handler_list
            k == SelectInSeq(list, LAMBDA h : h = TopForm.of.handler)
            rest == SubSeq(list, k + 1, Len(list))
<1>1. Returning("signal") /\ Handle(Below, TopForm.of.condition, TopForm.saved, rest)
  BY DEF Decline
<1>2. /\ d \in Nat /\ TopForm = forms[d + 1] /\ TopForm.kind = "signal" /\ TopForm \in FrameType
      /\ Stack(Below) /\ Len(Below) = d /\ \A e \in 1..d : forms[e] = Below[e]
      /\ Fit(reg, forms, d + 1) /\ reg \in Registers /\ Fit(Under(TopForm), Below, d)
      /\ mode = "running"
  BY <1>1, TopIs
<1>3. Under(TopForm) = TopForm.saved /\ TopForm.saved \in Registers /\ TopForm.of \in Call
  BY <1>2, FrameIs
<1>4. list \in Seq(Handler) /\ TopForm.of.condition \in Condition \union {Error}
  BY <1>3 DEF Registers, Call
<1>5. k \in 0..Len(list)
  <2>. DEFINE I == {i \in 1..Len(list) : list[i] = TopForm.of.handler}
  <2>1. k = IF I # {} THEN Min(I) ELSE 0
    BY DEF SelectInSeq
  <2>2. Len(list) \in Nat /\ I \in SUBSET (1..Len(list))
    BY <1>4
  <2>. HIDE DEF I, k, list
  <2>3. I # {} => Min(I) \in 1..Len(list)
    BY <2>2, LeastIs
  <2>. QED  BY <2>1, <2>2, <2>3
<1>. HIDE DEF k
<1>6. Apart(list, Below, d)
  BY <1>2, <1>3 DEF Fit, Handling
<1>. HIDE DEF list
<1>7. rest \in Seq(Handler) /\ Apart(rest, Below, d)
  BY <1>4, <1>5, <1>6, Suffix, SuffixApart
<1>. HIDE DEF rest, d
<1>8. /\ reg.throw_ret = Innermost(Targets(forms, d))
      /\ Catching(reg.catch_list, forms, d) /\ Offering(reg.restart_list, forms, d)
  BY <1>2, FitOther DEF Fit, IsTarget, IsOffer
<1>9. /\ reg.throw_ret = Innermost(Targets(Below, d))
      /\ Catching(reg.catch_list, Below, d) /\ Offering(reg.restart_list, Below, d)
  BY <1>2, <1>8, RestSame
<1>10. Apart(reg.handler_list, Below, d)
  <2>1. Apart(reg.handler_list, forms, d + 1)
    BY <1>2 DEF Fit, Handling
  <2>2. Apart(reg.handler_list, forms, d)
    <3>1. ASSUME NEW i \in DOMAIN reg.handler_list
          PROVE  reg.handler_list[i].at \in 1..d /\ forms[reg.handler_list[i].at].kind = "handlers"
      <4>1. \A e : e \in 1..(d + 1) <=> e \in 1..d \/ e = d + 1
        BY <1>2
      <4>. QED  BY <1>2, <2>1, <4>1 DEF Apart
    <3>2. Signals(forms, d) \subseteq Signals(forms, d + 1)
      BY <1>2, FramesAdd
    <3>. QED  BY <2>1, <3>1, <3>2 DEF Apart
  <2>. QED  BY <1>2, <2>2, ApartSame
<1>11. Beneath(Below, TopForm.saved)
  BY <1>2, <1>3, <1>9, <1>10 DEF Beneath
<1>. QED  BY <1>1, <1>2, <1>4, <1>7, <1>11, HandleShape

LEMMA ReturnDebuggerShape ==
  ASSUME Shape(forms, reg, mode), ReturnDebugger
  PROVE  Shape(forms', reg', mode')
<1>. DEFINE d == Depth - 1
            c == d - 1
            signal == forms[Depth - 1]
            t == Front(Below)
            r == TopForm.saved
            list == signal.saved.handler_list
<1>1. /\ Returning("debugger") /\ forms' = t
      /\ \/ mode' = mode /\ reg' = [r EXCEPT !.handler_list = list]
         \/ mode' = "unwinding" /\ reg' = r
         \/ mode' = "lost" /\ reg' = r
  BY DEF ReturnDebugger, TerminateFrom
<1>2. /\ d \in Nat /\ Depth = d + 1 /\ TopForm = forms[d + 1] /\ TopForm.kind = "debugger"
      /\ TopForm \in FrameType /\ Kept(forms, d + 1) /\ (d + 1) - 1 = d
      /\ Stack(Below) /\ Len(Below) = d /\ \A e \in 1..d : forms[e] = Below[e]
      /\ Fit(Under(TopForm), Below, d) /\ mode = "running"
  BY <1>1, TopIs
<1>3. Under(TopForm) = r /\ r \in Registers
  BY <1>2, FrameIs
<1>4. d + 1 > 1 /\ forms[d].kind = "signal"
  BY <1>2 DEF Kept
<1>5. c \in Nat /\ d = c + 1 /\ signal = forms[d]
  BY <1>2, <1>4
<1>. HIDE DEF c
<1>6. /\ Stack(t) /\ Len(t) = c /\ \A e \in 1..c : Below[e] = t[e]
      /\ Below[c + 1] \in FrameType /\ Fit(Under(Below[c + 1]), t, c)
  <2>1. Len(Below) = c + 1
    BY <1>2, <1>5
  <2>. HIDE DEF d
  <2>. QED  BY <1>2, <1>5, <2>1, Pop
<1>7. Below[c + 1] = signal /\ signal.kind = "signal"
  BY <1>2, <1>4, <1>5
<1>. HIDE DEF d, signal
<1>8. signal.saved \in Registers /\ Fit(signal.saved, t, c)
  BY <1>6, <1>7, FrameIs
<1>9. list \in Seq(Handler) /\ Handling(list, t, c)
  BY <1>8 DEF Registers, Fit
<1>. HIDE DEF list
<1>10. /\ r.throw_ret = Innermost(Targets(Below, c))
       /\ Catching(r.catch_list, Below, c) /\ Offering(r.restart_list, Below, c)
  BY <1>2, <1>3, <1>5, <1>7, FitOther DEF Fit, IsTarget, IsOffer
<1>11. /\ r.throw_ret = Innermost(Targets(t, c))
       /\ Catching(r.catch_list, t, c) /\ Offering(r.restart_list, t, c)
  BY <1>5, <1>6, <1>10, RestSame
<1>. HIDE DEF r, t
<1>12. CASE mode' = mode /\ reg' = [r EXCEPT !.handler_list = list]
  <2>1. /\ reg' \in Registers /\ reg'.throw_ret = r.throw_ret
        /\ reg'.catch_list = r.catch_list /\ reg'.handler_list = list
        /\ reg'.restart_list = r.restart_list
    BY <1>3, <1>9, <1>12, WithHandlers
  <2>. QED  BY <1>1, <1>2, <1>6, <1>9, <1>11, <1>12, <2>1 DEF Shape, Fit
<1>13. CASE mode' = "unwinding" /\ reg' = r
  BY <1>1, <1>3, <1>6, <1>11, <1>13 DEF Shape
<1>14. CASE mode' = "lost" /\ reg' = r
  BY <1>1, <1>3, <1>6, <1>14 DEF Shape
<1>. QED  BY <1>1, <1>12, <1>13, <1>14

LEMMA ReturnShape ==
  ASSUME Shape(forms, reg, mode), ReturnForm
  PROVE  Shape(forms', reg', mode')
BY ReturnCatchShape, ReturnProtectedShape, EndCleanupShape, ReturnHandlersShape,
   ReturnRestartsShape, DeclineShape, ReturnDebuggerShape DEF ReturnForm

\* A throw begins.
LEMMA ThrowShape ==
  ASSUME Shape(forms, reg, mode), NEW tag, NEW value, ThrowTag(tag, value)
  PROVE  Shape(forms', reg', mode')
<1>1. CASE ThrowTo(tag, value)
  BY <1>1 DEF ThrowTag, ThrowTo, Shape, Fit
<1>2. CASE Signal(Error)
  BY <1>2, SignalShape
<1>. QED  BY <1>1, <1>2 DEF ThrowTag

LEMMA ExitShape ==
  ASSUME Shape(forms, reg, mode), Exit
  PROVE  Shape(forms', reg', mode')
<1>1. CASE \E tag \in Tag, value \in Value : ThrowTag(tag, value)
  BY <1>1, ThrowShape
<1>2. CASE \E restart \in ToSet(reg.restart_list), value \in Value : InvokeRestart(restart, value)
  <2>1. PICK restart \in ToSet(reg.restart_list), value \in Value : InvokeRestart(restart, value)
    BY <1>2
  <2>2. CASE ThrowTag(restart, value)
    BY <2>2, ThrowShape
  <2>3. CASE mode = "running" /\ TerminateFrom(forms) /\ reg' = reg
    BY <2>3 DEF TerminateFrom, Shape, Fit
  <2>. QED  BY <2>1, <2>2, <2>3 DEF InvokeRestart
<1>3. CASE \E condition \in Condition : Signal(condition)
  BY <1>3, SignalShape
<1>. QED  BY <1>1, <1>2, <1>3 DEF Exit

-----------------------------------------------------------------------------
(* Unwinding.                                                              *)

\* Where an unwinding lands: nothing is counted further in.
LEMMA LandingIs ==
  ASSUME Shape(forms, reg, mode), NEW kind, Landing(kind),
         NEW d, d = reg.throw_ret - 1, NEW t, t = SubSeq(forms, 1, d)
  PROVE  /\ d \in Nat /\ reg.throw_ret = d + 1 /\ (d + 1) - 1 = d /\ d + 1 \in 1..Len(forms)
         /\ Target = forms[d + 1] /\ Target.kind = kind /\ Target \in FrameType
         /\ Kept(forms, d + 1) /\ IsTarget(Target) /\ mode = "unwinding"
         /\ Stack(t) /\ Len(t) = d /\ \A e \in 1..d : forms[e] = t[e]
         /\ Fit(Under(Target), t, d)
         /\ \A e \in 1..Len(forms) : IsTarget(forms[e]) => e <= d + 1
<1>1. mode = "unwinding" /\ reg.throw_ret > 0 /\ Target.kind = kind /\ Target = forms[reg.throw_ret]
  BY DEF Landing, Target
<1>2. /\ Stack(forms) /\ reg \in Registers /\ forms \in Seq(FrameType) /\ Len(forms) \in Nat
      /\ reg.throw_ret = Innermost(Targets(forms, Len(forms))) /\ reg.throw_ret \in Nat
  BY <1>1 DEF Shape, Stack, Registers
<1>3. Targets(forms, Len(forms)) \in SUBSET (1..Len(forms))
  BY <1>2, FramesWithin
<1>4. Targets(forms, Len(forms)) # {}
  <2>1. Innermost(Targets(forms, Len(forms))) # 0
    BY <1>1, <1>2
  <2>. QED  BY <2>1 DEF Innermost
<1>5. /\ reg.throw_ret \in Targets(forms, Len(forms))
      /\ \A e \in Targets(forms, Len(forms)) : e <= reg.throw_ret
  BY <1>2, <1>3, <1>4, InnermostIs
<1>6. d \in Nat /\ reg.throw_ret = d + 1 /\ (d + 1) - 1 = d /\ d + 1 \in 1..Len(forms) /\ d \in 0..Len(forms)
  BY <1>1, <1>2, <1>3, <1>5
<1>7. IsTarget(Target) /\ \A e \in 1..Len(forms) : IsTarget(forms[e]) => e <= d + 1
  BY <1>1, <1>5, <1>6 DEF Targets, IsTarget
<1>8. /\ Stack(t) /\ Len(t) = d /\ \A e \in 1..d : forms[e] = t[e]
  BY <1>2, <1>6, Cut
<1>9. Kept(forms, d + 1) /\ Target = forms[d + 1] /\ Target \in FrameType
  BY <1>1, <1>2, <1>6 DEF Stack
<1>10. Fit(Under(Target), t, d)
  <2>1. Fit(Under(Target), forms, d)
    BY <1>6, <1>9 DEF Kept
  <2>2. d \in Nat /\ \A e \in 1..d : forms[e] = t[e]
    BY <1>6, <1>8
  <2>. QED  BY <2>1, <2>2, FitSame
<1>. QED  BY <1>1, <1>6, <1>7, <1>8, <1>9, <1>10

LEMMA ContinueShape ==
  ASSUME Shape(forms, reg, mode), Continue
  PROVE  Shape(forms', reg', mode')
<1>. DEFINE d == reg.throw_ret - 1
            t == SubSeq(forms, 1, d)
<1>1. CASE NoTarget
  <2>1. Stack(<<>>)
    BY DEF Stack
  <2>2. reg' = reg /\ mode' \notin {"running", "unwinding"} /\ forms' = <<>>
    BY <1>1 DEF NoTarget
  <2>. QED  BY <2>1, <2>2 DEF Shape
<1>2. CASE LandOnCatch
  <2>1. Landing("catch") /\ forms' = t
        /\ \/ mode' = "running" /\ reg' = [Target.saved EXCEPT !.catch_list = Tail(@)]
           \/ mode' = mode /\ reg' = Target.saved
    BY <1>2 DEF LandOnCatch
  <2>2. /\ Target = forms[d + 1] /\ Target.kind = "catch" /\ Target \in FrameType
        /\ Kept(forms, d + 1) /\ mode = "unwinding"
        /\ Stack(t) /\ Len(t) = d /\ Fit(Under(Target), t, d)
    BY <2>1, LandingIs
  <2>3. /\ Under(Target) = [Target.saved EXCEPT !.catch_list = Tail(@)]
        /\ Under(Target) \in Registers /\ Target.saved \in Registers
    BY <2>2, FrameIs DEF Kept
  <2>. HIDE DEF d, t
  <2>4. CASE mode' = "running" /\ reg' = [Target.saved EXCEPT !.catch_list = Tail(@)]
    BY <2>1, <2>2, <2>3, <2>4 DEF Shape
  <2>5. CASE mode' = mode /\ reg' = Target.saved
    <3>1. Under(Target).throw_ret = Target.saved.throw_ret
      BY <2>3 DEF Registers
    <3>2. reg'.throw_ret = Innermost(Targets(t, d))
      BY <2>2, <2>5, <3>1 DEF Fit
    <3>. QED  BY <2>1, <2>2, <2>3, <2>5, <3>2 DEF Shape
  <2>. QED  BY <2>1, <2>4, <2>5
<1>3. CASE LandOnProtect
  <2>. DEFINE f == [Target EXCEPT !.of = "throw"]
              u == Append(t, f)
  <2>1. Landing("protect") /\ forms' = u /\ reg' = Target.saved /\ mode' = "running"
    BY <1>3 DEF LandOnProtect
  <2>2. /\ d \in Nat /\ Target = forms[d + 1] /\ Target.kind = "protect" /\ Target \in FrameType
        /\ Stack(t) /\ Len(t) = d /\ Fit(Under(Target), t, d)
    BY <2>1, LandingIs
  <2>3. Under(Target) = Target.saved /\ Target.saved \in Registers
    BY <2>2, FrameIs
  <2>4. f \in FrameType /\ f.kind = "protect" /\ f.of = "throw" /\ f.saved = Target.saved
    BY <2>2 DEF FrameType
  <2>. HIDE DEF f, d, t
  <2>5. Stack(u) /\ u[d + 1] = f /\ Len(u) = d + 1 /\ \A e \in 1..d : t[e] = u[e]
    BY <2>2, <2>3, <2>4, OtherFrame
  <2>. HIDE DEF u
  <2>6. Fit(Target.saved, u, d + 1)
    <3>1. Fit(Target.saved, u, d)
      BY <2>2, <2>3, <2>5, FitSame
    <3>2. u[d + 1].kind = "protect" /\ u[d + 1].of # "body"
      BY <2>4, <2>5
    <3>. QED  BY <2>2, <3>1, <3>2, CleanupFit
  <2>. QED  BY <2>1, <2>3, <2>5, <2>6 DEF Shape
<1>4. CASE LandOnDebugger
  <2>1. Landing("debugger") /\ forms' = t /\ reg' = Target.saved /\ mode' = mode
    BY <1>4 DEF LandOnDebugger
  <2>2. /\ Target.kind = "debugger" /\ Target \in FrameType /\ mode = "unwinding"
        /\ Stack(t) /\ Len(t) = d /\ Fit(Under(Target), t, d)
    BY <2>1, LandingIs
  <2>3. Under(Target) = Target.saved /\ Target.saved \in Registers
    BY <2>2, FrameIs
  <2>. HIDE DEF d, t
  <2>. QED  BY <2>1, <2>2, <2>3 DEF Shape, Fit
<1>. QED  BY <1>1, <1>2, <1>3, <1>4 DEF Continue

LEMMA InitShape ==
  ASSUME UnwindInit
  PROVE  Shape(forms, reg, mode)
<1>1. forms = <<>> /\ mode = "running" /\ Stack(forms)
      /\ reg = [throw_ret |-> 0, catch_list |-> <<>>, handler_list |-> <<>>,
                restart_list |-> <<Terminate>>]
  BY DEF UnwindInit, Stack
<1>2. reg \in Registers
  BY <1>1 DEF Registers, Restart
<1>3. /\ Targets(forms, 0) = {} /\ Catches(forms, 0) = {} /\ Offers(forms, 0) = {}
      /\ Signals(forms, 0) = {} /\ Bindings(forms, 0) = {}
  BY DEF Targets, Catches, Offers, Signals, Bindings
<1>4. Innermost({}) = 0 /\ Cardinality({}) = 0
  BY FS_EmptySet DEF Innermost
<1>5. Lists(<<>>, forms, {}, <<>>)
  BY <1>4 DEF Lists
<1>8. Catching(<<>>, forms, 0)
  <2>1. \A i \in DOMAIN <<>> : FALSE
    OBVIOUS
  <2>2. Lists(<<>>, forms, Catches(forms, 0), <<>>)
    BY <1>3, <1>5
  <2>3. \A i \in DOMAIN <<>> : \E e \in Catches(forms, 0) : forms[e].of = (<<>>)[i]
    BY <2>1
  <2>. QED  BY <2>2, <2>3 DEF Catching
<1>9. Apart(<<>>, forms, 0)
  BY DEF Apart
<1>10. Handling(<<>>, forms, 0)
  BY <1>3, <1>5, <1>9 DEF Handling, ActiveThen
<1>6. Offering(<<Terminate>>, forms, 0)
  BY <1>3, <1>4 DEF Offering, Lists
<1>7. Len(forms) = 0
  BY <1>1
<1>. QED  BY <1>1, <1>2, <1>3, <1>4, <1>6, <1>7, <1>8, <1>10 DEF Shape, Fit

LEMMA ShapeKept ==
  ASSUME TagAssumption, Shape(forms, reg, mode), [UnwindNext]_unwindVars
  PROVE  Shape(forms', reg', mode')
<1>1. CASE UnwindNext
  BY <1>1, EnterShape, ReturnShape, ExitShape, ContinueShape DEF UnwindNext
<1>2. CASE UNCHANGED unwindVars
  BY <1>2 DEF unwindVars
<1>. QED  BY <1>1, <1>2

-----------------------------------------------------------------------------
(* What is counted, and the aim of a throw.                                *)

\* Frames that count for nothing, and stacks that agree up to one.
IsPending(f) == f.kind = "protect" /\ f.of = "throw"
Quiet(f) == f.kind \notin {"debugger", "protect"}
Agree(s, t, n) ==
  /\ n \in Nat /\ Len(s) \in Nat /\ Len(t) \in Nat /\ n <= Len(s) /\ n <= Len(t)
  /\ \A e \in 1..n : s[e] = t[e]

LEMMA Beyond ==
  ASSUME NEW m \in Nat, NEW n \in Nat, n <= m, NEW s
  PROVE  /\ (\A e \in (n + 1)..m : Quiet(s[e])) =>
              Debuggers(s, m) = Debuggers(s, n) /\ Bodies(s, m) = Bodies(s, n)
         /\ (\A e \in (n + 1)..m : ~IsPending(s[e])) => Pending(s, m) = Pending(s, n)
<1>1. \A e : e \in 1..m <=> e \in 1..n \/ e \in (n + 1)..m
  OBVIOUS
<1>. QED  BY <1>1 DEF Quiet, IsPending, Debuggers, Bodies, Pending

LEMMA CountSame ==
  ASSUME NEW s, NEW t, NEW n, Agree(s, t, n), \A e \in (n + 1)..Len(s) : Quiet(s[e]),
         \A e \in (n + 1)..Len(t) : Quiet(t[e]), NEW debuggers, NEW bodies,
         Counted(s, debuggers, bodies)
  PROVE  Counted(t, debuggers, bodies)
<1>1. /\ Debuggers(s, Len(s)) = Debuggers(s, n) /\ Bodies(s, Len(s)) = Bodies(s, n)
      /\ Debuggers(t, Len(t)) = Debuggers(t, n) /\ Bodies(t, Len(t)) = Bodies(t, n)
  BY Beyond DEF Agree
<1>2. Debuggers(s, n) = Debuggers(t, n) /\ Bodies(s, n) = Bodies(t, n)
  BY FramesSame DEF Agree
<1>. QED  BY <1>1, <1>2 DEF Counted

LEMMA GoingSame ==
  ASSUME NEW d \in Nat, NEW s, NEW t, \A e \in 1..d : s[e] = t[e], NEW th, NEW a, Going(s, d, th, a)
  PROVE  Going(t, d, th, a)
<1>1. Catches(s, d) = Catches(t, d) /\ Catches(t, d) \in SUBSET (1..d)
  BY FramesSame, FramesWithin
<1>2. {e \in Catches(s, d) : s[e].of = a.tag} = {e \in Catches(t, d) : t[e].of = a.tag}
  BY <1>1
<1>. QED  BY <1>2 DEF Going

LEMMA AimSame ==
  ASSUME NEW s, NEW t, NEW n, Agree(s, t, n), \A e \in (n + 1)..Len(s) : ~IsPending(s[e]),
         \A e \in (n + 1)..Len(t) : ~IsPending(t[e]), NEW th, NEW a, NEW i,
         Aimed(s, th, a, "running", i)
  PROVE  Aimed(t, th, a, "running", i)
<1>1. Pending(s, Len(s)) = Pending(s, n) /\ Pending(t, Len(t)) = Pending(t, n)
  BY Beyond DEF Agree
<1>2. Pending(s, n) = Pending(t, n) /\ Pending(s, n) \in SUBSET (1..n)
  BY FramesSame, FramesWithin DEF Agree
<1>3. SUFFICES ASSUME ~i, Pending(t, n) # {}
               PROVE  Going(t, Innermost(Pending(t, n)) - 1, th, a)
  BY <1>1 DEF Aimed
<1>. DEFINE d == Innermost(Pending(t, n)) - 1
<1>4. Innermost(Pending(t, n)) \in 1..n
  BY <1>2, <1>3, InnermostIs DEF Agree
<1>5. Going(s, d, th, a)
  BY <1>1, <1>2, <1>3 DEF Aimed
<1>6. d \in Nat /\ \A e \in 1..d : s[e] = t[e]
  BY <1>4 DEF Agree
<1>. HIDE DEF d
<1>7. Going(t, d, th, a)
  BY <1>5, <1>6, GoingSame
<1>. QED  BY <1>7 DEF d

\* One frame more, and one frame fewer.
LEMMA OneMore ==
  ASSUME NEW s \in Seq(FrameType), NEW f
  PROVE  /\ Agree(s, Append(s, f), Len(s)) /\ Len(Append(s, f)) = Len(s) + 1
         /\ Append(s, f)[Len(s) + 1] = f /\ Len(s) \in Nat
         /\ \A e \in (Len(s) + 1)..Len(s) : FALSE
         /\ \A e \in (Len(s) + 1)..(Len(s) + 1) : Append(s, f)[e] = f
<1>1. s \in Seq(FrameType \union {f}) /\ f \in FrameType \union {f}
  OBVIOUS
<1>. QED  BY <1>1 DEF Agree

LEMMA OneLess ==
  ASSUME NEW s, NEW n \in Nat, Len(s) = n + 1, NEW t, Len(t) = n, \A e \in 1..n : s[e] = t[e]
  PROVE  /\ Agree(s, t, n)
         /\ \A e \in (n + 1)..Len(t) : FALSE
         /\ \A e \in (n + 1)..Len(s) : s[e] = s[n + 1]
BY DEF Agree

\* Counting and aiming go on while code runs.
Goes == Counted(forms', debugger_depth', owed') /\ Aimed(forms', throw', aim', mode', interrupted')

LEMMA QuietStep ==
  ASSUME IInv, mode = "running", mode' \in {"running", "lost"}, NEW n, Agree(forms, forms', n),
         \A e \in (n + 1)..Len(forms) : Quiet(forms[e]),
         \A e \in (n + 1)..Len(forms') : Quiet(forms'[e]),
         UNCHANGED <<throw, debugger_depth, owed, aim, interrupted>>
  PROVE  Goes
<1>1. Counted(forms', debugger_depth', owed')
  BY CountSame DEF IInv
<1>2. Aimed(forms', throw', aim', "running", interrupted')
  BY AimSame DEF IInv, Quiet, IsPending
<1>. QED  BY <1>1, <1>2 DEF Goes, Aimed

LEMMA EnterGoes ==
  ASSUME IInv, EnterForm
  PROVE  Goes
<1>1. forms \in Seq(FrameType) /\ mode = "running" /\ mode' = mode
  BY DEF IInv, Shape, Stack, EnterForm, MayEnter, EnterRestart, EnterProtect, EnterRestarts,
         EnterCatch, EnterHandlers
<1>2. ASSUME NEW f, forms' = Append(forms, f), Quiet(f),
             UNCHANGED <<throw, debugger_depth, owed, aim, interrupted>>
      PROVE  Goes
  BY <1>1, <1>2, OneMore, QuietStep
<1>3. ASSUME NEW tag \in Tag, EnterCatch(tag)
      PROVE  Goes
  BY <1>2, <1>3 DEF EnterCatch, StackFrame, Quiet, history
<1>4. CASE EnterRestart
  BY <1>2, <1>4 DEF EnterRestart, StackFrame, Quiet, history
<1>5. CASE EnterRestarts
  BY <1>2, <1>5 DEF EnterRestarts, StackFrame, Quiet, history
<1>6. ASSUME NEW type \in Type, EnterHandlers(type)
      PROVE  Goes
  BY <1>2, <1>6 DEF EnterHandlers, StackFrame, Quiet, history
<1>7. CASE EnterProtect
  <2>. DEFINE f == StackFrame("protect", "body", reg)
              d == Len(forms)
  <2>1. /\ forms' = Append(forms, f) /\ owed' = owed + 1
        /\ UNCHANGED <<throw, debugger_depth, aim, interrupted>>
    BY <1>7 DEF EnterProtect
  <2>2. f.kind = "protect" /\ f.of = "body"
    BY DEF StackFrame
  <2>. HIDE DEF f, d
  <2>3. /\ Agree(forms, forms', d) /\ Len(forms') = d + 1 /\ forms'[d + 1] = f /\ d \in Nat
        /\ \A e \in (d + 1)..d : FALSE
        /\ \A e \in (d + 1)..(d + 1) : forms'[e] = f
    BY <1>1, <2>1, OneMore DEF d
  <2>4. Debuggers(forms', d) = Debuggers(forms, d) /\ Bodies(forms', d) = Bodies(forms, d)
    BY <2>3, FramesSame DEF Agree
  <2>5. debugger_depth = Cardinality(Debuggers(forms, d)) /\ owed = Cardinality(Bodies(forms, d))
    BY DEF IInv, Counted, d
  <2>6. Counted(forms', debugger_depth', owed')
    <3>1. /\ Cardinality(Debuggers(forms', d)) \in Nat
          /\ Cardinality(Debuggers(forms', d + 1)) = Cardinality(Debuggers(forms', d)) + 0
          /\ Cardinality(Bodies(forms', d + 1)) = Cardinality(Bodies(forms', d)) + 1
      BY <2>2, <2>3, CountsAdd
    <3>. QED  BY <2>1, <2>3, <2>4, <2>5, <3>1 DEF Counted
  <2>7. Aimed(forms', throw', aim', "running", interrupted')
    BY <1>1, <2>1, <2>2, <2>3, AimSame DEF IInv, IsPending, d
  <2>. QED  BY <1>1, <2>6, <2>7 DEF Goes
<1>. QED  BY <1>3, <1>4, <1>5, <1>6, <1>7 DEF EnterForm

\* dfsch_signal, on what is beneath it.
LEMMA HandleGoes ==
  ASSUME IInv, mode = "running", NEW below, Stack(below), Agree(forms, below, Len(below)),
         \A e \in (Len(below) + 1)..Len(forms) : Quiet(forms[e]),
         NEW condition, NEW save, NEW handlers, Handle(below, condition, save, handlers)
  PROVE  Goes
<1>. DEFINE d == Len(below)
<1>1. below \in Seq(FrameType) /\ d \in Nat
  BY DEF Stack
<1>. HIDE DEF d
<1>2. ASSUME NEW t, Agree(below, t, d)
      PROVE  Agree(forms, t, d)
  BY <1>2 DEF Agree, d
<1>3. CASE EndSignal(below, condition, save) /\ UNCHANGED debugger_depth
  <2>1. Agree(below, below, d) /\ \A e \in (d + 1)..Len(below) : FALSE
    BY <1>1 DEF Agree, d
  <2>2. forms' = below
    BY <1>3 DEF EndSignal, TerminateFrom
  <2>3. CASE UNCHANGED <<throw, mode, history>> \/ (mode' = "lost" /\ UNCHANGED <<throw, history>>)
    <3>1. mode' \in {"running", "lost"}
      BY <2>3
    <3>2. UNCHANGED <<throw, debugger_depth, owed, aim, interrupted>>
      BY <1>3, <2>3 DEF history
    <3>. QED  BY <1>1, <1>2, <2>1, <2>2, <3>1, <3>2, QuietStep DEF d
  <2>4. CASE TerminateFrom(below) /\ UNCHANGED <<reg, owed, interrupted>>
    <3>1. Counted(forms', debugger_depth', owed')
      BY <1>2, <1>3, <2>1, <2>2, <2>4, CountSame DEF IInv, d
    <3>2. Aimed(forms', throw', aim', mode', interrupted')
      BY <2>4 DEF TerminateFrom, Aimed, Going
    <3>. QED  BY <3>1, <3>2 DEF Goes
  <2>. QED  BY <1>3, <2>3, <2>4 DEF EndSignal
<1>4. ASSUME NEW f, forms' = Append(below, f), Quiet(f),
             UNCHANGED <<throw, debugger_depth, mode, history>>
      PROVE  Goes
  <2>1. /\ Agree(below, forms', d) /\ Len(forms') = d + 1
        /\ \A e \in (d + 1)..(d + 1) : forms'[e] = f
    BY <1>1, <1>4, OneMore DEF d
  <2>2. Agree(forms, forms', d)
    BY <1>2, <2>1
  <2>3. mode' \in {"running", "lost"} /\ UNCHANGED <<throw, debugger_depth, owed, aim, interrupted>>
    BY <1>4 DEF history
  <2>4. \A e \in (d + 1)..Len(forms') : Quiet(forms'[e])
    BY <1>4, <2>1
  <2>5. \A e \in (d + 1)..Len(forms) : Quiet(forms[e])
    BY DEF d
  <2>. QED  BY <2>2, <2>3, <2>4, <2>5, QuietStep
<1>5. ASSUME NEW f, NEW g, forms' = below \o <<f, g>>, Quiet(f), g.kind = "debugger",
             debugger_depth' = debugger_depth + 1,
             UNCHANGED <<throw, mode, history>>
      PROVE  Goes
  <2>. DEFINE t == Append(below, f)
  <2>1. /\ Agree(below, t, d) /\ Len(t) = d + 1 /\ t[d + 1] = f
        /\ \A e \in (d + 1)..(d + 1) : t[e] = f
    BY <1>1, OneMore DEF d
  <2>2. Agree(forms, t, d)
    BY <1>2, <2>1
  <2>3. /\ Len(forms') = d + 2 /\ \A e \in 1..(d + 1) : forms'[e] = t[e]
        /\ forms'[d + 2] = g
    <3>1. below \in Seq(FrameType \union {f, g}) /\ f \in FrameType \union {f, g} /\ g \in FrameType \union {f, g}
      BY <1>1
    <3>. QED  BY <1>1, <1>5, <3>1 DEF d
  <2>. HIDE DEF t
  <2>4. \A e \in (d + 1)..Len(forms) : Quiet(forms[e])
    BY DEF d
  <2>5. Counted(t, debugger_depth, owed)
    BY <1>5, <2>1, <2>2, <2>4, CountSame DEF IInv
  <2>6. Aimed(t, throw, aim, "running", interrupted)
    <3>1. \A e \in (d + 1)..Len(forms) : ~IsPending(forms[e])
      BY <2>4 DEF IsPending, Quiet
    <3>2. \A e \in (d + 1)..Len(t) : ~IsPending(t[e])
      BY <1>5, <2>1 DEF IsPending, Quiet
    <3>. QED  BY <2>2, <3>1, <3>2, AimSame DEF IInv
  <2>7. d + 1 \in Nat /\ (d + 1) + 1 = d + 2
    BY <1>1
  <2>8. Counted(forms', debugger_depth', owed')
    <3>1. /\ Debuggers(forms', d + 1) = Debuggers(t, d + 1) /\ Bodies(forms', d + 1) = Bodies(t, d + 1)
      BY <2>3, <2>7, FramesSame
    <3>2. /\ Cardinality(Debuggers(forms', d + 2)) = Cardinality(Debuggers(forms', d + 1)) + 1
          /\ Cardinality(Bodies(forms', d + 2)) = Cardinality(Bodies(forms', d + 1)) + 0
          /\ Cardinality(Bodies(forms', d + 1)) \in Nat
      BY <1>5, <2>3, <2>7, CountsAdd
    <3>3. owed' = owed
      BY <1>5 DEF history
    <3>. QED  BY <1>5, <2>1, <2>3, <2>5, <3>1, <3>2, <3>3 DEF Counted
  <2>9. Aimed(forms', throw, aim, "running", interrupted)
    <3>1. Agree(t, forms', d + 1)
      BY <1>1, <2>1, <2>3 DEF Agree
    <3>2. \A e \in ((d + 1) + 1)..Len(t) : ~IsPending(t[e])
      BY <1>1, <2>1
    <3>3. \A e \in ((d + 1) + 1)..Len(forms') : e = d + 2
      BY <1>1, <2>3
    <3>4. \A e \in ((d + 1) + 1)..Len(forms') : ~IsPending(forms'[e])
      BY <1>5, <2>3, <3>3 DEF IsPending
    <3>. QED  BY <2>6, <3>1, <3>2, <3>4, AimSame
  <2>10. UNCHANGED <<throw, aim, interrupted>> /\ mode' = "running"
    BY <1>5 DEF history
  <2>. QED  BY <2>8, <2>9, <2>10 DEF Goes
<1>6. CASE EnterDebugger(below, condition, save)
  <2>1. CASE debugger_depth > MaxRecursion
    BY <1>3, <1>6, <2>1 DEF EnterDebugger
  <2>2. CASE ~(debugger_depth > MaxRecursion)
    BY <1>5, <1>6, <2>2 DEF EnterDebugger, StackFrame, Quiet
  <2>. QED  BY <2>1, <2>2
<1>. QED  BY <1>3, <1>4, <1>6 DEF Handle, StackFrame, Quiet

LEMMA PopGoes ==
  ASSUME IInv, NEW kind, Returning(kind), kind \notin {"debugger", "protect"}, forms' = Below,
         UNCHANGED <<throw, debugger_depth, mode, history>>
  PROVE  Goes
<1>. DEFINE d == Depth - 1
<1>1. /\ d \in Nat /\ Len(forms) = d + 1 /\ mode = "running" /\ forms[d + 1].kind = kind
      /\ Len(Below) = d /\ \A e \in 1..d : forms[e] = Below[e]
  BY TopIs DEF IInv
<1>. HIDE DEF d
<1>2. /\ Agree(forms, Below, d) /\ \A e \in (d + 1)..Len(Below) : FALSE
      /\ \A e \in (d + 1)..Len(forms) : forms[e] = forms[d + 1]
  BY <1>1, OneLess
<1>3. \A e \in (d + 1)..Len(forms) : Quiet(forms[e])
  BY <1>1, <1>2 DEF Quiet
<1>4. mode' \in {"running", "lost"} /\ UNCHANGED <<throw, debugger_depth, owed, aim, interrupted>>
  BY <1>1 DEF history
<1>. QED  BY <1>1, <1>2, <1>3, <1>4, QuietStep

LEMMA ReturnProtectedGoes ==
  ASSUME IInv, ReturnProtected
  PROVE  Goes
<1>. DEFINE d == Depth - 1
<1>1. /\ Returning("protect") /\ forms' = [forms EXCEPT ![Depth].of = "return"] /\ mode' = mode
      /\ owed' = owed - 1 /\ TopForm.of = "body" /\ UNCHANGED <<throw, debugger_depth, aim, interrupted>>
  BY DEF ReturnProtected
<1>2. /\ d \in Nat /\ Depth = d + 1 /\ Len(forms) = d + 1 /\ mode = "running"
      /\ TopForm = forms[d + 1] /\ TopForm.kind = "protect" /\ TopForm \in FrameType /\ Stack(forms)
  BY <1>1, TopIs DEF IInv
<1>. HIDE DEF d
<1>3. /\ Len(forms') = d + 1 /\ \A e \in 1..d : forms'[e] = forms[e]
      /\ forms'[d + 1].kind = "protect" /\ forms'[d + 1].of = "return"
  <2>1. forms \in Seq(FrameType)
    BY <1>2 DEF Stack
  <2>2. forms' = [forms EXCEPT ![d + 1] = [TopForm EXCEPT !.of = "return"]]
    BY <1>1, <1>2, <2>1
  <2>3. [TopForm EXCEPT !.of = "return"].kind = "protect" /\ [TopForm EXCEPT !.of = "return"].of = "return"
    BY <1>2 DEF FrameType
  <2>. QED  BY <1>2, <2>1, <2>2, <2>3
<1>4. Agree(forms, forms', d)
  BY <1>2, <1>3 DEF Agree
<1>5. Counted(forms', debugger_depth', owed')
  <2>1. Debuggers(forms', d) = Debuggers(forms, d) /\ Bodies(forms', d) = Bodies(forms, d)
    BY <1>4, FramesSame DEF Agree
  <2>2. /\ Cardinality(Debuggers(forms, d)) \in Nat /\ Cardinality(Bodies(forms, d)) \in Nat
        /\ Cardinality(Debuggers(forms, d + 1)) = Cardinality(Debuggers(forms, d)) + 0
        /\ Cardinality(Bodies(forms, d + 1)) = Cardinality(Bodies(forms, d)) + 1
    BY <1>1, <1>2, CountsAdd
  <2>3. /\ Cardinality(Debuggers(forms', d + 1)) = Cardinality(Debuggers(forms', d)) + 0
        /\ Cardinality(Bodies(forms', d + 1)) = Cardinality(Bodies(forms', d)) + 0
    BY <1>2, <1>3, CountsAdd
  <2>4. /\ debugger_depth = Cardinality(Debuggers(forms, d + 1))
        /\ owed = Cardinality(Bodies(forms, d + 1))
    BY <1>2 DEF IInv, Counted
  <2>. QED  BY <1>1, <1>3, <2>1, <2>2, <2>3, <2>4 DEF Counted
<1>6. Aimed(forms', throw', aim', "running", interrupted')
  <2>1. \A e \in (d + 1)..(d + 1) : e = d + 1
    BY <1>2
  <2>2. ~IsPending(forms[d + 1]) /\ ~IsPending(forms'[d + 1])
    BY <1>1, <1>2, <1>3 DEF IsPending
  <2>3. /\ \A e \in (d + 1)..Len(forms) : ~IsPending(forms[e])
        /\ \A e \in (d + 1)..Len(forms') : ~IsPending(forms'[e])
    BY <1>2, <1>3, <2>1, <2>2
  <2>4. Aimed(forms, throw, aim, "running", interrupted)
    BY <1>2 DEF IInv
  <2>5. Aimed(forms', throw, aim, "running", interrupted)
    BY <1>4, <2>3, <2>4, AimSame
  <2>. QED  BY <1>1, <2>5
<1>. QED  BY <1>1, <1>2, <1>5, <1>6 DEF Goes

LEMMA EndCleanupGoes ==
  ASSUME IInv, EndCleanup
  PROVE  Goes
<1>. DEFINE d == Depth - 1
<1>1. /\ Returning("protect") /\ forms' = Below /\ TopForm.of # "body"
      /\ mode' = IF TopForm.of = "throw" THEN "unwinding" ELSE "running"
      /\ UNCHANGED <<throw, debugger_depth, owed, aim, interrupted>>
  BY DEF EndCleanup, history
<1>2. /\ d \in Nat /\ Len(forms) = d + 1 /\ mode = "running"
      /\ TopForm = forms[d + 1] /\ TopForm.kind = "protect"
      /\ Len(Below) = d /\ \A e \in 1..d : forms[e] = Below[e]
  BY <1>1, TopIs DEF IInv
<1>. HIDE DEF d
<1>3. /\ Agree(forms, Below, d) /\ \A e \in (d + 1)..Len(Below) : FALSE
      /\ \A e \in (d + 1)..Len(forms) : forms[e] = forms[d + 1]
  BY <1>2, OneLess
<1>4. Counted(forms', debugger_depth', owed')
  <2>1. Debuggers(Below, d) = Debuggers(forms, d) /\ Bodies(Below, d) = Bodies(forms, d)
    BY <1>3, FramesSame DEF Agree
  <2>2. /\ Cardinality(Debuggers(forms, d)) \in Nat /\ Cardinality(Bodies(forms, d)) \in Nat
        /\ Cardinality(Debuggers(forms, d + 1)) = Cardinality(Debuggers(forms, d)) + 0
        /\ Cardinality(Bodies(forms, d + 1)) = Cardinality(Bodies(forms, d)) + 0
    BY <1>1, <1>2, CountsAdd
  <2>3. /\ debugger_depth = Cardinality(Debuggers(forms, d + 1))
        /\ owed = Cardinality(Bodies(forms, d + 1))
    BY <1>2 DEF IInv, Counted
  <2>. QED  BY <1>1, <1>2, <2>1, <2>2, <2>3 DEF Counted
<1>5. CASE TopForm.of = "throw"
  <2>1. SUFFICES ASSUME ~interrupted
                 PROVE  Going(Below, d, throw, aim)
    BY <1>1, <1>2, <1>4, <1>5 DEF Goes, Aimed
  <2>2. Pending(forms, d + 1) \in SUBSET (1..(d + 1)) /\ d + 1 \in Pending(forms, d + 1)
    BY <1>2, <1>5, FramesWithin DEF Pending
  <2>3. Innermost(Pending(forms, d + 1)) = d + 1 /\ (d + 1) - 1 = d
    BY <1>2, <2>2, InnermostLast
  <2>4. Going(forms, d, throw, aim)
    BY <1>2, <2>1, <2>2, <2>3 DEF IInv, Aimed
  <2>. QED  BY <1>2, <2>4, GoingSame
<1>6. CASE TopForm.of # "throw"
  <2>1. \A e \in (d + 1)..Len(forms) : ~IsPending(forms[e])
    BY <1>2, <1>3, <1>6 DEF IsPending
  <2>2. Aimed(forms', throw', aim', "running", interrupted')
    BY <1>1, <1>2, <1>3, <2>1, AimSame DEF IInv
  <2>. QED  BY <1>1, <1>4, <1>6, <2>2 DEF Goes
<1>. QED  BY <1>5, <1>6

LEMMA DeclineGoes ==
  ASSUME IInv, Decline
  PROVE  Goes
<1>. DEFINE d == Depth - 1
<1>1. /\ d \in Nat /\ Len(forms) = d + 1 /\ mode = "running" /\ forms[d + 1].kind = "signal"
      /\ Stack(Below) /\ Len(Below) = d /\ \A e \in 1..d : forms[e] = Below[e]
  BY TopIs DEF IInv, Decline
<1>. HIDE DEF d
<1>2. /\ Agree(forms, Below, d) /\ \A e \in (d + 1)..Len(forms) : forms[e] = forms[d + 1]
  BY <1>1, OneLess
<1>3. \A e \in (Len(Below) + 1)..Len(forms) : Quiet(forms[e])
  BY <1>1, <1>2 DEF Quiet
<1>4. Agree(forms, Below, Len(Below))
  BY <1>1, <1>2
<1>5. PICK condition, save, handlers : Handle(Below, condition, save, handlers)
  BY DEF Decline
<1>. QED  BY <1>1, <1>3, <1>4, <1>5, HandleGoes

LEMMA SignalGoes ==
  ASSUME IInv, NEW condition, Signal(condition)
  PROVE  Goes
<1>1. Stack(forms) /\ mode = "running" /\ Handle(forms, condition, reg, reg.handler_list)
  BY DEF IInv, Shape, Signal, MayEnter
<1>2. Len(forms) \in Nat
  BY <1>1 DEF Stack
<1>3. Agree(forms, forms, Len(forms)) /\ \A e \in (Len(forms) + 1)..Len(forms) : FALSE
  BY <1>2 DEF Agree
<1>. QED  BY <1>1, <1>3, HandleGoes

LEMMA ReturnDebuggerGoes ==
  ASSUME IInv, ReturnDebugger
  PROVE  Goes
<1>. DEFINE d == Depth - 1
            c == d - 1
            t == Front(Below)
<1>1. /\ Returning("debugger") /\ forms' = t /\ debugger_depth' = debugger_depth - 1
      /\ owed' = owed /\ interrupted' = interrupted
      /\ \/ mode' \in {mode, "lost"} /\ UNCHANGED <<throw, aim>>
         \/ mode' = "unwinding" /\ aim'.tag = Terminate /\ throw' = [tag |-> aim'.tag, value |-> aim'.value]
  BY DEF ReturnDebugger, TerminateFrom, history
<1>2. /\ d \in Nat /\ Len(forms) = d + 1 /\ TopForm = forms[d + 1] /\ TopForm.kind = "debugger"
      /\ Kept(forms, d + 1) /\ (d + 1) - 1 = d
      /\ Stack(Below) /\ Len(Below) = d /\ \A e \in 1..d : forms[e] = Below[e]
      /\ mode = "running"
  BY <1>1, TopIs DEF IInv
<1>. HIDE DEF d
<1>3. d > 0 /\ Below[d].kind = "signal" /\ c \in Nat /\ d = c + 1
  BY <1>2 DEF Kept
<1>. HIDE DEF c
<1>4. Len(t) = c /\ \A e \in 1..c : Below[e] = t[e]
  BY <1>2, <1>3, Pop
<1>. HIDE DEF t
<1>5. Agree(forms, t, c) /\ \A e \in (c + 1)..Len(t) : FALSE
  BY <1>2, <1>3, <1>4 DEF Agree
<1>6. Counted(forms', debugger_depth', owed')
  <2>1. Debuggers(t, c) = Debuggers(forms, c) /\ Bodies(t, c) = Bodies(forms, c)
    BY <1>5, FramesSame DEF Agree
  <2>2. /\ Cardinality(Debuggers(forms, c)) \in Nat /\ Cardinality(Bodies(forms, c)) \in Nat
        /\ Cardinality(Debuggers(forms, c + 1)) = Cardinality(Debuggers(forms, c)) + 0
        /\ Cardinality(Bodies(forms, c + 1)) = Cardinality(Bodies(forms, c)) + 0
    <3>1. forms[c + 1].kind = "signal"
      BY <1>2, <1>3
    <3>. QED  BY <1>3, <3>1, CountsAdd
  <2>3. /\ Cardinality(Debuggers(forms, d + 1)) = Cardinality(Debuggers(forms, d)) + 1
        /\ Cardinality(Bodies(forms, d + 1)) = Cardinality(Bodies(forms, d)) + 0
    BY <1>2, CountsAdd
  <2>4. /\ debugger_depth = Cardinality(Debuggers(forms, d + 1))
        /\ owed = Cardinality(Bodies(forms, d + 1))
    BY <1>2 DEF IInv, Counted
  <2>. QED  BY <1>1, <1>3, <1>4, <2>1, <2>2, <2>3, <2>4 DEF Counted
<1>7. Aimed(forms', throw, aim, "running", interrupted)
  <2>1. \A e \in (c + 1)..(d + 1) : e = d \/ e = d + 1
    BY <1>2, <1>3
  <2>2. \A e \in (c + 1)..Len(forms) : ~IsPending(forms[e])
    BY <1>2, <1>3, <2>1 DEF IsPending
  <2>3. Aimed(forms, throw, aim, "running", interrupted)
    BY <1>2 DEF IInv
  <2>. QED  BY <1>1, <1>5, <2>2, <2>3, AimSame
<1>8. Aimed(forms', throw', aim', mode', interrupted')
  <2>1. CASE mode' \in {mode, "lost"} /\ UNCHANGED <<throw, aim>>
    BY <1>1, <1>2, <1>7, <2>1 DEF Aimed
  <2>2. CASE mode' = "unwinding" /\ aim'.tag = Terminate /\ throw' = [tag |-> aim'.tag, value |-> aim'.value]
    BY <2>2 DEF Aimed, Going
  <2>. QED  BY <1>1, <2>1, <2>2
<1>. QED  BY <1>6, <1>8 DEF Goes

LEMMA ReturnGoes ==
  ASSUME IInv, ReturnForm
  PROVE  Goes
<1>1. ASSUME ReturnCatch \/ ReturnHandlers \/ ReturnRestarts
      PROVE  Goes
  BY <1>1, PopGoes DEF ReturnCatch, ReturnHandlers, ReturnRestarts
<1>. QED  BY <1>1, ReturnProtectedGoes, EndCleanupGoes, DeclineGoes, ReturnDebuggerGoes DEF ReturnForm

\* A throw has a target.
LEMMA ThrowGoes ==
  ASSUME IInv, NEW tag, NEW value, ThrowTag(tag, value)
  PROVE  Goes
<1>1. CASE Signal(Error)
  BY <1>1, SignalGoes
<1>2. CASE tag \in ToSet(reg.catch_list) /\ ThrowTo(tag, value)
  <2>1. mode = "running" /\ Fit(reg, forms, Len(forms)) /\ Stack(forms) /\ Len(forms) \in Nat
    BY DEF ThrowTag, IInv, Shape, Stack
  <2>2. PICK i \in DOMAIN reg.catch_list : reg.catch_list[i] = tag
    BY <1>2 DEF ToSet
  <2>. DEFINE frames == {e \in Catches(forms, Len(forms)) : forms[e].of = tag}
  <2>3. frames # {} /\ frames \in SUBSET (1..Len(forms))
    BY <2>1, <2>2, FramesWithin DEF Fit, Catching
  <2>4. CatchOf(tag) = Innermost(frames)
    BY DEF CatchOf, Depth
  <2>. HIDE DEF frames
  <2>5. CatchOf(tag) > 0
    <3>1. Innermost(frames) \in frames
      BY <2>1, <2>3, InnermostIs
    <3>2. Innermost(frames) \in 1..Len(forms)
      BY <2>3, <3>1
    <3>. QED  BY <2>1, <2>4, <3>2
  <2>6. /\ throw' = [tag |-> tag, value |-> value]
        /\ aim' = [tag |-> tag, value |-> value, at |-> CatchOf(tag)]
        /\ mode' = "unwinding" /\ UNCHANGED <<forms, debugger_depth, owed, interrupted>>
    BY <1>2 DEF ThrowTo
  <2>7. aim'.tag = tag /\ aim'.value = value /\ aim'.at = CatchOf(tag)
    BY <2>6
  <2>8. Going(forms', Len(forms'), throw', aim')
    BY <2>4, <2>5, <2>6, <2>7 DEF Going, frames
  <2>. QED  BY <2>6, <2>8 DEF Goes, Aimed, IInv
<1>. QED  BY <1>1, <1>2 DEF ThrowTag

LEMMA ExitGoes ==
  ASSUME IInv, Exit
  PROVE  Goes
<1>1. CASE \E tag \in Tag, value \in Value : ThrowTag(tag, value)
  BY <1>1, ThrowGoes
<1>2. CASE \E restart \in ToSet(reg.restart_list), value \in Value : InvokeRestart(restart, value)
  <2>1. PICK restart \in ToSet(reg.restart_list), value \in Value : InvokeRestart(restart, value)
    BY <1>2
  <2>2. CASE ThrowTag(restart, value)
    BY <2>2, ThrowGoes
  <2>3. CASE TerminateFrom(forms) /\ UNCHANGED <<reg, debugger_depth, owed, interrupted>>
    BY <2>3 DEF TerminateFrom, Goes, Aimed, Going, IInv
  <2>. QED  BY <2>1, <2>2, <2>3 DEF InvokeRestart
<1>3. CASE \E condition \in Condition : Signal(condition)
  BY <1>3, SignalGoes
<1>. QED  BY <1>1, <1>2, <1>3 DEF Exit

\* What an unwinding passes counts for nothing, and holds no catch of its tag.
LEMMA Passing ==
  ASSUME IInv, NEW kind, Landing(kind), NEW d, d = reg.throw_ret - 1,
         NEW t, t = SubSeq(forms, 1, d)
  PROVE  /\ debugger_depth = Cardinality(Debuggers(t, d)) + IF kind = "debugger" THEN 1 ELSE 0
         /\ owed = Cardinality(Bodies(t, d)) + IF kind = "protect" THEN 1 ELSE 0
         /\ Cardinality(Debuggers(t, d)) \in Nat /\ Cardinality(Bodies(t, d)) \in Nat
         /\ ~interrupted /\ (kind # "catch" \/ throw.tag # Target.of) => Going(t, d, throw, aim)
<1>1. /\ d \in Nat /\ d + 1 \in 1..Len(forms) /\ Target = forms[d + 1] /\ Target.kind = kind
      /\ IsTarget(Target) /\ mode = "unwinding" /\ Len(t) = d /\ \A e \in 1..d : forms[e] = t[e]
      /\ \A e \in 1..Len(forms) : IsTarget(forms[e]) => e <= d + 1
      /\ Len(forms) \in Nat
  <2>1. Shape(forms, reg, mode)
    BY DEF IInv
  <2>2. Len(forms) \in Nat
    BY <2>1 DEF Shape, Stack
  <2>3. /\ d \in Nat /\ d + 1 \in 1..Len(forms) /\ Target = forms[d + 1] /\ Target.kind = kind
        /\ IsTarget(Target) /\ mode = "unwinding" /\ Len(t) = d
    BY <2>1, LandingIs
  <2>4. \A e \in 1..d : forms[e] = t[e]
    BY <2>1, LandingIs
  <2>5. \A e \in 1..Len(forms) : IsTarget(forms[e]) => e <= d + 1
    BY <2>1, LandingIs
  <2>. QED  BY <2>2, <2>3, <2>4, <2>5
<1>2. kind = "protect" => Target.of = "body"
  BY <1>1 DEF IsTarget
<1>3. \A e : e \in 1..Len(forms) <=> e \in 1..(d + 1) \/ (e \in 1..Len(forms) /\ e > d + 1)
  BY <1>1
<1>4. ASSUME NEW e \in 1..Len(forms), IsTarget(forms[e])
      PROVE  e \in 1..(d + 1)
  BY <1>1, <1>4
<1>5. /\ Debuggers(forms, Len(forms)) = Debuggers(forms, d + 1)
      /\ Bodies(forms, Len(forms)) = Bodies(forms, d + 1)
      /\ Catches(forms, Len(forms)) = Catches(forms, d + 1)
  BY <1>3, <1>4 DEF Debuggers, Bodies, Catches, IsTarget
<1>6. /\ Debuggers(t, d) = Debuggers(forms, d) /\ Bodies(t, d) = Bodies(forms, d)
  BY <1>1, FramesSame
<1>7. /\ Cardinality(Debuggers(forms, d)) \in Nat /\ Cardinality(Bodies(forms, d)) \in Nat
      /\ Cardinality(Debuggers(forms, d + 1)) =
           Cardinality(Debuggers(forms, d)) + IF kind = "debugger" THEN 1 ELSE 0
      /\ Cardinality(Bodies(forms, d + 1)) =
           Cardinality(Bodies(forms, d)) + IF kind = "protect" THEN 1 ELSE 0
  BY <1>1, <1>2, CountsAdd
<1>8. /\ debugger_depth = Cardinality(Debuggers(forms, Len(forms)))
      /\ owed = Cardinality(Bodies(forms, Len(forms)))
  BY DEF IInv, Counted
<1>9. ASSUME ~interrupted, kind # "catch" \/ throw.tag # Target.of
      PROVE  Going(t, d, throw, aim)
  <2>1. Going(forms, Len(forms), throw, aim)
    BY <1>1, <1>9 DEF IInv, Aimed
  <2>2. throw.tag = aim.tag
    BY <2>1 DEF Going
  <2>3. {e \in Catches(forms, Len(forms)) : forms[e].of = aim.tag}
          = {e \in Catches(forms, d) : forms[e].of = aim.tag}
    BY <1>1, <1>5, <1>9, <2>2, FramesAdd
  <2>4. Going(forms, d, throw, aim)
    BY <2>1, <2>3 DEF Going
  <2>. QED  BY <1>1, <2>4, GoingSame
<1>. QED  BY <1>5, <1>6, <1>7, <1>8, <1>9

LEMMA ContinueGoes ==
  ASSUME IInv, Continue
  PROVE  Goes
<1>. DEFINE d == reg.throw_ret - 1
            t == SubSeq(forms, 1, d)
<1>0. Shape(forms, reg, mode) /\ d = reg.throw_ret - 1 /\ t = SubSeq(forms, 1, d)
  BY DEF IInv
<1>1. CASE NoTarget
  <2>1. /\ mode = "unwinding" /\ reg.throw_ret = 0 /\ forms' = <<>>
        /\ mode' \notin {"running", "unwinding"} /\ UNCHANGED <<debugger_depth, owed>>
    BY <1>1 DEF NoTarget, history
  <2>2. Innermost(Targets(forms, Len(forms))) = 0 /\ Len(forms) \in Nat
    BY <1>0, <2>1 DEF Shape, Stack
  <2>3. Targets(forms, Len(forms)) = {}
    <3>1. Targets(forms, Len(forms)) \in SUBSET (1..Len(forms))
      BY <2>2, FramesWithin
    <3>2. 0 \notin 1..Len(forms)
      OBVIOUS
    <3>. QED  BY <2>2, <3>1, <3>2, InnermostIs
  <2>4. Debuggers(forms, Len(forms)) = {} /\ Bodies(forms, Len(forms)) = {}
    BY <2>3 DEF Targets, Debuggers, Bodies
  <2>5. Len(forms') = 0 /\ Debuggers(forms', 0) = {} /\ Bodies(forms', 0) = {}
    BY <2>1 DEF Debuggers, Bodies
  <2>6. Counted(forms', debugger_depth', owed')
    BY <2>1, <2>4, <2>5 DEF IInv, Counted
  <2>. QED  BY <2>1, <2>6 DEF Goes, Aimed
<1>2. CASE LandOnCatch
  <2>1. /\ Landing("catch") /\ forms' = t /\ UNCHANGED <<debugger_depth, owed>>
        /\ \/ mode' = "running" /\ interrupted' = (interrupted \/ InsideCleanup)
           \/ throw.tag # Target.of /\ UNCHANGED <<throw, mode, aim, interrupted>>
    BY <1>2 DEF LandOnCatch
  <2>. HIDE DEF d, t
  <2>2. Landing("catch")
    BY <2>1
  <2>3. d \in Nat /\ Len(t) = d /\ mode = "unwinding"
    BY <1>0, <2>2, LandingIs
  <2>4. \A e \in 1..d : forms[e] = t[e]
    BY <1>0, <2>2, LandingIs
  <2>5. debugger_depth = Cardinality(Debuggers(t, d)) /\ owed = Cardinality(Bodies(t, d))
    <3>1. Cardinality(Debuggers(t, d)) \in Nat /\ Cardinality(Bodies(t, d)) \in Nat
      BY <1>0, <2>2, Passing
    <3>2. debugger_depth = Cardinality(Debuggers(t, d)) + IF "catch" = "debugger" THEN 1 ELSE 0
      BY <1>0, <2>2, Passing
    <3>3. owed = Cardinality(Bodies(t, d)) + IF "catch" = "protect" THEN 1 ELSE 0
      BY <1>0, <2>2, Passing
    <3>. QED  BY <3>1, <3>2, <3>3
  <2>6. ~interrupted /\ throw.tag # Target.of => Going(t, d, throw, aim)
    BY <1>0, <2>2, Passing
  <2>7. InsideCleanup <=> Pending(t, d) # {}
    BY <1>0, <2>4 DEF InsideCleanup, Pending
  <2>8. Counted(forms', debugger_depth', owed')
    BY <2>1, <2>3, <2>5 DEF Counted
  <2>9. CASE mode' = "running" /\ interrupted' = (interrupted \/ InsideCleanup)
    BY <2>1, <2>3, <2>7, <2>8, <2>9 DEF Goes, Aimed
  <2>10. CASE throw.tag # Target.of /\ UNCHANGED <<throw, mode, aim, interrupted>>
    BY <2>1, <2>3, <2>6, <2>8, <2>10 DEF Goes, Aimed
  <2>. QED  BY <2>1, <2>9, <2>10
<1>3. CASE LandOnProtect
  <2>. DEFINE f == [Target EXCEPT !.of = "throw"]
              u == Append(t, f)
  <2>1. /\ Landing("protect") /\ forms' = u /\ mode' = "running" /\ owed' = owed - 1
        /\ UNCHANGED <<throw, debugger_depth, aim, interrupted>>
    BY <1>3 DEF LandOnProtect
  <2>2. /\ d \in Nat /\ Len(t) = d /\ Stack(t) /\ Target.kind = "protect" /\ Target \in FrameType
    BY <1>0, <2>1, LandingIs
  <2>3. /\ debugger_depth = Cardinality(Debuggers(t, d)) + 0
        /\ owed = Cardinality(Bodies(t, d)) + 1
        /\ Cardinality(Debuggers(t, d)) \in Nat /\ Cardinality(Bodies(t, d)) \in Nat
        /\ ~interrupted => Going(t, d, throw, aim)
    BY <2>1, Passing
  <2>4. f.kind = "protect" /\ f.of = "throw"
    BY <2>2 DEF FrameType
  <2>. HIDE DEF f, d, t
  <2>5. Agree(t, u, d) /\ Len(u) = d + 1 /\ u[d + 1] = f
    BY <2>2, OneMore DEF Stack
  <2>. HIDE DEF u
  <2>6. Counted(forms', debugger_depth', owed')
    <3>1. Debuggers(u, d) = Debuggers(t, d) /\ Bodies(u, d) = Bodies(t, d)
      BY <2>5, FramesSame DEF Agree
    <3>2. /\ Cardinality(Debuggers(u, d + 1)) = Cardinality(Debuggers(u, d)) + 0
          /\ Cardinality(Bodies(u, d + 1)) = Cardinality(Bodies(u, d)) + 0
      BY <2>2, <2>4, <2>5, CountsAdd
    <3>. QED  BY <2>1, <2>3, <2>5, <3>1, <3>2 DEF Counted
  <2>7. Innermost(Pending(u, d + 1)) = d + 1 /\ (d + 1) - 1 = d
    <3>1. Pending(u, d + 1) \in SUBSET (1..(d + 1)) /\ d + 1 \in Pending(u, d + 1)
      BY <2>2, <2>4, <2>5, FramesWithin DEF Pending
    <3>. QED  BY <2>2, <3>1, InnermostLast
  <2>8. ~interrupted => Going(u, d, throw, aim)
    BY <2>2, <2>3, <2>5, GoingSame DEF Agree
  <2>. QED  BY <2>1, <2>5, <2>6, <2>7, <2>8 DEF Goes, Aimed
<1>4. CASE LandOnDebugger
  <2>1. /\ Landing("debugger") /\ forms' = t /\ debugger_depth' = debugger_depth - 1
        /\ UNCHANGED <<throw, mode, owed, aim, interrupted>>
    BY <1>4 DEF LandOnDebugger, history
  <2>2. d \in Nat /\ Len(t) = d /\ mode = "unwinding"
    BY <1>0, <2>1, LandingIs
  <2>3. /\ debugger_depth = Cardinality(Debuggers(t, d)) + 1
        /\ owed = Cardinality(Bodies(t, d)) + 0
        /\ Cardinality(Debuggers(t, d)) \in Nat /\ Cardinality(Bodies(t, d)) \in Nat
        /\ ~interrupted => Going(t, d, throw, aim)
    BY <2>1, Passing
  <2>. HIDE DEF d, t
  <2>. QED  BY <2>1, <2>2, <2>3 DEF Goes, Counted, Aimed
<1>. QED  BY <1>1, <1>2, <1>3, <1>4 DEF Continue

-----------------------------------------------------------------------------
(* Theorems.                                                               *)

LEMMA InitInvariant == UnwindInit => IInv
<1>. SUFFICES ASSUME UnwindInit  PROVE IInv
  OBVIOUS
<1>1. Shape(forms, reg, mode)
  BY InitShape
<1>2. /\ forms = <<>> /\ debugger_depth = 0 /\ owed = 0 /\ Len(forms) = 0
      /\ mode = "running"
  BY DEF UnwindInit
<1>3. Debuggers(forms, 0) = {} /\ Bodies(forms, 0) = {} /\ Pending(forms, 0) = {}
  BY DEF Debuggers, Bodies, Pending
<1>4. Counted(forms, debugger_depth, owed)
  BY <1>2, <1>3, FS_EmptySet DEF Counted
<1>5. Aimed(forms, throw, aim, mode, interrupted)
  BY <1>2, <1>3 DEF Aimed
<1>. QED  BY <1>1, <1>4, <1>5 DEF IInv

LEMMA NextInvariant ==
  ASSUME TagAssumption, IInv, [UnwindNext]_unwindVars
  PROVE  IInv'
<1>1. Shape(forms', reg', mode')
  BY ShapeKept DEF IInv
<1>2. CASE UnwindNext
  <2>1. Goes
    BY <1>2, EnterGoes, ReturnGoes, ExitGoes, ContinueGoes DEF UnwindNext
  <2>. QED  BY <1>1, <2>1 DEF Goes, IInv
<1>3. CASE UNCHANGED unwindVars
  BY <1>3 DEF unwindVars, IInv
<1>. QED  BY <1>2, <1>3

\* The stack and the registers are as the types of the thread info say, and the
\* invariant holds: the registers that every frame saved are those that fit the
\* frames beneath it (dfsch/magic.h, dfsch.c, conditions.c).
THEOREM Invariant ==
  ASSUME TagAssumption
  PROVE  UnwindSpec => []IInv
<1>1. UnwindInit => IInv
  BY InitInvariant
<1>2. IInv /\ [UnwindNext]_unwindVars => IInv'
  BY NextInvariant
<1>. QED  BY <1>1, <1>2, PTL DEF UnwindSpec

\* The lists that a thread keeps beside its C stack are those of the forms that
\* are being evaluated, and the debuggers are counted (dfsch.c, conditions.c).
THEOREM RegistersMatch ==
  ASSUME TagAssumption
  PROVE  UnwindSpec => []ListsMatchStack
<1>1. IInv => ListsMatchStack
  BY DEF IInv, Shape, Counted, Fit, Catching, Handling, Offering, Match, ListsMatchStack,
         Debuggers, Depth
<1>. QED  BY <1>1, Invariant, PTL

\* Every protected body is on the stack or its cleanup was started, once
\* (dfsch/magic.h, dfsch.c).
THEOREM EveryCleanup ==
  ASSUME TagAssumption
  PROVE  UnwindSpec => []CleanupsOwed
<1>1. IInv => CleanupsOwed
  BY DEF IInv, Counted, Bodies, CleanupsOwed, Depth
<1>. QED  BY <1>1, Invariant, PTL

\* A throw goes to the innermost catch of its tag, with its value, as long as
\* none was caught inside the cleanup code of another (dfsch.c).
THEOREM ThrowKeepsTarget ==
  ASSUME TagAssumption
  PROVE  UnwindSpec => []UnwindingKeepsTarget
<1>1. IInv => UnwindingKeepsTarget
  BY DEF IInv, Aimed, Going, UnwindingKeepsTarget, CatchOf, Depth
<1>. QED  BY <1>1, Invariant, PTL

\* A handler is not applied again while it runs (conditions.c).
THEOREM NotReentered ==
  ASSUME TagAssumption
  PROVE  UnwindSpec => []HandlerNotReentered
<1>1. IInv => HandlerNotReentered
  <2>. SUFFICES ASSUME IInv, NEW c \in 1..Depth, NEW e \in 1..Depth, c < e,
                       forms[c].kind = "signal", forms[e].kind = "signal",
                       forms[c].of.handler # NoHandler,
                       forms[c].of.handler = forms[e].of.handler
                PROVE  FALSE
    BY DEF HandlerNotReentered
  <2>1. Stack(forms) /\ Depth = Len(forms) /\ Len(forms) \in Nat
    BY DEF IInv, Shape, Stack, Depth
  <2>2. CallKept(forms, c) /\ CallKept(forms, e)
    BY <2>1 DEF Stack, Kept
  <2>3. c \in Signals(forms, e - 1)
    <3>1. c \in 1..(e - 1)
      BY <2>1
    <3>. QED  BY <3>1 DEF Signals
  <2>4. forms[c].of.handler.at \in 1..(c - 1)
    BY <2>2 DEF CallKept
  <2>5. \/ forms[e].of.handler.at < forms[c].of.handler.at
        \/ forms[e].of.handler.at > c
    BY <2>2, <2>3 DEF CallKept
  <2>. QED  BY <2>1, <2>4, <2>5
<1>. QED  BY <1>1, Invariant, PTL

=============================================================================
