----------------------------- MODULE TableProofs -----------------------------
(***************************************************************************)
(* Proofs about tables that threads share.                                 *)
(*                                                                         *)
(* SharedTable, for any threads and any number of calls and requests:      *)
(* while the lock can be released, whoever has searched the table holds it *)
(* as the operation needs, and calls of set_if_not_exists do not set what  *)
(* another was told it had set; and no request is lost but for the slot    *)
(* that it was put in.                                                     *)
(*                                                                         *)
(* Weak, for any objects, addresses and threads: nobody is given the       *)
(* parasites of another object, nor one that was detached unless its two   *)
(* hashes differ, nor fewer than its own, but for the ways to lose them    *)
(* that are known.                                                         *)
(***************************************************************************)
EXTENDS SharedTable, Weak, FiniteSetTheorems, WellFoundedInduction, TLAPS

-----------------------------------------------------------------------------
(* The inductive invariant.                                                *)

\* What a thread may be in the midst of.
CallStep ==
  [at : {"lock", "search", "use", "unlock"}, op : TableCall \union {"enter"},
   call : Nat, after : SUBSET Nat, found : BOOLEAN]
ApplyStep == [at : {"clear", "apply"}, request : Nat]
AStep == CallStep \union ApplyStep

IsCall(x) == x.at \in {"lock", "search", "use", "unlock"}

\* The calls that hold the lock.
Reads(x) == x.at \in {"search", "use", "unlock"} /\ OnlyReads(x.op)
Writes(x) == x.at \in {"search", "use", "unlock"} /\ ~OnlyReads(x.op)
ReadingIn(s) == {i \in DOMAIN s : Reads(s[i])}
WritingIn(s) == {i \in DOMAIN s : Writes(s[i])}

\* A thread is interrupted where it compares keys or in a procedure.
Nested(s) == \A i \in DOMAIN s : i < Len(s) => s[i].at \in {"search", "apply"}

Types ==
  /\ doing \in [Caller -> Seq(AStep)] /\ \A c \in Caller : Nested(doing[c])
  /\ present \in BOOLEAN /\ entangled \in BOOLEAN
  /\ rdholds \in [Caller -> Nat] /\ calls \in Nat
  /\ asked \in Seq(Procedure)
  /\ async_apply \in [Caller -> Nat] /\ ran \in [Caller -> Seq(Nat)]

\* Those who hold the lock are counted, and whoever writes is alone.
Locked ==
  \A c \in Caller :
    /\ rdholds[c] = Cardinality(ReadingIn(doing[c]))
    /\ wrholder = c <=> WritingIn(doing[c]) # {}
    /\ WritingIn(doing[c]) # {} => \A d \in Caller : ReadingIn(doing[d]) = {}
    /\ \A i, j \in WritingIn(doing[c]) : i = j

\* A call that may set the key, as one of set_if_not_exists, at some time.
MaySet(x) ==
  x.op = "set_if_not_exists" \/ (x.op = "enter" /\ x.at \in {"lock", "search", "use"})

\* One that is to set it, as it was told that it is not there.
Missed(x) ==
  \/ x.op = "set_if_not_exists" /\ x.at \in {"use", "unlock"} /\ ~x.found
  \/ x.op = "enter" /\ x.at = "lock"

\* Calls are told apart, and those that may set the key have not set it.
Numbered ==
  /\ entered \subseteq 1..calls
  /\ \A c \in Caller : \A i \in DOMAIN doing[c] : IsCall(doing[c][i]) =>
       /\ doing[c][i].call \in 1..calls /\ doing[c][i].after \subseteq 1..calls
       /\ MaySet(doing[c][i]) => doing[c][i].call \notin entered
       /\ \A d \in Caller : \A j \in DOMAIN doing[d] : IsCall(doing[d][j]) =>
            /\ doing[c][i].call = doing[d][j].call => c = d /\ i = j
            /\ MaySet(doing[c][i]) => doing[c][i].call \notin doing[d][j].after

Entering ==
  /\ entered # {} => present
  /\ \A c \in Caller : \A i \in DOMAIN doing[c] :
       IsCall(doing[c][i]) /\ Missed(doing[c][i]) => doing[c][i].after \intersect entered = {}

\* A request that is in the slot came after those that were applied; so did the
\* one that a check has read, and if another is in the slot by then it is unseen.
InTurn ==
  \A c \in Caller :
    /\ async_apply[c] \in {NoRequest} \union DOMAIN asked
    /\ \A i \in DOMAIN ran[c] : ran[c][i] \in DOMAIN asked
    /\ async_apply[c] # NoRequest => \A i \in DOMAIN ran[c] : ran[c][i] < async_apply[c]
    /\ At(c, "clear") =>
         /\ Innermost(c).request \in DOMAIN asked
         /\ \A i \in DOMAIN ran[c] : ran[c][i] < Innermost(c).request
         /\ async_apply[c] = Innermost(c).request \/ async_apply[c] \in unseen

IInv ==
  /\ Types /\ InTurn /\ RequestsKept
  /\ ~entangled => Locked /\ Numbered /\ Entering /\ FoundIsThere

-----------------------------------------------------------------------------
(* Stacks.                                                                 *)

\* The stack of one thread becomes t.
Moves(c, t) ==
  t \in Seq(AStep) /\ Nested(t) /\ doing' = [doing EXCEPT ![c] = t]

LEMMA FrontIs ==
  ASSUME NEW S, NEW s \in Seq(S), s # <<>>
  PROVE  /\ Len(s) \in Nat /\ Len(s) > 0 /\ Last(s) = s[Len(s)] /\ Last(s) \in S
         /\ Front(s) \in Seq(S) /\ Len(Front(s)) = Len(s) - 1
         /\ \A i \in 1..(Len(s) - 1) : Front(s)[i] = s[i]
         /\ s = Append(Front(s), Last(s))
<1>1. PICK n \in Nat : n = Len(s)
  OBVIOUS
<1>2. n > 0 /\ Last(s) = s[n] /\ s[n] \in S
  BY <1>1 DEF Last
<1>3. Front(s) = SubSeq(s, 1, n - 1) /\ n - 1 \in 0..n
  BY <1>1, <1>2 DEF Front
<1>4. Front(s) \in Seq(S) /\ Len(Front(s)) = n - 1
  BY <1>1, <1>2, <1>3
<1>5. \A i \in 1..(n - 1) : Front(s)[i] = s[i]
  BY <1>1, <1>2, <1>3
<1>6. s = Append(Front(s), s[n])
  <2>1. PICK t : t = Append(Front(s), s[n])
    OBVIOUS
  <2>2. t \in Seq(S) /\ Len(t) = n
    BY <1>2, <1>4, <2>1
  <2>3. \A i \in 1..n : t[i] = s[i]
    BY <1>2, <1>4, <1>5, <2>1
  <2>4. t = s
    BY <1>1, <2>2, <2>3
  <2>. QED  BY <2>1, <2>4
<1>. QED  BY <1>1, <1>2, <1>4, <1>5, <1>6

\* A stack that is not empty is what is beneath the innermost step, and that.
LEMMA TopIs ==
  ASSUME Types, NEW c \in Caller, Busy(c)
  PROVE  /\ Front(doing[c]) \in Seq(AStep) /\ Innermost(c) \in AStep
         /\ doing[c] = Append(Front(doing[c]), Innermost(c))
         /\ \A i \in DOMAIN Front(doing[c]) : Front(doing[c])[i].at \in {"search", "apply"}
<1>1. doing[c] \in Seq(AStep) /\ doing[c] # <<>> /\ Nested(doing[c])
  BY DEF Types, Busy
<1>2. PICK s \in Seq(AStep) : s = doing[c] /\ s # <<>> /\ Nested(s)
  BY <1>1
<1>3. PICK n \in Nat : n = Len(s) /\ n > 0
  BY <1>2, FrontIs
<1>4. Front(s) \in Seq(AStep) /\ Len(Front(s)) = n - 1 /\ \A i \in 1..(n - 1) : Front(s)[i] = s[i]
  BY <1>2, <1>3, FrontIs
<1>5. \A i \in DOMAIN Front(s) : Front(s)[i].at \in {"search", "apply"}
  BY <1>2, <1>3, <1>4 DEF Nested
<1>6. Last(s) \in AStep /\ s = Append(Front(s), Last(s)) /\ Innermost(c) = Last(s)
  BY <1>2, FrontIs DEF Innermost
<1>. QED  BY <1>2, <1>4, <1>5, <1>6

LEMMA Grown ==
  ASSUME NEW s \in Seq(AStep), NEW x
  PROVE  /\ Len(s) \in Nat /\ DOMAIN Append(s, x) = 1..(Len(s) + 1) /\ DOMAIN s = 1..Len(s)
         /\ Len(Append(s, x)) = Len(s) + 1 /\ Append(s, x)[Len(s) + 1] = x
         /\ \A i \in 1..Len(s) : Append(s, x)[i] = s[i]
         /\ Last(Append(s, x)) = x /\ Append(s, x) # <<>>
<1>1. Len(Append(s, x)) = Len(s) + 1 /\ Append(s, x)[Len(s) + 1] = x /\ Len(s) \in Nat
  OBVIOUS
<1>2. Append(s, x) # <<>>
  BY <1>1
<1>. QED  BY <1>1, <1>2 DEF Last

LEMMA EnterMoves ==
  ASSUME Types, NEW c \in Caller, NEW x \in AStep, Enter(c, x),
         ~Busy(c) \/ Innermost(c).at \in {"search", "apply"}
  PROVE  Moves(c, Append(doing[c], x))
<1>1. doing[c] \in Seq(AStep) /\ Nested(doing[c])
  BY DEF Types
<1>2. \A i \in DOMAIN doing[c] : doing[c][i].at \in {"search", "apply"}
  <2>1. CASE ~Busy(c)
    BY <2>1 DEF Busy
  <2>2. CASE Busy(c)
    <3>1. Innermost(c) = doing[c][Len(doing[c])]
      BY DEF Innermost, Last
    <3>. QED  BY <1>1, <2>2, <3>1 DEF Nested
  <2>. QED  BY <2>1, <2>2
<1>3. Nested(Append(doing[c], x))
  BY <1>1, <1>2, Grown DEF Nested
<1>4. Append(doing[c], x) \in Seq(AStep)
  BY <1>1
<1>. QED  BY <1>3, <1>4 DEF Moves, Enter

LEMMA BecomeMoves ==
  ASSUME Types, NEW c \in Caller, Busy(c), NEW x \in AStep, Become(c, x)
  PROVE  Moves(c, Append(Front(doing[c]), x))
<1>. DEFINE b == Front(doing[c])
<1>1. b \in Seq(AStep) /\ \A i \in DOMAIN b : b[i].at \in {"search", "apply"}
  BY TopIs
<1>2. doing' = [doing EXCEPT ![c] = Append(b, x)]
  BY DEF Become
<1>. HIDE DEF b
<1>3. Nested(Append(b, x))
  BY <1>1, Grown DEF Nested
<1>. QED  BY <1>1, <1>2, <1>3 DEF Moves, b

LEMMA LeaveMoves ==
  ASSUME Types, NEW c \in Caller, Busy(c), Leave(c)
  PROVE  Moves(c, Front(doing[c]))
<1>1. /\ Front(doing[c]) \in Seq(AStep)
      /\ \A i \in DOMAIN Front(doing[c]) : Front(doing[c])[i].at \in {"search", "apply"}
  BY TopIs
<1>. QED  BY <1>1 DEF Moves, Leave, Nested

\* Only the stack of that thread moves.
LEMMA OthersStay ==
  ASSUME Types, NEW c \in Caller, NEW t, Moves(c, t)
  PROVE  /\ doing' \in [Caller -> Seq(AStep)] /\ \A d \in Caller : Nested(doing'[d])
         /\ doing'[c] = t /\ \A d \in Caller \ {c} : doing'[d] = doing[d]
BY DEF Types, Moves

\* A step is a call, or not.
LEMMA StepIs ==
  ASSUME NEW x \in AStep
  PROVE  /\ IsCall(x) => x \in CallStep
         /\ ~IsCall(x) => x \in ApplyStep /\ ~Reads(x) /\ ~Writes(x)
         /\ x.at = "lock" => ~Reads(x) /\ ~Writes(x)
         /\ x.at \in {"search", "use", "unlock"} =>
              /\ Reads(x) <=> OnlyReads(x.op)
              /\ Writes(x) <=> ~OnlyReads(x.op)
BY DEF AStep, CallStep, ApplyStep, IsCall, Reads, Writes

LEMMA FirstStep ==
  ASSUME NEW op \in TableCall \union {"enter"}, NEW call \in Nat, NEW after \in SUBSET Nat
  PROVE  /\ Calling(op, call, after) \in CallStep /\ Calling(op, call, after) \in AStep
         /\ IsCall(Calling(op, call, after)) /\ Calling(op, call, after).at = "lock"
         /\ Calling(op, call, after).op = op /\ Calling(op, call, after).call = call
         /\ Calling(op, call, after).after = after
BY DEF Calling, CallStep, AStep, IsCall

-----------------------------------------------------------------------------
(* The lock.                                                               *)

\* Who holds the lock when one step more is begun.
LEMMA HoldingAdd ==
  ASSUME NEW s \in Seq(AStep), NEW x \in AStep
  PROVE  /\ Reads(x) => ReadingIn(Append(s, x)) = ReadingIn(s) \union {Len(s) + 1}
         /\ ~Reads(x) => ReadingIn(Append(s, x)) = ReadingIn(s)
         /\ Writes(x) => WritingIn(Append(s, x)) = WritingIn(s) \union {Len(s) + 1}
         /\ ~Writes(x) => WritingIn(Append(s, x)) = WritingIn(s)
         /\ Len(s) + 1 \notin ReadingIn(s) /\ Len(s) + 1 \notin WritingIn(s)
<1>1. PICK t : t = Append(s, x)
  OBVIOUS
<1>2. /\ Len(s) \in Nat /\ DOMAIN t = 1..(Len(s) + 1) /\ DOMAIN s = 1..Len(s)
      /\ t[Len(s) + 1] = x /\ \A i \in 1..Len(s) : t[i] = s[i]
  BY <1>1, Grown
<1>3. PICK n \in Nat : n = Len(s)
  BY <1>2
<1>4. /\ DOMAIN t = 1..(n + 1) /\ DOMAIN s = 1..n /\ t[n + 1] = x /\ \A i \in 1..n : t[i] = s[i]
      /\ 1..(n + 1) = 1..n \union {n + 1} /\ n + 1 \notin 1..n
  BY <1>2, <1>3
<1>5. /\ Reads(x) => ReadingIn(t) = ReadingIn(s) \union {n + 1}
      /\ ~Reads(x) => ReadingIn(t) = ReadingIn(s)
  BY <1>4 DEF ReadingIn
<1>6. /\ Writes(x) => WritingIn(t) = WritingIn(s) \union {n + 1}
      /\ ~Writes(x) => WritingIn(t) = WritingIn(s)
  BY <1>4 DEF WritingIn
<1>7. n + 1 \notin ReadingIn(s) /\ n + 1 \notin WritingIn(s)
  BY <1>4 DEF ReadingIn, WritingIn
<1>. QED  BY <1>1, <1>3, <1>5, <1>6, <1>7

LEMMA ReadersCount ==
  ASSUME NEW s \in Seq(AStep)
  PROVE  /\ IsFiniteSet(ReadingIn(s)) /\ Cardinality(ReadingIn(s)) \in Nat
         /\ Cardinality(ReadingIn(s)) = 0 <=> ReadingIn(s) = {}
<1>1. ReadingIn(s) \subseteq 1..Len(s) /\ Len(s) \in Nat
  BY DEF ReadingIn
<1>2. IsFiniteSet(1..Len(s))
  BY <1>1, FS_Interval
<1>3. IsFiniteSet(ReadingIn(s))
  BY <1>1, <1>2, FS_Subset
<1>. QED  BY <1>3, FS_CardinalityType, FS_EmptySet

LEMMA ReadersAdd ==
  ASSUME NEW s \in Seq(AStep), NEW x \in AStep, Reads(x)
  PROVE  Cardinality(ReadingIn(Append(s, x))) = Cardinality(ReadingIn(s)) + 1
<1>1. ReadingIn(Append(s, x)) = ReadingIn(s) \union {Len(s) + 1} /\ Len(s) + 1 \notin ReadingIn(s)
  BY HoldingAdd
<1>. QED  BY <1>1, ReadersCount, FS_AddElement

\* The lock is as it was, and so are those who hold it.
LEMMA LockedSame ==
  ASSUME Types, Locked, NEW c \in Caller, NEW t, Moves(c, t), UNCHANGED theLock,
         ReadingIn(t) = ReadingIn(doing[c]), WritingIn(t) = WritingIn(doing[c])
  PROVE  Locked'
<1>1. \A d \in Caller : /\ ReadingIn(doing'[d]) = ReadingIn(doing[d])
                        /\ WritingIn(doing'[d]) = WritingIn(doing[d])
  BY OthersStay
<1>. QED  BY <1>1 DEF Locked, theLock

\* The lock is taken for reading where nobody writes, and for writing where
\* nobody holds it; else it is entangled.
LEMMA LockLocks ==
  ASSUME CallerAssumption, Types, Locked, NEW c \in Caller, LockTable(c), ~entangled'
  PROVE  Locked'
<1>. DEFINE b == Front(doing[c])
            x == Innermost(c)
            y == [x EXCEPT !.at = "search"]
            t == Append(b, y)
<1>1. At(c, "lock") /\ Busy(c) /\ x.at = "lock"
  BY DEF LockTable, At
<1>2. b \in Seq(AStep) /\ x \in AStep /\ doing[c] = Append(b, x)
  BY <1>1, TopIs
<1>3. x \in CallStep
  BY <1>1, <1>2, StepIs DEF IsCall
<1>4. y \in CallStep /\ y \in AStep /\ y.at = "search" /\ y.op = x.op
  BY <1>3 DEF CallStep, AStep
<1>5. Become(c, y)
  BY DEF LockTable
<1>6. Moves(c, t)
  BY <1>1, <1>4, <1>5, BecomeMoves
<1>7. doing'[c] = t /\ \A d \in Caller \ {c} : doing'[d] = doing[d]
  BY <1>6, OthersStay
<1>8. ReadingIn(doing[c]) = ReadingIn(b) /\ WritingIn(doing[c]) = WritingIn(b)
  <2>1. ~Reads(x) /\ ~Writes(x)
    BY <1>1, <1>2, StepIs
  <2>. QED  BY <1>2, <2>1, HoldingAdd
<1>9. \A d \in Caller : /\ rdholds[d] = Cardinality(ReadingIn(doing[d])) /\ d # Nobody
                        /\ doing[d] \in Seq(AStep) /\ (wrholder = d <=> WritingIn(doing[d]) # {})
  BY DEF Locked, Types, CallerAssumption
<1>10. CASE OnlyReads(x.op)
  <2>1. wrholder \in {Nobody, c} /\ rdholds' = [rdholds EXCEPT ![c] = @ + 1] /\ wrholder' = wrholder
        /\ wrholder # c
    BY <1>10 DEF LockTable
  <2>2. wrholder' = Nobody /\ \A d \in Caller : WritingIn(doing[d]) = {}
    BY <1>9, <2>1
  <2>3. Reads(y) /\ ~Writes(y)
    BY <1>4, <1>10 DEF Reads, Writes
  <2>4. WritingIn(t) = {} /\ Cardinality(ReadingIn(t)) = rdholds[c] + 1
    BY <1>2, <1>4, <1>8, <1>9, <2>2, <2>3, HoldingAdd, ReadersAdd
  <2>5. \A d \in Caller : rdholds'[d] = Cardinality(ReadingIn(doing'[d])) /\ WritingIn(doing'[d]) = {}
    BY <1>7, <1>9, <2>1, <2>2, <2>4 DEF Types
  <2>. QED  BY <1>9, <2>2, <2>5 DEF Locked
<1>11. CASE ~OnlyReads(x.op)
  <2>1. /\ wrholder \in {Nobody, c} /\ \A d \in Caller \ {c} : rdholds[d] = 0
        /\ wrholder' = c /\ rdholds' = rdholds /\ ~Holds(c)
    BY <1>11 DEF LockTable
  <2>2. wrholder = Nobody /\ \A d \in Caller : rdholds[d] = 0
    BY <2>1 DEF Holds, Types
  <2>3. \A d \in Caller : WritingIn(doing[d]) = {} /\ ReadingIn(doing[d]) = {}
    BY <1>9, <2>2, ReadersCount
  <2>4. Writes(y) /\ ~Reads(y)
    BY <1>4, <1>11 DEF Reads, Writes
  <2>5. ReadingIn(t) = {} /\ WritingIn(t) = {Len(b) + 1}
    BY <1>2, <1>4, <1>8, <2>3, <2>4, HoldingAdd
  <2>6. \A d \in Caller :
          /\ ReadingIn(doing'[d]) = {}
          /\ WritingIn(doing'[d]) = IF d = c THEN {Len(b) + 1} ELSE {}
    BY <1>7, <2>3, <2>5
  <2>7. \A d \in Caller : rdholds'[d] = Cardinality(ReadingIn(doing'[d]))
    BY <2>1, <2>2, <2>6, FS_EmptySet
  <2>. QED  BY <2>1, <2>6, <2>7 DEF Locked
<1>. QED  BY <1>10, <1>11

\* The lock is released by the one who has it.
LEMMA UnlockLocked ==
  ASSUME CallerAssumption, Types, Locked, NEW c \in Caller, UnlockTable(c),
         NEW t, Moves(c, t), ReadingIn(t) = ReadingIn(Front(doing[c])),
         WritingIn(t) = WritingIn(Front(doing[c]))
  PROVE  Locked'
<1>. DEFINE b == Front(doing[c])
            x == Innermost(c)
<1>1. Busy(c) /\ x.at = "unlock"
  BY DEF UnlockTable, At
<1>2. b \in Seq(AStep) /\ x \in AStep /\ doing[c] = Append(b, x)
  BY <1>1, TopIs
<1>3. doing'[c] = t /\ \A d \in Caller \ {c} : doing'[d] = doing[d]
  BY OthersStay
<1>4. \A d \in Caller : /\ rdholds[d] = Cardinality(ReadingIn(doing[d])) /\ d # Nobody
                        /\ (wrholder = d <=> WritingIn(doing[d]) # {})
                        /\ \A i, j \in WritingIn(doing[d]) : i = j
                        /\ WritingIn(doing[d]) # {} => \A e \in Caller : ReadingIn(doing[e]) = {}
  BY DEF Locked, CallerAssumption
<1>5. CASE OnlyReads(x.op)
  <2>1. rdholds' = [rdholds EXCEPT ![c] = @ - 1] /\ wrholder' = wrholder
    BY <1>5 DEF UnlockTable, ReleaseLock
  <2>2. Reads(x) /\ ~Writes(x)
    BY <1>1, <1>5 DEF Reads, Writes
  <2>3. WritingIn(b) = WritingIn(doing[c])
    BY <1>2, <2>2, HoldingAdd
  <2>4. Cardinality(ReadingIn(b)) = rdholds[c] - 1
    <3>1. Cardinality(ReadingIn(doing[c])) = Cardinality(ReadingIn(b)) + 1
      BY <1>2, <2>2, ReadersAdd
    <3>2. Cardinality(ReadingIn(b)) \in Nat
      BY <1>2, ReadersCount
    <3>. QED  BY <1>4, <3>1, <3>2
  <2>5. ReadingIn(doing[c]) # {}
    BY <1>2, <2>2, HoldingAdd
  <2>6. \A d \in Caller : WritingIn(doing'[d]) = {} /\ WritingIn(doing[d]) = {}
    BY <1>3, <1>4, <2>3, <2>5
  <2>7. \A d \in Caller : rdholds'[d] = Cardinality(ReadingIn(doing'[d]))
    BY <1>3, <1>4, <2>1, <2>4 DEF Types
  <2>. QED  BY <1>4, <2>1, <2>6, <2>7 DEF Locked
<1>6. CASE ~OnlyReads(x.op)
  <2>1. wrholder' = Nobody /\ rdholds' = rdholds
    BY <1>6 DEF UnlockTable, ReleaseLock
  <2>2. Writes(x) /\ ~Reads(x)
    BY <1>1, <1>6 DEF Reads, Writes
  <2>3. /\ WritingIn(doing[c]) = WritingIn(b) \union {Len(b) + 1} /\ Len(b) + 1 \notin WritingIn(b)
        /\ ReadingIn(doing[c]) = ReadingIn(b)
    BY <1>2, <2>2, HoldingAdd
  <2>4. WritingIn(b) = {} /\ wrholder = c
    <3>1. \A i \in WritingIn(b) : i = Len(b) + 1
      BY <1>4, <2>3
    <3>. QED  BY <1>4, <2>3, <3>1
  <2>5. \A d \in Caller : WritingIn(doing'[d]) = {} /\ ReadingIn(doing'[d]) = ReadingIn(doing[d])
    BY <1>3, <1>4, <2>3, <2>4
  <2>. QED  BY <1>4, <2>1, <2>5 DEF Locked
<1>. QED  BY <1>5, <1>6

-----------------------------------------------------------------------------
(* Calls that set the key if it is not there.                              *)

\* A step x of a call that was at y.
Continues(x, y) ==
  /\ IsCall(y) /\ x.call = y.call /\ x.after = y.after
  /\ MaySet(x) => MaySet(y)

\* A stack t of calls that those of s continue.
Follows(t, s) ==
  \A i \in DOMAIN t : IsCall(t[i]) =>
    /\ i \in DOMAIN s /\ Continues(t[i], s[i])
    /\ Missed(t[i]) => Missed(s[i]) \/ t[i].after \intersect entered = {}

LEMMA FollowsOne ==
  ASSUME NEW s \in Seq(AStep), NEW x \in AStep, NEW y \in AStep,
         IsCall(y) => /\ Continues(y, x)
                      /\ Missed(y) => Missed(x) \/ y.after \intersect entered = {}
  PROVE  Follows(Append(s, y), Append(s, x))
<1>1. PICK n \in Nat : n = Len(s)
  OBVIOUS
<1>2. PICK t : t = Append(s, y)
  OBVIOUS
<1>3. PICK u : u = Append(s, x)
  OBVIOUS
<1>4. /\ DOMAIN t = 1..(n + 1) /\ DOMAIN u = 1..(n + 1) /\ t[n + 1] = y /\ u[n + 1] = x
      /\ \A i \in 1..n : t[i] = u[i]
  BY <1>1, <1>2, <1>3, Grown
<1>5. ASSUME NEW i \in 1..(n + 1), IsCall(t[i])
      PROVE  /\ Continues(t[i], u[i])
             /\ Missed(t[i]) => Missed(u[i]) \/ t[i].after \intersect entered = {}
  <2>1. CASE i = n + 1
    BY <1>4, <1>5, <2>1
  <2>2. CASE i \in 1..n
    BY <1>4, <1>5, <2>2 DEF Continues
  <2>. QED  BY <2>1, <2>2
<1>. QED  BY <1>2, <1>3, <1>4, <1>5 DEF Follows

LEMMA FollowsBeneath ==
  ASSUME NEW s \in Seq(AStep), NEW x \in AStep
  PROVE  Follows(s, Append(s, x))
<1>1. PICK t : t = Append(s, x)
  OBVIOUS
<1>2. Len(s) \in Nat /\ DOMAIN s = 1..Len(s) /\ DOMAIN t = 1..(Len(s) + 1) /\ \A i \in 1..Len(s) : t[i] = s[i]
  BY <1>1, Grown
<1>3. \A i \in DOMAIN s : i \in DOMAIN t /\ t[i] = s[i]
  BY <1>2
<1>. QED  BY <1>1, <1>3 DEF Follows, Continues

LEMMA FollowsPushed ==
  ASSUME NEW s \in Seq(AStep), NEW x \in AStep, ~IsCall(x)
  PROVE  Follows(Append(s, x), s)
<1>1. PICK t : t = Append(s, x)
  OBVIOUS
<1>2. PICK n \in Nat : n = Len(s)
  OBVIOUS
<1>3. DOMAIN s = 1..n /\ DOMAIN t = 1..(n + 1) /\ t[n + 1] = x /\ \A i \in 1..n : t[i] = s[i]
  BY <1>1, <1>2, Grown
<1>4. \A i \in DOMAIN t : IsCall(t[i]) => i \in DOMAIN s /\ t[i] = s[i]
  BY <1>3
<1>. QED  BY <1>1, <1>4 DEF Follows, Continues

\* Every stack of the next state follows the one it was.
Descends == \A c \in Caller : Follows(doing'[c], doing[c])

LEMMA FollowsDescends ==
  ASSUME Types, NEW c \in Caller, NEW t, Moves(c, t), Follows(t, doing[c])
  PROVE  Descends
<1>1. \A s : Follows(s, s)
  BY DEF Follows, Continues
<1>2. doing'[c] = t /\ \A d \in Caller \ {c} : doing'[d] = doing[d]
  BY OthersStay
<1>. QED  BY <1>1, <1>2 DEF Descends

LEMMA NumberedKept ==
  ASSUME Types, Numbered, Descends, calls' = calls, entered' \in SUBSET entered
  PROVE  Numbered'
<1>1. entered' \subseteq 1..calls'
  BY DEF Numbered
<1>2. ASSUME NEW c \in Caller, NEW i \in DOMAIN doing'[c], IsCall(doing'[c][i])
      PROVE  i \in DOMAIN doing[c] /\ Continues(doing'[c][i], doing[c][i])
  BY <1>2 DEF Descends, Follows
<1>3. ASSUME NEW c \in Caller, NEW i \in DOMAIN doing'[c], IsCall(doing'[c][i])
      PROVE  /\ doing'[c][i].call \in 1..calls' /\ doing'[c][i].after \subseteq 1..calls'
             /\ MaySet(doing'[c][i]) => doing'[c][i].call \notin entered'
  BY <1>2, <1>3 DEF Numbered, Continues
<1>4. ASSUME NEW c \in Caller, NEW i \in DOMAIN doing'[c], IsCall(doing'[c][i]),
             NEW d \in Caller, NEW j \in DOMAIN doing'[d], IsCall(doing'[d][j])
      PROVE  /\ doing'[c][i].call = doing'[d][j].call => c = d /\ i = j
             /\ MaySet(doing'[c][i]) => doing'[c][i].call \notin doing'[d][j].after
  <2>1. i \in DOMAIN doing[c] /\ Continues(doing'[c][i], doing[c][i])
    BY <1>2, <1>4
  <2>2. j \in DOMAIN doing[d] /\ Continues(doing'[d][j], doing[d][j])
    BY <1>2, <1>4
  <2>. QED  BY <2>1, <2>2 DEF Numbered, Continues
<1>. QED  BY <1>1, <1>3, <1>4 DEF Numbered

LEMMA EnteringKept ==
  ASSUME Types, Entering, Descends, entered' \in SUBSET entered, entered' # {} => present'
  PROVE  Entering'
<1>1. ASSUME NEW c \in Caller, NEW i \in DOMAIN doing'[c], IsCall(doing'[c][i]), Missed(doing'[c][i])
      PROVE  doing'[c][i].after \intersect entered' = {}
  <2>1. /\ i \in DOMAIN doing[c] /\ Continues(doing'[c][i], doing[c][i])
        /\ Missed(doing[c][i]) \/ doing'[c][i].after \intersect entered = {}
    BY <1>1 DEF Descends, Follows
  <2>2. doing'[c][i].after \intersect entered = {}
    BY <2>1 DEF Entering, Continues
  <2>. QED  BY <2>2
<1>. QED  BY <1>1 DEF Entering

\* A call begins, with a number of its own.
LEMMA BeginNumbered ==
  ASSUME Types, Numbered, Entering, NEW c \in Caller, NEW op \in TableCall, BeginCall(c, op),
         Moves(c, Append(doing[c], Calling(op, calls + 1, entered)))
  PROVE  Numbered' /\ Entering'
<1>1. PICK y : y = Calling(op, calls + 1, entered)
  OBVIOUS
<1>2. calls \in Nat /\ entered \subseteq 1..calls /\ entered \in SUBSET Nat
  BY DEF Types, Numbered
<1>3. /\ y \in CallStep /\ IsCall(y) /\ y.call = calls + 1 /\ y.after = entered /\ ~Missed(y)
  <2>1. calls + 1 \in Nat /\ op \in TableCall \union {"enter"} /\ op # "enter"
    BY <1>2 DEF TableCall
  <2>2. /\ y \in CallStep /\ IsCall(y) /\ y.at = "lock" /\ y.op = op
        /\ y.call = calls + 1 /\ y.after = entered
    BY <1>1, <1>2, <2>1, FirstStep
  <2>. QED  BY <2>1, <2>2 DEF Missed
<1>4. PICK n \in Nat : n = Len(doing[c])
  BY DEF Types
<1>5. /\ \A d \in Caller \ {c} : doing'[d] = doing[d]
      /\ DOMAIN doing[c] = 1..n /\ DOMAIN doing'[c] = 1..(n + 1) /\ doing'[c][n + 1] = y
      /\ \A i \in 1..n : doing'[c][i] = doing[c][i]
  <2>1. doing[c] \in Seq(AStep)
    BY DEF Types
  <2>2. doing'[c] = Append(doing[c], y) /\ \A d \in Caller \ {c} : doing'[d] = doing[d]
    BY <1>1, OthersStay
  <2>. QED  BY <1>4, <2>1, <2>2, Grown
<1>6. calls' = calls + 1 /\ entered' = entered /\ present' = present
  BY DEF BeginCall
<1>7. ASSUME NEW d \in Caller, NEW i \in DOMAIN doing'[d]
      PROVE  \/ i \in DOMAIN doing[d] /\ doing'[d][i] = doing[d][i]
             \/ d = c /\ i = n + 1 /\ doing'[d][i] = y
  <2>1. CASE d # c
    BY <1>5, <2>1
  <2>2. CASE d = c /\ i \in 1..n
    BY <1>5, <2>2
  <2>3. CASE d = c /\ i = n + 1
    BY <1>5, <2>3
  <2>. QED  BY <1>5, <2>1, <2>2, <2>3
<1>8. ASSUME NEW d \in Caller, NEW i \in DOMAIN doing'[d], IsCall(doing'[d][i])
      PROVE  /\ doing'[d][i].call \in 1..calls' /\ doing'[d][i].after \subseteq 1..calls'
             /\ MaySet(doing'[d][i]) => doing'[d][i].call \notin entered'
             /\ Missed(doing'[d][i]) => doing'[d][i].after \intersect entered' = {}
  <2>1. CASE i \in DOMAIN doing[d] /\ doing'[d][i] = doing[d][i]
    <3>1. doing[d][i].call \in 1..calls /\ doing[d][i].after \subseteq 1..calls
      BY <1>8, <2>1 DEF Numbered
    <3>. QED  BY <1>2, <1>6, <1>8, <2>1, <3>1 DEF Numbered, Entering
  <2>2. CASE doing'[d][i] = y
    BY <1>2, <1>3, <1>6, <2>2
  <2>. QED  BY <1>7, <2>1, <2>2
<1>9. ASSUME NEW d \in Caller, NEW i \in DOMAIN doing'[d], IsCall(doing'[d][i]),
             NEW e \in Caller, NEW j \in DOMAIN doing'[e], IsCall(doing'[e][j])
      PROVE  /\ doing'[d][i].call = doing'[e][j].call => d = e /\ i = j
             /\ MaySet(doing'[d][i]) => doing'[d][i].call \notin doing'[e][j].after
  <2>1. CASE /\ i \in DOMAIN doing[d] /\ doing'[d][i] = doing[d][i]
             /\ j \in DOMAIN doing[e] /\ doing'[e][j] = doing[e][j]
    BY <1>9, <2>1 DEF Numbered
  <2>2. CASE /\ i \in DOMAIN doing[d] /\ doing'[d][i] = doing[d][i]
             /\ e = c /\ j = n + 1 /\ doing'[e][j] = y
    <3>1. doing[d][i].call \in 1..calls /\ (MaySet(doing[d][i]) => doing[d][i].call \notin entered)
      BY <1>9, <2>2 DEF Numbered
    <3>. QED  BY <1>2, <1>3, <2>2, <3>1
  <2>3. CASE /\ d = c /\ i = n + 1 /\ doing'[d][i] = y
             /\ j \in DOMAIN doing[e] /\ doing'[e][j] = doing[e][j]
    <3>1. doing[e][j].call \in 1..calls /\ doing[e][j].after \subseteq 1..calls
      BY <1>9, <2>3 DEF Numbered
    <3>. QED  BY <1>2, <1>3, <2>3, <3>1
  <2>4. CASE d = c /\ i = n + 1 /\ doing'[d][i] = y /\ e = c /\ j = n + 1 /\ doing'[e][j] = y
    BY <1>2, <1>3, <2>4
  <2>. QED  BY <1>7, <2>1, <2>2, <2>3, <2>4
<1>10. Numbered'
  BY <1>2, <1>6, <1>8, <1>9 DEF Numbered
<1>11. Entering'
  BY <1>6, <1>8 DEF Entering
<1>. QED  BY <1>10, <1>11

\* The key is set by a call that was told that it is not there: no other was
\* told that this one had set it.
LEMMA EnterNumbered ==
  ASSUME Types, Numbered, Entering, Descends, NEW c \in Caller, NEW n \in DOMAIN doing[c],
         IsCall(doing[c][n]), MaySet(doing[c][n]), ~MaySet(doing'[c][n]),
         entered' = entered \union {doing[c][n].call}, present' = TRUE, calls' = calls
  PROVE  Numbered' /\ Entering'
<1>1. /\ doing[c][n].call \in 1..calls /\ entered \subseteq 1..calls
      /\ \A d \in Caller : \A i \in DOMAIN doing[d] : IsCall(doing[d][i]) =>
           /\ doing[d][i].call = doing[c][n].call => d = c /\ i = n
           /\ doing[c][n].call \notin doing[d][i].after
  BY DEF Numbered
<1>2. ASSUME NEW d \in Caller, NEW i \in DOMAIN doing'[d], IsCall(doing'[d][i])
      PROVE  /\ i \in DOMAIN doing[d] /\ Continues(doing'[d][i], doing[d][i])
             /\ Missed(doing'[d][i]) =>
                  Missed(doing[d][i]) \/ doing'[d][i].after \intersect entered = {}
  BY <1>2 DEF Descends, Follows
<1>3. ASSUME NEW d \in Caller, NEW i \in DOMAIN doing'[d], IsCall(doing'[d][i])
      PROVE  /\ doing'[d][i].call \in 1..calls' /\ doing'[d][i].after \subseteq 1..calls'
             /\ MaySet(doing'[d][i]) => doing'[d][i].call \notin entered'
             /\ Missed(doing'[d][i]) => doing'[d][i].after \intersect entered' = {}
  <2>1. i \in DOMAIN doing[d] /\ Continues(doing'[d][i], doing[d][i])
    BY <1>2, <1>3
  <2>2. doing[d][i].call \in 1..calls /\ doing[d][i].after \subseteq 1..calls
    BY <2>1 DEF Numbered, Continues
  <2>3. MaySet(doing'[d][i]) => doing'[d][i].call \notin entered'
    <3>1. MaySet(doing'[d][i]) => doing[d][i].call \notin entered
      BY <2>1 DEF Numbered, Continues
    <3>2. MaySet(doing'[d][i]) => ~(d = c /\ i = n)
      OBVIOUS
    <3>3. MaySet(doing'[d][i]) => doing[d][i].call # doing[c][n].call
      BY <1>1, <2>1, <3>2 DEF Continues
    <3>. QED  BY <2>1, <3>1, <3>3 DEF Continues
  <2>4. Missed(doing'[d][i]) => doing'[d][i].after \intersect entered' = {}
    <3>1. Missed(doing'[d][i]) => doing[d][i].after \intersect entered = {}
      BY <1>2, <1>3, <2>1 DEF Entering, Continues
    <3>2. doing[c][n].call \notin doing[d][i].after
      BY <1>1, <2>1 DEF Continues
    <3>. QED  BY <2>1, <3>1, <3>2 DEF Continues
  <2>. QED  BY <2>1, <2>2, <2>3, <2>4 DEF Continues
<1>4. ASSUME NEW d \in Caller, NEW i \in DOMAIN doing'[d], IsCall(doing'[d][i]),
             NEW e \in Caller, NEW j \in DOMAIN doing'[e], IsCall(doing'[e][j])
      PROVE  /\ doing'[d][i].call = doing'[e][j].call => d = e /\ i = j
             /\ MaySet(doing'[d][i]) => doing'[d][i].call \notin doing'[e][j].after
  <2>1. i \in DOMAIN doing[d] /\ Continues(doing'[d][i], doing[d][i])
    BY <1>2, <1>4
  <2>2. j \in DOMAIN doing[e] /\ Continues(doing'[e][j], doing[e][j])
    BY <1>2, <1>4
  <2>. QED  BY <2>1, <2>2 DEF Numbered, Continues
<1>5. entered' \subseteq 1..calls'
  BY <1>1
<1>. QED  BY <1>3, <1>4, <1>5 DEF Numbered, Entering

-----------------------------------------------------------------------------
(* What a search has found.                                                *)

\* Nobody comes to use the table, which is as it was.
LEMMA FoundKept ==
  ASSUME Types, FoundIsThere, ~entangled, NEW c \in Caller, NEW t, Moves(c, t),
         t = <<>> \/ Last(t).at # "use", present' = present
  PROVE  FoundIsThere'
<1>1. doing'[c] = t /\ \A d \in Caller \ {c} : doing'[d] = doing[d]
  BY OthersStay
<1>2. ASSUME NEW d \in Caller, At(d, "use")'
      PROVE  Innermost(d)'.found = present'
  <2>1. d # c
    BY <1>1, <1>2 DEF At, Busy, Innermost
  <2>2. At(d, "use") /\ Innermost(d)' = Innermost(d)
    BY <1>1, <1>2, <2>1 DEF At, Busy, Innermost
  <2>. QED  BY <2>2 DEF FoundIsThere
<1>. QED  BY <1>2 DEF FoundIsThere

\* Whoever changes the table is alone with it.
LEMMA UserAlone ==
  ASSUME Types, Locked, NEW c \in Caller, At(c, "use"), NEW d \in Caller, At(d, "use"), c # d
  PROVE  OnlyReads(Innermost(c).op)
<1>1. ASSUME NEW e \in Caller, At(e, "use")
      PROVE  /\ OnlyReads(Innermost(e).op) => ReadingIn(doing[e]) # {}
             /\ ~OnlyReads(Innermost(e).op) => WritingIn(doing[e]) # {}
  <2>1. /\ Front(doing[e]) \in Seq(AStep) /\ Innermost(e) \in AStep
        /\ doing[e] = Append(Front(doing[e]), Innermost(e)) /\ Innermost(e).at = "use"
    BY <1>1, TopIs DEF At
  <2>2. /\ OnlyReads(Innermost(e).op) => Reads(Innermost(e))
        /\ ~OnlyReads(Innermost(e).op) => Writes(Innermost(e))
    BY <2>1 DEF Reads, Writes
  <2>. QED  BY <2>1, <2>2, HoldingAdd
<1>2. ASSUME WritingIn(doing[c]) # {}
      PROVE  ReadingIn(doing[d]) = {} /\ WritingIn(doing[d]) = {}
  BY <1>2 DEF Locked
<1>. QED  BY <1>1, <1>2

-----------------------------------------------------------------------------
(* Requests.                                                               *)

\* A thread clears the slot in nothing but its innermost step.
LEMMA ClearIsTop ==
  ASSUME Types, NEW c \in Caller, NEW step \in Steps(c), step.at = "clear"
  PROVE  At(c, "clear") /\ step = Innermost(c)
<1>1. PICK i \in DOMAIN doing[c] : doing[c][i] = step
  BY DEF Steps, ToSet
<1>2. doing[c] \in Seq(AStep) /\ Nested(doing[c])
  BY DEF Types
<1>3. i = Len(doing[c])
  BY <1>1, <1>2 DEF Nested
<1>4. doing[c] # <<>>
  BY <1>1
<1>. QED  BY <1>1, <1>3, <1>4 DEF At, Busy, Innermost, Last

LEMMA TopIsStep ==
  ASSUME Types, NEW c \in Caller, Busy(c)
  PROVE  Innermost(c) \in Steps(c)
<1>1. doing[c] \in Seq(AStep) /\ doing[c] # <<>>
  BY DEF Types, Busy
<1>2. Len(doing[c]) \in DOMAIN doing[c]
  BY <1>1
<1>. QED  BY <1>2 DEF Steps, ToSet, Innermost, Last

\* Where a request is that has not vanished.
There(r) ==
  \/ r \in overwritten \union unseen
  \/ \E c \in Caller :
       async_apply[c] = r \/ r \in ToSet(ran[c]) \/ (At(c, "clear") /\ Innermost(c).request = r)

InOrder == \A c \in Caller : \A i, j \in DOMAIN ran[c] : i < j => ran[c][i] < ran[c][j]

AllThere == \A r \in DOMAIN asked : There(r)

LEMMA RequestsThere == Types => (RequestsKept <=> InOrder /\ AllThere)
<1>. SUFFICES ASSUME Types
              PROVE  RequestsKept <=> InOrder /\ AllThere
  OBVIOUS
<1>1. ASSUME NEW c \in Caller, NEW r
      PROVE  (\E step \in Steps(c) : step.at = "clear" /\ step.request = r)
               <=> At(c, "clear") /\ Innermost(c).request = r
  <2>1. ASSUME NEW step \in Steps(c), step.at = "clear", step.request = r
        PROVE  At(c, "clear") /\ Innermost(c).request = r
    BY <2>1, ClearIsTop
  <2>2. ASSUME At(c, "clear"), Innermost(c).request = r
        PROVE  \E step \in Steps(c) : step.at = "clear" /\ step.request = r
    BY <2>2, TopIsStep DEF At
  <2>. QED  BY <2>1, <2>2
<1>. QED  BY <1>1 DEF RequestsKept, InOrder, There, AllThere

LEMMA RequestsThereNext == Types' => (RequestsKept' <=> InOrder' /\ AllThere')
  BY RequestsThere, PTL

\* Requests are as they were, and no thread has begun or ended to clear its slot.
LEMMA RequestsSame ==
  ASSUME Types, Types', InTurn, RequestsKept, UNCHANGED requests,
         \A c \in Caller : At(c, "clear") <=> At(c, "clear")',
         \A c \in Caller : At(c, "clear") => Innermost(c)' = Innermost(c)
  PROVE  InTurn' /\ RequestsKept'
<1>1. /\ async_apply' = async_apply /\ asked' = asked /\ ran' = ran
      /\ overwritten' = overwritten /\ unseen' = unseen
  BY DEF requests
<1>2. InTurn'
  BY <1>1 DEF InTurn
<1>3. InOrder /\ \A r \in DOMAIN asked : There(r)
  BY RequestsThere DEF AllThere
<1>4. InOrder' /\ \A r \in DOMAIN asked' : There(r)'
  BY <1>1, <1>3 DEF InOrder, There
<1>5. RequestsKept'
  BY <1>4, RequestsThereNext DEF AllThere
<1>. QED  BY <1>2, <1>5

\* A thread that did not clear its slot does not do so now.
LEMMA RequestsMoved ==
  ASSUME Types, Types', InTurn, RequestsKept, UNCHANGED requests,
         NEW c \in Caller, NEW t, Moves(c, t), ~At(c, "clear"), t = <<>> \/ Last(t).at # "clear"
  PROVE  InTurn' /\ RequestsKept'
<1>1. doing'[c] = t /\ \A d \in Caller \ {c} : doing'[d] = doing[d]
  BY OthersStay
<1>2. ~At(c, "clear")'
  BY <1>1 DEF At, Busy, Innermost
<1>3. \A d \in Caller \ {c} : At(d, "clear")' = At(d, "clear") /\ Innermost(d)' = Innermost(d)
  BY <1>1 DEF At, Busy, Innermost
<1>4. \A d \in Caller : At(d, "clear") <=> At(d, "clear")'
  BY <1>2, <1>3
<1>5. \A d \in Caller : At(d, "clear") => Innermost(d)' = Innermost(d)
  BY <1>2, <1>3
<1>. QED  BY <1>4, <1>5, RequestsSame

\* A new request comes after all others.
LEMMA RequestKeeps ==
  ASSUME Types, Types', InTurn, RequestsKept, NEW c \in Caller, NEW procedure \in Procedure,
         Request(c, procedure)
  PROVE  InTurn' /\ RequestsKept'
<1>1. PICK next \in Nat : next = Len(asked) + 1 /\ DOMAIN asked = 1..(next - 1)
  <2>1. asked \in Seq(Procedure)
    BY DEF Types
  <2>2. PICK n \in Nat : n = Len(asked) /\ DOMAIN asked = 1..n
    BY <2>1
  <2>3. n + 1 \in Nat /\ n + 1 = Len(asked) + 1 /\ (n + 1) - 1 = n
    BY <2>2
  <2>. QED  BY <2>2, <2>3
<1>2. /\ asked' = Append(asked, procedure) /\ async_apply' = [async_apply EXCEPT ![c] = next]
      /\ ran' = ran /\ doing' = doing
      /\ overwritten' = IF async_apply[c] = NoRequest \/ At(c, "clear") THEN overwritten
                        ELSE overwritten \union {async_apply[c]}
      /\ unseen' = IF At(c, "clear") THEN unseen \union {next} ELSE unseen
  BY <1>1 DEF Request
<1>3. DOMAIN asked' = DOMAIN asked \union {next} /\ next \notin DOMAIN asked /\ next # NoRequest
      /\ \A r \in DOMAIN asked : r \in Nat /\ r < next /\ r # NoRequest
  BY <1>1, <1>2 DEF Types, NoRequest
<1>4. /\ async_apply'[c] = next /\ \A d \in Caller \ {c} : async_apply'[d] = async_apply[d]
      /\ \A d \in Caller : Innermost(d)' = Innermost(d) /\ At(d, "clear")' = At(d, "clear")
  BY <1>2 DEF Types, Innermost, At, Busy
<1>5. InTurn'
  <2>. SUFFICES ASSUME NEW d \in Caller
                PROVE  /\ async_apply'[d] \in {NoRequest} \union DOMAIN asked'
                       /\ \A i \in DOMAIN ran'[d] : ran'[d][i] \in DOMAIN asked'
                       /\ async_apply'[d] # NoRequest =>
                            \A i \in DOMAIN ran'[d] : ran'[d][i] < async_apply'[d]
                       /\ At(d, "clear")' =>
                            /\ Innermost(d)'.request \in DOMAIN asked'
                            /\ \A i \in DOMAIN ran'[d] : ran'[d][i] < Innermost(d)'.request
                            /\ async_apply'[d] = Innermost(d)'.request \/ async_apply'[d] \in unseen'
    BY DEF InTurn
  <2>1. CASE d # c
    BY <1>2, <1>3, <1>4, <2>1 DEF InTurn
  <2>2. CASE d = c
    BY <1>2, <1>3, <1>4, <2>2 DEF InTurn
  <2>. QED  BY <2>1, <2>2
<1>6. InOrder /\ \A r \in DOMAIN asked : There(r)
  BY RequestsThere DEF AllThere
<1>7. InOrder'
  BY <1>2, <1>6 DEF InOrder
<1>8. There(next)'
  BY <1>4 DEF There
<1>9. ASSUME NEW r \in DOMAIN asked
      PROVE  There(r)'
  <2>1. CASE async_apply[c] = r
    <3>1. CASE At(c, "clear")
      BY <1>2, <1>4, <2>1, <3>1 DEF InTurn, There
    <3>2. CASE ~At(c, "clear")
      BY <1>2, <1>3, <2>1, <3>2 DEF There
    <3>. QED  BY <3>1, <3>2
  <2>2. CASE async_apply[c] # r
    <3>1. overwritten \subseteq overwritten' /\ unseen \subseteq unseen'
      BY <1>2
    <3>. QED  BY <1>2, <1>4, <1>6, <2>2, <3>1 DEF There
  <2>. QED  BY <2>1, <2>2
<1>10. RequestsKept'
  BY <1>3, <1>7, <1>8, <1>9, RequestsThereNext DEF AllThere
<1>. QED  BY <1>5, <1>10

\* A check reads the slot.
LEMMA CheckKeeps ==
  ASSUME Types, Types', InTurn, RequestsKept, NEW c \in Caller, Check(c)
  PROVE  InTurn' /\ RequestsKept'
<1>1. PICK x : x = [at |-> "clear", request |-> async_apply[c]]
  OBVIOUS
<1>2. /\ doing' = [doing EXCEPT ![c] = Append(@, x)] /\ async_apply[c] # NoRequest
      /\ async_apply' = async_apply /\ asked' = asked /\ ran' = ran
      /\ overwritten' = overwritten /\ unseen' = unseen
      /\ ~At(c, "clear")
  BY <1>1 DEF Check, Checks, Enter, requests, At
<1>3. /\ At(c, "clear")' /\ Innermost(c)'.request = async_apply[c]
      /\ \A d \in Caller \ {c} : Innermost(d)' = Innermost(d) /\ At(d, "clear")' = At(d, "clear")
  <2>1. doing[c] \in Seq(AStep) /\ doing'[c] = Append(doing[c], x)
        /\ \A d \in Caller \ {c} : doing'[d] = doing[d]
    BY <1>2 DEF Types
  <2>2. doing'[c] # <<>> /\ Last(doing'[c]) = x
    BY <2>1, Grown
  <2>. QED  BY <1>1, <2>1, <2>2 DEF At, Busy, Innermost
<1>4. InTurn'
  <2>. SUFFICES ASSUME NEW d \in Caller
                PROVE  /\ async_apply[d] \in {NoRequest} \union DOMAIN asked
                       /\ \A i \in DOMAIN ran[d] : ran[d][i] \in DOMAIN asked
                       /\ async_apply[d] # NoRequest =>
                            \A i \in DOMAIN ran[d] : ran[d][i] < async_apply[d]
                       /\ At(d, "clear")' =>
                            /\ Innermost(d)'.request \in DOMAIN asked
                            /\ \A i \in DOMAIN ran[d] : ran[d][i] < Innermost(d)'.request
                            /\ async_apply[d] = Innermost(d)'.request \/ async_apply[d] \in unseen
    BY <1>2 DEF InTurn
  <2>1. CASE d # c
    BY <1>3, <2>1 DEF InTurn
  <2>2. CASE d = c
    BY <1>2, <1>3, <2>2 DEF InTurn
  <2>. QED  BY <2>1, <2>2
<1>5. InOrder /\ \A r \in DOMAIN asked : There(r)
  BY RequestsThere DEF AllThere
<1>6. InOrder' /\ \A r \in DOMAIN asked' : There(r)'
  BY <1>2, <1>3, <1>5 DEF InOrder, There
<1>. QED  BY <1>4, <1>6, RequestsThereNext DEF AllThere

\* What was read is applied, and came after all that was; if the slot that is
\* cleared holds another by then, that one is unseen.
LEMMA ClearKeeps ==
  ASSUME Types, Types', InTurn, RequestsKept, NEW c \in Caller, Clear(c)
  PROVE  InTurn' /\ RequestsKept'
<1>1. PICK r : r = Innermost(c).request
  OBVIOUS
<1>2. /\ At(c, "clear") /\ ran' = [ran EXCEPT ![c] = Append(@, r)]
      /\ async_apply' = [async_apply EXCEPT ![c] = NoRequest]
      /\ asked' = asked /\ overwritten' = overwritten /\ unseen' = unseen
      /\ Become(c, [Innermost(c) EXCEPT !.at = "apply"])
  BY <1>1 DEF Clear, Cleared
<1>3. /\ r \in DOMAIN asked /\ r \in Nat /\ \A i \in DOMAIN ran[c] : ran[c][i] < r
      /\ async_apply[c] = r \/ async_apply[c] \in unseen
  BY <1>1, <1>2 DEF InTurn, Types
<1>4. /\ ~At(c, "clear")'
      /\ \A d \in Caller \ {c} : Innermost(d)' = Innermost(d) /\ At(d, "clear")' = At(d, "clear")
  <2>1. PICK b \in Seq(AStep) : b = Front(doing[c])
    BY <1>2, TopIs DEF At
  <2>2. PICK y : y = [Innermost(c) EXCEPT !.at = "apply"]
    OBVIOUS
  <2>3. y.at = "apply"
    <3>1. Innermost(c) \in AStep
      BY <1>2, TopIs DEF At
    <3>. QED  BY <2>2, <3>1 DEF AStep, CallStep, ApplyStep
  <2>4. doing'[c] = Append(b, y) /\ \A d \in Caller \ {c} : doing'[d] = doing[d]
    BY <1>2, <2>1, <2>2 DEF Become, Types
  <2>5. Last(Append(b, y)) = y
    BY <2>1, Grown
  <2>. QED  BY <2>3, <2>4, <2>5 DEF At, Busy, Innermost
<1>5. /\ async_apply'[c] = NoRequest /\ \A d \in Caller \ {c} : async_apply'[d] = async_apply[d]
      /\ ran'[c] = Append(ran[c], r) /\ \A d \in Caller \ {c} : ran'[d] = ran[d]
      /\ ran[c] \in Seq(Nat)
  BY <1>2 DEF Types
<1>6. PICK n \in Nat : /\ DOMAIN ran[c] = 1..n /\ DOMAIN ran'[c] = 1..(n + 1)
                       /\ ran'[c][n + 1] = r /\ \A i \in 1..n : ran'[c][i] = ran[c][i]
  <2>1. Len(ran[c]) \in Nat
    BY <1>5
  <2>. QED  BY <1>5, <2>1
<1>7. InTurn'
  <2>. SUFFICES ASSUME NEW d \in Caller
                PROVE  /\ async_apply'[d] \in {NoRequest} \union DOMAIN asked
                       /\ \A i \in DOMAIN ran'[d] : ran'[d][i] \in DOMAIN asked
                       /\ async_apply'[d] # NoRequest =>
                            \A i \in DOMAIN ran'[d] : ran'[d][i] < async_apply'[d]
                       /\ At(d, "clear")' =>
                            /\ Innermost(d)'.request \in DOMAIN asked
                            /\ \A i \in DOMAIN ran'[d] : ran'[d][i] < Innermost(d)'.request
                            /\ async_apply'[d] = Innermost(d)'.request \/ async_apply'[d] \in unseen
    BY <1>2 DEF InTurn
  <2>1. CASE d # c
    BY <1>4, <1>5, <2>1 DEF InTurn
  <2>2. CASE d = c
    <3>1. \A i \in 1..n : ran[c][i] \in DOMAIN asked
      BY <1>6 DEF InTurn
    <3>. QED  BY <1>3, <1>4, <1>5, <1>6, <2>2, <3>1
  <2>. QED  BY <2>1, <2>2
<1>8. InOrder /\ \A q \in DOMAIN asked : There(q)
  BY RequestsThere DEF AllThere
<1>9. InOrder'
  <2>. SUFFICES ASSUME NEW d \in Caller, NEW i \in DOMAIN ran'[d], NEW j \in DOMAIN ran'[d], i < j
                PROVE  ran'[d][i] < ran'[d][j]
    BY DEF InOrder
  <2>1. CASE d # c
    BY <1>5, <1>8, <2>1 DEF InOrder
  <2>2. CASE d = c
    <3>1. i \in 1..(n + 1) /\ j \in 1..(n + 1) /\ i < j
      BY <1>6, <2>2
    <3>2. i \in 1..n /\ ran'[c][i] = ran[c][i] /\ i \in DOMAIN ran[c]
      BY <1>6, <3>1
    <3>3. CASE j = n + 1
      BY <1>3, <1>6, <2>2, <3>2, <3>3
    <3>4. CASE j # n + 1
      <4>1. j \in DOMAIN ran[c] /\ ran'[c][j] = ran[c][j]
        BY <1>6, <3>1, <3>4
      <4>. QED  BY <1>8, <2>2, <3>1, <3>2, <4>1 DEF InOrder
    <3>. QED  BY <3>3, <3>4
  <2>. QED  BY <2>1, <2>2
<1>10. ToSet(ran'[c]) = ToSet(ran[c]) \union {r}
  <2>1. ASSUME NEW v \in ToSet(ran'[c])
        PROVE  v \in ToSet(ran[c]) \union {r}
    <3>1. PICK i \in DOMAIN ran'[c] : v = ran'[c][i]
      BY DEF ToSet
    <3>2. CASE i = n + 1
      BY <1>6, <3>1, <3>2
    <3>3. CASE i # n + 1
      <4>1. i \in DOMAIN ran[c] /\ ran'[c][i] = ran[c][i]
        BY <1>6, <3>1, <3>3
      <4>. QED  BY <3>1, <4>1 DEF ToSet
    <3>. QED  BY <3>2, <3>3
  <2>2. r \in ToSet(ran'[c])
    <3>1. n + 1 \in DOMAIN ran'[c]
      BY <1>6
    <3>. QED  BY <1>6, <3>1 DEF ToSet
  <2>3. ASSUME NEW v \in ToSet(ran[c])
        PROVE  v \in ToSet(ran'[c])
    <3>1. PICK i \in DOMAIN ran[c] : v = ran[c][i]
      BY DEF ToSet
    <3>2. i \in DOMAIN ran'[c] /\ ran'[c][i] = ran[c][i]
      BY <1>6, <3>1
    <3>. QED  BY <3>1, <3>2 DEF ToSet
  <2>. QED  BY <2>1, <2>2, <2>3
<1>11. ASSUME NEW q \in DOMAIN asked
       PROVE  There(q)'
  <2>1. CASE q = r
    BY <1>10, <2>1 DEF There
  <2>2. CASE q # r /\ async_apply[c] = q
    BY <1>2, <1>3, <2>2 DEF There
  <2>3. CASE q # r /\ async_apply[c] # q
    <3>1. \/ q \in overwritten \union unseen \/ q \in ToSet(ran[c])
          \/ \E d \in Caller \ {c} :
               async_apply[d] = q \/ q \in ToSet(ran[d]) \/ (At(d, "clear") /\ Innermost(d).request = q)
      BY <1>1, <1>8, <2>3 DEF There
    <3>. QED  BY <1>2, <1>4, <1>5, <1>10, <3>1 DEF There
  <2>. QED  BY <2>1, <2>2, <2>3
<1>12. RequestsKept'
  BY <1>2, <1>9, <1>11, RequestsThereNext DEF AllThere
<1>. QED  BY <1>7, <1>12
-----------------------------------------------------------------------------
(* One step of a thread.                                                   *)

LEMMA TypesMoved ==
  ASSUME Types, NEW c \in Caller, NEW t, Moves(c, t), UNCHANGED requests,
         present' \in BOOLEAN, entangled' \in BOOLEAN, rdholds' \in [Caller -> Nat], calls' \in Nat
  PROVE  Types'
<1>1. doing' \in [Caller -> Seq(AStep)] /\ \A d \in Caller : Nested(doing'[d])
  BY OthersStay
<1>. QED  BY <1>1 DEF Types, requests

\* The innermost step becomes another, which continues it if it is a call.
LEMMA BecomeKeeps ==
  ASSUME IInv, ~entangled, NEW c \in Caller, Busy(c), ~At(c, "clear"),
         NEW y \in AStep, y.at # "clear", Become(c, y), UNCHANGED requests,
         present' \in BOOLEAN, entangled' \in BOOLEAN, rdholds' \in [Caller -> Nat], calls' = calls,
         IsCall(y) => /\ Continues(y, Innermost(c))
                      /\ Missed(y) => Missed(Innermost(c)) \/ y.after \intersect entered = {}
  PROVE  /\ Moves(c, Append(Front(doing[c]), y)) /\ Types' /\ InTurn' /\ RequestsKept' /\ Descends
         /\ entered' \in SUBSET entered /\ (entered' # {} => present') => Numbered' /\ Entering'
<1>1. PICK b \in Seq(AStep) : b = Front(doing[c]) /\ doing[c] = Append(b, Innermost(c))
  BY TopIs DEF IInv
<1>2. Moves(c, Append(b, y))
  BY <1>1, BecomeMoves DEF IInv
<1>3. Types'
  BY <1>2, TypesMoved DEF IInv, Types
<1>4. InTurn' /\ RequestsKept'
  <2>1. Last(Append(b, y)) = y
    BY <1>1, Grown
  <2>. QED  BY <1>2, <1>3, <2>1, RequestsMoved DEF IInv
<1>5. Descends
  <2>1. Innermost(c) \in AStep
    BY TopIs DEF IInv
  <2>2. Follows(Append(b, y), doing[c])
    BY <1>1, <2>1, FollowsOne
  <2>. QED  BY <1>2, <2>2, FollowsDescends DEF IInv
<1>6. ASSUME entered' \in SUBSET entered, entered' # {} => present'
      PROVE  Numbered' /\ Entering'
  BY <1>5, <1>6, NumberedKept, EnteringKept DEF IInv
<1>. QED  BY <1>1, <1>2, <1>3, <1>4, <1>5, <1>6

\* The innermost step is over.
LEMMA LeaveKeeps ==
  ASSUME IInv, ~entangled, NEW c \in Caller, Busy(c), ~At(c, "clear"), Leave(c),
         UNCHANGED <<present, requests, calls, entered, entangled>>,
         rdholds' \in [Caller -> Nat]
  PROVE  /\ Moves(c, Front(doing[c])) /\ Types' /\ InTurn' /\ RequestsKept'
         /\ Numbered' /\ Entering' /\ FoundIsThere'
<1>1. PICK b \in Seq(AStep) : /\ b = Front(doing[c]) /\ doing[c] = Append(b, Innermost(c))
                              /\ \A i \in DOMAIN b : b[i].at \in {"search", "apply"}
  BY TopIs DEF IInv
<1>2. Moves(c, b)
  BY <1>1, LeaveMoves DEF IInv
<1>3. Types'
  BY <1>2, TypesMoved DEF IInv, Types
<1>4. b = <<>> \/ Last(b).at \in {"search", "apply"}
  <2>. SUFFICES ASSUME b # <<>>
                PROVE  Last(b).at \in {"search", "apply"}
    OBVIOUS
  <2>1. Len(b) \in DOMAIN b /\ Last(b) = b[Len(b)]
    BY DEF Last
  <2>. QED  BY <1>1, <2>1
<1>5. InTurn' /\ RequestsKept'
  BY <1>2, <1>3, <1>4, RequestsMoved DEF IInv
<1>6. Descends
  <2>1. Innermost(c) \in AStep
    BY TopIs DEF IInv
  <2>2. Follows(b, doing[c])
    BY <1>1, <2>1, FollowsBeneath
  <2>. QED  BY <1>2, <2>2, FollowsDescends DEF IInv
<1>7. Numbered' /\ Entering'
  BY <1>6, NumberedKept, EnteringKept DEF IInv, Entering
<1>8. FoundIsThere'
  BY <1>2, <1>4, FoundKept DEF IInv
<1>. QED  BY <1>1, <1>2, <1>3, <1>5, <1>7, <1>8

LEMMA BeginKeeps ==
  ASSUME IInv, ~entangled, NEW c \in Caller, NEW op \in TableCall, BeginCall(c, op)
  PROVE  IInv'
<1>1. PICK y : y = Calling(op, calls + 1, entered)
  OBVIOUS
<1>2. y \in AStep /\ y.at = "lock" /\ Enter(c, y)
  <2>1. calls + 1 \in Nat /\ op \in TableCall \union {"enter"} /\ entered \in SUBSET Nat
    BY DEF IInv, Types, Numbered
  <2>2. y \in AStep /\ y.at = "lock"
    BY <1>1, <2>1, FirstStep
  <2>. QED  BY <1>1, <2>2 DEF BeginCall
<1>3. ~Busy(c) \/ (Busy(c) /\ Innermost(c).at = "apply")
  BY DEF BeginCall, At
<1>4. Moves(c, Append(doing[c], y))
  BY <1>2, <1>3, EnterMoves DEF IInv
<1>5. /\ UNCHANGED requests /\ UNCHANGED theLock /\ present' = present /\ entangled' = entangled
      /\ calls' = calls + 1
  BY DEF BeginCall
<1>6. Types'
  <2>1. rdholds' = rdholds /\ calls' \in Nat
    BY <1>5 DEF theLock, IInv, Types
  <2>. QED  BY <1>4, <1>5, <2>1, TypesMoved DEF IInv, Types
<1>7. doing[c] \in Seq(AStep)
  BY DEF IInv, Types
<1>8. Last(Append(doing[c], y)) = y
  BY <1>7, Grown
<1>9. InTurn' /\ RequestsKept'
  BY <1>2, <1>3, <1>4, <1>5, <1>6, <1>8, RequestsMoved DEF IInv, At
<1>10. Locked'
  BY <1>2, <1>4, <1>5, <1>7, StepIs, HoldingAdd, LockedSame DEF IInv
<1>11. Numbered' /\ Entering'
  BY <1>1, <1>4, BeginNumbered DEF IInv
<1>12. FoundIsThere'
  BY <1>2, <1>4, <1>5, <1>8, FoundKept DEF IInv
<1>. QED  BY <1>6, <1>9, <1>10, <1>11, <1>12 DEF IInv

LEMMA LockKeeps ==
  ASSUME CallerAssumption, IInv, ~entangled, NEW c \in Caller, LockTable(c)
  PROVE  IInv'
<1>1. PICK x \in CallStep : x = Innermost(c) /\ x.at = "lock" /\ Busy(c) /\ ~At(c, "clear")
  <2>1. Busy(c) /\ Innermost(c).at = "lock"
    BY DEF LockTable, At
  <2>2. Innermost(c) \in CallStep
    BY <2>1, TopIs, StepIs DEF IInv, IsCall
  <2>. QED  BY <2>1, <2>2 DEF At
<1>2. PICK y : y = [x EXCEPT !.at = "search"]
  OBVIOUS
<1>3. y \in AStep /\ y.at = "search" /\ Continues(y, x) /\ ~Missed(y)
  BY <1>1, <1>2 DEF CallStep, AStep, Continues, IsCall, MaySet, Missed
<1>4. /\ Become(c, y) /\ UNCHANGED requests /\ present' = present /\ calls' = calls /\ entered' = entered
  BY <1>1, <1>2 DEF LockTable
<1>5. entangled' \in BOOLEAN /\ rdholds' \in [Caller -> Nat]
  <2>1. rdholds \in [Caller -> Nat]
    BY DEF IInv, Types
  <2>2. rdholds' = rdholds \/ rdholds' = [rdholds EXCEPT ![c] = @ + 1]
    BY Zenon DEF LockTable
  <2>3. (entangled' = (entangled \/ wrholder = c)) \/ (entangled' = (entangled \/ Holds(c)))
    BY Zenon DEF LockTable
  <2>4. entangled' \in BOOLEAN
    BY <2>3, Zenon
  <2>. QED  BY <2>1, <2>2, <2>4
<1>6. present' \in BOOLEAN
  BY <1>4 DEF IInv, Types
<1>7. /\ Moves(c, Append(Front(doing[c]), y)) /\ Types' /\ InTurn' /\ RequestsKept'
      /\ entered' \in SUBSET entered /\ (entered' # {} => present') => Numbered' /\ Entering'
  BY <1>1, <1>3, <1>4, <1>5, <1>6, BecomeKeeps
<1>8. entered' \in SUBSET entered /\ (entered' # {} => present')
  BY <1>4 DEF IInv, Entering
<1>9. FoundIsThere'
  <2>1. Last(Append(Front(doing[c]), y)) = y
    BY <1>1, TopIs, Grown DEF IInv
  <2>. QED  BY <1>3, <1>4, <1>7, <2>1, FoundKept DEF IInv
<1>10. ~entangled' => Locked'
  BY LockLocks DEF IInv
<1>. QED  BY <1>7, <1>8, <1>9, <1>10 DEF IInv
\* Whether the key is there is so until it is used: nobody sets or unsets it who
\* does not hold the lock alone.
LEMMA SearchKeeps ==
  ASSUME IInv, ~entangled, NEW c \in Caller, SearchChain(c)
  PROVE  IInv'
<1>1. PICK x \in CallStep : x = Innermost(c) /\ x.at = "search" /\ Busy(c) /\ ~At(c, "clear")
  <2>1. Busy(c) /\ Innermost(c).at = "search"
    BY DEF SearchChain, At
  <2>2. Innermost(c) \in CallStep
    BY <2>1, TopIs, StepIs DEF IInv, IsCall
  <2>. QED  BY <2>1, <2>2 DEF At
<1>2. PICK y : y = [x EXCEPT !.at = "use", !.found = present]
  OBVIOUS
<1>3. present \in BOOLEAN /\ (entered # {} => present) /\ x.after \subseteq Nat
  BY <1>1 DEF IInv, Types, Entering, CallStep
<1>4. y \in AStep /\ y.at = "use" /\ y.op = x.op /\ y.found = present /\ Continues(y, x)
  BY <1>1, <1>2, <1>3 DEF CallStep, AStep, Continues, IsCall, MaySet
<1>5. Missed(y) => y.after \intersect entered = {}
  BY <1>3, <1>4 DEF Missed
<1>6. /\ Become(c, y) /\ UNCHANGED requests /\ present' = present /\ calls' = calls
      /\ entered' = entered /\ UNCHANGED theLock /\ entangled' = entangled
  BY <1>1, <1>2 DEF SearchChain
<1>7. entangled' \in BOOLEAN /\ rdholds' \in [Caller -> Nat] /\ present' \in BOOLEAN
  BY <1>6 DEF IInv, Types, theLock
<1>8. /\ Moves(c, Append(Front(doing[c]), y)) /\ Types' /\ InTurn' /\ RequestsKept'
      /\ entered' \in SUBSET entered /\ (entered' # {} => present') => Numbered' /\ Entering'
  BY <1>1, <1>4, <1>5, <1>6, <1>7, BecomeKeeps
<1>9. Numbered' /\ Entering'
  BY <1>3, <1>6, <1>8
<1>10. PICK b \in Seq(AStep) : b = Front(doing[c]) /\ doing[c] = Append(b, x)
  BY <1>1, TopIs DEF IInv
<1>11. doing'[c] = Append(b, y) /\ \A d \in Caller \ {c} : doing'[d] = doing[d]
  BY <1>8, <1>10, OthersStay DEF IInv
<1>12. FoundIsThere'
  <2>. SUFFICES ASSUME NEW d \in Caller, At(d, "use")'
                PROVE  Innermost(d)'.found = present'
    BY DEF FoundIsThere
  <2>1. CASE d = c
    <3>1. Last(doing'[c]) = y
      BY <1>10, <1>11, Grown
    <3>. QED  BY <1>4, <1>6, <2>1, <3>1 DEF Innermost
  <2>2. CASE d # c
    <3>1. At(d, "use") /\ Innermost(d)' = Innermost(d)
      BY <1>11, <2>2 DEF At, Busy, Innermost
    <3>. QED  BY <1>6, <3>1 DEF IInv, FoundIsThere
  <2>. QED  BY <2>1, <2>2
<1>13. Locked'
  <2>1. /\ Reads(x) <=> Reads(y)
        /\ Writes(x) <=> Writes(y)
    BY <1>1, <1>4 DEF Reads, Writes
  <2>2. /\ ReadingIn(Append(b, y)) = ReadingIn(Append(b, x))
        /\ WritingIn(Append(b, y)) = WritingIn(Append(b, x))
    BY <1>4, <1>10, <2>1, HoldingAdd DEF AStep
  <2>. QED  BY <1>6, <1>8, <1>10, <2>2, LockedSame DEF IInv
<1>. QED  BY <1>8, <1>9, <1>12, <1>13 DEF IInv

LEMMA UseKeeps ==
  ASSUME IInv, ~entangled, NEW c \in Caller, Use(c)
  PROVE  IInv'
<1>1. PICK x \in CallStep : x = Innermost(c) /\ x.at = "use" /\ At(c, "use") /\ Busy(c) /\ ~At(c, "clear")
  <2>1. Busy(c) /\ Innermost(c).at = "use"
    BY DEF Use, At
  <2>2. Innermost(c) \in CallStep
    BY <2>1, TopIs, StepIs DEF IInv, IsCall
  <2>. QED  BY <2>1, <2>2 DEF At
<1>2. PICK y : y = [x EXCEPT !.at = "unlock"]
  OBVIOUS
<1>3. y \in AStep /\ y.at = "unlock" /\ y.op = x.op /\ Continues(y, x) /\ (Missed(y) => Missed(x))
  BY <1>1, <1>2 DEF CallStep, AStep, Continues, IsCall, MaySet, Missed
<1>4. /\ Become(c, y) /\ UNCHANGED requests /\ calls' = calls /\ UNCHANGED theLock
      /\ present' = (x.op \in {"set", "enter"} \/ (present /\ x.op # "unset"))
      /\ entered' = IF x.op = "unset" THEN {}
                    ELSE IF x.op = "enter" THEN entered \union {x.call} ELSE entered
      /\ entangled' = entangled
  BY <1>1, <1>2 DEF Use
<1>5. entangled' \in BOOLEAN /\ rdholds' \in [Caller -> Nat]
  BY <1>4 DEF IInv, Types, theLock
<1>6. present' \in BOOLEAN
  BY <1>4, Zenon
<1>7. /\ Moves(c, Append(Front(doing[c]), y)) /\ Types' /\ InTurn' /\ RequestsKept' /\ Descends
      /\ entered' \in SUBSET entered /\ (entered' # {} => present') => Numbered' /\ Entering'
  BY <1>1, <1>3, <1>4, <1>5, <1>6, BecomeKeeps
<1>8. PICK b \in Seq(AStep) : b = Front(doing[c]) /\ doing[c] = Append(b, x)
  BY <1>1, TopIs DEF IInv
<1>9. doing'[c] = Append(b, y) /\ \A d \in Caller \ {c} : doing'[d] = doing[d]
  BY <1>7, <1>8, OthersStay DEF IInv
<1>10. Numbered' /\ Entering'
  <2>1. CASE x.op = "enter"
    <3>1. PICK n \in DOMAIN doing[c] : doing[c][n] = x /\ doing'[c][n] = y
      <4>1. PICK n \in Nat : n = Len(b) + 1
        BY <1>8
      <4>2. n \in 1..(Len(b) + 1) /\ Len(b) \in Nat
        BY <1>8, <4>1
      <4>. QED  BY <1>8, <1>9, <4>1, <4>2, Grown
    <3>2. IsCall(x) /\ MaySet(x) /\ ~MaySet(y)
      BY <1>1, <1>3, <2>1 DEF IsCall, MaySet
    <3>3. entered' = entered \union {x.call}
      BY <1>4, <2>1
    <3>4. present' = TRUE
      BY <1>4, <2>1, Zenon
    <3>. QED  BY <1>4, <1>7, <3>1, <3>2, <3>3, <3>4, EnterNumbered DEF IInv
  <2>2. CASE x.op # "enter"
    <3>1. entered' \in SUBSET entered
      BY <1>4, <2>2
    <3>2. entered' # {} => x.op # "unset" /\ entered # {}
      BY <1>4, <2>2
    <3>3. entered # {} => present
      BY DEF IInv, Entering
    <3>4. entered' # {} => present'
      BY <1>4, <3>2, <3>3, Zenon
    <3>. QED  BY <1>7, <3>1, <3>4
  <2>. QED  BY <2>1, <2>2
<1>11. FoundIsThere'
  <2>. SUFFICES ASSUME NEW d \in Caller, At(d, "use")'
                PROVE  Innermost(d)'.found = present'
    BY DEF FoundIsThere
  <2>1. d # c
    <3>1. Last(doing'[c]) = y
      BY <1>8, <1>9, Grown
    <3>. QED  BY <1>3, <3>1 DEF At, Innermost
  <2>2. At(d, "use") /\ Innermost(d)' = Innermost(d)
    BY <1>9, <2>1 DEF At, Busy, Innermost
  <2>3. OnlyReads(x.op)
    BY <1>1, <2>1, <2>2, UserAlone DEF IInv
  <2>4. x.op \notin {"set", "enter"} /\ x.op # "unset"
    BY <2>3 DEF OnlyReads
  <2>5. present \in BOOLEAN
    BY DEF IInv, Types
  <2>6. present' = present
    BY <1>4, <2>4, <2>5, Zenon
  <2>. QED  BY <2>2, <2>6 DEF IInv, FoundIsThere
<1>12. Locked'
  <2>1. /\ Reads(x) <=> Reads(y)
        /\ Writes(x) <=> Writes(y)
    BY <1>1, <1>3 DEF Reads, Writes
  <2>2. /\ ReadingIn(Append(b, y)) = ReadingIn(Append(b, x))
        /\ WritingIn(Append(b, y)) = WritingIn(Append(b, x))
    BY <1>3, <1>8, <2>1, HoldingAdd DEF AStep
  <2>. QED  BY <1>4, <1>7, <1>8, <2>2, LockedSame DEF IInv
<1>. QED  BY <1>7, <1>10, <1>11, <1>12 DEF IInv
\* The lock is released; a set_if_not_exists that has found nothing goes on to
\* enter the key, which it may do as nobody it knows of had set it.
LEMMA UnlockKeeps ==
  ASSUME CallerAssumption, IInv, ~entangled, NEW c \in Caller, UnlockTable(c)
  PROVE  IInv'
<1>1. PICK x \in CallStep : x = Innermost(c) /\ x.at = "unlock" /\ Busy(c) /\ ~At(c, "clear")
  <2>1. Busy(c) /\ Innermost(c).at = "unlock"
    BY DEF UnlockTable, At
  <2>2. Innermost(c) \in CallStep
    BY <2>1, TopIs, StepIs DEF IInv, IsCall
  <2>. QED  BY <2>1, <2>2 DEF At
<1>2. /\ ReleaseLock(c) /\ UNCHANGED requests /\ present' = present /\ calls' = calls
      /\ entered' = entered /\ entangled' = entangled
  BY DEF UnlockTable
<1>3. PICK b \in Seq(AStep) : b = Front(doing[c]) /\ doing[c] = Append(b, x)
  BY <1>1, TopIs DEF IInv
<1>4. rdholds' \in [Caller -> Nat]
  <2>1. rdholds \in [Caller -> Nat] /\ doing[c] \in Seq(AStep)
    BY DEF IInv, Types
  <2>2. CASE OnlyReads(x.op)
    <3>1. Reads(x) /\ x \in AStep
      BY <1>1, <2>2 DEF Reads, AStep
    <3>2. ReadingIn(doing[c]) # {}
      BY <1>3, <3>1, HoldingAdd
    <3>3. rdholds[c] \in Nat /\ rdholds[c] # 0
      BY <2>1, <3>2, ReadersCount DEF IInv, Locked
    <3>4. rdholds' = [rdholds EXCEPT ![c] = @ - 1]
      BY <1>1, <1>2, <2>2 DEF ReleaseLock
    <3>. QED  BY <2>1, <3>3, <3>4
  <2>3. CASE ~OnlyReads(x.op)
    BY <1>1, <1>2, <2>1, <2>3 DEF ReleaseLock
  <2>. QED  BY <2>2, <2>3
<1>5. /\ entangled' \in BOOLEAN /\ present' \in BOOLEAN
      /\ entered' \in SUBSET entered /\ (entered' # {} => present')
  BY <1>2 DEF IInv, Types, Entering
<1>6. CASE GoesOn(x)
  <2>1. PICK y : y = Calling("enter", x.call, x.after)
    OBVIOUS
  <2>2. /\ y \in AStep /\ y.at = "lock" /\ y.op = "enter" /\ y.call = x.call /\ y.after = x.after
        /\ ~Reads(y) /\ ~Writes(y)
    <3>1. PICK call \in Nat : call = x.call
      BY <1>1 DEF CallStep
    <3>2. PICK after \in SUBSET Nat : after = x.after
      BY <1>1 DEF CallStep
    <3>3. PICK op \in TableCall \union {"enter"} : op = "enter"
      OBVIOUS
    <3>4. y = Calling(op, call, after)
      BY <2>1, <3>1, <3>2, <3>3
    <3>5. y \in AStep /\ y.at = "lock" /\ y.op = op /\ y.call = call /\ y.after = after
      BY <3>4 DEF Calling, CallStep, AStep
    <3>. QED  BY <3>1, <3>2, <3>3, <3>5, StepIs
  <2>3. Continues(y, x) /\ (Missed(y) => Missed(x))
    BY <1>1, <1>6, <2>2 DEF GoesOn, Continues, IsCall, MaySet, Missed
  <2>4. Become(c, y)
    BY <1>1, <1>6, <2>1 DEF UnlockTable
  <2>5. /\ Moves(c, Append(Front(doing[c]), y)) /\ Types' /\ InTurn' /\ RequestsKept'
        /\ entered' \in SUBSET entered /\ (entered' # {} => present') => Numbered' /\ Entering'
    BY <1>1, <1>2, <1>4, <1>5, <2>2, <2>3, <2>4, BecomeKeeps
  <2>6. /\ ReadingIn(Append(b, y)) = ReadingIn(b) /\ WritingIn(Append(b, y)) = WritingIn(b)
        /\ Last(Append(b, y)) = y
    BY <1>3, <2>2, HoldingAdd, Grown
  <2>7. Locked'
    BY <1>3, <2>5, <2>6, UnlockLocked DEF IInv
  <2>8. FoundIsThere'
    BY <1>2, <1>3, <2>2, <2>5, <2>6, FoundKept DEF IInv
  <2>. QED  BY <1>5, <2>5, <2>7, <2>8 DEF IInv
<1>7. CASE ~GoesOn(x)
  <2>1. Leave(c)
    BY <1>1, <1>7 DEF UnlockTable
  <2>2. /\ Moves(c, Front(doing[c])) /\ Types' /\ InTurn' /\ RequestsKept'
        /\ Numbered' /\ Entering' /\ FoundIsThere'
    BY <1>1, <1>2, <1>4, <2>1, LeaveKeeps
  <2>3. Locked'
    BY <2>2, UnlockLocked DEF IInv
  <2>. QED  BY <2>2, <2>3 DEF IInv
<1>. QED  BY <1>6, <1>7

LEMMA RequestKeepsAll ==
  ASSUME IInv, ~entangled, NEW c \in Caller, NEW procedure \in Procedure, Request(c, procedure)
  PROVE  IInv'
<1>1. /\ present' = present /\ rdholds' = rdholds /\ wrholder' = wrholder /\ doing' = doing
      /\ calls' = calls /\ ran' = ran /\ entered' = entered /\ entangled' = entangled
  BY DEF Request, theLock
<1>2. Types'
  <2>1. asked \in Seq(Procedure) /\ async_apply \in [Caller -> Nat]
    BY DEF IInv, Types
  <2>2. asked' \in Seq(Procedure) /\ async_apply' \in [Caller -> Nat]
    BY <2>1 DEF Request
  <2>. QED  BY <1>1, <2>2 DEF IInv, Types
<1>3. InTurn' /\ RequestsKept'
  BY <1>2, RequestKeeps DEF IInv
<1>4. Locked' /\ Numbered' /\ Entering'
  <2>1. Locked'
    BY <1>1 DEF IInv, Locked
  <2>2. Numbered'
    BY <1>1 DEF IInv, Numbered
  <2>3. Entering'
    BY <1>1 DEF IInv, Entering
  <2>. QED  BY <2>1, <2>2, <2>3
<1>5. FoundIsThere'
  BY <1>1 DEF IInv, FoundIsThere, At, Busy, Innermost
<1>. QED  BY <1>2, <1>3, <1>4, <1>5 DEF IInv

LEMMA CheckKeepsAll ==
  ASSUME IInv, ~entangled, NEW c \in Caller, Check(c)
  PROVE  IInv'
<1>1. PICK x : x = [at |-> "clear", request |-> async_apply[c]]
  OBVIOUS
<1>2. x \in AStep /\ x.at = "clear" /\ ~IsCall(x) /\ ~Reads(x) /\ ~Writes(x)
  BY <1>1 DEF IInv, Types, AStep, ApplyStep, IsCall, Reads, Writes
<1>3. Enter(c, x) /\ (~Busy(c) \/ Innermost(c).at \in {"search", "apply"})
  BY <1>1 DEF Check, Checks, At
<1>4. /\ present' = present /\ UNCHANGED theLock /\ UNCHANGED requests
      /\ calls' = calls /\ entered' = entered /\ entangled' = entangled
  BY DEF Check
<1>5. Moves(c, Append(doing[c], x))
  BY <1>2, <1>3, EnterMoves DEF IInv
<1>6. Types'
  BY <1>4, <1>5, TypesMoved DEF IInv, Types, theLock
<1>7. doing[c] \in Seq(AStep)
  BY DEF IInv, Types
<1>8. InTurn' /\ RequestsKept'
  BY <1>6, CheckKeeps DEF IInv
<1>9. Locked'
  BY <1>2, <1>4, <1>5, <1>7, HoldingAdd, LockedSame DEF IInv
<1>10. Numbered' /\ Entering'
  <2>1. Descends
    BY <1>2, <1>5, <1>7, FollowsPushed, FollowsDescends DEF IInv
  <2>2. entered # {} => present
    BY DEF IInv, Entering
  <2>. QED  BY <1>4, <2>1, <2>2, NumberedKept, EnteringKept DEF IInv
<1>11. FoundIsThere'
  <2>1. Last(Append(doing[c], x)).at # "use"
    BY <1>2, <1>7, Grown
  <2>. QED  BY <1>4, <1>5, <2>1, FoundKept DEF IInv
<1>. QED  BY <1>6, <1>8, <1>9, <1>10, <1>11 DEF IInv

LEMMA ClearKeepsAll ==
  ASSUME IInv, ~entangled, NEW c \in Caller, Clear(c)
  PROVE  IInv'
<1>1. PICK x \in ApplyStep : x = Innermost(c) /\ x.at = "clear" /\ Busy(c)
  <2>1. Busy(c) /\ Innermost(c).at = "clear"
    BY DEF Clear, At
  <2>2. Innermost(c) \in ApplyStep
    BY <2>1, TopIs, StepIs DEF IInv, IsCall
  <2>. QED  BY <2>1, <2>2
<1>2. PICK y : y = [x EXCEPT !.at = "apply"]
  OBVIOUS
<1>3. /\ y \in AStep /\ y.at = "apply" /\ ~IsCall(y) /\ ~Reads(y) /\ ~Writes(y)
      /\ ~Reads(x) /\ ~Writes(x) /\ x \in AStep
  BY <1>1, <1>2 DEF AStep, ApplyStep, IsCall, Reads, Writes
<1>4. /\ Become(c, y) /\ present' = present /\ UNCHANGED theLock /\ asked' = asked
      /\ ran' = [ran EXCEPT ![c] = Append(@, x.request)]
      /\ async_apply' = [async_apply EXCEPT ![c] = NoRequest]
      /\ calls' = calls /\ entered' = entered /\ entangled' = entangled
  BY <1>1, <1>2 DEF Clear, Cleared
<1>5. PICK b \in Seq(AStep) : b = Front(doing[c]) /\ doing[c] = Append(b, x)
  BY <1>1, TopIs DEF IInv
<1>6. Moves(c, Append(b, y))
  BY <1>1, <1>3, <1>4, <1>5, BecomeMoves DEF IInv
<1>7. Types'
  <2>1. doing' \in [Caller -> Seq(AStep)] /\ \A d \in Caller : Nested(doing'[d])
    BY <1>6, OthersStay DEF IInv
  <2>2. x.request \in Nat /\ ran \in [Caller -> Seq(Nat)] /\ async_apply \in [Caller -> Nat]
    BY <1>1 DEF ApplyStep, IInv, Types
  <2>3. ran' \in [Caller -> Seq(Nat)] /\ async_apply' \in [Caller -> Nat]
    BY <1>4, <2>2 DEF NoRequest
  <2>. QED  BY <1>4, <2>1, <2>3 DEF IInv, Types, theLock
<1>8. InTurn' /\ RequestsKept'
  BY <1>7, ClearKeeps DEF IInv
<1>9. Locked'
  <2>1. /\ ReadingIn(Append(b, y)) = ReadingIn(Append(b, x))
        /\ WritingIn(Append(b, y)) = WritingIn(Append(b, x))
    BY <1>3, <1>5, HoldingAdd
  <2>. QED  BY <1>4, <1>5, <1>6, <2>1, LockedSame DEF IInv
<1>10. Numbered' /\ Entering'
  <2>1. Follows(Append(b, y), doing[c])
    BY <1>3, <1>5, FollowsOne
  <2>2. Descends
    BY <1>6, <2>1, FollowsDescends DEF IInv
  <2>3. entered # {} => present
    BY DEF IInv, Entering
  <2>. QED  BY <1>4, <2>2, <2>3, NumberedKept, EnteringKept DEF IInv
<1>11. FoundIsThere'
  <2>1. Last(Append(b, y)).at # "use"
    BY <1>3, <1>5, Grown
  <2>. QED  BY <1>4, <1>6, <2>1, FoundKept DEF IInv
<1>. QED  BY <1>7, <1>8, <1>9, <1>10, <1>11 DEF IInv
LEMMA ReturnKeeps ==
  ASSUME IInv, ~entangled, NEW c \in Caller, Return(c)
  PROVE  IInv'
<1>1. PICK x \in AStep : x = Innermost(c) /\ x.at = "apply" /\ Busy(c) /\ ~At(c, "clear")
  <2>1. Busy(c) /\ Innermost(c).at = "apply"
    BY DEF Return, At
  <2>2. Innermost(c) \in AStep
    BY <2>1, TopIs DEF IInv
  <2>. QED  BY <2>1, <2>2 DEF At
<1>2. /\ Leave(c) /\ UNCHANGED <<present, requests, calls, entered, entangled>> /\ UNCHANGED theLock
  BY DEF Return
<1>3. rdholds' \in [Caller -> Nat]
  BY <1>2 DEF theLock, IInv, Types
<1>4. /\ Moves(c, Front(doing[c])) /\ Types' /\ InTurn' /\ RequestsKept'
      /\ Numbered' /\ Entering' /\ FoundIsThere'
  BY <1>1, <1>2, <1>3, LeaveKeeps
<1>5. Locked'
  <2>1. PICK b \in Seq(AStep) : b = Front(doing[c]) /\ doing[c] = Append(b, x)
    BY <1>1, TopIs DEF IInv
  <2>2. ~Reads(x) /\ ~Writes(x)
    BY <1>1 DEF Reads, Writes
  <2>3. ReadingIn(b) = ReadingIn(doing[c]) /\ WritingIn(b) = WritingIn(doing[c])
    BY <2>1, <2>2, HoldingAdd
  <2>. QED  BY <1>2, <1>4, <2>1, <2>3, LockedSame DEF IInv
<1>. QED  BY <1>4, <1>5 DEF IInv

\* Who throws without holding the lock leaves it as it was.
LEMMA ThrowKeeps ==
  ASSUME IInv, ~entangled, NEW c \in Caller, Throw(c)
  PROVE  IInv'
<1>1. /\ doing' = [doing EXCEPT ![c] = <<>>] /\ ~At(c, "clear")
      /\ present' = present /\ UNCHANGED theLock /\ UNCHANGED requests
      /\ calls' = calls /\ entered' = entered
  BY DEF Throw, At
<1>2. entangled' = (entangled \/ Holds(c))
  BY DEF Throw
<1>3. entangled' \in BOOLEAN
  BY <1>2, Zenon
<1>4. Moves(c, <<>>)
  BY <1>1 DEF Moves, Nested
<1>5. Types'
  BY <1>1, <1>3, <1>4, TypesMoved DEF IInv, Types, theLock
<1>6. InTurn' /\ RequestsKept'
  BY <1>1, <1>4, <1>5, RequestsMoved DEF IInv
<1>7. ASSUME ~entangled'
      PROVE  Locked'
  <2>1. ~Holds(c)
    BY <1>2, <1>7, Zenon
  <2>2. rdholds[c] = 0 /\ wrholder # c
    BY <2>1 DEF Holds, IInv, Types
  <2>3. doing[c] \in Seq(AStep)
    BY DEF IInv, Types
  <2>4. ReadingIn(doing[c]) = {} /\ WritingIn(doing[c]) = {}
    BY <2>2, <2>3, ReadersCount DEF IInv, Locked
  <2>5. PICK t : t = <<>>
    OBVIOUS
  <2>6. ReadingIn(t) = {} /\ WritingIn(t) = {}
    BY <2>5 DEF ReadingIn, WritingIn
  <2>. QED  BY <1>1, <1>4, <2>4, <2>5, <2>6, LockedSame DEF IInv
<1>8. Numbered' /\ Entering'
  <2>1. Follows(<<>>, doing[c])
    BY DEF Follows
  <2>2. Descends
    BY <1>4, <2>1, FollowsDescends DEF IInv
  <2>3. entered # {} => present
    BY DEF IInv, Entering
  <2>. QED  BY <1>1, <2>2, <2>3, NumberedKept, EnteringKept DEF IInv
<1>9. FoundIsThere'
  BY <1>1, <1>4, FoundKept DEF IInv
<1>. QED  BY <1>5, <1>6, <1>7, <1>8, <1>9 DEF IInv

-----------------------------------------------------------------------------
(* Every behaviour.                                                        *)

LEMMA InitInvariant ==
  ASSUME CallerAssumption, TableInit
  PROVE  IInv
<1>1. /\ present = FALSE /\ entangled = FALSE /\ calls = 0 /\ asked = <<>> /\ entered = {}
      /\ rdholds = [c \in Caller |-> 0] /\ wrholder = Nobody
      /\ doing = [c \in Caller |-> <<>>] /\ async_apply = [c \in Caller |-> 0]
      /\ ran = [c \in Caller |-> <<>>]
  BY DEF TableInit, NoRequest
<1>2. \A c \in Caller : doing[c] = <<>> /\ ran[c] = <<>> /\ ~Busy(c) /\ rdholds[c] = 0 /\ async_apply[c] = 0
  BY <1>1 DEF Busy
<1>3. Types
  <2>1. doing \in [Caller -> Seq(AStep)] /\ ran \in [Caller -> Seq(Nat)] /\ asked \in Seq(Procedure)
    BY <1>1
  <2>2. \A c \in Caller : DOMAIN doing[c] = {}
    BY <1>2
  <2>3. \A c \in Caller : Nested(doing[c])
    BY <2>2 DEF Nested
  <2>4. rdholds \in [Caller -> Nat] /\ async_apply \in [Caller -> Nat] /\ calls \in Nat
    BY <1>1
  <2>5. present \in BOOLEAN /\ entangled \in BOOLEAN
    BY <1>1
  <2>. QED  BY <2>1, <2>3, <2>4, <2>5 DEF Types
<1>4. InTurn /\ RequestsKept
  <2>1. \A c \in Caller : DOMAIN ran[c] = {}
    BY <1>2
  <2>2. DOMAIN asked = {}
    BY <1>1
  <2>. QED  BY <1>2, <2>1, <2>2 DEF InTurn, RequestsKept, NoRequest, At
<1>5. Locked
  <2>1. PICK t : t = <<>>
    OBVIOUS
  <2>2. ReadingIn(t) = {} /\ WritingIn(t) = {}
    BY <2>1 DEF ReadingIn, WritingIn
  <2>3. \A c \in Caller : ReadingIn(doing[c]) = {} /\ WritingIn(doing[c]) = {}
    BY <1>2, <2>1, <2>2
  <2>. QED  BY <1>1, <1>2, <2>3, FS_EmptySet DEF Locked, CallerAssumption
<1>6. Numbered /\ Entering
  <2>1. \A c \in Caller : DOMAIN doing[c] = {}
    BY <1>2
  <2>. QED  BY <1>1, <2>1 DEF Numbered, Entering
<1>7. FoundIsThere
  BY <1>2 DEF FoundIsThere, At
<1>. QED  BY <1>3, <1>4, <1>5, <1>6, <1>7 DEF IInv

LEMMA NextInvariant ==
  ASSUME CallerAssumption, IInv, [TableNext]_tableVars
  PROVE  IInv'
<1>1. CASE UNCHANGED tableVars
  <2>1. /\ present' = present /\ rdholds' = rdholds /\ wrholder' = wrholder /\ doing' = doing
        /\ async_apply' = async_apply /\ asked' = asked /\ ran' = ran
        /\ overwritten' = overwritten /\ unseen' = unseen
        /\ calls' = calls /\ entered' = entered /\ entangled' = entangled
    BY <1>1 DEF tableVars, theLock, requests
  <2>2. Types' = Types /\ InTurn' = InTurn /\ RequestsKept' = RequestsKept
    BY <2>1 DEF Types, InTurn, RequestsKept, At, Busy, Innermost, Steps
  <2>3. Locked' = Locked /\ Numbered' = Numbered
    BY <2>1 DEF Locked, Numbered
  <2>4. Entering' = Entering /\ FoundIsThere' = FoundIsThere
    BY <2>1 DEF Entering, FoundIsThere, At, Busy, Innermost
  <2>. QED  BY <2>1, <2>2, <2>3, <2>4 DEF IInv
<1>2. CASE TableNext
  <2>1. ~entangled
    BY <1>2 DEF TableNext
  <2>2. PICK c \in Caller :
          \/ TableStep(c)
          \/ \E op \in TableCall : BeginCall(c, op)
          \/ c \in Signalled /\ \E procedure \in Procedure : Request(c, procedure)
    BY <1>2 DEF TableNext
  <2>3. CASE LockTable(c)
    BY <2>1, <2>3, LockKeeps
  <2>4. CASE SearchChain(c)
    BY <2>1, <2>4, SearchKeeps
  <2>5. CASE Use(c)
    BY <2>1, <2>5, UseKeeps
  <2>6. CASE UnlockTable(c)
    BY <2>1, <2>6, UnlockKeeps
  <2>7. CASE Check(c)
    BY <2>1, <2>7, CheckKeepsAll
  <2>8. CASE Clear(c)
    BY <2>1, <2>8, ClearKeepsAll
  <2>9. CASE Return(c)
    BY <2>1, <2>9, ReturnKeeps
  <2>10. CASE Throw(c)
    BY <2>1, <2>10, ThrowKeeps
  <2>11. CASE \E op \in TableCall : BeginCall(c, op)
    BY <2>1, <2>11, BeginKeeps
  <2>12. CASE \E procedure \in Procedure : Request(c, procedure)
    BY <2>1, <2>12, RequestKeepsAll
  <2>. QED  BY <2>2, <2>3, <2>4, <2>5, <2>6, <2>7, <2>8, <2>9, <2>10, <2>11, <2>12 DEF TableStep
<1>. QED  BY <1>1, <1>2

\* The invariant says what TableShared does.
LEMMA InvariantShares ==
  ASSUME IInv
  PROVE  TableShared
<1>1. SetOnce
  <2>. SUFFICES ASSUME ~entangled, NEW c \in Caller, NEW step \in Steps(c),
                       step.at = "lock", step.op = "enter"
                PROVE  step.after \intersect entered = {}
    BY DEF SetOnce
  <2>1. PICK i \in DOMAIN doing[c] : doing[c][i] = step
    BY DEF Steps, ToSet
  <2>2. IsCall(step) /\ Missed(step)
    BY DEF IsCall, Missed
  <2>. QED  BY <2>1, <2>2 DEF IInv, Entering
<1>2. HeldByCalls
  <2>. SUFFICES ASSUME ~entangled, NEW c \in Caller
                PROVE  LET holding == {i \in DOMAIN doing[c] :
                                         doing[c][i].at \in {"search", "use", "unlock"}}
                           writing == {i \in holding : ~OnlyReads(doing[c][i].op)}
                       IN  /\ rdholds[c] = Cardinality(holding \ writing)
                           /\ (wrholder = c) = (writing # {})
    BY Zenon DEF HeldByCalls
  <2>. DEFINE holding == {i \in DOMAIN doing[c] : doing[c][i].at \in {"search", "use", "unlock"}}
              writing == {i \in holding : ~OnlyReads(doing[c][i].op)}
  <2>1. holding \ writing = ReadingIn(doing[c]) /\ writing = WritingIn(doing[c])
    BY DEF ReadingIn, WritingIn, Reads, Writes
  <2>2. rdholds[c] = Cardinality(ReadingIn(doing[c])) /\ (wrholder = c <=> WritingIn(doing[c]) # {})
    BY DEF IInv, Locked
  <2>3. (wrholder = c) = (writing # {})
    BY <2>1, <2>2, Zenon
  <2>4. rdholds[c] = Cardinality(holding \ writing)
    BY <2>1, <2>2
  <2>. QED  BY <2>3, <2>4
<1>3. FoundIsThere
  BY DEF IInv, FoundIsThere
<1>. QED  BY <1>1, <1>2, <1>3 DEF IInv, TableShared

\* In every state of every behaviour, for any threads: see IInv.
THEOREM Invariant ==
  ASSUME CallerAssumption
  PROVE  TableSpec => []IInv
<1>1. TableInit => IInv
  BY InitInvariant
<1>2. IInv /\ [TableNext]_tableVars => IInv'
  BY NextInvariant
<1>. QED  BY <1>1, <1>2, PTL DEF TableSpec

\* While the lock can be released: what a search of the table has found or not is
\* so when it is used; no call of set_if_not_exists sets the key that another, which
\* was over when it began, has set; the lock is held by those who are in a call
\* that has taken it, as often as they are.  And every request is applied at most
\* once, in turn, or vanishes as the slot lets it (src/src/hash.c,
\* dfsch_async_apply_self in src/src/dfsch.c).
THEOREM TableStaysShared ==
  ASSUME CallerAssumption
  PROVE  TableSpec => []TableShared
BY Invariant, InvariantShares, PTL

-----------------------------------------------------------------------------
(* The parasites of objects: their inductive invariant.                    *)

Chains == {Chain[Address[o]] : o \in Object}
ChainAt(o) == Chain[Address[o]]
Hashes ==
  [mask : Int, count : Int, names : SUBSET Parasite, before : SUBSET (Parasite \X Parasite)]
WeakEntry ==
  [key : {Address[o] : o \in Object}, of : Object, live : BOOLEAN, value : Hashes]

WeakTypes ==
  /\ alive \subseteq Object
  /\ buckets \in [Chains -> Seq(WeakEntry)]
  /\ attaching \in [Worker -> {<<>>} \union (Object \X Parasite)]
  /\ attached \in [Object -> SUBSET Parasite]
  /\ expected \in [Object -> SUBSET Parasite]
  /\ astray \subseteq alive

\* Objects that exist are told apart by their addresses.
AddressesApart == \A o, p \in alive : Address[o] = Address[p] => o = p

\* The names in a hash, those given to its object and those of them that are still
\* expected in it, for an object that has lost hashes or has not.
Right(names, given, kept, lost) ==
  /\ names \subseteq given /\ names \subseteq kept \union Misplaced
  /\ ~lost => kept \subseteq names

\* An entry is in the chain of its object, and if it is live has its names.
EntryRight(e, b, given, kept, lost) ==
  /\ e.key = Address[e.of] /\ ChainAt(e.of) = b
  /\ e.live => /\ e.of \in alive
               /\ Right(e.value.names, given[e.of], kept[e.of], e.of \in lost)
Single(chain) ==
  \A i, j \in DOMAIN chain : chain[i].live /\ chain[j].live /\ chain[i].of = chain[j].of => i = j
ChainsRight ==
  \A b \in Chains :
    /\ Single(buckets[b])
    /\ \A i \in DOMAIN buckets[b] : EntryRight(buckets[b][i], b, attached, expected, astray)

Entered(chain, o) == \E i \in DOMAIN chain : chain[i].live /\ chain[i].of = o

\* An object that parasites are expected of has an entry, unless it has lost them;
\* one that does not exist has none, and nobody attaches any to it.
ParasitesEntered ==
  /\ \A o \in alive : o \notin astray /\ ~Entered(buckets[ChainAt(o)], o) => expected[o] = {}
  /\ \A o \in Object \ alive : attached[o] = {} /\ expected[o] = {}
  /\ \A t \in Worker : attaching[t] # <<>> => attaching[t][1] \in alive

WeakInv == WeakTypes /\ AddressesApart /\ ChainsRight /\ ParasitesEntered

-----------------------------------------------------------------------------
(* The hash of an object.                                                  *)

LEMMA ResizedIs ==
  ASSUME NEW t \in Hashes, NEW mask \in Int
  PROVE  Resized(t, mask) \in Hashes /\ Resized(t, mask).names = t.names
<1>1. PICK before \in SUBSET (Parasite \X Parasite) :
        Resized(t, mask) = [t EXCEPT !.mask = mask, !.before = before]
  <2>1. \E before \in SUBSET (t.names \X t.names) :
          Resized(t, mask) = [t EXCEPT !.mask = mask, !.before = before]
    BY DEF Resized
  <2>2. SUBSET (t.names \X t.names) \subseteq SUBSET (Parasite \X Parasite)
    BY DEF Hashes
  <2>. QED  BY <2>1, <2>2
<1>2. [t EXCEPT !.mask = mask, !.before = before] \in Hashes
      /\ [t EXCEPT !.mask = mask, !.before = before].names = t.names
  BY DEF Hashes
<1>. QED  BY <1>1, <1>2

LEMMA WithNameIs ==
  ASSUME NEW t \in Hashes, NEW n \in Parasite
  PROVE  WithName(t, n) \in Hashes /\ WithName(t, n).names = t.names \union {n}
<1>1. t.mask \in Int /\ t.count \in Int /\ t.names \in SUBSET Parasite
      /\ t.before \in SUBSET (Parasite \X Parasite)
  BY DEF Hashes
<1>2. PICK counted \in Hashes : counted = [t EXCEPT !.count = @ + 1] /\ counted.names = t.names
  <2>1. PICK count \in Int : count = t.count + 1
    BY <1>1
  <2>2. [t EXCEPT !.count = count] \in Hashes /\ [t EXCEPT !.count = count].names = t.names
    BY DEF Hashes
  <2>. QED  BY <2>1, <2>2
<1>3. (t.mask + 1) * 2 - 1 \in Int
  BY <1>1
<1>4. PICK sized \in Hashes :
        /\ sized = IF counted.count > t.mask + 1 THEN Resized(counted, (t.mask + 1) * 2 - 1)
                   ELSE counted
        /\ sized.names = t.names
  BY <1>2, <1>3, ResizedIs
<1>5. PICK names \in SUBSET Parasite, before \in SUBSET (Parasite \X Parasite) :
        names = t.names \union {n} /\ before = sized.before \union {<<n, m>> : m \in t.names}
  <2>1. t.names \union {n} \in SUBSET Parasite
        /\ {<<n, m>> : m \in t.names} \in SUBSET (Parasite \X Parasite)
    BY <1>1
  <2>2. sized.before \in SUBSET (Parasite \X Parasite)
    BY DEF Hashes
  <2>. QED  BY <2>1, <2>2
<1>6. n \notin t.names => WithName(t, n) = [sized EXCEPT !.names = names, !.before = before]
  BY <1>2, <1>4, <1>5 DEF WithName
<1>7. n \in t.names => WithName(t, n) = t /\ t.names = t.names \union {n}
  BY DEF WithName
<1>8. [sized EXCEPT !.names = names, !.before = before] \in Hashes
      /\ [sized EXCEPT !.names = names, !.before = before].names = names
  BY DEF Hashes
<1>. QED  BY <1>5, <1>6, <1>7, <1>8

LEMMA NoNamesIs == NoNames \in Hashes /\ NoNames.names = {}
BY HashAssumption DEF NoNames, Hashes

\* A name whose two hashes are the same is taken out, and nothing that is not there.
LEMMA TakenOutIs ==
  ASSUME NEW t, NEW n \in Parasite
  PROVE  /\ TakenOut(t, n) \subseteq t.names
         /\ n \in t.names => n \in TakenOut(t, n) \union Misplaced
<1>. DEFINE chain == {m \in t.names : Place(HASH[m], t) = Place(dfsch_hash[n], t)}
<1>1. TakenOut(t, n) = IF n \notin chain THEN {}
                       ELSE IF \E m \in chain : <<m, n>> \in t.before THEN {n} ELSE chain
  BY DEF TakenOut
<1>2. n \in t.names => n \in chain \union Misplaced
  BY DEF Misplaced
<1>. QED  BY <1>1, <1>2

LEMMA WithoutNameIs ==
  ASSUME NEW t \in Hashes, NEW n \in Parasite
  PROVE  WithoutName(t, n) \in Hashes /\ WithoutName(t, n).names = t.names \ TakenOut(t, n)
<1>1. t.mask \in Int /\ t.count \in Int /\ t.names \in SUBSET Parasite
      /\ t.before \in SUBSET (Parasite \X Parasite)
  BY DEF Hashes
<1>2. PICK gone \in SUBSET Parasite : gone = TakenOut(t, n)
  BY <1>1, TakenOutIs
<1>3. PICK left \in Hashes :
        /\ left = [t EXCEPT !.count = @ - 1, !.names = @ \ gone,
                            !.before = {p \in @ : {p[1], p[2]} \cap gone = {}}]
        /\ left.names = t.names \ gone
  <2>1. PICK count \in Int, names \in SUBSET Parasite, before \in SUBSET (Parasite \X Parasite) :
          /\ count = t.count - 1 /\ names = t.names \ gone
          /\ before = {p \in t.before : {p[1], p[2]} \cap gone = {}}
    <3>1. t.count - 1 \in Int /\ t.names \ gone \in SUBSET Parasite
      BY <1>1
    <3>2. {p \in t.before : {p[1], p[2]} \cap gone = {}} \in SUBSET (Parasite \X Parasite)
      BY <1>1
    <3>. QED  BY <3>1, <3>2
  <2>2. [t EXCEPT !.count = count, !.names = names, !.before = before] \in Hashes
        /\ [t EXCEPT !.count = count, !.names = names, !.before = before].names = names
    BY DEF Hashes
  <2>. QED  BY <2>1, <2>2
<1>4. ((t.mask + 1) \div 2) - 1 \in Int
  BY <1>1
<1>5. \/ gone = {} /\ WithoutName(t, n) = t
      \/ WithoutName(t, n) = left
      \/ WithoutName(t, n) = Resized(left, ((t.mask + 1) \div 2) - 1)
  BY <1>2, <1>3 DEF WithoutName
<1>. QED  BY <1>2, <1>3, <1>4, <1>5, ResizedIs

-----------------------------------------------------------------------------
(* find_entry.                                                             *)

\* A set of indices has a first and a last element.
LEMMA FirstAndLast ==
  ASSUME NEW n \in Nat, NEW set \in SUBSET (1..n), set # {}
  PROVE  /\ \E i \in set : \A j \in set : i <= j
         /\ \E i \in set : \A j \in set : j <= i
<1>1. OpToRel(<, Nat) = {ss \in Nat \X Nat : ss[1] < ss[2]}
  BY DEF OpToRel
<1>2. ASSUME NEW some \in SUBSET Nat, some # {}
      PROVE  \E i \in some : \A j \in some : i <= j
  <2>1. PICK k \in some : \A j \in some : ~(<<j, k>> \in OpToRel(<, Nat))
    BY <1>2, NatLessThanWellFounded, WFMin, Zenon
  <2>2. SUFFICES ASSUME NEW j \in some, ~(k <= j)  PROVE FALSE
    BY <2>1
  <2>3. <<j, k>> \in {ss \in Nat \X Nat : ss[1] < ss[2]}
    BY <2>2
  <2>. QED  BY <1>1, <2>1, <2>3
<1>3. \E i \in set : \A j \in set : i <= j
  BY <1>2
<1>4. \E i \in set : \A j \in set : j <= i
  <2>. DEFINE back == {n - i : i \in set}
  <2>1. back \in SUBSET Nat /\ back # {}
    <3>1. \A i \in set : i \in 1..n /\ n - i \in Nat
      OBVIOUS
    <3>2. PICK i \in set : TRUE
      OBVIOUS
    <3>3. n - i \in back
      OBVIOUS
    <3>. QED  BY <3>1, <3>3
  <2>2. PICK k \in back : \A j \in back : k <= j
    BY <1>2, <2>1
  <2>3. PICK i \in set : k = n - i
    BY <2>2
  <2>4. ASSUME NEW j \in set  PROVE j <= i
    <3>1. n - i <= n - j
      BY <2>2, <2>3
    <3>. QED  BY <3>1
  <2>. QED  BY <2>4
<1>. QED  BY <1>3, <1>4

\* What is left of a chain are live entries of it, in places of their own.
Within(chain, all) ==
  \E at \in [1..Len(chain) -> 1..Len(all)] :
    /\ \A i \in 1..Len(chain) : chain[i] = all[at[i]] /\ chain[i].live
    /\ \A i, j \in 1..Len(chain) : at[i] = at[j] => i = j

LEMMA WithoutDeadIs ==
  ASSUME NEW chain \in Seq(WeakEntry)
  PROVE  WithoutDead(chain) \in Seq(WeakEntry) /\ Within(WithoutDead(chain), chain)
<1>. DEFINE first == {i \in DOMAIN chain : chain[i].live}
            left == WithoutDead(chain)
<1>1. PICK n \in Nat : n = Len(chain) /\ DOMAIN chain = 1..n
  OBVIOUS
<1>2. /\ first \in SUBSET (1..n) /\ Dead(chain) \in SUBSET (1..n)
      /\ \A i \in 1..n : i \notin Dead(chain) => chain[i].live
  BY <1>1 DEF Dead
<1>3. CASE first = {}
  <2>1. left = <<>>
    BY <1>3 DEF WithoutDead
  <2>2. left \in Seq(WeakEntry) /\ Len(left) = 0
    BY <2>1
  <2>3. [i \in 1..0 |-> 1] \in [1..Len(left) -> 1..n] /\ \A i \in 1..Len(left) : FALSE
    BY <2>2
  <2>. QED  BY <1>1, <2>2, <2>3 DEF Within
<1>4. CASE first # {}
  <2>1. PICK from \in first : /\ \A j \in first : from <= j
                              /\ from = CHOOSE i \in first : \A j \in first : i <= j
    BY <1>2, <1>4, FirstAndLast
  <2>2. CASE \A i \in Dead(chain) : i < from
    <3>1. left = SubSeq(chain, from, n)
      BY <1>1, <1>4, <2>1, <2>2 DEF WithoutDead
    <3>2. /\ left \in Seq(WeakEntry) /\ Len(left) = n - from + 1
          /\ \A i \in 1..(n - from + 1) : left[i] = chain[from + i - 1]
      BY <1>1, <2>1, <3>1
    <3>. DEFINE at == [i \in 1..Len(left) |-> from + i - 1]
    <3>. HIDE DEF left
    <3>6. from \in 1..n
      BY <1>2, <2>1
    <3>3. ASSUME NEW i \in 1..Len(left)  PROVE at[i] \in 1..n /\ at[i] >= from
      BY <3>2, <3>6
    <3>4. ASSUME NEW i \in 1..Len(left)  PROVE left[i] = chain[at[i]] /\ left[i].live
      <4>1. left[i] = chain[at[i]]
        BY <3>2, <3>6
      <4>2. at[i] \notin Dead(chain)
        <5>1. \A d \in Dead(chain) : d \in 1..n /\ d < from
          BY <1>2, <2>2
        <5>. QED  BY <3>3, <3>6, <5>1
      <4>. QED  BY <1>2, <3>3, <4>1, <4>2
    <3>5. \A i, j \in 1..Len(left) : at[i] = at[j] => i = j
      BY <3>2, <3>6
    <3>. QED  BY <1>1, <3>2, <3>3, <3>4, <3>5 DEF Within, left
  <2>3. CASE ~ \A i \in Dead(chain) : i < from
    <3>1. PICK last \in Dead(chain) :
            /\ \A j \in Dead(chain) : j <= last
            /\ last = CHOOSE i \in Dead(chain) : \A j \in Dead(chain) : j <= i
      BY <1>2, <2>3, FirstAndLast
    <3>2. left = <<chain[from]>> \o SubSeq(chain, last + 1, n)
      BY <1>1, <1>4, <2>1, <2>3, <3>1 DEF WithoutDead
    <3>3. from \in 1..n /\ last \in 1..n /\ from <= last /\ chain[from] \in WeakEntry
      BY <1>1, <1>2, <2>1, <2>3, <3>1
    <3>4. /\ SubSeq(chain, last + 1, n) \in Seq(WeakEntry)
          /\ Len(SubSeq(chain, last + 1, n)) = n - last
          /\ \A i \in 1..(n - last) : SubSeq(chain, last + 1, n)[i] = chain[last + i]
      BY <1>1, <3>3
    <3>5. /\ left \in Seq(WeakEntry) /\ Len(left) = n - last + 1 /\ left[1] = chain[from]
          /\ \A i \in 2..(n - last + 1) : left[i] = chain[last + i - 1]
      <4>1. PICK rest \in Seq(WeakEntry) : rest = SubSeq(chain, last + 1, n)
        BY <3>4
      <4>2. left = <<chain[from]>> \o rest /\ Len(rest) = n - last
        BY <3>2, <3>4, <4>1
      <4>3. left \in Seq(WeakEntry) /\ Len(left) = n - last + 1 /\ left[1] = chain[from]
        <5>1. PICK e \in WeakEntry : e = chain[from]
          BY <3>3
        <5>2. <<e>> \o rest \in Seq(WeakEntry) /\ Len(<<e>> \o rest) = Len(rest) + 1
              /\ (<<e>> \o rest)[1] = e
          OBVIOUS
        <5>. QED  BY <3>3, <4>2, <5>1, <5>2
      <4>4. ASSUME NEW i \in 2..(n - last + 1)  PROVE left[i] = chain[last + i - 1]
        <5>1. left[i] = rest[i - 1]
          BY <3>3, <4>2
        <5>. QED  BY <3>3, <3>4, <4>1, <5>1
      <4>. QED  BY <4>3, <4>4
    <3>. DEFINE at == [i \in 1..Len(left) |-> IF i = 1 THEN from ELSE last + i - 1]
    <3>. HIDE DEF left
    <3>6. at \in [1..Len(left) -> 1..n]
      BY <3>3, <3>5
    <3>7. ASSUME NEW i \in 1..Len(left)  PROVE left[i] = chain[at[i]] /\ left[i].live
      <4>1. CASE i = 1
        BY <2>1, <3>5, <4>1
      <4>2. CASE i # 1
        <5>1. i \in 2..(n - last + 1) /\ last + i - 1 \in 1..n /\ last + i - 1 > last
          BY <3>3, <3>5, <4>2
        <5>2. last + i - 1 \notin Dead(chain)
          <6>1. \A d \in Dead(chain) : d \in 1..n /\ d <= last
            BY <1>2, <3>1
          <6>. QED  BY <3>3, <5>1, <6>1
        <5>. QED  BY <1>2, <3>5, <4>2, <5>1, <5>2
      <4>. QED  BY <4>1, <4>2
    <3>8. \A i, j \in 1..Len(left) : at[i] = at[j] => i = j
      BY <3>3, <3>5
    <3>. QED  BY <1>1, <3>5, <3>6, <3>7, <3>8 DEF Within, left
  <2>. QED  BY <2>2, <2>3
<1>. QED  BY <1>3, <1>4

\* An object is found by its one live entry.
LEMMA FoundIs ==
  ASSUME WeakInv, NEW o \in alive
  PROVE  /\ Finds(o) <=> Entered(ChainOf(o), o)
         /\ \A i \in DOMAIN ChainOf(o) :
              /\ ChainOf(o)[i].key = Address[o] /\ ChainOf(o)[i].live => ChainOf(o)[i].of = o
              /\ ChainOf(o)[i].of = o => ChainOf(o)[i].key = Address[o]
              /\ ChainOf(o)[i].live /\ ChainOf(o)[i].of = o =>
                   /\ Finds(o) /\ HashOf(o) = ChainOf(o)[i].value
                   /\ Parasites(o) = HashOf(o).names
<1>1. PICK chain \in Seq(WeakEntry) : chain = ChainOf(o) /\ chain = buckets[ChainAt(o)]
  <2>1. ChainAt(o) \in Chains /\ o \in Object
    BY DEF WeakInv, WeakTypes, Chains, ChainAt
  <2>. QED  BY <2>1 DEF WeakInv, WeakTypes, ChainOf, ChainAt
<1>2. /\ Single(chain)
      /\ \A i \in DOMAIN chain : EntryRight(chain[i], ChainAt(o), attached, expected, astray)
  <2>1. ChainAt(o) \in Chains
    BY DEF WeakInv, WeakTypes, Chains, ChainAt
  <2>. QED  BY <1>1, <2>1 DEF WeakInv, ChainsRight
<1>3. \A i \in DOMAIN chain :
        /\ chain[i].key = Address[o] /\ chain[i].live => chain[i].of = o
        /\ chain[i].of = o => chain[i].key = Address[o]
  BY <1>2 DEF EntryRight, WeakInv, AddressesApart
<1>4. Passed(o) = {i \in DOMAIN chain : chain[i].live /\ chain[i].of = o}
  BY <1>1, <1>3 DEF Passed
<1>5. Finds(o) <=> Entered(chain, o)
  BY <1>4 DEF Finds, Entered
<1>6. ASSUME NEW i \in DOMAIN chain, chain[i].live, chain[i].of = o
      PROVE  Finds(o) /\ HashOf(o) = chain[i].value /\ Parasites(o) = HashOf(o).names
  <2>1. Passed(o) = {i}
    BY <1>2, <1>4, <1>6 DEF Single
  <2>2. i <= i
    <3>1. i \in Nat
      OBVIOUS
    <3>. QED  BY <3>1
  <2>3. LastPassed(o) = i
    BY <2>1, <2>2 DEF LastPassed
  <2>. QED  BY <1>1, <2>1, <2>3 DEF Finds, Parasites, HashOf
<1>. QED  BY <1>1, <1>3, <1>5, <1>6

\* The chain after find_entry.
LEMMA SearchedIs ==
  ASSUME WeakInv, NEW o \in alive
  PROVE  \E left \in Seq(WeakEntry) :
           /\ left = WithoutDead(ChainOf(o))
           /\ \A i \in DOMAIN left :
                left[i].live /\ EntryRight(left[i], ChainAt(o), attached, expected, astray)
           /\ Single(left)
           /\ \A i \in DOMAIN left :
                /\ left[i].key = Address[o] <=> left[i].of = o
                /\ left[i].of = o => Finds(o) /\ HashOf(o) = left[i].value
           /\ \A p \in Object : Entered(ChainOf(o), p) /\ p \notin Unlinked(o) => Entered(left, p)
           /\ Unlinked(o) \subseteq alive
<1>1. PICK chain \in Seq(WeakEntry) :
        /\ chain = ChainOf(o) /\ Single(chain)
        /\ \A i \in DOMAIN chain : EntryRight(chain[i], ChainAt(o), attached, expected, astray)
  <2>1. ChainAt(o) \in Chains /\ ChainOf(o) = buckets[ChainAt(o)]
    BY DEF WeakInv, WeakTypes, Chains, ChainAt, ChainOf
  <2>2. buckets[ChainAt(o)] \in Seq(WeakEntry)
    BY <2>1 DEF WeakInv, WeakTypes
  <2>. QED  BY <2>1, <2>2 DEF WeakInv, ChainsRight
<1>2. PICK left \in Seq(WeakEntry) : left = WithoutDead(chain) /\ Within(left, chain)
  BY WithoutDeadIs
<1>3. PICK at \in [1..Len(left) -> 1..Len(chain)] :
        /\ \A i \in 1..Len(left) : left[i] = chain[at[i]] /\ left[i].live
        /\ \A i, j \in 1..Len(left) : at[i] = at[j] => i = j
  BY <1>2 DEF Within
<1>4. DOMAIN left = 1..Len(left) /\ DOMAIN chain = 1..Len(chain)
  OBVIOUS
<1>5. \A i \in DOMAIN left :
        left[i].live /\ EntryRight(left[i], ChainAt(o), attached, expected, astray)
  BY <1>1, <1>3, <1>4
<1>6. Single(left)
  <2>1. SUFFICES ASSUME NEW i \in 1..Len(left), NEW j \in 1..Len(left), left[i].of = left[j].of
                 PROVE  i = j
    BY <1>4 DEF Single
  <2>2. at[i] = at[j]
    BY <1>1, <1>3, <1>4, <2>1 DEF Single
  <2>. QED  BY <1>3, <2>2
<1>7. \A i \in DOMAIN left :
        /\ left[i].key = Address[o] <=> left[i].of = o
        /\ left[i].of = o => Finds(o) /\ HashOf(o) = left[i].value
  <2>1. SUFFICES ASSUME NEW i \in 1..Len(left)
                 PROVE  /\ left[i].key = Address[o] <=> left[i].of = o
                        /\ left[i].of = o => Finds(o) /\ HashOf(o) = left[i].value
    BY <1>4
  <2>2. at[i] \in DOMAIN chain /\ left[i] = chain[at[i]] /\ left[i].live
    BY <1>3, <1>4
  <2>. QED  BY <1>1, <2>2, FoundIs
<1>8. ASSUME NEW p \in Object, Entered(chain, p), p \notin Unlinked(o)  PROVE Entered(left, p)
  <2>1. PICK i \in DOMAIN chain : chain[i].live /\ chain[i].of = p
    BY <1>8 DEF Entered
  <2>2. chain[i] \in Range(chain)
    BY DEF Range
  <2>3. p \in {e.of : e \in {e \in Range(chain) : e.live}}
    BY <2>1, <2>2
  <2>4. p \in {e.of : e \in Range(left)}
    BY <1>1, <1>2, <1>8, <2>3 DEF Unlinked
  <2>5. PICK j \in DOMAIN left : left[j].of = p
    BY <2>4 DEF Range
  <2>. QED  BY <1>5, <2>5 DEF Entered
<1>9. Unlinked(o) \subseteq alive
  <2>1. SUFFICES ASSUME NEW p \in Unlinked(o)  PROVE p \in alive
    OBVIOUS
  <2>2. PICK e \in Range(chain) : e.live /\ e.of = p
    BY <1>1, <2>1 DEF Unlinked
  <2>3. PICK i \in DOMAIN chain : chain[i] = e
    BY <2>2 DEF Range
  <2>. QED  BY <1>1, <2>2, <2>3 DEF EntryRight
<1>. QED  BY <1>1, <1>2, <1>5, <1>6, <1>7, <1>8, <1>9

-----------------------------------------------------------------------------
(* What operations on an object have in common.                            *)

\* The chain of an object, after an operation that leaves it with given, of which
\* kept are expected.
Renewed(chain, o, given, kept, lost) ==
  /\ Single(chain)
  /\ \A i \in DOMAIN chain :
       /\ chain[i].live /\ chain[i].key = Address[chain[i].of]
       /\ ChainAt(chain[i].of) = ChainAt(o) /\ chain[i].of \in alive
       /\ chain[i].of = o => Right(chain[i].value.names, given, kept, o \in lost)
       /\ chain[i].of # o =>
            Right(chain[i].value.names, attached[chain[i].of], expected[chain[i].of],
                  chain[i].of \in astray)
  /\ o \notin lost /\ ~Entered(chain, o) => kept = {}

LEMMA OperationKeeps ==
  ASSUME WeakInv, NEW o \in alive, NEW chain \in Seq(WeakEntry), NEW given \in SUBSET Parasite,
         NEW kept \in SUBSET Parasite,
         buckets' = [buckets EXCEPT ![ChainAt(o)] = chain],
         attached' = [attached EXCEPT ![o] = given],
         expected' = [expected EXCEPT ![o] = kept], UNCHANGED alive,
         astray \subseteq astray', astray' \subseteq alive, Renewed(chain, o, given, kept, astray'),
         \A p \in alive \ {o} :
           Entered(ChainOf(o), p) /\ p \notin astray' => Entered(chain, p),
         attaching' \in [Worker -> {<<>>} \union (Object \X Parasite)],
         \A t \in Worker : attaching'[t] # <<>> => attaching'[t][1] \in alive
  PROVE  WeakInv'
<1>1. o \in Object /\ ChainAt(o) \in Chains /\ ChainOf(o) = buckets[ChainAt(o)]
  BY DEF WeakInv, WeakTypes, Chains, ChainAt, ChainOf
<1>2. WeakTypes'
  BY <1>1 DEF WeakInv, WeakTypes
<1>3. AddressesApart'
  BY DEF WeakInv, AddressesApart
<1>4. /\ \A p \in Object : attached'[p] = IF p = o THEN given ELSE attached[p]
      /\ \A p \in Object : expected'[p] = IF p = o THEN kept ELSE expected[p]
  BY <1>1 DEF WeakInv, WeakTypes
<1>5. \A b \in Chains : buckets'[b] = IF b = ChainAt(o) THEN chain ELSE buckets[b]
  BY <1>1 DEF WeakInv, WeakTypes
<1>6. ChainsRight'
  <2>1. SUFFICES ASSUME NEW b \in Chains
                 PROVE  /\ Single(buckets'[b])
                        /\ \A i \in DOMAIN buckets'[b] :
                             EntryRight(buckets'[b][i], b, attached', expected', astray')
    BY DEF ChainsRight, EntryRight, Single
  <2>2. CASE b = ChainAt(o)
    <3>1. ASSUME NEW i \in DOMAIN chain
          PROVE  EntryRight(chain[i], b, attached', expected', astray')
      <4>1. chain[i].of \in Object
        <5>1. PICK e \in WeakEntry : e = chain[i]
          OBVIOUS
        <5>. QED  BY <5>1 DEF WeakEntry
      <4>2. /\ chain[i].live /\ chain[i].key = Address[chain[i].of]
            /\ ChainAt(chain[i].of) = b /\ chain[i].of \in alive
        BY <2>2 DEF Renewed
      <4>3. CASE chain[i].of = o
        <5>1. /\ attached'[chain[i].of] = given /\ expected'[chain[i].of] = kept
          BY <1>4, <4>1, <4>3
        <5>2. Right(chain[i].value.names, given, kept, o \in astray')
          BY <4>3 DEF Renewed
        <5>3. Right(chain[i].value.names, attached'[chain[i].of], expected'[chain[i].of],
                    chain[i].of \in astray')
          BY <4>3, <5>1, <5>2 DEF Right
        <5>. QED  BY <4>2, <5>3 DEF EntryRight
      <4>4. CASE chain[i].of # o
        <5>1. /\ attached'[chain[i].of] = attached[chain[i].of]
              /\ expected'[chain[i].of] = expected[chain[i].of]
          BY <1>4, <4>1, <4>4
        <5>2. Right(chain[i].value.names, attached'[chain[i].of], expected'[chain[i].of],
                    chain[i].of \in astray)
          BY <4>4, <5>1 DEF Renewed
        <5>3. Right(chain[i].value.names, attached'[chain[i].of], expected'[chain[i].of],
                    chain[i].of \in astray')
          BY <5>2 DEF Right
        <5>. QED  BY <4>2, <5>3 DEF EntryRight
      <4>. QED  BY <4>3, <4>4
    <3>. QED  BY <1>5, <2>2, <3>1 DEF Renewed
  <2>3. CASE b # ChainAt(o)
    <3>1. Single(buckets[b]) /\ buckets[b] \in Seq(WeakEntry)
      BY DEF WeakInv, ChainsRight, WeakTypes
    <3>2. ASSUME NEW i \in DOMAIN buckets[b]
          PROVE  EntryRight(buckets[b][i], b, attached', expected', astray')
      <4>1. buckets[b][i].of \in Object
        <5>1. PICK e \in WeakEntry : e = buckets[b][i]
          BY <3>1
        <5>. QED  BY <5>1 DEF WeakEntry
      <4>2. EntryRight(buckets[b][i], b, attached, expected, astray)
        BY DEF WeakInv, ChainsRight
      <4>3. buckets[b][i].of # o
        BY <2>3, <4>2 DEF EntryRight
      <4>4. /\ attached'[buckets[b][i].of] = attached[buckets[b][i].of]
            /\ expected'[buckets[b][i].of] = expected[buckets[b][i].of]
        BY <1>4, <4>1, <4>3
      <4>5. buckets[b][i].live =>
              Right(buckets[b][i].value.names, attached[buckets[b][i].of],
                    expected[buckets[b][i].of], buckets[b][i].of \in astray')
        BY <4>2 DEF EntryRight, Right
      <4>. QED  BY <4>2, <4>4, <4>5 DEF EntryRight
    <3>. QED  BY <1>5, <2>3, <3>1, <3>2
  <2>. QED  BY <2>2, <2>3
<1>7. ParasitesEntered'
  <2>1. ASSUME NEW p \in alive, p \notin astray', ~Entered(buckets'[ChainAt(p)], p)
        PROVE  expected'[p] = {}
    <3>1. p \in Object /\ ChainAt(p) \in Chains
      BY DEF WeakInv, WeakTypes, Chains, ChainAt
    <3>2. CASE p = o
      BY <1>1, <1>4, <1>5, <2>1, <3>2 DEF Renewed
    <3>3. CASE p # o /\ ChainAt(p) = ChainAt(o)
      <4>1. ~Entered(buckets[ChainAt(p)], p)
        BY <1>1, <1>5, <2>1, <3>3
      <4>. QED  BY <1>4, <2>1, <3>1, <3>3, <4>1 DEF WeakInv, ParasitesEntered
    <3>4. CASE p # o /\ ChainAt(p) # ChainAt(o)
      <4>1. ~Entered(buckets[ChainAt(p)], p)
        BY <1>5, <2>1, <3>1, <3>4
      <4>. QED  BY <1>4, <2>1, <3>1, <3>4, <4>1 DEF WeakInv, ParasitesEntered
    <3>. QED  BY <3>2, <3>3, <3>4
  <2>2. \A p \in Object \ alive : attached'[p] = {} /\ expected'[p] = {}
    BY <1>4 DEF WeakInv, ParasitesEntered
  <2>. QED  BY <2>1, <2>2 DEF ParasitesEntered
<1>. QED  BY <1>2, <1>3, <1>6, <1>7 DEF WeakInv

\* An operation that only searches, or changes the hash of the object it finds.
LEMMA PutKeeps ==
  ASSUME WeakInv, NEW o \in alive, NEW t \in Hashes, NEW given \in SUBSET Parasite,
         NEW kept \in SUBSET Parasite,
         buckets' = [buckets EXCEPT ![ChainAt(o)] = Put(WithoutDead(ChainOf(o)), o, t)],
         attached' = [attached EXCEPT ![o] = given],
         expected' = [expected EXCEPT ![o] = kept], UNCHANGED alive,
         astray \union Unlinked(o) \subseteq astray', astray' \subseteq alive,
         Right(t.names, given, kept, o \in astray'),
         o \notin astray' /\ ~Finds(o) => kept = {},
         attaching' \in [Worker -> {<<>>} \union (Object \X Parasite)],
         \A w \in Worker : attaching'[w] # <<>> => attaching'[w][1] \in alive
  PROVE  WeakInv'
<1>1. PICK left \in Seq(WeakEntry) :
        /\ left = WithoutDead(ChainOf(o)) /\ Single(left)
        /\ \A i \in DOMAIN left :
             /\ left[i].live /\ EntryRight(left[i], ChainAt(o), attached, expected, astray)
             /\ left[i].key = Address[o] <=> left[i].of = o
        /\ \A p \in Object : Entered(ChainOf(o), p) /\ p \notin Unlinked(o) => Entered(left, p)
  BY SearchedIs
<1>. DEFINE chain == Put(left, o, t)
<1>2. /\ chain \in Seq(WeakEntry) /\ DOMAIN chain = DOMAIN left
      /\ \A i \in DOMAIN left :
           /\ chain[i].live = left[i].live /\ chain[i].key = left[i].key
           /\ chain[i].of = left[i].of
           /\ chain[i].value = IF left[i].of = o THEN t ELSE left[i].value
  <2>1. ASSUME NEW i \in DOMAIN left
        PROVE  /\ chain[i] \in WeakEntry
               /\ chain[i].live = left[i].live /\ chain[i].key = left[i].key
               /\ chain[i].of = left[i].of
               /\ chain[i].value = IF left[i].of = o THEN t ELSE left[i].value
    <3>1. PICK e \in WeakEntry : e = left[i]
      OBVIOUS
    <3>2. chain[i] = IF e.key = Address[o] THEN [e EXCEPT !.value = t] ELSE e
      BY <3>1 DEF Put
    <3>3. /\ [e EXCEPT !.value = t] \in WeakEntry
          /\ [e EXCEPT !.value = t].live = e.live /\ [e EXCEPT !.value = t].key = e.key
          /\ [e EXCEPT !.value = t].of = e.of /\ [e EXCEPT !.value = t].value = t
      BY DEF WeakEntry
    <3>. QED  BY <1>1, <3>1, <3>2, <3>3
  <2>2. DOMAIN chain = DOMAIN left /\ DOMAIN left = 1..Len(left) /\ Len(left) \in Nat
    BY DEF Put
  <2>3. chain = [i \in 1..Len(left) |-> chain[i]]
    BY <2>2 DEF Put
  <2>4. chain \in Seq(WeakEntry)
    BY <2>1, <2>2, <2>3
  <2>. QED  BY <2>1, <2>2, <2>4
<1>. HIDE DEF chain
<1>3. \A p : Entered(left, p) <=> Entered(chain, p)
  BY <1>2 DEF Entered
<1>4. \A p \in Object : Entered(ChainOf(o), p) /\ p \notin astray' => Entered(chain, p)
  BY <1>1, <1>3
<1>5. Renewed(chain, o, given, kept, astray')
  <2>1. Single(chain)
    BY <1>1, <1>2 DEF Single
  <2>2. o \notin astray' /\ ~Entered(chain, o) => kept = {}
    BY <1>4, FoundIs DEF WeakInv, WeakTypes
  <2>3. ASSUME NEW i \in DOMAIN chain
        PROVE  /\ chain[i].live /\ chain[i].key = Address[chain[i].of]
               /\ ChainAt(chain[i].of) = ChainAt(o) /\ chain[i].of \in alive
               /\ chain[i].of = o => Right(chain[i].value.names, given, kept, o \in astray')
               /\ chain[i].of # o =>
                    Right(chain[i].value.names, attached[chain[i].of], expected[chain[i].of],
                          chain[i].of \in astray)
    BY <1>1, <1>2 DEF EntryRight
  <2>. QED  BY <2>1, <2>2, <2>3 DEF Renewed
<1>6. alive \subseteq Object
  BY DEF WeakInv, WeakTypes
<1>7. buckets' = [buckets EXCEPT ![ChainAt(o)] = chain]
  BY <1>1 DEF chain
<1>. QED  BY <1>2, <1>4, <1>5, <1>6, <1>7, OperationKeeps

\* An operation that only searches.
LEMMA LookupKeeps ==
  ASSUME WeakInv, NEW o \in alive,
         buckets' = [buckets EXCEPT ![ChainAt(o)] = WithoutDead(ChainOf(o))],
         UNCHANGED <<attached, expected, alive>>, astray' = astray \union Unlinked(o),
         attaching' \in [Worker -> {<<>>} \union (Object \X Parasite)],
         \A t \in Worker : attaching'[t] # <<>> => attaching'[t][1] \in alive
  PROVE  WeakInv'
<1>1. PICK left \in Seq(WeakEntry) :
        /\ left = WithoutDead(ChainOf(o)) /\ Single(left)
        /\ \A i \in DOMAIN left :
             left[i].live /\ EntryRight(left[i], ChainAt(o), attached, expected, astray)
        /\ \A p \in Object : Entered(ChainOf(o), p) /\ p \notin Unlinked(o) => Entered(left, p)
        /\ Unlinked(o) \subseteq alive
  BY SearchedIs
<1>2. o \in Object /\ attached[o] \in SUBSET Parasite /\ expected[o] \in SUBSET Parasite
      /\ ChainOf(o) = buckets[ChainAt(o)] /\ alive \subseteq Object
      /\ attached' = [attached EXCEPT ![o] = attached[o]]
      /\ expected' = [expected EXCEPT ![o] = expected[o]]
      /\ astray \subseteq alive
  BY DEF WeakInv, WeakTypes, ChainOf, ChainAt
<1>3. o \notin astray' /\ ~Entered(left, o) => expected[o] = {}
  BY <1>1, <1>2 DEF WeakInv, ParasitesEntered
<1>4. Renewed(left, o, attached[o], expected[o], astray')
  <2>1. ASSUME NEW i \in DOMAIN left, left[i].of = o
        PROVE  Right(left[i].value.names, attached[o], expected[o], o \in astray')
    BY <1>1, <2>1 DEF EntryRight, Right
  <2>. QED  BY <1>1, <1>3, <2>1 DEF Renewed, EntryRight
<1>5. \A p \in alive \ {o} : Entered(ChainOf(o), p) /\ p \notin astray' => Entered(left, p)
  BY <1>1, <1>2
<1>. QED  BY <1>1, <1>2, <1>4, <1>5, OperationKeeps

-----------------------------------------------------------------------------
(* The steps.                                                              *)

LEMMA WeakInitInv == WeakInit => WeakInv
<1>1. SUFFICES ASSUME WeakInit  PROVE WeakInv
  OBVIOUS
<1>2. WeakTypes
  BY <1>1 DEF WeakInit, WeakTypes, Chains
<1>3. AddressesApart /\ ParasitesEntered
  BY <1>1 DEF WeakInit, AddressesApart, ParasitesEntered
<1>4. ChainsRight
  BY <1>1 DEF WeakInit, ChainsRight, Chains, Single
<1>. QED  BY <1>2, <1>3, <1>4 DEF WeakInv

\* The table after a search and what is done to the chain.
LEMMA TableIs ==
  ASSUME WeakInv, NEW o \in alive
  PROVE  /\ ChainAt(o) \in Chains /\ o \in Object
         /\ Searched(o) = [buckets EXCEPT ![ChainAt(o)] = WithoutDead(ChainOf(o))]
         /\ Searched(o)[ChainAt(o)] = WithoutDead(ChainOf(o))
         /\ \A chain : [Searched(o) EXCEPT ![ChainAt(o)] = chain]
                         = [buckets EXCEPT ![ChainAt(o)] = chain]
         /\ attached[o] \in SUBSET Parasite /\ expected[o] \in SUBSET Parasite
         /\ attached = [attached EXCEPT ![o] = attached[o]]
         /\ Unlinked(o) \subseteq alive /\ astray \subseteq alive
<1>1. ChainAt(o) \in Chains /\ o \in Object /\ buckets = [b \in Chains |-> buckets[b]]
      /\ DOMAIN buckets = Chains
      /\ attached[o] \in SUBSET Parasite /\ expected[o] \in SUBSET Parasite
      /\ attached = [attached EXCEPT ![o] = attached[o]]
      /\ astray \subseteq alive
  BY DEF WeakInv, WeakTypes, Chains, ChainAt
<1>2. Searched(o) = [buckets EXCEPT ![ChainAt(o)] = WithoutDead(ChainOf(o))]
  BY DEF Searched, ChainOf, ChainAt
<1>3. Searched(o)[ChainAt(o)] = WithoutDead(ChainOf(o))
  BY <1>1, <1>2
<1>4. \A chain : [Searched(o) EXCEPT ![ChainAt(o)] = chain]
                   = [buckets EXCEPT ![ChainAt(o)] = chain]
  BY <1>1, <1>2
<1>5. Unlinked(o) \subseteq alive
  BY SearchedIs
<1>. QED  BY <1>1, <1>2, <1>3, <1>4, <1>5

\* What is found is the hash of the object, with the names in it that should be.
LEMMA ParasitesRight ==
  ASSUME WeakInv, NEW o \in alive
  PROVE  /\ Right(Parasites(o), attached[o], expected[o], o \in astray)
         /\ Finds(o) => HashOf(o) \in Hashes /\ Parasites(o) = HashOf(o).names
<1>1. CASE ~Finds(o)
  <2>1. Parasites(o) = {} /\ ~Entered(buckets[ChainAt(o)], o)
    BY <1>1, FoundIs DEF Parasites, ChainOf, ChainAt
  <2>. QED  BY <1>1, <2>1 DEF WeakInv, ParasitesEntered, Right
<1>2. CASE Finds(o)
  <2>1. PICK i \in DOMAIN ChainOf(o) : ChainOf(o)[i].live /\ ChainOf(o)[i].of = o
    BY <1>2, FoundIs DEF Entered
  <2>2. HashOf(o) = ChainOf(o)[i].value /\ Parasites(o) = HashOf(o).names
    BY <2>1, FoundIs
  <2>3. EntryRight(ChainOf(o)[i], ChainAt(o), attached, expected, astray)
    BY <2>1, TableIs DEF WeakInv, ChainsRight, ChainOf, ChainAt
  <2>4. PICK chain \in Seq(WeakEntry) : chain = ChainOf(o)
    BY TableIs DEF WeakInv, WeakTypes, ChainOf, ChainAt
  <2>5. ChainOf(o)[i] \in WeakEntry
    BY <2>1, <2>4
  <2>6. HashOf(o) \in Hashes
    BY <2>2, <2>5 DEF WeakEntry
  <2>. QED  BY <2>1, <2>2, <2>3, <2>6 DEF EntryRight
<1>. QED  BY <1>1, <1>2

LEMMA AttachKeeps ==
  ASSUME WeakInv, NEW w \in Worker, NEW o \in alive, NEW n \in Parasite, Attach(w, o, n)
  PROVE  WeakInv'
<1>1. /\ attached' = [attached EXCEPT ![o] = attached[o] \union {n}]
      /\ expected' = [expected EXCEPT ![o] = expected[o] \union {n}]
      /\ astray' = astray \union Unlinked(o)
      /\ UNCHANGED <<alive, attaching>> /\ Finds(o)
  BY DEF Attach
<1>2. PICK t \in Hashes : t = WithName(HashOf(o), n) /\ t.names = Parasites(o) \union {n}
  BY <1>1, ParasitesRight, WithNameIs
<1>3. buckets' = [buckets EXCEPT ![ChainAt(o)] = Put(WithoutDead(ChainOf(o)), o, t)]
  <2>1. buckets' = [Searched(o) EXCEPT ![ChainAt(o)] = Put(Searched(o)[ChainAt(o)], o, t)]
    BY <1>2 DEF Attach, ChainAt
  <2>. QED  BY <2>1, TableIs
<1>4. PICK given \in SUBSET Parasite, kept \in SUBSET Parasite :
        given = attached[o] \union {n} /\ kept = expected[o] \union {n}
  BY TableIs
<1>5. Right(t.names, given, kept, o \in astray')
  BY <1>1, <1>2, <1>4, ParasitesRight DEF Right
<1>6. attaching \in [Worker -> {<<>>} \union (Object \X Parasite)]
      /\ \A u \in Worker : attaching[u] # <<>> => attaching[u][1] \in alive
  BY DEF WeakInv, WeakTypes, ParasitesEntered
<1>7. astray' \subseteq alive /\ astray \union Unlinked(o) \subseteq astray'
  BY <1>1, TableIs
<1>. QED  BY <1>1, <1>3, <1>4, <1>5, <1>6, <1>7, PutKeeps

LEMMA AttachFirstKeeps ==
  ASSUME WeakInv, NEW t \in Worker, NEW o \in alive, NEW n \in Parasite, AttachFirst(t, o, n)
  PROVE  WeakInv'
<1>1. buckets' = [buckets EXCEPT ![ChainAt(o)] = WithoutDead(ChainOf(o))]
  BY TableIs DEF AttachFirst
<1>2. UNCHANGED <<attached, expected, alive>> /\ astray' = astray \union Unlinked(o)
      /\ attaching' = [attaching EXCEPT ![t] = <<o, n>>]
  BY DEF AttachFirst
<1>3. attaching' \in [Worker -> {<<>>} \union (Object \X Parasite)]
      /\ \A u \in Worker : attaching'[u] # <<>> => attaching'[u][1] \in alive
  BY <1>2 DEF WeakInv, WeakTypes, ParasitesEntered
<1>. QED  BY <1>1, <1>2, <1>3, LookupKeeps

LEMMA DetachKeeps ==
  ASSUME WeakInv, NEW o \in alive, NEW n \in Parasite, Detach(o, n)
  PROVE  WeakInv'
<1>1. PICK gone : gone = {n} \union (IF Finds(o) THEN TakenOut(HashOf(o), n) ELSE {})
  OBVIOUS
<1>2. PICK kept \in SUBSET Parasite : kept = expected[o] \ gone
  BY TableIs
<1>3. attached' = [attached EXCEPT ![o] = attached[o]] /\ attached[o] \in SUBSET Parasite
      /\ expected' = [expected EXCEPT ![o] = kept]
      /\ astray' = astray \union Unlinked(o) /\ UNCHANGED <<alive, attaching>>
  BY <1>1, <1>2, TableIs DEF Detach
<1>4. attaching \in [Worker -> {<<>>} \union (Object \X Parasite)]
      /\ \A u \in Worker : attaching[u] # <<>> => attaching[u][1] \in alive
  BY DEF WeakInv, WeakTypes, ParasitesEntered
<1>5. astray' \subseteq alive /\ astray \union Unlinked(o) \subseteq astray'
  BY <1>3, TableIs
<1>6. CASE Finds(o)
  <2>1. PICK t \in Hashes :
          t = WithoutName(HashOf(o), n) /\ t.names = Parasites(o) \ TakenOut(HashOf(o), n)
    BY <1>6, ParasitesRight, WithoutNameIs
  <2>2. buckets' = [Searched(o) EXCEPT ![ChainAt(o)] = Put(Searched(o)[ChainAt(o)], o, t)]
    BY <1>6, <2>1 DEF Detach, ChainAt
  <2>3. buckets' = [buckets EXCEPT ![ChainAt(o)] = Put(WithoutDead(ChainOf(o)), o, t)]
    BY <2>2, TableIs
  <2>4. gone = {n} \union TakenOut(HashOf(o), n)
    BY <1>1, <1>6
  <2>5. Right(t.names, attached[o], kept, o \in astray')
    <3>1. n \in Parasites(o) => n \in TakenOut(HashOf(o), n) \union Misplaced
      BY <1>6, ParasitesRight, TakenOutIs
    <3>. QED  BY <1>2, <1>3, <2>1, <2>4, <3>1, ParasitesRight DEF Right
  <2>. QED  BY <1>2, <1>3, <1>4, <1>5, <1>6, <2>3, <2>5, PutKeeps
<1>7. CASE ~Finds(o)
  <2>1. buckets' = [Searched(o) EXCEPT ![ChainAt(o)] = Searched(o)[ChainAt(o)]]
    BY <1>7 DEF Detach, ChainAt
  <2>2. buckets' = [buckets EXCEPT ![ChainAt(o)] = WithoutDead(ChainOf(o))]
    BY <2>1, TableIs
  <2>3. PICK left \in Seq(WeakEntry) :
          /\ left = WithoutDead(ChainOf(o)) /\ Single(left)
          /\ \A i \in DOMAIN left :
               /\ left[i].live /\ EntryRight(left[i], ChainAt(o), attached, expected, astray)
               /\ left[i].of # o
          /\ \A p \in Object : Entered(ChainOf(o), p) /\ p \notin Unlinked(o) => Entered(left, p)
    BY <1>7, SearchedIs
  <2>4. o \notin astray' => kept = {}
    <3>1. Parasites(o) = {}
      BY <1>7 DEF Parasites
    <3>. QED  BY <1>2, <1>3, <3>1, ParasitesRight DEF Right
  <2>5. Renewed(left, o, attached[o], kept, astray')
    BY <2>3, <2>4 DEF Renewed, EntryRight
  <2>6. \A p \in alive \ {o} : Entered(ChainOf(o), p) /\ p \notin astray' => Entered(left, p)
    BY <1>3, <2>3 DEF WeakInv, WeakTypes
  <2>. QED  BY <1>2, <1>3, <1>4, <1>5, <2>2, <2>3, <2>5, <2>6, OperationKeeps
<1>. QED  BY <1>6, <1>7

\* A new entry comes before all others of the chain.
LEMMA EntryFirst ==
  ASSUME NEW left \in Seq(WeakEntry), NEW e \in WeakEntry
  PROVE  \E chain \in Seq(WeakEntry) :
           /\ chain = <<e>> \o left
           /\ \A i \in DOMAIN chain :
                \/ i = 1 /\ chain[i] = e
                \/ i # 1 /\ i - 1 \in DOMAIN left /\ chain[i] = left[i - 1]
           /\ 1 \in DOMAIN chain /\ DOMAIN chain \subseteq Nat
           /\ \A p : Entered(left, p) => Entered(chain, p)
<1>. DEFINE all == <<e>> \o left
<1>1. /\ all \in Seq(WeakEntry) /\ Len(all) = Len(left) + 1 /\ Len(left) \in Nat
      /\ DOMAIN all = 1..Len(all) /\ DOMAIN left = 1..Len(left) /\ all[1] = e
      /\ \A i \in 1..Len(left) : all[i + 1] = left[i]
  OBVIOUS
<1>. HIDE DEF all
<1>2. ASSUME NEW i \in DOMAIN all, i # 1  PROVE i - 1 \in DOMAIN left /\ all[i] = left[i - 1]
  <2>1. i - 1 \in 1..Len(left) /\ (i - 1) + 1 = i
    BY <1>1, <1>2
  <2>. QED  BY <1>1, <2>1
<1>3. ASSUME NEW p, Entered(left, p)  PROVE Entered(all, p)
  <2>1. PICK i \in DOMAIN left : left[i].live /\ left[i].of = p
    BY <1>3 DEF Entered
  <2>2. i + 1 \in DOMAIN all /\ all[i + 1] = left[i]
    BY <1>1
  <2>. QED  BY <2>1, <2>2 DEF Entered
<1>4. 1 \in DOMAIN all /\ DOMAIN all \subseteq Nat
  BY <1>1
<1>5. \A i \in DOMAIN all :
        \/ i = 1 /\ all[i] = e
        \/ i # 1 /\ i - 1 \in DOMAIN left /\ all[i] = left[i - 1]
  BY <1>1, <1>2
<1>6. all = <<e>> \o left
  BY DEF all
<1>. QED  BY <1>1, <1>3, <1>4, <1>5, <1>6

LEMMA EnterTableKeeps ==
  ASSUME WeakInv, NEW t \in Worker, EnterTable(t)
  PROVE  WeakInv'
<1>1. PICK o \in alive, n \in Parasite : attaching[t] = <<o, n>>
  BY DEF EnterTable, WeakInv, WeakTypes, ParasitesEntered
<1>2. PICK new \in Hashes : new = WithName(NoNames, n) /\ new.names = {n}
  BY NoNamesIs, WithNameIs
<1>3. PICK given \in SUBSET Parasite, kept \in SUBSET Parasite :
        given = attached[o] \union {n} /\ kept = expected[o] \union {n}
  BY TableIs
<1>4. /\ buckets' = [Searched(o) EXCEPT ![ChainAt(o)] =
                       IF Finds(o) THEN Put(Searched(o)[ChainAt(o)], o, new)
                       ELSE <<Entry(o, new)>> \o Searched(o)[ChainAt(o)]]
      /\ attached' = [attached EXCEPT ![o] = given]
      /\ expected' = [expected EXCEPT ![o] = kept]
      /\ astray' = astray \union Unlinked(o) \union (IF Finds(o) THEN {o} ELSE {})
      /\ attaching' = [attaching EXCEPT ![t] = <<>>] /\ UNCHANGED alive
  BY <1>1, <1>2, <1>3 DEF EnterTable, ChainAt
<1>5. attaching' \in [Worker -> {<<>>} \union (Object \X Parasite)]
      /\ \A u \in Worker : attaching'[u] # <<>> => attaching'[u][1] \in alive
  BY <1>4 DEF WeakInv, WeakTypes, ParasitesEntered
<1>6. astray' \subseteq alive /\ astray \union Unlinked(o) \subseteq astray'
  BY <1>4, TableIs
<1>7. Right(new.names, given, kept, o \in astray')
  <2>1. o \notin astray' => expected[o] = {}
    <3>1. o \notin astray' => ~Finds(o) /\ o \notin astray
      BY <1>4
    <3>2. ~Finds(o) => Parasites(o) = {}
      BY DEF Parasites
    <3>. QED  BY <3>1, <3>2, ParasitesRight DEF Right
  <2>. QED  BY <1>2, <1>3, <2>1 DEF Right
<1>8. CASE Finds(o)
  <2>1. buckets' = [buckets EXCEPT ![ChainAt(o)] = Put(WithoutDead(ChainOf(o)), o, new)]
    BY <1>4, <1>8, TableIs
  <2>. QED  BY <1>4, <1>5, <1>6, <1>7, <1>8, <2>1, PutKeeps
<1>9. CASE ~Finds(o)
  <2>1. PICK left \in Seq(WeakEntry) :
          /\ left = WithoutDead(ChainOf(o)) /\ Single(left)
          /\ \A i \in DOMAIN left :
               /\ left[i].live /\ EntryRight(left[i], ChainAt(o), attached, expected, astray)
               /\ left[i].of # o
          /\ \A p \in Object : Entered(ChainOf(o), p) /\ p \notin Unlinked(o) => Entered(left, p)
    BY <1>9, SearchedIs
  <2>2. PICK e \in WeakEntry :
          /\ e = Entry(o, new) /\ e.key = Address[o] /\ e.of = o /\ e.live /\ e.value = new
    <3>1. Entry(o, new) = [key |-> Address[o], of |-> o, live |-> TRUE, value |-> new]
      BY DEF Entry
    <3>2. PICK a \in {Address[p] : p \in Object} : a = Address[o]
      BY TableIs
    <3>3. [key |-> a, of |-> o, live |-> TRUE, value |-> new] \in WeakEntry
      BY TableIs DEF WeakEntry
    <3>. QED  BY <3>1, <3>2, <3>3, Zenon
  <2>3. PICK chain \in Seq(WeakEntry) :
          /\ chain = <<e>> \o left
          /\ \A i \in DOMAIN chain :
               \/ i = 1 /\ chain[i] = e
               \/ i # 1 /\ i - 1 \in DOMAIN left /\ chain[i] = left[i - 1]
          /\ 1 \in DOMAIN chain /\ DOMAIN chain \subseteq Nat
          /\ \A p : Entered(left, p) => Entered(chain, p)
    BY EntryFirst
  <2>4. buckets' = [buckets EXCEPT ![ChainAt(o)] = chain]
    <3>1. Searched(o)[ChainAt(o)] = left
      BY <2>1, TableIs
    <3>2. buckets' = [Searched(o) EXCEPT ![ChainAt(o)] = chain]
      BY <1>4, <1>9, <2>2, <2>3, <3>1
    <3>. QED  BY <3>2, TableIs
  <2>5. Single(chain)
    <3>1. SUFFICES ASSUME NEW i \in DOMAIN chain, NEW j \in DOMAIN chain, chain[i].of = chain[j].of
                   PROVE  i = j
      BY DEF Single
    <3>2. CASE i = 1 \/ j = 1
      <4>1. \A k \in DOMAIN chain : chain[k].of = o => k = 1
        BY <2>1, <2>3
      <4>2. \A k \in DOMAIN chain : k = 1 => chain[k].of = o
        BY <2>2, <2>3
      <4>. QED  BY <3>1, <3>2, <4>1, <4>2
    <3>3. CASE i # 1 /\ j # 1
      <4>1. i - 1 = j - 1
        BY <2>1, <2>3, <3>1, <3>3 DEF Single
      <4>. QED  BY <2>3, <4>1
    <3>. QED  BY <3>2, <3>3
  <2>6. Renewed(chain, o, given, kept, astray')
    <3>1. Entered(chain, o)
      BY <2>2, <2>3 DEF Entered
    <3>2. ASSUME NEW i \in DOMAIN chain
          PROVE  /\ chain[i].live /\ chain[i].key = Address[chain[i].of]
                 /\ ChainAt(chain[i].of) = ChainAt(o) /\ chain[i].of \in alive
                 /\ chain[i].of = o => Right(chain[i].value.names, given, kept, o \in astray')
                 /\ chain[i].of # o =>
                      Right(chain[i].value.names, attached[chain[i].of], expected[chain[i].of],
                            chain[i].of \in astray)
      <4>1. CASE chain[i] = e
        BY <1>7, <2>2, <4>1
      <4>2. CASE i - 1 \in DOMAIN left /\ chain[i] = left[i - 1]
        BY <2>1, <4>2 DEF EntryRight
      <4>. QED  BY <2>3, <4>1, <4>2
    <3>. QED  BY <2>5, <3>1, <3>2 DEF Renewed
  <2>7. \A p \in alive \ {o} : Entered(ChainOf(o), p) /\ p \notin astray' => Entered(chain, p)
    BY <1>6, <2>1, <2>3 DEF WeakInv, WeakTypes
  <2>8. astray \subseteq astray'
    BY <1>6
  <2>. QED  BY <1>3, <1>4, <1>5, <1>6, <2>4, <2>6, <2>7, <2>8, OperationKeeps
<1>. QED  BY <1>8, <1>9

LEMMA MakeKeeps ==
  ASSUME WeakInv, NEW o \in Object, Make(o)
  PROVE  WeakInv'
<1>1. alive' = alive \union {o} /\ UNCHANGED <<buckets, attaching, attached, expected, astray>>
      /\ o \notin alive /\ \A p \in alive : Address[p] # Address[o]
  BY DEF Make
<1>2. WeakTypes' /\ AddressesApart'
  BY <1>1 DEF WeakInv, WeakTypes, AddressesApart
<1>3. ChainsRight'
  BY <1>1 DEF WeakInv, ChainsRight, EntryRight, Single
<1>4. ParasitesEntered'
  BY <1>1 DEF WeakInv, ParasitesEntered, Entered
<1>. QED  BY <1>2, <1>3, <1>4 DEF WeakInv

LEMMA CollectKeeps ==
  ASSUME WeakInv, NEW o \in Object, Collect(o)
  PROVE  WeakInv'
<1>1. /\ alive' = alive \ {o} /\ attached' = [attached EXCEPT ![o] = {}]
      /\ expected' = [expected EXCEPT ![o] = {}]
      /\ astray' = astray \ {o} /\ UNCHANGED attaching /\ o \in alive
      /\ \A t \in Worker : attaching[t] # <<>> => attaching[t][1] # o
      /\ DOMAIN buckets = Chains
      /\ buckets' = [b \in Chains |->
                       [i \in DOMAIN buckets[b] |->
                          IF buckets[b][i].of = o THEN [buckets[b][i] EXCEPT !.live = FALSE]
                          ELSE buckets[b][i]]]
  BY DEF Collect, WeakInv, WeakTypes
<1>2. ASSUME NEW b \in Chains
      PROVE  /\ buckets'[b] \in Seq(WeakEntry) /\ DOMAIN buckets'[b] = DOMAIN buckets[b]
             /\ \A i \in DOMAIN buckets[b] :
                  /\ buckets'[b][i].key = buckets[b][i].key /\ buckets'[b][i].of = buckets[b][i].of
                  /\ buckets'[b][i].value = buckets[b][i].value /\ buckets[b][i].of \in Object
                  /\ buckets'[b][i].live <=> buckets[b][i].live /\ buckets[b][i].of # o
  <2>1. PICK chain \in Seq(WeakEntry) : chain = buckets[b]
    BY DEF WeakInv, WeakTypes
  <2>2. buckets'[b] = [i \in DOMAIN chain |->
                         IF chain[i].of = o THEN [chain[i] EXCEPT !.live = FALSE] ELSE chain[i]]
    BY <1>1, <2>1
  <2>3. ASSUME NEW i \in DOMAIN chain
        PROVE  /\ buckets'[b][i] \in WeakEntry
               /\ buckets'[b][i].key = chain[i].key /\ buckets'[b][i].of = chain[i].of
               /\ buckets'[b][i].value = chain[i].value /\ chain[i].of \in Object
               /\ buckets'[b][i].live <=> chain[i].live /\ chain[i].of # o
    <3>1. PICK e \in WeakEntry : e = chain[i]
      OBVIOUS
    <3>2. buckets'[b][i] = IF e.of = o THEN [e EXCEPT !.live = FALSE] ELSE e
      BY <2>2, <3>1
    <3>. QED  BY <3>1, <3>2 DEF WeakEntry
  <2>4. buckets'[b] \in Seq(WeakEntry) /\ DOMAIN buckets'[b] = DOMAIN chain
    <3>1. DOMAIN chain = 1..Len(chain) /\ Len(chain) \in Nat /\ DOMAIN buckets'[b] = DOMAIN chain
      BY <2>2
    <3>2. buckets'[b] = [i \in 1..Len(chain) |-> buckets'[b][i]]
      BY <2>2, <3>1
    <3>. QED  BY <2>3, <3>1, <3>2
  <2>. QED  BY <2>1, <2>3, <2>4
<1>3. WeakTypes'
  <2>1. buckets' \in [Chains -> Seq(WeakEntry)]
    BY <1>1, <1>2
  <2>. QED  BY <1>1, <2>1 DEF WeakInv, WeakTypes
<1>4. AddressesApart'
  BY <1>1 DEF WeakInv, AddressesApart
<1>5. \A p \in Object : p # o => attached'[p] = attached[p] /\ expected'[p] = expected[p]
  BY <1>1 DEF WeakInv, WeakTypes
<1>. DEFINE RightThen(e, b) ==
              /\ e.key = Address[e.of] /\ ChainAt(e.of) = b
              /\ e.live => /\ e.of \in alive'
                           /\ Right(e.value.names, attached'[e.of], expected'[e.of],
                                    e.of \in astray')
<1>6. ChainsRight'
  <2>1. SUFFICES ASSUME NEW b \in Chains
                 PROVE  /\ Single(buckets'[b])
                        /\ \A i \in DOMAIN buckets'[b] :
                             RightThen(buckets'[b][i], b)
    BY DEF ChainsRight, EntryRight, Single
  <2>2. Single(buckets[b])
        /\ \A i \in DOMAIN buckets[b] : EntryRight(buckets[b][i], b, attached, expected, astray)
    BY DEF WeakInv, ChainsRight
  <2>3. Single(buckets'[b])
    BY <1>2, <2>2 DEF Single
  <2>4. ASSUME NEW i \in DOMAIN buckets[b]
        PROVE  RightThen(buckets'[b][i], b)
    <3>1. buckets[b][i].live /\ buckets[b][i].of # o =>
            Right(buckets[b][i].value.names, attached'[buckets[b][i].of],
                  expected'[buckets[b][i].of], buckets[b][i].of \in astray')
      BY <1>1, <1>2, <1>5, <2>2 DEF EntryRight, Right
    <3>. QED  BY <1>1, <1>2, <2>2, <3>1 DEF EntryRight
  <2>. QED  BY <1>2, <2>3, <2>4
<1>7. ParasitesEntered'
  <2>1. ASSUME NEW p \in alive', p \notin astray', ~Entered(buckets'[ChainAt(p)], p)
        PROVE  expected'[p] = {}
    <3>1. p \in alive /\ p # o /\ p \notin astray /\ p \in Object /\ ChainAt(p) \in Chains
      BY <1>1, <2>1 DEF WeakInv, WeakTypes, Chains, ChainAt
    <3>2. ~Entered(buckets[ChainAt(p)], p)
      BY <1>2, <2>1, <3>1 DEF Entered
    <3>. QED  BY <1>5, <3>1, <3>2 DEF WeakInv, ParasitesEntered
  <2>2. \A p \in Object \ alive' : attached'[p] = {} /\ expected'[p] = {}
    BY <1>1 DEF WeakInv, WeakTypes, ParasitesEntered
  <2>3. \A t \in Worker : attaching'[t] # <<>> => attaching'[t][1] \in alive'
    BY <1>1 DEF WeakInv, ParasitesEntered
  <2>. QED  BY <2>1, <2>2, <2>3 DEF ParasitesEntered, Entered
<1>. QED  BY <1>3, <1>4, <1>6, <1>7 DEF WeakInv

LEMMA WeakStepKeeps == WeakInv /\ [WeakNext]_weakVars => WeakInv'
<1>1. SUFFICES ASSUME WeakInv, [WeakNext]_weakVars  PROVE WeakInv'
  OBVIOUS
<1>2. ASSUME NEW o \in alive, Retrieve(o)  PROVE WeakInv'
  <2>1. buckets' = [buckets EXCEPT ![ChainAt(o)] = WithoutDead(ChainOf(o))]
    BY <1>1, <1>2, TableIs DEF Retrieve
  <2>2. attaching' \in [Worker -> {<<>>} \union (Object \X Parasite)]
        /\ \A u \in Worker : attaching'[u] # <<>> => attaching'[u][1] \in alive
    BY <1>1, <1>2 DEF Retrieve, WeakInv, WeakTypes, ParasitesEntered
  <2>. QED  BY <1>1, <1>2, <2>1, <2>2, LookupKeeps DEF Retrieve
<1>3. CASE UNCHANGED weakVars
  BY <1>1, <1>3 DEF weakVars, WeakInv, WeakTypes, AddressesApart, ChainsRight, EntryRight, Single,
              ParasitesEntered, Entered
<1>. QED
  BY <1>1, <1>2, <1>3, MakeKeeps, CollectKeeps, AttachKeeps, AttachFirstKeeps, DetachKeeps,
     EnterTableKeeps
  DEF WeakNext

\* An object never has parasites of another one that was at its address; one that
\* was detached it has at most if its two hashes differ; and it has all that were
\* attached and not detached since, but for those which stood in a chain behind one
\* that was detached, and for objects whose entry was unlinked with a dead one or
\* entered by two threads at once (src/src/weak.c, dfsch_idhash_unset in
\* src/src/hash.c).
THEOREM ParasitesOfOwn == WeakSpec => []OwnParasites
<1>1. WeakInv => OwnParasites
  BY ParasitesRight DEF OwnParasites, Right
<1>. QED  BY <1>1, WeakInitInv, WeakStepKeeps, PTL DEF WeakSpec
=============================================================================
