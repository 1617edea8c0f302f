----------------------------- MODULE SharedTable -----------------------------
(***************************************************************************)
(* One key of a hash table (src/src/hash.c) that threads share, the lock   *)
(* of the table, and the procedures that a signal handler asks a thread to *)
(* apply as soon as it can (dfsch_async_apply_self, src/src/dfsch.c).  A   *)
(* thread can do so between two forms, and whenever it compares two keys,  *)
(* which it does with the lock of the table held.                          *)
(*                                                                         *)
(* What a thread is in the midst of is a stack: a call, a procedure that   *)
(* interrupts it, a call by that procedure, and so on.                     *)
(***************************************************************************)
EXTENDS Naturals, Sequences, SequencesExt, FiniteSets

CONSTANTS
  Caller,       \* the threads
  Nobody,       \* none of them
  Signalled,    \* bound: the threads whose signals ask for procedures
  MaxCalls,     \* bound: the calls that are begun
  MaxRequests,  \* bound: the procedures that are asked for
  MaxEvents     \* bound: both together

\* Nobody is no thread.
CallerAssumption == Nobody \notin Caller

VARIABLES
  present,      \* the key has an entry, whose value is not modelled
  rdholds,      \* how many times each thread holds the lock for reading
  wrholder,     \* the thread that holds it for writing
  doing,        \* the stack of each thread, the innermost last
  async_apply,  \* the slot of each thread: the request it is to see to
  calls,        \* how many calls were begun
  asked,        \* what each request so far is for
  ran,          \* history: the requests each thread has applied, in turn
  overwritten,  \* history: requests that a later one took the slot of
  unseen,       \* history: requests that came between the two steps of a check
  entered,      \* history: calls of set_if_not_exists told that they had set the
                \* key, which was not unset since
  entangled     \* history: a procedure left the lock as nobody can release it

theLock == <<rdholds, wrholder>>
requests == <<async_apply, asked, ran, overwritten, unseen>>
tableVars == <<present, theLock, doing, requests, calls, entered, entangled>>

\* ref is also set_if_exists, which gives an entry that is there another value under
\* the lock for reading.  set_if_not_exists is a ref, and an enter if that finds
\* nothing (dfsch_mapping_set_if_not_exists).
TableCall == {"ref", "set", "unset", "set_if_not_exists"}

\* Variant: set takes the lock as set_if_exists does.
ReadsUnlessUnset(op) == op # "unset"

OnlyReads(op) == op \in {"ref", "set_if_not_exists"}

\* What the procedures do: they are over at once, use the table, or throw to the
\* top level, as the primitive break does of src/src/repl.c.
Procedure == {"plain", "table", "throw"}

NoRequest == 0   \* NULL in the slot

\* A call that waits for the lock; after are the calls that had set the key.
Calling(op, call, after) ==
  [at |-> "lock", op |-> op, call |-> call, after |-> after, found |-> FALSE]

Busy(c) == doing[c] # <<>>
Innermost(c) == Last(doing[c])
At(c, place) == Busy(c) /\ Innermost(c).at = place
Enter(c, step) == doing' = [doing EXCEPT ![c] = Append(@, step)]
Become(c, step) == doing' = [doing EXCEPT ![c] = Append(Front(@), step)]
Leave(c) == doing' = [doing EXCEPT ![c] = Front(@)]

TableInit ==
  /\ present = FALSE
  /\ rdholds = [c \in Caller |-> 0] /\ wrholder = Nobody
  /\ doing = [c \in Caller |-> <<>>]
  /\ async_apply = [c \in Caller |-> NoRequest]
  /\ calls = 0 /\ asked = <<>>
  /\ ran = [c \in Caller |-> <<>>]
  /\ overwritten = {} /\ unseen = {} /\ entered = {} /\ entangled = FALSE

-----------------------------------------------------------------------------
(* The operations of the table.                                            *)

Holds(c) == rdholds[c] > 0 \/ wrholder = c

\* A thread calls, between two forms or in a procedure applied asynchronously.
BeginCall(c, op) ==
  /\ ~Busy(c) \/ (At(c, "apply") /\ asked[Innermost(c).request] = "table")
  /\ calls < MaxCalls /\ calls + Len(asked) < MaxEvents
  /\ calls' = calls + 1
  /\ Enter(c, Calling(op, calls + 1, entered))
  /\ UNCHANGED <<present, theLock, requests, entered, entangled>>

\* The lock is taken; by a thread that holds it already, it may be for reading
\* twice.  What becomes of the others, which wait for themselves or are told of
\* an error that nobody looks at, is not followed.
LockTable(c) ==
  /\ At(c, "lock")
  /\ IF OnlyReads(Innermost(c).op)
     THEN /\ wrholder \in {Nobody, c}
          /\ rdholds' = [rdholds EXCEPT ![c] = @ + 1]
          /\ entangled' = (entangled \/ wrholder = c)
          /\ UNCHANGED wrholder
     ELSE /\ wrholder \in {Nobody, c} /\ \A d \in Caller \ {c} : rdholds[d] = 0
          /\ wrholder' = c
          /\ entangled' = (entangled \/ Holds(c))
          /\ UNCHANGED rdholds
  /\ Become(c, [Innermost(c) EXCEPT !.at = "search"])
  /\ UNCHANGED <<present, requests, calls, entered>>

\* The chain is searched to its end.
SearchChain(c) ==
  /\ At(c, "search")
  /\ Become(c, [Innermost(c) EXCEPT !.at = "use", !.found = present])
  /\ UNCHANGED <<present, theLock, requests, calls, entered, entangled>>

\* The entry that was found, or not, is used.
Use(c) ==
  LET step == Innermost(c)
  IN  /\ At(c, "use")
      /\ present' = (step.op \in {"set", "enter"} \/ (present /\ step.op # "unset"))
      /\ entered' = IF step.op = "unset" THEN {}
                    ELSE IF step.op = "enter" THEN entered \union {step.call} ELSE entered
      /\ Become(c, [step EXCEPT !.at = "unlock"])
      /\ UNCHANGED <<theLock, requests, calls, entangled>>

\* Variant: the return of a call that has found its key forgets the lock.
ReleaseLockUnlessFound(c) ==
  IF OnlyReads(Innermost(c).op)
  THEN /\ rdholds' = [rdholds EXCEPT ![c] = IF Innermost(c).found THEN @ ELSE @ - 1]
       /\ UNCHANGED wrholder
  ELSE wrholder' = Nobody /\ UNCHANGED rdholds

ReleaseLock(c) ==
  IF OnlyReads(Innermost(c).op)
  THEN rdholds' = [rdholds EXCEPT ![c] = @ - 1] /\ UNCHANGED wrholder
  ELSE wrholder' = Nobody /\ UNCHANGED rdholds

\* Variant: set_if_not_exists sets the key if it does exist.
GoesOnIfFound(step) == step.op = "set_if_not_exists" /\ step.found

\* The ref of set_if_not_exists was told that the key is not there.
GoesOn(step) == step.op = "set_if_not_exists" /\ ~step.found

UnlockTable(c) ==
  /\ At(c, "unlock")
  /\ ReleaseLock(c)
  /\ IF GoesOn(Innermost(c))
     THEN Become(c, Calling("enter", Innermost(c).call, Innermost(c).after))
     ELSE Leave(c)
  /\ UNCHANGED <<present, requests, calls, entered, entangled>>

-----------------------------------------------------------------------------
(* Procedures applied asynchronously.                                      *)

\* dfsch_async_apply_self, called by the handler of a signal: what was in the slot
\* is forgotten.
Request(c, procedure) ==
  LET next == Len(asked) + 1 IN
  /\ Len(asked) < MaxRequests /\ calls + Len(asked) < MaxEvents
  /\ asked' = Append(asked, procedure)
  /\ async_apply' = [async_apply EXCEPT ![c] = next]
  /\ overwritten' = IF async_apply[c] = NoRequest \/ At(c, "clear") THEN overwritten
                    ELSE overwritten \union {async_apply[c]}
  /\ unseen' = IF At(c, "clear") THEN unseen \union {next} ELSE unseen
  /\ UNCHANGED <<present, theLock, doing, calls, ran, entered, entangled>>

\* A thread looks at the slot before a body or an application (dfsch_eval_proc_impl,
\* dfsch_apply_impl) and when it compares two keys.
Checks(c) == ~Busy(c) \/ At(c, "search") \/ At(c, "apply")

\* async_apply_check reads the slot,
Check(c) ==
  /\ Checks(c) /\ async_apply[c] # NoRequest
  /\ Enter(c, [at |-> "clear", request |-> async_apply[c]])
  /\ UNCHANGED <<present, theLock, requests, calls, entered, entangled>>

\* Variant: the slot is cleared when the procedure has returned.
ClearedNever(c) == UNCHANGED async_apply

Cleared(c) == async_apply' = [async_apply EXCEPT ![c] = NoRequest]

\* clears it, and applies what it has read.
Clear(c) ==
  /\ At(c, "clear")
  /\ Cleared(c)
  /\ ran' = [ran EXCEPT ![c] = Append(@, Innermost(c).request)]
  /\ Become(c, [Innermost(c) EXCEPT !.at = "apply"])
  /\ UNCHANGED <<present, theLock, asked, overwritten, unseen, calls, entered, entangled>>

\* The procedure returns.
Return(c) ==
  /\ At(c, "apply") /\ asked[Innermost(c).request] # "throw"
  /\ Leave(c)
  /\ UNCHANGED <<present, theLock, requests, calls, entered, entangled>>

\* Or it throws, past the calls that hold the lock.
Throw(c) ==
  /\ At(c, "apply") /\ asked[Innermost(c).request] = "throw"
  /\ doing' = [doing EXCEPT ![c] = <<>>]
  /\ entangled' = (entangled \/ Holds(c))
  /\ UNCHANGED <<present, theLock, requests, calls, entered>>

TableStep(c) ==
  \/ LockTable(c) \/ SearchChain(c) \/ Use(c) \/ UnlockTable(c)
  \/ Check(c) \/ Clear(c) \/ Return(c) \/ Throw(c)

TableNext ==
  /\ ~entangled
  /\ \E c \in Caller :
       \/ TableStep(c)
       \/ \E op \in TableCall : BeginCall(c, op)
       \/ c \in Signalled /\ \E procedure \in Procedure : Request(c, procedure)

\* The scheduler runs every thread, and threads go on to evaluate.
TableSpec ==
  /\ TableInit /\ [][TableNext]_tableVars
  /\ \A c \in Caller : WF_tableVars(~entangled /\ TableStep(c))

-----------------------------------------------------------------------------
(* Correctness, until a procedure has left the lock as nobody can release  *)
(* it: by a throw, or by its use of the table, within a comparison.        *)

Steps(c) == ToSet(doing[c])

\* What a search has found, or not found, is so still when it is used, whichever
\* threads set and unset the key.
FoundIsThere ==
  ~entangled => \A c \in Caller :
    At(c, "use") => Innermost(c).found = present

\* A call of set_if_not_exists that began after another was told that it had set
\* the key does not set it again, unless it was unset; calls that overlap may.
SetOnce ==
  ~entangled => \A c \in Caller : \A step \in Steps(c) :
    step.at = "lock" /\ step.op = "enter" => step.after \intersect entered = {}

\* The lock is held by those who are in a call that has taken it and no others:
\* every return of every operation has released it.
HeldByCalls ==
  ~entangled => \A c \in Caller :
    LET holding == {i \in DOMAIN doing[c] : doing[c][i].at \in {"search", "use", "unlock"}}
        writing == {i \in holding : ~OnlyReads(doing[c][i].op)}
    IN  /\ rdholds[c] = Cardinality(holding \ writing)
        /\ (wrholder = c) = (writing # {})

\* A request is applied at most once and none after a later one.  None vanishes
\* but those overwritten in the slot by a later one, and those that came while a
\* check had read the slot and not cleared it.
RequestsKept ==
  /\ \A c \in Caller : \A i, j \in DOMAIN ran[c] : i < j => ran[c][i] < ran[c][j]
  /\ \A r \in DOMAIN asked :
       \/ r \in overwritten \union unseen
       \/ \E c \in Caller :
            \/ async_apply[c] = r \/ r \in ToSet(ran[c])
            \/ \E step \in Steps(c) : step.at = "clear" /\ step.request = r

TableShared == FoundIsThere /\ SetOnce /\ HeldByCalls /\ RequestsKept

\* Every call returns, and every request is seen to: again and again, and so for good
\* after the last one, there is nothing left to do.
AllSettled ==
  []<>(entangled \/ \A c \in Caller : ~Busy(c) /\ async_apply[c] = NoRequest)
=============================================================================
