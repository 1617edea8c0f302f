----------------------------- MODULE Environment ----------------------------
(***************************************************************************)
(* The environment frames of src/dfsch.c and the threads that share them.  *)
(*                                                                         *)
(* A frame belongs to the thread that created it, its owner, which uses it *)
(* without a lock.  A thread that finds another owner clears it and takes  *)
(* environment_rwlock, and from then on so does everybody; but nothing     *)
(* waits for what the owner is doing at that moment.                       *)
(*                                                                         *)
(* The variables of a frame are in a small identity hash, an array of      *)
(* slots, of which only the keys are modelled.  An access to it lasts from *)
(* the action that searches the slots to the one that uses the result, so  *)
(* that accesses may overlap.                                              *)
(***************************************************************************)
EXTENDS Naturals, FiniteSets

CONSTANTS
  Thread,
  Frame,
  Name,
  Parent,     \* the parent of each frame, NoFrame at the top
  Creator,    \* the thread that created each frame
  NoFrame,
  NoThread,   \* NULL as an owner
  NoName,     \* the key of a free slot
  Slots,      \* how many variables a small hash holds
  Calls,      \* bound: the operations, variables and frames of the calls
  MaxOps      \* bound: how many operations are begun

ASSUME FrameAssumption ==
  /\ Name # {} /\ NoFrame \notin Frame /\ NoThread \notin Thread /\ NoName \notin Name
  /\ Parent \in [Frame -> Frame \union {NoFrame}]
  /\ Creator \in [Frame -> Thread]
\* No frame is ever full: each operation defines one variable at most.
ASSUME SlotsAssumption == Slots \in Nat /\ MaxOps \in Nat /\ MaxOps <= Slots

VARIABLES
  owner,      \* the owner of each frame
  values,     \* the keys in the slots of each frame
  readers,    \* the threads that hold environment_rwlock for reading
  writer,     \* the one that holds it for writing
  pc,         \* where each thread is
  op,         \* the operation it performs
  name,       \* on which variable
  frame,      \* the frame it has come to
  slot,       \* the slot it has found, 0 if none
  fresh,      \* whether that slot was a free one, for define
  ops,        \* how many operations were begun
  defined,    \* history: the variables defined in each frame and not unset
  raced,      \* history: the frames that were accessed while being changed
  broken      \* history: the lock was released by a thread not holding it

call == <<op, name, frame, slot, fresh>>
lock == <<readers, writer>>
vars == <<owner, values, lock, pc, call, ops, defined, raced, broken>>

\* lookup, set and define are dfsch_lookup, dfsch_set and dfsch_define; get
\* stands for dfsch_env_get and the other operations that only read, under
\* the lock; declare for dfsch_declare, whose declarations are not modelled.
Biased == {"lookup", "set", "define"}
Op == Biased \union {"get", "unset", "declare"}

ASSUME CallsAssumption == Calls \subseteq [op : Op, name : Name, frame : Frame]

LocksForWriting(o) == o \in {"set", "define", "unset", "declare"}

-----------------------------------------------------------------------------
(* The variables of a frame.                                               *)

Bound(f) == {values[f][i] : i \in 1..Slots} \ {NoName}

\* The first slot with a key; 0 if there is none.
Search(f, key) ==
  LET at == {i \in 1..Slots : values[f][i] = key}
  IN  IF at = {} THEN 0 ELSE CHOOSE i \in at : \A j \in at : i <= j

\* Variant: define takes the first slot without testing that it is free.
FindAnySlot(o, n, f) ==
  IF Search(f, n) = 0 /\ o = "define" THEN 1 ELSE Search(f, n)

\* What an access of an operation to a frame finds: the slot of the variable,
\* or for define a free one.
Find(o, n, f) ==
  IF Search(f, n) = 0 /\ o = "define" THEN Search(f, NoName) ELSE Search(f, n)

\* The access of thread t has found the variable, or defines it.
Found(t) == slot[t] # 0

\* What it changes: define writes the key into the slot that it found free;
\* set, and a define of a bound variable, write the value only.
Change(t) ==
  values' = CASE fresh[t] -> [values EXCEPT ![frame[t]][slot[t]] = name[t]]
              [] op[t] = "unset" -> [values EXCEPT ![frame[t]][slot[t]] = NoName]
              [] OTHER -> values

Accessing(t) == pc[t] \in {"free", "locked"}
Changing(t) == Accessing(t) /\ Found(t) /\ op[t] \in {"set", "define", "unset"}
Conflict(s, t) ==
  /\ s # t /\ Accessing(s) /\ Accessing(t) /\ frame[s] = frame[t]
  /\ Changing(s) \/ Changing(t)

-----------------------------------------------------------------------------
Init ==
  /\ owner = Creator
  /\ values = [f \in Frame |-> [i \in 1..Slots |-> NoName]]
  /\ readers = {}
  /\ writer = NoThread
  /\ pc = [t \in Thread |-> "idle"]
  /\ op = [t \in Thread |-> "get"]
  /\ name = [t \in Thread |-> CHOOSE n \in Name : TRUE]
  /\ frame = [t \in Thread |-> NoFrame]
  /\ slot = [t \in Thread |-> 0]
  /\ fresh = [t \in Thread |-> FALSE]
  /\ ops = 0
  /\ defined = [f \in Frame |-> {}]
  /\ raced = {}
  /\ broken = FALSE

Goto(t, to) == pc' = [pc EXCEPT ![t] = to]

\* A return to the caller.
Finish(t) ==
  /\ Goto(t, "idle")
  /\ frame' = [frame EXCEPT ![t] = NoFrame]
  /\ slot' = [slot EXCEPT ![t] = 0]
  /\ fresh' = [fresh EXCEPT ![t] = FALSE]
  /\ UNCHANGED <<op, name>>

\* The access to frame f begins.
Access(t, f, to) ==
  /\ Goto(t, to)
  /\ frame' = [frame EXCEPT ![t] = f]
  /\ slot' = [slot EXCEPT ![t] = Find(op[t], name[t], f)]
  /\ fresh' = [fresh EXCEPT ![t] = op[t] = "define" /\ Search(f, name[t]) = 0]
  /\ UNCHANGED <<op, name>>

\* A call of one of the operations; unset and declare take the lock at once.
Begin(t, o, n, f) ==
  /\ pc[t] = "idle"
  /\ ops < MaxOps
  /\ ops' = ops + 1
  /\ Goto(t, IF o \in Biased THEN "check" ELSE "lock")
  /\ op' = [op EXCEPT ![t] = o]
  /\ name' = [name EXCEPT ![t] = n]
  /\ frame' = [frame EXCEPT ![t] = f]
  /\ defined' = IF o = "unset" THEN [g \in Frame |-> defined[g] \ {n}] ELSE defined
  /\ UNCHANGED <<owner, values, lock, slot, fresh, broken>>

\* Variant: the thread that takes the bias away makes itself the owner.
RevokeToSelf(t, f) == owner' = [owner EXCEPT ![f] = t]
Revoke(t, f) == owner' = [owner EXCEPT ![f] = NoThread]

\* The owner goes on without the lock; another thread revokes the bias.
CheckOwner(t) ==
  /\ pc[t] = "check"
  /\ \/ /\ owner[frame[t]] = t
        /\ Access(t, frame[t], "free")
        /\ UNCHANGED owner
     \/ /\ owner[frame[t]] # t
        /\ Revoke(t, frame[t])
        /\ Goto(t, "lock")
        /\ UNCHANGED call
  /\ UNCHANGED <<values, lock, ops, defined, broken>>

\* DFSCH_RWLOCK_RDLOCK or DFSCH_RWLOCK_WRLOCK
Acquire(t) ==
  /\ pc[t] = "lock"
  /\ writer = NoThread
  /\ IF LocksForWriting(op[t])
     THEN readers = {} /\ writer' = t /\ UNCHANGED readers
     ELSE readers' = readers \union {t} /\ UNCHANGED writer
  /\ Access(t, frame[t], "locked")
  /\ UNCHANGED <<owner, values, ops, defined, broken>>

\* A define counts unless an unset of the same variable is in progress.
NoteDefine(t) ==
  defined' = IF /\ op[t] = "define"
                /\ \A s \in Thread : ~(pc[s] # "idle" /\ op[s] = "unset" /\ name[s] = name[t])
             THEN [defined EXCEPT ![frame[t]] = @ \union {name[t]}]
             ELSE defined

\* The access ends with the variable found: it is read, set, unset or defined.
Hit(t) ==
  /\ Accessing(t) /\ Found(t)
  /\ Change(t)
  /\ NoteDefine(t)
  /\ \/ op[t] = "define" /\ Goto(t, "recheck") /\ UNCHANGED call
     \/ op[t] # "define" /\ pc[t] = "free" /\ Finish(t)
     \/ op[t] # "define" /\ pc[t] = "locked" /\ Goto(t, "unlock") /\ UNCHANGED call
  /\ UNCHANGED <<owner, lock, ops, broken>>

\* An access ended without the variable.  dfsch_define always finds a slot
\* and looks at one frame only.
Missed(t) == ~Found(t) /\ op[t] # "define"

\* Not found, without the lock: the parent is checked, or there is no
\* variable of the name.
MissFree(t) ==
  /\ pc[t] = "free" /\ Missed(t)
  /\ \/ /\ Parent[frame[t]] # NoFrame
        /\ Goto(t, "check")
        /\ frame' = [frame EXCEPT ![t] = Parent[frame[t]]]
        /\ UNCHANGED <<op, name, slot, fresh>>
     \/ /\ Parent[frame[t]] = NoFrame
        /\ Finish(t)
  /\ UNCHANGED <<owner, values, lock, ops, defined, broken>>

\* Variant: the error for an unbound variable is raised with the lock held.
MissLockedHolding(t) ==
  /\ pc[t] = "locked" /\ Missed(t)
  /\ IF op[t] \in Biased THEN Revoke(t, frame[t]) ELSE UNCHANGED owner
  /\ \/ Parent[frame[t]] # NoFrame /\ Access(t, Parent[frame[t]], "locked")
     \/ Parent[frame[t]] = NoFrame /\ Finish(t)
  /\ UNCHANGED <<values, lock, ops, defined, broken>>

\* Not found, with the lock: it stays held for the parents, and lookup and
\* set revoke the bias of every frame they pass.
MissLocked(t) ==
  /\ pc[t] = "locked" /\ Missed(t)
  /\ IF op[t] \in Biased THEN Revoke(t, frame[t]) ELSE UNCHANGED owner
  /\ \/ Parent[frame[t]] # NoFrame /\ Access(t, Parent[frame[t]], "locked")
     \/ Parent[frame[t]] = NoFrame /\ Goto(t, "unlock") /\ UNCHANGED call
  /\ UNCHANGED <<values, lock, ops, defined, broken>>

\* dfsch_define decides whether to unlock by the owner, as it did to lock.
Recheck(t) ==
  /\ pc[t] = "recheck"
  /\ \/ owner[frame[t]] = t /\ Finish(t)
     \/ owner[frame[t]] # t /\ Goto(t, "unlock") /\ UNCHANGED call
  /\ UNCHANGED <<owner, values, lock, ops, defined, broken>>

\* DFSCH_RWLOCK_UNLOCK.  Of a lock that the thread does not hold it is
\* undefined: somebody else's hold may be released.
Unlock(t) ==
  LET holds == t \in readers \/ writer = t
  IN  /\ pc[t] = "unlock"
      /\ \/ /\ holds
            /\ readers' = readers \ {t}
            /\ writer' = IF writer = t THEN NoThread ELSE writer
         \/ ~holds /\ UNCHANGED lock
         \/ ~holds /\ \E s \in readers : readers' = readers \ {s} /\ UNCHANGED writer
         \/ ~holds /\ writer' = NoThread /\ UNCHANGED readers
      /\ broken' = (broken \/ ~holds)
      /\ Finish(t)
      /\ UNCHANGED <<owner, values, ops, defined>>

NoteRaces ==
  raced' = raced \union {f \in Frame : \E s, t \in Thread : frame'[t] = f /\ Conflict(s, t)'}

\* Thread t goes on with the operation it is in.
Step(t) ==
  /\ \/ CheckOwner(t) \/ Acquire(t) \/ Hit(t) \/ MissFree(t) \/ MissLocked(t)
     \/ Recheck(t) \/ Unlock(t)
  /\ NoteRaces

Call(t) ==
  /\ \E c \in Calls : Begin(t, c.op, c.name, c.frame)
  /\ NoteRaces

Next == \E t \in Thread : Call(t) \/ Step(t)

Spec == Init /\ [][Next]_vars

\* The scheduler runs every runnable thread, and the lock is granted to one
\* that waits for it when nobody else is left to hold it.
FairSpec == Spec /\ \A t \in Thread : WF_vars(Step(t))

-----------------------------------------------------------------------------
(* Correctness.                                                            *)

\* The lock is held by readers or by one writer, and by nobody who is not in
\* an operation.
TypeOK ==
  /\ owner \in [Frame -> Thread \union {NoThread}]
  /\ values \in [Frame -> [1..Slots -> Name \union {NoName}]]
  /\ readers \subseteq Thread
  /\ writer \in Thread \union {NoThread}
  /\ writer = NoThread \/ readers = {}
  /\ \A t \in Thread : t \in readers \/ writer = t => pc[t] \in {"locked", "recheck", "unlock"}
  /\ pc \in [Thread -> {"idle", "check", "free", "lock", "locked", "recheck", "unlock"}]
  /\ op \in [Thread -> Op] /\ name \in [Thread -> Name]
  /\ frame \in [Thread -> Frame \union {NoFrame}] /\ slot \in [Thread -> 0..Slots]
  /\ fresh \in [Thread -> BOOLEAN]
  /\ ops \in 0..MaxOps
  /\ defined \in [Frame -> SUBSET Name] /\ raced \subseteq Frame /\ broken \in BOOLEAN

\* Two threads are in conflict over a frame only if one of them is its
\* creator in an access it began as the owner: the other threads are kept
\* apart by the lock, and the bias never goes to one of them.
RacesAreBiased ==
  ~broken => \A s, t \in Thread :
    Conflict(s, t) => \E u \in {s, t} : pc[u] = "free" /\ Creator[frame[u]] = u

\* A variable that was defined in a frame, by whichever thread, stays bound
\* in it until it is unset, unless there was a race over the frame.
DefinedWithoutRace ==
  \A f \in Frame \ raced : defined[f] \subseteq Bound(f)

\* Every operation ends, also those that fail: none keeps the lock or waits
\* for it for ever.
OperationsEnd ==
  \A t \in Thread : pc[t] # "idle" ~> (pc[t] = "idle" \/ broken)

\* What dfsch_define is for, whoever else uses the frame.
DefineDefines == \A f \in Frame : defined[f] \subseteq Bound(f)
=============================================================================
