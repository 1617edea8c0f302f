------------------------------- MODULE Extref -------------------------------
(***************************************************************************)
(* External references, src/lib/extref.c: objects that are handed out as   *)
(* handles and kept in one table until their time is over, the threads     *)
(* that create and use them, and the thread that sweeps the table.         *)
(*                                                                         *)
(* The table is used with extref_mutex held, but extref_get looks at mask  *)
(* and count before it takes the mutex, and dfsch_extref_ref changes the   *)
(* entry after it was released, so that extref_resize is one action for    *)
(* each turn of its loops.  A turn reads the time of its entry once.       *)
(*                                                                         *)
(* A handle is the serial number it was made from, and Hash is what is     *)
(* taken of it to find its bucket.  time(NULL) is now; a tick is the time  *)
(* the sweeping thread sleeps, of one second or two, and a sweep ends      *)
(* within one.                                                             *)
(***************************************************************************)
EXTENDS Integers, Sequences

CONSTANTS
  Handle,        \* the handles, in the order of get_serial: 1, 2, ...
  NoHandle,      \* NULL as an entry
  Hash,          \* uniqid[0] of each
  User,          \* threads that call extref-make and extref-ref
  Collector,     \* the thread of extref_gc_thread
  Kind,          \* the timeouts and modes they give: <<timeout, mode>>
  INITIAL_MASK,  \* 255 in extref_init
  FIRST_GC,      \* how long after extref_init the first sweep is due: 60
  DAY,           \* when an empty table is swept next: 86400
  MaxTime,       \* bound: how long time goes on
  MaxCount       \* bound: how many entries a sweep counts that does not end

\* Timeouts are not negative, and a table has at least two buckets.
ExtrefAssumption ==
  /\ Handle \subseteq Nat /\ NoHandle \notin Handle
  /\ Hash \in [Handle -> Nat]
  /\ Collector \notin User
  /\ \A k \in Kind : k[1] \in Nat
  /\ INITIAL_MASK \in Nat \ {0} /\ FIRST_GC \in Nat /\ DAY \in Nat

VARIABLES
  now,
  entry,            \* the extref_t of each handle made, NoEntry before
  extrefs,          \* the buckets: a sequence of first entries
  extref_count,
  extref_next_gc,
  sweeper,          \* the call of extref_resize: by whom, at which time, and how far
  using,            \* what each user is about to do, and with which handle
  slept,            \* the sweeping thread has slept since it looked at the time
  late,             \* history: handles that were prolonged when already swept
  refused,          \* history: valid handles refused while nobody was sweeping
  met,              \* history: a sweep has met a first entry that was over only just
  wrecked           \* history: memory was overwritten, or a loop does not end

table == <<extrefs, extref_count, extref_next_gc>>
extrefVars == <<now, entry, table, sweeper, using, slept, late, refused, met, wrecked>>

NoEntry == [mode |-> "none"]
NoSweep == [at |-> "none"]
Idle == [do |-> "idle", handle |-> NoHandle]

Entries(e) == {h \in Handle : e[h] # NoEntry}
Made == Entries(entry)

\* The bucket of a handle in a table of n of them.
Bucket(h, n) == 1 + (Hash[h] % n)

\* A handle whose time is not over.
Valid(h) == h \in Made /\ entry[h].valid_to > now

-----------------------------------------------------------------------------
(* Chains.                                                                 *)

\* The entries that a walk meets from entry j on, or from the end of a chain:
\* the least set with j that has the next one of each.
Walked(e, j) ==
  {h \in Handle : \A S \in SUBSET Entries(e) :
     j \in S \union {NoHandle} /\ (\A i \in S : e[i].next \in S \union {NoHandle}) => h \in S}

\* A walk comes to the end of the chain.
Ends(e, j) == j = NoHandle \/ \E i \in Walked(e, j) : e[i].next = NoHandle

\* Where the entry of a handle is to be found, if it is not dropped: in its
\* bucket, of which a sweep leaves what is behind j, or also where entries are
\* moved from and to.
Heads(h) ==
  CASE sweeper.at = "drop" /\ sweeper.bucket = Bucket(h, Len(extrefs)) -> {sweeper.j}
    [] sweeper.at = "move" ->
         {sweeper.j, sweeper.new[Bucket(h, Len(sweeper.new))]}
           \union {extrefs[b] : b \in (sweeper.bucket + 1)..Len(extrefs)}
    [] OTHER -> {extrefs[Bucket(h, Len(extrefs))]}
Held(h) == h \in Made /\ \E j \in Heads(h) : h \in Walked(entry, j)

-----------------------------------------------------------------------------
ExtrefInit ==
  /\ now = 1
  /\ entry = [h \in Handle |-> NoEntry]
  /\ extrefs = <<>> /\ extref_count = 0 /\ extref_next_gc = 0
  /\ sweeper = NoSweep
  /\ using = [u \in User |-> Idle]
  /\ slept = FALSE
  /\ late = {} /\ refused = {} /\ met = FALSE /\ wrecked = FALSE

Sooner(s, t) == IF s < t THEN s ELSE t

-----------------------------------------------------------------------------
(* extref_resize                                                           *)

\* The count is set to zero, with the mutex held.
BeginSweep(by, buckets) ==
  /\ sweeper' = [by |-> by, time |-> now, at |-> "drop", bucket |-> 1, j |-> buckets[1],
                 k |-> NoHandle, new |-> <<>>]
  /\ extref_count' = 0

\* The first entries of a bucket that are over are dropped.
DropFirst ==
  /\ sweeper.at = "drop" /\ sweeper.j # NoHandle
  /\ entry[sweeper.j].valid_to < sweeper.time
  /\ sweeper' = [sweeper EXCEPT !.j = entry[@].next]
  /\ UNCHANGED <<now, entry, table, using, slept, late, refused, met, wrecked>>

KeepRest ==
  /\ sweeper.at = "drop"
  /\ sweeper.j # NoHandle => entry[sweeper.j].valid_to >= sweeper.time
  /\ extrefs' = [extrefs EXCEPT ![sweeper.bucket] = sweeper.j]
  /\ sweeper' = [sweeper EXCEPT !.at = "unlink"]
  /\ UNCHANGED <<now, entry, extref_count, extref_next_gc, using, slept, late, refused, met,
                 wrecked>>

\* Variant: the time of an entry counts only if it is later than the others'.
DueLast(valid_to, time) ==
  IF valid_to > extref_next_gc \/ extref_next_gc < time THEN valid_to ELSE extref_next_gc

\* When the next sweep is due, with an entry still valid.
Due(valid_to, time) ==
  IF valid_to < extref_next_gc \/ extref_next_gc < time THEN valid_to ELSE extref_next_gc

CountValid ==
  /\ sweeper.at = "unlink" /\ sweeper.j # NoHandle
  /\ entry[sweeper.j].valid_to > sweeper.time
  /\ extref_count < MaxCount
  /\ extref_count' = extref_count + 1
  /\ extref_next_gc' = Due(entry[sweeper.j].valid_to, sweeper.time)
  /\ sweeper' = [sweeper EXCEPT !.k = sweeper.j, !.j = entry[@].next]
  /\ UNCHANGED <<now, entry, extrefs, using, slept, late, refused, met, wrecked>>

\* The others are unlinked from the last valid entry, which is one of an
\* earlier bucket, or none at all, when the first one is over only just.
Unlink ==
  /\ sweeper.at = "unlink" /\ sweeper.j # NoHandle
  /\ entry[sweeper.j].valid_to <= sweeper.time
  /\ met' = (met \/ sweeper.j = extrefs[sweeper.bucket])
  /\ IF sweeper.k = NoHandle
     THEN wrecked' = TRUE /\ UNCHANGED <<entry, sweeper>>
     ELSE /\ entry' = [entry EXCEPT ![sweeper.k].next = entry[sweeper.j].next]
          /\ sweeper' = [sweeper EXCEPT !.j = entry[@].next]
          /\ UNCHANGED wrecked
  /\ UNCHANGED <<now, table, using, slept, late, refused>>

NextBucket ==
  /\ sweeper.at = "unlink" /\ sweeper.j = NoHandle /\ sweeper.bucket < Len(extrefs)
  /\ sweeper' = [sweeper EXCEPT !.at = "drop", !.bucket = @ + 1,
                                !.j = extrefs[sweeper.bucket + 1]]
  /\ UNCHANGED <<now, entry, table, using, slept, late, refused, met, wrecked>>

\* The number of buckets after a sweep that has counted the valid entries.
NewSize ==
  LET n == Len(extrefs)
  IN  IF extref_count > n - 1 THEN 2 * n
      ELSE IF extref_count < (n - 1) \div 2 /\ n - 1 > INITIAL_MASK THEN n \div 2
      ELSE n

\* extref_put then looks at its own entry; the mutex is released.
EndSweep(due) ==
  /\ sweeper' = NoSweep
  /\ IF sweeper.by \in User
     THEN /\ extref_next_gc' = Sooner(entry[using[sweeper.by].handle].valid_to, due)
          /\ using' = [using EXCEPT ![sweeper.by] = Idle]
     ELSE extref_next_gc' = due /\ UNCHANGED using

\* The last bucket was swept: the table keeps its size, or a new one is made.
Swept ==
  /\ sweeper.at = "unlink" /\ sweeper.j = NoHandle /\ sweeper.bucket = Len(extrefs)
  /\ LET due == IF extref_next_gc < sweeper.time THEN sweeper.time + DAY ELSE extref_next_gc
     IN  IF NewSize = Len(extrefs) THEN EndSweep(due)
         ELSE /\ sweeper' = [sweeper EXCEPT !.at = "move", !.bucket = 1, !.j = extrefs[1],
                                            !.new = [b \in 1..NewSize |-> NoHandle]]
              /\ extref_next_gc' = due
              /\ UNCHANGED using
  /\ UNCHANGED <<now, entry, extrefs, extref_count, slept, late, refused, met, wrecked>>

\* Entry j goes first in bucket b of the new table, and the walk goes on at next.
PutFirst(b, next) ==
  /\ entry' = [entry EXCEPT ![sweeper.j].next = sweeper.new[b]]
  /\ sweeper' = [sweeper EXCEPT !.new[b] = sweeper.j, !.j = next]

\* Variant: the next entry is read when it is the next one of the new chain.
MoveRelinked ==
  /\ sweeper.at = "move" /\ sweeper.j # NoHandle
  /\ LET b == Bucket(sweeper.j, Len(sweeper.new)) IN PutFirst(b, sweeper.new[b])
  /\ UNCHANGED <<now, table, using, slept, late, refused, met, wrecked>>

MoveEntry ==
  /\ sweeper.at = "move" /\ sweeper.j # NoHandle
  /\ PutFirst(Bucket(sweeper.j, Len(sweeper.new)), entry[sweeper.j].next)
  /\ UNCHANGED <<now, table, using, slept, late, refused, met, wrecked>>

NextChain ==
  /\ sweeper.at = "move" /\ sweeper.j = NoHandle /\ sweeper.bucket < Len(extrefs)
  /\ sweeper' = [sweeper EXCEPT !.bucket = @ + 1, !.j = extrefs[sweeper.bucket + 1]]
  /\ UNCHANGED <<now, entry, table, using, slept, late, refused, met, wrecked>>

Moved ==
  /\ sweeper.at = "move" /\ sweeper.j = NoHandle /\ sweeper.bucket = Len(extrefs)
  /\ extrefs' = sweeper.new
  /\ EndSweep(extref_next_gc)
  /\ UNCHANGED <<now, entry, extref_count, slept, late, refused, met, wrecked>>

Sweep ==
  \/ DropFirst \/ KeepRest \/ CountValid \/ Unlink \/ NextBucket \/ Swept
  \/ MoveEntry \/ NextChain \/ Moved

-----------------------------------------------------------------------------
(* The threads.                                                            *)

\* dfsch_extref_create up to the sweep of a table that has become full.
Create(u, h, timeout, mode) ==
  LET old == IF extrefs = <<>> THEN [b \in 1..(INITIAL_MASK + 1) |-> NoHandle] ELSE extrefs
      due == IF extrefs = <<>> THEN now + FIRST_GC ELSE extref_next_gc
      b == Bucket(h, Len(old))
  IN  /\ using[u] = Idle /\ sweeper = NoSweep
      /\ h \notin Made /\ \A g \in Handle : g < h => g \in Made
      /\ entry' = [entry EXCEPT ![h] = [mode |-> mode, timeout |-> timeout, next |-> old[b],
                                        valid_to |-> now + timeout, until |-> now + timeout]]
      /\ extrefs' = [old EXCEPT ![b] = h]
      /\ IF extref_count + 1 > Len(old) - 1
         THEN /\ BeginSweep(u, extrefs')
              /\ using' = [using EXCEPT ![u] = [do |-> "put", handle |-> h]]
              /\ extref_next_gc' = due
         ELSE /\ extref_count' = extref_count + 1
              /\ extref_next_gc' = Sooner(now + timeout, due)
              /\ UNCHANGED <<using, sweeper>>
      /\ UNCHANGED <<now, slept, late, refused, met, wrecked>>

\* extref_gc_thread wakes up, looks at the time and may sweep.
Wake ==
  /\ slept /\ extrefs # <<>> /\ sweeper = NoSweep
  /\ slept' = FALSE
  /\ IF now >= extref_next_gc THEN BeginSweep(Collector, extrefs)
     ELSE UNCHANGED <<sweeper, extref_count>>
  /\ UNCHANGED <<now, entry, extrefs, extref_next_gc, using, late, refused, met, wrecked>>

Tick ==
  /\ now < MaxTime /\ sweeper = NoSweep /\ (slept => extrefs = <<>>)
  /\ \E seconds \in 1..2 : now' = now + seconds
  /\ slept' = TRUE
  /\ UNCHANGED <<entry, table, sweeper, using, late, refused, met, wrecked>>

\* The handle is said to have expired.
Refuse(u, h) ==
  /\ using' = [using EXCEPT ![u] = Idle]
  /\ refused' = IF Valid(h) /\ h \notin late /\ sweeper = NoSweep THEN refused \union {h}
                ELSE refused

\* dfsch_extref_ref, with what extref_get does before it takes the mutex.
Look(u, h) ==
  /\ using[u] = Idle /\ h \in Made
  /\ IF extref_count = 0 THEN Refuse(u, h)
     ELSE using' = [using EXCEPT ![u] = [do |-> "search", handle |-> h]] /\ UNCHANGED refused
  /\ UNCHANGED <<now, entry, table, sweeper, slept, late, met, wrecked>>

\* extref_get with the mutex held.
Get(u) ==
  /\ using[u].do = "search" /\ sweeper = NoSweep
  /\ LET h == using[u].handle
         first == extrefs[Bucket(h, Len(extrefs))]
     IN  \/ /\ h \in Walked(entry, first)
            /\ using' = [using EXCEPT ![u].do = "use"]
            /\ UNCHANGED <<refused, wrecked>>
         \/ /\ h \notin Walked(entry, first)
            /\ IF Ends(entry, first) THEN Refuse(u, h) /\ UNCHANGED wrecked
               ELSE wrecked' = TRUE /\ UNCHANGED <<using, refused>>
  /\ UNCHANGED <<now, entry, table, sweeper, slept, late, met>>

\* dfsch_extref_ref changes the entry, with the mutex released.
Refer(u) ==
  LET h == using[u].handle IN
  /\ using[u].do = "use"
  /\ CASE entry[h].mode = "refresh" ->
            /\ entry' = [entry EXCEPT ![h].valid_to = now + entry[h].timeout,
                                      ![h].until = now + entry[h].timeout]
            /\ late' = IF Held(h) THEN late ELSE late \union {h}
       [] entry[h].mode = "onceonly" ->
            entry' = [entry EXCEPT ![h].valid_to = 0] /\ UNCHANGED late
       [] OTHER -> UNCHANGED <<entry, late>>
  /\ using' = [using EXCEPT ![u] = Idle]
  /\ UNCHANGED <<now, table, sweeper, slept, refused, met, wrecked>>

ExtrefNext ==
  /\ ~wrecked
  /\ \/ \E u \in User : \E h \in Handle :
          Look(u, h) \/ \E k \in Kind : Create(u, h, k[1], k[2])
     \/ \E u \in User : Get(u) \/ Refer(u)
     \/ Sweep \/ Wake \/ Tick

ExtrefSpec == ExtrefInit /\ [][ExtrefNext]_extrefVars

-----------------------------------------------------------------------------
(* Correctness.                                                            *)

InTable(h) == h \in Made /\ h \in Walked(entry, extrefs[Bucket(h, Len(extrefs))])

\* A reference whose time is not over is found, wherever sweeps and growth
\* have put its entry, and is refused at most while the table is being swept;
\* unless it was swept between its being found and being prolonged.
ValidIsServed ==
  /\ \A h \in Handle \ late : Valid(h) /\ sweeper = NoSweep => InTable(h)
  /\ refused = {}

\* What is over leaves the table when the sweeping thread next looks at the
\* time, or with the next but one, so that the collector gets the object.
\* (Not so after a sweep that met a first entry which was over only just.)
DroppedInTime ==
  ~met /\ ~slept /\ sweeper = NoSweep =>
    \A h \in Made : InTable(h) => entry[h].until >= now

\* A reference is served until its time is over, and not long after (extref.c).
ServedInTime == ValidIsServed /\ DroppedInTime
=============================================================================
