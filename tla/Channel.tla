------------------------------ MODULE Channel -------------------------------
(***************************************************************************)
(* One channel object of src/lib/threads.c: a ring buffer protected by a   *)
(* mutex, with the condition variable "read" for readers of an empty       *)
(* buffer and "write" for writers of a full one, and the threads that call *)
(* dfsch_channel_read and dfsch_channel_write on it.                       *)
(*                                                                         *)
(* What a thread does while it holds the mutex is invisible to the others, *)
(* so one action covers the code from one acquisition, wait or release of  *)
(* the mutex to the next.  The signal is sent after the mutex is released  *)
(* and is an action of its own.                                            *)
(***************************************************************************)
EXTENDS Naturals, Sequences, FiniteSets

CONSTANTS
  Writers,      \* threads that call dfsch_channel_write
  Readers,      \* threads that call dfsch_channel_read
  NoHolder,     \* owner of the mutex when nobody holds it
  NULL,         \* content of a slot that holds no object
  BufLen,       \* the argument of dfsch_channel_create
  MaxMessages,  \* bound: how many objects each writer writes
  MaxSpurious   \* bound: how many times a wait ends without a signal

Threads == Writers \union Readers

\* Each object is written once: its writer and its number name it.
Message == Writers \X (1..MaxMessages)

ASSUME ThreadsAssumption ==
  /\ Writers \intersect Readers = {}
  /\ NoHolder \notin Threads
ASSUME BufLenAssumption == BufLen \in Nat \ {0}
ASSUME BoundsAssumption == MaxMessages \in Nat /\ MaxSpurious \in Nat
ASSUME NULLAssumption == NULL \notin Message

VARIABLES
  mutex,        \* the thread that holds ch->mutex, or NoHolder
  readWait,     \* threads blocked in pthread_cond_wait on ch->read
  writeWait,    \* threads blocked in pthread_cond_wait on ch->write
  buf,          \* ch->buf
  readptr,      \* ch->readptr
  writeptr,     \* ch->writeptr
  new_writeptr, \* the local new_writeptr of each writer
  stage,        \* where each thread is
  written,      \* how many objects each writer has begun to write
  sent,         \* history: the objects stored, in the order of the stores
  received,     \* history: the objects read, in the order of the reads
  spurious      \* how many waits have ended without a signal

ring == <<buf, readptr, writeptr>>
channelVars == <<mutex, readWait, writeWait, ring, new_writeptr, stage, written,
          sent, received, spurious>>

Places == 0..(BufLen - 1)

\* The index that follows i in the ring.
Succ(i) == (i + 1) % BufLen

\* How many objects the buffer holds, and the k-th of them (k = 1, 2, ...).
Count == (writeptr + BufLen - readptr) % BufLen
Slot(k) == (readptr + (k - 1)) % BufLen

\* The objects in the buffer, oldest first.
Buffered == [k \in 1..Count |-> buf[Slot(k)]]

Empty == readptr = writeptr

-----------------------------------------------------------------------------
(* The threads of control.                                                 *)

Move(t, from, to) ==
  /\ stage[t] = from
  /\ stage' = [stage EXCEPT ![t] = to]

\* pthread_mutex_lock
Lock(t) == mutex = NoHolder /\ mutex' = t

\* pthread_mutex_unlock, also the first half of pthread_cond_wait
Release(t) == mutex = t /\ mutex' = NoHolder

\* pthread_cond_signal: some waiter is released, if there is one.
Signal(waiting, waitingNext) ==
  \/ waiting = {} /\ waitingNext = {}
  \/ \E t \in waiting : waitingNext = waiting \ {t}

-----------------------------------------------------------------------------
ChannelInit ==
  /\ mutex = NoHolder
  /\ readWait = {}
  /\ writeWait = {}
  /\ buf = [i \in Places |-> NULL]
  /\ readptr = 0
  /\ writeptr = 0
  /\ new_writeptr = [w \in Writers |-> 0]
  /\ stage = [t \in Threads |-> "idle"]
  /\ written = [w \in Writers |-> 0]
  /\ sent = <<>>
  /\ received = <<>>
  /\ spurious = 0

\* dfsch_channel_write up to its wait loop: the mutex is taken and the index
\* that writeptr will move to is computed.
BeginWrite(w) ==
  /\ written[w] < MaxMessages
  /\ Move(w, "idle", "check")
  /\ Lock(w)
  /\ new_writeptr' = [new_writeptr EXCEPT ![w] = Succ(writeptr)]
  /\ written' = [written EXCEPT ![w] = @ + 1]
  /\ UNCHANGED <<readWait, writeWait, ring, sent, received, spurious>>

\* The wait loop's test finds the buffer full: wait for a reader.
WaitFull(w) ==
  /\ readptr = new_writeptr[w]
  /\ Move(w, "check", "wait")
  /\ Release(w)
  /\ writeWait' = writeWait \union {w}
  /\ UNCHANGED <<readWait, ring, new_writeptr, written, sent, received,
                 spurious>>

\* Variant: a writer that was woken stores without testing for room again.
StoreUntested(w) ==
  /\ Move(w, "check", "signal")
  /\ Release(w)
  /\ buf' = [buf EXCEPT ![writeptr] = <<w, written[w]>>]
  /\ writeptr' = new_writeptr[w]
  /\ sent' = Append(sent, <<w, written[w]>>)
  /\ UNCHANGED <<readWait, writeWait, readptr, new_writeptr, written,
                 received, spurious>>

\* The test finds room: the object is stored and the mutex released.
Store(w) ==
  /\ readptr # new_writeptr[w]
  /\ Move(w, "check", "signal")
  /\ Release(w)
  /\ buf' = [buf EXCEPT ![writeptr] = <<w, written[w]>>]
  /\ writeptr' = new_writeptr[w]
  /\ sent' = Append(sent, <<w, written[w]>>)
  /\ UNCHANGED <<readWait, writeWait, readptr, new_writeptr, written,
                 received, spurious>>

\* dfsch_channel_write ends by waking a reader.
SignalReader(w) ==
  /\ Move(w, "signal", "idle")
  /\ Signal(readWait, readWait')
  /\ UNCHANGED <<mutex, writeWait, ring, new_writeptr, written, sent,
                 received, spurious>>

\* dfsch_channel_read up to its wait loop.
BeginRead(r) ==
  /\ Move(r, "idle", "check")
  /\ Lock(r)
  /\ UNCHANGED <<readWait, writeWait, ring, new_writeptr, written, sent,
                 received, spurious>>

WaitEmpty(r) ==
  /\ Empty
  /\ Move(r, "check", "wait")
  /\ Release(r)
  /\ readWait' = readWait \union {r}
  /\ UNCHANGED <<writeWait, ring, new_writeptr, written, sent, received,
                 spurious>>

\* Variant: the index is advanced before the slot is read.
TakeAfterAdvance(r) ==
  /\ ~Empty
  /\ Move(r, "check", "signal")
  /\ Release(r)
  /\ readptr' = Succ(readptr)
  /\ received' = Append(received, buf[readptr'])
  /\ buf' = [buf EXCEPT ![readptr'] = NULL]
  /\ UNCHANGED <<readWait, writeWait, writeptr, new_writeptr, written, sent,
                 spurious>>

\* The oldest object is taken out of its slot and the mutex released.
Take(r) ==
  /\ ~Empty
  /\ Move(r, "check", "signal")
  /\ Release(r)
  /\ received' = Append(received, buf[readptr])
  /\ buf' = [buf EXCEPT ![readptr] = NULL]
  /\ readptr' = Succ(readptr)
  /\ UNCHANGED <<readWait, writeWait, writeptr, new_writeptr, written, sent,
                 spurious>>

\* Variant: a reader wakes nobody.
SignalNobody(r) ==
  /\ Move(r, "signal", "idle")
  /\ UNCHANGED <<mutex, readWait, writeWait, ring, new_writeptr, written,
                 sent, received, spurious>>

\* dfsch_channel_read ends by waking a writer.
SignalWriter(r) ==
  /\ Move(r, "signal", "idle")
  /\ Signal(writeWait, writeWait')
  /\ UNCHANGED <<mutex, readWait, ring, new_writeptr, written, sent,
                 received, spurious>>

\* The second half of pthread_cond_wait, once the thread was released: it
\* takes the mutex again and returns to the test of its loop.
Reacquire(t) ==
  /\ t \notin readWait \union writeWait
  /\ Move(t, "wait", "check")
  /\ Lock(t)
  /\ UNCHANGED <<readWait, writeWait, ring, new_writeptr, written, sent,
                 received, spurious>>

\* A wait may end without a signal.
SpuriousWakeup(t) ==
  /\ t \in readWait \union writeWait
  /\ spurious < MaxSpurious
  /\ spurious' = spurious + 1
  /\ readWait' = readWait \ {t}
  /\ writeWait' = writeWait \ {t}
  /\ UNCHANGED <<mutex, ring, new_writeptr, stage, written, sent, received>>

Write(w) == WaitFull(w) \/ Store(w) \/ SignalReader(w)
Read(r) == WaitEmpty(r) \/ Take(r) \/ SignalWriter(r)

ChannelNext ==
  \/ \E w \in Writers : BeginWrite(w) \/ Write(w)
  \/ \E r \in Readers : BeginRead(r) \/ Read(r)
  \/ \E t \in Threads : Reacquire(t) \/ SpuriousWakeup(t)

ChannelSpec == ChannelInit /\ [][ChannelNext]_channelVars

\* A thread that can take its next step does so: the scheduler runs every
\* runnable thread.  Nothing is asked of spurious wakeups.
ChannelFairness ==
  /\ \A w \in Writers : WF_channelVars(BeginWrite(w) \/ Write(w) \/ Reacquire(w))
  /\ \A r \in Readers : WF_channelVars(BeginRead(r) \/ Read(r) \/ Reacquire(r))

FairChannelSpec == ChannelSpec /\ ChannelFairness

-----------------------------------------------------------------------------
(* Correctness.                                                            *)

\* Every variable stays in its range.
ChannelTypeOK ==
  /\ mutex \in Threads \union {NoHolder}
  /\ readWait \subseteq Readers
  /\ writeWait \subseteq Writers
  /\ buf \in [Places -> Message \union {NULL}]
  /\ readptr \in Places
  /\ writeptr \in Places
  /\ new_writeptr \in [Writers -> Places]
  /\ stage \in [Threads -> {"idle", "check", "wait", "signal"}]
  /\ written \in [Writers -> 0..MaxMessages]
  /\ sent \in Seq(Message)
  /\ received \in Seq(Message \union {NULL})
  /\ spurious \in 0..MaxSpurious

\* The objects stored are the objects read followed by those in the buffer,
\* in the same order: the channel neither loses, duplicates nor reorders an
\* object.  It speaks of the order of stores in dfsch_channel_write and of
\* removals in dfsch_channel_read.
FIFO ==
  /\ Len(sent) = Len(received) + Count
  /\ \A j \in 1..Len(received) : received[j] = sent[j]
  /\ \A k \in 1..Count : Buffered[k] = sent[Len(received) + k]

\* The channel implements the bounded pipe of BufLen - 1 places.
Abstract == INSTANCE Pipe WITH
  queue    <- Buffered,
  taken    <- received,
  Capacity <- BufLen - 1

ImplementsPipe == Abstract!Spec

\* A write that has begun stores its object, and some reader gets it, however
\* readers and writers block on each other in between: as long as there is an
\* object of a writer that nobody has read, reading goes on, and objects are
\* read in the order of FIFO.
EveryWriteIsRead ==
  \A w \in Writers :
    \/ []<>(\A n \in 1..written[w] : \E j \in DOMAIN received : received[j] = <<w, n>>)
    \/ []<><<Len(received') > Len(received)>>_received
=============================================================================
