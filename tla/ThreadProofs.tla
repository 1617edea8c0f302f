---------------------------- MODULE ThreadProofs ----------------------------
(***************************************************************************)
(* Proofs about Channel, for any number of threads and any buffer length,  *)
(* about Environment, for any number of threads, frames, variables and     *)
(* operations, and about Extref, for any number of threads and handles and *)
(* any times.                                                              *)
(***************************************************************************)
EXTENDS Channel, Environment, Extref, WellFoundedInduction, TLAPS

-----------------------------------------------------------------------------
(***************************************************************************)
(* Channel.                                                                *)
(***************************************************************************)

(***************************************************************************)
(* Arithmetic of the ring: every % of the module is a single step round    *)
(* the end of the buffer.                                                  *)
(***************************************************************************)

\* The remainder of a number below twice the divisor.
LEMMA ModOnce ==
  \A a \in Nat : a < 2 * BufLen =>
    a % BufLen = IF a < BufLen THEN a ELSE a - BufLen
BY BufLenAssumption

\* What the three ring operators of Channel are, without a remainder.
LEMMA RingArithmetic ==
  ASSUME readptr \in Places, writeptr \in Places
  PROVE  /\ Count = IF writeptr >= readptr THEN writeptr - readptr
                                           ELSE writeptr + BufLen - readptr
         /\ \A i \in Places : Succ(i) = IF i + 1 < BufLen THEN i + 1 ELSE 0
         /\ \A k \in 1..BufLen :
              Slot(k) = IF readptr + k - 1 < BufLen THEN readptr + k - 1
                                                    ELSE readptr + k - 1 - BufLen
<1>. USE BufLenAssumption DEF Places
<1>1. Count = IF writeptr >= readptr THEN writeptr - readptr
                                     ELSE writeptr + BufLen - readptr
  <2>1. writeptr + BufLen - readptr \in Nat /\ writeptr + BufLen - readptr < 2 * BufLen
    OBVIOUS
  <2>. QED  BY <2>1, ModOnce DEF Count
<1>2. ASSUME NEW i \in Places
      PROVE  Succ(i) = IF i + 1 < BufLen THEN i + 1 ELSE 0
  <2>1. i + 1 \in Nat /\ i + 1 < 2 * BufLen
    OBVIOUS
  <2>. QED  BY <2>1, ModOnce DEF Succ
<1>3. ASSUME NEW k \in 1..BufLen
      PROVE  Slot(k) = IF readptr + k - 1 < BufLen THEN readptr + k - 1
                                                   ELSE readptr + k - 1 - BufLen
  <2>1. readptr + (k - 1) \in Nat /\ readptr + (k - 1) < 2 * BufLen
    OBVIOUS
  <2>. QED  BY <2>1, ModOnce DEF Slot
<1>. QED  BY <1>1, <1>2, <1>3

-----------------------------------------------------------------------------
(***************************************************************************)
(* Types.  Store puts <<w, written[w]>> in the buffer: that it is a        *)
(* Message needs written[w] > 0 for a writer in the middle of a call.      *)
(***************************************************************************)
CallNumbered == \A w \in Writers : stage[w] # "idle" => written[w] > 0

TypeInv == ChannelTypeOK /\ CallNumbered

LEMMA TypeInit == ChannelInit => TypeInv
BY BufLenAssumption, BoundsAssumption
   DEF ChannelInit, TypeInv, ChannelTypeOK, CallNumbered, Places, Threads

LEMMA SuccIsSlot == \A i \in Places : Succ(i) \in Places
<1>. SUFFICES ASSUME NEW i \in Places
              PROVE  Succ(i) \in Places
  OBVIOUS
<1>. QED  BY BufLenAssumption, ModOnce DEF Succ, Places

LEMMA TypeStep == TypeInv /\ [ChannelNext]_channelVars => TypeInv'
<1>. SUFFICES ASSUME TypeInv, [ChannelNext]_channelVars
              PROVE  TypeInv'
  OBVIOUS
<1>. USE ThreadsAssumption, BoundsAssumption DEF TypeInv, ChannelTypeOK, CallNumbered,
         Move, Lock, Release, Signal, ring, Threads
<1>1. ASSUME NEW w \in Writers, BeginWrite(w)
      PROVE  TypeInv'
  BY <1>1, SuccIsSlot DEF BeginWrite
<1>2. ASSUME NEW w \in Writers, WaitFull(w)
      PROVE  TypeInv'
  BY <1>2 DEF WaitFull
<1>3. ASSUME NEW w \in Writers, Store(w)
      PROVE  TypeInv'
  <2>1. <<w, written[w]>> \in Message
    BY <1>3 DEF Store, Message
  <2>. QED  BY <1>3, <2>1 DEF Store
<1>4. ASSUME NEW w \in Writers, SignalReader(w)
      PROVE  TypeInv'
  BY <1>4 DEF SignalReader
<1>5. ASSUME NEW r \in Readers, BeginRead(r)
      PROVE  TypeInv'
  BY <1>5 DEF BeginRead
<1>6. ASSUME NEW r \in Readers, WaitEmpty(r)
      PROVE  TypeInv'
  BY <1>6 DEF WaitEmpty
<1>7. ASSUME NEW r \in Readers, Take(r)
      PROVE  TypeInv'
  BY <1>7, SuccIsSlot DEF Take
<1>8. ASSUME NEW r \in Readers, SignalWriter(r)
      PROVE  TypeInv'
  BY <1>8 DEF SignalWriter
<1>9. ASSUME NEW t \in Threads, Reacquire(t)
      PROVE  TypeInv'
  BY <1>9 DEF Reacquire
<1>10. ASSUME NEW t \in Threads, SpuriousWakeup(t)
       PROVE  TypeInv'
  BY <1>10 DEF SpuriousWakeup
<1>11. CASE UNCHANGED channelVars
  BY <1>11 DEF channelVars
<1>. QED
  BY <1>1, <1>2, <1>3, <1>4, <1>5, <1>6, <1>7, <1>8, <1>9, <1>10, <1>11
     DEF ChannelNext, Write, Read

\* Every state of the program is well typed, for any number of threads.
THEOREM ChannelTypeCorrect == ChannelSpec => []ChannelTypeOK
<1>1. TypeInv => ChannelTypeOK
  BY DEF TypeInv
<1>. QED  BY <1>1, TypeInit, TypeStep, PTL DEF ChannelSpec

-----------------------------------------------------------------------------
(***************************************************************************)
(* One writer.  dfsch_channel_write computes new_writeptr before its wait  *)
(* loop; with one writer nobody else moves writeptr while it waits, and    *)
(* that is what makes the channel a FIFO.                                  *)
(***************************************************************************)
NewWriteptrFresh ==
  \A w \in Writers : stage[w] \in {"check", "wait"} => new_writeptr[w] = Succ(writeptr)

FIFOInv == TypeInv /\ NewWriteptrFresh /\ FIFO

LEMMA FIFOInit == ChannelInit => FIFOInv
<1>. SUFFICES ASSUME ChannelInit PROVE FIFOInv
  OBVIOUS
<1>1. TypeInv
  BY TypeInit
<1>2. NewWriteptrFresh
  BY DEF ChannelInit, NewWriteptrFresh, Threads
<1>3. FIFO
  <2>1. Count = 0
    BY <1>1, RingArithmetic DEF ChannelInit, TypeInv, ChannelTypeOK
  <2>. QED  BY <2>1 DEF ChannelInit, FIFO
<1>. QED  BY <1>1, <1>2, <1>3 DEF FIFOInv

\* The store fills the first free slot and advances writeptr.
LEMMA StoreRing ==
  ASSUME TypeInv, NewWriteptrFresh, NEW w \in Writers, Store(w)
  PROVE  /\ Count \in Nat /\ Count + 1 < BufLen
         /\ Count' = Count + 1
         /\ \A k \in 1..Count : Buffered'[k] = Buffered[k]
         /\ Buffered'[Count + 1] = <<w, written[w]>>
         /\ <<w, written[w]>> \in Message
<1>1. /\ readptr \in Places /\ writeptr \in Places
      /\ readptr' = readptr /\ writeptr' = Succ(writeptr)
      /\ readptr # Succ(writeptr) /\ writeptr' \in Places
  BY SuccIsSlot DEF TypeInv, ChannelTypeOK, NewWriteptrFresh, Store, Move
<1>2. Succ(writeptr) = IF writeptr + 1 < BufLen THEN writeptr + 1 ELSE 0
  BY <1>1, RingArithmetic
<1>3. /\ Count = IF writeptr >= readptr THEN writeptr - readptr
                                        ELSE writeptr + BufLen - readptr
      /\ Count' = Count + 1
      /\ Count \in Nat /\ Count + 1 < BufLen
  <2>1. Count = IF writeptr >= readptr THEN writeptr - readptr
                                       ELSE writeptr + BufLen - readptr
    BY <1>1, RingArithmetic
  <2>2. Count' = IF writeptr' >= readptr' THEN writeptr' - readptr'
                                          ELSE writeptr' + BufLen - readptr'
    <3>1. writeptr' + BufLen - readptr' \in Nat /\ writeptr' + BufLen - readptr' < 2 * BufLen
      BY <1>1, BufLenAssumption DEF Places
    <3>. QED  BY <1>1, <3>1, BufLenAssumption, ModOnce DEF Count, Places
  <2>. QED  BY <1>1, <1>2, <2>1, <2>2, BufLenAssumption DEF Places
<1>4. /\ \A k \in 1..Count : Slot(k) # writeptr /\ Slot(k) \in Places
      /\ Slot(Count + 1) = writeptr
      /\ \A k \in 1..(Count + 1) : Slot(k)' = Slot(k)
  <2>. USE BufLenAssumption DEF Places
  <2>1. \A k \in 1..(Count + 1) :
          Slot(k) = IF readptr + k - 1 < BufLen THEN readptr + k - 1
                                                ELSE readptr + k - 1 - BufLen
    BY <1>1, <1>3, RingArithmetic
  <2>2. \A k \in 1..Count : Slot(k) # writeptr /\ Slot(k) \in Places
    BY <1>1, <1>3, <2>1
  <2>3. Slot(Count + 1) = writeptr
    BY <1>1, <1>3, <2>1
  <2>4. \A k \in 1..(Count + 1) : Slot(k)' = Slot(k)
    BY <1>1 DEF Slot
  <2>. QED  BY <2>2, <2>3, <2>4
<1>5. /\ buf \in [Places -> Message \union {NULL}]
      /\ buf' = [buf EXCEPT ![writeptr] = <<w, written[w]>>]
  BY DEF TypeInv, ChannelTypeOK, Store
<1>6. Buffered' = [k \in 1..Count' |-> buf'[Slot(k)']]
  BY DEF Buffered
<1>7. ASSUME NEW k \in 1..Count
      PROVE  Buffered'[k] = Buffered[k]
  <2>1. Buffered'[k] = buf'[Slot(k)]
    BY <1>3, <1>4, <1>6
  <2>2. buf'[Slot(k)] = buf[Slot(k)]
    BY <1>4, <1>5
  <2>. QED  BY <2>1, <2>2 DEF Buffered
<1>8. Buffered'[Count + 1] = <<w, written[w]>>
  <2>1. Buffered'[Count + 1] = buf'[writeptr]
    BY <1>3, <1>4, <1>6
  <2>. QED  BY <1>1, <1>5, <2>1
<1>9. <<w, written[w]>> \in Message
  <2>1. written[w] \in 0..MaxMessages
    BY DEF TypeInv, ChannelTypeOK
  <2>2. written[w] > 0
    BY DEF TypeInv, CallNumbered, Store, Move
  <2>. QED  BY <2>1, <2>2, BoundsAssumption DEF Message
<1>. QED  BY <1>3, <1>7, <1>8, <1>9

\* A reader takes the oldest object and advances readptr.
LEMMA TakeRing ==
  ASSUME TypeInv, NEW r \in Readers, Take(r)
  PROVE  /\ Count \in Nat /\ Count >= 1 /\ Count' = Count - 1
         /\ \A k \in Nat : 1 <= k /\ k + 1 <= Count => Buffered'[k] = Buffered[k + 1]
         /\ Buffered[1] = buf[readptr]
         /\ buf[readptr] \in Message \union {NULL}
<1>1. /\ readptr \in Places /\ writeptr \in Places
      /\ readptr' = Succ(readptr) /\ writeptr' = writeptr
      /\ readptr # writeptr /\ readptr' \in Places
  BY SuccIsSlot DEF TypeInv, ChannelTypeOK, Take, Empty
<1>2. Succ(readptr) = IF readptr + 1 < BufLen THEN readptr + 1 ELSE 0
  BY <1>1, RingArithmetic
<1>3. /\ Count = IF writeptr >= readptr THEN writeptr - readptr
                                        ELSE writeptr + BufLen - readptr
      /\ Count' = Count - 1
      /\ Count \in Nat /\ Count >= 1 /\ Count < BufLen
  <2>1. Count = IF writeptr >= readptr THEN writeptr - readptr
                                       ELSE writeptr + BufLen - readptr
    BY <1>1, RingArithmetic
  <2>2. Count' = IF writeptr' >= readptr' THEN writeptr' - readptr'
                                          ELSE writeptr' + BufLen - readptr'
    <3>1. writeptr' + BufLen - readptr' \in Nat /\ writeptr' + BufLen - readptr' < 2 * BufLen
      BY <1>1, BufLenAssumption DEF Places
    <3>. QED  BY <1>1, <3>1, BufLenAssumption, ModOnce DEF Count, Places
  <2>. QED  BY <1>1, <1>2, <2>1, <2>2, BufLenAssumption DEF Places
<1>4. /\ Slot(1) = readptr
      /\ \A k \in Nat : 1 <= k /\ k + 1 <= Count => /\ Slot(k)' = Slot(k + 1)
                                                    /\ Slot(k + 1) # readptr
                                                    /\ Slot(k + 1) \in Places
  <2>. USE BufLenAssumption DEF Places
  <2>1. \A k \in 1..Count :
          Slot(k) = IF readptr + k - 1 < BufLen THEN readptr + k - 1
                                                ELSE readptr + k - 1 - BufLen
    BY <1>1, <1>3, RingArithmetic
  <2>2. ASSUME NEW k \in Nat, 1 <= k, k + 1 <= Count
        PROVE  Slot(k)' = IF readptr' + k - 1 < BufLen THEN readptr' + k - 1
                                                       ELSE readptr' + k - 1 - BufLen
    <3>1. readptr' + (k - 1) \in Nat /\ readptr' + (k - 1) < 2 * BufLen
      BY <1>1, <1>3, <2>2
    <3>. QED  BY <1>1, <3>1, ModOnce DEF Slot
  <2>3. Slot(1) = readptr
    BY <1>1, <1>3, <2>1
  <2>4. ASSUME NEW k \in Nat, 1 <= k, k + 1 <= Count
        PROVE  Slot(k)' = Slot(k + 1) /\ Slot(k + 1) # readptr /\ Slot(k + 1) \in Places
    <3>1. Slot(k + 1) = IF readptr + k < BufLen THEN readptr + k
                                                ELSE readptr + k - BufLen
      BY <1>1, <1>3, <2>1, <2>4
    <3>. QED  BY <1>1, <1>2, <1>3, <2>2, <2>4, <3>1
  <2>. QED  BY <2>3, <2>4
<1>5. /\ buf \in [Places -> Message \union {NULL}]
      /\ buf' = [buf EXCEPT ![readptr] = NULL]
      /\ buf[readptr] \in Message \union {NULL}
  BY <1>1 DEF TypeInv, ChannelTypeOK, Take
<1>6. Buffered' = [k \in 1..Count' |-> buf'[Slot(k)']]
  BY DEF Buffered
<1>7. ASSUME NEW k \in Nat, 1 <= k, k + 1 <= Count
      PROVE  Buffered'[k] = Buffered[k + 1]
  <2>1. Buffered'[k] = buf'[Slot(k + 1)]
    BY <1>3, <1>4, <1>6, <1>7
  <2>2. buf'[Slot(k + 1)] = buf[Slot(k + 1)]
    BY <1>4, <1>5, <1>7
  <2>3. Buffered[k + 1] = buf[Slot(k + 1)]
    BY <1>3, <1>7 DEF Buffered
  <2>. QED  BY <2>1, <2>2, <2>3
<1>8. Buffered[1] = buf[readptr]
  BY <1>3, <1>4 DEF Buffered
<1>. QED  BY <1>3, <1>5, <1>7, <1>8

\* A step that leaves the ring and the histories alone keeps FIFO.
LEMMA FIFOUnchanged ==
  ASSUME FIFO, UNCHANGED <<ring, sent, received>>
  PROVE  FIFO' /\ UNCHANGED Buffered
BY DEF FIFO, ring, Count, Slot, Buffered

LEMMA StoreStep ==
  ASSUME FIFOInv, NEW w \in Writers, Store(w)
  PROVE  FIFO'
<1>1. /\ Count \in Nat
      /\ Count' = Count + 1
      /\ \A k \in 1..Count : Buffered'[k] = Buffered[k]
      /\ Buffered'[Count + 1] = <<w, written[w]>>
      /\ <<w, written[w]>> \in Message
  BY StoreRing DEF FIFOInv
<1>2. /\ sent \in Seq(Message) /\ sent' = Append(sent, <<w, written[w]>>)
      /\ received \in Seq(Message \union {NULL}) /\ received' = received
  BY DEF FIFOInv, TypeInv, ChannelTypeOK, Store
<1>3. /\ Len(sent) = Len(received) + Count
      /\ \A j \in 1..Len(received) : received[j] = sent[j]
      /\ \A k \in 1..Count : Buffered[k] = sent[Len(received) + k]
  BY DEF FIFOInv, FIFO
<1>4. /\ Len(sent') = Len(sent) + 1
      /\ \A j \in 1..Len(sent) : sent'[j] = sent[j]
      /\ sent'[Len(sent) + 1] = <<w, written[w]>>
  BY <1>1, <1>2
<1>5. Len(sent') = Len(received') + Count'
  BY <1>1, <1>2, <1>3, <1>4
<1>6. \A j \in 1..Len(received') : received'[j] = sent'[j]
  BY <1>1, <1>2, <1>3, <1>4
<1>7. ASSUME NEW k \in Nat, 1 <= k, k <= Count'
      PROVE  Buffered'[k] = sent'[Len(received') + k]
  <2>1. CASE k <= Count
    <3>1. k \in 1..Count
      BY <1>1, <1>7, <2>1
    <3>2. Len(received) + k \in 1..Len(sent)
      BY <1>1, <1>2, <1>3, <1>7, <2>1
    <3>3. sent'[Len(received) + k] = sent[Len(received) + k]
      BY <1>4, <3>2
    <3>. QED  BY <1>1, <1>2, <1>3, <3>1, <3>3
  <2>2. CASE k = Count + 1
    <3>1. Len(received) + k = Len(sent) + 1
      BY <1>1, <1>2, <1>3, <2>2
    <3>. QED  BY <1>1, <1>2, <1>4, <2>2, <3>1
  <2>. QED  BY <1>1, <1>7, <2>1, <2>2
<1>. QED  BY <1>1, <1>5, <1>6, <1>7 DEF FIFO

LEMMA TakeStep ==
  ASSUME FIFOInv, NEW r \in Readers, Take(r)
  PROVE  FIFO'
<1>1. /\ Count \in Nat /\ Count >= 1 /\ Count' = Count - 1
      /\ \A k \in Nat : 1 <= k /\ k + 1 <= Count => Buffered'[k] = Buffered[k + 1]
      /\ Buffered[1] = buf[readptr]
      /\ buf[readptr] \in Message \union {NULL}
  BY TakeRing DEF FIFOInv
<1>2. /\ sent \in Seq(Message) /\ sent' = sent
      /\ received \in Seq(Message \union {NULL})
      /\ received' = Append(received, buf[readptr])
  BY DEF FIFOInv, TypeInv, ChannelTypeOK, Take
<1>3. /\ Len(sent) = Len(received) + Count
      /\ \A j \in 1..Len(received) : received[j] = sent[j]
      /\ \A k \in 1..Count : Buffered[k] = sent[Len(received) + k]
  BY DEF FIFOInv, FIFO
<1>4. /\ Len(received') = Len(received) + 1
      /\ received'[Len(received) + 1] = buf[readptr]
      /\ \A j \in 1..Len(received) : received'[j] = received[j]
  BY <1>1, <1>2
<1>5. Len(sent') = Len(received') + Count'
  BY <1>1, <1>2, <1>3, <1>4
<1>6. \A j \in 1..Len(received') : received'[j] = sent'[j]
  <2>1. buf[readptr] = sent[Len(received) + 1]
    <3>1. 1 \in 1..Count
      BY <1>1
    <3>. QED  BY <1>1, <1>3, <3>1
  <2>. QED  BY <1>2, <1>3, <1>4, <2>1
<1>7. ASSUME NEW k \in Nat, 1 <= k, k <= Count'
      PROVE  Buffered'[k] = sent'[Len(received') + k]
  <2>1. Buffered'[k] = Buffered[k + 1]
    BY <1>1, <1>7
  <2>2. Buffered[k + 1] = sent[Len(received) + (k + 1)]
    <3>1. k + 1 \in 1..Count
      BY <1>1, <1>7
    <3>. QED  BY <1>3, <3>1
  <2>. QED  BY <1>2, <1>4, <2>1, <2>2
<1>. QED  BY <1>1, <1>5, <1>6, <1>7 DEF FIFO

\* Only the writer itself moves writeptr, when it leaves its loop.
LEMMA FreshStep ==
  ASSUME NEW w0, Writers = {w0}, FIFOInv, [ChannelNext]_channelVars
  PROVE  NewWriteptrFresh'
<1>. USE DEF FIFOInv, TypeInv, ChannelTypeOK, NewWriteptrFresh, Move, ring, Threads
<1>0. ASSUME UNCHANGED <<writeptr, new_writeptr>>,
             \A w \in Writers : stage'[w] \in {"check", "wait"} => stage[w] \in {"check", "wait"}
      PROVE  NewWriteptrFresh'
  BY <1>0 DEF Succ
<1>1. ASSUME NEW w \in Writers, BeginWrite(w)
      PROVE  NewWriteptrFresh'
  BY <1>1 DEF BeginWrite, Succ
<1>2. ASSUME NEW w \in Writers, WaitFull(w)
      PROVE  NewWriteptrFresh'
  BY <1>0, <1>2 DEF WaitFull
<1>3. ASSUME NEW w \in Writers, Store(w)
      PROVE  NewWriteptrFresh'
  BY <1>3 DEF Store
<1>4. ASSUME NEW w \in Writers, SignalReader(w)
      PROVE  NewWriteptrFresh'
  BY <1>0, <1>4 DEF SignalReader
<1>5. ASSUME NEW r \in Readers, BeginRead(r) \/ Read(r)
      PROVE  NewWriteptrFresh'
  <2>1. UNCHANGED <<writeptr, new_writeptr>>
    BY <1>5 DEF BeginRead, Read, WaitEmpty, Take, SignalWriter
  <2>2. \A w \in Writers : stage'[w] = stage[w]
    BY <1>5, ThreadsAssumption DEF BeginRead, Read, WaitEmpty, Take, SignalWriter
  <2>. QED  BY <1>0, <2>1, <2>2
<1>6. ASSUME NEW t \in Threads, Reacquire(t) \/ SpuriousWakeup(t)
      PROVE  NewWriteptrFresh'
  BY <1>0, <1>6 DEF Reacquire, SpuriousWakeup
<1>7. CASE UNCHANGED channelVars
  BY <1>0, <1>7 DEF channelVars
<1>. QED
  BY <1>1, <1>2, <1>3, <1>4, <1>5, <1>6, <1>7 DEF ChannelNext, Write

LEMMA FIFOStep ==
  ASSUME NEW w0, Writers = {w0}, FIFOInv, [ChannelNext]_channelVars
  PROVE  FIFOInv'
<1>1. TypeInv'
  BY TypeStep DEF FIFOInv
<1>2. NewWriteptrFresh'
  BY FreshStep
<1>3. FIFO'
  <2>1. ASSUME NEW w \in Writers, Store(w)
        PROVE  FIFO'
    BY <2>1, StoreStep
  <2>2. ASSUME NEW r \in Readers, Take(r)
        PROVE  FIFO'
    BY <2>2, TakeStep
  <2>3. ASSUME UNCHANGED <<ring, sent, received>>
        PROVE  FIFO'
    BY <2>3, FIFOUnchanged DEF FIFOInv
  <2>4. ASSUME NEW w \in Writers, BeginWrite(w) \/ WaitFull(w) \/ SignalReader(w)
        PROVE  FIFO'
    BY <2>3, <2>4 DEF BeginWrite, WaitFull, SignalReader
  <2>5. ASSUME NEW r \in Readers, BeginRead(r) \/ WaitEmpty(r) \/ SignalWriter(r)
        PROVE  FIFO'
    BY <2>3, <2>5 DEF BeginRead, WaitEmpty, SignalWriter
  <2>6. ASSUME NEW t \in Threads, Reacquire(t) \/ SpuriousWakeup(t)
        PROVE  FIFO'
    BY <2>3, <2>6 DEF Reacquire, SpuriousWakeup
  <2>7. CASE UNCHANGED channelVars
    BY <2>3, <2>7 DEF channelVars
  <2>. QED
    BY <2>1, <2>2, <2>4, <2>5, <2>6, <2>7 DEF ChannelNext, Write, Read
<1>. QED  BY <1>1, <1>2, <1>3 DEF FIFOInv

\* With a single writer, and any number of readers, the channel delivers
\* exactly the objects written, in order.
THEOREM OneWriterFIFO ==
  ASSUME NEW w0, Writers = {w0}
  PROVE  ChannelSpec => []FIFO
<1>1. ChannelInit => FIFOInv
  BY FIFOInit
<1>2. FIFOInv /\ [ChannelNext]_channelVars => FIFOInv'
  BY FIFOStep
<1>3. FIFOInv => FIFO
  BY DEF FIFOInv
<1>. QED  BY <1>1, <1>2, <1>3, PTL DEF ChannelSpec

-----------------------------------------------------------------------------
(***************************************************************************)
(* The bounded pipe.  A store is a Put, a removal is a Take, and every     *)
(* other step changes neither the buffer nor the history of reads.         *)
(***************************************************************************)
LEMMA BufferedTyped ==
  ASSUME FIFOInv
  PROVE  /\ Count \in Nat
         /\ Buffered \in Seq(Message) /\ Len(Buffered) = Count
<1>1. Count \in Nat
  BY RingArithmetic, BufLenAssumption DEF FIFOInv, TypeInv, ChannelTypeOK, Places
<1>2. /\ sent \in Seq(Message) /\ received \in Seq(Message \union {NULL})
      /\ Len(sent) = Len(received) + Count
      /\ \A k \in 1..Count : Buffered[k] = sent[Len(received) + k]
  BY DEF FIFOInv, TypeInv, ChannelTypeOK, FIFO
<1>3. ASSUME NEW k \in 1..Count
      PROVE  Buffered[k] \in Message
  <2>1. Len(received) + k \in 1..Len(sent)
    BY <1>1, <1>2
  <2>. QED  BY <1>2, <2>1
<1>4. Buffered = [k \in 1..Count |-> Buffered[k]]
  BY DEF Buffered
<1>. QED  BY <1>1, <1>3, <1>4

LEMMA StoreIsPut ==
  ASSUME FIFOInv, FIFOInv', NEW w \in Writers, Store(w)
  PROVE  Abstract!Put(<<w, written[w]>>) /\ <<w, written[w]>> \in Message
<1>1. /\ Count \in Nat /\ Count + 1 < BufLen
      /\ Count' = Count + 1
      /\ \A k \in 1..Count : Buffered'[k] = Buffered[k]
      /\ Buffered'[Count + 1] = <<w, written[w]>>
      /\ <<w, written[w]>> \in Message
  BY StoreRing DEF FIFOInv
<1>2. Buffered \in Seq(Message) /\ Len(Buffered) = Count
  BY BufferedTyped
<1>3. Buffered' \in Seq(Message) /\ Len(Buffered') = Count + 1
  <2>1. (Buffered \in Seq(Message) /\ Len(Buffered) = Count)'
    BY BufferedTyped, PTL
  <2>. QED  BY <1>1, <2>1
<1>4. Buffered' = Append(Buffered, <<w, written[w]>>)
  BY <1>1, <1>2, <1>3
<1>5. Len(Buffered) < BufLen - 1
  BY <1>1, <1>2, BufLenAssumption
<1>6. received' = received
  BY DEF Store
<1>. QED  BY <1>1, <1>4, <1>5, <1>6 DEF Abstract!Put

LEMMA TakeIsTake ==
  ASSUME FIFOInv, FIFOInv', NEW r \in Readers, Take(r)
  PROVE  Abstract!Take
<1>1. /\ Count \in Nat /\ Count >= 1 /\ Count' = Count - 1
      /\ \A k \in Nat : 1 <= k /\ k + 1 <= Count => Buffered'[k] = Buffered[k + 1]
      /\ Buffered[1] = buf[readptr]
  BY TakeRing DEF FIFOInv
<1>2. Buffered \in Seq(Message) /\ Len(Buffered) = Count
  BY BufferedTyped
<1>3. Buffered' \in Seq(Message) /\ Len(Buffered') = Count - 1
  <2>1. (Buffered \in Seq(Message) /\ Len(Buffered) = Count)'
    BY BufferedTyped, PTL
  <2>. QED  BY <1>1, <2>1
<1>4. Buffered # <<>>
  BY <1>1, <1>2
<1>5. Buffered' = Tail(Buffered)
  <2>1. Tail(Buffered) \in Seq(Message) /\ Len(Tail(Buffered)) = Count - 1
    BY <1>1, <1>2
  <2>2. \A k \in 1..(Count - 1) : Tail(Buffered)[k] = Buffered[k + 1]
    BY <1>1, <1>2
  <2>3. \A k \in 1..(Count - 1) : Buffered'[k] = Buffered[k + 1]
    BY <1>1
  <2>. QED  BY <1>3, <2>1, <2>2, <2>3
<1>6. received' = Append(received, Head(Buffered))
  BY <1>1, <1>2 DEF Take
<1>. QED  BY <1>4, <1>5, <1>6 DEF Abstract!Take

\* With a single writer the channel implements the bounded pipe.
THEOREM OneWriterImplementsPipe ==
  ASSUME NEW w0, Writers = {w0}
  PROVE  ChannelSpec => ImplementsPipe
<1>1. ChannelInit => Abstract!Init
  <2>. SUFFICES ASSUME ChannelInit PROVE Abstract!Init
    OBVIOUS
  <2>1. Count = 0
    BY RingArithmetic, BufLenAssumption DEF ChannelInit, Places
  <2>2. Buffered = <<>>
    BY <2>1 DEF Buffered
  <2>. QED  BY <2>2 DEF ChannelInit, Abstract!Init
<1>2. FIFOInv /\ FIFOInv' /\ [ChannelNext]_channelVars => [Abstract!Next]_<<Buffered, received>>
  <2>. SUFFICES ASSUME FIFOInv, FIFOInv', [ChannelNext]_channelVars
                PROVE  [Abstract!Next]_<<Buffered, received>>
    OBVIOUS
  <2>1. ASSUME NEW w \in Writers, Store(w)
        PROVE  Abstract!Next
    BY <2>1, StoreIsPut DEF Abstract!Next
  <2>2. ASSUME NEW r \in Readers, Take(r)
        PROVE  Abstract!Next
    BY <2>2, TakeIsTake DEF Abstract!Next
  <2>3. ASSUME UNCHANGED <<ring, sent, received>>
        PROVE  UNCHANGED <<Buffered, received>>
    BY <2>3, FIFOUnchanged DEF FIFOInv
  <2>4. ASSUME NEW w \in Writers, BeginWrite(w) \/ WaitFull(w) \/ SignalReader(w)
        PROVE  UNCHANGED <<Buffered, received>>
    BY <2>3, <2>4 DEF BeginWrite, WaitFull, SignalReader
  <2>5. ASSUME NEW r \in Readers, BeginRead(r) \/ WaitEmpty(r) \/ SignalWriter(r)
        PROVE  UNCHANGED <<Buffered, received>>
    BY <2>3, <2>5 DEF BeginRead, WaitEmpty, SignalWriter
  <2>6. ASSUME NEW t \in Threads, Reacquire(t) \/ SpuriousWakeup(t)
        PROVE  UNCHANGED <<Buffered, received>>
    BY <2>3, <2>6 DEF Reacquire, SpuriousWakeup
  <2>7. CASE UNCHANGED channelVars
    BY <2>3, <2>7 DEF channelVars
  <2>. QED
    BY <2>1, <2>2, <2>4, <2>5, <2>6, <2>7 DEF ChannelNext, Write, Read
<1>3. ChannelInit => FIFOInv
  BY FIFOInit
<1>4. FIFOInv /\ [ChannelNext]_channelVars => FIFOInv'
  BY FIFOStep
<1>. QED  BY <1>1, <1>2, <1>3, <1>4, PTL DEF ChannelSpec, ImplementsPipe, Abstract!Spec

-----------------------------------------------------------------------------
(***************************************************************************)
(* Environment.                                                            *)
(***************************************************************************)

(***************************************************************************)
(* The search of the slots.                                                *)
(***************************************************************************)

\* Search returns 0, or the index of a slot that holds the key.
LEMMA SearchFinds ==
  ASSUME NEW f \in Frame, NEW key
  PROVE  /\ Search(f, key) \in 0..Slots
         /\ Search(f, key) # 0 => values[f][Search(f, key)] = key
<1>. DEFINE at == {i \in 1..Slots : values[f][i] = key}
<1>1. CASE at = {}
  BY <1>1, SlotsAssumption DEF Search
<1>2. CASE at # {}
  <2>1. at \in SUBSET Nat /\ at # {}
    BY <1>2, SlotsAssumption
  <2>2. PICK i \in at : \A j \in at : ~(<<j, i>> \in OpToRel(<, Nat))
    BY <2>1, NatLessThanWellFounded, WFMin, Zenon
  <2>. HIDE DEF at
  <2>3. \A j \in at : i <= j
    <3>1. OpToRel(<, Nat) = {ss \in Nat \X Nat : ss[1] < ss[2]}
      BY DEF OpToRel
    <3>2. ASSUME NEW j \in at
          PROVE  i <= j
      <4>1. i \in Nat /\ j \in Nat
        BY <2>1
      <4>2. ~(j < i)
        <5>1. SUFFICES ASSUME j < i
                       PROVE  <<j, i>> \in {ss \in Nat \X Nat : ss[1] < ss[2]}
          BY <2>2, <3>1
        <5>. QED  BY <4>1, <5>1
      <4>. QED  BY <4>1, <4>2
    <3>. QED  BY <3>2
  <2>4. Search(f, key) \in at
    BY <1>2, <2>3 DEF at, Search
  <2>. QED  BY <2>4, SlotsAssumption DEF at
<1>. QED  BY <1>1, <1>2

\* What an access finds is a slot, free for a definition that is fresh and
\* otherwise the slot of the variable.
LEMMA FindFinds ==
  ASSUME NEW f \in Frame, NEW o, NEW n
  PROVE  /\ Find(o, n, f) \in 0..Slots
         /\ Find(o, n, f) # 0 =>
              values[f][Find(o, n, f)] =
                IF o = "define" /\ Search(f, n) = 0 THEN NoName ELSE n
<1>1. CASE Search(f, n) = 0 /\ o = "define"
  BY <1>1, SearchFinds DEF Find
<1>2. CASE ~(Search(f, n) = 0 /\ o = "define")
  BY <1>2, SearchFinds DEF Find
<1>. QED  BY <1>1, <1>2

-----------------------------------------------------------------------------
(***************************************************************************)
(* The lock and the owner.  RacesAreBiased needs to know that a thread     *)
(* that accesses a frame without the lock is its creator, and that one     *)
(* that does so with the lock still holds it; TypeOK, that dfsch_define    *)
(* never takes the way of the owner out of a frame it has locked.          *)
(***************************************************************************)
Holds(t) == t \in readers \/ writer = t

OwnerIsCreator == \A f \in Frame : owner[f] \in {Creator[f], NoThread}

InFrame == \A t \in Thread : pc[t] # "idle" => frame[t] \in Frame

FreeIsCreator == \A t \in Thread : pc[t] = "free" => Creator[frame[t]] = t

DefineRechecks == \A t \in Thread :
  \/ pc[t] \in {"lock", "locked"} /\ op[t] = "define"
  \/ pc[t] = "recheck" /\ Holds(t)
  => owner[frame[t]] # t

LockHeld == ~broken => \A t \in Thread :
  pc[t] = "locked" => IF LocksForWriting(op[t]) THEN writer = t ELSE t \in readers

LockInv ==
  /\ TypeOK /\ OwnerIsCreator /\ InFrame
  /\ FreeIsCreator /\ DefineRechecks /\ LockHeld

LEMMA LockInit == Init => LockInv
<1>. SUFFICES ASSUME Init
              PROVE  LockInv
  OBVIOUS
<1>1. name \in [Thread -> Name]
  <2>1. (CHOOSE n \in Name : TRUE) \in Name
    BY FrameAssumption
  <2>. DEFINE any == CHOOSE n \in Name : TRUE
  <2>2. name = [t \in Thread |-> any]
    BY DEF Init
  <2>. HIDE DEF any
  <2>3. any \in Name
    BY <2>1 DEF any
  <2>. QED  BY <2>2, <2>3
<1>2. TypeOK
  <2>1. /\ owner \in [Frame -> Thread \union {NoThread}] /\ readers = {} /\ writer = NoThread
        /\ pc = [t \in Thread |-> "idle"] /\ op \in [Thread -> Op]
        /\ frame \in [Thread -> Frame \union {NoFrame}] /\ slot \in [Thread -> 0..Slots]
        /\ fresh \in [Thread -> BOOLEAN] /\ ops \in 0..MaxOps
        /\ defined \in [Frame -> SUBSET Name] /\ raced = {} /\ broken = FALSE
    BY FrameAssumption, SlotsAssumption DEF Init, Op
  <2>2. values \in [Frame -> [1..Slots -> Name \union {NoName}]]
    BY DEF Init
  <2>. QED  BY <1>1, <2>1, <2>2, FrameAssumption DEF TypeOK
<1>. QED
  BY <1>2, FrameAssumption
     DEF Init, LockInv, OwnerIsCreator, InFrame, FreeIsCreator, DefineRechecks,
         LockHeld, Holds

\* The steps of one thread: where it goes, and what it leaves alone.
LEMMA LockStep == LockInv /\ [Next]_vars => LockInv'
<1>. SUFFICES ASSUME LockInv, [Next]_vars
              PROVE  LockInv'
  OBVIOUS
<1>. USE FrameAssumption, SlotsAssumption
     DEF LockInv, TypeOK, OwnerIsCreator, InFrame, FreeIsCreator, DefineRechecks,
         LockHeld, Holds, Goto, lock, call
<1>1. raced' \subseteq Frame
  <2>1. ASSUME NoteRaces
        PROVE  raced' \subseteq Frame
    BY <2>1 DEF NoteRaces
  <2>. QED  BY <2>1 DEF Next, Step, Call, vars
<1>2. ASSUME NEW t \in Thread, NEW o \in Op, NEW n \in Name, NEW f \in Frame, Begin(t, o, n, f)
      PROVE  LockInv'
  <2>1. TypeOK'
    BY <1>1, <1>2 DEF Begin
  <2>2. OwnerIsCreator' /\ InFrame' /\ FreeIsCreator' /\ LockHeld'
    BY <1>2 DEF Begin
  <2>3. DefineRechecks'
    BY <1>2 DEF Begin, Biased
  <2>. QED  BY <2>1, <2>2, <2>3
<1>3. ASSUME NEW t \in Thread, CheckOwner(t)
      PROVE  LockInv'
  <2>1. CASE owner[frame[t]] = t /\ Access(t, frame[t], "free") /\ UNCHANGED owner
    <3>1. frame[t] \in Frame /\ Find(op[t], name[t], frame[t]) \in 0..Slots
      BY <1>3, FindFinds DEF CheckOwner
    <3>2. TypeOK'
      BY <1>1, <1>3, <2>1, <3>1 DEF CheckOwner, Access
    <3>. QED  BY <1>3, <2>1, <3>1, <3>2 DEF CheckOwner, Access
  <2>2. CASE owner[frame[t]] # t /\ Revoke(t, frame[t]) /\ Goto(t, "lock") /\ UNCHANGED call
    <3>1. frame[t] \in Frame
      BY <1>3 DEF CheckOwner
    <3>2. TypeOK'
      BY <1>1, <1>3, <2>2, <3>1 DEF CheckOwner, Revoke
    <3>. QED  BY <1>3, <2>2, <3>1, <3>2 DEF CheckOwner, Revoke
  <2>. QED  BY <1>3, <2>1, <2>2 DEF CheckOwner
<1>4. ASSUME NEW t \in Thread, Acquire(t)
      PROVE  LockInv'
  <2>1. frame[t] \in Frame /\ Find(op[t], name[t], frame[t]) \in 0..Slots
    BY <1>4, FindFinds DEF Acquire
  <2>2. TypeOK'
    BY <1>1, <1>4, <2>1 DEF Acquire, Access
  <2>3. OwnerIsCreator' /\ InFrame' /\ FreeIsCreator' /\ DefineRechecks'
    BY <1>4, <2>1 DEF Acquire, Access
  <2>4. LockHeld'
    BY <1>4, <2>1 DEF Acquire, Access
  <2>. QED  BY <2>2, <2>3, <2>4
<1>5. ASSUME NEW t \in Thread, Hit(t)
      PROVE  LockInv'
  <2>1. frame[t] \in Frame /\ slot[t] \in 1..Slots
    BY <1>5 DEF Hit, Accessing, Found
  <2>2. values' \in [Frame -> [1..Slots -> Name \union {NoName}]]
    BY <1>5, <2>1 DEF Hit, Change
  <2>3. defined' \in [Frame -> SUBSET Name]
    BY <1>5, <2>1 DEF Hit, NoteDefine
  <2>4. CASE op[t] = "define" /\ Goto(t, "recheck") /\ UNCHANGED call
    BY <1>1, <1>5, <2>1, <2>2, <2>3, <2>4 DEF Hit, Accessing
  <2>5. CASE op[t] # "define" /\ pc[t] = "free" /\ Finish(t)
    BY <1>1, <1>5, <2>1, <2>2, <2>3, <2>5 DEF Hit, Finish
  <2>6. CASE op[t] # "define" /\ pc[t] = "locked" /\ Goto(t, "unlock") /\ UNCHANGED call
    BY <1>1, <1>5, <2>1, <2>2, <2>3, <2>6 DEF Hit
  <2>. QED  BY <1>5, <2>4, <2>5, <2>6 DEF Hit
<1>6. ASSUME NEW t \in Thread, MissFree(t)
      PROVE  LockInv'
  <2>1. CASE /\ Parent[frame[t]] # NoFrame
             /\ Goto(t, "check")
             /\ frame' = [frame EXCEPT ![t] = Parent[frame[t]]]
             /\ UNCHANGED <<op, name, slot, fresh>>
    <3>1. frame[t] \in Frame /\ Parent[frame[t]] \in Frame
      BY <1>6, <2>1 DEF MissFree
    <3>. QED  BY <1>1, <1>6, <2>1, <3>1 DEF MissFree
  <2>2. CASE Parent[frame[t]] = NoFrame /\ Finish(t)
    BY <1>1, <1>6, <2>2 DEF MissFree, Finish
  <2>. QED  BY <1>6, <2>1, <2>2 DEF MissFree
<1>7. ASSUME NEW t \in Thread, MissLocked(t)
      PROVE  LockInv'
  <2>1. frame[t] \in Frame
    BY <1>7 DEF MissLocked
  <2>2. /\ owner' \in [Frame -> Thread \union {NoThread}] /\ OwnerIsCreator'
        /\ \A f \in Frame : owner'[f] \in {owner[f], NoThread}
    BY <1>7, <2>1 DEF MissLocked, Revoke
  <2>3. CASE Parent[frame[t]] # NoFrame /\ Access(t, Parent[frame[t]], "locked")
    <3>1. Parent[frame[t]] \in Frame /\ Find(op[t], name[t], Parent[frame[t]]) \in 0..Slots
      BY <2>1, <2>3, FindFinds
    <3>2. TypeOK'
      BY <1>1, <1>7, <2>1, <2>2, <2>3, <3>1 DEF MissLocked, Access
    <3>3. InFrame' /\ FreeIsCreator' /\ LockHeld'
      BY <1>7, <2>3, <3>1 DEF MissLocked, Access
    <3>4. DefineRechecks'
      BY <1>7, <2>2, <2>3, <3>1 DEF MissLocked, Missed, Access
    <3>. QED  BY <2>2, <3>2, <3>3, <3>4
  <2>4. CASE Parent[frame[t]] = NoFrame /\ Goto(t, "unlock") /\ UNCHANGED call
    <3>1. TypeOK' /\ InFrame' /\ FreeIsCreator' /\ LockHeld'
      BY <1>1, <1>7, <2>1, <2>2, <2>4 DEF MissLocked
    <3>2. DefineRechecks'
      BY <1>7, <2>2, <2>4 DEF MissLocked
    <3>. QED  BY <2>2, <3>1, <3>2
  <2>. QED  BY <1>7, <2>3, <2>4 DEF MissLocked
<1>8. ASSUME NEW t \in Thread, Recheck(t)
      PROVE  LockInv'
  <2>1. CASE owner[frame[t]] = t /\ Finish(t)
    <3>1. ~Holds(t)
      BY <1>8, <2>1 DEF Recheck
    <3>2. TypeOK' /\ OwnerIsCreator' /\ InFrame' /\ FreeIsCreator'
      BY <1>1, <1>8, <2>1, <3>1 DEF Recheck, Finish
    <3>3. DefineRechecks' /\ LockHeld'
      BY <1>8, <2>1 DEF Recheck, Finish
    <3>. QED  BY <3>2, <3>3
  <2>2. CASE owner[frame[t]] # t /\ Goto(t, "unlock") /\ UNCHANGED call
    BY <1>1, <1>8, <2>2 DEF Recheck
  <2>. QED  BY <1>8, <2>1, <2>2 DEF Recheck
<1>9. ASSUME NEW t \in Thread, Unlock(t)
      PROVE  LockInv'
  <2>1. /\ readers' \subseteq readers /\ writer' \in {writer, NoThread}
        /\ writer' # t /\ t \notin readers'
        /\ broken' \in BOOLEAN
        /\ ~broken' => /\ ~broken
                       /\ \A s \in Thread \ {t} : /\ s \in readers => s \in readers'
                                                  /\ writer = s => writer' = s
    <3>1. CASE Holds(t)
      <4>1. readers' = readers \ {t} /\ writer' = IF writer = t THEN NoThread ELSE writer
        BY <1>9, <3>1 DEF Unlock
      <4>2. broken' = broken
        BY <1>9, <3>1 DEF Unlock
      <4>. QED  BY <4>1, <4>2
    <3>2. CASE ~Holds(t)
      <4>1. broken' = TRUE
        BY <1>9, <3>2 DEF Unlock
      <4>2. readers' \subseteq readers /\ writer' \in {writer, NoThread}
        BY <1>9, <3>2 DEF Unlock
      <4>. QED  BY <3>2, <4>1, <4>2
    <3>. QED  BY <3>1, <3>2
  <2>2. TypeOK' /\ OwnerIsCreator' /\ InFrame' /\ FreeIsCreator'
    BY <1>1, <1>9, <2>1 DEF Unlock, Finish
  <2>3. DefineRechecks'
    BY <1>9, <2>1 DEF Unlock, Finish
  <2>4. LockHeld'
    BY <1>9, <2>1 DEF Unlock, Finish, LocksForWriting
  <2>. QED  BY <2>2, <2>3, <2>4
<1>10. CASE UNCHANGED vars
  BY <1>10 DEF vars, LocksForWriting
<1>11. ASSUME NEW t \in Thread, Call(t)
       PROVE  LockInv'
  <2>1. PICK c \in Calls : Begin(t, c.op, c.name, c.frame)
    BY <1>11 DEF Call
  <2>2. c.op \in Op /\ c.name \in Name /\ c.frame \in Frame
    BY CallsAssumption
  <2>. QED  BY <1>2, <2>1, <2>2
<1>. QED
  BY <1>3, <1>4, <1>5, <1>6, <1>7, <1>8, <1>9, <1>10, <1>11 DEF Next, Step

\* Every reachable state is well typed, the lock is held by readers or by one
\* writer, and nobody keeps it after an operation of src/dfsch.c has returned.
THEOREM EnvironmentTypeCorrect == Spec => []TypeOK
<1>1. LockInv => TypeOK
  BY DEF LockInv
<1>. QED  BY <1>1, LockInit, LockStep, PTL DEF Spec

LEMMA LockInvExcludes == LockInv => RacesAreBiased
<1>. SUFFICES ASSUME LockInv, ~broken,
                     NEW s \in Thread, NEW t \in Thread, Conflict(s, t)
              PROVE  \E u \in {s, t} : pc[u] = "free" /\ Creator[frame[u]] = u
  BY DEF RacesAreBiased
<1>. USE DEF LockInv
<1>1. CASE pc[s] = "free" \/ pc[t] = "free"
  BY <1>1 DEF FreeIsCreator
<1>2. CASE pc[s] = "locked" /\ pc[t] = "locked"
  <2>1. ASSUME NEW u \in {s, t}, NEW v \in {s, t}, u # v, Changing(u)
        PROVE  FALSE
    <3>1. writer = u
      BY <1>2, <2>1 DEF LockHeld, Changing, LocksForWriting
    <3>2. v \in readers \/ writer = v
      BY <1>2, <2>1 DEF LockHeld
    <3>. QED  BY <2>1, <3>1, <3>2, FrameAssumption DEF TypeOK
  <2>. QED  BY <2>1 DEF Conflict
<1>. QED  BY <1>1, <1>2 DEF Conflict, Accessing

\* However many threads share frames, two of them conflict over one only if
\* the creator of the frame is in an access it began as its owner: the lock,
\* and the way owner is only ever cleared, keep everybody else apart.
THEOREM BiasedRaces == Spec => []RacesAreBiased
BY LockInit, LockStep, LockInvExcludes, PTL DEF Spec

-----------------------------------------------------------------------------
(***************************************************************************)
(* What is defined.  As long as there was no race over a frame, the slot   *)
(* that an access has found is still as it was found when the access uses  *)
(* it, since whoever changed it would have been in conflict.               *)
(***************************************************************************)
RacesNoted == \A s, t \in Thread : Conflict(s, t) => frame[t] \in raced

SlotAsFound == \A t \in Thread :
  Accessing(t) /\ Found(t) /\ frame[t] \notin raced =>
    values[frame[t]][slot[t]] = IF fresh[t] THEN NoName ELSE name[t]

FreshDefines == \A t \in Thread : Accessing(t) /\ fresh[t] => op[t] = "define"

UnsetForgets == \A t \in Thread :
  pc[t] # "idle" /\ op[t] = "unset" => \A f \in Frame : name[t] \notin defined[f]

DefineInv ==
  /\ LockInv
  /\ RacesNoted /\ SlotAsFound /\ FreshDefines /\ UnsetForgets
  /\ DefinedWithoutRace

LEMMA DefineInit == Init => DefineInv
<1>. SUFFICES ASSUME Init
              PROVE  DefineInv
  OBVIOUS
<1>1. LockInv
  BY LockInit
<1>2. \A t \in Thread : pc[t] = "idle"
  BY DEF Init
<1>3. DefinedWithoutRace
  BY DEF Init, DefinedWithoutRace
<1>. QED
  BY <1>1, <1>2, <1>3
     DEF DefineInv, RacesNoted, SlotAsFound, FreshDefines, UnsetForgets, Conflict, Accessing

\* A race is noted as it arises.
LEMMA RacesNotedStep ==
  ASSUME InFrame', RacesNoted, [Next]_vars
  PROVE  RacesNoted' /\ raced \subseteq raced'
<1>1. CASE NoteRaces
  <2>1. raced \subseteq raced'
    BY <1>1 DEF NoteRaces
  <2>2. ASSUME NEW s \in Thread, NEW t \in Thread, Conflict(s, t)'
        PROVE  frame'[t] \in raced'
    <3>1. frame'[t] \in Frame
      BY <2>2 DEF InFrame, Conflict, Accessing
    <3>. QED  BY <1>1, <2>2, <3>1 DEF NoteRaces
  <2>. QED  BY <2>1, <2>2 DEF RacesNoted
<1>2. CASE UNCHANGED vars
  BY <1>2 DEF vars, call, RacesNoted, Conflict, Changing, Accessing, Found
<1>. QED  BY <1>1, <1>2 DEF Next, Call, Step

\* Thread t neither changes a variable nor begins or ends a define.
Quiet(t) ==
  /\ UNCHANGED <<values, defined>>
  /\ op'[t] = op[t] /\ name'[t] = name[t]
  /\ \A s \in Thread \ {t} :
       /\ pc'[s] = pc[s] /\ op'[s] = op[s] /\ name'[s] = name[s]
       /\ frame'[s] = frame[s] /\ slot'[s] = slot[s] /\ fresh'[s] = fresh[s]
  /\ pc[t] # "idle"
  /\ \/ pc'[t] \notin {"free", "locked"}
     \/ \E f \in Frame :
          /\ frame'[t] = f /\ slot'[t] = Find(op[t], name[t], f)
          /\ fresh'[t] = (op[t] = "define" /\ Search(f, name[t]) = 0)

LEMMA QuietStep ==
  ASSUME DefineInv, NEW t \in Thread, Quiet(t), raced \subseteq raced'
  PROVE  (SlotAsFound /\ FreshDefines /\ UnsetForgets /\ DefinedWithoutRace)'
<1>. USE DEF DefineInv
<1>1. SlotAsFound'
  <2>. SUFFICES ASSUME NEW s \in Thread,
                       pc'[s] \in {"free", "locked"}, slot'[s] # 0, frame'[s] \notin raced'
                PROVE  values'[frame'[s]][slot'[s]] = IF fresh'[s] THEN NoName ELSE name'[s]
    BY DEF SlotAsFound, Accessing, Found
  <2>1. CASE s = t
    <3>1. PICK f \in Frame :
            /\ frame'[t] = f /\ slot'[t] = Find(op[t], name[t], f)
            /\ fresh'[t] = (op[t] = "define" /\ Search(f, name[t]) = 0)
      BY <2>1 DEF Quiet
    <3>2. values[f][slot'[t]] = IF op[t] = "define" /\ Search(f, name[t]) = 0
                                THEN NoName ELSE name[t]
      BY <2>1, <3>1, FindFinds
    <3>3. values[f][slot'[t]] = IF fresh'[t] THEN NoName ELSE name[t]
      <4>1. CASE op[t] = "define" /\ Search(f, name[t]) = 0
        BY <3>1, <3>2, <4>1
      <4>2. CASE ~(op[t] = "define" /\ Search(f, name[t]) = 0)
        BY <3>1, <3>2, <4>2
      <4>. QED  BY <4>1, <4>2
    <3>. QED  BY <2>1, <3>1, <3>3 DEF Quiet
  <2>2. CASE s # t
    BY <2>2 DEF Quiet, SlotAsFound, Accessing, Found
  <2>. QED  BY <2>1, <2>2
<1>2. FreshDefines'
  BY DEF Quiet, FreshDefines, Accessing
<1>3. UnsetForgets'
  BY DEF Quiet, UnsetForgets
<1>4. DefinedWithoutRace'
  BY DEF Quiet, DefinedWithoutRace, Bound
<1>. QED  BY <1>1, <1>2, <1>3, <1>4

\* A step of an access that found its slot: the one way to change a variable.
LEMMA HitStep ==
  ASSUME DefineInv, NEW t \in Thread, Hit(t), raced \subseteq raced'
  PROVE  (SlotAsFound /\ FreshDefines /\ UnsetForgets /\ DefinedWithoutRace)'
<1>. USE DEF DefineInv, LockInv
<1>. DEFINE g == frame[t]
<1>1. /\ g \in Frame /\ slot[t] \in 1..Slots /\ name[t] \in Name
      /\ values[g] \in [1..Slots -> Name \union {NoName}]
      /\ pc[t] \in {"free", "locked"}
  BY DEF Hit, Accessing, Found, TypeOK, InFrame
<1>2. /\ pc'[t] \notin {"free", "locked"}
      /\ op' = op /\ name' = name
      /\ \A s \in Thread \ {t} :
           pc'[s] = pc[s] /\ frame'[s] = frame[s] /\ slot'[s] = slot[s] /\ fresh'[s] = fresh[s]
  BY DEF Hit, Goto, Finish, call, TypeOK
<1>3. \/ values' = values /\ ~fresh[t] /\ op[t] # "unset"
      \/ /\ fresh[t] /\ op[t] = "define"
         /\ values' = [values EXCEPT ![g][slot[t]] = name[t]]
      \/ /\ ~fresh[t] /\ op[t] = "unset"
         /\ values' = [values EXCEPT ![g][slot[t]] = NoName]
  BY DEF Hit, Change, FreshDefines
<1>4. \/ defined' = defined
      \/ /\ op[t] = "define"
         /\ \A s \in Thread : ~(pc[s] # "idle" /\ op[s] = "unset" /\ name[s] = name[t])
         /\ defined' = [defined EXCEPT ![g] = @ \union {name[t]}]
  BY DEF Hit, NoteDefine
<1>5. SlotAsFound'
  <2>. SUFFICES ASSUME NEW s \in Thread,
                       pc'[s] \in {"free", "locked"}, slot'[s] # 0, frame'[s] \notin raced'
                PROVE  values'[frame'[s]][slot'[s]] = IF fresh'[s] THEN NoName ELSE name'[s]
    BY DEF SlotAsFound, Accessing, Found
  <2>1. s # t /\ Accessing(s) /\ Found(s) /\ frame[s] \notin raced /\ frame[s] \in Frame
    BY <1>2 DEF Accessing, Found, InFrame
  <2>2. values[frame[s]][slot[s]] = IF fresh[s] THEN NoName ELSE name[s]
    BY <2>1 DEF SlotAsFound
  <2>3. values'[frame[s]] = values[frame[s]]
    <3>1. CASE values' = values
      BY <3>1
    <3>2. CASE op[t] \in {"define", "unset"}
      <4>1. Changing(t)
        BY <1>1, <3>2 DEF Changing, Accessing, Found
      <4>2. frame[s] # g
        BY <1>1, <2>1, <4>1 DEF RacesNoted, Conflict, Accessing
      <4>. QED  BY <1>1, <1>3, <2>1, <4>2 DEF TypeOK
    <3>. QED  BY <1>3, <3>1, <3>2
  <2>. QED  BY <1>2, <2>1, <2>2, <2>3
<1>6. FreshDefines'
  BY <1>2 DEF FreshDefines, Accessing
<1>7. UnsetForgets'
  <2>. SUFFICES ASSUME NEW s \in Thread, pc'[s] # "idle", op'[s] = "unset", NEW f \in Frame
                PROVE  name'[s] \notin defined'[f]
    BY DEF UnsetForgets
  <2>1. pc[s] # "idle" /\ op[s] = "unset" /\ name'[s] = name[s] /\ name[s] \notin defined[f]
    BY <1>1, <1>2 DEF UnsetForgets
  <2>2. CASE defined' = defined
    BY <2>1, <2>2
  <2>3. CASE /\ \A r \in Thread : ~(pc[r] # "idle" /\ op[r] = "unset" /\ name[r] = name[t])
             /\ defined' = [defined EXCEPT ![g] = @ \union {name[t]}]
    <3>1. name[s] # name[t]
      BY <2>1, <2>3
    <3>2. defined'[f] \subseteq defined[f] \union {name[t]}
      BY <1>1, <2>3 DEF TypeOK
    <3>. QED  BY <2>1, <3>1, <3>2
  <2>. QED  BY <1>4, <2>2, <2>3
<1>8. DefinedWithoutRace'
  <2>. SUFFICES ASSUME NEW f \in Frame, f \notin raced', NEW n \in defined'[f]
                PROVE  n \in Bound(f)'
    BY DEF DefinedWithoutRace
  <2>1. defined[f] \subseteq Bound(f) /\ f \notin raced /\ n # NoName
    <3>1. f \notin raced
      OBVIOUS
    <3>2. defined'[f] \subseteq defined[f] \union {name[t]}
      BY <1>1, <1>4 DEF TypeOK
    <3>3. n \in Name
      BY <1>1, <3>2 DEF TypeOK
    <3>. QED  BY <3>1, <3>3, FrameAssumption DEF DefinedWithoutRace
  <2>2. CASE f # g
    <3>1. values'[f] = values[f] /\ defined'[f] = defined[f]
      BY <1>1, <1>3, <1>4, <2>2 DEF TypeOK
    <3>. QED  BY <2>1, <3>1 DEF Bound
  <2>3. CASE f = g
    <3>1. values[g][slot[t]] = IF fresh[t] THEN NoName ELSE name[t]
      BY <1>1, <2>1, <2>3 DEF SlotAsFound, Accessing, Found
    <3>2. n # NoName
      BY <2>1
    <3>3. CASE n = name[t] /\ op[t] = "define"
      <4>1. values'[g][slot[t]] = name[t]
        BY <1>1, <1>3, <3>1, <3>3 DEF TypeOK
      <4>. QED  BY <1>1, <2>3, <3>2, <3>3, <4>1 DEF Bound
    <3>4. CASE n \in defined[g] /\ ~(n = name[t] /\ op[t] = "define")
      <4>1. PICK i \in 1..Slots : values[g][i] = n
        BY <2>1, <2>3, <3>4 DEF Bound
      <4>2. op[t] = "unset" => n # name[t]
        BY <1>1, <3>4 DEF UnsetForgets
      <4>3. values'[g][i] = n
        BY <1>1, <1>3, <3>1, <3>2, <4>1, <4>2 DEF TypeOK
      <4>. QED  BY <2>3, <3>2, <4>1, <4>3 DEF Bound
    <3>5. n \in defined[g] \/ (n = name[t] /\ op[t] = "define")
      BY <1>1, <1>4, <2>3 DEF TypeOK
    <3>. QED  BY <3>3, <3>4, <3>5
  <2>. QED  BY <2>2, <2>3
<1>. QED  BY <1>5, <1>6, <1>7, <1>8

\* A call: an unset forgets the variable at once.
LEMMA BeginStep ==
  ASSUME DefineInv, NEW t \in Thread, NEW o \in Op, NEW n \in Name, NEW f \in Frame,
         Begin(t, o, n, f), raced \subseteq raced'
  PROVE  (SlotAsFound /\ FreshDefines /\ UnsetForgets /\ DefinedWithoutRace)'
<1>. USE DEF DefineInv, LockInv
<1>1. /\ UNCHANGED <<values, slot, fresh>> /\ pc'[t] \in {"check", "lock"}
      /\ op'[t] = o /\ name'[t] = n
      /\ \A s \in Thread \ {t} : /\ pc'[s] = pc[s] /\ op'[s] = op[s] /\ name'[s] = name[s]
                                  /\ frame'[s] = frame[s]
      /\ defined' = IF o = "unset" THEN [g \in Frame |-> defined[g] \ {n}] ELSE defined
  BY DEF Begin, Goto, TypeOK
<1>2. \A g \in Frame : defined'[g] \subseteq defined[g]
  BY <1>1
<1>3. SlotAsFound' /\ FreshDefines'
  BY <1>1 DEF SlotAsFound, FreshDefines, Accessing, Found
<1>4. UnsetForgets'
  BY <1>1, <1>2 DEF UnsetForgets
<1>5. DefinedWithoutRace'
  BY <1>1, <1>2 DEF DefinedWithoutRace, Bound
<1>. QED  BY <1>3, <1>4, <1>5

LEMMA DefineStep == DefineInv /\ [Next]_vars => DefineInv'
<1>. SUFFICES ASSUME DefineInv, [Next]_vars
              PROVE  DefineInv'
  OBVIOUS
<1>1. LockInv'
  BY LockStep DEF DefineInv
<1>2. RacesNoted' /\ raced \subseteq raced'
  BY <1>1, RacesNotedStep DEF DefineInv, LockInv
<1>. DEFINE Rest == SlotAsFound /\ FreshDefines /\ UnsetForgets /\ DefinedWithoutRace
<1>3. ASSUME NEW t \in Thread, Call(t)
      PROVE  Rest'
  <2>1. PICK c \in Calls : Begin(t, c.op, c.name, c.frame)
    BY <1>3 DEF Call
  <2>2. c.op \in Op /\ c.name \in Name /\ c.frame \in Frame
    BY CallsAssumption
  <2>. QED  BY <1>2, <2>1, <2>2, BeginStep
<1>4. ASSUME NEW t \in Thread, Hit(t)
      PROVE  Rest'
  BY <1>2, <1>4, HitStep
<1>5. ASSUME NEW t \in Thread,
             CheckOwner(t) \/ Acquire(t) \/ MissFree(t) \/ MissLocked(t) \/ Recheck(t) \/ Unlock(t)
      PROVE  Quiet(t)
  <2>. USE <1>5, FrameAssumption
       DEF Quiet, DefineInv, LockInv, TypeOK, InFrame, Goto, call
  <2>1. pc[t] # "idle" /\ frame[t] \in Frame
    BY DEF CheckOwner, Acquire, MissFree, MissLocked, Recheck, Unlock
  <2>2. CASE CheckOwner(t)
    BY <2>1, <2>2 DEF CheckOwner, Access
  <2>3. CASE Acquire(t)
    BY <2>1, <2>3 DEF Acquire, Access
  <2>4. CASE MissFree(t)
    BY <2>1, <2>4 DEF MissFree, Finish
  <2>5. CASE MissLocked(t)
    <3>1. Parent[frame[t]] # NoFrame => Parent[frame[t]] \in Frame
      BY <2>1
    <3>. QED  BY <2>1, <2>5, <3>1 DEF MissLocked, Access
  <2>6. CASE Recheck(t)
    BY <2>1, <2>6 DEF Recheck, Finish
  <2>7. CASE Unlock(t)
    BY <2>1, <2>7 DEF Unlock, Finish
  <2>. QED  BY <2>2, <2>3, <2>4, <2>5, <2>6, <2>7
<1>6. ASSUME UNCHANGED vars
      PROVE  Rest'
  BY <1>6 DEF vars, call, DefineInv, SlotAsFound, FreshDefines, UnsetForgets,
              DefinedWithoutRace, Accessing, Found, Bound
<1>7. Rest'
  <2>1. ASSUME NEW t \in Thread,
               CheckOwner(t) \/ Acquire(t) \/ MissFree(t) \/ MissLocked(t) \/ Recheck(t) \/ Unlock(t)
        PROVE  Rest'
    BY <1>2, <1>5, <2>1, QuietStep
  <2>. HIDE DEF Rest
  <2>. QED  BY <1>3, <1>4, <1>6, <2>1 DEF Next, Step
<1>. QED  BY <1>1, <1>2, <1>7 DEF DefineInv

\* A variable that some thread has defined stays bound in its frame until a
\* thread unsets it, whatever other threads look up, set, define and unset,
\* unless there has been a race over the frame.
THEOREM DefinitionsLast == Spec => []DefinedWithoutRace
<1>1. DefineInv => DefinedWithoutRace
  BY DEF DefineInv
<1>. QED  BY <1>1, DefineInit, DefineStep, PTL DEF Spec

-----------------------------------------------------------------------------
(***************************************************************************)
(* Extref.                                                                 *)
(***************************************************************************)

(***************************************************************************)
(* The entries a walk meets.                                               *)
(***************************************************************************)

\* A set of entries that no walk from entry j leaves.
Around(e, j, S) ==
  /\ S \subseteq Entries(e) /\ j \in S \union {NoHandle}
  /\ \A i \in S : e[i].next \in S \union {NoHandle}

LEMMA WalkedWithin ==
  ASSUME NEW e, NEW j, NEW S, Around(e, j, S)
  PROVE  Walked(e, j) \subseteq S
BY DEF Around, Walked

LEMMA NotWalked ==
  ASSUME NEW e, NEW j, NEW h \in Handle, h \notin Walked(e, j)
  PROVE  \E S : Around(e, j, S) /\ h \notin S
BY DEF Around, Walked

\* Nothing is met at the end of a chain, and an entry is met first of all from itself.
LEMMA WalkedFrom ==
  ASSUME NEW e, NEW j \in Handle, NoHandle \notin Handle
  PROVE  Walked(e, NoHandle) = {} /\ j \in Walked(e, j)
<1>1. Around(e, NoHandle, {})
  BY DEF Around
<1>2. j # NoHandle
  OBVIOUS
<1>. QED  BY <1>1, <1>2, WalkedWithin DEF Walked

\* What is met from an entry is that entry, or met from the next one.
LEMMA WalkedNext ==
  ASSUME NEW e, NEW j \in Entries(e), NEW h \in Handle, NoHandle \notin Handle
  PROVE  /\ h \in Walked(e, e[j].next) => h \in Walked(e, j)
         /\ h \in Walked(e, j) => h = j \/ h \in Walked(e, e[j].next)
<1>1. ASSUME h \in Walked(e, e[j].next), h \notin Walked(e, j)
      PROVE  FALSE
  <2>. j # NoHandle
    BY DEF Entries
  <2>1. PICK S : Around(e, j, S) /\ h \notin S
    BY <1>1, NotWalked
  <2>2. Around(e, e[j].next, S)
    BY <1>1, <2>1 DEF Around
  <2>. QED  BY <1>1, <2>1, <2>2, WalkedWithin
<1>2. ASSUME h \in Walked(e, j), h # j, h \notin Walked(e, e[j].next)
      PROVE  FALSE
  <2>1. PICK S : Around(e, e[j].next, S) /\ h \notin S
    BY <1>2, NotWalked
  <2>2. Around(e, j, S \union {j})
    BY <2>1 DEF Around
  <2>. QED  BY <1>2, <2>1, <2>2, WalkedWithin
<1>. QED  BY <1>1, <1>2

\* What is met depends on the links only.
LEMMA WalkedSame ==
  ASSUME NEW e, NEW f, Entries(f) = Entries(e), \A i \in Entries(e) : f[i].next = e[i].next,
         NEW j
  PROVE  Walked(f, j) = Walked(e, j)
<1>1. \A S : Around(f, j, S) <=> Around(e, j, S)
  BY DEF Around
<1>. QED  BY <1>1, NotWalked, WalkedWithin DEF Walked

\* When the link of an entry is changed, what was met is still met, or is met from
\* where the link had led to.
LEMMA WalkedCut ==
  ASSUME NEW e, NEW f, NEW j \in Entries(e), Entries(f) = Entries(e),
         \A i \in Entries(e) \ {j} : f[i].next = e[i].next,
         NEW r, NEW h \in Walked(e, r)
  PROVE  h \in Walked(f, r) \/ h \in Walked(f, e[j].next)
<1>. SUFFICES ASSUME h \notin Walked(f, r), h \notin Walked(f, e[j].next)
              PROVE  FALSE
  OBVIOUS
<1>0. h \in Handle
  BY DEF Walked
<1>1. PICK S : Around(f, r, S) /\ h \notin S
  BY <1>0, NotWalked
<1>2. PICK T : Around(f, e[j].next, T) /\ h \notin T
  BY <1>0, NotWalked
<1>3. Around(e, r, S \union T)
  BY <1>1, <1>2 DEF Around
<1>. QED  BY <1>1, <1>2, <1>3, WalkedWithin

\* When an entry is taken out of its place behind another one, or that one was the
\* last, all others that were met are still met.
LEMMA WalkedPast ==
  ASSUME NEW e, NEW f, NEW j \in Entries(e), NEW k \in Entries(e), Entries(f) = Entries(e),
         e[k].next \in {NoHandle, j}, f[k].next = e[j].next,
         \A i \in Entries(e) \ {k} : f[i].next = e[i].next,
         NEW r, NEW h \in Walked(e, r), h # j
  PROVE  h \in Walked(f, r)
<1>. SUFFICES ASSUME h \notin Walked(f, r)
              PROVE  FALSE
  OBVIOUS
<1>0. h \in Handle
  BY DEF Walked
<1>1. PICK S : Around(f, r, S) /\ h \notin S
  BY <1>0, NotWalked
<1>2. CASE k \in S
  <2>1. Around(e, r, S \union {j})
    BY <1>1, <1>2 DEF Around
  <2>. QED  BY <1>1, <2>1, WalkedWithin
<1>3. CASE k \notin S
  <2>1. Around(e, r, S)
    BY <1>1, <1>3 DEF Around
  <2>. QED  BY <1>1, <2>1, WalkedWithin
<1>. QED  BY <1>2, <1>3

(***************************************************************************)
(* The inductive invariant.                                                *)
(***************************************************************************)

Link == Made \union {NoHandle}
Record ==
  [mode : {k[2] : k \in Kind}, timeout : Nat, next : Handle \union {NoHandle},
   valid_to : Nat, until : Nat]
Resize ==
  [by : User \union {Collector}, time : Nat, at : {"drop", "unlink", "move"}, bucket : Nat,
   j : Link, k : Link, new : Seq(Link)]

ExtrefTypes ==
  /\ now \in Nat /\ extref_count \in Nat /\ extref_next_gc \in Nat
  /\ entry \in [Handle -> Record \union {NoEntry}]
  /\ \A h \in Made : entry[h] \in Record /\ entry[h].next \in Link
  /\ extrefs \in Seq(Link)
  /\ Len(extrefs) >= 1 \/ (extrefs = <<>> /\ Made = {} /\ sweeper = NoSweep)
  /\ \/ sweeper = NoSweep
     \/ /\ sweeper \in Resize /\ sweeper.time = now /\ sweeper.bucket \in 1..Len(extrefs)
        /\ sweeper.at = "move" => sweeper.new # <<>>
        /\ sweeper.by \in User => using[sweeper.by].do = "put"
  /\ using \in [User -> {Idle} \union [do : {"put", "search", "use"}, handle : Made]]

\* No entry is valid for longer than from now on for its timeout.
Times ==
  \A h \in Made : entry[h].valid_to <= entry[h].until /\ entry[h].until <= now + entry[h].timeout

\* What is valid is to be found, unless it was prolonged too late.
ValidIsHeld == \A h \in Handle \ late : Valid(h) => Held(h)

\* The last valid entry is the one before j, or the last of its chain.
LastIsBefore ==
  sweeper # NoSweep /\ sweeper.k # NoHandle =>
    /\ sweeper.at = "drop" => entry[sweeper.k].next = NoHandle
    /\ sweeper.at = "unlink" => entry[sweeper.k].next \in {NoHandle, sweeper.j}

\* If nothing was counted there is nothing in the buckets.
AllEmpty(buckets) == \A b \in DOMAIN buckets : buckets[b] = NoHandle
CountIsOf ==
  /\ sweeper = NoSweep /\ extref_count = 0 => AllEmpty(extrefs)
  /\ sweeper.at = "move" /\ extref_count = 0 =>
       AllEmpty(extrefs) /\ AllEmpty(sweeper.new) /\ sweeper.j = NoHandle
  /\ sweeper.at \in {"drop", "unlink"} /\ extref_count = 0 => sweeper.k = NoHandle
  /\ sweeper.at \in {"drop", "unlink"} /\ sweeper.k = NoHandle =>
       \A b \in 1..(sweeper.bucket - 1) : extrefs[b] = NoHandle
  /\ sweeper.at = "unlink" /\ sweeper.k = NoHandle => extrefs[sweeper.bucket] = sweeper.j

\* Entries that no sweep leaves unlooked at: what a link leads to is one of them.
OrNone(P) == P \union {NoHandle}
Linked(P) == \A h \in P : entry[h].next \in OrNone(P)
LeadTo(buckets, P) == \A b \in DOMAIN buckets : buckets[b] \in OrNone(P)

\* They are not over before the next sweep is due.
DueFor(P) == \A h \in P : extref_next_gc <= entry[h].until
Lasting(P) == \A h \in P : now <= entry[h].until

\* The entries in the table, those that a sweep has counted so far, and those in
\* either table while they are moved.
AtRest(P) == Linked(P) /\ LeadTo(extrefs, P) /\ DueFor(P) /\ (slept \/ Lasting(P))
Counting(P) ==
  /\ \A h \in P : h # sweeper.k => entry[h].next \in OrNone(P)
  /\ \A b \in 1..(sweeper.bucket - 1) : extrefs[b] \in OrNone(P)
  /\ sweeper.at = "unlink" => extrefs[sweeper.bucket] \in P \union {sweeper.j}
  /\ DueFor(P) /\ Lasting(P)
  /\ sweeper.k = NoHandle => P = {}
  /\ sweeper.k # NoHandle => sweeper.k \in P /\ extref_next_gc >= now
Moving(P) ==
  /\ Linked(P) /\ LeadTo(extrefs, P) /\ LeadTo(sweeper.new, P) /\ sweeper.j \in OrNone(P)
  /\ DueFor(P) /\ Lasting(P)
Fresh(P) ==
  /\ P \subseteq Made
  /\ sweeper = NoSweep => AtRest(P)
  /\ sweeper.at \in {"drop", "unlink"} => Counting(P)
  /\ sweeper.at = "move" => Moving(P)

AllFresh == ~met => \E P : Fresh(P)

ExtrefInv ==
  /\ ExtrefTypes /\ Times /\ ValidIsHeld /\ LastIsBefore /\ CountIsOf /\ AllFresh
  /\ refused = {}

(***************************************************************************)
(* Sweeps.                                                                 *)
(***************************************************************************)

LEMMA RecordIs ==
  ASSUME NEW r \in Record
  PROVE  r # NoEntry
BY DEF Record, NoEntry

\* A sweep that is under way.
LEMMA SweepIs ==
  ASSUME ExtrefTypes, sweeper # NoSweep
  PROVE  /\ sweeper \in Resize /\ sweeper.time = now /\ sweeper.bucket \in 1..Len(extrefs)
         /\ sweeper.at \in {"drop", "unlink", "move"} /\ sweeper.at # "none"
         /\ sweeper.j \in Link /\ sweeper.k \in Link /\ sweeper.new \in Seq(Link)
         /\ Len(extrefs) \in Nat /\ Len(extrefs) >= 1 /\ extrefs # <<>>
         /\ DOMAIN extrefs = 1..Len(extrefs) /\ DOMAIN sweeper.new = 1..Len(sweeper.new)
         /\ Len(sweeper.new) \in Nat
<1>1. /\ sweeper \in Resize /\ sweeper.time = now /\ sweeper.bucket \in 1..Len(extrefs)
      /\ Len(extrefs) >= 1 /\ extrefs \in Seq(Link)
  BY DEF ExtrefTypes
<1>. QED  BY <1>1 DEF Resize

LEMMA RestIs == NoSweep.at = "none"
BY DEF NoSweep

\* In which bucket a handle is.
LEMMA BucketIs ==
  ASSUME ExtrefAssumption, NEW h \in Handle, NEW n \in Nat \ {0}
  PROVE  Bucket(h, n) \in 1..n
<1>1. Hash[h] \in Nat
  BY DEF ExtrefAssumption
<1>2. Hash[h] % n \in 0..(n - 1)
  BY <1>1
<1>. QED  BY <1>2 DEF Bucket

\* Where it is to be found.
LEMMA HeadsIs ==
  ASSUME NEW h
  PROVE  /\ sweeper.at = "none" => Heads(h) = {extrefs[Bucket(h, Len(extrefs))]}
         /\ sweeper.at = "unlink" => Heads(h) = {extrefs[Bucket(h, Len(extrefs))]}
         /\ sweeper.at = "drop" => Heads(h) =
              IF sweeper.bucket = Bucket(h, Len(extrefs)) THEN {sweeper.j}
              ELSE {extrefs[Bucket(h, Len(extrefs))]}
         /\ sweeper.at = "move" => Heads(h) =
              {sweeper.j, sweeper.new[Bucket(h, Len(sweeper.new))]}
                \union {extrefs[b] : b \in (sweeper.bucket + 1)..Len(extrefs)}
BY DEF Heads

LEMMA DropFirstKeeps ==
  ASSUME ExtrefAssumption, ExtrefInv, DropFirst
  PROVE  ExtrefInv'
<1>. sweeper # NoSweep
  BY DEF DropFirst, NoSweep
<1>1. /\ sweeper.at = "drop" /\ sweeper.j # NoHandle
      /\ entry[sweeper.j].valid_to < sweeper.time
      /\ sweeper' = [sweeper EXCEPT !.j = entry[sweeper.j].next]
      /\ UNCHANGED <<now, entry, extrefs, extref_count, extref_next_gc, using, slept, late,
                     refused, met, wrecked>>
  BY DEF DropFirst, table
<1>2. ExtrefTypes /\ sweeper.j \in Made /\ sweeper \in Resize /\ entry[sweeper.j].next \in Link
  BY <1>1, SweepIs DEF ExtrefInv, ExtrefTypes, Link
<1>3. /\ sweeper' \in Resize /\ sweeper'.j = entry[sweeper.j].next
      /\ sweeper'.by = sweeper.by /\ sweeper'.time = sweeper.time /\ sweeper'.at = sweeper.at
      /\ sweeper'.bucket = sweeper.bucket /\ sweeper'.k = sweeper.k /\ sweeper'.new = sweeper.new
  BY <1>1, <1>2 DEF Resize
<1>4. Made' = Made /\ Link' = Link /\ Resize' = Resize
  BY <1>1 DEF Made, Link, Resize
<1>5. ExtrefTypes'
  BY <1>1, <1>2, <1>3, <1>4, RestIs DEF ExtrefTypes
<1>6. Times'
  BY <1>1, <1>4 DEF ExtrefInv, Times
<1>7. ValidIsHeld'
  <2>. SUFFICES ASSUME NEW h \in Handle \ late, Valid(h)
                PROVE  Held(h)'
    BY <1>1, <1>4 DEF ValidIsHeld, Valid
  <2>1. PICK r \in Heads(h) : h \in Walked(entry, r)
    BY DEF ExtrefInv, ValidIsHeld, Held
  <2>2. h \in Made /\ entry[h].valid_to > now
    BY DEF Valid
  <2>3. CASE sweeper.bucket = Bucket(h, Len(extrefs))
    <3>1. r = sweeper.j
      BY <1>1, <2>1, <2>3, HeadsIs
    <3>2. h # sweeper.j
      BY <1>1, <1>2, <2>2, SweepIs DEF ExtrefTypes, Record
    <3>3. h \in Walked(entry, sweeper'.j)
      BY <1>2, <1>3, <2>1, <3>1, <3>2, WalkedNext DEF Made, ExtrefAssumption
    <3>4. Heads(h)' = {sweeper'.j}
      BY <1>1, <1>3, <2>3 DEF Heads
    <3>. QED  BY <1>1, <1>4, <2>2, <3>3, <3>4 DEF Held
  <2>4. CASE sweeper.bucket # Bucket(h, Len(extrefs))
    <3>1. Heads(h)' = Heads(h)
      BY <1>1, <1>3, <2>4 DEF Heads
    <3>. QED  BY <1>1, <1>4, <2>1, <2>2, <3>1 DEF Held
  <2>. QED  BY <2>3, <2>4
<1>8. LastIsBefore'
  BY <1>1, <1>3 DEF ExtrefInv, LastIsBefore
<1>9. CountIsOf'
  BY <1>1, <1>3 DEF ExtrefInv, CountIsOf, NoSweep
<1>10. AllFresh'
  <2>. SUFFICES ASSUME NEW P, Fresh(P)
                PROVE  Fresh(P)'
    BY <1>1 DEF ExtrefInv, AllFresh
  <2>1. Counting(P)'
    BY <1>1, <1>3 DEF Fresh, Counting, DueFor, Lasting, OrNone
  <2>. QED  BY <1>1, <1>3, <1>4, <2>1, RestIs DEF Fresh
<1>. QED  BY <1>1, <1>5, <1>6, <1>7, <1>8, <1>9, <1>10 DEF ExtrefInv

LEMMA KeepRestKeeps ==
  ASSUME ExtrefAssumption, ExtrefInv, KeepRest
  PROVE  ExtrefInv'
<1>. sweeper # NoSweep
  BY DEF KeepRest, NoSweep
<1>1. /\ sweeper.at = "drop"
      /\ extrefs' = [extrefs EXCEPT ![sweeper.bucket] = sweeper.j]
      /\ sweeper' = [sweeper EXCEPT !.at = "unlink"]
      /\ UNCHANGED <<now, entry, extref_count, extref_next_gc, using, slept, late, refused, met,
                     wrecked>>
  BY DEF KeepRest
<1>2. ExtrefTypes /\ sweeper.j \in Link /\ sweeper \in Resize /\ sweeper.bucket \in 1..Len(extrefs)
  BY SweepIs DEF ExtrefInv
<1>3. /\ sweeper' \in Resize /\ sweeper'.at = "unlink" /\ sweeper'.by = sweeper.by
      /\ sweeper'.time = sweeper.time /\ sweeper'.bucket = sweeper.bucket
      /\ sweeper'.j = sweeper.j /\ sweeper'.k = sweeper.k /\ sweeper'.new = sweeper.new
  BY <1>1, <1>2 DEF Resize
<1>4. Made' = Made /\ Link' = Link /\ Resize' = Resize
  BY <1>1 DEF Made, Link, Resize
<1>5. /\ extrefs' \in Seq(Link) /\ Len(extrefs') = Len(extrefs) /\ extrefs'[sweeper.bucket] = sweeper.j
      /\ \A b \in 1..Len(extrefs) : b # sweeper.bucket => extrefs'[b] = extrefs[b]
  BY <1>1, <1>2, SweepIs DEF ExtrefTypes
<1>6. ExtrefTypes'
  BY <1>1, <1>2, <1>3, <1>4, <1>5, SweepIs, RestIs DEF ExtrefTypes
<1>7. Times'
  BY <1>1, <1>4 DEF ExtrefInv, Times
<1>8. ValidIsHeld'
  <2>. SUFFICES ASSUME NEW h \in Handle \ late, Valid(h)
                PROVE  Held(h)'
    BY <1>1, <1>4 DEF ValidIsHeld, Valid
  <2>1. PICK r \in Heads(h) : h \in Walked(entry, r)
    BY DEF ExtrefInv, ValidIsHeld, Held
  <2>. DEFINE b == Bucket(h, Len(extrefs))
  <2>2. h \in Made /\ b \in 1..Len(extrefs)
    BY BucketIs, SweepIs, <1>2 DEF Valid
  <2>3. r = extrefs'[b]
    BY <1>1, <1>5, <2>1, <2>2, HeadsIs
  <2>4. Heads(h)' = {extrefs'[b]}
    BY <1>3, <1>5 DEF Heads
  <2>. QED  BY <1>1, <1>4, <2>1, <2>2, <2>3, <2>4 DEF Held
<1>9. LastIsBefore'
  BY <1>1, <1>3 DEF ExtrefInv, LastIsBefore
<1>10. CountIsOf'
  <2>1. \A b \in 1..(sweeper.bucket - 1) : extrefs'[b] = extrefs[b]
    BY <1>2, <1>5, SweepIs
  <2>. QED  BY <1>1, <1>3, <1>5, <2>1, RestIs DEF ExtrefInv, CountIsOf
<1>11. AllFresh'
  <2>. SUFFICES ASSUME NEW P, Fresh(P)
                PROVE  Fresh(P)'
    BY <1>1 DEF ExtrefInv, AllFresh
  <2>1. \A b \in 1..(sweeper.bucket - 1) : extrefs'[b] = extrefs[b]
    BY <1>2, <1>5, SweepIs
  <2>2. Counting(P)'
    BY <1>1, <1>3, <1>5, <2>1 DEF Fresh, Counting, DueFor, Lasting, OrNone
  <2>. QED  BY <1>1, <1>3, <1>4, <2>2, RestIs DEF Fresh
<1>. QED  BY <1>1, <1>6, <1>7, <1>8, <1>9, <1>10, <1>11 DEF ExtrefInv

LEMMA CountValidKeeps ==
  ASSUME ExtrefAssumption, ExtrefInv, CountValid
  PROVE  ExtrefInv'
<1>. sweeper # NoSweep
  BY DEF CountValid, NoSweep
<1>. DEFINE j == sweeper.j
<1>1. /\ sweeper.at = "unlink" /\ j # NoHandle /\ entry[j].valid_to > sweeper.time
      /\ extref_count' = extref_count + 1
      /\ extref_next_gc' = Due(entry[j].valid_to, sweeper.time)
      /\ sweeper' = [sweeper EXCEPT !.k = j, !.j = entry[j].next]
      /\ UNCHANGED <<now, entry, extrefs, using, slept, late, refused, met, wrecked>>
  BY DEF CountValid
<1>2. /\ ExtrefTypes /\ j \in Made /\ sweeper \in Resize /\ entry[j] \in Record
      /\ entry[j].next \in Link /\ sweeper.time = now /\ j \in Link
  BY <1>1, SweepIs DEF ExtrefInv, ExtrefTypes, Link
<1>3. /\ sweeper' \in Resize /\ sweeper'.j = entry[j].next /\ sweeper'.k = j
      /\ sweeper'.by = sweeper.by /\ sweeper'.time = sweeper.time /\ sweeper'.at = sweeper.at
      /\ sweeper'.bucket = sweeper.bucket /\ sweeper'.new = sweeper.new
  BY <1>1, <1>2 DEF Resize
<1>4. Made' = Made /\ Link' = Link /\ Resize' = Resize
  BY <1>1 DEF Made, Link, Resize
<1>5. /\ extref_count \in Nat /\ extref_count' \in Nat /\ extref_count' > 0
      /\ extref_next_gc \in Nat /\ extref_next_gc' \in Nat /\ now \in Nat
      /\ extref_next_gc' <= entry[j].valid_to /\ extref_next_gc' >= now
      /\ entry[j].valid_to \in Nat /\ entry[j].until \in Nat
      /\ extref_next_gc >= now => extref_next_gc' <= extref_next_gc
  BY <1>1, <1>2 DEF ExtrefTypes, Record, Due
<1>6. ExtrefTypes'
  BY <1>1, <1>2, <1>3, <1>4, <1>5, RestIs DEF ExtrefTypes
<1>7. Times'
  BY <1>1, <1>4 DEF ExtrefInv, Times
<1>8. ValidIsHeld'
  <2>. SUFFICES ASSUME NEW h \in Handle \ late, Valid(h)
                PROVE  Held(h)'
    BY <1>1, <1>4 DEF ValidIsHeld, Valid
  <2>1. Held(h) /\ Heads(h)' = Heads(h)
    BY <1>1, <1>3 DEF ExtrefInv, ValidIsHeld, Heads
  <2>. QED  BY <1>1, <1>4, <2>1 DEF Held
<1>9. LastIsBefore'
  BY <1>1, <1>3 DEF LastIsBefore
<1>10. CountIsOf'
  BY <1>1, <1>3, <1>5, RestIs DEF CountIsOf
<1>11. AllFresh'
  <2>. SUFFICES ASSUME NEW P, Fresh(P), NEW Q, Q = P \union {j}
                PROVE  Fresh(Q)'
    BY <1>1 DEF ExtrefInv, AllFresh
  <2>1. Counting(P) /\ P \subseteq Made
    BY <1>1 DEF Fresh
  <2>2. \A h \in P : entry[h].until \in Nat
    BY <1>2, <2>1 DEF ExtrefTypes, Record
  <2>3. entry[j].valid_to <= entry[j].until
    BY <1>2 DEF ExtrefInv, Times
  <2>4. DueFor(Q)' /\ Lasting(Q)'
    <3>1. \A h \in P : extref_next_gc' <= entry[h].until /\ now <= entry[h].until
      BY <1>5, <2>1, <2>2 DEF Counting, DueFor, Lasting
    <3>2. extref_next_gc' <= entry[j].until /\ now <= entry[j].until
      BY <1>1, <1>2, <1>5, <2>3
    <3>. QED  BY <1>1, <3>1, <3>2 DEF DueFor, Lasting
  <2>5. \A h \in Q : h # j => entry[h].next \in OrNone(Q)
    BY <1>1, <2>1 DEF ExtrefInv, LastIsBefore, Counting, OrNone
  <2>6. /\ \A b \in 1..(sweeper.bucket - 1) : extrefs[b] \in OrNone(Q)
        /\ extrefs[sweeper.bucket] \in Q
    BY <1>1, <2>1 DEF Counting, OrNone
  <2>7. Counting(Q)'
    BY <1>1, <1>3, <1>5, <2>4, <2>5, <2>6 DEF Counting, OrNone
  <2>. QED  BY <1>1, <1>2, <1>3, <1>4, <2>1, <2>7, RestIs DEF Fresh
<1>. QED  BY <1>1, <1>6, <1>7, <1>8, <1>9, <1>10, <1>11 DEF ExtrefInv

LEMMA NextBucketKeeps ==
  ASSUME ExtrefAssumption, ExtrefInv, NextBucket
  PROVE  ExtrefInv'
<1>. sweeper # NoSweep
  BY DEF NextBucket, NoSweep
<1>1. /\ sweeper.at = "unlink" /\ sweeper.j = NoHandle /\ sweeper.bucket < Len(extrefs)
      /\ sweeper' = [sweeper EXCEPT !.at = "drop", !.bucket = sweeper.bucket + 1,
                                    !.j = extrefs[sweeper.bucket + 1]]
      /\ UNCHANGED <<now, entry, extrefs, extref_count, extref_next_gc, using, slept, late,
                     refused, met, wrecked>>
  BY DEF NextBucket, table
<1>2. /\ ExtrefTypes /\ sweeper \in Resize /\ sweeper.bucket \in 1..Len(extrefs)
      /\ sweeper.bucket + 1 \in 1..Len(extrefs) /\ extrefs[sweeper.bucket + 1] \in Link
  BY <1>1, SweepIs DEF ExtrefInv, ExtrefTypes
<1>3. /\ sweeper' \in Resize /\ sweeper'.at = "drop" /\ sweeper'.by = sweeper.by
      /\ sweeper'.time = sweeper.time /\ sweeper'.bucket = sweeper.bucket + 1
      /\ sweeper'.j = extrefs[sweeper.bucket + 1] /\ sweeper'.k = sweeper.k
      /\ sweeper'.new = sweeper.new
  <2>1. sweeper.bucket + 1 \in Nat
    BY <1>2, SweepIs
  <2>. QED  BY <1>1, <1>2, <2>1 DEF Resize
<1>4. Made' = Made /\ Link' = Link /\ Resize' = Resize
  BY <1>1 DEF Made, Link, Resize
<1>5. ExtrefTypes'
  BY <1>1, <1>2, <1>3, <1>4, RestIs DEF ExtrefTypes
<1>6. Times'
  BY <1>1, <1>4 DEF ExtrefInv, Times
<1>7. ValidIsHeld'
  <2>. SUFFICES ASSUME NEW h \in Handle \ late, Valid(h)
                PROVE  Held(h)'
    BY <1>1, <1>4 DEF ValidIsHeld, Valid
  <2>1. Held(h) /\ Heads(h)' = Heads(h)
    BY <1>1, <1>3 DEF ExtrefInv, ValidIsHeld, Heads
  <2>. QED  BY <1>1, <1>4, <2>1 DEF Held
<1>8. LastIsBefore'
  BY <1>1, <1>3 DEF ExtrefInv, LastIsBefore
<1>9. CountIsOf'
  <2>1. sweeper.k = NoHandle => \A b \in 1..((sweeper.bucket + 1) - 1) : extrefs[b] = NoHandle
    BY <1>1, <1>2 DEF ExtrefInv, CountIsOf
  <2>. QED  BY <1>1, <1>3, <2>1, RestIs DEF ExtrefInv, CountIsOf
<1>10. AllFresh'
  <2>. SUFFICES ASSUME NEW P, Fresh(P)
                PROVE  Fresh(P)'
    BY <1>1 DEF ExtrefInv, AllFresh
  <2>1. Counting(P)
    BY <1>1 DEF Fresh
  <2>2. \A b \in 1..((sweeper.bucket + 1) - 1) : extrefs[b] \in OrNone(P)
    BY <1>1, <1>2, <2>1 DEF Counting, OrNone
  <2>3. Counting(P)'
    BY <1>1, <1>3, <2>1, <2>2 DEF Counting, DueFor, Lasting, OrNone
  <2>. QED  BY <1>1, <1>3, <1>4, <2>3, RestIs DEF Fresh
<1>. QED  BY <1>1, <1>5, <1>6, <1>7, <1>8, <1>9, <1>10 DEF ExtrefInv

\* The link of an entry is changed.
LEMMA RelinkIs ==
  ASSUME ExtrefTypes, NEW k \in Made, NEW x \in Link,
         entry' = [entry EXCEPT ![k].next = x]
  PROVE  /\ Made' = Made /\ Link' = Link /\ Resize' = Resize
         /\ entry' \in [Handle -> Record \union {NoEntry}]
         /\ \A h \in Made : entry'[h] \in Record /\ entry'[h].next \in Link
         /\ entry'[k].next = x
         /\ \A h \in Handle : h # k => entry'[h] = entry[h]
         /\ \A h \in Made : /\ entry'[h].valid_to = entry[h].valid_to
                            /\ entry'[h].until = entry[h].until
                            /\ entry'[h].timeout = entry[h].timeout
<1>1. /\ entry[k] \in Record /\ k \in Handle /\ x \in Handle \union {NoHandle}
      /\ entry \in [Handle -> Record \union {NoEntry}]
  BY DEF ExtrefTypes, Made, Entries, Link
<1>2. entry'[k] = [entry[k] EXCEPT !.next = x] /\ \A h \in Handle : h # k => entry'[h] = entry[h]
  BY <1>1
<1>3. /\ entry'[k] \in Record /\ entry'[k].next = x /\ entry'[k].valid_to = entry[k].valid_to
      /\ entry'[k].until = entry[k].until /\ entry'[k].timeout = entry[k].timeout
  BY <1>1, <1>2 DEF Record
<1>4. \A h \in Handle : entry'[h] # NoEntry <=> entry[h] # NoEntry
  BY <1>1, <1>2, <1>3, RecordIs
<1>5. Made' = Made
  BY <1>4 DEF Made, Entries
<1>6. Link' = Link /\ Resize' = Resize
  BY <1>5 DEF Link, Resize
<1>7. entry' \in [Handle -> Record \union {NoEntry}]
  BY <1>1, <1>3
<1>8. \A h \in Made : entry'[h] \in Record /\ entry'[h].next \in Link
  BY <1>2, <1>3 DEF ExtrefTypes, Made, Entries
<1>9. \A h \in Made : /\ entry'[h].valid_to = entry[h].valid_to
                      /\ entry'[h].until = entry[h].until
                      /\ entry'[h].timeout = entry[h].timeout
  BY <1>2, <1>3 DEF Made, Entries
<1>. QED  BY <1>2, <1>3, <1>5, <1>6, <1>7, <1>8, <1>9

LEMMA UnlinkKeeps ==
  ASSUME ExtrefAssumption, ExtrefInv, Unlink
  PROVE  ExtrefInv'
<1>. sweeper # NoSweep
  BY DEF Unlink, NoSweep
<1>1. /\ sweeper.at = "unlink" /\ sweeper.j # NoHandle /\ entry[sweeper.j].valid_to <= sweeper.time
      /\ met' = (met \/ sweeper.j = extrefs[sweeper.bucket])
      /\ UNCHANGED <<now, extrefs, extref_count, extref_next_gc, using, slept, late, refused>>
  BY DEF Unlink, table
<1>2. CASE sweeper.k = NoHandle
  <2>1. UNCHANGED <<entry, sweeper>>
    BY <1>2 DEF Unlink
  <2>2. Made' = Made /\ Link' = Link /\ Resize' = Resize
    BY <2>1 DEF Made, Link, Resize
  <2>3. ExtrefTypes' /\ Times' /\ LastIsBefore' /\ CountIsOf'
    BY <1>1, <2>1, <2>2 DEF ExtrefInv, ExtrefTypes, Times, LastIsBefore, CountIsOf, AllEmpty
  <2>4. ValidIsHeld'
    <3>. SUFFICES ASSUME NEW h \in Handle \ late, Valid(h)
                  PROVE  Held(h)'
      BY <1>1, <2>1, <2>2 DEF ValidIsHeld, Valid
    <3>1. Held(h) /\ Heads(h)' = Heads(h)
      BY <1>1, <2>1 DEF ExtrefInv, ValidIsHeld, Heads
    <3>. QED  BY <1>1, <2>1, <2>2, <3>1 DEF Held
  <2>5. AllFresh'
    <3>. SUFFICES ASSUME NEW P, Fresh(P)
                  PROVE  Fresh(P)'
      BY <1>1 DEF ExtrefInv, AllFresh
    <3>. QED  BY <1>1, <2>1, <2>2 DEF Fresh, Counting, DueFor, Lasting, NoSweep, OrNone
  <2>. QED  BY <1>1, <2>3, <2>4, <2>5 DEF ExtrefInv
<1>3. CASE sweeper.k # NoHandle
  <2>1. /\ entry' = [entry EXCEPT ![sweeper.k].next = entry[sweeper.j].next]
        /\ sweeper' = [sweeper EXCEPT !.j = entry[sweeper.j].next]
    BY <1>3 DEF Unlink
  <2>2. /\ ExtrefTypes /\ sweeper.j \in Made /\ sweeper.k \in Made /\ sweeper \in Resize
        /\ entry[sweeper.j].next \in Link /\ sweeper.time = now
    BY <1>1, <1>3, SweepIs DEF ExtrefInv, ExtrefTypes, Link
  <2>3. /\ sweeper' \in Resize /\ sweeper'.j = entry[sweeper.j].next
        /\ sweeper'.by = sweeper.by /\ sweeper'.time = sweeper.time /\ sweeper'.at = sweeper.at
        /\ sweeper'.bucket = sweeper.bucket /\ sweeper'.k = sweeper.k /\ sweeper'.new = sweeper.new
    BY <2>1, <2>2 DEF Resize
  <2>4. /\ Made' = Made /\ Link' = Link /\ Resize' = Resize
        /\ entry' \in [Handle -> Record \union {NoEntry}]
        /\ \A h \in Made : entry'[h] \in Record /\ entry'[h].next \in Link
        /\ entry'[sweeper.k].next = sweeper'.j
        /\ \A h \in Handle : h # sweeper.k => entry'[h] = entry[h]
    BY <2>1, <2>2, <2>3, RelinkIs
  <2>5. \A h \in Made : /\ entry'[h].valid_to = entry[h].valid_to
                        /\ entry'[h].until = entry[h].until
                        /\ entry'[h].timeout = entry[h].timeout
    BY <2>1, <2>2, RelinkIs
  <2>6. ExtrefTypes'
    BY <1>1, <2>2, <2>3, <2>4, RestIs DEF ExtrefTypes
  <2>7. Times'
    BY <1>1, <2>4, <2>5 DEF ExtrefInv, Times
  <2>8. ValidIsHeld'
    <3>. SUFFICES ASSUME NEW h \in Handle \ late, Valid(h)
                  PROVE  Held(h)'
      BY <1>1, <2>4, <2>5 DEF ValidIsHeld, Valid
    <3>1. h \in Made /\ Heads(h)' = Heads(h)
      BY <1>1, <2>3 DEF Valid, Heads
    <3>2. PICK r \in Heads(h) : h \in Walked(entry, r)
      BY DEF ExtrefInv, ValidIsHeld, Held
    <3>3. h # sweeper.j
      BY <1>1, <2>2 DEF Valid, ExtrefTypes, Record
    <3>4. sweeper.j \in Entries(entry) /\ sweeper.k \in Entries(entry) /\ Entries(entry') = Entries(entry)
      BY <2>2, <2>4 DEF Made
    <3>5. \A i \in Entries(entry) \ {sweeper.k} : entry'[i].next = entry[i].next
      BY <2>4 DEF Entries
    <3>6. entry[sweeper.k].next \in {NoHandle, sweeper.j}
      BY <1>1, <1>3 DEF ExtrefInv, LastIsBefore
    <3>7. entry'[sweeper.k].next = entry[sweeper.j].next
      BY <2>3, <2>4
    <3>8. h \in Walked(entry', r)
      BY <3>2, <3>3, <3>4, <3>5, <3>6, <3>7, WalkedPast
    <3>. QED  BY <2>4, <3>1, <3>2, <3>8 DEF Held
  <2>9. LastIsBefore'
    BY <1>1, <2>3, <2>4 DEF LastIsBefore
  <2>10. CountIsOf'
    BY <1>1, <1>3, <2>3, RestIs DEF ExtrefInv, CountIsOf
  <2>11. AllFresh'
    <3>. SUFFICES ASSUME NEW P, Fresh(P), sweeper.j # extrefs[sweeper.bucket]
                  PROVE  Fresh(P)'
      BY <1>1 DEF ExtrefInv, AllFresh
    <3>1. Counting(P) /\ P \subseteq Made
      BY <1>1 DEF Fresh
    <3>2. \A h \in P : entry'[h].until = entry[h].until
      BY <2>5, <3>1
    <3>3. \A h \in P : h # sweeper.k => entry'[h].next \in OrNone(P)
      BY <2>4, <3>1 DEF Counting, Made, Entries
    <3>4. extrefs[sweeper.bucket] \in P
      BY <1>1, <3>1 DEF Counting
    <3>5. Counting(P)'
      BY <1>1, <2>3, <3>1, <3>2, <3>3, <3>4 DEF Counting, DueFor, Lasting, OrNone
    <3>. QED  BY <1>1, <2>3, <2>4, <3>1, <3>5, RestIs DEF Fresh
  <2>. QED  BY <1>1, <2>6, <2>7, <2>8, <2>9, <2>10, <2>11 DEF ExtrefInv
<1>. QED  BY <1>2, <1>3

LEMMA NextChainKeeps ==
  ASSUME ExtrefAssumption, ExtrefInv, NextChain
  PROVE  ExtrefInv'
<1>. sweeper # NoSweep
  BY DEF NextChain, NoSweep
<1>1. /\ sweeper.at = "move" /\ sweeper.j = NoHandle /\ sweeper.bucket < Len(extrefs)
      /\ sweeper' = [sweeper EXCEPT !.bucket = sweeper.bucket + 1,
                                    !.j = extrefs[sweeper.bucket + 1]]
      /\ UNCHANGED <<now, entry, extrefs, extref_count, extref_next_gc, using, slept, late,
                     refused, met, wrecked>>
  BY DEF NextChain, table
<1>2. /\ ExtrefTypes /\ sweeper \in Resize /\ sweeper.bucket \in 1..Len(extrefs)
      /\ sweeper.bucket + 1 \in DOMAIN extrefs /\ extrefs[sweeper.bucket + 1] \in Link
      /\ sweeper.bucket + 1 \in Nat /\ DOMAIN extrefs = 1..Len(extrefs)
  BY <1>1, SweepIs DEF ExtrefInv, ExtrefTypes
<1>3. /\ sweeper' \in Resize /\ sweeper'.at = "move" /\ sweeper'.by = sweeper.by
      /\ sweeper'.time = sweeper.time /\ sweeper'.bucket = sweeper.bucket + 1
      /\ sweeper'.j = extrefs[sweeper.bucket + 1] /\ sweeper'.k = sweeper.k
      /\ sweeper'.new = sweeper.new
  BY <1>1, <1>2 DEF Resize
<1>4. Made' = Made /\ Link' = Link /\ Resize' = Resize
  BY <1>1 DEF Made, Link, Resize
<1>5. ExtrefTypes'
  BY <1>1, <1>2, <1>3, <1>4, RestIs DEF ExtrefTypes
<1>6. Times'
  BY <1>1, <1>4 DEF ExtrefInv, Times
<1>7. ValidIsHeld'
  <2>. SUFFICES ASSUME NEW h \in Handle \ late, Valid(h)
                PROVE  Held(h)'
    BY <1>1, <1>4 DEF ValidIsHeld, Valid
  <2>1. PICK r \in Heads(h) : h \in Walked(entry, r)
    BY DEF ExtrefInv, ValidIsHeld, Held
  <2>2. r # NoHandle
    BY <2>1, WalkedFrom DEF ExtrefAssumption
  <2>3. Heads(h)' = {extrefs[sweeper.bucket + 1], sweeper.new[Bucket(h, Len(sweeper.new))]}
                      \union {extrefs[b] : b \in ((sweeper.bucket + 1) + 1)..Len(extrefs)}
    BY <1>1, <1>3 DEF Heads
  <2>4. Heads(h) = {NoHandle, sweeper.new[Bucket(h, Len(sweeper.new))]}
                     \union {extrefs[b] : b \in (sweeper.bucket + 1)..Len(extrefs)}
    BY <1>1 DEF Heads
  <2>5. r \in Heads(h)'
    <3>1. CASE r = sweeper.new[Bucket(h, Len(sweeper.new))]
      BY <2>3, <3>1
    <3>2. ASSUME NEW b \in (sweeper.bucket + 1)..Len(extrefs), r = extrefs[b]
          PROVE  r \in Heads(h)'
      <4>1. b = sweeper.bucket + 1 \/ b \in ((sweeper.bucket + 1) + 1)..Len(extrefs)
        BY <1>2
      <4>. QED  BY <2>3, <3>2, <4>1
    <3>. QED  BY <2>1, <2>2, <2>4, <3>1, <3>2
  <2>. QED  BY <1>1, <1>4, <2>1, <2>5 DEF Held, Valid
<1>8. LastIsBefore'
  BY <1>1, <1>3 DEF ExtrefInv, LastIsBefore
<1>9. CountIsOf'
  BY <1>1, <1>2, <1>3, RestIs DEF ExtrefInv, CountIsOf, AllEmpty
<1>10. AllFresh'
  <2>. SUFFICES ASSUME NEW P, Fresh(P)
                PROVE  Fresh(P)'
    BY <1>1 DEF ExtrefInv, AllFresh
  <2>1. Moving(P)'
    BY <1>1, <1>2, <1>3 DEF Fresh, Moving, Linked, LeadTo, DueFor, Lasting, OrNone
  <2>. QED  BY <1>1, <1>3, <1>4, <2>1, RestIs DEF Fresh
<1>. QED  BY <1>1, <1>5, <1>6, <1>7, <1>8, <1>9, <1>10 DEF ExtrefInv

LEMMA MoveEntryKeeps ==
  ASSUME ExtrefAssumption, ExtrefInv, MoveEntry
  PROVE  ExtrefInv'
<1>. sweeper # NoSweep
  BY DEF MoveEntry, NoSweep
<1>. DEFINE at == Bucket(sweeper.j, Len(sweeper.new))
<1>1. /\ sweeper.at = "move" /\ sweeper.j # NoHandle
      /\ entry' = [entry EXCEPT ![sweeper.j].next = sweeper.new[at]]
      /\ sweeper' = [sweeper EXCEPT !.new[at] = sweeper.j, !.j = entry[sweeper.j].next]
      /\ UNCHANGED <<now, extrefs, extref_count, extref_next_gc, using, slept, late, refused,
                     met, wrecked>>
  BY DEF MoveEntry, PutFirst, table
<1>2. /\ ExtrefTypes /\ sweeper.j \in Made /\ sweeper \in Resize /\ sweeper.time = now
      /\ entry[sweeper.j].next \in Link /\ sweeper.j \in Link
      /\ sweeper.new \in Seq(Link) /\ sweeper.new # <<>> /\ DOMAIN sweeper.new = 1..Len(sweeper.new)
      /\ Len(sweeper.new) \in Nat \ {0} /\ Made \subseteq Handle
  BY <1>1, SweepIs DEF ExtrefInv, ExtrefTypes, Link, Made, Entries
<1>3. PICK b \in 1..Len(sweeper.new) : b = at /\ sweeper.new[b] \in Link
  BY <1>2, BucketIs
<1>. HIDE DEF at
<1>4. PICK new : new = [sweeper.new EXCEPT ![b] = sweeper.j]
  OBVIOUS
<1>5. /\ new \in Seq(Link) /\ new # <<>> /\ Len(new) = Len(sweeper.new)
      /\ DOMAIN new = 1..Len(sweeper.new) /\ new[b] = sweeper.j
      /\ \A c \in 1..Len(sweeper.new) : c # b => new[c] = sweeper.new[c]
  BY <1>2, <1>4
<1>6. /\ sweeper' \in Resize /\ sweeper'.j = entry[sweeper.j].next /\ sweeper'.new = new
      /\ sweeper'.by = sweeper.by /\ sweeper'.time = sweeper.time /\ sweeper'.at = sweeper.at
      /\ sweeper'.bucket = sweeper.bucket /\ sweeper'.k = sweeper.k
  <2>1. sweeper' = [sweeper EXCEPT !.new = new, !.j = entry[sweeper.j].next]
    BY <1>1, <1>2, <1>3, <1>4
  <2>. QED  BY <1>2, <1>5, <2>1 DEF Resize
<1>7. /\ Made' = Made /\ Link' = Link /\ Resize' = Resize
      /\ entry' \in [Handle -> Record \union {NoEntry}]
      /\ \A h \in Made : entry'[h] \in Record /\ entry'[h].next \in Link
      /\ entry'[sweeper.j].next = sweeper.new[b]
      /\ \A h \in Handle : h # sweeper.j => entry'[h] = entry[h]
  BY <1>1, <1>2, <1>3, RelinkIs
<1>8. \A h \in Made : /\ entry'[h].valid_to = entry[h].valid_to
                      /\ entry'[h].until = entry[h].until
                      /\ entry'[h].timeout = entry[h].timeout
  BY <1>1, <1>2, <1>3, RelinkIs
<1>9. ExtrefTypes'
  BY <1>1, <1>2, <1>5, <1>6, <1>7, RestIs DEF ExtrefTypes
<1>10. Times'
  BY <1>1, <1>7, <1>8 DEF ExtrefInv, Times
<1>11. ValidIsHeld'
  <2>. SUFFICES ASSUME NEW h \in Handle \ late, Valid(h)
                PROVE  Held(h)'
    BY <1>1, <1>7, <1>8 DEF ValidIsHeld, Valid
  <2>. DEFINE c == Bucket(h, Len(sweeper.new))
              x == entry[sweeper.j].next
              later == {extrefs[i] : i \in (sweeper.bucket + 1)..Len(extrefs)}
  <2>1. h \in Made /\ c \in 1..Len(sweeper.new)
    BY <1>2, BucketIs DEF Valid
  <2>2. PICK r \in Heads(h) : h \in Walked(entry, r)
    BY DEF ExtrefInv, ValidIsHeld, Held
  <2>3. Heads(h) = {sweeper.j, sweeper.new[c]} \union later
    BY <1>1 DEF Heads
  <2>4. Heads(h)' = {x, new[c]} \union later
    BY <1>1, <1>5, <1>6 DEF Heads
  <2>5. sweeper.j \in Entries(entry) /\ Entries(entry') = Entries(entry) /\ sweeper.j \in Entries(entry')
    BY <1>2, <1>7 DEF Made
  <2>6. \A i \in Entries(entry) \ {sweeper.j} : entry'[i].next = entry[i].next
    BY <1>7 DEF Entries
  <2>7. h \in Walked(entry', r) \/ h \in Walked(entry', x)
    BY <2>2, <2>5, <2>6, WalkedCut
  <2>8. CASE h \in Walked(entry', x)
    BY <1>7, <2>1, <2>4, <2>8 DEF Held
  <2>9. CASE h = sweeper.j
    <3>1. h = new[c] /\ h \in Walked(entry', h)
      BY <1>3, <1>5, <2>9, WalkedFrom DEF at, ExtrefAssumption
    <3>. QED  BY <1>7, <2>1, <2>4, <3>1 DEF Held
  <2>10. CASE h # sweeper.j /\ h \in Walked(entry', r)
    <3>1. CASE r = sweeper.j
      <4>1. h \in Walked(entry, x)
        BY <2>2, <2>5, <2>10, <3>1, WalkedNext DEF ExtrefAssumption
      <4>2. h \in Walked(entry', x)
        BY <2>5, <2>6, <4>1, WalkedCut
      <4>. QED  BY <2>8, <4>2
    <3>2. CASE r = sweeper.new[c]
      <4>1. CASE c # b
        <5>1. r = new[c]
          BY <1>5, <2>1, <3>2, <4>1
        <5>. QED  BY <1>7, <2>1, <2>4, <2>10, <5>1 DEF Held
      <4>2. CASE c = b
        <5>1. h \in Walked(entry', entry'[sweeper.j].next)
          BY <1>7, <2>10, <3>2, <4>2
        <5>2. h \in Walked(entry', new[c])
          BY <1>5, <2>5, <4>2, <5>1, WalkedNext DEF ExtrefAssumption
        <5>. QED  BY <1>7, <2>1, <2>4, <5>2 DEF Held
      <4>. QED  BY <4>1, <4>2
    <3>3. CASE r \in later
      BY <1>7, <2>1, <2>4, <2>10, <3>3 DEF Held
    <3>. QED  BY <2>2, <2>3, <3>1, <3>2, <3>3
  <2>. QED  BY <2>7, <2>8, <2>9, <2>10
<1>12. LastIsBefore'
  BY <1>1, <1>6 DEF LastIsBefore
<1>13. CountIsOf'
  BY <1>1, <1>6, RestIs DEF ExtrefInv, CountIsOf
<1>14. AllFresh'
  <2>. SUFFICES ASSUME NEW P, Fresh(P)
                PROVE  Fresh(P)'
    BY <1>1 DEF ExtrefInv, AllFresh
  <2>1. Moving(P) /\ P \subseteq Made /\ P \subseteq Handle
    BY <1>1, <1>2 DEF Fresh
  <2>2. DueFor(P)' /\ Lasting(P)'
    BY <1>1, <1>8, <2>1 DEF Moving, DueFor, Lasting
  <2>3. sweeper.j \in P /\ sweeper.new[b] \in OrNone(P)
    BY <1>1, <1>2, <1>3, <2>1 DEF Moving, LeadTo, OrNone
  <2>4. Linked(P)'
    BY <1>7, <2>1, <2>3 DEF Moving, Linked, OrNone
  <2>5. LeadTo(extrefs, P)' /\ LeadTo(new, P)
    <3>1. \A c \in 1..Len(sweeper.new) : new[c] \in OrNone(P)
      BY <1>2, <1>5, <2>1, <2>3 DEF Moving, LeadTo, OrNone
    <3>. QED  BY <1>1, <1>5, <2>1, <3>1 DEF Moving, LeadTo, OrNone
  <2>6. entry[sweeper.j].next \in OrNone(P)
    BY <2>1, <2>3 DEF Moving, Linked
  <2>7. LeadTo(sweeper'.new, P)
    BY <1>6, <2>5
  <2>8. Moving(P)'
    BY <1>6, <2>2, <2>4, <2>5, <2>6, <2>7 DEF Moving, OrNone, LeadTo
  <2>. QED  BY <1>1, <1>6, <1>7, <2>1, <2>8, RestIs DEF Fresh
<1>. QED  BY <1>1, <1>9, <1>10, <1>11, <1>12, <1>13, <1>14 DEF ExtrefInv

\* The mutex is released.
LEMMA EndSweepIs ==
  ASSUME ExtrefTypes, sweeper # NoSweep, NEW due \in Nat, EndSweep(due)
  PROVE  /\ sweeper' = NoSweep /\ extref_next_gc' \in Nat /\ extref_next_gc' <= due
         /\ using' \in [User -> {Idle} \union [do : {"put", "search", "use"}, handle : Made]]
<1>. DEFINE Using == [User -> {Idle} \union [do : {"put", "search", "use"}, handle : Made]]
<1>0. using \in Using /\ sweeper' = NoSweep
  BY DEF ExtrefTypes, EndSweep
<1>1. CASE sweeper.by \in User
  <2>. DEFINE u == sweeper.by
  <2>1. u \in User /\ using[u].do = "put"
    BY <1>1 DEF ExtrefTypes
  <2>2. using[u].handle \in Made
    BY <1>0, <2>1 DEF Idle
  <2>3. entry[using[u].handle].valid_to \in Nat
    BY <2>2 DEF ExtrefTypes, Record
  <2>4. /\ extref_next_gc' = Sooner(entry[using[u].handle].valid_to, due)
        /\ using' = [using EXCEPT ![u] = Idle]
    BY <1>1 DEF EndSweep
  <2>5. extref_next_gc' \in Nat /\ extref_next_gc' <= due
    BY <2>3, <2>4 DEF Sooner
  <2>6. using' \in Using
    BY <1>0, <2>1, <2>4
  <2>. QED  BY <1>0, <2>5, <2>6
<1>2. CASE sweeper.by \notin User
  BY <1>0, <1>2 DEF EndSweep
<1>. QED  BY <1>1, <1>2

\* A table has buckets after a sweep.
LEMMA NewSizeIs ==
  ASSUME ExtrefAssumption, ExtrefTypes, Len(extrefs) \in Nat, Len(extrefs) >= 1
  PROVE  NewSize \in Nat \ {0} 
<1>1. extref_count \in Nat /\ INITIAL_MASK \in Nat \ {0}
  BY DEF ExtrefAssumption, ExtrefTypes
<1>. DEFINE n == Len(extrefs)
<1>2. n \in Nat /\ n >= 1
  OBVIOUS
<1>3. NewSize = IF extref_count > n - 1 THEN 2 * n
                ELSE IF extref_count < (n - 1) \div 2 /\ n - 1 > INITIAL_MASK THEN n \div 2
                ELSE n
  BY DEF NewSize
<1>. HIDE DEF n
<1>4. CASE n - 1 > INITIAL_MASK
  <2>1. n >= 3
    BY <1>1, <1>2, <1>4
  <2>. QED  BY <1>1, <1>2, <1>3, <2>1
<1>5. CASE ~(n - 1 > INITIAL_MASK)
  BY <1>1, <1>2, <1>3, <1>5
<1>. QED  BY <1>4, <1>5

LEMMA SweptKeeps ==
  ASSUME ExtrefAssumption, ExtrefInv, Swept
  PROVE  ExtrefInv'
<1>. sweeper # NoSweep
  BY DEF Swept, NoSweep
<1>0. \A m \in Nat : \A b \in 1..m : b \in 1..(m - 1) \/ b = m
  OBVIOUS
<1>. DEFINE n == Len(extrefs)
<1>1. PICK due : due = IF extref_next_gc < sweeper.time THEN sweeper.time + DAY ELSE extref_next_gc
  OBVIOUS
<1>2. /\ sweeper.at = "unlink" /\ sweeper.j = NoHandle /\ sweeper.bucket = n
      /\ IF NewSize = n THEN EndSweep(due)
         ELSE /\ sweeper' = [sweeper EXCEPT !.at = "move", !.bucket = 1, !.j = extrefs[1],
                                            !.new = [b \in 1..NewSize |-> NoHandle]]
              /\ extref_next_gc' = due
              /\ UNCHANGED using
      /\ UNCHANGED <<now, entry, extrefs, extref_count, slept, late, refused, met, wrecked>>
  BY <1>1 DEF Swept
<1>3. /\ ExtrefTypes /\ sweeper \in Resize /\ n \in Nat /\ n >= 1 /\ sweeper.time = now
      /\ now \in Nat /\ extref_next_gc \in Nat /\ DAY \in Nat /\ extrefs[1] \in Link
      /\ DOMAIN extrefs = 1..n /\ 1 \in 1..n /\ extrefs \in Seq(Link)
  BY SweepIs DEF ExtrefInv, ExtrefTypes, ExtrefAssumption
<1>4. due \in Nat /\ due >= now /\ (extref_next_gc >= now => due = extref_next_gc)
  BY <1>1, <1>3
<1>5. Made' = Made /\ Link' = Link /\ Resize' = Resize
  BY <1>2 DEF Made, Link, Resize
<1>6. Times'
  BY <1>2, <1>5 DEF ExtrefInv, Times
<1>7. extref_count = 0 => AllEmpty(extrefs)
  <2>. SUFFICES ASSUME extref_count = 0, NEW b \in 1..n
                PROVE  extrefs[b] = NoHandle
    BY <1>3 DEF AllEmpty
  <2>1. b \in 1..(n - 1) \/ b = n
    BY <1>0, <1>3
  <2>. QED  BY <1>2, <2>1 DEF ExtrefInv, CountIsOf
<1>8. ASSUME NEW P, Fresh(P)
      PROVE  /\ P \subseteq Made /\ Linked(P) /\ LeadTo(extrefs, P) /\ Lasting(P)
             /\ \A h \in P : due <= entry[h].until
  <2>1. Counting(P) /\ P \subseteq Made
    BY <1>2, <1>8 DEF Fresh
  <2>2. Linked(P)
    BY <1>2, <2>1 DEF Counting, Linked, ExtrefInv, LastIsBefore, OrNone
  <2>3. LeadTo(extrefs, P)
    <3>. SUFFICES ASSUME NEW b \in 1..n
                  PROVE  extrefs[b] \in OrNone(P)
      BY <1>3 DEF LeadTo
    <3>1. b \in 1..(n - 1) \/ b = n
      BY <1>0, <1>3
    <3>. QED  BY <1>2, <2>1, <3>1 DEF Counting, OrNone
  <2>4. \A h \in P : due <= entry[h].until
    BY <1>4, <2>1 DEF Counting, DueFor
  <2>. QED  BY <2>1, <2>2, <2>3, <2>4 DEF Counting
<1>9. ASSUME NEW h \in Handle \ late, Valid(h)
      PROVE  /\ h \in Made /\ Bucket(h, n) \in 1..n
             /\ h \in Walked(entry, extrefs[Bucket(h, n)])
  <2>1. Held(h) /\ h \in Handle
    BY <1>9 DEF ExtrefInv, ValidIsHeld
  <2>. QED  BY <1>2, <1>3, <2>1, HeadsIs, BucketIs DEF Held
<1>10. CASE NewSize = n
  <2>1. /\ sweeper' = NoSweep /\ extref_next_gc' \in Nat /\ extref_next_gc' <= due
        /\ using' \in [User -> {Idle} \union [do : {"put", "search", "use"}, handle : Made]]
    BY <1>2, <1>3, <1>4, <1>10, EndSweepIs
  <2>2. ExtrefTypes'
    BY <1>2, <1>3, <1>5, <2>1 DEF ExtrefTypes
  <2>3. ValidIsHeld'
    <3>. SUFFICES ASSUME NEW h \in Handle \ late, Valid(h)
                  PROVE  Held(h)'
      BY <1>2, <1>5 DEF ValidIsHeld, Valid
    <3>1. Heads(h)' = {extrefs[Bucket(h, n)]}
      BY <1>2, <2>1, RestIs DEF Heads
    <3>. QED  BY <1>2, <1>5, <1>9, <3>1 DEF Held
  <2>4. LastIsBefore' /\ CountIsOf'
    BY <1>2, <1>7, <2>1, RestIs DEF LastIsBefore, CountIsOf, AllEmpty
  <2>5. AllFresh'
    <3>. SUFFICES ASSUME NEW P, Fresh(P)
                  PROVE  Fresh(P)'
      BY <1>2 DEF ExtrefInv, AllFresh
    <3>1. \A h \in P : entry[h].until \in Nat
      BY <1>3, <1>8 DEF ExtrefTypes, Record
    <3>2. DueFor(P)'
      BY <1>2, <1>4, <1>8, <2>1, <3>1 DEF DueFor
    <3>3. AtRest(P)'
      BY <1>2, <1>8, <3>2 DEF AtRest, Linked, LeadTo, Lasting, OrNone
    <3>. QED  BY <1>5, <1>8, <2>1, <3>3, RestIs DEF Fresh
  <2>. QED  BY <1>2, <1>6, <2>2, <2>3, <2>4, <2>5 DEF ExtrefInv
<1>11. CASE NewSize # n
  <2>1. PICK new : new = [b \in 1..NewSize |-> NoHandle]
    OBVIOUS
  <2>2. NewSize \in Nat \ {0}
    BY <1>3, NewSizeIs DEF ExtrefInv
  <2>3. /\ new \in Seq(Link) /\ Len(new) = NewSize /\ new # <<>> /\ DOMAIN new = 1..NewSize
        /\ \A b \in 1..NewSize : new[b] = NoHandle
    <3>1. NoHandle \in Link
      BY DEF Link
    <3>. QED  BY <2>1, <2>2, <3>1
  <2>4. /\ sweeper' = [sweeper EXCEPT !.at = "move", !.bucket = 1, !.j = extrefs[1], !.new = new]
        /\ extref_next_gc' = due /\ using' = using
    BY <1>2, <1>11, <2>1
  <2>5. /\ sweeper' \in Resize /\ sweeper'.at = "move" /\ sweeper'.bucket = 1
        /\ sweeper'.j = extrefs[1] /\ sweeper'.new = new /\ sweeper'.by = sweeper.by
        /\ sweeper'.time = sweeper.time /\ sweeper'.k = sweeper.k
    BY <1>3, <2>3, <2>4 DEF Resize
  <2>6. ExtrefTypes'
    BY <1>2, <1>3, <1>4, <1>5, <2>3, <2>4, <2>5, RestIs DEF ExtrefTypes
  <2>7. ValidIsHeld'
    <3>. SUFFICES ASSUME NEW h \in Handle \ late, Valid(h)
                  PROVE  Held(h)'
      BY <1>2, <1>5 DEF ValidIsHeld, Valid
    <3>1. Heads(h)' = {extrefs[1], new[Bucket(h, Len(new))]}
                        \union {extrefs[b] : b \in (1 + 1)..n}
      BY <1>2, <2>5 DEF Heads
    <3>2. PICK b \in 1..n : b = Bucket(h, n) /\ h \in Walked(entry, extrefs[b])
      BY <1>9
    <3>3. b = 1 \/ b \in (1 + 1)..n
      BY <1>3
    <3>4. extrefs[b] \in Heads(h)'
      BY <3>1, <3>3
    <3>. QED  BY <1>2, <1>5, <1>9, <3>2, <3>4 DEF Held
  <2>8. LastIsBefore'
    BY <2>5 DEF LastIsBefore
  <2>9. CountIsOf'
    <3>1. AllEmpty(new)
      BY <2>3 DEF AllEmpty
    <3>2. extref_count = 0 => extrefs[1] = NoHandle
      BY <1>3, <1>7 DEF AllEmpty
    <3>. QED  BY <1>2, <1>7, <2>5, <3>1, <3>2, RestIs DEF CountIsOf, AllEmpty
  <2>10. AllFresh'
    <3>. SUFFICES ASSUME NEW P, Fresh(P)
                  PROVE  Fresh(P)'
      BY <1>2 DEF ExtrefInv, AllFresh
    <3>1. LeadTo(new, P) /\ extrefs[1] \in OrNone(P)
      BY <1>3, <1>8, <2>3 DEF LeadTo, OrNone
    <3>2. Moving(P)'
      BY <1>2, <1>8, <2>4, <2>5, <3>1 DEF Moving, Linked, LeadTo, Lasting, DueFor, OrNone
    <3>. QED  BY <1>5, <1>8, <2>5, <3>2, RestIs DEF Fresh
  <2>. QED  BY <1>2, <1>6, <2>6, <2>7, <2>8, <2>9, <2>10 DEF ExtrefInv
<1>. QED  BY <1>10, <1>11

LEMMA MovedKeeps ==
  ASSUME ExtrefAssumption, ExtrefInv, Moved
  PROVE  ExtrefInv'
<1>. sweeper # NoSweep
  BY DEF Moved, NoSweep
<1>1. /\ sweeper.at = "move" /\ sweeper.j = NoHandle /\ sweeper.bucket = Len(extrefs)
      /\ extrefs' = sweeper.new /\ EndSweep(extref_next_gc)
      /\ UNCHANGED <<now, entry, extref_count, slept, late, refused, met, wrecked>>
  BY DEF Moved
<1>2. /\ ExtrefTypes /\ sweeper.new \in Seq(Link) /\ sweeper.new # <<>>
      /\ Len(sweeper.new) \in Nat \ {0} /\ extref_next_gc \in Nat /\ Len(extrefs) \in Nat
      /\ sweeper.time = now
  BY <1>1, SweepIs DEF ExtrefInv, ExtrefTypes
<1>3. /\ sweeper' = NoSweep /\ extref_next_gc' \in Nat /\ extref_next_gc' <= extref_next_gc
      /\ using' \in [User -> {Idle} \union [do : {"put", "search", "use"}, handle : Made]]
  BY <1>1, <1>2, EndSweepIs
<1>4. Made' = Made /\ Link' = Link /\ Resize' = Resize
  BY <1>1 DEF Made, Link, Resize
<1>5. ExtrefTypes'
  BY <1>1, <1>2, <1>3, <1>4 DEF ExtrefTypes
<1>6. Times'
  BY <1>1, <1>4 DEF ExtrefInv, Times
<1>7. ValidIsHeld'
  <2>. SUFFICES ASSUME NEW h \in Handle \ late, Valid(h)
                PROVE  Held(h)'
    BY <1>1, <1>4 DEF ValidIsHeld, Valid
  <2>1. PICK r \in Heads(h) : h \in Walked(entry, r)
    BY DEF ExtrefInv, ValidIsHeld, Held
  <2>2. r # NoHandle
    BY <2>1, WalkedFrom DEF ExtrefAssumption
  <2>3. (Len(extrefs) + 1)..Len(extrefs) = {}
    BY <1>2
  <2>4. Heads(h) = {NoHandle, sweeper.new[Bucket(h, Len(sweeper.new))]}
    BY <1>1, <2>3 DEF Heads
  <2>5. Heads(h)' = {sweeper.new[Bucket(h, Len(sweeper.new))]}
    BY <1>1, <1>3, RestIs DEF Heads
  <2>. QED  BY <1>1, <1>4, <2>1, <2>2, <2>4, <2>5 DEF Held, Valid
<1>8. LastIsBefore' /\ CountIsOf'
  BY <1>1, <1>3, RestIs DEF ExtrefInv, LastIsBefore, CountIsOf, AllEmpty
<1>9. AllFresh'
  <2>. SUFFICES ASSUME NEW P, Fresh(P)
                PROVE  Fresh(P)'
    BY <1>1 DEF ExtrefInv, AllFresh
  <2>1. Moving(P) /\ P \subseteq Made
    BY <1>1 DEF Fresh
  <2>2. \A h \in P : entry[h].until \in Nat
    BY <1>2, <2>1 DEF ExtrefTypes, Record
  <2>3. DueFor(P)'
    BY <1>1, <1>2, <1>3, <2>1, <2>2 DEF Moving, DueFor
  <2>4. AtRest(P)'
    BY <1>1, <2>1, <2>3 DEF AtRest, Moving, Linked, LeadTo, Lasting, OrNone
  <2>. QED  BY <1>3, <1>4, <2>1, <2>4, RestIs DEF Fresh
<1>. QED  BY <1>1, <1>5, <1>6, <1>7, <1>8, <1>9 DEF ExtrefInv

(***************************************************************************)
(* The threads.                                                            *)
(***************************************************************************)



\* Another table gets one more entry: the others are met as before.
LEMMA WalkedMore ==
  ASSUME NEW e, NEW f, NEW h \in Handle, Entries(f) = Entries(e) \union {h},
         \A i \in Entries(e) : f[i].next = e[i].next,
         \A i \in Entries(e) : e[i].next \in Entries(e) \union {NoHandle},
         NEW r \in Entries(e) \union {NoHandle}, NEW g \in Walked(e, r)
  PROVE  g \in Walked(f, r)
<1>. SUFFICES ASSUME g \notin Walked(f, r)
              PROVE  FALSE
  OBVIOUS
<1>0. g \in Handle
  BY DEF Walked
<1>1. PICK S : Around(f, r, S) /\ g \notin S
  BY <1>0, NotWalked
<1>2. Around(e, r, S \intersect Entries(e))
  BY <1>1 DEF Around
<1>. QED  BY <1>1, <1>2, WalkedWithin

\* When the mutex is free, what is valid is in the table.
LEMMA HeldIs ==
  ASSUME ExtrefAssumption, ExtrefInv, sweeper = NoSweep, NEW h \in Handle \ late, Valid(h)
  PROVE  /\ h \in Made /\ Len(extrefs) \in Nat \ {0} /\ Bucket(h, Len(extrefs)) \in 1..Len(extrefs)
         /\ h \in Walked(entry, extrefs[Bucket(h, Len(extrefs))])
<1>1. h \in Made /\ Held(h) /\ ExtrefTypes
  BY DEF ExtrefInv, ValidIsHeld, Valid
<1>2. Len(extrefs) \in Nat \ {0}
  BY <1>1 DEF ExtrefTypes
<1>3. Bucket(h, Len(extrefs)) \in 1..Len(extrefs)
  BY <1>2, BucketIs
<1>4. Heads(h) = {extrefs[Bucket(h, Len(extrefs))]}
  BY RestIs, HeadsIs
<1>. QED  BY <1>1, <1>2, <1>3, <1>4 DEF Held

\* What a sweep that begins makes of the table.
LEMMA BegunIs ==
  ASSUME NEW by, BeginSweep(by, extrefs')
  PROVE  /\ sweeper' = [by |-> by, time |-> now, at |-> "drop", bucket |-> 1, j |-> extrefs'[1],
                        k |-> NoHandle, new |-> <<>>]
         /\ sweeper' # NoSweep /\ extref_count' = 0
         /\ LastIsBefore' /\ CountIsOf' /\ AllFresh'
         /\ \A g : Heads(g)' = {extrefs'[Bucket(g, Len(extrefs'))]}
<1>1. /\ sweeper' = [by |-> by, time |-> now, at |-> "drop", bucket |-> 1, j |-> extrefs'[1],
                     k |-> NoHandle, new |-> <<>>]
      /\ extref_count' = 0
  BY DEF BeginSweep
<1>2. /\ sweeper'.at = "drop" /\ sweeper'.bucket = 1 /\ sweeper'.j = extrefs'[1]
      /\ sweeper'.k = NoHandle
  BY <1>1
<1>3. sweeper' # NoSweep
  BY <1>2, RestIs
<1>4. LastIsBefore'
  BY <1>2 DEF LastIsBefore
<1>5. CountIsOf'
  BY <1>2, <1>3 DEF CountIsOf
<1>6. AllFresh'
  <2>1. Counting({})'
    BY <1>2 DEF Counting, DueFor, Lasting
  <2>2. Fresh({})'
    BY <1>2, <1>3, <2>1 DEF Fresh
  <2>. QED  BY <2>2 DEF AllFresh
<1>7. \A g : Heads(g)' = {extrefs'[Bucket(g, Len(extrefs'))]}
  BY <1>2 DEF Heads
<1>. QED  BY <1>1, <1>3, <1>4, <1>5, <1>6, <1>7

LEMMA WakeKeeps ==
  ASSUME ExtrefAssumption, ExtrefInv, Wake
  PROVE  ExtrefInv'
<1>1. /\ extrefs # <<>> /\ sweeper = NoSweep /\ ~slept'
      /\ UNCHANGED <<now, entry, extrefs, extref_next_gc, using, late, refused, met, wrecked>>
  BY DEF Wake
<1>2. /\ ExtrefTypes /\ now \in Nat /\ extref_next_gc \in Nat /\ Len(extrefs) >= 1
      /\ extrefs \in Seq(Link) /\ Len(extrefs) \in Nat /\ extrefs[1] \in Link
  BY <1>1 DEF ExtrefInv, ExtrefTypes
<1>3. Made' = Made /\ Link' = Link /\ Resize' = Resize
  BY <1>1 DEF Made, Link, Resize
<1>4. Times'
  BY <1>1, <1>3 DEF ExtrefInv, Times
<1>5. ASSUME NEW h \in Handle \ late', Valid(h)',
             Heads(h)' = {extrefs'[Bucket(h, Len(extrefs'))]}
      PROVE  Held(h)'
  <2>1. Valid(h) /\ h \in Handle \ late
    BY <1>1, <1>3, <1>5 DEF Valid
  <2>2. h \in Made /\ h \in Walked(entry, extrefs[Bucket(h, Len(extrefs))])
    BY <1>1, <2>1, HeldIs
  <2>. QED  BY <1>1, <1>3, <1>5, <2>2 DEF Held
<1>6. CASE now >= extref_next_gc
  <2>1. BeginSweep(Collector, extrefs')
    BY <1>1, <1>6 DEF Wake
  <2>2. /\ sweeper' = [by |-> Collector, time |-> now, at |-> "drop", bucket |-> 1,
                       j |-> extrefs'[1], k |-> NoHandle, new |-> <<>>]
        /\ sweeper' # NoSweep /\ extref_count' = 0 /\ LastIsBefore' /\ CountIsOf' /\ AllFresh'
    BY <2>1, BegunIs
  <2>3. \A g : Heads(g)' = {extrefs'[Bucket(g, Len(extrefs'))]}
    BY <2>1, BegunIs
  <2>4. sweeper' \in Resize
    BY <1>1, <1>2, <2>2 DEF Resize, Link
  <2>5. ExtrefTypes'
    <3>1. sweeper'.time = now /\ sweeper'.bucket = 1 /\ sweeper'.at = "drop" /\ sweeper'.by \notin User
      BY <2>2 DEF ExtrefAssumption
    <3>2. 1 \in 1..Len(extrefs) /\ 0 \in Nat
      BY <1>2
    <3>3. /\ entry \in [Handle -> Record \union {NoEntry}]
          /\ \A h \in Made : entry[h] \in Record /\ entry[h].next \in Link
          /\ using \in [User -> {Idle} \union [do : {"put", "search", "use"}, handle : Made]]
      BY <1>2 DEF ExtrefTypes
    <3>4. using' \in [User -> {Idle} \union [do : {"put", "search", "use"}, handle : Made]]'
      BY <1>1, <1>3, <3>3
    <3>. QED  BY <1>1, <1>2, <1>3, <2>2, <2>4, <3>1, <3>2, <3>3, <3>4 DEF ExtrefTypes
  <2>6. ValidIsHeld'
    BY <1>5, <2>3 DEF ValidIsHeld
  <2>. QED  BY <1>1, <1>4, <2>2, <2>5, <2>6 DEF ExtrefInv
<1>7. CASE ~(now >= extref_next_gc)
  <2>1. UNCHANGED <<sweeper, extref_count>>
    BY <1>7 DEF Wake
  <2>2. ExtrefTypes' /\ LastIsBefore' /\ CountIsOf'
    BY <1>1, <1>2, <1>3, <2>1, RestIs DEF ExtrefInv, ExtrefTypes, LastIsBefore, CountIsOf, AllEmpty
  <2>3. ValidIsHeld'
    <3>1. \A h : Heads(h)' = {extrefs'[Bucket(h, Len(extrefs'))]}
      BY <1>1, <2>1, RestIs DEF Heads
    <3>. QED  BY <1>5, <3>1 DEF ValidIsHeld
  <2>4. AllFresh'
    <3>. SUFFICES ASSUME NEW P, Fresh(P)
                  PROVE  Fresh(P)'
      BY <1>1 DEF ExtrefInv, AllFresh
    <3>1. AtRest(P) /\ P \subseteq Made
      BY <1>1 DEF Fresh
    <3>2. \A h \in P : entry[h].until \in Nat
      BY <1>2, <3>1 DEF ExtrefTypes, Record
    <3>3. Lasting(P)
      BY <1>2, <1>7, <3>1, <3>2 DEF AtRest, DueFor, Lasting
    <3>4. AtRest(P)'
      BY <1>1, <3>1, <3>3 DEF AtRest, Linked, LeadTo, DueFor, Lasting, OrNone
    <3>. QED  BY <1>1, <1>3, <2>1, <3>1, <3>4, RestIs DEF Fresh
  <2>. QED  BY <1>1, <1>4, <2>2, <2>3, <2>4 DEF ExtrefInv
<1>. QED  BY <1>6, <1>7

LEMMA TickKeeps ==
  ASSUME ExtrefAssumption, ExtrefInv, Tick
  PROVE  ExtrefInv'
<1>1. /\ sweeper = NoSweep /\ slept'
      /\ UNCHANGED <<entry, extrefs, extref_count, extref_next_gc, sweeper, using, late, refused,
                     met, wrecked>>
  BY DEF Tick, table
<1>2. PICK seconds \in 1..2 : now' = now + seconds
  BY DEF Tick
<1>3. now \in Nat /\ now' \in Nat /\ now' > now /\ ExtrefTypes
  BY <1>2 DEF ExtrefInv, ExtrefTypes
<1>4. Made' = Made /\ Link' = Link /\ Resize' = Resize
  BY <1>1 DEF Made, Link, Resize
<1>5. ExtrefTypes'
  BY <1>1, <1>3, <1>4 DEF ExtrefTypes
<1>6. Times'
  <2>. SUFFICES ASSUME NEW h \in Made
                PROVE  entry[h].valid_to <= entry[h].until /\ entry[h].until <= now' + entry[h].timeout
    BY <1>1, <1>4 DEF Times
  <2>1. entry[h].timeout \in Nat /\ entry[h].until \in Nat
    BY <1>3 DEF ExtrefTypes, Record
  <2>2. entry[h].valid_to <= entry[h].until /\ entry[h].until <= now + entry[h].timeout
    BY DEF ExtrefInv, Times
  <2>. QED  BY <1>3, <2>1, <2>2
<1>7. ValidIsHeld'
  <2>. SUFFICES ASSUME NEW h \in Handle \ late, Valid(h)'
                PROVE  Held(h)'
    BY <1>1 DEF ValidIsHeld
  <2>1. h \in Made /\ entry[h].valid_to > now'
    BY <1>1, <1>4 DEF Valid
  <2>2. entry[h].valid_to \in Nat
    BY <1>3, <2>1 DEF ExtrefTypes, Record
  <2>3. Valid(h)
    BY <1>3, <2>1, <2>2 DEF Valid
  <2>4. Held(h) /\ Heads(h)' = Heads(h)
    BY <1>1, <2>3 DEF ExtrefInv, ValidIsHeld, Heads
  <2>. QED  BY <1>1, <1>4, <2>4 DEF Held
<1>8. LastIsBefore' /\ CountIsOf'
  BY <1>1, RestIs DEF ExtrefInv, LastIsBefore, CountIsOf, AllEmpty
<1>9. AllFresh'
  <2>. SUFFICES ASSUME NEW P, Fresh(P)
                PROVE  Fresh(P)'
    BY <1>1 DEF ExtrefInv, AllFresh
  <2>1. AtRest(P)'
    BY <1>1 DEF Fresh, AtRest, Linked, LeadTo, DueFor, OrNone
  <2>. QED  BY <1>1, <1>4, <2>1, RestIs DEF Fresh
<1>. QED  BY <1>1, <1>5, <1>6, <1>7, <1>8, <1>9 DEF ExtrefInv

\* What the users do without touching the table.
Usings == [User -> {Idle} \union [do : {"put", "search", "use"}, handle : Made]]

LEMMA UsingKeeps ==
  ASSUME ExtrefInv, using' \in Usings, refused' = {},
         UNCHANGED <<now, entry, table, sweeper, slept, late, met>>,
         sweeper # NoSweep /\ sweeper.by \in User => using'[sweeper.by].do = "put"
  PROVE  ExtrefInv'
<1>1. UNCHANGED <<now, entry, extrefs, extref_count, extref_next_gc, sweeper, slept, late, met>>
  BY DEF table
<1>2. Made' = Made /\ Link' = Link /\ Resize' = Resize /\ ExtrefTypes
  BY <1>1 DEF Made, Link, Resize, ExtrefInv
<1>3. ExtrefTypes'
  BY <1>1, <1>2 DEF ExtrefTypes, Usings
<1>4. Times' /\ LastIsBefore' /\ CountIsOf'
  BY <1>1, <1>2 DEF ExtrefInv, Times, LastIsBefore, CountIsOf, AllEmpty
<1>5. ValidIsHeld'
  <2>. SUFFICES ASSUME NEW h \in Handle \ late, Valid(h)
                PROVE  Held(h)'
    BY <1>1, <1>2 DEF ValidIsHeld, Valid
  <2>1. Held(h) /\ Heads(h)' = Heads(h)
    BY <1>1 DEF ExtrefInv, ValidIsHeld, Heads
  <2>. QED  BY <1>1, <1>2, <2>1 DEF Held
<1>6. AllFresh'
  <2>. SUFFICES ASSUME NEW P, Fresh(P)
                PROVE  Fresh(P)'
    BY <1>1 DEF ExtrefInv, AllFresh
  <2>1. AtRest(P)' = AtRest(P) /\ Counting(P)' = Counting(P) /\ Moving(P)' = Moving(P)
    BY <1>1 DEF AtRest, Counting, Moving, Linked, LeadTo, DueFor, Lasting, OrNone
  <2>. QED  BY <1>1, <1>2, <2>1 DEF Fresh
<1>. QED  BY <1>1, <1>3, <1>4, <1>5, <1>6 DEF ExtrefInv

\* A user that does anything but put is not the one that sweeps.
LEMMA OthersSweep ==
  ASSUME ExtrefInv, NEW u \in User, using[u].do # "put", NEW x,
         using' = using \/ using' = [using EXCEPT ![u] = x]
  PROVE  sweeper # NoSweep /\ sweeper.by \in User => using'[sweeper.by].do = "put"
<1>1. /\ using \in [User -> {Idle} \union [do : {"put", "search", "use"}, handle : Made]]
      /\ sweeper # NoSweep /\ sweeper.by \in User => using[sweeper.by].do = "put"
  BY DEF ExtrefInv, ExtrefTypes
<1>. QED  BY <1>1

\* A handle is refused only when it may be.
LEMMA RefuseIs ==
  ASSUME ExtrefAssumption, ExtrefInv, NEW u \in User, NEW h \in Handle, Refuse(u, h),
         Valid(h) /\ h \notin late => sweeper # NoSweep
  PROVE  refused' = {} /\ using' \in Usings /\ using' = [using EXCEPT ![u] = Idle]
<1>1. using \in Usings /\ refused = {}
  BY DEF ExtrefInv, ExtrefTypes, Usings
<1>. QED  BY <1>1 DEF Refuse, Usings

LEMMA LookKeeps ==
  ASSUME ExtrefAssumption, ExtrefInv, NEW u \in User, NEW h \in Handle, Look(u, h)
  PROVE  ExtrefInv'
<1>1. /\ using[u] = Idle /\ h \in Made
      /\ UNCHANGED <<now, entry, table, sweeper, slept, late, met>>
  BY DEF Look
<1>2. using[u].do # "put" /\ using \in Usings /\ refused = {}
  BY <1>1 DEF Idle, ExtrefInv, ExtrefTypes, Usings
<1>3. CASE extref_count = 0
  <2>1. ASSUME Valid(h), h \notin late, sweeper = NoSweep
        PROVE  FALSE
    <3>1. /\ Bucket(h, Len(extrefs)) \in 1..Len(extrefs)
          /\ h \in Walked(entry, extrefs[Bucket(h, Len(extrefs))])
      BY <2>1, HeldIs
    <3>2. DOMAIN extrefs = 1..Len(extrefs)
      BY DEF ExtrefInv, ExtrefTypes
    <3>3. extrefs[Bucket(h, Len(extrefs))] = NoHandle
      BY <1>3, <2>1, <3>1, <3>2 DEF ExtrefInv, CountIsOf, AllEmpty
    <3>. QED  BY <3>1, <3>3, WalkedFrom DEF ExtrefAssumption
  <2>2. Refuse(u, h)
    BY <1>3 DEF Look
  <2>3. refused' = {} /\ using' \in Usings /\ using' = [using EXCEPT ![u] = Idle]
    BY <2>1, <2>2, RefuseIs
  <2>4. sweeper # NoSweep /\ sweeper.by \in User => using'[sweeper.by].do = "put"
    BY <1>2, <2>3, OthersSweep
  <2>. QED  BY <1>1, <2>3, <2>4, UsingKeeps
<1>4. CASE extref_count # 0
  <2>1. using' = [using EXCEPT ![u] = [do |-> "search", handle |-> h]] /\ refused' = {}
    BY <1>2, <1>4 DEF Look
  <2>2. using' \in Usings
    BY <1>1, <1>2, <2>1 DEF Usings
  <2>3. sweeper # NoSweep /\ sweeper.by \in User => using'[sweeper.by].do = "put"
    BY <1>2, <2>1, OthersSweep
  <2>. QED  BY <1>1, <2>1, <2>2, <2>3, UsingKeeps
<1>. QED  BY <1>3, <1>4

LEMMA GetKeeps ==
  ASSUME ExtrefAssumption, ExtrefInv, NEW u \in User, Get(u)
  PROVE  ExtrefInv'
<1>. DEFINE h == using[u].handle
            first == extrefs[Bucket(h, Len(extrefs))]
<1>1. /\ using[u].do = "search" /\ sweeper = NoSweep
      /\ UNCHANGED <<now, entry, table, sweeper, slept, late, met>>
      /\ \/ using' = [using EXCEPT ![u].do = "use"] /\ UNCHANGED <<refused, wrecked>>
         \/ h \notin Walked(entry, first) /\ Refuse(u, h)
         \/ UNCHANGED <<using, refused>>
  BY DEF Get
<1>2. using \in Usings /\ refused = {}
  BY DEF ExtrefInv, ExtrefTypes, Usings
<1>3. using[u] \in [do : {"put", "search", "use"}, handle : Made] /\ h \in Made /\ h \in Handle
  BY <1>1, <1>2 DEF Usings, Idle, Made, Entries
<1>4. CASE using' = [using EXCEPT ![u].do = "use"] /\ UNCHANGED <<refused, wrecked>>
  <2>1. using' = [using EXCEPT ![u] = [using[u] EXCEPT !.do = "use"]]
    BY <1>4
  <2>2. [using[u] EXCEPT !.do = "use"] \in [do : {"put", "search", "use"}, handle : Made]
    BY <1>3
  <2>3. using' \in Usings
    BY <1>2, <2>1, <2>2 DEF Usings
  <2>. QED  BY <1>1, <1>2, <1>4, <2>3, UsingKeeps
<1>5. CASE h \notin Walked(entry, first) /\ Refuse(u, h)
  <2>1. ASSUME Valid(h), h \notin late
        PROVE  FALSE
    BY <1>1, <1>3, <1>5, <2>1, HeldIs
  <2>2. refused' = {} /\ using' \in Usings /\ using' = [using EXCEPT ![u] = Idle]
    BY <1>3, <1>5, <2>1, RefuseIs
  <2>. QED  BY <1>1, <2>2, UsingKeeps
<1>6. CASE UNCHANGED <<using, refused>>
  BY <1>1, <1>2, <1>6, UsingKeeps
<1>. QED  BY <1>1, <1>4, <1>5, <1>6

\* The times of an entry are changed.
LEMMA TimesAre ==
  ASSUME ExtrefTypes, NEW h \in Made, NEW r \in Record, r.next = entry[h].next,
         entry' = [entry EXCEPT ![h] = r]
  PROVE  /\ Made' = Made /\ Link' = Link /\ Resize' = Resize
         /\ entry' \in [Handle -> Record \union {NoEntry}]
         /\ \A g \in Made : entry'[g] \in Record /\ entry'[g].next \in Link
         /\ entry'[h] = r /\ \A g \in Handle : g # h => entry'[g] = entry[g]
         /\ \A g \in Handle : entry'[g].next = entry[g].next
         /\ \A j : Walked(entry', j) = Walked(entry, j)
<1>1. /\ entry[h] \in Record /\ h \in Handle /\ entry[h].next \in Link
      /\ entry \in [Handle -> Record \union {NoEntry}]
  BY DEF ExtrefTypes, Made, Entries
<1>2. entry'[h] = r /\ \A g \in Handle : g # h => entry'[g] = entry[g]
  BY <1>1
<1>3. \A g \in Handle : entry'[g] # NoEntry <=> entry[g] # NoEntry
  BY <1>1, <1>2, RecordIs
<1>4. Made' = Made /\ Entries(entry') = Entries(entry)
  BY <1>3 DEF Made, Entries
<1>5. Link' = Link /\ Resize' = Resize
  BY <1>4 DEF Link, Resize
<1>6. entry' \in [Handle -> Record \union {NoEntry}]
  BY <1>1
<1>7. \A g \in Made : entry'[g] \in Record /\ entry'[g].next \in Link
  BY <1>1, <1>2 DEF ExtrefTypes, Made, Entries
<1>8. \A g \in Handle : entry'[g].next = entry[g].next
  BY <1>2
<1>9. \A i \in Entries(entry) : entry'[i].next = entry[i].next
  BY <1>8 DEF Entries
<1>10. \A j : Walked(entry', j) = Walked(entry, j)
  BY <1>4, <1>9, WalkedSame
<1>. QED  BY <1>2, <1>4, <1>5, <1>6, <1>7, <1>8, <1>10

LEMMA ReferredKeeps ==
  ASSUME ExtrefAssumption, ExtrefInv, NEW h \in Made, NEW r \in Record, r.next = entry[h].next,
         entry' = [entry EXCEPT ![h] = r], r.valid_to <= r.until, entry[h].until <= r.until,
         r.until <= now + r.timeout, late \subseteq late',
         r.valid_to > now => Held(h) \/ h \in late',
         using' \in Usings,
         sweeper # NoSweep /\ sweeper.by \in User => using'[sweeper.by].do = "put",
         UNCHANGED <<now, table, sweeper, slept, refused, met>>
  PROVE  ExtrefInv'
<1>1. UNCHANGED <<now, extrefs, extref_count, extref_next_gc, sweeper, slept, refused, met>>
  BY DEF table
<1>2. /\ Made' = Made /\ Link' = Link /\ Resize' = Resize
      /\ entry' \in [Handle -> Record \union {NoEntry}]
      /\ \A g \in Made : entry'[g] \in Record /\ entry'[g].next \in Link
      /\ entry'[h] = r /\ \A g \in Handle : g # h => entry'[g] = entry[g]
      /\ \A g \in Handle : entry'[g].next = entry[g].next
  BY TimesAre DEF ExtrefInv
<1>3. \A j : Walked(entry', j) = Walked(entry, j)
  BY TimesAre DEF ExtrefInv
<1>4. ExtrefTypes /\ Made \subseteq Handle
  BY DEF ExtrefInv, Made, Entries
<1>5. ExtrefTypes'
  BY <1>1, <1>2, <1>4 DEF ExtrefTypes, Usings
<1>6. Times'
  BY <1>1, <1>2, <1>4 DEF ExtrefInv, Times
<1>7. ValidIsHeld'
  <2>. SUFFICES ASSUME NEW g \in Handle \ late', Valid(g)'
                PROVE  Held(g)'
    BY DEF ValidIsHeld
  <2>1. g \in Made /\ entry'[g].valid_to > now
    BY <1>1, <1>2 DEF Valid
  <2>2. Held(g)
    <3>1. CASE g = h
      BY <1>2, <2>1, <3>1
    <3>2. CASE g # h
      BY <1>2, <2>1, <3>2 DEF ExtrefInv, ValidIsHeld, Valid
    <3>. QED  BY <3>1, <3>2
  <2>3. Heads(g)' = Heads(g)
    BY <1>1 DEF Heads
  <2>. QED  BY <1>2, <1>3, <2>2, <2>3 DEF Held
<1>8. LastIsBefore'
  <2>1. sweeper # NoSweep /\ sweeper.k # NoHandle => sweeper.k \in Handle
    BY <1>4, SweepIs DEF Link
  <2>. QED  BY <1>1, <1>2, <2>1 DEF ExtrefInv, LastIsBefore
<1>9. CountIsOf'
  BY <1>1 DEF ExtrefInv, CountIsOf, AllEmpty
<1>10. AllFresh'
  <2>. SUFFICES ASSUME NEW P, Fresh(P)
                PROVE  Fresh(P)'
    BY <1>1 DEF ExtrefInv, AllFresh
  <2>1. P \subseteq Made /\ P \subseteq Handle
    BY <1>4 DEF Fresh
  <2>2. \A g \in P : /\ entry'[g].until \in Nat /\ entry[g].until \in Nat
                     /\ entry'[g].until >= entry[g].until
    <3>. SUFFICES ASSUME NEW g \in P
                  PROVE  /\ entry'[g].until \in Nat /\ entry[g].until \in Nat
                         /\ entry'[g].until >= entry[g].until
      OBVIOUS
    <3>1. entry'[g].until \in Nat /\ entry[g].until \in Nat
      BY <1>2, <1>4, <2>1 DEF ExtrefTypes, Record
    <3>. QED  BY <1>2, <2>1, <3>1
  <2>3. now \in Nat /\ extref_next_gc \in Nat
    BY <1>4 DEF ExtrefTypes
  <2>4. DueFor(P) => DueFor(P)'
    BY <1>1, <2>2, <2>3 DEF DueFor
  <2>5. Lasting(P) => Lasting(P)'
    BY <1>1, <2>2, <2>3 DEF Lasting
  <2>6. \A g \in P : entry'[g].next = entry[g].next
    BY <1>2, <2>1
  <2>7. AtRest(P) => AtRest(P)'
    BY <1>1, <2>4, <2>5, <2>6 DEF AtRest, Linked, LeadTo, OrNone
  <2>8. Counting(P) => Counting(P)'
    BY <1>1, <2>4, <2>5, <2>6 DEF Counting, OrNone
  <2>9. Moving(P) => Moving(P)'
    BY <1>1, <2>4, <2>5, <2>6 DEF Moving, Linked, LeadTo, OrNone
  <2>. QED  BY <1>1, <1>2, <2>7, <2>8, <2>9 DEF Fresh
<1>. QED  BY <1>1, <1>5, <1>6, <1>7, <1>8, <1>9, <1>10 DEF ExtrefInv

LEMMA ReferKeeps ==
  ASSUME ExtrefAssumption, ExtrefInv, NEW u \in User, Refer(u)
  PROVE  ExtrefInv'
<1>. DEFINE h == using[u].handle
<1>1. /\ using[u].do = "use" /\ using' = [using EXCEPT ![u] = Idle]
      /\ UNCHANGED <<now, table, sweeper, slept, refused, met>>
  BY DEF Refer
<1>2. using \in Usings /\ refused = {} /\ ExtrefTypes /\ now \in Nat
  BY DEF ExtrefInv, ExtrefTypes, Usings
<1>3. h \in Made
  BY <1>1, <1>2 DEF Usings, Idle
<1>4. /\ entry[h] \in Record /\ entry[h].timeout \in Nat /\ entry[h].until \in Nat
      /\ entry[h].valid_to \in Nat /\ h \in Handle
      /\ entry[h].valid_to <= entry[h].until /\ entry[h].until <= now + entry[h].timeout
  BY <1>2, <1>3 DEF ExtrefInv, ExtrefTypes, Times, Record, Made, Entries
<1>5. using' \in Usings
  BY <1>1, <1>2 DEF Usings
<1>6. sweeper # NoSweep /\ sweeper.by \in User => using'[sweeper.by].do = "put"
  BY <1>1, OthersSweep
<1>7. CASE entry[h].mode = "refresh"
  <2>1. PICK r : r = [entry[h] EXCEPT !.valid_to = now + entry[h].timeout,
                                      !.until = now + entry[h].timeout]
    OBVIOUS
  <2>2. /\ r \in Record /\ r.next = entry[h].next /\ r.valid_to = now + entry[h].timeout
        /\ r.until = now + entry[h].timeout /\ r.timeout = entry[h].timeout
    <3>1. now + entry[h].timeout \in Nat
      BY <1>2, <1>4
    <3>2. PICK e, t : e = entry[h] /\ t = now + entry[h].timeout
      OBVIOUS
    <3>3. e \in Record /\ t \in Nat /\ r = [e EXCEPT !.valid_to = t, !.until = t]
      BY <1>4, <2>1, <3>1, <3>2
    <3>4. r \in Record /\ r.next = e.next /\ r.valid_to = t /\ r.until = t /\ r.timeout = e.timeout
      BY <3>3 DEF Record
    <3>. QED  BY <3>2, <3>4
  <2>3. entry' = [entry EXCEPT ![h] = r] /\ late' = IF Held(h) THEN late ELSE late \union {h}
    <3>1. /\ entry' = [entry EXCEPT ![h].valid_to = now + entry[h].timeout,
                                    ![h].until = now + entry[h].timeout]
          /\ late' = IF Held(h) THEN late ELSE late \union {h}
      BY <1>7 DEF Refer
    <3>2. entry \in [Handle -> Record \union {NoEntry}]
      BY <1>2 DEF ExtrefTypes
    <3>. QED  BY <1>4, <2>1, <3>1, <3>2
  <2>4. late \subseteq late' /\ (Held(h) \/ h \in late')
    BY <2>3
  <2>5. r.valid_to <= r.until /\ entry[h].until <= r.until /\ r.until <= now + r.timeout
    BY <1>2, <1>4, <2>2
  <2>. HIDE DEF h
  <2>. QED  BY <1>1, <1>3, <1>5, <1>6, <2>2, <2>3, <2>4, <2>5, ReferredKeeps
<1>8. CASE entry[h].mode = "onceonly"
  <2>1. PICK r : r = [entry[h] EXCEPT !.valid_to = 0]
    OBVIOUS
  <2>2. /\ r \in Record /\ r.next = entry[h].next /\ r.valid_to = 0
        /\ r.until = entry[h].until /\ r.timeout = entry[h].timeout
    BY <1>4, <2>1 DEF Record
  <2>3. entry' = [entry EXCEPT ![h] = r] /\ late' = late
    BY <1>8, <2>1 DEF Refer
  <2>4. r.valid_to <= r.until /\ entry[h].until <= r.until /\ r.until <= now + r.timeout
    BY <1>4, <2>2
  <2>5. ~(r.valid_to > now)
    BY <1>2, <2>2
  <2>. HIDE DEF h
  <2>. QED  BY <1>1, <1>3, <1>5, <1>6, <2>2, <2>3, <2>4, <2>5, ReferredKeeps
<1>9. CASE entry[h].mode # "refresh" /\ entry[h].mode # "onceonly"
  <2>1. UNCHANGED <<entry, late>>
    BY <1>9 DEF Refer
  <2>. QED  BY <1>1, <1>2, <1>5, <1>6, <2>1, UsingKeeps
<1>. QED  BY <1>7, <1>8, <1>9

LEMMA CreateKeeps ==
  ASSUME ExtrefAssumption, ExtrefInv, NEW u \in User, NEW h \in Handle, NEW k \in Kind,
         Create(u, h, k[1], k[2])
  PROVE  ExtrefInv'
<1>1. PICK old : old = IF extrefs = <<>> THEN [b \in 1..(INITIAL_MASK + 1) |-> NoHandle] ELSE extrefs
  OBVIOUS
<1>2. PICK due : due = IF extrefs = <<>> THEN now + FIRST_GC ELSE extref_next_gc
  OBVIOUS
<1>3. PICK b : b = Bucket(h, Len(old))
  OBVIOUS
<1>4. PICK r : r = [mode |-> k[2], timeout |-> k[1], next |-> old[b],
                    valid_to |-> now + k[1], until |-> now + k[1]]
  OBVIOUS
<1>5. /\ using[u] = Idle /\ sweeper = NoSweep /\ h \notin Made
      /\ entry' = [entry EXCEPT ![h] = r]
      /\ extrefs' = [old EXCEPT ![b] = h]
      /\ IF extref_count + 1 > Len(old) - 1
         THEN /\ BeginSweep(u, extrefs')
              /\ using' = [using EXCEPT ![u] = [do |-> "put", handle |-> h]]
              /\ extref_next_gc' = due
         ELSE /\ extref_count' = extref_count + 1
              /\ extref_next_gc' = Sooner(now + k[1], due)
              /\ UNCHANGED <<using, sweeper>>
      /\ UNCHANGED <<now, slept, late, refused, met, wrecked>>
  BY <1>1, <1>2, <1>3, <1>4 DEF Create
<1>6. /\ ExtrefTypes /\ now \in Nat /\ extref_count \in Nat /\ extref_next_gc \in Nat
      /\ k[1] \in Nat /\ INITIAL_MASK \in Nat \ {0} /\ FIRST_GC \in Nat /\ extrefs \in Seq(Link)
      /\ entry \in [Handle -> Record \union {NoEntry}] /\ using \in Usings /\ NoHandle \notin Handle
      /\ \A g \in Made : entry[g] \in Record /\ entry[g].next \in Link
  BY DEF ExtrefInv, ExtrefTypes, ExtrefAssumption, Usings
<1>7. /\ old \in Seq(Link) /\ Len(old) \in Nat \ {0} /\ DOMAIN old = 1..Len(old)
      /\ extrefs # <<>> => old = extrefs
      /\ extrefs = <<>> => Made = {} /\ \A c \in DOMAIN old : old[c] = NoHandle
  <2>1. CASE extrefs = <<>>
    <3>1. NoHandle \in Link /\ INITIAL_MASK + 1 \in Nat \ {0}
      BY <1>6 DEF Link
    <3>2. old = [c \in 1..(INITIAL_MASK + 1) |-> NoHandle]
      BY <1>1, <2>1
    <3>3. Made = {}
      BY <1>6, <2>1 DEF ExtrefTypes
    <3>. QED  BY <2>1, <3>1, <3>2, <3>3
  <2>2. CASE extrefs # <<>>
    BY <1>1, <1>6, <2>2
  <2>. QED  BY <2>1, <2>2
<1>8. b \in 1..Len(old) /\ old[b] \in Link
  BY <1>3, <1>7, BucketIs
<1>9. due \in Nat /\ (extrefs # <<>> => due = extref_next_gc)
  BY <1>2, <1>6
<1>10. /\ r \in Record /\ r.next = old[b] /\ r.valid_to = now + k[1] /\ r.until = now + k[1]
       /\ r.timeout = k[1] /\ now + k[1] \in Nat
  <2>1. old[b] \in Handle \union {NoHandle} /\ now + k[1] \in Nat /\ k[2] \in {x[2] : x \in Kind}
    BY <1>6, <1>8 DEF Link, Made, Entries
  <2>. QED  BY <1>4, <1>6, <2>1 DEF Record
<1>11. entry'[h] = r /\ \A g \in Handle : g # h => entry'[g] = entry[g]
  BY <1>5, <1>6
<1>12. Made' = Made \union {h} /\ Entries(entry') = Entries(entry) \union {h}
  BY <1>10, <1>11, RecordIs DEF Made, Entries
<1>13. Link \subseteq Link' /\ h \in Link' /\ Made \subseteq Handle
  BY <1>12 DEF Link, Made, Entries
<1>14. /\ extrefs' \in Seq(Link') /\ Len(extrefs') = Len(old) /\ extrefs'[b] = h
       /\ DOMAIN extrefs' = 1..Len(old) /\ Len(extrefs') >= 1 /\ extrefs' # <<>>
       /\ \A c \in 1..Len(old) : c # b => extrefs'[c] = old[c]
  <2>1. old \in Seq(Link')
    BY <1>7, <1>13
  <2>. QED  BY <1>5, <1>7, <1>8, <1>13, <2>1
<1>15. /\ entry' \in [Handle -> Record \union {NoEntry}]
       /\ \A g \in Made' : entry'[g] \in Record /\ entry'[g].next \in Link'
  BY <1>5, <1>6, <1>8, <1>10, <1>11, <1>12, <1>13
<1>16. Times'
  <2>. SUFFICES ASSUME NEW g \in Made'
                PROVE  /\ entry'[g].valid_to <= entry'[g].until
                       /\ entry'[g].until <= now + entry'[g].timeout
    BY <1>5 DEF Times
  <2>1. CASE g = h
    BY <1>10, <1>11, <2>1
  <2>2. CASE g # h
    BY <1>11, <1>12, <1>13, <2>2 DEF ExtrefInv, Times
  <2>. QED  BY <2>1, <2>2
<1>17. ASSUME NEW g \in Handle \ late', Valid(g)'
       PROVE  g \in Made' /\ g \in Walked(entry', extrefs'[Bucket(g, Len(extrefs'))])
  <2>1. g \in Made' /\ entry'[g].valid_to > now
    BY <1>5, <1>17 DEF Valid
  <2>2. h \in Entries(entry') /\ entry'[h].next = old[b]
    BY <1>10, <1>11, <1>12
  <2>3. CASE g = h
    BY <1>3, <1>6, <1>14, <2>1, <2>3, WalkedFrom
  <2>4. CASE g # h
    <3>1. g \in Handle \ late /\ Valid(g)
      BY <1>5, <1>11, <1>12, <1>17, <2>1, <2>4 DEF Valid
    <3>2. g \in Made /\ g \in Walked(entry, extrefs[Bucket(g, Len(extrefs))])
      BY <1>5, <3>1, HeldIs
    <3>3. extrefs = old
      BY <1>7, <3>2
    <3>4. PICK c \in 1..Len(old) : c = Bucket(g, Len(old))
      BY <1>7, BucketIs
    <3>5. g \in Walked(entry, old[c]) /\ old[c] \in Entries(entry) \union {NoHandle}
      BY <1>7, <3>2, <3>3, <3>4 DEF Link, Made
    <3>6. \A i \in Entries(entry) : /\ entry'[i].next = entry[i].next
                                    /\ entry[i].next \in Entries(entry) \union {NoHandle}
      BY <1>5, <1>6, <1>11, <1>13 DEF Made, Link
    <3>7. g \in Walked(entry', old[c])
      BY <1>12, <3>5, <3>6, WalkedMore
    <3>8. CASE c = b
      BY <1>6, <1>14, <2>1, <2>2, <3>4, <3>7, <3>8, WalkedNext
    <3>9. CASE c # b
      BY <1>14, <2>1, <3>4, <3>7, <3>9
    <3>. QED  BY <3>8, <3>9
  <2>. QED  BY <2>3, <2>4
<1>18. CASE extref_count + 1 > Len(old) - 1
  <2>1. /\ BeginSweep(u, extrefs') /\ using' = [using EXCEPT ![u] = [do |-> "put", handle |-> h]]
        /\ extref_next_gc' = due
    BY <1>5, <1>18
  <2>2. /\ sweeper' = [by |-> u, time |-> now, at |-> "drop", bucket |-> 1,
                       j |-> extrefs'[1], k |-> NoHandle, new |-> <<>>]
        /\ sweeper' # NoSweep /\ extref_count' = 0 /\ LastIsBefore' /\ CountIsOf' /\ AllFresh'
    BY <2>1, BegunIs
  <2>3. \A g : Heads(g)' = {extrefs'[Bucket(g, Len(extrefs'))]}
    BY <2>1, BegunIs
  <2>4. 1 \in 1..Len(extrefs') /\ extrefs'[1] \in Link'
    BY <1>7, <1>14
  <2>5. /\ sweeper' \in Resize' /\ sweeper'.time = now /\ sweeper'.bucket = 1
        /\ sweeper'.at = "drop" /\ sweeper'.by = u
    BY <1>6, <2>2, <2>4 DEF Resize, Link
  <2>6. using'[u].do = "put" /\ using' \in Usings'
    BY <1>6, <1>12, <2>1 DEF Usings
  <2>7. ExtrefTypes'
    BY <1>5, <1>6, <1>9, <1>14, <1>15, <2>1, <2>2, <2>4, <2>5, <2>6 DEF ExtrefTypes, Usings
  <2>8. ValidIsHeld'
    BY <1>17, <2>3 DEF ValidIsHeld, Held
  <2>. QED  BY <1>5, <1>16, <2>2, <2>7, <2>8 DEF ExtrefInv
<1>19. CASE ~(extref_count + 1 > Len(old) - 1)
  <2>1. /\ extref_count' = extref_count + 1 /\ extref_next_gc' = Sooner(now + k[1], due)
        /\ UNCHANGED <<using, sweeper>>
    BY <1>5, <1>19
  <2>2. extref_next_gc' \in Nat /\ extref_next_gc' <= now + k[1] /\ extref_next_gc' <= due
    BY <1>9, <1>10, <2>1 DEF Sooner
  <2>3. extref_count' \in Nat /\ extref_count' # 0
    BY <1>6, <2>1
  <2>4. using' \in Usings'
    BY <1>6, <1>12, <2>1 DEF Usings
  <2>5. ExtrefTypes'
    BY <1>5, <1>6, <1>14, <1>15, <2>1, <2>2, <2>3, <2>4 DEF ExtrefTypes, Usings
  <2>6. ValidIsHeld'
    <3>1. \A g : Heads(g)' = {extrefs'[Bucket(g, Len(extrefs'))]}
      BY <1>5, <2>1, RestIs DEF Heads
    <3>. QED  BY <1>17, <3>1 DEF ValidIsHeld, Held
  <2>7. LastIsBefore' /\ CountIsOf'
    BY <1>5, <2>1, <2>3, RestIs DEF LastIsBefore, CountIsOf
  <2>8. AllFresh'
    <3>. SUFFICES ASSUME NEW P, Fresh(P), NEW Q, Q = P \union {h}
                  PROVE  Fresh(Q)'
      BY <1>5 DEF ExtrefInv, AllFresh
    <3>1. AtRest(P) /\ P \subseteq Made /\ P \subseteq Handle /\ h \notin P
      BY <1>5, <1>13 DEF Fresh
    <3>2. \A c \in 1..Len(old) : old[c] \in OrNone(P)
      BY <1>7, <3>1 DEF AtRest, LeadTo, OrNone
    <3>3. \A g \in P : entry'[g] = entry[g] /\ entry[g].until \in Nat
      BY <1>6, <1>11, <3>1 DEF Record
    <3>4. Linked(Q)'
      BY <1>8, <1>10, <1>11, <3>1, <3>2, <3>3 DEF AtRest, Linked, OrNone
    <3>5. LeadTo(extrefs, Q)'
      BY <1>14, <3>2 DEF LeadTo, OrNone
    <3>6. DueFor(Q)'
      <4>1. \A g \in P : due <= entry[g].until
        BY <1>7, <1>9, <3>1 DEF AtRest, DueFor
      <4>2. \A g \in P : extref_next_gc' <= entry'[g].until
        BY <1>9, <2>2, <3>3, <4>1
      <4>. QED  BY <1>10, <1>11, <2>2, <4>2 DEF DueFor
    <3>7. slept' \/ Lasting(Q)'
      BY <1>5, <1>6, <1>10, <1>11, <3>1, <3>3 DEF AtRest, Lasting
    <3>8. AtRest(Q)'
      BY <3>4, <3>5, <3>6, <3>7 DEF AtRest
    <3>. QED  BY <1>5, <1>12, <2>1, <3>1, <3>8, RestIs DEF Fresh
  <2>. QED  BY <1>5, <1>16, <2>5, <2>6, <2>7, <2>8 DEF ExtrefInv
<1>. QED  BY <1>18, <1>19

LEMMA ExtrefBegins ==
  ASSUME ExtrefAssumption, ExtrefInit
  PROVE  ExtrefInv
<1>1. Made = {} /\ entry \in [Handle -> Record \union {NoEntry}]
  BY DEF ExtrefInit, Made, Entries
<1>2. ExtrefTypes
  BY <1>1 DEF ExtrefInit, ExtrefTypes
<1>3. Times /\ ValidIsHeld
  BY <1>1 DEF Times, ValidIsHeld, Valid
<1>4. LastIsBefore /\ CountIsOf
  BY RestIs DEF ExtrefInit, LastIsBefore, CountIsOf, AllEmpty
<1>5. AllFresh
  <2>1. AtRest({})
    BY DEF ExtrefInit, AtRest, Linked, LeadTo, DueFor, Lasting
  <2>2. Fresh({})
    BY <2>1, RestIs DEF ExtrefInit, Fresh
  <2>. QED  BY <2>2 DEF AllFresh
<1>. QED  BY <1>2, <1>3, <1>4, <1>5 DEF ExtrefInit, ExtrefInv

LEMMA ExtrefGoesOn ==
  ASSUME ExtrefAssumption, ExtrefInv, [ExtrefNext]_extrefVars
  PROVE  ExtrefInv'
<1>1. CASE Sweep
  BY <1>1, DropFirstKeeps, KeepRestKeeps, CountValidKeeps, UnlinkKeeps, NextBucketKeeps,
     SweptKeeps, MoveEntryKeeps, NextChainKeeps, MovedKeeps DEF Sweep
<1>2. CASE Wake \/ Tick
  BY <1>2, WakeKeeps, TickKeeps
<1>3. ASSUME NEW u \in User, Get(u) \/ Refer(u)
      PROVE  ExtrefInv'
  BY <1>3, GetKeeps, ReferKeeps
<1>4. ASSUME NEW u \in User, NEW h \in Handle,
             Look(u, h) \/ \E k \in Kind : Create(u, h, k[1], k[2])
      PROVE  ExtrefInv'
  BY <1>4, LookKeeps, CreateKeeps
<1>5. CASE UNCHANGED extrefVars
  <2>1. UNCHANGED <<now, entry, table, sweeper, using, slept, late, refused, met>>
    BY <1>5 DEF extrefVars
  <2>2. /\ using \in Usings /\ refused = {}
        /\ sweeper # NoSweep /\ sweeper.by \in User => using[sweeper.by].do = "put"
    BY DEF ExtrefInv, ExtrefTypes, Usings
  <2>. QED  BY <2>1, <2>2, UsingKeeps
<1>. QED  BY <1>1, <1>2, <1>3, <1>4, <1>5 DEF ExtrefNext

LEMMA ExtrefServes ==
  ASSUME ExtrefAssumption, ExtrefInv
  PROVE  ServedInTime
<1>1. ValidIsServed
  BY HeldIs DEF ValidIsServed, InTable, ExtrefInv
<1>2. DroppedInTime
  <2>. SUFFICES ASSUME ~met, ~slept, sweeper = NoSweep, NEW h \in Made, InTable(h)
                PROVE  entry[h].until >= now
    BY DEF DroppedInTime
  <2>1. PICK P : P \subseteq Made /\ AtRest(P)
    BY DEF ExtrefInv, AllFresh, Fresh
  <2>2. Len(extrefs) \in Nat \ {0} /\ h \in Handle /\ DOMAIN extrefs = 1..Len(extrefs)
    BY DEF ExtrefInv, ExtrefTypes, Made, Entries
  <2>3. PICK b \in DOMAIN extrefs : b = Bucket(h, Len(extrefs))
    BY <2>2, BucketIs
  <2>4. Around(entry, extrefs[b], P)
    BY <2>1 DEF Around, AtRest, Linked, LeadTo, OrNone, Made
  <2>5. h \in P
    BY <2>3, <2>4, WalkedWithin DEF InTable
  <2>6. now <= entry[h].until
    BY <2>1, <2>5 DEF AtRest, Lasting
  <2>. QED  BY <2>6
<1>. QED  BY <1>1, <1>2 DEF ServedInTime

\* Any number of threads may make references to any number of objects and use
\* them, for any timeouts, while the table is swept and grows and shrinks: what is
\* not over is found and never refused by a table at rest, unless it was prolonged
\* after a sweep had passed it; and what is over has left the table when the
\* sweeping thread has looked at the time (extref_put, extref_get, extref_resize
\* and extref_gc_thread of src/lib/extref.c).
THEOREM ServedUntilOver ==
  ASSUME ExtrefAssumption
  PROVE  ExtrefSpec => []ServedInTime
<1>1. ExtrefInit => ExtrefInv
  BY ExtrefBegins
<1>2. ExtrefInv /\ [ExtrefNext]_extrefVars => ExtrefInv'
  BY ExtrefGoesOn
<1>3. ExtrefInv => ServedInTime
  BY ExtrefServes
<1>. QED  BY <1>1, <1>2, <1>3, PTL DEF ExtrefSpec
=============================================================================
