---------------------------- MODULE BoundedBuffer ----------------------------
(***************************************************************************)
(* Pthread/condition.c: one producer and one consumer thread share a ring  *)
(* of BUFFER_SIZE slots, guarded by the mutex locker and the condition     *)
(* variables notFull and notEmpty.  The producer sends ITEMS numbers and   *)
(* then END_FLAG; the consumer stops at END_FLAG; main() joins both.       *)
(*                                                                         *)
(* Pthreads is modelled by what POSIX guarantees: pthread_cond_wait        *)
(* releases the mutex and blocks in one step, a woken thread must take the *)
(* mutex again, a signal nobody waits for is lost, and a waiter may wake   *)
(* without a signal.                                                       *)
(***************************************************************************)
EXTENDS Integers, Sequences

CONSTANTS
    BUFFER_SIZE,   \* slots of the ring (8 in the code)
    ITEMS,         \* numbers the producer sends (16 in the code)
    MaxSpurious    \* bound on wake-ups without a signal

ASSUME BufferAssumption ==
    BUFFER_SIZE \in Nat /\ BUFFER_SIZE > 1 /\ ITEMS \in Nat /\ MaxSpurious \in Nat

END_FLAG == -1

\* The k-th item sent, counting from 0.
Item(k) == IF k < ITEMS THEN k ELSE END_FLAG

Threads == {"producer", "consumer"}
Slots   == 0 .. BUFFER_SIZE - 1
Values  == 0 .. ITEMS \cup {END_FLAG}

VARIABLES
    buffer, posReadFrom, posWriteTo,   \* struct Products
    locker,     \* the holder of the mutex, or "none"
    pc,         \* where each thread is in Produce or Consume
    i,          \* ProducerThread's loop index, ITEMS for the END_FLAG call
    item,       \* the item Consume is returning
    joined,     \* how many threads main() has joined
    got,        \* history: everything Consume has read
    spurious    \* wake-ups without a signal so far

ring == <<buffer, posReadFrom, posWriteTo>>
vars == <<ring, locker, pc, i, item, joined, got, spurious>>

\* The steps of Produce and of Consume.
PCs == {"lock", "test", "wait", "relock", "access", "signal", "unlock", "done"}

Init ==
    /\ buffer = [s \in Slots |-> 0]
    /\ posReadFrom = 0 /\ posWriteTo = 0
    /\ locker = "none"
    /\ pc = [t \in Threads |-> "lock"]
    /\ i = 0 /\ item = 0 /\ joined = 0
    /\ got = << >> /\ spurious = 0

Goto(t, to) == pc' = [pc EXCEPT ![t] = to]

\* Mutant of BufferIsFull: no modulo, the wrap is forgotten.
BufferIsFullNoWrap == posWriteTo + 1 = posReadFrom

BufferIsFull  == (posWriteTo + 1) % BUFFER_SIZE = posReadFrom
BufferIsEmpty == posWriteTo = posReadFrom

-----------------------------------------------------------------------------
(* Pthreads. *)

\* Mutant of Lock: "if" instead of "while" around pthread_cond_wait.
LockIf(t) ==
    /\ pc[t] \in {"lock", "relock"}
    /\ locker = "none" /\ locker' = t
    /\ Goto(t, IF pc[t] = "lock" THEN "test" ELSE "access")
    /\ UNCHANGED <<ring, i, item, joined, got, spurious>>

\* pthread_mutex_lock, also on the way out of pthread_cond_wait; the while
\* loop then tests the buffer.
Lock(t) ==
    /\ pc[t] \in {"lock", "relock"}
    /\ locker = "none" /\ locker' = t
    /\ Goto(t, "test")
    /\ UNCHANGED <<ring, i, item, joined, got, spurious>>

\* The while loops of Produce and Consume: wait while the buffer is full or
\* empty.
Test(t) ==
    LET blocked == IF t = "producer" THEN BufferIsFull ELSE BufferIsEmpty IN
    /\ pc[t] = "test"
    /\ \/ blocked  /\ Goto(t, "wait")   /\ locker' = "none"
       \/ ~blocked /\ Goto(t, "access") /\ UNCHANGED locker
    /\ UNCHANGED <<ring, i, item, joined, got, spurious>>

\* A waiter wakes up although nobody signalled.
SpuriousWakeup(t) ==
    /\ pc[t] = "wait" /\ spurious < MaxSpurious
    /\ Goto(t, "relock") /\ spurious' = spurious + 1
    /\ UNCHANGED <<ring, locker, i, item, joined, got>>

\* Mutant of Signal: the signal is forgotten.
SignalForgotten(t, other) ==
    /\ pc[t] = "signal"
    /\ Goto(t, "unlock")
    /\ UNCHANGED <<ring, locker, i, item, joined, got, spurious>>

\* pthread_cond_signal(notEmpty) by the producer, (notFull) by the consumer:
\* the other thread is the only one that can be waiting.
Signal(t, other) ==
    /\ pc[t] = "signal"
    /\ pc' = [pc EXCEPT ![t] = "unlock",
                        ![other] = IF @ = "wait" THEN "relock" ELSE @]
    /\ UNCHANGED <<ring, locker, i, item, joined, got, spurious>>

-----------------------------------------------------------------------------
(* ProducerThread and Produce. *)

\* Mutant of Write: the index wraps one slot too late.
WriteLateWrap ==
    /\ pc["producer"] = "access"
    /\ buffer' = [buffer EXCEPT ![posWriteTo] = Item(i)]
    /\ posWriteTo' = IF posWriteTo + 1 > BUFFER_SIZE THEN 0 ELSE posWriteTo + 1
    /\ Goto("producer", "signal")
    /\ UNCHANGED <<posReadFrom, locker, i, item, joined, got, spurious>>

\* buffer[posWriteTo] = item; posWriteTo++ and wrap.
Write ==
    /\ pc["producer"] = "access"
    /\ buffer' = [buffer EXCEPT ![posWriteTo] = Item(i)]
    /\ posWriteTo' = IF posWriteTo + 1 >= BUFFER_SIZE THEN 0 ELSE posWriteTo + 1
    /\ Goto("producer", "signal")
    /\ UNCHANGED <<posReadFrom, locker, i, item, joined, got, spurious>>

\* Unlock and on to the next item; after END_FLAG the thread returns.
Produced ==
    /\ pc["producer"] = "unlock"
    /\ locker' = "none"
    /\ i' = i + 1
    /\ Goto("producer", IF i < ITEMS THEN "lock" ELSE "done")
    /\ UNCHANGED <<ring, item, joined, got, spurious>>

-----------------------------------------------------------------------------
(* ConsumerThread and Consume. *)

\* item = buffer[posReadFrom]; posReadFrom++ and wrap.
Read ==
    /\ pc["consumer"] = "access"
    /\ item' = buffer[posReadFrom]
    /\ got' = Append(got, buffer[posReadFrom])
    /\ posReadFrom' = IF posReadFrom + 1 >= BUFFER_SIZE THEN 0 ELSE posReadFrom + 1
    /\ Goto("consumer", "signal")
    /\ UNCHANGED <<buffer, posWriteTo, locker, i, joined, spurious>>

\* Mutant of Consumed: the thread stops at the first item.
ConsumedOnce ==
    /\ pc["consumer"] = "unlock"
    /\ locker' = "none"
    /\ Goto("consumer", "done")
    /\ UNCHANGED <<ring, i, item, joined, got, spurious>>

\* Unlock; the thread returns at END_FLAG.
Consumed ==
    /\ pc["consumer"] = "unlock"
    /\ locker' = "none"
    /\ Goto("consumer", IF item = END_FLAG THEN "done" ELSE "lock")
    /\ UNCHANGED <<ring, i, item, joined, got, spurious>>

-----------------------------------------------------------------------------
\* main(): pthread_join of the producer, then of the consumer, then exit.
Join ==
    /\ \/ joined = 0 /\ pc["producer"] = "done"
       \/ joined = 1 /\ pc["consumer"] = "done"
    /\ joined' = joined + 1
    /\ UNCHANGED <<ring, locker, pc, i, item, got, spurious>>

ProducerStep == Lock("producer") \/ Test("producer") \/ Write
                \/ Signal("producer", "consumer") \/ Produced

ConsumerStep == Lock("consumer") \/ Test("consumer") \/ Read
                \/ Signal("consumer", "producer") \/ Consumed

Next ==
    \/ ProducerStep \/ ConsumerStep \/ Join
    \/ \E t \in Threads : SpuriousWakeup(t)

Spec == Init /\ [][Next]_vars

\* Runnable threads run.
FairSpec ==
    Spec /\ WF_vars(ProducerStep) /\ WF_vars(ConsumerStep) /\ WF_vars(Join)

-----------------------------------------------------------------------------
(* Properties. *)

TypeOK ==
    /\ buffer \in [Slots -> Values]
    /\ posReadFrom \in Slots /\ posWriteTo \in Slots
    /\ locker \in Threads \cup {"none"}
    /\ pc \in [Threads -> PCs]
    /\ i \in 0 .. ITEMS + 1 /\ item \in Values
    /\ joined \in 0 .. 2
    /\ got \in Seq(Values) /\ spurious \in 0 .. MaxSpurious

\* How many items have been written and not yet read, and the slot of the
\* j-th of them.
Sent     == i + (IF pc["producer"] \in {"signal", "unlock"} THEN 1 ELSE 0)
Stored   == Sent - Len(got)
SlotOf(j) == IF posReadFrom + j < BUFFER_SIZE THEN posReadFrom + j
             ELSE posReadFrom + j - BUFFER_SIZE

\* The consumer reads the items the producer sent, in order, without loss,
\* duplication or a slot overwritten before it is read.
InOrder == \A k \in 1 .. Len(got) : got[k] = Item(k - 1)

\* A thread waits while its condition holds only if the other one is about to
\* signal: no wake-up is lost.
NoLostWakeup ==
    /\ pc["consumer"] = "wait" /\ ~BufferIsEmpty => pc["producer"] = "signal"
    /\ pc["producer"] = "wait" /\ ~BufferIsFull  => pc["consumer"] = "signal"

\* main() gets to exit, and by then every item and END_FLAG have been read.
Delivered == <>(joined = 2 /\ Len(got) = ITEMS + 1)

\* What the ring holds, oldest item first.
Contents == [j \in 1 .. Stored |-> buffer[SlotOf(j - 1)]]

Channel == INSTANCE FifoChannel
    WITH Cap <- BUFFER_SIZE - 1, Total <- ITEMS + 1, sent <- Sent,
         chan <- Contents

\* The ring is a first-in first-out channel of BUFFER_SIZE - 1 items: every
\* step of the threads puts one item at its end, takes one from its front, or
\* leaves it alone.
ImplementsChannel == Channel!Spec

-----------------------------------------------------------------------------
(* The inductive invariant behind InOrder and NoLostWakeup. *)

\* Who holds the mutex is inside, and nobody else.
LockInv ==
    \A t \in Threads :
        locker = t <=> pc[t] \in {"test", "access", "signal", "unlock"}

\* The ring holds the items sent and not yet read, in order.
RingInv ==
    /\ Stored \in 0 .. BUFFER_SIZE - 1
    /\ posWriteTo = SlotOf(Stored)
    /\ \A j \in 0 .. BUFFER_SIZE - 1 :
          j < Stored => buffer[SlotOf(j)] = Item(Len(got) + j)
    /\ pc["producer"] = "access" => ~BufferIsFull
    /\ pc["consumer"] = "access" => ~BufferIsEmpty
    /\ i > ITEMS => pc["producer"] = "done"

IInv == TypeOK /\ LockInv /\ RingInv /\ InOrder /\ NoLostWakeup
=============================================================================
