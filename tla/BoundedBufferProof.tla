-------------------------- MODULE BoundedBufferProof --------------------------
(* The ring buffer of condition.c delivers in order and loses no wake-up,     *)
(* for every buffer size and every number of items.                           *)
EXTENDS BoundedBuffer, SequenceTheorems, TLAPS

\* What (posWriteTo + 1) % BUFFER_SIZE computes for an index of the ring.
LEMMA NextSlot ==
    ASSUME NEW p \in Slots
    PROVE  (p + 1) % BUFFER_SIZE = IF p + 1 >= BUFFER_SIZE THEN 0 ELSE p + 1
<1> USE BufferAssumption DEF Slots
<1>1. CASE p + 1 = BUFFER_SIZE
  BY <1>1
<1>2. CASE p + 1 < BUFFER_SIZE
  BY <1>2
<1> QED
  BY <1>1, <1>2

\* The ring is full when BUFFER_SIZE - 1 items are stored and empty when none
\* is: the tests of Produce and Consume on the two indices are right.
LEMMA FullEmpty ==
    ASSUME TypeOK, RingInv
    PROVE  /\ Stored \in Int
           /\ BufferIsFull <=> Stored = BUFFER_SIZE - 1
           /\ BufferIsEmpty <=> Stored = 0
<1>1. posWriteTo \in Slots /\ posReadFrom \in Slots
  BY DEF TypeOK
<1>2. Stored \in 0 .. BUFFER_SIZE - 1
  BY DEF RingInv
<1>3. posWriteTo = IF posReadFrom + Stored < BUFFER_SIZE
                   THEN posReadFrom + Stored
                   ELSE posReadFrom + Stored - BUFFER_SIZE
  BY DEF RingInv, SlotOf
<1> HIDE DEF Stored
<1> QED
  BY <1>1, <1>2, <1>3, NextSlot, BufferAssumption
  DEF Slots, BufferIsFull, BufferIsEmpty

\* Steps that leave the ring, the count of items sent and the history alone.
LEMMA RingFrame ==
    ASSUME TypeOK, RingInv, InOrder,
           UNCHANGED <<buffer, posReadFrom, posWriteTo, got>>,
           Sent' = Sent,
           pc'["producer"] = "access" =>
               pc["producer"] = "access" \/ ~BufferIsFull,
           pc'["consumer"] = "access" =>
               pc["consumer"] = "access" \/ ~BufferIsEmpty,
           i' > ITEMS => pc'["producer"] = "done"
    PROVE  RingInv' /\ InOrder'
<1>1. Stored' = Stored
  BY DEF Stored
<1>2. \A j : SlotOf(j)' = SlotOf(j)
  BY DEF SlotOf
<1>3. BufferIsFull' = BufferIsFull /\ BufferIsEmpty' = BufferIsEmpty
  BY DEF BufferIsFull, BufferIsEmpty
<1>4. RingInv'
  BY <1>1, <1>2, <1>3 DEF RingInv
<1>5. InOrder'
  BY DEF InOrder
<1> QED
  BY <1>4, <1>5

\* The values of items.
LEMMA ItemType ==
    /\ END_FLAG \in Values
    /\ \A k \in Nat : Item(k) \in Values
  BY BufferAssumption DEF Values, END_FLAG, Item

\* Type correctness, one step per action.  Write and Read need RingInv's
\* bounds on the indices only through TypeOK.
LEMMA TypeStep ==
    ASSUME TypeOK, LockInv, RingInv, Next PROVE TypeOK'
<1> USE BufferAssumption DEF TypeOK, ring, Goto, PCs, Threads
<1>1. ASSUME NEW t \in Threads, Lock(t) \/ Test(t) \/ SpuriousWakeup(t)
      PROVE  TypeOK'
  BY <1>1 DEF Lock, Test, SpuriousWakeup
<1>2. CASE Signal("producer", "consumer") \/ Signal("consumer", "producer")
  BY <1>2 DEF Signal
<1>3. CASE Write
  <2>1. Item(i) \in Values /\ posWriteTo' \in Slots
    BY <1>3, ItemType DEF Write, Slots
  <2> QED
    BY <1>3, <2>1 DEF Write
<1>4. CASE Produced
  <2>1. i' \in 0 .. ITEMS + 1
    BY <1>4 DEF Produced, RingInv
  <2> QED
    BY <1>4, <2>1 DEF Produced
<1>5. CASE Read
  <2>1. buffer[posReadFrom] \in Values /\ posReadFrom' \in Slots
    BY <1>5 DEF Read, Slots
  <2>2. got' \in Seq(Values)
    BY <1>5, <2>1 DEF Read
  <2> QED
    BY <1>5, <2>1, <2>2 DEF Read
<1>6. CASE Consumed
  BY <1>6 DEF Consumed
<1>7. CASE Join
  BY <1>7 DEF Join
<1> QED
  BY <1>1, <1>2, <1>3, <1>4, <1>5, <1>6, <1>7
  DEF Next, ProducerStep, ConsumerStep

\* Mutual exclusion, one step per action.
LEMMA LockStep ==
    ASSUME TypeOK, LockInv, Next PROVE LockInv'
<1> USE DEF TypeOK, ring, Goto, Threads, LockInv
<1>1. ASSUME NEW t \in Threads, Lock(t) \/ Test(t) \/ SpuriousWakeup(t)
      PROVE  LockInv'
  BY <1>1 DEF Lock, Test, SpuriousWakeup
<1>2. CASE Signal("producer", "consumer") \/ Signal("consumer", "producer")
  BY <1>2 DEF Signal
<1>3. CASE Write \/ Read
  BY <1>3 DEF Write, Read
<1>4. CASE Produced \/ Consumed
  BY <1>4 DEF Produced, Consumed
<1>5. CASE Join
  BY <1>5 DEF Join
<1> QED
  BY <1>1, <1>2, <1>3, <1>4, <1>5 DEF Next, ProducerStep, ConsumerStep

\* Produce writes the next free slot of the ring and no slot in use.
LEMMA WriteStep ==
    ASSUME TypeOK, LockInv, RingInv, InOrder, Write PROVE RingInv' /\ InOrder'
<1> USE BufferAssumption
<1>1. /\ pc["producer"] = "access" /\ pc'["producer"] = "signal"
      /\ pc'["consumer"] = pc["consumer"] /\ pc["consumer"] # "access"
      /\ got' = got /\ i' = i /\ posReadFrom' = posReadFrom
      /\ buffer' = [buffer EXCEPT ![posWriteTo] = Item(i)]
      /\ posWriteTo' = IF posWriteTo + 1 >= BUFFER_SIZE THEN 0 ELSE posWriteTo + 1
  BY DEF Write, Goto, TypeOK, Threads, LockInv
<1>2. /\ i \in Nat /\ Len(got) \in Nat /\ posReadFrom \in Slots
      /\ posWriteTo \in Slots /\ buffer \in [Slots -> Values]
  BY DEF TypeOK
<1>3. Sent = i /\ Sent' = i + 1 /\ Stored = i - Len(got) /\ Stored' = Stored + 1
  BY <1>1, <1>2 DEF Sent, Stored
<1>4. Stored \in 0 .. BUFFER_SIZE - 2
  BY <1>1, <1>2, FullEmpty DEF RingInv
<1>5. posWriteTo = SlotOf(Stored)
  BY DEF RingInv
<1>6. posWriteTo' = SlotOf(Stored)'
  BY <1>1, <1>2, <1>3, <1>4, <1>5 DEF SlotOf, Slots
<1>7. ASSUME NEW j \in 0 .. BUFFER_SIZE - 1, j < Stored'
      PROVE  buffer'[SlotOf(j)'] = Item(Len(got') + j)
  <2>1. SlotOf(j)' = SlotOf(j) /\ SlotOf(j) \in Slots
    BY <1>1, <1>2 DEF SlotOf, Slots
  <2>2. CASE j < Stored
    <3>1. SlotOf(j) # posWriteTo
      BY <1>2, <1>4, <1>5, <2>2 DEF SlotOf, Slots
    <3>2. buffer[SlotOf(j)] = Item(Len(got) + j)
      BY <2>2 DEF RingInv
    <3> QED
      BY <1>1, <1>2, <2>1, <3>1, <3>2
  <2>3. CASE j = Stored
    <3>1. Len(got) + j = i
      BY <1>2, <1>3, <2>3
    <3> QED
      BY <1>1, <1>2, <1>5, <2>1, <2>3, <3>1
  <2> QED
    BY <1>3, <1>4, <1>7, <2>2, <2>3
<1>8. i' > ITEMS => pc'["producer"] = "done"
  BY <1>1 DEF RingInv
<1>9. Stored' \in 0 .. BUFFER_SIZE - 1 /\ posWriteTo' = SlotOf(Stored)'
  BY <1>3, <1>4, <1>6
<1>10. RingInv'
  BY <1>1, <1>7, <1>8, <1>9 DEF RingInv
<1> QED
  BY <1>1, <1>10 DEF InOrder

\* Consume reads the oldest item of the ring.
LEMMA ReadStep ==
    ASSUME TypeOK, LockInv, RingInv, InOrder, Read PROVE RingInv' /\ InOrder'
<1> USE BufferAssumption
<1>1. /\ pc["consumer"] = "access" /\ pc'["consumer"] = "signal"
      /\ pc'["producer"] = pc["producer"]
      /\ pc["producer"] \notin {"access", "signal", "unlock"}
      /\ got' = Append(got, buffer[posReadFrom]) /\ i' = i
      /\ buffer' = buffer /\ posWriteTo' = posWriteTo
      /\ posReadFrom' = IF posReadFrom + 1 >= BUFFER_SIZE THEN 0 ELSE posReadFrom + 1
  BY DEF Read, Goto, TypeOK, Threads, LockInv
<1>2. /\ i \in Nat /\ Len(got) \in Nat /\ posReadFrom \in Slots
      /\ posWriteTo \in Slots /\ got \in Seq(Values)
  BY DEF TypeOK
<1>3. Len(got') = Len(got) + 1
  BY <1>1, <1>2
<1>4. Sent = i /\ Sent' = i /\ Stored = i - Len(got) /\ Stored' = Stored - 1
  BY <1>1, <1>2, <1>3 DEF Sent, Stored
<1>5. Stored \in 1 .. BUFFER_SIZE - 1
  BY <1>1, <1>2, FullEmpty DEF RingInv
<1>6. SlotOf(0) = posReadFrom /\ buffer[posReadFrom] = Item(Len(got))
  BY <1>2, <1>5 DEF RingInv, SlotOf, Slots
<1>7. \A j \in 0 .. BUFFER_SIZE - 2 : SlotOf(j)' = SlotOf(j + 1)
  BY <1>1, <1>2 DEF SlotOf, Slots
<1>8. posWriteTo' = SlotOf(Stored)'
  <2>1. posWriteTo = SlotOf(Stored)
    BY DEF RingInv
  <2> QED
    BY <1>1, <1>2, <1>4, <1>5, <2>1 DEF SlotOf, Slots
<1>9. ASSUME NEW j \in 0 .. BUFFER_SIZE - 1, j < Stored'
      PROVE  buffer'[SlotOf(j)'] = Item(Len(got') + j)
  <2>1. j + 1 \in 0 .. BUFFER_SIZE - 1 /\ j + 1 < Stored
    BY <1>4, <1>5, <1>9
  <2>2. buffer[SlotOf(j + 1)] = Item(Len(got) + (j + 1))
    BY <2>1 DEF RingInv
  <2>3. Len(got) + (j + 1) = Len(got') + j
    BY <1>2, <1>3
  <2>4. SlotOf(j)' = SlotOf(j + 1)
    BY <1>7, <2>1
  <2> QED
    BY <1>1, <2>2, <2>3, <2>4
<1>10. RingInv'
  <2>1. Stored' \in 0 .. BUFFER_SIZE - 1
    BY <1>4, <1>5
  <2>2. i' > ITEMS => pc'["producer"] = "done"
    BY <1>1 DEF RingInv
  <2> QED
    BY <1>1, <1>8, <1>9, <2>1, <2>2 DEF RingInv
<1>11. InOrder'
  <2>1. \A k \in 1 .. Len(got) : got'[k] = got[k]
    BY <1>1, <1>2
  <2>2. got'[Len(got) + 1] = Item(Len(got))
    BY <1>1, <1>2, <1>6
  <2> QED
    BY <1>2, <1>3, <2>1, <2>2 DEF InOrder
<1> QED
  BY <1>10, <1>11

\* The ring part of the invariant, one step per action.
LEMMA RingStep ==
    ASSUME TypeOK, LockInv, RingInv, InOrder, Next PROVE RingInv' /\ InOrder'
<1> USE DEF TypeOK, ring, Goto, Threads
<1>1. ASSUME NEW t \in Threads, Lock(t) \/ Test(t) \/ SpuriousWakeup(t)
      PROVE  RingInv' /\ InOrder'
  <2>1. Sent' = Sent /\ i' = i
    BY <1>1 DEF Lock, Test, SpuriousWakeup, Sent
  <2>2. i > ITEMS => pc'["producer"] = "done"
    BY <1>1 DEF Lock, Test, SpuriousWakeup, RingInv
  <2>3. /\ pc'["producer"] = "access" => pc["producer"] = "access" \/ ~BufferIsFull
        /\ pc'["consumer"] = "access" => pc["consumer"] = "access" \/ ~BufferIsEmpty
        /\ UNCHANGED <<buffer, posReadFrom, posWriteTo, got>>
    BY <1>1 DEF Lock, Test, SpuriousWakeup
  <2> QED
    BY <2>1, <2>2, <2>3, RingFrame
<1>2. CASE Signal("producer", "consumer") \/ Signal("consumer", "producer")
  BY <1>2, RingFrame DEF Signal, Sent, RingInv
<1>3. CASE Write
  BY <1>3, WriteStep
<1>4. CASE Produced
  <2>1. i \in Nat /\ i' = i + 1 /\ pc["producer"] = "unlock"
        /\ pc'["producer"] \in {"lock", "done"}
        /\ pc'["consumer"] = pc["consumer"]
    BY <1>4 DEF Produced
  <2>2. Sent' = Sent
    BY <2>1 DEF Sent
  <2>3. i' > ITEMS => pc'["producer"] = "done"
    BY <1>4, BufferAssumption DEF Produced
  <2> QED
    BY <1>4, <2>1, <2>2, <2>3, RingFrame DEF Produced
<1>5. CASE Read
  BY <1>5, ReadStep
<1>6. CASE Consumed
  BY <1>6, RingFrame DEF Consumed, Sent, RingInv
<1>7. CASE Join
  BY <1>7, RingFrame DEF Join, Sent, RingInv
<1> QED
  BY <1>1, <1>2, <1>3, <1>4, <1>5, <1>6, <1>7
  DEF Next, ProducerStep, ConsumerStep

\* Waiting and signalling, one step per action.
LEMMA WakeupStep ==
    ASSUME TypeOK, LockInv, RingInv, NoLostWakeup, Next PROVE NoLostWakeup'
<1> USE DEF TypeOK, ring, Goto, Threads, NoLostWakeup
<1>1. ASSUME NEW t \in Threads, Lock(t) \/ Test(t) \/ SpuriousWakeup(t)
      PROVE  NoLostWakeup'
  BY <1>1 DEF Lock, Test, SpuriousWakeup, BufferIsFull, BufferIsEmpty, LockInv
<1>2. CASE Signal("producer", "consumer") \/ Signal("consumer", "producer")
  BY <1>2 DEF Signal, BufferIsFull, BufferIsEmpty
<1>3. CASE Write
  BY <1>3 DEF Write
<1>4. CASE Read
  BY <1>4 DEF Read
<1>5. CASE Produced \/ Consumed \/ Join
  BY <1>5 DEF Produced, Consumed, Join, BufferIsFull, BufferIsEmpty
<1> QED
  BY <1>1, <1>2, <1>3, <1>4, <1>5 DEF Next, ProducerStep, ConsumerStep

\* The inductive invariant holds: mutual exclusion, a ring that holds what
\* was sent and not yet read, order, and no lost wake-up.
THEOREM Inductive == Spec => []IInv
<1>1. Init => IInv
  <2> SUFFICES ASSUME Init PROVE IInv
    OBVIOUS
  <2> USE BufferAssumption DEF Init
  <2>1. TypeOK
    <3>1. buffer \in [Slots -> Values] /\ item \in Values
      BY DEF Values, END_FLAG
    <3> QED
      BY <3>1 DEF TypeOK, PCs, Slots, Threads
  <2>2. LockInv
    BY DEF LockInv, Threads
  <2>3. Stored = 0 /\ Len(got) = 0
    BY DEF Stored, Sent, Threads
  <2>4. RingInv
    BY <2>3 DEF RingInv, SlotOf, BufferIsFull, BufferIsEmpty, Threads
  <2>5. InOrder /\ NoLostWakeup
    BY <2>3 DEF InOrder, NoLostWakeup, Threads
  <2> QED
    BY <2>1, <2>2, <2>4, <2>5 DEF IInv
<1>2. IInv /\ [Next]_vars => IInv'
  <2>1. IInv /\ Next => IInv'
    BY TypeStep, LockStep, RingStep, WakeupStep DEF IInv
  <2>2. IInv /\ UNCHANGED vars => IInv'
    BY DEF IInv, vars, ring, TypeOK, LockInv, RingInv, InOrder, NoLostWakeup,
           Stored, Sent, SlotOf, BufferIsFull, BufferIsEmpty
  <2> QED
    BY <2>1, <2>2
<1> QED
  BY <1>1, <1>2, PTL DEF Spec

\* The consumer reads what the producer sent, in order, for every ring size.
THEOREM InOrderHolds == Spec => []InOrder
<1>1. IInv => InOrder
  BY DEF IInv
<1> QED
  BY <1>1, Inductive, PTL

\* No signal of Produce or Consume is lost on a thread that needs it.
THEOREM NoLostWakeupHolds == Spec => []NoLostWakeup
<1>1. IInv => NoLostWakeup
  BY DEF IInv
<1> QED
  BY <1>1, Inductive, PTL

-----------------------------------------------------------------------------
(* The threads never all wait. *)

\* The consumer stops at END_FLAG, which it has read once it has read everything, and
\* the producer stops after it.
EndInv ==
    /\ pc["consumer"] \in {"signal", "unlock", "done"} => Len(got) > 0 /\ item = Item(Len(got) - 1)
    /\ pc["consumer"] \in {"lock", "test", "wait", "relock", "access"} => Len(got) <= ITEMS
    /\ pc["consumer"] = "done" => Len(got) > ITEMS
    /\ pc["producer"] = "done" => i > ITEMS

LEMMA EndStep == IInv /\ IInv' /\ EndInv /\ [Next]_vars => EndInv'
<1> SUFFICES ASSUME IInv, IInv', EndInv, [Next]_vars PROVE EndInv'
  OBVIOUS
<1> USE DEF Goto, ring
<1>0. /\ pc \in [Threads -> PCs] /\ i \in 0 .. ITEMS + 1 /\ got \in Seq(Values) /\ Len(got) \in Nat
      /\ {"producer", "consumer"} = Threads /\ ITEMS \in Nat
  BY BufferAssumption DEF IInv, TypeOK, Threads
<1>1. ASSUME NEW t \in Threads, Lock(t) \/ Test(t) \/ SpuriousWakeup(t) PROVE EndInv'
  BY <1>0, <1>1 DEF EndInv, Lock, Test, SpuriousWakeup
<1>2. CASE Signal("producer", "consumer") \/ Signal("consumer", "producer")
  BY <1>0, <1>2 DEF EndInv, Signal
<1>3. CASE Write
  BY <1>0, <1>3 DEF EndInv, Write
<1>4. CASE Produced
  BY <1>0, <1>4 DEF EndInv, Produced
<1>5. CASE Read
  <2>1. /\ got' = Append(got, buffer[posReadFrom]) /\ item' = buffer[posReadFrom]
        /\ pc'["consumer"] = "signal" /\ pc'["producer"] = pc["producer"] /\ i' = i
    BY <1>0, <1>5 DEF Read
  <2>2. got' \in Seq(Values) /\ Len(got') = Len(got) + 1 /\ got'[Len(got) + 1] = item'
    <3>1. buffer[posReadFrom] \in Values
      BY DEF IInv, TypeOK
    <3> QED
      BY <1>0, <2>1, <3>1
  <2>3. item' = Item(Len(got') - 1)
    <3>1. Len(got) + 1 \in 1 .. Len(got')
      BY <1>0, <2>2
    <3>2. got'[Len(got) + 1] = Item(Len(got) + 1 - 1)
      BY <3>1 DEF IInv, InOrder, Item
    <3> QED
      BY <2>2, <3>2
  <2> QED
    BY <1>0, <2>1, <2>2, <2>3 DEF EndInv
<1>6. CASE Consumed
  <2>1. /\ pc["consumer"] = "unlock" /\ UNCHANGED <<got, item, i>>
        /\ pc'["consumer"] = IF item = END_FLAG THEN "done" ELSE "lock"
        /\ pc'["producer"] = pc["producer"]
    BY <1>0, <1>6 DEF Consumed
  <2>2. Len(got) > 0 /\ item = Item(Len(got) - 1)
    BY <2>1 DEF EndInv
  <2>3. item = END_FLAG <=> Len(got) > ITEMS
    BY <1>0, <2>2 DEF Item, END_FLAG
  <2> QED
    BY <1>0, <2>1, <2>2, <2>3 DEF EndInv, Item
<1>7. CASE Join \/ UNCHANGED vars
  BY <1>7 DEF EndInv, Join, vars, Item
<1> QED
  BY <1>0, <1>1, <1>2, <1>3, <1>4, <1>5, <1>6, <1>7 DEF Next, ProducerStep, ConsumerStep

LEMMA EndHolds == Spec => []EndInv
<1>1. Init => EndInv
  BY BufferAssumption DEF Init, EndInv, Threads
<1> QED
  BY <1>1, EndStep, Inductive, PTL DEF Spec

\* main() has joined both threads or can join one, or a thread can take the mutex or is
\* past it.
SomeoneRuns ==
    \/ joined = 2
    \/ joined = 0 /\ pc["producer"] = "done"
    \/ joined = 1 /\ pc["consumer"] = "done"
    \/ \E t \in Threads :
          \/ pc[t] \in {"lock", "relock"} /\ locker = "none"
          \/ pc[t] \in {"test", "access", "signal", "unlock"}

\* The ring buffer never deadlocks: the threads never both wait, and none waits for one
\* that has returned.
THEOREM NeverStuck == Spec => []SomeoneRuns
<1>1. IInv /\ EndInv => SomeoneRuns
  <2> SUFFICES ASSUME IInv, EndInv, ~SomeoneRuns PROVE FALSE
    OBVIOUS
  <2> DEFINE P == pc["producer"]
             C == pc["consumer"]
  <2>1. /\ P \in PCs /\ C \in PCs /\ locker \in {"producer", "consumer", "none"}
        /\ joined \in 0 .. 2 /\ i \in Nat /\ Len(got) \in Nat /\ ITEMS \in Nat
    BY BufferAssumption DEF IInv, TypeOK, Threads
  <2>2. /\ P \notin {"test", "access", "signal", "unlock"}
        /\ C \notin {"test", "access", "signal", "unlock"}
    BY DEF SomeoneRuns, Threads
  <2>3. locker = "none"
    BY <2>1, <2>2 DEF IInv, LockInv, Threads
  <2>4. P \in {"wait", "done"} /\ C \in {"wait", "done"}
    BY <2>1, <2>2, <2>3 DEF SomeoneRuns, Threads, PCs
  <2>5. /\ Stored = i - Len(got) /\ BUFFER_SIZE > 1 /\ BUFFER_SIZE \in Nat
        /\ BufferIsFull <=> Stored = BUFFER_SIZE - 1
        /\ BufferIsEmpty <=> Stored = 0
        /\ Stored >= 0
    <3>1. Sent = i
      BY <2>1, <2>4 DEF Sent
    <3>2. Stored \in 0 .. BUFFER_SIZE - 1
      BY DEF IInv, RingInv
    <3> QED
      BY <3>1, <3>2, FullEmpty, BufferAssumption DEF Stored, IInv
  <2>6. CASE P = "wait" /\ C = "wait"
    BY <2>5, <2>6 DEF IInv, NoLostWakeup
  <2>7. CASE P = "done" /\ C = "wait"
    <3>1. BufferIsEmpty
      BY <2>7 DEF IInv, NoLostWakeup
    <3>2. i > ITEMS /\ Len(got) <= ITEMS
      BY <2>7 DEF EndInv
    <3> QED
      BY <2>1, <2>5, <3>1, <3>2
  <2>8. CASE P = "wait" /\ C = "done"
    <3>1. Len(got) > ITEMS /\ i <= ITEMS
      BY <2>1, <2>8 DEF EndInv, IInv, RingInv
    <3> QED
      BY <2>1, <2>5, <3>1
  <2>9. CASE P = "done" /\ C = "done"
    BY <2>1, <2>9 DEF SomeoneRuns
  <2> QED
    BY <2>4, <2>6, <2>7, <2>8, <2>9
<1> QED
  BY <1>1, EndHolds, Inductive, PTL

-----------------------------------------------------------------------------
(* Refinement. *)

\* The slots in use hold items, so the contents are a sequence of items.
LEMMA ContentsType ==
    ASSUME TypeOK, RingInv
    PROVE  /\ Contents \in Seq(Values) /\ Len(Contents) = Stored
           /\ Stored \in 0 .. BUFFER_SIZE - 1
           /\ \A j \in 1 .. Stored : Contents[j] = buffer[SlotOf(j - 1)]
<1>1. Stored \in 0 .. BUFFER_SIZE - 1
  BY DEF RingInv
<1>2. \A j \in 1 .. Stored : buffer[SlotOf(j - 1)] \in Values
  BY <1>1, BufferAssumption DEF TypeOK, SlotOf, Slots
<1> QED
  BY <1>1, <1>2, BufferAssumption DEF Contents

\* Produce's write appends to the contents.
LEMMA WriteIsPut ==
    ASSUME IInv, IInv', Write PROVE Channel!Put
<1> USE BufferAssumption
<1>1. /\ pc["producer"] = "access" /\ pc'["producer"] = "signal"
      /\ got' = got /\ i' = i /\ posReadFrom' = posReadFrom
      /\ buffer' = [buffer EXCEPT ![posWriteTo] = Item(i)]
  BY DEF Write, Goto, IInv, TypeOK, Threads
<1>2. /\ i \in Nat /\ Len(got) \in Nat /\ posReadFrom \in Slots
      /\ posWriteTo \in Slots /\ buffer \in [Slots -> Values]
  BY DEF IInv, TypeOK
<1>3. Sent = i /\ Sent' = i + 1 /\ Stored = i - Len(got) /\ Stored' = Stored + 1
  BY <1>1, <1>2 DEF Sent, Stored
<1>4. i <= ITEMS /\ Item(i) \in Values
  BY <1>1, <1>2, ItemType DEF IInv, RingInv
<1>5. /\ Contents \in Seq(Values) /\ Len(Contents) = Stored
      /\ Stored \in 0 .. BUFFER_SIZE - 2
      /\ \A j \in 1 .. Stored : Contents[j] = buffer[SlotOf(j - 1)]
  <2>1. Stored' \in 0 .. BUFFER_SIZE - 1
    BY DEF IInv, RingInv
  <2> QED
    BY <1>2, <1>3, <2>1, ContentsType DEF IInv
<1>6. Contents' = [j \in 1 .. Stored + 1 |-> buffer'[SlotOf(j - 1)]]
  BY <1>1, <1>3 DEF Contents, SlotOf
<1>7. posWriteTo = SlotOf(Stored) /\ Stored + 1 \in Nat
  BY <1>5 DEF IInv, RingInv
<1>8. ASSUME NEW j \in 1 .. Stored + 1
      PROVE  /\ Contents'[j] = IF j = Stored + 1 THEN Item(i) ELSE Contents[j]
             /\ Contents'[j] \in Values
  <2>1. Contents'[j] = buffer'[SlotOf(j - 1)]
    BY <1>6
  <2>2. SlotOf(j - 1) \in Slots
    BY <1>2, <1>5 DEF SlotOf, Slots
  <2>3. CASE j = Stored + 1
    <3>1. j - 1 = Stored
      BY <1>5, <2>3
    <3> QED
      BY <1>1, <1>2, <1>4, <1>7, <2>1, <2>3, <3>1
  <2>4. CASE j # Stored + 1
    <3>1. SlotOf(j - 1) # SlotOf(Stored)
      BY <1>2, <1>5, <2>4 DEF SlotOf, Slots
    <3>2. buffer'[SlotOf(j - 1)] = buffer[SlotOf(j - 1)]
      BY <1>1, <1>2, <1>7, <2>2, <3>1
    <3>3. j \in 1 .. Stored
      BY <1>5, <2>4
    <3>4. Contents[j] = buffer[SlotOf(j - 1)]
      BY <1>5, <3>3
    <3> QED
      BY <1>2, <2>1, <2>2, <2>4, <3>2, <3>4
  <2> QED
    BY <2>3, <2>4
<1>9. Contents' \in Seq(Values) /\ Len(Contents') = Stored + 1
  <2>1. \A j \in 1 .. Stored + 1 : buffer'[SlotOf(j - 1)] \in Values
    BY <1>6, <1>8
  <2> QED
    BY <1>6, <1>7, <2>1
<1>10. Contents' = Append(Contents, Item(i))
  <2> DEFINE a == Append(Contents, Item(i))
  <2>1. /\ a \in Seq(Values) /\ Len(a) = Stored + 1 /\ a[Stored + 1] = Item(i)
        /\ \A j \in 1 .. Stored : a[j] = Contents[j]
    BY <1>4, <1>5, AppendProperties
  <2> HIDE DEF a
  <2>2. \A j \in 1 .. Len(Contents') : Contents'[j] = a[j]
    BY <1>5, <1>8, <1>9, <2>1
  <2>3. Len(Contents') = Len(a)
    BY <1>9, <2>1
  <2>4. Contents' = a
    BY <1>9, <2>1, <2>2, <2>3, SeqEqual
  <2> QED
    BY <2>4 DEF a
<1>11. Sent < ITEMS + 1 /\ Len(Contents) < BUFFER_SIZE - 1
  BY <1>2, <1>3, <1>4, <1>5
<1> QED
  BY <1>1, <1>3, <1>10, <1>11 DEF Channel!Put

\* Consume's read takes the front of the contents.
LEMMA ReadIsTake ==
    ASSUME IInv, IInv', Read PROVE Channel!Take
<1> USE BufferAssumption
<1>1. /\ pc["consumer"] = "access" /\ pc'["producer"] = pc["producer"]
      /\ got' = Append(got, buffer[posReadFrom]) /\ i' = i
      /\ buffer' = buffer
      /\ posReadFrom' = IF posReadFrom + 1 >= BUFFER_SIZE THEN 0 ELSE posReadFrom + 1
  BY DEF Read, Goto, IInv, TypeOK, Threads
<1>2. /\ i \in Nat /\ Len(got) \in Nat /\ posReadFrom \in Slots
      /\ got \in Seq(Values) /\ Len(got') = Len(got) + 1
  BY <1>1 DEF IInv, TypeOK
<1>3. Sent' = Sent /\ Sent \in Nat /\ Stored' = Stored - 1
  BY <1>1, <1>2 DEF Sent, Stored
<1>4. /\ Contents \in Seq(Values) /\ Len(Contents) = Stored
      /\ Stored \in 0 .. BUFFER_SIZE - 1
      /\ \A j \in 1 .. Stored : Contents[j] = buffer[SlotOf(j - 1)]
  BY ContentsType DEF IInv
<1>5. Stored \in 1 .. BUFFER_SIZE - 1
  BY <1>1, <1>4, FullEmpty DEF IInv, RingInv
<1>7. /\ Contents' \in Seq(Values) /\ Len(Contents') = Stored - 1
      /\ \A j \in 1 .. Stored - 1 : Contents'[j] = buffer[SlotOf(j)]
  <2>1. Contents' = [j \in 1 .. Stored - 1 |-> buffer[SlotOf(j)]]
    <3>1. \A j \in 1 .. Stored - 1 :
             SlotOf(j) = IF posReadFrom' + (j - 1) < BUFFER_SIZE
                         THEN posReadFrom' + (j - 1)
                         ELSE posReadFrom' + (j - 1) - BUFFER_SIZE
      BY <1>1, <1>2, <1>5 DEF SlotOf, Slots
    <3>2. Contents' = [j \in 1 .. Stored - 1 |->
                         buffer[IF posReadFrom' + (j - 1) < BUFFER_SIZE
                                THEN posReadFrom' + (j - 1)
                                ELSE posReadFrom' + (j - 1) - BUFFER_SIZE]]
      BY <1>1, <1>3 DEF Contents, SlotOf
    <3> QED
      BY <3>1, <3>2
  <2>2. \A j \in 1 .. Stored - 1 : buffer[SlotOf(j)] \in Values
    BY <1>2, <1>5 DEF SlotOf, Slots, IInv, TypeOK
  <2>3. Stored - 1 \in Nat
    BY <1>5
  <2> QED
    BY <2>1, <2>2, <2>3
<1>8. Contents # << >> /\ Head(Contents) = buffer[posReadFrom]
  <2>1. Contents[1] = buffer[SlotOf(0)]
    BY <1>4, <1>5
  <2>2. SlotOf(0) = posReadFrom
    BY <1>2 DEF SlotOf, Slots
  <2> QED
    BY <1>4, <1>5, <2>1, <2>2
<1>9. Contents' = Tail(Contents)
  <2> DEFINE a == Tail(Contents)
  <2>1. /\ a \in Seq(Values) /\ Len(a) = Stored - 1
        /\ \A j \in 1 .. Len(a) : a[j] = Contents[j + 1]
    BY <1>4, <1>8, HeadTailProperties
  <2> HIDE DEF a
  <2>2. ASSUME NEW j \in 1 .. Len(Contents') PROVE Contents'[j] = a[j]
    <3>1. j \in 1 .. Stored - 1 /\ j + 1 \in 1 .. Stored /\ j + 1 - 1 = j
      BY <1>5, <1>7
    <3>2. Contents[j + 1] = buffer[SlotOf(j)]
      BY <1>4, <3>1
    <3> QED
      BY <1>7, <2>1, <3>1, <3>2
  <2>3. Len(Contents') = Len(a)
    BY <1>3, <1>7, <2>1
  <2>4. Contents' = a
    BY <1>7, <2>1, <2>2, <2>3, SeqEqual
  <2> QED
    BY <2>4 DEF a
<1> QED
  BY <1>1, <1>3, <1>8, <1>9 DEF Channel!Take

\* The program's ring buffer implements the first-in first-out channel, for
\* every buffer size and number of items.
THEOREM Refinement == Spec => ImplementsChannel
<1>1. Init => Channel!Init
  <2> SUFFICES ASSUME Init PROVE Channel!Init
    OBVIOUS
  <2>1. Sent = 0 /\ Stored = 0 /\ got = << >>
    BY DEF Init, Sent, Stored, Threads
  <2>2. Contents = << >>
    BY <2>1 DEF Contents
  <2> QED
    BY <2>1, <2>2 DEF Channel!Init
<1>2. IInv /\ IInv' /\ [Next]_vars => [Channel!Next]_Channel!vars
  <2> SUFFICES ASSUME IInv, IInv', [Next]_vars
               PROVE  Channel!Next \/ UNCHANGED Channel!vars
    OBVIOUS
  <2>1. CASE Write
    BY <2>1, WriteIsPut DEF Channel!Next
  <2>2. CASE Read
    BY <2>2, ReadIsTake DEF Channel!Next
  <2>3. CASE ~Write /\ ~Read
    <3>1. /\ UNCHANGED <<buffer, posReadFrom, posWriteTo, got>>
          /\ Sent' = Sent
      <4> USE DEF ring, Goto, IInv, TypeOK, Threads, Sent
      <4>1. ASSUME NEW t \in Threads, Lock(t) \/ Test(t) \/ SpuriousWakeup(t)
            PROVE  UNCHANGED <<buffer, posReadFrom, posWriteTo, got, Sent>>
        BY <4>1 DEF Lock, Test, SpuriousWakeup
      <4>2. CASE Signal("producer", "consumer") \/ Signal("consumer", "producer")
        BY <4>2 DEF Signal
      <4>3. CASE Produced
        <5>1. i \in Nat /\ pc["producer"] = "unlock" /\ i' = i + 1
              /\ pc'["producer"] \in {"lock", "done"}
          BY <4>3 DEF Produced
        <5>2. Sent' = Sent
          BY <5>1
        <5> QED
          BY <4>3, <5>2 DEF Produced
      <4>4. CASE Consumed \/ Join \/ UNCHANGED vars
        BY <4>4 DEF Consumed, Join, vars
      <4> QED
        BY <2>3, <4>1, <4>2, <4>3, <4>4 DEF Next, ProducerStep, ConsumerStep
    <3>2. Contents' = Contents
      BY <3>1 DEF Contents, Stored, SlotOf
    <3> QED
      BY <3>1, <3>2 DEF Channel!vars
  <2> QED
    BY <2>1, <2>2, <2>3
<1> QED
  BY <1>1, <1>2, Inductive, PTL DEF Spec, ImplementsChannel, Channel!Spec
=============================================================================
