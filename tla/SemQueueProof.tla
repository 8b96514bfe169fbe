---------------------------- MODULE SemQueueProof ----------------------------
(* Proofs about SemQueue: the inductive invariant IInv, and from it that the *)
(* queue is a first-in first-out channel and that the threads never meet in  *)
(* a slot.                                                                   *)
EXTENDS SemQueue, SequenceTheorems, TLAPS

\* The indices of the code, (p+1)%NUM, wrap to 0 after NUM - 1.
LEMMA NextSlot ==
    ASSUME NEW s \in Slots
    PROVE  (s + 1) % NUM = IF s + 1 < NUM THEN s + 1 ELSE 0
<1> USE QueueAssumption DEF Slots
<1>1. CASE s + 1 = NUM
  BY <1>1
<1>2. CASE s + 1 < NUM
  BY <1>2
<1> QED
  BY <1>1, <1>2

\* One step of each thread keeps the invariant: the counts and the places are
\* linear arithmetic, and the array changes in at most one slot.
LEMMA ProducerStep ==
    ASSUME IInv, Producer PROVE IInv'
<1> USE QueueAssumption
    DEF IInv, TypeOK, CountInv, PlaceInv, DataInv, Written, Taken, First,
        SlotFrom, ItemFrom, Slots, Items, pvars, cvars
<1>1. CASE WaitBlank
  BY <1>1 DEF WaitBlank
<1>2. CASE Write
  <2> USE <1>2 DEF Write
  <2>1. TypeOK' /\ CountInv' /\ PlaceInv'
    OBVIOUS
  <2>2. DataInv'
    <3> SUFFICES ASSUME NEW j \in Slots, j < Written'
                 PROVE  queue'[SlotFrom(First', j)] = ItemFrom(next', j)
      OBVIOUS
    <3>1. CASE j < Written
      <4>1. SlotFrom(First, j) # p /\ SlotFrom(First, j) \in Slots
        BY <3>1
      <4>2. queue[SlotFrom(First, j)] = ItemFrom(next, j)
        BY <3>1
      <4>3. \A s \in Slots : s # p => queue'[s] = queue[s]
        OBVIOUS
      <4>4. First' = First /\ next' = next
        OBVIOUS
      <4> HIDE <1>2 DEF SlotFrom, ItemFrom, First, Written, Slots
      <4> QED
        BY <4>1, <4>2, <4>3, <4>4
    <3>2. CASE j = Written
      <4>1. SlotFrom(First, j) = p
        BY <3>2
      <4> QED
        BY <3>2, <4>1
    <3> QED
      BY <3>1, <3>2
  <2> QED
    BY <2>1, <2>2
<1>3. CASE PostProduct
  <2>1. p' = IF p + 1 < NUM THEN p + 1 ELSE 0
    BY <1>3, NextSlot DEF PostProduct
  <2> QED
    BY <1>3, <2>1 DEF PostProduct
<1> QED
  BY <1>1, <1>2, <1>3 DEF Producer

LEMMA ConsumerStep ==
    ASSUME IInv, Consumer PROVE IInv'
<1> USE QueueAssumption
    DEF IInv, TypeOK, CountInv, PlaceInv, DataInv, Written, Taken, First,
        SlotFrom, ItemFrom, Slots, Items, pvars, cvars
<1>1. CASE WaitProduct
  BY <1>1 DEF WaitProduct
<1>2. CASE Read
  <2> USE <1>2 DEF Read
  <2>1. TypeOK' /\ CountInv' /\ PlaceInv'
    OBVIOUS
  <2>2. DataInv'
    <3> SUFFICES ASSUME NEW j \in Slots, j < Written'
                 PROVE  queue'[SlotFrom(First', j)] = ItemFrom(next', j)
      OBVIOUS
    <3>1. j + 1 \in Slots /\ j + 1 < Written
      OBVIOUS
    <3>2. queue[SlotFrom(First, j + 1)] = ItemFrom(next, j + 1)
      BY <3>1
    <3>3. /\ SlotFrom(First', j) = SlotFrom(First, j + 1)
          /\ ItemFrom(next', j) = ItemFrom(next, j + 1)
          /\ queue' = queue
      BY <3>1
    <3> HIDE <1>2 DEF SlotFrom, ItemFrom, First, Written, Slots
    <3> QED
      BY <3>2, <3>3
  <2> QED
    BY <2>1, <2>2
<1>3. CASE Clear
  <2> USE <1>3 DEF Clear
  <2>1. TypeOK' /\ CountInv' /\ PlaceInv'
    OBVIOUS
  <2>2. DataInv'
    <3> SUFFICES ASSUME NEW j \in Slots, j < Written'
                 PROVE  queue'[SlotFrom(First', j)] = ItemFrom(next', j)
      OBVIOUS
    <3>1. SlotFrom(First, j) # c /\ SlotFrom(First, j) \in Slots
      OBVIOUS
    <3>2. queue[SlotFrom(First, j)] = ItemFrom(next, j)
      OBVIOUS
    <3>3. \A s \in Slots : s # c => queue'[s] = queue[s]
      OBVIOUS
    <3>4. First' = First /\ next' = next
      OBVIOUS
    <3> HIDE <1>3 DEF SlotFrom, ItemFrom, First, Written, Slots
    <3> QED
      BY <3>1, <3>2, <3>3, <3>4
  <2> QED
    BY <2>1, <2>2
<1>4. CASE PostBlank
  <2>1. c' = IF c + 1 < NUM THEN c + 1 ELSE 0
    BY <1>4, NextSlot DEF PostBlank
  <2> USE <1>4, <2>1 DEF PostBlank
  <2>2. TypeOK' /\ CountInv' /\ PlaceInv'
    <3>1. Taken' = Taken - 1 /\ Written' = Written
      OBVIOUS
    <3>2. TypeOK' /\ CountInv'
      BY <3>1
    <3>3. UNCHANGED <<p, item, next, ppc>>
      OBVIOUS
    <3>4. PlaceInv'
      <4> DEFINE d == Taken - (IF ppc = "wait" THEN 0 ELSE 1)
      <4>1. d \in 1 .. NUM /\ (Taken - (IF ppc = "wait" THEN 0 ELSE 1))' = d - 1
        BY <3>1, <3>3
      <4>2. SlotFrom(c', d - 1) = SlotFrom(c, d)
        <5> HIDE <1>4 DEF d, PostBlank
        <5> QED
          BY <2>1, <4>1
      <4>3. item' = ItemFrom(next', Written')
        BY <3>1, <3>3
      <4> HIDE DEF SlotFrom, ItemFrom, d
      <4> QED
        BY <3>3, <4>1, <4>2, <4>3 DEF d
    <3> QED
      BY <3>2, <3>4
  <2>3. /\ First' = First
        /\ Written' = Written
        /\ next' = next /\ queue' = queue
    <3>1. /\ cpc = "post" /\ cpc' = "wait" /\ ppc' = ppc
          /\ product_number' = product_number
          /\ next' = next /\ queue' = queue
      OBVIOUS
    <3>2. First = SlotFrom(c, 1) /\ First' = c'
      BY <3>1
    <3>3. SlotFrom(c, 1) = c'
      OBVIOUS
    <3>4. Written' = Written
      BY <3>1
    <3> HIDE DEF First, Written, SlotFrom
    <3> QED
      BY <3>1, <3>2, <3>3, <3>4
  <2>4. DataInv'
    <3> HIDE <1>4, <2>1 DEF SlotFrom, ItemFrom, First, Written, Slots
    <3> QED
      BY <2>3
  <2> QED
    BY <2>2, <2>4
<1> QED
  BY <1>1, <1>2, <1>3, <1>4 DEF Consumer

\* The invariant holds of every behaviour of the two threads.
THEOREM Inductive == Spec => []IInv
<1>1. Init => IInv
  BY QueueAssumption
  DEF Init, IInv, TypeOK, CountInv, PlaceInv, DataInv, Written, Taken, First,
      SlotFrom, ItemFrom, Slots, Items
<1>2. IInv /\ [Next]_vars => IInv'
  <2> SUFFICES ASSUME IInv, [Next]_vars PROVE IInv'
    OBVIOUS
  <2>1. CASE Producer
    BY <2>1, ProducerStep
  <2>2. CASE Consumer
    BY <2>2, ConsumerStep
  <2>3. CASE UNCHANGED vars
    BY <2>3
    DEF vars, pvars, cvars, IInv, TypeOK, CountInv, PlaceInv, DataInv, Written,
        Taken, First
  <2> QED
    BY <2>1, <2>2, <2>3 DEF Next
<1> QED
  BY <1>1, <1>2, PTL DEF Spec

\* The two threads never use one slot at the same time, although queue has no
\* lock: the semaphores' counts keep them apart.
THEOREM SlotsApartHolds == Spec => []SlotsApart
<1>1. IInv => SlotsApart
  BY QueueAssumption
  DEF IInv, TypeOK, CountInv, PlaceInv, Taken, SlotFrom, Slots, Items, SlotsApart
<1> QED
  BY <1>1, Inductive, PTL

\* A thread that is not in sem_wait can go on, one in sem_wait if it counts more than 0.
SomeoneRuns ==
    \/ ppc = "wait" => blank_number > 0
    \/ cpc = "wait" => product_number > 0

\* The semaphores never stop both threads at once, full or empty: each slot is blank, a
\* product, or in the hands of a thread that will post it.
THEOREM NeverStuck == Spec => []SomeoneRuns
<1>1. IInv => SomeoneRuns
  BY QueueAssumption DEF IInv, TypeOK, CountInv, Taken, SomeoneRuns
<1> QED
  BY <1>1, Inductive, PTL

-----------------------------------------------------------------------------
(* Refinement: the contents, as the invariant describes them. *)

ContentsInv ==
    /\ Contents = [j \in 1 .. Written |-> ItemFrom(next, j - 1)]
    /\ Contents \in Seq(Items) /\ Len(Contents) = Written /\ Written \in 0 .. NUM
    /\ \A j \in 1 .. Written : Contents[j] = ItemFrom(next, j - 1)

LEMMA ContentsAre == IInv => ContentsInv
<1> SUFFICES ASSUME IInv PROVE ContentsInv
  OBVIOUS
<1> USE QueueAssumption
<1>1. Written \in 0 .. NUM
  BY DEF IInv, TypeOK, CountInv, Written, Taken
<1>2. ASSUME NEW j \in 1 .. Written
      PROVE  queue[SlotFrom(First, j - 1)] = ItemFrom(next, j - 1) /\ ItemFrom(next, j - 1) \in Items
  <2>1. j - 1 \in Slots /\ j - 1 < Written
    BY <1>1 DEF Slots
  <2>2. ItemFrom(next, j - 1) \in Items
    BY <2>1 DEF IInv, TypeOK, ItemFrom, Items, Slots
  <2> QED
    BY <2>1, <2>2 DEF IInv, DataInv
<1>3. Contents = [j \in 1 .. Written |-> ItemFrom(next, j - 1)]
  BY <1>2 DEF Contents
<1>4. Written \in Nat
  BY <1>1
<1> HIDE DEF Written
<1>5. Contents \in Seq(Items) /\ Len(Contents) = Written
  BY <1>2, <1>3, <1>4
<1> QED
  BY <1>1, <1>3, <1>5 DEF ContentsInv

\* queue[p] = item++ appends to the contents.
LEMMA WriteIsPut ==
    ASSUME IInv, IInv', Write PROVE Stream!Put
<1> USE QueueAssumption
<1>1. /\ Written' = Written + 1 /\ next' = next /\ shown' = shown
      /\ item' = IF item + 1 = WRAP THEN 0 ELSE item + 1
      /\ item = ItemFrom(next, Written) /\ item \in Items
  BY DEF Write, Written, cvars, IInv, TypeOK, PlaceInv
<1>2. /\ Contents \in Seq(Items) /\ Len(Contents) = Written /\ Written \in 0 .. NUM
      /\ \A j \in 1 .. Written : Contents[j] = ItemFrom(next, j - 1)
  BY ContentsAre DEF ContentsInv
<1>3. /\ Contents' \in Seq(Items) /\ Len(Contents') = Written + 1 /\ Written + 1 \in 0 .. NUM
      /\ \A j \in 1 .. Written + 1 : Contents'[j] = ItemFrom(next, j - 1)
  <2>0. ContentsInv'
    BY ContentsAre, PTL
  <2>1. /\ Contents' \in Seq(Items) /\ Len(Contents') = Written' /\ Written' \in 0 .. NUM
        /\ \A j \in 1 .. Written' : Contents'[j] = ItemFrom(next, j - 1)'
    BY <2>0 DEF ContentsInv
  <2>2. \A j : ItemFrom(next, j - 1)' = ItemFrom(next, j - 1)
    BY <1>1 DEF ItemFrom
  <2> QED
    BY <1>1, <2>1, <2>2
<1> DEFINE a == Append(Contents, item)
<1>4. /\ a \in Seq(Items) /\ Len(a) = Written + 1 /\ a[Written + 1] = item
      /\ \A j \in 1 .. Written : a[j] = Contents[j]
  BY <1>1, <1>2, AppendProperties
<1> HIDE DEF a, Written, Contents
<1>5. ASSUME NEW j \in 1 .. Written + 1 PROVE Contents'[j] = a[j]
  <2>1. CASE j \in 1 .. Written
    BY <1>2, <1>3, <1>4, <2>1
  <2>2. CASE j = Written + 1
    <3>1. j - 1 = Written
      BY <1>2, <2>2
    <3> QED
      BY <1>1, <1>3, <1>4, <2>2, <3>1
  <2> QED
    BY <1>2, <2>1, <2>2
<1>6. Contents' = a
  BY <1>3, <1>4, <1>5, SeqEqual
<1>7. Len(Contents) < NUM
  BY <1>2, <1>3
<1> QED
  BY <1>1, <1>6, <1>7 DEF Stream!Put, a

\* The consumer's printf takes the front of the contents.
LEMMA ReadIsTake ==
    ASSUME IInv, IInv', Read PROVE Stream!Take
<1> USE QueueAssumption
<1>1. /\ Written' = Written - 1 /\ item' = item /\ shown' = queue[c] /\ Written > 0
      /\ next' = IF next + 1 = WRAP THEN 0 ELSE next + 1
      /\ next \in Items /\ First = c /\ c \in Slots
  BY DEF Read, Written, First, pvars, IInv, TypeOK
<1>2. /\ Contents \in Seq(Items) /\ Len(Contents) = Written /\ Written \in 0 .. NUM
      /\ \A j \in 1 .. Written : Contents[j] = ItemFrom(next, j - 1)
  BY ContentsAre DEF ContentsInv
<1>3. /\ Contents' \in Seq(Items) /\ Len(Contents') = Written - 1
      /\ \A j \in 1 .. Written - 1 : Contents'[j] = ItemFrom(next, j)
  <2>0. ContentsInv'
    BY ContentsAre, PTL
  <2>1. /\ Contents' \in Seq(Items) /\ Len(Contents') = Written' /\ Written' \in 0 .. NUM
        /\ \A j \in 1 .. Written' : Contents'[j] = ItemFrom(next, j - 1)'
    BY <2>0 DEF ContentsInv
  <2>2. \A j \in 1 .. NUM - 1 : ItemFrom(next, j - 1)' = ItemFrom(next, j)
    BY <1>1 DEF ItemFrom, Items
  <2>3. \A j \in 1 .. Written - 1 : j \in 1 .. NUM - 1
    BY <1>2
  <2> QED
    BY <1>1, <2>1, <2>2, <2>3
<1>4. Contents # << >> /\ Head(Contents) = queue[c]
  <2>1. Contents[1] = queue[SlotFrom(First, 0)]
    BY <1>1, <1>2 DEF Contents
  <2>2. SlotFrom(First, 0) = c
    BY <1>1 DEF SlotFrom, Slots
  <2> QED
    BY <1>1, <1>2, <2>1, <2>2
<1> DEFINE a == Tail(Contents)
<1>5. /\ a \in Seq(Items) /\ Len(a) = Written - 1
      /\ \A j \in 1 .. Len(a) : a[j] = Contents[j + 1]
  BY <1>2, <1>4, HeadTailProperties
<1> HIDE DEF a, Written, Contents
<1>6. ASSUME NEW j \in 1 .. Len(Contents') PROVE Contents'[j] = a[j]
  <2>1. j \in 1 .. Written - 1 /\ j + 1 \in 1 .. Written /\ j + 1 - 1 = j
    BY <1>2, <1>3
  <2>2. Contents[j + 1] = ItemFrom(next, j)
    BY <1>2, <2>1
  <2> QED
    BY <1>3, <1>5, <2>1, <2>2
<1>7. Contents' = a
  BY <1>3, <1>5, <1>6, SeqEqual
<1> QED
  BY <1>1, <1>4, <1>7 DEF Stream!Take, a

\* Any other step leaves the contents alone.
LEMMA OthersKeepContents ==
    ASSUME IInv, IInv', [Next]_vars, ~Write, ~Read PROVE UNCHANGED Stream!vars
<1>1. Written' = Written /\ UNCHANGED <<next, item, shown>>
  <2> USE DEF Written, pvars, cvars
  <2>0. product_number \in Nat
    BY QueueAssumption DEF IInv, TypeOK
  <2>1. CASE WaitBlank
    BY <2>0, <2>1 DEF WaitBlank
  <2>2. CASE PostProduct
    BY <2>0, <2>2 DEF PostProduct
  <2>3. CASE WaitProduct
    BY <2>0, <2>3 DEF WaitProduct
  <2>4. CASE Clear \/ PostBlank
    BY <2>0, <2>4 DEF Clear, PostBlank
  <2>5. CASE UNCHANGED vars
    BY <2>5 DEF vars
  <2> QED
    BY <2>1, <2>2, <2>3, <2>4, <2>5 DEF Next, Producer, Consumer
<1>2. Contents = [j \in 1 .. Written |-> ItemFrom(next, j - 1)]
  BY ContentsAre DEF ContentsInv
<1>3. Contents' = [j \in 1 .. Written' |-> ItemFrom(next, j - 1)']
  <2>1. ContentsInv'
    BY ContentsAre, PTL
  <2> QED
    BY <2>1 DEF ContentsInv
<1>4. \A j : ItemFrom(next, j - 1)' = ItemFrom(next, j - 1)
  BY <1>1 DEF ItemFrom
<1>5. Contents' = Contents
  BY <1>1, <1>2, <1>3, <1>4
<1> QED
  BY <1>1, <1>5 DEF Stream!vars

\* The array without a lock implements the endless first-in first-out stream, for
\* every number of slots and of items.
THEOREM Refinement == Spec => ImplementsStream
<1>1. Init => Stream!Init
  <2> SUFFICES ASSUME Init PROVE Stream!Init
    OBVIOUS
  <2>1. Written = 0
    BY DEF Init, Written
  <2>2. Contents = << >>
    BY <2>1 DEF Contents
  <2> QED
    BY <2>2 DEF Init, Stream!Init
<1>2. IInv /\ IInv' /\ [Next]_vars => [Stream!Next]_Stream!vars
  <2> SUFFICES ASSUME IInv, IInv', [Next]_vars
               PROVE  Stream!Next \/ UNCHANGED Stream!vars
    OBVIOUS
  <2>1. CASE Write
    BY <2>1, WriteIsPut DEF Stream!Next
  <2>2. CASE Read
    BY <2>2, ReadIsTake DEF Stream!Next
  <2>3. CASE ~Write /\ ~Read
    BY <2>3, OthersKeepContents
  <2> QED
    BY <2>1, <2>2, <2>3
<1> QED
  BY <1>1, <1>2, Inductive, PTL DEF Spec, ImplementsStream, Stream!Spec
=============================================================================
