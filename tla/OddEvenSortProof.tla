--------------------------- MODULE OddEvenSortProof ---------------------------
(* The parallel odd-even sort stops only on a sorted array, for every length  *)
(* and every team of threads, in spite of the race on changes.                *)
EXTENDS OddEvenSort, TLAPS

USE SortAssumption

\* Two iterations of one loop touch different elements; every pair belongs to
\* one of the loops.
LEMMA Pairs ==
    /\ \A i \in 0 .. N - 2 : i \in Index /\ i + 1 \in Index /\ i \in Int
    /\ EvenPairs \subseteq 0 .. N - 2 /\ OddPairs \subseteq 0 .. N - 2
    /\ \A i, j \in EvenPairs : i # j => i # j + 1 /\ j # i + 1
    /\ \A i, j \in OddPairs : i # j => i # j + 1 /\ j # i + 1
    /\ EvenPairs \cup OddPairs = 0 .. N - 2
    /\ EvenPairs \cap OddPairs = {}
<1>1. \A i \in 0 .. N - 2 : i \in Index /\ i + 1 \in Index /\ i \in Int
  BY DEF Index
<1>2. /\ EvenPairs \subseteq 0 .. N - 2 /\ OddPairs \subseteq 0 .. N - 2
      /\ EvenPairs \cap OddPairs = {}
  BY DEF EvenPairs, OddPairs
<1>3. \A i \in 0 .. N - 2 : i % 2 \in {0, 1}
  OBVIOUS
<1>4. EvenPairs \cup OddPairs = 0 .. N - 2
  BY <1>3 DEF EvenPairs, OddPairs
<1>5. \A i \in Nat : (i + 1) % 2 # i % 2
  OBVIOUS
<1>6. \A i, j \in EvenPairs : i # j => i # j + 1 /\ j # i + 1
  BY <1>5 DEF EvenPairs
<1>7. \A i, j \in OddPairs : i # j => i # j + 1 /\ j # i + 1
  BY <1>5 DEF OddPairs
<1> QED
  BY <1>1, <1>2, <1>4, <1>6, <1>7

\* Type correctness, one step per action.
LEMMA TypeStep ==
    ASSUME TypeOK, Next PROVE TypeOK'
<1> USE DEF TypeOK
<1>1. CASE StartRegion
  BY <1>1 DEF StartRegion
<1>2. CASE Finish
  BY <1>2 DEF Finish
<1>3. CASE SecondLoop
  BY <1>3, Pairs DEF SecondLoop
<1>4. CASE EndRegion
  BY <1>4 DEF EndRegion
<1>5. ASSUME NEW t \in Threads, Reset(t) PROVE TypeOK'
  <2>1. {i \in EvenPairs : owner[i] = t} \in SUBSET (0 .. N - 2)
    BY Pairs
  <2> QED
    BY <1>5, <2>1 DEF Reset
<1>6. ASSUME NEW t \in Threads, Compare(t) PROVE TypeOK'
  <2>1. PICK i \in todo[t] :
           /\ todo' = [todo EXCEPT ![t] = @ \ {i}]
           /\ \/ /\ x' = Exchange(i)
                 /\ private' = [private EXCEPT ![t] = @ + 1]
              \/ UNCHANGED <<x, private>>
    BY <1>6 DEF Compare
  <2>2. i \in Index /\ i + 1 \in Index
    BY Pairs
  <2>3. x' \in [Index -> Int]
    BY <2>1, <2>2 DEF Exchange
  <2>4. todo' \in [Threads -> SUBSET (0 .. N - 2)]
    BY <2>1
  <2>5. private' \in [Threads -> Nat]
    BY <2>1
  <2> QED
    BY <1>6, <2>3, <2>4, <2>5 DEF Compare
<1>7. ASSUME NEW t \in Threads, Combine(t) PROVE TypeOK'
  BY <1>7 DEF Combine
<1> QED
  BY <1>1, <1>2, <1>3, <1>4, <1>5, <1>6, <1>7 DEF Next, MasterStep, ThreadStep

\* The phases of the region, one step per action.
LEMMA PhaseStep ==
    ASSUME TypeOK, PhaseInv, Next PROVE PhaseInv'
<1> USE DEF TypeOK, PhaseInv
<1>1. CASE StartRegion
  BY <1>1 DEF StartRegion
<1>2. CASE Finish
  BY <1>2 DEF Finish
<1>3. CASE SecondLoop
  BY <1>3 DEF SecondLoop
<1>4. CASE EndRegion
  BY <1>4 DEF EndRegion
<1>5. ASSUME NEW t \in Threads, Reset(t) PROVE PhaseInv'
  BY <1>5 DEF Reset
<1>6. ASSUME NEW t \in Threads, Compare(t) PROVE PhaseInv'
  BY <1>6 DEF Compare
<1>7. ASSUME NEW t \in Threads, Combine(t) PROVE PhaseInv'
  BY <1>7 DEF Combine
<1> QED
  BY <1>1, <1>2, <1>3, <1>4, <1>5, <1>6, <1>7 DEF Next, MasterStep, ThreadStep

\* After an iteration its pair is in order, and so is every pair of the same
\* loop that was.
LEMMA CompareOrders ==
    ASSUME TypeOK, NEW P \in {EvenPairs, OddPairs}, NEW i \in P,
           \/ x[i] > x[i + 1] /\ x' = Exchange(i)
           \/ ~(x[i] > x[i + 1]) /\ x' = x
    PROVE  Ordered(i)' /\ \A j \in P : j # i => (Ordered(j)' <=> Ordered(j))
<1>1. /\ i \in Index /\ i + 1 \in Index /\ i \in Int /\ x \in [Index -> Int]
      /\ \A j \in P : /\ j \in Index /\ j + 1 \in Index /\ j \in Int
                      /\ j # i => j # i + 1 /\ i # j + 1
  BY Pairs DEF TypeOK
<1>2. CASE ~(x[i] > x[i + 1]) /\ x' = x
  BY <1>1, <1>2 DEF Ordered
<1>3. CASE x[i] > x[i + 1] /\ x' = Exchange(i)
  <2>1. x'[i] = x[i + 1] /\ x'[i + 1] = x[i]
    BY <1>1, <1>3 DEF Exchange
  <2>2. ASSUME NEW j \in P, j # i PROVE x'[j] = x[j] /\ x'[j + 1] = x[j + 1]
    BY <1>1, <1>3, <2>2 DEF Exchange
  <2> QED
    BY <1>1, <1>3, <2>1, <2>2 DEF Ordered
<1> QED
  BY <1>2, <1>3

\* The first loop, one step per action.
LEMMA EvenStep ==
    ASSUME TypeOK, PhaseInv, EvenInv, Next PROVE EvenInv'
<1> USE DEF TypeOK, EvenInv
<1>1. CASE StartRegion
  BY <1>1 DEF StartRegion
<1>2. CASE Finish
  BY <1>2 DEF Finish, Ordered
<1>3. CASE SecondLoop
  BY <1>3 DEF SecondLoop
<1>4. CASE EndRegion
  BY <1>4 DEF EndRegion
<1>5. ASSUME NEW t \in Threads, Reset(t) PROVE EvenInv'
  <2>1. /\ x' = x /\ owner' = owner
        /\ pc' = [pc EXCEPT ![t] = "even"]
        /\ todo' = [todo EXCEPT ![t] = {i \in EvenPairs : owner[i] = t}]
    BY <1>5 DEF Reset
  <2>2. ASSUME NEW u \in Threads
        PROVE  /\ pc'[u] = "even" => todo'[u] \subseteq EvenPairs
               /\ pc'[u] = "barrier1" => todo'[u] = {}
               /\ pc'[u] \in {"even", "barrier1"} =>
                     \A i \in EvenPairs :
                         owner'[i] = u /\ i \notin todo'[u] => Ordered(i)'
    <3>1. CASE u = t
      BY <2>1, <3>1
    <3>2. CASE u # t
      BY <2>1, <3>2 DEF Ordered
    <3> QED
      BY <3>1, <3>2
  <2> QED
    BY <2>2
<1>6. ASSUME NEW t \in Threads, Compare(t) PROVE EvenInv'
  <2>1. PICK i \in todo[t] :
           /\ todo' = [todo EXCEPT ![t] = @ \ {i}]
           /\ \/ x[i] > x[i + 1] /\ x' = Exchange(i)
              \/ ~(x[i] > x[i + 1]) /\ x' = x
    BY <1>6 DEF Compare
  <2>2. pc' = pc /\ owner' = owner
    BY <1>6 DEF Compare
  <2>3. CASE pc[t] = "even"
    <3>1. i \in EvenPairs
      BY <2>3
    <3>2. Ordered(i)' /\ \A j \in EvenPairs : j # i => (Ordered(j)' <=> Ordered(j))
      BY <2>1, <3>1, CompareOrders
    <3>3. ASSUME NEW u \in Threads
          PROVE  /\ pc'[u] = "even" => todo'[u] \subseteq EvenPairs
                 /\ pc'[u] = "barrier1" => todo'[u] = {}
                 /\ pc'[u] \in {"even", "barrier1"} =>
                       \A j \in EvenPairs :
                           owner'[j] = u /\ j \notin todo'[u] => Ordered(j)'
      <4>1. CASE u = t
        BY <2>1, <2>2, <2>3, <3>2, <4>1
      <4>2. CASE u # t
        BY <2>1, <2>2, <3>2, <4>2
      <4> QED
        BY <4>1, <4>2
    <3> QED
      BY <3>3
  <2>4. CASE pc[t] = "odd"
    <3>1. \A u \in Threads : pc[u] \in {"odd", "barrier2"}
      BY <2>4 DEF PhaseInv
    <3> QED
      BY <2>2, <3>1
  <2> QED
    BY <1>6, <2>3, <2>4 DEF Compare
<1>7. ASSUME NEW t \in Threads, Combine(t) PROVE EvenInv'
  BY <1>7 DEF Combine, Ordered
<1> QED
  BY <1>1, <1>2, <1>3, <1>4, <1>5, <1>6, <1>7 DEF Next, MasterStep, ThreadStep

\* Threads keep to their own iterations, one step per action.
LEMMA WorkStep ==
    ASSUME TypeOK, WorkInv, Next PROVE WorkInv'
<1> USE DEF TypeOK, WorkInv
<1>1. CASE StartRegion \/ Finish \/ EndRegion
  BY <1>1 DEF StartRegion, Finish, EndRegion
<1>2. CASE SecondLoop
  BY <1>2 DEF SecondLoop
<1>3. ASSUME NEW t \in Threads, Reset(t) PROVE WorkInv'
  BY <1>3 DEF Reset
<1>4. ASSUME NEW t \in Threads, Compare(t) PROVE WorkInv'
  <2>1. PICK i \in todo[t] : todo' = [todo EXCEPT ![t] = @ \ {i}]
    BY <1>4 DEF Compare
  <2>2. pc' = pc /\ owner' = owner
    BY <1>4 DEF Compare
  <2> QED
    BY <2>1, <2>2
<1>5. ASSUME NEW t \in Threads, Combine(t) PROVE WorkInv'
  BY <1>5 DEF Combine
<1> QED
  BY <1>1, <1>2, <1>3, <1>4, <1>5 DEF Next, MasterStep, ThreadStep

\* The second loop, one step per action.
LEMMA OddStep ==
    ASSUME TypeOK, PhaseInv, EvenInv, WorkInv, OddInv, Next PROVE OddInv'
<1> USE DEF TypeOK
<1>1. CASE StartRegion
  <2>1. \A t \in Threads : pc'[t] = "reset"
    BY <1>1 DEF StartRegion
  <2> QED
    BY <1>1, <2>1 DEF StartRegion, OddInv, Quiet
<1>2. CASE Finish
  BY <1>2 DEF Finish, OddInv, Quiet, Ordered
<1>3. CASE SecondLoop
  <2>1. /\ x' = x /\ owner' = owner /\ mpc' = "region"
        /\ \A t \in Threads : /\ pc[t] = "barrier1" /\ pc'[t] = "odd"
                              /\ todo'[t] = {i \in OddPairs : owner[i] = t}
    BY <1>3 DEF SecondLoop
  <2>2. \A i \in EvenPairs : Ordered(i)
    BY <2>1, Pairs DEF EvenInv
  <2>3. \A i \in OddPairs : i \in todo'[owner'[i]]
    BY <2>1, Pairs
  <2> QED
    BY <2>1, <2>2, <2>3 DEF OddInv, Ordered
<1>4. CASE EndRegion
  <2>1. /\ x' = x /\ owner' = owner /\ changes' = changes /\ todo' = todo
        /\ mpc' = "while"
        /\ \A t \in Threads : pc[t] = "barrier2" /\ pc'[t] = "out"
    BY <1>4 DEF EndRegion
  <2>2. ~Quiet'
    BY <2>1 DEF Quiet
  <2>3. changes = 0 => \A i \in EvenPairs \cup OddPairs : Ordered(i)
    <3>1. \A i \in OddPairs : i \notin todo[owner[i]]
      BY <2>1, Pairs DEF WorkInv
    <3> QED
      BY <2>1, <3>1 DEF OddInv, Quiet
  <2>4. changes' = 0 => \A i \in 0 .. N - 2 : Ordered(i)'
    BY <2>1, <2>3, Pairs DEF Ordered
  <2> QED
    BY <2>1, <2>2, <2>4 DEF OddInv
<1>5. ASSUME NEW t \in Threads, Reset(t) PROVE OddInv'
  <2>1. mpc' = "region" /\ pc'[t] = "even"
    BY <1>5 DEF Reset, PhaseInv
  <2> QED
    BY <2>1 DEF OddInv, Quiet
<1>6. ASSUME NEW t \in Threads, Compare(t) PROVE OddInv'
  <2>1. PICK i \in todo[t] :
           /\ todo' = [todo EXCEPT ![t] = @ \ {i}]
           /\ \/ /\ x[i] > x[i + 1] /\ x' = Exchange(i)
                 /\ private' = [private EXCEPT ![t] = @ + 1]
              \/ ~(x[i] > x[i + 1]) /\ x' = x /\ private' = private
    BY <1>6 DEF Compare
  <2>2. /\ pc' = pc /\ owner' = owner /\ changes' = changes
        /\ mpc' = mpc /\ mpc = "region"
    BY <1>6 DEF Compare, PhaseInv
  <2>3. CASE pc[t] = "even"
    BY <2>2, <2>3 DEF OddInv, Quiet
  <2>4. CASE pc[t] = "odd"
    <3>1. i \in OddPairs /\ owner[i] = t
      BY <2>4 DEF WorkInv
    <3>2. CASE x[i] > x[i + 1]
      <4>1. private'[t] # 0
        BY <2>1, <3>2
      <4> QED
        BY <2>2, <2>4, <4>1 DEF OddInv, Quiet
    <3>3. CASE ~(x[i] > x[i + 1])
      <4>1. x' = x /\ private' = private
        BY <2>1, <3>3
      <4>2. Ordered(i)
        BY <3>1, <3>3, Pairs DEF Ordered
      <4>3. \A j \in OddPairs : j \notin todo'[owner'[j]] =>
                j = i \/ j \notin todo[owner[j]]
        BY <2>1, <2>2, Pairs
      <4> QED
        BY <2>2, <4>1, <4>2, <4>3 DEF OddInv, Quiet, Ordered
    <3> QED
      BY <3>2, <3>3
  <2> QED
    BY <1>6, <2>3, <2>4 DEF Compare
<1>7. ASSUME NEW t \in Threads, Combine(t) PROVE OddInv'
  <2>1. /\ x' = x /\ owner' = owner /\ todo' = todo /\ private' = private
        /\ changes' = changes + private[t] /\ mpc' = mpc /\ mpc = "region"
        /\ pc' = [pc EXCEPT ![t] = IF @ = "even" THEN "barrier1" ELSE "barrier2"]
        /\ pc[t] \in {"even", "odd"}
    BY <1>7 DEF Combine, PhaseInv
  <2>2. changes' = 0 => changes = 0 /\ private[t] = 0
    BY <2>1
  <2>3. Quiet' => Quiet
    BY <2>1, <2>2 DEF Quiet
  <2> QED
    BY <2>1, <2>3 DEF OddInv, Ordered
<1> QED
  BY <1>1, <1>2, <1>3, <1>4, <1>5, <1>6, <1>7 DEF Next, MasterStep, ThreadStep

\* The invariant behind the sort, for every length of the array and every team:
\* who works on which pairs, and which of them are in order.
THEOREM Inductive == Spec => []IInv
<1>1. Init => IInv
  <2> SUFFICES ASSUME Init PROVE IInv
    OBVIOUS
  <2> USE DEF Init
  <2>1. TypeOK
    BY DEF TypeOK, Index
  <2>2. PhaseInv /\ EvenInv /\ WorkInv
    BY DEF PhaseInv, EvenInv, WorkInv
  <2>3. OddInv
    BY DEF OddInv, Quiet
  <2> QED
    BY <2>1, <2>2, <2>3 DEF IInv
<1>2. IInv /\ [Next]_vars => IInv'
  <2>1. IInv /\ Next => IInv'
    BY TypeStep, PhaseStep, EvenStep, WorkStep, OddStep DEF IInv
  <2>2. IInv /\ UNCHANGED vars => IInv'
    BY DEF IInv, vars, TypeOK, PhaseInv, EvenInv, WorkInv, OddInv, Quiet,
           Ordered
  <2> QED
    BY <2>1, <2>2
<1> QED
  BY <1>1, <1>2, PTL DEF Spec

\* The program leaves "while(changes)" only when the array is sorted: what a
\* late "changes = 0" erases belongs to the first loop, and a second loop
\* without exchanges after the first one means that every pair is in order.
THEOREM SortedAtEndHolds == Spec => []SortedAtEnd
<1>1. IInv => SortedAtEnd
  BY DEF IInv, OddInv, SortedAtEnd
<1> QED
  BY <1>1, Inductive, PTL

\* Exchanging two elements loses none and makes none up.
LEMMA ExchangeKeeps ==
    ASSUME NEW f \in [Index -> Int], NEW g, NEW i \in Index, NEW j \in Index,
           g = [f EXCEPT ![i] = f[j], ![j] = f[i]]
    PROVE  {g[k] : k \in Index} = {f[k] : k \in Index}
<1>1. ASSUME NEW k \in Index PROVE \E l \in Index : g[l] = f[k]
  <2>1. CASE k = i
    BY <2>1
  <2>2. CASE k = j
    BY <2>2
  <2>3. CASE k # i /\ k # j
    BY <2>3
  <2> QED
    BY <2>1, <2>2, <2>3
<1>2. ASSUME NEW k \in Index PROVE \E l \in Index : g[k] = f[l]
  OBVIOUS
<1>3. {g[k] : k \in Index} \subseteq {f[k] : k \in Index}
  BY <1>2
<1>4. {f[k] : k \in Index} \subseteq {g[k] : k \in Index}
  <2> SUFFICES ASSUME NEW k \in Index PROVE f[k] \in {g[l] : l \in Index}
    OBVIOUS
  <2>1. PICK l \in Index : g[l] = f[k]
    BY <1>1
  <2> QED
    BY <2>1
<1> QED
  BY <1>3, <1>4

\* The array holds the numbers it was filled with, whatever pairs the threads
\* exchange and in whatever order.
THEOREM PermutationHolds == Spec => []Permutation
<1>1. Init => Permutation
  <2> SUFFICES ASSUME Init PROVE Permutation
    OBVIOUS
  <2>1. ASSUME NEW v \in 1 .. N PROVE N - v \in Index /\ x[N - v] = v
    BY SortAssumption DEF Init, Index
  <2>2. ASSUME NEW i \in Index PROVE x[i] \in 1 .. N
    BY SortAssumption DEF Init, Index
  <2> QED
    BY <2>1, <2>2 DEF Permutation
<1>2. IInv /\ Permutation /\ [Next]_vars => Permutation'
  <2> SUFFICES ASSUME IInv, Permutation, [Next]_vars PROVE Permutation'
    OBVIOUS
  <2>1. ASSUME NEW t \in Threads, Compare(t) PROVE Permutation'
    <3>1. PICK i \in todo[t] : x' = x \/ x' = Exchange(i)
      BY <2>1 DEF Compare
    <3>2. i \in Index /\ i + 1 \in Index
      BY SortAssumption DEF IInv, TypeOK, Index
    <3>3. x \in [Index -> Int]
      BY DEF IInv, TypeOK
    <3>4. {x'[k] : k \in Index} = {x[k] : k \in Index}
      BY <3>1, <3>2, <3>3, ExchangeKeeps DEF Exchange
    <3> QED
      BY <3>4 DEF Permutation
  <2>2. ASSUME x' = x PROVE Permutation'
    BY <2>2 DEF Permutation
  <2> QED
    BY <2>1, <2>2 DEF Next, MasterStep, ThreadStep, StartRegion, Finish,
                      SecondLoop, EndRegion, Reset, Combine, vars
<1> QED
  BY <1>1, <1>2, Inductive, PTL DEF Spec
=============================================================================
