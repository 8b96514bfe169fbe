-------------------------- MODULE InnerProductProof --------------------------
(***************************************************************************)
(* The block reduction of inner_product1.cu, for every grid: the sums in   *)
(* shared memory, and the result of the device unless block 0 has loaded a *)
(* sum for a product.                                                      *)
(*                                                                         *)
(* Sums are recursive functions.  What they compute is shown by induction  *)
(* in the form "a set with 0 and with the successor of each of its numbers *)
(* has all numbers", for the set of those numbers the claim holds for.     *)
(***************************************************************************)
EXTENDS InnerProduct, TLAPS, WellFoundedInduction

-----------------------------------------------------------------------------
(* Induction and sums. *)

LEMMA Induction ==
    ASSUME NEW T, 0 \in T, \A n \in Nat : n \in T => n + 1 \in T
    PROVE  \A n \in Nat : n \in T
<1> DEFINE R == OpToRel(<, Nat)
           U == Nat \ T
<1>1. SUFFICES ASSUME U # {} PROVE FALSE
  OBVIOUS
<1>2. IsWellFoundedOn(R, Nat)
  BY NatLessThanWellFounded
<1>3. PICK x \in U : \A y \in U : ~ (<<y, x>> \in R)
  <2> HIDE DEF R
  <2> QED
    BY <1>1, <1>2, WFMin
<1>4. x # 0 /\ x - 1 \in Nat /\ x - 1 < x
  OBVIOUS
<1>5. <<x - 1, x>> \in R
  BY <1>4 DEF OpToRel
<1>6. x - 1 \in U
  BY <1>4
<1> QED
  BY <1>3, <1>5, <1>6

\* s is the function of the partial sums of f.
IsSum(s, f, n) == s = [i \in 0 .. n |-> IF i = 0 THEN 0 ELSE s[i - 1] + f[i - 1]]

LEMMA SumExists ==
    ASSUME NEW f, NEW n \in Nat
    PROVE  \E s : IsSum(s, f, n)
<1> DEFINE T == {m \in Nat : \E s : IsSum(s, f, m)}
<1>1. 0 \in T
  <2>1. IsSum([i \in 0 .. 0 |-> 0], f, 0)
    BY DEF IsSum
  <2> QED
    BY <2>1
<1>2. ASSUME NEW m \in Nat, m \in T PROVE m + 1 \in T
  <2>1. PICK s : IsSum(s, f, m)
    BY <1>2
  <2> DEFINE r == [i \in 0 .. m + 1 |-> IF i = m + 1 THEN s[m] + f[m] ELSE s[i]]
  <2>2. ASSUME NEW i \in 0 .. m + 1
        PROVE  r[i] = IF i = 0 THEN 0 ELSE r[i - 1] + f[i - 1]
    <3>1. CASE i = 0
      BY <2>1, <3>1 DEF IsSum
    <3>2. CASE i = m + 1
      <4>1. r[i] = s[m] + f[m] /\ i - 1 = m /\ r[m] = s[m] /\ i # 0
        BY <3>2
      <4> QED
        BY <4>1
    <3>3. CASE i \in 1 .. m
      <4>1. r[i] = s[i] /\ r[i - 1] = s[i - 1]
        BY <3>3
      <4>2. s[i] = s[i - 1] + f[i - 1]
        BY <2>1, <3>3 DEF IsSum
      <4> QED
        BY <3>3, <4>1, <4>2
    <3> QED
      BY <3>1, <3>2, <3>3
  <2>3. r = [i \in 0 .. m + 1 |-> r[i]]
    OBVIOUS
  <2> HIDE DEF r
  <2>4. IsSum(r, f, m + 1)
    BY <2>2, <2>3 DEF IsSum
  <2> QED
    BY <2>4
<1> HIDE DEF T
<1>3. \A m \in Nat : m \in T
  BY <1>1, <1>2, Induction
<1> QED
  BY <1>3 DEF T

LEMMA SumUnique ==
    ASSUME NEW f, NEW n \in Nat, NEW m \in Nat, NEW r, NEW s,
           IsSum(r, f, n), IsSum(s, f, m)
    PROVE  \A i \in Nat : i <= n /\ i <= m => r[i] = s[i]
<1> DEFINE T == {i \in Nat : i <= n /\ i <= m => r[i] = s[i]}
<1>1. 0 \in T
  BY DEF IsSum
<1>2. ASSUME NEW i \in Nat, i \in T PROVE i + 1 \in T
  <2> SUFFICES ASSUME i + 1 <= n, i + 1 <= m PROVE r[i + 1] = s[i + 1]
    OBVIOUS
  <2>1. r[i + 1] = r[i + 1 - 1] + f[i + 1 - 1] /\ s[i + 1] = s[i + 1 - 1] + f[i + 1 - 1]
    BY DEF IsSum
  <2>2. i + 1 - 1 = i /\ r[i] = s[i]
    BY <1>2
  <2> QED
    BY <2>1, <2>2
<1> HIDE DEF T
<1>3. \A i \in Nat : i \in T
  BY <1>1, <1>2, Induction
<1> QED
  BY <1>3 DEF T

\* The loop that adds up f, one addition at a time.
LEMMA SumStep ==
    ASSUME NEW f
    PROVE  /\ Sum(f, 0) = 0
           /\ \A n \in Nat : Sum(f, n + 1) = Sum(f, n) + f[n]
<1> DEFINE g(n) == CHOOSE s : IsSum(s, f, n)
<1>1. ASSUME NEW n \in Nat PROVE IsSum(g(n), f, n)
  BY SumExists
<1>2. ASSUME NEW n \in Nat PROVE Sum(f, n) = g(n)[n]
  BY DEF Sum, IsSum
<1> HIDE DEF g
<1>3. Sum(f, 0) = 0
  <2>1. g(0)[0] = 0
    BY <1>1 DEF IsSum
  <2> QED
    BY <1>2, <2>1
<1>4. ASSUME NEW n \in Nat PROVE Sum(f, n + 1) = Sum(f, n) + f[n]
  <2>1. n + 1 \in Nat /\ n + 1 - 1 = n
    OBVIOUS
  <2>2. IsSum(g(n + 1), f, n + 1) /\ IsSum(g(n), f, n)
    BY <1>1, <2>1
  <2>3. g(n + 1)[n] = g(n)[n]
    BY <2>1, <2>2, SumUnique
  <2>4. g(n + 1)[n + 1] = g(n + 1)[n] + f[n]
    <3>1. n + 1 \in 0 .. n + 1 /\ n + 1 # 0
      OBVIOUS
    <3> QED
      BY <2>1, <2>2, <3>1 DEF IsSum
  <2> QED
    BY <1>2, <2>1, <2>3, <2>4
<1> QED
  BY <1>3, <1>4

LEMMA SumType ==
    ASSUME NEW f, NEW N \in Nat, \A i \in 0 .. N - 1 : f[i] \in Nat
    PROVE  Sum(f, N) \in Nat
<1> DEFINE T == {n \in Nat : n <= N => Sum(f, n) \in Nat}
<1>1. 0 \in T
  BY SumStep
<1>2. ASSUME NEW n \in Nat, n \in T PROVE n + 1 \in T
  <2>1. Sum(f, n + 1) = Sum(f, n) + f[n]
    BY SumStep
  <2>2. n + 1 <= N => Sum(f, n) \in Nat /\ f[n] \in Nat
    BY <1>2
  <2> QED
    BY <2>1, <2>2
<1> HIDE DEF T
<1>3. N \in T
  BY <1>1, <1>2, Induction
<1> QED
  BY <1>3 DEF T

\* Addition element by element.
LEMMA SumPlus ==
    ASSUME NEW f, NEW g, NEW h, NEW N \in Nat,
           \A i \in 0 .. N - 1 : f[i] \in Nat /\ g[i] \in Nat /\ h[i] = f[i] + g[i]
    PROVE  Sum(h, N) = Sum(f, N) + Sum(g, N)
<1> DEFINE T == {n \in Nat : n <= N => /\ Sum(f, n) \in Nat /\ Sum(g, n) \in Nat
                                       /\ Sum(h, n) = Sum(f, n) + Sum(g, n)}
<1>1. 0 \in T
  BY SumStep
<1>2. ASSUME NEW n \in Nat, n \in T PROVE n + 1 \in T
  <2>1. /\ Sum(f, n + 1) = Sum(f, n) + f[n] /\ Sum(g, n + 1) = Sum(g, n) + g[n]
        /\ Sum(h, n + 1) = Sum(h, n) + h[n]
    BY SumStep
  <2>2. n + 1 <= N => /\ Sum(f, n) \in Nat /\ Sum(g, n) \in Nat
                      /\ Sum(h, n) = Sum(f, n) + Sum(g, n)
                      /\ f[n] \in Nat /\ g[n] \in Nat /\ h[n] = f[n] + g[n]
    BY <1>2
  <2> QED
    BY <2>1, <2>2
<1> HIDE DEF T
<1>3. N \in T
  BY <1>1, <1>2, Induction
<1> QED
  BY <1>3 DEF T

LEMMA SumConstant ==
    ASSUME NEW f, NEW N \in Nat, NEW c \in Nat, \A i \in 0 .. N - 1 : f[i] = c
    PROVE  Sum(f, N) = N * c
<1> DEFINE T == {n \in Nat : n <= N => Sum(f, n) = n * c}
<1>1. 0 \in T
  <2>1. 0 * c = 0
    OBVIOUS
  <2> QED
    BY <2>1, SumStep
<1>2. ASSUME NEW n \in Nat, n \in T PROVE n + 1 \in T
  <2>1. Sum(f, n + 1) = Sum(f, n) + f[n]
    BY SumStep
  <2>2. n + 1 <= N => Sum(f, n) = n * c /\ f[n] = c
    BY <1>2
  <2>3. (n + 1) * c = n * c + c
    OBVIOUS
  <2> QED
    BY <2>1, <2>2, <2>3
<1> HIDE DEF T
<1>3. N \in T
  BY <1>1, <1>2, Induction
<1> QED
  BY <1>3 DEF T

\* A sum with one term.
LEMMA SumSingle ==
    ASSUME NEW f, NEW N \in Nat, NEW t \in 0 .. N - 1, f[t] \in Nat,
           \A i \in 0 .. N - 1 : i # t => f[i] = 0
    PROVE  Sum(f, N) = f[t]
<1> DEFINE T == {n \in Nat : n <= N => Sum(f, n) = IF t < n THEN f[t] ELSE 0}
<1>1. 0 \in T
  BY SumStep
<1>2. ASSUME NEW n \in Nat, n \in T PROVE n + 1 \in T
  <2>1. Sum(f, n + 1) = Sum(f, n) + f[n]
    BY SumStep
  <2>2. n + 1 <= N => Sum(f, n) = (IF t < n THEN f[t] ELSE 0) /\ (n # t => f[n] = 0)
    BY <1>2
  <2> QED
    BY <2>1, <2>2
<1> HIDE DEF T
<1>3. N \in T
  BY <1>1, <1>2, Induction
<1> QED
  BY <1>3 DEF T

-----------------------------------------------------------------------------
(* The distances. *)

LEMMA Remainder ==
    ASSUME NEW D \in Nat \ {0}, NEW q \in Nat, NEW r \in 0 .. D - 1
    PROVE  (D * q + r) % D = r
<1> DEFINE x == D * q + r
           p == x \div D
           s == x % D
<1>1. x \in Nat
  OBVIOUS
<1>2. p \in Int /\ s \in 0 .. D - 1 /\ x = D * p + s
  BY <1>1
<1>3. D * p + s = D * q + r
  BY <1>2
<1> HIDE DEF x, p, s
<1>4. CASE p = q
  <2>1. D * p = D * q /\ D * q \in Int
    BY <1>4
  <2>2. s = r
    BY <1>2, <1>3, <2>1
  <2> QED
    BY <2>2 DEF s, x
<1>5. CASE p < q
  <2>1. PICK d \in Nat : q = p + 1 + d
    BY <1>2, <1>5, q - p - 1 \in Nat
  <2>2. D * q = D * p + D + D * d /\ D * d \in Nat /\ D * p \in Int
    BY <1>2, <2>1
  <2> QED
    BY <1>2, <1>3, <2>2
<1>6. CASE p > q
  <2>1. PICK d \in Nat : p = q + 1 + d
    BY <1>2, <1>6, p - q - 1 \in Nat
  <2>2. D * p = D * q + D + D * d /\ D * d \in Nat /\ D * q \in Int
    BY <1>2, <2>1
  <2> QED
    BY <1>2, <1>3, <2>2
<1> QED
  BY <1>2, <1>4, <1>5, <1>6

\* The threads that are t modulo D are those that are t or t + D modulo 2 * D.
LEMMA Residues ==
    ASSUME NEW D \in Nat \ {0}, NEW t \in 0 .. D - 1, NEW u \in Nat
    PROVE  u % D = t <=> u % (2 * D) = t \/ u % (2 * D) = t + D
<1> DEFINE E == 2 * D
           q == u \div E
           r == u % E
<1>1. E \in Nat \ {0} /\ q \in Nat /\ r \in 0 .. E - 1 /\ u = E * q + r
  OBVIOUS
<1> HIDE DEF q, r
<1>2. E * q = D * (2 * q) /\ E * q + D = D * (2 * q + 1) /\ 2 * q \in Nat /\ 2 * q + 1 \in Nat
  BY <1>1
<1>3. CASE r < D
  <2>1. u = D * (2 * q) + r /\ r \in 0 .. D - 1
    BY <1>1, <1>2, <1>3
  <2>2. u % D = r
    BY <1>2, <2>1, Remainder
  <2> QED
    BY <1>1, <1>3, <2>2 DEF r
<1>4. CASE r >= D
  <2>1. u = D * (2 * q + 1) + (r - D) /\ r - D \in 0 .. D - 1
    BY <1>1, <1>2, <1>4
  <2>2. u % D = r - D
    BY <1>2, <2>1, Remainder
  <2> QED
    BY <1>1, <1>4, <2>2 DEF r
<1> QED
  BY <1>1, <1>3, <1>4

\* d is the function of the first m distances.
IsDistance(d, m) == d = [k \in 0 .. m |-> IF k = 0 THEN THREADSPERBLOCK ELSE d[k - 1] \div 2]

LEMMA DistanceExists ==
    ASSUME NEW n \in Nat
    PROVE  \E d : IsDistance(d, n)
<1> DEFINE T == {m \in Nat : \E d : IsDistance(d, m)}
<1>1. 0 \in T
  <2>1. IsDistance([i \in 0 .. 0 |-> THREADSPERBLOCK], 0)
    BY DEF IsDistance
  <2> QED
    BY <2>1
<1>2. ASSUME NEW m \in Nat, m \in T PROVE m + 1 \in T
  <2>1. PICK d : IsDistance(d, m)
    BY <1>2
  <2> DEFINE r == [i \in 0 .. m + 1 |-> IF i = m + 1 THEN d[m] \div 2 ELSE d[i]]
  <2>2. ASSUME NEW i \in 0 .. m + 1
        PROVE  r[i] = IF i = 0 THEN THREADSPERBLOCK ELSE r[i - 1] \div 2
    <3>1. CASE i = 0
      BY <2>1, <3>1 DEF IsDistance
    <3>2. CASE i = m + 1
      <4>1. r[i] = d[m] \div 2 /\ i - 1 = m /\ r[m] = d[m] /\ i # 0
        BY <3>2
      <4> QED
        BY <4>1
    <3>3. CASE i \in 1 .. m
      <4>1. r[i] = d[i] /\ r[i - 1] = d[i - 1]
        BY <3>3
      <4>2. d[i] = d[i - 1] \div 2
        BY <2>1, <3>3 DEF IsDistance
      <4> QED
        BY <3>3, <4>1, <4>2
    <3> QED
      BY <3>1, <3>2, <3>3
  <2>3. r = [i \in 0 .. m + 1 |-> r[i]]
    OBVIOUS
  <2> HIDE DEF r
  <2>4. IsDistance(r, m + 1)
    BY <2>2, <2>3 DEF IsDistance
  <2> QED
    BY <2>4
<1> HIDE DEF T
<1>3. \A m \in Nat : m \in T
  BY <1>1, <1>2, Induction
<1> QED
  BY <1>3 DEF T

\* Each distance is half of the one before, down to 1.
LEMMA Distances ==
    /\ Distance[0] = THREADSPERBLOCK /\ Distance[Rounds] = 1
    /\ \A k \in 0 .. Rounds : Distance[k] \in 1 .. THREADSPERBLOCK
    /\ \A k \in 1 .. Rounds : Distance[k - 1] = 2 * Distance[k]
<1> USE GridAssumption
<1>1. IsDistance(Distance, Rounds)
  <2>1. Distance = CHOOSE d : IsDistance(d, Rounds)
    BY DEF Distance, IsDistance
  <2> QED
    BY <2>1, DistanceExists
<1>2. /\ Distance[0] = THREADSPERBLOCK
      /\ \A k \in 1 .. Rounds : Distance[k] = Distance[k - 1] \div 2
  BY <1>1 DEF IsDistance
<1>3. ASSUME NEW k \in 0 .. Rounds PROVE Distance[k] \in 0 .. THREADSPERBLOCK
  <2> DEFINE T == {m \in Nat : m <= Rounds => Distance[m] \in 0 .. THREADSPERBLOCK}
  <2>1. 0 \in T
    BY <1>2
  <2>2. ASSUME NEW m \in Nat, m \in T PROVE m + 1 \in T
    <3> SUFFICES ASSUME m + 1 <= Rounds PROVE Distance[m + 1] \in 0 .. THREADSPERBLOCK
      OBVIOUS
    <3>1. Distance[m] \in 0 .. THREADSPERBLOCK
      BY <2>2
    <3>2. m + 1 \in 1 .. Rounds /\ m + 1 - 1 = m
      OBVIOUS
    <3>3. Distance[m + 1] = Distance[m] \div 2
      BY <1>2, <3>2
    <3> QED
      BY <3>1, <3>3
  <2> HIDE DEF T
  <2>3. k \in T
    BY <2>1, <2>2, Induction
  <2> QED
    BY <2>3 DEF T
<1>4. ASSUME NEW k \in 1 .. Rounds PROVE Distance[k - 1] = 2 * Distance[k]
  <2>1. Distance[k] = Distance[k - 1] \div 2 /\ Distance[k - 1] % 2 = 0 /\ Distance[k - 1] \in Nat
    BY <1>2, <1>3
  <2> QED
    BY <2>1
<1>5. ASSUME NEW k \in 0 .. Rounds PROVE Distance[k] # 0
  <2> DEFINE T == {m \in Nat : m <= Rounds => Distance[Rounds - m] # 0}
  <2>1. 0 \in T
    OBVIOUS
  <2>2. ASSUME NEW m \in Nat, m \in T PROVE m + 1 \in T
    <3> SUFFICES ASSUME m + 1 <= Rounds PROVE Distance[Rounds - (m + 1)] # 0
      OBVIOUS
    <3>1. Distance[Rounds - m] # 0
      BY <2>2
    <3>2. Rounds - m \in 1 .. Rounds /\ Rounds - m - 1 = Rounds - (m + 1)
      OBVIOUS
    <3>3. Distance[Rounds - (m + 1)] = 2 * Distance[Rounds - m] /\ Distance[Rounds - m] \in Nat
      BY <1>3, <1>4, <3>2
    <3> QED
      BY <3>1, <3>3
  <2> HIDE DEF T
  <2>3. Rounds - k \in T
    BY <2>1, <2>2, Induction
  <2> QED
    BY <2>3 DEF T
<1> QED
  BY <1>2, <1>3, <1>4, <1>5

-----------------------------------------------------------------------------
(* The sums of strided elements. *)

Loads == [Threads -> Nat]

LEMMA StridedFirst ==
    ASSUME NEW load \in Loads, NEW t \in Threads
    PROVE  StridedSum(load, t, 0) = load[t]
<1> USE GridAssumption, Distances DEF Threads, Loads
<1> DEFINE f == [u \in Threads |-> IF u % Distance[0] = t THEN load[u] ELSE 0]
<1>1. ASSUME NEW u \in Threads PROVE u % THREADSPERBLOCK = u
  <2>1. THREADSPERBLOCK \in Nat \ {0} /\ u \in 0 .. THREADSPERBLOCK - 1
    OBVIOUS
  <2>2. (THREADSPERBLOCK * 0 + u) % THREADSPERBLOCK = u
    BY <2>1, Remainder
  <2> QED
    BY <2>1, <2>2
<1>2. f[t] = load[t] /\ \A u \in 0 .. THREADSPERBLOCK - 1 : u # t => f[u] = 0
  BY <1>1
<1>3. f[t] \in Nat
  BY <1>2
<1> HIDE DEF f
<1>4. Sum(f, THREADSPERBLOCK) = f[t]
  BY <1>2, <1>3, SumSingle
<1> QED
  BY <1>2, <1>4 DEF f, StridedSum

\* The k-th addition joins the threads at distance Distance[k].
LEMMA StridedStep ==
    ASSUME NEW load \in Loads, NEW k \in 1 .. Rounds, NEW t \in 0 .. Distance[k] - 1
    PROVE  StridedSum(load, t, k) = StridedSum(load, t, k - 1) + StridedSum(load, t + Distance[k], k - 1)
<1> USE GridAssumption DEF Threads, Loads
<1> DEFINE D == Distance[k]
           h == [u \in Threads |-> IF u % D = t THEN load[u] ELSE 0]
           f == [u \in Threads |-> IF u % (2 * D) = t THEN load[u] ELSE 0]
           g == [u \in Threads |-> IF u % (2 * D) = t + D THEN load[u] ELSE 0]
<1>1. D \in Nat \ {0} /\ Distance[k - 1] = 2 * D
  <2>1. k \in 0 .. Rounds
    OBVIOUS
  <2>2. Distance[k] \in 1 .. THREADSPERBLOCK /\ Distance[k - 1] = 2 * Distance[k]
    BY <2>1, Distances
  <2> QED
    BY <2>2
<1>2. /\ StridedSum(load, t, k) = Sum(h, THREADSPERBLOCK)
      /\ StridedSum(load, t, k - 1) = Sum(f, THREADSPERBLOCK)
      /\ StridedSum(load, t + Distance[k], k - 1) = Sum(g, THREADSPERBLOCK)
  <2> HIDE GridAssumption DEF Threads
  <2>1. /\ [u \in Threads |-> IF u % Distance[k - 1] = t THEN load[u] ELSE 0] = f
        /\ [u \in Threads |-> IF u % Distance[k - 1] = t + Distance[k] THEN load[u] ELSE 0] = g
    BY <1>1, Zenon
  <2> HIDE DEF f, g
  <2> QED
    BY <2>1, Zenon DEF StridedSum
<1>3. ASSUME NEW u \in 0 .. THREADSPERBLOCK - 1
      PROVE  f[u] \in Nat /\ g[u] \in Nat /\ h[u] = f[u] + g[u]
  <2>1. u % D = t <=> u % (2 * D) = t \/ u % (2 * D) = t + D
    <3>1. t \in 0 .. D - 1 /\ u \in Nat
      OBVIOUS
    <3> HIDE DEF D
    <3> QED
      BY <1>1, <3>1, Residues
  <2>2. t # t + D /\ load[u] \in Nat /\ u \in Threads
    BY <1>1
  <2> QED
    BY <2>1, <2>2
<1> HIDE DEF f, g, h, D
<1>4. Sum(h, THREADSPERBLOCK) = Sum(f, THREADSPERBLOCK) + Sum(g, THREADSPERBLOCK)
  BY <1>3, SumPlus
<1> QED
  BY <1>2, <1>4

\* After the last addition the sum is that of the whole block.
LEMMA StridedLast ==
    ASSUME NEW load, \A u \in Threads : load[u] = 1
    PROVE  StridedSum(load, 0, Rounds) = THREADSPERBLOCK
<1> USE GridAssumption, Distances DEF Threads
<1> DEFINE f == [u \in Threads |-> IF u % Distance[Rounds] = 0 THEN load[u] ELSE 0]
<1>1. \A u \in 0 .. THREADSPERBLOCK - 1 : f[u] = 1
  OBVIOUS
<1> HIDE DEF f
<1>2. Sum(f, THREADSPERBLOCK) = THREADSPERBLOCK * 1
  BY <1>1, SumConstant
<1> QED
  BY <1>2 DEF f, StridedSum

LEMMA StridedType ==
    ASSUME NEW load \in Loads, NEW t, NEW k
    PROVE  StridedSum(load, t, k) \in Nat
<1> USE GridAssumption DEF Threads, Loads
<1> DEFINE f == [u \in Threads |-> IF u % Distance[k] = t THEN load[u] ELSE 0]
<1>1. \A u \in 0 .. THREADSPERBLOCK - 1 : f[u] \in Nat
  OBVIOUS
<1> HIDE DEF f
<1>2. Sum(f, THREADSPERBLOCK) \in Nat
  BY <1>1, SumType
<1> QED
  BY <1>2 DEF f, StridedSum

-----------------------------------------------------------------------------
(* The inductive invariant. *)

TypeInv ==
    /\ vecC \in [0 .. ELEMENT_COUNT - 1 -> Nat]
    /\ vec \in [Blocks -> Loads] /\ loaded \in [Blocks -> Loads]
    /\ passed \in [Blocks -> [Threads -> 0 .. Rounds + 2]]

\* __syncthreads(): behind the first barrier no thread is two steps ahead of another.
BarrierInv ==
    \A b \in Blocks, t, u \in Threads : passed[b][t] >= 2 => passed[b][u] >= passed[b][t] - 1

\* Sums are stored in the first block's part of vecC, one per block, and the other
\* blocks load products.
LoadInv ==
    /\ \A i \in 0 .. ELEMENT_COUNT - 1 : i \notin Blocks => vecC[i] = 1
    /\ \A b \in Blocks \ {0}, t \in Threads : passed[b][t] > 0 => loaded[b][t] = 1

\* What a thread holds after k additions: the sum if it took part in the last one, or
\* the sum of the round before if it was the right half of that addition.
SumInv ==
    \A b \in Blocks, t \in Threads, k \in 0 .. Rounds :
        /\ k + 1 = passed[b][t] /\ t < Distance[k] => vec[b][t] = StridedSum(loaded[b], t, k)
        /\ k > 0 /\ k + 1 = passed[b][t] /\ Distance[k] <= t /\ t < Distance[k - 1] =>
              vec[b][t] = StridedSum(loaded[b], t, k - 1)

StoreInv == \A b \in Blocks : passed[b][0] = Rounds + 2 => vecC[b] = StridedSum(loaded[b], 0, Rounds)

CollectInv == S_gpu # -1 => Finished /\ S_gpu = Sum(vecC, BLOCKSPERGRID)

IInv == TypeInv /\ BarrierInv /\ LoadInv /\ SumInv /\ StoreInv /\ CollectInv

LEMMA Places ==
    ASSUME NEW b \in Blocks, NEW t \in Threads
    PROVE  /\ b * THREADSPERBLOCK + t \in 0 .. ELEMENT_COUNT - 1
           /\ b # 0 => b * THREADSPERBLOCK + t \notin Blocks
           /\ b \in 0 .. ELEMENT_COUNT - 1 /\ 0 \in Threads
<1> USE GridAssumption DEF Blocks, Threads, ELEMENT_COUNT
<1> DEFINE N == THREADSPERBLOCK
           M == BLOCKSPERGRID
<1>1. N \in Nat \ {0} /\ M \in 1 .. N /\ b \in 0 .. M - 1 /\ t \in 0 .. N - 1
  OBVIOUS
<1>2. PICK d \in Nat : M = b + 1 + d
  <2>1. M - (b + 1) \in Nat /\ M = b + 1 + (M - (b + 1))
    BY <1>1
  <2> QED
    BY <2>1
<1>3. M * N = b * N + N + d * N /\ b * N \in Nat /\ d * N \in Nat
  BY <1>1, <1>2
<1>4. ASSUME b # 0 PROVE b * N >= N
  <2>1. PICK e \in Nat : b = e + 1
    BY <1>1, <1>4, b - 1 \in Nat
  <2>2. b * N = e * N + N /\ e * N \in Nat
    BY <1>1, <2>1
  <2> QED
    BY <1>1, <2>2
<1>5. M * N >= N
  BY <1>1, <1>3
<1> QED
  BY <1>1, <1>3, <1>4, <1>5

\* What a step of thread t of block b does to the counters.
LEMMA Passed ==
    ASSUME TypeInv, NEW b \in Blocks, NEW t \in Threads, Pass(b, t), passed[b][t] < Rounds + 2
    PROVE  /\ passed' \in [Blocks -> [Threads -> 0 .. Rounds + 2]]
           /\ passed'[b][t] = passed[b][t] + 1 /\ passed[b][t] \in Nat
           /\ \A c \in Blocks, u \in Threads : c # b \/ u # t => passed'[c][u] = passed[c][u]
           /\ S_gpu = -1 \/ ~CollectInv
  BY GridAssumption DEF TypeInv, Pass, CollectInv, Finished

LEMMA LoadStep ==
    ASSUME IInv, NEW b \in Blocks, NEW t \in Threads, Load(b, t) PROVE IInv'
<1> USE DEF IInv
<1> DEFINE v == vecC[b * THREADSPERBLOCK + t]
<1>1. /\ passed[b][t] = 0 /\ Pass(b, t) /\ vecC' = vecC /\ S_gpu' = S_gpu
      /\ vec' = [vec EXCEPT ![b][t] = v]
      /\ loaded' = [loaded EXCEPT ![b][t] = v]
  BY DEF Load
<1>2. v \in Nat /\ (b # 0 => v = 1)
  BY Places DEF TypeInv, LoadInv
<1> HIDE DEF v
<1>3. /\ passed' \in [Blocks -> [Threads -> 0 .. Rounds + 2]]
      /\ passed'[b][t] = 1
      /\ \A c \in Blocks, u \in Threads : c # b \/ u # t => passed'[c][u] = passed[c][u]
      /\ S_gpu = -1
  BY <1>1, Passed, GridAssumption
<1>4. /\ vec' \in [Blocks -> Loads] /\ loaded' \in [Blocks -> Loads]
      /\ vec'[b][t] = v /\ loaded'[b][t] = v
      /\ \A c \in Blocks, u \in Threads : c # b \/ u # t =>
            vec'[c][u] = vec[c][u] /\ loaded'[c][u] = loaded[c][u]
      /\ \A c \in Blocks : c # b => loaded'[c] = loaded[c]
  BY <1>1, <1>2 DEF TypeInv, Loads
<1>5. ASSUME NEW u \in Threads PROVE passed[b][u] \in {0, 1}
  <2>1. passed[b][u] \in Nat /\ passed[b][t] = 0
    BY <1>1 DEF TypeInv
  <2>2. passed[b][u] >= 2 => passed[b][t] >= passed[b][u] - 1
    BY DEF BarrierInv
  <2> QED
    BY <2>1, <2>2
<1>6. \A u \in Threads : passed'[b][u] \in {0, 1}
  BY <1>3, <1>5
<1>7. TypeInv'
  BY <1>1, <1>3, <1>4 DEF TypeInv
<1>8. BarrierInv'
  BY <1>3, <1>6 DEF BarrierInv
<1>9. LoadInv'
  BY <1>1, <1>2, <1>3, <1>4 DEF LoadInv
<1>10. SumInv'
  <2> SUFFICES ASSUME NEW c \in Blocks, NEW u \in Threads, NEW k \in 0 .. Rounds
               PROVE  /\ k + 1 = passed'[c][u] /\ u < Distance[k] =>
                            vec'[c][u] = StridedSum(loaded'[c], u, k)
                      /\ k > 0 /\ k + 1 = passed'[c][u] /\ Distance[k] <= u /\ u < Distance[k - 1] =>
                            vec'[c][u] = StridedSum(loaded'[c], u, k - 1)
    BY DEF SumInv
  <2>1. CASE c # b
    BY <1>3, <1>4, <2>1 DEF SumInv
  <2>2. CASE c = b
    <3> SUFFICES ASSUME k = 0, passed'[b][u] = 1
                 PROVE  vec'[b][u] = StridedSum(loaded'[b], u, 0)
      BY <1>6, <2>2, GridAssumption
    <3>1. StridedSum(loaded'[b], u, 0) = loaded'[b][u] /\ StridedSum(loaded[b], u, 0) = loaded[b][u]
      BY <1>4, StridedFirst DEF TypeInv
    <3>2. u # t => vec[b][u] = StridedSum(loaded[b], u, 0)
      <4>1. u < Distance[0] /\ 0 \in 0 .. Rounds /\ 0 + 1 = 1
        BY Distances, GridAssumption DEF Threads
      <4>2. u # t => passed[b][u] = 1
        BY <1>3
      <4> QED
        BY <4>1, <4>2 DEF SumInv
    <3> QED
      BY <1>4, <3>1, <3>2
  <2> QED
    BY <2>1, <2>2
<1>11. StoreInv'
  <2> SUFFICES ASSUME NEW c \in Blocks, passed'[c][0] = Rounds + 2
               PROVE  vecC'[c] = StridedSum(loaded'[c], 0, Rounds)
    BY DEF StoreInv
  <2>1. 0 \in Threads
    BY Places
  <2>2. c # b
    BY <1>6, <2>1, GridAssumption
  <2> QED
    BY <1>1, <1>3, <1>4, <2>1, <2>2 DEF StoreInv
<1>12. CollectInv'
  BY <1>1, <1>3 DEF CollectInv
<1> QED
  BY <1>7, <1>8, <1>9, <1>10, <1>11, <1>12

LEMMA AddStep ==
    ASSUME IInv, NEW b \in Blocks, NEW t \in Threads, Add(b, t) PROVE IInv'
<1> USE DEF IInv
<1> DEFINE p == passed[b][t]
           i == Distance[p]
<1>1. /\ p \in 1 .. Rounds /\ Pass(b, t) /\ \A u \in Threads : passed[b][u] >= p
      /\ vecC' = vecC /\ S_gpu' = S_gpu /\ loaded' = loaded
      /\ vec' = IF t < i THEN [vec EXCEPT ![b][t] = @ + vec[b][t + i]] ELSE vec
  BY DEF Add, Synced
<1>2. /\ passed' \in [Blocks -> [Threads -> 0 .. Rounds + 2]]
      /\ passed'[b][t] = p + 1
      /\ \A c \in Blocks, u \in Threads : c # b \/ u # t => passed'[c][u] = passed[c][u]
      /\ S_gpu = -1
  BY <1>1, Passed, GridAssumption
<1>3. /\ i \in Nat \ {0} /\ Distance[p - 1] = 2 * i /\ 2 * i <= THREADSPERBLOCK
      /\ p - 1 \in 0 .. Rounds /\ p \in 0 .. Rounds
  <2>1. p - 1 \in 0 .. Rounds /\ p \in 0 .. Rounds
    BY <1>1, GridAssumption
  <2>2. i \in 1 .. THREADSPERBLOCK /\ Distance[p - 1] = 2 * i /\ Distance[p - 1] \in 1 .. THREADSPERBLOCK
    BY <1>1, <2>1, Distances
  <2> QED
    BY <2>1, <2>2, GridAssumption
<1> HIDE DEF i
<1>4. t < i => /\ t + i \in Threads /\ vec[b][t] = StridedSum(loaded[b], t, p - 1)
               /\ vec[b][t + i] = StridedSum(loaded[b], t + i, p - 1)
  <2> SUFFICES ASSUME t < i
               PROVE  /\ t + i \in Threads /\ vec[b][t] = StridedSum(loaded[b], t, p - 1)
                      /\ vec[b][t + i] = StridedSum(loaded[b], t + i, p - 1)
    OBVIOUS
  <2>1. /\ t + i \in Threads /\ t < Distance[p - 1] /\ i <= t + i /\ t + i < Distance[p - 1]
        /\ p - 1 + 1 = p /\ p \in Nat /\ p > 0
    BY <1>1, <1>3, GridAssumption DEF Threads
  <2>2. vec[b][t] = StridedSum(loaded[b], t, p - 1)
    BY <1>3, <2>1 DEF SumInv
  <2>3. passed[b][t + i] = p \/ passed[b][t + i] = p + 1
    <3>1. passed[b][t + i] \in Nat /\ passed[b][t + i] >= p
      BY <1>1, <2>1 DEF TypeInv
    <3>2. passed[b][t + i] >= 2 => p >= passed[b][t + i] - 1
      BY <2>1 DEF BarrierInv
    <3> QED
      BY <1>1, <3>1, <3>2
  <2>4. vec[b][t + i] = StridedSum(loaded[b], t + i, p - 1)
    <3>1. CASE passed[b][t + i] = p
      BY <1>3, <2>1, <3>1 DEF SumInv
    <3>2. CASE passed[b][t + i] = p + 1
      BY <1>3, <2>1, <3>2 DEF SumInv, i
    <3> QED
      BY <2>3, <3>1, <3>2
  <2> QED
    BY <2>1, <2>2, <2>4
<1>5. /\ vec' \in [Blocks -> Loads]
      /\ t < i => vec'[b][t] = vec[b][t] + vec[b][t + i]
      /\ t >= i => vec'[b][t] = vec[b][t]
      /\ \A c \in Blocks, u \in Threads : c # b \/ u # t => vec'[c][u] = vec[c][u]
  <2>1. CASE t < i
    <3>1. vec[b][t] \in Nat /\ vec[b][t + i] \in Nat
      BY <1>4, <2>1 DEF TypeInv, Loads
    <3>2. vec[b][t] + vec[b][t + i] \in Nat
      BY <3>1
    <3>3. vec' = [vec EXCEPT ![b][t] = vec[b][t] + vec[b][t + i]]
      BY <1>1, <2>1
    <3>4. ~(t >= i)
      BY <1>3, <2>1 DEF Threads
    <3> QED
      BY <2>1, <3>2, <3>3, <3>4 DEF TypeInv, Loads
  <2>2. CASE ~(t < i)
    BY <1>1, <2>2 DEF TypeInv
  <2> QED
    BY <2>1, <2>2
<1>6. TypeInv'
  BY <1>1, <1>2, <1>5 DEF TypeInv
<1>7. BarrierInv'
  <2> SUFFICES ASSUME NEW c \in Blocks, NEW u \in Threads, NEW w \in Threads, passed'[c][u] >= 2
               PROVE  passed'[c][w] >= passed'[c][u] - 1
    BY DEF BarrierInv
  <2>1. passed[c][u] \in Nat /\ passed[c][w] \in Nat /\ (passed[c][u] >= 2 => passed[c][w] >= passed[c][u] - 1)
    BY DEF BarrierInv, TypeInv
  <2>2. passed'[c][w] = passed[c][w] \/ passed'[c][w] = passed[c][w] + 1
    BY <1>2
  <2>3. CASE c = b /\ u = t
    <3>1. passed[b][w] >= p /\ passed'[c][u] = p + 1
      BY <1>1, <1>2, <2>3
    <3> QED
      BY <1>1, <2>1, <2>2, <2>3, <3>1
  <2>4. CASE c # b \/ u # t
    <3>1. passed'[c][u] = passed[c][u]
      BY <1>2, <2>4
    <3> QED
      BY <2>1, <2>2, <3>1
  <2> QED
    BY <2>3, <2>4
<1>8. LoadInv'
  <2>1. \A c \in Blocks, u \in Threads : passed'[c][u] > 0 => passed[c][u] > 0
    BY <1>1, <1>2
  <2> QED
    BY <1>1, <2>1 DEF LoadInv
<1>9. SumInv'
  <2> SUFFICES ASSUME NEW c \in Blocks, NEW u \in Threads, NEW k \in 0 .. Rounds
               PROVE  /\ k + 1 = passed'[c][u] /\ u < Distance[k] =>
                            vec'[c][u] = StridedSum(loaded[c], u, k)
                      /\ k > 0 /\ k + 1 = passed'[c][u] /\ Distance[k] <= u /\ u < Distance[k - 1] =>
                            vec'[c][u] = StridedSum(loaded[c], u, k - 1)
    BY <1>1 DEF SumInv
  <2>1. CASE c # b \/ u # t
    BY <1>2, <1>5, <2>1 DEF SumInv
  <2>2. CASE c = b /\ u = t
    <3>0. k + 1 = passed'[c][u] => k = p
      <4>1. passed'[c][u] = p + 1 /\ p \in Nat /\ k \in Nat
        BY <1>1, <1>2, <2>2
      <4> HIDE DEF p
      <4> QED
        BY <4>1
    <3>1. ASSUME t < i PROVE vec'[b][t] = StridedSum(loaded[b], t, p)
      <4>1. t \in 0 .. Distance[p] - 1 /\ loaded[b] \in Loads
        BY <1>3, <3>1 DEF i, Threads, TypeInv
      <4>2. StridedSum(loaded[b], t, p) = StridedSum(loaded[b], t, p - 1) + StridedSum(loaded[b], t + i, p - 1)
        BY <1>1, <4>1, StridedStep DEF i
      <4> QED
        BY <1>4, <1>5, <3>1, <4>2
    <3>2. ASSUME i <= t, t < Distance[p - 1] PROVE vec'[b][t] = StridedSum(loaded[b], t, p - 1)
      <4>1. vec'[b][t] = vec[b][t]
        BY <1>3, <1>5, <3>2 DEF Threads
      <4>2. p - 1 + 1 = p
        BY <1>1
      <4> QED
        BY <1>3, <3>2, <4>1, <4>2 DEF SumInv
    <3> QED
      BY <2>2, <3>0, <3>1, <3>2 DEF i
  <2> QED
    BY <2>1, <2>2
<1>10. StoreInv'
  <2>1. 0 \in Threads
    BY Places
  <2>2. \A c \in Blocks : passed'[c][0] = Rounds + 2 => passed[c][0] = Rounds + 2
    BY <1>1, <1>2, <2>1, GridAssumption
  <2> QED
    BY <1>1, <2>2 DEF StoreInv
<1>11. CollectInv'
  BY <1>1, <1>2 DEF CollectInv
<1> QED
  BY <1>6, <1>7, <1>8, <1>9, <1>10, <1>11

LEMMA StoreStep ==
    ASSUME IInv, NEW b \in Blocks, NEW t \in Threads, Store(b, t) PROVE IInv'
<1> USE DEF IInv
<1>1. /\ passed[b][t] = Rounds + 1 /\ Pass(b, t) /\ \A u \in Threads : passed[b][u] >= Rounds + 1
      /\ vec' = vec /\ S_gpu' = S_gpu /\ loaded' = loaded
      /\ vecC' = IF t = 0 THEN [vecC EXCEPT ![b] = vec[b][0]] ELSE vecC
  BY DEF Store, Synced
<1>2. /\ passed' \in [Blocks -> [Threads -> 0 .. Rounds + 2]]
      /\ passed'[b][t] = Rounds + 2
      /\ \A c \in Blocks, u \in Threads : c # b \/ u # t => passed'[c][u] = passed[c][u]
      /\ S_gpu = -1
  BY <1>1, Passed, GridAssumption
<1>3. /\ 0 \in Threads /\ vec[b][0] \in Nat
      /\ \A c \in Blocks : c \in 0 .. ELEMENT_COUNT - 1
  BY Places DEF TypeInv, Loads
<1>4. t = 0 => vec[b][0] = StridedSum(loaded[b], 0, Rounds)
  <2>1. 0 < Distance[Rounds] /\ Rounds \in 0 .. Rounds
    BY Distances, GridAssumption
  <2> QED
    BY <1>1, <2>1 DEF SumInv
<1>5. TypeInv'
  BY <1>1, <1>2, <1>3 DEF TypeInv
<1>6. BarrierInv'
  <2> SUFFICES ASSUME NEW c \in Blocks, NEW u \in Threads, NEW w \in Threads, passed'[c][u] >= 2
               PROVE  passed'[c][w] >= passed'[c][u] - 1
    BY DEF BarrierInv
  <2>1. passed[c][u] \in Nat /\ passed[c][w] \in Nat /\ (passed[c][u] >= 2 => passed[c][w] >= passed[c][u] - 1)
    BY DEF BarrierInv, TypeInv
  <2>2. passed'[c][w] = passed[c][w] \/ passed'[c][w] = passed[c][w] + 1
    BY <1>1, <1>2, GridAssumption
  <2>3. CASE c = b /\ u = t
    <3>1. passed[b][w] >= Rounds + 1 /\ passed'[c][u] = Rounds + 2
      BY <1>1, <1>2, <2>3
    <3> QED
      BY <2>1, <2>2, <2>3, <3>1, GridAssumption
  <2>4. CASE c # b \/ u # t
    <3>1. passed'[c][u] = passed[c][u]
      BY <1>2, <2>4
    <3> QED
      BY <2>1, <2>2, <3>1
  <2> QED
    BY <2>3, <2>4
<1>7. LoadInv'
  <2>1. \A c \in Blocks, u \in Threads : passed'[c][u] > 0 => passed[c][u] > 0
    BY <1>1, <1>2, GridAssumption
  <2>2. \A k \in 0 .. ELEMENT_COUNT - 1 : k \notin Blocks => vecC'[k] = vecC[k]
    BY <1>1, <1>3 DEF TypeInv
  <2> QED
    BY <1>1, <2>1, <2>2 DEF LoadInv
<1>8. SumInv'
  <2>1. \A c \in Blocks, u \in Threads, k \in 0 .. Rounds :
           k + 1 = passed'[c][u] => k + 1 = passed[c][u]
    BY <1>2, GridAssumption
  <2> QED
    BY <1>1, <2>1 DEF SumInv
<1>9. StoreInv'
  <2> SUFFICES ASSUME NEW c \in Blocks, passed'[c][0] = Rounds + 2
               PROVE  vecC'[c] = StridedSum(loaded[c], 0, Rounds)
    BY <1>1 DEF StoreInv
  <2>1. CASE c = b /\ t = 0
    BY <1>1, <1>3, <1>4, <2>1 DEF TypeInv
  <2>2. CASE c # b \/ t # 0
    BY <1>1, <1>2, <1>3, <2>2 DEF TypeInv, StoreInv
  <2> QED
    BY <2>1, <2>2
<1>10. CollectInv'
  BY <1>1, <1>2 DEF CollectInv
<1> QED
  BY <1>5, <1>6, <1>7, <1>8, <1>9, <1>10

-----------------------------------------------------------------------------
(* The results. *)

\* The invariant holds for every grid whose blocks have a power of two of threads and
\* that has no more blocks than a block has threads.
THEOREM Inductive == Spec => []IInv
<1>1. Init => IInv
  <2> SUFFICES ASSUME Init PROVE IInv
    OBVIOUS
  <2> USE GridAssumption
  <2>1. /\ \A b \in Blocks, t \in Threads : passed[b][t] = 0
        /\ \A i \in 0 .. ELEMENT_COUNT - 1 : vecC[i] = 1
        /\ S_gpu = -1
    BY DEF Init
  <2>2. TypeInv
    BY DEF Init, TypeInv, Loads
  <2>3. BarrierInv /\ LoadInv /\ CollectInv
    BY <2>1 DEF BarrierInv, LoadInv, CollectInv
  <2>4. SumInv
    BY <2>1 DEF SumInv
  <2>5. StoreInv
    <3>1. 0 \in Threads
      BY DEF Threads
    <3> QED
      BY <2>1, <3>1 DEF StoreInv
  <2> QED
    BY <2>2, <2>3, <2>4, <2>5 DEF IInv
<1>2. IInv /\ [Next]_vars => IInv'
  <2> SUFFICES ASSUME IInv, [Next]_vars PROVE IInv'
    OBVIOUS
  <2>1. ASSUME NEW b \in Blocks, NEW t \in Threads, Load(b, t) \/ Add(b, t) \/ Store(b, t)
        PROVE  IInv'
    BY <2>1, LoadStep, AddStep, StoreStep
  <2>2. CASE Collect
    BY <2>2 DEF Collect, Finished, IInv, TypeInv, BarrierInv, LoadInv, SumInv, StoreInv, CollectInv
  <2>3. CASE UNCHANGED vars
    BY <2>3 DEF vars, Finished, IInv, TypeInv, BarrierInv, LoadInv, SumInv, StoreInv, CollectInv
  <2> QED
    BY <2>1, <2>2, <2>3 DEF Next, Ended
<1> QED
  BY <1>1, <1>2, PTL DEF Spec

\* vecSum_gpu_kernel: after each addition a thread that took part in it holds the sum of
\* everything loaded at multiples of the distance from it, so that vec[0] ends as the sum
\* of the block, in whatever order the threads run between the barriers.
THEOREM PartialSumsHolds == Spec => []PartialSums
<1>1. IInv => PartialSums
  BY DEF IInv, SumInv, PartialSums
<1> QED
  BY <1>1, Inductive, PTL

\* Only block 0 can load a sum that another block has stored, and if it has not, the host
\* finds the CPU's result.
THEOREM OthersLoadProductsHolds == Spec => []OthersLoadProducts
<1>1. IInv => OthersLoadProducts
  <2> SUFFICES ASSUME IInv PROVE OthersLoadProducts
    OBVIOUS
  <2> USE GridAssumption DEF IInv
  <2>1. ASSUME S_gpu # -1, \A t \in Threads : loaded[0][t] = 1 PROVE S_gpu = S_cpu
    <3>1. Finished /\ S_gpu = Sum(vecC, BLOCKSPERGRID)
      BY <2>1 DEF CollectInv
    <3>2. ASSUME NEW b \in Blocks PROVE vecC[b] = THREADSPERBLOCK
      <4>1. 0 \in Threads /\ \A t \in Threads : passed[b][t] = Rounds + 2
        BY <3>1 DEF Finished, Threads
      <4>2. \A t \in Threads : loaded[b][t] = 1
        BY <2>1, <4>1 DEF LoadInv
      <4>3. StridedSum(loaded[b], 0, Rounds) = THREADSPERBLOCK
        BY <4>2, StridedLast
      <4> QED
        BY <4>1, <4>3 DEF StoreInv
    <3>3. Sum(vecC, BLOCKSPERGRID) = BLOCKSPERGRID * THREADSPERBLOCK
      <4>1. \A b \in 0 .. BLOCKSPERGRID - 1 : vecC[b] = THREADSPERBLOCK
        BY <3>2 DEF Blocks
      <4> QED
        BY <4>1, SumConstant
    <3>4. S_cpu = ELEMENT_COUNT
      <4> DEFINE ones == [i \in 0 .. ELEMENT_COUNT - 1 |-> 1 * 1]
      <4>1. ELEMENT_COUNT \in Nat /\ \A i \in 0 .. ELEMENT_COUNT - 1 : ones[i] = 1
        BY DEF ELEMENT_COUNT
      <4> HIDE DEF ones
      <4>2. Sum(ones, ELEMENT_COUNT) = ELEMENT_COUNT * 1
        BY <4>1, SumConstant
      <4> QED
        BY <4>1, <4>2 DEF S_cpu, ones
    <3> QED
      BY <3>1, <3>3, <3>4 DEF ELEMENT_COUNT
  <2>2. \A b \in Blocks \ {0}, t \in Threads : passed[b][t] > 0 => loaded[b][t] = 1
    BY DEF LoadInv
  <2> QED
    BY <2>1, <2>2 DEF OthersLoadProducts
<1> QED
  BY <1>1, Inductive, PTL

-----------------------------------------------------------------------------
(* No barrier stops everybody. *)

\* A set of numbers has a least one.
LEMMA Least ==
    ASSUME NEW V, V \subseteq Nat, V # {}
    PROVE  \E m \in V : \A k \in V : m <= k
<1> DEFINE R == OpToRel(<, Nat)
<1>1. IsWellFoundedOn(R, Nat)
  BY NatLessThanWellFounded
<1>2. PICK m \in V : \A k \in V : ~ (<<k, m>> \in R)
  <2> HIDE DEF R
  <2> QED
    BY <1>1, WFMin
<1>3. ASSUME NEW k \in V PROVE m <= k
  <2>1. ~ (k < m)
    BY <1>2 DEF OpToRel
  <2> QED
    BY <2>1
<1> QED
  BY <1>3

\* The host can collect or has done so, or a thread is not waiting in __syncthreads().
SomeoneRuns ==
    \/ S_gpu # -1 \/ Finished
    \/ \E b \in Blocks, t \in Threads :
          passed[b][t] = 0 \/ (passed[b][t] <= Rounds + 1 /\ Synced(b, t))

\* The barriers of vecSum_gpu_kernel never stop all the threads of an unfinished block:
\* every thread passes each of them, also those the additions leave out.
THEOREM NeverStuck == Spec => []SomeoneRuns
<1>1. IInv => SomeoneRuns
  <2> SUFFICES ASSUME IInv, ~Finished PROVE SomeoneRuns
    BY DEF SomeoneRuns
  <2>1. PICK b \in Blocks, t \in Threads : passed[b][t] # Rounds + 2
    BY DEF Finished
  <2>2. \A u \in Threads : passed[b][u] \in 0 .. Rounds + 2
    BY DEF IInv, TypeInv
  <2> DEFINE V == {passed[b][u] : u \in Threads}
  <2>3. V \subseteq Nat /\ V # {}
    BY <2>2, GridAssumption
  <2>4. PICK m \in V : \A k \in V : m <= k
    BY <2>3, Least
  <2>5. PICK u \in Threads : passed[b][u] = m
    OBVIOUS
  <2>6. Synced(b, u)
    BY <2>2, <2>4, <2>5, GridAssumption DEF Synced
  <2>7. passed[b][u] <= passed[b][t]
    BY <2>4, <2>5
  <2>8. passed[b][u] <= Rounds + 1
    BY <2>1, <2>2, <2>7, GridAssumption
  <2> QED
    BY <2>6, <2>8 DEF SomeoneRuns
<1> QED
  BY <1>1, Inductive, PTL
=============================================================================
