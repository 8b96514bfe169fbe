---------------------------- MODULE MatMultProof -----------------------------
(* The matrix products of second_cuda*.cu, for every size, tile and number of *)
(* failing calls: first the tiled ones, where two barriers keep the tiles in  *)
(* step, then those with one element per thread or one row per block.         *)
EXTENDS MatMult, TLAPS, WellFoundedInduction

-----------------------------------------------------------------------------
(* The inductive invariant. *)

Elements == {Zero, Garbage} \cup (Nat \X Nat)
Terms    == {Unknown} \cup ((Nat \X Nat) \X (Nat \X Nat))

\* The element of the product that thread t of block b computes.
Place(b, t) == <<t[1] + b[2] * BLOCK_SIZE, t[2] + b[1] * BLOCK_SIZE>>

\* How many products thread t has added up.
Added(t) == loop[t] * BLOCK_SIZE + (IF step[t] = 0 THEN 0 ELSE step[t] - 1)

\* Both matrices are on the device; and their padding is 0.
Copied == "copy_a" \in done /\ "copy_b" \in done
Padded == Copied /\ "memset_a" \in done /\ "memset_b" \in done

\* A sum for element e once p products have been added.
SumOf(sum, e, p) ==
    /\ sum \in Seq(Terms) /\ InStep(sum, e)
    /\ Copied /\ e \in Square(n) /\ p <= n =>
          Len(sum) = p /\ \A k \in DOMAIN sum : sum[k] # Unknown
    /\ Padded /\ e \in Square(n) =>
          /\ Len(sum) = IF p <= n THEN p ELSE n
          /\ \A k \in DOMAIN sum : sum[k] # Unknown

\* The host: which calls have been made, and what they did when none failed.
HostInv ==
    /\ n \in Nat \ {0} /\ next \in 1 .. 12 /\ faults \in Nat
    /\ next <= 8 \/ next >= 10 => todo = {}
    /\ todo \subseteq Square(Up(n))
    /\ block = <<>> \/ (next = 9 /\ \E b \in Square(Up(n)) : block = <<b>>)
    /\ faults = 0 => "context" \in done /\ \A k \in 1 .. 8 : k < next => Calls[k] \in done

\* The elements stored so far, and those copied back.
ResultInv ==
    /\ cc \in [Square(n) -> Seq(Terms)] /\ c \in [Square(n) -> Seq(Terms)]
    /\ \A e \in Square(n) : InStep(cc[e], e) /\ InStep(c[e], e)
    /\ faults = 0 /\ next >= 9 =>
          \A b \in Square(Up(n)), t \in Square(BLOCK_SIZE) :
              /\ Place(b, t) \in Square(n) /\ b \notin todo
              /\ block = <<b>> => loop[t] = Up(n) + 1
              => cc[Place(b, t)] = matmult(Place(b, t)[1], Place(b, t)[2])
    /\ faults = 0 /\ next >= 11 => \A e \in Square(n) : c[e] = matmult(e[1], e[2])

\* The threads of the running block: nobody loads a tile before all have finished with the
\* one before, nobody multiplies before all have loaded.
BarrierInv ==
    /\ loop \in [Square(BLOCK_SIZE) -> 0 .. Up(n) + 1]
    /\ step \in [Square(BLOCK_SIZE) -> 0 .. BLOCK_SIZE]
    /\ \A t, u \in Square(BLOCK_SIZE) :
          /\ step[t] > 0 => loop[t] < Up(n) /\ loop[u] >= loop[t]
          /\ step[t] > 1 => loop[u] > loop[t] \/ step[u] > 0
          /\ loop[t] > loop[u] =>
                /\ step[t] = 0 /\ loop[t] = loop[u] + 1
                /\ loop[u] < Up(n) => step[u] > 0

\* The tile, of which u loaded its element last.
Tile(u) == IF step[u] > 0 THEN loop[u] ELSE loop[u] - 1

TileInv ==
    /\ matA \in [Square(BLOCK_SIZE) -> Elements] /\ matB \in [Square(BLOCK_SIZE) -> Elements]
    /\ \A u \in Square(BLOCK_SIZE) : Tile(u) \in 0 .. Up(n) - 1 =>
          /\ matA[u] = Element("a", u[1] + bidr, u[2] + Tile(u) * BLOCK_SIZE)
          /\ matB[u] = Element("b", u[1] + Tile(u) * BLOCK_SIZE, u[2] + bidc)

SumInv ==
    /\ results \in [Square(BLOCK_SIZE) -> Seq(Terms)]
    /\ \A t \in Square(BLOCK_SIZE) :
          /\ InStep(results[t], Place(bid, t))
          /\ loop[t] <= Up(n) => SumOf(results[t], Place(bid, t), Added(t))

BlockInv == BarrierInv /\ TileInv /\ SumInv

TiledInv ==
    file \in Tiled =>
        /\ HostInv /\ ResultInv
        /\ block # <<>> => BlockInv

-----------------------------------------------------------------------------
(* Arithmetic. *)

\* The tiles cover the matrix, and the l-th one lies inside them.
LEMMA UpFacts ==
    ASSUME NEW m \in Nat \ {0}
    PROVE  /\ Up(m) \in Nat /\ m <= Up(m) * BLOCK_SIZE
           /\ \A l \in Nat : l * BLOCK_SIZE < m => l < Up(m)
<1> DEFINE B == BLOCK_SIZE
           q == (m + B - 1) \div B
<1>1. B \in Nat \ {0} /\ q = Up(m)
  BY SizeAssumption DEF Up
<1>2. m + B - 1 \in Nat /\ m + B - 1 = B * q + ((m + B - 1) % B) /\ (m + B - 1) % B \in 0 .. B - 1
      /\ q \in Int
  BY <1>1
<1> HIDE DEF B, q
<1>3. m <= q * B
  BY <1>1, <1>2
<1>4. q \in Nat
  <2>1. ~(q <= -1)
    <3> SUFFICES ASSUME q <= -1 PROVE FALSE
      OBVIOUS
    <3>1. q * B <= 0
      BY <1>1, <1>2
    <3> QED
      BY <1>1, <1>2, <1>3, <3>1
  <2> QED
    BY <1>2, <2>1
<1>5. ASSUME NEW l \in Nat, l * B < m PROVE l < q
  <2> SUFFICES ASSUME l >= q PROVE FALSE
    BY <1>4
  <2>1. l * B >= q * B
    BY <1>1, <1>4
  <2> QED
    BY <1>1, <1>3, <1>4, <1>5, <2>1
<1> QED
  BY <1>1, <1>3, <1>4, <1>5 DEF B

\* Every element has a block and a thread.
LEMMA EveryPlace ==
    ASSUME NEW m \in Nat \ {0}, NEW e \in Square(m)
    PROVE  \E b \in Square(Up(m)), t \in Square(BLOCK_SIZE) : Place(b, t) = e
<1> DEFINE B == BLOCK_SIZE
<1>1. B \in Nat \ {0}
  BY SizeAssumption
<1>2. ASSUME NEW x \in 0 .. m - 1
      PROVE  /\ x \div B \in 0 .. Up(m) - 1 /\ x % B \in 0 .. B - 1
             /\ x = (x % B) + (x \div B) * B
  <2>1. x = B * (x \div B) + (x % B) /\ x % B \in 0 .. B - 1 /\ x \div B \in Int
    BY <1>1
  <2>2. x \div B \in Nat
    <3> DEFINE q == x \div B
               r == x % B
    <3>1. q \in Int /\ r \in 0 .. B - 1 /\ x = B * q + r
      BY <2>1
    <3> HIDE DEF q, r
    <3>2. ~(q <= -1)
      <4> SUFFICES ASSUME q <= -1 PROVE FALSE
        OBVIOUS
      <4>1. B * q <= -B
        BY <1>1, <3>1
      <4> QED
        BY <1>1, <3>1, <4>1
    <3> QED
      BY <3>1, <3>2 DEF q
  <2>3. (x \div B) * B < m
    BY <1>1, <2>1, <2>2
  <2>4. x \div B < Up(m) /\ Up(m) \in Nat
    BY <2>2, <2>3, UpFacts
  <2> QED
    BY <1>1, <2>1, <2>2, <2>4
<1> DEFINE b == <<e[2] \div B, e[1] \div B>>
           t == <<e[1] % B, e[2] % B>>
<1>3. e[1] \in 0 .. m - 1 /\ e[2] \in 0 .. m - 1 /\ e = <<e[1], e[2]>>
  BY DEF Square
<1>4. b \in Square(Up(m)) /\ t \in Square(B)
  BY <1>2, <1>3 DEF Square
<1>5. Place(b, t) = e
  BY <1>2, <1>3 DEF Place
<1> QED
  BY <1>4, <1>5

-----------------------------------------------------------------------------
(* Sums. *)

\* What the device holds at a place.
LEMMA ElementIs ==
    ASSUME NEW i \in Nat, NEW j \in Nat
    PROVE  /\ Element("a", i, j) \in Elements /\ Element("b", i, j) \in Elements
           /\ "copy_a" \in done /\ i < n /\ j < n => Element("a", i, j) = <<i, j>>
           /\ "copy_b" \in done /\ i < n /\ j < n => Element("b", i, j) = <<i, j>>
           /\ ~("copy_a" \in done /\ i < n /\ j < n) => Element("a", i, j) \in {Zero, Garbage}
           /\ ~("copy_b" \in done /\ i < n /\ j < n) => Element("b", i, j) \in {Zero, Garbage}
           /\ "memset_a" \in done /\ i < newn /\ j < newn => Element("a", i, j) # Garbage
           /\ "memset_b" \in done /\ i < newn /\ j < newn => Element("b", i, j) # Garbage
<1>1. <<i, j>> # Garbage /\ Zero # Garbage
  BY DEF Garbage, Zero
<1> QED
  BY <1>1 DEF Element, Elements

\* Adding the next product to a sum.
LEMMA AddOne ==
    ASSUME n \in Nat, NEW e \in Nat \X Nat, NEW p \in Nat, NEW sum, SumOf(sum, e, p),
           newn \in Nat, n <= newn, p < newn
    PROVE  SumOf(Plus(sum, Element("a", e[1], p), Element("b", p, e[2])), e, p + 1)
<1> DEFINE x == Element("a", e[1], p)
           y == Element("b", p, e[2])
           term == << <<e[1], p>>, <<p, e[2]>> >>
<1>0. e[1] \in Nat /\ e[2] \in Nat /\ e = <<e[1], e[2]>>
      /\ (e \in Square(n) <=> e[1] < n /\ e[2] < n)
  BY DEF Square
<1>1. /\ x \in Elements /\ y \in Elements
      /\ x \in {Zero, Garbage} \/ ("copy_a" \in done /\ e[1] < n /\ p < n /\ x = <<e[1], p>>)
      /\ y \in {Zero, Garbage} \/ ("copy_b" \in done /\ e[2] < n /\ p < n /\ y = <<p, e[2]>>)
      /\ Copied /\ e \in Square(n) /\ p < n => x = <<e[1], p>> /\ y = <<p, e[2]>>
      /\ Padded /\ e \in Square(n) => x # Garbage /\ y # Garbage
      /\ Padded /\ e \in Square(n) /\ p >= n => x = Zero /\ y = Zero
  <2>1. e[1] \in Nat /\ e[2] \in Nat /\ p \in Nat
    BY <1>0
  <2>2. /\ x \in Elements
        /\ "copy_a" \in done /\ e[1] < n /\ p < n => x = <<e[1], p>>
        /\ ~("copy_a" \in done /\ e[1] < n /\ p < n) => x \in {Zero, Garbage}
        /\ "memset_a" \in done /\ e[1] < newn /\ p < newn => x # Garbage
    BY <2>1, ElementIs
  <2>3. /\ y \in Elements
        /\ "copy_b" \in done /\ p < n /\ e[2] < n => y = <<p, e[2]>>
        /\ ~("copy_b" \in done /\ p < n /\ e[2] < n) => y \in {Zero, Garbage}
        /\ "memset_b" \in done /\ p < newn /\ e[2] < newn => y # Garbage
    BY <2>1, ElementIs
  <2> HIDE DEF x, y
  <2>4. e \in Square(n) => e[1] < newn /\ e[2] < newn
    BY <1>0
  <2>5. /\ x \in {Zero, Garbage} \/ ("copy_a" \in done /\ e[1] < n /\ p < n /\ x = <<e[1], p>>)
        /\ y \in {Zero, Garbage} \/ ("copy_b" \in done /\ e[2] < n /\ p < n /\ y = <<p, e[2]>>)
    BY <2>2, <2>3
  <2>6. Copied /\ e \in Square(n) /\ p < n => x = <<e[1], p>> /\ y = <<p, e[2]>>
    BY <1>0, <2>2, <2>3 DEF Copied
  <2>7. Padded /\ e \in Square(n) => x # Garbage /\ y # Garbage
    BY <2>2, <2>3, <2>4 DEF Padded
  <2>8. p >= n => ~(p < n)
    OBVIOUS
  <2> QED
    BY <2>2, <2>3, <2>5, <2>6, <2>7, <2>8
<1> HIDE DEF x, y
<1>2. <<e[1], p>> # Garbage /\ <<e[1], p>> # Zero /\ <<p, e[2]>> # Garbage /\ <<p, e[2]>> # Zero
      /\ Zero # Garbage
  BY DEF Garbage, Zero
<1>3. sum \in Seq(Terms) /\ Len(sum) \in Nat /\ DOMAIN sum = 1 .. Len(sum)
  BY DEF SumOf
<1>4. ASSUME NEW s \in Terms
      PROVE  /\ Append(sum, s) \in Seq(Terms) /\ Len(Append(sum, s)) = Len(sum) + 1
             /\ DOMAIN Append(sum, s) = 1 .. Len(sum) + 1
             /\ \A k \in 1 .. Len(sum) : Append(sum, s)[k] = sum[k]
             /\ Append(sum, s)[Len(sum) + 1] = s
  BY <1>3
<1>5. CASE Garbage \in {x, y}
  <2>1. Plus(sum, x, y) = Append(sum, Unknown) /\ Unknown \in Terms
    BY <1>5 DEF Plus, Terms
  <2>2. ~(Copied /\ e \in Square(n) /\ p < n) /\ ~(Padded /\ e \in Square(n))
    BY <1>1, <1>2, <1>5
  <2>3. InStep(Append(sum, Unknown), e)
    <3> SUFFICES ASSUME NEW k \in 1 .. Len(sum) + 1
                 PROVE  Append(sum, Unknown)[k]
                            \in {Unknown, << <<e[1], k - 1>>, <<k - 1, e[2]>> >>}
      BY <1>4, <2>1 DEF InStep
    <3>1. CASE k \in 1 .. Len(sum)
      <4>1. Append(sum, Unknown)[k] = sum[k] /\ k \in DOMAIN sum
        BY <1>3, <1>4, <2>1, <3>1
      <4> QED
        BY <4>1 DEF SumOf, InStep
    <3>2. CASE k = Len(sum) + 1
      <4>1. Append(sum, Unknown)[k] = Unknown
        BY <1>4, <2>1, <3>2
      <4> QED
        BY <4>1, Zenon
    <3>3. k \in 1 .. Len(sum) \/ k = Len(sum) + 1
      BY <1>3
    <3> QED
      BY <3>1, <3>2, <3>3, Zenon
  <2>4. Append(sum, Unknown) \in Seq(Terms)
    BY <1>4, <2>1
  <2>5. SumOf(Append(sum, Unknown), e, p + 1)
    BY <2>2, <2>3, <2>4 DEF SumOf
  <2> QED
    BY <2>1, <2>5 DEF x, y
<1>6. CASE Garbage \notin {x, y} /\ Zero \in {x, y}
  <2>1. Plus(sum, x, y) = sum
    BY <1>6 DEF Plus
  <2>2. ~(Copied /\ e \in Square(n) /\ p < n)
    BY <1>1, <1>2, <1>6
  <2>3. Padded => Copied
    BY DEF Padded
  <2> QED
    BY <2>1, <2>2, <2>3 DEF SumOf, x, y
<1>7. CASE Garbage \notin {x, y} /\ Zero \notin {x, y}
  <2>1. Plus(sum, x, y) = Append(sum, <<x, y>>)
    BY <1>7 DEF Plus
  <2>2. Copied /\ e \in Square(n) /\ p < n /\ <<x, y>> = term
    BY <1>0, <1>1, <1>7 DEF Copied
  <2>3. Len(sum) = p
    BY <2>2 DEF SumOf
  <2>4. term \in Terms /\ term # Unknown
    BY <1>0 DEF Terms, Unknown
  <2>5. InStep(Append(sum, term), e)
    <3> SUFFICES ASSUME NEW k \in 1 .. p + 1
                 PROVE  Append(sum, term)[k] \in {Unknown, << <<e[1], k - 1>>, <<k - 1, e[2]>> >>}
      BY <1>4, <2>3, <2>4 DEF InStep
    <3>1. CASE k \in 1 .. p
      <4>1. Append(sum, term)[k] = sum[k] /\ k \in DOMAIN sum
        BY <1>3, <1>4, <2>3, <2>4, <3>1
      <4> QED
        BY <4>1 DEF SumOf, InStep
    <3>2. CASE k = p + 1
      <4>1. k - 1 = p
        BY <3>2
      <4>2. term = << <<e[1], k - 1>>, <<k - 1, e[2]>> >>
        BY <4>1
      <4> HIDE DEF term
      <4>3. Append(sum, term)[k] = term
        BY <1>4, <2>3, <2>4, <3>2
      <4> QED
        BY <4>2, <4>3
    <3>3. k \in 1 .. p \/ k = p + 1
      OBVIOUS
    <3> QED
      BY <3>1, <3>2, <3>3, Zenon
  <2>6. \A k \in DOMAIN Append(sum, term) : Append(sum, term)[k] # Unknown
    BY <1>3, <1>4, <2>2, <2>3, <2>4 DEF SumOf
  <2> HIDE DEF term
  <2>7. SumOf(Append(sum, term), e, p + 1)
    BY <1>4, <2>2, <2>3, <2>4, <2>5, <2>6 DEF SumOf
  <2> QED
    BY <2>1, <2>2, <2>7 DEF x, y
<1> QED
  BY <1>5, <1>6, <1>7

\* A sum of all the products of an element is the one the host computes.
LEMMA FullSum ==
    ASSUME n \in Nat, NEW e \in Square(n), NEW p \in Nat, p >= n, NEW sum, SumOf(sum, e, p),
           Padded \/ (Copied /\ p = n)
    PROVE  sum = matmult(e[1], e[2])
<1>1. sum \in Seq(Terms) /\ Len(sum) = n /\ DOMAIN sum = 1 .. n
  BY DEF SumOf
<1>2. \A k \in 1 .. n : sum[k] = << <<e[1], k - 1>>, <<k - 1, e[2]>> >>
  BY <1>1 DEF SumOf, InStep
<1>3. sum = [k \in 1 .. n |-> sum[k]]
  BY <1>1
<1> QED
  BY <1>2, <1>3 DEF matmult

-----------------------------------------------------------------------------
(* The host's steps. *)

\* Where the host is.
LEMMA CallIs ==
    ASSUME file \in Tiled, next \in 1 .. 12
    PROVE  /\ Call = "launch" <=> next = 8
           /\ Call = "run" <=> next = 9
           /\ Call = "copy_c" <=> next = 10
           /\ Call = "compare" <=> next = 11
           /\ Call = "end" <=> next = 12
           /\ next <= 7 => Calls[next] \in {"malloc_a", "malloc_b", "malloc_c", "memset_a",
                                            "memset_b", "copy_a", "copy_b"}
           /\ Calls[1] = "malloc_a" /\ Calls[2] = "malloc_b" /\ Calls[3] = "malloc_c"
           /\ Calls[4] = "memset_a" /\ Calls[5] = "memset_b" /\ Calls[6] = "copy_a"
           /\ Calls[7] = "copy_b" /\ Calls[8] = "launch"
<1> DEFINE T == << "malloc_a", "malloc_b", "malloc_c", "memset_a", "memset_b", "copy_a", "copy_b",
                  "launch", "run", "copy_c", "compare", "end" >>
<1>1. Calls = T
  BY DEF Calls
<1>2. /\ T[1] = "malloc_a" /\ T[2] = "malloc_b" /\ T[3] = "malloc_c" /\ T[4] = "memset_a"
      /\ T[5] = "memset_b" /\ T[6] = "copy_a" /\ T[7] = "copy_b" /\ T[8] = "launch"
      /\ T[9] = "run" /\ T[10] = "copy_c" /\ T[11] = "compare" /\ T[12] = "end"
  OBVIOUS
<1> HIDE DEF T
<1>3. next \in {1, 2, 3, 4, 5, 6, 7, 8, 9, 10, 11, 12}
  OBVIOUS
<1> QED
  BY <1>1, <1>2, <1>3 DEF Call

\* After a host without failures everything is where it should be.
LEMMA AllCalls ==
    ASSUME file \in Tiled, HostInv, faults = 0
    PROVE  /\ "context" \in done
           /\ next >= 4 => {"malloc_a", "malloc_b", "malloc_c"} \subseteq done
           /\ next >= 9 => Padded
  BY CallIs DEF HostInv, Padded, Copied

LEMMA HostStep ==
    ASSUME file \in Tiled, HostInv, ResultInv, HostCall
    PROVE  HostInv' /\ ResultInv' /\ block' = <<>>
<1>1. next \in 1 .. 7 /\ next' = next + 1 /\ UNCHANGED <<file, n, kernel, c>>
  BY CallIs DEF HostCall, HostInv
<1>2. UNCHANGED <<todo, block, loop, step, matA, matB, results, cc, c, n, file>>
  BY <1>1 DEF kernel
<1>3. Up(n)' = Up(n) /\ Calls' = Calls
  BY <1>2 DEF Up, Calls
<1>4. faults' \in Nat /\ done \subseteq done' /\ (faults' = 0 => faults = 0)
  BY DEF HostCall, HostInv
<1>5. faults' = 0 => Calls[next] \in done'
  <2> SUFFICES ASSUME faults' = 0 PROVE Calls[next] \in done'
    OBVIOUS
  <2>1. Needs(Call) \subseteq done
    <3>1. "malloc_a" \in done \/ next <= 1
      BY <1>1, <1>4, CallIs DEF HostInv
    <3>2. "malloc_b" \in done \/ next <= 2
      BY <1>1, <1>4, CallIs DEF HostInv
    <3> QED
      BY <1>1, <3>1, <3>2, CallIs DEF Needs, Call, Calls
  <2> QED
    BY <2>1 DEF HostCall, HostInv, Call
<1>6. HostInv'
  BY <1>1, <1>2, <1>3, <1>4, <1>5 DEF HostInv
<1>7. ResultInv'
  BY <1>1, <1>2 DEF ResultInv, InStep
<1> QED
  BY <1>1, <1>2, <1>6, <1>7 DEF HostInv

LEMMA LaunchStep ==
    ASSUME file \in Tiled, HostInv, ResultInv, Launch
    PROVE  HostInv' /\ ResultInv' /\ block' = <<>>
<1>1. /\ next = 8 /\ next' = 9 /\ UNCHANGED <<file, n, block, loop, step, cc, c>>
      /\ block = <<>> /\ todo = {}
  BY CallIs DEF Launch, HostInv
<1>2. Up(n)' = Up(n) /\ Calls' = Calls /\ Blocks = Square(Up(n))
  BY <1>1 DEF Up, Calls, Blocks
<1>3. faults' \in Nat /\ (faults' = 0 => faults = 0)
  BY DEF Launch, HostInv
<1>4. faults' = 0 => todo' = Square(Up(n)) /\ done' = done \cup {"launch"}
  BY <1>1, <1>2, <1>3, AllCalls DEF Launch, HostInv
<1>5. todo' \subseteq Square(Up(n))
  BY <1>1, <1>2 DEF Launch
<1>6. HostInv'
  <2>1. \A k \in 1 .. 8 : k < 8 \/ k = 8
    OBVIOUS
  <2>2. faults' = 0 => \A k \in 1 .. 8 : Calls[k] \in done'
    BY <1>1, <1>3, <1>4, <2>1, CallIs DEF HostInv
  <2> QED
    BY <1>1, <1>2, <1>3, <1>4, <1>5, <2>2 DEF HostInv
<1>7. ResultInv'
  BY <1>1, <1>2, <1>4 DEF ResultInv, InStep
<1> QED
  BY <1>1, <1>6, <1>7

\* The kernel has ended: every block has been taken and finished.
LEMMA HostEnds ==
    ASSUME file \in Tiled, HostInv, ResultInv, KernelEnd \/ CopyBack \/ compare_mat
    PROVE  HostInv' /\ ResultInv' /\ block' = <<>>
<1>1. /\ next \in 9 .. 11 /\ next' = next + 1 /\ block = <<>> /\ todo = {}
      /\ UNCHANGED <<file, n, done, todo, block, loop, step, cc>>
  BY CallIs DEF KernelEnd, CopyBack, compare_mat, HostInv, kernel
<1>2. Up(n)' = Up(n) /\ Calls' = Calls
  BY <1>1 DEF Up, Calls
<1>3. faults' \in Nat /\ (faults' = 0 => faults = 0)
  BY DEF KernelEnd, CopyBack, compare_mat, HostInv
<1>4. c' = c \/ c' = cc
  BY DEF KernelEnd, CopyBack, compare_mat
<1>5. HostInv'
  BY <1>1, <1>2, <1>3 DEF HostInv
<1>6. ASSUME faults' = 0, next' >= 11, NEW e \in Square(n)
      PROVE  c'[e] = matmult(e[1], e[2])
  <2>1. CASE next = 10
    <3>1. c' = cc
      <4>1. Needs("copy_c") \subseteq done
        BY <1>3, <1>6, <2>1, AllCalls DEF Needs
      <4> QED
        BY <1>3, <1>6, <2>1, <4>1, CallIs DEF KernelEnd, CopyBack, compare_mat, HostInv
    <3>2. PICK b \in Square(Up(n)), t \in Square(BLOCK_SIZE) : Place(b, t) = e
      BY EveryPlace DEF HostInv
    <3>3. block # <<b>>
      BY <1>1
    <3>4. cc[Place(b, t)] = matmult(Place(b, t)[1], Place(b, t)[2])
      BY <1>1, <1>3, <1>6, <2>1, <3>2, <3>3 DEF ResultInv
    <3> QED
      BY <3>1, <3>2, <3>4
  <2>2. CASE next = 11
    BY <1>3, <1>6, <2>2, CallIs DEF KernelEnd, CopyBack, compare_mat, ResultInv, HostInv
  <2> QED
    BY <1>1, <1>6, <2>1, <2>2
<1>7. ResultInv'
  <2>1. \A i, j : matmult(i, j)' = matmult(i, j)
    BY <1>1 DEF matmult
  <2>2. c' \in [Square(n) -> Seq(Terms)] /\ \A e \in Square(n) : InStep(cc[e], e) /\ InStep(c'[e], e)
    BY <1>4 DEF ResultInv
  <2> QED
    BY <1>1, <1>2, <1>3, <1>6, <2>1, <2>2 DEF ResultInv, InStep
<1> QED
  BY <1>1, <1>5, <1>7

-----------------------------------------------------------------------------
(* The steps of a block. *)

LEMMA StartStep ==
    ASSUME file \in Tiled, HostInv, ResultInv, StartBlock
    PROVE  HostInv' /\ ResultInv' /\ BlockInv'
<1>0. PICK b \in todo : block' = <<b>> /\ todo' = todo \ {b}
  BY DEF StartBlock
<1>1. /\ next = 9 /\ block = <<>> /\ b \in Square(Up(n)) /\ todo \subseteq Square(Up(n))
      /\ UNCHANGED <<file, n, next, done, faults, cc, c>>
      /\ n \in Nat \ {0}
  BY CallIs DEF StartBlock, HostInv
<1>2. Up(n)' = Up(n) /\ Calls' = Calls /\ Up(n) \in Nat /\ BLOCK_SIZE \in Nat \ {0}
  BY <1>1, UpFacts, SizeAssumption DEF Up, Calls
<1>3. Threads = Square(BLOCK_SIZE) /\ Shared = Square(BLOCK_SIZE)
  BY DEF Threads, Shared
<1>4. /\ loop' = [t \in Square(BLOCK_SIZE) |-> 0] /\ step' = [t \in Square(BLOCK_SIZE) |-> 0]
      /\ results' = [t \in Square(BLOCK_SIZE) |-> <<>>]
      /\ matA' = [e \in Square(BLOCK_SIZE) |-> Garbage] /\ matB' = matA'
  BY <1>3 DEF StartBlock
<1>5. HostInv'
  BY <1>0, <1>1, <1>2 DEF HostInv
<1>6. ResultInv'
  <2>1. ASSUME NEW d \in Square(Up(n)), NEW t \in Square(BLOCK_SIZE), faults = 0,
               Place(d, t) \in Square(n), d \notin todo', block' = <<d>> => loop'[t] = Up(n) + 1
        PROVE  cc[Place(d, t)] = matmult(Place(d, t)[1], Place(d, t)[2])
    <3>1. d # b
      BY <1>0, <1>2, <1>4, <2>1
    <3>2. d \notin todo /\ block # <<d>>
      BY <1>0, <1>1, <2>1, <3>1
    <3> QED
      BY <1>1, <2>1, <3>2 DEF ResultInv
  <2>2. \A i, j : matmult(i, j)' = matmult(i, j)
    BY <1>1 DEF matmult
  <2> QED
    BY <1>1, <1>2, <2>1, <2>2 DEF ResultInv, InStep, Place
<1>7. BarrierInv'
  BY <1>2, <1>4 DEF BarrierInv
<1>8. TileInv'
  <2>1. Garbage \in Elements
    BY DEF Elements
  <2>2. \A u \in Square(BLOCK_SIZE) : Tile(u)' = -1
    BY <1>4 DEF Tile
  <2> QED
    BY <1>4, <2>1, <2>2 DEF TileInv
<1>9. SumInv'
  <2>1. \A t \in Square(BLOCK_SIZE) : Added(t)' = 0 /\ results'[t] = <<>>
    BY <1>2, <1>4 DEF Added
  <2>2. <<>> \in Seq(Terms) /\ Len(<<>>) = 0 /\ DOMAIN <<>> = {}
    OBVIOUS
  <2>3. \A e : SumOf(<<>>, e, 0)' /\ InStep(<<>>, e)
    BY <1>1, <2>2 DEF SumOf, InStep
  <2>4. results' \in [Square(BLOCK_SIZE) -> Seq(Terms)]
    BY <1>4, <2>2
  <2>5. ASSUME NEW t \in Square(BLOCK_SIZE)
        PROVE  InStep(results[t], Place(bid, t))' /\ SumOf(results[t], Place(bid, t), Added(t))'
    <3>1. PICK e : e = Place(bid, t)'
      OBVIOUS
    <3> QED
      BY <2>1, <2>2, <1>1, <2>3, <3>1 DEF SumOf, InStep
  <2> QED
    BY <2>4, <2>5 DEF SumInv
<1> QED
  BY <1>5, <1>6, <1>7, <1>8, <1>9 DEF BlockInv

LEMMA EndStep ==
    ASSUME file \in Tiled, HostInv, ResultInv, BlockInv, EndBlock
    PROVE  HostInv' /\ ResultInv' /\ block' = <<>>
<1>1. block' = <<>> /\ UNCHANGED <<file, n, next, done, faults, todo, cc, c>> /\ next = 9
  BY CallIs DEF EndBlock, Running, HostInv
<1>2. Up(n)' = Up(n) /\ Calls' = Calls /\ Up(n) \in Nat
  BY <1>1, UpFacts DEF Up, Calls, HostInv
<1>3. \A t \in Square(BLOCK_SIZE) : loop[t] = Up(n) + 1
  <2>1. Threads = Square(BLOCK_SIZE) /\ file \notin Flat /\ file \notin Rows
    BY DEF Threads, Tiled, Flat, Rows
  <2>2. \A t \in Square(BLOCK_SIZE) : loop[t] > Up(n)
    BY <2>1 DEF EndBlock, ThreadEnded
  <2> QED
    BY <1>2, <2>2 DEF BlockInv, BarrierInv
<1>4. HostInv'
  BY <1>1, <1>2 DEF HostInv
<1>5. \A i, j : matmult(i, j)' = matmult(i, j)
  BY <1>1 DEF matmult
<1>6. ResultInv'
  BY <1>1, <1>2, <1>3, <1>5 DEF ResultInv, InStep, Place
<1> QED
  BY <1>1, <1>4, <1>6

\* What a thread's step leaves alone.
LEMMA StillFacts ==
    ASSUME file \in Tiled, HostInv, Running, Still
    PROVE  /\ UNCHANGED <<file, n, next, done, faults, todo, block, c>> /\ next = 9
           /\ HostInv' /\ Up(n)' = Up(n) /\ newn' = newn /\ bid' = bid /\ bidr' = bidr /\ bidc' = bidc
           /\ Up(n) \in Nat /\ BLOCK_SIZE \in Nat \ {0} /\ n \in Nat \ {0} /\ n <= newn
           /\ newn = Up(n) * BLOCK_SIZE /\ newn \in Nat
           /\ Threads = Square(BLOCK_SIZE) /\ file \notin Flat /\ file \notin Rows
           /\ bid \in Square(Up(n)) /\ block = <<bid>> /\ bidr \in Nat /\ bidc \in Nat
           /\ \A m, i, j : Element(m, i, j)' = Element(m, i, j)
           /\ \A i, j : matmult(i, j)' = matmult(i, j)
           /\ \A t : Place(bid, t) = <<t[1] + bidr, t[2] + bidc>>
<1>1. UNCHANGED <<file, n, next, done, faults, todo, block, c>> /\ next = 9 /\ block # <<>>
  BY CallIs DEF Still, Running, HostInv
<1>2. Up(n)' = Up(n) /\ Calls' = Calls /\ n \in Nat \ {0} /\ BLOCK_SIZE \in Nat \ {0}
  BY <1>1, SizeAssumption DEF Up, Calls, HostInv
<1>3. HostInv'
  BY <1>1, <1>2 DEF HostInv
<1>4. newn' = newn /\ newn = Up(n) * BLOCK_SIZE /\ Up(n) \in Nat /\ n <= Up(n) * BLOCK_SIZE
  BY <1>1, <1>2, UpFacts DEF newn
<1>5. newn \in Nat
  BY <1>2, <1>4
<1>6. bid \in Square(Up(n)) /\ block = <<bid>> /\ bid' = bid
  BY <1>1 DEF HostInv, bid
<1>7. bidr \in Nat /\ bidc \in Nat /\ bidr' = bidr /\ bidc' = bidc
  <2>1. bid[1] \in Nat /\ bid[2] \in Nat
    BY <1>4, <1>6 DEF Square
  <2> QED
    BY <1>2, <1>6, <2>1 DEF bidr, bidc
<1>8. \A m, i, j : Element(m, i, j)' = Element(m, i, j)
  BY <1>1, <1>4 DEF Element
<1>9. /\ Threads = Square(BLOCK_SIZE) /\ file \notin Flat /\ file \notin Rows
      /\ \A i, j : matmult(i, j)' = matmult(i, j)
      /\ \A t : Place(bid, t) = <<t[1] + bidr, t[2] + bidc>>
  BY <1>1 DEF Threads, Tiled, Flat, Rows, matmult, Place, bidr, bidc
<1> QED
  BY <1>1, <1>2, <1>3, <1>4, <1>5, <1>6, <1>7, <1>8, <1>9

\* Results that are not stored now stay.
LEMMA ResultFrame ==
    ASSUME file \in Tiled, HostInv, Running, Still, ResultInv, cc' = cc,
           \A t \in Square(BLOCK_SIZE) : loop'[t] = Up(n) + 1 => loop[t] = Up(n) + 1
    PROVE  ResultInv'
<1>1. /\ UNCHANGED <<n, next, faults, todo, block, c>> /\ Up(n)' = Up(n)
      /\ \A i, j : matmult(i, j)' = matmult(i, j)
  BY StillFacts
<1> QED
  BY <1>1 DEF ResultInv, InStep, Place

LEMMA LoadStep ==
    ASSUME file \in Tiled, HostInv, ResultInv, BlockInv, NEW t \in Threads, Load(t)
    PROVE  ResultInv' /\ BlockInv'
<1>0. Running /\ Still
  BY DEF Load
<1>1. /\ UNCHANGED <<loop, results, cc>> /\ Threads = Square(BLOCK_SIZE)
      /\ Up(n)' = Up(n) /\ Up(n) \in Nat /\ BLOCK_SIZE \in Nat \ {0} /\ n \in Nat \ {0}
      /\ step[t] = 0 /\ loop[t] * BLOCK_SIZE < n
      /\ t \in Square(BLOCK_SIZE) /\ \A u \in Square(BLOCK_SIZE) : loop[u] >= loop[t]
  BY <1>0, StillFacts DEF Load
<1>2. /\ loop \in [Square(BLOCK_SIZE) -> 0 .. Up(n) + 1]
      /\ step \in [Square(BLOCK_SIZE) -> 0 .. BLOCK_SIZE]
  BY DEF BlockInv, BarrierInv
<1>3. loop[t] \in Nat /\ loop[t] < Up(n)
  <2>1. loop[t] \in Nat
    BY <1>1, <1>2
  <2> QED
    BY <1>1, <2>1, UpFacts
<1>4. step' = [step EXCEPT ![t] = 1]
  BY DEF Load
<1>5. BarrierInv'
  <2>1. step' \in [Square(BLOCK_SIZE) -> 0 .. BLOCK_SIZE]
    BY <1>1, <1>2, <1>4
  <2>2. \A u \in Square(BLOCK_SIZE) : step'[u] = IF u = t THEN 1 ELSE step[u]
    BY <1>2, <1>4
  <2>3. ASSUME NEW u \in Square(BLOCK_SIZE), NEW v \in Square(BLOCK_SIZE)
        PROVE  /\ step'[u] > 0 => loop[u] < Up(n) /\ loop[v] >= loop[u]
               /\ step'[u] > 1 => loop[v] > loop[u] \/ step'[v] > 0
               /\ loop[u] > loop[v] => /\ step'[u] = 0 /\ loop[u] = loop[v] + 1
                                       /\ loop[v] < Up(n) => step'[v] > 0
    <3>1. /\ step[u] \in Nat /\ step[v] \in Nat /\ loop[u] \in Nat /\ loop[v] \in Nat
          /\ loop[u] >= loop[t] /\ loop[v] >= loop[t]
      BY <1>1, <1>2
    <3>2. /\ step[u] > 0 => loop[u] < Up(n) /\ loop[v] >= loop[u]
          /\ step[u] > 1 => loop[v] > loop[u] \/ step[v] > 0
          /\ loop[u] > loop[v] => /\ step[u] = 0 /\ loop[u] = loop[v] + 1
                                  /\ loop[v] < Up(n) => step[v] > 0
      BY DEF BlockInv, BarrierInv
    <3> QED
      BY <1>3, <2>2, <3>1, <3>2
  <2> QED
    BY <1>1, <1>2, <2>1, <2>3 DEF BarrierInv
<1>6. TileInv'
  <2> DEFINE j == loop[t] * BLOCK_SIZE
  <2>1. /\ \A m, i, k : Element(m, i, k)' = Element(m, i, k)
        /\ bidr \in Nat /\ bidc \in Nat /\ bidr' = bidr /\ bidc' = bidc
    BY <1>0, StillFacts
  <2>2. t[1] \in Nat /\ t[2] \in Nat /\ j \in Nat
    BY <1>1, <1>3 DEF Square
  <2>3. /\ matA' = [matA EXCEPT ![t] = Element("a", t[1] + bidr, t[2] + j)]
        /\ matB' = [matB EXCEPT ![t] = Element("b", t[1] + j, t[2] + bidc)]
    BY DEF Load
  <2> HIDE DEF j
  <2>4. /\ Element("a", t[1] + bidr, t[2] + j) \in Elements
        /\ Element("b", t[1] + j, t[2] + bidc) \in Elements
    BY <2>1, <2>2, ElementIs
  <2>5. matA' \in [Square(BLOCK_SIZE) -> Elements] /\ matB' \in [Square(BLOCK_SIZE) -> Elements]
    BY <1>1, <2>3, <2>4 DEF BlockInv, TileInv
  <2>6. ASSUME NEW u \in Square(BLOCK_SIZE), Tile(u)' \in 0 .. Up(n) - 1
        PROVE  /\ matA'[u] = Element("a", u[1] + bidr, u[2] + Tile(u)' * BLOCK_SIZE)
               /\ matB'[u] = Element("b", u[1] + Tile(u)' * BLOCK_SIZE, u[2] + bidc)
    <3>1. CASE u = t
      <4>1. Tile(u)' = loop[t]
        BY <1>1, <1>2, <1>4, <3>1 DEF Tile
      <4> QED
        BY <1>1, <2>3, <3>1, <4>1 DEF BlockInv, TileInv, j
    <3>2. CASE u # t
      <4>1. Tile(u)' = Tile(u) /\ matA'[u] = matA[u] /\ matB'[u] = matB[u]
        BY <1>1, <1>2, <1>4, <2>3, <3>2 DEF Tile, BlockInv, TileInv
      <4> QED
        BY <2>6, <4>1 DEF BlockInv, TileInv
    <3> QED
      BY <3>1, <3>2
  <2> QED
    BY <1>1, <2>1, <2>5, <2>6 DEF TileInv
<1>7. SumInv'
  <2>1. \A u \in Square(BLOCK_SIZE) : Added(u)' = Added(u)
    BY <1>1, <1>2, <1>4 DEF Added
  <2>2. UNCHANGED <<n, done, bid>>
    BY <1>0, StillFacts
  <2>3. ASSUME NEW u \in Square(BLOCK_SIZE)
        PROVE  /\ InStep(results[u], Place(bid, u))'
               /\ loop'[u] <= Up(n) => SumOf(results[u], Place(bid, u), Added(u))'
    <3>1. InStep(results[u], Place(bid, u))
          /\ (loop[u] <= Up(n) => SumOf(results[u], Place(bid, u), Added(u)))
      BY DEF BlockInv, SumInv
    <3> QED
      BY <1>1, <2>1, <2>2, <3>1 DEF SumOf, InStep, Place, Copied, Padded
  <2> QED
    BY <1>1, <2>3 DEF BlockInv, SumInv
<1> QED
  BY <1>0, <1>1, <1>5, <1>6, <1>7, ResultFrame DEF BlockInv

\* When t multiplies, everybody's element in shared memory is of t's tile.
LEMMA InTile ==
    ASSUME BarrierInv, Up(n) \in Nat, BLOCK_SIZE \in Nat \ {0},
           NEW t \in Square(BLOCK_SIZE), NEW u \in Square(BLOCK_SIZE),
           step[t] > 0, loop[u] > loop[t] \/ step[u] > 0
    PROVE  Tile(u) = loop[t] /\ loop[t] \in 0 .. Up(n) - 1
<1>1. /\ step[t] \in Nat /\ step[u] \in Nat /\ loop[t] \in Nat /\ loop[u] \in Nat
      /\ loop[t] < Up(n) /\ loop[u] >= loop[t]
      /\ loop[u] > loop[t] => step[u] = 0 /\ loop[u] = loop[t] + 1
  BY DEF BarrierInv
<1> QED
  BY <1>1 DEF Tile

LEMMA MultiplyStep ==
    ASSUME file \in Tiled, HostInv, ResultInv, BlockInv, NEW t \in Threads, Multiply(t)
    PROVE  ResultInv' /\ BlockInv'
<1>0. Running /\ Still /\ UNCHANGED <<matA, matB, cc>>
  BY DEF Multiply
<1>1. /\ Threads = Square(BLOCK_SIZE) /\ t \in Square(BLOCK_SIZE) /\ step[t] > 0
      /\ Up(n)' = Up(n) /\ Up(n) \in Nat /\ BLOCK_SIZE \in Nat \ {0} /\ n \in Nat \ {0}
      /\ \A u \in Square(BLOCK_SIZE) : loop[u] > loop[t] \/ step[u] > 0
      /\ UNCHANGED <<n, done, bid>>
  BY <1>0, StillFacts DEF Multiply
<1>2. /\ loop \in [Square(BLOCK_SIZE) -> 0 .. Up(n) + 1]
      /\ step \in [Square(BLOCK_SIZE) -> 0 .. BLOCK_SIZE]
      /\ loop[t] \in Nat /\ loop[t] < Up(n) /\ step[t] \in 1 .. BLOCK_SIZE
  BY <1>1 DEF BlockInv, BarrierInv
<1>3. /\ step' = [step EXCEPT ![t] = IF step[t] = BLOCK_SIZE THEN 0 ELSE step[t] + 1]
      /\ loop' = [loop EXCEPT ![t] = IF step[t] = BLOCK_SIZE THEN loop[t] + 1 ELSE loop[t]]
  BY DEF Multiply
<1>4. \A u \in Square(BLOCK_SIZE) \ {t} : step'[u] = step[u] /\ loop'[u] = loop[u]
  BY <1>2, <1>3
<1>5. \/ step[t] = BLOCK_SIZE /\ step'[t] = 0 /\ loop'[t] = loop[t] + 1
      \/ step[t] < BLOCK_SIZE /\ step'[t] = step[t] + 1 /\ loop'[t] = loop[t]
  BY <1>1, <1>2, <1>3
<1>6. BarrierInv'
  <2>1. /\ loop' \in [Square(BLOCK_SIZE) -> 0 .. Up(n) + 1]
        /\ step' \in [Square(BLOCK_SIZE) -> 0 .. BLOCK_SIZE]
    BY <1>1, <1>2, <1>3
  <2>2. ASSUME NEW u \in Square(BLOCK_SIZE), NEW v \in Square(BLOCK_SIZE)
        PROVE  /\ step'[u] > 0 => loop'[u] < Up(n) /\ loop'[v] >= loop'[u]
               /\ step'[u] > 1 => loop'[v] > loop'[u] \/ step'[v] > 0
               /\ loop'[u] > loop'[v] => /\ step'[u] = 0 /\ loop'[u] = loop'[v] + 1
                                         /\ loop'[v] < Up(n) => step'[v] > 0
    <3>1. \A x, y \in {t, u, v} :
             /\ step[x] \in Nat /\ loop[x] \in Nat
             /\ step[x] > 0 => loop[x] < Up(n) /\ loop[y] >= loop[x]
             /\ step[x] > 1 => loop[y] > loop[x] \/ step[y] > 0
             /\ loop[x] > loop[y] => /\ step[x] = 0 /\ loop[x] = loop[y] + 1
                                     /\ loop[y] < Up(n) => step[y] > 0
      BY <1>1, <1>2 DEF BlockInv, BarrierInv
    <3>2. loop[u] > loop[t] \/ step[u] > 0
      BY <1>1
    <3>3. loop[v] > loop[t] \/ step[v] > 0
      BY <1>1
    <3>4. CASE u = t /\ v = t
      BY <1>1, <1>2, <1>5, <3>1, <3>4
    <3>5. CASE u = t /\ v # t
      BY <1>1, <1>2, <1>4, <1>5, <3>1, <3>3, <3>5
    <3>6. CASE u # t /\ v = t
      BY <1>1, <1>2, <1>4, <1>5, <3>1, <3>2, <3>6
    <3>7. CASE u # t /\ v # t
      BY <1>4, <3>1, <3>7
    <3> QED
      BY <3>4, <3>5, <3>6, <3>7
  <2> QED
    BY <1>1, <2>1, <2>2 DEF BarrierInv
<1>7. TileInv'
  <2>1. \A u \in Square(BLOCK_SIZE) : Tile(u)' = Tile(u)
    <3>1. Tile(t)' = Tile(t)
      BY <1>1, <1>2, <1>5 DEF Tile
    <3> QED
      BY <1>4, <3>1 DEF Tile
  <2>2. /\ \A m, i, k : Element(m, i, k)' = Element(m, i, k)
        /\ bidr' = bidr /\ bidc' = bidc
    BY <1>0, StillFacts
  <2> QED
    BY <1>0, <1>1, <2>1, <2>2 DEF BlockInv, TileInv
<1>8. SumInv'
  <2> DEFINE i == step[t] - 1
             p == loop[t] * BLOCK_SIZE + i
             e == Place(bid, t)
             sum == Plus(results[t], matA[<<t[1], i>>], matB[<<i, t[2]>>])
  <2>1. results' = [results EXCEPT ![t] = sum]
    BY DEF Multiply
  <2>2. /\ t[1] \in 0 .. BLOCK_SIZE - 1 /\ t[2] \in 0 .. BLOCK_SIZE - 1 /\ i \in 0 .. BLOCK_SIZE - 1
        /\ <<t[1], i>> \in Square(BLOCK_SIZE) /\ <<i, t[2]>> \in Square(BLOCK_SIZE)
    BY <1>1, <1>2 DEF Square
  <2>3. /\ e = <<t[1] + bidr, t[2] + bidc>> /\ bidr \in Nat /\ bidc \in Nat
        /\ newn = Up(n) * BLOCK_SIZE /\ newn \in Nat /\ n <= newn
    BY <1>0, StillFacts
  <2>4. e \in Nat \X Nat /\ e[1] = t[1] + bidr /\ e[2] = t[2] + bidc
    BY <2>2, <2>3
  <2>5. p \in Nat /\ p < newn /\ Added(t) = p /\ i + loop[t] * BLOCK_SIZE = p
    <3>1. (loop[t] + 1) * BLOCK_SIZE <= Up(n) * BLOCK_SIZE
      BY <1>1, <1>2
    <3>2. (loop[t] + 1) * BLOCK_SIZE = loop[t] * BLOCK_SIZE + BLOCK_SIZE
      BY <1>1, <1>2
    <3>3. loop[t] * BLOCK_SIZE \in Nat
      BY <1>1, <1>2
    <3>4. Added(t) = p
      BY <1>1, <1>2 DEF Added
    <3> QED
      BY <1>1, <2>2, <2>3, <3>1, <3>2, <3>3, <3>4
  <2>6. matA[<<t[1], i>>] = Element("a", e[1], p) /\ matB[<<i, t[2]>>] = Element("b", p, e[2])
    <3>1. \A u \in Square(BLOCK_SIZE) : Tile(u) = loop[t] /\ Tile(u) \in 0 .. Up(n) - 1
      BY <1>1, InTile DEF BlockInv
    <3>2. \A u \in Square(BLOCK_SIZE) :
             /\ matA[u] = Element("a", u[1] + bidr, u[2] + loop[t] * BLOCK_SIZE)
             /\ matB[u] = Element("b", u[1] + loop[t] * BLOCK_SIZE, u[2] + bidc)
      BY <3>1 DEF BlockInv, TileInv
    <3>3. matA[<<t[1], i>>] = Element("a", t[1] + bidr, i + loop[t] * BLOCK_SIZE)
      BY <2>2, <3>2
    <3>4. matB[<<i, t[2]>>] = Element("b", i + loop[t] * BLOCK_SIZE, t[2] + bidc)
      BY <2>2, <3>2
    <3> QED
      BY <2>4, <2>5, <3>3, <3>4
  <2>7. SumOf(results[t], e, p)
    BY <1>1, <1>2, <2>5 DEF BlockInv, SumInv
  <2>8. Added(t)' = p + 1
    <3>1. (loop[t] + 1) * BLOCK_SIZE = loop[t] * BLOCK_SIZE + BLOCK_SIZE
          /\ loop[t] * BLOCK_SIZE \in Nat
      BY <1>1, <1>2
    <3> QED
      BY <1>1, <1>2, <1>5, <3>1 DEF Added
  <2> HIDE DEF i, p, e, sum
  <2>9. SumOf(sum, e, p + 1)
    <3>1. SumOf(Plus(results[t], Element("a", e[1], p), Element("b", p, e[2])), e, p + 1)
      BY <1>1, <2>3, <2>4, <2>5, <2>7, AddOne
    <3> QED
      BY <2>6, <3>1 DEF sum
  <2>10. results' \in [Square(BLOCK_SIZE) -> Seq(Terms)] /\ results'[t] = sum
         /\ \A u \in Square(BLOCK_SIZE) \ {t} : results'[u] = results[u]
    BY <1>1, <2>1, <2>9 DEF SumOf, BlockInv, SumInv
  <2>11. ASSUME NEW u \in Square(BLOCK_SIZE)
         PROVE  /\ InStep(results[u], Place(bid, u))'
                /\ loop'[u] <= Up(n) => SumOf(results[u], Place(bid, u), Added(u))'
    <3>1. CASE u = t
      <4>1. InStep(sum, e)
        BY <2>9 DEF SumOf
      <4> QED
        BY <1>1, <2>8, <2>9, <2>10, <3>1, <4>1 DEF SumOf, InStep, Place, Copied, Padded, e
    <3>2. CASE u # t
      <4>1. InStep(results[u], Place(bid, u))
            /\ (loop[u] <= Up(n) => SumOf(results[u], Place(bid, u), Added(u)))
        BY DEF BlockInv, SumInv
      <4>2. Added(u)' = Added(u) /\ loop'[u] = loop[u] /\ results'[u] = results[u]
        BY <1>4, <2>10, <3>2 DEF Added
      <4> QED
        BY <1>1, <4>1, <4>2 DEF SumOf, InStep, Place, Copied, Padded
    <3> QED
      BY <3>1, <3>2
  <2> QED
    BY <1>1, <2>10, <2>11 DEF SumInv
<1>9. ResultInv'
  <2>1. \A u \in Square(BLOCK_SIZE) : loop'[u] = Up(n) + 1 => loop[u] = Up(n) + 1
    BY <1>1, <1>2, <1>4, <1>5
  <2> QED
    BY <1>0, <2>1, ResultFrame
<1> QED
  BY <1>6, <1>7, <1>8, <1>9 DEF BlockInv

LEMMA StoreStep ==
    ASSUME file \in Tiled, HostInv, ResultInv, BlockInv, NEW t \in Threads, Store(t)
    PROVE  ResultInv' /\ BlockInv'
<1>0. Running /\ Still /\ UNCHANGED <<step, matA, matB, results>>
  BY DEF Store
<1>1. /\ Threads = Square(BLOCK_SIZE) /\ t \in Square(BLOCK_SIZE) /\ step[t] = 0 /\ loop[t] = Up(n)
      /\ Up(n)' = Up(n) /\ Up(n) \in Nat /\ BLOCK_SIZE \in Nat \ {0} /\ n \in Nat \ {0}
      /\ \A u \in Square(BLOCK_SIZE) : loop[u] >= Up(n)
      /\ UNCHANGED <<n, next, done, faults, todo, block, c, bid>> /\ block = <<bid>> /\ next = 9
      /\ \A i, j : matmult(i, j)' = matmult(i, j)
  BY <1>0, StillFacts DEF Store
<1>2. /\ loop \in [Square(BLOCK_SIZE) -> 0 .. Up(n) + 1]
      /\ step \in [Square(BLOCK_SIZE) -> 0 .. BLOCK_SIZE]
      /\ \A u \in Square(BLOCK_SIZE) : step[u] = 0
  BY <1>1 DEF BlockInv, BarrierInv
<1>3. loop' = [loop EXCEPT ![t] = loop[t] + 1]
  BY DEF Store
<1>4. loop'[t] = Up(n) + 1 /\ \A u \in Square(BLOCK_SIZE) \ {t} : loop'[u] = loop[u]
  BY <1>1, <1>2, <1>3
<1>5. BarrierInv'
  <2>1. loop' \in [Square(BLOCK_SIZE) -> 0 .. Up(n) + 1]
    BY <1>1, <1>2, <1>3
  <2>2. \A u \in Square(BLOCK_SIZE) : loop'[u] \in {Up(n), Up(n) + 1}
    BY <1>1, <1>2, <1>4
  <2> QED
    BY <1>0, <1>1, <1>2, <2>1, <2>2 DEF BarrierInv
<1>6. TileInv'
  <2>1. \A u \in Square(BLOCK_SIZE) : Tile(u)' \in 0 .. Up(n) - 1 => Tile(u)' = Tile(u)
    BY <1>0, <1>1, <1>2, <1>4 DEF Tile
  <2>2. /\ \A m, i, k : Element(m, i, k)' = Element(m, i, k)
        /\ bidr' = bidr /\ bidc' = bidc
    BY <1>0, StillFacts
  <2> QED
    BY <1>0, <1>1, <2>1, <2>2 DEF BlockInv, TileInv
<1>7. SumInv'
  <2>1. ASSUME NEW u \in Square(BLOCK_SIZE)
        PROVE  /\ InStep(results[u], Place(bid, u))'
               /\ loop'[u] <= Up(n) => SumOf(results[u], Place(bid, u), Added(u))'
    <3>1. InStep(results[u], Place(bid, u))
          /\ (loop[u] <= Up(n) => SumOf(results[u], Place(bid, u), Added(u)))
      BY DEF BlockInv, SumInv
    <3>2. loop'[u] <= Up(n) => loop'[u] = loop[u]
      BY <1>1, <1>4
    <3>3. loop'[u] = loop[u] => Added(u)' = Added(u)
      BY <1>0 DEF Added
    <3> QED
      BY <1>0, <1>1, <3>1, <3>2, <3>3 DEF SumOf, InStep, Place, Copied, Padded
  <2> QED
    BY <1>0, <1>1, <2>1 DEF BlockInv, SumInv
<1>8. ResultInv'
  <2> DEFINE e == Place(bid, t)
  <2>0. e = <<t[1] + bidr, t[2] + bidc>>
    BY <1>0, StillFacts
  <2>1. SumOf(results[t], e, Added(t)) /\ Added(t) \in Nat /\ Added(t) >= n
    <3>1. Added(t) = Up(n) * BLOCK_SIZE /\ Up(n) * BLOCK_SIZE \in Nat /\ Up(n) * BLOCK_SIZE >= n
      BY <1>1, UpFacts DEF Added
    <3> QED
      BY <1>1, <3>1 DEF BlockInv, SumInv
  <2>2. results[t] \in Seq(Terms) /\ InStep(results[t], e)
    BY <2>1 DEF SumOf
  <2>3. faults = 0 /\ e \in Square(n) => results[t] = matmult(e[1], e[2])
    <3>1. faults = 0 => Padded
      BY <1>1, AllCalls
    <3> QED
      BY <1>1, <2>1, <3>1, FullSum
  <2> HIDE DEF e
  <2>4. cc' = [d \in Square(n) |-> IF d = e THEN results[t] ELSE cc[d]]
    BY <2>0 DEF Store, ResultInv
  <2>5. cc' \in [Square(n) -> Seq(Terms)] /\ \A d \in Square(n) : InStep(cc'[d], d)
    BY <2>2, <2>4 DEF ResultInv
  <2>6. ASSUME faults = 0, NEW b \in Square(Up(n)), NEW u \in Square(BLOCK_SIZE),
               Place(b, u) \in Square(n), b \notin todo, block = <<b>> => loop'[u] = Up(n) + 1
        PROVE  cc'[Place(b, u)] = matmult(Place(b, u)[1], Place(b, u)[2])
    <3>1. CASE Place(b, u) = e
      BY <2>3, <2>4, <2>6, <3>1
    <3>2. CASE Place(b, u) # e
      <4>1. ~(b = bid /\ u = t)
        BY <3>2 DEF e
      <4>2. block = <<b>> => loop[u] = Up(n) + 1
        BY <1>1, <1>4, <2>6, <4>1
      <4> QED
        BY <1>1, <2>4, <2>6, <3>2, <4>2 DEF ResultInv
    <3> QED
      BY <3>1, <3>2
  <2>7. \A d \in Square(n) : InStep(cc[d], d)' /\ InStep(c[d], d)'
    BY <1>1, <2>5 DEF ResultInv, InStep
  <2> QED
    BY <1>1, <2>5, <2>6, <2>7 DEF ResultInv, Place
<1> QED
  BY <1>5, <1>6, <1>7, <1>8 DEF BlockInv

-----------------------------------------------------------------------------
(* The kernels without tiles: which block and thread computes element e, and  *)
(* in which iteration of its loop.                                            *)

Home(e) == IF file \in Flat THEN (e[1] * n + e[2]) \div BLOCK_SIZE ELSE e[1]
Lane(e) == (IF file \in Flat THEN e[1] * n + e[2] ELSE e[2]) % BLOCK_SIZE
Turn(e) == IF file \in Flat THEN 0 ELSE e[2] \div BLOCK_SIZE

\* Element e has not been computed yet.
Pending(e) == Home(e) \in todo \/ (block = <<Home(e)>> /\ loop[Lane(e)] <= Turn(e))

PlainHostInv ==
    /\ file \in Flat \cup Rows
    /\ n \in Nat \ {0} /\ next \in 1 .. 10 /\ faults \in Nat
    /\ next <= 6 \/ next >= 8 => todo = {}
    /\ todo \subseteq Blocks
    /\ block = <<>> \/ (next = 7 /\ \E b \in Blocks : block = <<b>>)
    /\ faults = 0 => "context" \in done /\ \A k \in 1 .. 6 : k < next => Calls[k] \in done

PlainResultInv ==
    /\ cc \in [Square(n) -> Seq(Terms)] /\ c \in [Square(n) -> Seq(Terms)]
    /\ \A e \in Square(n) : InStep(cc[e], e) /\ InStep(c[e], e)
    /\ faults = 0 /\ next >= 7 =>
          \A e \in Square(n) : Pending(e) \/ cc[e] = matmult(e[1], e[2])
    /\ faults = 0 /\ next >= 9 => \A e \in Square(n) : c[e] = matmult(e[1], e[2])

\* The threads of the running block; what they have loaded of their row is in place.
PlainBlockInv ==
    /\ loop \in [Threads -> Nat] /\ step \in [Threads -> Nat]
    /\ file \in Flat => \A t \in Threads : loop[t] \in {0, 1}
    /\ file \in Rows =>
          /\ matA \in [{0} \X (0 .. n - 1) -> Elements]
          /\ \A j \in 0 .. n - 1 : j \div BLOCK_SIZE < step[j % BLOCK_SIZE] =>
                matA[<<0, j>>] = Element("a", bid, j)

PlainInv ==
    file \notin Tiled =>
        /\ PlainHostInv /\ PlainResultInv
        /\ block # <<>> => PlainBlockInv

\* The thread that computes an element, and its turn.
LEMMA Division ==
    ASSUME NEW x \in Nat, NEW d \in Nat \ {0}
    PROVE  x \div d \in Nat /\ x % d \in 0 .. d - 1 /\ x = (x % d) + (x \div d) * d
<1> DEFINE q == x \div d
           r == x % d
<1>1. q \in Int /\ r \in 0 .. d - 1 /\ x = d * q + r
  OBVIOUS
<1> HIDE DEF q, r
<1>2. ~(q <= -1)
  <2> SUFFICES ASSUME q <= -1 PROVE FALSE
    OBVIOUS
  <2>1. d * q <= -d
    BY <1>1
  <2> QED
    BY <1>1, <2>1
<1> QED
  BY <1>1, <1>2 DEF q, r

\* Quotient and remainder are the only ones.
LEMMA DivisionUnique ==
    ASSUME NEW d \in Nat \ {0}, NEW q \in Nat, NEW r \in 0 .. d - 1
    PROVE  (q * d + r) \div d = q /\ (q * d + r) % d = r
<1> DEFINE x == q * d + r
           p == x \div d
           s == x % d
<1>1. x \in Nat
  OBVIOUS
<1>2. p \in Nat /\ s \in 0 .. d - 1 /\ x = s + p * d
  BY <1>1, Division
<1>3. x = q * d + r
  OBVIOUS
<1> HIDE DEF x, p, s
<1>4. ~(p < q)
  <2> SUFFICES ASSUME p + 1 <= q PROVE FALSE
    BY <1>2
  <2>1. (p + 1) * d <= q * d /\ (p + 1) * d = p * d + d
    BY <1>2
  <2> QED
    BY <1>2, <1>3, <2>1
<1>5. ~(q < p)
  <2> SUFFICES ASSUME q + 1 <= p PROVE FALSE
    BY <1>2
  <2>1. (q + 1) * d <= p * d /\ (q + 1) * d = q * d + d
    BY <1>2
  <2> QED
    BY <1>2, <1>3, <2>1
<1>6. p = q
  BY <1>2, <1>4, <1>5
<1>7. s = r
  BY <1>2, <1>3, <1>6
<1> QED
  BY <1>6, <1>7 DEF p, s, x

\* A loop of stride BLOCK_SIZE that has reached n has passed every j < n.
LEMMA LoopPassed ==
    ASSUME n \in Nat, NEW j \in 0 .. n - 1, NEW k \in Nat, At(j % BLOCK_SIZE, k) >= n
    PROVE  j \div BLOCK_SIZE < k
<1> DEFINE B == BLOCK_SIZE
           q == j \div B
           r == j % B
<1>1. B \in Nat \ {0}
  BY SizeAssumption
<1>2. q \in Nat /\ r \in 0 .. B - 1 /\ j = r + q * B
  <2>1. j \in Nat
    OBVIOUS
  <2> QED
    BY <1>1, <2>1, Division
<1>3. r + k * B >= n
  BY DEF At
<1> HIDE DEF B, q, r
<1>4. ~(k <= q)
  <2> SUFFICES ASSUME k <= q PROVE FALSE
    OBVIOUS
  <2>1. k * B <= q * B
    BY <1>1, <1>2
  <2> QED
    BY <1>1, <1>2, <1>3, <2>1
<1> QED
  BY <1>2, <1>4 DEF q, B

\* The place of j in such a loop.
LEMMA LoopPlace ==
    ASSUME NEW j \in Nat
    PROVE  /\ j \div BLOCK_SIZE \in Nat /\ j % BLOCK_SIZE \in 0 .. BLOCK_SIZE - 1
           /\ j = At(j % BLOCK_SIZE, j \div BLOCK_SIZE)
  BY SizeAssumption, Division DEF At

LEMMA PlaceOf ==
    ASSUME PlainHostInv, NEW e \in Square(n)
    PROVE  Home(e) \in Nat /\ Lane(e) \in Threads /\ Turn(e) \in Nat
<1>1. e[1] \in 0 .. n - 1 /\ e[2] \in 0 .. n - 1 /\ n \in Nat \ {0}
      /\ Threads = 0 .. BLOCK_SIZE - 1
  BY DEF PlainHostInv, Square, Threads, Flat, Rows, Tiled
<1>2. e[1] \in Nat /\ e[2] \in Nat /\ e[1] * n + e[2] \in Nat
  BY <1>1
<1>3. CASE file \in Flat
  <2>1. /\ (e[1] * n + e[2]) \div BLOCK_SIZE \in Nat
        /\ (e[1] * n + e[2]) % BLOCK_SIZE \in 0 .. BLOCK_SIZE - 1
    BY <1>2, SizeAssumption, Division
  <2> QED
    BY <1>1, <1>3, <2>1 DEF Home, Lane, Turn
<1>4. CASE file \notin Flat
  BY <1>1, <1>2, <1>4, LoopPlace DEF Home, Lane, Turn
<1> QED
  BY <1>3, <1>4

\* Every element belongs to a block of the grid.
LEMMA HomeIsBlock ==
    ASSUME PlainHostInv, NEW e \in Square(n)
    PROVE  Home(e) \in Blocks
<1>1. e[1] \in 0 .. n - 1 /\ e[2] \in 0 .. n - 1 /\ n \in Nat \ {0} /\ file \notin Tiled
  BY DEF PlainHostInv, Square, Flat, Rows, Tiled
<1>2. CASE file \in Flat
  <2> DEFINE B == BLOCK_SIZE
             x == e[1] * n + e[2]
             q == x \div B
             r == x % B
             u == Up(n)
  <2>1. B \in Nat \ {0} /\ u \in Nat /\ n <= u * B
    BY <1>1, SizeAssumption, UpFacts
  <2>2. x \in Nat /\ x < n * n
    <3>1. e[1] * n <= (n - 1) * n /\ (n - 1) * n = n * n - n /\ e[1] * n \in Nat
      BY <1>1
    <3> QED
      BY <1>1, <3>1
  <2>3. q \in Nat /\ x = r + q * B /\ r \in 0 .. B - 1
    BY <2>1, <2>2, Division
  <2> HIDE DEF B, x, q, r, u
  <2>4. q * B < n * n
    <3>1. q * B \in Int /\ n * n \in Int
      BY <1>1, <2>1, <2>3
    <3> QED
      BY <2>1, <2>2, <2>3, <3>1
  <2>5. ~(u * n <= q)
    <3> SUFFICES ASSUME u * n <= q PROVE FALSE
      OBVIOUS
    <3>1. (u * n) * B <= q * B
      BY <1>1, <2>1, <2>3
    <3>2. (u * n) * B = (u * B) * n /\ n * n <= (u * B) * n
      BY <1>1, <2>1
    <3>3. (u * n) * B \in Int /\ q * B \in Int /\ n * n \in Int
      BY <1>1, <2>1, <2>3
    <3> QED
      BY <2>4, <3>1, <3>2, <3>3
  <2>6. u * n \in Nat
    BY <1>1, <2>1
  <2>7. q \in 0 .. u * n - 1
    BY <2>3, <2>5, <2>6
  <2> QED
    BY <1>1, <1>2, <2>7 DEF Home, Blocks, q, u, x, B
<1>3. CASE file \notin Flat
  BY <1>1, <1>3 DEF Home, Blocks
<1> QED
  BY <1>2, <1>3

-----------------------------------------------------------------------------
(* The product of a row and a column. *)

\* A set with 0 and with the successor of each of its numbers has all numbers.
LEMMA Induction ==
    ASSUME NEW T, 0 \in T, \A m \in Nat : m \in T => m + 1 \in T
    PROVE  \A m \in Nat : m \in T
<1> DEFINE R == OpToRel(<, Nat)
           U == Nat \ T
<1>1. SUFFICES ASSUME U # {} PROVE FALSE
  OBVIOUS
<1>2. IsWellFoundedOn(R, Nat)
  BY NatLessThanWellFounded
<1>3. PICK x \in U : \A y \in U : ~ (<<y, x>> \in R)
  <2> HIDE DEF R
  <2> QED
    BY <1>1, <1>2, WFMin
<1>4. x # 0 /\ x - 1 \in Nat /\ x - 1 < x
  OBVIOUS
<1>5. <<x - 1, x>> \in R
  BY <1>4 DEF OpToRel
<1>6. x - 1 \in U
  BY <1>4
<1> QED
  BY <1>3, <1>5, <1>6

\* s is the function of the sums of the first products.
IsRowTimes(s, row, column, m) ==
    s = [k \in 0 .. m |-> IF k = 0 THEN <<>>
                          ELSE Plus(s[k - 1], row[k - 1], Element("b", k - 1, column))]

LEMMA RowTimesExists ==
    ASSUME NEW row, NEW column, NEW m \in Nat
    PROVE  \E s : IsRowTimes(s, row, column, m)
<1> DEFINE T == {l \in Nat : \E s : IsRowTimes(s, row, column, l)}
<1>1. 0 \in T
  <2>1. IsRowTimes([k \in 0 .. 0 |-> <<>>], row, column, 0)
    BY DEF IsRowTimes
  <2> QED
    BY <2>1
<1>2. ASSUME NEW l \in Nat, l \in T PROVE l + 1 \in T
  <2>1. PICK s : IsRowTimes(s, row, column, l)
    BY <1>2
  <2> DEFINE F(q, k) == Plus(q, row[k], Element("b", k, column))
             r == [k \in 0 .. l + 1 |-> IF k = l + 1 THEN F(s[l], l) ELSE s[k]]
  <2>2. s = [k \in 0 .. l |-> IF k = 0 THEN <<>> ELSE F(s[k - 1], k - 1)]
    BY <2>1 DEF IsRowTimes
  <2> HIDE DEF F
  <2>3. ASSUME NEW k \in 0 .. l + 1
        PROVE  r[k] = IF k = 0 THEN <<>> ELSE F(r[k - 1], k - 1)
    <3>1. CASE k = 0
      BY <2>2, <3>1
    <3>2. CASE k = l + 1
      <4>1. r[k] = F(s[l], l) /\ k - 1 = l /\ r[l] = s[l] /\ k # 0
        BY <3>2
      <4> QED
        BY <4>1
    <3>3. CASE k \in 1 .. l
      <4>1. r[k] = s[k] /\ r[k - 1] = s[k - 1]
        BY <3>3
      <4>2. s[k] = F(s[k - 1], k - 1)
        BY <2>2, <3>3
      <4> QED
        BY <3>3, <4>1, <4>2
    <3> QED
      BY <3>1, <3>2, <3>3
  <2>4. r = [k \in 0 .. l + 1 |-> r[k]]
    OBVIOUS
  <2> HIDE DEF r
  <2>5. r = [k \in 0 .. l + 1 |-> IF k = 0 THEN <<>> ELSE F(r[k - 1], k - 1)]
    BY <2>3, <2>4
  <2>6. IsRowTimes(r, row, column, l + 1)
    BY <2>5 DEF IsRowTimes, F
  <2> QED
    BY <2>6
<1> HIDE DEF T
<1>3. \A l \in Nat : l \in T
  BY <1>1, <1>2, Induction
<1> QED
  BY <1>3 DEF T

\* What a thread without tiles computes for element e, given the row of A.
LEMMA ProductIs ==
    ASSUME n \in Nat \ {0}, file \notin Tiled, NEW e \in Square(n), NEW row,
           \A k \in 0 .. n - 1 : row[k] = Element("a", e[1], k)
    PROVE  /\ Product(row, e[2]) \in Seq(Terms) /\ InStep(Product(row, e[2]), e)
           /\ Copied => Product(row, e[2]) = matmult(e[1], e[2])
<1> DEFINE s == CHOOSE r : IsRowTimes(r, row, e[2], n)
<1>1. Product(row, e[2]) = s[n]
  BY DEF Product, IsRowTimes
<1>2. IsRowTimes(s, row, e[2], n)
  BY RowTimesExists
<1> HIDE DEF s
<1>3. newn = n /\ e \in Nat \X Nat
  BY DEF newn, Square
<1> DEFINE T == {k \in Nat : k <= n => SumOf(s[k], e, k)}
<1>4. 0 \in T
  <2>1. s[0] = <<>>
    BY <1>2 DEF IsRowTimes
  <2>2. <<>> \in Seq(Terms) /\ Len(<<>>) = 0 /\ DOMAIN <<>> = {}
    OBVIOUS
  <2>3. SumOf(<<>>, e, 0)
    BY <2>2 DEF SumOf, InStep
  <2> QED
    BY <2>1, <2>3
<1>5. ASSUME NEW k \in Nat, k \in T PROVE k + 1 \in T
  <2> SUFFICES ASSUME k + 1 <= n PROVE SumOf(s[k + 1], e, k + 1)
    OBVIOUS
  <2>1. k + 1 \in 0 .. n /\ k + 1 # 0 /\ k + 1 - 1 = k /\ k \in 0 .. n - 1 /\ k < n
    OBVIOUS
  <2>2. s[k + 1] = Plus(s[k], row[k], Element("b", k, e[2]))
    BY <1>2, <2>1 DEF IsRowTimes
  <2>3. row[k] = Element("a", e[1], k)
    BY <2>1
  <2>4. SumOf(s[k], e, k)
    BY <1>5, <2>1
  <2>5. SumOf(Plus(s[k], Element("a", e[1], k), Element("b", k, e[2])), e, k + 1)
    BY <1>3, <2>1, <2>4, AddOne
  <2> QED
    BY <2>2, <2>3, <2>5
<1> HIDE DEF T
<1>6. \A k \in Nat : k \in T
  BY <1>4, <1>5, Induction
<1>7. SumOf(s[n], e, n)
  BY <1>6 DEF T
<1>8. Copied => s[n] = matmult(e[1], e[2])
  BY <1>7, FullSum
<1> QED
  BY <1>1, <1>7, <1>8 DEF SumOf

-----------------------------------------------------------------------------
(* The host and the blocks of the kernels without tiles. *)

LEMMA PlainCallIs ==
    ASSUME file \notin Tiled, next \in 1 .. 10
    PROVE  /\ Call = "launch" <=> next = 6
           /\ Call = "run" <=> next = 7
           /\ Call = "copy_c" <=> next = 8
           /\ Call = "compare" <=> next = 9
           /\ Call = "end" <=> next = 10
           /\ next <= 5 => Calls[next] \in {"malloc_a", "malloc_b", "malloc_c", "copy_a", "copy_b"}
           /\ Calls[1] = "malloc_a" /\ Calls[2] = "malloc_b" /\ Calls[3] = "malloc_c"
           /\ Calls[4] = "copy_a" /\ Calls[5] = "copy_b" /\ Calls[6] = "launch"
<1> DEFINE T == << "malloc_a", "malloc_b", "malloc_c", "copy_a", "copy_b",
                  "launch", "run", "copy_c", "compare", "end" >>
<1>1. Calls = T
  BY DEF Calls
<1>2. /\ T[1] = "malloc_a" /\ T[2] = "malloc_b" /\ T[3] = "malloc_c" /\ T[4] = "copy_a"
      /\ T[5] = "copy_b" /\ T[6] = "launch" /\ T[7] = "run" /\ T[8] = "copy_c"
      /\ T[9] = "compare" /\ T[10] = "end"
  OBVIOUS
<1> HIDE DEF T
<1>3. next \in {1, 2, 3, 4, 5, 6, 7, 8, 9, 10}
  OBVIOUS
<1> QED
  BY <1>1, <1>2, <1>3 DEF Call

LEMMA PlainAllCalls ==
    ASSUME PlainHostInv, faults = 0
    PROVE  /\ "context" \in done
           /\ next >= 4 => {"malloc_a", "malloc_b", "malloc_c"} \subseteq done
           /\ next >= 7 => Copied
  BY PlainCallIs DEF PlainHostInv, Copied, Tiled, Flat, Rows

\* What depends on the file and on n only.
LEMMA PlainSame ==
    ASSUME UNCHANGED <<file, n>>
    PROVE  /\ Up(n)' = Up(n) /\ Calls' = Calls /\ Blocks' = Blocks /\ Threads' = Threads
           /\ \A e : Home(e)' = Home(e) /\ Lane(e)' = Lane(e) /\ Turn(e)' = Turn(e)
           /\ \A i, j : matmult(i, j)' = matmult(i, j)
  BY DEF Up, Calls, Blocks, Threads, Home, Lane, Turn, matmult

LEMMA PlainHostStep ==
    ASSUME PlainHostInv, PlainResultInv, HostCall
    PROVE  PlainHostInv' /\ PlainResultInv' /\ block' = <<>>
<1>0. file \notin Tiled
  BY DEF PlainHostInv, Tiled, Flat, Rows
<1>1. next \in 1 .. 5 /\ next' = next + 1 /\ UNCHANGED <<file, n, kernel, c>>
  BY <1>0, PlainCallIs DEF HostCall, PlainHostInv
<1>2. UNCHANGED <<todo, block, cc, c, n, file>> /\ Calls' = Calls /\ Blocks' = Blocks
  BY <1>1, PlainSame DEF kernel
<1>3. faults' \in Nat /\ done \subseteq done' /\ (faults' = 0 => faults = 0)
  BY DEF HostCall, PlainHostInv
<1>4. faults' = 0 => Calls[next] \in done'
  <2> SUFFICES ASSUME faults' = 0 PROVE Calls[next] \in done'
    OBVIOUS
  <2>1. Needs(Call) \subseteq done
    <3>1. "malloc_a" \in done \/ next <= 1
      BY <1>0, <1>1, <1>3, PlainCallIs DEF PlainHostInv
    <3>2. "malloc_b" \in done \/ next <= 2
      BY <1>0, <1>1, <1>3, PlainCallIs DEF PlainHostInv
    <3> QED
      BY <1>0, <1>1, <3>1, <3>2, PlainCallIs DEF Needs, Call, Calls
  <2> QED
    BY <2>1 DEF HostCall, PlainHostInv, Call
<1>5. PlainHostInv'
  BY <1>1, <1>2, <1>3, <1>4 DEF PlainHostInv
<1>6. PlainResultInv'
  BY <1>1, <1>2 DEF PlainResultInv, InStep
<1> QED
  BY <1>1, <1>2, <1>5, <1>6 DEF PlainHostInv

LEMMA PlainLaunchStep ==
    ASSUME PlainHostInv, PlainResultInv, Launch
    PROVE  PlainHostInv' /\ PlainResultInv' /\ block' = <<>>
<1>0. file \notin Tiled
  BY DEF PlainHostInv, Tiled, Flat, Rows
<1>1. /\ next = 6 /\ next' = 7 /\ UNCHANGED <<file, n, block, loop, step, cc, c>>
      /\ block = <<>> /\ todo = {}
  BY <1>0, PlainCallIs DEF Launch, PlainHostInv
<1>2. /\ Calls' = Calls /\ Blocks' = Blocks
      /\ \A e : Home(e)' = Home(e)
  BY <1>1, PlainSame
<1>3. faults' \in Nat /\ (faults' = 0 => faults = 0)
  BY DEF Launch, PlainHostInv
<1>4. faults' = 0 => todo' = Blocks /\ done' = done \cup {"launch"}
  BY <1>1, <1>3, PlainAllCalls DEF Launch, PlainHostInv
<1>5. todo' \subseteq Blocks
  BY <1>1 DEF Launch
<1>6. PlainHostInv'
  <2>1. \A k \in 1 .. 6 : k < 6 \/ k = 6
    OBVIOUS
  <2>2. faults' = 0 => \A k \in 1 .. 6 : Calls[k] \in done'
    BY <1>0, <1>1, <1>3, <1>4, <2>1, PlainCallIs DEF PlainHostInv
  <2> QED
    BY <1>1, <1>2, <1>3, <1>4, <1>5, <2>2 DEF PlainHostInv
<1>7. faults' = 0 => \A e \in Square(n) : Pending(e)'
  BY <1>2, <1>4, HomeIsBlock DEF Pending
<1>8. PlainResultInv'
  BY <1>1, <1>2, <1>3, <1>7 DEF PlainResultInv, InStep
<1> QED
  BY <1>1, <1>6, <1>8

\* The kernel has ended: nothing is pending.
LEMMA PlainHostEnds ==
    ASSUME PlainHostInv, PlainResultInv, KernelEnd \/ CopyBack \/ compare_mat
    PROVE  PlainHostInv' /\ PlainResultInv' /\ block' = <<>>
<1>0. file \notin Tiled
  BY DEF PlainHostInv, Tiled, Flat, Rows
<1>1. /\ next \in 7 .. 9 /\ next' = next + 1 /\ block = <<>> /\ todo = {}
      /\ UNCHANGED <<file, n, done, todo, block, loop, step, cc>>
  BY <1>0, PlainCallIs DEF KernelEnd, CopyBack, compare_mat, PlainHostInv, kernel
<1>2. /\ Calls' = Calls /\ Blocks' = Blocks
      /\ \A i, j : matmult(i, j)' = matmult(i, j)
  BY <1>1, PlainSame
<1>3. faults' \in Nat /\ (faults' = 0 => faults = 0)
  BY DEF KernelEnd, CopyBack, compare_mat, PlainHostInv
<1>4. c' = c \/ c' = cc
  BY DEF KernelEnd, CopyBack, compare_mat
<1>5. PlainHostInv'
  BY <1>1, <1>2, <1>3 DEF PlainHostInv
<1>6. faults' = 0 => \A e \in Square(n) : cc[e] = matmult(e[1], e[2])
  <2>1. \A e : ~Pending(e)
    BY <1>1 DEF Pending
  <2> QED
    BY <1>1, <1>3, <2>1 DEF PlainResultInv
<1>7. faults' = 0 /\ next' >= 9 => \A e \in Square(n) : c'[e] = matmult(e[1], e[2])
  <2> SUFFICES ASSUME faults' = 0, next' >= 9
               PROVE  \A e \in Square(n) : c'[e] = matmult(e[1], e[2])
    OBVIOUS
  <2>1. CASE next = 8
    <3>1. Needs("copy_c") \subseteq done
      BY <1>3, <2>1, PlainAllCalls DEF Needs
    <3>2. c' = cc
      BY <1>0, <1>3, <2>1, <3>1, PlainCallIs
      DEF KernelEnd, CopyBack, compare_mat, PlainHostInv
    <3> QED
      BY <1>6, <3>2
  <2>2. CASE next = 9
    BY <1>0, <1>3, <2>2, PlainCallIs
    DEF KernelEnd, CopyBack, compare_mat, PlainResultInv, PlainHostInv
  <2> QED
    BY <1>1, <2>1, <2>2
<1>8. PlainResultInv'
  <2>1. c' \in [Square(n) -> Seq(Terms)] /\ \A e \in Square(n) : InStep(cc[e], e) /\ InStep(c'[e], e)
    BY <1>4 DEF PlainResultInv
  <2> QED
    BY <1>1, <1>2, <1>6, <1>7, <2>1 DEF PlainResultInv, InStep
<1> QED
  BY <1>1, <1>5, <1>8

LEMMA PlainStartStep ==
    ASSUME PlainHostInv, PlainResultInv, StartBlock
    PROVE  PlainHostInv' /\ PlainResultInv' /\ PlainBlockInv'
<1>a. file \notin Tiled
  BY DEF PlainHostInv, Tiled, Flat, Rows
<1>0. PICK b \in todo : block' = <<b>> /\ todo' = todo \ {b}
  BY DEF StartBlock
<1>1. /\ next = 7 /\ block = <<>> /\ b \in Blocks /\ todo \subseteq Blocks
      /\ UNCHANGED <<file, n, next, done, faults, cc, c>> /\ n \in Nat \ {0}
  BY <1>a, PlainCallIs DEF StartBlock, PlainHostInv
<1>2. /\ Calls' = Calls /\ Blocks' = Blocks /\ Threads' = Threads
      /\ \A e : Home(e)' = Home(e) /\ Lane(e)' = Lane(e) /\ Turn(e)' = Turn(e)
      /\ \A i, j : matmult(i, j)' = matmult(i, j)
  BY <1>1, PlainSame
<1>3. PlainHostInv'
  BY <1>0, <1>1, <1>2 DEF PlainHostInv
<1>4. /\ loop' = [t \in Threads |-> 0] /\ step' = [t \in Threads |-> 0]
      /\ matA' = [e \in {0} \X (0 .. n - 1) |-> Garbage]
  BY <1>a DEF StartBlock, Shared
<1>5. ASSUME NEW e \in Square(n), Pending(e) PROVE Pending(e)'
  <2>1. Home(e) \in todo
    BY <1>1, <1>5 DEF Pending
  <2>2. CASE Home(e) = b
    <3>1. loop'[Lane(e)] <= Turn(e)
      BY <1>4, PlaceOf
    <3> QED
      BY <1>0, <1>2, <2>2, <3>1 DEF Pending
  <2>3. CASE Home(e) # b
    BY <1>0, <1>2, <2>1, <2>3 DEF Pending
  <2> QED
    BY <2>2, <2>3
<1>6. PlainResultInv'
  BY <1>1, <1>2, <1>5 DEF PlainResultInv, InStep
<1>7. PlainBlockInv'
  <2>1. Garbage \in Elements
    BY DEF Elements
  <2>2. \A j \in 0 .. n - 1 : step'[j % BLOCK_SIZE] = 0 /\ ~(j \div BLOCK_SIZE < 0)
    <3> SUFFICES ASSUME NEW j \in 0 .. n - 1
                 PROVE  step'[j % BLOCK_SIZE] = 0 /\ ~(j \div BLOCK_SIZE < 0)
      OBVIOUS
    <3>1. j \in Nat /\ Threads = 0 .. BLOCK_SIZE - 1
      BY <1>a DEF Threads
    <3>2. j % BLOCK_SIZE \in Threads /\ j \div BLOCK_SIZE \in Nat
      BY <3>1, LoopPlace
    <3> QED
      BY <1>4, <3>2
  <2> QED
    BY <1>1, <1>2, <1>4, <2>1, <2>2 DEF PlainBlockInv
<1> QED
  BY <1>3, <1>6, <1>7

\* What a thread's step leaves alone.
LEMMA PlainStill ==
    ASSUME PlainHostInv, Running, Still
    PROVE  /\ UNCHANGED <<file, n, next, done, faults, todo, block, c>> /\ next = 7
           /\ PlainHostInv' /\ bid' = bid /\ block = <<bid>> /\ bid \in Blocks
           /\ n \in Nat \ {0} /\ BLOCK_SIZE \in Nat \ {0} /\ file \notin Tiled
           /\ Threads = 0 .. BLOCK_SIZE - 1 /\ Threads' = Threads
           /\ \A e : Home(e)' = Home(e) /\ Lane(e)' = Lane(e) /\ Turn(e)' = Turn(e)
           /\ \A i, j : matmult(i, j)' = matmult(i, j)
           /\ \A m, i, j : Element(m, i, j)' = Element(m, i, j)
<1>0. file \notin Tiled
  BY DEF PlainHostInv, Tiled, Flat, Rows
<1>1. UNCHANGED <<file, n, next, done, faults, todo, block, c>> /\ next = 7 /\ block # <<>>
  BY <1>0, PlainCallIs DEF Still, Running, PlainHostInv
<1>2. /\ Calls' = Calls /\ Blocks' = Blocks /\ Threads' = Threads
      /\ \A e : Home(e)' = Home(e) /\ Lane(e)' = Lane(e) /\ Turn(e)' = Turn(e)
      /\ \A i, j : matmult(i, j)' = matmult(i, j)
  BY <1>1, PlainSame
<1>3. PlainHostInv'
  BY <1>1, <1>2 DEF PlainHostInv
<1>4. bid' = bid /\ block = <<bid>> /\ bid \in Blocks
  BY <1>1 DEF PlainHostInv, bid
<1>5. \A m, i, j : Element(m, i, j)' = Element(m, i, j)
  BY <1>1 DEF Element, newn, Up
<1>6. Threads = 0 .. BLOCK_SIZE - 1 /\ n \in Nat \ {0} /\ BLOCK_SIZE \in Nat \ {0}
  BY <1>0, SizeAssumption DEF Threads, PlainHostInv
<1> QED
  BY <1>0, <1>1, <1>2, <1>3, <1>4, <1>5, <1>6

\* Thread t of the running block stores what it computes in this turn: elements that
\* are not stored keep their value, one whose turn it is gets the right one.
LEMMA PlainStore ==
    ASSUME PlainHostInv, PlainResultInv, PlainBlockInv, Running, Still, NEW t \in Threads,
           loop' = [loop EXCEPT ![t] = loop[t] + 1],
           cc' \in [Square(n) -> Seq(Terms)],
           \A e \in Square(n) :
              \/ cc'[e] = cc[e]
              \/ InStep(cc'[e], e) /\ (Copied => cc'[e] = matmult(e[1], e[2])),
           \A e \in Square(n) :
              Home(e) = bid /\ Lane(e) = t /\ Turn(e) = loop[t] /\ Copied =>
                 cc'[e] = matmult(e[1], e[2])
    PROVE  PlainResultInv'
<1>1. /\ UNCHANGED <<file, n, next, done, faults, todo, block, c>> /\ next = 7
      /\ block = <<bid>>
      /\ \A e : Home(e)' = Home(e) /\ Lane(e)' = Lane(e) /\ Turn(e)' = Turn(e)
      /\ \A i, j : matmult(i, j)' = matmult(i, j)
  BY PlainStill
<1>2. loop \in [Threads -> Nat]
  BY DEF PlainBlockInv
<1>3. \A e \in Square(n) : InStep(cc'[e], e)
  BY DEF PlainResultInv
<1>4. ASSUME faults = 0, NEW e \in Square(n), ~Pending(e)'
      PROVE  cc'[e] = matmult(e[1], e[2])
  <2>1. Copied
    BY <1>1, <1>4, PlainAllCalls
  <2>2. CASE Pending(e)
    <3>1. Home(e) \notin todo
      BY <1>1, <1>4 DEF Pending
    <3>2. block = <<Home(e)>> /\ loop[Lane(e)] <= Turn(e)
      BY <2>2, <3>1 DEF Pending
    <3>3. ~(loop'[Lane(e)] <= Turn(e))
      BY <1>1, <1>4, <3>2 DEF Pending
    <3>4. Lane(e) \in Threads /\ Turn(e) \in Nat
      BY PlaceOf
    <3>5. Lane(e) = t /\ Turn(e) = loop[t]
      BY <1>2, <3>2, <3>3, <3>4
    <3>6. Home(e) = bid
      BY <1>1, <3>2
    <3> QED
      BY <2>1, <3>5, <3>6
  <2>3. CASE ~Pending(e)
    <3>1. cc[e] = matmult(e[1], e[2])
      BY <1>1, <1>4, <2>3 DEF PlainResultInv
    <3> QED
      BY <2>1, <3>1
  <2> QED
    BY <2>2, <2>3
<1>5. \A e \in Square(n) : InStep(cc[e], e)' /\ InStep(c[e], e)'
  BY <1>1, <1>3 DEF InStep, PlainResultInv
<1> QED
  BY <1>1, <1>4, <1>5 DEF PlainResultInv

LEMMA OneElementStep ==
    ASSUME PlainHostInv, PlainResultInv, PlainBlockInv, NEW t \in Threads, OneElement(t)
    PROVE  PlainHostInv' /\ PlainResultInv' /\ PlainBlockInv'
<1>0. Running /\ Still /\ file \in Flat /\ loop[t] = 0 /\ UNCHANGED <<step, matA>>
  BY DEF OneElement
<1>1. /\ UNCHANGED <<file, n>> /\ PlainHostInv' /\ bid' = bid /\ bid \in Blocks
      /\ n \in Nat \ {0} /\ BLOCK_SIZE \in Nat \ {0} /\ file \notin Tiled
      /\ Threads = 0 .. BLOCK_SIZE - 1 /\ Threads' = Threads
  BY <1>0, PlainStill
<1>2. loop' = [loop EXCEPT ![t] = loop[t] + 1] /\ loop \in [Threads -> Nat]
  BY <1>0 DEF OneElement, PlainBlockInv
<1>3. PlainBlockInv'
  <2>1. file \notin Rows
    BY <1>0 DEF Flat, Rows
  <2>2. loop' \in [Threads -> Nat] /\ \A u \in Threads : loop'[u] \in {0, 1}
    BY <1>0, <1>2 DEF PlainBlockInv
  <2> QED
    BY <1>0, <1>1, <2>1, <2>2 DEF PlainBlockInv
<1> DEFINE idx == bid * BLOCK_SIZE + t
           row == idx \div n
           column == idx % n
           a_row == [k \in 0 .. n - 1 |-> Element("a", row, k)]
           p == <<row, column>>
<1>4. bid \in Nat /\ idx \in Nat
  <2>1. Up(n) * n - 1 \in Int /\ bid \in 0 .. Up(n) * n - 1
    <3>1. Up(n) \in Nat
      BY <1>1, UpFacts
    <3> QED
      BY <1>0, <1>1, <3>1 DEF Blocks
  <2>2. bid \in Nat
    BY <2>1
  <2>3. bid * BLOCK_SIZE \in Nat
    BY <1>1, <2>2
  <2> QED
    BY <1>1, <2>2, <2>3
<1>5. row \in Nat /\ column \in 0 .. n - 1
  BY <1>1, <1>4, Division
<1>6. cc' = IF row < n /\ column < n THEN [cc EXCEPT ![p] = Product(a_row, column)] ELSE cc
  BY DEF OneElement
<1>7. cc \in [Square(n) -> Seq(Terms)]
  BY DEF PlainResultInv
<1>8. ASSUME NEW e \in Square(n), Home(e) = bid, Lane(e) = t PROVE e = p /\ row < n
  <2>1. e[1] \in 0 .. n - 1 /\ e[2] \in 0 .. n - 1 /\ e = <<e[1], e[2]>>
    BY DEF Square
  <2> DEFINE x == e[1] * n + e[2]
  <2>2. x \in Nat
    BY <1>1, <2>1
  <2>3. x \div BLOCK_SIZE = bid /\ x % BLOCK_SIZE = t
    BY <1>0, <1>8 DEF Home, Lane
  <2>4. x = (x % BLOCK_SIZE) + (x \div BLOCK_SIZE) * BLOCK_SIZE
    <3> HIDE DEF x
    <3> QED
      BY <1>1, <2>2, Division
  <2>5. x = t + bid * BLOCK_SIZE
    <3> HIDE DEF x
    <3> QED
      BY <2>3, <2>4
  <2>6. x = idx
    <3> HIDE DEF x
    <3>1. bid * BLOCK_SIZE \in Nat
      BY <1>1, <1>4
    <3> QED
      BY <1>1, <2>5, <3>1
  <2>7. x \div n = e[1] /\ x % n = e[2]
    BY <1>1, <2>1, DivisionUnique
  <2> HIDE DEF x, idx
  <2> QED
    BY <1>1, <2>1, <2>6, <2>7
<1> HIDE DEF idx
<1>9. ASSUME row < n
      PROVE  /\ p \in Square(n) /\ Product(a_row, column) \in Seq(Terms)
             /\ InStep(Product(a_row, column), p)
             /\ Copied => Product(a_row, column) = matmult(row, column)
  <2>1. p \in Square(n) /\ p[1] = row /\ p[2] = column
    BY <1>1, <1>5, <1>9 DEF Square
  <2>2. \A k \in 0 .. n - 1 : a_row[k] = Element("a", p[1], k)
    BY <2>1
  <2> HIDE DEF a_row, p, row, column
  <2>3. /\ Product(a_row, p[2]) \in Seq(Terms) /\ InStep(Product(a_row, p[2]), p)
        /\ Copied => Product(a_row, p[2]) = matmult(p[1], p[2])
    BY <1>1, <2>1, <2>2, ProductIs
  <2> QED
    BY <2>1, <2>3
<1>10. column < n
  BY <1>1, <1>5
<1>11. p[1] = row /\ p[2] = column
  OBVIOUS
<1> HIDE DEF a_row, p, row, column
<1>12. cc' \in [Square(n) -> Seq(Terms)]
  BY <1>6, <1>7, <1>9
<1>13. ASSUME NEW e \in Square(n)
       PROVE  /\ \/ cc'[e] = cc[e]
                 \/ InStep(cc'[e], e) /\ (Copied => cc'[e] = matmult(e[1], e[2]))
              /\ Home(e) = bid /\ Lane(e) = t /\ Turn(e) = loop[t] /\ Copied =>
                    cc'[e] = matmult(e[1], e[2])
  <2>1. CASE e = p /\ row < n
    <3>1. cc'[e] = Product(a_row, column)
      BY <1>6, <1>7, <1>9, <1>10, <2>1
    <3> QED
      BY <1>9, <1>11, <2>1, <3>1
  <2>2. CASE ~(e = p /\ row < n)
    <3>1. cc'[e] = cc[e]
      BY <1>6, <1>7, <2>2
    <3> QED
      BY <1>8, <2>2, <3>1
  <2> QED
    BY <2>1, <2>2
<1>14. PlainResultInv'
  BY <1>0, <1>2, <1>12, <1>13, PlainStore
<1> QED
  BY <1>1, <1>3, <1>14

LEMMA LoadRowStep ==
    ASSUME PlainHostInv, PlainResultInv, PlainBlockInv, NEW t \in Threads, LoadRow(t)
    PROVE  PlainHostInv' /\ PlainResultInv' /\ PlainBlockInv'
<1>0. Running /\ Still /\ file \in Rows /\ UNCHANGED <<loop, cc>> /\ At(t, step[t]) < n
  BY DEF LoadRow
<1>1. /\ UNCHANGED <<file, n, next, faults, todo, block, c>> /\ PlainHostInv' /\ bid' = bid
      /\ n \in Nat \ {0} /\ BLOCK_SIZE \in Nat \ {0} /\ bid \in Nat
      /\ Threads = 0 .. BLOCK_SIZE - 1 /\ Threads' = Threads
      /\ \A e : Home(e)' = Home(e) /\ Lane(e)' = Lane(e) /\ Turn(e)' = Turn(e)
      /\ \A i, j : matmult(i, j)' = matmult(i, j)
      /\ \A m, i, j : Element(m, i, j)' = Element(m, i, j)
  BY <1>0, PlainStill DEF Blocks, Flat, Rows
<1>2. PlainResultInv'
  BY <1>0, <1>1 DEF PlainResultInv, InStep, Pending
<1> DEFINE l == At(t, step[t])
<1>3. step \in [Threads -> Nat] /\ matA \in [{0} \X (0 .. n - 1) -> Elements]
  BY <1>0 DEF PlainBlockInv
<1>4. l \in 0 .. n - 1
  <2>1. step[t] \in Nat /\ step[t] * BLOCK_SIZE \in Nat /\ t \in Nat
    BY <1>1, <1>3
  <2> QED
    BY <1>0, <1>1, <2>1 DEF At
<1>5. /\ matA' = [matA EXCEPT ![<<0, l>>] = Element("a", bid, l)]
      /\ step' = [step EXCEPT ![t] = step[t] + 1]
  BY DEF LoadRow
<1>6. ASSUME NEW j \in 0 .. n - 1, j % BLOCK_SIZE = t, j \div BLOCK_SIZE = step[t] PROVE j = l
  BY <1>6, LoopPlace
<1> HIDE DEF l
<1>7. Element("a", bid, l) \in Elements
  BY <1>1, <1>4, ElementIs
<1>8. step' \in [Threads -> Nat] /\ matA' \in [{0} \X (0 .. n - 1) -> Elements]
  BY <1>3, <1>4, <1>5, <1>7
<1>9. ASSUME NEW j \in 0 .. n - 1, j \div BLOCK_SIZE < step'[j % BLOCK_SIZE]
      PROVE  matA'[<<0, j>>] = Element("a", bid, j)
  <2>1. CASE j = l
    BY <1>3, <1>4, <1>5, <2>1
  <2>2. CASE j # l
    <3>0. j \in Nat
      BY <1>1
    <3>1. j % BLOCK_SIZE \in Threads /\ j \div BLOCK_SIZE \in Nat
      BY <1>1, <3>0, LoopPlace
    <3>2. j \div BLOCK_SIZE < step[j % BLOCK_SIZE]
      BY <1>3, <1>5, <1>6, <1>9, <2>2, <3>1
    <3>3. matA'[<<0, j>>] = matA[<<0, j>>]
      BY <1>3, <1>5, <2>2
    <3> QED
      BY <1>0, <3>2, <3>3 DEF PlainBlockInv
  <2> QED
    BY <2>1, <2>2
<1>10. PlainBlockInv'
  BY <1>0, <1>1, <1>8, <1>9 DEF PlainBlockInv
<1> QED
  BY <1>1, <1>2, <1>10

LEMMA ColumnStep ==
    ASSUME PlainHostInv, PlainResultInv, PlainBlockInv, NEW t \in Threads, Column(t)
    PROVE  PlainHostInv' /\ PlainResultInv' /\ PlainBlockInv'
<1> DEFINE j == At(t, loop[t])
           data == [k \in 0 .. n - 1 |-> matA[<<0, k>>]]
           p == <<bid, j>>
<1>0. /\ Running /\ Still /\ file \in Rows /\ UNCHANGED <<step, matA>> /\ j < n
      /\ \A u \in Threads : At(u, step[u]) >= n
  BY DEF Column
<1>1. /\ UNCHANGED <<file, n>> /\ PlainHostInv' /\ bid' = bid /\ bid \in 0 .. n - 1
      /\ n \in Nat \ {0} /\ BLOCK_SIZE \in Nat \ {0} /\ file \notin Tiled /\ file \notin Flat
      /\ Threads = 0 .. BLOCK_SIZE - 1 /\ Threads' = Threads
      /\ \A m, i, k : Element(m, i, k)' = Element(m, i, k)
  BY <1>0, PlainStill DEF Blocks, Flat, Rows
<1>2. loop' = [loop EXCEPT ![t] = loop[t] + 1] /\ loop \in [Threads -> Nat]
  BY DEF Column, PlainBlockInv
<1>3. PlainBlockInv'
  <2>1. loop' \in [Threads -> Nat]
    BY <1>2
  <2> QED
    BY <1>0, <1>1, <2>1 DEF PlainBlockInv
<1>4. j \in 0 .. n - 1
  <2>1. loop[t] \in Nat /\ loop[t] * BLOCK_SIZE \in Nat /\ t \in Nat
    BY <1>1, <1>2
  <2> QED
    BY <1>0, <1>1, <2>1 DEF At
<1>5. p \in Square(n) /\ p[1] = bid /\ p[2] = j
  BY <1>1, <1>4 DEF Square
<1>6. \A k \in 0 .. n - 1 : data[k] = Element("a", bid, k)
  <2> SUFFICES ASSUME NEW k \in 0 .. n - 1 PROVE data[k] = Element("a", bid, k)
    OBVIOUS
  <2>0. k \in Nat
    BY <1>1
  <2>1. k % BLOCK_SIZE \in Threads
    BY <1>1, <2>0, LoopPlace
  <2>2. step[k % BLOCK_SIZE] \in Nat
    BY <2>1 DEF PlainBlockInv
  <2>3. k \div BLOCK_SIZE < step[k % BLOCK_SIZE]
    BY <1>0, <1>1, <2>1, <2>2, LoopPassed
  <2> QED
    BY <1>0, <2>3 DEF PlainBlockInv
<1>7. cc' = [cc EXCEPT ![p] = Product(data, j)] /\ cc \in [Square(n) -> Seq(Terms)]
  BY DEF Column, PlainResultInv
<1>8. ASSUME NEW e \in Square(n), Home(e) = bid, Lane(e) = t, Turn(e) = loop[t] PROVE e = p
  <2>1. e = <<e[1], e[2]>> /\ e[2] \in Nat
    BY <1>1 DEF Square
  <2>2. e[1] = bid /\ e[2] % BLOCK_SIZE = t /\ e[2] \div BLOCK_SIZE = loop[t]
    BY <1>1, <1>8 DEF Home, Lane, Turn
  <2>3. e[2] = j
    BY <2>1, <2>2, LoopPlace
  <2> QED
    BY <2>1, <2>2, <2>3
<1> HIDE DEF j, data, p
<1>9. /\ Product(data, j) \in Seq(Terms) /\ InStep(Product(data, j), p)
      /\ Copied => Product(data, j) = matmult(p[1], p[2])
  <2>1. \A k \in 0 .. n - 1 : data[k] = Element("a", p[1], k)
    BY <1>5, <1>6
  <2>2. /\ Product(data, p[2]) \in Seq(Terms) /\ InStep(Product(data, p[2]), p)
        /\ Copied => Product(data, p[2]) = matmult(p[1], p[2])
    BY <1>1, <1>5, <2>1, ProductIs
  <2> QED
    BY <1>5, <2>2
<1>10. cc' \in [Square(n) -> Seq(Terms)]
  BY <1>7, <1>9
<1>11. ASSUME NEW e \in Square(n)
       PROVE  /\ \/ cc'[e] = cc[e]
                 \/ InStep(cc'[e], e) /\ (Copied => cc'[e] = matmult(e[1], e[2]))
              /\ Home(e) = bid /\ Lane(e) = t /\ Turn(e) = loop[t] /\ Copied =>
                    cc'[e] = matmult(e[1], e[2])
  <2>1. CASE e = p
    <3>1. cc'[e] = Product(data, j)
      BY <1>7, <2>1
    <3> QED
      BY <1>9, <2>1, <3>1
  <2>2. CASE e # p
    <3>1. cc'[e] = cc[e]
      BY <1>7, <2>2
    <3> QED
      BY <1>8, <2>2, <3>1
  <2> QED
    BY <2>1, <2>2
<1>12. PlainResultInv'
  BY <1>0, <1>2, <1>10, <1>11, PlainStore
<1> QED
  BY <1>1, <1>3, <1>12

LEMMA PlainEndStep ==
    ASSUME PlainHostInv, PlainResultInv, PlainBlockInv, EndBlock
    PROVE  PlainHostInv' /\ PlainResultInv' /\ block' = <<>>
<1>0. file \notin Tiled
  BY DEF PlainHostInv, Tiled, Flat, Rows
<1>1. /\ block' = <<>> /\ UNCHANGED <<file, n, next, done, faults, todo, cc, c>>
      /\ n \in Nat \ {0} /\ Threads = 0 .. BLOCK_SIZE - 1
  BY <1>0 DEF EndBlock, PlainHostInv, Threads
<1>2. /\ Calls' = Calls /\ Blocks' = Blocks
      /\ \A e : Home(e)' = Home(e)
      /\ \A i, j : matmult(i, j)' = matmult(i, j)
  BY <1>1, PlainSame
<1>3. PlainHostInv'
  BY <1>1, <1>2 DEF PlainHostInv
<1>4. ASSUME NEW e \in Square(n), Pending(e) PROVE Pending(e)'
  <2>1. Lane(e) \in Threads /\ Turn(e) \in Nat /\ loop[Lane(e)] \in Nat
    BY PlaceOf DEF PlainBlockInv
  <2>2. ThreadEnded(Lane(e))
    BY <2>1 DEF EndBlock
  <2>3. Turn(e) < loop[Lane(e)]
    <3>1. CASE file \in Flat
      BY <1>0, <2>2, <3>1 DEF ThreadEnded, Turn, Flat, Rows
    <3>2. CASE file \notin Flat
      <4>1. At(Lane(e), loop[Lane(e)]) >= n
        BY <1>0, <2>2, <3>2 DEF ThreadEnded
      <4>2. Lane(e) = e[2] % BLOCK_SIZE /\ Turn(e) = e[2] \div BLOCK_SIZE
        BY <3>2 DEF Lane, Turn
      <4>3. e[2] \in 0 .. n - 1
        BY DEF Square
      <4> QED
        BY <1>1, <2>1, <4>1, <4>2, <4>3, LoopPassed
    <3> QED
      BY <3>1, <3>2
  <2>4. Home(e) \in todo
    BY <1>4, <2>1, <2>3 DEF Pending
  <2> QED
    BY <1>1, <1>2, <2>4 DEF Pending
<1>5. PlainResultInv'
  BY <1>1, <1>2, <1>4 DEF PlainResultInv, InStep
<1> QED
  BY <1>1, <1>3, <1>5

LEMMA PlainInit == Init => PlainInv
<1> SUFFICES ASSUME Init, file \notin Tiled
             PROVE  PlainHostInv /\ PlainResultInv /\ block = <<>>
  BY DEF PlainInv
<1>1. /\ n \in Nat \ {0} /\ next = 1 /\ faults = 0 /\ todo = {} /\ block = <<>> /\ "context" \in done
      /\ file \in Flat \cup Rows
  BY SizeAssumption DEF Init
<1>2. PlainHostInv
  BY <1>1 DEF PlainHostInv
<1>3. <<Unknown>> \in Seq(Terms) /\ \A e : InStep(<<Unknown>>, e)
  BY DEF Terms, InStep, Unknown
<1>4. PlainResultInv
  BY <1>1, <1>3 DEF Init, PlainResultInv
<1> QED
  BY <1>1, <1>2, <1>4

LEMMA PlainStep == PlainInv /\ [Next]_vars => PlainInv'
<1> SUFFICES ASSUME PlainInv, [Next]_vars, file' \notin Tiled
             PROVE  PlainHostInv' /\ PlainResultInv' /\ (block' # <<>> => PlainBlockInv')
  BY DEF PlainInv
<1>0. file \notin Tiled
  BY DEF Next, Terminated, HostCall, Launch, KernelEnd, CopyBack, compare_mat, StartBlock, EndBlock,
     Load, Multiply, Store, OneElement, LoadRow, Column, Still, vars
<1>1. PlainHostInv /\ PlainResultInv /\ (block # <<>> => PlainBlockInv)
  BY <1>0 DEF PlainInv
<1>2. CASE HostCall \/ Launch \/ KernelEnd \/ CopyBack \/ compare_mat
  BY <1>1, <1>2, PlainHostStep, PlainLaunchStep, PlainHostEnds
<1>3. CASE StartBlock
  BY <1>1, <1>3, PlainStartStep
<1>4. CASE EndBlock
  BY <1>1, <1>4, PlainEndStep DEF EndBlock, Running
<1>5. ASSUME NEW t \in Threads, OneElement(t) \/ LoadRow(t) \/ Column(t)
      PROVE  PlainHostInv' /\ PlainResultInv' /\ PlainBlockInv'
  <2>1. PlainBlockInv
    BY <1>1, <1>5 DEF OneElement, LoadRow, Column, Running
  <2> QED
    BY <1>1, <1>5, <2>1, OneElementStep, LoadRowStep, ColumnStep
<1>6. ASSUME NEW t \in Threads, Load(t) \/ Multiply(t) \/ Store(t)
      PROVE  FALSE
  BY <1>0, <1>6 DEF Load, Multiply, Store
<1>7. CASE UNCHANGED vars
  <2>1. UNCHANGED <<file, n, next, done, faults, todo, block, loop, step, matA, matB, results, cc, c>>
    BY <1>7 DEF vars, kernel
  <2>2. PlainHostInv'
    BY <1>1, <2>1, PlainSame DEF PlainHostInv
  <2>3. PlainResultInv'
    BY <1>1, <2>1, PlainSame DEF PlainResultInv, InStep, Pending
  <2>4. ASSUME PlainBlockInv PROVE PlainBlockInv'
    BY <2>1, <2>4, PlainSame DEF PlainBlockInv, Element, newn, bid
  <2> QED
    BY <1>1, <2>1, <2>2, <2>3, <2>4
<1> QED
  BY <1>2, <1>3, <1>4, <1>5, <1>6, <1>7 DEF Next, Terminated

-----------------------------------------------------------------------------
(* The result. *)

LEMMA TiledInit == Init => TiledInv
<1> SUFFICES ASSUME Init, file \in Tiled PROVE HostInv /\ ResultInv /\ block = <<>>
  BY DEF TiledInv
<1>1. n \in Nat \ {0} /\ next = 1 /\ faults = 0 /\ todo = {} /\ block = <<>> /\ "context" \in done
  BY SizeAssumption DEF Init
<1>2. HostInv
  BY <1>1 DEF HostInv
<1>3. <<Unknown>> \in Seq(Terms) /\ \A e : InStep(<<Unknown>>, e)
  BY DEF Terms, InStep, Unknown
<1>4. ResultInv
  BY <1>1, <1>3 DEF Init, ResultInv
<1> QED
  BY <1>1, <1>2, <1>4

LEMMA TiledStep == TiledInv /\ [Next]_vars => TiledInv'
<1> SUFFICES ASSUME TiledInv, [Next]_vars, file' \in Tiled
             PROVE  HostInv' /\ ResultInv' /\ (block' # <<>> => BlockInv')
  BY DEF TiledInv
<1>0. file \in Tiled
  BY DEF Next, Terminated, HostCall, Launch, KernelEnd, CopyBack, compare_mat, StartBlock, EndBlock,
     Load, Multiply, Store, OneElement, LoadRow, Column, Still, vars
<1>1. HostInv /\ ResultInv /\ (block # <<>> => BlockInv)
  BY <1>0 DEF TiledInv
<1>2. CASE HostCall \/ Launch \/ KernelEnd \/ CopyBack \/ compare_mat
  BY <1>0, <1>1, <1>2, HostStep, LaunchStep, HostEnds
<1>3. CASE StartBlock
  BY <1>0, <1>1, <1>3, StartStep
<1>4. CASE EndBlock
  BY <1>0, <1>1, <1>4, EndStep DEF EndBlock, Running
<1>5. ASSUME NEW t \in Threads, Load(t) \/ Multiply(t) \/ Store(t)
      PROVE  HostInv' /\ ResultInv' /\ (block' # <<>> => BlockInv')
  <2>1. Running /\ Still /\ BlockInv
    BY <1>1, <1>5 DEF Load, Multiply, Store, Running
  <2>2. HostInv'
    BY <1>0, <1>1, <2>1, StillFacts
  <2> QED
    BY <1>0, <1>1, <1>5, <2>1, <2>2, LoadStep, MultiplyStep, StoreStep
<1>6. ASSUME NEW t \in Threads, OneElement(t) \/ LoadRow(t) \/ Column(t)
      PROVE  FALSE
  BY <1>0, <1>6 DEF OneElement, LoadRow, Column, Tiled, Flat, Rows
<1>7. CASE UNCHANGED vars
  <2>1. UNCHANGED <<file, n, next, done, faults, todo, block, loop, step, matA, matB, results, cc, c>>
    BY <1>7 DEF vars, kernel
  <2>2. HostInv' /\ ResultInv'
    BY <1>1, <2>1 DEF HostInv, ResultInv, Up, Calls, Place, matmult, InStep
  <2>3. ASSUME BlockInv PROVE BlockInv'
    <3>1. BarrierInv'
      BY <2>1, <2>3 DEF BlockInv, BarrierInv, Up
    <3>2. TileInv'
      BY <2>1, <2>3 DEF BlockInv, TileInv, Tile, Up, Element, newn, bidr, bidc, bid
    <3>3. SumInv'
      BY <2>1, <2>3 DEF BlockInv, SumInv, SumOf, InStep, Place, Added, Copied, Padded, Up, bid
    <3> QED
      BY <3>1, <3>2, <3>3 DEF BlockInv
  <2> QED
    BY <1>1, <2>1, <2>2, <2>3
<1> QED
  BY <1>2, <1>3, <1>4, <1>5, <1>6, <1>7 DEF Next, Terminated

LEMMA TiledRight == TiledInv /\ file \in Tiled => ProductRight
<1> SUFFICES ASSUME HostInv, ResultInv, block # <<>> => BlockInv, file \in Tiled PROVE ProductRight
  BY DEF TiledInv
<1>1. ASSUME Running, NEW t \in Threads PROVE InStep(results[t], <<t[1] + bidr, t[2] + bidc>>)
  BY <1>1 DEF Running, BlockInv, SumInv, Place, Threads, bidr, bidc
<1>2. ASSUME Call = "compare", NEW e \in Square(n)
      PROVE  InStep(c[e], e) /\ (faults = 0 => c[e] = matmult(e[1], e[2]))
  <2>1. next = 11
    BY <1>2, CallIs DEF HostInv
  <2> QED
    BY <2>1 DEF ResultInv
<1> QED
  BY <1>1, <1>2 DEF ProductRight

LEMMA PlainRight == PlainInv /\ file \notin Tiled => ProductRight
<1> SUFFICES ASSUME PlainHostInv, PlainResultInv, file \notin Tiled PROVE ProductRight
  BY DEF PlainInv
<1>1. ASSUME Call = "compare", NEW e \in Square(n)
      PROVE  InStep(c[e], e) /\ (faults = 0 => c[e] = matmult(e[1], e[2]))
  <2>1. next = 9
    BY <1>1, PlainCallIs DEF PlainHostInv
  <2> QED
    BY <2>1 DEF PlainResultInv
<1> QED
  BY <1>1 DEF ProductRight

\* All six programs (second_cuda*.cu), for every size of the matrices and of the blocks,
\* a multiple or not, and every order of the blocks and their threads: no thread multiplies
\* elements of a tile of another step, no element is left out by the grid, no column is
\* computed from a row that is not loaded yet, and when no call has failed the host compares
\* with the right product.
THEOREM ProductRightAlways == Spec => []ProductRight
<1>1. TiledInv /\ PlainInv => ProductRight
  BY TiledRight, PlainRight
<1> QED
  BY <1>1, TiledInit, TiledStep, PlainInit, PlainStep, PTL DEF Spec

-----------------------------------------------------------------------------
(* No barrier stops everybody. *)

\* A tile before the last begins inside the matrix.
LEMMA TileBegins ==
    ASSUME NEW m \in Nat \ {0}, NEW l \in Nat, l < Up(m)
    PROVE  l * BLOCK_SIZE < m
<1> DEFINE B == BLOCK_SIZE
           q == (m + B - 1) \div B
           r == (m + B - 1) % B
<1>1. B \in Nat \ {0} /\ q = Up(m) /\ m + B - 1 \in Nat
  BY SizeAssumption DEF Up
<1>2. q \in Nat /\ r \in 0 .. B - 1 /\ m + B - 1 = r + q * B
  BY <1>1, Division
<1>3. l + 1 <= q
  BY <1>1, <1>2
<1> HIDE DEF B, q, r
<1>4. (l + 1) * B <= q * B /\ (l + 1) * B = l * B + B
  BY <1>1, <1>2, <1>3
<1>5. l * B \in Nat /\ q * B \in Nat
  BY <1>1, <1>2
<1> QED
  BY <1>1, <1>2, <1>4, <1>5 DEF B

\* A set of numbers has a least one.
LEMMA Least ==
    ASSUME NEW V, V \subseteq Nat, V # {}
    PROVE  \E m \in V : \A k \in V : m <= k
<1> DEFINE R == OpToRel(<, Nat)
<1>1. IsWellFoundedOn(R, Nat)
  BY NatLessThanWellFounded
<1>2. PICK m \in V : \A k \in V : ~ (<<k, m>> \in R)
  <2> HIDE DEF R
  <2> QED
    BY <1>1, WFMin
<1>3. ASSUME NEW k \in V PROVE m <= k
  <2>1. ~ (k < m)
    BY <1>2 DEF OpToRel
  <2> QED
    BY <2>1
<1> QED
  BY <1>3

\* Thread t of the running block is not held by a barrier and has something to do.
Ready(t) ==
    \/ /\ file \in Tiled /\ step[t] = 0 /\ (loop[t] * BLOCK_SIZE < n \/ loop[t] = Up(n))
       /\ \A u \in Threads : loop[u] >= loop[t]
    \/ /\ file \in Tiled /\ step[t] > 0
       /\ \A u \in Threads : loop[u] > loop[t] \/ step[u] > 0
    \/ file \in Flat /\ loop[t] = 0
    \/ file \in Rows /\ At(t, step[t]) < n
    \/ /\ file \in Rows /\ At(t, loop[t]) < n
       /\ \A u \in Threads : At(u, step[u]) >= n

SomeoneRuns == Running => (\A t \in Threads : ThreadEnded(t)) \/ \E t \in Threads : Ready(t)

LEMMA TiledRuns == TiledInv /\ file \in Tiled => SomeoneRuns
<1> SUFFICES ASSUME HostInv, BlockInv, file \in Tiled, Running PROVE SomeoneRuns
  BY DEF TiledInv, SomeoneRuns, Running
<1>1. /\ Threads = Square(BLOCK_SIZE) /\ n \in Nat \ {0} /\ Up(n) \in Nat
      /\ \A t \in Threads : loop[t] \in 0 .. Up(n) + 1 /\ step[t] \in Nat
  <2>1. BLOCK_SIZE \in Nat \ {0} /\ n \in Nat \ {0} /\ Up(n) \in Nat
    BY SizeAssumption, UpFacts DEF HostInv
  <2> QED
    BY <2>1 DEF Threads, BlockInv, BarrierInv
<1>2. CASE Threads = {}
  BY <1>2 DEF SomeoneRuns
<1>3. CASE Threads # {}
  <2> DEFINE V == {loop[t] : t \in Threads}
  <2>1. V \subseteq Nat /\ V # {}
    BY <1>1, <1>3
  <2>2. PICK m \in V : \A k \in V : m <= k
    BY <2>1, Least
  <2>3. PICK t \in Threads : loop[t] = m
    OBVIOUS
  <2>4. \A u \in Threads : loop[u] \in Nat /\ loop[u] >= m
    BY <1>1, <2>2
  <2> HIDE DEF V
  <2>5. CASE m = Up(n) + 1
    <3>1. \A u \in Threads : loop[u] > Up(n)
      BY <1>1, <2>4, <2>5
    <3> QED
      BY <3>1 DEF SomeoneRuns, ThreadEnded
  <2>6. CASE m # Up(n) + 1 /\ \E u \in Threads : loop[u] = m /\ step[u] = 0
    <3>1. PICK u \in Threads : loop[u] = m /\ step[u] = 0
      BY <2>6
    <3>2. loop[u] = Up(n) \/ loop[u] < Up(n)
      BY <1>1, <2>6, <3>1
    <3>3. loop[u] = Up(n) \/ loop[u] * BLOCK_SIZE < n
      BY <1>1, <3>2, TileBegins
    <3>4. Ready(u)
      BY <2>4, <3>1, <3>3 DEF Ready
    <3> QED
      BY <3>4 DEF SomeoneRuns
  <2>7. CASE \A u \in Threads : loop[u] = m => step[u] # 0
    <3>1. \A u \in Threads : loop[u] > loop[t] \/ step[u] > 0
      BY <1>1, <2>3, <2>4, <2>7
    <3>2. step[t] > 0
      BY <1>1, <2>3, <2>7
    <3> QED
      BY <3>1, <3>2 DEF SomeoneRuns, Ready
  <2> QED
    BY <2>5, <2>6, <2>7
<1> QED
  BY <1>2, <1>3

LEMMA PlainRuns == PlainInv /\ file \notin Tiled => SomeoneRuns
<1> SUFFICES ASSUME PlainHostInv, PlainBlockInv, file \notin Tiled, Running,
                    NEW x \in Threads, ~ThreadEnded(x)
             PROVE  \E t \in Threads : Ready(t)
  BY DEF PlainInv, SomeoneRuns, Running
<1>1. CASE file \in Flat
  BY <1>1 DEF PlainBlockInv, ThreadEnded, Ready
<1>2. CASE file \in Rows
  <2>1. ASSUME NEW u \in Threads PROVE At(u, step[u]) \in Int /\ At(u, loop[u]) \in Int /\ n \in Int
    <3>1. Threads = 0 .. BLOCK_SIZE - 1 /\ BLOCK_SIZE \in Nat /\ n \in Nat
      BY SizeAssumption DEF Threads, PlainHostInv
    <3>2. u \in Int /\ step[u] \in Nat /\ loop[u] \in Nat
      BY <3>1 DEF PlainBlockInv
    <3>3. step[u] * BLOCK_SIZE \in Int /\ loop[u] * BLOCK_SIZE \in Int
      BY <3>1, <3>2
    <3> QED
      BY <3>1, <3>2, <3>3 DEF At
  <2>2. CASE \E u \in Threads : At(u, step[u]) < n
    BY <1>2, <2>2 DEF Ready
  <2>3. CASE \A u \in Threads : At(u, step[u]) >= n
    <3>1. At(x, loop[x]) < n
      BY <1>2, <2>1, <2>3 DEF ThreadEnded
    <3> QED
      BY <1>2, <2>3, <3>1 DEF Ready
  <2> HIDE DEF At
  <2> QED
    BY <2>1, <2>2, <2>3
<1> QED
  BY <1>1, <1>2 DEF PlainHostInv

\* The barriers of the kernels (two per tile, one per row) never stop all the threads of a
\* block, whether or not n is a multiple of its size: some thread can go on, or all have
\* returned.
THEOREM NeverStuck == Spec => []SomeoneRuns
<1>1. TiledInv /\ PlainInv => SomeoneRuns
  BY TiledRuns, PlainRuns
<1> QED
  BY <1>1, TiledInit, TiledStep, PlainInit, PlainStep, PTL DEF Spec
=============================================================================
