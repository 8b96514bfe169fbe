------------------------------ MODULE MatMult --------------------------------
(***************************************************************************)
(* The matrix products (CUDA_sample/second_cuda*.cu): a host that copies   *)
(* two n x n matrices to the device, launches a kernel, copies the product *)
(* back and compares it with its own.                                      *)
(*                                                                         *)
(*   second_cuda, Sample_second_cuda   tiles in shared memory, two         *)
(*                                     barriers, matrices padded with 0    *)
(*   second_cuda1, second_cuda2        one element per thread              *)
(*   second_cuda3, second_cuda4        one row per block, in shared memory *)
(*                                                                         *)
(* No call's result is looked at.  A sum is the sequence of its products,  *)
(* so a product that is missing, wrong or counted twice shows; rounding    *)
(* and the pitch of the rows are left out.  Blocks share nothing and run   *)
(* one at a time, in any order.                                            *)
(***************************************************************************)
EXTENDS Integers, Sequences

CONSTANTS
    Sizes,       \* the n considered
    BLOCK_SIZE,  \* the side of a tile, and NUM_THREADS
    Limits,      \* the numbers of threads per block that devices accept
    MaxFaults    \* bound: calls that fail by themselves

ASSUME SizeAssumption ==
    /\ Sizes \subseteq Nat \ {0} /\ BLOCK_SIZE \in Nat \ {0}
    /\ Limits \subseteq Nat /\ Limits # {} /\ MaxFaults \in Nat

Tiled == {"second_cuda", "Sample_second_cuda"}
Flat  == {"second_cuda1", "second_cuda2"}
Rows  == {"second_cuda3", "second_cuda4"}

VARIABLES
    file, n,
    next,      \* the host's next call
    done,      \* the calls that worked
    faults,    \* how many failed, by themselves or refused by the device
    todo,      \* the blocks that have not begun
    block,     \* the block that runs
    loop,      \* the iteration of each thread's outer loop
    step,      \* and the place in it
    matA, matB,\* shared memory
    results,   \* each thread's sum
    cc, c      \* the product on the device and on the host

kernel == <<todo, block, loop, step, matA, matB, results, cc>>
vars == <<file, n, next, done, faults, kernel, c>>

Up(x)  == (x + BLOCK_SIZE - 1) \div BLOCK_SIZE
Square(k) == (0 .. k - 1) \X (0 .. k - 1)
newn   == IF file \in Tiled THEN Up(n) * BLOCK_SIZE ELSE n
Blocks == IF file \in Tiled THEN Square(Up(n))
          ELSE IF file \in Flat THEN 0 .. Up(n) * n - 1 ELSE 0 .. n - 1
Threads == IF file \in Tiled THEN Square(BLOCK_SIZE) ELSE 0 .. BLOCK_SIZE - 1
BlockThreads == IF file \in Tiled THEN BLOCK_SIZE * BLOCK_SIZE ELSE BLOCK_SIZE

\* matmultCUDA
Calls ==
    IF file \in Tiled
    THEN << "malloc_a", "malloc_b", "malloc_c", "memset_a", "memset_b", "copy_a", "copy_b",
            "launch", "run", "copy_c", "compare", "end" >>
    ELSE << "malloc_a", "malloc_b", "malloc_c", "copy_a", "copy_b",
            "launch", "run", "copy_c", "compare", "end" >>
Call == Calls[next]

\* The allocation each call needs.
Needs(call) ==
    CASE call \in {"memset_a", "copy_a"} -> {"malloc_a"}
      [] call \in {"memset_b", "copy_b"} -> {"malloc_b"}
      [] call = "copy_c"                 -> {"malloc_c", "context"}
      [] OTHER                           -> {}

(* An element of a matrix is its place, 0 or Garbage; a product is a pair of  *)
(* places, or Unknown.                                                       *)
Zero    == << >>
Garbage == << -1 >>
Unknown == << >>

Init ==
    /\ file \in Tiled \cup Flat \cup Rows /\ n \in Sizes
    /\ next = 1 /\ done = {"context"} /\ faults = 0
    /\ todo = {} /\ block = <<>>
    /\ loop = <<>> /\ step = <<>> /\ matA = <<>> /\ matB = <<>> /\ results = <<>>
    /\ cc = [e \in Square(n) |-> <<Unknown>>] /\ c = cc

-----------------------------------------------------------------------------
(* The host. *)

HostCall ==
    /\ Call \notin {"launch", "run", "copy_c", "compare", "end"}
    /\ next' = next + 1
    /\ \/ Needs(Call) \subseteq done /\ done' = done \cup {Call} /\ UNCHANGED faults
       \/ UNCHANGED done /\ IF Needs(Call) \subseteq done
                            THEN faults < MaxFaults /\ faults' = faults + 1
                            ELSE UNCHANGED faults
    /\ UNCHANGED <<file, n, kernel, c>>

\* The launch works, or its kernel uses an array that is not there, after which no
\* call works, or it fails: the device refuses a block of this size (any device of
\* Limits may be the one in use; nothing else depends on it), or by itself.
Launch ==
    /\ Call = "launch" /\ next' = next + 1
    /\ \/ /\ \E limit \in Limits : BlockThreads <= limit
          /\ {"malloc_a", "malloc_b", "malloc_c"} \subseteq done
          /\ todo' = Blocks /\ done' = done \cup {"launch"} /\ UNCHANGED faults
       \/ /\ \E limit \in Limits : BlockThreads <= limit
          /\ ~{"malloc_a", "malloc_b", "malloc_c"} \subseteq done
          /\ done' = done \ {"context"} /\ UNCHANGED <<todo, faults>>
       \/ /\ faults < MaxFaults \/ \E limit \in Limits : BlockThreads > limit
          /\ faults' = faults + 1 /\ UNCHANGED <<done, todo>>
    /\ UNCHANGED <<file, n, block, loop, step, matA, matB, results, cc, c>>

\* The copy back waits for the kernel.
KernelEnd ==
    /\ Call = "run" /\ todo = {} /\ block = <<>>
    /\ next' = next + 1
    /\ UNCHANGED <<file, n, done, faults, kernel, c>>

CopyBack ==
    /\ Call = "copy_c" /\ next' = next + 1
    /\ \/ Needs(Call) \subseteq done /\ c' = cc /\ UNCHANGED faults
       \/ UNCHANGED c /\ IF Needs(Call) \subseteq done
                         THEN faults < MaxFaults /\ faults' = faults + 1
                         ELSE UNCHANGED faults
    /\ UNCHANGED <<file, n, done, kernel>>

\* compare_mat prints the largest error; nothing depends on it.
compare_mat ==
    /\ Call = "compare" /\ next' = next + 1
    /\ UNCHANGED <<file, n, done, faults, kernel, c>>

-----------------------------------------------------------------------------
(* The kernels. *)

\* What the device holds at row i and column j of m.
Element(m, i, j) ==
    LET copy   == IF m = "a" THEN "copy_a" ELSE "copy_b"
        memset == IF m = "a" THEN "memset_a" ELSE "memset_b" IN
    IF copy \in done /\ i < n /\ j < n THEN <<i, j>>
    ELSE IF memset \in done /\ i < newn /\ j < newn THEN Zero ELSE Garbage

\* A sum with the product x * y; products with 0 add nothing.
Plus(sum, x, y) ==
    IF Garbage \in {x, y} THEN Append(sum, Unknown)
    ELSE IF Zero \in {x, y} THEN sum ELSE Append(sum, <<x, y>>)

Shared == IF file \in Tiled THEN Square(BLOCK_SIZE) ELSE {0} \X (0 .. n - 1)

StartBlock ==
    /\ Call = "run" /\ block = <<>>
    /\ \E b \in todo : block' = <<b>> /\ todo' = todo \ {b}
    /\ loop' = [t \in Threads |-> 0] /\ step' = [t \in Threads |-> 0]
    /\ results' = [t \in Threads |-> <<>>]
    /\ matA' = [e \in Shared |-> Garbage] /\ matB' = matA'
    /\ UNCHANGED <<file, n, next, done, faults, cc, c>>

Running == Call = "run" /\ block # <<>>
bid == block[1]
Still == UNCHANGED <<file, n, next, done, faults, todo, block, c>>

\* --- second_cuda.cu: tile number loop of A and B, then its products.
bidr == bid[2] * BLOCK_SIZE
bidc == bid[1] * BLOCK_SIZE

Load_nosync(t) ==
    /\ Running /\ file \in Tiled /\ step[t] = 0 /\ loop[t] * BLOCK_SIZE < n
    /\ LET j == loop[t] * BLOCK_SIZE IN
       /\ matA' = [matA EXCEPT ![t] = Element("a", t[1] + bidr, t[2] + j)]
       /\ matB' = [matB EXCEPT ![t] = Element("b", t[1] + j, t[2] + bidc)]
    /\ step' = [step EXCEPT ![t] = 1]
    /\ UNCHANGED <<loop, results, cc>> /\ Still

\* After the second __syncthreads of the tile before.
Load(t) ==
    /\ Running /\ file \in Tiled /\ step[t] = 0 /\ loop[t] * BLOCK_SIZE < n
    /\ \A u \in Threads : loop[u] >= loop[t]
    /\ LET j == loop[t] * BLOCK_SIZE IN
       /\ matA' = [matA EXCEPT ![t] = Element("a", t[1] + bidr, t[2] + j)]
       /\ matB' = [matB EXCEPT ![t] = Element("b", t[1] + j, t[2] + bidc)]
    /\ step' = [step EXCEPT ![t] = 1]
    /\ UNCHANGED <<loop, results, cc>> /\ Still

\* After the first __syncthreads.
Multiply(t) ==
    /\ Running /\ file \in Tiled /\ step[t] > 0
    /\ \A u \in Threads : loop[u] > loop[t] \/ step[u] > 0
    /\ LET i == step[t] - 1
           last == step[t] = BLOCK_SIZE IN
       /\ results' = [results EXCEPT ![t] = Plus(@, matA[<<t[1], i>>], matB[<<i, t[2]>>])]
       /\ step' = [step EXCEPT ![t] = IF last THEN 0 ELSE @ + 1]
       /\ loop' = [loop EXCEPT ![t] = IF last THEN @ + 1 ELSE @]
    /\ UNCHANGED <<matA, matB, cc>> /\ Still

\* Elements of the padding are stored as well, and not copied back.
Store(t) ==
    /\ Running /\ file \in Tiled /\ step[t] = 0 /\ loop[t] = Up(n)
    /\ \A u \in Threads : loop[u] >= loop[t]
    /\ cc' = [e \in DOMAIN cc |-> IF e = <<t[1] + bidr, t[2] + bidc>> THEN results[t] ELSE cc[e]]
    /\ loop' = [loop EXCEPT ![t] = @ + 1]
    /\ UNCHANGED <<step, matA, matB, results>> /\ Still

\* --- second_cuda1.cu, second_cuda2.cu
Product(row, column) ==
    LET RowTimes[k \in 0 .. n] ==
            IF k = 0 THEN <<>> ELSE Plus(RowTimes[k - 1], row[k - 1], Element("b", k - 1, column))
    IN RowTimes[n]

OneElement(t) ==
    LET idx == bid * BLOCK_SIZE + t
        row == idx \div n
        column == idx % n
        a_row == [k \in 0 .. n - 1 |-> Element("a", row, k)] IN
    /\ Running /\ file \in Flat /\ loop[t] = 0
    /\ cc' = IF row < n /\ column < n
             THEN [cc EXCEPT ![<<row, column>>] = Product(a_row, column)] ELSE cc
    /\ loop' = [loop EXCEPT ![t] = 1]
    /\ UNCHANGED <<step, matA, matB, results>> /\ Still

\* --- second_cuda3.cu, second_cuda4.cu: data is the first row of matA.
At(t, k) == t + k * BLOCK_SIZE

LoadRow(t) ==
    /\ Running /\ file \in Rows /\ At(t, step[t]) < n
    /\ matA' = [matA EXCEPT ![<<0, At(t, step[t])>>] = Element("a", bid, At(t, step[t]))]
    /\ step' = [step EXCEPT ![t] = @ + 1]
    /\ UNCHANGED <<loop, matB, results, cc>> /\ Still

\* After __syncthreads.
Column(t) ==
    LET j == At(t, loop[t])
        data == [k \in 0 .. n - 1 |-> matA[<<0, k>>]] IN
    /\ Running /\ file \in Rows /\ j < n
    /\ \A u \in Threads : At(u, step[u]) >= n
    /\ cc' = [cc EXCEPT ![<<bid, j>>] = Product(data, j)]
    /\ loop' = [loop EXCEPT ![t] = @ + 1]
    /\ UNCHANGED <<step, matA, matB, results>> /\ Still

ThreadEnded(t) ==
    \/ file \in Tiled /\ loop[t] > Up(n)
    \/ file \in Flat /\ loop[t] = 1
    \/ file \in Rows /\ At(t, step[t]) >= n /\ At(t, loop[t]) >= n

EndBlock ==
    /\ Running /\ \A t \in Threads : ThreadEnded(t)
    /\ block' = <<>>
    /\ loop' = <<>> /\ step' = <<>> /\ matA' = <<>> /\ matB' = <<>> /\ results' = <<>>
    /\ UNCHANGED <<file, n, next, done, faults, todo, cc, c>>

\* The program has ended; anywhere else a block whose threads all wait is a deadlock.
Terminated == Call = "end" /\ UNCHANGED vars

Next ==
    \/ Terminated
    \/ HostCall \/ Launch \/ KernelEnd \/ CopyBack \/ compare_mat \/ StartBlock \/ EndBlock
    \/ \E t \in Threads :
          Load(t) \/ Multiply(t) \/ Store(t) \/ OneElement(t) \/ LoadRow(t) \/ Column(t)

Spec == Init /\ [][Next]_vars

-----------------------------------------------------------------------------

\* matmult: the product the host computes.
matmult(i, j) == [k \in 1 .. n |-> << <<i, k - 1>>, <<k - 1, j>> >>]

\* The k-th product of a sum for element e is the right one, or not known.
InStep(sum, e) ==
    \A k \in DOMAIN sum : sum[k] \in {Unknown, << <<e[1], k - 1>>, <<k - 1, e[2]>> >>}

\* No thread ever multiplies elements of a tile of another step (the two
\* __syncthreads), and when the host compares, every element is right, in whatever
\* order the threads ran and whether or not n is a multiple of the tile.  After a
\* call that failed unnoticed (with BLOCK_SIZE 64, the launch of second_cuda.cu),
\* products are missing or come from memory nobody wrote, but are still in step.
ProductRight ==
    /\ Running /\ file \in Tiled =>
          \A t \in Threads : InStep(results[t], <<t[1] + bidr, t[2] + bidc>>)
    /\ Call = "compare" =>
          \A e \in Square(n) :
              InStep(c[e], e) /\ (faults = 0 => c[e] = matmult(e[1], e[2]))
=============================================================================
