---------------------------- MODULE InnerProduct -----------------------------
(***************************************************************************)
(* CUDA_sample/inner_product1.cu: vecMul_gpu_kernel leaves the products in *)
(* vecC, vecSum_gpu_kernel lets every block add up its THREADSPERBLOCK     *)
(* products in shared memory and put the sum into vecC[blockIdx.x], and    *)
(* the host adds the first BLOCKSPERGRID elements of vecC.                 *)
(*                                                                         *)
(* The vectors are all ones, as the code fills them, so a sum counts the   *)
(* products in it.  Blocks run in any order and at any speed; within a     *)
(* block only __syncthreads() orders the threads.                          *)
(***************************************************************************)
EXTENDS Integers

CONSTANTS BLOCKSPERGRID,     \* 1024 in the code
          THREADSPERBLOCK,   \* 1024, a power of two
          Rounds             \* its logarithm: the additions of each thread

\* The distance of the k-th addition: 512, 256, ..., 1.
Distance[k \in 0 .. Rounds] == IF k = 0 THEN THREADSPERBLOCK ELSE Distance[k - 1] \div 2

\* THREADSPERBLOCK is the power Rounds of two: halving it so often leaves 1, and
\* never a remainder.
ASSUME GridAssumption ==
    /\ Rounds \in Nat \ {0} /\ THREADSPERBLOCK \in Nat
    /\ Distance[Rounds] = 1 /\ \A k \in 1 .. Rounds : Distance[k - 1] % 2 = 0
    /\ BLOCKSPERGRID \in 1 .. THREADSPERBLOCK

Blocks  == 0 .. BLOCKSPERGRID - 1
Threads == 0 .. THREADSPERBLOCK - 1
ELEMENT_COUNT == BLOCKSPERGRID * THREADSPERBLOCK

VARIABLES
    vecC,      \* global memory
    vec,       \* shared memory, one array per block
    passed,    \* how many steps each thread has done: load, additions, store
    S_gpu,     \* the host's sum, or -1 before it is taken
    loaded     \* history: what each thread loaded

vars == <<vecC, vec, passed, S_gpu, loaded>>

\* The vectors of ones have been multiplied and the device synchronised;
\* vecSum_gpu_kernel is launched.
Init ==
    /\ vecC = [i \in 0 .. ELEMENT_COUNT - 1 |-> 1]
    /\ vec = [b \in Blocks |-> [t \in Threads |-> 0]]
    /\ loaded = [b \in Blocks |-> [t \in Threads |-> 0]]
    /\ passed = [b \in Blocks |-> [t \in Threads |-> 0]]
    /\ S_gpu = -1

\* Mutant of Synced: __syncthreads() is left out.
SyncedNot(b, t) == TRUE

\* __syncthreads(): all the threads of the block have done what t has done.
Synced(b, t) == \A u \in Threads : passed[b][u] >= passed[b][t]

Pass(b, t) == passed' = [passed EXCEPT ![b][t] = @ + 1]

\* vec[tid] = vecC[id]
Load(b, t) ==
    LET id == b * THREADSPERBLOCK + t IN
    /\ passed[b][t] = 0 /\ Pass(b, t)
    /\ vec' = [vec EXCEPT ![b][t] = vecC[id]]
    /\ loaded' = [loaded EXCEPT ![b][t] = vecC[id]]
    /\ UNCHANGED <<vecC, S_gpu>>

\* if (tid < i) vec[tid] += vec[tid + i]
Add(b, t) ==
    LET i == Distance[passed[b][t]] IN
    /\ passed[b][t] \in 1 .. Rounds /\ Synced(b, t) /\ Pass(b, t)
    /\ vec' = IF t < i THEN [vec EXCEPT ![b][t] = @ + vec[b][t + i]] ELSE vec
    /\ UNCHANGED <<vecC, S_gpu, loaded>>

\* Mutant of Store: vecC[blockIdx.x + blockDim.x].
StoreShifted(b, t) ==
    /\ passed[b][t] = Rounds + 1 /\ Synced(b, t) /\ Pass(b, t)
    /\ vecC' = IF t = 0 THEN [vecC EXCEPT ![b + THREADSPERBLOCK] = vec[b][0]] ELSE vecC
    /\ UNCHANGED <<vec, S_gpu, loaded>>

\* if (threadIdx.x == 0) vecC[blockIdx.x] = vec[0]
Store(b, t) ==
    /\ passed[b][t] = Rounds + 1 /\ Synced(b, t) /\ Pass(b, t)
    /\ vecC' = IF t = 0 THEN [vecC EXCEPT ![b] = vec[b][0]] ELSE vecC
    /\ UNCHANGED <<vec, S_gpu, loaded>>

\* for (i=0; i<n; i++) s += f[i]
Sum(f, n) ==
    LET s[i \in 0 .. n] == IF i = 0 THEN 0 ELSE s[i - 1] + f[i - 1] IN s[n]

Finished == \A b \in Blocks, t \in Threads : passed[b][t] = Rounds + 2

\* cudaEventSynchronize(stop), the copy back, and the sum over the blocks.
Collect ==
    /\ S_gpu = -1 /\ Finished
    /\ S_gpu' = Sum(vecC, BLOCKSPERGRID)
    /\ UNCHANGED <<vecC, vec, passed, loaded>>

\* The program has printed its result check and ended.
Ended == S_gpu # -1 /\ UNCHANGED vars

Next ==
    \/ \E b \in Blocks, t \in Threads : Load(b, t) \/ Add(b, t) \/ Store(b, t)
    \/ Collect \/ Ended

Spec == Init /\ [][Next]_vars

\* vecDot_cpu
S_cpu == Sum([i \in 0 .. ELEMENT_COUNT - 1 |-> 1 * 1], ELEMENT_COUNT)

-----------------------------------------------------------------------------
(* Properties. *)

\* The sum of what the threads t, t + Distance[k], t + 2 * Distance[k], ... of
\* a block have loaded.
StridedSum(load, t, k) ==
    Sum([u \in Threads |-> IF u % Distance[k] = t THEN load[u] ELSE 0], THREADSPERBLOCK)

\* The reduction in shared memory: a thread that has done its k-th addition,
\* and took part in it, holds the sum of all that was loaded at distance
\* Distance[k], 2 * Distance[k], ... from it.  At the end vec[0] is the sum of
\* the block.
PartialSums ==
    \A b \in Blocks, t \in Threads, k \in 0 .. Rounds :
        k + 1 = passed[b][t] /\ t < Distance[k] => vec[b][t] = StridedSum(loaded[b], t, k)

\* The sums the blocks store in vecC are read as products by no other block
\* than block 0, and unless block 0 does so the sum of the device is that of the
\* CPU ("Result Check: OK!").  Nothing orders the blocks: block 0 may do so.
OthersLoadProducts ==
    /\ \A b \in Blocks \ {0}, t \in Threads : passed[b][t] > 0 => loaded[b][t] = 1
    /\ S_gpu # -1 /\ (\A t \in Threads : loaded[0][t] = 1) => S_gpu = S_cpu
=============================================================================
