----------------------------- MODULE VectorAdd -------------------------------
(***************************************************************************)
(* The vector additions (CUDA_sample/vec_add.cu and its relatives): a host *)
(* program that fills two arrays, adds them on the CPU, launches kernels   *)
(* that add them on the device and compares.  vec_add.cu tries 19          *)
(* configurations one after the other; the others launch one kernel.       *)
(*                                                                         *)
(* Every CUDA call can fail, except the two that ask for the device's      *)
(* limits (vec_add.cu:127-128).  The programs print what most calls return *)
(* and go on; vec_add.cu asks cudaGetLastError after each launch, which    *)
(* returns, and clears, the last error of any earlier call.  An error in a *)
(* kernel is sticky: all later calls fail.                                 *)
(***************************************************************************)
EXTENDS Integers, Sequences, FiniteSets

CONSTANTS
    MaxThreads,    \* the values of prop.maxThreadsPerBlock considered
    MaxFaults      \* bound: calls that fail by themselves

ASSUME ConstantAssumption == MaxThreads \subseteq Nat /\ MaxFaults \in Nat

\* A launch <<<g, b>>> of a kernel whose thread j adds the elements j, j + stride,
\* j + 2 * stride, ...; guarded if it tests that they are inside the arrays.
L(g, b, stride) == [g |-> g, b |-> b, stride |-> stride, guarded |-> TRUE]
Threads(k) == k.g * k.b

ELEMENT_COUNT == 1048576

\* grids[], blocks[] and the switch; the strides are those of the kernels.
vec_add ==
    << L(1, 1, 1), L(1, 2, 2), L(1, 256, 256), L(2, 256, 256), L(4, 256, 512),
       L(256, 1, 256), L(256, 2, 512), L(256, 4, 1024), L(1024, 1024, 1024),
       L(2048, 512, 1024), L(4096, 256, 262144), L(8192, 128, 262144),
       L(16384, 64, 524288), L(32768, 32, 524288), L(65536, 16, 1048576),
       L(131072, 8, 1048576), L(262144, 4, 1048576), L(524288, 2, 1048576),
       L(1048576, 1, 1048576) >>

\* Sample/vec_add.cu: more threads in a block than any device has.
Sample_vec_add == << L(1, 4096, 4096) >>

\* old_vec_add.cu: every launch is commented out.
old_vec_add == << L(0, 0, 1) >>

\* vec_add_out_boundary.cu: 1000 elements; the guard is commented out.
vec_add_out_boundary == << [L(2, 256, 512) EXCEPT !.guarded = FALSE] >>

Launches == [vec_add |-> vec_add, Sample_vec_add |-> Sample_vec_add,
             old_vec_add |-> old_vec_add, vec_add_out_boundary |-> vec_add_out_boundary]
Files == DOMAIN Launches
Elements(f) == IF f = "vec_add_out_boundary" THEN 1000 ELSE ELEMENT_COUNT

\* Thread j of k adds element e of n.
Adds(k, n, j, e) == \E m \in Nat : e = j + m * k.stride /\ m * k.stride < n

\* The threads of k together add all n elements.
Covers(k, n) == Threads(k) >= k.stride \/ Threads(k) >= n

\* Some thread goes past the end.
Overruns(k, n) == ~k.guarded /\ ((n - 1) \div k.stride) * k.stride + Threads(k) > n

VARIABLES
    file,       \* the program
    limit,      \* maxThreadsPerBlock
    pc,
    i,          \* the configuration, from 1
    valid,      \* the device arrays that are allocated
    filled,     \* the inputs that are on the device
    vecC,       \* what d_vecC holds
    result,     \* what h_vecResultFromDevice holds
    lastError,  \* what cudaGetLastError would return
    sticky,     \* a kernel has failed
    faults,     \* calls that failed by themselves
    ok,         \* configurations whose result was found right
    computed,   \* configurations whose kernel added everything
    bad         \* configurations in which some call failed

device == <<valid, filled, vecC>>
history == <<ok, computed, bad>>
vars == <<file, limit, pc, i, device, result, lastError, sticky, faults, history>>

Arrays == {"A", "B", "C"}
Contents == {"garbage", "zero", "sum", "wrong"}
Config(j) == Launches[file][j]
Now == Config(i)

Init ==
    /\ file \in Files /\ limit \in MaxThreads
    /\ pc = "mallocA" /\ i = 1
    /\ valid = {} /\ filled = {} /\ vecC = "garbage" /\ result = "garbage"
    /\ lastError = FALSE /\ sticky = FALSE /\ faults = 0
    /\ ok = {} /\ computed = {} /\ bad = {}

\* The configuration that was tried before j; 1 for the first.
Before(j) == LET S == {m \in 1 .. j - 1 : Config(m).b <= limit} IN
             IF S = {} THEN j ELSE CHOOSE m \in S : \A l \in S : l <= m

Goto(l) == pc' = l

\* The next call returns cudaSuccess, or an error: by itself, because a kernel has
\* failed, or because of what it is given.
Succeeds == ~sticky /\ UNCHANGED <<lastError, faults, bad>>
Fails(refused) ==
    /\ IF sticky \/ refused THEN UNCHANGED faults
       ELSE faults < MaxFaults /\ faults' = faults + 1
    /\ lastError' = TRUE /\ bad' = bad \cup {i}

Malloc(v, here, next) ==
    /\ pc = here /\ Goto(next)
    /\ \/ Succeeds /\ valid' = valid \cup {v}
       \/ Fails(FALSE) /\ UNCHANGED valid
    /\ UNCHANGED <<file, limit, i, filled, vecC, result, sticky, ok, computed>>

CopyIn(v, here, next) ==
    /\ pc = here /\ Goto(next)
    /\ \/ v \in valid /\ Succeeds /\ filled' = filled \cup {v}
       \/ Fails(v \notin valid) /\ UNCHANGED filled
    /\ UNCHANGED <<file, limit, i, valid, vecC, result, sticky, ok, computed>>

\* The next configuration, or the summary.
Continue ==
    /\ i' = i + 1
    /\ Goto(IF i = Len(Launches[file]) THEN "summary" ELSE "test")

Skip ==
    /\ pc = "test" /\ file = "vec_add" /\ Now.b > limit
    /\ Continue
    /\ UNCHANGED <<file, limit, device, result, lastError, sticky, faults, history>>

\* Only vec_add.cu clears d_vecC; its result is not looked at.
Memset ==
    /\ pc = "test" /\ file = "vec_add" /\ Now.b <= limit /\ Goto("launch")
    /\ \/ "C" \in valid /\ Succeeds /\ vecC' = "zero"
       \/ Fails("C" \notin valid) /\ UNCHANGED vecC
    /\ UNCHANGED <<file, limit, i, valid, filled, result, sticky, ok, computed>>

NoMemset ==
    /\ pc = "test" /\ file # "vec_add" /\ Goto("launch")
    /\ UNCHANGED <<file, limit, i, device, result, lastError, sticky, faults, history>>

Checked == IF file = "vec_add" THEN "getlasterror" ELSE "copyback"

\* The launch is refused, or fails by itself: no kernel runs.
LaunchFails ==
    /\ pc = "launch" /\ Threads(Now) > 0 /\ Goto(Checked)
    /\ Fails(Now.b > limit)
    /\ UNCHANGED <<file, limit, i, device, result, sticky, ok, computed>>

NoLaunch ==
    /\ pc = "launch" /\ Threads(Now) = 0 /\ Goto(Checked)
    /\ UNCHANGED <<file, limit, i, device, result, lastError, sticky, faults, history>>

\* The kernel runs to its end.  Where it leaves elements out, what was there stays.
\* Writing past the end of an array may change another one.
Kernel ==
    /\ pc = "launch" /\ Threads(Now) > 0 /\ Now.b <= limit /\ Goto(Checked)
    /\ valid = Arrays /\ Succeeds
    /\ LET all == Covers(Now, Elements(file))
           right == filled = {"A", "B"} IN
       \/ /\ vecC' = IF right /\ (all \/ vecC = "sum") THEN "sum" ELSE "wrong"
          /\ computed' = IF right /\ all THEN computed \cup {i} ELSE computed
       \/ Overruns(Now, Elements(file)) /\ vecC' = "wrong" /\ UNCHANGED computed
    /\ UNCHANGED <<file, limit, i, valid, filled, result, sticky, ok>>

\* The launch is accepted and the kernel fails: an array that was not allocated is
\* used, or one is left, or a fault of the device.
KernelFails ==
    /\ pc = "launch" /\ Threads(Now) > 0 /\ Now.b <= limit /\ Goto(Checked)
    /\ ~sticky /\ sticky' = TRUE /\ vecC' = "wrong" /\ bad' = bad \cup {i}
    /\ IF valid # Arrays \/ Overruns(Now, Elements(file)) THEN UNCHANGED faults
       ELSE faults < MaxFaults /\ faults' = faults + 1
    /\ UNCHANGED <<file, limit, i, valid, filled, result, lastError, ok, computed>>

\* cudaPeekAtLastError instead.
GetLastError_peek ==
    /\ pc = "getlasterror"
    /\ \/ (lastError \/ sticky) /\ Continue /\ UNCHANGED lastError
       \/ ~lastError /\ Goto("sync") /\ UNCHANGED <<i, lastError>>
    /\ UNCHANGED <<file, limit, device, result, sticky, faults, history>>

\* The error is not looked at.
GetLastError_ignored ==
    /\ pc = "getlasterror" /\ Goto("sync") /\ lastError' = FALSE
    /\ UNCHANGED <<file, limit, i, device, result, sticky, faults, history>>

\* A kernel's failure may be seen here or only later.
GetLastError ==
    /\ pc = "getlasterror"
    /\ \/ (lastError \/ sticky) /\ Continue /\ lastError' = FALSE
       \/ ~lastError /\ Goto("sync") /\ UNCHANGED <<i, lastError>>
    /\ UNCHANGED <<file, limit, device, result, sticky, faults, history>>

Synchronize ==
    /\ pc = "sync"
    /\ IF sticky THEN Continue /\ lastError' = TRUE
       ELSE Goto("copyback") /\ UNCHANGED <<i, lastError>>
    /\ UNCHANGED <<file, limit, device, result, sticky, faults, history>>

\* What the copy returns is printed: the result may be an earlier one.
CopyBack ==
    /\ pc = "copyback" /\ Goto("check")
    /\ \/ "C" \in valid /\ Succeeds /\ result' = vecC
       \/ Fails("C" \notin valid) /\ UNCHANGED result
    /\ UNCHANGED <<file, limit, i, device, sticky, ok, computed>>

check_result ==
    /\ pc = "check" /\ Continue
    /\ ok' = IF result = "sum" THEN ok \cup {i} ELSE ok
    /\ UNCHANGED <<file, limit, device, result, lastError, sticky, faults, computed, bad>>

\* The statistics over the configurations in ok, and the frees.
Summary ==
    /\ pc = "summary" /\ Goto("end") /\ valid' = {}
    /\ UNCHANGED <<file, limit, i, filled, vecC, result, lastError, sticky, faults, history>>

\* A call that creates, records, waits for or destroys an event fails; its result
\* is not looked at.  At the head of the loop it may still be one of the
\* configuration before.
EventFails ==
    /\ pc \in {"test", "launch", "copyback", "check"}
    /\ IF sticky THEN UNCHANGED faults ELSE faults < MaxFaults /\ faults' = faults + 1
    /\ lastError' = TRUE
    /\ bad' = bad \cup {IF pc = "test" THEN Before(i) ELSE i}
    /\ UNCHANGED <<file, limit, pc, i, device, result, sticky, ok, computed>>

Next ==
    \/ EventFails
    \/ Malloc("A", "mallocA", "mallocB") \/ Malloc("B", "mallocB", "mallocC")
    \/ Malloc("C", "mallocC", "copyA")
    \/ CopyIn("A", "copyA", "copyB") \/ CopyIn("B", "copyB", "test")
    \/ Skip \/ Memset \/ NoMemset \/ LaunchFails \/ NoLaunch \/ Kernel \/ KernelFails
    \/ GetLastError \/ Synchronize \/ CopyBack \/ check_result \/ Summary

Spec == Init /\ [][Next]_vars

-----------------------------------------------------------------------------

TypeOK ==
    /\ file \in Files /\ i \in Nat \ {0}
    /\ filled \subseteq {"A", "B"}
    /\ pc \notin {"summary", "end"} => i \in 1 .. Len(Launches[file])

\* A configuration that is reported right did compute the whole sum, whichever
\* calls failed before it and in it: check_result may look at an earlier result
\* when the copy back fails (vec_add.cu:185), but it is never reached when the
\* launch, the kernel or the clearing of d_vecC failed.
OkMeansComputed == ok \subseteq computed

Ran == i \in computed \/ filled # {"A", "B"}

\* Why it holds: nobody adds without the inputs; in vec_add.cu a step after the
\* launch is reached only with a pending error or a kernel that ran to its end; the
\* other files have no earlier result to mistake for theirs.
IInv ==
    /\ TypeOK
    /\ OkMeansComputed
    /\ "sum" \in {vecC, result} => filled = {"A", "B"}
    /\ pc \in {"getlasterror", "sync"} => file = "vec_add"
    /\ file = "vec_add" =>
          /\ pc = "getlasterror" => lastError \/ sticky \/ Ran
          /\ pc = "sync" => sticky \/ Ran
          /\ pc \in {"copyback", "check"} => Ran
    /\ file # "vec_add" /\ "sum" \in {vecC, result} => 1 \in computed

\* A configuration that is reported as failed has a call that failed, or the one
\* before it has: the error of a copy back shows up once, as a failed launch of the
\* next configuration, and is forgotten.  Else an input is missing, a kernel has
\* failed for good, the kernel wrote past the end, or the file launches none.
FailureExplained ==
    \A j \in 1 .. i - 1 :
        \/ j \in ok \/ j \in bad \/ Before(j) \in bad \/ sticky \/ filled # {"A", "B"}
        \/ file = "vec_add" /\ Config(j).b > limit
        \/ Overruns(Config(j), Elements(file)) \/ Threads(Config(j)) = 0
=============================================================================
