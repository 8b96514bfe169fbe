---------------------------- MODULE CudaStreams ------------------------------
(***************************************************************************)
(* CUDA_sample/async.cu, block_stream.cu and nonblock_stream.cu: the host  *)
(* cuts an array into nStreams chunks and, for each chunk, queues a copy   *)
(* to the device, a kernel that adds sqrt(sin^2 + cos^2) = 1 to every      *)
(* element and a copy back; it waits for an event recorded in the default  *)
(* stream and then looks at the array.                                     *)
(*                                                                         *)
(* A chunk is one number, because the calls treat its elements alike.  The *)
(* streams are modelled by what CUDA promises: the operations of a stream  *)
(* run in the order they were issued; an operation of the default stream   *)
(* waits for everything issued before it to the other streams, and they    *)
(* wait for it, unless they were created with cudaStreamNonBlocking.       *)
(* Operations run at any time after they are issued, and each as one step: *)
(* no two chunks overlap.                                                  *)
(***************************************************************************)
EXTENDS Integers, Sequences

CONSTANTS
    nStreams,   \* chunks the array is cut into (4; 3 in the *1.cu files)
    Files       \* the programs to check

ASSUME StreamsAssumption ==
    /\ nStreams \in Nat /\ nStreams > 1
    /\ Files \subseteq {"async.cu", "block_stream.cu", "nonblock_stream.cu"}

VARIABLES
    file,   \* the program that runs
    a,      \* the host array, a number per chunk
    d_a,    \* the device array
    pc,     \* the host's next call in Main
    done    \* the queued calls that have been executed

vars == <<file, a, d_a, pc, done>>

\* The flag of cudaStreamCreateWithFlags, the only difference between
\* block_stream.cu and nonblock_stream.cu.
NonBlocking == file = "nonblock_stream.cu"

Chunks == 0 .. nStreams - 1

\* What memory may hold before it is written.
Junk == 7

-----------------------------------------------------------------------------
(* The host programs: sequences of calls.  Stream 0 is the default stream,  *)
(* i + 1 is stream[i].                                                      *)

Call(op, chunks, s) == [op |-> op, chunks |-> chunks, stream |-> s]
Host(op)            == Call(op, {}, 0)

\* The calls that queue work; the others act on the host.
Queued == {"h2d", "kernel", "d2h", "record"}

\* memset; the start event; cudaMemcpy, which waits until the copy is done; the
\* kernel; cudaMemcpy; the stop event; cudaEventSynchronize; maxError.
Baseline ==
    << Host("memset"), Call("record", {}, 0), Call("h2d", Chunks, 0), Host("wait"),
       Call("kernel", Chunks, 0), Call("d2h", Chunks, 0), Host("wait"),
       Call("record", {}, 0), Host("wait"), Host("maxError") >>

Ops == <<"h2d", "kernel", "d2h">>

\* Mutant of Asynchronous: cudaEventSynchronize(stopEvent) is forgotten.
AsynchronousNoWait(calls) ==
    <<Host("memset"), Call("record", {}, 0)>> \o calls \o
    <<Call("record", {}, 0), Host("maxError")>>

\* The calls of an asynchronous version between memset and maxError.
Asynchronous(calls) ==
    <<Host("memset"), Call("record", {}, 0)>> \o calls \o
    <<Call("record", {}, 0), Host("wait"), Host("maxError")>>

\* Loop over {copy, kernel, copy}, chunk i in stream[i].
Version1 ==
    [k \in 1 .. 3 * nStreams |->
        Call(Ops[((k - 1) % 3) + 1], {(k - 1) \div 3}, ((k - 1) \div 3) + 1)]

\* Loop over copy, loop over kernel, loop over copy; S[c] is chunk c's stream.
Version2(S) ==
    [k \in 1 .. 3 * nStreams |->
        LET c == (k - 1) % nStreams IN
        Call(Ops[((k - 1) \div nStreams) + 1], {c}, S[c])]

AsyncStream == [c \in Chunks |-> c + 1]

\* Chunk 1 goes to the default stream, 0 to stream[0], 2 to stream[1], ...
ChunkStream == [c \in Chunks |-> IF c = 1 THEN 0 ELSE IF c = 0 THEN 1 ELSE c]

AsyncMain ==
    Baseline \o Asynchronous(Version1) \o Asynchronous(Version2(AsyncStream))
    \o <<Host("free")>>

StreamMain == Baseline \o Asynchronous(Version2(ChunkStream)) \o <<Host("free")>>

Main == IF file = "async.cu" THEN AsyncMain ELSE StreamMain

-----------------------------------------------------------------------------
Init ==
    /\ file \in Files
    /\ a = [c \in Chunks |-> Junk] /\ d_a = [c \in Chunks |-> Junk]
    /\ pc = 1 /\ done = {}

\* The calls queued so far, and those of them not yet executed.
Issued  == {k \in 1 .. pc - 1 : Main[k].op \in Queued}
Pending == Issued \ done

At(op) == pc <= Len(Main) /\ Main[pc].op = op

\* memset(a, 0, bytes)
Memset ==
    /\ At("memset") /\ pc' = pc + 1
    /\ a' = [c \in Chunks |-> 0]
    /\ UNCHANGED <<file, d_a, done>>

\* cudaMemcpyAsync, a kernel launch and cudaEventRecord return at once.
Issue ==
    /\ pc <= Len(Main) /\ Main[pc].op \in Queued
    /\ pc' = pc + 1
    /\ UNCHANGED <<file, a, d_a, done>>

\* cudaEventSynchronize, and the end of cudaMemcpy: wait for the last call
\* that was queued.
Wait ==
    /\ At("wait") /\ pc - 1 \in done
    /\ pc' = pc + 1
    /\ UNCHANGED <<file, a, d_a, done>>

\* maxError reads the whole array.
MaxError ==
    /\ At("maxError") /\ pc' = pc + 1
    /\ UNCHANGED <<file, a, d_a, done>>

\* The clean-up: cudaFree waits for the device.
Free ==
    /\ At("free") /\ Pending = {}
    /\ pc' = pc + 1
    /\ UNCHANGED <<file, a, d_a, done>>

\* Must call j, issued before k, be executed before k starts?
Precedes(j, k) ==
    /\ j < k
    /\ \/ Main[j].stream = Main[k].stream
       \/ ~NonBlocking /\ 0 \in {Main[j].stream, Main[k].stream}

\* Mutant of Kernel: every chunk of the array, whatever the offset.
KernelNoOffset(chunks) == [c \in Chunks |-> d_a[c] + 1]

\* kernel: a[i] + sqrtf(s*s + c*c) for the elements of the chunks.
Kernel(chunks) == [c \in Chunks |-> IF c \in chunks THEN d_a[c] + 1 ELSE d_a[c]]

\* Copy the chunks of one array over another's.
Copied(to, from, chunks) == [c \in Chunks |-> IF c \in chunks THEN from[c] ELSE to[c]]

\* The device executes call k.
Execute(k) ==
    LET call == Main[k] IN
    /\ k \in Pending
    /\ \A j \in Pending : ~Precedes(j, k)
    /\ done' = done \cup {k}
    /\ \/ call.op = "h2d" /\ d_a' = Copied(d_a, a, call.chunks) /\ UNCHANGED a
       \/ call.op = "kernel" /\ d_a' = Kernel(call.chunks) /\ UNCHANGED a
       \/ call.op = "d2h" /\ a' = Copied(a, d_a, call.chunks) /\ UNCHANGED d_a
       \/ call.op = "record" /\ UNCHANGED <<a, d_a>>
    /\ UNCHANGED <<file, pc>>

HostStep == Memset \/ Issue \/ Wait \/ MaxError \/ Free

DeviceStep == \E k \in Pending : Execute(k)

\* main() has returned.
Returned == pc > Len(Main) /\ UNCHANGED vars

Next == HostStep \/ DeviceStep \/ Returned

Spec == Init /\ [][Next]_vars

\* The host runs, and the device executes what is queued.
FairSpec == Spec /\ WF_vars(HostStep) /\ WF_vars(DeviceStep)

-----------------------------------------------------------------------------
(* Properties. *)

\* "Time for asynchronous V2 transfer and execute": when the stop event, recorded
\* in the default stream, is done, every element of the array that maxError reads
\* has been through copy, kernel and copy exactly once.  The non-blocking streams of
\* nonblock_stream.cu are not covered by the event.
ResultReady == ~NonBlocking /\ At("maxError") => \A c \in Chunks : a[c] = 1

\* The program ends, and then every element has been computed exactly once,
\* whatever the streams did.
Computed == <>(pc > Len(Main) /\ \A c \in Chunks : a[c] = 1)

\* Memory the host is about to clear is not the source or the target of a
\* copy still queued.
NoPendingCopy == At("memset") => Pending = {}
=============================================================================
