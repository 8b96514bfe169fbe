# TLA+ models of 114_CUDA_OpenMP

The repository is a collection of teaching programs on concurrency: a threaded
web server and some sixty small programs with Pthreads, about sixty with OpenMP,
and CUDA samples and projects. There is no common library; each program is a
system of its own. This directory holds TLA+ modules for the programs whose
correctness depends on how threads, streams or blocks interleave, TLC
configurations that check them, and TLAPS proofs of the main results.

    tlc -workers 2 -config WebServerSafety.cfg MCWebServer   # any run
    tlapm SemQueueProof.tla                                  # any *Proof module

`PROJECT.json` lists components, runs, mutants, the map from definitions to
source lines, findings, hazards and theorems.

## 1. Inventory

| Part | State it keeps | Operations | What is hard | What makes it correct |
|---|---|---|---|---|
| Web server `Pthread/pthreads-web-server-master/server.c`, `client.c` | listening socket, descriptor table, connections, `next_request_id`, `gLock`, the log | create workers, accept, take an id, recv, parse, log, open the file, send header and body, close/shutdown; `exit`: shut and close the listener, join, close the log | workers share descriptor numbers, the id and the log; peers die; calls fail; exit races accept | every client gets its own answer, in full; ids are unique; descriptors are used by their owner; exit ends the server after what was accepted |
| Ring buffer `Pthread/condition.c` | ring, two indices, mutex, two condition variables | Produce, Consume | lost and spurious wake-ups, wrap-around | FIFO, no loss, both threads end |
| Semaphore queue `Pthread/condition_sem1.c` | array, two semaphores | producer, consumer | no lock around the array | the threads are never in one slot; FIFO; never stuck |
| Odd-even sort `OpenMP/poe_sort.c` | array, reduction variable `changes` | parallel region with two loops | `changes = 0` races with the reduction | ends, and sorted |
| Streams `CUDA_sample/async.cu`, `block_stream*.cu`, `nonblock_stream*.cu` | host and device array, queues of operations | copy, kernel, event record, synchronise | what an event in the default stream covers | the result is complete when it is read |
| Inner product `CUDA_sample/inner_product1.cu` | product vector, shared memory per block | load, additions between barriers, store | blocks are not ordered | sum of the device = sum of the CPU |
| Shared counters `Pthread/thread_*sem.c`, `thread_with_mutex.c`, `2thread_*.c`, `inc_dec*.c`, `dotprod_mutex.c` | a count, a lock or semaphore, a condition variable | increment, decrement, wait, join, print | lost updates, main that does not join, wait without a loop | the count is complete, never below 0, no wake-up is lost |
| Hand-over and locks `Pthread/reader_writer*.c`, `deadlock.c`, `condvar.c`, `mutex_cond.c`, `race_mutex_cond.c`, `condition_no_cond.c`, `read_write_lock.c`, `barrier.c` | a one-place buffer, mutexes, conditions, a read/write lock, a barrier | write, read, wait, signal, lock in some order | lock order, missing predicate, spinning with the lock held, a lock taken twice | items once and in order; somebody can always go on; nobody leaves the barrier early |
| Thread lifetimes `Pthread/thread_arg*.c`, `thread_return*.c`, `detach.c`, `pthread_exit.c`, `pthread_create.c`, `sleep.c` | arguments and results by reference | create, join, detach, return | objects that are gone or changed when they are used | every thread sees its own argument; nothing is used outside its lifetime |
| Attributes and scheduling `Pthread/scheduling1.c`-`6.c`, `scheduler5.c`, `Priority.c`, `Prioritized_thread.c`, `attribute.c`, `stack.c`, `set_stack.c`, `pthread_attr.c` | attribute object, policies, priorities | init, set, create, change, destroy | privileges, inherited attributes, creation that fails | a thread runs as asked or not at all |
| OpenMP constructs `OpenMP/*.c`, `Project1`, `Performance/barrier.c`, `FileIO/` | shared and private variables, the team | critical, atomic, lock, reduction, nowait, barrier, ordered, single, sections, task | shared where private was meant, no barrier between dependent loops | sums and arrays are as in a sequential run |
| Vector addition `CUDA_sample/vec_add.cu`, `old_vec_add.cu`, `vec_add_out_boundary.cu`, `Sample/vec_add.cu` | device arrays, CUDA's last error, `ok[]` | allocate, copy, clear, launch, ask for the error, copy back, check | calls that fail and are only printed; errors that surface later | OK only if the kernel computed it |
| Matrix product `CUDA_sample/second_cuda*.cu`, `Sample/second_cuda.cu` | tiles in shared memory, sums | load, barrier, multiply, barrier, store | threads that run ahead; sizes that are no multiple of a tile | the product of the CPU |
| Sequential sorts, OpenMP schedules and timing, first examples | none shared | one call each | none | not modelled: nothing is shared or promised |
| Hash/cipher exercises, image projects, tensor core products, exercises with blanks | arrays of numbers | data-parallel arithmetic | numerics | not modelled: nothing interleaves, floating point, or not complete |
| `stb_image*.h` | | | | third-party |

The programs do not call each other. Inside a program the parts interact through
shared memory (the Pthread and OpenMP programs), through sockets and the kernel's
descriptor table (server and client), or through queued device operations (CUDA).

## 2. Modules and the code

### WebServer (MCWebServer, WebServerProof)

One action per system call and per shared access of `main` and
`process_requests`, in the order of the code: `CreateWorker`, `ReadExit`,
`ShutdownListener`, `CloseListener`, `JoinWorker`, `CloseLog` are main's;
`EnterAccept`, `Accept`, `Lock`, `GetId`, `IncId`, `Recv`, `LogTime`,
`ReadCommand`, `FOpen`, `LogStatus`, `SendHeader`, `CloseClient`, `SendBody`,
`FClose`, `ShutdownClient`, `LogNewline` a worker's; `Connect`, `ClientSend`,
`ClientDone` are client.c. The kernel's part (lowest free descriptor, EMFILE,
what a closed or shut socket does) is modelled from how the code uses it.
Faults are a constant: failing log writes, `pthread_create`, `close`,
`strftime`, clients that close or die.

Data: a request is one of the classes the code tells apart after
`read_command` (valid GET/HEAD/OPTIONS/TRACE, bad, too few tokens, empty), with two
facts about its file: `fopen` finds it, and `fgets` can read it. The loop of lines
281-288 ends on `feof` or a failed `send` only, so `SendBody` is not enabled for a file
that cannot be read (a directory): its worker stays there for ever. An
answer is a sequence of pieces (header, body); a whole message arrives in one
`recv`, as on the code's single call. `read_config` runs before there are
threads and only supplies constants.

### BoundedBuffer and FifoChannel (BoundedBufferProof)

`Lock`, `Test`, `Signal` are shared by both threads, with the steps of
`Produce` (`Write`, `Produced`) and `Consume` (`Read`, `Consumed`), and `Join`
for main. `pthread_cond_wait` releases and blocks in one step, a woken thread
must take the mutex again, and may wake without a signal.
`FifoChannel` is the abstract specification: a bounded channel that delivers
`Item(0), Item(1), ...`. The refinement mapping reads the channel's contents off
the ring from `posReadFrom` on.

### SemQueue and ItemStream (SemQueueProof)

A step per `sem_wait`, array access and `sem_post`; `p = (p+1)%NUM` goes with
the post, since only its own thread reads `p`. Two history variables: `shown` is the
item that `printf` showed last, `next` the one that should be shown next.
`ItemStream` is the abstract specification: an endless first-in first-out channel of
`NUM` places for the items 0, 1, ..., 0, 1, ... . The refinement mapping reads its
contents off the slots that are written and not yet printed, from `First` on.

### OddEvenSort (OddEvenSortProof)

`Reset`, `Compare`, `Combine` per thread; the implicit barriers are
`SecondLoop` and `EndRegion`. Which thread runs which iteration is any function
(`owner`), which covers every static schedule of the runtime. `nr` is
incremented without protection too, but nothing reads it, and it is left out.

### CudaStreams (CudaStreamsProof)

The host program is a sequence of calls (`Main`, built from `Baseline`,
`Version1`, `Version2`), the host's actions walk through it, and `Execute` runs a
queued call once every call that must precede it has run (`Precedes`: same
stream; default stream against blocking streams). The variable `file` is the
program that runs, and `NonBlocking` is line 82 of nonblock_stream.cu. A chunk is one number: all
its elements are treated alike, and chunks do not overlap.

### InnerProduct (InnerProductProof)

A step per thread between two barriers (`Load`, `Add`, `Store`); a thread may
start its next step when every thread of its block has done the previous one
(`Synced`). The unrolled additions of `vecSum_gpu_kernel` and the loop of
`vecSum_gpu_kernel_3` are the same `Add` at `Distance[k]`. `Distance` and the sums of
the host are loops, written as recursive functions of the iteration.

### ThreadCode, PthreadCounters, PthreadSync, PthreadLife, OpenMP, ThreadMachine

The 78 small Pthread and OpenMP programs are data for one machine. `ThreadCode`
has the vocabulary: instructions (`Load`, `Store`, `Lock`, `CondWait`, `Create`,
`AttrSet`, ...) and the control structures made of them. The four next modules
hold one definition per program, named after its file (`thread2_x` is
`2thread_x.c`, `omp_x` is under `OpenMP/`): the code of main and of each thread,
access by access, the memory it starts with, and the objects it has not
initialised. Loops of a million iterations have `NITER`. An increment is a load
and a store; `printf`, `sleep` and busy loops are left out, since a thread may be
delayed anywhere.

`ThreadMachine` runs them: `Step(t)` is one instruction of thread `t`, with one
`Do...` action per kind. The thread library is modelled from the calls the
programs make: mutexes are not fair, waits may wake spuriously, `pthread_create`
may fail, real-time policies need privileges, an attribute object without
`PTHREAD_EXPLICIT_SCHED` leaves the creator's policy in place. Undefined behaviour (an
object used outside its lifetime, a lock destroyed while held, a thread id that
stands for no thread) is recorded in `misuse`, and what is read then is any value.
An OpenMP team has two threads with the static schedule; tasks are threads that
the region waits for.

The properties say of all programs at once what is right, and list the programs
that do otherwise together with how (`Racy`, `Printed`, `Misused`, `Deadlocked`,
`Spinning`, `Loops`): a program that is not in a list does not have that flaw, and
every entry of a list is a behaviour that TLC shows to happen.

`Misused` is about these kinds of undefined behaviour: a mutex, condition variable,
read/write lock, barrier or attribute object that is used before it is initialised or
after it is destroyed (a static mutex without an initialiser happens to work with
glibc, and is listed all the same: `2thread_count.c`, `condition_no_cond.c`, and
`reader_writer_delay.c`, where `main` initialises a local mutex of the same name), a
lock destroyed while held, a thread id that stands for no thread, a join whose result
goes through an uninitialised pointer or into an `int`, a `FILE*` that is NULL, a variable
that is read before it is set, and a record used after it is freed or its function has
returned. It is not about data races (`Racy`), `malloc` that fails, input that overruns a
buffer, or wrong `printf` formats. `condition.c`, which has a module of its own, does
not initialise its mutex and conditions either and joins into an `int`; BoundedBuffer
takes them to work.

### VectorAdd (VectorAddProof)

The host's calls in order, each of which succeeds or fails (those about events in
`EventFails`; `cudaGetDevice` and `cudaGetDeviceProperties` are taken to succeed); `lastError` is what
`cudaGetLastError` would return, `sticky` a failed kernel, after which no call
works. `vec_add` lists the 19 configurations with the strides of their kernels.
What a launch adds is arithmetic, not interleaving: `Covers` says whether all elements are
reached, and `VectorAddProof!CoverageExact` that this is the right condition.

### MatMult (MatMultProof)

The host's calls in order (`Calls`), none of whose results is looked at, a launch that
is refused if a block has more threads than the device accepts (as `second_cuda.cu`
reports for a `BLOCK_SIZE` of 64: "Max error: 1"), and the
kernels thread by thread: `Load`, `Multiply` and `Store` for tiles, `OneElement`
for one element per thread, `LoadRow` and `Column` for a row in shared memory. A sum
is the sequence of its products, so that one that is missing, wrong or counted twice
shows. Blocks share nothing and run one after the other, in any order.

## 3. Runs

| Run | Checks | Bounds, and why they are enough |
|---|---|---|
| web_safety | types, unique ids, own descriptor, no foreign or doubled answer, the log outlives its users, the inductive invariant | 2 workers, 2 clients, a table of 4 numbers: two owners compete for one number and the table overflows; HEAD and overlong requests, every kind of fault, exit at any time |
| web_service | complete answers, exit drains and ends, every client is served | 2 workers, 2 clients, no failing calls, descriptors to spare: the conditions under which the code promises this; an existing and an unreadable file, a request that crashes the parser, clients that never send |
| web_reuse | see below | the smallest instance that shows it |
| ring_buffer | order, wake-ups, invariant, delivery, refinement | the code's own sizes (8 slots, 16 items), 3 spurious wake-ups |
| sem_queue | slots apart, invariant, every item again and again, refinement of `ItemStream` | 3 slots, items modulo 5: coprime, so that every item meets every slot |
| odd_even_sort | sorted, permutation, ends, invariant | 7 elements, 2 threads, all owners: odd length, so that erased counts can end the loop one region early |
| cuda_streams | complete when read (blocking streams); nothing pending under memset; computed once | the three programs, with the code's 4 streams |
| block_sum | partial sums; only block 0 loads sums, and unless it does the sum is the CPU's | 2 blocks of 4 threads, two rounds of additions |
| condvar_ends | see below | as thread_programs |
| thread_programs | races, results, lost wake-ups, threads that are stuck, undefined behaviour, policies, barriers, order of items, termination | `NITER` = 3, and `NFEW` = 2 for the loop of 100 in `2thread_join.c` (two threads that lose all but two increments need two rounds, three show that it is "all but two"); numbers modulo `Values` = 10, above every count reached; two or three threads per program, four where the file has four |
| vec_add | OK means computed; a failure has a reason | the 19 configurations of the code, devices with 512 and 1024 threads per block (the first skips one configuration), any 2 calls failing: an error and a second one that could hide it |
| mat_mult | every product in step and every element right; no block waits for ever | tiles of 2 x 2, n = 1, 2, 3: below, at and above a tile, two tiles per sum; devices with 4 and with 3 threads per block, the second of which refuses the tiles; 1 failing call |

Each property of a passing run has a mutant in `PROJECT.json`: a plausible bug
(a forgotten signal, `if` for `while`, a wrap one too late, a missing barrier)
that TLC must find with that property.

TRACE, OPTIONS, unknown verbs and files that do not exist are in the model and in the
proofs, but in no run, to keep these small: they take the steps of HEAD, of GET or of the
bad requests (a 404 is sent in web_safety, where the table is full).

### The violated runs, and other behaviours of the programs

* **web_reuse**: `sendHeader(..., 1)` has closed the descriptor when line 494 or
  519 shuts down the same number, which may be another worker's connection. In the
  trace one client sends an overlong request; the other one asks for an existing file and
  sees the end of its connection with nothing received (`FileSent`).
* **condvar_ends**: the header of `condvar.c` says that the program continues until the
  threads reach TCOUNT and that main prints the count. `inc_count` signals in a `while`
  with the mutex locked, so the first increment never comes out of it (`CondvarEnds`).
  `Finishes`, in thread_programs, says that this is the only way in which it does not end.

Other behaviours are in the models without a run of their own:

* Web server: answered connections are shut down and never closed, so the table
  fills up in the end and `accept()` fails for ever (web_service has descriptors to
  spare; web_safety reaches the full table). A request of two tokens is
  compared through NULL and ends the process (`ReadCommand`); a failing write to
  the log makes `sendHeader` skip the header but not the contents that follow
  (`LogStatus`). A client that connects and stays silent keeps its worker in `recv`, and
  a file that cannot be read keeps it in the loop of line 281 (`HeldUp`); `exit` then
  waits for ever. `ExitTerminates` and `EveryClientServed` say that nothing else delays
  the end or a client, and that one worker that is left serves everybody.
* `nonblock_stream.cu`: an event in the default stream says nothing about
  non-blocking streams; the array is read too early, which `ResultReady` exempts.
* `inner_product1.cu`: blocks store sums where block 0 still has to load products;
  `OthersLoadProducts` says that this is the only way to a wrong sum.
* The lists of `ThreadMachine`: the counters without a lock, the deadlock of
  `deadlock.c`, the read lock taken twice, the horses that miss the start, the
  threads that spin with the mutex held, the freed and the local results, the
  detached thread that is joined. Most of these programs exist to show just that.
* `vec_add.cu`: a failed copy back is only printed; the result checked is then an
  earlier one, and its error appears as a failed launch of the next
  configuration. `Sample/vec_add.cu` launches 4096 threads in a block, which every
  device refuses, and `old_vec_add.cu` launches nothing; `vec_add_out_boundary.cu`
  writes past its arrays.

### Fairness

* Web server: weak fairness per worker and for main: a runnable thread runs. `gLock` is
  held for two assignments only. Nothing is assumed of the clients, which may stay
  silent, nor of the operator typing `exit`.
* BoundedBuffer, SemQueue: weak fairness of each thread; the other thread gives
  the mutex back at once and then blocks or finishes, and a semaphore that is
  positive stays so for its only waiter.
* OddEvenSort: weak fairness of every thread of the team and of the master.
* CudaStreams: weak fairness of host and device, which executes what is queued.
* ThreadMachine: weak fairness of each thread: a thread that can go on does. Locks
  need not be fair. A run in which spurious wake-ups go on for ever is exempt from
  `Finishes`. Nothing is assumed about creation: a run in which it fails is exempt, too.

## 4. Proofs

All for every value of the constants under the modules' ASSUMEs (sizes are positive, the
set of clients is finite, ...); a theorem that needs
more says so in its own hypotheses. The inductive invariants were checked with TLC
before they were proved.

**WebServerProof**

* `TypeCorrect`: `TypeOK`, one step per action.
* `LogAttributionHolds`: unique ids. Inductive part: who is between `Lock` and `IncId`
  holds `gLock`, and every id handed out is below `next_request_id`.
* `OwnDescriptorHolds`: a worker's number names its own connection until the answer is
  over. Inductive part (`FdInv`): for each worker that has a connection or a file, the
  table entry says so; entries are functions of the number, so two workers never share
  one. After a 400 the worker no longer has the connection, which is why `web_reuse` is
  no contradiction.
* `Inductive`: the conjunction `IInv` that web_safety checks.
* `LogOpenWhileUsedHolds`: `JoinInv` adds that a joined worker has exited and that the
  log is closed only when main() is done.
* `OnlyOwnAnswerHolds`, for every set of faults. The property itself says what may go
  wrong: where a log write fails `sendHeader` skips the header and the contents go out
  alone, and an existing file is answered 404, but not before enough clients have come to
  fill the descriptor table (`Crowded`; `TableFull` and `OwnerInv` count who can hold a
  descriptor). `OnlyOwnAnswer` speaks of what was sent; `AnswerInv` adds what each worker
  is about to send: nothing is out before the header, the buffer holds the message of
  the accepted connection, the chosen code suits the request (`CodeFits`). It rests on
  `QueueInv`: a connection is queued once, accepted once, and named by one descriptor at
  a time, so no two workers answer the same client.
* `ContentsDeliveredHolds`, under `Ample`: `fputs` does not fail, no request is answered
  400, and there are more descriptors than clients and workers together. Each part is
  needed: for the second, web_reuse shows that the `shutdown` after a 400 may cut off
  another client; for the third, a full table turns a file into a 404, and with one
  descriptor less TLC finds that case. `OwnerInv` says that no descriptor is lost (what
  is reserved or open as a file belongs to a worker), which gives, by counting, that a
  worker in `fopen` finds a free one (`FreeLeft`). `WholeInv` says that a worker past
  its last `send` has answered in full and that nobody else has shut its connection
  down. Clients may close silently or die, and `close` and `pthread_create` may fail.
* `DrainedOnExitHolds`, under `Ample` and if `strftime` does not fail (the code then
  drops the request and leaves the client waiting). `DrainInv`: as long as the process
  runs, every connected client is in the queue, in a worker's hands or answered. When
  main() closes the log the queue is empty (the listener is shut) and every worker has
  exited, so only "answered" is left.

**BoundedBufferProof**: `IInv` = types, mutex ownership, "the ring holds exactly the
items sent and not yet read, in order", and the wake-up condition. `InOrder` alone is
not inductive: it needs what every occupied slot holds. `Refinement` shows that `Write`
is the channel's `Put`, `Read` its `Take` and everything else a stutter. `NeverStuck`:
until main has joined both threads, one of the three can go on without a spurious
wake-up. A thread that holds the mutex runs; if nobody holds it or asks for it, each
thread waits or has returned. `NoLostWakeup` excludes that both wait, and `EndInv` that
one waits for the other that has returned (the consumer returns when it has read
`END_FLAG`, the producer when it has written it).

**SemQueueProof**: `IInv` = every slot is blank, holds a product or is in one thread's
hands (`CountInv`), the producer is as many slots ahead as are taken (`PlaceInv`), and
the slots between hold the items from `next` on (`DataInv`). `Refinement`: the
contents are the items from `next` on, as many as are written (`ContentsInv`), so
that the write to `queue[p]` is the channel's `Put` and the consumer's read its
`Take`, and the semaphore operations and the clearing of a slot are stutters.
`NeverStuck`: the two semaphores are never both 0 with both threads waiting. The
assumption `NUM <= WRAP` is the code's (100, 1000).

**OddEvenSortProof**

* `SortedAtEndHolds`: when `changes` is 0 after a region, the second loop has exchanged
  nothing (its counts cannot be erased, since every reset is before the first barrier),
  so the even pairs are as the first loop left them, in order, and the odd pairs were
  found in order. `Inductive` is the invariant behind it.
* `PermutationHolds`: an exchange loses nothing (`ExchangeKeeps`), and the invariant
  says that a thread's pair lies inside the array.

**CudaStreamsProof**: `ResultReadyHolds` and `NoPendingCopyHolds` for every number of
streams. The proof has two halves. The first is about the programs, which are sequences
whose length depends on the number of streams: `WellFormed` says that in each phase
every chunk is copied, computed and copied back in this order, that the host waits for
an event of the default stream before it reads or clears, and that calls on the default
stream separate what they should; `MainWellFormed` shows it for the three files by
working out which call stands at which position. The second is the invariant
`StreamInv` of any well-formed program: the executed calls are closed under "must
precede" and contain every call that was waited for (`OrderInv`), and an array
element is 1 exactly if its copy back of this phase has run (`ValueInv`).

**VectorAddProof**

* `CoverageExact`: the threads of a strided kernel add every one of n elements exactly
  if there are as many threads as the stride or as n. For the "if", element e is added
  by thread e modulo the stride; for the "only if", the element whose number is the
  number of threads is left out.
* `OkMeansComputedAlways`: for every device limit and any number of failing calls.
  `OkMeansComputed` is not inductive: `IInv` adds that behind a launch of `vec_add.cu`
  an error is pending or the kernel has run to its end, and that nothing is "sum"
  without the inputs.
* `FailureExplainedAlways`: `ExplainInv` follows the pending error: it stems from a call
  of this configuration or of the last one tried (configurations above the device's
  limit in between are skipped), and `cudaGetLastError` clears it.

**InnerProductProof**: `PartialSumsHolds`, `OthersLoadProductsHolds` and `NeverStuck`,
for every power of two as the number of threads per block, and as many blocks at most
(the code's sizes; only so do the sums all land in block 0's part of `vecC`). The invariant `IInv`:

* `BarrierInv`: behind the first barrier no thread of a block is two steps ahead of
  another;
* `LoadInv`: sums are stored only below the number of blocks, so that the
  other blocks load products whatever the order of the blocks;
* `SumInv`: what a thread holds after its last addition. A thread that has just been
  the right half of an addition still holds the sum of the round before, because it does
  not write, and with `BarrierInv` this is what its neighbour reads;
* `StoreInv`, `CollectInv`: the stored sums and what the host makes of them.

That adding the two halves of a strided sum gives the strided sum of the next round
(`StridedSum`) is an induction over the loop of the sum. It is done without the library's
induction schemes, whose operator parameter the provers cannot instantiate: a set of
numbers with 0 and with the successor of each of its members has all numbers, since the
least one outside would have a predecessor; the recursive functions are shown to exist
from the same fact. `NeverStuck`: the thread of a block that has passed the fewest barriers
is not held up by any.

**MatMultProof**: `ProductRightAlways`, the property `ProductRight` for all six files,
every size, every tile or block and every device limit: the product is right when no call
failed and the launch was accepted, and what is summed is in step in any case.

* Tiled kernels (`TiledInv`): `BarrierInv` is what the two `__syncthreads` achieve: no
  two threads are more than one tile apart, and a thread ahead has not loaded yet. From
  it follows that all elements in shared memory belong to the tile of whoever multiplies
  (`TileInv`, `InTile`). `SumInv` counts the products: as long as both matrices are
  there, the sum for an element inside the matrix has as many products as the thread has
  made, up to n, and the zeros of the padding add none after that. `ResultInv` collects
  the elements block by block; every element has a block and a thread (`EveryPlace`).
* The other kernels (`PlainInv`): `Home`, `Lane` and `Turn` say which block, which
  thread and which pass of its loop computes an element, and every element that is not
  `Pending` is right. The grid leaves no element out (`HomeIsBlock`), a pass
  computes no element but its own (`DivisionUnique`), and where a row is in shared
  memory the part that has been loaded is in place (`PlainBlockInv`). That the loop over
  a row gives all its products in order (`ProductIs`) is an induction over the row, done
  as above.
* `NeverStuck`: a running block in which threads still have work has one that no barrier
  holds up.

The `NeverStuck` theorems spell out which guards hold, since ENABLED is out of the
prover's reach. TLC checks deadlock as such in the runs of these modules, except for
the ring buffer, which ends, and where `Delivered` says that it does.

Only model-checked:

* all liveness (`ExitTerminates`, `EveryClientServed`, `Delivered`, `Flows`,
  `Terminates`, `Computed`, `Finishes`), because the prover does not handle fairness and
  ENABLED;
* the properties of *ThreadMachine*, which are about 78 fixed programs and gain nothing
  from a proof for all constants but `NITER`.

## 5. What is not modelled

Timing and printed text; `read_config` and the text of requests and headers;
partial reads and writes of sockets; signals other than the SIGPIPE that ends the
server; CUDA errors in the stream programs (`checkCuda` is a no-op in release
builds) and in `inner_product1.cu`; weak memory effects beyond interleaving; stack
sizes; what the kernel's scheduler does with a priority.

Programs left out, and why:

* `condition_sem.c` (the protocol of SemQueue in another loop), `dotprod_serial.c`,
  `pthread_create1.c`, `pthread_order*.c`, `fork.c`, `signal_test.c`,
  `gettimeofday.c`, `scheduling.c`, `thread_arg1.c`: nothing shared, or nothing but
  lines in some order.
* `OpenMP/Schedule/`, the timing, `hello` and `for` files, `oe_sort.c`, `b_sort.c`:
  independent iterations or sequential code; `shared.c` and `default*.c` do not
  compile.
* `ParallelReduction.cu`, `memcpy_not_complete.cu`, the exercises of `CUDA_67`: blanks
  to fill in.
* The hash, cipher and brute-force exercises, the image projects and the tensor core
  products: numerical code without interaction, largely in floating point or
  inside libraries.
* `stb_image*.h`: third-party.

## 6. Plan

The inventory's programs with interaction are modelled. Left, in this order:

1. `multi_stream.cu` and `DynamicParallelism3.cu` as further programs of
   *CudaStreams*, `inner_product.cu` as one of *InnerProduct*.
2. The search kernels of `test/C2`, `test/C3`, `test/C4` as far as their index
   arithmetic and the report of a match go; the hysteresis of `canny`.
