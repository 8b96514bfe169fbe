---------------------------- MODULE ThreadMachine ----------------------------
(***************************************************************************)
(* The machine that runs the sample programs: a process with threads that  *)
(* take one instruction at a time, in any order, and the thread library as *)
(* the programs use it.  A behaviour is one run of one program.            *)
(*                                                                         *)
(* Undefined behaviour is recorded in misuse: the name of an object used   *)
(* before its initialisation or after its end, of a lock destroyed while   *)
(* it is held, "thread" for a thread id that stands for no thread, "NULL"  *)
(* for the pointer of an fopen() that failed.                              *)
(***************************************************************************)
EXTENDS PthreadLife, OpenMP, FiniteSets

ASSUME BoundAssumption == NITER \in Nat \ {0, 1} /\ Values \in Nat /\ Values > 2 * NITER + Added

\* The programs, by the names of their files.
Programs ==
    [thread_no_sem |-> thread_no_sem, thread_with_sem |-> thread_with_sem,
    thread_with_mutex |-> thread_with_mutex, thread2_count |-> thread2_count,
    thread2_error_count |-> thread2_error_count,
    thread2_error_count_1 |-> thread2_error_count_1, thread2_join |-> thread2_join,
    inc_dec |-> inc_dec, inc_dec_cond |-> inc_dec_cond, inc_dec1 |-> inc_dec1,
    inc_dec2 |-> inc_dec2, inc_dec_mutex |-> inc_dec_mutex, dotprod_mutex |-> dotprod_mutex,
    reader_writer |-> reader_writer, reader_writer_no_mutex |-> reader_writer_no_mutex,
    reader_writer_diff_mutex |-> reader_writer_diff_mutex,
    reader_writer_cond |-> reader_writer_cond, reader_writer_delay |-> reader_writer_delay,
    reader_writer_delay1 |-> reader_writer_delay1, deadlock |-> deadlock,
    condition_no_cond |-> condition_no_cond, condvar |-> condvar, mutex_cond |-> mutex_cond,
    race_mutex_cond |-> race_mutex_cond, read_write_lock |-> read_write_lock,
    barrier |-> barrier, thread_arg |-> thread_arg, pthread_create |-> pthread_create,
    thread_arg2 |-> thread_arg2, thread_arg3 |-> thread_arg3, pthread_exit |-> pthread_exit,
    thread_return |-> thread_return, thread_return_local |-> thread_return_local,
    thread_arg4 |-> thread_arg4, detach |-> detach, sleep |-> sleep,
    scheduling1 |-> scheduling1, Priority |-> Priority, scheduling2 |-> scheduling2,
    scheduling3 |-> scheduling3, scheduling4 |-> scheduling4,
    Prioritized_thread |-> Prioritized_thread, attribute |-> attribute,
    scheduler5 |-> scheduler5, set_stack |-> set_stack, stack |-> stack,
    pthread_attr |-> pthread_attr, scheduling6 |-> scheduling6, omp_race |-> omp_race,
    omp_critical1 |-> omp_critical1, omp_atomic |-> omp_atomic,
    omp_critical |-> omp_critical, omp_reduction |-> omp_reduction, omp_lock |-> omp_lock,
    omp_loop2 |-> omp_loop2, omp_nowait |-> omp_nowait, omp_Source |-> omp_Source,
    omp_work_sharing1 |-> omp_work_sharing1, omp_fe |-> omp_fe,
    omp_matrix_times |-> omp_matrix_times, omp_private |-> omp_private,
    omp_lastprivate |-> omp_lastprivate, omp_firstprivate |-> omp_firstprivate,
    omp_test2 |-> omp_test2, omp_single |-> omp_single, omp_barrier |-> omp_barrier,
    omp_barrier_for_VS |-> omp_barrier_for_VS, omp_order |-> omp_order,
    omp_sections |-> omp_sections, omp_sections2 |-> omp_sections2, omp_task |-> omp_task,
    omp_task_for |-> omp_task_for, omp_Thread_FileCopy |-> omp_Thread_FileCopy,
    omp_FileRead |-> omp_FileRead, omp_Thread_FileRead |-> omp_Thread_FileRead,
    omp_FileWrite |-> omp_FileWrite, omp_Thread_FileWrite |-> omp_Thread_FileWrite,
    omp_Performance_barrier |-> omp_Performance_barrier]

Files == DOMAIN Programs

VARIABLES
    file,      \* the program that runs
    code,      \* the code of its threads
    pc,        \* where each thread is; 0 if it has not been created
    reg,       \* what each thread read last
    mem,       \* the shared cells
    waiting,   \* the condition variable or barrier each thread waits at, or ""
    dead,      \* the objects outside their lifetime
    misuse,    \* those used all the same
    gone,      \* threads that may not be joined (any more)
    failed,    \* threads that pthread_create did not create
    attr,      \* the attribute object
    sched,     \* policy and priority of each thread
    over       \* the process has ended

objects == <<dead, gone, failed, attr, sched>>
vars == <<file, code, pc, reg, mem, waiting, misuse, over, objects>>

Threads == DOMAIN pc
Ended(t) == pc[t] > Len(code[t])
Finished == over \/ \A t \in Threads : pc[t] = 0 \/ Ended(t)

\* pthread_attr_init's defaults.
DefaultAttr == [policy |-> SCHED_OTHER, prio |-> 0, explicit |-> FALSE, detach |-> FALSE]

Init ==
    /\ file \in Files
    /\ code = Programs[file].code /\ mem \in Programs[file].mems
    /\ pc = [t \in DOMAIN code |-> IF t = 1 THEN 1 ELSE 0]
    /\ reg = [t \in DOMAIN pc |-> 0]
    /\ waiting = [t \in DOMAIN pc |-> ""]
    /\ dead = Programs[file].dead
    /\ misuse = {} /\ gone = {} /\ failed = {}
    /\ attr = DefaultAttr
    /\ sched = [t \in DOMAIN pc |-> <<SCHED_OTHER, 0>>]
    /\ over = FALSE

-----------------------------------------------------------------------------
(* The parts of a step. *)

Running(t) == ~over /\ pc[t] # 0 /\ ~Ended(t) /\ waiting[t] = ""
Now(t)     == code[t][pc[t]]
At(t, op)  == Running(t) /\ Now(t).op = op

Go(t, n) == pc' = [pc EXCEPT ![t] = @ + n]
Touch(S) == misuse' = misuse \cup (dead \cap S)
Keep     == UNCHANGED <<reg, mem, waiting, over>> /\ UNCHANGED objects
Put(x, v) == mem' = [mem EXCEPT ![x] = v]
Waiters(x) == {t \in Threads : waiting[t] = x}

\* What a load of x may return.
ValuesOf(x) == IF x \in dead THEN 0 .. Values - 1 ELSE {mem[x]}

\* real-time policies need privileges
Root == "root" \in DOMAIN mem /\ mem.root = 1
Allowed(policy, prio) ==
    /\ prio \in Priorities(policy)
    /\ policy # SCHED_OTHER => Root

-----------------------------------------------------------------------------
(* Memory and control. *)

DoLoad(t) ==
    /\ At(t, "load") /\ Go(t, 1) /\ Touch({Now(t).x})
    /\ \E v \in ValuesOf(Now(t).x) : reg' = [reg EXCEPT ![t] = v]
    /\ UNCHANGED <<mem, waiting, over>> /\ UNCHANGED objects

DoAdd(t) ==
    /\ At(t, "add") /\ Go(t, 1) /\ Touch({Now(t).x})
    /\ reg' = [reg EXCEPT ![t] = (@ + mem[Now(t).x]) % Values]
    /\ UNCHANGED <<mem, waiting, over>> /\ UNCHANGED objects

DoStore(t) ==
    /\ At(t, "store") /\ Go(t, 1) /\ Touch({Now(t).x})
    /\ Put(Now(t).x, (reg[t] + Now(t).v) % Values)
    /\ UNCHANGED <<reg, waiting, over>> /\ UNCHANGED objects

DoSet(t) ==
    /\ At(t, "set") /\ Go(t, 1) /\ Touch({Now(t).x})
    /\ Put(Now(t).x, Now(t).v)
    /\ UNCHANGED <<reg, waiting, over>> /\ UNCHANGED objects

DoPrint(t) == At(t, "print") /\ Go(t, 1) /\ Touch({Now(t).x}) /\ Keep

DoIf(t) ==
    /\ At(t, "if") /\ Touch({Now(t).x})
    /\ Go(t, IF mem[Now(t).x] \in Now(t).v.is THEN 1 ELSE Now(t).v.skip + 1)
    /\ Keep

DoJump(t) == At(t, "jump") /\ Go(t, Now(t).v) /\ Touch({}) /\ Keep

DoFree(t) ==
    /\ At(t, "free") /\ Go(t, 1) /\ Touch({Now(t).x})
    /\ dead' = dead \cup {Now(t).x}
    /\ UNCHANGED <<reg, mem, waiting, over, gone, failed, attr, sched>>

DoExit(t) ==
    /\ At(t, "exit") /\ Go(t, 1) /\ over' = TRUE
    /\ UNCHANGED <<reg, mem, waiting, misuse>> /\ UNCHANGED objects

DoCrash(t) ==
    /\ At(t, "crash") /\ Go(t, 1) /\ misuse' = misuse \cup {Now(t).x} /\ over' = TRUE
    /\ UNCHANGED <<reg, mem, waiting>> /\ UNCHANGED objects

-----------------------------------------------------------------------------
(* Synchronisation. *)

DoLock(t) ==
    /\ At(t, "lock") /\ mem[Now(t).x] = 0
    /\ Go(t, 1) /\ Touch({Now(t).x}) /\ Put(Now(t).x, t)
    /\ UNCHANGED <<reg, waiting, over>> /\ UNCHANGED objects

DoUnlock(t) ==
    /\ At(t, "unlock") /\ Go(t, 1) /\ Touch({Now(t).x}) /\ Put(Now(t).x, 0)
    /\ UNCHANGED <<reg, waiting, over>> /\ UNCHANGED objects

\* pthread_cond_wait and pthread_cond_timedwait; the next instruction takes the
\* mutex again.
DoWait(t) ==
    /\ At(t, "wait") \/ At(t, "timedwait")
    /\ Go(t, 1) /\ Touch({Now(t).x, Now(t).v})
    /\ Put(Now(t).v, 0) /\ waiting' = [waiting EXCEPT ![t] = Now(t).x]
    /\ UNCHANGED <<reg, over>> /\ UNCHANGED objects

\* A spurious wakeup, or the time is up.  Barriers, which are cells, have none.
Wakeup(t) ==
    /\ ~over /\ waiting[t] # "" /\ waiting[t] \notin DOMAIN mem
    /\ waiting' = [waiting EXCEPT ![t] = ""]
    /\ UNCHANGED <<file, code, pc, reg, mem, misuse, over>> /\ UNCHANGED objects

Wake(S) == waiting' = [t \in Threads |-> IF t \in S THEN "" ELSE waiting[t]]

DoSignal(t) ==
    /\ At(t, "signal") /\ Go(t, 1) /\ Touch({Now(t).x})
    /\ IF Waiters(Now(t).x) = {} THEN UNCHANGED waiting
       ELSE \E u \in Waiters(Now(t).x) : Wake({u})
    /\ UNCHANGED <<reg, mem, over>> /\ UNCHANGED objects

DoBroadcast(t) ==
    /\ At(t, "broadcast") /\ Go(t, 1) /\ Touch({Now(t).x}) /\ Wake(Waiters(Now(t).x))
    /\ UNCHANGED <<reg, mem, over>> /\ UNCHANGED objects

DoSemWait(t) ==
    /\ At(t, "sem_wait") /\ mem[Now(t).x] > 0
    /\ Go(t, 1) /\ Touch({Now(t).x}) /\ Put(Now(t).x, mem[Now(t).x] - 1)
    /\ UNCHANGED <<reg, waiting, over>> /\ UNCHANGED objects

DoSemPost(t) ==
    /\ At(t, "sem_post") /\ Go(t, 1) /\ Touch({Now(t).x}) /\ Put(Now(t).x, mem[Now(t).x] + 1)
    /\ UNCHANGED <<reg, waiting, over>> /\ UNCHANGED objects

\* A read/write lock holds its writer, or minus the number of its readers; a
\* writer that waits keeps no reader out (glibc's default).
DoRdLock(t) ==
    /\ At(t, "rdlock") /\ mem[Now(t).x] <= 0
    /\ Go(t, 1) /\ Touch({Now(t).x}) /\ Put(Now(t).x, mem[Now(t).x] - 1)
    /\ UNCHANGED <<reg, waiting, over>> /\ UNCHANGED objects

DoWrLock(t) ==
    /\ At(t, "wrlock") /\ mem[Now(t).x] = 0
    /\ Go(t, 1) /\ Touch({Now(t).x}) /\ Put(Now(t).x, t)
    /\ UNCHANGED <<reg, waiting, over>> /\ UNCHANGED objects

DoRwUnlock(t) ==
    /\ At(t, "rwunlock") /\ Go(t, 1) /\ Touch({Now(t).x})
    /\ Put(Now(t).x, IF mem[Now(t).x] > 0 THEN 0 ELSE mem[Now(t).x] + 1)
    /\ UNCHANGED <<reg, waiting, over>> /\ UNCHANGED objects

\* A barrier counts the threads that have come; the last one lets all go on.
DoBarrier(t) ==
    LET b == Now(t).x
        last == mem[b] + 1 >= Now(t).v IN
    /\ At(t, "barrier") /\ Go(t, 1) /\ Touch({b})
    /\ Put(b, IF last THEN 0 ELSE mem[b] + 1)
    /\ IF last THEN Wake(Waiters(b)) ELSE waiting' = [waiting EXCEPT ![t] = b]
    /\ UNCHANGED <<reg, over>> /\ UNCHANGED objects

\* An object must not be held or waited for when it is destroyed.
DoDestroy(t) ==
    LET x == Now(t).x
        busy == Waiters(x) # {} \/ (x \in DOMAIN mem /\ mem[x] # 0) IN
    /\ At(t, "destroy") /\ Go(t, 1)
    /\ misuse' = misuse \cup (IF busy \/ x \in dead THEN {x} ELSE {})
    /\ dead' = dead \cup {x}
    /\ UNCHANGED <<reg, mem, waiting, over, gone, failed, attr, sched>>

-----------------------------------------------------------------------------
(* Threads and their attributes. *)

DoCreate(t) ==
    LET u == Now(t).v.t
        explicit == Now(t).v.attr /\ attr.explicit IN
    /\ At(t, "create") /\ Touch({Now(t).x})
    /\ explicit => Allowed(attr.policy, attr.prio)
    /\ pc' = [pc EXCEPT ![t] = @ + 1, ![u] = 1]
    /\ sched' = [sched EXCEPT ![u] = IF explicit THEN <<attr.policy, attr.prio>> ELSE sched[t]]
    /\ gone' = IF Now(t).v.attr /\ attr.detach THEN gone \cup {u} ELSE gone
    /\ UNCHANGED <<reg, mem, waiting, over, dead, failed, attr>>

\* pthread_create may always fail for lack of resources.
FailCreate(t) ==
    /\ At(t, "create") /\ Go(t, 1) /\ Touch({Now(t).x})
    /\ failed' = failed \cup {Now(t).v.t}
    /\ over' = Now(t).v.check
    /\ UNCHANGED <<reg, mem, waiting, dead, gone, attr, sched>>

\* The result stored through a pointer that is none may crash the process.
DoJoin(t) ==
    /\ At(t, "join") /\ Now(t).v \notin gone \cup failed /\ Ended(Now(t).v)
    /\ Go(t, 1) /\ Touch({Now(t).x})
    /\ gone' = gone \cup {Now(t).v}
    /\ over' \in IF Now(t).x \in dead THEN BOOLEAN ELSE {over}
    /\ UNCHANGED <<reg, mem, waiting, dead, failed, attr, sched>>

\* A join of a thread that is detached, was joined before or was never created:
\* it returns at once, or crashes the process.
BadJoin(t) ==
    /\ At(t, "join") /\ Now(t).v \in gone \cup failed
    /\ Go(t, 1) /\ misuse' = misuse \cup {"thread"}
    /\ over' \in BOOLEAN
    /\ UNCHANGED <<reg, mem, waiting>> /\ UNCHANGED objects

DoAttrInit(t) ==
    /\ At(t, "attr_init") /\ Go(t, 1) /\ Touch({})
    /\ dead' = dead \ {"attr"} /\ attr' = DefaultAttr
    /\ UNCHANGED <<reg, mem, waiting, over, gone, failed, sched>>

\* A priority that the policy does not have is refused.
DoAttrSet(t) ==
    LET f == Now(t).v.field
        value == Now(t).v.value IN
    /\ At(t, "attr_set") /\ Go(t, 1) /\ Touch({"attr"})
    /\ attr' = IF f = "prio" /\ value \notin Priorities(attr.policy) THEN attr
               ELSE [attr EXCEPT ![f] = value]
    /\ UNCHANGED <<reg, mem, waiting, over, dead, gone, failed, sched>>

\* Every caller of pthread_setschedparam exits when it fails: without
\* privileges, or when the thread has ended.
DoSetSched(t) ==
    LET u == Now(t).v.t
        p == Now(t).v.param
        ok == Allowed(p[1], p[2]) /\ ~Ended(u) IN
    /\ At(t, "setsched") /\ Go(t, 1)
    /\ misuse' = IF u \in failed THEN misuse \cup {"thread"} ELSE misuse
    /\ sched' = IF ok /\ u \notin failed THEN [sched EXCEPT ![u] = p] ELSE sched
    /\ over' = ~ok
    /\ UNCHANGED <<reg, mem, waiting, dead, gone, failed, attr>>

Step(t) ==
    /\ UNCHANGED <<file, code>>
    /\ \/ DoLoad(t) \/ DoAdd(t) \/ DoStore(t) \/ DoSet(t) \/ DoPrint(t) \/ DoIf(t) \/ DoJump(t)
       \/ DoFree(t) \/ DoExit(t) \/ DoCrash(t) \/ DoLock(t) \/ DoUnlock(t) \/ DoWait(t)
       \/ DoSignal(t) \/ DoBroadcast(t) \/ DoSemWait(t) \/ DoSemPost(t)
       \/ DoRdLock(t) \/ DoWrLock(t) \/ DoRwUnlock(t) \/ DoBarrier(t) \/ DoDestroy(t)
       \/ DoCreate(t) \/ FailCreate(t) \/ DoJoin(t) \/ BadJoin(t)
       \/ DoAttrInit(t) \/ DoAttrSet(t) \/ DoSetSched(t)

Next == \E t \in Threads : Step(t) \/ Wakeup(t)

\* Every thread that can go on does so in the end; locks are not fair.
Fairness == \A t \in 1 .. 5 : WF_vars(t \in Threads /\ Step(t))

Spec == Init /\ [][Next]_vars /\ Fairness

-----------------------------------------------------------------------------
(* Properties.  Each names the programs that go wrong, and how; all others   *)
(* are right.                                                                *)

Created == failed = {}

Reads(t)  == {x \in DOMAIN mem : Running(t) /\ Now(t).x = x
                                 /\ Now(t).op \in {"load", "add", "print", "if"}}
Writes(t) == {x \in DOMAIN mem : Running(t) /\ Now(t).x = x
                                 /\ Now(t).op \in {"store", "set", "free"}}

\* The variables that some program leaves unprotected.
Racy ==
    ({"thread_no_sem", "thread2_error_count", "thread2_error_count_1", "thread2_join"} \X {"count"})
    \cup ({"reader_writer_no_mutex", "reader_writer_diff_mutex"} \X {"buffer_has_item"})
    \cup ({"thread_arg", "pthread_create"} \X {"t"})
    \cup ({"omp_private", "omp_test2", "omp_task_for"} \X {"j"})
    \cup {<<"omp_race", "sum">>, <<"omp_private", "a">>, <<"omp_fe", "Fe2">>, <<"omp_fe", "Fe3">>,
          <<"omp_sections2", "a0">>, <<"omp_sections2", "a1">>}

\* No thread writes a variable while another one is about to use it, except
\* those of Racy: the locks, joins, barriers and private copies of all other
\* programs are enough.
RaceFree ==
    \A t, u \in Threads, x \in DOMAIN mem :
        t # u /\ x \in Writes(t) /\ x \in Reads(u) \cup Writes(u) => <<file, x>> \in Racy

\* What main may print as x.
Printed(x) ==
    CASE file = "thread2_error_count"                 -> 0 .. 2 * NITER
      [] file = "thread2_error_count_1"               -> 1 .. 2 * NITER
      [] file = "thread2_join"                        -> 2 .. NITER + NFEW
      [] file \in {"thread_no_sem", "omp_race"}       -> 2 .. 2 * NITER
      [] file = "condvar"                             -> {2 * NITER + Added}
      [] file = "omp_fe"                              -> {0, 1, 2, 3, 5}
      [] file = "omp_sections2"                       -> 0 .. 2
      [] file = "omp_private"                         -> 1 .. 2
      [] file = "omp_single"                          -> {2}
      [] OTHER ->
           [count |-> {2 * NITER}, sum |-> {2 * NITER}, A1 |-> {NITER}, D1 |-> {NITER},
            b0 |-> {2}, b1 |-> {4}, y0 |-> {4}, y1 |-> {4}, a5 |-> {1}, a6 |-> {2}, a |-> {2},
            dest1 |-> {1}, dest2 |-> {2}, funcA |-> {1}, funcB |-> {1}, funcC |-> {1}][x]

\* The results: a count or sum is complete unless the program counts without a
\* lock (two threads lose all but two of their increments at worst) or does not
\* wait for both threads; a thread or task with an argument of its own sees that
\* one, not its sibling's.
Results ==
    /\ At(1, "print") /\ Created => mem[Now(1).x] \in Printed(Now(1).x)
    /\ file \in {"thread_arg2", "thread_arg3", "pthread_exit", "omp_task"} =>
           mem.seen2 \in {0, 1} /\ mem.seen3 \in {0, 2}

\* What one step may do.  A reader takes every item once and in order, even
\* without a mutex; a decrement never takes the unsigned count below 0; the
\* blocks of an ordered loop run in the order of the iterations.
Evolves ==
    [][ /\ "got" \in DOMAIN mem => mem'.got \in {mem.got, (mem.got + 1) % Values}
        /\ file \in {"inc_dec", "inc_dec1", "inc_dec2", "inc_dec_cond", "inc_dec_mutex",
                     "dotprod_mutex"} /\ mem.count = 0 => mem'.count \in {0, 1}
        /\ file = "omp_order" => mem'.last \in {mem.last, mem.last + 1} ]_mem

\* A thread that waits for a condition while the mutex is free waits rightly: no
\* signal was sent before it slept.  race_mutex_cond has no predicate and is left
\* out.
NoLostWakeup ==
    /\ file \in {"inc_dec", "inc_dec_cond"} /\ mem.count_lock = 0 =>
           (waiting[2] # "" => mem.count = 0)
    /\ file = "reader_writer_cond" /\ mem.mutex = 0 =>
           /\ waiting[1] # "" => mem.buffer_has_item = 1
           /\ waiting[2] # "" => mem.buffer_has_item = 0
    /\ file = "mutex_cond" /\ mem.mut = 0 => (waiting[2] # "" => mem.y = 5)

Stuck == ~Finished /\ ~ENABLED (\E t \in Threads : Step(t))

\* Each thread holds the mutex the other one wants; the read lock taken twice is
\* never released; a horse that waits after the broadcast has missed the start.
Deadlocked ==
    \/ file = "deadlock" /\ mem.mutex1 = 1 /\ mem.mutex2 = 2
    \/ file = "read_write_lock" /\ mem.rwlock < 0 /\ Ended(4)
    \/ file = "race_mutex_cond" /\ {"cond", "mutex"} \subseteq dead /\ Waiters("cond") # {}

\* When all threads wait for ever, it is in one of three programs, and in the way
\* Deadlocked describes.
OnlyTheseStick == Stuck /\ Created => Deadlocked

\* The undefined behaviour the programs can meet.  A thread id is used for no
\* thread only after a pthread_create that failed unnoticed, or in detach.c.
Misused ==
    {<<"detach", "ret">>, <<"detach", "thread">>, <<"race_mutex_cond", "cond">>,
     <<"race_mutex_cond", "mutex">>, <<"read_write_lock", "rwlock">>, <<"thread_return", "rVal">>,
     <<"thread_return_local", "rVal">>, <<"scheduling6", "attr">>, <<"thread2_count", "mutex">>,
     <<"reader_writer_delay", "mutex">>, <<"condition_no_cond", "locker">>,
     <<"condition_no_cond", "result">>, <<"read_write_lock", "NULL">>,
     <<"scheduler5", "thePriority">>}
    \cup ({"omp_FileRead", "omp_FileWrite", "omp_Thread_FileRead", "omp_Thread_FileWrite"}
          \X {"NULL"})

OnlyTheseMisuse ==
    \A x \in misuse : <<file, x>> \in Misused \/ (x = "thread" /\ ~Created)

\* The policy and priority each file asks for its threads.
Asked(t) ==
    CASE file = "scheduling3"        -> <<SCHED_FIFO, MidPriority>>
      [] file = "Prioritized_thread" -> <<SCHED_FIFO, 20 + 3 * (t - 2)>>
      [] file = "attribute"          -> <<SCHED_FIFO, 50>>
      [] OTHER                       -> <<SCHED_OTHER, 0>>

\* A thread runs with the scheduling its program asks for, or not at all: without
\* privileges the creation fails.  In scheduling2.c, which does not ask for
\* PTHREAD_EXPLICIT_SCHED, it runs with main's and the attributes are ignored.
PolicyAsAsked ==
    file \notin {"scheduler5", "scheduling6"} =>
        \A t \in Threads \ {1} : pc[t] # 0 => sched[t] = Asked(t)

\* Where thread t waits at the barrier.
BarrierAt(t) == CHOOSE i \in DOMAIN code[t] : code[t][i].op = "barrier"

\* No thread leaves the barrier before every thread has come to it.
BarrierTogether ==
    file \in {"barrier", "omp_Performance_barrier", "omp_barrier", "omp_barrier_for_VS"} =>
        \A t, u \in Threads :
            pc[t] > BarrierAt(t) /\ waiting[t] = "" => pc[u] > BarrierAt(u)

\* A thread goes round a loop with the lock held that another thread would need
\* to end it (condvar, condition_no_cond), or on a flag that nobody clears.
Spinning ==
    \/ /\ file = "condvar"
       /\ mem.count \in 1 .. COUNT_LIMIT - 1 /\ mem.count_mutex \in {3, 4}
    \/ /\ file = "condition_no_cond"
       /\ \/ mem.fill = 0 /\ mem.locker = 3
          \/ mem.fill = 1 /\ mem.locker = 2
    \/ file = "sleep" /\ mem.flag = 1

\* Programs whose threads are written to loop for ever.
Loops ==
    {"deadlock", "inc_dec", "inc_dec1", "inc_dec_cond", "inc_dec_mutex",
     "reader_writer", "reader_writer_no_mutex", "reader_writer_diff_mutex", "reader_writer_cond",
     "reader_writer_delay", "reader_writer_delay1"}

\* Wake-ups without a cause, or at the end of a timed wait, go on for ever.
Restless == []<><<\E t \in Threads : Wakeup(t)>>_vars

\* Every other program comes to an end, if its threads are created and wake-ups
\* without a cause do not go on for ever; the only way in which it does not is to
\* stay in one of the states described by Deadlocked and Spinning.
Finishes ==
    \/ <>(Finished \/ ~Created \/ file \in Loops)
    \/ <>[](Deadlocked \/ Spinning)
    \/ Restless

\* "The program continues until the incrementing threads reach TCOUNT.  The main
\* program prints the final value of count" (condvar.c).
CondvarEnds == file = "condvar" => <>(Finished \/ ~Created) \/ Restless
=============================================================================
