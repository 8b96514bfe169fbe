----------------------------- MODULE PthreadSync -----------------------------
(***************************************************************************)
(* The programs of Pthread/ that hand data over or wait for each other:    *)
(* one-place buffers, locks in a wrong order, condition variables,         *)
(* read/write locks and barriers.                                          *)
(***************************************************************************)
EXTENDS PthreadCounters

-----------------------------------------------------------------------------
(* reader_writer*.c: main writes items into a one-place buffer, a thread    *)
(* reads them.  got is what the reader last printed; item and buffer are    *)
(* chars and wrap.                                                          *)

BufferCells ==
    {[buffer |-> 0, buffer_has_item |-> 0, item |-> 0, got |-> Values - 1,
      mutex |-> 0, mutex1 |-> 0, mutex2 |-> 0]}

Produce == Copy("item", "buffer") \o Set("buffer_has_item", 1) \o Inc("item", 1)
Consume == Copy("buffer", "got") \o Set("buffer_has_item", 0)
Write   == IfThen("buffer_has_item", {0}, Produce)
Read    == IfThen("buffer_has_item", {1}, Consume)

\* main creates the reader and becomes the writer.
Buffer(writer, reader) ==
    Program(<<Create(2) \o Forever(writer), Forever(reader)>>, BufferCells, {})

reader_writer == Buffer(Locked("mutex", Write), Locked("mutex", Read))

\* Mutant of reader_writer_no_mutex: the flag is raised before the item is stored.
reader_writer_no_mutex_early ==
    Buffer(IfThen("buffer_has_item", {0},
                  Set("buffer_has_item", 1) \o Copy("item", "buffer") \o Inc("item", 1)), Read)

reader_writer_no_mutex == Buffer(Write, Read)

\* Each thread has a mutex of its own.
reader_writer_diff_mutex == Buffer(Locked("mutex1", Write), Locked("mutex2", Read))

\* Mutant of reader_writer_cond: the reader does not signal buffer_not_full.
reader_writer_cond_silent ==
    LET waitFull  == CondWait("buffer_not_full", "mutex")
        waitEmpty == CondWait("buffer_not_empty", "mutex")
    IN  Buffer(Locked("mutex", IfElse("buffer_has_item", {0},
                                      Produce \o Signal("buffer_not_empty"), waitFull)),
               Locked("mutex", IfElse("buffer_has_item", {1}, Consume, waitEmpty)))

reader_writer_cond ==
    LET waitFull  == CondWait("buffer_not_full", "mutex")
        waitEmpty == CondWait("buffer_not_empty", "mutex")
    IN  Buffer(Locked("mutex", IfElse("buffer_has_item", {0},
                                      Produce \o Signal("buffer_not_empty"), waitFull)),
               Locked("mutex", IfElse("buffer_has_item", {1},
                                      Consume \o Signal("buffer_not_full"), waitEmpty)))

\* After each round one side waits a second on a condition nobody signals.
Pause == Lock("mutex") \o TimedWait("cond", "mutex") \o Unlock("mutex")

\* main initialises a mutex of its own that hides the one the threads lock.
reader_writer_delay ==
    [Buffer(Locked("mutex", Write) \o Pause, Locked("mutex", Read)) EXCEPT !.dead = {"mutex"}]

reader_writer_delay1 == Buffer(Locked("mutex", Write), Locked("mutex", Read) \o Pause)

\* deadlock.c: the two locks in opposite orders.
deadlock ==
    Buffer(Locked("mutex1", Locked("mutex2", Write)), Locked("mutex2", Locked("mutex1", Read)))

-----------------------------------------------------------------------------
(* condition_no_cond.c: the ring buffer of condition.c with the waits       *)
(* commented out.  fill is the number of items between the two positions,   *)
(* which change only under the lock; BUFFER_SIZE - 1 is 1, and two items    *)
(* and END_FLAG are sent.  locker is never initialised, and main lets the   *)
(* joins store a pointer in result, an int.                                 *)

condition_no_cond ==
    LET spin(S)  == While("fill", S, <<>>)
        produce  == Locked("locker", spin({1}) \o Inc("fill", 1))
        consume  == Locked("locker", spin({0}) \o Inc("fill", -1))
        main     == Create(2) \o Create(3)
                    \o JoinInto(2, "result") \o JoinInto(3, "result") \o Exit
    IN  Program(<<main, Repeat(3, produce), Repeat(3, consume)>>,
                {[fill |-> 0, locker |-> 0]}, {"locker", "result"})

-----------------------------------------------------------------------------
(* condvar.c: COUNT_LIMIT is 2 and TCOUNT is NITER; watch_count adds        *)
(* 125, here 3, to a count that the loop in inc_count compares.             *)

COUNT_LIMIT == 2
Added       == 3

condvar ==
    LET below       == 0 .. COUNT_LIMIT - 1
        watch_count == Locked("count_mutex",
                           IfThen("count", below,
                                  CondWait("count_threshold_cv", "count_mutex")
                                  \o Inc("count", Added)))
        inc_count   == Locked("count_mutex",
                           Inc("count", 1)
                           \o While("count", below, Signal("count_threshold_cv")))
        main == AttrInit \o CreateAttr(2) \o CreateAttr(3) \o CreateAttr(4)
                \o Join(2) \o Join(3) \o Join(4) \o Show("count")
                \o Destroy("attr") \o Destroy("count_mutex") \o Destroy("count_threshold_cv")
    IN  Program(<<main, watch_count, Repeat(NITER, inc_count), Repeat(NITER, inc_count)>>,
                {[count |-> 0, count_mutex |-> 0, root |-> 0]}, {"attr"})

\* Mutant of mutex_cond: the broadcast is forgotten.
mutex_cond_quiet ==
    LET aThread == Locked("mut", While("y", {5}, CondWait("cond", "mut")))
        bThread == Locked("mut", Set("y", 1))
        main    == Create(2) \o Create(3) \o Join(2) \o Join(3) \o Exit
    IN  Program(<<main, aThread, bThread>>, {[y |-> 5, mut |-> 0]}, {})

\* x and y change together, under the mutex: y stands for the pair.
mutex_cond ==
    LET aThread == Locked("mut", While("y", {5}, CondWait("cond", "mut")))
        bThread == Locked("mut", Set("y", 1) \o Broadcast("cond"))
        main    == Create(2) \o Create(3) \o Join(2) \o Join(3) \o Exit
    IN  Program(<<main, aThread, bThread>>, {[y |-> 5, mut |-> 0]}, {})

\* race_mutex_cond.c with two horses.  There is no predicate to wait for: main's
\* sleep(1) is meant to make sure that every horse waits.
race_mutex_cond ==
    LET GoRun == Locked("mutex", CondWait("cond", "mutex"))
        main  == Create(2) \o Create(3) \o Locked("mutex", Broadcast("cond"))
                 \o Destroy("cond") \o Destroy("mutex") \o Join(2) \o Join(3) \o Exit
    IN  Program(<<main, GoRun, GoRun>>, {[mutex |-> 0]}, {})

-----------------------------------------------------------------------------
(* read_write_lock.c: the file is a cell, there tells whether it exists and *)
(* writable whether the program may write it; fopen() returns NULL if not,  *)
(* which nobody looks at.  read_2 takes the read lock a second time where   *)
(* it should release it.                                                    *)

read_write_lock ==
    LET write(b) == IfElse("writable", {0}, Crash("NULL"), Set("there", 1) \o b)
        read     == IfElse("there", {0}, Crash("NULL"), Load("temp"))
        write_1 == WrLock("rwlock") \o write(Set("temp", 1)) \o RwUnlock("rwlock")
        write_2 == WrLock("rwlock") \o write(Inc("temp", 2)) \o RwUnlock("rwlock")
        read_1  == RdLock("rwlock") \o read \o RwUnlock("rwlock")
        read_2  == RdLock("rwlock") \o read \o RdLock("rwlock")
        main    == Create(2) \o Create(3) \o Create(4) \o Create(5)
                   \o Join(2) \o Join(3) \o Join(4) \o Join(5) \o Destroy("rwlock") \o Exit
    IN  Program(<<main, write_1, read_1, read_2, write_2>>,
                [temp : {0}, rwlock : {0}, there : {0, 1}, writable : {0, 1}], {})

\* Mutant of barrier: pthread_barrier_init(&mybarrier, NULL, THREAD_COUNT).
barrier_short ==
    LET threadFn(id) == Load(id) \o Barrier("mybarrier", 2)
        main == Set("id2", 1) \o Create(2) \o Set("id3", 2) \o Create(3) \o Barrier("mybarrier", 2)
                \o Join(2) \o Join(3) \o Destroy("mybarrier") \o Exit
    IN  Program(<<main, threadFn("id2"), threadFn("id3")>>,
                {[id2 |-> 0, id3 |-> 0, mybarrier |-> 0]}, {})

\* barrier.c with THREAD_COUNT 2; the barrier is for the threads and main.
barrier ==
    LET threadFn(id) == Load(id) \o Barrier("mybarrier", 3)
        main == Set("id2", 1) \o Create(2) \o Set("id3", 2) \o Create(3) \o Barrier("mybarrier", 3)
                \o Join(2) \o Join(3) \o Destroy("mybarrier") \o Exit
    IN  Program(<<main, threadFn("id2"), threadFn("id3")>>,
                {[id2 |-> 0, id3 |-> 0, mybarrier |-> 0]}, {})
=============================================================================
