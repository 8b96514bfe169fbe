--------------------------- MODULE PthreadCounters ---------------------------
(***************************************************************************)
(* The programs of Pthread/ that share a counter, one definition each: the *)
(* code of main (thread 1) and of the threads it creates (2, 3, ...).      *)
(***************************************************************************)
EXTENDS ThreadCode

CONSTANTS
    NITER,      \* iterations of a counting loop (1000000 in the code)
    Values      \* integers wrap modulo Values (2^32; 2^8 for a char)

\* Iterations of the short loop of 2thread_join.c (100 in the code).
NFEW == 2

-----------------------------------------------------------------------------
(* Two threads count to NITER each; main joins them and prints count.       *)

CountMain == CreateOrExit(2) \o CreateOrExit(3) \o Join(2) \o Join(3) \o Show("count")

thread_no_sem ==
    LET ThreadAdd == Repeat(NITER, Inc("count", 1))
    IN  Program(<<CountMain, ThreadAdd, ThreadAdd>>, {[count |-> 0]}, {})

\* Mutant of thread_with_sem: sem_init(&mutex, 0, 2).
thread_with_sem_two ==
    LET ThreadAdd == Repeat(NITER, SemWait("mutex") \o Inc("count", 1) \o SemPost("mutex"))
    IN  Program(<<CountMain, ThreadAdd, ThreadAdd>>, {[count |-> 0, mutex |-> 2]}, {})

thread_with_sem ==
    LET ThreadAdd == Repeat(NITER, SemWait("mutex") \o Inc("count", 1) \o SemPost("mutex"))
    IN  Program(<<CountMain, ThreadAdd, ThreadAdd>>, {[count |-> 0, mutex |-> 1]}, {})

\* Mutant of thread_with_mutex: count is read before the lock is taken.
thread_with_mutex_late ==
    LET ThreadAdd == Repeat(NITER, Load("count") \o Locked("counter_mutex", Store("count", 1)))
    IN  Program(<<CountMain, ThreadAdd, ThreadAdd>>, {[count |-> 0, counter_mutex |-> 0]}, {})

thread_with_mutex ==
    LET ThreadAdd == Repeat(NITER, Locked("counter_mutex", Inc("count", 1)))
    IN  Program(<<CountMain, ThreadAdd, ThreadAdd>>, {[count |-> 0, counter_mutex |-> 0]}, {})

\* The mutex is static and never initialised; glibc takes its zeros for a mutex
\* that nobody holds.
thread2_count ==
    LET count_function == Repeat(NITER, Locked("mutex", Inc("count", 1)))
        main == Create(2) \o Create(3) \o Join(2) \o Join(3) \o Show("count") \o Exit
    IN  Program(<<main, count_function, count_function>>, {[count |-> 0, mutex |-> 0]}, {"mutex"})

\* No join: main prints and returns while the threads count.
thread2_error_count ==
    LET count_function == Repeat(NITER, Inc("count", 1))
        main == CreateOrExit(2) \o CreateOrExit(3) \o Show("count") \o Exit
    IN  Program(<<main, count_function, count_function>>, {[count |-> 0]}, {})

\* The join of thread1 is commented out.
thread2_error_count_1 ==
    LET count_function == Repeat(NITER, Inc("count", 1))
        main == Create(2) \o Create(3) \o Join(3) \o Show("count") \o Exit
    IN  Program(<<main, count_function, count_function>>, {[count |-> 0]}, {})

\* thread1 counts less than thread2, and is joined after it.
thread2_join ==
    LET main == Create(2) \o Create(3) \o Join(3) \o Join(2) \o Show("count") \o Exit
        count_function(n) == Repeat(n, Inc("count", 1))
    IN  Program(<<main, count_function(NFEW), count_function(NITER)>>, {[count |-> 0]}, {})

-----------------------------------------------------------------------------
(* One thread decrements an unsigned count, another one increments it.      *)

CountCells == {[count |-> 0, count_lock |-> 0]}
DecMain    == Create(2) \o Create(3)
JoinBoth   == Join(2) \o Join(3) \o Exit

Signalled  == IfThen("count", {0}, Signal("count_nonzero")) \o Inc("count", 1)
Positive   == 1 .. Values - 1

inc_dec ==
    LET wait == CondWait("count_nonzero", "count_lock")
        decrement_count == Locked("count_lock", While("count", {0}, wait) \o Inc("count", -1))
        increment_count == Locked("count_lock", Signalled)
    IN  Program(<<DecMain \o JoinBoth, Forever(decrement_count), Forever(increment_count)>>,
                CountCells, {})

\* Mutant of inc_dec_cond: the signal is forgotten.
inc_dec_cond_silent ==
    LET wait == CondWait("count_nonzero", "count_lock")
        decrement_count == Locked("count_lock", IfElse("count", Positive, Inc("count", -1), wait))
        increment_count == Locked("count_lock", Inc("count", 1))
    IN  Program(<<DecMain \o JoinBoth, Forever(decrement_count), Forever(increment_count)>>,
                CountCells, {})

\* The wait is not in a loop, but count is looked at again in the next round.
inc_dec_cond ==
    LET wait == CondWait("count_nonzero", "count_lock")
        decrement_count == Locked("count_lock", IfElse("count", Positive, Inc("count", -1), wait))
        increment_count == Locked("count_lock", Signalled)
    IN  Program(<<DecMain \o JoinBoth, Forever(decrement_count), Forever(increment_count)>>,
                CountCells, {})

\* Threads that poll instead of waiting.
PollDecrement == Forever(Locked("count_lock", IfThen("count", Positive, Inc("count", -1))))
PollIncrement == Forever(Locked("count_lock", Inc("count", 1)))

inc_dec1 ==
    Program(<<DecMain \o JoinBoth,
              Forever(Locked("count_lock", IfElse("count", {0}, <<>>, Inc("count", -1)))),
              PollIncrement>>, CountCells, {})

\* main sleeps ten seconds and returns.
inc_dec2 == Program(<<DecMain \o Exit, PollDecrement, PollIncrement>>, CountCells, {})

inc_dec_mutex == Program(<<DecMain \o JoinBoth, PollDecrement, PollIncrement>>, CountCells, {})

\* In spite of its name, the text of inc_dec2.c.
dotprod_mutex == Program(<<DecMain \o Exit, PollDecrement, PollIncrement>>, CountCells, {})
=============================================================================
