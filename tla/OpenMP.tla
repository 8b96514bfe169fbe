------------------------------- MODULE OpenMP --------------------------------
(***************************************************************************)
(* The programs of OpenMP/ whose threads share something.  A parallel      *)
(* region is a team of two threads, main and thread 2, which main starts   *)
(* and waits for; the static schedule, which is the default, gives the     *)
(* first half of a loop's iterations to main and the second half to        *)
(* thread 2.  Loop variables of "omp for" are private whatever the clauses *)
(* say.  The lock "omp" is the one inside the runtime.  A Show after the   *)
(* region is the value main ends with, whether or not the file shows it.   *)
(***************************************************************************)
EXTENDS PthreadSync

\* #pragma omp parallel { master | worker }, then what main does after it.
Region(master, worker, after, mems, undefined) ==
    Program(<<CreateOrExit(2) \o master \o Join(2) \o after \o Exit, worker>>, mems, undefined)

-----------------------------------------------------------------------------
(* The sum of 2 * NITER ones. *)

Sum(loop) ==
    Region(loop, loop, Show("sum"),
           {[sum |-> 0, lock |-> 0, sumLocal1 |-> 0, sumLocal2 |-> 0]}, {})

omp_race == Sum(Repeat(NITER, Inc("sum", 1)))

\* The pragmas of critical1.c are commented out: a sequential loop.
omp_critical1 ==
    Program(<<Repeat(2 * NITER, Inc("sum", 1)) \o Show("sum") \o Exit>>, {[sum |-> 0]}, {})

\* atomic.c uses a critical section.
omp_atomic == Sum(Repeat(NITER, Locked("lock", Inc("sum", 1))))

\* sumLocal is private; both critical sections have the same lock.
omp_critical ==
    LET body(local) == Repeat(NITER, Locked("lock", Inc(local, 1)))
                       \o Locked("lock", Load("sum") \o Add(local) \o Store("sum", 0))
    IN  Region(body("sumLocal1"), body("sumLocal2"), Show("sum"),
               {[sum |-> 0, lock |-> 0, sumLocal1 |-> 0, sumLocal2 |-> 0]}, {})

\* A private sum per thread, added under the runtime's lock at the end.
omp_reduction ==
    LET body(local) == Repeat(NITER, Inc(local, 1))
                       \o Locked("omp", Load("sum") \o Add(local) \o Store("sum", 0))
    IN  Region(body("sum1"), body("sum2"), Show("sum"),
               {[sum |-> 0, omp |-> 0, sum1 |-> 0, sum2 |-> 0]}, {})

\* Mutant of omp_lock: the lock is destroyed inside the region.
omp_lock_inside ==
    LET body == Repeat(NITER, Locked("lock", Inc("sum", 1))) \o Destroy("lock")
    IN  Region(body, body, Show("sum"), {[sum |-> 0, lock |-> 0]}, {})

\* lock is initialised before the region and destroyed after it.
omp_lock ==
    LET body == Repeat(NITER, Locked("lock", Inc("sum", 1)))
    IN  Region(body, body, Destroy("lock") \o Show("sum"), {[sum |-> 0, lock |-> 0]}, {})

-----------------------------------------------------------------------------
(* Two loops, the second of which reads what the first has written; 2 * a   *)
(* is a + a.                                                                *)

ArrayCells == {[a0 |-> 0, a1 |-> 0, b0 |-> 0, b1 |-> 0]}
Twice(x, y) == Load(x) \o Add(x) \o Store(y, 0)

\* "nowait": no barrier between the loops, but each thread has the same half of
\* both.
omp_loop2 ==
    Region(Set("a0", 1) \o Twice("a0", "b0"), Set("a1", 2) \o Twice("a1", "b1"),
           Show("b0") \o Show("b1"), ArrayCells, {})

omp_nowait        == omp_loop2
omp_Source        == omp_loop2
omp_work_sharing1 == omp_loop2   \* a barrier after the second loop

\* Each iteration needs what the two before have computed.
omp_fe ==
    LET next(x, y, z) == Load(x) \o Add(y) \o Store(z, 0)
    IN  Region(next("Fe1", "Fe0", "Fe2") \o next("Fe2", "Fe1", "Fe3"),
               next("Fe3", "Fe2", "Fe4") \o next("Fe4", "Fe3", "Fe5"),
               Show("Fe5"),
               {[Fe0 |-> 0, Fe1 |-> 1, Fe2 |-> 0, Fe3 |-> 0, Fe4 |-> 0, Fe5 |-> 0]}, {})

\* The row of a thread: a[i] = 0.0, then n additions; the products are one.
Row(x) == Set(x, 0) \o Repeat(NITER, Inc(x, 1))

\* mxv, then omp_mxv into another vector.
omp_matrix_times ==
    Program(<<Row("A0") \o Row("A1") \o CreateOrExit(2) \o Row("D0") \o Join(2)
              \o Show("A1") \o Show("D1") \o Exit, Row("D1")>>,
            {[A0 |-> 0, A1 |-> 0, D0 |-> 0, D1 |-> 0]}, {})

-----------------------------------------------------------------------------
(* Data-sharing clauses. *)

\* private.c: a and j are shared; a is printed in the region and after it.
omp_private ==
    LET iteration(i) == Set("a", i) \o Set("j", 0) \o While("j", 0 .. 1, Inc("j", 1)) \o Show("a")
    IN  Region(iteration(1), iteration(2), Show("a"), {[a |-> 0, j |-> 0]}, {})

\* a is private, and the thread of the last iteration stores its own after it.
omp_lastprivate ==
    Region(Set("a1", 1), Set("a2", 2) \o Copy("a2", "a"), Show("a"),
           {[a |-> 0, a1 |-> 0, a2 |-> 0]}, {})

\* Each thread has a copy of indx, and so its own n elements of a.
omp_firstprivate ==
    Region(Set("a4", 1) \o Set("a5", 1), Set("a6", 2) \o Set("a7", 2),
           Show("a5") \o Show("a6"), {[a4 |-> 0, a5 |-> 0, a6 |-> 0, a7 |-> 0]}, {})

\* test2.c: the inner loop's variable is shared; lines1, lines2 count the lines
\* the threads print.
omp_test2 ==
    LET iteration(lines) == Set("j", 0) \o While("j", 0 .. 1, Inc(lines, 1) \o Inc("j", 1))
    IN  Region(iteration("lines1"), iteration("lines2"), <<>>,
               {[j |-> 0, lines1 |-> 0, lines2 |-> 0]}, {})

-----------------------------------------------------------------------------
(* Constructs that order the threads of the team. *)

Team == Barrier("team", 2)

\* Whoever comes first takes the block.
Take(flag, block) ==
    Lock("omp") \o IfElse(flag, {0}, Set(flag, 1) \o Unlock("omp") \o block, Unlock("omp"))

omp_single ==
    LET body(b) == Take("taken", Set("a", 2)) \o Team \o Copy("a", b)
    IN  Region(body("b0"), body("b1"), Show("b0") \o Show("b1"),
               {[a |-> 1, b0 |-> 0, b1 |-> 0, taken |-> 0, omp |-> 0, team |-> 0]}, {})

\* before and after are what print_time reports.
omp_barrier ==
    LET body(before, after) == Set(before, 1) \o Team \o Set(after, 1)
    IN  Region(body("before1", "after1"), body("before2", "after2"), <<>>,
               {[before1 |-> 0, before2 |-> 0, after1 |-> 0, after2 |-> 0, team |-> 0]}, {})

omp_barrier_for_VS == omp_barrier

\* turn2, turn3 and turn4 are given when the block of the iteration before is done;
\* last is the iteration whose block has been printed last.
omp_order ==
    LET print(i, a)   == Load(a) \o Set("last", i)
        Ordered(i, a, mine, next) == Inc(a, i) \o SemWait(mine) \o print(i, a) \o SemPost(next)
    IN  Region(Ordered(1, "a1", "turn1", "turn2") \o Ordered(2, "a2", "turn2", "turn3"),
               Ordered(3, "a3", "turn3", "turn4") \o Ordered(4, "a4", "turn4", "turn1"), <<>>,
               {[a1 |-> 1, a2 |-> 2, a3 |-> 3, a4 |-> 4, last |-> 0,
                 turn1 |-> 1, turn2 |-> 0, turn3 |-> 0, turn4 |-> 0]}, {})

\* Three sections for the team; each counts its calls.
omp_sections ==
    LET body == Take("takenA", Inc("funcA", 1)) \o Take("takenB", Inc("funcB", 1))
                \o Take("takenC", Inc("funcC", 1)) \o Team
    IN  Region(body, body, Show("funcA") \o Show("funcB") \o Show("funcC"),
               {[takenA |-> 0, takenB |-> 0, takenC |-> 0, funcA |-> 0, funcB |-> 0, funcC |-> 0,
                 omp |-> 0, team |-> 0]}, {})

\* One section fills the array another one prints.
omp_sections2 ==
    LET body == Take("taken1", Set("a0", 1) \o Set("a1", 2))
                \o Take("taken2", Show("a0") \o Show("a1")) \o Team
    IN  Region(body, body, <<>>,
               {[taken1 |-> 0, taken2 |-> 0, a0 |-> 0, a1 |-> 0, omp |-> 0, team |-> 0]}, {})

-----------------------------------------------------------------------------
(* Tasks: threads 3 and 4, run by any thread of the team before the barrier  *)
(* at the end of the region.                                                 *)

\* The list has two nodes.  p is firstprivate: each task has the p of its creation.
omp_task ==
    LET single == Set("p3", 1) \o CreateOrExit(3) \o Set("p4", 2) \o CreateOrExit(4)
                  \o Join(3) \o Join(4)
        main   == CreateOrExit(2) \o Take("taken", single) \o Team \o Join(2) \o Exit
    IN  Program(<<main, Take("taken", single) \o Team, Copy("p3", "seen2"), Copy("p4", "seen3")>>,
                {[p3 |-> 0, p4 |-> 0, seen2 |-> 0, seen3 |-> 0, taken |-> 0, omp |-> 0,
                  team |-> 0]}, {})

\* saxpy_worksharing2: a task per iteration, i firstprivate, j shared by them all.
omp_task_for ==
    LET task(y) == Inc(y, 2) \o Set("j", 0) \o While("j", 0 .. 1, Inc("j", 1))
        main == CreateOrExit(2) \o CreateOrExit(3) \o Join(3) \o Join(2)
                \o Show("y0") \o Show("y1") \o Exit
    IN  Program(<<main, CreateOrExit(4) \o Join(4), task("y0"), task("y1")>>,
                {[y0 |-> 2, y1 |-> 2, j |-> 0]}, {})

-----------------------------------------------------------------------------
(* FileIO/: a thread works on a file of its own; thereN tells whether the    *)
(* file can be opened.                                                       *)

FileCells == [there1 : {0, 1}, there2 : {0, 1}, src1 : {1}, src2 : {2}, dest1 : {0}, dest2 : {0}]

\* CopyFile exits the whole program when a file cannot be opened.
omp_Thread_FileCopy ==
    LET CopyFile(there, src, dest) == IfThen(there, {0}, Exit) \o Copy(src, dest)
    IN  Region(CopyFile("there1", "src1", "dest1"), CopyFile("there2", "src2", "dest2"),
               Show("dest1") \o Show("dest2"), FileCells, {})

\* ReadFile reads from the NULL that fopen has returned.
omp_FileRead ==
    LET ReadFile(there, src) == IfElse(there, {0}, Crash("NULL"), Load(src))
    IN  Region(ReadFile("there1", "src1"), ReadFile("there2", "src2"), <<>>, FileCells, {})

omp_Thread_FileRead == omp_FileRead

\* The file is written through a NULL, too, when it cannot be opened.
omp_FileWrite ==
    LET WriteFile(there, src, dest) == IfElse(there, {0}, Crash("NULL"), Copy(src, dest))
    IN  Region(WriteFile("there1", "src1", "dest1"), WriteFile("there2", "src2", "dest2"), <<>>,
               FileCells, {})

omp_Thread_FileWrite == omp_FileWrite

\* Performance/barrier.c is Pthread/barrier.c.
omp_Performance_barrier == barrier
=============================================================================
