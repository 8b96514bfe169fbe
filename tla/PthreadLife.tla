----------------------------- MODULE PthreadLife -----------------------------
(***************************************************************************)
(* The programs of Pthread/ about creating threads: what a new thread is   *)
(* given, what it hands back, who may join it, and the attributes and the  *)
(* scheduling it gets.  Three threads at most are created where the code   *)
(* creates 3, 4, 5, 10 or 50000.                                           *)
(***************************************************************************)
EXTENDS PthreadSync

-----------------------------------------------------------------------------
(* Arguments.  seen2, seen3 are the numbers the threads print.              *)

\* &t, the loop variable itself, is passed; main returns without a join.
LoopVariable ==
    LET PrintHello(seen) == Copy("t", seen)
        main == Set("t", 1) \o CreateOrExit(2) \o Set("t", 2) \o CreateOrExit(3)
                \o Set("t", 3) \o Exit
    IN  Program(<<main, PrintHello("seen2"), PrintHello("seen3")>>,
                {[t |-> 0, seen2 |-> 0, seen3 |-> 0]}, {})

thread_arg     == LoopVariable
pthread_create == LoopVariable      \* the usleep after the creation is no guarantee

\* A cell per thread: A[t], thread_data_array[t].
thread_arg2 ==
    LET PrintHello(cell, seen) == Copy(cell, seen)
        main == Set("A2", 1) \o CreateOrExit(2) \o Set("A3", 2) \o CreateOrExit(3)
                \o Join(2) \o Join(3) \o Exit
    IN  Program(<<main, PrintHello("A2", "seen2"), PrintHello("A3", "seen3")>>,
                {[A2 |-> 0, A3 |-> 0, seen2 |-> 0, seen3 |-> 0]}, {})

\* thread_data_array[t] is filled before thread t is created; its three fields
\* are one cell.
thread_arg3 ==
    LET PrintHello(cell, seen) == Copy(cell, seen)
        main == Set("data2", 1) \o CreateOrExit(2) \o Set("data3", 2) \o CreateOrExit(3)
                \o Join(2) \o Join(3) \o Exit
    IN  Program(<<main, PrintHello("data2", "seen2"), PrintHello("data3", "seen3")>>,
                {[data2 |-> 0, data3 |-> 0, seen2 |-> 0, seen3 |-> 0]}, {})

\* pthread_exit.c: the number is passed by value, the thread hands it back and
\* main prints it after the join.
pthread_exit ==
    LET BusyWork(id, status) == Set(status, id)
        main == AttrInit \o CreateAttrOrExit(2) \o CreateAttrOrExit(3) \o Destroy("attr")
                \o Join(2) \o Copy("status2", "seen2") \o Join(3) \o Copy("status3", "seen3")
    IN  Program(<<main, BusyWork(1, "status2"), BusyWork(2, "status3")>>,
                {[status2 |-> 0, status3 |-> 0, seen2 |-> 0, seen3 |-> 0, root |-> 0]}, {"attr"})

-----------------------------------------------------------------------------
(* Results.  The thread hands back a pointer to rVal.                       *)

\* rVal is freed before the thread ends.
thread_return ==
    LET returnThread == Set("rVal", 1) \o Free("rVal")
        main == Create(2) \o Join(2) \o Load("rVal") \o Exit
    IN  Program(<<main, returnThread>>, {[rVal |-> 0]}, {})

\* rVal is a local variable of the thread: it is gone when the thread ends.
thread_return_local ==
    LET returnThread == Set("rVal", 1) \o Free("rVal")
        main == Create(2) \o Join(2) \o Load("rVal") \o Exit
    IN  Program(<<main, returnThread>>, {[rVal |-> 0]}, {})

\* a is such a variable, too, but main prints the pointer only.
thread_arg4 ==
    LET returnThread == Load("t") \o Set("a", 1) \o Free("a")
        main == Create(2) \o Join(2) \o Exit
    IN  Program(<<main, returnThread>>, {[t |-> 0, a |-> 0]}, {})

\* detach.c: thread 2 is joined by main and by thread 3; thread 3 is detached and
\* joined by main.  Each thread counts, thread 2 under a mutex only it takes.
\* The pointers through which the joins store the result are never set.
detach ==
    LET thr_joinablefn == Locked("mutex", Inc("count", 1))
        thr_detachedfn == JoinInto(2, "ret") \o Inc("count", 1)
        main == Create(2) \o AttrInit \o AttrSet("detach", TRUE) \o CreateAttr(3) \o Destroy("attr")
                \o JoinInto(2, "ret") \o JoinInto(3, "ret") \o Destroy("mutex") \o Exit
    IN  Program(<<main, thr_joinablefn, thr_detachedfn>>,
                {[count |-> 0, mutex |-> 0, root |-> 0]}, {"attr", "ret"})

\* sleep.c: nobody ever clears flag.
sleep ==
    LET thr_fn == While("flag", {1}, <<>>)
        main == CreateOrExit(2) \o While("flag", {1}, <<>>) \o Set("flag", 0) \o Join(2) \o Exit
    IN  Program(<<main, thr_fn>>, {[flag |-> 1]}, {})

-----------------------------------------------------------------------------
(* Attributes.  root tells whether the program may use real-time policies.  *)

Users == {[root |-> 0], [root |-> 1]}

\* An attribute object whose policy is set and restored; no thread is created.
PolicyTour ==
    AttrInit \o AttrSet("policy", SCHED_FIFO) \o AttrSet("policy", SCHED_RR)
    \o AttrSet("policy", SCHED_OTHER) \o Destroy("attr") \o Exit

scheduling1 == Program(<<PolicyTour>>, Users, {"attr"})
Priority    == Program(<<PolicyTour>>, Users, {"attr"})

\* Policy and priority are set, the inherit attribute is not.
scheduling2 ==
    LET pair(i) == AttrSet("policy", SCHED_FIFO) \o AttrSet("prio", i) \o CreateAttr(i + 1)
        main == AttrInit \o pair(1) \o pair(2) \o Join(2) \o Join(3) \o Exit
    IN  Program(<<main, <<>>, <<>> >>, Users, {"attr"})

RealTime(policy, prio) ==
    AttrInit \o AttrSet("policy", policy) \o AttrSet("prio", prio) \o AttrSet("explicit", TRUE)

\* Mutant of scheduling3: PTHREAD_EXPLICIT_SCHED is forgotten.
scheduling3_inherit ==
    LET main == AttrInit \o AttrSet("policy", SCHED_FIFO) \o AttrSet("prio", MidPriority)
                \o CreateAttr(2) \o CreateAttr(3) \o Join(2) \o Join(3) \o Exit
    IN  Program(<<main, <<>>, <<>> >>, Users, {"attr"})

scheduling3 ==
    LET main == RealTime(SCHED_FIFO, MidPriority) \o CreateAttr(2) \o CreateAttr(3)
                \o Join(2) \o Join(3) \o Exit
    IN  Program(<<main, <<>>, <<>> >>, Users, {"attr"})

scheduling4 == Program(<<RealTime(SCHED_RR, MidPriority) \o Exit>>, Users, {"attr"})

\* Each thread gets a higher priority than the one before; results are ignored.
Prioritized_thread ==
    LET thread(i) == AttrSet("prio", 20 + 3 * i) \o AttrSet("explicit", TRUE) \o CreateAttr(i + 2)
        main == AttrInit \o AttrSet("policy", SCHED_FIFO) \o thread(0) \o thread(1)
                \o Join(2) \o Join(3) \o Exit
    IN  Program(<<main, <<>>, <<>> >>, Users, {"attr"})

attribute ==
    LET main == AttrInit \o AttrSet("policy", SCHED_OTHER) \o AttrSet("explicit", TRUE)
                \o AttrSet("policy", SCHED_FIFO) \o AttrSet("prio", 50) \o CreateAttrOrExit(2)
                \o Join(2) \o Destroy("attr") \o Exit
    IN  Program(<<main, <<>> >>, Users, {"attr"})

\* The policy of a running thread is changed; main does not join it.  main's
\* thePriority is not the variable the thread sets: it is compared unset.
scheduler5 ==
    LET main == Create(2) \o SetSched(2, <<SCHED_FIFO, 50>>) \o Load("thePriority") \o Exit
    IN  Program(<<main, <<>> >>, Users, {"thePriority"})

\* Stack sizes are no part of the model: two threads from one object, no join.
set_stack ==
    Program(<<AttrInit \o CreateAttrOrExit(2) \o CreateAttrOrExit(3) \o Exit, <<>>, <<>> >>,
            Users, {"attr"})

stack ==
    Program(<<AttrInit \o CreateAttrOrExit(2) \o Join(2) \o Destroy("attr") \o Exit, <<>> >>,
            Users, {"attr"})

\* With an argument the thread is detached; it ends the process by exit(), for
\* which main waits in pause().
pthread_attr ==
    LET attributes == AttrInit \o AttrSet("detach", TRUE) \o AttrSet("explicit", TRUE)
        main == IfElse("argc", {2}, attributes \o CreateAttrOrExit(2) \o Destroy("attr"),
                       CreateOrExit(2))
                \o SemWait("pause")
    IN  Program(<<main, Exit>>, {[argc |-> n, pause |-> 0, root |-> 0] : n \in {1, 2}}, {"attr"})

\* The options of scheduling6.c: -m and -a take a policy, -1 is "not given", 3 is
\* a letter get_policy does not know; -i is 0 (none), 1 (e), 2 (i) or 3 (another
\* letter).  The priority is 10 for f and r, 0 for o.
Options6 ==
    [root : {0, 1}, useNull : {0, 1}, a : {-1, SCHED_OTHER, SCHED_FIFO, 3},
     m : {-1, SCHED_FIFO}, i : 0 .. 3]

\* The object is destroyed at the end even if -A kept it from being initialised.
scheduling6 ==
    LET bad == IfThen("useNull", {1}, IfElse("i", {0}, IfThen("a", {0, 1, 3}, Exit), Exit))
        param(p) == IF p = SCHED_OTHER THEN 0 ELSE 10
        setAttr(p) == AttrSet("policy", p) \o AttrSet("prio", param(p))
        main == bad
                \o IfThen("m", {SCHED_FIFO}, SetSched(1, <<SCHED_FIFO, 10>>))
                \o IfThen("useNull", {0}, AttrInit)
                \o IfThen("i", {3}, Exit) \o IfThen("i", {1}, AttrSet("explicit", TRUE))
                \o IfThen("i", {2}, AttrSet("explicit", FALSE)) \o IfThen("a", {3}, Exit)
                \o IfThen("a", {SCHED_FIFO}, setAttr(SCHED_FIFO))
                \o IfThen("a", {SCHED_OTHER}, setAttr(SCHED_OTHER))
                \o IfElse("useNull", {1}, CreateOrExit(2), CreateAttrOrExit(2))
                \o Destroy("attr") \o Join(2) \o Exit
    IN  Program(<<main, <<>> >>, Options6, {"attr"})
=============================================================================
