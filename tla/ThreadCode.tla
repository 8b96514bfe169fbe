----------------------------- MODULE ThreadCode ------------------------------
(***************************************************************************)
(* The steps the sample programs are made of.  A thread's code is a        *)
(* sequence of instructions; every operator below returns such a sequence, *)
(* so that bodies are put together with \o.  Jumps are relative.           *)
(*                                                                         *)
(* An instruction is the smallest piece of the source that other threads   *)
(* can come between: one load, one store, one call of the thread library.  *)
(* printf, sleep and busy loops change nothing another thread can see and  *)
(* are left out: threads may be delayed anywhere.                          *)
(***************************************************************************)
EXTENDS Integers, Sequences

Instr(op, x, v) == << [op |-> op, x |-> x, v |-> v] >>

(* Memory: variables, mutexes, semaphores and barriers are cells that hold  *)
(* integers.  A mutex holds its owner, or 0.                                *)
Load(x)     == Instr("load", x, 0)       \* register := x
Add(x)      == Instr("add", x, 0)        \* register := register + x
Store(x, k) == Instr("store", x, k)      \* x := register + k
Set(x, v)   == Instr("set", x, v)        \* x := v
Inc(x, k)   == Load(x) \o Store(x, k)    \* x = x + k, x++: not atomic
Copy(x, y)  == Load(x) \o Store(y, 0)    \* y = x
Show(x)     == Instr("print", x, 0)
Free(x)     == Instr("free", x, 0)       \* free(x), or the end of x's lifetime
Destroy(x)  == Instr("destroy", x, 0)    \* pthread_..._destroy

(* Control. *)
Jump(n)          == Instr("jump", "", n)
If(x, S, n)      == Instr("if", x, [is |-> S, skip |-> n])
IfThen(x, S, b)  == If(x, S, Len(b)) \o b
IfElse(x, S, b, c) == If(x, S, Len(b) + 1) \o b \o Jump(Len(c) + 1) \o c
While(x, S, b)   == If(x, S, Len(b) + 1) \o b \o Jump(-(Len(b) + 1))
Forever(b)       == b \o Jump(-Len(b))
Repeat(n, b)     == [i \in 1 .. n * Len(b) |-> b[((i - 1) % Len(b)) + 1]]
Exit             == Instr("exit", "", 0) \* exit(), or main's return

Crash(x)         == Instr("crash", x, 0) \* x is used as a pointer and is none

(* Mutexes, condition variables, semaphores, read/write locks, barriers. *)
Lock(m)         == Instr("lock", m, 0)
Unlock(m)       == Instr("unlock", m, 0)
Locked(m, b)    == Lock(m) \o b \o Unlock(m)
CondWait(c, m)  == Instr("wait", c, m) \o Lock(m)
TimedWait(c, m) == Instr("timedwait", c, m) \o Lock(m)
Signal(c)       == Instr("signal", c, 0)
Broadcast(c)    == Instr("broadcast", c, 0)
SemWait(s)      == Instr("sem_wait", s, 0)
SemPost(s)      == Instr("sem_post", s, 0)
RdLock(l)       == Instr("rdlock", l, 0)
WrLock(l)       == Instr("wrlock", l, 0)
RwUnlock(l)     == Instr("rwunlock", l, 0)
Barrier(b, n)   == Instr("barrier", b, n)

(* Threads.  Create is a pthread_create whose result is ignored; after a    *)
(* failed CreateOrExit the program stops.  The second pair takes the        *)
(* attributes from the attribute object.                                    *)
Create(t)         == Instr("create", "", [t |-> t, attr |-> FALSE, check |-> FALSE])
CreateOrExit(t)   == Instr("create", "", [t |-> t, attr |-> FALSE, check |-> TRUE])
CreateAttr(t)     == Instr("create", "attr", [t |-> t, attr |-> TRUE, check |-> FALSE])
CreateAttrOrExit(t) == Instr("create", "attr", [t |-> t, attr |-> TRUE, check |-> TRUE])
Join(t)           == Instr("join", "", t)
JoinInto(t, x)    == Instr("join", x, t)     \* the result is stored in x

(* The attribute object and scheduling parameters. *)
AttrInit       == Instr("attr_init", "attr", 0)
AttrSet(f, v)  == Instr("attr_set", "attr", [field |-> f, value |-> v])
SetSched(t, p) == Instr("setsched", "", [t |-> t, param |-> p])

(* The policies of <sched.h> on Linux, and the priorities they allow. *)
SCHED_OTHER == 0
SCHED_FIFO  == 1
SCHED_RR    == 2
Priorities(policy) == IF policy = SCHED_OTHER THEN {0} ELSE 1 .. 99

\* sched_get_priority_min and max, half way.
MidPriority == (1 + 99) \div 2

\* A program: the code of its threads, main first; the memories it may start
\* with; the objects that are not initialised yet.
Program(code, mems, lacking) == [code |-> code, mems |-> mems, dead |-> lacking]
=============================================================================
