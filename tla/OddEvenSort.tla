----------------------------- MODULE OddEvenSort -----------------------------
(***************************************************************************)
(* OpenMP/poe_sort.c: parallel odd-even transposition sort.  While some    *)
(* pair was exchanged, a parallel region runs the even pairs and then the  *)
(* odd pairs as two "omp for" loops with reduction(+:changes).             *)
(*                                                                         *)
(* Every thread of the region executes "changes = 0" before the first      *)
(* loop, with no barrier after it: a late thread may erase the exchanges   *)
(* an early one has already added.  Which thread runs which iteration is   *)
(* left to the OpenMP runtime, and so to any assignment here.  The counter *)
(* nr, which nothing reads, is left out.                                   *)
(***************************************************************************)
EXTENDS Integers, FiniteSets

CONSTANTS N,         \* length of the array (100000 in the code)
          Threads    \* the team of the parallel region

ASSUME SortAssumption == N \in Nat /\ Threads # {}

Index == 0 .. N - 1

\* The iterations of the two loops: i = 0, 2, ... and i = 1, 3, ... < n - 1.
EvenPairs == {i \in 0 .. N - 2 : i % 2 = 0}
OddPairs  == {i \in 0 .. N - 2 : i % 2 = 1}

VARIABLES
    x,          \* the array
    changes,    \* shared: the reduction variable
    mpc,        \* main(): "while", "region" or "done"
    pc,         \* each thread's place in the region
    private,    \* each thread's private copy of changes
    todo,       \* the iterations of the current loop it has still to run
    owner       \* the thread that runs each iteration

vars == <<x, changes, mpc, pc, private, todo, owner>>

Init ==
    /\ x = [i \in Index |-> N - i]
    /\ changes = 1
    /\ mpc = "while"
    /\ pc = [t \in Threads |-> "out"]
    /\ private = [t \in Threads |-> 0]
    /\ todo = [t \in Threads |-> {}]
    /\ owner \in [0 .. N - 2 -> Threads]

-----------------------------------------------------------------------------
\* while(changes): the master starts the region, or the sort is over.
StartRegion ==
    /\ mpc = "while" /\ changes # 0
    /\ mpc' = "region" /\ pc' = [t \in Threads |-> "reset"]
    /\ UNCHANGED <<x, changes, private, todo, owner>>

Finish ==
    /\ mpc = "while" /\ changes = 0
    /\ mpc' = "done"
    /\ UNCHANGED <<x, changes, pc, private, todo, owner>>

\* Mutant of Reset: changes is not cleared.
ResetForgotten(t) ==
    /\ pc[t] = "reset"
    /\ pc' = [pc EXCEPT ![t] = "even"]
    /\ private' = [private EXCEPT ![t] = 0]
    /\ todo' = [todo EXCEPT ![t] = {i \in EvenPairs : owner[i] = t}]
    /\ UNCHANGED <<x, changes, mpc, owner>>

\* changes = 0, then into the first loop with a private copy that starts at 0.
Reset(t) ==
    /\ pc[t] = "reset"
    /\ changes' = 0
    /\ pc' = [pc EXCEPT ![t] = "even"]
    /\ private' = [private EXCEPT ![t] = 0]
    /\ todo' = [todo EXCEPT ![t] = {i \in EvenPairs : owner[i] = t}]
    /\ UNCHANGED <<x, mpc, owner>>

\* Mutant of Exchange: one assignment of the exchange is lost.
ExchangeNoTmp(i) == [x EXCEPT ![i] = x[i + 1]]

\* x[i] and x[i+1] change places, through the private tmp.
Exchange(i) == [x EXCEPT ![i] = x[i + 1], ![i + 1] = x[i]]

\* One iteration of either loop.
Compare(t) ==
    /\ pc[t] \in {"even", "odd"}
    /\ \E i \in todo[t] :
          /\ todo' = [todo EXCEPT ![t] = @ \ {i}]
          /\ IF x[i] > x[i + 1]
             THEN /\ x' = Exchange(i)
                  /\ private' = [private EXCEPT ![t] = @ + 1]
             ELSE UNCHANGED <<x, private>>
    /\ UNCHANGED <<changes, mpc, pc, owner>>

\* Mutant of Combine: changes is overwritten, not added to.
CombineOverwrites(t) ==
    /\ pc[t] \in {"even", "odd"} /\ todo[t] = {}
    /\ changes' = private[t]
    /\ pc' = [pc EXCEPT ![t] = IF @ = "even" THEN "barrier1" ELSE "barrier2"]
    /\ UNCHANGED <<x, mpc, private, todo, owner>>

\* The thread's iterations are done: its copy is added to changes, and it
\* waits at the loop's implicit barrier.
Combine(t) ==
    /\ pc[t] \in {"even", "odd"} /\ todo[t] = {}
    /\ changes' = changes + private[t]
    /\ pc' = [pc EXCEPT ![t] = IF @ = "even" THEN "barrier1" ELSE "barrier2"]
    /\ UNCHANGED <<x, mpc, private, todo, owner>>

\* Everyone has arrived: on to the odd pairs, with fresh private copies.
SecondLoop ==
    /\ mpc = "region" /\ \A t \in Threads : pc[t] = "barrier1"
    /\ pc' = [t \in Threads |-> "odd"]
    /\ private' = [t \in Threads |-> 0]
    /\ todo' = [t \in Threads |-> {i \in OddPairs : owner[i] = t}]
    /\ UNCHANGED <<x, changes, mpc, owner>>

\* The end of the region: back to while(changes).
EndRegion ==
    /\ mpc = "region" /\ \A t \in Threads : pc[t] = "barrier2"
    /\ mpc' = "while" /\ pc' = [t \in Threads |-> "out"]
    /\ UNCHANGED <<x, changes, private, todo, owner>>

ThreadStep(t) == Reset(t) \/ Compare(t) \/ Combine(t)

MasterStep == StartRegion \/ Finish \/ SecondLoop \/ EndRegion

Next == MasterStep \/ \E t \in Threads : ThreadStep(t)

Spec == Init /\ [][Next]_vars

\* The OpenMP runtime runs every thread of the team.
FairSpec ==
    Spec /\ WF_vars(MasterStep) /\ \A t \in Threads : WF_vars(ThreadStep(t))

-----------------------------------------------------------------------------
(* Properties. *)

TypeOK ==
    /\ x \in [Index -> Int]
    /\ changes \in Nat
    /\ mpc \in {"while", "region", "done"}
    /\ pc \in [Threads -> {"out", "reset", "even", "barrier1", "odd", "barrier2"}]
    /\ private \in [Threads -> Nat]
    /\ todo \in [Threads -> SUBSET (0 .. N - 2)]
    /\ owner \in [0 .. N - 2 -> Threads]

Ordered(i) == x[i] <= x[i + 1]

\* When the program leaves its loop the array is sorted, although a late
\* "changes = 0" can erase exchanges that other threads have counted.
SortedAtEnd == mpc = "done" => \A i \in 0 .. N - 2 : Ordered(i)

\* The array always holds the numbers 1 .. n it was filled with.
Permutation == {x[i] : i \in Index} = 1 .. N

\* The sort ends.
Terminates == <>(mpc = "done")

-----------------------------------------------------------------------------
(* The inductive invariant behind SortedAtEnd. *)

\* Where the region is: everybody outside, in the first loop or in the second.
PhaseInv ==
    \/ /\ mpc \in {"while", "done"} /\ \A t \in Threads : pc[t] = "out"
    \/ /\ mpc = "region"
       /\ \/ \A t \in Threads : pc[t] \in {"reset", "even", "barrier1"}
          \/ \A t \in Threads : pc[t] \in {"odd", "barrier2"}

\* A thread works on its own iterations of the current loop; those it has
\* finished in the first loop are in order.
EvenInv ==
    \A t \in Threads :
        /\ pc[t] = "even" => todo[t] \subseteq EvenPairs
        /\ pc[t] = "barrier1" => todo[t] = {}
        /\ pc[t] \in {"even", "barrier1"} =>
              \A i \in EvenPairs : owner[i] = t /\ i \notin todo[t] => Ordered(i)

\* A thread works on its own iterations.
WorkInv ==
    \A t \in Threads :
        /\ pc[t] = "odd" => todo[t] \subseteq OddPairs
        /\ pc[t] = "barrier2" => todo[t] = {}
        /\ pc[t] \in {"even", "odd"} => \A i \in todo[t] : owner[i] = t

\* In the second loop, and nothing is counted, in changes or privately.
Quiet ==
    /\ \A t \in Threads : \/ pc[t] = "odd" /\ private[t] = 0
                          \/ pc[t] = "barrier2"
    /\ changes = 0

\* As long as nothing is counted in the second loop nothing was exchanged in
\* it: all even pairs and the finished odd ones are in order.
OddInv ==
    /\ Quiet => /\ \A i \in EvenPairs : Ordered(i)
                /\ \A i \in OddPairs : i \notin todo[owner[i]] => Ordered(i)
    /\ mpc \in {"while", "done"} /\ changes = 0 =>
          \A i \in 0 .. N - 2 : Ordered(i)
    /\ mpc = "done" => changes = 0

IInv == TypeOK /\ PhaseInv /\ EvenInv /\ WorkInv /\ OddInv
=============================================================================
