------------------------------ MODULE SemQueue -------------------------------
(***************************************************************************)
(* Pthread/condition_sem1.c: a producer and a consumer thread share the    *)
(* array queue with no lock around it; the semaphores blank_number and     *)
(* product_number alone keep them off each other's slots.  Both threads    *)
(* run for ever: the items are 0, 1, ..., WRAP - 1, 0, 1, ...              *)
(***************************************************************************)
EXTENDS Integers, Sequences

CONSTANTS NUM,    \* slots of the queue (100 in the code)
          WRAP    \* the producer's item starts again at 0 here (1000)

ASSUME QueueAssumption ==
    NUM \in Nat \ {0} /\ WRAP \in Nat /\ NUM <= WRAP

Slots == 0 .. NUM - 1
Items == 0 .. WRAP - 1

VARIABLES
    queue,
    blank_number, product_number,   \* the values of the semaphores
    p, item,     \* the producer's locals
    c,           \* the consumer's local
    ppc, cpc,    \* where the two threads are in their loops
    shown,       \* history: the item the consumer printed last
    next         \* history: the item it should print next

pvars == <<p, item, ppc>>
cvars == <<c, cpc, shown, next>>
vars  == <<queue, blank_number, product_number, pvars, cvars>>

\* Mutant of Init: one blank too many, as if all NUM + 1 positions existed.
InitOneMore ==
    /\ queue = [s \in Slots |-> 0]
    /\ blank_number = NUM + 1 /\ product_number = 0
    /\ p = 0 /\ item = 0 /\ c = 0 /\ shown = 0 /\ next = 0
    /\ ppc = "wait" /\ cpc = "wait"

\* main(): sem_init of the two semaphores, then the threads.
Init ==
    /\ queue = [s \in Slots |-> 0]
    /\ blank_number = NUM /\ product_number = 0
    /\ p = 0 /\ item = 0 /\ c = 0 /\ shown = 0 /\ next = 0
    /\ ppc = "wait" /\ cpc = "wait"

-----------------------------------------------------------------------------
(* producer *)

\* sem_wait(&blank_number)
WaitBlank ==
    /\ ppc = "wait" /\ blank_number > 0
    /\ blank_number' = blank_number - 1 /\ ppc' = "write"
    /\ UNCHANGED <<queue, product_number, p, item, cvars>>

\* Mutant of Write: the item wraps one too late.
WriteLateWrap ==
    /\ ppc = "write" /\ ppc' = "post"
    /\ queue' = [queue EXCEPT ![p] = item]
    /\ item' = IF item = WRAP THEN 0 ELSE item + 1
    /\ UNCHANGED <<blank_number, product_number, p, cvars>>

\* queue[p] = item++, and item starts again at WRAP.
Write ==
    /\ ppc = "write" /\ ppc' = "post"
    /\ queue' = [queue EXCEPT ![p] = item]
    /\ item' = IF item + 1 = WRAP THEN 0 ELSE item + 1
    /\ UNCHANGED <<blank_number, product_number, p, cvars>>

\* sem_post(&product_number), and on to the next slot.
PostProduct ==
    /\ ppc = "post" /\ ppc' = "wait"
    /\ product_number' = product_number + 1
    /\ p' = (p + 1) % NUM
    /\ UNCHANGED <<queue, blank_number, item, cvars>>

-----------------------------------------------------------------------------
(* consumer *)

\* sem_wait(&product_number)
WaitProduct ==
    /\ cpc = "wait" /\ product_number > 0
    /\ product_number' = product_number - 1 /\ cpc' = "read"
    /\ UNCHANGED <<queue, blank_number, c, shown, next, pvars>>

\* printf of queue[c]
Read ==
    /\ cpc = "read" /\ cpc' = "clear"
    /\ shown' = queue[c]
    /\ next' = IF next + 1 = WRAP THEN 0 ELSE next + 1
    /\ UNCHANGED <<queue, blank_number, product_number, c, pvars>>

\* queue[c] = 0
Clear ==
    /\ cpc = "clear" /\ cpc' = "post"
    /\ queue' = [queue EXCEPT ![c] = 0]
    /\ UNCHANGED <<blank_number, product_number, c, shown, next, pvars>>

\* Mutant of PostBlank: the slot is given back, but not the blank.
PostBlankForgotten ==
    /\ cpc = "post" /\ cpc' = "wait"
    /\ c' = (c + 1) % NUM
    /\ UNCHANGED <<queue, blank_number, product_number, shown, next, pvars>>

\* sem_post(&blank_number), and on to the next slot.
PostBlank ==
    /\ cpc = "post" /\ cpc' = "wait"
    /\ blank_number' = blank_number + 1
    /\ c' = (c + 1) % NUM
    /\ UNCHANGED <<queue, product_number, shown, next, pvars>>

Producer == WaitBlank \/ Write \/ PostProduct
Consumer == WaitProduct \/ Read \/ Clear \/ PostBlank

Next == Producer \/ Consumer

Spec == Init /\ [][Next]_vars

\* Runnable threads run.
FairSpec == Spec /\ WF_vars(Producer) /\ WF_vars(Consumer)

-----------------------------------------------------------------------------
(* Properties. *)

TypeOK ==
    /\ queue \in [Slots -> Items]
    /\ blank_number \in 0 .. NUM /\ product_number \in 0 .. NUM
    /\ p \in Slots /\ c \in Slots /\ item \in Items
    /\ shown \in Items /\ next \in Items
    /\ ppc \in {"wait", "write", "post"}
    /\ cpc \in {"wait", "read", "clear", "post"}

\* The threads never use the same slot at the same time: queue needs no lock.
SlotsApart ==
    ~(p = c /\ ppc = "write" /\ cpc \in {"read", "clear"})

\* Every item is printed again and again: neither thread is ever stuck.
Flows == \A v \in Items : []<>(cpc = "clear" /\ shown = v)

-----------------------------------------------------------------------------
(* What the queue holds, and the inductive invariant. *)

\* Items written and not yet printed, and slots in somebody's hands.
Written == product_number + (IF ppc = "post" THEN 1 ELSE 0)
                          + (IF cpc = "read" THEN 1 ELSE 0)
Taken   == product_number + (IF ppc \in {"write", "post"} THEN 1 ELSE 0)
                          + (IF cpc # "wait" THEN 1 ELSE 0)

\* The j-th slot from s and the j-th item from v.
SlotFrom(s, j) == IF s + j < NUM THEN s + j ELSE s + j - NUM
ItemFrom(v, j) == IF v + j < WRAP THEN v + j ELSE v + j - WRAP

\* The oldest of the written items is in slot First.
First == IF cpc \in {"clear", "post"} THEN SlotFrom(c, 1) ELSE c

\* Every slot is blank, holds a product, or is in the hands of one thread.
CountInv == blank_number + Taken = NUM

\* The producer's slot follows those taken, its item those written.
PlaceInv ==
    /\ p = SlotFrom(c, Taken - (IF ppc = "wait" THEN 0 ELSE 1))
    /\ item = ItemFrom(next, Written)

\* The slots from First on hold the items from next on.
DataInv == \A j \in Slots : j < Written => queue[SlotFrom(First, j)] = ItemFrom(next, j)

IInv == TypeOK /\ CountInv /\ PlaceInv /\ DataInv

\* What has been written and not yet printed, oldest item first.
Contents == [j \in 1 .. Written |-> queue[SlotFrom(First, j - 1)]]

Stream == INSTANCE ItemStream WITH Cap <- NUM, Limit <- WRAP, chan <- Contents

\* The unlocked array is a first-in first-out channel of NUM items: every item is
\* printed once and in the order it was produced, none is overwritten or cleared
\* before it is printed, and no step but queue[p] = item++ and the consumer's
\* printf changes what the channel holds.
ImplementsStream == Stream!Spec
=============================================================================
