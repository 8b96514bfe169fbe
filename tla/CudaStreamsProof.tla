-------------------------- MODULE CudaStreamsProof ---------------------------
(* ResultReady and NoPendingCopy of CudaStreams, for any number of streams. *)
EXTENDS CudaStreams, SequenceTheorems, TLAPS

Calls == [op : Queued \cup {"memset", "wait", "maxError", "free"},
          chunks : SUBSET Chunks, stream : Nat]

-----------------------------------------------------------------------------
(* What the proofs use of the programs.  A program is cut into phases, each   *)
(* from one memset up to the next.                                            *)

\* Positions j < k of program p are in one phase.
OnePhase(p, j, k) == \A q \in DOMAIN p : j < q /\ q < k => p[q].op # "memset"

\* Call k does op on chunk c.
Does(p, k, op, c) == p[k].op = op /\ c \in p[k].chunks

\* A phase does each operation on each chunk once, the copy to the device, the
\* kernel and the copy back of a chunk follow each other in one stream, and the
\* array is read after the copies back of all chunks.
InOrder(p) ==
    /\ \A j, k \in DOMAIN p, c \in Chunks :
          \A op \in {"h2d", "kernel", "d2h"} :
              j < k /\ Does(p, j, op, c) /\ Does(p, k, op, c) => ~OnePhase(p, j, k)
    /\ \A k \in DOMAIN p, c \in Chunks :
          /\ Does(p, k, "kernel", c) =>
                \E j \in DOMAIN p : /\ j < k /\ Does(p, j, "h2d", c)
                                    /\ p[j].stream = p[k].stream /\ OnePhase(p, j, k)
          /\ Does(p, k, "d2h", c) =>
                \E j \in DOMAIN p : /\ j < k /\ Does(p, j, "kernel", c)
                                    /\ p[j].stream = p[k].stream /\ OnePhase(p, j, k)
          /\ p[k].op = "maxError" =>
                \E j \in DOMAIN p : j < k /\ Does(p, j, "d2h", c) /\ OnePhase(p, j, k)

\* The host waits for the last call it queued, in the default stream, before it
\* reads the array; it clears the array first of all, and right after reading it.
Waits(p) ==
    /\ p # << >> /\ p[1].op = "memset"
    /\ \A k \in DOMAIN p :
          /\ p[k].op = "wait" => k > 1 /\ p[k - 1].op \in Queued /\ p[k - 1].stream = 0
          /\ p[k].op = "maxError" => k > 2 /\ p[k - 1].op = "wait"
          /\ p[k].op = "memset" /\ k > 1 => p[k - 1].op = "maxError"

\* With streams that the default stream does not wait for, the host clears the
\* array only after work in the default stream.
DefaultBefore(p) ==
    NonBlocking =>
        \A k \in DOMAIN p : p[k].op = "memset" =>
            \A j \in DOMAIN p : j < k /\ p[j].op \in Queued => p[j].stream = 0

WellFormed(p) == p \in Seq(Calls) /\ InOrder(p) /\ Waits(p) /\ DefaultBefore(p)

-----------------------------------------------------------------------------
(* The invariant. *)

\* What is executed was issued, and in the order of the streams; the host has
\* passed no wait before its event.
OrderInv ==
    /\ pc \in 1 .. Len(Main) + 1 /\ done \subseteq Issued
    /\ \A k \in done, j \in Issued : Precedes(j, k) => j \in done
    /\ \A k \in 1 .. pc - 1 : Main[k].op = "wait" => k - 1 \in done

\* Positions the host has passed since it last cleared the array.
ThisPhase == {k \in 1 .. pc - 1 : OnePhase(Main, k, pc)}

\* The device has done op on chunk c since then.
Ran(op, c) == \E k \in done \cap ThisPhase : Does(Main, k, op, c)

ValueInv ==
    /\ a \in [Chunks -> Int] /\ d_a \in [Chunks -> Int]
    /\ Pending \subseteq ThisPhase
    /\ pc > 1 => \A c \in Chunks :
          /\ a[c] = IF Ran("d2h", c) THEN 1 ELSE 0
          /\ Ran("h2d", c) => d_a[c] = IF Ran("kernel", c) THEN 1 ELSE 0

StreamInv == file \in Files /\ OrderInv /\ ValueInv

\* The program never changes.
LEMMA Fixed ==
    ASSUME [Next]_vars
    PROVE  file' = file /\ Main' = Main /\ (NonBlocking' <=> NonBlocking)
<1>1. file' = file
  BY DEF Next, HostStep, DeviceStep, Execute, Returned, Memset, Issue, Wait, MaxError, Free, vars
<1>2. Main' = Main
  BY <1>1 DEF Main
<1> QED
  BY <1>1, <1>2 DEF NonBlocking

\* What a step of the host does to what it has issued.
LEMMA HostMoves ==
    ASSUME WellFormed(Main), OrderInv, HostStep
    PROVE  /\ pc \in 1 .. Len(Main) /\ pc' = pc + 1 /\ done' = done /\ d_a' = d_a
           /\ a' = IF Main[pc].op = "memset" THEN [c \in Chunks |-> 0] ELSE a
           /\ Main[pc].op = "wait" => pc - 1 \in done
<1>1. pc \in Nat /\ pc >= 1 /\ Len(Main) \in Nat
  BY DEF OrderInv, WellFormed
<1> QED
  BY <1>1 DEF HostStep, Memset, Issue, Wait, MaxError, Free, At, Queued

LEMMA Order ==
    ASSUME WellFormed(Main), OrderInv, [Next]_vars
    PROVE  OrderInv'
<1>0. /\ Main' = Main /\ (NonBlocking' <=> NonBlocking)
      /\ Len(Main) \in Nat /\ pc \in 1 .. Len(Main) + 1
  BY Fixed DEF OrderInv, WellFormed
<1>a. \A j, k : Precedes(j, k)' <=> Precedes(j, k)
  BY <1>0 DEF Precedes
<1>1. CASE HostStep
  <2>1. /\ pc \in 1 .. Len(Main) /\ pc' = pc + 1 /\ done' = done
        /\ Main[pc].op = "wait" => pc - 1 \in done
    BY <1>1, HostMoves
  <2>2. Issued' \subseteq Issued \cup {pc} /\ Issued \subseteq Issued'
    BY <1>0, <2>1 DEF Issued
  <2>3. \A k \in done : ~Precedes(pc, k)
    BY <1>0 DEF OrderInv, Issued, Precedes
  <2>4. pc' \in 1 .. Len(Main)' + 1 /\ done' \subseteq Issued'
    BY <1>0, <2>1, <2>2 DEF OrderInv
  <2>5. \A k \in done', j \in Issued' : Precedes(j, k)' => j \in done'
    BY <1>a, <2>1, <2>2, <2>3 DEF OrderInv
  <2>6. \A k \in 1 .. pc' - 1 : Main[k].op = "wait" => k - 1 \in done'
    BY <1>0, <2>1 DEF OrderInv
  <2> QED
    BY <1>0, <2>4, <2>5, <2>6 DEF OrderInv
<1>2. CASE DeviceStep
  <2>1. PICK k \in Pending : Execute(k)
    BY <1>2 DEF DeviceStep
  <2>2. done' = done \cup {k} /\ pc' = pc /\ \A j \in Pending : ~Precedes(j, k)
    BY <2>1 DEF Execute
  <2>3. Issued' = Issued
    BY <1>0, <2>2 DEF Issued
  <2> QED
    BY <1>0, <1>a, <2>1, <2>2, <2>3 DEF OrderInv, Pending
<1>3. CASE Returned \/ UNCHANGED vars
  <2>1. UNCHANGED <<pc, done>>
    BY <1>3 DEF Returned, vars
  <2>2. Issued' = Issued
    BY <1>0, <2>1 DEF Issued
  <2> QED
    BY <1>0, <1>a, <2>1, <2>2 DEF OrderInv
<1> QED
  BY <1>1, <1>2, <1>3 DEF Next

-----------------------------------------------------------------------------
(* The host is never ahead of the device where it matters. *)

\* An executed call of the default stream that everything before it in the other
\* streams precedes too: nothing before it is pending.
LEMMA AllBefore ==
    ASSUME WellFormed(Main), OrderInv, NEW k \in done, Main[k].stream = 0,
           NonBlocking => \A j \in Issued : j < k => Main[j].stream = 0
    PROVE  \A j \in Issued : j < k => j \in done
  BY DEF OrderInv, Precedes

\* The host has waited and queued nothing since.
LEMMA Waited ==
    ASSUME WellFormed(Main), OrderInv, NEW k \in 1 .. pc - 1, Main[k].op = "wait",
           k = pc - 1 \/ (k = pc - 2 /\ Main[pc - 1].op \notin Queued),
           NonBlocking => \A j \in Issued : Main[j].stream = 0
    PROVE  Pending = {}
<1>1. /\ k - 1 \in done /\ Main[k - 1].stream = 0 /\ pc \in Nat /\ k \in DOMAIN Main
  <2>1. pc \in 1 .. Len(Main) + 1 /\ Len(Main) \in Nat /\ DOMAIN Main = 1 .. Len(Main)
    BY DEF OrderInv, WellFormed
  <2>2. pc \in Nat /\ k \in DOMAIN Main
    BY <2>1
  <2>3. k - 1 \in done
    BY DEF OrderInv
  <2>4. Main[k - 1].stream = 0
    BY <2>2 DEF WellFormed, Waits
  <2> QED
    BY <2>2, <2>3, <2>4
<1>2. \A j \in Issued : j < k - 1 => j \in done
  BY <1>1, AllBefore
<1>3. \A j \in Issued : j < k - 1 \/ j = k - 1
  BY <1>1 DEF Issued, Queued
<1> QED
  BY <1>1, <1>2, <1>3 DEF Pending

\* The array is cleared when no copy is pending.
LEMMA Quiet ==
    ASSUME WellFormed(Main), OrderInv
    PROVE  NoPendingCopy
<1> SUFFICES ASSUME At("memset") PROVE Pending = {}
  BY DEF NoPendingCopy
<1>0. /\ pc \in 1 .. Len(Main) /\ Len(Main) \in Nat /\ DOMAIN Main = 1 .. Len(Main)
      /\ Main[pc].op = "memset"
  BY DEF OrderInv, WellFormed, At
<1>1. CASE pc = 1
  BY <1>1 DEF Pending, Issued
<1>2. CASE pc > 1
  <2>1. Main[pc - 1].op = "maxError"
    BY <1>0, <1>2 DEF WellFormed, Waits
  <2>2. pc - 2 \in 1 .. pc - 1 /\ Main[pc - 2].op = "wait"
    <3>1. pc - 1 \in DOMAIN Main
      BY <1>0, <1>2
    <3>2. pc - 1 > 2 /\ Main[(pc - 1) - 1].op = "wait"
      BY <2>1, <3>1 DEF WellFormed, Waits
    <3>3. (pc - 1) - 1 = pc - 2
      BY <1>0
    <3> QED
      BY <1>0, <3>2, <3>3
  <2>3. NonBlocking => \A j \in Issued : Main[j].stream = 0
    BY <1>0 DEF WellFormed, DefaultBefore, Issued
  <2> QED
    BY <2>1, <2>2, <2>3, Waited DEF Queued
<1> QED
  BY <1>0, <1>1, <1>2

-----------------------------------------------------------------------------
(* What the arrays hold. *)

\* Within a phase the copy back of a chunk is executed after its kernel, and the
\* kernel after its copy to the device; and each once.
LEMMA Chain ==
    ASSUME WellFormed(Main), OrderInv, NEW c \in Chunks, NEW k \in ThisPhase,
           k \in done \/ \A j \in Pending : ~Precedes(j, k)
    PROVE  /\ Does(Main, k, "kernel", c) => Ran("h2d", c)
           /\ Does(Main, k, "d2h", c) => Ran("kernel", c)
           /\ \A op \in {"h2d", "kernel", "d2h"} :
                 Does(Main, k, op, c) /\ k \notin done => ~Ran(op, c)
<1>0. /\ pc \in 1 .. Len(Main) + 1 /\ Len(Main) \in Nat /\ DOMAIN Main = 1 .. Len(Main)
      /\ k \in 1 .. pc - 1 /\ OnePhase(Main, k, pc)
  BY DEF OrderInv, WellFormed, ThisPhase
<1>1. ASSUME NEW j \in DOMAIN Main, j < k, Main[j].stream = Main[k].stream,
             OnePhase(Main, j, k), Main[j].op \in Queued, Main[k].op \in Queued
      PROVE  j \in done \cap ThisPhase
  <2>1. j \in Issued /\ k \in Issued /\ Precedes(j, k)
    BY <1>0, <1>1 DEF Issued, Precedes
  <2>2. j \in done
    BY <2>1 DEF OrderInv, Pending
  <2>3. \A q \in DOMAIN Main : j < q /\ q < pc => q < k \/ q = k \/ k < q
    BY <1>0, <1>1
  <2>4. OnePhase(Main, j, pc)
    BY <1>0, <1>1, <2>3 DEF OnePhase, Queued
  <2> QED
    BY <1>0, <1>1, <2>2, <2>4 DEF ThisPhase
<1>2. k \in DOMAIN Main
  BY <1>0
<1>3. Does(Main, k, "kernel", c) => Ran("h2d", c)
  BY <1>1, <1>2 DEF WellFormed, InOrder, Does, Queued, Ran
<1>4. Does(Main, k, "d2h", c) => Ran("kernel", c)
  BY <1>1, <1>2 DEF WellFormed, InOrder, Does, Queued, Ran
<1>5. ASSUME NEW op \in {"h2d", "kernel", "d2h"}, Does(Main, k, op, c), k \notin done, Ran(op, c)
      PROVE  FALSE
  <2>1. PICK j \in done \cap ThisPhase : Does(Main, j, op, c)
    BY <1>5 DEF Ran
  <2>2. j \in 1 .. pc - 1 /\ OnePhase(Main, j, pc) /\ j # k /\ j \in DOMAIN Main
    BY <1>0, <1>5, <2>1 DEF ThisPhase
  <2>3. CASE j < k
    <3>1. OnePhase(Main, j, k)
      BY <1>0, <2>2, <2>3 DEF OnePhase
    <3> QED
      BY <1>2, <1>5, <2>1, <2>2, <2>3, <3>1 DEF WellFormed, InOrder, Does
  <2>4. CASE k < j
    <3>1. OnePhase(Main, k, j)
      BY <1>0, <2>2, <2>4 DEF OnePhase
    <3> QED
      BY <1>2, <1>5, <2>1, <2>2, <2>4, <3>1 DEF WellFormed, InOrder, Does
  <2> QED
    BY <1>0, <2>2, <2>3, <2>4
<1> QED
  BY <1>3, <1>4, <1>5

\* What the device has done stays done while the host stays in the phase.
LEMMA RanStays ==
    ASSUME WellFormed(Main), OrderInv, HostStep, Main' = Main, Main[pc].op # "memset",
           NEW op \in {"h2d", "kernel", "d2h"}, NEW c \in Chunks
    PROVE  Ran(op, c)' <=> Ran(op, c)
<1>0. /\ pc \in 1 .. Len(Main) /\ pc' = pc + 1 /\ done' = done
      /\ Len(Main) \in Nat /\ DOMAIN Main = 1 .. Len(Main) /\ pc \notin done
  BY HostMoves DEF OrderInv, WellFormed, Issued
<1>1. \A k \in 1 .. pc - 1 : OnePhase(Main, k, pc + 1) <=> OnePhase(Main, k, pc)
  BY <1>0 DEF OnePhase
<1>2. (done \cap ThisPhase)' = done \cap ThisPhase
  BY <1>0, <1>1 DEF ThisPhase, OnePhase
<1> QED
  BY <1>0, <1>2 DEF Ran, Does

\* Clearing the array begins a phase in which nothing has been done.
LEMMA Cleared ==
    ASSUME WellFormed(Main), OrderInv, HostStep, Main' = Main, Main[pc].op = "memset"
    PROVE  /\ Pending' = {}
           /\ \A op, c : ~Ran(op, c)'
<1>0. /\ pc \in 1 .. Len(Main) /\ pc' = pc + 1 /\ done' = done
      /\ Len(Main) \in Nat /\ DOMAIN Main = 1 .. Len(Main) /\ done \subseteq 1 .. pc - 1
  BY HostMoves DEF OrderInv, WellFormed, Issued
<1>1. Pending = {}
  BY <1>0, Quiet DEF NoPendingCopy, At
<1>2. Issued' = Issued
  BY <1>0 DEF Issued, Queued
<1>3. \A k \in done : ~OnePhase(Main, k, pc + 1)
  BY <1>0 DEF OnePhase
<1> QED
  BY <1>0, <1>1, <1>2, <1>3 DEF Pending, Ran, ThisPhase

LEMMA ValuesHost ==
    ASSUME WellFormed(Main), OrderInv, ValueInv, HostStep, Main' = Main
    PROVE  ValueInv'
<1>0. /\ pc \in 1 .. Len(Main) /\ pc' = pc + 1 /\ done' = done /\ d_a' = d_a
      /\ a' = IF Main[pc].op = "memset" THEN [c \in Chunks |-> 0] ELSE a
      /\ Len(Main) \in Nat /\ DOMAIN Main = 1 .. Len(Main)
  BY HostMoves DEF WellFormed
<1>1. CASE Main[pc].op = "memset"
  <2>1. Pending' = {} /\ \A op, c : ~Ran(op, c)'
    BY <1>1, Cleared
  <2> QED
    BY <1>0, <1>1, <2>1 DEF ValueInv
<1>2. CASE Main[pc].op # "memset"
  <2>1. \A op \in {"h2d", "kernel", "d2h"}, c \in Chunks : Ran(op, c)' <=> Ran(op, c)
    BY <1>2, RanStays
  <2>2. pc > 1
    BY <1>0, <1>2 DEF WellFormed, Waits
  <2>3. \A k \in 1 .. pc - 1 : OnePhase(Main, k, pc) => OnePhase(Main, k, pc + 1)
    BY <1>0, <1>2 DEF OnePhase
  <2>4. OnePhase(Main, pc, pc + 1)
    BY <1>0 DEF OnePhase
  <2>5. Pending' \subseteq Pending \cup {pc}
    BY <1>0 DEF Pending, Issued
  <2>6. Pending' \subseteq ThisPhase'
    BY <1>0, <2>3, <2>4, <2>5 DEF ThisPhase, ValueInv
  <2> QED
    BY <1>0, <1>2, <2>1, <2>2, <2>6 DEF ValueInv
<1> QED
  BY <1>1, <1>2

LEMMA ValuesDevice ==
    ASSUME WellFormed(Main), OrderInv, ValueInv, NEW k \in Pending, Execute(k), Main' = Main
    PROVE  ValueInv'
<1> DEFINE Now(op, c) == Ran(op, c) \/ Does(Main, k, op, c)
<1>0. /\ pc' = pc /\ done' = done \cup {k} /\ k \notin done /\ k \in ThisPhase
      /\ \A j \in Pending : ~Precedes(j, k)
      /\ a \in [Chunks -> Int] /\ d_a \in [Chunks -> Int]
  BY DEF Execute, Pending, ValueInv
<1>1. ThisPhase' = ThisPhase /\ Pending' \subseteq Pending
  BY <1>0 DEF ThisPhase, Pending, Issued
<1>2. \A op, c : Ran(op, c)' <=> Now(op, c)
  BY <1>0, <1>1 DEF Ran, Does
<1>3. ASSUME NEW c \in Chunks
      PROVE  /\ Ran("kernel", c) => Ran("h2d", c)
             /\ Ran("d2h", c) => Ran("kernel", c)
             /\ Does(Main, k, "kernel", c) => Ran("h2d", c)
             /\ Does(Main, k, "d2h", c) => Ran("kernel", c)
             /\ \A op \in {"h2d", "kernel", "d2h"} : Does(Main, k, op, c) => ~Ran(op, c)
  <2>1. \A j \in done \cap ThisPhase :
           /\ Does(Main, j, "kernel", c) => Ran("h2d", c)
           /\ Does(Main, j, "d2h", c) => Ran("kernel", c)
    BY Chain
  <2>2. (Ran("kernel", c) => Ran("h2d", c)) /\ (Ran("d2h", c) => Ran("kernel", c))
    BY <2>1 DEF Ran
  <2> QED
    BY <1>0, <2>2, Chain
<1>4. pc > 1
  BY DEF Pending, Issued, OrderInv
<1>5. ASSUME NEW c \in Chunks
      PROVE  /\ a'[c] = IF Now("d2h", c) THEN 1 ELSE 0
             /\ Now("h2d", c) => d_a'[c] = IF Now("kernel", c) THEN 1 ELSE 0
  <2>1. /\ a[c] = IF Ran("d2h", c) THEN 1 ELSE 0
        /\ Ran("h2d", c) => d_a[c] = IF Ran("kernel", c) THEN 1 ELSE 0
    BY <1>4 DEF ValueInv
  <2>2. CASE Main[k].op = "h2d"
    BY <1>0, <1>3, <2>1, <2>2 DEF Execute, Copied, Does
  <2>3. CASE Main[k].op = "kernel"
    BY <1>0, <1>3, <2>1, <2>3 DEF Execute, Kernel, Does
  <2>4. CASE Main[k].op = "d2h"
    BY <1>0, <1>3, <2>1, <2>4 DEF Execute, Copied, Does
  <2>5. CASE Main[k].op = "record"
    BY <1>0, <1>3, <2>1, <2>5 DEF Execute, Does
  <2> QED
    BY <2>2, <2>3, <2>4, <2>5 DEF Execute
<1>6. a' \in [Chunks -> Int] /\ d_a' \in [Chunks -> Int]
  BY <1>0 DEF Execute, Copied, Kernel
<1>7. Pending' \subseteq ThisPhase'
  BY <1>1 DEF ValueInv
<1> HIDE DEF Now
<1> QED
  BY <1>2, <1>5, <1>6, <1>7 DEF ValueInv

-----------------------------------------------------------------------------
(* The programs are well formed: phase by phase. *)

\* Phases of p and of s in the program p, then s.
LEMMA Joint ==
    ASSUME NEW p \in Seq(Calls), NEW s \in Seq(Calls)
    PROVE  /\ p \o s \in Seq(Calls) /\ Len(p) \in Nat /\ Len(s) \in Nat
           /\ Len(p \o s) = Len(p) + Len(s)
           /\ DOMAIN p = 1 .. Len(p) /\ DOMAIN s = 1 .. Len(s)
           /\ DOMAIN (p \o s) = 1 .. Len(p) + Len(s)
           /\ \A k \in DOMAIN p : k \in DOMAIN (p \o s) /\ (p \o s)[k] = p[k]
           /\ \A k \in DOMAIN s : k + Len(p) \in DOMAIN (p \o s) /\ (p \o s)[k + Len(p)] = s[k]
           /\ \A k \in DOMAIN (p \o s) : k \in DOMAIN p \/ (k - Len(p) \in DOMAIN s /\ k > Len(p))
           /\ \A j, k \in DOMAIN p : OnePhase(p, j, k) <=> OnePhase(p \o s, j, k)
           /\ \A j, k \in DOMAIN s :
                 OnePhase(s, j, k) <=> OnePhase(p \o s, j + Len(p), k + Len(p))
<1> DEFINE t == p \o s
<1>1. t \in Seq(Calls) /\ Len(t) = Len(p) + Len(s) /\ Len(p) \in Nat /\ Len(s) \in Nat
      /\ DOMAIN p = 1 .. Len(p) /\ DOMAIN s = 1 .. Len(s) /\ DOMAIN t = 1 .. Len(t)
      /\ \A k \in 1 .. Len(p) + Len(s) : t[k] = IF k <= Len(p) THEN p[k] ELSE s[k - Len(p)]
  BY ConcatProperties
<1> HIDE DEF t
<1>2. \A k \in DOMAIN p : k \in DOMAIN t /\ t[k] = p[k]
  BY <1>1
<1>3. \A k \in DOMAIN s : k + Len(p) \in DOMAIN t /\ t[k + Len(p)] = s[k]
  BY <1>1
<1>4. \A k \in DOMAIN t : k \in DOMAIN p \/ (k - Len(p) \in DOMAIN s /\ k > Len(p))
  BY <1>1
<1>5. ASSUME NEW j \in DOMAIN p, NEW k \in DOMAIN p
      PROVE  OnePhase(p, j, k) <=> OnePhase(t, j, k)
  BY <1>1, <1>2 DEF OnePhase
<1>6. ASSUME NEW j \in DOMAIN s, NEW k \in DOMAIN s
      PROVE  OnePhase(s, j, k) <=> OnePhase(t, j + Len(p), k + Len(p))
  <2>1. ASSUME OnePhase(s, j, k), NEW q \in DOMAIN t, j + Len(p) < q, q < k + Len(p)
        PROVE  t[q].op # "memset"
    <3>1. q - Len(p) \in DOMAIN s /\ j < q - Len(p) /\ q - Len(p) < k /\ t[q] = s[q - Len(p)]
      BY <1>1, <2>1
    <3> QED
      BY <2>1, <3>1 DEF OnePhase
  <2>2. ASSUME OnePhase(t, j + Len(p), k + Len(p)), NEW q \in DOMAIN s, j < q, q < k
        PROVE  s[q].op # "memset"
    <3>1. q + Len(p) \in DOMAIN t /\ t[q + Len(p)] = s[q]
          /\ j + Len(p) < q + Len(p) /\ q + Len(p) < k + Len(p)
      BY <1>1, <1>3, <2>2
    <3> QED
      BY <2>2, <3>1 DEF OnePhase
  <2> QED
    BY <2>1, <2>2 DEF OnePhase
<1> QED
  BY <1>1, <1>2, <1>3, <1>4, <1>5, <1>6 DEF t

\* A well-formed program goes on after it has read the array.
LEMMA Joined ==
    ASSUME NEW p, NEW s, WellFormed(p), WellFormed(s), p[Len(p)].op = "maxError",
           \A k \in DOMAIN s : s[k].op = "memset" => k = 1,
           NonBlocking => \A k \in DOMAIN p : p[k].op \in Queued => p[k].stream = 0
    PROVE  WellFormed(p \o s)
<1> DEFINE t == p \o s
           n == Len(p)
<1>0. p \in Seq(Calls) /\ s \in Seq(Calls)
  BY DEF WellFormed
<1>1. /\ t \in Seq(Calls) /\ n \in Nat /\ Len(s) \in Nat
      /\ DOMAIN p = 1 .. n /\ DOMAIN s = 1 .. Len(s) /\ DOMAIN t = 1 .. n + Len(s)
      /\ \A k \in DOMAIN p : k \in DOMAIN t /\ t[k] = p[k]
      /\ \A k \in DOMAIN s : k + n \in DOMAIN t /\ t[k + n] = s[k]
      /\ \A k \in DOMAIN t : k \in DOMAIN p \/ (k - n \in DOMAIN s /\ k > n)
      /\ \A j, k \in DOMAIN p : OnePhase(p, j, k) <=> OnePhase(t, j, k)
      /\ \A j, k \in DOMAIN s : OnePhase(s, j, k) <=> OnePhase(t, j + n, k + n)
  BY <1>0, Joint
<1>2. n >= 1 /\ Len(s) >= 1 /\ p[1].op = "memset" /\ s[1].op = "memset" /\ t # << >>
  <2>1. p # << >> /\ s # << >> /\ p[1].op = "memset" /\ s[1].op = "memset"
    BY DEF WellFormed, Waits
  <2>2. n # 0 /\ Len(s) # 0
    BY <1>0, <2>1
  <2>3. 1 \in DOMAIN t
    BY <1>1, <2>2
  <2>4. DOMAIN << >> = {}
    OBVIOUS
  <2> QED
    BY <1>1, <2>1, <2>2, <2>3, <2>4
<1> HIDE DEF t, n
\* Position k of t is position k - n of s.
<1>3. \A k \in DOMAIN t : k \notin DOMAIN p => t[k] = s[k - n] /\ k - n \in DOMAIN s
  <2> TAKE k \in DOMAIN t
  <2> HAVE k \notin DOMAIN p
  <2>1. k - n \in DOMAIN s /\ (k - n) + n = k
    BY <1>1
  <2> QED
    BY <1>1, <2>1
<1>4. InOrder(t)
  <2>1. ASSUME NEW j \in DOMAIN t, NEW k \in DOMAIN t, NEW c \in Chunks,
               NEW op \in {"h2d", "kernel", "d2h"}, j < k, Does(t, j, op, c), Does(t, k, op, c),
               OnePhase(t, j, k)
        PROVE  FALSE
    <3>1. CASE k \in DOMAIN p
      <4>1. j \in DOMAIN p
        BY <1>1, <2>1, <3>1
      <4> QED
        BY <1>1, <2>1, <3>1, <4>1 DEF WellFormed, InOrder, Does
    <3>2. CASE j \in DOMAIN p /\ k \notin DOMAIN p
      <4>1. t[n + 1].op = "memset" /\ n + 1 \in DOMAIN t
        <5>1. 1 \in DOMAIN s /\ 1 + n = n + 1
          BY <1>1, <1>2
        <5> QED
          BY <1>1, <1>2, <5>1
      <4>2. t[k].op # "memset"
        BY <2>1 DEF Does
      <4>3. j < n + 1 /\ n + 1 < k
        BY <1>1, <3>2, <4>1, <4>2
      <4> QED
        BY <2>1, <4>1, <4>3 DEF OnePhase
    <3>3. CASE j \notin DOMAIN p /\ k \notin DOMAIN p
      <4>1. t[k] = s[k - n] /\ k - n \in DOMAIN s /\ t[j] = s[j - n] /\ j - n \in DOMAIN s
        BY <1>3, <3>3
      <4>2. j - n < k - n /\ (k - n) + n = k /\ (j - n) + n = j
        BY <1>1, <2>1
      <4>3. OnePhase(s, j - n, k - n)
        BY <1>1, <2>1, <4>1, <4>2
      <4> QED
        BY <2>1, <4>1, <4>2, <4>3 DEF WellFormed, InOrder, Does
    <3> QED
      BY <3>1, <3>2, <3>3
  <2>2. ASSUME NEW k \in DOMAIN t, NEW c \in Chunks
        PROVE  /\ Does(t, k, "kernel", c) =>
                     \E j \in DOMAIN t : /\ j < k /\ Does(t, j, "h2d", c)
                                         /\ t[j].stream = t[k].stream /\ OnePhase(t, j, k)
               /\ Does(t, k, "d2h", c) =>
                     \E j \in DOMAIN t : /\ j < k /\ Does(t, j, "kernel", c)
                                         /\ t[j].stream = t[k].stream /\ OnePhase(t, j, k)
               /\ t[k].op = "maxError" =>
                     \E j \in DOMAIN t : j < k /\ Does(t, j, "d2h", c) /\ OnePhase(t, j, k)
    <3>1. CASE k \in DOMAIN p
      <4>1. \A i \in DOMAIN p : OnePhase(p, i, k) => OnePhase(t, i, k)
        BY <1>1, <3>1
      <4>2. t[k] = p[k] /\ \A i \in DOMAIN p : i \in DOMAIN t /\ t[i] = p[i]
        BY <1>1, <3>1
      <4> QED
        BY <3>1, <4>1, <4>2 DEF WellFormed, InOrder, Does
    <3>2. CASE k \notin DOMAIN p
      <4>1. t[k] = s[k - n] /\ k - n \in DOMAIN s /\ (k - n) + n = k
        BY <1>1, <1>3, <3>2
      <4>2. \A i \in DOMAIN s : i < k - n =>
               /\ i + n \in DOMAIN t /\ t[i + n] = s[i] /\ i + n < k
               /\ OnePhase(s, i, k - n) => OnePhase(t, i + n, k)
        BY <1>1, <4>1
      <4> QED
        BY <4>1, <4>2 DEF WellFormed, InOrder, Does
    <3> QED
      BY <3>1, <3>2
  <2> QED
    BY <2>1, <2>2 DEF InOrder
<1>5. Waits(t)
  <2>1. ASSUME NEW k \in DOMAIN t
        PROVE  /\ t[k].op = "wait" => k > 1 /\ t[k - 1].op \in Queued /\ t[k - 1].stream = 0
               /\ t[k].op = "maxError" => k > 2 /\ t[k - 1].op = "wait"
               /\ t[k].op = "memset" /\ k > 1 => t[k - 1].op = "maxError"
    <3>1. CASE k \in DOMAIN p
      <4>1. k > 1 => k - 1 \in DOMAIN p
        BY <1>1, <3>1
      <4> QED
        BY <1>1, <3>1, <4>1 DEF WellFormed, Waits
    <3>2. CASE k = n + 1
      <4>1. t[k].op = "memset" /\ k - 1 = n /\ n \in DOMAIN p
        BY <1>1, <1>2, <3>2
      <4> QED
        BY <1>1, <4>1 DEF n
    <3>3. CASE k \notin DOMAIN p /\ k # n + 1
      <4>1. t[k] = s[k - n] /\ k - n \in DOMAIN s /\ k - n > 1
        BY <1>1, <1>3, <3>3
      <4>2. (k - n) - 1 \in DOMAIN s /\ ((k - n) - 1) + n = k - 1
        BY <1>1, <4>1
      <4>3. t[k - 1] = s[(k - n) - 1] /\ k > 1 /\ (k - n > 2 => k > 2)
        BY <1>1, <4>1, <4>2
      <4> QED
        BY <4>1, <4>3 DEF WellFormed, Waits
    <3> QED
      BY <3>1, <3>2, <3>3
  <2> QED
    BY <1>1, <1>2, <2>1 DEF Waits
<1>6. DefaultBefore(t)
  <2> SUFFICES ASSUME NonBlocking, NEW k \in DOMAIN t, t[k].op = "memset",
                      NEW j \in DOMAIN t, j < k, t[j].op \in Queued
               PROVE  t[j].stream = 0
    BY DEF DefaultBefore
  <2>1. k \in DOMAIN p \/ k - n = 1
    BY <1>3
  <2>2. j \in DOMAIN p
    BY <1>1, <2>1
  <2> QED
    BY <1>1, <2>2
<1> QED
  BY <1>1, <1>4, <1>5, <1>6 DEF WellFormed, t

\* The clean-up at the end of a program.
LEMMA Freed ==
    ASSUME NEW p, WellFormed(p)
    PROVE  WellFormed(p \o <<Host("free")>>)
<1> DEFINE s == <<Host("free")>>
           t == p \o s
           n == Len(p)
<1>0. p \in Seq(Calls) /\ s \in Seq(Calls) /\ Len(s) = 1 /\ s[1].op = "free"
  BY DEF WellFormed, Host, Call, Calls
<1>1. /\ t \in Seq(Calls) /\ n \in Nat /\ DOMAIN p = 1 .. n /\ DOMAIN t = 1 .. n + 1
      /\ \A k \in DOMAIN p : k \in DOMAIN t /\ t[k] = p[k]
      /\ \A k \in DOMAIN s : t[k + n] = s[k]
      /\ \A j, k \in DOMAIN p : OnePhase(p, j, k) <=> OnePhase(t, j, k)
  BY <1>0, Joint
<1>2. t[n + 1].op = "free"
  <2>1. 1 \in DOMAIN s /\ 1 + n = n + 1
    BY <1>0, <1>1
  <2> QED
    BY <1>0, <1>1, <2>1
<1>3. p # << >> /\ p[1].op = "memset" /\ 1 \in DOMAIN p
  BY <1>0, <1>1 DEF WellFormed, Waits
<1> HIDE DEF s, t, n
<1>4. \A k \in DOMAIN t : t[k].op # "free" => k \in DOMAIN p
  BY <1>1, <1>2
<1>5. InOrder(t)
  <2>1. ASSUME NEW j \in DOMAIN t, NEW k \in DOMAIN t, NEW c \in Chunks,
               NEW op \in {"h2d", "kernel", "d2h"}, j < k, Does(t, j, op, c), Does(t, k, op, c)
        PROVE  ~OnePhase(t, j, k)
    <3>1. j \in DOMAIN p /\ k \in DOMAIN p
      BY <1>4, <2>1 DEF Does
    <3> QED
      BY <1>1, <2>1, <3>1 DEF WellFormed, InOrder, Does
  <2>2. ASSUME NEW k \in DOMAIN p, NEW c \in Chunks
        PROVE  /\ Does(t, k, "kernel", c) =>
                     \E j \in DOMAIN t : /\ j < k /\ Does(t, j, "h2d", c)
                                         /\ t[j].stream = t[k].stream /\ OnePhase(t, j, k)
               /\ Does(t, k, "d2h", c) =>
                     \E j \in DOMAIN t : /\ j < k /\ Does(t, j, "kernel", c)
                                         /\ t[j].stream = t[k].stream /\ OnePhase(t, j, k)
               /\ t[k].op = "maxError" =>
                     \E j \in DOMAIN t : j < k /\ Does(t, j, "d2h", c) /\ OnePhase(t, j, k)
    <3>1. \A i \in DOMAIN p : OnePhase(p, i, k) => OnePhase(t, i, k)
      BY <1>1
    <3>2. t[k] = p[k] /\ \A i \in DOMAIN p : i \in DOMAIN t /\ t[i] = p[i]
      BY <1>1
    <3> QED
      BY <3>1, <3>2 DEF WellFormed, InOrder, Does
  <2>3. ASSUME NEW k \in DOMAIN t, t[k].op \in {"kernel", "d2h", "maxError"}
        PROVE  k \in DOMAIN p
    BY <1>4, <2>3
  <2> QED
    BY <2>1, <2>2, <2>3 DEF InOrder, Does
<1>6. Waits(t)
  <2>1. ASSUME NEW k \in DOMAIN t
        PROVE  /\ t[k].op = "wait" => k > 1 /\ t[k - 1].op \in Queued /\ t[k - 1].stream = 0
               /\ t[k].op = "maxError" => k > 2 /\ t[k - 1].op = "wait"
               /\ t[k].op = "memset" /\ k > 1 => t[k - 1].op = "maxError"
    <3>1. CASE k \in DOMAIN p
      <4>1. k > 1 => k - 1 \in DOMAIN p
        BY <1>1, <3>1
      <4> QED
        BY <1>1, <3>1, <4>1 DEF WellFormed, Waits
    <3>2. CASE k \notin DOMAIN p
      BY <1>4, <3>2
    <3> QED
      BY <3>1, <3>2
  <2>2. t # << >> /\ t[1].op = "memset"
    <3>1. 1 \in DOMAIN t /\ DOMAIN << >> = {}
      BY <1>1, <1>3
    <3> QED
      BY <1>1, <1>3, <3>1
  <2> QED
    BY <2>1, <2>2 DEF Waits
<1>7. DefaultBefore(t)
  <2> SUFFICES ASSUME NonBlocking, NEW k \in DOMAIN t, t[k].op = "memset",
                      NEW j \in DOMAIN t, j < k, t[j].op \in Queued
               PROVE  t[j].stream = 0
    BY DEF DefaultBefore
  <2>1. k \in DOMAIN p /\ j \in DOMAIN p
    BY <1>4 DEF Queued
  <2> QED
    BY <1>1, <2>1 DEF WellFormed, DefaultBefore
<1> QED
  BY <1>1, <1>5, <1>6, <1>7 DEF WellFormed, t, s

\* The calls that queue the work of one phase.
Complete(v) ==
    /\ v \in Seq(Calls) /\ \A k \in DOMAIN v : v[k].op \in {"h2d", "kernel", "d2h"}
    /\ \A j, k \in DOMAIN v, c \in Chunks, op \in {"h2d", "kernel", "d2h"} :
          Does(v, j, op, c) /\ Does(v, k, op, c) => j = k
    /\ \A k \in DOMAIN v, c \in Chunks :
          /\ Does(v, k, "kernel", c) =>
                \E j \in DOMAIN v : j < k /\ Does(v, j, "h2d", c) /\ v[j].stream = v[k].stream
          /\ Does(v, k, "d2h", c) =>
                \E j \in DOMAIN v : j < k /\ Does(v, j, "kernel", c) /\ v[j].stream = v[k].stream
    /\ \A c \in Chunks : \E k \in DOMAIN v : Does(v, k, "d2h", c)

\* Where the calls of an asynchronous version are.
LEMMA AsyncLayout ==
    ASSUME NEW v \in Seq(Calls)
    PROVE  LET t == Asynchronous(v)
               m == Len(v)
           IN  /\ t \in Seq(Calls) /\ m \in Nat /\ Len(t) = m + 5 /\ DOMAIN v = 1 .. m
               /\ t[1] = Host("memset") /\ t[2] = Call("record", {}, 0)
               /\ \A k \in 1 .. m : t[k + 2] = v[k]
               /\ t[m + 3] = Call("record", {}, 0) /\ t[m + 4] = Host("wait")
               /\ t[m + 5] = Host("maxError")
<1> DEFINE m == Len(v)
           x == <<Host("memset"), Call("record", {}, 0)>>
           y == x \o v
           z == <<Call("record", {}, 0), Host("wait"), Host("maxError")>>
           t == y \o z
<1>1. x \in Seq(Calls) /\ Len(x) = 2 /\ z \in Seq(Calls) /\ Len(z) = 3 /\ m \in Nat
      /\ DOMAIN v = 1 .. m
  BY DEF Host, Call, Calls, Queued
<1>2. x[1] = Host("memset") /\ x[2] = Call("record", {}, 0)
      /\ z[1] = Call("record", {}, 0) /\ z[2] = Host("wait") /\ z[3] = Host("maxError")
  OBVIOUS
<1> HIDE DEF x, z
<1>3. /\ y \in Seq(Calls) /\ Len(y) = m + 2
      /\ \A k \in 1 .. m + 2 : y[k] = IF k <= 2 THEN x[k] ELSE v[k - 2]
  <2>1. /\ y \in Seq(Calls) /\ Len(y) = Len(x) + Len(v)
        /\ \A k \in 1 .. Len(x) + Len(v) : y[k] = IF k <= Len(x) THEN x[k] ELSE v[k - Len(x)]
    BY <1>1, ConcatProperties
  <2> HIDE DEF y, m
  <2> QED
    BY <1>1, <2>1 DEF m
<1> HIDE DEF y
<1>4. /\ t \in Seq(Calls) /\ Len(t) = m + 5
      /\ \A k \in 1 .. m + 5 : t[k] = IF k <= m + 2 THEN y[k] ELSE z[k - (m + 2)]
  <2>1. /\ t \in Seq(Calls) /\ Len(t) = Len(y) + Len(z)
        /\ \A k \in 1 .. Len(y) + Len(z) : t[k] = IF k <= Len(y) THEN y[k] ELSE z[k - Len(y)]
    BY <1>1, <1>3, ConcatProperties
  <2> HIDE DEF t, m
  <2>2. Len(y) + Len(z) = m + 5
    BY <1>1, <1>3
  <2> QED
    BY <1>3, <2>1, <2>2
<1> HIDE DEF t, m
<1>5. t[1] = x[1] /\ t[2] = x[2]
  BY <1>1, <1>3, <1>4
<1>6. \A k \in 1 .. m : t[k + 2] = v[k]
  <2> TAKE k \in 1 .. m
  <2>1. k + 2 \in 1 .. m + 2 /\ k + 2 \in 1 .. m + 5 /\ (k + 2) - 2 = k /\ ~(k + 2 <= 2)
    BY <1>1
  <2> QED
    BY <1>3, <1>4, <2>1
<1>7. t[m + 3] = z[1] /\ t[m + 4] = z[2] /\ t[m + 5] = z[3]
  <2>1. m + 3 - (m + 2) = 1 /\ m + 4 - (m + 2) = 2 /\ m + 5 - (m + 2) = 3
    BY <1>1
  <2> QED
    BY <1>1, <1>4, <2>1
<1>8. Asynchronous(v) = t
  BY DEF Asynchronous, t, y, x, z
<1> QED
  BY <1>1, <1>2, <1>4, <1>5, <1>6, <1>7, <1>8 DEF m

\* A program of one phase that ends with reading the array.
Phase(p) ==
    /\ WellFormed(p) /\ p[Len(p)].op = "maxError"
    /\ \A k \in DOMAIN p : p[k].op = "memset" => k = 1

LEMMA AsyncPhase ==
    ASSUME NEW v, Complete(v) PROVE Phase(Asynchronous(v))
<1> DEFINE t == Asynchronous(v)
           m == Len(v)
<1>0. v \in Seq(Calls)
  BY DEF Complete
<1>1. /\ t \in Seq(Calls) /\ m \in Nat /\ Len(t) = m + 5 /\ DOMAIN v = 1 .. m
      /\ t[1] = Host("memset") /\ t[2] = Call("record", {}, 0)
      /\ \A k \in 1 .. m : t[k + 2] = v[k]
      /\ t[m + 3] = Call("record", {}, 0) /\ t[m + 4] = Host("wait")
      /\ t[m + 5] = Host("maxError")
  BY <1>0, AsyncLayout
<1> HIDE DEF t, m
<1>2. /\ DOMAIN t = 1 .. m + 5 /\ t[1].op = "memset" /\ t[2].op = "record"
      /\ t[m + 3].op = "record" /\ t[m + 3].stream = 0 /\ t[m + 4].op = "wait"
      /\ t[m + 5].op = "maxError"
  BY <1>1 DEF Host, Call
<1>3. \A k \in DOMAIN t :
         \/ k = 1 \/ k = 2 \/ k = m + 3 \/ k = m + 4 \/ k = m + 5
         \/ k - 2 \in DOMAIN v /\ t[k] = v[k - 2] /\ t[k].op \in {"h2d", "kernel", "d2h"}
  <2> TAKE k \in DOMAIN t
  <2>1. CASE k - 2 \in 1 .. m
    <3>1. (k - 2) + 2 = k
      BY <1>1, <1>2
    <3> QED
      BY <1>1, <2>1, <3>1 DEF Complete
  <2> QED
    BY <1>1, <1>2, <2>1
<1>4. \A k \in DOMAIN t : t[k].op = "memset" => k = 1
  BY <1>2, <1>3
<1>5. \A j, k \in DOMAIN t : OnePhase(t, j, k)
  BY <1>1, <1>2, <1>4 DEF OnePhase
<1>6. \A k \in DOMAIN t : t[k].op \in {"h2d", "kernel", "d2h"} => k - 2 \in DOMAIN v /\ t[k] = v[k - 2]
  BY <1>2, <1>3
<1>7. \A k \in DOMAIN v : k + 2 \in DOMAIN t /\ t[k + 2] = v[k]
  BY <1>1, <1>2
<1>8. InOrder(t)
  <2>1. ASSUME NEW j \in DOMAIN t, NEW k \in DOMAIN t, NEW c \in Chunks,
               NEW op \in {"h2d", "kernel", "d2h"}, j < k, Does(t, j, op, c), Does(t, k, op, c)
        PROVE  FALSE
    <3>1. j - 2 \in DOMAIN v /\ t[j] = v[j - 2] /\ k - 2 \in DOMAIN v /\ t[k] = v[k - 2]
      BY <1>6, <2>1 DEF Does
    <3>2. j - 2 = k - 2
      BY <2>1, <3>1 DEF Complete, Does
    <3> QED
      BY <1>1, <1>2, <2>1, <3>2
  <2>2. ASSUME NEW k \in DOMAIN t, NEW c \in Chunks, Does(t, k, "kernel", c)
        PROVE  \E j \in DOMAIN t : /\ j < k /\ Does(t, j, "h2d", c)
                                   /\ t[j].stream = t[k].stream
    <3>1. k - 2 \in DOMAIN v /\ t[k] = v[k - 2]
      BY <1>6, <2>2 DEF Does
    <3>2. PICK i \in DOMAIN v : i < k - 2 /\ Does(v, i, "h2d", c) /\ v[i].stream = v[k - 2].stream
      BY <2>2, <3>1 DEF Complete, Does
    <3>3. i + 2 < k
      BY <1>1, <1>2, <3>2
    <3> QED
      BY <1>7, <3>1, <3>2, <3>3 DEF Does
  <2>3. ASSUME NEW k \in DOMAIN t, NEW c \in Chunks, Does(t, k, "d2h", c)
        PROVE  \E j \in DOMAIN t : /\ j < k /\ Does(t, j, "kernel", c)
                                   /\ t[j].stream = t[k].stream
    <3>1. k - 2 \in DOMAIN v /\ t[k] = v[k - 2]
      BY <1>6, <2>3 DEF Does
    <3>2. PICK i \in DOMAIN v : i < k - 2 /\ Does(v, i, "kernel", c) /\ v[i].stream = v[k - 2].stream
      BY <2>3, <3>1 DEF Complete, Does
    <3>3. i + 2 < k
      BY <1>1, <1>2, <3>2
    <3> QED
      BY <1>7, <3>1, <3>2, <3>3 DEF Does
  <2>4. ASSUME NEW k \in DOMAIN t, NEW c \in Chunks, t[k].op = "maxError"
        PROVE  \E j \in DOMAIN t : j < k /\ Does(t, j, "d2h", c)
    <3>1. k = m + 5
      BY <1>2, <1>3, <2>4
    <3>2. PICK i \in DOMAIN v : Does(v, i, "d2h", c)
      BY DEF Complete
    <3>3. i + 2 < k
      BY <1>1, <3>1
    <3> QED
      BY <1>7, <3>2, <3>3 DEF Does
  <2> QED
    BY <1>5, <2>1, <2>2, <2>3, <2>4 DEF InOrder
<1>9. Waits(t)
  <2>1. ASSUME NEW k \in DOMAIN t
        PROVE  /\ t[k].op = "wait" => k > 1 /\ t[k - 1].op \in Queued /\ t[k - 1].stream = 0
               /\ t[k].op = "maxError" => k > 2 /\ t[k - 1].op = "wait"
               /\ t[k].op = "memset" /\ k > 1 => t[k - 1].op = "maxError"
    <3>1. t[k].op = "wait" => k = m + 4
      BY <1>2, <1>3
    <3>2. t[k].op = "maxError" => k = m + 5
      BY <1>2, <1>3
    <3>3. (m + 4) - 1 = m + 3 /\ (m + 5) - 1 = m + 4 /\ m + 4 > 1 /\ m + 5 > 2
      BY <1>1
    <3> QED
      BY <1>2, <1>4, <3>1, <3>2, <3>3 DEF Queued
  <2>2. t # << >>
    <3>1. 1 \in DOMAIN t /\ DOMAIN << >> = {}
      BY <1>1, <1>2
    <3> QED
      BY <3>1
  <2> QED
    BY <1>2, <2>1, <2>2 DEF Waits
<1>10. DefaultBefore(t)
  BY <1>2, <1>4 DEF DefaultBefore
<1>11. t[Len(t)].op = "maxError"
  BY <1>1, <1>2
<1> QED
  BY <1>1, <1>4, <1>8, <1>9, <1>10, <1>11 DEF Phase, WellFormed, t

\* The synchronous version; everything is in the default stream.
LEMMA BaselinePhase ==
    Phase(Baseline) /\ \A k \in DOMAIN Baseline : Baseline[k].stream = 0
<1> DEFINE t == Baseline
<1>1. t \in Seq(Calls) /\ Len(t) = 10 /\ DOMAIN t = 1 .. 10
  BY DEF Baseline, Host, Call, Calls, Queued
<1>2. /\ t[1].op = "memset" /\ t[2].op = "record" /\ t[3].op = "h2d" /\ t[4].op = "wait"
      /\ t[5].op = "kernel" /\ t[6].op = "d2h" /\ t[7].op = "wait" /\ t[8].op = "record"
      /\ t[9].op = "wait" /\ t[10].op = "maxError"
  BY DEF Baseline, Host, Call
<1>3. t[3].chunks = Chunks /\ t[5].chunks = Chunks /\ t[6].chunks = Chunks
  BY DEF Baseline, Host, Call
<1>4. /\ t[1].stream = 0 /\ t[2].stream = 0 /\ t[3].stream = 0 /\ t[4].stream = 0
      /\ t[5].stream = 0 /\ t[6].stream = 0 /\ t[7].stream = 0 /\ t[8].stream = 0
      /\ t[9].stream = 0 /\ t[10].stream = 0
  BY DEF Baseline, Host, Call
<1> HIDE DEF t
<1>5. \A k \in DOMAIN t : t[k].op = "memset" => k = 1
  BY <1>1, <1>2
<1>6. \A j, k \in DOMAIN t : OnePhase(t, j, k)
  BY <1>1, <1>2, <1>5 DEF OnePhase
<1>7. InOrder(t)
  <2>1. \A k \in DOMAIN t : /\ t[k].op = "h2d" => k = 3
                            /\ t[k].op = "kernel" => k = 5
                            /\ t[k].op = "d2h" => k = 6
                            /\ t[k].op = "maxError" => k = 10
    BY <1>1, <1>2
  <2>2. \A c \in Chunks : Does(t, 3, "h2d", c) /\ Does(t, 5, "kernel", c) /\ Does(t, 6, "d2h", c)
    BY <1>2, <1>3 DEF Does
  <2>3. 3 \in DOMAIN t /\ 5 \in DOMAIN t /\ 6 \in DOMAIN t /\ 10 \in DOMAIN t
    BY <1>1
  <2>4. ASSUME NEW j \in DOMAIN t, NEW k \in DOMAIN t, NEW c \in Chunks,
               NEW op \in {"h2d", "kernel", "d2h"}, j < k, Does(t, j, op, c), Does(t, k, op, c)
        PROVE  FALSE
    BY <2>1, <2>4 DEF Does
  <2>5. ASSUME NEW k \in DOMAIN t, NEW c \in Chunks
        PROVE  /\ Does(t, k, "kernel", c) =>
                     \E j \in DOMAIN t : /\ j < k /\ Does(t, j, "h2d", c)
                                         /\ t[j].stream = t[k].stream /\ OnePhase(t, j, k)
               /\ Does(t, k, "d2h", c) =>
                     \E j \in DOMAIN t : /\ j < k /\ Does(t, j, "kernel", c)
                                         /\ t[j].stream = t[k].stream /\ OnePhase(t, j, k)
               /\ t[k].op = "maxError" =>
                     \E j \in DOMAIN t : j < k /\ Does(t, j, "d2h", c) /\ OnePhase(t, j, k)
    <3>1. CASE Does(t, k, "kernel", c)
      BY <1>2, <1>4, <1>6, <2>1, <2>2, <2>3, <3>1 DEF Does
    <3>2. CASE Does(t, k, "d2h", c)
      BY <1>2, <1>4, <1>6, <2>1, <2>2, <2>3, <3>2 DEF Does
    <3>3. CASE t[k].op = "maxError"
      BY <1>2, <1>6, <2>1, <2>2, <2>3, <3>3 DEF Does
    <3> QED
      BY <3>1, <3>2, <3>3
  <2> QED
    BY <2>4, <2>5 DEF InOrder
<1>8. Waits(t)
  <2>1. \A k \in DOMAIN t :
          /\ t[k].op = "wait" => k > 1 /\ t[k - 1].op \in Queued /\ t[k - 1].stream = 0
          /\ t[k].op = "maxError" => k > 2 /\ t[k - 1].op = "wait"
          /\ t[k].op = "memset" /\ k > 1 => t[k - 1].op = "maxError"
    BY <1>1, <1>2, <1>4 DEF Queued
  <2>2. t # << >>
    BY <1>1
  <2> QED
    BY <1>2, <2>1, <2>2 DEF Waits
<1>9. DefaultBefore(t) /\ \A k \in DOMAIN t : t[k].stream = 0
  BY <1>1, <1>4 DEF DefaultBefore
<1>10. t[Len(t)].op = "maxError"
  BY <1>1, <1>2
<1> QED
  BY <1>1, <1>5, <1>7, <1>8, <1>9, <1>10 DEF Phase, WellFormed, t

\* In v the copy to the device, the kernel and the copy back of chunk c are at H[c],
\* K[c] and D[c], in one stream, and there is nothing else.
Placed(v, H, K, D) ==
    /\ \A c \in Chunks :
          /\ H[c] \in DOMAIN v /\ K[c] \in DOMAIN v /\ D[c] \in DOMAIN v
          /\ H[c] < K[c] /\ K[c] < D[c]
          /\ v[H[c]].op = "h2d" /\ v[K[c]].op = "kernel" /\ v[D[c]].op = "d2h"
          /\ v[H[c]].stream = v[K[c]].stream /\ v[K[c]].stream = v[D[c]].stream
          /\ \A b \in Chunks : /\ b \in v[H[c]].chunks <=> b = c
                               /\ b \in v[K[c]].chunks <=> b = c
                               /\ b \in v[D[c]].chunks <=> b = c
    /\ \A k \in DOMAIN v : \E c \in Chunks : k = H[c] \/ k = K[c] \/ k = D[c]

LEMMA FromPositions ==
    ASSUME NEW v \in Seq(Calls), NEW H, NEW K, NEW D, Placed(v, H, K, D)
    PROVE  Complete(v)
<1>1. ASSUME NEW k \in DOMAIN v, NEW c \in Chunks
      PROVE  /\ Does(v, k, "h2d", c) => k = H[c]
             /\ Does(v, k, "kernel", c) => k = K[c]
             /\ Does(v, k, "d2h", c) => k = D[c]
  <2>1. PICK d \in Chunks : k = H[d] \/ k = K[d] \/ k = D[d]
    BY Zenon DEF Placed
  <2>2. CASE k = H[d]
    BY <2>2 DEF Does, Placed
  <2>3. CASE k = K[d]
    BY <2>3 DEF Does, Placed
  <2>4. CASE k = D[d]
    BY <2>4 DEF Does, Placed
  <2> QED
    BY <2>1, <2>2, <2>3, <2>4
<1>2. ASSUME NEW c \in Chunks
      PROVE  /\ Does(v, H[c], "h2d", c) /\ Does(v, K[c], "kernel", c) /\ Does(v, D[c], "d2h", c)
             /\ H[c] \in DOMAIN v /\ K[c] \in DOMAIN v /\ D[c] \in DOMAIN v
             /\ H[c] < K[c] /\ K[c] < D[c]
             /\ v[H[c]].stream = v[K[c]].stream /\ v[K[c]].stream = v[D[c]].stream
  BY DEF Does, Placed
<1>3. ASSUME NEW k \in DOMAIN v PROVE v[k].op \in {"h2d", "kernel", "d2h"}
  <2>1. PICK d \in Chunks : k = H[d] \/ k = K[d] \/ k = D[d]
    BY Zenon DEF Placed
  <2> QED
    BY <1>2, <2>1 DEF Does
<1>4. ASSUME NEW k \in DOMAIN v, NEW c \in Chunks
      PROVE  /\ Does(v, k, "kernel", c) =>
                \E j \in DOMAIN v : j < k /\ Does(v, j, "h2d", c) /\ v[j].stream = v[k].stream
             /\ Does(v, k, "d2h", c) =>
                \E j \in DOMAIN v : j < k /\ Does(v, j, "kernel", c) /\ v[j].stream = v[k].stream
  BY <1>1, <1>2
<1>5. ASSUME NEW j \in DOMAIN v, NEW k \in DOMAIN v, NEW c \in Chunks,
             NEW op \in {"h2d", "kernel", "d2h"}, Does(v, j, op, c), Does(v, k, op, c)
      PROVE  j = k
  BY <1>1, <1>5
<1>6. \A c \in Chunks : \E k \in DOMAIN v : Does(v, k, "d2h", c)
  BY <1>2
<1> QED
  BY <1>3, <1>4, <1>5, <1>6 DEF Complete

LEMMA Version1Complete == Complete(Version1)
<1> DEFINE n == nStreams
           v == Version1
           H == [c \in Chunks |-> 3 * c + 1]
           K == [c \in Chunks |-> 3 * c + 2]
           D == [c \in Chunks |-> 3 * c + 3]
<1>0. n \in Nat /\ n > 1 /\ Chunks = 0 .. n - 1
  BY StreamsAssumption DEF Chunks
<1>1. Ops[1] = "h2d" /\ Ops[2] = "kernel" /\ Ops[3] = "d2h"
  BY DEF Ops
<1> DEFINE At1(k) == Call(Ops[((k - 1) % 3) + 1], {(k - 1) \div 3}, ((k - 1) \div 3) + 1)
<1>2. v = [k \in 1 .. 3 * n |-> At1(k)]
  BY DEF Version1
<1>3. \A k \in 1 .. 3 * n : /\ (k - 1) \div 3 \in Chunks /\ (k - 1) % 3 \in 0 .. 2
                            /\ k = 3 * ((k - 1) \div 3) + ((k - 1) % 3) + 1
  BY <1>0
<1>4. \A k \in 1 .. 3 * n : At1(k) \in Calls
  <2> TAKE k \in 1 .. 3 * n
  <2>1. Ops[((k - 1) % 3) + 1] \in {"h2d", "kernel", "d2h"}
    BY <1>1, <1>3
  <2>2. {(k - 1) \div 3} \in SUBSET Chunks /\ ((k - 1) \div 3) + 1 \in Nat
    BY <1>0, <1>3
  <2> QED
    BY <2>1, <2>2 DEF Call, Calls, Queued
<1> HIDE DEF v, At1
<1>5. v \in Seq(Calls) /\ DOMAIN v = 1 .. 3 * n
  <2>1. 3 * n \in Nat
    BY <1>0
  <2> QED
    BY <1>2, <1>4, <2>1
<1>6. ASSUME NEW c \in Chunks
      PROVE  /\ 3 * c + 1 \in DOMAIN v /\ 3 * c + 2 \in DOMAIN v /\ 3 * c + 3 \in DOMAIN v
             /\ 3 * c + 1 < 3 * c + 2 /\ 3 * c + 2 < 3 * c + 3
             /\ v[3 * c + 1] = Call("h2d", {c}, c + 1)
             /\ v[3 * c + 2] = Call("kernel", {c}, c + 1)
             /\ v[3 * c + 3] = Call("d2h", {c}, c + 1)
  <2>0. /\ 3 * c + 1 \in DOMAIN v /\ 3 * c + 2 \in DOMAIN v /\ 3 * c + 3 \in DOMAIN v
        /\ 3 * c + 1 < 3 * c + 2 /\ 3 * c + 2 < 3 * c + 3
    BY <1>0, <1>5
  <2>1. /\ ((3 * c + 1) - 1) \div 3 = c /\ ((3 * c + 1) - 1) % 3 = 0
        /\ ((3 * c + 2) - 1) \div 3 = c /\ ((3 * c + 2) - 1) % 3 = 1
        /\ ((3 * c + 3) - 1) \div 3 = c /\ ((3 * c + 3) - 1) % 3 = 2
    BY <1>0
  <2>2. /\ v[3 * c + 1] = At1(3 * c + 1) /\ v[3 * c + 2] = At1(3 * c + 2)
        /\ v[3 * c + 3] = At1(3 * c + 3)
    BY <1>2, <1>5, <2>0
  <2>3. \A k, q, r : (k - 1) \div 3 = q /\ (k - 1) % 3 = r =>
                        At1(k) = Call(Ops[r + 1], {q}, q + 1)
    BY Zenon DEF At1
  <2>4. At1(3 * c + 1) = Call(Ops[0 + 1], {c}, c + 1)
    BY <2>1, <2>3, Zenon
  <2>5. At1(3 * c + 2) = Call(Ops[1 + 1], {c}, c + 1)
    BY <2>1, <2>3, Zenon
  <2>6. At1(3 * c + 3) = Call(Ops[2 + 1], {c}, c + 1)
    BY <2>1, <2>3, Zenon
  <2>7. 0 + 1 = 1 /\ 1 + 1 = 2 /\ 2 + 1 = 3
    OBVIOUS
  <2> QED
    BY <1>1, <2>0, <2>2, <2>4, <2>5, <2>6, <2>7, Zenon
<1>7. ASSUME NEW k \in DOMAIN v
      PROVE  \E c \in Chunks : k = 3 * c + 1 \/ k = 3 * c + 2 \/ k = 3 * c + 3
  <2>1. PICK c \in Chunks : c = (k - 1) \div 3
    BY <1>3, <1>5
  <2>2. PICK r \in 0 .. 2 : r = (k - 1) % 3
    BY <1>3, <1>5
  <2>3. k = 3 * c + r + 1
    BY <1>3, <1>5, <2>1, <2>2
  <2> QED
    BY <1>0, <2>3
<1>8. \A c \in Chunks : H[c] = 3 * c + 1 /\ K[c] = 3 * c + 2 /\ D[c] = 3 * c + 3
  OBVIOUS
<1> HIDE DEF H, K, D
<1>9. Placed(v, H, K, D)
  <2>1. ASSUME NEW c \in Chunks
        PROVE  /\ H[c] \in DOMAIN v /\ K[c] \in DOMAIN v /\ D[c] \in DOMAIN v
               /\ H[c] < K[c] /\ K[c] < D[c]
               /\ v[H[c]].op = "h2d" /\ v[K[c]].op = "kernel" /\ v[D[c]].op = "d2h"
               /\ v[H[c]].stream = v[K[c]].stream /\ v[K[c]].stream = v[D[c]].stream
               /\ \A b \in Chunks : /\ b \in v[H[c]].chunks <=> b = c
                                    /\ b \in v[K[c]].chunks <=> b = c
                                    /\ b \in v[D[c]].chunks <=> b = c
    <3>1. v[H[c]] = Call("h2d", {c}, c + 1) /\ v[K[c]] = Call("kernel", {c}, c + 1)
          /\ v[D[c]] = Call("d2h", {c}, c + 1)
      BY <1>6, <1>8, Zenon
    <3>2. /\ v[H[c]].op = "h2d" /\ v[H[c]].chunks = {c} /\ v[H[c]].stream = c + 1
          /\ v[K[c]].op = "kernel" /\ v[K[c]].chunks = {c} /\ v[K[c]].stream = c + 1
          /\ v[D[c]].op = "d2h" /\ v[D[c]].chunks = {c} /\ v[D[c]].stream = c + 1
      BY <3>1 DEF Call
    <3> QED
      BY <1>6, <1>8, <3>2
  <2>2. ASSUME NEW k \in DOMAIN v PROVE \E c \in Chunks : k = H[c] \/ k = K[c] \/ k = D[c]
    BY <1>7, <1>8
  <2> QED
    BY <2>1, <2>2 DEF Placed
<1> QED
  BY <1>5, <1>9, FromPositions DEF v

\* Quotient and remainder in a loop of three rounds of n.
LEMMA ThreeRounds ==
    ASSUME NEW n \in Nat, n > 1, NEW x \in 0 .. 3 * n - 1
    PROVE  \E q \in 0 .. 2, r \in 0 .. n - 1 : x = n * q + r
<1>1. CASE x < n
  <2>1. x = n * 0 + x /\ x \in 0 .. n - 1
    BY <1>1
  <2> QED
    BY <2>1
<1>2. CASE n <= x /\ x < 2 * n
  <2>1. x = n * 1 + (x - n) /\ x - n \in 0 .. n - 1
    BY <1>2
  <2> QED
    BY <2>1
<1>3. CASE 2 * n <= x
  <2>1. x = n * 2 + (x - 2 * n) /\ x - 2 * n \in 0 .. n - 1
    BY <1>3
  <2> QED
    BY <2>1
<1> QED
  BY <1>1, <1>2, <1>3

LEMMA Quotient ==
    ASSUME NEW n \in Nat, n > 1, NEW q \in 0 .. 2, NEW r \in 0 .. n - 1
    PROVE  (n * q + r) \div n = q /\ (n * q + r) % n = r
<1>1. (n * 0 + r) \div n = 0 /\ (n * 0 + r) % n = r
  OBVIOUS
<1>2. (n * 1 + r) \div n = 1 /\ (n * 1 + r) % n = r
  OBVIOUS
<1>3. (n * 2 + r) \div n = 2 /\ (n * 2 + r) % n = r
  OBVIOUS
<1> QED
  BY <1>1, <1>2, <1>3

LEMMA Version2Complete ==
    ASSUME NEW S \in [Chunks -> Nat] PROVE Complete(Version2(S))
<1> DEFINE n == nStreams
           v == Version2(S)
           H == [c \in Chunks |-> (n * 0 + c) + 1]
           K == [c \in Chunks |-> (n * 1 + c) + 1]
           D == [c \in Chunks |-> (n * 2 + c) + 1]
<1>0. n \in Nat /\ n > 1 /\ Chunks = 0 .. n - 1
  BY StreamsAssumption DEF Chunks
<1>1. Ops[0 + 1] = "h2d" /\ Ops[1 + 1] = "kernel" /\ Ops[2 + 1] = "d2h"
  BY DEF Ops
<1> DEFINE At2(k) == Call(Ops[((k - 1) \div n) + 1], {(k - 1) % n}, S[(k - 1) % n])
<1>2. v = [k \in 1 .. 3 * n |-> At2(k)]
  BY DEF Version2
<1>3. \A k, q, r : (k - 1) \div n = q /\ (k - 1) % n = r => At2(k) = Call(Ops[q + 1], {r}, S[r])
  BY Zenon DEF At2
<1> HIDE DEF v, At2, n
<1>4. ASSUME NEW q \in 0 .. 2, NEW c \in Chunks
      PROVE  /\ (n * q + c) + 1 \in 1 .. 3 * n
             /\ At2((n * q + c) + 1) = Call(Ops[q + 1], {c}, S[c])
  <2>1. (n * q + c) \in Nat /\ (n * q + c) + 1 \in 1 .. 3 * n
    <3>1. n * q = 0 \/ n * q = n \/ n * q = 2 * n
      BY <1>0
    <3> QED
      BY <1>0, <3>1
  <2>2. ((n * q + c) + 1) - 1 = n * q + c
    BY <2>1
  <2>3. (n * q + c) \div n = q /\ (n * q + c) % n = c
    BY <1>0, Quotient
  <2>4. (((n * q + c) + 1) - 1) \div n = q /\ (((n * q + c) + 1) - 1) % n = c
    BY <2>2, <2>3, Zenon
  <2> QED
    BY <1>3, <2>1, <2>4, Zenon
<1>5. ASSUME NEW k \in 1 .. 3 * n PROVE \E q \in 0 .. 2, c \in Chunks : k = (n * q + c) + 1
  <2>1. k - 1 \in 0 .. 3 * n - 1
    BY <1>0
  <2>2. PICK q \in 0 .. 2, c \in Chunks : k - 1 = n * q + c
    BY <1>0, <2>1, ThreeRounds
  <2>3. k = (k - 1) + 1
    BY <1>0
  <2> QED
    BY <2>2, <2>3, Zenon
<1>6. v \in Seq(Calls) /\ DOMAIN v = 1 .. 3 * n
  <2>1. ASSUME NEW k \in 1 .. 3 * n PROVE At2(k) \in Calls
    <3>1. PICK q \in 0 .. 2, c \in Chunks : k = (n * q + c) + 1
      BY <1>5
    <3>2. At2(k) = Call(Ops[q + 1], {c}, S[c])
      BY <1>4, <3>1, Zenon
    <3>3. Ops[q + 1] \in {"h2d", "kernel", "d2h"}
      BY <1>1
    <3>4. {c} \in SUBSET Chunks /\ S[c] \in Nat
      OBVIOUS
    <3>5. Call(Ops[q + 1], {c}, S[c]) \in Calls
      BY <3>3, <3>4 DEF Call, Calls, Queued
    <3> QED
      BY <3>2, <3>5, Zenon
  <2>2. 3 * n \in Nat
    BY <1>0
  <2> QED
    BY <1>2, <2>1, <2>2
<1>7. \A c \in Chunks : H[c] = (n * 0 + c) + 1 /\ K[c] = (n * 1 + c) + 1 /\ D[c] = (n * 2 + c) + 1
  OBVIOUS
<1>8. \A k \in 1 .. 3 * n : v[k] = At2(k)
  BY <1>2
<1> HIDE DEF H, K, D
<1>9. Placed(v, H, K, D)
  <2>1. ASSUME NEW c \in Chunks
        PROVE  /\ H[c] \in DOMAIN v /\ K[c] \in DOMAIN v /\ D[c] \in DOMAIN v
               /\ H[c] < K[c] /\ K[c] < D[c]
               /\ v[H[c]].op = "h2d" /\ v[K[c]].op = "kernel" /\ v[D[c]].op = "d2h"
               /\ v[H[c]].stream = v[K[c]].stream /\ v[K[c]].stream = v[D[c]].stream
               /\ \A b \in Chunks : /\ b \in v[H[c]].chunks <=> b = c
                                    /\ b \in v[K[c]].chunks <=> b = c
                                    /\ b \in v[D[c]].chunks <=> b = c
    <3>0. 0 \in 0 .. 2 /\ 1 \in 0 .. 2 /\ 2 \in 0 .. 2
      OBVIOUS
    <3>1. H[c] \in 1 .. 3 * n /\ K[c] \in 1 .. 3 * n /\ D[c] \in 1 .. 3 * n
      BY <1>4, <1>7, <3>0, Zenon
    <3>2. /\ At2(H[c]) = Call(Ops[0 + 1], {c}, S[c]) /\ At2(K[c]) = Call(Ops[1 + 1], {c}, S[c])
          /\ At2(D[c]) = Call(Ops[2 + 1], {c}, S[c])
      BY <1>4, <1>7, <3>0, Zenon
    <3>3. v[H[c]] = Call("h2d", {c}, S[c]) /\ v[K[c]] = Call("kernel", {c}, S[c])
          /\ v[D[c]] = Call("d2h", {c}, S[c])
      BY <1>1, <1>8, <3>1, <3>2, Zenon
    <3>4. /\ v[H[c]].op = "h2d" /\ v[H[c]].chunks = {c} /\ v[H[c]].stream = S[c]
          /\ v[K[c]].op = "kernel" /\ v[K[c]].chunks = {c} /\ v[K[c]].stream = S[c]
          /\ v[D[c]].op = "d2h" /\ v[D[c]].chunks = {c} /\ v[D[c]].stream = S[c]
      BY <3>3 DEF Call
    <3>5. H[c] < K[c] /\ K[c] < D[c]
      BY <1>0, <1>7
    <3> QED
      BY <1>6, <3>1, <3>4, <3>5
  <2>2. ASSUME NEW k \in DOMAIN v PROVE \E c \in Chunks : k = H[c] \/ k = K[c] \/ k = D[c]
    <3>1. PICK q \in 0 .. 2, c \in Chunks : k = (n * q + c) + 1
      BY <1>5, <1>6
    <3>2. q = 0 \/ q = 1 \/ q = 2
      OBVIOUS
    <3> QED
      BY <1>7, <3>1, <3>2, Zenon
  <2> QED
    BY <2>1, <2>2 DEF Placed
<1> QED
  BY <1>6, <1>9, FromPositions DEF v

\* The three programs are well formed, whatever the number of streams.
LEMMA MainWellFormed ==
    ASSUME file \in Files PROVE WellFormed(Main)
<1>0. nStreams \in Nat /\ Chunks = 0 .. nStreams - 1
  BY StreamsAssumption DEF Chunks
<1>1. AsyncStream \in [Chunks -> Nat] /\ ChunkStream \in [Chunks -> Nat]
  BY <1>0 DEF AsyncStream, ChunkStream
<1>2. /\ Phase(Asynchronous(Version1)) /\ Phase(Asynchronous(Version2(AsyncStream)))
      /\ Phase(Asynchronous(Version2(ChunkStream)))
  BY <1>1, Version1Complete, Version2Complete, AsyncPhase
<1>3. Phase(Baseline) /\ \A k \in DOMAIN Baseline : Baseline[k].stream = 0
  BY BaselinePhase
<1>4. CASE file = "async.cu"
  <2> DEFINE p == Baseline \o Asynchronous(Version1)
             w == Asynchronous(Version2(AsyncStream))
  <2>1. WellFormed(p)
    BY <1>2, <1>3, Joined DEF Phase
  <2>2. p[Len(p)].op = "maxError"
    <3> DEFINE s == Asynchronous(Version1)
    <3>1. Baseline \in Seq(Calls) /\ s \in Seq(Calls) /\ s # << >> /\ s[Len(s)].op = "maxError"
      BY <1>2, <1>3 DEF Phase, WellFormed, Waits
    <3> HIDE DEF s
    <3>2. /\ Len(Baseline \o s) = Len(Baseline) + Len(s) /\ Len(Baseline) \in Nat /\ Len(s) \in Nat
          /\ \A k \in DOMAIN s : (Baseline \o s)[k + Len(Baseline)] = s[k]
      BY <3>1, Joint
    <3>3. Len(s) \in DOMAIN s /\ Len(s) + Len(Baseline) = Len(Baseline) + Len(s)
      BY <3>1, <3>2
    <3>4. (Baseline \o s)[Len(Baseline \o s)] = s[Len(s)]
      BY <3>2, <3>3, Zenon
    <3> QED
      BY <3>1, <3>4 DEF s
  <2>3. ~NonBlocking
    BY <1>4 DEF NonBlocking
  <2> HIDE DEF p, w
  <2>4. WellFormed(p \o w)
    BY <1>2, <2>1, <2>2, <2>3, Joined DEF Phase, w
  <2>5. WellFormed((p \o w) \o <<Host("free")>>)
    BY <2>4, Freed
  <2> QED
    BY <1>4, <2>5 DEF Main, AsyncMain, p, w
<1>5. CASE file # "async.cu"
  <2>1. WellFormed(Baseline \o Asynchronous(Version2(ChunkStream)))
    BY <1>2, <1>3, Joined DEF Phase
  <2>2. WellFormed((Baseline \o Asynchronous(Version2(ChunkStream))) \o <<Host("free")>>)
    BY <2>1, Freed
  <2> QED
    BY <1>5, <2>2 DEF Main, StreamMain
<1> QED
  BY <1>4, <1>5

-----------------------------------------------------------------------------
(* The theorems. *)

LEMMA StreamHolds == Spec => []StreamInv
<1>1. Init => StreamInv
  <2> SUFFICES ASSUME Init PROVE StreamInv
    OBVIOUS
  <2>1. file \in Files /\ pc = 1 /\ done = {} /\ a = [c \in Chunks |-> Junk]
        /\ d_a = [c \in Chunks |-> Junk]
    BY DEF Init
  <2>2. Len(Main) \in Nat
    BY <2>1, MainWellFormed DEF WellFormed
  <2>3. Issued = {} /\ Pending = {}
    BY <2>1 DEF Issued, Pending
  <2>4. OrderInv
    BY <2>1, <2>2, <2>3 DEF OrderInv
  <2>5. ValueInv
    BY <2>1, <2>3 DEF ValueInv, Junk
  <2> QED
    BY <2>1, <2>4, <2>5 DEF StreamInv
<1>2. StreamInv /\ [Next]_vars => StreamInv'
  <2> SUFFICES ASSUME StreamInv, [Next]_vars PROVE StreamInv'
    OBVIOUS
  <2>1. WellFormed(Main) /\ OrderInv /\ ValueInv /\ file' = file /\ Main' = Main
    BY MainWellFormed, Fixed DEF StreamInv
  <2>2. OrderInv'
    BY <2>1, Order
  <2>3. HostStep => ValueInv'
    BY <2>1, ValuesHost
  <2>4. DeviceStep => ValueInv'
    BY <2>1, ValuesDevice DEF DeviceStep
  <2>5. ASSUME Returned \/ UNCHANGED vars PROVE ValueInv'
    <3>1. UNCHANGED <<a, d_a, pc, done>>
      BY <2>5 DEF Returned, vars
    <3>2. ThisPhase' = ThisPhase /\ Pending' = Pending
      BY <2>1, <3>1 DEF ThisPhase, Pending, Issued
    <3>3. \A op, c : Ran(op, c)' <=> Ran(op, c)
      BY <2>1, <3>1, <3>2 DEF Ran, Does
    <3> QED
      BY <2>1, <3>1, <3>2, <3>3 DEF ValueInv
  <2> QED
    BY <2>1, <2>2, <2>3, <2>4, <2>5 DEF StreamInv, Next
<1> QED
  BY <1>1, <1>2, PTL DEF Spec

\* For every number of streams: the host clears the array only when no queued
\* call is left that could still read or write it.
THEOREM NoPendingCopyHolds == Spec => []NoPendingCopy
<1>1. StreamInv => NoPendingCopy
  BY MainWellFormed, Quiet DEF StreamInv
<1> QED
  BY <1>1, StreamHolds, PTL

\* For every number of streams: when the event recorded last in the default stream
\* has happened, each element has been copied, computed once and copied back, if the
\* other streams were created without cudaStreamNonBlocking.
THEOREM ResultReadyHolds == Spec => []ResultReady
<1>1. StreamInv => ResultReady
  <2> SUFFICES ASSUME StreamInv, ~NonBlocking, At("maxError"), NEW c \in Chunks PROVE a[c] = 1
    BY DEF ResultReady
  <2>1. /\ WellFormed(Main) /\ OrderInv /\ ValueInv
        /\ pc \in 1 .. Len(Main) /\ Len(Main) \in Nat /\ DOMAIN Main = 1 .. Len(Main)
        /\ Main[pc].op = "maxError"
    BY MainWellFormed DEF StreamInv, OrderInv, WellFormed, At
  <2>2. pc > 2 /\ Main[pc - 1].op = "wait" /\ pc - 1 \in 1 .. pc - 1
    BY <2>1 DEF WellFormed, Waits
  <2>3. Pending = {}
    BY <2>1, <2>2, Waited
  <2>4. PICK j \in DOMAIN Main : j < pc /\ Does(Main, j, "d2h", c) /\ OnePhase(Main, j, pc)
    BY <2>1 DEF WellFormed, InOrder
  <2>5. j \in Issued
    BY <2>1, <2>4 DEF Issued, Does, Queued
  <2>6. Ran("d2h", c)
    BY <2>1, <2>3, <2>4, <2>5 DEF Pending, Ran, ThisPhase
  <2> QED
    BY <2>1, <2>2, <2>6 DEF ValueInv
<1> QED
  BY <1>1, StreamHolds, PTL
=============================================================================
