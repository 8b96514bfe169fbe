--------------------------- MODULE VectorAddProof ----------------------------
(***************************************************************************)
(* Proofs about the vector additions: what the strided kernels add, and    *)
(* that a configuration reported right did compute the sum.                *)
(***************************************************************************)
EXTENDS VectorAdd, TLAPS

\* Positive multiples of s are no smaller than s.
LEMMA Multiples ==
    ASSUME NEW s \in Nat, NEW m \in Nat, m # 0
    PROVE  m * s >= s
<1>1. PICK p \in Nat : m = p + 1
  BY m - 1 \in Nat
<1>2. m * s = p * s + s
  BY <1>1
<1>3. p * s \in Nat
  BY <1>1
<1> QED
  BY <1>2, <1>3

\* The kernels of the vec_add files: T threads that each take every s-th element of
\* n add all of them exactly when T >= s or T >= n.  This is what Covers says, and
\* why every <<<g, b>>> pair of vec_add.cu suits the kernel its switch chooses.
THEOREM CoverageExact ==
    ASSUME NEW k \in [g : Nat, b : Nat, stride : Nat \ {0}, guarded : BOOLEAN],
           NEW n \in Nat \ {0}
    PROVE  Covers(k, n) <=>
               \A e \in 0 .. n - 1 : \E j \in 0 .. Threads(k) - 1 : Adds(k, n, j, e)
<1> DEFINE T == k.g * k.b
           s == k.stride
<1>1. T \in Nat /\ s \in Nat \ {0} /\ Threads(k) = T
  BY DEF Threads
<1>2. ASSUME T >= n, NEW e \in 0 .. n - 1
      PROVE  \E j \in 0 .. T - 1 : Adds(k, n, j, e)
  <2>1. e \in 0 .. T - 1 /\ e = e + 0 * s /\ 0 * s < n
    BY <1>1, <1>2
  <2> QED
    BY <2>1 DEF Adds
<1>3. ASSUME T >= s, NEW e \in 0 .. n - 1
      PROVE  \E j \in 0 .. T - 1 : Adds(k, n, j, e)
  <2> DEFINE q == e \div s
             r == e % s
  <2> HIDE DEF s, T
  <2>1. q \in Nat /\ r \in 0 .. s - 1 /\ e = r + q * s
    BY <1>1
  <2>2. q * s < n
    <3>1. q * s \in Nat
      BY <1>1, <2>1
    <3> QED
      BY <2>1, <3>1
  <2>3. r \in 0 .. T - 1
    BY <1>1, <1>3, <2>1
  <2> QED
    BY <2>1, <2>2, <2>3 DEF Adds, s
<1>4. ASSUME T < s, T < n, NEW j \in 0 .. T - 1
      PROVE  ~Adds(k, n, j, T)
  <2>1. SUFFICES ASSUME NEW m \in Nat, T = j + m * s PROVE FALSE
    BY DEF Adds
  <2> HIDE DEF s, T
  <2>2. m # 0
    BY <1>1, <2>1
  <2>3. m * s >= s
    BY <1>1, <2>2, Multiples
  <2>4. m * s \in Nat
    BY <1>1
  <2> QED
    BY <1>1, <1>4, <2>1, <2>3, <2>4
<1>5. Covers(k, n) <=> T >= s \/ T >= n
  BY <1>1 DEF Covers
<1>6. T \in 0 .. n - 1 \/ T >= n
  BY <1>1
<1> HIDE DEF T, s
<1> QED
  BY <1>1, <1>2, <1>3, <1>4, <1>5, <1>6

-----------------------------------------------------------------------------

\* Every pair of grids[] and blocks[] covers the arrays, and every kernel is guarded.
LEMMA ConfigsCover ==
    \A j \in 1 .. 19 :
        /\ Covers(vec_add[j], ELEMENT_COUNT) /\ ~Overruns(vec_add[j], ELEMENT_COUNT)
        /\ Threads(vec_add[j]) # 0
  BY SMT DEF vec_add, Covers, Overruns, Threads, L, ELEMENT_COUNT

LEMMA FileLengths ==
    /\ Len(Launches["vec_add"]) = 19 /\ Launches["vec_add"] = vec_add
    /\ \A f \in Files : f # "vec_add" => Len(Launches[f]) = 1
<1>1. /\ Launches["vec_add"] = vec_add
      /\ Launches["Sample_vec_add"] = Sample_vec_add
      /\ Launches["old_vec_add"] = old_vec_add
      /\ Launches["vec_add_out_boundary"] = vec_add_out_boundary
      /\ Files = {"vec_add", "Sample_vec_add", "old_vec_add", "vec_add_out_boundary"}
  BY DEF Launches, Files
<1>2. Len(vec_add) = 19
  BY DEF vec_add
<1>3. Len(Sample_vec_add) = 1 /\ Len(old_vec_add) = 1 /\ Len(vec_add_out_boundary) = 1
  BY DEF Sample_vec_add, old_vec_add, vec_add_out_boundary
<1> QED
  BY <1>1, <1>2, <1>3

LEMMA InitIInv == Init => IInv
<1> SUFFICES ASSUME Init PROVE IInv
  OBVIOUS
<1>1. CASE file = "vec_add"
  BY <1>1, FileLengths DEF Init, IInv, TypeOK, OkMeansComputed, Ran
<1>2. CASE file # "vec_add"
  <2>1. file \in Files
    BY DEF Init
  <2>2. Len(Launches[file]) = 1
    BY <1>2, <2>1, FileLengths, Zenon
  <2> QED
    BY <1>2, <2>1, <2>2 DEF Init, IInv, TypeOK, OkMeansComputed, Ran
<1> QED
  BY <1>1, <1>2

LEMMA NextIInv == IInv /\ [Next]_vars => IInv'
<1> SUFFICES ASSUME IInv, [Next]_vars PROVE IInv'
  OBVIOUS
<1> USE DEF IInv, TypeOK, OkMeansComputed, Ran, Goto
<1>1. ASSUME NEW v \in {"A", "B", "C"}, NEW h, NEW l \in {"mallocB", "mallocC", "copyA"},
             h \in {"mallocA", "mallocB", "mallocC"}, Malloc(v, h, l)
      PROVE  IInv'
  BY <1>1 DEF Malloc, Succeeds, Fails
<1>2. ASSUME NEW v \in {"A", "B"}, NEW h, NEW l \in {"copyB", "test"},
             h \in {"copyA", "copyB"}, CopyIn(v, h, l)
      PROVE  IInv'
  BY <1>2 DEF CopyIn, Succeeds, Fails
<1>3. ASSUME Continue, pc \notin {"summary", "end"}, UNCHANGED file
      PROVE  /\ i' \in Nat \ {0} /\ pc' \in {"summary", "test"}
             /\ pc' # "summary" => i' \in 1 .. Len(Launches[file])
             /\ file # "vec_add" => i = 1
  <2>1. i \in 1 .. Len(Launches[file])
    BY <1>3
  <2>2. file = "vec_add" => Len(Launches[file]) = 19
    BY FileLengths, Zenon
  <2>3. file # "vec_add" => Len(Launches[file]) = 1
    BY FileLengths, Zenon
  <2> HIDE DEF IInv
  <2>4. file # "vec_add" => i = 1
    <3>1. ASSUME file # "vec_add" PROVE i \in 1 .. 1
      BY <2>1, <2>3, <3>1, Zenon
    <3> QED
      BY <3>1, SMT
  <2>5. i' = i + 1 /\ pc' = IF i = Len(Launches[file]) THEN "summary" ELSE "test"
    BY <1>3 DEF Continue
  <2>6. CASE i = Len(Launches[file])
    BY <2>1, <2>4, <2>5, <2>6, SMT
  <2>7. CASE i # Len(Launches[file])
    <3>1. Len(Launches[file]) \in Nat
      BY <2>2, <2>3, SMT
    <3>2. pc' = "test" /\ i' \in 1 .. Len(Launches[file])
      BY <2>1, <2>5, <2>7, <3>1, SMT
    <3> QED
      BY <2>4, <3>2, SMT
  <2> QED
    BY <2>6, <2>7
<1>4. CASE Skip
  BY <1>3, <1>4 DEF Skip, device, history
<1>5. CASE Memset
  BY <1>5 DEF Memset, Succeeds, Fails
<1>6. CASE NoMemset
  BY <1>6 DEF NoMemset, device, history
<1>7. CASE LaunchFails
  BY <1>7 DEF LaunchFails, Fails, Checked, device
<1>8. CASE NoLaunch
  <2>1. file # "vec_add"
    <3>2. i \in 1 .. Len(Launches[file])
      BY <1>8 DEF NoLaunch
    <3>3. file = "vec_add" => i \in 1 .. 19 /\ Now = vec_add[i]
      BY <3>2, FileLengths, Zenon DEF Now, Config
    <3> QED
      BY <1>8, <3>3, ConfigsCover, Zenon DEF NoLaunch
  <2> QED
    BY <1>8, <2>1 DEF NoLaunch, Checked, device, history
<1>9. CASE Kernel
  <2>1. file = "vec_add" => Covers(Now, Elements(file)) /\ ~Overruns(Now, Elements(file))
    <3>1. i \in 1 .. Len(Launches[file])
      BY <1>9 DEF Kernel
    <3>2. file = "vec_add" => i \in 1 .. 19 /\ Now = vec_add[i]
      BY <3>1, FileLengths, Zenon DEF Now, Config
    <3>3. file = "vec_add" => Elements(file) = ELEMENT_COUNT
      BY DEF Elements
    <3> QED
      BY <3>2, <3>3, ConfigsCover, Zenon
  <2>2. file # "vec_add" => i = 1
    <3>1. file # "vec_add" => Len(Launches[file]) = 1
      BY FileLengths, Zenon
    <3>2. i \in 1 .. Len(Launches[file])
      BY <1>9 DEF Kernel
    <3> HIDE DEF IInv
    <3>3. ASSUME file # "vec_add" PROVE i \in 1 .. 1
      BY <3>1, <3>2, <3>3, Zenon
    <3> QED
      BY <3>3, SMT
  <2>3. file # "vec_add" /\ vecC' = "sum" => i \in computed'
    BY <1>9, <2>2 DEF Kernel
  <2> QED
    BY <1>9, <2>1, <2>2, <2>3 DEF Kernel, Succeeds, Checked
<1>10. CASE KernelFails
  BY <1>10 DEF KernelFails, Checked
<1>11. CASE GetLastError
  BY <1>3, <1>11 DEF GetLastError, device, history
<1>12. CASE Synchronize
  BY <1>3, <1>12 DEF Synchronize, device, history
<1>13. CASE CopyBack
  BY <1>13 DEF CopyBack, Succeeds, Fails, device
<1>14. CASE check_result
  BY <1>3, <1>14 DEF check_result, device
<1>15. CASE Summary
  BY <1>15 DEF Summary, history
<1>16. CASE EventFails
  BY <1>16 DEF EventFails, device
<1>17. CASE UNCHANGED vars
  BY <1>17 DEF vars, device, history
<1> QED
  BY <1>1, <1>2, <1>4, <1>5, <1>6, <1>7, <1>8, <1>9, <1>10, <1>11, <1>12, <1>13, <1>14,
     <1>15, <1>16, <1>17 DEF Next

\* vec_add.cu and its relatives, for every device limit and any number of failing
\* calls: a configuration reported right did compute the whole sum.
THEOREM OkMeansComputedAlways == Spec => []OkMeansComputed
<1>1. IInv => OkMeansComputed
  BY DEF IInv
<1> QED
  BY InitIInv, NextIInv, <1>1, PTL DEF Spec

-----------------------------------------------------------------------------
(* Why a configuration is reported as failed. *)

\* A call of configuration j, or of the one tried before it, has failed, or a
\* kernel has.
Blamed(j) == j \in bad \/ Before(j) \in bad \/ sticky

\* The reasons FailureExplained admits for a configuration that was tried.
Excused(j) ==
    \/ Blamed(j) \/ filled # {"A", "B"}
    \/ Overruns(Config(j), Elements(file)) \/ Threads(Config(j)) = 0

\* The arrays are set up once, before the first configuration.
SettingUp == pc \in {"mallocA", "mallocB", "mallocC", "copyA", "copyB"}

\* FailureExplained is not inductive: it has to be known that the pending error is
\* one of this configuration or of the one tried before it, and that the sum is on
\* its way to check_result unless there is an excuse.
ExplainInv ==
    /\ FailureExplained
    /\ limit \in MaxThreads
    /\ SettingUp => i = 1 /\ (lastError => i \in bad)
    /\ file = "vec_add" =>
          /\ lastError /\ pc = "test" /\ limit >= 1 => sticky \/ Before(i) \in bad
          /\ lastError /\ pc \in {"launch", "getlasterror"} => Blamed(i)
          /\ ~SettingUp /\ pc \notin {"test", "summary", "end"} => Now.b <= limit
          /\ pc = "sync" => ~lastError
          /\ pc \in {"copyback", "check"} /\ lastError => i \in bad
    /\ pc \in {"getlasterror", "sync", "copyback"} => vecC = "sum" \/ Excused(i)
    /\ pc = "check" => result = "sum" \/ Excused(i)

\* The first configuration of vec_add.cu has one thread, the others no fewer.
LEMMA BlockSizes ==
    /\ vec_add[1].b = 1
    /\ \A j \in 1 .. 19 : vec_add[j].b \in Nat /\ vec_add[j].b >= 1
  BY SMT DEF vec_add, L

\* The launches of the other files cover their arrays, or there is none.
LEMMA OthersCover ==
    /\ Covers(Launches["Sample_vec_add"][1], ELEMENT_COUNT)
    /\ Threads(Launches["old_vec_add"][1]) = 0
    /\ Covers(Launches["vec_add_out_boundary"][1], 1000)
<1>1. /\ Launches["Sample_vec_add"] = Sample_vec_add
      /\ Launches["old_vec_add"] = old_vec_add
      /\ Launches["vec_add_out_boundary"] = vec_add_out_boundary
  BY DEF Launches
<1>2. Covers(Sample_vec_add[1], ELEMENT_COUNT)
  BY DEF Sample_vec_add, Covers, Threads, L, ELEMENT_COUNT
<1>3. Threads(old_vec_add[1]) = 0
  BY DEF old_vec_add, Threads, L
<1>4. Covers(vec_add_out_boundary[1], 1000)
  BY DEF vec_add_out_boundary, Covers, Threads, L
<1> QED
  BY <1>1, <1>2, <1>3, <1>4, Zenon

\* So every configuration that is launched covers the arrays.
LEMMA LaunchedCovers ==
    ASSUME IInv, pc \notin {"summary", "end"}
    PROVE  /\ Covers(Now, Elements(file)) \/ Threads(Now) = 0
           /\ file = "vec_add" => Now.b \in Nat /\ Now.b >= 1
<1>1. file \in Files /\ i \in 1 .. Len(Launches[file])
  BY DEF IInv, TypeOK
<1>2. CASE file = "vec_add"
  <2>1. i \in 1 .. 19 /\ Now = vec_add[i]
    BY <1>1, <1>2, FileLengths, Zenon DEF Now, Config
  <2>2. Elements(file) = ELEMENT_COUNT
    BY <1>2 DEF Elements
  <2> QED
    BY <2>1, <2>2, ConfigsCover, BlockSizes, Zenon
<1>3. CASE file # "vec_add"
  <2>1. i \in 1 .. 1
    BY <1>1, <1>3, FileLengths, Zenon
  <2>2. i = 1
    BY <2>1, SMT
  <2>3. Now = Launches[file][1]
    BY <2>2 DEF Now, Config
  <2>4. file \in {"Sample_vec_add", "old_vec_add", "vec_add_out_boundary"}
    BY <1>1, <1>3 DEF Files, Launches
  <2>5. Elements(file) = IF file = "vec_add_out_boundary" THEN 1000 ELSE ELEMENT_COUNT
    BY DEF Elements
  <2>6. CASE file = "Sample_vec_add"
    BY <1>3, <2>3, <2>5, <2>6, OthersCover
  <2>7. CASE file = "old_vec_add"
    BY <1>3, <2>3, <2>7, OthersCover
  <2>8. CASE file = "vec_add_out_boundary"
    BY <1>3, <2>3, <2>5, <2>8, OthersCover
  <2> QED
    BY <2>4, <2>6, <2>7, <2>8
<1> QED
  BY <1>2, <1>3

\* Nothing is tried before the first configuration.
LEMMA BeforeFirst == Before(1) = 1
<1>1. {m \in 1 .. 1 - 1 : Config(m).b <= limit} = {}
  OBVIOUS
<1> QED
  BY <1>1 DEF Before

\* What was tried before the configuration after j, when j was tried.
LEMMA BeforeTried ==
    ASSUME NEW j \in Nat \ {0}, Config(j).b <= limit
    PROVE  Before(j + 1) = j
<1> DEFINE S == {m \in 1 .. (j + 1) - 1 : Config(m).b <= limit}
<1>1. j \in S /\ \A l \in S : l \in Nat /\ l <= j
  OBVIOUS
<1>2. \A m \in S : (\A l \in S : l <= m) => m = j
  BY <1>1
<1> HIDE DEF S
<1>3. (CHOOSE m \in S : \A l \in S : l <= m) = j
  BY <1>1, <1>2
<1> QED
  BY <1>1, <1>3 DEF Before, S

\* And when j was skipped.
LEMMA BeforeSkipped ==
    ASSUME file = "vec_add", NEW j \in 1 .. 18, limit \in Nat, limit >= 1,
           Config(j).b > limit
    PROVE  Before(j + 1) = Before(j)
<1> DEFINE S(k) == {m \in 1 .. k - 1 : Config(m).b <= limit}
<1>0. \A k \in 1 .. 19 : Config(k) = vec_add[k]
  BY FileLengths, Zenon DEF Config
<1>1. Config(1).b = 1 /\ Config(j).b \in Nat
  BY <1>0, BlockSizes
<1>2. j # 1 /\ 1 \in S(j)
  BY <1>1
<1>3. S(j + 1) = S(j)
  <2>1. \A m \in 1 .. (j + 1) - 1 : m \in 1 .. j - 1 \/ m = j
    OBVIOUS
  <2>2. ~(Config(j).b <= limit)
    BY <1>1
  <2>3. \A m \in 1 .. j - 1 : m \in 1 .. (j + 1) - 1
    OBVIOUS
  <2>4. j \notin 1 .. j - 1
    OBVIOUS
  <2> QED
    BY <2>1, <2>2, <2>3, <2>4
<1>4. \A k \in Nat : Before(k) = IF S(k) = {} THEN k ELSE CHOOSE m \in S(k) : \A l \in S(k) : l <= m
  BY DEF Before
<1> HIDE DEF S
<1>5. j \in Nat /\ j + 1 \in Nat
  OBVIOUS
<1> QED
  BY <1>2, <1>3, <1>4, <1>5

\* An excuse stays one: failures are not taken back.
LEMMA ExcuseStays ==
    ASSUME UNCHANGED <<file, limit>>, bad \subseteq bad', sticky => sticky', NEW j
    PROVE  /\ Before(j)' = Before(j) /\ Config(j)' = Config(j)
           /\ Blamed(j) => Blamed(j)'
           /\ filled' = filled /\ Excused(j) => Excused(j)'
<1>1. Before(j)' = Before(j) /\ Config(j)' = Config(j)
  BY DEF Before, Config
<1>2. Blamed(j) => Blamed(j)'
  BY <1>1, Zenon DEF Blamed
<1>3. Overruns(Config(j), Elements(file))' <=> Overruns(Config(j), Elements(file))
  BY <1>1 DEF Overruns, Elements, Threads
<1>4. Threads(Config(j))' = Threads(Config(j))
  BY <1>1 DEF Threads
<1> QED
  BY <1>1, <1>2, <1>3, <1>4, Zenon DEF Excused

\* The same of the configuration that is being tried.
LEMMA ExcuseStaysNow ==
    ASSUME UNCHANGED <<file, limit, i>>, bad \subseteq bad', sticky => sticky'
    PROVE  /\ Now' = Now /\ Before(i)' = Before(i)
           /\ Blamed(i) => Blamed(i)'
           /\ filled' = filled /\ Excused(i) => Excused(i)'
<1>1. Before(i)' = Before(i) /\ Now' = Now /\ Config(i)' = Config(i)
  BY DEF Before, Config, Now
<1>2. Blamed(i) => Blamed(i)'
  BY <1>1, Zenon DEF Blamed
<1>3. Overruns(Config(i), Elements(file))' <=> Overruns(Config(i), Elements(file))
  BY <1>1 DEF Overruns, Elements, Threads
<1>4. Threads(Config(i))' = Threads(Config(i))
  BY <1>1 DEF Threads
<1> QED
  BY <1>1, <1>2, <1>3, <1>4, Zenon DEF Excused

\* What is said of the configurations before i stays true.
LEMMA ExplainedStays ==
    ASSUME FailureExplained, UNCHANGED <<file, limit, i>>, bad \subseteq bad',
           sticky => sticky', ok \subseteq ok', filled' = filled \/ i = 1
    PROVE  FailureExplained'
<1> SUFFICES ASSUME NEW j \in 1 .. i - 1
             PROVE  j \in ok' \/ Excused(j)' \/ (file = "vec_add" /\ Config(j).b > limit)'
  BY DEF FailureExplained, Excused, Blamed
<1>1. filled' = filled
  OBVIOUS
<1>2. j \in ok \/ Excused(j) \/ (file = "vec_add" /\ Config(j).b > limit)
  BY DEF FailureExplained, Excused, Blamed
<1> QED
  BY <1>1, <1>2, ExcuseStays

\* On to the next configuration, or to the summary.
LEMMA ExplainContinue ==
    ASSUME IInv, ExplainInv, Continue, pc \in {"test", "getlasterror", "sync", "check"},
           UNCHANGED <<file, limit, filled, bad, sticky>>, ok \subseteq ok',
           i \in ok' \/ Excused(i) \/ (file = "vec_add" /\ Now.b > limit),
           file = "vec_add" /\ lastError' =>
               \/ sticky \/ (i \in bad /\ Now.b <= limit)
               \/ lastError /\ pc = "test" /\ Now.b > limit
    PROVE  ExplainInv'
<1>1. /\ i \in Nat \ {0} /\ i' = i + 1 /\ pc' \in {"summary", "test"}
      /\ pc' = "test" => i # Len(Launches[file])
      /\ i \in 1 .. Len(Launches[file])
  BY DEF IInv, TypeOK, Continue, Goto
<1>2. FailureExplained'
  <2> SUFFICES ASSUME NEW j \in 1 .. i' - 1
               PROVE  j \in ok' \/ Excused(j)' \/ (file = "vec_add" /\ Config(j).b > limit)'
    BY DEF FailureExplained, Excused, Blamed
  <2>1. j \in 1 .. i - 1 \/ j = i
    BY <1>1
  <2>2. j \in ok' \/ Excused(j) \/ (file = "vec_add" /\ Config(j).b > limit)
    <3>1. CASE j \in 1 .. i - 1
      BY <3>1 DEF ExplainInv, FailureExplained, Excused, Blamed
    <3>2. CASE j = i
      BY <3>2 DEF Now
    <3> QED
      BY <2>1, <3>1, <3>2
  <2> QED
    BY <2>2, ExcuseStays
<1>3. ASSUME file = "vec_add", lastError', pc' = "test", limit >= 1
      PROVE  sticky \/ Before(i + 1) \in bad
  <2>1. Len(Launches[file]) = 19
    BY <1>3, FileLengths, Zenon
  <2>2. i \in 1 .. 18 /\ limit \in Nat
    <3>1. i \in 1 .. 19 /\ i # 19
      BY <1>1, <1>3, <2>1, Zenon
    <3> QED
      BY <3>1, ConstantAssumption DEF ExplainInv
  <2>3. CASE i \in bad /\ Now.b <= limit
    BY <1>1, <2>3, BeforeTried DEF Now
  <2>4. CASE lastError /\ pc = "test" /\ Now.b > limit
    <3>1. Before(i + 1) = Before(i)
      BY <1>3, <2>2, <2>4, BeforeSkipped DEF Now
    <3> QED
      BY <1>3, <2>4, <3>1 DEF ExplainInv
  <2> QED
    BY <1>3, <2>3, <2>4
<1>4. Before(i)' = Before(i + 1)
  BY <1>1 DEF Before, Config
<1>5. limit' \in MaxThreads /\ ~SettingUp'
  BY <1>1 DEF ExplainInv, SettingUp
<1>6. (lastError /\ limit >= 1 => sticky \/ Before(i) \in bad)' \/ file # "vec_add" \/ pc' # "test"
  BY <1>3, <1>4
<1> QED
  BY <1>1, <1>2, <1>5, <1>6 DEF ExplainInv

LEMMA ExplainStep == IInv /\ ExplainInv /\ [Next]_vars => ExplainInv'
<1> SUFFICES ASSUME IInv, ExplainInv, [Next]_vars PROVE ExplainInv'
  OBVIOUS
<1> USE DEF Goto
<1>0. ASSUME UNCHANGED <<file, limit, i>>, bad \subseteq bad', sticky => sticky',
             ok \subseteq ok', filled' = filled \/ i = 1
      PROVE  /\ FailureExplained' /\ limit' \in MaxThreads
             /\ Now' = Now /\ Before(i)' = Before(i) /\ (Blamed(i) => Blamed(i)')
             /\ filled' = filled /\ Excused(i) => Excused(i)'
             /\ i \in bad' => Blamed(i)' /\ Excused(i)'
             /\ sticky' => Blamed(i)' /\ Excused(i)'
  BY <1>0, ExcuseStaysNow, ExplainedStays DEF ExplainInv, Blamed, Excused
<1>1. ASSUME NEW v \in {"A", "B", "C"}, NEW h, NEW l \in {"mallocB", "mallocC", "copyA"},
             h \in {"mallocA", "mallocB", "mallocC"}, Malloc(v, h, l)
      PROVE  ExplainInv'
  BY <1>0, <1>1 DEF Malloc, Succeeds, Fails, ExplainInv, SettingUp
<1>2. ASSUME NEW v \in {"A", "B"}, NEW h, NEW l \in {"copyB", "test"},
             h \in {"copyA", "copyB"}, CopyIn(v, h, l)
      PROVE  ExplainInv'
  <2>1. i = 1 /\ i' = i /\ ok' = ok /\ bad \subseteq bad' /\ UNCHANGED <<file, limit, sticky>>
    BY <1>2 DEF CopyIn, Succeeds, Fails, ExplainInv, SettingUp
  <2>2. Before(i) = i
    BY <2>1, BeforeFirst
  <2> QED
    BY <1>0, <1>2, <2>1, <2>2 DEF CopyIn, Succeeds, Fails, ExplainInv, SettingUp
<1>4. CASE Skip
  BY <1>4, ExplainContinue DEF Skip, device, history
<1>5. CASE Memset
  <2>1. limit >= 1
    <3>1. Now.b \in Nat /\ Now.b >= 1 /\ Now.b <= limit /\ limit \in Nat
      BY <1>5, LaunchedCovers, ConstantAssumption DEF Memset, ExplainInv
    <3> QED
      BY <3>1
  <2>2. lastError => Blamed(i)
    BY <1>5, <2>1 DEF Memset, ExplainInv, Blamed
  <2> QED
    BY <1>0, <1>5, <2>2 DEF Memset, Succeeds, Fails, ExplainInv, SettingUp
<1>6. CASE NoMemset
  BY <1>0, <1>6 DEF NoMemset, device, history, ExplainInv, SettingUp
<1>7. CASE LaunchFails
  BY <1>0, <1>7 DEF LaunchFails, Fails, Checked, device, ExplainInv, SettingUp
<1>8. CASE NoLaunch
  BY <1>0, <1>8
  DEF NoLaunch, Checked, device, history, ExplainInv, SettingUp, Excused, Now
<1>9. CASE Kernel
  <2>1. vecC' = "sum" \/ Excused(i)
    <3>1. Covers(Now, Elements(file))
      BY <1>9, LaunchedCovers DEF Kernel
    <3> QED
      BY <1>9, <3>1 DEF Kernel, Excused, Now
  <2> QED
    BY <1>0, <1>9, <2>1 DEF Kernel, Succeeds, Checked, ExplainInv, SettingUp
<1>10. CASE KernelFails
  BY <1>0, <1>10 DEF KernelFails, Checked, ExplainInv, SettingUp
<1>11. CASE GetLastError
  <2>1. CASE (lastError \/ sticky) /\ Continue /\ lastError' = FALSE
    <3>1. file = "vec_add" /\ Excused(i)
      BY <1>11, <2>1 DEF GetLastError, IInv, ExplainInv, Excused, Blamed
    <3> QED
      BY <1>11, <2>1, <3>1, ExplainContinue DEF GetLastError, device, history
  <2>2. CASE ~lastError /\ pc' = "sync" /\ UNCHANGED <<i, lastError>>
    BY <1>0, <1>11, <2>2 DEF GetLastError, device, history, ExplainInv, SettingUp
  <2> QED
    BY <1>11, <2>1, <2>2 DEF GetLastError
<1>12. CASE Synchronize
  <2>1. CASE sticky
    BY <1>12, <2>1, ExplainContinue DEF Synchronize, device, history, Excused, Blamed
  <2>2. CASE ~sticky
    BY <1>0, <1>12, <2>2 DEF Synchronize, device, history, ExplainInv, SettingUp
  <2> QED
    BY <2>1, <2>2
<1>13. CASE CopyBack
  BY <1>0, <1>13 DEF CopyBack, Succeeds, Fails, device, ExplainInv, SettingUp
<1>14. CASE check_result
  <2>1. i \in ok' \/ Excused(i)
    BY <1>14 DEF check_result, ExplainInv
  <2>2. file = "vec_add" => Now.b <= limit /\ (lastError => i \in bad)
    BY <1>14 DEF check_result, ExplainInv, SettingUp
  <2> QED
    BY <1>14, <2>1, <2>2, ExplainContinue DEF check_result, device
<1>15. CASE Summary
  BY <1>0, <1>15 DEF Summary, history, ExplainInv, SettingUp
<1>16. CASE EventFails
  <2>1. CASE pc = "test"
    <3>1. bad' = bad \cup {Before(i)} /\ UNCHANGED <<file, limit, i, sticky, ok, pc, filled>>
      BY <1>16, <2>1 DEF EventFails, device
    <3>2. FailureExplained' /\ Now' = Now /\ Before(i)' = Before(i) /\ Before(i) \in bad'
      BY <1>0, <3>1
    <3> QED
      BY <2>1, <3>1, <3>2 DEF ExplainInv, SettingUp
  <2>2. CASE pc # "test"
    BY <1>0, <1>16, <2>2 DEF EventFails, device, ExplainInv, SettingUp
  <2> QED
    BY <2>1, <2>2
<1>17. CASE UNCHANGED vars
  BY <1>0, <1>17 DEF vars, device, history, ExplainInv, SettingUp
<1> QED
  BY <1>1, <1>2, <1>4, <1>5, <1>6, <1>7, <1>8, <1>9, <1>10, <1>11, <1>12, <1>13, <1>14,
     <1>15, <1>16, <1>17 DEF Next

\* A configuration reported as failed is explained by a call that failed in it or in
\* the one tried before it, by a missing input, by a kernel that failed for good, or
\* by what the file launches: cudaGetLastError (vec_add.cu) carries an error over to
\* the next configuration tried, and no further, whatever the device's limit is.
THEOREM FailureExplainedAlways == Spec => []FailureExplained
<1>1. Init => ExplainInv
  BY DEF Init, ExplainInv, FailureExplained, SettingUp
<1>2. ExplainInv => FailureExplained
  BY DEF ExplainInv
<1> QED
  BY <1>1, <1>2, InitIInv, NextIInv, ExplainStep, PTL DEF Spec
=============================================================================
