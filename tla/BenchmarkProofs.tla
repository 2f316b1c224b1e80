--------------------------- MODULE BenchmarkProofs ---------------------------
(***************************************************************************)
(* Benchmark.tla: the barrier of the threads, the file of metrics and the  *)
(* state of the database while filters are measured, for any number of     *)
(* threads, keys and queries and any list of benchmarks.                   *)
(***************************************************************************)
EXTENDS Benchmark, BasicFacts

-----------------------------------------------------------------------------
(* The inductive invariant.                                                *)

\* The main thread has a benchmark that it has not given back.
Busy == main \in {"starting", "await_start", "await_done", "report"}
Started == {t \in Tids : at[t] # "none"}
Initialized == {t \in Tids : at[t] \notin {"none", "begin"}}
Gone == {t \in Tids : at[t] = "gone"}

\* The counters of SharedState count; nobody runs before start, and start
\* means that all are there.
ThreadsInv ==
    /\ main = "next" => \A t \in Tids : at[t] = "none"
    /\ Busy =>
         /\ ran >= 1 /\ name \in Names /\ total \in 1..(Threads + 1)
         /\ num_initialized = Cardinality(Initialized)
         /\ num_done = Cardinality(Gone)
         /\ start <=> main \in {"await_done", "report"}
         /\ main # "starting" => Started = 0..(total - 1)
         /\ main = "starting" => \E k \in 0..(total - 1) : Started = 0..(k - 1)
         /\ start => Initialized = 0..(total - 1)
         /\ ~start => \A t \in Tids : at[t] \in {"none", "begin", "waiting"}
         /\ main = "report" => Gone = 0..(total - 1)
         /\ \A t \in Tids : at[t] \in {"got", "line"} =>
              todo[t] > 0 /\ name \in Reading \cup {"readwhilewriting"}
    /\ ThreadsTogether

\* The numbers of lines, and of lines to come, are all different.
NumbersInv ==
    /\ \A i \in 1..Len(lines) : lines[i].query_id < next_query_id /\ lines[i].run <= ran
    /\ \A i, j \in 1..Len(lines) : lines[i].query_id = lines[j].query_id => i = j
    /\ \A t \in Tids : at[t] = "line" =>
         /\ pending[t].query_id < next_query_id
         /\ \A i \in 1..Len(lines) : lines[i].query_id # pending[t].query_id
         /\ \A u \in Tids : u # t /\ at[u] = "line" =>
              pending[u].query_id # pending[t].query_id

\* The lines of a file that are of one run.
LinesIn(file, n) == {i \in 1..Len(file) : file[i].run = n}
LinesOfRun == LinesIn(lines, ran)

\* What the threads of a read benchmark counted are the lines of this
\* benchmark and what was lost.
AccountsInv ==
    /\ main = "next" => done = [t \in Tids |-> 0]
    /\ Busy /\ name \in Reading \cup {"readwhilewriting"} =>
         Merged(done)[total] = Cardinality(LinesOfRun) + lost

\* Nothing was written since the compaction: what there is, is in tables.
FiltersInv ==
    /\ ~written => mem = NoEntries
    /\ FiltersAreTested

BenchmarkInv == TypeOK /\ ThreadsInv /\ NumbersInv /\ AccountsInv /\ FiltersInv
-----------------------------------------------------------------------------
(* What the threads did, added up.                                         *)

\* A sum that begins with nothing and adds what each did to it.
SumsUp(sum, count, n) ==
    /\ sum \in [0..n -> Int] /\ sum[0] = 0
    /\ \A i \in 0..n : i > 0 => sum[i] = sum[i - 1] + count[i - 1]

\* There is such a sum, up to any number of threads.
LEMMA SumExists ==
    ASSUME NEW count \in [Tids -> Int], NEW n \in 0..(Threads + 1)
    PROVE  \E sum \in [0..n -> Int] : SumsUp(sum, count, n)
  <1> DEFINE Without == {m \in 0..(Threads + 1) :
                            ~ \E sum \in [0..m -> Int] : SumsUp(sum, count, m)}
  <1>1. SUFFICES ASSUME Without # {}
                 PROVE  FALSE
    OBVIOUS
  <1>2. Threads \in Nat
    BY BenchmarkAssumption
  <1>3. PICK m \in Without : \A k \in Without : m <= k
    <2>1. Without \in SUBSET Nat
      BY <1>2
    <2> HIDE DEF Without
    <2> QED
      BY <1>1, <2>1, LeastNatural
  <1>4. m \in 0..(Threads + 1) /\ ~ \E sum \in [0..m -> Int] : SumsUp(sum, count, m)
    OBVIOUS
  <1>5. CASE m = 0
    <2>1. SumsUp([i \in 0..m |-> 0], count, m)
      BY <1>5 DEF SumsUp
    <2> QED
      BY <1>4, <2>1
  <1>6. CASE m > 0
    <2>1. m - 1 \in 0..(Threads + 1) /\ m - 1 \notin Without /\ m - 1 \in Tids
      <3>1. m - 1 \in 0..(Threads + 1) /\ m - 1 < m /\ m - 1 \in Tids
        BY <1>2, <1>4, <1>6 DEF Tids
      <3>2. m - 1 \notin Without
        <4> HIDE DEF Without
        <4> QED
          BY <1>2, <1>3, <1>4, <3>1
      <3> QED
        BY <3>1, <3>2
    <2>2. PICK sum \in [0..(m - 1) -> Int] : SumsUp(sum, count, m - 1)
      BY <2>1
    <2> DEFINE more == [i \in 0..m |-> IF i = m THEN sum[m - 1] + count[m - 1] ELSE sum[i]]
    <2>3. count[m - 1] \in Int /\ sum[m - 1] \in Int
      BY <1>2, <1>4, <1>6, <2>1
    <2>4. \A i \in 0..m : i # m => i \in 0..(m - 1)
      BY <1>2, <1>4
    <2>5. more \in [0..m -> Int] /\ more[0] = 0
      <3>1. \A i \in 0..m : more[i] \in Int
        BY <2>3, <2>4
      <3>2. 0 \in 0..m /\ 0 # m
        BY <1>2, <1>4, <1>6
      <3>3. sum[0] = 0
        BY <2>2 DEF SumsUp
      <3> QED
        BY <3>1, <3>2, <3>3
    <2>6. \A i \in 0..m : i > 0 => more[i] = more[i - 1] + count[i - 1]
      <3> TAKE i \in 0..m
      <3> HAVE i > 0
      <3>1. i - 1 \in 0..m /\ i - 1 # m
        BY <1>2, <1>4
      <3>2. more[i - 1] = sum[i - 1]
        BY <3>1
      <3>3. i # m => sum[i] = sum[i - 1] + count[i - 1]
        BY <2>2, <2>4 DEF SumsUp
      <3> QED
        BY <3>2, <3>3
    <2>7. SumsUp(more, count, m)
      <3> HIDE DEF more
      <3> QED
        BY <2>5, <2>6 DEF SumsUp
    <2> QED
      BY <1>4, <2>5, <2>7
  <1> QED
    BY <1>2, <1>4, <1>5, <1>6

\* Merged is that sum.
LEMMA MergedSums ==
    ASSUME NEW count \in [Tids -> Int]
    PROVE  SumsUp(Merged(count), count, Threads + 1)
  <1> DEFINE R(g) == [n \in 0..(Threads + 1) |->
                         IF n = 0 THEN 0 ELSE g[n - 1] + count[n - 1]]
  <1>1. Threads \in Nat /\ Threads + 1 \in 0..(Threads + 1)
    BY BenchmarkAssumption
  <1>2. PICK sum \in [0..(Threads + 1) -> Int] : SumsUp(sum, count, Threads + 1)
    BY <1>1, SumExists
  <1>3. sum = R(sum)
    <2>1. \A n \in 0..(Threads + 1) : n # 0 => n > 0
      BY <1>1
    <2>2. \A n \in 0..(Threads + 1) : sum[n] = R(sum)[n]
      BY <1>2, <2>1 DEF SumsUp
    <2> QED
      BY <2>2
  <1>4. Merged(count) = CHOOSE g : g = R(g)
    BY Zenon DEF Merged
  <1>5. Merged(count) = R(Merged(count))
    <2> HIDE DEF R
    <2> QED
      BY <1>3, <1>4
  <1> DEFINE merged == Merged(count)
  <1>6. merged = R(merged)
    BY <1>5
  <1> HIDE DEF merged
  <1>7. /\ merged[0] = 0
        /\ \A n \in 0..(Threads + 1) : n > 0 => merged[n] = merged[n - 1] + count[n - 1]
    <2>1. \A n \in 0..(Threads + 1) :
            merged[n] = IF n = 0 THEN 0 ELSE merged[n - 1] + count[n - 1]
      BY <1>6
    <2> QED
      BY <1>1, <2>1
  <1>8. merged = [n \in 0..(Threads + 1) |-> merged[n]]
    BY <1>6
  <1>9. \A n \in 0..(Threads + 1) : merged[n] = sum[n]
    <2> DEFINE Other == {n \in 0..(Threads + 1) : merged[n] # sum[n]}
    <2>1. SUFFICES ASSUME Other # {}
                   PROVE  FALSE
      OBVIOUS
    <2>2. PICK m \in Other : \A k \in Other : m <= k
      <3>1. Other \in SUBSET Nat
        BY <1>1
      <3> HIDE DEF Other
      <3> QED
        BY <2>1, <3>1, LeastNatural
    <2>3. m \in 0..(Threads + 1) /\ merged[m] # sum[m]
      OBVIOUS
    <2>4. m > 0
      BY <1>2, <1>7, <2>3 DEF SumsUp
    <2>5. m - 1 \in 0..(Threads + 1) /\ m - 1 < m
      BY <1>1, <2>3, <2>4
    <2>6. m - 1 \notin Other
      <3> HIDE DEF Other
      <3> QED
        BY <1>1, <2>2, <2>3, <2>5
    <2>7. merged[m - 1] = sum[m - 1]
      BY <2>5, <2>6
    <2> QED
      BY <1>2, <1>7, <2>3, <2>4, <2>7 DEF SumsUp
  <1>10. merged \in [0..(Threads + 1) -> Int]
    <2>1. \A n \in 0..(Threads + 1) : merged[n] \in Int
      BY <1>2, <1>9
    <2> QED
      BY <1>8, <2>1
  <1> QED
    BY <1>7, <1>10 DEF SumsUp, merged

\* Nothing done comes to nothing, and a step of a thread that is counted
\* adds one.
LEMMA MergedOneMore ==
    ASSUME NEW count \in [Tids -> Nat], NEW t \in Tids, NEW n \in 0..(Threads + 1), t < n
    PROVE  Merged([count EXCEPT ![t] = @ + 1])[n] = Merged(count)[n] + 1
  <1> DEFINE more == [count EXCEPT ![t] = @ + 1]
  <1>1. Threads \in Nat /\ t \in Nat /\ count \in [Tids -> Int] /\ more \in [Tids -> Int]
    BY BenchmarkAssumption DEF Tids
  <1>2. PICK before : before = Merged(count)
    OBVIOUS
  <1>3. PICK after : after = Merged(more)
    OBVIOUS
  <1>4. SumsUp(before, count, Threads + 1) /\ SumsUp(after, more, Threads + 1)
    <2> HIDE DEF more
    <2> QED
      BY <1>1, <1>2, <1>3, MergedSums
  <1> DEFINE Right(k) == after[k] = before[k] + (IF t < k THEN 1 ELSE 0)
             Wrong == {k \in 0..(Threads + 1) : ~Right(k)}
  <1>5. Wrong = {}
    <2>1. SUFFICES ASSUME Wrong # {}
                   PROVE  FALSE
      OBVIOUS
    <2>2. PICK m \in Wrong : \A k \in Wrong : m <= k
      <3>1. Wrong \in SUBSET Nat
        BY <1>1
      <3> HIDE DEF Wrong
      <3> QED
        BY <2>1, <3>1, LeastNatural
    <2>3. m \in 0..(Threads + 1) /\ ~Right(m)
      OBVIOUS
    <2>4. m > 0
      BY <1>1, <1>4, <2>3 DEF SumsUp
    <2>5. m - 1 \in 0..(Threads + 1) /\ m - 1 < m /\ m - 1 \in Tids
      BY <1>1, <2>3, <2>4 DEF Tids
    <2>6. m - 1 \notin Wrong
      <3> HIDE DEF Wrong
      <3> QED
        BY <1>1, <2>2, <2>3, <2>5
    <2>7. Right(m - 1)
      BY <2>5, <2>6
    <2>8. /\ after[m] = after[m - 1] + more[m - 1]
          /\ before[m] = before[m - 1] + count[m - 1]
          /\ before[m - 1] \in Int /\ count[m - 1] \in Int
      <3> HIDE DEF more
      <3> QED
        BY <1>1, <1>4, <2>3, <2>4, <2>5 DEF SumsUp
    <2>9. more[m - 1] = count[m - 1] + (IF m - 1 = t THEN 1 ELSE 0)
      BY <1>1, <2>5, <2>8
    <2> HIDE DEF more
    <2> QED
      BY <1>1, <2>3, <2>5, <2>7, <2>8, <2>9
  <1>6. n \notin Wrong
    BY <1>5
  <1>7. Right(n)
    BY <1>6
  <1> QED
    BY <1>2, <1>3, <1>7

LEMMA MergedNothing ==
    ASSUME NEW n \in 0..(Threads + 1)
    PROVE  Merged([t \in Tids |-> 0])[n] = 0
  <1> DEFINE count == [t \in Tids |-> 0]
  <1>1. Threads \in Nat /\ count \in [Tids -> Int]
    BY BenchmarkAssumption
  <1>2. PICK sum : sum = Merged(count)
    OBVIOUS
  <1>3. SumsUp(sum, count, Threads + 1)
    <2> HIDE DEF count
    <2> QED
      BY <1>1, <1>2, MergedSums
  <1> DEFINE Wrong == {k \in 0..(Threads + 1) : sum[k] # 0}
  <1>4. Wrong = {}
    <2>1. SUFFICES ASSUME Wrong # {}
                   PROVE  FALSE
      OBVIOUS
    <2>2. PICK m \in Wrong : \A k \in Wrong : m <= k
      <3>1. Wrong \in SUBSET Nat
        BY <1>1
      <3> HIDE DEF Wrong
      <3> QED
        BY <2>1, <3>1, LeastNatural
    <2>3. m \in 0..(Threads + 1) /\ sum[m] # 0
      OBVIOUS
    <2>4. m > 0
      BY <1>1, <1>3, <2>3 DEF SumsUp
    <2>5. m - 1 \in 0..(Threads + 1) /\ m - 1 < m /\ m - 1 \in Tids
      BY <1>1, <2>3, <2>4 DEF Tids
    <2>6. m - 1 \notin Wrong
      <3> HIDE DEF Wrong
      <3> QED
        BY <1>1, <2>2, <2>3, <2>5
    <2>7. sum[m - 1] = 0 /\ count[m - 1] = 0
      BY <2>5, <2>6
    <2>8. sum[m] = sum[m - 1] + count[m - 1]
      BY <1>3, <2>3, <2>4 DEF SumsUp
    <2> QED
      BY <2>3, <2>7, <2>8
  <1>5. n \notin Wrong
    BY <1>4
  <1>6. sum[n] = 0
    BY <1>5
  <1> QED
    BY <1>2, <1>6
-----------------------------------------------------------------------------
(* Type correctness.                                                       *)

\* CompactRange leaves types alone, and no memtable.
LEMMA CompactRangeTypes ==
    ASSUME TypeOK, CompactRange
    PROVE  /\ mem' = NoEntries /\ mem' \in [Keys -> {"none", "value", "deletion"}]
           /\ tables' \subseteq Keys /\ has_tables' \in BOOLEAN
           /\ tables' # {} => has_tables'
  <1>1. mem' = NoEntries /\ tables' = Present
        /\ has_tables' \in {has_tables \/ mem # NoEntries, Present # {}}
    BY DEF CompactRange
  <1>2. Present # {} => has_tables \/ mem # NoEntries
    <2>1. ASSUME NEW k \in Present, ~has_tables
          PROVE  mem # NoEntries
      <3>1. tables = {} /\ k \in Keys
        BY <2>1 DEF TypeOK, Present
      <3>2. mem[k] = "value" /\ NoEntries[k] = "none"
        BY <2>1, <3>1 DEF Present, NoEntries
      <3> QED
        BY <3>2
    <2> QED
      BY <2>1
  <1>3. has_tables' \in BOOLEAN
    BY <1>1 DEF TypeOK
  <1>4. Present \subseteq Keys /\ NoEntries \in [Keys -> {"none", "value", "deletion"}]
    BY DEF Present, NoEntries
  <1> QED
    BY <1>1, <1>2, <1>3, <1>4

\* How often a loop runs is a number.
LEMMA RoundsIsNumber == \A t \in Tids : Rounds(t) \in Nat
  BY BenchmarkAssumption DEF Rounds

\* The threads that are there, or have got to some place, are finitely many.
LEMMA ThreadsFinite ==
    /\ IsFiniteSet(Started) /\ IsFiniteSet(Initialized) /\ IsFiniteSet(Gone)
    /\ Gone \subseteq Initialized /\ Initialized \subseteq Started
  <1>1. IsFiniteSet(Tids)
    BY BenchmarkAssumption, FS_Interval DEF Tids
  <1>2. Started \subseteq Tids /\ Initialized \subseteq Tids /\ Gone \subseteq Tids
    BY DEF Started, Initialized, Gone
  <1> QED
    BY <1>1, <1>2, FS_Subset DEF Started, Initialized, Gone

\* The number of threads that are there is the place of the next one.
LEMMA CardinalityOfFirst ==
    ASSUME NEW k \in Nat
    PROVE  IsFiniteSet(0..(k - 1)) /\ Cardinality(0..(k - 1)) = k
  <1>1. k - 1 \in Int /\ 0 \in Int
    OBVIOUS
  <1>2. /\ IsFiniteSet(0..(k - 1))
        /\ Cardinality(0..(k - 1)) = IF 0 > k - 1 THEN 0 ELSE (k - 1) - 0 + 1
    BY <1>1, FS_Interval
  <1> QED
    BY <1>2

\* A set of threads among the first n, with another one of them, has no more
\* than n members.
LEMMA RoomForOne ==
    ASSUME NEW n \in Nat, NEW S \in SUBSET (0..(n - 1)), NEW t \in 0..(n - 1), t \notin S
    PROVE  /\ Cardinality(S \cup {t}) = Cardinality(S) + 1
           /\ Cardinality(S) \in Nat /\ Cardinality(S) + 1 <= n
  <1>1. IsFiniteSet(0..(n - 1)) /\ Cardinality(0..(n - 1)) = n
    BY CardinalityOfFirst
  <1>2. IsFiniteSet(S)
    BY <1>1, FS_Subset
  <1>3. Cardinality(S \cup {t}) = Cardinality(S) + 1 /\ Cardinality(S) \in Nat
    BY <1>2, FS_AddElement, FS_CardinalityType
  <1>4. Cardinality(S \cup {t}) <= n
    <2>1. S \cup {t} \subseteq 0..(n - 1)
      OBVIOUS
    <2> QED
      BY <1>1, <2>1, FS_Subset
  <1> QED
    BY <1>3, <1>4

\* A set of threads as large as that is all of them.
LEMMA AllAreThere ==
    ASSUME NEW n \in Nat, NEW S \in SUBSET (0..(n - 1)), Cardinality(S) >= n
    PROVE  S = 0..(n - 1)
  <1>1. IsFiniteSet(0..(n - 1)) /\ Cardinality(0..(n - 1)) = n
    BY CardinalityOfFirst
  <1>2. Cardinality(S) <= n /\ Cardinality(S) \in Nat
    BY <1>1, FS_Subset, FS_CardinalityType
  <1>3. Cardinality(S) = n
    BY <1>2
  <1> QED
    BY <1>1, <1>3, FS_Subset

\* A thread that has still to be initialised, and one that has still to end,
\* are not counted yet.
LEMMA CountersHaveRoom ==
    ASSUME TypeOK, ThreadsInv, Busy, NEW t \in Tids
    PROVE  /\ at[t] = "begin" => /\ Cardinality(Initialized \cup {t}) = num_initialized + 1
                                 /\ num_initialized + 1 <= total /\ ~start
           /\ at[t] \notin {"none", "begin", "waiting", "gone"} =>
                /\ Cardinality(Gone \cup {t}) = num_done + 1
                /\ num_done + 1 <= num_initialized /\ start
  <1>1. /\ total \in Nat /\ Started \subseteq 0..(total - 1)
    <2>1. total \in Nat
      <3>1. total \in 0..(Threads + 1) /\ Threads \in Nat
        BY BenchmarkAssumption DEF TypeOK
      <3> QED
        BY <3>1
    <2>2. CASE main # "starting"
      BY <2>1, <2>2 DEF ThreadsInv
    <2>3. CASE main = "starting"
      <3>1. PICK k \in 0..(total - 1) : Started = 0..(k - 1)
        BY <2>3 DEF ThreadsInv, Busy
      <3> QED
        BY <2>1, <3>1
    <2> QED
      BY <2>1, <2>2, <2>3
  <1>2. ASSUME at[t] = "begin"
        PROVE  /\ Cardinality(Initialized \cup {t}) = num_initialized + 1
               /\ num_initialized + 1 <= total /\ ~start
    <2>1. t \in Started /\ t \notin Initialized /\ Initialized \subseteq 0..(total - 1)
      BY <1>1, <1>2, ThreadsFinite DEF Started, Initialized
    <2>2. t \in 0..(total - 1)
      BY <1>1, <2>1
    <2>3. ~start
      BY <2>1, <2>2 DEF ThreadsInv
    <2>4. num_initialized = Cardinality(Initialized)
      BY DEF ThreadsInv
    <2>5. PICK S \in SUBSET (0..(total - 1)) : S = Initialized
      BY <2>1
    <2>6. t \notin S
      BY <2>1, <2>5
    <2>7. Cardinality(S \cup {t}) = Cardinality(S) + 1 /\ Cardinality(S) + 1 <= total
      BY <1>1, <2>2, <2>6, RoomForOne
    <2> QED
      BY <2>3, <2>4, <2>5, <2>7
  <1>3. ASSUME at[t] \notin {"none", "begin", "waiting", "gone"}
        PROVE  /\ Cardinality(Gone \cup {t}) = num_done + 1
               /\ num_done + 1 <= num_initialized /\ start
    <2>1. start
      BY <1>3 DEF ThreadsInv
    <2>2. Initialized = 0..(total - 1) /\ num_initialized = Cardinality(Initialized)
          /\ num_done = Cardinality(Gone)
      BY <2>1 DEF ThreadsInv
    <2>3. num_initialized = total
      BY <1>1, <2>2, CardinalityOfFirst
    <2>4. t \in 0..(total - 1) /\ t \notin Gone
      BY <1>3, <2>2 DEF Initialized, Gone
    <2>5. PICK S \in SUBSET (0..(total - 1)) : S = Gone
      BY <2>2, ThreadsFinite
    <2>6. t \notin S
      BY <2>4, <2>5
    <2>7. Cardinality(S \cup {t}) = Cardinality(S) + 1 /\ Cardinality(S) + 1 <= total
      BY <1>1, <2>4, <2>6, RoomForOne
    <2> QED
      BY <2>1, <2>2, <2>3, <2>5, <2>7
  <1> QED
    BY <1>2, <1>3

\* While a thread is somewhere, the main thread has its benchmark.
LEMMA BusyWithThreads ==
    ASSUME TypeOK, ThreadsInv, main # "exit", NEW t \in Tids, at[t] # "none"
    PROVE  Busy
  BY DEF TypeOK, ThreadsInv, Busy
\* A thread counts its rounds down, and what it did up.
LEMMA CountersMove ==
    ASSUME NEW count \in [Tids -> Nat], NEW t \in Tids
    PROVE  /\ [count EXCEPT ![t] = @ + 1] \in [Tids -> Nat]
           /\ count[t] > 0 => [count EXCEPT ![t] = @ - 1] \in [Tids -> Nat]
  <1>1. count[t] \in Nat
    OBVIOUS
  <1>2. count[t] + 1 \in Nat /\ (count[t] > 0 => count[t] - 1 \in Nat)
    BY <1>1
  <1> QED
    BY <1>2

\* Every step keeps the types.
LEMMA TypeStep ==
    ASSUME TypeOK, ThreadsInv, Next
    PROVE  TypeOK'
  <1> USE DEF vars, listVars, sharedVars, dbVars, metricsVars
  <1>1. Threads \in Nat /\ MaxBenchmarks \in Nat /\ MaxFailures \in Nat
    BY BenchmarkAssumption
  <1>2. ASSUME NEW b \in Names, NextBenchmark(b)
        PROVE  TypeOK'
    <2>1. /\ mem' \in [Keys -> {"none", "value", "deletion"}]
          /\ tables' \subseteq Keys /\ has_tables' \in BOOLEAN
          /\ tables' # {} => has_tables'
          /\ compacted_for_metrics' \in BOOLEAN /\ written' \in BOOLEAN
      <3>1. CASE /\ mem' = NoEntries /\ tables' = {} /\ has_tables' = FALSE
                 /\ UNCHANGED <<compacted_for_metrics, written>>
        BY <3>1 DEF TypeOK, NoEntries
      <3>2. CASE CompactRange /\ compacted_for_metrics' = TRUE /\ written' = FALSE
        BY <3>2, CompactRangeTypes
      <3>3. CASE UNCHANGED <<dbVars, compacted_for_metrics>>
        BY <3>3 DEF TypeOK
      <3> QED
        BY <1>2, <3>1, <3>2, <3>3 DEF NextBenchmark
    <2>2. /\ main' = "starting" /\ name' = b /\ ran' = ran + 1 /\ ran < MaxBenchmarks
          /\ total' \in {Threads, Threads + 1}
          /\ num_initialized' = 0 /\ num_done' = 0 /\ start' = FALSE /\ lost' = 0
          /\ UNCHANGED <<waiting, at, todo, done, next_query_id, pending, lines, torn, failures>>
      BY <1>2 DEF NextBenchmark
    <2>3. /\ ran' \in 0..MaxBenchmarks /\ total' \in 0..(Threads + 1)
          /\ num_done' \in 0..num_initialized' /\ num_initialized' \in 0..total'
      <3>1. ran \in 0..MaxBenchmarks
        BY DEF TypeOK
      <3> QED
        BY <1>1, <2>2, <3>1
    <2> QED
      BY <2>1, <2>2, <2>3 DEF TypeOK
  <1>3. ASSUME NEW t \in Tids, StartThread(t)
        PROVE  TypeOK'
    <2>1. /\ todo' = [todo EXCEPT ![t] = Rounds(t)] /\ at' = [at EXCEPT ![t] = "begin"]
          /\ main' \in {"await_start", main}
          /\ UNCHANGED <<listVars, sharedVars, done, dbVars, metricsVars>>
      BY <1>3 DEF StartThread, Goto
    <2>2. todo' \in [Tids -> Nat]
      BY <2>1, RoundsIsNumber DEF TypeOK
    <2>3. at' \in [Tids -> {"none", "begin", "waiting", "gone"} \cup Running]
      BY <2>1 DEF TypeOK
    <2> QED
      BY <2>1, <2>2, <2>3 DEF TypeOK
  <1>4. CASE AwaitStart \/ AwaitDone
    BY <1>4 DEF AwaitStart, AwaitDone, TypeOK
  <1>5. CASE Report \/ EndOfList
    <2>1. CASE Report
      <3>1. /\ main' = "next" /\ at' = [t \in Tids |-> "none"] /\ done' = [t \in Tids |-> 0]
            /\ UNCHANGED <<listVars, sharedVars, todo, dbVars, metricsVars>>
        BY <2>1 DEF Report
      <3>2. /\ at' \in [Tids -> {"none", "begin", "waiting", "gone"} \cup Running]
            /\ done' \in [Tids -> Nat]
        BY <3>1
      <3> QED
        BY <3>1, <3>2 DEF TypeOK
    <2>2. CASE EndOfList
      BY <2>2 DEF EndOfList, TypeOK
    <2> QED
      BY <1>5, <2>1, <2>2
  <1>6. ASSUME NEW t \in Tids, main # "exit", Initialize(t)
        PROVE  TypeOK'
    <2>1. num_initialized + 1 <= total
      BY <1>6, BusyWithThreads, CountersHaveRoom DEF Initialize
    <2>2. /\ num_initialized' = num_initialized + 1
          /\ \E place \in {"run", "waiting"} : at' = [at EXCEPT ![t] = place]
          /\ waiting' \in {{}, {} \cup {t}, waiting, waiting \cup {t}}
          /\ UNCHANGED <<main, listVars, total, num_done, start, todo, done, dbVars, metricsVars>>
      BY <1>6 DEF Initialize, Goto
    <2>3. at' \in [Tids -> {"none", "begin", "waiting", "gone"} \cup Running]
      BY <2>2 DEF TypeOK, Running
    <2>4. num_done' \in 0..num_initialized' /\ num_initialized' \in 0..total'
      <3>1. num_done \in 0..num_initialized /\ num_initialized \in 0..total
            /\ total \in 0..(Threads + 1)
        BY DEF TypeOK
      <3> QED
        BY <1>1, <2>1, <2>2, <3>1
    <2> QED
      BY <2>2, <2>3, <2>4 DEF TypeOK
  <1>7. ASSUME NEW t \in Tids, Proceed(t)
        PROVE  TypeOK'
    <2>1. /\ at' \in {at, [at EXCEPT ![t] = "run"]} /\ waiting' \in {waiting, waiting \cup {t}}
          /\ UNCHANGED <<main, listVars, total, num_initialized, num_done, start, todo, done,
                         dbVars, metricsVars>>
      BY <1>7 DEF Proceed, Goto
    <2> QED
      BY <2>1 DEF TypeOK, Running
  <1>8. ASSUME NEW t \in Tids, main # "exit", Finish(t)
        PROVE  TypeOK'
    <2>1. num_done + 1 <= num_initialized
      BY <1>8, BusyWithThreads, CountersHaveRoom DEF Finish
    <2>2. /\ num_done' = num_done + 1 /\ at' = [at EXCEPT ![t] = "gone"]
          /\ waiting' \in {{}, waiting}
          /\ UNCHANGED <<main, listVars, total, num_initialized, start, todo, done, dbVars,
                         metricsVars>>
      BY <1>8 DEF Finish, Goto
    <2>3. num_done' \in 0..num_initialized'
      <3>1. num_done \in 0..num_initialized /\ num_initialized \in 0..total
            /\ total \in 0..(Threads + 1)
        BY DEF TypeOK
      <3> QED
        BY <1>1, <2>1, <2>2, <3>1
    <2> QED
      BY <2>2, <2>3 DEF TypeOK
  <1>9. ASSUME NEW t \in Tids, Compact(t)
        PROVE  TypeOK'
    <2>1. /\ mem' \in [Keys -> {"none", "value", "deletion"}]
          /\ tables' \subseteq Keys /\ has_tables' \in BOOLEAN
          /\ tables' # {} => has_tables'
      BY <1>9, CompactRangeTypes DEF Compact
    <2>2. todo' = [todo EXCEPT ![t] = @ - 1] /\ todo[t] > 0
          /\ UNCHANGED <<main, listVars, sharedVars, at, done, written, metricsVars>>
      BY <1>9 DEF Compact
    <2>3. todo' \in [Tids -> Nat]
      BY <2>2, CountersMove DEF TypeOK
    <2> QED
      BY <2>1, <2>2, <2>3 DEF TypeOK
  <1>10. ASSUME NEW t \in Tids, WriterLooks(t)
         PROVE  TypeOK'
    <2>1. /\ \E place \in Running : at' = [at EXCEPT ![t] = place]
          /\ UNCHANGED <<main, listVars, sharedVars, todo, done, dbVars, metricsVars>>
      BY <1>10 DEF WriterLooks, Goto, Running
    <2> QED
      BY <2>1 DEF TypeOK
  <1>11. ASSUME NEW t \in Tids, TakeQueryId(t)
         PROVE  TypeOK'
    <2>1. /\ pending' = [pending EXCEPT ![t].query_id = next_query_id]
          /\ next_query_id' = next_query_id + 1 /\ at' = [at EXCEPT ![t] = "line"]
          /\ UNCHANGED <<main, listVars, sharedVars, todo, done, dbVars, lines, torn, failures,
                         lost>>
      BY <1>11 DEF TakeQueryId, Goto
    <2>2. next_query_id \in Nat /\ pending \in [Tids -> Events]
      BY DEF TypeOK
    <2>3. pending' \in [Tids -> Events]
      <3>1. [pending[t] EXCEPT !.query_id = next_query_id] \in Events
        BY <2>2 DEF Events
      <3> QED
        BY <2>1, <2>2, <3>1
    <2>4. next_query_id' \in Nat
      BY <2>1, <2>2
    <2> QED
      BY <2>1, <2>3, <2>4 DEF TypeOK, Running
  <1>12. ASSUME NEW t \in Tids, main # "exit", Record(t)
         PROVE  TypeOK'
    <2>1. Busy /\ todo[t] > 0 /\ ran \in 1..MaxBenchmarks
      <3>1. Busy /\ at[t] = "line"
        BY <1>12, BusyWithThreads DEF Record
      <3>2. todo[t] > 0 /\ ran >= 1
        BY <3>1 DEF ThreadsInv
      <3>3. ran \in 0..MaxBenchmarks
        BY DEF TypeOK
      <3> QED
        BY <1>1, <3>1, <3>2, <3>3
    <2> DEFINE line == [query_id |-> pending[t].query_id, run |-> ran]
               Line == [query_id : Nat, run : 1..MaxBenchmarks]
    <2>2. /\ pending' = [pending EXCEPT ![t] = NoEvent]
          /\ todo' = [todo EXCEPT ![t] = @ - 1] /\ done' = [done EXCEPT ![t] = @ + 1]
          /\ at' = [at EXCEPT ![t] = "run"]
          /\ UNCHANGED <<main, listVars, sharedVars, dbVars, next_query_id>>
          /\ WriteLine(line)
      BY <1>12 DEF Record, Goto
    <2>3. line \in Line
      BY <2>1 DEF TypeOK, Events
    <2>4. lines' \in Seq(Line) /\ torn' \in BOOLEAN /\ failures' \in 0..MaxFailures /\ lost' \in Nat
      <3>1. lines \in Seq(Line) /\ torn \in BOOLEAN /\ failures \in 0..MaxFailures /\ lost \in Nat
        BY DEF TypeOK
      <3>2. Append(lines, line) \in Seq(Line)
        BY <2>3, <3>1, MembersOfAppend
      <3> HIDE DEF line, Line
      <3>3. lines' \in {lines, Append(lines, line)} /\ torn' \in BOOLEAN
            /\ lost' \in {lost, lost + 1}
        BY <2>2, <3>1 DEF WriteLine
      <3>4. failures' = failures \/ (failures < MaxFailures /\ failures' = failures + 1)
        BY <2>2 DEF WriteLine
      <3> QED
        BY <1>1, <3>1, <3>2, <3>3, <3>4
    <2>5. pending' \in [Tids -> Events]
      BY <2>2 DEF TypeOK, NoEvent, Events
    <2>6. todo' \in [Tids -> Nat] /\ done' \in [Tids -> Nat]
      BY <2>1, <2>2, CountersMove DEF TypeOK
    <2>7. at' \in [Tids -> {"none", "begin", "waiting", "gone"} \cup Running]
      BY <2>2 DEF TypeOK, Running
    <2> QED
      BY <2>2, <2>4, <2>5, <2>6, <2>7 DEF TypeOK
  <1>13. ASSUME NEW t \in Tids, NEW k \in Keys, WriteKey(t, k)
         PROVE  TypeOK'
    <2>1. /\ \E entry \in {"value", "deletion"} : mem' = [mem EXCEPT ![k] = entry]
          /\ written' = TRUE /\ UNCHANGED <<tables, has_tables>>
          /\ todo' = [todo EXCEPT ![t] = @ - 1] /\ done' = [done EXCEPT ![t] = @ + 1]
          /\ todo[t] > 0
          /\ UNCHANGED <<main, listVars, sharedVars, at, metricsVars>>
      BY <1>13 DEF WriteKey, Put
    <2>2. todo' \in [Tids -> Nat] /\ done' \in [Tids -> Nat]
      BY <2>1, CountersMove DEF TypeOK
    <2> QED
      BY <2>1, <2>2 DEF TypeOK
  <1>14. ASSUME NEW t \in Tids, NEW k \in Keys, WriterPuts(t, k)
         PROVE  TypeOK'
    <2>1. /\ mem' = [mem EXCEPT ![k] = "value"] /\ at' = [at EXCEPT ![t] = "run"]
          /\ written' = TRUE /\ UNCHANGED <<tables, has_tables>>
          /\ UNCHANGED <<main, listVars, sharedVars, todo, done, metricsVars>>
      BY <1>14 DEF WriterPuts, Put, Goto
    <2> QED
      BY <2>1 DEF TypeOK, Running
  <1>15. ASSUME NEW t \in Tids, NEW asked \in Queries, Query(t, asked)
         PROVE  TypeOK'
    <2>1. PICK passed \in MayMatch(asked) : pending' = [pending EXCEPT ![t] =
             [query_id |-> 0, actual_match |-> asked \cap Present # {},
              counted |-> name # "seekrandom",
              filter_may_match |-> name # "seekrandom" /\ passed]]
      BY <1>15 DEF Query
    <2>2. passed \in BOOLEAN
      BY DEF MayMatch, TypeOK
    <2>3. [query_id |-> 0, actual_match |-> asked \cap Present # {},
           counted |-> name # "seekrandom",
           filter_may_match |-> name # "seekrandom" /\ passed] \in Events
      BY <2>2 DEF Events
    <2>4. pending' \in [Tids -> Events]
      BY <2>1, <2>3 DEF TypeOK
    <2>5. at' = [at EXCEPT ![t] = "got"]
          /\ UNCHANGED <<main, listVars, sharedVars, todo, done, dbVars, next_query_id, lines,
                         torn, failures, lost>>
      BY <1>15 DEF Query, Goto
    <2> QED
      BY <2>4, <2>5 DEF TypeOK, Running
  <1>16. ASSUME NEW t \in Tids, WriteError(t)
         PROVE  TypeOK'
    BY <1>16 DEF WriteError, TypeOK
  <1>17. ASSUME NEW flushed \in SUBSET Keys, Flush(flushed)
         PROVE  TypeOK'
    <2>1. /\ mem' = [k \in Keys |-> IF k \in flushed THEN "none" ELSE mem[k]]
          /\ tables' = (tables \ flushed) \cup {k \in flushed : mem[k] = "value"}
          /\ has_tables' = TRUE
          /\ UNCHANGED <<main, listVars, sharedVars, at, todo, done, written, metricsVars>>
      BY <1>17 DEF Flush
    <2>2. mem' \in [Keys -> {"none", "value", "deletion"}] /\ tables' \subseteq Keys
      BY <2>1 DEF TypeOK
    <2> QED
      BY <2>1, <2>2 DEF TypeOK
  <1>18. ASSUME NEW t \in waiting, SpuriousWakeup(t)
         PROVE  TypeOK'
    BY <1>18 DEF SpuriousWakeup, TypeOK
  <1>19. CASE UNCHANGED vars
    BY <1>19 DEF TypeOK
  <1> QED
    BY <1>2, <1>3, <1>4, <1>5, <1>6, <1>7, <1>8, <1>9, <1>10, <1>11, <1>12, <1>13, <1>14, <1>15,
       <1>16, <1>17, <1>18, <1>19 DEF Next, MainStep, ThreadStep
-----------------------------------------------------------------------------
(* The barrier.                                                            *)

\* What a step of a running thread does to the invariant: nothing.
LEMMA RunningThread ==
    ASSUME TypeOK, ThreadsInv, Busy, NEW t \in Tids, at[t] \in Running,
           NEW place \in Running, at' = [at EXCEPT ![t] = place],
           UNCHANGED <<main, name, ran, total, num_initialized, num_done, start>>,
           \A u \in Tids : u # t => todo'[u] = todo[u],
           place \in {"got", "line"} =>
              todo'[t] > 0 /\ name \in Reading \cup {"readwhilewriting"}
    PROVE  ThreadsInv'
  <1>1. at \in [Tids -> {"none", "begin", "waiting", "gone"} \cup Running]
    BY DEF TypeOK
  <1>2. /\ Running \cap {"none", "begin", "waiting", "gone"} = {}
        /\ \A u \in Tids : at'[u] = IF u = t THEN place ELSE at[u]
    BY <1>1 DEF Running
  <1>3. Busy' /\ Started' = Started /\ Initialized' = Initialized /\ Gone' = Gone
    BY <1>2 DEF Busy, Started, Initialized, Gone
  <1>4. start /\ (main = "report" => at[t] = "gone")
    <2>1. start
      BY <1>2 DEF ThreadsInv
    <2>2. main = "report" => t \in Gone
      <3>1. t \in Initialized
        BY <1>2 DEF Initialized
      <3> QED
        BY <2>1, <3>1 DEF ThreadsInv
    <2> QED
      BY <2>1, <2>2 DEF Gone
  <1>5. ThreadsTogether'
    <2>1. main # "report"
      BY <1>2, <1>4
    <2>2. \A u \in 0..(total - 1) : u \in Tids /\ at[u] \notin {"none", "begin"}
      BY <1>4 DEF ThreadsInv, Initialized
    <2>3. \A u \in 0..(total - 1) : at'[u] \notin {"none", "begin"}
      BY <1>2, <2>2
    <2> QED
      BY <2>1, <2>3 DEF ThreadsTogether
  <1>6. \A u \in Tids : at'[u] \in {"got", "line"} =>
           todo'[u] > 0 /\ name' \in Reading \cup {"readwhilewriting"}
    BY <1>2 DEF ThreadsInv
  <1>7. main # "next"
    BY DEF Busy
  <1> QED
    BY <1>3, <1>4, <1>5, <1>6, <1>7 DEF ThreadsInv

\* Every step of the main thread keeps the threads together ...
LEMMA MainKeepsThreads ==
    ASSUME TypeOK, TypeOK', ThreadsInv, MainStep
    PROVE  ThreadsInv'
  <1> USE DEF listVars, sharedVars, dbVars, metricsVars
  <1>1. Threads \in Nat \ {0}
    BY BenchmarkAssumption
  <1>2. total \in Nat
    <2>1. total \in 0..(Threads + 1)
      BY DEF TypeOK
    <2> QED
      BY <1>1, <2>1
  <1>3. ASSUME NEW b \in Names, NextBenchmark(b)
        PROVE  ThreadsInv'
    <2>1. /\ main = "next" /\ main' = "starting" /\ name' = b /\ ran' = ran + 1
          /\ total' = IF b = "readwhilewriting" THEN Threads + 1 ELSE Threads
          /\ num_initialized' = 0 /\ num_done' = 0 /\ start' = FALSE
          /\ at' = at /\ todo' = todo
      BY <1>3 DEF NextBenchmark
    <2>2. \A t \in Tids : at'[t] = "none"
      BY <2>1 DEF ThreadsInv
    <2>3. Started' = {} /\ Initialized' = {} /\ Gone' = {}
      BY <2>2 DEF Started, Initialized, Gone
    <2>4. total' \in 1..(Threads + 1)
      BY <1>1, <2>1
    <2>5. ran' >= 1
      <3>1. ran \in 0..MaxBenchmarks
        BY DEF TypeOK
      <3> QED
        BY <2>1, <3>1
    <2>6. Started' = 0..(0 - 1) /\ 0 \in 0..(total' - 1)
      <3>1. 0..(0 - 1) = {}
        OBVIOUS
      <3>2. \A n \in 1..(Threads + 1) : 0 \in 0..(n - 1)
        BY <1>1
      <3> QED
        BY <2>3, <2>4, <3>1, <3>2
    <2>7. num_initialized' = Cardinality(Initialized') /\ num_done' = Cardinality(Gone')
      BY <2>1, <2>3, FS_EmptySet
    <2>8. ThreadsTogether'
      <3>1. ~ \E t \in Tids : at'[t] \in Running
        BY <2>2 DEF Running
      <3> QED
        BY <2>1, <3>1 DEF ThreadsTogether
    <2> QED
      BY <2>1, <2>2, <2>4, <2>5, <2>6, <2>7, <2>8 DEF ThreadsInv, Busy
  <1>4. ASSUME NEW t \in Tids, StartThread(t)
        PROVE  ThreadsInv'
    <2>1. /\ main = "starting" /\ at' = [at EXCEPT ![t] = "begin"]
          /\ t = Cardinality(Started)
          /\ main' = IF t + 1 = total THEN "await_start" ELSE main
          /\ todo' = [todo EXCEPT ![t] = Rounds(t)]
          /\ UNCHANGED <<ran, name, total, num_initialized, num_done, start>>
      BY <1>4 DEF StartThread, Goto, Started
    <2>2. Busy /\ ~start
      BY <2>1 DEF Busy, ThreadsInv
    <2>3. PICK k \in 0..(total - 1) : Started = 0..(k - 1)
      BY <2>1, <2>2 DEF ThreadsInv
    <2>4. t = k /\ k \in Nat /\ k < total
      BY <1>2, <2>1, <2>3, CardinalityOfFirst
    <2>5. at \in [Tids -> {"none", "begin", "waiting", "gone"} \cup Running]
      BY DEF TypeOK
    <2>6. \A u \in Tids : at'[u] = IF u = t THEN "begin" ELSE at[u]
      BY <2>1, <2>5
    <2>7. at[t] = "none"
      <3>1. t \notin Started
        BY <2>3, <2>4
      <3> QED
        BY <3>1 DEF Started
    <2>8. Started' = 0..((k + 1) - 1)
      <3>1. Started' = Started \cup {t}
        BY <2>6 DEF Started
      <3>2. 0..((k + 1) - 1) = (0..(k - 1)) \cup {k}
        BY <2>4
      <3> QED
        BY <2>3, <2>4, <3>1, <3>2
    <2>9. Initialized' = Initialized /\ Gone' = Gone
      BY <2>6, <2>7 DEF Initialized, Gone
    <2>10. \A u \in Tids : at'[u] \in {"none", "begin", "waiting"}
      BY <2>2, <2>6 DEF ThreadsInv
    <2>11. main' # "report" /\ main' # "next" /\ main' # "await_done" /\ Busy'
      BY <2>1 DEF Busy
    <2>12. main' = "starting" => k + 1 \in 0..(total' - 1)
      BY <1>2, <2>1, <2>4
    <2>13. main' # "starting" => total' = k + 1
      BY <2>1, <2>4
    <2>14. ThreadsTogether'
      <3>1. ~ \E u \in Tids : at'[u] \in Running
        BY <2>10 DEF Running
      <3> QED
        BY <2>11, <3>1 DEF ThreadsTogether
    <2>15. main' = "starting" => \E l \in 0..(total' - 1) : Started' = 0..(l - 1)
      BY <2>8, <2>12
    <2>16. main' # "starting" => Started' = 0..(total' - 1)
      BY <2>8, <2>13
    <2>17. /\ ran' >= 1 /\ name' \in Names /\ total' \in 1..(Threads + 1)
           /\ num_initialized' = Cardinality(Initialized') /\ num_done' = Cardinality(Gone')
           /\ ~start'
      BY <2>1, <2>2, <2>9 DEF ThreadsInv
    <2> QED
      BY <2>10, <2>11, <2>14, <2>15, <2>16, <2>17 DEF ThreadsInv
  <1>5. CASE AwaitStart
    <2>1. /\ main = "await_start" /\ at' = at /\ todo' = todo
          /\ UNCHANGED <<ran, name, total, num_initialized, num_done>>
          /\ \/ main' = main /\ start' = start
             \/ main' = "await_done" /\ start' = TRUE /\ ~(num_initialized < total)
      BY <1>5 DEF AwaitStart
    <2>2. Busy /\ ~start /\ Started' = Started /\ Initialized' = Initialized /\ Gone' = Gone
          /\ Busy'
      BY <2>1 DEF Busy, ThreadsInv, Started, Initialized, Gone
    <2>3. start' => Initialized = 0..(total - 1)
      <3>1. Initialized \subseteq 0..(total - 1)
        BY <2>1, <2>2, ThreadsFinite DEF ThreadsInv
      <3>2. num_initialized = Cardinality(Initialized) /\ num_initialized \in Nat
        BY <2>2, ThreadsFinite, FS_CardinalityType DEF ThreadsInv
      <3>3. PICK S \in SUBSET (0..(total - 1)) : S = Initialized
        BY <3>1
      <3>4. start' => Cardinality(S) >= total
        <4>1. start' => ~(num_initialized < total)
          BY <2>1, <2>2
        <4>2. Cardinality(S) = num_initialized
          BY <3>2, <3>3
        <4> QED
          BY <1>2, <3>2, <4>1, <4>2
      <3> QED
        BY <1>2, <3>3, <3>4, AllAreThere
    <2>4. ThreadsTogether'
      <3>1. \A t \in Tids : at'[t] \notin Running
        BY <2>1, <2>2 DEF ThreadsInv, Running
      <3> QED
        BY <2>1, <3>1 DEF ThreadsTogether
    <2> QED
      BY <2>1, <2>2, <2>3, <2>4 DEF ThreadsInv
  <1>6. CASE AwaitDone
    <2>1. /\ main = "await_done" /\ at' = at /\ todo' = todo
          /\ UNCHANGED <<ran, name, total, num_initialized, num_done, start>>
          /\ main' = main \/ (main' = "report" /\ ~(num_done < total))
      BY <1>6 DEF AwaitDone
    <2>2. Busy /\ start /\ Started' = Started /\ Initialized' = Initialized /\ Gone' = Gone
          /\ Busy'
      BY <2>1 DEF Busy, ThreadsInv, Started, Initialized, Gone
    <2>3. main' = "report" => Gone = 0..(total - 1)
      <3>1. Gone \subseteq 0..(total - 1)
        BY <2>2, ThreadsFinite DEF ThreadsInv
      <3>2. num_done = Cardinality(Gone) /\ num_done \in Nat
        BY <2>2, ThreadsFinite, FS_CardinalityType DEF ThreadsInv
      <3>3. PICK S \in SUBSET (0..(total - 1)) : S = Gone
        BY <3>1
      <3>4. main' = "report" => Cardinality(S) >= total
        BY <1>2, <2>1, <3>2, <3>3
      <3> QED
        BY <1>2, <3>3, <3>4, AllAreThere
    <2>4. ThreadsTogether'
      <3>1. main' = "report" => \A t \in 0..(total - 1) : at'[t] = "gone"
        BY <2>1, <2>3 DEF Gone
      <3>2. (\E t \in Tids : at'[t] \in Running) =>
               \A t \in 0..(total - 1) : at'[t] \notin {"none", "begin"}
        BY <2>1 DEF ThreadsInv, ThreadsTogether
      <3> QED
        BY <2>1, <3>1, <3>2 DEF ThreadsTogether
    <2> QED
      BY <2>1, <2>2, <2>3, <2>4 DEF ThreadsInv
  <1>7. CASE Report
    <2>1. main' = "next" /\ \A t \in Tids : at'[t] = "none"
      BY <1>7 DEF Report
    <2>2. \A t \in Tids : at'[t] \notin Running
      BY <2>1 DEF Running
    <2> QED
      BY <2>1, <2>2 DEF ThreadsInv, Busy, ThreadsTogether
  <1>8. CASE EndOfList
    <2>1. main' = "exit" /\ at' = at /\ main = "next"
      BY <1>8 DEF EndOfList
    <2>2. \A t \in Tids : at'[t] \notin Running
      BY <2>1 DEF ThreadsInv, Running
    <2> QED
      BY <2>1, <2>2 DEF ThreadsInv, Busy, ThreadsTogether
  <1> QED
    BY <1>3, <1>4, <1>5, <1>6, <1>7, <1>8 DEF MainStep

\* ... and so does every step of the others.
LEMMA ThreadKeepsThreads ==
    ASSUME TypeOK, TypeOK', ThreadsInv, main # "exit", NEW t \in Tids, ThreadStep(t)
    PROVE  ThreadsInv'
  <1> USE DEF listVars, sharedVars, dbVars, metricsVars
  <1>1. /\ at \in [Tids -> {"none", "begin", "waiting", "gone"} \cup Running]
        /\ todo \in [Tids -> Nat] /\ todo' \in [Tids -> Nat]
    BY DEF TypeOK
  <1>2. CASE Initialize(t)
    <2>1. /\ at[t] = "begin" /\ num_initialized' = num_initialized + 1
          /\ at' = [at EXCEPT ![t] = IF start THEN "run" ELSE "waiting"]
          /\ UNCHANGED <<main, name, ran, total, num_done, start, todo>>
      BY <1>2 DEF Initialize, Goto
    <2>2. /\ Busy /\ Cardinality(Initialized \cup {t}) = num_initialized + 1 /\ ~start
      BY <2>1, BusyWithThreads, CountersHaveRoom
    <2>3. \A u \in Tids : at'[u] = IF u = t THEN "waiting" ELSE at[u]
      BY <1>1, <2>1, <2>2
    <2>4. /\ Started' = Started /\ Initialized' = Initialized \cup {t} /\ Gone' = Gone /\ Busy'
      BY <2>1, <2>2, <2>3 DEF Started, Initialized, Gone, Busy
    <2>5. \A u \in Tids : at'[u] \in {"none", "begin", "waiting"}
      BY <2>2, <2>3 DEF ThreadsInv
    <2>6. main # "report" /\ main # "next"
      BY <2>2 DEF ThreadsInv, Busy
    <2>7. ThreadsTogether'
      <3>1. \A u \in Tids : at'[u] \notin Running
        BY <2>5 DEF Running
      <3> QED
        BY <2>1, <2>6, <3>1 DEF ThreadsTogether
    <2> QED
      BY <2>1, <2>2, <2>4, <2>5, <2>6, <2>7 DEF ThreadsInv
  <1>3. CASE Proceed(t)
    <2>1. /\ at[t] = "waiting"
          /\ \/ start /\ at' = [at EXCEPT ![t] = "run"]
             \/ at' = at
          /\ UNCHANGED <<main, name, ran, total, num_initialized, num_done, start, todo>>
      BY <1>3 DEF Proceed, Goto
    <2>2. Busy
      BY <2>1, BusyWithThreads
    <2>3. CASE at' = at
      BY <2>1, <2>3 DEF ThreadsInv, Busy, Started, Initialized, Gone, ThreadsTogether
    <2>4. CASE start /\ at' = [at EXCEPT ![t] = "run"]
      <3>1. \A u \in Tids : at'[u] = IF u = t THEN "run" ELSE at[u]
        BY <1>1, <2>4
      <3>2. /\ Started' = Started /\ Initialized' = Initialized /\ Gone' = Gone /\ Busy'
        BY <2>1, <2>2, <3>1 DEF Started, Initialized, Gone, Busy
      <3>3. main # "report" /\ main # "next"
        <4>1. t \in Initialized /\ t \notin Gone
          BY <2>1 DEF Initialized, Gone
        <4> QED
          BY <2>2, <2>4, <4>1 DEF ThreadsInv, Busy
      <3>4. ThreadsTogether'
        <4>1. \A u \in 0..(total - 1) : u \in Tids /\ at[u] \notin {"none", "begin"}
          BY <2>2, <2>4 DEF ThreadsInv, Initialized
        <4>2. \A u \in 0..(total - 1) : at'[u] \notin {"none", "begin"}
          BY <3>1, <4>1
        <4> QED
          BY <2>1, <3>3, <4>2 DEF ThreadsTogether
      <3>5. \A u \in Tids : at'[u] \in {"got", "line"} =>
               todo'[u] > 0 /\ name' \in Reading \cup {"readwhilewriting"}
        BY <2>1, <2>2, <3>1 DEF ThreadsInv
      <3> QED
        BY <2>1, <2>2, <2>4, <3>2, <3>3, <3>4, <3>5 DEF ThreadsInv
    <2> QED
      BY <2>1, <2>3, <2>4
  <1>4. CASE Finish(t)
    <2>1. /\ at[t] \in {"run", "over"} /\ num_done' = num_done + 1
          /\ at' = [at EXCEPT ![t] = "gone"]
          /\ UNCHANGED <<main, name, ran, total, num_initialized, start, todo>>
      BY <1>4 DEF Finish, Goto
    <2>2. /\ Busy /\ Cardinality(Gone \cup {t}) = num_done + 1 /\ start
      BY <2>1, BusyWithThreads, CountersHaveRoom
    <2>3. \A u \in Tids : at'[u] = IF u = t THEN "gone" ELSE at[u]
      BY <1>1, <2>1
    <2>4. /\ Started' = Started /\ Initialized' = Initialized /\ Gone' = Gone \cup {t} /\ Busy'
      BY <2>1, <2>2, <2>3 DEF Started, Initialized, Gone, Busy
    <2>5. main # "report" /\ main # "next"
      <3>1. t \in Initialized /\ t \notin Gone
        BY <2>1 DEF Initialized, Gone
      <3> QED
        BY <2>2, <3>1 DEF ThreadsInv, Busy
    <2>6. ThreadsTogether'
      <3>1. \A u \in 0..(total - 1) : u \in Tids /\ at[u] \notin {"none", "begin"}
        BY <2>2 DEF ThreadsInv, Initialized
      <3>2. \A u \in 0..(total - 1) : at'[u] \notin {"none", "begin"}
        BY <2>3, <3>1
      <3> QED
        BY <2>1, <2>5, <3>2 DEF ThreadsTogether
    <2>7. \A u \in Tids : at'[u] \in {"got", "line"} =>
             todo'[u] > 0 /\ name' \in Reading \cup {"readwhilewriting"}
      BY <2>1, <2>2, <2>3 DEF ThreadsInv
    <2> QED
      BY <2>1, <2>2, <2>4, <2>5, <2>6, <2>7 DEF ThreadsInv
  <1>5. ASSUME NEW place \in Running, at[t] \in Running, at' = [at EXCEPT ![t] = place],
               UNCHANGED <<main, name, ran, total, num_initialized, num_done, start>>,
               \A u \in Tids : u # t => todo'[u] = todo[u],
               place \in {"got", "line"} =>
                  todo'[t] > 0 /\ name \in Reading \cup {"readwhilewriting"}
        PROVE  ThreadsInv'
    <2>1. Busy
      BY <1>5, BusyWithThreads DEF Running
    <2> QED
      BY <1>5, <2>1, RunningThread
  <1>6. "run" \in Running /\ "put" \in Running /\ "over" \in Running /\ "got" \in Running
        /\ "line" \in Running
    BY DEF Running
  <1>7. at[t] = "run" => at = [at EXCEPT ![t] = "run"]
    BY <1>1
  <1>8. CASE Compact(t)
    <2>1. /\ at[t] = "run" /\ at' = [at EXCEPT ![t] = "run"]
          /\ UNCHANGED <<main, name, ran, total, num_initialized, num_done, start>>
          /\ \A u \in Tids : u # t => todo'[u] = todo[u]
      BY <1>1, <1>7, <1>8 DEF Compact
    <2> QED
      BY <1>5, <1>6, <2>1
  <1>9. CASE WriterLooks(t)
    <2>1. /\ at[t] = "run" /\ \E place \in {"over", "put"} : at' = [at EXCEPT ![t] = place]
          /\ UNCHANGED <<main, name, ran, total, num_initialized, num_done, start>>
          /\ \A u \in Tids : u # t => todo'[u] = todo[u]
      BY <1>9 DEF WriterLooks, Goto
    <2> QED
      BY <1>5, <1>6, <2>1
  <1>10. CASE TakeQueryId(t)
    <2>1. /\ at[t] = "got" /\ at' = [at EXCEPT ![t] = "line"] /\ todo' = todo
          /\ UNCHANGED <<main, name, ran, total, num_initialized, num_done, start>>
      BY <1>10 DEF TakeQueryId, Goto
    <2>2. Busy
      BY <2>1, BusyWithThreads
    <2>3. todo'[t] > 0 /\ name \in Reading \cup {"readwhilewriting"}
      BY <2>1, <2>2 DEF ThreadsInv
    <2> QED
      BY <1>5, <1>6, <2>1, <2>3
  <1>11. CASE Record(t)
    <2>1. /\ at[t] = "line" /\ at' = [at EXCEPT ![t] = "run"]
          /\ UNCHANGED <<main, name, ran, total, num_initialized, num_done, start>>
          /\ \A u \in Tids : u # t => todo'[u] = todo[u]
      BY <1>1, <1>11 DEF Record, Goto
    <2> QED
      BY <1>5, <1>6, <2>1
  <1>12. ASSUME NEW k \in Keys, WriteKey(t, k)
         PROVE  ThreadsInv'
    <2>1. /\ at[t] = "run" /\ at' = [at EXCEPT ![t] = "run"]
          /\ UNCHANGED <<main, name, ran, total, num_initialized, num_done, start>>
          /\ \A u \in Tids : u # t => todo'[u] = todo[u]
      BY <1>1, <1>7, <1>12 DEF WriteKey
    <2> QED
      BY <1>5, <1>6, <2>1
  <1>13. ASSUME NEW k \in Keys, WriterPuts(t, k)
         PROVE  ThreadsInv'
    <2>1. /\ at[t] = "put" /\ at' = [at EXCEPT ![t] = "run"]
          /\ UNCHANGED <<main, name, ran, total, num_initialized, num_done, start>>
          /\ \A u \in Tids : u # t => todo'[u] = todo[u]
      BY <1>13 DEF WriterPuts, Goto
    <2> QED
      BY <1>5, <1>6, <2>1
  <1>14. ASSUME NEW asked \in Queries, Query(t, asked)
         PROVE  ThreadsInv'
    <2>1. /\ at[t] = "run" /\ todo[t] > 0 /\ name \in Reading \cup {"readwhilewriting"}
          /\ at' = [at EXCEPT ![t] = "got"] /\ todo' = todo
          /\ UNCHANGED <<main, name, ran, total, num_initialized, num_done, start>>
      BY <1>14 DEF Query, Goto
    <2> QED
      BY <1>5, <1>6, <2>1
  <1> QED
    BY <1>2, <1>3, <1>4, <1>8, <1>9, <1>10, <1>11, <1>12, <1>13, <1>14 DEF ThreadStep

LEMMA ThreadsStep ==
    ASSUME TypeOK, TypeOK', ThreadsInv, Next
    PROVE  ThreadsInv'
  <1> USE DEF vars, listVars, sharedVars, dbVars, metricsVars
  <1>1. ASSUME UNCHANGED <<main, name, ran, total, num_initialized, num_done, start, at, todo>>
        PROVE  ThreadsInv'
    BY <1>1 DEF ThreadsInv, Busy, Started, Initialized, Gone, ThreadsTogether
  <1>2. ASSUME NEW t \in Tids, WriteError(t)
        PROVE  ThreadsInv'
    <2>1. main' = "exit" /\ at' = at /\ total' = total
      BY <1>2 DEF WriteError
    <2> QED
      BY <2>1 DEF ThreadsInv, Busy, ThreadsTogether
  <1>3. ASSUME NEW flushed \in SUBSET Keys, Flush(flushed)
        PROVE  ThreadsInv'
    BY <1>1, <1>3 DEF Flush
  <1>4. ASSUME NEW t \in waiting, SpuriousWakeup(t)
        PROVE  ThreadsInv'
    BY <1>1, <1>4 DEF SpuriousWakeup
  <1>5. CASE UNCHANGED vars
    BY <1>1, <1>5
  <1>6. ASSUME NEW t \in Tids, ThreadStep(t)
        PROVE  ThreadsInv'
    <2>1. main # "exit"
      BY <1>6 DEF ThreadStep
    <2> QED
      BY <1>6, <2>1, ThreadKeepsThreads
  <1> QED
    BY <1>2, <1>3, <1>4, <1>5, <1>6, MainKeepsThreads DEF Next
-----------------------------------------------------------------------------
(* The file of metrics.                                                    *)

\* What the numbers are about does not change: neither the file, nor what is
\* about to be recorded.
LEMMA NumbersStay ==
    ASSUME NumbersInv,
           UNCHANGED <<lines, next_query_id>>, ran' = ran \/ ran' = ran + 1, ran \in Nat,
           lines \in Seq([query_id : Nat, run : 1..MaxBenchmarks]),
           \A t \in Tids : at'[t] = "line" => at[t] = "line" /\ pending'[t] = pending[t]
    PROVE  NumbersInv'
  <1>1. \A i \in 1..Len(lines) : lines[i].run \in Nat
    <2>1. \A i \in 1..Len(lines) : lines[i] \in [query_id : Nat, run : 1..MaxBenchmarks]
      BY MembersOfSeq
    <2> QED
      BY <2>1, BenchmarkAssumption
  <1>2. \A i \in 1..Len(lines) : lines[i].run <= ran'
    BY <1>1 DEF NumbersInv
  <1> QED
    BY <1>2 DEF NumbersInv

\* A number is taken.
LEMMA NumbersWhenTaken ==
    ASSUME TypeOK, NumbersInv, NEW t \in Tids, TakeQueryId(t)
    PROVE  NumbersInv'
  <1>1. /\ pending' = [pending EXCEPT ![t].query_id = next_query_id]
        /\ next_query_id' = next_query_id + 1 /\ at' = [at EXCEPT ![t] = "line"]
        /\ lines' = lines /\ ran' = ran
    BY DEF TakeQueryId, Goto, listVars
  <1>2. /\ next_query_id \in Nat /\ pending \in [Tids -> Events]
        /\ at \in [Tids -> {"none", "begin", "waiting", "gone"} \cup Running]
        /\ lines \in Seq([query_id : Nat, run : 1..MaxBenchmarks])
    BY DEF TypeOK
  <1>3. /\ \A u \in Tids : pending[u].query_id \in Nat
        /\ \A i \in 1..Len(lines) : lines[i].query_id \in Nat
    <2>1. \A i \in 1..Len(lines) : lines[i] \in [query_id : Nat, run : 1..MaxBenchmarks]
      BY <1>2, MembersOfSeq
    <2> QED
      BY <1>2, <2>1 DEF Events
  <1>4. /\ pending'[t].query_id = next_query_id
        /\ \A u \in Tids : u # t => pending'[u] = pending[u] /\ at'[u] = at[u]
    BY <1>1, <1>2 DEF Events
  <1>5. \A i \in 1..Len(lines') : lines'[i].query_id < next_query_id' /\ lines'[i].run <= ran'
    BY <1>1, <1>2, <1>3 DEF NumbersInv
  <1>6. \A u \in Tids : u # t /\ at[u] = "line" => pending[u].query_id < next_query_id
    BY DEF NumbersInv
  <1>7. ASSUME NEW u \in Tids, at'[u] = "line"
        PROVE  /\ pending'[u].query_id < next_query_id'
               /\ \A i \in 1..Len(lines') : lines'[i].query_id # pending'[u].query_id
               /\ \A v \in Tids : v # u /\ at'[v] = "line" =>
                    pending'[v].query_id # pending'[u].query_id
    <2>1. CASE u = t
      <3>1. \A i \in 1..Len(lines) : lines[i].query_id < next_query_id
        BY DEF NumbersInv
      <3>2. \A i \in 1..Len(lines) : lines[i].query_id # next_query_id
        BY <1>2, <1>3, <3>1
      <3>3. \A v \in Tids : v # t /\ at[v] = "line" => pending[v].query_id # next_query_id
        BY <1>2, <1>3, <1>6
      <3>4. next_query_id < next_query_id'
        BY <1>1, <1>2
      <3> QED
        BY <1>1, <1>4, <2>1, <3>2, <3>3, <3>4
    <2>2. CASE u # t
      <3>1. at[u] = "line" /\ pending'[u] = pending[u]
        BY <1>4, <1>7, <2>2
      <3>2. pending[u].query_id < next_query_id'
        BY <1>1, <1>2, <1>3, <1>6, <2>2, <3>1
      <3>3. pending'[t].query_id # pending[u].query_id
        BY <1>2, <1>3, <1>4, <1>6, <2>2, <3>1
      <3>4. \A v \in Tids : v # u /\ v # t /\ at'[v] = "line" =>
               pending'[v].query_id # pending[u].query_id
        BY <1>4, <3>1 DEF NumbersInv
      <3>5. \A i \in 1..Len(lines) : lines[i].query_id # pending[u].query_id
        BY <3>1 DEF NumbersInv
      <3> QED
        BY <1>1, <3>1, <3>2, <3>3, <3>4, <3>5
    <2> QED
      BY <2>1, <2>2
  <1> QED
    BY <1>1, <1>5, <1>7 DEF NumbersInv

\* An event becomes a line, or is lost.
LEMMA NumbersWhenRecorded ==
    ASSUME TypeOK, NumbersInv, NEW t \in Tids, Record(t), ran \in 1..MaxBenchmarks
    PROVE  NumbersInv'
  <1> DEFINE line == [query_id |-> pending[t].query_id, run |-> ran]
             Line == [query_id : Nat, run : 1..MaxBenchmarks]
  <1>1. /\ at[t] = "line" /\ at' = [at EXCEPT ![t] = "run"]
        /\ pending' = [pending EXCEPT ![t] = NoEvent]
        /\ next_query_id' = next_query_id /\ ran' = ran
        /\ lines' = lines \/ lines' = Append(lines, line)
    BY DEF Record, WriteLine, Goto, listVars
  <1>2. /\ next_query_id \in Nat /\ pending \in [Tids -> Events]
        /\ at \in [Tids -> {"none", "begin", "waiting", "gone"} \cup Running]
        /\ lines \in Seq(Line)
    BY DEF TypeOK
  <1>3. \A u \in Tids : at'[u] = "line" =>
          u # t /\ at[u] = "line" /\ pending'[u] = pending[u]
    BY <1>1, <1>2
  <1>4. CASE lines' = lines
    <2>1. ran \in Nat
      BY BenchmarkAssumption
    <2> QED
      BY <1>1, <1>2, <1>3, <1>4, <2>1, NumbersStay
  <1>5. CASE lines' = Append(lines, line)
    <2>1. line \in Line /\ line.query_id = pending[t].query_id /\ line.run = ran
      BY <1>2 DEF Events
    <2> DEFINE n == Len(lines)
    <2>2. /\ n \in Nat /\ Len(lines') = n + 1
          /\ \A i \in 1..n : lines'[i] = lines[i]
          /\ lines'[n + 1] = line
      <3> HIDE DEF line, Line
      <3> QED
        BY <1>2, <1>5, <2>1, MembersOfAppend
    <2> HIDE DEF n
    <2>3. \A i \in 1..Len(lines') : i \in 1..n \/ i = n + 1
      BY <2>2
    <2>4. /\ pending[t].query_id < next_query_id
          /\ \A i \in 1..n : lines[i].query_id # pending[t].query_id
          /\ \A i \in 1..n : lines[i].query_id < next_query_id /\ lines[i].run <= ran
          /\ \A i, j \in 1..n : lines[i].query_id = lines[j].query_id => i = j
      BY <1>1 DEF NumbersInv, n
    <2>5. ran \in Nat
      BY BenchmarkAssumption
    <2> HIDE DEF line
    <2>6. \A i \in 1..Len(lines') : lines'[i].query_id < next_query_id' /\ lines'[i].run <= ran'
      <3>1. line.query_id < next_query_id /\ line.run <= ran
        BY <2>1, <2>4, <2>5
      <3> QED
        BY <1>1, <2>2, <2>3, <2>4, <3>1
    <2>7. \A i, j \in 1..Len(lines') : lines'[i].query_id = lines'[j].query_id => i = j
      BY <2>1, <2>2, <2>3, <2>4
    <2>8. ASSUME NEW u \in Tids, at'[u] = "line"
          PROVE  /\ pending'[u].query_id < next_query_id'
                 /\ \A i \in 1..Len(lines') : lines'[i].query_id # pending'[u].query_id
                 /\ \A v \in Tids : v # u /\ at'[v] = "line" =>
                      pending'[v].query_id # pending'[u].query_id
      <3>1. u # t /\ at[u] = "line" /\ pending'[u] = pending[u]
        BY <1>3, <2>8
      <3>2. /\ pending[u].query_id < next_query_id
            /\ \A i \in 1..n : lines[i].query_id # pending[u].query_id
            /\ pending[t].query_id # pending[u].query_id
        BY <1>1, <3>1 DEF NumbersInv, n
      <3>3. \A v \in Tids : v # u /\ at'[v] = "line" =>
               pending'[v].query_id # pending[u].query_id
        BY <1>3, <3>1 DEF NumbersInv
      <3>4. \A i \in 1..Len(lines') : lines'[i].query_id # pending[u].query_id
        BY <2>1, <2>2, <2>3, <3>2
      <3> QED
        BY <1>1, <3>1, <3>2, <3>3, <3>4
    <2> QED
      BY <2>6, <2>7, <2>8 DEF NumbersInv
  <1> QED
    BY <1>1, <1>4, <1>5

LEMMA NumbersStep ==
    ASSUME TypeOK, ThreadsInv, NumbersInv, Next
    PROVE  NumbersInv'
  <1> USE DEF vars, listVars, sharedVars, dbVars, metricsVars
  <1>1. /\ ran \in Nat /\ lines \in Seq([query_id : Nat, run : 1..MaxBenchmarks])
        /\ at \in [Tids -> {"none", "begin", "waiting", "gone"} \cup Running]
    <2>1. ran \in 0..MaxBenchmarks
      BY DEF TypeOK
    <2>2. ran \in Nat
      BY <2>1
    <2> QED
      BY <2>2 DEF TypeOK
  <1>2. ASSUME UNCHANGED <<lines, next_query_id>>, ran' = ran \/ ran' = ran + 1,
               \A t \in Tids : at'[t] = "line" => at[t] = "line" /\ pending'[t] = pending[t]
        PROVE  NumbersInv'
    BY <1>1, <1>2, NumbersStay
  <1>3. ASSUME UNCHANGED <<lines, next_query_id, ran, pending>>, NEW t \in Tids,
               NEW place, place # "line", at' = [at EXCEPT ![t] = place] \/ at' = at
        PROVE  NumbersInv'
    <2>1. \A u \in Tids : at'[u] = "line" => at[u] = "line" /\ pending'[u] = pending[u]
      BY <1>1, <1>3
    <2> QED
      BY <1>2, <1>3, <2>1
  <1>4. ASSUME NEW b \in Names, NextBenchmark(b)
        PROVE  NumbersInv'
    BY <1>2, <1>4 DEF NextBenchmark
  <1>5. ASSUME NEW t \in Tids, StartThread(t) \/ Initialize(t) \/ Proceed(t) \/ Finish(t)
                               \/ Compact(t) \/ WriterLooks(t)
        PROVE  NumbersInv'
    <2>1. /\ UNCHANGED <<lines, next_query_id, ran, pending>>
          /\ \E place \in {"begin", "run", "waiting", "gone", "over", "put"} :
               at' = [at EXCEPT ![t] = place] \/ at' = at
      BY <1>5 DEF StartThread, Initialize, Proceed, Finish, Compact, WriterLooks, Goto
    <2> QED
      BY <1>3, <2>1
  <1>6. CASE AwaitStart \/ AwaitDone \/ EndOfList
    BY <1>2, <1>6 DEF AwaitStart, AwaitDone, EndOfList
  <1>7. CASE Report
    <2>1. \A t \in Tids : at'[t] = "none"
      BY <1>7 DEF Report
    <2> QED
      BY <1>2, <1>7, <2>1 DEF Report
  <1>8. ASSUME NEW t \in Tids, TakeQueryId(t)
        PROVE  NumbersInv'
    BY <1>8, NumbersWhenTaken
  <1>9. ASSUME NEW t \in Tids, main # "exit", Record(t)
        PROVE  NumbersInv'
    <2>1. Busy
      BY <1>9, BusyWithThreads DEF Record
    <2>2. ran >= 1 /\ ran \in 0..MaxBenchmarks
      BY <2>1 DEF ThreadsInv, TypeOK
    <2>3. ran \in 1..MaxBenchmarks
      BY <2>2, BenchmarkAssumption
    <2> QED
      BY <1>9, <2>3, NumbersWhenRecorded
  <1>10. ASSUME NEW t \in Tids, NEW k \in Keys, WriteKey(t, k) \/ WriterPuts(t, k)
         PROVE  NumbersInv'
    <2>1. /\ UNCHANGED <<lines, next_query_id, ran, pending>>
          /\ at' = [at EXCEPT ![t] = "run"] \/ at' = at
      BY <1>10 DEF WriteKey, WriterPuts, Goto
    <2> QED
      BY <1>3, <2>1
  <1>11. ASSUME NEW t \in Tids, NEW asked \in Queries, Query(t, asked)
         PROVE  NumbersInv'
    <2>1. /\ UNCHANGED <<lines, next_query_id, ran>> /\ at' = [at EXCEPT ![t] = "got"]
          /\ \E event : pending' = [pending EXCEPT ![t] = event]
      BY <1>11 DEF Query, Goto
    <2>2. \A u \in Tids : at'[u] = "line" => at[u] = "line" /\ pending'[u] = pending[u]
      <3>1. pending \in [Tids -> Events]
        BY DEF TypeOK
      <3> QED
        BY <1>1, <2>1, <3>1
    <2> QED
      BY <1>2, <2>1, <2>2
  <1>12. ASSUME NEW t \in Tids, WriteError(t)
         PROVE  NumbersInv'
    BY <1>2, <1>12 DEF WriteError
  <1>13. ASSUME NEW flushed \in SUBSET Keys, Flush(flushed)
         PROVE  NumbersInv'
    BY <1>2, <1>13 DEF Flush
  <1>14. ASSUME NEW t \in waiting, SpuriousWakeup(t)
         PROVE  NumbersInv'
    BY <1>2, <1>14 DEF SpuriousWakeup
  <1>15. CASE UNCHANGED vars
    BY <1>2, <1>15
  <1> QED
    BY <1>4, <1>5, <1>6, <1>7, <1>8, <1>9, <1>10, <1>11, <1>12, <1>13, <1>14, <1>15
       DEF Next, MainStep, ThreadStep
-----------------------------------------------------------------------------
(* Counts and lines.                                                       *)

\* A line of this benchmark more.
LEMMA LinesOfRunAppend ==
    ASSUME NEW Line, NEW file \in Seq(Line), NEW line \in Line, NEW n, line.run = n
    PROVE  /\ Cardinality(LinesIn(Append(file, line), n)) = Cardinality(LinesIn(file, n)) + 1
           /\ Cardinality(LinesIn(file, n)) \in Nat
  <1> DEFINE more == Append(file, line)
             before == LinesIn(file, n)
             after == LinesIn(more, n)
  <1>1. /\ Len(file) \in Nat /\ Len(more) = Len(file) + 1
        /\ \A i \in 1..Len(file) : more[i] = file[i]
        /\ more[Len(file) + 1] = line
    BY MembersOfAppend
  <1> HIDE DEF more
  <1>2. after = before \cup {Len(file) + 1} /\ Len(file) + 1 \notin before
    <2>1. \A i \in 1..Len(more) : i \in 1..Len(file) \/ i = Len(file) + 1
      BY <1>1
    <2>2. Len(file) + 1 \in 1..Len(more) /\ \A i \in 1..Len(file) : i \in 1..Len(more)
      BY <1>1
    <2>3. Len(file) + 1 \notin 1..Len(file)
      BY <1>1
    <2> QED
      BY <1>1, <2>1, <2>2, <2>3 DEF LinesIn
  <1>3. IsFiniteSet(before)
    <2>1. IsFiniteSet(1..Len(file)) /\ before \subseteq 1..Len(file)
      BY <1>1, FS_Interval DEF LinesIn
    <2> QED
      BY <2>1, FS_Subset
  <1> HIDE DEF before, after
  <1>4. Cardinality(after) = Cardinality(before) + 1 /\ Cardinality(before) \in Nat
    <2>1. PICK x : x = Len(file) + 1
      OBVIOUS
    <2>2. x \notin before /\ after = before \cup {x}
      BY <1>2, <2>1
    <2> QED
      BY <1>3, <2>2, FS_AddElement, FS_CardinalityType
  <1> QED
    BY <1>4 DEF before, after, more

\* A thread that is somewhere is one of those of the benchmark.
LEMMA ThreadOfRun ==
    ASSUME TypeOK, ThreadsInv, Busy, NEW t \in Tids, at[t] \in Running
    PROVE  t < total
  <1>1. total \in 0..(Threads + 1) /\ Threads \in Nat
    BY BenchmarkAssumption DEF TypeOK
  <1>2. at[t] \notin {"none", "begin", "waiting"}
    BY DEF Running
  <1>3. t \in Initialized /\ Initialized = 0..(total - 1)
    BY <1>2 DEF Initialized, ThreadsInv
  <1> QED
    BY <1>1, <1>3

\* Recording an event adds one to what was done, and one to the lines of the
\* benchmark or to what was lost.
LEMMA AccountsWhenRecorded ==
    ASSUME TypeOK, ThreadsInv, AccountsInv, Busy, NEW t \in Tids, Record(t)
    PROVE  AccountsInv'
  <1> DEFINE line == [query_id |-> pending[t].query_id, run |-> ran]
             Line == [query_id : Nat, run : 1..MaxBenchmarks]
  <1>1. /\ at[t] = "line" /\ done' = [done EXCEPT ![t] = @ + 1]
        /\ UNCHANGED <<main, name, ran, total>>
        /\ \/ lines' = Append(lines, line) /\ lost' = lost
           \/ lines' = lines /\ lost' = lost + 1
    BY DEF Record, WriteLine, listVars, sharedVars
  <1>2. name \in Reading \cup {"readwhilewriting"} /\ t < total /\ ran >= 1 /\ main # "next"
    BY <1>1, ThreadOfRun DEF ThreadsInv, Running, Busy
  <1>3. Merged(done)[total] = Cardinality(LinesOfRun) + lost
    BY <1>2 DEF AccountsInv
  <1>4. /\ done \in [Tids -> Nat] /\ total \in 0..(Threads + 1) /\ lost \in Nat
        /\ lines \in Seq(Line) /\ pending \in [Tids -> Events] /\ ran \in 0..MaxBenchmarks
    BY DEF TypeOK
  <1>5. Merged(done')[total] = Merged(done)[total] + 1
    <2>1. PICK count \in [Tids -> Nat] : count = done
      BY <1>4
    <2>2. PICK n \in 0..(Threads + 1) : n = total
      BY <1>4
    <2>3. t < n
      BY <1>2, <2>2
    <2>4. Merged([count EXCEPT ![t] = @ + 1])[n] = Merged(count)[n] + 1
      BY <2>3, MergedOneMore
    <2> QED
      BY <1>1, <2>1, <2>2, <2>4
  <1>6. line \in Line /\ line.run = ran
    <2>1. ran \in 1..MaxBenchmarks
      BY <1>2, <1>4, BenchmarkAssumption
    <2> QED
      BY <1>4, <2>1 DEF Events
  <1>7. /\ Cardinality(LinesOfRun) \in Nat
        /\ lines' = Append(lines, line) =>
             Cardinality(LinesOfRun') = Cardinality(LinesOfRun) + 1
        /\ lines' = lines => LinesOfRun' = LinesOfRun
    <2>0. PICK Kind : Kind = Line
      OBVIOUS
    <2>1. PICK file \in Seq(Kind) : file = lines
      BY <1>4, <2>0
    <2>2. PICK one \in Kind : one = line
      BY <1>6, <2>0
    <2>3. PICK n : n = ran
      OBVIOUS
    <2>4. one.run = n
      BY <1>6, <2>2, <2>3
    <2> HIDE DEF line, Line
    <2>5. /\ Cardinality(LinesIn(Append(file, one), n)) = Cardinality(LinesIn(file, n)) + 1
          /\ Cardinality(LinesIn(file, n)) \in Nat
      BY <2>4, LinesOfRunAppend
    <2>6. LinesOfRun = LinesIn(file, n)
      BY <2>1, <2>3 DEF LinesOfRun
    <2>7. lines' = Append(lines, line) => LinesOfRun' = LinesIn(Append(file, one), n)
      BY <1>1, <2>1, <2>2, <2>3 DEF LinesOfRun
    <2>8. lines' = lines => LinesOfRun' = LinesOfRun
      BY <1>1 DEF LinesOfRun
    <2> QED
      BY <2>5, <2>6, <2>7, <2>8
  <1>8. Merged(done')[total'] = Cardinality(LinesOfRun') + lost'
    <2>1. Cardinality(LinesOfRun') + lost' = (Cardinality(LinesOfRun) + lost) + 1
      <3> HIDE DEF line
      <3>1. CASE lines' = Append(lines, line) /\ lost' = lost
        BY <1>4, <1>7, <3>1
      <3>2. CASE lines' = lines /\ lost' = lost + 1
        BY <1>4, <1>7, <3>2
      <3> QED
        BY <1>1, <3>1, <3>2
    <2> QED
      BY <1>1, <1>3, <1>5, <2>1
  <1> QED
    BY <1>1, <1>2, <1>8 DEF AccountsInv, Busy

LEMMA AccountsStep ==
    ASSUME TypeOK, TypeOK', ThreadsInv, NumbersInv, AccountsInv, Next
    PROVE  AccountsInv'
  <1> USE DEF vars, listVars, sharedVars, dbVars, metricsVars
  <1>1. ASSUME UNCHANGED <<name, ran, total, done, lines, lost>>, Busy' => Busy,
               main' = "next" => main = "next"
        PROVE  AccountsInv'
    BY <1>1 DEF AccountsInv, LinesOfRun
  <1>2. ASSUME NEW b \in Names, NextBenchmark(b)
        PROVE  AccountsInv'
    <2>1. /\ main = "next" /\ main' = "starting" /\ ran' = ran + 1 /\ lost' = 0
          /\ done' = done /\ lines' = lines
      BY <1>2 DEF NextBenchmark
    <2>2. done' = [t \in Tids |-> 0] /\ total' \in 0..(Threads + 1)
      BY <2>1 DEF AccountsInv, TypeOK
    <2>3. Merged(done')[total'] = 0
      <3>1. PICK n \in 0..(Threads + 1) : n = total'
        BY <2>2
      <3>2. Merged([t \in Tids |-> 0])[n] = 0
        BY MergedNothing
      <3> QED
        BY <2>2, <3>1, <3>2
    <2>4. LinesOfRun' = {}
      <3>1. ran \in 0..MaxBenchmarks
        BY DEF TypeOK
      <3>2. \A i \in 1..Len(lines) : lines[i].run <= ran
        BY DEF NumbersInv
      <3>3. \A i \in 1..Len(lines) : lines[i].run # ran + 1
        <4>1. \A i \in 1..Len(lines) : lines[i] \in [query_id : Nat, run : 1..MaxBenchmarks]
          <5>1. lines \in Seq([query_id : Nat, run : 1..MaxBenchmarks])
            BY DEF TypeOK
          <5> QED
            BY <5>1, MembersOfSeq
        <4>2. \A i \in 1..Len(lines) : lines[i].run \in Nat
          BY <4>1, BenchmarkAssumption
        <4> QED
          BY <3>1, <3>2, <4>2
      <3> QED
        BY <2>1, <3>3 DEF LinesOfRun, LinesIn
    <2>5. Cardinality(LinesOfRun') = 0
      BY <2>4, FS_EmptySet
    <2> QED
      BY <2>1, <2>3, <2>5 DEF AccountsInv
  <1>3. ASSUME NEW t \in Tids, StartThread(t)
        PROVE  AccountsInv'
    BY <1>1, <1>3 DEF StartThread, Busy
  <1>4. CASE AwaitStart \/ AwaitDone
    BY <1>1, <1>4 DEF AwaitStart, AwaitDone, Busy
  <1>5. CASE Report
    BY <1>5 DEF Report, AccountsInv, Busy
  <1>6. CASE EndOfList
    BY <1>6 DEF EndOfList, AccountsInv, Busy
  <1>7. ASSUME NEW t \in Tids, Initialize(t) \/ Proceed(t) \/ Finish(t) \/ Compact(t)
                               \/ WriterLooks(t) \/ TakeQueryId(t)
        PROVE  AccountsInv'
    BY <1>1, <1>7 DEF Initialize, Proceed, Finish, Compact, WriterLooks, TakeQueryId, Busy
  <1>8. ASSUME NEW t \in Tids, main # "exit", Record(t)
        PROVE  AccountsInv'
    <2>1. Busy
      BY <1>8, BusyWithThreads DEF Record
    <2> QED
      BY <1>8, <2>1, AccountsWhenRecorded
  <1>9. ASSUME NEW t \in Tids, NEW k \in Keys, main # "exit", WriteKey(t, k)
        PROVE  AccountsInv'
    <2>1. at[t] = "run" /\ name \in Writing /\ main' = main /\ name' = name
      BY <1>9 DEF WriteKey
    <2>2. name' \notin Reading \cup {"readwhilewriting"}
      BY <2>1 DEF Writing, Fills, Reading
    <2>3. main' # "next"
      BY <1>9, <2>1, BusyWithThreads DEF Busy
    <2> QED
      BY <2>2, <2>3 DEF AccountsInv
  <1>10. ASSUME NEW t \in Tids, NEW k \in Keys, WriterPuts(t, k)
         PROVE  AccountsInv'
    BY <1>1, <1>10 DEF WriterPuts, Busy
  <1>11. ASSUME NEW t \in Tids, NEW asked \in Queries, Query(t, asked)
         PROVE  AccountsInv'
    BY <1>1, <1>11 DEF Query, Busy
  <1>12. ASSUME NEW t \in Tids, WriteError(t)
         PROVE  AccountsInv'
    BY <1>12 DEF WriteError, AccountsInv, Busy
  <1>13. ASSUME NEW flushed \in SUBSET Keys, Flush(flushed)
         PROVE  AccountsInv'
    BY <1>1, <1>13 DEF Flush, Busy
  <1>14. ASSUME NEW t \in waiting, SpuriousWakeup(t)
         PROVE  AccountsInv'
    BY <1>1, <1>14 DEF SpuriousWakeup, Busy
  <1>15. CASE UNCHANGED vars
    BY <1>1, <1>15 DEF Busy
  <1> QED
    BY <1>2, <1>3, <1>4, <1>5, <1>6, <1>7, <1>8, <1>9, <1>10, <1>11, <1>12, <1>13, <1>14, <1>15
       DEF Next, MainStep, ThreadStep

-----------------------------------------------------------------------------
(* What filters are measured on.                                           *)

\* A query of a database without memtables finds what is in tables, where a
\* filter let it in.
LEMMA QueryPassesFilter ==
    ASSUME TypeOK, FiltersInv, NEW t \in Tids, NEW asked \in Queries, Query(t, asked)
    PROVE  FiltersInv'
  <1>1. PICK passed \in MayMatch(asked) : pending' = [pending EXCEPT ![t] =
           [query_id |-> 0, actual_match |-> asked \cap Present # {},
            counted |-> name # "seekrandom",
            filter_may_match |-> name # "seekrandom" /\ passed]]
    BY DEF Query
  <1>2. at' = [at EXCEPT ![t] = "got"] /\ written' = written /\ mem' = mem
    BY DEF Query, Goto, dbVars
  <1>3. asked \subseteq Keys
    BY BenchmarkAssumption DEF Queries, Keys
  <1>4. ASSUME ~written, asked \cap Present # {}
        PROVE  passed
    <2>1. \A k \in Keys : mem[k] = "none"
      BY <1>4 DEF FiltersInv, NoEntries
    <2>2. asked \cap tables # {} /\ asked # {}
      BY <1>4, <2>1 DEF Present
    <2>3. {k \in asked : mem[k] = "none"} = asked
      BY <1>3, <2>1
    <2>4. MayMatch(asked) = {TRUE}
      BY <2>2, <2>3 DEF MayMatch
    <2> QED
      BY <2>4
  <1>5. pending \in [Tids -> Events]
        /\ at \in [Tids -> {"none", "begin", "waiting", "gone"} \cup Running]
    BY DEF TypeOK
  <1>6. ASSUME NEW u \in Tids, at'[u] \in {"got", "line"}, ~written', pending'[u].counted,
               pending'[u].actual_match
        PROVE  pending'[u].filter_may_match
    <2>1. CASE u = t
      BY <1>1, <1>2, <1>4, <1>5, <1>6, <2>1
    <2>2. CASE u # t
      <3>1. at'[u] = at[u] /\ pending'[u] = pending[u]
        BY <1>1, <1>2, <1>5, <2>2
      <3> QED
        BY <1>2, <1>6, <3>1 DEF FiltersInv, FiltersAreTested
    <2> QED
      BY <2>1, <2>2
  <1> QED
    BY <1>2, <1>6 DEF FiltersInv, FiltersAreTested

LEMMA FiltersStep ==
    ASSUME TypeOK, ThreadsInv, FiltersInv, Next
    PROVE  FiltersInv'
  <1> USE DEF vars, listVars, sharedVars, dbVars, metricsVars
  <1>1. /\ at \in [Tids -> {"none", "begin", "waiting", "gone"} \cup Running]
        /\ pending \in [Tids -> Events]
    BY DEF TypeOK
  <1>2. ASSUME ~written' => ~written /\ mem' = NoEntries, NEW t \in Tids,
               \A u \in Tids : at'[u] \in {"got", "line"} =>
                  /\ at[u] \in {"got", "line"}
                  /\ pending'[u].counted = pending[u].counted
                  /\ pending'[u].actual_match = pending[u].actual_match
                  /\ pending'[u].filter_may_match = pending[u].filter_may_match
        PROVE  FiltersInv'
    BY <1>2 DEF FiltersInv, FiltersAreTested
  <1>3. ASSUME NEW t \in Tids, ~written' => ~written /\ mem' = NoEntries, pending' = pending,
               at' = at \/ \E place : place \notin {"got", "line"} /\ at' = [at EXCEPT ![t] = place]
        PROVE  FiltersInv'
    <2>1. \A u \in Tids : at'[u] \in {"got", "line"} => at[u] \in {"got", "line"}
      BY <1>1, <1>3
    <2> QED
      BY <1>2, <1>3, <2>1
  <1>4. ASSUME UNCHANGED <<written, mem, pending, at>>
        PROVE  FiltersInv'
    BY <1>4 DEF FiltersInv, FiltersAreTested
  <1>5. ASSUME NEW b \in Names, NextBenchmark(b)
        PROVE  FiltersInv'
    <2>1. main = "next" /\ at' = at
      BY <1>5 DEF NextBenchmark
    <2>2. \A t \in Tids : at'[t] \notin {"got", "line"}
      BY <2>1 DEF ThreadsInv
    <2>3. ~written' => mem' = NoEntries
      BY <1>5 DEF NextBenchmark, CompactRange, FiltersInv
    <2> QED
      BY <2>2, <2>3 DEF FiltersInv, FiltersAreTested
  <1>6. ASSUME NEW t \in Tids, StartThread(t) \/ Initialize(t) \/ Proceed(t) \/ Finish(t)
                               \/ WriterLooks(t)
        PROVE  FiltersInv'
    <2>1. /\ UNCHANGED <<written, mem, pending>>
          /\ \/ at' = at
             \/ \E place \in {"begin", "run", "waiting", "gone", "over", "put"} :
                  at' = [at EXCEPT ![t] = place]
      BY <1>6 DEF StartThread, Initialize, Proceed, Finish, WriterLooks, Goto
    <2>2. ~written' => ~written /\ mem' = NoEntries
      BY <2>1 DEF FiltersInv
    <2> QED
      BY <1>3, <2>1, <2>2
  <1>7. CASE AwaitStart \/ AwaitDone \/ EndOfList
    BY <1>4, <1>7 DEF AwaitStart, AwaitDone, EndOfList
  <1>8. CASE Report
    <2>1. UNCHANGED <<written, mem, pending>> /\ \A t \in Tids : at'[t] = "none"
      BY <1>8 DEF Report
    <2> QED
      BY <2>1 DEF FiltersInv, FiltersAreTested
  <1>9. ASSUME NEW t \in Tids, Compact(t)
        PROVE  FiltersInv'
    <2>1. mem' = NoEntries /\ UNCHANGED <<written, at, pending>>
      BY <1>9 DEF Compact, CompactRange
    <2> QED
      BY <1>3, <2>1
  <1>10. ASSUME NEW t \in Tids, TakeQueryId(t)
         PROVE  FiltersInv'
    <2>1. /\ pending' = [pending EXCEPT ![t].query_id = next_query_id] /\ at[t] = "got"
          /\ at' = [at EXCEPT ![t] = "line"] /\ UNCHANGED <<written, mem>>
      BY <1>10 DEF TakeQueryId, Goto
    <2>2. \A u \in Tids : at'[u] \in {"got", "line"} =>
             /\ at[u] \in {"got", "line"}
             /\ pending'[u].counted = pending[u].counted
             /\ pending'[u].actual_match = pending[u].actual_match
             /\ pending'[u].filter_may_match = pending[u].filter_may_match
      BY <1>1, <2>1 DEF Events
    <2>3. ~written' => ~written /\ mem' = NoEntries
      BY <2>1 DEF FiltersInv
    <2> QED
      BY <1>2, <2>2, <2>3
  <1>11. ASSUME NEW t \in Tids, Record(t)
         PROVE  FiltersInv'
    <2>1. /\ pending' = [pending EXCEPT ![t] = NoEvent] /\ at' = [at EXCEPT ![t] = "run"]
          /\ UNCHANGED <<written, mem>>
      BY <1>11 DEF Record, Goto
    <2>2. \A u \in Tids : at'[u] \in {"got", "line"} =>
             at[u] \in {"got", "line"} /\ pending'[u] = pending[u]
      BY <1>1, <2>1
    <2>3. ~written' => ~written /\ mem' = NoEntries
      BY <2>1 DEF FiltersInv
    <2> QED
      BY <1>2, <2>2, <2>3
  <1>12. ASSUME NEW t \in Tids, NEW k \in Keys, WriteKey(t, k) \/ WriterPuts(t, k)
         PROVE  FiltersInv'
    <2>1. written' = TRUE
      BY <1>12 DEF WriteKey, WriterPuts, Put
    <2> QED
      BY <2>1 DEF FiltersInv, FiltersAreTested
  <1>13. ASSUME NEW t \in Tids, WriteError(t)
         PROVE  FiltersInv'
    BY <1>4, <1>13 DEF WriteError
  <1>14. ASSUME NEW flushed \in SUBSET Keys, Flush(flushed)
         PROVE  FiltersInv'
    <2>1. /\ flushed # {} /\ (\A k \in flushed : mem[k] # "none")
          /\ UNCHANGED <<written, at, pending>>
      BY <1>14 DEF Flush
    <2>2. written
      BY <2>1 DEF FiltersInv, NoEntries
    <2> QED
      BY <2>1, <2>2 DEF FiltersInv, FiltersAreTested
  <1>15. ASSUME NEW t \in waiting, SpuriousWakeup(t)
         PROVE  FiltersInv'
    BY <1>4, <1>15 DEF SpuriousWakeup
  <1>16. CASE UNCHANGED vars
    BY <1>4, <1>16
  <1>17. ASSUME NEW t \in Tids, NEW asked \in Queries, Query(t, asked)
         PROVE  FiltersInv'
    BY <1>17, QueryPassesFilter
  <1> QED
    BY <1>5, <1>6, <1>7, <1>8, <1>9, <1>10, <1>11, <1>12, <1>13, <1>14, <1>15, <1>16, <1>17
       DEF Next, MainStep, ThreadStep

-----------------------------------------------------------------------------
(* The theorems.                                                           *)

LEMMA InitInv == Init => BenchmarkInv
  <1> SUFFICES ASSUME Init
               PROVE  BenchmarkInv
    OBVIOUS
  <1>1. Threads \in Nat /\ MaxBenchmarks \in Nat /\ MaxFailures \in Nat
    BY BenchmarkAssumption
  <1>2. /\ main = "next" /\ name = "" /\ ran = 0 /\ lines = <<>> /\ Len(lines) = 0
        /\ at = [t \in Tids |-> "none"] /\ done = [t \in Tids |-> 0] /\ written = TRUE
    BY DEF Init
  <1>3. \A t \in Tids : at[t] = "none" /\ at[t] \notin Running /\ at[t] \notin {"got", "line"}
    BY <1>2 DEF Running
  <1>4. TypeOK
    <2>1. NoEvent \in Events /\ NoEntries \in [Keys -> {"none", "value", "deletion"}]
      BY DEF NoEvent, Events, NoEntries
    <2>2. lines \in Seq([query_id : Nat, run : 1..MaxBenchmarks])
      <3>1. \A Line : <<>> \in Seq(Line)
        OBVIOUS
      <3> QED
        BY <1>2, <3>1
    <2>3. /\ 0 \in 0..MaxBenchmarks /\ 0 \in 0..(Threads + 1) /\ 0 \in 0..0 /\ 0 \in 0..MaxFailures
      BY <1>1
    <2> QED
      BY <2>1, <2>2, <2>3 DEF Init, TypeOK
  <1>5. ThreadsInv
    BY <1>2, <1>3 DEF ThreadsInv, Busy, ThreadsTogether
  <1>6. NumbersInv
    <2>1. 1..Len(lines) = {}
      <3>1. 1..0 = {}
        OBVIOUS
      <3> QED
        BY <1>2, <3>1
    <2> QED
      BY <1>3, <2>1 DEF NumbersInv
  <1>7. AccountsInv
    BY <1>2 DEF AccountsInv, Busy
  <1>8. FiltersInv
    BY <1>2 DEF FiltersInv, FiltersAreTested
  <1> QED
    BY <1>4, <1>5, <1>6, <1>7, <1>8 DEF BenchmarkInv

LEMMA StepInv ==
    ASSUME BenchmarkInv, [Next]_vars
    PROVE  BenchmarkInv'
  <1>1. TypeOK /\ ThreadsInv /\ NumbersInv /\ AccountsInv /\ FiltersInv
    BY DEF BenchmarkInv
  <1>2. CASE Next
    <2>1. TypeOK'
      BY <1>1, <1>2, TypeStep
    <2>2. ThreadsInv' /\ NumbersInv' /\ AccountsInv' /\ FiltersInv'
      BY <1>1, <1>2, <2>1, ThreadsStep, NumbersStep, AccountsStep, FiltersStep
    <2> QED
      BY <2>1, <2>2 DEF BenchmarkInv
  <1>3. CASE UNCHANGED vars
    <2> USE <1>1, <1>3 DEF vars, listVars, sharedVars, dbVars, metricsVars
    <2>1. TypeOK'
      BY DEF TypeOK
    <2>2. ThreadsInv'
      BY DEF ThreadsInv, Busy, Started, Initialized, Gone, ThreadsTogether
    <2>3. NumbersInv' /\ FiltersInv'
      BY DEF NumbersInv, FiltersInv, FiltersAreTested
    <2>4. AccountsInv'
      BY DEF AccountsInv, Busy, LinesOfRun
    <2> QED
      BY <2>1, <2>2, <2>3, <2>4 DEF BenchmarkInv
  <1> QED
    BY <1>2, <1>3

\* The counters of SharedState count the threads, numbers of queries are
\* never given twice, every count of a thread is a line or a lost one, and
\* there is no memtable while filters are measured.  (RunBenchmark,
\* ThreadBody, RecordQueryEvent, Run)
THEOREM BenchmarkInvariant == Spec => []BenchmarkInv
  BY InitInv, StepInv, PTL DEF Spec

\* The types of everything the driver keeps.
THEOREM BenchmarkTypeCorrect == Spec => []TypeOK
  <1>1. BenchmarkInv => TypeOK
    BY DEF BenchmarkInv
  <1> QED
    BY <1>1, BenchmarkInvariant, PTL

\* However many threads there are, whatever wakes them and in which order
\* they look: none measures before all are there, and SharedState is not
\* freed before the last one has let go of it.  (RunBenchmark, ThreadBody)
THEOREM Together == Spec => []ThreadsTogether
  <1>1. BenchmarkInv => ThreadsTogether
    BY DEF BenchmarkInv, ThreadsInv
  <1> QED
    BY <1>1, BenchmarkInvariant, PTL

\* Every query that is reported has a line with a number of its own in the
\* file, or is one that failed writes cost.  (RecordQueryEvent, Stats::Merge)
THEOREM EventsAccounted == Spec => []EventsAccountedFor
  <1>1. BenchmarkInv => EventsAccountedFor
    BY DEF BenchmarkInv, NumbersInv, AccountsInv, LinesOfRun, LinesIn, Busy, EventsAccountedFor
  <1> QED
    BY <1>1, BenchmarkInvariant, PTL

\* While nothing is written after the compaction before the first read
\* benchmark, a query that finds something was let into a table by a filter.
\* (Run, RecordQueryEvent)
THEOREM FiltersTested == Spec => []FiltersAreTested
  <1>1. BenchmarkInv => FiltersAreTested
    BY DEF BenchmarkInv, FiltersInv
  <1> QED
    BY <1>1, BenchmarkInvariant, PTL
=============================================================================
