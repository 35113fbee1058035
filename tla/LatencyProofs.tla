---------------------------- MODULE LatencyProofs ----------------------------
(***************************************************************************)
(* For any number of threads and samples and any histogram: what main prints *)
(* is complete, every sample is counted once, and when a histogram is      *)
(* written outside its array.  Below, the quantile estimator of the same   *)
(* program.                                                                *)
(***************************************************************************)
EXTENDS LatencyTest, QuantileEstimator, FiniteSetTheorems, TLAPS

Types ==
  /\ state \in [T -> {"none", "setup", "asleep", "done"}] /\ iter \in [T -> Nat]
  /\ hist \in [T -> [0..(buckets - 1) -> Nat]]
  /\ overflow \in [T -> Nat] /\ outside \in [T -> Nat]
  /\ late \in [T -> Nat] /\ early \in [T -> Nat] /\ wrapped \in [T -> Nat]
  /\ joined \in 0..Threads /\ printed \in [T -> Int]

\* The threads that main has created are the first ones.
CreatedFirst == \E c \in 0..Threads : \A u \in T : state[u] = "none" <=> u > c

\* A thread that has not begun has no sample, one that is done has them all.
IterInv ==
  \A t \in T : /\ state[t] \in {"none", "setup"} => iter[t] = 0
               /\ state[t] = "done" => iter[t] = iterations

\* OverflowIsLate without its proviso, which is about what a write outside the
\* array may do to the counts.
OverflowInv == \A t \in T : wrapped[t] = 0 => overflow[t] = late[t]

Inv == Types /\ CreatedFirst /\ IterInv /\ PrintedComplete /\ OutsideOnlyEarly /\ OverflowInv
-----------------------------------------------------------------------------
\* The cast and the division of line 300 give integers.
LEMMA DeltaInt == ASSUME NEW x \in Int PROVE ToInt(x) \in Int /\ Quotient(x) \in Int
<1>1. 2 * IntHalf \in Nat /\ 2 * IntHalf > 0
  BY LatencyAssumption
<1>2. \A a \in Int, b \in Nat : b > 0 => a % b \in Int
  OBVIOUS
<1>3. \A a \in Int, b \in Nat : b > 0 => a \div b \in Int
  OBVIOUS
<1>4. ToInt(x) \in Int
  BY <1>1, <1>2, LatencyAssumption DEF ToInt
<1>5. Quotient(x) \in Int
  BY <1>3, LatencyAssumption DEF Quotient
<1> QED
  BY <1>4, <1>5

\* Histogram(n) has its middle at bucket HistN.
LEMMA Middle == buckets \in Nat /\ buckets \div 2 = HistN /\ buckets = 2 * HistN
BY LatencyAssumption DEF buckets

\* The thread that main creates next has not been created.
LEMMA NextThread ==
  ASSUME Types, CreatedFirst
  PROVE  LET t == Cardinality({u \in T : state[u] # "none"}) + 1
         IN t \in T => /\ state[t] = "none"
                       /\ \A u \in T : state[u] = "none" <=> u >= t
<1>1. PICK c \in 0..Threads : \A u \in T : state[u] = "none" <=> u > c
  BY DEF CreatedFirst
<1>2. {u \in T : state[u] # "none"} = 1..c
  BY <1>1, LatencyAssumption DEF T
<1>3. Cardinality(1..c) = c
  BY <1>1, FS_Interval, LatencyAssumption
<1> DEFINE t == Cardinality({u \in T : state[u] # "none"}) + 1
<1>4. t = c + 1
  BY <1>2, <1>3
<1> HIDE DEF t
<1>5. t \in T => /\ state[t] = "none"
                 /\ \A u \in T : state[u] = "none" <=> u >= t
  BY <1>1, <1>4, LatencyAssumption DEF T
<1> QED
  BY <1>5 DEF t
-----------------------------------------------------------------------------
\* One more in the count of thread t.
Up(f, t) == [f EXCEPT ![t] = @ + 1]

\* Up counts one for t and nothing for the others.
LEMMA UpCounts ==
  ASSUME NEW f \in [T -> Nat], NEW t \in T
  PROVE  /\ Up(f, t) \in [T -> Nat] /\ Up(f, t) # f
         /\ Up(f, t)[t] = f[t] + 1
         /\ \A u \in T : u # t => Up(f, t)[u] = f[u]
<1>1. Up(f, t) \in [T -> Nat] /\ Up(f, t)[t] = f[t] + 1 /\ f[t] \in Nat
  BY DEF Up
<1>2. \A u \in T : u # t => Up(f, t)[u] = f[u]
  BY DEF Up
<1> QED
  BY <1>1, <1>2

\* Acc and the ghosts of one sample: a write outside the array is of a sample
\* that is too early or not an int, an overflow is of one that is late.
LEMMA SampleStep == ASSUME Inv, NEW t \in T, Sample(t) PROVE Inv'
<1> USE DEF Inv
<1>1. PICK x \in Lateness :
        /\ Acc(t, Delta(x))
        /\ late' = IF Quotient(x) >= HistN THEN Up(late, t) ELSE late
        /\ early' = IF Quotient(x) < -HistN THEN Up(early, t) ELSE early
        /\ wrapped' = IF ToInt(x) # x THEN Up(wrapped, t) ELSE wrapped
  BY DEF Sample, Up
<1>2. x \in Int /\ Quotient(x) \in Int /\ Delta(x) \in Int /\ HistN \in Nat
  BY <1>1, DeltaInt, LatencyAssumption DEF Delta
<1>3. ToInt(x) = x => Delta(x) = Quotient(x)
  BY DEF Delta
<1>a. DOMAIN hist[t] = 0..(2 * HistN - 1)
  BY Middle DEF Types
<1>b. Delta(x) \in -HistN..(HistN - 1) => Delta(x) + HistN \in 0..(2 * HistN - 1)
  BY <1>2
<1>c. Delta(x) + HistN >= 2 * HistN <=> Delta(x) >= HistN
  BY <1>2
<1>4. /\ overflow' = IF Delta(x) >= HistN THEN Up(overflow, t) ELSE overflow
      /\ outside' = outside \/ (outside' = Up(outside, t) /\ Delta(x) < -HistN)
  <2>1. CASE Delta(x) >= HistN
    BY <1>1, <1>c, <2>1, Middle DEF Acc, Up
  <2>2. CASE ~(Delta(x) >= HistN)
    <3>1. ~(Delta(x) + buckets \div 2 >= buckets)
      BY <1>c, <2>2, Middle
    <3>2. overflow' = overflow
      BY <1>1, <3>1 DEF Acc
    <3>3. Delta(x) + buckets \div 2 \in DOMAIN hist[t] => outside' = outside
      BY <1>1, <3>1 DEF Acc
    <3>4. Delta(x) + buckets \div 2 \notin DOMAIN hist[t] => outside' = Up(outside, t)
      BY <1>1, <3>1 DEF Acc, Up
    <3>5. Delta(x) + buckets \div 2 \notin DOMAIN hist[t] => Delta(x) < -HistN
      BY <1>2, <1>a, <1>b, <2>2, Middle
    <3> QED
      BY <2>2, <3>2, <3>3, <3>4, <3>5
  <2> QED
    BY <2>1, <2>2
<1>d. /\ late \in [T -> Nat] /\ early \in [T -> Nat] /\ wrapped \in [T -> Nat]
      /\ overflow \in [T -> Nat] /\ outside \in [T -> Nat]
  BY DEF Types
<1>e. /\ late'[t] = (IF Quotient(x) >= HistN THEN late[t] + 1 ELSE late[t])
      /\ \A u \in T : u # t => late'[u] = late[u]
  BY <1>1, <1>d, UpCounts, ZenonT(60)
<1>f. /\ early'[t] = (IF Quotient(x) < -HistN THEN early[t] + 1 ELSE early[t])
      /\ \A u \in T : u # t => early'[u] = early[u]
  BY <1>1, <1>d, UpCounts, ZenonT(60)
<1>g. /\ wrapped'[t] = (IF ToInt(x) # x THEN wrapped[t] + 1 ELSE wrapped[t])
      /\ \A u \in T : u # t => wrapped'[u] = wrapped[u]
  BY <1>1, <1>d, UpCounts
<1>h. /\ overflow'[t] = (IF Delta(x) >= HistN THEN overflow[t] + 1 ELSE overflow[t])
      /\ \A u \in T : u # t => overflow'[u] = overflow[u]
  BY <1>4, <1>d, UpCounts
<1>i. /\ outside'[t] = outside[t] \/ Delta(x) < -HistN
      /\ \A u \in T : u # t => outside'[u] = outside[u]
  BY <1>4, <1>d, UpCounts
<1>5. hist' \in [T -> [0..(buckets - 1) -> Nat]]
  <2> DEFINE ndx == Delta(x) + buckets \div 2
             h == [hist[t] EXCEPT ![ndx] = @ + 1]
  <2>1. hist' = hist \/ (ndx \in DOMAIN hist[t] /\ hist' = [hist EXCEPT ![t] = h])
    BY <1>1 DEF Acc
  <2>2. hist[t] \in [0..(buckets - 1) -> Nat] /\ hist \in [T -> [0..(buckets - 1) -> Nat]]
    BY DEF Types
  <2>3. ndx \in DOMAIN hist[t] => h \in [0..(buckets - 1) -> Nat]
    BY <2>2
  <2> HIDE DEF h, ndx
  <2> QED
    BY <2>1, <2>2, <2>3
<1>6. /\ iter' = [iter EXCEPT ![t] = @ + 1] /\ state[t] = "asleep"
      /\ state' = [state EXCEPT ![t] = IF iter[t] + 1 = iterations THEN "done" ELSE "asleep"]
      /\ UNCHANGED <<main, joined, printed, exitcode>>
  BY DEF Sample
<1>7. Types'
  <2>1. late' \in [T -> Nat] /\ early' \in [T -> Nat] /\ wrapped' \in [T -> Nat]
    BY <1>1, <1>d, UpCounts
  <2>2. overflow' \in [T -> Nat] /\ outside' \in [T -> Nat]
    BY <1>4, <1>d, UpCounts, ZenonT(60)
  <2>3. state' \in [T -> {"none", "setup", "asleep", "done"}] /\ iter' \in [T -> Nat]
    BY <1>6 DEF Types
  <2> QED
    BY <1>5, <1>6, <2>1, <2>2, <2>3 DEF Types
<1>8. CreatedFirst'
  BY <1>6 DEF CreatedFirst, Types
<1>9. IterInv'
  BY <1>6 DEF IterInv, Types
<1>10. PrintedComplete'
  BY <1>6 DEF PrintedComplete
<1>11. OutsideOnlyEarly'
  <2> SUFFICES ASSUME NEW u \in T, outside'[u] > 0 PROVE early'[u] + wrapped'[u] > 0
    BY DEF OutsideOnlyEarly
  <2>0. /\ early[u] \in Nat /\ wrapped[u] \in Nat /\ early'[u] \in Nat /\ wrapped'[u] \in Nat
        /\ outside[u] \in Nat
    BY <1>d, <1>7 DEF Types
  <2>1. CASE outside[u] > 0
    <3>1. early[u] + wrapped[u] > 0
      BY <2>1 DEF OutsideOnlyEarly
    <3>2. early'[u] >= early[u] /\ wrapped'[u] >= wrapped[u]
      BY <1>f, <1>g, <2>0
    <3> QED
      BY <2>0, <3>1, <3>2
  <2>2. CASE outside[u] = 0
    <3>1. u = t /\ Delta(x) < -HistN
      BY <1>i, <2>2
    <3>2. early'[t] = early[t] + 1 \/ wrapped'[t] = wrapped[t] + 1
      BY <1>3, <1>f, <1>g, <3>1
    <3> QED
      BY <2>0, <3>1, <3>2
  <2> QED
    BY <2>0, <2>1, <2>2
<1>12. OverflowInv'
  <2> SUFFICES ASSUME NEW u \in T, wrapped'[u] = 0 PROVE overflow'[u] = late'[u]
    BY DEF OverflowInv
  <2>1. CASE u # t
    BY <1>e, <1>g, <1>h, <2>1 DEF OverflowInv
  <2>2. CASE u = t
    <3>0. wrapped[t] \in Nat
      BY <1>d
    <3>1. ToInt(x) = x /\ wrapped[t] = 0
      BY <1>g, <2>2, <3>0
    <3>2. overflow[t] = late[t]
      BY <3>1 DEF OverflowInv
    <3> QED
      BY <1>3, <1>e, <1>h, <2>2, <3>1, <3>2
  <2> QED
    BY <2>1, <2>2
<1> QED
  BY <1>7, <1>8, <1>9, <1>10, <1>11, <1>12

\* The steps of main and the other steps of the threads.
LEMMA Step == ASSUME Inv, [Next]_vars PROVE Inv'
<1> USE DEF Inv
<1>1. CASE Create
  <2> DEFINE t == Cardinality({u \in T : state[u] # "none"}) + 1
  <2>1. t \in T => state[t] = "none" /\ \A u \in T : state[u] = "none" <=> u >= t
    BY NextThread
  <2>2. /\ IF t \in T THEN state' = [state EXCEPT ![t] = "setup"] ELSE state' = state
        /\ UNCHANGED <<iter, counts, joined, printed>>
    BY <1>1 DEF Create
  <2> HIDE DEF t
  <2>3. Types'
    BY <2>2 DEF counts, Types
  <2>4. CreatedFirst'
    <3>1. CASE t \in T
      <4>0. \A u \in T : u \in Int
        BY LatencyAssumption DEF T
      <4>1. \A u \in T : state'[u] = "none" <=> u > t
        <5> SUFFICES ASSUME NEW u \in T PROVE state'[u] = "none" <=> u > t
          OBVIOUS
        <5>1. CASE u = t
          BY <2>2, <3>1, <4>0, <5>1 DEF Types
        <5>2. CASE u # t
          <6>1. state'[u] = state[u]
            BY <2>2, <3>1, <5>2 DEF Types
          <6> QED
            BY <2>1, <3>1, <4>0, <5>2, <6>1
        <5> QED
          BY <5>1, <5>2
      <4> QED
        BY <3>1, <4>1, LatencyAssumption DEF CreatedFirst, T
    <3>2. CASE t \notin T
      BY <2>2, <3>2 DEF CreatedFirst
    <3> QED
      BY <3>1, <3>2
  <2>5. IterInv'
    BY <2>1, <2>2 DEF IterInv, Types
  <2> QED
    BY <2>2, <2>3, <2>4, <2>5 DEF counts, PrintedComplete, OutsideOnlyEarly, OverflowInv
<1>2. ASSUME NEW t \in T, Setup(t) PROVE Inv'
  <2>1. /\ state[t] = "setup" /\ UNCHANGED <<iter, counts, joined, printed>>
        /\ state' = [state EXCEPT ![t] = IF iterations = 0 THEN "done" ELSE "asleep"]
    BY <1>2 DEF Setup
  <2>2. Types' /\ CreatedFirst'
    BY <2>1 DEF counts, Types, CreatedFirst
  <2>3. IterInv'
    BY <2>1 DEF IterInv, Types
  <2> QED
    BY <2>1, <2>2, <2>3 DEF counts, PrintedComplete, OutsideOnlyEarly, OverflowInv
<1>3. ASSUME NEW t \in T, Sample(t) PROVE Inv'
  BY <1>3, SampleStep
<1>4. CASE Join
  <2>1. joined + 1 \in T /\ joined + 1 \in 0..Threads
    BY <1>4, LatencyAssumption DEF Join, T, Types
  <2>2. iter[joined + 1] = iterations
    BY <1>4, <2>1 DEF Join, IterInv
  <2>3. /\ joined' = joined + 1 /\ UNCHANGED <<state, iter, counts>>
        /\ printed' = [printed EXCEPT ![joined + 1] = iterations]
    BY <1>4, <2>2 DEF Join
  <2>4. Types'
    BY <2>1, <2>3, LatencyAssumption, SMTT(30) DEF counts, Types
  <2>5. PrintedComplete'
    BY <2>1, <2>3 DEF PrintedComplete, Types
  <2> QED
    BY <2>3, <2>4, <2>5 DEF counts, CreatedFirst, IterInv, OutsideOnlyEarly, OverflowInv
<1>5. CASE UNCHANGED <<state, iter, counts, joined, printed>>
  BY <1>5 DEF counts, Types, CreatedFirst, IterInv, PrintedComplete, OutsideOnlyEarly, OverflowInv
<1>6. CASE PrintHistograms \/ Exit \/ MainFails \/ (\E t \in T : ThreadFails(t)) \/ UNCHANGED vars
  BY <1>5, <1>6 DEF PrintHistograms, Exit, MainFails, ThreadFails, Fails, vars
<1> QED
  BY <1>1, <1>2, <1>3, <1>4, <1>6 DEF Next, Main, Thread

\* The invariant holds in every behaviour, fair or not.
LEMMA AlwaysInv == Spec => []Inv
<1>1. Init => Inv
  <2> SUFFICES ASSUME Init PROVE Inv
    OBVIOUS
  <2>1. Types
    BY LatencyAssumption DEF Init, Types
  <2>2. CreatedFirst
    <3>1. \A u \in T : state[u] = "none" <=> u > 0
      BY DEF Init, T
    <3> QED
      BY <3>1, LatencyAssumption DEF CreatedFirst
  <2> QED
    BY <2>1, <2>2 DEF Init, Inv, IterInv, PrintedComplete, OutsideOnlyEarly, OverflowInv
<1>2. Inv /\ [Next]_vars => Inv'
  BY Step
<1> QED
  BY <1>1, <1>2, PTL DEF Spec

\* What main prints of a thread are all its samples (latency.cpp 367-387).
THEOREM PrintedCompleteThm == Spec => []PrintedComplete
<1>1. Inv => PrintedComplete
  BY DEF Inv
<1> QED
  BY <1>1, AlwaysInv, PTL

\* A histogram is written outside its array only after a wake-up too early for
\* it or a lateness that is not an int (latency.cpp 63-66 and 300).
THEOREM OutsideThm == Spec => []OutsideOnlyEarly
<1>1. Inv => OutsideOnlyEarly
  BY DEF Inv
<1> QED
  BY <1>1, AlwaysInv, PTL

\* The overflow count is the number of late samples (latency.cpp 55-67, 300).
THEOREM OverflowThm == Spec => []OverflowIsLate
<1>1. Inv => OverflowIsLate
  BY DEF Inv, OverflowInv, OverflowIsLate
<1> QED
  BY <1>1, AlwaysInv, PTL
-----------------------------------------------------------------------------
(* Every sample is counted once: what the buckets hold is a set of pairs,    *)
(* and Acc adds one pair to it, or counts the sample elsewhere.              *)

Pairs(h) == UNION {{b} \X (1..h[b]) : b \in 0..(buckets - 1)}

\* One more sample in bucket b is one more pair.
LEMMA PairsUp ==
  ASSUME NEW h \in [0..(buckets - 1) -> Nat], NEW b \in 0..(buckets - 1)
  PROVE  LET new == <<b, h[b] + 1>>
         IN new \notin Pairs(h) /\ Pairs([h EXCEPT ![b] = @ + 1]) = Pairs(h) \union {new}
<1> DEFINE g == [h EXCEPT ![b] = @ + 1]
           new == <<b, h[b] + 1>>
<1>1. \A f, p : p \in Pairs(f) <=> \E c \in 0..(buckets - 1) : \E k \in 1..f[c] : p = <<c, k>>
  BY DEF Pairs
<1>2. h[b] \in Nat /\ g[b] = h[b] + 1 /\ \A c \in 0..(buckets - 1) : c # b => g[c] = h[c]
  OBVIOUS
<1>3. \A m \in Nat : m + 1 \notin 1..m /\ 1..(m + 1) = (1..m) \union {m + 1}
  OBVIOUS
<1> HIDE DEF g
<1>4. new \notin Pairs(h)
  <2> SUFFICES ASSUME NEW c \in 0..(buckets - 1), NEW k \in 1..h[c], new = <<c, k>> PROVE FALSE
    BY <1>1, Zenon
  <2>1. c = b /\ k = h[b] + 1
    OBVIOUS
  <2> QED
    BY <1>2, <1>3, <2>1
<1>5. Pairs(g) \subseteq Pairs(h) \union {new}
  <2> SUFFICES ASSUME NEW p \in Pairs(g) PROVE p \in Pairs(h) \union {new}
    BY Zenon
  <2>0. PICK c \in 0..(buckets - 1) : \E k \in 1..g[c] : p = <<c, k>>
    BY SMT DEF Pairs
  <2>a. PICK k \in 1..g[c] : p = <<c, k>>
    BY <2>0, Zenon
  <2>1. CASE c # b
    BY <1>1, <1>2, <2>a, <2>1, Zenon
  <2>2. CASE c = b
    <3>1. k \in 1..h[b] \/ k = h[b] + 1
      BY <1>2, <1>3, <2>2
    <3> QED
      BY <1>1, <2>a, <2>2, <3>1, Zenon
  <2> QED
    BY <2>1, <2>2
<1>6. Pairs(h) \union {new} \subseteq Pairs(g)
  <2>1. ASSUME NEW c \in 0..(buckets - 1), NEW k \in 1..h[c] PROVE <<c, k>> \in Pairs(g)
    <3>1. k \in 1..g[c]
      BY <1>2, <1>3
    <3> QED
      BY <1>1, <3>1, Zenon
  <2>2. h[b] + 1 \in 1..g[b]
    BY <1>2
  <2>3. new \in Pairs(g)
    BY <1>1, <2>2, Zenon
  <2>4. ASSUME NEW p \in Pairs(h) PROVE p \in Pairs(g)
    <3>1. PICK c \in 0..(buckets - 1) : \E k \in 1..h[c] : p = <<c, k>>
      BY SMT DEF Pairs
    <3> QED
      BY <2>1, <3>1, Zenon
  <2> QED
    BY <2>3, <2>4, Zenon
<1>7. Pairs(g) = Pairs(h) \union {new}
  BY <1>5, <1>6, Zenon
<1> QED
  BY <1>4, <1>7 DEF g

\* EachSampleOnce without its proviso: a sample outside the array is counted
\* as an underflow.
OnceInv ==
  /\ underflow \in [T -> Nat]
  /\ \A t \in T : /\ underflow[t] = outside[t]
                  /\ IsFiniteSet(Pairs(hist[t]))
                  /\ iter[t] = Cardinality(Pairs(hist[t])) + overflow[t] + outside[t]

\* What Acc does with a sample, one of three things.
LEMMA AccCases ==
  ASSUME Types, NEW t \in T, NEW v \in Int, Acc(t, v)
  PROVE  \/ overflow' = Up(overflow, t) /\ UNCHANGED <<hist, underflow, outside>>
         \/ underflow' = Up(underflow, t) /\ outside' = Up(outside, t) /\ UNCHANGED <<hist, overflow>>
         \/ /\ UNCHANGED <<underflow, outside, overflow>>
            /\ \E b \in 0..(buckets - 1) :
                 hist' = [hist EXCEPT ![t] = [hist[t] EXCEPT ![b] = @ + 1]]
<1> DEFINE ndx == v + buckets \div 2
<1>1. DOMAIN hist[t] = 0..(buckets - 1) /\ ndx \in Int /\ buckets \in Nat
  BY Middle, LatencyAssumption DEF Types
<1>2. CASE ndx >= buckets
  BY <1>2 DEF Acc, Up
<1>3. CASE ndx < 0
  <2>1. ndx \notin DOMAIN hist[t] /\ ~(ndx >= buckets)
    BY <1>1, <1>3
  <2> QED
    BY <1>3, <2>1 DEF Acc, Up
<1>4. CASE ndx \in 0..(buckets - 1)
  <2>1. ndx \in DOMAIN hist[t] /\ ~(ndx >= buckets) /\ ~(ndx < 0)
    BY <1>1, <1>4
  <2>2. UNCHANGED <<underflow, outside, overflow>>
    BY <2>1 DEF Acc
  <2>3. hist' = [hist EXCEPT ![t] = [hist[t] EXCEPT ![ndx] = @ + 1]]
    BY <2>1 DEF Acc
  <2> QED
    BY <1>4, <2>2, <2>3
<1> QED
  BY <1>1, <1>2, <1>3, <1>4

\* A sample is counted once, in its thread's histogram.
LEMMA SampleOnce == ASSUME Types, OnceInv, NEW t \in T, Sample(t) PROVE OnceInv'
<1>1. PICK x \in Lateness : Acc(t, Delta(x))
  BY DEF Sample
<1>2. Delta(x) \in Int
  BY DeltaInt, LatencyAssumption DEF Delta
<1>3. iter' = Up(iter, t)
  BY DEF Sample, Up
<1>4. /\ iter \in [T -> Nat] /\ overflow \in [T -> Nat] /\ outside \in [T -> Nat]
      /\ underflow \in [T -> Nat] /\ hist \in [T -> [0..(buckets - 1) -> Nat]]
  BY DEF Types, OnceInv
<1>5. /\ iter'[t] = iter[t] + 1 /\ \A u \in T : u # t => iter'[u] = iter[u]
  BY <1>3, <1>4, UpCounts
<1>6. \A u \in T : /\ underflow[u] = outside[u] /\ IsFiniteSet(Pairs(hist[u]))
                   /\ iter[u] = Cardinality(Pairs(hist[u])) + overflow[u] + outside[u]
                   /\ iter[u] \in Nat /\ Cardinality(Pairs(hist[u])) \in Nat
                   /\ overflow[u] \in Nat /\ outside[u] \in Nat
  BY <1>4, FS_CardinalityType DEF OnceInv
<1>7. CASE overflow' = Up(overflow, t) /\ UNCHANGED <<hist, underflow, outside>>
  <2>1. overflow'[t] = overflow[t] + 1 /\ \A u \in T : u # t => overflow'[u] = overflow[u]
    BY <1>4, <1>7, UpCounts
  <2>2. ASSUME NEW u \in T
        PROVE iter'[u] = Cardinality(Pairs(hist[u])) + overflow'[u] + outside[u]
    BY <1>5, <1>6, <2>1
  <2> QED
    BY <1>4, <1>6, <1>7, <2>2 DEF OnceInv
<1>8. CASE underflow' = Up(underflow, t) /\ outside' = Up(outside, t) /\ UNCHANGED <<hist, overflow>>
  <2>1. /\ outside'[t] = outside[t] + 1 /\ \A u \in T : u # t => outside'[u] = outside[u]
        /\ underflow'[t] = underflow[t] + 1 /\ \A u \in T : u # t => underflow'[u] = underflow[u]
        /\ underflow' \in [T -> Nat]
    BY <1>4, <1>8, UpCounts
  <2>2. ASSUME NEW u \in T
        PROVE iter'[u] = Cardinality(Pairs(hist[u])) + overflow[u] + outside'[u]
    <3>1. CASE u = t
      BY <1>5, <1>6, <2>1, <3>1
    <3>2. CASE u # t
      BY <1>5, <1>6, <2>1, <3>2
    <3> QED
      BY <3>1, <3>2
  <2>3. ASSUME NEW u \in T PROVE underflow'[u] = outside'[u]
    BY <1>6, <2>1
  <2> QED
    BY <1>6, <1>8, <2>1, <2>2, <2>3 DEF OnceInv
<1>9. ASSUME UNCHANGED <<underflow, outside, overflow>>, NEW b \in 0..(buckets - 1),
             hist' = [hist EXCEPT ![t] = [hist[t] EXCEPT ![b] = @ + 1]]
      PROVE OnceInv'
  <2> DEFINE new == <<b, hist[t][b] + 1>>
             h == hist[t]
  <2>1. hist'[t] = [h EXCEPT ![b] = @ + 1] /\ \A u \in T : u # t => hist'[u] = hist[u]
    BY <1>4, <1>9
  <2>2. h \in [0..(buckets - 1) -> Nat]
    BY <1>4
  <2>3. new \notin Pairs(h) /\ Pairs(hist'[t]) = Pairs(h) \union {new}
    <3> HIDE DEF h
    <3> QED
      BY <2>1, <2>2, PairsUp DEF h
  <2> HIDE DEF new
  <2>4. /\ IsFiniteSet(Pairs(hist'[t]))
        /\ Cardinality(Pairs(hist'[t])) = Cardinality(Pairs(hist[t])) + 1
    BY <1>6, <2>3, FS_AddElement
  <2>5. ASSUME NEW u \in T
        PROVE /\ IsFiniteSet(Pairs(hist'[u]))
              /\ iter'[u] = Cardinality(Pairs(hist'[u])) + overflow[u] + outside[u]
    <3>1. CASE u = t
      BY <1>5, <1>6, <2>4, <3>1
    <3>2. CASE u # t
      BY <1>5, <1>6, <2>1, <3>2
    <3> QED
      BY <3>1, <3>2
  <2> QED
    BY <1>4, <1>6, <1>9, <2>5 DEF OnceInv
<1> QED
  BY <1>1, <1>2, <1>7, <1>8, <1>9, AccCases DEF Types

\* Only a sample changes the counts.
LEMMA StepOnce == ASSUME Types, OnceInv, [Next]_vars PROVE OnceInv'
<1>1. ASSUME NEW t \in T, Sample(t) PROVE OnceInv'
  BY <1>1, SampleOnce
<1>2. CASE UNCHANGED <<iter, counts>>
  BY <1>2 DEF OnceInv, counts
<1>3. ASSUME NEW t \in T, Setup(t) \/ ThreadFails(t) PROVE UNCHANGED <<iter, counts>>
  BY <1>3 DEF Setup, ThreadFails, Fails
<1>4. CASE Main \/ MainFails \/ UNCHANGED vars
  BY <1>2, <1>4 DEF Main, Create, Join, PrintHistograms, Exit, MainFails, Fails, vars
<1> QED
  BY <1>1, <1>2, <1>3, <1>4 DEF Next, Thread

\* Every sample of a thread is counted exactly once (latency.cpp 55-67).
THEOREM EachSampleOnceThm == Spec => []EachSampleOnce
<1>1. Init => OnceInv
  <2> SUFFICES ASSUME Init PROVE OnceInv
    OBVIOUS
  <2>1. ASSUME NEW t \in T PROVE Pairs(hist[t]) = {}
    <3>1. \A b \in 0..(buckets - 1) : hist[t][b] = 0
      BY DEF Init
    <3>2. 1..0 = {}
      OBVIOUS
    <3> QED
      BY <3>1, <3>2 DEF Pairs
  <2>2. IsFiniteSet({}) /\ Cardinality({}) = 0
    BY FS_EmptySet
  <2>3. ASSUME NEW t \in T
        PROVE  underflow[t] = 0 /\ outside[t] = 0 /\ iter[t] = 0 /\ overflow[t] = 0
    BY DEF Init
  <2>4. underflow \in [T -> Nat]
    BY DEF Init
  <2>5. 0 + 0 + 0 = 0
    OBVIOUS
  <2> QED
    BY <2>1, <2>2, <2>3, <2>4, <2>5, Zenon DEF OnceInv
<1>2. Inv /\ OnceInv /\ [Next]_vars => OnceInv'
  BY StepOnce DEF Inv
<1>3. OnceInv => EachSampleOnce
  <2>1. \A t \in T : InHist(t) = Cardinality(Pairs(hist[t]))
    BY DEF InHist, Counted, Pairs
  <2> QED
    BY <2>1 DEF OnceInv, EachSampleOnce
<1> QED
  BY <1>1, <1>2, <1>3, AlwaysInv, PTL DEF Spec
-----------------------------------------------------------------------------
(* For every percentile and every sequence of samples the markers of         *)
(* QuantileEstimator stay ordered and the outer ones hold the extremes.      *)

\* The extremes are those of the samples stored.
StoredExtremes ==
  (m_samples > 0 /\ m_samples <= 5) =>
    /\ \A j \in 1..m_samples : lo <= firstfive[j] /\ firstfive[j] <= hi
    /\ \E j \in 1..m_samples : firstfive[j] = lo
    /\ \E j \in 1..m_samples : firstfive[j] = hi

\* The inductive invariant.
EstInv == TypeOK /\ StoredExtremes /\ MarkersOrdered /\ ExtremesExact
-----------------------------------------------------------------------------
\* An integer next to a fraction between two integers lies between them
\* (the estimates of push, lines 196-200).
LEMMA NearBetween ==
  ASSUME NEW v \in Int, NEW num \in Int, NEW den \in Int, den > 0,
         NEW u \in Int, NEW b \in Int,
         Near(v, num, den), u * den <= num, num <= b * den
  PROVE  u <= v /\ v <= b
<1>1. v < u => v * den <= u * den - den
  <2>1. SUFFICES ASSUME v < u PROVE v * den <= u * den - den
    OBVIOUS
  <2>2. (u - v - 1) * den >= 0
    <3>1. u - v - 1 >= 0
      BY <2>1
    <3> QED BY <3>1
  <2>3. (u - v - 1) * den = u * den - v * den - den
    OBVIOUS
  <2>4. v * den \in Int /\ u * den \in Int
    OBVIOUS
  <2> QED BY <2>2, <2>3, <2>4
<1>2. v > b => v * den >= b * den + den
  <2>1. SUFFICES ASSUME v > b PROVE v * den >= b * den + den
    OBVIOUS
  <2>2. (v - b - 1) * den >= 0
    <3>1. v - b - 1 >= 0
      BY <2>1
    <3> QED BY <3>1
  <2>3. (v - b - 1) * den = v * den - b * den - den
    OBVIOUS
  <2>4. v * den \in Int /\ b * den \in Int
    OBVIOUS
  <2> QED BY <2>2, <2>3, <2>4
<1>3. v * den \in Int /\ u * den \in Int /\ b * den \in Int
  OBVIOUS
<1> QED BY <1>1, <1>2, <1>3 DEF Near

\* The linear estimate lies between the two heights it joins (line 112).
LEMMA LinearBetween ==
  ASSUME NEW u \in Int, NEW b \in Int, NEW den \in Int, den >= 1
  PROVE  /\ u <= b => u * den <= u * den + (b - u) /\ u * den + (b - u) <= b * den
         /\ b <= u => b * den <= u * den + (b - u) /\ u * den + (b - u) <= u * den
<1>1. (b - u) * (den - 1) = b * den - u * den - (b - u)
  OBVIOUS
<1>2. u <= b => (b - u) * (den - 1) >= 0
  OBVIOUS
<1>3. b <= u => (b - u) * (den - 1) <= 0
  OBVIOUS
<1>4. u * den \in Int /\ b * den \in Int /\ (b - u) * (den - 1) \in Int
  OBVIOUS
<1> QED BY <1>1, <1>2, <1>3, <1>4

\* A product of positive numbers is positive.
LEMMA ProductPositive ==
  ASSUME NEW u \in Int, NEW b \in Int, u > 0, b > 0
  PROVE  u * b \in Int /\ u * b > 0
OBVIOUS
-----------------------------------------------------------------------------
\* An estimate of marker j stays between the heights of its neighbours, when
\* the markers are ordered and there is room in the direction of the move.
LEMMA EstimateBetween ==
  ASSUME NEW j \in 2..4, NEW d \in {1, -1}, NEW v \in Int,
         q \in [M -> Int], n \in [M -> Int],
         n[j - 1] < n[j], n[j] < n[j + 1],
         q[j - 1] <= q[j], q[j] <= q[j + 1],
         Estimate(v, j, d)
  PROVE  q[j - 1] <= v /\ v <= q[j + 1]
<1>1. /\ q[j - 1] \in Int /\ q[j] \in Int /\ q[j + 1] \in Int
      /\ n[j - 1] \in Int /\ n[j] \in Int /\ n[j + 1] \in Int
  BY DEF M
<1>2. ParabolicDen(j) \in Int /\ ParabolicDen(j) > 0
  <2>1. n[j + 1] - n[j] \in Int /\ n[j + 1] - n[j] > 0
    BY <1>1
  <2>2. n[j] - n[j - 1] \in Int /\ n[j] - n[j - 1] > 0
    BY <1>1
  <2>3. n[j + 1] - n[j - 1] \in Int /\ n[j + 1] - n[j - 1] > 0
    BY <1>1
  <2>4. /\ (n[j + 1] - n[j]) * (n[j] - n[j - 1]) \in Int
        /\ (n[j + 1] - n[j]) * (n[j] - n[j - 1]) > 0
    BY <2>1, <2>2, ProductPositive
  <2> QED BY <2>3, <2>4, ProductPositive DEF ParabolicDen
<1>3. CASE Fits(j, d)
  <2>1. Near(v, ParabolicNum(j, d), ParabolicDen(j))
    BY <1>3 DEF Estimate
  <2>2. ParabolicNum(j, d) \in Int
    BY <1>1, <1>2 DEF ParabolicNum
  <2>3. /\ q[j - 1] * ParabolicDen(j) <= ParabolicNum(j, d)
        /\ ParabolicNum(j, d) <= q[j + 1] * ParabolicDen(j)
    <3>1. q[j - 1] * ParabolicDen(j) \in Int /\ q[j + 1] * ParabolicDen(j) \in Int
      BY <1>1, <1>2
    <3> QED BY <1>3, <2>2, <3>1 DEF Fits
  <2> QED BY <1>1, <1>2, <2>1, <2>2, <2>3, NearBetween
<1>4. CASE ~ Fits(j, d)
  <2>1. Near(v, LinearNum(j, d), LinearDen(j, d))
    BY <1>4 DEF Estimate
  <2>2. LinearDen(j, d) \in Int /\ LinearDen(j, d) > 0 /\ LinearDen(j, d) >= 1
    BY <1>1 DEF LinearDen
  <2>3. q[j + d] \in Int
    BY <1>1
  <2>4. LinearNum(j, d) \in Int
    BY <1>1, <2>2, <2>3 DEF LinearNum
  <2>5. CASE d = 1
    <3>1. q[j] * LinearDen(j, d) <= LinearNum(j, d) /\ LinearNum(j, d) <= q[j + 1] * LinearDen(j, d)
      <4> DEFINE D == LinearDen(j, d)
      <4>1. LinearNum(j, d) = q[j] * D + (q[j + 1] - q[j])
        BY <2>5 DEF LinearNum
      <4>2. D \in Int /\ D >= 1
        BY <2>2
      <4> HIDE DEF D
      <4>3. q[j] * D <= q[j] * D + (q[j + 1] - q[j]) /\ q[j] * D + (q[j + 1] - q[j]) <= q[j + 1] * D
        BY <1>1, <4>2, LinearBetween
      <4> QED BY <4>1, <4>3 DEF D
    <3>2. q[j] <= v /\ v <= q[j + 1]
      BY <1>1, <2>1, <2>2, <2>4, <3>1, NearBetween
    <3> QED BY <1>1, <3>2
  <2>6. CASE d = -1
    <3>1. q[j - 1] * LinearDen(j, d) <= LinearNum(j, d) /\ LinearNum(j, d) <= q[j] * LinearDen(j, d)
      <4> DEFINE D == LinearDen(j, d)
      <4>1. LinearNum(j, d) = q[j] * D + (q[j - 1] - q[j])
        BY <2>6 DEF LinearNum
      <4>2. D \in Int /\ D >= 1
        BY <2>2
      <4> HIDE DEF D
      <4>3. q[j - 1] * D <= q[j] * D + (q[j - 1] - q[j]) /\ q[j] * D + (q[j - 1] - q[j]) <= q[j] * D
        BY <1>1, <4>2, LinearBetween
      <4> QED BY <4>1, <4>3 DEF D
    <3>2. q[j - 1] <= v /\ v <= q[j]
      BY <1>1, <2>1, <2>2, <2>4, <3>1, NearBetween
    <3> QED BY <1>1, <3>2
  <2> QED BY <2>5, <2>6
<1> QED BY <1>3, <1>4
-----------------------------------------------------------------------------
\* The initial state has the invariant.
LEMMA EstInitInv == EstInit => EstInv
BY QuantileAssumption DEF EstInit, EstInv, TypeOK, StoredExtremes, MarkersOrdered, ExtremesExact, Zero, M

\* Storing one of the first five samples preserves it.
LEMMA StoreInv == ASSUME EstInv, NEW x \in Samples, Store(x) PROVE EstInv'
<1> USE DEF EstInv
<1>0. x \in Int
  BY QuantileAssumption
<1>1. /\ m_samples \in 0..4 /\ m_samples' = m_samples + 1 /\ i = 0 /\ i' = 0
      /\ Len(firstfive) = m_samples /\ firstfive \in Seq(Samples)
      /\ firstfive' = Append(firstfive, x)
  BY DEF Store, Seen, TypeOK
<1>2. TypeOK'
  <2>1. firstfive' \in Seq(Samples) /\ Len(firstfive') = m_samples + 1
    BY <1>1
  <2>2. lo' \in Int /\ hi' \in Int
    BY <1>0 DEF TypeOK, Store, Seen
  <2> QED BY <1>1, <2>1, <2>2 DEF TypeOK, Store
<1>3. StoredExtremes'
  <2>1. \A j \in 1..m_samples : firstfive'[j] = firstfive[j] /\ firstfive[j] \in Int
    <3>1. TAKE j \in 1..m_samples
    <3>2. j \in 1..Len(firstfive)
      BY <1>1
    <3>3. firstfive[j] \in Samples
      BY <1>1, <3>2
    <3>4. firstfive'[j] = firstfive[j]
      BY <1>1, <3>2
    <3> QED BY <3>3, <3>4, QuantileAssumption
  <2>2. firstfive'[m_samples + 1] = x
    BY <1>1
  <2>3. 1..(m_samples + 1) = 1..m_samples \cup {m_samples + 1}
    BY <1>1
  <2>4. /\ lo' = IF m_samples = 0 \/ x < lo THEN x ELSE lo
        /\ hi' = IF m_samples = 0 \/ x > hi THEN x ELSE hi
    BY DEF Store, Seen
  <2>5. lo \in Int /\ hi \in Int
    BY DEF TypeOK
  <2>6. \A j \in 1..(m_samples + 1) : lo' <= firstfive'[j] /\ firstfive'[j] <= hi'
    BY <1>0, <1>1, <2>1, <2>2, <2>3, <2>4, <2>5, SMTT(30) DEF StoredExtremes
  <2>7. \E j \in 1..(m_samples + 1) : firstfive'[j] = lo'
    BY <1>0, <1>1, <2>1, <2>2, <2>3, <2>4, <2>5 DEF StoredExtremes
  <2>8. \E j \in 1..(m_samples + 1) : firstfive'[j] = hi'
    BY <1>0, <1>1, <2>1, <2>2, <2>3, <2>4, <2>5 DEF StoredExtremes
  <2> QED BY <1>1, <2>6, <2>7, <2>8 DEF StoredExtremes
<1> QED BY <1>1, <1>2, <1>3 DEF MarkersOrdered, ExtremesExact

\* The facts about the markers before a sample is counted that its counting
\* needs, with c samples so far.
Ready(q0, n0, np0, c) ==
  /\ q0 \in [M -> Int] /\ n0 \in [M -> Int] /\ np0 \in [M -> Int]
  /\ n0[1] = 1 /\ n0[5] = c
  /\ \A j \in 1..4 : n0[j] < n0[j + 1] /\ q0[j] <= q0[j + 1]
  /\ q0[1] = lo /\ q0[5] = hi

\* Counting a sample moves the outer heights and shifts the positions above
\* its cell (push, lines 159-183).
LEMMA CountInv ==
  ASSUME EstInv, NEW x \in Samples, NEW q0, NEW n0, NEW np0,
         m_samples >= 5, Ready(q0, n0, np0, m_samples),
         Count(x, q0, n0, np0), Seen(x)
  PROVE  EstInv'
<1> USE DEF EstInv
<1>0. x \in Int /\ m_samples \in Nat /\ m_samples' = m_samples + 1 /\ lo \in Int /\ hi \in Int
  BY QuantileAssumption DEF Seen, TypeOK
<1>1. /\ q0 \in [M -> Int] /\ n0 \in [M -> Int] /\ np0 \in [M -> Int]
      /\ q0[1] \in Int /\ q0[2] \in Int /\ q0[3] \in Int /\ q0[4] \in Int /\ q0[5] \in Int
      /\ n0[1] \in Int /\ n0[2] \in Int /\ n0[3] \in Int /\ n0[4] \in Int /\ n0[5] \in Int
  BY DEF Ready, M
<1>2. /\ n0[1] = 1 /\ n0[5] = m_samples
      /\ n0[1] < n0[2] /\ n0[2] < n0[3] /\ n0[3] < n0[4] /\ n0[4] < n0[5]
      /\ q0[1] <= q0[2] /\ q0[2] <= q0[3] /\ q0[3] <= q0[4] /\ q0[4] <= q0[5]
      /\ q0[1] = lo /\ q0[5] = hi
  BY DEF Ready
<1>3. Cell(x, q0) \in 1..4
  BY DEF Cell
<1>4. /\ q' = [q0 EXCEPT ![1] = IF x < @ THEN x ELSE @, ![5] = IF x > @ THEN x ELSE @]
      /\ n' = [j \in M |-> IF j > Cell(x, q0) THEN n0[j] + 1 ELSE n0[j]]
      /\ np' = [j \in M |-> np0[j] + Dn[j]]
      /\ i' = 2 /\ UNCHANGED <<firstfive, ret>>
  BY DEF Count
<1>5. /\ q'[1] = (IF x < q0[1] THEN x ELSE q0[1]) /\ q'[5] = (IF x > q0[5] THEN x ELSE q0[5])
      /\ q'[2] = q0[2] /\ q'[3] = q0[3] /\ q'[4] = q0[4]
      /\ q' \in [M -> Int]
  BY <1>0, <1>1, <1>4 DEF M
<1>6. n' \in [M -> Int]
  BY <1>1, <1>3, <1>4
<1>7. np' \in [M -> Int]
  <2>1. \A j \in M : Dn[j] \in Int
    BY QuantileAssumption DEF Dn, M, Unit
  <2> QED BY <1>1, <1>4, <2>1
<1>8. /\ lo' = (IF x < lo THEN x ELSE lo) /\ hi' = (IF x > hi THEN x ELSE hi)
  BY <1>0 DEF Seen
<1>9. TypeOK'
  <2>1. lo' \in Int /\ hi' \in Int
    BY <1>0, <1>8
  <2>2. Len(firstfive) = 5 /\ firstfive \in Seq(Samples) /\ ret \in Int
    BY <1>0 DEF TypeOK
  <2>3. Len(firstfive') = 5 /\ firstfive' \in Seq(Samples) /\ ret' \in Int
    BY <1>4, <2>2
  <2>4. m_samples' > 5 /\ m_samples' \in Nat /\ i' \in {0, 2, 3, 4, 5}
    BY <1>0, <1>4
  <2>5. Len(firstfive') = (IF m_samples' < 5 THEN m_samples' ELSE 5)
    BY <2>3, <2>4
  <2>6. q' \in [M -> Int]
    BY <1>5
  <2> QED BY <1>6, <1>7, <2>1, <2>3, <2>4, <2>5, <2>6 DEF TypeOK
<1>10. MarkersOrdered'
  <2>1. n'[1] = n0[1] /\ n'[5] = n0[5] + 1
    BY <1>1, <1>3, <1>4 DEF M
  <2>2. \A j \in 1..4 : n'[j] < n'[j + 1]
    <3>1. /\ n'[2] = (IF 2 > Cell(x, q0) THEN n0[2] + 1 ELSE n0[2])
          /\ n'[3] = (IF 3 > Cell(x, q0) THEN n0[3] + 1 ELSE n0[3])
          /\ n'[4] = (IF 4 > Cell(x, q0) THEN n0[4] + 1 ELSE n0[4])
      BY <1>4 DEF M
    <3> QED BY <1>1, <1>2, <1>3, <2>1, <3>1
  <2>3. \A j \in 1..4 : q'[j] <= q'[j + 1]
    BY <1>0, <1>1, <1>2, <1>5
  <2> QED BY <1>0, <1>2, <2>1, <2>2, <2>3 DEF MarkersOrdered
<1>11. ExtremesExact'
  BY <1>2, <1>5, <1>8 DEF ExtremesExact
<1>12. StoredExtremes'
  BY <1>0 DEF StoredExtremes
<1> QED BY <1>9, <1>10, <1>11, <1>12

\* The sixth sample.
LEMMA SixthInv == ASSUME EstInv, NEW x \in Samples, PushSixth(x) PROVE EstInv'
<1> USE DEF EstInv
<1>1. m_samples = 5 /\ Seen(x) /\ firstfive \in Seq(Samples) /\ Len(firstfive) = 5
  BY DEF PushSixth, TypeOK
<1>2. PICK p \in [M -> M] :
        /\ Sorts(p)
        /\ Count(x, [j \in M |-> firstfive[p[j]]], [j \in M |-> j], FirstNp)
  BY DEF PushSixth
<1> DEFINE q0 == [j \in M |-> firstfive[p[j]]]
           n0 == [j \in M |-> j]
<1>3. \A j \in M : firstfive[j] \in Int /\ lo <= firstfive[j] /\ firstfive[j] <= hi
  <2>1. \A j \in 1..5 : firstfive[j] \in Samples
    <3>1. TAKE j \in 1..5
    <3>2. j \in 1..Len(firstfive)
      BY <1>1
    <3>3. firstfive \in Seq(Samples)
      BY <1>1
    <3> QED BY <3>2, <3>3
  <2>2. \A j \in 1..5 : lo <= firstfive[j] /\ firstfive[j] <= hi
    BY <1>1 DEF StoredExtremes
  <2> QED BY <2>1, <2>2, QuantileAssumption DEF M
<1>4. q0 \in [M -> Int] /\ \A j \in M : q0[j] = firstfive[p[j]] /\ lo <= q0[j] /\ q0[j] <= hi
  BY <1>3
<1>5. \A u, b \in M : u < b => q0[u] <= q0[b]
  BY <1>2, <1>4 DEF Sorts
<1>6. lo \in Int /\ hi \in Int
  BY DEF TypeOK
<1>7. q0[1] = lo
  <2>1. PICK j \in M : firstfive[j] = lo
    BY <1>1 DEF StoredExtremes, M
  <2>2. PICK u \in M : p[u] = j
    BY <1>2 DEF Sorts
  <2>3. q0[u] = lo
    BY <1>4, <2>1, <2>2
  <2>4. q0[1] <= q0[u] /\ q0[1] \in Int /\ lo <= q0[1]
    BY <1>4, <1>5, <2>3 DEF M
  <2> HIDE DEF q0
  <2> QED BY <2>3, <2>4, <1>6
<1>8. q0[5] = hi
  <2>1. PICK j \in M : firstfive[j] = hi
    BY <1>1 DEF StoredExtremes, M
  <2>2. PICK u \in M : p[u] = j
    BY <1>2 DEF Sorts
  <2>3. q0[u] = hi
    BY <1>4, <2>1, <2>2
  <2>4. q0[u] <= q0[5] /\ q0[5] \in Int /\ q0[5] <= hi
    BY <1>4, <1>5, <2>3 DEF M
  <2> HIDE DEF q0
  <2> QED BY <2>3, <2>4, <1>6
<1>9. FirstNp \in [M -> Int]
  BY QuantileAssumption DEF FirstNp, M, Unit
<1>10. n0 \in [M -> Int] /\ n0[1] = 1 /\ n0[5] = 5 /\ \A j \in 1..4 : n0[j] < n0[j + 1]
  BY DEF M
<1>11. \A j \in 1..4 : q0[j] <= q0[j + 1]
  <2> HIDE DEF q0
  <2> QED BY <1>5 DEF M
<1>12. Count(x, q0, n0, FirstNp)
  BY <1>2
<1> HIDE DEF q0, n0
<1>13. Ready(q0, n0, FirstNp, m_samples)
  BY <1>1, <1>4, <1>7, <1>8, <1>9, <1>10, <1>11 DEF Ready
<1> QED BY <1>1, <1>12, <1>13, CountInv

\* A later sample.
LEMMA PushInv == ASSUME EstInv, NEW x \in Samples, Push(x) PROVE EstInv'
<1> USE DEF EstInv
<1>1. m_samples \in Nat /\ m_samples > 5 /\ Count(x, q, n, np) /\ Seen(x)
  BY DEF Push, TypeOK
<1>2. Ready(q, n, np, m_samples)
  BY <1>1 DEF Ready, TypeOK, MarkersOrdered, ExtremesExact
<1> QED BY <1>1, <1>2, CountInv

\* The adjustment of one marker (push, lines 186-204).
LEMMA AdjustInv == ASSUME EstInv, Adjust PROVE EstInv'
<1> USE DEF EstInv
<1>1. /\ i \in 2..4 /\ i' = i + 1 /\ m_samples \in Nat /\ m_samples > 5
      /\ UNCHANGED <<m_samples, firstfive, np, ret, lo, hi>>
      /\ q \in [M -> Int] /\ n \in [M -> Int] /\ np \in [M -> Int]
  BY DEF Adjust, TypeOK
<1>2. /\ n[1] = 1 /\ n[5] = m_samples
      /\ \A j \in 1..4 : n[j] < n[j + 1]
      /\ \A j \in 1..4 : q[j] <= q[j + 1]
      /\ q[1] = lo /\ q[5] = hi
  BY <1>1 DEF MarkersOrdered, ExtremesExact
<1>3. CASE ~ Moves(i)
  <2>1. UNCHANGED <<q, n>>
    BY <1>3 DEF Adjust
  <2>2. TypeOK'
    BY <1>1, <2>1 DEF TypeOK
  <2>3. MarkersOrdered' /\ ExtremesExact'
    BY <1>1, <1>2, <2>1 DEF MarkersOrdered, ExtremesExact
  <2>4. StoredExtremes'
    BY <1>1 DEF StoredExtremes
  <2> QED BY <2>2, <2>3, <2>4
<1>4. CASE Moves(i)
  <2> DEFINE d == Direction(i)
  <2>1. d \in {1, -1}
    BY DEF Direction
  <2>2. PICK v \in Heights : Estimate(v, i, d) /\ q' = [q EXCEPT ![i] = v]
    BY <1>4 DEF Adjust
  <2>3. n' = [n EXCEPT ![i] = @ + d]
    BY <1>4 DEF Adjust
  <2>4. v \in Int
    BY <2>2 DEF Heights
  <2>5. /\ n[i - 1] < n[i] /\ n[i] < n[i + 1] /\ q[i - 1] <= q[i] /\ q[i] <= q[i + 1]
    <3>1. i \in 1..4 /\ i - 1 \in 1..4 /\ (i - 1) + 1 = i
      BY <1>1
    <3> QED BY <1>2, <3>1
  <2>6. q[i - 1] <= v /\ v <= q[i + 1]
    BY <1>1, <2>1, <2>2, <2>4, <2>5, EstimateBetween
  <2>7. n[i - 1] < n[i] + d /\ n[i] + d < n[i + 1]
    <3>1. /\ n[i - 1] \in Int /\ n[i] \in Int /\ n[i + 1] \in Int /\ np[i] \in Int
          /\ Unit * n[i] \in Int /\ Unit \in Int /\ Unit > 0
      BY <1>1, QuantileAssumption DEF M, Unit
    <3>2. \/ d = 1 /\ n[i + 1] - n[i] > 1
          \/ d = -1 /\ n[i - 1] - n[i] < -1
      BY <1>4, <3>1 DEF Moves, Direction
    <3> QED BY <2>5, <3>1, <3>2
  <2> HIDE DEF d
  <2>8. q' \in [M -> Int] /\ q'[i] = v /\ \A j \in M : j # i => q'[j] = q[j]
    BY <1>1, <2>2, <2>4 DEF M
  <2>9. n' \in [M -> Int] /\ n'[i] = n[i] + d /\ \A j \in M : j # i => n'[j] = n[j]
    BY <1>1, <2>1, <2>3 DEF M
  <2>10. TypeOK'
    BY <1>1, <2>8, <2>9 DEF TypeOK
  <2>11. n'[1] = 1 /\ n'[5] = m_samples /\ q'[1] = lo /\ q'[5] = hi
    BY <1>1, <1>2, <2>8, <2>9 DEF M
  <2>12. \A j \in 1..4 : n'[j] < n'[j + 1]
    <3>1. TAKE j \in 1..4
    <3>2. j \in M /\ j + 1 \in M /\ n[j] < n[j + 1]
      BY <1>2 DEF M
    <3>3. CASE j = i
      BY <1>1, <2>7, <2>9, <3>2, <3>3
    <3>4. CASE j + 1 = i
      <4>1. j = i - 1
        BY <1>1, <3>4
      <4> QED BY <1>1, <2>7, <2>9, <3>2, <4>1
    <3>5. CASE j # i /\ j + 1 # i
      BY <2>9, <3>2, <3>5
    <3> QED BY <3>3, <3>4, <3>5
  <2>13. \A j \in 1..4 : q'[j] <= q'[j + 1]
    <3>1. TAKE j \in 1..4
    <3>2. j \in M /\ j + 1 \in M /\ q[j] <= q[j + 1]
      BY <1>2 DEF M
    <3>3. CASE j = i
      BY <1>1, <2>6, <2>8, <3>2, <3>3
    <3>4. CASE j + 1 = i
      <4>1. j = i - 1
        BY <1>1, <3>4
      <4> QED BY <1>1, <2>6, <2>8, <3>2, <4>1
    <3>5. CASE j # i /\ j + 1 # i
      BY <2>8, <3>2, <3>5
    <3> QED BY <3>3, <3>4, <3>5
  <2>14. MarkersOrdered' /\ ExtremesExact'
    BY <1>1, <2>11, <2>12, <2>13 DEF MarkersOrdered, ExtremesExact
  <2>15. StoredExtremes'
    BY <1>1 DEF StoredExtremes
  <2> QED BY <2>10, <2>14, <2>15
<1> QED BY <1>3, <1>4

\* Leaving push touches no marker.
LEMMA ReturnInv == ASSUME EstInv, Return PROVE EstInv'
<1> USE DEF EstInv
<1>1. /\ UNCHANGED <<m_samples, firstfive, q, n, np, lo, hi>> /\ i' = 0
      /\ q[1] \in Int /\ q[3] \in Int /\ q[5] \in Int
  BY DEF Return, TypeOK, M
<1>2. ret' \in Int
  BY <1>1 DEF Return
<1> QED BY <1>1, <1>2 DEF TypeOK, StoredExtremes, MarkersOrdered, ExtremesExact

\* Every step preserves the invariant.
LEMMA EstNextInv == EstInv /\ [EstNext]_estvars => EstInv'
<1> SUFFICES ASSUME EstInv, [EstNext]_estvars PROVE EstInv'
  OBVIOUS
<1>1. ASSUME NEW x \in Samples, Store(x) \/ PushSixth(x) \/ Push(x) PROVE EstInv'
  BY <1>1, StoreInv, SixthInv, PushInv
<1>2. CASE UNCHANGED estvars
  BY <1>2 DEF estvars, EstInv, TypeOK, StoredExtremes, MarkersOrdered, ExtremesExact
<1> QED BY <1>1, <1>2, AdjustInv, ReturnInv DEF EstNext

\* The inductive invariant holds in every behaviour.
THEOREM EstInvThm == EstSpec => []EstInv
BY EstInitInv, EstNextInv, PTL DEF EstSpec

\* For every percentile and every samples, the marker positions are strictly
\* ascending from 1 to the number of samples and the heights are ascending,
\* also in the middle of push: no estimate ever divides by zero.
THEOREM MarkersOrderedThm == EstSpec => []MarkersOrdered
<1>1. EstInv => MarkersOrdered
  BY DEF EstInv
<1> QED BY <1>1, EstInvThm, PTL

\* The outer markers hold the least and the greatest sample.
THEOREM ExtremesExactThm == EstSpec => []ExtremesExact
<1>1. EstInv => ExtremesExact
  BY DEF EstInv
<1> QED BY <1>1, EstInvThm, PTL

\* Until the sixth sample no marker has a height.
NoMarkers == m_samples <= 5 => q[3] = 0

\* A step that leaves m_samples at five or less leaves the heights alone: only
\* Store counts such a sample, and the loop over the markers starts after the
\* sixth.
LEMMA NoMarkersStep == EstInv /\ NoMarkers /\ [EstNext]_estvars => NoMarkers'
<1> SUFFICES ASSUME EstInv, NoMarkers, [EstNext]_estvars PROVE NoMarkers'
  OBVIOUS
<1>1. m_samples \in Nat /\ (i # 0 => m_samples > 5)
  BY DEF EstInv, TypeOK
<1>2. ASSUME NEW x \in Samples, Store(x) PROVE NoMarkers'
  BY <1>1, <1>2 DEF Store, Seen, NoMarkers
<1>3. ASSUME NEW x \in Samples, PushSixth(x) \/ Push(x) PROVE NoMarkers'
  BY <1>1, <1>3 DEF PushSixth, Push, Seen, NoMarkers
<1>4. CASE Adjust
  BY <1>1, <1>4 DEF Adjust, NoMarkers
<1>5. CASE Return
  BY <1>5 DEF Return, NoMarkers
<1>6. CASE UNCHANGED estvars
  BY <1>6 DEF estvars, NoMarkers
<1> QED BY <1>2, <1>3, <1>4, <1>5, <1>6 DEF EstNext

\* What quantile() returns lies between the least and the greatest sample from
\* the sixth sample on, and is 0 before.
THEOREM QuantileInRange == EstSpec => []QuantileWithin
<1>1. EstInv /\ NoMarkers => QuantileWithin
  <2>1. SUFFICES ASSUME EstInv, NoMarkers PROVE QuantileWithin
    OBVIOUS
  <2>2. m_samples \in Nat /\ \A j \in M : q[j] \in Int
    BY <2>1 DEF EstInv, TypeOK
  <2>3. CASE m_samples > 5
    <3>1. q[1] <= q[2] /\ q[2] <= q[3] /\ q[3] <= q[4] /\ q[4] <= q[5] /\ q[1] = lo /\ q[5] = hi
      BY <2>1, <2>3 DEF EstInv, MarkersOrdered, ExtremesExact
    <3> QED BY <2>2, <2>3, <3>1 DEF M, QuantileWithin, quantile
  <2>4. CASE m_samples <= 5
    BY <2>1, <2>2, <2>4 DEF NoMarkers, QuantileWithin, quantile
  <2> QED BY <2>2, <2>3, <2>4
<1>2. EstInit => NoMarkers
  BY DEF EstInit, NoMarkers, Zero, M
<1> QED BY <1>1, <1>2, EstInvThm, NoMarkersStep, PTL DEF EstSpec
=============================================================================
