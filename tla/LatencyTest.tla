----------------------------- MODULE LatencyTest -----------------------------
(***************************************************************************)
(* rt_test/latency/latency.cpp: timer threads measure how late they wake    *)
(* up and keep the lateness in their own histogram; main joins them one by  *)
(* one and prints.  Any error in a thread ends the whole process.           *)
(*                                                                          *)
(* The code's widths are scaled down: int has the range                     *)
(* -IntHalf..IntHalf-1 and a microsecond has Micro nanoseconds.             *)
(***************************************************************************)
EXTENDS Integers, FiniteSets

CONSTANTS
  Threads,      \* main starts and joins the threads 1..Threads
  iterations,   \* samples per thread
  IntHalf,      \* half the range of int
  Micro,        \* nanoseconds per microsecond
  HistN,        \* Histogram(n) has 2n buckets
  Lateness      \* how late, in ns, a wake-up may be (early if negative)

ASSUME LatencyAssumption ==
  /\ Threads \in Nat /\ iterations \in Nat /\ IntHalf \in Nat \ {0}
  /\ Micro \in Nat \ {0} /\ HistN \in Nat \ {0}
  /\ Lateness \subseteq Int

T == 1..Threads
buckets == 2 * HistN

VARIABLES
  state,      \* of each thread: "none", "setup", "asleep", "done"
  iter,       \* samples taken by each thread
  hist, overflow, underflow,   \* its histogram
  outside,    \* increments of each histogram outside its array
  late, early,   \* ghosts: samples at least HistN microseconds late, more than HistN early
  wrapped,    \* ghost: samples whose lateness in ns is not an int
  main,       \* "create", "join", "load", "print", "exit"
  joined,     \* main's loop variable
  printed,    \* what main printed of each thread: its samples
  exitcode    \* -1 while the process runs

counts == <<hist, overflow, underflow, outside, late, early, wrapped>>
vars == <<state, iter, counts, main, joined, printed, exitcode>>

Init ==
  /\ state = [t \in T |-> "none"] /\ iter = [t \in T |-> 0]
  /\ hist = [t \in T |-> [b \in 0..(buckets - 1) |-> 0]]
  /\ overflow = [t \in T |-> 0] /\ underflow = [t \in T |-> 0]
  /\ outside = [t \in T |-> 0]
  /\ late = [t \in T |-> 0] /\ early = [t \in T |-> 0]
  /\ wrapped = [t \in T |-> 0]
  /\ main = "create" /\ joined = 0
  /\ printed = [t \in T |-> -1]
  /\ exitcode = -1

Live == exitcode = -1

\* exit() by any thread ends the process.
Fails(code) ==
  /\ exitcode' = code
  /\ UNCHANGED <<state, iter, counts, main, joined, printed>>

\* Conversion of an int64_t to int, and C's division.
ToInt(x) == ((x + IntHalf) % (2 * IntHalf)) - IntHalf
Quotient(x) == IF x >= 0 THEN x \div Micro ELSE -((-x) \div Micro)

\* int delta = (int)(diff-timens(req))/1000: the cast comes first.
Delta(x) == Quotient(ToInt(x))
-----------------------------------------------------------------------------
\* check_privs and mlockall may fail before any thread is created.
MainFails == Live /\ main = "create" /\ joined = 0 /\ state = [t \in T |-> "none"] /\ Fails(1)

Create ==
  /\ Live /\ main = "create"
  /\ LET t == Cardinality({u \in T : state[u] # "none"}) + 1
     IN IF t \in T THEN state' = [state EXCEPT ![t] = "setup"] /\ UNCHANGED main
                   ELSE main' = "join" /\ UNCHANGED state
  /\ UNCHANGED <<iter, counts, joined, printed, exitcode>>

\* sched_setscheduler and mlockall, then the loop.
Setup(t) ==
  /\ Live /\ state[t] = "setup"
  /\ state' = [state EXCEPT ![t] = IF iterations = 0 THEN "done" ELSE "asleep"]
  /\ UNCHANGED <<iter, counts, main, joined, printed, exitcode>>

\* A call that fails; or the process dies of the memory it has overwritten.
ThreadFails(t) ==
  /\ Live
  /\ \/ state[t] = "setup" /\ \E code \in {255, 254} : Fails(code)
     \/ state[t] = "asleep" /\ Fails(1)
     \/ outside[t] > 0 /\ Fails(134)

\* Mutant: a sample just past the end is counted in the last bucket's successor.
AccPast(t, val) ==
  LET ndx == val + buckets \div 2
  IN IF ndx > buckets
     THEN overflow' = [overflow EXCEPT ![t] = @ + 1] /\ UNCHANGED <<hist, underflow, outside>>
     ELSE /\ underflow' = IF ndx < 0 THEN [underflow EXCEPT ![t] = @ + 1] ELSE underflow
          /\ IF ndx \in DOMAIN hist[t]
             THEN hist' = [hist EXCEPT ![t][ndx] = @ + 1] /\ UNCHANGED outside
             ELSE outside' = [outside EXCEPT ![t] = @ + 1] /\ UNCHANGED hist
          /\ UNCHANGED overflow

\* Mutant: a sample past the end is returned from without being counted.
AccDrops(t, val) ==
  LET ndx == val + buckets \div 2
  IN /\ hist' = IF ndx \in DOMAIN hist[t] THEN [hist EXCEPT ![t][ndx] = @ + 1] ELSE hist
     /\ UNCHANGED <<overflow, underflow, outside>>

\* Histogram::Acc.  A sample below the range is counted as an underflow and
\* then also written in front of the array.
Acc(t, val) ==
  LET ndx == val + buckets \div 2
  IN IF ndx >= buckets
     THEN overflow' = [overflow EXCEPT ![t] = @ + 1] /\ UNCHANGED <<hist, underflow, outside>>
     ELSE /\ underflow' = IF ndx < 0 THEN [underflow EXCEPT ![t] = @ + 1] ELSE underflow
          /\ IF ndx \in DOMAIN hist[t]
             THEN hist' = [hist EXCEPT ![t][ndx] = @ + 1] /\ UNCHANGED outside
             ELSE outside' = [outside EXCEPT ![t] = @ + 1] /\ UNCHANGED hist
          /\ UNCHANGED overflow

\* A thread wakes up and takes its sample.
Sample(t) ==
  /\ Live /\ state[t] = "asleep"
  /\ \E x \in Lateness :
       /\ Acc(t, Delta(x))
       /\ late' = IF Quotient(x) >= HistN THEN [late EXCEPT ![t] = @ + 1] ELSE late
       /\ early' = IF Quotient(x) < -HistN THEN [early EXCEPT ![t] = @ + 1] ELSE early
       /\ wrapped' = IF ToInt(x) # x THEN [wrapped EXCEPT ![t] = @ + 1] ELSE wrapped
  /\ iter' = [iter EXCEPT ![t] = @ + 1]
  /\ state' = [state EXCEPT ![t] = IF iter[t] + 1 = iterations THEN "done" ELSE "asleep"]
  /\ UNCHANGED <<main, joined, printed, exitcode>>

\* Mutant: main does not wait for the thread.
JoinAny ==
  /\ Live /\ main = "join" /\ joined < Threads
  /\ joined' = joined + 1
  /\ printed' = [printed EXCEPT ![joined + 1] = iter[joined + 1]]
  /\ UNCHANGED <<state, iter, counts, main, exitcode>>

\* pthread_join of the next thread; its quantiles are printed.
Join ==
  /\ Live /\ main = "join" /\ joined < Threads
  /\ state[joined + 1] = "done"
  /\ joined' = joined + 1
  /\ printed' = [printed EXCEPT ![joined + 1] = iter[joined + 1]]
  /\ UNCHANGED <<state, iter, counts, main, exitcode>>

\* Mutant: main joins one thread more than there are.
PrintAfterMore ==
  /\ Live /\ main = "join" /\ joined > Threads
  /\ main' = "exit"
  /\ UNCHANGED <<state, iter, counts, joined, printed, exitcode>>

\* exitf = 1, the load threads (which return at once) are joined, the
\* histograms are printed.
PrintHistograms ==
  /\ Live /\ main = "join" /\ joined = Threads
  /\ main' = "exit"
  /\ UNCHANGED <<state, iter, counts, joined, printed, exitcode>>

Exit ==
  /\ Live /\ main = "exit"
  /\ exitcode' = 0
  /\ UNCHANGED <<state, iter, counts, main, joined, printed>>

Main == Create \/ Join \/ PrintHistograms \/ Exit
Thread(t) == Setup(t) \/ Sample(t)

Next == Main \/ MainFails \/ \E t \in T : Thread(t) \/ ThreadFails(t)

\* Sleeping threads wake up; the kernel runs main and every thread.
Spec == Init /\ [][Next]_vars /\ WF_vars(Main) /\ \A t \in T : WF_vars(Thread(t))
-----------------------------------------------------------------------------
\* The samples in a thread's buckets, one pair for each.
Counted(t) == UNION {{b} \X (1..hist[t][b]) : b \in 0..(buckets - 1)}
InHist(t) == Cardinality(Counted(t))

NoneOutside == \A t \in T : outside[t] = 0

\* Every sample of a thread is counted exactly once (Histogram::Acc, lines
\* 55-67), as long as no histogram was written outside its array: after that
\* the counts may be overwritten too.
EachSampleOnce ==
  NoneOutside => \A t \in T : iter[t] = InHist(t) + overflow[t] + underflow[t]

\* A histogram is written outside its array only after a wake-up more than HistN
\* microseconds early, which takes a realtime clock set back, or one so late
\* that the cast to int wraps (lines 63-66 and 300).  Acc does not prevent it.
OutsideOnlyEarly == \A t \in T : outside[t] > 0 => early[t] + wrapped[t] > 0

\* While every lateness is an int and none was written outside, the overflow
\* count is the number of samples at least HistN microseconds late (line 300).
OverflowIsLate ==
  NoneOutside => \A t \in T : wrapped[t] = 0 => overflow[t] = late[t]

\* What main prints of a thread are all its samples, however the threads are
\* scheduled (main, lines 367-387).
PrintedComplete == \A t \in T : printed[t] \in {-1, iterations}

\* The program ends.
Ends == <>(exitcode # -1)
=============================================================================
