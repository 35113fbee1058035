-------------------------- MODULE QuantileEstimator --------------------------
(***************************************************************************)
(* The class QuantileEstimator of rt_test/latency/QuantileEstimator.h: the  *)
(* P-square algorithm, which follows a quantile with five markers instead   *)
(* of keeping the samples.  push is one call; the loop over the markers 2   *)
(* to 4 is unrolled into one step per marker so that what holds in the      *)
(* middle of it can be stated.                                              *)
(*                                                                          *)
(* The percentile m_perc is the fraction P/Q.  Desired positions np are     *)
(* kept exactly, in units of 1/(2Q).  Heights are integers: where the code  *)
(* computes a fraction, the model takes either of the integers next to it.  *)
(***************************************************************************)
EXTENDS Integers, Sequences

CONSTANTS
  Samples,      \* the values that may be pushed
  P, Q,         \* m_perc = P/Q
  MaxSamples    \* bound on the number of pushes

ASSUME QuantileAssumption ==
  /\ Samples \subseteq Int
  /\ P \in Nat /\ Q \in Nat \ {0} /\ P <= Q
  /\ MaxSamples \in Nat

M == 1..5

VARIABLES
  m_samples,   \* number of samples pushed
  firstfive,   \* the first five samples
  q, n, np,    \* marker heights, positions and desired positions
  i,           \* the loop over the markers: 2..4, 5 at its end, 0 outside push
  ret,         \* what the last push returned
  lo, hi       \* ghosts: the least and the greatest sample

estvars == <<m_samples, firstfive, q, n, np, i, ret, lo, hi>>

Unit == 2 * Q
FirstNp == <<Unit, Unit + 4 * P, Unit + 8 * P, 3 * Unit + 4 * P, 5 * Unit>>
Dn == <<0, P, 2 * P, Q + P, Unit>>

\* memset(marker, 0, sizeof(marker)).
Zero == [j \in M |-> 0]

EstInit ==
  /\ m_samples = 0 /\ firstfive = <<>>
  /\ q = Zero /\ n = Zero /\ np = Zero
  /\ i = 0 /\ ret = 0 /\ lo = 0 /\ hi = 0

Seen(x) ==
  /\ lo' = IF m_samples = 0 \/ x < lo THEN x ELSE lo
  /\ hi' = IF m_samples = 0 \/ x > hi THEN x ELSE hi
  /\ m_samples' = m_samples + 1

\* The first five samples are only stored.
Store(x) ==
  /\ i = 0 /\ m_samples < 5 /\ m_samples < MaxSamples
  /\ firstfive' = Append(firstfive, x)
  /\ ret' = 0
  /\ Seen(x)
  /\ UNCHANGED <<q, n, np, i>>

\* The cell k of sample x, and the positions and heights after counting it.
Cell(x, q0) ==
  IF x < q0[2] THEN 1 ELSE IF x < q0[3] THEN 2 ELSE IF x < q0[4] THEN 3 ELSE 4

\* Mutant: the height of the last marker is never raised.
CountLow(x, q0, n0, np0) ==
  /\ q' = [q0 EXCEPT ![1] = IF x < @ THEN x ELSE @]
  /\ n' = [j \in M |-> IF j > Cell(x, q0) THEN n0[j] + 1 ELSE n0[j]]
  /\ np' = [j \in M |-> np0[j] + Dn[j]]
  /\ i' = 2
  /\ UNCHANGED <<firstfive, ret>>

Count(x, q0, n0, np0) ==
  /\ q' = [q0 EXCEPT ![1] = IF x < @ THEN x ELSE @, ![5] = IF x > @ THEN x ELSE @]
  /\ n' = [j \in M |-> IF j > Cell(x, q0) THEN n0[j] + 1 ELSE n0[j]]
  /\ np' = [j \in M |-> np0[j] + Dn[j]]
  /\ i' = 2
  /\ UNCHANGED <<firstfive, ret>>

\* std::sort: some arrangement of the first five is ascending.
Sorts(p) ==
  /\ \A b \in M : \E a \in M : p[a] = b
  /\ \A a, b \in M : a < b => firstfive[p[a]] <= firstfive[p[b]]

\* The sixth sample sets the markers up from the first five.
PushSixth(x) ==
  /\ i = 0 /\ m_samples = 5 /\ m_samples < MaxSamples
  /\ \E p \in [M -> M] :
       /\ Sorts(p)
       /\ Count(x, [j \in M |-> firstfive[p[j]]], [j \in M |-> j], FirstNp)
  /\ Seen(x)

Push(x) ==
  /\ i = 0 /\ m_samples > 5 /\ m_samples < MaxSamples
  /\ Count(x, q, n, np)
  /\ Seen(x)

\* v is one of the integers next to num/den.
Near(v, num, den) == v * den - num < den /\ num - v * den < den

\* ParabolicEstimate as a fraction.
ParabolicDen(j) == (n[j + 1] - n[j - 1]) * ((n[j + 1] - n[j]) * (n[j] - n[j - 1]))
ParabolicNum(j, d) ==
  LET up == n[j + 1] - n[j]
      down == n[j] - n[j - 1]
  IN q[j] * ParabolicDen(j)
     + d * ( (down + d) * (q[j + 1] - q[j]) * down
           + (up - d) * (q[j] - q[j - 1]) * up )

\* LinearEstimate as a fraction.
LinearDen(j, d) == IF d = 1 THEN n[j + 1] - n[j] ELSE n[j] - n[j - 1]
LinearNum(j, d) == q[j] * LinearDen(j, d) + (q[j + d] - q[j])

\* The parabola is used only where it stays strictly between the neighbours.
Fits(j, d) ==
  /\ q[j - 1] * ParabolicDen(j) < ParabolicNum(j, d)
  /\ ParabolicNum(j, d) < q[j + 1] * ParabolicDen(j)

\* Mutant: the parabola is used wherever it leads.
EstimateParabolic(v, j, d) == Near(v, ParabolicNum(j, d), ParabolicDen(j))

Estimate(v, j, d) ==
  IF Fits(j, d) THEN Near(v, ParabolicNum(j, d), ParabolicDen(j))
                ELSE Near(v, LinearNum(j, d), LinearDen(j, d))

\* Mutant: a marker may move onto its neighbour.
MovesOnto(j) ==
  LET di == np[j] - Unit * n[j]
  IN \/ di >= Unit /\ n[j + 1] - n[j] >= 1
     \/ di <= -Unit /\ n[j - 1] - n[j] <= -1

\* The marker is at least one off and there is room for it to move.
Moves(j) ==
  LET di == np[j] - Unit * n[j]
  IN \/ di >= Unit /\ n[j + 1] - n[j] > 1
     \/ di <= -Unit /\ n[j - 1] - n[j] < -1

Direction(j) == IF np[j] - Unit * n[j] >= 0 THEN 1 ELSE -1

\* Estimates stay between the outer markers (MarkersOrdered); the margin is
\* there for one that does not.
Heights == (q[1] - 1)..(q[5] + 1)

Adjust ==
  /\ i \in 2..4
  /\ i' = i + 1
  /\ IF Moves(i)
     THEN /\ \E v \in Heights : Estimate(v, i, Direction(i)) /\ q' = [q EXCEPT ![i] = v]
          /\ n' = [n EXCEPT ![i] = @ + Direction(i)]
     ELSE UNCHANGED <<q, n>>
  /\ UNCHANGED <<m_samples, firstfive, np, ret, lo, hi>>

Return ==
  /\ i = 5
  /\ i' = 0
  /\ ret' = IF P = 0 THEN q[1] ELSE IF P = Q THEN q[5] ELSE q[3]
  /\ UNCHANGED <<m_samples, firstfive, q, n, np, lo, hi>>

\* Mutant: the position of the marker instead of its height.
quantileOfPositions == n[3]

quantile == q[3]

EstNext == (\E x \in Samples : Store(x) \/ PushSixth(x) \/ Push(x)) \/ Adjust \/ Return

EstSpec == EstInit /\ [][EstNext]_estvars
-----------------------------------------------------------------------------
\* The shape of the state.
TypeOK ==
  /\ m_samples \in Nat
  /\ firstfive \in Seq(Samples) /\ Len(firstfive) = (IF m_samples < 5 THEN m_samples ELSE 5)
  /\ q \in [M -> Int] /\ n \in [M -> Int] /\ np \in [M -> Int]
  /\ i \in {0, 2, 3, 4, 5}
  /\ (i # 0 => m_samples > 5)
  /\ ret \in Int /\ lo \in Int /\ hi \in Int

\* The positions of the markers are strictly ascending from 1 to the number of
\* samples, in the middle of the loop too, so no estimate divides by zero; and
\* the heights are ascending (push, lines 177-204).
MarkersOrdered ==
  m_samples > 5 =>
    /\ n[1] = 1 /\ n[5] = m_samples
    /\ \A j \in 1..4 : n[j] < n[j + 1]
    /\ \A j \in 1..4 : q[j] <= q[j + 1]

\* The outer markers hold the least and the greatest sample, so that every
\* estimate lies between them (push, lines 161-175).
ExtremesExact == m_samples > 5 => q[1] = lo /\ q[5] = hi

\* From the sixth sample on, and in the middle of push too, quantile() lies
\* between the least and the greatest sample; before that the markers do not
\* exist yet and it is 0 (lines 129-133 and 217-221).
QuantileWithin == IF m_samples > 5 THEN lo <= quantile /\ quantile <= hi ELSE quantile = 0

\* "returns the current quantile" (QuantileEstimator.h:63): the quantile of the
\* samples pushed so far lies between the least and the greatest.
QuantileOfSamples == (m_samples > 0 /\ i = 0) => lo <= quantile /\ quantile <= hi

\* "Pushes a data observation to the estimator. Returns the current quantile"
\* (QuantileEstimator.h:58-59): what push returns is what quantile() returns.
PushReturnsQuantile == i = 0 => ret = quantile
=============================================================================
