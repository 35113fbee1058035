----------------------------- MODULE OnlineStats -----------------------------
(***************************************************************************)
(* The class OnlineStats of rt_test/latency/OnlineStats.h: mean, moments,   *)
(* least and greatest of the samples, updated sample by sample.  double is  *)
(* modelled by exact fractions <<numerator, denominator>>, so what is       *)
(* checked is the recurrence and not its rounding.                          *)
(***************************************************************************)
EXTENDS Integers, Sequences, SequencesExt

CONSTANTS
  Values,      \* samples
  MaxPushes    \* bound on their number

VARIABLES
  s_samples, m_mean, m_moment2, m_moment3, m_moment4, m_min, m_max,
  pushed       \* ghost: the samples

svars == <<s_samples, m_mean, m_moment2, m_moment3, m_moment4, m_min, m_max, pushed>>

Abs(a) == IF a < 0 THEN -a ELSE a
gcd[a \in Nat, b \in Nat] == IF b = 0 THEN a ELSE gcd[b, a % b]
Frac(a, b) == LET g == gcd[Abs(a), Abs(b)] IN <<a \div g, b \div g>>
Add(x, y) == Frac(x[1] * y[2] + y[1] * x[2], x[2] * y[2])
Mul(x, y) == LET u == Frac(x[1], y[2])
                 v == Frac(y[1], x[2])
             IN <<u[1] * v[1], u[2] * v[2]>>
Times(k, x) == Mul(<<k, 1>>, x)
Sub(x, y) == Add(x, Times(-1, y))

Init ==
  /\ s_samples = 0 /\ pushed = <<>> /\ m_min = 0 /\ m_max = 0
  /\ m_mean = <<0, 1>> /\ m_moment2 = <<0, 1>> /\ m_moment3 = <<0, 1>> /\ m_moment4 = <<0, 1>>

ZeroStats ==
  /\ s_samples' = 0 /\ pushed' = <<>>
  /\ m_mean' = <<0, 1>> /\ m_moment2' = <<0, 1>> /\ m_moment3' = <<0, 1>> /\ m_moment4' = <<0, 1>>
  /\ UNCHANGED <<m_min, m_max>>

Limits(x) ==
  /\ m_min' = IF s_samples = 0 \/ x < m_min THEN x ELSE m_min
  /\ m_max' = IF s_samples = 0 \/ x > m_max THEN x ELSE m_max

\* The three moments, each from the lower ones before they are changed.
Moments(n, delta, second) ==
  LET delta_n == Mul(delta, <<1, n>>)
      delta_n2 == Mul(delta_n, delta_n)
      term1 == Times(n - 1, Mul(delta, delta_n))
  IN /\ m_mean' = Add(m_mean, delta_n)
     /\ m_moment4' = Add(m_moment4,
          Sub(Add(Times(n * n - 3 * n + 3, Mul(term1, delta_n2)), Times(6, Mul(delta_n2, second))),
              Times(4, Mul(delta_n, m_moment3))))
     /\ m_moment3' = Add(m_moment3, Sub(Times(n - 2, Mul(term1, delta_n)),
                                        Times(3, Mul(delta_n, second))))
     /\ m_moment2' = Add(m_moment2, term1)

\* Mutant: the second moment is updated before it is used.
PushOrder(x) ==
  /\ s_samples < MaxPushes
  /\ LET n == s_samples + 1
         delta == Sub(<<x, 1>>, m_mean)
     IN Moments(n, delta, Add(m_moment2, Times(n - 1, Mul(delta, Mul(delta, <<1, n>>)))))
  /\ Limits(x)
  /\ s_samples' = s_samples + 1 /\ pushed' = Append(pushed, x)

Push(x) ==
  /\ s_samples < MaxPushes
  /\ Moments(s_samples + 1, Sub(<<x, 1>>, m_mean), m_moment2)
  /\ Limits(x)
  /\ s_samples' = s_samples + 1 /\ pushed' = Append(pushed, x)

Next == ZeroStats \/ \E x \in Values : Push(x)

-----------------------------------------------------------------------------
Power(x, k) == FoldLeft(LAMBDA p, j : Mul(p, x), <<1, 1>>, [j \in 1..k |-> j])
SumOf(F(_)) == FoldLeft(LAMBDA t, x : Add(t, F(x)), <<0, 1>>, pushed)
Central(k) == SumOf(LAMBDA x : Power(Sub(<<x, 1>>, m_mean), k))

\* The mean and the moments are those of the definition, the sums over all
\* samples since ZeroStats, and Min() and Max() are the least and the greatest
\* of them although ZeroStats leaves the old ones in place (lines 123-160).
StatsExact ==
  pushed # <<>> =>
    /\ Times(Len(pushed), m_mean) = SumOf(LAMBDA x : <<x, 1>>)
    /\ m_moment2 = Central(2) /\ m_moment3 = Central(3) /\ m_moment4 = Central(4)
    /\ {m_min, m_max} \subseteq Range(pushed) /\ Range(pushed) \subseteq m_min..m_max
=============================================================================
