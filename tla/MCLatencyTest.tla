---------------------------- MODULE MCLatencyTest ----------------------------
(* LatencyTest with samples at the edges of the histogram and of int.      *)
EXTENDS LatencyTest

\* In ns. -7 is below the histogram, -5 its first bucket, 3 its last, 4 above
\* it, 15 the largest int, 17 not an int: it wraps to -15.
MCLateness == {-7, -5, 3, 4, 15, 17}
=============================================================================
