---------------------------- MODULE TestService ----------------------------
(***************************************************************************)
(* What the nightly-build automation promises, without scp, iwatch, shared  *)
(* files and queues: a build that is announced is tested once, on a board   *)
(* that tests one build at a time.                                          *)
(***************************************************************************)
CONSTANT Builds
VARIABLE stage   \* stage[b]: "unknown", "announced", "testing" or "tested"

Move(b, from, to) == stage[b] = from /\ stage' = [stage EXCEPT ![b] = to]

Init == stage = [b \in Builds |-> "unknown"]

Announce(b) == Move(b, "unknown", "announced")

Begin(b) ==
  /\ \A c \in Builds : stage[c] # "testing"
  /\ Move(b, "announced", "testing")

End(b) == Move(b, "testing", "tested")

Next == \E b \in Builds : Announce(b) \/ Begin(b) \/ End(b)

Safe == Init /\ [][Next]_stage

\* The board is given work as long as there is some, and ends it; and no
\* announced build is passed over for ever.
Spec ==
  /\ Safe
  /\ \A b \in Builds : WF_stage(End(b)) /\ SF_stage(Begin(b))
=============================================================================
