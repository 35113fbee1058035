------------------------------- MODULE MCEnds --------------------------------
(* The latency test, or a link test on two rows, each under the fairness of  *)
(* its module: both have to end.                                             *)
EXTENDS MCLatencyTest, Sequences

CONSTANTS Speeds, s1000Support, Prompt30

VARIABLES
  prog,
  inq, buf, shell, link, applied, row, k, stage, hspeed, hduplex, tspeed, tduplex, rr, status

linkvars == <<inq, buf, shell, link, applied, row, k, stage, hspeed, hduplex, tspeed, tduplex,
              rr, status>>

\* 1000 full and 100 half of the advertisement table.
LinkRows == <<[speed |-> 1000, duplex |-> 1], [speed |-> 100, duplex |-> 0]>>
Link == INSTANCE LinkTest WITH Script <- "AdvTrgt", Rows <- LinkRows

Latency(A) == prog = "latency" /\ A /\ UNCHANGED <<prog, linkvars>>
Linking(A) == prog = "link" /\ A /\ UNCHANGED <<prog, vars>>

EndsInit ==
  /\ prog \in {"latency", "link"} /\ Init /\ Link!Init
  /\ prog = "latency" => link = Link!Down /\ shell = "shell"
EndsNext == Latency(Next) \/ Linking(Link!Next)
allvars == <<prog, vars, linkvars>>
EndsSpec ==
  /\ EndsInit /\ [][EndsNext]_allvars
  /\ WF_allvars(Latency(Main)) /\ \A t \in T : WF_allvars(Latency(Thread(t)))
  /\ WF_allvars(Linking(Link!Host))
-----------------------------------------------------------------------------
\* LatencyTest: the process ends, by itself or with the error of a thread
\* (latency.cpp, main).
LatencyEnds == prog = "latency" => Ends
\* LinkTest: whatever the board does, the script ends with an exit status
\* (testlib.exp:134).
LinkEnds == prog = "link" => Link!Terminates
=============================================================================
