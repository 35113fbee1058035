------------------------------ MODULE MCPrograms -----------------------------
(***************************************************************************)
(* The small programs of the tests, one of them at a time: those of         *)
(* TargetPrograms and TargetScripts, the TFTP test, and the two statistics  *)
(* of the latency test.                                                     *)
(***************************************************************************)
EXTENDS QuantileEstimator, TftpTest, TargetPrograms, TargetScripts, TLC

CONSTANTS Values, MaxPushes   \* OnlineStats

VARIABLES s_samples, m_mean, m_moment2, m_moment3, m_moment4, m_min, m_max, pushed

statvars == <<s_samples, m_mean, m_moment2, m_moment3, m_moment4, m_min, m_max, pushed>>

Stats == INSTANCE OnlineStats

ProgramsInit ==
  /\ \/ prog \in TargetNames \union {"quantile", "tftp", "stats"} /\ sh = "none"
     \/ prog = "none" /\ sh \in ScriptNames
  /\ TargetInit /\ ScriptsInit /\ EstInit /\ TftpInit /\ Stats!Init

ProgramsNext ==
  \/ TargetNext /\ UNCHANGED <<sh, scriptvars, estvars, tftpvars, statvars>>
  \/ ScriptsNext /\ UNCHANGED <<prog, targets, estvars, tftpvars, statvars>>
  \/ /\ prog = "quantile" /\ EstNext
     /\ UNCHANGED <<prog, sh, targets, scriptvars, tftpvars, statvars>>
  \/ /\ prog = "tftp" /\ TftpNext
     /\ UNCHANGED <<prog, sh, targets, scriptvars, estvars, statvars>>
  \/ /\ prog = "stats" /\ Stats!Next
     /\ UNCHANGED <<prog, sh, targets, scriptvars, estvars, tftpvars>>

ProgramsSpec ==
  ProgramsInit /\ [][ProgramsNext]_<<prog, sh, targets, scriptvars, estvars, tftpvars, statvars>>
-----------------------------------------------------------------------------
\* OnlineStats: the moments and limits are those of the definition.
StatsExact == Stats!StatsExact

MCScripts == <<"mmc", "usb", "mmc">>
MCDevice == [s \in {"mmc", "usb"} |-> IF s = "mmc" THEN "mmcblk0p4" ELSE "sda1"]
MCValues == {-1, 0, 3}
MCArguments == {<<>>, <<1, 0>>, <<0, 1, 0>>, <<2, 1, 0>>, <<15>>, <<16, 1>>}
Num(k, after) == [kind |-> "num", num |-> k, after |-> after]
Eq(k) == [kind |-> "eq", num |-> k, after |-> -2]
Opt(k) == [kind |-> "size", num |-> k, after |-> -2]
MCCommandLine ==
  {<<>>, <<Opt(1)>>, <<Num(0, -2), Num(1, -2)>>, <<Num(4095, -2)>>}
  \union {<<Opt(s), Num(p, -2), Num(c, -2)>> :
            s \in {1, 2, 4}, p \in {1, 4094, 4095, 4096, 8191}, c \in {0, 1, 2, 1024, 1025, 16383, 16385}}
  \union {<<Opt(s), Num(4095, v)>> : s \in {1, 2, 4}, v \in {0, 7}}
  \union {<<Num(4097, -1), Num(7, -2)>>, <<Num(4097, -2), Eq(7)>>, <<Num(4097, -2), Eq(-1)>>,
          <<Num(4097, -2), Eq(-1), Num(7, -2)>>, <<Num(4097, -1)>>}
=============================================================================
