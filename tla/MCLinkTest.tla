----------------------------- MODULE MCLinkTest -----------------------------
(* LinkTest on three rows of the scripts' tables.                   *)
EXTENDS LinkTest

\* 1000 full, 100 half and 10 full of the advertisement table.
MCAdvRows == <<AdvRow(1), AdvRow(10), AdvRow(14)>>
\* 10 full, 10 half and, to be skipped, 1000 half of the forced table.
MCForceRows == <<ForceRow(1), ForceRow(2), ForceRow(6)>>
=============================================================================
