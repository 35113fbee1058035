---------------------------- MODULE MCTestSuite ----------------------------
(* TestSuite on two tests.                                                 *)
EXTENDS TestSuite
MCTests == <<"emactestVLAN", "emactestconnect">>
=============================================================================
