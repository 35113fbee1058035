----------------------------- MODULE TestSuite -----------------------------
(***************************************************************************)
(* The unattended run of the Ethernet tests: ethernet_test/test-suite/      *)
(* test.sh, which for every emactest*.exp reboots the board (reboottrgt.exp *)
(* with nbreboot.py and nbstatus.py, talking to the power switch called     *)
(* netbooter), runs the test and mails each result until mutt takes it.     *)
(***************************************************************************)
EXTENDS Integers, Sequences

CONSTANT Tests   \* the emactest*.exp files, in the order of the glob

ASSUME TestSuiteAssumption == Tests \in Seq(STRING)

VARIABLES
  f,             \* position in the for loop over the tests
  pc,            \* what test.sh and the script it started are doing
  phase,         \* in reboottrgt.exp: 1 nbreboot.py, 2 nbstatus.py
  retv,          \* retv of reboottrgt.exp
  spawned,       \* its spawn id: "open" or "closed"
  py,            \* the python script: "none", "reading", "exited"
  net,           \* the netbooter's answer, not yet read
  answered,      \* what the netbooter has sent of its answer, in full
  out,           \* what python printed
  rcode,         \* exit status to be reported
  globalStatus,
  reports,       \* the mails sent: what, and whether it says "Passed!"
  seen           \* ghost: the phases of this reboot that saw their pattern

script == <<phase, retv, spawned, seen>>
python == <<py, net, answered, out>>
suite == <<f, rcode, globalStatus, reports>>
suitevars == <<pc, script, python, suite>>

\* The pattern expected of each phase; the prompt ends an answer.
Expected(ph) == IF ph = 1 THEN "A0" ELSE "11111"
Refusal == "AF"

SuiteInit ==
  /\ f = 1 /\ pc = IF Tests = <<>> THEN "summary" ELSE "spawn"
  /\ phase = 1 /\ retv = -1 /\ spawned = "closed" /\ seen = {}
  /\ py = "none" /\ net = {} /\ answered = {} /\ out = {}
  /\ rcode = 0 /\ globalStatus = 0 /\ reports = <<>>
-----------------------------------------------------------------------------
(* The netbooter and the python scripts.                                   *)

\* The answer comes in two pieces: the result, then the prompt.
Answer ==
  /\ py = "reading" /\ answered = {}
  /\ \E a \in {Expected(phase), Refusal} : net' = {a} /\ answered' = {a}
  /\ UNCHANGED <<pc, script, suite, py, out>>

AnswerPrompt ==
  /\ py = "reading" /\ answered # {} /\ ">" \notin answered
  /\ net' = net \cup {">"} /\ answered' = answered \cup {">"}
  /\ UNCHANGED <<pc, script, suite, py, out>>

\* Mutant: the prompt is looked for behind the result only.
ReadWhole ==
  /\ py = "reading" /\ net # {}
  /\ net' = {}
  /\ IF ">" \in net /\ net # {">"} THEN out' = net /\ py' = "exited" ELSE UNCHANGED <<out, py>>
  /\ UNCHANGED <<pc, script, suite, answered>>

\* read_very_eager: data is overwritten with what has arrived since; it is
\* printed when it holds the prompt.
Read ==
  /\ py = "reading" /\ net # {}
  /\ net' = {}
  /\ IF ">" \in net THEN out' = net /\ py' = "exited" ELSE UNCHANGED <<out, py>>
  /\ UNCHANGED <<pc, script, suite, answered>>

\* The netbooter refuses or drops the connection: python dies of an exception
\* with nothing of the answer printed.
Break ==
  /\ py = "reading"
  /\ py' = "exited" /\ net' = {} /\ out' = {}
  /\ UNCHANGED <<pc, script, suite, answered>>
-----------------------------------------------------------------------------
(* reboottrgt.exp.                                                         *)

\* python is started; it connects and sends its command.
Spawn ==
  /\ pc = "spawn"
  /\ pc' = "expect"
  /\ py' = "reading" /\ net' = {} /\ answered' = {} /\ out' = {}
  /\ spawned' = "open"
  /\ UNCHANGED <<phase, retv, seen, suite>>

ExpectMatch ==
  /\ pc = "expect" /\ Expected(phase) \in out
  /\ retv' = 0
  /\ seen' = seen \cup {phase}
  /\ pc' = "wait"
  /\ UNCHANGED <<phase, spawned, python, suite>>

\* The end of the output closes the spawn id.
ExpectEof ==
  /\ pc = "expect" /\ py = "exited" /\ Expected(phase) \notin out
  /\ spawned' = "closed"
  /\ pc' = "wait"
  /\ UNCHANGED <<phase, retv, seen, python, suite>>

\* Mutant: a timeout leaves the result of the first phase in place.
ExpectTimeoutKeeps ==
  /\ pc = "expect" /\ py = "reading"
  /\ pc' = "wait"
  /\ UNCHANGED <<script, python, suite>>

ExpectTimeout ==
  /\ pc = "expect" /\ py = "reading"
  /\ retv' = -1
  /\ pc' = "wait"
  /\ UNCHANGED <<phase, spawned, seen, python, suite>>

\* wait has no timeout.
Wait ==
  /\ pc = "wait" /\ py = "exited"
  /\ pc' = "connect"
  /\ UNCHANGED <<script, python, suite>>

\* connect types at the exited python: an error that ends the script if its
\* spawn id is closed already, otherwise the end of its output.
Connect ==
  /\ pc = "connect"
  /\ IF spawned = "closed"
     THEN rcode' = 1 /\ pc' = "report_reboot" /\ UNCHANGED <<phase, spawned>>
     ELSE /\ spawned' = "closed"
          /\ IF phase = 1 THEN pc' = "spawn" /\ phase' = 2 /\ UNCHANGED rcode
             ELSE pc' = "report_reboot" /\ rcode' = (IF retv = 0 THEN 0 ELSE 255) /\ UNCHANGED phase
  /\ UNCHANGED <<retv, seen, python, f, globalStatus, reports>>
-----------------------------------------------------------------------------
(* test.sh.                                                                *)

Mail(what, passed) == reports' = Append(reports, [what |-> what, passed |-> passed])

\* Mutant: the reboot's result is not looked at.
ReportReboot0 ==
  /\ pc = "report_reboot"
  /\ Mail("Reboot_Target", rcode = 0)
  /\ pc' = "test"
  /\ UNCHANGED <<script, python, f, rcode, globalStatus>>

\* chkAndReport.  The attempts at mailing that fail (email_message tries again
\* while mutt exits with 1) change nothing and are stuttering steps.
ReportReboot ==
  /\ pc = "report_reboot"
  /\ globalStatus' = IF rcode = 0 THEN globalStatus ELSE 1
  /\ Mail("Reboot_Target", rcode = 0)
  /\ pc' = "test"
  /\ UNCHANGED <<script, python, f, rcode>>

RunTest ==
  /\ pc = "test"
  /\ rcode' \in {0, 1}
  /\ pc' = "report_test"
  /\ UNCHANGED <<script, python, f, globalStatus, reports>>

ReportTest ==
  /\ pc = "report_test"
  /\ globalStatus' = IF rcode = 0 THEN globalStatus ELSE 1
  /\ Mail(Tests[f], rcode = 0)
  /\ f' = f + 1
  /\ pc' = IF f < Len(Tests) THEN "spawn" ELSE "summary"
  /\ phase' = 1 /\ retv' = -1 /\ seen' = {}
  /\ UNCHANGED <<spawned, python, rcode>>

Summary ==
  /\ pc = "summary"
  /\ Mail("Tests_Complete", globalStatus = 0)
  /\ pc' = "done"
  /\ UNCHANGED <<script, python, f, rcode, globalStatus>>

Steps == Spawn \/ ExpectMatch \/ ExpectEof \/ ExpectTimeout \/ Wait \/ Connect
         \/ ReportReboot \/ RunTest \/ ReportTest \/ Summary
Netbooter == Answer \/ AnswerPrompt

SuiteNext == Steps \/ Read \/ Netbooter \/ Break

\* The scripts run on; mutt takes a mail in the end (weak fairness of the
\* reports rests on that); a netbooter that is not silent answers.
Fairness == WF_suitevars(Steps) /\ WF_suitevars(Read)
SuiteSpec == SuiteInit /\ [][SuiteNext]_suitevars /\ Fairness
AnsweringSpec == SuiteSpec /\ WF_suitevars(Netbooter)
-----------------------------------------------------------------------------
\* The summary says that all tests passed exactly when every mail before it
\* says so (test.sh:30-33).
SummaryAgrees ==
  pc = "done" =>
    (reports[Len(reports)].passed <=> \A m \in 1..(Len(reports) - 1) : reports[m].passed)

\* A reboot is reported as passed only if the switch has shown all its ports
\* to be on after it (reboottrgt.exp:18-24).
PassedPortsOn == (pc = "report_reboot" /\ rcode = 0) => 2 \in seen

\* A reboot is reported as passed only if the switch has confirmed it (test.sh:
\* 35, "status to check. 0 for pass, otherwise a failure"; reboottrgt.exp:7-12).
PassedRebooted == (pc = "report_reboot" /\ rcode = 0) => 1 \in seen

\* With a netbooter that answers the suite runs to its summary.
Completes == <>(pc = "done")
=============================================================================
