--------------------------- MODULE StatusScripts ---------------------------
(***************************************************************************)
(* clocks/test_clk.sh and sysid_test/sysid-test-header.sh, which end with   *)
(* PASS when no check has set status_fail.                                  *)
(*                                                                          *)
(* A sysid device is there when the overlay that brings it is applied; an   *)
(* overlay may be taken by the kernel and bring nothing, and may stay when  *)
(* it is removed.                                                           *)
(***************************************************************************)
EXTENDS Integers, Sequences

CONSTANT MaxStRuns   \* bound on the runs of the scripts

\* What sysid-test-header.sh does: an overlay, which brings the device of that
\* name, and the devices expected after it.
Steps ==
  <<[op |-> "apply", overlay |-> "static", expected |-> {"static"}],
    [op |-> "apply", overlay |-> "persona0", expected |-> {"static", "persona0"}],
    [op |-> "remove", overlay |-> "persona0", expected |-> {"static"}],
    [op |-> "apply", overlay |-> "persona1", expected |-> {"static", "persona1"}],
    [op |-> "remove", overlay |-> "persona1", expected |-> {"static"}],
    [op |-> "remove", overlay |-> "static", expected |-> {}]>>
Overlays == {"static", "persona0", "persona1"}

VARIABLES
  st,          \* "idle", "osc", "mpu", "overlay", "state", "check", "end"
  stSaid,      \* "none", "PASS", "FAIL" or "reset"
  script,      \* "clk" or "sysid"
  pos,         \* the step of sysid-test-header.sh
  there,       \* the sysid devices that are there
  stStatus,    \* status_fail
  osc, mpu,    \* the rates read: "right", "wrong", "failed", or "none" if not read
  atBegin,     \* ghost: the devices that were there when the script began
  brought,     \* ghost: the devices its overlays brought
  stRuns

stvars == <<st, stSaid, script, pos, there, stStatus, osc, mpu, atBegin, brought, stRuns>>

Init ==
  /\ st = "idle" /\ stSaid = "none" /\ script = "clk" /\ pos = 1 /\ there = {} /\ stStatus = 0
  /\ osc = "none" /\ mpu = "none" /\ atBegin = {} /\ brought = {} /\ stRuns = 0

Exit(word) == st' = "idle" /\ stSaid' = word
Goto(place) == st' = place /\ UNCHANGED stSaid

\* Without the board, the device node or the paths the scripts exit at once.
Begin ==
  /\ st = "idle" /\ stRuns < MaxStRuns /\ stRuns' = stRuns + 1
  /\ script' \in {"clk", "sysid"}
  /\ \/ st' = (IF script' = "clk" THEN "osc" ELSE "overlay") /\ stSaid' = "none"
     \/ Exit("FAIL")
  /\ pos' = 1 /\ stStatus' = 0 /\ osc' = "none" /\ mpu' = "none" /\ atBegin' = there /\ brought' = {}
  /\ UNCHANGED there

Rates == {"right", "wrong", "failed"}

\* clock_test returns when cat fails, without setting status_fail.
Clock(rate, next) ==
  /\ Goto(IF rate = "right" THEN next ELSE "end")
  /\ stStatus' = IF rate = "wrong" THEN 1 ELSE stStatus

ReadOsc ==
  /\ st = "osc" /\ osc' \in Rates /\ Clock(osc', "mpu")
  /\ UNCHANGED <<script, pos, there, mpu, atBegin, brought, stRuns>>

ReadMpu ==
  /\ st = "mpu" /\ mpu' \in Rates /\ Clock(mpu', "end")
  /\ UNCHANGED <<script, pos, there, osc, atBegin, brought, stRuns>>

\* apply_overlay: an error of the echo ends the script.
apply_overlay ==
  /\ st = "overlay" /\ Steps[pos].op = "apply"
  /\ \/ Goto("state") /\ there' = there \union {Steps[pos].overlay}
        /\ brought' = brought \union {Steps[pos].overlay}
     \/ Goto("state") /\ UNCHANGED <<there, brought>>
     \/ Exit("FAIL") /\ UNCHANGED <<there, brought>>
  /\ UNCHANGED <<script, pos, stStatus, osc, mpu, atBegin, stRuns>>

remove_overlay ==
  /\ st = "overlay" /\ Steps[pos].op = "remove"
  /\ \/ Goto("check") /\ there' = there \ {Steps[pos].overlay}
     \/ Goto("check") /\ UNCHANGED there
     \/ Exit("FAIL") /\ UNCHANGED there
  /\ UNCHANGED <<script, pos, stStatus, osc, mpu, atBegin, brought, stRuns>>

\* sysfs_cat_test of the FPGA manager's state.
sysfs_cat_test ==
  /\ st = "state" /\ Goto("check") /\ stStatus' \in {stStatus, 1}
  /\ UNCHANGED <<script, pos, there, osc, mpu, atBegin, brought, stRuns>>

\* Mutant: an expected device is tested for as an unexpected one is.
GoodAbsent(expected, d) == TRUE

\* One check-sysid.  That a device is absent is tested with -f, which the
\* directory of a device fails whether it is there or not.
Good(expected, d) == d \in expected => d \in there

check_sysid ==
  /\ st = "check"
  /\ stStatus' = IF \A d \in Overlays : Good(Steps[pos].expected, d) THEN stStatus ELSE 1
  /\ pos' = pos + 1 /\ Goto(IF pos = Len(Steps) THEN "end" ELSE "overlay")
  /\ UNCHANGED <<script, there, osc, mpu, atBegin, brought, stRuns>>

Verdict ==
  /\ st = "end" /\ Exit(IF stStatus = 0 THEN "PASS" ELSE "FAIL")
  /\ UNCHANGED <<script, pos, there, stStatus, osc, mpu, atBegin, brought, stRuns>>

\* The board is reset, and the overlays are gone.
Reboot ==
  /\ st' = "idle" /\ stSaid' = (IF st = "idle" THEN stSaid ELSE "reset") /\ there' = {}
  /\ UNCHANGED <<script, pos, stStatus, osc, mpu, atBegin, brought, stRuns>>

Next ==
  \/ Begin \/ ReadOsc \/ ReadMpu \/ apply_overlay \/ remove_overlay \/ sysfs_cat_test
  \/ check_sysid \/ Verdict \/ Reboot

-----------------------------------------------------------------------------
\* What PASS shows.  Of test_clk.sh: no rate that was read is wrong, but not that
\* one was read (line 43).  Of sysid-test-header.sh: every overlay brought its
\* device in this run, or the device was left by an earlier run, which may have
\* passed as well, since that a device has gone is not tested (line 61).
PassMeans ==
  stSaid = "PASS" =>
    IF script = "clk" THEN osc = "failed" \/ (osc = "right" /\ mpu # "wrong")
                      ELSE Overlays \subseteq brought \union atBegin
=============================================================================
