------------------------------ MODULE QspiTest ------------------------------
(***************************************************************************)
(* qspi_test/qspi-test.sh: installs the drivers, erases a partition, copies *)
(* a file there, reads it back and compares.  Only insmod's and diff's      *)
(* status is looked at, and a file read back by an earlier run may be left. *)
(***************************************************************************)
EXTENDS Integers

CONSTANT MaxQRuns   \* bound on the runs of the script

VARIABLES
  qpc,          \* "idle", "soc", "spi_nor", "cadence_quadspi", "erase", "flashcp", "rm",
              \* "read", "diff"
  datafile,   \* qspi-data-file is there
  flash,      \* "erased", "data", the file's data, or "other"
  out,        \* qspi-data-out: "missing", "data" or "other"
  qSaid, qExit,   \* "none", "PASS" or "FAIL"; the exit code, -1 while running
  notRead, insmodFailed,   \* ghosts: what this run's read and insmod did
  notRemoved, qRuns

qvars == <<qpc, datafile, flash, out, qSaid, qExit, notRead, insmodFailed, notRemoved, qRuns>>

Init ==
  /\ qpc = "idle" /\ datafile = TRUE /\ flash = "other" /\ out = "missing" /\ qSaid = "none"
  /\ qExit = -1 /\ notRead = FALSE /\ insmodFailed = FALSE /\ notRemoved = FALSE /\ qRuns = 0

Begin ==
  /\ qpc = "idle" /\ qRuns < MaxQRuns
  /\ qpc' = "soc" /\ datafile' \in BOOLEAN /\ qSaid' = "none" /\ qExit' = -1
  /\ notRead' = FALSE /\ insmodFailed' = FALSE /\ notRemoved' = FALSE /\ qRuns' = qRuns + 1
  /\ UNCHANGED <<flash, out>>

Exit(code) == qpc' = "idle" /\ qExit' = code
Goto(place) == qpc' = place /\ UNCHANGED qExit

get_devkit_type ==
  /\ qpc = "soc" /\ (Goto("spi_nor") \/ Exit(1))
  /\ UNCHANGED <<datafile, flash, out, qSaid, notRead, insmodFailed, notRemoved, qRuns>>

\* After "if ! insmod", exit gives the status of the negated command: 0.
insmod(module, next) ==
  /\ qpc = module
  /\ \/ Goto(next) /\ UNCHANGED insmodFailed
     \/ Exit(0) /\ insmodFailed' = TRUE
  /\ UNCHANGED <<datafile, flash, out, qSaid, notRead, notRemoved, qRuns>>

flash_erase ==
  /\ qpc = "erase" /\ Goto("flashcp") /\ flash' \in {"erased", "other", flash}
  /\ UNCHANGED <<datafile, out, qSaid, notRead, insmodFailed, notRemoved, qRuns>>

flashcp ==
  /\ qpc = "flashcp" /\ Goto("rm")
  /\ flash' \in {"other", flash} \union (IF datafile THEN {"data"} ELSE {})
  /\ UNCHANGED <<datafile, out, qSaid, notRead, insmodFailed, notRemoved, qRuns>>

\* Mutant: the file of the run before is not removed.
NoRm ==
  /\ qpc = "rm" /\ Goto("read") /\ UNCHANGED <<out, notRemoved>>
  /\ UNCHANGED <<datafile, flash, qSaid, notRead, insmodFailed, qRuns>>

rm ==
  /\ qpc = "rm" /\ Goto("read")
  /\ \/ out' = "missing" /\ UNCHANGED notRemoved
     \/ UNCHANGED out /\ notRemoved' = (out # "missing")
  /\ UNCHANGED <<datafile, flash, qSaid, notRead, insmodFailed, qRuns>>

\* mtd_debug read.  What it reads may be wrong, but not the data by accident.
Read ==
  /\ qpc = "read" /\ Goto("diff")
  /\ \/ out' = (IF flash = "data" THEN "data" ELSE "other") /\ UNCHANGED notRead
     \/ out' = "other" /\ UNCHANGED notRead
     \/ UNCHANGED out /\ notRead' = TRUE
  /\ UNCHANGED <<datafile, flash, qSaid, insmodFailed, notRemoved, qRuns>>

diff ==
  /\ qpc = "diff"
  /\ \/ datafile /\ out = "data" /\ qSaid' = "PASS" /\ Exit(0)
     \/ qSaid' = "FAIL" /\ Exit(1)
  /\ UNCHANGED <<datafile, flash, out, notRead, insmodFailed, notRemoved, qRuns>>

\* The board is reset: an erase or a copy under way is cut.
Reboot ==
  /\ qpc' = "idle"
  /\ flash' \in (IF qpc \in {"erase", "flashcp"} THEN {flash, "other"} ELSE {flash})
  /\ UNCHANGED <<datafile, out, qSaid, qExit, notRead, insmodFailed, notRemoved, qRuns>>

Next ==
  \/ Begin \/ get_devkit_type
  \/ insmod("spi_nor", "cadence_quadspi") \/ insmod("cadence_quadspi", "erase")
  \/ flash_erase \/ flashcp \/ rm \/ Read \/ diff

-----------------------------------------------------------------------------
\* Exit code 0 means that the partition holds the data, although no status of
\* flash_erase, flashcp and mtd_debug is looked at, unless a driver could not be
\* installed, or in this run both the rm of the old file and the read of the new
\* one failed (lines 34-78).
ZeroIsOnFlash ==
  qExit = 0 => insmodFailed \/ flash = "data" \/ (notRead /\ notRemoved)
=============================================================================
