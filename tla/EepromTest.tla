----------------------------- MODULE EepromTest -----------------------------
(***************************************************************************)
(* eeprom_test/eeprom-test.sh: saves what the EEPROM holds, writes a random *)
(* pattern, reads it back, and does the same with the saved data.  The      *)
(* script leaves at the first error, and the board may be reset under it.   *)
(*                                                                          *)
(* The content of the EEPROM, or of a file read from it, is 0, what was     *)
(* there before the first run, r, the pattern of run r, or -r, a mixture    *)
(* that a write of run r left.                                              *)
(***************************************************************************)
EXTENDS Integers

CONSTANT MaxEeRuns   \* bound on the runs of the script

Missing == MaxEeRuns + 1   \* no file
Short == MaxEeRuns + 2     \* a file of less than DATA_SIZE_KB
Garbage == MaxEeRuns + 3   \* what a read got that the EEPROM does not hold

VARIABLES
  ee,         \* "idle", "name", "save", "pattern", or "write", "read", "compare" and
  eeFile,     \* the file that is written: "pattern" or "saved"
  eeprom, saved, pattern, readback,   \* the device and the files in /tmp
  eeRuns, eeVerdict,   \* "none", "PASS", "FAIL" or "reset"
  before,     \* ghost: the EEPROM when this run began
  misread,    \* ghost: this run read something else than the EEPROM holds
  excuse      \* ghost: what can cost the old data: a misread, a reset that
              \* clears /tmp, a run begun after one that did not pass

eevars == <<ee, eeFile, eeprom, saved, pattern, readback, eeRuns, eeVerdict, before, misread,
            excuse>>

Init ==
  /\ ee = "idle" /\ eeFile = "pattern" /\ eeprom = 0
  /\ saved = Missing /\ pattern = Missing /\ readback = Missing
  /\ eeRuns = 0 /\ eeVerdict = "none" /\ before = 0 /\ misread = FALSE /\ excuse = FALSE

Exit(verdict) == ee' = "idle" /\ eeVerdict' = verdict
Goto(place) == ee' = place /\ UNCHANGED eeVerdict

\* rm -f of the old files, except saved-data and test-pattern.
Begin ==
  /\ ee = "idle" /\ eeRuns < MaxEeRuns
  /\ ee' = "name" /\ eeVerdict' = "none" /\ eeRuns' = eeRuns + 1 /\ eeFile' = "pattern"
  /\ readback' = Missing /\ before' = eeprom /\ misread' = FALSE
  /\ excuse' = (excuse \/ eeVerdict \in {"FAIL", "reset"})
  /\ UNCHANGED <<eeprom, saved, pattern>>

\* The sysfs files are looked for and the name is read.
ReadName ==
  /\ ee = "name"
  /\ Goto("save") \/ Exit("FAIL")
  /\ UNCHANGED <<eeFile, eeprom, saved, pattern, readback, eeRuns, before, misread, excuse>>

\* dd from the EEPROM into a file: got is what the file holds then.
i2c_ee_read(old, got, next) ==
  \/ got = eeprom /\ Goto(next) /\ UNCHANGED <<misread, excuse>>
  \/ got = Garbage /\ Goto(next) /\ misread' = TRUE /\ excuse' = TRUE
  \/ got \in {old, Short} /\ Exit("FAIL") /\ UNCHANGED <<misread, excuse>>

\* Mutant: the status of dd is not looked at.
SaveUnchecked ==
  /\ ee = "save" /\ saved' \in {eeprom, saved, Short} /\ Goto("pattern")
  /\ UNCHANGED <<eeFile, eeprom, pattern, readback, eeRuns, before, misread, excuse>>

Save ==
  /\ ee = "save" /\ saved' \in {eeprom, Garbage, saved, Short}
  /\ i2c_ee_read(saved, saved', "pattern")
  /\ UNCHANGED <<eeFile, eeprom, pattern, readback, eeRuns, before>>

\* dd from /dev/urandom, whose status nobody looks at.
Pattern ==
  /\ ee = "pattern" /\ pattern' \in {eeRuns, Short, pattern} /\ Goto("write")
  /\ UNCHANGED <<eeFile, eeprom, saved, readback, eeRuns, before, misread, excuse>>

Data == IF eeFile = "pattern" THEN pattern ELSE saved

\* i2c_ee_write.  A short file leaves the rest of the EEPROM as it was, and a
\* bad device keeps something else than it was given.
i2c_ee_write ==
  /\ ee = "write"
  /\ IF Data = Missing THEN Exit("FAIL") /\ UNCHANGED eeprom
     ELSE \/ Goto("read") /\ eeprom' \in (IF Data = Short THEN {-eeRuns} ELSE {Data, -eeRuns})
          \/ Exit("FAIL") /\ eeprom' \in {eeprom, -eeRuns}
  /\ UNCHANGED <<eeFile, saved, pattern, readback, eeRuns, before, misread, excuse>>

ReadBack ==
  /\ ee = "read" /\ readback' \in {eeprom, Garbage, Missing, Short}
  /\ i2c_ee_read(Missing, readback', "compare")
  /\ UNCHANGED <<eeFile, eeprom, saved, pattern, eeRuns, before>>

\* Mutant: the second call is left out.
CompareOnce ==
  /\ ee = "compare"
  /\ IF Data = readback THEN Exit("PASS") ELSE Exit("FAIL")
  /\ UNCHANGED <<eeFile, eeprom, saved, pattern, readback, eeRuns, before, misread, excuse>>

\* diff; the second call of i2c_write_read_compare follows the first.
Compare ==
  /\ ee = "compare"
  /\ \/ /\ Data = readback /\ eeFile = "pattern"
        /\ eeFile' = "saved" /\ Goto("write")
     \/ Data = readback /\ eeFile = "saved" /\ Exit("PASS") /\ UNCHANGED eeFile
     \/ Exit("FAIL") /\ UNCHANGED eeFile
  /\ UNCHANGED <<eeprom, saved, pattern, readback, eeRuns, before, misread, excuse>>

\* The board is reset: the write under way is cut, /tmp may be lost.
Reboot ==
  /\ ee' = "idle" /\ eeVerdict' = IF ee = "idle" THEN eeVerdict ELSE "reset"
  /\ eeprom' \in (IF ee = "write" THEN {eeprom, -eeRuns} ELSE {eeprom})
  /\ \/ UNCHANGED <<saved, pattern, readback, excuse>>
     \/ saved' = Missing /\ pattern' = Missing /\ readback' = Missing /\ excuse' = TRUE
  /\ UNCHANGED <<eeFile, eeRuns, before, misread>>

Next ==
  \/ Begin \/ ReadName \/ Save \/ Pattern \/ i2c_ee_write \/ ReadBack \/ Compare

-----------------------------------------------------------------------------
\* A run that prints PASS leaves in the EEPROM what it found there, unless it
\* misread it (lines 85-97).
PassRestores == eeVerdict = "PASS" /\ ~misread => eeprom = before

\* What the EEPROM held before the first run is in the EEPROM or in
\* /tmp/saved-data, whatever fails and whenever the board is reset, until a run
\* misreads it, a reset clears /tmp, or a run is begun after one that did not
\* pass, which saves the wrong data over the right ones (line 86).
OldDataSomewhere == excuse \/ 0 \in {eeprom, saved}
=============================================================================
