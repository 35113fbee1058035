------------------------------- MODULE Board -------------------------------
(***************************************************************************)
(* The board: watchdog-test beside a script that writes to a memory of the  *)
(* board.  The watchdog it leaves running resets the board under the        *)
(* script, at any line; the EEPROM, the flash and, if the board keeps it,   *)
(* /tmp survive.                                                            *)
(***************************************************************************)
EXTENDS WatchdogTest

CONSTANTS MaxEeRuns, MaxQRuns

VARIABLES
  job,
  ee, eeFile, eeprom, saved, pattern, readback, eeRuns, eeVerdict, before, misread, excuse,
  qpc, datafile, flash, out, qSaid, qExit, notRead, insmodFailed, notRemoved, qRuns

eevars == <<ee, eeFile, eeprom, saved, pattern, readback, eeRuns, eeVerdict, before, misread,
            excuse>>
qvars == <<qpc, datafile, flash, out, qSaid, qExit, notRead, insmodFailed, notRemoved, qRuns>>

Eeprom == INSTANCE EepromTest
Qspi == INSTANCE QspiTest

BoardInit ==
  /\ job \in {"eeprom", "qspi"}
  /\ Init /\ Eeprom!Init /\ Qspi!Init

\* A step of the script at work.
Script ==
  /\ ~Expired
  /\ \/ job = "eeprom" /\ Eeprom!Next /\ UNCHANGED qvars
     \/ job = "qspi" /\ Qspi!Next /\ UNCHANGED eevars
  /\ UNCHANGED <<job, vars>>

\* The reset takes the script with it.
Reboot ==
  /\ Reset
  /\ Eeprom!Reboot /\ Qspi!Reboot
  /\ UNCHANGED job

BoardNext ==
  \/ Script
  \/ Reboot
  \/ (Program \/ Tick) /\ UNCHANGED <<job, eevars, qvars>>

boardvars == <<job, vars, eevars, qvars>>
BoardSpec == BoardInit /\ [][BoardNext]_boardvars
-----------------------------------------------------------------------------
\* EepromTest: a run that prints PASS restores the EEPROM (eeprom-test.sh 85-97).
PassRestores == Eeprom!PassRestores
\* EepromTest: the old data are in the EEPROM or in /tmp (eeprom-test.sh 86).
OldDataSomewhere == Eeprom!OldDataSomewhere
\* QspiTest: what exit code 0 is worth (qspi-test.sh 34-78).
ZeroIsOnFlash == Qspi!ZeroIsOnFlash
=============================================================================
