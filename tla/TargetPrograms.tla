--------------------------- MODULE TargetPrograms ---------------------------
(***************************************************************************)
(* The C programs of the tests that run on the target, one of them at a     *)
(* time: a session picks one and runs it.  They share nothing, so the       *)
(* behaviours of the session are those of the programs.                     *)
(***************************************************************************)
EXTENDS Integers, Sequences

CONSTANTS
  MaxFiles, IntMax, MaxCount,                     \* SchedMonitor
  MaxReads,                                       \* AdcReader
  CommandLine, U32                                \* Memtool

VARIABLES
  prog,   \* the program that runs
  mon, alive, count, wraps, files, id, fresh, oran, last, shown, grown, rounds, said,
  adc, continuous, channel, conversion, adc_channel, adc_code, adc_code_array, code, beside,
  failed, first, volts,
  tool, cmd, window, touched, ended

monvars == <<mon, alive, count, wraps, files, id, fresh, oran, last, shown, grown, rounds, said>>
adcvars == <<adc, continuous, channel, conversion, adc_channel, adc_code, adc_code_array, code,
             beside, failed, first, volts>>
memvars == <<tool, cmd, window, touched, ended>>

Monitor == INSTANCE SchedMonitor
Adc == INSTANCE AdcReader
Mem == INSTANCE Memtool

targets == <<monvars, adcvars, memvars>>
TargetNames == {"monitor", "adc", "mem"}

TargetInit == Monitor!Init /\ Adc!Init /\ Mem!Init

\* All but one of the programs stand still.
Only(name) ==
  /\ prog = name /\ UNCHANGED prog
  /\ IF name = "monitor" THEN TRUE ELSE UNCHANGED monvars
  /\ IF name = "adc" THEN TRUE ELSE UNCHANGED adcvars
  /\ IF name = "mem" THEN TRUE ELSE UNCHANGED memvars

TargetNext ==
  \/ Only("monitor") /\ Monitor!Next
  \/ Only("adc") /\ Adc!Next
  \/ Only("mem") /\ Mem!Next

TargetSpec ==
  prog \in TargetNames /\ TargetInit /\ [][TargetNext]_<<prog, targets>>
-----------------------------------------------------------------------------
\* SchedMonitor: the differences printed are the process's.
DifferencesTrue == Monitor!DifferencesTrue
\* SchedMonitor: "has exited" is said of a process that exited, or out of files.
ExitedOrOutOfFiles == Monitor!ExitedOrOutOfFiles
\* AdcReader: what the voltages of a call are worth.
ReportedVoltages == Adc!ReportedVoltages
\* Memtool: accesses stay in the mapped window.
CrashOnlyUnmapped == Mem!CrashOnlyUnmapped
=============================================================================
