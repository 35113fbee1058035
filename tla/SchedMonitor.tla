---------------------------- MODULE SchedMonitor ----------------------------
(***************************************************************************)
(* latency/latency.c: prints a process's average run and wait times, read   *)
(* from /proc/<pid>/schedstat, until the file cannot be opened any more.    *)
(* Of the three counters of the file, which are treated alike, the model    *)
(* has one.                                                                 *)
(***************************************************************************)
EXTENDS Integers

CONSTANTS
  MaxFiles,   \* files the monitor may have open
  IntMax,     \* largest int
  MaxCount    \* bound on the process's counter

VARIABLES
  mon,        \* "usage", "id", "open", "gets", "print", "sleep", "reopen", "said", "exit"
  alive,      \* the process
  count,      \* its counter
  wraps,      \* atoi wraps where long has 64 bits and stays at IntMax where it has 32
  files,      \* open files of the monitor
  id,         \* the name was read
  fresh, oran,   \* the counter as read this time and the time before
  last,       \* ghost: the counter itself at the reading before
  shown,      \* the difference printed
  grown,       \* ghost: the difference of the counter itself
  rounds,     \* ghost: readings printed
  said        \* "nothing", "exited" or "none"

mvars == <<mon, alive, count, wraps, files, id, fresh, oran, last, shown, grown, rounds, said>>

Init ==
  /\ mon = "usage" /\ alive = TRUE /\ count = 0 /\ wraps = FALSE /\ files = 0 /\ id = FALSE
  /\ fresh = 0 /\ oran = 0 /\ last = 0 /\ shown = 0 /\ grown = 0 /\ rounds = 0 /\ said = "nothing"

\* The process runs and ends.
Runs ==
  /\ alive /\ \E d \in 1..2 : count + d <= MaxCount /\ count' = count + d
  /\ UNCHANGED <<mon, alive, wraps, files, id, fresh, oran, last, shown, grown, rounds, said>>
Dies ==
  /\ alive /\ alive' = FALSE
  /\ UNCHANGED <<mon, count, wraps, files, id, fresh, oran, last, shown, grown, rounds, said>>

fopen == alive /\ files < MaxFiles

\* The options: without a pid the program ends.
Options ==
  /\ mon = "usage" /\ mon' \in {"id", "exit"} /\ wraps' \in BOOLEAN
  /\ UNCHANGED <<alive, count, files, id, fresh, oran, last, shown, grown, rounds, said>>

\* The name; a process that ends here is not noticed yet.
get_id ==
  /\ mon = "id" /\ mon' = "open" /\ id' = fopen
  /\ UNCHANGED <<alive, count, wraps, files, fresh, oran, last, shown, grown, rounds, said>>

\* while (fp = fopen(...)).
Open ==
  /\ mon = "open"
  /\ IF fopen THEN mon' = "gets" /\ files' = files + 1 ELSE mon' = "said" /\ UNCHANGED files
  /\ UNCHANGED <<alive, count, wraps, id, fresh, oran, last, shown, grown, rounds, said>>

atoi(c) == IF c <= IntMax THEN c ELSE IF wraps THEN c % (2 * (IntMax + 1)) ELSE IntMax

\* fgets fails for a process that has ended since the file was opened.
get_stats ==
  /\ mon = "gets"
  /\ IF alive THEN mon' = "print" /\ fresh' = atoi(count) /\ grown' = count - last /\ last' = count
              ELSE mon' = "said" /\ UNCHANGED <<fresh, grown, last>>
  /\ UNCHANGED <<alive, count, wraps, files, id, oran, shown, rounds, said>>

\* Unsigned difference, fclose, and the reading is kept for the next time.
Output(keep) ==
  /\ mon = "print" /\ mon' = "sleep"
  /\ shown' = (fresh - oran) % (2 * (IntMax + 1))
  /\ oran' = keep /\ files' = files - 1 /\ rounds' = rounds + 1
  /\ UNCHANGED <<alive, count, wraps, id, fresh, last, grown, said>>

\* Mutant: the reading is not kept.
ShowNotKept == Output(oran)

Show == Output(fresh)

\* Mutant: if (fp) break.
ReopenInverted ==
  /\ mon = "sleep"
  /\ IF ~fopen THEN mon' = "open" /\ UNCHANGED files ELSE mon' = "said" /\ files' = files + 1
  /\ UNCHANGED <<alive, count, wraps, id, fresh, oran, last, shown, grown, rounds, said>>

\* The file is opened once more after the sleep; the loop's fopen then forgets it.
Reopen ==
  /\ mon = "sleep"
  /\ IF fopen THEN mon' = "open" /\ files' = files + 1 ELSE mon' = "said" /\ UNCHANGED files
  /\ UNCHANGED <<alive, count, wraps, id, fresh, oran, last, shown, grown, rounds, said>>

Say ==
  /\ mon = "said" /\ mon' = "exit"
  /\ said' = IF id THEN "exited" ELSE "none"
  /\ UNCHANGED <<alive, count, wraps, files, id, fresh, oran, last, shown, grown, rounds>>

Next == \/ Runs \/ Dies \/ Options \/ get_id \/ Open \/ get_stats \/ Show \/ Reopen \/ Say

-----------------------------------------------------------------------------
\* The differences printed are those of the process since the reading before,
\* modulo the width of an int, unless the counter has passed the largest int on
\* a machine where atoi stays there (lines 51-65 and 137-153).
DifferencesTrue ==
  mon = "sleep" /\ (wraps \/ last <= IntMax) => shown = grown % (2 * (IntMax + 1))

\* "Process has exited" is said of a process that runs only when every file the
\* monitor may have open is one it forgot to close: after MaxFiles readings.
ExitedOrOutOfFiles ==
  said # "nothing" /\ alive => files = MaxFiles /\ rounds = MaxFiles
=============================================================================
