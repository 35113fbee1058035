---------------------------- MODULE SpiLoopback ----------------------------
(***************************************************************************)
(* spi_test: spi-test-loopback.sh writes a random file, lets the program    *)
(* spi-test-loopback send it through the looped device into a second file,  *)
(* and compares the two.  The status of dd and of the program is not looked *)
(* at; both files stay from one iteration, and one run, to the next.        *)
(*                                                                          *)
(* The content of a file is the number of the iteration that made it, Empty *)
(* or Pattern, the program's default data; NoFile is no file at all.        *)
(***************************************************************************)
EXTENDS Integers

CONSTANTS
  MaxIterations,   \* bound on the iterations
  MaxScripts       \* bound on the runs of the script

Empty == 0
NoFile == -1
Pattern == -2
Noise == -3

VARIABLES
  spi,        \* "idle", "dd", "program", "transfer", "write", "cmp", "verdict"
  todo,       \* iterations left
  a,          \* number of the iteration, over all runs
  bytes,      \* NUM_BYTES is not 0
  full,       \* the disk is full
  seed, result,   \* the two files
  tx, rx,     \* the program's buffers
  looped,     \* ghost: contents that came back from the device unchanged
  good,       \* ghost: the last comparison found no difference
  status_fail, spiVerdict, scripts

spivars == <<spi, todo, a, bytes, full, seed, result, tx, rx, looped, good, status_fail,
             spiVerdict, scripts>>

Init ==
  /\ spi = "idle" /\ todo = 0 /\ a = 0 /\ bytes = TRUE /\ full = FALSE
  /\ seed = NoFile /\ result = NoFile /\ tx = Pattern /\ rx = Noise /\ looped = {}
  /\ good = FALSE /\ status_fail = 0 /\ spiVerdict = "none" /\ scripts = 0

\* Not exactly one device node: exit 1.  A count that is not positive, or not
\* a number, makes no iteration.
Begin ==
  /\ spi = "idle" /\ scripts < MaxScripts /\ scripts' = scripts + 1
  /\ \/ /\ spi' = "dd" /\ todo' \in 0..MaxIterations /\ status_fail' = 0 /\ spiVerdict' = "none"
     \/ spiVerdict' = "error" /\ UNCHANGED <<spi, todo, status_fail>>
  /\ good' = FALSE
  /\ UNCHANGED <<a, bytes, full, seed, result, tx, rx, looped>>

DiskFills ==
  /\ full' = ~full
  /\ UNCHANGED <<spi, todo, a, bytes, seed, result, tx, rx, looped, good, status_fail,
                 spiVerdict, scripts>>

\* RANDOM % 1024 may be 0, which dd refuses as a block size.
dd ==
  /\ spi = "dd" /\ todo > 0
  /\ bytes' \in BOOLEAN /\ a' = a + 1
  /\ seed' = IF ~bytes' THEN seed ELSE IF full THEN Empty ELSE a + 1
  /\ spi' = "program" /\ good' = FALSE
  /\ UNCHANGED <<todo, full, result, tx, rx, looped, status_fail, spiVerdict, scripts>>

\* parse_opts: without the file the default data stay in tx.
parse_opts ==
  /\ spi = "program" /\ spi' = "transfer"
  /\ tx' = (IF seed = NoFile THEN Pattern ELSE seed) /\ rx' = Noise
  /\ UNCHANGED <<todo, a, bytes, full, seed, result, looped, good, status_fail, spiVerdict, scripts>>

\* pabort: opening and configuring the device, or a message of no bytes.
pabort ==
  /\ spi = "transfer" /\ spi' = "cmp"
  /\ UNCHANGED <<todo, a, bytes, full, seed, result, tx, rx, looped, good, status_fail,
                 spiVerdict, scripts>>

\* The device gives back what it was sent, or not.
ioctl ==
  /\ spi = "transfer" /\ tx # Empty /\ spi' = "write"
  /\ \/ rx' = tx /\ looped' = looped \union {tx}
     \/ rx' = Noise /\ UNCHANGED looped
  /\ UNCHANGED <<todo, a, bytes, full, seed, result, tx, good, status_fail, spiVerdict, scripts>>

\* fopen truncates the file; when it fails the program dies in fwrite.
Save(data) ==
  /\ spi = "write" /\ spi' = "cmp"
  /\ result' \in {IF full THEN Empty ELSE data, result}
  /\ UNCHANGED <<todo, a, bytes, full, seed, tx, rx, looped, good, status_fail, spiVerdict, scripts>>

\* Mutant: the wrong buffer is saved.
SaveSent == Save(tx)

transfer == Save(rx)

cmp ==
  /\ spi = "cmp" /\ spi' = "dd" /\ todo' = todo - 1
  /\ good' = (seed # NoFile /\ seed = result)
  /\ status_fail' = IF good' THEN status_fail ELSE 1
  /\ UNCHANGED <<a, bytes, full, seed, result, tx, rx, looped, spiVerdict, scripts>>

Verdict ==
  /\ spi = "dd" /\ todo = 0 /\ spi' = "idle"
  /\ spiVerdict' = IF status_fail = 0 THEN "PASS" ELSE "FAIL"
  /\ UNCHANGED <<todo, a, bytes, full, seed, result, tx, rx, looped, good, status_fail, scripts>>

Next == \/ Begin \/ DiskFills \/ dd \/ parse_opts \/ pabort \/ ioctl \/ transfer \/ cmp \/ Verdict

-----------------------------------------------------------------------------
\* An iteration that finds no difference compared data that came back from the
\* device, in this iteration or, when dd was given 0 bytes and left the old
\* seed file, in an earlier one; only two empty files, left by a full disk, are
\* equal without that.
EqualWasLooped ==
  good => /\ result \in looped \/ result = Empty
          /\ bytes => result \in {a, Empty}
=============================================================================
