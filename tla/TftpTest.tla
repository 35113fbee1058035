------------------------------ MODULE TftpTest ------------------------------
(***************************************************************************)
(* The TFTP test of preloader-uboot: creatf writes a file on the host, the  *)
(* U-Boot script loads it into memory and starts the application, which     *)
(* compares the first bytes with the generator.  The script looks at no     *)
(* status, and the memory keeps what an earlier transfer left.              *)
(*                                                                          *)
(* File and memory are sequences of cells: the size, the seed, the bytes.   *)
(***************************************************************************)
EXTENDS Integers, Sequences

CONSTANTS
  Seeds, Sizes,   \* arguments of creatf
  Checked,        \* bytes the application looks at: 10
  Arguments,      \* arguments of go: sequences of digits, 16 is no digit
  IntDigits,      \* hexadecimal digits of an int
  MaxTransfers    \* bound on the transfers

ASSUME TftpAssumption == Seeds \subseteq Nat /\ Sizes \subseteq Nat /\ Checked \in Nat

VARIABLES
  hostfile,    \* the file on the host
  whole,       \* ghost: creatf wrote all of it
  ram,         \* the memory from the load address on
  moved,       \* ghost: cells the last transfer brought
  intact,      \* ghost: it brought them unchanged
  origin,      \* ghost: the seed of the file each cell came from, -1 if of none
  arg, addr,   \* the application's argument and hex2dec of it
  verdict,     \* "none", "loaded", "usage", "wild", "fail" or "pass"
  transfers

tftpvars == <<hostfile, whole, ram, moved, intact, origin, arg, addr, verdict,
              transfers>>

Cells == 2 + Checked

\* Mutant: a multiplier that forgets a bit of the seed.
evenrand(x) == (x * 108 + 57) % 256

\* The low byte of myrand, which depends on the low byte of rseed only:
\* 1103515245 % 256 = 109 and 12345 % 256 = 57.  MYRAND_MAX keeps the byte.
myrand(x) == (x * 109 + 57) % 256

\* The bytes from a seed on, and n of them.
Bytes(seed) == LET b[k \in Nat] == IF k = 0 THEN seed ELSE myrand(b[k - 1]) IN b
Stream(seed, n) == [k \in 1..n |-> Bytes(seed)[k]]

TftpInit ==
  /\ hostfile = <<>> /\ whole = FALSE /\ ram = [c \in 1..Cells |-> 0] /\ moved = 0
  /\ intact = TRUE /\ origin = [c \in 1..Cells |-> -1] /\ arg = <<>> /\ addr = 0 /\ verdict = "none"
  /\ transfers = 0

\* The writes are buffered and fclose's result is not looked at: a full disk
\* leaves a part of the file, noticed or not.
creatf ==
  /\ verdict # "loaded"
  /\ \E seed \in Seeds, size \in Sizes :
       LET all == <<size, seed>> \o Stream(seed, size)
       IN \E n \in {0, Len(all) - 1, Len(all)} :
            hostfile' = SubSeq(all, 1, n) /\ whole' = (n = Len(all))
  /\ verdict' = "none" /\ arg' = <<>> /\ addr' = 0
  /\ UNCHANGED <<ram, moved, intact, origin, transfers>>

\* tftp 100000 tfile.bin: all of the file, a part, nothing; a byte may change.
tftp ==
  /\ verdict = "none" /\ transfers < MaxTransfers /\ transfers' = transfers + 1
  /\ \E n \in 0..Len(hostfile), bad \in {0, 2, 3} :
       /\ bad <= n
       /\ ram' = [c \in 1..Cells |-> IF c > n THEN ram[c]
                                     ELSE IF c = bad THEN (hostfile[c] + 1) % 256 ELSE hostfile[c]]
       /\ origin' = [c \in 1..Cells |-> IF c > n THEN origin[c]
                       ELSE IF c = bad \/ Len(hostfile) < 2 THEN -1 ELSE hostfile[2]]
       /\ moved' = n /\ intact' = (bad = 0)
  /\ verdict' = "loaded"
  /\ UNCHANGED <<hostfile, whole, arg, addr>>

\* hex2dec, -1 for what is not a digit.
hex2dec(s) ==
  IF \E k \in DOMAIN s : s[k] = 16 THEN -1
  ELSE LET value[k \in 0..Len(s)] ==
             IF k = 0 THEN 0 ELSE (value[k - 1] * 16 + s[k]) % 16^IntDigits
       IN value[Len(s)]

\* Mutant: a number is drawn and shown before the loop.
CompareAfterDraw ==
  Stream(myrand(ram[2]), Checked) = [k \in 1..Checked |-> ram[2 + k]]

\* The loop of uboot_app_main, which does not look at the size.
Compare == Stream(ram[2], Checked) = [k \in 1..Checked |-> ram[2 + k]]

\* uboot_app_main.  An argument that is not the load address reads elsewhere.
uboot_app_main ==
  /\ verdict = "loaded"
  /\ arg' \in Arguments
  /\ addr' = hex2dec(arg')
  /\ verdict' = IF arg' = <<>> THEN "usage" ELSE IF addr' # 16 THEN "wild"
                ELSE IF Compare THEN "pass" ELSE "fail"
  /\ UNCHANGED <<hostfile, whole, ram, moved, intact, origin, transfers>>

TftpNext == creatf \/ tftp \/ uboot_app_main

TftpSpec == TftpInit /\ [][TftpNext]_tftpvars

-----------------------------------------------------------------------------
\* Generator and application agree: a file of at least the bytes looked at,
\* written and transferred without damage, passes (creatf.c 48-55, tftp-test.c
\* 57-68).
CleanTransferPasses ==
  verdict \in {"pass", "fail"} /\ whole /\ intact /\ moved = Len(hostfile)
    /\ hostfile[1] >= Checked => verdict = "pass"

\* pass! is printed only if the bytes looked at were written by creatf for the
\* seed in memory, or for one with the same low byte, which is all the bytes
\* depend on: whatever mixture of transfers, cut short or damaged, the memory
\* holds, bytes of another seed do not pass for it (myrand.c 21).
PassIsOfItsSeed ==
  verdict = "pass" =>
    \A c \in 3..(2 + Checked) : origin[c] # -1 => origin[c] % 256 = ram[2] % 256
=============================================================================
