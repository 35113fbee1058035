------------------------------ MODULE Memtool ------------------------------
(***************************************************************************)
(* memtool/memtool.c: the command line, the window of /dev/mem that is      *)
(* mapped, and the accesses to it.                                          *)
(*                                                                          *)
(* An argument is a record: its kind, "size" for -8, -16 and -32, "num" for *)
(* one that starts with a number, "eq" for one that starts with '='; the    *)
(* number; and for a number with '=' in it, what follows (None if nothing). *)
(***************************************************************************)
EXTENDS Integers, Sequences

CONSTANTS
  CommandLine,   \* the command lines: sequences of arguments
  U32            \* 2^32, smaller for TLC

Page == 4096
None == -1
NoEq == -2

VARIABLES
  tool,        \* "parse", "open", "map", "access", "exit"
  cmd,         \* g_size, g_paddr, g_is_write, g_value, g_count
  window,      \* the mapped bytes: the first one and how many
  touched,     \* the bytes accessed: the first one and how many
  ended        \* "none", "usage", "error", "crash" or "ok"

toolvars == <<tool, cmd, window, touched, ended>>

Usage == [size |-> 0, paddr |-> 0, write |-> FALSE, value |-> 0, count |-> 0]

\* The arguments after the address: write says that the address ended in '='.
Rest(c, args) ==
  IF args = <<>> THEN Usage
  ELSE IF args[1].kind = "eq"
  THEN IF args[1].num # None THEN [c EXCEPT !.write = TRUE, !.value = args[1].num]
       ELSE IF Len(args) < 2 THEN Usage
       ELSE [c EXCEPT !.write = TRUE, !.value = args[2].num]
  ELSE IF c.write THEN [c EXCEPT !.value = args[1].num] ELSE [c EXCEPT !.count = args[1].num]

parse_cmdline(argv) ==
  LET sized == argv # <<>> /\ argv[1].kind = "size"
      args == IF sized THEN Tail(argv) ELSE argv
      size == IF sized THEN argv[1].num ELSE 4
      c == [size |-> size, paddr |-> args[1].num, write |-> args[1].after # NoEq,
            value |-> 0, count |-> 1]
  IN IF args = <<>> \/ args[1].num = 0 THEN Usage
     ELSE IF args[1].after \notin {None, NoEq} THEN [c EXCEPT !.value = args[1].after]
     ELSE Rest(c, Tail(args))

\* Lines 163-167.
Align(x, size) == x - (x % size)
aligned_paddr(paddr) == Align(paddr, Page)

\* Mutant: the offset in the page is left out.
SizeNoOffset(paddr, bytes) == Align((bytes + Page - 1) % U32, Page)

aligned_size(paddr, bytes) ==
  Align(((paddr - aligned_paddr(paddr)) + bytes + Page - 1) % U32, Page)

\* Of two runs of bytes, that the first lies in the second.
Within(inner, outer) ==
  inner[2] = 0 \/ (outer[1] <= inner[1] /\ inner[1] + inner[2] <= outer[1] + outer[2])

Init ==
  /\ tool = "parse" /\ cmd = Usage /\ window = <<0, 0>> /\ touched = <<0, 0>> /\ ended = "none"

main ==
  /\ tool = "parse"
  /\ \E argv \in CommandLine :
       LET c == parse_cmdline(argv)
       IN IF c = Usage THEN tool' = "exit" /\ ended' = "usage" /\ UNCHANGED cmd
          ELSE tool' = "open" /\ cmd' = [c EXCEPT !.paddr = Align(@, c.size)] /\ UNCHANGED ended
  /\ UNCHANGED <<window, touched>>

open ==
  /\ tool = "open"
  /\ \/ tool' = "map" /\ UNCHANGED ended
     \/ tool' = "exit" /\ ended' = "error"
  /\ UNCHANGED <<cmd, window, touched>>

\* A failed mmap, of no bytes for one, is not NULL and is not noticed.
mmap ==
  /\ tool = "map" /\ tool' = "access"
  /\ LET bytes == aligned_size(cmd.paddr, (cmd.count * cmd.size) % U32)
     IN window' \in {<<aligned_paddr(cmd.paddr), bytes>>, <<0, 0>>}
  /\ UNCHANGED <<cmd, touched, ended>>

\* The bytes that each of them accesses.
read_mem == cmd.size * cmd.count
write_mem == cmd.size

access ==
  /\ tool = "access" /\ tool' = "exit"
  /\ touched' = <<cmd.paddr, IF cmd.write THEN write_mem ELSE read_mem>>
  /\ ended' = IF Within(touched', window) THEN "ok" ELSE "crash"
  /\ UNCHANGED <<cmd, window>>

Next == main \/ open \/ mmap \/ access
-----------------------------------------------------------------------------
\* The window holds every byte that is accessed, at any offset in a page and
\* for any count that does not overflow: an access crashes only if mmap failed
\* or the size of the window did not fit its 32 bits.
CrashOnlyUnmapped ==
  ended = "crash" => window[2] = 0 \/ cmd.size * cmd.count + 2 * Page > U32
=============================================================================
