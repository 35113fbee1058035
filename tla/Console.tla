------------------------------ MODULE Console ------------------------------
(***************************************************************************)
(* The serial console of the board as the expect scripts of                 *)
(* ethernet_test/test-suite use it (testlib.exp): lines typed by the script *)
(* are executed by the board's shell one after the other, whenever it gets  *)
(* to them, and what the shell prints collects in expect's buffer until a   *)
(* pattern consumes it.                                                     *)
(***************************************************************************)
EXTENDS Integers, Sequences

VARIABLES
  inq,     \* lines typed on the console, not yet executed by the board
  buf,     \* what the board printed, not yet consumed by expect
  shell    \* "login" (getty is waiting for a name) or "shell"

console == <<inq, buf, shell>>

\* A line is a command and its ghost tag; a token is a piece of printed text,
\* its value and the ghost tag of what it was computed from.
Line(cmd, tag) == [cmd |-> cmd, tag |-> tag]
Token(text, val, tag) == [text |-> text, val |-> val, tag |-> tag]
Prompt == Token("prompt", 0, 0)
LoginPrompt == Token("login:", 0, 0)

\* A pattern is the set of <<text, value>> pairs it matches.
PromptPattern == {<<"prompt", 0>>}
LoginPattern == {<<"login:", 0>>}

Hits(pattern) == {i \in 1..Len(buf) : <<buf[i].text, buf[i].val>> \in pattern}

\* The first position at which pattern p of the list pats matches.
FirstHit(p, pats) == CHOOSE i \in Hits(pats[p]) : \A j \in Hits(pats[p]) : i <= j

\* expect tries its patterns in the order they are listed, each on the whole
\* buffer; FALSE for all of them means that it goes on waiting.
Matching(pats) == {p \in 1..Len(pats) : Hits(pats[p]) # {}}
FirstMatching(pats) == CHOOSE p \in Matching(pats) : \A q \in Matching(pats) : p <= q

\* Everything up to and including the match is dropped from the buffer.
Dropped(i) == SubSeq(buf, i + 1, Len(buf))

\* The board executes the oldest line.  Without a login every line is taken
\* for a name; "root" logs in.  The shell prints the output and a prompt.
BoardExec(output) ==
  /\ inq # <<>>
  /\ inq' = Tail(inq)
  /\ IF shell = "login"
     THEN IF Head(inq).cmd = "root"
          THEN shell' = "shell" /\ buf' = Append(buf, Prompt)
          ELSE UNCHANGED shell /\ buf' = Append(buf, LoginPrompt)
     ELSE UNCHANGED shell /\ buf' = Append(buf \o output, Prompt)
=============================================================================
