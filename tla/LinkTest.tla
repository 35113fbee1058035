------------------------------ MODULE LinkTest ------------------------------
(***************************************************************************)
(* The link tests of ethernet_test/test-suite: emactestllinkAdvHost.exp,    *)
(* emactestllinkAdvTrgt.exp, emactestllinkForceHost.exp and                 *)
(* emactestllinkForceTrgt.exp, with the procedures of testlib.exp they      *)
(* call.  One side of an Ethernet link is reconfigured row by row and the   *)
(* speed and duplex found are compared with the row.                        *)
(*                                                                          *)
(* The link is the device under test: it may come up with any speed and     *)
(* duplex and may go down at any time.                                      *)
(***************************************************************************)
EXTENDS Console

CONSTANTS
  Script,        \* which of the four scripts runs
  Rows,          \* the rows of its foreach: expected speed and duplex
  Speeds,        \* the speeds the link may come up with
  s1000Support,  \* parameters.exp: 1 if the board can do 1000Mbps
  Prompt30       \* TRUE if the board executes what was typed within the
                 \* timeout of an expect, FALSE if it may be arbitrarily slow

Scripts == {"AdvHost", "AdvTrgt", "ForceHost", "ForceTrgt"}
Forces == Script \in {"ForceHost", "ForceTrgt"}

ASSUME LinkTestAssumption ==
  /\ Script \in Scripts
  /\ Speeds \subseteq {10, 100, 1000}
  /\ Rows \in Seq([speed : {10, 100, 1000}, duplex : {0, 1}])
  /\ s1000Support \in {0, 1}
  /\ Prompt30 \in BOOLEAN

\* The rows of the advertisement tests, in the order of their lists.
AdvSpeeds == <<1000, 100, 100, 100, 100, 100, 100, 100, 100, 100, 100, 100, 100, 10, 10, 10>>
AdvDuplexes == <<1, 1, 1, 1, 1, 1, 1, 1, 1, 0, 0, 0, 0, 1, 1, 0>>
AdvRow(i) == [speed |-> AdvSpeeds[i], duplex |-> AdvDuplexes[i]]
\* The rows of the forced tests: every speed, full and then half duplex.
ForceRow(i) == [speed |-> <<10, 100, 1000>>[(i + 1) \div 2], duplex |-> i % 2]

Down == [speed |-> -1, duplex |-> -1]
Links == [speed : Speeds, duplex : {0, 1}] \cup {Down}

VARIABLES
  link,      \* the state of the link
  applied,   \* ghost: the row whose setting the changed side has in force
  row,       \* the row at work: 0 before the loop, Len(Rows) + 1 after it
  k,         \* position in the operations of this row
  stage,     \* progress inside the operation
  hspeed, hduplex, tspeed, tduplex,   \* answers: the value the script holds,
             \* and as ghosts the value printed and the row in force then
  rr,        \* result of the last ping: 0 if it failed
  status     \* "running", "pass" (exit 0) or "fail" (exit 1)

answers == <<hspeed, hduplex, tspeed, tduplex, rr>>
script == <<row, k, stage, answers, status>>
vars == <<console, link, applied, script>>

Answer(val, raw, tag) == [val |-> val, raw |-> raw, tag |-> tag]
NoAnswer == Answer(-1, -1, 0)

\* The operations of a row.  1000Mbps with half duplex, or without support
\* for 1000Mbps, is skipped by the forced tests after the links were reset.
LinkAuto == <<"sethostLinkAuto", "settrgtLinkAuto">>
Pings == <<"checkHostPingv4", "checkrr", "checkTrgtPingv4", "checkrr">>
Skipped(r) == r.speed = 1000 /\ (r.duplex = 0 \/ s1000Support = 0)
GetBoth == <<"gethostSpeed", "gethostDuplex", "gettrgtSpeed", "gettrgtDuplex">>
Body(r) ==
  CASE Script = "AdvHost" ->
         <<"settrgtAdv", "gethostSpeed", "gethostDuplex", "verdict">> \o Pings
    [] Script = "AdvTrgt" ->
         <<"sethostAdv", "gettrgtSpeed", "gettrgtDuplex", "verdict">> \o Pings
    [] Forces /\ Skipped(r) -> LinkAuto
    [] Script = "ForceHost" /\ ~ Skipped(r) ->
         LinkAuto \o <<"settrgtLink">> \o GetBoth \o <<"verdict">> \o Pings
    [] Script = "ForceTrgt" /\ ~ Skipped(r) ->
         LinkAuto \o <<"sethostLink">> \o GetBoth \o <<"verdict">> \o Pings

\* The operations before, in and after the foreach.
Code(i) ==
  IF i = 0 THEN <<"connect">> \o LinkAuto
  ELSE IF i <= Len(Rows) THEN Body(Rows[i])
  ELSE IF Script = "ForceTrgt" THEN <<"exit">> ELSE LinkAuto \o <<"exit">>

Op == Code(row)[k]

Init ==
  /\ inq = <<>> /\ buf = <<>> /\ shell \in {"login", "shell"}
  /\ link \in Links
  /\ applied = 0
  /\ row = 0 /\ k = 1 /\ stage = "start"
  /\ hspeed = NoAnswer /\ hduplex = NoAnswer
  /\ tspeed = NoAnswer /\ tduplex = NoAnswer /\ rr = 1
  /\ status = "running"

Running(ops, st) == status = "running" /\ stage = st /\ Op \in ops

\* The operation is over.
Finish ==
  /\ stage' = "start"
  /\ IF k < Len(Code(row)) THEN k' = k + 1 /\ row' = row
                           ELSE k' = 1 /\ row' = row + 1
-----------------------------------------------------------------------------
(* The host side: sudo ethtool and linkspd/linkduplex run to their end.    *)

\* ethtool -s renegotiates: the link goes down.
HostSet ==
  /\ Running({"sethostAdv", "sethostLink", "sethostLinkAuto"}, "start")
  /\ link' = Down
  /\ applied' = IF Op = "sethostLinkAuto" THEN applied ELSE row
  /\ Finish
  /\ UNCHANGED <<console, answers, status>>

\* What the patterns of the duplex procedures make of the printed value: the
\* text "-1d" of a link that is down contains "1d".  ("-1Mbps" matches none
\* of the speed patterns, and the answer stays -1.)
DuplexSeen(v) == IF v = -1 THEN 1 ELSE v

GetHostSpeed ==
  /\ Running({"gethostSpeed"}, "start")
  /\ hspeed' = Answer(link.speed, link.speed, applied)
  /\ Finish
  /\ UNCHANGED <<console, link, applied, hduplex, tspeed, tduplex, rr, status>>

GetHostDuplex ==
  /\ Running({"gethostDuplex"}, "start")
  /\ hduplex' = Answer(DuplexSeen(link.duplex), link.duplex, applied)
  /\ Finish
  /\ UNCHANGED <<console, link, applied, hspeed, tspeed, tduplex, rr, status>>
-----------------------------------------------------------------------------
(* The console side.                                                       *)

\* The commands that only set something: send, then connect.
SetCommands == {"settrgtAdv", "settrgtLink", "settrgtLinkAuto"}
\* The commands whose output is expected: send, expect, then connect.
Queries == {"gettrgtSpeed", "gettrgtDuplex", "checkHostPingv4"}

Send ==
  /\ Running(SetCommands \cup Queries, "start")
  /\ inq' = Append(inq, Line(Op, row))
  /\ stage' = IF Op \in Queries THEN "expect" ELSE "connect"
  /\ UNCHANGED <<buf, shell, link, applied, row, k, answers, status>>

\* The patterns, in their order.  A ping summary is 0 (" 0%"), 2 (" 0
\* received" and " 100%") or 1 (some loss: no pattern matches it).
Patterns(op) ==
  CASE op = "gettrgtSpeed" -> << {<<"Mbps", 10>>}, {<<"Mbps", 100>>}, {<<"Mbps", 1000>>} >>
    [] op = "gettrgtDuplex" -> << {<<"d", 1>>, <<"d", -1>>}, {<<"d", 0>>} >>
    [] op = "checkHostPingv4" -> << {<<"ping", 0>>}, {<<"ping", 2>>} >>

\* Storing an answer.
Take(op, raw, tag) ==
  CASE op = "gettrgtSpeed" ->
         tspeed' = Answer(raw, raw, tag) /\ UNCHANGED <<hspeed, hduplex, tduplex, rr>>
    [] op = "gettrgtDuplex" ->
         tduplex' = Answer(DuplexSeen(raw), raw, tag) /\ UNCHANGED <<hspeed, hduplex, tspeed, rr>>
    [] op = "checkHostPingv4" ->
         rr' = (IF raw = 2 THEN 0 ELSE 1) /\ UNCHANGED <<hspeed, hduplex, tspeed, tduplex>>

\* A timeout: -1, or the 1 a ping starts with.
TakeNothing(op) ==
  CASE op = "gettrgtSpeed" -> tspeed' = NoAnswer /\ UNCHANGED <<hspeed, hduplex, tduplex, rr>>
    [] op = "gettrgtDuplex" -> tduplex' = NoAnswer /\ UNCHANGED <<hspeed, hduplex, tspeed, rr>>
    [] op = "checkHostPingv4" -> rr' = 1 /\ UNCHANGED <<hspeed, hduplex, tspeed, tduplex>>

ExpectMatch ==
  /\ Running(Queries, "expect")
  /\ Matching(Patterns(Op)) # {}
  /\ LET i == FirstHit(FirstMatching(Patterns(Op)), Patterns(Op))
     IN /\ Take(Op, buf[i].val, buf[i].tag)
        /\ buf' = Dropped(i)
  /\ stage' = "connect"
  /\ UNCHANGED <<inq, shell, link, applied, row, k, status>>

\* Mutant: "set timeout -1".
NeverTimesOut(pats) == FALSE

\* An expect gives up only when none of its patterns matches.
TimesOut(pats) == Matching(pats) = {} /\ (Prompt30 => inq = <<>>)

ExpectTimeout ==
  /\ Running(Queries, "expect")
  /\ TimesOut(Patterns(Op))
  /\ TakeNothing(Op)
  /\ stage' = "connect"
  /\ UNCHANGED <<console, link, applied, row, k, status>>

\* checkTrgtPingv4 pings from the host; only a total loss is a failure.
HostPing ==
  /\ Running({"checkTrgtPingv4"}, "start")
  /\ \E loss \in IF link = Down THEN {2} ELSE {0, 1, 2} :
       rr' = IF loss = 2 THEN 0 ELSE 1
  /\ stage' = "connect"
  /\ UNCHANGED <<console, link, applied, row, k, hspeed, hduplex, tspeed, tduplex, status>>

\* proc connect: send a return and wait for a prompt.
ConnectOps == {"connect", "checkTrgtPingv4"} \cup SetCommands \cup Queries
Connect ==
  /\ Running(ConnectOps, "connect") \/ Running({"connect"}, "start")
  /\ inq' = Append(inq, Line("return", row))
  /\ stage' = "await"
  /\ UNCHANGED <<buf, shell, link, applied, row, k, answers, status>>

ConnectPatterns == <<LoginPattern, PromptPattern>>

\* At "login:" root is typed and connect is called again.
ConnectLogin ==
  /\ Running(ConnectOps, "await")
  /\ Matching(ConnectPatterns) # {}
  /\ FirstMatching(ConnectPatterns) = 1
  /\ buf' = Dropped(FirstHit(1, ConnectPatterns))
  /\ inq' = inq \o <<Line("root", row), Line("return", row)>>
  /\ UNCHANGED <<shell, link, applied, script>>

\* The first prompt in the buffer will do, whichever command it follows.
ConnectPrompt ==
  /\ Running(ConnectOps, "await")
  /\ Matching(ConnectPatterns) # {}
  /\ FirstMatching(ConnectPatterns) = 2
  /\ buf' = Dropped(FirstHit(2, ConnectPatterns))
  /\ Finish
  /\ UNCHANGED <<inq, shell, link, applied, answers, status>>

\* A timeout makes connect return 0, which no link test looks at.
ConnectTimeout ==
  /\ Running(ConnectOps, "await")
  /\ TimesOut(ConnectPatterns)
  /\ Finish
  /\ UNCHANGED <<console, link, applied, answers, status>>
-----------------------------------------------------------------------------
(* The verdict on a row.                                                   *)

\* The advertisement tests look at one side: the target's in AdvTrgt.
Seen == [speed |-> IF Script = "AdvTrgt" THEN tspeed ELSE hspeed,
         duplex |-> IF Script = "AdvTrgt" THEN tduplex ELSE hduplex]

\* Mutant: no speed fails the row.
AdvFailsDuplex(r) == Seen.duplex.val # r.duplex

\* Mutant: only the opposite duplex is a failure, as in the forced tests.
AdvFailsOpposite(r) ==
  \/ Seen.duplex.val = 1 - r.duplex
  \/ Seen.speed.val # r.speed /\ r.speed = 1000 /\ s1000Support = 1

AdvFails(r) ==
  \/ Seen.duplex.val # r.duplex
  \/ Seen.speed.val # r.speed /\ r.speed = 1000 /\ s1000Support = 1

\* Mutant: a speed that could not be read is no failure.
ForceFailsKnown(r) ==
  \/ tduplex.val = 1 - r.duplex
  \/ hduplex.val = 1 - r.duplex
  \/ tspeed.val \notin {-1, r.speed}
  \/ r.speed # hspeed.val

ForceFails(r) ==
  \/ tduplex.val = 1 - r.duplex
  \/ hduplex.val = 1 - r.duplex
  \/ r.speed # tspeed.val
  \/ r.speed # hspeed.val

ExitIf(failed) ==
  IF failed THEN status' = "fail" /\ UNCHANGED <<row, k, stage>>
            ELSE Finish /\ UNCHANGED status

Verdict ==
  /\ Running({"verdict"}, "start")
  /\ ExitIf(IF Forces THEN ForceFails(Rows[row]) ELSE AdvFails(Rows[row]))
  /\ UNCHANGED <<console, link, applied, answers>>

CheckPing ==
  /\ Running({"checkrr"}, "start")
  /\ ExitIf(rr = 0)
  /\ UNCHANGED <<console, link, applied, answers>>

Exit ==
  /\ Running({"exit"}, "start")
  /\ status' = "pass"
  /\ UNCHANGED <<console, link, applied, row, k, stage, answers>>
-----------------------------------------------------------------------------
(* The board and the link.                                                 *)

\* The set commands renegotiate the link, the queries print what they find.
\* A ping is lost altogether when the link is down.
BoardRun ==
  /\ inq # <<>>
  /\ LET cmd == Head(inq).cmd
         sets == shell = "shell" /\ cmd \in SetCommands
     IN /\ link' = IF sets THEN Down ELSE link
        /\ applied' = IF sets /\ cmd # "settrgtLinkAuto" THEN Head(inq).tag ELSE applied
        /\ \E loss \in IF link = Down THEN {2} ELSE {0, 1, 2} :
             BoardExec(
               CASE cmd = "gettrgtSpeed" -> <<Token("Mbps", link.speed, applied)>>
                 [] cmd = "gettrgtDuplex" -> <<Token("d", link.duplex, applied)>>
                 [] cmd = "checkHostPingv4" -> <<Token("ping", loss, applied)>>
                 [] OTHER -> <<>>)
  /\ UNCHANGED script

\* The link comes up, changes or is lost.
LinkChange ==
  /\ status = "running"
  /\ link' \in Links \ {link}
  /\ UNCHANGED <<console, applied, script>>
-----------------------------------------------------------------------------
Host == \/ HostSet \/ GetHostSpeed \/ GetHostDuplex \/ HostPing
        \/ Send \/ ExpectMatch \/ ExpectTimeout
        \/ Connect \/ ConnectLogin \/ ConnectPrompt \/ ConnectTimeout
        \/ Verdict \/ CheckPing \/ Exit

Next == Host \/ BoardRun \/ LinkChange

Spec == Init /\ [][Next]_vars

\* expect gives up after its timeout, so the script always goes on; the board
\* need not.
FairSpec == Spec /\ WF_vars(Host)
-----------------------------------------------------------------------------
(* Properties.                                                             *)

\* The script has accepted the answers of row i.
Accepted(i) == row = i /\ \E v \in 1..(k - 1) : Code(i)[v] = "verdict"

\* An accepted duplex was found while the row's own setting was in force, and
\* is the expected one, or "full" read off a link that was down: a duplex that
\* times out ends the test, so no late answer is taken for a later row
\* (emactestllinkAdvTrgt.exp:57-62).
DuplexOfThisRow ==
  \A i \in 1..Len(Rows) : Accepted(i) =>
    Seen.duplex.tag = i /\ Seen.duplex.val = Rows[i].duplex

\* An accepted speed of the forced tests was found while the row's own setting
\* was in force: a timeout (-1) never equals the forced speed
\* (emactestllinkForceTrgt.exp:65-68).
SpeedOfThisRow ==
  \A i \in 1..Len(Rows) : Accepted(i) =>
    tspeed.tag = i /\ tspeed.val = Rows[i].speed

\* What the advertisement tests accept although it is not what the row expects
\* has its limits: a speed of 1000Mbps that is expected and supported was read,
\* under the row's own setting, and a link that is down passes for full duplex
\* only (emactestllinkAdvTrgt.exp:59-71).
GigabitIsRead ==
  \A i \in 1..Len(Rows) : Accepted(i) =>
    /\ Rows[i].speed = 1000 /\ s1000Support = 1 => Seen.speed.val = 1000 /\ Seen.speed.tag = i
    /\ Seen.duplex.raw = -1 => Rows[i].duplex = 1

\* An accepted duplex was read off a link that was up
\* (emactestllinkAdvTrgt.exp:36, "fail on unexpected value").
DuplexOfALink ==
  \A i \in 1..Len(Rows) : Accepted(i) => Seen.duplex.raw # -1

\* An accepted speed is the expected one (emactestllinkAdvTrgt.exp:36, "fail
\* on unexpected value").
SpeedAsExpected ==
  \A i \in 1..Len(Rows) : Accepted(i) => Seen.speed.val = Rows[i].speed

\* Whatever the board does, the script ends with an exit status.
Terminates == <>(status # "running")
=============================================================================
