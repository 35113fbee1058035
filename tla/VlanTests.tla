----------------------------- MODULE VlanTests -----------------------------
(***************************************************************************)
(* Two tests of ethernet_test/test-suite that set up a VLAN between host    *)
(* and board with the procedures of testlib.exp: emacteststream.exp, which  *)
(* copies a random file to the board and back, and emactestjumbo.exp, which *)
(* wants a ping refused when it is larger than the MTU.                     *)
(*                                                                          *)
(* Commands of the host run to their end; those of the board are typed on   *)
(* its console and executed whenever the board gets to them.  Every command *)
(* may fail.  What a run finds was left by an earlier one.                  *)
(***************************************************************************)
EXTENDS Console

CONSTANTS
  Test,      \* "stream" or "jumbo"
  Families,  \* how often the pings are repeated: 2, for IPv4 and for IPv6
  Rounds,    \* the operations of the stream test's copies: StreamRounds, or
             \* those of a few rounds
  Prompt30   \* TRUE if the board executes what was typed within the timeout
             \* of an expect, FALSE if it may be arbitrarily slow

\* What the script does, operation by operation; n is an MTU or a size.
Op(do, n) == [do |-> do, n |-> n]
Ops(dos) == [i \in DOMAIN dos |-> Op(dos[i], 0)]

RemVlan == Ops(<<"remVlanHost", "remVlanTrgt">>)
AddVlan(trgtmtu, hostmtu) ==
  Ops(<<"vconfig", "down">>) \o <<Op("mtu", trgtmtu)>> \o Ops(<<"vlanup", "inet6", "ipv4">>)
  \o <<Op("addVlanHost", hostmtu)>>

RemFiles == Ops(<<"remHostFiles", "remTrgtFile">>)
copyCompareFile(ip) == RemFiles \o <<Op("dd", 0), Op("scpto", ip), Op("scpback", ip), Op("cmp", 0)>>

\* A copy over the VLAN (ip = 1) or not (0), and the MTUs set before it, if any.
Round(ip, trgtmtu, hostmtu) ==
  (IF trgtmtu = 0 THEN <<>> ELSE RemVlan \o AddVlan(trgtmtu, hostmtu))
  \o copyCompareFile(ip) \o RemFiles
StreamRounds == Round(0, 1500, 1500) \o Round(1, 0, 0) \o Round(0, 3080, 8000) \o Round(0, 0, 0)
                \o Round(0, 2030, 8000) \o Round(0, 0, 0)

Times(s) == IF Families = 1 THEN s ELSE s \o s
Both(size, want) == Times(<<Op("checkHostPing", size), Op(want, 0), Op("checkTrgtPing", size), Op(want, 0)>>)
Jumbo ==
  RemVlan \o AddVlan(1500, 1500) \o Both(64, "reply") \o Both(3600, "silence")
  \o RemVlan \o AddVlan(3700, 8000) \o Both(64, "reply") \o Both(3600, "reply")
  \o Both(7000, "silence") \o Times(<<Op("checkHostPing", 4000), Op("silence", 0)>>)

\* sethostLinkAuto, of the host, changes nothing that is modelled here.
Code ==
  IF Test = "stream" THEN Ops(<<"connect">>) \o Rounds \o RemVlan \o Ops(<<"exit">>)
  ELSE Ops(<<"connect", "settrgtLinkAuto">>) \o Jumbo \o Ops(<<"exit">>)

VARIABLES
  k,          \* position in Code
  stage,      \* progress inside the operation
  rr,         \* rcode of the last ping
  status,     \* "running", "pass" (exit 0) or "fail" (exit 1)
  heard,      \* ghost: the ping whose summary was read last, 0 for none
  randfile, trandfile, trgtfile,   \* the file on the host, the one copied
              \* back, and the one on the board: the dd that made it, None, Old
              \* (of an earlier run) or Part (of a copy that was broken off)
  hostvlan,   \* the VLAN is configured on the host
  trgtvlan,   \* on the board: "none", "added" or "addressed"
  trgtmtu,    \* the MTU of the board's interface, 0 while it is down
  hostmtu,
  set         \* ghost: the mtu command the board executed last

files == <<randfile, trandfile, trgtfile>>
hostnet == <<hostvlan, hostmtu>>
trgtnet == <<trgtvlan, trgtmtu, set>>
script == <<k, stage, rr, status, heard>>
vars == <<console, script, files, hostnet, trgtnet>>

None == 0
Old == -1
Part == -2

\* What earlier runs left behind (a stream test that failed its files, a jumbo
\* test its VLAN and its MTUs), or nothing; the board was rebooted or not.
Init ==
  /\ inq = <<>> /\ buf = <<>> /\ shell \in {"login", "shell"}
  /\ k = 1 /\ stage = "start" /\ rr = 1 /\ status = "running" /\ heard = 0
  /\ \E left \in BOOLEAN :
       /\ randfile = (IF left THEN Old ELSE None) /\ trandfile = randfile /\ trgtfile = randfile
       /\ hostvlan = left /\ trgtvlan = (IF left THEN "addressed" ELSE "none")
       /\ trgtmtu = (IF left THEN 3700 ELSE 1500) /\ hostmtu = (IF left THEN 8000 ELSE 1500)
  /\ set = 0
-----------------------------------------------------------------------------
Do == Code[k].do
N == Code[k].n
Running(dos, st) == status = "running" /\ stage = st /\ Do \in dos

Finish == k' = k + 1 /\ stage' = "start"
Fail == status' = "fail" /\ UNCHANGED <<k, stage>>

\* Mutant: only the file copied back is removed.
RemOneFile ==
  /\ Running({"remHostFiles"}, "start")
  /\ trandfile' = None
  /\ Finish
  /\ UNCHANGED <<console, rr, status, heard, randfile, trgtfile, hostnet, trgtnet>>

remHostFiles ==
  /\ Running({"remHostFiles"}, "start")
  /\ randfile' = None /\ trandfile' = None
  /\ Finish
  /\ UNCHANGED <<console, rr, status, heard, trgtfile, hostnet, trgtnet>>

remVlanHost ==
  /\ Running({"remVlanHost"}, "start")
  /\ hostvlan' \in {FALSE, hostvlan}
  /\ Finish
  /\ UNCHANGED <<console, rr, status, heard, files, hostmtu, trgtnet>>

addVlanHost ==
  /\ Running({"addVlanHost"}, "start")
  /\ hostvlan' \in BOOLEAN /\ hostmtu' \in {N, hostmtu}
  /\ Finish
  /\ UNCHANGED <<console, rr, status, heard, files, trgtnet>>

\* makeLocalFile: dd, and scp in both directions.  A broken copy leaves a part.
MakeFile ==
  /\ Running({"dd"}, "start")
  /\ randfile' \in {k, randfile}
  /\ Finish
  /\ UNCHANGED <<console, rr, status, heard, trandfile, trgtfile, hostnet, trgtnet>>

OnVlan == hostvlan /\ trgtvlan = "addressed"
Copies(from, to) == {to} \cup (IF from = None \/ trgtmtu = 0 \/ (N = 1 /\ ~OnVlan) THEN {} ELSE {from, Part})

CopyTo ==
  /\ Running({"scpto"}, "start")
  /\ trgtfile' \in Copies(randfile, trgtfile)
  /\ Finish
  /\ UNCHANGED <<console, rr, status, heard, randfile, trandfile, hostnet, trgtnet>>

CopyBack ==
  /\ Running({"scpback"}, "start")
  /\ trandfile' \in Copies(trgtfile, trandfile)
  /\ Finish
  /\ UNCHANGED <<console, rr, status, heard, randfile, trgtfile, hostnet, trgtnet>>

Compare ==
  /\ Running({"cmp"}, "start")
  /\ IF randfile # None /\ randfile = trandfile THEN Finish /\ UNCHANGED status ELSE Fail
  /\ UNCHANGED <<console, rr, heard, files, hostnet, trgtnet>>

\* What the script makes of a ping: a total loss is wanted or not.
Verdict ==
  /\ Running({"reply", "silence"}, "start")
  /\ IF rr = (IF Do = "reply" THEN 1 ELSE 0) THEN Finish /\ UNCHANGED status ELSE Fail
  /\ UNCHANGED <<console, rr, heard, files, hostnet, trgtnet>>

Exit ==
  /\ Running({"exit"}, "start")
  /\ status' = "pass"
  /\ UNCHANGED <<console, k, stage, rr, heard, files, hostnet, trgtnet>>
-----------------------------------------------------------------------------
(* Pings and the console.                                                  *)

\* The summary of a ping: 0 nothing lost, 1 some of it, 2 all, and 3 for an
\* error without a summary.  A ping larger than the sender's MTU is refused.
Summaries(size, mtu) ==
  IF OnVlan /\ trgtmtu # 0 THEN (IF size + 28 > mtu THEN {2} ELSE {0, 1, 2}) ELSE {2, 3}

\* Only a total loss that is read makes it 0.
rcode(loss) == IF loss = 2 THEN 0 ELSE 1

\* The ping of the host is spawned, so its end is seen even without a summary.
checkTrgtPing ==
  /\ Running({"checkTrgtPing"}, "start")
  /\ \E loss \in Summaries(N, hostmtu) :
       rr' = rcode(loss) /\ heard' = IF loss \in {0, 2} THEN k ELSE 0
  /\ inq' = Append(inq, Line("return", k)) /\ stage' = "await"
  /\ UNCHANGED <<buf, shell, k, status, files, hostnet, trgtnet>>

\* Commands whose output nobody reads: send and connect.
Silent == {"remVlanTrgt", "vconfig", "down", "mtu", "vlanup", "inet6", "ipv4", "settrgtLinkAuto"}
Type ==
  /\ Running(Silent \cup {"connect"}, "start")
  /\ inq' = (IF Do = "connect" THEN inq ELSE Append(inq, Line(Do, k))) \o <<Line("return", k)>>
  /\ stage' = "await"
  /\ UNCHANGED <<buf, shell, k, rr, status, heard, files, hostnet, trgtnet>>

\* Commands whose output is expected.
Asked == {"checkHostPing", "remTrgtFile"}
Send ==
  /\ Running(Asked, "start")
  /\ inq' = Append(inq, Line(Do, k)) /\ stage' = "expect"
  /\ UNCHANGED <<buf, shell, k, rr, status, heard, files, hostnet, trgtnet>>

Patterns == IF Do = "remTrgtFile" THEN <<PromptPattern>> ELSE << {<<"ping", 0>>}, {<<"ping", 2>>} >>
TimesOut(pats) == Matching(pats) = {} /\ (Prompt30 => inq = <<>>)

ExpectMatch ==
  /\ Running(Asked, "expect")
  /\ Matching(Patterns) # {}
  /\ LET i == FirstHit(FirstMatching(Patterns), Patterns)
     IN /\ IF Do = "remTrgtFile" THEN UNCHANGED <<rr, heard>>
           ELSE rr' = rcode(buf[i].val) /\ heard' = buf[i].tag
        /\ buf' = Dropped(i)
  /\ inq' = Append(inq, Line("return", k)) /\ stage' = "await"
  /\ UNCHANGED <<shell, k, status, files, hostnet, trgtnet>>

\* Mutant: "set rcode 0" before the expect of a ping.
TimeoutIsSilence ==
  /\ Running(Asked, "expect")
  /\ TimesOut(Patterns)
  /\ IF Do = "remTrgtFile" THEN UNCHANGED <<rr, heard>> ELSE rr' = 0 /\ heard' = 0
  /\ inq' = Append(inq, Line("return", k)) /\ stage' = "await"
  /\ UNCHANGED <<buf, shell, k, status, files, hostnet, trgtnet>>

\* A ping that times out counts as answered.
ExpectTimeout ==
  /\ Running(Asked, "expect")
  /\ TimesOut(Patterns)
  /\ IF Do = "remTrgtFile" THEN UNCHANGED <<rr, heard>> ELSE rr' = 1 /\ heard' = 0
  /\ inq' = Append(inq, Line("return", k)) /\ stage' = "await"
  /\ UNCHANGED <<buf, shell, k, status, files, hostnet, trgtnet>>

ConnectPatterns == <<LoginPattern, PromptPattern>>
Waiting == status = "running" /\ stage = "await"

ConnectLogin ==
  /\ Waiting /\ Matching(ConnectPatterns) # {} /\ FirstMatching(ConnectPatterns) = 1
  /\ buf' = Dropped(FirstHit(1, ConnectPatterns))
  /\ inq' = inq \o <<Line("root", k), Line("return", k)>>
  /\ UNCHANGED <<shell, script, files, hostnet, trgtnet>>

ConnectPrompt ==
  /\ Waiting /\ Matching(ConnectPatterns) # {} /\ FirstMatching(ConnectPatterns) = 2
  /\ buf' = Dropped(FirstHit(2, ConnectPatterns))
  /\ Finish
  /\ UNCHANGED <<inq, shell, rr, status, heard, files, hostnet, trgtnet>>

ConnectTimeout ==
  /\ Waiting /\ TimesOut(ConnectPatterns)
  /\ Finish
  /\ UNCHANGED <<console, rr, status, heard, files, hostnet, trgtnet>>
-----------------------------------------------------------------------------
\* A command the board's shell executes; all but rm may fail.
Effect(line) ==
  LET Cmd(cmd) == line.cmd = cmd /\ shell = "shell"
      mtu == Code[line.tag].n
  IN /\ trgtfile' = IF Cmd("remTrgtFile") THEN None ELSE trgtfile
     /\ trgtvlan' \in {trgtvlan} \cup
          (IF Cmd("remVlanTrgt") THEN {"none"}
           ELSE IF Cmd("vconfig") /\ trgtvlan = "none" THEN {"added"}
           ELSE IF Cmd("ipv4") /\ trgtvlan = "added" THEN {"addressed"} ELSE {})
     /\ trgtmtu' \in IF Cmd("down") THEN {0, trgtmtu}
                     ELSE IF Cmd("mtu") THEN {mtu, trgtmtu} ELSE {trgtmtu}
     /\ set' = IF Cmd("mtu") THEN line.tag ELSE set

\* What the board does once the script is over is seen by nobody.
BoardRun ==
  /\ inq # <<>> /\ status = "running"
  /\ LET line == Head(inq)
     IN /\ Effect(line)
        /\ IF line.cmd = "checkHostPing"
           THEN \E loss \in Summaries(Code[line.tag].n, trgtmtu) :
                  BoardExec(IF loss = 3 THEN <<>> ELSE <<Token("ping", loss, line.tag)>>)
           ELSE BoardExec(<<>>)
  /\ UNCHANGED <<script, randfile, trandfile, hostnet>>

Next ==
  \/ remHostFiles \/ remVlanHost \/ addVlanHost \/ MakeFile \/ CopyTo \/ CopyBack \/ Compare
  \/ Verdict \/ Exit \/ checkTrgtPing \/ Type \/ Send \/ ExpectMatch \/ ExpectTimeout
  \/ ConnectLogin \/ ConnectPrompt \/ ConnectTimeout \/ BoardRun

Spec == Init /\ [][Next]_vars
-----------------------------------------------------------------------------
\* The operation before position i that does do, the last one; 0 for none.
LastBefore(do, i) ==
  LET at == {j \in 1..(i - 1) : Code[j].do = do}
  IN IF at = {} THEN 0 ELSE CHOOSE j \in at : \A l \in at : l <= j

\* The operation before k is over, and it was do.
Past(do) == k > 1 /\ stage = "start" /\ Code[k - 1].do = do

\* Files that were found equal are those of this copy: made by its own dd and
\* brought back from the board, although the board may remove its file too
\* late or never, and any command may have failed (copyCompareFile,
\* testlib.exp:304-308 and emacteststream.exp:24-33).
RoundTripped == Past("cmp") => randfile = LastBefore("dd", k) /\ trandfile = randfile

\* A refusal that was wanted and accepted is that of this very ping, and a
\* ping of the board was made after the board had executed the mtu command of
\* its own part of the test (emactestjumbo.exp:44-66 and 127-169).
RefusalOfThisPing ==
  Past("silence") =>
    /\ heard = k - 2
    /\ Code[k - 2].do = "checkHostPing" => set = LastBefore("mtu", k)

\* A copy is made with the MTUs of its round in force on the board
\* (emacteststream.exp:12, "Change the MTUs, try again").
MtuOfThisRound == Past("cmp") => set = LastBefore("mtu", k)
=============================================================================
