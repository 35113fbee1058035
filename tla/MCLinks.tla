------------------------------- MODULE MCLinks -------------------------------
(* The tests that talk to the board over its console, one per behaviour: the *)
(* link test of the configuration on the rows of the advertisement table,    *)
(* ForceTrgt on those of the forced table, the jumbo test, and the stream    *)
(* test with a board that answers in time or that may be arbitrarily slow.   *)
EXTENDS MCLinkTest

CONSTANTS
  Families,     \* how often the jumbo test repeats its pings
  ForcedRows,   \* the rows of ForceTrgt
  StreamOps,    \* the copies of the stream test, and those of the one with
  SlowOps       \* a board that may be slow

ASSUME LinksAssumption == ForcedRows \in Seq([speed : {10, 100, 1000}, duplex : {0, 1}])

VARIABLES
  test, heard, randfile, trandfile, trgtfile, hostvlan, hostmtu, trgtvlan, trgtmtu, set

vlanvars == <<heard, randfile, trandfile, trgtfile, hostvlan, hostmtu, trgtvlan, trgtmtu, set>>

Forced == INSTANCE LinkTest WITH Script <- "ForceTrgt", Rows <- ForcedRows, Speeds <- {10}
\* On a slower board a late summary is taken for that of the next ping.
JumboTest == INSTANCE VlanTests WITH Test <- "jumbo", Rounds <- <<>>, Prompt30 <- TRUE
StreamTest == INSTANCE VlanTests WITH Test <- "stream", Prompt30 <- TRUE, Rounds <- StreamOps
SlowTest == INSTANCE VlanTests WITH Test <- "stream", Prompt30 <- FALSE, Rounds <- SlowOps

\* A copy beside the VLAN, one over it, and one after the MTUs have changed.
MCStreamOps == JumboTest!Round(0, 1500, 1500) \o JumboTest!Round(1, 0, 0) \o JumboTest!Round(0, 3080, 8000)
\* Copies only: nothing else keeps the board busy.
MCSlowOps == JumboTest!Round(0, 0, 0) \o JumboTest!Round(1, 0, 0)

\* The variables of the tests that do not run.
NoLinkTest ==
  /\ link = Down /\ applied = 0 /\ row = 0
  /\ hspeed = NoAnswer /\ hduplex = NoAnswer /\ tspeed = NoAnswer /\ tduplex = NoAnswer
NoVlanTest ==
  /\ heard = 0 /\ randfile = 0 /\ trandfile = 0 /\ trgtfile = 0
  /\ hostvlan = FALSE /\ trgtvlan = "none" /\ hostmtu = 1500 /\ trgtmtu = 1500 /\ set = 0

LinksInit ==
  \/ test = "adv" /\ Init /\ NoVlanTest
  \/ test = "forced" /\ Forced!Init /\ NoVlanTest
  \/ test = "jumbo" /\ JumboTest!Init /\ NoLinkTest
  \/ test = "stream" /\ StreamTest!Init /\ NoLinkTest
  \/ test = "slow" /\ SlowTest!Init /\ NoLinkTest

linkvars == <<link, applied, row, hspeed, hduplex, tspeed, tduplex>>
LinksNext ==
  /\ UNCHANGED test
  /\ \/ test = "adv" /\ Next /\ UNCHANGED vlanvars
     \/ test = "forced" /\ Forced!Next /\ UNCHANGED vlanvars
     \/ test = "jumbo" /\ JumboTest!Next /\ UNCHANGED linkvars
     \/ test = "stream" /\ StreamTest!Next /\ UNCHANGED linkvars
     \/ test = "slow" /\ SlowTest!Next /\ UNCHANGED linkvars
LinksSpec == LinksInit /\ [][LinksNext]_<<vars, test, vlanvars>>
-----------------------------------------------------------------------------
\* LinkTest: an accepted duplex of AdvTrgt is the row's own
\* (emactestllinkAdvTrgt.exp:57-62).
AdvDuplexOfThisRow == test = "adv" => DuplexOfThisRow
\* LinkTest: what AdvTrgt accepts of a wrong speed and of a link that is down
\* (emactestllinkAdvTrgt.exp:59-71).
AdvGigabitIsRead == test = "adv" => GigabitIsRead
\* LinkTest: an accepted speed of ForceTrgt is the row's own
\* (emactestllinkForceTrgt.exp:65-68).
ForcedSpeedOfThisRow == test = "forced" => Forced!SpeedOfThisRow
\* VlanTests: on a board that executes what was typed within the timeout, a
\* refusal the jumbo test accepts is that of this very ping, under the MTU of
\* its part of the test (emactestjumbo.exp:44-66 and 127-169).
JumboRefusalOfThisPing == test = "jumbo" => JumboTest!RefusalOfThisPing
\* VlanTests: files that the stream test finds equal were made and brought
\* back by this very copy (testlib.exp:304-308).
StreamRoundTripped ==
  /\ test = "stream" => StreamTest!RoundTripped
  /\ test = "slow" => SlowTest!RoundTripped
=============================================================================
