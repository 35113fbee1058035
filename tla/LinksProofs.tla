----------------------------- MODULE LinksProofs ----------------------------
(***************************************************************************)
(* The theorems of LinkTestProofs and VlanProofs for the instances of       *)
(* LinkTest and VlanTests that MCLinks composes.  An instance of the proofs *)
(* and that of MCLinks are the same specification, which is shown action by *)
(* action.                                                                  *)
(***************************************************************************)
EXTENDS MCLinks, LinkTestProofs

-----------------------------------------------------------------------------
(* AdvTrgt: the instance that MCLinks extends.                               *)

\* Whatever the rows, the speeds of the link and the speed of the board, a
\* duplex that AdvTrgt accepts was found while the row's own setting was in
\* force, and is the row's (emactestllinkAdvTrgt.exp:57-62).
THEOREM AdvDuplexOfThisRowThm ==
  ASSUME Script = "AdvTrgt"
  PROVE  LinksSpec => []AdvDuplexOfThisRow
<1> DEFINE I == test = "adv" => AdvInv
<1>1. LinksInit => I
  BY AdvStart DEF LinksInit
<1>2. I /\ [LinksNext]_<<vars, test, vlanvars>> => I'
  BY AdvUnchanged, AdvStep DEF LinksNext
<1>3. I => AdvDuplexOfThisRow
  BY AdvRowDuplex DEF AdvDuplexOfThisRow
<1> QED
  BY <1>1, <1>2, <1>3, PTL DEF LinksSpec

\* Where only the first row may ask for 1000Mbps, as in the table of the script,
\* AdvTrgt accepts such a row on a board that can do it only when it read
\* 1000Mbps under the row's own setting, and takes a link that is down for
\* full duplex only (emactestllinkAdvTrgt.exp:59-71).
THEOREM AdvGigabitIsReadThm ==
  ASSUME Script = "AdvTrgt", \A i \in 2..Len(Rows) : Rows[i].speed # 1000
  PROVE  LinksSpec => []AdvGigabitIsRead
<1> DEFINE I == test = "adv" => AdvInv
<1>1. LinksInit => I
  BY AdvStart DEF LinksInit
<1>2. I /\ [LinksNext]_<<vars, test, vlanvars>> => I'
  BY AdvUnchanged, AdvStep DEF LinksNext
<1>3. I => AdvGigabitIsRead
  BY AdvReadsGigabit DEF AdvGigabitIsRead
<1> QED
  BY <1>1, <1>2, <1>3, PTL DEF LinksSpec

-----------------------------------------------------------------------------
(* ForceTrgt.                                                                *)

ForceP == INSTANCE LinkTestProofs WITH Script <- "ForceTrgt", Rows <- ForcedRows, Speeds <- {10}

LEMMA ForcedSameCode ==
  \A i : Forced!Code(i) = ForceP!Code(i)
BY DEF
  Forced!Code, ForceP!Code, Forced!LinkAuto, ForceP!LinkAuto, Forced!Body, ForceP!Body,
  Forced!Pings, ForceP!Pings, Forced!Forces, ForceP!Forces, Forced!Skipped,
  ForceP!Skipped, Forced!GetBoth, ForceP!GetBoth

LEMMA ForcedSameNext == Forced!Next <=> ForceP!Next
<1> USE ForcedSameCode DEF
      Forced!Running, ForceP!Running, Forced!Down, ForceP!Down, Forced!Op, ForceP!Op,
      Forced!Finish, ForceP!Finish, Forced!console, ForceP!console, Forced!answers,
      ForceP!answers, Forced!Answer, ForceP!Answer, Forced!DuplexSeen, ForceP!DuplexSeen,
      Forced!SetCommands, ForceP!SetCommands, Forced!Queries, ForceP!Queries, Forced!Line,
      ForceP!Line, Forced!Matching, ForceP!Matching, Forced!Patterns, ForceP!Patterns,
      Forced!FirstHit, ForceP!FirstHit, Forced!FirstMatching, ForceP!FirstMatching,
      Forced!Take, ForceP!Take, Forced!Dropped, ForceP!Dropped, Forced!Hits, ForceP!Hits,
      Forced!TimesOut, ForceP!TimesOut, Forced!TakeNothing, ForceP!TakeNothing,
      Forced!NoAnswer, ForceP!NoAnswer, Forced!ConnectOps, ForceP!ConnectOps,
      Forced!ConnectPatterns, ForceP!ConnectPatterns, Forced!script, ForceP!script,
      Forced!LoginPattern, ForceP!LoginPattern, Forced!PromptPattern,
      ForceP!PromptPattern, Forced!ExitIf, ForceP!ExitIf, Forced!Forces, ForceP!Forces,
      Forced!ForceFails, ForceP!ForceFails, Forced!AdvFails, ForceP!AdvFails, Forced!Seen,
      ForceP!Seen, Forced!BoardExec, ForceP!BoardExec, Forced!Token, ForceP!Token,
      Forced!Prompt, ForceP!Prompt, Forced!LoginPrompt, ForceP!LoginPrompt, Forced!Links,
      ForceP!Links
<1>1. Forced!HostSet <=> ForceP!HostSet
  BY DEF Forced!HostSet, ForceP!HostSet
<1>2. /\ (Forced!GetHostSpeed <=> ForceP!GetHostSpeed)
      /\ (Forced!GetHostDuplex <=> ForceP!GetHostDuplex)
      /\ (Forced!HostPing <=> ForceP!HostPing)
  BY DEF Forced!GetHostSpeed, ForceP!GetHostSpeed, Forced!GetHostDuplex,
         ForceP!GetHostDuplex, Forced!HostPing, ForceP!HostPing
<1>3. Forced!Send <=> ForceP!Send
  BY DEF Forced!Send, ForceP!Send
<1>4. /\ (Forced!ExpectMatch <=> ForceP!ExpectMatch)
      /\ (Forced!ExpectTimeout <=> ForceP!ExpectTimeout)
  <2>1. Forced!Op = ForceP!Op
    OBVIOUS
  <2>2. \A op : Forced!Patterns(op) = ForceP!Patterns(op)
    OBVIOUS
  <2>3. \A op, raw, tag : Forced!Take(op, raw, tag) <=> ForceP!Take(op, raw, tag)
    OBVIOUS
  <2>4. \A op : Forced!TakeNothing(op) <=> ForceP!TakeNothing(op)
    OBVIOUS
  <2>a. \A pats : /\ Forced!Matching(pats) = ForceP!Matching(pats)
                  /\ Forced!FirstMatching(pats) = ForceP!FirstMatching(pats)
    OBVIOUS
  <2>b. \A p, pats : Forced!FirstHit(p, pats) = ForceP!FirstHit(p, pats)
    OBVIOUS
  <2> HIDE DEF Forced!Matching, ForceP!Matching, Forced!FirstMatching, ForceP!FirstMatching,
               Forced!FirstHit, ForceP!FirstHit,
               Forced!Op, ForceP!Op, Forced!Patterns, ForceP!Patterns, Forced!Take,
               ForceP!Take, Forced!TakeNothing, ForceP!TakeNothing
  <2>5. Forced!ExpectMatch <=> ForceP!ExpectMatch
    BY <2>1, <2>2, <2>3, <2>a, <2>b DEF Forced!ExpectMatch, ForceP!ExpectMatch
  <2>6. Forced!ExpectTimeout <=> ForceP!ExpectTimeout
    BY <2>1, <2>2, <2>4, <2>a DEF Forced!ExpectTimeout, ForceP!ExpectTimeout
  <2> QED
    BY <2>5, <2>6
<1>6. Forced!Connect <=> ForceP!Connect
  BY DEF Forced!Connect, ForceP!Connect
<1>7. Forced!ConnectLogin <=> ForceP!ConnectLogin
  BY DEF Forced!ConnectLogin, ForceP!ConnectLogin
<1>8. Forced!ConnectPrompt <=> ForceP!ConnectPrompt
  BY DEF Forced!ConnectPrompt, ForceP!ConnectPrompt
<1>9. Forced!ConnectTimeout <=> ForceP!ConnectTimeout
  BY DEF Forced!ConnectTimeout, ForceP!ConnectTimeout
<1>10. Forced!Verdict <=> ForceP!Verdict
  BY DEF Forced!Verdict, ForceP!Verdict
<1>11. /\ (Forced!CheckPing <=> ForceP!CheckPing)
      /\ (Forced!Exit <=> ForceP!Exit)
  BY DEF Forced!CheckPing, ForceP!CheckPing, Forced!Exit, ForceP!Exit
<1>12. Forced!BoardRun <=> ForceP!BoardRun
  BY DEF Forced!BoardRun, ForceP!BoardRun
<1>13. Forced!LinkChange <=> ForceP!LinkChange
  BY DEF Forced!LinkChange, ForceP!LinkChange
<1> QED
  BY <1>1, <1>2, <1>3, <1>4, <1>6, <1>7, <1>8, <1>9, <1>10, <1>11, <1>12, <1>13 DEF Forced!Next, ForceP!Next, Forced!Host, ForceP!Host

LEMMA ForcedSameInit == Forced!Init <=> ForceP!Init
BY DEF Forced!Init, ForceP!Init, Forced!Links, ForceP!Links, Forced!NoAnswer,
       ForceP!NoAnswer, Forced!Down, ForceP!Down, Forced!Answer, ForceP!Answer

LEMMA ForcedSameProperty == Forced!SpeedOfThisRow <=> ForceP!SpeedOfThisRow
BY ForcedSameCode DEF
  Forced!SpeedOfThisRow, ForceP!SpeedOfThisRow, Forced!Accepted, ForceP!Accepted

\* Whatever the rows, a speed that ForceTrgt accepts was found while the row's
\* own setting was in force, and is the row's: a timeout, or the late answer
\* of an earlier row, never equals the forced speed
\* (emactestllinkForceTrgt.exp:65-68).
THEOREM ForcedSpeedOfThisRowThm == LinksSpec => []ForcedSpeedOfThisRow
<1> DEFINE I == test = "forced" => ForceP!ForceInv
<1>a. ForceP!LinkTestAssumption
  BY LinksAssumption, LinkTestAssumption DEF ForceP!LinkTestAssumption, ForceP!Scripts
<1>1. LinksInit => I
  BY <1>a, ForceP!ForceStart, ForcedSameInit DEF LinksInit
<1>2. I /\ [LinksNext]_<<vars, test, vlanvars>> => I'
  <2>1. UNCHANGED <<vars, test, vlanvars>> => UNCHANGED <<ForceP!vars, test>>
    BY DEF vars, script, answers, console, ForceP!vars, ForceP!script, ForceP!answers, ForceP!console
  <2>2. LinksNext => UNCHANGED test /\ (test = "forced" => ForceP!Next)
    BY ForcedSameNext DEF LinksNext
  <2> QED
    BY <1>a, <2>1, <2>2, ForceP!ForceUnchanged, ForceP!ForceStep
<1>3. I => ForcedSpeedOfThisRow
  BY <1>a, ForceP!ForceSpeedOfThisRow, ForcedSameProperty DEF ForcedSpeedOfThisRow
<1> QED
  BY <1>1, <1>2, <1>3, PTL DEF LinksSpec
-----------------------------------------------------------------------------
(* The jumbo test.                                                           *)

JumboP == INSTANCE VlanProofs WITH Test <- "jumbo", Rounds <- <<>>, Prompt30 <- TRUE

LEMMA JumboSameCode ==
  JumboTest!Code = JumboP!Code
BY DEF
  JumboTest!Code, JumboP!Code, JumboTest!Ops, JumboP!Ops, JumboTest!RemVlan,
  JumboP!RemVlan, JumboTest!Jumbo, JumboP!Jumbo, JumboTest!Op, JumboP!Op,
  JumboTest!AddVlan, JumboP!AddVlan, JumboTest!Both, JumboP!Both, JumboTest!Times,
  JumboP!Times

LEMMA JumboSameNext == JumboTest!Next <=> JumboP!Next
<1> USE JumboSameCode DEF
      JumboTest!Running, JumboP!Running, JumboTest!None, JumboP!None, JumboTest!Finish,
      JumboP!Finish, JumboTest!console, JumboP!console, JumboTest!hostnet, JumboP!hostnet,
      JumboTest!trgtnet, JumboP!trgtnet, JumboTest!Do, JumboP!Do, JumboTest!files,
      JumboP!files, JumboTest!N, JumboP!N, JumboTest!Copies, JumboP!Copies,
      JumboTest!OnVlan, JumboP!OnVlan, JumboTest!Part, JumboP!Part, JumboTest!Fail,
      JumboP!Fail, JumboTest!Summaries, JumboP!Summaries, JumboTest!rcode, JumboP!rcode,
      JumboTest!Line, JumboP!Line, JumboTest!Silent, JumboP!Silent, JumboTest!Asked,
      JumboP!Asked, JumboTest!Matching, JumboP!Matching, JumboTest!Patterns,
      JumboP!Patterns, JumboTest!FirstHit, JumboP!FirstHit, JumboTest!FirstMatching,
      JumboP!FirstMatching, JumboTest!Dropped, JumboP!Dropped, JumboTest!Hits,
      JumboP!Hits, JumboTest!PromptPattern, JumboP!PromptPattern, JumboTest!TimesOut,
      JumboP!TimesOut, JumboTest!Waiting, JumboP!Waiting, JumboTest!ConnectPatterns,
      JumboP!ConnectPatterns, JumboTest!script, JumboP!script, JumboTest!LoginPattern,
      JumboP!LoginPattern, JumboTest!Effect, JumboP!Effect, JumboTest!BoardExec,
      JumboP!BoardExec, JumboTest!Token, JumboP!Token, JumboTest!Prompt, JumboP!Prompt,
      JumboTest!LoginPrompt, JumboP!LoginPrompt
<1>1. /\ (JumboTest!remHostFiles <=> JumboP!remHostFiles)
      /\ (JumboTest!remVlanHost <=> JumboP!remVlanHost)
      /\ (JumboTest!addVlanHost <=> JumboP!addVlanHost)
      /\ (JumboTest!MakeFile <=> JumboP!MakeFile)
  BY DEF JumboTest!remHostFiles, JumboP!remHostFiles, JumboTest!remVlanHost,
         JumboP!remVlanHost, JumboTest!addVlanHost, JumboP!addVlanHost,
         JumboTest!MakeFile, JumboP!MakeFile
<1>2. /\ (JumboTest!CopyTo <=> JumboP!CopyTo)
      /\ (JumboTest!CopyBack <=> JumboP!CopyBack)
  BY DEF JumboTest!CopyTo, JumboP!CopyTo, JumboTest!CopyBack, JumboP!CopyBack
<1>3. /\ (JumboTest!Compare <=> JumboP!Compare)
      /\ (JumboTest!Verdict <=> JumboP!Verdict)
      /\ (JumboTest!Exit <=> JumboP!Exit)
  BY DEF JumboTest!Compare, JumboP!Compare, JumboTest!Verdict, JumboP!Verdict,
         JumboTest!Exit, JumboP!Exit
<1>4. JumboTest!checkTrgtPing <=> JumboP!checkTrgtPing
  BY DEF JumboTest!checkTrgtPing, JumboP!checkTrgtPing
<1>5. /\ (JumboTest!Type <=> JumboP!Type)
      /\ (JumboTest!Send <=> JumboP!Send)
  BY DEF JumboTest!Type, JumboP!Type, JumboTest!Send, JumboP!Send
<1>6. JumboTest!ExpectMatch <=> JumboP!ExpectMatch
  BY DEF JumboTest!ExpectMatch, JumboP!ExpectMatch
<1>7. JumboTest!ExpectTimeout <=> JumboP!ExpectTimeout
  BY DEF JumboTest!ExpectTimeout, JumboP!ExpectTimeout
<1>8. JumboTest!ConnectLogin <=> JumboP!ConnectLogin
  BY DEF JumboTest!ConnectLogin, JumboP!ConnectLogin
<1>9. JumboTest!ConnectPrompt <=> JumboP!ConnectPrompt
  BY DEF JumboTest!ConnectPrompt, JumboP!ConnectPrompt
<1>10. JumboTest!ConnectTimeout <=> JumboP!ConnectTimeout
  BY DEF JumboTest!ConnectTimeout, JumboP!ConnectTimeout
<1>11. JumboTest!BoardRun <=> JumboP!BoardRun
  BY DEF JumboTest!BoardRun, JumboP!BoardRun
<1> QED
  BY <1>1, <1>2, <1>3, <1>4, <1>5, <1>6, <1>7, <1>8, <1>9, <1>10, <1>11 DEF JumboTest!Next, JumboP!Next

LEMMA JumboSameInit == JumboTest!Init <=> JumboP!Init
BY DEF JumboTest!Init, JumboP!Init, JumboTest!Old, JumboP!Old, JumboTest!None, JumboP!None

LEMMA JumboSameProperty == JumboTest!RefusalOfThisPing <=> JumboP!RefusalOfThisPing
BY JumboSameCode DEF
  JumboTest!RefusalOfThisPing, JumboP!RefusalOfThisPing, JumboTest!Past, JumboP!Past,
  JumboTest!LastBefore, JumboP!LastBefore

\* On a board that executes what was typed within the timeout, a refusal that
\* the jumbo test accepts is that of this very ping, under the MTU of its part
\* of the test (emactestjumbo.exp:44-66 and 127-169).
THEOREM JumboRefusalOfThisPingThm == LinksSpec => []JumboRefusalOfThisPing
<1> DEFINE I == test = "jumbo" => JumboP!JumboInv
<1>1. LinksInit => I
  BY JumboP!JumboStart, JumboSameInit DEF LinksInit
<1>2. I /\ [LinksNext]_<<vars, test, vlanvars>> => I'
  <2>1. UNCHANGED <<vars, test, vlanvars>> => UNCHANGED <<JumboP!vars, test>>
    BY DEF vars, script, answers, console, vlanvars, JumboP!vars, JumboP!script, JumboP!console,
           JumboP!files, JumboP!hostnet, JumboP!trgtnet
  <2>2. LinksNext => UNCHANGED test /\ (test = "jumbo" => JumboP!Next)
    BY JumboSameNext DEF LinksNext
  <2> QED
    BY <2>1, <2>2, JumboP!JumboKept
<1>3. I => JumboRefusalOfThisPing
  BY JumboP!JumboRefused, JumboSameProperty DEF JumboRefusalOfThisPing
<1> QED
  BY <1>1, <1>2, <1>3, PTL DEF LinksSpec

-----------------------------------------------------------------------------
(* The stream test, with a board that answers in time and with a slow one.   *)

StreamP == INSTANCE VlanProofs WITH Test <- "stream", Prompt30 <- TRUE, Rounds <- StreamOps

LEMMA StreamSameCode ==
  StreamTest!Code = StreamP!Code
BY DEF
  StreamTest!Code, StreamP!Code, StreamTest!Ops, StreamP!Ops, StreamTest!RemVlan,
  StreamP!RemVlan, StreamTest!Jumbo, StreamP!Jumbo, StreamTest!Op, StreamP!Op,
  StreamTest!AddVlan, StreamP!AddVlan, StreamTest!Both, StreamP!Both, StreamTest!Times,
  StreamP!Times

LEMMA StreamSameNext == StreamTest!Next <=> StreamP!Next
<1> USE StreamSameCode DEF
      StreamTest!Running, StreamP!Running, StreamTest!None, StreamP!None,
      StreamTest!Finish, StreamP!Finish, StreamTest!console, StreamP!console,
      StreamTest!hostnet, StreamP!hostnet, StreamTest!trgtnet, StreamP!trgtnet,
      StreamTest!Do, StreamP!Do, StreamTest!files, StreamP!files, StreamTest!N, StreamP!N,
      StreamTest!Copies, StreamP!Copies, StreamTest!OnVlan, StreamP!OnVlan,
      StreamTest!Part, StreamP!Part, StreamTest!Fail, StreamP!Fail, StreamTest!Summaries,
      StreamP!Summaries, StreamTest!rcode, StreamP!rcode, StreamTest!Line, StreamP!Line,
      StreamTest!Silent, StreamP!Silent, StreamTest!Asked, StreamP!Asked,
      StreamTest!Matching, StreamP!Matching, StreamTest!Patterns, StreamP!Patterns,
      StreamTest!FirstHit, StreamP!FirstHit, StreamTest!FirstMatching,
      StreamP!FirstMatching, StreamTest!Dropped, StreamP!Dropped, StreamTest!Hits,
      StreamP!Hits, StreamTest!PromptPattern, StreamP!PromptPattern, StreamTest!TimesOut,
      StreamP!TimesOut, StreamTest!Waiting, StreamP!Waiting, StreamTest!ConnectPatterns,
      StreamP!ConnectPatterns, StreamTest!script, StreamP!script, StreamTest!LoginPattern,
      StreamP!LoginPattern, StreamTest!Effect, StreamP!Effect, StreamTest!BoardExec,
      StreamP!BoardExec, StreamTest!Token, StreamP!Token, StreamTest!Prompt,
      StreamP!Prompt, StreamTest!LoginPrompt, StreamP!LoginPrompt
<1>1. /\ (StreamTest!remHostFiles <=> StreamP!remHostFiles)
      /\ (StreamTest!remVlanHost <=> StreamP!remVlanHost)
      /\ (StreamTest!addVlanHost <=> StreamP!addVlanHost)
      /\ (StreamTest!MakeFile <=> StreamP!MakeFile)
  BY DEF StreamTest!remHostFiles, StreamP!remHostFiles, StreamTest!remVlanHost,
         StreamP!remVlanHost, StreamTest!addVlanHost, StreamP!addVlanHost,
         StreamTest!MakeFile, StreamP!MakeFile
<1>2. /\ (StreamTest!CopyTo <=> StreamP!CopyTo)
      /\ (StreamTest!CopyBack <=> StreamP!CopyBack)
  BY DEF StreamTest!CopyTo, StreamP!CopyTo, StreamTest!CopyBack, StreamP!CopyBack
<1>3. /\ (StreamTest!Compare <=> StreamP!Compare)
      /\ (StreamTest!Verdict <=> StreamP!Verdict)
      /\ (StreamTest!Exit <=> StreamP!Exit)
  BY DEF StreamTest!Compare, StreamP!Compare, StreamTest!Verdict, StreamP!Verdict,
         StreamTest!Exit, StreamP!Exit
<1>4. StreamTest!checkTrgtPing <=> StreamP!checkTrgtPing
  BY DEF StreamTest!checkTrgtPing, StreamP!checkTrgtPing
<1>5. /\ (StreamTest!Type <=> StreamP!Type)
      /\ (StreamTest!Send <=> StreamP!Send)
  BY DEF StreamTest!Type, StreamP!Type, StreamTest!Send, StreamP!Send
<1>6. StreamTest!ExpectMatch <=> StreamP!ExpectMatch
  BY DEF StreamTest!ExpectMatch, StreamP!ExpectMatch
<1>7. StreamTest!ExpectTimeout <=> StreamP!ExpectTimeout
  BY DEF StreamTest!ExpectTimeout, StreamP!ExpectTimeout
<1>8. StreamTest!ConnectLogin <=> StreamP!ConnectLogin
  BY DEF StreamTest!ConnectLogin, StreamP!ConnectLogin
<1>9. StreamTest!ConnectPrompt <=> StreamP!ConnectPrompt
  BY DEF StreamTest!ConnectPrompt, StreamP!ConnectPrompt
<1>10. StreamTest!ConnectTimeout <=> StreamP!ConnectTimeout
  BY DEF StreamTest!ConnectTimeout, StreamP!ConnectTimeout
<1>11. StreamTest!BoardRun <=> StreamP!BoardRun
  BY DEF StreamTest!BoardRun, StreamP!BoardRun
<1> QED
  BY <1>1, <1>2, <1>3, <1>4, <1>5, <1>6, <1>7, <1>8, <1>9, <1>10, <1>11 DEF StreamTest!Next, StreamP!Next

LEMMA StreamSameInit == StreamTest!Init <=> StreamP!Init
BY DEF StreamTest!Init, StreamP!Init, StreamTest!Old, StreamP!Old, StreamTest!None,
       StreamP!None

LEMMA StreamSameProperty == StreamTest!RoundTripped <=> StreamP!RoundTripped
BY StreamSameCode DEF
  StreamTest!RoundTripped, StreamP!RoundTripped, StreamTest!Past, StreamP!Past,
  StreamTest!LastBefore, StreamP!LastBefore

SlowP == INSTANCE VlanProofs WITH Test <- "stream", Prompt30 <- FALSE, Rounds <- SlowOps

LEMMA SlowSameCode ==
  SlowTest!Code = SlowP!Code
BY DEF
  SlowTest!Code, SlowP!Code, SlowTest!Ops, SlowP!Ops, SlowTest!RemVlan, SlowP!RemVlan,
  SlowTest!Jumbo, SlowP!Jumbo, SlowTest!Op, SlowP!Op, SlowTest!AddVlan, SlowP!AddVlan,
  SlowTest!Both, SlowP!Both, SlowTest!Times, SlowP!Times

LEMMA SlowSameNext == SlowTest!Next <=> SlowP!Next
<1> USE SlowSameCode DEF
      SlowTest!Running, SlowP!Running, SlowTest!None, SlowP!None, SlowTest!Finish,
      SlowP!Finish, SlowTest!console, SlowP!console, SlowTest!hostnet, SlowP!hostnet,
      SlowTest!trgtnet, SlowP!trgtnet, SlowTest!Do, SlowP!Do, SlowTest!files, SlowP!files,
      SlowTest!N, SlowP!N, SlowTest!Copies, SlowP!Copies, SlowTest!OnVlan, SlowP!OnVlan,
      SlowTest!Part, SlowP!Part, SlowTest!Fail, SlowP!Fail, SlowTest!Summaries,
      SlowP!Summaries, SlowTest!rcode, SlowP!rcode, SlowTest!Line, SlowP!Line,
      SlowTest!Silent, SlowP!Silent, SlowTest!Asked, SlowP!Asked, SlowTest!Matching,
      SlowP!Matching, SlowTest!Patterns, SlowP!Patterns, SlowTest!FirstHit,
      SlowP!FirstHit, SlowTest!FirstMatching, SlowP!FirstMatching, SlowTest!Dropped,
      SlowP!Dropped, SlowTest!Hits, SlowP!Hits, SlowTest!PromptPattern,
      SlowP!PromptPattern, SlowTest!TimesOut, SlowP!TimesOut, SlowTest!Waiting,
      SlowP!Waiting, SlowTest!ConnectPatterns, SlowP!ConnectPatterns, SlowTest!script,
      SlowP!script, SlowTest!LoginPattern, SlowP!LoginPattern, SlowTest!Effect,
      SlowP!Effect, SlowTest!BoardExec, SlowP!BoardExec, SlowTest!Token, SlowP!Token,
      SlowTest!Prompt, SlowP!Prompt, SlowTest!LoginPrompt, SlowP!LoginPrompt
<1>1. /\ (SlowTest!remHostFiles <=> SlowP!remHostFiles)
      /\ (SlowTest!remVlanHost <=> SlowP!remVlanHost)
      /\ (SlowTest!addVlanHost <=> SlowP!addVlanHost)
      /\ (SlowTest!MakeFile <=> SlowP!MakeFile)
  BY DEF SlowTest!remHostFiles, SlowP!remHostFiles, SlowTest!remVlanHost,
         SlowP!remVlanHost, SlowTest!addVlanHost, SlowP!addVlanHost, SlowTest!MakeFile,
         SlowP!MakeFile
<1>2. /\ (SlowTest!CopyTo <=> SlowP!CopyTo)
      /\ (SlowTest!CopyBack <=> SlowP!CopyBack)
  BY DEF SlowTest!CopyTo, SlowP!CopyTo, SlowTest!CopyBack, SlowP!CopyBack
<1>3. /\ (SlowTest!Compare <=> SlowP!Compare)
      /\ (SlowTest!Verdict <=> SlowP!Verdict)
      /\ (SlowTest!Exit <=> SlowP!Exit)
  BY DEF SlowTest!Compare, SlowP!Compare, SlowTest!Verdict, SlowP!Verdict, SlowTest!Exit,
         SlowP!Exit
<1>4. SlowTest!checkTrgtPing <=> SlowP!checkTrgtPing
  BY DEF SlowTest!checkTrgtPing, SlowP!checkTrgtPing
<1>5. /\ (SlowTest!Type <=> SlowP!Type)
      /\ (SlowTest!Send <=> SlowP!Send)
  BY DEF SlowTest!Type, SlowP!Type, SlowTest!Send, SlowP!Send
<1>6. SlowTest!ExpectMatch <=> SlowP!ExpectMatch
  BY DEF SlowTest!ExpectMatch, SlowP!ExpectMatch
<1>7. SlowTest!ExpectTimeout <=> SlowP!ExpectTimeout
  BY DEF SlowTest!ExpectTimeout, SlowP!ExpectTimeout
<1>8. SlowTest!ConnectLogin <=> SlowP!ConnectLogin
  BY DEF SlowTest!ConnectLogin, SlowP!ConnectLogin
<1>9. SlowTest!ConnectPrompt <=> SlowP!ConnectPrompt
  BY DEF SlowTest!ConnectPrompt, SlowP!ConnectPrompt
<1>10. SlowTest!ConnectTimeout <=> SlowP!ConnectTimeout
  BY DEF SlowTest!ConnectTimeout, SlowP!ConnectTimeout
<1>11. SlowTest!BoardRun <=> SlowP!BoardRun
  BY DEF SlowTest!BoardRun, SlowP!BoardRun
<1> QED
  BY <1>1, <1>2, <1>3, <1>4, <1>5, <1>6, <1>7, <1>8, <1>9, <1>10, <1>11 DEF SlowTest!Next, SlowP!Next

LEMMA SlowSameInit == SlowTest!Init <=> SlowP!Init
BY DEF SlowTest!Init, SlowP!Init, SlowTest!Old, SlowP!Old, SlowTest!None, SlowP!None

LEMMA SlowSameProperty == SlowTest!RoundTripped <=> SlowP!RoundTripped
BY SlowSameCode DEF
  SlowTest!RoundTripped, SlowP!RoundTripped, SlowTest!Past, SlowP!Past,
  SlowTest!LastBefore, SlowP!LastBefore

\* Files that the stream test finds equal were made by the dd of this very copy
\* and brought back from the board: for any whole copies and any MTUs between
\* them (VlanProofs shows that those of emacteststream.exp are), whatever fails
\* and however late the board removes its file (testlib.exp:304-308).
THEOREM StreamRoundTrippedThm ==
  ASSUME StreamP!Whole(StreamOps), SlowP!Whole(SlowOps)
  PROVE  LinksSpec => []StreamRoundTripped
<1> DEFINE I == /\ test = "stream" => StreamP!CopyInv(StreamP!Code)
                /\ test = "slow" => SlowP!CopyInv(SlowP!Code)
<1>1. LinksInit => I
  BY StreamP!CopyStart, SlowP!CopyStart, StreamSameInit, SlowSameInit DEF LinksInit
<1>2. I /\ [LinksNext]_<<vars, test, vlanvars>> => I'
  <2>1. UNCHANGED <<vars, test, vlanvars>> => UNCHANGED <<StreamP!vars, SlowP!vars, test>>
    BY DEF vars, script, answers, console, vlanvars, StreamP!vars, StreamP!script, StreamP!console,
           StreamP!files, StreamP!hostnet, StreamP!trgtnet, SlowP!vars, SlowP!script,
           SlowP!console, SlowP!files, SlowP!hostnet, SlowP!trgtnet
  <2>2. LinksNext => /\ UNCHANGED test
                     /\ test = "stream" => StreamP!Next
                     /\ test = "slow" => SlowP!Next
    BY StreamSameNext, SlowSameNext DEF LinksNext
  <2>3. ASSUME StreamP!CopyInv(StreamP!Code), [StreamP!Next]_StreamP!vars
        PROVE  StreamP!CopyInv(StreamP!Code)'
    BY <2>3, StreamP!CopyKept
  <2>4. ASSUME SlowP!CopyInv(SlowP!Code), [SlowP!Next]_SlowP!vars
        PROVE  SlowP!CopyInv(SlowP!Code)'
    BY <2>4, SlowP!CopyKept
  <2> QED
    BY <2>1, <2>2, <2>3, <2>4
<1>3. I => StreamRoundTripped
  BY StreamP!CopyFound, SlowP!CopyFound, StreamSameProperty, SlowSameProperty
  DEF StreamRoundTripped
<1> QED
  BY <1>1, <1>2, <1>3, PTL DEF LinksSpec
=============================================================================
