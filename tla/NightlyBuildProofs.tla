------------------------- MODULE NightlyBuildProofs -------------------------
(***************************************************************************)
(* Proofs about NightlyBuild for any set of builds, any losses and both     *)
(* ways in which iwatch may run lavatester.                                 *)
(***************************************************************************)
EXTENDS NightlyBuild, TestSuite, SequenceTheorems, TLAPS

\* The steps of lavatester at which file fl has been handled.
Handled(fl) ==
  IF fl = "zImage" THEN {"cp_zImage", "dtb", "cp_dtb", "submit", "exited"}
                  ELSE {"cp_dtb", "submit", "exited"}

\* A content that a job of build b may boot as its file fl.
Fresh(b, fl, content) ==
  arrived[b][fl] # "missing" => content.by \notin earlier[b] \cup {NoBuild}

\* A flag event is pending only for a build that has been sent and not begun,
\* and only once.
FlagInv ==
  \A i \in 1..Len(events) :
    events[i].file = "zzzDone" =>
      /\ sender[events[i].by] = "flagged"
      /\ run[events[i].by] = "idle"
      /\ \A j \in 1..Len(events) :
           events[j].file = "zzzDone" /\ events[j].by = events[i].by => j = i

\* Jobs come from lavatester runs that have ended.
JobInv ==
  /\ board # "idle" => run[current] = "exited"
  /\ \A r \in results : run[r.job] = "exited"

EarlierInv ==
  \A b \in Builds :
    /\ b \notin earlier[b]
    /\ \A c \in earlier[b] : run[c] = "exited"

FreshInv ==
  /\ \A b \in Builds, fl \in Files : run[b] \in Handled(fl) => Fresh(b, fl, tftp[fl])
  /\ board \in {"tftploaddtb", "boot"} => Fresh(current, "zImage", loaded["zImage"])
  /\ board = "boot" => Fresh(current, "dtb", loaded["dtb"])

\* The inductive invariant.
IInv ==
  /\ TypeOK /\ NoReadWhileSending /\ NoStaleBoot /\ OneJobPerBuild
  /\ FlagInv /\ JobInv /\ EarlierInv /\ FreshInv

\* Every step keeps the types.
LEMMA TypeStep == TypeOK /\ [Next]_vars => TypeOK'
<1> SUFFICES ASSUME TypeOK, [Next]_vars PROVE TypeOK'
  OBVIOUS
<1> USE NightlyAssumption DEF TypeOK, Files, Content, Event, RunSteps, Result, host, target
<1>1. ASSUME NEW b \in Builds, NEW fl \in Files, NEW how \in {"whole", "cut"},
             ScpFile(b, fl, how)
      PROVE TypeOK'
  BY <1>1 DEF ScpFile
<1>2. ASSUME NEW b \in Builds, ScpFolderEnd(b) PROVE TypeOK'
  BY <1>2 DEF ScpFolderEnd
<1>3. ASSUME NEW b \in Builds, ScpFlag(b) PROVE TypeOK'
  BY <1>3 DEF ScpFlag
<1>4. ASSUME NEW b \in Builds, ScpFlagLost(b) PROVE TypeOK'
  BY <1>4 DEF ScpFlagLost
<1>5. CASE IwatchExec
  <2>1. Head(events) \in Event /\ Tail(events) \in Seq(Event)
    BY <1>5, HeadTailProperties DEF IwatchExec
  <2>2. {c \in Builds : run[c] = "exited"} \in SUBSET Builds /\ "zImage" \in RunSteps
    OBVIOUS
  <2>3. run' \in [Builds -> RunSteps] /\ earlier' \in [Builds -> SUBSET Builds]
    <3> HIDE DEF RunSteps
    <3>1. CASE Triggers(Head(events))
      <4>1. /\ run' = [run EXCEPT ![Head(events).by] = "zImage"]
            /\ earlier' = [earlier EXCEPT ![Head(events).by] =
                             {c \in Builds : run[c] = "exited"}]
        BY <1>5, <3>1 DEF IwatchExec, Triggers
      <4> QED
        BY <2>2, <4>1
    <3>2. CASE ~ Triggers(Head(events))
      BY <1>5, <3>2 DEF IwatchExec, Triggers
    <3> QED BY <3>1, <3>2
  <2> QED
    BY <1>5, <2>1, <2>3 DEF IwatchExec
<1>6. ASSUME NEW b \in Builds, Lavatester(b) PROVE TypeOK'
  <2>1. ASSUME NEW fl \in Files, NEW at \in RunSteps, NEW copying \in RunSteps,
               NEW after \in RunSteps, CpBegin(b, fl, at, copying, after)
        PROVE TypeOK'
    <3>1. [by |-> b, whole |-> FALSE,
           mixed |-> \E c \in Builds : run[c] = copying] \in Content
      OBVIOUS
    <3>2. tftp' \in [Files -> Content]
      <4> HIDE DEF Content, Files
      <4> QED BY <2>1, <3>1 DEF CpBegin
    <3>3. run' \in [Builds -> RunSteps]
      BY <2>1 DEF CpBegin
    <3>4. UNCHANGED <<made, sender, arrived, events, earlier, jobs, board, current,
                      loaded, results>>
      BY <2>1 DEF CpBegin
    <3> QED
      BY <3>2, <3>3, <3>4
  <2>2. ASSUME NEW fl \in Files, NEW copying \in RunSteps,
               NEW after \in RunSteps, CpEnd(b, fl, copying, after)
        PROVE TypeOK'
    <3>1. PICK w \in BOOLEAN :
            tftp' = IF tftp[fl].by = b
                    THEN [tftp EXCEPT ![fl].whole = w /\ arrived[b][fl] = "whole"]
                    ELSE tftp
      BY <2>2 DEF CpEnd
    <3>2. PICK v \in BOOLEAN : v = (w /\ arrived[b][fl] = "whole")
      BY Zenon
    <3>3. [tftp[fl] EXCEPT !.whole = v] \in Content
      <4>1. ASSUME NEW x \in Content PROVE [x EXCEPT !.whole = v] \in Content
        OBVIOUS
      <4> HIDE DEF Content, Files
      <4> QED BY <4>1
    <3>4. tftp' = IF tftp[fl].by = b THEN [tftp EXCEPT ![fl].whole = v] ELSE tftp
      BY <3>1, <3>2, Zenon
    <3>5. tftp' \in [Files -> Content]
      <4> HIDE DEF Content, Files
      <4> QED BY <3>3, <3>4
    <3> QED
      BY <2>2, <3>5 DEF CpEnd
  <2>3. CASE CpZImageBegin(b)
    BY <2>1, <2>3 DEF CpZImageBegin
  <2>4. CASE CpDtbBegin(b)
    BY <2>1, <2>4 DEF CpDtbBegin
  <2>6. CASE CpZImageEnd(b)
    BY <2>2, <2>6 DEF CpZImageEnd
  <2>7. CASE CpDtbEnd(b)
    BY <2>2, <2>7 DEF CpDtbEnd
  <2>5. CASE SubmitJob(b)
    BY <2>5 DEF SubmitJob
  <2> QED
    BY <1>6, <2>3, <2>4, <2>5, <2>6, <2>7 DEF Lavatester
<1>7. CASE TakeJob
  <2>1. Head(jobs) \in Builds /\ Tail(jobs) \in Seq(Builds)
    BY <1>7, HeadTailProperties DEF TakeJob
  <2> QED
    BY <1>7, <2>1 DEF TakeJob
<1>8. CASE TftpLoadImage \/ TftpLoadDtb
  BY <1>8 DEF TftpLoadImage, TftpLoadDtb, TftpLoad
<1>9. CASE RunTests
  BY <1>9 DEF RunTests
<1>10. CASE UNCHANGED vars
  BY <1>10 DEF vars
<1> HIDE DEF TypeOK, Files, Content, Event, RunSteps, Result, host, target
<1>11. ASSUME NEW b \in Builds, Send(b) PROVE TypeOK'
  BY <1>1, <1>2, <1>3, <1>4, <1>11 DEF Send
<1>12. CASE Board
  BY <1>7, <1>8, <1>9, <1>12 DEF Board
<1> QED
  BY <1>5, <1>6, <1>10, <1>11, <1>12 DEF Next

\* Initially nothing has happened, so every part of the invariant holds.
LEMMA InitInv == Init => IInv
BY NightlyAssumption
DEF Init, IInv, TypeOK, NoReadWhileSending, NoStaleBoot, OneJobPerBuild, FlagInv, JobInv,
    EarlierInv, FreshInv, Fresh, Handled, Files, Content, Event, RunSteps, Result, OldContent

\* The sending script of build b keeps the invariant: until its flag is sent,
\* lavatester has not begun for b, so nothing depends on b's files yet.
LEMMA SendStep == ASSUME IInv, NEW b \in Builds, Send(b), TypeOK' PROVE IInv'
<1> USE DEF IInv
<1>1. ASSUME NEW fl \in Files, NEW how \in {"whole", "cut"}, ScpFile(b, fl, how)
      PROVE IInv'
  <2>0. run[b] = "idle" /\ sender[b] = "folder"
    BY <1>1 DEF ScpFile, NoReadWhileSending
  <2>a. UNCHANGED <<made, run, earlier, tftp, jobs, board, current, loaded, results>>
    BY <1>1 DEF ScpFile, target
  <2>b. sender' = [sender EXCEPT ![b] = IF how = "cut" THEN "flag" ELSE "folder"]
    BY <1>1 DEF ScpFile
  <2>c. \A c \in Builds : c # b => arrived'[c] = arrived[c] /\ sender'[c] = sender[c]
    BY <1>1 DEF ScpFile, TypeOK
  <2>1. NoReadWhileSending'
    BY <2>0, <2>a, <2>c DEF NoReadWhileSending
  <2>2. NoStaleBoot'
    BY <2>0, <2>a, <2>c, ZenonT(60) DEF NoStaleBoot, JobInv, TypeOK, Result
  <2>3. OneJobPerBuild' /\ JobInv' /\ EarlierInv'
    BY <2>a DEF OneJobPerBuild, JobInv, EarlierInv
  <2>4. FlagInv'
    <3>1. events \in Seq(Event) /\ [by |-> b, file |-> fl] \in Event
      BY DEF TypeOK, Event
    <3>2. events' = Append(events, [by |-> b, file |-> fl])
      BY <1>1 DEF ScpFile
    <3>3. fl # "zzzDone"
      BY DEF Files
    <3>4. /\ Len(events') = Len(events) + 1
          /\ \A i \in 1..Len(events) : events'[i] = events[i] /\ events[i] \in Event
          /\ events'[Len(events) + 1].file # "zzzDone"
      BY <3>1, <3>2, <3>3
    <3>5. \A i \in 1..Len(events) : events[i].file = "zzzDone" => events[i].by # b
      BY <2>0 DEF FlagInv
    <3>6. \A i \in 1..Len(events') :
            events'[i].file = "zzzDone" => i \in 1..Len(events)
      BY <3>1, <3>4
    <3>7. \A i \in 1..Len(events) : events[i].by \in Builds
      BY <3>4 DEF Event
    <3> QED
      BY <2>a, <2>c, <3>4, <3>5, <3>6, <3>7, SMTT(30) DEF FlagInv
  <2>5. FreshInv'
    <3>1. run[b] \notin Handled("zImage") /\ run[b] \notin Handled("dtb")
      BY <2>0 DEF Handled
    <3>2. board # "idle" => current \in Builds /\ current # b
      BY <2>0 DEF JobInv, TypeOK
    <3> QED
      BY <2>a, <2>c, <3>1, <3>2 DEF FreshInv, Fresh, Files
  <2> QED
    BY <2>1, <2>2, <2>3, <2>4, <2>5
<1>2. CASE ScpFolderEnd(b) \/ ScpFlagLost(b)
  <2>0. run[b] = "idle"
    BY <1>2 DEF ScpFolderEnd, ScpFlagLost, NoReadWhileSending
  <2>1. UNCHANGED <<made, arrived, events, run, earlier, tftp, jobs, board, current,
                    loaded, results>>
    BY <1>2 DEF ScpFolderEnd, ScpFlagLost, host, target
  <2>2. \A c \in Builds : c # b => sender'[c] = sender[c]
    BY <1>2 DEF ScpFolderEnd, ScpFlagLost, TypeOK
  <2>3. NoReadWhileSending'
    BY <2>0, <2>1, <2>2 DEF NoReadWhileSending
  <2>4. NoStaleBoot' /\ OneJobPerBuild' /\ JobInv' /\ EarlierInv' /\ FreshInv'
    BY <2>1 DEF NoStaleBoot, OneJobPerBuild, JobInv, EarlierInv, FreshInv, Fresh
  <2>5. FlagInv'
    <3>1. \A i \in 1..Len(events) : events[i] \in Event
      BY DEF TypeOK
    <3>2. \A i \in 1..Len(events) : events[i].file = "zzzDone" => events[i].by # b
      BY <1>2 DEF FlagInv, ScpFolderEnd, ScpFlagLost
    <3> QED
      BY <2>1, <2>2, <3>1, <3>2, ZenonT(60) DEF FlagInv, Event
  <2> QED
    BY <2>3, <2>4, <2>5
<1>3. CASE ScpFlag(b)
  <2>0. run[b] = "idle" /\ sender[b] = "flag"
    BY <1>3 DEF ScpFlag, NoReadWhileSending
  <2>1. UNCHANGED <<made, arrived, run, earlier, tftp, jobs, board, current,
                    loaded, results>>
    BY <1>3 DEF ScpFlag, target
  <2>2. \A c \in Builds : c # b => sender'[c] = sender[c]
    BY <1>3 DEF ScpFlag, TypeOK
  <2>3. NoReadWhileSending'
    BY <2>0, <2>1, <2>2 DEF NoReadWhileSending
  <2>4. NoStaleBoot' /\ OneJobPerBuild' /\ JobInv' /\ EarlierInv' /\ FreshInv'
    BY <2>1 DEF NoStaleBoot, OneJobPerBuild, JobInv, EarlierInv, FreshInv, Fresh
  <2>5. FlagInv'
    <3>1. events \in Seq(Event) /\ [by |-> b, file |-> "zzzDone"] \in Event
      BY DEF TypeOK, Event
    <3>2. events' = Append(events, [by |-> b, file |-> "zzzDone"]) /\ sender'[b] = "flagged"
      BY <1>3 DEF ScpFlag, TypeOK
    <3>3. /\ Len(events') = Len(events) + 1
          /\ \A i \in 1..Len(events) : events'[i] = events[i] /\ events[i] \in Event
          /\ events'[Len(events) + 1] = [by |-> b, file |-> "zzzDone"]
      BY <3>1, <3>2
    <3>4. \A i \in 1..Len(events) : events[i].file = "zzzDone" => events[i].by # b
      BY <2>0 DEF FlagInv
    <3>5. \A i \in 1..Len(events) : events[i].by \in Builds
      BY <3>3 DEF Event
    <3>6. 1..Len(events') = 1..Len(events) \cup {Len(events) + 1}
      BY <3>1, <3>3
    <3> QED
      BY <2>0, <2>1, <2>2, <3>2, <3>3, <3>4, <3>5, <3>6 DEF FlagInv
  <2> QED
    BY <2>3, <2>4, <2>5
<1> QED
  BY <1>1, <1>2, <1>3 DEF Send

\* iwatch and lavatester.  Beginning lavatester for b needs b's flag, which is
\* then gone from the events; whoever writes to /tftpboot has not ended.
LEMMA HostStep == ASSUME IInv, TypeOK' PROVE
  /\ IwatchExec => IInv'
  /\ \A b \in Builds : Lavatester(b) => IInv'
<1> USE DEF IInv
<1>1. ASSUME IwatchExec PROVE IInv'
  <2> DEFINE e == Head(events)
  <2>0. /\ events \in Seq(Event) /\ events # <<>>
        /\ events' = Tail(events) /\ e = events[1]
    BY <1>1 DEF IwatchExec, TypeOK
  <2>a. UNCHANGED <<made, sender, arrived, tftp, jobs, board, current, loaded, results>>
    BY <1>1 DEF IwatchExec, target
  <2>b. /\ Len(events') = Len(events) - 1 /\ Len(events) \in Nat \ {0}
        /\ \A i \in 1..Len(events') : events'[i] = events[i + 1] /\ events'[i] \in Event
        /\ e \in Event
    BY <2>0
  <2>c. \A i \in 1..Len(events') : events'[i].file = "zzzDone" =>
          /\ sender[events'[i].by] = "flagged"
          /\ run[events'[i].by] = "idle"
          /\ events[1].file = "zzzDone" => events'[i].by # events[1].by
          /\ \A j \in 1..Len(events') :
               events'[j].file = "zzzDone" /\ events'[j].by = events'[i].by => j = i
    <3> TAKE i \in 1..Len(events')
    <3>1. i + 1 \in 1..Len(events) /\ 1 \in 1..Len(events) /\ i + 1 # 1
      BY <2>b
    <3>2. events'[i] = events[i + 1]
      BY <2>b
    <3>3. ASSUME NEW j \in 1..Len(events'), events'[i].file = "zzzDone",
                 events'[j].file = "zzzDone", events'[j].by = events'[i].by
          PROVE j = i
      <4>1. j + 1 \in 1..Len(events) /\ events'[j] = events[j + 1]
        BY <2>b
      <4>2. j + 1 = i + 1
        BY <3>1, <3>2, <3>3, <4>1 DEF FlagInv
      <4> QED
        BY <2>b, <4>2
    <3> QED
      BY <3>1, <3>2, <3>3 DEF FlagInv
  <2>1. CASE ~ Triggers(e)
    <3>1. UNCHANGED <<run, earlier>>
      BY <1>1, <2>1 DEF IwatchExec
    <3>2. FlagInv'
      BY <2>a, <2>c, <3>1 DEF FlagInv
    <3> QED
      BY <2>a, <3>1, <3>2, SMTT(30) DEF NoReadWhileSending, NoStaleBoot, OneJobPerBuild, JobInv,
                              EarlierInv, FreshInv, Fresh
  <2>2. CASE Triggers(e)
    <3> DEFINE b == e.by
    <3>1. b \in Builds /\ sender[b] = "flagged" /\ run[b] = "idle"
      BY <2>0, <2>b, <2>2 DEF FlagInv, Triggers, Event
    <3>2. /\ run' = [run EXCEPT ![b] = "zImage"]
          /\ earlier' = [earlier EXCEPT ![b] = {c \in Builds : run[c] = "exited"}]
      BY <1>1, <2>2 DEF IwatchExec
    <3>3. /\ run'[b] = "zImage"
          /\ earlier'[b] = {c \in Builds : run[c] = "exited"}
          /\ \A c \in Builds : c # b => run'[c] = run[c] /\ earlier'[c] = earlier[c]
      BY <3>1, <3>2 DEF TypeOK
    <3> HIDE DEF b
    <3>4. NoReadWhileSending'
      BY <2>a, <3>1, <3>3 DEF NoReadWhileSending
    <3>5. NoStaleBoot' /\ JobInv'
      BY <2>a, <3>1, <3>3 DEF NoStaleBoot, JobInv, TypeOK, Result
    <3>6. OneJobPerBuild'
      <4>1. \A i \in 1..Len(jobs) : jobs[i] \in Builds
        BY DEF TypeOK
      <4> QED
        BY <2>a, <3>1, <3>3, <4>1 DEF OneJobPerBuild
    <3>7. FlagInv'
      <4>1. \A i \in 1..Len(events') : events'[i].by \in Builds
        BY <2>b DEF Event
      <4>2. \A i \in 1..Len(events') : events'[i].file = "zzzDone" => events'[i].by # b
        BY <2>0, <2>c, <2>2 DEF Triggers, b
      <4> QED
        BY <2>a, <2>c, <3>3, <4>1, <4>2 DEF FlagInv
    <3>8. EarlierInv'
      BY <3>1, <3>3, ZenonT(60) DEF EarlierInv, TypeOK
    <3>9. FreshInv'
      <4>1. run'[b] \notin Handled("zImage") /\ run'[b] \notin Handled("dtb")
        BY <3>3 DEF Handled
      <4>2. board # "idle" => current \in Builds /\ current # b
        BY <3>1 DEF JobInv, TypeOK
      <4> QED
        BY <2>a, <3>3, <4>1, <4>2 DEF FreshInv, Fresh, Files
    <3> QED
      BY <3>4, <3>5, <3>6, <3>7, <3>8, <3>9
  <2> QED
    BY <2>1, <2>2
<1>2. ASSUME NEW b \in Builds, Lavatester(b) PROVE IInv'
  <2>0. /\ Active(b) /\ run'[b] # "idle"
        /\ run' = [run EXCEPT ![b] = run'[b]]
        /\ UNCHANGED <<made, sender, arrived, events, earlier, board, current,
                       loaded, results>>
    BY <1>2, ZenonT(60) DEF Lavatester, CpZImageBegin, CpZImageEnd, CpDtbBegin, CpDtbEnd, CpBegin,
                CpEnd, SubmitJob, Active, TypeOK, RunSteps, target
  <2>1. run[b] # "idle" /\ run[b] # "exited"
    BY <2>0 DEF Active
  <2>2. \A c \in Builds : c # b => run'[c] = run[c]
    BY <2>0 DEF TypeOK
  <2>3. NoReadWhileSending'
    BY <2>0, <2>1, <2>2 DEF NoReadWhileSending
  <2>4. FlagInv'
    <3>1. \A i \in 1..Len(events) : events[i] \in Event
      BY DEF TypeOK
    <3>2. \A i \in 1..Len(events) : events[i].by \in Builds
      BY <3>1 DEF Event
    <3> QED
      BY <2>0, <2>1, <2>2, <3>2 DEF FlagInv
  <2>5. JobInv' /\ NoStaleBoot'
    BY <2>0, <2>1, <2>2 DEF JobInv, NoStaleBoot, TypeOK, Result
  <2>6. EarlierInv'
    BY <2>0, <2>1, <2>2 DEF EarlierInv, TypeOK
  <2>7. FreshInv'
    <3>1. \A fl \in Files : tftp'[fl].by = tftp[fl].by \/ tftp'[fl].by = b
      <4>1. CASE CpZImageBegin(b) \/ CpDtbBegin(b)
        BY <4>1, SMTT(30) DEF CpZImageBegin, CpDtbBegin, CpBegin, TypeOK, Files, Content
      <4>2. CASE CpZImageEnd(b) \/ CpDtbEnd(b)
        <5>1. PICK g \in Files, w \in BOOLEAN :
                tftp' = IF tftp[g].by = b
                        THEN [tftp EXCEPT ![g].whole = w /\ arrived[b][g] = "whole"]
                        ELSE tftp
          BY <4>2 DEF CpZImageEnd, CpDtbEnd, CpEnd, Files
        <5>2. PICK v \in BOOLEAN : v = (w /\ arrived[b][g] = "whole")
          BY Zenon
        <5>3. tftp' = IF tftp[g].by = b THEN [tftp EXCEPT ![g].whole = v] ELSE tftp
          BY <5>1, <5>2, Zenon
        <5> QED
          BY <5>3 DEF TypeOK, Content
      <4>3. CASE SubmitJob(b)
        BY <4>3 DEF SubmitJob
      <4> QED
        BY <1>2, <4>1, <4>2, <4>3 DEF Lavatester
    <3>2. b # NoBuild /\ \A c \in Builds : b \notin earlier[c]
      BY <2>1, NightlyAssumption DEF EarlierInv
    <3>3. ASSUME NEW fl \in Files, run'[b] \in Handled(fl)
          PROVE \/ run[b] \in Handled(fl)
                \/ arrived[b][fl] = "missing"
                \/ tftp'[fl].by = b
      <4>1. CASE CpZImageBegin(b) \/ CpDtbBegin(b)
        BY <3>3, <4>1, SMTT(30) DEF CpZImageBegin, CpDtbBegin, CpBegin, TypeOK, Files, Handled
      <4>2. CASE CpZImageEnd(b) \/ CpDtbEnd(b)
        BY <3>3, <4>2 DEF CpZImageEnd, CpDtbEnd, CpEnd, TypeOK, Files, Handled
      <4>3. CASE SubmitJob(b)
        BY <3>3, <4>3 DEF SubmitJob, TypeOK, Files, Handled
      <4> QED
        BY <1>2, <4>1, <4>2, <4>3 DEF Lavatester
    <3>4. ASSUME NEW c \in Builds, NEW fl \in Files, run'[c] \in Handled(fl)
          PROVE Fresh(c, fl, tftp[fl])'
      BY <2>0, <2>2, <3>1, <3>2, <3>3, <3>4 DEF FreshInv, Fresh
    <3> QED
      BY <2>0, <3>4 DEF FreshInv, Fresh
  <2>8. OneJobPerBuild'
    <3>1. CASE jobs' = jobs
      <4>1. \A i \in 1..Len(jobs) : jobs[i] \in Builds
        BY DEF TypeOK
      <4> QED
        BY <2>0, <2>1, <2>2, <3>1, <4>1 DEF OneJobPerBuild
    <3>2. CASE SubmitJob(b)
      <4>1. jobs \in Seq(Builds) /\ jobs' = Append(jobs, b) /\ run'[b] = "exited"
        BY <3>2 DEF SubmitJob, TypeOK
      <4>2. /\ Len(jobs') = Len(jobs) + 1
            /\ \A i \in 1..Len(jobs) : jobs'[i] = jobs[i] /\ jobs[i] \in Builds
            /\ jobs'[Len(jobs) + 1] = b
            /\ 1..Len(jobs') = 1..Len(jobs) \cup {Len(jobs) + 1}
        BY <4>1
      <4>3. \A i \in 1..Len(jobs) : jobs[i] # b
        BY <2>1 DEF OneJobPerBuild
      <4>4. board # "idle" => current # b
        BY <2>1 DEF JobInv
      <4> QED
        BY <2>0, <2>2, <4>1, <4>2, <4>3, <4>4 DEF OneJobPerBuild
    <3>3. jobs' = jobs \/ SubmitJob(b)
      BY <1>2 DEF Lavatester, CpZImageBegin, CpZImageEnd, CpDtbBegin, CpDtbEnd, CpBegin,
                  CpEnd
    <3> QED
      BY <3>1, <3>2, <3>3
  <2> QED
    BY <2>3, <2>4, <2>5, <2>6, <2>7, <2>8
<1> QED
  BY <1>1, <1>2

\* LAVA and the board: a job is taken once, and what u-boot loads for it is as
\* fresh as /tftpboot is.
LEMMA BoardStep == ASSUME IInv, Board, TypeOK' PROVE IInv'
<1> USE DEF IInv
<1>0. UNCHANGED <<made, sender, arrived, events, run, earlier, tftp>>
  BY DEF Board, TakeJob, TftpLoadImage, TftpLoadDtb, TftpLoad, RunTests, host
<1>1. NoReadWhileSending' /\ FlagInv' /\ EarlierInv'
  BY <1>0 DEF NoReadWhileSending, FlagInv, EarlierInv
<1>2. CASE TakeJob
  <2>1. /\ jobs \in Seq(Builds) /\ jobs # <<>> /\ jobs' = Tail(jobs)
        /\ current' = Head(jobs) /\ board' = "tftploadimage"
        /\ UNCHANGED <<loaded, results>>
    BY <1>2 DEF TakeJob, TypeOK
  <2>2. /\ current' = jobs[1] /\ 1 \in 1..Len(jobs) /\ Len(jobs) \in Nat
        /\ Len(jobs') = Len(jobs) - 1
        /\ \A i \in 1..Len(jobs') : jobs'[i] = jobs[i + 1] /\ i + 1 \in 1..Len(jobs)
    BY <2>1
  <2>3. \A i, j \in 1..Len(jobs') : jobs'[i] = jobs'[j] => i = j
    <3> TAKE i, j \in 1..Len(jobs')
    <3> HAVE jobs'[i] = jobs'[j]
    <3>1. jobs[i + 1] = jobs[j + 1] /\ i + 1 \in 1..Len(jobs) /\ j + 1 \in 1..Len(jobs)
      BY <2>2
    <3>2. i + 1 = j + 1
      BY <3>1 DEF OneJobPerBuild
    <3> QED
      BY <2>2, <3>2
  <2>4. \A i \in 1..Len(jobs') : jobs'[i] # current'
    <3> TAKE i \in 1..Len(jobs')
    <3>1. i + 1 # 1 /\ jobs'[i] = jobs[i + 1] /\ i + 1 \in 1..Len(jobs)
      BY <2>2
    <3> QED
      BY <2>2, <3>1 DEF OneJobPerBuild
  <2>5. OneJobPerBuild' /\ JobInv'
    BY <1>0, <2>1, <2>2, <2>3, <2>4 DEF OneJobPerBuild, JobInv
  <2> QED
    BY <1>0, <1>1, <2>1, <2>5 DEF NoStaleBoot, FreshInv, Fresh
<1>3. CASE TftpLoadImage \/ TftpLoadDtb
  <2>1. /\ UNCHANGED <<jobs, current, results>> /\ board # "idle" /\ board' # "idle"
        /\ current \in Builds /\ run[current] = "exited"
    BY <1>3 DEF TftpLoadImage, TftpLoadDtb, TftpLoad, host, JobInv, TypeOK
  <2>2. OneJobPerBuild' /\ JobInv' /\ NoStaleBoot'
    BY <1>0, <2>1 DEF OneJobPerBuild, JobInv, NoStaleBoot
  <2>3. Fresh(current, "zImage", tftp["zImage"]) /\ Fresh(current, "dtb", tftp["dtb"])
    BY <2>1 DEF FreshInv, Handled, Files
  <2>4. FreshInv'
    BY <1>0, <1>3, <2>1, <2>3, ZenonT(60)
    DEF TftpLoadImage, TftpLoadDtb, TftpLoad, FreshInv, Fresh, TypeOK, Files
  <2> QED
    BY <1>1, <2>2, <2>4
<1>4. CASE RunTests
  <2>1. /\ UNCHANGED <<jobs, current, loaded>> /\ board = "boot" /\ board' = "idle"
        /\ results' = results \cup
             {[job |-> current, zImage |-> loaded["zImage"], dtb |-> loaded["dtb"]]}
        /\ current \in Builds /\ run[current] = "exited"
    BY <1>4 DEF RunTests, host, JobInv, TypeOK
  <2> DEFINE new == [job |-> current, zImage |-> loaded["zImage"], dtb |-> loaded["dtb"]]
  <2>a. new.job = current /\ \A fl \in Files : new[fl] = loaded[fl]
    BY DEF Files
  <2>b. \A r \in results' : r \in results \/ r = new
    BY <2>1
  <2> HIDE DEF new
  <2>c. OneJobPerBuild'
    BY <1>0, <2>1 DEF OneJobPerBuild
  <2>d. JobInv'
    BY <1>0, <2>1, <2>a, <2>b DEF JobInv
  <2>e. FreshInv'
    BY <1>0, <2>1 DEF FreshInv, Fresh
  <2>2. OneJobPerBuild' /\ JobInv' /\ FreshInv'
    BY <2>c, <2>d, <2>e
  <2>3. NoStaleBoot'
    <3> SUFFICES ASSUME NEW r \in results', NEW fl \in Files, arrived[r.job][fl] # "missing"
                 PROVE  r[fl].by \notin earlier[r.job] \cup {NoBuild}
      BY <1>0 DEF NoStaleBoot
    <3>1. CASE r \in results
      BY <3>1 DEF NoStaleBoot
    <3>2. CASE r = new
      <4>1. Fresh(current, fl, loaded[fl])
        BY <2>1 DEF FreshInv, Files
      <4> QED
        BY <2>a, <3>2, <4>1 DEF Fresh
    <3> QED
      BY <2>b, <3>1, <3>2
  <2> QED
    BY <1>1, <2>2, <2>3
<1> QED
  BY <1>2, <1>3, <1>4 DEF Board

\* The invariant is inductive.
LEMMA NextInv == IInv /\ [Next]_vars => IInv'
<1> SUFFICES ASSUME IInv, [Next]_vars PROVE IInv'
  OBVIOUS
<1>1. TypeOK'
  BY TypeStep DEF IInv
<1>2. CASE UNCHANGED vars
  BY <1>1, <1>2, ZenonT(60) DEF vars, host, target, IInv, NoReadWhileSending, NoStaleBoot, OneJobPerBuild,
     FlagInv, JobInv, EarlierInv, FreshInv, Fresh
<1> QED
  BY <1>1, <1>2, SendStep, HostStep, BoardStep DEF Next

\* For every set of builds, with or without losses, whether or not iwatch
\* waits for lavatester: no file is read while it is being sent.
THEOREM FlagProtocol == Spec => []NoReadWhileSending
<1>1. IInv => NoReadWhileSending
  BY DEF IInv
<1> QED
  BY <1>1, InitInv, NextInv, PTL DEF Spec

\* No job boots a file of a build whose lavatester run had ended before the
\* run that submitted the job began.
THEOREM NoStaleBootThm == Spec => []NoStaleBoot
<1>1. IInv => NoStaleBoot
  BY DEF IInv
<1> QED
  BY <1>1, InitInv, NextInv, PTL DEF Spec

\* Every build has at most one job.
THEOREM OneJobThm == Spec => []OneJobPerBuild
<1>1. IInv => OneJobPerBuild
  BY DEF IInv
<1> QED
  BY <1>1, InitInv, NextInv, PTL DEF Spec
-----------------------------------------------------------------------------
(* The automation implements TestService, for any number of builds, lost    *)
(* files and connections, and overlapping runs of lavatester.               *)

\* A job that waits or runs belongs to a build that has no result yet.
TestedOnce ==
  /\ \A r \in results : \A i \in 1..Len(jobs) : jobs[i] # r.job
  /\ board # "idle" => \A r \in results : r.job # current

SInv == IInv /\ TestedOnce

\* No job has been submitted at the start.
LEMMA TestedOnceInit == Init => TestedOnce
BY DEF Init, TestedOnce

\* Every step keeps TestedOnce: a build's job is submitted once, by its one run
\* of lavatester.
LEMMA TestedOnceStep == SInv /\ [Next]_vars => TestedOnce'
<1> SUFFICES ASSUME SInv, [Next]_vars PROVE TestedOnce'
  OBVIOUS
<1> USE DEF SInv, IInv
<1>0. /\ jobs \in Seq(Builds) /\ results \in SUBSET Result
      /\ \A r \in results : r.job \in Builds
  BY DEF TypeOK, Result
<1>1. CASE UNCHANGED <<jobs, board, current, results>>
  BY <1>1 DEF TestedOnce
<1>2. ASSUME NEW b \in Builds, SubmitJob(b) PROVE TestedOnce'
  <2>1. \A r \in results : r.job # b
    BY <1>2 DEF SubmitJob, JobInv
  <2>2. \A i \in 1..Len(jobs') : jobs'[i] = b \/ \E j \in 1..Len(jobs) : jobs'[i] = jobs[j]
    BY <1>0, <1>2 DEF SubmitJob
  <2> QED
    BY <1>0, <1>2, <2>1, <2>2 DEF SubmitJob, target, TestedOnce
<1>3. CASE TakeJob
  <2>1. jobs # <<>> /\ current' = jobs[1] /\ results' = results /\ 1 \in 1..Len(jobs)
    BY <1>0, <1>3 DEF TakeJob
  <2>2. \A i \in 1..Len(jobs') : i + 1 \in 1..Len(jobs) /\ jobs'[i] = jobs[i + 1]
    BY <1>0, <1>3 DEF TakeJob
  <2> QED
    BY <2>1, <2>2 DEF TestedOnce
<1>4. CASE RunTests
  <2>1. /\ board # "idle" /\ board' = "idle" /\ jobs' = jobs
        /\ \A r \in results' : r \in results \/ r.job = current
    BY <1>4 DEF RunTests, host
  <2> QED
    BY <2>1 DEF TestedOnce, OneJobPerBuild
<1>5. CASE TftpLoadImage \/ TftpLoadDtb
  BY <1>5 DEF TftpLoadImage, TftpLoadDtb, TftpLoad, host, TestedOnce
<1>6. ASSUME NEW b \in Builds, Send(b) PROVE UNCHANGED <<jobs, board, current, results>>
  BY <1>6 DEF Send, ScpFile, ScpFolderEnd, ScpFlag, ScpFlagLost, host, target
<1>7. ASSUME NEW b \in Builds, Lavatester(b), ~SubmitJob(b)
      PROVE UNCHANGED <<jobs, board, current, results>>
  BY <1>7 DEF Lavatester, CpZImageBegin, CpZImageEnd, CpDtbBegin, CpDtbEnd, CpBegin, CpEnd, target
<1>8. IwatchExec => UNCHANGED <<jobs, board, current, results>>
  BY DEF IwatchExec, target
<1>9. UNCHANGED vars => UNCHANGED <<jobs, board, current, results>>
  BY DEF vars, host, target
<1> QED
  BY <1>1, <1>2, <1>3, <1>4, <1>5, <1>6, <1>7, <1>8, <1>9 DEF Next, Board

\* A build that has no stage but the first has nothing that depends on it.
LEMMA UnflaggedUnknown ==
  ASSUME SInv, NEW b \in Builds, sender[b] # "flagged"
  PROVE Stage[b] = "unknown"
<1>1. run[b] = "idle"
  BY DEF SInv, IInv, NoReadWhileSending
<1>2. ~Tested(b)
  BY <1>1 DEF SInv, IInv, JobInv, Tested
<1>3. ~(board # "idle" /\ current = b)
  BY <1>1 DEF SInv, IInv, JobInv
<1> QED
  BY <1>2, <1>3 DEF Stage

\* Nothing but the flag, the start and the end of a job moves a build.
LEMMA StageUnchanged ==
  ASSUME sender' = sender \/ \A b \in Builds : sender'[b] = "flagged" <=> sender[b] = "flagged",
         UNCHANGED <<results, current>>, board' # "idle" <=> board # "idle"
  PROVE Stage' = Stage
BY DEF Stage, Tested

\* Every step is a step of the service or leaves every build at its stage.
LEMMA ServiceStep == SInv /\ [Next]_vars => [Service!Next]_Stage
<1> SUFFICES ASSUME SInv, [Next]_vars PROVE Service!Next \/ Stage' = Stage
  BY DEF Service!Next
<1> USE DEF SInv, IInv
<1>0. /\ jobs \in Seq(Builds) /\ sender \in [Builds -> {"folder", "flag", "flagged", "lost"}]
      /\ board # "idle" => current \in Builds
  BY DEF TypeOK
<1>1. ASSUME NEW b \in Builds, ScpFlag(b) PROVE Service!Next
  <2>1. Stage[b] = "unknown"
    BY <1>1, UnflaggedUnknown DEF ScpFlag
  <2>2. Stage' = [Stage EXCEPT ![b] = "announced"]
    <3>1. ~Tested(b) /\ ~(board # "idle" /\ current = b)
      BY <2>1 DEF Stage
    <3>2. sender' = [sender EXCEPT ![b] = "flagged"] /\ UNCHANGED <<board, current, results>>
      BY <1>1 DEF ScpFlag, target
    <3> QED
      BY <1>0, <3>1, <3>2 DEF Stage, Tested
  <2> QED
    BY <2>1, <2>2 DEF Service!Next, Service!Announce, Service!Move
<1>2. CASE TakeJob
  <2> DEFINE b == jobs[1]
  <2>1. /\ jobs # <<>> /\ 1 \in 1..Len(jobs) /\ b \in Builds /\ current' = b
        /\ board = "idle" /\ board' # "idle" /\ UNCHANGED <<sender, results>>
    BY <1>0, <1>2 DEF TakeJob
  <2>2. ~Tested(b)
    BY <2>1 DEF TestedOnce, Tested
  <2>3. sender[b] = "flagged"
    BY <2>1 DEF OneJobPerBuild, NoReadWhileSending
  <2>4. Stage[b] = "announced" /\ \A c \in Builds : Stage[c] # "testing"
    BY <2>1, <2>2, <2>3 DEF Stage
  <2>5. Stage' = [Stage EXCEPT ![b] = "testing"]
    BY <2>1, <2>2 DEF Stage, Tested
  <2> QED
    BY <2>1, <2>4, <2>5 DEF Service!Next, Service!Begin, Service!Move
<1>3. CASE RunTests
  <2> DEFINE new == [job |-> current, zImage |-> loaded["zImage"], dtb |-> loaded["dtb"]]
  <2>0. results' = results \cup {new} /\ new.job = current
    BY <1>3 DEF RunTests
  <2> HIDE DEF new
  <2>1. /\ board # "idle" /\ board' = "idle" /\ UNCHANGED <<sender, current>>
        /\ current \in Builds
        /\ \A b \in Builds : Tested(b)' <=> (Tested(b) \/ b = current)
    <3>1. board # "idle" /\ board' = "idle" /\ UNCHANGED <<sender, current>>
      BY <1>3 DEF RunTests
    <3>2. \A b \in Builds : Tested(b)' <=> (Tested(b) \/ b = current)
      BY <2>0 DEF Tested
    <3> QED
      BY <1>0, <3>1, <3>2
  <2>2. ~Tested(current)
    BY <2>1 DEF TestedOnce, Tested
  <2>3. Stage[current] = "testing"
    BY <2>1, <2>2 DEF Stage
  <2>4. Stage' = [Stage EXCEPT ![current] = "tested"]
    BY <2>1, <2>2 DEF Stage
  <2> QED
    BY <2>1, <2>3, <2>4 DEF Service!Next, Service!End, Service!Move
<1>4. CASE TftpLoadImage \/ TftpLoadDtb
  BY <1>4, StageUnchanged DEF TftpLoadImage, TftpLoadDtb, TftpLoad
<1>5. ASSUME NEW b \in Builds, Send(b), ~ScpFlag(b) PROVE Stage' = Stage
  <2>1. /\ UNCHANGED <<board, current, results>>
        /\ sender' = [sender EXCEPT ![b] = sender'[b]]
        /\ sender[b] # "flagged" /\ sender'[b] # "flagged"
    BY <1>0, <1>5 DEF Send, ScpFile, ScpFolderEnd, ScpFlagLost, host, target
  <2> QED
    BY <1>0, <2>1, StageUnchanged
<1>6. ASSUME UNCHANGED <<sender, board, current, results>> PROVE Stage' = Stage
  BY <1>6, StageUnchanged
<1>7. ASSUME NEW b \in Builds, Lavatester(b) PROVE UNCHANGED <<sender, board, current, results>>
  BY <1>7 DEF Lavatester, CpZImageBegin, CpZImageEnd, CpDtbBegin, CpDtbEnd, CpBegin, CpEnd,
              SubmitJob, target
<1>8. IwatchExec => UNCHANGED <<sender, board, current, results>>
  BY DEF IwatchExec, target
<1>9. UNCHANGED vars => UNCHANGED <<sender, board, current, results>>
  BY DEF vars, host, target
<1> QED
  BY <1>1, <1>2, <1>3, <1>4, <1>5, <1>6, <1>7, <1>8, <1>9 DEF Next, Board

\* At the start every build is at the first stage of the service.
LEMMA ServiceInit == Init => Service!Init
BY DEF Init, Stage, Tested, Service!Init

\* Whatever is lost on the way and however the runs of lavatester overlap, a
\* build is tested only after its flag, at most once, and never beside another
\* (lavatester 14-76 with scp, iwatch and the LAVA queue around it).
THEOREM NightlyImplementsService == Spec => Service!Safe
<1>1. Init => SInv
  BY InitInv, TestedOnceInit DEF SInv
<1>2. SInv /\ [Next]_vars => SInv'
  BY NextInv, TestedOnceStep DEF SInv
<1> QED
  BY <1>1, <1>2, ServiceInit, ServiceStep, PTL DEF Spec, Service!Safe
-----------------------------------------------------------------------------
(* The unattended run of the Ethernet tests, for any tests and whatever the  *)
(* netbooter answers.                                                        *)


Subjects == {"Reboot_Target", "Tests_Complete"} \union {Tests[i] : i \in 1..Len(Tests)}
Mails == [what : Subjects, passed : BOOLEAN]
AllPassed == \A m \in 1..Len(reports) : reports[m].passed

\* Until the summary is mailed, globalStatus tells whether every mail so far says
\* "Passed!".
MailInv ==
  /\ f \in Nat /\ (pc \in {"summary", "done"} \/ f \in 1..Len(Tests))
  /\ reports \in Seq(Mails)
  /\ pc # "done" => (globalStatus = 0 <=> AllPassed)
  /\ SummaryAgrees

\* In the second phase of reboottrgt.exp a result of 0 whose spawn id is open is
\* that of this phase.
PortsInv ==
  /\ phase \in {1, 2} /\ spawned \in {"open", "closed"}
  /\ pc = "expect" => spawned = "open"
  /\ phase = 2 /\ pc \in {"wait", "connect"} /\ spawned = "open" /\ retv = 0 => 2 \in seen
  /\ PassedPortsOn

\* A mail is added behind the others.
LEMMA Mailed ==
  ASSUME reports \in Seq(Mails), NEW what \in Subjects, NEW passed \in BOOLEAN, Mail(what, passed)
  PROVE  /\ reports' \in Seq(Mails) /\ Len(reports') = Len(reports) + 1
         /\ \A m \in 1..Len(reports) : reports'[m] = reports[m]
         /\ reports'[Len(reports) + 1].passed <=> passed
<1> DEFINE mail == [what |-> what, passed |-> passed]
<1>1. mail \in Mails /\ (mail.passed <=> passed)
  BY DEF Mails
<1>2. reports' = Append(reports, mail)
  BY DEF Mail
<1> HIDE DEF mail
<1>3. /\ reports' \in Seq(Mails) /\ Len(reports') = Len(reports) + 1
      /\ \A m \in 1..Len(reports) : reports'[m] = reports[m]
      /\ reports'[Len(reports) + 1] = mail
  BY <1>1, <1>2
<1> QED
  BY <1>1, <1>3

\* All mails say "Passed!" if those before did and the new one does.
LEMMA StillPassed ==
  ASSUME reports \in Seq(Mails), NEW what \in Subjects, NEW passed \in BOOLEAN, Mail(what, passed)
  PROVE  AllPassed' <=> AllPassed /\ passed
<1>1. \A m \in 1..Len(reports') : m \in 1..Len(reports) \/ m = Len(reports) + 1
  BY Mailed
<1> QED
  BY <1>1, Mailed DEF AllPassed

\* The mails of every step.
LEMMA MailStep == ASSUME MailInv, [SuiteNext]_suitevars PROVE MailInv'
<1> USE DEF MailInv, SummaryAgrees
<1>1. CASE ReportReboot
  <2> DEFINE passed == rcode = 0
  <2>1. passed \in BOOLEAN
    OBVIOUS
  <2>a. "Reboot_Target" \in Subjects
    BY DEF Subjects
  <2>2. Mail("Reboot_Target", passed)
    BY <1>1 DEF ReportReboot
  <2> HIDE DEF passed
  <2>3. reports' \in Seq(Mails) /\ (AllPassed' <=> AllPassed /\ passed)
    BY <2>1, <2>a, <2>2, Mailed, StillPassed
  <2>4. globalStatus' = 0 <=> globalStatus = 0 /\ passed
    BY <1>1 DEF ReportReboot, passed
  <2>5. /\ pc \notin {"summary", "done"} /\ pc' # "done" /\ UNCHANGED f
        /\ globalStatus = 0 <=> AllPassed
    BY <1>1 DEF ReportReboot
  <2>6. globalStatus' = 0 <=> AllPassed'
    BY <2>3, <2>4, <2>5
  <2> QED
    BY <2>3, <2>5, <2>6
<1>2. CASE ReportTest
  <2> DEFINE passed == rcode = 0
  <2>1. passed \in BOOLEAN
    OBVIOUS
  <2>a. Tests[f] \in Subjects
    BY <1>2 DEF ReportTest, Subjects
  <2>2. Mail(Tests[f], passed)
    BY <1>2 DEF ReportTest
  <2> HIDE DEF passed
  <2>3. reports' \in Seq(Mails) /\ (AllPassed' <=> AllPassed /\ passed)
    BY <2>1, <2>a, <2>2, Mailed, StillPassed
  <2>4. globalStatus' = 0 <=> globalStatus = 0 /\ passed
    BY <1>2 DEF ReportTest, passed
  <2>5. globalStatus = 0 <=> AllPassed
    BY <1>2 DEF ReportTest
  <2>6. f' \in Nat /\ (pc' \in {"summary", "done"} \/ f' \in 1..Len(Tests)) /\ pc' # "done"
    BY <1>2, TestSuiteAssumption DEF ReportTest
  <2>7. globalStatus' = 0 <=> AllPassed'
    BY <2>3, <2>4, <2>5
  <2> QED
    BY <2>3, <2>6, <2>7
<1>3. CASE Summary
  <2> DEFINE passed == globalStatus = 0
  <2>1. passed \in BOOLEAN
    OBVIOUS
  <2>a. "Tests_Complete" \in Subjects
    BY DEF Subjects
  <2>2. Mail("Tests_Complete", passed)
    BY <1>3 DEF Summary
  <2>3. pc' = "done" /\ UNCHANGED f /\ (passed <=> AllPassed)
    BY <1>3 DEF Summary
  <2> HIDE DEF passed
  <2>4. /\ reports' \in Seq(Mails) /\ Len(reports') = Len(reports) + 1
        /\ \A m \in 1..Len(reports) : reports'[m] = reports[m]
        /\ reports'[Len(reports) + 1].passed <=> passed
    BY <2>1, <2>a, <2>2, Mailed
  <2>5. AllPassed <=> \A m \in 1..(Len(reports') - 1) : reports'[m].passed
    BY <2>4 DEF AllPassed
  <2>6. reports'[Len(reports')].passed <=> passed
    BY <2>4
  <2> QED
    BY <2>3, <2>4, <2>5, <2>6
<1>4. CASE Spawn \/ ExpectMatch \/ ExpectEof \/ ExpectTimeout \/ Wait \/ Connect \/ RunTest
  BY <1>4 DEF Spawn, ExpectMatch, ExpectEof, ExpectTimeout, Wait, Connect, RunTest, suite,
              AllPassed
<1>5. CASE Read \/ Netbooter \/ Break \/ UNCHANGED suitevars
  BY <1>5 DEF Read, Netbooter, Answer, AnswerPrompt, Break, suitevars, suite, AllPassed
<1> QED
  BY <1>1, <1>2, <1>3, <1>4, <1>5 DEF SuiteNext, Steps

\* The results of the reboots of every step.
LEMMA PortsStep == ASSUME PortsInv, [SuiteNext]_suitevars PROVE PortsInv'
<1> USE DEF PortsInv, PassedPortsOn
<1>a. CASE Spawn
  BY <1>a DEF Spawn, suite
<1>b. CASE ExpectMatch
  BY <1>b DEF ExpectMatch, suite
<1>1. CASE ExpectEof \/ ExpectTimeout
  BY <1>1 DEF ExpectEof, ExpectTimeout, suite
<1>c. CASE Wait
  BY <1>c DEF Wait, script
<1>2. CASE Connect
  <2>1. CASE spawned = "closed"
    BY <1>2, <2>1 DEF Connect
  <2>2. CASE spawned # "closed" /\ phase = 1
    BY <1>2, <2>2 DEF Connect
  <2>3. CASE spawned # "closed" /\ phase = 2
    BY <1>2, <2>3 DEF Connect
  <2> QED
    BY <2>1, <2>2, <2>3
<1>3. CASE ReportReboot \/ RunTest \/ ReportTest \/ Summary
  BY <1>3 DEF ReportReboot, RunTest, ReportTest, Summary, script
<1>4. CASE Read \/ Netbooter \/ Break \/ UNCHANGED suitevars
  BY <1>4 DEF Read, Netbooter, Answer, AnswerPrompt, Break, suitevars, script, suite
<1> QED
  BY <1>a, <1>b, <1>c, <1>1, <1>2, <1>3, <1>4 DEF SuiteNext, Steps

\* For any tests, the summary that test.sh mails says that all passed exactly when
\* every mail before it says so (test.sh 30-33 and chkAndReport).
THEOREM SummaryAgreesThm == SuiteSpec => []SummaryAgrees
<1>1. SuiteInit => MailInv
  BY TestSuiteAssumption DEF SuiteInit, MailInv, AllPassed, SummaryAgrees
<1>2. MailInv /\ [SuiteNext]_suitevars => MailInv'
  BY MailStep
<1>3. MailInv => SummaryAgrees
  BY DEF MailInv
<1> QED
  BY <1>1, <1>2, <1>3, PTL DEF SuiteSpec

\* Whatever the netbooter answers, keeps back or breaks off, a reboot that is
\* mailed as passed has shown all ports to be on (reboottrgt.exp 18-24).
THEOREM PassedPortsOnThm == SuiteSpec => []PassedPortsOn
<1>1. SuiteInit => PortsInv
  BY DEF SuiteInit, PortsInv, PassedPortsOn
<1>2. PortsInv /\ [SuiteNext]_suitevars => PortsInv'
  BY PortsStep
<1>3. PortsInv => PassedPortsOn
  BY DEF PortsInv
<1> QED
  BY <1>1, <1>2, <1>3, PTL DEF SuiteSpec
=============================================================================
