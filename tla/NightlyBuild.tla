---------------------------- MODULE NightlyBuild ----------------------------
(***************************************************************************)
(* The nightly-build automation of host-scripts/.  A build machine sends a  *)
(* folder with a kernel (zImage) and a device tree (dtb) to the test host   *)
(* and then a flag file zzzDone (lava-automation.txt).  The iwatch daemon   *)
(* runs the script lavatester for every file that is closed after writing   *)
(* (iwatch-job.xml); for zzzDone, lavatester copies kernel and device tree  *)
(* to the shared directory /tftpboot and submits a LAVA job.  The job       *)
(* reboots the board, whose u-boot loads first the kernel and then the      *)
(* device tree from /tftpboot by TFTP.                                      *)
(***************************************************************************)
EXTENDS Naturals, Sequences

CONSTANTS
  Builds,       \* the nightly builds (one timestamped folder each)
  NoBuild,      \* owner of what was in /tftpboot before the first build
  Losses,       \* whether builds may lack a file and scp may lose its connection
  SerialWatch   \* whether iwatch waits for lavatester before its next event

ASSUME NightlyAssumption ==
  /\ NoBuild \notin Builds
  /\ Losses \in BOOLEAN
  /\ SerialWatch \in BOOLEAN

Files == {"zImage", "dtb"}

VARIABLES
  made,      \* made[b]: the files the build machine put into folder b
  sender,    \* sender[b]: progress of the sending script of build b
  arrived,   \* arrived[b][f]: file f of folder nightlybuilds/b on the test host
  events,    \* close_write events iwatch has not handled yet
  run,       \* run[b]: progress of the lavatester started for b's zzzDone
  earlier,   \* history: the builds whose lavatester had ended when b's began
  tftp,      \* tftp[f]: what /tftpboot/f holds
  jobs,      \* LAVA jobs waiting for the board, by submitting build
  board,     \* progress of the job that runs on the board
  current,   \* the build that submitted that job
  loaded,    \* what u-boot has loaded for it
  results    \* the jobs that have run, with what they booted

host == <<events, run, earlier, tftp, jobs>>
target == <<board, current, loaded, results>>
vars == <<made, sender, arrived, host, target>>

\* Contents of a file: the build whose copy was begun last, whether the file
\* is that build's complete file, and whether two copies wrote it at once.
Content == [by : Builds \cup {NoBuild}, whole : BOOLEAN, mixed : BOOLEAN]
Result == [job : Builds, zImage : Content, dtb : Content]
Event == [by : Builds, file : Files \cup {"zzzDone"}]
RunSteps == {"idle", "zImage", "cp_zImage", "dtb", "cp_dtb", "submit", "exited"}

OldContent == [by |-> NoBuild, whole |-> TRUE, mixed |-> FALSE]

Init ==
  /\ made \in [Builds -> IF Losses THEN SUBSET Files ELSE {Files}]
  /\ sender = [b \in Builds |-> "folder"]
  /\ arrived = [b \in Builds |-> [f \in Files |-> "missing"]]
  /\ events = <<>>
  /\ run = [b \in Builds |-> "idle"]
  /\ earlier = [b \in Builds |-> {}]
  /\ tftp = [f \in Files |-> OldContent]
  /\ jobs = <<>>
  /\ board = "idle"
  /\ current = NoBuild
  /\ loaded = [f \in Files |-> OldContent]
  /\ results = {}
-----------------------------------------------------------------------------
(* The build machine: scp -r of the folder, then scp of the flag.          *)

\* scp -r closes one file on the test host.  A lost connection leaves a cut
\* file, which is closed (and so announced) all the same, and ends scp -r.
ScpFile(b, f, how) ==
  /\ sender[b] = "folder"
  /\ f \in made[b]
  /\ arrived[b][f] = "missing"
  /\ how = "cut" => Losses
  /\ arrived' = [arrived EXCEPT ![b][f] = how]
  /\ events' = Append(events, [by |-> b, file |-> f])
  /\ sender' = [sender EXCEPT ![b] = IF how = "cut" THEN "flag" ELSE "folder"]
  /\ UNCHANGED <<made, run, earlier, tftp, jobs, target>>

\* scp -r ends: everything is sent, or the connection was lost in between.
ScpFolderEnd(b) ==
  /\ sender[b] = "folder"
  /\ Losses \/ \A f \in made[b] : arrived[b][f] = "whole"
  /\ sender' = [sender EXCEPT ![b] = "flag"]
  /\ UNCHANGED <<made, arrived, host, target>>

\* The flag follows whatever became of the folder: no status is looked at.
ScpFlag(b) ==
  /\ sender[b] = "flag"
  /\ sender' = [sender EXCEPT ![b] = "flagged"]
  /\ events' = Append(events, [by |-> b, file |-> "zzzDone"])
  /\ UNCHANGED <<made, arrived, run, earlier, tftp, jobs, target>>

ScpFlagLost(b) ==
  /\ sender[b] = "flag"
  /\ Losses
  /\ sender' = [sender EXCEPT ![b] = "lost"]
  /\ UNCHANGED <<made, arrived, host, target>>
-----------------------------------------------------------------------------
(* iwatch and lavatester.                                                  *)

Active(b) == run[b] \notin {"idle", "exited"}

\* Faulty variants of Triggers: no test of $DONE; the disabled case label.
TriggersAny(e) == TRUE
TriggersImage(e) == e.file = "zImage"

\* The loop over the arguments and the test of $DONE: only the name zzzDone
\* lets lavatester go on; for any other file it exits at once.
Triggers(e) == e.file = "zzzDone"

\* iwatch takes the oldest event and runs lavatester with the file's name.
IwatchExec ==
  /\ events # <<>>
  /\ SerialWatch => \A b \in Builds : ~ Active(b)
  /\ LET e == Head(events) IN
     IF Triggers(e)
     THEN /\ run' = [run EXCEPT ![e.by] = "zImage"]
          /\ earlier' = [earlier EXCEPT ![e.by] =
                           {c \in Builds : run[c] = "exited"}]
     ELSE UNCHANGED <<run, earlier>>
  /\ events' = Tail(events)
  /\ UNCHANGED <<made, sender, arrived, tftp, jobs, target>>

\* cp opens /tftpboot/f and truncates it.  If the build has no such file, cp
\* is skipped and the script goes on with what it does after the copy.
CpBegin(b, f, at, copying, after) ==
  /\ run[b] = at
  /\ IF arrived[b][f] # "missing"
     THEN /\ run' = [run EXCEPT ![b] = copying]
          /\ tftp' = [tftp EXCEPT ![f] =
                        [by |-> b, whole |-> FALSE,
                         mixed |-> \E c \in Builds : run[c] = copying]]
     ELSE /\ run' = [run EXCEPT ![b] = after]
          /\ UNCHANGED tftp
  /\ UNCHANGED <<made, sender, arrived, events, earlier, jobs, target>>

\* cp has written its last byte.  Two copies into one file at once leave
\* either the complete file of the later one or a mixture.
CpEnd(b, f, copying, after) ==
  /\ run[b] = copying
  /\ run' = [run EXCEPT ![b] = after]
  /\ \E w \in IF tftp[f].mixed THEN BOOLEAN ELSE {TRUE} :
       tftp' = IF tftp[f].by = b
               THEN [tftp EXCEPT ![f].whole = w /\ arrived[b][f] = "whole"]
               ELSE tftp
  /\ UNCHANGED <<made, sender, arrived, events, earlier, jobs, target>>

CpZImageBegin(b) == CpBegin(b, "zImage", "zImage", "cp_zImage", "dtb")
CpZImageEnd(b) == CpEnd(b, "zImage", "cp_zImage", "dtb")
CpDtbBegin(b) == CpBegin(b, "dtb", "dtb", "cp_dtb", "submit")
CpDtbEnd(b) == CpEnd(b, "dtb", "cp_dtb", "submit")

\* Faulty variant of SubmitJob: submit-job before the device tree is copied.
SubmitJobEarly(b) ==
  /\ run[b] = "dtb"
  /\ run' = [run EXCEPT ![b] = "exited"]
  /\ jobs' = Append(jobs, b)
  /\ UNCHANGED <<made, sender, arrived, events, earlier, tftp, target>>

\* submit-job runs whether or not the copies did.
SubmitJob(b) ==
  /\ run[b] = "submit"
  /\ run' = [run EXCEPT ![b] = "exited"]
  /\ jobs' = Append(jobs, b)
  /\ UNCHANGED <<made, sender, arrived, events, earlier, tftp, target>>
-----------------------------------------------------------------------------
(* The LAVA scheduler and the board's u-boot.                              *)

\* Faulty variant of TakeJob: the board is rebooted under a running job.
TakeJobBusy ==
  /\ jobs # <<>>
  /\ board' = "tftploadimage"
  /\ current' = Head(jobs)
  /\ jobs' = Tail(jobs)
  /\ UNCHANGED <<made, sender, arrived, events, run, earlier, tftp, loaded, results>>

\* LAVA gives the oldest job to the idle board and reboots it.
TakeJob ==
  /\ board = "idle"
  /\ jobs # <<>>
  /\ board' = "tftploadimage"
  /\ current' = Head(jobs)
  /\ jobs' = Tail(jobs)
  /\ UNCHANGED <<made, sender, arrived, events, run, earlier, tftp, loaded, results>>

\* run tftploadimage; run tftploaddtb: two transfers, one after the other.
TftpLoad(f, at, after) ==
  /\ board = at
  /\ board' = after
  /\ loaded' = [loaded EXCEPT ![f] = tftp[f]]
  /\ UNCHANGED <<made, sender, arrived, host, current, results>>

TftpLoadImage == TftpLoad("zImage", "tftploadimage", "tftploaddtb")
TftpLoadDtb == TftpLoad("dtb", "tftploaddtb", "boot")

\* The board boots what it has and the tests of the job run.
RunTests ==
  /\ board = "boot"
  /\ board' = "idle"
  /\ results' = results \cup
       {[job |-> current, zImage |-> loaded["zImage"], dtb |-> loaded["dtb"]]}
  /\ UNCHANGED <<made, sender, arrived, host, current, loaded>>
-----------------------------------------------------------------------------
Send(b) ==
  \/ \E f \in Files, how \in {"whole", "cut"} : ScpFile(b, f, how)
  \/ ScpFolderEnd(b)
  \/ ScpFlag(b)
  \/ ScpFlagLost(b)

Lavatester(b) ==
  \/ CpZImageBegin(b) \/ CpZImageEnd(b)
  \/ CpDtbBegin(b) \/ CpDtbEnd(b)
  \/ SubmitJob(b)

Board == TakeJob \/ TftpLoadImage \/ TftpLoadDtb \/ RunTests

Next ==
  \/ \E b \in Builds : Send(b) \/ Lavatester(b)
  \/ IwatchExec
  \/ Board

Spec == Init /\ [][Next]_vars

\* The daemon, the script and the board are never stopped for good; the
\* build machine may stop at any point.
FairSpec ==
  /\ Spec
  /\ WF_vars(IwatchExec)
  /\ \A b \in Builds : WF_vars(Lavatester(b))
  /\ WF_vars(Board)

\* How far a build has come, for a reader who knows flags and results only.
Tested(b) == \E r \in results : r.job = b
Stage ==
  [b \in Builds |->
     IF Tested(b) THEN "tested"
     ELSE IF board # "idle" /\ current = b THEN "testing"
     ELSE IF sender[b] = "flagged" THEN "announced"
     ELSE "unknown"]

Service == INSTANCE TestService WITH stage <- Stage
-----------------------------------------------------------------------------
(* Properties.                                                             *)

\* The shape of the state.
TypeOK ==
  /\ made \in [Builds -> SUBSET Files]
  /\ sender \in [Builds -> {"folder", "flag", "flagged", "lost"}]
  /\ arrived \in [Builds -> [Files -> {"missing", "cut", "whole"}]]
  /\ events \in Seq(Event)
  /\ run \in [Builds -> RunSteps]
  /\ earlier \in [Builds -> SUBSET Builds]
  /\ tftp \in [Files -> Content]
  /\ jobs \in Seq(Builds)
  /\ board \in {"idle", "tftploadimage", "tftploaddtb", "boot"}
  /\ current \in Builds \cup {NoBuild}
  /\ board # "idle" => current \in Builds
  /\ loaded \in [Files -> Content]
  /\ results \in SUBSET Result

\* The flag protocol: lavatester never looks into the folder of a build while
\* scp -r may still be writing to it (the zzzDone test of lavatester:28-35).
NoReadWhileSending ==
  \A b \in Builds : run[b] # "idle" => sender[b] = "flagged"

\* A kernel or device tree that a job boots is never that of a build whose
\* lavatester had already ended when the job's own lavatester began, provided
\* the job's build did deliver that file: the copy precedes submit-job.
NoStaleBoot ==
  \A r \in results : \A f \in Files :
    arrived[r.job][f] # "missing" => r[f].by \notin earlier[r.job] \cup {NoBuild}

\* All files of the builds lavatester was run for arrived complete.
AllWhole ==
  \A b \in Builds : run[b] # "idle" => \A f \in Files : arrived[b][f] = "whole"

\* If iwatch runs one lavatester at a time and all files arrived complete,
\* then between two runs of lavatester /tftpboot holds kernel and device tree
\* of the same build, both complete.
TftpPairConsistent ==
  (SerialWatch /\ AllWhole /\ \A b \in Builds : ~ Active(b)) =>
     /\ tftp["zImage"].by = tftp["dtb"].by
     /\ \A f \in Files : tftp[f].whole

\* One flag, one job: no build's job is in the queue twice, or in the queue
\* and on the board, or submitted by a lavatester that has not ended.
OneJobPerBuild ==
  /\ \A i, j \in 1..Len(jobs) : jobs[i] = jobs[j] => i = j
  /\ \A i \in 1..Len(jobs) : run[jobs[i]] = "exited"
  /\ board # "idle" => \A i \in 1..Len(jobs) : jobs[i] # current

\* Every build whose flag arrives is tested by a job of its own.
FlaggedIsTested ==
  \A b \in Builds :
    sender[b] = "flagged" ~> \E r \in results : r.job = b

\* With scp, iwatch, lavatester and LAVA's queue in between, a build that is
\* flagged is tested, once, on a board that tests one build at a time.
ImplementsService == Service!Spec

\* "The script will get the new kernel image and device tree, and kick off
\* automated testing" (lava-automation.txt:17-18): a job boots the kernel and
\* the device tree of the build that submitted it.
JobBootsItsBuild ==
  \A r \in results : \A f \in Files :
    arrived[r.job][f] = "whole" => r[f].by = r.job /\ r[f].whole
=============================================================================
