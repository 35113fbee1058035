---------------------------- MODULE StorageTest ----------------------------
(***************************************************************************)
(* The tests that mount a card or stick on /mnt/hdd1, write a file of       *)
(* random data there and compare it with a copy in the home directory:      *)
(* mmc_test/mmc_test.sh and usb/usb_host.sh, run one after the other on a   *)
(* board where any command may fail.                                        *)
(*                                                                          *)
(* A file is 0 (missing), r (all the random data drawn in run r) or -r      *)
(* (some of it).                                                            *)
(***************************************************************************)
EXTENDS Integers, Sequences

CONSTANTS
  Scripts,   \* the runs: a sequence of "mmc" and "usb"
  Device     \* DEVNODE of each script

Names == {"mmc", "usb"}
Devices == {Device[s] : s \in Names}

VARIABLES
  run,          \* the run at work
  k,            \* the function its script calls next
  home,         \* TESTFILE in the home directory, of each script
  fs,           \* TESTFILE on each device, of each script
  under,        \* TESTFILE in the bare directory /mnt/hdd1, of each script
  mounts,       \* the devices mounted on /mnt/hdd1, the visible one last
  status_fail,
  compared,     \* ghost: the file this run's compare_test found equal, or 0
  ondevice      \* ghost: this run's file was written to its own device

vars == <<run, k, home, fs, under, mounts, status_fail, compared, ondevice>>
files == <<home, fs, under>>
ghosts == <<compared, ondevice>>

Code(s) ==
  IF s = "mmc"
  THEN <<"create_test_file", "mount", "write", "compare_test", "umount_test", "cleanup", "verdict">>
  ELSE <<"devnode", "mount", "write", "copy_test", "compare_test", "unmount_test", "verdict">>

S == Scripts[run]
At(op) == run \in DOMAIN Scripts /\ Code(S)[k] = op

Init ==
  /\ run = 1 /\ k = 1
  /\ home = [s \in Names |-> 0] /\ under = [s \in Names |-> 0]
  /\ fs = [d \in Devices |-> [s \in Names |-> 0]]
  /\ mounts = <<>>
  /\ status_fail = 0 /\ compared = 0 /\ ondevice = FALSE

Continue == k' = k + 1 /\ run' = run

\* The script exits; the next one starts with status_fail=0.
Leave ==
  /\ run' = run + 1 /\ k' = 1
  /\ status_fail' = 0 /\ compared' = 0 /\ ondevice' = FALSE
  /\ UNCHANGED <<files, mounts>>

Top == mounts[Len(mounts)]
Visible(d) == mounts # <<>> /\ Top = d

\* $MOUNTNODE/$TESTFILE, on the visible mount or in the bare directory.
There == IF mounts = <<>> THEN under[S] ELSE fs[Top][S]
PutThere(x) ==
  IF mounts = <<>> THEN under' = [under EXCEPT ![S] = x] /\ UNCHANGED fs
                   ELSE fs' = [fs EXCEPT ![Top][S] = x] /\ UNCHANGED under
PutHome(x) == home' = [home EXCEPT ![S] = x]

Part(x) == IF x > 0 THEN -x ELSE x

\* usb_host.sh leaves at once when there is no such device.
CheckDevnode ==
  /\ At("devnode")
  /\ \/ Continue /\ UNCHANGED <<files, mounts, status_fail, ghosts>>
     \/ Leave

\* Mutant: the status of dd is not looked at.
CreateUnchecked ==
  /\ At("create_test_file")
  /\ PutHome(run) \/ PutHome(-run) \/ UNCHANGED home
  /\ Continue
  /\ UNCHANGED <<fs, under, mounts, status_fail, ghosts>>

\* dd from /dev/urandom: whole, cut short, or not even opened.
create_test_file ==
  /\ At("create_test_file")
  /\ \/ PutHome(run) /\ UNCHANGED status_fail
     \/ (PutHome(-run) \/ UNCHANGED home) /\ status_fail' = 1
  /\ Continue
  /\ UNCHANGED <<fs, under, mounts, ghosts>>

\* mount_card and mount_test: no status is looked at. The device that is
\* already visible is refused as busy; another one hides it.
Mount ==
  /\ At("mount")
  /\ \/ UNCHANGED mounts
     \/ ~Visible(Device[S]) /\ mounts' = Append(mounts, Device[S])
  /\ Continue
  /\ UNCHANGED <<files, status_fail, ghosts>>

\* write_sd_image copies the file in the home directory, write_test takes new
\* random data. dd opens its input first, then truncates its output.
Write ==
  /\ At("write")
  /\ LET input == IF S = "mmc" THEN home[S] ELSE run
     IN \/ input # 0 /\ PutThere(input) /\ UNCHANGED status_fail
        \/ input # 0 /\ PutThere(Part(input)) /\ status_fail' = 1
        \/ UNCHANGED <<fs, under>> /\ status_fail' = 1
  /\ ondevice' = Visible(Device[S])
  /\ Continue
  /\ UNCHANGED <<home, mounts, compared>>

copy_test ==
  /\ At("copy_test")
  /\ \/ There # 0 /\ PutHome(There) /\ UNCHANGED status_fail
     \/ There # 0 /\ PutHome(Part(There)) /\ status_fail' = 1
     \/ UNCHANGED home /\ status_fail' = 1
  /\ Continue
  /\ UNCHANGED <<fs, under, mounts, ghosts>>

\* diff or cmp; reading may fail, and two cut files may differ.
compare_test ==
  /\ At("compare_test")
  /\ \/ home[S] # 0 /\ home[S] = There /\ compared' = There /\ UNCHANGED status_fail
     \/ compared' = 0 /\ status_fail' = 1
  /\ Continue
  /\ UNCHANGED <<files, mounts, ondevice>>

Unmount == UNCHANGED mounts \/ (mounts # <<>> /\ mounts' = SubSeq(mounts, 1, Len(mounts) - 1))

\* ret is the status of sync, whatever umount returned.
umount_test ==
  /\ At("umount_test")
  /\ Unmount
  /\ status_fail' \in {status_fail, 1}
  /\ Continue
  /\ UNCHANGED <<files, ghosts>>

cleanup ==
  /\ At("cleanup")
  /\ PutHome(0) \/ UNCHANGED home
  /\ Continue
  /\ UNCHANGED <<fs, under, mounts, status_fail, ghosts>>

\* Both rm and umount go unchecked.
unmount_test ==
  /\ At("unmount_test")
  /\ PutThere(0) \/ UNCHANGED <<fs, under>>
  /\ PutHome(0) \/ UNCHANGED home
  /\ Unmount
  /\ Continue
  /\ UNCHANGED <<status_fail, ghosts>>

\* PASS is printed when status_fail is 0.
Verdict == At("verdict") /\ Leave
Passes == At("verdict") /\ status_fail = 0

Next ==
  \/ CheckDevnode \/ create_test_file \/ Mount \/ Write \/ copy_test
  \/ compare_test \/ umount_test \/ cleanup \/ unmount_test \/ Verdict

Spec == Init /\ [][Next]_vars
-----------------------------------------------------------------------------
\* A script that prints PASS has compared two complete files of the random data
\* drawn in that very run: a file left by an earlier run (a failed rm, a card
\* never unmounted) or one cut short is never taken for it.
PassComparedThisRun == Passes => compared = run

\* mmc_test.sh says it writes the file "to the SD card's p4 partition": a run
\* that prints PASS has written its file to its device.
PassWroteToDevice == Passes => ondevice

\* mmc_test.sh says it "Umounts the SD card": at PASS it is not mounted.
PassUnmounted == Passes => mounts = <<>>
=============================================================================
