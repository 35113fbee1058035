---------------------------- MODULE ScriptsProofs ---------------------------
(***************************************************************************)
(* The scripts of TargetScripts, for every value of their constants.        *)
(***************************************************************************)
EXTENDS TargetScripts, TLAPS

-----------------------------------------------------------------------------
(* The scripts share nothing: a step of the session is a step of one script  *)
(* or leaves that script alone, so each is proved by an invariant of its     *)
(* own.                                                                     *)

\* A step of the session is, for each script, one of its own or none.
LEMMA SeparateScripts ==
  ASSUME [ScriptsNext]_<<sh, scriptvars>>
  PROVE  /\ [Packet!Next]_packetvars /\ [Loop!Next]_loopvars /\ [Rtc!Next]_rtcvars
         /\ [Status!Next]_statusvars /\ [Storage!Next]_storagevars
BY DEF ScriptsNext, OnlyScript, scriptvars
-----------------------------------------------------------------------------
(* emactestpromis.exp and emactestmulticast.exp.                            *)

\* What a receiver that no read has failed has counted.
PacketBytes == 3 * others + (IF test = "promis" THEN 6 ELSE 3) * tags

\* The receiver runs only while the script expects its word; its total is that
\* of the frames it read, less one or two for a failed read, which ends it.
PacketTotal ==
  /\ test \in {"promis", "multicast"} /\ half \in {1, 2}
  /\ rcv \in {"off", "flags", "read", "output", "failed"}
  /\ rcv # "off" => step = "expect"
  /\ totbytes \in Int /\ tags \in Nat /\ others \in Nat /\ errors \in {0, 1}
  /\ rcv \in {"flags", "read"} => errors = 0
  /\ rcv \in {"flags", "read", "output"} =>
       IF errors = 0 THEN totbytes = PacketBytes
                     ELSE totbytes \in {PacketBytes - 1, PacketBytes - 2}

\* In the first half of a script that found no interface promiscuous none is,
\* and rawrecv has met no frame of rawsend; in the second half it reads with
\* the interface promiscuous.
PacketFlags ==
  /\ queue \in Seq({"tag", "other"})
  /\ clean /\ half = 1 /\ step \in {"start", "expect"} => promisc = {}
  /\ test = "promis" /\ half = 1 /\ clean /\ rcv \in {"flags", "read", "output"} =>
       tags = 0 /\ \A m \in 1..Len(queue) : queue[m] = "other"
  /\ test = "promis" /\ half = 2 /\ rcv \in {"read", "output"} => port \in promisc

PacketInv == PacketTotal /\ PacketFlags /\ Packet!ZeroSawTheFrames

\* A turn of the receiver's loop: the total follows the frames.
LEMMA PacketReads == ASSUME PacketInv, Packet!Reads PROVE PacketInv'
<1> USE DEF PacketInv
<1>1. /\ rcv = "read" /\ step = "expect" /\ errors = 0 /\ totbytes = PacketBytes
      /\ UNCHANGED <<test, port, half, step, retv, promisc, senders, frames, clean, runs>>
  BY DEF Packet!Reads, PacketTotal
<1>2. CASE queue # <<>> /\ totbytes' = Packet!Total(Head(queue), 3) /\ rcv' \in {"read", "output"}
           /\ queue' = Tail(queue) /\ UNCHANGED errors
           /\ tags' = tags + (IF Head(queue) = "tag" THEN 1 ELSE 0)
           /\ others' = others + (IF Head(queue) = "other" THEN 1 ELSE 0)
  <2>1. Head(queue) \in {"tag", "other"} /\ Tail(queue) \in Seq({"tag", "other"})
        /\ Head(queue) = queue[1]
    BY <1>2 DEF PacketFlags
  <2>2. PacketTotal'
    BY <1>1, <1>2, <2>1
       DEF PacketTotal, PacketBytes, Packet!Total, Packet!RawTotal, Packet!McTotal
  <2>3. (\A m \in 1..Len(queue) : queue[m] = "other") =>
          \A m \in 1..Len(queue') : queue'[m] = "other"
    BY <1>2 DEF PacketFlags
  <2>4. PacketFlags'
    BY <1>1, <1>2, <2>1, <2>3 DEF PacketFlags
  <2> QED
    BY <1>1, <2>2, <2>4 DEF Packet!ZeroSawTheFrames
<1>3. CASE totbytes' = Packet!Total(recvbuf, 0) /\ rcv' \in {"read", "output"}
           /\ UNCHANGED <<queue, tags, others, errors>>
  BY <1>1, <1>3 DEF PacketTotal, PacketFlags, PacketBytes, Packet!Total, Packet!RawTotal,
                    Packet!McTotal, Packet!ZeroSawTheFrames
<1>4. CASE totbytes' = Packet!Total(recvbuf, -1) /\ rcv' = "output" /\ errors' = errors + 1
           /\ UNCHANGED <<queue, tags, others>>
  BY <1>1, <1>4 DEF PacketTotal, PacketFlags, PacketBytes, Packet!Total, Packet!RawTotal,
                    Packet!McTotal, Packet!ZeroSawTheFrames
<1> QED
  BY <1>2, <1>3, <1>4 DEF Packet!Reads, Packet!Size

\* A frame that reaches the socket is other traffic, unless an interface is
\* promiscuous or the test is the multicast one.
LEMMA PacketArrives ==
  ASSUME PacketInv, NEW x \in {"tag", "other"}, queue' = Append(queue, x),
         rcv \in {"flags", "read"},
         x = "tag" => test = "multicast" \/ port \in promisc,
         UNCHANGED <<test, port, half, step, retv, promisc, senders, rcv, recvbuf, totbytes,
                     tags, others, errors, clean, runs>>
  PROVE  PacketInv'
<1> USE DEF PacketInv
<1>1. PacketTotal' /\ Packet!ZeroSawTheFrames'
  BY DEF PacketTotal, PacketBytes, Packet!ZeroSawTheFrames
<1>2. queue \in Seq({"tag", "other"}) /\ queue' \in Seq({"tag", "other"})
  BY DEF PacketFlags
<1>3. ASSUME test = "promis" /\ half = 1 /\ clean
      PROVE  tags = 0 /\ \A m \in 1..Len(queue') : queue'[m] = "other"
  <2>1. step = "expect" /\ promisc = {}
    BY <1>3 DEF PacketTotal, PacketFlags
  <2>2. x = "other" /\ \A m \in 1..Len(queue) : queue[m] = "other"
    BY <1>3, <2>1 DEF PacketFlags
  <2>3. tags = 0
    BY <1>3 DEF PacketFlags
  <2> QED
    BY <1>2, <2>2, <2>3
<1>4. PacketFlags'
  BY <1>2, <1>3 DEF PacketFlags
<1> QED
  BY <1>1, <1>4

\* Every step of the two scripts and their programs keeps the invariant.
LEMMA PacketStep == ASSUME PacketInv, [Packet!Next]_packetvars PROVE PacketInv'
<1> USE DEF PacketInv
<1>1. CASE Packet!Begin
  <2>1. clean' => promisc' = {}
    BY <1>1, Zenon DEF Packet!Begin
  <2> QED
    BY <1>1, <2>1
      DEF Packet!Begin, PacketTotal, PacketFlags, PacketBytes, Packet!ZeroSawTheFrames
<1>2. CASE Packet!Start
  BY <1>2 DEF Packet!Start, Packet!Setup, PacketTotal, PacketFlags, PacketBytes,
              Packet!ZeroSawTheFrames
<1>3. CASE Packet!raw_init
  BY <1>3 DEF Packet!raw_init, PacketTotal, PacketFlags, PacketBytes, Packet!ZeroSawTheFrames
<1>4. CASE Packet!rawsend \/ Packet!sendmc
  BY <1>4, PacketArrives DEF Packet!rawsend, Packet!sendmc, Packet!Deliver
<1>5. CASE Packet!Traffic
  BY <1>5, PacketArrives DEF Packet!Traffic
<1>6. CASE Packet!SenderEnds
  BY <1>6 DEF Packet!SenderEnds, Packet!receiver, PacketTotal, PacketFlags, PacketBytes,
              Packet!ZeroSawTheFrames
<1>7. CASE Packet!rawrecv \/ Packet!recvmc
  BY <1>7, PacketReads DEF Packet!rawrecv, Packet!recvmc
<1>8. CASE Packet!Expect
  BY <1>8
    DEF Packet!Expect, Packet!Printed, Packet!Wanted, PacketTotal, PacketFlags, PacketBytes,
              Packet!ZeroSawTheFrames
<1>9. CASE UNCHANGED packetvars
  BY <1>9 DEF packetvars, PacketTotal, PacketFlags, PacketBytes, Packet!ZeroSawTheFrames
<1> QED
  BY <1>1, <1>2, <1>3, <1>4, <1>5, <1>6, <1>7, <1>8, <1>9 DEF Packet!Next

\* In every behaviour the invariant of the packet tests holds.
LEMMA PacketAlways == ScriptsSpec => []PacketInv
<1>1. ScriptsInit => PacketInv
  BY DEF ScriptsInit, Packet!Init, PacketInv, PacketTotal, PacketFlags, Packet!ZeroSawTheFrames
<1>2. PacketInv /\ [ScriptsNext]_<<sh, scriptvars>> => PacketInv'
  BY PacketStep, SeparateScripts
<1> QED
  BY <1>1, <1>2, PTL DEF ScriptsSpec

\* Exit code 0 of emactestpromis.exp and emactestmulticast.exp, without other
\* traffic and failed reads, means that the frames were seen with the interface
\* promiscuous, or that none came.
THEOREM ZeroSawTheFramesThm == ScriptsSpec => []ZeroSawTheFrames
<1>1. PacketInv => ZeroSawTheFrames
  BY DEF PacketInv, ZeroSawTheFrames
<1> QED
  BY <1>1, PacketAlways, PTL

\* rawrecv and recvmc print "none" only if they read nothing, and with no
\* promiscuous interface the first half of emactestpromis.exp prints it.
THEOREM NoneMeansNoneThm == ScriptsSpec => []NoneMeansNone
<1>1. PacketInv => NoneMeansNone
  BY DEF PacketInv, PacketTotal, PacketFlags, PacketBytes, NoneMeansNone, Packet!NoneMeansNone,
         Packet!Printed
<1> QED
  BY <1>1, PacketAlways, PTL
-----------------------------------------------------------------------------
(* spi-test-loopback.sh and spi-test-loopback.                              *)

\* The seed file is that of an iteration or empty; the result file holds what
\* the device gave back, noise or nothing.
LoopInv ==
  /\ a \in Nat
  /\ seed \in {Loop!NoFile, Loop!Empty} \union 1..a
  /\ bytes => seed \in {a, Loop!Empty, Loop!NoFile}
  /\ rx \in looped \union {Loop!Noise}
  /\ result \in looped \union {Loop!Empty, Loop!NoFile, Loop!Noise}
  /\ good => spi \in {"dd", "idle"} /\ seed # Loop!NoFile /\ seed = result

\* Every step of the script and the program keeps the invariant.
LEMMA LoopStep == ASSUME LoopInv, [Loop!Next]_loopvars PROVE LoopInv'
<1> USE DEF LoopInv, Loop!NoFile, Loop!Empty, Loop!Noise, Loop!Pattern
<1>1. CASE Loop!Begin
  BY <1>1 DEF Loop!Begin
<1>2. CASE Loop!DiskFills
  BY <1>2 DEF Loop!DiskFills
<1>3. CASE Loop!dd
  BY <1>3 DEF Loop!dd
<1>4. CASE Loop!parse_opts \/ Loop!pabort
  BY <1>4 DEF Loop!parse_opts, Loop!pabort
<1>5. CASE Loop!ioctl
  BY <1>5 DEF Loop!ioctl
<1>6. CASE Loop!transfer
  BY <1>6 DEF Loop!transfer, Loop!Save
<1>7. CASE Loop!cmp
  <2>1. good' => seed # Loop!NoFile /\ seed = result
    BY <1>7, Zenon DEF Loop!cmp
  <2> QED
    BY <1>7, <2>1 DEF Loop!cmp
<1>8. CASE Loop!Verdict
  BY <1>8 DEF Loop!Verdict
<1>9. CASE UNCHANGED loopvars
  BY <1>9 DEF loopvars
<1> QED
  BY <1>1, <1>2, <1>3, <1>4, <1>5, <1>6, <1>7, <1>8, <1>9, Zenon DEF Loop!Next

\* Files that spi-test-loopback.sh finds equal came back from the device or are
\* both empty, and are this iteration's unless dd was given 0 bytes.
THEOREM EqualWasLoopedThm == ScriptsSpec => []EqualWasLooped
<1>1. ScriptsInit => LoopInv
  BY DEF ScriptsInit, Loop!Init, LoopInv
<1>2. LoopInv /\ [ScriptsNext]_<<sh, scriptvars>> => LoopInv'
  BY LoopStep, SeparateScripts
<1>3. LoopInv => EqualWasLooped
  BY DEF LoopInv, EqualWasLooped, Loop!EqualWasLooped, Loop!NoFile, Loop!Empty, Loop!Noise
<1> QED
  BY <1>1, <1>2, <1>3, PTL DEF ScriptsSpec
-----------------------------------------------------------------------------
(* rtc-test.sh.                                                             *)

\* A clock that was not set is far off, one that was set is with the system
\* clock, at most a second behind, or stands at the second it was set in.
RtcClocks ==
  /\ sys \in 0..MaxSeconds /\ want \in 0..MaxSeconds /\ rtc \in Nat /\ setAt \in Nat
  /\ ~going => ~behind
  /\ rt = "start" => ~behind /\ ~isSet
  /\ ~isSet => rtc >= Rtc!Far
  /\ isSet /\ going /\ behind => rtc = sys - 1
  /\ isSet /\ going /\ ~behind => rtc = sys
  /\ isSet /\ ~going => rtc = setAt

\* Before the comparison only a path that cannot be read has failed; what the
\* comparison found decides the rest.
RtcFound ==
  /\ rtStatus \in {0, 1}
  /\ rt \notin {"verdict", "PASS", "FAIL"} /\ rtStatus = 1 => unread
  /\ rt = "cat" /\ ~ticked => want = sys
  /\ rt \in {"verdict", "PASS"} /\ rtStatus = 0 => isSet /\ (going \/ want = setAt)
  /\ rt \in {"verdict", "FAIL"} /\ rtStatus = 1 => ~isSet \/ ~going \/ unread \/ ticked
  /\ rt = "PASS" => rtStatus = 0
  /\ rt = "FAIL" => rtStatus = 1

RtcInv == RtcClocks /\ RtcFound

\* Every step of the script and of the clocks keeps the invariant.
LEMMA RtcStep ==
  ASSUME MaxSeconds \in Nat, MaxSeconds < 100, RtcInv, [Rtc!Next]_rtcvars PROVE RtcInv'
<1> USE DEF RtcInv, RtcClocks, RtcFound, Rtc!Far
<1>1. CASE Rtc!SysTick
  <2>1. (behind' => going) /\ (going => behind') /\ (ticked => ticked') /\ (rt = "cat" => ticked')
    BY <1>1, Zenon DEF Rtc!SysTick
  <2> QED
    BY <1>1, <2>1 DEF Rtc!SysTick, Rtc!Running
<1>2. CASE Rtc!RtcTick
  <2>1. ~behind' /\ (ticked => ticked') /\ (rt = "cat" => ticked')
    BY <1>2, Zenon DEF Rtc!RtcTick
  <2> QED
    BY <1>2, <2>1 DEF Rtc!RtcTick, Rtc!Running
<1>3. CASE Rtc!path_test
  <2>1. \/ rt' = "error" /\ UNCHANGED <<rtStatus, unread>>
        \/ rt' = "systohc" /\ rtStatus' \in {0, 1} /\ (rtStatus' = 1 => unread')
    BY <1>3, Zenon DEF Rtc!path_test
  <2> QED
    BY <1>3, <2>1 DEF Rtc!path_test
<1>4. CASE Rtc!systohc
  BY <1>4 DEF Rtc!systohc
<1>5. CASE Rtc!hwclock_time \/ Rtc!date_time \/ Rtc!Sleep
  BY <1>5 DEF Rtc!hwclock_time, Rtc!date_time, Rtc!Sleep, Rtc!clocks, Rtc!ghosts
<1>6. CASE Rtc!Argument
  BY <1>6 DEF Rtc!Argument, Rtc!clocks
<1>7. CASE Rtc!sysfs_test
  <2>1. (ticked => ticked') /\ (behind => ticked')
    BY <1>7, Zenon DEF Rtc!sysfs_test
  <2> QED
    BY <1>7, <2>1 DEF Rtc!sysfs_test, Rtc!clocks
<1>8. CASE Rtc!Verdict
  BY <1>8 DEF Rtc!Verdict, Rtc!clocks, Rtc!ghosts
<1>9. CASE UNCHANGED rtcvars
  BY <1>9 DEF rtcvars
<1> QED
  BY <1>1, <1>2, <1>3, <1>4, <1>5, <1>6, <1>7, <1>8, <1>9, Zenon DEF Rtc!Next

\* PASS of rtc-test.sh: the clock was set and counts, or no second passed; FAIL:
\* it was not set, stands still, could not be read or a clock ticked in between.
THEOREM RtcVerdictThm ==
  ASSUME MaxSeconds \in Nat, MaxSeconds < 100 PROVE ScriptsSpec => []RtcVerdict
<1>1. ScriptsInit => RtcInv
  BY DEF ScriptsInit, Rtc!Init, RtcInv, RtcClocks, RtcFound, Rtc!Far
<1>2. RtcInv /\ [ScriptsNext]_<<sh, scriptvars>> => RtcInv'
  BY RtcStep, SeparateScripts
<1>3. RtcInv => RtcVerdict
  BY DEF RtcInv, RtcFound, RtcVerdict, Rtc!RtcVerdict
<1> QED
  BY <1>1, <1>2, <1>3, PTL DEF ScriptsSpec
-----------------------------------------------------------------------------
(* test_clk.sh and sysid-test-header.sh.                                    *)

\* While no check has failed: which rates were right, and which devices the
\* steps so far have found.
StatusInv ==
  /\ script \in {"clk", "sysid"} /\ stStatus \in {0, 1}
  /\ st \in {"idle", "osc", "mpu", "overlay", "state", "check", "end"}
  /\ st \in {"osc", "mpu"} => script = "clk"
  /\ st \in {"overlay", "state", "check"} => script = "sysid" /\ pos \in 1..6
  /\ st = "end" /\ script = "sysid" => pos = 7
  /\ st = "osc" => mpu = "none"
  /\ st = "mpu" => osc = "right"
  /\ st = "end" /\ script = "clk" /\ stStatus = 0 =>
       osc = "failed" \/ (osc = "right" /\ mpu # "wrong")
  /\ st \in {"overlay", "state", "check", "end"} /\ script = "sysid" =>
       /\ there \subseteq brought \union atBegin
       /\ stStatus = 0 => /\ pos > 1 => "static" \in brought \union atBegin
                          /\ pos > 2 => "persona0" \in brought \union atBegin
                          /\ pos > 4 => "persona1" \in brought \union atBegin
  /\ stSaid = "PASS" => st = "idle"
  /\ Status!PassMeans

\* Every step of the scripts, and a reset, keeps the invariant.
LEMMA StatusStep == ASSUME StatusInv, [Status!Next]_statusvars PROVE StatusInv'
<1> USE DEF StatusInv, Status!PassMeans, Status!Exit, Status!Goto
<1>1. CASE Status!Begin
  BY <1>1 DEF Status!Begin
<1>2. CASE Status!ReadOsc
  BY <1>2 DEF Status!ReadOsc, Status!Clock, Status!Rates
<1>3. CASE Status!ReadMpu
  BY <1>3 DEF Status!ReadMpu, Status!Clock, Status!Rates
<1>4. CASE Status!apply_overlay
  BY <1>4 DEF Status!apply_overlay
<1>5. CASE Status!remove_overlay
  BY <1>5 DEF Status!remove_overlay
<1>6. CASE Status!sysfs_cat_test
  BY <1>6 DEF Status!sysfs_cat_test
<1>7. CASE Status!check_sysid
  <2> DEFINE E == Status!Steps[pos].expected
  <2>1. pos \in {1, 2, 3, 4, 5, 6} /\ Len(Status!Steps) = 6
    BY <1>7 DEF Status!check_sysid, Status!Steps
  <2>2. /\ pos = 1 => E = {"static"}
        /\ pos = 2 => E = {"static", "persona0"}
        /\ pos = 4 => E = {"static", "persona1"}
    BY DEF Status!Steps
  <2> HIDE DEF E
  <2>3. stStatus' = 0 => stStatus = 0 /\ \A d \in Status!Overlays : d \in E => d \in there
    BY <1>7 DEF Status!check_sysid, Status!Good, E
  <2>4. /\ stStatus' = 0 /\ pos = 1 => "static" \in there
        /\ stStatus' = 0 /\ pos = 2 => "persona0" \in there
        /\ stStatus' = 0 /\ pos = 4 => "persona1" \in there
    BY <2>2, <2>3 DEF Status!Overlays
  <2>5. /\ st = "check" /\ pos' = pos + 1 /\ st' = (IF pos = 6 THEN "end" ELSE "overlay")
        /\ stStatus' \in {stStatus, 1}
        /\ UNCHANGED <<stSaid, script, there, osc, mpu, atBegin, brought>>
    BY <1>7, <2>1 DEF Status!check_sysid
  <2> QED
    BY <2>1, <2>3, <2>4, <2>5
<1>8. CASE Status!Verdict
  BY <1>8 DEF Status!Verdict, Status!Overlays
<1>9. CASE Status!Reboot
  BY <1>9 DEF Status!Reboot
<1>10. CASE UNCHANGED statusvars
  BY <1>10 DEF statusvars
<1> QED
  BY <1>1, <1>2, <1>3, <1>4, <1>5, <1>6, <1>7, <1>8, <1>9, <1>10, Zenon DEF Status!Next

\* PASS of test_clk.sh: no rate that was read is wrong; of sysid-test-header.sh:
\* every overlay brought its device, in this run or in an earlier one.
THEOREM PassMeansThm == ScriptsSpec => []PassMeans
<1>1. ScriptsInit => StatusInv
  BY DEF ScriptsInit, Status!Init, StatusInv, Status!PassMeans
<1>2. StatusInv /\ [ScriptsNext]_<<sh, scriptvars>> => StatusInv'
  BY StatusStep, SeparateScripts
<1>3. StatusInv => PassMeans
  BY DEF StatusInv, PassMeans
<1> QED
  BY <1>1, <1>2, <1>3, PTL DEF ScriptsSpec
-----------------------------------------------------------------------------
(* mmc_test.sh and usb_host.sh.                                             *)

\* The types of the files, and the place in a script.
StorageTypes ==
  /\ run \in Nat /\ sk \in 1..7
  /\ home \in [Storage!Names -> Int] /\ under \in [Storage!Names -> Int]
  /\ fs \in [Storage!Devices -> [Storage!Names -> Int]]
  /\ mounts \in Seq(Storage!Devices)

\* While nothing has failed, the data of this run are where the next function
\* takes them from: mmc_test.sh draws them into the home directory, usb_host.sh
\* on the mounted directory, from where copy_test brings them home.
DataOfThisRun ==
  run \in DOMAIN Scripts /\ sfail = 0 =>
    /\ Storage!S = "mmc" /\ sk \in 2..4 => home[Storage!S] = run
    /\ Storage!S = "usb" /\ sk = 4 => Storage!There = run
    /\ Storage!S = "usb" /\ sk = 5 => home[Storage!S] = run
    /\ sk >= (IF Storage!S = "mmc" THEN 5 ELSE 6) => compared = run

StorageInv == StorageTypes /\ DataOfThisRun
-----------------------------------------------------------------------------
\* A script that is at a function is at that function's place.
LEMMA AtPlace ==
  ASSUME Scripts \in Seq(Storage!Names), StorageTypes, NEW op, Storage!At(op)
  PROVE  /\ run \in DOMAIN Scripts /\ Storage!S \in Storage!Names
         /\ op = "create_test_file" => Storage!S = "mmc" /\ sk = 1
         /\ op = "devnode" => Storage!S = "usb" /\ sk = 1
         /\ op = "mount" => sk = 2
         /\ op = "write" => sk = 3
         /\ op = "copy_test" => Storage!S = "usb" /\ sk = 4
         /\ op = "compare_test" => sk = (IF Storage!S = "mmc" THEN 4 ELSE 5)
         /\ op = "umount_test" => Storage!S = "mmc" /\ sk = 5
         /\ op = "cleanup" => Storage!S = "mmc" /\ sk = 6
         /\ op = "unmount_test" => Storage!S = "usb" /\ sk = 6
         /\ op = "verdict" => sk = 7
<1>1. run \in DOMAIN Scripts /\ Storage!S \in Storage!Names
  BY DEF Storage!At, Storage!S
<1>2. sk \in {1, 2, 3, 4, 5, 6, 7}
  BY DEF StorageTypes
<1>3. CASE Storage!S = "mmc"
  BY <1>1, <1>2, <1>3 DEF Storage!At, Storage!Code
<1>4. CASE Storage!S = "usb"
  BY <1>1, <1>2, <1>4 DEF Storage!At, Storage!Code
<1> QED
  BY <1>1, <1>3, <1>4 DEF Storage!Names

\* The visible mount is one of the devices.
LEMMA TopDevice == ASSUME StorageTypes, mounts # <<>> PROVE Storage!Top \in Storage!Devices
BY DEF StorageTypes, Storage!Top

\* What is read of the mounted directory is a file.
LEMMA ThereInt == ASSUME StorageTypes, Storage!S \in Storage!Names PROVE Storage!There \in Int
BY TopDevice DEF StorageTypes, Storage!There

\* Of a write to the mounted directory only the file written is changed.
LEMMA PutTypes ==
  ASSUME StorageTypes, Storage!S \in Storage!Names, NEW x \in Int, Storage!PutThere(x)
  PROVE  /\ under' \in [Storage!Names -> Int] /\ fs' \in [Storage!Devices -> [Storage!Names -> Int]]
         /\ IF mounts = <<>> THEN under'[Storage!S] = x ELSE fs'[Storage!Top][Storage!S] = x
<1>1. CASE mounts = <<>>
  BY <1>1 DEF Storage!PutThere, StorageTypes
<1>2. CASE mounts # <<>>
  <2> DEFINE d == Storage!Top
  <2>1. d \in Storage!Devices
    BY <1>2, TopDevice
  <2>2. fs' = [fs EXCEPT ![d] = [fs[d] EXCEPT ![Storage!S] = x]] /\ UNCHANGED under
    BY <1>2 DEF Storage!PutThere
  <2>3. /\ [fs[d] EXCEPT ![Storage!S] = x] \in [Storage!Names -> Int]
        /\ [fs[d] EXCEPT ![Storage!S] = x][Storage!S] = x
    BY <2>1 DEF StorageTypes
  <2> QED
    BY <1>2, <2>1, <2>2, <2>3 DEF StorageTypes
<1> QED
  BY <1>1, <1>2

\* What is written to the mounted directory is there.
LEMMA PutIsThere ==
  ASSUME StorageTypes, Storage!S \in Storage!Names, NEW x \in Int, Storage!PutThere(x),
         UNCHANGED <<run, mounts>>
  PROVE  Storage!There' = x
BY PutTypes DEF Storage!There, Storage!Top, Storage!S

\* Mounting and unmounting leaves a sequence of devices.
LEMMA MountSeq ==
  ASSUME StorageTypes, Storage!S \in Storage!Names
  PROVE  /\ Append(mounts, Device[Storage!S]) \in Seq(Storage!Devices)
         /\ mounts # <<>> => SubSeq(mounts, 1, Len(mounts) - 1) \in Seq(Storage!Devices)
<1>1. Device[Storage!S] \in Storage!Devices
  BY DEF Storage!Devices
<1> QED
  BY <1>1 DEF StorageTypes

\* The script that exits leaves the next one at its start.
LEMMA LeaveInv == ASSUME StorageTypes, Storage!Leave PROVE StorageInv'
BY
  DEF StorageTypes, Storage!Leave, Storage!files, StorageInv, DataOfThisRun, Storage!There, Storage!S
-----------------------------------------------------------------------------
\* Every function of the two scripts keeps the invariant.
LEMMA StorageStep ==
  ASSUME Scripts \in Seq(Storage!Names), StorageInv, [Storage!Next]_storagevars PROVE StorageInv'
<1> USE DEF StorageInv
<1>s. run' = run => Storage!S' = Storage!S
  BY DEF Storage!S
<1>1. CASE Storage!CheckDevnode
  <2>1. Storage!At("devnode")
    BY <1>1 DEF Storage!CheckDevnode
  <2>2. Storage!S = "usb" /\ sk = 1
    BY <2>1, AtPlace
  <2>3. CASE Storage!Leave
    BY <2>3, LeaveInv
  <2>4. CASE Storage!Continue /\ UNCHANGED <<Storage!files, mounts, sfail, Storage!ghosts>>
    BY <1>s, <2>2, <2>4 DEF Storage!Continue, Storage!files, StorageTypes, DataOfThisRun
  <2> QED
    BY <1>1, <2>3, <2>4 DEF Storage!CheckDevnode
<1>2. CASE Storage!create_test_file
  <2>1. Storage!At("create_test_file")
    BY <1>2 DEF Storage!create_test_file
  <2>2. Storage!S = "mmc" /\ sk = 1 /\ Storage!S \in Storage!Names
    BY <2>1, AtPlace
  <2> QED
    BY <1>2, <1>s, <2>2
      DEF Storage!create_test_file, Storage!Continue, Storage!PutHome, StorageTypes, DataOfThisRun
<1>3. CASE Storage!Mount
  <2>1. Storage!At("mount")
    BY <1>3 DEF Storage!Mount
  <2>2. Storage!S \in Storage!Names /\ sk = 2 /\ run \in DOMAIN Scripts
    BY <2>1, AtPlace
  <2>a. mounts' \in Seq(Storage!Devices)
    BY <1>3, <2>2, MountSeq DEF Storage!Mount, StorageTypes
  <2>3. StorageTypes'
    BY <1>3, <2>2, <2>a DEF Storage!Mount, Storage!Continue, Storage!files, StorageTypes
  <2>4. sk' = 3 /\ UNCHANGED <<run, home, sfail>>
    BY <1>3, <2>2 DEF Storage!Mount, Storage!Continue, Storage!files
  <2> QED
    BY <1>s, <2>2, <2>3, <2>4 DEF DataOfThisRun
<1>4. CASE Storage!Write
  <2>1. Storage!At("write")
    BY <1>4 DEF Storage!Write
  <2>2. Storage!S \in Storage!Names /\ sk = 3 /\ run \in DOMAIN Scripts
    BY <2>1, AtPlace
  <2>3. sk' = 4 /\ UNCHANGED <<run, mounts, home>>
    BY <1>4, <2>2 DEF Storage!Write, Storage!Continue
  <2> DEFINE input == IF Storage!S = "mmc" THEN home[Storage!S] ELSE run
  <2>4. input \in Int /\ Storage!Part(input) \in Int
    BY <2>2 DEF StorageTypes, Storage!Part
  <2>5. CASE Storage!PutThere(input) /\ UNCHANGED sfail
    <3>1. /\ under' \in [Storage!Names -> Int]
          /\ fs' \in [Storage!Devices -> [Storage!Names -> Int]]
          /\ Storage!There' = input
      BY <2>2, <2>3, <2>4, <2>5, PutIsThere, PutTypes
    <3>2. StorageTypes'
      BY <2>3, <3>1 DEF StorageTypes
    <3>3. /\ Storage!S' = Storage!S /\ Storage!S \in {"mmc", "usb"}
          /\ run' = run /\ home' = home /\ sk' = 4
      BY <1>s, <2>2, <2>3 DEF Storage!Names
    <3>4. sfail' = 0 /\ Storage!S = "mmc" => home[Storage!S] = run
      BY <2>2, <2>5 DEF DataOfThisRun
    <3>5. Storage!S = "usb" => Storage!There' = run
      BY <3>1
    <3> HIDE DEF StorageTypes, Storage!There, input
    <3>6. DataOfThisRun'
      BY <3>3, <3>4, <3>5 DEF DataOfThisRun
    <3> QED
      BY <3>2, <3>6
  <2>6. CASE Storage!PutThere(Storage!Part(input)) /\ sfail' = 1
    <3>1. under' \in [Storage!Names -> Int] /\ fs' \in [Storage!Devices -> [Storage!Names -> Int]]
      BY <2>2, <2>4, <2>6, PutTypes
    <3>2. StorageTypes'
      BY <2>3, <3>1 DEF StorageTypes
    <3>3. DataOfThisRun'
      BY <2>6 DEF DataOfThisRun
    <3> QED
      BY <3>2, <3>3
  <2>7. CASE UNCHANGED <<fs, under>> /\ sfail' = 1
    BY <2>3, <2>7 DEF StorageTypes, DataOfThisRun
  <2> QED
    BY <1>4, <2>5, <2>6, <2>7 DEF Storage!Write
<1>5. CASE Storage!copy_test
  <2>1. Storage!At("copy_test")
    BY <1>5 DEF Storage!copy_test
  <2>2. Storage!S = "usb" /\ sk = 4 /\ run \in DOMAIN Scripts /\ Storage!S \in Storage!Names
    BY <2>1, AtPlace
  <2>3. Storage!There \in Int /\ Storage!Part(Storage!There) \in Int
    BY <2>2, ThereInt DEF Storage!Part
  <2> QED
    BY <1>5, <1>s, <2>2, <2>3
      DEF Storage!copy_test, Storage!Continue, Storage!PutHome, StorageTypes, DataOfThisRun
<1>6. CASE Storage!compare_test
  <2>1. Storage!At("compare_test")
    BY <1>6 DEF Storage!compare_test
  <2>2. /\ Storage!S \in Storage!Names /\ run \in DOMAIN Scripts
        /\ sk = (IF Storage!S = "mmc" THEN 4 ELSE 5)
    BY <2>1, AtPlace
  <2>3. StorageTypes'
    BY <1>6, <2>2 DEF Storage!compare_test, Storage!Continue, Storage!files, StorageTypes
  <2> QED
    BY <1>6, <1>s, <2>2, <2>3
      DEF Storage!compare_test, Storage!Continue, Storage!files, DataOfThisRun, Storage!Names
<1>7. CASE Storage!umount_test
  <2>1. Storage!At("umount_test")
    BY <1>7 DEF Storage!umount_test
  <2>2. Storage!S \in Storage!Names /\ Storage!S = "mmc" /\ sk = 5 /\ run \in DOMAIN Scripts
    BY <2>1, AtPlace
  <2>a. mounts' \in Seq(Storage!Devices)
    BY <1>7, <2>2, MountSeq DEF Storage!umount_test, Storage!Unmount, StorageTypes
  <2>3. StorageTypes'
    BY <1>7, <2>2, <2>a DEF Storage!umount_test, Storage!Continue, Storage!files, StorageTypes
  <2>4. sk' = 6 /\ sfail' \in {sfail, 1} /\ UNCHANGED <<run, compared>>
    BY <1>7, <2>2 DEF Storage!umount_test, Storage!Continue, Storage!ghosts
  <2> QED
    BY <1>s, <2>2, <2>3, <2>4 DEF DataOfThisRun
<1>8. CASE Storage!cleanup
  <2>1. Storage!At("cleanup")
    BY <1>8 DEF Storage!cleanup
  <2>2. Storage!S \in Storage!Names /\ Storage!S = "mmc" /\ sk = 6 /\ run \in DOMAIN Scripts
    BY <2>1, AtPlace
  <2> QED
    BY <1>8, <1>s, <2>2
      DEF Storage!cleanup, Storage!Continue, Storage!PutHome, Storage!ghosts, StorageTypes, DataOfThisRun
<1>9. CASE Storage!unmount_test
  <2>1. Storage!At("unmount_test")
    BY <1>9 DEF Storage!unmount_test
  <2>2. Storage!S \in Storage!Names /\ Storage!S = "usb" /\ sk = 6 /\ run \in DOMAIN Scripts
    BY <2>1, AtPlace
  <2>3. under' \in [Storage!Names -> Int] /\ fs' \in [Storage!Devices -> [Storage!Names -> Int]]
    <3>1. CASE Storage!PutThere(0)
      BY <2>2, <3>1, PutTypes
    <3>2. CASE UNCHANGED <<fs, under>>
      BY <3>2 DEF StorageTypes
    <3> QED
      BY <1>9, <3>1, <3>2 DEF Storage!unmount_test
  <2>a. mounts' \in Seq(Storage!Devices)
    BY <1>9, <2>2, MountSeq DEF Storage!unmount_test, Storage!Unmount, StorageTypes
  <2>b. home' \in [Storage!Names -> Int]
    BY <1>9, <2>2 DEF Storage!unmount_test, Storage!PutHome, StorageTypes
  <2>4. StorageTypes'
    BY <1>9, <2>2, <2>3, <2>a, <2>b DEF Storage!unmount_test, Storage!Continue, StorageTypes
  <2>5. sk' = 7 /\ UNCHANGED <<run, sfail, compared>>
    BY <1>9, <2>2 DEF Storage!unmount_test, Storage!Continue, Storage!ghosts
  <2> QED
    BY <1>s, <2>2, <2>4, <2>5 DEF DataOfThisRun
<1>10. CASE Storage!Verdict
  BY <1>10, LeaveInv DEF Storage!Verdict
<1>11. CASE UNCHANGED storagevars
  BY <1>11 DEF storagevars, StorageTypes, DataOfThisRun, Storage!There, Storage!Top, Storage!S
<1> QED
  BY <1>1, <1>2, <1>3, <1>4, <1>5, <1>6, <1>7, <1>8, <1>9, <1>10, <1>11 DEF Storage!Next

\* PASS of mmc_test.sh and of usb_host.sh compared two complete files of the data
\* drawn in that very run, after any earlier runs (mmc_test.sh 40-130).
THEOREM PassComparedThisRunThm ==
  ASSUME Scripts \in Seq(Storage!Names) PROVE ScriptsSpec => []PassComparedThisRun
<1>1. ScriptsInit => StorageInv
  BY
    DEF ScriptsInit, Storage!Init, StorageInv, StorageTypes, DataOfThisRun, Storage!There, Storage!S
<1>2. StorageInv /\ [ScriptsNext]_<<sh, scriptvars>> => StorageInv'
  BY StorageStep, SeparateScripts
<1>3. StorageInv => PassComparedThisRun
  <2> SUFFICES ASSUME StorageInv, Storage!Passes PROVE compared = run
    BY DEF PassComparedThisRun, Storage!PassComparedThisRun
  <2>1. sk = 7 /\ run \in DOMAIN Scripts /\ sfail = 0
    BY AtPlace DEF Storage!Passes, StorageInv
  <2> QED
    BY <2>1 DEF StorageInv, DataOfThisRun
<1> QED
  BY <1>1, <1>2, <1>3, PTL DEF ScriptsSpec
=============================================================================
