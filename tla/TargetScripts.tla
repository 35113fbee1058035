---------------------------- MODULE TargetScripts ---------------------------
(***************************************************************************)
(* The scripts of the tests that run on the target (and for the packet      *)
(* tests on the host), one of them at a time: a session picks one and runs  *)
(* it.  They share nothing, so the behaviours of the session are those of   *)
(* the scripts.                                                             *)
(***************************************************************************)
EXTENDS Integers, Sequences

CONSTANTS
  Ports, MaxFrames, MaxRuns,                      \* PacketTest
  MaxIterations, MaxScripts,                      \* SpiLoopback
  MaxSeconds,                                     \* RtcTest
  MaxStRuns,                                      \* StatusScripts
  Scripts, Device                                 \* StorageTest

VARIABLES
  sh,   \* the script that runs
  test, port, half, step, retv, promisc, senders, rcv, queue, recvbuf, totbytes, frames,
  tags, others, errors, clean, runs,
  spi, todo, a, bytes, full, seed, result, tx, rx, looped, good, status_fail, spiVerdict, scripts,
  rt, sys, rtc, behind, going, tries, hw_tm, slept, want, rtStatus, isSet, setAt, ticked, unread,
  st, stSaid, script, pos, there, stStatus, osc, mpu, atBegin, brought, stRuns,
  run, sk, home, fs, under, mounts, sfail, compared, ondevice

packetvars == <<test, port, half, step, retv, promisc, senders, rcv, queue, recvbuf, totbytes,
                frames, tags, others, errors, clean, runs>>
loopvars == <<spi, todo, a, bytes, full, seed, result, tx, rx, looped, good, status_fail,
              spiVerdict, scripts>>
rtcvars == <<rt, sys, rtc, behind, going, tries, hw_tm, slept, want, rtStatus, isSet, setAt,
             ticked, unread>>
statusvars == <<st, stSaid, script, pos, there, stStatus, osc, mpu, atBegin, brought, stRuns>>
storagevars == <<run, sk, home, fs, under, mounts, sfail, compared, ondevice>>

Packet == INSTANCE PacketTest
Loop == INSTANCE SpiLoopback
Rtc == INSTANCE RtcTest
Status == INSTANCE StatusScripts
Storage == INSTANCE StorageTest WITH k <- sk, status_fail <- sfail

scriptvars == <<packetvars, loopvars, rtcvars, statusvars, storagevars>>
ScriptNames == {"packet", "loop", "rtc", "status", "storage"}

ScriptsInit == Packet!Init /\ Loop!Init /\ Rtc!Init /\ Status!Init /\ Storage!Init

\* All but one of the scripts stand still.
OnlyScript(name) ==
  /\ sh = name /\ UNCHANGED sh
  /\ IF name = "packet" THEN TRUE ELSE UNCHANGED packetvars
  /\ IF name = "loop" THEN TRUE ELSE UNCHANGED loopvars
  /\ IF name = "rtc" THEN TRUE ELSE UNCHANGED rtcvars
  /\ IF name = "status" THEN TRUE ELSE UNCHANGED statusvars
  /\ IF name = "storage" THEN TRUE ELSE UNCHANGED storagevars

ScriptsNext ==
  \/ OnlyScript("packet") /\ Packet!Next
  \/ OnlyScript("loop") /\ Loop!Next
  \/ OnlyScript("rtc") /\ Rtc!Next
  \/ OnlyScript("status") /\ Status!Next
  \/ OnlyScript("storage") /\ Storage!Next

ScriptsSpec ==
  sh \in ScriptNames /\ ScriptsInit /\ [][ScriptsNext]_<<sh, scriptvars>>
-----------------------------------------------------------------------------
\* PacketTest: exit code 0 means that the frames were seen.
ZeroSawTheFrames == Packet!ZeroSawTheFrames
\* PacketTest: "none" means none.
NoneMeansNone == Packet!NoneMeansNone
\* SpiLoopback: equal files came from the device.
EqualWasLooped == Loop!EqualWasLooped
\* RtcTest: what PASS and FAIL are worth.
RtcVerdict == Rtc!RtcVerdict
\* StatusScripts: what PASS of the clock and the sysid test is worth.
PassMeans == Status!PassMeans
\* StorageTest: PASS compared complete data of that very run.
PassComparedThisRun == Storage!PassComparedThisRun
=============================================================================
