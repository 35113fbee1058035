------------------------------ MODULE RtcTest ------------------------------
(***************************************************************************)
(* rtc_test/rtc-test.sh: sets the system clock, sets the real-time clock    *)
(* from it, and compares the two, reading one after the other while both    *)
(* go on.  Of a time the model has the seconds; the real-time clock is at   *)
(* most a second behind after it was set.                                   *)
(***************************************************************************)
EXTENDS Integers

CONSTANT MaxSeconds   \* bound on the seconds that pass

Far == 100   \* the real-time clock before it is set

VARIABLES
  rt,          \* "start", "date", "systohc", "hw", "sys", "sleep", "time", "cat", "verdict",
               \* "PASS", "FAIL", "error"
  sys, rtc,    \* the clocks
  behind,      \* the real-time clock has yet to count the last second
  going,       \* the real-time clock counts
  tries, hw_tm, slept,
  want,        \* date +%T, the argument of sysfs_test
  rtStatus,    \* status_fail
  isSet,       \* ghost: hwclock set the clock
  setAt,       \* ghost: the second in which it did
  ticked,      \* ghost: a clock ticked between sysfs_test's two readings, or the
               \* real-time clock was behind at the second
  unread       \* ghost: a path or the time could not be read

rtvars == <<rt, sys, rtc, behind, going, tries, hw_tm, slept, want, rtStatus, isSet,
            setAt, ticked, unread>>
clocks == <<sys, rtc, behind, going>>
ghosts == <<isSet, setAt, ticked, unread>>

Init ==
  /\ rt = "start" /\ sys = 0 /\ rtc = Far /\ behind = FALSE /\ going = TRUE
  /\ tries = 0 /\ hw_tm = Far /\ slept = 0 /\ want = 0 /\ rtStatus = 0
  /\ isSet = FALSE /\ setAt = 0 /\ ticked = FALSE /\ unread = FALSE

Running == rt \notin {"start", "PASS", "FAIL", "error"}

SysTick ==
  /\ Running /\ sys < MaxSeconds /\ ~(going /\ behind)
  /\ sys' = sys + 1 /\ behind' = going /\ ticked' = (ticked \/ rt = "cat")
  /\ UNCHANGED <<rt, rtc, going, tries, hw_tm, slept, want, rtStatus, isSet, setAt, unread>>

RtcTick ==
  /\ Running /\ going /\ behind
  /\ rtc' = rtc + 1 /\ behind' = FALSE /\ ticked' = (ticked \/ rt = "cat")
  /\ UNCHANGED <<rt, sys, going, tries, hw_tm, slept, want, rtStatus, isSet, setAt, unread>>

\* The options and the device node, the four path_tests, and date; the clock
\* of the board may be one that stands still.
path_test ==
  /\ rt = "start" /\ going' \in BOOLEAN
  /\ \/ rt' = "error" /\ UNCHANGED <<rtStatus, unread>>
     \/ rt' = "systohc" /\ rtStatus' \in {0, 1} /\ unread' = (rtStatus' = 1)
  /\ UNCHANGED <<sys, rtc, behind, tries, hw_tm, slept, want, isSet, setAt, ticked>>

\* hwclock --systohc, whose status nobody looks at.
systohc ==
  /\ rt = "systohc" /\ rt' = "hw" /\ tries' = 1
  /\ \/ rtc' = sys /\ behind' = FALSE /\ isSet' = TRUE /\ setAt' = sys
     \/ UNCHANGED <<rtc, behind, isSet, setAt>>
  /\ UNCHANGED <<sys, going, hw_tm, slept, want, rtStatus, ticked, unread>>

hwclock_time ==
  /\ rt = "hw" /\ rt' = "sys" /\ hw_tm' = rtc
  /\ UNCHANGED <<clocks, tries, slept, want, rtStatus, ghosts>>

\* Four tries; that they all fail is printed and has no other consequence.
date_time ==
  /\ rt = "sys" /\ slept' = sys
  /\ rt' = IF hw_tm = sys THEN "time" ELSE "sleep"
  /\ UNCHANGED <<clocks, tries, hw_tm, want, rtStatus, ghosts>>

Sleep ==
  /\ rt = "sleep" /\ sys > slept
  /\ rt' = (IF tries < 4 THEN "hw" ELSE "time") /\ tries' = tries + 1
  /\ UNCHANGED <<clocks, hw_tm, slept, want, rtStatus, ghosts>>

\* sysfs_test time "$(date +'%T')": the argument first.
Argument ==
  /\ rt = "time" /\ rt' = "cat" /\ want' = sys /\ ticked' = FALSE
  /\ UNCHANGED <<clocks, tries, hw_tm, slept, rtStatus, isSet, setAt, unread>>

\* Mutant: a difference is printed only, as in the loop above.
SysfsPrinted ==
  /\ rt = "cat" /\ rt' = "verdict"
  /\ UNCHANGED <<clocks, tries, hw_tm, slept, want, rtStatus, ghosts>>

\* The file of the real-time clock, then the comparison.
sysfs_test ==
  /\ rt = "cat" /\ rt' = "verdict"
  /\ \/ rtStatus' = (IF rtc # want THEN 1 ELSE rtStatus) /\ UNCHANGED unread
     \/ rtStatus' = 1 /\ unread' = TRUE
  /\ ticked' = (ticked \/ behind)
  /\ UNCHANGED <<clocks, tries, hw_tm, slept, want, isSet, setAt>>

Verdict ==
  /\ rt = "verdict" /\ rt' = IF rtStatus = 0 THEN "PASS" ELSE "FAIL"
  /\ UNCHANGED <<clocks, tries, hw_tm, slept, want, rtStatus, ghosts>>

Next ==
  \/ SysTick \/ RtcTick \/ path_test \/ systohc \/ hwclock_time \/ date_time \/ Sleep
  \/ Argument \/ sysfs_test \/ Verdict

-----------------------------------------------------------------------------
\* PASS means that hwclock did set the clock, although its status and the four
\* tries decide nothing, and that the clock counts, unless no second passed
\* between the setting and the comparison; and a clock that was set, counts and
\* can be read fails only if one of the clocks ticked between the two readings
\* of line 110 or the real-time clock had yet to count the second.
RtcVerdict ==
  /\ rt = "PASS" => isSet /\ (going \/ want = setAt)
  /\ rt = "FAIL" => ~isSet \/ ~going \/ unread \/ ticked
=============================================================================
