---------------------------- MODULE WatchdogTest ----------------------------
(***************************************************************************)
(* watchdog/watchdog-test.c and the watchdog device it opens.  The device   *)
(* is the kernel's: opening it starts the timer, a write or WDIOC_KEEPALIVE *)
(* restarts it, closing it stops it only after a 'V' was the last thing     *)
(* written, and when the timer runs out the board is reset.                 *)
(***************************************************************************)
EXTENDS Integers

CONSTANTS
  Default,       \* the device's timeout at boot, in ticks
  Intervals,     \* arguments of -i; 0 stands for no option
  MaxTimeout,    \* longest timeout the device accepts
  Resets         \* bound on the number of resets

ASSUME WatchdogAssumption ==
  /\ Default \in Nat \ {0} /\ Intervals \subseteq Nat
  /\ MaxTimeout \in Nat /\ Resets \in Nat

VARIABLES
  pc,        \* "options", "open", "settimeout", "gettimeout", "bootstatus",
             \* "loop", "magic", "close", "ended" or "exit"
  interval,  \* the variable of main
  active, timeout, left,   \* the device: running, its timeout, ticks left
  magic,     \* the device: the last write was 'V'
  fd,        \* "closed" or "open"
  idle,      \* ghost: ticks since the device was last started or kicked
  resets     \* number of resets so far

device == <<active, timeout, left, magic>>
vars == <<pc, interval, device, fd, idle, resets>>

Init ==
  /\ pc = "options" /\ interval = 0
  /\ active = FALSE /\ timeout = Default /\ left = 0 /\ magic = FALSE
  /\ fd = "closed" /\ idle = 0 /\ resets = 0

\* Help and invalid options end the program before the device is opened.
Options ==
  /\ pc = "options"
  /\ interval' \in Intervals
  /\ pc' \in {"open", "ended"}
  /\ UNCHANGED <<device, fd, idle, resets>>

\* The device restarts its timer.
Restart(t) == left' = t /\ idle' = 0

Open ==
  /\ pc = "open"
  /\ \/ /\ fd' = "open" /\ active' = TRUE /\ magic' = FALSE
        /\ Restart(timeout)
        /\ pc' = IF interval # 0 THEN "settimeout" ELSE "gettimeout"
        /\ UNCHANGED timeout
     \/ pc' = "ended" /\ UNCHANGED <<device, fd, idle>>
  /\ UNCHANGED <<interval, resets>>

\* WDIOC_SETTIMEOUT: refused by the device if out of range.
SetTimeout ==
  /\ pc = "settimeout"
  /\ IF interval <= MaxTimeout
     THEN timeout' = interval /\ Restart(interval) /\ pc' = "gettimeout"
     ELSE pc' = "ended" /\ UNCHANGED <<timeout, left, idle>>
  /\ UNCHANGED <<interval, active, magic, fd, resets>>

GetTimeout ==
  /\ pc = "gettimeout"
  /\ \/ interval' = timeout /\ pc' = "bootstatus"
     \/ UNCHANGED interval /\ pc' = "ended"
  /\ UNCHANGED <<device, fd, idle, resets>>

GetBootStatus ==
  /\ pc = "bootstatus"
  /\ pc' \in {"loop", "ended"}
  /\ UNCHANGED <<interval, device, fd, idle, resets>>

\* Mutant: a request the device does not take for a kick.
KickMissed ==
  /\ pc = "loop"
  /\ idle' = 0 /\ magic' = FALSE
  /\ UNCHANGED <<pc, interval, active, timeout, left, fd, resets>>

\* w writes to the device, i uses the ioctl.
Kick ==
  /\ pc = "loop"
  /\ Restart(timeout) /\ magic' = FALSE
  /\ UNCHANGED <<pc, interval, active, timeout, fd, resets>>

\* x leaves the loop.  Anything else, the end of the input too, does nothing.
Quit ==
  /\ pc = "loop"
  /\ pc' = "magic"
  /\ UNCHANGED <<interval, device, fd, idle, resets>>

WriteV ==
  /\ pc = "magic"
  /\ magic' = TRUE /\ Restart(timeout)
  /\ pc' = "close"
  /\ UNCHANGED <<interval, active, timeout, fd, resets>>

\* close, or the end of the process on an error path.
Close ==
  /\ pc \in {"close", "ended"}
  /\ fd' = "closed"
  /\ active' = (active /\ ~ (fd = "open" /\ magic))
  /\ pc' = "exit"
  /\ UNCHANGED <<interval, timeout, left, magic, idle, resets>>

\* The program is started again.
Again ==
  /\ pc = "exit" /\ pc' = "options"
  /\ UNCHANGED <<interval, device, fd, idle, resets>>

\* The device: time passes, and the board is reset when none is left.
Tick ==
  /\ active /\ left > 0
  /\ left' = left - 1 /\ idle' = idle + 1
  /\ UNCHANGED <<pc, interval, active, timeout, magic, fd, resets>>

Reset ==
  /\ active /\ left = 0 /\ resets < Resets
  /\ pc' = "options" /\ interval' = 0
  /\ active' = FALSE /\ timeout' = Default /\ left' = 0 /\ magic' = FALSE
  /\ fd' = "closed" /\ idle' = 0 /\ resets' = resets + 1

\* Nothing runs any more once the timer has run out.
Expired == active /\ left = 0

Program ==
  /\ ~ Expired
  /\ \/ Options \/ Open \/ SetTimeout \/ GetTimeout \/ GetBootStatus
     \/ Kick \/ Quit \/ WriteV \/ Close \/ Again

Next == Program \/ Tick \/ Reset

Spec == Init /\ [][Next]_vars
-----------------------------------------------------------------------------
\* The board is reset only after a whole timeout without a kick, a new start
\* of the program or a change of the timeout (lines 121-148).
ResetOnlyStarved == [][resets' # resets => idle >= timeout]_vars

\* A program that the user has left with x does not leave the watchdog running
\* behind (lines 150-156).
GoodbyeStops == [][(pc = "close" /\ pc' = "exit") => ~ active']_vars

\* "Closing the watchdog device will deactivate the watchdog." (line 155)
ClosedIsInactive == fd = "closed" => ~ active
=============================================================================
