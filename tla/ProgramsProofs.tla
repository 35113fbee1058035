--------------------------- MODULE ProgramsProofs ---------------------------
(***************************************************************************)
(* The programs of TargetPrograms, and what runs beside the watchdog, for   *)
(* every value of their constants.                                          *)
(***************************************************************************)
EXTENDS Board, TargetPrograms, TLAPS

-----------------------------------------------------------------------------
(* The programs of TargetPrograms share nothing: a step of the session is a  *)
(* step of one program or leaves that program alone, so each is proved by an *)
(* invariant of its own.                                                     *)

\* A step of the session is, for each program, one of its own or none.
LEMMA Separate ==
  ASSUME [TargetNext]_<<prog, targets>>
  PROVE  [Monitor!Next]_monvars /\ [Adc!Next]_adcvars /\ [Mem!Next]_memvars
BY DEF TargetNext, Only, targets
-----------------------------------------------------------------------------
(* latency/latency.c.                                                       *)

\* Quotient and remainder.
LEMMA DivMod ==
  ASSUME NEW m \in Nat \ {0}, NEW y \in Int
  PROVE  y = m * (y \div m) + (y % m) /\ y % m \in 0..(m - 1) /\ y \div m \in Int
OBVIOUS

\* The remainder is determined.
LEMMA Remainder ==
  ASSUME NEW m \in Nat \ {0}, NEW p \in Int, NEW u \in Int, NEW r \in 0..(m - 1),
         NEW s \in 0..(m - 1), m * p + r = m * u + s
  PROVE  r = s
<1>1. m * (p - u) = s - r
  OBVIOUS
<1>2. CASE p - u >= 1
  <2>1. m * (p - u) >= m
    BY <1>2
  <2> QED
    BY <1>1, <2>1
<1>3. CASE p - u <= -1
  <2>1. m * (p - u) <= -m
    BY <1>3
  <2> QED
    BY <1>1, <2>1
<1>4. CASE p = u
  BY <1>4
<1> QED
  BY <1>2, <1>3, <1>4

\* A multiple of the modulus does not change the remainder.
LEMMA ModShift ==
  ASSUME NEW m \in Nat \ {0}, NEW y \in Int, NEW e \in Int PROVE (y + m * e) % m = y % m
<1> DEFINE z == y + m * e
           p == z \div m
           r == z % m
           u == (y \div m) + e
           s == y % m
<1>1. z \in Int
  OBVIOUS
<1>2. z = m * p + r /\ r \in 0..(m - 1) /\ p \in Int
  BY <1>1, DivMod, Zenon
<1>3. z = m * u + s /\ s \in 0..(m - 1) /\ u \in Int
  BY DivMod
<1> HIDE DEF z, p, r, u, s
<1>4. r = s
  BY <1>2, <1>3, Remainder, Zenon
<1> QED
  BY <1>4 DEF r, s, z

\* The difference of two remainders is that of the numbers.
LEMMA ModDifference ==
  ASSUME NEW m \in Nat \ {0}, NEW c \in Nat, NEW d \in Nat
  PROVE  ((c % m) - (d % m)) % m = (c - d) % m
<1> DEFINE y == (c % m) - (d % m)
           e == (c \div m) - (d \div m)
<1>1. y \in Int /\ e \in Int
  BY DivMod
<1>2. c - d = y + m * e
  BY DivMod
<1> HIDE DEF y, e
<1>3. (y + m * e) % m = y % m
  BY <1>1, ModShift, Zenon
<1> QED
  BY <1>2, <1>3 DEF y

\* What is kept of the readings: at the output both are atoi of a counter, the
\* older one that of the reading before.
MonitorReadings ==
  /\ mon \in {"usage", "id", "open", "gets", "print", "sleep", "said", "exit"}
  /\ count \in Nat /\ last \in 0..count /\ grown \in Nat
  /\ fresh \in Int /\ oran \in Int
  /\ mon = "usage" => last = 0 /\ oran = 0
  /\ mon \in {"id", "open", "gets", "sleep"} => oran = Monitor!atoi(last)
  /\ mon = "print" => /\ fresh = Monitor!atoi(last) /\ grown <= last
                      /\ oran = Monitor!atoi(last - grown)
  /\ Monitor!DifferencesTrue

\* One file is lost with every reading.
MonitorFiles ==
  /\ files \in Nat /\ rounds \in Nat
  /\ mon \in {"usage", "id", "open"} => files = rounds /\ files <= MaxFiles
  /\ mon \in {"gets", "print"} => files = rounds + 1 /\ files <= MaxFiles
  /\ mon = "sleep" => files = rounds - 1 /\ files < MaxFiles
  /\ mon = "said" /\ alive => files = MaxFiles /\ rounds = MaxFiles
  /\ mon # "exit" => said = "nothing"
  /\ Monitor!ExitedOrOutOfFiles

\* Where atoi wraps it is the remainder.
LEMMA AtoiWraps ==
  ASSUME IntMax \in Nat, wraps, NEW c \in Nat PROVE Monitor!atoi(c) = c % (2 * (IntMax + 1))
<1>1. CASE c <= IntMax
  <2> DEFINE m == 2 * (IntMax + 1)
  <2>1. m \in Nat /\ c < m
    BY <1>1
  <2> HIDE DEF m
  <2>2. c % m = c
    BY <2>1
  <2> QED
    BY <1>1, <2>2 DEF Monitor!atoi, m
<1>2. CASE ~(c <= IntMax)
  BY <1>2 DEF Monitor!atoi
<1> QED
  BY <1>1, <1>2

\* What get_stats reads is a number.
LEMMA AtoiInt == ASSUME IntMax \in Nat, NEW c \in Nat PROVE Monitor!atoi(c) \in Int
<1> DEFINE m == 2 * (IntMax + 1)
<1>1. m \in Nat \ {0}
  OBVIOUS
<1> HIDE DEF m
<1>2. c % m \in Int
  BY <1>1, DivMod
<1> QED
  BY <1>2 DEF Monitor!atoi, m

\* The difference that is printed is that of the counter.
LEMMA ShownTrue ==
  ASSUME IntMax \in Nat, NEW c \in Nat, NEW d \in Nat, d <= c, wraps \/ c <= IntMax
  PROVE  (Monitor!atoi(c) - Monitor!atoi(d)) % (2 * (IntMax + 1)) = (c - d) % (2 * (IntMax + 1))
<1> DEFINE m == 2 * (IntMax + 1)
<1>1. m \in Nat \ {0}
  OBVIOUS
<1>2. CASE wraps
  <2>1. Monitor!atoi(c) = c % m /\ Monitor!atoi(d) = d % m
    BY <1>2, AtoiWraps
  <2> HIDE DEF m
  <2>2. ((c % m) - (d % m)) % m = (c - d) % m
    BY <1>1, ModDifference, Zenon
  <2> QED
    BY <2>1, <2>2 DEF m
<1>3. CASE c <= IntMax
  BY <1>3 DEF Monitor!atoi
<1> QED
  BY <1>2, <1>3

\* The readings of every step.
LEMMA MonitorReadingsStep ==
  ASSUME IntMax \in Nat, MonitorReadings, [Monitor!Next]_monvars PROVE MonitorReadings'
<1> USE DEF MonitorReadings, Monitor!DifferencesTrue
<1>1. CASE Monitor!Runs \/ Monitor!Dies
  BY <1>1 DEF Monitor!Runs, Monitor!Dies, Monitor!atoi
<1>2. CASE Monitor!Options
  BY <1>2 DEF Monitor!Options, Monitor!atoi
<1>3. CASE Monitor!get_id \/ Monitor!Open \/ Monitor!Reopen \/ Monitor!Say
  BY <1>3 DEF Monitor!get_id, Monitor!Open, Monitor!Reopen, Monitor!Say, Monitor!atoi
<1>4. CASE Monitor!get_stats
  <2>1. Monitor!atoi(count) \in Int /\ UNCHANGED wraps
    BY <1>4, AtoiInt DEF Monitor!get_stats
  <2>2. CASE ~alive
    BY <1>4, <2>2 DEF Monitor!get_stats
  <2>3. CASE alive
    <3>1. /\ mon = "gets" /\ mon' = "print" /\ fresh' = Monitor!atoi(count)
          /\ grown' = count - last /\ last' = count /\ UNCHANGED <<count, wraps, oran>>
      BY <1>4, <2>3 DEF Monitor!get_stats
    <3>2. fresh' = Monitor!atoi(last)' /\ oran' = Monitor!atoi(last - grown)'
      BY <3>1 DEF Monitor!atoi
    <3> QED
      BY <2>1, <3>1, <3>2
  <2> QED
    BY <2>2, <2>3
<1>5. CASE Monitor!Show
  <2>1. /\ mon = "print" /\ mon' = "sleep" /\ shown' = (fresh - oran) % (2 * (IntMax + 1))
        /\ oran' = fresh /\ UNCHANGED <<count, wraps, fresh, last, grown>>
    BY <1>5 DEF Monitor!Show, Monitor!Output
  <2>2. fresh = Monitor!atoi(last) /\ grown <= last /\ oran = Monitor!atoi(last - grown)
    BY <2>1
  <2>3. /\ last \in Nat /\ last - grown \in Nat
        /\ last - grown <= last /\ last - (last - grown) = grown
    BY <2>2
  <2>4. wraps \/ last <= IntMax => shown' = grown % (2 * (IntMax + 1))
    BY <2>1, <2>2, <2>3, ShownTrue
  <2>5. oran' = Monitor!atoi(last)'
    BY <2>1, <2>2 DEF Monitor!atoi
  <2> QED
    BY <2>1, <2>4, <2>5
<1>6. CASE UNCHANGED monvars
  BY <1>6 DEF monvars, Monitor!atoi
<1> QED
  BY <1>1, <1>2, <1>3, <1>4, <1>5, <1>6, Zenon DEF Monitor!Next

\* The files of every step.
LEMMA MonitorFilesStep ==
  ASSUME MaxFiles \in Nat, MonitorFiles, [Monitor!Next]_monvars PROVE MonitorFiles'
<1> USE DEF MonitorFiles, Monitor!ExitedOrOutOfFiles, Monitor!fopen
<1>1. CASE Monitor!Runs \/ Monitor!Dies
  BY <1>1 DEF Monitor!Runs, Monitor!Dies
<1>2. CASE Monitor!Options
  BY <1>2 DEF Monitor!Options
<1>3. CASE Monitor!get_id \/ Monitor!Open
  BY <1>3 DEF Monitor!get_id, Monitor!Open
<1>4. CASE Monitor!get_stats
  BY <1>4 DEF Monitor!get_stats
<1>5. CASE Monitor!Show
  BY <1>5 DEF Monitor!Show, Monitor!Output
<1>6. CASE Monitor!Reopen \/ Monitor!Say
  BY <1>6 DEF Monitor!Reopen, Monitor!Say
<1>7. CASE UNCHANGED monvars
  BY <1>7 DEF monvars
<1> QED
  BY <1>1, <1>2, <1>3, <1>4, <1>5, <1>6, <1>7, Zenon DEF Monitor!Next

\* latency.c prints the differences of the process's counter since the reading
\* before, for every width of an int that holds them (lines 51-65 and 137-153).
THEOREM DifferencesTrueThm == ASSUME IntMax \in Nat PROVE TargetSpec => []DifferencesTrue
<1>1. TargetInit => MonitorReadings
  <2> SUFFICES ASSUME TargetInit PROVE MonitorReadings
    OBVIOUS
  <2>1. mon = "usage" /\ count = 0 /\ last = 0 /\ grown = 0 /\ fresh = 0 /\ oran = 0
    BY DEF TargetInit, Monitor!Init
  <2>2. Monitor!DifferencesTrue
    BY <2>1, Zenon DEF Monitor!DifferencesTrue
  <2> QED
    BY <2>1, <2>2 DEF MonitorReadings
<1>2. MonitorReadings /\ [TargetNext]_<<prog, targets>> => MonitorReadings'
  BY MonitorReadingsStep, Separate
<1>3. MonitorReadings => DifferencesTrue
  BY DEF MonitorReadings, DifferencesTrue
<1> QED
  BY <1>1, <1>2, <1>3, PTL DEF TargetSpec

\* latency.c says that a running process has exited only when it has as many
\* files open as it may, each forgotten by one reading.
THEOREM ExitedOrOutOfFilesThm == ASSUME MaxFiles \in Nat PROVE TargetSpec => []ExitedOrOutOfFiles
<1>1. TargetInit => MonitorFiles
  BY DEF TargetInit, Monitor!Init, MonitorFiles, Monitor!ExitedOrOutOfFiles
<1>2. MonitorFiles /\ [TargetNext]_<<prog, targets>> => MonitorFiles'
  BY MonitorFilesStep, Separate
<1>3. MonitorFiles => ExitedOrOutOfFiles
  BY DEF MonitorFiles, ExitedOrOutOfFiles
<1> QED
  BY <1>1, <1>2, <1>3, PTL DEF TargetSpec
-----------------------------------------------------------------------------
(* spi_read_adc.                                                            *)

\* The channel and the voltage that are taken out of a word are those put in.
LEMMA WordTaken ==
  ASSUME NEW ch \in {0, 1}, NEW v \in Nat, v < 4096
  PROVE  /\ Adc!Word(ch, v) \in Nat
         /\ Adc!Channel(Adc!Word(ch, v)) = ch
         /\ Adc!LTC2422_voltage(Adc!Word(ch, v)) = v
<1>1. CASE ch = 0
  <2>1. Adc!Word(ch, v) = 8192 + v
    BY <1>1 DEF Adc!Word
  <2>2. (8192 + v) \div 16384 = 0 /\ (8192 + v) \div 8192 = 1 /\ (8192 + v) % 4096 = v
    OBVIOUS
  <2> QED
    BY <1>1, <2>1, <2>2 DEF Adc!Channel, Adc!LTC2422_voltage, Adc!Sign
<1>2. CASE ch = 1
  <2>1. Adc!Word(ch, v) = 24576 + v
    BY <1>2 DEF Adc!Word
  <2>2. (24576 + v) \div 16384 = 1 /\ (24576 + v) \div 8192 = 3 /\ (24576 + v) % 4096 = v
    OBVIOUS
  <2> QED
    BY <1>2, <2>1, <2>2 DEF Adc!Channel, Adc!LTC2422_voltage, Adc!Sign
<1> QED
  BY <1>1, <1>2

\* What the two places of the array hold after the reads that did not fail.
AdcInv ==
  /\ adc \in {"start", "first", "second", "third", "report", "again", "exit", "usage"}
  /\ channel \in {0, 1} /\ conversion \in 0..MaxReads /\ first \in 0..conversion
  /\ adc_code_array \in [1..2 -> Int] /\ adc_code \in Int /\ adc_channel \in 0..2
  /\ adc \in {"start", "first"} => failed = {} /\ ~beside
  /\ adc = "second" => failed \subseteq {1} /\ ~beside /\ (adc_channel = 2 => 1 \in failed)
  /\ adc = "third" => failed \subseteq {1, 2} /\ (adc_channel = 2 => {1, 2} \subseteq failed)
  /\ adc = "third" /\ 2 \notin failed =>
       /\ adc_code_array[2 - channel] = Adc!Word(1 - channel, conversion)
       /\ conversion > first
  /\ adc \in {"third", "report", "again", "exit"} => (beside => {1, 2} \subseteq failed)
  /\ adc = "report" => (code = 0 <=> 3 \notin failed)
  /\ adc = "report" /\ 3 \notin failed =>
       /\ adc_code_array[2 - channel] = Adc!Word(1 - channel, conversion)
       /\ 2 \notin failed =>
            /\ adc_code_array[1 + channel] = Adc!Word(channel, conversion - 1)
            /\ conversion - 1 > first
  /\ Adc!ReportedVoltages

\* What a read that answers returns, and what one that fails leaves.
LEMMA AdcRead ==
  ASSUME MaxReads \in Nat, MaxReads < 4096, AdcInv, NEW where, Adc!LTC2422_read(where)
  PROVE  /\ channel' \in {0, 1} /\ conversion' \in conversion..MaxReads
         /\ adc_code' \in Int /\ adc_channel' \in 0..2
         /\ \/ /\ code' = 0 /\ failed' = failed
               /\ channel' = 1 - channel /\ conversion' = conversion + 1
               /\ adc_channel' = channel /\ adc_code' = Adc!Word(channel, conversion + 1)
            \/ /\ code' = 1 /\ failed' = failed \union {where}
               /\ adc_channel' = adc_channel /\ adc_code' = adc_code
<1> USE DEF AdcInv
<1>1. CASE Adc!Answers
  <2>1. channel \in {0, 1} /\ conversion + 1 < 4096 /\ conversion + 1 \in conversion..MaxReads
    BY DEF Adc!LTC2422_read
  <2>2. /\ Adc!Word(channel, conversion + 1) \in Nat
        /\ Adc!Channel(Adc!Word(channel, conversion + 1)) = channel
    BY <2>1, WordTaken
  <2> QED
    BY <1>1, <2>1, <2>2 DEF Adc!Answers
<1>2. CASE Adc!Fails(where) /\ code' = 1
  BY <1>2 DEF Adc!Fails, Adc!LTC2422_read
<1> QED
  BY <1>1, <1>2 DEF Adc!LTC2422_read

\* A code is stored outside the array only for a channel that there is not.
LEMMA StoredBeside ==
  ASSUME NEW ch, Adc!Store(ch) PROVE beside' => beside \/ ch \notin {0, 1}
BY Zenon DEF Adc!Store

\* The three reads, the report and the next call keep the invariant.
LEMMA AdcStep ==
  ASSUME MaxReads \in Nat, MaxReads < 4096, AdcInv, [Adc!Next]_adcvars PROVE AdcInv'
<1> USE DEF Adc!ReportedVoltages
<1>1. CASE Adc!parse_opts
  <2>1. /\ adc = "start" /\ adc' \in {"first", "usage"}
        /\ channel' \in {0, 1} /\ adc_channel' \in 0..2
        /\ UNCHANGED <<conversion, adc_code, adc_code_array, beside, failed, first>>
    BY <1>1 DEF Adc!parse_opts, Adc!JunkChannels
  <2>2. Adc!ReportedVoltages'
    BY <2>1
  <2> HIDE DEF Adc!ReportedVoltages
  <2>3. failed' = {} /\ ~beside'
    BY <2>1 DEF AdcInv
  <2>4. /\ conversion' \in 0..MaxReads /\ first' \in 0..conversion' /\ adc_code' \in Int
        /\ adc_code_array' \in [1..2 -> Int]
    BY <2>1 DEF AdcInv
  <2>5. CASE adc' = "first"
    BY <2>1, <2>2, <2>3, <2>4, <2>5 DEF AdcInv
  <2>6. CASE adc' = "usage"
    BY <2>1, <2>2, <2>3, <2>4, <2>6 DEF AdcInv
  <2> QED
    BY <2>1, <2>5, <2>6
<1>2. CASE Adc!Read1
  BY <1>2, AdcRead DEF Adc!Read1, AdcInv
<1>3. CASE Adc!Read2
  <2>1. Adc!LTC2422_read(2)
    BY <1>3 DEF Adc!Read2
  <2>2. beside' => beside \/ adc_channel' \notin {0, 1}
    BY <1>3, StoredBeside DEF Adc!Read2
  <2>3. /\ adc = "second" /\ adc' = "third" /\ UNCHANGED first
        /\ adc_code_array' = IF adc_channel' \in {0, 1}
                             THEN [adc_code_array EXCEPT ![adc_channel' + 1] = adc_code']
                             ELSE adc_code_array
    BY <1>3 DEF Adc!Read2, Adc!Store
  <2> QED
    BY <2>1, <2>2, <2>3, AdcRead DEF AdcInv
<1>4. CASE Adc!Read3
  <2>1. Adc!LTC2422_read(3)
    BY <1>4 DEF Adc!Read3
  <2>2. beside' => beside \/ adc_channel' \notin {0, 1}
    BY <1>4, StoredBeside DEF Adc!Read3
  <2>3. /\ adc = "third" /\ adc' = "report" /\ UNCHANGED first
        /\ adc_code_array' = IF adc_channel' \in {0, 1}
                             THEN [adc_code_array EXCEPT ![adc_channel' + 1] = adc_code']
                             ELSE adc_code_array
    BY <1>4 DEF Adc!Read3, Adc!Store
  <2> QED
    BY <2>1, <2>2, <2>3, AdcRead DEF AdcInv
<1>5. CASE Adc!spi_read_adc
  BY <1>5, WordTaken DEF Adc!spi_read_adc, AdcInv
<1>6. CASE Adc!Again
  BY <1>6 DEF Adc!Again, Adc!Junk, Adc!JunkChannels, AdcInv
<1>7. CASE UNCHANGED adcvars
  BY <1>7 DEF adcvars, AdcInv
<1> QED
  BY <1>1, <1>2, <1>3, <1>4, <1>5, <1>6, <1>7 DEF Adc!Next

\* The voltages spi_read_adc reports, for every number of conversions that the
\* twelve bits of the magnitude can tell apart.
THEOREM ReportedVoltagesThm ==
  ASSUME MaxReads \in Nat, MaxReads < 4096 PROVE TargetSpec => []ReportedVoltages
<1>1. TargetInit => AdcInv
  BY DEF TargetInit, Adc!Init, Adc!Junk, AdcInv, Adc!ReportedVoltages
<1>2. AdcInv /\ [TargetNext]_<<prog, targets>> => AdcInv'
  BY AdcStep, Separate
<1>3. AdcInv => ReportedVoltages
  BY DEF AdcInv, ReportedVoltages
<1> QED
  BY <1>1, <1>2, <1>3, PTL DEF TargetSpec
-----------------------------------------------------------------------------
(* memtool.c.                                                               *)

\* An argument: a size, a number (an address or a count) or an '=' with what
\* follows it.
Argument == [kind : {"size"}, num : {1, 2, 4}, after : Int]
            \union [kind : {"num"}, num : Nat, after : Int]
            \union [kind : {"eq"}, num : Int, after : Int]

\* The command lines that main can make sense of: an optional size, and an
\* address first of what is left.
Line == {l \in Seq(Argument) :
           /\ Len(l) > 0 /\ l[1].kind # "size" => l[1].kind = "num"
           /\ Len(l) > 1 /\ l[1].kind = "size" => l[2].kind = "num"}

\* What parse_cmdline makes of them.
Fields == [size : {1, 2, 4}, paddr : Nat, write : BOOLEAN, value : Int, count : Nat]
Command == {c \in Fields : c.write => c.count = 1}

\* Rounding down (lines 163-167).
LEMMA AlignDown ==
  ASSUME NEW x \in Nat, NEW s \in {1, 2, 4, 4096}
  PROVE  Mem!Align(x, s) \in Nat /\ Mem!Align(x, s) <= x /\ x < Mem!Align(x, s) + s
<1>1. x % s \in 0..(s - 1) /\ x % s <= x
  BY DEF Mem!Align
<1> QED
  BY <1>1 DEF Mem!Align

\* The window begins at or before the address and ends behind the last byte.
LEMMA WindowHolds ==
  ASSUME U32 \in Nat, NEW p \in Nat, NEW b \in Nat, b + 2 * Mem!Page <= U32
  PROVE  /\ Mem!aligned_paddr(p) \in Nat /\ Mem!aligned_size(p, b) \in Nat
         /\ Mem!aligned_paddr(p) <= p
         /\ p + b <= Mem!aligned_paddr(p) + Mem!aligned_size(p, b)
<1> DEFINE w == Mem!aligned_paddr(p)
           sum == (p - w) + b + Mem!Page - 1
<1>1. w \in Nat /\ w <= p /\ p < w + 4096
  BY AlignDown DEF Mem!aligned_paddr, Mem!Page
<1>2. sum \in Nat /\ sum < U32
  BY <1>1 DEF Mem!Page
<1> HIDE DEF sum
<1>3. sum % U32 = sum
  BY <1>2
<1>4. Mem!aligned_size(p, b) = Mem!Align(sum, 4096)
  BY <1>3 DEF Mem!aligned_size, Mem!Page, sum
<1>5. Mem!Align(sum, 4096) \in Nat /\ sum < Mem!Align(sum, 4096) + 4096
  BY <1>2, AlignDown, SMTT(60)
<1> QED
  BY <1>1, <1>4, <1>5 DEF sum, Mem!Page
-----------------------------------------------------------------------------
\* The arguments after the address: a write has one value, a read a count.
LEMMA RestCommand ==
  ASSUME NEW c \in Command, c.count = 1, NEW args \in Seq(Argument)
  PROVE  Mem!Rest(c, args) = Mem!Usage \/ Mem!Rest(c, args) \in Command
<1>1. CASE args = <<>>
  BY <1>1 DEF Mem!Rest
<1>2. CASE args # <<>>
  <2>1. args[1] \in Argument /\ args[1].num \in Int /\ (args[1].kind # "eq" => args[1].num >= 0)
    BY <1>2 DEF Argument
  <2>2. Len(args) >= 2 => args[2] \in Argument /\ args[2].num \in Int
    BY DEF Argument
  <2>a. c \in Fields
    BY DEF Command
  <2>b. \A v \in Int : [c EXCEPT !.write = TRUE, !.value = v] \in Command
    <3> TAKE v \in Int
    <3>1. [c EXCEPT !.write = TRUE, !.value = v] \in Fields
      BY <2>a DEF Fields
    <3>2. [c EXCEPT !.write = TRUE, !.value = v].count = 1
      BY <2>a DEF Fields
    <3> QED
      BY <3>1, <3>2 DEF Command
  <2>c. \A v \in Int : [c EXCEPT !.value = v] \in Command
    <3> TAKE v \in Int
    <3>1. [c EXCEPT !.value = v] \in Fields /\ [c EXCEPT !.value = v].count = 1
      BY <2>a DEF Fields
    <3> QED
      BY <3>1 DEF Command
  <2>d. \A v \in Nat : ~c.write => [c EXCEPT !.count = v] \in Command
    <3> TAKE v \in Nat
    <3>1. [c EXCEPT !.count = v] \in Fields /\ [c EXCEPT !.count = v].write = c.write
      BY <2>a DEF Fields
    <3> QED
      BY <3>1 DEF Command
  <2>e. CASE args[1].kind = "eq"
    <3>1. CASE args[1].num # Mem!None
      BY <1>2, <2>1, <2>b, <2>e, <3>1 DEF Mem!Rest
    <3>2. CASE args[1].num = Mem!None /\ Len(args) < 2
      BY <1>2, <2>e, <3>2 DEF Mem!Rest
    <3>3. CASE args[1].num = Mem!None /\ ~(Len(args) < 2)
      <4>1. args[2].num \in Int
        BY <2>2, <3>3
      <4>2. Mem!Rest(c, args) = [c EXCEPT !.write = TRUE, !.value = args[2].num]
        BY <1>2, <2>e, <3>3 DEF Mem!Rest
      <4> QED
        BY <2>b, <4>1, <4>2
    <3> QED
      BY <3>1, <3>2, <3>3
  <2>f. CASE args[1].kind # "eq" /\ c.write
    BY <1>2, <2>1, <2>c, <2>f DEF Mem!Rest
  <2>g. CASE args[1].kind # "eq" /\ ~c.write
    BY <1>2, <2>1, <2>d, <2>g DEF Mem!Rest
  <2> QED
    BY <2>e, <2>f, <2>g
<1> QED
  BY <1>1, <1>2

\* What main works with is a command or the usage.
LEMMA ParseCommand ==
  ASSUME NEW argv \in Line
  PROVE  Mem!parse_cmdline(argv) = Mem!Usage \/ Mem!parse_cmdline(argv) \in Command
<1> DEFINE sized == argv # <<>> /\ argv[1].kind = "size"
           args == IF sized THEN Tail(argv) ELSE argv
           size == IF sized THEN argv[1].num ELSE 4
           c == [size |-> size, paddr |-> args[1].num, write |-> args[1].after # Mem!NoEq,
                 value |-> 0, count |-> 1]
<1>1. argv \in Seq(Argument)
  BY DEF Line
<1>2. size \in {1, 2, 4}
  BY <1>1 DEF Argument
<1>3. args \in Seq(Argument)
  BY <1>1
<1>4. CASE args = <<>>
  BY <1>4 DEF Mem!parse_cmdline
<1>5. CASE args # <<>>
  <2>1. args[1] \in Argument /\ args[1].kind = "num" /\ Tail(args) \in Seq(Argument)
    BY <1>1, <1>3, <1>5 DEF Line
  <2>2. args[1].num \in Nat /\ args[1].after \in Int
    BY <2>1 DEF Argument
  <2>3. c \in Command /\ c.count = 1
    <3> DEFINE p == args[1].num
               w == args[1].after # Mem!NoEq
               z == size
    <3>1. w \in BOOLEAN /\ p \in Nat /\ z \in {1, 2, 4}
      BY <1>2, <2>2
    <3>2. c = [size |-> z, paddr |-> p, write |-> w, value |-> 0, count |-> 1]
      OBVIOUS
    <3> HIDE DEF p, w, z, c
    <3>3. c \in Fields /\ c.count = 1
      BY <3>1, <3>2 DEF Fields
    <3> QED
      BY <3>3 DEF Command
  <2>4. [c EXCEPT !.value = args[1].after] \in Command
    <3> HIDE DEF c
    <3>1. c \in Fields
      BY <2>3 DEF Command
    <3>2. /\ [c EXCEPT !.value = args[1].after] \in Fields
          /\ [c EXCEPT !.value = args[1].after].count = 1
      BY <2>2, <2>3, <3>1 DEF Fields
    <3> QED
      BY <3>2 DEF Command
  <2> HIDE DEF c
  <2>5. Mem!Rest(c, Tail(args)) = Mem!Usage \/ Mem!Rest(c, Tail(args)) \in Command
    BY <2>1, <2>3, RestCommand
  <2> DEFINE d == [c EXCEPT !.value = args[1].after]
             r == Mem!Rest(c, Tail(args))
  <2>6. Mem!parse_cmdline(argv) \in {Mem!Usage, d, r}
    BY DEF Mem!parse_cmdline, c
  <2>7. d \in Command /\ (r = Mem!Usage \/ r \in Command)
    BY <2>4, <2>5
  <2> HIDE DEF d, r
  <2> QED
    BY <2>6, <2>7
<1> QED
  BY <1>4, <1>5
-----------------------------------------------------------------------------
\* The bytes that are mapped for the command.
Wanted ==
  <<Mem!aligned_paddr(cmd.paddr), Mem!aligned_size(cmd.paddr, (cmd.count * cmd.size) % U32)>>

MemInv ==
  /\ tool \in {"open", "map", "access"} => cmd \in Command
  /\ tool = "access" => window = Wanted \/ window = <<0, 0>>
  /\ tool # "exit" => ended = "none"
  /\ Mem!CrashOnlyUnmapped

\* A window of the wanted size holds what is accessed.
LEMMA AccessWithin ==
  ASSUME U32 \in Nat, cmd \in Command, cmd.size * cmd.count + 2 * Mem!Page <= U32, window = Wanted
  PROVE  Mem!Within(<<cmd.paddr, IF cmd.write THEN Mem!write_mem ELSE Mem!read_mem>>, window)
<1> DEFINE b == cmd.size * cmd.count
           m == IF cmd.write THEN Mem!write_mem ELSE Mem!read_mem
<1>1. cmd.size \in {1, 2, 4} /\ cmd.count \in Nat /\ cmd.paddr \in Nat
  BY DEF Command, Fields
<1>2. b \in Nat /\ cmd.count * cmd.size = b
  BY <1>1
<1>3. m = b
  <2>1. cmd.write => cmd.count = 1
    BY DEF Command
  <2> QED
    BY <1>1, <2>1 DEF Mem!write_mem, Mem!read_mem
<1> HIDE DEF b, m
<1>4. b % U32 = b /\ b + 2 * Mem!Page <= U32
  BY <1>2 DEF b, Mem!Page
<1>5. window[1] = Mem!aligned_paddr(cmd.paddr) /\ window[2] = Mem!aligned_size(cmd.paddr, b)
  BY <1>2, <1>4 DEF Wanted
<1>6. /\ Mem!aligned_paddr(cmd.paddr) <= cmd.paddr
      /\ cmd.paddr + b <= Mem!aligned_paddr(cmd.paddr) + Mem!aligned_size(cmd.paddr, b)
  BY <1>1, <1>2, <1>4, WindowHolds
<1>7. Mem!Within(<<cmd.paddr, m>>, window)
  BY <1>3, <1>5, <1>6 DEF Mem!Within
<1> QED
  BY <1>7 DEF m

\* main rounds the address down to a multiple of the size (memtool.c 163).
LEMMA AlignedCommand ==
  ASSUME NEW c \in Command PROVE [c EXCEPT !.paddr = Mem!Align(@, c.size)] \in Command
<1>1. c \in Fields /\ c.paddr \in Nat /\ c.size \in {1, 2, 4}
  BY DEF Command, Fields
<1> DEFINE p == c.paddr
<1>a. p \in Nat
  BY <1>1
<1> HIDE DEF p
<1>2. Mem!Align(p, 1) \in Nat /\ Mem!Align(p, 2) \in Nat /\ Mem!Align(p, 4) \in Nat
  BY <1>a, AlignDown, SMTT(60)
<1>3. Mem!Align(c.paddr, c.size) \in Nat
  BY <1>1, <1>2 DEF p
<1>4. /\ [c EXCEPT !.paddr = Mem!Align(@, c.size)] \in Fields
      /\ [c EXCEPT !.paddr = Mem!Align(@, c.size)].write = c.write
      /\ [c EXCEPT !.paddr = Mem!Align(@, c.size)].count = c.count
  BY <1>1, <1>3 DEF Fields
<1> QED
  BY <1>4 DEF Command

\* Every step keeps the invariant.
LEMMA MemStep ==
  ASSUME U32 \in Nat, CommandLine \subseteq Line, MemInv, [Mem!Next]_memvars PROVE MemInv'
<1> USE DEF MemInv, Mem!CrashOnlyUnmapped
<1>1. CASE Mem!main
  <2>1. PICK argv \in CommandLine :
          LET c == Mem!parse_cmdline(argv)
          IN IF c = Mem!Usage THEN tool' = "exit" /\ ended' = "usage" /\ UNCHANGED cmd
             ELSE /\ tool' = "open" /\ cmd' = [c EXCEPT !.paddr = Mem!Align(@, c.size)]
                  /\ UNCHANGED ended
    BY <1>1 DEF Mem!main
  <2> DEFINE c == Mem!parse_cmdline(argv)
  <2>2. c = Mem!Usage \/ c \in Command
    BY ParseCommand
  <2> HIDE DEF c
  <2>3. ASSUME c \in Command PROVE [c EXCEPT !.paddr = Mem!Align(@, c.size)] \in Command
    BY <2>3, AlignedCommand
  <2>4. CASE c = Mem!Usage
    BY <2>1, <2>4 DEF c
  <2>5. CASE c # Mem!Usage
    BY <1>1, <2>1, <2>2, <2>3, <2>5 DEF c, Mem!main
  <2> QED
    BY <2>4, <2>5
<1>2. CASE Mem!open
  BY <1>2 DEF Mem!open
<1>3. CASE Mem!mmap
  BY <1>3 DEF Mem!mmap, Wanted
<1>4. CASE Mem!access
  <2>1. cmd \in Command /\ (window = Wanted \/ window = <<0, 0>>)
    BY <1>4 DEF Mem!access
  <2>2. tool' = "exit" /\ UNCHANGED <<cmd, window>>
    BY <1>4 DEF Mem!access
  <2>3. CASE window = <<0, 0>>
    BY <2>2, <2>3
  <2>4. CASE window = Wanted /\ ~(cmd.size * cmd.count + 2 * Mem!Page > U32)
    <3>1. cmd.size \in {1, 2, 4} /\ cmd.count \in Nat
      BY <2>1 DEF Command, Fields
    <3>2. cmd.size * cmd.count + 2 * Mem!Page <= U32
      BY <2>4, <3>1 DEF Mem!Page
    <3>a. Mem!Within(<<cmd.paddr, IF cmd.write THEN Mem!write_mem ELSE Mem!read_mem>>, window)
      BY <2>1, <2>4, <3>2, AccessWithin
    <3>b. /\ touched' = <<cmd.paddr, IF cmd.write THEN Mem!write_mem ELSE Mem!read_mem>>
          /\ ended' = IF Mem!Within(touched', window) THEN "ok" ELSE "crash"
      BY <1>4 DEF Mem!access
    <3>3. ended' = "ok"
      BY <3>a, <3>b
    <3> QED
      BY <2>2, <3>3
  <2>5. CASE cmd.size * cmd.count + 2 * Mem!Page > U32
    BY <2>2, <2>5
  <2> QED
    BY <2>1, <2>3, <2>4, <2>5
<1>5. CASE UNCHANGED memvars
  BY <1>5 DEF memvars, Wanted
<1> QED
  BY <1>1, <1>2, <1>3, <1>4, <1>5 DEF Mem!Next

\* An access leaves the mapped window only if mmap failed or the size does not
\* fit its 32 bits, for every address, offset and count (memtool.c 163-190).
THEOREM CrashOnlyUnmappedThm ==
  ASSUME U32 \in Nat, CommandLine \subseteq Line PROVE TargetSpec => []CrashOnlyUnmapped
<1>1. TargetInit => MemInv
  BY DEF TargetInit, Mem!Init, MemInv, Mem!CrashOnlyUnmapped
<1>2. MemInv /\ [TargetNext]_<<prog, targets>> => MemInv'
  BY MemStep, Separate
<1>3. MemInv => CrashOnlyUnmapped
  BY DEF MemInv, CrashOnlyUnmapped
<1> QED
  BY <1>1, <1>2, <1>3, PTL DEF TargetSpec
-----------------------------------------------------------------------------
(* For every timeout, every interval and any number of runs and resets: what *)
(* PASS of the EEPROM test and exit code 0 of the flash test are worth on a  *)
(* board that the watchdog may reset, and when it does reset it.             *)

\* The watchdog: a running timer has counted all the ticks since it was
\* restarted, and the V is written when the program closes the device.
WInv ==
  /\ timeout \in Nat /\ left \in Nat /\ idle \in Nat /\ interval \in Nat
  /\ active => idle + left = timeout
  /\ pc \in {"settimeout", "gettimeout", "bootstatus", "loop", "magic", "close"} => fd = "open"
  /\ pc = "close" => magic

\* The EEPROM test: where the data it found are while it is at work.
EInv ==
  /\ eeVerdict \in {"none", "PASS", "FAIL", "reset"}
  /\ ee # "idle" => eeVerdict = "none"
  /\ misread => excuse
  /\ ee \in {"name", "save"} \/ (ee = "idle" /\ eeVerdict = "none") => eeprom = before
  /\ ee \in {"pattern", "write", "read", "compare"} => misread \/ saved = before
  /\ ee = "compare" => misread \/ readback = eeprom
  /\ excuse \/ before = 0
  /\ PassRestores
  /\ OldDataSomewhere

\* The flash test: what the file to be compared with may be.
QInv ==
  /\ qpc # "idle" => qExit = -1
  /\ qpc = "read" => out = "missing" \/ notRemoved
  /\ qpc = "diff" /\ out = "data" => flash = "data" \/ (notRead /\ notRemoved)
  /\ ZeroIsOnFlash

BInv == WInv /\ EInv /\ QInv
-----------------------------------------------------------------------------
\* The device and the program start stopped.
LEMMA WatchdogInit == Init => WInv
BY WatchdogAssumption DEF Init, WInv

\* A step of watchdog-test keeps WInv.
LEMMA WatchdogProgram == WInv /\ Program => WInv'
<1> SUFFICES ASSUME WInv, Program PROVE WInv'
  OBVIOUS
<1> USE WatchdogAssumption DEF WInv, device
<1>1. CASE Options
  BY <1>1 DEF Options
<1>2. CASE Open
  BY <1>2 DEF Open, Restart
<1>3. CASE SetTimeout
  BY <1>3 DEF SetTimeout, Restart
<1>4. CASE GetTimeout \/ GetBootStatus \/ Quit \/ Again
  BY <1>4 DEF GetTimeout, GetBootStatus, Quit, Again
<1>5. CASE Kick \/ WriteV
  BY <1>5 DEF Kick, WriteV, Restart
<1>6. CASE Close
  BY <1>6 DEF Close
<1> QED
  BY <1>1, <1>2, <1>3, <1>4, <1>5, <1>6 DEF Program

\* Time and a reset keep WInv.
LEMMA WatchdogDevice == WInv /\ (Tick \/ Reset) => WInv'
BY WatchdogAssumption DEF WInv, Tick, Reset
-----------------------------------------------------------------------------
\* Before its first run the EEPROM holds the old data.
LEMMA EepromInit == Eeprom!Init => EInv
BY DEF Eeprom!Init, EInv, PassRestores, Eeprom!PassRestores, OldDataSomewhere,
       Eeprom!OldDataSomewhere

\* A step of eeprom-test.sh keeps EInv.
LEMMA EepromStep == EInv /\ Eeprom!Next => EInv'
<1> SUFFICES ASSUME EInv, Eeprom!Next PROVE EInv'
  OBVIOUS
<1> USE DEF EInv, PassRestores, Eeprom!PassRestores, OldDataSomewhere, Eeprom!OldDataSomewhere
<1>1. CASE Eeprom!Begin
  BY <1>1 DEF Eeprom!Begin
<1>2. CASE Eeprom!ReadName
  BY <1>2 DEF Eeprom!ReadName, Eeprom!Goto, Eeprom!Exit
<1>3. CASE Eeprom!Save
  BY <1>3 DEF Eeprom!Save, Eeprom!i2c_ee_read, Eeprom!Goto, Eeprom!Exit
<1>4. CASE Eeprom!Pattern
  BY <1>4 DEF Eeprom!Pattern, Eeprom!Goto
<1>5. CASE Eeprom!i2c_ee_write
  BY <1>5 DEF Eeprom!i2c_ee_write, Eeprom!Goto, Eeprom!Exit
<1>6. CASE Eeprom!ReadBack
  BY <1>6 DEF Eeprom!ReadBack, Eeprom!i2c_ee_read, Eeprom!Goto, Eeprom!Exit
<1>7. CASE Eeprom!Compare
  BY <1>7 DEF Eeprom!Compare, Eeprom!Data, Eeprom!Goto, Eeprom!Exit
<1> QED
  BY <1>1, <1>2, <1>3, <1>4, <1>5, <1>6, <1>7 DEF Eeprom!Next

\* A reset keeps EInv, whatever it cuts.
LEMMA EepromReboot == EInv /\ Eeprom!Reboot => EInv'
BY DEF EInv, Eeprom!Reboot, PassRestores, Eeprom!PassRestores, OldDataSomewhere,
       Eeprom!OldDataSomewhere
-----------------------------------------------------------------------------
\* The flash test has not run.
LEMMA QspiInit == Qspi!Init => QInv
BY DEF Qspi!Init, QInv, ZeroIsOnFlash, Qspi!ZeroIsOnFlash

\* A step of qspi-test.sh keeps QInv.
LEMMA QspiStep == QInv /\ Qspi!Next => QInv'
<1> SUFFICES ASSUME QInv, Qspi!Next PROVE QInv'
  OBVIOUS
<1> USE DEF QInv, ZeroIsOnFlash, Qspi!ZeroIsOnFlash, Qspi!Goto, Qspi!Exit
<1>1. CASE Qspi!Begin \/ Qspi!get_devkit_type
  BY <1>1 DEF Qspi!Begin, Qspi!get_devkit_type
<1>2. CASE Qspi!insmod("spi_nor", "cadence_quadspi") \/ Qspi!insmod("cadence_quadspi", "erase")
  BY <1>2 DEF Qspi!insmod
<1>3. CASE Qspi!flash_erase \/ Qspi!flashcp
  BY <1>3 DEF Qspi!flash_erase, Qspi!flashcp
<1>4. CASE Qspi!rm
  <2>1. /\ qpc' = "read" /\ qExit' = -1
        /\ out' = "missing" \/ notRemoved'
    BY <1>4, Zenon DEF Qspi!rm
  <2> QED
    BY <2>1
<1>5. CASE Qspi!Read
  BY <1>5 DEF Qspi!Read
<1>6. CASE Qspi!diff
  BY <1>6 DEF Qspi!diff
<1> QED
  BY <1>1, <1>2, <1>3, <1>4, <1>5, <1>6 DEF Qspi!Next

\* A reset keeps QInv: a flash that was reported good is not being written.
LEMMA QspiReboot == QInv /\ Qspi!Reboot => QInv'
BY DEF QInv, Qspi!Reboot, ZeroIsOnFlash, Qspi!ZeroIsOnFlash
-----------------------------------------------------------------------------
\* What stands still keeps its invariant.
LEMMA Still ==
  /\ WInv /\ UNCHANGED vars => WInv'
  /\ EInv /\ UNCHANGED eevars => EInv'
  /\ QInv /\ UNCHANGED qvars => QInv'
<1>1. WInv /\ UNCHANGED vars => WInv'
  BY DEF WInv, vars, device
<1>2. EInv /\ UNCHANGED eevars => EInv'
  BY DEF EInv, eevars, PassRestores, Eeprom!PassRestores, OldDataSomewhere,
         Eeprom!OldDataSomewhere
<1>3. QInv /\ UNCHANGED qvars => QInv'
  BY DEF QInv, qvars, ZeroIsOnFlash, Qspi!ZeroIsOnFlash
<1> QED
  BY <1>1, <1>2, <1>3

\* Every step of the board keeps the three invariants.
LEMMA BoardStep == BInv /\ [BoardNext]_boardvars => BInv'
<1> SUFFICES ASSUME BInv, [BoardNext]_boardvars PROVE BInv'
  OBVIOUS
<1> USE DEF BInv
<1>1. CASE Script
  BY <1>1, Still, EepromStep, QspiStep DEF Script
<1>2. CASE Reboot
  BY <1>2, WatchdogDevice, EepromReboot, QspiReboot DEF Reboot
<1>3. CASE (Program \/ Tick) /\ UNCHANGED <<job, eevars, qvars>>
  BY <1>3, Still, WatchdogProgram, WatchdogDevice
<1>4. CASE UNCHANGED boardvars
  BY <1>4, Still DEF boardvars
<1> QED
  BY <1>1, <1>2, <1>3, <1>4 DEF BoardNext

\* The invariant of the board.
LEMMA BoardInv == BoardSpec => []BInv
<1>1. BoardInit => BInv
  BY WatchdogInit, EepromInit, QspiInit DEF BoardInit, BInv
<1> QED
  BY <1>1, BoardStep, PTL DEF BoardSpec

\* A run of eeprom-test.sh that prints PASS has restored what it found, whenever
\* the board was reset and whatever failed before it (eeprom-test.sh 85-97).
THEOREM PassRestoresThm == BoardSpec => []PassRestores
<1>1. BInv => PassRestores
  BY DEF BInv, EInv
<1> QED
  BY <1>1, BoardInv, PTL

\* What the EEPROM held at first is there or in /tmp, unless a run misread it,
\* was begun after one that did not pass, or /tmp was lost (eeprom-test.sh 86).
THEOREM OldDataThm == BoardSpec => []OldDataSomewhere
<1>1. BInv => OldDataSomewhere
  BY DEF BInv, EInv
<1> QED
  BY <1>1, BoardInv, PTL

\* What exit code 0 of qspi-test.sh is worth (qspi-test.sh 34-78).
THEOREM ZeroIsOnFlashThm == BoardSpec => []ZeroIsOnFlash
<1>1. BInv => ZeroIsOnFlash
  BY DEF BInv, QInv
<1> QED
  BY <1>1, BoardInv, PTL

\* The board is reset only after a whole timeout without a kick
\* (watchdog-test.c 121-148).
THEOREM StarvedThm == BoardSpec => ResetOnlyStarved
<1>1. BInv /\ [BoardNext]_boardvars => [resets' # resets => idle >= timeout]_vars
  <2> SUFFICES ASSUME BInv, [BoardNext]_boardvars, resets' # resets PROVE idle >= timeout
    OBVIOUS
  <2>1. Reset
    BY DEF BoardNext, Script, Reboot, Program, Tick, boardvars, vars, Options, Open, SetTimeout,
           GetTimeout, GetBootStatus, Kick, Quit, WriteV, Close, Again
  <2> QED
    BY <2>1 DEF Reset, BInv, WInv
<1> QED
  BY <1>1, BoardInv, PTL DEF BoardSpec, ResetOnlyStarved

\* A program left with x does not leave the watchdog running behind
\* (watchdog-test.c 150-156).
THEOREM GoodbyeThm == BoardSpec => GoodbyeStops
<1>1. BInv /\ [BoardNext]_boardvars => [(pc = "close" /\ pc' = "exit") => ~active']_vars
  <2> SUFFICES ASSUME BInv, [BoardNext]_boardvars, pc = "close", pc' = "exit" PROVE ~active'
    OBVIOUS
  <2>1. Close
    BY DEF BoardNext, Script, Reboot, Reset, Program, Tick, boardvars, vars, Options, Open,
           SetTimeout, GetTimeout, GetBootStatus, Kick, Quit, WriteV, Again
  <2> QED
    BY <2>1 DEF Close, BInv, WInv
<1> QED
  BY <1>1, BoardInv, PTL DEF BoardSpec, GoodbyeStops
=============================================================================
