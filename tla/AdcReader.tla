----------------------------- MODULE AdcReader -----------------------------
(***************************************************************************)
(* spi_adc: spi_read_adc reads the LTC2422 three times and prints the       *)
(* voltages of its two channels.  The converter changes the channel with    *)
(* every transfer.  A word is the two bytes of a transfer, the upper 16 of  *)
(* the 24 bits: channel bit, sign bit, magnitude; the magnitude is here the *)
(* number of the conversion.                                                *)
(***************************************************************************)
EXTENDS Integers

CONSTANT MaxReads   \* bound on the conversions

VARIABLES
  adc,          \* "start", "first", "second", "third", "report", "again", "exit", "usage"
  continuous,   \* continuous_poll
  channel,      \* the channel the converter gives next
  conversion,   \* the number of the last conversion
  adc_channel, adc_code,   \* what LTC2422_read returned last
  adc_code_array,
  code,         \* return_code
  beside,       \* a code was stored outside the array
  failed,       \* ghost: the reads of this call that failed
  first,        \* ghost: the conversion number before this call
  volts         \* the magnitudes printed for A and B

avars == <<adc, continuous, channel, conversion, adc_channel, adc_code, adc_code_array, code,
           beside, failed, first, volts>>

\* What an uninitialized word or channel may be; 2 stands for any other channel.
Junk == 8192
JunkChannels == 0..2

\* The channel is bit 14 of a word, the sign bit 13, the magnitude bits 0 to 11.
Word(ch, n) == ch * 16384 + 8192 + n
Channel(w) == (w \div 16384) % 2
Sign(w) == IF (w \div 8192) % 2 = 1 THEN 1 ELSE -1
LTC2422_voltage(w) == Sign(w) * (w % 4096)

Init ==
  /\ adc = "start" /\ continuous = FALSE /\ channel = 0 /\ conversion = 0
  /\ adc_channel = 0 /\ adc_code = Junk /\ adc_code_array = <<Junk, Junk>> /\ code = 0
  /\ beside = FALSE /\ failed = {} /\ first = 0 /\ volts = <<0, 0>>

parse_opts ==
  /\ adc = "start" /\ continuous' \in BOOLEAN /\ channel' \in {0, 1} /\ adc_channel' \in JunkChannels
  /\ adc' \in {"first", "usage"}
  /\ UNCHANGED <<conversion, adc_code, adc_code_array, code, beside, failed, first, volts>>

\* A device that cannot be opened, or a transfer that fails, with or without
\* the converter having seen it, leaves the outputs alone.
Answers ==
  /\ conversion' = conversion + 1 /\ channel' = 1 - channel
  /\ adc_code' = Word(channel, conversion + 1) /\ adc_channel' = Channel(adc_code')
  /\ code' = 0 /\ UNCHANGED failed
Fails(where) ==
  /\ \/ UNCHANGED <<conversion, channel>>
     \/ conversion' = conversion + 1 /\ channel' = 1 - channel
  /\ failed' = failed \union {where} /\ UNCHANGED <<adc_channel, adc_code>>

LTC2422_read(where) ==
  /\ conversion < MaxReads
  /\ Answers \/ (Fails(where) /\ code' = 1)

\* The code goes where the channel says, which nobody may have written.
Store(ch) ==
  /\ adc_code_array' = IF ch \in {0, 1} THEN [adc_code_array EXCEPT ![ch + 1] = adc_code']
                       ELSE adc_code_array
  /\ beside' = (beside \/ ch \notin {0, 1})

Read1 ==
  /\ adc = "first" /\ adc' = "second" /\ LTC2422_read(1)
  /\ UNCHANGED <<continuous, adc_code_array, beside, first, volts>>
Read2 ==
  /\ adc = "second" /\ adc' = "third" /\ LTC2422_read(2) /\ Store(adc_channel')
  /\ UNCHANGED <<continuous, first, volts>>

\* Mutant: the two last reads are taken to be channel 0 and channel 1.
Read3InOrder ==
  /\ adc = "third" /\ adc' = "report" /\ LTC2422_read(3) /\ Store(1)
  /\ UNCHANGED <<continuous, first, volts>>

Read3 ==
  /\ adc = "third" /\ adc' = "report" /\ LTC2422_read(3) /\ Store(adc_channel')
  /\ UNCHANGED <<continuous, first, volts>>

\* A is channel 1, B channel 0.
spi_read_adc ==
  /\ adc = "report"
  /\ volts' = <<LTC2422_voltage(adc_code_array[2]), LTC2422_voltage(adc_code_array[1])>>
  /\ adc' = IF continuous THEN "again" ELSE "exit"
  /\ UNCHANGED <<continuous, channel, conversion, adc_channel, adc_code, adc_code_array, code,
                 beside, failed, first>>

\* The next call's variables are uninitialized: anything, or what this call left.
Again ==
  /\ adc = "again" /\ adc' = "first"
  /\ adc_channel' \in JunkChannels /\ adc_code' \in {Junk, adc_code}
  /\ adc_code_array' \in {<<Junk, Junk>>, adc_code_array}
  /\ beside' = FALSE /\ failed' = {} /\ first' = conversion
  /\ UNCHANGED <<continuous, channel, conversion, code, volts>>

Next == \/ parse_opts \/ Read1 \/ Read2 \/ Read3 \/ spi_read_adc \/ Again

-----------------------------------------------------------------------------
\* Of a call whose second and third reads succeed both voltages are of
\* conversions after the first of the call, one of each channel, whichever
\* channel the converter starts with.  A return code of 0 shows only that the
\* third read succeeded: the other voltage is of this call too unless the second
\* read failed.  A code is stored outside the array only if the first two reads
\* both failed (lines 84-106).
ReportedVoltages ==
  adc \in {"again", "exit"} =>
    /\ failed \subseteq {1} =>
         /\ {volts[1], volts[2]} = {conversion, conversion - 1}
         /\ volts[IF channel = 0 THEN 1 ELSE 2] = conversion
    /\ code = 0 => /\ conversion \in {volts[1], volts[2]}
                   /\ 2 \in failed \/ \A v \in {volts[1], volts[2]} : v > first
    /\ beside => {1, 2} \subseteq failed
=============================================================================
