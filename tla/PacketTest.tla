----------------------------- MODULE PacketTest -----------------------------
(***************************************************************************)
(* emactestpromis.exp and emactestmulticast.exp of the Ethernet suite with  *)
(* the programs they start: rawsend and sendmc on the host, rawrecv and     *)
(* recvmc on the target.  Each script has two halves, one that must receive *)
(* something and one that must not.                                         *)
(*                                                                          *)
(* rawrecv's socket is bound to no interface: it sees what any interface of *)
(* the target accepts, from the moment it is opened.  The promiscuous flag  *)
(* is the interface's and outlives the program and the script.              *)
(***************************************************************************)
EXTENDS Integers, Sequences

CONSTANTS
  Ports,      \* the interfaces of the target; trgtethXport is one of them
  MaxFrames,  \* bound on the frames of a half that reach the target
  MaxRuns     \* bound on the number of times a script is run

VARIABLES
  test, port,   \* the script, "promis" or "multicast", and trgtethXport
  half, step,   \* the script's half, and "idle", "start", "expect" or "exit" in it
  retv,         \* its exit code
  promisc,      \* the interfaces that are promiscuous
  senders,      \* senders running on the host
  rcv,           \* the receiver: "off", "flags", "read", "output" or "failed"
  queue,        \* what its socket holds: "tag" frames of a sender, "other" ones
  recvbuf,      \* the frame in recvbuf
  totbytes,     \* the receiver's total
  frames,       \* frames that reached the target in this half
  tags, others, errors,  \* ghosts: frames read and reads failed in this half
  clean,        \* ghost: no interface was promiscuous when the script started
  runs          \* scripts started

pvars == <<test, port, half, step, retv, promisc, senders, rcv, queue, recvbuf, totbytes,
           frames, tags, others, errors, clean, runs>>
receiver == <<rcv, queue, recvbuf, totbytes, tags, others, errors>>

Size == 3

Init ==
  /\ test = "promis" /\ port = "eth0" /\ half = 1 /\ step = "idle" /\ retv = 0
  /\ promisc = {} /\ senders = 0 /\ rcv = "off" /\ queue = <<>> /\ recvbuf = "other"
  /\ totbytes = 0 /\ frames = 0 /\ tags = 0 /\ others = 0 /\ errors = 0
  /\ clean = TRUE /\ runs = 0

Begin ==
  /\ step \in {"idle", "exit"} /\ runs < MaxRuns
  /\ test' \in {"promis", "multicast"}
  /\ port' \in (IF runs = 0 THEN Ports ELSE {port})
  /\ half' = 1 /\ step' = "start" /\ retv' = -1 /\ runs' = runs + 1
  /\ clean' = (promisc = {}) /\ rcv' = "off" /\ frames' = 0
  /\ UNCHANGED <<promisc, senders, queue, recvbuf, totbytes, tags, others, errors>>

\* A sender, unless it fails before its loop; one of the first half may still
\* run.
Spawn == senders' \in {senders, senders + 1}

\* The receiver up to its loop.  rawrecv has its flag to set first.
Setup ==
  /\ rcv' \in {IF test = "promis" THEN "flags" ELSE "read", "failed"}
  /\ queue' = <<>> /\ recvbuf' = "other" /\ totbytes' = 0
  /\ tags' = 0 /\ others' = 0 /\ errors' = 0

\* startHostMCSend or startHostPromiscSend, then the receiver's command line.
Start ==
  /\ step = "start" /\ step' = "expect" /\ frames' = 0 /\ Spawn /\ Setup
  /\ UNCHANGED <<test, port, half, retv, promisc, clean, runs>>

\* raw_init: the first half clears the flag of eth0, the second sets the
\* flag of trgtethXport.  The calls after that may fail too.
raw_init ==
  /\ rcv = "flags"
  /\ \/ rcv' = "failed" /\ UNCHANGED promisc
     \/ /\ rcv' \in {"read", "failed"}
        /\ promisc' = IF half = 1 THEN promisc \ {"eth0"} ELSE promisc \union {port}
  /\ UNCHANGED <<test, port, half, step, retv, senders, queue, recvbuf, totbytes, frames,
                 tags, others, errors, clean, runs>>

\* What a sender sends reaches the receiver's socket.
Deliver ==
  /\ senders > 0 /\ rcv \in {"flags", "read"} /\ frames < MaxFrames
  /\ queue' = Append(queue, "tag") /\ frames' = frames + 1
  /\ UNCHANGED <<test, port, half, step, retv, promisc, senders, rcv, recvbuf, totbytes,
                 tags, others, errors, clean, runs>>

\* A frame of rawsend is for nobody: a promiscuous interface takes it.
rawsend == test = "promis" /\ port \in promisc /\ Deliver

\* A datagram of sendmc is for the group that recvmc joins in the first half.
sendmc == test = "multicast" /\ half = 1 /\ Deliver

\* Frames for the target, its own ones, datagrams of somebody else.
Traffic ==
  /\ rcv \in {"flags", "read"} /\ frames < MaxFrames
  /\ queue' = Append(queue, "other") /\ frames' = frames + 1
  /\ UNCHANGED <<test, port, half, step, retv, promisc, senders, rcv, recvbuf, totbytes,
                 tags, others, errors, clean, runs>>

\* A sender's seconds are over, or sendto fails.
SenderEnds ==
  /\ senders > 0 /\ senders' = senders - 1
  /\ UNCHANGED <<test, port, half, step, retv, promisc, receiver, frames, clean, runs>>

\* Mutant: the total is set, not added to.
RawTotalLast(buf, bytes) == bytes

\* The bytes of a tagged frame count twice; the tag is looked for also when
\* nothing was read.
RawTotal(buf, bytes) == totbytes + bytes + (IF buf = "tag" THEN bytes ELSE 0)
McTotal(buf, bytes) == totbytes + bytes
Total(buf, bytes) == IF test = "promis" THEN RawTotal(buf, bytes) ELSE McTotal(buf, bytes)

\* One turn of a receiver's loop: a frame, nothing, or an error, which ends
\* the loop as its seconds do.
Reads ==
  LET Read(bytes, buf) ==
        /\ totbytes' = Total(buf, bytes) /\ recvbuf' = buf
        /\ rcv' \in (IF bytes >= 0 THEN {"read", "output"} ELSE {"output"})
  IN /\ rcv = "read"
     /\ \/ /\ queue # <<>> /\ Read(Size, Head(queue)) /\ queue' = Tail(queue)
           /\ tags' = tags + (IF Head(queue) = "tag" THEN 1 ELSE 0)
           /\ others' = others + (IF Head(queue) = "other" THEN 1 ELSE 0)
           /\ UNCHANGED errors
        \/ queue = <<>> /\ Read(0, recvbuf) /\ UNCHANGED <<queue, tags, others, errors>>
        \/ Read(-1, recvbuf) /\ errors' = errors + 1 /\ UNCHANGED <<queue, tags, others>>
     /\ UNCHANGED <<test, port, half, step, retv, promisc, senders, frames, clean, runs>>

rawrecv == test = "promis" /\ Reads
recvmc == test = "multicast" /\ Reads

\* The script's expect: a receiver that printed neither word runs into the
\* timeout.
Printed == IF totbytes # 0 THEN "bytes" ELSE "none"
Wanted == IF test = "promis" THEN <<"none", "bytes">> ELSE <<"bytes", "none">>

\* Mutant: either word lets the script go on.
ExpectAny ==
  /\ step = "expect" /\ rcv \in {"output", "failed"}
  /\ LET good == rcv = "output"
     IN /\ step' = IF good /\ half = 1 THEN "start" ELSE "exit"
        /\ half' = IF good /\ half = 1 THEN 2 ELSE half
        /\ retv' = IF good THEN (IF half = 2 THEN 0 ELSE -1) ELSE 1
  /\ rcv' = "off"
  /\ UNCHANGED <<test, port, promisc, senders, queue, recvbuf, totbytes, frames, tags,
                 others, errors, clean, runs>>

Expect ==
  /\ step = "expect" /\ rcv \in {"output", "failed"}
  /\ LET good == rcv = "output" /\ Printed = Wanted[half]
     IN /\ step' = IF good /\ half = 1 THEN "start" ELSE "exit"
        /\ half' = IF good /\ half = 1 THEN 2 ELSE half
        /\ retv' = IF good THEN (IF half = 2 THEN 0 ELSE -1) ELSE 1
  /\ rcv' = "off"
  /\ UNCHANGED <<test, port, promisc, senders, queue, recvbuf, totbytes, frames, tags,
                 others, errors, clean, runs>>

Next ==
  \/ Begin \/ Start \/ raw_init \/ rawsend \/ sendmc \/ Traffic \/ SenderEnds \/ rawrecv \/ recvmc
  \/ Expect

-----------------------------------------------------------------------------
\* A script that exits with 0 has seen what it tests, unless other traffic or
\* a failed read took its place in the second half: for promis a tagged frame
\* was read with the interface promiscuous, for multicast nothing was.
ZeroSawTheFrames ==
  step = "exit" /\ retv = 0 /\ others = 0 /\ errors = 0 =>
    IF test = "promis" THEN tags > 0 /\ port \in promisc ELSE tags = 0

\* "none" is printed only by a receiver that read nothing, and a first half of
\* promis on a target with no promiscuous interface, without other traffic and
\* failed reads, prints nothing else.
NoneMeansNone ==
  rcv = "output" =>
    /\ Printed = "none" => tags + others + errors = 0
    /\ test = "promis" /\ half = 1 /\ clean /\ others + errors = 0 => Printed = "none"
=============================================================================
