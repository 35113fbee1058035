-------------------------- MODULE MCSocketWorkers --------------------------
(* Instances of SocketWorkers.  Address 0 is a local interface without a port. *)
EXTENDS SocketWorkers, TLC

Opt(letter, arg) == <<letter, arg>>
R(size) == <<Opt("r", 0), Opt("l", 5000), Opt("m", size)>>
T(size) == <<Opt("t", 0), Opt("l", 0), Opt("i", 5000), Opt("m", size)>>
S10 == <<Opt("S", 10)>>

\* The usage line of bld.sh: -m2 comes after -t and never reaches the receiver.
Usage == S10 \o <<Opt("r", 0), Opt("l", 5000)>> \o T(2)

Lines(a, b, c) == (1 :> a) @@ (2 :> b) @@ (3 :> c)

\* A pair; two senders for a receiver; two receivers on a port; the usage line;
\* an address missing; a receiver without a limit and -S too late; a bad letter.
MCCommandLines ==
  { Lines(S10 \o R(2), S10 \o T(1), <<>>),
    Lines(S10 \o R(1), S10 \o T(1), S10 \o T(1)),
    Lines(S10 \o R(1), S10 \o R(1), S10 \o T(1)),
    Lines(Usage, <<>>, <<>>),
    Lines(S10 \o <<Opt("r", 0), Opt("l", 5000)>>,
          S10 \o <<Opt("t", 0), Opt("i", 5000), Opt("m", 1)>>, S10 \o <<Opt("r", 0), Opt("m", 1)>>),
    Lines(R(1), S10 \o T(1), T(1) \o S10),
    Lines(S10 \o R(2), S10 \o T(2) \o <<Opt("n", 0)>>, <<Opt("m", 1), Opt("Z", 0)>>) }

UsageOnly == {Lines(Usage, <<>>, <<>>)}
MCJunk == {-1, 0, 2}
=============================================================================
