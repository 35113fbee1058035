---------------------------- MODULE NetworkProofs ----------------------------
(***************************************************************************)
(* options.cpp with socket.h, for any processes and command lines: what the *)
(* options are parsed to, and that receiver() counts every byte once.       *)
(* Below, the TFTP test for any files, seeds and transfers.                 *)
(***************************************************************************)
EXTENDS SocketWorkers, TftpTest, SequenceTheorems, WellFoundedInduction, TLAPS

\* A set of natural numbers that is not empty has a least member.
LEMMA NatMin ==
  ASSUME NEW T \in SUBSET Nat, T # {}
  PROVE  \E x \in T : \A y \in T : x <= y
<1> DEFINE R == OpToRel(<, Nat)
<1>1. IsWellFoundedOn(R, Nat)
  BY NatLessThanWellFounded, Zenon
<1>2. \A x, y \in Nat : <<y, x>> \in R <=> y < x
  BY DEF OpToRel
<1> HIDE DEF R
<1>3. \E x \in T : \A y \in T : ~(<<y, x>> \in R)
  BY <1>1, WFMin, Zenon
<1>4. PICK x \in T : \A y \in T : ~(<<y, x>> \in R)
  BY <1>3
<1>5. ASSUME NEW y \in T PROVE x <= y
  <2>1. x \in Nat /\ y \in Nat
    OBVIOUS
  <2>2. ~(y < x)
    BY <1>2, <1>4, <2>1, Zenon
  <2> QED
    BY <2>1, <2>2
<1> QED
  BY <1>5
-----------------------------------------------------------------------------
(* The command line.                                                        *)

Workers == [type : {"t", "r"}, seconds : Int, messageSize : Int, vLocalIP : Seq(Int),
            vDestIP : Seq(Int)]
ParsedOptions == [seconds : Int, list : Seq(Workers), junk : Int, ok : BOOLEAN]

\* f holds what the first options are parsed to, for up to n of them.
ParsedUpTo(f, args, junk, n) ==
  f = [i \in 0..n |-> IF i = 0 THEN NoOptions(junk) ELSE ParseOption(f[i - 1], args[i])]

\* There is such a function, by induction on n.
LEMMA ParsedExists ==
  ASSUME NEW args, NEW junk, NEW n \in Nat
  PROVE  \E f : ParsedUpTo(f, args, junk, n)
<1> DEFINE T == {m \in Nat : ~\E f : ParsedUpTo(f, args, junk, m)}
<1>1. SUFFICES ASSUME T # {} PROVE FALSE
  OBVIOUS
<1>2. PICK m \in T : \A y \in T : m <= y
  BY <1>1, NatMin, Zenon
<1>3. m # 0
  <2> DEFINE g == [i \in 0..0 |-> NoOptions(junk)]
  <2>1. ParsedUpTo(g, args, junk, 0)
    BY DEF ParsedUpTo
  <2> QED
    BY <2>1
<1>4. m - 1 \in Nat /\ m - 1 \notin T
  BY <1>2, <1>3
<1>5. PICK f : ParsedUpTo(f, args, junk, m - 1)
  BY <1>4
<1> DEFINE g == [i \in 0..m |-> IF i = m THEN ParseOption(f[m - 1], args[m]) ELSE f[i]]
<1>6. \A i \in 0..(m - 1) : g[i] = f[i]
  BY <1>4
<1>7. ASSUME NEW i \in 0..m
      PROVE  g[i] = IF i = 0 THEN NoOptions(junk) ELSE ParseOption(g[i - 1], args[i])
  <2>1. CASE i = m
    BY <1>3, <1>4, <1>6, <2>1
  <2>2. CASE i # m
    <3>1. i \in 0..(m - 1) /\ (i # 0 => i - 1 \in 0..(m - 1))
      BY <1>4, <2>2
    <3>2. f[i] = IF i = 0 THEN NoOptions(junk) ELSE ParseOption(f[i - 1], args[i])
      BY <1>5, <3>1 DEF ParsedUpTo
    <3> QED
      BY <1>6, <3>1, <3>2
  <2> QED
    BY <2>1, <2>2
<1>8. ParsedUpTo(g, args, junk, m)
  BY <1>7 DEF ParsedUpTo
<1> QED
  BY <1>2, <1>8

\* What Parse returns is its value for all options.
LEMMA ParseIs ==
  ASSUME NEW args, Len(args) \in Nat, NEW junk
  PROVE  \E f : ParsedUpTo(f, args, junk, Len(args)) /\ Parse(args, junk) = f[Len(args)]
<1> DEFINE f[n \in 0..Len(args)] ==
             IF n = 0 THEN NoOptions(junk) ELSE ParseOption(f[n - 1], args[n])
<1>1. Parse(args, junk) = f[Len(args)]
  BY DEF Parse
<1>2. f = CHOOSE g : ParsedUpTo(g, args, junk, Len(args))
  BY Zenon DEF ParsedUpTo
<1>3. ParsedUpTo(f, args, junk, Len(args))
  BY <1>2, ParsedExists
<1> QED
  BY <1>1, <1>3, Zenon

\* A worker that is given a size or an address is still one.
LEMMA WorkerGiven ==
  ASSUME NEW w \in Workers, NEW x \in Int
  PROVE  /\ [w EXCEPT !.messageSize = x] \in Workers
         /\ [w EXCEPT !.vLocalIP = Append(@, x)] \in Workers
         /\ [w EXCEPT !.vDestIP = Append(@, x)] \in Workers
<1>1. w.vLocalIP \in Seq(Int) /\ w.vDestIP \in Seq(Int)
  BY DEF Workers
<1>2. Append(w.vLocalIP, x) \in Seq(Int) /\ Append(w.vDestIP, x) \in Seq(Int)
  BY <1>1
<1> QED
  BY <1>2, Zenon DEF Workers

\* An option leaves the workers well-formed, wherever it stands.
LEMMA OptionParsed ==
  ASSUME NEW p \in ParsedOptions, NEW o \in STRING \X Int
  PROVE  ParseOption(p, o) \in ParsedOptions
<1> DEFINE last == Len(p.list)
           w == p.list[last]
<1>1. /\ p.seconds \in Int /\ p.list \in Seq(Workers) /\ p.junk \in Int /\ p.ok \in BOOLEAN
      /\ o[2] \in Int /\ last \in Nat
  BY DEF ParsedOptions
<1>a. \A l \in Seq(Workers) : [p EXCEPT !.list = l] \in ParsedOptions
  BY <1>1, Zenon DEF ParsedOptions
<1>2. ASSUME NEW v \in Workers PROVE [p EXCEPT !.list = Append(@, v)] \in ParsedOptions
  <2>1. Append(p.list, v) \in Seq(Workers)
    BY <1>1
  <2> QED
    BY <1>a, <2>1, Zenon
<1>3. ASSUME NEW v \in Workers, last # 0
      PROVE  [p EXCEPT !.list = [@ EXCEPT ![last] = v]] \in ParsedOptions
  <2> DEFINE l == p.list
  <2>a. l \in Seq(Workers) /\ Len(l) \in Nat /\ Len(l) # 0
    BY <1>1, <1>3
  <2> HIDE DEF l
  <2>b. [l EXCEPT ![Len(l)] = v] \in Seq(Workers)
    BY <2>a
  <2>1. [p.list EXCEPT ![last] = v] \in Seq(Workers)
    BY <2>b DEF l
  <2> QED
    BY <1>a, <2>1, Zenon
<1>4. last # 0 => w \in Workers
  BY <1>1
<1>5. Worker("t", p.seconds, p.junk) \in Workers /\ Worker("r", p.seconds, p.junk) \in Workers
  BY <1>1 DEF Worker, Workers
<1>6. last # 0 =>
        /\ [w EXCEPT !.messageSize = o[2]] \in Workers
        /\ [w EXCEPT !.vLocalIP = Append(@, o[2])] \in Workers
        /\ [w EXCEPT !.vDestIP = Append(@, o[2])] \in Workers
  BY <1>1, <1>4, WorkerGiven, Zenon
<1>7. [p EXCEPT !.seconds = o[2]] \in ParsedOptions /\ [p EXCEPT !.ok = FALSE] \in ParsedOptions
  BY <1>1, Zenon DEF ParsedOptions
<1> HIDE DEF last, w
<1>8. CASE o[1] \in {"t", "r"}
  BY <1>2, <1>5, <1>8, Zenon DEF ParseOption
<1>9. CASE o[1] \in {"m", "l", "i"}
  <2>1. CASE last = 0
    BY <1>9, <2>1 DEF ParseOption, last
  <2>2. CASE last # 0
    BY <1>3, <1>6, <1>9, <2>2, Zenon DEF ParseOption, last, w
  <2> QED
    BY <2>1, <2>2
<1>10. CASE o[1] \notin {"t", "r", "m", "l", "i"}
  BY <1>7, <1>10 DEF ParseOption
<1> QED
  BY <1>8, <1>9, <1>10

\* The workers that the options describe, for any command line.
LEMMA ParsedWorkers ==
  ASSUME NEW args \in Seq(STRING \X Int), NEW junk \in Int
  PROVE  Parse(args, junk).list \in Seq(Workers)
<1>1. PICK f : ParsedUpTo(f, args, junk, Len(args)) /\ Parse(args, junk) = f[Len(args)]
  BY ParseIs
<1> DEFINE T == {m \in 0..Len(args) : f[m] \notin ParsedOptions}
<1>2. ASSUME T # {} PROVE FALSE
  <2>0. T \in SUBSET Nat
    OBVIOUS
  <2>1. PICK m \in T : \A y \in T : m <= y
    BY <1>2, <2>0, NatMin, Zenon
  <2>2. f[m] = IF m = 0 THEN NoOptions(junk) ELSE ParseOption(f[m - 1], args[m])
    BY <1>1, <2>1, Zenon DEF ParsedUpTo
  <2>3. NoOptions(junk) \in ParsedOptions
    BY DEF NoOptions, ParsedOptions
  <2>4. CASE m # 0
    <3>1. m - 1 \in 0..Len(args) /\ m - 1 \notin T /\ args[m] \in STRING \X Int
      BY <2>1, <2>4
    <3>2. f[m - 1] \in ParsedOptions
      BY <3>1
    <3> QED
      BY <2>1, <2>2, <2>4, <3>1, <3>2, OptionParsed
  <2> QED
    BY <2>1, <2>2, <2>3, <2>4
<1>3. f[Len(args)] \in ParsedOptions
  BY <1>2
<1> QED
  BY <1>1, <1>3 DEF ParsedOptions
-----------------------------------------------------------------------------
(* The bytes.                                                               *)

Connections == [tx : Threads, rx : Threads, accepted : BOOLEAN, q : Nat, sent : Nat,
                finished : BOOLEAN, refused : BOOLEAN, lost : {"no", "stall", "reset"}]

Types ==
  /\ vSockets \in [Processes -> Seq(Workers)]
  /\ vThreads \in [Processes -> Nat]
  /\ status \in [Processes -> {"run", "ok", "exit", "abort"}]
  /\ pc \in [Threads -> {"none", "worker", "connect", "send", "listen", "accept", "recv",
                         "close", "return", "done"}]
  /\ total \in [Threads -> Int] /\ expired \in [Threads -> BOOLEAN]
  /\ listening \in [Threads -> BOOLEAN] /\ conn \in [Threads -> Nat]
  /\ conns \in Seq(Connections)

\* A thread that has been started has a worker; one past Bind has a buffer; one
\* with a connection is its sender or the receiver that accepted it, and what a
\* receiver counted is what has left the kernel.
ThreadInv(t) ==
  /\ pc[t] # "none" => t[2] <= vThreads[t[1]] /\ vThreads[t[1]] <= Len(vSockets[t[1]])
  /\ pc[t] \in {"connect", "send", "listen", "accept", "recv", "close"} => W(t).messageSize >= 0
  /\ pc[t] \in {"listen", "accept"} => total[t] = 0
  /\ pc[t] = "send" => conn[t] \in DOMAIN conns /\ C(t).tx = t
  /\ pc[t] \in {"recv", "close"} =>
       /\ conn[t] \in DOMAIN conns /\ C(t).rx = t /\ C(t).accepted
       /\ C(t).lost = "no" =>
            /\ total[t] + C(t).q = C(t).sent
            /\ pc[t] = "close" /\ ~expired[t] /\ W(t).messageSize > 0 =>
                 C(t).finished /\ C(t).q = 0

\* Nothing is read from a connection before it is accepted, and nothing sent on
\* it after its sender has ended.
ConnInv(c) ==
  /\ ~conns[c].accepted /\ conns[c].lost = "no" => conns[c].q = conns[c].sent
  /\ conns[c].finished => status[conns[c].tx[1]] # "run"

Inv ==
  /\ Types
  /\ \A t \in Threads : ThreadInv(t)
  /\ \A c \in DOMAIN conns : ConnInv(c)

\* From a connection to what a step leaves of it: nobody else takes its place,
\* and while it is not lost as much is counted as is taken from the kernel.
Kept(c, d) ==
  /\ d.tx = c.tx /\ d.rx = c.rx
  /\ c.accepted => d.accepted
  /\ c.finished => d.finished
  /\ d.lost = "no" => /\ c.lost = "no" /\ d.sent - d.q = c.sent - c.q
                      /\ c.finished => d.q = c.q

\* A thread is the number of a worker of a process.
LEMMA ThreadParts == ASSUME NEW t \in Threads PROVE t[1] \in Processes /\ t[2] \in 1..2
BY DEF Threads, MaxWorkers

\* A thread that has been started has its worker.
LEMMA WorkerOf ==
  ASSUME Inv, NEW t \in Threads, pc[t] # "none"
  PROVE  W(t) \in Workers /\ W(t).messageSize \in Int
<1>1. t[1] \in Processes /\ t[2] \in 1..2 /\ t[2] <= Len(vSockets[t[1]])
  <2>1. ThreadInv(t) /\ vThreads[t[1]] \in Nat /\ vSockets[t[1]] \in Seq(Workers)
    BY ThreadParts DEF Inv, Types
  <2> QED
    BY <2>1, ThreadParts DEF ThreadInv
<1>2. vSockets[t[1]] \in Seq(Workers)
  BY <1>1 DEF Inv, Types
<1>3. W(t) \in Workers
  BY <1>1, <1>2 DEF W
<1> QED
  BY <1>3 DEF Workers

\* The connection a thread works on is one.
LEMMA ConnOf ==
  ASSUME Inv, NEW t \in Threads, pc[t] \in {"send", "recv", "close"}
  PROVE  conn[t] \in DOMAIN conns /\ C(t) \in Connections
<1>1. conn[t] \in DOMAIN conns
  BY DEF Inv, ThreadInv
<1> QED
  BY <1>1 DEF C, Inv, Types

\* The fields of a connection.
LEMMA Fields ==
  ASSUME NEW c \in Connections
  PROVE  /\ c.tx \in Threads /\ c.rx \in Threads /\ c.q \in Nat /\ c.sent \in Nat
         /\ c.accepted \in BOOLEAN /\ c.finished \in BOOLEAN /\ c.refused \in BOOLEAN
         /\ c.lost \in {"no", "stall", "reset"}
BY DEF Connections

\* A step that leaves a thread alone, and its connection as Kept says, keeps what
\* is known of the thread.
LEMMA ThreadKept ==
  ASSUME Inv, NEW t \in Threads, UNCHANGED vSockets,
         vThreads'[t[1]] \in vThreads[t[1]]..Len(vSockets[t[1]]) \/ UNCHANGED vThreads,
         pc'[t] = pc[t], total'[t] = total[t], conn'[t] = conn[t],
         pc[t] = "close" => expired'[t] = expired[t],
         pc[t] = "send" => conn[t] \in DOMAIN conns' /\ conns'[conn[t]].tx = C(t).tx,
         pc[t] \in {"recv", "close"} =>
           /\ conn[t] \in DOMAIN conns' /\ conns'[conn[t]] \in Connections
           /\ Kept(C(t), conns'[conn[t]])
  PROVE  ThreadInv(t)'
<1>1. ThreadInv(t) /\ vThreads \in [Processes -> Nat] /\ vSockets \in [Processes -> Seq(Workers)]
  BY DEF Inv, Types
<1>2. t[1] \in Processes /\ t[2] \in 1..2
  BY ThreadParts
<1>3. pc'[t] # "none" => t[2] <= vThreads'[t[1]] /\ vThreads'[t[1]] <= Len(vSockets'[t[1]])
  BY <1>1, <1>2 DEF ThreadInv
<1>4. W(t)' = W(t)
  BY DEF W
<1>5. C(t)' = conns'[conn[t]]
  BY DEF C
<1>6. pc[t] = "send" => conn'[t] \in DOMAIN conns' /\ C(t)'.tx = t
  BY <1>1, <1>5 DEF ThreadInv
<1>7. ASSUME pc[t] \in {"recv", "close"}
      PROVE  /\ conn'[t] \in DOMAIN conns' /\ C(t)'.rx = t /\ C(t)'.accepted
             /\ C(t)'.lost = "no" =>
                  /\ total'[t] + C(t)'.q = C(t)'.sent
                  /\ pc'[t] = "close" /\ ~expired'[t] /\ W(t)'.messageSize > 0 =>
                       C(t)'.finished /\ C(t)'.q = 0
  <2> DEFINE c == C(t)
             d == conns'[conn[t]]
  <2>1. /\ c.q \in Nat /\ c.sent \in Nat /\ d.q \in Nat /\ d.sent \in Nat /\ total[t] \in Int
    BY <1>7, ConnOf, Fields DEF Inv, Types
  <2>2. Kept(c, d)
    BY <1>7
  <2>3. /\ c.rx = t /\ c.accepted
        /\ c.lost = "no" =>
             /\ total[t] + c.q = c.sent
             /\ pc[t] = "close" /\ ~expired[t] /\ W(t).messageSize > 0 => c.finished /\ c.q = 0
    BY <1>1, <1>7 DEF ThreadInv
  <2> HIDE DEF c, d
  <2>4. d.rx = t /\ d.accepted
    BY <2>2, <2>3 DEF Kept
  <2>5. d.lost = "no" => c.lost = "no" /\ total[t] + d.q = d.sent
    BY <2>1, <2>2, <2>3 DEF Kept
  <2>6. d.lost = "no" /\ pc[t] = "close" /\ ~expired[t] /\ W(t).messageSize > 0 =>
          d.finished /\ d.q = 0
    BY <2>2, <2>3 DEF Kept
  <2> QED
    BY <1>4, <1>5, <1>7, <2>4, <2>5, <2>6 DEF d
<1> QED
  BY <1>1, <1>3, <1>4, <1>6, <1>7 DEF ThreadInv

\* A connection that only loses, or that is only ended, is Kept by a step.
LEMMA KeptSelf == ASSUME NEW c \in Connections PROVE Kept(c, c)
BY Fields DEF Kept

\* One connection is replaced by another.
LEMMA OneConn ==
  ASSUME Inv, NEW c \in DOMAIN conns, NEW d \in Connections,
         conns' = [conns EXCEPT ![c] = d]
  PROVE  /\ conns' \in Seq(Connections) /\ DOMAIN conns' = DOMAIN conns /\ conns'[c] = d
         /\ \A x \in DOMAIN conns : x # c => conns'[x] = conns[x]
BY DEF Inv, Types

\* All connections are replaced.
LEMMA AllConns ==
  ASSUME Inv, NEW f, f = [c \in DOMAIN conns |-> f[c]],
         \A c \in DOMAIN conns : f[c] \in Connections
  PROVE  f \in Seq(Connections) /\ DOMAIN f = DOMAIN conns
<1>1. conns \in Seq(Connections) /\ DOMAIN conns = 1..Len(conns) /\ Len(conns) \in Nat
  BY DEF Inv, Types
<1>2. f \in [1..Len(conns) -> Connections]
  BY <1>1
<1> QED
  BY <1>1, <1>2, SeqDef

\* What conns holds are connections.
LEMMA ConnIn == ASSUME Inv, NEW c \in DOMAIN conns PROVE conns[c] \in Connections
BY DEF Inv, Types

\* The end of a process.
LEMMA EndStep ==
  ASSUME Inv, NEW p \in Processes, NEW how \in {"ok", "exit", "abort"}, End(p, how)
  PROVE  Inv'
<1>1. ASSUME NEW c \in DOMAIN conns
      PROVE  /\ conns'[c] \in Connections /\ Kept(conns[c], conns'[c]) /\ ConnInv(c)'
             /\ conns'[c].tx = conns[c].tx
  <2> DEFINE o == conns[c]
             fin == o.finished \/ o.tx[1] = p
             ref == o.refused \/ o.rx[1] = p
             d == [o EXCEPT !.finished = fin, !.refused = ref]
  <2>1. o \in Connections
    BY ConnIn
  <2>2. fin \in BOOLEAN /\ ref \in BOOLEAN
    OBVIOUS
  <2>3. conns'[c] = d
    BY Zenon DEF End
  <2>4. ConnInv(c)
    BY DEF Inv
  <2>5. fin => o.finished \/ o.tx[1] = p
    OBVIOUS
  <2>6. o.finished => fin
    OBVIOUS
  <2> HIDE DEF fin, ref
  <2>7. /\ d \in Connections /\ d.tx = o.tx /\ d.rx = o.rx /\ d.q = o.q /\ d.sent = o.sent
        /\ d.lost = o.lost /\ d.accepted = o.accepted /\ d.finished = fin
    BY <2>1, <2>2, Zenon DEF Connections
  <2> HIDE DEF d
  <2>8. o.tx[1] \in Processes
    BY <2>1, Fields, ThreadParts
  <2>9. Kept(o, d)
    BY <2>1, <2>6, <2>7, Fields DEF Kept
  <2>10. d.finished => status'[d.tx[1]] # "run"
    BY <2>4, <2>5, <2>7, <2>8, Zenon DEF ConnInv, Inv, Types, End
  <2>11. ~d.accepted /\ d.lost = "no" => d.q = d.sent
    BY <2>4, <2>7 DEF ConnInv
  <2> QED
    BY <2>3, <2>7, <2>9, <2>10, <2>11 DEF ConnInv
<1>2. conns' \in Seq(Connections) /\ DOMAIN conns' = DOMAIN conns
  <2> DEFINE f == conns'
  <2>1. f = [c \in DOMAIN conns |-> f[c]]
    BY Zenon DEF End
  <2>2. \A c \in DOMAIN conns : f[c] \in Connections
    BY <1>1
  <2> HIDE DEF f
  <2>3. f \in Seq(Connections) /\ DOMAIN f = DOMAIN conns
    BY <2>1, <2>2, AllConns
  <2> QED
    BY <2>3 DEF f
<1>3. listening' \in [Threads -> BOOLEAN]
  BY Zenon DEF End
<1>4. Types'
  BY <1>2, <1>3, Zenon DEF Inv, Types, End
<1>5. ASSUME NEW t \in Threads PROVE ThreadInv(t)'
  BY <1>1, <1>2, ThreadKept, ConnOf, Zenon DEF C, End
<1> QED
  BY <1>1, <1>2, <1>4, <1>5 DEF Inv

\* A step that leaves the processes and the connections alone, and of the
\* threads moves one.
LEMMA OneThread ==
  ASSUME Inv, NEW t \in Threads, UNCHANGED <<vSockets, vThreads, status, conns>>, Types',
         \A u \in Threads : u # t => /\ pc'[u] = pc[u] /\ total'[u] = total[u]
                                     /\ conn'[u] = conn[u] /\ expired'[u] = expired[u],
         ThreadInv(t)'
  PROVE  Inv'
<1>1. ASSUME NEW u \in Threads, u # t PROVE ThreadInv(u)'
  BY <1>1, ThreadKept, ConnOf, KeptSelf DEF C
<1>2. ASSUME NEW c \in DOMAIN conns PROVE ConnInv(c)'
  BY DEF Inv, ConnInv
<1> QED
  BY <1>1, <1>2 DEF Inv

\* main starts a worker.
LEMMA startWorkerStep == ASSUME Inv, NEW p \in Processes, startWorker(p) PROVE Inv'
<1> DEFINE new == <<p, vThreads[p] + 1>>
<1>1. /\ vThreads[p] \in Nat /\ vThreads[p] < Len(vSockets[p]) /\ Len(vSockets[p]) \in Nat
      /\ vThreads' = [vThreads EXCEPT ![p] = @ + 1] /\ pc' = [pc EXCEPT ![new] = "worker"]
      /\ UNCHANGED <<vSockets, status, total, expired, listening, conn, conns>>
  BY DEF startWorker, Goto, Inv, Types
<1>2. /\ vThreads'[p] = vThreads[p] + 1 /\ vThreads' \in [Processes -> Nat]
      /\ \A q \in Processes : q # p => vThreads'[q] = vThreads[q]
  BY <1>1 DEF Inv, Types
<1>3. Types'
  BY <1>1, <1>2, Zenon DEF Inv, Types
<1>4. ASSUME NEW t \in Threads, t # new PROVE ThreadInv(t)'
  <2>1. t[1] \in Processes
    BY ThreadParts
  <2>2. vThreads'[t[1]] \in vThreads[t[1]]..Len(vSockets[t[1]]) \/ pc[t] = "none"
        \/ vThreads'[t[1]] = vThreads[t[1]]
    BY <1>1, <1>2, <2>1
  <2>3. pc'[t] = pc[t] /\ total'[t] = total[t] /\ conn'[t] = conn[t] /\ expired'[t] = expired[t]
    BY <1>1, <1>4 DEF Inv, Types
  <2>4. vThreads'[t[1]] \in vThreads[t[1]]..Len(vSockets[t[1]]) => ThreadInv(t)'
    BY <1>1, <2>3, ThreadKept, ConnOf, KeptSelf DEF C
  <2>5. pc[t] = "none" => ThreadInv(t)'
    BY <2>3 DEF ThreadInv
  <2>6. vThreads'[t[1]] = vThreads[t[1]] /\ pc[t] # "none" =>
          vThreads'[t[1]] \in vThreads[t[1]]..Len(vSockets[t[1]])
    <3>1. ThreadInv(t) /\ vThreads[t[1]] \in Nat /\ Len(vSockets[t[1]]) \in Nat
      BY <2>1 DEF Inv, Types
    <3> QED
      BY <3>1 DEF ThreadInv
  <2> QED
    BY <2>2, <2>4, <2>5, <2>6
<1>5. ASSUME NEW t \in Threads, t = new PROVE ThreadInv(t)'
  <2>1. pc'[t] = "worker"
    BY <1>1, <1>5 DEF Inv, Types
  <2>2. t[1] = p /\ t[2] = vThreads[p] + 1
    BY <1>5
  <2>3. t[2] <= vThreads'[t[1]] /\ vThreads'[t[1]] <= Len(vSockets'[t[1]])
    BY <1>1, <1>2, <2>2
  <2> QED
    BY <2>1, <2>3 DEF ThreadInv
<1>6. ASSUME NEW c \in DOMAIN conns PROVE ConnInv(c)'
  BY <1>1 DEF Inv, ConnInv
<1>7. ASSUME NEW t \in Threads PROVE ThreadInv(t)'
  BY <1>4, <1>5
<1> QED
  BY <1>1, <1>3, <1>6, <1>7 DEF Inv

\* The process of a thread may be ended by it.
LEMMA ThreadEnds ==
  ASSUME Inv, NEW t \in Threads, NEW how \in {"exit", "abort"}, End(t[1], how)
  PROVE  Inv'
BY EndStep, ThreadParts

\* sender() and receiver() up to Bind.
LEMMA BindStep ==
  ASSUME Inv, NEW t \in Threads, pc[t] = "worker", W(t).messageSize >= 0,
         NEW where \in {"connect", "listen"}, Bind(t, where)
  PROVE  Inv'
<1>1. CASE Bindable(W(t).vLocalIP[1])
  <2>1. /\ pc' = [pc EXCEPT ![t] = where] /\ total' = [total EXCEPT ![t] = 0]
        /\ expired' = [expired EXCEPT ![t] = FALSE]
        /\ UNCHANGED <<vSockets, vThreads, status, listening, conn, conns>>
    BY <1>1 DEF Bind, ASSERT, Goto
  <2>2. Types'
    BY <2>1 DEF Inv, Types
  <2>3. pc'[t] = where /\ total'[t] = 0 /\ W(t)' = W(t)
    BY <2>1 DEF Inv, Types, W
  <2>4. t[2] <= vThreads[t[1]] /\ vThreads[t[1]] <= Len(vSockets[t[1]])
    BY DEF Inv, ThreadInv
  <2>5. ThreadInv(t)'
    BY <2>1, <2>3, <2>4 DEF ThreadInv
  <2>6. \A u \in Threads : u # t => /\ pc'[u] = pc[u] /\ total'[u] = total[u]
                                    /\ conn'[u] = conn[u] /\ expired'[u] = expired[u]
    BY <2>1 DEF Inv, Types
  <2> QED
    BY <2>1, <2>2, <2>5, <2>6, OneThread, Zenon
<1>2. CASE ~Bindable(W(t).vLocalIP[1])
  BY <1>2, ThreadEnds DEF Bind, ASSERT
<1> QED
  BY <1>1, <1>2

LEMMA workerStep == ASSUME Inv, NEW t \in Threads, worker(t) PROVE Inv'
<1>1. pc[t] = "worker"
  BY DEF worker, sender, receiver, At
<1>2. \/ End(t[1], "abort") \/ End(t[1], "exit")
      \/ W(t).messageSize >= 0 /\ (Bind(t, "connect") \/ Bind(t, "listen"))
  BY DEF worker, sender, receiver
<1> QED
  BY <1>1, <1>2, ThreadEnds, BindStep

\* receiver() listens.
LEMMA ListenStep == ASSUME Inv, NEW t \in Threads, Listen(t) PROVE Inv'
<1>1. CASE Listener(W(t).vLocalIP[1]) = {}
  <2>1. /\ pc[t] = "listen" /\ pc' = [pc EXCEPT ![t] = "accept"]
        /\ listening' = [listening EXCEPT ![t] = TRUE]
        /\ UNCHANGED <<vSockets, vThreads, status, total, expired, conn, conns>>
    BY <1>1 DEF Listen, ASSERT, Goto, At
  <2>2. Types'
    BY <2>1 DEF Inv, Types
  <2>3. pc'[t] = "accept" /\ W(t)' = W(t)
    BY <2>1 DEF Inv, Types, W
  <2>4. ThreadInv(t)
    BY DEF Inv
  <2>5. ThreadInv(t)'
    BY <2>1, <2>3, <2>4 DEF ThreadInv
  <2>6. \A u \in Threads : u # t => /\ pc'[u] = pc[u] /\ total'[u] = total[u]
                                    /\ conn'[u] = conn[u] /\ expired'[u] = expired[u]
    BY <2>1 DEF Inv, Types
  <2> QED
    BY <2>1, <2>2, <2>5, <2>6, OneThread
<1>2. CASE Listener(W(t).vLocalIP[1]) # {}
  BY <1>2, ThreadEnds DEF Listen, ASSERT
<1> QED
  BY <1>1, <1>2

\* do worker() while seconds == 0.
LEMMA socketWorkerThreadStep ==
  ASSUME Inv, NEW t \in Threads, socketWorkerThread(t) PROVE Inv'
<1>1. PICK where \in {"worker", "done"} :
        /\ pc[t] = "return" /\ pc' = [pc EXCEPT ![t] = where]
        /\ UNCHANGED <<vSockets, vThreads, status, total, expired, listening, conn, conns>>
  BY Zenon DEF socketWorkerThread, Goto, At
<1>2. Types'
  BY <1>1 DEF Inv, Types
<1>3. pc'[t] = where
  BY <1>1 DEF Inv, Types
<1>4. ThreadInv(t)
  BY DEF Inv
<1>5. ThreadInv(t)'
  BY <1>1, <1>3, <1>4, Zenon DEF ThreadInv
<1>6. \A u \in Threads : u # t => /\ pc'[u] = pc[u] /\ total'[u] = total[u]
                                  /\ conn'[u] = conn[u] /\ expired'[u] = expired[u]
  BY <1>1 DEF Inv, Types
<1> QED
  BY <1>1, <1>2, <1>5, <1>6, OneThread

\* The seconds of a thread are over.
LEMMA getusecsStep == ASSUME Inv, NEW t \in Threads, getusecs(t) PROVE Inv'
<1>1. /\ pc[t] \in {"send", "recv"} /\ expired' = [expired EXCEPT ![t] = TRUE]
      /\ UNCHANGED <<vSockets, vThreads, status, pc, total, listening, conn, conns>>
  BY DEF getusecs
<1>2. Types'
  BY <1>1 DEF Inv, Types
<1>3. ASSUME NEW u \in Threads PROVE ThreadInv(u)'
  <2>1. pc[u] = "close" => expired'[u] = expired[u]
    BY <1>1, Zenon DEF Inv, Types
  <2> QED
    BY <1>1, <2>1, ThreadKept, ConnOf, KeptSelf, Zenon DEF C
<1>4. ASSUME NEW c \in DOMAIN conns PROVE ConnInv(c)'
  BY <1>1 DEF Inv, ConnInv
<1> QED
  BY <1>1, <1>2, <1>3, <1>4 DEF Inv

\* A step that replaces one connection by one that is Kept of it, and moves one
\* thread.
LEMMA OneThreadOneConn ==
  ASSUME Inv, NEW t \in Threads, NEW c \in DOMAIN conns, NEW d \in Connections,
         conns' = [conns EXCEPT ![c] = d], d.tx = conns[c].tx,
         UNCHANGED <<vSockets, vThreads, status>>, Types',
         \A u \in Threads : u # t => /\ pc'[u] = pc[u] /\ total'[u] = total[u]
                                     /\ conn'[u] = conn[u] /\ expired'[u] = expired[u],
         \A u \in Threads : u # t /\ pc[u] \in {"recv", "close"} /\ conn[u] = c
                              => Kept(conns[c], d),
         ~d.accepted /\ d.lost = "no" => d.q = d.sent,
         d.finished => conns[c].finished,
         ThreadInv(t)'
  PROVE  Inv'
<1>1. /\ DOMAIN conns' = DOMAIN conns /\ conns'[c] = d
      /\ \A x \in DOMAIN conns : x # c => conns'[x] = conns[x]
  BY OneConn
<1>2. ASSUME NEW u \in Threads, u # t PROVE ThreadInv(u)'
  <2>1. pc[u] = "send" => conn[u] \in DOMAIN conns' /\ conns'[conn[u]].tx = C(u).tx
    BY <1>1, ConnOf DEF C
  <2>2. ASSUME pc[u] \in {"recv", "close"}
        PROVE  /\ conn[u] \in DOMAIN conns' /\ conns'[conn[u]] \in Connections
               /\ Kept(C(u), conns'[conn[u]])
    <3>1. conn[u] \in DOMAIN conns /\ C(u) \in Connections /\ C(u) = conns[conn[u]]
      BY <2>2, ConnOf DEF C
    <3>2. CASE conn[u] = c
      BY <1>1, <1>2, <2>2, <3>1, <3>2
    <3>3. CASE conn[u] # c
      BY <1>1, <3>1, <3>3, KeptSelf
    <3> QED
      BY <3>2, <3>3
  <2> QED
    BY <1>2, <2>1, <2>2, ThreadKept
<1>3. ASSUME NEW x \in DOMAIN conns PROVE ConnInv(x)'
  <2>1. ConnInv(x)
    BY DEF Inv
  <2> QED
    BY <1>1, <2>1 DEF ConnInv
<1> QED
  BY <1>1, <1>2, <1>3 DEF Inv

\* sender() connects.
LEMMA ConnectStep == ASSUME Inv, NEW t \in Threads, Connect(t) PROVE Inv'
<1> DEFINE ls == Listener(W(t).vDestIP[1])
<1>1. CASE ls # {}
  <2> DEFINE rx == CHOOSE l \in ls : TRUE
             new == [tx |-> t, rx |-> rx, accepted |-> FALSE, q |-> 0, sent |-> 0,
                     finished |-> FALSE, refused |-> FALSE, lost |-> "no"]
  <2>1. /\ pc[t] = "connect" /\ pc' = [pc EXCEPT ![t] = "send"]
        /\ conn' = [conn EXCEPT ![t] = Len(conns) + 1] /\ conns' = Append(conns, new)
        /\ UNCHANGED <<vSockets, vThreads, status, total, expired, listening>>
    BY <1>1 DEF Connect, ASSERT, Goto, At
  <2>2. rx \in Threads
    BY <1>1 DEF Listener
  <2> HIDE DEF rx
  <2>3. new \in Connections
    BY <2>2 DEF Connections
  <2>4. /\ new.tx = t /\ ~new.finished /\ new.q = new.sent
    OBVIOUS
  <2> HIDE DEF new
  <2>5. conns \in Seq(Connections)
    BY DEF Inv, Types
  <2>6. /\ conns' \in Seq(Connections) /\ Len(conns') = Len(conns) + 1
        /\ \A x \in 1..Len(conns) : conns'[x] = conns[x]
        /\ conns'[Len(conns) + 1] = new
    BY <2>1, <2>3, <2>5, AppendProperties
  <2>7. /\ DOMAIN conns = 1..Len(conns) /\ Len(conns) \in Nat
        /\ DOMAIN conns' = 1..(Len(conns) + 1)
    BY <2>5, <2>6
  <2>8. Types'
    BY <2>1, <2>6, <2>7 DEF Inv, Types
  <2>9. ThreadInv(t)'
    <3>1. pc'[t] = "send" /\ conn'[t] = Len(conns) + 1
      BY <2>1 DEF Inv, Types
    <3>2. C(t)' = new
      BY <2>6, <3>1 DEF C
    <3>3. W(t)' = W(t)
      BY <2>1 DEF W
    <3>4. ThreadInv(t)
      BY DEF Inv
    <3>5. pc[t] = "connect" /\ vThreads' = vThreads /\ vSockets' = vSockets
      BY <2>1
    <3>6. conn'[t] \in DOMAIN conns' /\ C(t)'.tx = t
      BY <2>4, <2>7, <3>1, <3>2
    <3> QED
      BY <3>1, <3>3, <3>4, <3>5, <3>6, Zenon DEF ThreadInv
  <2>10. ASSUME NEW u \in Threads, u # t PROVE ThreadInv(u)'
    <3>1. pc'[u] = pc[u] /\ conn'[u] = conn[u]
      BY <2>1, <2>10 DEF Inv, Types
    <3>2. ASSUME pc[u] \in {"send", "recv", "close"}
          PROVE  conn[u] \in DOMAIN conns' /\ conns'[conn[u]] = C(u) /\ C(u) \in Connections
      BY <2>6, <2>7, <3>2, ConnOf DEF C
    <3> QED
      BY <2>1, <3>1, <3>2, ThreadKept, KeptSelf
  <2>11. ASSUME NEW c \in DOMAIN conns' PROVE ConnInv(c)'
    <3>1. CASE c \in DOMAIN conns
      <4>1. ConnInv(c)
        BY <3>1 DEF Inv
      <4> QED
        BY <2>1, <2>6, <2>7, <3>1, <4>1 DEF ConnInv
    <3>2. CASE c = Len(conns) + 1
      BY <2>4, <2>6, <3>2 DEF ConnInv
    <3> QED
      BY <2>7, <3>1, <3>2
  <2> QED
    BY <2>8, <2>9, <2>10, <2>11 DEF Inv
<1>2. CASE ls = {}
  BY <1>2, ThreadEnds DEF Connect, ASSERT
<1> QED
  BY <1>1, <1>2

\* sender() sends a message.
LEMMA SendStep == ASSUME Inv, NEW t \in Threads, Send(t) PROVE Inv'
<1> DEFINE c == conn[t]
           o == conns[c]
           m == W(t).messageSize
           q == o.q + m
           sent == o.sent + m
           d == [o EXCEPT !.q = q, !.sent = sent]
<1>0. C(t) = o
  BY DEF C
<1>1. pc[t] = "send" /\ status[t[1]] = "run"
  BY DEF Send, At, Alive
<1>2. CASE SendOk(o)
  <2> DEFINE to == IF expired[t] \/ W(t).seconds = 0 THEN "return" ELSE "send"
  <2>a. /\ pc' = [pc EXCEPT ![t] = to] /\ total' = [total EXCEPT ![t] = @ + m]
        /\ conns' = [conns EXCEPT ![c] = d]
        /\ UNCHANGED <<vSockets, vThreads, status, expired, listening, conn>>
    <3>1. pc' = [pc EXCEPT ![t] = to]
      BY <1>0, <1>2 DEF Send, ASSERT, Goto
    <3>2. total' = [total EXCEPT ![t] = @ + m]
      BY <1>0, <1>2 DEF Send, ASSERT, Goto
    <3>3. conns' = [conns EXCEPT ![c] = d]
      BY <1>0, <1>2 DEF Send, ASSERT, Goto
    <3>4. UNCHANGED <<vSockets, vThreads, status, expired, listening, conn>>
      BY <1>0, <1>2 DEF Send, ASSERT, Goto
    <3> QED
      BY <3>1, <3>2, <3>3, <3>4
  <2>b. to \in {"return", "send"}
    OBVIOUS
  <2> HIDE DEF to, d
  <2>1. PICK where \in {"return", "send"} :
          /\ pc' = [pc EXCEPT ![t] = where] /\ total' = [total EXCEPT ![t] = @ + m]
          /\ conns' = [conns EXCEPT ![c] = d]
          /\ UNCHANGED <<vSockets, vThreads, status, expired, listening, conn>>
    BY <2>a, <2>b, Zenon
  <2>2. c \in DOMAIN conns /\ o \in Connections /\ ConnInv(c) /\ ThreadInv(t)
    BY <1>0, <1>1, ConnOf DEF Inv
  <2>3. m \in Int /\ m >= 0
    BY <1>1, <2>2, WorkerOf DEF ThreadInv
  <2>4. o.tx = t /\ ~o.finished
    BY <1>0, <1>1, <2>2 DEF ThreadInv, ConnInv
  <2>5. /\ d \in Connections /\ d.tx = o.tx /\ d.rx = o.rx /\ d.accepted = o.accepted
        /\ d.finished = o.finished /\ d.lost = o.lost /\ d.q = q /\ d.sent = sent
    <3>1. q \in Nat /\ sent \in Nat
      BY <2>2, <2>3, Fields
    <3> HIDE DEF o, q, sent
    <3> QED
      BY <2>2, <3>1, Zenon DEF Connections, d
  <2>6. Kept(o, d)
    <3>1. d.sent - d.q = o.sent - o.q
      <4>1. o.q \in Nat /\ o.sent \in Nat /\ d.q = o.q + m /\ d.sent = o.sent + m
        BY <2>2, <2>5, Fields
      <4> HIDE DEF o, m
      <4> QED
        BY <2>3, <4>1
    <3> HIDE DEF o
    <3> QED
      BY <2>4, <2>5, <3>1, Zenon DEF Kept
  <2>7. ~d.accepted /\ d.lost = "no" => d.q = d.sent
    BY <2>2, <2>5, Zenon DEF ConnInv
  <2>8. pc'[t] = where /\ total'[t] = total[t] + m /\ total[t] \in Int
    BY <2>1 DEF Inv, Types
  <2>9. \A u \in Threads : u # t => /\ pc'[u] = pc[u] /\ total'[u] = total[u]
                                    /\ conn'[u] = conn[u] /\ expired'[u] = expired[u]
    BY <2>1 DEF Inv, Types
  <2>10. /\ conns' \in Seq(Connections) /\ DOMAIN conns' = DOMAIN conns
         /\ conns'[c] = d
    BY <2>1, <2>2, <2>5, OneConn, Zenon
  <2>11. Types'
    BY <2>1, <2>3, <2>10 DEF Inv, Types
  <2>12. ThreadInv(t)'
    <3>1. C(t)' = d /\ W(t)' = W(t)
      BY <2>1, <2>10 DEF C, W
    <3> QED
      BY <1>1, <2>1, <2>2, <2>3, <2>4, <2>5, <2>8, <2>10, <3>1, Zenon DEF ThreadInv
  <2>13. PICK k, e : k = c /\ e = d
    OBVIOUS
  <2> HIDE DEF c, o
  <2>14. /\ k \in DOMAIN conns /\ e \in Connections /\ conns' = [conns EXCEPT ![k] = e]
         /\ e.tx = conns[k].tx /\ Kept(conns[k], e)
         /\ ~e.accepted /\ e.lost = "no" => e.q = e.sent
         /\ e.finished => conns[k].finished
    BY <2>1, <2>2, <2>5, <2>6, <2>7, <2>13 DEF o
  <2> QED
    BY <2>1, <2>9, <2>11, <2>12, <2>14, OneThreadOneConn, Zenon
<1>3. CASE ~SendOk(o)
  BY <1>0, <1>3, ThreadEnds DEF Send, ASSERT
<1> QED
  BY <1>2, <1>3

\* receiver() accepts the first connection that waits.
LEMMA AcceptStep == ASSUME Inv, NEW t \in Threads, Accept(t) PROVE Inv'
<1> DEFINE least == CHOOSE x \in Backlog(t) : \A y \in Backlog(t) : x <= y
<1>1. least \in Backlog(t)
  <2>1. Backlog(t) # {} /\ Backlog(t) \in SUBSET Nat
    BY DEF Accept, Backlog, Inv, Types
  <2> QED
    BY <2>1, NatMin
<1>2. PICK c : c = least
  OBVIOUS
<1> DEFINE o == conns[c]
           d == [o EXCEPT !.accepted = TRUE]
<1>3. /\ pc[t] = "accept" /\ pc' = [pc EXCEPT ![t] = "recv"]
      /\ conns' = [conns EXCEPT ![c] = d] /\ conn' = [conn EXCEPT ![t] = c]
      /\ UNCHANGED <<vSockets, vThreads, status, total, expired, listening>>
  BY <1>2 DEF Accept, Goto, At
<1>4. c \in DOMAIN conns /\ o.rx = t /\ ~o.accepted /\ c \in Nat
  BY <1>1, <1>2 DEF Backlog, Inv, Types
<1> HIDE DEF least
<1>5. o \in Connections /\ ConnInv(c) /\ ThreadInv(t)
  BY <1>4, ConnIn DEF Inv
<1>6. /\ d \in Connections /\ d.tx = o.tx /\ d.rx = o.rx /\ d.accepted
      /\ d.finished = o.finished /\ d.lost = o.lost /\ d.q = o.q /\ d.sent = o.sent
  BY <1>5, Zenon DEF Connections
<1>7. Kept(o, d)
  BY <1>5, <1>6, Fields DEF Kept
<1>8. pc'[t] = "recv" /\ conn'[t] = c
  BY <1>3 DEF Inv, Types
<1>9. \A u \in Threads : u # t => /\ pc'[u] = pc[u] /\ total'[u] = total[u]
                                  /\ conn'[u] = conn[u] /\ expired'[u] = expired[u]
  BY <1>3 DEF Inv, Types
<1>10. conns' \in Seq(Connections) /\ DOMAIN conns' = DOMAIN conns /\ conns'[c] = d
  <2> HIDE DEF d
  <2> QED
    BY <1>3, <1>4, <1>6, OneConn, Zenon
<1>11. Types'
  BY <1>3, <1>4, <1>10 DEF Inv, Types
<1>12. ThreadInv(t)'
  <2>1. C(t)' = d /\ W(t)' = W(t)
    BY <1>3, <1>8, <1>10 DEF C, W
  <2>2. o.q \in Nat /\ o.sent \in Nat /\ o.lost = "no" => o.q = o.sent
    BY <1>4, <1>5, Fields DEF ConnInv
  <2>3. total[t] = 0 /\ total'[t] = 0
    BY <1>3, <1>5 DEF ThreadInv
  <2>4. d.lost = "no" => total'[t] + d.q = d.sent
    BY <1>5, <1>6, <2>2, <2>3, Fields
  <2> HIDE DEF d
  <2> QED
    BY <1>3, <1>4, <1>5, <1>6, <1>8, <1>10, <2>1, <2>4 DEF ThreadInv
<1> HIDE DEF d
<1> QED
  BY <1>3, <1>4, <1>6, <1>7, <1>9, <1>11, <1>12, OneThreadOneConn, Zenon

\* receiver() receives.
LEMMA RecvStep == ASSUME Inv, NEW t \in Threads, Recv(t) PROVE Inv'
<1> DEFINE c == conn[t]
           o == conns[c]
           m == W(t).messageSize
           bytes == RecvBytes(o, m)
           left == IF bytes > 0 THEN o.q - bytes ELSE o.q
           d == [o EXCEPT !.q = left]
           where == IF ~expired[t] /\ bytes > 0 THEN "recv" ELSE "close"
<1>0. C(t) = o
  BY DEF C
<1>1. /\ pc[t] = "recv" /\ (o.q > 0 \/ o.finished \/ o.lost = "reset")
      /\ pc' = [pc EXCEPT ![t] = where] /\ total' = [total EXCEPT ![t] = @ + bytes]
      /\ conns' = [conns EXCEPT ![c] = d]
      /\ UNCHANGED <<vSockets, vThreads, status, expired, listening, conn>>
  <2>1. pc[t] = "recv" /\ (o.q > 0 \/ o.finished \/ o.lost = "reset")
    BY <1>0 DEF Recv, At
  <2>2. pc' = [pc EXCEPT ![t] = where]
    BY <1>0 DEF Recv, Goto
  <2>3. total' = [total EXCEPT ![t] = @ + bytes]
    BY <1>0 DEF Recv
  <2>4. conns' = [conns EXCEPT ![c] = d]
    BY <1>0 DEF Recv
  <2>5. UNCHANGED <<vSockets, vThreads, status, expired, listening, conn>>
    BY DEF Recv
  <2> QED
    BY <2>1, <2>2, <2>3, <2>4, <2>5
<1>2. c \in DOMAIN conns /\ o \in Connections /\ ThreadInv(t)
  BY <1>0, <1>1, ConnOf DEF Inv
<1>3. m \in Int /\ m >= 0
  BY <1>1, <1>2, WorkerOf DEF ThreadInv
<1>4. o.q \in Nat /\ o.sent \in Nat /\ o.rx = t /\ o.accepted
  BY <1>0, <1>1, <1>2, Fields DEF ThreadInv
<1>5. /\ bytes \in Int /\ bytes <= o.q
      /\ o.lost = "no" => bytes >= 0 /\ (bytes = 0 => o.q = 0 \/ m = 0)
  BY <1>3, <1>4 DEF RecvBytes
<1> HIDE DEF bytes
<1>6. left \in Nat /\ (o.lost = "no" => left = o.q - bytes)
  BY <1>4, <1>5
<1>7. where \in {"recv", "close"} /\ (where = "close" /\ ~expired[t] => ~(bytes > 0))
  OBVIOUS
<1> HIDE DEF left, where
<1>8. /\ d \in Connections /\ d.tx = o.tx /\ d.rx = o.rx /\ d.accepted = o.accepted
      /\ d.finished = o.finished /\ d.lost = o.lost /\ d.q = left /\ d.sent = o.sent
  BY <1>2, <1>6 DEF Connections
<1> HIDE DEF d
<1>9. pc'[t] = where /\ total'[t] = total[t] + bytes /\ total[t] \in Int
  BY <1>1 DEF Inv, Types
<1>10. \A u \in Threads : u # t => /\ pc'[u] = pc[u] /\ total'[u] = total[u]
                                   /\ conn'[u] = conn[u] /\ expired'[u] = expired[u]
  BY <1>1 DEF Inv, Types
<1>11. conns' \in Seq(Connections) /\ DOMAIN conns' = DOMAIN conns /\ conns'[c] = d
  BY <1>1, <1>2, <1>8, OneConn, Zenon
<1>12. Types'
  BY <1>1, <1>5, <1>7, <1>11 DEF Inv, Types
<1>13. ThreadInv(t)'
  <2>1. C(t)' = d /\ W(t)' = W(t)
    BY <1>1, <1>11, Zenon DEF C, W
  <2>a. o.lost = "no" => total[t] + o.q = o.sent
    BY <1>0, <1>1, <1>2, Zenon DEF ThreadInv
  <2>b. PICK q, n, b : q = o.q /\ n = o.sent /\ b = bytes
    OBVIOUS
  <2>2. d.lost = "no" => total'[t] + d.q = d.sent
    <3>1. q \in Nat /\ n \in Nat /\ b \in Int
      BY <1>4, <1>5, <2>b, Zenon
    <3>2. d.q = left /\ d.sent = n /\ d.lost = o.lost /\ total'[t] = total[t] + b
      BY <1>8, <1>9, <2>b
    <3>3. o.lost = "no" => left = q - b /\ total[t] + q = n
      BY <1>6, <2>a, <2>b
    <3> HIDE DEF o
    <3> QED
      BY <1>9, <3>1, <3>2, <3>3
  <2>3. o.lost = "no" /\ where = "close" /\ ~expired[t] /\ m > 0 => o.q = 0 /\ left = 0 /\ o.finished
    <3> SUFFICES ASSUME o.lost = "no", where = "close", ~expired[t], m > 0
                 PROVE  o.q = 0 /\ left = 0 /\ o.finished
      OBVIOUS
    <3>1. b \in Int /\ b >= 0 /\ ~(b > 0) /\ (b = 0 => q = 0 \/ m = 0) /\ left = q - b
      BY <1>5, <1>6, <1>7, <2>b
    <3> HIDE DEF o, m
    <3>2. b = 0
      BY <3>1
    <3>3. m # 0
      BY <1>3
    <3>4. q = 0 /\ left = 0
      BY <3>1, <3>2, <3>3
    <3>5. o.q = 0 /\ ~(o.q > 0)
      BY <2>b, <3>4
    <3> QED
      BY <1>1, <3>4, <3>5, Zenon
  <2>4. d.lost = "no" /\ pc'[t] = "close" /\ ~expired'[t] /\ W(t)'.messageSize > 0 =>
          d.finished /\ d.q = 0
    BY <1>1, <1>8, <1>9, <2>1, <2>3, Zenon
  <2> QED
    BY <1>1, <1>2, <1>3, <1>4, <1>7, <1>8, <1>9, <1>11, <2>1, <2>2, <2>4, Zenon DEF ThreadInv
<1>14. ASSUME NEW u \in Threads, u # t, pc[u] \in {"recv", "close"}, conn[u] = c PROVE FALSE
  <2>1. C(u).rx = u
    BY <1>14, Zenon DEF Inv, ThreadInv
  <2> QED
    BY <1>4, <1>14, <2>1 DEF C
<1>15. PICK k, e : k = c /\ e = d
  OBVIOUS
<1> HIDE DEF c
<1>16. /\ k \in DOMAIN conns /\ e \in Connections /\ conns' = [conns EXCEPT ![k] = e]
       /\ e.tx = conns[k].tx /\ e.accepted /\ (e.finished => conns[k].finished)
  BY <1>1, <1>2, <1>4, <1>8, <1>15, Zenon DEF o
<1>17. ASSUME NEW u \in Threads, u # t, pc[u] \in {"recv", "close"}, conn[u] = k PROVE FALSE
  BY <1>14, <1>15, <1>17, Zenon
<1>18. UNCHANGED <<vSockets, vThreads, status>>
  BY <1>1
<1> HIDE DEF o, m
<1> QED
  BY <1>10, <1>12, <1>13, <1>16, <1>17, <1>18, OneThreadOneConn, Zenon

\* receiver() closes its listening socket.
LEMMA CloseStep == ASSUME Inv, NEW t \in Threads, Close(t) PROVE Inv'
<1>1. /\ pc[t] = "close" /\ pc' = [pc EXCEPT ![t] = "return"]
      /\ listening' = [listening EXCEPT ![t] = FALSE]
      /\ UNCHANGED <<vSockets, vThreads, status, total, expired, conn>>
  BY DEF Close, At, Goto
<1>2. ASSUME NEW c \in DOMAIN conns
      PROVE  /\ conns'[c] \in Connections /\ Kept(conns[c], conns'[c]) /\ ConnInv(c)'
             /\ conns'[c].tx = conns[c].tx
  <2> DEFINE o == conns[c]
             ref == o.refused \/ c \in Backlog(t)
             d == [o EXCEPT !.refused = ref]
  <2>1. o \in Connections /\ ConnInv(c)
    BY ConnIn DEF Inv
  <2>2. ref \in BOOLEAN
    OBVIOUS
  <2>3. conns'[c] = d
    BY DEF Close
  <2> HIDE DEF ref
  <2>4. /\ d \in Connections /\ d.tx = o.tx /\ d.rx = o.rx /\ d.q = o.q /\ d.sent = o.sent
        /\ d.lost = o.lost /\ d.accepted = o.accepted /\ d.finished = o.finished
    BY <2>1, <2>2 DEF Connections
  <2> HIDE DEF d
  <2>5. Kept(o, d)
    BY <2>1, <2>4, Fields DEF Kept
  <2> QED
    BY <1>1, <2>1, <2>3, <2>4, <2>5, Zenon DEF ConnInv
<1>3. conns' \in Seq(Connections) /\ DOMAIN conns' = DOMAIN conns
  <2> DEFINE f == conns'
  <2>1. f = [c \in DOMAIN conns |-> f[c]]
    BY DEF Close
  <2>2. \A c \in DOMAIN conns : f[c] \in Connections
    BY <1>2
  <2> HIDE DEF f
  <2>3. f \in Seq(Connections) /\ DOMAIN f = DOMAIN conns
    BY <2>1, <2>2, AllConns
  <2> QED
    BY <2>3 DEF f
<1>4. Types'
  BY <1>1, <1>3, Zenon DEF Inv, Types
<1>5. ThreadInv(t)'
  <2>1. pc'[t] = "return" /\ ThreadInv(t)
    BY <1>1 DEF Inv, Types
  <2> QED
    BY <1>1, <2>1, Zenon DEF ThreadInv
<1>6. ASSUME NEW u \in Threads, u # t PROVE ThreadInv(u)'
  <2>1. pc'[u] = pc[u]
    BY <1>1, <1>6 DEF Inv, Types
  <2> QED
    BY <1>1, <1>2, <1>3, <2>1, ThreadKept, ConnOf, Zenon DEF C
<1> QED
  BY <1>2, <1>3, <1>4, <1>5, <1>6 DEF Inv

\* The network loses a connection.
LEMMA BreakStep == ASSUME Inv, NEW c \in DOMAIN conns, Break(c) PROVE Inv'
<1> DEFINE o == conns[c]
<1>1. PICK how \in {"stall", "reset"}, k \in 0..o.q :
        conns' = [conns EXCEPT ![c] = [o EXCEPT !.lost = how, !.q = k]]
  BY Zenon DEF Break
<1> DEFINE d == [o EXCEPT !.lost = how, !.q = k]
<1>2. UNCHANGED <<vSockets, vThreads, status, pc, total, expired, listening, conn>>
  BY DEF Break, thread
<1>3. o \in Connections /\ o.q \in Nat
  BY ConnIn, Fields
<1>4. k \in Nat
  BY <1>3
<1>5. /\ d \in Connections /\ d.tx = o.tx /\ d.rx = o.rx /\ d.lost = how
      /\ d.accepted = o.accepted /\ d.finished = o.finished
  BY <1>3, <1>4, Zenon DEF Connections
<1> HIDE DEF d
<1>6. Kept(o, d)
  BY <1>5 DEF Kept
<1>7. /\ conns' \in Seq(Connections) /\ DOMAIN conns' = DOMAIN conns /\ conns'[c] = d
      /\ \A x \in DOMAIN conns : x # c => conns'[x] = conns[x]
  BY <1>1, <1>5, OneConn, Zenon DEF d
<1>8. Types'
  BY <1>2, <1>7 DEF Inv, Types
<1>9. ASSUME NEW x \in DOMAIN conns
      PROVE  /\ conns'[x] \in Connections /\ Kept(conns[x], conns'[x])
             /\ conns'[x].tx = conns[x].tx
  BY <1>5, <1>6, <1>7, ConnIn, KeptSelf
<1>10. ASSUME NEW u \in Threads PROVE ThreadInv(u)'
  BY <1>2, <1>7, <1>9, ThreadKept, ConnOf, Zenon DEF C
<1>11. ASSUME NEW x \in DOMAIN conns PROVE ConnInv(x)'
  <2>1. ConnInv(x)
    BY DEF Inv
  <2> QED
    BY <1>2, <1>5, <1>7, <2>1, Zenon DEF ConnInv
<1> QED
  BY <1>7, <1>8, <1>10, <1>11, Zenon DEF Inv

\* The workers of the command lines, and no thread.
LEMMA InitInv == Init => Inv
<1> SUFFICES ASSUME Init PROVE Inv
  OBVIOUS
<1>1. PICK c \in CommandLines, j \in Junk :
        /\ vSockets = [p \in Processes |-> Parse(c[p], j).list]
        /\ status = [p \in Processes |-> IF Parse(c[p], j).ok THEN "run" ELSE "exit"]
  BY DEF Init
<1>2. j \in Int /\ \A p \in Processes : c[p] \in Seq(STRING \X Int)
  BY SocketWorkersAssumption
<1>3. \A p \in Processes : Parse(c[p], j).list \in Seq(Workers)
  BY <1>2, ParsedWorkers
<1>4. vSockets \in [Processes -> Seq(Workers)]
  BY <1>1, <1>3
<1>5. status \in [Processes -> {"run", "ok", "exit", "abort"}]
  BY <1>1
<1>6. Types /\ conns = <<>> /\ \A t \in Threads : pc[t] = "none"
  BY <1>4, <1>5 DEF Init, Types
<1> QED
  BY <1>6 DEF Inv, ThreadInv

\* The invariant is inductive: one lemma for each action.
LEMMA InvStep == Inv /\ [Next]_vars => Inv'
<1> SUFFICES ASSUME Inv, [Next]_vars PROVE Inv'
  OBVIOUS
<1>1. ASSUME NEW p \in Processes, startWorker(p) \/ Join(p) PROVE Inv'
  BY <1>1, startWorkerStep, EndStep DEF Join
<1>2. ASSUME NEW t \in Threads, Thread(t) PROVE Inv'
  BY <1>2, workerStep, ConnectStep, SendStep, ListenStep, AcceptStep, RecvStep, CloseStep,
     socketWorkerThreadStep, getusecsStep DEF Thread
<1>3. ASSUME NEW c \in DOMAIN conns, Break(c) PROVE Inv'
  BY <1>3, BreakStep
<1>4. CASE UNCHANGED vars
  BY <1>4, Zenon DEF vars, Inv, Types, ThreadInv, ConnInv, C, W
<1> QED
  BY <1>1, <1>2, <1>3, <1>4 DEF Next

\* With nothing queued, what was counted is what was sent.
LEMMA NoneQueued ==
  ASSUME NEW n \in Int, NEW q \in Nat, NEW sent \in Nat, n + q = sent, q = 0
  PROVE  n = sent
OBVIOUS

\* receiver() counts every byte once, and one that stops before its time has
\* counted all of what sender() put on its connection: for any processes and any
\* command lines, any capacity of the kernel's buffers and any number of
\* connections made and lost.
THEOREM ReceivedEverythingThm == Spec => []ReceivedEverything
<1>1. Inv => ReceivedEverything
  <2> SUFFICES ASSUME Inv, NEW t \in Threads, pc[t] \in {"recv", "close"}, C(t).lost = "no"
               PROVE  /\ total[t] + C(t).q = C(t).sent
                      /\ pc[t] = "close" /\ ~expired[t] /\ W(t).messageSize > 0 =>
                           C(t).finished /\ total[t] = C(t).sent
    BY Zenon DEF ReceivedEverything
  <2>1. ThreadInv(t) /\ C(t).q \in Nat /\ C(t).sent \in Nat /\ total[t] \in Int
    BY ConnOf, Fields DEF Inv, Types
  <2>2. /\ total[t] + C(t).q = C(t).sent
        /\ pc[t] = "close" /\ ~expired[t] /\ W(t).messageSize > 0 => C(t).finished /\ C(t).q = 0
    BY <2>1, Zenon DEF ThreadInv
  <2>3. C(t).q = 0 => total[t] = C(t).sent
    BY <2>1, <2>2, NoneQueued, Zenon
  <2> QED
    BY <2>2, <2>3, Zenon
<1> QED
  BY InitInv, InvStep, <1>1, PTL DEF Spec
-----------------------------------------------------------------------------
(* The TFTP test.  The bytes of a seed are a recursive function; that there  *)
(* is one, and that it forgets nothing of the seed's low byte, is shown by   *)
(* least counterexamples.                                                    *)

\* The first m + 1 iterates of g from s0 on.
Parts(s0, g, m) ==
  {f \in [0..m -> Nat] : f[0] = s0 /\ \A j \in 0..(m - 1) : f[j + 1] = g[f[j]]}

LEMMA PartsExist ==
  ASSUME NEW s0 \in Nat, NEW g \in [Nat -> Nat]
  PROVE  \A m \in Nat : Parts(s0, g, m) # {}
<1> DEFINE Bad == {m \in Nat : Parts(s0, g, m) = {}}
<1> SUFFICES ASSUME Bad # {} PROVE FALSE
  OBVIOUS
<1>1. PICK m \in Bad : \A y \in Bad : m <= y
  BY NatMin, Zenon
<1>2. m \in Nat /\ Parts(s0, g, m) = {}
  OBVIOUS
<1>3. CASE m = 0
  <2>1. [j \in 0..0 |-> s0] \in Parts(s0, g, 0)
    BY DEF Parts
  <2> QED
    BY <1>2, <1>3, <2>1
<1>4. CASE m # 0
  <2>1. m - 1 \in Nat /\ ~(m <= m - 1)
    BY <1>2, <1>4
  <2>2. PICK f \in Parts(s0, g, m - 1) : TRUE
    BY <1>1, <2>1
  <2>3. /\ f \in [0..(m - 1) -> Nat] /\ f[0] = s0
        /\ \A j \in 0..(m - 2) : f[j + 1] = g[f[j]]
    <3>1. (m - 1) - 1 = m - 2
      BY <1>2
    <3> QED
      BY <2>2, <3>1, Zenon DEF Parts
  <2> DEFINE h == [j \in 0..m |-> IF j = m THEN g[f[m - 1]] ELSE f[j]]
  <2>4. h \in [0..m -> Nat]
    <3>1. \A j \in 0..m : j # m => j \in 0..(m - 1)
      BY <1>2
    <3>2. m - 1 \in 0..(m - 1)
      BY <2>1
    <3>3. \A j \in 0..m : h[j] \in Nat
      BY <2>3, <3>1, <3>2, Zenon
    <3> QED
      BY <3>3
  <2>5. h[0] = s0
    BY <1>2, <1>4, <2>3
  <2>6. ASSUME NEW j \in 0..(m - 1) PROVE h[j + 1] = g[h[j]]
    <3>1. /\ j \in 0..m /\ j + 1 \in 0..m /\ j # m
          /\ j + 1 = m <=> j = m - 1
          /\ j # m - 1 => j \in 0..(m - 2)
      BY <1>2, <1>4
    <3>2. CASE j = m - 1
      BY <3>1, <3>2
    <3>3. CASE j # m - 1
      <4>1. h[j + 1] = f[j + 1] /\ h[j] = f[j]
        BY <3>1, <3>3
      <4> QED
        BY <2>3, <3>1, <3>3, <4>1, Zenon
    <3> QED
      BY <3>2, <3>3
  <2>7. h \in Parts(s0, g, m)
    <3> HIDE DEF h
    <3> QED
      BY <2>4, <2>5, <2>6, Zenon DEF Parts
  <2> QED
    BY <1>2, <2>7
<1> QED
  BY <1>3, <1>4

LEMMA PartsAgree ==
  ASSUME NEW s0 \in Nat, NEW g \in [Nat -> Nat], NEW m \in Nat,
         NEW f \in Parts(s0, g, m), NEW h \in Parts(s0, g, m + 1)
  PROVE  f[m] = h[m]
<1> DEFINE Bad == {j \in 0..m : f[j] # h[j]}
<1>0. /\ f[0] = s0 /\ \A j \in 0..(m - 1) : f[j + 1] = g[f[j]]
      /\ h[0] = s0 /\ \A j \in 0..m : h[j + 1] = g[h[j]]
  <2>1. (m + 1) - 1 = m
    OBVIOUS
  <2> QED
    BY <2>1 DEF Parts
<1>1. ASSUME Bad # {} PROVE FALSE
  <2>1. Bad \in SUBSET Nat
    OBVIOUS
  <2>2. PICK j \in Bad : \A y \in Bad : j <= y
    BY <1>1, <2>1, NatMin, Zenon
  <2>3. j \in 0..m /\ f[j] # h[j]
    OBVIOUS
  <2>4. j # 0
    BY <1>0, <2>3
  <2>5. j - 1 \in 0..(m - 1) /\ j - 1 \in 0..m /\ ~(j <= j - 1) /\ (j - 1) + 1 = j
    BY <2>3, <2>4
  <2>6. f[j - 1] = h[j - 1]
    BY <2>2, <2>5
  <2>7. f[j] = g[f[j - 1]] /\ h[j] = g[h[j - 1]]
    BY <1>0, <2>5
  <2> QED
    BY <2>3, <2>6, <2>7
<1>2. m \in 0..m
  OBVIOUS
<1> QED
  BY <1>1, <1>2

\* Iterating a function gives a function on the naturals.
LEMMA Iterates ==
  ASSUME NEW s0 \in Nat, NEW g \in [Nat -> Nat]
  PROVE  \E f \in [Nat -> Nat] : f[0] = s0 /\ \A m \in Nat : f[m + 1] = g[f[m]]
<1> DEFINE Part(m) == CHOOSE f : f \in Parts(s0, g, m)
           F == [m \in Nat |-> Part(m)[m]]
<1>1. \A m \in Nat : Part(m) \in Parts(s0, g, m)
  BY PartsExist
<1>2. \A m \in Nat : F[m] = Part(m)[m]
  OBVIOUS
<1> HIDE DEF Part
<1>3. F \in [Nat -> Nat]
  <2>1. ASSUME NEW m \in Nat PROVE Part(m)[m] \in Nat
    <3>1. Part(m) \in [0..m -> Nat] /\ m \in 0..m
      BY <1>1 DEF Parts
    <3> QED
      BY <3>1
  <2> QED
    BY <2>1
<1>4. F[0] = s0
  BY <1>1, <1>2 DEF Parts
<1>5. ASSUME NEW m \in Nat PROVE F[m + 1] = g[F[m]]
  <2>1. Part(m + 1) \in Parts(s0, g, m + 1) /\ Part(m) \in Parts(s0, g, m)
    BY <1>1
  <2>2. Part(m + 1)[m + 1] = g[Part(m + 1)[m]]
    <3>1. m \in 0..((m + 1) - 1)
      OBVIOUS
    <3> QED
      BY <2>1, <3>1 DEF Parts
  <2>3. Part(m)[m] = Part(m + 1)[m]
    BY <2>1, PartsAgree
  <2>4. m + 1 \in Nat
    OBVIOUS
  <2> QED
    BY <1>2, <2>2, <2>3, <2>4
<1> HIDE DEF F
<1> QED
  BY <1>3, <1>4, <1>5
-----------------------------------------------------------------------------
\* The bytes of a seed begin with the seed and go on with myrand.
LEMMA BytesStep ==
  ASSUME NEW seed \in Nat
  PROVE  /\ Bytes(seed)[0] = seed
         /\ \A m \in Nat : Bytes(seed)[m + 1] = myrand(Bytes(seed)[m]) /\ Bytes(seed)[m] \in Nat
<1> DEFINE Eqn(f) == f = [m \in Nat |-> IF m = 0 THEN seed ELSE myrand(f[m - 1])]
<1>0. \A x \in Nat : (x * 109 + 57) % 256 \in Nat
  OBVIOUS
<1>1. [x \in Nat |-> myrand(x)] \in [Nat -> Nat]
  BY <1>0 DEF myrand
<1>2. PICK g \in [Nat -> Nat] : \A x \in Nat : g[x] = myrand(x)
  BY <1>1, Zenon
<1>a. \E f \in [Nat -> Nat] : f[0] = seed /\ \A m \in Nat : f[m + 1] = g[f[m]]
  <2> HIDE DEF Eqn
  <2> QED
    BY Iterates, Zenon
<1>3. PICK f \in [Nat -> Nat] : f[0] = seed /\ \A m \in Nat : f[m + 1] = g[f[m]]
  BY <1>a, Zenon
<1>4. Eqn(f)
  <2>1. ASSUME NEW m \in Nat, m # 0 PROVE f[m] = myrand(f[m - 1])
    <3>1. m - 1 \in Nat /\ (m - 1) + 1 = m
      BY <2>1
    <3>2. f[m] = g[f[m - 1]] /\ f[m - 1] \in Nat
      BY <1>3, <3>1
    <3> QED
      BY <1>2, <3>2
  <2> QED
    BY <1>3, <2>1
<1>5. Bytes(seed) = CHOOSE b : Eqn(b)
  BY DEF Bytes
<1>6. Eqn(Bytes(seed))
  <2> HIDE DEF Eqn
  <2> QED
    BY <1>4, <1>5
<1>7. /\ Bytes(seed)[0] = seed
      /\ \A m \in Nat : m # 0 => Bytes(seed)[m] = myrand(Bytes(seed)[m - 1])
  <2> DEFINE B == Bytes(seed)
  <2>1. B = [m \in Nat |-> IF m = 0 THEN seed ELSE myrand(B[m - 1])]
    BY <1>6
  <2> HIDE DEF B
  <2>2. /\ B[0] = seed /\ \A m \in Nat : m # 0 => B[m] = myrand(B[m - 1])
    BY <2>1
  <2> QED
    BY <2>2 DEF B
<1>8. ASSUME NEW m \in Nat PROVE Bytes(seed)[m + 1] = myrand(Bytes(seed)[m])
  <2>1. m + 1 \in Nat /\ m + 1 # 0 /\ (m + 1) - 1 = m
    OBVIOUS
  <2> QED
    BY <1>7, <2>1
<1>9. ASSUME NEW m \in Nat PROVE Bytes(seed)[m] \in Nat
  <2> DEFINE Bad == {j \in Nat : Bytes(seed)[j] \notin Nat}
  <2>1. ASSUME Bad # {} PROVE FALSE
    <3>1. PICK j \in Bad : \A y \in Bad : j <= y
      BY <2>1, NatMin, Zenon
    <3>2. j # 0
      BY <1>7
    <3>3. j - 1 \in Nat /\ ~(j <= j - 1) /\ j \in Nat
      BY <3>2
    <3>4. Bytes(seed)[j - 1] \in Nat
      BY <3>1, <3>3
    <3>5. Bytes(seed)[j] = myrand(Bytes(seed)[j - 1])
      BY <1>7, <3>2, <3>3
    <3>6. myrand(Bytes(seed)[j - 1]) \in Nat
      BY <1>0, <3>4 DEF myrand
    <3> QED
      BY <3>5, <3>6
  <2> QED
    BY <2>1
<1> QED
  BY <1>7, <1>8, <1>9

\* myrand forgets nothing of the low byte: 109 * 101 = 1 + 43 * 256.
LEMMA myrandLow ==
  ASSUME NEW x \in Nat, NEW y \in Nat, myrand(x) % 256 = myrand(y) % 256
  PROVE  x % 256 = y % 256
<1>1. (x * 109 + 57) % 256 = (y * 109 + 57) % 256
  BY DEF myrand
<1> QED
  BY <1>1, Z3

\* Two seeds with the same byte at the same place have the same low byte.
LEMMA SameLow ==
  ASSUME NEW o \in Nat, NEW s \in Nat, NEW m \in Nat, Bytes(o)[m] = Bytes(s)[m]
  PROVE  o % 256 = s % 256
<1> DEFINE Same == {j \in Nat : Bytes(o)[j] % 256 = Bytes(s)[j] % 256}
<1>1. PICK j \in Same : \A y \in Same : j <= y
  <2>1. m \in Same /\ Same \in SUBSET Nat
    OBVIOUS
  <2> HIDE DEF Same
  <2> QED
    BY <2>1, NatMin
<1>2. CASE j = 0
  BY <1>2, BytesStep
<1>3. CASE j # 0
  <2>1. j \in Nat /\ j - 1 \in Nat /\ ~(j <= j - 1) /\ (j - 1) + 1 = j
    BY <1>3
  <2>2. /\ Bytes(o)[j] = myrand(Bytes(o)[j - 1]) /\ Bytes(o)[j - 1] \in Nat
        /\ Bytes(s)[j] = myrand(Bytes(s)[j - 1]) /\ Bytes(s)[j - 1] \in Nat
    <3>1. \A z \in Nat, i \in Nat : Bytes(z)[i + 1] = myrand(Bytes(z)[i]) /\ Bytes(z)[i] \in Nat
      BY BytesStep
    <3> QED
      BY <2>1, <3>1
  <2>3. Bytes(o)[j] % 256 = Bytes(s)[j] % 256
    OBVIOUS
  <2>4. Bytes(o)[j - 1] % 256 = Bytes(s)[j - 1] % 256
    BY <2>2, <2>3, myrandLow
  <2> QED
    BY <1>1, <2>1, <2>4
<1> QED
  BY <1>2, <1>3
-----------------------------------------------------------------------------
TftpTypes ==
  /\ hostfile \in Seq(Nat) /\ ram \in [1..Cells -> Nat] /\ origin \in [1..Cells -> Nat \union {-1}]
  /\ moved \in Nat /\ intact \in BOOLEAN /\ whole \in BOOLEAN

\* What creatf wrote.
FileInv ==
  /\ \A c \in 3..Len(hostfile) : hostfile[c] = Bytes(hostfile[2])[c - 2]
  /\ whole => Len(hostfile) >= 2 /\ Len(hostfile) = 2 + hostfile[1]

\* A byte of memory that a transfer left unchanged is a byte of its file's seed.
OriginInv ==
  \A c \in 3..Cells : origin[c] # -1 => ram[c] = Bytes(origin[c])[c - 2]

\* After an undamaged transfer the memory begins with what was moved.
MovedInv ==
  verdict # "none" /\ intact => \A c \in 1..Cells : c <= moved => ram[c] = hostfile[c]

VerdictInv ==
  /\ verdict \in {"none", "loaded", "usage", "wild", "fail", "pass"}
  /\ verdict = "pass" => Compare
  /\ verdict = "fail" => ~Compare

TftpInv == TftpTypes /\ FileInv /\ OriginInv /\ MovedInv /\ VerdictInv

LEMMA CellsNat == Cells \in Nat /\ Cells = 2 + Checked
BY TftpAssumption DEF Cells

\* A file, whole or not, has the bytes of its seed.
LEMMA creatfStep == ASSUME TftpInv, creatf PROVE TftpInv'
<1> USE DEF TftpInv
<1>0. PICK seed \in Seeds, size \in Sizes :
        \E l \in {0, Len(<<size, seed>> \o Stream(seed, size)) - 1,
                  Len(<<size, seed>> \o Stream(seed, size))} :
          /\ hostfile' = SubSeq(<<size, seed>> \o Stream(seed, size), 1, l)
          /\ whole' = (l = Len(<<size, seed>> \o Stream(seed, size)))
  BY DEF creatf
<1> DEFINE all == <<size, seed>> \o Stream(seed, size)
<1>1. seed \in Nat /\ size \in Nat
  BY TftpAssumption
<1>2. Stream(seed, size) \in Seq(Nat) /\ Len(Stream(seed, size)) = size
      /\ \A j \in 1..size : Stream(seed, size)[j] = Bytes(seed)[j]
  <2>1. \A j \in 1..size : Bytes(seed)[j] \in Nat
    BY <1>1, BytesStep
  <2> QED
    BY <1>1, <2>1 DEF Stream
<1>3. /\ all \in Seq(Nat) /\ Len(all) = 2 + size /\ all[1] = size /\ all[2] = seed
      /\ \A c \in 3..Len(all) : all[c] = Bytes(seed)[c - 2]
  <2> DEFINE two == <<size, seed>>
             str == Stream(seed, size)
  <2>0. two \in Seq(Nat) /\ Len(two) = 2 /\ two[1] = size /\ two[2] = seed
    BY <1>1
  <2>1. str \in Seq(Nat) /\ Len(str) = size /\ \A j \in 1..size : str[j] = Bytes(seed)[j]
    BY <1>2
  <2> HIDE DEF two, str
  <2>a. /\ two \o str \in Seq(Nat) /\ Len(two \o str) = Len(two) + Len(str)
        /\ \A c \in 1..(Len(two) + Len(str)) :
             (two \o str)[c] = IF c <= Len(two) THEN two[c] ELSE str[c - Len(two)]
    BY <2>0, <2>1, ConcatProperties, Zenon
  <2>b. 1 \in 1..(2 + size) /\ 2 \in 1..(2 + size) /\ 1 <= 2 /\ 2 <= 2
    BY <1>1
  <2>2. /\ two \o str \in Seq(Nat) /\ Len(two \o str) = 2 + size
        /\ (two \o str)[1] = size /\ (two \o str)[2] = seed
    BY <2>0, <2>1, <2>a, <2>b
  <2>3. ASSUME NEW c \in 3..(2 + size) PROVE (two \o str)[c] = Bytes(seed)[c - 2]
    <3>1. c - 2 \in 1..size /\ ~(c <= 2) /\ c \in 1..(2 + size)
      BY <1>1
    <3>2. (two \o str)[c] = str[c - 2]
      BY <2>0, <2>1, <2>a, <3>1
    <3> QED
      BY <2>1, <3>1, <3>2
  <2> QED
    BY <2>2, <2>3 DEF two, str
<1> HIDE DEF all
<1>4. PICK l \in {0, Len(all) - 1, Len(all)} : hostfile' = SubSeq(all, 1, l) /\ whole' = (l = Len(all))
  BY <1>0 DEF all
<1>5. l \in 0..Len(all)
  BY <1>1, <1>3, <1>4
<1>6. /\ hostfile' \in Seq(Nat) /\ Len(hostfile') = l
      /\ \A c \in 1..l : hostfile'[c] = all[c]
  <2>1. /\ SubSeq(all, 1, l) \in Seq(Nat) /\ Len(SubSeq(all, 1, l)) = l - 1 + 1
        /\ \A c \in 1..(l - 1 + 1) : SubSeq(all, 1, l)[c] = all[1 + c - 1]
    <3>1. all \in Seq(Nat) /\ 1 \in 1..(Len(all) + 1) /\ l \in (1 - 1)..Len(all)
      BY <1>1, <1>3, <1>5
    <3> QED
      BY <3>1, SubSeqProperties
  <2>2. l - 1 + 1 = l /\ \A c \in 1..l : 1 + c - 1 = c
    BY <1>3, <1>5
  <2> QED
    BY <1>4, <2>1, <2>2
<1>7. whole' \in BOOLEAN
  BY <1>4
<1>8. FileInv'
  <2>1. ASSUME NEW c \in 3..Len(hostfile') PROVE hostfile'[c] = Bytes(hostfile'[2])[c - 2]
    <3>1. c \in 1..l /\ 2 \in 1..l /\ c \in 3..Len(all)
      BY <1>1, <1>3, <1>5, <1>6
    <3> QED
      BY <1>3, <1>6, <3>1, Zenon
  <2>2. ASSUME whole' PROVE Len(hostfile') >= 2 /\ Len(hostfile') = 2 + hostfile'[1]
    <3>0. l = Len(all)
      BY <1>4, <2>2, Zenon
    <3>1. l = Len(all) /\ l >= 2 /\ 1 \in 1..l
      BY <1>1, <1>3, <3>0
    <3> QED
      BY <1>3, <1>6, <3>1
  <2> QED
    BY <2>1, <2>2 DEF FileInv
<1>9. verdict' = "none" /\ UNCHANGED <<ram, moved, intact, origin>>
  BY DEF creatf
<1> QED
  BY <1>6, <1>7, <1>8, <1>9 DEF TftpTypes, OriginInv, MovedInv, VerdictInv

\* A transfer brings bytes of the file's seed, or damaged ones.
LEMMA tftpStep == ASSUME TftpInv, tftp PROVE TftpInv'
<1> USE DEF TftpInv
<1>1. PICK l \in 0..Len(hostfile), bad \in {0, 2, 3} :
       /\ bad <= l
       /\ ram' = [c \in 1..Cells |-> IF c > l THEN ram[c]
                                     ELSE IF c = bad THEN (hostfile[c] + 1) % 256 ELSE hostfile[c]]
       /\ origin' = [c \in 1..Cells |-> IF c > l THEN origin[c]
                       ELSE IF c = bad \/ Len(hostfile) < 2 THEN -1 ELSE hostfile[2]]
       /\ moved' = l /\ intact' = (bad = 0)
  BY DEF tftp
<1>2. verdict' = "loaded" /\ UNCHANGED <<hostfile, whole>>
  BY DEF tftp
<1>3. Len(hostfile) \in Nat /\ \A c \in 1..Len(hostfile) : hostfile[c] \in Nat
  BY DEF TftpTypes
<1>4. l \in Nat /\ l <= Len(hostfile) /\ Cells \in Nat
  BY <1>3, CellsNat
<1>5. ASSUME NEW c \in 1..Cells, ~(c > l) PROVE c \in 1..Len(hostfile) /\ hostfile[c] \in Nat
  BY <1>3, <1>4, <1>5
<1>6. \A x \in Nat : (x + 1) % 256 \in Nat
  OBVIOUS
<1>7. TftpTypes'
  <2>1. ASSUME NEW c \in 1..Cells PROVE ram'[c] \in Nat
    <3>1. CASE c > l
      BY <1>1, <3>1 DEF TftpTypes
    <3>2. CASE ~(c > l)
      BY <1>1, <1>5, <1>6, <3>2
    <3> QED
      BY <3>1, <3>2
  <2>2. ASSUME NEW c \in 1..Cells PROVE origin'[c] \in Nat \union {-1}
    <3>1. CASE c > l
      BY <1>1, <3>1 DEF TftpTypes
    <3>2. CASE ~(c > l)
      <4>1. ~(Len(hostfile) < 2) => hostfile[2] \in Nat
        BY <1>3
      <4> QED
        BY <1>1, <3>2, <4>1
    <3> QED
      BY <3>1, <3>2
  <2>3. ram' \in [1..Cells -> Nat] /\ origin' \in [1..Cells -> Nat \union {-1}]
    BY <1>1, <2>1, <2>2
  <2>4. moved' \in Nat /\ intact' \in BOOLEAN
    BY <1>1, <1>4
  <2> QED
    BY <1>2, <2>3, <2>4 DEF TftpTypes, Cells
<1>8. OriginInv'
  <2> SUFFICES ASSUME NEW c \in 3..Cells, origin'[c] # -1
               PROVE  ram'[c] = Bytes(origin'[c])[c - 2]
    BY DEF OriginInv, Cells
  <2>0. c \in 1..Cells
    BY <1>4
  <2>1. CASE c > l
    <3>1. ram'[c] = ram[c] /\ origin'[c] = origin[c]
      BY <1>1, <2>0, <2>1
    <3> QED
      BY <3>1 DEF OriginInv
  <2>2. CASE ~(c > l)
    <3>1. c # bad /\ ~(Len(hostfile) < 2) /\ origin'[c] = hostfile[2]
      BY <1>1, <2>0, <2>2
    <3>2. ram'[c] = hostfile[c]
      BY <1>1, <2>0, <2>2, <3>1
    <3>3. c \in 3..Len(hostfile)
      BY <1>3, <1>4, <2>2
    <3> QED
      BY <3>1, <3>2, <3>3 DEF FileInv
  <2> QED
    BY <2>1, <2>2
<1>9. MovedInv'
  <2> SUFFICES ASSUME intact', NEW c \in 1..Cells, c <= moved' PROVE ram'[c] = hostfile[c]
    BY <1>2 DEF MovedInv, Cells
  <2>1. bad = 0 /\ c <= l
    BY <1>1, Zenon
  <2>2. ~(c > l) /\ c # bad
    BY <1>4, <2>1
  <2> QED
    BY <1>1, <2>2
<1>10. FileInv' /\ VerdictInv'
  BY <1>2 DEF FileInv, VerdictInv
<1> QED
  BY <1>7, <1>8, <1>9, <1>10

\* The application changes nothing but its verdict.
LEMMA appStep == ASSUME TftpInv, uboot_app_main PROVE TftpInv'
<1> USE DEF TftpInv
<1>1. UNCHANGED <<hostfile, whole, ram, moved, intact, origin>> /\ verdict = "loaded"
  BY DEF uboot_app_main
<1>2. Compare' = Compare
  BY <1>1 DEF Compare
<1>3. \/ verdict' = "usage" \/ verdict' = "wild"
      \/ verdict' = "pass" /\ Compare
      \/ verdict' = "fail" /\ ~Compare
  BY DEF uboot_app_main
<1>4. VerdictInv'
  BY <1>2, <1>3 DEF VerdictInv
<1>5. MovedInv'
  BY <1>1 DEF MovedInv, Cells
<1> QED
  BY <1>1, <1>4, <1>5 DEF TftpTypes, FileInv, OriginInv, Cells

LEMMA TftpAlways == TftpSpec => []TftpInv
<1>1. TftpInit => TftpInv
  <2> SUFFICES ASSUME TftpInit PROVE TftpInv
    OBVIOUS
  <2>a. hostfile \in Seq(Nat) /\ moved \in Nat
    BY DEF TftpInit
  <2>b. ram \in [1..Cells -> Nat] /\ origin \in [1..Cells -> Nat \union {-1}]
    BY DEF TftpInit
  <2>c. intact \in BOOLEAN /\ whole \in BOOLEAN
    BY Zenon DEF TftpInit
  <2>1. TftpTypes
    BY <2>a, <2>b, <2>c DEF TftpTypes
  <2>2. FileInv
    <3>1. Len(hostfile) = 0 /\ ~whole
      BY DEF TftpInit
    <3>2. 3..0 = {}
      OBVIOUS
    <3> QED
      BY <3>1, <3>2 DEF FileInv
  <2>3. OriginInv
    <3>1. \A c \in 3..Cells : c \in 1..Cells
      BY CellsNat
    <3> QED
      BY <3>1 DEF TftpInit, OriginInv
  <2>4. MovedInv /\ VerdictInv
    BY DEF TftpInit, MovedInv, VerdictInv
  <2> QED
    BY <2>1, <2>2, <2>3, <2>4 DEF TftpInv
<1>2. TftpInv /\ [TftpNext]_tftpvars => TftpInv'
  <2>1. ASSUME TftpInv, UNCHANGED tftpvars PROVE TftpInv'
    <3>1. Compare' = Compare
      BY <2>1 DEF Compare, tftpvars
    <3> QED
      BY <2>1, <3>1 DEF TftpInv, TftpTypes, FileInv, OriginInv, MovedInv, VerdictInv, tftpvars, Cells
  <2> QED
    BY <2>1, creatfStep, tftpStep, appStep DEF TftpNext
<1> QED
  BY <1>1, <1>2, PTL DEF TftpSpec

\* A file that creatf wrote, transferred without damage, passes: generator and
\* application agree (creatf.c 48-55, tftp-test.c 57-68).
THEOREM CleanTransferPassesThm == TftpSpec => []CleanTransferPasses
<1>1. TftpInv => CleanTransferPasses
  <2> SUFFICES ASSUME TftpInv, verdict \in {"pass", "fail"}, whole, intact,
                      moved = Len(hostfile), hostfile[1] >= Checked
               PROVE  verdict = "pass"
    BY DEF CleanTransferPasses
  <2> USE DEF TftpInv
  <2>0. Checked \in Nat /\ Cells = 2 + Checked /\ Len(hostfile) \in Nat
    BY CellsNat, TftpAssumption DEF TftpTypes
  <2>1. Len(hostfile) = 2 + hostfile[1]
    BY DEF FileInv
  <2>2. hostfile[1] \in Nat
    <3>1. 1 \in 1..Len(hostfile)
      BY <2>0 DEF FileInv
    <3> QED
      BY <3>1 DEF TftpTypes
  <2>3. Cells <= Len(hostfile)
    BY <2>0, <2>1, <2>2
  <2>4. \A c \in 1..Cells : ram[c] = hostfile[c]
    BY <2>0, <2>3, CellsNat DEF MovedInv
  <2>5. ASSUME NEW j \in 1..Checked PROVE ram[2 + j] = Bytes(ram[2])[j]
    <3>1. 2 + j \in 1..Cells /\ 2 \in 1..Cells /\ 2 + j \in 3..Len(hostfile) /\ (2 + j) - 2 = j
      BY <2>0, <2>3
    <3> QED
      BY <2>4, <3>1 DEF FileInv
  <2>6. Compare
    BY <2>5 DEF Compare, Stream
  <2> QED
    BY <2>6 DEF VerdictInv
<1> QED
  BY <1>1, TftpAlways, PTL

\* Bytes of another seed do not pass, whatever mixture of transfers the memory
\* holds (myrand.c 21, tftp-test.c 57-68).
THEOREM PassIsOfItsSeedThm == TftpSpec => []PassIsOfItsSeed
<1>1. TftpInv => PassIsOfItsSeed
  <2> SUFFICES ASSUME TftpInv, verdict = "pass", NEW c \in 3..(2 + Checked), origin[c] # -1
               PROVE  origin[c] % 256 = ram[2] % 256
    BY DEF PassIsOfItsSeed
  <2> USE DEF TftpInv
  <2>0. /\ Checked \in Nat /\ c \in 3..Cells /\ c \in 1..Cells /\ 2 \in 1..Cells
        /\ c - 2 \in 1..Checked /\ c - 2 \in Nat /\ 2 + (c - 2) = c
    BY CellsNat, TftpAssumption
  <2>1. origin[c] \in Nat /\ ram[2] \in Nat
    BY <2>0 DEF TftpTypes
  <2>2. ram[c] = Bytes(origin[c])[c - 2]
    BY <2>0 DEF OriginInv
  <2>3. \A j \in 1..Checked : Bytes(ram[2])[j] = ram[2 + j]
    <3>1. Stream(ram[2], Checked) = [j \in 1..Checked |-> ram[2 + j]]
      BY DEF VerdictInv, Compare
    <3>2. \A j \in 1..Checked : Stream(ram[2], Checked)[j] = Bytes(ram[2])[j]
      BY DEF Stream
    <3> QED
      BY <3>1, <3>2
  <2>4. Bytes(ram[2])[c - 2] = ram[c]
    BY <2>0, <2>3
  <2> QED
    BY <2>0, <2>1, <2>2, <2>4, SameLow
<1> QED
  BY <1>1, TftpAlways, PTL
=============================================================================
