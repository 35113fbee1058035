--------------------------- MODULE SocketWorkers ---------------------------
(***************************************************************************)
(* ethernet_test/test-suite/options.cpp with socket.h: every -t and -r of   *)
(* the command line becomes a thread that sends or receives on a TCP        *)
(* connection for a number of seconds, and main joins the threads.  Several *)
(* such processes may be running, on one machine or two.                    *)
(*                                                                          *)
(* An option is a pair <<letter, argument>>.  A failed ASSERT ends the      *)
(* whole process, as does the return of main; the kernel then closes its    *)
(* sockets.  No thread closes a connection itself.                          *)
(***************************************************************************)
EXTENDS Integers, Sequences, FiniteSets

CONSTANTS
  Processes,    \* the processes
  CommandLines, \* the sets of command lines: functions of Processes to options
  Junk,         \* what an uninitialized messageSize may hold
  Cap,          \* bytes the kernel holds for a connection
  MaxConns,     \* bound on the number of connections
  MaxBytes,     \* bound on what is sent on a connection before the time is over
  MaxBreaks     \* bound on the number of connections lost by the network

ASSUME SocketWorkersAssumption ==
  /\ Junk \subseteq Int /\ Junk # {}
  /\ Cap \in Nat \ {0} /\ MaxConns \in Nat /\ MaxBytes \in Nat
  /\ MaxBreaks \in Nat
  /\ \A c \in CommandLines : \A p \in Processes : c[p] \in Seq(STRING \X Int)

VARIABLES
  vSockets,   \* the workers of each process
  vThreads,   \* how many of them each process has started
  status,     \* "run", "ok", "exit" or "abort" of each process
  pc, total,  \* of each thread: where it is and its total
  expired,    \* its seconds have passed
  listening,  \* it has a listening socket
  conn,       \* the connection it works on, 0 before
  conns       \* the connections ever made

vars == <<vSockets, vThreads, status, pc, total, expired, listening, conn, conns>>
thread == <<pc, total, expired, listening, conn>>

\* One command line option: S is kept for the workers that follow, the others
\* are given to the last worker.  The remaining letters set fields that no
\* worker reads, and an unknown one ends the program.
Worker(type, secs, size) ==
  [type |-> type, seconds |-> secs, messageSize |-> size, vLocalIP |-> <<>>, vDestIP |-> <<>>]

ParseOption(p, o) ==
  LET last == Len(p.list)
      Give(w) == IF last = 0 THEN p ELSE [p EXCEPT !.list = [@ EXCEPT ![last] = w]]
  IN CASE o[1] = "S" -> [p EXCEPT !.seconds = o[2]]
       [] o[1] = "t" -> [p EXCEPT !.list = Append(@, Worker("t", p.seconds, p.junk))]
       [] o[1] = "r" -> [p EXCEPT !.list = Append(@, Worker("r", p.seconds, p.junk))]
       [] o[1] = "m" -> Give([p.list[last] EXCEPT !.messageSize = o[2]])
       [] o[1] = "l" -> Give([p.list[last] EXCEPT !.vLocalIP = Append(@, o[2])])
       [] o[1] = "i" -> Give([p.list[last] EXCEPT !.vDestIP = Append(@, o[2])])
       [] o[1] \in {"s", "6", "b", "a", "x", "T", "e", "R", "u", "n"} -> p
       [] OTHER -> [p EXCEPT !.ok = FALSE]

\* The options one after the other.
NoOptions(junk) == [seconds |-> 0, list |-> <<>>, junk |-> junk, ok |-> TRUE]
Parse(args, junk) ==
  LET parsed[n \in 0..Len(args)] ==
        IF n = 0 THEN NoOptions(junk) ELSE ParseOption(parsed[n - 1], args[n])
  IN parsed[Len(args)]

MaxWorkers == 2
Threads == Processes \X (1..MaxWorkers)
W(t) == vSockets[t[1]][t[2]]

Init ==
  /\ \E c \in CommandLines, j \in Junk :
       /\ vSockets = [p \in Processes |-> Parse(c[p], j).list]
       /\ status = [p \in Processes |-> IF Parse(c[p], j).ok THEN "run" ELSE "exit"]
  /\ vThreads = [p \in Processes |-> 0]
  /\ pc = [t \in Threads |-> "none"] /\ total = [t \in Threads |-> 0]
  /\ expired = [t \in Threads |-> FALSE] /\ listening = [t \in Threads |-> FALSE]
  /\ conn = [t \in Threads |-> 0] /\ conns = <<>>

Alive(t) == status[t[1]] = "run"
At(t, where) == Alive(t) /\ pc[t] = where
Goto(t, where) == pc' = [pc EXCEPT ![t] = where]

\* The end of a process: the kernel closes its sockets.  What it sent can still
\* be read by the other end; what is sent to it is refused.
End(p, how) ==
  /\ status' = [status EXCEPT ![p] = how]
  /\ listening' = [t \in Threads |-> listening[t] /\ t[1] # p]
  /\ conns' = [c \in DOMAIN conns |->
       [conns[c] EXCEPT !.finished = @ \/ conns[c].tx[1] = p,
                        !.refused = @ \/ conns[c].rx[1] = p]]
  /\ UNCHANGED <<vSockets, vThreads, pc, total, expired, conn>>

ASSERT(t, cond, step) == IF cond THEN step /\ UNCHANGED status ELSE End(t[1], "abort")

\* main: one thread per worker, then the joins.
startWorker(p) ==
  /\ status[p] = "run" /\ vThreads[p] < Len(vSockets[p])
  /\ vThreads' = [vThreads EXCEPT ![p] = @ + 1]
  /\ Goto(<<p, vThreads[p] + 1>>, "worker")
  /\ UNCHANGED <<vSockets, status, total, expired, listening, conn, conns>>

Join(p) ==
  /\ status[p] = "run" /\ vThreads[p] = Len(vSockets[p])
  /\ \A k \in 1..vThreads[p] : pc[<<p, k>>] = "done"
  /\ End(p, "ok")

Listener(a) == {t \in Threads : listening[t] /\ W(t).vLocalIP[1] = a}

\* bind: port 0 is any port, a port that is listened on is taken.
Bindable(a) == a = 0 \/ Listener(a) = {}

Bind(t, where) ==
  ASSERT(t, Bindable(W(t).vLocalIP[1]),
    /\ Goto(t, where)
    /\ total' = [total EXCEPT ![t] = 0]
    /\ expired' = [expired EXCEPT ![t] = FALSE]
    /\ UNCHANGED <<vSockets, vThreads, listening, conn, conns>>)

\* sender() and receiver() before their first wait: new throws for a negative
\* size, the number of addresses is checked, and Bind.
sender(t) ==
  /\ At(t, "worker") /\ W(t).type = "t"
  /\ \/ W(t).messageSize < 0 /\ End(t[1], "abort")
     \/ /\ W(t).messageSize >= 0 /\ (Len(W(t).vLocalIP) # 1 \/ Len(W(t).vDestIP) # 1)
        /\ End(t[1], "exit")
     \/ /\ W(t).messageSize >= 0 /\ Len(W(t).vLocalIP) = 1 /\ Len(W(t).vDestIP) = 1
        /\ Bind(t, "connect")

receiver(t) ==
  /\ At(t, "worker") /\ W(t).type = "r"
  /\ \/ W(t).messageSize < 0 /\ End(t[1], "abort")
     \/ W(t).messageSize >= 0 /\ Len(W(t).vLocalIP) # 1 /\ End(t[1], "exit")
     \/ W(t).messageSize >= 0 /\ Len(W(t).vLocalIP) = 1 /\ Bind(t, "listen")

worker(t) == sender(t) \/ receiver(t)

\* sender(): a connection is made as soon as somebody listens, accepted or not.
Connect(t) ==
  /\ At(t, "connect") /\ Len(conns) < MaxConns
  /\ LET ls == Listener(W(t).vDestIP[1])
     IN ASSERT(t, ls # {},
          /\ conns' = Append(conns, [tx |-> t, rx |-> CHOOSE l \in ls : TRUE, accepted |-> FALSE,
                                     q |-> 0, sent |-> 0, finished |-> FALSE,
                                     refused |-> FALSE, lost |-> "no"])
          /\ conn' = [conn EXCEPT ![t] = Len(conns) + 1]
          /\ Goto(t, "send")
          /\ UNCHANGED <<vSockets, vThreads, total, expired, listening>>)

C(t) == conns[conn[t]]

SendOk(c) == ~c.refused /\ c.lost = "no"

\* The loop ends when its seconds have passed, at once for 0 seconds.
Send(t) ==
  /\ At(t, "send")
  /\ SendOk(C(t)) => C(t).q + W(t).messageSize <= Cap
  /\ expired[t] \/ W(t).seconds = 0 \/ C(t).sent + W(t).messageSize <= MaxBytes
  /\ ASSERT(t, SendOk(C(t)),
       /\ conns' = [conns EXCEPT ![conn[t]] = [@ EXCEPT !.q = C(t).q + W(t).messageSize,
                                                        !.sent = C(t).sent + W(t).messageSize]]
       /\ total' = [total EXCEPT ![t] = @ + W(t).messageSize]
       /\ Goto(t, IF expired[t] \/ W(t).seconds = 0 THEN "return" ELSE "send")
       /\ UNCHANGED <<vSockets, vThreads, expired, listening, conn>>)

\* receiver()
Listen(t) ==
  /\ At(t, "listen")
  /\ ASSERT(t, Listener(W(t).vLocalIP[1]) = {},
       /\ listening' = [listening EXCEPT ![t] = TRUE]
       /\ Goto(t, "accept")
       /\ UNCHANGED <<vSockets, vThreads, total, expired, conn, conns>>)

Backlog(t) == {c \in DOMAIN conns : conns[c].rx = t /\ ~conns[c].accepted /\ ~conns[c].refused}

Accept(t) ==
  /\ At(t, "accept") /\ Backlog(t) # {}
  /\ LET c == CHOOSE x \in Backlog(t) : \A y \in Backlog(t) : x <= y
     IN /\ conns' = [conns EXCEPT ![c] = [@ EXCEPT !.accepted = TRUE]]
        /\ conn' = [conn EXCEPT ![t] = c]
  /\ Goto(t, "recv")
  /\ UNCHANGED <<vSockets, vThreads, status, total, expired, listening>>

\* What recv returns: what is there up to len, 0 at the end, -1 on a reset.
RecvBytes(c, len) ==
  IF c.lost = "reset" THEN -1 ELSE IF c.q < len THEN c.q ELSE len

\* Mutant: a short count is taken for the end of the stream.
RecvShort(t) ==
  /\ At(t, "recv")
  /\ C(t).q > 0 \/ C(t).finished \/ C(t).lost = "reset"
  /\ LET bytes == RecvBytes(C(t), W(t).messageSize)
     IN /\ conns' = [conns EXCEPT ![conn[t]] =
                     [@ EXCEPT !.q = IF bytes > 0 THEN C(t).q - bytes ELSE C(t).q]]
        /\ total' = [total EXCEPT ![t] = @ + bytes]
        /\ Goto(t, IF ~expired[t] /\ bytes = W(t).messageSize THEN "recv" ELSE "close")
  /\ UNCHANGED <<vSockets, vThreads, status, expired, listening, conn>>

\* The loop, which adds the -1 of an error to the total too.
Recv(t) ==
  /\ At(t, "recv")
  /\ C(t).q > 0 \/ C(t).finished \/ C(t).lost = "reset"
  /\ LET bytes == RecvBytes(C(t), W(t).messageSize)
     IN /\ conns' = [conns EXCEPT ![conn[t]] =
                     [@ EXCEPT !.q = IF bytes > 0 THEN C(t).q - bytes ELSE C(t).q]]
        /\ total' = [total EXCEPT ![t] = @ + bytes]
        /\ Goto(t, IF ~expired[t] /\ bytes > 0 THEN "recv" ELSE "close")
  /\ UNCHANGED <<vSockets, vThreads, status, expired, listening, conn>>

\* s->Close() closes the listening socket and with it the connections nobody
\* accepted; newSock stays open.
Close(t) ==
  /\ At(t, "close")
  /\ listening' = [listening EXCEPT ![t] = FALSE]
  /\ conns' = [c \in DOMAIN conns |-> [conns[c] EXCEPT !.refused = @ \/ c \in Backlog(t)]]
  /\ Goto(t, "return")
  /\ UNCHANGED <<vSockets, vThreads, status, total, expired, conn>>

\* Mutant: the loop goes on for workers with a limit too.
ThreadLoops(t) ==
  /\ At(t, "return")
  /\ Goto(t, "worker")
  /\ UNCHANGED <<vSockets, vThreads, status, total, expired, listening, conn, conns>>

\* socketWorkerThread: do worker() while seconds == 0.
socketWorkerThread(t) ==
  /\ At(t, "return")
  /\ Goto(t, IF W(t).seconds = 0 THEN "worker" ELSE "done")
  /\ UNCHANGED <<vSockets, vThreads, status, total, expired, listening, conn, conns>>

\* The clock, which both loops read after each transfer.
getusecs(t) ==
  /\ Alive(t) /\ pc[t] \in {"send", "recv"} /\ W(t).seconds > 0 /\ ~expired[t]
  /\ expired' = [expired EXCEPT ![t] = TRUE]
  /\ UNCHANGED <<vSockets, vThreads, status, pc, total, listening, conn, conns>>

\* The network drops a connection: the sender is told; the receiver is told
\* only by a reset, and may have got a part of what was on its way.
Break(c) ==
  /\ Cardinality({d \in DOMAIN conns : conns[d].lost # "no"}) < MaxBreaks
  /\ conns[c].lost = "no" /\ ~conns[c].finished /\ ~conns[c].refused
  /\ \E how \in {"stall", "reset"}, k \in 0..conns[c].q :
       conns' = [conns EXCEPT ![c] = [@ EXCEPT !.lost = how, !.q = k]]
  /\ UNCHANGED <<vSockets, vThreads, status, thread>>

Thread(t) == \/ worker(t) \/ Connect(t) \/ Send(t) \/ Listen(t) \/ Accept(t) \/ Recv(t)
             \/ Close(t) \/ socketWorkerThread(t) \/ getusecs(t)

Next == \/ \E p \in Processes : startWorker(p) \/ Join(p)
        \/ \E t \in Threads : Thread(t)
        \/ \E c \in DOMAIN conns : Break(c)

Spec == Init /\ [][Next]_vars

\* Threads are scheduled and time passes; the network need not fail.
FairSpec ==
  /\ Spec
  /\ \A p \in Processes : WF_vars(startWorker(p) \/ Join(p))
  /\ \A t \in Threads :
       /\ WF_vars(worker(t) \/ Connect(t) \/ Send(t) \/ Listen(t) \/ Accept(t)
                  \/ Recv(t) \/ Close(t) \/ socketWorkerThread(t))
       /\ WF_vars(getusecs(t))

-----------------------------------------------------------------------------
(* Properties *)

\* receiver() counts every byte once: what it has counted and what the kernel
\* still holds is what sender() put on that connection, however the threads and
\* processes interleave; and a receiver that stops before its time, with a
\* usable buffer, has counted all of it.  (A lost connection is excepted.)
ReceivedEverything ==
  \A t \in Threads : pc[t] \in {"recv", "close"} /\ C(t).lost = "no" =>
    /\ total[t] + C(t).q = C(t).sent
    /\ pc[t] = "close" /\ ~expired[t] /\ W(t).messageSize > 0 =>
         C(t).finished /\ total[t] = C(t).sent

\* "-S10 -- seconds to run": with a limit on every worker, each process that has
\* one worker ends, except a receiver nobody connects to and one whose
\* connection the network lost silently.
Alone(p) == Len(vSockets[p]) <= 1
Limited == \A p \in Processes : \A k \in DOMAIN vSockets[p] : vSockets[p][k].seconds > 0
Waits(p) == LET t == <<p, 1>> IN
  pc[t] = "accept" \/ (pc[t] = "recv" /\ C(t).lost = "stall")
LoneWorkersEnd ==
  Limited /\ (\A p \in Processes : Alone(p))
    => <>[](\A p \in Processes : status[p] # "run" \/ Waits(p))

\* "-S10 -- seconds to run" for the process of the usage line itself, which has
\* a receiver and a sender: it ends.
SecondsToRun == Limited => <>(\A p \in Processes : status[p] # "run")
=============================================================================
