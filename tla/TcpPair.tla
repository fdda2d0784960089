------------------------------ MODULE TcpPair ------------------------------
(***************************************************************************)
(* Two picoTCP stacks and the network between them: the socket C that      *)
(* connects, and the socket S that a listener opens for its SYN.  One      *)
(* action per entry point of the stack: a segment is delivered, a timer    *)
(* expires, the sockets loop sends, the application calls.                 *)
(*                                                                         *)
(* The network keeps the order of the segments, except that it may lose,   *)
(* duplicate or overtake one, and a timer may expire while segments are    *)
(* still on their way.  Each such event costs one of MaxFaults.            *)
(* In any step a stack may be short of memory for the frame of a SYN or of *)
(* a FIN, or for a timer.                                                  *)
(*                                                                         *)
(* wrote and got are history: how many units the application of a socket   *)
(* has written, and the units it has read.                                 *)
(***************************************************************************)
EXTENDS TcpEndpoint

CONSTANTS
    Iss,            \* the initial sequence number of each incarnation: C, then children
    MaxWrites,      \* bound: units each application writes
    Bursts,         \* how many units a write offers, or a read has room for
    MaxFaults,      \* bound: misbehaviours of the network and of the clock
    Closers,        \* the sockets whose application may close
    EarlyWrite,     \* may the application write before the connection is established
    Scarce          \* what a stack may run short of: "frame", "timer"

Nodes == {"C", "S"}
Peer(n) == IF n = "C" THEN "S" ELSE "C"
MaxBorn == Len(Iss) - 1   \* bound: children the listener opens

ASSUME PairAssumption ==
    /\ Iss \in Seq(1..(SeqSpace - 1)) /\ Len(Iss) >= 2
    /\ MaxWrites \in [Nodes -> Nat] /\ Bursts \subseteq Nat \ {0} /\ MaxFaults \in Nat
    /\ Closers \subseteq Nodes /\ EarlyWrite \in BOOLEAN
    /\ Scarce \subseteq {"frame", "timer"}

VARIABLES
    sock,      \* sock[n]: the control block of n
    net,       \* net[n]: the segments on their way to n
    born,      \* how many children the listener has opened
    wrote,     \* wrote[n]: units the application of n has written
    got,       \* got[n]: units the application of n has read
    faults     \* how often network and clock misbehaved

vars == <<sock, net, born, wrote, got, faults>>

(* The unit a socket's application writes after k others.                  *)
Unit(n, k) == (IF n = "C" THEN 0 ELSE 10 * born) + k + 1

Live(n) == sock[n].st # "CLOSED" /\ ~sock[n].gone

Init ==
    /\ sock = [n \in Nodes |-> OpenSocket]
    /\ net = [n \in Nodes |-> <<>>]
    /\ born = 0
    /\ wrote = [n \in Nodes |-> 0]
    /\ got = [n \in Nodes |-> <<>>]
    /\ faults = 0

(* The block of n in a step in which its stack has no memory for r.        *)
Lacking(n, r) == [sock[n] EXCEPT !.lack = r]
Shortages == {{}} \union {{r} : r \in Scarce}

(* The block of n becomes t, and the segments t has sent leave.            *)
Settled(t) == [t EXCEPT !.tx = <<>>, !.lack = {}]
Becomes(n, t) ==
    /\ sock' = [sock EXCEPT ![n] = Settled(t)]
    /\ net' = [net EXCEPT ![Peer(n)] = @ \o t.tx]

Silent == faults' = faults
Fault == faults < MaxFaults /\ faults' = faults + 1

-----------------------------------------------------------------------------
(* The application                                                         *)

Connect ==
    /\ sock["C"] = OpenSocket
    /\ Becomes("C", pico_tcp_initconn([OpenSocket EXCEPT !.st = "SYN_SENT"], Iss[1]))
    /\ UNCHANGED <<born, wrote, got, faults>>

Write(n) ==
    \E count \in Bursts :
        LET taken == Taken(sock[n], count)
        IN  /\ CanWrite(sock[n]) /\ taken > 0 /\ wrote[n] + count <= MaxWrites[n]
            /\ EarlyWrite \/ sock[n].st \notin {"SYN_SENT", "SYN_RECV"}
            /\ Becomes(n, pico_tcp_push(sock[n], taken, Unit(n, wrote[n]) - 1))
            /\ wrote' = [wrote EXCEPT ![n] = @ + taken]
            /\ UNCHANGED <<born, got, faults>>

Read(n) ==
    \E size \in Bursts :
        LET t == sock[n]
            count == Lowest({size, Readable(t)})
            nth(k) == CHOOSE s \in t.in : s.seq = Seq32(t.rcv_processed + k - 1)
        IN  /\ CanRead(t) /\ count > 0
            /\ Becomes(n, pico_tcp_read(t, count))
            /\ got' = [got EXCEPT ![n] = @ \o [k \in 1..count |-> nth(k).data]]
            /\ UNCHANGED <<born, wrote, faults>>

ShutdownRd(n) ==
    /\ n \in Closers /\ Live(n) /\ ~sock[n].shutR
    /\ sock[n].st # "SYN_RECV"
    /\ Becomes(n, [sock[n] EXCEPT !.shutR = TRUE])
    /\ UNCHANGED <<born, wrote, got, faults>>

ShutdownWr(n) ==
    /\ n \in Closers /\ Live(n) /\ ~sock[n].shutL
    /\ sock[n].st # "SYN_RECV"
    /\ \E r \in Shortages : Becomes(n, pico_socket_shutdown_wr(Lacking(n, r)))
    /\ UNCHANGED <<born, wrote, got, faults>>

Close(n) ==
    /\ n \in Closers /\ Live(n) /\ ~(sock[n].shutL /\ sock[n].shutR)
    /\ sock[n].st # "SYN_RECV"
    /\ \E r \in Shortages : Becomes(n, pico_socket_close(Lacking(n, r)))
    /\ UNCHANGED <<born, wrote, got, faults>>

-----------------------------------------------------------------------------
(* The stack                                                               *)

(* pico_sockets_loop_tcp visits the socket, with score to spare.           *)
Output(n) ==
    /\ Live(n)
    /\ \E r \in Shortages :
          LET t == pico_tcp_output(Lacking(n, r), MaxOut)
          IN  t # Lacking(n, r) /\ Becomes(n, t)
    /\ UNCHANGED <<born, wrote, got, faults>>

Drop(q, i) == [j \in 1..(Len(q) - 1) |-> q[IF j < i THEN j ELSE j + 1]]

Answers(n, t, rest) ==
    /\ sock' = [sock EXCEPT ![n] = Settled(t)]
    /\ net' = [net EXCEPT ![n] = rest, ![Peer(n)] = @ \o t.tx]

(* pico_socket_tcp_deliver: the connected socket if the tree has it, else  *)
(* the listener, else nobody (an ICMP message that TCP ignores).  rest is  *)
(* what stays on its way to n.                                             *)
Receive(n, m, rest) ==
    \/ /\ Live(n)
       /\ \E r \in Shortages : Answers(n, pico_tcp_input(Lacking(n, r), m), rest)
       /\ UNCHANGED <<born, wrote, got>>
    \/ /\ ~Live(n) /\ n = "S" /\ m.flags = "SYN" /\ ~sock[n].gone /\ born < MaxBorn
       /\ Answers(n, ChildOf(m, Iss[born + 2]), rest)
       /\ born' = born + 1
       /\ wrote' = [wrote EXCEPT ![n] = 0] /\ got' = [got EXCEPT ![n] = <<>>]
    \/ /\ ~Live(n) /\ n = "S" /\ m.flags # "SYN"
       /\ net' = [net EXCEPT ![n] = rest, ![Peer(n)] = @ \o ReplyRst(m)]
       /\ UNCHANGED <<sock, born, wrote, got>>
    \/ /\ ~Live(n) /\ (n = "C" \/ (m.flags = "SYN" /\ born = MaxBorn))
       /\ net' = [net EXCEPT ![n] = rest]
       /\ UNCHANGED <<sock, born, wrote, got>>

Deliver(n) ==
    /\ net[n] # <<>>
    /\ Receive(n, Head(net[n]), Tail(net[n]))
    /\ Silent

Overtake(n) ==
    /\ \E i \in 2..Len(net[n]) : Receive(n, net[n][i], Drop(net[n], i))
    /\ Fault

Duplicate(n) ==
    /\ net[n] # <<>>
    /\ Receive(n, Head(net[n]), net[n])
    /\ Fault

Lose(n) ==
    /\ net[n] # <<>>
    /\ net' = [net EXCEPT ![n] = Tail(@)]
    /\ Fault
    /\ UNCHANGED <<sock, born, wrote, got>>

(* A timer is longer than a round trip, unless the clock or the network    *)
(* misbehaves.                                                             *)
InTime == IF \A n \in Nodes : net[n] = <<>> THEN Silent ELSE Fault

SynTimer(n) ==
    /\ sock[n].retrans_tmr = "syn"
    /\ \E r \in Shortages : Becomes(n, initconn_retry(Lacking(n, r)))
    /\ InTime
    /\ UNCHANGED <<born, wrote, got>>

RtoTimer(n) ==
    /\ sock[n].retrans_tmr = "rto"
    /\ \E r \in Shortages : Becomes(n, tcp_retrans_timeout(Lacking(n, r)))
    /\ InTime
    /\ UNCHANGED <<born, wrote, got>>

FinTimer(n) ==
    /\ sock[n].fin_tmr
    /\ Becomes(n, tcp_deltcb(sock[n]))
    /\ InTime
    /\ UNCHANGED <<born, wrote, got>>

(* check_socket_sanity: half a minute in SYN_RECV.                         *)
SanityTimeout(n) ==
    /\ sock[n].st = "SYN_RECV"
    /\ Becomes(n, pico_socket_del(sock[n]))
    /\ InTime
    /\ UNCHANGED <<born, wrote, got>>

(* socket_garbage_collect cancels the timers and frees the socket.         *)
Collect(n) ==
    /\ sock[n].gone
    /\ sock' = [sock EXCEPT ![n] = [OpenSocket EXCEPT !.gone = (n = "C")]]
    /\ sock'[n] # sock[n]
    /\ UNCHANGED <<net, born, wrote, got, faults>>

(* What the two stacks, the network and the readers do of themselves.      *)
Progress ==
    \E n \in Nodes :
        \/ Read(n) \/ Output(n) \/ Deliver(n)
        \/ SynTimer(n) \/ RtoTimer(n) \/ FinTimer(n) \/ SanityTimeout(n) \/ Collect(n)

Next ==
    \/ Connect
    \/ Progress
    \/ \E n \in Nodes :
          \/ Write(n) \/ ShutdownRd(n) \/ ShutdownWr(n) \/ Close(n)
          \/ Overtake(n) \/ Duplicate(n) \/ Lose(n)

Spec == Init /\ [][Next]_vars

(* pico_stack_tick runs again and again: what has arrived is processed,    *)
(* what waits is sent, timers expire.  Nobody has to write, to connect or  *)
(* to close.  Busy says when Progress can take a step that changes the     *)
(* state; Fairness is WF_vars(Progress), with its ENABLED spelled out.     *)
Busy ==
    \E n \in Nodes :
        \/ CanRead(sock[n]) /\ Readable(sock[n]) > 0
        \/ Live(n) /\ pico_tcp_output(sock[n], MaxOut) # sock[n]
        \/ net[n] # <<>>
        \/ sock[n].retrans_tmr \in {"syn", "rto"} /\ (faults < MaxFaults \/ \A k \in Nodes : net[k] = <<>>)
        \/ sock[n].fin_tmr
        \/ sock[n].st = "SYN_RECV"
        \/ sock[n].gone /\ sock[n] # [OpenSocket EXCEPT !.gone = (n = "C")]
Fairness == []<>~Busy \/ []<><<Progress>>_vars

FairSpec == Spec /\ Fairness

-----------------------------------------------------------------------------
(* Properties                                                              *)

TypeOK ==
    /\ \A n \in Nodes :
          /\ sock[n].st \in States
          /\ sock[n].snd_nxt \in 0..(SeqSpace - 1) /\ sock[n].rcv_nxt \in 0..(SeqSpace - 1)
          /\ sock[n].in_flight \in Nat /\ sock[n].cwnd \in 0..MaxCwnd
          /\ sock[n].tx = <<>>
    /\ born \in 0..MaxBorn /\ faults \in 0..MaxFaults

(* What an application reads is a prefix of what the other one wrote: in   *)
(* order, without gap and without repetition, whatever the network did.    *)
StreamPrefix ==
    \A n \in Nodes : \E b \in 0..MaxBorn :
        \A i \in DOMAIN got[n] : got[n][i] = 10 * b + i

(* A unit leaves tcpq_out only once the peer's queue has it: none is ever  *)
(* acknowledged, or dropped, on its way.                                   *)
AckedIsReceived ==
    born = 1 /\ Live("C") /\ Live("S") =>
        \A n \in Nodes : \A k \in 1..wrote[n] :
            LET u == Unit(n, k - 1)
            IN  \/ \E s \in sock[n].out : s.data = u
                \/ \E s \in sock[Peer(n)].in : s.data = u
                \/ \E i \in DOMAIN got[Peer(n)] : got[Peer(n)][i] = u

(* A SACK block never lies: a unit the sender marks as held by the peer    *)
(* (and skips in the recovery) is in the peer's queue, or was read.        *)
SackIsTrue ==
    born = 1 /\ Live("C") /\ Live("S") =>
        \A n \in Nodes : \A s \in sock[n].out : s.sacked =>
            \/ \E r \in sock[Peer(n)].in : r.data = s.data
            \/ \E i \in DOMAIN got[Peer(n)] : got[Peer(n)][i] = s.data

(* Two established sockets speak of one connection: neither expects a      *)
(* sequence number that the other, counted from its own initial one, has   *)
(* not reached.                                                            *)
IssOf(n) == IF n = "C" THEN Iss[1] ELSE Iss[born + 1]
Synchronised ==
    (\A n \in Nodes : sock[n].st = "ESTABLISHED") =>
        \A n \in Nodes :
            Seq32(sock[n].rcv_nxt - 1 - IssOf(Peer(n)))
                <= Seq32(sock[Peer(n)].snd_last - IssOf(Peer(n)))

Closing == {"FIN_WAIT1", "FIN_WAIT2", "CLOSING", "LAST_ACK", "TIME_WAIT"}

(* A connection attempt succeeds or is given up, unless a SYN could not be *)
(* sent again for want of a frame or a timer: initconn_retry does not see  *)
(* that, and the socket stays in SYN_SENT.                                 *)
ConnectEnds ==
    sock["C"].st = "SYN_SENT" ~> (sock["C"].st # "SYN_SENT" \/ "syn" \in sock["C"].missed)

(* Once a socket is closed, it is deleted in the end, whatever becomes of  *)
(* the peer, unless there was no frame for its FIN: it is in a closing     *)
(* state then, without the linger timeout.                                 *)
ClosingEnds ==
    \A n \in Nodes : sock[n].st \in Closing ~> (sock[n].gone \/ "fin" \in sock[n].missed)

(* "gives up on the connection": a socket whose application has closed is  *)
(* deleted, or something is still to happen (a timer, a segment on its     *)
(* way, one to send).  It is not left behind where nothing moves.          *)
NeverAbandoned == (\E n \in Nodes : Live(n) /\ sock[n].shutL) => Busy

(* What is written is read, or one of the sockets is deleted, or there was *)
(* no memory for the retransmission timer, and never again a reason to     *)
(* start it.                                                               *)
Delivered ==
    \A n \in Nodes :
        wrote[n] > 0 ~> \/ Len(got[Peer(n)]) = wrote[n] \/ ~Live(n) \/ ~Live(Peer(n))
                        \/ []("rto" \in sock[n].missed)
=============================================================================
