---------------------------- MODULE TcpEndpoint ----------------------------
(***************************************************************************)
(* One TCP socket of modules/pico_tcp.c: its control block as a record and *)
(* every handler as a function from the block (and the segment) to the     *)
(* block.  The segments a handler puts in the queue tcp_out are collected  *)
(* in the field tx; module TcpPair moves them to the network in the step   *)
(* that runs the handler, so pico_tcp_process_out is part of sending.      *)
(*                                                                         *)
(* Data is counted in units of one maximum segment (mss = 1): a segment    *)
(* carries no unit or one, and tcp_split_segment is never called.  Queues  *)
(* are sets of segments, ordered by pico_seq_compare.  Time is abstracted: *)
(* a timer is armed or not, and expires at any time once armed.  Nagle is  *)
(* off, as pico_tcp_open leaves it, and there is no keepalive (ka_time 0). *)
(*                                                                         *)
(* lack says what the stack has no memory for: "frame", the frame of a SYN *)
(* or of a FIN, or "timer".  Any other segment that cannot be allocated is *)
(* one the network loses.  missed is history: what could not be done.      *)
(***************************************************************************)
EXTENDS Integers, FiniteSets, Sequences

CONSTANTS
    SeqSpace,           \* 2^32: sequence numbers are uint32_t
    MaxIn,              \* units tcpq_in holds (PICO_DEFAULT_SOCKETQ)
    MaxOut,             \* segments tcpq_out holds
    Ssthresh,           \* initial slow start threshold
    MaxCwnd,            \* bound: cwnd grows no further
    MaxRetrans,         \* PICO_TCP_MAX_RETRANS
    MaxConnectRetries   \* PICO_TCP_MAX_CONNECT_RETRIES

ASSUME TcpAssumption ==
    /\ SeqSpace \in Nat \ {0, 1} /\ SeqSpace % 2 = 0
    /\ MaxIn \in Nat \ {0} /\ MaxOut \in Nat \ {0}
    /\ Ssthresh \in Nat /\ MaxCwnd \in Nat \ {0, 1} /\ MaxRetrans \in Nat
    /\ MaxConnectRetries \in Nat

IW == 2   \* PICO_TCP_IW

LOOKAHEAD == 0
RECOVER == 3
BLACKOUT == 4
WINDOW_FULL == 6

States == {"CLOSED", "SYN_SENT", "SYN_RECV", "ESTABLISHED", "CLOSE_WAIT", "LAST_ACK",
           "FIN_WAIT1", "FIN_WAIT2", "CLOSING", "TIME_WAIT"}
Synchronized == States \ {"CLOSED", "SYN_SENT", "SYN_RECV"}

-----------------------------------------------------------------------------
(* Sequence numbers                                                        *)

Seq32(n) == n % SeqSpace
Inc(n) == Seq32(n + 1)
Dec(n) == Seq32(n - 1)

pico_seq_compare(a, b) ==
    LET thresh == SeqSpace \div 2 - 1
    IN  CASE a > b -> IF a - b > thresh THEN -Seq32(b - a) ELSE a - b
          [] a < b -> IF b - a > thresh THEN Seq32(a - b) ELSE -(b - a)
          [] OTHER -> 0

-----------------------------------------------------------------------------
(* struct pico_tcp_queue: a tree ordered by sequence number                *)

peek_segment(q, n) == {s \in q : s.seq = n}
first_segment(q) == CHOOSE s \in q : \A r \in q : pico_seq_compare(s.seq, r.seq) <= 0
Lowest(S) == CHOOSE n \in S : \A m \in S : n <= m

(* How many segments follow one another without a hole from n on.          *)
Run(q, n) == Lowest({k \in 0..Cardinality(q) : peek_segment(q, Seq32(n + k)) = {}})

(* pico_enqueue_segment refuses what exceeds the queue's size and what the *)
(* tree already holds.                                                     *)
CanEnqueue(q, max, n) == Cardinality(q) < max /\ peek_segment(q, n) = {}

(* release_all_until, and release_until, whose search for the next segment *)
(* stops at a hole.                                                        *)
(* Mutant: releases the segment that begins at the acknowledged number.    *)
UntilOffByOne(q, n) == {s \in q : pico_seq_compare(s.seq, n) <= 0}
Until(q, n) == {s \in q : pico_seq_compare(Inc(s.seq), n) <= 0}
ReleaseRun(q, n) ==
    IF q = {} THEN {}
    ELSE {s \in Until(q, n) :
             \E k \in 0..(Run(q, first_segment(q).seq) - 1) :
                 s.seq = Seq32(first_segment(q).seq + k)}

-----------------------------------------------------------------------------
(* Segments and the control block                                          *)

Segment(fl, seq, ack, wnd, data, sack) ==
    [flags |-> fl, seq |-> seq, ack |-> ack, wnd |-> wnd, data |-> data, sack |-> sack]

HasAck(m) == m.flags \in {"SYNACK", "ACK", "PSHACK", "FINACK", "RSTACK"}
IsRst(m) == m.flags \in {"RST", "RSTACK"}
Length(m) == IF m.data = 0 THEN 0 ELSE 1

(* pico_tcp_open: a socket that is neither bound nor connected.            *)
OpenSocket ==
    [st |-> "CLOSED", shutL |-> FALSE, shutR |-> FALSE, gone |-> FALSE,
     snd_nxt |-> 0, snd_last |-> 0, snd_old_ack |-> 0, snd_retry |-> 0,
     snd_last_out |-> 0, out |-> {}, x_mode |-> LOOKAHEAD, in_flight |-> 0,
     cwnd |-> 0, cwnd_counter |-> 0, ssthresh |-> 0, recv_wnd |-> 0, backoff |-> 0,
     rcv_nxt |-> 0, rcv_ackd |-> 0, rcv_processed |-> 0, in |-> {},
     remote_closed |-> FALSE, wnd |-> MaxIn, localZeroWindow |-> FALSE,
     sacks |-> {}, retrans_tmr |-> "none", fin_tmr |-> FALSE, tx |-> <<>>,
     lack |-> {}, missed |-> {}]

Put(t, m) == [t EXCEPT !.tx = Append(@, m)]

(* tcp_send_empty, tcp_send_fin and tcp_do_send_rst once the window is     *)
(* known: pending SACK blocks leave with the first pure acknowledgment.    *)
Emit(t, fl, seq) ==
    LET acks == fl \in {"ACK", "PSHACK"}
    IN  Put([t EXCEPT !.rcv_ackd = t.rcv_nxt, !.sacks = IF acks THEN {} ELSE @],
            Segment(fl, seq, t.rcv_nxt, t.wnd, 0, IF acks THEN t.sacks ELSE {}))

EmitNext(t, fl) == Emit(t, fl, t.snd_nxt)

(* The window follows the free space of tcpq_in; when it opens again after *)
(* having been zero, an update is sent.                                    *)
Resize(t, space) ==
    IF space = t.wnd THEN t
    ELSE IF space # 0 /\ t.localZeroWindow
         THEN EmitNext([t EXCEPT !.wnd = space, !.localZeroWindow = FALSE], "ACK")
         ELSE [t EXCEPT !.wnd = space, !.localZeroWindow = (space = 0)]

tcp_set_space(t) ==
    Resize(t, IF Cardinality(t.in) > MaxIn THEN 0 ELSE MaxIn - Cardinality(t.in))

tcp_send_ack(t) == EmitNext(tcp_set_space(t), "ACK")
tcp_send_probe(t) == LET u == tcp_set_space(t) IN Emit(u, "PSHACK", Dec(u.snd_nxt))
tcp_do_send_rst(t, seq) == Emit(tcp_set_space(t), "RST", seq)

(* pico_socket_del: the socket leaves the tree; its timers stay armed      *)
(* until the garbage collection, 10 ms later, cancels them.                *)
pico_socket_del(t) == [t EXCEPT !.st = "CLOSED", !.shutL = FALSE, !.shutR = FALSE,
                                !.gone = TRUE]

(* Mutant: a FIN that starts no linger timeout.                            *)
FinWithoutLinger(t) ==
    [EmitNext(tcp_set_space(t), "FINACK") EXCEPT !.snd_nxt = Inc(@)]

(* Without a frame for it no FIN is sent and no linger timeout begins, but *)
(* CheckClosing changes the state all the same.                            *)
tcp_send_fin(t) ==
    IF "frame" \in t.lack THEN [t EXCEPT !.missed = @ \union {"fin"}]
    ELSE [EmitNext(tcp_set_space(t), "FINACK") EXCEPT !.snd_nxt = Inc(@), !.fin_tmr = TRUE]

(* A linger timer that cannot be started deletes the socket at once: that  *)
(* is the timer of the model, expiring in the next step.                   *)
tcp_linger(t) == [t EXCEPT !.fin_tmr = TRUE]

(* checkLocalClosing and checkRemoteClosing                                *)
CheckClosing(t) ==
    CASE t.st = "ESTABLISHED" -> [tcp_send_fin(t) EXCEPT !.st = "FIN_WAIT1"]
      [] t.st = "CLOSE_WAIT" -> [tcp_send_fin(t) EXCEPT !.st = "LAST_ACK"]
      [] OTHER -> t

-----------------------------------------------------------------------------
(* Output: pico_tcp_output sends from snd_nxt on while segments follow one *)
(* another, the congestion window is not exceeded, the score lasts and the *)
(* peer's window is not full.                                              *)

(* Mutant: the timer is never started.                                     *)
NoRetransmissionTimer(t) == t
(* "TODO do something about this?": nothing is done about a failure.       *)
add_retransmission_timer(t) ==
    CASE t.retrans_tmr # "none" -> t
      [] t.retrans_tmr = "none" /\ "timer" \in t.lack -> [t EXCEPT !.missed = @ \union {"rto"}]
      [] OTHER -> [t EXCEPT !.retrans_tmr = "rto", !.missed = @ \ {"rto"}]

DataSegment(t, s) == Segment("PSHACK", s.seq, t.rcv_nxt, t.wnd, s.data, {})

(* Mutant: snd_nxt does not wrap around.                                   *)
SendRunUnwrapped(t, n) ==
    IF n = 0 THEN t
    ELSE LET nth(k) == CHOOSE s \in t.out : s.seq = Seq32(t.snd_nxt + k - 1)
         IN  [t EXCEPT !.tx = @ \o [k \in 1..n |-> DataSegment(t, nth(k))],
                       !.snd_last_out = Seq32(t.snd_nxt + n - 1), !.snd_nxt = @ + n]

SendRun(t, n) ==
    IF n = 0 THEN t
    ELSE LET nth(k) == CHOOSE s \in t.out : s.seq = Seq32(t.snd_nxt + k - 1)
         IN  [t EXCEPT !.tx = @ \o [k \in 1..n |-> DataSegment(t, nth(k))],
                       !.rcv_ackd = t.rcv_nxt,
                       !.in_flight = @ + n,
                       !.snd_last_out = Seq32(t.snd_nxt + n - 1),
                       !.snd_nxt = Seq32(@ + n)]

WindowFull(t, una, n) ==
    IF t.x_mode = WINDOW_FULL THEN t
    ELSE [t EXCEPT !.snd_retry = una, !.x_mode = WINDOW_FULL,
                   !.snd_nxt = IF n = 0 THEN una ELSE @]

OutputLoop(t, score) ==
    LET una == first_segment(t.out).seq
        ahead == pico_seq_compare(t.snd_nxt, una)
        tries == Lowest({Run(t.out, t.snd_nxt), t.cwnd - t.in_flight + 1,
                         IF score < 1 THEN 1 ELSE score})
        room == IF t.recv_wnd > ahead THEN t.recv_wnd - ahead ELSE 0
        n == Lowest({tries, room})
        u == add_retransmission_timer(t)
    IN  IF tries <= 0 THEN t
        ELSE IF ahead < 0 THEN u
        ELSE IF n = tries THEN SendRun(u, n)
        ELSE WindowFull(SendRun(u, n), una, n)

CloseWhenEmpty(t) == IF t.out = {} /\ t.shutL THEN CheckClosing(t) ELSE t

pico_tcp_output(t, score) ==
    CloseWhenEmpty(IF t.out = {} THEN t ELSE OutputLoop(t, score))

-----------------------------------------------------------------------------
(* Input of data                                                           *)

(* tcp_sack_prepare reports a block of the contiguous segments at the head *)
(* of tcpq_in, unless one is still waiting to be sent: the search goes     *)
(* from segment to segment, skips those below rcv_nxt (an unsigned         *)
(* comparison) and stops at the first hole.  The sender only looks at the  *)
(* block's left edge, so that is all the model keeps of it.                *)
(* Mutant: the block begins at the hole.                                   *)
SackTheHole(t) == IF t.sacks # {} THEN t ELSE [t EXCEPT !.sacks = {t.rcv_nxt}]

tcp_sack_prepare(t) ==
    LET head == first_segment(t.in).seq
        edges == {k \in 0..(Run(t.in, head) - 1) :
                     Seq32(head + k) >= t.rcv_nxt /\ Seq32(head + k) # 0}
    IN  IF t.sacks # {} \/ edges = {} THEN t
        ELSE [t EXCEPT !.sacks = {Seq32(head + Lowest(edges))}]

tcp_data_in_expected(t, m) ==
    IF m.seq = t.rcv_nxt /\ m.data # 0 /\ CanEnqueue(t.in, MaxIn, m.seq)
    THEN LET q == t.in \union {[seq |-> m.seq, data |-> m.data]}
         IN  [t EXCEPT !.in = q, !.rcv_nxt = Seq32(@ + Run(q, m.seq))]
    ELSE t

tcp_data_in_high_segment(t, m) ==
    IF m.data # 0 /\ CanEnqueue(t.in, MaxIn, m.seq)
    THEN tcp_sack_prepare([t EXCEPT !.in = @ \union {[seq |-> m.seq, data |-> m.data]}])
    ELSE t

tcp_data_in_send_ack(t, m) ==
    IF t.st \in {"CLOSE_WAIT", "SYN_SENT", "SYN_RECV"} \/ IsRst(m) THEN t ELSE tcp_send_ack(t)

(* A SACK block marks the one segment that begins it.                      *)
tcp_parse_options(t, m) ==
    LET marked == {s \in t.out : s.seq \in m.sack}
        count == Cardinality(marked)
    IN  [t EXCEPT !.out = {IF s \in marked THEN [s EXCEPT !.sacked = TRUE] ELSE s : s \in @},
                  !.in_flight = IF t.x_mode = LOOKAHEAD THEN @
                                ELSE IF @ > count THEN @ - count ELSE 0]

Accept(t, m) ==
    IF pico_seq_compare(m.seq, t.rcv_nxt) <= 0
    THEN tcp_data_in_expected(t, m)
    ELSE tcp_data_in_high_segment(t, m)

tcp_data_in(t, m) == tcp_data_in_send_ack(Accept(tcp_parse_options(t, m), m), m)

-----------------------------------------------------------------------------
(* Input of acknowledgments                                                *)

(* process_out raises snd_nxt past a retransmitted segment.                *)
Raise(t, seq) ==
    IF pico_seq_compare(Inc(seq), t.snd_nxt) > 0 THEN [t EXCEPT !.snd_nxt = Inc(seq)] ELSE t

tcp_retrans(t, found) ==
    IF found = {} THEN t
    ELSE LET s == CHOOSE x \in found : TRUE
         IN  add_retransmission_timer(
                Raise([Put(t, DataSegment(t, s)) EXCEPT !.in_flight = @ + 1,
                                                        !.snd_last_out = s.seq], s.seq))

tcp_congestion_control(t) ==
    LET grown == IF t.cwnd < MaxCwnd THEN t.cwnd + 1 ELSE t.cwnd
    IN  IF t.x_mode > LOOKAHEAD THEN t
        ELSE IF t.cwnd < t.ssthresh THEN [t EXCEPT !.cwnd = grown]
        ELSE IF t.cwnd_counter + 1 >= t.cwnd
             THEN [t EXCEPT !.cwnd = grown, !.cwnd_counter = 0]
             ELSE [t EXCEPT !.cwnd_counter = @ + 1]

(* The third duplicate acknowledgment begins the fast recovery.            *)
EnterRecover(t) ==
    LET cwnd == IF t.in_flight > IW THEN t.in_flight ELSE IW
        half == IF t.ssthresh > cwnd THEN t.ssthresh \div 4 ELSE cwnd \div 2
    IN  [t EXCEPT !.x_mode = RECOVER, !.cwnd = cwnd,
                  !.snd_retry = first_segment(t.out).seq,
                  !.ssthresh = IF half < 2 THEN 2 ELSE half]

(* Which segment the next duplicate acknowledgment will have retransmitted. *)
NextRetry(t) ==
    LET una == first_segment(t.out).seq
        from == IF peek_segment(t.out, t.snd_retry) = {} THEN una ELSE t.snd_retry
        skip == Lowest({k \in 0..Cardinality(t.out) :
                    LET s == peek_segment(t.out, Seq32(from + k))
                    IN  s = {} \/ \E x \in s : ~x.sacked \/ x.seq = una})
        seq == Seq32(from + skip)
    IN  IF \/ peek_segment(t.out, seq) = {}
           \/ pico_seq_compare(seq, t.snd_nxt) > 0
           \/ pico_seq_compare(seq, una) > t.recv_wnd
        THEN una ELSE seq

(* Every second duplicate acknowledgment takes one off the window.         *)
Deflate(t) ==
    IF t.cwnd_counter + 1 > 1
    THEN [t EXCEPT !.cwnd = IF @ - 1 < 2 THEN 2 ELSE @ - 1, !.cwnd_counter = 0]
    ELSE [t EXCEPT !.cwnd_counter = @ + 1]

Recover(t) ==
    Deflate(IF t.in_flight <= t.cwnd
            THEN [tcp_retrans(t, peek_segment(t.out, t.snd_retry))
                    EXCEPT !.snd_retry = NextRetry(t)]
            ELSE t)

DupAck(t) ==
    CASE t.x_mode < RECOVER - 1 -> [t EXCEPT !.x_mode = @ + 1]
      [] t.x_mode = RECOVER - 1 -> EnterRecover(t)
      [] t.x_mode = RECOVER -> Recover(t)
      [] OTHER -> t

FreshAck(t, acked) ==
    [t EXCEPT !.x_mode = LOOKAHEAD, !.backoff = 0,
              !.in_flight = IF acked > @ THEN 0 ELSE @ - acked]

(* Leaving a blackout or a full window.                                    *)
Resume(t, acked) ==
    IF t.x_mode = BLACKOUT \/ (t.x_mode = WINDOW_FULL /\ t.recv_wnd > 1)
    THEN [t EXCEPT !.x_mode = LOOKAHEAD, !.backoff = 0,
                   !.snd_nxt = IF t.x_mode = BLACKOUT /\ acked > 0 /\ t.out # {}
                               THEN first_segment(t.out).seq ELSE @]
    ELSE t

NoPshNoSyn(m) == m.flags \in {"ACK", "FINACK", "RSTACK"}

(* The steps of tcp_ack, in their order.  acked counts the segments that   *)
(* the acknowledgment releases.                                            *)
Release(t, m, acked) == Resume([t EXCEPT !.recv_wnd = m.wnd, !.out = @ \ Until(@, m.ack)], acked)

OneLess(t, m, acked) ==
    IF acked = 0 /\ m.data = 0 /\ t.in_flight > 0 THEN [t EXCEPT !.in_flight = @ - 1] ELSE t

Judge(t, m, acked) ==
    CASE t.out = {} \/ acked > 0 -> FreshAck(t, acked)
      [] /\ t.out # {} /\ acked = 0
         /\ t.snd_old_ack = m.ack
         /\ NoPshNoSyn(m) /\ m.data = 0
         /\ m.ack # t.snd_nxt -> DupAck(t)
      [] OTHER -> t

AnswerProbe(t, m) ==
    IF NoPshNoSyn(m) /\ m.ack = t.snd_nxt /\ pico_seq_compare(m.seq, t.rcv_nxt) < 0
    THEN tcp_send_ack(t) ELSE t

SendMore(t) ==
    IF t.x_mode = LOOKAHEAD /\ t.cwnd >= t.in_flight /\ t.snd_nxt > t.snd_last_out
    THEN pico_tcp_output(t, t.cwnd - t.in_flight) ELSE t

AckSteps(t, m, acked) ==
    LET judged == Judge(OneLess(Release(t, m, acked), m, acked), m, acked)
        sent == SendMore(tcp_congestion_control(AnswerProbe(judged, m)))
    IN  [add_retransmission_timer(sent) EXCEPT !.snd_old_ack = m.ack]

tcp_ack(t, m) ==
    IF HasAck(m)
    THEN AckSteps(tcp_parse_options(t, m), m, Cardinality(Until(t.out, m.ack)))
    ELSE t

-----------------------------------------------------------------------------
(* Resets                                                                  *)

tcp_send_rst(t, m) ==
    IF t.st \in Synchronized THEN tcp_do_send_rst(t, m.ack)
    ELSE pico_socket_del(tcp_do_send_rst([t EXCEPT !.st = "CLOSED"], t.snd_nxt))

(* pico_tcp_reply_rst answers a segment whose flags the state does not     *)
(* take; it needs no socket.                                               *)
ReplyRst(m) ==
    IF IsRst(m) THEN <<>>
    ELSE IF HasAck(m) THEN <<Segment("RST", m.ack, 0, 0, 0, {})>>
    ELSE <<Segment("RSTACK", 0, Seq32(m.seq + Length(m)), 0, 0, {})>>

tcp_nosync_rst(t, m) ==
    LET u == tcp_set_space(t)
    IN  Put([u EXCEPT !.rcv_ackd = u.rcv_nxt, !.sacks = {}],
            Segment("RSTACK", IF HasAck(m) THEN m.ack ELSE 0, Seq32(m.seq + Length(m)),
                    u.wnd, 0, u.sacks))

(* A reset is taken if its sequence number is, as an unsigned number,      *)
(* between rcv_ackd and rcv_ackd plus the window the reset itself carries. *)
tcp_rst(t, m) ==
    IF IF t.st = "SYN_SENT" THEN Inc(t.snd_nxt) = m.ack
       ELSE m.seq >= t.rcv_ackd /\ m.seq <= Seq32(m.wnd + t.rcv_ackd)
    THEN pico_socket_del(t) ELSE t

-----------------------------------------------------------------------------
(* Opening                                                                 *)

(* Mutant: the SYN is sent without a timer.                                *)
SynWithoutTimer(t, iss) ==
    LET seq == IF t.snd_nxt = 0 THEN iss ELSE t.snd_nxt
        u == tcp_set_space([t EXCEPT !.snd_nxt = seq, !.snd_last = seq, !.cwnd = IW,
                                     !.ssthresh = Ssthresh])
    IN  Put(u, Segment("SYN", seq, 0, u.wnd, 0, {}))

(* Without a frame nothing changes, retrans_tmr keeps the number of the    *)
(* timer that has expired; without a timer the SYN is freed unsent.        *)
pico_tcp_initconn(t, iss) ==
    LET seq == IF t.snd_nxt = 0 THEN iss ELSE t.snd_nxt
        u == tcp_set_space([t EXCEPT !.snd_nxt = seq, !.snd_last = seq, !.cwnd = IW,
                                     !.ssthresh = Ssthresh])
    IN  CASE "frame" \in t.lack -> [t EXCEPT !.missed = @ \union {"syn"}]
          [] "frame" \notin t.lack /\ "timer" \in t.lack ->
                [u EXCEPT !.retrans_tmr = "none", !.missed = @ \union {"syn"}]
          [] OTHER -> Put([u EXCEPT !.retrans_tmr = "syn"], Segment("SYN", seq, 0, u.wnd, 0, {}))

tcp_send_synack(t) ==
    LET u == tcp_set_space([t EXCEPT !.rcv_processed = t.snd_nxt, !.snd_last = t.snd_nxt])
    IN  [Put(u, Segment("SYNACK", u.snd_nxt, u.rcv_nxt, u.wnd, 0, u.sacks))
           EXCEPT !.snd_nxt = Inc(@), !.rcv_ackd = IF u.rcv_nxt = 0 THEN @ ELSE u.rcv_nxt,
                  !.sacks = {}]

(* tcp_syn: the child a listening socket opens for a SYN.                  *)
ChildOf(m, iss) ==
    tcp_send_synack([OpenSocket EXCEPT
        !.st = "SYN_RECV", !.rcv_nxt = Inc(m.seq), !.snd_nxt = iss, !.snd_last = iss,
        !.cwnd = IW, !.ssthresh = Ssthresh, !.recv_wnd = m.wnd])

tcp_synrecv_syn(t, m) ==
    IF t.rcv_nxt = Inc(m.seq)
    THEN tcp_send_synack([t EXCEPT !.snd_nxt = Dec(@)])
    ELSE tcp_send_rst(t, m)

tcp_synack(t, m) ==
    IF m.ack = Inc(t.snd_nxt)
    THEN LET u == tcp_ack([t EXCEPT !.retrans_tmr = "none", !.rcv_nxt = m.seq,
                                    !.rcv_processed = Inc(m.seq)], m)
         IN  tcp_send_ack([u EXCEPT !.st = "ESTABLISHED", !.rcv_nxt = Inc(@),
                                    !.snd_nxt = Inc(@)])
    ELSE tcp_nosync_rst(t, m)

(* Mutant: any acknowledgment completes the handshake.                     *)
AnyFirstAck(t, m) ==
    [tcp_ack([t EXCEPT !.rcv_processed = t.rcv_nxt], m) EXCEPT !.st = "ESTABLISHED"]

tcp_first_ack(t, m) ==
    IF t.snd_nxt = m.ack
    THEN [tcp_ack([t EXCEPT !.rcv_processed = t.rcv_nxt], m) EXCEPT !.st = "ESTABLISHED"]
    ELSE tcp_nosync_rst(t, m)

-----------------------------------------------------------------------------
(* Closing                                                                 *)

pico_tcp_notify_closing(t) == IF t.out = {} THEN CheckClosing(t) ELSE t

FinAcked(t, m) == IF m.ack = Dec(t.snd_nxt) THEN [t EXCEPT !.st = "FIN_WAIT2"] ELSE t
tcp_finwaitack(t, m) == FinAcked(tcp_ack(t, m), m)

tcp_finwaitfin(t, m) ==
    LET u == [t EXCEPT !.rcv_nxt = Inc(m.seq), !.st = "TIME_WAIT", !.shutR = TRUE]
    IN  tcp_linger(tcp_send_ack(IF m.data # 0 THEN tcp_data_in(u, m) ELSE u))

BothClosed(t, m) ==
    IF m.ack = t.snd_nxt THEN tcp_linger([t EXCEPT !.st = "TIME_WAIT"]) ELSE t
tcp_closing_ack(t, m) == BothClosed(tcp_ack(t, m), m)

tcp_lastackwait(t, m) == IF m.ack = t.snd_nxt THEN pico_socket_del(t) ELSE t

(* The FIN counts only in order; the state changes only if the application *)
(* has read everything before it, otherwise its next read will change it.  *)
tcp_attempt_closewait(t, m) ==
    IF m.seq # t.rcv_nxt THEN t
    ELSE IF m.seq = t.rcv_processed
         THEN [t EXCEPT !.rcv_nxt = Inc(@), !.shutR = TRUE,
                        !.st = IF @ = "ESTABLISHED" THEN "CLOSE_WAIT" ELSE @]
         ELSE [t EXCEPT !.rcv_nxt = Inc(@), !.remote_closed = TRUE]

AckFin(t) == IF t.st \in {"CLOSE_WAIT", "ESTABLISHED"} THEN tcp_send_ack(t) ELSE t

tcp_closewait(t, m) ==
    LET data == IF m.data # 0 THEN tcp_data_in(t, m) ELSE t
    IN  AckFin(tcp_attempt_closewait(tcp_ack(data, m), m))

tcp_rcvfin(t) ==
    tcp_send_ack([t EXCEPT !.st = "CLOSING", !.rcv_processed = Inc(t.rcv_nxt),
                           !.rcv_nxt = Inc(@)])

tcp_finack(t) ==
    tcp_linger([tcp_send_ack([t EXCEPT !.rcv_nxt = Inc(@)])
                  EXCEPT !.st = "TIME_WAIT", !.shutR = TRUE])

(* A FIN in SYN_RECV: the child is closed in both directions at once.      *)
tcp_closeconn(t, m) ==
    IF m.seq # t.rcv_nxt THEN t
    ELSE pico_tcp_notify_closing([t EXCEPT !.rcv_nxt = Inc(@), !.st = "CLOSE_WAIT",
                                           !.shutL = TRUE, !.shutR = TRUE])

-----------------------------------------------------------------------------
(* pico_tcp_input: the flags the state takes, and the table tcp_fsm        *)

ValidFlags(st) ==
    CASE st = "SYN_SENT" -> {"SYNACK", "RST", "RSTACK"}
      [] st = "SYN_RECV" -> {"SYN", "ACK", "PSH", "PSHACK", "FINACK", "RST"}
      [] st = "ESTABLISHED" ->
            {"SYN", "SYNACK", "ACK", "PSH", "PSHACK", "FIN", "FINACK", "RST", "RSTACK"}
      [] st = "CLOSED" -> {}
      [] OTHER -> {"SYNACK", "ACK", "PSH", "PSHACK", "FIN", "FINACK", "RST"}

OnSyn(t, m) ==
    CASE t.st = "SYN_RECV" -> tcp_synrecv_syn(t, m)
      [] t.st = "ESTABLISHED" -> tcp_send_ack(t)      \* tcp_halfopencon
      [] OTHER -> t

OnSynAck(t, m) ==
    CASE t.st = "SYN_SENT" -> tcp_synack(t, m)
      [] t.st \in {"SYN_RECV", "TIME_WAIT"} -> t
      [] OTHER -> tcp_ack(t, m)

OnAck(t, m) ==
    CASE t.st = "SYN_RECV" -> tcp_first_ack(t, m)
      [] t.st \in {"ESTABLISHED", "CLOSE_WAIT", "FIN_WAIT2"} -> tcp_ack(t, m)
      [] t.st = "LAST_ACK" -> tcp_lastackwait(t, m)
      [] t.st = "FIN_WAIT1" -> tcp_finwaitack(t, m)
      [] t.st = "CLOSING" -> tcp_closing_ack(t, m)
      [] OTHER -> t

(* st is the state the segment arrived in: the table row is chosen before  *)
(* the acknowledgment is processed.                                        *)
OnData(t, st, m) ==
    IF t.gone THEN t
    ELSE IF st \in {"SYN_RECV", "ESTABLISHED", "FIN_WAIT1", "FIN_WAIT2"} THEN tcp_data_in(t, m)
    ELSE IF st = "SYN_SENT" THEN t
    ELSE tcp_send_rst(t, m)

OnFin(t, m) ==
    CASE t.st \in {"ESTABLISHED", "CLOSE_WAIT"} -> tcp_closewait(t, m)
      [] t.st \in {"LAST_ACK", "CLOSING"} -> tcp_send_rst(t, m)
      [] t.st = "FIN_WAIT1" -> tcp_rcvfin(t)
      [] t.st = "FIN_WAIT2" -> tcp_finwaitfin(t, m)
      [] OTHER -> t

OnFinAck(t, m) ==
    CASE t.st = "SYN_RECV" -> tcp_closeconn(t, m)
      [] t.st \in {"ESTABLISHED", "CLOSE_WAIT"} -> tcp_closewait(t, m)
      [] t.st \in {"LAST_ACK", "CLOSING"} -> tcp_send_rst(t, m)
      [] t.st \in {"FIN_WAIT1", "FIN_WAIT2"} -> tcp_finack(t)
      [] OTHER -> t

pico_tcp_input(t, m) ==
    IF m.flags \notin ValidFlags(t.st) THEN [t EXCEPT !.tx = @ \o ReplyRst(m)]
    ELSE CASE m.flags = "SYN" -> OnSyn(t, m)
           [] m.flags = "SYNACK" -> OnSynAck(t, m)
           [] m.flags = "ACK" -> OnAck(t, m)
           [] m.flags = "PSHACK" -> OnData(OnAck(t, m), t.st, m)
           [] m.flags = "PSH" -> OnData(t, t.st, m)
           [] m.flags = "FIN" -> OnFin(t, m)
           [] m.flags = "FINACK" -> OnFinAck(t, m)
           [] IsRst(m) -> IF t.st = "TIME_WAIT" THEN t ELSE tcp_rst(t, m)

-----------------------------------------------------------------------------
(* Timers                                                                  *)

(* The result of pico_tcp_initconn is ignored.                             *)
initconn_retry(t) ==
    LET u == [t EXCEPT !.retrans_tmr = "stale"]
    IN  IF t.st = "ESTABLISHED" THEN u
        ELSE IF t.backoff > MaxConnectRetries THEN pico_socket_del(u)
        ELSE pico_tcp_initconn([u EXCEPT !.backoff = @ + 1], 0)

(* The first segment of the queue is sent again, alone.                    *)
RtoXmit(t) ==
    LET u == IF t.x_mode = BLACKOUT THEN t
             ELSE [t EXCEPT !.x_mode = BLACKOUT, !.cwnd = IW, !.in_flight = 0]
        s == first_segment(u.out)
    IN  Raise(add_retransmission_timer(
                 [Put(u, DataSegment(u, s)) EXCEPT !.snd_last_out = s.seq, !.backoff = @ + 1]),
              s.seq)

tcp_retrans_timeout(t) ==
    LET u == [t EXCEPT !.retrans_tmr = "none"]
        allowed == u.st \in {"ESTABLISHED", "CLOSE_WAIT"} /\ u.backoff < MaxRetrans
    IN  CASE allowed /\ u.out = {} -> u
          [] allowed /\ u.out # {} /\ u.x_mode = WINDOW_FULL ->
                add_retransmission_timer([tcp_send_probe(u) EXCEPT !.backoff = @ + 1])
          [] allowed /\ u.out # {} /\ u.x_mode # WINDOW_FULL -> RtoXmit(u)
          [] u.backoff >= MaxRetrans /\ u.st = "ESTABLISHED" ->
                pico_socket_del([u EXCEPT !.out = {}])
          [] OTHER -> u

(* tcp_deltcb: the linger timeout ends the socket in any state.            *)
tcp_deltcb(t) ==
    LET u == [t EXCEPT !.fin_tmr = FALSE]
    IN  pico_socket_del(IF t.st \in {"TIME_WAIT", "CLOSING"} THEN u
                        ELSE tcp_do_send_rst(u, u.snd_nxt))

-----------------------------------------------------------------------------
(* Calls of the application                                                *)

CanWrite(t) == t.st # "CLOSED" /\ ~t.gone /\ ~t.shutL

(* pico_socket_xmit cuts a write in segments and pushes them one by one,   *)
(* until tcpq_out refuses one: Taken counts the ones it takes.  written    *)
(* is the last unit that was written before.                               *)
Taken(t, count) ==
    Lowest({i \in 0..count :
               \/ i = count \/ Cardinality(t.out) + i >= MaxOut
               \/ peek_segment(t.out, Seq32(t.snd_last + 1 + i)) # {}})

pico_tcp_push(t, count, written) ==
    [t EXCEPT !.out = @ \union {[seq |-> Seq32(t.snd_last + i), data |-> written + i,
                                 sacked |-> FALSE] : i \in 1..count},
              !.snd_last = Seq32(@ + count)]

pico_socket_shutdown_wr(t) == pico_tcp_notify_closing([t EXCEPT !.shutL = TRUE])
pico_socket_close(t) == pico_tcp_notify_closing([t EXCEPT !.shutL = TRUE, !.shutR = TRUE])

CanRead(t) == t.st # "CLOSED" /\ ~t.gone /\ ~(t.shutR /\ t.in = {})

(* The segments before rcv_processed go first; then the read takes units   *)
(* until the buffer is full or there is a hole.                            *)
Unread(t) == t.in \ ReleaseRun(t.in, t.rcv_processed)
Readable(t) == Run(Unread(t), t.rcv_processed)

tcp_read_finish(t) ==
    LET u == tcp_set_space(t)
    IN  IF u.remote_closed THEN [u EXCEPT !.st = "CLOSE_WAIT", !.shutR = TRUE] ELSE u

(* Mutant: what was read stays in the queue and is read again.             *)
ReadWithoutDiscard(t, count) == tcp_read_finish(t)

pico_tcp_read(t, count) ==
    tcp_read_finish([t EXCEPT
        !.in = {s \in Unread(t) : \A k \in 0..(count - 1) : s.seq # Seq32(t.rcv_processed + k)},
        !.rcv_processed = Seq32(@ + count)])
=============================================================================
