------------------------------ MODULE TcpProofs ------------------------------
(***************************************************************************)
(* Proofs about TcpPair.  First the timers that end a connection attempt   *)
(* and a connection that was closed: they hold for every network, any      *)
(* initial sequence numbers, any size of the queues and any number of      *)
(* faults, whatever the queues contain.  Then the streams of one           *)
(* connection: every segment, queued or on its way, fits what its sender   *)
(* has written and received, so that what is read is what was written.     *)
(***************************************************************************)
EXTENDS TcpPair, FiniteSetTheorems, WellFoundedInduction, TLAPS

IsBlock(t) ==
    t \in [st : {t.st}, shutL : {t.shutL}, shutR : {t.shutR}, gone : {t.gone},
           snd_nxt : {t.snd_nxt}, snd_last : {t.snd_last}, snd_old_ack : {t.snd_old_ack},
           snd_retry : {t.snd_retry}, snd_last_out : {t.snd_last_out}, out : {t.out},
           x_mode : {t.x_mode}, in_flight : {t.in_flight}, cwnd : {t.cwnd},
           cwnd_counter : {t.cwnd_counter}, ssthresh : {t.ssthresh}, recv_wnd : {t.recv_wnd},
           backoff : {t.backoff}, rcv_nxt : {t.rcv_nxt}, rcv_ackd : {t.rcv_ackd},
           rcv_processed : {t.rcv_processed}, in : {t.in}, remote_closed : {t.remote_closed},
           wnd : {t.wnd}, localZeroWindow : {t.localZeroWindow}, sacks : {t.sacks},
           retrans_tmr : {t.retrans_tmr}, fin_tmr : {t.fin_tmr}, tx : {t.tx},
           lack : {t.lack}, missed : {t.missed}]

(* A FIN or a SYN for which there was no memory is not forgotten.          *)
Recalls(t, u) ==
    /\ "fin" \in t.missed => "fin" \in u.missed
    /\ "syn" \in t.missed => "syn" \in u.missed

(* What no handler of a segment touches once the connection is open: how   *)
(* far the application has read and written, and what it has shut.         *)
Keeps(t, u) ==
    /\ u.rcv_processed = t.rcv_processed /\ u.snd_last = t.snd_last
    /\ u.shutL = t.shutL /\ u.shutR = t.shutR /\ u.remote_closed = t.remote_closed

(* A handler that leaves the state and the timers alone.                   *)
Steady(t, u) ==
    /\ IsBlock(u)
    /\ u.st = t.st /\ u.gone = t.gone /\ u.fin_tmr = t.fin_tmr
    /\ u.retrans_tmr = t.retrans_tmr /\ u.backoff = t.backoff /\ u.missed = t.missed

Same(t, u) == Steady(t, u) /\ Keeps(t, u)

(* One that may close the connection, with the linger timeout started, if  *)
(* there was a frame for the FIN.                                          *)
Closes(t, u) ==
    /\ IsBlock(u) /\ u.gone = t.gone /\ Keeps(t, u) /\ Recalls(t, u)
    /\ \/ u.st = t.st /\ u.fin_tmr = t.fin_tmr
       \/ /\ t.st \in {"ESTABLISHED", "CLOSE_WAIT"} /\ u.st \in {"FIN_WAIT1", "LAST_ACK"}
          /\ u.fin_tmr = TRUE \/ (u.fin_tmr = t.fin_tmr /\ "fin" \in u.missed)

(* One that sends: a retransmission timer that runs is left alone.         *)
Sends(t, u) ==
    /\ Closes(t, u)
    /\ t.retrans_tmr # "none" => u.retrans_tmr = t.retrans_tmr
    /\ t.retrans_tmr = "none" => u.retrans_tmr \in {"none", "rto"}

LEMMA SameThenSame ==
    ASSUME NEW t, NEW u, NEW v, Same(t, u), Same(u, v)
    PROVE  Same(t, v)
BY DEF Same, Steady, Keeps

LEMMA SameSends ==
    ASSUME NEW t, NEW u, Same(t, u)
    PROVE  Sends(t, u)
BY DEF Same, Steady, Keeps, Sends, Closes, Recalls

LEMMA SendsBlock ==
    ASSUME NEW t, NEW u, Sends(t, u)
    PROVE  IsBlock(u)
BY DEF Sends, Closes

LEMMA SendsThenSends ==
    ASSUME NEW t, NEW u, NEW v, Sends(t, u), Sends(u, v)
    PROVE  Sends(t, v)
BY DEF Sends, Closes, Keeps, Recalls

-----------------------------------------------------------------------------
(* What the handlers send.                                                 *)

LEMMA PutIs ==
    ASSUME NEW t, NEW m, IsBlock(t)
    PROVE  Same(t, Put(t, m))
BY DEF IsBlock, Same, Steady, Keeps, Put

LEMMA EmitIs ==
    ASSUME NEW t, NEW fl, NEW seq, IsBlock(t)
    PROVE  Same(t, Emit(t, fl, seq))
<1> DEFINE u == [t EXCEPT !.rcv_ackd = t.rcv_nxt,
                          !.sacks = IF fl \in {"ACK", "PSHACK"} THEN {} ELSE @]
<1>1. Same(t, u)
  BY DEF IsBlock, Same, Steady, Keeps
<1>2. PICK m : Emit(t, fl, seq) = Put(u, m)
  BY DEF Emit
<1> HIDE DEF u
<1> QED
  BY <1>1, <1>2, PutIs, SameThenSame DEF Same, Steady, Keeps

LEMMA ResizeIs ==
    ASSUME NEW t, NEW space, IsBlock(t)
    PROVE  Same(t, Resize(t, space))
<1> DEFINE u == [t EXCEPT !.wnd = space, !.localZeroWindow = FALSE]
           v == [t EXCEPT !.wnd = space, !.localZeroWindow = (space = 0)]
<1>1. Same(t, t) /\ Same(t, u) /\ Same(t, v)
  BY DEF IsBlock, Same, Steady, Keeps
<1>2. Resize(t, space) \in {t, EmitNext(u, "ACK"), v}
  BY DEF Resize
<1> HIDE DEF u, v
<1>3. Same(t, EmitNext(u, "ACK"))
  BY <1>1, EmitIs, SameThenSame DEF Same, Steady, Keeps, EmitNext
<1> QED
  BY <1>1, <1>2, <1>3

LEMMA SpaceIs ==
    ASSUME NEW t, IsBlock(t)
    PROVE  Same(t, tcp_set_space(t))
BY ResizeIs DEF tcp_set_space

LEMMA AcksAre ==
    ASSUME NEW t, IsBlock(t)
    PROVE  /\ Same(t, tcp_send_ack(t)) /\ Same(t, tcp_send_probe(t))
           /\ \A seq : Same(t, tcp_do_send_rst(t, seq))
<1> DEFINE u == tcp_set_space(t)
<1>1. Same(t, u) /\ IsBlock(u)
  BY SpaceIs DEF Same, Steady, Keeps
<1> HIDE DEF u
<1>2. \A fl, seq : Same(u, Emit(u, fl, seq))
  BY <1>1, EmitIs
<1>3. \A fl, seq : Same(t, Emit(u, fl, seq))
  BY <1>1, <1>2, SameThenSame
<1> QED
  BY <1>3 DEF u, tcp_send_ack, tcp_send_probe, tcp_do_send_rst, EmitNext

LEMMA DelIs ==
    ASSUME NEW t, IsBlock(t)
    PROVE  LET u == pico_socket_del(t)
           IN  IsBlock(u) /\ u.st = "CLOSED"
BY DEF IsBlock, pico_socket_del

LEMMA CheckClosingIs ==
    ASSUME NEW t, IsBlock(t)
    PROVE  LET u == CheckClosing(t)
           IN  Closes(t, u) /\ u.retrans_tmr = t.retrans_tmr /\ u.backoff = t.backoff
<1> DEFINE a == tcp_set_space(t)
           b == EmitNext(a, "FINACK")
           d == [b EXCEPT !.snd_nxt = Inc(@), !.fin_tmr = TRUE]
           e == [t EXCEPT !.missed = @ \union {"fin"}]
           c == tcp_send_fin(t)
           Fine(u) == /\ IsBlock(u) /\ u.gone = t.gone /\ Keeps(t, u) /\ Recalls(t, u)
                      /\ u.retrans_tmr = t.retrans_tmr /\ u.backoff = t.backoff
                      /\ u.fin_tmr = TRUE \/ (u.fin_tmr = t.fin_tmr /\ "fin" \in u.missed)
<1>1. Same(t, b) /\ IsBlock(b)
  BY SpaceIs, EmitIs, SameThenSame DEF Same, Steady, Keeps, EmitNext
<1>2. c = d \/ c = e
  BY DEF tcp_send_fin
<1> HIDE DEF b
<1>3. Fine(d)
  <2> DEFINE n == Inc(b.snd_nxt)
             x == [b EXCEPT !.snd_nxt = n, !.fin_tmr = TRUE]
  <2>1. d = x
    OBVIOUS
  <2> HIDE DEF n
  <2>2. /\ IsBlock(x) /\ x.gone = b.gone /\ x.fin_tmr = TRUE /\ x.missed = b.missed
        /\ x.retrans_tmr = b.retrans_tmr /\ x.backoff = b.backoff /\ Keeps(b, x)
    BY <1>1 DEF IsBlock, Keeps
  <2> HIDE DEF x
  <2>3. Fine(x)
    BY <1>1, <2>2 DEF Same, Steady, Keeps, Recalls
  <2> QED
    BY <2>1, <2>3
<1>8. Fine(e)
  BY DEF IsBlock, Keeps, Recalls
<1>9. Fine(c)
  BY <1>2, <1>3, <1>8
<1> HIDE DEF c
<1>4. ASSUME NEW s PROVE LET u == [c EXCEPT !.st = s] IN Fine(u) /\ u.st = s
  BY <1>9 DEF IsBlock, Keeps, Recalls
<1>5. CASE t.st = "ESTABLISHED"
  BY <1>4, <1>5 DEF CheckClosing, c, Closes
<1>6. CASE t.st = "CLOSE_WAIT"
  BY <1>4, <1>6 DEF CheckClosing, c, Closes
<1>7. CASE t.st \notin {"ESTABLISHED", "CLOSE_WAIT"}
  BY <1>7 DEF CheckClosing, Closes, Keeps, Recalls
<1> QED
  BY <1>5, <1>6, <1>7

-----------------------------------------------------------------------------
(* Output.                                                                 *)

LEMMA RetransmissionTimerIs ==
    ASSUME NEW t, IsBlock(t)
    PROVE  LET u == add_retransmission_timer(t) IN Sends(t, u) /\ u.backoff = t.backoff
<1> DEFINE a == [t EXCEPT !.missed = @ \union {"rto"}]
           b == [t EXCEPT !.retrans_tmr = "rto", !.missed = @ \ {"rto"}]
           u == add_retransmission_timer(t)
<1>1. u \in {t, a, b} /\ (t.retrans_tmr # "none" => u = t)
  BY DEF add_retransmission_timer
<1>2. Sends(t, t)
  BY DEF Sends, Closes, Keeps, Recalls
<1>3. IsBlock(a) /\ Keeps(t, a) /\ Recalls(t, a) /\ a.gone = t.gone /\ a.st = t.st
      /\ a.fin_tmr = t.fin_tmr /\ a.retrans_tmr = t.retrans_tmr /\ a.backoff = t.backoff
  BY DEF IsBlock, Keeps, Recalls
<1>4. IsBlock(b) /\ Keeps(t, b) /\ Recalls(t, b) /\ b.gone = t.gone /\ b.st = t.st
      /\ b.fin_tmr = t.fin_tmr /\ b.retrans_tmr = "rto" /\ b.backoff = t.backoff
  BY DEF IsBlock, Keeps, Recalls
<1> HIDE DEF u, a, b
<1>5. Sends(t, a) /\ (t.retrans_tmr = "none" => Sends(t, b))
  BY <1>3, <1>4 DEF Sends, Closes
<1> QED
  BY <1>1, <1>2, <1>3, <1>4, <1>5 DEF u

LEMMA SendRunIs ==
    ASSUME NEW t, NEW n, IsBlock(t)
    PROVE  Same(t, SendRun(t, n))
<1> DEFINE sent == [k \in 1..n |-> DataSegment(t, CHOOSE s \in t.out : s.seq = Seq32(t.snd_nxt + k - 1))]
           u == [t EXCEPT !.tx = @ \o sent, !.rcv_ackd = t.rcv_nxt, !.in_flight = @ + n,
                          !.snd_last_out = Seq32(t.snd_nxt + n - 1), !.snd_nxt = Seq32(@ + n)]
<1>1. SendRun(t, n) = IF n = 0 THEN t ELSE u
  BY DEF SendRun
<1> HIDE DEF sent
<1>2. Same(t, u) /\ Same(t, t)
  BY DEF IsBlock, Same, Steady, Keeps
<1> QED
  BY <1>1, <1>2

LEMMA WindowFullIs ==
    ASSUME NEW t, NEW una, NEW n, IsBlock(t)
    PROVE  Same(t, WindowFull(t, una, n))
BY DEF IsBlock, Same, Steady, Keeps, WindowFull

LEMMA OutputIs ==
    ASSUME NEW t, NEW score, IsBlock(t)
    PROVE  LET u == pico_tcp_output(t, score) IN Sends(t, u) /\ u.backoff = t.backoff
<1> DEFINE r == add_retransmission_timer(t)
           Fine(u) == IsBlock(u) /\ Sends(t, u) /\ u.backoff = t.backoff
           q == IF t.out = {} THEN t ELSE OutputLoop(t, score)
<1>1. Fine(t) /\ Fine(r)
  BY RetransmissionTimerIs DEF Sends, Closes, Keeps, Recalls
<1>2. \A n : Fine(SendRun(r, n))
  BY <1>1, SendRunIs, SameSends, SendsThenSends DEF Same, Steady, Keeps
<1>3. \A n, una : Fine(WindowFull(SendRun(r, n), una, n))
  BY <1>2, WindowFullIs, SameSends, SendsThenSends DEF Same, Steady, Keeps
<1>4. \/ OutputLoop(t, score) \in {t, r}
      \/ \E n : OutputLoop(t, score) = SendRun(r, n)
      \/ \E n, una : OutputLoop(t, score) = WindowFull(SendRun(r, n), una, n)
  BY DEF OutputLoop
<1> HIDE DEF r
<1>5. Fine(q)
  BY <1>1, <1>2, <1>3, <1>4
<1>6. pico_tcp_output(t, score) \in {q, CheckClosing(q)}
  BY DEF pico_tcp_output, CloseWhenEmpty
<1> HIDE DEF q
<1>7. Fine(CheckClosing(q))
  <2>1. LET u == CheckClosing(q) IN Sends(q, u) /\ IsBlock(u) /\ u.backoff = q.backoff
    BY <1>5, CheckClosingIs DEF Sends, Closes, Keeps, Recalls
  <2> QED
    BY <1>5, <2>1, SendsThenSends
<1> QED
  BY <1>5, <1>6, <1>7
-----------------------------------------------------------------------------
(* Input of data.                                                          *)

LEMMA OptionsAre ==
    ASSUME NEW t, NEW m, IsBlock(t)
    PROVE  Same(t, tcp_parse_options(t, m))
<1> DEFINE marked == {s \in t.out : s.seq \in m.sack}
           a == {IF s \in marked THEN [s EXCEPT !.sacked = TRUE] ELSE s : s \in t.out}
           b == IF t.x_mode = LOOKAHEAD THEN t.in_flight
                ELSE IF t.in_flight > Cardinality(marked) THEN t.in_flight - Cardinality(marked) ELSE 0
<1>1. tcp_parse_options(t, m) = [t EXCEPT !.out = a, !.in_flight = b]
  BY DEF tcp_parse_options
<1> HIDE DEF a, b
<1> QED
  BY <1>1 DEF IsBlock, Same, Steady, Keeps

LEMMA SackIs ==
    ASSUME NEW t, IsBlock(t)
    PROVE  Same(t, tcp_sack_prepare(t))
<1>1. \A x : Same(t, [t EXCEPT !.sacks = x])
  BY DEF IsBlock, Same, Steady, Keeps
<1>2. Same(t, t)
  BY DEF Same, Steady, Keeps
<1> QED
  BY <1>1, <1>2 DEF tcp_sack_prepare

LEMMA AcceptIs ==
    ASSUME NEW t, NEW m, IsBlock(t)
    PROVE  Same(t, Accept(t, m))
<1> DEFINE q == t.in \union {[seq |-> m.seq, data |-> m.data]}
           u == [t EXCEPT !.in = q, !.rcv_nxt = Seq32(@ + Run(q, m.seq))]
           v == [t EXCEPT !.in = q]
<1>1. Accept(t, m) \in {t, u, tcp_sack_prepare(v)}
  BY DEF Accept, tcp_data_in_expected, tcp_data_in_high_segment
<1> HIDE DEF q
<1>2. Same(t, t) /\ Same(t, u) /\ Same(t, v)
  BY DEF IsBlock, Same, Steady, Keeps
<1> HIDE DEF u, v
<1>3. Same(t, tcp_sack_prepare(v))
  BY <1>2, SackIs, SameThenSame DEF Same, Steady, Keeps
<1> QED
  BY <1>1, <1>2, <1>3

LEMMA DataIs ==
    ASSUME NEW t, NEW m, IsBlock(t)
    PROVE  Same(t, tcp_data_in(t, m))
<1> DEFINE u == Accept(tcp_parse_options(t, m), m)
<1>1. Same(t, u) /\ IsBlock(u)
  BY OptionsAre, AcceptIs, SameThenSame DEF Same, Steady, Keeps
<1>2. tcp_data_in(t, m) \in {u, tcp_send_ack(u)}
  BY DEF tcp_data_in, tcp_data_in_send_ack
<1> HIDE DEF u
<1>3. Same(t, tcp_send_ack(u))
  BY <1>1, AcksAre, SameThenSame
<1> QED
  BY <1>1, <1>2, <1>3

-----------------------------------------------------------------------------
(* Input of acknowledgments.                                               *)

LEMMA RetransIs ==
    ASSUME NEW t, NEW found, IsBlock(t)
    PROVE  Sends(t, tcp_retrans(t, found))
<1> DEFINE s == CHOOSE x \in found : TRUE
           p == Put(t, DataSegment(t, s))
           u == [p EXCEPT !.in_flight = @ + 1, !.snd_last_out = s.seq]
           v == Raise(u, s.seq)
<1>1. tcp_retrans(t, found) = IF found = {} THEN t ELSE add_retransmission_timer(v)
  BY DEF tcp_retrans
<1>2. Same(t, p) /\ IsBlock(p)
  BY PutIs DEF Same, Steady, Keeps
<1> HIDE DEF s, p
<1>3. Same(p, u) /\ IsBlock(u)
  BY <1>2 DEF IsBlock, Same, Steady, Keeps
<1> HIDE DEF u
<1>4. Same(u, v) /\ IsBlock(v)
  BY <1>3 DEF IsBlock, Same, Steady, Keeps, Raise
<1> HIDE DEF v
<1>5. Sends(t, v)
  BY <1>2, <1>3, <1>4, SameThenSame, SameSends
<1>6. Sends(t, t)
  BY DEF Sends, Closes, Keeps, Recalls
<1> QED
  BY <1>1, <1>4, <1>5, <1>6, RetransmissionTimerIs, SendsThenSends

LEMMA RecoverIs ==
    ASSUME NEW t, IsBlock(t)
    PROVE  Sends(t, Recover(t))
<1> DEFINE r == tcp_retrans(t, peek_segment(t.out, t.snd_retry))
           u == [r EXCEPT !.snd_retry = NextRetry(t)]
           v == IF t.in_flight <= t.cwnd THEN u ELSE t
<1>1. Sends(t, r) /\ IsBlock(r)
  BY RetransIs DEF Sends, Closes, Keeps, Recalls
<1> HIDE DEF r
<1>2. Sends(r, u)
  <2> DEFINE n == NextRetry(t)
  <2> HIDE DEF n
  <2>1. Same(r, [r EXCEPT !.snd_retry = n])
    BY <1>1 DEF IsBlock, Same, Steady, Keeps
  <2> QED
    BY <2>1, SameSends DEF n
<1> HIDE DEF u
<1>3. Sends(t, v) /\ IsBlock(v)
  BY <1>1, <1>2, SendsThenSends DEF Sends, Closes, Keeps, Recalls
<1>4. Recover(t) = Deflate(v)
  BY DEF Recover, u, r
<1> HIDE DEF v
<1>5. Same(v, Deflate(v))
  BY <1>3 DEF IsBlock, Same, Steady, Keeps, Deflate
<1> QED
  BY <1>3, <1>4, <1>5, SameSends, SendsThenSends

LEMMA DupAckIs ==
    ASSUME NEW t, IsBlock(t)
    PROVE  Sends(t, DupAck(t))
<1> DEFINE cwnd == IF t.in_flight > IW THEN t.in_flight ELSE IW
           half == IF t.ssthresh > cwnd THEN t.ssthresh \div 4 ELSE cwnd \div 2
           low == IF half < 2 THEN 2 ELSE half
           u == [t EXCEPT !.x_mode = RECOVER, !.cwnd = cwnd, !.snd_retry = first_segment(t.out).seq,
                          !.ssthresh = low]
<1>1. EnterRecover(t) = u
  BY DEF EnterRecover
<1> HIDE DEF cwnd, low
<1>2. Same(t, EnterRecover(t))
  BY <1>1 DEF IsBlock, Same, Steady, Keeps
<1> HIDE DEF u
<1>3. Same(t, t) /\ Same(t, [t EXCEPT !.x_mode = @ + 1])
  BY DEF IsBlock, Same, Steady, Keeps
<1>4. DupAck(t) \in {[t EXCEPT !.x_mode = @ + 1], EnterRecover(t), Recover(t), t}
  BY DEF DupAck
<1> QED
  BY <1>2, <1>3, <1>4, RecoverIs, SameSends

LEMMA ReleaseIs ==
    ASSUME NEW t, NEW m, NEW acked, IsBlock(t)
    PROVE  Sends(t, OneLess(Release(t, m, acked), m, acked))
<1> DEFINE q == t.out \ Until(t.out, m.ack)
           u == [t EXCEPT !.recv_wnd = m.wnd, !.out = q]
           v == Resume(u, acked)
           w == OneLess(v, m, acked)
<1>1. Release(t, m, acked) = v
  BY DEF Release
<1> HIDE DEF q
<1>2. Sends(t, u) /\ IsBlock(u)
  BY DEF IsBlock, Sends, Closes, Keeps, Recalls
<1> HIDE DEF u
<1>3. Sends(u, v) /\ IsBlock(v)
  <2> DEFINE nxt == IF u.x_mode = BLACKOUT /\ acked > 0 /\ u.out # {}
                    THEN first_segment(u.out).seq ELSE u.snd_nxt
             x == [u EXCEPT !.x_mode = LOOKAHEAD, !.backoff = 0, !.snd_nxt = nxt]
  <2>1. v \in {u, x}
    BY DEF Resume
  <2> HIDE DEF nxt, v
  <2>2. Sends(u, x) /\ IsBlock(x) /\ Sends(u, u)
    BY <1>2 DEF IsBlock, Sends, Closes, Keeps, Recalls
  <2> QED
    BY <1>2, <2>1, <2>2
<1> HIDE DEF v
<1>4. Sends(v, w)
  BY <1>3 DEF IsBlock, Sends, Closes, Keeps, Recalls, OneLess
<1> HIDE DEF w
<1>5. Sends(t, w)
  BY <1>2, <1>3, <1>4, SendsThenSends
<1> QED
  BY <1>1, <1>5 DEF w

LEMMA JudgeIs ==
    ASSUME NEW t, NEW m, NEW acked, IsBlock(t)
    PROVE  Sends(t, Judge(t, m, acked))
<1>1. Sends(t, t) /\ Sends(t, FreshAck(t, acked))
  BY DEF IsBlock, Sends, Closes, Keeps, Recalls, FreshAck
<1>2. Judge(t, m, acked) \in {FreshAck(t, acked), DupAck(t), t}
  BY DEF Judge
<1> QED
  BY <1>1, <1>2, DupAckIs

LEMMA TcpAckIs ==
    ASSUME NEW t, NEW m, IsBlock(t)
    PROVE  Sends(t, tcp_ack(t, m))
<1> DEFINE acked == Cardinality(Until(t.out, m.ack))
           o == tcp_parse_options(t, m)
           r == OneLess(Release(o, m, acked), m, acked)
           j == Judge(r, m, acked)
           p == AnswerProbe(j, m)
           c == tcp_congestion_control(p)
           s == SendMore(c)
           a == add_retransmission_timer(s)
           b == [a EXCEPT !.snd_old_ack = m.ack]
<1>1. tcp_ack(t, m) = IF HasAck(m) THEN b ELSE t
  BY DEF tcp_ack, AckSteps
<1> HIDE DEF acked
<1>2. Sends(t, o) /\ IsBlock(o)
  BY OptionsAre, SameSends DEF Same, Steady, Keeps
<1> HIDE DEF o
<1>3. Sends(o, r) /\ IsBlock(r)
  BY <1>2, ReleaseIs, SendsBlock
<1> HIDE DEF r
<1>4. Sends(r, j) /\ IsBlock(j)
  BY <1>3, JudgeIs, SendsBlock
<1> HIDE DEF j
<1>5. Sends(j, p) /\ IsBlock(p)
  <2>1. Same(j, j) /\ Same(j, tcp_send_ack(j))
    BY <1>4, AcksAre DEF Same, Steady, Keeps
  <2> QED
    BY <2>1, SameSends DEF AnswerProbe, Same, Steady, Keeps
<1> HIDE DEF p
<1>6. Sends(p, c) /\ IsBlock(c)
  BY <1>5 DEF IsBlock, Sends, Closes, Keeps, Recalls, tcp_congestion_control
<1> HIDE DEF c
<1>7. Sends(c, s) /\ IsBlock(s)
  <2>1. Sends(c, c) /\ IsBlock(c)
    BY <1>6 DEF Sends, Closes, Keeps, Recalls
  <2>2. \A k : Sends(c, pico_tcp_output(c, k)) /\ IsBlock(pico_tcp_output(c, k))
    BY <1>6, OutputIs, SendsBlock
  <2> QED
    BY <2>1, <2>2 DEF SendMore
<1> HIDE DEF s
<1>8. Sends(s, a) /\ IsBlock(a)
  BY <1>7, RetransmissionTimerIs DEF Sends, Closes, Keeps, Recalls
<1> HIDE DEF a
<1>9. Sends(a, b)
  BY <1>8 DEF IsBlock, Sends, Closes, Keeps, Recalls
<1> HIDE DEF b
<1>10. Sends(t, j)
  BY <1>2, <1>3, <1>4, SendsThenSends
<1>11. Sends(j, s)
  BY <1>5, <1>6, <1>7, SendsThenSends
<1>12. Sends(t, b)
  BY <1>8, <1>9, <1>10, <1>11, SendsThenSends
<1>13. Sends(t, t)
  BY DEF Sends, Closes, Keeps, Recalls
<1> QED
  BY <1>1, <1>12, <1>13
-----------------------------------------------------------------------------
(* A block whose timers are armed as its state needs it: the linger        *)
(* timeout from the first FIN on, and the timer of the SYN.                *)

Armed(t) ==
    /\ IsBlock(t)
    /\ t.st \in Closing => t.fin_tmr = TRUE \/ "fin" \in t.missed
    /\ t.st = "SYN_SENT" =>
          /\ t.retrans_tmr = "syn" \/ "syn" \in t.missed
          /\ t.backoff \in 0..(MaxConnectRetries + 1)

LEMMA SameArmed ==
    ASSUME NEW t, NEW u, Armed(t), Steady(t, u) \/ Same(t, u)
    PROVE  Armed(u)
BY DEF Same, Steady, Armed

LEMMA SendsArmed ==
    ASSUME NEW t, NEW u, Armed(t), t.st # "SYN_SENT", Sends(t, u)
    PROVE  Armed(u)
BY DEF Sends, Closes, Keeps, Recalls, Armed, Closing

LEMMA OpenArmed ==
    ASSUME NEW u, IsBlock(u), u.st \in {"CLOSED", "SYN_RECV", "ESTABLISHED", "CLOSE_WAIT"}
    PROVE  Armed(u)
BY DEF Armed, Closing

LEMMA DelArmed ==
    ASSUME NEW t, IsBlock(t)
    PROVE  Armed(pico_socket_del(t))
BY DelIs, OpenArmed

LEMMA LingerArmed ==
    ASSUME NEW t, IsBlock(t), t.st # "SYN_SENT"
    PROVE  Armed(tcp_linger(t))
BY DEF Armed, IsBlock, tcp_linger

LEMMA CheckClosingArmed ==
    ASSUME NEW t, Armed(t)
    PROVE  Armed(CheckClosing(t))
BY CheckClosingIs DEF Armed, Closes, Keeps, Recalls, Closing

LEMMA SendRstArmed ==
    ASSUME NEW t, NEW m, Armed(t)
    PROVE  Armed(tcp_send_rst(t, m))
<1> DEFINE u == [t EXCEPT !.st = "CLOSED"]
           v == tcp_do_send_rst(u, t.snd_nxt)
<1>1. IsBlock(t) /\ IsBlock(u)
  BY DEF IsBlock, Armed
<1>2. Armed(tcp_do_send_rst(t, m.ack))
  BY <1>1, AcksAre, SameArmed
<1> HIDE DEF u
<1>3. IsBlock(v)
  BY <1>1, AcksAre DEF Same, Steady, Keeps
<1>4. tcp_send_rst(t, m) \in {tcp_do_send_rst(t, m.ack), pico_socket_del(v)}
  BY DEF tcp_send_rst, u
<1> HIDE DEF v
<1> QED
  BY <1>2, <1>3, <1>4, DelArmed

LEMMA NosyncIs ==
    ASSUME NEW t, NEW m, IsBlock(t)
    PROVE  Same(t, tcp_nosync_rst(t, m))
<1> DEFINE u == tcp_set_space(t)
           v == [u EXCEPT !.rcv_ackd = u.rcv_nxt, !.sacks = {}]
<1>1. Same(t, u) /\ IsBlock(u)
  BY SpaceIs DEF Same, Steady, Keeps
<1>2. PICK x : tcp_nosync_rst(t, m) = Put(v, x)
  BY DEF tcp_nosync_rst
<1> HIDE DEF u
<1>3. Same(u, v) /\ IsBlock(v)
  BY <1>1 DEF IsBlock, Same, Steady, Keeps
<1> HIDE DEF v
<1> QED
  BY <1>1, <1>2, <1>3, PutIs, SameThenSame

LEMMA SynackIs ==
    ASSUME NEW t, IsBlock(t)
    PROVE  Steady(t, tcp_send_synack(t))
<1> DEFINE a == [t EXCEPT !.rcv_processed = t.snd_nxt, !.snd_last = t.snd_nxt]
           u == tcp_set_space(a)
           p == Put(u, Segment("SYNACK", u.snd_nxt, u.rcv_nxt, u.wnd, 0, u.sacks))
           v == [p EXCEPT !.snd_nxt = Inc(@), !.rcv_ackd = IF u.rcv_nxt = 0 THEN @ ELSE u.rcv_nxt,
                          !.sacks = {}]
<1>1. tcp_send_synack(t) = v
  BY DEF tcp_send_synack
<1>2. Steady(t, a) /\ IsBlock(a)
  BY DEF IsBlock, Steady
<1> HIDE DEF a
<1>3. Same(a, u) /\ IsBlock(u)
  BY <1>2, SpaceIs DEF Same, Steady, Keeps
<1> HIDE DEF u
<1>4. Same(u, p) /\ IsBlock(p)
  BY <1>3, PutIs DEF Same, Steady, Keeps
<1> HIDE DEF p
<1>5. Same(p, v)
  BY <1>4 DEF IsBlock, Same, Steady, Keeps
<1> HIDE DEF v
<1> QED
  BY <1>1, <1>2, <1>3, <1>4, <1>5 DEF Same, Steady

LEMMA InitconnIs ==
    ASSUME NEW t, NEW iss, IsBlock(t)
    PROVE  LET u == pico_tcp_initconn(t, iss)
           IN  /\ IsBlock(u) /\ u.st = t.st /\ u.fin_tmr = t.fin_tmr /\ u.backoff = t.backoff
               /\ u.retrans_tmr = "syn" \/ "syn" \in u.missed
               /\ Recalls(t, u)
<1> DEFINE seq == IF t.snd_nxt = 0 THEN iss ELSE t.snd_nxt
           a == [t EXCEPT !.snd_nxt = seq, !.snd_last = seq, !.cwnd = IW,
                          !.ssthresh = Ssthresh]
           u == tcp_set_space(a)
           x == [t EXCEPT !.missed = @ \union {"syn"}]
           y == [u EXCEPT !.retrans_tmr = "none", !.missed = @ \union {"syn"}]
           z == [u EXCEPT !.retrans_tmr = "syn"]
           v == Put(z, Segment("SYN", seq, 0, u.wnd, 0, {}))
           Fine(b) == /\ IsBlock(b) /\ b.st = t.st /\ b.fin_tmr = t.fin_tmr
                      /\ b.backoff = t.backoff /\ Recalls(t, b)
<1>1. pico_tcp_initconn(t, iss) \in {x, y, v}
  BY DEF pico_tcp_initconn
<1> HIDE DEF seq
<1>2. Fine(a)
  BY DEF IsBlock, Recalls
<1> HIDE DEF a
<1>3. Same(a, u) /\ IsBlock(u)
  BY <1>2, SpaceIs DEF Same, Steady, Keeps
<1> HIDE DEF u
<1>4. Fine(u)
  BY <1>2, <1>3 DEF Same, Steady, Keeps, Recalls
<1>5. Fine(x) /\ "syn" \in x.missed
  BY DEF IsBlock, Recalls
<1>6. Fine(y) /\ "syn" \in y.missed
  BY <1>4 DEF IsBlock, Recalls
<1>7. Fine(z) /\ z.retrans_tmr = "syn"
  BY <1>4 DEF IsBlock, Recalls
<1> HIDE DEF x, y, z
<1>8. Same(z, v)
  BY <1>7, PutIs
<1> HIDE DEF v
<1>9. Fine(v) /\ v.retrans_tmr = "syn"
  BY <1>7, <1>8 DEF Same, Steady, Keeps, Recalls
<1> QED
  BY <1>1, <1>5, <1>6, <1>9

-----------------------------------------------------------------------------
(* The handlers of a segment, one for each column of tcp_fsm.              *)

LEMMA SynArmed ==
    ASSUME NEW t, NEW m, Armed(t)
    PROVE  Armed(OnSyn(t, m))
<1> DEFINE u == [t EXCEPT !.snd_nxt = Dec(@)]
<1>1. IsBlock(t) /\ Same(t, u) /\ IsBlock(u)
  BY DEF Armed, IsBlock, Same, Steady, Keeps
<1>2. OnSyn(t, m) \in {tcp_send_synack(u), tcp_send_rst(t, m), tcp_send_ack(t), t}
  BY DEF OnSyn, tcp_synrecv_syn
<1> HIDE DEF u
<1>3. Armed(tcp_send_synack(u)) /\ Armed(tcp_send_ack(t))
  BY <1>1, SynackIs, AcksAre, SameArmed
<1> QED
  BY <1>2, <1>3, SendRstArmed

LEMMA SynAckArmed ==
    ASSUME NEW t, NEW m, Armed(t)
    PROVE  Armed(OnSynAck(t, m))
<1> DEFINE a == [t EXCEPT !.retrans_tmr = "none", !.rcv_nxt = m.seq, !.rcv_processed = Inc(m.seq)]
           u == tcp_ack(a, m)
           v == [u EXCEPT !.st = "ESTABLISHED", !.rcv_nxt = Inc(@), !.snd_nxt = Inc(@)]
<1>1. IsBlock(t) /\ IsBlock(a)
  BY DEF Armed, IsBlock
<1>2. OnSynAck(t, m) \in {tcp_send_ack(v), tcp_nosync_rst(t, m), t}
         \/ (t.st # "SYN_SENT" /\ OnSynAck(t, m) = tcp_ack(t, m))
  BY DEF OnSynAck, tcp_synack
<1> HIDE DEF a
<1>3. IsBlock(u)
  BY <1>1, TcpAckIs DEF Sends, Closes, Keeps, Recalls
<1> HIDE DEF u
<1>4. IsBlock(v) /\ v.st = "ESTABLISHED"
  BY <1>3 DEF IsBlock
<1> HIDE DEF v
<1>5. Armed(tcp_send_ack(v))
  BY <1>4, AcksAre, OpenArmed, SameArmed
<1>6. Armed(tcp_nosync_rst(t, m))
  BY <1>1, NosyncIs, SameArmed
<1>7. t.st # "SYN_SENT" => Armed(tcp_ack(t, m))
  BY <1>1, TcpAckIs, SendsArmed
<1> QED
  BY <1>2, <1>5, <1>6, <1>7

LEMMA AckArmed ==
    ASSUME NEW t, NEW m, Armed(t)
    PROVE  Armed(OnAck(t, m))
<1>1. IsBlock(t)
  BY DEF Armed
<1>2. CASE t.st = "SYN_RECV"
  <2> DEFINE a == [t EXCEPT !.rcv_processed = t.rcv_nxt]
             u == tcp_ack(a, m)
             v == [u EXCEPT !.st = "ESTABLISHED"]
  <2>1. IsBlock(a)
    BY <1>1 DEF IsBlock
  <2>2. OnAck(t, m) \in {v, tcp_nosync_rst(t, m)}
    BY <1>2 DEF OnAck, tcp_first_ack
  <2> HIDE DEF a
  <2>3. IsBlock(u)
    BY <2>1, TcpAckIs DEF Sends, Closes, Keeps, Recalls
  <2> HIDE DEF u
  <2>4. IsBlock(v) /\ v.st = "ESTABLISHED"
    BY <2>3 DEF IsBlock
  <2> HIDE DEF v
  <2> QED
    BY <1>1, <2>2, <2>4, OpenArmed, NosyncIs, SameArmed
<1>3. CASE t.st \in {"ESTABLISHED", "CLOSE_WAIT", "FIN_WAIT2"}
  BY <1>1, <1>3, TcpAckIs, SendsArmed DEF OnAck
<1>4. CASE t.st = "LAST_ACK"
  BY <1>1, <1>4, DelArmed DEF OnAck, tcp_lastackwait
<1>5. CASE t.st = "FIN_WAIT1"
  <2> DEFINE u == tcp_ack(t, m)
  <2>1. OnAck(t, m) = FinAcked(u, m)
    BY <1>5 DEF OnAck, tcp_finwaitack
  <2>2. IsBlock(u) /\ u.st = "FIN_WAIT1" /\ (u.fin_tmr = TRUE \/ "fin" \in u.missed)
    BY <1>1, <1>5, TcpAckIs DEF Sends, Closes, Keeps, Recalls, Armed, Closing
  <2> HIDE DEF u
  <2>3. Armed(u) /\ Armed([u EXCEPT !.st = "FIN_WAIT2"])
    BY <2>2 DEF Armed, IsBlock, Closing
  <2> QED
    BY <2>1, <2>3 DEF FinAcked
<1>6. CASE t.st = "CLOSING"
  <2> DEFINE u == tcp_ack(t, m)
             v == [u EXCEPT !.st = "TIME_WAIT"]
  <2>1. OnAck(t, m) \in {u, tcp_linger(v)}
    BY <1>6 DEF OnAck, tcp_closing_ack, BothClosed
  <2>2. Armed(u)
    BY <1>1, <1>6, TcpAckIs, SendsArmed
  <2> HIDE DEF u
  <2>3. IsBlock(v) /\ v.st = "TIME_WAIT"
    BY <2>2 DEF Armed, IsBlock
  <2> HIDE DEF v
  <2> QED
    BY <2>1, <2>2, <2>3, LingerArmed
<1>7. CASE t.st \notin {"SYN_RECV", "ESTABLISHED", "CLOSE_WAIT", "FIN_WAIT2", "LAST_ACK",
                        "FIN_WAIT1", "CLOSING"}
  BY <1>7 DEF OnAck
<1> QED
  BY <1>2, <1>3, <1>4, <1>5, <1>6, <1>7

LEMMA DataArmed ==
    ASSUME NEW t, NEW st, NEW m, Armed(t)
    PROVE  Armed(OnData(t, st, m))
<1>1. Armed(tcp_data_in(t, m))
  BY DataIs, SameArmed DEF Armed
<1>2. OnData(t, st, m) \in {t, tcp_data_in(t, m), tcp_send_rst(t, m)}
  BY DEF OnData
<1> QED
  BY <1>1, <1>2, SendRstArmed

LEMMA ClosewaitArmed ==
    ASSUME NEW t, NEW m, Armed(t), t.st # "SYN_SENT"
    PROVE  Armed(tcp_closewait(t, m))
<1> DEFINE d == IF m.data # 0 THEN tcp_data_in(t, m) ELSE t
           a == tcp_ack(d, m)
           c == tcp_attempt_closewait(a, m)
<1>1. tcp_closewait(t, m) \in {c, tcp_send_ack(c)}
  BY DEF tcp_closewait, AckFin
<1>2. Armed(d) /\ d.st # "SYN_SENT"
  BY DataIs, SameArmed DEF Armed, Same, Steady, Keeps
<1> HIDE DEF d
<1>3. Armed(a)
  BY <1>2, TcpAckIs, SendsArmed DEF Armed
<1> HIDE DEF a
<1>4. Armed(c)
  <2> DEFINE u == [a EXCEPT !.rcv_nxt = Inc(@), !.shutR = TRUE,
                            !.st = IF @ = "ESTABLISHED" THEN "CLOSE_WAIT" ELSE @]
             v == [a EXCEPT !.rcv_nxt = Inc(@), !.remote_closed = TRUE]
  <2>1. c \in {a, u, v}
    BY DEF tcp_attempt_closewait
  <2>2. Armed(u) /\ Armed(v)
    BY <1>3 DEF Armed, IsBlock, Closing
  <2> QED
    BY <1>3, <2>1, <2>2
<1> HIDE DEF c
<1>5. Armed(tcp_send_ack(c))
  BY <1>4, AcksAre, SameArmed DEF Armed
<1> QED
  BY <1>1, <1>4, <1>5

LEMMA FinArmed ==
    ASSUME NEW t, NEW m, Armed(t)
    PROVE  Armed(OnFin(t, m))
<1>1. CASE t.st \in {"ESTABLISHED", "CLOSE_WAIT"}
  BY <1>1, ClosewaitArmed DEF OnFin
<1>2. CASE t.st \in {"LAST_ACK", "CLOSING"}
  BY <1>2, SendRstArmed DEF OnFin
<1>3. CASE t.st = "FIN_WAIT1"
  <2> DEFINE u == [t EXCEPT !.st = "CLOSING", !.rcv_processed = Inc(t.rcv_nxt), !.rcv_nxt = Inc(@)]
  <2>1. OnFin(t, m) = tcp_send_ack(u)
    BY <1>3 DEF OnFin, tcp_rcvfin
  <2>2. Armed(u)
    BY <1>3 DEF Armed, IsBlock, Closing
  <2> HIDE DEF u
  <2>3. IsBlock(u)
    BY <2>2 DEF Armed
  <2> QED
    BY <2>1, <2>2, <2>3, AcksAre, SameArmed
<1>4. CASE t.st = "FIN_WAIT2"
  <2> DEFINE u == [t EXCEPT !.rcv_nxt = Inc(m.seq), !.st = "TIME_WAIT", !.shutR = TRUE]
             v == IF m.data # 0 THEN tcp_data_in(u, m) ELSE u
             w == tcp_send_ack(v)
  <2>1. OnFin(t, m) = tcp_linger(w)
    BY <1>4 DEF OnFin, tcp_finwaitfin
  <2>2. IsBlock(u) /\ u.st = "TIME_WAIT"
    BY DEF Armed, IsBlock
  <2> HIDE DEF u
  <2>3. IsBlock(v) /\ v.st = "TIME_WAIT"
    BY <2>2, DataIs DEF Same, Steady, Keeps
  <2> HIDE DEF v
  <2>4. IsBlock(w) /\ w.st = "TIME_WAIT"
    BY <2>3, AcksAre DEF Same, Steady, Keeps
  <2> HIDE DEF w
  <2> QED
    BY <2>1, <2>4, LingerArmed
<1>5. CASE t.st \notin {"ESTABLISHED", "CLOSE_WAIT", "LAST_ACK", "CLOSING", "FIN_WAIT1", "FIN_WAIT2"}
  BY <1>5 DEF OnFin
<1> QED
  BY <1>1, <1>2, <1>3, <1>4, <1>5

LEMMA FinAckArmed ==
    ASSUME NEW t, NEW m, Armed(t)
    PROVE  Armed(OnFinAck(t, m))
<1>1. CASE t.st = "SYN_RECV"
  <2> DEFINE u == [t EXCEPT !.rcv_nxt = Inc(@), !.st = "CLOSE_WAIT", !.shutL = TRUE, !.shutR = TRUE]
  <2>1. OnFinAck(t, m) \in {t, u, CheckClosing(u)}
    BY <1>1 DEF OnFinAck, tcp_closeconn, pico_tcp_notify_closing
  <2>2. IsBlock(u) /\ u.st = "CLOSE_WAIT"
    BY DEF Armed, IsBlock
  <2> HIDE DEF u
  <2> QED
    BY <2>1, <2>2, OpenArmed, CheckClosingArmed
<1>2. CASE t.st \in {"ESTABLISHED", "CLOSE_WAIT"}
  BY <1>2, ClosewaitArmed DEF OnFinAck
<1>3. CASE t.st \in {"LAST_ACK", "CLOSING"}
  BY <1>3, SendRstArmed DEF OnFinAck
<1>4. CASE t.st \in {"FIN_WAIT1", "FIN_WAIT2"}
  <2> DEFINE u == [t EXCEPT !.rcv_nxt = Inc(@)]
             v == tcp_send_ack(u)
             w == [v EXCEPT !.st = "TIME_WAIT", !.shutR = TRUE]
  <2>1. OnFinAck(t, m) = tcp_linger(w)
    BY <1>4 DEF OnFinAck, tcp_finack
  <2>2. IsBlock(u)
    BY DEF Armed, IsBlock
  <2> HIDE DEF u
  <2>3. IsBlock(v)
    BY <2>2, AcksAre DEF Same, Steady, Keeps
  <2> HIDE DEF v
  <2>4. IsBlock(w) /\ w.st = "TIME_WAIT"
    BY <2>3 DEF IsBlock
  <2> HIDE DEF w
  <2> QED
    BY <2>1, <2>4, LingerArmed
<1>5. CASE t.st \notin {"SYN_RECV", "ESTABLISHED", "CLOSE_WAIT", "LAST_ACK", "CLOSING",
                        "FIN_WAIT1", "FIN_WAIT2"}
  BY <1>5 DEF OnFinAck
<1> QED
  BY <1>1, <1>2, <1>3, <1>4, <1>5

LEMMA InputArmed ==
    ASSUME NEW t, NEW m, Armed(t)
    PROVE  Armed(pico_tcp_input(t, m))
<1> DEFINE u == [t EXCEPT !.tx = @ \o ReplyRst(m)]
           a == OnAck(t, m)
<1>1. /\ Armed(OnSyn(t, m)) /\ Armed(OnSynAck(t, m)) /\ Armed(a) /\ Armed(OnFin(t, m))
      /\ Armed(OnFinAck(t, m)) /\ Armed(OnData(t, t.st, m))
  BY SynArmed, SynAckArmed, AckArmed, FinArmed, FinAckArmed, DataArmed
<1>2. Armed(OnData(a, t.st, m))
  BY <1>1, DataArmed
<1>3. Armed(u) /\ Armed(pico_socket_del(t))
  BY DelArmed DEF Armed, IsBlock
<1>4. m.flags \in ValidFlags(t.st) =>
         m.flags \in {"SYN", "SYNACK", "ACK", "PSH", "PSHACK", "FIN", "FINACK", "RST", "RSTACK"}
  BY DEF ValidFlags
<1>5. pico_tcp_input(t, m) \in {u, OnSyn(t, m), OnSynAck(t, m), a, OnData(a, t.st, m),
                                OnData(t, t.st, m), OnFin(t, m), OnFinAck(t, m), t, pico_socket_del(t)}
  BY <1>4 DEF pico_tcp_input, tcp_rst, IsRst
<1> HIDE DEF u, a
<1> QED
  BY <1>1, <1>2, <1>3, <1>5

-----------------------------------------------------------------------------
(* Timers and calls of the application.                                    *)

LEMMA RetryArmed ==
    ASSUME NEW t, Armed(t)
    PROVE  Armed(initconn_retry(t))
<1> DEFINE a == [t EXCEPT !.retrans_tmr = "stale"]
           b == [a EXCEPT !.backoff = @ + 1]
           v == pico_tcp_initconn(b, 0)
<1>1. IsBlock(a) /\ a.st = t.st /\ a.fin_tmr = t.fin_tmr /\ a.backoff = t.backoff /\ a.missed = t.missed
  BY DEF Armed, IsBlock
<1>3. \/ t.st = "ESTABLISHED" /\ initconn_retry(t) = a
      \/ initconn_retry(t) = pico_socket_del(a)
      \/ ~(t.backoff > MaxConnectRetries) /\ initconn_retry(t) = v
  BY DEF initconn_retry
<1> HIDE DEF a
<1>2. /\ IsBlock(b) /\ b.st = t.st /\ b.fin_tmr = t.fin_tmr /\ b.backoff = t.backoff + 1
      /\ b.missed = t.missed
  BY <1>1 DEF IsBlock
<1> HIDE DEF b
<1>4. /\ IsBlock(v) /\ v.st = t.st /\ v.fin_tmr = t.fin_tmr
      /\ v.backoff = t.backoff + 1 /\ (v.retrans_tmr = "syn" \/ "syn" \in v.missed)
      /\ Recalls(b, v)
  BY <1>2, InitconnIs
<1> HIDE DEF v
<1>5. ~(t.backoff > MaxConnectRetries) => Armed(v)
  <2>1. ASSUME ~(t.backoff > MaxConnectRetries), v.st = "SYN_SENT"
        PROVE  v.backoff \in 0..(MaxConnectRetries + 1)
    <3>1. t.backoff \in 0..(MaxConnectRetries + 1)
      BY <1>4, <2>1 DEF Armed
    <3> QED
      BY <1>4, <2>1, <3>1, TcpAssumption
  <2> QED
    BY <1>2, <1>4, <2>1 DEF Armed, Recalls
<1>6. t.st = "ESTABLISHED" => Armed(a)
  BY <1>1, OpenArmed
<1> QED
  BY <1>1, <1>3, <1>5, <1>6, DelArmed

LEMMA RtoArmed ==
    ASSUME NEW t, Armed(t), t.retrans_tmr = "rto"
    PROVE  Armed(tcp_retrans_timeout(t))
<1> DEFINE u == [t EXCEPT !.retrans_tmr = "none"]
           p == tcp_send_probe(u)
           q == [p EXCEPT !.backoff = @ + 1]
           d == [u EXCEPT !.out = {}]
           b == IF u.x_mode = BLACKOUT THEN u
                ELSE [u EXCEPT !.x_mode = BLACKOUT, !.cwnd = IW, !.in_flight = 0]
           s == first_segment(b.out)
           e == Put(b, DataSegment(b, s))
           f == [e EXCEPT !.snd_last_out = s.seq, !.backoff = @ + 1]
           h == add_retransmission_timer(f)
           g == Raise(h, s.seq)
<1>7. CASE t.st = "SYN_SENT"
  <2>1. IsBlock(u) /\ u.st = t.st /\ u.missed = t.missed /\ u.backoff = t.backoff
    BY DEF Armed, IsBlock
  <2>2. tcp_retrans_timeout(t) = u
    BY <1>7, <2>1 DEF tcp_retrans_timeout
  <2> HIDE DEF u
  <2> QED
    BY <1>7, <2>1, <2>2 DEF Armed, Closing
<1>8. CASE t.st # "SYN_SENT"
  <2>1. IsBlock(u) /\ u.st = t.st /\ u.fin_tmr = t.fin_tmr /\ u.missed = t.missed
    BY DEF Armed, IsBlock
  <2>2. tcp_retrans_timeout(t) \in {u, add_retransmission_timer(q), g, pico_socket_del(d)}
    BY DEF tcp_retrans_timeout, RtoXmit
  <2> HIDE DEF u
  <2>3. Armed(u) /\ u.st # "SYN_SENT"
    BY <1>8, <2>1 DEF Armed
  <2>4. Armed(q) /\ q.st # "SYN_SENT" /\ IsBlock(q)
    <3>1. Same(u, p) /\ IsBlock(p)
      BY <2>1, AcksAre DEF Same, Steady, Keeps
    <3> HIDE DEF p
    <3>2. IsBlock(q) /\ q.st = p.st /\ q.fin_tmr = p.fin_tmr /\ q.missed = p.missed
      BY <3>1 DEF IsBlock
    <3> HIDE DEF q
    <3> QED
      BY <2>1, <2>3, <3>1, <3>2 DEF Armed, Same, Steady, Keeps
  <2> HIDE DEF q
  <2>5. IsBlock(d)
    BY <2>1 DEF IsBlock
  <2> HIDE DEF d
  <2>6. Armed(f) /\ f.st # "SYN_SENT" /\ IsBlock(f)
    <3>1. IsBlock(b) /\ b.st = u.st /\ b.fin_tmr = u.fin_tmr /\ b.missed = u.missed
      BY <2>1 DEF IsBlock
    <3> HIDE DEF b, s
    <3>2. IsBlock(e) /\ e.st = b.st /\ e.fin_tmr = b.fin_tmr /\ e.missed = b.missed
      BY <3>1, PutIs DEF Same, Steady, Keeps
    <3> HIDE DEF e
    <3>3. IsBlock(f) /\ f.st = e.st /\ f.fin_tmr = e.fin_tmr /\ f.missed = e.missed
      BY <3>2 DEF IsBlock
    <3> HIDE DEF f
    <3> QED
      BY <2>1, <2>3, <3>1, <3>2, <3>3 DEF Armed
  <2> HIDE DEF f, b, s
  <2>7. Armed(h) /\ IsBlock(h) /\ h.st # "SYN_SENT" /\ Armed(add_retransmission_timer(q))
    <3>1. Sends(f, h) /\ Sends(q, add_retransmission_timer(q))
      BY <2>4, <2>6, RetransmissionTimerIs
    <3> HIDE DEF h
    <3>2. h.st # "SYN_SENT"
      BY <2>6, <3>1 DEF Sends, Closes
    <3> QED
      BY <2>4, <2>6, <3>1, <3>2, SendsArmed, SendsBlock
  <2> HIDE DEF h
  <2>8. Armed(g)
    <3>1. IsBlock(g) /\ g.st = h.st /\ g.fin_tmr = h.fin_tmr /\ g.missed = h.missed
      BY <2>7 DEF IsBlock, Raise
    <3> HIDE DEF g
    <3> QED
      BY <2>7, <3>1 DEF Armed
  <2> HIDE DEF g
  <2> QED
    BY <2>2, <2>3, <2>5, <2>7, <2>8, DelArmed
<1> QED
  BY <1>7, <1>8

LEMMA DeltcbArmed ==
    ASSUME NEW t, Armed(t)
    PROVE  Armed(tcp_deltcb(t))
<1> DEFINE u == [t EXCEPT !.fin_tmr = FALSE]
           v == tcp_do_send_rst(u, u.snd_nxt)
<1>1. IsBlock(u)
  BY DEF Armed, IsBlock
<1>2. tcp_deltcb(t) \in {pico_socket_del(u), pico_socket_del(v)}
  BY DEF tcp_deltcb
<1> HIDE DEF u
<1>3. IsBlock(v)
  BY <1>1, AcksAre DEF Same, Steady, Keeps
<1> QED
  BY <1>1, <1>2, <1>3, DelArmed

LEMMA PushIs ==
    ASSUME NEW t, NEW count, NEW written, IsBlock(t)
    PROVE  Steady(t, pico_tcp_push(t, count, written))
<1> DEFINE new == {[seq |-> Seq32(t.snd_last + i), data |-> written + i, sacked |-> FALSE] : i \in 1..count}
           u == [t EXCEPT !.out = @ \union new, !.snd_last = Seq32(@ + count)]
<1>1. pico_tcp_push(t, count, written) = u
  BY DEF pico_tcp_push
<1> HIDE DEF new
<1> QED
  BY <1>1 DEF IsBlock, Steady

LEMMA ReadArmed ==
    ASSUME NEW t, NEW count, Armed(t)
    PROVE  Armed(pico_tcp_read(t, count))
<1> DEFINE left == {s \in Unread(t) : \A k \in 0..(count - 1) : s.seq # Seq32(t.rcv_processed + k)}
           a == [t EXCEPT !.in = left, !.rcv_processed = Seq32(@ + count)]
           u == tcp_set_space(a)
           v == [u EXCEPT !.st = "CLOSE_WAIT", !.shutR = TRUE]
<1>1. pico_tcp_read(t, count) \in {u, v}
  BY DEF pico_tcp_read, tcp_read_finish
<1> HIDE DEF left
<1>2. Steady(t, a) /\ IsBlock(a)
  BY DEF Armed, IsBlock, Steady
<1> HIDE DEF a
<1>3. Steady(t, u) /\ IsBlock(u)
  BY <1>2, SpaceIs DEF Same, Steady
<1> HIDE DEF u
<1>4. IsBlock(v) /\ v.st = "CLOSE_WAIT"
  BY <1>3 DEF IsBlock
<1> HIDE DEF v
<1> QED
  BY <1>1, <1>3, <1>4, SameArmed, OpenArmed

LEMMA ShutdownArmed ==
    ASSUME NEW t, Armed(t)
    PROVE  /\ Armed([t EXCEPT !.shutR = TRUE])
           /\ Armed(pico_socket_shutdown_wr(t)) /\ Armed(pico_socket_close(t))
<1> DEFINE u == [t EXCEPT !.shutL = TRUE]
           v == [t EXCEPT !.shutL = TRUE, !.shutR = TRUE]
<1>1. Armed([t EXCEPT !.shutR = TRUE]) /\ Armed(u) /\ Armed(v)
  BY DEF Armed, IsBlock
<1>2. /\ pico_socket_shutdown_wr(t) \in {u, CheckClosing(u)}
      /\ pico_socket_close(t) \in {v, CheckClosing(v)}
  BY DEF pico_socket_shutdown_wr, pico_socket_close, pico_tcp_notify_closing
<1> HIDE DEF u, v
<1> QED
  BY <1>1, <1>2, CheckClosingArmed

LEMMA OutputArmed ==
    ASSUME NEW t, NEW score, Armed(t)
    PROVE  Armed(pico_tcp_output(t, score))
<1> DEFINE u == pico_tcp_output(t, score)
<1>1. Sends(t, u) /\ u.backoff = t.backoff
  BY OutputIs DEF Armed
<1> HIDE DEF u
<1>2. CASE t.st # "SYN_SENT"
  BY <1>1, <1>2, SendsArmed DEF u
<1>3. CASE t.st = "SYN_SENT"
  <2>1. IsBlock(u) /\ u.st = "SYN_SENT" /\ (u.retrans_tmr = "syn" \/ "syn" \in u.missed)
    BY <1>1, <1>3 DEF Sends, Closes, Keeps, Recalls, Armed
  <2>2. Armed(u)
    BY <1>1, <1>3, <2>1 DEF Armed, Closing
  <2> QED
    BY <2>2 DEF u
<1> QED
  BY <1>2, <1>3

LEMMA OpenIsBlock == IsBlock(OpenSocket)
BY DEF OpenSocket, IsBlock

LEMMA ChildArmed ==
    ASSUME NEW m, NEW iss
    PROVE  Armed(ChildOf(m, iss))
<1> DEFINE o == OpenSocket
           u == [o EXCEPT !.st = "SYN_RECV", !.rcv_nxt = Inc(m.seq), !.snd_nxt = iss, !.snd_last = iss,
                          !.cwnd = IW, !.ssthresh = Ssthresh, !.recv_wnd = m.wnd]
<1>1. ChildOf(m, iss) = tcp_send_synack(u)
  BY DEF ChildOf
<1>2. IsBlock(u) /\ u.st = "SYN_RECV"
  BY OpenIsBlock DEF IsBlock
<1> HIDE DEF u
<1> QED
  BY <1>1, <1>2, OpenArmed, SynackIs, SameArmed

LEMMA ConnectArmed ==
    ASSUME NEW iss
    PROVE  Armed(pico_tcp_initconn([OpenSocket EXCEPT !.st = "SYN_SENT"], iss))
<1> DEFINE u == [OpenSocket EXCEPT !.st = "SYN_SENT"]
<1>1. IsBlock(u) /\ u.st = "SYN_SENT" /\ u.backoff = 0
  BY DEF IsBlock, OpenSocket
<1> HIDE DEF u
<1>2. 0 \in 0..(MaxConnectRetries + 1)
  BY TcpAssumption
<1>3. Armed(pico_tcp_initconn(u, iss))
  <2> DEFINE v == pico_tcp_initconn(u, iss)
  <2>1. /\ IsBlock(v) /\ v.st = "SYN_SENT" /\ v.backoff = 0
        /\ v.retrans_tmr = "syn" \/ "syn" \in v.missed
    BY <1>1, InitconnIs
  <2> HIDE DEF v
  <2>2. Armed(v)
    BY <1>2, <2>1 DEF Armed, Closing
  <2> QED
    BY <2>2 DEF v
<1> QED
  BY <1>3 DEF u

-----------------------------------------------------------------------------
(* The two sockets.                                                        *)

BothArmed == DOMAIN sock = Nodes /\ \A n \in Nodes : Armed(sock[n])

LEMMA BecomesArmed ==
    ASSUME BothArmed, NEW n \in Nodes, NEW t, Armed(t),
           sock' = [sock EXCEPT ![n] = Settled(t)]
    PROVE  BothArmed'
<1>1. Armed(Settled(t))
  BY DEF Armed, IsBlock, Settled
<1> QED
  BY <1>1 DEF BothArmed

LEMMA LackingArmed ==
    ASSUME BothArmed, NEW n \in Nodes, NEW r
    PROVE  Armed(Lacking(n, r)) /\ Lacking(n, r).retrans_tmr = sock[n].retrans_tmr
BY DEF BothArmed, Armed, IsBlock, Lacking

LEMMA ReceiveArmed ==
    ASSUME BothArmed, NEW n \in Nodes, NEW m, NEW rest, Receive(n, m, rest)
    PROVE  BothArmed'
<1>1. /\ \A r : Armed(pico_tcp_input(Lacking(n, r), m))
      /\ Armed(ChildOf(m, Iss[born + 2]))
  BY LackingArmed, InputArmed, ChildArmed
<1>2. \/ \E r : sock' = [sock EXCEPT ![n] = Settled(pico_tcp_input(Lacking(n, r), m))]
      \/ sock' = [sock EXCEPT ![n] = Settled(ChildOf(m, Iss[born + 2]))]
      \/ sock' = sock
  BY DEF Receive, Answers
<1> QED
  BY <1>1, <1>2, BecomesArmed DEF BothArmed

LEMMA ArmedStep ==
    ASSUME BothArmed, [Next]_vars
    PROVE  BothArmed'
<1>1. CASE UNCHANGED vars
  BY <1>1 DEF vars, BothArmed
<1>2. CASE Connect
  BY <1>2, ConnectArmed, BecomesArmed DEF Connect, Becomes, Nodes
<1>3. ASSUME NEW n \in Nodes, Write(n) PROVE BothArmed'
  <2>1. PICK count \in Bursts :
          Becomes(n, pico_tcp_push(sock[n], Taken(sock[n], count), Unit(n, wrote[n]) - 1))
    BY <1>3 DEF Write
  <2>2. Armed(sock[n]) /\ IsBlock(sock[n])
    BY DEF BothArmed, Armed
  <2>3. \A c, w : Armed(pico_tcp_push(sock[n], c, w))
    BY <2>2, PushIs, SameArmed
  <2> QED
    BY <2>1, <2>3, BecomesArmed DEF Becomes
<1>4. ASSUME NEW n \in Nodes, Read(n) PROVE BothArmed'
  <2>1. PICK c : Becomes(n, pico_tcp_read(sock[n], c))
    BY <1>4 DEF Read
  <2>2. Armed(pico_tcp_read(sock[n], c))
    BY ReadArmed DEF BothArmed
  <2> QED
    BY <2>1, <2>2, BecomesArmed DEF Becomes
<1>5. ASSUME NEW n \in Nodes, ShutdownRd(n) \/ ShutdownWr(n) \/ Close(n) PROVE BothArmed'
  <2>1. \E r : \E u \in {[sock[n] EXCEPT !.shutR = TRUE], pico_socket_shutdown_wr(Lacking(n, r)),
                          pico_socket_close(Lacking(n, r))} : Becomes(n, u)
    BY <1>5 DEF ShutdownRd, ShutdownWr, Close
  <2>3. PICK r, u : /\ Becomes(n, u)
                    /\ u \in {[sock[n] EXCEPT !.shutR = TRUE], pico_socket_shutdown_wr(Lacking(n, r)),
                              pico_socket_close(Lacking(n, r))}
    BY <2>1
  <2>2. Armed(u)
    BY <2>3, LackingArmed, ShutdownArmed DEF BothArmed
  <2> QED
    BY <2>2, <2>3, BecomesArmed DEF Becomes
<1>6. ASSUME NEW n \in Nodes, Output(n) PROVE BothArmed'
  <2>1. PICK r : Becomes(n, pico_tcp_output(Lacking(n, r), MaxOut))
    BY <1>6 DEF Output
  <2>2. Armed(pico_tcp_output(Lacking(n, r), MaxOut))
    BY LackingArmed, OutputArmed
  <2> QED
    BY <2>1, <2>2, BecomesArmed DEF Becomes
<1>7. ASSUME NEW n \in Nodes, Deliver(n) \/ Overtake(n) \/ Duplicate(n) PROVE BothArmed'
  <2>1. PICK m, rest : Receive(n, m, rest)
    BY <1>7 DEF Deliver, Overtake, Duplicate
  <2> QED
    BY <2>1, ReceiveArmed
<1>8. ASSUME NEW n \in Nodes, Lose(n) PROVE BothArmed'
  BY <1>8 DEF Lose, BothArmed
<1>9. ASSUME NEW n \in Nodes, SynTimer(n) \/ RtoTimer(n) \/ FinTimer(n) \/ SanityTimeout(n)
      PROVE  BothArmed'
  <2>1. Armed(sock[n]) /\ IsBlock(sock[n])
    BY DEF BothArmed, Armed
  <2>2. CASE SynTimer(n)
    <3>1. PICK r : Becomes(n, initconn_retry(Lacking(n, r)))
      BY <2>2 DEF SynTimer
    <3> QED
      BY <3>1, LackingArmed, RetryArmed, BecomesArmed DEF Becomes
  <2>3. CASE RtoTimer(n)
    <3>1. PICK r : Becomes(n, tcp_retrans_timeout(Lacking(n, r)))
      BY <2>3 DEF RtoTimer
    <3>2. Armed(Lacking(n, r)) /\ Lacking(n, r).retrans_tmr = "rto"
      BY <2>3, LackingArmed DEF RtoTimer
    <3> QED
      BY <3>1, <3>2, RtoArmed, BecomesArmed DEF Becomes
  <2>4. CASE FinTimer(n)
    BY <2>1, <2>4, DeltcbArmed, BecomesArmed DEF FinTimer, Becomes
  <2>5. CASE SanityTimeout(n)
    BY <2>1, <2>5, DelArmed, BecomesArmed DEF SanityTimeout, Becomes
  <2> QED
    BY <1>9, <2>2, <2>3, <2>4, <2>5
<1>10. ASSUME NEW n \in Nodes, Collect(n) PROVE BothArmed'
  <2> DEFINE u == [OpenSocket EXCEPT !.gone = (n = "C")]
  <2>1. IsBlock(u) /\ u.st = "CLOSED"
    BY DEF IsBlock, OpenSocket
  <2>2. sock' = [sock EXCEPT ![n] = u]
    BY <1>10 DEF Collect
  <2> HIDE DEF u
  <2>3. Armed(u)
    BY <2>1, OpenArmed
  <2> QED
    BY <2>2, <2>3 DEF BothArmed
<1> QED
  BY <1>1, <1>2, <1>3, <1>4, <1>5, <1>6, <1>7, <1>8, <1>9, <1>10 DEF Next, Progress

LEMMA ArmedHolds == Spec => []BothArmed
<1>1. Init => BothArmed
  <2> SUFFICES ASSUME Init PROVE BothArmed
    OBVIOUS
  <2>1. IsBlock(OpenSocket) /\ OpenSocket.st = "CLOSED"
    BY OpenIsBlock DEF OpenSocket
  <2>2. Armed(OpenSocket)
    BY <2>1, OpenArmed
  <2> QED
    BY <2>2 DEF Init, BothArmed
<1>2. BothArmed /\ [Next]_vars => BothArmed'
  BY ArmedStep
<1> QED
  BY <1>1, <1>2, PTL DEF Spec

(* From its first FIN until it is deleted a socket has the linger timeout  *)
(* pending (tcp_send_fin and tcp_linger start it, only tcp_deltcb ends     *)
(* it): no order of closes, FINs, acknowledgments and resets, lost,        *)
(* duplicated or late ones among them, leaves it in a closing state that   *)
(* nothing would end.  The one exception is a socket for whose FIN there   *)
(* was no frame.  This is what ClosingEnds rests on.                       *)
NoClosingForEver ==
    \A n \in Nodes : sock[n].st \in Closing => sock[n].fin_tmr = TRUE \/ "fin" \in sock[n].missed

(* The linger timeout is pending in every closing state (tcp_send_fin,     *)
(* tcp_linger, tcp_deltcb) or the FIN could not be allocated, for any two  *)
(* sockets, any network and any failures of the allocations.               *)
THEOREM ClosingIsTimed == Spec => []NoClosingForEver
<1>1. BothArmed => NoClosingForEver
  BY DEF BothArmed, Armed, NoClosingForEver
<1> QED
  BY <1>1, ArmedHolds, PTL

(* While a connection attempt lasts, initconn_retry is due, unless a SYN   *)
(* or its timer could not be allocated, and it has been called at most     *)
(* MaxConnectRetries + 1 times (pico_tcp.c: pico_tcp_initconn,             *)
(* initconn_retry), even if the application writes, closes or the loop     *)
(* sends meanwhile: ConnectEnds rests on this.                             *)
NoConnectingForEver ==
    \A n \in Nodes : sock[n].st = "SYN_SENT" =>
        /\ sock[n].retrans_tmr = "syn" \/ "syn" \in sock[n].missed
        /\ sock[n].backoff \in 0..(MaxConnectRetries + 1)

(* A connection attempt has its timer, or could not allocate its SYN, and  *)
(* makes a bounded number of retries (pico_tcp_initconn, initconn_retry),  *)
(* for any two sockets, networks and failures of the allocations.          *)
THEOREM ConnectIsTimed == Spec => []NoConnectingForEver
<1>1. BothArmed => NoConnectingForEver
  BY DEF BothArmed, Armed, NoConnectingForEver
<1> QED
  BY <1>1, ArmedHolds, PTL

-----------------------------------------------------------------------------
(* Sequence numbers.                                                       *)

LEMMA SeqRange ==
    ASSUME NEW a \in Int
    PROVE  Seq32(a) \in 0..(SeqSpace - 1)
BY TcpAssumption DEF Seq32

LEMMA SeqSmall ==
    ASSUME NEW a \in 0..(SeqSpace - 1)
    PROVE  Seq32(a) = a
BY TcpAssumption DEF Seq32

LEMMA Division ==
    ASSUME NEW n \in Nat \ {0}, NEW a \in Int, NEW q \in Int, q = a \div n, NEW r \in Int, r = a % n
    PROVE  a = n * q + r
BY Z3

LEMMA SeqWhole ==
    ASSUME NEW a \in Int
    PROVE  \E q \in Int : a = SeqSpace * q + Seq32(a)
<1> DEFINE q == a \div SeqSpace
           r == a % SeqSpace
<1>1. q \in Int /\ r \in Int /\ SeqSpace \in Nat \ {0}
  BY TcpAssumption
<1> HIDE DEF q, r
<1>2. a = SeqSpace * q + r
  BY <1>1, Division DEF q, r
<1> QED
  BY <1>1, <1>2 DEF Seq32, r

(* No multiple but zero is closer to zero than the number itself.          *)
LEMMA NoMultiple ==
    ASSUME NEW n \in Nat \ {0}, NEW q \in Int, -n < n * q, n * q < n
    PROVE  q = 0
<1>1. CASE q >= 1
  <2>1. n * q >= n * 1
    BY <1>1
  <2> QED
    BY <2>1
<1>2. CASE q <= -1
  <2>1. n * q <= n * (-1)
    BY <1>2
  <2> QED
    BY <2>1
<1> QED
  BY <1>1, <1>2

LEMMA SeqUnique ==
    ASSUME NEW a \in Int, NEW q \in Int, NEW r \in 0..(SeqSpace - 1), a = SeqSpace * q + r
    PROVE  Seq32(a) = r
<1>1. PICK p \in Int : a = SeqSpace * p + Seq32(a)
  BY SeqWhole
<1>2. Seq32(a) \in 0..(SeqSpace - 1) /\ SeqSpace \in Nat \ {0}
  BY SeqRange, TcpAssumption
<1> DEFINE d == p - q
           s == Seq32(a)
<1>3. SeqSpace * d = r - s
  BY <1>1, <1>2 DEF d, s
<1>4. -SeqSpace < SeqSpace * d /\ SeqSpace * d < SeqSpace /\ d \in Int
  BY <1>2, <1>3
<1> HIDE DEF d
<1>5. d = 0
  BY <1>2, <1>4, NoMultiple
<1> QED
  BY <1>2, <1>3, <1>5

LEMMA SeqAdd ==
    ASSUME NEW a \in Int, NEW b \in Int
    PROVE  Seq32(Seq32(a) + b) = Seq32(a + b)
<1>1. PICK q \in Int : a = SeqSpace * q + Seq32(a)
  BY SeqWhole
<1>2. Seq32(a) \in Int /\ SeqSpace \in Int
  BY SeqRange, TcpAssumption
<1> DEFINE x == Seq32(a) + b
<1>a. x \in Int
  BY <1>2
<1> HIDE DEF x
<1>3. PICK p \in Int : x = SeqSpace * p + Seq32(x)
  BY <1>a, SeqWhole
<1>4. Seq32(x) \in 0..(SeqSpace - 1)
  BY <1>a, SeqRange
<1> DEFINE r == Seq32(x)
           k == p + q
<1>5. a + b = SeqSpace * q + SeqSpace * p + r
  BY <1>1, <1>2, <1>3, <1>4 DEF x
<1>6. a + b = SeqSpace * k + r /\ k \in Int
  BY <1>2, <1>5
<1> HIDE DEF r, k
<1>7. Seq32(a + b) = r
  BY <1>4, <1>6, SeqUnique DEF r
<1> QED
  BY <1>7 DEF r, x

LEMMA SeqOnce ==
    ASSUME NEW a \in Int, NEW b \in Int, Seq32(a) = Seq32(b),
           -SeqSpace < a - b, a - b < SeqSpace
    PROVE  a = b
<1>1. PICK p \in Int : a = SeqSpace * p + Seq32(a)
  BY SeqWhole
<1>2. PICK q \in Int : b = SeqSpace * q + Seq32(b)
  BY SeqWhole
<1>3. Seq32(a) \in Int /\ SeqSpace \in Nat \ {0}
  BY SeqRange, TcpAssumption
<1> DEFINE d == p - q
<1>4. SeqSpace * d = a - b /\ d \in Int
  BY <1>1, <1>2, <1>3
<1> HIDE DEF d
<1>5. d = 0
  BY <1>3, <1>4, NoMultiple
<1> QED
  BY <1>3, <1>4, <1>5

LEMMA SeqNear ==
    ASSUME NEW a \in Int, NEW b \in Int, -SeqSpace < a - b, a - b < SeqSpace
    PROVE  Seq32(a) - Seq32(b) \in {a - b, a - b - SeqSpace, a - b + SeqSpace}
<1>1. PICK p \in Int : a = SeqSpace * p + Seq32(a)
  BY SeqWhole
<1>2. PICK q \in Int : b = SeqSpace * q + Seq32(b)
  BY SeqWhole
<1>3. Seq32(a) \in 0..(SeqSpace - 1) /\ Seq32(b) \in 0..(SeqSpace - 1) /\ SeqSpace \in Nat \ {0}
  BY SeqRange, TcpAssumption
<1> DEFINE d == p - q
           x == Seq32(a)
           y == Seq32(b)
<1>4. a - b = SeqSpace * d + (x - y) /\ d \in Int
  BY <1>1, <1>2, <1>3
<1> HIDE DEF d
<1>5. d \in {-1, 0, 1}
  <2>1. CASE d >= 2
    <3>1. SeqSpace * d >= SeqSpace * 2
      BY <1>3, <1>4, <2>1
    <3> QED
      BY <1>3, <1>4, <3>1
  <2>2. CASE d <= -2
    <3>1. SeqSpace * d <= SeqSpace * (-2)
      BY <1>3, <1>4, <2>2
    <3> QED
      BY <1>3, <1>4, <3>1
  <2> QED
    BY <1>4, <2>1, <2>2
<1> QED
  BY <1>3, <1>4, <1>5

(* Numbers less than half of the sequence space apart compare as they      *)
(* would without wrapping around.                                          *)
LEMMA SeqCompare ==
    ASSUME NEW a \in Int, NEW b \in Int, 2 * (a - b) < SeqSpace, 2 * (b - a) < SeqSpace
    PROVE  pico_seq_compare(Seq32(a), Seq32(b)) = a - b
<1> DEFINE x == Seq32(a)
           y == Seq32(b)
           h == SeqSpace \div 2
<1> SUFFICES pico_seq_compare(x, y) = a - b
  OBVIOUS
<1>1. x \in 0..(SeqSpace - 1) /\ y \in 0..(SeqSpace - 1) /\ SeqSpace = 2 * h /\ h \in Nat
  BY SeqRange, TcpAssumption
<1>2. x - y \in {a - b, a - b - SeqSpace, a - b + SeqSpace}
  <2>1. -SeqSpace < a - b /\ a - b < SeqSpace
    BY <1>1
  <2> QED
    BY <2>1, SeqNear
<1>3. a - b < 0 => Seq32(b - a) = b - a
  BY <1>1, SeqSmall
<1>4. a - b > 0 => Seq32(a - b) = a - b
  BY <1>1, SeqSmall
<1>5. Seq32(b - a - SeqSpace) = Seq32(b - a) /\ Seq32(a - b - SeqSpace) = Seq32(a - b)
  <2>1. ASSUME NEW c \in Int PROVE Seq32(c - SeqSpace) = Seq32(c)
    <3>1. PICK q \in Int : c = SeqSpace * q + Seq32(c)
      BY SeqWhole
    <3>2. Seq32(c) \in 0..(SeqSpace - 1)
      BY SeqRange
    <3> DEFINE p == q - 1
    <3>3. c - SeqSpace = SeqSpace * p + Seq32(c) /\ p \in Int
      BY <1>1, <3>1, <3>2
    <3> HIDE DEF p
    <3> QED
      BY <1>1, <3>2, <3>3, SeqUnique
  <2> QED
    BY <2>1
<1>6. pico_seq_compare(x, y) =
        CASE x > y -> IF x - y > h - 1 THEN -Seq32(y - x) ELSE x - y
          [] x < y -> IF y - x > h - 1 THEN Seq32(x - y) ELSE -(y - x)
          [] OTHER -> 0
  BY DEF pico_seq_compare
<1> HIDE DEF x, y, h
<1>7. CASE x > y /\ x - y = a - b
  <2>1. a - b > 0 /\ ~(x - y > h - 1) /\ x > y
    BY <1>1, <1>7
  <2> QED
    BY <1>1, <1>6, <1>7, <2>1
<1>8. CASE x > y /\ x - y = a - b + SeqSpace
  <2>1. a - b < 0 /\ x - y > h - 1 /\ y - x = b - a - SeqSpace /\ -(b - a) = a - b
    BY <1>1, <1>8
  <2>2. pico_seq_compare(x, y) = -Seq32(y - x)
    BY <1>1, <1>6, <1>8, <2>1
  <2> QED
    BY <1>3, <1>5, <2>1, <2>2
<1>9. CASE x < y /\ x - y = a - b
  <2>1. a - b < 0 /\ ~(y - x > h - 1) /\ x < y /\ ~(x > y) /\ -(y - x) = a - b
    BY <1>1, <1>9
  <2>2. pico_seq_compare(x, y) = -(y - x)
    BY <1>6, <2>1
  <2> QED
    BY <2>1, <2>2
<1>10. CASE x < y /\ x - y = a - b - SeqSpace
  <2>1. a - b > 0 /\ y - x > h - 1 /\ x < y /\ ~(x > y)
    BY <1>1, <1>10
  <2>2. pico_seq_compare(x, y) = Seq32(x - y)
    BY <1>1, <1>6, <2>1
  <2> QED
    BY <1>4, <1>5, <1>10, <2>1, <2>2
<1>11. CASE x = y
  <2>1. a - b = 0 /\ ~(x > y) /\ ~(x < y)
    BY <1>1, <1>2, <1>11
  <2> QED
    BY <1>6, <2>1
<1> QED
  BY <1>1, <1>2, <1>7, <1>8, <1>9, <1>10, <1>11

-----------------------------------------------------------------------------
(* Queues.                                                                 *)

LEMMA Least ==
    ASSUME NEW S \in SUBSET Nat, S # {}
    PROVE  \E x \in S : \A y \in S : x <= y
<1> DEFINE R == OpToRel(<, Nat)
<1>1. IsWellFoundedOn(R, Nat)
  BY NatLessThanWellFounded
<1> HIDE DEF R
<1>2. PICK x \in S : \A y \in S : ~(<<y, x>> \in R)
  BY <1>1, WFMin
<1>3. \A y \in S : ~(y < x)
  BY <1>2 DEF R, OpToRel
<1> QED
  BY <1>3

LEMMA LowestOf ==
    ASSUME NEW S, \E x \in S : \A y \in S : x <= y
    PROVE  Lowest(S) \in S /\ \A y \in S : Lowest(S) <= y
BY DEF Lowest

LEMMA LowestNat ==
    ASSUME NEW S \in SUBSET Nat, S # {}
    PROVE  Lowest(S) \in S /\ \A y \in S : Lowest(S) <= y
BY Least, LowestOf

LEMMA LowestOfTwo ==
    ASSUME NEW a \in Int, NEW b \in Int
    PROVE  Lowest({a, b}) \in {a, b} /\ Lowest({a, b}) <= a /\ Lowest({a, b}) <= b
<1>1. \E x \in {a, b} : \A y \in {a, b} : x <= y
  <2>1. a <= b \/ b <= a
    OBVIOUS
  <2> QED
    BY <2>1
<1> QED
  BY <1>1, LowestOf

LEMMA LowestOfThree ==
    ASSUME NEW a \in Int, NEW b \in Int, NEW c \in Int
    PROVE  LET x == Lowest({a, b, c})
           IN  x \in {a, b, c} /\ x <= a /\ x <= b /\ x <= c
<1>1. \E x \in {a, b, c} : \A y \in {a, b, c} : x <= y
  <2>1. \/ a <= b /\ a <= c
        \/ b <= a /\ b <= c
        \/ c <= a /\ c <= b
    OBVIOUS
  <2> QED
    BY <2>1
<1> QED
  BY <1>1, LowestOf

(* Run counts segments that are there: a finite queue that has not every   *)
(* number ends somewhere.                                                  *)
LEMMA RunOf ==
    ASSUME NEW q, IsFiniteSet(q), NEW z \in Int, \A s \in q : s.seq # Seq32(z), NEW n \in Int
    PROVE  Run(q, n) \in Nat /\ \A k \in 0..(Run(q, n) - 1) : \E s \in q : s.seq = Seq32(n + k)
<1> DEFINE N == Cardinality(q)
           K == {k \in 0..N : peek_segment(q, Seq32(n + k)) = {}}
<1>1. N \in Nat
  BY FS_CardinalityType
<1>2. ASSUME K = {} PROVE FALSE
  <2>1. \A k \in 0..N : \E s \in q : s.seq = Seq32(n + k)
    BY <1>2 DEF peek_segment
  <2> DEFINE d == Seq32(z - n)
  <2>2. d \in 0..(SeqSpace - 1) /\ SeqSpace \in Nat /\ Seq32(d + n) = Seq32(z)
    <3>1. Seq32(d + n) = Seq32(z - n + n)
      BY SeqAdd
    <3>2. z - n + n = z
      OBVIOUS
    <3> QED
      BY <3>1, <3>2, SeqRange, TcpAssumption
  <2> HIDE DEF d
  <2>3. CASE d <= N
    <3>1. d \in 0..N /\ n + d = d + n
      BY <2>2, <2>3, <1>1
    <3> QED
      BY <2>1, <2>2, <3>1
  <2>4. CASE d > N
    <3> DEFINE f == [k \in 0..N |-> CHOOSE s \in q : s.seq = Seq32(n + k)]
    <3>1. \A k \in 0..N : f[k] \in q /\ f[k].seq = Seq32(n + k)
      BY <2>1
    <3>2. ASSUME NEW j \in 0..N, NEW k \in 0..N, f[j] = f[k] PROVE j = k
      <4>1. Seq32(n + j) = Seq32(n + k)
        BY <3>1, <3>2
      <4>2. n + j \in Int /\ n + k \in Int /\ -SeqSpace < (n + j) - (n + k) /\ (n + j) - (n + k) < SeqSpace
        BY <1>1, <2>2, <2>4
      <4>3. n + j = n + k
        BY <4>1, <4>2, SeqOnce
      <4> QED
        BY <1>1, <4>3
    <3>3. f \in [0..N -> q]
      BY <3>1
    <3> HIDE DEF f
    <3>4. f \in Injection(0..N, q)
      BY <3>2, <3>3 DEF Injection, IsInjective
    <3>5. Cardinality(0..N) <= N
      BY <3>4, FS_Injection
    <3>6. Cardinality(0..N) = N + 1
      BY <1>1, FS_Interval
    <3> QED
      BY <1>1, <3>5, <3>6
  <2> QED
    BY <1>1, <2>2, <2>3, <2>4
<1>3. K \in SUBSET Nat /\ Run(q, n) = Lowest(K)
  BY <1>1 DEF Run
<1>4. \A k \in 0..N : k \notin K => \E s \in q : s.seq = Seq32(n + k)
  BY DEF peek_segment
<1>a. \A k \in K : k \in 0..N
  OBVIOUS
<1> HIDE DEF K
<1>5. Lowest(K) \in K /\ \A k \in K : Lowest(K) <= k
  BY <1>2, <1>3, LowestNat
<1>6. Lowest(K) \in 0..N
  BY <1>5, <1>a
<1>7. ASSUME NEW k \in 0..(Lowest(K) - 1) PROVE \E s \in q : s.seq = Seq32(n + k)
  <2>1. k \in 0..N /\ ~(Lowest(K) <= k)
    BY <1>1, <1>6
  <2> QED
    BY <1>4, <1>5, <2>1
<1> QED
  BY <1>1, <1>3, <1>6, <1>7

(* The segments of a stream have a first one.                              *)
LEMMA FirstOf ==
    ASSUME NEW q, q # {}, NEW i \in Int, NEW len \in Nat, 2 * len < SeqSpace,
           \A s \in q : \E k \in 1..len : s.seq = Seq32(i + k)
    PROVE  first_segment(q) \in q
<1> DEFINE K == {k \in 1..len : \E s \in q : s.seq = Seq32(i + k)}
<1>0. PICK s0 \in q : TRUE
  OBVIOUS
<1>a. PICK k0 \in 1..len : s0.seq = Seq32(i + k0)
  OBVIOUS
<1>1. K \in SUBSET Nat /\ K # {}
  <2>1. k0 \in K
    BY <1>0, <1>a
  <2>2. 1..len \subseteq Nat
    OBVIOUS
  <2> QED
    BY <2>1, <2>2
<1>2. \A k \in K : k \in 1..len /\ \E s \in q : s.seq = Seq32(i + k)
  OBVIOUS
<1>3. \A s \in q : \E k \in K : s.seq = Seq32(i + k)
  OBVIOUS
<1> HIDE DEF K
<1>4. PICK x \in K : \A y \in K : x <= y
  BY <1>1, Least
<1>5. PICK s \in q : s.seq = Seq32(i + x)
  BY <1>2
<1>6. ASSUME NEW r \in q PROVE pico_seq_compare(s.seq, r.seq) <= 0
  <2>1. PICK y \in K : r.seq = Seq32(i + y)
    BY <1>3
  <2>2. x \in 1..len /\ y \in 1..len /\ x <= y
    BY <1>2, <1>4
  <2>3. /\ i + x \in Int /\ i + y \in Int
        /\ 2 * ((i + x) - (i + y)) < SeqSpace /\ 2 * ((i + y) - (i + x)) < SeqSpace
    BY <2>2, TcpAssumption
  <2>4. pico_seq_compare(s.seq, r.seq) = (i + x) - (i + y)
    BY <1>5, <2>1, <2>3, SeqCompare
  <2> QED
    BY <2>2, <2>4
<1> QED
  BY <1>5, <1>6 DEF first_segment

LEMMA IncSeq ==
    ASSUME NEW a \in Int
    PROVE  Inc(Seq32(a)) = Seq32(a + 1) /\ Dec(Seq32(a)) = Seq32(a - 1)
<1>1. Seq32(Seq32(a) + 1) = Seq32(a + 1) /\ Seq32(Seq32(a) + (-1)) = Seq32(a + (-1))
  BY SeqAdd
<1>2. Seq32(a) \in Int
  BY SeqRange
<1> QED
  BY <1>1, <1>2 DEF Inc, Dec

(* What an acknowledgment of r units releases.                             *)
LEMMA UntilUnit ==
    ASSUME NEW i \in Int, NEW len \in Nat, 2 * (len + 2) < SeqSpace, NEW k \in 0..len, NEW r \in 0..len
    PROVE  pico_seq_compare(Inc(Seq32(i + k)), Seq32(i + 1 + r)) = k - r
<1>1. Inc(Seq32(i + k)) = Seq32(i + k + 1)
  BY IncSeq
<1> DEFINE a == i + k + 1
           b == i + 1 + r
<1>2. a \in Int /\ b \in Int /\ 2 * (a - b) < SeqSpace /\ 2 * (b - a) < SeqSpace /\ a - b = k - r
  BY TcpAssumption
<1> HIDE DEF a, b
<1>3. pico_seq_compare(Seq32(a), Seq32(b)) = a - b
  BY <1>2, SeqCompare
<1> QED
  BY <1>1, <1>2, <1>3 DEF a, b

-----------------------------------------------------------------------------
(* What one socket is a part of: its own stream (iss, and the units base+1 *)
(* to base+len that its application has written), the peer's (riss, rbase, *)
(* rlen), the units read here (had), those that have arrived here (has)    *)
(* and there (held) when a step begins, and what is known of the segments  *)
(* from the peer: whether a FIN may be among them, and whether their       *)
(* acknowledgments are those of a stream without FIN.                      *)
IsView(v) ==
    /\ v.iss \in 1..(SeqSpace - 1) /\ v.riss \in 1..(SeqSpace - 1)
    /\ v.base \in Nat /\ v.len \in Nat /\ 2 * (v.len + 2) < SeqSpace
    /\ v.rbase \in Nat /\ v.rlen \in Nat /\ 2 * (v.rlen + 2) < SeqSpace
    /\ v.had \subseteq 1..v.rlen /\ v.held \subseteq 1..v.len
    /\ Closers = {} => v.fin = "never" /\ v.told = "exact"

IsOut(v, s, k) ==
    /\ s \in [seq : {Seq32(v.iss + k)}, data : {v.base + k}, sacked : BOOLEAN]
    /\ s.sacked => k \in v.held
InUnit(v, k) == [seq |-> Seq32(v.riss + k), data |-> v.rbase + k]

OutOK(v, q) == IsFiniteSet(q) /\ \A s \in q : \E k \in 1..v.len : IsOut(v, s, k)
InOK(v, q) == IsFiniteSet(q) /\ \A s \in q : \E k \in 1..v.rlen : s = InUnit(v, k)

(* The units of the peer that have arrived, and the numbers a segment may  *)
(* acknowledge, cumulatively and selectively.                              *)
Have(v, q) == {k \in 1..v.rlen : k \in v.had \/ InUnit(v, k) \in q}
Acks(v, H) == {Seq32(v.riss + 1 + r) : r \in {x \in 0..v.rlen : 1..x \subseteq H}}
Sacks(v, H) == {Seq32(v.riss + k) : k \in H}

Flags == {"SYN", "SYNACK", "ACK", "PSHACK", "FINACK", "RST", "RSTACK"}
Segments ==
    [flags : Flags, seq : 0..(SeqSpace - 1), ack : 0..(SeqSpace - 1), wnd : Nat, data : Nat,
     sack : SUBSET (0..(SeqSpace - 1))]

MailOut(v, H, m) ==
    /\ m \in Segments
    /\ m.data # 0 => /\ m.flags = "PSHACK"
                     /\ \E k \in 1..v.len : m.seq = Seq32(v.iss + k) /\ m.data = v.base + k
    /\ m.flags \in {"SYN", "SYNACK"} => m.seq = v.iss
    /\ m.sack \subseteq Sacks(v, H)
    /\ v.fin = "never" /\ m.flags \in {"SYNACK", "ACK", "PSHACK"} => m.ack \in Acks(v, H)

MailIn(v, m) ==
    /\ m \in Segments
    /\ m.data # 0 => /\ m.flags = "PSHACK"
                     /\ \E k \in 1..v.rlen : m.seq = Seq32(v.riss + k) /\ m.data = v.rbase + k
    /\ m.flags \in {"SYN", "SYNACK"} => m.seq = v.riss
    /\ m.sack \subseteq {Seq32(v.iss + k) : k \in v.held}
    /\ v.told = "exact" /\ m.flags \in {"SYNACK", "ACK", "PSHACK"} =>
          m.ack \in {Seq32(v.iss + 1 + r) : r \in {x \in 0..v.len : 1..x \subseteq v.held}}
    /\ v.fin = "never" => m.flags # "FINACK"

(* The parts of a block that fits a view.                                  *)
Numbers(t) ==
    /\ t.st \in States
    /\ t.snd_nxt \in 0..(SeqSpace - 1) /\ t.rcv_nxt \in 0..(SeqSpace - 1)
    /\ t.snd_last \in 0..(SeqSpace - 1)
    /\ t.in_flight \in 0..(MaxCwnd + 1) /\ t.cwnd \in 0..MaxCwnd
    /\ t.wnd \in Nat /\ t.recv_wnd \in Nat
Sent(v, t) == t.tx \in Seq(Segments) /\ \A i \in DOMAIN t.tx : MailOut(v, Have(v, t.in), t.tx[i])
NoFin(q) == \A i \in DOMAIN q : q[i].flags # "FINACK"
Covers(v, q) == \A k \in 1..v.len : k \in v.held \/ \E s \in q : s.data = v.base + k
Calm(t) ==
    /\ t.st \in {"CLOSED", "SYN_SENT", "SYN_RECV", "ESTABLISHED"}
    /\ ~t.shutL /\ ~t.remote_closed /\ ~t.fin_tmr

Good(v, t) ==
    /\ IsBlock(t) /\ Numbers(t)
    /\ OutOK(v, t.out) /\ InOK(v, t.in) /\ t.sacks \subseteq Sacks(v, Have(v, t.in))
    /\ Sent(v, t)
    /\ Closers = {} \/ t.st = "SYN_RECV" => NoFin(t.tx)
    /\ Closers = {} => Calm(t) /\ (t.st # "CLOSED" => Covers(v, t.out))
    /\ t.st # "CLOSED" => v.has \subseteq Have(v, t.in)

(* The acknowledgment a block would send is one of a stream without FIN.   *)
Ready(v, t) == v.fin = "never" => t.rcv_nxt \in Acks(v, Have(v, t.in))
Fit(v, t) == Good(v, t) /\ Ready(v, t)

LEMMA ViewInts ==
    ASSUME NEW v, IsView(v)
    PROVE  /\ v.iss \in Int /\ v.riss \in Int /\ v.len \in Nat /\ v.rlen \in Nat
           /\ v.base \in Nat /\ v.rbase \in Nat
           /\ 2 * (v.len + 2) < SeqSpace /\ 2 * (v.rlen + 2) < SeqSpace
           /\ v.had \subseteq 1..v.rlen /\ v.held \subseteq 1..v.len
           /\ SeqSpace \in Nat
BY TcpAssumption DEF IsView

(* Two units of a stream have different numbers.                           *)
LEMMA UnitOnce ==
    ASSUME NEW i \in Int, NEW len \in Nat, 2 * (len + 2) < SeqSpace,
           NEW j \in 0..(len + 1), NEW k \in 0..(len + 1), Seq32(i + j) = Seq32(i + k)
    PROVE  j = k
<1>1. i + j \in Int /\ i + k \in Int /\ -SeqSpace < (i + j) - (i + k) /\ (i + j) - (i + k) < SeqSpace
  BY TcpAssumption
<1>2. i + j = i + k
  BY <1>1, SeqOnce
<1> QED
  BY <1>2

LEMMA OutQueue ==
    ASSUME NEW v, IsView(v), NEW q, OutOK(v, q)
    PROVE  /\ \A n \in Int : /\ Run(q, n) \in Nat
                             /\ \A k \in 0..(Run(q, n) - 1) : \E s \in q : s.seq = Seq32(n + k)
           /\ q # {} => first_segment(q) \in q
           /\ \A s \in q : s.seq \in 0..(SeqSpace - 1)
<1> USE ViewInts
<1>1. \A s \in q : \E k \in 1..v.len : s.seq = Seq32(v.iss + k)
  BY DEF OutOK, IsOut
<1>2. ASSUME NEW s \in q PROVE s.seq # Seq32(v.iss)
  <2>1. PICK k \in 1..v.len : s.seq = Seq32(v.iss + k)
    BY <1>1
  <2>2. v.iss + 0 = v.iss /\ k \in 0..(v.len + 1) /\ 0 \in 0..(v.len + 1)
    OBVIOUS
  <2>3. Seq32(v.iss + k) = Seq32(v.iss + 0) => k = 0
    BY <2>2, UnitOnce
  <2>4. k # 0
    OBVIOUS
  <2> QED
    BY <2>1, <2>2, <2>3, <2>4
<1>3. IsFiniteSet(q)
  BY DEF OutOK
<1>4. ASSUME NEW s \in q PROVE s.seq \in 0..(SeqSpace - 1)
  <2>1. PICK k \in 1..v.len : s.seq = Seq32(v.iss + k)
    BY <1>1
  <2>2. v.iss + k \in Int
    OBVIOUS
  <2> QED
    BY <2>1, <2>2, SeqRange
<1>5. 2 * v.len < SeqSpace
  OBVIOUS
<1>6. q # {} => first_segment(q) \in q
  BY <1>1, <1>5, FirstOf
<1> QED
  BY <1>2, <1>3, <1>4, <1>6, RunOf

LEMMA InQueue ==
    ASSUME NEW v, IsView(v), NEW q, InOK(v, q)
    PROVE  /\ \A n \in Int : /\ Run(q, n) \in Nat
                             /\ \A k \in 0..(Run(q, n) - 1) : \E s \in q : s.seq = Seq32(n + k)
           /\ q # {} => first_segment(q) \in q
           /\ \A s \in q : s.seq \in 0..(SeqSpace - 1)
<1> USE ViewInts
<1>1. \A s \in q : \E k \in 1..v.rlen : s.seq = Seq32(v.riss + k)
  BY DEF InOK, InUnit
<1>2. ASSUME NEW s \in q PROVE s.seq # Seq32(v.riss)
  <2>1. PICK k \in 1..v.rlen : s.seq = Seq32(v.riss + k)
    BY <1>1
  <2>2. v.riss + 0 = v.riss /\ k \in 0..(v.rlen + 1) /\ 0 \in 0..(v.rlen + 1)
    OBVIOUS
  <2>3. Seq32(v.riss + k) = Seq32(v.riss + 0) => k = 0
    BY <2>2, UnitOnce
  <2>4. k # 0
    OBVIOUS
  <2> QED
    BY <2>1, <2>2, <2>3, <2>4
<1>3. IsFiniteSet(q)
  BY DEF InOK
<1>4. ASSUME NEW s \in q PROVE s.seq \in 0..(SeqSpace - 1)
  <2>1. PICK k \in 1..v.rlen : s.seq = Seq32(v.riss + k)
    BY <1>1
  <2>2. v.riss + k \in Int
    OBVIOUS
  <2> QED
    BY <2>1, <2>2, SeqRange
<1>5. 2 * v.rlen < SeqSpace
  OBVIOUS
<1>6. q # {} => first_segment(q) \in q
  BY <1>1, <1>5, FirstOf
<1> QED
  BY <1>2, <1>3, <1>4, <1>6, RunOf

LEMMA OutSub ==
    ASSUME NEW v, NEW q, NEW p \in SUBSET q, OutOK(v, q)
    PROVE  OutOK(v, p)
BY FS_Subset DEF OutOK

LEMMA InSub ==
    ASSUME NEW v, NEW q, NEW p \in SUBSET q, InOK(v, q)
    PROVE  InOK(v, p)
BY FS_Subset DEF InOK

LEMMA HaveMore ==
    ASSUME NEW v, NEW p, NEW q, p \subseteq q
    PROVE  Have(v, p) \subseteq Have(v, q)
BY DEF Have

LEMMA AcksMore ==
    ASSUME NEW v, NEW H, NEW G, H \subseteq G
    PROVE  Acks(v, H) \subseteq Acks(v, G) /\ Sacks(v, H) \subseteq Sacks(v, G)
<1>1. Sacks(v, H) \subseteq Sacks(v, G)
  BY DEF Sacks
<1>2. ASSUME NEW x \in Acks(v, H) PROVE x \in Acks(v, G)
  <2>1. PICK r \in {y \in 0..v.rlen : 1..y \subseteq H} : x = Seq32(v.riss + 1 + r)
    BY DEF Acks
  <2>2. r \in {y \in 0..v.rlen : 1..y \subseteq G}
    OBVIOUS
  <2> QED
    BY <2>1, <2>2 DEF Acks
<1> QED
  BY <1>1, <1>2

LEMMA MailMore ==
    ASSUME NEW v, NEW H, NEW G, H \subseteq G, NEW m, MailOut(v, H, m)
    PROVE  MailOut(v, G, m)
<1>1. Acks(v, H) \subseteq Acks(v, G) /\ Sacks(v, H) \subseteq Sacks(v, G)
  BY AcksMore
<1> HIDE DEF Acks, Sacks
<1> QED
  BY <1>1 DEF MailOut

LEMMA NumbersOf ==
    ASSUME NEW v, IsView(v), NEW H, H \subseteq 1..v.rlen
    PROVE  Acks(v, H) \subseteq 0..(SeqSpace - 1) /\ Sacks(v, H) \subseteq 0..(SeqSpace - 1)
<1> USE ViewInts
<1>1. ASSUME NEW x \in Acks(v, H) PROVE x \in 0..(SeqSpace - 1)
  <2>1. PICK r \in {y \in 0..v.rlen : 1..y \subseteq H} : x = Seq32(v.riss + 1 + r)
    BY DEF Acks
  <2>2. v.riss + 1 + r \in Int
    OBVIOUS
  <2> QED
    BY <2>1, <2>2, SeqRange
<1>2. ASSUME NEW x \in Sacks(v, H) PROVE x \in 0..(SeqSpace - 1)
  <2>1. PICK k \in H : x = Seq32(v.riss + k)
    BY DEF Sacks
  <2>2. v.riss + k \in Int
    OBVIOUS
  <2> QED
    BY <2>1, <2>2, SeqRange
<1> QED
  BY <1>1, <1>2

LEMMA HaveUnits ==
    ASSUME NEW v, NEW q
    PROVE  Have(v, q) \subseteq 1..v.rlen
BY DEF Have

(* A step that touches neither the queues nor what was sent.               *)
LEMMA GoodAlike ==
    ASSUME NEW v, NEW t, NEW u, Good(v, t), Same(t, u), Numbers(u),
           u.out = t.out, u.in = t.in, u.sacks = t.sacks, u.tx = t.tx
    PROVE  Good(v, u)
BY DEF Good, Same, Steady, Keeps, Sent, Calm

LEMMA FitAlike ==
    ASSUME NEW v, NEW t, NEW u, Fit(v, t), Same(t, u), Numbers(u), u.rcv_nxt = t.rcv_nxt,
           u.out = t.out, u.in = t.in, u.sacks = t.sacks, u.tx = t.tx
    PROVE  Fit(v, u)
BY GoodAlike DEF Fit, Ready

(* One more segment is sent.                                               *)
LEMMA GoodSends ==
    ASSUME NEW v, NEW t, NEW u, Good(v, t), Same(t, u), Numbers(u), NEW m,
           MailOut(v, Have(v, t.in), m), m.flags = "FINACK" => Closers # {} /\ t.st # "SYN_RECV",
           u.out = t.out, u.in = t.in, u.sacks \subseteq t.sacks, u.tx = Append(t.tx, m)
    PROVE  Good(v, u)
<1> DEFINE H == Have(v, t.in)
<1>1. m \in Segments /\ t.tx \in Seq(Segments)
  BY DEF MailOut, Good, Sent
<1>2. u.tx \in Seq(Segments) /\ Len(u.tx) = Len(t.tx) + 1 /\ DOMAIN u.tx = 1..(Len(t.tx) + 1)
  BY <1>1
<1>3. \A i \in DOMAIN u.tx : u.tx[i] = m \/ (i \in DOMAIN t.tx /\ u.tx[i] = t.tx[i])
  BY <1>1, <1>2
<1>4. Sent(v, u)
  BY <1>2, <1>3 DEF Good, Sent
<1>5. Closers = {} \/ u.st = "SYN_RECV" => NoFin(u.tx)
  <2>1. u.st = t.st
    BY DEF Same, Steady
  <2> QED
    BY <1>3, <2>1 DEF Good, NoFin
<1>6. u.sacks \subseteq Sacks(v, Have(v, u.in))
  BY DEF Good
<1> QED
  BY <1>4, <1>5, <1>6 DEF Good, Same, Steady, Keeps, Calm

-----------------------------------------------------------------------------
(* Sending without data.                                                   *)

(* What sending leaves as it is.                                           *)
Says(t, u) ==
    /\ u.out = t.out /\ u.in = t.in /\ u.snd_nxt = t.snd_nxt /\ u.rcv_nxt = t.rcv_nxt
    /\ u.in_flight = t.in_flight /\ u.cwnd = t.cwnd /\ u.recv_wnd = t.recv_wnd

LEMMA SaysThenSays ==
    ASSUME NEW t, NEW u, NEW w, Says(t, u), Says(u, w)
    PROVE  Says(t, w)
BY DEF Says

Replies == {"ACK", "PSHACK", "FINACK", "RST", "RSTACK"}

LEMMA EmitFit ==
    ASSUME NEW v, IsView(v), NEW t, Fit(v, t), NEW fl \in Replies, NEW seq \in 0..(SeqSpace - 1),
           fl = "FINACK" => Closers # {} /\ t.st # "SYN_RECV"
    PROVE  Fit(v, Emit(t, fl, seq)) /\ Says(t, Emit(t, fl, seq))
<1> DEFINE u == Emit(t, fl, seq)
           acks == fl \in {"ACK", "PSHACK"}
           sk == IF acks THEN t.sacks ELSE {}
           left == IF acks THEN {} ELSE t.sacks
           m == Segment(fl, seq, t.rcv_nxt, t.wnd, 0, sk)
           a == [t EXCEPT !.rcv_ackd = t.rcv_nxt, !.sacks = left]
           H == Have(v, t.in)
<1>1. IsBlock(t) /\ Numbers(t) /\ t.sacks \subseteq Sacks(v, H) /\ t.tx \in Seq(Segments)
  BY DEF Fit, Good, Sent
<1>2. u = [a EXCEPT !.tx = Append(@, m)] /\ Same(t, u)
  BY <1>1, EmitIs DEF Emit, Put
<1>3. sk \subseteq Sacks(v, H) /\ left \subseteq t.sacks
  BY <1>1
<1>4. Sacks(v, H) \subseteq 0..(SeqSpace - 1)
  BY HaveUnits, NumbersOf
<1>5. MailOut(v, H, m)
  <2>1. m = [flags |-> fl, seq |-> seq, ack |-> t.rcv_nxt, wnd |-> t.wnd, data |-> 0, sack |-> sk]
    BY DEF Segment
  <2> HIDE DEF m, sk, H
  <2>2. m \in Segments
    BY <1>1, <1>3, <1>4, <2>1 DEF Segments, Flags, Replies, Numbers
  <2>3. /\ m.data = 0 /\ m.flags = fl /\ m.ack = t.rcv_nxt /\ m.sack = sk
    BY <2>1
  <2>4. fl \notin {"SYN", "SYNACK"}
    BY DEF Replies
  <2>5. v.fin = "never" => t.rcv_nxt \in Acks(v, H)
    BY DEF Fit, Ready, H
  <2> QED
    BY <1>3, <2>2, <2>3, <2>4, <2>5 DEF MailOut
<1> HIDE DEF m, left, sk
<1>6. IsBlock(a)
  BY <1>1 DEF IsBlock
<1>7. /\ Says(t, u) /\ u.sacks = left /\ u.tx = Append(t.tx, m)
      /\ u.st = t.st /\ u.wnd = t.wnd /\ u.snd_last = t.snd_last
  BY <1>1, <1>2 DEF IsBlock, Says
<1>8. m.flags = fl
  BY DEF m, Segment
<1> HIDE DEF u, a
<1>9. Numbers(u)
  BY <1>1, <1>7 DEF Numbers, Says
<1>10. Good(v, u)
  BY <1>2, <1>3, <1>5, <1>7, <1>8, <1>9, GoodSends DEF Fit, Says
<1> QED
  BY <1>7, <1>10 DEF Fit, Ready, Says, u

LEMMA ResizeFit ==
    ASSUME NEW v, IsView(v), NEW t, Fit(v, t), NEW space \in Nat
    PROVE  Fit(v, Resize(t, space)) /\ Says(t, Resize(t, space))
<1> DEFINE a == [t EXCEPT !.wnd = space, !.localZeroWindow = FALSE]
           b == [t EXCEPT !.wnd = space, !.localZeroWindow = (space = 0)]
<1>1. Resize(t, space) \in {t, EmitNext(a, "ACK"), b}
  BY DEF Resize
<1>2. IsBlock(t) /\ Numbers(t)
  BY DEF Fit, Good
<1>3. /\ Same(t, a) /\ Says(t, a) /\ a.sacks = t.sacks /\ a.tx = t.tx /\ a.wnd = space
      /\ Same(t, b) /\ Says(t, b) /\ b.sacks = t.sacks /\ b.tx = t.tx /\ b.wnd = space
  BY <1>2 DEF IsBlock, Same, Steady, Keeps, Says
<1> HIDE DEF a, b
<1>4. Numbers(a) /\ Numbers(b)
  BY <1>2, <1>3 DEF Numbers, Says, Same, Steady, Keeps
<1>5. Fit(v, a) /\ Fit(v, b)
  BY <1>3, <1>4, FitAlike DEF Says
<1>6. "ACK" \in Replies /\ a.snd_nxt \in 0..(SeqSpace - 1)
  BY <1>4 DEF Replies, Numbers
<1>7. Fit(v, EmitNext(a, "ACK")) /\ Says(a, EmitNext(a, "ACK"))
  BY <1>5, <1>6, EmitFit DEF EmitNext
<1>8. Says(t, t) /\ Says(t, EmitNext(a, "ACK"))
  BY <1>3, <1>7, SaysThenSays DEF Says
<1> QED
  BY <1>1, <1>3, <1>5, <1>7, <1>8

LEMMA SpaceFit ==
    ASSUME NEW v, IsView(v), NEW t, Fit(v, t)
    PROVE  Fit(v, tcp_set_space(t)) /\ Says(t, tcp_set_space(t))
<1> DEFINE n == Cardinality(t.in)
           space == IF n > MaxIn THEN 0 ELSE MaxIn - n
<1>1. n \in Nat
  BY FS_CardinalityType DEF Fit, Good, InOK
<1> HIDE DEF n
<1>2. space \in Nat
  BY <1>1, TcpAssumption
<1> HIDE DEF space
<1> QED
  BY <1>2, ResizeFit DEF tcp_set_space, space, n

LEMMA AcksFit ==
    ASSUME NEW v, IsView(v), NEW t, Fit(v, t)
    PROVE  /\ Fit(v, tcp_send_ack(t)) /\ Says(t, tcp_send_ack(t))
           /\ Fit(v, tcp_send_probe(t)) /\ Says(t, tcp_send_probe(t))
           /\ \A seq \in 0..(SeqSpace - 1) :
                 Fit(v, tcp_do_send_rst(t, seq)) /\ Says(t, tcp_do_send_rst(t, seq))
<1> DEFINE u == tcp_set_space(t)
<1>1. Fit(v, u) /\ Says(t, u)
  BY SpaceFit
<1> HIDE DEF u
<1>2. u.snd_nxt \in 0..(SeqSpace - 1) /\ Dec(u.snd_nxt) \in 0..(SeqSpace - 1)
  <2>1. u.snd_nxt \in 0..(SeqSpace - 1)
    BY <1>1 DEF Fit, Good, Numbers
  <2>2. u.snd_nxt - 1 \in Int
    BY <2>1
  <2> QED
    BY <2>1, <2>2, SeqRange DEF Dec
<1>3. \A fl \in {"ACK", "PSHACK", "RST"}, seq \in 0..(SeqSpace - 1) :
         Fit(v, Emit(u, fl, seq)) /\ Says(u, Emit(u, fl, seq))
  BY <1>1, EmitFit DEF Replies
<1>4. \A fl \in {"ACK", "PSHACK", "RST"}, seq \in 0..(SeqSpace - 1) :
         Fit(v, Emit(u, fl, seq)) /\ Says(t, Emit(u, fl, seq))
  BY <1>1, <1>3, SaysThenSays
<1> QED
  BY <1>2, <1>4 DEF u, tcp_send_ack, tcp_send_probe, tcp_do_send_rst, EmitNext

LEMMA NosyncFit ==
    ASSUME NEW v, IsView(v), NEW t, Fit(v, t), NEW m \in Segments
    PROVE  Fit(v, tcp_nosync_rst(t, m)) /\ Says(t, tcp_nosync_rst(t, m))
<1> DEFINE u == tcp_set_space(t)
           a == [u EXCEPT !.rcv_ackd = u.rcv_nxt, !.sacks = {}]
           s == IF HasAck(m) THEN m.ack ELSE 0
           k == Seq32(m.seq + Length(m))
           x == Segment("RSTACK", s, k, u.wnd, 0, u.sacks)
           w == [a EXCEPT !.tx = Append(@, x)]
<1>1. Fit(v, u) /\ Says(t, u) /\ IsBlock(u) /\ Numbers(u)
  BY SpaceFit DEF Fit, Good
<1>2. tcp_nosync_rst(t, m) = w
  BY DEF tcp_nosync_rst, Put
<1> HIDE DEF u
<1>3. s \in 0..(SeqSpace - 1) /\ k \in 0..(SeqSpace - 1)
  <2>1. m.seq \in Int /\ Length(m) \in Int /\ m.ack \in 0..(SeqSpace - 1)
    BY DEF Segments, Length
  <2>2. m.seq + Length(m) \in Int
    BY <2>1
  <2> QED
    BY <2>1, <2>2, SeqRange, TcpAssumption
<1> HIDE DEF s, k
<1>4. MailOut(v, Have(v, u.in), x) /\ x.flags = "RSTACK"
  <2>1. x = [flags |-> "RSTACK", seq |-> s, ack |-> k, wnd |-> u.wnd, data |-> 0, sack |-> u.sacks]
    BY DEF Segment
  <2> HIDE DEF x
  <2>3. u.sacks \subseteq Sacks(v, Have(v, u.in))
    BY <1>1 DEF Fit, Good
  <2>4. Sacks(v, Have(v, u.in)) \subseteq 0..(SeqSpace - 1)
    BY HaveUnits, NumbersOf
  <2>2. x \in Segments
    BY <1>1, <1>3, <2>1, <2>3, <2>4 DEF Segments, Flags, Numbers
  <2> QED
    BY <2>1, <2>2, <2>3 DEF MailOut
<1> HIDE DEF x
<1>5. IsBlock(a)
  BY <1>1 DEF IsBlock
<1>6. /\ Same(u, w) /\ Says(u, w) /\ w.sacks = {} /\ w.tx = Append(u.tx, x)
      /\ w.wnd = u.wnd
  BY <1>1, <1>5 DEF IsBlock, Same, Steady, Keeps, Says
<1> HIDE DEF w, a
<1>7. Numbers(w)
  BY <1>1, <1>6 DEF Numbers, Says, Same, Steady, Keeps
<1>8. Good(v, w)
  BY <1>1, <1>4, <1>6, <1>7, GoodSends DEF Fit, Says
<1>9. Fit(v, w) /\ Says(t, w)
  BY <1>1, <1>6, <1>8, SaysThenSays DEF Fit, Ready, Says
<1> QED
  BY <1>2, <1>9

(* A FIN leaves only where the application has closed.                     *)
LEMMA CheckClosingFit ==
    ASSUME NEW v, IsView(v), NEW t, Fit(v, t), Closers # {}
    PROVE  LET u == CheckClosing(t) IN Fit(v, u) /\ u.in = t.in /\ u.out = t.out
<1> DEFINE a == tcp_set_space(t)
           b == EmitNext(a, "FINACK")
           c == [b EXCEPT !.snd_nxt = Inc(@), !.fin_tmr = TRUE]
           u == [c EXCEPT !.st = "FIN_WAIT1"]
           w == [c EXCEPT !.st = "LAST_ACK"]
           e == [t EXCEPT !.missed = @ \union {"fin"}]
<1>1. t.st \notin {"ESTABLISHED", "CLOSE_WAIT"} => CheckClosing(t) = t
  BY DEF CheckClosing
<1>2. CASE t.st \notin {"ESTABLISHED", "CLOSE_WAIT"}
  BY <1>1, <1>2
<1>3. CASE t.st \in {"ESTABLISHED", "CLOSE_WAIT"}
  <2>1. CheckClosing(t) \in {u, w, [e EXCEPT !.st = "FIN_WAIT1"], [e EXCEPT !.st = "LAST_ACK"]}
    BY <1>3 DEF CheckClosing, tcp_send_fin
  <2>2. Fit(v, a) /\ Says(t, a) /\ a.st = t.st
    BY SpaceFit, SpaceIs DEF Fit, Good, Same, Steady
  <2> HIDE DEF a
  <2>3. "FINACK" \in Replies /\ a.snd_nxt \in 0..(SeqSpace - 1)
    BY <2>2 DEF Replies, Fit, Good, Numbers
  <2>4. Fit(v, b) /\ Says(a, b) /\ b.st = a.st
    <3>1. Fit(v, b) /\ Says(a, b)
      BY <1>3, <2>2, <2>3, EmitFit DEF EmitNext
    <3>2. Same(a, b)
      BY <2>2, EmitIs DEF EmitNext, Fit, Good
    <3> QED
      BY <3>1, <3>2 DEF Same, Steady
  <2> HIDE DEF b
  <2>5. IsBlock(b) /\ Numbers(b)
    BY <2>4 DEF Fit, Good
  <2>6. Inc(b.snd_nxt) \in 0..(SeqSpace - 1)
    <3>1. b.snd_nxt + 1 \in Int
      BY <2>5 DEF Numbers
    <3> QED
      BY <3>1, SeqRange DEF Inc
  <2>7. ASSUME NEW s \in {"FIN_WAIT1", "LAST_ACK"}
        PROVE  LET x == [c EXCEPT !.st = s] IN Fit(v, x) /\ x.in = t.in /\ x.out = t.out
    <3> DEFINE n == Inc(b.snd_nxt)
               x == [[b EXCEPT !.snd_nxt = n, !.fin_tmr = TRUE] EXCEPT !.st = s]
    <3>1. [c EXCEPT !.st = s] = x
      OBVIOUS
    <3> HIDE DEF n
    <3>2. /\ IsBlock(x) /\ x.st = s /\ x.snd_nxt = n /\ x.out = b.out /\ x.in = b.in
          /\ x.sacks = b.sacks /\ x.tx = b.tx /\ x.rcv_nxt = b.rcv_nxt /\ x.snd_last = b.snd_last
          /\ x.in_flight = b.in_flight /\ x.cwnd = b.cwnd /\ x.wnd = b.wnd /\ x.recv_wnd = b.recv_wnd
      BY <2>5 DEF IsBlock
    <3> HIDE DEF x
    <3>3. Numbers(x)
      BY <2>5, <2>6, <3>2 DEF Numbers, n, States
    <3>4. Fit(v, x)
      <4>1. b.st # "CLOSED"
        BY <1>3, <2>2, <2>4
      <4> QED
        BY <2>4, <3>2, <3>3, <4>1 DEF Fit, Good, Ready, Sent
    <3> QED
      BY <2>2, <2>4, <3>1, <3>2, <3>4 DEF Says
  <2>9. ASSUME NEW s \in {"FIN_WAIT1", "LAST_ACK"}
        PROVE  LET x == [e EXCEPT !.st = s] IN Fit(v, x) /\ x.in = t.in /\ x.out = t.out
    <3> DEFINE n == t.missed \union {"fin"}
               x == [[t EXCEPT !.missed = n] EXCEPT !.st = s]
    <3>1. [e EXCEPT !.st = s] = x /\ IsBlock(t) /\ Numbers(t)
      BY DEF Fit, Good
    <3> HIDE DEF n
    <3>2. /\ IsBlock(x) /\ x.st = s /\ x.snd_nxt = t.snd_nxt /\ x.out = t.out /\ x.in = t.in
          /\ x.sacks = t.sacks /\ x.tx = t.tx /\ x.rcv_nxt = t.rcv_nxt /\ x.snd_last = t.snd_last
          /\ x.in_flight = t.in_flight /\ x.cwnd = t.cwnd /\ x.wnd = t.wnd /\ x.recv_wnd = t.recv_wnd
      BY <3>1 DEF IsBlock
    <3> HIDE DEF x
    <3>3. Numbers(x)
      BY <3>1, <3>2 DEF Numbers, States
    <3>4. Fit(v, x)
      BY <1>3, <3>2, <3>3 DEF Fit, Good, Ready, Sent
    <3> QED
      BY <3>1, <3>2, <3>4
  <2>8. LET x == CheckClosing(t) IN Fit(v, x) /\ x.in = t.in /\ x.out = t.out
    <3>1. Fit(v, u) /\ u.in = t.in /\ u.out = t.out
      BY <2>7
    <3>2. Fit(v, w) /\ w.in = t.in /\ w.out = t.out
      BY <2>7
    <3> DEFINE y == [e EXCEPT !.st = "FIN_WAIT1"]
               z == [e EXCEPT !.st = "LAST_ACK"]
    <3>3. Fit(v, y) /\ y.in = t.in /\ y.out = t.out
      BY <2>9
    <3>4. Fit(v, z) /\ z.in = t.in /\ z.out = t.out
      BY <2>9
    <3> HIDE DEF u, w
    <3>5. CheckClosing(t) \in {u, w, y, z}
      BY <2>1
    <3> HIDE DEF y, z
    <3> QED
      BY <3>1, <3>2, <3>3, <3>4, <3>5
  <2> QED
    BY <2>8
<1> QED
  BY <1>2, <1>3

-----------------------------------------------------------------------------
(* Sending data.                                                           *)

LEMMA GoodBurst ==
    ASSUME NEW v, NEW t, NEW u, Good(v, t), Same(t, u), Numbers(u), NEW q \in Seq(Segments),
           \A i \in DOMAIN q : MailOut(v, Have(v, t.in), q[i]) /\ q[i].flags # "FINACK",
           u.out = t.out, u.in = t.in, u.sacks = t.sacks, u.tx = t.tx \o q
    PROVE  Good(v, u)
<1>1. t.tx \in Seq(Segments)
  BY DEF Good, Sent
<1>2. u.tx \in Seq(Segments) /\ DOMAIN u.tx = 1..(Len(t.tx) + Len(q))
  BY <1>1
<1>3. \A i \in DOMAIN u.tx : \/ i \in DOMAIN t.tx /\ u.tx[i] = t.tx[i]
                             \/ \E j \in DOMAIN q : u.tx[i] = q[j]
  <2> SUFFICES ASSUME NEW i \in DOMAIN u.tx, i \notin DOMAIN t.tx
               PROVE  \E j \in DOMAIN q : u.tx[i] = q[j]
    BY <1>1, <1>2
  <2>1. i - Len(t.tx) \in DOMAIN q /\ u.tx[i] = q[i - Len(t.tx)]
    BY <1>1, <1>2
  <2> QED
    BY <2>1
<1>4. Sent(v, u)
  BY <1>2, <1>3 DEF Good, Sent
<1>5. Closers = {} \/ u.st = "SYN_RECV" => NoFin(u.tx)
  <2>1. u.st = t.st
    BY DEF Same, Steady
  <2> QED
    BY <1>3, <2>1 DEF Good, NoFin
<1> QED
  BY <1>4, <1>5 DEF Good, Same, Steady, Keeps, Calm

(* A segment of the queue is a unit of the stream.                         *)
LEMMA DataMail ==
    ASSUME NEW v, IsView(v), NEW t, Fit(v, t), NEW s \in t.out
    PROVE  /\ MailOut(v, Have(v, t.in), DataSegment(t, s))
           /\ DataSegment(t, s).flags = "PSHACK" /\ DataSegment(t, s) \in Segments
<1> DEFINE m == DataSegment(t, s)
           H == Have(v, t.in)
<1>1. PICK k \in 1..v.len : s.seq = Seq32(v.iss + k) /\ s.data = v.base + k
  BY DEF Fit, Good, OutOK, IsOut
<1>2. s.seq \in 0..(SeqSpace - 1) /\ s.data \in Nat
  BY <1>1, OutQueue, ViewInts DEF Fit, Good
<1>3. m = [flags |-> "PSHACK", seq |-> s.seq, ack |-> t.rcv_nxt, wnd |-> t.wnd, data |-> s.data,
           sack |-> {}]
  BY DEF DataSegment, Segment
<1> HIDE DEF m
<1>4. m \in Segments
  BY <1>2, <1>3 DEF Segments, Flags, Numbers, Fit, Good
<1>5. v.fin = "never" => m.ack \in Acks(v, H)
  BY <1>3 DEF Fit, Ready
<1>6. /\ m.seq = Seq32(v.iss + k) /\ m.data = v.base + k /\ m.flags = "PSHACK" /\ m.sack = {}
  BY <1>1, <1>3
<1> HIDE DEF H
<1>7. MailOut(v, H, m)
  BY <1>4, <1>5, <1>6 DEF MailOut
<1> QED
  BY <1>4, <1>6, <1>7 DEF m, H

LEMMA SendRunFit ==
    ASSUME NEW v, IsView(v), NEW t, Fit(v, t), NEW n \in Nat,
           n <= Run(t.out, t.snd_nxt), n > 0 => n <= t.cwnd - t.in_flight + 1
    PROVE  LET u == SendRun(t, n) IN Fit(v, u) /\ u.in = t.in /\ u.out = t.out
<1> DEFINE nth(k) == CHOOSE s \in t.out : s.seq = Seq32(t.snd_nxt + k - 1)
           sent == [k \in 1..n |-> DataSegment(t, nth(k))]
           last == Seq32(t.snd_nxt + n - 1)
           nxt == Seq32(t.snd_nxt + n)
           fl == t.in_flight + n
           u == [t EXCEPT !.tx = @ \o sent, !.rcv_ackd = t.rcv_nxt, !.in_flight = fl,
                          !.snd_last_out = last, !.snd_nxt = nxt]
<1>1. CASE n = 0
  BY <1>1 DEF SendRun
<1>2. CASE n # 0
  <2>1. SendRun(t, n) = u
    BY <1>2 DEF SendRun
  <2>2. IsBlock(t) /\ Numbers(t) /\ OutOK(v, t.out)
    BY DEF Fit, Good
  <2>3. t.snd_nxt \in Int
    BY <2>2 DEF Numbers
  <2>4. \A k \in 1..n : nth(k) \in t.out
    <3> SUFFICES ASSUME NEW k \in 1..n PROVE nth(k) \in t.out
      OBVIOUS
    <3>1. Run(t.out, t.snd_nxt) \in Nat
      BY <2>2, <2>3, OutQueue
    <3>2. k - 1 \in 0..(Run(t.out, t.snd_nxt) - 1)
      BY <3>1
    <3>3. t.snd_nxt + (k - 1) = t.snd_nxt + k - 1
      BY <2>3
    <3>4. \E s \in t.out : s.seq = Seq32(t.snd_nxt + (k - 1))
      BY <2>2, <2>3, <3>2, OutQueue
    <3> QED
      BY <3>3, <3>4
  <2> HIDE DEF nth
  <2>5. \A k \in 1..n : LET m == DataSegment(t, nth(k))
                        IN  MailOut(v, Have(v, t.in), m) /\ m.flags = "PSHACK" /\ m \in Segments
    BY <2>4, DataMail
  <2>6. sent \in Seq(Segments) /\ DOMAIN sent = 1..n
    BY <2>5
  <2>7. \A i \in DOMAIN sent : MailOut(v, Have(v, t.in), sent[i]) /\ sent[i].flags # "FINACK"
    BY <2>5
  <2>8. nxt \in 0..(SeqSpace - 1) /\ fl \in 0..(MaxCwnd + 1)
    <3>1. t.snd_nxt + n \in Int
      BY <2>3
    <3>2. t.in_flight \in 0..(MaxCwnd + 1) /\ t.cwnd \in 0..MaxCwnd
      BY <2>2 DEF Numbers
    <3>3. fl \in 0..(MaxCwnd + 1)
      BY <1>2, <3>2, TcpAssumption
    <3> QED
      BY <3>1, <3>3, SeqRange
  <2> HIDE DEF sent, last, nxt, fl
  <2>9. /\ Same(t, u) /\ u.out = t.out /\ u.in = t.in /\ u.sacks = t.sacks /\ u.tx = t.tx \o sent
        /\ u.rcv_nxt = t.rcv_nxt /\ u.in_flight = fl /\ u.snd_nxt = nxt /\ u.cwnd = t.cwnd
        /\ u.wnd = t.wnd /\ u.recv_wnd = t.recv_wnd
    BY <2>2 DEF IsBlock, Same, Steady, Keeps
  <2> HIDE DEF u
  <2>10. Numbers(u)
    BY <2>2, <2>8, <2>9 DEF Numbers, Same, Steady, Keeps
  <2>11. Good(v, u)
    BY <2>6, <2>7, <2>9, <2>10, GoodBurst DEF Fit
  <2>12. Fit(v, u)
    BY <2>9, <2>11 DEF Fit, Ready
  <2> QED
    BY <2>1, <2>9, <2>12
<1> QED
  BY <1>1, <1>2

(* Starting the retransmission timer touches only what the block knows of  *)
(* it.                                                                     *)
LEMMA TimerIs ==
    ASSUME NEW t, IsBlock(t)
    PROVE  \E r, k : /\ add_retransmission_timer(t) = [t EXCEPT !.retrans_tmr = r, !.missed = k]
                     /\ r \in {t.retrans_tmr, "rto"} /\ (t.retrans_tmr # "none" => r = t.retrans_tmr)
                     /\ ("fin" \in t.missed => "fin" \in k) /\ ("syn" \in t.missed => "syn" \in k)
<1>2. CASE t.retrans_tmr # "none"
  <2>1. add_retransmission_timer(t) = t
    BY <1>2 DEF add_retransmission_timer
  <2>2. [t EXCEPT !.retrans_tmr = t.retrans_tmr, !.missed = t.missed] = t
    BY DEF IsBlock
  <2> QED
    BY <2>1, <2>2
<1>3. CASE t.retrans_tmr = "none" /\ "timer" \in t.lack
  <2> DEFINE k == t.missed \union {"rto"}
  <2>1. /\ add_retransmission_timer(t) = [t EXCEPT !.missed = k]
        /\ ("fin" \in t.missed => "fin" \in k) /\ ("syn" \in t.missed => "syn" \in k)
    BY <1>3 DEF add_retransmission_timer
  <2> HIDE DEF k
  <2>2. [t EXCEPT !.missed = k] = [t EXCEPT !.retrans_tmr = t.retrans_tmr, !.missed = k]
    BY DEF IsBlock
  <2> QED
    BY <2>1, <2>2
<1>4. CASE t.retrans_tmr = "none" /\ "timer" \notin t.lack
  <2> DEFINE k == t.missed \ {"rto"}
  <2>1. /\ add_retransmission_timer(t) = [t EXCEPT !.retrans_tmr = "rto", !.missed = k]
        /\ ("fin" \in t.missed => "fin" \in k) /\ ("syn" \in t.missed => "syn" \in k)
    BY <1>4 DEF add_retransmission_timer
  <2> HIDE DEF k
  <2> QED
    BY <1>4, <2>1
<1> QED
  BY <1>2, <1>3, <1>4

LEMMA TimerFit ==
    ASSUME NEW v, NEW t, Fit(v, t)
    PROVE  LET u == add_retransmission_timer(t)
           IN  Fit(v, u) /\ Says(t, u) /\ u.tx = t.tx /\ u.sacks = t.sacks
<1>0. IsBlock(t)
  BY DEF Fit, Good
<1>1. PICK r, k : add_retransmission_timer(t) = [t EXCEPT !.retrans_tmr = r, !.missed = k]
  BY <1>0, TimerIs
<1> DEFINE u == [t EXCEPT !.retrans_tmr = r, !.missed = k]
<1>6. add_retransmission_timer(t) = u
  BY <1>1
<1>2. IsBlock(t) /\ Numbers(t)
  BY DEF Fit, Good
<1>3. /\ IsBlock(u) /\ Says(t, u) /\ Keeps(t, u) /\ u.st = t.st /\ u.fin_tmr = t.fin_tmr
      /\ u.tx = t.tx /\ u.sacks = t.sacks /\ u.wnd = t.wnd
  BY <1>2 DEF IsBlock, Says, Keeps
<1> HIDE DEF u
<1>4. Numbers(u)
  BY <1>2, <1>3 DEF Numbers, Says, Keeps
<1>5. Fit(v, u)
  BY <1>3, <1>4 DEF Fit, Good, Ready, Sent, Says, Keeps, Calm
<1> QED
  BY <1>3, <1>5, <1>6

LEMMA WindowFullFit ==
    ASSUME NEW v, NEW t, Fit(v, t), NEW una \in 0..(SeqSpace - 1), NEW n
    PROVE  LET u == WindowFull(t, una, n) IN Fit(v, u) /\ u.in = t.in /\ u.out = t.out
<1> DEFINE nxt == IF n = 0 THEN una ELSE t.snd_nxt
           u == [t EXCEPT !.snd_retry = una, !.x_mode = WINDOW_FULL, !.snd_nxt = nxt]
<1>1. WindowFull(t, una, n) \in {t, u}
  BY DEF WindowFull
<1>2. IsBlock(t) /\ Numbers(t)
  BY DEF Fit, Good
<1>3. nxt \in 0..(SeqSpace - 1)
  BY <1>2 DEF Numbers
<1> HIDE DEF nxt
<1>4. /\ Same(t, u) /\ u.out = t.out /\ u.in = t.in /\ u.sacks = t.sacks /\ u.tx = t.tx
      /\ u.rcv_nxt = t.rcv_nxt /\ u.in_flight = t.in_flight /\ u.snd_nxt = nxt /\ u.cwnd = t.cwnd
      /\ u.wnd = t.wnd /\ u.recv_wnd = t.recv_wnd
  BY <1>2 DEF IsBlock, Same, Steady, Keeps
<1> HIDE DEF u
<1>5. Numbers(u)
  BY <1>2, <1>3, <1>4 DEF Numbers, Same, Steady, Keeps
<1>6. Fit(v, u)
  BY <1>4, <1>5, FitAlike
<1> QED
  BY <1>1, <1>4, <1>6

LEMMA CompareInt ==
    ASSUME NEW a \in 0..(SeqSpace - 1), NEW b \in 0..(SeqSpace - 1)
    PROVE  pico_seq_compare(a, b) \in Int
<1>1. Seq32(a - b) \in Int /\ Seq32(b - a) \in Int
  BY SeqRange
<1> HIDE DEF Seq32
<1> DEFINE x == Seq32(a - b)
           y == Seq32(b - a)
           h == SeqSpace \div 2 - 1
<1>2. pico_seq_compare(a, b) \in {-y, a - b, x, -(b - a), 0}
  BY DEF pico_seq_compare
<1> HIDE DEF x, y
<1> QED
  BY <1>1, <1>2 DEF x, y

LEMMA OutputLoopFit ==
    ASSUME NEW v, IsView(v), NEW t, Fit(v, t), t.out # {}, NEW score \in Int
    PROVE  LET u == OutputLoop(t, score) IN Fit(v, u) /\ u.in = t.in /\ u.out = t.out
<1> DEFINE una == first_segment(t.out).seq
           ahead == pico_seq_compare(t.snd_nxt, una)
           run == Run(t.out, t.snd_nxt)
           more == t.cwnd - t.in_flight + 1
           least == IF score < 1 THEN 1 ELSE score
           tries == Lowest({run, more, least})
           room == IF t.recv_wnd > ahead THEN t.recv_wnd - ahead ELSE 0
           n == Lowest({tries, room})
           u == add_retransmission_timer(t)
<1>1. Numbers(t) /\ OutOK(v, t.out)
  BY DEF Fit, Good
<1>2. una \in 0..(SeqSpace - 1) /\ run \in Nat /\ t.snd_nxt \in 0..(SeqSpace - 1)
  <2>1. t.snd_nxt \in 0..(SeqSpace - 1) /\ t.snd_nxt \in Int
    BY <1>1 DEF Numbers
  <2> QED
    BY <1>1, <2>1, OutQueue
<1>3. OutputLoop(t, score) =
        IF tries <= 0 THEN t
        ELSE IF ahead < 0 THEN u
        ELSE IF n = tries THEN SendRun(u, n)
        ELSE WindowFull(SendRun(u, n), una, n)
  BY DEF OutputLoop
<1> HIDE DEF una
<1>4. ahead \in Int
  BY <1>2, CompareInt
<1> HIDE DEF ahead
<1>5. more \in Int /\ least \in Int /\ room \in Nat
  BY <1>1, <1>4 DEF Numbers
<1>6. run \in Int
  BY <1>2
<1> HIDE DEF more, least, room, run
<1>7. tries \in Int /\ tries <= run /\ tries <= more
  BY <1>5, <1>6, LowestOfThree
<1> HIDE DEF tries
<1>8. n \in {tries, room} /\ n <= tries
  BY <1>5, <1>7, LowestOfTwo
<1> HIDE DEF n
<1>9. Fit(v, u) /\ Says(t, u) /\ u.in = t.in /\ u.out = t.out
  BY TimerFit DEF Says
<1> HIDE DEF u
<1>10. ASSUME ~(tries <= 0)
       PROVE  LET x == SendRun(u, n) IN Fit(v, x) /\ x.in = t.in /\ x.out = t.out
  <2>1. n \in Nat /\ n <= run /\ n <= more
    BY <1>2, <1>5, <1>7, <1>8, <1>10
  <2>2. run = Run(u.out, u.snd_nxt) /\ more = u.cwnd - u.in_flight + 1
    BY <1>9 DEF run, more, Says
  <2>3. LET x == SendRun(u, n) IN Fit(v, x) /\ x.in = u.in /\ x.out = u.out
    BY <1>9, <2>1, <2>2, SendRunFit
  <2> QED
    BY <1>9, <2>3
<1>11. ASSUME ~(tries <= 0)
       PROVE  LET x == WindowFull(SendRun(u, n), una, n)
              IN  Fit(v, x) /\ x.in = t.in /\ x.out = t.out
  <2> DEFINE y == SendRun(u, n)
  <2>1. Fit(v, y) /\ y.in = t.in /\ y.out = t.out
    BY <1>10, <1>11
  <2> HIDE DEF y
  <2>2. LET x == WindowFull(y, una, n) IN Fit(v, x) /\ x.in = y.in /\ x.out = y.out
    BY <1>2, <2>1, WindowFullFit
  <2> QED
    BY <2>1, <2>2 DEF y
<1> QED
  BY <1>3, <1>9, <1>10, <1>11

LEMMA OutputFit ==
    ASSUME NEW v, IsView(v), NEW t, Fit(v, t), NEW score \in Int
    PROVE  LET u == pico_tcp_output(t, score) IN Fit(v, u) /\ u.in = t.in /\ u.out = t.out
<1> DEFINE q == IF t.out = {} THEN t ELSE OutputLoop(t, score)
<1>1. Fit(v, q) /\ q.in = t.in /\ q.out = t.out
  BY OutputLoopFit
<1>2. pico_tcp_output(t, score) = IF q.out = {} /\ q.shutL THEN CheckClosing(q) ELSE q
  BY DEF pico_tcp_output, CloseWhenEmpty
<1> HIDE DEF q
<1>3. CASE Closers = {}
  BY <1>1, <1>2, <1>3 DEF Fit, Good, Calm
<1>4. CASE Closers # {}
  <2>1. LET u == CheckClosing(q) IN Fit(v, u) /\ u.in = q.in /\ u.out = q.out
    BY <1>1, <1>4, CheckClosingFit
  <2> QED
    BY <1>1, <1>2, <2>1
<1> QED
  BY <1>3, <1>4

-----------------------------------------------------------------------------
(* Input of data.                                                          *)

LEMMA OptionsFit ==
    ASSUME NEW v, IsView(v), NEW t, Fit(v, t), NEW m, MailIn(v, m)
    PROVE  LET u == tcp_parse_options(t, m)
           IN  /\ Fit(v, u) /\ u.in = t.in /\ (t.out = {} => u.out = {})
               /\ u.snd_nxt = t.snd_nxt /\ u.rcv_nxt = t.rcv_nxt
<1> DEFINE marked == {s \in t.out : s.seq \in m.sack}
           mark(s) == IF s \in marked THEN [s EXCEPT !.sacked = TRUE] ELSE s
           a == {mark(s) : s \in t.out}
           c == Cardinality(marked)
           b == IF t.x_mode = LOOKAHEAD THEN t.in_flight
                ELSE IF t.in_flight > c THEN t.in_flight - c ELSE 0
           u == [t EXCEPT !.out = a, !.in_flight = b]
<1> USE ViewInts
<1>1. tcp_parse_options(t, m) = u
  BY DEF tcp_parse_options
<1>2. IsBlock(t) /\ Numbers(t) /\ OutOK(v, t.out)
  BY DEF Fit, Good
<1>3. IsFiniteSet(t.out)
  BY <1>2 DEF OutOK
<1>4. ASSUME NEW s \in t.out
      PROVE  \E k \in 1..v.len : IsOut(v, mark(s), k) /\ mark(s).data = s.data
  <2>1. PICK k \in 1..v.len : IsOut(v, s, k)
    BY <1>2 DEF OutOK
  <2>2. CASE s \notin marked
    BY <2>1, <2>2
  <2>3. CASE s \in marked
    <3>1. PICK j \in v.held : s.seq = Seq32(v.iss + j)
      BY <2>3 DEF MailIn
    <3>2. Seq32(v.iss + j) = Seq32(v.iss + k)
      BY <2>1, <3>1 DEF IsOut
    <3>3. j \in 0..(v.len + 1) /\ k \in 0..(v.len + 1)
      OBVIOUS
    <3>4. j = k
      BY <3>2, <3>3, UnitOnce
    <3>5. IsOut(v, [s EXCEPT !.sacked = TRUE], k) /\ [s EXCEPT !.sacked = TRUE].data = s.data
      BY <2>1, <3>4 DEF IsOut
    <3> QED
      BY <2>3, <3>5
  <2> QED
    BY <2>2, <2>3
<1>5. IsFiniteSet(a)
  <2> DEFINE f == [s \in t.out |-> mark(s)]
  <2>1. f \in Surjection(t.out, a)
    BY DEF Surjection
  <2> QED
    BY <1>3, <2>1, FS_Surjection
<1>6. OutOK(v, a)
  BY <1>4, <1>5 DEF OutOK
<1>7. Covers(v, t.out) => Covers(v, a)
  BY <1>4 DEF Covers
<1>8. t.out = {} => a = {}
  OBVIOUS
<1>9. c \in Nat
  <2>1. marked \in SUBSET t.out
    OBVIOUS
  <2> QED
    BY <1>3, <2>1, FS_Subset, FS_CardinalityType
<1> HIDE DEF a, c
<1>10. b \in 0..(MaxCwnd + 1)
  BY <1>2, <1>9, TcpAssumption DEF Numbers
<1> HIDE DEF b
<1>11. /\ Same(t, u) /\ u.out = a /\ u.in = t.in /\ u.sacks = t.sacks /\ u.tx = t.tx
       /\ u.rcv_nxt = t.rcv_nxt /\ u.in_flight = b /\ u.snd_nxt = t.snd_nxt /\ u.cwnd = t.cwnd
       /\ u.wnd = t.wnd /\ u.recv_wnd = t.recv_wnd
  BY <1>2 DEF IsBlock, Same, Steady, Keeps
<1> HIDE DEF u
<1>12. Numbers(u)
  BY <1>2, <1>10, <1>11 DEF Numbers, Same, Steady, Keeps
<1>13. Fit(v, u)
  BY <1>6, <1>7, <1>11, <1>12 DEF Fit, Ready, Good, Sent, Same, Steady, Keeps, Calm
<1> QED
  BY <1>1, <1>8, <1>11, <1>13

LEMMA SackFit ==
    ASSUME NEW v, IsView(v), NEW t, Fit(v, t), t.in # {}
    PROVE  LET u == tcp_sack_prepare(t) IN Fit(v, u) /\ Says(t, u)
<1> DEFINE head == first_segment(t.in).seq
           run == Run(t.in, head)
           edges == {k \in 0..(run - 1) : Seq32(head + k) >= t.rcv_nxt /\ Seq32(head + k) # 0}
           e == Seq32(head + Lowest(edges))
           u == [t EXCEPT !.sacks = {e}]
<1>1. tcp_sack_prepare(t) = IF t.sacks # {} \/ edges = {} THEN t ELSE u
  BY DEF tcp_sack_prepare
<1>2. IsBlock(t) /\ Numbers(t) /\ InOK(v, t.in)
  BY DEF Fit, Good
<1>3. head \in Int
  BY <1>2, InQueue
<1> HIDE DEF head
<1>4. run \in Nat /\ \A k \in 0..(run - 1) : \E s \in t.in : s.seq = Seq32(head + k)
  BY <1>2, <1>3, InQueue
<1> HIDE DEF run
<1>5. edges \in SUBSET Nat /\ \A k \in edges : k \in 0..(run - 1)
  BY <1>4
<1> HIDE DEF edges
<1>6. ASSUME edges # {} PROVE Fit(v, u) /\ Says(t, u)
  <2>1. Lowest(edges) \in edges
    BY <1>5, <1>6, LowestNat
  <2>2. PICK s \in t.in : s.seq = e
    BY <1>4, <1>5, <2>1
  <2>3. PICK k \in 1..v.rlen : s = InUnit(v, k)
    BY <1>2 DEF InOK
  <2>4. k \in Have(v, t.in) /\ e = Seq32(v.riss + k)
    BY <2>2, <2>3 DEF Have, InUnit
  <2> HIDE DEF e
  <2>5. {e} \subseteq Sacks(v, Have(v, t.in))
    BY <2>4 DEF Sacks
  <2>6. /\ Same(t, u) /\ Says(t, u) /\ u.sacks = {e} /\ u.tx = t.tx /\ u.wnd = t.wnd
    BY <1>2 DEF IsBlock, Same, Steady, Keeps, Says
  <2> HIDE DEF u
  <2>7. Numbers(u)
    BY <1>2, <2>6 DEF Numbers, Same, Steady, Keeps, Says
  <2> QED
    BY <2>5, <2>6, <2>7 DEF Fit, Ready, Good, Sent, Same, Steady, Keeps, Says, Calm
<1>7. Says(t, t)
  BY DEF Says
<1> QED
  BY <1>1, <1>6, <1>7

(* What arrives is stored.                                                 *)
LEMMA GoodStore ==
    ASSUME NEW v, IsView(v), NEW t, Good(v, t), NEW k \in 1..v.rlen, NEW u, Same(t, u), Numbers(u),
           u.in = t.in \union {InUnit(v, k)}, u.out = t.out, u.sacks = t.sacks, u.tx = t.tx
    PROVE  Good(v, u) /\ Have(v, t.in) \subseteq Have(v, u.in)
<1>1. InOK(v, u.in)
  <2>1. IsFiniteSet(u.in)
    BY FS_AddElement DEF Good, InOK
  <2> QED
    BY <2>1 DEF Good, InOK
<1>2. Have(v, t.in) \subseteq Have(v, u.in)
  BY HaveMore
<1>3. u.sacks \subseteq Sacks(v, Have(v, u.in))
  BY <1>2, AcksMore DEF Good
<1>4. Sent(v, u)
  BY <1>2, MailMore DEF Good, Sent
<1> QED
  BY <1>1, <1>2, <1>3, <1>4 DEF Good, Same, Steady, Keeps, Calm

(* The next number that is expected: everything before it has arrived.     *)
LEMMA RunReady ==
    ASSUME NEW v, IsView(v), NEW q, InOK(v, q), NEW H, H \subseteq Have(v, q), NEW x \in Acks(v, H)
    PROVE  Seq32(x + Run(q, x)) \in Acks(v, Have(v, q))
<1> USE ViewInts
<1>1. PICK r \in 0..v.rlen : 1..r \subseteq H /\ x = Seq32(v.riss + 1 + r)
  BY DEF Acks
<1>a. v.riss + 1 + r \in Int
  OBVIOUS
<1>2. x \in Int
  BY <1>1, <1>a, SeqRange
<1> DEFINE j == Run(q, x)
<1>3. j \in Nat /\ \A i \in 0..(j - 1) : \E s \in q : s.seq = Seq32(x + i)
  BY <1>2, InQueue
<1> HIDE DEF j
<1>4. ASSUME NEW i \in 0..(j - 1)
      PROVE  \E k \in 1..v.rlen : InUnit(v, k) \in q /\ Seq32(v.riss + k) = Seq32(v.riss + (1 + r + i))
  <2>1. PICK s \in q : s.seq = Seq32(x + i)
    BY <1>3
  <2>2. PICK k \in 1..v.rlen : s = InUnit(v, k)
    BY DEF InOK
  <2>3. Seq32(x + i) = Seq32(v.riss + 1 + r + i)
    <3>1. i \in Int
      BY <1>3
    <3> QED
      BY <1>1, <1>a, <3>1, SeqAdd
  <2>4. v.riss + 1 + r + i = v.riss + (1 + r + i)
    BY <1>3
  <2> QED
    BY <2>1, <2>2, <2>3, <2>4 DEF InUnit
<1>5. r + j <= v.rlen
  <2> SUFFICES ASSUME r + j > v.rlen PROVE FALSE
    BY <1>3
  <2> DEFINE i == v.rlen - r
  <2>1. i \in 0..(j - 1) /\ 1 + r + i = v.rlen + 1
    BY <1>3
  <2> HIDE DEF i
  <2>2. PICK k \in 1..v.rlen : Seq32(v.riss + k) = Seq32(v.riss + (v.rlen + 1))
    BY <1>4, <2>1
  <2>3. k \in 0..(v.rlen + 1) /\ v.rlen + 1 \in 0..(v.rlen + 1)
    OBVIOUS
  <2>4. k = v.rlen + 1
    BY <2>2, <2>3, UnitOnce
  <2> QED
    BY <2>4
<1>6. ASSUME NEW n \in 1..(r + j) PROVE n \in Have(v, q)
  <2>1. CASE n <= r
    BY <1>1, <1>3, <2>1
  <2>2. CASE n > r
    <3> DEFINE i == n - r - 1
    <3>1. i \in 0..(j - 1) /\ 1 + r + i = n
      BY <1>3, <2>2
    <3> HIDE DEF i
    <3>2. PICK k \in 1..v.rlen : InUnit(v, k) \in q /\ Seq32(v.riss + k) = Seq32(v.riss + n)
      BY <1>4, <3>1
    <3>3. k \in 0..(v.rlen + 1) /\ n \in 0..(v.rlen + 1)
      BY <1>3, <1>5
    <3>4. k = n
      BY <3>2, <3>3, UnitOnce
    <3> QED
      BY <3>2, <3>4 DEF Have
  <2> QED
    BY <1>3, <2>1, <2>2
<1>7. Seq32(x + j) = Seq32(v.riss + 1 + (r + j))
  <2>1. Seq32(x + j) = Seq32(v.riss + 1 + r + j)
    <3>1. j \in Int
      BY <1>3
    <3> QED
      BY <1>1, <1>a, <3>1, SeqAdd
  <2>2. v.riss + 1 + r + j = v.riss + 1 + (r + j)
    BY <1>3
  <2> QED
    BY <2>1, <2>2
<1>8. r + j \in {y \in 0..v.rlen : 1..y \subseteq Have(v, q)}
  BY <1>3, <1>5, <1>6
<1> QED
  BY <1>7, <1>8 DEF Acks, j

LEMMA AcceptFit ==
    ASSUME NEW v, IsView(v), NEW t, Fit(v, t), NEW m, MailIn(v, m)
    PROVE  Fit(v, Accept(t, m))
<1> DEFINE x == [seq |-> m.seq, data |-> m.data]
           q == t.in \union {x}
           n == Seq32(t.rcv_nxt + Run(q, m.seq))
           u == [t EXCEPT !.in = q, !.rcv_nxt = n]
           w == [t EXCEPT !.in = q]
<1>1. \/ Accept(t, m) = t
      \/ m.data # 0 /\ m.seq = t.rcv_nxt /\ Accept(t, m) = u
      \/ m.data # 0 /\ Accept(t, m) = tcp_sack_prepare(w)
  BY DEF Accept, tcp_data_in_expected, tcp_data_in_high_segment
<1>2. ASSUME m.data # 0
      PROVE  /\ m.seq = t.rcv_nxt => Fit(v, u)
             /\ Fit(v, tcp_sack_prepare(w))
  <2>1. PICK k \in 1..v.rlen : x = InUnit(v, k)
    BY <1>2 DEF MailIn, InUnit
  <2>2. IsBlock(t) /\ Numbers(t) /\ Good(v, t) /\ InOK(v, t.in)
    BY DEF Fit, Good
  <2>3. m.seq \in Int /\ t.rcv_nxt \in Int
    BY <2>2 DEF MailIn, Segments, Numbers
  <2>4. q = t.in \union {InUnit(v, k)} /\ q # {}
    BY <2>1
  <2> HIDE DEF q
  <2>5. InOK(v, q)
    BY <2>2, <2>4, FS_AddElement DEF InOK
  <2>6. n \in 0..(SeqSpace - 1)
    <3>1. Run(q, m.seq) \in Int
      BY <2>3, <2>5, InQueue
    <3>2. t.rcv_nxt + Run(q, m.seq) \in Int
      BY <2>3, <3>1
    <3> QED
      BY <3>2, SeqRange
  <2> HIDE DEF n
  <2>7. /\ Same(t, u) /\ u.in = q /\ u.out = t.out /\ u.sacks = t.sacks /\ u.tx = t.tx
        /\ u.rcv_nxt = n /\ u.in_flight = t.in_flight /\ u.snd_nxt = t.snd_nxt /\ u.cwnd = t.cwnd
        /\ u.wnd = t.wnd /\ u.recv_wnd = t.recv_wnd
    BY <2>2 DEF IsBlock, Same, Steady, Keeps
  <2>8. /\ Same(t, w) /\ w.in = q /\ w.out = t.out /\ w.sacks = t.sacks /\ w.tx = t.tx
        /\ w.rcv_nxt = t.rcv_nxt /\ w.in_flight = t.in_flight /\ w.snd_nxt = t.snd_nxt /\ w.cwnd = t.cwnd
        /\ w.wnd = t.wnd /\ w.recv_wnd = t.recv_wnd
    BY <2>2 DEF IsBlock, Same, Steady, Keeps
  <2> HIDE DEF u, w
  <2>9. Numbers(u) /\ Numbers(w)
    BY <2>2, <2>6, <2>7, <2>8 DEF Numbers, Same, Steady, Keeps
  <2>10. Good(v, u) /\ Have(v, t.in) \subseteq Have(v, q)
    BY <2>2, <2>4, <2>7, <2>9, GoodStore
  <2>11. Good(v, w)
    BY <2>2, <2>4, <2>8, <2>9, GoodStore
  <2>12. ASSUME m.seq = t.rcv_nxt PROVE Ready(v, u)
    <3> SUFFICES ASSUME v.fin = "never" PROVE n \in Acks(v, Have(v, q))
      BY <2>7 DEF Ready
    <3>1. t.rcv_nxt \in Acks(v, Have(v, t.in))
      BY DEF Fit, Ready
    <3> QED
      BY <2>5, <2>10, <2>12, <3>1, RunReady DEF n
  <2>13. Ready(v, w)
    BY <2>8, <2>10, AcksMore DEF Ready, Fit
  <2>14. Fit(v, tcp_sack_prepare(w))
    BY <2>4, <2>8, <2>11, <2>13, SackFit DEF Fit
  <2> QED
    BY <2>10, <2>12, <2>14 DEF Fit
<1> HIDE DEF u, w
<1> QED
  BY <1>1, <1>2

LEMMA DataFit ==
    ASSUME NEW v, IsView(v), NEW t, Fit(v, t), NEW m, MailIn(v, m)
    PROVE  Fit(v, tcp_data_in(t, m))
<1> DEFINE o == tcp_parse_options(t, m)
           u == Accept(o, m)
<1>1. Fit(v, o)
  BY OptionsFit
<1> HIDE DEF o
<1>2. Fit(v, u)
  BY <1>1, AcceptFit
<1>3. tcp_data_in(t, m) \in {u, tcp_send_ack(u)}
  BY DEF tcp_data_in, tcp_data_in_send_ack, o
<1> HIDE DEF u
<1> QED
  BY <1>2, <1>3, AcksFit

-----------------------------------------------------------------------------
(* Input of acknowledgments.                                               *)

(* Only numbers that matter to nobody else change.                         *)
Shifts(t, u) ==
    /\ IsBlock(u) /\ Keeps(t, u)
    /\ u.st = t.st /\ u.fin_tmr = t.fin_tmr /\ u.rcv_nxt = t.rcv_nxt /\ u.wnd = t.wnd
    /\ u.out = t.out /\ u.in = t.in /\ u.sacks = t.sacks /\ u.tx = t.tx

LEMMA FitShifts ==
    ASSUME NEW v, NEW t, NEW u, Fit(v, t), Shifts(t, u), u.snd_nxt \in 0..(SeqSpace - 1),
           u.in_flight \in 0..(MaxCwnd + 1), u.cwnd \in 0..MaxCwnd, u.recv_wnd \in Nat
    PROVE  Fit(v, u)
<1>1. Numbers(u)
  BY DEF Shifts, Keeps, Fit, Good, Numbers
<1> QED
  BY <1>1 DEF Shifts, Keeps, Fit, Good, Ready, Sent, Calm

LEMMA RaiseFit ==
    ASSUME NEW v, NEW t, Fit(v, t), NEW seq \in 0..(SeqSpace - 1)
    PROVE  LET u == Raise(t, seq)
           IN  Fit(v, u) /\ u.in = t.in /\ u.out = t.out /\ u.cwnd = t.cwnd
<1> DEFINE n == Inc(seq)
           u == [t EXCEPT !.snd_nxt = n]
<1>1. n \in 0..(SeqSpace - 1)
  <2>1. seq + 1 \in Int
    OBVIOUS
  <2> QED
    BY <2>1, SeqRange DEF Inc
<1>2. Raise(t, seq) \in {t, u}
  BY DEF Raise
<1>3. IsBlock(t) /\ Numbers(t)
  BY DEF Fit, Good
<1> HIDE DEF n
<1>4. /\ Shifts(t, u) /\ u.snd_nxt = n /\ u.in_flight = t.in_flight /\ u.cwnd = t.cwnd
      /\ u.recv_wnd = t.recv_wnd
  BY <1>3 DEF IsBlock, Shifts, Keeps
<1> HIDE DEF u
<1>5. Fit(v, u)
  BY <1>1, <1>3, <1>4, FitShifts DEF Numbers
<1> QED
  BY <1>2, <1>4, <1>5 DEF Shifts

LEMMA PutFit ==
    ASSUME NEW v, IsView(v), NEW t, Fit(v, t), NEW s \in t.out
    PROVE  LET u == Put(t, DataSegment(t, s))
           IN  Fit(v, u) /\ Says(t, u)
<1> DEFINE m == DataSegment(t, s)
           u == [t EXCEPT !.tx = Append(@, m)]
<1>1. Put(t, DataSegment(t, s)) = u
  BY DEF Put
<1>2. IsBlock(t) /\ Numbers(t)
  BY DEF Fit, Good
<1>3. MailOut(v, Have(v, t.in), m) /\ m.flags = "PSHACK"
  BY DataMail
<1> HIDE DEF m
<1>4. /\ Same(t, u) /\ Says(t, u) /\ u.sacks = t.sacks /\ u.tx = Append(t.tx, m) /\ u.wnd = t.wnd
  BY <1>2 DEF IsBlock, Same, Steady, Keeps, Says
<1> HIDE DEF u
<1>5. Numbers(u)
  BY <1>2, <1>4 DEF Numbers, Same, Steady, Keeps, Says
<1>6. Good(v, u)
  BY <1>3, <1>4, <1>5, GoodSends DEF Fit, Says
<1>7. Fit(v, u)
  BY <1>4, <1>6 DEF Fit, Ready, Says
<1> QED
  BY <1>1, <1>4, <1>7

LEMMA RetransFit ==
    ASSUME NEW v, IsView(v), NEW t, Fit(v, t), NEW found \in SUBSET t.out, t.in_flight <= t.cwnd
    PROVE  LET u == tcp_retrans(t, found)
           IN  Fit(v, u) /\ u.in = t.in /\ u.out = t.out
<1> DEFINE s == CHOOSE x \in found : TRUE
           p == Put(t, DataSegment(t, s))
           fl == p.in_flight + 1
           q == s.seq
           u == [p EXCEPT !.in_flight = fl, !.snd_last_out = q]
           w == Raise(u, q)
<1>1. tcp_retrans(t, found) = IF found = {} THEN t ELSE add_retransmission_timer(w)
  BY DEF tcp_retrans
<1>2. ASSUME found # {}
      PROVE  LET z == add_retransmission_timer(w) IN Fit(v, z) /\ z.in = t.in /\ z.out = t.out
  <2>1. s \in t.out /\ q \in 0..(SeqSpace - 1)
    BY <1>2, OutQueue DEF Fit, Good
  <2> HIDE DEF s, q
  <2>2. Fit(v, p) /\ Says(t, p)
    BY <2>1, PutFit
  <2> HIDE DEF p
  <2>3. IsBlock(p) /\ Numbers(p) /\ p.in_flight <= p.cwnd
    BY <2>2 DEF Fit, Good, Says
  <2>4. fl \in 0..(MaxCwnd + 1)
    BY <2>3, TcpAssumption DEF Numbers
  <2> HIDE DEF fl
  <2>5. /\ Shifts(p, u) /\ u.snd_nxt = p.snd_nxt /\ u.in_flight = fl /\ u.cwnd = p.cwnd
        /\ u.recv_wnd = p.recv_wnd
    BY <2>3 DEF IsBlock, Shifts, Keeps
  <2> HIDE DEF u
  <2>6. Fit(v, u) /\ u.in = t.in /\ u.out = t.out
    BY <2>2, <2>3, <2>4, <2>5, FitShifts DEF Numbers, Shifts, Says
  <2>7. Fit(v, w) /\ w.in = t.in /\ w.out = t.out
    BY <2>1, <2>6, RaiseFit
  <2> HIDE DEF w
  <2>8. LET z == add_retransmission_timer(w) IN Fit(v, z) /\ Says(w, z)
    BY <2>7, TimerFit
  <2> QED
    BY <2>7, <2>8 DEF Says
<1> HIDE DEF w
<1> QED
  BY <1>1, <1>2

LEMMA DeflateFit ==
    ASSUME NEW v, NEW t, Fit(v, t)
    PROVE  LET u == Deflate(t) IN Fit(v, u) /\ u.in = t.in /\ u.out = t.out
<1> DEFINE c == IF t.cwnd - 1 < 2 THEN 2 ELSE t.cwnd - 1
           n == t.cwnd_counter + 1
           a == [t EXCEPT !.cwnd = c, !.cwnd_counter = 0]
           b == [t EXCEPT !.cwnd_counter = n]
<1>1. Deflate(t) \in {a, b}
  BY DEF Deflate
<1>2. IsBlock(t) /\ Numbers(t)
  BY DEF Fit, Good
<1>3. c \in 0..MaxCwnd
  BY <1>2, TcpAssumption DEF Numbers
<1> HIDE DEF c, n
<1>4. /\ Shifts(t, a) /\ a.snd_nxt = t.snd_nxt /\ a.in_flight = t.in_flight /\ a.cwnd = c
      /\ a.recv_wnd = t.recv_wnd
  BY <1>2 DEF IsBlock, Shifts, Keeps
<1>5. /\ Shifts(t, b) /\ b.snd_nxt = t.snd_nxt /\ b.in_flight = t.in_flight /\ b.cwnd = t.cwnd
      /\ b.recv_wnd = t.recv_wnd
  BY <1>2 DEF IsBlock, Shifts, Keeps
<1> HIDE DEF a, b
<1>6. Fit(v, a) /\ Fit(v, b)
  BY <1>2, <1>3, <1>4, <1>5, FitShifts DEF Numbers
<1> QED
  BY <1>1, <1>4, <1>5, <1>6 DEF Shifts

LEMMA RecoverFit ==
    ASSUME NEW v, IsView(v), NEW t, Fit(v, t)
    PROVE  LET u == Recover(t) IN Fit(v, u) /\ u.in = t.in /\ u.out = t.out
<1> DEFINE found == peek_segment(t.out, t.snd_retry)
           r == tcp_retrans(t, found)
           n == NextRetry(t)
           u == [r EXCEPT !.snd_retry = n]
           w == IF t.in_flight <= t.cwnd THEN u ELSE t
<1>1. Recover(t) = Deflate(w)
  BY DEF Recover
<1>2. ASSUME t.in_flight <= t.cwnd PROVE Fit(v, u) /\ u.in = t.in /\ u.out = t.out
  <2>1. found \in SUBSET t.out
    BY DEF peek_segment
  <2> HIDE DEF found
  <2>2. Fit(v, r) /\ r.in = t.in /\ r.out = t.out
    BY <1>2, <2>1, RetransFit
  <2> HIDE DEF r, n
  <2>3. IsBlock(r) /\ Numbers(r)
    BY <2>2 DEF Fit, Good
  <2>4. /\ Shifts(r, u) /\ u.snd_nxt = r.snd_nxt /\ u.in_flight = r.in_flight /\ u.cwnd = r.cwnd
        /\ u.recv_wnd = r.recv_wnd
    BY <2>3 DEF IsBlock, Shifts, Keeps
  <2> HIDE DEF u
  <2> QED
    BY <2>2, <2>3, <2>4, FitShifts DEF Numbers, Shifts
<1>3. Fit(v, w) /\ w.in = t.in /\ w.out = t.out
  BY <1>2
<1> HIDE DEF w
<1>4. LET z == Deflate(w) IN Fit(v, z) /\ z.in = w.in /\ z.out = w.out
  BY <1>3, DeflateFit
<1> QED
  BY <1>1, <1>3, <1>4

LEMMA DupAckFit ==
    ASSUME NEW v, IsView(v), NEW t, Fit(v, t), t.in_flight <= MaxCwnd
    PROVE  LET u == DupAck(t) IN Fit(v, u) /\ u.in = t.in /\ u.out = t.out
<1> DEFINE cwnd == IF t.in_flight > IW THEN t.in_flight ELSE IW
           half == IF t.ssthresh > cwnd THEN t.ssthresh \div 4 ELSE cwnd \div 2
           low == IF half < 2 THEN 2 ELSE half
           una == first_segment(t.out).seq
           a == [t EXCEPT !.x_mode = RECOVER, !.cwnd = cwnd, !.snd_retry = una, !.ssthresh = low]
           x == t.x_mode + 1
           b == [t EXCEPT !.x_mode = x]
<1>1. EnterRecover(t) = a
  BY DEF EnterRecover
<1>2. DupAck(t) \in {b, a, Recover(t), t}
  BY <1>1 DEF DupAck
<1>3. IsBlock(t) /\ Numbers(t)
  BY DEF Fit, Good
<1>4. cwnd \in 0..MaxCwnd
  BY <1>3, TcpAssumption DEF Numbers, IW
<1> HIDE DEF cwnd, low, una, x
<1>5. /\ Shifts(t, a) /\ a.snd_nxt = t.snd_nxt /\ a.in_flight = t.in_flight /\ a.cwnd = cwnd
      /\ a.recv_wnd = t.recv_wnd
  BY <1>3 DEF IsBlock, Shifts, Keeps
<1>6. /\ Shifts(t, b) /\ b.snd_nxt = t.snd_nxt /\ b.in_flight = t.in_flight /\ b.cwnd = t.cwnd
      /\ b.recv_wnd = t.recv_wnd
  BY <1>3 DEF IsBlock, Shifts, Keeps
<1> HIDE DEF a, b
<1>7. Fit(v, a) /\ Fit(v, b) /\ a.in = t.in /\ a.out = t.out /\ b.in = t.in /\ b.out = t.out
  BY <1>3, <1>4, <1>5, <1>6, FitShifts DEF Numbers, Shifts
<1> QED
  BY <1>2, <1>7, RecoverFit

(* What an acknowledgment releases has arrived.                            *)
Acknowledges == {"SYNACK", "ACK", "PSHACK", "FINACK"}

LEMMA ReleaseCovers ==
    ASSUME NEW v, IsView(v), NEW q, OutOK(v, q), NEW m, MailIn(v, m), m.flags \in Acknowledges,
           Closers = {}, Covers(v, q)
    PROVE  Covers(v, q \ Until(q, m.ack))
<1> USE ViewInts
<1>1. PICK r \in 0..v.len : 1..r \subseteq v.held /\ m.ack = Seq32(v.iss + 1 + r)
  <2>1. m.flags \in {"SYNACK", "ACK", "PSHACK"} /\ v.told = "exact"
    BY DEF MailIn, IsView, Acknowledges
  <2>2. m.ack \in {Seq32(v.iss + 1 + y) : y \in {x \in 0..v.len : 1..x \subseteq v.held}}
    BY <2>1 DEF MailIn
  <2> QED
    BY <2>2
<1> SUFFICES ASSUME NEW k \in 1..v.len, k \notin v.held
             PROVE  \E s \in q \ Until(q, m.ack) : s.data = v.base + k
  BY DEF Covers
<1>2. PICK s \in q : s.data = v.base + k
  BY DEF Covers
<1>3. PICK j \in 1..v.len : s.seq = Seq32(v.iss + j) /\ s.data = v.base + j
  BY DEF OutOK, IsOut
<1>4. j = k
  BY <1>2, <1>3
<1>5. pico_seq_compare(Inc(s.seq), m.ack) = k - r
  <2>1. k \in 0..v.len
    OBVIOUS
  <2> QED
    BY <1>1, <1>3, <1>4, <2>1, UntilUnit
<1>6. k > r
  BY <1>1
<1>7. s \notin Until(q, m.ack)
  BY <1>5, <1>6 DEF Until
<1> QED
  BY <1>2, <1>7

LEMMA ReleaseFit ==
    ASSUME NEW v, IsView(v), NEW t, Fit(v, t), NEW m, MailIn(v, m), m.flags \in Acknowledges,
           NEW acked
    PROVE  LET u == Release(t, m, acked) IN Fit(v, u) /\ u.in = t.in /\ (t.out = {} => u.out = {})
<1> DEFINE q == t.out \ Until(t.out, m.ack)
           a == [t EXCEPT !.recv_wnd = m.wnd, !.out = q]
           nxt == IF a.x_mode = BLACKOUT /\ acked > 0 /\ a.out # {} THEN first_segment(a.out).seq
                  ELSE a.snd_nxt
           u == [a EXCEPT !.x_mode = LOOKAHEAD, !.backoff = 0, !.snd_nxt = nxt]
<1>1. Release(t, m, acked) \in {a, u}
  BY DEF Release, Resume
<1>2. IsBlock(t) /\ Numbers(t) /\ OutOK(v, t.out)
  BY DEF Fit, Good
<1>3. OutOK(v, q) /\ (t.out = {} => q = {}) /\ m.wnd \in Nat
  BY <1>2, OutSub DEF MailIn, Segments
<1>4. Closers = {} /\ Covers(v, t.out) => Covers(v, q)
  BY <1>2, ReleaseCovers
<1> HIDE DEF q
<1>5. /\ Same(t, a) /\ a.out = q /\ a.in = t.in /\ a.sacks = t.sacks /\ a.tx = t.tx
      /\ a.rcv_nxt = t.rcv_nxt /\ a.in_flight = t.in_flight /\ a.snd_nxt = t.snd_nxt /\ a.cwnd = t.cwnd
      /\ a.wnd = t.wnd /\ a.recv_wnd = m.wnd
  BY <1>2 DEF IsBlock, Same, Steady, Keeps
<1> HIDE DEF a
<1>6. Numbers(a)
  BY <1>2, <1>3, <1>5 DEF Numbers, Same, Steady, Keeps
<1>7. Fit(v, a)
  BY <1>3, <1>4, <1>5, <1>6 DEF Fit, Ready, Good, Sent, Same, Steady, Keeps, Calm
<1>8. nxt \in 0..(SeqSpace - 1) /\ IsBlock(a)
  BY <1>3, <1>5, <1>6, OutQueue DEF Numbers, Same, Steady
<1> HIDE DEF nxt
<1>9. /\ Shifts(a, u) /\ u.snd_nxt = nxt /\ u.in_flight = a.in_flight /\ u.cwnd = a.cwnd
      /\ u.recv_wnd = a.recv_wnd
  BY <1>8 DEF IsBlock, Shifts, Keeps
<1> HIDE DEF u
<1>10. Fit(v, u)
  BY <1>6, <1>7, <1>8, <1>9, FitShifts DEF Numbers
<1> QED
  BY <1>1, <1>3, <1>5, <1>7, <1>9, <1>10 DEF Shifts

(* Each part of tcp_ack that only counts.                                  *)
LEMMA OneLessFit ==
    ASSUME NEW v, NEW t, Fit(v, t), NEW m, NEW acked
    PROVE  LET u == OneLess(t, m, acked)
           IN  /\ Fit(v, u) /\ u.in = t.in /\ u.out = t.out
               /\ acked = 0 /\ m.data = 0 => u.in_flight <= MaxCwnd
<1> DEFINE n == t.in_flight - 1
           u == [t EXCEPT !.in_flight = n]
<1>1. OneLess(t, m, acked) = IF acked = 0 /\ m.data = 0 /\ t.in_flight > 0 THEN u ELSE t
  BY DEF OneLess
<1>2. IsBlock(t) /\ Numbers(t)
  BY DEF Fit, Good
<1>3. /\ t.in_flight > 0 => n \in 0..(MaxCwnd + 1) /\ n <= MaxCwnd
      /\ ~(t.in_flight > 0) => t.in_flight <= MaxCwnd
  BY <1>2, TcpAssumption DEF Numbers
<1> HIDE DEF n
<1>4. /\ Shifts(t, u) /\ u.snd_nxt = t.snd_nxt /\ u.in_flight = n /\ u.cwnd = t.cwnd
      /\ u.recv_wnd = t.recv_wnd
  BY <1>2 DEF IsBlock, Shifts, Keeps
<1> HIDE DEF u
<1>5. t.in_flight > 0 => Fit(v, u)
  BY <1>2, <1>3, <1>4, FitShifts DEF Numbers
<1> QED
  BY <1>1, <1>3, <1>4, <1>5 DEF Shifts

LEMMA FreshAckFit ==
    ASSUME NEW v, NEW t, Fit(v, t), NEW acked \in Nat
    PROVE  LET u == FreshAck(t, acked) IN Fit(v, u) /\ u.in = t.in /\ u.out = t.out
<1> DEFINE n == IF acked > t.in_flight THEN 0 ELSE t.in_flight - acked
           u == [t EXCEPT !.x_mode = LOOKAHEAD, !.backoff = 0, !.in_flight = n]
<1>1. FreshAck(t, acked) = u
  BY DEF FreshAck
<1>2. IsBlock(t) /\ Numbers(t)
  BY DEF Fit, Good
<1>3. n \in 0..(MaxCwnd + 1)
  BY <1>2, TcpAssumption DEF Numbers
<1> HIDE DEF n
<1>4. /\ Shifts(t, u) /\ u.snd_nxt = t.snd_nxt /\ u.in_flight = n /\ u.cwnd = t.cwnd
      /\ u.recv_wnd = t.recv_wnd
  BY <1>2 DEF IsBlock, Shifts, Keeps
<1> HIDE DEF u
<1>5. Fit(v, u)
  BY <1>2, <1>3, <1>4, FitShifts DEF Numbers
<1> QED
  BY <1>1, <1>4, <1>5 DEF Shifts

LEMMA JudgeFit ==
    ASSUME NEW v, IsView(v), NEW t, Fit(v, t), NEW m, NEW acked \in Nat,
           acked = 0 /\ m.data = 0 => t.in_flight <= MaxCwnd
    PROVE  LET u == Judge(t, m, acked) IN Fit(v, u) /\ u.in = t.in /\ u.out = t.out
<1>1. \/ Judge(t, m, acked) \in {FreshAck(t, acked), t}
      \/ acked = 0 /\ m.data = 0 /\ Judge(t, m, acked) = DupAck(t)
  BY DEF Judge
<1> QED
  BY <1>1, FreshAckFit, DupAckFit

LEMMA CongestionFit ==
    ASSUME NEW v, NEW t, Fit(v, t)
    PROVE  LET u == tcp_congestion_control(t) IN Fit(v, u) /\ u.in = t.in /\ u.out = t.out
<1> DEFINE g == IF t.cwnd < MaxCwnd THEN t.cwnd + 1 ELSE t.cwnd
           n == t.cwnd_counter + 1
           a == [t EXCEPT !.cwnd = g]
           b == [t EXCEPT !.cwnd = g, !.cwnd_counter = 0]
           c == [t EXCEPT !.cwnd_counter = n]
<1>1. tcp_congestion_control(t) \in {t, a, b, c}
  BY DEF tcp_congestion_control
<1>2. IsBlock(t) /\ Numbers(t)
  BY DEF Fit, Good
<1>3. g \in 0..MaxCwnd
  BY <1>2, TcpAssumption DEF Numbers
<1> HIDE DEF g, n
<1>4. /\ Shifts(t, a) /\ a.snd_nxt = t.snd_nxt /\ a.in_flight = t.in_flight /\ a.cwnd = g
      /\ a.recv_wnd = t.recv_wnd
  BY <1>2 DEF IsBlock, Shifts, Keeps
<1>5. /\ Shifts(t, b) /\ b.snd_nxt = t.snd_nxt /\ b.in_flight = t.in_flight /\ b.cwnd = g
      /\ b.recv_wnd = t.recv_wnd
  BY <1>2 DEF IsBlock, Shifts, Keeps
<1>6. /\ Shifts(t, c) /\ c.snd_nxt = t.snd_nxt /\ c.in_flight = t.in_flight /\ c.cwnd = t.cwnd
      /\ c.recv_wnd = t.recv_wnd
  BY <1>2 DEF IsBlock, Shifts, Keeps
<1> HIDE DEF a, b, c
<1>7. Fit(v, a) /\ Fit(v, b) /\ Fit(v, c)
  BY <1>2, <1>3, <1>4, <1>5, <1>6, FitShifts DEF Numbers
<1> QED
  BY <1>1, <1>4, <1>5, <1>6, <1>7 DEF Shifts

LEMMA TcpAckFit ==
    ASSUME NEW v, IsView(v), NEW t, Fit(v, t), NEW m, MailIn(v, m), m.flags \in Acknowledges
    PROVE  LET u == tcp_ack(t, m) IN Fit(v, u) /\ u.in = t.in /\ (t.out = {} => u.out = {})
<1> DEFINE acked == Cardinality(Until(t.out, m.ack))
           o == tcp_parse_options(t, m)
           e == Release(o, m, acked)
           r == OneLess(e, m, acked)
           j == Judge(r, m, acked)
           p == AnswerProbe(j, m)
           c == tcp_congestion_control(p)
           s == SendMore(c)
           a == add_retransmission_timer(s)
           n == m.ack
           b == [a EXCEPT !.snd_old_ack = n]
           Rest(u) == Fit(v, u) /\ u.in = t.in /\ (t.out = {} => u.out = {})
<1>1. tcp_ack(t, m) = b
  BY DEF tcp_ack, AckSteps, HasAck, Acknowledges
<1>2. acked \in Nat
  <2>1. Until(t.out, m.ack) \in SUBSET t.out
    BY DEF Until
  <2>2. IsFiniteSet(t.out)
    BY DEF Fit, Good, OutOK
  <2> QED
    BY <2>1, <2>2, FS_Subset, FS_CardinalityType
<1> HIDE DEF acked, n
<1>3. Rest(o)
  BY OptionsFit
<1> HIDE DEF o
<1>4. Rest(e)
  BY <1>3, ReleaseFit
<1> HIDE DEF e
<1>5. Rest(r) /\ (acked = 0 /\ m.data = 0 => r.in_flight <= MaxCwnd)
  BY <1>4, OneLessFit
<1> HIDE DEF r
<1>6. Rest(j)
  BY <1>2, <1>5, JudgeFit
<1> HIDE DEF j
<1>7. Rest(p)
  BY <1>6, AcksFit DEF AnswerProbe, Says
<1> HIDE DEF p
<1>8. Rest(c)
  BY <1>7, CongestionFit
<1> HIDE DEF c
<1>9. Rest(s)
  <2>1. c.cwnd - c.in_flight \in Int
    BY <1>8 DEF Fit, Good, Numbers
  <2> QED
    BY <1>8, <2>1, OutputFit DEF SendMore
<1> HIDE DEF s
<1>10. Rest(a)
  BY <1>9, TimerFit DEF Says
<1> HIDE DEF a
<1>11. IsBlock(a) /\ Numbers(a)
  BY <1>10 DEF Fit, Good
<1>12. /\ Shifts(a, b) /\ b.snd_nxt = a.snd_nxt /\ b.in_flight = a.in_flight /\ b.cwnd = a.cwnd
       /\ b.recv_wnd = a.recv_wnd
  BY <1>11 DEF IsBlock, Shifts, Keeps
<1> HIDE DEF b
<1>13. Rest(b)
  BY <1>10, <1>11, <1>12, FitShifts DEF Numbers, Shifts
<1> QED
  BY <1>1, <1>13

-----------------------------------------------------------------------------
(* The phases of a block.                                                  *)

(* A block that may still send an acknowledgment.                          *)
Talks(t) == t.st \notin {"CLOSED", "SYN_SENT"} \/ t.fin_tmr

(* A block that repeats its SYN.                                           *)
Dialling(v, t) ==
    /\ t.st \in {"CLOSED", "SYN_SENT"} /\ t.snd_nxt = v.iss /\ t.snd_last = v.iss
    /\ t.out = {} /\ t.in = {} /\ t.sacks = {} /\ t.wnd = MaxIn /\ ~t.fin_tmr

(* A child that waits for the third segment of the handshake.              *)
Waiting(v, t) ==
    /\ t.out = {} /\ t.in = {} /\ t.sacks = {} /\ t.wnd = MaxIn /\ ~t.fin_tmr /\ ~t.gone
    /\ t.snd_last = v.iss
    /\ t.snd_nxt = Seq32(v.iss + 1) /\ t.rcv_nxt = Seq32(v.riss + 1)

(* A connection: what comes next from the application, and to it.          *)
Opened(v, t, read) ==
    /\ t.rcv_processed = Seq32(v.riss + 1 + read)
    /\ t.snd_last = Seq32(v.iss + v.len)

(* A FIN closed the child before its handshake ended: it never has data.   *)
Botched(t) == t.st = "LAST_ACK" /\ t.out = {} /\ t.in = {} /\ t.shutL /\ t.shutR

Phase(v, t, read) ==
    /\ t.retrans_tmr = "syn" => Dialling(v, t)
    /\ t.st = "SYN_SENT" => Dialling(v, t) /\ ~t.gone
    /\ t.st = "SYN_RECV" => Waiting(v, t)
    /\ t.st \in Synchronized => ~t.gone /\ (Opened(v, t, read) \/ Botched(t))
    /\ t.gone => t.st = "CLOSED"

Held(v, t, read) ==
    Good(v, t) /\ (Talks(t) => Ready(v, t)) /\ Phase(v, t, read)

(* A block of a connection whose handshake is over.                        *)
Runs(v, t, read) ==
    /\ Fit(v, t) /\ t.st \in Synchronized /\ ~t.gone /\ t.retrans_tmr # "syn"
    /\ Opened(v, t, read) \/ Botched(t)

LEMMA RunsHeld ==
    ASSUME NEW v, NEW t, NEW read
    PROVE  /\ Runs(v, t, read) => Held(v, t, read)
           /\ Held(v, t, read) /\ t.st \in Synchronized => Runs(v, t, read)
<1>1. Runs(v, t, read) => Held(v, t, read)
  BY DEF Runs, Held, Fit, Phase, Synchronized
<1>2. ASSUME Held(v, t, read), t.st \in Synchronized PROVE Runs(v, t, read)
  <2>1. Talks(t) /\ t.st \notin {"CLOSED", "SYN_SENT"}
    BY <1>2 DEF Talks, Synchronized
  <2> QED
    BY <1>2, <2>1 DEF Runs, Held, Fit, Phase, Dialling
<1> QED
  BY <1>1, <1>2

(* A handler that sends keeps a connection running.                        *)
LEMMA SendsRuns ==
    ASSUME NEW v, NEW t, NEW u, NEW read, Runs(v, t, read), Sends(t, u), Fit(v, u),
           Botched(t) => u.out = {} /\ u.in = {}
    PROVE  /\ Runs(v, u, read)
           /\ Opened(v, t, read) => Opened(v, u, read)
<1>1. u.st \in Synchronized /\ ~u.gone
  BY DEF Runs, Sends, Closes, Synchronized, States
<1>2. u.retrans_tmr # "syn"
  BY DEF Runs, Sends
<1>3. Opened(v, t, read) => Opened(v, u, read)
  BY DEF Opened, Sends, Closes, Keeps, Recalls
<1>4. Botched(t) => Botched(u)
  BY DEF Botched, Sends, Closes, Keeps, Recalls
<1> QED
  BY <1>1, <1>2, <1>3, <1>4 DEF Runs

LEMMA SaysRuns ==
    ASSUME NEW v, NEW t, NEW u, NEW read, Runs(v, t, read), Same(t, u), Says(t, u), Fit(v, u)
    PROVE  /\ Runs(v, u, read)
           /\ Opened(v, t, read) => Opened(v, u, read)
<1>1. Botched(t) => u.out = {} /\ u.in = {}
  BY DEF Botched, Says
<1>2. Sends(t, u)
  BY SameSends
<1> QED
  BY <1>1, <1>2, SendsRuns

(* The acknowledgments and resets a running connection sends.              *)
LEMMA AcksRun ==
    ASSUME NEW v, IsView(v), NEW t, NEW read, Runs(v, t, read)
    PROVE  /\ Runs(v, tcp_send_ack(t), read) /\ Same(t, tcp_send_ack(t))
           /\ Runs(v, tcp_send_probe(t), read) /\ Same(t, tcp_send_probe(t))
           /\ \A seq \in 0..(SeqSpace - 1) : Runs(v, tcp_do_send_rst(t, seq), read)
<1>1. Fit(v, t) /\ IsBlock(t)
  BY DEF Runs, Fit, Good
<1>2. Runs(v, tcp_send_ack(t), read) /\ Same(t, tcp_send_ack(t))
  BY <1>1, AcksFit, AcksAre, SaysRuns
<1>3. Runs(v, tcp_send_probe(t), read) /\ Same(t, tcp_send_probe(t))
  BY <1>1, AcksFit, AcksAre, SaysRuns
<1>4. \A seq \in 0..(SeqSpace - 1) : Runs(v, tcp_do_send_rst(t, seq), read)
  BY <1>1, AcksFit, AcksAre, SaysRuns
<1> QED
  BY <1>2, <1>3, <1>4

LEMMA TcpAckRuns ==
    ASSUME NEW v, IsView(v), NEW t, NEW read, Runs(v, t, read), NEW m, MailIn(v, m),
           m.flags \in Acknowledges
    PROVE  /\ Runs(v, tcp_ack(t, m), read)
           /\ Opened(v, t, read) => Opened(v, tcp_ack(t, m), read)
           /\ tcp_ack(t, m).st \in {t.st, "FIN_WAIT1", "LAST_ACK"}
<1> DEFINE u == tcp_ack(t, m)
<1>1. Fit(v, t) /\ IsBlock(t)
  BY DEF Runs, Fit, Good
<1>2. Fit(v, u) /\ u.in = t.in /\ (t.out = {} => u.out = {})
  BY <1>1, TcpAckFit
<1>3. Sends(t, u)
  BY <1>1, TcpAckIs
<1> HIDE DEF u
<1>4. Botched(t) => u.out = {} /\ u.in = {}
  BY <1>2 DEF Botched
<1>5. Runs(v, u, read) /\ (Opened(v, t, read) => Opened(v, u, read))
  BY <1>2, <1>3, <1>4, SendsRuns
<1>6. u.st \in {t.st, "FIN_WAIT1", "LAST_ACK"}
  BY <1>3 DEF Sends, Closes
<1> QED
  BY <1>5, <1>6 DEF u

(* A deleted block.                                                        *)
LEMMA DelHeld ==
    ASSUME NEW v, NEW t, NEW read, Good(v, t), t.fin_tmr => Ready(v, t),
           t.retrans_tmr = "syn" => Dialling(v, t)
    PROVE  LET u == pico_socket_del(t)
           IN  Held(v, u, read) /\ u.st = "CLOSED" /\ u.gone /\ u.tx = t.tx
<1> DEFINE u == pico_socket_del(t)
<1>1. IsBlock(t)
  BY DEF Good
<1>2. /\ IsBlock(u) /\ u.st = "CLOSED" /\ u.gone = TRUE /\ u.shutL = FALSE /\ u.shutR = FALSE
      /\ u.snd_nxt = t.snd_nxt /\ u.snd_last = t.snd_last /\ u.rcv_nxt = t.rcv_nxt
      /\ u.in_flight = t.in_flight /\ u.cwnd = t.cwnd /\ u.wnd = t.wnd /\ u.recv_wnd = t.recv_wnd
      /\ u.out = t.out /\ u.in = t.in /\ u.sacks = t.sacks /\ u.tx = t.tx
      /\ u.fin_tmr = t.fin_tmr /\ u.retrans_tmr = t.retrans_tmr /\ u.remote_closed = t.remote_closed
  BY <1>1 DEF IsBlock, pico_socket_del
<1> HIDE DEF u
<1>3. Numbers(u)
  BY <1>2 DEF Good, Numbers, States
<1>4. Good(v, u)
  BY <1>2, <1>3 DEF Good, Sent, Calm
<1>5. Talks(u) => Ready(v, u)
  BY <1>2 DEF Talks, Ready
<1>6. Phase(v, u, read)
  BY <1>2 DEF Phase, Dialling, Synchronized
<1> QED
  BY <1>2, <1>4, <1>5, <1>6 DEF Held, u

-----------------------------------------------------------------------------
(* Segments that reach a running connection.                               *)

(* A change of the state alone, or with a FIN counted.                     *)
Moves(t, u) ==
    /\ IsBlock(u) /\ u.st \in Synchronized /\ u.gone = t.gone
    /\ u.snd_nxt = t.snd_nxt /\ u.snd_last = t.snd_last /\ u.rcv_processed = t.rcv_processed
    /\ u.in_flight = t.in_flight /\ u.cwnd = t.cwnd /\ u.wnd = t.wnd /\ u.recv_wnd = t.recv_wnd
    /\ u.out = t.out /\ u.in = t.in /\ u.sacks = t.sacks /\ u.tx = t.tx
    /\ u.retrans_tmr = t.retrans_tmr
    /\ u.rcv_nxt \in 0..(SeqSpace - 1)

LEMMA MovesRuns ==
    ASSUME NEW v, NEW t, NEW u, NEW read, Closers # {}, Runs(v, t, read), Opened(v, t, read),
           Moves(t, u), u.rcv_nxt = t.rcv_nxt \/ v.fin # "never"
    PROVE  Runs(v, u, read) /\ Opened(v, u, read)
<1>1. Numbers(u)
  BY DEF Runs, Fit, Good, Numbers, Moves, Synchronized
<1>2. t.st # "CLOSED" /\ u.st # "SYN_RECV"
  BY DEF Runs, Moves, Synchronized
<1>3. Good(v, u)
  BY <1>1, <1>2 DEF Runs, Fit, Good, Moves, Sent
<1>4. Ready(v, u)
  BY DEF Runs, Fit, Ready, Moves
<1>5. Opened(v, u, read)
  BY DEF Opened, Moves
<1> QED
  BY <1>3, <1>4, <1>5 DEF Runs, Fit, Moves

(* Without FIN the only synchronized state is ESTABLISHED.                 *)
LEMMA RunsCalm ==
    ASSUME NEW v, NEW t, NEW read, Runs(v, t, read)
    PROVE  /\ IsBlock(t) /\ Fit(v, t) /\ Numbers(t)
           /\ t.st # "ESTABLISHED" => Closers # {}
           /\ t.st # "LAST_ACK" => Opened(v, t, read)
BY DEF Runs, Fit, Good, Calm, Synchronized, Botched

LEMMA FinAckedRuns ==
    ASSUME NEW v, NEW t, NEW read, NEW m, Closers # {}, Runs(v, t, read), Opened(v, t, read)
    PROVE  Runs(v, FinAcked(t, m), read) /\ Opened(v, FinAcked(t, m), read)
<1> DEFINE u == [t EXCEPT !.st = "FIN_WAIT2"]
<1>1. IsBlock(t) /\ Numbers(t)
  BY RunsCalm
<1>2. Moves(t, u) /\ u.rcv_nxt = t.rcv_nxt
  BY <1>1 DEF IsBlock, Moves, Numbers, Synchronized, States
<1> HIDE DEF u
<1>3. Runs(v, u, read) /\ Opened(v, u, read)
  BY <1>2, MovesRuns
<1> QED
  BY <1>3 DEF FinAcked, u

LEMMA BothClosedRuns ==
    ASSUME NEW v, NEW t, NEW read, NEW m, Closers # {}, Runs(v, t, read), Opened(v, t, read)
    PROVE  Runs(v, BothClosed(t, m), read) /\ Opened(v, BothClosed(t, m), read)
<1> DEFINE u == tcp_linger([t EXCEPT !.st = "TIME_WAIT"])
<1>1. IsBlock(t) /\ Numbers(t)
  BY RunsCalm
<1>2. Moves(t, u) /\ u.rcv_nxt = t.rcv_nxt
  BY <1>1 DEF IsBlock, Moves, Numbers, Synchronized, States, tcp_linger
<1> HIDE DEF u
<1>3. Runs(v, u, read) /\ Opened(v, u, read)
  BY <1>2, MovesRuns
<1> QED
  BY <1>3 DEF BothClosed, u

LEMMA OnAckRuns ==
    ASSUME NEW v, IsView(v), NEW t, NEW read, Runs(v, t, read), NEW m, MailIn(v, m),
           m.flags \in Acknowledges
    PROVE  \/ /\ Runs(v, OnAck(t, m), read)
              /\ t.st # "LAST_ACK" => Opened(v, OnAck(t, m), read)
           \/ OnAck(t, m) = pico_socket_del(t)
<1> DEFINE a == tcp_ack(t, m)
<1>1. /\ t.st # "ESTABLISHED" => Closers # {}
      /\ t.st # "LAST_ACK" => Opened(v, t, read)
  BY RunsCalm
<1>2. Runs(v, a, read) /\ (t.st # "LAST_ACK" => Opened(v, a, read))
  BY <1>1, TcpAckRuns
<1> HIDE DEF a
<1>3. CASE t.st \in {"ESTABLISHED", "CLOSE_WAIT", "FIN_WAIT2"}
  BY <1>2, <1>3 DEF OnAck, a
<1>4. CASE t.st = "LAST_ACK"
  BY <1>4 DEF OnAck, tcp_lastackwait
<1>5. CASE t.st = "FIN_WAIT1"
  <2>1. OnAck(t, m) = FinAcked(a, m)
    BY <1>5 DEF OnAck, tcp_finwaitack, a
  <2> QED
    BY <1>1, <1>2, <1>5, <2>1, FinAckedRuns
<1>6. CASE t.st = "CLOSING"
  <2>1. OnAck(t, m) = BothClosed(a, m)
    BY <1>6 DEF OnAck, tcp_closing_ack, a
  <2> QED
    BY <1>1, <1>2, <1>6, <2>1, BothClosedRuns
<1>7. CASE t.st = "TIME_WAIT"
  BY <1>1, <1>7 DEF OnAck
<1>8. t.st \in {"ESTABLISHED", "CLOSE_WAIT", "LAST_ACK", "FIN_WAIT1", "FIN_WAIT2", "CLOSING",
                "TIME_WAIT"}
  BY DEF Runs, Synchronized, States
<1> QED
  BY <1>3, <1>4, <1>5, <1>6, <1>7, <1>8

LEMMA DataRuns ==
    ASSUME NEW v, IsView(v), NEW t, NEW read, Runs(v, t, read), Opened(v, t, read), NEW m,
           MailIn(v, m)
    PROVE  Runs(v, tcp_data_in(t, m), read)
<1> DEFINE u == tcp_data_in(t, m)
<1>1. Fit(v, t) /\ IsBlock(t)
  BY RunsCalm
<1>2. Fit(v, u)
  BY <1>1, DataFit
<1>3. Same(t, u)
  BY <1>1, DataIs
<1> HIDE DEF u
<1>4. Opened(v, u, read)
  BY <1>3 DEF Opened, Same, Keeps
<1> QED
  BY <1>2, <1>3, <1>4 DEF Runs, Same, Steady, u

LEMMA OnDataRuns ==
    ASSUME NEW v, IsView(v), NEW t, NEW read, Runs(v, t, read), NEW m, MailIn(v, m),
           NEW st \in Synchronized, st # "LAST_ACK" => Opened(v, t, read)
    PROVE  Runs(v, OnData(t, st, m), read)
<1>1. m.ack \in 0..(SeqSpace - 1)
  BY DEF MailIn, Segments
<1>2. Runs(v, tcp_do_send_rst(t, m.ack), read)
  BY <1>1, AcksRun
<1>3. st \notin {"SYN_RECV", "SYN_SENT"} /\ t.st \in Synchronized
  BY DEF Runs, Synchronized
<1>4. CASE st \in {"ESTABLISHED", "FIN_WAIT1", "FIN_WAIT2"}
  BY <1>3, <1>4, DataRuns DEF OnData
<1>5. CASE st \notin {"ESTABLISHED", "FIN_WAIT1", "FIN_WAIT2"}
  BY <1>2, <1>3, <1>5 DEF OnData, tcp_send_rst
<1> QED
  BY <1>4, <1>5

LEMMA IncRange ==
    ASSUME NEW n \in 0..(SeqSpace - 1)
    PROVE  Inc(n) \in 0..(SeqSpace - 1)
<1>1. n + 1 \in Int
  OBVIOUS
<1> QED
  BY <1>1, SeqRange DEF Inc

(* A FIN that is counted: acknowledgments are no longer those of a stream  *)
(* without FIN.                                                            *)
LEMMA CloseWaitRuns ==
    ASSUME NEW v, IsView(v), NEW t, NEW read, Runs(v, t, read), Opened(v, t, read), NEW m,
           Closers # {}, v.fin # "never"
    PROVE  /\ Runs(v, AckFin(tcp_attempt_closewait(t, m)), read)
           /\ Opened(v, AckFin(tcp_attempt_closewait(t, m)), read)
<1> DEFINE n == Inc(t.rcv_nxt)
           s == IF t.st = "ESTABLISHED" THEN "CLOSE_WAIT" ELSE t.st
           a == [t EXCEPT !.rcv_nxt = n, !.shutR = TRUE, !.st = s]
           b == [t EXCEPT !.rcv_nxt = n, !.remote_closed = TRUE]
           u == tcp_attempt_closewait(t, m)
<1>1. u \in {t, a, b}
  BY DEF tcp_attempt_closewait
<1>2. IsBlock(t) /\ Numbers(t)
  BY RunsCalm
<1>3. n \in 0..(SeqSpace - 1)
  BY <1>2, IncRange DEF Numbers
<1>4. s \in Synchronized /\ t.st \in Synchronized
  BY DEF Runs, Synchronized, States
<1> HIDE DEF n, s, u
<1>5. Moves(t, a) /\ Moves(t, b)
  BY <1>2, <1>3, <1>4 DEF IsBlock, Moves
<1> HIDE DEF a, b
<1>6. Runs(v, u, read) /\ Opened(v, u, read)
  BY <1>1, <1>5, MovesRuns
<1>7. Runs(v, tcp_send_ack(u), read) /\ Same(u, tcp_send_ack(u))
  BY <1>6, AcksRun
<1>8. Opened(v, tcp_send_ack(u), read)
  BY <1>6, <1>7 DEF Opened, Same, Keeps
<1> QED
  BY <1>6, <1>7, <1>8 DEF AckFin, u

LEMMA FinackRuns ==
    ASSUME NEW v, IsView(v), NEW t, NEW read, Runs(v, t, read), Opened(v, t, read),
           Closers # {}, v.fin # "never"
    PROVE  Runs(v, tcp_finack(t), read)
<1> DEFINE n == Inc(t.rcv_nxt)
           a == [t EXCEPT !.rcv_nxt = n]
           b == tcp_send_ack(a)
           u == tcp_linger([b EXCEPT !.st = "TIME_WAIT", !.shutR = TRUE])
<1>1. tcp_finack(t) = u
  BY DEF tcp_finack
<1>2. IsBlock(t) /\ Numbers(t) /\ t.st \in Synchronized
  BY RunsCalm DEF Runs
<1>3. n \in 0..(SeqSpace - 1)
  BY <1>2, IncRange DEF Numbers
<1> HIDE DEF n
<1>4. Moves(t, a)
  BY <1>2, <1>3 DEF IsBlock, Moves
<1> HIDE DEF a
<1>5. Runs(v, a, read) /\ Opened(v, a, read)
  BY <1>4, MovesRuns
<1>6. Runs(v, b, read) /\ Same(a, b)
  BY <1>5, AcksRun
<1> HIDE DEF b
<1>7. Opened(v, b, read)
  BY <1>5, <1>6 DEF Opened, Same, Keeps
<1>8. IsBlock(b) /\ Numbers(b)
  BY <1>6, RunsCalm
<1>9. Moves(b, u) /\ u.rcv_nxt = b.rcv_nxt
  BY <1>8 DEF IsBlock, Moves, Numbers, Synchronized, States, tcp_linger
<1> HIDE DEF u
<1> QED
  BY <1>1, <1>6, <1>7, <1>9, MovesRuns

LEMMA OnFinAckRuns ==
    ASSUME NEW v, IsView(v), NEW t, NEW read, Runs(v, t, read), NEW m, MailIn(v, m),
           m.flags = "FINACK"
    PROVE  Runs(v, OnFinAck(t, m), read)
<1> DEFINE a == tcp_ack(t, m)
<1>1. Closers # {} /\ v.fin # "never" /\ m.data = 0 /\ m.ack \in 0..(SeqSpace - 1)
  BY DEF MailIn, IsView, Segments
<1>2. t.st # "LAST_ACK" => Opened(v, t, read)
  BY RunsCalm
<1>3. Runs(v, a, read) /\ (t.st # "LAST_ACK" => Opened(v, a, read))
  BY <1>2, TcpAckRuns DEF Acknowledges
<1> HIDE DEF a
<1>4. CASE t.st \in {"ESTABLISHED", "CLOSE_WAIT"}
  <2>1. OnFinAck(t, m) = AckFin(tcp_attempt_closewait(a, m))
    BY <1>1, <1>4 DEF OnFinAck, tcp_closewait, a
  <2> QED
    BY <1>1, <1>3, <1>4, <2>1, CloseWaitRuns
<1>5. CASE t.st \in {"LAST_ACK", "CLOSING"}
  <2>1. OnFinAck(t, m) = tcp_do_send_rst(t, m.ack)
    BY <1>5 DEF OnFinAck, tcp_send_rst, Synchronized, States
  <2> QED
    BY <1>1, <2>1, AcksRun
<1>6. CASE t.st \in {"FIN_WAIT1", "FIN_WAIT2"}
  <2>1. OnFinAck(t, m) = tcp_finack(t)
    BY <1>6 DEF OnFinAck
  <2> QED
    BY <1>1, <1>2, <1>6, <2>1, FinackRuns
<1>7. CASE t.st = "TIME_WAIT"
  BY <1>7 DEF OnFinAck
<1>8. t.st \in {"ESTABLISHED", "CLOSE_WAIT", "LAST_ACK", "FIN_WAIT1", "FIN_WAIT2", "CLOSING",
                "TIME_WAIT"}
  BY DEF Runs, Synchronized, States
<1> QED
  BY <1>4, <1>5, <1>6, <1>7, <1>8

(* The reset that answers a segment the state does not take.               *)
LEMMA ReplyMail ==
    ASSUME NEW v, IsView(v), NEW H, NEW m \in Segments
    PROVE  /\ ReplyRst(m) \in Seq(Segments)
           /\ \A i \in DOMAIN ReplyRst(m) :
                 MailOut(v, H, ReplyRst(m)[i]) /\ ReplyRst(m)[i].flags \in {"RST", "RSTACK"}
           /\ m.flags \in {"RST", "RSTACK"} => ReplyRst(m) = <<>>
<1> DEFINE k == Seq32(m.seq + Length(m))
           x == [flags |-> "RST", seq |-> m.ack, ack |-> 0, wnd |-> 0, data |-> 0, sack |-> {}]
           y == [flags |-> "RSTACK", seq |-> 0, ack |-> k, wnd |-> 0, data |-> 0, sack |-> {}]
<1>1. ReplyRst(m) \in {<<>>, <<x>>, <<y>>}
  BY DEF ReplyRst, Segment
<1>2. m.ack \in 0..(SeqSpace - 1) /\ k \in 0..(SeqSpace - 1) /\ 0 \in 0..(SeqSpace - 1)
  <2>1. m.seq \in Int /\ Length(m) \in Int /\ m.ack \in 0..(SeqSpace - 1)
    BY DEF Segments, Length
  <2>2. m.seq + Length(m) \in Int
    BY <2>1
  <2> QED
    BY <2>1, <2>2, SeqRange, TcpAssumption
<1> HIDE DEF k
<1>3. x \in Segments /\ y \in Segments
  BY <1>2 DEF Segments, Flags
<1>4. /\ x.flags = "RST" /\ x.data = 0 /\ x.sack = {}
      /\ y.flags = "RSTACK" /\ y.data = 0 /\ y.sack = {}
  OBVIOUS
<1> HIDE DEF x, y
<1>5. MailOut(v, H, x) /\ MailOut(v, H, y)
  BY <1>3, <1>4 DEF MailOut
<1>6. m.flags \in {"RST", "RSTACK"} => ReplyRst(m) = <<>>
  BY DEF ReplyRst, IsRst
<1>7. /\ <<x>> \in Seq(Segments) /\ DOMAIN <<x>> = {1} /\ <<x>>[1] = x
      /\ <<y>> \in Seq(Segments) /\ DOMAIN <<y>> = {1} /\ <<y>>[1] = y
      /\ <<>> \in Seq(Segments) /\ DOMAIN <<>> = {}
  BY <1>3
<1> QED
  BY <1>1, <1>4, <1>5, <1>6, <1>7

LEMMA HeldBurst ==
    ASSUME NEW v, NEW t, NEW read, Held(v, t, read), NEW q \in Seq(Segments),
           \A i \in DOMAIN q : MailOut(v, Have(v, t.in), q[i]) /\ q[i].flags # "FINACK"
    PROVE  LET u == [t EXCEPT !.tx = @ \o q]
           IN  Held(v, u, read) /\ u.st = t.st /\ u.gone = t.gone /\ u.tx = t.tx \o q
<1> DEFINE u == [t EXCEPT !.tx = @ \o q]
<1>1. IsBlock(t) /\ Numbers(t)
  BY DEF Held, Good
<1>2. /\ Same(t, u) /\ u.tx = t.tx \o q /\ Says(t, u) /\ u.wnd = t.wnd /\ u.sacks = t.sacks
  BY <1>1 DEF IsBlock, Same, Steady, Keeps, Says
<1> HIDE DEF u
<1>3. Numbers(u)
  BY <1>1, <1>2 DEF Numbers, Says, Same, Steady, Keeps
<1>4. Good(v, u)
  BY <1>2, <1>3, GoodBurst DEF Held, Says
<1>5. Talks(u) => Ready(v, u)
  BY <1>2 DEF Held, Talks, Ready, Same, Steady, Says
<1>6. Phase(v, u, read)
  BY <1>2 DEF Held, Phase, Dialling, Waiting, Opened, Botched, Same, Steady, Keeps, Says
<1> QED
  BY <1>2, <1>4, <1>5, <1>6 DEF Held, Same, Steady, u

(* No handler opens a connection anew, and none closes it without deleting *)
(* the socket.                                                             *)
Follows(t, u) ==
    /\ u.st \in {"SYN_SENT", "SYN_RECV"} => u.st = t.st
    /\ u.st # "CLOSED" => t.st # "CLOSED"
    /\ u.st = "CLOSED" => u.gone \/ (t.st = "CLOSED" /\ u.gone = t.gone)

LEMMA RunsFollows ==
    ASSUME NEW v, NEW t, NEW u, NEW read, t.st # "CLOSED", Runs(v, u, read)
    PROVE  Held(v, u, read) /\ Follows(t, u)
BY RunsHeld DEF Runs, Follows, Synchronized

LEMMA DelFollows ==
    ASSUME NEW v, NEW t, NEW read, Held(v, t, read)
    PROVE  LET u == pico_socket_del(t)
           IN  Held(v, u, read) /\ Follows(t, u) /\ u.tx = t.tx /\ u.gone
<1>1. LET u == pico_socket_del(t)
      IN  Held(v, u, read) /\ u.st = "CLOSED" /\ u.gone /\ u.tx = t.tx
  BY DelHeld DEF Held, Phase, Talks
<1> QED
  BY <1>1 DEF Follows

LEMMA RstFollows ==
    ASSUME NEW v, NEW t, NEW read, Held(v, t, read), NEW m
    PROVE  LET u == tcp_rst(t, m) IN Held(v, u, read) /\ Follows(t, u) /\ u.tx = t.tx
<1>1. Follows(t, t)
  BY DEF Follows
<1> QED
  BY <1>1, DelFollows DEF tcp_rst

LEMMA ReplyFollows ==
    ASSUME NEW v, IsView(v), NEW t, NEW read, Held(v, t, read), NEW m \in Segments
    PROVE  LET u == [t EXCEPT !.tx = @ \o ReplyRst(m)]
           IN  /\ Held(v, u, read) /\ Follows(t, u) /\ u.st = t.st /\ u.gone = t.gone
               /\ u.tx = t.tx \o ReplyRst(m)
<1>1. /\ ReplyRst(m) \in Seq(Segments)
      /\ \A i \in DOMAIN ReplyRst(m) :
            MailOut(v, Have(v, t.in), ReplyRst(m)[i]) /\ ReplyRst(m)[i].flags # "FINACK"
  BY ReplyMail
<1>2. LET u == [t EXCEPT !.tx = @ \o ReplyRst(m)]
      IN  Held(v, u, read) /\ u.st = t.st /\ u.gone = t.gone /\ u.tx = t.tx \o ReplyRst(m)
  BY <1>1, HeldBurst
<1> QED
  BY <1>2 DEF Follows

(* The handler that pico_tcp_input calls.                                  *)
LEMMA InputOf ==
    ASSUME NEW t, NEW m, m.flags \in ValidFlags(t.st)
    PROVE  LET u == pico_tcp_input(t, m)
           IN  /\ m.flags = "SYN" => u = OnSyn(t, m)
               /\ m.flags = "SYNACK" => u = OnSynAck(t, m)
               /\ m.flags = "ACK" => u = OnAck(t, m)
               /\ m.flags = "PSHACK" => u = OnData(OnAck(t, m), t.st, m)
               /\ m.flags = "FINACK" => u = OnFinAck(t, m)
               /\ m.flags \in {"RST", "RSTACK"} => u \in {t, tcp_rst(t, m)}
<1>1. m.flags = "SYN" => pico_tcp_input(t, m) = OnSyn(t, m)
  BY DEF pico_tcp_input, IsRst
<1>2. m.flags = "SYNACK" => pico_tcp_input(t, m) = OnSynAck(t, m)
  BY DEF pico_tcp_input, IsRst
<1>3. m.flags = "ACK" => pico_tcp_input(t, m) = OnAck(t, m)
  BY DEF pico_tcp_input, IsRst
<1>4. m.flags = "PSHACK" => pico_tcp_input(t, m) = OnData(OnAck(t, m), t.st, m)
  BY DEF pico_tcp_input, IsRst
<1>5. m.flags = "FINACK" => pico_tcp_input(t, m) = OnFinAck(t, m)
  BY DEF pico_tcp_input, IsRst
<1>6. m.flags \in {"RST", "RSTACK"} => pico_tcp_input(t, m) \in {t, tcp_rst(t, m)}
  BY DEF pico_tcp_input, IsRst
<1> QED
  BY <1>1, <1>2, <1>3, <1>4, <1>5, <1>6

LEMMA InputRuns ==
    ASSUME NEW v, IsView(v), NEW t, NEW read, Runs(v, t, read), NEW m, MailIn(v, m)
    PROVE  LET u == pico_tcp_input(t, m) IN Held(v, u, read) /\ Follows(t, u)
<1> DEFINE u == pico_tcp_input(t, m)
<1>1. Held(v, t, read) /\ t.st \in Synchronized /\ t.st # "CLOSED" /\ Runs(v, t, read)
  BY RunsHeld DEF Runs, Synchronized
<1>2. m \in Segments /\ m.flags \in Flags
  BY DEF MailIn, Segments
<1>3. t.st \in {"ESTABLISHED", "CLOSE_WAIT", "LAST_ACK", "FIN_WAIT1", "FIN_WAIT2", "CLOSING",
                "TIME_WAIT"}
  BY <1>1 DEF Synchronized, States
<1>4. CASE m.flags \notin ValidFlags(t.st)
  BY <1>1, <1>2, <1>4, ReplyFollows DEF pico_tcp_input
<1>5. CASE m.flags \in ValidFlags(t.st)
  <2>1. CASE m.flags = "SYN"
    <3>1. u = OnSyn(t, m) /\ t.st = "ESTABLISHED"
      <4>1. t.st = "ESTABLISHED"
        BY <1>3, <1>5, <2>1 DEF ValidFlags
      <4> QED
        BY <1>5, <2>1, <4>1, InputOf
    <3>2. u = tcp_send_ack(t)
      BY <3>1 DEF OnSyn
    <3> QED
      BY <1>1, <3>2, AcksRun, RunsFollows
  <2>2. CASE m.flags = "SYNACK"
    <3>1. u = OnSynAck(t, m)
      BY <1>5, <2>2, InputOf
    <3>2. u \in {t, tcp_ack(t, m)}
      BY <1>3, <3>1 DEF OnSynAck
    <3>3. Runs(v, tcp_ack(t, m), read)
      BY <2>2, TcpAckRuns DEF Acknowledges
    <3> QED
      BY <1>1, <3>2, <3>3, RunsFollows
  <2>3. CASE m.flags \in {"ACK", "PSHACK"}
    <3> DEFINE a == OnAck(t, m)
    <3>1. \/ Runs(v, a, read) /\ (t.st # "LAST_ACK" => Opened(v, a, read))
          \/ a = pico_socket_del(t)
      BY <2>3, OnAckRuns DEF Acknowledges
    <3>2. LET d == pico_socket_del(t) IN Held(v, d, read) /\ Follows(t, d) /\ d.gone
      BY <1>1, DelFollows
    <3>3. u = a \/ u = OnData(a, t.st, m)
      BY <1>5, <2>3, InputOf
    <3> HIDE DEF a, u
    <3>4. CASE a = pico_socket_del(t)
      BY <3>2, <3>3, <3>4 DEF OnData, u
    <3>5. CASE Runs(v, a, read) /\ (t.st # "LAST_ACK" => Opened(v, a, read))
      <4>1. Runs(v, OnData(a, t.st, m), read)
        BY <1>1, <3>5, OnDataRuns
      <4> QED
        BY <1>1, <3>3, <3>5, <4>1, RunsFollows DEF u
    <3> QED
      BY <3>1, <3>4, <3>5
  <2>4. CASE m.flags = "FINACK"
    <3>1. u = OnFinAck(t, m)
      BY <1>5, <2>4, InputOf
    <3> QED
      BY <1>1, <2>4, <3>1, OnFinAckRuns, RunsFollows
  <2>5. CASE m.flags \in {"RST", "RSTACK"}
    <3>1. u \in {t, tcp_rst(t, m)}
      BY <1>5, <2>5, InputOf
    <3> QED
      BY <1>1, <3>1, RunsFollows, RstFollows
  <2> QED
    BY <1>2, <2>1, <2>2, <2>3, <2>4, <2>5 DEF Flags
<1> QED
  BY <1>4, <1>5

-----------------------------------------------------------------------------
(* The handshake.                                                          *)

LEMMA FirstNumbers ==
    ASSUME NEW v, IsView(v)
    PROVE  /\ Seq32(v.iss) = v.iss /\ Inc(v.iss) = Seq32(v.iss + 1) /\ Dec(Seq32(v.iss + 1)) = v.iss
           /\ Inc(v.riss) = Seq32(v.riss + 1)
           /\ \A H : Seq32(v.riss + 1) \in Acks(v, H)
           /\ v.iss \in 0..(SeqSpace - 1) /\ v.riss \in 0..(SeqSpace - 1) /\ v.iss # 0
           /\ Seq32(v.iss + 1) \in 0..(SeqSpace - 1) /\ Seq32(v.riss + 1) \in 0..(SeqSpace - 1)
<1> USE ViewInts
<1>1. v.iss \in 0..(SeqSpace - 1) /\ v.riss \in 0..(SeqSpace - 1) /\ v.iss # 0
  BY TcpAssumption DEF IsView
<1>2. Seq32(v.iss) = v.iss
  BY <1>1, SeqSmall
<1>3. Inc(v.iss) = Seq32(v.iss + 1) /\ Inc(v.riss) = Seq32(v.riss + 1)
  BY DEF Inc
<1>4. Dec(Seq32(v.iss + 1)) = v.iss
  <2>1. v.iss + 1 \in Int /\ (v.iss + 1) - 1 = v.iss
    OBVIOUS
  <2> QED
    BY <1>2, <2>1, IncSeq
<1>5. ASSUME NEW H PROVE Seq32(v.riss + 1) \in Acks(v, H)
  <2>1. 0 \in {x \in 0..v.rlen : 1..x \subseteq H} /\ v.riss + 1 + 0 = v.riss + 1
    OBVIOUS
  <2> QED
    BY <2>1 DEF Acks
<1>6. Seq32(v.iss + 1) \in 0..(SeqSpace - 1) /\ Seq32(v.riss + 1) \in 0..(SeqSpace - 1)
  <2>1. v.iss + 1 \in Int /\ v.riss + 1 \in Int
    OBVIOUS
  <2> QED
    BY <2>1, SeqRange
<1> QED
  BY <1>1, <1>2, <1>3, <1>4, <1>5, <1>6

(* The window of an empty queue stays as it is.                            *)
LEMMA Still ==
    ASSUME NEW t, t.in = {}, t.wnd = MaxIn
    PROVE  tcp_set_space(t) = t
<1>1. Cardinality(t.in) = 0
  BY FS_EmptySet
<1>2. ~(0 > MaxIn) /\ MaxIn - 0 = MaxIn
  BY TcpAssumption
<1> QED
  BY <1>1, <1>2 DEF tcp_set_space, Resize

LEMMA SynackHeld ==
    ASSUME NEW v, IsView(v), NEW t, Good(v, t), t.st = "SYN_RECV", t.retrans_tmr # "syn",
           t.snd_nxt = v.iss, t.rcv_nxt = Seq32(v.riss + 1), t.out = {}, t.in = {}, t.sacks = {},
           t.wnd = MaxIn, ~t.fin_tmr, ~t.gone
    PROVE  LET u == tcp_send_synack(t) IN Held(v, u, 0) /\ u.st = "SYN_RECV"
<1> DEFINE a == [t EXCEPT !.rcv_processed = t.snd_nxt, !.snd_last = t.snd_nxt]
           m == Segment("SYNACK", a.snd_nxt, a.rcv_nxt, a.wnd, 0, a.sacks)
           n == Inc(v.iss)
           k == IF a.rcv_nxt = 0 THEN a.rcv_ackd ELSE a.rcv_nxt
           p == [a EXCEPT !.tx = Append(@, m)]
           u == [p EXCEPT !.snd_nxt = n, !.rcv_ackd = k, !.sacks = {}]
<1>1. IsBlock(t) /\ Numbers(t)
  BY DEF Good
<1>2. /\ IsBlock(a) /\ Steady(t, a) /\ a.rcv_processed = t.snd_nxt /\ a.snd_last = t.snd_nxt
      /\ Says(t, a) /\ a.sacks = t.sacks /\ a.wnd = t.wnd /\ a.tx = t.tx
      /\ a.shutL = t.shutL /\ a.remote_closed = t.remote_closed
  BY <1>1 DEF IsBlock, Steady, Says
<1>3. tcp_send_synack(t) = u
  <2>1. tcp_set_space(a) = a
    BY <1>2, Still DEF Says
  <2>2. p.snd_nxt = v.iss /\ p.rcv_ackd = a.rcv_ackd
    BY <1>2 DEF Says, IsBlock
  <2>3. tcp_send_synack(t) = [p EXCEPT !.snd_nxt = Inc(p.snd_nxt),
                                        !.rcv_ackd = IF a.rcv_nxt = 0 THEN p.rcv_ackd ELSE a.rcv_nxt,
                                        !.sacks = {}]
    BY <2>1 DEF tcp_send_synack, Put
  <2> QED
    BY <2>2, <2>3
<1> HIDE DEF a
<1>4. Numbers(a)
  BY <1>1, <1>2, FirstNumbers DEF Numbers, Says, Steady
<1>5. Good(v, a)
  BY <1>2, <1>4 DEF Good, Sent, Calm, Says, Steady
<1>6. MailOut(v, Have(v, a.in), m) /\ m.flags = "SYNACK"
  <2>1. m = [flags |-> "SYNACK", seq |-> v.iss, ack |-> Seq32(v.riss + 1), wnd |-> MaxIn,
             data |-> 0, sack |-> {}]
    BY <1>2 DEF Segment, Says
  <2> HIDE DEF m
  <2>2. m \in Segments
    BY <2>1, FirstNumbers, TcpAssumption DEF Segments, Flags
  <2>3. /\ m.flags = "SYNACK" /\ m.seq = v.iss /\ m.ack = Seq32(v.riss + 1) /\ m.data = 0
        /\ m.sack = {}
    BY <2>1
  <2> QED
    BY <2>2, <2>3, FirstNumbers DEF MailOut
<1> HIDE DEF m
<1>7. n = Seq32(v.iss + 1) /\ n \in 0..(SeqSpace - 1)
  BY FirstNumbers
<1> HIDE DEF n, k
<1>8. /\ Same(a, u) /\ u.tx = Append(a.tx, m) /\ u.snd_nxt = n /\ u.rcv_nxt = a.rcv_nxt
      /\ u.out = a.out /\ u.in = a.in /\ u.sacks = {} /\ u.wnd = a.wnd
      /\ u.in_flight = a.in_flight /\ u.cwnd = a.cwnd /\ u.recv_wnd = a.recv_wnd
  BY <1>2 DEF IsBlock, Same, Steady, Keeps
<1> HIDE DEF u
<1>9. Numbers(u)
  BY <1>4, <1>7, <1>8 DEF Numbers, Same, Steady, Keeps
<1>10. Good(v, u)
  BY <1>5, <1>6, <1>8, <1>9, GoodSends
<1>11. Ready(v, u)
  BY <1>2, <1>8, FirstNumbers DEF Ready, Says
<1>12. u.st = "SYN_RECV" /\ u.retrans_tmr = t.retrans_tmr /\ Waiting(v, u)
  BY <1>2, <1>7, <1>8 DEF Waiting, Same, Steady, Keeps, Says
<1>13. Phase(v, u, 0)
  BY <1>12 DEF Phase, Synchronized, Waiting
<1> QED
  BY <1>3, <1>10, <1>11, <1>12, <1>13 DEF Held

LEMMA FirstAckRuns ==
    ASSUME NEW v, IsView(v), NEW t, Held(v, t, 0), t.st = "SYN_RECV", v.len = 0,
           NEW m, MailIn(v, m), m.flags \in {"ACK", "PSHACK"}, m.ack = t.snd_nxt
    PROVE  Runs(v, OnAck(t, m), 0) /\ Opened(v, OnAck(t, m), 0)
<1> DEFINE a == [t EXCEPT !.rcv_processed = t.rcv_nxt]
           b == tcp_ack(a, m)
           u == [b EXCEPT !.st = "ESTABLISHED"]
<1>1. OnAck(t, m) = u
  BY DEF OnAck, tcp_first_ack
<1>2. Good(v, t) /\ Ready(v, t) /\ Waiting(v, t) /\ t.retrans_tmr # "syn" /\ IsBlock(t) /\ Numbers(t)
  BY DEF Held, Talks, Phase, Dialling, Good
<1>3. /\ IsBlock(a) /\ Steady(t, a) /\ a.rcv_processed = t.rcv_nxt /\ a.snd_last = t.snd_last
      /\ Says(t, a) /\ a.sacks = t.sacks /\ a.wnd = t.wnd /\ a.tx = t.tx
      /\ a.shutL = t.shutL /\ a.remote_closed = t.remote_closed
  BY <1>2 DEF IsBlock, Steady, Says
<1> HIDE DEF a
<1>4. Numbers(a)
  BY <1>2, <1>3 DEF Numbers, Says, Steady
<1>5. Fit(v, a)
  <2>1. Good(v, a)
    BY <1>2, <1>3, <1>4 DEF Good, Sent, Calm, Says, Steady
  <2> QED
    BY <1>2, <1>3, <2>1 DEF Fit, Ready, Says
<1>6. Fit(v, b) /\ Sends(a, b)
  BY <1>3, <1>5, TcpAckFit, TcpAckIs DEF Acknowledges
<1> HIDE DEF b
<1>7. /\ b.st = "SYN_RECV" /\ ~b.gone /\ b.retrans_tmr # "syn" /\ Keeps(a, b)
  <2>1. a.st = "SYN_RECV" /\ a.gone = t.gone /\ a.retrans_tmr # "syn"
    BY <1>2, <1>3 DEF Steady
  <2>2. b.st = a.st /\ b.gone = a.gone /\ b.retrans_tmr # "syn" /\ Keeps(a, b)
    BY <1>6, <2>1 DEF Sends, Closes
  <2> QED
    BY <1>2, <2>1, <2>2 DEF Waiting
<1>8. IsBlock(b) /\ Numbers(b) /\ Good(v, b)
  BY <1>6 DEF Fit, Good
<1>9. /\ IsBlock(u) /\ u.st = "ESTABLISHED" /\ u.gone = b.gone /\ u.retrans_tmr = b.retrans_tmr
      /\ Keeps(b, u) /\ Says(b, u) /\ u.sacks = b.sacks /\ u.wnd = b.wnd /\ u.tx = b.tx
      /\ u.fin_tmr = b.fin_tmr
  BY <1>8 DEF IsBlock, Keeps, Says
<1> HIDE DEF u
<1>10. Numbers(u)
  BY <1>8, <1>9 DEF Numbers, Says, Keeps, States
<1>11. Good(v, u)
  BY <1>7, <1>8, <1>9, <1>10 DEF Good, Sent, Calm, Says, Keeps
<1>12. Fit(v, u)
  BY <1>6, <1>9, <1>11 DEF Fit, Ready, Says
<1>13. Opened(v, u, 0)
  <2>1. u.rcv_processed = Seq32(v.riss + 1) /\ u.snd_last = v.iss
    BY <1>2, <1>3, <1>7, <1>9 DEF Keeps, Waiting, Says
  <2>2. v.riss + 1 + 0 = v.riss + 1 /\ v.iss + v.len = v.iss
    BY ViewInts
  <2>3. Seq32(v.iss) = v.iss
    BY FirstNumbers
  <2> QED
    BY <2>1, <2>2, <2>3 DEF Opened
<1>14. Runs(v, u, 0)
  BY <1>7, <1>9, <1>12, <1>13 DEF Runs, Synchronized, States
<1> QED
  BY <1>1, <1>13, <1>14

(* A FIN before the end of the handshake.                                  *)
LEMMA CloseconnRuns ==
    ASSUME NEW v, IsView(v), NEW t, Held(v, t, 0), t.st = "SYN_RECV", Closers # {},
           v.fin # "never", NEW m
    PROVE  tcp_closeconn(t, m) = t \/ Runs(v, tcp_closeconn(t, m), 0)
<1> DEFINE n == Inc(t.rcv_nxt)
           a == [t EXCEPT !.rcv_nxt = n, !.st = "CLOSE_WAIT", !.shutL = TRUE, !.shutR = TRUE]
           u == CheckClosing(a)
<1>1. Good(v, t) /\ Waiting(v, t) /\ t.retrans_tmr # "syn" /\ IsBlock(t) /\ Numbers(t)
  BY DEF Held, Phase, Dialling, Good
<1>2. n \in 0..(SeqSpace - 1)
  BY <1>1, IncRange DEF Numbers
<1>3. tcp_closeconn(t, m) \in {t, pico_tcp_notify_closing(a)}
  BY DEF tcp_closeconn
<1> HIDE DEF n
<1>4. /\ IsBlock(a) /\ a.st = "CLOSE_WAIT" /\ a.rcv_nxt = n /\ a.shutL = TRUE /\ a.shutR = TRUE
      /\ a.gone = t.gone /\ a.retrans_tmr = t.retrans_tmr /\ a.snd_nxt = t.snd_nxt
      /\ a.snd_last = t.snd_last /\ a.in_flight = t.in_flight /\ a.cwnd = t.cwnd /\ a.wnd = t.wnd
      /\ a.recv_wnd = t.recv_wnd /\ a.out = t.out /\ a.in = t.in /\ a.sacks = t.sacks /\ a.tx = t.tx
  BY <1>1 DEF IsBlock
<1> HIDE DEF a
<1>5. Numbers(a)
  BY <1>1, <1>2, <1>4 DEF Numbers, States
<1>6. Fit(v, a)
  BY <1>1, <1>4, <1>5 DEF Fit, Ready, Good, Sent
<1>7. Fit(v, u) /\ u.in = {} /\ u.out = {}
  BY <1>1, <1>4, <1>6, CheckClosingFit DEF Waiting
<1>8. Closes(a, u) /\ u.retrans_tmr = a.retrans_tmr
  BY <1>4, CheckClosingIs
<1>9. u.st = "LAST_ACK"
  <2> DEFINE b == EmitNext(tcp_set_space(a), "FINACK")
             c == [b EXCEPT !.snd_nxt = Inc(@), !.fin_tmr = TRUE]
             e == [a EXCEPT !.missed = @ \union {"fin"}]
  <2>1. u \in {[c EXCEPT !.st = "LAST_ACK"], [e EXCEPT !.st = "LAST_ACK"]}
    BY <1>4 DEF CheckClosing, tcp_send_fin
  <2>2. IsBlock(b)
    BY <1>4, SpaceIs, EmitIs DEF Same, Steady, EmitNext
  <2> HIDE DEF b
  <2>3. [c EXCEPT !.st = "LAST_ACK"].st = "LAST_ACK"
    BY <2>2 DEF IsBlock
  <2>4. [e EXCEPT !.st = "LAST_ACK"].st = "LAST_ACK"
    BY <1>4 DEF IsBlock
  <2> QED
    BY <2>1, <2>3, <2>4
<1>10. pico_tcp_notify_closing(a) = u
  BY <1>1, <1>4 DEF pico_tcp_notify_closing, Waiting
<1> HIDE DEF u
<1>11. Botched(u)
  BY <1>4, <1>7, <1>8, <1>9 DEF Botched, Closes, Keeps, Recalls
<1>12. Runs(v, u, 0)
  BY <1>1, <1>4, <1>7, <1>8, <1>9, <1>11 DEF Runs, Closes, Waiting, Synchronized, States
<1> QED
  BY <1>3, <1>10, <1>12

LEMMA InputWaiting ==
    ASSUME NEW v, IsView(v), NEW t, Held(v, t, 0), t.st = "SYN_RECV", v.len = 0, v.told = "exact",
           NEW m, MailIn(v, m)
    PROVE  LET u == pico_tcp_input(t, m) IN Held(v, u, 0) /\ Follows(t, u)
<1> DEFINE u == pico_tcp_input(t, m)
<1>1. m \in Segments /\ m.flags \in Flags
  BY DEF MailIn, Segments
<1>2. Good(v, t) /\ Waiting(v, t) /\ t.retrans_tmr # "syn" /\ IsBlock(t) /\ Follows(t, t)
  BY DEF Held, Phase, Dialling, Good, Follows
<1>3. CASE m.flags \notin ValidFlags(t.st)
  BY <1>1, <1>3, ReplyFollows DEF pico_tcp_input
<1>4. CASE m.flags \in ValidFlags(t.st)
  <2>1. m.flags \in {"SYN", "ACK", "PSHACK", "FINACK", "RST"}
    BY <1>1, <1>4 DEF ValidFlags, Flags
  <2>2. CASE m.flags = "SYN"
    <3> DEFINE a == [t EXCEPT !.snd_nxt = Dec(@)]
               x == [t EXCEPT !.snd_nxt = v.iss]
    <3>1. m.seq = v.riss
      BY <2>2 DEF MailIn
    <3>2. u = tcp_synrecv_syn(t, m)
      BY <1>4, <2>2, InputOf DEF OnSyn
    <3>3. t.rcv_nxt = Inc(m.seq) /\ Dec(t.snd_nxt) = v.iss
      BY <1>2, <3>1, FirstNumbers DEF Waiting
    <3>4. u = tcp_send_synack(x)
      BY <3>2, <3>3 DEF tcp_synrecv_syn
    <3>5. /\ Same(t, x) /\ x.snd_nxt = v.iss /\ x.rcv_nxt = t.rcv_nxt /\ x.out = t.out /\ x.in = t.in
          /\ x.sacks = t.sacks /\ x.wnd = t.wnd /\ x.tx = t.tx /\ x.in_flight = t.in_flight
          /\ x.cwnd = t.cwnd /\ x.recv_wnd = t.recv_wnd
      BY <1>2 DEF IsBlock, Same, Steady, Keeps
    <3> HIDE DEF x
    <3>6. Numbers(x)
      BY <1>2, <3>5, FirstNumbers DEF Good, Numbers, Same, Steady, Keeps
    <3>7. Good(v, x)
      BY <1>2, <3>5, <3>6, GoodAlike
    <3>8. /\ x.st = "SYN_RECV" /\ x.retrans_tmr # "syn" /\ x.rcv_nxt = Seq32(v.riss + 1)
          /\ x.out = {} /\ x.in = {} /\ x.sacks = {} /\ x.wnd = MaxIn /\ ~x.fin_tmr /\ ~x.gone
      BY <1>2, <3>5 DEF Waiting, Same, Steady
    <3>9. LET w == tcp_send_synack(x) IN Held(v, w, 0) /\ w.st = "SYN_RECV"
      BY <3>5, <3>7, <3>8, SynackHeld
    <3> QED
      BY <3>4, <3>9 DEF Follows
  <2>3. CASE m.flags \in {"ACK", "PSHACK"}
    <3> DEFINE a == OnAck(t, m)
    <3>1. m.ack = t.snd_nxt
      <4>1. PICK r \in {x \in 0..v.len : 1..x \subseteq v.held} : m.ack = Seq32(v.iss + 1 + r)
        BY <2>3 DEF MailIn
      <4>2. r = 0 /\ v.iss + 1 + 0 = v.iss + 1
        BY ViewInts
      <4> QED
        BY <1>2, <4>1, <4>2 DEF Waiting
    <3>2. Runs(v, a, 0) /\ Opened(v, a, 0)
      BY <2>3, <3>1, FirstAckRuns
    <3>3. u = a \/ u = OnData(a, t.st, m)
      BY <1>4, <2>3, InputOf
    <3> HIDE DEF a
    <3>4. OnData(a, t.st, m) = tcp_data_in(a, m)
      BY <3>2 DEF OnData, Runs
    <3>5. Runs(v, u, 0)
      BY <3>2, <3>3, <3>4, DataRuns
    <3> QED
      BY <3>5, RunsFollows
  <2>4. CASE m.flags = "FINACK"
    <3>1. u = tcp_closeconn(t, m)
      BY <1>4, <2>4, InputOf DEF OnFinAck
    <3>2. Closers # {} /\ v.fin # "never"
      BY <2>4 DEF MailIn, IsView
    <3> QED
      BY <1>2, <3>1, <3>2, CloseconnRuns, RunsFollows
  <2>5. CASE m.flags = "RST"
    <3>1. u \in {t, tcp_rst(t, m)}
      BY <1>4, <2>5, InputOf
    <3> QED
      BY <1>2, <3>1, RstFollows
  <2> QED
    BY <2>1, <2>2, <2>3, <2>4, <2>5
<1> QED
  BY <1>3, <1>4

(* What the acknowledgment of a SYN may change: nothing is in flight, and  *)
(* nothing is sent.                                                        *)
Quiet(t, u) ==
    /\ Shifts(t, u) /\ Numbers(u) /\ u.snd_nxt = t.snd_nxt /\ u.gone = t.gone
    /\ t.retrans_tmr # "syn" => u.retrans_tmr # "syn"

LEMMA QuietThenQuiet ==
    ASSUME NEW t, NEW u, NEW w, Quiet(t, u), Quiet(u, w)
    PROVE  Quiet(t, w)
BY DEF Quiet, Shifts, Keeps

LEMMA QuietRelease ==
    ASSUME NEW t, IsBlock(t), Numbers(t), t.out = {}, NEW m \in Segments, NEW acked
    PROVE  Quiet(t, Release(t, m, acked))
<1> DEFINE q == t.out \ Until(t.out, m.ack)
           a == [t EXCEPT !.recv_wnd = m.wnd, !.out = q]
           nxt == IF a.x_mode = BLACKOUT /\ acked > 0 /\ a.out # {} THEN first_segment(a.out).seq
                  ELSE a.snd_nxt
           u == [a EXCEPT !.x_mode = LOOKAHEAD, !.backoff = 0, !.snd_nxt = nxt]
<1>1. q = {} /\ m.wnd \in Nat
  BY DEF Segments
<1>2. Release(t, m, acked) = Resume(a, acked)
  BY DEF Release
<1> HIDE DEF q
<1>3. Quiet(t, a) /\ IsBlock(a) /\ a.out = {}
  <2>1. /\ Shifts(t, a) /\ a.recv_wnd = m.wnd /\ a.snd_nxt = t.snd_nxt /\ a.gone = t.gone
        /\ a.retrans_tmr = t.retrans_tmr /\ a.in_flight = t.in_flight /\ a.cwnd = t.cwnd
    BY <1>1 DEF IsBlock, Shifts, Keeps
  <2> HIDE DEF a
  <2>2. Numbers(a)
    BY <1>1, <2>1 DEF Numbers, Shifts, Keeps
  <2> QED
    BY <2>1, <2>2 DEF Quiet, Shifts
<1> HIDE DEF a
<1>4. Resume(a, acked) \in {a, u}
  BY DEF Resume
<1>5. nxt = a.snd_nxt
  BY <1>3
<1> HIDE DEF nxt
<1>6. Quiet(a, u) /\ Quiet(a, a)
  <2>1. Numbers(a)
    BY <1>3 DEF Quiet
  <2>2. /\ Shifts(a, u) /\ u.recv_wnd = a.recv_wnd /\ u.snd_nxt = nxt /\ u.gone = a.gone
        /\ u.retrans_tmr = a.retrans_tmr /\ u.in_flight = a.in_flight /\ u.cwnd = a.cwnd
    BY <1>3 DEF IsBlock, Shifts, Keeps
  <2> HIDE DEF u
  <2>3. Numbers(u)
    BY <1>5, <2>1, <2>2 DEF Numbers, Shifts, Keeps
  <2> QED
    BY <1>3, <1>5, <2>1, <2>2, <2>3 DEF Quiet, Shifts, Keeps
<1> HIDE DEF u
<1> QED
  BY <1>2, <1>3, <1>4, <1>6, QuietThenQuiet

LEMMA QuietAck ==
    ASSUME NEW t, IsBlock(t), Numbers(t), t.out = {}, t.st = "SYN_SENT", NEW m \in Segments,
           m.flags = "SYNACK"
    PROVE  Quiet(t, tcp_ack(t, m))
<1> DEFINE o == tcp_parse_options(t, m)
           acked == Cardinality(Until(t.out, m.ack))
           e == Release(o, m, acked)
           r == OneLess(e, m, acked)
           j == Judge(r, m, acked)
           c == tcp_congestion_control(j)
           a == add_retransmission_timer(c)
           b == [a EXCEPT !.snd_old_ack = m.ack]
           Fine(u) == Quiet(t, u) /\ IsBlock(u) /\ u.out = {} /\ u.st = "SYN_SENT" /\ Numbers(u)
<1>1. acked = 0
  BY FS_EmptySet DEF Until
<1> HIDE DEF acked
<1>2. ASSUME NEW u, NEW w, Fine(u), Quiet(u, w) PROVE Fine(w)
  BY <1>2, QuietThenQuiet DEF Quiet, Shifts
<1>3. Fine(o)
  <2> DEFINE k == Cardinality({s \in t.out : s.seq \in m.sack})
             q == {IF s \in {x \in t.out : x.seq \in m.sack} THEN [s EXCEPT !.sacked = TRUE] ELSE s :
                      s \in t.out}
             f == IF t.x_mode = LOOKAHEAD THEN t.in_flight
                  ELSE IF t.in_flight > k THEN t.in_flight - k ELSE 0
  <2>1. o = [t EXCEPT !.out = q, !.in_flight = f]
    BY DEF tcp_parse_options
  <2>2. {s \in t.out : s.seq \in m.sack} = {} /\ q = {}
    OBVIOUS
  <2>3. k = 0
    BY <2>2, FS_EmptySet
  <2> HIDE DEF k, q
  <2>4. f \in 0..(MaxCwnd + 1)
    BY <2>3, TcpAssumption DEF Numbers
  <2> HIDE DEF f, o
  <2>5. /\ Shifts(t, o) /\ o.recv_wnd = t.recv_wnd /\ o.snd_nxt = t.snd_nxt /\ o.gone = t.gone
        /\ o.retrans_tmr = t.retrans_tmr /\ o.in_flight = f /\ o.cwnd = t.cwnd
    BY <2>1, <2>2 DEF IsBlock, Shifts, Keeps
  <2>6. Numbers(o)
    BY <2>4, <2>5 DEF Numbers, Shifts, Keeps
  <2> QED
    BY <2>5, <2>6 DEF Quiet, Shifts
<1> HIDE DEF o
<1>4. Fine(e)
  BY <1>2, <1>3, QuietRelease
<1> HIDE DEF e
<1>5. Fine(r)
  <2> DEFINE n == e.in_flight - 1
             x == [e EXCEPT !.in_flight = n]
  <2>1. r = e \/ (e.in_flight > 0 /\ r = x)
    BY DEF OneLess
  <2> HIDE DEF n
  <2>2. /\ Shifts(e, x) /\ x.recv_wnd = e.recv_wnd /\ x.snd_nxt = e.snd_nxt /\ x.gone = e.gone
        /\ x.retrans_tmr = e.retrans_tmr /\ x.in_flight = n /\ x.cwnd = e.cwnd
    BY <1>4 DEF IsBlock, Shifts, Keeps
  <2> HIDE DEF x
  <2>3. e.in_flight > 0 => n \in 0..(MaxCwnd + 1)
    BY <1>4, TcpAssumption DEF Numbers, n
  <2>4. e.in_flight > 0 => Numbers(x)
    BY <1>4, <2>2, <2>3 DEF Numbers, Shifts, Keeps
  <2>5. e.in_flight > 0 => Quiet(e, x)
    BY <2>2, <2>4 DEF Quiet
  <2> QED
    BY <1>2, <1>4, <2>1, <2>5
<1> HIDE DEF r
<1>6. Fine(j)
  <2> DEFINE n == IF acked > r.in_flight THEN 0 ELSE r.in_flight - acked
             x == [r EXCEPT !.x_mode = LOOKAHEAD, !.backoff = 0, !.in_flight = n]
  <2>1. j = x
    BY <1>5 DEF Judge, FreshAck
  <2>2. n \in 0..(MaxCwnd + 1)
    BY <1>1, <1>5, TcpAssumption DEF Numbers
  <2> HIDE DEF n, j
  <2>3. /\ Shifts(r, x) /\ x.recv_wnd = r.recv_wnd /\ x.snd_nxt = r.snd_nxt /\ x.gone = r.gone
        /\ x.retrans_tmr = r.retrans_tmr /\ x.in_flight = n /\ x.cwnd = r.cwnd
    BY <1>5 DEF IsBlock, Shifts, Keeps
  <2> HIDE DEF x
  <2>4. Numbers(x)
    BY <1>5, <2>2, <2>3 DEF Numbers, Shifts, Keeps
  <2>5. Quiet(r, x)
    BY <2>3, <2>4 DEF Quiet
  <2> QED
    BY <1>2, <1>5, <2>1, <2>5
<1>7. AnswerProbe(j, m) = j
  BY DEF AnswerProbe, NoPshNoSyn
<1> HIDE DEF j
<1>8. Fine(c)
  <2> DEFINE g == IF j.cwnd < MaxCwnd THEN j.cwnd + 1 ELSE j.cwnd
             n == j.cwnd_counter + 1
             x == [j EXCEPT !.cwnd = g]
             y == [j EXCEPT !.cwnd = g, !.cwnd_counter = 0]
             z == [j EXCEPT !.cwnd_counter = n]
  <2>1. c \in {j, x, y, z}
    BY DEF tcp_congestion_control
  <2>2. g \in 0..MaxCwnd
    BY <1>6, TcpAssumption DEF Numbers
  <2> HIDE DEF g, n, c
  <2>3. /\ Shifts(j, x) /\ x.recv_wnd = j.recv_wnd /\ x.snd_nxt = j.snd_nxt /\ x.gone = j.gone
        /\ x.retrans_tmr = j.retrans_tmr /\ x.in_flight = j.in_flight /\ x.cwnd = g
    BY <1>6 DEF IsBlock, Shifts, Keeps
  <2>4. /\ Shifts(j, y) /\ y.recv_wnd = j.recv_wnd /\ y.snd_nxt = j.snd_nxt /\ y.gone = j.gone
        /\ y.retrans_tmr = j.retrans_tmr /\ y.in_flight = j.in_flight /\ y.cwnd = g
    BY <1>6 DEF IsBlock, Shifts, Keeps
  <2>5. /\ Shifts(j, z) /\ z.recv_wnd = j.recv_wnd /\ z.snd_nxt = j.snd_nxt /\ z.gone = j.gone
        /\ z.retrans_tmr = j.retrans_tmr /\ z.in_flight = j.in_flight /\ z.cwnd = j.cwnd
    BY <1>6 DEF IsBlock, Shifts, Keeps
  <2> HIDE DEF x, y, z
  <2>6. Numbers(x) /\ Numbers(y) /\ Numbers(z)
    BY <1>6, <2>2, <2>3, <2>4, <2>5 DEF Numbers, Shifts, Keeps
  <2>7. Quiet(j, x) /\ Quiet(j, y) /\ Quiet(j, z)
    BY <2>3, <2>4, <2>5, <2>6 DEF Quiet
  <2> QED
    BY <1>2, <1>6, <2>1, <2>7
<1> HIDE DEF c
<1>9. SendMore(c) = c
  BY <1>8 DEF SendMore, pico_tcp_output, CloseWhenEmpty, CheckClosing
<1>10. Fine(b)
  <2>1. PICK n, k : /\ a = [c EXCEPT !.retrans_tmr = n, !.missed = k]
                    /\ c.retrans_tmr # "syn" => n # "syn"
    <3>1. IsBlock(c)
      BY <1>8 DEF Quiet, Shifts
    <3> QED
      BY <3>1, TimerIs
  <2> DEFINE x == [c EXCEPT !.retrans_tmr = n, !.missed = k]
  <2>7. a = x
    BY <2>1
  <2> HIDE DEF a
  <2>2. /\ Shifts(c, x) /\ x.recv_wnd = c.recv_wnd /\ x.snd_nxt = c.snd_nxt /\ x.gone = c.gone
        /\ x.retrans_tmr = n /\ x.in_flight = c.in_flight /\ x.cwnd = c.cwnd
    BY <1>8 DEF IsBlock, Shifts, Keeps
  <2> HIDE DEF x
  <2>3. Numbers(x)
    BY <1>8, <2>2 DEF Numbers, Shifts, Keeps
  <2>4. Fine(a)
    BY <1>2, <1>8, <2>1, <2>2, <2>3, <2>7 DEF Quiet
  <2>5. /\ Shifts(a, b) /\ b.recv_wnd = a.recv_wnd /\ b.snd_nxt = a.snd_nxt /\ b.gone = a.gone
        /\ b.retrans_tmr = a.retrans_tmr /\ b.in_flight = a.in_flight /\ b.cwnd = a.cwnd
    BY <2>4 DEF IsBlock, Shifts, Keeps
  <2> HIDE DEF b
  <2>6. Numbers(b)
    BY <2>4, <2>5 DEF Numbers, Shifts, Keeps
  <2> QED
    BY <1>2, <2>4, <2>5, <2>6 DEF Quiet
<1>11. tcp_ack(t, m) = b
  BY <1>7, <1>9 DEF tcp_ack, AckSteps, HasAck, o, e, r, j, c, acked
<1> QED
  BY <1>10, <1>11

LEMMA SynackRuns ==
    ASSUME NEW v, IsView(v), NEW t, Held(v, t, 0), t.st = "SYN_SENT", v.len = 0,
           NEW m, MailIn(v, m), m.flags = "SYNACK", m.ack = Inc(t.snd_nxt)
    PROVE  Runs(v, tcp_synack(t, m), 0)
<1> DEFINE k == Inc(m.seq)
           a == [t EXCEPT !.retrans_tmr = "none", !.rcv_nxt = m.seq, !.rcv_processed = k]
           b == tcp_ack(a, m)
           i == Inc(b.rcv_nxt)
           j == Inc(b.snd_nxt)
           c == [b EXCEPT !.st = "ESTABLISHED", !.rcv_nxt = i, !.snd_nxt = j]
<1>1. tcp_synack(t, m) = tcp_send_ack(c)
  BY DEF tcp_synack
<1>2. Good(v, t) /\ Dialling(v, t) /\ IsBlock(t) /\ Numbers(t) /\ ~t.gone
  BY DEF Held, Phase, Good
<1>3. m.seq = v.riss /\ m \in Segments /\ m.seq \in 0..(SeqSpace - 1) /\ k = Seq32(v.riss + 1)
  BY FirstNumbers DEF MailIn
<1> HIDE DEF k
<1>4. /\ IsBlock(a) /\ a.st = "SYN_SENT" /\ a.gone = t.gone /\ a.retrans_tmr = "none"
      /\ a.rcv_nxt = v.riss /\ a.rcv_processed = Seq32(v.riss + 1) /\ a.snd_nxt = t.snd_nxt
      /\ a.snd_last = t.snd_last /\ a.in_flight = t.in_flight /\ a.cwnd = t.cwnd /\ a.wnd = t.wnd
      /\ a.recv_wnd = t.recv_wnd /\ a.out = t.out /\ a.in = t.in /\ a.sacks = t.sacks /\ a.tx = t.tx
      /\ a.fin_tmr = t.fin_tmr /\ a.shutL = t.shutL /\ a.remote_closed = t.remote_closed
  BY <1>2, <1>3 DEF IsBlock
<1> HIDE DEF a
<1>5. Numbers(a)
  BY <1>2, <1>3, <1>4 DEF Numbers
<1>6. Quiet(a, b)
  BY <1>2, <1>3, <1>4, <1>5, QuietAck DEF Dialling
<1> HIDE DEF b
<1>7. /\ IsBlock(b) /\ Numbers(b) /\ b.rcv_nxt = v.riss /\ b.gone = t.gone
      /\ b.retrans_tmr # "syn" /\ b.rcv_processed = Seq32(v.riss + 1) /\ b.snd_last = t.snd_last
      /\ b.out = t.out /\ b.in = t.in /\ b.sacks = t.sacks /\ b.tx = t.tx
      /\ b.fin_tmr = t.fin_tmr /\ b.shutL = t.shutL /\ b.remote_closed = t.remote_closed
  BY <1>4, <1>6 DEF Quiet, Shifts, Keeps
<1>8. i = Seq32(v.riss + 1) /\ i \in 0..(SeqSpace - 1) /\ j \in 0..(SeqSpace - 1)
  BY <1>7, FirstNumbers, IncRange DEF Numbers
<1> HIDE DEF i, j
<1>9. /\ IsBlock(c) /\ c.st = "ESTABLISHED" /\ c.gone = t.gone
      /\ c.retrans_tmr # "syn" /\ c.rcv_processed = Seq32(v.riss + 1) /\ c.snd_last = t.snd_last
      /\ c.out = t.out /\ c.in = t.in /\ c.sacks = t.sacks /\ c.tx = t.tx
      /\ c.fin_tmr = t.fin_tmr /\ c.shutL = t.shutL /\ c.remote_closed = t.remote_closed
      /\ c.rcv_nxt = i /\ c.snd_nxt = j /\ c.in_flight = b.in_flight /\ c.cwnd = b.cwnd
      /\ c.wnd = b.wnd /\ c.recv_wnd = b.recv_wnd
  BY <1>7 DEF IsBlock
<1> HIDE DEF c
<1>10. Numbers(c)
  BY <1>7, <1>8, <1>9 DEF Numbers, States
<1>11. Good(v, c)
  BY <1>2, <1>9, <1>10 DEF Good, Sent, Calm
<1>12. Fit(v, c)
  BY <1>8, <1>9, <1>11, FirstNumbers DEF Fit, Ready
<1>13. Opened(v, c, 0)
  <2>1. c.snd_last = v.iss
    BY <1>2, <1>9 DEF Dialling
  <2>2. v.riss + 1 + 0 = v.riss + 1 /\ v.iss + v.len = v.iss
    BY ViewInts
  <2>3. Seq32(v.iss) = v.iss
    BY FirstNumbers
  <2> QED
    BY <1>9, <2>1, <2>2, <2>3 DEF Opened
<1>14. Runs(v, c, 0)
  BY <1>2, <1>9, <1>12, <1>13 DEF Runs, Synchronized, States
<1> QED
  BY <1>1, <1>14, AcksRun

LEMMA NosyncHeld ==
    ASSUME NEW v, IsView(v), NEW t, Held(v, t, 0), t.st = "SYN_SENT", NEW m \in Segments
    PROVE  LET u == tcp_nosync_rst(t, m) IN Held(v, u, 0) /\ u.st = "SYN_SENT"
<1> DEFINE a == [t EXCEPT !.rcv_ackd = t.rcv_nxt, !.sacks = {}]
           s == IF HasAck(m) THEN m.ack ELSE 0
           k == Seq32(m.seq + Length(m))
           x == Segment("RSTACK", s, k, t.wnd, 0, t.sacks)
           u == [a EXCEPT !.tx = Append(@, x)]
<1>1. Good(v, t) /\ Dialling(v, t) /\ IsBlock(t) /\ Numbers(t)
  BY DEF Held, Phase, Good
<1>2. tcp_set_space(t) = t
  BY <1>1, Still DEF Dialling
<1>3. tcp_nosync_rst(t, m) = u
  BY <1>2 DEF tcp_nosync_rst, Put
<1>4. s \in 0..(SeqSpace - 1) /\ k \in 0..(SeqSpace - 1)
  <2>1. m.seq \in Int /\ Length(m) \in Int /\ m.ack \in 0..(SeqSpace - 1)
    BY DEF Segments, Length
  <2>2. m.seq + Length(m) \in Int
    BY <2>1
  <2> QED
    BY <2>1, <2>2, SeqRange, TcpAssumption
<1> HIDE DEF s, k
<1>5. MailOut(v, Have(v, t.in), x) /\ x.flags = "RSTACK"
  <2>1. x = [flags |-> "RSTACK", seq |-> s, ack |-> k, wnd |-> t.wnd, data |-> 0, sack |-> {}]
    BY <1>1 DEF Segment, Dialling
  <2> HIDE DEF x
  <2>2. x \in Segments
    BY <1>1, <1>4, <2>1 DEF Segments, Flags, Numbers
  <2> QED
    BY <2>1, <2>2 DEF MailOut
<1> HIDE DEF x
<1>6. /\ Same(t, u) /\ Says(t, u) /\ u.sacks = {} /\ u.tx = Append(t.tx, x)
      /\ u.wnd = t.wnd
  BY <1>1 DEF IsBlock, Same, Steady, Keeps, Says
<1> HIDE DEF u
<1>7. Numbers(u)
  BY <1>1, <1>6 DEF Numbers, Says, Same, Steady, Keeps
<1>8. Good(v, u)
  BY <1>1, <1>5, <1>6, <1>7, GoodSends DEF Says
<1>9. Phase(v, u, 0) /\ ~Talks(u)
  BY <1>1, <1>6 DEF Held, Phase, Talks, Dialling, Waiting, Opened, Botched, Same, Steady, Keeps, Says
<1> QED
  BY <1>3, <1>6, <1>8, <1>9 DEF Held, Same, Steady

LEMMA InputDialling ==
    ASSUME NEW v, IsView(v), NEW t, Held(v, t, 0), t.st = "SYN_SENT", v.len = 0,
           NEW m, MailIn(v, m)
    PROVE  LET u == pico_tcp_input(t, m) IN Held(v, u, 0) /\ Follows(t, u)
<1> DEFINE u == pico_tcp_input(t, m)
<1>1. m \in Segments /\ m.flags \in Flags
  BY DEF MailIn, Segments
<1>2. CASE m.flags \notin ValidFlags(t.st)
  BY <1>1, <1>2, ReplyFollows DEF pico_tcp_input
<1>3. CASE m.flags \in ValidFlags(t.st)
  <2>1. m.flags \in {"SYNACK", "RST", "RSTACK"}
    BY <1>3 DEF ValidFlags
  <2>2. CASE m.flags = "SYNACK"
    <3>1. u = tcp_synack(t, m)
      BY <1>3, <2>2, InputOf DEF OnSynAck
    <3>2. CASE m.ack = Inc(t.snd_nxt)
      BY <2>2, <3>1, <3>2, SynackRuns, RunsFollows
    <3>3. CASE m.ack # Inc(t.snd_nxt)
      <4>1. u = tcp_nosync_rst(t, m)
        BY <3>1, <3>3 DEF tcp_synack
      <4> QED
        BY <1>1, <4>1, NosyncHeld DEF Follows
    <3> QED
      BY <3>2, <3>3
  <2>3. CASE m.flags \in {"RST", "RSTACK"}
    <3>1. u \in {t, tcp_rst(t, m)}
      BY <1>3, <2>3, InputOf
    <3> QED
      BY <3>1, RstFollows DEF Follows
  <2> QED
    BY <2>1, <2>2, <2>3
<1> QED
  BY <1>2, <1>3

(* A segment that reaches a socket of the tree.                            *)
LEMMA InputHeld ==
    ASSUME NEW v, IsView(v), NEW t, NEW read, Held(v, t, read), t.st # "CLOSED",
           t.st \in {"SYN_SENT", "SYN_RECV"} => v.len = 0 /\ read = 0,
           t.st = "SYN_RECV" => v.told = "exact",
           NEW m, MailIn(v, m)
    PROVE  LET u == pico_tcp_input(t, m)
           IN  Held(v, u, read) /\ Follows(t, u) /\ (IsRst(m) => u.tx = t.tx)
<1>1. LET u == pico_tcp_input(t, m) IN Held(v, u, read) /\ Follows(t, u)
  <2>1. t.st \in Synchronized \/ t.st \in {"SYN_SENT", "SYN_RECV"}
    BY DEF Held, Good, Numbers, Synchronized
  <2> QED
    BY <2>1, RunsHeld, InputRuns, InputWaiting, InputDialling
<1>2. ASSUME IsRst(m) PROVE pico_tcp_input(t, m).tx = t.tx
  <2>1. m.flags \in {"RST", "RSTACK"} /\ m \in Segments
    BY <1>2 DEF IsRst, MailIn
  <2>2. CASE m.flags \notin ValidFlags(t.st)
    <3>1. t.tx \in Seq(Segments)
      BY DEF Held, Good, Sent
    <3>2. ReplyRst(m) = <<>> /\ t.tx \o <<>> = t.tx
      BY <2>1, <3>1, ReplyMail
    <3> QED
      BY <2>1, <2>2, <3>2, ReplyFollows DEF pico_tcp_input
  <2>3. CASE m.flags \in ValidFlags(t.st)
    <3>1. pico_tcp_input(t, m) \in {t, tcp_rst(t, m)}
      BY <2>1, <2>3, InputOf
    <3> QED
      BY <3>1, RstFollows
  <2> QED
    BY <2>2, <2>3
<1> QED
  BY <1>1, <1>2

-----------------------------------------------------------------------------
(* Timers.                                                                 *)

(* A block that sends its first SYN, or another one.                       *)
Dials(v, t, iss) ==
    /\ Good(v, t) /\ t.st \in {"CLOSED", "SYN_SENT"}
    /\ t.snd_nxt = v.iss \/ (t.snd_nxt = 0 /\ iss = v.iss)
    /\ t.out = {} /\ t.in = {} /\ t.sacks = {} /\ t.wnd = MaxIn /\ ~t.fin_tmr
    /\ t.gone => t.st = "CLOSED"
    /\ "frame" \in t.lack => Dialling(v, t)
AllSyn(q) == \A i \in DOMAIN q : q[i].flags = "SYN"

LEMMA InitconnHeld ==
    ASSUME NEW v, IsView(v), NEW t, NEW read, NEW iss, Dials(v, t, iss)
    PROVE  LET u == pico_tcp_initconn(t, iss)
           IN  /\ Held(v, u, read) /\ u.st = t.st /\ u.gone = t.gone /\ ~u.fin_tmr
               /\ t.tx = <<>> => AllSyn(u.tx)
<1> DEFINE k == t.missed \union {"syn"}
           a == [t EXCEPT !.snd_nxt = v.iss, !.snd_last = v.iss, !.cwnd = IW,
                          !.ssthresh = Ssthresh]
           e == [t EXCEPT !.missed = k]
           f == [a EXCEPT !.retrans_tmr = "none", !.missed = k]
           g == [a EXCEPT !.retrans_tmr = "syn"]
           m == Segment("SYN", v.iss, 0, a.wnd, 0, {})
           u == [g EXCEPT !.tx = Append(@, m)]
           Like(x) ==
              /\ IsBlock(x) /\ x.st = t.st /\ x.gone = t.gone /\ x.fin_tmr = t.fin_tmr
              /\ x.snd_nxt = v.iss /\ x.snd_last = v.iss /\ x.cwnd \in {2, t.cwnd}
              /\ x.rcv_nxt = t.rcv_nxt /\ x.in_flight = t.in_flight /\ x.wnd = t.wnd
              /\ x.recv_wnd = t.recv_wnd /\ x.out = t.out /\ x.in = t.in /\ x.sacks = t.sacks
              /\ x.tx = t.tx /\ x.shutL = t.shutL /\ x.remote_closed = t.remote_closed
<1> USE DEF Dials
<1>1. IsBlock(t) /\ Numbers(t)
  BY DEF Good
<1>2. Like(a) /\ a.missed = t.missed
  BY <1>1 DEF IsBlock, IW
<1>3. \/ "frame" \in t.lack /\ pico_tcp_initconn(t, iss) = e
      \/ pico_tcp_initconn(t, iss) \in {f, u}
  <2>1. tcp_set_space([t EXCEPT !.snd_nxt = v.iss, !.snd_last = v.iss, !.cwnd = IW,
                                !.ssthresh = Ssthresh]) = a
    BY <1>2, Still
  <2>2. (IF t.snd_nxt = 0 THEN iss ELSE t.snd_nxt) = v.iss
    BY FirstNumbers
  <2>3. f = [a EXCEPT !.retrans_tmr = "none", !.missed = @ \union {"syn"}]
    BY <1>2
  <2>4. e = [t EXCEPT !.missed = @ \union {"syn"}] /\ u = Put(g, m)
    BY DEF Put
  <2> HIDE DEF a, e, f, u, m, k
  <2>5. CASE "frame" \in t.lack
    BY <2>4, <2>5 DEF pico_tcp_initconn
  <2>6. CASE "frame" \notin t.lack /\ "timer" \in t.lack
    BY <2>1, <2>2, <2>3, <2>6 DEF pico_tcp_initconn
  <2>7. CASE "frame" \notin t.lack /\ "timer" \notin t.lack
    BY <2>1, <2>2, <2>4, <2>7 DEF pico_tcp_initconn, m
  <2> QED
    BY <2>5, <2>6, <2>7
<1> HIDE DEF a, k
<1>13. Like(f) /\ f.retrans_tmr = "none"
  BY <1>2 DEF IsBlock
<1>14. Like(g) /\ g.retrans_tmr = "syn"
  BY <1>2 DEF IsBlock
<1>15. "frame" \in t.lack => Like(e)
  <2>1. /\ IsBlock(e) /\ e.st = t.st /\ e.gone = t.gone /\ e.fin_tmr = t.fin_tmr
        /\ e.snd_nxt = t.snd_nxt /\ e.snd_last = t.snd_last /\ e.cwnd = t.cwnd
        /\ e.rcv_nxt = t.rcv_nxt /\ e.in_flight = t.in_flight /\ e.wnd = t.wnd
        /\ e.recv_wnd = t.recv_wnd /\ e.out = t.out /\ e.in = t.in /\ e.sacks = t.sacks
        /\ e.tx = t.tx /\ e.shutL = t.shutL /\ e.remote_closed = t.remote_closed
    BY <1>1 DEF IsBlock
  <2> HIDE DEF e
  <2> QED
    BY <2>1 DEF Dialling
<1> HIDE DEF e, f, g
<1>4. ASSUME NEW x, Like(x)
      PROVE  Numbers(x) /\ Good(v, x) /\ Phase(v, x, read) /\ ~Talks(x)
  <2>1. Numbers(x)
    BY <1>1, <1>4, FirstNumbers, TcpAssumption DEF Numbers
  <2>2. Good(v, x)
    BY <1>4, <2>1 DEF Good, Sent, Calm
  <2>3. Dialling(v, x)
    BY <1>4 DEF Dialling
  <2>4. x.st \in {"CLOSED", "SYN_SENT"} /\ (x.gone => x.st = "CLOSED") /\ ~x.fin_tmr
    BY <1>4
  <2> HIDE DEF Like
  <2>5. Phase(v, x, read) /\ ~Talks(x)
    BY <2>3, <2>4 DEF Phase, Talks, Synchronized
  <2> QED
    BY <2>1, <2>2, <2>5
<1>5. ASSUME NEW x, Like(x)
      PROVE  /\ Held(v, x, read) /\ x.st = t.st /\ x.gone = t.gone /\ ~x.fin_tmr
             /\ t.tx = <<>> => AllSyn(x.tx)
  BY <1>4, <1>5 DEF Held, AllSyn
<1>6. MailOut(v, Have(v, g.in), m) /\ m.flags = "SYN" /\ m \in Segments
  <2>1. m = [flags |-> "SYN", seq |-> v.iss, ack |-> 0, wnd |-> MaxIn, data |-> 0, sack |-> {}]
    BY <1>2 DEF Segment
  <2> HIDE DEF m
  <2>2. m \in Segments
    BY <2>1, FirstNumbers, TcpAssumption DEF Segments, Flags
  <2> QED
    BY <2>1, <2>2 DEF MailOut
<1> HIDE DEF m
<1>7. /\ Same(g, u) /\ Says(g, u) /\ u.sacks = g.sacks /\ u.wnd = g.wnd /\ u.tx = Append(g.tx, m)
  BY <1>14 DEF IsBlock, Same, Steady, Keeps, Says
<1> HIDE DEF u
<1>16. Numbers(g) /\ Good(v, g)
  BY <1>4, <1>14
<1>8. Numbers(u)
  BY <1>7, <1>16 DEF Numbers, Says, Same, Steady, Keeps
<1>9. Good(v, u)
  BY <1>6, <1>7, <1>8, <1>16, GoodSends DEF Says
<1>10. u.st = t.st /\ u.gone = t.gone /\ ~u.fin_tmr /\ u.retrans_tmr = "syn" /\ Dialling(v, u)
  BY <1>7, <1>14 DEF Same, Steady, Keeps, Says, Dialling
<1>11. Phase(v, u, read) /\ ~Talks(u)
  BY <1>10 DEF Phase, Talks, Synchronized
<1>12. t.tx = <<>> => AllSyn(u.tx)
  <2>1. t.tx = <<>> => u.tx = <<m>>
    BY <1>6, <1>7, <1>14
  <2> QED
    BY <1>6, <2>1 DEF AllSyn
<1>17. CASE pico_tcp_initconn(t, iss) = u
  BY <1>9, <1>10, <1>11, <1>12, <1>17 DEF Held
<1> HIDE DEF Like
<1> QED
  BY <1>3, <1>5, <1>13, <1>15, <1>17

(* A field that the invariant says nothing about, and the timer.           *)
LEMMA StopsHeld ==
    ASSUME NEW v, NEW t, NEW read, Held(v, t, read)
    PROVE  LET u == [t EXCEPT !.retrans_tmr = "none"]
           IN  /\ Held(v, u, read) /\ Follows(t, u) /\ u.st = t.st /\ u.tx = t.tx
               /\ u.out = t.out /\ u.retrans_tmr = "none"
<1> DEFINE u == [t EXCEPT !.retrans_tmr = "none"]
<1>1. IsBlock(t) /\ Numbers(t)
  BY DEF Held, Good
<1>2. /\ IsBlock(u) /\ u.st = t.st /\ u.gone = t.gone /\ u.fin_tmr = t.fin_tmr
      /\ u.retrans_tmr = "none" /\ Keeps(t, u) /\ Says(t, u)
      /\ u.sacks = t.sacks /\ u.tx = t.tx /\ u.wnd = t.wnd
  BY <1>1 DEF IsBlock, Keeps, Says
<1> HIDE DEF u
<1>3. Numbers(u)
  BY <1>1, <1>2 DEF Numbers, Says, Keeps
<1>4. Good(v, u)
  BY <1>2, <1>3 DEF Held, Good, Sent, Calm, Says, Keeps
<1>5. Talks(u) => Ready(v, u)
  BY <1>2 DEF Held, Talks, Ready, Says
<1>6. Phase(v, u, read)
  BY <1>2 DEF Held, Phase, Dialling, Waiting, Opened, Botched, Keeps, Says
<1> QED
  BY <1>2, <1>4, <1>5, <1>6 DEF Held, Follows, Says, u

LEMMA RetryHeld ==
    ASSUME NEW v, IsView(v), NEW t, NEW read, Held(v, t, read), t.retrans_tmr = "syn"
    PROVE  LET u == initconn_retry(t)
           IN  /\ Held(v, u, read) /\ Follows(t, u) /\ u.st \in {t.st, "CLOSED"} /\ ~u.fin_tmr
               /\ t.tx = <<>> => \A i \in DOMAIN u.tx : u.tx[i].flags = "SYN"
<1> DEFINE a == [t EXCEPT !.retrans_tmr = "stale"]
           n == t.backoff + 1
           b == [t EXCEPT !.retrans_tmr = "stale", !.backoff = n]
<1>1. Good(v, t) /\ Dialling(v, t) /\ IsBlock(t) /\ Numbers(t) /\ (t.gone => t.st = "CLOSED")
  BY DEF Held, Phase, Good
<1>2. initconn_retry(t) \in {pico_socket_del(a), pico_tcp_initconn(b, 0)}
  <2>1. [a EXCEPT !.backoff = @ + 1] = b
    BY <1>1 DEF IsBlock
  <2> QED
    BY <1>1, <2>1 DEF initconn_retry, Dialling
<1> HIDE DEF n
<1>3. /\ IsBlock(a) /\ a.st = t.st /\ a.gone = t.gone /\ a.fin_tmr = t.fin_tmr
      /\ a.retrans_tmr = "stale" /\ Keeps(t, a) /\ Says(t, a)
      /\ a.sacks = t.sacks /\ a.tx = t.tx /\ a.wnd = t.wnd
  BY <1>1 DEF IsBlock, Keeps, Says
<1>4. /\ IsBlock(b) /\ b.st = t.st /\ b.gone = t.gone /\ b.fin_tmr = t.fin_tmr
      /\ Keeps(t, b) /\ Says(t, b) /\ b.sacks = t.sacks /\ b.tx = t.tx /\ b.wnd = t.wnd
  BY <1>1 DEF IsBlock, Keeps, Says
<1> HIDE DEF a, b
<1>5. Numbers(a) /\ Numbers(b)
  BY <1>1, <1>3, <1>4 DEF Numbers, Says, Keeps
<1>6. Good(v, a) /\ Good(v, b)
  BY <1>1, <1>3, <1>4, <1>5 DEF Good, Sent, Calm, Says, Keeps
<1>7. LET u == pico_socket_del(a)
      IN  /\ Held(v, u, read) /\ Follows(t, u) /\ u.st \in {t.st, "CLOSED"} /\ ~u.fin_tmr
          /\ t.tx = <<>> => \A i \in DOMAIN u.tx : u.tx[i].flags = "SYN"
  <2>1. LET u == pico_socket_del(a)
        IN  Held(v, u, read) /\ u.st = "CLOSED" /\ u.gone /\ u.tx = a.tx
    BY <1>1, <1>3, <1>6, DelHeld DEF Dialling
  <2>2. ~pico_socket_del(a).fin_tmr
    BY <1>1, <1>3 DEF Dialling, IsBlock, pico_socket_del
  <2> QED
    BY <1>3, <2>1, <2>2 DEF Follows
<1>8. LET u == pico_tcp_initconn(b, 0)
      IN  /\ Held(v, u, read) /\ Follows(t, u) /\ u.st \in {t.st, "CLOSED"} /\ ~u.fin_tmr
          /\ t.tx = <<>> => \A i \in DOMAIN u.tx : u.tx[i].flags = "SYN"
  <2>1. b.snd_nxt = v.iss /\ v.iss # 0
    BY <1>1, <1>4, FirstNumbers DEF Dialling, Says
  <2>2. LET u == pico_tcp_initconn(b, 0)
        IN  /\ Held(v, u, read) /\ u.st = b.st /\ u.gone = b.gone /\ ~u.fin_tmr
            /\ b.tx = <<>> => \A i \in DOMAIN u.tx : u.tx[i].flags = "SYN"
    <3>1. /\ b.out = {} /\ b.in = {} /\ b.sacks = {} /\ b.wnd = MaxIn /\ ~b.fin_tmr
          /\ (b.gone => b.st = "CLOSED") /\ b.st \in {"CLOSED", "SYN_SENT"} /\ Dialling(v, b)
      BY <1>1, <1>4, <2>1 DEF Dialling, Says, Keeps
    <3>2. Dials(v, b, 0)
      BY <1>6, <2>1, <3>1 DEF Dials
    <3> DEFINE z == pico_tcp_initconn(b, 0)
    <3>3. Held(v, z, read)
      BY <3>2, InitconnHeld
    <3>4. z.st = b.st /\ z.gone = b.gone
      BY <3>2, InitconnHeld
    <3>5. ~z.fin_tmr
      BY <3>2, InitconnHeld
    <3>6. b.tx = <<>> => AllSyn(z.tx)
      BY <3>2, InitconnHeld
    <3> QED
      BY <3>3, <3>4, <3>5, <3>6 DEF AllSyn
  <2> QED
    BY <1>4, <2>2 DEF Follows
<1> QED
  BY <1>2, <1>7, <1>8

LEMMA DeltcbHeld ==
    ASSUME NEW v, IsView(v), NEW t, NEW read, Held(v, t, read), t.fin_tmr
    PROVE  LET u == tcp_deltcb(t) IN Held(v, u, read) /\ Follows(t, u)
<1> DEFINE a == [t EXCEPT !.fin_tmr = FALSE]
           b == tcp_do_send_rst(a, a.snd_nxt)
<1>1. Fit(v, t) /\ IsBlock(t) /\ Numbers(t) /\ t.retrans_tmr # "syn"
  BY DEF Held, Talks, Fit, Good, Phase, Dialling
<1>2. tcp_deltcb(t) \in {pico_socket_del(a), pico_socket_del(b)}
  BY DEF tcp_deltcb
<1>3. /\ IsBlock(a) /\ a.st = t.st /\ a.fin_tmr = FALSE
      /\ a.retrans_tmr = t.retrans_tmr /\ Keeps(t, a) /\ Says(t, a)
      /\ a.sacks = t.sacks /\ a.tx = t.tx /\ a.wnd = t.wnd
  BY <1>1 DEF IsBlock, Keeps, Says
<1> HIDE DEF a
<1>4. Numbers(a)
  BY <1>1, <1>3 DEF Numbers, Says, Keeps
<1>5. Good(v, a)
  BY <1>1, <1>3, <1>4 DEF Fit, Good, Sent, Calm, Says, Keeps
<1>6. Fit(v, a) /\ a.snd_nxt \in 0..(SeqSpace - 1)
  BY <1>1, <1>3, <1>4, <1>5 DEF Fit, Ready, Says, Numbers
<1>7. Fit(v, b) /\ Same(a, b)
  BY <1>3, <1>6, AcksFit, AcksAre
<1> HIDE DEF b
<1>8. ASSUME NEW x \in {a, b}
      PROVE  LET u == pico_socket_del(x) IN Held(v, u, read) /\ Follows(t, u)
  <2>1. Good(v, x) /\ x.retrans_tmr # "syn" /\ Ready(v, x)
    BY <1>1, <1>3, <1>6, <1>7 DEF Fit, Same, Steady
  <2>2. LET u == pico_socket_del(x) IN Held(v, u, read) /\ u.st = "CLOSED" /\ u.gone
    BY <2>1, DelHeld
  <2> QED
    BY <2>2 DEF Follows
<1> QED
  BY <1>2, <1>8

LEMMA RtoRuns ==
    ASSUME NEW v, IsView(v), NEW t, NEW read, Runs(v, t, read), t.out # {}, t.retrans_tmr = "none"
    PROVE  Runs(v, RtoXmit(t), read)
<1> DEFINE w == [t EXCEPT !.x_mode = BLACKOUT, !.cwnd = IW, !.in_flight = 0]
           a == IF t.x_mode = BLACKOUT THEN t ELSE w
           s == first_segment(a.out)
           p == Put(a, DataSegment(a, s))
           n == p.backoff + 1
           q == s.seq
           b == [p EXCEPT !.snd_last_out = q, !.backoff = n]
           d == add_retransmission_timer(b)
           u == Raise(d, q)
<1>1. RtoXmit(t) = u
  BY DEF RtoXmit
<1>2. Fit(v, t) /\ IsBlock(t) /\ Numbers(t)
  BY RunsCalm
<1>3. Fit(v, a) /\ Sends(t, a) /\ a.in = t.in /\ a.out = t.out /\ a.retrans_tmr = "none"
  <2>1. /\ Shifts(t, w) /\ Sends(t, w) /\ w.snd_nxt = t.snd_nxt /\ w.in_flight = 0 /\ w.cwnd = 2
        /\ w.recv_wnd = t.recv_wnd /\ w.retrans_tmr = t.retrans_tmr
    BY <1>2 DEF IsBlock, Shifts, Sends, Closes, Keeps, Recalls, IW
  <2>2. Sends(t, t)
    BY <1>2 DEF Sends, Closes, Keeps, Recalls
  <2> HIDE DEF w
  <2>3. Fit(v, w)
    BY <1>2, <2>1, FitShifts, TcpAssumption DEF Numbers
  <2> QED
    BY <1>2, <2>1, <2>2, <2>3 DEF Shifts
<1> HIDE DEF a
<1>4. s \in a.out /\ q \in 0..(SeqSpace - 1) /\ IsBlock(a)
  BY <1>3, OutQueue DEF Fit, Good
<1> HIDE DEF s, q
<1>5. Fit(v, p) /\ Says(a, p) /\ Same(a, p)
  BY <1>3, <1>4, PutFit, PutIs
<1> HIDE DEF p, n
<1>6. /\ Sends(p, b) /\ Shifts(p, b) /\ b.snd_nxt = p.snd_nxt /\ b.in_flight = p.in_flight
      /\ b.cwnd = p.cwnd /\ b.recv_wnd = p.recv_wnd
  <2>1. IsBlock(p) /\ p.retrans_tmr = "none"
    BY <1>3, <1>5 DEF Same, Steady
  <2> QED
    BY <2>1 DEF IsBlock, Shifts, Sends, Closes, Keeps, Recalls
<1> HIDE DEF b
<1>7. Fit(v, b)
  <2>1. Numbers(p)
    BY <1>5 DEF Fit, Good
  <2> QED
    BY <1>5, <1>6, <2>1, FitShifts DEF Numbers
<1>12. Fit(v, d) /\ Says(b, d)
  BY <1>7, TimerFit
<1>13. Sends(b, d)
  BY <1>7, RetransmissionTimerIs DEF Fit, Good
<1> HIDE DEF d
<1>8. Fit(v, u) /\ u.in = b.in /\ u.out = b.out /\ Same(d, u)
  <2>1. Fit(v, u) /\ u.in = b.in /\ u.out = b.out
    BY <1>4, <1>12, RaiseFit DEF Says
  <2>2. Same(d, u)
    BY <1>12 DEF Fit, Good, IsBlock, Same, Steady, Keeps, Raise
  <2> QED
    BY <2>1, <2>2
<1> HIDE DEF u
<1>9. Sends(t, u)
  BY <1>3, <1>5, <1>6, <1>8, <1>13, SameSends, SendsThenSends
<1>10. u.in = t.in /\ u.out = t.out
  BY <1>3, <1>5, <1>6, <1>8 DEF Says, Shifts
<1>11. Runs(v, u, read)
  BY <1>8, <1>9, <1>10, SendsRuns DEF Botched
<1> QED
  BY <1>1, <1>11

LEMMA ProbeRuns ==
    ASSUME NEW v, IsView(v), NEW t, NEW read, Runs(v, t, read)
    PROVE  Runs(v, add_retransmission_timer([tcp_send_probe(t) EXCEPT !.backoff = @ + 1]), read)
<1> DEFINE p == tcp_send_probe(t)
           n == p.backoff + 1
           q == [p EXCEPT !.backoff = n]
<1>1. Runs(v, p, read)
  BY AcksRun
<1> HIDE DEF p
<1>2. IsBlock(p) /\ Numbers(p) /\ Fit(v, p)
  BY <1>1, RunsCalm
<1>3. [p EXCEPT !.backoff = @ + 1] = q
  OBVIOUS
<1> HIDE DEF n
<1>4. /\ Shifts(p, q) /\ q.snd_nxt = p.snd_nxt /\ q.in_flight = p.in_flight
      /\ q.cwnd = p.cwnd /\ q.recv_wnd = p.recv_wnd /\ q.gone = p.gone
      /\ q.retrans_tmr = p.retrans_tmr
  BY <1>2 DEF IsBlock, Shifts, Keeps
<1> HIDE DEF q
<1>5. Fit(v, q)
  BY <1>2, <1>4, FitShifts DEF Numbers
<1>6. Runs(v, q, read)
  BY <1>1, <1>4, <1>5 DEF Runs, Opened, Botched, Shifts, Keeps
<1>7. IsBlock(q)
  BY <1>5 DEF Fit, Good
<1>8. PICK r, k : /\ add_retransmission_timer(q) = [q EXCEPT !.retrans_tmr = r, !.missed = k]
                  /\ r \in {q.retrans_tmr, "rto"}
  BY <1>7, TimerIs
<1> DEFINE u == [q EXCEPT !.retrans_tmr = r, !.missed = k]
<1>9. /\ Shifts(q, u) /\ u.snd_nxt = q.snd_nxt /\ u.in_flight = q.in_flight
      /\ u.cwnd = q.cwnd /\ u.recv_wnd = q.recv_wnd /\ u.gone = q.gone /\ u.retrans_tmr = r
  BY <1>7 DEF IsBlock, Shifts, Keeps
<1>10. u = add_retransmission_timer(q)
  BY <1>8
<1> HIDE DEF u
<1>11. Fit(v, u)
  BY <1>5, <1>10, TimerFit
<1>12. u.retrans_tmr # "syn"
  BY <1>6, <1>8, <1>9 DEF Runs
<1>13. Runs(v, u, read)
  BY <1>6, <1>9, <1>11, <1>12 DEF Runs, Opened, Botched, Shifts, Keeps
<1> QED
  BY <1>3, <1>10, <1>13 DEF p

(* The connection is given up, and its queue freed.                        *)
LEMMA GiveUpHeld ==
    ASSUME NEW v, NEW t, NEW read, Held(v, t, read), t.retrans_tmr = "none"
    PROVE  LET u == pico_socket_del([t EXCEPT !.out = {}])
           IN  Held(v, u, read) /\ Follows(t, u)
<1> DEFINE a == [t EXCEPT !.out = {}]
           u == pico_socket_del(a)
<1>1. IsBlock(t) /\ Good(v, t) /\ Numbers(t) /\ (t.fin_tmr => Ready(v, t))
  BY DEF Held, Good, Talks
<1>2. IsBlock(a) /\ Keeps(t, a)
  BY <1>1 DEF IsBlock, Keeps
<1>3. /\ IsBlock(u) /\ u.st = "CLOSED" /\ u.gone = TRUE /\ u.shutL = FALSE
      /\ u.snd_nxt = t.snd_nxt /\ u.snd_last = t.snd_last /\ u.rcv_nxt = t.rcv_nxt
      /\ u.in_flight = t.in_flight /\ u.cwnd = t.cwnd /\ u.wnd = t.wnd /\ u.recv_wnd = t.recv_wnd
      /\ u.out = {} /\ u.in = t.in /\ u.sacks = t.sacks /\ u.tx = t.tx
      /\ u.fin_tmr = t.fin_tmr /\ u.retrans_tmr = t.retrans_tmr /\ u.remote_closed = t.remote_closed
  BY <1>1 DEF IsBlock, pico_socket_del
<1> HIDE DEF u
<1>4. Numbers(u)
  BY <1>1, <1>3 DEF Numbers, States
<1>5. OutOK(v, {})
  BY FS_EmptySet DEF OutOK
<1>6. Good(v, u)
  BY <1>1, <1>3, <1>4, <1>5 DEF Good, Sent, Calm
<1>7. Talks(u) => Ready(v, u)
  BY <1>1, <1>3 DEF Talks, Ready
<1>8. Phase(v, u, read)
  BY <1>3 DEF Phase, Synchronized
<1> QED
  BY <1>3, <1>6, <1>7, <1>8 DEF Held, Follows, u

LEMMA TimeoutHeld ==
    ASSUME NEW v, IsView(v), NEW t, NEW read, Held(v, t, read), t.retrans_tmr = "rto"
    PROVE  LET u == tcp_retrans_timeout(t) IN Held(v, u, read) /\ Follows(t, u)
<1> DEFINE a == [t EXCEPT !.retrans_tmr = "none"]
           allowed == a.st \in {"ESTABLISHED", "CLOSE_WAIT"} /\ a.backoff < MaxRetrans
           u == tcp_retrans_timeout(t)
<1>2. /\ Held(v, a, read) /\ Follows(t, a) /\ a.st = t.st /\ a.tx = t.tx
      /\ a.out = t.out /\ a.retrans_tmr = "none"
  BY StopsHeld
<1>3. \/ u = a
      \/ allowed /\ a.out # {} /\ u = add_retransmission_timer([tcp_send_probe(a) EXCEPT !.backoff = @ + 1])
      \/ allowed /\ a.out # {} /\ u = RtoXmit(a)
      \/ u = pico_socket_del([a EXCEPT !.out = {}])
  BY DEF tcp_retrans_timeout
<1> HIDE DEF a, u
<1>4. allowed => Runs(v, a, read) /\ t.st # "CLOSED"
  BY <1>2, RunsHeld DEF Synchronized, States
<1>5. CASE u = a
  BY <1>2, <1>5 DEF u
<1>6. CASE allowed /\ a.out # {} /\ u = add_retransmission_timer([tcp_send_probe(a) EXCEPT !.backoff = @ + 1])
  BY <1>4, <1>6, ProbeRuns, RunsFollows DEF u
<1>7. CASE allowed /\ a.out # {} /\ u = RtoXmit(a)
  BY <1>2, <1>4, <1>7, RtoRuns, RunsFollows DEF u
<1>8. CASE u = pico_socket_del([a EXCEPT !.out = {}])
  <2>1. LET w == pico_socket_del([a EXCEPT !.out = {}]) IN Held(v, w, read) /\ Follows(a, w)
    BY <1>2, GiveUpHeld
  <2> QED
    BY <1>2, <1>8, <2>1 DEF Follows, u
<1> QED
  BY <1>3, <1>5, <1>6, <1>7, <1>8

-----------------------------------------------------------------------------
(* A view that says more of the streams and less of the segments.          *)
Widens(v, w) ==
    /\ w.iss = v.iss /\ w.base = v.base /\ w.riss = v.riss /\ w.rbase = v.rbase
    /\ v.len <= w.len /\ v.rlen <= w.rlen
    /\ v.had \subseteq w.had /\ v.held \subseteq w.held
    /\ w.fin = "never" => v.fin = "never"
    /\ w.told = "exact" => v.told = "exact"

LEMMA WidenHave ==
    ASSUME NEW v, IsView(v), NEW w, IsView(w), Widens(v, w)
    PROVE  /\ \A q : Have(v, q) \subseteq Have(w, q)
           /\ \A H : Acks(v, H) \subseteq Acks(w, H) /\ Sacks(v, H) = Sacks(w, H)
<1>1. v.rlen \in Nat /\ w.rlen \in Nat /\ v.rlen <= w.rlen /\ w.riss = v.riss /\ w.rbase = v.rbase
  BY ViewInts DEF Widens
<1>2. 1..v.rlen \subseteq 1..w.rlen /\ 0..v.rlen \subseteq 0..w.rlen
  BY <1>1
<1>3. \A k : InUnit(v, k) = InUnit(w, k)
  BY <1>1 DEF InUnit
<1>4. ASSUME NEW q PROVE Have(v, q) \subseteq Have(w, q)
  BY <1>2, <1>3 DEF Have, Widens
<1>5. ASSUME NEW H, NEW x \in Acks(v, H) PROVE x \in Acks(w, H)
  <2>1. PICK r \in {y \in 0..v.rlen : 1..y \subseteq H} : x = Seq32(v.riss + 1 + r)
    BY <1>5 DEF Acks
  <2>2. r \in {y \in 0..w.rlen : 1..y \subseteq H}
    BY <1>2
  <2> QED
    BY <1>1, <2>1, <2>2 DEF Acks
<1>6. ASSUME NEW H PROVE Sacks(v, H) = Sacks(w, H)
  BY <1>1 DEF Sacks
<1> QED
  BY <1>4, <1>5, <1>6

LEMMA WidenMailOut ==
    ASSUME NEW v, IsView(v), NEW w, IsView(w), Widens(v, w), NEW H, NEW G, H \subseteq G, NEW m,
           MailOut(v, H, m)
    PROVE  MailOut(w, G, m)
<1>1. MailOut(v, G, m)
  BY MailMore
<1>2. Acks(v, G) \subseteq Acks(w, G) /\ Sacks(v, G) = Sacks(w, G)
  BY WidenHave
<1>3. 1..v.len \subseteq 1..w.len
  BY ViewInts DEF Widens
<1>4. m.data # 0 => \E k \in 1..w.len : m.seq = Seq32(w.iss + k) /\ m.data = w.base + k
  BY <1>1, <1>3 DEF MailOut, Widens
<1> QED
  BY <1>1, <1>2, <1>4 DEF MailOut, Widens

LEMMA WidenMailIn ==
    ASSUME NEW v, IsView(v), NEW w, IsView(w), Widens(v, w), NEW m, MailIn(v, m)
    PROVE  MailIn(w, m)
<1>1. 1..v.rlen \subseteq 1..w.rlen /\ 0..v.len \subseteq 0..w.len
  BY ViewInts DEF Widens
<1>2. m.data # 0 => \E k \in 1..w.rlen : m.seq = Seq32(w.riss + k) /\ m.data = w.rbase + k
  BY <1>1 DEF MailIn, Widens
<1>3. ASSUME NEW x \in m.sack PROVE x \in {Seq32(w.iss + k) : k \in w.held}
  <2>1. PICK k \in v.held : x = Seq32(v.iss + k)
    BY <1>3 DEF MailIn
  <2> QED
    BY <2>1 DEF Widens
<1>4. ASSUME w.told = "exact", m.flags \in {"SYNACK", "ACK", "PSHACK"}
      PROVE  m.ack \in {Seq32(w.iss + 1 + r) : r \in {x \in 0..w.len : 1..x \subseteq w.held}}
  <2>1. PICK r \in {x \in 0..v.len : 1..x \subseteq v.held} : m.ack = Seq32(v.iss + 1 + r)
    BY <1>4 DEF MailIn, Widens
  <2>2. r \in {x \in 0..w.len : 1..x \subseteq w.held}
    BY <1>1 DEF Widens
  <2> QED
    BY <2>1, <2>2 DEF Widens
<1> QED
  BY <1>2, <1>3, <1>4 DEF MailIn, Widens

LEMMA WidenQueues ==
    ASSUME NEW v, IsView(v), NEW w, IsView(w), Widens(v, w)
    PROVE  /\ \A q : OutOK(v, q) => OutOK(w, q)
           /\ \A q : InOK(v, q) => InOK(w, q)
<1>1. 1..v.rlen \subseteq 1..w.rlen /\ 1..v.len \subseteq 1..w.len
  BY ViewInts DEF Widens
<1>2. \A s, k : IsOut(v, s, k) => IsOut(w, s, k)
  BY DEF IsOut, Widens
<1>3. \A k : InUnit(v, k) = InUnit(w, k)
  BY DEF InUnit, Widens
<1> QED
  BY <1>1, <1>2, <1>3 DEF OutOK, InOK

LEMMA WidenGood ==
    ASSUME NEW v, IsView(v), NEW w, IsView(w), Widens(v, w), NEW t, Good(v, t),
           t.st # "CLOSED" => w.has \subseteq Have(w, t.in),
           Closers = {} /\ t.st # "CLOSED" => Covers(w, t.out)
    PROVE  Good(w, t)
<1>1. OutOK(w, t.out) /\ InOK(w, t.in)
  BY WidenQueues DEF Good
<1>2. Have(v, t.in) \subseteq Have(w, t.in)
  BY WidenHave
<1>3. t.sacks \subseteq Sacks(w, Have(w, t.in))
  <2>1. t.sacks \subseteq Sacks(v, Have(v, t.in))
    BY DEF Good
  <2>2. Sacks(v, Have(v, t.in)) = Sacks(w, Have(v, t.in))
    BY WidenHave
  <2>3. Sacks(w, Have(v, t.in)) \subseteq Sacks(w, Have(w, t.in))
    BY <1>2, AcksMore
  <2> QED
    BY <2>1, <2>2, <2>3
<1>4. Sent(w, t)
  BY <1>2, WidenMailOut DEF Good, Sent
<1> QED
  BY <1>1, <1>3, <1>4 DEF Good

LEMMA WidenReady ==
    ASSUME NEW v, IsView(v), NEW w, IsView(w), Widens(v, w), NEW t, Ready(v, t)
    PROVE  Ready(w, t)
<1>1. Have(v, t.in) \subseteq Have(w, t.in)
  BY WidenHave
<1>2. Acks(v, Have(v, t.in)) \subseteq Acks(w, Have(w, t.in))
  BY <1>1, WidenHave, AcksMore
<1> QED
  BY <1>2 DEF Ready, Widens

LEMMA WidenPhase ==
    ASSUME NEW v, NEW w, Widens(v, w), w.len = v.len, NEW t, NEW read
    PROVE  Phase(v, t, read) => Phase(w, t, read)
BY DEF Phase, Dialling, Waiting, Opened, Widens

LEMMA WidenHeld ==
    ASSUME NEW v, IsView(v), NEW w, IsView(w), Widens(v, w), w.len = v.len, NEW t, NEW read,
           Held(v, t, read), t.st # "CLOSED" => w.has \subseteq Have(w, t.in)
    PROVE  Held(w, t, read)
<1>1. ASSUME Closers = {}, t.st # "CLOSED" PROVE Covers(w, t.out)
  BY <1>1 DEF Held, Good, Covers, Widens
<1>2. Good(w, t)
  BY <1>1, WidenGood DEF Held
<1> QED
  BY <1>2, WidenReady, WidenPhase DEF Held

-----------------------------------------------------------------------------
(* Calls of the application, and the sockets loop.                         *)

LEMMA OutputHeld ==
    ASSUME NEW v, IsView(v), NEW t, NEW read, Held(v, t, read), t.st # "CLOSED", NEW score \in Int
    PROVE  LET u == pico_tcp_output(t, score)
           IN  Held(v, u, read) /\ Follows(t, u) /\ (t.st \notin Synchronized => u = t)
<1>1. CASE t.st \in Synchronized
  <2> DEFINE u == pico_tcp_output(t, score)
  <2>1. Runs(v, t, read) /\ Fit(v, t) /\ IsBlock(t)
    BY <1>1, RunsHeld, RunsCalm
  <2>2. Fit(v, u) /\ u.in = t.in /\ u.out = t.out /\ Sends(t, u)
    BY <2>1, OutputFit, OutputIs
  <2> HIDE DEF u
  <2>3. Runs(v, u, read)
    BY <2>1, <2>2, SendsRuns DEF Botched
  <2> QED
    BY <1>1, <2>3, RunsFollows DEF u
<1>2. CASE t.st \notin Synchronized
  <2>1. t.st \in {"SYN_SENT", "SYN_RECV"}
    BY <1>2 DEF Held, Good, Numbers, Synchronized
  <2>2. t.out = {}
    BY <2>1 DEF Held, Phase, Dialling, Waiting
  <2>3. pico_tcp_output(t, score) = t
    BY <2>1, <2>2 DEF pico_tcp_output, CloseWhenEmpty, CheckClosing
  <2> QED
    BY <2>3 DEF Follows
<1> QED
  BY <1>1, <1>2

LEMMA ShutHeld ==
    ASSUME NEW v, NEW t, NEW read, Held(v, t, read), Closers # {},
           NEW x \in {t.shutL, TRUE}, NEW y \in {t.shutR, TRUE}
    PROVE  LET u == [t EXCEPT !.shutL = x, !.shutR = y]
           IN  /\ Held(v, u, read) /\ Follows(t, u) /\ u.st = t.st /\ u.tx = t.tx
               /\ u.fin_tmr = t.fin_tmr
<1> DEFINE u == [t EXCEPT !.shutL = x, !.shutR = y]
<1>1. IsBlock(t) /\ Numbers(t)
  BY DEF Held, Good
<1>2. /\ IsBlock(u) /\ Steady(t, u) /\ u.shutL = x /\ u.shutR = y /\ u.sacks = t.sacks /\ u.tx = t.tx
      /\ u.rcv_processed = t.rcv_processed /\ u.snd_last = t.snd_last /\ u.wnd = t.wnd /\ Says(t, u)
  BY <1>1 DEF IsBlock, Steady, Says
<1> HIDE DEF u
<1>3. Numbers(u)
  BY <1>1, <1>2 DEF Numbers, Says, Steady
<1>4. Good(v, u)
  BY <1>2, <1>3 DEF Held, Good, Sent, Says, Steady
<1>5. Talks(u) => Ready(v, u)
  BY <1>2 DEF Held, Talks, Ready, Says, Steady
<1>6. Phase(v, u, read)
  BY <1>2 DEF Held, Phase, Dialling, Waiting, Opened, Botched, Says, Steady
<1> QED
  BY <1>2, <1>4, <1>5, <1>6 DEF Held, Follows, Steady, u

LEMMA ClosingHeld ==
    ASSUME NEW v, IsView(v), NEW t, NEW read, Held(v, t, read), t.st # "CLOSED", Closers # {}
    PROVE  LET u == pico_tcp_notify_closing(t)
           IN  Held(v, u, read) /\ Follows(t, u) /\ (t.st = "SYN_SENT" => u = t)
<1> DEFINE c == CheckClosing(t)
<1>1. pico_tcp_notify_closing(t) \in {t, c}
  BY DEF pico_tcp_notify_closing
<1>2. Follows(t, t)
  BY DEF Follows
<1>3. CASE t.st \notin {"ESTABLISHED", "CLOSE_WAIT"}
  BY <1>1, <1>2, <1>3 DEF CheckClosing
<1>4. CASE t.st \in {"ESTABLISHED", "CLOSE_WAIT"}
  <2>1. Runs(v, t, read) /\ Fit(v, t) /\ IsBlock(t)
    BY <1>4, RunsHeld, RunsCalm DEF Synchronized, States
  <2>2. Fit(v, c) /\ c.in = t.in /\ c.out = t.out
    BY <2>1, CheckClosingFit
  <2>3. Sends(t, c)
    BY <2>1, CheckClosingIs DEF Sends
  <2> HIDE DEF c
  <2>4. Runs(v, c, read)
    BY <2>1, <2>2, <2>3, SendsRuns DEF Botched
  <2> QED
    BY <1>1, <1>2, <1>4, <2>4, RunsFollows
<1> QED
  BY <1>3, <1>4

LEMMA ShutdownHeld ==
    ASSUME NEW v, IsView(v), NEW t, NEW read, Held(v, t, read), t.st # "CLOSED", Closers # {}
    PROVE  LET a == [t EXCEPT !.shutR = TRUE]
               b == pico_socket_shutdown_wr(t)
               c == pico_socket_close(t)
           IN  \A u \in {a, b, c} :
                  Held(v, u, read) /\ Follows(t, u)
                  /\ (t.st = "SYN_SENT" => u.st = t.st /\ u.tx = t.tx /\ u.fin_tmr = t.fin_tmr)
<1> DEFINE x == [t EXCEPT !.shutL = TRUE]
           y == [t EXCEPT !.shutR = TRUE]
           z == [t EXCEPT !.shutL = TRUE, !.shutR = TRUE]
           Fine(u) == /\ Held(v, u, read) /\ Follows(t, u)
                      /\ (t.st = "SYN_SENT" => u.st = t.st /\ u.tx = t.tx /\ u.fin_tmr = t.fin_tmr)
<1>1. IsBlock(t)
  BY DEF Held, Good
<1>2. x = [t EXCEPT !.shutL = TRUE, !.shutR = t.shutR] /\ y = [t EXCEPT !.shutL = t.shutL, !.shutR = TRUE]
  BY <1>1 DEF IsBlock
<1>3. \A u \in {x, y, z} : Fine(u) /\ u.st = t.st
  <2>1. ASSUME NEW p \in {t.shutL, TRUE}, NEW q \in {t.shutR, TRUE}
        PROVE  LET u == [t EXCEPT !.shutL = p, !.shutR = q] IN Fine(u) /\ u.st = t.st
    BY ShutHeld
  <2>2. Fine(x) /\ x.st = t.st
    BY <1>2, <2>1
  <2>3. Fine(y) /\ y.st = t.st
    BY <1>2, <2>1
  <2>4. Fine(z) /\ z.st = t.st
    BY <2>1
  <2> HIDE DEF Fine, x, y, z
  <2> QED
    BY <2>2, <2>3, <2>4
<1> HIDE DEF x, y, z
<1>4. ASSUME NEW u \in {x, z} PROVE Fine(pico_tcp_notify_closing(u))
  <2>1. Held(v, u, read) /\ Follows(t, u) /\ u.st = t.st
        /\ (t.st = "SYN_SENT" => u.st = t.st /\ u.tx = t.tx /\ u.fin_tmr = t.fin_tmr)
    BY <1>3
  <2>2. LET w == pico_tcp_notify_closing(u)
        IN  Held(v, w, read) /\ Follows(u, w) /\ (u.st = "SYN_SENT" => w = u)
    BY <2>1, ClosingHeld
  <2> QED
    BY <2>1, <2>2 DEF Follows
<1>5. Fine(y) /\ Fine(pico_socket_shutdown_wr(t)) /\ Fine(pico_socket_close(t))
  BY <1>3, <1>4 DEF pico_socket_shutdown_wr, pico_socket_close, x, z
<1> QED
  BY <1>5 DEF y

(* The units of one write get the next numbers of the stream.              *)
LEMMA PushRuns ==
    ASSUME NEW v, IsView(v), NEW w, IsView(w), Widens(v, w), NEW count \in Nat,
           w.len = v.len + count, w.has = v.has,
           NEW t, NEW read, Runs(v, t, read), Opened(v, t, read)
    PROVE  LET u == pico_tcp_push(t, count, v.base + v.len)
           IN  Runs(w, u, read) /\ u.tx = t.tx
<1> DEFINE unit(i) == [seq |-> Seq32(t.snd_last + i), data |-> v.base + v.len + i, sacked |-> FALSE]
           new == {unit(i) : i \in 1..count}
           q == t.out \union new
           n == Seq32(t.snd_last + count)
           u == [t EXCEPT !.out = q, !.snd_last = n]
<1>1. pico_tcp_push(t, count, v.base + v.len) = u
  BY DEF pico_tcp_push
<1>2. Fit(v, t) /\ IsBlock(t) /\ Numbers(t) /\ t.st # "CLOSED"
  BY RunsCalm DEF Runs, Synchronized
<1>3. /\ v.iss \in Int /\ v.len \in Nat /\ v.base \in Nat /\ w.iss = v.iss /\ w.base = v.base
      /\ v.held \subseteq w.held
  BY ViewInts DEF Widens
<1>4. ASSUME NEW i \in Nat PROVE Seq32(t.snd_last + i) = Seq32(v.iss + (v.len + i))
  <2>1. t.snd_last = Seq32(v.iss + v.len)
    BY DEF Opened
  <2>2. v.iss + v.len \in Int /\ i \in Int
    BY <1>3
  <2>3. Seq32(Seq32(v.iss + v.len) + i) = Seq32(v.iss + v.len + i)
    BY <2>2, SeqAdd
  <2>4. v.iss + v.len + i = v.iss + (v.len + i)
    BY <1>3
  <2> QED
    BY <2>1, <2>3, <2>4
<1>5. ASSUME NEW i \in 1..count
      PROVE  /\ v.len + i \in 1..w.len /\ IsOut(w, unit(i), v.len + i)
             /\ unit(i).data = v.base + (v.len + i)
  <2>1. i \in Nat /\ v.len + i \in 1..w.len /\ v.base + v.len + i = v.base + (v.len + i)
    BY <1>3
  <2>2. Seq32(t.snd_last + i) = Seq32(v.iss + (v.len + i))
    BY <1>4, <2>1
  <2> QED
    BY <1>3, <2>1, <2>2 DEF IsOut
<1>6. IsFiniteSet(new)
  <2> DEFINE f == [i \in 1..count |-> unit(i)]
  <2>1. IsFiniteSet(1..count)
    BY FS_Interval
  <2>2. f \in Surjection(1..count, new)
    BY DEF Surjection
  <2> QED
    BY <2>1, <2>2, FS_Surjection
<1>7. OutOK(w, q)
  <2>1. OutOK(w, t.out)
    BY <1>2, WidenQueues DEF Fit, Good
  <2>2. \A s \in new : \E k \in 1..w.len : IsOut(w, s, k)
    BY <1>5
  <2>3. IsFiniteSet(q)
    BY <1>6, <2>1, FS_Union DEF OutOK
  <2> HIDE DEF new
  <2> QED
    BY <2>1, <2>2, <2>3 DEF OutOK
<1>8. ASSUME Covers(v, t.out) PROVE Covers(w, q)
  <2> SUFFICES ASSUME NEW k \in 1..w.len
               PROVE  k \in w.held \/ \E s \in q : s.data = w.base + k
    BY DEF Covers
  <2>1. CASE k <= v.len
    <3>1. k \in 1..v.len
      BY <1>3, <2>1
    <3> QED
      BY <1>3, <1>8, <3>1 DEF Covers
  <2>2. CASE k > v.len
    <3> DEFINE i == k - v.len
    <3>1. i \in 1..count /\ v.len + i = k
      BY <1>3, <2>2
    <3>2. unit(i) \in q /\ unit(i).data = w.base + k
      BY <1>3, <1>5, <3>1
    <3> QED
      BY <3>2
  <2> QED
    BY <1>3, <2>1, <2>2
<1>9. n = Seq32(w.iss + w.len) /\ n \in 0..(SeqSpace - 1)
  <2>1. v.iss + (v.len + count) \in Int
    BY <1>3
  <2> QED
    BY <1>3, <1>4, <2>1, SeqRange
<1> HIDE DEF q, n
<1>10. /\ IsBlock(u) /\ Steady(t, u) /\ u.out = q /\ u.snd_last = n /\ u.in = t.in
       /\ u.snd_nxt = t.snd_nxt /\ u.rcv_nxt = t.rcv_nxt /\ u.rcv_processed = t.rcv_processed
       /\ u.in_flight = t.in_flight /\ u.cwnd = t.cwnd /\ u.wnd = t.wnd /\ u.recv_wnd = t.recv_wnd
       /\ u.sacks = t.sacks /\ u.tx = t.tx /\ u.shutL = t.shutL /\ u.remote_closed = t.remote_closed
  BY <1>2 DEF IsBlock, Steady
<1> HIDE DEF u
<1>11. Numbers(u)
  BY <1>2, <1>9, <1>10 DEF Numbers, Steady
<1>12. Have(v, t.in) \subseteq Have(w, t.in)
  BY WidenHave
<1>13. Good(w, u)
  <2>1. InOK(w, u.in)
    BY <1>2, <1>10, WidenQueues DEF Fit, Good
  <2>2. u.sacks \subseteq Sacks(w, Have(w, u.in))
    <3>1. t.sacks \subseteq Sacks(v, Have(v, t.in))
      BY <1>2 DEF Fit, Good
    <3>2. Sacks(v, Have(v, t.in)) = Sacks(w, Have(v, t.in))
      BY WidenHave
    <3>3. Sacks(w, Have(v, t.in)) \subseteq Sacks(w, Have(w, t.in))
      BY <1>12, AcksMore
    <3> QED
      BY <1>10, <3>1, <3>2, <3>3
  <2>3. Sent(w, u)
    BY <1>2, <1>10, <1>12, WidenMailOut DEF Fit, Good, Sent
  <2>4. Closers = {} => Calm(u) /\ Covers(w, u.out)
    BY <1>2, <1>8, <1>10 DEF Fit, Good, Calm, Steady
  <2>5. w.has \subseteq Have(w, u.in)
    BY <1>2, <1>10, <1>12 DEF Fit, Good
  <2> QED
    BY <1>2, <1>7, <1>10, <1>11, <2>1, <2>2, <2>3, <2>4, <2>5 DEF Good, Fit, Steady
<1>14. Ready(w, u)
  <2>1. Ready(w, t)
    BY <1>2, WidenReady DEF Fit
  <2> QED
    BY <1>10, <2>1 DEF Ready
<1>15. Opened(w, u, read)
  BY <1>9, <1>10 DEF Opened, Widens
<1> QED
  BY <1>1, <1>10, <1>13, <1>14, <1>15 DEF Runs, Fit, Steady

(* The units that follow the last one read.                                *)
LEMMA ReadUnits ==
    ASSUME NEW v, IsView(v), NEW q, InOK(v, q), NEW read \in 0..v.rlen, NEW count \in Nat,
           \A k \in 0..(count - 1) : \E s \in q : s.seq = Seq32(Seq32(v.riss + 1 + read) + k)
    PROVE  /\ read + count <= v.rlen
           /\ \A k \in 0..(count - 1) : \A s \in q :
                 s.seq = Seq32(Seq32(v.riss + 1 + read) + k) => s = InUnit(v, read + 1 + k)
<1>1. v.riss \in Int /\ v.rlen \in Nat /\ 2 * (v.rlen + 2) < SeqSpace
  BY ViewInts
<1>2. ASSUME NEW k \in 0..(count - 1)
      PROVE  Seq32(Seq32(v.riss + 1 + read) + k) = Seq32(v.riss + (read + 1 + k))
  <2>1. v.riss + 1 + read \in Int /\ k \in Int
    BY <1>1
  <2>2. v.riss + 1 + read + k = v.riss + (read + 1 + k)
    BY <1>1
  <2> QED
    BY <2>1, <2>2, SeqAdd
<1>3. ASSUME NEW k \in 0..(count - 1), read + 1 + k <= v.rlen + 1, NEW s \in q,
             s.seq = Seq32(Seq32(v.riss + 1 + read) + k)
      PROVE  read + 1 + k \in 1..v.rlen /\ s = InUnit(v, read + 1 + k)
  <2>1. PICK j \in 1..v.rlen : s = InUnit(v, j)
    BY DEF InOK
  <2>2. Seq32(v.riss + j) = Seq32(v.riss + (read + 1 + k))
    BY <1>2, <1>3, <2>1 DEF InUnit
  <2>3. j \in 0..(v.rlen + 1) /\ read + 1 + k \in 0..(v.rlen + 1)
    BY <1>1, <1>3
  <2>4. j = read + 1 + k
    BY <1>1, <2>2, <2>3, UnitOnce
  <2> QED
    BY <2>1, <2>4
<1>4. read + count <= v.rlen
  <2> SUFFICES ASSUME read + count > v.rlen PROVE FALSE
    BY <1>1
  <2> DEFINE k == v.rlen - read
  <2>1. k \in 0..(count - 1) /\ read + 1 + k = v.rlen + 1
    BY <1>1
  <2>2. PICK s \in q : s.seq = Seq32(Seq32(v.riss + 1 + read) + k)
    BY <2>1
  <2>3. read + 1 + k \in 1..v.rlen
    BY <1>1, <1>3, <2>1, <2>2
  <2> QED
    BY <1>1, <2>1, <2>3
<1>5. ASSUME NEW k \in 0..(count - 1) PROVE read + 1 + k <= v.rlen + 1
  BY <1>1, <1>4
<1> QED
  BY <1>3, <1>4, <1>5

(* What leaves the queue with a read is what has been read.                *)
LEMMA ReadKeeps ==
    ASSUME NEW v, IsView(v), NEW q, InOK(v, q), NEW read \in 0..v.rlen,
           NEW s \in ReleaseRun(q, Seq32(v.riss + 1 + read))
    PROVE  \E k \in 1..read : s = InUnit(v, k)
<1>1. v.riss \in Int /\ v.rlen \in Nat /\ 2 * (v.rlen + 2) < SeqSpace
  BY ViewInts
<1>2. s \in q /\ pico_seq_compare(Inc(s.seq), Seq32(v.riss + 1 + read)) <= 0
  BY DEF ReleaseRun, Until
<1>3. PICK k \in 1..v.rlen : s = InUnit(v, k)
  BY <1>2 DEF InOK
<1>4. pico_seq_compare(Inc(Seq32(v.riss + k)), Seq32(v.riss + 1 + read)) = k - read
  <2>1. k \in 0..v.rlen
    BY <1>1
  <2> QED
    BY <1>1, <2>1, UntilUnit
<1>5. k - read <= 0
  BY <1>2, <1>3, <1>4 DEF InUnit
<1> QED
  BY <1>1, <1>3, <1>5

(* A read takes the next units of the peer's stream.                       *)
LEMMA ReadNext ==
    ASSUME NEW v, IsView(v), NEW t, NEW read \in 0..v.rlen, Runs(v, t, read), Opened(v, t, read),
           NEW count \in Nat, count <= Readable(t)
    PROVE  /\ read + count <= v.rlen
           /\ \A k \in 1..count :
                 (CHOOSE s \in t.in : s.seq = Seq32(t.rcv_processed + k - 1)).data
                     = v.rbase + (read + k)
           /\ \A k \in 0..(count - 1) : \A s \in t.in :
                 s.seq = Seq32(t.rcv_processed + k) => s = InUnit(v, read + 1 + k)
<1> DEFINE n == t.rcv_processed
<1>1. n = Seq32(v.riss + 1 + read) /\ InOK(v, t.in)
  BY DEF Opened, Runs, Fit, Good
<1>2. n \in Int
  <2>1. v.riss + 1 + read \in Int
    BY ViewInts
  <2> QED
    BY <1>1, <2>1, SeqRange
<1>3. Unread(t) \subseteq t.in /\ InOK(v, Unread(t))
  BY <1>1, InSub DEF Unread
<1>4. \A k \in 0..(count - 1) : \E s \in Unread(t) : s.seq = Seq32(n + k)
  <2>1. /\ Run(Unread(t), n) \in Nat
        /\ \A k \in 0..(Run(Unread(t), n) - 1) : \E s \in Unread(t) : s.seq = Seq32(n + k)
    BY <1>2, <1>3, InQueue
  <2> QED
    BY <2>1 DEF Readable
<1>5. \A k \in 0..(count - 1) : \E s \in t.in : s.seq = Seq32(n + k)
  BY <1>3, <1>4
<1> HIDE DEF n
<1>6. /\ read + count <= v.rlen
      /\ \A k \in 0..(count - 1) : \A s \in t.in : s.seq = Seq32(n + k) => s = InUnit(v, read + 1 + k)
  BY <1>1, <1>5, ReadUnits
<1>7. ASSUME NEW k \in 1..count
      PROVE  (CHOOSE s \in t.in : s.seq = Seq32(n + k - 1)).data = v.rbase + (read + k)
  <2> DEFINE x == CHOOSE s \in t.in : s.seq = Seq32(n + k - 1)
  <2>1. k - 1 \in 0..(count - 1) /\ n + (k - 1) = n + k - 1 /\ read + 1 + (k - 1) = read + k
    BY <1>2
  <2>2. x \in t.in /\ x.seq = Seq32(n + k - 1)
    BY <1>5, <2>1
  <2> HIDE DEF x
  <2>3. x = InUnit(v, read + k)
    BY <1>6, <2>1, <2>2
  <2>4. x.data = v.rbase + (read + k)
    BY <2>3 DEF InUnit
  <2> QED
    BY <2>4 DEF x
<1> QED
  BY <1>6, <1>7 DEF n

LEMMA ReadRuns ==
    ASSUME NEW v, IsView(v), NEW t, NEW read \in 0..v.rlen, v.had = 1..read,
           Runs(v, t, read), Opened(v, t, read), NEW count \in Nat, count <= Readable(t),
           NEW w, IsView(w), Widens(v, w), w.len = v.len, w.rlen = v.rlen, w.has = v.has,
           w.held = v.held, w.had = 1..(read + count)
    PROVE  Runs(w, pico_tcp_read(t, count), read + count)
<1> DEFINE q == {s \in Unread(t) : \A k \in 0..(count - 1) : s.seq # Seq32(t.rcv_processed + k)}
           n == Seq32(t.rcv_processed + count)
           a == [t EXCEPT !.in = q, !.rcv_processed = n]
           u == tcp_set_space(a)
<1>1. pico_tcp_read(t, count)
        = IF u.remote_closed THEN [u EXCEPT !.st = "CLOSE_WAIT", !.shutR = TRUE] ELSE u
  BY DEF pico_tcp_read, tcp_read_finish
<1>2. Fit(v, t) /\ IsBlock(t) /\ Numbers(t) /\ t.st # "CLOSED"
  BY RunsCalm DEF Runs, Synchronized
<1>3. t.rcv_processed = Seq32(v.riss + 1 + read) /\ v.riss \in Int /\ w.riss = v.riss /\ w.rbase = v.rbase
  BY ViewInts DEF Opened, Widens
<1>4. n = Seq32(w.riss + 1 + (read + count))
  <2>1. v.riss + 1 + read \in Int /\ count \in Int
    BY <1>3
  <2>2. v.riss + 1 + read + count = v.riss + 1 + (read + count)
    BY <1>3
  <2>3. Seq32(Seq32(v.riss + 1 + read) + count) = Seq32(v.riss + 1 + read + count)
    BY <2>1, SeqAdd
  <2> QED
    BY <1>3, <2>2, <2>3
<1>5. Have(v, t.in) \subseteq Have(w, q)
  <2> SUFFICES ASSUME NEW k \in Have(v, t.in) PROVE k \in Have(w, q)
    OBVIOUS
  <2>1. k \in 1..v.rlen /\ k \in 1..w.rlen
    BY DEF Have
  <2> SUFFICES k \in w.had \/ InUnit(w, k) \in q
    BY <2>1 DEF Have
  <2>2. CASE k \in v.had
    BY <2>2 DEF Widens
  <2>3. CASE InUnit(v, k) \in t.in
    <3> DEFINE s == InUnit(v, k)
    <3>1. s = InUnit(w, k) /\ InOK(v, t.in)
      BY <1>2, <1>3 DEF InUnit, Fit, Good
    <3>2. v.rlen \in Nat /\ 2 * (v.rlen + 2) < SeqSpace /\ v.riss \in Int
      BY ViewInts
    <3>3. ASSUME NEW j \in 1..(read + count), s = InUnit(v, j), j <= v.rlen PROVE k \in w.had
      <4>1. Seq32(v.riss + k) = Seq32(v.riss + j)
        BY <3>3 DEF InUnit
      <4>2. k \in 0..(v.rlen + 1) /\ j \in 0..(v.rlen + 1)
        BY <2>1, <3>2, <3>3
      <4>3. k = j
        BY <3>2, <4>1, <4>2, UnitOnce
      <4> QED
        BY <3>3, <4>3
    <3> HIDE DEF s
    <3>4. CASE s \in ReleaseRun(t.in, t.rcv_processed)
      <4>1. s \in ReleaseRun(t.in, Seq32(v.riss + 1 + read))
        BY <1>3, <3>4
      <4>2. PICK j \in 1..read : s = InUnit(v, j)
        BY <3>1, <4>1, ReadKeeps
      <4> QED
        BY <3>2, <3>3, <4>2
    <3>5. CASE \E i \in 0..(count - 1) : s.seq = Seq32(t.rcv_processed + i)
      <4>1. PICK i \in 0..(count - 1) : s.seq = Seq32(t.rcv_processed + i)
        BY <3>5
      <4>2. s \in t.in
        BY <2>3 DEF s
      <4>3. s = InUnit(v, read + 1 + i) /\ read + count <= v.rlen
        BY <4>1, <4>2, ReadNext
      <4>4. read + 1 + i \in 1..(read + count) /\ read + 1 + i <= v.rlen
        BY <3>2, <4>3
      <4> QED
        BY <3>3, <4>3, <4>4
    <3>6. CASE s \notin ReleaseRun(t.in, t.rcv_processed)
               /\ ~\E i \in 0..(count - 1) : s.seq = Seq32(t.rcv_processed + i)
      <4>1. s \in t.in
        BY <2>3 DEF s
      <4>2. s \in q
        BY <3>6, <4>1 DEF Unread
      <4> QED
        BY <3>1, <4>2 DEF s
    <3> QED
      BY <3>4, <3>5, <3>6
  <2> QED
    BY <2>2, <2>3 DEF Have
<1>6. q \subseteq t.in
  BY DEF Unread
<1> HIDE DEF q, n
<1>7. /\ IsBlock(a) /\ Steady(t, a) /\ a.in = q /\ a.rcv_processed = n /\ a.out = t.out
      /\ a.snd_nxt = t.snd_nxt /\ a.rcv_nxt = t.rcv_nxt /\ a.snd_last = t.snd_last
      /\ a.in_flight = t.in_flight /\ a.cwnd = t.cwnd /\ a.wnd = t.wnd /\ a.recv_wnd = t.recv_wnd
      /\ a.sacks = t.sacks /\ a.tx = t.tx /\ a.shutL = t.shutL /\ a.remote_closed = t.remote_closed
  BY <1>2 DEF IsBlock, Steady
<1> HIDE DEF a
<1>8. Good(w, a)
  <2>1. OutOK(w, a.out) /\ InOK(w, a.in)
    <3>1. OutOK(v, t.out) /\ InOK(v, t.in)
      BY <1>2 DEF Fit, Good
    <3>2. InOK(v, q)
      BY <1>6, <3>1, InSub
    <3> QED
      BY <1>7, <3>1, <3>2, WidenQueues
  <2>2. a.sacks \subseteq Sacks(w, Have(w, a.in))
    <3>1. t.sacks \subseteq Sacks(v, Have(v, t.in))
      BY <1>2 DEF Fit, Good
    <3>2. Sacks(v, Have(v, t.in)) = Sacks(w, Have(v, t.in))
      BY WidenHave
    <3>3. Sacks(w, Have(v, t.in)) \subseteq Sacks(w, Have(w, q))
      BY <1>5, AcksMore
    <3> QED
      BY <1>7, <3>1, <3>2, <3>3
  <2>3. Sent(w, a)
    BY <1>2, <1>5, <1>7, WidenMailOut DEF Fit, Good, Sent
  <2>4. Closers = {} => Calm(a) /\ Covers(w, a.out)
    BY <1>2, <1>7 DEF Fit, Good, Calm, Steady, Covers, Widens
  <2>5. w.has \subseteq Have(w, a.in)
    BY <1>2, <1>5, <1>7 DEF Fit, Good
  <2>6. Numbers(a)
    BY <1>2, <1>7 DEF Numbers, Steady
  <2> QED
    BY <1>2, <1>7, <2>1, <2>2, <2>3, <2>4, <2>5, <2>6 DEF Good, Fit, Steady
<1>9. Ready(w, a)
  <2>1. Acks(v, Have(v, t.in)) \subseteq Acks(w, Have(v, t.in))
    BY WidenHave
  <2>2. Acks(w, Have(v, t.in)) \subseteq Acks(w, Have(w, q))
    BY <1>5, AcksMore
  <2> QED
    BY <1>2, <1>7, <2>1, <2>2 DEF Ready, Fit, Widens
<1>10. Opened(w, a, read + count)
  BY <1>4, <1>7 DEF Opened, Widens
<1>11. Runs(w, a, read + count)
  BY <1>7, <1>8, <1>9, <1>10 DEF Runs, Fit, Steady
<1>12. Fit(w, u) /\ Says(a, u)
  BY <1>8, <1>9, SpaceFit DEF Fit
<1>13. Same(a, u)
  BY <1>7, SpaceIs
<1>14. Runs(w, u, read + count) /\ Opened(w, u, read + count)
  BY <1>10, <1>11, <1>12, <1>13, SaysRuns
<1> HIDE DEF u
<1>15. CASE ~u.remote_closed
  BY <1>1, <1>14, <1>15
<1>16. CASE u.remote_closed
  <2> DEFINE z == [u EXCEPT !.st = "CLOSE_WAIT", !.shutR = TRUE]
  <2>1. IsBlock(u) /\ Good(w, u) /\ Numbers(u)
    BY <1>12 DEF Fit, Good
  <2>2. Closers # {}
    BY <1>16, <2>1 DEF Good, Calm
  <2>3. Moves(u, z) /\ z.rcv_nxt = u.rcv_nxt
    BY <2>1 DEF IsBlock, Moves, Synchronized, States, Numbers
  <2>4. Runs(w, z, read + count)
    BY <1>14, <2>2, <2>3, MovesRuns
  <2> QED
    BY <1>1, <1>16, <2>4
<1> QED
  BY <1>15, <1>16

LEMMA TakenRange ==
    ASSUME NEW t, NEW count \in Nat
    PROVE  Taken(t, count) \in 0..count
<1> DEFINE S == {i \in 0..count :
                    \/ i = count \/ Cardinality(t.out) + i >= MaxOut
                    \/ peek_segment(t.out, Seq32(t.snd_last + 1 + i)) # {}}
<1>1. S \in SUBSET Nat /\ S # {}
  <2>1. count \in S
    OBVIOUS
  <2> QED
    BY <2>1
<1>2. Lowest(S) \in S
  BY <1>1, LowestNat
<1> QED
  BY <1>2 DEF Taken

-----------------------------------------------------------------------------
(* New sockets.                                                            *)

LEMMA GoodFresh ==
    ASSUME NEW v, IsView(v), NEW t, IsBlock(t), Numbers(t),
           t.out = {}, t.in = {}, t.sacks = {}, t.tx = <<>>,
           t.st \in {"CLOSED", "SYN_SENT", "SYN_RECV"},
           ~t.shutL, ~t.remote_closed, ~t.fin_tmr, t.st # "CLOSED" => v.len = 0 /\ v.has = {}
    PROVE  Good(v, t)
<1>1. OutOK(v, t.out) /\ InOK(v, t.in)
  BY FS_EmptySet DEF OutOK, InOK
<1>2. Sent(v, t) /\ NoFin(t.tx)
  BY DEF Sent, NoFin
<1>3. Calm(t)
  BY DEF Calm
<1>4. t.st # "CLOSED" => Covers(v, t.out)
  BY DEF Covers
<1> QED
  BY <1>1, <1>2, <1>3, <1>4 DEF Good

LEMMA OpenNumbers ==
    /\ IsBlock(OpenSocket) /\ Numbers(OpenSocket)
    /\ IsBlock([OpenSocket EXCEPT !.gone = TRUE]) /\ Numbers([OpenSocket EXCEPT !.gone = TRUE])
    /\ IsBlock([OpenSocket EXCEPT !.st = "SYN_SENT"]) /\ Numbers([OpenSocket EXCEPT !.st = "SYN_SENT"])
<1>1. 0 \in 0..(SeqSpace - 1) /\ 0 \in 0..MaxCwnd /\ 0 \in 0..(MaxCwnd + 1) /\ MaxIn \in Nat
  BY TcpAssumption
<1>2. IsBlock(OpenSocket) /\ IsBlock([OpenSocket EXCEPT !.gone = TRUE])
      /\ IsBlock([OpenSocket EXCEPT !.st = "SYN_SENT"])
  BY DEF IsBlock, OpenSocket
<1>3. Numbers(OpenSocket) /\ Numbers([OpenSocket EXCEPT !.gone = TRUE])
      /\ Numbers([OpenSocket EXCEPT !.st = "SYN_SENT"])
  BY <1>1 DEF Numbers, OpenSocket, States
<1> QED
  BY <1>2, <1>3

LEMMA OpenHeld ==
    ASSUME NEW v, IsView(v), NEW read, NEW t, t = OpenSocket \/ t = [OpenSocket EXCEPT !.gone = TRUE]
    PROVE  /\ Held(v, t, read) /\ t.st = "CLOSED" /\ ~t.fin_tmr /\ t.tx = <<>> /\ t.in = {}
           /\ t.lack = {}
<1>1. /\ IsBlock(t) /\ t.lack = {} /\ t.out = {} /\ t.in = {} /\ t.sacks = {} /\ t.tx = <<>> /\ t.st = "CLOSED"
      /\ ~t.shutL /\ ~t.remote_closed /\ ~t.fin_tmr /\ t.retrans_tmr = "none"
  <2>1. CASE t = OpenSocket
    BY <2>1, OpenNumbers DEF OpenSocket
  <2>2. CASE t = [OpenSocket EXCEPT !.gone = TRUE]
    <3>1. IsBlock(t)
      BY <2>2, OpenNumbers
    <3> QED
      BY <2>2, <3>1 DEF OpenSocket
  <2> QED
    BY <2>1, <2>2
<1>2. Numbers(t)
  BY OpenNumbers
<1>3. Good(v, t)
  BY <1>1, <1>2, GoodFresh
<1> QED
  BY <1>1, <1>3 DEF Held, Talks, Phase, Synchronized

LEMMA ConnectHeld ==
    ASSUME NEW v, IsView(v), v.len = 0, v.has = {}, NEW read
    PROVE  LET u == pico_tcp_initconn([OpenSocket EXCEPT !.st = "SYN_SENT"], v.iss)
           IN  /\ Held(v, u, read) /\ u.st = "SYN_SENT" /\ ~u.gone /\ ~u.fin_tmr
               /\ \A i \in DOMAIN u.tx : u.tx[i].flags = "SYN"
<1> DEFINE t == [OpenSocket EXCEPT !.st = "SYN_SENT"]
<1>1. /\ t.out = {} /\ t.in = {} /\ t.sacks = {} /\ t.tx = <<>> /\ t.st = "SYN_SENT"
      /\ ~t.shutL /\ ~t.remote_closed /\ ~t.fin_tmr /\ ~t.gone /\ t.snd_nxt = 0 /\ t.wnd = MaxIn
      /\ t.lack = {}
  BY DEF OpenSocket
<1>2. IsBlock(t) /\ Numbers(t)
  BY OpenNumbers
<1> HIDE DEF t
<1>3. Good(v, t)
  BY <1>1, <1>2, GoodFresh
<1>4. ASSUME NEW iss, iss = v.iss
      PROVE  LET u == pico_tcp_initconn(t, iss)
             IN  /\ Held(v, u, read) /\ u.st = t.st /\ u.gone = t.gone /\ ~u.fin_tmr
                 /\ t.tx = <<>> => \A i \in DOMAIN u.tx : u.tx[i].flags = "SYN"
  <2>1. t.st \in {"CLOSED", "SYN_SENT"} /\ (t.gone => t.st = "CLOSED")
    BY <1>1
  <2>2. t.snd_nxt = v.iss \/ (t.snd_nxt = 0 /\ iss = v.iss)
    BY <1>1, <1>4
  <2>3. t.out = {} /\ t.in = {} /\ t.sacks = {} /\ t.wnd = MaxIn /\ ~t.fin_tmr
    BY <1>1
  <2> DEFINE u == pico_tcp_initconn(t, iss)
  <2>8. Dials(v, t, iss)
    BY <1>1, <1>3, <2>1, <2>2, <2>3 DEF Dials
  <2>4. ~u.fin_tmr
    BY <2>8, InitconnHeld
  <2>5. Held(v, u, read)
    BY <2>8, InitconnHeld
  <2>6. u.st = t.st /\ u.gone = t.gone
    BY <2>8, InitconnHeld
  <2>9. t.tx = <<>> => AllSyn(u.tx)
    BY <2>8, InitconnHeld
  <2>7. t.tx = <<>> => \A i \in DOMAIN u.tx : u.tx[i].flags = "SYN"
    BY <2>9 DEF AllSyn
  <2> QED
    BY <2>4, <2>5, <2>6, <2>7
<1> QED
  BY <1>1, <1>4 DEF t

LEMMA ChildHeld ==
    ASSUME NEW v, IsView(v), v.len = 0, v.has = {}, NEW m \in Segments, m.seq = v.riss
    PROVE  LET u == ChildOf(m, v.iss) IN Held(v, u, 0) /\ u.st = "SYN_RECV"
<1> DEFINE x == Inc(m.seq)
           t == [OpenSocket EXCEPT
                   !.st = "SYN_RECV", !.rcv_nxt = x, !.snd_nxt = v.iss, !.snd_last = v.iss,
                   !.cwnd = IW, !.ssthresh = Ssthresh, !.recv_wnd = m.wnd]
<1>1. ChildOf(m, v.iss) = tcp_send_synack(t)
  BY DEF ChildOf
<1>2. x = Seq32(v.riss + 1) /\ x \in 0..(SeqSpace - 1) /\ v.iss \in 0..(SeqSpace - 1)
  BY FirstNumbers
<1>3. m.wnd \in Nat /\ IW \in 0..MaxCwnd /\ 0 \in 0..(MaxCwnd + 1) /\ MaxIn \in Nat
  BY TcpAssumption DEF Segments, IW
<1> HIDE DEF x
<1>4. /\ IsBlock(t)
      /\ t.out = {} /\ t.in = {} /\ t.sacks = {} /\ t.tx = <<>> /\ t.st = "SYN_RECV"
      /\ ~t.shutL /\ ~t.remote_closed /\ ~t.fin_tmr /\ ~t.gone /\ t.wnd = MaxIn
      /\ t.retrans_tmr = "none" /\ t.snd_nxt = v.iss /\ t.snd_last = v.iss /\ t.rcv_nxt = x
      /\ t.cwnd = IW /\ t.in_flight = 0 /\ t.recv_wnd = m.wnd
  BY DEF OpenSocket, IsBlock
<1> HIDE DEF t
<1>5. Numbers(t)
  BY <1>2, <1>3, <1>4 DEF Numbers, States
<1>6. Good(v, t)
  BY <1>4, <1>5, GoodFresh
<1> QED
  BY <1>1, <1>2, <1>4, <1>6, SynackHeld

-----------------------------------------------------------------------------
(* The two sockets of one connection.                                      *)

(* Initial sequence numbers for one connection, nobody who writes before   *)
(* it is established, and streams shorter than half of the sequence space. *)
OneConnection ==
    /\ Len(Iss) = 2 /\ ~EarlyWrite
    /\ \A n \in Nodes : 2 * (MaxWrites[n] + 2) < SeqSpace

First(n) == IF n = "C" THEN Iss[1] ELSE Iss[2]
Base(n) == IF n = "C" THEN 0 ELSE 10

(* A configuration, and the one of the current state.                      *)
Now == [sock |-> sock, net |-> net, born |-> born, wrote |-> wrote, got |-> got]

Alive(c, n) == c.sock[n].st # "CLOSED" /\ ~c.sock[n].gone

(* The units of the peer that have reached n.                              *)
Reached(c, n) ==
    {k \in 1..c.wrote[Peer(n)] :
        \/ k <= Len(c.got[n])
        \/ [seq |-> Seq32(First(Peer(n)) + k), data |-> Base(Peer(n)) + k] \in c.sock[n].in}

View(c, n) ==
    [iss |-> First(n), base |-> Base(n), len |-> c.wrote[n],
     riss |-> First(Peer(n)), rbase |-> Base(Peer(n)), rlen |-> c.wrote[Peer(n)],
     had |-> 1..Len(c.got[n]), has |-> Reached(c, n),
     held |-> IF Alive(c, Peer(n)) THEN Reached(c, Peer(n)) ELSE 1..c.wrote[n],
     fin |-> IF Closers = {} \/ c.born = 0 \/ c.sock[Peer(n)].st = "SYN_RECV" THEN "never"
             ELSE "may",
     told |-> IF Closers = {} \/ c.born = 0 \/ c.sock[n].st = "SYN_RECV" THEN "exact"
              ELSE "unsure"]

Counts(c, n) ==
    /\ c.wrote[n] \in 0..MaxWrites[n]
    /\ c.got[n] \in Seq(Nat) /\ Len(c.got[n]) <= c.wrote[Peer(n)]
    /\ \A i \in DOMAIN c.got[n] : c.got[n][i] = Base(Peer(n)) + i

Side(c, n) ==
    /\ Held(View(c, n), c.sock[n], Len(c.got[n])) /\ c.sock[n].tx = <<>> /\ c.sock[n].lack = {}
    /\ c.net[n] \in Seq(Segments) /\ \A i \in DOMAIN c.net[n] : MailIn(View(c, n), c.net[n][i])
    /\ Counts(c, n)

(* Before the listener has answered a SYN.                                 *)
Unborn(c) ==
    /\ c.sock["S"] = OpenSocket
    /\ c.sock["C"].st \in {"CLOSED", "SYN_SENT"} /\ ~c.sock["C"].fin_tmr
    /\ c.wrote["C"] = 0 /\ c.wrote["S"] = 0
    /\ \A i \in DOMAIN c.net["S"] : c.net["S"][i].flags \in {"SYN", "RST", "RSTACK"}
    /\ \A i \in DOMAIN c.net["C"] : c.net["C"][i].flags \in {"RST", "RSTACK"}

(* The client has connected, or no SYN is on its way.                      *)
Started(c) ==
    \/ Alive(c, "C") \/ c.sock["C"].gone
    \/ /\ c.sock["C"] = OpenSocket /\ c.born = 0
       /\ \A i \in DOMAIN c.net["S"] : c.net["S"][i].flags # "SYN"

Shape(c) ==
    /\ c.sock = [n \in Nodes |-> c.sock[n]] /\ c.net = [n \in Nodes |-> c.net[n]]
    /\ c.wrote = [n \in Nodes |-> c.wrote[n]] /\ c.got = [n \in Nodes |-> c.got[n]]

Stage(c) ==
    /\ c.born \in 0..1
    /\ c.sock["C"].st # "SYN_RECV" /\ c.sock["S"].st # "SYN_SENT"
    /\ \A n \in Nodes : c.sock[n].st \in {"SYN_SENT", "SYN_RECV"} => c.wrote[n] = 0 /\ c.got[n] = <<>>
    /\ c.born = 0 => Unborn(c)
    /\ Started(c)

Coherent(c) == Shape(c) /\ Stage(c) /\ \A n \in Nodes : Side(c, n)

LEMMA Peers ==
    ASSUME NEW n \in Nodes
    PROVE  Peer(n) \in Nodes /\ Peer(Peer(n)) = n /\ Peer(n) # n /\ Nodes = {n, Peer(n)}
BY DEF Nodes, Peer

LEMMA Origins ==
    ASSUME OneConnection, NEW n \in Nodes
    PROVE  /\ First(n) \in 1..(SeqSpace - 1) /\ Base(n) \in Nat
           /\ MaxWrites[n] \in Nat /\ 2 * (MaxWrites[n] + 2) < SeqSpace
<1>1. Iss[1] \in 1..(SeqSpace - 1) /\ Iss[2] \in 1..(SeqSpace - 1)
  <2> DEFINE X == 1..(SeqSpace - 1)
  <2>1. Len(Iss) = 2 /\ Iss \in Seq(X)
    BY PairAssumption DEF OneConnection
  <2> HIDE DEF X
  <2>2. \A i \in 1..Len(Iss) : Iss[i] \in X
    BY <2>1
  <2> QED
    BY <2>1, <2>2 DEF X
<1>2. Base(n) \in Nat
  BY DEF Base
<1> QED
  BY <1>1, <1>2, PairAssumption DEF OneConnection, First

LEMMA ViewFields ==
    ASSUME NEW c, NEW n
    PROVE  LET v == View(c, n)
           IN  /\ v.iss = First(n) /\ v.base = Base(n) /\ v.len = c.wrote[n]
               /\ v.riss = First(Peer(n)) /\ v.rbase = Base(Peer(n)) /\ v.rlen = c.wrote[Peer(n)]
               /\ v.had = 1..Len(c.got[n]) /\ v.has = Reached(c, n)
               /\ Alive(c, Peer(n)) => v.held = Reached(c, Peer(n))
               /\ ~Alive(c, Peer(n)) => v.held = 1..c.wrote[n]
               /\ v.fin = "never" <=> Closers = {} \/ c.born = 0 \/ c.sock[Peer(n)].st = "SYN_RECV"
               /\ v.told = "exact" <=> Closers = {} \/ c.born = 0 \/ c.sock[n].st = "SYN_RECV"
BY DEF View

(* What has reached a socket, in its view.                                 *)
LEMMA ReachedHave ==
    ASSUME NEW c, NEW n \in Nodes, Len(c.got[n]) \in Nat
    PROVE  /\ Have(View(c, n), c.sock[n].in) = Reached(c, n)
           /\ Reached(c, n) \subseteq 1..c.wrote[Peer(n)]
<1> DEFINE v == View(c, n)
<1>1. /\ v.riss = First(Peer(n)) /\ v.rbase = Base(Peer(n)) /\ v.rlen = c.wrote[Peer(n)]
      /\ v.had = 1..Len(c.got[n])
  BY ViewFields
<1> HIDE DEF v
<1>2. ASSUME NEW k \in 1..c.wrote[Peer(n)]
      PROVE  k \in v.had <=> k <= Len(c.got[n])
  BY <1>1
<1>3. \A k : InUnit(v, k) = [seq |-> Seq32(First(Peer(n)) + k), data |-> Base(Peer(n)) + k]
  BY <1>1 DEF InUnit
<1>4. Have(v, c.sock[n].in) = Reached(c, n)
  BY <1>1, <1>2, <1>3 DEF Have, Reached
<1> QED
  BY <1>4 DEF v, Reached

LEMMA ViewIs ==
    ASSUME OneConnection, NEW c, NEW n \in Nodes, Counts(c, n), Counts(c, Peer(n))
    PROVE  IsView(View(c, n))
<1> DEFINE v == View(c, n)  p == Peer(n)
<1>1. p \in Nodes /\ Peer(p) = n
  BY Peers
<1>2. /\ c.wrote[n] \in Nat /\ c.wrote[n] <= MaxWrites[n] /\ c.wrote[p] \in Nat /\ c.wrote[p] <= MaxWrites[p]
      /\ Len(c.got[n]) \in Nat /\ Len(c.got[p]) \in Nat
      /\ Len(c.got[n]) <= c.wrote[p] /\ Len(c.got[p]) <= c.wrote[n]
  <2>1. MaxWrites[n] \in Nat /\ MaxWrites[p] \in Nat
    BY <1>1, Origins
  <2> QED
    BY <1>1, <2>1 DEF Counts
<1>3. /\ First(n) \in 1..(SeqSpace - 1) /\ First(p) \in 1..(SeqSpace - 1)
      /\ Base(n) \in Nat /\ Base(p) \in Nat
      /\ 2 * (MaxWrites[n] + 2) < SeqSpace /\ 2 * (MaxWrites[p] + 2) < SeqSpace
      /\ MaxWrites[n] \in Nat /\ MaxWrites[p] \in Nat
  BY <1>1, Origins
<1>4. SeqSpace \in Nat
  BY TcpAssumption
<1>5. 2 * (c.wrote[n] + 2) < SeqSpace /\ 2 * (c.wrote[p] + 2) < SeqSpace
  <2>1. \A a, m \in Nat : a <= m /\ 2 * (m + 2) < SeqSpace => 2 * (a + 2) < SeqSpace
    BY <1>4
  <2> HIDE DEF p
  <2> QED
    BY <1>2, <1>3, <2>1
<1>6. Reached(c, p) \subseteq 1..c.wrote[n]
  BY <1>1, <1>2, ReachedHave
<1>7. v.had \subseteq 1..v.rlen /\ v.held \subseteq 1..v.len
  <2>1. 1..Len(c.got[n]) \subseteq 1..c.wrote[p]
    BY <1>2
  <2>2. v.had = 1..Len(c.got[n]) /\ v.rlen = c.wrote[p] /\ v.len = c.wrote[n]
    BY ViewFields
  <2>3. v.held = Reached(c, p) \/ v.held = 1..c.wrote[n]
    BY ViewFields
  <2> HIDE DEF v, p
  <2> QED
    BY <1>6, <2>1, <2>2, <2>3
<1>8. Closers = {} => v.fin = "never" /\ v.told = "exact"
  BY ViewFields
<1>9. /\ v.iss = First(n) /\ v.base = Base(n) /\ v.len = c.wrote[n]
      /\ v.riss = First(p) /\ v.rbase = Base(p) /\ v.rlen = c.wrote[p]
  BY ViewFields
<1> HIDE DEF v, p
<1> QED
  BY <1>2, <1>3, <1>5, <1>7, <1>8, <1>9 DEF IsView, v

(* The view of a socket during its step: what its application has written  *)
(* and read counts already, the peer has not moved.                        *)
Within(c, d, n) == [View(c, n) EXCEPT !.len = d.wrote[n], !.had = 1..Len(d.got[n])]

(* One socket becomes u, the segments it has sent leave for the other one, *)
(* and rest is what is still on its way to it.                             *)
Turn(c, d, n, u, rest) ==
    /\ d.sock[n] = Settled(u) /\ d.sock[Peer(n)] = c.sock[Peer(n)]
    /\ d.net[n] = rest /\ d.net[Peer(n)] = c.net[Peer(n)] \o u.tx
    /\ rest \in Seq(Segments)
    /\ \A i \in DOMAIN rest : \E j \in DOMAIN c.net[n] : rest[i] = c.net[n][j]
    /\ d.wrote[Peer(n)] = c.wrote[Peer(n)] /\ d.got[Peer(n)] = c.got[Peer(n)]
    /\ c.wrote[n] <= d.wrote[n] /\ Len(c.got[n]) <= Len(d.got[n]) /\ Counts(d, n)
    /\ d.born = 0 => c.born = 0

LEMMA WithinFields ==
    ASSUME NEW c, NEW d, NEW n
    PROVE  LET w == Within(c, d, n)
               v == View(c, n)
           IN  /\ w.iss = v.iss /\ w.base = v.base /\ w.len = d.wrote[n]
               /\ w.riss = v.riss /\ w.rbase = v.rbase /\ w.rlen = v.rlen
               /\ w.had = 1..Len(d.got[n]) /\ w.has = v.has
               /\ w.held = v.held /\ w.fin = v.fin /\ w.told = v.told
BY DEF Within, View

LEMMA TurnCounts ==
    ASSUME NEW c, NEW n \in Nodes, Counts(c, n), Counts(c, Peer(n)), NEW d, NEW u, NEW rest,
           Turn(c, d, n, u, rest), OneConnection
    PROVE  /\ Counts(d, n) /\ Counts(d, Peer(n))
           /\ IsView(View(c, n)) /\ IsView(View(c, Peer(n)))
           /\ IsView(View(d, n)) /\ IsView(View(d, Peer(n)))
           /\ IsView(Within(c, d, n)) /\ Widens(View(c, n), Within(c, d, n))
           /\ Len(c.got[n]) \in Nat /\ Len(d.got[n]) \in Nat
           /\ Len(c.got[Peer(n)]) \in Nat /\ Len(d.got[Peer(n)]) \in Nat
<1> DEFINE p == Peer(n)
<1>1. p \in Nodes /\ Peer(p) = n
  BY Peers
<1>2. Counts(d, n) /\ d.wrote[p] = c.wrote[p] /\ d.got[p] = c.got[p] /\ c.wrote[n] <= d.wrote[n]
      /\ Len(c.got[n]) <= Len(d.got[n])
  BY DEF Turn
<1>3. /\ MaxWrites[n] \in Nat /\ MaxWrites[p] \in Nat
      /\ 2 * (MaxWrites[n] + 2) < SeqSpace
  BY <1>1, Origins
<1>4. /\ c.wrote[n] \in 0..MaxWrites[n] /\ c.wrote[p] \in 0..MaxWrites[p] /\ d.wrote[n] \in 0..MaxWrites[n]
      /\ Len(c.got[n]) \in Nat /\ Len(c.got[p]) \in Nat /\ Len(d.got[n]) \in Nat
      /\ Len(c.got[p]) <= c.wrote[n] /\ Len(d.got[n]) <= c.wrote[p]
  BY <1>1, <1>2 DEF Counts
<1>5. Counts(d, p)
  <2>1. Len(c.got[p]) <= d.wrote[n]
    BY <1>2, <1>3, <1>4
  <2> QED
    BY <1>1, <1>2, <2>1 DEF Counts
<1>6. IsView(View(c, n)) /\ IsView(View(c, p)) /\ IsView(View(d, n)) /\ IsView(View(d, p))
  BY <1>1, <1>2, <1>5, ViewIs
<1> DEFINE v == View(c, n)  w == Within(c, d, n)
<1>7. /\ w.iss = v.iss /\ w.base = v.base /\ w.len = d.wrote[n]
      /\ w.riss = v.riss /\ w.rbase = v.rbase /\ w.rlen = v.rlen
      /\ w.had = 1..Len(d.got[n]) /\ w.has = v.has
      /\ w.held = v.held /\ w.fin = v.fin /\ w.told = v.told
  BY WithinFields
<1>8. v.len = c.wrote[n] /\ v.rlen = c.wrote[p] /\ v.had = 1..Len(c.got[n])
  BY ViewFields
<1> HIDE DEF v, w, p
<1>9. /\ d.wrote[n] \in Nat /\ 2 * (d.wrote[n] + 2) < SeqSpace /\ 1..c.wrote[n] \subseteq 1..d.wrote[n]
      /\ 1..Len(d.got[n]) \subseteq 1..c.wrote[p] /\ 1..Len(c.got[n]) \subseteq 1..Len(d.got[n])
      /\ SeqSpace \in Nat
  <2>1. \A a, m \in Nat : a <= m /\ 2 * (m + 2) < SeqSpace => 2 * (a + 2) < SeqSpace
    BY TcpAssumption
  <2>2. d.wrote[n] \in Nat /\ d.wrote[n] <= MaxWrites[n]
    BY <1>3, <1>4
  <2>3. 2 * (d.wrote[n] + 2) < SeqSpace
    BY <1>3, <2>1, <2>2
  <2>4. \A a, b \in Nat : a <= b => 1..a \subseteq 1..b
    OBVIOUS
  <2>5. c.wrote[n] \in Nat /\ c.wrote[p] \in Nat
    BY <1>3, <1>4
  <2> QED
    BY <1>2, <1>4, <2>2, <2>3, <2>4, <2>5, TcpAssumption
<1>10. IsView(v)
  BY <1>6 DEF v
<1>11. IsView(w)
  BY <1>7, <1>8, <1>9, <1>10 DEF IsView
<1>12. Widens(v, w)
  <2>1. v.len <= w.len /\ v.rlen <= w.rlen
    BY <1>2, <1>4, <1>7, <1>8
  <2> QED
    BY <1>7, <1>8, <1>9, <2>1 DEF Widens
<1> QED
  BY <1>2, <1>4, <1>5, <1>6, <1>11, <1>12 DEF v, w, p

LEMMA SettledIs ==
    ASSUME NEW t, IsBlock(t)
    PROVE  LET u == Settled(t)
           IN  u.in = t.in /\ u.st = t.st /\ u.gone = t.gone /\ u.fin_tmr = t.fin_tmr
BY DEF IsBlock, Settled

LEMMA HeldBlock ==
    ASSUME NEW v, NEW t, NEW read, Held(v, t, read)
    PROVE  IsBlock(t)
BY DEF Held, Good

(* The segments have left.                                                 *)
LEMMA SentHeld ==
    ASSUME NEW v, NEW t, NEW read, Held(v, t, read)
    PROVE  LET u == Settled(t)
           IN  /\ Held(v, u, read) /\ u.tx = <<>> /\ u.in = t.in /\ u.st = t.st /\ u.gone = t.gone
               /\ u.fin_tmr = t.fin_tmr /\ u.lack = {}
<1> DEFINE u == Settled(t)
<1>1. IsBlock(t) /\ Good(v, t)
  BY DEF Held, Good
<1>2. /\ IsBlock(u) /\ Steady(t, u) /\ Keeps(t, u) /\ u.in = t.in /\ u.out = t.out /\ u.snd_nxt = t.snd_nxt
      /\ u.rcv_nxt = t.rcv_nxt /\ u.in_flight = t.in_flight /\ u.cwnd = t.cwnd /\ u.wnd = t.wnd
      /\ u.recv_wnd = t.recv_wnd /\ u.sacks = t.sacks /\ u.tx = <<>> /\ u.lack = {}
  BY <1>1 DEF IsBlock, Steady, Keeps, Settled
<1> HIDE DEF u
<1>3. Sent(v, u) /\ NoFin(u.tx)
  BY <1>2 DEF Sent, NoFin
<1>4. Good(v, u)
  BY <1>1, <1>2, <1>3 DEF Good, Numbers, Calm, Steady, Keeps
<1>5. Talks(u) => Ready(v, u)
  BY <1>2 DEF Held, Talks, Ready, Steady
<1>6. Phase(v, u, read)
  BY <1>2 DEF Held, Phase, Steady, Keeps, Dialling, Waiting, Opened, Botched
<1> QED
  BY <1>2, <1>4, <1>5, <1>6 DEF Held, u, Steady

LEMMA WidensThenWidens ==
    ASSUME NEW v, IsView(v), NEW w, IsView(w), NEW x, IsView(x), Widens(v, w), Widens(w, x)
    PROVE  Widens(v, x)
<1>1. v.len <= x.len /\ v.rlen <= x.rlen
  <2>1. v.len \in Nat /\ w.len \in Nat /\ x.len \in Nat /\ v.rlen \in Nat /\ w.rlen \in Nat /\ x.rlen \in Nat
    BY ViewInts
  <2>2. v.len <= w.len /\ v.rlen <= w.rlen /\ w.len <= x.len /\ w.rlen <= x.rlen
    BY DEF Widens
  <2> QED
    BY <2>1, <2>2
<1> QED
  BY <1>1 DEF Widens

(* What the step of one socket does to the two views.                      *)
Sound(c, d, n, u, rest) ==
    /\ Turn(c, d, n, u, rest)
    /\ Held(Within(c, d, n), u, Len(d.got[n]))
    /\ u.st # "CLOSED" /\ ~u.gone => Alive(c, n) \/ c.wrote[Peer(n)] = 0
    /\ u.st = "SYN_RECV" => c.sock[n].st = "SYN_RECV" \/ c.born = 0
    /\ d.born = 0 => NoFin(u.tx)

LEMMA TurnOwn ==
    ASSUME OneConnection, NEW c, NEW n \in Nodes, Counts(c, n), Counts(c, Peer(n)),
           NEW d, NEW u, NEW rest, Sound(c, d, n, u, rest)
    PROVE  /\ Widens(Within(c, d, n), View(d, n))
           /\ Have(Within(c, d, n), u.in) \subseteq Reached(d, n)
           /\ Reached(d, n) = Have(View(d, n), u.in)
           /\ Widens(View(c, n), View(d, n))
<1> DEFINE p == Peer(n)  v == View(c, n)  w == Within(c, d, n)  x == View(d, n)
<1>1. p \in Nodes /\ Peer(p) = n
  BY Peers
<1>2. /\ IsView(v) /\ IsView(w) /\ IsView(x) /\ Widens(v, w)
      /\ Len(c.got[n]) \in Nat /\ Len(d.got[n]) \in Nat
      /\ Len(c.got[p]) \in Nat /\ Len(d.got[p]) \in Nat
  BY TurnCounts DEF Sound
<1>3. /\ d.sock[n] = Settled(u) /\ d.sock[p] = c.sock[p]
      /\ d.wrote[p] = c.wrote[p] /\ d.got[p] = c.got[p] /\ c.wrote[n] <= d.wrote[n]
      /\ (d.born = 0 => c.born = 0)
  BY DEF Sound, Turn
<1>4. d.sock[n].in = u.in /\ d.sock[n].st = u.st
  <2>1. IsBlock(u)
    BY HeldBlock DEF Sound
  <2> QED
    BY <1>3, <2>1, SettledIs
<1>5. c.wrote[n] \in Nat /\ d.wrote[n] \in Nat
  <2>1. MaxWrites[n] \in Nat
    BY Origins
  <2> QED
    BY <2>1 DEF Counts, Sound, Turn
<1>6. Reached(c, p) \subseteq Reached(d, p)
  <2>1. 1..c.wrote[n] \subseteq 1..d.wrote[n]
    BY <1>3, <1>5
  <2> QED
    BY <1>1, <1>3, <2>1 DEF Reached
<1>7. w.held \subseteq x.held
  <2>1. Alive(d, p) <=> Alive(c, p)
    BY <1>3 DEF Alive
  <2>2. w.held = v.held
    BY WithinFields
  <2>3. CASE Alive(c, p)
    <3>1. v.held = Reached(c, p) /\ x.held = Reached(d, p)
      BY <2>1, <2>3, ViewFields
    <3> QED
      BY <1>6, <2>2, <3>1
  <2>4. CASE ~Alive(c, p)
    <3>1. v.held = 1..c.wrote[n] /\ x.held = 1..d.wrote[n]
      BY <2>1, <2>4, ViewFields
    <3>2. 1..c.wrote[n] \subseteq 1..d.wrote[n]
      BY <1>3, <1>5
    <3> QED
      BY <2>2, <3>1, <3>2
  <2> QED
    BY <2>3, <2>4
<1>8. x.fin = "never" => w.fin = "never"
  <2>1. w.fin = v.fin
    BY WithinFields
  <2>2. x.fin = "never" => Closers = {} \/ d.born = 0 \/ d.sock[p].st = "SYN_RECV"
    BY ViewFields
  <2>3. Closers = {} \/ c.born = 0 \/ c.sock[p].st = "SYN_RECV" => v.fin = "never"
    BY ViewFields
  <2> QED
    BY <1>3, <2>1, <2>2, <2>3
<1>9. x.told = "exact" => w.told = "exact"
  <2>1. w.told = v.told
    BY WithinFields
  <2>2. x.told = "exact" => Closers = {} \/ d.born = 0 \/ d.sock[n].st = "SYN_RECV"
    BY ViewFields
  <2>3. Closers = {} \/ c.born = 0 \/ c.sock[n].st = "SYN_RECV" => v.told = "exact"
    BY ViewFields
  <2> QED
    BY <1>3, <1>4, <2>1, <2>2, <2>3 DEF Sound
<1>10. /\ x.iss = w.iss /\ x.base = w.base /\ x.riss = w.riss /\ x.rbase = w.rbase
       /\ x.len = w.len /\ x.rlen = w.rlen /\ x.had = w.had
  <2>1. /\ v.iss = First(n) /\ v.base = Base(n) /\ v.riss = First(p) /\ v.rbase = Base(p)
        /\ v.rlen = c.wrote[p]
    BY ViewFields
  <2>2. /\ x.iss = First(n) /\ x.base = Base(n) /\ x.riss = First(p) /\ x.rbase = Base(p)
        /\ x.rlen = d.wrote[p] /\ x.len = d.wrote[n] /\ x.had = 1..Len(d.got[n])
    BY ViewFields
  <2>3. /\ w.iss = v.iss /\ w.base = v.base /\ w.len = d.wrote[n]
        /\ w.riss = v.riss /\ w.rbase = v.rbase /\ w.rlen = v.rlen
        /\ w.had = 1..Len(d.got[n])
    BY WithinFields
  <2> HIDE DEF v, w, x, p
  <2> QED
    BY <1>3, <2>1, <2>2, <2>3
<1>11. w.len \in Nat /\ w.rlen \in Nat
  BY <1>2, ViewInts
<1>12. Reached(d, n) = Have(x, u.in)
  BY <1>2, <1>4, ReachedHave
<1> HIDE DEF v, w, x, p
<1>13. Widens(w, x)
  BY <1>7, <1>8, <1>9, <1>10, <1>11 DEF Widens
<1>14. Have(w, u.in) \subseteq Have(x, u.in)
  BY <1>2, <1>13, WidenHave
<1>15. Widens(v, x)
  BY <1>2, <1>13, WidensThenWidens
<1> QED
  BY <1>12, <1>13, <1>14, <1>15 DEF v, w, x

LEMMA TurnPeer ==
    ASSUME OneConnection, NEW c, NEW n \in Nodes, Counts(c, n), Counts(c, Peer(n)),
           NEW d, NEW u, NEW rest, Sound(c, d, n, u, rest)
    PROVE  Widens(View(c, Peer(n)), View(d, Peer(n)))
<1> DEFINE p == Peer(n)  v == View(c, p)  x == View(d, p)
<1>1. p \in Nodes /\ Peer(p) = n
  BY Peers
<1>2. /\ IsView(v) /\ IsView(x) /\ IsView(View(d, n)) /\ IsView(Within(c, d, n))
      /\ Len(c.got[n]) \in Nat /\ Len(d.got[n]) \in Nat
  BY TurnCounts DEF Sound
<1>3. /\ d.sock[n] = Settled(u) /\ d.sock[p] = c.sock[p]
      /\ d.wrote[p] = c.wrote[p] /\ d.got[p] = c.got[p] /\ c.wrote[n] <= d.wrote[n]
      /\ (d.born = 0 => c.born = 0)
  BY DEF Sound, Turn
<1>4. d.sock[n].in = u.in /\ d.sock[n].st = u.st /\ d.sock[n].gone = u.gone
  <2>1. IsBlock(u)
    BY HeldBlock DEF Sound
  <2> QED
    BY <1>3, <2>1, SettledIs
<1>5. v.held \subseteq x.held
  <2>1. c.wrote[p] \in Nat
    <3>1. MaxWrites[p] \in Nat
      BY <1>1, Origins
    <3> QED
      BY <3>1 DEF Counts
  <2>2. v.held \subseteq 1..c.wrote[p]
    <3>1. v.len = c.wrote[p]
      BY ViewFields
    <3> QED
      BY <1>2, <3>1, ViewInts
  <2>3. CASE ~Alive(d, n)
    <3>1. x.held = 1..d.wrote[p]
      BY <1>1, <2>3, ViewFields
    <3> QED
      BY <1>3, <2>2, <3>1
  <2>4. CASE Alive(d, n) /\ c.wrote[p] = 0
    BY <2>2, <2>4
  <2>5. CASE Alive(d, n) /\ Alive(c, n)
    <3>1. v.held = Reached(c, n) /\ x.held = Reached(d, n)
      BY <1>1, <2>5, ViewFields
    <3>2. u.st # "CLOSED"
      BY <1>4, <2>5 DEF Alive
    <3>3. Within(c, d, n).has \subseteq Have(Within(c, d, n), u.in)
      BY <3>2 DEF Sound, Held, Good
    <3>4. Within(c, d, n).has = Reached(c, n)
      <4>1. Within(c, d, n).has = View(c, n).has
        BY WithinFields
      <4>2. View(c, n).has = Reached(c, n)
        BY ViewFields
      <4> QED
        BY <4>1, <4>2
    <3>5. Have(Within(c, d, n), u.in) \subseteq Reached(d, n)
      BY TurnOwn
    <3> QED
      BY <3>1, <3>3, <3>4, <3>5
  <2>6. Alive(d, n) => Alive(c, n) \/ c.wrote[p] = 0
    BY <1>4 DEF Sound, Alive
  <2> QED
    BY <2>3, <2>4, <2>5, <2>6
<1>6. x.fin = "never" => v.fin = "never"
  <2>1. x.fin = "never" => Closers = {} \/ d.born = 0 \/ d.sock[n].st = "SYN_RECV"
    BY <1>1, ViewFields
  <2>2. Closers = {} \/ c.born = 0 \/ c.sock[n].st = "SYN_RECV" => v.fin = "never"
    BY <1>1, ViewFields
  <2> QED
    BY <1>3, <1>4, <2>1, <2>2 DEF Sound
<1>7. x.told = "exact" => v.told = "exact"
  <2>1. x.told = "exact" => Closers = {} \/ d.born = 0 \/ d.sock[p].st = "SYN_RECV"
    BY ViewFields
  <2>2. Closers = {} \/ c.born = 0 \/ c.sock[p].st = "SYN_RECV" => v.told = "exact"
    BY ViewFields
  <2> QED
    BY <1>3, <2>1, <2>2
<1>8. /\ x.iss = v.iss /\ x.base = v.base /\ x.riss = v.riss /\ x.rbase = v.rbase
      /\ x.len = v.len /\ v.rlen <= x.rlen /\ x.had = v.had
  <2>1. /\ v.iss = First(p) /\ v.base = Base(p) /\ v.riss = First(n) /\ v.rbase = Base(n)
        /\ v.rlen = c.wrote[n] /\ v.len = c.wrote[p] /\ v.had = 1..Len(c.got[p])
    BY <1>1, ViewFields
  <2>2. /\ x.iss = First(p) /\ x.base = Base(p) /\ x.riss = First(n) /\ x.rbase = Base(n)
        /\ x.rlen = d.wrote[n] /\ x.len = d.wrote[p] /\ x.had = 1..Len(d.got[p])
    BY <1>1, ViewFields
  <2> HIDE DEF v, x, p
  <2> QED
    BY <1>3, <2>1, <2>2
<1>9. v.len \in Nat
  BY <1>2, ViewInts
<1> HIDE DEF v, x
<1>10. Widens(v, x)
  BY <1>5, <1>6, <1>7, <1>8, <1>9 DEF Widens
<1> QED
  BY <1>10 DEF v, x

(* What one socket sends fits the view of the other.                       *)
LEMMA MailCrosses ==
    ASSUME NEW w, NEW H, NEW m, MailOut(w, H, m), NEW x,
           x.riss = w.iss, x.rbase = w.base, x.rlen = w.len, x.iss = w.riss, x.len = w.rlen,
           H \subseteq x.held, x.told = "exact" => w.fin = "never",
           x.fin = "never" => m.flags # "FINACK"
    PROVE  MailIn(x, m)
<1>1. m.sack \subseteq {Seq32(x.iss + k) : k \in x.held}
  BY DEF MailOut, Sacks
<1>2. x.told = "exact" /\ m.flags \in {"SYNACK", "ACK", "PSHACK"} =>
          m.ack \in {Seq32(x.iss + 1 + r) : r \in {y \in 0..x.len : 1..y \subseteq x.held}}
  <2> SUFFICES ASSUME x.told = "exact", m.flags \in {"SYNACK", "ACK", "PSHACK"}
               PROVE  m.ack \in {Seq32(x.iss + 1 + r) : r \in {y \in 0..x.len : 1..y \subseteq x.held}}
    OBVIOUS
  <2>1. m.ack \in Acks(w, H)
    BY DEF MailOut
  <2>2. PICK r \in {y \in 0..w.rlen : 1..y \subseteq H} : m.ack = Seq32(w.riss + 1 + r)
    BY <2>1 DEF Acks
  <2>3. r \in {y \in 0..x.len : 1..y \subseteq x.held}
    BY <2>2
  <2> QED
    BY <2>2, <2>3
<1> QED
  BY <1>1, <1>2 DEF MailIn, MailOut

LEMMA TurnSides ==
    ASSUME OneConnection, NEW c, NEW n \in Nodes, Side(c, n), Side(c, Peer(n)),
           NEW d, NEW u, NEW rest, Sound(c, d, n, u, rest)
    PROVE  Side(d, n) /\ Side(d, Peer(n))
<1> DEFINE p == Peer(n)  w == Within(c, d, n)
<1>1. p \in Nodes /\ Peer(p) = n
  BY Peers
<1>2. Counts(c, n) /\ Counts(c, p)
  BY DEF Side
<1>3. /\ Counts(d, n) /\ Counts(d, p)
      /\ IsView(View(c, n)) /\ IsView(View(c, p)) /\ IsView(View(d, n)) /\ IsView(View(d, p))
      /\ IsView(w) /\ Len(d.got[n]) \in Nat /\ Len(d.got[p]) \in Nat
  BY <1>2, TurnCounts DEF Sound
<1>4. /\ Widens(w, View(d, n)) /\ Have(w, u.in) \subseteq Reached(d, n)
      /\ Reached(d, n) = Have(View(d, n), u.in) /\ Widens(View(c, n), View(d, n))
  BY <1>2, TurnOwn
<1>5. Widens(View(c, p), View(d, p))
  BY <1>2, TurnPeer
<1>6. Side(d, n)
  <2>1. View(d, n).len = w.len /\ View(d, n).has = Reached(d, n)
    <3>1. View(d, n).len = d.wrote[n] /\ View(d, n).has = Reached(d, n)
      BY ViewFields
    <3>2. w.len = d.wrote[n]
      BY WithinFields
    <3> QED
      BY <3>1, <3>2
  <2>2. Held(w, u, Len(d.got[n]))
    BY DEF Sound
  <2> HIDE DEF w
  <2>3. Held(View(d, n), u, Len(d.got[n]))
    BY <1>3, <1>4, <2>1, <2>2, WidenHeld
  <2>4. d.sock[n] = Settled(u) /\ d.net[n] = rest
    BY DEF Sound, Turn
  <2>5. Held(View(d, n), d.sock[n], Len(d.got[n])) /\ d.sock[n].tx = <<>> /\ d.sock[n].lack = {}
    BY <2>3, <2>4, SentHeld
  <2>6. \A i \in DOMAIN rest : MailIn(View(d, n), rest[i])
    <3>1. \A j \in DOMAIN c.net[n] : MailIn(View(c, n), c.net[n][j])
      BY DEF Side
    <3>2. \A i \in DOMAIN rest : \E j \in DOMAIN c.net[n] : rest[i] = c.net[n][j]
      BY DEF Sound, Turn
    <3>3. \A m : MailIn(View(c, n), m) => MailIn(View(d, n), m)
      BY <1>3, <1>4, WidenMailIn
    <3> QED
      BY <3>1, <3>2, <3>3
  <2>7. rest \in Seq(Segments)
    BY DEF Sound, Turn
  <2> QED
    BY <1>3, <2>4, <2>5, <2>6, <2>7 DEF Side
<1>7. Side(d, p)
  <2>1. d.sock[p] = c.sock[p] /\ d.net[p] = c.net[p] \o u.tx /\ d.got[p] = c.got[p]
        /\ d.wrote[p] = c.wrote[p]
    BY DEF Sound, Turn
  <2>2. Held(View(c, p), c.sock[p], Len(c.got[p])) /\ c.sock[p].tx = <<>> /\ c.sock[p].lack = {}
    BY DEF Side
  <2>3. /\ View(d, p).len = View(c, p).len
        /\ View(d, p).has = Have(View(d, p), d.sock[p].in)
    <3>1. View(d, p).len = d.wrote[p] /\ View(c, p).len = c.wrote[p] /\ View(d, p).has = Reached(d, p)
      BY ViewFields
    <3>2. Have(View(d, p), d.sock[p].in) = Reached(d, p)
      BY <1>1, <1>3, ReachedHave
    <3> QED
      BY <2>1, <3>1, <3>2
  <2>4. Held(View(d, p), d.sock[p], Len(d.got[p]))
    BY <1>3, <1>5, <2>1, <2>2, <2>3, WidenHeld
  <2>5. \A j \in DOMAIN c.net[p] : MailIn(View(d, p), c.net[p][j])
    <3>1. \A j \in DOMAIN c.net[p] : MailIn(View(c, p), c.net[p][j])
      BY DEF Side
    <3> QED
      BY <1>3, <1>5, <3>1, WidenMailIn
  <2>6. Good(w, u)
    BY DEF Sound, Held
  <2>7. u.tx \in Seq(Segments) /\ c.net[p] \in Seq(Segments)
    BY <2>6 DEF Good, Sent, Side
  <2>8. \A i \in DOMAIN u.tx : MailIn(View(d, p), u.tx[i])
    <3> SUFFICES ASSUME NEW i \in DOMAIN u.tx PROVE MailIn(View(d, p), u.tx[i])
      OBVIOUS
    <3> DEFINE x == View(d, p)
    <3>1. MailOut(w, Have(w, u.in), u.tx[i])
      BY <2>6 DEF Good, Sent
    <3>2. /\ x.riss = First(n) /\ x.rbase = Base(n) /\ x.rlen = d.wrote[n]
          /\ x.iss = First(p) /\ x.len = c.wrote[p]
      BY <1>1, <2>1, ViewFields
    <3>3. /\ w.iss = First(n) /\ w.base = Base(n) /\ w.len = d.wrote[n]
          /\ w.riss = First(p) /\ w.rlen = c.wrote[p] /\ w.fin = View(c, n).fin
      <4>1. /\ w.iss = View(c, n).iss /\ w.base = View(c, n).base /\ w.len = d.wrote[n]
            /\ w.riss = View(c, n).riss /\ w.rlen = View(c, n).rlen /\ w.fin = View(c, n).fin
        BY WithinFields
      <4>2. /\ View(c, n).iss = First(n) /\ View(c, n).base = Base(n)
            /\ View(c, n).riss = First(p) /\ View(c, n).rlen = c.wrote[p]
        BY ViewFields
      <4> QED
        BY <4>1, <4>2
    <3>4. Have(w, u.in) \subseteq x.held
      <4>1. Have(w, u.in) \subseteq 1..c.wrote[p]
        BY <3>3, HaveUnits
      <4>2. CASE Alive(d, n)
        <5>1. x.held = Reached(d, n)
          BY <1>1, <4>2, ViewFields
        <5> QED
          BY <1>4, <5>1
      <4>3. CASE ~Alive(d, n)
        <5>1. x.held = 1..c.wrote[p]
          BY <1>1, <2>1, <4>3, ViewFields
        <5> QED
          BY <4>1, <5>1
      <4> QED
        BY <4>2, <4>3
    <3>5. x.told = "exact" => w.fin = "never"
      <4>1. x.told = "exact" => Closers = {} \/ d.born = 0 \/ d.sock[p].st = "SYN_RECV"
        BY ViewFields
      <4>2. Closers = {} \/ c.born = 0 \/ c.sock[p].st = "SYN_RECV" => View(c, n).fin = "never"
        BY ViewFields
      <4>3. d.born = 0 => c.born = 0
        BY DEF Sound, Turn
      <4> QED
        BY <2>1, <3>3, <4>1, <4>2, <4>3
    <3>6. x.fin = "never" => u.tx[i].flags # "FINACK"
      <4>1. x.fin = "never" => Closers = {} \/ d.born = 0 \/ d.sock[n].st = "SYN_RECV"
        BY <1>1, ViewFields
      <4>2. d.sock[n].st = u.st
        BY SentHeld DEF Sound, Turn
      <4>3. Closers = {} \/ u.st = "SYN_RECV" => NoFin(u.tx)
        BY <2>6 DEF Good
      <4>4. d.born = 0 => NoFin(u.tx)
        BY DEF Sound
      <4> QED
        BY <4>1, <4>2, <4>3, <4>4 DEF NoFin
    <3> HIDE DEF x, w
    <3>7. MailIn(x, u.tx[i])
      BY <3>1, <3>2, <3>3, <3>4, <3>5, <3>6, MailCrosses
    <3> QED
      BY <3>7 DEF x
  <2>9. /\ d.net[p] \in Seq(Segments)
        /\ \A i \in DOMAIN d.net[p] : MailIn(View(d, p), d.net[p][i])
    <3> DEFINE a == c.net[p]  b == u.tx
    <3>1. d.net[p] = a \o b /\ a \in Seq(Segments) /\ b \in Seq(Segments)
      BY <2>1, <2>7
    <3>2. \A i \in DOMAIN a : MailIn(View(d, p), a[i])
      BY <2>5
    <3>3. \A i \in DOMAIN b : MailIn(View(d, p), b[i])
      BY <2>8
    <3> HIDE DEF a, b
    <3> QED
      BY <3>1, <3>2, <3>3
  <2> QED
    BY <1>3, <2>1, <2>2, <2>4, <2>9 DEF Side
<1> QED
  BY <1>6, <1>7

(* What a socket may become before the listener has answered.              *)
Early(n, u) ==
    /\ n = "C" => /\ u.st \in {"CLOSED", "SYN_SENT"} /\ ~u.fin_tmr
                  /\ \A i \in DOMAIN u.tx : u.tx[i].flags \in {"SYN", "RST", "RSTACK"}
    /\ n = "S" => /\ Settled(u) = OpenSocket
                  /\ \A i \in DOMAIN u.tx : u.tx[i].flags \in {"RST", "RSTACK"}

LEMMA NoneSent ==
    ASSUME NEW t, IsBlock(t), t.tx = <<>>, t.lack = {}
    PROVE  Settled(t) = t
BY DEF IsBlock, Settled

LEMMA JoinAll ==
    ASSUME NEW a \in Seq(Segments), NEW b \in Seq(Segments), NEW F,
           \A i \in DOMAIN a : a[i].flags \in F, \A i \in DOMAIN b : b[i].flags \in F
    PROVE  \A i \in DOMAIN (a \o b) : (a \o b)[i].flags \in F
OBVIOUS

LEMMA TurnUnborn ==
    ASSUME NEW c, NEW n \in Nodes, NEW d, NEW u, NEW rest, NEW v, NEW read, Turn(c, d, n, u, rest),
           Held(v, u, read), Unborn(c), Early(n, u), d.wrote[n] = 0, c.net[Peer(n)] \in Seq(Segments)
    PROVE  Unborn(d)
<1>1. /\ d.sock[n] = Settled(u) /\ d.sock[Peer(n)] = c.sock[Peer(n)]
      /\ d.net[n] = rest /\ d.net[Peer(n)] = c.net[Peer(n)] \o u.tx
      /\ \A i \in DOMAIN rest : \E j \in DOMAIN c.net[n] : rest[i] = c.net[n][j]
      /\ d.wrote[Peer(n)] = c.wrote[Peer(n)]
  BY DEF Turn
<1>2. d.sock[n].st = u.st /\ d.sock[n].fin_tmr = u.fin_tmr /\ u.tx \in Seq(Segments)
  <2>1. u.tx \in Seq(Segments)
    BY DEF Held, Good, Sent
  <2> QED
    BY <1>1, <2>1, SentHeld
<1>3. CASE n = "C"
  <2>1. Peer(n) = "S"
    BY <1>3 DEF Peer
  <2>2. \A i \in DOMAIN c.net["S"] : c.net["S"][i].flags \in {"SYN", "RST", "RSTACK"}
    BY DEF Unborn
  <2>3. \A i \in DOMAIN u.tx : u.tx[i].flags \in {"SYN", "RST", "RSTACK"}
    BY <1>3 DEF Early
  <2>4. \A i \in DOMAIN d.net["S"] : d.net["S"][i].flags \in {"SYN", "RST", "RSTACK"}
    <3> DEFINE F == {"SYN", "RST", "RSTACK"}
               a == c.net["S"]
    <3>1. (\A i \in DOMAIN a : a[i].flags \in F) /\ (\A i \in DOMAIN u.tx : u.tx[i].flags \in F)
      BY <2>2, <2>3
    <3>2. d.net["S"] = a \o u.tx /\ a \in Seq(Segments)
      BY <1>1, <2>1
    <3> SUFFICES \A i \in DOMAIN d.net["S"] : d.net["S"][i].flags \in F
      OBVIOUS
    <3> HIDE DEF F, a
    <3> QED
      BY <1>2, <3>1, <3>2, JoinAll
  <2>5. \A i \in DOMAIN d.net["C"] : d.net["C"][i].flags \in {"RST", "RSTACK"}
    BY <1>1, <1>3 DEF Unborn
  <2> QED
    BY <1>1, <1>2, <1>3, <2>1, <2>4, <2>5 DEF Unborn, Early
<1>4. CASE n = "S"
  <2>1. Peer(n) = "C"
    BY <1>4 DEF Peer
  <2>2. \A i \in DOMAIN c.net["C"] : c.net["C"][i].flags \in {"RST", "RSTACK"}
    BY DEF Unborn
  <2>3. \A i \in DOMAIN u.tx : u.tx[i].flags \in {"RST", "RSTACK"}
    BY <1>4 DEF Early
  <2>4. \A i \in DOMAIN d.net["C"] : d.net["C"][i].flags \in {"RST", "RSTACK"}
    <3> DEFINE F == {"RST", "RSTACK"}
               a == c.net["C"]
    <3>1. (\A i \in DOMAIN a : a[i].flags \in F) /\ (\A i \in DOMAIN u.tx : u.tx[i].flags \in F)
      BY <2>2, <2>3
    <3>2. d.net["C"] = a \o u.tx /\ a \in Seq(Segments)
      BY <1>1, <2>1
    <3> SUFFICES \A i \in DOMAIN d.net["C"] : d.net["C"][i].flags \in F
      OBVIOUS
    <3> HIDE DEF F, a
    <3> QED
      BY <1>2, <3>1, <3>2, JoinAll
  <2>5. \A i \in DOMAIN d.net["S"] : d.net["S"][i].flags \in {"SYN", "RST", "RSTACK"}
    BY <1>1, <1>4 DEF Unborn
  <2>6. d.sock["S"] = OpenSocket
    BY <1>1, <1>4 DEF Early
  <2> QED
    BY <1>1, <1>4, <2>1, <2>4, <2>5, <2>6 DEF Unborn
<1> QED
  BY <1>3, <1>4 DEF Nodes

(* A step of one socket that opens no connection.                          *)
LEMMA StepCoherent ==
    ASSUME OneConnection, NEW c, Coherent(c), NEW n \in Nodes, NEW d, NEW u, NEW rest, Shape(d),
           Turn(c, d, n, u, rest), Held(Within(c, d, n), u, Len(d.got[n])), d.born = c.born,
           u.st \in {"SYN_SENT", "SYN_RECV"} =>
               u.st = c.sock[n].st /\ d.wrote[n] = c.wrote[n] /\ d.got[n] = c.got[n],
           u.st # "CLOSED" => c.sock[n].st # "CLOSED",
           n = "C" /\ u.st = "CLOSED" =>
               u.gone \/ (c.sock[n].st = "CLOSED" /\ u.gone = c.sock[n].gone),
           n = "C" /\ c.sock["C"] = OpenSocket => u = OpenSocket,
           c.born = 0 => Early(n, u) /\ d.wrote[n] = 0
    PROVE  Coherent(d)
<1> DEFINE p == Peer(n)
<1>1. p \in Nodes /\ Nodes = {n, p}
  BY Peers
<1>2. Side(c, n) /\ Side(c, p) /\ Stage(c)
  BY <1>1 DEF Coherent
<1>3. Sound(c, d, n, u, rest)
  <2>1. u.st # "CLOSED" => Alive(c, n)
    BY <1>2 DEF Side, Held, Phase, Alive
  <2>2. d.born = 0 => NoFin(u.tx)
    BY DEF Early, NoFin, Nodes
  <2> QED
    BY <2>1, <2>2 DEF Sound
<1>4. Side(d, n) /\ Side(d, p)
  BY <1>2, <1>3, TurnSides
<1>5. d.sock[n].st = u.st /\ d.sock[n].gone = u.gone /\ d.sock[p] = c.sock[p]
      /\ d.wrote[p] = c.wrote[p] /\ d.got[p] = c.got[p]
  <2>1. IsBlock(u) /\ d.sock[n] = Settled(u)
    BY HeldBlock DEF Turn
  <2>2. d.sock[p] = c.sock[p] /\ d.wrote[p] = c.wrote[p] /\ d.got[p] = c.got[p]
    BY DEF Turn
  <2> QED
    BY <2>1, <2>2, SettledIs
<1>6. d.sock["C"].st # "SYN_RECV" /\ d.sock["S"].st # "SYN_SENT"
  <2>1. c.sock["C"].st # "SYN_RECV" /\ c.sock["S"].st # "SYN_SENT"
    BY <1>2 DEF Stage
  <2>2. CASE n = "C"
    BY <1>5, <2>1, <2>2 DEF Peer
  <2>3. CASE n = "S"
    BY <1>5, <2>1, <2>3 DEF Peer
  <2> QED
    BY <2>2, <2>3 DEF Nodes
<1>7. \A k \in Nodes : d.sock[k].st \in {"SYN_SENT", "SYN_RECV"} => d.wrote[k] = 0 /\ d.got[k] = <<>>
  <2>1. \A k \in Nodes : c.sock[k].st \in {"SYN_SENT", "SYN_RECV"} => c.wrote[k] = 0 /\ c.got[k] = <<>>
    BY <1>2 DEF Stage
  <2>2. d.sock[n].st \in {"SYN_SENT", "SYN_RECV"} => d.wrote[n] = 0 /\ d.got[n] = <<>>
    BY <1>5, <2>1
  <2>3. d.sock[p].st \in {"SYN_SENT", "SYN_RECV"} => d.wrote[p] = 0 /\ d.got[p] = <<>>
    BY <1>1, <1>5, <2>1
  <2> QED
    BY <1>1, <2>2, <2>3
<1>8. d.born = 0 => Unborn(d)
  <2> SUFFICES ASSUME d.born = 0 PROVE Unborn(d)
    OBVIOUS
  <2>1. Unborn(c) /\ Early(n, u) /\ d.wrote[n] = 0 /\ c.net[p] \in Seq(Segments)
    BY <1>2 DEF Stage, Side
  <2> QED
    BY <2>1, TurnUnborn
<1>9. Started(d)
  <2>1. Started(c)
    BY <1>2 DEF Stage
  <2>2. u.gone => u.st = "CLOSED"
    BY DEF Held, Phase
  <2>3. c.sock[n].gone => c.sock[n].st = "CLOSED"
    BY <1>2 DEF Side, Held, Phase
  <2>4. /\ d.net[n] = rest /\ d.net[p] = c.net[p] \o u.tx
        /\ \A i \in DOMAIN rest : \E j \in DOMAIN c.net[n] : rest[i] = c.net[n][j]
        /\ d.sock[n] = Settled(u)
    BY DEF Turn
  <2>5. CASE n = "C"
    <3>1. CASE Alive(c, "C") \/ c.sock["C"].gone
      BY <1>5, <2>2, <2>3, <2>5, <3>1 DEF Alive, Started
    <3>2. CASE /\ c.sock["C"] = OpenSocket /\ c.born = 0
               /\ \A i \in DOMAIN c.net["S"] : c.net["S"][i].flags # "SYN"
      <4>1. u = OpenSocket /\ p = "S"
        BY <2>5, <3>2 DEF Peer
      <4>2. Settled(OpenSocket) = OpenSocket /\ OpenSocket.tx = <<>>
        <5>1. IsBlock(OpenSocket) /\ OpenSocket.tx = <<>> /\ OpenSocket.lack = {}
          BY OpenNumbers DEF OpenSocket
        <5> QED
          BY <5>1, NoneSent
      <4>3. c.net["S"] \in Seq(Segments)
        BY <1>2, <4>1 DEF Side
      <4>4. d.net["S"] = c.net["S"]
        BY <2>4, <4>1, <4>2, <4>3
      <4> QED
        BY <2>4, <2>5, <3>2, <4>1, <4>2, <4>4 DEF Started
    <3> QED
      BY <2>1, <3>1, <3>2 DEF Started
  <2>6. CASE n = "S"
    <3>1. p = "C" /\ d.sock["C"] = c.sock["C"]
      BY <1>5, <2>6 DEF Peer
    <3> QED
      BY <2>1, <2>4, <2>6, <3>1 DEF Started, Alive
  <2> QED
    BY <2>5, <2>6 DEF Nodes
<1> QED
  BY <1>1, <1>2, <1>4, <1>6, <1>7, <1>8, <1>9 DEF Coherent, Stage

-----------------------------------------------------------------------------
(* The actions.                                                            *)

PairInv == Coherent(Now) /\ faults \in 0..MaxFaults

Rest(n, rest) ==
    /\ rest \in Seq(Segments)
    /\ \A i \in DOMAIN rest : \E j \in DOMAIN net[n] : rest[i] = net[n][j]

LEMMA NowFields ==
    /\ Now.sock = sock /\ Now.net = net /\ Now.born = born /\ Now.wrote = wrote /\ Now.got = got
    /\ Now'.sock = sock' /\ Now'.net = net' /\ Now'.born = born' /\ Now'.wrote = wrote'
    /\ Now'.got = got'
BY DEF Now

LEMMA RestOf ==
    ASSUME NEW n, net[n] \in Seq(Segments)
    PROVE  /\ Rest(n, net[n])
           /\ net[n] # <<>> => Rest(n, Tail(net[n]))
           /\ \A i \in 2..Len(net[n]) : Rest(n, Drop(net[n], i))
<1> DEFINE q == net[n]
<1>1. Rest(n, q)
  BY DEF Rest
<1>2. q # <<>> => Rest(n, Tail(q))
  <2> SUFFICES ASSUME q # <<>> PROVE Rest(n, Tail(q))
    OBVIOUS
  <2>1. Tail(q) \in Seq(Segments) /\ \A i \in DOMAIN Tail(q) : i + 1 \in DOMAIN q /\ Tail(q)[i] = q[i + 1]
    BY q \in Seq(Segments), q # <<>>
  <2> QED
    BY <2>1 DEF Rest
<1>3. ASSUME NEW i \in 2..Len(q) PROVE Rest(n, Drop(q, i))
  <2> DEFINE r == Drop(q, i)
  <2>1. q \in Seq(Segments) /\ Len(q) \in Nat /\ DOMAIN q = 1..Len(q) /\ \A k \in 1..Len(q) : q[k] \in Segments
    OBVIOUS
  <2>2. \A j \in 1..(Len(q) - 1) : (IF j < i THEN j ELSE j + 1) \in 1..Len(q)
    BY <2>1
  <2>3. r = [j \in 1..(Len(q) - 1) |-> q[IF j < i THEN j ELSE j + 1]]
    BY DEF Drop
  <2>4. \A j \in 1..(Len(q) - 1) : r[j] \in Segments
    BY <2>1, <2>2, <2>3
  <2>5. r \in Seq(Segments)
    <3>1. Len(q) - 1 \in Nat
      BY <2>1
    <3>2. r \in [1..(Len(q) - 1) -> Segments]
      BY <2>3, <2>4
    <3> HIDE DEF r
    <3> QED
      BY <3>1, <3>2
  <2>6. DOMAIN r = 1..(Len(q) - 1)
    BY <2>3
  <2> HIDE DEF r
  <2>7. \A j \in DOMAIN r : \E k \in DOMAIN q : r[j] = q[k]
    BY <2>1, <2>2, <2>3, <2>6
  <2> QED
    BY <2>5, <2>7 DEF Rest, r
<1> QED
  BY <1>1, <1>2, <1>3

LEMMA ShapeIs ==
    ASSUME Coherent(Now)
    PROVE  /\ sock = [n \in Nodes |-> sock[n]] /\ net = [n \in Nodes |-> net[n]]
           /\ wrote = [n \in Nodes |-> wrote[n]] /\ got = [n \in Nodes |-> got[n]]
BY NowFields DEF Coherent, Shape

(* The block that lacks something is the block.                            *)
Alike(t, u) ==
    /\ u.tx = t.tx /\ u.st = t.st /\ u.gone = t.gone /\ u.fin_tmr = t.fin_tmr
    /\ u.retrans_tmr = t.retrans_tmr

LEMMA LackingHeld ==
    ASSUME NEW v, NEW n, NEW r, NEW read, Held(v, sock[n], read)
    PROVE  Held(v, Lacking(n, r), read) /\ Alike(sock[n], Lacking(n, r))
<1> DEFINE t == sock[n]  u == Lacking(n, r)
<1>1. IsBlock(t) /\ Good(v, t)
  BY DEF Held, Good
<1>2. /\ IsBlock(u) /\ Steady(t, u) /\ Keeps(t, u) /\ u.in = t.in /\ u.out = t.out /\ u.snd_nxt = t.snd_nxt
      /\ u.rcv_nxt = t.rcv_nxt /\ u.in_flight = t.in_flight /\ u.cwnd = t.cwnd /\ u.wnd = t.wnd
      /\ u.recv_wnd = t.recv_wnd /\ u.sacks = t.sacks /\ u.tx = t.tx /\ u.lack = r
  BY <1>1 DEF IsBlock, Steady, Keeps, Lacking
<1>3. Held(v, t, read)
  OBVIOUS
<1> HIDE DEF t, u
<1>4. Good(v, u)
  BY <1>1, <1>2 DEF Good, Numbers, Calm, Steady, Keeps, Sent
<1>5. Talks(u) => Ready(v, u)
  BY <1>2, <1>3 DEF Held, Talks, Ready, Steady
<1>6. Phase(v, u, read)
  BY <1>2, <1>3 DEF Held, Phase, Steady, Keeps, Dialling, Waiting, Opened, Botched
<1> QED
  BY <1>2, <1>4, <1>5, <1>6 DEF Held, u, t, Steady, Alike

LEMMA BecomesAnswers ==
    ASSUME Coherent(Now), NEW n \in Nodes, NEW u, Becomes(n, u)
    PROVE  Answers(n, u, net[n])
BY ShapeIs DEF Becomes, Answers, Nodes, Peer

LEMMA SideNow ==
    ASSUME OneConnection, Coherent(Now), NEW n \in Nodes
    PROVE  /\ IsView(View(Now, n)) /\ Held(View(Now, n), sock[n], Len(got[n])) /\ sock[n].tx = <<>>
           /\ net[n] \in Seq(Segments) /\ \A i \in DOMAIN net[n] : MailIn(View(Now, n), net[n][i])
           /\ Counts(Now, n) /\ Counts(Now, Peer(n))
           /\ sock[n].st \in {"SYN_SENT", "SYN_RECV"} => wrote[n] = 0 /\ got[n] = <<>>
           /\ View(Now, n).len = wrote[n] /\ Len(got[n]) \in Nat
           /\ sock[n].st = "SYN_RECV" => View(Now, n).told = "exact"
           /\ sock[n].lack = {}
<1>1. Side(Now, n) /\ Side(Now, Peer(n)) /\ Stage(Now)
  BY Peers DEF Coherent
<1>2. Counts(Now, n) /\ Counts(Now, Peer(n))
  BY <1>1 DEF Side
<1>3. IsView(View(Now, n))
  BY <1>2, ViewIs
<1>4. View(Now, n).len = wrote[n] /\ (sock[n].st = "SYN_RECV" => View(Now, n).told = "exact")
  BY NowFields, ViewFields
<1>5. Len(got[n]) \in Nat
  BY <1>2, NowFields DEF Counts
<1>6. sock[n].st \in {"SYN_SENT", "SYN_RECV"} => wrote[n] = 0 /\ got[n] = <<>>
  BY <1>1, NowFields DEF Stage
<1> QED
  BY <1>1, <1>2, <1>3, <1>4, <1>5, <1>6, NowFields DEF Side

LEMMA WithinSame ==
    ASSUME NEW c, NEW d, NEW n, d.wrote = c.wrote, d.got = c.got
    PROVE  Within(c, d, n) = View(c, n)
<1> DEFINE a == First(n)  b == Base(n)  e == First(Peer(n))  f == Base(Peer(n))
           l == c.wrote[n]  k == c.wrote[Peer(n)]  g == 1..Len(c.got[n])  h == Reached(c, n)
           i == IF Alive(c, Peer(n)) THEN Reached(c, Peer(n)) ELSE 1..c.wrote[n]
           x == IF Closers = {} \/ c.born = 0 \/ c.sock[Peer(n)].st = "SYN_RECV" THEN "never" ELSE "may"
           y == IF Closers = {} \/ c.born = 0 \/ c.sock[n].st = "SYN_RECV" THEN "exact" ELSE "unsure"
           v == [iss |-> a, base |-> b, len |-> l, riss |-> e, rbase |-> f, rlen |-> k,
                 had |-> g, has |-> h, held |-> i, fin |-> x, told |-> y]
<1>1. View(c, n) = v
  BY DEF View
<1>2. Within(c, d, n) = [View(c, n) EXCEPT !.len = l, !.had = g]
  BY DEF Within
<1> HIDE DEF a, b, e, f, l, k, g, h, i, x, y
<1>3. [v EXCEPT !.len = l, !.had = g] = v
  <2> DEFINE w == [v EXCEPT !.len = l, !.had = g]
  <2>1. /\ DOMAIN v = {"iss", "base", "len", "riss", "rbase", "rlen", "had", "has", "held", "fin", "told"}
        /\ v = [z \in DOMAIN v |-> v[z]] /\ v.len = l /\ v.had = g
    OBVIOUS
  <2> HIDE DEF v
  <2>2. DOMAIN w = DOMAIN v /\ w = [z \in DOMAIN v |-> w[z]]
    BY <2>1
  <2>3. \A z \in DOMAIN v : w[z] = v[z]
    BY <2>1
  <2> HIDE DEF w
  <2>4. w = v
    BY <2>1, <2>2, <2>3
  <2> QED
    BY <2>4 DEF w
<1> HIDE DEF v
<1> QED
  BY <1>1, <1>2, <1>3

(* A step that neither reads nor writes.                                   *)
LEMMA PlainTurn ==
    ASSUME OneConnection, Coherent(Now), NEW n \in Nodes, NEW u, NEW rest, Answers(n, u, rest),
           UNCHANGED <<wrote, got>>, born' = 0 => born = 0, Rest(n, rest)
    PROVE  Shape(Now') /\ Turn(Now, Now', n, u, rest) /\ Within(Now, Now', n) = View(Now, n)
<1>1. Peer(n) \in Nodes /\ Peer(n) # n
  BY Peers
<1>2. /\ sock' = [sock EXCEPT ![n] = Settled(u)]
      /\ net' = [net EXCEPT ![n] = rest, ![Peer(n)] = @ \o u.tx]
      /\ wrote' = wrote /\ got' = got
  BY DEF Answers
<1>3. /\ sock'[n] = Settled(u) /\ sock'[Peer(n)] = sock[Peer(n)]
      /\ net'[n] = rest /\ net'[Peer(n)] = net[Peer(n)] \o u.tx
      /\ sock' = [k \in Nodes |-> sock'[k]] /\ net' = [k \in Nodes |-> net'[k]]
  BY <1>1, <1>2, ShapeIs
<1>4. Shape(Now')
  BY <1>2, <1>3, ShapeIs, NowFields DEF Shape
<1>5. Counts(Now', n) /\ wrote[n] <= wrote'[n] /\ Len(got[n]) <= Len(got'[n])
  <2>1. Counts(Now, n) /\ Len(got[n]) \in Nat
    BY SideNow
  <2>2. wrote[n] \in Nat
    BY <2>1, Origins, NowFields DEF Counts
  <2> QED
    BY <1>2, <2>1, <2>2, NowFields DEF Counts
<1>6. Turn(Now, Now', n, u, rest)
  BY <1>2, <1>3, <1>5, NowFields DEF Turn, Rest
<1>7. Within(Now, Now', n) = View(Now, n)
  BY <1>2, NowFields, WithinSame
<1> QED
  BY <1>4, <1>6, <1>7

LEMMA PlainStep ==
    ASSUME OneConnection, Coherent(Now), NEW n \in Nodes, NEW u, NEW rest, Answers(n, u, rest),
           UNCHANGED <<born, wrote, got>>, Rest(n, rest),
           Held(View(Now, n), u, Len(got[n])), Follows(sock[n], u), born = 0 => Early(n, u),
           n = "C" /\ sock["C"] = OpenSocket => u = OpenSocket
    PROVE  Coherent(Now')
<1>1. Shape(Now') /\ Turn(Now, Now', n, u, rest) /\ Within(Now, Now', n) = View(Now, n)
  BY PlainTurn
<1>2. Held(Within(Now, Now', n), u, Len(Now'.got[n]))
  BY <1>1, NowFields
<1>3. Now'.born = Now.born /\ Now'.wrote[n] = Now.wrote[n] /\ Now'.got[n] = Now.got[n]
  BY NowFields
<1>4. Now.born = 0 => Early(n, u) /\ Now'.wrote[n] = 0
  BY <1>3, NowFields DEF Coherent, Stage, Unborn, Nodes
<1>5. /\ u.st \in {"SYN_SENT", "SYN_RECV"} => u.st = Now.sock[n].st
      /\ u.st # "CLOSED" => Now.sock[n].st # "CLOSED"
      /\ u.st = "CLOSED" => u.gone \/ (Now.sock[n].st = "CLOSED" /\ u.gone = Now.sock[n].gone)
  BY NowFields DEF Follows
<1>6. n = "C" /\ Now.sock["C"] = OpenSocket => u = OpenSocket
  BY NowFields
<1> HIDE DEF Now
<1> QED
  BY <1>1, <1>2, <1>3, <1>4, <1>5, <1>6, StepCoherent

(* The stage before the listener answers, seen from the variables.         *)
LEMMA UnbornNow ==
    ASSUME Coherent(Now)
    PROVE  /\ born \in 0..1
           /\ born = 0 => /\ sock["S"] = OpenSocket
                          /\ sock["C"].st \in {"CLOSED", "SYN_SENT"} /\ ~sock["C"].fin_tmr
                          /\ wrote["C"] = 0 /\ wrote["S"] = 0
                          /\ \A i \in DOMAIN net["S"] : net["S"][i].flags \in {"SYN", "RST", "RSTACK"}
                          /\ \A i \in DOMAIN net["C"] : net["C"][i].flags \in {"RST", "RSTACK"}
           /\ \/ Live("C") \/ sock["C"].gone
              \/ /\ sock["C"] = OpenSocket /\ born = 0
                 /\ \A i \in DOMAIN net["S"] : net["S"][i].flags # "SYN"
           /\ sock["C"].st # "SYN_RECV" /\ sock["S"].st # "SYN_SENT"
BY NowFields DEF Coherent, Stage, Unborn, Started, Alive, Live

LEMMA FollowsSelf ==
    ASSUME NEW t
    PROVE  Follows(t, t)
BY DEF Follows

(* Before the listener answers, a reset is all that reaches the client.    *)
LEMMA RstInput ==
    ASSUME NEW t, IsBlock(t), NEW m, IsRst(m)
    PROVE  LET u == pico_tcp_input(t, m) IN u.st \in {t.st, "CLOSED"} /\ u.fin_tmr = t.fin_tmr
<1> DEFINE u == pico_tcp_input(t, m)
<1>1. CASE m.flags \notin ValidFlags(t.st)
  <2> DEFINE q == t.tx \o ReplyRst(m)
  <2>1. u = [t EXCEPT !.tx = q]
    BY <1>1 DEF pico_tcp_input
  <2> HIDE DEF q
  <2> QED
    BY <2>1 DEF IsBlock
<1>2. CASE m.flags \in ValidFlags(t.st)
  <2>1. u = t \/ u = tcp_rst(t, m)
    BY <1>2, InputOf DEF IsRst
  <2>2. tcp_rst(t, m) = t \/ tcp_rst(t, m) = pico_socket_del(t)
    BY DEF tcp_rst
  <2>3. pico_socket_del(t).st = "CLOSED" /\ pico_socket_del(t).fin_tmr = t.fin_tmr
    BY DEF IsBlock, pico_socket_del
  <2> HIDE DEF u
  <2>4. u.st \in {t.st, "CLOSED"} /\ u.fin_tmr = t.fin_tmr
    BY <2>1, <2>2, <2>3
  <2> QED
    BY <2>4 DEF u
<1> QED
  BY <1>1, <1>2

(* Nobody takes the segment.                                               *)
LEMMA IdleStep ==
    ASSUME OneConnection, Coherent(Now), NEW n \in Nodes, NEW rest, Rest(n, rest),
           net' = [net EXCEPT ![n] = rest], UNCHANGED <<sock, born, wrote, got>>
    PROVE  Coherent(Now')
<1> DEFINE t == sock[n]
<1>1. Held(View(Now, n), t, Len(got[n])) /\ t.tx = <<>> /\ t.lack = {}
  BY SideNow
<1>2. IsBlock(t)
  BY <1>1 DEF Held, Good
<1>3. Settled(t) = t
  BY <1>1, <1>2, NoneSent
<1>4. Answers(n, t, rest)
  <2>1. Peer(n) \in Nodes /\ Peer(n) # n
    BY Peers
  <2>2. net[Peer(n)] \in Seq(Segments)
    BY <2>1, SideNow
  <2>3. net[Peer(n)] \o t.tx = net[Peer(n)]
    BY <1>1, <2>2
  <2>4. sock' = [sock EXCEPT ![n] = t]
    BY ShapeIs
  <2>5. net' = [net EXCEPT ![n] = rest, ![Peer(n)] = @ \o t.tx]
    BY <2>1, <2>3, ShapeIs
  <2> QED
    BY <1>3, <2>4, <2>5 DEF Answers
<1>5. born = 0 => Early(n, t)
  BY <1>1, <1>3, UnbornNow DEF Early, Nodes
<1> QED
  BY <1>1, <1>4, <1>5, FollowsSelf, PlainStep

LEMMA LiveStep ==
    ASSUME OneConnection, Coherent(Now), NEW n \in Nodes, NEW m, MailIn(View(Now, n), m),
           born = 0 /\ n = "C" => IsRst(m), NEW rest, Rest(n, rest), Live(n), NEW r,
           Answers(n, pico_tcp_input(Lacking(n, r), m), rest), UNCHANGED <<born, wrote, got>>
    PROVE  Coherent(Now')
<1> DEFINE t == Lacking(n, r)  u == pico_tcp_input(t, m)  v == View(Now, n)
<1>7. /\ Held(v, t, Len(got[n])) /\ t.tx = sock[n].tx /\ t.st = sock[n].st
      /\ t.gone = sock[n].gone /\ t.fin_tmr = sock[n].fin_tmr
  <2>1. IsView(v) /\ Held(v, sock[n], Len(got[n]))
    BY SideNow
  <2>2. Held(v, t, Len(got[n])) /\ Alike(sock[n], t)
    BY <2>1, LackingHeld
  <2> QED
    BY <2>1, <2>2 DEF Alike
<1>1. /\ IsView(v) /\ Held(v, t, Len(got[n])) /\ t.tx = <<>> /\ v.len = wrote[n]
      /\ t.st \in {"SYN_SENT", "SYN_RECV"} => wrote[n] = 0 /\ got[n] = <<>>
      /\ t.st = "SYN_RECV" => v.told = "exact"
  BY <1>7, SideNow
<1>2. t.st \in {"SYN_SENT", "SYN_RECV"} => v.len = 0 /\ Len(got[n]) = 0
  BY <1>1
<1>3. t.st # "CLOSED" /\ IsBlock(t)
  BY <1>1, <1>7 DEF Live, Held, Good
<1>4. Held(v, u, Len(got[n])) /\ Follows(t, u) /\ (IsRst(m) => u.tx = t.tx)
  BY <1>1, <1>2, <1>3, InputHeld
<1>5. born = 0 => Early(n, u)
  <2> SUFFICES ASSUME born = 0 PROVE Early(n, u)
    OBVIOUS
  <2>1. n = "C"
    BY <1>3, <1>7, UnbornNow DEF Nodes, OpenSocket
  <2>2. t.st \in {"CLOSED", "SYN_SENT"} /\ ~t.fin_tmr
    BY <1>7, <2>1, UnbornNow
  <2>3. u.st \in {t.st, "CLOSED"} /\ u.fin_tmr = t.fin_tmr
    BY <1>3, <2>1, RstInput
  <2>4. u.tx = <<>>
    BY <1>1, <1>4, <2>1
  <2> HIDE DEF t, u
  <2> QED
    BY <2>1, <2>2, <2>3, <2>4 DEF Early
<1>6. sock[n] # OpenSocket
  BY <1>3, <1>7 DEF OpenSocket
<1>8. Follows(sock[n], u)
  BY <1>4, <1>7 DEF Follows
<1> HIDE DEF u
<1> QED
  BY <1>4, <1>5, <1>6, <1>8, PlainStep DEF u

(* The listener answers what belongs to no connection with a reset.        *)
LEMMA ResetStep ==
    ASSUME OneConnection, Coherent(Now), NEW n \in Nodes, n = "S", NEW m \in Segments,
           NEW rest, Rest(n, rest),
           net' = [net EXCEPT ![n] = rest, ![Peer(n)] = @ \o ReplyRst(m)],
           UNCHANGED <<sock, born, wrote, got>>
    PROVE  Coherent(Now')
<1> DEFINE t == sock[n]  u == [t EXCEPT !.tx = @ \o ReplyRst(m)]  v == View(Now, n)
<1>1. IsView(v) /\ Held(v, t, Len(got[n])) /\ t.tx = <<>> /\ t.lack = {}
  BY SideNow
<1>2. IsBlock(t)
  BY <1>1 DEF Held, Good
<1>3. /\ Held(v, u, Len(got[n])) /\ Follows(t, u) /\ u.tx = t.tx \o ReplyRst(m)
  <2> HIDE DEF t, v
  <2> QED
    BY <1>1, ReplyFollows
<1>4. /\ ReplyRst(m) \in Seq(Segments)
      /\ \A i \in DOMAIN ReplyRst(m) : ReplyRst(m)[i].flags \in {"RST", "RSTACK"}
  BY <1>1, ReplyMail
<1>5. u.tx = ReplyRst(m)
  BY <1>1, <1>3, <1>4
<1>6. Settled(u) = t
  <2> DEFINE q == t.tx \o ReplyRst(m)
  <2>1. u = [t EXCEPT !.tx = q]
    OBVIOUS
  <2> HIDE DEF q, t
  <2> QED
    BY <1>1, <1>2, <2>1 DEF IsBlock, Settled
<1>7. Answers(n, u, rest)
  <2>1. sock' = [sock EXCEPT ![n] = t]
    BY ShapeIs
  <2> QED
    BY <1>5, <1>6, <2>1 DEF Answers
<1>8. born = 0 => Early(n, u)
  BY <1>4, <1>5, <1>6, UnbornNow DEF Early
<1> HIDE DEF u
<1> QED
  BY <1>3, <1>7, <1>8, PlainStep

(* A socket that opens: nothing has been written or read yet.              *)
LEMMA OpenSides ==
    ASSUME OneConnection, Coherent(Now), born = 0, NEW n \in Nodes, NEW u, NEW rest,
           Answers(n, u, rest), UNCHANGED <<wrote, got>>, Rest(n, rest),
           Held(View(Now, n), u, 0), born' = 0 => NoFin(u.tx)
    PROVE  /\ Shape(Now') /\ Side(Now', n) /\ Side(Now', Peer(n)) /\ Turn(Now, Now', n, u, rest)
           /\ \A k \in Nodes : Now'.wrote[k] = 0 /\ Now'.got[k] = <<>>
<1>1. wrote["C"] = 0 /\ wrote["S"] = 0
  BY UnbornNow
<1>2. ASSUME NEW k \in Nodes PROVE wrote[k] = 0 /\ got[k] = <<>>
  <2>1. Counts(Now, k) /\ Peer(k) \in Nodes
    BY SideNow, Peers
  <2>2. got[k] \in Seq(Nat) /\ Len(got[k]) <= 0
    BY <1>1, <2>1, NowFields DEF Counts, Nodes
  <2>3. got[k] = <<>>
    BY <2>2
  <2> QED
    BY <1>1, <2>3 DEF Nodes
<1>3. Peer(n) \in Nodes
  BY Peers
<1>4. Shape(Now') /\ Turn(Now, Now', n, u, rest) /\ Within(Now, Now', n) = View(Now, n)
  BY PlainTurn
<1>5. Now'.wrote = wrote /\ Now'.got = got /\ Now.wrote = wrote /\ Now.born = 0 /\ Now'.born = born'
  BY NowFields
<1>6. Len(Now'.got[n]) = 0
  BY <1>2, <1>5
<1>7. Sound(Now, Now', n, u, rest)
  BY <1>2, <1>3, <1>4, <1>5, <1>6 DEF Sound
<1>8. Side(Now, n) /\ Side(Now, Peer(n))
  BY <1>3 DEF Coherent
<1>9. Side(Now', n) /\ Side(Now', Peer(n))
  BY <1>7, <1>8, TurnSides
<1> QED
  BY <1>2, <1>4, <1>5, <1>9

LEMMA FreshView ==
    ASSUME OneConnection, Coherent(Now), born = 0, NEW n \in Nodes
    PROVE  LET v == View(Now, n)
           IN  /\ IsView(v) /\ v.len = 0 /\ v.has = {}
               /\ v.iss = First(n) /\ v.riss = First(Peer(n))
<1>1. wrote["C"] = 0 /\ wrote["S"] = 0
  BY UnbornNow
<1>2. wrote[n] = 0 /\ wrote[Peer(n)] = 0
  BY <1>1, Peers DEF Nodes
<1>3. Reached(Now, n) = {}
  BY <1>2, NowFields DEF Reached
<1>4. IsView(View(Now, n))
  BY SideNow
<1> QED
  BY <1>2, <1>3, <1>4, NowFields, ViewFields

LEMMA ConnectStep ==
    ASSUME OneConnection, Coherent(Now), Connect
    PROVE  Coherent(Now')
<1> DEFINE u == pico_tcp_initconn([OpenSocket EXCEPT !.st = "SYN_SENT"], Iss[1])  v == View(Now, "C")
<1>1. sock["C"] = OpenSocket /\ Becomes("C", u) /\ UNCHANGED <<born, wrote, got, faults>>
  BY DEF Connect
<1>2. "C" \in Nodes /\ Peer("C") = "S" /\ "S" \in Nodes
  BY DEF Nodes, Peer
<1>3. born = 0
  BY <1>1, UnbornNow DEF Live, OpenSocket
<1>4. IsView(v) /\ v.len = 0 /\ v.has = {} /\ v.iss = Iss[1]
  BY <1>2, <1>3, FreshView DEF First
<1>5. /\ Held(v, u, 0) /\ u.st = "SYN_SENT" /\ ~u.gone /\ ~u.fin_tmr
      /\ \A i \in DOMAIN u.tx : u.tx[i].flags = "SYN"
  <2> HIDE DEF v
  <2> QED
    BY <1>4, ConnectHeld
<1> HIDE DEF u, v
<1>6. Answers("C", u, net["C"]) /\ Rest("C", net["C"])
  BY <1>1, <1>2, BecomesAnswers, SideNow, RestOf
<1>7. NoFin(u.tx)
  BY <1>5 DEF NoFin
<1>8. /\ Shape(Now') /\ Side(Now', "C") /\ Side(Now', "S") /\ Turn(Now, Now', "C", u, net["C"])
      /\ \A k \in Nodes : Now'.wrote[k] = 0 /\ Now'.got[k] = <<>>
  BY <1>1, <1>2, <1>3, <1>5, <1>6, <1>7, OpenSides DEF v
<1>9. Early("C", u)
  BY <1>5 DEF Early
<1>10. Unborn(Now')
  <2>1. Unborn(Now) /\ Now.net["S"] \in Seq(Segments)
    BY <1>2, <1>3, NowFields, SideNow DEF Coherent, Stage
  <2> QED
    BY <1>2, <1>5, <1>8, <1>9, <2>1, TurnUnborn
<1>11. Now'.sock["C"].st = "SYN_SENT" /\ ~Now'.sock["C"].gone /\ Now'.sock["S"] = OpenSocket
  <2>1. IsBlock(u) /\ Now'.sock["C"] = Settled(u)
    BY <1>5, <1>8, HeldBlock DEF Turn
  <2>2. Settled(u).st = u.st /\ Settled(u).gone = u.gone
    BY <2>1, SettledIs
  <2>3. Now'.sock["S"] = OpenSocket
    BY <1>10 DEF Unborn
  <2> QED
    BY <1>5, <2>1, <2>2, <2>3
<1>12. Stage(Now')
  <2>1. Now'.born = 0
    BY <1>1, <1>3, NowFields
  <2>2. Now'.sock["S"].st = "CLOSED"
    BY <1>11 DEF OpenSocket
  <2> QED
    BY <1>8, <1>10, <1>11, <2>1, <2>2 DEF Stage, Started, Alive
<1> QED
  BY <1>2, <1>8, <1>12 DEF Coherent, Nodes

LEMMA BirthStep ==
    ASSUME OneConnection, Coherent(Now), NEW i \in DOMAIN net["S"], NEW m, m = net["S"][i],
           m.flags = "SYN", born < MaxBorn, NEW rest, Rest("S", rest),
           Answers("S", ChildOf(m, Iss[born + 2]), rest), born' = born + 1,
           wrote' = [wrote EXCEPT !["S"] = 0], got' = [got EXCEPT !["S"] = <<>>]
    PROVE  Coherent(Now')
<1> DEFINE u == ChildOf(m, Iss[2])  v == View(Now, "S")
<1>1. "C" \in Nodes /\ Peer("S") = "C" /\ "S" \in Nodes
  BY DEF Nodes, Peer
<1>2. born = 0
  BY UnbornNow DEF MaxBorn, OneConnection
<1>3. Answers("S", u, rest) /\ born' = 1
  BY <1>2
<1>4. UNCHANGED <<wrote, got>>
  <2>1. wrote["S"] = 0 /\ wrote["C"] = 0
    BY <1>2, UnbornNow
  <2>2. got["S"] \in Seq(Nat) /\ Len(got["S"]) <= 0
    BY <1>1, <2>1, SideNow, NowFields DEF Counts
  <2>3. got["S"] = <<>>
    BY <2>2
  <2> QED
    BY <1>1, <2>1, <2>3, ShapeIs
<1>5. IsView(v) /\ v.len = 0 /\ v.has = {} /\ v.iss = Iss[2] /\ v.riss = First("C")
  BY <1>1, <1>2, FreshView DEF First
<1>6. MailIn(v, m)
  BY <1>1, SideNow
<1>7. m \in Segments /\ m.seq = v.riss
  BY <1>6 DEF MailIn
<1>8. Held(v, u, 0) /\ u.st = "SYN_RECV"
  <2> HIDE DEF v
  <2> QED
    BY <1>5, <1>7, ChildHeld
<1> HIDE DEF u, v
<1>9. /\ Shape(Now') /\ Side(Now', "C") /\ Side(Now', "S") /\ Turn(Now, Now', "S", u, rest)
      /\ \A k \in Nodes : Now'.wrote[k] = 0 /\ Now'.got[k] = <<>>
  BY <1>1, <1>2, <1>3, <1>4, <1>8, OpenSides DEF v
<1>10. Now'.sock["S"].st = "SYN_RECV" /\ Now'.sock["C"] = sock["C"]
  <2>1. IsBlock(u) /\ Now'.sock["S"] = Settled(u) /\ Now'.sock["C"] = sock["C"]
    BY <1>1, <1>8, <1>9, HeldBlock, NowFields DEF Turn
  <2>2. Settled(u).st = u.st
    BY <2>1, SettledIs
  <2> QED
    BY <1>8, <2>1, <2>2
<1>11. Alive(Now', "C") \/ Now'.sock["C"].gone
  BY <1>10, UnbornNow DEF Alive, Live
<1>12. Stage(Now')
  <2>1. Now'.born = 1 /\ Now'.sock["C"].st # "SYN_RECV"
    BY <1>3, <1>10, NowFields, UnbornNow
  <2> QED
    BY <1>9, <1>10, <1>11, <2>1 DEF Stage, Started
<1> QED
  BY <1>1, <1>9, <1>12 DEF Coherent, Nodes

(* pico_socket_tcp_deliver, whatever the network does.                     *)
LEMMA ReceiveStep ==
    ASSUME OneConnection, Coherent(Now), NEW n \in Nodes, NEW i \in DOMAIN net[n], NEW m,
           m = net[n][i], NEW rest, Rest(n, rest), Receive(n, m, rest)
    PROVE  Coherent(Now')
<1>1. MailIn(View(Now, n), m)
  BY SideNow
<1>2. m \in Segments
  BY <1>1 DEF MailIn
<1>3. born = 0 /\ n = "C" => IsRst(m)
  BY UnbornNow DEF IsRst
<1>4. CASE /\ Live(n) /\ \E r \in Shortages : Answers(n, pico_tcp_input(Lacking(n, r), m), rest)
           /\ UNCHANGED <<born, wrote, got>>
  BY <1>1, <1>3, <1>4, LiveStep
<1>5. CASE /\ ~Live(n) /\ n = "S" /\ m.flags = "SYN" /\ ~sock[n].gone /\ born < MaxBorn
           /\ Answers(n, ChildOf(m, Iss[born + 2]), rest)
           /\ born' = born + 1
           /\ wrote' = [wrote EXCEPT ![n] = 0] /\ got' = [got EXCEPT ![n] = <<>>]
  BY <1>5, BirthStep
<1>6. CASE /\ ~Live(n) /\ n = "S" /\ m.flags # "SYN"
           /\ net' = [net EXCEPT ![n] = rest, ![Peer(n)] = @ \o ReplyRst(m)]
           /\ UNCHANGED <<sock, born, wrote, got>>
  BY <1>2, <1>6, ResetStep
<1>7. CASE /\ ~Live(n) /\ (n = "C" \/ (m.flags = "SYN" /\ born = MaxBorn))
           /\ net' = [net EXCEPT ![n] = rest]
           /\ UNCHANGED <<sock, born, wrote, got>>
  BY <1>7, IdleStep
<1> QED
  BY <1>4, <1>5, <1>6, <1>7 DEF Receive

LEMMA BecomesStep ==
    ASSUME OneConnection, Coherent(Now), NEW n \in Nodes, NEW u, Becomes(n, u),
           UNCHANGED <<born, wrote, got>>, Held(View(Now, n), u, Len(got[n])), Follows(sock[n], u),
           born = 0 => Early(n, u), sock[n] # OpenSocket
    PROVE  Coherent(Now')
<1>1. Answers(n, u, net[n])
  BY BecomesAnswers
<1>2. Rest(n, net[n])
  BY SideNow, RestOf
<1> QED
  BY <1>1, <1>2, PlainStep

(* A live socket: the client, if the listener has not answered yet.        *)
LEMMA LiveNow ==
    ASSUME OneConnection, Coherent(Now), NEW n \in Nodes, Live(n)
    PROVE  /\ sock[n].st # "CLOSED" /\ sock[n] # OpenSocket
           /\ born = 0 => n = "C" /\ sock[n].st = "SYN_SENT" /\ ~sock[n].fin_tmr
<1>1. sock[n].st # "CLOSED" /\ sock[n] # OpenSocket
  BY DEF Live, OpenSocket
<1> QED
  BY <1>1, UnbornNow DEF Nodes

LEMMA ShutdownStep ==
    ASSUME OneConnection, Coherent(Now), NEW n \in Nodes, ShutdownRd(n) \/ ShutdownWr(n) \/ Close(n)
    PROVE  Coherent(Now')
<1>1. n \in Closers /\ Live(n) /\ UNCHANGED <<born, wrote, got>>
  BY DEF ShutdownRd, ShutdownWr, Close
<1>2. PICK r : \/ Becomes(n, [sock[n] EXCEPT !.shutR = TRUE])
               \/ Becomes(n, pico_socket_shutdown_wr(Lacking(n, r)))
               \/ Becomes(n, pico_socket_close(Lacking(n, r)))
  BY DEF ShutdownRd, ShutdownWr, Close
<1>3. IsView(View(Now, n)) /\ Held(View(Now, n), sock[n], Len(got[n])) /\ sock[n].tx = <<>>
  BY SideNow
<1>4. /\ sock[n].st # "CLOSED" /\ sock[n] # OpenSocket
      /\ born = 0 => n = "C" /\ sock[n].st = "SYN_SENT" /\ ~sock[n].fin_tmr
  BY <1>1, LiveNow
<1>5. ASSUME NEW t, Held(View(Now, n), t, Len(got[n])), t.tx = sock[n].tx, t.st = sock[n].st,
             t.gone = sock[n].gone, t.fin_tmr = sock[n].fin_tmr,
             NEW u \in {[t EXCEPT !.shutR = TRUE], pico_socket_shutdown_wr(t), pico_socket_close(t)},
             Becomes(n, u)
      PROVE  Coherent(Now')
  <2>1. /\ Held(View(Now, n), u, Len(got[n])) /\ Follows(t, u)
        /\ t.st = "SYN_SENT" => u.st = t.st /\ u.tx = t.tx /\ u.fin_tmr = t.fin_tmr
    BY <1>1, <1>3, <1>4, <1>5, ShutdownHeld
  <2>2. born = 0 => Early(n, u)
    BY <1>3, <1>4, <1>5, <2>1 DEF Early
  <2>3. Follows(sock[n], u)
    BY <1>5, <2>1 DEF Follows
  <2> QED
    BY <1>1, <1>4, <1>5, <2>1, <2>2, <2>3, BecomesStep
<1>6. LET t == Lacking(n, r)
      IN  /\ Held(View(Now, n), t, Len(got[n])) /\ t.tx = sock[n].tx /\ t.st = sock[n].st
          /\ t.gone = sock[n].gone /\ t.fin_tmr = sock[n].fin_tmr
  <2>1. Held(View(Now, n), Lacking(n, r), Len(got[n])) /\ Alike(sock[n], Lacking(n, r))
    BY <1>3, LackingHeld
  <2> QED
    BY <2>1 DEF Alike
<1> QED
  BY <1>2, <1>3, <1>5, <1>6

LEMMA OutputStep ==
    ASSUME OneConnection, Coherent(Now), NEW n \in Nodes, Output(n)
    PROVE  Coherent(Now')
<1>0. PICK r : LET t == Lacking(n, r)  u == pico_tcp_output(t, MaxOut)
               IN  Live(n) /\ u # t /\ Becomes(n, u) /\ UNCHANGED <<born, wrote, got>>
  BY DEF Output
<1> DEFINE t == Lacking(n, r)  u == pico_tcp_output(t, MaxOut)
<1>1. Live(n) /\ u # t /\ Becomes(n, u) /\ UNCHANGED <<born, wrote, got>>
  BY <1>0
<1>2. /\ IsView(View(Now, n)) /\ Held(View(Now, n), t, Len(got[n]))
      /\ t.st = sock[n].st /\ t.gone = sock[n].gone
  <2>1. IsView(View(Now, n)) /\ Held(View(Now, n), sock[n], Len(got[n]))
    BY SideNow
  <2>2. Held(View(Now, n), t, Len(got[n])) /\ Alike(sock[n], t)
    BY <2>1, LackingHeld
  <2> QED
    BY <2>1, <2>2 DEF Alike
<1>3. /\ sock[n].st # "CLOSED" /\ sock[n] # OpenSocket
      /\ born = 0 => n = "C" /\ sock[n].st = "SYN_SENT"
  BY <1>1, LiveNow
<1>4. MaxOut \in Int
  BY TcpAssumption
<1> HIDE DEF t
<1>5. Held(View(Now, n), u, Len(got[n])) /\ Follows(t, u) /\ (t.st \notin Synchronized => u = t)
  BY <1>2, <1>3, <1>4, OutputHeld
<1> HIDE DEF u
<1>6. born # 0
  BY <1>1, <1>2, <1>3, <1>5 DEF Synchronized
<1>7. Follows(sock[n], u)
  BY <1>2, <1>5 DEF Follows
<1> QED
  BY <1>1, <1>3, <1>5, <1>6, <1>7, BecomesStep

LEMMA TimerStep ==
    ASSUME OneConnection, Coherent(Now), NEW n \in Nodes,
           SynTimer(n) \/ RtoTimer(n) \/ FinTimer(n) \/ SanityTimeout(n)
    PROVE  Coherent(Now')
<1> DEFINE t == sock[n]  v == View(Now, n)
<1>1. IsView(v) /\ Held(v, t, Len(got[n])) /\ t.tx = <<>>
  BY SideNow
<1>2. IsBlock(t)
  BY <1>1 DEF Held, Good
<1>3. UNCHANGED <<born, wrote, got>>
  BY DEF SynTimer, RtoTimer, FinTimer, SanityTimeout
<1>4. born = 0 => (n = "S" /\ t = OpenSocket) \/ (n = "C" /\ t.st \in {"CLOSED", "SYN_SENT"} /\ ~t.fin_tmr)
  BY UnbornNow DEF Nodes
<1>5. /\ OpenSocket.retrans_tmr = "none" /\ ~OpenSocket.fin_tmr /\ OpenSocket.st = "CLOSED"
  BY DEF OpenSocket
<1>6. CASE SynTimer(n)
  <2>1. PICK r : t.retrans_tmr = "syn" /\ Becomes(n, initconn_retry(Lacking(n, r)))
    BY <1>6 DEF SynTimer
  <2> DEFINE w == Lacking(n, r)  u == initconn_retry(w)
  <2>5. /\ Held(v, w, Len(got[n])) /\ w.tx = t.tx /\ w.st = t.st /\ w.gone = t.gone
        /\ w.fin_tmr = t.fin_tmr /\ w.retrans_tmr = t.retrans_tmr
    <3>1. Held(v, w, Len(got[n])) /\ Alike(t, w)
      BY <1>1, LackingHeld
    <3> QED
      BY <3>1, HeldBlock DEF Alike
  <2>6. Becomes(n, u)
    BY <2>1
  <2> HIDE DEF t, v, w
  <2>2. /\ Held(v, u, Len(got[n])) /\ Follows(w, u) /\ u.st \in {w.st, "CLOSED"} /\ ~u.fin_tmr
        /\ w.tx = <<>> => \A i \in DOMAIN u.tx : u.tx[i].flags = "SYN"
    BY <1>1, <2>1, <2>5, RetryHeld
  <2> HIDE DEF u
  <2>3. t # OpenSocket /\ Follows(t, u)
    BY <1>5, <2>1, <2>2, <2>5 DEF Follows
  <2>4. born = 0 => Early(n, u)
    BY <1>1, <1>4, <2>2, <2>3, <2>5 DEF Early
  <2> QED
    BY <1>3, <2>2, <2>3, <2>4, <2>6, BecomesStep DEF t, v
<1>7. CASE RtoTimer(n)
  <2>1. PICK r : t.retrans_tmr = "rto" /\ Becomes(n, tcp_retrans_timeout(Lacking(n, r)))
    BY <1>7 DEF RtoTimer
  <2> DEFINE w == Lacking(n, r)  u == tcp_retrans_timeout(w)
  <2>5. /\ Held(v, w, Len(got[n])) /\ w.tx = t.tx /\ w.st = t.st /\ w.gone = t.gone
        /\ w.fin_tmr = t.fin_tmr /\ w.retrans_tmr = t.retrans_tmr /\ IsBlock(w)
    <3>1. Held(v, w, Len(got[n])) /\ Alike(t, w)
      BY <1>1, LackingHeld
    <3> QED
      BY <3>1, HeldBlock DEF Alike
  <2>6. Becomes(n, u)
    BY <2>1
  <2> HIDE DEF t, v, w
  <2>2. Held(v, u, Len(got[n])) /\ Follows(w, u)
    BY <1>1, <2>1, <2>5, TimeoutHeld
  <2>3. t # OpenSocket /\ Follows(t, u)
    BY <1>5, <2>1, <2>2, <2>5 DEF Follows
  <2>4. born = 0 => Early(n, u)
    <3> SUFFICES ASSUME born = 0 PROVE Early(n, u)
      OBVIOUS
    <3>1. n = "C" /\ t.st \in {"CLOSED", "SYN_SENT"} /\ ~t.fin_tmr
      BY <1>4, <2>3
    <3> DEFINE a == [w EXCEPT !.retrans_tmr = "none"]
    <3>2. a.st \in {"CLOSED", "SYN_SENT"} /\ a.fin_tmr = w.fin_tmr /\ a.tx = <<>>
      BY <1>1, <2>5, <3>1 DEF IsBlock
    <3>3. u = a
      BY <3>2 DEF tcp_retrans_timeout
    <3> HIDE DEF a, u
    <3> QED
      BY <2>5, <3>1, <3>2, <3>3 DEF Early
  <2> HIDE DEF u
  <2> QED
    BY <1>3, <2>2, <2>3, <2>4, <2>6, BecomesStep DEF t, v
<1>8. CASE FinTimer(n)
  <2> DEFINE u == tcp_deltcb(t)
  <2>1. t.fin_tmr /\ Becomes(n, u)
    BY <1>8 DEF FinTimer
  <2> HIDE DEF t, v
  <2>2. Held(v, u, Len(got[n])) /\ Follows(t, u)
    BY <1>1, <2>1, DeltcbHeld
  <2>3. t # OpenSocket /\ born # 0
    BY <1>4, <1>5, <2>1
  <2> HIDE DEF u
  <2> QED
    BY <1>3, <2>1, <2>2, <2>3, BecomesStep DEF t, v
<1>9. CASE SanityTimeout(n)
  <2> DEFINE u == pico_socket_del(t)
  <2>1. t.st = "SYN_RECV" /\ Becomes(n, u)
    BY <1>9 DEF SanityTimeout
  <2> HIDE DEF t, v
  <2>2. Held(v, u, Len(got[n])) /\ Follows(t, u)
    BY <1>1, DelFollows
  <2>3. t # OpenSocket /\ born # 0
    BY <1>4, <1>5, <2>1
  <2> HIDE DEF u
  <2> QED
    BY <1>3, <2>1, <2>2, <2>3, BecomesStep DEF t, v
<1> QED
  BY <1>6, <1>7, <1>8, <1>9

LEMMA NetworkStep ==
    ASSUME OneConnection, Coherent(Now), NEW n \in Nodes,
           Deliver(n) \/ Overtake(n) \/ Duplicate(n) \/ Lose(n)
    PROVE  Coherent(Now')
<1>1. net[n] \in Seq(Segments)
  BY SideNow
<1>2. /\ Rest(n, net[n]) /\ (net[n] # <<>> => Rest(n, Tail(net[n])))
      /\ \A i \in 2..Len(net[n]) : Rest(n, Drop(net[n], i))
  BY <1>1, RestOf
<1>3. net[n] # <<>> => 1 \in DOMAIN net[n] /\ Head(net[n]) = net[n][1]
  BY <1>1
<1>4. \A i \in 2..Len(net[n]) : i \in DOMAIN net[n]
  BY <1>1
<1>5. CASE Deliver(n)
  BY <1>2, <1>3, <1>5, ReceiveStep DEF Deliver
<1>6. CASE Overtake(n)
  BY <1>2, <1>4, <1>6, ReceiveStep DEF Overtake
<1>7. CASE Duplicate(n)
  BY <1>2, <1>3, <1>7, ReceiveStep DEF Duplicate
<1>8. CASE Lose(n)
  BY <1>2, <1>8, IdleStep DEF Lose
<1> QED
  BY <1>5, <1>6, <1>7, <1>8

LEMMA CollectStep ==
    ASSUME OneConnection, Coherent(Now), NEW n \in Nodes, Collect(n)
    PROVE  Coherent(Now')
<1> DEFINE t == sock[n]  u == [OpenSocket EXCEPT !.gone = (n = "C")]  v == View(Now, n)
<1>1. t.gone /\ sock' = [sock EXCEPT ![n] = u] /\ UNCHANGED <<net, born, wrote, got>>
  BY DEF Collect
<1>2. IsView(v) /\ net[n] \in Seq(Segments)
  BY SideNow
<1>3. /\ n = "C" => u = [OpenSocket EXCEPT !.gone = TRUE]
      /\ n = "S" => u = OpenSocket
  <2>1. IsBlock(OpenSocket) /\ OpenSocket.gone = FALSE
    BY OpenNumbers DEF OpenSocket
  <2>2. [OpenSocket EXCEPT !.gone = FALSE] = OpenSocket
    BY <2>1 DEF IsBlock
  <2>3. CASE n = "C"
    BY <2>3
  <2>4. CASE n = "S"
    <3>1. (n = "C") = FALSE
      BY <2>4
    <3>2. u = [OpenSocket EXCEPT !.gone = FALSE]
      BY <3>1
    <3> QED
      BY <2>2, <2>4, <3>2
  <2> QED
    BY <2>3, <2>4 DEF Nodes
<1>4. u = OpenSocket \/ u = [OpenSocket EXCEPT !.gone = TRUE]
  BY <1>3 DEF Nodes
<1>5. IsBlock(u)
  BY <1>4, OpenNumbers
<1>6. n = "C" => u.gone
  BY <1>3 DEF OpenSocket
<1> HIDE DEF u, v
<1>7. Held(v, u, Len(got[n])) /\ u.st = "CLOSED" /\ ~u.fin_tmr /\ u.tx = <<>> /\ u.lack = {}
  BY <1>2, <1>4, OpenHeld
<1>8. Settled(u) = u
  BY <1>5, <1>7, NoneSent
<1>9. Answers(n, u, net[n]) /\ Rest(n, net[n])
  <2>1. Peer(n) \in Nodes /\ Peer(n) # n
    BY Peers
  <2>2. net[Peer(n)] \in Seq(Segments)
    BY <2>1, SideNow
  <2>3. net[Peer(n)] \o u.tx = net[Peer(n)]
    BY <1>7, <2>2
  <2>4. net' = [net EXCEPT ![n] = net[n], ![Peer(n)] = @ \o u.tx]
    BY <1>1, <2>1, <2>3, ShapeIs
  <2> QED
    BY <1>1, <1>2, <1>8, <2>4, RestOf DEF Answers
<1>10. Shape(Now') /\ Turn(Now, Now', n, u, net[n]) /\ Within(Now, Now', n) = View(Now, n)
  BY <1>1, <1>9, PlainTurn
<1>11. t # OpenSocket
  BY <1>1 DEF OpenSocket
<1>12. Now.born = 0 => Early(n, u) /\ Now'.wrote[n] = 0
  <2> SUFFICES ASSUME born = 0 PROVE Early(n, u) /\ wrote[n] = 0
    BY <1>1, NowFields
  <2>1. n = "C"
    BY <1>11, UnbornNow DEF Nodes
  <2> QED
    BY <1>7, <2>1, UnbornNow DEF Early
<1>13. /\ Now.sock[n] # OpenSocket /\ Now'.born = Now.born
       /\ Held(Within(Now, Now', n), u, Len(Now'.got[n]))
  BY <1>1, <1>7, <1>10, <1>11, NowFields DEF v
<1> QED
  BY <1>6, <1>7, <1>10, <1>12, <1>13, StepCoherent

(* A call of the application: u is the socket after it, a what has been    *)
(* written and g what has been read by then.                               *)
Calls(n, u, a, g) ==
    /\ Becomes(n, u) /\ born' = born
    /\ a \in Nat /\ wrote' = [wrote EXCEPT ![n] = a] /\ wrote[n] <= a /\ a <= MaxWrites[n]
    /\ g \in Seq(Nat) /\ got' = [got EXCEPT ![n] = g] /\ Len(got[n]) <= Len(g)
    /\ Len(g) <= wrote[Peer(n)] /\ \A i \in DOMAIN g : g[i] = Base(Peer(n)) + i

LEMMA CallTurn ==
    ASSUME OneConnection, Coherent(Now), NEW n \in Nodes, NEW u, NEW a, NEW g, Calls(n, u, a, g)
    PROVE  LET w == Within(Now, Now', n)
           IN  /\ Shape(Now') /\ Turn(Now, Now', n, u, net[n])
               /\ Now'.wrote[n] = a /\ Now'.got[n] = g
               /\ IsView(w) /\ Widens(View(Now, n), w)
               /\ w.len = a /\ w.had = 1..Len(g) /\ w.has = View(Now, n).has
               /\ w.held = View(Now, n).held /\ w.rlen = View(Now, n).rlen
<1> Becomes(n, u) /\ born' = born
  BY DEF Calls
<1> /\ a \in Nat /\ wrote' = [wrote EXCEPT ![n] = a] /\ wrote[n] <= a /\ a <= MaxWrites[n]
  BY DEF Calls
<1> /\ g \in Seq(Nat) /\ got' = [got EXCEPT ![n] = g] /\ Len(got[n]) <= Len(g)
    /\ Len(g) <= wrote[Peer(n)] /\ \A i \in DOMAIN g : g[i] = Base(Peer(n)) + i
  BY DEF Calls
<1>1. Peer(n) \in Nodes /\ Peer(n) # n
  BY Peers
<1>2. Answers(n, u, net[n])
  BY BecomesAnswers
<1>3. net[n] \in Seq(Segments) /\ Counts(Now, n) /\ Counts(Now, Peer(n))
  BY SideNow
<1>4. Rest(n, net[n])
  BY <1>3, RestOf
<1>5. /\ sock'[n] = Settled(u) /\ sock'[Peer(n)] = sock[Peer(n)]
      /\ net'[n] = net[n] /\ net'[Peer(n)] = net[Peer(n)] \o u.tx
      /\ sock' = [k \in Nodes |-> sock'[k]] /\ net' = [k \in Nodes |-> net'[k]]
  BY <1>1, <1>2, ShapeIs DEF Answers
<1>6. /\ wrote'[n] = a /\ wrote'[Peer(n)] = wrote[Peer(n)] /\ wrote' = [k \in Nodes |-> wrote'[k]]
      /\ got'[n] = g /\ got'[Peer(n)] = got[Peer(n)] /\ got' = [k \in Nodes |-> got'[k]]
  BY <1>1, ShapeIs
<1>7. Shape(Now')
  BY <1>5, <1>6, NowFields DEF Shape
<1>8. MaxWrites[n] \in Nat
  BY Origins
<1>9. Counts(Now', n)
  BY <1>6, <1>8, NowFields DEF Counts
<1>10. Turn(Now, Now', n, u, net[n])
  <2>1. /\ Now'.sock[n] = Settled(u) /\ Now'.sock[Peer(n)] = Now.sock[Peer(n)]
        /\ Now'.net[n] = net[n] /\ Now'.net[Peer(n)] = Now.net[Peer(n)] \o u.tx
    BY <1>5, NowFields
  <2>2. /\ Now'.wrote[Peer(n)] = Now.wrote[Peer(n)] /\ Now'.got[Peer(n)] = Now.got[Peer(n)]
        /\ Now.wrote[n] <= Now'.wrote[n] /\ Len(Now.got[n]) <= Len(Now'.got[n])
        /\ (Now'.born = 0 => Now.born = 0) /\ Now.net = net
    BY <1>6, NowFields
  <2> HIDE DEF Now
  <2> QED
    BY <1>4, <1>9, <2>1, <2>2 DEF Turn, Rest
<1>11. IsView(Within(Now, Now', n)) /\ Widens(View(Now, n), Within(Now, Now', n))
  BY <1>3, <1>10, TurnCounts
<1>12. Now'.wrote[n] = a /\ Now'.got[n] = g
  BY <1>6, NowFields
<1> HIDE DEF Now
<1> QED
  BY <1>7, <1>10, <1>11, <1>12, WithinFields

LEMMA CallStep ==
    ASSUME OneConnection, Coherent(Now), NEW n \in Nodes, sock[n].st \in Synchronized, NEW u,
           Shape(Now'), Turn(Now, Now', n, u, net[n]), born' = born,
           Runs(Within(Now, Now', n), u, Len(Now'.got[n]))
    PROVE  Coherent(Now')
<1>1. Held(Within(Now, Now', n), u, Len(Now'.got[n])) /\ u.st \in Synchronized
  BY RunsHeld DEF Runs
<1>2. u.st \notin {"CLOSED", "SYN_SENT", "SYN_RECV"}
  BY <1>1 DEF Synchronized
<1>3. sock[n].st \notin {"CLOSED", "SYN_SENT", "SYN_RECV"} /\ sock[n] # OpenSocket
  BY DEF Synchronized, OpenSocket
<1>4. born # 0
  BY <1>3, UnbornNow DEF Nodes
<1>5. Now.sock = sock /\ Now.born = born /\ Now'.born = born'
  BY NowFields
<1> HIDE DEF Now
<1> QED
  BY <1>1, <1>2, <1>3, <1>4, <1>5, StepCoherent

LEMMA WriteStep ==
    ASSUME OneConnection, Coherent(Now), NEW n \in Nodes, Write(n)
    PROVE  Coherent(Now')
<1> DEFINE t == sock[n]  v == View(Now, n)  w == Within(Now, Now', n)
<1>1. PICK count \in Bursts :
          /\ CanWrite(t) /\ Taken(t, count) > 0 /\ wrote[n] + count <= MaxWrites[n]
          /\ t.st \notin {"SYN_SENT", "SYN_RECV"}
          /\ Becomes(n, pico_tcp_push(t, Taken(t, count), Unit(n, wrote[n]) - 1))
          /\ wrote' = [wrote EXCEPT ![n] = @ + Taken(t, count)]
          /\ UNCHANGED <<born, got, faults>>
  BY DEF Write, OneConnection
<1> DEFINE taken == Taken(t, count)
<1>2. count \in Nat /\ taken \in 0..count
  BY PairAssumption, TakenRange
<1>3. /\ IsView(v) /\ Held(v, t, Len(got[n])) /\ t.tx = <<>> /\ v.len = wrote[n]
      /\ Counts(Now, n) /\ Len(got[n]) \in Nat
  BY SideNow
<1>4. t.st \in Synchronized /\ ~t.shutL
  <2>1. t.st \in States
    BY <1>3 DEF Held, Good, Numbers
  <2> QED
    BY <1>1, <2>1 DEF CanWrite, Synchronized
<1>5. Runs(v, t, Len(got[n])) /\ Opened(v, t, Len(got[n]))
  BY <1>3, <1>4, RunsHeld DEF Runs, Botched
<1>6. born = 1
  BY <1>4, UnbornNow DEF Nodes, Synchronized, OpenSocket
<1>7. Unit(n, wrote[n]) - 1 = v.base + v.len
  <2>1. v.base = Base(n) /\ wrote[n] \in Nat
    BY <1>3, Origins, ViewFields, NowFields DEF Counts
  <2> QED
    BY <1>3, <1>6, <2>1 DEF Unit, Base
<1> DEFINE u == pico_tcp_push(t, taken, v.base + v.len)  a == wrote[n] + taken
<1>8. Becomes(n, u)
  BY <1>1, <1>7
<1>9. /\ wrote[n] \in Nat /\ a \in Nat /\ wrote[n] <= a /\ a <= MaxWrites[n] /\ MaxWrites[n] \in Nat
      /\ got[n] \in Seq(Nat) /\ Len(got[n]) <= wrote[Peer(n)]
      /\ \A i \in DOMAIN got[n] : got[n][i] = Base(Peer(n)) + i
  <2>1. MaxWrites[n] \in Nat
    BY Origins
  <2>2. /\ wrote[n] \in Nat /\ got[n] \in Seq(Nat) /\ Len(got[n]) <= wrote[Peer(n)]
        /\ \A i \in DOMAIN got[n] : got[n][i] = Base(Peer(n)) + i
    BY <1>3, <2>1, NowFields DEF Counts
  <2> HIDE DEF taken
  <2> QED
    BY <1>1, <1>2, <2>1, <2>2 DEF taken
<1>10. wrote' = [wrote EXCEPT ![n] = a] /\ got' = [got EXCEPT ![n] = got[n]] /\ born' = born
  BY <1>1, ShapeIs
<1> HIDE DEF t, v, w, u, a, taken
<1>11. /\ Shape(Now') /\ Turn(Now, Now', n, u, net[n]) /\ Now'.got[n] = got[n]
       /\ IsView(w) /\ Widens(v, w) /\ w.len = a /\ w.has = v.has
  <2>1. Len(got[n]) <= Len(got[n])
    BY <1>3
  <2> DEFINE g == got[n]
  <2>2. Calls(n, u, a, g)
    BY <1>8, <1>9, <1>10, <2>1 DEF Calls
  <2> HIDE DEF g
  <2>3. /\ Shape(Now') /\ Turn(Now, Now', n, u, net[n])
        /\ Now'.wrote[n] = a /\ Now'.got[n] = g
        /\ IsView(Within(Now, Now', n)) /\ Widens(View(Now, n), Within(Now, Now', n))
        /\ Within(Now, Now', n).len = a
        /\ Within(Now, Now', n).has = View(Now, n).has
    BY <2>2, CallTurn
  <2> QED
    BY <2>3 DEF v, w, g
<1>12. w.len = v.len + taken /\ taken \in Nat
  BY <1>2, <1>3, <1>11 DEF a
<1>13. Runs(w, u, Len(got[n]))
  BY <1>3, <1>5, <1>11, <1>12, PushRuns DEF u
<1> QED
  BY <1>4, <1>10, <1>11, <1>13, CallStep DEF t, w

LEMMA EmptyRead ==
    ASSUME NEW t, t.in = {}
    PROVE  Readable(t) = 0
<1>1. Unread(t) = {}
  BY DEF Unread
<1>2. {k \in 0..Cardinality({}) : peek_segment({}, Seq32(t.rcv_processed + k)) = {}} = {0}
  BY FS_EmptySet DEF peek_segment
<1>3. Lowest({0}) = 0
  BY LowestNat
<1> QED
  BY <1>1, <1>2, <1>3 DEF Readable, Run

LEMMA Appended ==
    ASSUME NEW q \in Seq(Nat), NEW f \in Seq(Nat)
    PROVE  q \o f \in Seq(Nat) /\ Len(q \o f) = Len(q) + Len(f)
  OBVIOUS

LEMMA ReadStep ==
    ASSUME OneConnection, Coherent(Now), NEW n \in Nodes, Read(n)
    PROVE  Coherent(Now')
<1> DEFINE t == sock[n]  v == View(Now, n)  w == Within(Now, Now', n)  read == Len(got[n])
           nth(k) == CHOOSE s \in t.in : s.seq = Seq32(t.rcv_processed + k - 1)
<1>1. PICK size \in Bursts :
          /\ CanRead(t) /\ Lowest({size, Readable(t)}) > 0
          /\ Becomes(n, pico_tcp_read(t, Lowest({size, Readable(t)})))
          /\ got' = [got EXCEPT ![n] = @ \o [k \in 1..Lowest({size, Readable(t)}) |-> nth(k).data]]
          /\ UNCHANGED <<born, wrote, faults>>
  BY DEF Read
<1> DEFINE count == Lowest({size, Readable(t)})
<1>2. /\ IsView(v) /\ Held(v, t, read) /\ t.tx = <<>> /\ v.len = wrote[n]
      /\ Counts(Now, n) /\ read \in Nat
  BY SideNow
<1>3. InOK(v, t.in) /\ t.st \in States /\ t.st # "CLOSED"
  BY <1>1, <1>2 DEF Held, Good, Numbers, CanRead
<1>4. t.in # {}
  <2> SUFFICES ASSUME t.in = {} PROVE FALSE
    OBVIOUS
  <2>1. Readable(t) = 0 /\ size \in Int
    BY EmptyRead, PairAssumption
  <2>2. count <= 0 /\ count \in {size, 0}
    <3>1. Lowest({size, 0}) <= 0 /\ Lowest({size, 0}) \in {size, 0}
      <4> DEFINE zero == 0
      <4>1. size \in Int /\ zero \in Int
        BY <2>1
      <4> HIDE DEF zero
      <4>2. Lowest({size, zero}) \in {size, zero} /\ Lowest({size, zero}) <= zero
        BY <4>1, LowestOfTwo
      <4> QED
        BY <4>2 DEF zero
    <3> QED
      BY <2>1, <3>1
  <2>3. count > 0
    BY <1>1
  <2> HIDE DEF count
  <2> QED
    BY <2>1, <2>2, <2>3
<1>5. t.st \in Synchronized /\ Opened(v, t, read)
  BY <1>2, <1>3, <1>4 DEF Held, Phase, Dialling, Waiting, Botched, Synchronized
<1>6. Runs(v, t, read)
  BY <1>2, <1>5, RunsHeld
<1>7. count \in Nat /\ count > 0 /\ count <= Readable(t)
  <2>1. t.rcv_processed \in Int
    <3>1. v.riss + 1 + read \in Int
      BY <1>2, ViewInts
    <3> QED
      BY <1>5, <3>1, SeqRange DEF Opened
  <2>2. InOK(v, Unread(t))
    <3>1. Unread(t) \subseteq t.in
      BY DEF Unread
    <3> QED
      BY <1>3, <3>1, InSub
  <2>3. Readable(t) \in Nat /\ size \in Nat
    BY <1>2, <2>1, <2>2, InQueue, PairAssumption DEF Readable
  <2>4. count \in {size, Readable(t)} /\ count <= Readable(t)
    BY <2>3, LowestOfTwo
  <2>5. count > 0
    BY <1>1
  <2> HIDE DEF count
  <2> QED
    BY <2>3, <2>4, <2>5
<1>8. /\ MaxWrites[n] \in Nat /\ wrote[n] \in Nat /\ wrote[n] <= MaxWrites[n]
      /\ got[n] \in Seq(Nat) /\ read <= wrote[Peer(n)]
      /\ \A i \in DOMAIN got[n] : got[n][i] = Base(Peer(n)) + i
      /\ v.rlen = wrote[Peer(n)] /\ v.rbase = Base(Peer(n)) /\ v.had = 1..read
      /\ Base(Peer(n)) \in Nat /\ v.rlen \in Nat
  <2>1. MaxWrites[n] \in Nat /\ Base(Peer(n)) \in Nat
    BY Origins, Peers
  <2>2. /\ wrote[n] \in Nat /\ wrote[n] <= MaxWrites[n] /\ got[n] \in Seq(Nat) /\ read <= wrote[Peer(n)]
        /\ \A i \in DOMAIN got[n] : got[n][i] = Base(Peer(n)) + i
    BY <1>2, <2>1, NowFields DEF Counts
  <2>3. v.rlen = wrote[Peer(n)] /\ v.rbase = Base(Peer(n)) /\ v.had = 1..read
    BY ViewFields, NowFields
  <2>4. v.rlen \in Nat
    BY <1>2, ViewInts
  <2> HIDE DEF v
  <2> QED
    BY <2>1, <2>2, <2>3, <2>4
<1> DEFINE u == pico_tcp_read(t, count)
           f == [k \in 1..count |-> nth(k).data]
           g == got[n] \o f
<1>9. /\ Becomes(n, u) /\ got' = [got EXCEPT ![n] = g] /\ wrote' = [wrote EXCEPT ![n] = wrote[n]]
      /\ born' = born
  BY <1>1, ShapeIs
<1>10. /\ read + count <= v.rlen
       /\ \A k \in 1..count : nth(k).data = v.rbase + (read + k)
  <2>1. read \in 0..v.rlen
    BY <1>2, <1>8
  <2> HIDE DEF v, t, read, count
  <2>2. IsView(v) /\ Opened(v, t, read) /\ Runs(v, t, read)
    BY <1>2, <1>5, <1>6
  <2>3. ASSUME NEW c \in Nat, c <= Readable(t)
        PROVE  /\ read + c <= v.rlen
               /\ \A k \in 1..c :
                     (CHOOSE s \in t.in : s.seq = Seq32(t.rcv_processed + k - 1)).data
                         = v.rbase + (read + k)
    BY <2>1, <2>2, <2>3, ReadNext
  <2> QED
    BY <1>7, <2>3
<1> HIDE DEF nth, t, v, w, u, count
<1>11. /\ f \in Seq(Nat) /\ Len(f) = count
       /\ \A k \in 1..count : f[k] = Base(Peer(n)) + (read + k)
  <2>1. \A k \in 1..count : f[k] = Base(Peer(n)) + (read + k)
    BY <1>8, <1>10
  <2>2. f \in [1..count -> Nat]
    <3>1. \A k \in 1..count : f[k] \in Nat
      BY <1>2, <1>7, <1>8, <2>1
    <3> QED
      BY <3>1
  <2> HIDE DEF f
  <2> QED
    BY <1>7, <2>1, <2>2
<1> HIDE DEF f
<1> HIDE DEF read
<1>12. /\ g \in Seq(Nat) /\ Len(g) = read + count
       /\ \A i \in DOMAIN g : g[i] = Base(Peer(n)) + i
  <2>1. g \in Seq(Nat) /\ Len(g) = read + count /\ DOMAIN g = 1..(read + count)
    <3> DEFINE q == got[n]
    <3>1. q \in Seq(Nat) /\ Len(q) = read /\ g = q \o f
      BY <1>8 DEF read
    <3> HIDE DEF q, g
    <3>2. q \o f \in Seq(Nat) /\ Len(q \o f) = Len(q) + Len(f)
      BY <1>11, <3>1, Appended
    <3>3. DOMAIN g = 1..Len(g)
      BY <3>1, <3>2
    <3> QED
      BY <1>11, <3>1, <3>2, <3>3
  <2>2. ASSUME NEW i \in 1..(read + count) PROVE g[i] = Base(Peer(n)) + i
    <3>1. CASE i <= read
      <4>1. g[i] = got[n][i] /\ i \in DOMAIN got[n]
        BY <1>2, <1>7, <1>8, <1>11, <3>1 DEF read
      <4> QED
        BY <1>8, <4>1
    <3>2. CASE i > read
      <4>1. i - read \in 1..count /\ read + (i - read) = i
        BY <1>2, <1>7, <3>2
      <4>2. g[i] = f[i - read]
        BY <1>2, <1>7, <1>8, <1>11, <3>2 DEF read
      <4> QED
        BY <1>11, <4>1, <4>2
    <3> QED
      <4>1. i \in Int /\ read \in Int
        BY <1>2, <1>7
      <4>2. i <= read \/ i > read
        BY <4>1
      <4> QED
        BY <4>2, <3>1, <3>2
  <2> HIDE DEF g
  <2> QED
    BY <2>1, <2>2
<1> HIDE DEF g
<1>13. /\ Shape(Now') /\ Turn(Now, Now', n, u, net[n]) /\ Now'.got[n] = g
       /\ IsView(w) /\ Widens(v, w) /\ w.len = wrote[n] /\ w.had = 1..Len(g) /\ w.has = v.has
       /\ w.held = v.held /\ w.rlen = v.rlen
  <2>1. Len(got[n]) <= Len(g) /\ Len(g) <= wrote[Peer(n)]
    <3>1. Len(got[n]) = read /\ read <= read + count
      BY <1>2, <1>7 DEF read
    <3> QED
      BY <1>8, <1>10, <1>12, <3>1
  <2>2. wrote[n] <= wrote[n]
    BY <1>8
  <2> DEFINE a == wrote[n]
  <2>4. Calls(n, u, a, g)
    BY <1>8, <1>9, <1>12, <2>1, <2>2 DEF Calls
  <2> HIDE DEF a
  <2>3. /\ Shape(Now') /\ Turn(Now, Now', n, u, net[n]) /\ Now'.got[n] = g
        /\ IsView(Within(Now, Now', n)) /\ Widens(View(Now, n), Within(Now, Now', n))
        /\ Within(Now, Now', n).len = a
        /\ Within(Now, Now', n).had = 1..Len(g)
        /\ Within(Now, Now', n).has = View(Now, n).has
        /\ Within(Now, Now', n).held = View(Now, n).held
        /\ Within(Now, Now', n).rlen = View(Now, n).rlen
    BY <2>4, CallTurn
  <2> QED
    BY <2>3 DEF v, w, a
<1>14. Runs(w, u, Len(g))
  <2>1. read \in 0..v.rlen
    BY <1>2, <1>8
  <2>2. w.len = v.len /\ w.had = 1..(read + count)
    BY <1>2, <1>12, <1>13
  <2>3. Runs(w, u, read + count)
    <3> HIDE DEF read
    <3> QED
      BY <1>2, <1>5, <1>6, <1>7, <1>8, <1>13, <2>1, <2>2, ReadRuns DEF u
  <2> QED
    BY <1>12, <2>3
<1> QED
  BY <1>5, <1>9, <1>13, <1>14, CallStep DEF t, w

LEMMA FaultsStep ==
    ASSUME faults \in 0..MaxFaults, [Next]_vars
    PROVE  faults' \in 0..MaxFaults
<1> USE PairAssumption
<1>1. Silent => faults' \in 0..MaxFaults
  BY DEF Silent
<1>2. Fault => faults' \in 0..MaxFaults
  BY DEF Fault
<1>3. InTime => faults' \in 0..MaxFaults
  BY <1>1, <1>2 DEF InTime
<1>4. CASE UNCHANGED vars
  BY <1>4 DEF vars
<1>5. CASE Connect
  BY <1>5 DEF Connect
<1>6. ASSUME NEW n \in Nodes, Read(n) \/ Output(n) \/ Deliver(n) \/ Collect(n)
      PROVE  faults' \in 0..MaxFaults
  BY <1>1, <1>6 DEF Read, Output, Deliver, Collect
<1>7. ASSUME NEW n \in Nodes, SynTimer(n) \/ RtoTimer(n) \/ FinTimer(n) \/ SanityTimeout(n)
      PROVE  faults' \in 0..MaxFaults
  BY <1>3, <1>7 DEF SynTimer, RtoTimer, FinTimer, SanityTimeout
<1>8. ASSUME NEW n \in Nodes, Write(n) \/ ShutdownRd(n) \/ ShutdownWr(n) \/ Close(n)
      PROVE  faults' \in 0..MaxFaults
  BY <1>8 DEF Write, ShutdownRd, ShutdownWr, Close
<1>9. ASSUME NEW n \in Nodes, Overtake(n) \/ Duplicate(n) \/ Lose(n)
      PROVE  faults' \in 0..MaxFaults
  BY <1>2, <1>9 DEF Overtake, Duplicate, Lose
<1> QED
  BY <1>4, <1>5, <1>6, <1>7, <1>8, <1>9 DEF Next, Progress

(* Every action keeps the configuration coherent.                          *)
LEMMA NextCoherent ==
    ASSUME OneConnection, Coherent(Now), [Next]_vars
    PROVE  Coherent(Now')
<1>1. CASE UNCHANGED vars
  <2>1. Now' = Now
    BY <1>1 DEF vars, Now
  <2> QED
    BY <2>1
<1>2. CASE Connect
  BY <1>2, ConnectStep
<1>3. ASSUME NEW n \in Nodes, Write(n) \/ Read(n)
      PROVE  Coherent(Now')
  BY <1>3, WriteStep, ReadStep
<1>4. ASSUME NEW n \in Nodes, ShutdownRd(n) \/ ShutdownWr(n) \/ Close(n)
      PROVE  Coherent(Now')
  BY <1>4, ShutdownStep
<1>5. ASSUME NEW n \in Nodes, Output(n) \/ Collect(n)
      PROVE  Coherent(Now')
  BY <1>5, OutputStep, CollectStep
<1>6. ASSUME NEW n \in Nodes, SynTimer(n) \/ RtoTimer(n) \/ FinTimer(n) \/ SanityTimeout(n)
      PROVE  Coherent(Now')
  BY <1>6, TimerStep
<1>7. ASSUME NEW n \in Nodes, Deliver(n) \/ Overtake(n) \/ Duplicate(n) \/ Lose(n)
      PROVE  Coherent(Now')
  BY <1>7, NetworkStep
<1> QED
  BY <1>1, <1>2, <1>3, <1>4, <1>5, <1>6, <1>7 DEF Next, Progress

LEMMA InitCoherent ==
    ASSUME OneConnection, Init
    PROVE  Coherent(Now)
<1>1. /\ Now.sock = sock /\ Now.net = net /\ Now.born = born /\ Now.wrote = wrote /\ Now.got = got
  BY NowFields
<1>2. ASSUME NEW n \in Nodes
      PROVE  /\ Now.sock[n] = OpenSocket /\ Now.net[n] = <<>> /\ Now.wrote[n] = 0
             /\ Now.got[n] = <<>> /\ Now.born = 0
  BY <1>1 DEF Init
<1>3. Shape(Now)
  BY <1>1 DEF Init, Shape
<1>4. ASSUME NEW n \in Nodes PROVE Counts(Now, n)
  <2>1. Peer(n) \in Nodes /\ MaxWrites[n] \in Nat
    BY Peers, Origins
  <2>2. Now.wrote[n] = 0 /\ Now.got[n] = <<>> /\ Now.wrote[Peer(n)] = 0
    BY <1>2, <2>1
  <2>3. <<>> \in Seq(Nat) /\ Len(<<>>) = 0 /\ DOMAIN <<>> = {}
    OBVIOUS
  <2> HIDE DEF Now
  <2> QED
    BY <2>1, <2>2, <2>3 DEF Counts
<1>5. ASSUME NEW n \in Nodes PROVE Side(Now, n)
  <2>1. Peer(n) \in Nodes
    BY Peers
  <2>2. IsView(View(Now, n))
    BY <1>4, <2>1, ViewIs
  <2>3. Held(View(Now, n), Now.sock[n], Len(Now.got[n])) /\ Now.sock[n].tx = <<>> /\ Now.sock[n].lack = {}
    BY <1>2, <2>2, OpenHeld
  <2>4. Now.net[n] \in Seq(Segments) /\ DOMAIN Now.net[n] = {}
    <3>1. Now.net[n] = <<>>
      BY <1>2
    <3>2. <<>> \in Seq(Segments) /\ DOMAIN <<>> = {}
      OBVIOUS
    <3> HIDE DEF Now
    <3> QED
      BY <3>1, <3>2
  <2> HIDE DEF Now
  <2> QED
    BY <1>4, <2>3, <2>4 DEF Side
<1>6. Stage(Now)
  <2>1. OpenSocket.st = "CLOSED" /\ OpenSocket.fin_tmr = FALSE
    BY DEF OpenSocket
  <2>2. "C" \in Nodes /\ "S" \in Nodes
    BY DEF Nodes
  <2>3. \A n \in Nodes : DOMAIN Now.net[n] = {}
    BY <1>2
  <2> HIDE DEF Now
  <2> QED
    BY <1>2, <2>1, <2>2, <2>3 DEF Stage, Unborn, Started
<1> HIDE DEF Now
<1> QED
  BY <1>3, <1>5, <1>6 DEF Coherent

LEMMA PairHolds ==
    ASSUME OneConnection
    PROVE  Spec => []PairInv
<1>1. Init => PairInv
  <2>1. Init => faults \in 0..MaxFaults
    BY PairAssumption DEF Init
  <2> QED
    BY <2>1, InitCoherent DEF PairInv
<1>2. PairInv /\ [Next]_vars => PairInv'
  <2> SUFFICES ASSUME PairInv, [Next]_vars PROVE PairInv'
    OBVIOUS
  <2>1. Coherent(Now')
    BY NextCoherent DEF PairInv
  <2>2. faults' \in 0..MaxFaults
    BY FaultsStep DEF PairInv
  <2> QED
    BY <2>1, <2>2 DEF PairInv
<1> QED
  BY <1>1, <1>2, PTL DEF Spec

-----------------------------------------------------------------------------
(* What a coherent configuration says of the two applications.             *)

(* A unit that has reached n is in its queue or was read.                  *)
LEMMA ReachedIs ==
    ASSUME OneConnection, Coherent(Now), NEW n \in Nodes, NEW k \in Reached(Now, n)
    PROVE  \/ \E r \in sock[n].in : r.data = Base(Peer(n)) + k
           \/ \E i \in DOMAIN got[n] : got[n][i] = Base(Peer(n)) + k
<1>1. /\ got[n] \in Seq(Nat) /\ Len(got[n]) \in Nat
      /\ \A i \in DOMAIN got[n] : got[n][i] = Base(Peer(n)) + i
  BY SideNow, NowFields DEF Counts
<1>2. k \in 1..wrote[Peer(n)] /\ wrote[Peer(n)] \in Nat
  BY SideNow, NowFields DEF Reached, Counts
<1>3. \/ k <= Len(got[n])
      \/ [seq |-> Seq32(First(Peer(n)) + k), data |-> Base(Peer(n)) + k] \in sock[n].in
  BY NowFields DEF Reached
<1>4. CASE k <= Len(got[n])
  BY <1>1, <1>2, <1>4
<1>5. CASE [seq |-> Seq32(First(Peer(n)) + k), data |-> Base(Peer(n)) + k] \in sock[n].in
  BY <1>5
<1> QED
  BY <1>3, <1>4, <1>5

(* What the peer of n holds, in the view of n.                             *)
LEMMA HeldThere ==
    ASSUME OneConnection, Coherent(Now), NEW n \in Nodes, Live(Peer(n)),
           NEW k \in View(Now, n).held
    PROVE  \/ \E r \in sock[Peer(n)].in : r.data = Base(n) + k
           \/ \E i \in DOMAIN got[Peer(n)] : got[Peer(n)][i] = Base(n) + k
<1>1. Peer(n) \in Nodes /\ Peer(Peer(n)) = n
  BY Peers
<1>2. Alive(Now, Peer(n))
  BY NowFields DEF Live, Alive
<1>3. k \in Reached(Now, Peer(n))
  BY <1>2, ViewFields
<1> QED
  BY <1>1, <1>3, ReachedIs

(* What an application reads is a prefix of what the other one wrote       *)
(* (tcp_data_in, pico_tcp_read, tcp_ack, tcp_process_sack), for            *)
(* streams of any length below half of the sequence space, queues and      *)
(* windows of any size, and any number of segments lost, duplicated or     *)
(* overtaken, of timers too early, of closes and of resets.                *)
THEOREM ReadsArePrefixes ==
    ASSUME OneConnection
    PROVE  Spec => []StreamPrefix
<1>1. PairInv => StreamPrefix
  <2> SUFFICES ASSUME PairInv, NEW n \in Nodes
               PROVE  \E b \in 0..MaxBorn : \A i \in DOMAIN got[n] : got[n][i] = 10 * b + i
    BY DEF StreamPrefix
  <2>1. \A i \in DOMAIN got[n] : got[n][i] = Base(Peer(n)) + i
    BY SideNow, NowFields DEF PairInv, Counts
  <2>2. MaxBorn = 1
    BY DEF MaxBorn, OneConnection
  <2>3. CASE n = "C"
    <3>1. Base(Peer(n)) = 10 * 1 /\ 1 \in 0..MaxBorn
      BY <2>2, <2>3 DEF Base, Peer
    <3> QED
      BY <2>1, <3>1
  <2>4. CASE n = "S"
    <3>1. Base(Peer(n)) = 10 * 0 /\ 0 \in 0..MaxBorn
      BY <2>2, <2>4 DEF Base, Peer
    <3> QED
      BY <2>1, <3>1
  <2> QED
    BY <2>3, <2>4 DEF Nodes
<1> QED
  BY <1>1, PairHolds, PTL

(* A unit that the sender takes for held by the peer (tcp_process_sack)    *)
(* has arrived there, whatever became of the segments that carried the     *)
(* blocks.                                                                 *)
THEOREM SacksAreTrue ==
    ASSUME OneConnection
    PROVE  Spec => []SackIsTrue
<1>1. PairInv => SackIsTrue
  <2> SUFFICES ASSUME PairInv, Live("C"), Live("S"), NEW n \in Nodes, NEW s \in sock[n].out, s.sacked
               PROVE  \/ \E r \in sock[Peer(n)].in : r.data = s.data
                      \/ \E i \in DOMAIN got[Peer(n)] : got[Peer(n)][i] = s.data
    BY DEF SackIsTrue
  <2>1. OutOK(View(Now, n), sock[n].out)
    BY SideNow DEF PairInv, Held, Good
  <2>2. PICK k \in 1..View(Now, n).len : IsOut(View(Now, n), s, k)
    BY <2>1 DEF OutOK
  <2>3. k \in View(Now, n).held /\ s.data = View(Now, n).base + k
    BY <2>2 DEF IsOut
  <2>4. View(Now, n).base = Base(n)
    BY ViewFields
  <2>5. Live(Peer(n))
    BY DEF Peer
  <2> QED
    BY <2>3, <2>4, <2>5, HeldThere DEF PairInv
<1> QED
  BY <1>1, PairHolds, PTL

(* The sequence numbers, counters and windows of both sockets keep their   *)
(* ranges.                                                                 *)
THEOREM PairTypes ==
    ASSUME OneConnection
    PROVE  Spec => []TypeOK
<1>1. PairInv => TypeOK
  <2> SUFFICES ASSUME PairInv PROVE TypeOK
    OBVIOUS
  <2>1. ASSUME NEW n \in Nodes PROVE Numbers(sock[n]) /\ sock[n].tx = <<>>
    BY SideNow DEF PairInv, Held, Good
  <2>2. born \in 0..MaxBorn
    BY UnbornNow DEF PairInv, MaxBorn, OneConnection
  <2> QED
    BY <2>1, <2>2, TcpAssumption DEF TypeOK, Numbers, PairInv
<1> QED
  BY <1>1, PairHolds, PTL

(* While nobody closes, a unit leaves tcpq_out only once it is in the      *)
(* peer's queue (tcp_ack_advance_una, tcp_data_in): what one application   *)
(* has written is on its way, arrived or read, and never lost.             *)
THEOREM NothingIsLost ==
    ASSUME OneConnection, Closers = {}
    PROVE  Spec => []AckedIsReceived
<1>1. PairInv => AckedIsReceived
  <2> SUFFICES ASSUME PairInv, born = 1, Live("C"), Live("S"), NEW n \in Nodes,
                      NEW k \in 1..wrote[n]
               PROVE  \/ \E s \in sock[n].out : s.data = Unit(n, k - 1)
                      \/ \E s \in sock[Peer(n)].in : s.data = Unit(n, k - 1)
                      \/ \E i \in DOMAIN got[Peer(n)] : got[Peer(n)][i] = Unit(n, k - 1)
    BY DEF AckedIsReceived
  <2>1. Live(n) /\ Live(Peer(n))
    BY DEF Peer, Nodes
  <2>2. Covers(View(Now, n), sock[n].out) /\ View(Now, n).len = wrote[n] /\ View(Now, n).base = Base(n)
    BY <2>1, SideNow, ViewFields DEF PairInv, Held, Good, Live
  <2>3. Unit(n, k - 1) = Base(n) + k
    <3>1. k \in Int
      BY SideNow, NowFields DEF PairInv, Counts
    <3> QED
      BY <3>1 DEF Unit, Base
  <2>4. k \in View(Now, n).held \/ \E s \in sock[n].out : s.data = Base(n) + k
    BY <2>2 DEF Covers
  <2> QED
    BY <2>1, <2>3, <2>4, HeldThere DEF PairInv
<1> QED
  BY <1>1, PairHolds, PTL

(* Two established sockets, while nobody closes, speak of one connection:  *)
(* the number each of them expects next (rcv_nxt, after the handshake and  *)
(* after every segment) is not beyond what the other one has numbered.     *)
THEOREM EndsAgree ==
    ASSUME OneConnection, Closers = {}
    PROVE  Spec => []Synchronised
<1>1. PairInv => Synchronised
  <2> SUFFICES ASSUME PairInv, \A n \in Nodes : sock[n].st = "ESTABLISHED", NEW n \in Nodes
               PROVE  Seq32(sock[n].rcv_nxt - 1 - IssOf(Peer(n)))
                          <= Seq32(sock[Peer(n)].snd_last - IssOf(Peer(n)))
    BY DEF Synchronised
  <2> DEFINE p == Peer(n)
  <2>1. p \in Nodes /\ Peer(p) = n
    BY Peers
  <2>2. born = 1
    BY UnbornNow DEF PairInv, Nodes, OpenSocket
  <2>3. IssOf(p) = First(p)
    BY <2>2 DEF IssOf, First
  <2>4. /\ IsView(View(Now, n)) /\ Held(View(Now, n), sock[n], Len(got[n]))
        /\ IsView(View(Now, p)) /\ Held(View(Now, p), sock[p], Len(got[p]))
    BY <2>1, SideNow DEF PairInv
  <2>5. sock[n].rcv_nxt \in Acks(View(Now, n), Have(View(Now, n), sock[n].in))
    BY <2>4 DEF Held, Talks, Ready, IsView
  <2>6. sock[p].snd_last = Seq32(First(p) + wrote[p])
    <3>1. Opened(View(Now, p), sock[p], Len(got[p]))
      BY <2>1, <2>4 DEF Held, Phase, Botched, Synchronized, States
    <3> QED
      BY <3>1, ViewFields, NowFields DEF Opened
  <2>7. PICK r \in 0..wrote[p] : sock[n].rcv_nxt = Seq32(First(p) + 1 + r)
    BY <2>5, ViewFields, NowFields DEF Acks
  <2>8. First(p) \in Int /\ wrote[p] \in Nat /\ wrote[p] < SeqSpace /\ SeqSpace \in Nat /\ r \in Int
    <3>1. View(Now, p).len = wrote[p] /\ View(Now, p).iss = First(p)
      BY ViewFields, NowFields
    <3> QED
      BY <2>4, <3>1, ViewInts
  <2> HIDE DEF p
  <2>9. Seq32(sock[n].rcv_nxt - 1 - First(p)) = r
    <3>1. Seq32(Seq32(First(p) + 1 + r) + (-1 - First(p))) = Seq32(First(p) + 1 + r + (-1 - First(p)))
      BY <2>8, SeqAdd
    <3>2. First(p) + 1 + r + (-1 - First(p)) = r /\ r \in 0..(SeqSpace - 1)
      BY <2>8
    <3>3. Seq32(First(p) + 1 + r) \in Int
      BY <2>8, SeqRange
    <3>4. Seq32(First(p) + 1 + r) + (-1 - First(p)) = sock[n].rcv_nxt - 1 - First(p)
      BY <2>7, <2>8, <3>3
    <3> QED
      BY <3>1, <3>2, <3>4, SeqSmall
  <2>10. Seq32(sock[p].snd_last - First(p)) = wrote[p]
    <3>1. Seq32(Seq32(First(p) + wrote[p]) + (-First(p))) = Seq32(First(p) + wrote[p] + (-First(p)))
      <4> DEFINE a == First(p) + wrote[p]  b == -First(p)
      <4>1. a \in Int /\ b \in Int
        BY <2>8
      <4> HIDE DEF a, b
      <4>2. Seq32(Seq32(a) + b) = Seq32(a + b)
        BY <4>1, SeqAdd
      <4> QED
        BY <4>2 DEF a, b
    <3>2. First(p) + wrote[p] + (-First(p)) = wrote[p] /\ wrote[p] \in 0..(SeqSpace - 1)
      BY <2>8
    <3>3. Seq32(First(p) + wrote[p]) \in Int
      BY <2>8, SeqRange
    <3>4. Seq32(First(p) + wrote[p]) + (-First(p)) = sock[p].snd_last - First(p)
      BY <2>6, <2>8, <3>3
    <3> QED
      BY <3>1, <3>2, <3>4, SeqSmall
  <2> QED
    BY <2>3, <2>8, <2>9, <2>10 DEF p
<1> QED
  BY <1>1, PairHolds, PTL

=============================================================================
