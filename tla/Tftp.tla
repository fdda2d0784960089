-------------------------------- MODULE Tftp --------------------------------
(***************************************************************************)
(* One session of TFTP (modules/pico_tftp.c): client or server side,       *)
(* receiving or sending, driven by callbacks or by the application         *)
(* (SESSION_STATUS_APP_ACK).  Any host may send it any message at any      *)
(* time, so loss, duplication and reordering need no actions of their own. *)
(*                                                                         *)
(* Times are units of PICO_TFTP_TIMEOUT that remain: a timer fires at 0,   *)
(* and so does the 5 ms one of tftp_finish.  wallclock is None where the   *)
(* code stores 0.  Only the timer whose id session->timer holds can be     *)
(* cancelled; timer is 0 once that one has fired.  active_timers is        *)
(* unsigned: what is negative here is a count that has wrapped.            *)
(***************************************************************************)
EXTENDS Integers, FiniteSets

CONSTANTS
    TftpMaxRetry,   \* TFTP_MAX_RETRY
    TftpWrap,       \* packet_counter is a uint16_t: 65536
    TftpTimers      \* bound: pending timers with which a message may still come

ASSUME TftpAssumption ==
    /\ TftpMaxRetry \in Nat \ {0} /\ TftpWrap \in Nat \ {0, 1}
    /\ TftpTimers \in Nat \ {0}

VARIABLES
    tftp,       \* the session and its pending timers
    tftpClock   \* parity of the timers that have fired and the units of time that have passed

tftpVars == <<tftp, tftpClock>>

None == -1
Blocks == 0 .. TftpWrap - 1
Payloads == {"full", "nearly", "short"}   \* 512 bytes, 508 .. 511, less
Failures == {"none", "buffer", "timer"}   \* what cannot be allocated in this call

pico_tftp_session_create(app, timed) ==
    [state |-> "NEW", socket |-> TRUE, app |-> app, timed |-> timed, retry |-> 0, counter |-> 0,
     wallclock |-> None, bigger |-> 0, timers |-> {}, timer |-> 0, active |-> 0,
     synchro |-> 0, len |-> "short", freed_use |-> FALSE]

TftpInit ==
    /\ tftp \in {pico_tftp_session_create(app, timed) : app \in BOOLEAN, timed \in BOOLEAN}
    /\ tftpClock = 0

-----------------------------------------------------------------------------
(* Timeouts and the end of a session.                                      *)

FreshId(s) == CHOOSE i \in 1 .. TftpTimers + 4 : i # s.timer /\ \A t \in s.timers : t.id # i

pico_timer_add(s, interval) ==
    [s EXCEPT !.timers = @ \union {[id |-> FreshId(s), left |-> interval]}, !.timer = FreshId(s),
              !.active = @ + 1, !.wallclock = interval]

pico_timer_cancel(s) ==
    [s EXCEPT !.timers = {t \in @ : t.id # s.timer}, !.active = @ - 1]

(* A timer that cannot be added ends the session with a second try, which  *)
(* fails too.  By then session->timer is 0, so an older timer that is      *)
(* pending is not cancelled; without one nothing is left to delete the     *)
(* session.                                                                *)
GivenUp(s) ==
    IF s.state = "CLOSING" THEN s
    ELSE [(IF s.active # 0 THEN pico_timer_cancel(s) ELSE s)
              EXCEPT !.state = "CLOSING", !.socket = FALSE, !.wallclock = None]

tftp_schedule_timeout(s, interval, fail) ==
    IF s.active # 0 /\ s.bigger <= interval THEN [s EXCEPT !.wallclock = interval]
    ELSE IF fail = "timer" THEN GivenUp([s EXCEPT !.timer = 0])
    ELSE IF s.active # 0 THEN pico_timer_add(s, interval)
    ELSE [pico_timer_add(s, interval) EXCEPT !.bigger = interval]

(* GivenUp is what tftp_finish does before it starts its 5 ms.             *)
tftp_finish(s, fail) ==
    IF s.state = "CLOSING" THEN s ELSE tftp_schedule_timeout(GivenUp(s), 0, fail)

tftp_eval_finish(s, last) ==
    IF last THEN [s EXCEPT !.state = "CLOSING", !.socket = FALSE] ELSE s

tftp_send_ack(s, fail) == IF fail = "buffer" THEN s ELSE tftp_schedule_timeout(s, 1, fail)

tftp_send_data(s, full, fail) ==
    tftp_schedule_timeout([s EXCEPT !.counter = (@ + 1) % TftpWrap,
                                    !.state = IF full THEN "TX" ELSE "WAIT_LAST_ACK"], 1, fail)

-----------------------------------------------------------------------------
(* The application.  The callback of a session that is not app-driven may  *)
(* send the next block, send the last one, or do nothing.                  *)

Notified(s, fail) ==
    IF s.app THEN {[s EXCEPT !.synchro = 1]}
    ELSE {s} \union {tftp_send_data(s, full, fail) : full \in BOOLEAN}

(* event_ack_base and the others report an error before they finish.       *)
Failed(s) == IF s.app THEN [s EXCEPT !.synchro = -1] ELSE s

(* pico_tftp_start_rx, from a request of the peer (whose port is not       *)
(* PICO_TFTP_PORT) or of our own.  The state is set after the request,     *)
(* even when sending it failed and finished the session.  No timeout       *)
(* follows an OACK.                                                        *)
tftp_send_rx_req(s, fail) ==
    tftp_schedule_timeout([(IF fail = "buffer" THEN tftp_finish(Failed(s), fail) ELSE s)
                               EXCEPT !.state = "READ_REQUESTED"], 1, fail)

tftp_send_tx_req(s, fail) ==
    tftp_schedule_timeout([(IF fail = "buffer" THEN tftp_finish(Failed(s), fail) ELSE s)
                               EXCEPT !.state = "WRITE_REQUESTED"], 1, fail)

tftp_send_oack(s, fail) == IF fail = "buffer" THEN tftp_finish(Failed(s), fail) ELSE s

pico_tftp_start_rx(fail) ==
    /\ tftp.state = "NEW"
    /\ LET server == [tftp EXCEPT !.state = "RX"] IN
       tftp' \in {IF tftp.timed THEN tftp_send_oack(server, fail) ELSE tftp_send_ack(server, fail),
                  tftp_send_rx_req(tftp, fail)}
    /\ UNCHANGED tftpClock

(* A server without options asks its callback for the first block while    *)
(* the state is still that of a new session, 0: READ_REQUESTED.            *)
pico_tftp_start_tx(fail) ==
    /\ tftp.state = "NEW"
    /\ LET s == [tftp EXCEPT !.counter = 1 % TftpWrap] IN
       \/ tftp' = tftp_send_tx_req(s, fail)
       \/ tftp.timed /\ tftp' = [tftp_send_oack(s, fail) EXCEPT !.state = "WAIT_OPT_CONFIRM"]
       \/ ~tftp.timed /\ tftp' \in Notified([s EXCEPT !.state = "READ_REQUESTED"], fail)
    /\ UNCHANGED tftpClock

(* The application calls these when synchro is not 0.                      *)
pico_tftp_get(fail) ==
    /\ tftp.app /\ tftp.synchro # 0 /\ tftp.state # "FREED"
    /\ LET s == [tftp EXCEPT !.synchro = 0] IN
       IF tftp.synchro < 0 \/ tftp.state \notin {"RX", "READ_REQUESTED"} THEN tftp' = s
       ELSE tftp' = tftp_eval_finish(tftp_send_ack(s, fail), tftp.len # "full")
    /\ UNCHANGED tftpClock

pico_tftp_put(full, fail) ==
    /\ tftp.app /\ tftp.synchro # 0 /\ tftp.state \in {"READ_REQUESTED", "WRITE_REQUESTED", "TX",
                                                       "WAIT_OPT_CONFIRM"}
    /\ LET s == [tftp EXCEPT !.synchro = 0] IN
       tftp' = IF tftp.synchro < 0 THEN s ELSE tftp_send_data(s, full, fail)
    /\ UNCHANGED tftpClock

pico_tftp_abort(fail) ==
    /\ tftp.state \notin {"NEW", "CLOSING", "FREED"}
    /\ tftp' = tftp_finish(tftp, fail)
    /\ UNCHANGED tftpClock

-----------------------------------------------------------------------------
(* The messages.  ours: does the sender have the address of the peer?      *)

event_ack0(s, m, fail) ==
    IF m.ours /\ m.block = 0 THEN Notified(s, fail) ELSE {tftp_finish(s, fail)}

(* Computed in unsigned int: 0 has no predecessor among the blocks.        *)
event_ack_base(s, m) == m.ours /\ m.block = s.counter - 1

event_ack(s, m, fail) ==
    IF event_ack_base(s, m) THEN Notified(s, fail) ELSE {tftp_finish(Failed(s), fail)}

event_ack_last(s, m, fail) ==
    {tftp_finish(IF event_ack_base(s, m) THEN s ELSE Failed(s), fail)}

(* The callback is given a block and refuses it (< 0) or not.  Its length  *)
(* with the header decides whether it was the last one.                    *)
Received(s, m, refused, fail) ==
    IF s.app THEN [s EXCEPT !.synchro = 1, !.len = m.len]
    ELSE tftp_eval_finish(IF refused THEN s ELSE tftp_send_ack(s, fail), m.len = "short")

event_data(s, m, fail) ==
    IF ~m.ours THEN {tftp_finish(s, fail)}
    ELSE IF m.block > s.counter + 1 THEN {tftp_finish(Failed(s), fail)}
    ELSE IF m.block < s.counter + 1 THEN {s}
    ELSE {Received([s EXCEPT !.counter = (@ + 1) % TftpWrap], m, refused, fail) :
              refused \in BOOLEAN}

event_data_rdr(s, m, fail) == event_data(IF m.ours THEN [s EXCEPT !.state = "RX"] ELSE s, m, fail)

(* An OACK that asks for more than we proposed finishes the session, and   *)
(* its callers then go on with it.                                         *)
event_oack(s, m, fail) ==
    IF m.valid THEN {[s EXCEPT !.timed = t] : t \in {FALSE, s.timed}}
    ELSE {tftp_finish(Failed([s EXCEPT !.timed = t]), fail) : t \in BOOLEAN}

event_oack_rr(s, m, fail) ==
    {[tftp_send_ack(t, fail) EXCEPT !.state = "RX"] : t \in event_oack(s, m, fail)}

event_oack_wr(s, m, fail) ==
    UNION {{[u EXCEPT !.state = "TX"] : u \in IF m.valid THEN Notified(t, fail) ELSE {t}} :
               t \in event_oack(s, m, fail)}

unexpected(s, fail) == {tftp_finish(s, fail)}

(* LAST_ACK_SENT, the one row left out, is a state no code enters.         *)
fsm(s, m, fail) ==
    CASE s.state = "CLOSING" -> {s}
      [] s.state # "CLOSING" /\ m.op = "ERROR" -> {tftp_finish(Failed(s), fail)}
      [] s.state = "READ_REQUESTED" /\ m.op = "DATA" -> event_data_rdr(s, m, fail)
      [] s.state = "READ_REQUESTED" /\ m.op = "OACK" -> event_oack_rr(s, m, fail)
      [] s.state = "RX" /\ m.op = "DATA" -> event_data(s, m, fail)
      [] s.state = "WRITE_REQUESTED" /\ m.op = "ACK" -> event_ack0(s, m, fail)
      [] s.state = "WRITE_REQUESTED" /\ m.op = "OACK" -> event_oack_wr(s, m, fail)
      [] s.state = "TX" /\ m.op = "ACK" -> event_ack(s, m, fail)
      [] s.state = "WAIT_OPT_CONFIRM" /\ m.op = "ACK" -> event_ack0(s, m, fail)
      [] s.state = "WAIT_LAST_ACK" /\ m.op = "ACK" -> event_ack_last(s, m, fail)
      [] OTHER -> unexpected(s, fail)

TftpMessages ==
    [op : {"DATA"}, ours : {TRUE}, block : Blocks, len : Payloads] \union
    [op : {"ACK"}, ours : {TRUE}, block : Blocks] \union
    [op : {"DATA"}, ours : {FALSE}, block : {0}, len : {"short"}] \union
    [op : {"ACK"}, ours : {FALSE}, block : {0}] \union
    [op : {"OACK"}, valid : BOOLEAN] \union [op : {"ERROR", "RRQ"}]

(* A session whose socket was closed hears nothing; a message for one that *)
(* goes on hearing starts by calling its timeout off.                      *)
tftp_message_received(m, fail) ==
    /\ tftp.socket /\ tftp.state \notin {"NEW", "FREED"}
    /\ Cardinality(tftp.timers) < TftpTimers
    /\ LET s == [tftp EXCEPT !.wallclock = None] IN
       tftp' \in IF m.op = "RRQ" THEN unexpected(s, fail) ELSE fsm(s, m, fail)
    /\ UNCHANGED tftpClock

(* PICO_SOCK_EV_ERR                                                        *)
tftp_cb_error(fail) ==
    /\ tftp.socket /\ tftp.state \notin {"NEW", "FREED"}
    /\ tftp' = tftp_finish(Failed(tftp), fail)
    /\ UNCHANGED tftpClock

-----------------------------------------------------------------------------
(* The timers.                                                             *)

TftpTicks == tftpClock' = 1 - tftpClock

(* Mutant of event_timeout: an attempt is not counted.                     *)
RetriesForEver(s, fail) == tftp_schedule_timeout(s, 2, fail)

event_timeout(s, fail) ==
    LET n == s.retry + 1
        t == [s EXCEPT !.retry = n] IN
    IF n = TftpMaxRetry THEN tftp_finish(Failed(t), fail)
    ELSE tftp_schedule_timeout(t, IF t.timed THEN 1 ELSE 2 ^ n, fail)

event_timeout_closing(s) ==
    IF s.active = 0 THEN [s EXCEPT !.state = "FREED"] ELSE s

(* A timer of a freed session uses its memory.                             *)
timer_callback(t, fail) ==
    /\ t \in tftp.timers /\ t.left = 0
    /\ LET s == [tftp EXCEPT !.timers = @ \ {t}, !.timer = IF @ = t.id THEN 0 ELSE @,
                             !.active = IF tftp.state = "FREED" THEN 0 ELSE @ - 1]
           u == [s EXCEPT !.wallclock = None] IN
       tftp' = IF s.state = "FREED" THEN [s EXCEPT !.freed_use = TRUE]
               ELSE IF s.wallclock = None THEN s
               ELSE IF s.wallclock > 0 THEN tftp_schedule_timeout(s, s.wallclock, fail)
               ELSE IF s.state = "CLOSING" THEN event_timeout_closing(u)
               ELSE event_timeout(u, fail)
    /\ TftpTicks

TftpTimer == \E t \in tftp.timers, fail \in Failures : timer_callback(t, fail)

(* Nothing is due: a unit of time passes.                                  *)
Less(n) == IF n > 0 THEN n - 1 ELSE n
TftpUnit ==
    /\ \A t \in tftp.timers : t.left > 0
    /\ tftp' = [tftp EXCEPT !.timers = {[t EXCEPT !.left = @ - 1] : t \in tftp.timers},
                            !.wallclock = Less(@), !.bigger = Less(@)]
    /\ TftpTicks

TftpNext ==
    \/ \E fail \in Failures :
         \/ pico_tftp_start_rx(fail) \/ pico_tftp_start_tx(fail) \/ pico_tftp_get(fail)
         \/ \E full \in BOOLEAN : pico_tftp_put(full, fail)
         \/ pico_tftp_abort(fail) \/ tftp_cb_error(fail)
         \/ \E m \in TftpMessages : tftp_message_received(m, fail)
    \/ TftpTimer \/ TftpUnit

(* Time passes and what is due is done: pico_stack_tick is called on.      *)
TftpSpec == TftpInit /\ [][TftpNext]_tftpVars /\ WF_tftpClock(TftpTicks)

-----------------------------------------------------------------------------
(* Type invariant of the session.                                          *)
TftpTypeOK ==
    /\ tftp.state \in {"NEW", "READ_REQUESTED", "RX", "WRITE_REQUESTED", "TX", "WAIT_OPT_CONFIRM",
                       "WAIT_LAST_ACK", "CLOSING", "FREED"}
    /\ tftp.counter \in Blocks /\ tftp.retry \in 0 .. TftpMaxRetry
    /\ tftp.active \in -(TftpTimers + 4) .. TftpTimers + 4 /\ tftp.wallclock \in {None} \union Nat
    /\ tftp.bigger \in Nat

(* A session that waits does not wait for ever: retries are counted over   *)
(* its whole life, so after at most TFTP_MAX_RETRY of them it is closed,   *)
(* unless a message calls the timeout off and starts no other.             *)
TftpEnds == tftp.wallclock # None ~> tftp.wallclock = None \/ tftp.state = "CLOSING"
=============================================================================
