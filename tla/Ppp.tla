-------------------------------- MODULE Ppp --------------------------------
(***************************************************************************)
(* The PPP device (modules/pico_dev_ppp.c): the four state machines of the *)
(* modem, LCP, the authentication and IPCP, which call each other, and the *)
(* one tick that serves the timers of all four.                            *)
(*                                                                         *)
(* The struct pico_device_ppp is the record ppp.  A machine is a table of  *)
(* (state, event) entries, each a next state and the handlers to call, as  *)
(* in the code: a Row leaves the state at every event and calls nothing,   *)
(* EXCEPT at the events it names.  A handler is a function from the record *)
(* to the record.  What is sent has no place in the record: the modem and  *)
(* the peer may say anything at any time, an AT line while the modem is    *)
(* not connected and a frame while it is, as pico_ppp_poll reads them.  A  *)
(* frame with a wrong checksum is one that never came.                     *)
(***************************************************************************)
EXTENDS Integers, Sequences, FiniteSets

CONSTANTS
    DefaultTimer,    \* PICO_PPP_DEFAULT_TIMER
    MaxTerminate,    \* PICO_PPP_DEFAULT_MAX_TERMINATE
    MaxConfigure,    \* PICO_PPP_DEFAULT_MAX_CONFIGURE
    MaxFailure,      \* PICO_PPP_DEFAULT_MAX_FAILURE
    MaxDialtime,     \* PICO_PPP_DEFAULT_MAX_DIALTIME
    PppAddrs,        \* the addresses IPCP may bring up
    AuthProtocols    \* what a peer asks for: PAP, CHAP, none or one we do not know

ASSUME PppAssumption ==
    /\ {DefaultTimer, MaxTerminate, MaxConfigure, MaxFailure, MaxDialtime} \subseteq Nat \ {0}
    /\ PppAddrs \subseteq Nat \ {0}
    /\ AuthProtocols \subseteq {"none", "PAP", "CHAP", "unknown"}

VARIABLES
    ppp,         \* the device
    pppClock     \* the parity of the seconds that have passed

ModemStates == {"INITIAL", "RESET", "ECHO", "CREG", "CGREG", "CGDCONT", "CGATT", "DIAL",
                "CONNECTED"}
ModemEvents == {"START", "STOP", "OK", "CONNECT", "TIMEOUT"}
LcpStates == {"INITIAL", "STARTING", "CLOSED", "STOPPED", "CLOSING", "STOPPING", "REQ_SENT",
              "ACK_RCVD", "ACK_SENT", "OPENED"}
(* RTR, RTA, RUC and RXJ are in the tables too, but lcp_process_in never    *)
(* raises them.                                                            *)
LcpEvents == {"UP", "DOWN", "OPEN", "CLOSE", "TO_POS", "TO_NEG", "RCR_POS", "RCR_NEG", "RCA",
              "RCN", "RXR"}
AuthStates == {"INITIAL", "STARTING", "RSP_SENT", "REQ_SENT", "AUTHENTICATED"}
AuthEvents == {"UP_NONE", "UP_PAP", "UP_CHAP", "DOWN", "RAC", "RAA", "RAN", "TO"}
IpcpStates == {"INITIAL", "REQ_SENT", "ACK_RCVD", "ACK_SENT", "OPENED"}
IpcpEvents == {"UP", "DOWN", "RCR_POS", "RCA", "RCN", "TO"}
PppTimers == {"MODEM", "LCPREQ", "LCPTERM", "AUTH", "IPCP"}

(* lack: no memory for a frame, for the length of a step.  History:        *)
(* ack_rcvd, has a Configure-Ack come since our last Configure-Request,    *)
(* whichever request it answers; ack_sent, did we acknowledge the peer's   *)
(* last one; missed, has LCP no restart timer because there was no memory. *)
pico_ppp_create ==
    [modem |-> "INITIAL", lcp |-> "INITIAL", auth_state |-> "INITIAL", ipcp |-> "INITIAL",
     on |-> {}, val |-> 0, count |-> 0, auth |-> "none", localauth |-> TRUE, ip |-> 0,
     links |-> {}, autoreconnect |-> FALSE, lack |-> FALSE,
     ack_rcvd |-> FALSE, ack_sent |-> FALSE, missed |-> FALSE]

To(state, handlers) == [next |-> state, do |-> handlers]
Row(state, events) == [e \in events |-> To(state, <<>>)]
Handler(entry, i) == IF i <= Len(entry.do) THEN entry.do[i] ELSE "none"

-----------------------------------------------------------------------------
(* IPCP.                                                                   *)

ipcp_start_timer(d) ==
    [d EXCEPT !.on = @ \union {"IPCP"}, !.val = DefaultTimer * MaxFailure]
ipcp_bring_up(d) == IF d.ip = 0 THEN d ELSE [d EXCEPT !.links = @ \union {d.ip}]

ppp_ipcp_fsm ==
    LET req == <<"send_req", "start_timer">> IN
    [INITIAL  |-> [Row("INITIAL", IpcpEvents) EXCEPT !.UP = To("REQ_SENT", req)],
     REQ_SENT |-> [Row("REQ_SENT", IpcpEvents) EXCEPT
        !.DOWN = To("INITIAL", <<>>), !.RCR_POS = To("ACK_SENT", <<"send_ack">>),
        !.RCA = To("ACK_RCVD", <<>>), !.RCN = To("REQ_SENT", req), !.TO = To("REQ_SENT", req)],
     ACK_RCVD |-> [Row("ACK_RCVD", IpcpEvents) EXCEPT
        !.DOWN = To("INITIAL", <<>>), !.RCR_POS = To("OPENED", <<"send_ack", "bring_up">>),
        !.RCA = To("REQ_SENT", req), !.RCN = To("REQ_SENT", req), !.TO = To("ACK_RCVD", req)],
     ACK_SENT |-> [Row("ACK_SENT", IpcpEvents) EXCEPT
        !.DOWN = To("INITIAL", <<>>), !.RCR_POS = To("ACK_SENT", <<"send_ack">>),
        !.RCA = To("OPENED", <<"bring_up">>), !.RCN = To("ACK_SENT", req),
        !.TO = To("ACK_SENT", req)],
     OPENED   |-> [Row("OPENED", IpcpEvents) EXCEPT
        !.DOWN = To("INITIAL", <<"bring_down">>),
        !.RCR_POS = To("ACK_SENT", <<"bring_down", "send_req", "send_ack">>),
        !.RCA = To("REQ_SENT", <<"send_req">>), !.RCN = To("REQ_SENT", <<"send_req">>)]]

IpcpHandler(h, d) ==
    CASE h = "start_timer" -> ipcp_start_timer(d)
      [] h = "bring_up"    -> ipcp_bring_up(d)
      [] OTHER             -> d    \* sends, or does nothing

IpcpApply(entry, d) ==
    IpcpHandler(Handler(entry, 2),
        IpcpHandler(Handler(entry, 1), [d EXCEPT !.ipcp = entry.next]))
evaluate_ipcp_state(e, d) == IpcpApply(ppp_ipcp_fsm[d.ipcp][e], d)

-----------------------------------------------------------------------------
(* The authentication, but for RAN, which closes LCP and is defined below. *)

auth_start_timer(d) == [d EXCEPT !.on = @ \union {"AUTH"}, !.val = DefaultTimer]

ppp_auth_fsm ==
    [INITIAL  |-> [Row("INITIAL", AuthEvents) EXCEPT
        !.UP_NONE = To("AUTHENTICATED", <<"auth">>),
        !.UP_PAP = To("REQ_SENT", <<"req", "start_timer">>),
        !.UP_CHAP = To("STARTING", <<>>), !.RAN = To("INITIAL", <<"abort">>)],
     STARTING |-> [Row("STARTING", AuthEvents) EXCEPT
        !.DOWN = To("INITIAL", <<"deauth">>), !.RAC = To("RSP_SENT", <<"rsp", "start_timer">>),
        !.RAA = To("STARTING", <<"start_timer">>), !.RAN = To("STARTING", <<"abort">>),
        !.TO = To("INITIAL", <<"req", "start_timer">>)],
     RSP_SENT |-> [Row("RSP_SENT", AuthEvents) EXCEPT
        !.DOWN = To("INITIAL", <<"deauth">>), !.RAC = To("RSP_SENT", <<"rsp", "start_timer">>),
        !.RAA = To("AUTHENTICATED", <<"auth">>), !.RAN = To("STARTING", <<"abort">>),
        !.TO = To("STARTING", <<"start_timer">>)],
     REQ_SENT |-> [Row("REQ_SENT", AuthEvents) EXCEPT
        !.DOWN = To("INITIAL", <<"deauth">>), !.RAA = To("AUTHENTICATED", <<"auth">>),
        !.RAN = To("REQ_SENT", <<"abort">>), !.TO = To("REQ_SENT", <<"req", "start_timer">>)],
     AUTHENTICATED |-> [Row("AUTHENTICATED", AuthEvents) EXCEPT
        !.DOWN = To("INITIAL", <<"deauth">>), !.RAC = To("RSP_SENT", <<"rsp">>)]]

AuthHandler(h, d) ==
    CASE h = "start_timer" -> auth_start_timer(d)
      [] h = "auth"        -> evaluate_ipcp_state("UP", d)
      [] h = "deauth"      -> evaluate_ipcp_state("DOWN", d)
      [] OTHER             -> d

AuthApply(entry, d) ==
    AuthHandler(Handler(entry, 2),
        AuthHandler(Handler(entry, 1), [d EXCEPT !.auth_state = entry.next]))
AuthEvaluate(e, d) == AuthApply(ppp_auth_fsm[d.auth_state][e], d)

-----------------------------------------------------------------------------
(* The modem, but for STOP, which takes LCP down and is defined below.     *)

ppp_modem_start_timer(d) == [d EXCEPT !.on = @ \union {"MODEM"}, !.val = DefaultTimer]

ModemReset == To("RESET", <<"send">>)

(* A state in which an AT command waits for OK.                            *)
Asking(state, next) == [Row(state, ModemEvents) EXCEPT
    !.STOP = To("INITIAL", <<>>), !.TIMEOUT = ModemReset,
    !.OK = To(next, IF next = "DIAL" THEN <<"dial">> ELSE <<"send">>)]

ppp_modem_fsm ==
    [INITIAL |-> [Row("INITIAL", ModemEvents) EXCEPT
        !.START = ModemReset, !.TIMEOUT = To("INITIAL", <<"send">>)],
     RESET   |-> Asking("RESET", "ECHO"),
     ECHO    |-> Asking("ECHO", "CREG"),
     CREG    |-> Asking("CREG", "CGREG"),
     CGREG   |-> Asking("CGREG", "CGDCONT"),
     CGDCONT |-> Asking("CGDCONT", "CGATT"),
     CGATT   |-> Asking("CGATT", "DIAL"),
     DIAL    |-> [Row("DIAL", ModemEvents) EXCEPT
        !.STOP = To("INITIAL", <<>>), !.CONNECT = To("CONNECTED", <<"connected">>),
        !.TIMEOUT = ModemReset],
     CONNECTED |-> [Row("CONNECTED", ModemEvents) EXCEPT
        !.STOP = To("INITIAL", <<"disconnected">>)]]

ModemHandler(h, d) ==
    CASE h = "send" -> ppp_modem_start_timer(d)
      [] h = "dial" -> [ppp_modem_start_timer(d) EXCEPT !.val = MaxDialtime]
      [] OTHER      -> d

ModemMove(entry, d) == [d EXCEPT !.modem = entry.next]
ModemEvaluate(e, d) ==
    ModemHandler(Handler(ppp_modem_fsm[d.modem][e], 1), ModemMove(ppp_modem_fsm[d.modem][e], d))

-----------------------------------------------------------------------------
(* LCP.                                                                    *)

(* Mutant of lcp_timer_start: the bit of the timer is not set.             *)
NoTimerBit(type, d) ==
    [d EXCEPT !.val = IF @ = 0 THEN DefaultTimer ELSE @,
              !.count = IF @ = 0 THEN MaxConfigure ELSE @]

(* The counter is only set when it is zero: what one phase leaves of it is *)
(* the next one's.                                                         *)
lcp_timer_start(type, d) ==
    [d EXCEPT !.on = @ \union {type},
              !.val = IF @ = 0 THEN DefaultTimer ELSE @,
              !.count = IF @ = 0 THEN IF type = "LCPTERM" THEN MaxTerminate ELSE MaxConfigure
                                 ELSE @]

RestartTimer(d) == d.on \intersect {"LCPREQ", "LCPTERM"} # {}

(* Without memory for the frame the restart timer is not started either.   *)
lcp_send_configure_request(d) ==
    IF d.lack
    THEN [d EXCEPT !.ack_rcvd = FALSE, !.missed = ~RestartTimer(d)]
    ELSE lcp_timer_start("LCPREQ", [d EXCEPT !.val = DefaultTimer, !.ack_rcvd = FALSE,
                                             !.missed = FALSE])
lcp_send_terminate_request(d) == lcp_timer_start("LCPTERM", d)
lcp_initialize_restart_count(d) == lcp_timer_start("LCPREQ", d)
lcp_send_configure_ack(d) == [d EXCEPT !.ack_sent = TRUE]
lcp_send_configure_nack(d) == [d EXCEPT !.ack_sent = FALSE]
lcp_this_layer_up(d) ==
    IF d.auth = "unknown" THEN d
    ELSE AuthEvaluate([none |-> "UP_NONE", PAP |-> "UP_PAP", CHAP |-> "UP_CHAP"][d.auth], d)

LcpInitial == [Row("INITIAL", LcpEvents) EXCEPT
    !.UP = To("CLOSED", <<>>), !.OPEN = To("STARTING", <<"started">>)]
LcpStarting == [Row("STARTING", LcpEvents) EXCEPT
    !.UP = To("REQ_SENT", <<"creq">>), !.CLOSE = To("INITIAL", <<"finished">>)]
LcpClosed == [Row("CLOSED", LcpEvents) EXCEPT
    !.DOWN = To("INITIAL", <<>>), !.OPEN = To("REQ_SENT", <<"creq">>),
    !.RCR_POS = To("CLOSED", <<"tack">>), !.RCR_NEG = To("CLOSED", <<"tack">>),
    !.RCA = To("CLOSED", <<"tack">>), !.RCN = To("CLOSED", <<"tack">>)]
LcpStopped == [Row("STOPPED", LcpEvents) EXCEPT
    !.DOWN = To("STARTING", <<"started">>), !.CLOSE = To("CLOSED", <<>>),
    !.RCR_POS = To("ACK_SENT", <<"creq", "ack">>), !.RCR_NEG = To("REQ_SENT", <<"creq", "nack">>),
    !.RCA = To("STOPPED", <<"tack">>), !.RCN = To("STOPPED", <<"tack">>)]
LcpClosing == [Row("CLOSING", LcpEvents) EXCEPT
    !.DOWN = To("INITIAL", <<>>), !.OPEN = To("STOPPING", <<>>),
    !.TO_POS = To("CLOSING", <<"treq">>), !.TO_NEG = To("CLOSED", <<"finished">>)]
LcpStopping == [Row("STOPPING", LcpEvents) EXCEPT
    !.DOWN = To("STARTING", <<>>), !.CLOSE = To("CLOSING", <<>>),
    !.TO_POS = To("STOPPING", <<"treq">>), !.TO_NEG = To("STOPPED", <<"finished">>)]

(* What the three states of a negotiation have in common.                  *)
Negotiating(state) == [Row(state, LcpEvents) EXCEPT
    !.DOWN = To("STARTING", <<>>), !.CLOSE = To("CLOSING", <<"treq">>),
    !.TO_NEG = To("STOPPED", <<"finished">>)]

LcpReqSent == [Negotiating("REQ_SENT") EXCEPT
    !.TO_POS = To("REQ_SENT", <<"creq">>), !.RCR_POS = To("ACK_SENT", <<"ack">>),
    !.RCR_NEG = To("REQ_SENT", <<"nack">>), !.RCA = To("ACK_RCVD", <<"irc">>),
    !.RCN = To("REQ_SENT", <<"creq">>)]
LcpAckRcvd == [Negotiating("ACK_RCVD") EXCEPT
    !.TO_POS = To("REQ_SENT", <<"creq">>), !.RCR_POS = To("OPENED", <<"ack", "up">>),
    !.RCR_NEG = To("ACK_RCVD", <<"nack">>), !.RCA = To("REQ_SENT", <<"creq">>),
    !.RCN = To("REQ_SENT", <<"creq">>)]

(* Mutant of LcpAckSent: a Nak of a second request does not undo the Ack   *)
(* of the first.                                                           *)
NackKeepsAckSent == [Negotiating("ACK_SENT") EXCEPT
    !.TO_POS = To("ACK_SENT", <<"creq">>), !.RCR_POS = To("ACK_SENT", <<"ack">>),
    !.RCR_NEG = To("ACK_SENT", <<"nack">>), !.RCA = To("OPENED", <<"up">>),
    !.RCN = To("ACK_SENT", <<"creq">>)]

LcpAckSent == [Negotiating("ACK_SENT") EXCEPT
    !.TO_POS = To("ACK_SENT", <<"creq">>), !.RCR_POS = To("ACK_SENT", <<"ack">>),
    !.RCR_NEG = To("REQ_SENT", <<"nack">>), !.RCA = To("OPENED", <<"up">>),
    !.RCN = To("ACK_SENT", <<"creq">>)]

LcpOpened == [Row("OPENED", LcpEvents) EXCEPT
    !.DOWN = To("STARTING", <<"down">>), !.CLOSE = To("CLOSING", <<"down", "treq">>),
    !.RCR_POS = To("ACK_SENT", <<"down", "treq", "ack">>),
    !.RCR_NEG = To("REQ_SENT", <<"down", "creq", "nack">>),
    !.RCA = To("REQ_SENT", <<"down", "treq">>), !.RCN = To("REQ_SENT", <<"down", "treq">>),
    !.RXR = To("OPENED", <<"echo_reply">>)]

ppp_lcp_fsm ==
    [INITIAL |-> LcpInitial, STARTING |-> LcpStarting, CLOSED |-> LcpClosed,
     STOPPED |-> LcpStopped, CLOSING |-> LcpClosing, STOPPING |-> LcpStopping,
     REQ_SENT |-> LcpReqSent, ACK_RCVD |-> LcpAckRcvd, ACK_SENT |-> LcpAckSent,
     OPENED |-> LcpOpened]

LcpHandler(h, d) ==
    CASE h = "creq"    -> lcp_send_configure_request(d)
      [] h = "treq"    -> lcp_send_terminate_request(d)
      [] h = "irc"     -> lcp_initialize_restart_count(d)
      [] h = "ack"     -> lcp_send_configure_ack(d)
      [] h = "nack"    -> lcp_send_configure_nack(d)
      [] h = "up"      -> lcp_this_layer_up(d)
      [] h = "down"    -> AuthEvaluate("DOWN", d)
      [] h = "started" -> ModemEvaluate("START", d)
      [] OTHER         -> d

(* The next state, and the restart timers stopped if it has no timeout.    *)
LcpMove(entry, d) ==
    [d EXCEPT !.lcp = entry.next,
              !.on = IF ppp_lcp_fsm[entry.next]["TO_POS"].do = <<>>
                     THEN @ \ {"LCPREQ", "LCPTERM"} ELSE @]
LcpApply(entry, d) ==
    LcpHandler(Handler(entry, 3), LcpHandler(Handler(entry, 2),
        LcpHandler(Handler(entry, 1), LcpMove(entry, d))))

(* The events of LCP and of the modem that call the other machine: the     *)
(* modem's STOP takes LCP down, and a handler of LCP, never one of its     *)
(* DOWN event, stops the modem.                                            *)
LcpDown(d) == LcpApply(ppp_lcp_fsm[d.lcp]["DOWN"], d)
ModemStop(d) ==
    IF d.modem = "CONNECTED" THEN LcpDown([d EXCEPT !.modem = "INITIAL"])
                             ELSE ModemEvaluate("STOP", d)
LcpFinish(entry, d) ==
    IF Handler(entry, 1) = "finished" THEN ModemStop(LcpMove(entry, d)) ELSE LcpApply(entry, d)
evaluate_lcp_state(e, d) == LcpFinish(ppp_lcp_fsm[d.lcp][e], d)

evaluate_modem_state(e, d) ==
    CASE e = "STOP" -> ModemStop(d)
      [] e = "CONNECT" /\ d.modem = "DIAL" ->
            evaluate_lcp_state("UP", [ModemEvaluate(e, d) EXCEPT !.ack_rcvd = FALSE,
                                                       !.ack_sent = FALSE])
      [] OTHER -> ModemEvaluate(e, d)

auth_abort(d) == evaluate_lcp_state("CLOSE", [d EXCEPT !.on = @ \ {"AUTH"}])
evaluate_auth_state(e, d) ==
    IF e = "RAN" /\ d.auth_state # "AUTHENTICATED"
    THEN auth_abort([d EXCEPT !.auth_state = ppp_auth_fsm[@][e].next])
    ELSE AuthEvaluate(e, d)

-----------------------------------------------------------------------------
(* The tick of every second.                                               *)

Fires(timers, d) == d.val = 0 /\ d.on \intersect timers # {}

check_to_modem(d) ==
    IF Fires({"MODEM"}, d)
    THEN evaluate_modem_state("TIMEOUT", [d EXCEPT !.on = @ \ {"MODEM"}]) ELSE d
CountDown(d) == [d EXCEPT !.count = @ - 1]
check_to_lcp(d) ==
    IF ~Fires({"LCPREQ", "LCPTERM"}, d) THEN d
    ELSE IF d.count = 0 THEN evaluate_lcp_state("TO_NEG", d)
    ELSE CountDown(evaluate_lcp_state("TO_POS", d))
check_to_auth(d) ==
    IF Fires({"AUTH"}, d) THEN evaluate_auth_state("TO", [d EXCEPT !.on = @ \ {"AUTH"}]) ELSE d
check_to_ipcp(d) ==
    IF Fires({"IPCP"}, d) THEN evaluate_ipcp_state("TO", [d EXCEPT !.on = @ \ {"IPCP"}]) ELSE d
Reconnect(d) ==
    IF d.autoreconnect /\ d.lcp = "INITIAL" THEN evaluate_lcp_state("OPEN", d) ELSE d

(* In the steps that may send a Configure-Request the allocation may fail. *)
(* That it did is of interest as long as the negotiation waits.            *)
Allocating == {ppp, [ppp EXCEPT !.lack = TRUE]}
Settled(d) == [d EXCEPT !.lack = FALSE, !.missed = @ /\ d.lcp \in {"REQ_SENT", "ACK_SENT"}]

PppSecond == pppClock' = 1 - pppClock
pico_ppp_tick ==
    /\ \E d \in Allocating :
         ppp' = Settled(Reconnect(check_to_ipcp(check_to_auth(check_to_lcp(check_to_modem(
                    [d EXCEPT !.val = IF @ > 0 THEN @ - 1 ELSE 0]))))))
    /\ PppSecond

-----------------------------------------------------------------------------
(* What arrives: lines while the modem is not connected, frames while it is.*)

ppp_modem_recv ==
    /\ ppp.modem # "CONNECTED"
    /\ \E e \in {"OK", "STOP", "CONNECT"}, d \in Allocating :
         ppp' = Settled(evaluate_modem_state(e, d))

(* A Configure-Request names an authentication protocol or none (and then  *)
(* the one of an earlier request stays), and maybe an option we reject.    *)
ConfReq(auth, unknown, d) ==
    IF unknown \/ (auth # "none" /\ ~d.localauth)
    THEN evaluate_lcp_state("RCR_NEG", d) ELSE evaluate_lcp_state("RCR_POS", d)
Adjust(auth, d) == IF auth = "none" THEN d ELSE [d EXCEPT !.auth = auth]

(* The identifier of a Configure-Ack is not looked at: it may answer a     *)
(* request sent before the last one.  A Terminate-Request of the peer is   *)
(* in no case of the code: nothing happens.                                *)
lcp_process_in ==
    /\ ppp.modem = "CONNECTED"
    /\ \E d \in Allocating :
       \/ \E auth \in AuthProtocols, unknown \in BOOLEAN :
            ppp' = Settled(ConfReq(auth, unknown, Adjust(auth, d)))
       \/ ppp' = Settled(evaluate_lcp_state("RCA", [d EXCEPT !.ack_rcvd = TRUE]))   \* CONF_ACK
       \/ \E auth \in AuthProtocols :                                              \* CONF_NAK
            ppp' = Settled(evaluate_lcp_state("RCN", Adjust(auth, d)))
       \/ \E naming \in BOOLEAN :                                                  \* CONF_REJ
            ppp' = Settled(evaluate_lcp_state("RCN", [d EXCEPT !.localauth = @ /\ ~naming]))
       \/ ppp' = evaluate_lcp_state("RXR", ppp)                                     \* ECHO_REQ

pap_process_in ==
    /\ ppp.modem = "CONNECTED"
    /\ ppp.auth = "PAP"
    /\ \E e \in {"RAA", "RAN"} : ppp' = evaluate_auth_state(e, ppp)
chap_process_in ==
    /\ ppp.modem = "CONNECTED"
    /\ ppp.auth = "CHAP"
    /\ \E e \in {"RAC", "RAA", "RAN"} : ppp' = evaluate_auth_state(e, ppp)

(* Any message of IPCP, an Ack or the peer's own Request too, may name an  *)
(* address, and it becomes ours; a Reject takes it away.  One that names   *)
(* Van Jacobson compression is not given to the machine.                   *)
ipcp_process_in ==
    /\ ppp.modem = "CONNECTED"
    /\ \E code \in {"ACK", "REQ", "NAK", "REJ"}, addr \in PppAddrs \union {0}, vj \in BOOLEAN :
         LET d == IF addr = 0 THEN ppp
                  ELSE [ppp EXCEPT !.ip = IF code = "REJ" THEN 0 ELSE addr]
         IN  ppp' = IF vj THEN d
                    ELSE evaluate_ipcp_state(CASE code = "ACK" -> "RCA" [] code = "REQ" -> "RCR_POS"
                                               [] OTHER -> "RCN", d)

-----------------------------------------------------------------------------
(* The application.                                                        *)

pico_ppp_connect == ppp' = [ppp EXCEPT !.autoreconnect = TRUE]

(* Mutant of pico_ppp_disconnect: the connection is left to the peer.      *)
LeavesOpen == ppp' = [ppp EXCEPT !.autoreconnect = FALSE, !.links = {}]

pico_ppp_disconnect ==
    ppp' = [evaluate_lcp_state("CLOSE", [ppp EXCEPT !.autoreconnect = FALSE]) EXCEPT !.links = {}]

pppVars == <<ppp, pppClock>>
PppInit == ppp = pico_ppp_create /\ pppClock = 0
ppp_process_packet_payload == lcp_process_in \/ pap_process_in \/ chap_process_in \/ ipcp_process_in
pico_ppp_poll == ppp_modem_recv \/ ppp_process_packet_payload
PppInput == pico_ppp_poll \/ pico_ppp_connect \/ pico_ppp_disconnect
PppNext == pico_ppp_tick \/ (PppInput /\ UNCHANGED pppClock)
(* The timer list runs the tick, and nothing else moves the clock, every   *)
(* second, as long as the tick finds memory for its next timer.            *)
PppFairness == WF_pppClock(PppSecond)
PppSpec == PppInit /\ [][PppNext]_pppVars /\ PppFairness

-----------------------------------------------------------------------------
(* Type invariant of the device.                                           *)
PppTypeOK ==
    /\ ppp.modem \in ModemStates /\ ppp.lcp \in LcpStates
    /\ ppp.auth_state \in AuthStates /\ ppp.ipcp \in IpcpStates
    /\ ppp.on \subseteq PppTimers /\ ppp.links \subseteq PppAddrs
    /\ ppp.val \in Nat /\ ppp.ip \in PppAddrs \union {0}
    /\ ppp.count \in 0..(IF MaxTerminate > MaxConfigure THEN MaxTerminate ELSE MaxConfigure)

(* The link is open only after an Ack in each direction (the table of      *)
(* ppp_lcp_fsm): on this connection a Configure-Ack has come since we last *)
(* sent a Configure-Request, though lcp_process_in does not check that it  *)
(* is that request's, and the peer's last Configure-Request was            *)
(* acknowledged, not rejected.                                             *)
PppAgreed == ppp.lcp = "OPENED" => ppp.ack_rcvd /\ ppp.ack_sent

(* The machines stay in step: LCP has left the states below the line       *)
(* exactly when the modem is connected; a negotiation or a termination has *)
(* a restart timer running, but for a negotiation whose Configure-Request  *)
(* found no memory (lcp_send_configure_request); and an                    *)
(* authentication is only under way on an open link.  It is not said that  *)
(* somebody moves the modem, which a line ERROR leaves in INITIAL with LCP *)
(* STARTING, or CHAP, which waits in STARTING without a timer.             *)
PppInStep ==
    /\ ppp.modem = "CONNECTED" <=> ppp.lcp \notin {"INITIAL", "STARTING"}
    /\ ppp.lcp \in {"REQ_SENT", "ACK_SENT"} => RestartTimer(ppp) \/ ppp.missed
    /\ ppp.lcp \in {"ACK_RCVD", "CLOSING"} => RestartTimer(ppp)
    /\ ppp.auth_state # "INITIAL" => ppp.lcp = "OPENED"

(* A disconnected device comes to rest, whatever the peer says or leaves   *)
(* unsaid: LCP ends in INITIAL unless the application connects again.  The *)
(* exception is an IPCP that a re-authentication which timed out has left  *)
(* up: its messages go on and set the one timer_val again and again.       *)
PppDisconnects ==
    ~ppp.autoreconnect ~> (ppp.autoreconnect \/ ppp.lcp = "INITIAL" \/ ppp.ipcp # "INITIAL")
=============================================================================
