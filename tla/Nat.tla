-------------------------------- MODULE Nat ---------------------------------
(***************************************************************************)
(* Network address translation on one link (modules/pico_nat.c), with the  *)
(* local sockets it shares the ports with (stack/pico_socket.c).           *)
(*                                                                         *)
(* A tuple is found by its inner endpoint in NATOutbound and by its port   *)
(* in NATInbound; both trees point at one struct, whose attributes are in  *)
(* attr.  Protocol is part of every key, so tuples of TCP and of UDP never *)
(* meet: a behaviour is about those of one of them.  The outer endpoint is *)
(* stored and never looked at, and so is syn.  ICMP is not translated.     *)
(***************************************************************************)
EXTENDS Integers, FiniteSets

CONSTANTS
    NatHosts,     \* inner endpoints: an address and a port behind the link
    NatPorts,     \* ports of the link
    NatLocal,     \* the ones that local sockets may ask for
    NatDay,       \* cleanups a TCP tuple is kept for: 360
    NatTimers     \* bound: cleanup timers with which NAT may be enabled again

ASSUME NatAssumption == NatLocal \subseteq NatPorts /\ NatDay \in Nat \ {0} /\ NatTimers \in Nat

VARIABLES
    nat,         \* the trees, nat_link, the cleanup timers and the ports of sockets
    natClock     \* parity of the cleanups

natVars == <<nat, natClock>>

Tuples == [src : NatHosts, port : NatPorts]

(* bound: ports that pico_socket_bind has checked; high: ports that        *)
(* pico_socket_high_port has given.  crashed: a NULL tuple was used.       *)
NoTuples(proto, crashed) ==
    [proto |-> proto, on |-> FALSE, NATOutbound |-> {}, NATInbound |-> {}, attr |-> << >>,
     timers |-> 0, bound |-> {}, high |-> {}, crashed |-> crashed]
NatInit ==
    /\ nat \in {NoTuples(proto, FALSE) : proto \in {"TCP", "UDP"}}
    /\ natClock = 0

-----------------------------------------------------------------------------
(* The trees.  Each of these returns a set: the tuple found, or nothing.   *)
Outbound(n, src) == {t \in n.NATOutbound : t.src = src}
Inbound(n, port) == {t \in n.NATInbound : t.port = port}

(* ended: what was seen of the connection's end, the flags rst, fin_in and *)
(* fin_out together.                                                       *)
NewTuple(forward) == [conn_active |-> 1, portforward |-> forward, ended |-> "no"]

(* Mutant of pico_ipv4_nat_add: what does not fit in the second tree stays *)
(* in the first.                                                           *)
LeavesOutbound(n, t, forward) ==
    IF Outbound(n, t.src) # {} THEN n
    ELSE [n EXCEPT !.NATOutbound = @ \union {t},
                   !.NATInbound = IF Inbound(n, t.port) = {} THEN @ \union {t} ELSE @,
                   !.attr = [u \in DOMAIN @ \union {t} |-> IF u = t THEN NewTuple(forward) ELSE @[u]]]

pico_ipv4_nat_add(n, t, forward) ==
    IF Outbound(n, t.src) # {} \/ Inbound(n, t.port) # {} THEN n
    ELSE [n EXCEPT !.NATOutbound = @ \union {t}, !.NATInbound = @ \union {t},
                   !.attr = [u \in DOMAIN @ \union {t} |-> IF u = t THEN NewTuple(forward) ELSE @[u]]]

pico_ipv4_nat_del(n, ts) ==
    [n EXCEPT !.NATOutbound = @ \ ts, !.NATInbound = @ \ ts,
              !.attr = [u \in DOMAIN @ \ ts |-> @[u]]]

-----------------------------------------------------------------------------
(* Ports.  A socket is bound to any address.                               *)

pico_port_in_use_by_nat(n, p) == Inbound(n, p) # {}
pico_port_in_use_ipv4(n, p) == p \in n.bound \union n.high

(* Mutant of pico_is_port_free: only sockets count.                        *)
FreeOfSockets(n, p) == ~pico_port_in_use_ipv4(n, p)
pico_is_port_free(n, p) == ~pico_port_in_use_by_nat(n, p) /\ ~pico_port_in_use_ipv4(n, p)

pico_socket_bind(p) ==
    /\ pico_is_port_free(nat, p)
    /\ nat' = [nat EXCEPT !.bound = @ \union {p}]

(* Asked for a port of no network protocol, pico_is_port_free says yes:    *)
(* the port a connecting socket gets may be anybody's.                     *)
pico_socket_connect(p) ==
    /\ p \notin nat.high
    /\ nat' = [nat EXCEPT !.high = @ \union {p}]

pico_socket_close(p) ==
    \/ p \in nat.bound /\ nat' = [nat EXCEPT !.bound = @ \ {p}]
    \/ p \in nat.high /\ nat' = [nat EXCEPT !.high = @ \ {p}]

-----------------------------------------------------------------------------
(* Frames.                                                                 *)

(* flag is what a TCP segment carries that matters: a reset, a FIN or none.*)
(* A reset, or a FIN from each side, ends the connection for good: nothing *)
(* clears the flags, not even the SYN of a new one.                        *)
pico_ipv4_nat_sniff_session(n, t, flag, direction) ==
    [n EXCEPT !.attr[t] =
        CASE n.proto = "UDP" -> [@ EXCEPT !.conn_active = 1]
          [] n.proto = "TCP" /\ flag = "RST" -> [@ EXCEPT !.ended = "both"]
          [] n.proto = "TCP" /\ flag = "FIN" ->
                [@ EXCEPT !.ended = IF @ \in {"no", direction} THEN direction ELSE "both"]
          [] OTHER -> @]

pico_ipv4_nat_inbound(p, flag) ==
    /\ nat.on
    /\ \E t \in Inbound(nat, p) : nat' = pico_ipv4_nat_sniff_session(nat, t, flag, "fin_in")

(* A port is drawn 32 times at most.  The tuple may be NULL: no port was   *)
(* free or there was no memory, and its address is read all the same.      *)
pico_ipv4_nat_generate_tuple(n, src) ==
    {pico_ipv4_nat_add(n, [src |-> src, port |-> p], FALSE) :
         p \in {q \in NatPorts : pico_is_port_free(n, q)}} \union {n}

pico_ipv4_nat_outbound(src, flag) ==
    /\ nat.on
    /\ \E n \in IF Outbound(nat, src) # {} THEN {nat} ELSE pico_ipv4_nat_generate_tuple(nat, src) :
         \/ \E t \in Outbound(n, src) :
               nat' = pico_ipv4_nat_sniff_session(n, t, flag, "fin_out")
         \/ Outbound(n, src) = {} /\ nat' = NoTuples(nat.proto, TRUE)

-----------------------------------------------------------------------------
(* The application.                                                        *)

PortForwardAdd(t) == nat' = pico_ipv4_nat_add(nat, t, TRUE)
PortForwardDel(p) == nat' = pico_ipv4_nat_del(nat, Inbound(nat, p))

(* Disabling leaves the timer, and enabling adds another one.              *)
pico_ipv4_nat_enable ==
    /\ nat.timers <= NatTimers
    /\ nat' = [nat EXCEPT !.on = TRUE, !.timers = @ + 1]
pico_ipv4_nat_disable == nat' = [nat EXCEPT !.on = FALSE]

-----------------------------------------------------------------------------
(* The table's cleanup.                                                    *)

(* Mutant of Expired: the age of a TCP tuple does not count.               *)
OnlyClosed(a) ==
    ~a.portforward /\ IF nat.proto = "TCP" THEN a.conn_active = 0 ELSE a.conn_active > 1

Expired(a) ==
    /\ ~a.portforward
    /\ IF nat.proto = "TCP" THEN a.conn_active = 0 \/ a.conn_active > NatDay ELSE a.conn_active > 1

Aged(a) ==
    CASE a.portforward -> a
      [] ~a.portforward /\ nat.proto = "TCP" /\ a.ended = "both" -> [a EXCEPT !.conn_active = 0]
      [] OTHER -> [a EXCEPT !.conn_active = @ + 1]

NatFires == nat.timers > 0 /\ ~nat.crashed /\ natClock' = 1 - natClock
pico_ipv4_nat_table_cleanup ==
    /\ \E rearmed \in BOOLEAN :
         LET gone == {t \in nat.NATOutbound : Expired(nat.attr[t])}
             n == pico_ipv4_nat_del(nat, gone)
         IN  nat' = [n EXCEPT !.attr = [t \in DOMAIN @ |-> Aged(@[t])],
                              !.timers = IF rearmed THEN @ ELSE @ - 1]
    /\ NatFires

NatNext ==
    \/ /\ ~nat.crashed
       /\ \/ \E p \in NatLocal : pico_socket_bind(p) \/ pico_socket_connect(p) \/ pico_socket_close(p)
          \/ \E p \in NatPorts : PortForwardDel(p)
          \/ \E flag \in {"RST", "FIN", "none"} :
               \/ \E p \in NatPorts : pico_ipv4_nat_inbound(p, flag)
               \/ \E src \in NatHosts : pico_ipv4_nat_outbound(src, flag)
          \/ \E t \in Tuples : PortForwardAdd(t)
          \/ pico_ipv4_nat_enable \/ pico_ipv4_nat_disable
       /\ UNCHANGED natClock
    \/ pico_ipv4_nat_table_cleanup

(* A cleanup that is pending comes: pico_stack_tick is called on.          *)
NatSpec == NatInit /\ [][NatNext]_natVars /\ WF_natClock(NatFires)

-----------------------------------------------------------------------------
(* Type invariant of the trees and the attributes of their tuples.         *)
NatTypeOK ==
    /\ nat.NATOutbound \union nat.NATInbound \subseteq Tuples /\ DOMAIN nat.attr = nat.NATOutbound
    /\ \A t \in nat.NATOutbound :
          /\ nat.attr[t].conn_active \in 0 .. NatDay + 1
          /\ nat.attr[t].ended \in {"no", "fin_in", "fin_out", "both"}
    /\ nat.timers \in 0 .. NatTimers + 1

(* A reply finds its way back: both trees point at the same tuples, a port *)
(* leads to one inner endpoint and an endpoint to one port, so what comes  *)
(* in for a port goes to the host that was given it, and no tuple takes    *)
(* frames from a local socket whose port was bound, unless the application *)
(* has forwarded that port.  Sockets that connect without binding are left *)
(* out: their port is not checked.                                         *)
NatReplies ==
    /\ nat.NATOutbound = nat.NATInbound
    /\ \A t, u \in nat.NATOutbound :
          t.src = u.src \/ t.port = u.port => t = u
    /\ \A t \in nat.NATOutbound : t.port \in nat.bound => nat.attr[t].portforward

(* The table empties: the TCP tuple of a host ends with its connection or  *)
(* after a day, and a UDP tuple that was not used for a whole interval     *)
(* ends with the next one, as long as a cleanup can add its timer again.   *)
NatEnds ==
    \A src \in NatHosts :
        LET ageing == \E t \in Outbound(nat, src) :
                          /\ ~nat.attr[t].portforward
                          /\ nat.proto = "TCP" \/ nat.attr[t].conn_active = 2
        IN  ageing ~> (~ageing \/ nat.timers = 0 \/ nat.crashed)
=============================================================================
