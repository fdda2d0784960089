-------------------------------- MODULE Dhcp --------------------------------
(***************************************************************************)
(* The DHCP client (modules/pico_dhcp_client.c) of several hosts and the   *)
(* DHCP server (modules/pico_dhcp_server.c) of their link, with the part   *)
(* of modules/pico_arp.c that the server remembers addresses in.           *)
(*                                                                         *)
(* A client's cookie is a record, and a handler a function from the cookie *)
(* to the cookie; the messages it sends are collected in the field tx and  *)
(* leave in the step that runs it.  A struct dhcp_client_timer that was    *)
(* STOPPED does nothing but free itself when it expires, so tmr keeps only *)
(* the types whose timer is STARTED.  Sockets may fail; memory for a timer *)
(* is always found.  The hosts draw different transaction identifiers, and *)
(* no other host has an address of the server's pool.                      *)
(***************************************************************************)
EXTENDS Integers, FiniteSets

CONSTANTS
    Hosts,        \* the clients, by hardware address
    PoolSize,     \* the pool's addresses are 1..PoolSize
    Retries,      \* DHCP_CLIENT_RETRIES
    MaxXid,       \* bound: negotiations started
    MaxFaults     \* bound: messages lost or duplicated, sockets that fail, ...

ASSUME DhcpAssumption ==
    /\ IsFiniteSet(Hosts)
    /\ PoolSize \in Nat \ {0} /\ Retries \in Nat \ {0}
    /\ MaxXid \in Nat /\ MaxFaults \in Nat

VARIABLES
    cookie,     \* cookie[h]: the client's state on host h
    over,       \* over[h]: the lease has run out since the last ACK (history)
    neg,        \* neg[x]: the server's negotiation of transaction x
    pool_next,  \* the next address of the pool
    arp,        \* arp[h]: the address the server's ARP table has for h, or 0
    up,         \* is the server on the network
    net,        \* messages on their way
    born,       \* transaction identifiers drawn
    faults      \* misfortunes so far

server == <<neg, pool_next, arp, up>>
vars == <<cookie, over, neg, pool_next, arp, up, net, born, faults>>

ANY == 0   \* 0.0.0.0

Holding == {"BOUND", "RENEWING", "REBINDING"}
ClientStates == {"none", "INIT", "REQUESTING"} \union Holding
TimerTypes == {"INIT", "REQUEST", "RENEW", "REBIND", "T1", "T2", "LEASE"}

NoCookie == [st |-> "none", xid |-> 0, retry |-> 0, s |-> FALSE, address |-> 0,
             links |-> {}, tmr |-> {}, told |-> "nothing", tx |-> {}]
NoNegotiation == [state |-> "none", hw |-> "none", ciaddr |-> 0]

(* Mutant of Request: a renewal names the offered address and server too.  *)
RequestSelecting(h, kind, c) ==
    [to |-> "server", kind |-> kind, hw |-> h, xid |-> c.xid,
     selecting |-> kind = "REQUEST",
     addr |-> IF c.st \in Holding THEN c.address ELSE 0]

(* REQUEST names the offered address and its server only in REQUESTING,    *)
(* and a message the own address only when the client holds one.           *)
Request(h, kind, c) ==
    [to |-> "server", kind |-> kind, hw |-> h, xid |-> c.xid,
     selecting |-> kind = "REQUEST" /\ c.st = "REQUESTING",
     addr |-> IF c.st \in Holding THEN c.address ELSE 0]
Reply(kind, x, n) ==
    [to |-> "client", kind |-> kind, hw |-> n.hw, xid |-> x, selecting |-> FALSE,
     addr |-> n.ciaddr]

Init ==
    /\ cookie = [h \in Hosts |-> NoCookie]
    /\ over = [h \in Hosts |-> FALSE]
    /\ neg = [x \in 1..MaxXid |-> NoNegotiation]
    /\ pool_next = 1
    /\ arp = [h \in Hosts |-> 0]
    /\ up = TRUE
    /\ net = {}
    /\ born = 0
    /\ faults = 0

-----------------------------------------------------------------------------
(* The client's handlers.  ok says whether the sockets work this time.     *)

pico_dhcp_client_msg(h, c, kind) ==
    IF c.s THEN [c EXCEPT !.tx = @ \union {Request(h, kind, c)}] ELSE c

pico_dhcp_timer_add(c, type) == [c EXCEPT !.tmr = @ \union {type}]
pico_dhcp_client_stop_timers(c) == [c EXCEPT !.tmr = {}, !.retry = 0]

(* The link 0.0.0.0 is there for the broadcast; a DISCOVER leaves, or a    *)
(* short timer tries again.                                                *)
pico_dhcp_client_init(h, c, ok) ==
    LET l == [c EXCEPT !.links = @ \union {ANY}, !.s = ok]
    IN  pico_dhcp_timer_add(IF ok THEN [pico_dhcp_client_msg(h, l, "DISCOVER")
                                          EXCEPT !.retry = 0]
                                  ELSE l,
                            "INIT")

pico_dhcp_initiate_negotiation(h, c, x, ok) ==
    pico_dhcp_client_init(h, [NoCookie EXCEPT !.st = "INIT", !.xid = x, !.links = c.links], ok)

pico_dhcp_client_del_cookie(c) ==
    [NoCookie EXCEPT !.links = c.links \ {c.address}, !.told = c.told]

(* Mutant: one attempt too many.                                           *)
ExhaustedLate(c) == c.retry > Retries + 1

(* ++retry > DHCP_CLIENT_RETRIES                                           *)
Exhausted(c) == c.retry > Retries

pico_dhcp_client_reinit(h, c, ok) ==
    LET r == [c EXCEPT !.s = FALSE, !.retry = @ + 1]
    IN  IF Exhausted(r)
        THEN pico_dhcp_client_del_cookie([r EXCEPT !.told = "ERROR"])
        ELSE pico_dhcp_client_init(h, r, ok)

(* Mutant of recv_offer: the REQUEST is sent once.                         *)
OfferWithoutTimer(h, c, m) ==
    LET r == [c EXCEPT !.address = m.addr, !.st = "REQUESTING", !.retry = 0]
    IN  pico_dhcp_client_msg(h, r, "REQUEST")

recv_offer(h, c, m) ==
    LET r == [c EXCEPT !.address = m.addr, !.st = "REQUESTING", !.retry = 0]
    IN  pico_dhcp_timer_add(pico_dhcp_client_msg(h, r, "REQUEST"), "REQUEST")

(* The address of the ACK counts in REQUESTING only.                       *)
recv_ack(c, m) ==
    LET a == IF c.st = "REQUESTING" THEN m.addr ELSE c.address
    IN  [c EXCEPT !.address = a, !.s = FALSE, !.links = {a}, !.retry = 0,
                  !.tmr = {"T1", "T2", "LEASE"}, !.told = "SUCCESS", !.st = "BOUND"]

(* start_renewing_timer stops the other timers, T2 and LEASE among them.   *)
renew(h, c, ok) ==
    LET r == [c EXCEPT !.st = "RENEWING", !.s = ok]
    IN  IF ~ok THEN [r EXCEPT !.told = "ERROR"]
        ELSE pico_dhcp_timer_add(
                 pico_dhcp_client_stop_timers(pico_dhcp_client_msg(h, r, "REQUEST")), "RENEW")

rebind(h, c) ==
    LET r == [c EXCEPT !.st = "REBINDING"]
    IN  pico_dhcp_timer_add(
            pico_dhcp_client_stop_timers(pico_dhcp_client_msg(h, r, "REQUEST")), "REBIND")

(* Mutant of reset: the link 0.0.0.0 is deleted in every state.            *)
ResetAny(h, c, ok) ==
    LET r == [c EXCEPT !.links = @ \ {ANY}, !.told = "RESET", !.st = "INIT"]
    IN  pico_dhcp_client_init(h, pico_dhcp_client_stop_timers(r), ok)

reset(h, c, ok) ==
    LET r == [c EXCEPT !.links = @ \ {IF c.st = "REQUESTING" THEN ANY ELSE c.address},
                       !.told = "RESET", !.st = "INIT"]
    IN  pico_dhcp_client_init(h, pico_dhcp_client_stop_timers(r), ok)

retransmit(h, c) ==
    CASE c.st = "INIT" ->
             pico_dhcp_timer_add(pico_dhcp_client_msg(h, c, "DISCOVER"), "INIT")
      [] c.st = "REQUESTING" ->
             pico_dhcp_timer_add(pico_dhcp_client_msg(h, c, "REQUEST"), "REQUEST")
      [] c.st = "RENEWING" ->
             pico_dhcp_timer_add(
                 pico_dhcp_client_stop_timers(pico_dhcp_client_msg(h, c, "REQUEST")), "RENEW")
      [] c.st = "REBINDING" ->
             pico_dhcp_timer_add(
                 pico_dhcp_client_stop_timers(pico_dhcp_client_msg(h, c, "DISCOVER")), "REBIND")
      [] OTHER -> c

(* dhcp_fsm: what an event does in a state, if anything.                   *)
pico_dhcp_state_machine(h, c, event, m, ok) ==
    CASE event = "OFFER" /\ c.st = "INIT" -> recv_offer(h, c, m)
      [] event = "ACK" /\ c.st \in {"REQUESTING", "RENEWING", "REBINDING"} -> recv_ack(c, m)
      [] event = "NAK" /\ c.st \in {"REQUESTING", "RENEWING", "REBINDING"} -> reset(h, c, ok)
      [] event = "T1" /\ c.st = "BOUND" -> renew(h, c, ok)
      [] event = "T2" /\ c.st = "RENEWING" -> rebind(h, c)
      [] event = "LEASE" /\ c.st = "REBINDING" -> reset(h, c, ok)
      [] event = "RETRANSMIT" -> retransmit(h, c)
      [] OTHER -> c

(* pico_dhcp_client_timer_handler, with dhcp_get_timer_event: requests are *)
(* repeated Retries times, the others for ever.                            *)
pico_dhcp_client_timer_handler(h, c, type, ok) ==
    LET d == [c EXCEPT !.tmr = @ \ {type}]
        r == [d EXCEPT !.retry = @ + 1]
    IN  CASE type = "INIT" ->
                 IF d.st = "INIT" THEN pico_dhcp_client_reinit(h, d, ok) ELSE d
          [] type = "REQUEST" ->
                 IF Exhausted(r) THEN reset(h, r, ok)
                 ELSE pico_dhcp_state_machine(h, r, "RETRANSMIT", {}, ok)
          [] type \in {"RENEW", "REBIND"} ->
                 pico_dhcp_state_machine(h, r, "RETRANSMIT", {}, ok)
          [] OTHER -> pico_dhcp_state_machine(h, d, type, {}, ok)

-----------------------------------------------------------------------------
(* Actions                                                                 *)

Silent == faults' = faults
Fault == faults < MaxFaults /\ faults' = faults + 1

(* Works(ok): a socket that fails is a misfortune.                         *)
Works(ok) == IF ok THEN Silent ELSE Fault

(* The cookie of h becomes c, and its messages leave; gone is the message  *)
(* that was delivered.                                                     *)
Becomes(h, c, gone) ==
    /\ cookie' = [cookie EXCEPT ![h] = [c EXCEPT !.tx = {}]]
    /\ net' = (net \ gone) \union c.tx

InFlight(h) == {m \in net : m.hw = h}

Start(h) ==
    /\ cookie[h].st = "none" /\ born < MaxXid
    /\ born' = born + 1
    /\ \E ok \in BOOLEAN :
          /\ Becomes(h, pico_dhcp_initiate_negotiation(h, cookie[h], born + 1, ok), {})
          /\ Works(ok)
    /\ over' = [over EXCEPT ![h] = FALSE]
    /\ UNCHANGED server

(* pico_dhcp_client_abort                                                  *)
Abort(h) ==
    /\ cookie[h].st # "none"
    /\ Becomes(h, [pico_dhcp_client_del_cookie(cookie[h]) EXCEPT !.told = "nothing"], {})
    /\ over' = [over EXCEPT ![h] = FALSE]
    /\ UNCHANGED <<born, faults, server>>

(* T1, T2 and the lease's end come in this order; a timer is longer than a *)
(* round trip, unless the network misbehaves; then the sockets work.       *)
Expire(h) ==
    \E type \in cookie[h].tmr, ok \in BOOLEAN :
        /\ type = "T2" => "T1" \notin cookie[h].tmr
        /\ type = "LEASE" => cookie[h].tmr \intersect {"T1", "T2"} = {}
        /\ Becomes(h, pico_dhcp_client_timer_handler(h, cookie[h], type, ok), {})
        /\ IF InFlight(h) = {} THEN Works(ok) ELSE ok /\ Fault
        /\ over' = [over EXCEPT ![h] = type = "LEASE" \/ (@ /\ cookie'[h].st \in Holding)]
        /\ UNCHANGED <<born, server>>

(* Time passes the end of a lease whose timer was stopped.                 *)
LeaseRunsOut(h) ==
    /\ cookie[h].st \in Holding /\ ~over[h]
    /\ cookie[h].tmr \intersect {"T1", "T2", "LEASE"} = {}
    /\ over' = [over EXCEPT ![h] = TRUE]
    /\ UNCHANGED <<cookie, net, born, faults, server>>

(* pico_dhcp_client_wakeup: without a socket, or with the identifier of    *)
(* another transaction, the message is discarded.                          *)
ClientReceives(m, gone) ==
    LET c == cookie[m.hw]
    IN  /\ Becomes(m.hw, IF c.s /\ c.xid = m.xid
                         THEN pico_dhcp_state_machine(m.hw, c, m.kind, m, TRUE) ELSE c, gone)
        /\ over' = [over EXCEPT ![m.hw] = @ /\ cookie'[m.hw].st \in Holding \ {"BOUND"}]
        /\ UNCHANGED <<born, server>>

(* Mutant: every negotiation takes an address of its own.                  *)
AlwaysNext(h) == pool_next

(* dhcp_negotiation_set_ciaddr: the address ARP remembers for the client,  *)
(* or the next of the pool, whether or not the pool has one left.          *)
dhcp_negotiation_set_ciaddr(h) == IF arp[h] # 0 THEN arp[h] ELSE pool_next

(* Mutant: an answered request is final.                                   *)
StaysBound(n, m) ==
    CASE m.kind = "DISCOVER" ->
             IF n.state = "BOUND" THEN [n |-> n, tx |-> {}]
             ELSE [n |-> [n EXCEPT !.state = "OFFER"], tx |-> {Reply("OFFER", m.xid, n)}]
      [] m.kind = "REQUEST" /\ (n.state = "OFFER" \/
              (n.state = "BOUND" /\ ~m.selecting /\ m.addr = n.ciaddr)) ->
             [n |-> [n EXCEPT !.state = "BOUND"], tx |-> {Reply("ACK", m.xid, n)}]
      [] OTHER -> [n |-> n, tx |-> {}]

(* dhcps_parse_options_loop and what it calls: the first REQUEST after an  *)
(* OFFER is acknowledged whatever it names; later ones only if they renew. *)
dhcps_make_reply(n, m) ==
    CASE m.kind = "DISCOVER" ->
             [n |-> [n EXCEPT !.state = "OFFER"], tx |-> {Reply("OFFER", m.xid, n)}]
      [] m.kind = "REQUEST" /\ (n.state = "OFFER" \/
              (n.state = "BOUND" /\ ~m.selecting /\ m.addr = n.ciaddr)) ->
             [n |-> [n EXCEPT !.state = "BOUND"], tx |-> {Reply("ACK", m.xid, n)}]
      [] OTHER -> [n |-> n, tx |-> {}]

(* pico_dhcp_server_recv: an unknown transaction becomes a negotiation; an *)
(* address beyond the pool is never offered.                               *)
pico_dhcp_server_recv(m, gone) ==
    LET new == neg[m.xid] = NoNegotiation
        ip == dhcp_negotiation_set_ciaddr(m.hw)
        n == IF new THEN [state |-> "DISCOVER", hw |-> m.hw, ciaddr |-> ip] ELSE neg[m.xid]
        r == IF n.ciaddr \in 1..PoolSize THEN dhcps_make_reply(n, m) ELSE [n |-> n, tx |-> {}]
    IN  /\ neg' = [neg EXCEPT ![m.xid] = r.n]
        /\ pool_next' = IF new /\ ip = pool_next THEN pool_next + 1 ELSE pool_next
        /\ arp' = IF new THEN [arp EXCEPT ![m.hw] = ip] ELSE arp
        /\ net' = (net \ gone) \union r.tx
        /\ UNCHANGED <<cookie, over, up, born>>

ServerGone(gone) ==
    /\ net' = net \ gone
    /\ UNCHANGED <<cookie, over, born, server>>

Receive(m, gone) ==
    \/ m.to = "client" /\ ClientReceives(m, gone)
    \/ m.to = "server" /\ up /\ pico_dhcp_server_recv(m, gone)
    \/ m.to = "server" /\ ~up /\ ServerGone(gone)

Deliver(h) == \E m \in InFlight(h) : Receive(m, {m}) /\ Silent
Duplicate(h) == \E m \in InFlight(h) : Receive(m, {}) /\ Fault
Lose(h) ==
    /\ \E m \in InFlight(h) : net' = net \ {m}
    /\ Fault
    /\ UNCHANGED <<cookie, over, born, server>>

(* A server of another make refuses a request (this one never does).       *)
Nak(h) ==
    /\ cookie[h].s /\ Fault
    /\ Becomes(h, pico_dhcp_state_machine(h, cookie[h], "NAK", {}, TRUE), {})
    /\ over' = [over EXCEPT ![h] = @ /\ cookie'[h].st \in Holding]
    /\ UNCHANGED <<born, server>>

(* The server is removed from the network.                                 *)
ServerLeaves ==
    /\ up /\ up' = FALSE
    /\ Fault
    /\ UNCHANGED <<cookie, over, neg, pool_next, arp, net, born>>

Next ==
    \/ \E h \in Hosts :
          \/ Start(h) \/ Abort(h) \/ Expire(h) \/ LeaseRunsOut(h)
          \/ Deliver(h) \/ Duplicate(h) \/ Lose(h) \/ Nak(h)
    \/ ServerLeaves

Spec == Init /\ [][Next]_vars

(* Messages that are not lost arrive, and timers expire, on every host.    *)
FairSpec ==
    /\ Spec
    /\ \A h \in Hosts : WF_vars(Deliver(h) \/ Expire(h))

-----------------------------------------------------------------------------
TypeOK ==
    /\ \A h \in Hosts :
          /\ cookie[h].st \in ClientStates /\ cookie[h].xid \in 0..MaxXid
          /\ cookie[h].retry \in 0..Retries /\ cookie[h].tmr \subseteq TimerTypes
          /\ cookie[h].tx = {}
    /\ pool_next \in Nat /\ arp \in [Hosts -> Nat]
    /\ born \in 0..MaxXid /\ faults \in 0..MaxFaults

(* Two hosts never hold one address, and a host that comes back with a new *)
(* transaction is offered the address it had.                              *)
AddressPerHost ==
    /\ \A g, h \in Hosts :
          cookie[g].st \in Holding /\ cookie[h].st \in Holding
          /\ cookie[g].address = cookie[h].address => g = h
    /\ \A x, y \in 1..MaxXid :
          neg[x] # NoNegotiation /\ neg[y] # NoNegotiation /\ neg[x].hw = neg[y].hw
          => neg[x].ciaddr = neg[y].ciaddr

(* The device has the address the client holds, and no other; while it     *)
(* has none there is the link 0.0.0.0 that recv_ack relies upon; and what  *)
(* the application was told last agrees with it.                           *)
LinkIsLease ==
    \A h \in Hosts :
        LET c == cookie[h]
        IN  /\ c.st \in Holding => c.links = {c.address}
            /\ c.st \in {"INIT", "REQUESTING"} => c.links = {ANY}
            /\ c.st = "none" => c.links \subseteq {ANY}
            /\ c.told = "SUCCESS" => c.st \in Holding

(* A client is never left waiting: in every state some timer is started    *)
(* that will make it try again.                                            *)
NeverStranded ==
    \A h \in Hosts : cookie[h].st # "none" => cookie[h].tmr # {}

(* With a server, a negotiation ends: the host gets an address, however    *)
(* many messages were lost on the way, unless it gives up or is aborted.   *)
Binds ==
    \A h \in Hosts :
        cookie[h].st \in {"INIT", "REQUESTING"} ~> (cookie[h].st \in Holding \union {"none"} \/ ~up)

(* With a server, a renewal that could be sent ends.                       *)
Renews ==
    \A h \in Hosts :
        cookie[h].st = "RENEWING" /\ cookie[h].s ~> (cookie[h].st # "RENEWING" \/ ~up)

(* "DHCP was unable to renew its lease, and the lease expired": then the   *)
(* device no longer has the address.                                       *)
LeaseEnds == \A h \in Hosts : over[h] ~> ~over[h]
=============================================================================
