------------------------------ MODULE IpLinks ------------------------------
(***************************************************************************)
(* The links (configured addresses) and the routes of a device             *)
(* (modules/pico_ipv4.c, modules/pico_ipv6.c), with IPv6's duplicate       *)
(* address detection, router advertisements and lifetimes                  *)
(* (modules/pico_ipv6_nd.c).  A behaviour is one of IPv4 or of IPv6: the   *)
(* two keep separate trees.                                                *)
(*                                                                         *)
(* A link points at nothing; routes, the broadcast route, the default      *)
(* multicast link and the DAD timers hold pointers to links, here their    *)
(* addresses.  A route is found by destination, netmask and metric alone,  *)
(* so of two links in one network only the first one has a route.          *)
(***************************************************************************)
EXTENDS Integers, FiniteSets

CONSTANTS
    V4Addrs,        \* IPv4 addresses, all in one network
    LocalAddrs,     \* IPv6 link-local addresses
    GlobalAddrs,    \* IPv6 addresses of the prefix a router advertises
    DadRetrans      \* PICO_IPV6_DEFAULT_DAD_RETRANS

ASSUME IpAssumption ==
    /\ DadRetrans \in Nat
    /\ V4Addrs \intersect LocalAddrs = {} /\ V4Addrs \intersect GlobalAddrs = {}
    /\ LocalAddrs \intersect GlobalAddrs = {}

VARIABLES
    ip,         \* the links and the routes
    ipClock     \* parity of the DAD timers that have fired

IpAddrs == V4Addrs \union LocalAddrs \union GlobalAddrs
NoLink == [is |-> "none"]
NobodyIp == "nobody"
NoRoute == [gateway |-> "none", link |-> NobodyIp]
IpNet(a) == CASE a \in V4Addrs -> "net4" [] a \in LocalAddrs -> "fe80" [] OTHER -> "prefix"
IpDests == {"net4", "fe80", "prefix", "mcast", "default"}
RouterAddr == "router"      \* the address of the router on the link
IpGateways == {RouterAddr, "none"}

(* up: the carrier.                                                        *)
IpInit ==
    /\ \E v \in {4, 6} :
        ip = [v |-> v, link |-> [a \in IpAddrs |-> NoLink],
              route |-> [n \in IpDests |-> NoRoute],
              mcast_default |-> NobodyIp, bcast |-> NobodyIp, up |-> TRUE]
    /\ ipClock = 0

Links(d) == {a \in IpAddrs : d.link[a] # NoLink}
Mine(d) == IF d.v = 4 THEN V4Addrs ELSE LocalAddrs \union GlobalAddrs

-----------------------------------------------------------------------------
(* Routes.                                                                 *)

(* The route to the router: that of its network, or the default one.       *)
pico_ipv6_route_find(d) ==
    LET net == IF d.v = 4 THEN "net4" ELSE "fe80" IN
    IF d.route[net] # NoRoute THEN d.route[net] ELSE d.route["default"]

(* The link of a new route.  IPv4 insists on a gateway that is a           *)
(* neighbour; IPv6 falls back on the link it was given.                    *)
RouteLink(d, gateway, link) ==
    LET r == pico_ipv6_route_find(d) IN
    IF gateway = "none" THEN link
    ELSE IF r # NoRoute /\ r.gateway = "none" THEN r.link
    ELSE IF d.v = 4 THEN NobodyIp ELSE link

pico_ipv6_route_add(d, dest, gateway, link) ==
    IF d.route[dest] # NoRoute \/ RouteLink(d, gateway, link) = NobodyIp THEN d
    ELSE [d EXCEPT !.route[dest] = [gateway |-> gateway,
                                    link |-> RouteLink(d, gateway, link)]]

pico_ipv6_route_del(d, dests) ==
    [d EXCEPT !.route = [n \in IpDests |-> IF n \in dests THEN NoRoute ELSE d.route[n]]]

pico_ipv6_router_down(d, gateway) ==
    pico_ipv6_route_del(d, {n \in IpDests : d.route[n] # NoRoute /\ d.route[n].gateway = gateway})

pico_ipv6_cleanup_routes(d, gone) ==
    pico_ipv6_route_del(d, {n \in IpDests : d.route[n] # NoRoute /\ d.route[n].link \in gone})

-----------------------------------------------------------------------------
(* Links.                                                                  *)

(* The first link is the default one for multicast.  A new link joins all  *)
(* hosts through it, while its own address is tentative.                   *)
DefaultMcast(d, a) ==
    IF d.mcast_default # NobodyIp THEN d
    ELSE pico_ipv6_route_add([d EXCEPT !.mcast_default = a], "mcast", "none", a)
BcastLink(d, a) == IF d.v = 4 /\ d.bcast = NobodyIp THEN [d EXCEPT !.bcast = a] ELSE d
Routed(d, a) == pico_ipv6_route_add(d, IpNet(a), "none", a)
McastRouted(d, a) == IF d.v = 6 THEN pico_ipv6_route_add(d, "mcast", "none", a) ELSE d

pico_ipv6_do_link_add(d, a, tentative) ==
    BcastLink(McastRouted(Routed(DefaultMcast(
        [d EXCEPT !.link[a] = [is |-> "link", tentative |-> tentative,
                               retrans |-> IF tentative THEN DadRetrans ELSE 0, timer |-> FALSE,
                               expires |-> FALSE]], a), a), a), a)

(* Mutant of pico_ipv6_link_del: the routes of the link stay.              *)
RoutesStay(d, gone) ==
    [d EXCEPT !.link = [a \in IpAddrs |-> IF a \in gone THEN NoLink ELSE d.link[a]],
              !.bcast = IF @ \in gone THEN NobodyIp ELSE @]

(* A DAD timer that is pending is cancelled with its link.  IPv6 does not  *)
(* look whether the link is the default one for multicast.                 *)
pico_ipv6_link_del(d, gone) ==
    LET e == IF d.v = 4 /\ d.mcast_default \in gone
             THEN pico_ipv6_route_del([d EXCEPT !.mcast_default = NobodyIp], {"mcast"}) ELSE d
    IN  [pico_ipv6_cleanup_routes(e, gone)
            EXCEPT !.link = [a \in IpAddrs |-> IF a \in gone THEN NoLink ELSE d.link[a]],
                   !.bcast = IF @ \in gone THEN NobodyIp ELSE @]

(* An address that is not in use.  ok: is there memory for the DAD timer?  *)
pico_ipv6_link_add(d, a, ok) ==
    IF ok THEN [pico_ipv6_do_link_add(d, a, TRUE) EXCEPT !.link[a].timer = TRUE]
    ELSE pico_ipv6_link_del(pico_ipv6_do_link_add(d, a, TRUE), {a})

-----------------------------------------------------------------------------
(* What happens to them.                                                   *)

LinkAdd ==
    \E a \in Mine(ip) \ Links(ip), ok \in BOOLEAN :
        ip' = IF ip.v = 4 THEN pico_ipv6_do_link_add(ip, a, FALSE) ELSE pico_ipv6_link_add(ip, a, ok)
pico_ipv6_link_add_no_dad ==
    \E a \in Mine(ip) \ Links(ip) : ip.v = 6 /\ ip' = pico_ipv6_do_link_add(ip, a, FALSE)
LinkDel == \E a \in Links(ip) : ip' = pico_ipv6_link_del(ip, {a})
pico_ipv6_cleanup_links == Links(ip) # {} /\ ip' = pico_ipv6_link_del(ip, Links(ip))
pico_ipv4_route_set_bcast_link == ip.v = 4 /\ \E a \in Links(ip) : ip' = [ip EXCEPT !.bcast = a]

RouteAdd ==
    \E g \in IpGateways, a \in Links(ip) \union {NobodyIp} :
        ip' = pico_ipv6_route_add(ip, "default", g, a)
RouteDel == ip' = pico_ipv6_route_del(ip, {"default"})
RouterDown == ip.v = 6 /\ ip' = pico_ipv6_router_down(ip, RouterAddr)

(* A router advertises the prefix: an address in it is configured, with    *)
(* the router as the default route, or, if there is one, its lifetime is   *)
(* renewed and nothing else is done.  A lifetime may be for ever.          *)
pico_ipv6_prefix_configured(d) == Links(d) \intersect GlobalAddrs
pico_ipv6_lifetime_set(d, as, expires) ==
    [d EXCEPT !.link = [a \in IpAddrs |-> IF a \in as
                                         THEN [d.link[a] EXCEPT !.expires = expires] ELSE d.link[a]]]
radv_process ==
    /\ ip.v = 6
    /\ \E expires, ok \in BOOLEAN :
         \/ \E a \in pico_ipv6_prefix_configured(ip) :
              ip' = pico_ipv6_lifetime_set(ip, {a}, expires)
         \/ /\ pico_ipv6_prefix_configured(ip) = {}
            /\ \E a \in GlobalAddrs :
                 ip' = IF ok THEN pico_ipv6_route_add(
                                     pico_ipv6_lifetime_set(pico_ipv6_link_add(ip, a, TRUE), {a}, expires),
                                     "default", RouterAddr, a)
                       ELSE pico_ipv6_link_add(ip, a, FALSE)

pico_ipv6_check_lifetime_expired ==
    \E gone \in SUBSET {a \in Links(ip) : ip.link[a].expires} :
        gone # {} /\ ip' = pico_ipv6_link_del(ip, gone)

(* A tentative address is found in use by another host.  A link-local one  *)
(* is replaced by a random one.                                            *)
ipv6_duplicate_detected ==
    \E a \in Links(ip) :
        /\ ip.link[a].tentative
        /\ IF a \in LocalAddrs
           THEN \E b \in LocalAddrs \ Links(ip), ok \in BOOLEAN :
                  ip' = pico_ipv6_link_add(pico_ipv6_link_del(ip, {a}), b, ok)
           ELSE ip' = pico_ipv6_link_del(ip, {a})

Carries == ip' = [ip EXCEPT !.up = ~@]

-----------------------------------------------------------------------------
(* Duplicate address detection.  Without a carrier it waits.  retrans is   *)
(* read by the timer only, and is 0 here where none is pending.            *)

DadTimerAdd(l, ok) ==
    IF ok THEN [l EXCEPT !.timer = TRUE] ELSE [l EXCEPT !.timer = FALSE, !.retrans = 0]

(* Mutant of pico_ipv6_nd_dad: the count of probes never ends.             *)
NeverVerified(l, ok) == DadTimerAdd(l, ok)

(* Another: the count goes down before it is looked at.                    *)
CountsBelowZero(l, ok) ==
    IF ~ip.up THEN [l EXCEPT !.timer = ok]
    ELSE [l EXCEPT !.retrans = @ - 1, !.timer = ok, !.tentative = l.retrans > 1]

(* One firing of the link's timer; ok: can it be added again?              *)
pico_ipv6_nd_dad(l, ok) ==
    IF ~ip.up THEN DadTimerAdd(l, ok)
    ELSE IF l.retrans = 0 THEN [l EXCEPT !.tentative = FALSE, !.timer = FALSE]
    ELSE DadTimerAdd([l EXCEPT !.retrans = @ - 1], ok)

(* A round of the timers that are pending, those of two links being of the *)
(* same length.                                                            *)
DadPending == {a \in Links(ip) : ip.link[a].timer}
DadFires == DadPending # {} /\ ipClock' = 1 - ipClock
DadTimer ==
    /\ DadFires
    /\ \E ok \in BOOLEAN :
         ip' = [ip EXCEPT !.link = [a \in IpAddrs |->
                   IF a \in DadPending THEN pico_ipv6_nd_dad(ip.link[a], ok) ELSE ip.link[a]]]

ipVars == <<ip, ipClock>>
IpInput ==
    \/ LinkAdd \/ pico_ipv6_link_add_no_dad \/ LinkDel \/ pico_ipv6_cleanup_links
    \/ pico_ipv4_route_set_bcast_link \/ RouteAdd \/ RouteDel \/ RouterDown \/ radv_process
    \/ pico_ipv6_check_lifetime_expired \/ ipv6_duplicate_detected \/ Carries
IpNext == DadTimer \/ (IpInput /\ UNCHANGED ipClock)
(* The timer list runs the DAD timers that are pending.                    *)
IpFairness == WF_ipClock(DadFires)
IpSpec == IpInit /\ [][IpNext]_ipVars /\ IpFairness

-----------------------------------------------------------------------------
(* Type invariant of the links and the routes.                             *)
IpTypeOK ==
    /\ Links(ip) \subseteq Mine(ip)
    /\ \A a \in Links(ip) : ip.link[a].retrans \in 0..DadRetrans /\ ip.link[a].tentative \in BOOLEAN
    /\ \A n \in IpDests : ip.route[n] = NoRoute \/
           (ip.route[n].gateway \in IpGateways /\ ip.route[n].link \in IpAddrs)
    /\ ip.mcast_default \in IpAddrs \union {NobodyIp} /\ ip.bcast \in IpAddrs \union {NobodyIp}

(* No pointer outlives its link: every route, the broadcast route and (in  *)
(* IPv4) the default multicast link point at a link that is configured,    *)
(* and a tentative link waits for its timer, unless that could not be      *)
(* added, while one that is not has none.  IPv6's default multicast link   *)
(* is the exception: it is never reset.                                    *)
IpNoDangling ==
    /\ \A n \in IpDests : ip.route[n] # NoRoute => ip.route[n].link \in Links(ip)
    /\ ip.bcast \in Links(ip) \union {NobodyIp}
    /\ ip.v = 4 => ip.mcast_default \in Links(ip) \union {NobodyIp}
    /\ \A a \in DadPending : ip.link[a].tentative

(* Duplicate address detection ends: while there is a carrier, a link that *)
(* waits for its timer becomes valid after DadRetrans probes, or goes.     *)
IpDadEnds ==
    \A a \in LocalAddrs \union GlobalAddrs :
        (a \in DadPending) ~> (a \notin DadPending \/ ~ip.up)
=============================================================================
