------------------------------ MODULE IpProofs ------------------------------
(***************************************************************************)
(* Proofs about the IP layer.  IpLinks, for every set of addresses and     *)
(* every number of probes of the duplicate address detection.  Fragments,  *)
(* for every set of datagrams and every number of timers that are left     *)
(* behind.  Nat, for every set of inner endpoints and of ports, every age  *)
(* a TCP tuple is kept for and every number of cleanup timers.             *)
(***************************************************************************)
EXTENDS IpLinks, Fragments, Nat, FiniteSetTheorems, WellFoundedInduction, TLAPS

-----------------------------------------------------------------------------
(* Links and routes.                                                       *)

LinkRecs == [is : {"link"}, tentative : BOOLEAN, retrans : 0..DadRetrans,
             timer : BOOLEAN, expires : BOOLEAN]
Routes == [gateway : IpGateways, link : IpAddrs \union {NobodyIp}]
IpStates ==
    [v : {4, 6}, link : [IpAddrs -> LinkRecs \union {NoLink}], route : [IpDests -> Routes],
     mcast_default : IpAddrs \union {NobodyIp}, bcast : IpAddrs \union {NobodyIp}, up : BOOLEAN]

(* The inductive invariant, of any state d of the links and the routes.    *)
(* It speaks of states in the middle of an action too, so that each of the *)
(* calls an action makes has a lemma of its own.                           *)
IpOK(d) ==
    /\ d \in IpStates
    /\ Links(d) \subseteq Mine(d)
    /\ \A n \in IpDests : d.route[n] # NoRoute => d.route[n].link \in Links(d)
    /\ d.bcast \in Links(d) \union {NobodyIp}
    /\ d.v = 4 => d.mcast_default \in Links(d) \union {NobodyIp}
    /\ \A a \in Links(d) : d.link[a].timer => d.link[a].tentative

LEMMA NoLinkRec == NoLink \notin LinkRecs
BY DEF NoLink, LinkRecs

LEMMA NoRouteType == NoRoute \in Routes
BY DEF NoRoute, Routes, IpGateways

LEMMA LinkOf ==
    ASSUME NEW d \in IpStates, NEW a \in Links(d)
    PROVE  d.link[a] \in LinkRecs
BY DEF Links, IpStates

-----------------------------------------------------------------------------
(* Routes.                                                                 *)

(* A new route points at a link: the one it was given, or that of the      *)
(* route to its gateway.                                                   *)
LEMMA RouteLinkOK ==
    ASSUME NEW d, IpOK(d), NEW gateway \in IpGateways, NEW link \in Links(d) \union {NobodyIp}
    PROVE  RouteLink(d, gateway, link) \in Links(d) \union {NobodyIp}
<1>1. pico_ipv6_route_find(d) # NoRoute => pico_ipv6_route_find(d).link \in Links(d)
  BY DEF pico_ipv6_route_find, IpOK, IpDests
<1> QED
  BY <1>1 DEF RouteLink

LEMMA RouteAddOK ==
    ASSUME NEW d, IpOK(d), NEW dest \in IpDests, NEW gateway \in IpGateways,
           NEW link \in Links(d) \union {NobodyIp}
    PROVE  LET e == pico_ipv6_route_add(d, dest, gateway, link)
           IN  IpOK(e) /\ e.link = d.link /\ e.v = d.v /\ Links(e) = Links(d) /\ Mine(e) = Mine(d)
<1> DEFINE l == RouteLink(d, gateway, link)
           r == [gateway |-> gateway, link |-> l]
           e == pico_ipv6_route_add(d, dest, gateway, link)
<1>1. CASE d.route[dest] # NoRoute \/ l = NobodyIp
  BY <1>1 DEF pico_ipv6_route_add
<1>2. CASE d.route[dest] = NoRoute /\ l # NobodyIp
  <2>1. e = [d EXCEPT !.route = [@ EXCEPT ![dest] = r]]
    BY <1>2 DEF pico_ipv6_route_add
  <2>2. l \in Links(d)
    BY <1>2, RouteLinkOK
  <2> HIDE DEF l
  <2>3. r \in Routes /\ r.link \in Links(d)
    BY <2>2 DEF Routes, Links
  <2> HIDE DEF r, e
  <2>4. d \in IpStates
    BY DEF IpOK
  <2>5. /\ e \in IpStates /\ e.link = d.link /\ e.v = d.v /\ e.bcast = d.bcast
        /\ e.mcast_default = d.mcast_default /\ e.route = [d.route EXCEPT ![dest] = r]
    BY <2>1, <2>3, <2>4 DEF IpStates
  <2>6. Links(e) = Links(d) /\ Mine(e) = Mine(d)
    BY <2>5 DEF Links, Mine
  <2>7. \A n \in IpDests : e.route[n] # NoRoute => e.route[n].link \in Links(d)
    BY <2>3, <2>4, <2>5 DEF IpOK, IpStates
  <2> QED
    BY <2>5, <2>6, <2>7 DEF IpOK, e
<1> QED
  BY <1>1, <1>2

LEMMA RouteDelOK ==
    ASSUME NEW d, IpOK(d), NEW dests
    PROVE  LET e == pico_ipv6_route_del(d, dests)
           IN  /\ IpOK(e) /\ e.link = d.link /\ e.v = d.v /\ e.mcast_default = d.mcast_default
               /\ e.bcast = d.bcast
               /\ \A n \in IpDests : e.route[n] # NoRoute => n \notin dests /\ e.route[n] = d.route[n]
<1> DEFINE f == [n \in IpDests |-> IF n \in dests THEN NoRoute ELSE d.route[n]]
           e == [d EXCEPT !.route = f]
<1>0. d \in IpStates
  BY DEF IpOK
<1>1. f \in [IpDests -> Routes]
  BY <1>0, NoRouteType DEF IpStates
<1>2. \A n \in IpDests : f[n] # NoRoute => n \notin dests /\ f[n] = d.route[n]
  OBVIOUS
<1> HIDE DEF f
<1>3. /\ e \in IpStates /\ e.link = d.link /\ e.v = d.v /\ e.bcast = d.bcast
      /\ e.mcast_default = d.mcast_default /\ e.route = f
  BY <1>0, <1>1 DEF IpStates
<1> HIDE DEF e
<1>4. Links(e) = Links(d) /\ Mine(e) = Mine(d)
  BY <1>3 DEF Links, Mine
<1>5. IpOK(e)
  BY <1>2, <1>3, <1>4 DEF IpOK
<1> QED
  BY <1>2, <1>3, <1>5 DEF pico_ipv6_route_del, e, f

-----------------------------------------------------------------------------
(* Links.                                                                  *)

(* A change of one link's record that keeps it a link.                     *)
LEMMA LinkSetOK ==
    ASSUME NEW d, IpOK(d), NEW f \in [IpAddrs -> LinkRecs \union {NoLink}],
           \A a \in IpAddrs : f[a] # NoLink => a \in Mine(d) /\ (f[a].timer => f[a].tentative),
           \A a \in Links(d) : f[a] # NoLink
    PROVE  LET e == [d EXCEPT !.link = f]
           IN  IpOK(e) /\ e.link = f /\ e.v = d.v /\ Links(e) = {a \in IpAddrs : f[a] # NoLink}
<1> DEFINE e == [d EXCEPT !.link = f]
<1>0. d \in IpStates
  BY DEF IpOK
<1>1. /\ e \in IpStates /\ e.link = f /\ e.v = d.v /\ e.bcast = d.bcast /\ e.route = d.route
      /\ e.mcast_default = d.mcast_default
  BY <1>0 DEF IpStates
<1> HIDE DEF e
<1>2. Links(e) = {a \in IpAddrs : f[a] # NoLink} /\ Mine(e) = Mine(d) /\ Links(d) \subseteq Links(e)
  BY <1>1 DEF Links, Mine
<1>3. IpOK(e)
  BY <1>1, <1>2 DEF IpOK
<1> QED
  BY <1>1, <1>2, <1>3 DEF e

(* pico_ipv6_do_link_add: the new link, what it becomes the default of and *)
(* its routes.                                                             *)
LEMMA DoLinkAddOK ==
    ASSUME NEW d, IpOK(d), NEW a \in Mine(d), NEW tentative \in BOOLEAN
    PROVE  LET e == pico_ipv6_do_link_add(d, a, tentative)
           IN  /\ IpOK(e) /\ e.v = d.v
               /\ e.link = [d.link EXCEPT ![a] = [is |-> "link", tentative |-> tentative,
                               retrans |-> IF tentative THEN DadRetrans ELSE 0,
                               timer |-> FALSE, expires |-> FALSE]]
<1> DEFINE l == [is |-> "link", tentative |-> tentative,
                 retrans |-> IF tentative THEN DadRetrans ELSE 0,
                 timer |-> FALSE, expires |-> FALSE]
           f == [d.link EXCEPT ![a] = l]
           d1 == [d EXCEPT !.link = f]
           d2 == DefaultMcast(d1, a)
           d3 == Routed(d2, a)
           d4 == McastRouted(d3, a)
           d5 == BcastLink(d4, a)
<1>0. d \in IpStates /\ a \in IpAddrs
  BY DEF IpOK, Mine, IpAddrs
<1>1. l \in LinkRecs /\ l # NoLink /\ ~l.timer
  <2>1. DadRetrans \in 0..DadRetrans /\ 0 \in 0..DadRetrans
    BY IpAssumption
  <2>2. l \in LinkRecs
    BY <2>1 DEF LinkRecs
  <2> QED
    BY <2>2, NoLinkRec
<1> HIDE DEF l
<1>2. /\ f \in [IpAddrs -> LinkRecs \union {NoLink}] /\ f[a] = l
      /\ \A b \in IpAddrs : b # a => f[b] = d.link[b]
  BY <1>0, <1>1 DEF IpStates
<1>3. \A b \in IpAddrs : f[b] # NoLink => b \in Mine(d) /\ (f[b].timer => f[b].tentative)
  BY <1>1, <1>2 DEF IpOK, Links
<1>4. \A b \in Links(d) : f[b] # NoLink
  BY <1>1, <1>2 DEF Links
<1> HIDE DEF f
<1>5. IpOK(d1) /\ d1.link = f /\ d1.v = d.v /\ a \in Links(d1)
  BY <1>0, <1>1, <1>2, <1>3, <1>4, LinkSetOK
<1> HIDE DEF d1
<1>dest. "mcast" \in IpDests /\ "none" \in IpGateways
  BY DEF IpDests, IpGateways
<1>6. IpOK(d2) /\ d2.link = f /\ d2.v = d.v /\ a \in Links(d2)
  <2>1. CASE d1.mcast_default # NobodyIp
    BY <1>5, <2>1 DEF DefaultMcast
  <2>2. CASE d1.mcast_default = NobodyIp
    <3> DEFINE e == [d1 EXCEPT !.mcast_default = a]
    <3>1. d1 \in IpStates
      BY <1>5 DEF IpOK
    <3>2. /\ e \in IpStates /\ e.link = d1.link /\ e.v = d1.v /\ e.bcast = d1.bcast /\ e.route = d1.route
          /\ e.mcast_default = a
      BY <3>1, <1>0 DEF IpStates
    <3>3. d2 = pico_ipv6_route_add(e, "mcast", "none", a)
      BY <2>2 DEF DefaultMcast
    <3> HIDE DEF e
    <3>4. Links(e) = Links(d1) /\ Mine(e) = Mine(d1)
      BY <3>2 DEF Links, Mine
    <3>5. IpOK(e)
      BY <1>5, <3>2, <3>4 DEF IpOK
    <3> QED
      BY <1>5, <1>dest, <3>2, <3>3, <3>4, <3>5, RouteAddOK
  <2> QED
    BY <2>1, <2>2
<1> HIDE DEF d2
<1>7. IpOK(d3) /\ d3.link = f /\ d3.v = d.v /\ a \in Links(d3)
  <2>1. IpNet(a) \in IpDests
    BY DEF IpNet, IpDests
  <2> QED
    BY <1>6, <1>dest, <2>1, RouteAddOK DEF Routed
<1> HIDE DEF d3
<1>8. IpOK(d4) /\ d4.link = f /\ d4.v = d.v /\ a \in Links(d4)
  BY <1>7, <1>dest, RouteAddOK DEF McastRouted
<1> HIDE DEF d4
<1>9. IpOK(d5) /\ d5.link = f /\ d5.v = d.v
  <2>1. CASE d4.v = 4 /\ d4.bcast = NobodyIp
    <3> DEFINE e == [d4 EXCEPT !.bcast = a]
    <3>1. d4 \in IpStates /\ d5 = e
      BY <1>8, <2>1 DEF IpOK, BcastLink
    <3>2. /\ e \in IpStates /\ e.link = d4.link /\ e.v = d4.v /\ e.bcast = a /\ e.route = d4.route
          /\ e.mcast_default = d4.mcast_default
      BY <3>1, <1>0 DEF IpStates
    <3> HIDE DEF e
    <3>3. Links(e) = Links(d4) /\ Mine(e) = Mine(d4)
      BY <3>2 DEF Links, Mine
    <3> QED
      BY <1>8, <3>1, <3>2, <3>3 DEF IpOK
  <2>2. CASE ~(d4.v = 4 /\ d4.bcast = NobodyIp)
    BY <1>8, <2>2 DEF BcastLink
  <2> QED
    BY <2>1, <2>2
<1> QED
  BY <1>9 DEF pico_ipv6_do_link_add, d1, d2, d3, d4, f, l

(* pico_ipv6_link_del: nothing that is left points at a link that is gone. *)
LEMMA LinkDelOK ==
    ASSUME NEW d, IpOK(d), NEW gone
    PROVE  LET e == pico_ipv6_link_del(d, gone)
           IN  /\ IpOK(e) /\ e.v = d.v
               /\ e.link = [a \in IpAddrs |-> IF a \in gone THEN NoLink ELSE d.link[a]]
<1> DEFINE m == [d EXCEPT !.mcast_default = NobodyIp]
           d1 == IF d.v = 4 /\ d.mcast_default \in gone THEN pico_ipv6_route_del(m, {"mcast"}) ELSE d
           d2 == pico_ipv6_cleanup_routes(d1, gone)
           f == [a \in IpAddrs |-> IF a \in gone THEN NoLink ELSE d.link[a]]
           b == IF d2.bcast \in gone THEN NobodyIp ELSE d2.bcast
           e == [d2 EXCEPT !.link = f, !.bcast = b]
<1>0. d \in IpStates
  BY DEF IpOK
<1>1. /\ IpOK(d1) /\ d1.v = d.v /\ d1.link = d.link
      /\ d.v = 4 => d1.mcast_default \notin gone \/ d1.mcast_default = NobodyIp
  <2>1. CASE d.v = 4 /\ d.mcast_default \in gone
    <3>1. /\ m \in IpStates /\ m.link = d.link /\ m.v = d.v /\ m.bcast = d.bcast /\ m.route = d.route
          /\ m.mcast_default = NobodyIp
      BY <1>0 DEF IpStates
    <3> HIDE DEF m
    <3>2. Links(m) = Links(d) /\ Mine(m) = Mine(d)
      BY <3>1 DEF Links, Mine
    <3>3. IpOK(m)
      BY <3>1, <3>2 DEF IpOK
    <3> QED
      BY <2>1, <3>1, <3>3, RouteDelOK
  <2>2. CASE ~(d.v = 4 /\ d.mcast_default \in gone)
    BY <2>2
  <2> QED
    BY <2>1, <2>2
<1> HIDE DEF d1
<1> DEFINE dests == {n \in IpDests : d1.route[n] # NoRoute /\ d1.route[n].link \in gone}
<1>2. /\ IpOK(d2) /\ d2.v = d.v /\ d2.link = d.link /\ d2.mcast_default = d1.mcast_default
      /\ \A n \in IpDests : d2.route[n] # NoRoute => n \notin dests /\ d2.route[n] = d1.route[n]
  <2>1. d2 = pico_ipv6_route_del(d1, dests)
    BY DEF pico_ipv6_cleanup_routes
  <2> HIDE DEF dests, d2
  <2> QED
    BY <1>1, <2>1, RouteDelOK
<1>3. \A n \in IpDests : d2.route[n] # NoRoute => d2.route[n].link \notin gone
  BY <1>2
<1> HIDE DEF d2
<1>4. f \in [IpAddrs -> LinkRecs \union {NoLink}]
  BY <1>0 DEF IpStates
<1>5. \A a \in IpAddrs : f[a] # NoLink => a \notin gone /\ f[a] = d.link[a]
  OBVIOUS
<1>6. \A a \in Links(d) : a \notin gone => f[a] # NoLink
  BY DEF Links
<1>7. d2 \in IpStates /\ b \in IpAddrs \union {NobodyIp}
  BY <1>2 DEF IpOK, IpStates
<1>8. b \in (Links(d) \ gone) \union {NobodyIp}
  BY <1>2 DEF IpOK, Links
<1> HIDE DEF f, b
<1>9. /\ e \in IpStates /\ e.link = f /\ e.v = d2.v /\ e.bcast = b /\ e.route = d2.route
      /\ e.mcast_default = d2.mcast_default
  BY <1>4, <1>7 DEF IpStates
<1>10. e = pico_ipv6_link_del(d, gone)
  BY DEF pico_ipv6_link_del, e, f, b, d2, d1
<1> HIDE DEF e
<1>11. Links(e) = Links(d) \ gone /\ Mine(e) = Mine(d) /\ Links(d2) = Links(d) /\ Mine(d2) = Mine(d)
  BY <1>2, <1>5, <1>6, <1>9 DEF Links, Mine
<1>12. IpOK(e)
  <2>1. \A a \in Links(e) : e.link[a] = d.link[a]
    BY <1>5, <1>9 DEF Links
  <2> QED
    BY <1>1, <1>2, <1>3, <1>8, <1>9, <1>11, <2>1 DEF IpOK
<1> QED
  BY <1>2, <1>9, <1>10, <1>12 DEF f

(* pico_ipv6_link_add, with or without memory for the DAD timer.           *)
LEMMA LinkAddOK ==
    ASSUME NEW d, IpOK(d), NEW a \in Mine(d), NEW ok \in BOOLEAN
    PROVE  LET e == pico_ipv6_link_add(d, a, ok)
           IN  IpOK(e) /\ e.v = d.v /\ (ok => a \in Links(e))
<1> DEFINE e == pico_ipv6_do_link_add(d, a, TRUE)
           l == [is |-> "link", tentative |-> TRUE, retrans |-> DadRetrans,
                 timer |-> FALSE, expires |-> FALSE]
           lt == [l EXCEPT !.timer = TRUE]
<1>0. d \in IpStates /\ a \in IpAddrs
  BY DEF IpOK, Mine, IpAddrs
<1>1. IpOK(e) /\ e.v = d.v /\ e.link = [d.link EXCEPT ![a] = l]
  BY DoLinkAddOK
<1>2. CASE ok
  <2>1. e.link \in [IpAddrs -> LinkRecs \union {NoLink}] /\ e.link[a] = l
    BY <1>0, <1>1 DEF IpOK, IpStates
  <2>2. l \in LinkRecs /\ l.tentative
    <3>1. DadRetrans \in 0..DadRetrans
      BY IpAssumption
    <3> QED
      BY <3>1 DEF LinkRecs
  <2>3. lt \in LinkRecs /\ lt # NoLink /\ lt.tentative
    <3> HIDE DEF l
    <3>1. lt \in LinkRecs /\ lt.tentative
      BY <2>2 DEF LinkRecs
    <3> QED
      BY <3>1, NoLinkRec
  <2> HIDE DEF e
  <2> DEFINE f == [e.link EXCEPT ![a] = lt]
  <2>4. pico_ipv6_link_add(d, a, ok) = [e EXCEPT !.link = f]
    BY <1>2, <2>1 DEF pico_ipv6_link_add, e
  <2> HIDE DEF l, lt
  <2>5. /\ f \in [IpAddrs -> LinkRecs \union {NoLink}] /\ f[a] = lt
        /\ \A b \in IpAddrs : b # a => f[b] = e.link[b]
    BY <1>0, <2>1, <2>3
  <2>6. Mine(e) = Mine(d)
    BY <1>1 DEF Mine
  <2>7. \A b \in IpAddrs : f[b] # NoLink => b \in Mine(e) /\ (f[b].timer => f[b].tentative)
    BY <1>1, <2>3, <2>5, <2>6 DEF IpOK, Links
  <2>8. \A b \in Links(e) : f[b] # NoLink
    BY <2>3, <2>5 DEF Links
  <2> HIDE DEF f
  <2> DEFINE g == [e EXCEPT !.link = f]
  <2>9. IpOK(g) /\ g.v = e.v /\ Links(g) = {b \in IpAddrs : f[b] # NoLink}
    BY <1>1, <2>5, <2>7, <2>8, LinkSetOK
  <2>10. a \in Links(g)
    BY <1>0, <2>3, <2>5, <2>9
  <2> HIDE DEF g
  <2> QED
    BY <1>1, <2>4, <2>9, <2>10 DEF g
<1>3. CASE ~ok
  <2> HIDE DEF e
  <2> QED
    BY <1>1, <1>3, LinkDelOK DEF pico_ipv6_link_add, e
<1> QED
  BY <1>2, <1>3

(* pico_ipv6_lifetime_set, of links.                                       *)
LEMMA LifetimeOK ==
    ASSUME NEW d, IpOK(d), NEW as \in SUBSET Links(d), NEW expires \in BOOLEAN
    PROVE  LET e == pico_ipv6_lifetime_set(d, as, expires)
           IN  IpOK(e) /\ e.v = d.v /\ Links(e) = Links(d)
<1> DEFINE f == [a \in IpAddrs |-> IF a \in as THEN [d.link[a] EXCEPT !.expires = expires] ELSE d.link[a]]
<1>0. d \in IpStates
  BY DEF IpOK
<1>1. ASSUME NEW a \in Links(d)
      PROVE  /\ [d.link[a] EXCEPT !.expires = expires] \in LinkRecs
             /\ [d.link[a] EXCEPT !.expires = expires].timer = d.link[a].timer
             /\ [d.link[a] EXCEPT !.expires = expires].tentative = d.link[a].tentative
  BY <1>0, LinkOf DEF LinkRecs
<1>2. f \in [IpAddrs -> LinkRecs \union {NoLink}]
  BY <1>0, <1>1 DEF IpStates
<1>3. \A a \in IpAddrs : f[a] # NoLink <=> a \in Links(d)
  BY <1>1, NoLinkRec DEF Links
<1>4. \A a \in Links(d) : f[a].timer => f[a].tentative
  BY <1>1 DEF IpOK, Links
<1>5. \A a \in IpAddrs : f[a] # NoLink => a \in Mine(d) /\ (f[a].timer => f[a].tentative)
  BY <1>3, <1>4 DEF IpOK
<1>6. {a \in IpAddrs : f[a] # NoLink} = Links(d)
  BY <1>3 DEF Links
<1>7. pico_ipv6_lifetime_set(d, as, expires) = [d EXCEPT !.link = f]
  BY DEF pico_ipv6_lifetime_set
<1> HIDE DEF f
<1> QED
  BY <1>2, <1>3, <1>5, <1>6, <1>7, LinkSetOK

-----------------------------------------------------------------------------
(* A round of the DAD timers: a link that is no longer tentative has no    *)
(* timer.                                                                  *)
LEMMA DadOK ==
    ASSUME NEW l \in LinkRecs, NEW ok \in BOOLEAN, l.tentative
    PROVE  pico_ipv6_nd_dad(l, ok) \in LinkRecs
           /\ (pico_ipv6_nd_dad(l, ok).timer => pico_ipv6_nd_dad(l, ok).tentative)
<1>0. 0 \in 0..DadRetrans
  BY IpAssumption
<1>1. CASE ~ip.up
  BY <1>0, <1>1 DEF pico_ipv6_nd_dad, DadTimerAdd, LinkRecs
<1>2. CASE ip.up /\ l.retrans = 0
  BY <1>2 DEF pico_ipv6_nd_dad, LinkRecs
<1>3. CASE ip.up /\ l.retrans # 0
  <2> DEFINE r == l.retrans - 1
  <2>1. r \in 0..DadRetrans
    BY <1>3, IpAssumption DEF LinkRecs
  <2> DEFINE m == [l EXCEPT !.retrans = r]
  <2>2. pico_ipv6_nd_dad(l, ok) = DadTimerAdd(m, ok)
    BY <1>3 DEF pico_ipv6_nd_dad
  <2> HIDE DEF r
  <2>3. m \in LinkRecs /\ m.tentative
    BY <2>1 DEF LinkRecs
  <2> HIDE DEF m
  <2> QED
    BY <1>0, <2>2, <2>3 DEF DadTimerAdd, LinkRecs
<1> QED
  BY <1>1, <1>2, <1>3

LEMMA DadTimerOK == IpOK(ip) /\ DadTimer => IpOK(ip')
<1> SUFFICES ASSUME IpOK(ip), DadTimer PROVE IpOK(ip')
  OBVIOUS
<1>1. PICK ok \in BOOLEAN :
         ip' = [ip EXCEPT !.link = [a \in IpAddrs |->
                   IF a \in DadPending THEN pico_ipv6_nd_dad(ip.link[a], ok) ELSE ip.link[a]]]
  BY DEF DadTimer
<1> DEFINE f == [a \in IpAddrs |->
                   IF a \in DadPending THEN pico_ipv6_nd_dad(ip.link[a], ok) ELSE ip.link[a]]
<1>2. ip \in IpStates
  BY DEF IpOK
<1>3. \A a \in DadPending : a \in Links(ip) /\ f[a] \in LinkRecs /\ (f[a].timer => f[a].tentative)
  BY <1>2, LinkOf, DadOK DEF DadPending, IpOK, Links
<1>4. \A a \in IpAddrs : a \notin DadPending => f[a] = ip.link[a]
  OBVIOUS
<1>5. f \in [IpAddrs -> LinkRecs \union {NoLink}]
  BY <1>2, <1>3 DEF IpStates
<1> HIDE DEF f
<1>6. \A a \in IpAddrs : f[a] # NoLink => a \in Mine(ip) /\ (f[a].timer => f[a].tentative)
  BY <1>3, <1>4 DEF IpOK, Links
<1>7. \A a \in Links(ip) : f[a] # NoLink
  BY <1>3, <1>4, NoLinkRec DEF Links
<1> QED
  BY <1>1, <1>5, <1>6, <1>7, LinkSetOK DEF f

LEMMA IpInputOK == IpOK(ip) /\ IpInput => IpOK(ip')
<1> SUFFICES ASSUME IpOK(ip), IpInput PROVE IpOK(ip')
  OBVIOUS
<1>0. ip \in IpStates /\ ip.v \in {4, 6} /\ Links(ip) \subseteq Mine(ip)
  BY DEF IpOK, IpStates
<1>1. CASE LinkAdd
  <2>1. PICK a \in Mine(ip), ok \in BOOLEAN :
          ip' = IF ip.v = 4 THEN pico_ipv6_do_link_add(ip, a, FALSE) ELSE pico_ipv6_link_add(ip, a, ok)
    BY <1>1 DEF LinkAdd
  <2>2. IpOK(pico_ipv6_do_link_add(ip, a, FALSE))
    BY DoLinkAddOK
  <2>3. IpOK(pico_ipv6_link_add(ip, a, ok))
    BY LinkAddOK
  <2> QED
    BY <2>1, <2>2, <2>3
<1>2. CASE pico_ipv6_link_add_no_dad
  BY <1>2, DoLinkAddOK DEF pico_ipv6_link_add_no_dad
<1>3. CASE LinkDel \/ pico_ipv6_cleanup_links \/ pico_ipv6_check_lifetime_expired
  <2>1. PICK gone : ip' = pico_ipv6_link_del(ip, gone)
    BY <1>3 DEF LinkDel, pico_ipv6_cleanup_links, pico_ipv6_check_lifetime_expired
  <2> QED
    BY <2>1, LinkDelOK
<1>4. CASE pico_ipv4_route_set_bcast_link
  <2>1. PICK a \in Links(ip) : ip' = [ip EXCEPT !.bcast = a]
    BY <1>4 DEF pico_ipv4_route_set_bcast_link
  <2>2. /\ ip' \in IpStates /\ ip'.link = ip.link /\ ip'.v = ip.v /\ ip'.bcast = a
        /\ ip'.route = ip.route /\ ip'.mcast_default = ip.mcast_default
    BY <1>0, <2>1 DEF IpStates, Links
  <2>3. Links(ip') = Links(ip) /\ Mine(ip') = Mine(ip)
    BY <2>2 DEF Links, Mine
  <2> QED
    BY <2>2, <2>3 DEF IpOK
<1>5. CASE RouteAdd
  BY <1>5, RouteAddOK DEF RouteAdd, IpDests
<1>6. CASE RouteDel \/ RouterDown
  BY <1>6, RouteDelOK DEF RouteDel, RouterDown, pico_ipv6_router_down
<1>7. CASE radv_process
  <2>1. PICK expires \in BOOLEAN, ok \in BOOLEAN :
         \/ \E a \in Links(ip) : ip' = pico_ipv6_lifetime_set(ip, {a}, expires)
         \/ \E a \in GlobalAddrs :
              ip' = IF ok THEN pico_ipv6_route_add(
                                  pico_ipv6_lifetime_set(pico_ipv6_link_add(ip, a, TRUE), {a}, expires),
                                  "default", RouterAddr, a)
                    ELSE pico_ipv6_link_add(ip, a, FALSE)
    BY <1>7 DEF radv_process, pico_ipv6_prefix_configured
  <2>2. ASSUME NEW a \in Links(ip), ip' = pico_ipv6_lifetime_set(ip, {a}, expires) PROVE IpOK(ip')
    BY <2>2, LifetimeOK
  <2>3. ASSUME NEW a \in GlobalAddrs, ~ok, ip' = pico_ipv6_link_add(ip, a, FALSE) PROVE IpOK(ip')
    <3>1. a \in Mine(ip)
      BY <1>7 DEF radv_process, Mine
    <3> QED
      BY <2>3, <3>1, LinkAddOK
  <2>4. ASSUME NEW a \in GlobalAddrs, ok,
               ip' = pico_ipv6_route_add(
                         pico_ipv6_lifetime_set(pico_ipv6_link_add(ip, a, TRUE), {a}, expires),
                         "default", RouterAddr, a)
        PROVE  IpOK(ip')
    <3> DEFINE d1 == pico_ipv6_link_add(ip, a, TRUE)
               d2 == pico_ipv6_lifetime_set(d1, {a}, expires)
    <3>1. a \in Mine(ip)
      BY <1>7 DEF radv_process, Mine
    <3>2. IpOK(d1) /\ a \in Links(d1)
      BY <3>1, LinkAddOK
    <3> HIDE DEF d1
    <3>3. IpOK(d2) /\ a \in Links(d2)
      BY <3>2, LifetimeOK
    <3> HIDE DEF d2
    <3>4. "default" \in IpDests /\ RouterAddr \in IpGateways
      BY DEF IpDests, IpGateways
    <3> QED
      BY <2>4, <3>3, <3>4, RouteAddOK DEF d1, d2
  <2> QED
    BY <2>1, <2>2, <2>3, <2>4
<1>8. CASE ipv6_duplicate_detected
  <2>1. PICK a \in Links(ip) :
          IF a \in LocalAddrs
          THEN \E b \in LocalAddrs \ Links(ip), ok \in BOOLEAN :
                 ip' = pico_ipv6_link_add(pico_ipv6_link_del(ip, {a}), b, ok)
          ELSE ip' = pico_ipv6_link_del(ip, {a})
    BY <1>8 DEF ipv6_duplicate_detected
  <2> DEFINE d == pico_ipv6_link_del(ip, {a})
  <2>2. IpOK(d) /\ d.v = ip.v
    BY LinkDelOK
  <2>3. ASSUME a \in LocalAddrs, NEW b \in LocalAddrs PROVE b \in Mine(d)
    BY <1>0, <2>2, <2>3, IpAssumption DEF Mine
  <2> HIDE DEF d
  <2>4. CASE a \in LocalAddrs
    BY <2>1, <2>2, <2>3, <2>4, LinkAddOK DEF d
  <2> QED
    BY <2>1, <2>2, <2>4 DEF d
<1>9. CASE Carries
  <2>1. /\ ip' \in IpStates /\ ip'.link = ip.link /\ ip'.v = ip.v /\ ip'.bcast = ip.bcast
        /\ ip'.route = ip.route /\ ip'.mcast_default = ip.mcast_default
    BY <1>0, <1>9 DEF IpStates, Carries
  <2>2. Links(ip') = Links(ip) /\ Mine(ip') = Mine(ip)
    BY <2>1 DEF Links, Mine
  <2> QED
    BY <2>1, <2>2 DEF IpOK
<1> QED
  BY <1>1, <1>2, <1>3, <1>4, <1>5, <1>6, <1>7, <1>8, <1>9 DEF IpInput

-----------------------------------------------------------------------------
IpInv == IpOK(ip)

LEMMA IpHolds == IpSpec => []IpInv
<1>1. IpInit => IpInv
  <2> SUFFICES ASSUME IpInit PROVE IpOK(ip)
    BY DEF IpInv
  <2>1. PICK v \in {4, 6} :
          ip = [v |-> v, link |-> [a \in IpAddrs |-> NoLink], route |-> [n \in IpDests |-> NoRoute],
                mcast_default |-> NobodyIp, bcast |-> NobodyIp, up |-> TRUE]
    BY DEF IpInit
  <2>2. ip \in IpStates
    BY <2>1, NoRouteType DEF IpStates
  <2>3. Links(ip) = {}
    BY <2>1 DEF Links
  <2> QED
    BY <2>1, <2>2, <2>3 DEF IpOK
<1>2. IpInv /\ [IpNext]_ipVars => IpInv'
  BY DadTimerOK, IpInputOK DEF IpInv, IpNext, ipVars
<1> QED
  BY <1>1, <1>2, PTL DEF IpSpec

(* No pointer outlives its link: through every sequence of links added and *)
(* deleted, routers advertised and lost, duplicates found and lifetimes    *)
(* ended, a route, the broadcast route and IPv4's default multicast link   *)
(* point at a configured link, and only a tentative link has a DAD timer.  *)
THEOREM LinksNeverDangle == IpSpec => []IpNoDangling
<1>1. IpInv => IpNoDangling
  BY DEF IpInv, IpOK, IpNoDangling, DadPending
<1> QED
  BY <1>1, IpHolds, PTL

(* The types of the links and the routes; the count of probes left never   *)
(* passes below zero.                                                      *)
THEOREM IpTypes == IpSpec => []IpTypeOK
<1>1. IpInv => IpTypeOK
  <2> SUFFICES ASSUME IpOK(ip) PROVE IpTypeOK
    BY DEF IpInv
  <2>1. ip \in IpStates /\ Links(ip) \subseteq IpAddrs
    BY DEF IpOK, Links
  <2>2. \A a \in Links(ip) : ip.link[a].retrans \in 0..DadRetrans /\ ip.link[a].tentative \in BOOLEAN
    BY <2>1, LinkOf DEF LinkRecs
  <2>3. \A n \in IpDests : ip.route[n] \in Routes
    BY <2>1 DEF IpStates
  <2>4. /\ ip.mcast_default \in IpAddrs \union {NobodyIp} /\ ip.bcast \in IpAddrs \union {NobodyIp}
    BY <2>1 DEF IpStates
  <2> QED
    BY <2>1, <2>2, <2>3, <2>4 DEF IpOK, IpTypeOK, Routes
<1> QED
  BY <1>1, IpHolds, PTL

-----------------------------------------------------------------------------
(* Reassembly.                                                             *)

(* A set of naturals that is not empty has a smallest element.             *)
LEMMA Smallest ==
    ASSUME NEW S \in SUBSET Nat, S # {}
    PROVE  \E x \in S : \A y \in S : x <= y
<1> DEFINE R == OpToRel(<, Nat)
<1>1. IsWellFoundedOn(R, Nat)
  BY NatLessThanWellFounded
<1> HIDE DEF R
<1>2. PICK x \in S : \A y \in S : ~(<<y, x>> \in R)
  BY <1>1, WFMin
<1>3. \A y \in S : ~(y < x)
  BY <1>2 DEF R, OpToRel
<1> QED
  BY <1>3

(* The first k fragments of a datagram, and that there are k of them.      *)
Pieces(k, d) == {<<i, d>> : i \in 0..(k - 1)}

LEMMA CountPieces ==
    ASSUME NEW d, NEW k \in Nat
    PROVE  IsFiniteSet(Pieces(k, d)) /\ Cardinality(Pieces(k, d)) = k
<1> DEFINE I == 0..(k - 1)
           f == [i \in I |-> <<i, d>>]
<1>1. IsFiniteSet(I) /\ Cardinality(I) = k
  BY FS_Interval
<1>2. f \in Bijection(I, Pieces(k, d))
  BY DEF Bijection, Injection, Surjection, Pieces, IsInjective
<1>3. ExistsBijection(I, Pieces(k, d))
  BY <1>2 DEF ExistsBijection
<1> HIDE DEF I
<1> QED
  BY <1>1, <1>3, FS_Bijection

-----------------------------------------------------------------------------
Frags == {x \in Nat \X FragDatagrams : Offset(x) < Of(x).len}
FragStates ==
    [net : {"IPV4", "IPV6"}, tree : SUBSET Frags, cur_frag_id : Nat, timer : BOOLEAN,
     old : 0..FragOld, out : Seq(FragDatagrams), proto : STRING \union {"none"}, failed : BOOLEAN]

(* The tree holds fragments of one datagram, whose identifier is           *)
(* cur_frag_id.                                                            *)
OneDatagram(s) ==
    /\ \A x, y \in s.tree : Of(x) = Of(y)
    /\ \A x \in s.tree : Of(x).id = s.cur_frag_id

Intact(s) ==
    s.out # <<>> =>
        /\ \A i \in DOMAIN s.out : s.out[i] = s.out[1]
        /\ Len(s.out) = s.out[1].len
        /\ s.failed \/ s.proto = s.out[1].proto

(* The inductive invariant, of any state s of the reassembly.  That a tree *)
(* which is complete was left by an allocation that failed is what the     *)
(* protocol of the datagram rests on: the next fragment completes the tree *)
(* again, whoever it is of.                                                *)
FragOK(s) ==
    /\ s \in FragStates /\ OneDatagram(s) /\ Intact(s)
    /\ Complete(s.tree) => s.failed

LEMMA FragShape ==
    ASSUME NEW x \in Frags
    PROVE  /\ x = <<Offset(x), Of(x)>> /\ Offset(x) \in 0..(Of(x).len - 1)
           /\ Of(x) \in FragDatagrams /\ Of(x).len \in Nat
<1>1. x[1] \in Nat /\ x[2] \in FragDatagrams /\ x = <<x[1], x[2]>> /\ x[1] < x[2].len
  BY DEF Frags, Offset, Of
<1>2. x[2].len \in Nat
  BY <1>1, FragAssumption
<1> QED
  BY <1>1, <1>2 DEF Offset, Of

LEMMA EmptyIncomplete == ~Complete({})
<1>1. Cardinality({}) = 0
  BY FS_EmptySet
<1> QED
  BY <1>1 DEF Complete

(* A tree of one datagram that is complete is the whole of it.             *)
LEMMA CompleteIsWhole ==
    ASSUME NEW tree \in SUBSET Frags, \A x, y \in tree : Of(x) = Of(y), Complete(tree)
    PROVE  \E d \in FragDatagrams : tree = Pieces(d.len, d)
<1>0. PICK x0 \in tree : TRUE
  BY EmptyIncomplete
<1> DEFINE d == Of(x0)
<1>1. d \in FragDatagrams /\ d.len \in Nat
  BY FragShape
<1>2. \A x \in tree : x = <<Offset(x), d>> /\ Offset(x) \in 0..(d.len - 1)
  BY FragShape
<1> HIDE DEF d
<1>3. tree \subseteq Pieces(d.len, d)
  BY <1>2 DEF Pieces
<1>4. Cardinality(tree) \in Nat
  BY <1>1, <1>3, CountPieces, FS_Subset, FS_CardinalityType
<1>5. PICK n \in 1..Cardinality(tree) :
         \A i \in 0..(n - 1) : \E x \in tree : Offset(x) = i /\ (More(x) = (i < n - 1))
  BY DEF Complete
<1>6. n = d.len
  <2>0. n - 1 \in 0..(n - 1)
    BY <1>4
  <2>1. PICK x \in tree : Offset(x) = n - 1 /\ (More(x) = (n - 1 < n - 1))
    BY <1>5, <2>0
  <2>2. Of(x) = d
    BY <2>1 DEF d
  <2> QED
    BY <1>1, <1>2, <1>4, <2>1, <2>2 DEF More
<1>7. Pieces(d.len, d) \subseteq tree
  BY <1>2, <1>5, <1>6 DEF Pieces
<1> QED
  BY <1>1, <1>3, <1>7

(* The fragments of a whole datagram come out in the order of their        *)
(* offsets, one of each.                                                   *)
LEMMA ReassembleOK ==
    ASSUME NEW s, s \in FragStates, OneDatagram(s), Complete(s.tree), NEW proto \in STRING,
           s.failed \/ \A x \in s.tree : Of(x).proto = proto
    PROVE  FragOK(pico_fragments_reassemble(s, proto))
<1> DEFINE Lower(x) == Cardinality({y \in s.tree : Offset(y) < Offset(x)})
           Place(i) == CHOOSE x \in s.tree : Lower(x) = i - 1
           o == [i \in 1..Cardinality(s.tree) |-> Of(Place(i))]
           t == [s EXCEPT !.tree = {}, !.timer = FALSE, !.proto = proto, !.out = o]
<1>1. PICK d \in FragDatagrams : s.tree = Pieces(d.len, d)
  BY CompleteIsWhole DEF OneDatagram, FragStates
<1>2. d.len \in Nat /\ d.len > 1
  BY FragAssumption
<1>3. Cardinality(s.tree) = d.len
  BY <1>1, <1>2, CountPieces
<1>4. ASSUME NEW i \in 1..d.len PROVE Of(Place(i)) = d
  <2> DEFINE x == <<i - 1, d>>
  <2>1. x \in s.tree
    BY <1>1, <1>2 DEF Pieces
  <2>2. {y \in s.tree : Offset(y) < Offset(x)} = Pieces(i - 1, d)
    BY <1>1, <1>2 DEF Pieces, Offset
  <2>3. Lower(x) = i - 1
    <3>1. Cardinality(Pieces(i - 1, d)) = i - 1
      BY <1>2, CountPieces
    <3> QED
      BY <2>2, <3>1
  <2> HIDE DEF x, Lower
  <2>4. Place(i) \in s.tree
    BY <2>1, <2>3
  <2> HIDE DEF Place
  <2> QED
    BY <1>1, <2>4 DEF Pieces, Of
<1>5. o = [i \in 1..d.len |-> d]
  BY <1>3, <1>4
<1>6. o \in Seq(FragDatagrams) /\ Len(o) = d.len /\ DOMAIN o = 1..d.len /\ o[1] = d
      /\ \A i \in DOMAIN o : o[i] = d
  <2> HIDE DEF o
  <2> QED BY <1>2, <1>5
<1>7. t = pico_fragments_reassemble(s, proto)
  BY DEF pico_fragments_reassemble
<1>8. s.failed \/ proto = d.proto
  <2>1. <<0, d>> \in s.tree /\ Of(<<0, d>>) = d
    BY <1>1, <1>2 DEF Pieces, Of
  <2> QED
    BY <2>1
<1> HIDE DEF o
<1>9. t \in FragStates /\ t.tree = {} /\ t.out = o /\ t.proto = proto /\ t.failed = s.failed
  BY <1>6 DEF FragStates
<1> HIDE DEF t
<1> QED
  BY <1>6, <1>7, <1>8, <1>9, EmptyIncomplete DEF FragOK, OneDatagram, Intact

LEMMA CheckCompleteOK ==
    ASSUME NEW s, s \in FragStates, OneDatagram(s), Intact(s), NEW proto \in STRING,
           s.failed \/ \A x \in s.tree : Of(x).proto = proto,
           NEW t \in pico_fragments_check_complete(s, proto)
    PROVE  FragOK(t)
<1>1. CASE ~Complete(s.tree)
  BY <1>1 DEF pico_fragments_check_complete, FragOK
<1>2. CASE Complete(s.tree) /\ t = pico_fragments_reassemble(s, proto)
  BY <1>2, ReassembleOK
<1>3. CASE t = [s EXCEPT !.failed = TRUE]
  <2>1. /\ t \in FragStates /\ t.tree = s.tree /\ t.cur_frag_id = s.cur_frag_id /\ t.out = s.out
        /\ t.failed = TRUE
    BY <1>3 DEF FragStates
  <2> QED
    BY <2>1 DEF FragOK, OneDatagram, Intact
<1> QED
  BY <1>1, <1>2, <1>3 DEF pico_fragments_check_complete

(* A fragment goes into the tree of its own datagram.                      *)
LEMMA FragInsertOK ==
    ASSUME NEW s, FragOK(s), NEW x \in Frags, s.cur_frag_id = Of(x).id,
           \A y \in s.tree : Of(y) = Of(x), NEW t \in Insert(s, x)
    PROVE  FragOK(t)
<1>1. CASE \E y \in s.tree : Offset(y) = Offset(x)
  BY <1>1 DEF Insert
<1>2. CASE ~ \E y \in s.tree : Offset(y) = Offset(x)
  <2> DEFINE u == s.tree \union {x}
             e == [s EXCEPT !.tree = u]
  <2>1. s \in FragStates /\ u \in SUBSET Frags
    BY DEF FragOK, FragStates
  <2>2. t \in pico_fragments_check_complete(e, Of(x).proto)
    BY <1>2 DEF Insert
  <2> HIDE DEF u
  <2>3. /\ e \in FragStates /\ e.tree = u /\ e.cur_frag_id = s.cur_frag_id /\ e.out = s.out
        /\ e.proto = s.proto /\ e.failed = s.failed
    BY <2>1 DEF FragStates
  <2> HIDE DEF e
  <2>4. OneDatagram(e) /\ Intact(e) /\ \A y \in e.tree : Of(y).proto = Of(x).proto
    BY <2>3 DEF FragOK, OneDatagram, Intact, u
  <2>5. Of(x).proto \in STRING
    BY FragShape, FragAssumption
  <2> QED
    BY <2>2, <2>3, <2>4, <2>5, CheckCompleteOK
<1> QED
  BY <1>1, <1>2

LEMMA FirstIsIn ==
    ASSUME NEW tree \in SUBSET Frags, tree # {}
    PROVE  First(tree) \in tree
<1> DEFINE S == {Offset(x) : x \in tree}
           Lowest(x) == \A y \in tree : Offset(x) <= Offset(y)
<1>1. S \in SUBSET Nat /\ S # {}
  BY FragShape
<1>2. PICK m \in S : \A n \in S : m <= n
  BY <1>1, Smallest
<1>3. PICK x \in tree : Lowest(x)
  BY <1>2
<1>4. First(tree) = CHOOSE y \in tree : Lowest(y)
  BY DEF First
<1> HIDE DEF Lowest
<1> QED
  BY <1>3, <1>4

LEMMA StartOK ==
    ASSUME NEW s, FragOK(s), s.tree = {}, s.old < FragOld \/ ~s.timer, NEW x \in Frags,
           NEW t \in Start(s, x)
    PROVE  FragOK(t)
<1>0. s \in FragStates /\ Of(x).id \in Nat
  BY FragShape, FragAssumption DEF FragOK
<1>1. CASE s.cur_frag_id # 0 /\ Of(x).id = s.cur_frag_id
  BY <1>1 DEF Start
<1>2. CASE ~(s.cur_frag_id # 0 /\ Of(x).id = s.cur_frag_id)
  <2>1. PICK u \in pico_frag_timer_on(s) :
               t \in {[u EXCEPT !.cur_frag_id = Of(x).id]}
                        \union Insert([u EXCEPT !.cur_frag_id = Of(x).id], x)
    BY <1>2 DEF Start
  <2> DEFINE old == IF s.timer THEN s.old + 1 ELSE s.old
             e == [u EXCEPT !.cur_frag_id = Of(x).id]
  <2>2. old \in 0..FragOld
    BY <1>0, FragAssumption DEF FragStates
  <2>3. u \in {[s EXCEPT !.timer = TRUE, !.old = old], [s EXCEPT !.timer = FALSE, !.old = old, !.failed = TRUE]}
    BY <2>1 DEF pico_frag_timer_on
  <2> HIDE DEF old
  <2>4. /\ u \in FragStates /\ u.tree = s.tree /\ u.out = s.out /\ u.proto = s.proto
        /\ u.failed = s.failed \/ u.failed = TRUE
    BY <1>0, <2>2, <2>3 DEF FragStates
  <2>5. /\ e \in FragStates /\ e.tree = s.tree /\ e.out = s.out /\ e.proto = s.proto
        /\ e.failed = s.failed \/ e.failed = TRUE
        /\ e.cur_frag_id = Of(x).id
    BY <1>0, <2>4 DEF FragStates
  <2> HIDE DEF e
  <2>6. FragOK(e)
    BY <2>5 DEF FragOK, OneDatagram, Intact
  <2> QED
    BY <2>1, <2>5, <2>6, FragInsertOK DEF e
<1> QED
  BY <1>1, <1>2

(* The sender of the fragment is that of the first one in the tree, and    *)
(* its identifier the current one: it is of the same datagram.             *)
LEMMA ContinueOK ==
    ASSUME NEW s, FragOK(s), NEW x \in Frags, NEW t \in Continue(s, x)
    PROVE  FragOK(t)
<1>0. s \in FragStates /\ OneDatagram(s) /\ s.tree \in SUBSET Frags /\ Of(x) \in FragDatagrams
  BY FragShape DEF FragOK, FragStates
<1>1. CASE pico_ipv4_frag_match(Of(x), s.tree) /\ Of(x).id = s.cur_frag_id
  <2> DEFINE y == First(s.tree)
  <2>1. y \in s.tree /\ Of(x).src = Of(y).src
    BY <1>0, <1>1, FirstIsIn DEF pico_ipv4_frag_match
  <2> HIDE DEF y
  <2>2. Of(y) \in FragDatagrams /\ Of(y).id = Of(x).id
    BY <1>0, <1>1, <2>1, FragShape DEF OneDatagram
  <2>3. Of(y) = Of(x)
    BY <1>0, <2>1, <2>2, FragAssumption
  <2>4. \A z \in s.tree : Of(z) = Of(x)
    BY <1>0, <2>1, <2>3 DEF OneDatagram
  <2> QED
    BY <1>1, <2>4, FragInsertOK DEF Continue
<1>2. CASE ~(pico_ipv4_frag_match(Of(x), s.tree) /\ Of(x).id = s.cur_frag_id)
  <2>1. t \in pico_fragments_check_complete(s, Of(x).proto)
    BY <1>2 DEF Continue
  <2>2. CASE s.failed
    <3>1. Of(x).proto \in STRING
      BY <1>0, FragAssumption
    <3> QED
      BY <1>0, <2>1, <2>2, <3>1, CheckCompleteOK DEF FragOK
  <2>3. CASE ~s.failed
    BY <2>1, <2>3 DEF FragOK, pico_fragments_check_complete
  <2> QED
    BY <2>2, <2>3
<1> QED
  BY <1>1, <1>2

(* The tree is emptied; the identifier and a timer may change with it.     *)
LEMMA FragEmptiedOK ==
    ASSUME NEW s, FragOK(s), NEW t \in FragStates, t.tree = {}, t.out = s.out, t.proto = s.proto,
           t.failed = s.failed
    PROVE  FragOK(t)
BY EmptyIncomplete DEF FragOK, OneDatagram, Intact

LEMMA FragArrivesOK == FragOK(frag) /\ FragArrives => FragOK(frag')
<1> SUFFICES ASSUME FragOK(frag), NEW d \in FragDatagrams, NEW off \in 0..(d.len - 1),
                    frag.old < FragOld \/ ~frag.timer,
                    frag' \in IF frag.net = "IPV4" THEN pico_ipv4_process_frag(frag, <<off, d>>)
                                                  ELSE pico_ipv6_process_frag(frag, <<off, d>>)
             PROVE  FragOK(frag')
  BY DEF FragArrives
<1> DEFINE x == <<off, d>>
<1>0. frag \in FragStates
  BY DEF FragOK
<1>1. x \in Frags
  <2>1. d.len \in Nat
    BY FragAssumption
  <2> QED
    BY <2>1 DEF Frags, Offset, Of
<1> DEFINE e == [pico_fragments_empty_tree(frag) EXCEPT !.cur_frag_id = 0]
<1>2. FragOK(e)
  <2>1. e \in FragStates /\ e.tree = {} /\ e.out = frag.out /\ e.proto = frag.proto /\ e.failed = frag.failed
    BY <1>0 DEF FragStates, pico_fragments_empty_tree
  <2> HIDE DEF e
  <2> QED
    BY <2>1, FragEmptiedOK
<1>3. \/ frag.tree = {} /\ frag' \in Start(frag, x)
      \/ frag' \in Continue(frag, x)
      \/ frag' \in Continue(e, x)
  <2> HIDE DEF e
  <2> QED BY DEF pico_ipv4_process_frag, pico_ipv6_process_frag, e
<1> HIDE DEF e, x
<1> QED
  BY <1>1, <1>2, <1>3, StartOK, ContinueOK

LEMMA FragExpireOK == FragOK(frag) /\ pico_frag_expire => FragOK(frag')
<1> SUFFICES ASSUME FragOK(frag), pico_frag_expire PROVE FragOK(frag')
  OBVIOUS
<1>0. frag \in FragStates
  BY DEF FragOK
<1>1. CASE frag' = [pico_fragments_empty_tree(frag) EXCEPT !.timer = FALSE]
  <2>1. /\ frag' \in FragStates /\ frag'.tree = {} /\ frag'.out = frag.out /\ frag'.proto = frag.proto
        /\ frag'.failed = frag.failed
    BY <1>0, <1>1 DEF FragStates, pico_fragments_empty_tree
  <2> QED
    BY <2>1, FragEmptiedOK
<1>2. CASE frag.old > 0 /\ frag' = [pico_fragments_empty_tree(frag) EXCEPT !.old = @ - 1]
  <2> DEFINE o == frag.old - 1
  <2>1. o \in 0..FragOld
    BY <1>0, <1>2, FragAssumption DEF FragStates
  <2>2. frag' = [frag EXCEPT !.tree = {}, !.old = o]
    BY <1>2 DEF pico_fragments_empty_tree
  <2> HIDE DEF o
  <2>3. /\ frag' \in FragStates /\ frag'.tree = {} /\ frag'.out = frag.out /\ frag'.proto = frag.proto
        /\ frag'.failed = frag.failed
    BY <1>0, <2>1, <2>2 DEF FragStates
  <2> QED
    BY <2>3, FragEmptiedOK
<1> QED
  BY <1>1, <1>2 DEF pico_frag_expire

-----------------------------------------------------------------------------
FragInv == FragOK(frag)

LEMMA FragHolds == FragSpec => []FragInv
<1>1. FragInit => FragInv
  <2> SUFFICES ASSUME FragInit PROVE FragOK(frag)
    BY DEF FragInv
  <2> DEFINE e == <<>>
             p == "none"
  <2>1. e \in Seq(FragDatagrams)
    OBVIOUS
  <2>5. p \in STRING \union {"none"}
    OBVIOUS
  <2>4. 0 \in 0..FragOld /\ 0 \in Nat
    BY FragAssumption
  <2>2. PICK net \in {"IPV4", "IPV6"} :
           frag = [net |-> net, tree |-> {}, cur_frag_id |-> 0, timer |-> FALSE,
                   old |-> 0, out |-> e, proto |-> p, failed |-> FALSE]
    BY DEF FragInit
  <2> HIDE DEF e, p
  <2>3. frag \in FragStates /\ frag.tree = {} /\ frag.out = e
    BY <2>1, <2>2, <2>4, <2>5 DEF FragStates
  <2> QED
    BY <2>3, EmptyIncomplete DEF FragOK, OneDatagram, Intact, e
<1>2. FragInv /\ [FragNext]_fragVars => FragInv'
  BY FragArrivesOK, FragExpireOK DEF FragInv, FragNext, fragVars
<1> QED
  BY <1>1, <1>2, PTL DEF FragSpec

(* A datagram that is handed to the transport is one that was sent: the    *)
(* fragments of datagrams that share an identifier are never mixed, none   *)
(* is missing and, unless an allocation has failed, it goes to its own     *)
(* protocol, whatever the network loses, repeats and reorders and whenever *)
(* the timers of earlier reassemblies fire.                                *)
THEOREM OnlyWholeDatagrams == FragSpec => []FragIntact
<1>1. FragInv => FragIntact
  BY DEF FragInv, FragOK, Intact, FragIntact
<1> QED
  BY <1>1, FragHolds, PTL

(* The types of the reassembly; no more timers are left behind than the    *)
(* bound allows.                                                           *)
THEOREM FragTypes == FragSpec => []FragTypeOK
<1>1. FragInv => FragTypeOK
  <2> SUFFICES ASSUME frag \in FragStates PROVE FragTypeOK
    BY DEF FragInv, FragOK
  <2>1. \A x \in frag.tree : Of(x) \in FragDatagrams /\ Offset(x) \in 0..(Of(x).len - 1)
    BY FragShape DEF FragStates
  <2> QED
    BY <2>1 DEF FragTypeOK, FragStates
<1> QED
  BY <1>1, FragHolds, PTL

-----------------------------------------------------------------------------
(* Address translation.                                                    *)

Attrs == [conn_active : 0..(NatDay + 1), portforward : BOOLEAN,
          ended : {"no", "fin_in", "fin_out", "both"}]
AttrTables == UNION {[ts -> Attrs] : ts \in SUBSET Tuples}
NatStates ==
    [proto : {"TCP", "UDP"}, on : BOOLEAN, NATOutbound : SUBSET Tuples, NATInbound : SUBSET Tuples,
     attr : AttrTables, timers : 0..(NatTimers + 1), bound : SUBSET NatPorts,
     high : SUBSET NatPorts, crashed : BOOLEAN]

(* The inductive invariant, of any state n of the translation: the two     *)
(* trees and the attributes are about the same tuples, of which no two     *)
(* have the same key in either tree, and one on a bound port was forwarded *)
(* by the application.                                                     *)
NatOK(n) ==
    /\ n \in NatStates
    /\ n.NATOutbound = n.NATInbound
    /\ DOMAIN n.attr = n.NATOutbound
    /\ \A t, u \in n.NATOutbound : t.src = u.src \/ t.port = u.port => t = u
    /\ \A t \in n.NATOutbound : t.port \in n.bound => n.attr[t].portforward

LEMMA TableOf ==
    ASSUME NEW ts \in SUBSET Tuples, NEW f \in [ts -> Attrs]
    PROVE  f \in AttrTables
BY DEF AttrTables

LEMMA TableIs ==
    ASSUME NEW f \in AttrTables
    PROVE  f \in [DOMAIN f -> Attrs] /\ DOMAIN f \in SUBSET Tuples
BY DEF AttrTables

LEMMA NewTupleType == \A forward \in BOOLEAN : NewTuple(forward) \in Attrs
BY NatAssumption DEF NewTuple, Attrs

LEMMA NatEmptyOK ==
    ASSUME NEW proto \in {"TCP", "UDP"}, NEW crashed \in BOOLEAN
    PROVE  NatOK(NoTuples(proto, crashed))
<1> DEFINE e == << >>
<1>1. e = [t \in {} |-> t] /\ DOMAIN e = {}
  OBVIOUS
<1>2. e \in [{} -> Attrs]
  BY <1>1
<1>3. e \in AttrTables
  BY <1>2, TableOf
<1> HIDE DEF e
<1>4. [proto |-> proto, on |-> FALSE, NATOutbound |-> {}, NATInbound |-> {}, attr |-> e,
       timers |-> 0, bound |-> {}, high |-> {}, crashed |-> crashed] \in NatStates
  BY <1>3, NatAssumption DEF NatStates
<1> QED
  BY <1>1, <1>4 DEF NoTuples, NatOK, e

(* pico_ipv4_nat_add keeps the invariant wherever the port is not bound or *)
(* the tuple is a forward.                                                 *)
LEMMA NatAddOK ==
    ASSUME NEW n, NatOK(n), NEW t \in Tuples, NEW forward \in BOOLEAN,
           t.port \in n.bound => forward
    PROVE  NatOK(pico_ipv4_nat_add(n, t, forward))
<1>1. CASE Outbound(n, t.src) # {} \/ Inbound(n, t.port) # {}
  BY <1>1 DEF pico_ipv4_nat_add
<1>2. CASE Outbound(n, t.src) = {} /\ Inbound(n, t.port) = {}
  <2> DEFINE ts == n.NATOutbound \union {t}
             f == [u \in ts |-> IF u = t THEN NewTuple(forward) ELSE n.attr[u]]
             m == [n EXCEPT !.NATOutbound = ts, !.NATInbound = ts, !.attr = f]
  <2>0. n \in NatStates /\ n.NATInbound = n.NATOutbound /\ DOMAIN n.attr = n.NATOutbound
    BY DEF NatOK
  <2>1. pico_ipv4_nat_add(n, t, forward) = m
    BY <1>2, <2>0 DEF pico_ipv4_nat_add
  <2>2. n.attr \in [n.NATOutbound -> Attrs] /\ ts \in SUBSET Tuples
    BY <2>0, TableIs DEF NatStates
  <2>3. f \in AttrTables
    BY <2>2, NewTupleType, TableOf
  <2>4. m \in NatStates /\ m.NATOutbound = ts /\ m.NATInbound = ts /\ m.attr = f /\ m.bound = n.bound
    <3> HIDE DEF f, ts
    <3> QED BY <2>0, <2>2, <2>3 DEF NatStates
  <2>5. \A u \in n.NATOutbound : u.src # t.src /\ u.port # t.port
    BY <1>2, <2>0 DEF Outbound, Inbound
  <2>6. \A u, w \in ts : u.src = w.src \/ u.port = w.port => u = w
    BY <2>5 DEF NatOK
  <2>7. \A u \in ts : u.port \in n.bound => f[u].portforward
    BY DEF NatOK, NewTuple
  <2> HIDE DEF m, f, ts
  <2> QED
    <3>1. DOMAIN f = ts
      BY DEF f
    <3> QED
      BY <2>1, <2>4, <2>6, <2>7, <3>1 DEF NatOK
<1> QED
  BY <1>1, <1>2

(* pico_ipv4_nat_del, of any tuples.                                       *)
LEMMA NatDelOK ==
    ASSUME NEW n, NatOK(n), NEW ts
    PROVE  /\ NatOK(pico_ipv4_nat_del(n, ts))
           /\ pico_ipv4_nat_del(n, ts).NATOutbound = n.NATOutbound \ ts
           /\ \A u \in n.NATOutbound \ ts : pico_ipv4_nat_del(n, ts).attr[u] = n.attr[u]
           /\ pico_ipv4_nat_del(n, ts).timers = n.timers
<1> DEFINE us == n.NATOutbound \ ts
           f == [u \in us |-> n.attr[u]]
           m == [n EXCEPT !.NATOutbound = us, !.NATInbound = us, !.attr = f]
<1>0. n \in NatStates /\ n.NATInbound = n.NATOutbound /\ DOMAIN n.attr = n.NATOutbound
  BY DEF NatOK
<1>1. pico_ipv4_nat_del(n, ts) = m
  BY <1>0 DEF pico_ipv4_nat_del
<1>2. n.attr \in [n.NATOutbound -> Attrs] /\ us \in SUBSET Tuples
  BY <1>0, TableIs DEF NatStates
<1>3. f \in AttrTables
  BY <1>2, TableOf
<1>4. /\ m \in NatStates /\ m.NATOutbound = us /\ m.NATInbound = us /\ m.attr = f
      /\ m.bound = n.bound /\ m.timers = n.timers
  <2> HIDE DEF f, us
  <2> QED BY <1>0, <1>2, <1>3 DEF NatStates
<1>5. /\ \A u, w \in us : u.src = w.src \/ u.port = w.port => u = w
      /\ \A u \in us : u.port \in n.bound => f[u].portforward
  BY DEF NatOK
<1>6. DOMAIN f = us /\ \A u \in us : f[u] = n.attr[u]
  OBVIOUS
<1> HIDE DEF m, f, us
<1> QED
  BY <1>1, <1>4, <1>5, <1>6 DEF NatOK, us

(* A frame changes attributes of one tuple, and neither its key nor whether*)
(* it is a forward.                                                        *)
LEMMA NatSniffOK ==
    ASSUME NEW n, NatOK(n), NEW t \in n.NATOutbound, NEW flag \in {"RST", "FIN", "none"},
           NEW direction \in {"fin_in", "fin_out"}
    PROVE  NatOK(pico_ipv4_nat_sniff_session(n, t, flag, direction))
<1> DEFINE a == n.attr[t]
           b == CASE n.proto = "UDP" -> [a EXCEPT !.conn_active = 1]
                  [] n.proto = "TCP" /\ flag = "RST" -> [a EXCEPT !.ended = "both"]
                  [] n.proto = "TCP" /\ flag = "FIN" ->
                        [a EXCEPT !.ended = IF @ \in {"no", direction} THEN direction ELSE "both"]
                  [] OTHER -> a
           f == [n.attr EXCEPT ![t] = b]
           m == [n EXCEPT !.attr = f]
<1>0. n \in NatStates /\ DOMAIN n.attr = n.NATOutbound
  BY DEF NatOK
<1>1. pico_ipv4_nat_sniff_session(n, t, flag, direction) = m
  BY DEF pico_ipv4_nat_sniff_session
<1>2. n.attr \in [n.NATOutbound -> Attrs] /\ n.NATOutbound \in SUBSET Tuples /\ a \in Attrs
  BY <1>0, TableIs DEF NatStates
<1>3. b \in Attrs /\ b.portforward = a.portforward
  <2>1. n.proto \in {"TCP", "UDP"}
    BY <1>0 DEF NatStates
  <2>2. [a EXCEPT !.conn_active = 1] \in Attrs /\ [a EXCEPT !.conn_active = 1].portforward = a.portforward
    BY <1>2, NatAssumption DEF Attrs
  <2>3. ASSUME NEW e \in {"no", "fin_in", "fin_out", "both"}
        PROVE  [a EXCEPT !.ended = e] \in Attrs /\ [a EXCEPT !.ended = e].portforward = a.portforward
    BY <1>2 DEF Attrs
  <2> HIDE DEF a
  <2>4. CASE n.proto = "UDP"
    BY <2>2, <2>4
  <2>5. CASE n.proto = "TCP" /\ flag = "RST"
    BY <2>3, <2>5
  <2>6. CASE n.proto = "TCP" /\ flag = "FIN"
    BY <2>3, <2>6
  <2>7. CASE n.proto = "TCP" /\ flag = "none"
    BY <1>2, <2>7
  <2> QED
    BY <2>1, <2>4, <2>5, <2>6, <2>7
<1> HIDE DEF b
<1>4. f \in [n.NATOutbound -> Attrs] /\ \A u \in n.NATOutbound : f[u].portforward = n.attr[u].portforward
  BY <1>2, <1>3
<1>5. f \in AttrTables
  BY <1>2, <1>4, TableOf
<1> HIDE DEF f
<1>6. /\ m \in NatStates /\ m.NATOutbound = n.NATOutbound /\ m.NATInbound = n.NATInbound /\ m.attr = f
      /\ m.bound = n.bound
  BY <1>0, <1>5 DEF NatStates
<1> HIDE DEF m
<1> QED
  BY <1>1, <1>4, <1>6 DEF NatOK

(* A cleanup: tuples that are too old go, the others get older by one.     *)
LEMMA AgedType ==
    ASSUME NEW a \in Attrs, ~Expired(a), nat.proto \in {"TCP", "UDP"}
    PROVE  Aged(a) \in Attrs /\ Aged(a).portforward = a.portforward
<1>1. CASE a.portforward
  BY <1>1 DEF Aged
<1>2. CASE ~a.portforward /\ nat.proto = "TCP" /\ a.ended = "both"
  BY <1>2, NatAssumption DEF Aged, Attrs
<1>3. CASE ~a.portforward /\ ~(nat.proto = "TCP" /\ a.ended = "both")
  <2>1. a.conn_active \in 0..NatDay
    BY <1>3, NatAssumption DEF Expired, Attrs
  <2>2. Aged(a) = [a EXCEPT !.conn_active = @ + 1]
    BY <1>3 DEF Aged
  <2> QED
    BY <2>1, <2>2, NatAssumption DEF Attrs
<1> QED
  BY <1>1, <1>2, <1>3

LEMMA NatCleanupOK == NatOK(nat) /\ pico_ipv4_nat_table_cleanup => NatOK(nat')
<1> SUFFICES ASSUME NatOK(nat), pico_ipv4_nat_table_cleanup PROVE NatOK(nat')
  OBVIOUS
<1> DEFINE gone == {t \in nat.NATOutbound : Expired(nat.attr[t])}
           n == pico_ipv4_nat_del(nat, gone)
           f == [t \in DOMAIN n.attr |-> Aged(n.attr[t])]
<1>1. PICK rearmed \in BOOLEAN :
         nat' = [n EXCEPT !.attr = f, !.timers = IF rearmed THEN @ ELSE @ - 1]
  BY DEF pico_ipv4_nat_table_cleanup
<1>2. nat \in NatStates /\ DOMAIN nat.attr = nat.NATOutbound
  BY DEF NatOK
<1>3. nat.timers > 0 /\ nat.timers \in 0..(NatTimers + 1)
  BY <1>2 DEF NatStates, pico_ipv4_nat_table_cleanup, NatFires
<1>4. /\ NatOK(n) /\ n.NATOutbound = nat.NATOutbound \ gone /\ n.timers = nat.timers
      /\ \A u \in n.NATOutbound : n.attr[u] = nat.attr[u]
  BY NatDelOK
<1>5. \A u \in n.NATOutbound : ~Expired(n.attr[u])
  BY <1>4
<1> HIDE DEF n
<1>6. /\ n \in NatStates /\ DOMAIN n.attr = n.NATOutbound /\ n.NATOutbound \in SUBSET Tuples
      /\ n.attr \in [n.NATOutbound -> Attrs]
  BY <1>4, TableIs DEF NatOK, NatStates
<1>7. \A u \in n.NATOutbound : f[u] \in Attrs /\ f[u].portforward = n.attr[u].portforward
  BY <1>2, <1>5, <1>6, AgedType DEF NatStates
<1>8. f \in [n.NATOutbound -> Attrs]
  BY <1>6, <1>7
<1>9. f \in AttrTables /\ DOMAIN f = n.NATOutbound
  BY <1>6, <1>8, TableOf
<1> HIDE DEF f
<1> DEFINE left == IF rearmed THEN n.timers ELSE n.timers - 1
<1>10. left \in 0..(NatTimers + 1)
  BY <1>3, <1>4, NatAssumption
<1>11. nat' = [n EXCEPT !.attr = f, !.timers = left]
  BY <1>1
<1> HIDE DEF left
<1>12. /\ nat' \in NatStates /\ nat'.NATOutbound = n.NATOutbound /\ nat'.NATInbound = n.NATInbound
       /\ nat'.attr = f /\ nat'.bound = n.bound
  BY <1>6, <1>9, <1>10, <1>11 DEF NatStates
<1> QED
  BY <1>4, <1>7, <1>9, <1>12 DEF NatOK

(* A step that leaves the trees and the attributes alone, and binds no     *)
(* port that a tuple has.                                                  *)
LEMMA NatSocketsOK ==
    ASSUME NatOK(nat), nat' \in NatStates,
           nat'.NATOutbound = nat.NATOutbound, nat'.NATInbound = nat.NATInbound,
           nat'.attr = nat.attr,
           \A t \in nat.NATOutbound : t.port \in nat'.bound => t.port \in nat.bound
    PROVE  NatOK(nat')
BY DEF NatOK

LEMMA NatNextOK == NatOK(nat) /\ [NatNext]_natVars => NatOK(nat')
<1> SUFFICES ASSUME NatOK(nat), [NatNext]_natVars PROVE NatOK(nat')
  OBVIOUS
<1>0. /\ nat \in NatStates /\ nat.NATOutbound = nat.NATInbound /\ nat.NATOutbound \in SUBSET Tuples
      /\ NatLocal \subseteq NatPorts
  BY NatAssumption DEF NatOK, NatStates
<1>1. ASSUME NEW p \in NatLocal, pico_socket_bind(p) PROVE NatOK(nat')
  <2>1. \A t \in nat.NATOutbound : t.port # p
    BY <1>0, <1>1 DEF pico_socket_bind, pico_is_port_free, pico_port_in_use_by_nat, Inbound
  <2>2. nat' \in NatStates
    BY <1>0, <1>1 DEF pico_socket_bind, NatStates
  <2> QED
    BY <1>0, <1>1, <2>1, <2>2, NatSocketsOK DEF pico_socket_bind, NatStates
<1>2. ASSUME NEW p \in NatLocal, pico_socket_connect(p) \/ pico_socket_close(p) PROVE NatOK(nat')
  <2>1. nat' \in NatStates
    BY <1>0, <1>2 DEF pico_socket_connect, pico_socket_close, NatStates
  <2> QED
    BY <1>0, <1>2, <2>1, NatSocketsOK DEF pico_socket_connect, pico_socket_close, NatStates
<1>3. ASSUME NEW p \in NatPorts, PortForwardDel(p) PROVE NatOK(nat')
  BY <1>3, NatDelOK DEF PortForwardDel
<1>4. ASSUME NEW p \in NatPorts, NEW flag \in {"RST", "FIN", "none"}, pico_ipv4_nat_inbound(p, flag)
      PROVE  NatOK(nat')
  <2>1. PICK t \in nat.NATOutbound : nat' = pico_ipv4_nat_sniff_session(nat, t, flag, "fin_in")
    BY <1>0, <1>4 DEF pico_ipv4_nat_inbound, Inbound
  <2> QED
    BY <2>1, NatSniffOK
<1>5. ASSUME NEW src \in NatHosts, NEW flag \in {"RST", "FIN", "none"}, pico_ipv4_nat_outbound(src, flag)
      PROVE  NatOK(nat')
  <2>1. ASSUME NEW n \in pico_ipv4_nat_generate_tuple(nat, src) PROVE NatOK(n)
    <3>1. CASE n = nat
      BY <3>1
    <3>2. ASSUME NEW p \in NatPorts, pico_is_port_free(nat, p),
                 n = pico_ipv4_nat_add(nat, [src |-> src, port |-> p], FALSE)
          PROVE  NatOK(n)
      <4>1. [src |-> src, port |-> p] \in Tuples /\ p \notin nat.bound
        BY <3>2 DEF Tuples, pico_is_port_free, pico_port_in_use_ipv4
      <4> QED
        BY <3>2, <4>1, NatAddOK
    <3> QED
      BY <2>1, <3>1, <3>2 DEF pico_ipv4_nat_generate_tuple
  <2>2. PICK n : /\ n = nat \/ n \in pico_ipv4_nat_generate_tuple(nat, src)
                 /\ \/ \E t \in Outbound(n, src) :
                          nat' = pico_ipv4_nat_sniff_session(n, t, flag, "fin_out")
                    \/ nat' = NoTuples(nat.proto, TRUE)
    BY <1>5 DEF pico_ipv4_nat_outbound
  <2>3. NatOK(n)
    BY <2>1, <2>2
  <2>4. ASSUME NEW t \in n.NATOutbound, nat' = pico_ipv4_nat_sniff_session(n, t, flag, "fin_out")
        PROVE  NatOK(nat')
    BY <2>3, <2>4, NatSniffOK
  <2>5. CASE nat' = NoTuples(nat.proto, TRUE)
    BY <1>0, <2>5, NatEmptyOK DEF NatStates
  <2> QED
    BY <2>2, <2>4, <2>5 DEF Outbound
<1>6. ASSUME NEW t \in Tuples, PortForwardAdd(t) PROVE NatOK(nat')
  BY <1>6, NatAddOK DEF PortForwardAdd
<1>7. ASSUME pico_ipv4_nat_enable \/ pico_ipv4_nat_disable PROVE NatOK(nat')
  <2>1. CASE pico_ipv4_nat_enable
    <3> DEFINE more == nat.timers + 1
    <3>1. more \in 0..(NatTimers + 1)
      BY <1>0, <2>1, NatAssumption DEF pico_ipv4_nat_enable, NatStates
    <3>2. nat' = [nat EXCEPT !.on = TRUE, !.timers = more]
      BY <2>1 DEF pico_ipv4_nat_enable
    <3> HIDE DEF more
    <3>3. nat' \in NatStates
      BY <1>0, <3>1, <3>2 DEF NatStates
    <3> QED
      BY <1>0, <3>2, <3>3, NatSocketsOK DEF NatStates
  <2>2. CASE pico_ipv4_nat_disable
    <3>1. nat' \in NatStates
      BY <1>0, <2>2 DEF pico_ipv4_nat_disable, NatStates
    <3> QED
      BY <1>0, <2>2, <3>1, NatSocketsOK DEF pico_ipv4_nat_disable, NatStates
  <2> QED
    BY <1>7, <2>1, <2>2
<1>8. CASE UNCHANGED natVars
  BY <1>8 DEF natVars
<1> QED
  BY <1>1, <1>2, <1>3, <1>4, <1>5, <1>6, <1>7, <1>8, NatCleanupOK DEF NatNext

NatInv == NatOK(nat)

LEMMA NatHolds == NatSpec => []NatInv
<1>1. NatInit => NatInv
  BY NatEmptyOK DEF NatInit, NatInv
<1>2. NatInv /\ [NatNext]_natVars => NatInv'
  BY NatNextOK DEF NatInv
<1> QED
  BY <1>1, <1>2, PTL DEF NatSpec

(* A reply finds its way back, whatever order sockets, forwards, frames    *)
(* and cleanups come in: pico_ipv4_nat_add's two checks keep both trees    *)
(* about the same tuples with one host per port, and pico_is_port_free     *)
(* keeps a translation off the port a socket has bound.                    *)
THEOREM RepliesFindTheirHost == NatSpec => []NatReplies
<1>1. NatInv => NatReplies
  BY DEF NatInv, NatOK, NatReplies
<1> QED
  BY <1>1, NatHolds, PTL

(* The types of the translation's state; that a tuple's age stays within   *)
(* the day it is kept for rests on the cleanup taking the older ones out   *)
(* before it adds one to the age of the others.                            *)
THEOREM NatTypes == NatSpec => []NatTypeOK
<1>1. NatInv => NatTypeOK
  <2> SUFFICES ASSUME NatOK(nat) PROVE NatTypeOK
    BY DEF NatInv
  <2>1. nat \in NatStates /\ nat.attr \in [nat.NATOutbound -> Attrs]
    BY TableIs DEF NatOK, NatStates
  <2> QED
    BY <2>1 DEF NatOK, NatStates, NatTypeOK, Attrs
<1> QED
  BY <1>1, NatHolds, PTL
=============================================================================
