--------------------------------- MODULE Nd ---------------------------------
(***************************************************************************)
(* IPv6 neighbour discovery on an Ethernet device (modules/pico_ipv6_nd.c):*)
(* the neighbour cache NCache and its timer, the frames that wait for an   *)
(* address, and the default router they may wait for.  The links of the    *)
(* device and their addresses are in IpLinks; here only  whether the       *)
(* source address of the traffic is still tentative matters.               *)
(*                                                                         *)
(* nd is the state of the module as one record; a handler is a function    *)
(* from the record to the record.  The timer callback runs every 200 ms;   *)
(* the model's time is counted in the timeouts it waits for, so that an    *)
(* entry is due at the callback that follows its new expire time.  expire  *)
(* is then whether it has one: zero, the value of a new entry, means it    *)
(* may be solicited at once.                                               *)
(***************************************************************************)
EXTENDS Integers, Sequences, FiniteSets, FrameSlots

CONSTANTS
    Neighbours,    \* addresses on the link
    Gateway,       \* the neighbour that is the default router
    Remote,        \* an address that is not on the link
    NdHws,         \* hardware addresses
    NdFrames,      \* the frames the stack sends
    NdQueued,      \* PICO_ND_MAX_FRAMES_QUEUED
    MaxSolicit     \* PICO_ND_MAX_SOLICIT

ASSUME NdAssumption ==
    /\ NdQueued \in Nat \ {0} /\ MaxSolicit \in Nat \ {0}
    /\ Gateway \in Neighbours /\ Remote \notin Neighbours
    /\ "zero" \notin NdHws      \* the hardware address of a new entry
    /\ "no frame" \notin NdFrames      \* what an empty slot holds
    /\ IsFiniteSet(Neighbours)

VARIABLES
    nd,         \* the module's state
    ndClock     \* parity of the timer callbacks

NdSlots == 1..NdQueued
NdAddrs == Neighbours \union {Remote}
NoNeighbour == [state |-> "none"]
NoNdFrame == "no frame"
KnownStates == {"REACHABLE", "STALE", "DELAY", "PROBE"}

(* A frame the stack does not hold is forgotten, but for its fate.         *)
Gone(at) == [dst |-> Remote, at |-> at, why |-> "none", hop |-> Remote]

(* frame: dst, where it is and (history) why it waits: for the address of  *)
(* the neighbour hop, or because its source was tentative, or because      *)
(* there was no memory for an entry, or because routes have changed.       *)
(* gateway: is there a default route?  timer: is the callback pending?     *)
NdInit ==
    /\ nd = [cache   |-> [a \in NdAddrs |-> NoNeighbour],
             slots   |-> [i \in NdSlots |-> NoNdFrame],
             last    |-> 0,
             out     |-> <<>>,
             frame   |-> [f \in NdFrames |-> Gone("unborn")],
             gateway |-> FALSE,
             tentative |-> TRUE,
             timer   |-> TRUE]
    /\ ndClock = 0

NdIn(d) == {i \in NdSlots : d.slots[i] # NoNdFrame}
Neighbour(d, a) == d.cache[a]
Set(d, a, n) == [d EXCEPT !.cache[a] = n]
Moved(d, f, at) == [d EXCEPT !.frame[f] = Gone(at)]
Back(x) == [x EXCEPT !.at = "out", !.why = "none", !.hop = Remote]

(* Without a default route a remote destination is tried on the link too,  *)
(* where nobody answers for it.                                            *)
pico_ipv6_route_get_gateway(d, dst) == IF dst = Remote /\ d.gateway THEN Gateway ELSE dst

-----------------------------------------------------------------------------
(* The frames that wait.                                                   *)

(* Every frame that waits goes back to the out queue.                      *)
pico_ipv6_nd_queued_trigger(d) ==
    [d EXCEPT !.out = Requeue(d.out, d.slots, NdQueued, NoNdFrame)[NdQueued],
              !.slots = [i \in NdSlots |-> NoNdFrame],
              !.frame = [f \in NdFrames |->
                  IF \E i \in NdSlots : d.slots[i] = f THEN Back(d.frame[f]) ELSE d.frame[f]]]

(* Mutant of pico_ipv6_nd_unreachable: the frames for the neighbour are    *)
(* kept.                                                                   *)
KeepsWaiting(d, a) == d

(* The frames whose next hop, by the routes of now, is a are discarded.    *)
pico_ipv6_nd_unreachable(d, a) ==
    LET gone == {i \in NdIn(d) : pico_ipv6_route_get_gateway(d, d.frame[d.slots[i]].dst) = a} IN
    [d EXCEPT !.slots = [i \in NdSlots |-> IF i \in gone THEN NoNdFrame ELSE d.slots[i]],
              !.frame = [f \in NdFrames |->
                  IF \E i \in gone : d.slots[i] = f THEN Gone("discarded") ELSE d.frame[f]]]

(* The first free slot, or the one after the last one used, whose frame is *)
(* discarded.                                                              *)
pico_ipv6_nd_postpone(d, f, why, hop) ==
    LET free == NdSlots \ NdIn(d)
        i == IF free # {} THEN CHOOSE i \in free : \A j \in free : i <= j
             ELSE (d.last % NdQueued) + 1
        e == IF free # {} THEN d ELSE Moved(d, d.slots[i], "discarded")
    IN  [e EXCEPT !.slots[i] = f, !.last = i,
                  !.frame[f].at = "slot", !.frame[f].why = why, !.frame[f].hop = hop]

-----------------------------------------------------------------------------
(* The cache.                                                              *)

pico_nd_add(d, a) ==
    Set(d, a, [state |-> "INCOMPLETE", hw |-> "zero", is_router |-> FALSE, failure_count |-> 0,
               expire |-> FALSE])

(* A solicitation, unless one is under way or there were too many.         *)
pico_nd_discover(d, a) ==
    LET n == Neighbour(d, a) IN
    IF n.expire THEN d
    ELSE Set(d, a, [n EXCEPT !.failure_count = @ + 1, !.expire = n.failure_count < MaxSolicit])

Enter(d, a, state) == [d EXCEPT !.cache[a].state = state]
pico_nd_new_expire_time(d, a) == [d EXCEPT !.cache[a].expire = TRUE]
Unconfirmed(d, a) ==
    IF Neighbour(d, a).state = "STALE" THEN pico_nd_new_expire_time(Enter(d, a, "DELAY"), a) ELSE d

(* The frame f leaves to a neighbour whose address the cache knows, or     *)
(* waits; ok: is there memory for a new entry?                             *)
pico_nd_get_neighbor(d, f, a, ok) ==
    CASE Neighbour(d, a) = NoNeighbour ->
            IF ok THEN pico_ipv6_nd_postpone(pico_nd_discover(pico_nd_add(d, a), a), f, "resolve", a)
                  ELSE pico_ipv6_nd_postpone(d, f, "nomem", Remote)
      [] Neighbour(d, a).state = "INCOMPLETE" ->
            pico_ipv6_nd_postpone(d, f, "resolve", a)
      [] Neighbour(d, a).state = "REACHABLE" -> Moved(d, f, "sent")
      [] OTHER -> pico_nd_discover(Unconfirmed(Moved(d, f, "sent"), a), a)

pico_ipv6_get_neighbor(d, f, ok) ==
    IF d.tentative THEN pico_ipv6_nd_postpone(d, f, "tentative", Remote)
    ELSE pico_nd_get_neighbor(d, f, pico_ipv6_route_get_gateway(d, d.frame[f].dst), ok)

-----------------------------------------------------------------------------
(* Neighbour advertisements.  opt is the target link-layer address, or     *)
(* "none".                                                                 *)

(* Routes change: what waits for a gateway may wait for the wrong one.     *)
Reroute(d, there) ==
    IF d.gateway = there THEN d
    ELSE [d EXCEPT !.gateway = there,
                   !.frame = [f \in NdFrames |->
                       IF d.frame[f].at = "slot" /\ d.frame[f].dst = Remote
                       THEN [d.frame[f] EXCEPT !.why = "rerouted", !.hop = Remote] ELSE d.frame[f]]]

neigh_adv_reconfirm_router_option(d, a, router) ==
    [(IF ~router /\ Neighbour(d, a).is_router /\ a = Gateway THEN Reroute(d, FALSE) ELSE d)
        EXCEPT !.cache[a].is_router = router]

Confirm(d, a) ==
    pico_nd_new_expire_time(pico_ipv6_nd_queued_trigger(
        [d EXCEPT !.cache[a].state = "REACHABLE", !.cache[a].failure_count = 0]), a)
pico_ipv6_neighbor_update(d, a, hw) == [d EXCEPT !.cache[a].hw = hw]

neigh_adv_reconfirm_no_tlla(d, a, solicited) == IF solicited THEN Confirm(d, a) ELSE d

neigh_adv_reconfirm(d, a, solicited, override, opt) ==
    LET same == Neighbour(d, a).hw = opt
        reachable == Neighbour(d, a).state = "REACHABLE"
    IN
    CASE solicited /\ ~override /\ same -> Confirm(d, a)
      [] solicited /\ ~override /\ ~same -> IF reachable THEN Enter(d, a, "STALE") ELSE d
      [] solicited /\ override -> Confirm(pico_ipv6_neighbor_update(d, a, opt), a)
      [] ~solicited /\ override /\ ~same ->
            pico_nd_new_expire_time(pico_ipv6_nd_queued_trigger(
                Enter(pico_ipv6_neighbor_update(d, a, opt), a, "STALE")), a)
      [] ~solicited /\ ~override /\ ~same ->
            IF reachable THEN pico_nd_new_expire_time(Enter(d, a, "STALE"), a) ELSE d
      [] OTHER -> d

(* An unsolicited answer leaves the count of failures and the expire time. *)
neigh_adv_process_incomplete(d, a, solicited, opt) ==
    IF solicited THEN Confirm(pico_ipv6_neighbor_update(d, a, opt), a)
    ELSE pico_ipv6_nd_queued_trigger(Enter(pico_ipv6_neighbor_update(d, a, opt), a, "STALE"))

neigh_adv_process(d, a, solicited, override, router, opt) ==
    LET e == IF opt = "none" \/ override \/ opt = Neighbour(d, a).hw
             THEN neigh_adv_reconfirm_router_option(d, a, router) ELSE d
    IN
    IF opt = "none" THEN neigh_adv_reconfirm_no_tlla(e, a, solicited)
    ELSE IF Neighbour(d, a).state = "INCOMPLETE" THEN neigh_adv_process_incomplete(e, a, solicited, opt)
    ELSE neigh_adv_reconfirm(e, a, solicited, override, opt)

(* The source of a solicitation, a router's message or a redirect.         *)
pico_ipv6_neighbor_from_unsolicited(d, a, hw) ==
    IF Neighbour(d, a) = NoNeighbour
    THEN pico_ipv6_nd_queued_trigger(Enter(pico_ipv6_neighbor_update(pico_nd_add(d, a), a, hw), a, "STALE"))
    ELSE IF Neighbour(d, a).hw = hw THEN d
    ELSE pico_nd_new_expire_time(pico_ipv6_nd_queued_trigger(
            Enter(pico_ipv6_neighbor_update(d, a, hw), a, "STALE")), a)

-----------------------------------------------------------------------------
(* The timer.                                                              *)

(* Mutant of pico_ipv6_nd_timer_elapsed: failures are counted from zero    *)
(* again at every timeout.                                                 *)
NeverUnreachable(d, a) ==
    IF Neighbour(d, a).state = "INCOMPLETE"
    THEN pico_nd_new_expire_time([d EXCEPT !.cache[a].failure_count = 0], a) ELSE d

pico_ipv6_nd_timer_elapsed(d, a) ==
    LET n == Neighbour(d, a) IN
    CASE n.state \in {"INCOMPLETE", "PROBE"} ->
            IF n.failure_count > MaxSolicit
            THEN Set(pico_ipv6_nd_unreachable(d, a), a, NoNeighbour)
            ELSE pico_nd_new_expire_time(
                    pico_nd_discover([d EXCEPT !.cache[a].expire = FALSE], a), a)
      [] n.state = "REACHABLE" -> Enter(d, a, "STALE")
      [] n.state = "DELAY" -> pico_nd_new_expire_time(Enter(d, a, "PROBE"), a)
      [] n.state = "STALE" -> pico_nd_new_expire_time(d, a)
      [] OTHER -> d

(* The callback takes the entries in the order of the tree.  elapsed[i] is *)
(* the state after i of them.                                              *)
NdSize == Cardinality(NdAddrs)
NdOrder == CHOOSE order \in [1..NdSize -> NdAddrs] :
               \A a \in NdAddrs : \E i \in 1..NdSize : order[i] = a
NdElapsed(d) ==
    LET elapsed[i \in 0..NdSize] ==
            IF i = 0 THEN d ELSE pico_ipv6_nd_timer_elapsed(elapsed[i - 1], NdOrder[i])
    IN  elapsed

NdTicks == nd.timer /\ ndClock' = 1 - ndClock
pico_ipv6_nd_timer_callback ==
    /\ NdTicks
    /\ \E ok \in BOOLEAN : nd' = [NdElapsed(nd)[NdSize] EXCEPT !.timer = ok]

-----------------------------------------------------------------------------
(* Frames and packets.                                                     *)

NdSend ==
    \E f \in NdFrames, dst \in NdAddrs :
        /\ nd.frame[f].at = "unborn"
        /\ nd' = [nd EXCEPT !.frame[f].at = "out", !.frame[f].dst = dst, !.out = Append(@, f)]

pico_ethernet_ipv6_dst ==
    /\ nd.out # <<>>
    /\ \E ok \in BOOLEAN :
         nd' = pico_ipv6_get_neighbor([nd EXCEPT !.out = Tail(@)], Head(nd.out), ok)

pico_nd_neigh_adv_recv ==
    \E a \in Neighbours, solicited, override, router \in BOOLEAN, opt \in NdHws \union {"none"} :
        /\ Neighbour(nd, a) # NoNeighbour
        /\ nd' = neigh_adv_process(nd, a, solicited, override, router, opt)

NdUnsolicited ==
    \E a \in Neighbours, hw \in NdHws :
        nd' = pico_ipv6_neighbor_from_unsolicited(nd, a, hw)

(* A router advertisement gives a default route (pico_ipv6_route_add), or  *)
(* the lifetime of its prefix ends and the link's routes go with it.       *)
DefaultRoute == \E there \in BOOLEAN : nd' = Reroute(nd, there)

(* Duplicate address detection of the source ends well, or the address is  *)
(* replaced by one that is tentative again.                                *)
SourceAddress == nd' = [nd EXCEPT !.tentative = ~@]

ndVars == <<nd, ndClock>>
NdInput ==
    \/ NdSend \/ pico_ethernet_ipv6_dst \/ pico_nd_neigh_adv_recv \/ NdUnsolicited
    \/ DefaultRoute \/ SourceAddress
NdNext == pico_ipv6_nd_timer_callback \/ (NdInput /\ UNCHANGED ndClock)
(* The timer list runs the callback while it is pending.                   *)
NdFairness == WF_ndClock(NdTicks)
NdSpec == NdInit /\ [][NdNext]_ndVars /\ NdFairness

-----------------------------------------------------------------------------
(* Type invariant of the cache and the frames.                             *)
NdTypeOK ==
    /\ \A a \in NdAddrs : nd.cache[a] = NoNeighbour \/
           (nd.cache[a].state \in KnownStates \union {"INCOMPLETE"}
            /\ nd.cache[a].hw \in NdHws \union {"zero"}
            /\ nd.cache[a].failure_count \in 0..(MaxSolicit + 1))
    /\ nd.slots \in [NdSlots -> NdFrames \union {NoNdFrame}]
    /\ nd.out \in Seq(NdFrames) /\ nd.last \in 0..NdQueued
    /\ \A f \in NdFrames : nd.frame[f].at \in {"unborn", "out", "slot", "sent", "discarded"}

(* Every frame the module took is in exactly one place, and one that waits *)
(* for a neighbour waits for an entry that is being solicited, which will  *)
(* be resolved or given up.  The exceptions are the ones the code has: the *)
(* source was tentative, there was no memory for the entry, or the routes  *)
(* have changed since.                                                     *)
NdNoFrameStranded ==
    \A f \in NdFrames :
        /\ Cardinality({i \in NdSlots : nd.slots[i] = f})
             = (IF nd.frame[f].at = "slot" THEN 1 ELSE 0)
        /\ Cardinality({i \in DOMAIN nd.out : nd.out[i] = f})
             = (IF nd.frame[f].at = "out" THEN 1 ELSE 0)
        /\ nd.frame[f].why = "resolve" => Neighbour(nd, nd.frame[f].hop).state = "INCOMPLETE"

(* Address resolution ends: an entry that is being solicited is answered   *)
(* or, after MaxSolicit solicitations, deleted with the frames that wait   *)
(* for it, as long as the callback can add its timer again.                *)
NdResolutionEnds ==
    \A a \in Neighbours :
        (Neighbour(nd, a).state = "INCOMPLETE") ~> (Neighbour(nd, a).state # "INCOMPLETE" \/ ~nd.timer)
=============================================================================
