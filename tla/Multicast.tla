----------------------------- MODULE Multicast -----------------------------
(***************************************************************************)
(* Multicast membership for IPv4: the filters that sockets ask for         *)
(* (stack/pico_socket_multicast.c), the filter of the link they are merged *)
(* into (modules/pico_ipv4.c), the record that tells the routers of a      *)
(* change (modules/pico_mcast.c) and the IGMP host that reports the        *)
(* membership, answers queries and falls back to IGMPv2                    *)
(* (modules/pico_igmp.c).                                                  *)
(*                                                                         *)
(* One link.  mcast[g] is all there is about group g: what each socket     *)
(* asked for, the link's group, the IGMP parameters and the report timer.  *)
(* General stands for the group 0 of a general query, which has parameters *)
(* of its own.  A timer is an object in the tree IGMPTimers and a pending  *)
(* pico_timer that holds a pointer to it: own counts the pending ones of   *)
(* the object in the tree, old those of an object that was taken out of    *)
(* the tree and leaked, freed those whose object was freed.  A frame is    *)
(* the record type it carries, or a received "packet", or "freed".         *)
(***************************************************************************)
EXTENDS Naturals, FiniteSets

CONSTANTS
    McGroups,   \* multicast addresses
    General,    \* 0.0.0.0, the group of a general query
    McSockets,  \* number of UDP sockets, in the order of MCASTSockets
    McSources,  \* source addresses
    McTimers,   \* bound: pending timers of one object
    McMixed     \* bound: packets of another version than IGMPv3

ASSUME McAssumption == McSockets \in Nat /\ General \notin McGroups /\ McTimers \in Nat \ {0} /\ McMixed \in Nat

VARIABLES
    mcast,       \* per group: sockets, link, IGMP parameters, report timer
    igmpLink     \* mcast_compatibility, the querier timer, and what has happened

mcastVars == <<mcast, igmpLink>>

NotListening == [mode |-> "none", src |-> {}]
NoTimer == [tree |-> "none", own |-> 0, old |-> 0, freed |-> 0]

(* mixed counts the packets of IGMPv1, of IGMPv2 or of no version.         *)
NoMembership ==
    [g \in McGroups \union {General} |->
       [listen |-> [s \in 1..McSockets |-> NotListening],
        refs |-> 0, filter |-> NotListening, state |-> "none", f |-> "none", timer |-> NoTimer]]
McInit ==
    /\ mcast = NoMembership
    /\ igmpLink = [compat |-> "v3", querier |-> NoTimer, mixed |-> 0, crashed |-> FALSE]

(* A use of freed memory ends the program.                                 *)
McCrash ==
    /\ mcast' = NoMembership
    /\ igmpLink' = [igmpLink EXCEPT !.crashed = TRUE, !.compat = "v3", !.querier = NoTimer]

-----------------------------------------------------------------------------
(* The filters of the sockets merged into one, in the order of the tree.   *)

(* Mutant: what one of them excludes is excluded.                          *)
UnionOfExcluded(f, l) == [mode |-> "EXCLUDE", src |-> f.src \union l.src]
pico_mcast_filter_excl_excl(f, l) == [mode |-> "EXCLUDE", src |-> f.src \intersect l.src]
pico_mcast_filter_excl_incl(f, l) == [mode |-> "EXCLUDE", src |-> f.src \ l.src]

(* Nothing is deleted from the link's filter when the socket excludes      *)
(* nobody: the sources that were included are now excluded.                *)
pico_mcast_filter_incl_excl(f, l) ==
    [mode |-> "EXCLUDE", src |-> IF l.src = {} THEN f.src ELSE l.src \ f.src]

pico_mcast_filter_incl_incl(f, l) == [mode |-> "INCLUDE", src |-> f.src \union l.src]

pico_socket_aggregate_mcastfilters(listen) ==
    LET merged[n \in 0..McSockets] ==
          IF n = 0 THEN [mode |-> "INCLUDE", src |-> {}]
          ELSE LET f == merged[n - 1]
                   l == listen[n]
               IN  CASE l.mode = "none" -> f
                     [] f.mode = "EXCLUDE" /\ l.mode = "EXCLUDE" -> pico_mcast_filter_excl_excl(f, l)
                     [] f.mode = "EXCLUDE" /\ l.mode = "INCLUDE" -> pico_mcast_filter_excl_incl(f, l)
                     [] f.mode = "INCLUDE" /\ l.mode = "EXCLUDE" -> pico_mcast_filter_incl_excl(f, l)
                     [] f.mode = "INCLUDE" /\ l.mode = "INCLUDE" -> pico_mcast_filter_incl_incl(f, l)
    IN  merged[McSockets]

(* What a socket and what the link let through.                            *)
Passes(filter, src) ==
    \/ filter.mode = "INCLUDE" /\ src \in filter.src
    \/ filter.mode = "EXCLUDE" /\ src \notin filter.src

pico_socket_mcast_filter(g, s, src) == Passes(mcast[g].listen[s], src)
pico_ipv4_mcast_filter(g, src) == Passes(mcast[g].filter, src)

-----------------------------------------------------------------------------
(* The record for the change of a filter from a to b.                      *)

src_filtering_inc_inc(a, b, event) ==
    CASE event = "DELETE" -> "TO_IN"
      [] event # "DELETE" /\ b \ a # {} -> IF event = "CREATE" THEN "TO_IN" ELSE "ALLOW"
      [] event # "DELETE" /\ b \ a = {} /\ a \ b # {} -> "BLOCK"
      [] OTHER -> "none"

src_filtering_excl_excl(a, b) ==
    IF b \ a # {} THEN "BLOCK" ELSE IF a \ b # {} THEN "ALLOW" ELSE "none"

(* The record of an answer to a query is not filled in: its type is what   *)
(* the stack held.                                                         *)
pico_mcast_generate_filter(old, new, event) ==
    CASE event = "QUERY" -> "unset"
      [] event = "DELETE" ->
           IF old.mode = "INCLUDE" THEN src_filtering_inc_inc(old.src, {}, event) ELSE "TO_IN"
      [] event \notin {"QUERY", "DELETE"} /\ old.mode # new.mode ->
           IF new.mode = "EXCLUDE" THEN "TO_EX" ELSE "TO_IN"
      [] event \notin {"QUERY", "DELETE"} /\ old.mode = new.mode ->
           IF new.mode = "INCLUDE" THEN src_filtering_inc_inc(old.src, new.src, event)
                                   ELSE src_filtering_excl_excl(old.src, new.src)

(* "fail" when the link has no such group.                                 *)
pico_igmp_generate_report(p, new, event) ==
    CASE igmpLink.compat = "v2" -> "v2"
      [] igmpLink.compat = "v3" /\ p.filter.mode = "none" -> "fail"
      [] igmpLink.compat = "v3" /\ p.filter.mode # "none" ->
           pico_mcast_generate_filter(p.filter, new, event)

-----------------------------------------------------------------------------
(* The report timers.                                                      *)

(* Mutant of pico_igmp_timer_start: a timer that was stopped stays so.     *)
StaysStopped(t) == IF t.tree # "none" THEN t ELSE [t EXCEPT !.tree = "running", !.own = 1]

(* A timer with the same key is overwritten, the mark that it was stopped  *)
(* included.                                                               *)
pico_igmp_timer_start(t) ==
    IF t.tree # "none" THEN [t EXCEPT !.tree = "running"]
                       ELSE [t EXCEPT !.tree = "running", !.own = 1]

pico_igmp_timer_stop(t) == [t EXCEPT !.tree = "stopped"]

(* Taken out of the tree, neither cancelled nor freed.                     *)
Dropped(t) == [t EXCEPT !.tree = "none", !.own = 0, !.old = @ + t.own]

(* Taken out of the tree and freed while n timers still point to it.       *)
FreedWith(t, n) == [t EXCEPT !.tree = "none", !.own = 0, !.freed = @ + n]

-----------------------------------------------------------------------------
(* The state machine of one group.  Each handler maps the parameters p of  *)
(* the group; a frame that was freed cannot be sent or copied: "crash".    *)

stslifs(p, new) ==
    LET r == pico_igmp_generate_report(p, new, "DELETE") IN
    IF p.timer.tree = "none" THEN p
    ELSE IF r = "fail" THEN [p EXCEPT !.timer = pico_igmp_timer_stop(@)]
    ELSE [p EXCEPT !.timer = pico_igmp_timer_stop(@), !.state = "none", !.f = "none"]

slifs(p, new) ==
    IF pico_igmp_generate_report(p, new, "DELETE") = "fail" THEN p
    ELSE [p EXCEPT !.state = "none", !.f = "none"]

Started(p, r) ==
    [p EXCEPT !.f = r, !.timer = pico_igmp_timer_start(@), !.state = "DELAYING_MEMBER"]

srsfst(p, new, event) ==
    LET r == pico_igmp_generate_report(p, new, event) IN
    CASE r = "fail" -> p [] r = "none" -> [p EXCEPT !.f = "none"] [] OTHER -> Started(p, r)

(* The report that was sent before is sent again, with nothing about the   *)
(* new filter.                                                             *)
mrsrrt(p) ==
    CASE igmpLink.compat # "v3" -> p
      [] igmpLink.compat = "v3" /\ p.f \in {"freed", "none"} -> [p EXCEPT !.state = "crash"]
      [] OTHER -> IF p.timer.tree = "none" THEN p
                  ELSE [p EXCEPT !.state = "DELAYING_MEMBER"]

srst(p, new, event) == IF igmpLink.compat # "v3" THEN p ELSE srsfst(p, new, event)

st(p) ==
    LET r == pico_igmp_generate_report(p, NotListening, "QUERY") IN
    IF r = "fail" THEN p ELSE Started(p, r)

stcl(p) ==
    IF p.timer.tree = "none" THEN p
    ELSE [p EXCEPT !.timer = pico_igmp_timer_stop(@), !.state = "IDLE_MEMBER"]

(* The frame itself is sent: the pointer to it stays.                      *)
srsf(p) ==
    IF p.f = "freed" THEN [p EXCEPT !.state = "crash"]
    ELSE [p EXCEPT !.state = "IDLE_MEMBER", !.f = "freed"]

rtimrtct(p) == p

discard(p) == IF p.f = "none" THEN p ELSE [p EXCEPT !.f = "freed"]

host_membership_diagram_table(p, new, event) ==
    CASE p.state = "NON_MEMBER" ->
           IF event \in {"CREATE", "UPDATE"} THEN srsfst(p, new, event) ELSE discard(p)
      [] p.state = "DELAYING_MEMBER" ->
          (CASE event = "DELETE" -> stslifs(p, new)
             [] event \in {"CREATE", "UPDATE"} -> mrsrrt(p)
             [] event = "QUERY" -> rtimrtct(p)
             [] event = "REPORT" -> stcl(p)
             [] event = "TIMER" -> srsf(p))
      [] p.state = "IDLE_MEMBER" ->
          (CASE event = "DELETE" -> slifs(p, new)
             [] event \in {"CREATE", "UPDATE"} -> srst(p, new, event)
             [] event = "QUERY" -> st(p)
             [] event \in {"REPORT", "TIMER"} -> discard(p))

(* An event of a group without parameters is refused, a CREATE makes them. *)
pico_igmp_state_change(p, new, event) ==
    IF p.state # "none" THEN host_membership_diagram_table(p, new, event)
    ELSE IF event = "CREATE"
         THEN host_membership_diagram_table([p EXCEPT !.state = "NON_MEMBER"], new, event)
         ELSE p

-----------------------------------------------------------------------------
(* The link: the routers are told first, then the filter is replaced.      *)

mcast_group_update(p, new) == [p EXCEPT !.filter = new]

pico_ipv4_mcast_join(p, count, new) ==
    IF p.filter.mode # "none"
    THEN mcast_group_update(
           pico_igmp_state_change([p EXCEPT !.refs = @ + count], new, "UPDATE"), new)
    ELSE mcast_group_update(
           pico_igmp_state_change(
             [p EXCEPT !.refs = 1, !.filter = [mode |-> "INCLUDE", src |-> {}]], new, "CREATE"), new)

pico_ipv4_mcast_leave(p, count, new) ==
    IF p.filter.mode = "none" THEN p
    ELSE IF count = 1 /\ p.refs = 1
    THEN [pico_igmp_state_change([p EXCEPT !.refs = 0], new, "DELETE") EXCEPT !.filter = NotListening]
    ELSE mcast_group_update(
           pico_igmp_state_change([p EXCEPT !.refs = @ - count], new, "UPDATE"), new)

-----------------------------------------------------------------------------
(* The options of a socket.                                                *)

Asks(p, s, mode, src) == [p EXCEPT !.listen[s] = [mode |-> mode, src |-> src]]
Join(p, count) == pico_ipv4_mcast_join(p, count, pico_socket_aggregate_mcastfilters(p.listen))
Leave(p, count) == pico_ipv4_mcast_leave(p, count, pico_socket_aggregate_mcastfilters(p.listen))

(* The parameters of one group after a step.                               *)
Becomes(g, p) ==
    /\ ~igmpLink.crashed
    /\ IF p.state = "crash"
       THEN McCrash
       ELSE mcast' = [mcast EXCEPT ![g] = p] /\ UNCHANGED igmpLink

mcast_so_addm(g, s) ==
    /\ mcast[g].listen[s].mode = "none"
    /\ Becomes(g, Join(Asks(mcast[g], s, "EXCLUDE", {}), 1))

mcast_so_dropm(g, s) ==
    /\ mcast[g].listen[s].mode # "none"
    /\ Becomes(g, Leave(Asks(mcast[g], s, "none", {}), 1))

mcast_so_block_src(g, s, src) ==
    LET l == mcast[g].listen[s] IN
    /\ l.mode = "EXCLUDE" /\ src \notin l.src
    /\ Becomes(g, Join(Asks(mcast[g], s, "EXCLUDE", l.src \union {src}), 0))

mcast_so_unblock_src(g, s, src) ==
    LET l == mcast[g].listen[s] IN
    /\ l.mode = "EXCLUDE" /\ src \in l.src
    /\ Becomes(g, Leave(Asks(mcast[g], s, "EXCLUDE", l.src \ {src}), 0))

mcast_so_addsrcm(g, s, src) ==
    LET l == mcast[g].listen[s] IN
    /\ l.mode # "EXCLUDE" /\ src \notin l.src
    /\ Becomes(g, Join(Asks(mcast[g], s, "INCLUDE", l.src \union {src}),
                       IF l.mode = "none" THEN 1 ELSE 0))

mcast_so_dropsrcm(g, s, src) ==
    LET l == mcast[g].listen[s]
        rest == l.src \ {src}
    IN
    /\ l.mode = "INCLUDE" /\ src \in l.src
    /\ Becomes(g, Leave(Asks(mcast[g], s, IF rest = {} THEN "none" ELSE "INCLUDE", rest),
                        IF rest = {} THEN 1 ELSE 0))

(* A socket that is closed leaves all its groups.                          *)
pico_multicast_delete(s) ==
    LET left == [g \in DOMAIN mcast |-> IF mcast[g].listen[s].mode = "none" THEN mcast[g]
                                        ELSE Leave(Asks(mcast[g], s, "none", {}), 1)]
    IN
    /\ \E g \in McGroups : mcast[g].listen[s].mode # "none"
    /\ ~igmpLink.crashed
    /\ IF \E g \in McGroups : left[g].state = "crash"
       THEN McCrash
       ELSE mcast' = left /\ UNCHANGED igmpLink

-----------------------------------------------------------------------------
(* A packet comes in.  The parameters of its group hold the frame before   *)
(* it is known whether the packet is accepted.                             *)

pico_igmp_analyse_packet(g) ==
    IF mcast[g].state = "none" THEN [mcast[g] EXCEPT !.state = "NON_MEMBER", !.f = "packet"]
                               ELSE [mcast[g] EXCEPT !.f = "packet"]

(* A packet of 12 bytes or more, while no IGMPv2 querier is there.         *)
Igmpv3Packet(g, event) ==
    LET p == pico_igmp_analyse_packet(g) IN
    /\ igmpLink.querier.tree = "none" /\ ~igmpLink.crashed
    /\ mcast[g].state # "none" \/ g = General
    /\ mcast' = IF g = General /\ event = "QUERY"
                THEN [h \in DOMAIN mcast |->
                        IF h = g THEN host_membership_diagram_table(p, NotListening, "QUERY")
                        ELSE IF mcast[h].state = "none" THEN mcast[h]
                        ELSE host_membership_diagram_table(mcast[h], NotListening, "QUERY")]
                ELSE [mcast EXCEPT ![g] = host_membership_diagram_table(p, NotListening, event)]
    /\ igmpLink' = [igmpLink EXCEPT !.compat = "v3"]

(* A packet that is refused after it was analysed: of IGMPv1, of another   *)
(* length, or of IGMPv3 while an IGMPv2 querier is there.  The frame is    *)
(* freed and the parameters keep it.                                       *)
RefusedPacket(g) ==
    /\ ~igmpLink.crashed /\ igmpLink.mixed < McMixed
    /\ mcast[g].state # "none" \/ g = General
    /\ mcast' = [mcast EXCEPT ![g] = [pico_igmp_analyse_packet(g) EXCEPT !.f = "freed"]]
    /\ igmpLink' = [igmpLink EXCEPT !.mixed = @ + 1]

(* A packet of 8 bytes with a response time is an IGMPv2 query, also when  *)
(* it is a report: all timers are dropped, and the group reports as if it  *)
(* had just been joined.                                                   *)
pico_igmp_compatibility_mode(g) ==
    LET dropped == [h \in DOMAIN mcast |-> [mcast[h] EXCEPT !.timer = Dropped(@)]]
        p == [pico_igmp_analyse_packet(g) EXCEPT !.timer = Dropped(@)]
    IN
    /\ ~igmpLink.crashed /\ igmpLink.mixed < McMixed
    /\ mcast[g].state # "none" \/ g = General
    /\ \A h \in DOMAIN mcast : mcast[h].timer.own + mcast[h].timer.old <= McTimers
    /\ igmpLink.querier.old < McTimers
    /\ mcast' = [dropped EXCEPT ![g] = Started(p, "v2")]
    /\ igmpLink' = [igmpLink EXCEPT !.compat = "v2", !.mixed = @ + 1,
                        !.querier = pico_igmp_timer_start(Dropped(@))]

-----------------------------------------------------------------------------
(* A pico_timer fires with a pointer to an object; the object in the tree  *)
(* with its key need not be the same.                                      *)

TimerEnds(g, t) ==
    LET p == [mcast[g] EXCEPT !.timer = t] IN
    Becomes(g, IF p.state = "none" THEN p
               ELSE host_membership_diagram_table(p, NotListening, "TIMER"))

pico_igmp_timer_expired(g) ==
    LET t == mcast[g].timer IN
    \/ /\ t.own > 0 /\ t.tree = "stopped"
       /\ Becomes(g, [mcast[g] EXCEPT !.timer = FreedWith(t, t.own - 1)])
    \/ t.own > 0 /\ t.tree = "running" /\ TimerEnds(g, FreedWith(t, t.own - 1))
    \/ /\ t.old > 0 /\ t.tree = "none"
       /\ Becomes(g, [mcast[g] EXCEPT !.timer.old = @ - 1])
    \/ /\ t.old > 0 /\ t.tree = "stopped"
       /\ Becomes(g, [mcast[g] EXCEPT !.timer = Dropped([t EXCEPT !.old = @ - 1])])
    \/ /\ t.old > 0 /\ t.tree = "running"
       /\ \/ TimerEnds(g, [FreedWith(t, t.own) EXCEPT !.old = @ - 1])
          \/ t.own <= McTimers /\ Becomes(g, [mcast[g] EXCEPT !.timer.old = @ - 1, !.timer.own = @ + 1])
    \/ t.freed > 0 /\ Becomes(g, [mcast[g] EXCEPT !.state = "crash"])

(* The querier timer: the link falls back to IGMPv3 and every timer is     *)
(* dropped once more.                                                      *)
pico_igmp_v2querier_expired(q) ==
    /\ \A h \in DOMAIN mcast : mcast[h].timer.own + mcast[h].timer.old <= McTimers
    /\ mcast' = [h \in DOMAIN mcast |-> [mcast[h] EXCEPT !.timer = Dropped(@)]]
    /\ igmpLink' = [igmpLink EXCEPT !.compat = "v3", !.querier = q]

QuerierTimer ==
    LET q == igmpLink.querier IN
    /\ ~igmpLink.crashed
    /\ \/ q.own > 0 /\ pico_igmp_v2querier_expired(FreedWith(q, q.own - 1))
       \/ /\ q.old > 0 /\ q.tree = "running"
          /\ pico_igmp_v2querier_expired([FreedWith(q, q.own) EXCEPT !.old = @ - 1])
       \/ /\ q.old > 0 /\ (q.tree = "none" \/ q.own <= McTimers)
          /\ igmpLink' = [igmpLink EXCEPT !.querier.old = @ - 1,
                              !.querier.own = IF q.tree = "none" THEN @ ELSE @ + 1]
          /\ UNCHANGED mcast
       \/ q.freed > 0 /\ McCrash

McOption(g, s) ==
    \/ mcast_so_addm(g, s) \/ mcast_so_dropm(g, s)
    \/ \E src \in McSources :
         \/ mcast_so_block_src(g, s, src) \/ mcast_so_unblock_src(g, s, src)
         \/ mcast_so_addsrcm(g, s, src) \/ mcast_so_dropsrcm(g, s, src)

McNext ==
    \/ \E s \in 1..McSockets : pico_multicast_delete(s) \/ \E g \in McGroups : McOption(g, s)
    \/ \E g \in DOMAIN mcast :
         \/ \E event \in {"QUERY", "REPORT"} : Igmpv3Packet(g, event)
         \/ RefusedPacket(g) \/ pico_igmp_compatibility_mode(g) \/ pico_igmp_timer_expired(g)
    \/ QuerierTimer
McSpec == McInit /\ [][McNext]_mcastVars

-----------------------------------------------------------------------------
(* Type invariant of the membership.                                       *)
McTypeOK ==
    \A g \in DOMAIN mcast :
        /\ mcast[g].refs \in 0..McSockets
        /\ mcast[g].filter.mode \in {"none", "INCLUDE", "EXCLUDE"}
        /\ mcast[g].filter.src \subseteq McSources
        /\ mcast[g].state \in {"none", "NON_MEMBER", "DELAYING_MEMBER", "IDLE_MEMBER"}
        /\ mcast[g].timer \in [tree : {"none", "running", "stopped"}, own : Nat, old : Nat, freed : Nat]

(* The link is a member of exactly the groups its sockets ask for, the     *)
(* count is the number of those sockets whatever options each of them has  *)
(* used, and, with IGMPv3 alone on the link, the routers are told of those *)
(* groups and no others.  When the sockets of a group filter in the same   *)
(* mode, the link lets through what one of them lets through; when one     *)
(* includes a source that another one does not exclude, it may not         *)
(* (pico_mcast_filter_incl_excl).                                          *)
McMembership ==
    McTypeOK /\ \A g \in McGroups :
        LET asking == {s \in 1..McSockets : mcast[g].listen[s].mode # "none"} IN
        /\ mcast[g].refs = Cardinality(asking)
        /\ (mcast[g].filter.mode = "none") = (asking = {})
        /\ igmpLink.mixed = 0 => (mcast[g].state = "none") = (asking = {})
        /\ Cardinality({mcast[g].listen[s].mode : s \in asking}) = 1 =>
             \A s \in asking, src \in McSources :
                 pico_socket_mcast_filter(g, s, src) => pico_ipv4_mcast_filter(g, src)

(* With IGMPv3 alone on the link, a group that owes a report has a timer   *)
(* that is going to send it, one timer only, and no timer points to an     *)
(* object that was freed.                                                  *)
McReportsAhead ==
    igmpLink.mixed = 0 =>
        /\ ~igmpLink.crashed
        /\ \A g \in DOMAIN mcast :
             LET t == mcast[g].timer IN
             /\ t.old = 0 /\ t.freed = 0 /\ t.own = (IF t.tree = "none" THEN 0 ELSE 1)
             /\ mcast[g].state = "DELAYING_MEMBER" => t.tree = "running"
=============================================================================
