-------------------------------- MODULE Mdns --------------------------------
(***************************************************************************)
(* The mDNS responder and querier (modules/pico_mdns.c): the records of    *)
(* this host and how they are probed, announced, contested and renamed;    *)
(* the cookies (one per probing, announcing or asking session) with their  *)
(* timers; and the cache.                                                  *)
(*                                                                         *)
(* A name is a base name and the number of its conflict suffix; a record   *)
(* is found by name and type, whatever its data.  flags holds what         *)
(* MyRecords knows of a record; Absent stands for no record.  Claim ids    *)
(* and callbacks are left out: a callback is told, and changes nothing.    *)
(*                                                                         *)
(* A send timer is the number of one-second ticks it can still see before  *)
(* it must fire.  It is kept apart from its cookie, because freeing the    *)
(* cookie does not stop it.  The comparison of cookies looks at the        *)
(* questions, and pico_mdns_cookie_del_questions changes those of a cookie *)
(* that is in the tree: the search that follows may find another cookie,   *)
(* which is then freed (Mistaken), or none.  After such a step the tree is *)
(* out of order (broken), what is found later depends on its shape, and    *)
(* the model stops.                                                        *)
(***************************************************************************)
EXTENDS Integers, FiniteSets

CONSTANTS
    MdnsOwn,         \* records applications claim: [name, type, shared]
    MdnsClaims,      \* the sets of them that are claimed in one call
    MdnsHostname,    \* the record pico_mdns_init claims
    MdnsPeers,       \* names of others that are asked for
    MdnsData,        \* data a peer's record can have
    MdnsTtl,         \* the longest time to live a peer gives, in seconds
    ProbeCount,      \* PICO_MDNS_PROBE_COUNT: 3
    AnnounceCount,   \* PICO_MDNS_ANNOUNCEMENT_COUNT: 3
    CookieTimeout,   \* PICO_MDNS_COOKIE_TIMEOUT: 10
    MdnsSuffixes,    \* the last suffix that fits in a name
    MdnsCookies,     \* cookies there is memory for
    MdnsContests     \* bound: tiebreaks that a peer wins

(* Announcements are 1, 2, 4 ... seconds apart: 1 << n (3124).             *)
Shifted[n \in 0 .. AnnounceCount] == IF n = 0 THEN 1 ELSE 2 * Shifted[n - 1]

(* A cookie is done with its timers before it times out: probes are at     *)
(* most a tick apart.                                                      *)
ASSUME MdnsAssumption ==
    /\ MdnsOwn \subseteq [name : STRING, type : STRING, shared : BOOLEAN]
    /\ MdnsClaims \subseteq SUBSET MdnsOwn /\ MdnsHostname \in MdnsOwn
    /\ ~MdnsHostname.shared /\ MdnsTtl \in Nat \ {0}
    /\ ProbeCount \in Nat \ {0} /\ AnnounceCount \in Nat \ {0} /\ MdnsSuffixes \in Nat \ {0}
    /\ CookieTimeout \in Nat /\ CookieTimeout > ProbeCount + Shifted[AnnounceCount - 1]
    /\ MdnsCookies \in Nat

VARIABLES
    mdns,        \* MyRecords, the cookies and their timers
    mdnsCache,   \* what is left to live of a record in Cache; 0: not in it
    mdnsClock    \* parity of the ticks that have come and the overdue timers that have fired

mdnsVars == <<mdns, mdnsCache, mdnsClock>>

Key(r, n) == [name |-> r.name, type |-> r.type, shared |-> r.shared, suffix |-> n]
Keys == {Key(r, n) : r \in MdnsOwn, n \in 1 .. MdnsSuffixes}
NameOf(k) == <<k.name, k.suffix>>
Absent == {"absent"}
Slots == 1 .. MdnsCookies
Off == -1

FreeSlot == [type |-> "FREE", names |-> {}, antree |-> {}, count |-> 0, status |-> "INACTIVE",
             timeout |-> 0, tree |-> FALSE]
Mistaken == [FreeSlot EXCEPT !.type = "MISTAKEN"]    \* freed in the place of another cookie
pico_mdns_cookie_create(type, names, antree, count) ==
    [type |-> type, names |-> names, antree |-> antree, count |-> count, status |-> "INACTIVE",
     timeout |-> CookieTimeout, tree |-> FALSE]

Memory(st) == {s \in Slots : st.cookies[s] = FreeSlot /\ st.timers[s] = Off}
NextSlot(st) == CHOOSE s \in Memory(st) : \A z \in Memory(st) : s <= z
pico_mdns_record_delete(st, ks) ==
    [st EXCEPT !.flags = [k \in Keys |-> IF k \in ks THEN Absent ELSE @[k]]]
pico_mdns_cookie_delete(st, s) == [st EXCEPT !.cookies[s] = FreeSlot]
Held(st) == {k \in Keys : st.flags[k] # Absent}
Named(st, n) == {k \in Held(st) : NameOf(k) = n}
Verified(st, ks) == {k \in ks : "PROBED" \in st.flags[k]}

(* Two cookies are equal when their questions are; a query asks for one    *)
(* type, a probe for any.                                                  *)
pico_mdns_cookie_cmp(c, d) ==
    c.names = d.names /\ (c.names = {} \/ (c.type = "QUERY") = (d.type = "QUERY"))
InTree(st) == {s \in Slots : st.cookies[s].tree}
Inserts(st, c) == \A s \in InTree(st) : ~pico_mdns_cookie_cmp(st.cookies[s], c)

(* pico_tree_delete(&Cookies, cookie): the cookie that compares equal goes, *)
(* which is another one if this one never was in the tree.                 *)
TreeDelete(st, c) ==
    [st EXCEPT !.cookies = [s \in Slots |->
        IF @[s].tree /\ pico_mdns_cookie_cmp(@[s], c) THEN [@[s] EXCEPT !.tree = FALSE] ELSE @[s]]]

-----------------------------------------------------------------------------
(* Claiming.                                                               *)

SetFlags(st, ks, clear, set) ==
    [st EXCEPT !.flags = [k \in Keys |-> IF k \in ks THEN (@[k] \ clear) \union set ELSE @[k]]]

(* The first answer with a service puts the DNS-SD meta record in          *)
(* MyRecords; a later one finds it there, and nothing is sent.             *)
pico_mdns_gather_service_meta(st) == [st EXCEPT !.meta = TRUE]
pico_mdns_gather_additionals(st, antree) ==
    IF \E k \in antree : k.type = "SRV" THEN pico_mdns_gather_service_meta(st) ELSE st
pico_mdns_reply(st, antree) == pico_mdns_gather_additionals(st, antree)

(* Nothing happens when the timer cannot be started.                       *)
pico_mdns_timer_add(st, s, ticks, ok) == [st EXCEPT !.timers[s] = IF ok THEN ticks ELSE Off]

pico_mdns_my_records_claimed(st, antree) ==
    SetFlags(st, antree \intersect Held(st), {}, {"CLAIMED"})

Announced(st, s, ok) ==
    IF st.cookies[s].count = 0
    THEN pico_mdns_cookie_delete(
             TreeDelete(pico_mdns_my_records_claimed(st, st.cookies[s].antree), st.cookies[s]), s)
    ELSE pico_mdns_timer_add(st, s, Shifted[AnnounceCount - st.cookies[s].count - 1], ok)

(* The count is never 0 here.                                              *)
pico_mdns_send_announcement_packet(st, s, ok) ==
    Announced(pico_mdns_reply([st EXCEPT !.cookies[s].status = "ACTIVE", !.cookies[s].count = @ - 1],
                              st.cookies[s].antree), s, ok)

pico_mdns_my_records_find_probed(st) ==
    {k \in Verified(st, Held(st)) : "CLAIMED" \notin st.flags[k]}

Announce(st, antree, ok) ==
    IF antree = {} \/ Memory(st) = {} THEN st
    ELSE pico_mdns_send_announcement_packet(
             [st EXCEPT !.cookies[NextSlot(st)] =
                 pico_mdns_cookie_create("ANNOUNCEMENT", {}, antree, AnnounceCount)],
             NextSlot(st), ok)
pico_mdns_announce(st, ok) == Announce(st, pico_mdns_my_records_find_probed(st), ok)

pico_mdns_my_records_find_to_probe(st) ==
    {k \in Held(st) : ~k.shared /\ st.flags[k] \intersect {"PROBED", "PROBING"} = {}}

(* A cookie with the same questions as another is refused; the records     *)
(* stay marked as being probed, as they do when there is no memory.        *)
Probe(st, cookie, ok) ==
    IF Memory(st) # {} /\ Inserts(st, cookie) /\ ok
    THEN pico_mdns_timer_add([st EXCEPT !.cookies[NextSlot(st)] = [cookie EXCEPT !.tree = TRUE]],
                             NextSlot(st), 1, TRUE)
    ELSE st
pico_mdns_add_probe_question(antree) == {NameOf(k) : k \in antree}
ProbeThese(st, antree, ok) ==
    Probe(SetFlags(st, antree, {}, {"PROBING"}),
          pico_mdns_cookie_create("PROBE", pico_mdns_add_probe_question(antree), antree, ProbeCount),
          ok)
pico_mdns_probe(st, ok) == ProbeThese(st, pico_mdns_my_records_find_to_probe(st), ok)

(* new gives the flags of the records that are added.                      *)
pico_mdns_my_records_add(st, new) ==
    [st EXCEPT !.flags = [k \in Keys |->
        IF k \in DOMAIN new /\ @[k] = Absent
        THEN new[k] \union (IF k.shared THEN {"PROBED"} ELSE {})
        ELSE @[k]]]

(* ok: whether timers can be started.                                      *)
pico_mdns_claim_generic(st, new, ok) ==
    pico_mdns_announce(pico_mdns_probe(pico_mdns_my_records_add(st, new), ok), ok)

-----------------------------------------------------------------------------
(* Conflicts.                                                              *)

(* The new name has the next suffix, if it is not too long.                *)
pico_mdns_resolve_name_conflict(n) == n[2] < MdnsSuffixes
Renamed(k) == [k EXCEPT !.suffix = @ + 1]

(* What pico_tree_delete(&Cookies, cookie) finds when the questions of the *)
(* cookie s have changed: the cookie itself if it is alone in the tree;    *)
(* otherwise, depending on the names and on the shape of the tree, the     *)
(* cookie, nothing (0), or another that has no questions either.           *)
FindsChanged(st, s, n) ==
    IF InTree(st) = {s} THEN {s}
    ELSE {s, 0} \union {z \in InTree(st) \ {s} : st.cookies[s].names = {n} /\ st.cookies[z].names = {}}

RemoveQuestions(st, s, n, z) ==
    [st EXCEPT !.cookies[s].names = @ \ {n}, !.cookies[s].antree = {}, !.broken = z # s]
FreeFound(st, s, z) ==
    IF z = s THEN pico_mdns_cookie_delete(st, s)
    ELSE IF z = 0 THEN st ELSE [st EXCEPT !.cookies[z] = Mistaken]

(* Mutant of pico_mdns_cookie_del_questions: the timer goes on.            *)
ForgetsTimer(st, s, n, z) ==
    IF st.cookies[s].names = {n} THEN FreeFound(RemoveQuestions(st, s, n, z), s, z)
    ELSE RemoveQuestions(st, s, n, z)

(* Without questions the cookie is deleted: its timer is cancelled, and    *)
(* what the search finds is freed, with a timer of its own pending or not. *)
pico_mdns_cookie_del_questions(st, s, n, z) ==
    IF st.cookies[s].names = {n}
    THEN FreeFound([RemoveQuestions(st, s, n, z) EXCEPT !.timers[s] = Off], s, z)
    ELSE RemoveQuestions(st, s, n, z)

(* Copies of the cookie's records, under the new name and without the      *)
(* flags of the probing.                                                   *)
pico_mdns_generate_new_records(antree, n) ==
    [k \in {Renamed(k) : k \in {a \in antree : NameOf(a) = n}} |-> {}]

pico_mdns_cookie_resolve_conflict(st, s, n, z, ok) ==
    IF ~pico_mdns_resolve_name_conflict(n) THEN pico_mdns_cookie_del_questions(st, s, n, z)
    ELSE pico_mdns_claim_generic(
             pico_mdns_record_delete(pico_mdns_cookie_del_questions(st, s, n, z), Named(st, n)),
             pico_mdns_generate_new_records(st.cookies[s].antree, n), ok)

(* The copy keeps the flags of the record.                                 *)
pico_mdns_record_resolve_conflict(st, k, ok) ==
    IF k.shared \/ ~pico_mdns_resolve_name_conflict(NameOf(k)) THEN st
    ELSE pico_mdns_claim_generic(pico_mdns_record_delete(st, {k}),
                                 [r \in {Renamed(k)} |-> st.flags[k]], ok)

(* pico_mdns_ctree_find_cookie; a cookie that asks for a name of MdnsPeers *)
(* is a query, any other a probe or what became of one.                    *)
pico_mdns_ctree_find_cookie(st, n) == {s \in InTree(st) : n \in st.cookies[s].names}

(* handle_cookie_with_answer and handle_single_answer, for a record with   *)
(* the name and type of one this host may hold.                            *)
Contested(st, k, s) ==
    s # 0 /\ st.cookies[s].type = "PROBE" /\ st.cookies[s].status = "ACTIVE"
pico_mdns_handle_single_answer(st, k, s, z, ok) ==
    IF Contested(st, k, s) THEN pico_mdns_cookie_resolve_conflict(st, s, NameOf(k), z, ok)
    ELSE IF k \in Held(st) /\ "PROBING" \notin st.flags[k]
    THEN pico_mdns_record_resolve_conflict(st, k, ok)
    ELSE st

Found(st, n) == IF pico_mdns_ctree_find_cookie(st, n) = {} THEN {0} ELSE pico_mdns_ctree_find_cookie(st, n)

(* Mutant of pico_mdns_cookie_apply_spt: the cookie is not given its time  *)
(* again.                                                                  *)
KeepsTimeout(st, s, k, later, ok) ==
    IF k \notin Held(st) \/ "PROBING" \notin st.flags[k]
    THEN [st EXCEPT !.cookies[s].status = "INACTIVE"]
    ELSE IF later THEN st
    ELSE pico_mdns_timer_add(
             [st EXCEPT !.cookies[s].status = "INACTIVE", !.cookies[s].count = ProbeCount,
                        !.contests = @ + 1], s, 1, ok)

(* Simultaneous probe tiebreaking: later says that our data is.            *)
pico_mdns_record_am_i_lexi_later == BOOLEAN
pico_mdns_cookie_apply_spt(st, s, k, later, ok) ==
    IF k \notin Held(st) \/ "PROBING" \notin st.flags[k]
    THEN [st EXCEPT !.cookies[s].status = "INACTIVE"]
    ELSE IF later THEN st
    ELSE pico_mdns_timer_add(
             [st EXCEPT !.cookies[s].status = "INACTIVE", !.cookies[s].count = ProbeCount,
                        !.cookies[s].timeout = CookieTimeout, !.contests = @ + 1], s, 1, ok)

pico_mdns_handle_single_authority(st, k, s, later, ok) ==
    IF s # 0 /\ st.cookies[s].type = "PROBE" /\ st.cookies[s].status = "ACTIVE"
    THEN pico_mdns_cookie_apply_spt(st, s, k, later, ok)
    ELSE st

-----------------------------------------------------------------------------
(* The cache.                                                              *)

(* An answer for a name of MdnsPeers.  Other answers are cached too, but   *)
(* are never asked for.                                                    *)
pico_mdns_cache_update_ttl(cache, e, ttl) == [cache EXCEPT ![e] = IF ttl > 0 THEN ttl ELSE 1]
pico_mdns_cache_flush_name(cache, n) ==
    [e \in DOMAIN cache |-> IF e[1] = n THEN 0 ELSE cache[e]]
pico_mdns_cache_add(cache, e, ttl, flush) ==
    [IF flush THEN pico_mdns_cache_flush_name(cache, e[1]) ELSE cache EXCEPT ![e] = ttl]
pico_mdns_cache_add_record(cache, e, ttl, flush) ==
    IF cache[e] > 0 THEN pico_mdns_cache_update_ttl(cache, e, ttl)
    ELSE pico_mdns_cache_add(cache, e, ttl, flush)
pico_mdns_cache_check_expiries(cache) ==
    [e \in DOMAIN cache |-> IF cache[e] = 0 THEN 0 ELSE cache[e] - 1]

(* A query has its name as its question, told apart from the names of      *)
(* MdnsOwn by its suffix.                                                  *)
Question(n) == <<n, 0>>

-----------------------------------------------------------------------------
(* Steps.                                                                  *)

Fresh ==
    [flags |-> [k \in Keys |-> Absent], cookies |-> [s \in Slots |-> FreeSlot],
     timers |-> [s \in Slots |-> Off], meta |-> FALSE, contests |-> 0, socket |-> FALSE,
     broken |-> FALSE]

MdnsInit ==
    /\ mdns = Fresh
    /\ mdnsCache = [e \in MdnsPeers \X MdnsData |-> 0]
    /\ mdnsClock = 0

Works == mdns.socket /\ ~mdns.broken

(* pico_mdns_cleanup forgets everything and cancels every timer.           *)
pico_mdns_cleanup == Fresh
NewRecords(rs) == [k \in {Key(r, 1) : r \in rs} |-> {}]
pico_mdns_tryclaim_hostname(st, ok) == pico_mdns_claim_generic(st, NewRecords({MdnsHostname}), ok)
Initialised ==
    {pico_mdns_tryclaim_hostname([pico_mdns_cleanup EXCEPT !.socket = TRUE], ok) : ok \in BOOLEAN}
pico_mdns_init ==
    /\ ~mdns.broken
    /\ mdns' \in Initialised
    /\ mdnsCache' = [e \in DOMAIN mdnsCache |-> 0]
    /\ UNCHANGED mdnsClock

(* An application does not claim what it holds.                            *)
pico_mdns_claim(rs) ==
    /\ Works /\ \A r \in rs : Key(r, 1) \notin Held(mdns)
    /\ \E ok \in BOOLEAN : mdns' = pico_mdns_claim_generic(mdns, NewRecords(rs), ok)
    /\ UNCHANGED <<mdnsCache, mdnsClock>>

Query(n) == [pico_mdns_cookie_create("QUERY", {Question(n)}, {}, 1) EXCEPT !.tree = TRUE]
pico_mdns_getrecord_generic(st, n) ==
    pico_mdns_timer_add([st EXCEPT !.cookies[NextSlot(st)] = Query(n)], NextSlot(st), 1, TRUE)
pico_mdns_getrecord(n) ==
    /\ Works /\ \A d \in MdnsData : mdnsCache[<<n, d>>] = 0
    /\ Memory(mdns) # {} /\ Inserts(mdns, Query(n))
    /\ mdns' = pico_mdns_getrecord_generic(mdns, n)
    /\ UNCHANGED <<mdnsCache, mdnsClock>>

Fire(s) == /\ Works /\ mdns.timers[s] # Off
           /\ mdnsClock' = IF mdns.timers[s] = 0 THEN 1 - mdnsClock ELSE mdnsClock
           /\ UNCHANGED mdnsCache
AfterTimer(s) == [mdns EXCEPT !.timers[s] = Off]

(* A query that was cancelled before it was sent is dropped, and nobody is *)
(* told.                                                                   *)
pico_mdns_send_query_packet(s) ==
    /\ Fire(s) /\ mdns.cookies[s].type = "QUERY"
    /\ mdns' = IF mdns.cookies[s].status # "CANCELLED"
               THEN [AfterTimer(s) EXCEPT !.cookies[s].status = "ACTIVE"]
               ELSE pico_mdns_cookie_delete(TreeDelete(AfterTimer(s), mdns.cookies[s]), s)

pico_mdns_my_records_probed(st, antree) ==
    SetFlags(st, antree \intersect Held(st), {"PROBING"}, {"PROBED"})

(* A probe that cannot be sent is not followed by another.                 *)
ProbeStep(st, s, ok) ==
    IF st.cookies[s].count > 0
    THEN pico_mdns_timer_add(
             [st EXCEPT !.cookies[s].count = @ - 1, !.cookies[s].status = "ACTIVE"], s, 1, ok)
    ELSE pico_mdns_send_announcement_packet(
             [pico_mdns_my_records_probed(st, st.cookies[s].antree) EXCEPT
                 !.cookies[s].count = AnnounceCount, !.cookies[s].type = "ANNOUNCEMENT"], s, ok)
pico_mdns_send_probe_packet(s) ==
    /\ Fire(s) /\ mdns.cookies[s].type = "PROBE"
    /\ \E ok \in BOOLEAN : mdns' = ProbeStep(AfterTimer(s), s, ok)

MdnsAnnouncementTimer(s) ==
    /\ Fire(s) /\ mdns.cookies[s].type = "ANNOUNCEMENT"
    /\ \E ok \in BOOLEAN : mdns' = pico_mdns_send_announcement_packet(AfterTimer(s), s, ok)

OneSecondLess(c) == [c EXCEPT !.timeout = @ - 1]

(* Mutant of pico_mdns_cookies_check_timeouts: sessions that are active    *)
(* are left alone.                                                         *)
SparesActive(st) ==
    [st EXCEPT !.cookies = [s \in Slots |->
        IF ~@[s].tree \/ @[s].status = "ACTIVE" THEN @[s]
        ELSE IF @[s].timeout = 1 THEN FreeSlot
        ELSE OneSecondLess(@[s])]]

(* The send timer of a cookie that times out is not cancelled.             *)
pico_mdns_cookies_check_timeouts(st) ==
    [st EXCEPT !.cookies = [s \in Slots |->
        IF ~@[s].tree THEN @[s]
        ELSE IF @[s].timeout = 1 THEN FreeSlot
        ELSE OneSecondLess(@[s])]]

(* No timer may be overdue.  The tick is taken to be able to start the     *)
(* next one.                                                               *)
MdnsTicks == Works /\ \A s \in Slots : mdns.timers[s] # 0
pico_mdns_tick ==
    /\ MdnsTicks
    /\ mdns' = [pico_mdns_cookies_check_timeouts(mdns) EXCEPT
                   !.timers = [s \in Slots |-> IF @[s] = Off THEN Off ELSE @[s] - 1]]
    /\ mdnsCache' = pico_mdns_cache_check_expiries(mdnsCache)
    /\ mdnsClock' = 1 - mdnsClock

(* A question for a name we ask for ourselves cancels our query.           *)
pico_mdns_handle_single_question(st, n) ==
    [st EXCEPT !.cookies = [s \in Slots |->
        IF s \in pico_mdns_ctree_find_cookie(st, n) /\ @[s].type = "QUERY"
        THEN [@[s] EXCEPT !.status = "CANCELLED"] ELSE @[s]]]
pico_mdns_populate_antree(st, n) == Verified(st, Named(st, n))

(* Known answers are left out; what is left may be nothing.                *)
pico_mdns_apply_k_a_s(antree) == SUBSET antree
pico_mdns_handle_query_packet ==
    /\ Works
    /\ \/ \E n \in MdnsPeers : mdns' = pico_mdns_handle_single_question(mdns, Question(n))
       \/ \E k \in Keys :
          \E antree \in pico_mdns_apply_k_a_s(pico_mdns_populate_antree(mdns, NameOf(k))) :
            mdns' = pico_mdns_reply(mdns, antree)
    /\ UNCHANGED <<mdnsCache, mdnsClock>>

pico_mdns_handle_probe_packet ==
    /\ Works /\ mdns.contests < MdnsContests
    /\ \E k \in Keys : \E s \in Found(mdns, NameOf(k)), later \in pico_mdns_record_am_i_lexi_later,
                     ok \in BOOLEAN :
         mdns' = pico_mdns_reply(pico_mdns_handle_single_authority(mdns, k, s, later, ok),
                                 pico_mdns_populate_antree(mdns, NameOf(k)))
    /\ UNCHANGED <<mdnsCache, mdnsClock>>

pico_mdns_handle_data_as_answers(k, s) ==
    \E ok \in BOOLEAN, z \in (IF Contested(mdns, k, s) THEN FindsChanged(mdns, s, NameOf(k)) ELSE {s}) :
        mdns' = pico_mdns_handle_single_answer(mdns, k, s, z, ok)
pico_mdns_handle_response_packet ==
    /\ Works
    /\ \/ \E e \in MdnsPeers \X MdnsData, ttl \in 0 .. MdnsTtl, flush \in BOOLEAN :
            /\ mdnsCache' = pico_mdns_cache_add_record(mdnsCache, e, ttl, flush)
            /\ UNCHANGED mdns
       \/ /\ \E k \in Keys : \E s \in Found(mdns, NameOf(k)) :
               pico_mdns_handle_data_as_answers(k, s)
          /\ UNCHANGED mdnsCache
    /\ UNCHANGED mdnsClock

(* Packets with one question, authority or answer each: those of a longer  *)
(* packet are handled one after the other.                                 *)
pico_mdns_recv ==
    \/ pico_mdns_handle_query_packet \/ pico_mdns_handle_probe_packet
    \/ pico_mdns_handle_response_packet

MdnsNext ==
    \/ pico_mdns_init \/ pico_mdns_tick
    \/ \E rs \in MdnsClaims : pico_mdns_claim(rs)
    \/ \E n \in MdnsPeers : pico_mdns_getrecord(n)
    \/ \E s \in Slots : \/ pico_mdns_send_query_packet(s) \/ pico_mdns_send_probe_packet(s)
                        \/ MdnsAnnouncementTimer(s)
    \/ pico_mdns_recv

(* Time passes if pico_stack_tick is called on: the tick comes, or a timer *)
(* that is overdue fires first.                                            *)
MdnsFires == Works /\ mdnsClock' = 1 - mdnsClock
MdnsSpec == MdnsInit /\ [][MdnsNext]_mdnsVars /\ WF_mdnsClock(MdnsFires)

-----------------------------------------------------------------------------
(* Type invariant of the records, the cookies and the cache.               *)
MdnsTypeOK ==
    /\ mdns.flags \in [Keys -> {Absent} \union SUBSET {"PROBING", "PROBED", "CLAIMED"}]
    /\ \A s \in Slots :
         LET c == mdns.cookies[s] IN
         /\ c.type \in {"FREE", "MISTAKEN", "PROBE", "ANNOUNCEMENT", "QUERY"}
         /\ c.antree \subseteq Keys
         /\ c.status \in {"INACTIVE", "ACTIVE", "CANCELLED"}
         /\ c.count \in 0 .. ProbeCount + AnnounceCount /\ c.timeout \in 0 .. CookieTimeout
         /\ mdns.timers[s] \in Off .. Shifted[AnnounceCount]
    /\ mdnsCache \in [MdnsPeers \X MdnsData -> 0 .. MdnsTtl]

(* No send timer outlives its own session: through conflicts, tiebreaks    *)
(* and failures, a session has no timer pending when it ends or is dropped *)
(* after PICO_MDNS_COOKIE_TIMEOUT (1673-1694 frees it without cancelling   *)
(* send_timer).  The one cookie that can be freed with its timer pending   *)
(* is a Mistaken one, freed in the place of a cookie that lost its last    *)
(* question to a conflict (1143-1146).                                     *)
MdnsNoStaleTimer == \A s \in Slots : mdns.timers[s] # Off => mdns.cookies[s] # FreeSlot

(* A session that can be found ends, by itself or by its timeout, as long  *)
(* as the tree of cookies is in order and the module is not initialised    *)
(* again for ever.                                                         *)
MdnsSessionEnds ==
    \/ []<><<pico_mdns_init>>_mdns
    \/ mdns.cookies[1].tree ~> ~mdns.cookies[1].tree \/ mdns.broken

(* "the conflict should be resolved as with a normal cookie, just without  *)
(* the cookie" (796): a unique record is taken as verified only after it   *)
(* was probed, a renamed one under its new name.                           *)
MdnsProbedFirst ==
    [][\A k \in Keys : ~k.shared /\ "PROBED" \in mdns'.flags[k] /\ "PROBED" \notin mdns.flags[k]
                          => "PROBING" \in mdns.flags[k]]_mdns
=============================================================================
