-------------------------------- MODULE Dns ---------------------------------
(***************************************************************************)
(* The DNS client (modules/pico_dns_client.c): the table of name servers,  *)
(* the table of queries and their retransmission timers.                   *)
(*                                                                         *)
(* A timer does not know its query but only the id of it, and is not       *)
(* cancelled when the query is answered: a later query with the same id    *)
(* inherits it.  A response may come from anybody, late, or twice.         *)
(***************************************************************************)
EXTENDS Integers, FiniteSets, Sequences

CONSTANTS
    DnsIds,         \* the values of a query's id: 0 .. 65535
    DnsRequests,    \* the requests of the application that may be open
    DnsServers,     \* name servers, without the default one
    DefaultNs,      \* PICO_DNS_NS_DEFAULT
    MaxRetrans,     \* PICO_DNS_CLIENT_MAX_RETRANS
    DnsTimers       \* bound: pending timers with which a query may still be made

ASSUME DnsAssumption ==
    /\ DefaultNs \notin DnsServers /\ MaxRetrans \in Nat \ {0} /\ DnsTimers \in Nat
    /\ IsFiniteSet(DnsServers) /\ IsFiniteSet(DnsIds)

VARIABLES
    dns,        \* NSTable, DNSTable, the ids of the pending timers, and the requests that are open
    dnsClock    \* parity of the timers that have fired

dnsVars == <<dns, dnsClock>>

NoQuery == [req |-> "none", retrans |-> 0, qtype |-> "none", ns |-> DefaultNs, sent |-> FALSE]

(* pico_dns_client_init                                                    *)
DnsInit ==
    /\ dns = [NSTable |-> {DefaultNs}, DNSTable |-> [i \in DnsIds |-> NoQuery],
              timers |-> <<>>, open |-> {}, twice |-> FALSE]
    /\ dnsClock = 0

Queries(d) == {i \in DnsIds : d.DNSTable[i] # NoQuery}

-----------------------------------------------------------------------------
(* The name servers.                                                       *)

(* Adding one removes the default; a deletion that leaves none brings the  *)
(* default back, if there is memory for it.                                *)
pico_dns_client_del_ns(table, ns, ok) ==
    IF table = {ns} /\ ok THEN {DefaultNs} ELSE table \ {ns}

pico_dns_client_add_ns(table, ns, ok) ==
    IF ns \in table \/ ~ok THEN table
    ELSE IF ns # DefaultNs /\ DefaultNs \in table
         THEN pico_dns_client_del_ns(table \union {ns}, DefaultNs, ok)
    ELSE table \union {ns}

pico_dns_client_nameserver ==
    \E ns \in DnsServers \union {DefaultNs}, ok \in BOOLEAN :
        /\ dns' \in {[dns EXCEPT !.NSTable = pico_dns_client_add_ns(@, ns, ok)],
                     [dns EXCEPT !.NSTable = IF ns \in @ THEN pico_dns_client_del_ns(@, ns, ok)
                                             ELSE @]}
        /\ UNCHANGED dnsClock

(* The tree is ordered by address: the next one is any other, or the first *)
(* one again; a server that was removed stays in use.                      *)
pico_dns_client_next_ns(d, ns) == IF ns \notin d.NSTable THEN {ns} ELSE d.NSTable

-----------------------------------------------------------------------------
(* Queries.                                                                *)

(* The socket is connected, the query sent and its timer started, or one   *)
(* of these fails and nothing will wake the query.                         *)
pico_dns_client_send(d, id, ok) ==
    IF ok THEN [d EXCEPT !.timers = Append(@, id), !.DNSTable[id].sent = TRUE]
    ELSE [d EXCEPT !.DNSTable[id].sent = FALSE]

(* The first server of an empty table is NULL and is read: no query comes  *)
(* of that.                                                                *)
pico_dns_client_add_query(d, req, id, qtype) ==
    {[d EXCEPT !.DNSTable[id] = [req |-> req, retrans |-> 1, qtype |-> qtype, ns |-> ns,
                                 sent |-> FALSE]] : ns \in d.NSTable}

pico_dns_client_del_query(d, id) == [d EXCEPT !.DNSTable[id] = NoQuery]

(* The callback of a request that is not open is one call too many.        *)
Called(d, req) == [d EXCEPT !.open = @ \ {req}, !.twice = @ \/ req \notin d.open]

(* The query is accepted, or not: the id that was drawn is taken (EAGAIN), *)
(* memory or a socket is missing, or it could not be sent.                 *)
pico_dns_client_getaddr_init(d, req, qtype) ==
    {d} \union UNION {{pico_dns_client_send(q, id, TRUE) :
                           q \in pico_dns_client_add_query(d, req, id, qtype)} :
                      id \in IF Len(d.timers) < DnsTimers THEN DnsIds \ Queries(d) ELSE {}}

(* pico_dns_client_getaddr, _getaddr6, _getname and _getname6.             *)
DnsRequest(req) ==
    \E qtype \in {"A", "PTR"} :
        /\ req \notin dns.open
        /\ \E d \in pico_dns_client_getaddr_init(dns, req, qtype) :
               dns' = IF d = dns THEN d ELSE [d EXCEPT !.open = @ \union {req}]
        /\ UNCHANGED dnsClock

-----------------------------------------------------------------------------
(* Responses.                                                              *)

(* The callback is called, with no address if the query has become one for *)
(* a CNAME, and the query goes.  A record with a wrong length is refused,  *)
(* and the query stays.                                                    *)
pico_dns_client_user_callback(id, good) ==
    IF good THEN pico_dns_client_del_query(Called(dns, dns.DNSTable[id].req), id) ELSE dns

(* No record of the type asked for: the type of the query becomes CNAME,   *)
(* for good, and if the response has one a new query is made for it while  *)
(* the old one is still in the table.  That may fail; the old one goes all *)
(* the same.                                                               *)
pico_dns_try_fallback_cname(id, found) ==
    LET q == dns.DNSTable[id]
        c == [dns EXCEPT !.DNSTable[id].qtype = "CNAME"] IN
    IF q.qtype # "A" THEN {dns}
    ELSE IF ~found THEN {c}
    ELSE {pico_dns_client_del_query(d, id) : d \in pico_dns_client_getaddr_init(c, q.req, "A")}

(* pico_dns_client_callback: the response has the id, the name and, in its *)
(* question, the type of a query, which is CNAME after the fallback.       *)
DnsResponse ==
    \E id \in Queries(dns), good \in BOOLEAN :
        /\ \/ dns' = pico_dns_client_user_callback(id, good)
           \/ dns' \in pico_dns_try_fallback_cname(id, good)
        /\ UNCHANGED dnsClock

-----------------------------------------------------------------------------
DnsTicks == dnsClock' = 1 - dnsClock

(* All timers run for PICO_DNS_CLIENT_RETRANS: the oldest fires first.     *)
Fired == [dns EXCEPT !.timers = Tail(@)]

(* Mutants of pico_dns_client_retransmission: the number of attempts is    *)
(* not looked at, or is one more than allowed, and a query that failed is  *)
(* told to the application but not deleted.                                *)
TriesForEver(id) ==
    dns' = IF id \in Queries(dns) THEN [Fired EXCEPT !.timers = Append(@, id)] ELSE Fired

TriesOnceMore(id) ==
    LET d == [Fired EXCEPT !.DNSTable[id].retrans = @ + 1] IN
    dns' = IF id \notin Queries(dns) THEN Fired
           ELSE IF d.DNSTable[id].retrans <= MaxRetrans + 1 THEN pico_dns_client_send(d, id, TRUE)
           ELSE pico_dns_client_del_query(Called(d, d.DNSTable[id].req), id)

KeepsFailed(id) ==
    dns' = IF id \in Queries(dns) THEN Called(Fired, dns.DNSTable[id].req) ELSE Fired

pico_dns_client_retransmission(id) ==
    LET d == [Fired EXCEPT !.DNSTable[id].retrans = @ + 1]
        q == d.DNSTable[id] IN
    IF id \notin Queries(dns) THEN dns' = Fired
    ELSE IF q.retrans <= MaxRetrans
    THEN \E ns \in pico_dns_client_next_ns(d, q.ns), ok \in BOOLEAN :
             dns' = pico_dns_client_send([d EXCEPT !.DNSTable[id].ns = ns], id, ok)
    ELSE dns' = pico_dns_client_del_query(Called(d, q.req), id)

DnsTimer == dns.timers # <<>> /\ pico_dns_client_retransmission(Head(dns.timers)) /\ DnsTicks

DnsNext ==
    \/ pico_dns_client_nameserver \/ DnsResponse
    \/ \E req \in DnsRequests : DnsRequest(req)
    \/ DnsTimer

(* A pending timer fires, if pico_stack_tick is called on.                 *)
DnsTimersFire == dns.timers # <<>> /\ DnsTicks
DnsSpec == DnsInit /\ [][DnsNext]_dnsVars /\ WF_dnsClock(DnsTimersFire)

-----------------------------------------------------------------------------
(* Type invariant of the tables and the timers.                            *)
DnsTypeOK ==
    /\ dns.NSTable \subseteq DnsServers \union {DefaultNs} /\ dns.open \subseteq DnsRequests
    /\ dns.timers \in Seq(DnsIds) /\ Len(dns.timers) <= DnsTimers
    /\ \A id \in Queries(dns) : dns.DNSTable[id].retrans \in 1 .. MaxRetrans

(* A request is answered once: never by two queries, though a CNAME makes  *)
(* a second one for it and ids are used again, and never again by a timer  *)
(* after its answer.  A query in the table belongs to an open request.     *)
DnsOnce ==
    /\ ~dns.twice
    /\ \A i \in Queries(dns) : dns.DNSTable[i].req \in dns.open
    /\ \A i, j \in Queries(dns) : dns.DNSTable[i].req = dns.DNSTable[j].req => i = j

(* A query that was sent ends: its timer, or a stale one of the same id,   *)
(* takes it to the last attempt and the callback, unless sending it again  *)
(* fails: then it stays in the table for ever.  Said of the query and not  *)
(* of the request, which a loop of CNAMEs keeps open.                      *)
DnsEnds == \A i \in DnsIds : dns.DNSTable[i].sent ~> ~dns.DNSTable[i].sent
=============================================================================
