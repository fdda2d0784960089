--------------------------- MODULE ServicesProofs ---------------------------
(***************************************************************************)
(* Proofs about the services on top of the link: the DNS client and the    *)
(* SNTP client that uses it, for every set of ids, requests and name       *)
(* servers and every number of attempts; and the PPP device, from what     *)
(* every (state, event) entry of its LCP table preserves: that an open     *)
(* link is an agreement and that no machine waits for an event that nobody *)
(* will raise; and the sessions of the mDNS responder, which outlive their *)
(* timers because the intervals that are still to come add up to less than *)
(* what a session has left.                                                *)
(***************************************************************************)
EXTENDS Sntp, Ppp, Mdns, WellFoundedInduction, TLAPS

-----------------------------------------------------------------------------
(* DNS and SNTP.                                                           *)

NameServers == DnsServers \union {DefaultNs}
QueryRecs == [req : DnsRequests, retrans : 1..MaxRetrans, qtype : {"A", "PTR", "CNAME"},
              ns : NameServers, sent : BOOLEAN]
DnsStates ==
    [NSTable : SUBSET NameServers, DNSTable : [DnsIds -> QueryRecs \union {NoQuery}],
     timers : Seq(DnsIds), open : SUBSET DnsRequests, twice : BOOLEAN]

(* What a step of the DNS client may leave undone in between: everything   *)
(* of the invariant but that the requests of two queries differ.           *)
DnsShape(d) ==
    /\ d \in DnsStates
    /\ Len(d.timers) <= DnsTimers
    /\ ~d.twice
    /\ \A i \in Queries(d) : d.DNSTable[i].req \in d.open

(* The inductive invariant of the DNS client, of any state d of it.        *)
DnsOK(d) ==
    /\ DnsShape(d)
    /\ \A i, j \in Queries(d) : d.DNSTable[i].req = d.DNSTable[j].req => i = j

LEMMA QueryIsSome == NoQuery \notin QueryRecs
BY DnsAssumption DEF NoQuery, QueryRecs

LEMMA QueryOf ==
    ASSUME NEW d \in DnsStates, NEW i \in Queries(d)
    PROVE  d.DNSTable[i] \in QueryRecs /\ i \in DnsIds
BY DEF Queries, DnsStates

(* A query that is changed in place, for the same request.                 *)
LEMMA ChangeOK ==
    ASSUME NEW d, DnsOK(d), NEW id \in Queries(d), NEW q \in QueryRecs, q.req = d.DNSTable[id].req,
           NEW e \in DnsStates, e.DNSTable = [d.DNSTable EXCEPT ![id] = q],
           Len(e.timers) <= DnsTimers, e.open = d.open, e.twice = d.twice
    PROVE  DnsOK(e)
<1>1. d \in DnsStates /\ id \in DnsIds
  BY QueryOf DEF DnsOK, DnsShape, Queries
<1>2. \A i \in DnsIds : e.DNSTable[i] = IF i = id THEN q ELSE d.DNSTable[i]
  BY <1>1 DEF DnsStates
<1>3. Queries(e) = Queries(d)
  BY <1>2, QueryIsSome DEF Queries
<1>4. \A i \in Queries(d) : e.DNSTable[i].req = d.DNSTable[i].req
  BY <1>2 DEF Queries
<1> QED
  BY <1>3, <1>4 DEF DnsOK, DnsShape

(* A query that is deleted, and the request it was for if it is closed.    *)
LEMMA DeleteOK ==
    ASSUME NEW d, DnsOK(d), NEW id \in Queries(d), NEW e \in DnsStates,
           e.DNSTable = [d.DNSTable EXCEPT ![id] = NoQuery], Len(e.timers) <= DnsTimers,
           e.open \in {d.open, d.open \ {d.DNSTable[id].req}}, e.twice = d.twice
    PROVE  DnsOK(e)
<1>1. d \in DnsStates /\ id \in DnsIds
  BY QueryOf DEF DnsOK, DnsShape, Queries
<1>2. \A i \in DnsIds : e.DNSTable[i] = IF i = id THEN NoQuery ELSE d.DNSTable[i]
  BY <1>1 DEF DnsStates
<1>3. Queries(e) = Queries(d) \ {id}
  BY <1>2 DEF Queries
<1>4. \A i \in Queries(e) : e.DNSTable[i] = d.DNSTable[i] /\ d.DNSTable[i].req # d.DNSTable[id].req
  BY <1>2, <1>3 DEF DnsOK, Queries
<1> QED
  BY <1>3, <1>4 DEF DnsOK, DnsShape

(* The table of e is that of d with a query for req under a free id.       *)
NewQuery(d, e, req) ==
    \E id \in DnsIds \ Queries(d), q \in QueryRecs :
        q.req = req /\ e.DNSTable = [d.DNSTable EXCEPT ![id] = q]

(* What pico_dns_client_getaddr_init does: nothing, or one new query.      *)
LEMMA InitShape ==
    ASSUME NEW d \in DnsStates, NEW req \in DnsRequests, NEW qtype \in {"A", "PTR"},
           NEW e \in pico_dns_client_getaddr_init(d, req, qtype), e # d
    PROVE  /\ e \in DnsStates /\ e.NSTable = d.NSTable /\ e.open = d.open /\ e.twice = d.twice
           /\ Len(d.timers) < DnsTimers /\ Len(e.timers) = Len(d.timers) + 1
           /\ NewQuery(d, e, req)
<1>0. PICK id \in DnsIds \ Queries(d) :
         /\ Len(d.timers) < DnsTimers
         /\ \E c \in pico_dns_client_add_query(d, req, id, qtype) : e = pico_dns_client_send(c, id, TRUE)
  BY DEF pico_dns_client_getaddr_init
<1>1. PICK c \in pico_dns_client_add_query(d, req, id, qtype) : e = pico_dns_client_send(c, id, TRUE)
  BY <1>0
<1>2. PICK ns \in d.NSTable :
         c = [d EXCEPT !.DNSTable[id] = [req |-> req, retrans |-> 1, qtype |-> qtype, ns |-> ns,
                                         sent |-> FALSE]]
  BY DEF pico_dns_client_add_query
<1> DEFINE q == [req |-> req, retrans |-> 1, qtype |-> qtype, ns |-> ns, sent |-> FALSE]
           q1 == [q EXCEPT !.sent = TRUE]
<1>3. q \in QueryRecs /\ q.req = req
  BY DnsAssumption DEF QueryRecs, DnsStates
<1> HIDE DEF q
<1>4. q1 \in QueryRecs /\ q1.req = req
  BY <1>3 DEF QueryRecs
<1>5. /\ c.NSTable = d.NSTable /\ c.DNSTable = [d.DNSTable EXCEPT ![id] = q] /\ c.timers = d.timers
      /\ c.open = d.open /\ c.twice = d.twice /\ c \in DnsStates /\ c.DNSTable[id] = q
  BY <1>2, <1>3 DEF DnsStates, q
<1> DEFINE ts == Append(c.timers, id)
<1>6. e = [c EXCEPT !.timers = ts, !.DNSTable = [@ EXCEPT ![id] = q1]]
  BY <1>1, <1>5 DEF pico_dns_client_send
<1>7. ts \in Seq(DnsIds) /\ Len(ts) = Len(d.timers) + 1
  BY <1>5 DEF DnsStates
<1> HIDE DEF ts, q1
<1>8. /\ e \in DnsStates /\ e.NSTable = d.NSTable /\ e.open = d.open /\ e.twice = d.twice
      /\ e.timers = ts /\ e.DNSTable = [c.DNSTable EXCEPT ![id] = q1]
  BY <1>4, <1>5, <1>6, <1>7 DEF DnsStates
<1>9. e.DNSTable = [d.DNSTable EXCEPT ![id] = q1]
  BY <1>5, <1>8 DEF DnsStates
<1> QED
  BY <1>0, <1>4, <1>7, <1>8, <1>9 DEF NewQuery

(* A request that is not open is asked.                                    *)
LEMMA AskOK ==
    ASSUME NEW d, DnsOK(d), NEW req \in DnsRequests \ d.open, NEW qtype \in {"A", "PTR"},
           NEW e \in pico_dns_client_getaddr_init(d, req, qtype)
    PROVE  LET f == IF e = d THEN d ELSE [e EXCEPT !.open = @ \union {req}]
           IN  DnsOK(f) /\ f.open \in {d.open, d.open \union {req}}
<1>1. CASE e = d
  BY <1>1
<1>2. CASE e # d
  <2> DEFINE o == d.open \union {req}
             f == [e EXCEPT !.open = o]
  <2>0. d \in DnsStates /\ o \in SUBSET DnsRequests
    BY DEF DnsOK, DnsShape, DnsStates
  <2>1. /\ e \in DnsStates /\ e.NSTable = d.NSTable /\ e.open = d.open /\ e.twice = d.twice
        /\ Len(d.timers) < DnsTimers /\ Len(e.timers) = Len(d.timers) + 1
        /\ NewQuery(d, e, req)
    BY <1>2, <2>0, InitShape
  <2>2. PICK id \in DnsIds \ Queries(d), q \in QueryRecs :
           q.req = req /\ e.DNSTable = [d.DNSTable EXCEPT ![id] = q]
    BY <2>1 DEF NewQuery
  <2> HIDE DEF o
  <2>3. /\ f \in DnsStates /\ f.open = o /\ f.twice = d.twice /\ f.timers = e.timers
        /\ f.DNSTable = [d.DNSTable EXCEPT ![id] = q]
    BY <2>0, <2>1, <2>2 DEF DnsStates
  <2>4. f = [e EXCEPT !.open = @ \union {req}]
    BY <2>1 DEF o
  <2> HIDE DEF f
  <2>5. \A i \in DnsIds : f.DNSTable[i] = IF i = id THEN q ELSE d.DNSTable[i]
    BY <2>0, <2>3 DEF DnsStates
  <2>6. Queries(f) = Queries(d) \union {id}
    BY <2>5, QueryIsSome DEF Queries
  <2>7. \A i \in Queries(d) : f.DNSTable[i] = d.DNSTable[i] /\ d.DNSTable[i].req \in d.open
    BY <2>5 DEF Queries, DnsOK, DnsShape
  <2>8. Len(f.timers) <= DnsTimers
    BY <2>0, <2>1, <2>3, DnsAssumption DEF DnsStates
  <2>9. f.DNSTable[id].req = req /\ req \notin d.open
    BY <2>2, <2>5
  <2>10. DnsOK(f)
    BY <2>3, <2>6, <2>7, <2>8, <2>9 DEF DnsOK, DnsShape, o
  <2> QED
    BY <1>2, <2>3, <2>4, <2>10 DEF o
<1> QED
  BY <1>1, <1>2

-----------------------------------------------------------------------------
(* A step of the DNS client closes one request at most, and opens none     *)
(* unless it is asked to.                                                  *)
ClosesOne == dns'.open = dns.open \/ \E req \in dns.open : dns'.open = dns.open \ {req}

LEMMA NameserverOK ==
    DnsOK(dns) /\ pico_dns_client_nameserver => DnsOK(dns') /\ ClosesOne
<1> SUFFICES ASSUME DnsOK(dns), pico_dns_client_nameserver PROVE DnsOK(dns') /\ ClosesOne
  OBVIOUS
<1>0. dns \in DnsStates
  BY DEF DnsOK, DnsShape
<1>1. PICK t \in SUBSET NameServers : dns' = [dns EXCEPT !.NSTable = t]
  <2>1. PICK ns \in NameServers, ok \in BOOLEAN :
          dns' \in {[dns EXCEPT !.NSTable = pico_dns_client_add_ns(@, ns, ok)],
                   [dns EXCEPT !.NSTable = IF ns \in @ THEN pico_dns_client_del_ns(@, ns, ok) ELSE @]}
    BY DEF pico_dns_client_nameserver, NameServers
  <2>2. dns.NSTable \in SUBSET NameServers
    BY <1>0 DEF DnsStates
  <2>3. \A table \in SUBSET NameServers, n \in NameServers : pico_dns_client_del_ns(table, n, ok) \in SUBSET NameServers
    BY DEF pico_dns_client_del_ns, NameServers
  <2>4. pico_dns_client_add_ns(dns.NSTable, ns, ok) \in SUBSET NameServers
    BY <2>2, <2>3 DEF pico_dns_client_add_ns, NameServers
  <2> QED
    BY <2>1, <2>2, <2>3, <2>4
<1>2. /\ dns' \in DnsStates /\ dns'.DNSTable = dns.DNSTable /\ dns'.timers = dns.timers
      /\ dns'.open = dns.open /\ dns'.twice = dns.twice
  BY <1>0, <1>1 DEF DnsStates
<1>3. Queries(dns') = Queries(dns)
  BY <1>2 DEF Queries
<1> QED
  BY <1>2, <1>3 DEF DnsOK, DnsShape, ClosesOne

(* pico_dns_client_user_callback: its request was open, and is closed with *)
(* the one query that was for it.                                          *)
LEMMA CallbackOK ==
    ASSUME DnsOK(dns), NEW id \in Queries(dns), NEW good \in BOOLEAN,
           dns' = pico_dns_client_user_callback(id, good)
    PROVE  DnsOK(dns') /\ ClosesOne
<1>1. CASE ~good
  BY <1>1 DEF pico_dns_client_user_callback, ClosesOne
<1>2. CASE good
  <2> DEFINE req == dns.DNSTable[id].req
             o == dns.open \ {req}
             t == [dns.DNSTable EXCEPT ![id] = NoQuery]
             w == dns.twice \/ req \notin dns.open
  <2>1. dns \in DnsStates /\ req \in dns.open /\ dns.twice = FALSE
    BY DEF DnsOK, DnsShape, DnsStates
  <2>2. o \in SUBSET DnsRequests /\ t \in [DnsIds -> QueryRecs \union {NoQuery}] /\ w = FALSE
    BY <2>1 DEF DnsStates
  <2>3. dns' = [dns EXCEPT !.open = o, !.twice = w, !.DNSTable = t]
    BY <1>2, <2>1 DEF pico_dns_client_user_callback, pico_dns_client_del_query, Called, DnsStates
  <2>4. req \in dns.open
    BY <2>1
  <2> HIDE DEF o, t, w
  <2>5. /\ dns' \in DnsStates /\ dns'.open = o /\ dns'.twice = FALSE /\ dns'.DNSTable = t
        /\ dns'.timers = dns.timers
    BY <2>1, <2>2, <2>3 DEF DnsStates
  <2>6. Len(dns.timers) <= DnsTimers
    BY DEF DnsOK, DnsShape
  <2>7. DnsOK(dns')
    BY <2>1, <2>5, <2>6, DeleteOK DEF o, t
  <2> QED
    BY <2>4, <2>5, <2>7 DEF ClosesOne, o
<1> QED
  BY <1>1, <1>2

(* pico_dns_try_fallback_cname: two queries are for one request only while *)
(* the function runs.                                                      *)
LEMMA FallbackOK ==
    ASSUME DnsOK(dns), NEW id \in Queries(dns), NEW found \in BOOLEAN,
           dns' \in pico_dns_try_fallback_cname(id, found)
    PROVE  DnsOK(dns') /\ ClosesOne
<1> DEFINE q == dns.DNSTable[id]
           q1 == [q EXCEPT !.qtype = "CNAME"]
           c == [dns EXCEPT !.DNSTable = [@ EXCEPT ![id] = q1]]
<1>0. dns \in DnsStates /\ q \in QueryRecs /\ id \in DnsIds /\ Len(dns.timers) <= DnsTimers
  BY QueryOf DEF DnsOK, DnsShape
<1>1. q1 \in QueryRecs /\ q1.req = q.req /\ q.req \in DnsRequests
  BY <1>0 DEF QueryRecs
<1>2. \/ dns' = dns \/ dns' = c
      \/ \E d \in pico_dns_client_getaddr_init(c, q.req, "A") : dns' = pico_dns_client_del_query(d, id)
  BY DEF pico_dns_try_fallback_cname
<1> HIDE DEF q1
<1>3. /\ c \in DnsStates /\ c.DNSTable = [dns.DNSTable EXCEPT ![id] = q1] /\ c.timers = dns.timers
      /\ c.open = dns.open /\ c.twice = dns.twice
  BY <1>0, <1>1 DEF DnsStates
<1> HIDE DEF c
<1>4. DnsOK(c)
  BY <1>0, <1>1, <1>3, ChangeOK
<1>5. c.DNSTable[id] = q1 /\ id \in Queries(c)
  BY <1>0, <1>1, <1>3, QueryIsSome DEF Queries, DnsStates
<1>6. ASSUME NEW d \in pico_dns_client_getaddr_init(c, q.req, "A"),
             dns' = pico_dns_client_del_query(d, id)
      PROVE  DnsOK(dns') /\ dns'.open = dns.open
  <2>1. CASE d = c
    <3>1. /\ dns' \in DnsStates /\ dns'.DNSTable = [c.DNSTable EXCEPT ![id] = NoQuery]
          /\ dns'.timers = c.timers /\ dns'.open = c.open /\ dns'.twice = c.twice
      BY <1>0, <1>3, <1>6, <2>1 DEF DnsStates, pico_dns_client_del_query
    <3> QED
      BY <1>0, <1>3, <1>4, <1>5, <3>1, DeleteOK
  <2>2. CASE d # c
    <3>1. /\ d \in DnsStates /\ d.open = c.open /\ d.twice = c.twice /\ Len(c.timers) < DnsTimers
          /\ Len(d.timers) = Len(c.timers) + 1 /\ NewQuery(c, d, q.req)
      BY <1>1, <1>3, <2>2, InitShape
    <3>2. PICK i2 \in DnsIds \ Queries(c), q2 \in QueryRecs :
             q2.req = q.req /\ d.DNSTable = [c.DNSTable EXCEPT ![i2] = q2]
      BY <3>1 DEF NewQuery
    <3>3. /\ dns' \in DnsStates /\ dns'.DNSTable = [d.DNSTable EXCEPT ![id] = NoQuery]
          /\ dns'.timers = d.timers /\ dns'.open = dns.open /\ dns'.twice = dns.twice
      BY <1>0, <1>3, <1>6, <3>1 DEF DnsStates, pico_dns_client_del_query
    <3>4. \A i \in DnsIds : dns'.DNSTable[i] = IF i = id THEN NoQuery ELSE
                                               IF i = i2 THEN q2 ELSE c.DNSTable[i]
      BY <1>3, <3>1, <3>2, <3>3 DEF DnsStates
    <3>5. Queries(dns') = (Queries(c) \ {id}) \union {i2} /\ i2 # id
      BY <1>5, <3>2, <3>4, QueryIsSome DEF Queries
    <3>6. \A i \in Queries(c) \ {id} : dns'.DNSTable[i] = c.DNSTable[i]
      BY <3>2, <3>4 DEF Queries
    <3>7. dns'.DNSTable[i2].req = c.DNSTable[id].req
      BY <1>1, <1>5, <3>2, <3>4, <3>5
    <3>8. Len(dns'.timers) <= DnsTimers
      BY <1>3, <3>1, <3>3, DnsAssumption DEF DnsStates
    <3>9. /\ \A i \in Queries(dns') : dns'.DNSTable[i].req \in dns'.open
          /\ \A i, j \in Queries(dns') : dns'.DNSTable[i].req = dns'.DNSTable[j].req => i = j
      BY <1>3, <1>4, <1>5, <3>3, <3>5, <3>6, <3>7 DEF DnsOK, DnsShape
    <3> QED
      BY <1>3, <1>4, <3>3, <3>8, <3>9 DEF DnsOK, DnsShape
  <2> QED
    BY <2>1, <2>2
<1> QED
  BY <1>2, <1>3, <1>4, <1>6 DEF ClosesOne

(* pico_dns_client_retransmission: another attempt, or the last callback.  *)
LEMMA TimerOK == DnsOK(dns) /\ DnsTimer => DnsOK(dns') /\ ClosesOne
<1> SUFFICES ASSUME DnsOK(dns), DnsTimer PROVE DnsOK(dns') /\ ClosesOne
  OBVIOUS
<1> DEFINE id == Head(dns.timers)
           ts == Tail(dns.timers)
           q == dns.DNSTable[id]
           q1 == [q EXCEPT !.retrans = @ + 1]
           d == [Fired EXCEPT !.DNSTable[id].retrans = @ + 1]
<1>0. dns \in DnsStates /\ Len(dns.timers) <= DnsTimers /\ dns.twice = FALSE
  BY DEF DnsOK, DnsShape, DnsStates
<1>1. id \in DnsIds /\ ts \in Seq(DnsIds) /\ Len(ts) = Len(dns.timers) - 1 /\ Len(dns.timers) \in Nat
  BY <1>0 DEF DnsTimer, DnsStates
<1>2. pico_dns_client_retransmission(id)
  BY DEF DnsTimer
<1> HIDE DEF id, ts
<1>3. /\ Fired \in DnsStates /\ Fired.DNSTable = dns.DNSTable /\ Fired.timers = ts
      /\ Fired.open = dns.open /\ Fired.twice = dns.twice /\ Fired.NSTable = dns.NSTable
  BY <1>0, <1>1 DEF DnsStates, Fired, ts
<1>4. Len(ts) <= DnsTimers /\ Len(ts) + 1 <= DnsTimers
  BY <1>0, <1>1, DnsAssumption
<1>5. CASE id \notin Queries(dns)
  <2>1. dns' = Fired
    BY <1>2, <1>5 DEF pico_dns_client_retransmission
  <2>2. Queries(dns') = Queries(dns)
    BY <1>3, <2>1 DEF Queries
  <2> QED
    BY <1>3, <1>4, <2>1, <2>2 DEF DnsOK, DnsShape, ClosesOne
<1>6. CASE id \in Queries(dns)
  <2>0. q \in QueryRecs /\ q.req \in dns.open
    BY <1>0, <1>6, QueryOf DEF DnsOK, DnsShape
  <2>1. /\ d.DNSTable = [dns.DNSTable EXCEPT ![id] = q1] /\ d.timers = ts /\ d.open = dns.open
        /\ d.twice = dns.twice /\ d.NSTable = dns.NSTable /\ d.DNSTable[id] = q1
        /\ d = [Fired EXCEPT !.DNSTable = [@ EXCEPT ![id] = q1]]
    BY <1>0, <1>1, <1>3 DEF DnsStates
  <2>2. /\ q1.req = q.req /\ q1.ns = q.ns /\ q1.retrans = q.retrans + 1
        /\ q1.retrans <= MaxRetrans => q1 \in QueryRecs
    <3> DEFINE r == q.retrans + 1
    <3>1. r <= MaxRetrans => r \in 1..MaxRetrans
      BY <2>0, DnsAssumption DEF QueryRecs
    <3>2. q1 = [q EXCEPT !.retrans = r]
      OBVIOUS
    <3> HIDE DEF r
    <3>3. /\ q1.req = q.req /\ q1.ns = q.ns /\ q1.retrans = r
          /\ r \in 1..MaxRetrans => q1 \in QueryRecs
      BY <2>0, <3>2 DEF QueryRecs
    <3> QED
      BY <3>1, <3>3 DEF r
  <2>3. CASE q1.retrans <= MaxRetrans
    <3>1. PICK ns \in pico_dns_client_next_ns(d, q1.ns), ok \in BOOLEAN :
             dns' = pico_dns_client_send([d EXCEPT !.DNSTable[id].ns = ns], id, ok)
      BY <1>2, <1>6, <2>1, <2>3 DEF pico_dns_client_retransmission
    <3>2. ns \in NameServers
      BY <1>0, <2>0, <2>1, <2>2 DEF pico_dns_client_next_ns, QueryRecs, DnsStates
    <3> DEFINE q2 == [q1 EXCEPT !.ns = ns]
               q3 == IF ok THEN [q2 EXCEPT !.sent = TRUE] ELSE [q2 EXCEPT !.sent = FALSE]
               e == [d EXCEPT !.DNSTable[id].ns = ns]
               us == IF ok THEN Append(ts, id) ELSE ts
    <3>3. q2 \in QueryRecs /\ q2.req = q.req
      BY <2>2, <2>3, <3>2 DEF QueryRecs
    <3> HIDE DEF q2
    <3>4. q3 \in QueryRecs /\ q3.req = q.req
      BY <3>3 DEF QueryRecs
    <3> HIDE DEF q3, q1
    <3>5. us \in Seq(DnsIds) /\ Len(us) <= DnsTimers
      BY <1>1, <1>4
    <3>6. /\ e.DNSTable = [dns.DNSTable EXCEPT ![id] = q2] /\ e.timers = ts /\ e.open = dns.open
          /\ e.twice = dns.twice /\ e.NSTable = dns.NSTable /\ e.DNSTable[id] = q2
          /\ e \in DnsStates
      BY <1>0, <1>1, <1>3, <2>1, <3>3 DEF DnsStates, q2
    <3> HIDE DEF e, d
    <3>7. dns' = [e EXCEPT !.timers = us, !.DNSTable = [@ EXCEPT ![id] = q3]]
      <4>0. dns' = pico_dns_client_send(e, id, ok)
        BY <3>1 DEF e
      <4>1. CASE ok
        BY <3>6, <4>0, <4>1 DEF pico_dns_client_send, q3
      <4>2. CASE ~ok
        <5>1. dns' = [e EXCEPT !.DNSTable = [@ EXCEPT ![id] = q3]]
          BY <3>6, <4>0, <4>2 DEF pico_dns_client_send, q3
        <5> QED
          BY <3>6, <4>2, <5>1 DEF DnsStates
      <4> QED
        BY <4>1, <4>2
    <3> HIDE DEF us
    <3>8. /\ dns' \in DnsStates /\ dns'.DNSTable = [dns.DNSTable EXCEPT ![id] = q3] /\ dns'.timers = us
          /\ dns'.open = dns.open /\ dns'.twice = dns.twice
      BY <1>0, <3>4, <3>5, <3>6, <3>7 DEF DnsStates
    <3> QED
      BY <1>6, <3>4, <3>5, <3>8, ChangeOK DEF ClosesOne
  <2>4. CASE ~(q1.retrans <= MaxRetrans)
    <3> DEFINE o == dns.open \ {q.req}
               t == [dns.DNSTable EXCEPT ![id] = NoQuery]
               w == dns.twice \/ q.req \notin dns.open
    <3>1. dns' = pico_dns_client_del_query(Called(d, q.req), id)
      BY <1>2, <1>6, <2>1, <2>2, <2>4 DEF pico_dns_client_retransmission
    <3>2. o \in SUBSET DnsRequests /\ t \in [DnsIds -> QueryRecs \union {NoQuery}] /\ w = FALSE
      BY <1>0, <2>0 DEF DnsStates
    <3> HIDE DEF q1
    <3>3. /\ dns' \in DnsStates /\ dns'.DNSTable = t /\ dns'.timers = ts
          /\ dns'.open = o /\ dns'.twice = FALSE
      <4>1. d.DNSTable = [dns.DNSTable EXCEPT ![id] = q1] /\ d.timers = ts /\ d.open = dns.open /\ d.twice = dns.twice
        BY <2>1
      <4>2. DOMAIN d = {"NSTable", "DNSTable", "timers", "open", "twice"}
        BY <1>3 DEF DnsStates
      <4>3. d.NSTable \in SUBSET NameServers
        BY <1>0, <2>1 DEF DnsStates
      <4> DEFINE g == [d EXCEPT !.open = o, !.twice = w]
      <4>4. g = Called(d, q.req)
        BY <4>1 DEF Called
      <4>5. g.DNSTable = [dns.DNSTable EXCEPT ![id] = q1]
        BY <4>1, <4>2
      <4>6. [g.DNSTable EXCEPT ![id] = NoQuery] = t
        BY <1>0, <4>5 DEF DnsStates
      <4>7. dns' = [g EXCEPT !.DNSTable = t]
        <5> HIDE DEF g, t
        <5> QED
          BY <3>1, <4>4, <4>6 DEF pico_dns_client_del_query
      <4> HIDE DEF o, t, w
      <4> QED
        BY <1>0, <1>1, <1>3, <3>2, <4>7 DEF DnsStates
    <3> HIDE DEF o, t, w, d
    <3> QED
      BY <1>0, <1>4, <1>6, <2>0, <3>3, DeleteOK DEF ClosesOne, o, t
  <2> QED
    BY <2>3, <2>4
<1> QED
  BY <1>5, <1>6

LEMMA DnsMovesOK ==
    DnsOK(dns) /\ (pico_dns_client_nameserver \/ DnsResponse \/ DnsTimer) => DnsOK(dns') /\ ClosesOne
<1>1. DnsOK(dns) /\ DnsResponse => DnsOK(dns') /\ ClosesOne
  BY CallbackOK, FallbackOK DEF DnsResponse
<1> QED
  BY <1>1, NameserverOK, TimerOK

LEMMA DnsInitOK == DnsInit => DnsOK(dns)
<1> SUFFICES ASSUME DnsInit PROVE DnsOK(dns)
  OBVIOUS
<1>1. <<>> \in Seq(DnsIds) /\ Len(<<>>) <= DnsTimers
  BY DnsAssumption
<1>2. dns \in DnsStates /\ dns.twice = FALSE /\ dns.timers = <<>> /\ dns.DNSTable = [i \in DnsIds |-> NoQuery]
  BY <1>1 DEF DnsInit, DnsStates, NameServers
<1>3. Queries(dns) = {}
  BY <1>2 DEF Queries
<1> QED
  BY <1>1, <1>2, <1>3 DEF DnsOK, DnsShape

DnsInv == DnsOK(dns)

LEMMA DnsHolds == DnsSpec => []DnsInv
<1>1. DnsInit => DnsInv
  BY DnsInitOK DEF DnsInv
<1>2. DnsInv /\ [DnsNext]_dnsVars => DnsInv'
  <2> SUFFICES ASSUME DnsOK(dns), [DnsNext]_dnsVars PROVE DnsOK(dns')
    BY DEF DnsInv
  <2>1. CASE pico_dns_client_nameserver \/ DnsResponse \/ DnsTimer
    BY <2>1, DnsMovesOK
  <2>2. ASSUME NEW req \in DnsRequests, DnsRequest(req) PROVE DnsOK(dns')
    <3>1. PICK qtype \in {"A", "PTR"} :
            \E d \in pico_dns_client_getaddr_init(dns, req, qtype) :
                dns' = IF d = dns THEN d ELSE [d EXCEPT !.open = @ \union {req}]
      BY <2>2 DEF DnsRequest
    <3>2. PICK d \in pico_dns_client_getaddr_init(dns, req, qtype) :
            dns' = IF d = dns THEN dns ELSE [d EXCEPT !.open = @ \union {req}]
      BY <3>1
    <3>3. req \in DnsRequests \ dns.open
      BY <2>2 DEF DnsRequest
    <3> QED
      BY <3>2, <3>3, AskOK
  <2>3. CASE UNCHANGED dnsVars
    BY <2>3 DEF dnsVars
  <2> QED
    BY <2>1, <2>2, <2>3 DEF DnsNext
<1> QED
  BY <1>1, <1>2, PTL DEF DnsSpec

LEMMA DnsInvParts == DnsInv => DnsOnce /\ DnsTypeOK
<1> SUFFICES ASSUME DnsOK(dns) PROVE DnsOnce /\ DnsTypeOK
  BY DEF DnsInv
<1>1. dns \in DnsStates
  BY DEF DnsOK, DnsShape
<1>2. \A id \in Queries(dns) : dns.DNSTable[id].retrans \in 1..MaxRetrans
  BY <1>1, QueryOf DEF QueryRecs
<1> QED
  BY <1>1, <1>2 DEF DnsOK, DnsShape, DnsOnce, DnsTypeOK, DnsStates, NameServers

(* A DNS request is answered once.  The CNAME that makes a second query    *)
(* for it, the id that is used again and the timer that outlives its query *)
(* never call back a second time, and every query left in the table        *)
(* belongs to a request that is still open.                                *)
THEOREM DnsAnswersOnce == DnsSpec => []DnsOnce
BY DnsHolds, DnsInvParts, PTL

(* No query is sent more often than MaxRetrans, even when it inherits the  *)
(* timers of earlier queries with its id; and the rest of the types.       *)
THEOREM DnsTypes == DnsSpec => []DnsTypeOK
BY DnsHolds, DnsInvParts, PTL

-----------------------------------------------------------------------------
(* The SNTP client.  A cookie is freed by the client that has it, which    *)
(* needs that the DNS client closes one request at a time: the step that   *)
(* closes the request of one cookie says nothing to the other.             *)
SntpStates == [ck : [SntpCookies -> Cookies], misused : BOOLEAN]
SntpInv ==
    /\ DnsInv
    /\ sntp \in SntpStates
    /\ SntpOneOwner

(* The cookie c changes to k, and nothing else.                            *)
WithCookie(s, c, k) == [s EXCEPT !.ck = [@ EXCEPT ![c] = k]]
LEMMA CookieOK ==
    ASSUME NEW s \in SntpStates, ~s.misused,
           NEW c \in SntpCookies, NEW k \in Cookies, NEW t,
           t = WithCookie(s, c, k)
    PROVE  /\ t \in SntpStates /\ ~t.misused
           /\ t.ck[c] = k /\ \A b \in SntpCookies : b # c => t.ck[b] = s.ck[b]
BY DEF SntpStates, WithCookie

LEMMA FreeCookieType == FreeCookie \in Cookies
BY DEF FreeCookie, Cookies

LEMMA CleanupOK ==
    ASSUME NEW s \in SntpStates, ~s.misused,
           NEW c \in SntpCookies, s.ck[c].state # "FREE", NEW t, t = pico_sntp_cleanup(s, c)
    PROVE  /\ t \in SntpStates /\ ~t.misused
           /\ t.ck[c] = FreeCookie /\ \A b \in SntpCookies : b # c => t.ck[b] = s.ck[b]
BY FreeCookieType DEF pico_sntp_cleanup, SntpStates

(* pico_sntp_sync_start of a cookie.                                       *)
LEMMA StartOK ==
    ASSUME NEW s \in SntpStates, ~s.misused,
           NEW c \in SntpCookies, NEW t \in pico_sntp_sync_start(s, c)
    PROVE  /\ t \in SntpStates /\ ~t.misused
           /\ t.ck[c].state \in {"FREE", "WAITING"} /\ (t.ck[c].timer => t.ck[c].state = "WAITING")
           /\ \A b \in SntpCookies : b # c => t.ck[b] = s.ck[b]
<1> DEFINE k == [state |-> "WAITING", rec |-> FALSE, timer |-> TRUE]
           k2 == [s.ck[c] EXCEPT !.state = "WAITING"]
           s2 == WithCookie(s, c, k2)
<1>1. k \in Cookies /\ k.state = "WAITING" /\ k2 \in Cookies /\ k2.state = "WAITING"
  BY DEF Cookies, SntpStates
<1>2. CASE t = WithCookie(s, c, k)
  <2> HIDE DEF k
  <2> QED
    BY <1>1, <1>2, CookieOK
<1>3. CASE t = pico_sntp_cleanup(s2, c)
  <2> HIDE DEF k2
  <2>1. /\ s2 \in SntpStates /\ ~s2.misused
        /\ s2.ck[c].state = "WAITING" /\ \A b \in SntpCookies : b # c => s2.ck[b] = s.ck[b]
    BY <1>1, CookieOK
  <2> HIDE DEF s2
  <2>2. FreeCookie.state = "FREE" /\ ~FreeCookie.timer
    BY DEF FreeCookie
  <2> QED
    BY <1>3, <2>1, <2>2, CleanupOK
<1> QED
  BY <1>2, <1>3 DEF pico_sntp_sync_start, WithCookie

LEMMA SntpDnsOK == SntpInv /\ SntpDns => SntpInv'
<1> SUFFICES ASSUME SntpInv, SntpDns PROVE SntpInv'
  OBVIOUS
<1> DEFINE closed == (dns.open \ dns'.open) \intersect SntpCookies
<1>0. DnsOK(dns) /\ sntp \in SntpStates /\ SntpOneOwner
  BY DEF SntpInv, DnsInv
<1>1. DnsOK(dns') /\ ClosesOne
  BY <1>0, DnsMovesOK DEF SntpDns
<1>2. CASE closed = {}
  <2>1. sntp' = sntp
    BY <1>2 DEF SntpDns
  <2>2. \A c \in SntpCookies : c \in dns'.open <=> c \in dns.open
    BY <1>1, <1>2 DEF ClosesOne
  <2> QED
    BY <1>0, <1>1, <2>1, <2>2 DEF SntpInv, DnsInv, SntpOneOwner
<1>3. CASE closed # {}
  <2>1. PICK c \in closed : sntp' \in dnsCallback(sntp, c, Answered(c))
    BY <1>3 DEF SntpDns
  <2>2. c \in SntpCookies /\ c \in dns.open /\ dns'.open = dns.open \ {c}
    BY <1>1, <2>1 DEF ClosesOne
  <2>3. ~sntp.misused /\ sntp.ck[c].state = "RESOLVING" /\ ~sntp.ck[c].timer /\ sntp.ck[c] \in Cookies
    BY <1>0, <2>2 DEF SntpOneOwner, SntpStates
  <2>4. /\ sntp' \in SntpStates /\ ~sntp'.misused
        /\ sntp'.ck[c].state # "RESOLVING" /\ (sntp'.ck[c].timer => sntp'.ck[c].state = "WAITING")
        /\ \A b \in SntpCookies : b # c => sntp'.ck[b] = sntp.ck[b]
    <3>1. CASE sntp' = pico_sntp_cleanup(sntp, c)
      <4>1. FreeCookie.state = "FREE" /\ ~FreeCookie.timer
        BY DEF FreeCookie
      <4> QED
        BY <1>0, <2>2, <2>3, <3>1, <4>1, CleanupOK
    <3>2. CASE sntp' \in pico_sntp_sync_start(sntp, c)
      BY <1>0, <2>2, <2>3, <3>2, StartOK
    <3>3. CASE sntp' = [sntp EXCEPT !.ck[c].state = "LOST"]
      <4> DEFINE k == [sntp.ck[c] EXCEPT !.state = "LOST"]
      <4>1. k \in Cookies /\ k.state = "LOST" /\ ~k.timer
        BY <2>3 DEF Cookies
      <4>2. sntp' = WithCookie(sntp, c, k)
        BY <3>3 DEF WithCookie
      <4> HIDE DEF k
      <4> QED
        BY <1>0, <2>2, <2>3, <4>1, <4>2, CookieOK
    <3> QED
      BY <2>1, <3>1, <3>2, <3>3 DEF dnsCallback
  <2>5. SntpOneOwner'
    BY <1>0, <2>2, <2>4 DEF SntpOneOwner
  <2> QED
    BY <1>1, <2>4, <2>5 DEF SntpInv, DnsInv
<1> QED
  BY <1>2, <1>3

(* Two requests, of which either may be refused.                           *)
LEMMA SyncDnsOK ==
    DnsOK(dns) /\ Idle /\ dns' \in UNION {pico_sntp_sync_start_dns_ipv6(d) : d \in pico_sntp_sync_start_dns_ipv4(dns)}
        => DnsOK(dns')
<1> SUFFICES ASSUME DnsOK(dns), Idle,
                    NEW d \in Asked(dns, "v4"), dns' \in Asked(d, "v6")
             PROVE  DnsOK(dns')
  BY DEF pico_sntp_sync_start_dns_ipv4, pico_sntp_sync_start_dns_ipv6
<1>1. "v4" \in DnsRequests \ dns.open /\ "v6" \in DnsRequests \ dns.open
  BY SntpAssumption DEF Idle, SntpCookies
<1>2. ASSUME NEW e, DnsOK(e), NEW req \in DnsRequests \ e.open, NEW f \in Asked(e, req)
      PROVE  DnsOK(f) /\ f.open \in {e.open, e.open \union {req}}
  <2>1. PICK g \in pico_dns_client_getaddr_init(e, req, "A") :
           f = IF g = e THEN e ELSE [g EXCEPT !.open = @ \union {req}]
    BY <1>2 DEF Asked
  <2> QED
    BY <1>2, <2>1, AskOK
<1>3. DnsOK(d) /\ d.open \in {dns.open, dns.open \union {"v4"}}
  BY <1>1, <1>2
<1>4. "v6" \in DnsRequests \ d.open
  BY <1>1, <1>3
<1> QED
  BY <1>2, <1>3, <1>4

LEMMA SntpNextOK == SntpInv /\ [SntpNext]_sntpVars => SntpInv'
<1> SUFFICES ASSUME SntpInv, [SntpNext]_sntpVars PROVE SntpInv'
  OBVIOUS
<1>0. DnsOK(dns) /\ sntp \in SntpStates /\ SntpOneOwner /\ ~sntp.misused
  BY DEF SntpInv, DnsInv, SntpOneOwner
<1>1. CASE pico_sntp_sync
  <2>1. DnsOK(dns')
    BY <1>0, <1>1, SyncDnsOK DEF pico_sntp_sync
  <2> DEFINE r == [FreeCookie EXCEPT !.state = "RESOLVING"]
             f == [c \in SntpCookies |-> IF c \in dns'.open THEN r ELSE FreeCookie]
  <2>2. r \in Cookies /\ r.state = "RESOLVING" /\ ~r.timer /\ FreeCookie.state = "FREE" /\ ~FreeCookie.timer
    BY DEF FreeCookie, Cookies
  <2> HIDE DEF r
  <2>3. f \in [SntpCookies -> Cookies]
    BY <2>2, FreeCookieType
  <2>4. \A c \in SntpCookies : f[c].state = "RESOLVING" <=> c \in dns'.open
    BY <2>2
  <2>5. \A c \in SntpCookies : ~f[c].timer
    BY <2>2
  <2>6. sntp' = [sntp EXCEPT !.ck = f]
    BY <1>1 DEF pico_sntp_sync, r
  <2> HIDE DEF f
  <2>7. sntp' \in SntpStates /\ sntp'.ck = f /\ ~sntp'.misused
    BY <1>0, <2>3, <2>6 DEF SntpStates
  <2> QED
    BY <2>1, <2>4, <2>5, <2>7 DEF SntpInv, DnsInv, SntpOneOwner
<1>2. CASE pico_sntp_sync_ip
  <2>1. "v4" \in SntpCookies /\ "v6" \in SntpCookies /\ \A c \in SntpCookies : c = "v4" \/ c = "v6"
    BY DEF SntpCookies
  <2>2. PICK s \in pico_sntp_sync_start(sntp, "v4") : sntp' \in pico_sntp_sync_start(s, "v6")
    BY <1>2 DEF pico_sntp_sync_ip, pico_sntp_sync_start_ipv4, pico_sntp_sync_start_ipv6
  <2>3. /\ s \in SntpStates /\ ~s.misused /\ s.ck["v4"].state \in {"FREE", "WAITING"}
        /\ (s.ck["v4"].timer => s.ck["v4"].state = "WAITING")
    BY <1>0, <2>1, StartOK
  <2>4. /\ sntp' \in SntpStates /\ ~sntp'.misused /\ sntp'.ck["v6"].state \in {"FREE", "WAITING"}
        /\ (sntp'.ck["v6"].timer => sntp'.ck["v6"].state = "WAITING")
        /\ sntp'.ck["v4"] = s.ck["v4"]
    BY <2>1, <2>2, <2>3, StartOK
  <2>5. \A c \in SntpCookies : c \notin dns.open /\ dns' = dns
    BY <1>2 DEF pico_sntp_sync_ip, Idle, dnsVars
  <2>6. SntpOneOwner'
    BY <2>1, <2>3, <2>4, <2>5 DEF SntpOneOwner
  <2> QED
    BY <1>0, <2>1, <2>4, <2>5, <2>6 DEF SntpInv, DnsInv
<1>3. CASE SntpDns
  BY <1>3, SntpDnsOK
<1>4. ASSUME NEW c \in SntpCookies, pico_sntp_client_wakeup(c) PROVE SntpInv'
  <2> DEFINE k == [sntp.ck[c] EXCEPT !.rec = TRUE]
             s == WithCookie(sntp, c, k)
  <2>0. sntp.ck[c] \in Cookies /\ sntp.ck[c].state = "WAITING" /\ dns' = dns
    BY <1>0, <1>4 DEF pico_sntp_client_wakeup, SntpStates, dnsVars
  <2>1. k \in Cookies /\ k.state = "WAITING"
    BY <2>0 DEF Cookies
  <2>2. sntp' \in {pico_sntp_cleanup(s, c), s}
    BY <1>4 DEF pico_sntp_client_wakeup, WithCookie
  <2> HIDE DEF k
  <2>3. s \in SntpStates /\ ~s.misused /\ s.ck[c] = k /\ \A b \in SntpCookies : b # c => s.ck[b] = sntp.ck[b]
    BY <1>0, <2>1, CookieOK
  <2> HIDE DEF s
  <2>4. /\ sntp' \in SntpStates /\ ~sntp'.misused /\ sntp'.ck[c] \in {k, FreeCookie}
        /\ \A b \in SntpCookies : b # c => sntp'.ck[b] = sntp.ck[b]
    BY <2>1, <2>2, <2>3, CleanupOK
  <2>5. FreeCookie.state = "FREE" /\ ~FreeCookie.timer
    BY DEF FreeCookie
  <2>6. SntpOneOwner'
    BY <1>0, <2>0, <2>1, <2>4, <2>5 DEF SntpOneOwner
  <2> QED
    BY <1>0, <2>0, <2>4, <2>6 DEF SntpInv, DnsInv
<1>5. ASSUME NEW c \in SntpCookies, sntp_receive_timeout(c) PROVE SntpInv'
  <2> DEFINE k == [sntp.ck[c] EXCEPT !.timer = FALSE]
             s == WithCookie(sntp, c, k)
  <2>0. sntp.ck[c] \in Cookies /\ sntp.ck[c].state = "WAITING" /\ dns' = dns
    BY <1>0, <1>5 DEF sntp_receive_timeout, SntpStates, SntpOneOwner, dnsVars
  <2>1. k \in Cookies /\ k.state = "WAITING"
    BY <2>0 DEF Cookies
  <2>2. sntp' = IF s.ck[c].rec THEN s ELSE pico_sntp_cleanup(s, c)
    BY <1>5 DEF sntp_receive_timeout, WithCookie
  <2> HIDE DEF k
  <2>3. s \in SntpStates /\ ~s.misused /\ s.ck[c] = k /\ \A b \in SntpCookies : b # c => s.ck[b] = sntp.ck[b]
    BY <1>0, <2>1, CookieOK
  <2> HIDE DEF s
  <2>4. /\ sntp' \in SntpStates /\ ~sntp'.misused /\ sntp'.ck[c] \in {k, FreeCookie}
        /\ \A b \in SntpCookies : b # c => sntp'.ck[b] = sntp.ck[b]
    BY <2>1, <2>2, <2>3, CleanupOK
  <2>5. FreeCookie.state = "FREE" /\ ~FreeCookie.timer
    BY DEF FreeCookie
  <2>6. SntpOneOwner'
    BY <1>0, <2>0, <2>1, <2>4, <2>5 DEF SntpOneOwner
  <2> QED
    BY <1>0, <2>0, <2>4, <2>6 DEF SntpInv, DnsInv
<1>6. CASE UNCHANGED sntpVars
  BY <1>6 DEF sntpVars, dnsVars, SntpInv, DnsInv, SntpOneOwner
<1> QED
  BY <1>1, <1>2, <1>3, <1>4, <1>5, <1>6 DEF SntpNext

LEMMA SntpHolds == SntpSpec => []SntpInv
<1>1. SntpInit => SntpInv
  <2> SUFFICES ASSUME SntpInit PROVE SntpInv
    OBVIOUS
  <2>1. DnsOK(dns) /\ dns.open = {}
    BY DnsInitOK DEF SntpInit, DnsInit
  <2>2. sntp \in SntpStates /\ ~sntp.misused /\ \A c \in SntpCookies : sntp.ck[c] = FreeCookie
    BY FreeCookieType DEF SntpInit, SntpStates
  <2>3. FreeCookie.state = "FREE" /\ ~FreeCookie.timer
    BY DEF FreeCookie
  <2> QED
    BY <2>1, <2>2, <2>3 DEF SntpInv, DnsInv, SntpOneOwner
<1> QED
  BY <1>1, SntpNextOK, PTL DEF SntpSpec

(* A cookie of the SNTP client has one owner: neither client calls back    *)
(* with a cookie that the other one freed, in whatever order answers,      *)
(* errors, timeouts and replies of the two families come.                  *)
THEOREM CookieHasOneOwner == SntpSpec => []SntpOneOwner
<1>1. SntpInv => SntpOneOwner
  BY DEF SntpInv
<1> QED
  BY <1>1, SntpHolds, PTL

(* The DNS client under the SNTP client keeps its promise too: the two     *)
(* requests of a synchronisation are each answered once.                   *)
THEOREM SntpAnsweredOnce == SntpSpec => []DnsOnce
<1>1. SntpInv => DnsOnce
  BY DnsInvParts DEF SntpInv
<1> QED
  BY <1>1, SntpHolds, PTL

-----------------------------------------------------------------------------
(* PPP.                                                                    *)

CountMax == IF MaxTerminate > MaxConfigure THEN MaxTerminate ELSE MaxConfigure
AuthValues == {"none", "PAP", "CHAP", "unknown"}
Devices ==
    [modem : ModemStates, lcp : LcpStates, auth_state : AuthStates, ipcp : IpcpStates,
     on : SUBSET PppTimers, val : Nat, count : 0..CountMax, auth : AuthValues,
     localauth : BOOLEAN, ip : PppAddrs \union {0}, links : SUBSET PppAddrs,
     autoreconnect : BOOLEAN, lack : BOOLEAN, ack_rcvd : BOOLEAN, ack_sent : BOOLEAN, missed : BOOLEAN]

(* What a handler of LCP leaves alone.                                     *)
Keeps(d, e) ==
    /\ e \in Devices /\ e.lcp = d.lcp /\ d.on \subseteq e.on
    /\ e.modem = "CONNECTED" <=> d.modem = "CONNECTED"
    /\ d.count # 0 => e.count = d.count
    /\ d.missed => e.missed \/ RestartTimer(e)
Acks(d, e) == e.ack_rcvd = d.ack_rcvd /\ e.ack_sent = d.ack_sent /\ e.missed = d.missed
Same(d, e) == Acks(d, e) /\ e.auth_state = d.auth_state

-----------------------------------------------------------------------------
(* IPCP.                                                                   *)

LEMMA IpcpEntry ==
    ASSUME NEW s \in IpcpStates, NEW e \in IpcpEvents
    PROVE  ppp_ipcp_fsm[s][e].next \in IpcpStates
<1>1. CASE s = "INITIAL"
  BY <1>1 DEF ppp_ipcp_fsm, Row, To, IpcpStates, IpcpEvents
<1>2. CASE s = "REQ_SENT"
  BY <1>2 DEF ppp_ipcp_fsm, Row, To, IpcpStates, IpcpEvents
<1>3. CASE s = "ACK_RCVD"
  BY <1>3 DEF ppp_ipcp_fsm, Row, To, IpcpStates, IpcpEvents
<1>4. CASE s = "ACK_SENT"
  BY <1>4 DEF ppp_ipcp_fsm, Row, To, IpcpStates, IpcpEvents
<1>5. CASE s = "OPENED"
  BY <1>5 DEF ppp_ipcp_fsm, Row, To, IpcpStates, IpcpEvents
<1> QED
  BY <1>1, <1>2, <1>3, <1>4, <1>5 DEF IpcpStates

LEMMA IpcpHandlerIs ==
    ASSUME NEW d \in Devices, NEW h
    PROVE  Keeps(d, IpcpHandler(h, d)) /\ Same(d, IpcpHandler(h, d))
<1>1. CASE h = "start_timer"
  <2>1. IpcpHandler(h, d) = ipcp_start_timer(d)
    BY <1>1 DEF IpcpHandler
  <2>2. DefaultTimer * MaxFailure \in Nat
    BY PppAssumption
  <2> QED
    BY <2>1, <2>2 DEF ipcp_start_timer, Keeps, Same, Acks, Devices, PppTimers
<1>2. CASE h = "bring_up"
  <2>1. IpcpHandler(h, d) = ipcp_bring_up(d)
    BY <1>2 DEF IpcpHandler
  <2> QED
    BY <2>1 DEF ipcp_bring_up, Keeps, Same, Acks, Devices
<1>3. CASE h \notin {"start_timer", "bring_up"}
  BY <1>3 DEF IpcpHandler, Keeps, Same, Acks
<1> QED
  BY <1>1, <1>2, <1>3

LEMMA KeepsSame ==
    ASSUME NEW d, NEW e, NEW f, Keeps(d, e), Keeps(e, f), Same(d, e), Same(e, f)
    PROVE  Keeps(d, f) /\ Same(d, f)
BY DEF Keeps, Same, Acks

LEMMA IpcpIs ==
    ASSUME NEW d \in Devices, NEW e \in IpcpEvents
    PROVE  Keeps(d, evaluate_ipcp_state(e, d)) /\ Same(d, evaluate_ipcp_state(e, d))
<1> DEFINE t == ppp_ipcp_fsm[d.ipcp][e]
           m == [d EXCEPT !.ipcp = t.next]
           n == IpcpHandler(Handler(t, 1), m)
           o == IpcpHandler(Handler(t, 2), n)
<1>1. t.next \in IpcpStates
  BY IpcpEntry DEF Devices
<1>2. evaluate_ipcp_state(e, d) = o
  BY DEF evaluate_ipcp_state, IpcpApply
<1> HIDE DEF t
<1>3. m \in Devices /\ Keeps(d, m) /\ Same(d, m)
  BY <1>1 DEF Keeps, Same, Acks, Devices
<1> HIDE DEF m
<1>4. Keeps(m, n) /\ Same(m, n)
  BY <1>3, IpcpHandlerIs
<1> HIDE DEF n
<1>5. Keeps(n, o) /\ Same(n, o)
  BY <1>4, IpcpHandlerIs DEF Keeps
<1> HIDE DEF o
<1>6. Keeps(d, n) /\ Same(d, n)
  BY <1>3, <1>4, KeepsSame
<1> QED
  BY <1>2, <1>5, <1>6, KeepsSame

-----------------------------------------------------------------------------
(* The authentication.                                                     *)

LEMMA AuthEntry ==
    ASSUME NEW s \in AuthStates, NEW e \in AuthEvents
    PROVE  /\ ppp_auth_fsm[s][e].next \in AuthStates
           /\ e = "DOWN" => ppp_auth_fsm[s][e].next = "INITIAL"
           /\ s = "INITIAL" /\ e \in {"RAC", "RAA", "RAN", "TO", "DOWN"}
                => ppp_auth_fsm[s][e].next = "INITIAL"
<1>1. CASE s = "INITIAL"
  BY <1>1 DEF ppp_auth_fsm, Row, To, AuthStates, AuthEvents
<1>2. CASE s = "STARTING"
  BY <1>2 DEF ppp_auth_fsm, Row, To, AuthStates, AuthEvents
<1>3. CASE s = "RSP_SENT"
  BY <1>3 DEF ppp_auth_fsm, Row, To, AuthStates, AuthEvents
<1>4. CASE s = "REQ_SENT"
  BY <1>4 DEF ppp_auth_fsm, Row, To, AuthStates, AuthEvents
<1>5. CASE s = "AUTHENTICATED"
  BY <1>5 DEF ppp_auth_fsm, Row, To, AuthStates, AuthEvents
<1> QED
  BY <1>1, <1>2, <1>3, <1>4, <1>5 DEF AuthStates

LEMMA AuthHandlerIs ==
    ASSUME NEW d \in Devices, NEW h
    PROVE  Keeps(d, AuthHandler(h, d)) /\ Same(d, AuthHandler(h, d))
<1>1. CASE h = "start_timer"
  <2>1. AuthHandler(h, d) = auth_start_timer(d)
    BY <1>1 DEF AuthHandler
  <2> DEFINE r == auth_start_timer(d)
  <2>2. r = [d EXCEPT !.on = d.on \union {"AUTH"}, !.val = DefaultTimer]
    BY DEF auth_start_timer
  <2>3. d.on \union {"AUTH"} \in SUBSET PppTimers /\ DefaultTimer \in Nat
    BY PppAssumption DEF Devices, PppTimers
  <2>4. /\ r \in Devices /\ r.on = d.on \union {"AUTH"} /\ r.lcp = d.lcp /\ r.modem = d.modem
        /\ r.count = d.count /\ r.missed = d.missed /\ r.ack_rcvd = d.ack_rcvd
        /\ r.ack_sent = d.ack_sent /\ r.auth_state = d.auth_state
    BY <2>2, <2>3 DEF Devices
  <2> HIDE DEF r
  <2> QED
    BY <2>1, <2>4 DEF r, Keeps, Same, Acks
<1>2. CASE h = "auth"
  BY <1>2, IpcpIs DEF AuthHandler, IpcpEvents
<1>3. CASE h = "deauth"
  BY <1>3, IpcpIs DEF AuthHandler, IpcpEvents
<1>4. CASE h \notin {"start_timer", "auth", "deauth"}
  BY <1>4 DEF AuthHandler, Keeps, Same, Acks
<1> QED
  BY <1>1, <1>2, <1>3, <1>4

LEMMA AuthIs ==
    ASSUME NEW d \in Devices, NEW e \in AuthEvents
    PROVE  /\ Keeps(d, AuthEvaluate(e, d)) /\ Acks(d, AuthEvaluate(e, d))
           /\ AuthEvaluate(e, d).auth_state = ppp_auth_fsm[d.auth_state][e].next
<1> DEFINE t == ppp_auth_fsm[d.auth_state][e]
           m == [d EXCEPT !.auth_state = t.next]
           n == AuthHandler(Handler(t, 1), m)
           o == AuthHandler(Handler(t, 2), n)
<1>1. t.next \in AuthStates
  BY AuthEntry DEF Devices
<1>2. AuthEvaluate(e, d) = o
  BY DEF AuthEvaluate, AuthApply
<1> HIDE DEF t
<1>3. m \in Devices /\ Keeps(d, m) /\ Acks(d, m) /\ m.auth_state = t.next
  BY <1>1 DEF Keeps, Acks, Devices
<1> HIDE DEF m
<1>4. Keeps(m, n) /\ Same(m, n)
  BY <1>3, AuthHandlerIs
<1> HIDE DEF n
<1>5. Keeps(n, o) /\ Same(n, o)
  BY <1>4, AuthHandlerIs DEF Keeps
<1> HIDE DEF o
<1>6. Keeps(m, o) /\ Same(m, o)
  BY <1>4, <1>5, KeepsSame
<1>7. Keeps(d, o) /\ Acks(d, o) /\ o.auth_state = t.next
  BY <1>3, <1>6 DEF Keeps, Same, Acks
<1> QED
  BY <1>2, <1>7 DEF t

-----------------------------------------------------------------------------
(* The modem.                                                              *)

LEMMA AskingIs ==
    ASSUME NEW s \in ModemStates \ {"CONNECTED"}, NEW n \in ModemStates \ {"CONNECTED"},
           NEW e \in ModemEvents
    PROVE  Asking(s, n)[e].next \in ModemStates \ {"CONNECTED"}
BY DEF Asking, ModemReset, Row, To, ModemStates, ModemEvents

LEMMA ModemEntry ==
    ASSUME NEW s \in ModemStates, NEW e \in ModemEvents
    PROVE  /\ ppp_modem_fsm[s][e].next \in ModemStates
           /\ s # "CONNECTED" /\ (e = "CONNECT" => s # "DIAL") => ppp_modem_fsm[s][e].next # "CONNECTED"
           /\ s = "CONNECTED" /\ e # "STOP" => ppp_modem_fsm[s][e].next = "CONNECTED"
<1>1. CASE s = "INITIAL"
  BY <1>1 DEF ppp_modem_fsm, ModemReset, Row, To, ModemStates, ModemEvents
<1>2. CASE s = "DIAL"
  BY <1>2 DEF ppp_modem_fsm, ModemReset, Row, To, ModemStates, ModemEvents
<1>3. CASE s = "CONNECTED"
  BY <1>3 DEF ppp_modem_fsm, Row, To, ModemStates, ModemEvents
<1>4. CASE s \notin {"INITIAL", "DIAL", "CONNECTED"}
  <2>1. PICK n \in ModemStates \ {"CONNECTED"} : ppp_modem_fsm[s] = Asking(s, n)
    BY <1>4 DEF ppp_modem_fsm, ModemStates
  <2> QED
    BY <1>4, <2>1, AskingIs
<1> QED
  BY <1>1, <1>2, <1>3, <1>4

LEMMA ModemIs ==
    ASSUME NEW d \in Devices, NEW e \in ModemEvents
    PROVE  LET r == ModemEvaluate(e, d) IN
           /\ r \in Devices /\ r.lcp = d.lcp /\ d.on \subseteq r.on /\ Same(d, r)
           /\ r.count = d.count /\ r.modem = ppp_modem_fsm[d.modem][e].next
<1> DEFINE t == ppp_modem_fsm[d.modem][e]
           m == [d EXCEPT !.modem = t.next]
           h == Handler(t, 1)
           r == ModemHandler(h, m)
<1>1. t.next \in ModemStates
  BY ModemEntry DEF Devices
<1>2. ModemEvaluate(e, d) = r
  BY DEF ModemEvaluate, ModemMove
<1> HIDE DEF t, h
<1>3. /\ m \in Devices /\ m.lcp = d.lcp /\ m.on = d.on /\ Same(d, m)
      /\ m.count = d.count /\ m.modem = t.next
  BY <1>1 DEF Same, Acks, Devices
<1> HIDE DEF m
<1>4. CASE h = "send"
  <2>1. r = ppp_modem_start_timer(m)
    BY <1>4 DEF ModemHandler
  <2>2. /\ r \in Devices /\ r.lcp = m.lcp /\ m.on \subseteq r.on /\ Same(m, r)
        /\ r.count = m.count /\ r.modem = m.modem
    <3> HIDE DEF r
    <3>1. r = [m EXCEPT !.on = @ \union {"MODEM"}, !.val = DefaultTimer] /\ DefaultTimer \in Nat
      BY <2>1, PppAssumption DEF ppp_modem_start_timer
    <3> QED
      BY <1>3, <3>1 DEF Devices, PppTimers, Same, Acks
  <2> QED
    BY <1>2, <1>3, <2>2 DEF Same, Acks, t
<1>5. CASE h = "dial"
  <2> DEFINE x == ppp_modem_start_timer(m)
  <2>1. r = [x EXCEPT !.val = MaxDialtime]
    BY <1>5 DEF ModemHandler
  <2>2. /\ x \in Devices /\ x.lcp = m.lcp /\ m.on \subseteq x.on /\ Same(m, x)
        /\ x.count = m.count /\ x.modem = m.modem
    BY <1>3, PppAssumption DEF ppp_modem_start_timer, Devices, PppTimers, Same, Acks
  <2> HIDE DEF x, r
  <2>3. /\ r \in Devices /\ r.lcp = m.lcp /\ m.on \subseteq r.on /\ Same(m, r)
        /\ r.count = m.count /\ r.modem = m.modem
    BY <2>1, <2>2, PppAssumption DEF Devices, Same, Acks
  <2> QED
    BY <1>2, <1>3, <2>3 DEF Same, Acks, t
<1>6. CASE h \notin {"send", "dial"}
  <2>1. r = m
    BY <1>6 DEF ModemHandler
  <2> QED
    BY <1>2, <1>3, <2>1 DEF t
<1> QED
  BY <1>4, <1>5, <1>6

-----------------------------------------------------------------------------
(* The handlers of LCP.                                                    *)

LEMMA TimerStartIs ==
    ASSUME NEW d \in Devices, NEW type \in {"LCPREQ", "LCPTERM"}
    PROVE  LET r == lcp_timer_start(type, d) IN Keeps(d, r) /\ Same(d, r) /\ type \in r.on
<1>1. MaxTerminate \in 0..CountMax /\ MaxConfigure \in 0..CountMax
  BY PppAssumption DEF CountMax
<1> QED
  BY <1>1, PppAssumption DEF lcp_timer_start, Keeps, Same, Acks, Devices, PppTimers

LEMMA ConfigureRequestIs ==
    ASSUME NEW d \in Devices
    PROVE  LET r == lcp_send_configure_request(d) IN
           /\ Keeps(d, r) /\ r.ack_sent = d.ack_sent /\ r.auth_state = d.auth_state
           /\ RestartTimer(r) \/ r.missed
<1> DEFINE m == [d EXCEPT !.val = DefaultTimer, !.ack_rcvd = FALSE, !.missed = FALSE]
           k == ~RestartTimer(d)
           n == [d EXCEPT !.ack_rcvd = FALSE, !.missed = k]
           r == lcp_timer_start("LCPREQ", m)
<1>0. Keeps(d, n) /\ n.ack_sent = d.ack_sent /\ n.auth_state = d.auth_state
      /\ (RestartTimer(n) \/ n.missed)
  <2>1. k \in BOOLEAN /\ (k \/ RestartTimer(d))
    OBVIOUS
  <2> HIDE DEF k
  <2>2. /\ n \in Devices /\ n.lcp = d.lcp /\ n.on = d.on /\ n.modem = d.modem
        /\ n.count = d.count /\ n.ack_sent = d.ack_sent /\ n.auth_state = d.auth_state
        /\ n.missed = k
    BY <2>1 DEF Devices
  <2> HIDE DEF n
  <2> QED
    BY <2>1, <2>2 DEF Keeps, RestartTimer
<1>1. /\ m \in Devices /\ m.ack_sent = d.ack_sent /\ m.auth_state = d.auth_state
      /\ m.lcp = d.lcp /\ m.on = d.on /\ m.modem = d.modem /\ m.count = d.count
  BY PppAssumption DEF Devices
<1> HIDE DEF m
<1>2. Keeps(m, r) /\ Same(m, r) /\ "LCPREQ" \in r.on
  BY <1>1, TimerStartIs
<1>3. lcp_send_configure_request(d) = IF d.lack THEN n ELSE r
  BY DEF lcp_send_configure_request, m
<1> HIDE DEF r, n
<1>4. RestartTimer(r)
  BY <1>2 DEF RestartTimer
<1>5. Keeps(d, r)
  BY <1>1, <1>2, <1>4 DEF Keeps
<1> QED
  BY <1>0, <1>1, <1>2, <1>3, <1>4, <1>5 DEF Same, Acks

LEMMA LayerUpIs ==
    ASSUME NEW d \in Devices
    PROVE  Keeps(d, lcp_this_layer_up(d)) /\ Acks(d, lcp_this_layer_up(d))
<1>1. CASE d.auth = "unknown"
  BY <1>1 DEF lcp_this_layer_up, Keeps, Acks
<1>2. CASE d.auth # "unknown"
  <2>1. d.auth \in {"none", "PAP", "CHAP"}
    BY <1>2 DEF Devices, AuthValues
  <2>2. PICK e \in AuthEvents : lcp_this_layer_up(d) = AuthEvaluate(e, d)
    BY <1>2, <2>1 DEF lcp_this_layer_up, AuthEvents
  <2> QED
    BY <2>2, AuthIs
<1> QED
  BY <1>1, <1>2

(* What the handler h makes of d.                                          *)
Handled(h, d, r) ==
    /\ Keeps(d, r)
    /\ h = "creq" => (RestartTimer(r) \/ r.missed) /\ r.ack_sent = d.ack_sent /\ r.auth_state = d.auth_state
    /\ h \in {"treq", "irc"} => RestartTimer(r) /\ Same(d, r)
    /\ h = "ack" => r.ack_sent /\ r.ack_rcvd = d.ack_rcvd /\ r.auth_state = d.auth_state
    /\ h = "nack" => r.ack_rcvd = d.ack_rcvd /\ r.auth_state = d.auth_state
    /\ h = "up" => Acks(d, r)
    /\ h = "down" => Acks(d, r) /\ r.auth_state = "INITIAL"
    /\ h = "started" => Same(d, r)

LEMMA LcpHandlerIs ==
    ASSUME NEW d \in Devices,
           NEW h \in {"creq", "treq", "irc", "ack", "nack", "up", "down", "started"}
    PROVE  Handled(h, d, LcpHandler(h, d))
<1>1. CASE h = "creq"
  BY <1>1, ConfigureRequestIs DEF LcpHandler, Handled
<1>2. CASE h = "treq"
  BY <1>2, TimerStartIs DEF LcpHandler, lcp_send_terminate_request, Handled, RestartTimer
<1>3. CASE h = "irc"
  BY <1>3, TimerStartIs DEF LcpHandler, lcp_initialize_restart_count, Handled, RestartTimer
<1>4. CASE h = "ack"
  BY <1>4 DEF LcpHandler, lcp_send_configure_ack, Handled, Keeps, Devices
<1>5. CASE h = "nack"
  BY <1>5 DEF LcpHandler, lcp_send_configure_nack, Handled, Keeps, Devices
<1>6. CASE h = "up"
  BY <1>6, LayerUpIs DEF LcpHandler, Handled
<1>7. CASE h = "down"
  <2>1. LcpHandler(h, d) = AuthEvaluate("DOWN", d) /\ "DOWN" \in AuthEvents /\ d.auth_state \in AuthStates
    BY <1>7 DEF LcpHandler, AuthEvents, Devices
  <2> QED
    BY <1>7, <2>1, AuthIs, AuthEntry DEF Handled
<1>8. CASE h = "started"
  <2>1. LcpHandler(h, d) = ModemEvaluate("START", d) /\ "START" \in ModemEvents /\ d.modem \in ModemStates
    BY <1>8 DEF LcpHandler, ModemEvents, Devices
  <2> QED
    BY <1>8, <2>1, ModemIs, ModemEntry DEF Handled, Keeps, Same, Acks
<1> QED
  BY <1>1, <1>2, <1>3, <1>4, <1>5, <1>6, <1>7, <1>8

LEMMA LcpHandlerNone ==
    ASSUME NEW d, NEW h \in {"none", "tack", "echo_reply"}
    PROVE  LcpHandler(h, d) = d
BY DEF LcpHandler

-----------------------------------------------------------------------------
(* The table of LCP.                                                       *)

Low == {"INITIAL", "STARTING"}
Untimed == {"INITIAL", "STARTING", "CLOSED", "STOPPED", "OPENED"}

(* The entries t of the table for the state s and the event e.             *)
Shape(s, e, t) ==
    /\ t.next \in LcpStates
    /\ t.next \in Low <=> (e = "DOWN" \/ (e # "UP" /\ s \in Low))
    /\ \/ /\ t.do \in {<<>>, <<"tack">>, <<"echo_reply">>}
          /\ \/ t.next = s
             \/ t.next \in {"INITIAL", "STARTING", "CLOSED"} /\ s # "OPENED"
             \/ t.next \in {"CLOSING", "STOPPING"} /\ s \in {"CLOSING", "STOPPING"}
       \/ t.do = <<"creq">> /\ s # "OPENED" /\ (t.next = "REQ_SENT" \/ (t.next = s /\ s = "ACK_SENT"))
       \/ t.do = <<"treq">> /\ s # "OPENED" /\ t.next \in {"CLOSING", "STOPPING"}
       \/ t.do = <<"irc">> /\ e = "RCA" /\ s = "REQ_SENT" /\ t.next = "ACK_RCVD"
       \/ t.do = <<"ack">> /\ s \in {"REQ_SENT", "ACK_SENT"} /\ t.next = "ACK_SENT"
       \/ /\ t.do = <<"nack">> /\ s \in {"REQ_SENT", "ACK_RCVD", "ACK_SENT"}
          /\ t.next = "REQ_SENT" \/ (t.next = s /\ s = "ACK_RCVD")
       \/ t.do = <<"up">> /\ e = "RCA" /\ s = "ACK_SENT" /\ t.next = "OPENED"
       \/ t.do = <<"ack", "up">> /\ s = "ACK_RCVD" /\ t.next = "OPENED"
       \/ t.do = <<"creq", "ack">> /\ s = "STOPPED" /\ t.next = "ACK_SENT"
       \/ t.do = <<"creq", "nack">> /\ s = "STOPPED" /\ t.next = "REQ_SENT"
       \/ t.do = <<"down">> /\ t.next = "STARTING"
       \/ t.do = <<"down", "treq">> /\ t.next \in {"CLOSING", "REQ_SENT"}
       \/ t.do = <<"down", "treq", "ack">> /\ t.next = "ACK_SENT"
       \/ t.do = <<"down", "creq", "nack">> /\ t.next = "REQ_SENT"
       \/ t.do = <<"started">> /\ s # "OPENED" /\ t.next = "STARTING"
       \/ /\ t.do = <<"finished">> /\ e \in {"CLOSE", "TO_NEG"} /\ s # "OPENED"
          /\ t.next \in {"INITIAL", "CLOSED", "STOPPED"}

LEMMA LcpEntry ==
    ASSUME NEW s \in LcpStates, NEW e \in LcpEvents
    PROVE  Shape(s, e, ppp_lcp_fsm[s][e])
<1>1. CASE s = "INITIAL"
  <2>1. ppp_lcp_fsm[s] = LcpInitial
    BY <1>1 DEF ppp_lcp_fsm
  <2>2. \/ e = "UP" /\ LcpInitial[e] = To("CLOSED", <<>>)
        \/ e = "OPEN" /\ LcpInitial[e] = To("STARTING", <<"started">>)
        \/ /\ e \notin {"UP", "OPEN"}
           /\ LcpInitial[e] = To("INITIAL", <<>>)
    BY DEF LcpInitial, Row, LcpEvents
  <2> QED
    BY <1>1, <2>1, <2>2 DEF Shape, To, Low, LcpStates
<1>2. CASE s = "STARTING"
  <2>1. ppp_lcp_fsm[s] = LcpStarting
    BY <1>2 DEF ppp_lcp_fsm
  <2>2. \/ e = "UP" /\ LcpStarting[e] = To("REQ_SENT", <<"creq">>)
        \/ e = "CLOSE" /\ LcpStarting[e] = To("INITIAL", <<"finished">>)
        \/ /\ e \notin {"UP", "CLOSE"}
           /\ LcpStarting[e] = To("STARTING", <<>>)
    BY DEF LcpStarting, Row, LcpEvents
  <2> QED
    BY <1>2, <2>1, <2>2 DEF Shape, To, Low, LcpStates
<1>3. CASE s = "CLOSED"
  <2>1. ppp_lcp_fsm[s] = LcpClosed
    BY <1>3 DEF ppp_lcp_fsm
  <2>2. \/ e = "DOWN" /\ LcpClosed[e] = To("INITIAL", <<>>)
        \/ e = "OPEN" /\ LcpClosed[e] = To("REQ_SENT", <<"creq">>)
        \/ e \in {"RCR_POS", "RCR_NEG", "RCA", "RCN"} /\ LcpClosed[e] = To("CLOSED", <<"tack">>)
        \/ /\ e \notin {"DOWN", "OPEN", "RCR_POS", "RCR_NEG", "RCA", "RCN"}
           /\ LcpClosed[e] = To("CLOSED", <<>>)
    BY DEF LcpClosed, Row, LcpEvents
  <2> QED
    BY <1>3, <2>1, <2>2 DEF Shape, To, Low, LcpStates
<1>4. CASE s = "STOPPED"
  <2>1. ppp_lcp_fsm[s] = LcpStopped
    BY <1>4 DEF ppp_lcp_fsm
  <2>2. \/ e = "DOWN" /\ LcpStopped[e] = To("STARTING", <<"started">>)
        \/ e = "CLOSE" /\ LcpStopped[e] = To("CLOSED", <<>>)
        \/ e = "RCR_POS" /\ LcpStopped[e] = To("ACK_SENT", <<"creq", "ack">>)
        \/ e = "RCR_NEG" /\ LcpStopped[e] = To("REQ_SENT", <<"creq", "nack">>)
        \/ e \in {"RCA", "RCN"} /\ LcpStopped[e] = To("STOPPED", <<"tack">>)
        \/ /\ e \notin {"DOWN", "CLOSE", "RCR_POS", "RCR_NEG", "RCA", "RCN"}
           /\ LcpStopped[e] = To("STOPPED", <<>>)
    BY DEF LcpStopped, Row, LcpEvents
  <2> QED
    BY <1>4, <2>1, <2>2 DEF Shape, To, Low, LcpStates
<1>5. CASE s = "CLOSING"
  <2>1. ppp_lcp_fsm[s] = LcpClosing
    BY <1>5 DEF ppp_lcp_fsm
  <2>2. \/ e = "DOWN" /\ LcpClosing[e] = To("INITIAL", <<>>)
        \/ e = "OPEN" /\ LcpClosing[e] = To("STOPPING", <<>>)
        \/ e = "TO_POS" /\ LcpClosing[e] = To("CLOSING", <<"treq">>)
        \/ e = "TO_NEG" /\ LcpClosing[e] = To("CLOSED", <<"finished">>)
        \/ /\ e \notin {"DOWN", "OPEN", "TO_POS", "TO_NEG"}
           /\ LcpClosing[e] = To("CLOSING", <<>>)
    BY DEF LcpClosing, Row, LcpEvents
  <2> QED
    BY <1>5, <2>1, <2>2 DEF Shape, To, Low, LcpStates
<1>6. CASE s = "STOPPING"
  <2>1. ppp_lcp_fsm[s] = LcpStopping
    BY <1>6 DEF ppp_lcp_fsm
  <2>2. \/ e = "DOWN" /\ LcpStopping[e] = To("STARTING", <<>>)
        \/ e = "CLOSE" /\ LcpStopping[e] = To("CLOSING", <<>>)
        \/ e = "TO_POS" /\ LcpStopping[e] = To("STOPPING", <<"treq">>)
        \/ e = "TO_NEG" /\ LcpStopping[e] = To("STOPPED", <<"finished">>)
        \/ /\ e \notin {"DOWN", "CLOSE", "TO_POS", "TO_NEG"}
           /\ LcpStopping[e] = To("STOPPING", <<>>)
    BY DEF LcpStopping, Row, LcpEvents
  <2> QED
    BY <1>6, <2>1, <2>2 DEF Shape, To, Low, LcpStates
<1>7. CASE s = "REQ_SENT"
  <2>1. ppp_lcp_fsm[s] = LcpReqSent
    BY <1>7 DEF ppp_lcp_fsm
  <2>2. \/ e = "DOWN" /\ LcpReqSent[e] = To("STARTING", <<>>)
        \/ e = "CLOSE" /\ LcpReqSent[e] = To("CLOSING", <<"treq">>)
        \/ e = "TO_NEG" /\ LcpReqSent[e] = To("STOPPED", <<"finished">>)
        \/ e \in {"TO_POS", "RCN"} /\ LcpReqSent[e] = To("REQ_SENT", <<"creq">>)
        \/ e = "RCR_POS" /\ LcpReqSent[e] = To("ACK_SENT", <<"ack">>)
        \/ e = "RCR_NEG" /\ LcpReqSent[e] = To("REQ_SENT", <<"nack">>)
        \/ e = "RCA" /\ LcpReqSent[e] = To("ACK_RCVD", <<"irc">>)
        \/ /\ e \notin {"DOWN", "CLOSE", "TO_NEG", "TO_POS", "RCR_POS", "RCR_NEG", "RCA", "RCN"}
           /\ LcpReqSent[e] = To("REQ_SENT", <<>>)
    BY DEF LcpReqSent, Negotiating, Row, LcpEvents
  <2> QED
    BY <1>7, <2>1, <2>2 DEF Shape, To, Low, LcpStates
<1>8. CASE s = "ACK_RCVD"
  <2>1. ppp_lcp_fsm[s] = LcpAckRcvd
    BY <1>8 DEF ppp_lcp_fsm
  <2>2. \/ e = "DOWN" /\ LcpAckRcvd[e] = To("STARTING", <<>>)
        \/ e = "CLOSE" /\ LcpAckRcvd[e] = To("CLOSING", <<"treq">>)
        \/ e = "TO_NEG" /\ LcpAckRcvd[e] = To("STOPPED", <<"finished">>)
        \/ e \in {"TO_POS", "RCA", "RCN"} /\ LcpAckRcvd[e] = To("REQ_SENT", <<"creq">>)
        \/ e = "RCR_POS" /\ LcpAckRcvd[e] = To("OPENED", <<"ack", "up">>)
        \/ e = "RCR_NEG" /\ LcpAckRcvd[e] = To("ACK_RCVD", <<"nack">>)
        \/ /\ e \notin {"DOWN", "CLOSE", "TO_NEG", "TO_POS", "RCR_POS", "RCR_NEG", "RCA", "RCN"}
           /\ LcpAckRcvd[e] = To("ACK_RCVD", <<>>)
    BY DEF LcpAckRcvd, Negotiating, Row, LcpEvents
  <2> QED
    BY <1>8, <2>1, <2>2 DEF Shape, To, Low, LcpStates
<1>9. CASE s = "ACK_SENT"
  <2>1. ppp_lcp_fsm[s] = LcpAckSent
    BY <1>9 DEF ppp_lcp_fsm
  <2>2. \/ e = "DOWN" /\ LcpAckSent[e] = To("STARTING", <<>>)
        \/ e = "CLOSE" /\ LcpAckSent[e] = To("CLOSING", <<"treq">>)
        \/ e = "TO_NEG" /\ LcpAckSent[e] = To("STOPPED", <<"finished">>)
        \/ e \in {"TO_POS", "RCN"} /\ LcpAckSent[e] = To("ACK_SENT", <<"creq">>)
        \/ e = "RCR_POS" /\ LcpAckSent[e] = To("ACK_SENT", <<"ack">>)
        \/ e = "RCR_NEG" /\ LcpAckSent[e] = To("REQ_SENT", <<"nack">>)
        \/ e = "RCA" /\ LcpAckSent[e] = To("OPENED", <<"up">>)
        \/ /\ e \notin {"DOWN", "CLOSE", "TO_NEG", "TO_POS", "RCR_POS", "RCR_NEG", "RCA", "RCN"}
           /\ LcpAckSent[e] = To("ACK_SENT", <<>>)
    BY DEF LcpAckSent, Negotiating, Row, LcpEvents
  <2> QED
    BY <1>9, <2>1, <2>2 DEF Shape, To, Low, LcpStates
<1>10. CASE s = "OPENED"
  <2>1. ppp_lcp_fsm[s] = LcpOpened
    BY <1>10 DEF ppp_lcp_fsm
  <2>2. \/ e = "DOWN" /\ LcpOpened[e] = To("STARTING", <<"down">>)
        \/ e = "CLOSE" /\ LcpOpened[e] = To("CLOSING", <<"down", "treq">>)
        \/ e = "RCR_POS" /\ LcpOpened[e] = To("ACK_SENT", <<"down", "treq", "ack">>)
        \/ e = "RCR_NEG" /\ LcpOpened[e] = To("REQ_SENT", <<"down", "creq", "nack">>)
        \/ e \in {"RCA", "RCN"} /\ LcpOpened[e] = To("REQ_SENT", <<"down", "treq">>)
        \/ e = "RXR" /\ LcpOpened[e] = To("OPENED", <<"echo_reply">>)
        \/ /\ e \notin {"DOWN", "CLOSE", "RCR_POS", "RCR_NEG", "RCA", "RCN", "RXR"}
           /\ LcpOpened[e] = To("OPENED", <<>>)
    BY DEF LcpOpened, Row, LcpEvents
  <2> QED
    BY <1>10, <2>1, <2>2 DEF Shape, To, Low, LcpStates
<1> QED
  BY <1>1, <1>2, <1>3, <1>4, <1>5, <1>6, <1>7, <1>8, <1>9, <1>10 DEF LcpStates

LEMMA TimedStates ==
    ASSUME NEW s \in LcpStates
    PROVE  ppp_lcp_fsm[s]["TO_POS"].do = <<>> <=> s \in Untimed
<1>1. CASE s = "INITIAL"
  <2>1. ppp_lcp_fsm[s] = LcpInitial
    BY <1>1 DEF ppp_lcp_fsm
  <2> QED
    BY <1>1, <2>1 DEF LcpInitial, Row, To, Untimed, LcpEvents
<1>2. CASE s = "STARTING"
  <2>1. ppp_lcp_fsm[s] = LcpStarting
    BY <1>2 DEF ppp_lcp_fsm
  <2> QED
    BY <1>2, <2>1 DEF LcpStarting, Row, To, Untimed, LcpEvents
<1>3. CASE s = "CLOSED"
  <2>1. ppp_lcp_fsm[s] = LcpClosed
    BY <1>3 DEF ppp_lcp_fsm
  <2> QED
    BY <1>3, <2>1 DEF LcpClosed, Row, To, Untimed, LcpEvents
<1>4. CASE s = "STOPPED"
  <2>1. ppp_lcp_fsm[s] = LcpStopped
    BY <1>4 DEF ppp_lcp_fsm
  <2> QED
    BY <1>4, <2>1 DEF LcpStopped, Row, To, Untimed, LcpEvents
<1>5. CASE s = "CLOSING"
  <2>1. ppp_lcp_fsm[s] = LcpClosing
    BY <1>5 DEF ppp_lcp_fsm
  <2> QED
    BY <1>5, <2>1 DEF LcpClosing, Row, To, Untimed, LcpEvents
<1>6. CASE s = "STOPPING"
  <2>1. ppp_lcp_fsm[s] = LcpStopping
    BY <1>6 DEF ppp_lcp_fsm
  <2> QED
    BY <1>6, <2>1 DEF LcpStopping, Row, To, Untimed, LcpEvents
<1>7. CASE s = "REQ_SENT"
  <2>1. ppp_lcp_fsm[s] = LcpReqSent
    BY <1>7 DEF ppp_lcp_fsm
  <2>2. LcpReqSent["TO_POS"] = To("REQ_SENT", <<"creq">>)
    BY DEF LcpReqSent, Negotiating, Row, LcpEvents
  <2> QED
    BY <1>7, <2>1, <2>2 DEF To, Untimed
<1>8. CASE s = "ACK_RCVD"
  <2>1. ppp_lcp_fsm[s] = LcpAckRcvd
    BY <1>8 DEF ppp_lcp_fsm
  <2>2. LcpAckRcvd["TO_POS"] = To("REQ_SENT", <<"creq">>)
    BY DEF LcpAckRcvd, Negotiating, Row, LcpEvents
  <2> QED
    BY <1>8, <2>1, <2>2 DEF To, Untimed
<1>9. CASE s = "ACK_SENT"
  <2>1. ppp_lcp_fsm[s] = LcpAckSent
    BY <1>9 DEF ppp_lcp_fsm
  <2>2. LcpAckSent["TO_POS"] = To("ACK_SENT", <<"creq">>)
    BY DEF LcpAckSent, Negotiating, Row, LcpEvents
  <2> QED
    BY <1>9, <2>1, <2>2 DEF To, Untimed
<1>10. CASE s = "OPENED"
  <2>1. ppp_lcp_fsm[s] = LcpOpened
    BY <1>10 DEF ppp_lcp_fsm
  <2> QED
    BY <1>10, <2>1 DEF LcpOpened, Row, To, Untimed, LcpEvents
<1> QED
  BY <1>1, <1>2, <1>3, <1>4, <1>5, <1>6, <1>7, <1>8, <1>9, <1>10 DEF LcpStates

-----------------------------------------------------------------------------
(* The inductive invariant of the device: Line is the modem's part, Core   *)
(* is LCP's, which holds also while one of the two machines calls the      *)
(* other.                                                                  *)

Line(d) == d.modem = "CONNECTED" <=> d.lcp \notin Low
Timed(d) == /\ d.lcp \notin Untimed => RestartTimer(d) \/ d.missed
            /\ d.lcp \in {"ACK_RCVD", "CLOSING", "STOPPING"} => RestartTimer(d)
Authed(d) == d.auth_state # "INITIAL" => d.lcp = "OPENED"
Acked(d) == /\ d.lcp \in {"ACK_RCVD", "OPENED"} => d.ack_rcvd
            /\ d.lcp \in {"ACK_SENT", "OPENED"} => d.ack_sent
Core(d) == d \in Devices /\ Timed(d) /\ Authed(d) /\ Acked(d)
PppOK(d) == Core(d) /\ Line(d)

LEMMA MoveIs ==
    ASSUME NEW d \in Devices, NEW t, t.next \in LcpStates
    PROVE  LET m == LcpMove(t, d) IN
           /\ m \in Devices /\ m.lcp = t.next /\ m.modem = d.modem /\ Same(d, m)
           /\ m.count = d.count /\ (t.next \notin Untimed => m.on = d.on)
<1>1. LcpMove(t, d) = [d EXCEPT !.lcp = t.next,
                                !.on = IF t.next \in Untimed THEN @ \ {"LCPREQ", "LCPTERM"} ELSE @]
  BY TimedStates DEF LcpMove
<1> QED
  BY <1>1 DEF Devices, Same, Acks

(* An entry runs its handlers in turn.                                     *)
LEMMA Runs ==
    ASSUME NEW t, NEW d
    PROVE  LET m == LcpMove(t, d) IN
           /\ t.do \in {<<>>, <<"tack">>, <<"echo_reply">>} => LcpApply(t, d) = m
           /\ \A h : t.do = <<h>> => LcpApply(t, d) = LcpHandler(h, m)
           /\ \A h, i : t.do = <<h, i>> => LcpApply(t, d) = LcpHandler(i, LcpHandler(h, m))
           /\ \A h, i, j : t.do = <<h, i, j>>
                => LcpApply(t, d) = LcpHandler(j, LcpHandler(i, LcpHandler(h, m)))
<1> DEFINE m == LcpMove(t, d)
<1>1. LcpApply(t, d) = LcpHandler(Handler(t, 3), LcpHandler(Handler(t, 2), LcpHandler(Handler(t, 1), m)))
  BY DEF LcpApply
<1>2. \A x : LcpHandler("none", x) = x /\ LcpHandler("tack", x) = x /\ LcpHandler("echo_reply", x) = x
  BY LcpHandlerNone
<1>3. \A h : t.do = <<h>> => Handler(t, 1) = h /\ Handler(t, 2) = "none" /\ Handler(t, 3) = "none"
  BY DEF Handler
<1>4. \A h, i : t.do = <<h, i>> => Handler(t, 1) = h /\ Handler(t, 2) = i /\ Handler(t, 3) = "none"
  BY DEF Handler
<1>5. \A h, i, j : t.do = <<h, i, j>> => Handler(t, 1) = h /\ Handler(t, 2) = i /\ Handler(t, 3) = j
  BY DEF Handler
<1>6. t.do = <<>> => Handler(t, 1) = "none" /\ Handler(t, 2) = "none" /\ Handler(t, 3) = "none"
  BY DEF Handler
<1> HIDE DEF m
<1>7. \A h : t.do = <<h>> => LcpApply(t, d) = LcpHandler(h, m)
  BY <1>1, <1>2, <1>3
<1>8. \A h, i : t.do = <<h, i>> => LcpApply(t, d) = LcpHandler(i, LcpHandler(h, m))
  BY <1>1, <1>2, <1>4
<1>9. \A h, i, j : t.do = <<h, i, j>>
                => LcpApply(t, d) = LcpHandler(j, LcpHandler(i, LcpHandler(h, m)))
  BY <1>1, <1>5
<1>10. t.do \in {<<>>, <<"tack">>, <<"echo_reply">>} => LcpApply(t, d) = m
  BY <1>1, <1>2, <1>6, <1>7
<1> QED
  BY <1>7, <1>8, <1>9, <1>10 DEF m

(* What an entry that does not stop the modem makes of d.                  *)
Moved(d, t, r) ==
    /\ Core(r) /\ r.lcp = t.next
    /\ r.modem = "CONNECTED" <=> d.modem = "CONNECTED"
    /\ d.count # 0 => r.count = d.count

LEMMA LcpApplyIs ==
    ASSUME NEW d, Core(d), NEW e, e = "RCA" => d.ack_rcvd, NEW t, Shape(d.lcp, e, t), t.do # <<"finished">>
    PROVE  Moved(d, t, LcpApply(t, d))
<1> DEFINE m == LcpMove(t, d)
<1>1. /\ m \in Devices /\ m.lcp = t.next /\ m.modem = d.modem /\ Same(d, m)
      /\ m.count = d.count /\ (t.next \notin Untimed => m.on = d.on)
  BY MoveIs DEF Core, Shape
<1>2. /\ t.do \in {<<>>, <<"tack">>, <<"echo_reply">>} => LcpApply(t, d) = m
      /\ \A h : t.do = <<h>> => LcpApply(t, d) = LcpHandler(h, m)
      /\ \A h, i : t.do = <<h, i>> => LcpApply(t, d) = LcpHandler(i, LcpHandler(h, m))
      /\ \A h, i, j : t.do = <<h, i, j>>
           => LcpApply(t, d) = LcpHandler(j, LcpHandler(i, LcpHandler(h, m)))
  BY Runs
<1>3. d \in Devices /\ Timed(d) /\ Authed(d) /\ Acked(d) /\ d.lcp \in LcpStates
  BY DEF Core, Devices
<1> HIDE DEF m
<1> DEFINE r == LcpApply(t, d)
<1>4. CASE t.do \in {<<>>, <<"tack">>, <<"echo_reply">>}
  <2>1. \/ t.next = d.lcp
        \/ t.next \in {"INITIAL", "STARTING", "CLOSED"} /\ d.lcp # "OPENED"
        \/ t.next \in {"CLOSING", "STOPPING"} /\ d.lcp \in {"CLOSING", "STOPPING"}
    BY <1>4 DEF Shape
  <2>2. r = m
    BY <1>2, <1>4
  <2> QED
    BY <1>1, <1>3, <2>1, <2>2 DEF Moved, Core, Timed, RestartTimer, Authed, Acked, Untimed, Same, Acks
<1>5. CASE t.do = <<"creq">>
  <2>1. d.lcp # "OPENED" /\ (t.next = "REQ_SENT" \/ (t.next = d.lcp /\ d.lcp = "ACK_SENT"))
    BY <1>5 DEF Shape
  <2>2. Handled("creq", m, r)
    BY <1>1, <1>2, <1>5, LcpHandlerIs
  <2> QED
    BY <1>1, <1>3, <2>1, <2>2 DEF Handled, Keeps, Moved, Core, Timed, RestartTimer, Authed, Acked, Untimed, Same, Acks
<1>6. CASE t.do = <<"treq">>
  <2>1. d.lcp # "OPENED" /\ t.next \in {"CLOSING", "STOPPING"}
    BY <1>6 DEF Shape
  <2>2. Handled("treq", m, r)
    BY <1>1, <1>2, <1>6, LcpHandlerIs
  <2> QED
    BY <1>1, <1>3, <2>1, <2>2 DEF Handled, Keeps, Moved, Core, Timed, RestartTimer, Authed, Acked, Untimed, Same, Acks
<1>7. CASE t.do = <<"irc">>
  <2>1. e = "RCA" /\ d.lcp = "REQ_SENT" /\ t.next = "ACK_RCVD"
    BY <1>7 DEF Shape
  <2>2. Handled("irc", m, r)
    BY <1>1, <1>2, <1>7, LcpHandlerIs
  <2> QED
    BY <1>1, <1>3, <2>1, <2>2 DEF Handled, Keeps, Moved, Core, Timed, RestartTimer, Authed, Acked, Untimed, Same, Acks
<1>8. CASE t.do = <<"ack">>
  <2>1. d.lcp \in {"REQ_SENT", "ACK_SENT"} /\ t.next = "ACK_SENT"
    BY <1>8 DEF Shape
  <2>2. Handled("ack", m, r)
    BY <1>1, <1>2, <1>8, LcpHandlerIs
  <2> QED
    BY <1>1, <1>3, <2>1, <2>2 DEF Handled, Keeps, Moved, Core, Timed, RestartTimer, Authed, Acked, Untimed, Same, Acks
<1>9. CASE t.do = <<"nack">>
  <2>1. /\ d.lcp \in {"REQ_SENT", "ACK_RCVD", "ACK_SENT"}
        /\ t.next = "REQ_SENT" \/ (t.next = d.lcp /\ d.lcp = "ACK_RCVD")
    BY <1>9 DEF Shape
  <2>2. Handled("nack", m, r)
    BY <1>1, <1>2, <1>9, LcpHandlerIs
  <2> QED
    BY <1>1, <1>3, <2>1, <2>2 DEF Handled, Keeps, Moved, Core, Timed, RestartTimer, Authed, Acked, Untimed, Same, Acks
<1>10. CASE t.do = <<"up">>
  <2>1. e = "RCA" /\ d.lcp = "ACK_SENT" /\ t.next = "OPENED"
    BY <1>10 DEF Shape
  <2>2. Handled("up", m, r)
    BY <1>1, <1>2, <1>10, LcpHandlerIs
  <2> QED
    BY <1>1, <1>3, <2>1, <2>2 DEF Handled, Keeps, Moved, Core, Timed, RestartTimer, Authed, Acked, Untimed, Same, Acks
<1>11. CASE t.do = <<"ack", "up">>
  <2>1. d.lcp = "ACK_RCVD" /\ t.next = "OPENED"
    BY <1>11 DEF Shape
  <2> DEFINE n == LcpHandler("ack", m)
  <2>2. Handled("ack", m, n)
    BY <1>1, LcpHandlerIs
  <2>3. Handled("up", n, r)
    BY <1>2, <1>11, <2>2, LcpHandlerIs DEF Handled, Keeps
  <2> HIDE DEF n
  <2> QED
    BY <1>1, <1>3, <2>1, <2>2, <2>3 DEF Handled, Keeps, Moved, Core, Timed, RestartTimer, Authed, Acked, Untimed, Same, Acks
<1>12. CASE t.do = <<"creq", "ack">>
  <2>1. d.lcp = "STOPPED" /\ t.next = "ACK_SENT"
    BY <1>12 DEF Shape
  <2> DEFINE n == LcpHandler("creq", m)
  <2>2. Handled("creq", m, n)
    BY <1>1, LcpHandlerIs
  <2>3. Handled("ack", n, r)
    BY <1>2, <1>12, <2>2, LcpHandlerIs DEF Handled, Keeps
  <2> HIDE DEF n
  <2> QED
    BY <1>1, <1>3, <2>1, <2>2, <2>3 DEF Handled, Keeps, Moved, Core, Timed, RestartTimer, Authed, Acked, Untimed, Same, Acks
<1>13. CASE t.do = <<"creq", "nack">>
  <2>1. d.lcp = "STOPPED" /\ t.next = "REQ_SENT"
    BY <1>13 DEF Shape
  <2> DEFINE n == LcpHandler("creq", m)
  <2>2. Handled("creq", m, n)
    BY <1>1, LcpHandlerIs
  <2>3. Handled("nack", n, r)
    BY <1>2, <1>13, <2>2, LcpHandlerIs DEF Handled, Keeps
  <2> HIDE DEF n
  <2> QED
    BY <1>1, <1>3, <2>1, <2>2, <2>3 DEF Handled, Keeps, Moved, Core, Timed, RestartTimer, Authed, Acked, Untimed, Same, Acks
<1>14. CASE t.do = <<"down">>
  <2>1. t.next = "STARTING"
    BY <1>14 DEF Shape
  <2>2. Handled("down", m, r)
    BY <1>1, <1>2, <1>14, LcpHandlerIs
  <2> QED
    BY <1>1, <1>3, <2>1, <2>2 DEF Handled, Keeps, Moved, Core, Timed, RestartTimer, Authed, Acked, Untimed, Same, Acks
<1>15. CASE t.do = <<"down", "treq">>
  <2>1. t.next \in {"CLOSING", "REQ_SENT"}
    BY <1>15 DEF Shape
  <2> DEFINE n == LcpHandler("down", m)
  <2>2. Handled("down", m, n)
    BY <1>1, LcpHandlerIs
  <2>3. Handled("treq", n, r)
    BY <1>2, <1>15, <2>2, LcpHandlerIs DEF Handled, Keeps
  <2> HIDE DEF n
  <2> QED
    BY <1>1, <1>3, <2>1, <2>2, <2>3 DEF Handled, Keeps, Moved, Core, Timed, RestartTimer, Authed, Acked, Untimed, Same, Acks
<1>16. CASE t.do = <<"down", "treq", "ack">>
  <2>1. t.next = "ACK_SENT"
    BY <1>16 DEF Shape
  <2> DEFINE n == LcpHandler("down", m)
             o == LcpHandler("treq", n)
  <2>2. Handled("down", m, n)
    BY <1>1, LcpHandlerIs
  <2>3. Handled("treq", n, o)
    BY <2>2, LcpHandlerIs DEF Handled, Keeps
  <2>4. Handled("ack", o, r)
    BY <1>2, <1>16, <2>3, LcpHandlerIs DEF Handled, Keeps
  <2> HIDE DEF n, o
  <2> QED
    BY <1>1, <1>3, <2>1, <2>2, <2>3, <2>4
    DEF Handled, Keeps, Moved, Core, Timed, RestartTimer, Authed, Acked, Untimed, Same, Acks
<1>17. CASE t.do = <<"down", "creq", "nack">>
  <2>1. t.next = "REQ_SENT"
    BY <1>17 DEF Shape
  <2> DEFINE n == LcpHandler("down", m)
             o == LcpHandler("creq", n)
  <2>2. Handled("down", m, n)
    BY <1>1, LcpHandlerIs
  <2>3. Handled("creq", n, o)
    BY <2>2, LcpHandlerIs DEF Handled, Keeps
  <2>4. Handled("nack", o, r)
    BY <1>2, <1>17, <2>3, LcpHandlerIs DEF Handled, Keeps
  <2> HIDE DEF n, o
  <2> QED
    BY <1>1, <1>3, <2>1, <2>2, <2>3, <2>4
    DEF Handled, Keeps, Moved, Core, Timed, RestartTimer, Authed, Acked, Untimed, Same, Acks
<1>18. CASE t.do = <<"started">>
  <2>1. d.lcp # "OPENED" /\ t.next = "STARTING"
    BY <1>18 DEF Shape
  <2>2. Handled("started", m, r)
    BY <1>1, <1>2, <1>18, LcpHandlerIs
  <2> QED
    BY <1>1, <1>3, <2>1, <2>2 DEF Handled, Keeps, Moved, Core, Timed, RestartTimer, Authed, Acked, Untimed, Same, Acks
<1> QED
  BY <1>4, <1>5, <1>6, <1>7, <1>8, <1>9, <1>10, <1>11, <1>12, <1>13, <1>14, <1>15, <1>16, <1>17, <1>18
  DEF Shape

-----------------------------------------------------------------------------
(* The events of LCP and of the modem.                                     *)

LEMMA LcpDownIs ==
    ASSUME NEW d, Core(d), d.modem # "CONNECTED"
    PROVE  PppOK(LcpDown(d)) /\ (d.count # 0 => LcpDown(d).count = d.count)
<1> DEFINE t == ppp_lcp_fsm[d.lcp]["DOWN"]
           r == LcpApply(t, d)
<1>1. Shape(d.lcp, "DOWN", t)
  BY LcpEntry DEF Core, Devices, LcpEvents
<1> HIDE DEF t
<1>2. t.next \in Low /\ t.do # <<"finished">>
  BY <1>1 DEF Shape
<1>3. Moved(d, t, r)
  BY <1>1, <1>2, LcpApplyIs
<1>4. LcpDown(d) = r
  BY DEF LcpDown, t
<1> QED
  BY <1>2, <1>3, <1>4 DEF Moved, PppOK, Line

LEMMA Finishes ==
    ASSUME NEW s, NEW e, NEW t, Shape(s, e, t)
    PROVE  Handler(t, 1) = "finished" <=> t.do = <<"finished">>
<1>1. t.do = <<"finished">> => Handler(t, 1) = "finished"
  BY DEF Handler
<1>2. ASSUME t.do # <<"finished">> PROVE Handler(t, 1) # "finished"
  <2>1. \/ t.do = <<>> \/ t.do = <<"tack">> \/ t.do = <<"echo_reply">>
        \/ t.do = <<"creq">> \/ t.do = <<"treq">> \/ t.do = <<"irc">> \/ t.do = <<"ack">>
        \/ t.do = <<"nack">> \/ t.do = <<"up">> \/ t.do = <<"ack", "up">>
        \/ t.do = <<"creq", "ack">> \/ t.do = <<"creq", "nack">> \/ t.do = <<"down">>
        \/ t.do = <<"down", "treq">> \/ t.do = <<"down", "treq", "ack">>
        \/ t.do = <<"down", "creq", "nack">> \/ t.do = <<"started">>
    BY <1>2 DEF Shape
  <2> QED
    BY <2>1 DEF Handler
<1> QED
  BY <1>1, <1>2

LEMMA ModemStopIs ==
    ASSUME NEW d, Core(d), d.modem # "CONNECTED" => d.lcp \in Low
    PROVE  PppOK(ModemStop(d)) /\ (d.count # 0 => ModemStop(d).count = d.count)
<1>1. CASE d.modem = "CONNECTED"
  <2> DEFINE m == [d EXCEPT !.modem = "INITIAL"]
  <2>1. Core(m) /\ m.modem # "CONNECTED" /\ m.count = d.count
    BY DEF Core, Timed, RestartTimer, Authed, Acked, Devices, ModemStates
  <2>2. ModemStop(d) = LcpDown(m)
    BY <1>1 DEF ModemStop
  <2> HIDE DEF m
  <2> QED
    BY <2>1, <2>2, LcpDownIs
<1>2. CASE d.modem # "CONNECTED"
  <2> DEFINE r == ModemEvaluate("STOP", d)
  <2>1. d \in Devices /\ d.modem \in ModemStates /\ "STOP" \in ModemEvents
    BY DEF Core, Devices, ModemEvents
  <2>2. /\ r \in Devices /\ r.lcp = d.lcp /\ d.on \subseteq r.on /\ Same(d, r)
        /\ r.count = d.count /\ r.modem = ppp_modem_fsm[d.modem]["STOP"].next
    BY <2>1, ModemIs
  <2>3. r.modem # "CONNECTED"
    BY <1>2, <2>1, <2>2, ModemEntry
  <2>4. ModemStop(d) = r
    BY <1>2 DEF ModemStop
  <2> HIDE DEF r
  <2> QED
    BY <1>2, <2>2, <2>3, <2>4 DEF PppOK, Core, Line, Timed, RestartTimer, Authed, Acked, Same, Acks
<1> QED
  BY <1>1, <1>2

LEMMA LcpIs ==
    ASSUME NEW d, PppOK(d), NEW e \in LcpEvents \ {"UP", "DOWN"}, e = "RCA" => d.ack_rcvd
    PROVE  /\ PppOK(evaluate_lcp_state(e, d))
           /\ d.count # 0 => evaluate_lcp_state(e, d).count = d.count
<1> DEFINE t == ppp_lcp_fsm[d.lcp][e]
<1>1. Core(d) /\ Line(d) /\ d \in Devices
  BY DEF PppOK, Core
<1>2. Shape(d.lcp, e, t)
  BY <1>1, LcpEntry DEF Devices
<1>3. evaluate_lcp_state(e, d) = LcpFinish(t, d)
  BY DEF evaluate_lcp_state
<1> HIDE DEF t
<1>4. CASE t.do = <<"finished">>
  <2> DEFINE m == LcpMove(t, d)
  <2>1. LcpFinish(t, d) = ModemStop(m)
    BY <1>2, <1>4, Finishes DEF LcpFinish
  <2>2. /\ m \in Devices /\ m.lcp = t.next /\ m.modem = d.modem /\ Same(d, m)
        /\ m.count = d.count
    BY <1>1, <1>2, MoveIs DEF Shape
  <2>3. d.lcp # "OPENED" /\ t.next \in {"INITIAL", "CLOSED", "STOPPED"}
        /\ (t.next \in Low <=> d.lcp \in Low)
    BY <1>2, <1>4 DEF Shape
  <2> HIDE DEF m
  <2>4. Core(m) /\ (m.modem # "CONNECTED" => m.lcp \in Low)
    BY <1>1, <2>2, <2>3 DEF Core, Line, Timed, RestartTimer, Authed, Acked, Untimed, Same, Acks
  <2> QED
    BY <1>3, <2>1, <2>2, <2>4, ModemStopIs
<1>5. CASE t.do # <<"finished">>
  <2> DEFINE r == LcpApply(t, d)
  <2>1. LcpFinish(t, d) = r
    BY <1>2, <1>5, Finishes DEF LcpFinish
  <2>2. Moved(d, t, r)
    BY <1>1, <1>2, <1>5, LcpApplyIs
  <2>3. t.next \in Low <=> d.lcp \in Low
    BY <1>2 DEF Shape
  <2> QED
    BY <1>1, <1>3, <2>1, <2>2, <2>3 DEF Moved, PppOK, Line
<1> QED
  BY <1>4, <1>5

(* The modem connects: LCP comes up.                                       *)
LEMMA ConnectIs ==
    ASSUME NEW d, PppOK(d), d.modem = "DIAL"
    PROVE  PppOK(evaluate_modem_state("CONNECT", d))
<1> DEFINE n == ModemEvaluate("CONNECT", d)
           c == [n EXCEPT !.ack_rcvd = FALSE, !.ack_sent = FALSE]
           t == ppp_lcp_fsm[c.lcp]["UP"]
           r == LcpApply(t, c)
<1>1. Core(d) /\ Line(d) /\ d \in Devices /\ "CONNECT" \in ModemEvents
  BY DEF PppOK, Core, ModemEvents
<1>2. evaluate_modem_state("CONNECT", d) = evaluate_lcp_state("UP", c)
  BY DEF evaluate_modem_state
<1>3. /\ n \in Devices /\ n.lcp = d.lcp /\ Same(d, n)
      /\ n.modem = ppp_modem_fsm["DIAL"]["CONNECT"].next
  BY <1>1, ModemIs
<1>4. ppp_modem_fsm["DIAL"]["CONNECT"].next = "CONNECTED"
  BY DEF ppp_modem_fsm, Row, To, ModemEvents
<1>5. d.lcp \in Low /\ d.auth_state = "INITIAL"
  BY <1>1 DEF Core, Line, Authed, Low
<1> HIDE DEF n
<1>6. c \in Devices /\ c.lcp = d.lcp /\ c.modem = "CONNECTED" /\ c.auth_state = "INITIAL"
  BY <1>3, <1>4, <1>5 DEF Devices, Same
<1> HIDE DEF c
<1>7. Core(c)
  BY <1>5, <1>6 DEF Core, Timed, RestartTimer, Authed, Acked, Low, Untimed
<1>8. Shape(c.lcp, "UP", t)
  BY <1>6, LcpEntry DEF Devices, LcpEvents
<1>9. evaluate_lcp_state("UP", c) = LcpFinish(t, c)
  BY DEF evaluate_lcp_state
<1> HIDE DEF t
<1>10. t.next \notin Low /\ t.do # <<"finished">>
  BY <1>8 DEF Shape
<1>11. Moved(c, t, r) /\ LcpFinish(t, c) = r
  BY <1>7, <1>8, <1>10, LcpApplyIs, Finishes DEF LcpFinish
<1> QED
  BY <1>2, <1>6, <1>9, <1>10, <1>11 DEF Moved, PppOK, Line

(* The other events of the modem while it stays on its side of the line.   *)
LEMMA ModemEventIs ==
    ASSUME NEW d, PppOK(d), NEW e \in {"OK", "STOP", "CONNECT", "TIMEOUT"},
           d.modem = "CONNECTED" => e = "TIMEOUT"
    PROVE  PppOK(evaluate_modem_state(e, d))
<1>1. Core(d) /\ Line(d) /\ d \in Devices /\ e \in ModemEvents
  BY DEF PppOK, Core, ModemEvents
<1>2. CASE e = "CONNECT" /\ d.modem = "DIAL"
  BY <1>2, ConnectIs
<1>3. CASE e = "STOP"
  <2>1. evaluate_modem_state(e, d) = ModemStop(d)
    BY <1>3 DEF evaluate_modem_state
  <2> QED
    BY <1>1, <2>1, ModemStopIs DEF Line
<1>4. CASE e # "STOP" /\ ~(e = "CONNECT" /\ d.modem = "DIAL")
  <2> DEFINE r == ModemEvaluate(e, d)
  <2>1. evaluate_modem_state(e, d) = r
    BY <1>4 DEF evaluate_modem_state
  <2>2. /\ r \in Devices /\ r.lcp = d.lcp /\ d.on \subseteq r.on /\ Same(d, r)
        /\ r.modem = ppp_modem_fsm[d.modem][e].next
    BY <1>1, ModemIs
  <2>3. d.modem \in ModemStates
    BY <1>1 DEF Devices
  <2>4. r.modem = "CONNECTED" <=> d.modem = "CONNECTED"
    BY <1>1, <1>4, <2>2, <2>3, ModemEntry
  <2> HIDE DEF r
  <2> QED
    BY <1>1, <2>1, <2>2, <2>4 DEF PppOK, Core, Line, Timed, RestartTimer, Authed, Acked, Same, Acks
<1> QED
  BY <1>2, <1>3, <1>4

-----------------------------------------------------------------------------
(* The events of the authentication and of IPCP.                           *)

LEMMA KeptOK ==
    ASSUME NEW d, PppOK(d), NEW r, Keeps(d, r), Same(d, r)
    PROVE  PppOK(r)
BY DEF PppOK, Core, Line, Timed, RestartTimer, Authed, Acked, Keeps, Same, Acks

(* A timer that is not LCP's is switched off.                              *)
LEMMA SwitchedOff ==
    ASSUME NEW d, PppOK(d), NEW x \in {"MODEM", "AUTH", "IPCP"}
    PROVE  LET r == [d EXCEPT !.on = @ \ {x}] IN
           /\ PppOK(r) /\ r.modem = d.modem /\ r.auth_state = d.auth_state
<1> DEFINE r == [d EXCEPT !.on = @ \ {x}]
<1>1. d \in Devices
  BY DEF PppOK, Core
<1>2. /\ r \in Devices /\ r.lcp = d.lcp /\ r.modem = d.modem /\ Same(d, r)
      /\ r.on = d.on \ {x}
  BY <1>1 DEF Devices, Same, Acks
<1> HIDE DEF r
<1>3. PppOK(r) /\ r.modem = d.modem /\ r.auth_state = d.auth_state
  BY <1>2 DEF PppOK, Core, Line, Timed, RestartTimer, Authed, Acked, Same, Acks
<1> QED
  BY <1>3 DEF r

LEMMA AuthEventIs ==
    ASSUME NEW d, PppOK(d), NEW e \in {"RAC", "RAA", "RAN", "TO"}
    PROVE  PppOK(evaluate_auth_state(e, d))
<1>1. Core(d) /\ Line(d) /\ d \in Devices /\ e \in AuthEvents /\ d.auth_state \in AuthStates
  BY DEF PppOK, Core, Devices, AuthEvents
<1>2. /\ ppp_auth_fsm[d.auth_state][e].next \in AuthStates
      /\ d.auth_state = "INITIAL" => ppp_auth_fsm[d.auth_state][e].next = "INITIAL"
  BY <1>1, AuthEntry
<1>3. CASE e = "RAN" /\ d.auth_state # "AUTHENTICATED"
  <2> DEFINE n == ppp_auth_fsm[d.auth_state][e].next
             m == [d EXCEPT !.auth_state = n]
             c == [m EXCEPT !.on = @ \ {"AUTH"}]
  <2>1. evaluate_auth_state(e, d) = evaluate_lcp_state("CLOSE", c)
    BY <1>3 DEF evaluate_auth_state, auth_abort
  <2>2. n \in AuthStates /\ (d.auth_state = "INITIAL" => n = "INITIAL")
    BY <1>2
  <2> HIDE DEF n
  <2>3. /\ m \in Devices /\ m.lcp = d.lcp /\ m.modem = d.modem /\ Acks(d, m) /\ m.on = d.on
        /\ m.auth_state = n
    BY <1>1, <2>2 DEF Devices, Acks
  <2> HIDE DEF m
  <2>4. PppOK(m)
    BY <1>1, <2>2, <2>3 DEF PppOK, Core, Line, Timed, RestartTimer, Authed, Acked, Acks
  <2>5. PppOK(c)
    BY <2>4, SwitchedOff
  <2> HIDE DEF c
  <2> QED
    BY <2>1, <2>5, LcpIs DEF LcpEvents
<1>4. CASE ~(e = "RAN" /\ d.auth_state # "AUTHENTICATED")
  <2> DEFINE r == AuthEvaluate(e, d)
  <2>1. evaluate_auth_state(e, d) = r
    BY <1>4 DEF evaluate_auth_state
  <2>2. Keeps(d, r) /\ Acks(d, r) /\ (d.auth_state = "INITIAL" => r.auth_state = "INITIAL")
    BY <1>1, <1>2, AuthIs
  <2> HIDE DEF r
  <2> QED
    BY <1>1, <2>1, <2>2 DEF PppOK, Core, Line, Timed, RestartTimer, Authed, Acked, Keeps, Acks
<1> QED
  BY <1>3, <1>4

LEMMA IpcpEventIs ==
    ASSUME NEW d, PppOK(d), NEW e \in IpcpEvents
    PROVE  PppOK(evaluate_ipcp_state(e, d))
BY IpcpIs, KeptOK DEF PppOK, Core

-----------------------------------------------------------------------------
(* The tick.                                                               *)

LEMMA TickIs ==
    ASSUME NEW d, PppOK(d)
    PROVE  /\ PppOK(check_to_modem(d)) /\ PppOK(check_to_lcp(d)) /\ PppOK(check_to_auth(d))
           /\ PppOK(check_to_ipcp(d)) /\ PppOK(Reconnect(d))
           /\ PppOK([d EXCEPT !.val = IF @ > 0 THEN @ - 1 ELSE 0])
<1>1. PppOK(check_to_modem(d))
  <2> DEFINE c == [d EXCEPT !.on = @ \ {"MODEM"}]
  <2>1. PppOK(c) /\ PppOK(evaluate_modem_state("TIMEOUT", c))
    BY SwitchedOff, ModemEventIs
  <2> QED
    BY <2>1 DEF check_to_modem
<1>2. PppOK(check_to_lcp(d))
  <2> DEFINE r == evaluate_lcp_state("TO_POS", d)
  <2>1. PppOK(evaluate_lcp_state("TO_NEG", d))
    BY LcpIs DEF LcpEvents
  <2>2. PppOK(r) /\ (d.count # 0 => r.count = d.count)
    BY LcpIs DEF LcpEvents
  <2> HIDE DEF r
  <2>3. ASSUME d.count # 0 PROVE PppOK(CountDown(r))
    <3>1. r \in Devices /\ r.count \in 0..CountMax /\ r.count # 0
      BY <2>2, <2>3 DEF PppOK, Core, Devices
    <3>2. r.count - 1 \in 0..CountMax
      BY <3>1, PppAssumption DEF CountMax
    <3> DEFINE n == r.count - 1
               c == [r EXCEPT !.count = n]
    <3>3. CountDown(r) = c
      BY DEF CountDown
    <3>4. n \in 0..CountMax
      BY <3>2
    <3> HIDE DEF n
    <3>5. /\ c \in Devices /\ c.lcp = r.lcp /\ c.modem = r.modem /\ c.on = r.on /\ Same(r, c)
      BY <3>1, <3>4 DEF Devices, Same, Acks
    <3> HIDE DEF c
    <3> QED
      BY <2>2, <3>3, <3>5 DEF PppOK, Core, Line, Timed, RestartTimer, Authed, Acked, Same, Acks
  <2> QED
    BY <2>1, <2>3 DEF check_to_lcp, r
<1>3. PppOK(check_to_auth(d))
  <2> DEFINE c == [d EXCEPT !.on = @ \ {"AUTH"}]
  <2>1. PppOK(c) /\ PppOK(evaluate_auth_state("TO", c))
    BY SwitchedOff, AuthEventIs
  <2> QED
    BY <2>1 DEF check_to_auth
<1>4. PppOK(check_to_ipcp(d))
  <2> DEFINE c == [d EXCEPT !.on = @ \ {"IPCP"}]
  <2>1. PppOK(c)
    BY SwitchedOff
  <2>2. PppOK(evaluate_ipcp_state("TO", c))
    BY <2>1, IpcpEventIs DEF IpcpEvents
  <2> QED
    BY <2>2 DEF check_to_ipcp
<1>5. PppOK(Reconnect(d))
  BY LcpIs DEF Reconnect, LcpEvents
<1>6. PppOK([d EXCEPT !.val = IF @ > 0 THEN @ - 1 ELSE 0])
  <2> DEFINE n == IF d.val > 0 THEN d.val - 1 ELSE 0
             c == [d EXCEPT !.val = n]
  <2>1. d \in Devices /\ d.val \in Nat
    BY DEF PppOK, Core, Devices
  <2>2. n \in Nat
    BY <2>1
  <2> HIDE DEF n
  <2>3. Keeps(d, c) /\ Same(d, c)
    BY <2>1, <2>2 DEF Keeps, Same, Acks, Devices
  <2> QED
    BY <2>3, KeptOK DEF n
<1> QED
  BY <1>1, <1>2, <1>3, <1>4, <1>5, <1>6

-----------------------------------------------------------------------------
(* The inputs.                                                             *)

(* Whether there is memory for a frame is nobody's but the request's.      *)
LEMMA AllocatingIs ==
    ASSUME PppOK(ppp), NEW d \in Allocating
    PROVE  PppOK(d) /\ d.modem = ppp.modem
<1>1. ppp \in Devices
  BY DEF PppOK, Core
<1>2. Keeps(ppp, d) /\ Same(ppp, d) /\ d.modem = ppp.modem
  BY <1>1 DEF Allocating, Keeps, Same, Acks, Devices
<1> QED
  BY <1>2, KeptOK

LEMMA SettledIs ==
    ASSUME NEW d, PppOK(d)
    PROVE  PppOK(Settled(d))
<1>1. d \in Devices
  BY DEF PppOK, Core
<1> DEFINE waits == d.missed /\ d.lcp \in {"REQ_SENT", "ACK_SENT"}
           r == [d EXCEPT !.lack = FALSE, !.missed = waits]
<1>2. waits \in BOOLEAN
  OBVIOUS
<1> HIDE DEF waits
<1>3. /\ r \in Devices /\ r.lcp = d.lcp /\ r.modem = d.modem /\ r.on = d.on /\ r.missed = waits
      /\ r.ack_rcvd = d.ack_rcvd /\ r.ack_sent = d.ack_sent /\ r.auth_state = d.auth_state
  BY <1>1, <1>2 DEF Devices
<1>4. Settled(d) = r
  BY DEF Settled, waits
<1> HIDE DEF r
<1>5. Line(r) /\ Authed(r) /\ Acked(r)
  BY <1>3 DEF PppOK, Core, Line, Authed, Acked
<1>6. r.lcp \notin Untimed => RestartTimer(r) \/ r.missed
  BY <1>1, <1>3 DEF waits, PppOK, Core, Timed, RestartTimer, Untimed, Devices, LcpStates
<1>7. Timed(r)
  BY <1>3, <1>6 DEF PppOK, Core, Timed, RestartTimer
<1> QED
  BY <1>3, <1>4, <1>5, <1>7 DEF PppOK, Core

LEMMA LcpInputIs ==
    ASSUME PppOK(ppp), lcp_process_in
    PROVE  PppOK(ppp')
<1>1. PICK d \in Allocating :
       \/ \E auth \in AuthProtocols, unknown \in BOOLEAN :
            ppp' = Settled(ConfReq(auth, unknown, Adjust(auth, d)))
       \/ ppp' = Settled(evaluate_lcp_state("RCA", [d EXCEPT !.ack_rcvd = TRUE]))
       \/ \E auth \in AuthProtocols : ppp' = Settled(evaluate_lcp_state("RCN", Adjust(auth, d)))
       \/ \E naming \in BOOLEAN :
            ppp' = Settled(evaluate_lcp_state("RCN", [d EXCEPT !.localauth = @ /\ ~naming]))
       \/ ppp' = evaluate_lcp_state("RXR", ppp)
  BY DEF lcp_process_in
<1>a. PppOK(d) /\ d \in Devices
  BY AllocatingIs DEF PppOK, Core
<1>2. \A auth \in AuthProtocols : PppOK(Adjust(auth, d))
  <2> SUFFICES ASSUME NEW auth \in AuthProtocols, auth # "none"
               PROVE  PppOK([d EXCEPT !.auth = auth])
    BY <1>a DEF Adjust
  <2> DEFINE c == [d EXCEPT !.auth = auth]
  <2>1. auth \in AuthValues
    BY PppAssumption DEF AuthValues
  <2>2. Keeps(d, c) /\ Same(d, c)
    BY <1>a, <2>1 DEF Keeps, Same, Acks, Devices
  <2> QED
    BY <1>a, <2>2, KeptOK
<1>3. CASE \E auth \in AuthProtocols, unknown \in BOOLEAN :
             ppp' = Settled(ConfReq(auth, unknown, Adjust(auth, d)))
  <2>1. PICK auth \in AuthProtocols, e \in {"RCR_NEG", "RCR_POS"} :
               ppp' = Settled(evaluate_lcp_state(e, Adjust(auth, d)))
    BY <1>3 DEF ConfReq
  <2>2. PppOK(evaluate_lcp_state(e, Adjust(auth, d)))
    BY <1>2, LcpIs DEF LcpEvents
  <2> QED
    BY <2>1, <2>2, SettledIs
<1>4. CASE ppp' = Settled(evaluate_lcp_state("RCA", [d EXCEPT !.ack_rcvd = TRUE]))
  <2> DEFINE c == [d EXCEPT !.ack_rcvd = TRUE]
  <2>1. /\ c \in Devices /\ c.lcp = d.lcp /\ c.modem = d.modem /\ c.on = d.on
        /\ c.auth_state = d.auth_state /\ c.ack_rcvd /\ c.ack_sent = d.ack_sent
        /\ c.missed = d.missed
    BY <1>a DEF Devices
  <2> HIDE DEF c
  <2>2. PppOK(c)
    BY <1>a, <2>1 DEF PppOK, Core, Line, Timed, RestartTimer, Authed, Acked
  <2>3. PppOK(evaluate_lcp_state("RCA", c))
    BY <2>1, <2>2, LcpIs DEF LcpEvents
  <2>4. ppp' = Settled(evaluate_lcp_state("RCA", c))
    BY <1>4 DEF c
  <2> QED
    BY <2>3, <2>4, SettledIs
<1>5. CASE \E auth \in AuthProtocols : ppp' = Settled(evaluate_lcp_state("RCN", Adjust(auth, d)))
  <2>1. PICK auth \in AuthProtocols : ppp' = Settled(evaluate_lcp_state("RCN", Adjust(auth, d)))
    BY <1>5
  <2>2. PppOK(evaluate_lcp_state("RCN", Adjust(auth, d)))
    BY <1>2, LcpIs DEF LcpEvents
  <2> QED
    BY <2>1, <2>2, SettledIs
<1>6. CASE \E naming \in BOOLEAN :
             ppp' = Settled(evaluate_lcp_state("RCN", [d EXCEPT !.localauth = @ /\ ~naming]))
  <2>1. PICK naming \in BOOLEAN :
               ppp' = Settled(evaluate_lcp_state("RCN", [d EXCEPT !.localauth = @ /\ ~naming]))
    BY <1>6
  <2> DEFINE b == d.localauth /\ ~naming
             c == [d EXCEPT !.localauth = b]
  <2>2. b \in BOOLEAN /\ ppp' = Settled(evaluate_lcp_state("RCN", c))
    BY <2>1
  <2> HIDE DEF b
  <2>3. Keeps(d, c) /\ Same(d, c)
    BY <1>a, <2>2 DEF Keeps, Same, Acks, Devices
  <2>4. PppOK(c)
    BY <1>a, <2>3, KeptOK
  <2> HIDE DEF c
  <2>5. PppOK(evaluate_lcp_state("RCN", c))
    BY <2>4, LcpIs DEF LcpEvents
  <2> QED
    BY <2>2, <2>5, SettledIs
<1>7. CASE ppp' = evaluate_lcp_state("RXR", ppp)
  BY <1>7, LcpIs DEF LcpEvents
<1> QED
  BY <1>1, <1>3, <1>4, <1>5, <1>6, <1>7

LEMMA IpcpInputIs ==
    ASSUME PppOK(ppp), ipcp_process_in
    PROVE  PppOK(ppp')
<1>1. PICK code \in {"ACK", "REQ", "NAK", "REJ"}, addr \in PppAddrs \union {0}, vj \in BOOLEAN :
         LET d == IF addr = 0 THEN ppp
                  ELSE [ppp EXCEPT !.ip = IF code = "REJ" THEN 0 ELSE addr]
         IN  ppp' = IF vj THEN d
                    ELSE evaluate_ipcp_state(CASE code = "ACK" -> "RCA" [] code = "REQ" -> "RCR_POS"
                                               [] OTHER -> "RCN", d)
  BY DEF ipcp_process_in
<1> DEFINE a == IF code = "REJ" THEN 0 ELSE addr
           d == IF addr = 0 THEN ppp ELSE [ppp EXCEPT !.ip = a]
           e == CASE code = "ACK" -> "RCA" [] code = "REQ" -> "RCR_POS" [] OTHER -> "RCN"
<1>2. ppp \in Devices /\ a \in PppAddrs \union {0}
  BY DEF PppOK, Core
<1>3. e \in IpcpEvents
  BY DEF IpcpEvents
<1>4. ppp' = IF vj THEN d ELSE evaluate_ipcp_state(e, d)
  BY <1>1
<1> HIDE DEF a, e
<1>5. Keeps(ppp, d) /\ Same(ppp, d)
  BY <1>2 DEF Keeps, Same, Acks, Devices
<1> HIDE DEF d
<1>6. PppOK(d)
  BY <1>5, KeptOK
<1> QED
  BY <1>3, <1>4, <1>6, IpcpEventIs

LEMMA PppStep ==
    ASSUME PppOK(ppp), [PppNext]_pppVars
    PROVE  PppOK(ppp')
<1>1. CASE pico_ppp_tick
  <2>0. PICK z \in Allocating :
           ppp' = Settled(Reconnect(check_to_ipcp(check_to_auth(check_to_lcp(check_to_modem(
                    [z EXCEPT !.val = IF @ > 0 THEN @ - 1 ELSE 0]))))))
    BY <1>1 DEF pico_ppp_tick
  <2> DEFINE a == [z EXCEPT !.val = IF @ > 0 THEN @ - 1 ELSE 0]
             b == check_to_modem(a)
             c == check_to_lcp(b)
             d == check_to_auth(c)
             e == check_to_ipcp(d)
  <2>1. PppOK(a)
    BY AllocatingIs, TickIs
  <2>2. ppp' = Settled(Reconnect(e))
    BY <2>0
  <2> HIDE DEF a
  <2>3. PppOK(b)
    BY <2>1, TickIs
  <2> HIDE DEF b
  <2>4. PppOK(c)
    BY <2>3, TickIs
  <2> HIDE DEF c
  <2>5. PppOK(d)
    BY <2>4, TickIs
  <2> HIDE DEF d
  <2>6. PppOK(e)
    BY <2>5, TickIs
  <2> HIDE DEF e
  <2> QED
    BY <2>2, <2>6, TickIs, SettledIs
<1>2. CASE ppp_modem_recv
  <2>1. PICK e \in {"OK", "STOP", "CONNECT"}, d \in Allocating :
               ppp' = Settled(evaluate_modem_state(e, d)) /\ ppp.modem # "CONNECTED"
    BY <1>2 DEF ppp_modem_recv
  <2>2. PppOK(evaluate_modem_state(e, d))
    BY <2>1, AllocatingIs, ModemEventIs
  <2> QED
    BY <2>1, <2>2, SettledIs
<1>3. CASE lcp_process_in
  BY <1>3, LcpInputIs
<1>4. CASE pap_process_in \/ chap_process_in
  BY <1>4, AuthEventIs DEF pap_process_in, chap_process_in
<1>5. CASE ipcp_process_in
  BY <1>5, IpcpInputIs
<1>6. CASE pico_ppp_connect
  <2>1. ppp \in Devices
    BY DEF PppOK, Core
  <2>2. Keeps(ppp, ppp') /\ Same(ppp, ppp')
    BY <1>6, <2>1 DEF pico_ppp_connect, Keeps, Same, Acks, Devices
  <2> QED
    BY <2>2, KeptOK
<1>7. CASE pico_ppp_disconnect
  <2> DEFINE c == [ppp EXCEPT !.autoreconnect = FALSE]
             r == evaluate_lcp_state("CLOSE", c)
  <2>1. ppp \in Devices
    BY DEF PppOK, Core
  <2>2. Keeps(ppp, c) /\ Same(ppp, c)
    BY <2>1 DEF Keeps, Same, Acks, Devices
  <2>3. PppOK(c)
    BY <2>2, KeptOK
  <2>4. ppp' = [r EXCEPT !.links = {}]
    BY <1>7 DEF pico_ppp_disconnect
  <2> HIDE DEF c
  <2>5. PppOK(r)
    BY <2>3, LcpIs DEF LcpEvents
  <2> HIDE DEF r
  <2>6. r \in Devices
    BY <2>5 DEF PppOK, Core
  <2>7. Keeps(r, ppp') /\ Same(r, ppp')
    BY <2>4, <2>6 DEF Keeps, Same, Acks, Devices
  <2> QED
    BY <2>5, <2>7, KeptOK
<1>8. CASE UNCHANGED pppVars
  BY <1>8 DEF pppVars
<1> QED
  BY <1>1, <1>2, <1>3, <1>4, <1>5, <1>6, <1>7, <1>8
  DEF PppNext, PppInput, pico_ppp_poll, ppp_process_packet_payload

LEMMA PppStarts ==
    ASSUME PppInit
    PROVE  PppOK(ppp)
<1>1. ppp = pico_ppp_create
  BY DEF PppInit
<1>2. 0 \in 0..CountMax
  BY PppAssumption DEF CountMax
<1>3. pico_ppp_create \in Devices
  BY <1>2 DEF pico_ppp_create, Devices, ModemStates, LcpStates, AuthStates, IpcpStates, AuthValues
<1>4. /\ pico_ppp_create.modem = "INITIAL" /\ pico_ppp_create.lcp = "INITIAL"
      /\ pico_ppp_create.auth_state = "INITIAL"
  BY DEF pico_ppp_create
<1> QED
  BY <1>1, <1>3, <1>4 DEF PppOK, Core, Line, Timed, RestartTimer, Authed, Acked, Low, Untimed

LEMMA PppInvariant == PppSpec => []PppOK(ppp)
<1>1. PppInit => PppOK(ppp)
  BY PppStarts
<1>2. PppOK(ppp) /\ [PppNext]_pppVars => PppOK(ppp)'
  BY PppStep
<1> QED
  BY <1>1, <1>2, PTL DEF PppSpec

-----------------------------------------------------------------------------
(* The device keeps its types: no event of any machine leads out of the    *)
(* tables, and timer_count, which check_to_lcp counts down, never passes   *)
(* zero or the larger of its two limits.                                   *)
THEOREM PppTypes == PppSpec => []PppTypeOK
<1>1. PppOK(ppp) => PppTypeOK
  BY DEF PppOK, Core, Devices, CountMax, PppTypeOK
<1> QED
  BY <1>1, PppInvariant, PTL

(* Whatever the modem and the peer say, and whenever the restart timer     *)
(* runs out, LCP is open only when a Configure-Ack has come since our last *)
(* Configure-Request on this connection, and the peer's last one was       *)
(* acknowledged (the table ppp_lcp_fsm and evaluate_lcp_state).  Which of  *)
(* our requests the Ack answers is not in it: lcp_process_in compares no   *)
(* identifier.                                                             *)
THEOREM PppOpenIsAgreed == PppSpec => []PppAgreed
<1>1. PppOK(ppp) => PppAgreed
  BY DEF PppOK, Core, Acked, PppAgreed
<1> QED
  BY <1>1, PppInvariant, PTL

(* The machines stay in step: LCP is off the line exactly when the modem   *)
(* is not connected, though each machine takes the other down in the       *)
(* middle of its own event; a negotiation or termination has its restart   *)
(* timer, though moves switch timers off, unless there was no memory for   *)
(* the Configure-Request; and an authentication is under way on an open    *)
(* link only.                                                              *)
THEOREM PppMachinesInStep == PppSpec => []PppInStep
<1>1. PppOK(ppp) => PppInStep
  BY DEF PppOK, Core, Line, Timed, Authed, Low, Untimed, PppInStep
<1> QED
  BY <1>1, PppInvariant, PTL

-----------------------------------------------------------------------------
(* mDNS: the sessions and their timers.                                    *)

(* A set of naturals that is not empty has a smallest element.             *)
LEMMA Least ==
    ASSUME NEW S \in SUBSET Nat, S # {}
    PROVE  \E x \in S : \A y \in S : x <= y
<1> DEFINE R == OpToRel(<, Nat)
<1>1. IsWellFoundedOn(R, Nat)
  BY NatLessThanWellFounded
<1> HIDE DEF R
<1>2. PICK x \in S : \A y \in S : ~(<<y, x>> \in R)
  BY <1>1, WFMin
<1>3. \A y \in S : ~(y < x)
  BY <1>2 DEF R, OpToRel
<1> QED
  BY <1>3

Doubles(m, g) == g = [i \in 0..m |-> IF i = 0 THEN 1 ELSE 2 * g[i - 1]]

LEMMA ShiftedExists ==
    ASSUME NEW n \in Nat
    PROVE  \E g : Doubles(n, g)
<1> DEFINE Bad == {m \in Nat : ~ \E g : Doubles(m, g)}
<1> SUFFICES ASSUME Bad # {} PROVE FALSE
  OBVIOUS
<1>1. PICK m \in Bad : \A y \in Bad : m <= y
  BY Least
<1>2. CASE m = 0
  <2> DEFINE g == [i \in 0..0 |-> 1]
  <2>1. g = [i \in 0..0 |-> IF i = 0 THEN 1 ELSE 2 * g[i - 1]]
    OBVIOUS
  <2> QED
    BY <1>1, <1>2, <2>1 DEF Doubles
<1>3. CASE m # 0
  <2>1. m - 1 \in Nat /\ m - 1 \notin Bad
    BY <1>1, <1>3
  <2>2. PICK g : Doubles(m - 1, g)
    BY <2>1
  <2> DEFINE f == [i \in 0..m |-> IF i = 0 THEN 1 ELSE 2 * g[i - 1]]
  <2>3. ASSUME NEW i \in 1..m PROVE f[i - 1] = g[i - 1]
    <3>1. i - 1 \in 0..(m - 1) /\ i - 1 \in 0..m
      BY <1>1
    <3> QED
      BY <2>2, <3>1 DEF Doubles
  <2>4. f = [i \in 0..m |-> IF i = 0 THEN 1 ELSE 2 * f[i - 1]]
    <3>1. \A i \in 0..m : f[i] = IF i = 0 THEN 1 ELSE 2 * g[i - 1]
      OBVIOUS
    <3>2. f = [i \in 0..m |-> f[i]]
      OBVIOUS
    <3> HIDE DEF f
    <3>3. \A i \in 0..m : i # 0 => i \in 1..m
      BY <1>1
    <3>4. \A i \in 0..m : f[i] = IF i = 0 THEN 1 ELSE 2 * f[i - 1]
      BY <2>3, <3>1, <3>3
    <3> QED
      BY <3>2, <3>4
  <2> HIDE DEF f
  <2>5. Doubles(m, f)
    BY <2>4 DEF Doubles
  <2> QED
    BY <1>1, <2>5
<1> QED
  BY <1>2, <1>3

LEMMA ShiftedIs ==
    /\ Shifted[0] = 1
    /\ \A n \in 1..AnnounceCount : Shifted[n] = 2 * Shifted[n - 1]
<1>1. AnnounceCount \in Nat
  BY MdnsAssumption
<1>2. Doubles(AnnounceCount, Shifted)
  <2>1. \E g : g = [i \in 0..AnnounceCount |-> IF i = 0 THEN 1 ELSE 2 * g[i - 1]]
    BY <1>1, ShiftedExists DEF Doubles
  <2> QED
    BY <2>1 DEF Shifted, Doubles
<1>3. \A n \in 0..AnnounceCount : Shifted[n] = IF n = 0 THEN 1 ELSE 2 * Shifted[n - 1]
  BY <1>2 DEF Doubles
<1> QED
  BY <1>1, <1>3

LEMMA ShiftedNat == \A n \in 0..AnnounceCount : Shifted[n] \in Nat \ {0}
<1> DEFINE Bad == {n \in 0..AnnounceCount : Shifted[n] \notin Nat \ {0}}
<1> SUFFICES ASSUME Bad # {} PROVE FALSE
  OBVIOUS
<1>1. AnnounceCount \in Nat /\ Bad \in SUBSET Nat
  BY MdnsAssumption
<1>2. PICK m \in Bad : \A y \in Bad : m <= y
  BY <1>1, Least
<1>3. m # 0
  BY <1>2, ShiftedIs
<1>4. m - 1 \in 0..AnnounceCount /\ m - 1 \notin Bad
  BY <1>1, <1>2, <1>3
<1>5. Shifted[m - 1] \in Nat \ {0}
  BY <1>4
<1>6. Shifted[m] = 2 * Shifted[m - 1]
  BY <1>1, <1>2, <1>3, ShiftedIs
<1> QED
  BY <1>2, <1>5, <1>6

LEMMA ShiftedGrows == \A n \in 0..(AnnounceCount - 1) : Shifted[n] <= Shifted[AnnounceCount - 1]
<1> DEFINE Bad == {i \in 0..(AnnounceCount - 1) :
                      ~(Shifted[AnnounceCount - 1 - i] <= Shifted[AnnounceCount - 1])}
<1>1. AnnounceCount \in Nat \ {0} /\ Bad \in SUBSET Nat
  BY MdnsAssumption
<1>2. SUFFICES ASSUME Bad # {} PROVE FALSE
  <2>1. ASSUME NEW n \in 0..(AnnounceCount - 1), Bad = {}
        PROVE  Shifted[n] <= Shifted[AnnounceCount - 1]
    <3>1. AnnounceCount - 1 - n \in 0..(AnnounceCount - 1)
          /\ AnnounceCount - 1 - (AnnounceCount - 1 - n) = n
      BY <1>1
    <3> QED
      BY <2>1, <3>1
  <2> QED
    BY <2>1
<1>3. PICK m \in Bad : \A y \in Bad : m <= y
  BY <1>1, <1>2, Least
<1> DEFINE k == AnnounceCount - 1 - m
<1>4. m \in 0..(AnnounceCount - 1) /\ ~(Shifted[k] <= Shifted[AnnounceCount - 1])
  BY <1>3
<1>5. k \in 0..AnnounceCount /\ Shifted[AnnounceCount - 1] \in Nat /\ Shifted[k] \in Nat
  BY <1>1, <1>4, ShiftedNat
<1>6. m # 0
  BY <1>1, <1>4, <1>5
<1>7. m - 1 \in 0..(AnnounceCount - 1) /\ m - 1 \notin Bad
      /\ AnnounceCount - 1 - (m - 1) = k + 1 /\ k + 1 \in 1..AnnounceCount /\ k + 1 - 1 = k
  BY <1>1, <1>3, <1>4, <1>6
<1>8. Shifted[k + 1] <= Shifted[AnnounceCount - 1]
  <2>1. Shifted[AnnounceCount - 1 - (m - 1)] <= Shifted[AnnounceCount - 1]
    BY <1>7
  <2> QED
    BY <1>7, <2>1
<1>9. Shifted[k + 1] = 2 * Shifted[k]
  <2> DEFINE n == k + 1
  <2>1. n \in 1..AnnounceCount /\ n - 1 = k
    BY <1>1, <1>4
  <2> HIDE DEF n, k
  <2>2. Shifted[n] = 2 * Shifted[n - 1]
    BY <2>1, ShiftedIs
  <2> QED
    BY <2>1, <2>2 DEF n
<1> QED
  BY <1>4, <1>5, <1>8, <1>9

-----------------------------------------------------------------------------
(* The invariant of the sessions.                                          *)

IsCookie(c) ==
    c \in [type : {c.type}, names : {c.names}, antree : {c.antree}, count : {c.count},
           status : {c.status}, timeout : {c.timeout}, tree : {c.tree}]

IsResponder(st) ==
    /\ st \in [flags : {st.flags}, cookies : {st.cookies}, timers : {st.timers},
               meta : {st.meta}, contests : {st.contests}, socket : {st.socket},
               broken : {st.broken}]
    /\ st.cookies = [s \in Slots |-> st.cookies[s]]
    /\ st.timers = [s \in Slots |-> st.timers[s]]

(* A cookie that times out lives longer than its timer and all the timers  *)
(* that are still to be started one after the other: a tick for each probe *)
(* that is left, and 1, 2, 4 ... for the announcements.  A Mistaken one    *)
(* may have any timer.                                                     *)
Outlives(c, t) ==
    /\ c.type \in {"PROBE", "ANNOUNCEMENT", "QUERY", "MISTAKEN"} /\ c.timeout \in Nat
    /\ c.type = "MISTAKEN" => ~c.tree
    /\ c.type = "QUERY" => (c.tree => c.timeout > t)
    /\ c.type = "PROBE" =>
          /\ c.count \in 0..ProbeCount
          /\ c.tree => c.timeout > t + c.count + Shifted[AnnounceCount - 1] - 1
    /\ c.type = "ANNOUNCEMENT" =>
          /\ c.count \in 1..(AnnounceCount - 1)
          /\ c.tree => c.timeout > t + Shifted[AnnounceCount - 1] - Shifted[AnnounceCount - c.count]

SlotOK(c, t) ==
    /\ IsCookie(c) /\ t \in Int /\ t >= Off
    /\ t # Off => Outlives(c, t)

SessionsOK(st) == IsResponder(st) /\ \A s \in Slots : SlotOK(st.cookies[s], st.timers[s])

LEMMA MdnsNumbers ==
    /\ AnnounceCount \in Nat \ {0} /\ ProbeCount \in Nat \ {0} /\ MdnsCookies \in Nat
    /\ CookieTimeout \in Nat /\ CookieTimeout > ProbeCount + Shifted[AnnounceCount - 1]
    /\ Shifted[AnnounceCount - 1] \in Nat \ {0}
BY MdnsAssumption, ShiftedNat

LEMMA FreeSlotOK == SlotOK(FreeSlot, Off)
BY DEF SlotOK, IsCookie, FreeSlot, Off

LEMMA SlotsSame ==
    ASSUME NEW st, NEW u, SessionsOK(st), IsResponder(u), u.cookies = st.cookies,
           u.timers = st.timers
    PROVE  SessionsOK(u)
BY DEF SessionsOK

LEMMA OneSlot ==
    ASSUME NEW st, NEW u, SessionsOK(st), NEW s \in Slots, NEW c, NEW t, SlotOK(c, t),
           IsResponder(u), u.cookies = [st.cookies EXCEPT ![s] = c],
           u.timers = [st.timers EXCEPT ![s] = t]
    PROVE  SessionsOK(u)
<1> DEFINE cs == st.cookies
           ts == st.timers
<1>0. cs = [z \in Slots |-> cs[z]] /\ ts = [z \in Slots |-> ts[z]]
  BY DEF SessionsOK, IsResponder
<1> HIDE DEF cs, ts
<1>1. /\ \A z \in Slots : [cs EXCEPT ![s] = c][z] = IF z = s THEN c ELSE cs[z]
      /\ \A z \in Slots : [ts EXCEPT ![s] = t][z] = IF z = s THEN t ELSE ts[z]
  BY <1>0
<1> QED
  BY <1>1 DEF SessionsOK, cs, ts

LEMMA FlagsOK ==
    ASSUME NEW st, SessionsOK(st), NEW f
    PROVE  LET u == [st EXCEPT !.flags = f]
           IN  SessionsOK(u) /\ u.cookies = st.cookies /\ u.timers = st.timers
<1> DEFINE u == [st EXCEPT !.flags = f]
<1>1. IsResponder(u) /\ u.cookies = st.cookies /\ u.timers = st.timers
  BY DEF SessionsOK, IsResponder
<1> HIDE DEF u
<1>2. SessionsOK(u)
  BY <1>1, SlotsSame
<1> QED
  BY <1>1, <1>2 DEF u

(* What changes the records only.                                          *)
LEMMA RecordsOK ==
    ASSUME NEW st, SessionsOK(st), NEW ks, NEW a, NEW b
    PROVE  /\ LET u == SetFlags(st, ks, a, b)
              IN  SessionsOK(u) /\ u.cookies = st.cookies /\ u.timers = st.timers
           /\ SessionsOK(pico_mdns_record_delete(st, ks))
           /\ SessionsOK(pico_mdns_my_records_add(st, ks))
BY FlagsOK DEF SetFlags, pico_mdns_record_delete, pico_mdns_my_records_add

LEMMA ReplyOK ==
    ASSUME NEW st, SessionsOK(st), NEW ks
    PROVE  LET u == pico_mdns_reply(st, ks)
           IN  SessionsOK(u) /\ u.cookies = st.cookies /\ u.timers = st.timers
<1> DEFINE u == pico_mdns_reply(st, ks)
<1>1. IsResponder(u) /\ u.cookies = st.cookies /\ u.timers = st.timers
  BY DEF SessionsOK, IsResponder, pico_mdns_reply, pico_mdns_gather_additionals,
         pico_mdns_gather_service_meta
<1> HIDE DEF u
<1>2. SessionsOK(u)
  BY <1>1, SlotsSame
<1> QED
  BY <1>1, <1>2 DEF u

LEMMA FreeSlotFound ==
    ASSUME NEW st, SessionsOK(st), Memory(st) # {}
    PROVE  /\ NextSlot(st) \in Slots /\ st.cookies[NextSlot(st)] = FreeSlot
           /\ st.timers[NextSlot(st)] = Off
<1>1. Memory(st) \in SUBSET Nat
  BY DEF Memory, Slots
<1>2. \E s \in Memory(st) : \A z \in Memory(st) : s <= z
  BY <1>1, Least
<1>3. NextSlot(st) \in Memory(st)
  BY <1>2 DEF NextSlot
<1> QED
  BY <1>3 DEF Memory

LEMMA TreeDeleteOK ==
    ASSUME NEW st, SessionsOK(st), NEW c
    PROVE  LET u == TreeDelete(st, c)
           IN  SessionsOK(u) /\ u.timers = st.timers
<1> DEFINE g == [s \in Slots |-> IF st.cookies[s].tree /\ pico_mdns_cookie_cmp(st.cookies[s], c)
                                 THEN [st.cookies[s] EXCEPT !.tree = FALSE] ELSE st.cookies[s]]
           u == TreeDelete(st, c)
<1>1. u = [st EXCEPT !.cookies = g]
  BY DEF TreeDelete, SessionsOK, IsResponder
<1>2. g = [s \in Slots |-> g[s]]
  OBVIOUS
<1>3. ASSUME NEW s \in Slots PROVE g[s] \in {st.cookies[s], [st.cookies[s] EXCEPT !.tree = FALSE]}
  OBVIOUS
<1>4. ASSUME NEW s \in Slots PROVE SlotOK([st.cookies[s] EXCEPT !.tree = FALSE], st.timers[s])
  <2> DEFINE e == st.cookies[s]
             d == [e EXCEPT !.tree = FALSE]
  <2>1. SlotOK(e, st.timers[s])
    BY DEF SessionsOK
  <2> HIDE DEF e
  <2>2. /\ IsCookie(d) /\ d.type = e.type /\ d.count = e.count /\ d.timeout = e.timeout
        /\ d.tree = FALSE
    BY <2>1 DEF SlotOK, IsCookie
  <2> HIDE DEF d
  <2>3. SlotOK(d, st.timers[s])
    BY <2>1, <2>2 DEF SlotOK, Outlives
  <2> QED
    BY <2>3 DEF d, e
<1> HIDE DEF g
<1>5. IsResponder(u) /\ u.cookies = g /\ u.timers = st.timers
  BY <1>1, <1>2 DEF SessionsOK, IsResponder
<1> HIDE DEF u
<1>6. \A s \in Slots : SlotOK(g[s], st.timers[s])
  BY <1>3, <1>4 DEF SessionsOK
<1> QED
  BY <1>5, <1>6 DEF SessionsOK, u

LEMMA SessionOK ==
    ASSUME NEW st, SessionsOK(st), NEW s \in Slots, NEW c, SlotOK(c, st.timers[s])
    PROVE  LET u == [st EXCEPT !.cookies[s] = c]
           IN  SessionsOK(u) /\ u.cookies[s] = c /\ u.timers = st.timers
<1> DEFINE u == [st EXCEPT !.cookies[s] = c]
           cs == st.cookies
           ts == st.timers
<1>1. cs = [z \in Slots |-> cs[z]] /\ ts = [z \in Slots |-> ts[z]]
  BY DEF SessionsOK, IsResponder
<1>2. u = [st EXCEPT !.cookies = [cs EXCEPT ![s] = c]]
  BY DEF SessionsOK, IsResponder
<1> HIDE DEF cs, ts, u
<1>3. [cs EXCEPT ![s] = c] = [z \in Slots |-> [cs EXCEPT ![s] = c][z]]
  BY <1>1
<1>4. [cs EXCEPT ![s] = c][s] = c /\ ts = [ts EXCEPT ![s] = ts[s]]
  BY <1>1
<1>5. IsResponder(u) /\ u.cookies = [cs EXCEPT ![s] = c] /\ u.timers = st.timers
  BY <1>2, <1>3 DEF SessionsOK, IsResponder
<1>6. SessionsOK(u)
  BY <1>4, <1>5, OneSlot DEF cs, ts
<1> QED
  BY <1>4, <1>5, <1>6 DEF u

LEMMA TimerSet ==
    ASSUME NEW st, SessionsOK(st), NEW s \in Slots, NEW t, SlotOK(st.cookies[s], t)
    PROVE  LET u == [st EXCEPT !.timers[s] = t]
           IN  SessionsOK(u) /\ u.cookies = st.cookies /\ u.timers[s] = t
<1> DEFINE u == [st EXCEPT !.timers[s] = t]
           cs == st.cookies
           ts == st.timers
<1>1. cs = [z \in Slots |-> cs[z]] /\ ts = [z \in Slots |-> ts[z]]
  BY DEF SessionsOK, IsResponder
<1>2. u = [st EXCEPT !.timers = [ts EXCEPT ![s] = t]]
  BY DEF SessionsOK, IsResponder
<1> HIDE DEF cs, ts, u
<1>3. [ts EXCEPT ![s] = t] = [z \in Slots |-> [ts EXCEPT ![s] = t][z]]
  BY <1>1
<1>4. [ts EXCEPT ![s] = t][s] = t /\ cs = [cs EXCEPT ![s] = cs[s]]
  BY <1>1
<1>5. IsResponder(u) /\ u.timers = [ts EXCEPT ![s] = t] /\ u.cookies = st.cookies
  BY <1>2, <1>3 DEF SessionsOK, IsResponder
<1>6. SessionsOK(u)
  BY <1>4, <1>5, OneSlot DEF cs, ts
<1> QED
  BY <1>4, <1>5, <1>6 DEF u

LEMMA NoTimerOK ==
    ASSUME NEW c, IsCookie(c)
    PROVE  SlotOK(c, Off)
BY DEF SlotOK, Off

LEMMA TimerAddOK ==
    ASSUME NEW st, SessionsOK(st), NEW s \in Slots, NEW ticks \in Nat, NEW ok,
           Outlives(st.cookies[s], ticks)
    PROVE  SessionsOK(pico_mdns_timer_add(st, s, ticks, ok))
<1>1. IsCookie(st.cookies[s])
  BY DEF SessionsOK, SlotOK
<1>2. SlotOK(st.cookies[s], ticks)
  BY <1>1 DEF SlotOK, Off
<1>3. SessionsOK([st EXCEPT !.timers[s] = ticks]) /\ SessionsOK([st EXCEPT !.timers[s] = Off])
  BY <1>1, <1>2, NoTimerOK, TimerSet
<1> QED
  BY <1>3 DEF pico_mdns_timer_add

LEMMA CookieDeleteOK ==
    ASSUME NEW st, SessionsOK(st), NEW s \in Slots, st.timers[s] = Off
    PROVE  SessionsOK(pico_mdns_cookie_delete(st, s))
BY SessionOK, FreeSlotOK DEF pico_mdns_cookie_delete

LEMMA AnnouncementOK ==
    ASSUME NEW st, SessionsOK(st), NEW s \in Slots, st.timers[s] = Off, NEW ok,
           st.cookies[s].type = "ANNOUNCEMENT", st.cookies[s].count \in 1..AnnounceCount,
           st.cookies[s].timeout \in Nat,
           st.cookies[s].tree => st.cookies[s].timeout
                > Shifted[AnnounceCount - 1] - Shifted[AnnounceCount - st.cookies[s].count]
    PROVE  SessionsOK(pico_mdns_send_announcement_packet(st, s, ok))
<1> DEFINE c == st.cookies[s]
           d == [c EXCEPT !.status = "ACTIVE", !.count = @ - 1]
           v == [st EXCEPT !.cookies[s] = d]
           w == pico_mdns_reply(v, c.antree)
           x == pico_mdns_my_records_claimed(w, d.antree)
           y == TreeDelete(x, d)
           next == AnnounceCount - d.count - 1
<1>1. IsCookie(c)
  BY DEF SessionsOK, SlotOK
<1>2. v = [st EXCEPT !.cookies[s].status = "ACTIVE", !.cookies[s].count = @ - 1]
  BY DEF SessionsOK, IsResponder
<1> HIDE DEF c
<1>3. /\ IsCookie(d) /\ d.type = c.type /\ d.count = c.count - 1 /\ d.timeout = c.timeout
      /\ d.tree = c.tree /\ d.antree = c.antree
  BY <1>1 DEF IsCookie
<1> HIDE DEF d
<1>4. SessionsOK(v) /\ v.cookies[s] = d /\ v.timers = st.timers
  BY <1>3, SessionOK, NoTimerOK
<1>5. pico_mdns_send_announcement_packet(st, s, ok) = Announced(w, s, ok)
  BY <1>2 DEF pico_mdns_send_announcement_packet, c
<1> HIDE DEF v
<1>6. SessionsOK(w) /\ w.cookies[s] = d /\ w.timers[s] = Off
  BY <1>4, ReplyOK
<1> HIDE DEF w
<1>7. SessionsOK(x) /\ x.cookies = w.cookies /\ x.timers = w.timers
  BY <1>6, RecordsOK DEF pico_mdns_my_records_claimed
<1> HIDE DEF x
<1>8. SessionsOK(y) /\ y.timers = w.timers
  BY <1>7, TreeDeleteOK
<1> HIDE DEF y
<1>9. CASE d.count = 0
  <2>1. Announced(w, s, ok) = pico_mdns_cookie_delete(y, s)
    BY <1>6, <1>9 DEF Announced, x, y
  <2> QED
    BY <1>5, <1>6, <1>8, <2>1, CookieDeleteOK
<1>10. CASE d.count # 0
  <2>1. Announced(w, s, ok) = pico_mdns_timer_add(w, s, Shifted[next], ok)
    BY <1>6, <1>10 DEF Announced
  <2> DEFINE n == c.count
  <2>2. n \in 1..AnnounceCount /\ d.count = n - 1 /\ n > 1
    BY <1>3, <1>10 DEF c
  <2> HIDE DEF n
  <2>3. /\ next = AnnounceCount - n /\ AnnounceCount - d.count = AnnounceCount - n + 1
        /\ next \in 0..AnnounceCount /\ AnnounceCount - n + 1 \in 1..AnnounceCount
        /\ AnnounceCount - n + 1 - 1 = AnnounceCount - n
    BY <2>2, MdnsNumbers
  <2>4. /\ Shifted[next] \in Nat /\ Shifted[AnnounceCount - n] \in Nat
        /\ Shifted[AnnounceCount - n + 1] = 2 * Shifted[AnnounceCount - n]
    BY <2>3, ShiftedNat, ShiftedIs
  <2>5. d.tree => d.timeout > Shifted[AnnounceCount - 1] - Shifted[AnnounceCount - n]
    BY <1>3 DEF c, n
  <2>6. Outlives(d, Shifted[next])
    <3> DEFINE total == Shifted[AnnounceCount - 1]
               last == Shifted[AnnounceCount - n]
               more == Shifted[AnnounceCount - d.count]
    <3>1. total \in Nat /\ last \in Nat /\ more = 2 * last /\ Shifted[next] = last
      BY <2>3, <2>4, MdnsNumbers
    <3>2. d.timeout \in Nat /\ d.type = "ANNOUNCEMENT" /\ d.count \in 1..(AnnounceCount - 1)
      BY <1>3, <2>2, MdnsNumbers DEF c
    <3>3. d.tree => d.timeout > total - last
      BY <2>5
    <3> HIDE DEF total, last, more, next
    <3>4. d.tree => d.timeout > last + total - more
      BY <3>1, <3>2, <3>3
    <3> QED
      BY <3>1, <3>2, <3>4 DEF Outlives, total, more
  <2> QED
    BY <1>5, <1>6, <2>1, <2>4, <2>6, TimerAddOK
<1> QED
  BY <1>9, <1>10

LEMMA AnnounceOK ==
    ASSUME NEW st, SessionsOK(st), NEW antree, NEW ok
    PROVE  SessionsOK(Announce(st, antree, ok))
<1>1. CASE antree = {} \/ Memory(st) = {}
  BY <1>1 DEF Announce
<1>2. CASE ~(antree = {} \/ Memory(st) = {})
  <2> DEFINE s == NextSlot(st)
             c == pico_mdns_cookie_create("ANNOUNCEMENT", {}, antree, AnnounceCount)
             u == [st EXCEPT !.cookies[s] = c]
  <2>1. s \in Slots /\ st.timers[s] = Off
    BY <1>2, FreeSlotFound
  <2>2. Announce(st, antree, ok) = pico_mdns_send_announcement_packet(u, s, ok)
    BY <1>2 DEF Announce
  <2>3. IsCookie(c) /\ c.type = "ANNOUNCEMENT" /\ c.count = AnnounceCount /\ c.tree = FALSE
        /\ c.timeout = CookieTimeout
    BY DEF IsCookie, pico_mdns_cookie_create
  <2> HIDE DEF s, c
  <2>4. SessionsOK(u) /\ u.cookies[s] = c /\ u.timers = st.timers
    BY <2>1, <2>3, SessionOK, NoTimerOK
  <2> HIDE DEF u
  <2>5. SessionsOK(pico_mdns_send_announcement_packet(u, s, ok))
    BY <2>1, <2>3, <2>4, MdnsNumbers, AnnouncementOK
  <2> QED
    BY <2>2, <2>5
<1> QED
  BY <1>1, <1>2

LEMMA ProbeOK ==
    ASSUME NEW st, SessionsOK(st), NEW names, NEW antree, NEW ok
    PROVE  SessionsOK(Probe(st, pico_mdns_cookie_create("PROBE", names, antree, ProbeCount), ok))
<1> DEFINE cookie == pico_mdns_cookie_create("PROBE", names, antree, ProbeCount)
           c == [cookie EXCEPT !.tree = TRUE]
           s == NextSlot(st)
           u == [st EXCEPT !.cookies[s] = c]
<1>1. CASE Memory(st) # {} /\ Inserts(st, cookie) /\ ok
  <2>1. s \in Slots /\ st.timers[s] = Off
    BY <1>1, FreeSlotFound
  <2>2. Probe(st, cookie, ok) = pico_mdns_timer_add(u, s, 1, TRUE)
    BY <1>1 DEF Probe
  <2>3. IsCookie(c) /\ c.type = "PROBE" /\ c.count = ProbeCount /\ c.tree = TRUE
        /\ c.timeout = CookieTimeout
    BY DEF IsCookie, pico_mdns_cookie_create
  <2> HIDE DEF s, c, cookie
  <2>4. SessionsOK(u) /\ u.cookies[s] = c
    <3>1. SlotOK(c, st.timers[s])
      BY <2>1, <2>3, NoTimerOK
    <3> QED
      BY <2>1, <3>1, SessionOK
  <2> HIDE DEF u
  <2>5. Outlives(c, 1)
    BY <2>3, MdnsNumbers DEF Outlives
  <2>6. SessionsOK(pico_mdns_timer_add(u, s, 1, TRUE))
    BY <2>1, <2>4, <2>5, TimerAddOK
  <2> QED
    BY <2>2, <2>6 DEF cookie
<1>2. CASE ~(Memory(st) # {} /\ Inserts(st, cookie) /\ ok)
  BY <1>2 DEF Probe
<1> QED
  BY <1>1, <1>2

LEMMA ClaimOK ==
    ASSUME NEW st, SessionsOK(st), NEW new, NEW ok
    PROVE  SessionsOK(pico_mdns_claim_generic(st, new, ok))
<1> DEFINE u == pico_mdns_my_records_add(st, new)
           antree == pico_mdns_my_records_find_to_probe(u)
           v == SetFlags(u, antree, {}, {"PROBING"})
           w == pico_mdns_probe(u, ok)
<1>1. SessionsOK(u)
  BY RecordsOK
<1> HIDE DEF u
<1>2. SessionsOK(v)
  BY <1>1, RecordsOK
<1>3. SessionsOK(w)
  <2> HIDE DEF v, antree
  <2>1. SessionsOK(Probe(v, pico_mdns_cookie_create("PROBE", pico_mdns_add_probe_question(antree),
                                                    antree, ProbeCount), ok))
    BY <1>2, ProbeOK
  <2> QED
    BY <2>1 DEF pico_mdns_probe, ProbeThese, v, antree
<1> HIDE DEF w
<1>4. SessionsOK(Announce(w, pico_mdns_my_records_find_probed(w), ok))
  BY <1>3, AnnounceOK
<1> QED
  BY <1>4 DEF pico_mdns_claim_generic, pico_mdns_announce, u, w

LEMMA RemoveOK ==
    ASSUME NEW st, SessionsOK(st), NEW s \in Slots, NEW n, NEW z
    PROVE  SessionsOK(RemoveQuestions(st, s, n, z))
<1> DEFINE c == st.cookies[s]
           ns == c.names \ {n}
           d == [c EXCEPT !.names = ns, !.antree = {}]
           u == [st EXCEPT !.cookies[s] = d]
           b == z # s
           v == [u EXCEPT !.broken = b]
<1>1. SlotOK(c, st.timers[s])
  BY DEF SessionsOK
<1>2. v = RemoveQuestions(st, s, n, z)
  BY DEF SessionsOK, IsResponder, RemoveQuestions
<1> HIDE DEF c, ns, b
<1>3. /\ IsCookie(d) /\ d.type = c.type /\ d.count = c.count /\ d.timeout = c.timeout
      /\ d.tree = c.tree
  BY <1>1 DEF SlotOK, IsCookie
<1> HIDE DEF d
<1>4. SlotOK(d, st.timers[s])
  BY <1>1, <1>3 DEF SlotOK, Outlives
<1>5. SessionsOK(u)
  BY <1>4, SessionOK
<1> HIDE DEF u
<1>6. IsResponder(v) /\ v.cookies = u.cookies /\ v.timers = u.timers
  BY <1>5 DEF SessionsOK, IsResponder
<1> HIDE DEF v
<1>7. SessionsOK(v)
  BY <1>5, <1>6, SlotsSame
<1> QED
  BY <1>2, <1>7

LEMMA StatusOK ==
    ASSUME NEW st, SessionsOK(st), NEW s \in Slots, NEW status
    PROVE  SessionsOK([st EXCEPT !.cookies[s].status = status])
<1> DEFINE c == st.cookies[s]
           d == [c EXCEPT !.status = status]
<1>1. SlotOK(c, st.timers[s])
  BY DEF SessionsOK
<1>2. [st EXCEPT !.cookies[s] = d] = [st EXCEPT !.cookies[s].status = status]
  BY DEF SessionsOK, IsResponder
<1> HIDE DEF c
<1>3. /\ IsCookie(d) /\ d.type = c.type /\ d.count = c.count /\ d.timeout = c.timeout
      /\ d.tree = c.tree
  BY <1>1 DEF SlotOK, IsCookie
<1> HIDE DEF d
<1>4. SlotOK(d, st.timers[s])
  BY <1>1, <1>3 DEF SlotOK, Outlives
<1>5. SessionsOK([st EXCEPT !.cookies[s] = d])
  BY <1>4, SessionOK
<1> QED
  BY <1>2, <1>5

LEMMA MistakenOK ==
    ASSUME NEW t \in Int, t >= Off
    PROVE  SlotOK(Mistaken, t)
<1>1. IsCookie(Mistaken) /\ Mistaken.type = "MISTAKEN" /\ Mistaken.timeout = 0 /\ ~Mistaken.tree
  BY DEF Mistaken, FreeSlot, IsCookie
<1> QED
  BY <1>1 DEF SlotOK, Outlives

(* What is freed is the cookie itself, whose timer is cancelled, or one    *)
(* that is taken for it.                                                   *)
LEMMA FreeFoundOK ==
    ASSUME NEW st, SessionsOK(st), NEW s \in Slots, st.timers[s] = Off,
           NEW z \in Slots \union {0}
    PROVE  SessionsOK(FreeFound(st, s, z))
<1>1. CASE z = s
  BY <1>1, CookieDeleteOK DEF FreeFound
<1>2. CASE z # s /\ z = 0
  BY <1>2 DEF FreeFound
<1>3. CASE z # s /\ z # 0
  <2>1. z \in Slots /\ SlotOK(Mistaken, st.timers[z])
    BY <1>3, MistakenOK DEF SessionsOK, SlotOK
  <2> QED
    BY <1>3, <2>1, SessionOK DEF FreeFound
<1> QED
  BY <1>1, <1>2, <1>3

LEMMA DelQuestionsOK ==
    ASSUME NEW st, SessionsOK(st), NEW s \in Slots, NEW n, NEW z \in Slots \union {0}
    PROVE  SessionsOK(pico_mdns_cookie_del_questions(st, s, n, z))
<1> DEFINE u == RemoveQuestions(st, s, n, z)
           v == [u EXCEPT !.timers[s] = Off]
<1>1. SessionsOK(u)
  BY RemoveOK
<1>2. pico_mdns_cookie_del_questions(st, s, n, z)
        = IF st.cookies[s].names = {n} THEN FreeFound(v, s, z) ELSE u
  BY DEF pico_mdns_cookie_del_questions
<1> HIDE DEF u
<1>3. SlotOK(u.cookies[s], Off)
  BY <1>1, NoTimerOK DEF SessionsOK, SlotOK
<1>4. SessionsOK(v) /\ v.timers[s] = Off
  BY <1>1, <1>3, TimerSet
<1> HIDE DEF v
<1>5. SessionsOK(FreeFound(v, s, z))
  BY <1>4, FreeFoundOK
<1> QED
  BY <1>1, <1>2, <1>5

LEMMA CookieConflictOK ==
    ASSUME NEW st, SessionsOK(st), NEW s \in Slots, NEW n, NEW z \in Slots \union {0}, NEW ok
    PROVE  SessionsOK(pico_mdns_cookie_resolve_conflict(st, s, n, z, ok))
<1> DEFINE u == pico_mdns_cookie_del_questions(st, s, n, z)
           v == pico_mdns_record_delete(u, Named(st, n))
           new == pico_mdns_generate_new_records(st.cookies[s].antree, n)
<1>1. SessionsOK(u)
  BY DelQuestionsOK
<1> HIDE DEF u
<1>2. SessionsOK(v)
  BY <1>1, RecordsOK
<1> HIDE DEF v, new
<1>3. SessionsOK(pico_mdns_claim_generic(v, new, ok))
  BY <1>2, ClaimOK
<1> QED
  BY <1>1, <1>3 DEF pico_mdns_cookie_resolve_conflict, u, v, new

LEMMA AnswerOK ==
    ASSUME NEW st, SessionsOK(st), NEW k, NEW s \in Slots \union {0},
           NEW z \in Slots \union {0}, NEW ok
    PROVE  SessionsOK(pico_mdns_handle_single_answer(st, k, s, z, ok))
<1>1. CASE Contested(st, k, s)
  <2>1. s \in Slots
    BY <1>1 DEF Contested
  <2> QED
    BY <1>1, <2>1, CookieConflictOK DEF pico_mdns_handle_single_answer
<1>2. CASE ~Contested(st, k, s)
  <2> DEFINE v == pico_mdns_record_delete(st, {k})
             new == [r \in {Renamed(k)} |-> st.flags[k]]
  <2>1. SessionsOK(v)
    BY RecordsOK
  <2> HIDE DEF v, new
  <2>2. SessionsOK(pico_mdns_claim_generic(v, new, ok))
    BY <2>1, ClaimOK
  <2>3. SessionsOK(pico_mdns_record_resolve_conflict(st, k, ok))
    BY <2>2 DEF pico_mdns_record_resolve_conflict, v, new
  <2> QED
    BY <1>2, <2>3 DEF pico_mdns_handle_single_answer
<1> QED
  BY <1>1, <1>2

LEMMA AuthorityOK ==
    ASSUME NEW st, SessionsOK(st), NEW k, NEW s \in Slots \union {0}, NEW later, NEW ok
    PROVE  SessionsOK(pico_mdns_handle_single_authority(st, k, s, later, ok))
<1>1. CASE s # 0 /\ st.cookies[s].type = "PROBE" /\ st.cookies[s].status = "ACTIVE"
  <2> DEFINE c == st.cookies[s]
             d == [c EXCEPT !.status = "INACTIVE", !.count = ProbeCount, !.timeout = CookieTimeout]
             v == [st EXCEPT !.cookies[s].status = "INACTIVE", !.cookies[s].count = ProbeCount,
                             !.cookies[s].timeout = CookieTimeout, !.contests = @ + 1]
  <2>0. s \in Slots
    BY <1>1
  <2>1. SessionsOK([st EXCEPT !.cookies[s].status = "INACTIVE"])
    BY <2>0, StatusOK
  <2>2. IsCookie(c) /\ c.type = "PROBE"
    BY <1>1, <2>0 DEF SessionsOK, SlotOK
  <2>3. v.cookies = [st.cookies EXCEPT ![s] = d] /\ v.timers = st.timers /\ IsResponder(v)
    BY <2>0 DEF SessionsOK, IsResponder
  <2> HIDE DEF c
  <2>4. /\ IsCookie(d) /\ d.type = "PROBE" /\ d.count = ProbeCount /\ d.timeout = CookieTimeout
    BY <2>2 DEF IsCookie
  <2> HIDE DEF d, v
  <2> DEFINE ts == st.timers
             w == [v EXCEPT !.timers[s] = 1]
             x == [v EXCEPT !.timers[s] = Off]
  <2>5. Outlives(d, 1) /\ SlotOK(d, 1) /\ SlotOK(d, Off)
    BY <2>4, MdnsNumbers DEF Outlives, SlotOK, Off
  <2>6. ts = [z \in Slots |-> ts[z]]
    BY DEF SessionsOK, IsResponder
  <2>7. ASSUME NEW t PROVE
          LET y == [v EXCEPT !.timers[s] = t]
          IN  IsResponder(y) /\ y.cookies = v.cookies /\ y.timers = [ts EXCEPT ![s] = t]
    <3> DEFINE y == [v EXCEPT !.timers = [ts EXCEPT ![s] = t]]
    <3>1. y = [v EXCEPT !.timers[s] = t]
      BY <2>3 DEF IsResponder
    <3> HIDE DEF ts
    <3>2. [ts EXCEPT ![s] = t] = [z \in Slots |-> [ts EXCEPT ![s] = t][z]]
      BY <2>0, <2>6
    <3>3. IsResponder(y) /\ y.cookies = v.cookies /\ y.timers = [ts EXCEPT ![s] = t]
      BY <2>3, <3>2 DEF IsResponder
    <3> QED
      BY <3>1, <3>3
  <2>8. SessionsOK(w) /\ SessionsOK(x)
    <3> HIDE DEF w, x
    <3>1. IsResponder(w) /\ w.cookies = v.cookies /\ w.timers = [ts EXCEPT ![s] = 1]
      BY <2>7 DEF w
    <3>2. IsResponder(x) /\ x.cookies = v.cookies /\ x.timers = [ts EXCEPT ![s] = Off]
      BY <2>7 DEF x
    <3> QED
      BY <2>0, <2>3, <2>5, <3>1, <3>2, OneSlot
  <2>9. SessionsOK(pico_mdns_timer_add(v, s, 1, ok))
    BY <2>8 DEF pico_mdns_timer_add
  <2>10. SessionsOK(pico_mdns_cookie_apply_spt(st, s, k, later, ok))
    BY <2>1, <2>9 DEF pico_mdns_cookie_apply_spt, v
  <2> QED
    BY <1>1, <2>10 DEF pico_mdns_handle_single_authority
<1>2. CASE ~(s # 0 /\ st.cookies[s].type = "PROBE" /\ st.cookies[s].status = "ACTIVE")
  BY <1>2 DEF pico_mdns_handle_single_authority
<1> QED
  BY <1>1, <1>2

LEMMA QuestionOK ==
    ASSUME NEW st, SessionsOK(st), NEW n
    PROVE  SessionsOK(pico_mdns_handle_single_question(st, n))
<1> DEFINE found == pico_mdns_ctree_find_cookie(st, n)
           g == [s \in Slots |-> IF s \in found /\ st.cookies[s].type = "QUERY"
                                 THEN [st.cookies[s] EXCEPT !.status = "CANCELLED"] ELSE st.cookies[s]]
           u == pico_mdns_handle_single_question(st, n)
<1>1. u = [st EXCEPT !.cookies = g]
  BY DEF pico_mdns_handle_single_question, SessionsOK, IsResponder
<1>2. g = [s \in Slots |-> g[s]]
  OBVIOUS
<1>3. ASSUME NEW s \in Slots
      PROVE  g[s] \in {st.cookies[s], [st.cookies[s] EXCEPT !.status = "CANCELLED"]}
  OBVIOUS
<1>4. ASSUME NEW s \in Slots
      PROVE  SlotOK([st.cookies[s] EXCEPT !.status = "CANCELLED"], st.timers[s])
  <2> DEFINE e == st.cookies[s]
             d == [e EXCEPT !.status = "CANCELLED"]
  <2>1. SlotOK(e, st.timers[s])
    BY DEF SessionsOK
  <2> HIDE DEF e
  <2>2. /\ IsCookie(d) /\ d.type = e.type /\ d.count = e.count /\ d.timeout = e.timeout
        /\ d.tree = e.tree
    BY <2>1 DEF SlotOK, IsCookie
  <2> HIDE DEF d
  <2>3. SlotOK(d, st.timers[s])
    BY <2>1, <2>2 DEF SlotOK, Outlives
  <2> QED
    BY <2>3 DEF d, e
<1> HIDE DEF g
<1>5. IsResponder(u) /\ u.cookies = g /\ u.timers = st.timers
  BY <1>1, <1>2 DEF SessionsOK, IsResponder
<1> HIDE DEF u
<1>6. \A s \in Slots : SlotOK(g[s], st.timers[s])
  BY <1>3, <1>4 DEF SessionsOK
<1> QED
  BY <1>5, <1>6 DEF SessionsOK, u

-----------------------------------------------------------------------------
(* The steps.                                                              *)

LEMMA AfterTimerOK ==
    ASSUME SessionsOK(mdns), NEW s \in Slots
    PROVE  LET u == AfterTimer(s)
           IN  SessionsOK(u) /\ u.cookies = mdns.cookies /\ u.timers[s] = Off
<1>1. SlotOK(mdns.cookies[s], Off)
  BY NoTimerOK DEF SessionsOK, SlotOK
<1> QED
  BY <1>1, TimerSet DEF AfterTimer

LEMMA QueryTimerOK ==
    ASSUME SessionsOK(mdns), NEW s \in Slots, pico_mdns_send_query_packet(s)
    PROVE  SessionsOK(mdns')
<1> DEFINE u == AfterTimer(s)
           c == mdns.cookies[s]
           v == TreeDelete(u, c)
<1>1. SessionsOK(u) /\ u.timers[s] = Off
  BY AfterTimerOK
<1>2. mdns' \in {[u EXCEPT !.cookies[s].status = "ACTIVE"], pico_mdns_cookie_delete(v, s)}
  BY DEF pico_mdns_send_query_packet
<1> HIDE DEF u, c
<1>3. SessionsOK(v) /\ v.timers[s] = Off
  BY <1>1, TreeDeleteOK
<1> HIDE DEF v
<1>4. SessionsOK(pico_mdns_cookie_delete(v, s))
  BY <1>3, CookieDeleteOK
<1>5. SessionsOK([u EXCEPT !.cookies[s].status = "ACTIVE"])
  BY <1>1, StatusOK
<1> QED
  BY <1>2, <1>4, <1>5

LEMMA ProbeTimerOK ==
    ASSUME SessionsOK(mdns), NEW s \in Slots, pico_mdns_send_probe_packet(s)
    PROVE  SessionsOK(mdns')
<1> DEFINE u == AfterTimer(s)
           c == mdns.cookies[s]
           t == mdns.timers[s]
<1>1. SessionsOK(u) /\ u.cookies[s] = c /\ u.timers[s] = Off
  BY AfterTimerOK
<1>2. PICK ok \in BOOLEAN : mdns' = ProbeStep(u, s, ok)
  BY DEF pico_mdns_send_probe_packet
<1>3. t # Off /\ c.type = "PROBE" /\ SlotOK(c, t)
  BY DEF pico_mdns_send_probe_packet, Fire, SessionsOK
<1> HIDE DEF u, c, t
<1>4. /\ IsCookie(c) /\ c.count \in Nat /\ c.count <= ProbeCount /\ c.timeout \in Nat /\ t \in Nat
      /\ c.tree => c.timeout > t + c.count + Shifted[AnnounceCount - 1] - 1
  BY <1>3, MdnsNumbers DEF SlotOK, Outlives, Off
<1>5. CASE c.count > 0
  <2> DEFINE d == [c EXCEPT !.count = @ - 1, !.status = "ACTIVE"]
             v == [u EXCEPT !.cookies[s] = d]
  <2>1. v = [u EXCEPT !.cookies[s].count = @ - 1, !.cookies[s].status = "ACTIVE"]
    BY <1>1 DEF SessionsOK, IsResponder
  <2>2. mdns' = pico_mdns_timer_add(v, s, 1, ok)
    BY <1>1, <1>2, <1>5, <2>1 DEF ProbeStep
  <2>3. IsCookie(d) /\ d.type = "PROBE" /\ d.count = c.count - 1 /\ d.timeout = c.timeout
        /\ d.tree = c.tree
    BY <1>3, <1>4 DEF IsCookie
  <2> HIDE DEF d
  <2>4. SessionsOK(v) /\ v.cookies[s] = d /\ v.timers = u.timers
    <3>1. SlotOK(d, u.timers[s])
      BY <1>1, <2>3, NoTimerOK
    <3> QED
      BY <1>1, <3>1, SessionOK
  <2> HIDE DEF v
  <2>5. Outlives(d, 1)
    BY <1>4, <1>5, <2>3, MdnsNumbers DEF Outlives
  <2> QED
    BY <2>2, <2>4, <2>5, TimerAddOK
<1>6. CASE ~(c.count > 0)
  <2> DEFINE a == pico_mdns_my_records_probed(u, c.antree)
             d == [c EXCEPT !.count = AnnounceCount, !.type = "ANNOUNCEMENT"]
             v == [a EXCEPT !.cookies[s] = d]
  <2>1. SessionsOK(a) /\ a.cookies = u.cookies /\ a.timers = u.timers
    BY <1>1, RecordsOK DEF pico_mdns_my_records_probed
  <2>2. mdns' = pico_mdns_send_announcement_packet(
                    [a EXCEPT !.cookies[s].count = AnnounceCount,
                              !.cookies[s].type = "ANNOUNCEMENT"], s, ok)
    BY <1>1, <1>2, <1>6 DEF ProbeStep
  <2> HIDE DEF a
  <2>3. v = [a EXCEPT !.cookies[s].count = AnnounceCount, !.cookies[s].type = "ANNOUNCEMENT"]
    BY <1>1, <2>1 DEF SessionsOK, IsResponder
  <2>4. IsCookie(d) /\ d.type = "ANNOUNCEMENT" /\ d.count = AnnounceCount
        /\ d.timeout = c.timeout /\ d.tree = c.tree
    BY <1>4 DEF IsCookie
  <2> HIDE DEF d
  <2>5. SessionsOK(v) /\ v.cookies[s] = d /\ v.timers = a.timers
    <3>1. SlotOK(d, a.timers[s])
      BY <1>1, <2>1, <2>4, NoTimerOK
    <3> QED
      BY <2>1, <3>1, SessionOK
  <2> HIDE DEF v
  <2>6. /\ d.count \in 1..AnnounceCount /\ d.timeout \in Nat
        /\ d.tree => d.timeout > Shifted[AnnounceCount - 1] - Shifted[AnnounceCount - d.count]
    <3>1. AnnounceCount - d.count = 0 /\ c.count = 0
      BY <1>4, <1>6, <2>4, MdnsNumbers
    <3>2. Shifted[AnnounceCount - d.count] = 1
      BY <3>1, ShiftedIs
    <3> QED
      BY <1>4, <2>4, <3>1, <3>2, MdnsNumbers
  <2>7. SessionsOK(pico_mdns_send_announcement_packet(v, s, ok))
    BY <1>1, <2>1, <2>4, <2>5, <2>6, AnnouncementOK
  <2> QED
    BY <2>2, <2>3, <2>7
<1> QED
  BY <1>5, <1>6

LEMMA AnnouncementTimerOK ==
    ASSUME SessionsOK(mdns), NEW s \in Slots, MdnsAnnouncementTimer(s)
    PROVE  SessionsOK(mdns')
<1> DEFINE u == AfterTimer(s)
           c == mdns.cookies[s]
           t == mdns.timers[s]
<1>1. SessionsOK(u) /\ u.cookies[s] = c /\ u.timers[s] = Off
  BY AfterTimerOK
<1>2. PICK ok \in BOOLEAN : mdns' = pico_mdns_send_announcement_packet(u, s, ok)
  BY DEF MdnsAnnouncementTimer
<1>3. t # Off /\ c.type = "ANNOUNCEMENT" /\ SlotOK(c, t)
  BY DEF MdnsAnnouncementTimer, Fire, SessionsOK
<1> HIDE DEF u, c, t
<1>4. /\ c.count \in 1..(AnnounceCount - 1) /\ c.timeout \in Nat /\ t \in Nat
      /\ c.tree => c.timeout > t + Shifted[AnnounceCount - 1] - Shifted[AnnounceCount - c.count]
  BY <1>3 DEF SlotOK, Outlives, Off
<1>5. AnnounceCount - c.count \in 0..AnnounceCount
  BY <1>4, MdnsNumbers
<1>6. Shifted[AnnounceCount - c.count] \in Nat
  BY <1>5, ShiftedNat
<1>7. c.tree => c.timeout > Shifted[AnnounceCount - 1] - Shifted[AnnounceCount - c.count]
  BY <1>4, <1>6, MdnsNumbers
<1>8. c.count \in 1..AnnounceCount
  BY <1>4, MdnsNumbers
<1> QED
  BY <1>1, <1>2, <1>3, <1>4, <1>7, <1>8, AnnouncementOK

LEMMA MdnsTickOK ==
    ASSUME SessionsOK(mdns), pico_mdns_tick
    PROVE  SessionsOK(mdns')
<1> DEFINE cs == mdns.cookies
           ts == mdns.timers
           g == [s \in Slots |-> IF ~cs[s].tree THEN cs[s]
                                 ELSE IF cs[s].timeout = 1 THEN FreeSlot
                                 ELSE OneSecondLess(cs[s])]
           h == [s \in Slots |-> IF ts[s] = Off THEN Off ELSE ts[s] - 1]
<1>1. mdns' = [mdns EXCEPT !.cookies = g, !.timers = h]
  BY DEF pico_mdns_tick, pico_mdns_cookies_check_timeouts, SessionsOK, IsResponder
<1>2. ASSUME NEW s \in Slots PROVE ts[s] # 0 /\ SlotOK(cs[s], ts[s])
  BY DEF pico_mdns_tick, MdnsTicks, SessionsOK
<1>3. g = [s \in Slots |-> g[s]] /\ h = [s \in Slots |-> h[s]]
  OBVIOUS
<1>4. ASSUME NEW s \in Slots PROVE SlotOK(g[s], h[s])
  <2> DEFINE c == cs[s]
             t == ts[s]
             d == OneSecondLess(c)
  <2>1. /\ g[s] = IF ~c.tree THEN c ELSE IF c.timeout = 1 THEN FreeSlot ELSE d
        /\ h[s] = IF t = Off THEN Off ELSE t - 1
    OBVIOUS
  <2>2. t # 0 /\ SlotOK(c, t)
    BY <1>2
  <2> HIDE DEF c, t, g, h
  <2>3. /\ IsCookie(d) /\ d.type = c.type /\ d.count = c.count /\ d.timeout = c.timeout - 1
        /\ d.tree = c.tree
    BY <2>2 DEF SlotOK, IsCookie, OneSecondLess
  <2> HIDE DEF d
  <2>4. IsCookie(g[s])
    BY <2>1, <2>2, <2>3, FreeSlotOK DEF SlotOK
  <2>5. CASE t = Off
    BY <2>1, <2>4, <2>5, NoTimerOK
  <2>6. CASE t # Off
    <3>1. t \in Nat /\ t > 0 /\ h[s] = t - 1 /\ Outlives(c, t)
      BY <2>1, <2>2, <2>6 DEF SlotOK, Off
    <3> DEFINE more == Shifted[AnnounceCount - 1]
               left == Shifted[AnnounceCount - c.count]
    <3>2. more \in Nat /\ more > 0
      BY MdnsNumbers
    <3>3. c.type = "ANNOUNCEMENT" => left \in Nat /\ left > 0 /\ left <= more
      <4> SUFFICES ASSUME c.type = "ANNOUNCEMENT" PROVE left \in Nat /\ left > 0 /\ left <= more
        OBVIOUS
      <4>1. c.count \in 1..(AnnounceCount - 1)
        BY <3>1 DEF Outlives
      <4>2. AnnounceCount - c.count \in 0..(AnnounceCount - 1)
        BY <4>1, MdnsNumbers
      <4> QED
        BY <4>2, MdnsNumbers, ShiftedNat, ShiftedGrows
    <3> HIDE DEF more, left
    <3>4. c.tree => c.timeout \in Nat /\ c.timeout > t
      BY <3>1, <3>2, <3>3 DEF Outlives, more, left
    <3>5. g[s] = IF c.tree THEN d ELSE c
      BY <2>1, <3>1, <3>4
    <3>6. Outlives(g[s], t - 1)
      <4>1. CASE ~c.tree
        BY <3>1, <3>5, <4>1 DEF Outlives
      <4>2. CASE c.tree
        <5>1. /\ g[s] = d /\ c.timeout \in Nat /\ c.timeout > t /\ d.timeout \in Nat
          BY <2>3, <3>1, <3>4, <3>5, <4>2
        <5>2. CASE c.type = "QUERY"
          BY <2>3, <3>1, <5>1, <5>2 DEF Outlives
        <5>3. CASE c.type = "PROBE"
          <6>1. c.count \in Nat /\ c.count \in 0..ProbeCount /\ c.timeout > t + c.count + more - 1
            BY <3>1, <4>2, <5>3, MdnsNumbers DEF Outlives, more
          <6>2. d.timeout > t - 1 + d.count + more - 1
            BY <2>3, <3>1, <3>2, <5>1, <6>1
          <6> QED
            BY <2>3, <5>1, <5>3, <6>1, <6>2 DEF Outlives, more
        <5>4. CASE c.type = "ANNOUNCEMENT"
          <6>1. c.count \in 1..(AnnounceCount - 1) /\ c.timeout > t + more - left
            BY <3>1, <4>2, <5>4 DEF Outlives, more, left
          <6>2. d.timeout > t - 1 + more - left
            BY <2>3, <3>1, <3>2, <3>3, <5>1, <5>4, <6>1
          <6> QED
            BY <2>3, <5>1, <5>4, <6>1, <6>2 DEF Outlives, more, left
        <5> QED
          BY <3>1, <4>2, <5>2, <5>3, <5>4 DEF Outlives
      <4> QED
        BY <4>1, <4>2
    <3> QED
      BY <2>4, <3>1, <3>6 DEF SlotOK, Off
  <2> QED
    BY <2>5, <2>6
<1> HIDE DEF g, h
<1>5. IsResponder(mdns') /\ mdns'.cookies = g /\ mdns'.timers = h
  BY <1>1, <1>3 DEF SessionsOK, IsResponder
<1> QED
  BY <1>4, <1>5 DEF SessionsOK

LEMMA FoundSlot ==
    ASSUME NEW st, NEW n, NEW s \in Found(st, n)
    PROVE  s \in Slots \union {0}
BY DEF Found, pico_mdns_ctree_find_cookie, InTree

LEMMA MdnsReceivesOK ==
    ASSUME SessionsOK(mdns), pico_mdns_recv
    PROVE  SessionsOK(mdns')
<1>1. CASE pico_mdns_handle_query_packet
  BY <1>1, QuestionOK, ReplyOK DEF pico_mdns_handle_query_packet
<1>2. CASE pico_mdns_handle_probe_packet
  <2>1. PICK k \in Keys : \E s \in Found(mdns, NameOf(k)),
             later \in pico_mdns_record_am_i_lexi_later, ok \in BOOLEAN :
          mdns' = pico_mdns_reply(pico_mdns_handle_single_authority(mdns, k, s, later, ok),
                                  pico_mdns_populate_antree(mdns, NameOf(k)))
    BY <1>2 DEF pico_mdns_handle_probe_packet
  <2>2. PICK s \in Found(mdns, NameOf(k)), later \in pico_mdns_record_am_i_lexi_later,
             ok \in BOOLEAN :
          mdns' = pico_mdns_reply(pico_mdns_handle_single_authority(mdns, k, s, later, ok),
                                  pico_mdns_populate_antree(mdns, NameOf(k)))
    BY <2>1
  <2>3. SessionsOK(pico_mdns_handle_single_authority(mdns, k, s, later, ok))
    BY FoundSlot, AuthorityOK
  <2> QED
    BY <2>2, <2>3, ReplyOK
<1>3. CASE pico_mdns_handle_response_packet
  <2>1. CASE UNCHANGED mdns
    BY <2>1
  <2>2. CASE ~UNCHANGED mdns
    <3>1. PICK k \in Keys : \E s \in Found(mdns, NameOf(k)) : pico_mdns_handle_data_as_answers(k, s)
      BY <1>3, <2>2 DEF pico_mdns_handle_response_packet
    <3>2. PICK s \in Found(mdns, NameOf(k)) : pico_mdns_handle_data_as_answers(k, s)
      BY <3>1
    <3>3. s \in Slots \union {0} /\ FindsChanged(mdns, s, NameOf(k)) \subseteq Slots \union {0, s}
      BY FoundSlot DEF FindsChanged, InTree
    <3>4. PICK ok \in BOOLEAN, z \in Slots \union {0} :
               mdns' = pico_mdns_handle_single_answer(mdns, k, s, z, ok)
      BY <3>2, <3>3 DEF pico_mdns_handle_data_as_answers
    <3> QED
      BY <3>3, <3>4, AnswerOK
  <2> QED
    BY <2>1, <2>2
<1> QED
  BY <1>1, <1>2, <1>3 DEF pico_mdns_recv

LEMMA FreshOK == SessionsOK(Fresh)
<1>1. /\ IsResponder(Fresh)
      /\ \A s \in Slots : Fresh.cookies[s] = FreeSlot /\ Fresh.timers[s] = Off
  BY DEF IsResponder, Fresh
<1> QED
  BY <1>1, FreeSlotOK DEF SessionsOK

LEMMA MdnsStepOK ==
    ASSUME SessionsOK(mdns), [MdnsNext]_mdnsVars
    PROVE  SessionsOK(mdns')
<1>1. CASE pico_mdns_init
  <2> DEFINE u == [pico_mdns_cleanup EXCEPT !.socket = TRUE]
  <2>1. IsResponder(u) /\ u.cookies = Fresh.cookies /\ u.timers = Fresh.timers
    BY FreshOK DEF pico_mdns_cleanup, SessionsOK, IsResponder
  <2>2. PICK ok \in BOOLEAN : mdns' = pico_mdns_claim_generic(u, NewRecords({MdnsHostname}), ok)
    BY <1>1 DEF pico_mdns_init, Initialised, pico_mdns_tryclaim_hostname
  <2> HIDE DEF u
  <2>3. SessionsOK(u)
    BY <2>1, FreshOK, SlotsSame
  <2> QED
    BY <2>2, <2>3, ClaimOK
<1>2. CASE pico_mdns_tick
  BY <1>2, MdnsTickOK
<1>3. ASSUME NEW rs \in MdnsClaims, pico_mdns_claim(rs) PROVE SessionsOK(mdns')
  BY <1>3, ClaimOK DEF pico_mdns_claim
<1>4. ASSUME NEW n \in MdnsPeers, pico_mdns_getrecord(n) PROVE SessionsOK(mdns')
  <2> DEFINE s == NextSlot(mdns)
             c == Query(n)
             u == [mdns EXCEPT !.cookies[s] = c]
  <2>1. s \in Slots /\ mdns.timers[s] = Off
    BY <1>4, FreeSlotFound DEF pico_mdns_getrecord
  <2>2. mdns' = pico_mdns_timer_add(u, s, 1, TRUE)
    BY <1>4 DEF pico_mdns_getrecord, pico_mdns_getrecord_generic
  <2>3. IsCookie(c) /\ c.type = "QUERY" /\ c.timeout = CookieTimeout
    BY DEF Query, IsCookie, pico_mdns_cookie_create
  <2> HIDE DEF s, c
  <2>4. SlotOK(c, mdns.timers[s])
    BY <2>1, <2>3, NoTimerOK
  <2>5. SessionsOK(u) /\ u.cookies[s] = c /\ u.timers = mdns.timers
    BY <2>1, <2>4, SessionOK
  <2> HIDE DEF u
  <2>6. Outlives(c, 1)
    BY <2>3, MdnsNumbers DEF Outlives
  <2>7. SessionsOK(pico_mdns_timer_add(u, s, 1, TRUE))
    BY <2>1, <2>5, <2>6, TimerAddOK
  <2> QED
    BY <2>2, <2>7
<1>5. ASSUME NEW s \in Slots, \/ pico_mdns_send_query_packet(s) \/ pico_mdns_send_probe_packet(s)
                             \/ MdnsAnnouncementTimer(s)
      PROVE SessionsOK(mdns')
  BY <1>5, QueryTimerOK, ProbeTimerOK, AnnouncementTimerOK
<1>6. CASE pico_mdns_recv
  BY <1>6, MdnsReceivesOK
<1>7. CASE UNCHANGED mdnsVars
  BY <1>7 DEF mdnsVars
<1> QED
  BY <1>1, <1>2, <1>3, <1>4, <1>5, <1>6, <1>7 DEF MdnsNext

(* No send timer of the mDNS responder is pending when its own session     *)
(* has ended or timed out, for any counts of probes and announcements and  *)
(* any number of sessions, names, conflicts and tiebreaks, as long as a    *)
(* session is given longer than a tick for each probe and                  *)
(* 2^(announcements - 1) more (10 seconds against 3 and 4 in the source).  *)
(* A cookie that is freed in the place of another (Mistaken) is the one    *)
(* exception: its timer may be pending.                                    *)
THEOREM NoTimerOutlivesItsSession == MdnsSpec => []MdnsNoStaleTimer
<1>1. MdnsInit => SessionsOK(mdns)
  BY FreshOK DEF MdnsInit
<1>2. SessionsOK(mdns) /\ [MdnsNext]_mdnsVars => SessionsOK(mdns)'
  BY MdnsStepOK DEF SessionsOK, IsResponder, SlotOK, Outlives, IsCookie
<1>3. SessionsOK(mdns) => MdnsNoStaleTimer
  BY DEF SessionsOK, SlotOK, Outlives, MdnsNoStaleTimer, FreeSlot
<1> QED
  BY <1>1, <1>2, <1>3, PTL DEF MdnsSpec
=============================================================================
