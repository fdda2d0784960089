----------------------------- MODULE DhcpProofs -----------------------------
(***************************************************************************)
(* Proofs about Dhcp, for any number of hosts, addresses, retries,         *)
(* transactions and misfortunes.                                           *)
(*                                                                         *)
(* AddressPerHost is not inductive: it follows from where an address can   *)
(* come from.  The server's ARP table gives each host an address of its    *)
(* own and never changes it, and everything else repeats it: the           *)
(* negotiations, the replies on their way and the clients that were        *)
(* answered.  LinkIsLease and NeverStranded follow from Fits, which says   *)
(* for each state of a client exactly which links and timers it has.       *)
(***************************************************************************)
EXTENDS Dhcp, TLAPS

(* What a client sends, and all that is on its way.                        *)
Asked == [to : {"server"}, kind : {"DISCOVER", "REQUEST"}, hw : Hosts, xid : 1..MaxXid,
          selecting : BOOLEAN, addr : Nat]
Answer == [to : {"client"}, kind : {"OFFER", "ACK"}, hw : Hosts, xid : 1..MaxXid,
           selecting : BOOLEAN, addr : Nat]

CookieT ==
    [st : ClientStates, xid : 0..MaxXid, retry : Nat, s : BOOLEAN, address : Nat,
     links : SUBSET Nat, tmr : SUBSET TimerTypes,
     told : {"nothing", "ERROR", "SUCCESS", "RESET"}, tx : SUBSET Asked]

NegT == [state : {"none", "DISCOVER", "OFFER", "BOUND"}, hw : Hosts \union {"none"}, ciaddr : Nat]

(* The links and the timers of each state.  A renewal that could not be    *)
(* sent is the one state without a socket that keeps T2 and LEASE.         *)
HasTimers(c) ==
    /\ c.st = "none" => c.tmr = {} /\ ~c.s
    /\ c.st = "INIT" => c.tmr = {"INIT"}
    /\ c.st = "REQUESTING" => c.tmr \subseteq {"INIT", "REQUEST"} /\ "REQUEST" \in c.tmr
    /\ c.st = "BOUND" => c.tmr = {"T1", "T2", "LEASE"}
    /\ c.st = "RENEWING" => c.tmr = {"RENEW"} \/ c.tmr = {"T2", "LEASE"}
    /\ c.st = "REBINDING" => c.tmr = {"REBIND"}

HasLinks(c) ==
    /\ c.st \in Holding => c.links = {c.address}
    /\ c.st \in {"INIT", "REQUESTING"} => c.links = {ANY}
    /\ c.st = "none" => c.links \subseteq {ANY}
    /\ c.told = "SUCCESS" => c.st \in Holding

(* The cookie of a host whose address the server's ARP table has as a.     *)
Kept(c, a) ==
    /\ c \in CookieT
    /\ c.st # "none" => c.xid \in 1..MaxXid
    /\ HasLinks(c)
    /\ c.st \in {"REQUESTING"} \union Holding => c.address = a /\ a # 0

Fits(c, a) == Kept(c, a) /\ HasTimers(c) /\ c.retry <= Retries

DhcpTypes ==
    /\ DOMAIN cookie = Hosts /\ DOMAIN neg = 1..MaxXid
    /\ pool_next \in Nat \ {0} /\ arp \in [Hosts -> Nat]
    /\ born \in 0..MaxXid /\ faults \in 0..MaxFaults

ArpOK ==
    /\ \A h \in Hosts : arp[h] < pool_next
    /\ \A g, h \in Hosts : arp[g] = arp[h] /\ arp[g] # 0 => g = h

NegOK ==
    \A x \in 1..MaxXid :
        /\ neg[x] \in NegT
        /\ neg[x].state = "none" => neg[x] = NoNegotiation
        /\ neg[x].state # "none" =>
              neg[x].hw \in Hosts /\ neg[x].ciaddr = arp[neg[x].hw] /\ neg[x].ciaddr # 0

NetOK ==
    \A m \in net : m \in Asked \/ (m \in Answer /\ m.addr = arp[m.hw] /\ m.addr # 0)

DhcpInv ==
    /\ DhcpTypes
    /\ \A h \in Hosts : Fits(cookie[h], arp[h]) /\ cookie[h].tx = {}
    /\ ArpOK
    /\ NegOK
    /\ NetOK

-----------------------------------------------------------------------------
(* The handlers of a client.                                               *)

(* e is c but for the messages it has sent.                                *)
Sent(e, c) ==
    /\ e \in CookieT /\ e.st = c.st /\ e.xid = c.xid /\ e.retry = c.retry /\ e.s = c.s
    /\ e.address = c.address /\ e.links = c.links /\ e.tmr = c.tmr /\ e.told = c.told

LEMMA RequestIs ==
    ASSUME NEW h \in Hosts, NEW c \in CookieT, c.xid \in 1..MaxXid,
           NEW kind \in {"DISCOVER", "REQUEST"}
    PROVE  Request(h, kind, c) \in Asked
<1> DEFINE b == kind = "REQUEST" /\ c.st = "REQUESTING"
           a == IF c.st \in Holding THEN c.address ELSE 0
<1>1. b \in BOOLEAN
  OBVIOUS
<1>2. a \in Nat
  BY DEF CookieT
<1>3. Request(h, kind, c) = [to |-> "server", kind |-> kind, hw |-> h, xid |-> c.xid,
                             selecting |-> b, addr |-> a]
  BY DEF Request
<1> HIDE DEF a, b
<1> QED
  BY <1>1, <1>2, <1>3 DEF Asked

LEMMA MsgIs ==
    ASSUME NEW h \in Hosts, NEW c \in CookieT, c.xid \in 1..MaxXid,
           NEW kind \in {"DISCOVER", "REQUEST"}, NEW e, e = pico_dhcp_client_msg(h, c, kind)
    PROVE  Sent(e, c)
<1> DEFINE X == IF c.s THEN c.tx \union {Request(h, kind, c)} ELSE c.tx
<1>1. X \subseteq Asked
  BY RequestIs DEF CookieT
<1>2. e = [c EXCEPT !.tx = X]
  <2>1. CASE c.s
    BY <2>1 DEF pico_dhcp_client_msg
  <2>2. CASE ~c.s
    <3>1. e = c
      BY <2>2 DEF pico_dhcp_client_msg
    <3>2. X = c.tx
      BY <2>2
    <3> QED
      BY <3>1, <3>2 DEF CookieT
  <2> QED
    BY <2>1, <2>2
<1> HIDE DEF X
<1> QED
  BY <1>1, <1>2 DEF Sent, CookieT

(* e is c with the timers T.                                               *)
WithTimers(e, c, T) ==
    /\ e \in CookieT /\ e.st = c.st /\ e.xid = c.xid /\ e.s = c.s
    /\ e.address = c.address /\ e.links = c.links /\ e.tmr = T /\ e.told = c.told

LEMMA TimerAddIs ==
    ASSUME NEW c \in CookieT, NEW type \in TimerTypes, NEW e, e = pico_dhcp_timer_add(c, type)
    PROVE  WithTimers(e, c, c.tmr \union {type}) /\ e.retry = c.retry
<1> DEFINE T == c.tmr \union {type}
<1>1. T \subseteq TimerTypes
  BY DEF CookieT
<1>2. e = [c EXCEPT !.tmr = T]
  BY DEF pico_dhcp_timer_add
<1> HIDE DEF T
<1>3. WithTimers(e, c, T) /\ e.retry = c.retry
  BY <1>1, <1>2 DEF WithTimers, CookieT
<1> QED
  BY <1>3 DEF T

LEMMA StopTimersIs ==
    ASSUME NEW c \in CookieT, NEW e, e = pico_dhcp_client_stop_timers(c)
    PROVE  WithTimers(e, c, {}) /\ e.retry = 0
  BY DEF pico_dhcp_client_stop_timers, WithTimers, CookieT

(* What pico_dhcp_client_init makes of c.                                  *)
Inited(e, c) ==
    /\ e \in CookieT /\ e.st = c.st /\ e.xid = c.xid /\ e.retry <= Retries
    /\ e.address = c.address /\ e.links = c.links \union {ANY}
    /\ e.tmr = c.tmr \union {"INIT"} /\ e.told = c.told

LEMMA InitIs ==
    ASSUME NEW h \in Hosts, NEW c \in CookieT, c.xid \in 1..MaxXid, c.retry <= Retries,
           NEW ok \in BOOLEAN, NEW e, e = pico_dhcp_client_init(h, c, ok)
    PROVE  Inited(e, c)
<1> DEFINE L == c.links \union {ANY}
           l == [c EXCEPT !.links = L, !.s = ok]
           f == pico_dhcp_client_msg(h, l, "DISCOVER")
           k == IF ok THEN [f EXCEPT !.retry = 0] ELSE l
<1>0. L \subseteq Nat /\ 0 <= Retries /\ "INIT" \in TimerTypes
  BY DhcpAssumption DEF CookieT, ANY, TimerTypes
<1>1. e = pico_dhcp_timer_add(k, "INIT")
  BY DEF pico_dhcp_client_init
<1> HIDE DEF L
<1>2. /\ l \in CookieT /\ l.st = c.st /\ l.xid = c.xid /\ l.retry = c.retry
      /\ l.address = c.address /\ l.links = L /\ l.tmr = c.tmr /\ l.told = c.told
  BY <1>0 DEF CookieT
<1> HIDE DEF l
<1>3. Sent(f, l)
  BY <1>2, MsgIs
<1> HIDE DEF f
<1>4. /\ k \in CookieT /\ k.st = c.st /\ k.xid = c.xid /\ k.retry <= Retries
      /\ k.address = c.address /\ k.links = L /\ k.tmr = c.tmr /\ k.told = c.told
  BY <1>0, <1>2, <1>3 DEF Sent, CookieT
<1> HIDE DEF k
<1>5. WithTimers(e, k, k.tmr \union {"INIT"}) /\ e.retry = k.retry
  BY <1>0, <1>1, <1>4, TimerAddIs
<1> QED
  BY <1>4, <1>5 DEF WithTimers, Inited, L

LEMMA States == ClientStates = {"none", "INIT", "REQUESTING", "BOUND", "RENEWING", "REBINDING"}
  BY DEF ClientStates, Holding

LEMMA NegotiationOK ==
    ASSUME NEW h \in Hosts, NEW c, NEW a, Fits(c, a), c.st = "none", NEW x \in 1..MaxXid,
           NEW ok \in BOOLEAN, NEW e, e = pico_dhcp_initiate_negotiation(h, c, x, ok)
    PROVE  Fits(e, a)
<1> DEFINE l == [NoCookie EXCEPT !.st = "INIT", !.xid = x, !.links = c.links]
<1>1. c.links \subseteq {ANY} /\ c.links \subseteq Nat
  BY DEF Fits, Kept, HasLinks, CookieT
<1>2. /\ l \in CookieT /\ l.st = "INIT" /\ l.xid = x /\ l.retry = 0 /\ l.address = 0
      /\ l.links = c.links /\ l.tmr = {} /\ l.told = "nothing"
  <2>1. x \in 0..MaxXid /\ MaxXid \in Nat
    BY DhcpAssumption
  <2> QED
    BY <1>1, <2>1, States DEF NoCookie, CookieT
<1>3. 0 <= Retries
  BY DhcpAssumption
<1>4. e = pico_dhcp_client_init(h, l, ok)
  BY DEF pico_dhcp_initiate_negotiation
<1> HIDE DEF l
<1>5. Inited(e, l)
  BY <1>2, <1>3, <1>4, InitIs
<1>6. e.links = {ANY} /\ e.tmr = {"INIT"}
  BY <1>1, <1>2, <1>5 DEF Inited
<1> QED
  BY <1>2, <1>5, <1>6 DEF Inited, Fits, Kept, HasLinks, HasTimers, Holding

LEMMA DelCookieOK ==
    ASSUME NEW c, NEW a, Kept(c, a), c.told # "SUCCESS", NEW e,
           e = pico_dhcp_client_del_cookie(c)
    PROVE  Fits(e, a)
<1> DEFINE L == c.links \ {c.address}
<1>1. c.st \in ClientStates /\ c.links \subseteq Nat
  BY DEF Kept, CookieT
<1>2. L \subseteq {ANY} /\ L \subseteq Nat
  BY <1>1, States DEF Kept, HasLinks, Holding
<1>3. e = [NoCookie EXCEPT !.links = L, !.told = c.told]
  BY DEF pico_dhcp_client_del_cookie
<1>4. c.told \in {"nothing", "ERROR", "SUCCESS", "RESET"} /\ 0 <= Retries /\ 0 \in 0..MaxXid
  BY DhcpAssumption DEF Kept, CookieT
<1> DEFINE t == c.told
<1> HIDE DEF L, t
<1>5. /\ e \in CookieT /\ e.st = "none" /\ e.retry = 0 /\ e.links = L /\ e.tmr = {}
      /\ e.told = t /\ e.s = FALSE
  <2>1. /\ e = [st |-> "none", xid |-> 0, retry |-> 0, s |-> FALSE, address |-> 0,
                links |-> L, tmr |-> {}, told |-> t, tx |-> {}]
    BY <1>3 DEF NoCookie, t
  <2>2. t \in {"nothing", "ERROR", "SUCCESS", "RESET"} /\ "none" \in ClientStates
    BY <1>4, States DEF t
  <2> QED
    BY <1>2, <1>4, <2>1, <2>2 DEF CookieT
<1> USE DEF t
<1> QED
  BY <1>2, <1>4, <1>5 DEF Fits, Kept, HasLinks, HasTimers, Holding

LEMMA ReinitOK ==
    ASSUME NEW h \in Hosts, NEW c, NEW a, Kept(c, a), c.st = "INIT", c.tmr = {},
           c.retry <= Retries, NEW ok \in BOOLEAN, NEW e, e = pico_dhcp_client_reinit(h, c, ok)
    PROVE  Fits(e, a)
<1> DEFINE n == c.retry + 1
           r == [c EXCEPT !.s = FALSE, !.retry = n]
           q == [r EXCEPT !.told = "ERROR"]
<1>1. n \in Nat
  BY DEF Kept, CookieT
<1>2. e = IF r.retry > Retries THEN pico_dhcp_client_del_cookie(q)
          ELSE pico_dhcp_client_init(h, r, ok)
  BY DEF pico_dhcp_client_reinit, Exhausted
<1> HIDE DEF n
<1>3. /\ r \in CookieT /\ r.st = "INIT" /\ r.xid = c.xid /\ r.retry = n
      /\ r.address = c.address /\ r.links = c.links /\ r.tmr = {} /\ r.told = c.told
  BY <1>1 DEF Kept, CookieT
<1>4. Kept(q, a) /\ q.told = "ERROR"
  BY <1>3 DEF Kept, CookieT, HasLinks, Holding
<1> HIDE DEF r, q
<1>5. CASE r.retry > Retries
  BY <1>2, <1>4, <1>5, DelCookieOK
<1>6. CASE ~(r.retry > Retries)
  <2>1. r.retry <= Retries /\ r.xid \in 1..MaxXid
    BY <1>1, <1>3, <1>6, DhcpAssumption DEF Kept
  <2>2. Inited(e, r)
    BY <1>2, <1>3, <1>6, <2>1, InitIs
  <2>3. e.links = {ANY} /\ e.tmr = {"INIT"} /\ e.told # "SUCCESS"
    BY <1>3, <2>2 DEF Inited, Kept, HasLinks, Holding
  <2> QED
    BY <1>3, <2>1, <2>2, <2>3 DEF Inited, Fits, Kept, HasLinks, HasTimers, Holding
<1> QED
  BY <1>5, <1>6

LEMMA ResetOK ==
    ASSUME NEW h \in Hosts, NEW c, NEW a, Kept(c, a), c.st \in {"REQUESTING"} \union Holding,
           NEW ok \in BOOLEAN, NEW e, e = reset(h, c, ok)
    PROVE  Fits(e, a)
<1> DEFINE L == c.links \ {IF c.st = "REQUESTING" THEN ANY ELSE c.address}
           r == [c EXCEPT !.links = L, !.told = "RESET", !.st = "INIT"]
           q == pico_dhcp_client_stop_timers(r)
<1>1. L = {}
  BY DEF Kept, HasLinks, Holding
<1>2. e = pico_dhcp_client_init(h, q, ok)
  BY DEF reset
<1> HIDE DEF L
<1>3. /\ r \in CookieT /\ r.st = "INIT" /\ r.xid = c.xid /\ r.links = {} /\ r.told = "RESET"
  BY <1>1, States DEF Kept, CookieT
<1> HIDE DEF r
<1>4. WithTimers(q, r, {}) /\ q.retry = 0
  BY <1>3, StopTimersIs
<1> HIDE DEF q
<1>5. q \in CookieT /\ q.xid \in 1..MaxXid /\ q.retry <= Retries
  BY <1>3, <1>4, DhcpAssumption DEF WithTimers, Kept, Holding
<1>6. Inited(e, q)
  BY <1>2, <1>5, InitIs
<1>7. e.links = {ANY} /\ e.tmr = {"INIT"} /\ e.st = "INIT" /\ e.told = "RESET"
  BY <1>3, <1>4, <1>6 DEF Inited, WithTimers
<1> QED
  BY <1>5, <1>6, <1>7 DEF Inited, Fits, Kept, HasLinks, HasTimers, Holding

LEMMA OfferOK ==
    ASSUME NEW h \in Hosts, NEW c, NEW a \in Nat \ {0}, Fits(c, a), c.st = "INIT",
           NEW m, m.addr = a, NEW e, e = recv_offer(h, c, m)
    PROVE  Fits(e, a)
<1> DEFINE r == [c EXCEPT !.address = a, !.st = "REQUESTING", !.retry = 0]
           q == pico_dhcp_client_msg(h, r, "REQUEST")
<1>1. e = pico_dhcp_timer_add(q, "REQUEST")
  BY DEF recv_offer
<1>2. /\ r \in CookieT /\ r.st = "REQUESTING" /\ r.xid = c.xid /\ r.xid \in 1..MaxXid
      /\ r.links = {ANY} /\ r.told = c.told /\ r.told # "SUCCESS"
      /\ r.tmr = {"INIT"} /\ r.address = a /\ r.retry = 0
  BY States DEF Fits, Kept, CookieT, HasLinks, HasTimers, Holding
<1> HIDE DEF r
<1>3. Sent(q, r)
  BY <1>2, MsgIs
<1> HIDE DEF q
<1>4. "REQUEST" \in TimerTypes /\ 0 <= Retries /\ q \in CookieT
  BY <1>3, DhcpAssumption DEF TimerTypes, Sent
<1>5. WithTimers(e, q, q.tmr \union {"REQUEST"}) /\ e.retry = q.retry
  BY <1>1, <1>4, TimerAddIs
<1>6. /\ e \in CookieT /\ e.st = "REQUESTING" /\ e.xid \in 1..MaxXid /\ e.links = {ANY}
      /\ e.told # "SUCCESS" /\ e.tmr = {"INIT", "REQUEST"} /\ e.address = a /\ e.retry = 0
  BY <1>2, <1>3, <1>5 DEF Sent, WithTimers
<1> QED
  BY <1>4, <1>6 DEF Fits, Kept, HasLinks, HasTimers, Holding

LEMMA AckOK ==
    ASSUME NEW c, NEW a \in Nat \ {0}, Fits(c, a), c.st \in {"REQUESTING"} \union Holding,
           NEW m, m.addr = a, NEW e, e = recv_ack(c, m)
    PROVE  Fits(e, a)
<1>1. c.address = a
  BY DEF Fits, Kept
<1>2. e = [c EXCEPT !.address = a, !.s = FALSE, !.links = {a}, !.retry = 0,
                    !.tmr = {"T1", "T2", "LEASE"}, !.told = "SUCCESS", !.st = "BOUND"]
  BY <1>1 DEF recv_ack
<1> DEFINE T == {"T1", "T2", "LEASE"}
           L == {a}
<1>3. T \subseteq TimerTypes /\ L \subseteq Nat /\ 0 <= Retries /\ c \in CookieT
      /\ "BOUND" \in ClientStates
  BY DhcpAssumption, States DEF TimerTypes, Fits, Kept
<1> HIDE DEF T, L
<1>4. /\ e \in CookieT /\ e.st = "BOUND" /\ e.xid = c.xid /\ e.links = L /\ e.address = a
      /\ e.tmr = T /\ e.retry = 0
  <2>1. e = [c EXCEPT !.address = a, !.s = FALSE, !.links = L, !.retry = 0,
                      !.tmr = T, !.told = "SUCCESS", !.st = "BOUND"]
    BY <1>2 DEF T, L
  <2>2. e = [st |-> "BOUND", xid |-> c.xid, retry |-> 0, s |-> FALSE, address |-> a,
             links |-> L, tmr |-> T, told |-> "SUCCESS", tx |-> c.tx]
    BY <1>3, <2>1 DEF CookieT
  <2>3. c.xid \in 0..MaxXid /\ c.tx \subseteq Asked
    BY <1>3 DEF CookieT
  <2> QED
    BY <1>3, <2>2, <2>3 DEF CookieT
<1> USE DEF T, L
<1> QED
  BY <1>3, <1>4 DEF Fits, Kept, HasLinks, HasTimers, Holding

(* A request leaves again, and its timer is the only one.                  *)
AskAgain(h, c, kind, type) ==
    pico_dhcp_timer_add(pico_dhcp_client_stop_timers(pico_dhcp_client_msg(h, c, kind)), type)

LEMMA AskAgainIs ==
    ASSUME NEW h \in Hosts, NEW c \in CookieT, c.xid \in 1..MaxXid,
           NEW kind \in {"DISCOVER", "REQUEST"}, NEW type \in TimerTypes,
           NEW e, e = AskAgain(h, c, kind, type)
    PROVE  WithTimers(e, c, {type}) /\ e.retry <= Retries
<1> DEFINE f == pico_dhcp_client_msg(h, c, kind)
           g == pico_dhcp_client_stop_timers(f)
<1>1. e = pico_dhcp_timer_add(g, type)
  BY DEF AskAgain
<1>2. Sent(f, c)
  BY MsgIs
<1> HIDE DEF f
<1>3. WithTimers(g, f, {}) /\ g.retry = 0
  BY <1>2, StopTimersIs DEF Sent
<1> HIDE DEF g
<1>4. WithTimers(e, g, g.tmr \union {type}) /\ e.retry = g.retry
  BY <1>1, <1>3, TimerAddIs DEF WithTimers
<1>5. 0 <= Retries /\ g.tmr \union {type} = {type}
  BY <1>3, DhcpAssumption DEF WithTimers
<1> QED
  BY <1>2, <1>3, <1>4, <1>5 DEF WithTimers, Sent

TimerOf(st) == IF st = "RENEWING" THEN "RENEW" ELSE "REBIND"

LEMMA AskAgainOK ==
    ASSUME NEW h \in Hosts, NEW c, NEW a, Kept(c, a), NEW kind \in {"DISCOVER", "REQUEST"},
           c.st \in {"RENEWING", "REBINDING"}, NEW e, e = AskAgain(h, c, kind, TimerOf(c.st))
    PROVE  Fits(e, a)
<1> DEFINE type == TimerOf(c.st)
<1>1. c \in CookieT /\ c.xid \in 1..MaxXid /\ type \in TimerTypes
  BY DEF Kept, TimerTypes, TimerOf
<1>2. WithTimers(e, c, {type}) /\ e.retry <= Retries
  BY <1>1, AskAgainIs
<1> QED
  BY <1>1, <1>2 DEF TimerOf, WithTimers, Fits, Kept, HasLinks, HasTimers, Holding

LEMMA RenewOK ==
    ASSUME NEW h \in Hosts, NEW c, NEW a, Kept(c, a), c.st = "BOUND", c.tmr = {"T2", "LEASE"},
           c.retry <= Retries, NEW ok \in BOOLEAN, NEW e, e = renew(h, c, ok)
    PROVE  Fits(e, a)
<1> DEFINE r == [c EXCEPT !.st = "RENEWING", !.s = ok]
           q == [r EXCEPT !.told = "ERROR"]
<1>1. e = IF ~ok THEN q ELSE AskAgain(h, r, "REQUEST", "RENEW")
  BY DEF renew, AskAgain
<1>2. /\ r \in CookieT /\ r.st = "RENEWING" /\ r.xid = c.xid /\ r.retry = c.retry
      /\ r.address = c.address /\ r.links = c.links /\ r.tmr = c.tmr /\ r.told = c.told
  BY States DEF Kept, CookieT
<1>3. Kept(r, a)
  BY <1>2 DEF Kept, HasLinks, Holding
<1>4. CASE ok
  <2> HIDE DEF r
  <2>1. e = AskAgain(h, r, "REQUEST", TimerOf(r.st))
    BY <1>1, <1>2, <1>4 DEF TimerOf
  <2> QED
    BY <1>2, <1>3, <2>1, AskAgainOK
<1>5. CASE ~ok
  <2>1. /\ q \in CookieT /\ q.st = "RENEWING" /\ q.xid = c.xid /\ q.retry = c.retry
        /\ q.address = c.address /\ q.links = c.links /\ q.tmr = c.tmr /\ q.told = "ERROR"
    <3> HIDE DEF r
    <3> QED
      BY <1>2 DEF CookieT
  <2> HIDE DEF q
  <2>2. e = q
    BY <1>1, <1>5
  <2> QED
    BY <2>1, <2>2 DEF Fits, Kept, HasLinks, HasTimers, Holding
<1> QED
  BY <1>4, <1>5

LEMMA RebindOK ==
    ASSUME NEW h \in Hosts, NEW c, NEW a, Kept(c, a), c.st = "RENEWING", NEW e, e = rebind(h, c)
    PROVE  Fits(e, a)
<1> DEFINE r == [c EXCEPT !.st = "REBINDING"]
<1>1. e = AskAgain(h, r, "REQUEST", "REBIND")
  BY DEF rebind, AskAgain
<1>2. /\ r \in CookieT /\ r.st = "REBINDING" /\ r.xid = c.xid
      /\ r.address = c.address /\ r.links = c.links /\ r.told = c.told
  BY States DEF Kept, CookieT
<1>3. Kept(r, a)
  BY <1>2 DEF Kept, HasLinks, Holding
<1> HIDE DEF r
<1>4. e = AskAgain(h, r, "REQUEST", TimerOf(r.st))
  BY <1>1, <1>2 DEF TimerOf
<1> QED
  BY <1>2, <1>3, <1>4, AskAgainOK

LEMMA RetransmitOK ==
    ASSUME NEW h \in Hosts, NEW c, NEW a, Kept(c, a),
           c.st \in {"REQUESTING", "RENEWING", "REBINDING"},
           c.st = "REQUESTING" => c.tmr \subseteq {"INIT"} /\ c.retry <= Retries,
           NEW e, e = retransmit(h, c)
    PROVE  Fits(e, a)
<1>1. CASE c.st = "RENEWING"
  <2>1. e = AskAgain(h, c, "REQUEST", TimerOf(c.st))
    BY <1>1 DEF retransmit, AskAgain, TimerOf
  <2> QED
    BY <1>1, <2>1, AskAgainOK
<1>2. CASE c.st = "REBINDING"
  <2>1. e = AskAgain(h, c, "DISCOVER", TimerOf(c.st))
    BY <1>2 DEF retransmit, AskAgain, TimerOf
  <2> QED
    BY <1>2, <2>1, AskAgainOK
<1>3. CASE c.st = "REQUESTING"
  <2> DEFINE f == pico_dhcp_client_msg(h, c, "REQUEST")
  <2>1. e = pico_dhcp_timer_add(f, "REQUEST")
    BY <1>3 DEF retransmit
  <2>2. c \in CookieT /\ c.xid \in 1..MaxXid /\ "REQUEST" \in TimerTypes
    BY <1>3 DEF Kept, TimerTypes
  <2>3. Sent(f, c)
    BY <2>2, MsgIs
  <2> HIDE DEF f
  <2>4. WithTimers(e, f, f.tmr \union {"REQUEST"}) /\ e.retry = f.retry
    BY <2>1, <2>2, <2>3, TimerAddIs DEF Sent
  <2>5. /\ e.tmr \subseteq {"INIT", "REQUEST"} /\ "REQUEST" \in e.tmr /\ e.retry <= Retries
        /\ e.st = "REQUESTING" /\ e.links = c.links /\ e.told = c.told /\ e.address = c.address
        /\ e.xid = c.xid /\ e \in CookieT
    BY <1>3, <2>3, <2>4 DEF Sent, WithTimers
  <2> QED
    BY <1>3, <2>5 DEF Fits, Kept, HasLinks, HasTimers, Holding
<1> QED
  BY <1>1, <1>2, <1>3

(* A timer that expires leaves the client with another, or without a       *)
(* cookie.                                                                 *)
LEMMA TimerHandlerOK ==
    ASSUME NEW h \in Hosts, NEW c, NEW a, Fits(c, a), NEW type \in c.tmr,
           type = "T2" => "T1" \notin c.tmr, type = "LEASE" => c.tmr \intersect {"T1", "T2"} = {},
           NEW ok \in BOOLEAN, NEW e, e = pico_dhcp_client_timer_handler(h, c, type, ok)
    PROVE  Fits(e, a)
<1> DEFINE T == c.tmr \ {type}
           d == [c EXCEPT !.tmr = T]
           n == d.retry + 1
           r == [d EXCEPT !.retry = n]
<1>1. /\ c \in CookieT /\ c.st \in ClientStates /\ T \subseteq TimerTypes /\ HasTimers(c)
      /\ c.retry \in Nat /\ c.retry <= Retries
  BY DEF Fits, Kept, CookieT
<1>2. e = CASE type = "INIT" ->
                 IF d.st = "INIT" THEN pico_dhcp_client_reinit(h, d, ok) ELSE d
            [] type = "REQUEST" ->
                 IF r.retry > Retries THEN reset(h, r, ok)
                 ELSE pico_dhcp_state_machine(h, r, "RETRANSMIT", {}, ok)
            [] type \in {"RENEW", "REBIND"} ->
                 pico_dhcp_state_machine(h, r, "RETRANSMIT", {}, ok)
            [] OTHER -> pico_dhcp_state_machine(h, d, type, {}, ok)
  BY DEF pico_dhcp_client_timer_handler, Exhausted
<1>3. T = c.tmr \ {type}
  OBVIOUS
<1> HIDE DEF T
<1>4. /\ d \in CookieT /\ d.st = c.st /\ d.xid = c.xid /\ d.retry = c.retry
      /\ d.address = c.address /\ d.links = c.links /\ d.tmr = T /\ d.told = c.told
  BY <1>1 DEF CookieT
<1> HIDE DEF d
<1>5. Kept(d, a)
  BY <1>4 DEF Fits, Kept, HasLinks
<1>6. n \in Nat
  BY <1>1, <1>4
<1> HIDE DEF n
<1>7. /\ r \in CookieT /\ r.st = c.st /\ r.xid = c.xid /\ r.retry = n
      /\ r.address = c.address /\ r.links = c.links /\ r.tmr = T /\ r.told = c.told
  BY <1>4, <1>6 DEF CookieT
<1> HIDE DEF r
<1>8. Kept(r, a)
  BY <1>7 DEF Fits, Kept, HasLinks
<1>9. ASSUME c.st \in {"REQUESTING", "RENEWING", "REBINDING"}
      PROVE  pico_dhcp_state_machine(h, r, "RETRANSMIT", {}, ok) = retransmit(h, r)
  BY <1>7 DEF pico_dhcp_state_machine
<1>10. CASE type = "INIT"
  <2>1. c.st \in {"INIT", "REQUESTING"}
    BY <1>1, <1>10, States DEF HasTimers
  <2>2. CASE c.st = "INIT"
    <3>1. T = {}
      BY <1>1, <1>3, <1>10, <2>2 DEF HasTimers
    <3>2. e = pico_dhcp_client_reinit(h, d, ok)
      BY <1>2, <1>4, <1>10, <2>2
    <3> QED
      BY <1>1, <1>4, <1>5, <2>2, <3>1, <3>2, ReinitOK
  <2>3. CASE c.st = "REQUESTING"
    <3>1. T \subseteq {"INIT", "REQUEST"} /\ "REQUEST" \in T
      BY <1>1, <1>3, <1>10, <2>3 DEF HasTimers
    <3>2. e = d
      BY <1>2, <1>4, <1>10, <2>3
    <3> QED
      BY <1>1, <1>4, <1>5, <2>3, <3>1, <3>2 DEF Fits, HasTimers
  <2> QED
    BY <2>1, <2>2, <2>3
<1>11. CASE type = "REQUEST"
  <2>1. c.st = "REQUESTING" /\ T \subseteq {"INIT"}
    BY <1>1, <1>3, <1>11, States DEF HasTimers
  <2>2. CASE r.retry > Retries
    <3>1. e = reset(h, r, ok)
      BY <1>2, <1>11, <2>2
    <3> QED
      BY <1>7, <1>8, <2>1, <3>1, ResetOK
  <2>3. CASE ~(r.retry > Retries)
    <3>1. e = retransmit(h, r)
      BY <1>2, <1>9, <1>11, <2>1, <2>3
    <3>2. r.retry <= Retries
      BY <1>6, <1>7, <2>3, DhcpAssumption
    <3> QED
      BY <1>7, <1>8, <2>1, <3>1, <3>2, RetransmitOK
  <2> QED
    BY <2>2, <2>3
<1>12. CASE type \in {"RENEW", "REBIND"}
  <2>1. c.st \in {"RENEWING", "REBINDING"}
    BY <1>1, <1>12, States DEF HasTimers
  <2>2. e = retransmit(h, r)
    BY <1>2, <1>9, <1>12, <2>1
  <2> QED
    BY <1>7, <1>8, <2>1, <2>2, RetransmitOK
<1>13. CASE type = "T1"
  <2>1. c.st = "BOUND" /\ T = {"T2", "LEASE"}
    BY <1>1, <1>3, <1>13, States DEF HasTimers
  <2>2. e = renew(h, d, ok)
    BY <1>2, <1>4, <1>13, <2>1 DEF pico_dhcp_state_machine
  <2> QED
    BY <1>1, <1>4, <1>5, <2>1, <2>2, RenewOK
<1>14. CASE type = "T2"
  <2>1. c.st = "RENEWING"
    BY <1>1, <1>14, States DEF HasTimers
  <2>2. e = rebind(h, d)
    BY <1>2, <1>4, <1>14, <2>1 DEF pico_dhcp_state_machine
  <2> QED
    BY <1>4, <1>5, <2>1, <2>2, RebindOK
<1>15. type # "LEASE"
  BY <1>1, States DEF HasTimers
<1>16. type \in TimerTypes
  BY <1>1 DEF CookieT
<1> QED
  BY <1>10, <1>11, <1>12, <1>13, <1>14, <1>15, <1>16 DEF TimerTypes

-----------------------------------------------------------------------------
(* The steps of a client.                                                  *)

LEMMA BecomesOK ==
    ASSUME DhcpInv, NEW h \in Hosts, NEW c, Fits(c, arp[h]), NEW gone, Becomes(h, c, gone),
           UNCHANGED <<neg, pool_next, arp>>, born' \in 0..MaxXid, faults' \in 0..MaxFaults
    PROVE  DhcpInv'
<1> DEFINE d == [c EXCEPT !.tx = {}]
<1>1. c \in CookieT /\ c.tx \subseteq Asked /\ DOMAIN cookie = Hosts
  BY DEF Fits, Kept, CookieT, DhcpInv, DhcpTypes
<1>2. cookie' = [cookie EXCEPT ![h] = d] /\ net' = (net \ gone) \union c.tx
  BY DEF Becomes
<1>3. /\ d \in CookieT /\ d.st = c.st /\ d.xid = c.xid /\ d.retry = c.retry /\ d.s = c.s
      /\ d.address = c.address /\ d.links = c.links /\ d.tmr = c.tmr /\ d.told = c.told
      /\ d.tx = {}
  BY <1>1 DEF CookieT
<1> HIDE DEF d
<1>4. Fits(d, arp[h])
  BY <1>3 DEF Fits, Kept, HasLinks, HasTimers
<1>5. DhcpTypes'
  BY <1>1, <1>2 DEF DhcpInv, DhcpTypes
<1>6. ASSUME NEW g \in Hosts PROVE Fits(cookie'[g], arp'[g]) /\ cookie'[g].tx = {}
  BY <1>1, <1>2, <1>3, <1>4 DEF DhcpInv
<1>7. ArpOK' /\ NegOK'
  BY DEF DhcpInv, ArpOK, NegOK
<1>8. NetOK'
  BY <1>1, <1>2 DEF DhcpInv, NetOK
<1> QED
  BY <1>5, <1>6, <1>7, <1>8 DEF DhcpInv

LEMMA FaultsOK == DhcpInv /\ (Fault \/ Silent) => faults' \in 0..MaxFaults
  BY DhcpAssumption DEF DhcpInv, DhcpTypes, Fault, Silent

LEMMA StartOK ==
    ASSUME DhcpInv, NEW h \in Hosts, Start(h)
    PROVE  DhcpInv'
<1>1. born + 1 \in 1..MaxXid /\ born' \in 0..MaxXid
  BY DhcpAssumption DEF DhcpInv, DhcpTypes, Start
<1>2. Fits(cookie[h], arp[h]) /\ cookie[h].st = "none" /\ UNCHANGED <<neg, pool_next, arp>>
  BY DEF DhcpInv, Start, server
<1>3. PICK ok \in BOOLEAN :
         /\ Becomes(h, pico_dhcp_initiate_negotiation(h, cookie[h], born + 1, ok), {})
         /\ Works(ok)
  BY DEF Start
<1>4. faults' \in 0..MaxFaults
  BY <1>3, FaultsOK DEF Works
<1> DEFINE x == born + 1
           c == pico_dhcp_initiate_negotiation(h, cookie[h], x, ok)
<1>5. x \in 1..MaxXid
  BY <1>1
<1> HIDE DEF x
<1>6. Fits(c, arp[h])
  BY <1>2, <1>5, NegotiationOK
<1>7. Becomes(h, c, {})
  BY <1>3 DEF x
<1> HIDE DEF c
<1> QED
  BY <1>1, <1>2, <1>4, <1>6, <1>7, BecomesOK

LEMMA AbortOK ==
    ASSUME DhcpInv, NEW h \in Hosts, Abort(h)
    PROVE  DhcpInv'
<1> DEFINE o == cookie[h]
           c == [pico_dhcp_client_del_cookie(o) EXCEPT !.told = "nothing"]
           L == o.links \ {o.address}
<1>1. Fits(o, arp[h]) /\ o.st # "none" /\ UNCHANGED <<neg, pool_next, arp>>
  BY DEF DhcpInv, Abort, server
<1>2. o.st \in ClientStates /\ o.links \subseteq Nat
  BY <1>1 DEF Fits, Kept, CookieT
<1>3. L \subseteq {ANY} /\ L \subseteq Nat
  BY <1>1, <1>2, States DEF Fits, Kept, HasLinks, Holding
<1>4. c = [st |-> "none", xid |-> 0, retry |-> 0, s |-> FALSE, address |-> 0,
           links |-> L, tmr |-> {}, told |-> "nothing", tx |-> {}]
  <2> DEFINE t == o.told
             e == pico_dhcp_client_del_cookie(o)
  <2>1. e = [NoCookie EXCEPT !.links = L, !.told = t]
    BY DEF pico_dhcp_client_del_cookie
  <2>2. c = [e EXCEPT !.told = "nothing"]
    OBVIOUS
  <2> HIDE DEF L, t, e, c
  <2>3. e = [st |-> "none", xid |-> 0, retry |-> 0, s |-> FALSE, address |-> 0,
             links |-> L, tmr |-> {}, told |-> t, tx |-> {}]
    BY <2>1 DEF NoCookie
  <2> QED
    BY <2>2, <2>3
<1>5. Becomes(h, c, {}) /\ born' \in 0..MaxXid /\ faults' \in 0..MaxFaults
  BY DEF Abort, DhcpInv, DhcpTypes
<1> HIDE DEF L, c
<1>6. 0 <= Retries /\ 0 \in 0..MaxXid
  BY DhcpAssumption
<1>7. /\ c \in CookieT /\ c.st = "none" /\ c.retry = 0 /\ c.links = L /\ c.tmr = {}
      /\ c.told = "nothing" /\ c.s = FALSE
  BY <1>3, <1>4, <1>6, States DEF CookieT
<1>8. Fits(c, arp[h])
  BY <1>3, <1>6, <1>7 DEF Fits, Kept, HasLinks, HasTimers, Holding
<1> QED
  BY <1>1, <1>5, <1>8, BecomesOK

LEMMA ExpireOK ==
    ASSUME DhcpInv, NEW h \in Hosts, Expire(h)
    PROVE  DhcpInv'
<1>1. Fits(cookie[h], arp[h])
  BY DEF DhcpInv
<1>2. PICK type \in cookie[h].tmr, ok \in BOOLEAN :
        /\ type = "T2" => "T1" \notin cookie[h].tmr
        /\ type = "LEASE" => cookie[h].tmr \intersect {"T1", "T2"} = {}
        /\ Becomes(h, pico_dhcp_client_timer_handler(h, cookie[h], type, ok), {})
        /\ (IF InFlight(h) = {} THEN Works(ok) ELSE ok /\ Fault)
        /\ UNCHANGED <<born, server>>
  BY DEF Expire
<1>3. faults' \in 0..MaxFaults
  BY <1>2, FaultsOK DEF Works
<1> DEFINE c == pico_dhcp_client_timer_handler(h, cookie[h], type, ok)
<1>4. Fits(c, arp[h])
  BY <1>1, <1>2, TimerHandlerOK
<1>5. Becomes(h, c, {}) /\ born' \in 0..MaxXid /\ UNCHANGED <<neg, pool_next, arp>>
  BY <1>2 DEF server, DhcpInv, DhcpTypes
<1> HIDE DEF c
<1> QED
  BY <1>3, <1>4, <1>5, BecomesOK

LEMMA NakOK ==
    ASSUME DhcpInv, NEW h \in Hosts, Nak(h)
    PROVE  DhcpInv'
<1> DEFINE o == cookie[h]
           c == pico_dhcp_state_machine(h, o, "NAK", {}, TRUE)
<1>1. Fits(o, arp[h]) /\ Kept(o, arp[h])
  BY DEF DhcpInv, Fits
<1>2. /\ Becomes(h, c, {}) /\ born' \in 0..MaxXid /\ faults' \in 0..MaxFaults
      /\ UNCHANGED <<neg, pool_next, arp>>
  BY FaultsOK DEF Nak, server, DhcpInv, DhcpTypes
<1>3. Fits(c, arp[h])
  <2>1. CASE o.st \in {"REQUESTING", "RENEWING", "REBINDING"}
    <3>1. c = reset(h, o, TRUE)
      BY <2>1 DEF pico_dhcp_state_machine
    <3>2. o.st \in {"REQUESTING"} \union Holding
      BY <2>1 DEF Holding
    <3> HIDE DEF c, o
    <3> QED
      BY <1>1, <3>1, <3>2, ResetOK
  <2>2. CASE o.st \notin {"REQUESTING", "RENEWING", "REBINDING"}
    <3>1. c = o
      BY <2>2 DEF pico_dhcp_state_machine
    <3> QED
      BY <1>1, <3>1
  <2> QED
    BY <2>1, <2>2
<1> HIDE DEF c
<1> QED
  BY <1>2, <1>3, BecomesOK

LEMMA ClientReceivesOK ==
    ASSUME DhcpInv, NEW m \in net, m \in Answer, NEW gone, ClientReceives(m, gone),
           faults' \in 0..MaxFaults
    PROVE  DhcpInv'
<1> DEFINE h == m.hw
           o == cookie[h]
           a == arp[h]
           e == pico_dhcp_state_machine(h, o, m.kind, m, TRUE)
           c == IF o.s /\ o.xid = m.xid THEN e ELSE o
<1>1. h \in Hosts /\ m.kind \in {"OFFER", "ACK"}
  BY DEF Answer
<1>2. Fits(o, a) /\ m.addr = a /\ a # 0 /\ a \in Nat
  <2>1. m \notin Asked
    BY DEF Asked, Answer
  <2> QED
    BY <1>1, <2>1 DEF DhcpInv, NetOK, DhcpTypes
<1>3. Becomes(h, c, gone) /\ born' \in 0..MaxXid /\ UNCHANGED <<neg, pool_next, arp>>
  BY DEF ClientReceives, server, DhcpInv, DhcpTypes
<1>4. Fits(e, a)
  <2>1. CASE m.kind = "OFFER" /\ o.st = "INIT"
    <3>1. e = recv_offer(h, o, m)
      BY <2>1 DEF pico_dhcp_state_machine
    <3> HIDE DEF e, o, a, h
    <3> QED
      BY <1>1, <1>2, <2>1, <3>1, OfferOK
  <2>2. CASE m.kind = "ACK" /\ o.st \in {"REQUESTING", "RENEWING", "REBINDING"}
    <3>1. e = recv_ack(o, m)
      BY <2>2 DEF pico_dhcp_state_machine
    <3>2. o.st \in {"REQUESTING"} \union Holding
      BY <2>2 DEF Holding
    <3> HIDE DEF e, o, a, h
    <3> QED
      BY <1>2, <3>1, <3>2, AckOK
  <2>3. CASE ~(m.kind = "OFFER" /\ o.st = "INIT")
             /\ ~(m.kind = "ACK" /\ o.st \in {"REQUESTING", "RENEWING", "REBINDING"})
    <3>1. e = o
      BY <1>1, <2>3 DEF pico_dhcp_state_machine
    <3> QED
      BY <1>2, <3>1
  <2> QED
    BY <2>1, <2>2, <2>3
<1>5. Fits(c, a)
  BY <1>2, <1>4
<1> HIDE DEF c, h
<1> QED
  BY <1>1, <1>3, <1>5, BecomesOK

-----------------------------------------------------------------------------
(* The server.                                                             *)

(* An address the server gives a host later is nothing to a client that    *)
(* was not answered.                                                       *)
LEMMA FitsLater ==
    ASSUME NEW c, Fits(c, 0), NEW a
    PROVE  Fits(c, a)
  BY DEF Fits, Kept

LEMMA MakeReplyOK ==
    ASSUME NEW n \in NegT, n.hw \in Hosts, n.state # "none", NEW m \in Asked,
           NEW r, r = dhcps_make_reply(n, m)
    PROVE  /\ r.n \in NegT /\ r.n.state # "none" /\ r.n.hw = n.hw /\ r.n.ciaddr = n.ciaddr
           /\ \A t \in r.tx : t \in Answer /\ t.hw = n.hw /\ t.addr = n.ciaddr
<1>1. ASSUME NEW kind \in {"OFFER", "ACK"}
      PROVE  /\ Reply(kind, m.xid, n) \in Answer /\ Reply(kind, m.xid, n).hw = n.hw
             /\ Reply(kind, m.xid, n).addr = n.ciaddr
  BY DEF Reply, Answer, Asked, NegT
<1> DEFINE B == n.state = "OFFER" \/ (n.state = "BOUND" /\ ~m.selecting /\ m.addr = n.ciaddr)
<1>2. r = CASE m.kind = "DISCOVER" ->
                 [n |-> [n EXCEPT !.state = "OFFER"], tx |-> {Reply("OFFER", m.xid, n)}]
            [] m.kind = "REQUEST" /\ B ->
                 [n |-> [n EXCEPT !.state = "BOUND"], tx |-> {Reply("ACK", m.xid, n)}]
            [] OTHER -> [n |-> n, tx |-> {}]
  BY DEF dhcps_make_reply
<1> HIDE DEF B
<1>3. CASE m.kind = "DISCOVER"
  <2>1. r.n = [n EXCEPT !.state = "OFFER"] /\ r.tx = {Reply("OFFER", m.xid, n)}
    BY <1>2, <1>3
  <2> QED
    BY <1>1, <2>1 DEF NegT
<1>4. CASE m.kind # "DISCOVER" /\ m.kind = "REQUEST" /\ B
  <2>1. r.n = [n EXCEPT !.state = "BOUND"] /\ r.tx = {Reply("ACK", m.xid, n)}
    BY <1>2, <1>4
  <2> QED
    BY <1>1, <2>1 DEF NegT
<1>5. CASE m.kind # "DISCOVER" /\ ~(m.kind = "REQUEST" /\ B)
  <2>1. r.n = n /\ r.tx = {}
    BY <1>2, <1>5
  <2> QED
    BY <2>1
<1> QED
  BY <1>3, <1>4, <1>5

LEMMA ServerRecvOK ==
    ASSUME DhcpInv, NEW m \in Asked, NEW gone, pico_dhcp_server_recv(m, gone),
           faults' \in 0..MaxFaults
    PROVE  DhcpInv'
<1> DEFINE h == m.hw
           x == m.xid
           new == neg[x] = NoNegotiation
           ip == dhcp_negotiation_set_ciaddr(h)
           n == IF new THEN [state |-> "DISCOVER", hw |-> h, ciaddr |-> ip] ELSE neg[x]
           r == IF n.ciaddr \in 1..PoolSize THEN dhcps_make_reply(n, m) ELSE [n |-> n, tx |-> {}]
<1>1. /\ neg' = [neg EXCEPT ![x] = r.n]
      /\ pool_next' = (IF new /\ ip = pool_next THEN pool_next + 1 ELSE pool_next)
      /\ arp' = (IF new THEN [arp EXCEPT ![h] = ip] ELSE arp)
      /\ net' = (net \ gone) \union r.tx
      /\ UNCHANGED <<cookie, born>>
  BY DEF pico_dhcp_server_recv
<1>2. h \in Hosts /\ x \in 1..MaxXid
  BY DEF Asked
<1>3. /\ pool_next \in Nat \ {0} /\ arp \in [Hosts -> Nat] /\ DOMAIN neg = 1..MaxXid
      /\ DOMAIN cookie = Hosts /\ born \in 0..MaxXid
  BY DEF DhcpInv, DhcpTypes
<1>4. /\ ip \in Nat \ {0} /\ ip = (IF arp[h] # 0 THEN arp[h] ELSE pool_next)
      /\ arp[h] < pool_next
  BY <1>2, <1>3 DEF dhcp_negotiation_set_ciaddr, DhcpInv, ArpOK
<1> HIDE DEF ip
(* What becomes of the ARP table.                                          *)
<1>5. arp' \in [Hosts -> Nat] /\ pool_next' \in Nat \ {0}
  BY <1>1, <1>2, <1>3, <1>4
<1>6. \A g \in Hosts : arp'[g] = arp[g] \/ (g = h /\ arp[h] = 0 /\ new /\ arp'[h] = pool_next
                                             /\ pool_next' = pool_next + 1)
  BY <1>1, <1>2, <1>3, <1>4
<1>7. pool_next' \in {pool_next, pool_next + 1}
  BY <1>1
<1>8. ArpOK'
  <2>1. \A g \in Hosts : arp[g] < pool_next /\ arp[g] \in Nat
    BY <1>3 DEF DhcpInv, ArpOK
  <2>2. \A g \in Hosts : arp'[g] < pool_next'
    BY <1>3, <1>6, <1>7, <2>1
  <2>3. ASSUME NEW g \in Hosts, NEW k \in Hosts, arp'[g] = arp'[k], arp'[g] # 0 PROVE g = k
    <3>1. CASE arp'[g] = arp[g] /\ arp'[k] = arp[k]
      BY <2>3, <3>1 DEF DhcpInv, ArpOK
    <3>2. CASE arp'[g] = pool_next /\ g = h
      <4>1. k = h \/ arp'[k] = arp[k]
        BY <1>6
      <4>2. arp[k] # pool_next
        BY <1>3, <2>1
      <4> QED
        BY <2>3, <3>2, <4>1, <4>2
    <3>3. CASE arp'[k] = pool_next /\ k = h
      <4>1. g = h \/ arp'[g] = arp[g]
        BY <1>6
      <4>2. arp[g] # pool_next
        BY <1>3, <2>1
      <4> QED
        BY <2>3, <3>3, <4>1, <4>2
    <3> QED
      BY <1>6, <3>1, <3>2, <3>3
  <2> QED
    BY <2>2, <2>3 DEF ArpOK
(* The negotiation and its replies.                                        *)
<1>9. n \in NegT /\ n.state # "none" /\ n.hw \in Hosts /\ n.ciaddr = arp'[n.hw] /\ n.ciaddr # 0
  <2>1. CASE new
    <3>1. n = [state |-> "DISCOVER", hw |-> h, ciaddr |-> ip]
      BY <2>1
    <3>2. arp'[h] = ip
      BY <1>1, <1>2, <1>3, <2>1
    <3> QED
      BY <1>2, <1>4, <3>1, <3>2 DEF NegT
  <2>2. CASE ~new
    <3>1. n = neg[x] /\ arp' = arp
      BY <1>1, <2>2
    <3> QED
      BY <1>2, <2>2, <3>1 DEF DhcpInv, NegOK
  <2> QED
    BY <2>1, <2>2
<1> HIDE DEF n
<1>10. /\ r.n \in NegT /\ r.n.state # "none" /\ r.n.hw = n.hw /\ r.n.ciaddr = n.ciaddr
       /\ \A t \in r.tx : t \in Answer /\ t.hw = n.hw /\ t.addr = n.ciaddr
  <2>1. CASE n.ciaddr \in 1..PoolSize
    <3>1. r = dhcps_make_reply(n, m)
      BY <2>1
    <3> HIDE DEF r
    <3> QED
      BY <1>9, <3>1, MakeReplyOK
  <2>2. CASE n.ciaddr \notin 1..PoolSize
    <3>1. r = [n |-> n, tx |-> {}]
      BY <2>2
    <3>2. r.n = n /\ r.tx = {}
      BY <3>1
    <3> QED
      BY <1>9, <3>2
  <2> QED
    BY <2>1, <2>2
<1> HIDE DEF r
<1>11. NegOK'
  <2> SUFFICES ASSUME NEW y \in 1..MaxXid
               PROVE  /\ neg'[y] \in NegT
                      /\ neg'[y].state = "none" => neg'[y] = NoNegotiation
                      /\ neg'[y].state # "none" =>
                            neg'[y].hw \in Hosts /\ neg'[y].ciaddr = arp'[neg'[y].hw]
                            /\ neg'[y].ciaddr # 0
    BY DEF NegOK
  <2>1. CASE y = x
    <3>1. neg'[y] = r.n
      BY <1>1, <1>3, <2>1
    <3> QED
      BY <1>9, <1>10, <3>1
  <2>2. CASE y # x
    <3>1. neg'[y] = neg[y]
      BY <1>1, <1>3, <2>2
    <3>2. /\ neg[y] \in NegT
          /\ neg[y].state = "none" => neg[y] = NoNegotiation
          /\ neg[y].state # "none" =>
               neg[y].hw \in Hosts /\ neg[y].ciaddr = arp[neg[y].hw] /\ neg[y].ciaddr # 0
      BY DEF DhcpInv, NegOK
    <3> QED
      BY <1>6, <3>1, <3>2
  <2> QED
    BY <2>1, <2>2
<1>12. NetOK'
  <2> SUFFICES ASSUME NEW t \in net', t \notin Asked
               PROVE  t \in Answer /\ t.addr = arp'[t.hw] /\ t.addr # 0
    BY DEF NetOK
  <2>1. CASE t \in r.tx
    BY <1>9, <1>10, <2>1
  <2>2. CASE t \in net
    <3>1. t \in Answer /\ t.addr = arp[t.hw] /\ t.addr # 0
      BY <2>2 DEF DhcpInv, NetOK
    <3>2. t.hw \in Hosts
      BY <3>1 DEF Answer
    <3> QED
      BY <1>6, <3>1, <3>2
  <2> QED
    BY <1>1, <2>1, <2>2
<1>13. ASSUME NEW g \in Hosts PROVE Fits(cookie'[g], arp'[g]) /\ cookie'[g].tx = {}
  <2>1. Fits(cookie[g], arp[g]) /\ cookie[g].tx = {} /\ cookie' = cookie
    BY <1>1 DEF DhcpInv
  <2>2. CASE arp'[g] = arp[g]
    BY <2>1, <2>2
  <2>3. CASE arp[g] = 0
    BY <2>1, <2>3, FitsLater
  <2> QED
    BY <1>6, <2>2, <2>3
<1>14. DhcpTypes'
  BY <1>1, <1>3, <1>5 DEF DhcpTypes
<1> QED
  BY <1>8, <1>11, <1>12, <1>13, <1>14 DEF DhcpInv

-----------------------------------------------------------------------------
(* The network, and all steps together.                                    *)

(* Less on its way, or nothing changed that the invariant is about.        *)
LEMMA FewerOK ==
    ASSUME DhcpInv, net' \subseteq net, UNCHANGED <<cookie, neg, pool_next, arp, born>>,
           faults' \in 0..MaxFaults
    PROVE  DhcpInv'
<1>1. DhcpTypes' /\ ArpOK' /\ NegOK' /\ NetOK'
  BY DEF DhcpInv, DhcpTypes, ArpOK, NegOK, NetOK
<1> QED
  BY <1>1 DEF DhcpInv

LEMMA ReceiveOK ==
    ASSUME DhcpInv, NEW m \in net, NEW gone, Receive(m, gone), faults' \in 0..MaxFaults
    PROVE  DhcpInv'
<1>1. m \in Asked \/ m \in Answer
  BY DEF DhcpInv, NetOK
<1>2. m \in Asked => m.to = "server"
  BY DEF Asked
<1>3. m \in Answer => m.to = "client"
  BY DEF Answer
<1>4. CASE m.to = "client" /\ ClientReceives(m, gone)
  BY <1>1, <1>2, <1>4, ClientReceivesOK
<1>5. CASE m.to = "server" /\ up /\ pico_dhcp_server_recv(m, gone)
  BY <1>1, <1>3, <1>5, ServerRecvOK
<1>6. CASE m.to = "server" /\ ~up /\ ServerGone(gone)
  BY <1>6, FewerOK DEF ServerGone, server
<1> QED
  BY <1>4, <1>5, <1>6 DEF Receive

LEMMA NetworkOK ==
    ASSUME DhcpInv, NEW h \in Hosts, Deliver(h) \/ Duplicate(h) \/ Lose(h) \/ LeaseRunsOut(h)
    PROVE  DhcpInv'
<1>1. CASE Deliver(h) \/ Duplicate(h)
  <2>1. PICK m \in net : \E gone : Receive(m, gone) /\ (Silent \/ Fault)
    BY <1>1 DEF Deliver, Duplicate, InFlight
  <2>2. PICK gone : Receive(m, gone) /\ (Silent \/ Fault)
    BY <2>1
  <2> QED
    BY <2>2, FaultsOK, ReceiveOK
<1>2. CASE Lose(h)
  BY <1>2, FaultsOK, FewerOK DEF Lose, server
<1>3. CASE LeaseRunsOut(h)
  <2>1. faults' \in 0..MaxFaults
    BY <1>3 DEF LeaseRunsOut, DhcpInv, DhcpTypes
  <2> QED
    BY <1>3, <2>1, FewerOK DEF LeaseRunsOut, server
<1> QED
  BY <1>1, <1>2, <1>3

LEMMA InitDhcpInv == Init => DhcpInv
<1> SUFFICES ASSUME Init PROVE DhcpInv
  OBVIOUS
<1>1. DhcpTypes
  BY DhcpAssumption DEF Init, DhcpTypes
<1>2. Fits(NoCookie, 0)
  <2>1. 0 <= Retries /\ 0 \in 0..MaxXid
    BY DhcpAssumption
  <2>2. NoCookie \in CookieT
    BY <2>1, States DEF NoCookie, CookieT
  <2> QED
    BY <2>1, <2>2 DEF NoCookie, Fits, Kept, HasLinks, HasTimers, Holding
<1>3. \A h \in Hosts : Fits(cookie[h], arp[h]) /\ cookie[h].tx = {}
  BY <1>2 DEF Init, NoCookie
<1>4. ArpOK /\ NegOK /\ NetOK
  BY DEF Init, ArpOK, NegOK, NetOK, NoNegotiation, NegT
<1> QED
  BY <1>1, <1>3, <1>4 DEF DhcpInv

LEMMA NextDhcpInv == DhcpInv /\ [Next]_vars => DhcpInv'
<1> SUFFICES ASSUME DhcpInv, [Next]_vars PROVE DhcpInv'
  OBVIOUS
<1>1. CASE UNCHANGED vars
  <2>1. faults' \in 0..MaxFaults
    BY <1>1 DEF vars, DhcpInv, DhcpTypes
  <2> QED
    BY <1>1, <2>1, FewerOK DEF vars
<1>2. CASE ServerLeaves
  BY <1>2, FaultsOK, FewerOK DEF ServerLeaves
<1> QED
  BY <1>1, <1>2, StartOK, AbortOK, ExpireOK, NakOK, NetworkOK DEF Next

LEMMA DhcpHolds == Spec => []DhcpInv
  BY InitDhcpInv, NextDhcpInv, PTL DEF Spec

-----------------------------------------------------------------------------
(* What follows.                                                           *)

(* No two clients ever hold one address, and the server offers a host that *)
(* comes back the address it had, whatever is lost, duplicated or late on  *)
(* the way, whoever gives up, and however many hosts, transactions and     *)
(* addresses there are.                                                    *)
THEOREM OneAddressPerHost == Spec => []AddressPerHost
<1>1. DhcpInv => AddressPerHost
  <2> SUFFICES ASSUME DhcpInv PROVE AddressPerHost
    OBVIOUS
  <2>1. ASSUME NEW h \in Hosts, cookie[h].st \in Holding
        PROVE  cookie[h].address = arp[h] /\ arp[h] # 0
    BY <2>1 DEF DhcpInv, Fits, Kept
  <2>2. ASSUME NEW x \in 1..MaxXid, neg[x] # NoNegotiation
        PROVE  neg[x].ciaddr = arp[neg[x].hw]
    BY <2>2 DEF DhcpInv, NegOK
  <2> QED
    BY <2>1, <2>2 DEF AddressPerHost, DhcpInv, ArpOK
<1> QED
  BY <1>1, DhcpHolds, PTL

(* The device has exactly the address its client holds, 0.0.0.0 while it   *)
(* asks for one, and the application was told so.                          *)
THEOREM LinkFollowsLease == Spec => []LinkIsLease
<1>1. DhcpInv => LinkIsLease
  BY DEF DhcpInv, Fits, Kept, HasLinks, LinkIsLease
<1> QED
  BY <1>1, DhcpHolds, PTL

(* A client always has a timer that will make it go on.                    *)
THEOREM AlwaysATimer == Spec => []NeverStranded
<1>1. DhcpInv => NeverStranded
  <2> SUFFICES ASSUME DhcpInv, NEW h \in Hosts, cookie[h].st # "none" PROVE cookie[h].tmr # {}
    BY DEF NeverStranded
  <2>1. HasTimers(cookie[h]) /\ cookie[h].st \in ClientStates
    BY DEF DhcpInv, Fits, Kept, CookieT
  <2> QED
    BY <2>1, States DEF HasTimers
<1> QED
  BY <1>1, DhcpHolds, PTL

(* The type invariant, the bound of the retries included.                  *)
THEOREM DhcpTypesHold == Spec => []TypeOK
<1>1. DhcpInv => TypeOK
  <2> SUFFICES ASSUME DhcpInv PROVE TypeOK
    OBVIOUS
  <2>1. ASSUME NEW h \in Hosts
        PROVE  /\ cookie[h].st \in ClientStates /\ cookie[h].xid \in 0..MaxXid
               /\ cookie[h].retry \in 0..Retries /\ cookie[h].tmr \subseteq TimerTypes
               /\ cookie[h].tx = {}
    BY DhcpAssumption DEF DhcpInv, Fits, Kept, CookieT
  <2> QED
    BY <2>1 DEF TypeOK, DhcpInv, DhcpTypes
<1> QED
  BY <1>1, DhcpHolds, PTL
=============================================================================
