-------------------------------- MODULE Sntp --------------------------------
(***************************************************************************)
(* The SNTP client (modules/pico_sntp_client.c) on top of the DNS client.  *)
(* A synchronisation has a cookie for IPv4 and one for IPv6; each is the   *)
(* argument of a DNS request, then of a socket and of a timer, and is      *)
(* freed after its one call of the user's callback.  A step of the DNS     *)
(* client that closes the request of a cookie is also a step of            *)
(* dnsCallback for that cookie.                                            *)
(***************************************************************************)
EXTENDS Dns

SntpCookies == {"v4", "v6"}
ASSUME SntpAssumption == SntpCookies \subseteq DnsRequests

VARIABLES
    sntp,        \* the cookies
    sntpClock    \* parity of the timeouts that have come

sntpVars == <<dnsVars, sntp, sntpClock>>

(* FREE: not allocated.  RESOLVING: dnsCallback will be called with it.    *)
(* WAITING: it is the priv of a socket, and perhaps the argument of a      *)
(* timer.  LOST: nothing refers to it.  misused: a cookie was used after   *)
(* it was freed.                                                           *)
Cookies == [state : {"FREE", "RESOLVING", "WAITING", "LOST"}, rec : BOOLEAN, timer : BOOLEAN]
FreeCookie == [state |-> "FREE", rec |-> FALSE, timer |-> FALSE]

SntpInit ==
    /\ DnsInit
    /\ sntp = [ck |-> [c \in SntpCookies |-> FreeCookie], misused |-> FALSE]
    /\ sntpClock = 0

-----------------------------------------------------------------------------
(* Mutant of pico_sntp_cleanup: the timer is not cancelled.                *)
LeavesTimer(s, c) ==
    [s EXCEPT !.ck[c] = [FreeCookie EXCEPT !.timer = s.ck[c].timer],
              !.misused = @ \/ s.ck[c].state = "FREE"]

pico_sntp_cleanup(s, c) ==
    [s EXCEPT !.ck[c] = FreeCookie, !.misused = @ \/ s.ck[c].state = "FREE"]

(* The socket opened and bound, the timer started and the request sent; or *)
(* one of them failed, and the cookie is cleaned up here or by the caller. *)
pico_sntp_sync_start(s, c) ==
    {[s EXCEPT !.ck[c] = [state |-> "WAITING", rec |-> FALSE, timer |-> TRUE]],
     pico_sntp_cleanup([s EXCEPT !.ck[c].state = "WAITING"], c)}

(* An answer that is not an address leaves the cookie with nobody.         *)
dnsCallback(s, c, ip) ==
    IF ~ip THEN {pico_sntp_cleanup(s, c)}
    ELSE pico_sntp_sync_start(s, c) \union {[s EXCEPT !.ck[c].state = "LOST"]}

(* A getaddr that is refused frees the cookie without a call of the        *)
(* callback.                                                               *)
Asked(d, c) ==
    {IF e = d THEN d ELSE [e EXCEPT !.open = @ \union {c}] :
         e \in pico_dns_client_getaddr_init(d, c, "A")}
pico_sntp_sync_start_dns_ipv4(d) == Asked(d, "v4")
pico_sntp_sync_start_dns_ipv6(d) == Asked(d, "v6")

(* With an address there is nothing to ask: a cookie that cannot be        *)
(* started has its callback called.                                        *)
pico_sntp_sync_start_ipv4(s) == pico_sntp_sync_start(s, "v4")
pico_sntp_sync_start_ipv6(s) == pico_sntp_sync_start(s, "v6")

(* The application asks for the time again when it has it.                 *)
Idle == \A c \in SntpCookies : sntp.ck[c] = FreeCookie /\ c \notin dns.open

(* A query for each family.                                                *)
pico_sntp_sync ==
    /\ Idle
    /\ dns' \in UNION {pico_sntp_sync_start_dns_ipv6(d) : d \in pico_sntp_sync_start_dns_ipv4(dns)}
    /\ sntp' = [sntp EXCEPT !.ck = [c \in SntpCookies |->
                    IF c \in dns'.open THEN [FreeCookie EXCEPT !.state = "RESOLVING"] ELSE FreeCookie]]
    /\ UNCHANGED <<dnsClock, sntpClock>>

(* The same address for both families, of which one may not be supported.  *)
pico_sntp_sync_ip ==
    /\ Idle
    /\ sntp' \in UNION {pico_sntp_sync_start_ipv6(s) : s \in pico_sntp_sync_start_ipv4(sntp)}
    /\ UNCHANGED <<dnsVars, sntpClock>>

-----------------------------------------------------------------------------
(* A step of the DNS client.  The last retransmission answers with NULL,   *)
(* and so does a query that has become one for a CNAME.                    *)
Answered(c) ==
    /\ dnsClock' = dnsClock
    /\ \A i \in Queries(dns) : dns.DNSTable[i].req = c => dns.DNSTable[i].qtype # "CNAME"
SntpDns ==
    /\ pico_dns_client_nameserver \/ DnsResponse \/ DnsTimer
    /\ LET closed == (dns.open \ dns'.open) \intersect SntpCookies IN
       IF closed = {} THEN sntp' = sntp
       ELSE \E c \in closed : sntp' \in dnsCallback(sntp, c, Answered(c))
    /\ UNCHANGED sntpClock

(* Something to read, with or without memory to read it into, or the end   *)
(* of the socket.  Its priv is NULL after the cleanup.  The time itself    *)
(* (server_time, tick_stamp) is left out.                                  *)
pico_sntp_client_wakeup(c) ==
    /\ sntp.ck[c].state = "WAITING"
    /\ LET s == [sntp EXCEPT !.ck[c].rec = TRUE] IN
       sntp' \in {pico_sntp_cleanup(s, c), s}
    /\ UNCHANGED <<dnsVars, sntpClock>>

SntpTicks == sntpClock' = 1 - sntpClock
sntp_receive_timeout(c) ==
    /\ sntp.ck[c].timer
    /\ LET s == [sntp EXCEPT !.ck[c].timer = FALSE] IN
       sntp' = IF s.ck[c].rec THEN s ELSE pico_sntp_cleanup(s, c)
    /\ SntpTicks /\ UNCHANGED dnsVars

SntpNext ==
    \/ pico_sntp_sync \/ pico_sntp_sync_ip \/ SntpDns
    \/ \E c \in SntpCookies : pico_sntp_client_wakeup(c) \/ sntp_receive_timeout(c)

(* The timers of both clients fire, if pico_stack_tick is called on.       *)
SntpTimersFire == (\E c \in SntpCookies : sntp.ck[c].timer) /\ SntpTicks
SntpSpec ==
    /\ SntpInit /\ [][SntpNext]_sntpVars
    /\ WF_dnsClock(DnsTimersFire) /\ WF_sntpClock(SntpTimersFire)

-----------------------------------------------------------------------------
(* Type invariant of both clients.                                         *)
SntpTypeOK ==
    /\ DnsTypeOK
    /\ sntp.ck \in [SntpCookies -> Cookies]

(* A cookie has one owner at a time: it is the argument of an open DNS     *)
(* request exactly while it is resolving, so that neither client calls     *)
(* back with a cookie the other one freed, whatever the order in which     *)
(* answers, errors and timeouts of the two families come.                  *)
SntpOneOwner ==
    /\ ~sntp.misused
    /\ \A c \in SntpCookies :
         /\ sntp.ck[c].state = "RESOLVING" <=> c \in dns.open
         /\ sntp.ck[c].timer => sntp.ck[c].state = "WAITING"

(* A cookie that waits with a timer is freed, and its callback called,     *)
(* unless a reply came for which there was no memory (rec is set before    *)
(* the buffer is allocated, and the timeout then leaves the cookie).       *)
SntpEnds == sntp.ck["v4"].timer ~> sntp.ck["v4"].state = "FREE" \/ sntp.ck["v4"].rec
=============================================================================
