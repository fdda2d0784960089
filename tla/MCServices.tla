----------------------------- MODULE MCServices -----------------------------
(***************************************************************************)
(* PPP and the clients above the transport on small instances.  They share *)
(* no state, but for SNTP, which calls DNS, so a behaviour of this module  *)
(* is one of PPP, of TFTP, of DNS asked by an application, of SNTP over    *)
(* DNS or of mDNS, chosen by part, while the others stay in an initial     *)
(* state.                                                                  *)
(***************************************************************************)
EXTENDS Ppp, Tftp, Sntp, Mdns

CONSTANT Parts    \* the modules that are checked

VARIABLE part     \* the one that moves

Rec(n, t, s) == [name |-> n, type |-> t, shared |-> s]
(* The host's unique address record and a shared service record.           *)
MCMdnsHost == Rec("h", "A", FALSE)
MCMdnsOwn == {MCMdnsHost, Rec("s", "SRV", TRUE)}
MCMdnsClaims == {{Rec("s", "SRV", TRUE)}}

(* One initial state of the module that has several.                       *)
OneTftp == tftp.app /\ tftp.timed

(* The requests that are not those of SNTP.                                *)
DnsAlone ==
    \/ pico_dns_client_nameserver \/ DnsResponse \/ DnsTimer
    \/ \E req \in DnsRequests \ SntpCookies : DnsRequest(req)

ServicesInit ==
    /\ part \in Parts
    /\ PppInit /\ TftpInit /\ SntpInit /\ MdnsInit
    /\ part # "tftp" => OneTftp

ServicesNext ==
    /\ UNCHANGED part
    /\ \/ part = "ppp" /\ PppNext /\ UNCHANGED <<tftpVars, sntpVars, mdnsVars>>
       \/ part = "tftp" /\ TftpNext /\ UNCHANGED <<pppVars, sntpVars, mdnsVars>>
       \/ part = "dns" /\ DnsAlone /\ UNCHANGED <<sntp, sntpClock, pppVars, tftpVars, mdnsVars>>
       \/ part = "sntp" /\ SntpNext /\ UNCHANGED <<pppVars, tftpVars, mdnsVars>>
       \/ part = "mdns" /\ MdnsNext /\ UNCHANGED <<pppVars, tftpVars, sntpVars>>

servicesVars == <<part, pppVars, tftpVars, sntpVars, mdnsVars>>

(* The fairness of the module that moves.                                  *)
ServicesSpec ==
    /\ ServicesInit /\ [][ServicesNext]_servicesVars
    /\ WF_pppClock(part = "ppp" /\ PppSecond)
    /\ WF_tftpClock(part = "tftp" /\ TftpTicks)
    /\ WF_dnsClock(part \in {"dns", "sntp"} /\ DnsTimersFire)
    /\ WF_sntpClock(part = "sntp" /\ SntpTimersFire)
    /\ WF_mdnsClock(part = "mdns" /\ MdnsFires)

(* The type invariants of the five modules.                                *)
ServicesTypeOK == part \in Parts /\ PppTypeOK /\ TftpTypeOK /\ SntpTypeOK /\ MdnsTypeOK

(* What an application asked for ends, whatever the peers send: a          *)
(* disconnected PPP device comes to rest (check_to_lcp), a TFTP session    *)
(* that waits is answered or closed (event_timeout), a DNS query is        *)
(* answered or given up (pico_dns_client_retransmission), an SNTP request  *)
(* too (sntp_receive_timeout), and an mDNS session is over when its        *)
(* timeout comes (pico_mdns_cookies_check_timeouts).                       *)
ServicesEnd == PppDisconnects /\ TftpEnds /\ DnsEnds /\ SntpEnds /\ MdnsSessionEnds
=============================================================================
