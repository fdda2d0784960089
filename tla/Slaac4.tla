------------------------------- MODULE Slaac4 -------------------------------
(***************************************************************************)
(* Link-local addresses for IPv4 (modules/pico_slaacv4.c), with the part   *)
(* of ARP that reports a conflict (modules/pico_arp.c) and the detection   *)
(* of the carrier that starts and stops the claim                          *)
(* (modules/pico_hotplug_detection.c), of which SLAAC is the one client.   *)
(*                                                                         *)
(* slaacv4_local is the cookie.  slaacTimers holds the pending timers of   *)
(* the claim by what they send: own is the one whose id is cookie.timer,   *)
(* which pico_slaacv4_cancel_timers would cancel, and orphans counts the   *)
(* ones whose id was overwritten.  A packet of another host may come at    *)
(* any time, also one that was queued before the carrier went.             *)
(***************************************************************************)
EXTENDS Integers, FiniteSets

CONSTANTS
    SlaacIps,          \* the addresses pico_slaacv4_getip may pick
    ProbeNb,           \* PROBE_NB
    AnnounceNb,        \* ANNOUNCE_NB
    MaxConflicts,      \* MAX_CONFLICTS
    MaxConflictsFail,  \* MAX_CONFLICTS_FAIL
    ConflictWrap,      \* conflict_nb is a uint8_t: 256
    SlaacOrphans       \* bound: pending timers with which the carrier may still come up

ASSUME SlaacAssumption ==
    /\ {ProbeNb, AnnounceNb, MaxConflicts} \subseteq Nat \ {0}
    /\ MaxConflictsFail \in Nat /\ MaxConflicts < MaxConflictsFail
    /\ ConflictWrap \in Nat /\ MaxConflictsFail < ConflictWrap
    /\ 0 \notin SlaacIps /\ SlaacOrphans \in Nat

VARIABLES
    slaacv4_local,   \* the cookie, the links it added and whether it can be told of the carrier
    slaacTimers,     \* the pending timers of the claim
    hotplug,         \* the carrier, and the registration of the callback
    slaacClock       \* parity of the timers that have fired

slaacVars == <<slaacv4_local, slaacTimers, hotplug, slaacClock>>

pico_slaacv4_init_cookie(ip, dev) ==
    [state |-> "RESET", probe_try_nb |-> 0, conflict_nb |-> 0, announce_nb |-> 0, ip |-> ip,
     device |-> dev]

(* detects: has the device a link_state?  The address of the first claim   *)
(* is a hash of the hardware address.                                      *)
SlaacInit ==
    /\ slaacv4_local = [cookie |-> pico_slaacv4_init_cookie(0, FALSE), links |-> {},
                        registered |-> FALSE, crashed |-> FALSE]
    /\ slaacTimers = [own |-> "none", probe |-> 0, announce |-> 0]
    /\ hotplug \in [detects : BOOLEAN, up : BOOLEAN, prev : {TRUE}, on : {FALSE}, init : {FALSE}]
    /\ slaacClock = 0

Cookie == slaacv4_local.cookie

Orphaned(t) == IF t.own = "none" THEN t ELSE [t EXCEPT ![t.own] = @ + 1, !.own = "none"]
Pending(t) == t.probe + t.announce + (IF t.own = "none" THEN 0 ELSE 1)

(* The rest of a handler that adds a timer: it fails for want of memory.   *)
StartTimer(c, kind, pending) ==
    /\ slaacTimers' \in {[Orphaned(pending) EXCEPT !.own = kind], Orphaned(pending)}
    /\ slaacv4_local' = [slaacv4_local EXCEPT !.registered = TRUE,
           !.cookie = IF slaacTimers'.own = kind THEN c ELSE [c EXCEPT !.state = "ERROR"]]

-----------------------------------------------------------------------------
(* The timers.  One of a cookie that was unregistered uses a device that   *)
(* is NULL.                                                                *)

pico_slaacv4_send_probe_timer(rest) ==
    IF Cookie.probe_try_nb < ProbeNb
    THEN StartTimer([Cookie EXCEPT !.probe_try_nb = @ + 1], "probe", rest)
    ELSE StartTimer([Cookie EXCEPT !.state = "ANNOUNCING"], "announce", rest)

pico_slaacv4_send_announce_timer(rest) ==
    IF Cookie.announce_nb < AnnounceNb
    THEN StartTimer([Cookie EXCEPT !.announce_nb = @ + 1], "announce", rest)
    ELSE /\ slaacv4_local' = [slaacv4_local EXCEPT !.cookie.state = "CLAIMED",
                                                   !.links = @ \union {Cookie.ip}]
         /\ slaacTimers' = rest

SlaacFires == Pending(slaacTimers) > 0 /\ ~slaacv4_local.crashed /\ slaacClock' = 1 - slaacClock
SlaacTimer ==
    /\ SlaacFires
    /\ \E kind \in {"probe", "announce"}, own \in BOOLEAN :
         LET rest == IF own THEN [slaacTimers EXCEPT !.own = "none"]
                            ELSE [slaacTimers EXCEPT ![kind] = @ - 1]
         IN
         /\ IF own THEN slaacTimers.own = kind ELSE slaacTimers[kind] > 0
         /\ \/ /\ ~Cookie.device
               /\ slaacv4_local' = [slaacv4_local EXCEPT !.crashed = TRUE]
               /\ UNCHANGED slaacTimers
            \/ Cookie.device /\ kind = "probe" /\ pico_slaacv4_send_probe_timer(rest)
            \/ Cookie.device /\ kind = "announce" /\ pico_slaacv4_send_announce_timer(rest)
    /\ UNCHANGED hotplug

-----------------------------------------------------------------------------
(* Another host uses our address, or asks whether it may.                  *)

pico_slaacv4_cancel_timers == [slaacTimers EXCEPT !.own = "none"]

(* The claim starts again with another address.                            *)
Reclaim(c, ip) == [c EXCEPT !.state = "CLAIMING", !.probe_try_nb = 0, !.announce_nb = 0, !.ip = ip]

(* A claimed address is given up when another host uses it, and its link   *)
(* goes.  When another host only asks for it, the claim starts again with  *)
(* a new address and the old link stays.                                   *)
LinksAfter(reason) ==
    IF Cookie.state = "CLAIMED" /\ reason = "CONFLICT"
    THEN slaacv4_local.links \ {Cookie.ip} ELSE slaacv4_local.links

(* Mutant of pico_slaacv4_receive_ipconflict: conflicts are not counted.   *)
NeverGivesUp ==
    \E reason \in {"CONFLICT", "PROBE"}, ip \in SlaacIps :
        /\ slaacv4_local.registered /\ ~slaacv4_local.crashed
        /\ slaacv4_local' = [slaacv4_local EXCEPT !.links = LinksAfter(reason),
                !.cookie = [Reclaim(Cookie, ip) EXCEPT !.probe_try_nb = 1]]
        /\ slaacTimers' = [slaacTimers EXCEPT !.own = "probe"]
        /\ UNCHANGED <<hotplug, slaacClock>>

pico_slaacv4_receive_ipconflict ==
    \E reason \in {"CONFLICT", "PROBE"}, ip \in SlaacIps, ok \in BOOLEAN :
        LET n == (Cookie.conflict_nb + 1) % ConflictWrap
            c == [Cookie EXCEPT !.conflict_nb = n]
            again == [Reclaim(c, ip) EXCEPT !.probe_try_nb = IF n < MaxConflicts THEN 1 ELSE 0]
        IN
        /\ slaacv4_local.registered /\ ~slaacv4_local.crashed
        /\ slaacv4_local' = [slaacv4_local EXCEPT !.links = LinksAfter(reason),
                !.cookie = IF n >= MaxConflictsFail THEN [c EXCEPT !.state = "ERROR"]
                           ELSE IF ok THEN again ELSE [again EXCEPT !.state = "ERROR"]]
        /\ slaacTimers' = [pico_slaacv4_cancel_timers EXCEPT
              !.own = IF n < MaxConflictsFail /\ ok THEN "probe" ELSE "none"]
        /\ hotplug' = IF n >= MaxConflictsFail THEN [hotplug EXCEPT !.on = FALSE, !.init = FALSE]
                                               ELSE hotplug
        /\ UNCHANGED slaacClock

-----------------------------------------------------------------------------
(* The carrier.  The callback is told of it once after it registered, and  *)
(* at every change; an UP does not cancel a timer that is pending.         *)

pico_slaacv4_hotplug_up(c, pending) ==
    StartTimer([c EXCEPT !.state = "CLAIMING", !.probe_try_nb = 1, !.announce_nb = 0],
               "probe", pending)

pico_slaacv4_hotplug_down ==
    /\ slaacv4_local' = [slaacv4_local EXCEPT
           !.links = IF Cookie.state = "CLAIMED" THEN @ \ {Cookie.ip} ELSE @]
    /\ slaacTimers' = pico_slaacv4_cancel_timers

(* Both the first report and a change may fall in the same poll: the       *)
(* callback then runs twice, and leaves two timers behind an UP.           *)
timer_cb ==
    /\ hotplug.on /\ ~slaacv4_local.crashed
    /\ hotplug.init \/ hotplug.up # hotplug.prev
    /\ hotplug' = [hotplug EXCEPT !.init = FALSE, !.prev = hotplug.up]
    /\ IF hotplug.up
       THEN LET first == IF hotplug.init /\ ~hotplug.prev
                         THEN {slaacTimers, [Orphaned(slaacTimers) EXCEPT !.own = "probe"]}
                         ELSE {slaacTimers}
            IN  \E t \in first : pico_slaacv4_hotplug_up(Cookie, t)
       ELSE pico_slaacv4_hotplug_down
    /\ UNCHANGED slaacClock

Carrier ==
    /\ hotplug.detects /\ ~slaacv4_local.crashed
    /\ hotplug.up \/ Pending(slaacTimers) <= SlaacOrphans
    /\ hotplug' = [hotplug EXCEPT !.up = ~@]
    /\ UNCHANGED <<slaacv4_local, slaacTimers, slaacClock>>

-----------------------------------------------------------------------------
(* The application.                                                        *)

(* One claim at a time: the application does not claim again before it     *)
(* has unregistered.                                                       *)
pico_slaacv4_claimip ==
    /\ ~Cookie.device /\ ~slaacv4_local.crashed
    /\ \E ip \in SlaacIps :
         LET c == pico_slaacv4_init_cookie(ip, TRUE) IN
         IF hotplug.detects
         THEN /\ slaacv4_local' = [slaacv4_local EXCEPT !.cookie = c]
              /\ hotplug' = [hotplug EXCEPT !.prev = hotplug.up, !.on = TRUE, !.init = TRUE]
              /\ UNCHANGED slaacTimers
         ELSE /\ StartTimer([c EXCEPT !.state = "CLAIMING", !.probe_try_nb = 1], "probe", slaacTimers)
              /\ UNCHANGED hotplug
    /\ UNCHANGED slaacClock

(* The cookie is emptied before the device is deregistered from the        *)
(* hotplug tree: the search compares the hash of a device that is NULL.    *)
pico_slaacv4_unregisterip ==
    /\ Cookie.device /\ ~slaacv4_local.crashed
    /\ slaacv4_local' = [cookie |-> pico_slaacv4_init_cookie(0, FALSE), registered |-> FALSE,
                         crashed |-> hotplug.on,
                         links |-> IF Cookie.state = "CLAIMED" THEN slaacv4_local.links \ {Cookie.ip}
                                   ELSE slaacv4_local.links]
    /\ slaacTimers' = pico_slaacv4_cancel_timers
    /\ UNCHANGED <<hotplug, slaacClock>>

SlaacNext ==
    \/ SlaacTimer \/ pico_slaacv4_receive_ipconflict \/ timer_cb \/ Carrier
    \/ pico_slaacv4_claimip \/ pico_slaacv4_unregisterip
(* A timer that is pending fires, unless it is cancelled.                  *)
SlaacFairness == WF_slaacClock(SlaacFires)
SlaacSpec == SlaacInit /\ [][SlaacNext]_slaacVars /\ SlaacFairness

-----------------------------------------------------------------------------
(* Type invariant of the cookie and its timers.                            *)
SlaacTypeOK ==
    /\ Cookie.state \in {"RESET", "CLAIMING", "ANNOUNCING", "CLAIMED", "ERROR"}
    /\ Cookie.probe_try_nb \in 0..ProbeNb /\ Cookie.announce_nb \in 0..AnnounceNb
    /\ Cookie.conflict_nb \in 0..(ConflictWrap - 1)
    /\ slaacv4_local.links \subseteq SlaacIps
    /\ slaacTimers \in [own : {"none", "probe", "announce"}, probe : Nat, announce : Nat]

(* A claim ends: after PROBE_NB probes and ANNOUNCE_NB announcements the   *)
(* address is ours, or conflicts have made us give up, unless the carrier  *)
(* goes or the application does.                                           *)
SlaacClaimEnds ==
    (Cookie.state \in {"CLAIMING", "ANNOUNCING"})
        ~> (Cookie.state \in {"CLAIMED", "ERROR", "RESET"} \/ ~hotplug.prev)
=============================================================================
