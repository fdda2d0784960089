-------------------------------- MODULE Arp --------------------------------
(***************************************************************************)
(* ARP and the way out of an Ethernet device (modules/pico_arp.c,          *)
(* modules/pico_ethernet.c): the cache, its expiry timers, the frames that *)
(* wait for an address, and the budget of requests answered.               *)
(*                                                                         *)
(* arp_tree maps an address to its entry.  Time is kept as what is left of *)
(* it: left is what remains until timestamp + PICO_ARP_TIMEOUT, and each   *)
(* pending arp_expire timer is a record with the address of its entry and  *)
(* what remains until it fires.  An ARP packet may arrive at any time with *)
(* any content, so what is asked has no place in the state.                *)
(***************************************************************************)
EXTENDS Integers, Sequences, FiniteSets, FrameSlots

CONSTANTS
    ArpHosts,      \* the addresses on the link
    ArpMacs,       \* hardware addresses
    ArpFrames,     \* the frames the stack sends
    ArpPending,    \* PICO_ARP_MAX_PENDING
    ArpTimeout,    \* PICO_ARP_TIMEOUT, in ticks
    ArpRate,       \* PICO_ARP_MAX_RATE
    ArpMaxFail     \* failure_count at which a frame is given up (4)

ASSUME ArpAssumption ==
    /\ {ArpPending, ArpTimeout, ArpRate, ArpMaxFail} \subseteq Nat \ {0}
    /\ "no frame" \notin ArpFrames      \* what an empty slot holds

VARIABLES
    arp_tree,         \* address -> entry, or NoArp
    arpTimers,        \* the pending arp_expire timers
    frames_queued,    \* the slots of the frames that wait
    ethernet_out,     \* the out queue of the Ethernet protocol
    arpFrame,         \* frame -> next hop, failure_count and where it is
    max_arp_reqs,     \* requests that may still be answered
    arpRateTimer      \* is the timer that refills the budget pending?

arpVars == <<arp_tree, arpTimers, frames_queued, ethernet_out, arpFrame, max_arp_reqs,
             arpRateTimer>>

NoArp == [status |-> "none"]
NoFrame == "no frame"
ArpSlots == 1..ArpPending

ArpInit ==
    /\ arp_tree = [a \in ArpHosts |-> NoArp]
    /\ arpTimers = {}
    /\ frames_queued = [i \in ArpSlots |-> NoFrame]
    /\ ethernet_out = <<>>
    /\ arpFrame = [f \in ArpFrames |-> [hop |-> NoFrame, failure_count |-> 0, at |-> "unborn"]]
    /\ max_arp_reqs = ArpRate
    /\ arpRateTimer \in BOOLEAN      \* pico_arp_init may fail to add it

-----------------------------------------------------------------------------
(* The cache.                                                              *)

pico_arp_lookup(a) == arp_tree[a].status = "REACHABLE"

Waiting == {i \in ArpSlots : frames_queued[i] # NoFrame}

(* Every frame that waits, whatever it waits for, goes back to the out     *)
(* queue, in the order of the slots.                                       *)
pico_arp_queued_trigger ==
    /\ ethernet_out' = Requeue(ethernet_out, frames_queued, ArpPending, NoFrame)[ArpPending]
    /\ frames_queued' = [i \in ArpSlots |-> NoFrame]
    /\ arpFrame' = [f \in ArpFrames |->
           IF \E i \in ArpSlots : frames_queued[i] = f
           THEN [arpFrame[f] EXCEPT !.at = "out"] ELSE arpFrame[f]]

(* Mutant of pico_arp_add_entry: the frames that wait are forgotten.       *)
NoTrigger(a, mac, ok) ==
    /\ arp_tree' = [arp_tree EXCEPT ![a] =
           IF ok THEN [status |-> "REACHABLE", mac |-> mac, left |-> ArpTimeout] ELSE NoArp]
    /\ arpTimers' = IF ok THEN arpTimers \union {[host |-> a, in |-> ArpTimeout]} ELSE arpTimers
    /\ UNCHANGED <<ethernet_out, frames_queued, arpFrame>>

(* ok: is there memory for the timer?  Without it the entry goes again,    *)
(* after the frames were released.                                         *)
pico_arp_add_entry(a, mac, ok) ==
    /\ arp_tree' = [arp_tree EXCEPT ![a] =
           IF ok THEN [status |-> "REACHABLE", mac |-> mac, left |-> ArpTimeout] ELSE NoArp]
    /\ arpTimers' = IF ok THEN arpTimers \union {[host |-> a, in |-> ArpTimeout]} ELSE arpTimers
    /\ pico_arp_queued_trigger

arpQueues == <<ethernet_out, frames_queued, arpFrame>>

(* The entry of the sender.  A stale one is inserted again with the        *)
(* hardware address it had; the new one is not looked at.                  *)
pico_arp_lookup_entry(a, mac, ok) ==
    \/ /\ arp_tree[a].status = "STALE"
       /\ pico_arp_add_entry(a, arp_tree[a].mac, ok)
    \/ /\ arp_tree[a].status = "REACHABLE"
       /\ arp_tree' = [arp_tree EXCEPT ![a].mac = mac, ![a].left = ArpTimeout]
       /\ UNCHANGED <<arpTimers, arpQueues>>

(* Is the packet kept: a unicast sender, we are its target, and the budget *)
(* allows an answer.                                                       *)
ArpAccepted(good, us, request) == good /\ us /\ (request => max_arp_reqs > 0)

(* An entry is created only for a packet that is kept; a known one is      *)
(* looked up, and changed, before anything is checked.                     *)
pico_arp_receive ==
    \E a \in ArpHosts, mac \in ArpMacs, good, us, request, ok \in BOOLEAN :
        /\ \/ pico_arp_lookup_entry(a, mac, ok)
           \/ /\ arp_tree[a] = NoArp
              /\ IF ArpAccepted(good, us, request)
                 THEN pico_arp_add_entry(a, mac, ok)
                 ELSE UNCHANGED <<arp_tree, arpTimers, arpQueues>>
        /\ max_arp_reqs' = max_arp_reqs
              - (IF good /\ us /\ request /\ max_arp_reqs > 0 THEN 1 ELSE 0)
        /\ UNCHANGED arpRateTimer

(* Mutant of arp_expire: a timer that was put off is a second one.         *)
ExpireTwice ==
    \E t \in arpTimers, ok \in BOOLEAN :
        /\ t.in = 0
        /\ IF arp_tree[t.host].left = 0
           THEN /\ arp_tree' = [arp_tree EXCEPT ![t.host].status = "STALE"]
                /\ arpTimers' = arpTimers
           ELSE /\ arp_tree' = IF ok THEN arp_tree ELSE [arp_tree EXCEPT ![t.host] = NoArp]
                /\ arpTimers' = IF ok THEN (arpTimers \ {t}) \union
                                           {[t EXCEPT !.in = arp_tree[t.host].left]}
                                      ELSE arpTimers \ {t}
        /\ UNCHANGED <<arpQueues, max_arp_reqs, arpRateTimer>>

(* The timer of an entry that was refreshed is put off; one of an entry    *)
(* that was not makes it stale, and asks for the address.  Only a packet   *)
(* of that host, or no memory for the timer, takes a stale entry away.     *)
arp_expire ==
    \E t \in arpTimers, ok \in BOOLEAN :
        /\ t.in = 0
        /\ IF arp_tree[t.host].left = 0
           THEN /\ arp_tree' = [arp_tree EXCEPT ![t.host].status = "STALE"]
                /\ arpTimers' = arpTimers \ {t}
           ELSE /\ arp_tree' = IF ok THEN arp_tree ELSE [arp_tree EXCEPT ![t.host] = NoArp]
                /\ arpTimers' = IF ok THEN (arpTimers \ {t}) \union
                                           {[t EXCEPT !.in = arp_tree[t.host].left]}
                                      ELSE arpTimers \ {t}
        /\ UNCHANGED <<arpQueues, max_arp_reqs, arpRateTimer>>

update_max_arp_reqs ==
    /\ arpRateTimer
    /\ max_arp_reqs' = IF max_arp_reqs < ArpRate THEN max_arp_reqs + 1 ELSE max_arp_reqs
    /\ arpRateTimer' \in BOOLEAN      \* the timer is added again, or there is no memory
    /\ UNCHANGED <<arp_tree, arpTimers, arpQueues>>

(* Time passes when no timer is due.                                       *)
ArpTick ==
    /\ \A t \in arpTimers : t.in > 0
    /\ arpTimers # {}
    /\ arpTimers' = {[t EXCEPT !.in = @ - 1] : t \in arpTimers}
    /\ arp_tree' = [a \in ArpHosts |->
           IF arp_tree[a].status = "none" THEN NoArp
           ELSE [arp_tree[a] EXCEPT !.left = IF @ > 0 THEN @ - 1 ELSE 0]]
    /\ UNCHANGED <<arpQueues, max_arp_reqs, arpRateTimer>>

-----------------------------------------------------------------------------
(* The way out.                                                            *)

(* The layers above give the device a frame: it is only queued.            *)
pico_datalink_send ==
    \E f \in ArpFrames, a \in ArpHosts :
        /\ arpFrame[f].at = "unborn"
        /\ arpFrame' = [arpFrame EXCEPT ![f].hop = a, ![f].at = "out"]
        /\ ethernet_out' = Append(ethernet_out, f)
        /\ UNCHANGED <<arp_tree, arpTimers, frames_queued, max_arp_reqs, arpRateTimer>>

FreeSlots == ArpSlots \ Waiting

(* A frame whose next hop is not known counts a failure, asks for it       *)
(* unless it has failed too often, and takes a free slot.  With none left, *)
(* or too many failures, nobody keeps it: pico_ethernet_send has returned  *)
(* its length, so its caller does not discard it.                          *)
pico_arp_postpone(f, failures) ==
    IF FreeSlots # {} /\ failures < ArpMaxFail
    THEN /\ frames_queued' = [frames_queued EXCEPT
                ![CHOOSE i \in FreeSlots : \A j \in FreeSlots : i <= j] = f]
         /\ arpFrame' = [arpFrame EXCEPT ![f].failure_count = failures, ![f].at = "slot"]
    ELSE /\ arpFrame' = [arpFrame EXCEPT ![f].failure_count = failures, ![f].at = "leaked"]
         /\ UNCHANGED frames_queued

(* Is the hardware address of the next hop known?                          *)
pico_arp_get(f) == pico_arp_lookup(arpFrame[f].hop)
(* If not, the address is asked for; after the last failure the sender is  *)
(* told instead.                                                           *)
pico_arp_retry(f) == arpFrame[f].failure_count + 1

(* The frame at the head of the out queue; the device's own queue may be   *)
(* full.                                                                   *)
pico_ethernet_send ==
    /\ ethernet_out # <<>>
    /\ ethernet_out' = Tail(ethernet_out)
    /\ LET f == Head(ethernet_out) IN
       IF pico_arp_get(f)
       THEN /\ \E at \in {"sent", "discarded"} : arpFrame' = [arpFrame EXCEPT ![f].at = at]
            /\ UNCHANGED frames_queued
       ELSE pico_arp_postpone(f, pico_arp_retry(f))
    /\ UNCHANGED <<arp_tree, arpTimers, max_arp_reqs, arpRateTimer>>

ArpNext ==
    \/ pico_arp_receive \/ arp_expire \/ update_max_arp_reqs \/ ArpTick
    \/ pico_datalink_send \/ pico_ethernet_send
ArpSpec == ArpInit /\ [][ArpNext]_arpVars

-----------------------------------------------------------------------------
(* Type invariant of the cache, the timers and the frames.                 *)
ArpTypeOK ==
    /\ \A a \in ArpHosts : arp_tree[a] = NoArp \/
           (arp_tree[a].status \in {"REACHABLE", "STALE"} /\ arp_tree[a].mac \in ArpMacs
            /\ arp_tree[a].left \in 0..ArpTimeout)
    /\ arpTimers \subseteq [host : ArpHosts, in : 0..ArpTimeout]
    /\ frames_queued \in [ArpSlots -> ArpFrames \union {NoFrame}]
    /\ ethernet_out \in Seq(ArpFrames)
    /\ \A f \in ArpFrames : arpFrame[f].at \in {"unborn", "out", "slot", "sent", "discarded",
                                                "leaked"}
    /\ max_arp_reqs \in 0..ArpRate /\ arpRateTimer \in BOOLEAN

(* The cache, its timers and the frames that wait agree.  An entry that    *)
(* answers has exactly one arp_expire timer, due no later than its age     *)
(* allows, and no timer is left to the entry of a host that is stale or    *)
(* was freed, where the callback would write to freed memory.  No wakeup   *)
(* is lost: a frame only waits in a slot while its next hop is not known,  *)
(* the same frame is never in two places, and one that nobody holds was    *)
(* given up for its failures or for want of a slot.                        *)
ArpConsistent ==
    /\ \A a \in ArpHosts :
        LET mine == {t \in arpTimers : t.host = a} IN
        IF arp_tree[a].status = "REACHABLE"
        THEN Cardinality(mine) = 1 /\ \A t \in mine : t.in <= arp_tree[a].left
        ELSE mine = {}
    /\ \A i \in Waiting : ~pico_arp_lookup(arpFrame[frames_queued[i]].hop)
    /\ \A f \in ArpFrames :
        /\ Cardinality({i \in ArpSlots : frames_queued[i] = f})
             = (IF arpFrame[f].at = "slot" THEN 1 ELSE 0)
        /\ Cardinality({i \in DOMAIN ethernet_out : ethernet_out[i] = f})
             = (IF arpFrame[f].at = "out" THEN 1 ELSE 0)
        /\ arpFrame[f].failure_count <= ArpMaxFail
=============================================================================
