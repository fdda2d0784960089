------------------------------- MODULE MCLink -------------------------------
(***************************************************************************)
(* The modules below the transport on small instances.  They share no      *)
(* state, so a behaviour of this module is a behaviour of one of them,     *)
(* chosen by part, while the others stay in an initial state: one run      *)
(* checks each of them.                                                    *)
(***************************************************************************)
EXTENDS Arp, Slaac4, Nd, IpLinks, Fragments, Nat

VARIABLE part    \* the module that moves

(* Two senders that use the same identifier, and an identifier of zero,    *)
(* which is also the value of an unused cur_frag_id.                       *)
MCFragDatagrams ==
    {[src |-> "a", id |-> 1, proto |-> "UDP", len |-> 2],
     [src |-> "b", id |-> 1, proto |-> "TCP", len |-> 2],
     [src |-> "a", id |-> 0, proto |-> "UDP", len |-> 3]}

(* One initial state of each module that has several.                      *)
OneArp == arpRateTimer
OneSlaac == hotplug.detects /\ hotplug.up
OneIp == ip.v = 4
OneFrag == frag.net = "IPV4"
OneNat == nat.proto = "TCP"

Parts == {"arp", "slaac", "nd", "ip", "frag", "nat"}

LinkInit ==
    /\ part \in Parts
    /\ ArpInit /\ SlaacInit /\ NdInit /\ IpInit /\ FragInit /\ NatInit
    /\ part # "arp" => OneArp
    /\ part # "slaac" => OneSlaac
    /\ part # "ip" => OneIp
    /\ part # "frag" => OneFrag
    /\ part # "nat" => OneNat

LinkNext ==
    /\ UNCHANGED part
    /\ \/ part = "arp" /\ ArpNext
          /\ UNCHANGED <<slaacVars, ndVars, ipVars, fragVars, natVars>>
       \/ part = "slaac" /\ SlaacNext
          /\ UNCHANGED <<arpVars, ndVars, ipVars, fragVars, natVars>>
       \/ part = "nd" /\ NdNext
          /\ UNCHANGED <<arpVars, slaacVars, ipVars, fragVars, natVars>>
       \/ part = "ip" /\ IpNext
          /\ UNCHANGED <<arpVars, slaacVars, ndVars, fragVars, natVars>>
       \/ part = "frag" /\ FragNext
          /\ UNCHANGED <<arpVars, slaacVars, ndVars, ipVars, natVars>>
       \/ part = "nat" /\ NatNext
          /\ UNCHANGED <<arpVars, slaacVars, ndVars, ipVars, fragVars>>

linkVars ==
    <<part, arpVars, slaacVars, ndVars, ipVars, fragVars, natVars>>

(* The fairness of the module that moves.                                  *)
LinkSpec ==
    /\ LinkInit /\ [][LinkNext]_linkVars
    /\ WF_slaacClock(part = "slaac" /\ SlaacFires)
    /\ WF_ndClock(part = "nd" /\ NdTicks)
    /\ WF_ipClock(part = "ip" /\ DadFires)
    /\ WF_fragClock(part = "frag" /\ FragFires)
    /\ WF_natClock(part = "nat" /\ NatFires)

(* The type invariants of the six modules.                                 *)
LinkTypeOK ==
    /\ part \in Parts /\ ArpTypeOK /\ SlaacTypeOK /\ NdTypeOK
    /\ IpTypeOK /\ FragTypeOK /\ NatTypeOK

(* What waits for a timer ends, whatever packets come in between: a claim  *)
(* of an IPv4 link-local address (pico_slaacv4.c), the resolution of a     *)
(* neighbour (pico_ipv6_nd.c), the detection of a duplicate address        *)
(* (pico_ipv6_nd_dad), a reassembly (pico_frag_expire) and a translation   *)
(* (pico_ipv4_nat_table_cleanup).                                          *)
LinkTimersEnd == SlaacClaimEnds /\ NdResolutionEnds /\ IpDadEnds /\ FragEnds /\ NatEnds
=============================================================================
