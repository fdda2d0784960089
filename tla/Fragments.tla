----------------------------- MODULE Fragments -----------------------------
(***************************************************************************)
(* Reassembly of fragments (modules/pico_fragments.c).  There is one tree  *)
(* of fragments for IPv4 and one for IPv6, each for one datagram at a      *)
(* time, an identifier that outlives the tree, and a timer that empties    *)
(* it.  The two differ in what a fragment of another datagram does: with   *)
(* IPv4 a first fragment empties the tree, with IPv6 it is ignored.        *)
(*                                                                         *)
(* A fragment is a pair of an offset and the datagram it belongs to, and   *)
(* has one unit of data; the last one has no more-flag.  The network loses,*)
(* repeats and reorders: any fragment of any datagram may come next.       *)
(***************************************************************************)
EXTENDS Integers, Sequences, FiniteSets

CONSTANTS
    FragDatagrams,   \* records [src, id, proto, len]; len is the number of fragments
    FragOld          \* bound: timers of earlier reassemblies that are pending

ASSUME FragAssumption ==
    /\ FragDatagrams \subseteq [src : STRING, id : Nat, proto : STRING, len : Nat \ {0, 1}]
    /\ \A d, e \in FragDatagrams : d.src = e.src /\ d.id = e.id => d = e
    /\ FragOld \in Nat

VARIABLES
    frag,        \* the tree, cur_frag_id, the timers and the last datagram handed on
    fragClock    \* parity of the timers that have fired

fragVars == <<frag, fragClock>>

(* timer: is the timer that fragments_timer names pending?  old counts the *)
(* pending ones it no longer names.  failed: an allocation has failed.     *)
FragInit ==
    /\ frag \in [net : {"IPV4", "IPV6"}, tree : {{}}, cur_frag_id : {0}, timer : {FALSE},
                 old : {0}, out : {<<>>}, proto : {"none"}, failed : {FALSE}]
    /\ fragClock = 0

Offset(x) == x[1]
Of(x) == x[2]
More(x) == Offset(x) < Of(x).len - 1
First(tree) == CHOOSE x \in tree : \A y \in tree : Offset(x) <= Offset(y)

pico_ipv4_frag_match(d, tree) == tree # {} /\ d.src = Of(First(tree)).src

pico_fragments_empty_tree(s) == [s EXCEPT !.tree = {}]

-----------------------------------------------------------------------------

(* From offset 0 on, without a hole, to a fragment without the more-flag.  *)
Complete(tree) ==
    \E n \in 1..Cardinality(tree) :
        /\ \A i \in 0..(n - 1) : \E x \in tree : Offset(x) = i /\ (More(x) = (i < n - 1))

(* The whole tree goes into the datagram, and the protocol is the one of   *)
(* the fragment that came last.                                            *)
pico_fragments_reassemble(s, proto) ==
    [s EXCEPT !.tree = {}, !.timer = FALSE, !.proto = proto,
              !.out = [i \in 1..Cardinality(s.tree) |->
                         Of(CHOOSE x \in s.tree : Cardinality({y \in s.tree : Offset(y) < Offset(x)}) = i - 1)]]

pico_fragments_check_complete(s, proto) ==
    IF Complete(s.tree) THEN {pico_fragments_reassemble(s, proto), [s EXCEPT !.failed = TRUE]}
                        ELSE {s}

(* A fragment with the offset of one in the tree is thrown away.           *)
Insert(s, x) ==
    IF \E y \in s.tree : Offset(y) = Offset(x) THEN {s}
    ELSE pico_fragments_check_complete([s EXCEPT !.tree = @ \union {x}], Of(x).proto)

(* The timer of the new reassembly.  When it cannot be added the tree,     *)
(* still empty, is emptied, and the fragment is inserted all the same.     *)
pico_frag_timer_on(s) ==
    {[s EXCEPT !.timer = TRUE, !.old = IF s.timer THEN @ + 1 ELSE @],
     [s EXCEPT !.timer = FALSE, !.old = IF s.timer THEN @ + 1 ELSE @, !.failed = TRUE]}

(* No fragment is there: a late one of the last datagram is thrown away.   *)
(* One that finds no memory for its place in the tree is lost after it has *)
(* started the timer, and makes those that follow it late.                 *)
Start(s, x) ==
    IF s.cur_frag_id # 0 /\ Of(x).id = s.cur_frag_id THEN {s}
    ELSE UNION {{t} \union Insert(t, x) :
                   t \in {[u EXCEPT !.cur_frag_id = Of(x).id] : u \in pico_frag_timer_on(s)}}

(* Mutant of Continue: the sender of a fragment is not compared.           *)
AnySender(s, x) ==
    IF s.tree # {} /\ Of(x).id = s.cur_frag_id THEN Insert(s, x)
    ELSE pico_fragments_check_complete(s, Of(x).proto)

Continue(s, x) ==
    IF pico_ipv4_frag_match(Of(x), s.tree) /\ Of(x).id = s.cur_frag_id THEN Insert(s, x)
    ELSE pico_fragments_check_complete(s, Of(x).proto)

(* The first fragment of another datagram empties the tree, but is not     *)
(* kept, and the timer goes on.                                            *)
pico_ipv4_process_frag(s, x) ==
    IF s.tree = {} THEN Start(s, x)
    ELSE Continue(IF Of(x).id # s.cur_frag_id /\ Offset(x) = 0
                  THEN [pico_fragments_empty_tree(s) EXCEPT !.cur_frag_id = 0] ELSE s, x)

pico_ipv6_process_frag(s, x) == IF s.tree = {} THEN Start(s, x) ELSE Continue(s, x)

FragArrives ==
    \E d \in FragDatagrams : \E off \in 0..(d.len - 1) :
        /\ frag.old < FragOld \/ ~frag.timer
        /\ frag' \in IF frag.net = "IPV4" THEN pico_ipv4_process_frag(frag, <<off, d>>)
                                          ELSE pico_ipv6_process_frag(frag, <<off, d>>)
        /\ UNCHANGED fragClock

FragFires == (frag.timer \/ frag.old > 0) /\ fragClock' = 1 - fragClock

(* Mutant of pico_frag_expire: without its first fragment there is nobody  *)
(* to notify, and the tree stays.                                          *)
OnlyNotifies ==
    /\ FragFires
    /\ frag' = [frag EXCEPT !.timer = FALSE,
                    !.tree = IF \E x \in @ : Offset(x) = 0 THEN {} ELSE @]

(* A timer that the completed reassembly did not cancel empties the tree   *)
(* of the next one.                                                        *)
pico_frag_expire ==
    /\ FragFires
    /\ \/ frag.timer /\ frag' = [pico_fragments_empty_tree(frag) EXCEPT !.timer = FALSE]
       \/ frag.old > 0 /\ frag' = [pico_fragments_empty_tree(frag) EXCEPT !.old = @ - 1]

FragNext == FragArrives \/ pico_frag_expire
FragFairness == WF_fragClock(FragFires)
FragSpec == FragInit /\ [][FragNext]_fragVars /\ FragFairness

-----------------------------------------------------------------------------
(* Type invariant of the reassembly.                                       *)
FragTypeOK ==
    /\ \A x \in frag.tree : Of(x) \in FragDatagrams /\ Offset(x) \in 0..(Of(x).len - 1)
    /\ frag.timer \in BOOLEAN /\ frag.old \in 0..FragOld

(* A datagram that is handed to the transport is one that was sent: all    *)
(* its fragments are of the same datagram, none is missing, and, unless an *)
(* allocation has failed, it goes to its own protocol.                     *)
FragIntact ==
    frag.out # <<>> =>
        /\ \A i \in DOMAIN frag.out : frag.out[i] = frag.out[1]
        /\ Len(frag.out) = frag.out[1].len
        /\ frag.failed \/ frag.proto = frag.out[1].proto

(* Reassembly ends, whatever comes in: the tree is free again for another  *)
(* datagram, unless its timer could not be added.                          *)
FragEnds == (frag.tree # {}) ~> (frag.tree = {} \/ frag.failed)
=============================================================================
