-------------------------- MODULE NeighbourProofs ---------------------------
(***************************************************************************)
(* Proofs about Arp and Nd, for every set of hosts and frames, every       *)
(* number of slots, retries and ticks.                                     *)
(*                                                                         *)
(* Both keep frames in slots and put them back into a queue.  The frames   *)
(* are where their records say: no slot and no place of the queue holds    *)
(* the same frame twice.  That is stated with quantifiers (Placed), kept   *)
(* by each handler, and turned into the counts of the properties at the    *)
(* end.                                                                    *)
(***************************************************************************)
EXTENDS Arp, Nd, FiniteSetTheorems, WellFoundedInduction, TLAPS

(* A set of naturals that is not empty has a smallest element.             *)
LEMMA SmallestNat ==
    ASSUME NEW S \in SUBSET Nat, S # {}
    PROVE  \E x \in S : \A y \in S : x <= y
<1> DEFINE R == OpToRel(<, Nat)
<1>1. IsWellFoundedOn(R, Nat)
  BY NatLessThanWellFounded
<1> HIDE DEF R
<1>2. PICK x \in S : \A y \in S : ~(<<y, x>> \in R)
  BY <1>1, WFMin
<1>3. \A y \in S : ~(y < x)
  BY <1>2 DEF R, OpToRel
<1> QED
  BY <1>3

-----------------------------------------------------------------------------
(* The loop of the triggers.                                               *)

RequeueStep(out, slots, none, g, i) ==
    IF i = 0 THEN out
    ELSE IF slots[i] = none THEN g[i - 1]
    ELSE Append(g[i - 1], slots[i])
RequeueTo(out, slots, none, m, g) == g = [i \in 0..m |-> RequeueStep(out, slots, none, g, i)]

LEMMA RequeueExists ==
    ASSUME NEW out, NEW slots, NEW none, NEW n \in Nat
    PROVE  \E g : RequeueTo(out, slots, none, n, g)
<1> DEFINE Bad == {m \in Nat : ~ \E g : RequeueTo(out, slots, none, m, g)}
<1> SUFFICES ASSUME Bad # {} PROVE FALSE
  OBVIOUS
<1>1. PICK m \in Bad : \A y \in Bad : m <= y
  BY SmallestNat
<1>2. CASE m = 0
  <2> DEFINE g == [i \in 0..0 |-> out]
  <2>1. RequeueTo(out, slots, none, 0, g)
    BY DEF RequeueTo, RequeueStep
  <2> QED
    BY <1>1, <1>2, <2>1
<1>3. CASE m # 0
  <2>1. m - 1 \in Nat /\ m - 1 \notin Bad
    BY <1>1, <1>3
  <2>2. PICK g : RequeueTo(out, slots, none, m - 1, g)
    BY <2>1
  <2> DEFINE f == [i \in 0..m |-> RequeueStep(out, slots, none, g, i)]
  <2>3. ASSUME NEW i \in 0..m
        PROVE  RequeueStep(out, slots, none, g, i) = RequeueStep(out, slots, none, f, i)
    <3>1. CASE i # 0
      <4>1. i - 1 \in 0..(m - 1) /\ i - 1 \in 0..m
        BY <3>1
      <4>2. g[i - 1] = RequeueStep(out, slots, none, g, i - 1)
        BY <2>2, <4>1 DEF RequeueTo
      <4>3. f[i - 1] = g[i - 1]
        BY <4>1, <4>2
      <4> QED
        BY <3>1, <4>3 DEF RequeueStep
    <3>2. CASE i = 0
      BY <3>2 DEF RequeueStep
    <3> QED
      BY <3>1, <3>2
  <2>4. RequeueTo(out, slots, none, m, f)
    BY <2>3 DEF RequeueTo
  <2> QED
    BY <1>1, <2>4
<1> QED
  BY <1>2, <1>3

LEMMA RequeueIs ==
    ASSUME NEW out, NEW slots, NEW none, NEW n \in Nat, NEW i \in 0..n
    PROVE  Requeue(out, slots, n, none)[i]
             = RequeueStep(out, slots, none, Requeue(out, slots, n, none), i)
<1>1. \E g : RequeueTo(out, slots, none, n, g)
  BY RequeueExists
<1>2. Requeue(out, slots, n, none) = CHOOSE g : RequeueTo(out, slots, none, n, g)
  BY DEF Requeue, RequeueTo, RequeueStep
<1>3. RequeueTo(out, slots, none, n, Requeue(out, slots, n, none))
  BY <1>1, <1>2
<1> QED
  BY <1>3 DEF RequeueTo

(* Where frames are: f is in the slots, or in the queue; each at most once *)
(* and not in both.                                                        *)
InQueue(q, f) == \E i \in DOMAIN q : q[i] = f
NoneTwice(q, none) == \A i, j \in DOMAIN q : q[i] = q[j] /\ q[i] # none => i = j

(* The queue after i slots: what was in it, and what the slots held.       *)
Gathered(q, out, slots, none, F, i) ==
    /\ q \in Seq(F)
    /\ \A f \in F : InQueue(q, f) <=> InQueue(out, f) \/ \E j \in 1..i : slots[j] = f
    /\ NoneTwice(q, none)

LEMMA GatherOne ==
    ASSUME NEW F, NEW none, none \notin F, NEW out \in Seq(F), NEW n \in Nat,
           NEW slots \in [1..n -> F \union {none}], NoneTwice(slots, none),
           \A f \in F : ~(InQueue(out, f) /\ InQueue(slots, f)),
           NEW i \in 1..n, NEW p, Gathered(p, out, slots, none, F, i - 1),
           NEW q, q = IF slots[i] = none THEN p ELSE Append(p, slots[i])
    PROVE  Gathered(q, out, slots, none, F, i)
<1>1. p \in Seq(F) /\ i - 1 \in Nat
  BY DEF Gathered
<1>2. CASE slots[i] = none
  <2>1. q = p
    BY <1>2
  <2>2. \A f \in F : (\E j \in 1..i : slots[j] = f) <=> \E j \in 1..(i - 1) : slots[j] = f
    <3>1. \A j \in 1..i : j \in 1..(i - 1) \/ j = i
      OBVIOUS
    <3>2. \A j \in 1..(i - 1) : j \in 1..i
      OBVIOUS
    <3> QED
      BY <1>2, <3>1, <3>2
  <2> QED
    BY <2>1, <2>2 DEF Gathered
<1>3. CASE slots[i] # none
  <2> DEFINE s == slots[i]
  <2>1. s \in F
    BY <1>3
  <2>2. q = Append(p, s)
    BY <1>3
  <2>3. q \in Seq(F) /\ DOMAIN q = 1..(Len(p) + 1) /\ q[Len(p) + 1] = s
        /\ DOMAIN p = 1..Len(p) /\ Len(p) \in Nat /\ \A k \in 1..Len(p) : q[k] = p[k]
    BY <1>1, <2>1, <2>2
  <2>4. ~InQueue(p, s)
    <3>1. ~InQueue(out, s)
      BY <2>1 DEF InQueue
    <3>2. \A j \in 1..(i - 1) : slots[j] # s
      BY <1>3 DEF NoneTwice
    <3> QED
      BY <2>1, <3>1, <3>2 DEF Gathered
  <2>5. \A f \in F : InQueue(q, f) <=> InQueue(p, f) \/ f = s
    BY <2>3 DEF InQueue
  <2>6. \A f \in F : (\E j \in 1..i : slots[j] = f) <=> f = s \/ \E j \in 1..(i - 1) : slots[j] = f
    <3>1. \A j \in 1..i : j \in 1..(i - 1) \/ j = i
      OBVIOUS
    <3>2. \A j \in 1..(i - 1) : j \in 1..i
      OBVIOUS
    <3> QED
      BY <3>1, <3>2
  <2>7. NoneTwice(q, none)
    <3> SUFFICES ASSUME NEW j \in DOMAIN q, NEW k \in DOMAIN q, q[j] = q[k], q[j] # none
                 PROVE  j = k
      BY DEF NoneTwice
    <3>1. (j \in 1..Len(p) \/ j = Len(p) + 1) /\ (k \in 1..Len(p) \/ k = Len(p) + 1)
      BY <2>3
    <3>2. CASE j \in 1..Len(p) /\ k \in 1..Len(p)
      BY <2>3, <3>2 DEF Gathered, NoneTwice
    <3>3. CASE j \in 1..Len(p) /\ k = Len(p) + 1
      BY <2>3, <2>4, <3>3 DEF InQueue
    <3>4. CASE k \in 1..Len(p) /\ j = Len(p) + 1
      BY <2>3, <2>4, <3>4 DEF InQueue
    <3> QED
      BY <3>1, <3>2, <3>3, <3>4
  <2> HIDE DEF s
  <2> QED
    BY <2>3, <2>5, <2>6, <2>7 DEF Gathered
<1> QED
  BY <1>2, <1>3

(* What the trigger leaves in the queue.                                   *)
LEMMA RequeueGathers ==
    ASSUME NEW F, NEW none, none \notin F, NEW out \in Seq(F), NEW n \in Nat,
           NEW slots \in [1..n -> F \union {none}], NoneTwice(slots, none), NoneTwice(out, none),
           \A f \in F : ~(InQueue(out, f) /\ InQueue(slots, f))
    PROVE  Gathered(Requeue(out, slots, n, none)[n], out, slots, none, F, n)
<1> DEFINE q == Requeue(out, slots, n, none)
           Bad == {i \in Nat : i \in 0..n /\ ~Gathered(q[i], out, slots, none, F, i)}
<1>0. \A i \in 0..n : q[i] = RequeueStep(out, slots, none, q, i)
  BY RequeueIs
<1> HIDE DEF q
<1> SUFFICES ASSUME Bad # {} PROVE FALSE
  BY DEF q
<1>1. PICK i \in Bad : \A y \in Bad : i <= y
  BY SmallestNat
<1>2. i # 0
  <2>1. q[0] = out
    BY <1>0 DEF RequeueStep
  <2>2. Gathered(out, out, slots, none, F, 0)
    BY DEF Gathered
  <2> QED
    BY <2>1, <2>2
<1>3. i \in 1..n /\ i - 1 \in 0..n /\ i - 1 \notin Bad
  BY <1>1, <1>2
<1>4. Gathered(q[i - 1], out, slots, none, F, i - 1)
  BY <1>3
<1>5. q[i] = IF slots[i] = none THEN q[i - 1] ELSE Append(q[i - 1], slots[i])
  BY <1>0, <1>2, <1>3 DEF RequeueStep
<1>6. Gathered(q[i], out, slots, none, F, i)
  BY <1>3, <1>4, <1>5, GatherOne
<1> QED
  BY <1>6

-----------------------------------------------------------------------------
(* ARP.                                                                    *)

Entries == {NoArp} \union [status : {"REACHABLE", "STALE"}, mac : ArpMacs, left : 0..ArpTimeout]
FrameRecs ==
    [hop : ArpHosts \union {NoFrame}, failure_count : Nat,
     at : {"unborn", "out", "slot", "sent", "discarded", "leaked"}]

(* The one timer of an entry that answers.                                 *)
Expires(a) ==
    \E t \in arpTimers : /\ t.host = a /\ t.in <= arp_tree[a].left
                         /\ \A u \in arpTimers : u.host = a => u = t
ArpCache ==
    /\ arp_tree \in [ArpHosts -> Entries]
    /\ arpTimers \subseteq [host : ArpHosts, in : 0..ArpTimeout]
    /\ \A a \in ArpHosts : IF arp_tree[a].status = "REACHABLE" THEN Expires(a)
                            ELSE \A u \in arpTimers : u.host # a

ArpPlaced ==
    /\ frames_queued \in [ArpSlots -> ArpFrames \union {NoFrame}]
    /\ ethernet_out \in Seq(ArpFrames)
    /\ arpFrame \in [ArpFrames -> FrameRecs]
    /\ NoneTwice(frames_queued, NoFrame) /\ NoneTwice(ethernet_out, NoFrame)
    /\ \A f \in ArpFrames :
          /\ InQueue(frames_queued, f) <=> arpFrame[f].at = "slot"
          /\ InQueue(ethernet_out, f) <=> arpFrame[f].at = "out"

(* A frame that may be postponed again has failures left; that is what     *)
(* bounds the count.                                                       *)
ArpHeld ==
    \A f \in ArpFrames :
        /\ arpFrame[f].at \in {"slot", "out"} => arpFrame[f].hop \in ArpHosts
        /\ arpFrame[f].at \in {"unborn", "slot", "out"} => arpFrame[f].failure_count < ArpMaxFail
        /\ arpFrame[f].failure_count <= ArpMaxFail

ArpAsleep ==
    \A f \in ArpFrames :
        arpFrame[f].at = "slot" => arp_tree[arpFrame[f].hop].status # "REACHABLE"

ArpBudget == max_arp_reqs \in 0..ArpRate /\ arpRateTimer \in BOOLEAN

ArpInv == ArpCache /\ ArpPlaced /\ ArpHeld /\ ArpAsleep /\ ArpBudget

LEMMA ArpBounds ==
    /\ ArpPending \in Nat \ {0} /\ ArpTimeout \in Nat \ {0}
    /\ ArpRate \in Nat \ {0} /\ ArpMaxFail \in Nat \ {0} /\ NoFrame \notin ArpFrames
BY ArpAssumption DEF NoFrame

LEMMA ArpInitOK == ArpInit => ArpInv
<1> SUFFICES ASSUME ArpInit PROVE ArpInv
  OBVIOUS
<1>1. ArpCache
  BY DEF ArpInit, ArpCache, Entries, NoArp
<1>2. ArpPlaced /\ ArpHeld /\ ArpAsleep
  <2>1. arpFrame \in [ArpFrames -> FrameRecs] /\ \A f \in ArpFrames : arpFrame[f].at = "unborn"
        /\ arpFrame[f].failure_count = 0
    BY DEF ArpInit, FrameRecs
  <2>2. frames_queued = [i \in ArpSlots |-> NoFrame] /\ ethernet_out = <<>>
    BY DEF ArpInit
  <2>3. \A f \in ArpFrames : ~InQueue(frames_queued, f) /\ ~InQueue(ethernet_out, f)
    BY <2>2, ArpBounds DEF InQueue
  <2> QED
    BY <2>1, <2>2, <2>3, ArpBounds DEF ArpPlaced, ArpHeld, ArpAsleep, NoneTwice
<1>3. ArpBudget
  BY ArpBounds DEF ArpInit, ArpBudget
<1> QED
  BY <1>1, <1>2, <1>3 DEF ArpInv

(* After the trigger no frame waits.                                       *)
LEMMA ArpTriggerOK ==
    ASSUME ArpPlaced, ArpHeld, pico_arp_queued_trigger
    PROVE  ArpPlaced' /\ ArpHeld' /\ \A f \in ArpFrames : arpFrame'[f].at # "slot"
<1> DEFINE Woken(f) == \E i \in ArpSlots : frames_queued[i] = f
           q == Requeue(ethernet_out, frames_queued, ArpPending, NoFrame)[ArpPending]
<1>1. /\ ethernet_out' = q
      /\ frames_queued' = [i \in ArpSlots |-> NoFrame]
      /\ arpFrame' = [f \in ArpFrames |-> IF Woken(f) THEN [arpFrame[f] EXCEPT !.at = "out"] ELSE arpFrame[f]]
  BY DEF pico_arp_queued_trigger
<1>2. \A f \in ArpFrames : Woken(f) <=> arpFrame[f].at = "slot"
  BY DEF ArpPlaced, InQueue
<1>3. Gathered(q, ethernet_out, frames_queued, NoFrame, ArpFrames, ArpPending)
  <2>1. \A f \in ArpFrames : ~(InQueue(ethernet_out, f) /\ InQueue(frames_queued, f))
    BY DEF ArpPlaced
  <2> QED
    BY <2>1, ArpBounds, RequeueGathers DEF ArpPlaced, ArpSlots
<1> HIDE DEF Woken, q
<1>4. \A f \in ArpFrames :
          /\ arpFrame'[f] \in FrameRecs /\ arpFrame'[f].hop = arpFrame[f].hop
          /\ arpFrame'[f].failure_count = arpFrame[f].failure_count
          /\ arpFrame'[f].at = IF Woken(f) THEN "out" ELSE arpFrame[f].at
  <2> SUFFICES ASSUME NEW f \in ArpFrames
               PROVE  /\ arpFrame'[f] \in FrameRecs /\ arpFrame'[f].hop = arpFrame[f].hop
                      /\ arpFrame'[f].failure_count = arpFrame[f].failure_count
                      /\ arpFrame'[f].at = IF Woken(f) THEN "out" ELSE arpFrame[f].at
    OBVIOUS
  <2>1. arpFrame[f] \in FrameRecs
    BY DEF ArpPlaced
  <2> QED
    BY <1>1, <2>1 DEF FrameRecs
<1>5. \A f \in ArpFrames : InQueue(q, f) <=> InQueue(ethernet_out, f) \/ Woken(f)
  BY <1>3 DEF Gathered, Woken, ArpSlots
<1>6. ArpPlaced'
  <2>1. arpFrame' \in [ArpFrames -> FrameRecs]
    BY <1>1, <1>4
  <2>2. \A f \in ArpFrames : ~InQueue(frames_queued', f)
    BY <1>1, ArpBounds DEF InQueue
  <2>3. NoneTwice(frames_queued', NoFrame)
    BY <1>1 DEF NoneTwice
  <2>4. \A f \in ArpFrames : InQueue(ethernet_out, f) <=> arpFrame[f].at = "out"
    BY DEF ArpPlaced
  <2>5. \A f \in ArpFrames : /\ arpFrame'[f].at # "slot"
                             /\ InQueue(q, f) <=> arpFrame'[f].at = "out"
    BY <1>2, <1>4, <1>5, <2>4
  <2>6. frames_queued' \in [ArpSlots -> ArpFrames \union {NoFrame}]
    BY <1>1
  <2>7. ethernet_out' \in Seq(ArpFrames) /\ NoneTwice(ethernet_out', NoFrame)
    BY <1>1, <1>3 DEF Gathered
  <2>8. \A f \in ArpFrames : /\ InQueue(frames_queued', f) <=> arpFrame'[f].at = "slot"
                             /\ InQueue(ethernet_out', f) <=> arpFrame'[f].at = "out"
    <3>1. ethernet_out' = q
      BY <1>1
    <3>2. \A f \in ArpFrames : InQueue(ethernet_out', f) <=> InQueue(q, f)
      BY <3>1 DEF InQueue
    <3> QED
      BY <2>2, <2>5, <3>2
  <2> QED
    BY <2>1, <2>3, <2>6, <2>7, <2>8 DEF ArpPlaced
<1>7. \A f \in ArpFrames : arpFrame'[f].at # "slot"
  BY <1>2, <1>4
<1>8. ArpHeld'
  BY <1>2, <1>4 DEF ArpHeld
<1> QED
  BY <1>6, <1>7, <1>8

(* The entry of a gets, or loses, its timer; the others keep theirs.       *)
LEMMA ArpAddOK ==
    ASSUME ArpCache, ArpPlaced, ArpHeld, NEW a \in ArpHosts, NEW mac \in ArpMacs,
           NEW ok \in BOOLEAN, arp_tree[a].status # "REACHABLE",
           pico_arp_add_entry(a, mac, ok)
    PROVE  ArpCache' /\ ArpPlaced' /\ ArpHeld' /\ ArpAsleep'
<1> DEFINE new == [status |-> "REACHABLE", mac |-> mac, left |-> ArpTimeout]
           t == [host |-> a, in |-> ArpTimeout]
<1>1. ArpPlaced' /\ ArpHeld' /\ \A f \in ArpFrames : arpFrame'[f].at # "slot"
  BY ArpTriggerOK DEF pico_arp_add_entry
<1>2. \A u \in arpTimers : u.host # a
  BY DEF ArpCache
<1>3. new \in Entries /\ NoArp \in Entries /\ new.status = "REACHABLE" /\ new.left = ArpTimeout
      /\ NoArp.status = "none"
  BY ArpBounds DEF Entries, NoArp
<1>4. t \in [host : ArpHosts, in : 0..ArpTimeout] /\ t.host = a /\ t.in = ArpTimeout
  BY ArpBounds
<1>5. /\ arp_tree' = [arp_tree EXCEPT ![a] = IF ok THEN new ELSE NoArp]
      /\ arpTimers' = IF ok THEN arpTimers \union {t} ELSE arpTimers
  BY DEF pico_arp_add_entry
<1> HIDE DEF new, t
<1>6. arp_tree' \in [ArpHosts -> Entries] /\ arpTimers' \subseteq [host : ArpHosts, in : 0..ArpTimeout]
  BY <1>3, <1>4, <1>5 DEF ArpCache
<1>7. ASSUME NEW b \in ArpHosts
      PROVE  IF arp_tree'[b].status = "REACHABLE" THEN Expires(b)'
             ELSE \A u \in arpTimers' : u.host # b
  <2>1. CASE b = a /\ ok
    <3>1. arp_tree'[b] = new /\ arpTimers' = arpTimers \union {t}
      BY <1>5, <2>1 DEF ArpCache
    <3>2. t \in arpTimers' /\ t.host = b /\ t.in <= arp_tree'[b].left
      BY <1>3, <1>4, <2>1, <3>1, ArpBounds
    <3>3. \A u \in arpTimers' : u.host = b => u = t
      BY <1>2, <2>1, <3>1
    <3> QED
      BY <1>3, <3>1, <3>2, <3>3 DEF Expires
  <2>2. CASE b = a /\ ~ok
    BY <1>2, <1>3, <1>5, <2>2 DEF ArpCache
  <2>3. CASE b # a
    <3>1. arp_tree'[b] = arp_tree[b]
      BY <1>5, <2>3 DEF ArpCache
    <3>2. \A u : u.host = b => (u \in arpTimers' <=> u \in arpTimers)
      BY <1>4, <1>5, <2>3
    <3>3. CASE arp_tree[b].status = "REACHABLE"
      <4>1. PICK u \in arpTimers : /\ u.host = b /\ u.in <= arp_tree[b].left
                                   /\ \A v \in arpTimers : v.host = b => v = u
        BY <3>3 DEF ArpCache, Expires
      <4> QED
        BY <3>1, <3>2, <3>3, <4>1 DEF Expires
    <3>4. CASE arp_tree[b].status # "REACHABLE"
      BY <3>1, <3>2, <3>4 DEF ArpCache
    <3> QED
      BY <3>3, <3>4
  <2> QED
    BY <2>1, <2>2, <2>3
<1>8. ArpCache'
  BY <1>6, <1>7 DEF ArpCache
<1> QED
  BY <1>1, <1>8 DEF ArpAsleep

LEMMA RefreshIs ==
    ASSUME NEW r \in [status : {"REACHABLE", "STALE"}, mac : ArpMacs, left : 0..ArpTimeout],
           r.status = "REACHABLE", NEW mac \in ArpMacs,
           NEW e, e = [r EXCEPT !.mac = mac, !.left = ArpTimeout]
    PROVE  e \in Entries /\ e.status = "REACHABLE" /\ e.left = ArpTimeout /\ r.left <= ArpTimeout
<1> DEFINE T == ArpTimeout
<1>1. T \in 0..T /\ T = ArpTimeout
  BY ArpBounds
<1>2. e = [status |-> "REACHABLE", mac |-> mac, left |-> T]
  OBVIOUS
<1>3. r.left <= T
  BY ArpBounds
<1> HIDE DEF T
<1> QED
  BY <1>1, <1>2, <1>3 DEF Entries

LEMMA ArpReceiveOK ==
    ASSUME ArpInv, pico_arp_receive
    PROVE  ArpInv'
<1>1. PICK a \in ArpHosts, mac \in ArpMacs, good \in BOOLEAN, us \in BOOLEAN,
           request \in BOOLEAN, ok \in BOOLEAN :
        /\ \/ pico_arp_lookup_entry(a, mac, ok)
           \/ /\ arp_tree[a] = NoArp
              /\ IF ArpAccepted(good, us, request)
                 THEN pico_arp_add_entry(a, mac, ok)
                 ELSE UNCHANGED <<arp_tree, arpTimers, arpQueues>>
        /\ max_arp_reqs' = max_arp_reqs
              - (IF good /\ us /\ request /\ max_arp_reqs > 0 THEN 1 ELSE 0)
        /\ UNCHANGED arpRateTimer
  BY DEF pico_arp_receive
<1>2. ArpBudget'
  BY <1>1, ArpBounds DEF ArpInv, ArpBudget
<1>3. CASE arp_tree[a].status = "STALE" /\ pico_arp_add_entry(a, arp_tree[a].mac, ok)
  <2>1. arp_tree[a].mac \in ArpMacs
    BY <1>3 DEF ArpInv, ArpCache, Entries, NoArp
  <2> QED
    BY <1>2, <1>3, <2>1, ArpAddOK DEF ArpInv
<1>4. CASE arp_tree[a] = NoArp /\ pico_arp_add_entry(a, mac, ok)
  BY <1>2, <1>4, ArpAddOK DEF ArpInv, NoArp
<1>5. CASE UNCHANGED <<arp_tree, arpTimers, arpQueues>>
  BY <1>2, <1>5
     DEF ArpInv, ArpCache, ArpPlaced, ArpHeld, ArpAsleep, Expires, arpQueues
<1>6. CASE /\ arp_tree[a].status = "REACHABLE"
           /\ arp_tree' = [arp_tree EXCEPT ![a].mac = mac, ![a].left = ArpTimeout]
           /\ UNCHANGED <<arpTimers, arpQueues>>
  <2> DEFINE e == [arp_tree[a] EXCEPT !.mac = mac, !.left = ArpTimeout]
  <2>1. arp_tree[a] \in [status : {"REACHABLE", "STALE"}, mac : ArpMacs, left : 0..ArpTimeout]
    BY <1>6 DEF ArpInv, ArpCache, Entries, NoArp
  <2>2. e \in Entries /\ e.status = "REACHABLE" /\ e.left = ArpTimeout /\ arp_tree[a].left <= ArpTimeout
    BY <1>6, <2>1, RefreshIs
  <2>3. arp_tree' = [arp_tree EXCEPT ![a] = e]
    BY <1>6 DEF ArpInv, ArpCache
  <2> HIDE DEF e
  <2>4. arp_tree' \in [ArpHosts -> Entries] /\ arpTimers' = arpTimers
        /\ \A b \in ArpHosts : arp_tree'[b] = IF b = a THEN e ELSE arp_tree[b]
    BY <1>6, <2>2, <2>3 DEF ArpInv, ArpCache
  <2>5. ASSUME NEW b \in ArpHosts
        PROVE  IF arp_tree'[b].status = "REACHABLE" THEN Expires(b)'
               ELSE \A u \in arpTimers' : u.host # b
    <3>1. CASE arp_tree[b].status = "REACHABLE"
      <4>1. PICK u \in arpTimers : /\ u.host = b /\ u.in <= arp_tree[b].left
                                   /\ \A v \in arpTimers : v.host = b => v = u
        BY <3>1 DEF ArpInv, ArpCache, Expires
      <4>2. u.in <= arp_tree'[b].left
        <5>1. u.in \in Nat /\ arp_tree[a].left \in Nat
          BY <2>1 DEF ArpInv, ArpCache
        <5> QED
          BY <2>2, <2>4, <4>1, <5>1, ArpBounds
      <4> QED
        BY <2>2, <2>4, <3>1, <4>1, <4>2 DEF Expires
    <3>2. CASE arp_tree[b].status # "REACHABLE"
      BY <1>6, <2>4, <3>2 DEF ArpInv, ArpCache
    <3> QED
      BY <3>1, <3>2
  <2>6. ArpCache'
    BY <2>4, <2>5 DEF ArpInv, ArpCache
  <2>7. ArpPlaced' /\ ArpHeld'
    BY <1>6 DEF ArpInv, ArpPlaced, ArpHeld, arpQueues
  <2>8. ArpAsleep'
    BY <1>6, <2>4 DEF ArpInv, ArpAsleep, ArpHeld, arpQueues
  <2> QED
    BY <1>2, <2>6, <2>7, <2>8 DEF ArpInv
<1> QED
  BY <1>1, <1>3, <1>4, <1>5, <1>6 DEF pico_arp_lookup_entry

(* The timer t of the entry of a is the one an entry that answers has.     *)
LEMMA TimerOf ==
    ASSUME ArpCache, NEW t \in arpTimers
    PROVE  /\ t.host \in ArpHosts /\ t.in \in 0..ArpTimeout
           /\ arp_tree[t.host] \in [status : {"REACHABLE"}, mac : ArpMacs, left : 0..ArpTimeout]
           /\ \A u \in arpTimers : u.host = t.host => u = t
<1>1. t.host \in ArpHosts /\ t.in \in 0..ArpTimeout
  BY DEF ArpCache
<1>2. arp_tree[t.host].status = "REACHABLE" /\ Expires(t.host)
  BY <1>1 DEF ArpCache
<1>3. arp_tree[t.host] \in Entries
  BY <1>1 DEF ArpCache
<1>4. arp_tree[t.host] \in [status : {"REACHABLE"}, mac : ArpMacs, left : 0..ArpTimeout]
  BY <1>2, <1>3 DEF Entries, NoArp
<1> QED
  BY <1>1, <1>2, <1>4 DEF Expires

(* What an expiry changes: the entry and the timers of one host.           *)
LEMMA ExpiryOK ==
    ASSUME ArpCache, NEW a \in ArpHosts, NEW e \in Entries, NEW T,
           T \subseteq [host : ArpHosts, in : 0..ArpTimeout],
           \A u : u.host # a => (u \in T <=> u \in arpTimers),
           arp_tree' = [arp_tree EXCEPT ![a] = e], arpTimers' = T,
           IF e.status = "REACHABLE"
           THEN \E t \in T : /\ t.host = a /\ t.in <= e.left
                             /\ \A u \in T : u.host = a => u = t
           ELSE \A u \in T : u.host # a
    PROVE  ArpCache'
<1>1. arp_tree' \in [ArpHosts -> Entries]
      /\ \A b \in ArpHosts : arp_tree'[b] = IF b = a THEN e ELSE arp_tree[b]
  BY DEF ArpCache
<1>2. ASSUME NEW b \in ArpHosts
      PROVE  IF arp_tree'[b].status = "REACHABLE" THEN Expires(b)'
             ELSE \A u \in arpTimers' : u.host # b
  <2>1. CASE b = a
    BY <1>1, <2>1 DEF Expires
  <2>2. CASE b # a
    <3>1. arp_tree'[b] = arp_tree[b]
      BY <1>1, <2>2
    <3>2. CASE arp_tree[b].status = "REACHABLE"
      <4>1. PICK u \in arpTimers : /\ u.host = b /\ u.in <= arp_tree[b].left
                                   /\ \A v \in arpTimers : v.host = b => v = u
        BY <3>2 DEF ArpCache, Expires
      <4>2. u \in T
        BY <2>2, <4>1
      <4>3. \A v \in T : v.host = b => v = u
        BY <2>2, <4>1
      <4> QED
        BY <3>1, <3>2, <4>1, <4>2, <4>3 DEF Expires
    <3>3. CASE arp_tree[b].status # "REACHABLE"
      <4>1. \A u \in arpTimers : u.host # b
        BY <3>3 DEF ArpCache
      <4>2. \A u \in T : u.host # b
        BY <2>2, <4>1
      <4> QED
        BY <3>1, <3>3, <4>2
    <3> QED
      BY <3>2, <3>3
  <2> QED
    BY <2>1, <2>2
<1> QED
  BY <1>1, <1>2 DEF ArpCache

LEMMA ArpExpireOK ==
    ASSUME ArpInv, arp_expire
    PROVE  ArpInv'
<1>1. PICK t \in arpTimers, ok \in BOOLEAN :
        /\ t.in = 0
        /\ IF arp_tree[t.host].left = 0
           THEN /\ arp_tree' = [arp_tree EXCEPT ![t.host].status = "STALE"]
                /\ arpTimers' = arpTimers \ {t}
           ELSE /\ arp_tree' = IF ok THEN arp_tree ELSE [arp_tree EXCEPT ![t.host] = NoArp]
                /\ arpTimers' = IF ok THEN (arpTimers \ {t}) \union
                                           {[t EXCEPT !.in = arp_tree[t.host].left]}
                                      ELSE arpTimers \ {t}
        /\ UNCHANGED <<arpQueues, max_arp_reqs, arpRateTimer>>
  BY DEF arp_expire
<1> DEFINE a == t.host
           r == arp_tree[a]
<1>0. ArpCache /\ arp_tree \in [ArpHosts -> Entries]
      /\ arpTimers \subseteq [host : ArpHosts, in : 0..ArpTimeout]
  BY DEF ArpInv, ArpCache
<1>2. /\ a \in ArpHosts
      /\ r \in [status : {"REACHABLE"}, mac : ArpMacs, left : 0..ArpTimeout]
      /\ \A u \in arpTimers : u.host = a => u = t
  BY <1>0, TimerOf
<1>3. ArpPlaced' /\ ArpHeld' /\ ArpBudget'
  BY <1>1 DEF ArpInv, ArpPlaced, ArpHeld, ArpBudget, arpQueues
<1>4. CASE r.left = 0
  <2> DEFINE e == [r EXCEPT !.status = "STALE"]
             T == arpTimers \ {t}
  <2>1. e \in Entries /\ e.status = "STALE"
    BY <1>2 DEF Entries
  <2>2. arp_tree' = [arp_tree EXCEPT ![a] = e] /\ arpTimers' = T
    BY <1>0, <1>1, <1>4
  <2>3. T \subseteq [host : ArpHosts, in : 0..ArpTimeout] /\ \A u \in T : u.host # a
    BY <1>0, <1>2
  <2>4. \A u : u.host # a => (u \in T <=> u \in arpTimers)
    OBVIOUS
  <2> HIDE DEF e, T, a
  <2>5. ArpCache'
    BY <1>0, <1>2, <2>1, <2>2, <2>3, <2>4, ExpiryOK
  <2>6. \A b \in ArpHosts : arp_tree'[b].status = "REACHABLE" => arp_tree[b].status = "REACHABLE"
    BY <1>0, <2>1, <2>2
  <2> QED
    BY <1>1, <1>3, <2>5, <2>6 DEF ArpInv, ArpAsleep, ArpHeld, arpQueues
<1>5. CASE r.left # 0 /\ ok
  <2> DEFINE d == r.left
             n == [t EXCEPT !.in = d]
             T == (arpTimers \ {t}) \union {n}
  <2>1. d \in 0..ArpTimeout
    BY <1>2
  <2>2. arp_tree' = arp_tree /\ arpTimers' = T
    BY <1>1, <1>5
  <2> HIDE DEF d
  <2>3. n \in [host : ArpHosts, in : 0..ArpTimeout] /\ n.host = a /\ n.in = d
    BY <1>0, <2>1
  <2> HIDE DEF n
  <2>4. T \subseteq [host : ArpHosts, in : 0..ArpTimeout]
    BY <1>0, <2>3
  <2>5. \A u : u.host # a => (u \in T <=> u \in arpTimers)
    BY <2>3
  <2>6. n \in T /\ \A u \in T : u.host = a => u = n
    BY <1>2
  <2>7. n.in <= r.left
    BY <2>1, <2>3 DEF d
  <2>8. arp_tree' = [arp_tree EXCEPT ![a] = r] /\ r \in Entries /\ r.status = "REACHABLE"
    BY <1>0, <1>2, <2>2 DEF Entries
  <2> HIDE DEF T, a, r
  <2>9. \E u \in T : /\ u.host = a /\ u.in <= r.left
                     /\ \A v \in T : v.host = a => v = u
    BY <2>3, <2>6, <2>7
  <2>10. ArpCache'
    BY <1>0, <1>2, <2>2, <2>4, <2>5, <2>8, <2>9, ExpiryOK
  <2> QED
    BY <1>1, <1>3, <2>2, <2>10 DEF ArpInv, ArpAsleep, arpQueues
<1>6. CASE r.left # 0 /\ ~ok
  <2> DEFINE T == arpTimers \ {t}
  <2>1. NoArp \in Entries /\ NoArp.status = "none"
    BY DEF Entries, NoArp
  <2>2. arp_tree' = [arp_tree EXCEPT ![a] = NoArp] /\ arpTimers' = T
    BY <1>1, <1>6
  <2>3. T \subseteq [host : ArpHosts, in : 0..ArpTimeout] /\ \A u \in T : u.host # a
    BY <1>0, <1>2
  <2>4. \A u : u.host # a => (u \in T <=> u \in arpTimers)
    OBVIOUS
  <2> HIDE DEF T, a
  <2>5. ArpCache'
    BY <1>0, <1>2, <2>1, <2>2, <2>3, <2>4, ExpiryOK
  <2>6. \A b \in ArpHosts : arp_tree'[b].status = "REACHABLE" => arp_tree[b].status = "REACHABLE"
    BY <1>0, <2>1, <2>2
  <2> QED
    BY <1>1, <1>3, <2>5, <2>6 DEF ArpInv, ArpAsleep, ArpHeld, arpQueues
<1> QED
  BY <1>4, <1>5, <1>6

(* A tick takes one from each timer and from each entry: the timer stays   *)
(* ahead of its entry.                                                     *)
LEMMA ArpTickOK ==
    ASSUME ArpInv, ArpTick
    PROVE  ArpInv'
<1> DEFINE Older(t) == [t EXCEPT !.in = @ - 1]
           Aged(r) == [r EXCEPT !.left = IF @ > 0 THEN @ - 1 ELSE 0]
<1>1. /\ \A t \in arpTimers : t.in > 0
      /\ arpTimers' = {Older(t) : t \in arpTimers}
      /\ arp_tree' = [a \in ArpHosts |-> IF arp_tree[a].status = "none" THEN NoArp ELSE Aged(arp_tree[a])]
      /\ UNCHANGED <<arpQueues, max_arp_reqs, arpRateTimer>>
  BY DEF ArpTick
<1>0. ArpCache /\ arp_tree \in [ArpHosts -> Entries]
      /\ arpTimers \subseteq [host : ArpHosts, in : 0..ArpTimeout]
  BY DEF ArpInv, ArpCache
<1>2. ASSUME NEW t \in arpTimers
      PROVE  /\ Older(t) \in [host : ArpHosts, in : 0..ArpTimeout]
             /\ Older(t).host = t.host /\ Older(t).in = t.in - 1
             /\ t = [host |-> t.host, in |-> t.in]
  <2> DEFINE n == t.in - 1
  <2>1. t.in \in 0..ArpTimeout /\ t.in > 0 /\ t \in [host : ArpHosts, in : 0..ArpTimeout]
    BY <1>0, <1>1
  <2>2. n \in 0..ArpTimeout
    BY <2>1, ArpBounds
  <2>3. Older(t) = [t EXCEPT !.in = n]
    OBVIOUS
  <2> HIDE DEF n
  <2>4. /\ Older(t) \in [host : ArpHosts, in : 0..ArpTimeout]
        /\ Older(t).host = t.host /\ Older(t).in = n
    BY <2>1, <2>2, <2>3
  <2> QED
    BY <2>1, <2>4 DEF n
<1>3. ASSUME NEW a \in ArpHosts
      PROVE  /\ arp_tree'[a] \in Entries /\ arp_tree'[a].status = arp_tree[a].status
             /\ arp_tree[a].status = "REACHABLE" => /\ arp_tree[a].left \in Nat
                                                   /\ arp_tree'[a].left >= arp_tree[a].left - 1
  <2>1. arp_tree[a] \in Entries
    BY <1>0
  <2>2. CASE arp_tree[a] = NoArp
    BY <1>1, <2>2 DEF NoArp, Entries
  <2>3. CASE arp_tree[a] # NoArp
    <3> DEFINE r == arp_tree[a]
               l == IF r.left > 0 THEN r.left - 1 ELSE 0
    <3>1. r \in [status : {"REACHABLE", "STALE"}, mac : ArpMacs, left : 0..ArpTimeout]
      BY <2>1, <2>3 DEF Entries
    <3>2. l \in 0..ArpTimeout /\ r.left \in Nat /\ l >= r.left - 1
      BY <3>1, ArpBounds
    <3>3. arp_tree'[a] = [r EXCEPT !.left = l]
      BY <1>1, <3>1
    <3> HIDE DEF l
    <3>4. arp_tree'[a] \in Entries /\ arp_tree'[a].status = r.status /\ arp_tree'[a].left = l
      BY <3>1, <3>2, <3>3 DEF Entries
    <3> QED
      BY <3>2, <3>4
  <2> QED
    BY <2>2, <2>3
<1> HIDE DEF Older, Aged
<1>4. arp_tree' \in [ArpHosts -> Entries] /\ arpTimers' \subseteq [host : ArpHosts, in : 0..ArpTimeout]
  BY <1>1, <1>2, <1>3
<1>5. ASSUME NEW a \in ArpHosts
      PROVE  IF arp_tree'[a].status = "REACHABLE" THEN Expires(a)'
             ELSE \A u \in arpTimers' : u.host # a
  <2>1. CASE arp_tree[a].status = "REACHABLE"
    <3>1. PICK t \in arpTimers : /\ t.host = a /\ t.in <= arp_tree[a].left
                                 /\ \A v \in arpTimers : v.host = a => v = t
      BY <1>0, <2>1 DEF ArpCache, Expires
    <3>2. Older(t) \in arpTimers' /\ Older(t).host = a
      BY <1>1, <1>2, <3>1
    <3>3. Older(t).in <= arp_tree'[a].left
      <4>1. t.in \in Nat
        BY <1>0
      <4>2. Older(t).in = t.in - 1
        BY <1>2
      <4>3. arp_tree'[a].left \in Nat
        <5>1. arp_tree'[a] \in Entries /\ arp_tree'[a].status = "REACHABLE"
          BY <1>3, <2>1
        <5> QED
          BY <5>1 DEF Entries, NoArp
      <4> QED
        BY <1>3, <2>1, <3>1, <4>1, <4>2, <4>3
    <3>4. \A u \in arpTimers' : u.host = a => u = Older(t)
      BY <1>1, <1>2, <3>1
    <3> QED
      BY <1>3, <2>1, <3>2, <3>3, <3>4 DEF Expires
  <2>2. CASE arp_tree[a].status # "REACHABLE"
    <3>1. \A u \in arpTimers : u.host # a
      BY <1>0, <2>2 DEF ArpCache
    <3> QED
      BY <1>1, <1>2, <1>3, <2>2, <3>1
  <2> QED
    BY <2>1, <2>2
<1>6. ArpCache'
  BY <1>4, <1>5 DEF ArpCache
<1>7. ArpPlaced' /\ ArpHeld' /\ ArpBudget'
  BY <1>1 DEF ArpInv, ArpPlaced, ArpHeld, ArpBudget, arpQueues
<1>8. ArpAsleep'
  BY <1>1, <1>3 DEF ArpInv, ArpAsleep, ArpHeld, arpQueues
<1> QED
  BY <1>6, <1>7, <1>8 DEF ArpInv

(* A frame is taken out of one place and put into another.                 *)
LEMMA AppendOK ==
    ASSUME NEW F, NEW none, NEW q \in Seq(F), NEW f \in F, NoneTwice(q, none), ~InQueue(q, f),
           NEW p, p = Append(q, f)
    PROVE  p \in Seq(F) /\ NoneTwice(p, none) /\ \A g \in F : InQueue(p, g) <=> InQueue(q, g) \/ g = f
<1>1. p \in Seq(F) /\ DOMAIN p = 1..(Len(q) + 1) /\ p[Len(q) + 1] = f
      /\ DOMAIN q = 1..Len(q) /\ Len(q) \in Nat /\ \A k \in 1..Len(q) : p[k] = q[k]
  OBVIOUS
<1>2. \A g \in F : InQueue(p, g) <=> InQueue(q, g) \/ g = f
  BY <1>1 DEF InQueue
<1>3. NoneTwice(p, none)
  <2> SUFFICES ASSUME NEW j \in DOMAIN p, NEW k \in DOMAIN p, p[j] = p[k], p[j] # none
               PROVE  j = k
    BY DEF NoneTwice
  <2>1. (j \in 1..Len(q) \/ j = Len(q) + 1) /\ (k \in 1..Len(q) \/ k = Len(q) + 1)
    BY <1>1
  <2>2. CASE j \in 1..Len(q) /\ k \in 1..Len(q)
    BY <1>1, <2>2 DEF NoneTwice
  <2>3. CASE j \in 1..Len(q) /\ k = Len(q) + 1
    BY <1>1, <2>3 DEF InQueue
  <2>4. CASE k \in 1..Len(q) /\ j = Len(q) + 1
    BY <1>1, <2>4 DEF InQueue
  <2> QED
    BY <2>1, <2>2, <2>3, <2>4
<1> QED
  BY <1>1, <1>2, <1>3

LEMMA TailOK ==
    ASSUME NEW F, NEW none, none \notin F, NEW q \in Seq(F), q # <<>>, NoneTwice(q, none),
           NEW p, p = Tail(q)
    PROVE  /\ Head(q) \in F /\ InQueue(q, Head(q)) /\ p \in Seq(F) /\ NoneTwice(p, none)
           /\ \A g \in F : InQueue(p, g) <=> InQueue(q, g) /\ g # Head(q)
<1>1. /\ Head(q) = q[1] /\ Len(q) \in Nat /\ Len(q) > 0 /\ DOMAIN q = 1..Len(q)
      /\ p \in Seq(F) /\ DOMAIN p = 1..(Len(q) - 1) /\ \A k \in 1..(Len(q) - 1) : p[k] = q[k + 1]
      /\ \A k \in 1..Len(q) : q[k] \in F
  OBVIOUS
<1>2. NoneTwice(p, none)
  <2> SUFFICES ASSUME NEW j \in DOMAIN p, NEW k \in DOMAIN p, p[j] = p[k], p[j] # none
               PROVE  j = k
    BY DEF NoneTwice
  <2>1. j + 1 \in DOMAIN q /\ k + 1 \in DOMAIN q /\ q[j + 1] = q[k + 1] /\ q[j + 1] # none
    BY <1>1
  <2>2. j + 1 = k + 1
    BY <2>1 DEF NoneTwice
  <2> QED
    BY <1>1, <2>2
<1>3. ASSUME NEW g \in F PROVE InQueue(p, g) <=> InQueue(q, g) /\ g # Head(q)
  <2>1. ASSUME InQueue(p, g) PROVE InQueue(q, g) /\ g # Head(q)
    <3>1. PICK k \in DOMAIN p : p[k] = g
      BY <2>1 DEF InQueue
    <3>2. k + 1 \in DOMAIN q /\ q[k + 1] = g /\ k + 1 # 1 /\ 1 \in DOMAIN q
      BY <1>1, <3>1
    <3>3. q[1] # g
      BY <3>2 DEF NoneTwice
    <3> QED
      BY <1>1, <3>2, <3>3 DEF InQueue
  <2>2. ASSUME InQueue(q, g), g # Head(q) PROVE InQueue(p, g)
    <3>1. PICK k \in DOMAIN q : q[k] = g
      BY <2>2 DEF InQueue
    <3>2. k - 1 \in DOMAIN p /\ p[k - 1] = g
      BY <1>1, <2>2, <3>1
    <3> QED
      BY <3>2 DEF InQueue
  <2> QED
    BY <2>1, <2>2
<1> QED
  BY <1>1, <1>2, <1>3 DEF InQueue

PutIn(s, t, i, f) == t = [s EXCEPT ![i] = f]

LEMMA PutOK ==
    ASSUME NEW F, NEW none, none \notin F, NEW I, NEW s \in [I -> F \union {none}], NEW i \in I,
           s[i] = none, NEW f \in F, NoneTwice(s, none), ~InQueue(s, f),
           NEW t, PutIn(s, t, i, f)
    PROVE  t \in [I -> F \union {none}] /\ NoneTwice(t, none)
           /\ \A g \in F : InQueue(t, g) <=> InQueue(s, g) \/ g = f
<1>1. t \in [I -> F \union {none}] /\ DOMAIN t = I /\ DOMAIN s = I
      /\ \A k \in I : t[k] = IF k = i THEN f ELSE s[k]
  BY DEF PutIn
<1>2. \A k \in I : s[k] # f
  BY <1>1 DEF InQueue
<1>3. NoneTwice(t, none)
  BY <1>1, <1>2 DEF NoneTwice
<1>4. \A g \in F : InQueue(t, g) <=> InQueue(s, g) \/ g = f
  BY <1>1 DEF InQueue
<1> QED
  BY <1>1, <1>3, <1>4

HeldRec(e) ==
    /\ e.at \in {"slot", "out"} => e.hop \in ArpHosts
    /\ e.at \in {"unborn", "slot", "out"} => e.failure_count < ArpMaxFail
    /\ e.failure_count <= ArpMaxFail

(* The frame f moves, and becomes e.                                       *)
LEMMA ArpMoveOK ==
    ASSUME ArpPlaced, ArpHeld, NEW f \in ArpFrames, NEW e \in FrameRecs, HeldRec(e),
           arpFrame' = [arpFrame EXCEPT ![f] = e],
           frames_queued' \in [ArpSlots -> ArpFrames \union {NoFrame}],
           ethernet_out' \in Seq(ArpFrames),
           NoneTwice(frames_queued', NoFrame), NoneTwice(ethernet_out', NoFrame),
           \A g \in ArpFrames : InQueue(frames_queued', g)
               <=> IF g = f THEN e.at = "slot" ELSE InQueue(frames_queued, g),
           \A g \in ArpFrames : InQueue(ethernet_out', g)
               <=> IF g = f THEN e.at = "out" ELSE InQueue(ethernet_out, g)
    PROVE  ArpPlaced' /\ ArpHeld'
<1>1. arpFrame' \in [ArpFrames -> FrameRecs]
      /\ \A g \in ArpFrames : arpFrame'[g] = IF g = f THEN e ELSE arpFrame[g]
  BY DEF ArpPlaced
<1>2. \A g \in ArpFrames : /\ InQueue(frames_queued', g) <=> arpFrame'[g].at = "slot"
                           /\ InQueue(ethernet_out', g) <=> arpFrame'[g].at = "out"
  BY <1>1 DEF ArpPlaced
<1>3. ArpPlaced'
  BY <1>1, <1>2 DEF ArpPlaced
<1>4. ArpHeld'
  BY <1>1 DEF ArpHeld, HeldRec
<1> QED
  BY <1>3, <1>4

LEMMA ArpSendOK ==
    ASSUME ArpInv, pico_datalink_send
    PROVE  ArpInv'
<1>1. PICK f \in ArpFrames, a \in ArpHosts :
        /\ arpFrame[f].at = "unborn"
        /\ arpFrame' = [arpFrame EXCEPT ![f].hop = a, ![f].at = "out"]
        /\ ethernet_out' = Append(ethernet_out, f)
        /\ UNCHANGED <<arp_tree, arpTimers, frames_queued, max_arp_reqs, arpRateTimer>>
  BY DEF pico_datalink_send
<1> DEFINE e == [arpFrame[f] EXCEPT !.hop = a, !.at = "out"]
<1>0. ArpPlaced /\ ArpHeld /\ arpFrame \in [ArpFrames -> FrameRecs] /\ arpFrame[f] \in FrameRecs
  BY DEF ArpInv, ArpPlaced
<1>2. e \in FrameRecs /\ e.at = "out" /\ e.hop = a /\ e.failure_count = arpFrame[f].failure_count
  BY <1>0 DEF FrameRecs
<1>3. arpFrame' = [arpFrame EXCEPT ![f] = e]
  BY <1>0, <1>1
<1> HIDE DEF e
<1>4. HeldRec(e)
  BY <1>0, <1>1, <1>2 DEF ArpHeld, HeldRec
<1>5. /\ ethernet_out' \in Seq(ArpFrames) /\ NoneTwice(ethernet_out', NoFrame)
      /\ \A g \in ArpFrames : InQueue(ethernet_out', g) <=> InQueue(ethernet_out, g) \/ g = f
  <2>1. ~InQueue(ethernet_out, f)
    BY <1>0, <1>1 DEF ArpPlaced
  <2>2. ethernet_out \in Seq(ArpFrames) /\ NoneTwice(ethernet_out, NoFrame)
    BY <1>0 DEF ArpPlaced
  <2> QED
    BY <1>1, <2>1, <2>2, AppendOK
<1>6. ~InQueue(frames_queued, f) /\ frames_queued' = frames_queued
  BY <1>0, <1>1 DEF ArpPlaced
<1>7. ArpPlaced' /\ ArpHeld'
  <2>1. \A g \in ArpFrames : InQueue(frames_queued', g)
               <=> IF g = f THEN e.at = "slot" ELSE InQueue(frames_queued, g)
    BY <1>2, <1>6
  <2>2. \A g \in ArpFrames : InQueue(ethernet_out', g)
               <=> IF g = f THEN e.at = "out" ELSE InQueue(ethernet_out, g)
    BY <1>2, <1>5
  <2>3. frames_queued' \in [ArpSlots -> ArpFrames \union {NoFrame}] /\ NoneTwice(frames_queued', NoFrame)
    BY <1>0, <1>6 DEF ArpPlaced
  <2> QED
    BY <1>0, <1>2, <1>3, <1>4, <1>5, <2>1, <2>2, <2>3, ArpMoveOK
<1>8. ArpCache' /\ ArpBudget'
  BY <1>1 DEF ArpInv, ArpCache, ArpBudget, Expires
<1>9. ArpAsleep'
  <2>1. \A g \in ArpFrames : arpFrame'[g] = IF g = f THEN e ELSE arpFrame[g]
    BY <1>0, <1>3
  <2> QED
    BY <1>1, <1>2, <2>1 DEF ArpInv, ArpAsleep
<1> QED
  BY <1>7, <1>8, <1>9 DEF ArpInv

LEMMA ArpOutOK ==
    ASSUME ArpInv, pico_ethernet_send
    PROVE  ArpInv'
<1> DEFINE f == Head(ethernet_out)
           n == arpFrame[f].failure_count + 1
<1>0. ArpPlaced /\ ArpHeld /\ arpFrame \in [ArpFrames -> FrameRecs] /\ ethernet_out \in Seq(ArpFrames)
      /\ frames_queued \in [ArpSlots -> ArpFrames \union {NoFrame}]
      /\ NoneTwice(frames_queued, NoFrame) /\ NoneTwice(ethernet_out, NoFrame)
  BY DEF ArpInv, ArpPlaced
<1>1. /\ ethernet_out # <<>>
      /\ ethernet_out' = Tail(ethernet_out)
      /\ UNCHANGED <<arp_tree, arpTimers, max_arp_reqs, arpRateTimer>>
      /\ \/ /\ \E at \in {"sent", "discarded"} : arpFrame' = [arpFrame EXCEPT ![f].at = at]
            /\ UNCHANGED frames_queued
         \/ ~pico_arp_get(f) /\ pico_arp_postpone(f, n)
  BY DEF pico_ethernet_send, pico_arp_retry
<1>2. /\ f \in ArpFrames /\ InQueue(ethernet_out, f) /\ ethernet_out' \in Seq(ArpFrames)
      /\ NoneTwice(ethernet_out', NoFrame)
      /\ \A g \in ArpFrames : InQueue(ethernet_out', g) <=> InQueue(ethernet_out, g) /\ g # f
  BY <1>0, <1>1, ArpBounds, TailOK
<1> HIDE DEF f
<1>3. arpFrame[f] \in FrameRecs /\ arpFrame[f].at = "out" /\ ~InQueue(frames_queued, f)
  BY <1>0, <1>2 DEF ArpPlaced
<1>4. arpFrame[f].hop \in ArpHosts /\ n \in Nat /\ n <= ArpMaxFail
  <2>1. arpFrame[f].failure_count \in Nat /\ arpFrame[f].failure_count < ArpMaxFail
    BY <1>0, <1>2, <1>3 DEF ArpHeld, FrameRecs
  <2> QED
    BY <1>0, <1>2, <1>3, <2>1, ArpBounds DEF ArpHeld
<1> HIDE DEF n
<1>5. ArpCache' /\ ArpBudget'
  BY <1>1 DEF ArpInv, ArpCache, ArpBudget, Expires
<1>6. CASE (\E at \in {"sent", "discarded"} : arpFrame' = [arpFrame EXCEPT ![f].at = at])
           /\ UNCHANGED frames_queued
  <2>1. PICK at \in {"sent", "discarded"} : arpFrame' = [arpFrame EXCEPT ![f].at = at]
    BY <1>6
  <2> DEFINE e == [arpFrame[f] EXCEPT !.at = at]
  <2>2. e \in FrameRecs /\ e.at = at /\ e.failure_count = arpFrame[f].failure_count
    BY <1>3 DEF FrameRecs
  <2>3. arpFrame' = [arpFrame EXCEPT ![f] = e]
    BY <1>0, <2>1
  <2> HIDE DEF e
  <2>4. HeldRec(e)
    BY <1>0, <1>2, <2>2 DEF ArpHeld, HeldRec
  <2>5. \A g \in ArpFrames : InQueue(frames_queued', g)
               <=> IF g = f THEN e.at = "slot" ELSE InQueue(frames_queued, g)
    BY <1>3, <1>6, <2>2
  <2>6. \A g \in ArpFrames : InQueue(ethernet_out', g)
               <=> IF g = f THEN e.at = "out" ELSE InQueue(ethernet_out, g)
    BY <1>2, <2>2
  <2>7. ArpPlaced' /\ ArpHeld'
    BY <1>0, <1>2, <1>6, <2>2, <2>3, <2>4, <2>5, <2>6, ArpMoveOK
  <2>8. \A g \in ArpFrames : arpFrame'[g] = IF g = f THEN e ELSE arpFrame[g]
    BY <1>0, <2>3
  <2>9. ArpAsleep'
    BY <1>1, <2>2, <2>8 DEF ArpInv, ArpAsleep
  <2> QED
    BY <1>5, <2>7, <2>9 DEF ArpInv
<1>7. CASE ~pico_arp_get(f) /\ FreeSlots # {} /\ n < ArpMaxFail /\ pico_arp_postpone(f, n)
  <2> DEFINE i == CHOOSE i \in FreeSlots : \A j \in FreeSlots : i <= j
             e == [arpFrame[f] EXCEPT !.failure_count = n, !.at = "slot"]
  <2>1. frames_queued' = [frames_queued EXCEPT ![i] = f]
        /\ arpFrame' = [arpFrame EXCEPT ![f].failure_count = n, ![f].at = "slot"]
    BY <1>7 DEF pico_arp_postpone
  <2>2. i \in ArpSlots /\ frames_queued[i] = NoFrame
    <3>1. FreeSlots \in SUBSET Nat
      BY ArpBounds DEF FreeSlots, ArpSlots
    <3>2. \E x \in FreeSlots : \A y \in FreeSlots : x <= y
      BY <1>7, <3>1, SmallestNat
    <3>3. i \in FreeSlots
      BY <3>2
    <3> QED
      BY <3>3 DEF FreeSlots, Waiting
  <2>3. e \in FrameRecs /\ e.at = "slot" /\ e.failure_count = n /\ e.hop = arpFrame[f].hop
    BY <1>3, <1>4 DEF FrameRecs
  <2>4. arpFrame' = [arpFrame EXCEPT ![f] = e]
    BY <1>0, <2>1
  <2> HIDE DEF e, i
  <2>5. HeldRec(e)
    BY <1>4, <1>7, <2>3, ArpBounds DEF HeldRec
  <2>6. /\ frames_queued' \in [ArpSlots -> ArpFrames \union {NoFrame}]
        /\ NoneTwice(frames_queued', NoFrame)
        /\ \A g \in ArpFrames : InQueue(frames_queued', g) <=> InQueue(frames_queued, g) \/ g = f
    <3>1. PutIn(frames_queued, frames_queued', i, f)
      BY <2>1 DEF PutIn
    <3> QED
      BY <1>0, <1>2, <1>3, <2>2, <3>1, ArpBounds, PutOK
  <2>7. \A g \in ArpFrames : InQueue(frames_queued', g)
               <=> IF g = f THEN e.at = "slot" ELSE InQueue(frames_queued, g)
    BY <2>3, <2>6
  <2>8. \A g \in ArpFrames : InQueue(ethernet_out', g)
               <=> IF g = f THEN e.at = "out" ELSE InQueue(ethernet_out, g)
    BY <1>2, <2>3
  <2>9. ArpPlaced' /\ ArpHeld'
    BY <1>0, <1>2, <2>3, <2>4, <2>5, <2>6, <2>7, <2>8, ArpMoveOK
  <2>10. \A g \in ArpFrames : arpFrame'[g] = IF g = f THEN e ELSE arpFrame[g]
    BY <1>0, <2>4
  <2>11. ArpAsleep'
    BY <1>1, <1>7, <2>3, <2>10 DEF ArpInv, ArpAsleep, pico_arp_get, pico_arp_lookup
  <2> QED
    BY <1>5, <2>9, <2>11 DEF ArpInv
<1>8. CASE ~(FreeSlots # {} /\ n < ArpMaxFail) /\ pico_arp_postpone(f, n)
  <2> DEFINE e == [arpFrame[f] EXCEPT !.failure_count = n, !.at = "leaked"]
  <2>1. frames_queued' = frames_queued
        /\ arpFrame' = [arpFrame EXCEPT ![f].failure_count = n, ![f].at = "leaked"]
    BY <1>8 DEF pico_arp_postpone
  <2>2. e \in FrameRecs /\ e.at = "leaked" /\ e.failure_count = n
    BY <1>3, <1>4 DEF FrameRecs
  <2>3. arpFrame' = [arpFrame EXCEPT ![f] = e]
    BY <1>0, <2>1
  <2> HIDE DEF e
  <2>4. HeldRec(e)
    BY <1>4, <2>2 DEF HeldRec
  <2>5. \A g \in ArpFrames : InQueue(frames_queued', g)
               <=> IF g = f THEN e.at = "slot" ELSE InQueue(frames_queued, g)
    BY <1>3, <2>1, <2>2
  <2>6. \A g \in ArpFrames : InQueue(ethernet_out', g)
               <=> IF g = f THEN e.at = "out" ELSE InQueue(ethernet_out, g)
    BY <1>2, <2>2
  <2>7. ArpPlaced' /\ ArpHeld'
    BY <1>0, <1>2, <2>1, <2>2, <2>3, <2>4, <2>5, <2>6, ArpMoveOK
  <2>8. \A g \in ArpFrames : arpFrame'[g] = IF g = f THEN e ELSE arpFrame[g]
    BY <1>0, <2>3
  <2>9. ArpAsleep'
    BY <1>1, <2>2, <2>8 DEF ArpInv, ArpAsleep
  <2> QED
    BY <1>5, <2>7, <2>9 DEF ArpInv
<1> QED
  BY <1>1, <1>6, <1>7, <1>8

LEMMA ArpHolds == ArpSpec => []ArpInv
<1>1. ASSUME ArpInv, [ArpNext]_arpVars PROVE ArpInv'
  <2>1. CASE update_max_arp_reqs
    <3>1. ArpBudget'
      BY <1>1, <2>1, ArpBounds DEF update_max_arp_reqs, ArpInv, ArpBudget
    <3> QED
      BY <1>1, <2>1, <3>1 DEF update_max_arp_reqs, ArpInv, ArpCache, ArpPlaced, ArpHeld, ArpAsleep,
                              Expires, arpQueues
  <2>2. CASE UNCHANGED arpVars
    BY <1>1, <2>2 DEF arpVars, ArpInv, ArpCache, ArpPlaced, ArpHeld, ArpAsleep, ArpBudget, Expires
  <2> QED
    BY <1>1, <2>1, <2>2, ArpReceiveOK, ArpExpireOK, ArpTickOK, ArpSendOK, ArpOutOK DEF ArpNext
<1> QED
  BY <1>1, ArpInitOK, PTL DEF ArpSpec

(* A frame that is in a queue is in one place of it.                       *)
LEMMA CountIn ==
    ASSUME NEW none, NEW q, NoneTwice(q, none), NEW f, f # none
    PROVE  Cardinality({i \in DOMAIN q : q[i] = f}) = IF InQueue(q, f) THEN 1 ELSE 0
<1> DEFINE S == {i \in DOMAIN q : q[i] = f}
<1>1. CASE InQueue(q, f)
  <2>1. PICK x \in S : TRUE
    BY <1>1 DEF InQueue
  <2>2. \A y \in S : y = x
    BY DEF NoneTwice
  <2>3. S = {x}
    BY <2>1, <2>2
  <2> QED
    BY <1>1, <2>3, FS_Singleton
<1>2. CASE ~InQueue(q, f)
  <2>1. S = {}
    BY <1>2 DEF InQueue
  <2> QED
    BY <1>2, <2>1, FS_EmptySet
<1> QED
  BY <1>1, <1>2

(* The cache, its timers and the frames that wait agree, however replies,  *)
(* expiries, failures of memory and frames interleave: an entry that       *)
(* answers has exactly one arp_expire timer and no other entry has any, no *)
(* wakeup is lost, and a frame is in one place.                            *)
THEOREM ArpAgrees == ArpSpec => []ArpConsistent
<1>1. ASSUME ArpInv PROVE ArpConsistent
  <2>1. ASSUME NEW a \in ArpHosts
        PROVE  LET mine == {t \in arpTimers : t.host = a} IN
               IF arp_tree[a].status = "REACHABLE"
               THEN Cardinality(mine) = 1 /\ \A t \in mine : t.in <= arp_tree[a].left
               ELSE mine = {}
    <3>1. CASE arp_tree[a].status = "REACHABLE"
      <4>1. PICK t \in arpTimers : /\ t.host = a /\ t.in <= arp_tree[a].left
                                   /\ \A u \in arpTimers : u.host = a => u = t
        BY <1>1, <3>1 DEF ArpInv, ArpCache, Expires
      <4>2. {u \in arpTimers : u.host = a} = {t}
        BY <4>1
      <4> QED
        BY <3>1, <4>1, <4>2, FS_Singleton
    <3>2. CASE arp_tree[a].status # "REACHABLE"
      BY <1>1, <3>2 DEF ArpInv, ArpCache
    <3> QED
      BY <3>1, <3>2
  <2>2. ASSUME NEW i \in Waiting PROVE ~pico_arp_lookup(arpFrame[frames_queued[i]].hop)
    <3> DEFINE f == frames_queued[i]
    <3>1. i \in ArpSlots /\ f \in ArpFrames
      BY <1>1 DEF ArpInv, ArpPlaced, Waiting
    <3>2. InQueue(frames_queued, f)
      BY <1>1, <3>1 DEF InQueue, ArpInv, ArpPlaced
    <3> HIDE DEF f
    <3>3. arpFrame[f].at = "slot"
      BY <1>1, <3>1, <3>2 DEF ArpInv, ArpPlaced
    <3> QED
      BY <1>1, <3>1, <3>3 DEF ArpInv, ArpAsleep, pico_arp_lookup, f
  <2>3. ASSUME NEW f \in ArpFrames
        PROVE  /\ Cardinality({i \in ArpSlots : frames_queued[i] = f})
                    = (IF arpFrame[f].at = "slot" THEN 1 ELSE 0)
               /\ Cardinality({i \in DOMAIN ethernet_out : ethernet_out[i] = f})
                    = (IF arpFrame[f].at = "out" THEN 1 ELSE 0)
               /\ arpFrame[f].failure_count <= ArpMaxFail
    <3>1. f # NoFrame /\ DOMAIN frames_queued = ArpSlots
      BY <1>1, ArpBounds DEF ArpInv, ArpPlaced
    <3>2. /\ NoneTwice(frames_queued, NoFrame) /\ NoneTwice(ethernet_out, NoFrame)
          /\ (arpFrame[f].at = "slot") <=> InQueue(frames_queued, f)
          /\ (arpFrame[f].at = "out") <=> InQueue(ethernet_out, f)
          /\ arpFrame[f].failure_count <= ArpMaxFail
      BY <1>1 DEF ArpInv, ArpPlaced, ArpHeld
    <3>3. Cardinality({i \in DOMAIN frames_queued : frames_queued[i] = f})
            = (IF InQueue(frames_queued, f) THEN 1 ELSE 0)
      BY <3>1, <3>2, CountIn
    <3>4. Cardinality({i \in DOMAIN ethernet_out : ethernet_out[i] = f})
            = (IF InQueue(ethernet_out, f) THEN 1 ELSE 0)
      BY <3>1, <3>2, CountIn
    <3> QED
      BY <3>1, <3>2, <3>3, <3>4
  <2> QED
    BY <2>1, <2>2, <2>3 DEF ArpConsistent
<1> QED
  BY <1>1, ArpHolds, PTL

(* The types of the cache, its timers, the queues and the budget.          *)
THEOREM ArpTypes == ArpSpec => []ArpTypeOK
<1>1. ASSUME ArpInv PROVE ArpTypeOK
  <2>1. \A a \in ArpHosts : arp_tree[a] = NoArp \/
           (arp_tree[a].status \in {"REACHABLE", "STALE"} /\ arp_tree[a].mac \in ArpMacs
            /\ arp_tree[a].left \in 0..ArpTimeout)
    BY <1>1 DEF ArpInv, ArpCache, Entries
  <2>2. \A f \in ArpFrames : arpFrame[f].at \in {"unborn", "out", "slot", "sent", "discarded", "leaked"}
    BY <1>1 DEF ArpInv, ArpPlaced, FrameRecs
  <2> QED
    BY <1>1, <2>1, <2>2 DEF ArpInv, ArpCache, ArpPlaced, ArpBudget, ArpTypeOK
<1> QED
  BY <1>1, ArpHolds, PTL

-----------------------------------------------------------------------------
(* Neighbour discovery.                                                    *)

NbrRecs ==
    [state : KnownStates \union {"INCOMPLETE"}, hw : NdHws \union {"zero"}, is_router : BOOLEAN,
     failure_count : Nat, expire : BOOLEAN]
NdFrameRecs ==
    [dst : NdAddrs, at : {"unborn", "out", "slot", "sent", "discarded"},
     why : {"none", "resolve", "tentative", "nomem", "rerouted"}, hop : NdAddrs]
NdStates ==
    [cache : [NdAddrs -> NbrRecs \union {NoNeighbour}], slots : [NdSlots -> NdFrames \union {NoNdFrame}],
     last : 0..NdQueued, out : Seq(NdFrames), frame : [NdFrames -> NdFrameRecs],
     gateway : BOOLEAN, tentative : BOOLEAN, timer : BOOLEAN]

(* The frames are where their records say, but for one that was just taken *)
(* out of the queue: it is in L.                                           *)
NdPlaced(d, L) ==
    /\ NoneTwice(d.slots, NoNdFrame) /\ NoneTwice(d.out, NoNdFrame)
    /\ \A f \in NdFrames :
          /\ InQueue(d.slots, f) <=> d.frame[f].at = "slot"
          /\ InQueue(d.out, f) <=> d.frame[f].at = "out" /\ f \notin L
          /\ d.frame[f].why = "resolve" => d.frame[f].at = "slot"
NdBase(d, L) == d \in NdStates /\ NdPlaced(d, L)

(* A frame that waits for a neighbour is one that its failure would        *)
(* discard: the routes still lead to it.                                   *)
Resolving(d) ==
    \A f \in NdFrames : d.frame[f].why = "resolve" =>
        /\ d.cache[d.frame[f].hop].state = "INCOMPLETE"
        /\ d.frame[f].hop = pico_ipv6_route_get_gateway(d, d.frame[f].dst)

NdOK(d) == NdBase(d, {}) /\ Resolving(d)

LEMMA NdBounds ==
    /\ NdQueued \in Nat \ {0} /\ MaxSolicit \in Nat \ {0} /\ NoNdFrame \notin NdFrames
    /\ Gateway \in NdAddrs /\ Remote \in NdAddrs
BY NdAssumption DEF NoNdFrame, NdAddrs

LEMMA NoNbr == NoNeighbour.state = "none" /\ NoNeighbour \notin NbrRecs
BY DEF NoNeighbour, NbrRecs, KnownStates

LEMMA NdInitOK == NdInit => NdOK(nd)
<1> SUFFICES ASSUME NdInit PROVE NdOK(nd)
  OBVIOUS
<1> DEFINE c == [a \in NdAddrs |-> NoNeighbour]
           s == [i \in NdSlots |-> NoNdFrame]
           fr == [f \in NdFrames |-> Gone("unborn")]
<1>1. nd = [cache |-> c, slots |-> s, last |-> 0, out |-> <<>>, frame |-> fr, gateway |-> FALSE,
            tentative |-> TRUE, timer |-> TRUE]
  BY DEF NdInit
<1>2. Gone("unborn") \in NdFrameRecs /\ Gone("unborn").at = "unborn" /\ Gone("unborn").why = "none"
  BY NdBounds DEF Gone, NdFrameRecs
<1>3. /\ c \in [NdAddrs -> NbrRecs \union {NoNeighbour}]
      /\ s \in [NdSlots -> NdFrames \union {NoNdFrame}]
      /\ fr \in [NdFrames -> NdFrameRecs] /\ \A f \in NdFrames : fr[f] = Gone("unborn")
      /\ 0 \in 0..NdQueued
  BY <1>2, NdBounds
<1>4. (\A f \in NdFrames : ~InQueue(s, f) /\ ~InQueue(<<>>, f)) /\ NoneTwice(s, NoNdFrame)
      /\ NoneTwice(<<>>, NoNdFrame)
  BY NdBounds DEF InQueue, NoneTwice
<1> HIDE DEF c, s, fr
<1>5. nd \in NdStates /\ nd.slots = s /\ nd.out = <<>> /\ nd.frame = fr
  BY <1>1, <1>3 DEF NdStates
<1> QED
  BY <1>2, <1>3, <1>4, <1>5 DEF NdOK, NdBase, NdPlaced, Resolving

-----------------------------------------------------------------------------
(* Handlers that change one entry of the cache.                            *)

(* e is d with n as the entry of a.                                        *)
Recached(d, e, a, n) ==
    e = [cache |-> [d.cache EXCEPT ![a] = n], slots |-> d.slots, last |-> d.last, out |-> d.out,
         frame |-> d.frame, gateway |-> d.gateway, tentative |-> d.tentative, timer |-> d.timer]
Entry(n) == n \in NbrRecs \union {NoNeighbour}

LEMMA RecachedIs ==
    ASSUME NEW L, NEW d, NdBase(d, L), NEW a \in NdAddrs, NEW n, Entry(n), NEW e, Recached(d, e, a, n)
    PROVE  /\ NdBase(e, L) /\ e.cache[a] = n /\ \A b \in NdAddrs : b # a => e.cache[b] = d.cache[b]
           /\ e.frame = d.frame /\ e.gateway = d.gateway /\ e.slots = d.slots /\ e.out = d.out
<1> DEFINE c == [d.cache EXCEPT ![a] = n]
<1>1. d \in NdStates
  BY DEF NdBase
<1>2. c \in [NdAddrs -> NbrRecs \union {NoNeighbour}] /\ c[a] = n
      /\ \A b \in NdAddrs : b # a => c[b] = d.cache[b]
  BY <1>1 DEF NdStates, Entry
<1>3. e = [cache |-> c, slots |-> d.slots, last |-> d.last, out |-> d.out,
           frame |-> d.frame, gateway |-> d.gateway, tentative |-> d.tentative, timer |-> d.timer]
  BY DEF Recached
<1> HIDE DEF c
<1>4. /\ e.cache = c /\ e.frame = d.frame /\ e.gateway = d.gateway /\ e.slots = d.slots /\ e.out = d.out
      /\ e \in NdStates
  BY <1>1, <1>2, <1>3 DEF NdStates
<1> QED
  BY <1>2, <1>4 DEF NdBase, NdPlaced

(* An entry that is not, or stays, INCOMPLETE keeps the frames resolving.  *)
LEMMA RecachedOK ==
    ASSUME NEW L, NEW d, NdBase(d, L), Resolving(d), NEW a \in NdAddrs, NEW n, Entry(n),
           d.cache[a].state = "INCOMPLETE" => n.state = "INCOMPLETE",
           NEW e, Recached(d, e, a, n)
    PROVE  NdBase(e, L) /\ Resolving(e)
<1>1. /\ NdBase(e, L) /\ e.cache[a] = n /\ \A b \in NdAddrs : b # a => e.cache[b] = d.cache[b]
      /\ e.frame = d.frame /\ e.gateway = d.gateway
  BY RecachedIs
<1>2. \A f \in NdFrames : d.frame[f].hop \in NdAddrs
  BY DEF NdBase, NdStates, NdFrameRecs
<1> QED
  BY <1>1, <1>2 DEF Resolving, pico_ipv6_route_get_gateway

(* The record d with the cache c.                                          *)
LEMMA WithCache ==
    ASSUME NEW d \in NdStates, NEW a, NEW n, NEW c, c = [d.cache EXCEPT ![a] = n],
           NEW e, e = [d EXCEPT !.cache = c]
    PROVE  Recached(d, e, a, n)
<1>1. e = [cache |-> c, slots |-> d.slots, last |-> d.last, out |-> d.out, frame |-> d.frame,
           gateway |-> d.gateway, tentative |-> d.tentative, timer |-> d.timer]
  BY DEF NdStates
<1> QED
  BY <1>1 DEF Recached

LEMMA SetIs ==
    ASSUME NEW d \in NdStates, NEW a \in NdAddrs, NEW n
    PROVE  Recached(d, Set(d, a, n), a, n)
<1> DEFINE c == [d.cache EXCEPT ![a] = n]
<1>1. Set(d, a, n) = [d EXCEPT !.cache = c]
  BY DEF Set
<1> HIDE DEF c
<1> QED
  BY <1>1, WithCache DEF c

LEMMA EnterIs ==
    ASSUME NEW d \in NdStates, NEW a \in NdAddrs, NEW state
    PROVE  Recached(d, Enter(d, a, state), a, [d.cache[a] EXCEPT !.state = state])
<1> DEFINE n == [d.cache[a] EXCEPT !.state = state]
           c == [d.cache EXCEPT ![a] = n]
<1>1. Enter(d, a, state) = [d EXCEPT !.cache = c]
  BY DEF Enter
<1> HIDE DEF c, n
<1>2. Recached(d, Enter(d, a, state), a, n)
  BY <1>1, WithCache DEF c
<1> QED
  BY <1>2 DEF n

LEMMA ExpireIs ==
    ASSUME NEW d \in NdStates, NEW a \in NdAddrs
    PROVE  Recached(d, pico_nd_new_expire_time(d, a), a, [d.cache[a] EXCEPT !.expire = TRUE])
<1> DEFINE n == [d.cache[a] EXCEPT !.expire = TRUE]
           c == [d.cache EXCEPT ![a] = n]
<1>1. pico_nd_new_expire_time(d, a) = [d EXCEPT !.cache = c]
  BY DEF pico_nd_new_expire_time
<1> HIDE DEF c, n
<1>2. Recached(d, pico_nd_new_expire_time(d, a), a, n)
  BY <1>1, WithCache DEF c
<1> QED
  BY <1>2 DEF n

LEMMA UpdateIs ==
    ASSUME NEW d \in NdStates, NEW a \in NdAddrs, NEW hw
    PROVE  Recached(d, pico_ipv6_neighbor_update(d, a, hw), a, [d.cache[a] EXCEPT !.hw = hw])
<1> DEFINE n == [d.cache[a] EXCEPT !.hw = hw]
           c == [d.cache EXCEPT ![a] = n]
<1>1. pico_ipv6_neighbor_update(d, a, hw) = [d EXCEPT !.cache = c]
  BY DEF pico_ipv6_neighbor_update
<1> HIDE DEF c, n
<1>2. Recached(d, pico_ipv6_neighbor_update(d, a, hw), a, n)
  BY <1>1, WithCache DEF c
<1> QED
  BY <1>2 DEF n

(* The entry of a is now in state st.                                      *)
To(d, e, a, st) == \E n \in NbrRecs : Recached(d, e, a, n) /\ n.state = st

LEMMA ToBase ==
    ASSUME NEW L, NEW d, NdBase(d, L), NEW a \in NdAddrs, NEW st, NEW e, To(d, e, a, st)
    PROVE  /\ NdBase(e, L) /\ e \in NdStates /\ e.cache[a] \in NbrRecs /\ e.cache[a].state = st
           /\ e.frame = d.frame /\ e.gateway = d.gateway /\ e.slots = d.slots /\ e.out = d.out
<1>1. PICK n \in NbrRecs : Recached(d, e, a, n) /\ n.state = st
  BY DEF To
<1>2. Entry(n)
  BY DEF Entry
<1>3. /\ NdBase(e, L) /\ e.cache[a] = n
      /\ e.frame = d.frame /\ e.gateway = d.gateway /\ e.slots = d.slots /\ e.out = d.out
  BY <1>1, <1>2, RecachedIs
<1> QED
  BY <1>1, <1>3 DEF NdBase

LEMMA ToOK ==
    ASSUME NEW L, NEW d, NdBase(d, L), Resolving(d), NEW a \in NdAddrs, NEW st,
           d.cache[a].state = "INCOMPLETE" => st = "INCOMPLETE", NEW e, To(d, e, a, st)
    PROVE  NdBase(e, L) /\ Resolving(e)
<1>1. PICK n \in NbrRecs : Recached(d, e, a, n) /\ n.state = st
  BY DEF To
<1> QED
  BY <1>1, RecachedOK DEF Entry

LEMMA ToItself ==
    ASSUME NEW d \in NdStates, NEW a \in NdAddrs, d.cache[a] \in NbrRecs
    PROVE  To(d, d, a, d.cache[a].state)
<1> DEFINE n == d.cache[a]
           c == [d.cache EXCEPT ![a] = n]
<1>1. c = d.cache
  BY DEF NdStates
<1>2. d = [d EXCEPT !.cache = c]
  BY <1>1 DEF NdStates
<1> HIDE DEF c
<1>3. Recached(d, d, a, n)
  BY <1>2, WithCache DEF c
<1> QED
  BY <1>3 DEF To

LEMMA EnterTo ==
    ASSUME NEW d \in NdStates, NEW a \in NdAddrs, d.cache[a] \in NbrRecs,
           NEW st \in KnownStates
    PROVE  To(d, Enter(d, a, st), a, st)
<1> DEFINE n == [d.cache[a] EXCEPT !.state = st]
<1>1. n \in NbrRecs /\ n.state = st
  BY DEF NbrRecs
<1> QED
  BY <1>1, EnterIs DEF To

LEMMA ExpireTo ==
    ASSUME NEW d \in NdStates, NEW a \in NdAddrs, d.cache[a] \in NbrRecs
    PROVE  To(d, pico_nd_new_expire_time(d, a), a, d.cache[a].state)
<1> DEFINE n == [d.cache[a] EXCEPT !.expire = TRUE]
<1>1. n \in NbrRecs /\ n.state = d.cache[a].state
  BY DEF NbrRecs
<1> QED
  BY <1>1, ExpireIs DEF To

LEMMA UpdateTo ==
    ASSUME NEW d \in NdStates, NEW a \in NdAddrs, d.cache[a] \in NbrRecs, NEW hw \in NdHws
    PROVE  To(d, pico_ipv6_neighbor_update(d, a, hw), a, d.cache[a].state)
<1> DEFINE n == [d.cache[a] EXCEPT !.hw = hw]
<1>1. n \in NbrRecs /\ n.state = d.cache[a].state
  BY DEF NbrRecs
<1> QED
  BY <1>1, UpdateIs DEF To

LEMMA RouterTo ==
    ASSUME NEW d \in NdStates, NEW a \in NdAddrs, d.cache[a] \in NbrRecs, NEW b \in BOOLEAN
    PROVE  To(d, [d EXCEPT !.cache[a].is_router = b], a, d.cache[a].state)
<1> DEFINE n == [d.cache[a] EXCEPT !.is_router = b]
           c == [d.cache EXCEPT ![a] = n]
           e == [d EXCEPT !.cache[a].is_router = b]
<1>1. n \in NbrRecs /\ n.state = d.cache[a].state
  BY DEF NbrRecs
<1>2. e = [d EXCEPT !.cache = c]
  OBVIOUS
<1> HIDE DEF n, c, e
<1>3. Recached(d, e, a, n)
  BY <1>2, WithCache DEF c
<1>4. To(d, e, a, d.cache[a].state)
  BY <1>1, <1>3 DEF To
<1> QED
  BY <1>4 DEF e

LEMMA DueTo ==
    ASSUME NEW d \in NdStates, NEW a \in NdAddrs, d.cache[a] \in NbrRecs
    PROVE  To(d, [d EXCEPT !.cache[a].expire = FALSE], a, d.cache[a].state)
<1> DEFINE n == [d.cache[a] EXCEPT !.expire = FALSE]
           c == [d.cache EXCEPT ![a] = n]
           e == [d EXCEPT !.cache[a].expire = FALSE]
<1>1. n \in NbrRecs /\ n.state = d.cache[a].state
  BY DEF NbrRecs
<1>2. e = [d EXCEPT !.cache = c]
  OBVIOUS
<1> HIDE DEF n, c, e
<1>3. Recached(d, e, a, n)
  BY <1>2, WithCache DEF c
<1>4. To(d, e, a, d.cache[a].state)
  BY <1>1, <1>3 DEF To
<1> QED
  BY <1>4 DEF e

LEMMA ReachTo ==
    ASSUME NEW d \in NdStates, NEW a \in NdAddrs, d.cache[a] \in NbrRecs
    PROVE  To(d, [d EXCEPT !.cache[a].state = "REACHABLE", !.cache[a].failure_count = 0], a, "REACHABLE")
<1> DEFINE n == [d.cache[a] EXCEPT !.state = "REACHABLE", !.failure_count = 0]
           c == [d.cache EXCEPT ![a] = n]
           e == [d EXCEPT !.cache[a].state = "REACHABLE", !.cache[a].failure_count = 0]
<1>1. n \in NbrRecs /\ n.state = "REACHABLE"
  BY DEF NbrRecs, KnownStates
<1>2. e = [d EXCEPT !.cache = c]
  BY DEF NdStates
<1> HIDE DEF n, c, e
<1>3. Recached(d, e, a, n)
  BY <1>2, WithCache DEF c
<1>4. To(d, e, a, "REACHABLE")
  BY <1>1, <1>3 DEF To
<1> QED
  BY <1>4 DEF e

LEMMA DiscoverTo ==
    ASSUME NEW d \in NdStates, NEW a \in NdAddrs, d.cache[a] \in NbrRecs
    PROVE  To(d, pico_nd_discover(d, a), a, d.cache[a].state)
<1> DEFINE n == d.cache[a]
           k == n.failure_count + 1
           b == n.failure_count < MaxSolicit
           m == [n EXCEPT !.failure_count = k, !.expire = b]
<1>1. CASE n.expire
  <2>1. pico_nd_discover(d, a) = d
    BY <1>1 DEF pico_nd_discover, Neighbour
  <2> QED
    BY <2>1, ToItself
<1>2. CASE ~n.expire
  <2>1. pico_nd_discover(d, a) = Set(d, a, m)
    BY <1>2 DEF pico_nd_discover, Neighbour
  <2>2. k \in Nat /\ b \in BOOLEAN
    BY DEF NbrRecs
  <2> HIDE DEF k, b
  <2>3. m \in NbrRecs /\ m.state = n.state
    BY <2>2 DEF NbrRecs
  <2> HIDE DEF m
  <2>4. Recached(d, Set(d, a, m), a, m)
    BY SetIs
  <2> QED
    BY <2>1, <2>3, <2>4 DEF To
<1> QED
  BY <1>1, <1>2

LEMMA AddTo ==
    ASSUME NEW d \in NdStates, NEW a \in NdAddrs
    PROVE  To(d, pico_nd_add(d, a), a, "INCOMPLETE")
<1> DEFINE m == [state |-> "INCOMPLETE", hw |-> "zero", is_router |-> FALSE, failure_count |-> 0,
                 expire |-> FALSE]
<1>1. m \in NbrRecs /\ m.state = "INCOMPLETE"
  BY DEF NbrRecs
<1>2. pico_nd_add(d, a) = Set(d, a, m)
  BY DEF pico_nd_add
<1> HIDE DEF m
<1> QED
  BY <1>1, <1>2, SetIs DEF To

-----------------------------------------------------------------------------
(* Handlers that move frames.                                              *)

(* e is d with these frames and routes.                                    *)
Reframed(d, e, s, l, o, fr, gw) ==
    e = [cache |-> d.cache, slots |-> s, last |-> l, out |-> o, frame |-> fr, gateway |-> gw,
         tentative |-> d.tentative, timer |-> d.timer]

LEMMA ReframedIs ==
    ASSUME NEW d \in NdStates, NEW s \in [NdSlots -> NdFrames \union {NoNdFrame}],
           NEW l \in 0..NdQueued, NEW o \in Seq(NdFrames), NEW fr \in [NdFrames -> NdFrameRecs],
           NEW gw \in BOOLEAN, NEW e, Reframed(d, e, s, l, o, fr, gw)
    PROVE  e \in NdStates /\ e.cache = d.cache /\ e.slots = s /\ e.out = o /\ e.frame = fr /\ e.gateway = gw
<1>1. /\ d.cache \in [NdAddrs -> NbrRecs \union {NoNeighbour}]
      /\ d.tentative \in BOOLEAN /\ d.timer \in BOOLEAN
  BY DEF NdStates
<1> QED
  BY <1>1 DEF Reframed, NdStates

LEMMA GoneIs ==
    ASSUME NEW at \in {"sent", "discarded"}
    PROVE  Gone(at) \in NdFrameRecs /\ Gone(at).at = at /\ Gone(at).why = "none"
BY NdBounds DEF Gone, NdFrameRecs

(* After the trigger nothing waits.                                        *)
LEMMA NdTriggerOK ==
    ASSUME NEW d, NdBase(d, {}), NEW e, e = pico_ipv6_nd_queued_trigger(d)
    PROVE  NdOK(e) /\ e.cache = d.cache
<1> DEFINE Woken(f) == \E i \in NdSlots : d.slots[i] = f
           q == Requeue(d.out, d.slots, NdQueued, NoNdFrame)[NdQueued]
           s == [i \in NdSlots |-> NoNdFrame]
           fr == [f \in NdFrames |-> IF Woken(f) THEN Back(d.frame[f]) ELSE d.frame[f]]
<1>1. /\ d \in NdStates /\ d.slots \in [NdSlots -> NdFrames \union {NoNdFrame}]
      /\ d.out \in Seq(NdFrames) /\ d.last \in 0..NdQueued /\ d.gateway \in BOOLEAN
      /\ d.frame \in [NdFrames -> NdFrameRecs] /\ NdPlaced(d, {})
  BY DEF NdBase, NdStates
<1>2. Reframed(d, e, s, d.last, q, fr, d.gateway)
  BY <1>1 DEF pico_ipv6_nd_queued_trigger, Reframed, NdStates
<1>3. \A f \in NdFrames : Woken(f) <=> d.frame[f].at = "slot"
  BY <1>1 DEF NdPlaced, InQueue
<1>4. Gathered(q, d.out, d.slots, NoNdFrame, NdFrames, NdQueued)
  <2>1. \A f \in NdFrames : ~(InQueue(d.out, f) /\ InQueue(d.slots, f))
    BY <1>1 DEF NdPlaced
  <2>2. NoneTwice(d.slots, NoNdFrame) /\ NoneTwice(d.out, NoNdFrame)
    BY <1>1 DEF NdPlaced
  <2>3. d.slots \in [1..NdQueued -> NdFrames \union {NoNdFrame}]
    BY <1>1 DEF NdSlots
  <2>4. NdQueued \in Nat /\ NoNdFrame \notin NdFrames
    BY NdBounds
  <2> QED
    BY <1>1, <2>1, <2>2, <2>3, <2>4, RequeueGathers
<1>5. \A f \in NdFrames : InQueue(q, f) <=> InQueue(d.out, f) \/ Woken(f)
  BY <1>4 DEF Gathered, Woken, NdSlots
<1>6. \A f \in NdFrames : /\ fr[f] \in NdFrameRecs
                          /\ Woken(f) => fr[f].at = "out" /\ fr[f].why = "none"
                          /\ ~Woken(f) => fr[f] = d.frame[f]
  <2> SUFFICES ASSUME NEW f \in NdFrames
               PROVE  /\ fr[f] \in NdFrameRecs
                      /\ Woken(f) => fr[f].at = "out" /\ fr[f].why = "none"
                      /\ ~Woken(f) => fr[f] = d.frame[f]
    OBVIOUS
  <2>1. d.frame[f] \in NdFrameRecs
    BY <1>1
  <2>2. Back(d.frame[f]) \in NdFrameRecs /\ Back(d.frame[f]).at = "out" /\ Back(d.frame[f]).why = "none"
    BY <2>1, NdBounds DEF Back, NdFrameRecs
  <2> HIDE DEF Woken
  <2> QED
    BY <2>1, <2>2
<1>7. s \in [NdSlots -> NdFrames \union {NoNdFrame}] /\ NoneTwice(s, NoNdFrame)
      /\ \A f \in NdFrames : ~InQueue(s, f)
  BY NdBounds DEF NoneTwice, InQueue
<1>8. q \in Seq(NdFrames) /\ NoneTwice(q, NoNdFrame)
  BY <1>4 DEF Gathered
<1>9. fr \in [NdFrames -> NdFrameRecs]
  BY <1>6
<1> HIDE DEF q, s, fr, Woken
<1>10. e \in NdStates /\ e.cache = d.cache /\ e.slots = s /\ e.out = q /\ e.frame = fr
  BY <1>1, <1>2, <1>7, <1>8, <1>9, ReframedIs
<1>11. \A f \in NdFrames : /\ fr[f].at # "slot" /\ fr[f].why # "resolve"
                           /\ InQueue(q, f) <=> fr[f].at = "out"
  BY <1>1, <1>3, <1>5, <1>6 DEF NdPlaced
<1>12. NdPlaced(e, {})
  BY <1>7, <1>8, <1>10, <1>11 DEF NdPlaced
<1> QED
  BY <1>10, <1>11, <1>12 DEF NdOK, NdBase, Resolving

(* What waits for a is discarded, and then nothing waits for it.           *)
LEMMA UnreachableOK ==
    ASSUME NEW d, NdOK(d), NEW a \in NdAddrs, NEW e, e = pico_ipv6_nd_unreachable(d, a)
    PROVE  NdOK(e) /\ e.cache = d.cache /\ \A f \in NdFrames : e.frame[f].why = "resolve" => e.frame[f].hop # a
<1> DEFINE gone == {i \in NdIn(d) : pico_ipv6_route_get_gateway(d, d.frame[d.slots[i]].dst) = a}
           Lost(f) == \E i \in gone : d.slots[i] = f
           s == [i \in NdSlots |-> IF i \in gone THEN NoNdFrame ELSE d.slots[i]]
           fr == [f \in NdFrames |-> IF Lost(f) THEN Gone("discarded") ELSE d.frame[f]]
<1>1. /\ d \in NdStates /\ d.slots \in [NdSlots -> NdFrames \union {NoNdFrame}]
      /\ d.out \in Seq(NdFrames) /\ d.last \in 0..NdQueued /\ d.gateway \in BOOLEAN
      /\ d.frame \in [NdFrames -> NdFrameRecs] /\ NdPlaced(d, {}) /\ Resolving(d)
  BY DEF NdOK, NdBase, NdStates
<1>2. Reframed(d, e, s, d.last, d.out, fr, d.gateway)
  BY <1>1 DEF pico_ipv6_nd_unreachable, Reframed, NdStates
<1>3. ASSUME NEW f \in NdFrames
      PROVE  /\ Lost(f) <=> d.frame[f].at = "slot" /\ pico_ipv6_route_get_gateway(d, d.frame[f].dst) = a
             /\ InQueue(s, f) <=> d.frame[f].at = "slot" /\ ~Lost(f)
  <2>1. f # NoNdFrame /\ DOMAIN d.slots = NdSlots
    BY <1>1, NdBounds
  <2>2. InQueue(d.slots, f) <=> d.frame[f].at = "slot"
    BY <1>1 DEF NdPlaced
  <2>3. \A i \in NdSlots : d.slots[i] = f => i \in NdIn(d)
    BY <2>1 DEF NdIn
  <2>4. gone \subseteq NdSlots
    BY DEF NdIn
  <2>5. Lost(f) <=> d.frame[f].at = "slot" /\ pico_ipv6_route_get_gateway(d, d.frame[f].dst) = a
    BY <2>1, <2>2, <2>3, <2>4 DEF InQueue
  <2>6. InQueue(s, f) => InQueue(d.slots, f) /\ ~Lost(f)
    <3> SUFFICES ASSUME InQueue(s, f) PROVE InQueue(d.slots, f) /\ ~Lost(f)
      OBVIOUS
    <3>1. PICK i \in NdSlots : s[i] = f
      BY DEF InQueue
    <3>2. i \notin gone /\ d.slots[i] = f
      BY <2>1, <3>1
    <3>3. \A j \in NdSlots : d.slots[j] = f => j = i
      BY <1>1, <2>1, <3>2 DEF NdPlaced, NoneTwice
    <3> HIDE DEF gone
    <3> QED
      BY <2>1, <2>4, <3>2, <3>3 DEF InQueue
  <2>7. InQueue(d.slots, f) /\ ~Lost(f) => InQueue(s, f)
    <3> HIDE DEF gone
    <3> QED
      BY <2>1 DEF InQueue
  <2> QED
    BY <2>2, <2>5, <2>6, <2>7
<1>4. s \in [NdSlots -> NdFrames \union {NoNdFrame}]
  BY <1>1
<1>5. NoneTwice(s, NoNdFrame)
  <2>1. DOMAIN s = NdSlots /\ DOMAIN d.slots = NdSlots
        /\ \A i \in NdSlots : s[i] # NoNdFrame => s[i] = d.slots[i]
    BY <1>1
  <2> HIDE DEF s
  <2> QED
    BY <1>1, <2>1 DEF NoneTwice, NdPlaced
<1> HIDE DEF gone, Lost, s
<1>6. \A f \in NdFrames : /\ fr[f] \in NdFrameRecs
                          /\ Lost(f) => fr[f].at = "discarded" /\ fr[f].why = "none"
                          /\ ~Lost(f) => fr[f] = d.frame[f]
  BY <1>1, GoneIs
<1>7. fr \in [NdFrames -> NdFrameRecs]
  BY <1>6
<1> HIDE DEF fr
<1>8. e \in NdStates /\ e.cache = d.cache /\ e.slots = s /\ e.out = d.out /\ e.frame = fr /\ e.gateway = d.gateway
  BY <1>1, <1>2, <1>4, <1>7, ReframedIs
<1>9. NdPlaced(e, {})
  <2>1. ASSUME NEW f \in NdFrames
        PROVE  /\ InQueue(e.slots, f) <=> e.frame[f].at = "slot"
               /\ InQueue(e.out, f) <=> e.frame[f].at = "out" /\ f \notin {}
               /\ e.frame[f].why = "resolve" => e.frame[f].at = "slot"
    <3>1. CASE Lost(f)
      BY <1>1, <1>3, <1>6, <1>8, <3>1 DEF NdPlaced
    <3>2. CASE ~Lost(f)
      BY <1>1, <1>3, <1>6, <1>8, <3>2 DEF NdPlaced
    <3> QED
      BY <3>1, <3>2
  <2> QED
    BY <1>1, <1>5, <1>8, <2>1 DEF NdPlaced
<1>10. Resolving(e)
  <2> SUFFICES ASSUME NEW f \in NdFrames, e.frame[f].why = "resolve"
               PROVE  /\ e.cache[e.frame[f].hop].state = "INCOMPLETE"
                      /\ e.frame[f].hop = pico_ipv6_route_get_gateway(e, e.frame[f].dst)
    BY DEF Resolving
  <2>1. ~Lost(f) /\ e.frame[f] = d.frame[f]
    BY <1>6, <1>8
  <2> QED
    BY <1>1, <1>8, <2>1 DEF Resolving, pico_ipv6_route_get_gateway
<1>11. ASSUME NEW f \in NdFrames, e.frame[f].why = "resolve" PROVE e.frame[f].hop # a
  <2>1. ~Lost(f) /\ e.frame[f] = d.frame[f]
    BY <1>6, <1>8, <1>11
  <2> QED
    BY <1>1, <1>3, <1>11, <2>1 DEF Resolving, NdPlaced
<1> QED
  BY <1>8, <1>9, <1>10, <1>11 DEF NdOK, NdBase

(* One frame f moves; its record is x now.                                 *)
WaitsWell(d, x) ==
    x.why = "resolve" => /\ x.at = "slot" /\ d.cache[x.hop].state = "INCOMPLETE"
                         /\ x.hop = pico_ipv6_route_get_gateway(d, x.dst)
HasMoved(p, q, f, there) == \A g \in NdFrames : InQueue(q, g) <=> IF g = f THEN there ELSE InQueue(p, g)
SameBut(L, M, f) == \A g \in NdFrames : g # f => (g \in L <=> g \in M)

LEMMA NdMoveOK ==
    ASSUME NEW L, NEW M, NEW d, NdBase(d, L), Resolving(d), NEW f \in NdFrames, SameBut(L, M, f),
           NEW x \in NdFrameRecs, WaitsWell(d, x),
           NEW s \in [NdSlots -> NdFrames \union {NoNdFrame}], NoneTwice(s, NoNdFrame),
           HasMoved(d.slots, s, f, x.at = "slot"),
           NEW o \in Seq(NdFrames), NoneTwice(o, NoNdFrame),
           HasMoved(d.out, o, f, x.at = "out" /\ f \notin M),
           NEW l \in 0..NdQueued, NEW fr, PutIn(d.frame, fr, f, x),
           NEW e, Reframed(d, e, s, l, o, fr, d.gateway)
    PROVE  NdBase(e, M) /\ Resolving(e)
<1>1. d \in NdStates /\ d.frame \in [NdFrames -> NdFrameRecs] /\ d.gateway \in BOOLEAN /\ NdPlaced(d, L)
  BY DEF NdBase, NdStates
<1>2. fr \in [NdFrames -> NdFrameRecs] /\ \A g \in NdFrames : fr[g] = IF g = f THEN x ELSE d.frame[g]
  BY <1>1 DEF PutIn
<1>3. e \in NdStates /\ e.cache = d.cache /\ e.slots = s /\ e.out = o /\ e.frame = fr /\ e.gateway = d.gateway
  BY <1>1, <1>2, ReframedIs
<1>4. NdPlaced(e, M)
  <2>1. ASSUME NEW g \in NdFrames
        PROVE  /\ InQueue(e.slots, g) <=> e.frame[g].at = "slot"
               /\ InQueue(e.out, g) <=> e.frame[g].at = "out" /\ g \notin M
               /\ e.frame[g].why = "resolve" => e.frame[g].at = "slot"
    <3>1. CASE g = f
      BY <1>2, <1>3, <3>1 DEF HasMoved, WaitsWell
    <3>2. CASE g # f
      BY <1>1, <1>2, <1>3, <3>2 DEF HasMoved, SameBut, NdPlaced
    <3> QED
      BY <3>1, <3>2
  <2> QED
    BY <1>3, <2>1 DEF NdPlaced
<1>5. Resolving(e)
  <2> SUFFICES ASSUME NEW g \in NdFrames, e.frame[g].why = "resolve"
               PROVE  /\ e.cache[e.frame[g].hop].state = "INCOMPLETE"
                      /\ e.frame[g].hop = pico_ipv6_route_get_gateway(e, e.frame[g].dst)
    BY DEF Resolving
  <2>1. CASE g = f
    BY <1>2, <1>3, <2>1 DEF WaitsWell, pico_ipv6_route_get_gateway
  <2>2. CASE g # f
    BY <1>2, <1>3, <2>2 DEF Resolving, pico_ipv6_route_get_gateway
  <2> QED
    BY <2>1, <2>2
<1> QED
  BY <1>3, <1>4, <1>5 DEF NdBase

(* The frame f was taken out of the queue.                                 *)
Loose(d, f) == f \in NdFrames /\ NdBase(d, {f}) /\ Resolving(d) /\ d.frame[f].at = "out"

LEMMA LooseIs ==
    ASSUME NEW d, NEW f, Loose(d, f)
    PROVE  /\ f \in NdFrames /\ d \in NdStates /\ d.frame[f] \in NdFrameRecs /\ d.frame[f].why # "resolve"
           /\ d.slots \in [NdSlots -> NdFrames \union {NoNdFrame}]
           /\ d.out \in Seq(NdFrames) /\ d.last \in 0..NdQueued /\ d.gateway \in BOOLEAN
           /\ d.frame \in [NdFrames -> NdFrameRecs]
           /\ NoneTwice(d.slots, NoNdFrame) /\ NoneTwice(d.out, NoNdFrame)
           /\ ~InQueue(d.slots, f) /\ ~InQueue(d.out, f)
BY DEF Loose, NdBase, NdStates, NdPlaced

(* It is sent.                                                             *)
LEMMA SentOK ==
    ASSUME NEW d, NEW f, Loose(d, f), NEW e, e = Moved(d, f, "sent")
    PROVE  NdOK(e) /\ e.cache = d.cache
<1> DEFINE x == Gone("sent")
           fr == [d.frame EXCEPT ![f] = x]
<1>1. x \in NdFrameRecs /\ x.at = "sent" /\ x.why = "none"
  BY GoneIs
<1>2. e = [d EXCEPT !.frame = fr]
  BY DEF Moved
<1> HIDE DEF x, fr
<1>3. Reframed(d, e, d.slots, d.last, d.out, fr, d.gateway)
  BY <1>2, LooseIs DEF Reframed, NdStates
<1>4. SameBut({f}, {}, f) /\ WaitsWell(d, x) /\ PutIn(d.frame, fr, f, x)
  BY <1>1 DEF SameBut, WaitsWell, PutIn, fr
<1>5. HasMoved(d.slots, d.slots, f, x.at = "slot") /\ HasMoved(d.out, d.out, f, x.at = "out" /\ f \notin {})
  BY <1>1, LooseIs DEF HasMoved
<1>6. NdBase(d, {f}) /\ Resolving(d)
  BY DEF Loose
<1>7. NdBase(e, {}) /\ Resolving(e)
  BY <1>1, <1>3, <1>4, <1>5, <1>6, LooseIs, NdMoveOK
<1> QED
  BY <1>3, <1>7 DEF NdOK, Reframed

(* It waits in a slot that is free.                                        *)
LEMMA TakeSlotOK ==
    ASSUME NEW d, NEW f, Loose(d, f), NEW i \in NdSlots, d.slots[i] = NoNdFrame,
           NEW x \in NdFrameRecs, x.at = "slot", WaitsWell(d, x),
           NEW s, PutIn(d.slots, s, i, f), NEW fr, PutIn(d.frame, fr, f, x),
           NEW e, Reframed(d, e, s, i, d.out, fr, d.gateway)
    PROVE  NdOK(e)
<1>1. /\ s \in [NdSlots -> NdFrames \union {NoNdFrame}] /\ NoneTwice(s, NoNdFrame)
      /\ \A g \in NdFrames : InQueue(s, g) <=> InQueue(d.slots, g) \/ g = f
  <2>1. NoNdFrame \notin NdFrames
    BY NdBounds
  <2> QED
    BY <2>1, LooseIs, PutOK
<1>2. HasMoved(d.slots, s, f, x.at = "slot") /\ HasMoved(d.out, d.out, f, x.at = "out" /\ f \notin {})
  BY <1>1, LooseIs DEF HasMoved
<1>3. i \in 0..NdQueued
  BY NdBounds DEF NdSlots
<1>4. SameBut({f}, {}, f) /\ NdBase(d, {f}) /\ Resolving(d)
  BY DEF SameBut, Loose
<1>5. NdBase(e, {}) /\ Resolving(e)
  BY <1>1, <1>2, <1>3, <1>4, LooseIs, NdMoveOK
<1> QED
  BY <1>5 DEF NdOK

(* The frame of a slot is discarded.                                       *)
LEMMA DisplaceOK ==
    ASSUME NEW d, NEW f, Loose(d, f), NEW i \in NdSlots, d.slots[i] # NoNdFrame,
           NEW s, PutIn(d.slots, s, i, NoNdFrame), NEW fr, PutIn(d.frame, fr, d.slots[i], Gone("discarded")),
           NEW e, Reframed(d, e, s, d.last, d.out, fr, d.gateway)
    PROVE  Loose(e, f) /\ e.frame[f] = d.frame[f] /\ e.cache = d.cache /\ e.slots = s /\ e.frame = fr
           /\ e.out = d.out /\ e.gateway = d.gateway
<1> DEFINE g == d.slots[i]
           x == Gone("discarded")
<1>1. g \in NdFrames /\ InQueue(d.slots, g) /\ g # f
  BY LooseIs DEF InQueue
<1>2. x \in NdFrameRecs /\ x.at = "discarded" /\ x.why = "none"
  BY GoneIs
<1>3. PutIn(d.frame, fr, g, x)
  OBVIOUS
<1>4. /\ DOMAIN d.slots = NdSlots /\ DOMAIN s = NdSlots /\ s \in [NdSlots -> NdFrames \union {NoNdFrame}]
      /\ \A j \in NdSlots : s[j] = IF j = i THEN NoNdFrame ELSE d.slots[j]
  BY LooseIs DEF PutIn
<1>5. NoneTwice(s, NoNdFrame)
  BY <1>4, LooseIs DEF NoneTwice
<1>6. HasMoved(d.slots, s, g, x.at = "slot")
  <2>1. \A h \in NdFrames : h # NoNdFrame
    BY NdBounds
  <2>2. \A j \in NdSlots : d.slots[j] = d.slots[i] => j = i
    BY <1>4, LooseIs DEF NoneTwice
  <2>3. ~InQueue(s, g)
    BY <1>1, <1>4, <2>1, <2>2 DEF InQueue
  <2>4. ASSUME NEW h \in NdFrames, h # g PROVE InQueue(s, h) <=> InQueue(d.slots, h)
    BY <1>4, <2>1, <2>4 DEF InQueue
  <2> QED
    BY <1>2, <2>3, <2>4 DEF HasMoved
<1>7. HasMoved(d.out, d.out, g, x.at = "out" /\ g \notin {f})
  <2>1. ~InQueue(d.out, g)
    BY <1>1 DEF Loose, NdBase, NdPlaced
  <2> QED
    BY <1>2, <2>1 DEF HasMoved
<1> HIDE DEF g, x
<1>8. SameBut({f}, {f}, g) /\ WaitsWell(d, x) /\ NdBase(d, {f}) /\ Resolving(d)
  BY <1>2 DEF SameBut, WaitsWell, Loose
<1>9. NdBase(e, {f}) /\ Resolving(e)
  BY <1>1, <1>2, <1>3, <1>4, <1>5, <1>6, <1>7, <1>8, LooseIs, NdMoveOK
<1>10. fr[f] = d.frame[f]
  BY <1>1, <1>3, LooseIs DEF PutIn
<1> QED
  BY <1>9, <1>10, LooseIs DEF Reframed, Loose

Reasons == {"resolve", "tentative", "nomem"}

LEMMA PostponedIs ==
    ASSUME NEW c \in NdStates, NEW f \in NdFrames, NEW i, NEW why, NEW hop,
           NEW e, e = [c EXCEPT !.slots[i] = f, !.last = i,
                               !.frame[f].at = "slot", !.frame[f].why = why, !.frame[f].hop = hop],
           NEW s, PutIn(c.slots, s, i, f),
           NEW x, x = [c.frame[f] EXCEPT !.at = "slot", !.why = why, !.hop = hop],
           NEW fr, PutIn(c.frame, fr, f, x)
    PROVE  Reframed(c, e, s, i, c.out, fr, c.gateway)
<1> DEFINE y == [c.frame[f] EXCEPT !.at = "slot"]
           z == [y EXCEPT !.why = why]
           w == [z EXCEPT !.hop = hop]
           fr1 == [c.frame EXCEPT ![f] = y]
           fr2 == [fr1 EXCEPT ![f] = z]
           fr3 == [fr2 EXCEPT ![f] = w]
           R(t, l, g) == [cache |-> c.cache, slots |-> t, last |-> l, out |-> c.out, frame |-> g,
                          gateway |-> c.gateway, tentative |-> c.tentative, timer |-> c.timer]
<1>1. c.frame \in [NdFrames -> NdFrameRecs]
  BY DEF NdStates
<1>2. w = x /\ fr1[f] = y /\ fr2[f] = z
  BY <1>1
<1>3. fr3 = fr
  BY <1>1, <1>2 DEF PutIn
<1>5. [c EXCEPT !.slots[i] = f, !.last = i] = R(s, i, c.frame)
  <2>1. s = [c.slots EXCEPT ![i] = f]
    BY DEF PutIn
  <2>2. [c EXCEPT !.slots[i] = f, !.last = i] = [[c EXCEPT !.slots = s] EXCEPT !.last = i]
    BY <2>1
  <2>3. [c EXCEPT !.slots = s] = R(s, c.last, c.frame)
    BY DEF NdStates
  <2>4. [R(s, c.last, c.frame) EXCEPT !.last = i] = R(s, i, c.frame)
    OBVIOUS
  <2> HIDE DEF R
  <2> QED
    BY <2>2, <2>3, <2>4, Zenon
<1> DEFINE b == R(s, i, c.frame)
           b1 == R(s, i, fr1)
           b2 == R(s, i, fr2)
           b3 == R(s, i, fr3)
<1>6. e = [[[b EXCEPT !.frame[f].at = "slot"] EXCEPT !.frame[f].why = why] EXCEPT !.frame[f].hop = hop]
  BY <1>5
<1>7. [b EXCEPT !.frame[f].at = "slot"] = b1
  OBVIOUS
<1>8. [b1 EXCEPT !.frame[f].why = why] = b2
  <2>1. fr2 = [fr1 EXCEPT ![f] = [fr1[f] EXCEPT !.why = why]]
    BY <1>2
  <2> HIDE DEF fr1, fr2, z
  <2> QED
    BY <2>1
<1>9. [b2 EXCEPT !.frame[f].hop = hop] = b3
  <2>1. fr3 = [fr2 EXCEPT ![f] = [fr2[f] EXCEPT !.hop = hop]]
    BY <1>2
  <2> HIDE DEF fr2, fr3, w
  <2> QED
    BY <2>1
<1> HIDE DEF b, b1, b2, b3
<1>10. e = b3
  BY <1>6, <1>7, <1>8, <1>9
<1> QED
  BY <1>3, <1>10 DEF Reframed, b3

LEMMA PostponeOK ==
    ASSUME NEW d, NEW f, Loose(d, f), NEW why \in Reasons, NEW hop \in NdAddrs,
           why = "resolve" => /\ d.cache[hop].state = "INCOMPLETE"
                              /\ hop = pico_ipv6_route_get_gateway(d, d.frame[f].dst),
           NEW e, e = pico_ipv6_nd_postpone(d, f, why, hop)
    PROVE  NdOK(e)
<1> DEFINE free == NdSlots \ NdIn(d)
           i == IF free # {} THEN CHOOSE i \in free : \A j \in free : i <= j
                ELSE (d.last % NdQueued) + 1
           c == IF free # {} THEN d ELSE Moved(d, d.slots[i], "discarded")
           x == [d.frame[f] EXCEPT !.at = "slot", !.why = why, !.hop = hop]
           s == [d.slots EXCEPT ![i] = f]
           fr == [c.frame EXCEPT ![f] = x]
<1>1. e = [c EXCEPT !.slots[i] = f, !.last = i,
                    !.frame[f].at = "slot", !.frame[f].why = why, !.frame[f].hop = hop]
  BY DEF pico_ipv6_nd_postpone
<1>2. x \in NdFrameRecs /\ x.at = "slot" /\ x.why = why /\ x.hop = hop /\ x.dst = d.frame[f].dst
  BY LooseIs DEF NdFrameRecs, Reasons
<1>3. WaitsWell(d, x)
  BY <1>2 DEF WaitsWell
<1>4. free \in SUBSET Nat /\ free \subseteq NdSlots
  BY NdBounds DEF NdSlots
<1>5. CASE free # {}
  <2>1. i \in free
    <3>1. \E k \in free : \A j \in free : k <= j
      BY <1>4, <1>5, SmallestNat
    <3> HIDE DEF free
    <3> QED
      BY <1>5, <3>1
  <2>2. i \in NdSlots /\ d.slots[i] = NoNdFrame
    BY <1>4, <2>1 DEF NdIn
  <2>3. c = d
    BY <1>5
  <2> HIDE DEF i, free, c
  <2>6. PutIn(d.slots, s, i, f) /\ PutIn(d.frame, fr, f, x)
    BY <2>3 DEF PutIn
  <2> HIDE DEF s, fr
  <2>7. Reframed(d, e, s, i, d.out, fr, d.gateway)
    BY <1>1, <2>3, <2>6, LooseIs, PostponedIs
  <2> HIDE DEF x
  <2> QED
    BY <1>2, <1>3, <2>2, <2>6, <2>7, TakeSlotOK
<1>6. CASE free = {}
  <2>1. i = (d.last % NdQueued) + 1
    BY <1>6
  <2>2. i \in NdSlots
    BY <2>1, NdBounds, LooseIs DEF NdSlots
  <2>3. d.slots[i] # NoNdFrame
    BY <1>6, <2>2 DEF NdIn
  <2>4. c = Moved(d, d.slots[i], "discarded")
    BY <1>6
  <2> HIDE DEF i, free, c
  <2> DEFINE g == d.slots[i]
             s1 == [d.slots EXCEPT ![i] = NoNdFrame]
             fr1 == [d.frame EXCEPT ![g] = Gone("discarded")]
             d1 == [cache |-> d.cache, slots |-> s1, last |-> d.last, out |-> d.out, frame |-> fr1,
                    gateway |-> d.gateway, tentative |-> d.tentative, timer |-> d.timer]
  <2>5. Reframed(d, d1, s1, d.last, d.out, fr1, d.gateway)
    BY DEF Reframed
  <2>6. PutIn(d.slots, s1, i, NoNdFrame) /\ PutIn(d.frame, fr1, d.slots[i], Gone("discarded"))
    BY DEF PutIn
  <2>7. d1.tentative = d.tentative /\ d1.timer = d.timer
    OBVIOUS
  <2>8. c = [cache |-> d.cache, slots |-> d.slots, last |-> d.last, out |-> d.out, frame |-> fr1,
             gateway |-> d.gateway, tentative |-> d.tentative, timer |-> d.timer]
    <3>1. c = [d EXCEPT !.frame = fr1]
      BY <2>4 DEF Moved
    <3> HIDE DEF fr1
    <3> QED
      BY <3>1, LooseIs DEF NdStates
  <2> HIDE DEF d1, s1, fr1
  <2>9. /\ Loose(d1, f) /\ d1.frame[f] = d.frame[f] /\ d1.cache = d.cache /\ d1.slots = s1 /\ d1.frame = fr1
        /\ d1.out = d.out /\ d1.gateway = d.gateway
    BY <2>2, <2>3, <2>5, <2>6, DisplaceOK
  <2>10. WaitsWell(d1, x)
    BY <1>3, <2>9 DEF WaitsWell, pico_ipv6_route_get_gateway
  <2>11. fr = [fr1 EXCEPT ![f] = x] /\ fr1[f] = d.frame[f] /\ fr1 \in [NdFrames -> NdFrameRecs]
    <3>1. c.frame = fr1
      BY <2>8
    <3>2. fr1 \in [NdFrames -> NdFrameRecs]
      BY <2>9, LooseIs
    <3> QED
      BY <2>9, <3>1, <3>2
  <2>12. PutIn(d1.frame, fr, f, x)
    BY <2>9, <2>11 DEF PutIn
  <2>13. PutIn(d1.slots, s, i, f)
    BY <2>2, <2>6, <2>9, LooseIs DEF PutIn
  <2>14. Reframed(c, e, s, i, c.out, fr, c.gateway)
    <3>1. c \in NdStates
      BY <2>8, <2>11, LooseIs DEF NdStates
    <3>2. x = [c.frame[f] EXCEPT !.at = "slot", !.why = why, !.hop = hop]
      BY <2>8, <2>11
    <3>3. PutIn(c.slots, s, i, f) /\ PutIn(c.frame, fr, f, x)
      BY <2>8 DEF PutIn
    <3> HIDE DEF x, s, fr
    <3> QED
      BY <1>1, <3>1, <3>2, <3>3, LooseIs, PostponedIs
  <2> HIDE DEF x, s, fr
  <2>15. Reframed(d1, e, s, i, d1.out, fr, d1.gateway)
    BY <2>7, <2>8, <2>9, <2>14 DEF Reframed
  <2>16. d1.slots[i] = NoNdFrame
    BY <2>2, <2>6, <2>9, LooseIs DEF PutIn
  <2> QED
    BY <1>2, <2>2, <2>9, <2>10, <2>12, <2>13, <2>15, <2>16, TakeSlotOK
<1> QED
  BY <1>5, <1>6

-----------------------------------------------------------------------------
(* The handlers.                                                           *)

LEMMA RouteIn ==
    ASSUME NEW d, NEW dst \in NdAddrs
    PROVE  pico_ipv6_route_get_gateway(d, dst) \in NdAddrs
BY NdBounds DEF pico_ipv6_route_get_gateway

LEMMA LooseTo ==
    ASSUME NEW d, NEW f, Loose(d, f), NEW a \in NdAddrs, NEW st,
           d.cache[a].state = "INCOMPLETE" => st = "INCOMPLETE", NEW e, To(d, e, a, st)
    PROVE  Loose(e, f) /\ e \in NdStates /\ e.cache[a] \in NbrRecs /\ e.cache[a].state = st
           /\ e.frame = d.frame /\ e.gateway = d.gateway
<1>1. NdBase(d, {f}) /\ Resolving(d)
  BY DEF Loose
<1>2. NdBase(e, {f}) /\ Resolving(e)
  BY <1>1, ToOK
<1>3. e \in NdStates /\ e.cache[a] \in NbrRecs /\ e.cache[a].state = st /\ e.frame = d.frame
      /\ e.gateway = d.gateway
  BY <1>1, ToBase
<1> QED
  BY <1>2, <1>3 DEF Loose

LEMMA UnconfirmedTo ==
    ASSUME NEW d, NdOK(d), NEW a \in NdAddrs, d.cache[a] \in NbrRecs, NEW e, e = Unconfirmed(d, a)
    PROVE  NdOK(e) /\ e.cache[a] \in NbrRecs
<1>1. d \in NdStates /\ NdBase(d, {}) /\ Resolving(d)
  BY DEF NdOK, NdBase
<1>2. CASE d.cache[a].state = "STALE"
  <2> DEFINE c == Enter(d, a, "DELAY")
  <2>1. To(d, c, a, "DELAY")
    BY <1>1, EnterTo DEF KnownStates
  <2> HIDE DEF c
  <2>2. NdBase(c, {}) /\ Resolving(c) /\ c \in NdStates /\ c.cache[a] \in NbrRecs
    BY <1>1, <1>2, <2>1, ToOK, ToBase
  <2>3. e = pico_nd_new_expire_time(c, a)
    BY <1>2 DEF Unconfirmed, Neighbour, c
  <2>4. To(c, e, a, c.cache[a].state)
    BY <2>2, <2>3, ExpireTo
  <2> QED
    BY <2>2, <2>4, ToOK, ToBase DEF NdOK
<1>3. CASE d.cache[a].state # "STALE"
  BY <1>3 DEF Unconfirmed, Neighbour
<1> QED
  BY <1>2, <1>3

LEMMA GetNeighborOK ==
    ASSUME NEW d, NEW f, Loose(d, f), NEW a, a = pico_ipv6_route_get_gateway(d, d.frame[f].dst),
           NEW ok \in BOOLEAN, NEW e, e = pico_nd_get_neighbor(d, f, a, ok)
    PROVE  NdOK(e)
<1>1. d \in NdStates /\ d.frame[f].dst \in NdAddrs /\ Remote \in NdAddrs
  BY LooseIs, NdBounds DEF NdFrameRecs
<1>2. a \in NdAddrs
  BY <1>1, RouteIn
<1>3. d.cache[a] \in NbrRecs \union {NoNeighbour}
  BY <1>1, <1>2 DEF NdStates
<1>4. CASE d.cache[a] = NoNeighbour /\ ~ok
  <2>1. e = pico_ipv6_nd_postpone(d, f, "nomem", Remote)
    BY <1>4, NoNbr DEF pico_nd_get_neighbor, Neighbour
  <2> QED
    BY <1>1, <2>1, PostponeOK DEF Reasons
<1>5. CASE d.cache[a] = NoNeighbour /\ ok
  <2> DEFINE b == pico_nd_add(d, a)
             c == pico_nd_discover(b, a)
  <2>1. To(d, b, a, "INCOMPLETE")
    BY <1>1, <1>2, AddTo
  <2>2. e = pico_ipv6_nd_postpone(c, f, "resolve", a)
    BY <1>5, NoNbr DEF pico_nd_get_neighbor, Neighbour
  <2> HIDE DEF b
  <2>3. Loose(b, f) /\ b \in NdStates /\ b.cache[a] \in NbrRecs /\ b.cache[a].state = "INCOMPLETE"
        /\ b.frame = d.frame /\ b.gateway = d.gateway
    BY <1>2, <2>1, LooseTo
  <2>4. To(b, c, a, "INCOMPLETE")
    BY <1>2, <2>3, DiscoverTo
  <2> HIDE DEF c
  <2>5. Loose(c, f) /\ c.cache[a].state = "INCOMPLETE" /\ c.frame = b.frame /\ c.gateway = b.gateway
    BY <1>2, <2>3, <2>4, LooseTo
  <2>6. a = pico_ipv6_route_get_gateway(c, c.frame[f].dst)
    BY <2>3, <2>5 DEF pico_ipv6_route_get_gateway
  <2> QED
    BY <1>2, <2>2, <2>5, <2>6, PostponeOK DEF Reasons
<1>6. CASE d.cache[a] \in NbrRecs /\ d.cache[a].state = "INCOMPLETE"
  <2>1. e = pico_ipv6_nd_postpone(d, f, "resolve", a)
    BY <1>6, NoNbr DEF pico_nd_get_neighbor, Neighbour
  <2> QED
    BY <1>2, <1>6, <2>1, PostponeOK DEF Reasons
<1>7. CASE d.cache[a] \in NbrRecs /\ d.cache[a].state = "REACHABLE"
  <2>1. e = Moved(d, f, "sent")
    BY <1>7, NoNbr DEF pico_nd_get_neighbor, Neighbour
  <2> QED
    BY <2>1, SentOK
<1>8. CASE d.cache[a] \in NbrRecs /\ d.cache[a].state \notin {"INCOMPLETE", "REACHABLE"}
  <2> DEFINE b == Moved(d, f, "sent")
             c == Unconfirmed(b, a)
  <2>1. e = pico_nd_discover(c, a)
    BY <1>8, NoNbr DEF pico_nd_get_neighbor, Neighbour
  <2>2. NdOK(b) /\ b.cache = d.cache
    BY SentOK
  <2> HIDE DEF b
  <2>3. NdOK(c) /\ c.cache[a] \in NbrRecs
    BY <1>2, <1>8, <2>2, UnconfirmedTo
  <2> HIDE DEF c
  <2>4. c \in NdStates /\ NdBase(c, {}) /\ Resolving(c)
    BY <2>3 DEF NdOK, NdBase
  <2>5. To(c, e, a, c.cache[a].state)
    BY <1>2, <2>1, <2>3, <2>4, DiscoverTo
  <2> QED
    BY <1>2, <2>4, <2>5, ToOK DEF NdOK
<1> QED
  BY <1>3, <1>4, <1>5, <1>6, <1>7, <1>8

LEMMA Ipv6NeighborOK ==
    ASSUME NEW d, NEW f, Loose(d, f), NEW ok \in BOOLEAN, NEW e, e = pico_ipv6_get_neighbor(d, f, ok)
    PROVE  NdOK(e)
<1>1. CASE d.tentative
  <2>1. e = pico_ipv6_nd_postpone(d, f, "tentative", Remote)
    BY <1>1 DEF pico_ipv6_get_neighbor
  <2> QED
    BY <2>1, NdBounds, PostponeOK DEF Reasons
<1>2. CASE ~d.tentative
  <2>1. e = pico_nd_get_neighbor(d, f, pico_ipv6_route_get_gateway(d, d.frame[f].dst), ok)
    BY <1>2 DEF pico_ipv6_get_neighbor
  <2> QED
    BY <2>1, GetNeighborOK
<1> QED
  BY <1>1, <1>2

(* The state st that ends, or keeps, the wait for a is followed by the     *)
(* trigger, which leaves nothing waiting.                                  *)
LEMMA ToTriggerOK ==
    ASSUME NEW d, NdOK(d), NEW a \in NdAddrs, NEW st, NEW c, To(d, c, a, st),
           NEW e, e = pico_ipv6_nd_queued_trigger(c)
    PROVE  NdOK(e) /\ e \in NdStates /\ e.cache[a] \in NbrRecs
<1>1. NdBase(d, {})
  BY DEF NdOK
<1>2. NdBase(c, {}) /\ c.cache[a] \in NbrRecs
  BY <1>1, ToBase
<1>3. NdOK(e) /\ e.cache = c.cache
  BY <1>2, NdTriggerOK
<1> QED
  BY <1>2, <1>3 DEF NdOK, NdBase

LEMMA ToToo ==
    ASSUME NEW d, NdOK(d), NEW a \in NdAddrs, d.cache[a] \in NbrRecs, NEW st,
           d.cache[a].state = "INCOMPLETE" => st = "INCOMPLETE", NEW e, To(d, e, a, st)
    PROVE  NdOK(e) /\ e \in NdStates /\ e.cache[a] \in NbrRecs /\ e.cache[a].state = st
<1>1. NdBase(d, {}) /\ Resolving(d)
  BY DEF NdOK
<1> QED
  BY <1>1, ToBase, ToOK DEF NdOK

LEMMA ExpireOK ==
    ASSUME NEW d, NdOK(d), NEW a \in NdAddrs, d.cache[a] \in NbrRecs,
           NEW e, e = pico_nd_new_expire_time(d, a)
    PROVE  NdOK(e) /\ e \in NdStates /\ e.cache[a] \in NbrRecs
<1>1. d \in NdStates
  BY DEF NdOK, NdBase
<1>2. To(d, e, a, d.cache[a].state)
  BY <1>1, ExpireTo
<1> QED
  BY <1>2, ToToo

LEMMA UpdateOK ==
    ASSUME NEW d, NdOK(d), NEW a \in NdAddrs, d.cache[a] \in NbrRecs, NEW hw \in NdHws,
           NEW e, e = pico_ipv6_neighbor_update(d, a, hw)
    PROVE  NdOK(e) /\ e \in NdStates /\ e.cache[a] \in NbrRecs
<1>1. d \in NdStates
  BY DEF NdOK, NdBase
<1>2. To(d, e, a, d.cache[a].state)
  BY <1>1, UpdateTo
<1> QED
  BY <1>2, ToToo

LEMMA StaleTriggerOK ==
    ASSUME NEW d, NdOK(d), NEW a \in NdAddrs, d.cache[a] \in NbrRecs,
           NEW e, e = pico_ipv6_nd_queued_trigger(Enter(d, a, "STALE"))
    PROVE  NdOK(e) /\ e \in NdStates /\ e.cache[a] \in NbrRecs
<1> DEFINE c == Enter(d, a, "STALE")
<1>1. d \in NdStates
  BY DEF NdOK, NdBase
<1>2. To(d, c, a, "STALE")
  BY <1>1, EnterTo DEF KnownStates
<1>3. e = pico_ipv6_nd_queued_trigger(c)
  OBVIOUS
<1> HIDE DEF c
<1> QED
  BY <1>2, <1>3, ToTriggerOK

LEMMA ConfirmOK ==
    ASSUME NEW d, NdOK(d), NEW a \in NdAddrs, d.cache[a] \in NbrRecs, NEW e, e = Confirm(d, a)
    PROVE  NdOK(e)
<1> DEFINE c == [d EXCEPT !.cache[a].state = "REACHABLE", !.cache[a].failure_count = 0]
           b == pico_ipv6_nd_queued_trigger(c)
<1>1. d \in NdStates
  BY DEF NdOK, NdBase
<1>2. To(d, c, a, "REACHABLE")
  BY <1>1, ReachTo
<1>3. e = pico_nd_new_expire_time(b, a)
  BY DEF Confirm
<1> HIDE DEF c
<1>4. NdOK(b) /\ b.cache[a] \in NbrRecs
  BY <1>2, ToTriggerOK
<1> HIDE DEF b
<1> QED
  BY <1>3, <1>4, ExpireOK

(* What waited for a gateway no longer counts as resolving.                *)
LEMMA RerouteOK ==
    ASSUME NEW d, NdOK(d), NEW there \in BOOLEAN, NEW e, e = Reroute(d, there)
    PROVE  NdOK(e) /\ e.cache = d.cache
<1> DEFINE Off(f) == d.frame[f].at = "slot" /\ d.frame[f].dst = Remote
           new(f) == [d.frame[f] EXCEPT !.why = "rerouted", !.hop = Remote]
           fr == [f \in NdFrames |-> IF Off(f) THEN new(f) ELSE d.frame[f]]
<1>1. /\ d \in NdStates /\ d.slots \in [NdSlots -> NdFrames \union {NoNdFrame}]
      /\ d.out \in Seq(NdFrames) /\ d.last \in 0..NdQueued
      /\ d.frame \in [NdFrames -> NdFrameRecs] /\ NdPlaced(d, {}) /\ Resolving(d)
  BY DEF NdOK, NdBase, NdStates
<1>2. CASE d.gateway = there
  BY <1>2 DEF Reroute
<1>3. CASE d.gateway # there
  <2>1. e = [d EXCEPT !.gateway = there, !.frame = fr]
    BY <1>3 DEF Reroute
  <2>2. \A f \in NdFrames : /\ new(f) \in NdFrameRecs /\ new(f).at = d.frame[f].at
                            /\ new(f).why = "rerouted"
    <3> SUFFICES ASSUME NEW f \in NdFrames
                 PROVE  new(f) \in NdFrameRecs /\ new(f).at = d.frame[f].at /\ new(f).why = "rerouted"
      OBVIOUS
    <3>1. d.frame[f] \in NdFrameRecs
      BY <1>1
    <3> QED
      BY <3>1, NdBounds DEF NdFrameRecs
  <2> HIDE DEF new
  <2>3. fr \in [NdFrames -> NdFrameRecs]
        /\ \A f \in NdFrames : fr[f] = IF Off(f) THEN new(f) ELSE d.frame[f]
    BY <1>1, <2>2
  <2> HIDE DEF fr
  <2>4. Reframed(d, e, d.slots, d.last, d.out, fr, there)
    BY <1>1, <2>1 DEF Reframed, NdStates
  <2>5. e \in NdStates /\ e.cache = d.cache /\ e.slots = d.slots /\ e.out = d.out /\ e.frame = fr
        /\ e.gateway = there
    BY <1>1, <2>3, <2>4, ReframedIs
  <2>6. \A f \in NdFrames : /\ fr[f].at = d.frame[f].at
                            /\ fr[f].why = "resolve" => fr[f] = d.frame[f] /\ ~Off(f)
    BY <2>2, <2>3
  <2>7. NdPlaced(e, {})
    BY <1>1, <2>5, <2>6 DEF NdPlaced
  <2>8. Resolving(e)
    <3> SUFFICES ASSUME NEW f \in NdFrames, e.frame[f].why = "resolve"
                 PROVE  /\ e.cache[e.frame[f].hop].state = "INCOMPLETE"
                        /\ e.frame[f].hop = pico_ipv6_route_get_gateway(e, e.frame[f].dst)
      BY DEF Resolving
    <3>1. e.frame[f] = d.frame[f] /\ ~Off(f)
      BY <2>5, <2>6
    <3>2. d.frame[f].at = "slot"
      BY <1>1, <3>1 DEF NdPlaced
    <3>3. d.frame[f].dst # Remote
      BY <3>1, <3>2
    <3> QED
      BY <1>1, <2>5, <3>1, <3>3 DEF Resolving, pico_ipv6_route_get_gateway
  <2> QED
    BY <2>5, <2>7, <2>8 DEF NdOK, NdBase
<1> QED
  BY <1>2, <1>3

LEMMA RouterOptionOK ==
    ASSUME NEW d, NdOK(d), NEW a \in NdAddrs, d.cache[a] \in NbrRecs, NEW router \in BOOLEAN,
           NEW e, e = neigh_adv_reconfirm_router_option(d, a, router)
    PROVE  NdOK(e) /\ e.cache[a] \in NbrRecs /\ e.cache[a].state = d.cache[a].state
<1> DEFINE c == IF ~router /\ Neighbour(d, a).is_router /\ a = Gateway THEN Reroute(d, FALSE) ELSE d
<1>1. e = [c EXCEPT !.cache[a].is_router = router]
  BY DEF neigh_adv_reconfirm_router_option
<1>2. NdOK(c) /\ c.cache = d.cache
  BY RerouteOK
<1> HIDE DEF c
<1>3. c \in NdStates
  BY <1>2 DEF NdOK, NdBase
<1>4. To(c, e, a, c.cache[a].state)
  BY <1>1, <1>2, <1>3, RouterTo
<1> QED
  BY <1>2, <1>4, ToToo

LEMMA EnterStaleOK ==
    ASSUME NEW d, NdOK(d), NEW a \in NdAddrs, d.cache[a] \in NbrRecs, d.cache[a].state # "INCOMPLETE",
           NEW st \in KnownStates, NEW e, e = Enter(d, a, st)
    PROVE  NdOK(e) /\ e.cache[a] \in NbrRecs
<1>1. d \in NdStates
  BY DEF NdOK, NdBase
<1>2. To(d, e, a, st)
  BY <1>1, EnterTo
<1> QED
  BY <1>2, ToToo

LEMMA ReconfirmOK ==
    ASSUME NEW d, NdOK(d), NEW a \in NdAddrs, d.cache[a] \in NbrRecs, d.cache[a].state # "INCOMPLETE",
           NEW solicited \in BOOLEAN, NEW override \in BOOLEAN, NEW opt \in NdHws,
           NEW e, e = neigh_adv_reconfirm(d, a, solicited, override, opt)
    PROVE  NdOK(e)
<1> DEFINE up == pico_ipv6_neighbor_update(d, a, opt)
           stale == Enter(d, a, "STALE")
           woken == pico_ipv6_nd_queued_trigger(Enter(up, a, "STALE"))
<1>1. NdOK(up) /\ up.cache[a] \in NbrRecs
  BY UpdateOK
<1>2. d.cache[a].state = "REACHABLE" => NdOK(stale) /\ stale.cache[a] \in NbrRecs
  BY EnterStaleOK DEF KnownStates
<1>3. NdOK(woken) /\ woken.cache[a] \in NbrRecs
  <2> HIDE DEF up
  <2> QED
    BY <1>1, StaleTriggerOK
<1>4. NdOK(Confirm(d, a))
  BY ConfirmOK
<1>5. NdOK(Confirm(up, a))
  <2> HIDE DEF up
  <2> QED
    BY <1>1, ConfirmOK
<1>6. NdOK(pico_nd_new_expire_time(woken, a))
  <2> HIDE DEF woken
  <2> QED
    BY <1>3, ExpireOK
<1>7. d.cache[a].state = "REACHABLE" => NdOK(pico_nd_new_expire_time(stale, a))
  <2> HIDE DEF stale
  <2> QED
    BY <1>2, ExpireOK
<1>8. \/ e = d \/ e = Confirm(d, a) \/ e = Confirm(up, a) \/ e = pico_nd_new_expire_time(woken, a)
      \/ d.cache[a].state = "REACHABLE" /\ e \in {stale, pico_nd_new_expire_time(stale, a)}
  BY DEF neigh_adv_reconfirm, Neighbour
<1> HIDE DEF up, stale, woken
<1> QED
  BY <1>2, <1>4, <1>5, <1>6, <1>7, <1>8

LEMMA IncompleteOK ==
    ASSUME NEW d, NdOK(d), NEW a \in NdAddrs, d.cache[a] \in NbrRecs,
           NEW solicited \in BOOLEAN, NEW opt \in NdHws,
           NEW e, e = neigh_adv_process_incomplete(d, a, solicited, opt)
    PROVE  NdOK(e)
<1> DEFINE up == pico_ipv6_neighbor_update(d, a, opt)
<1>1. NdOK(up) /\ up.cache[a] \in NbrRecs
  BY UpdateOK
<1>2. e = IF solicited THEN Confirm(up, a) ELSE pico_ipv6_nd_queued_trigger(Enter(up, a, "STALE"))
  BY DEF neigh_adv_process_incomplete
<1> HIDE DEF up
<1> QED
  BY <1>1, <1>2, ConfirmOK, StaleTriggerOK

LEMMA AdvertisementOK ==
    ASSUME NEW d, NdOK(d), NEW a \in NdAddrs, d.cache[a] \in NbrRecs, NEW solicited \in BOOLEAN,
           NEW override \in BOOLEAN, NEW router \in BOOLEAN, NEW opt \in NdHws \union {"none"},
           NEW e, e = neigh_adv_process(d, a, solicited, override, router, opt)
    PROVE  NdOK(e)
<1> DEFINE c == IF opt = "none" \/ override \/ opt = Neighbour(d, a).hw
                THEN neigh_adv_reconfirm_router_option(d, a, router) ELSE d
<1>1. NdOK(c) /\ c.cache[a] \in NbrRecs /\ c.cache[a].state = d.cache[a].state
  BY RouterOptionOK
<1>2. e = IF opt = "none" THEN neigh_adv_reconfirm_no_tlla(c, a, solicited)
          ELSE IF d.cache[a].state = "INCOMPLETE" THEN neigh_adv_process_incomplete(c, a, solicited, opt)
          ELSE neigh_adv_reconfirm(c, a, solicited, override, opt)
  BY DEF neigh_adv_process, Neighbour
<1> HIDE DEF c
<1>3. CASE opt = "none"
  BY <1>1, <1>2, <1>3, ConfirmOK DEF neigh_adv_reconfirm_no_tlla
<1>4. CASE opt # "none" /\ d.cache[a].state = "INCOMPLETE"
  BY <1>1, <1>2, <1>4, IncompleteOK
<1>5. CASE opt # "none" /\ d.cache[a].state # "INCOMPLETE"
  BY <1>1, <1>2, <1>5, ReconfirmOK
<1> QED
  BY <1>3, <1>4, <1>5

LEMMA UnsolicitedOK ==
    ASSUME NEW d, NdOK(d), NEW a \in NdAddrs, NEW hw \in NdHws,
           NEW e, e = pico_ipv6_neighbor_from_unsolicited(d, a, hw)
    PROVE  NdOK(e)
<1>1. d \in NdStates /\ d.cache[a] \in NbrRecs \union {NoNeighbour}
  BY DEF NdOK, NdBase, NdStates
<1>2. CASE d.cache[a] = NoNeighbour
  <2> DEFINE b == pico_nd_add(d, a)
             c == pico_ipv6_neighbor_update(b, a, hw)
  <2>1. To(d, b, a, "INCOMPLETE")
    BY <1>1, AddTo
  <2>2. e = pico_ipv6_nd_queued_trigger(Enter(c, a, "STALE"))
    BY <1>2 DEF pico_ipv6_neighbor_from_unsolicited, Neighbour
  <2> HIDE DEF b
  <2>3. NdOK(b) /\ b.cache[a] \in NbrRecs
    <3>1. NdBase(d, {}) /\ Resolving(d)
      BY DEF NdOK
    <3> QED
      BY <2>1, <3>1, ToBase, ToOK DEF NdOK
  <2>4. NdOK(c) /\ c.cache[a] \in NbrRecs
    BY <2>3, UpdateOK
  <2> HIDE DEF c
  <2> QED
    BY <2>2, <2>4, StaleTriggerOK
<1>3. CASE d.cache[a] \in NbrRecs
  <2> DEFINE c == pico_ipv6_neighbor_update(d, a, hw)
             b == pico_ipv6_nd_queued_trigger(Enter(c, a, "STALE"))
  <2>1. e = IF d.cache[a].hw = hw THEN d ELSE pico_nd_new_expire_time(b, a)
    BY <1>3, NoNbr DEF pico_ipv6_neighbor_from_unsolicited, Neighbour
  <2>2. NdOK(c) /\ c.cache[a] \in NbrRecs
    BY <1>3, UpdateOK
  <2> HIDE DEF c
  <2>3. NdOK(b) /\ b.cache[a] \in NbrRecs
    BY <2>2, StaleTriggerOK
  <2> HIDE DEF b
  <2> QED
    BY <2>1, <2>3, ExpireOK
<1> QED
  BY <1>1, <1>2, <1>3

-----------------------------------------------------------------------------
(* The timer.                                                              *)

LEMMA TimerElapsedOK ==
    ASSUME NEW d, NdOK(d), NEW a \in NdAddrs, NEW e, e = pico_ipv6_nd_timer_elapsed(d, a)
    PROVE  NdOK(e)
<1>1. d \in NdStates /\ d.cache[a] \in NbrRecs \union {NoNeighbour} /\ NdBase(d, {}) /\ Resolving(d)
  BY DEF NdOK, NdBase, NdStates
<1>2. CASE d.cache[a] = NoNeighbour
  BY <1>2, NoNbr DEF pico_ipv6_nd_timer_elapsed, Neighbour
<1>3. CASE d.cache[a] \in NbrRecs
  <2> DEFINE n == d.cache[a]
  <2>1. CASE n.state \in {"INCOMPLETE", "PROBE"} /\ n.failure_count > MaxSolicit
    <3> DEFINE c == pico_ipv6_nd_unreachable(d, a)
    <3>1. e = Set(c, a, NoNeighbour)
      BY <2>1 DEF pico_ipv6_nd_timer_elapsed, Neighbour
    <3>2. NdOK(c) /\ \A f \in NdFrames : c.frame[f].why = "resolve" => c.frame[f].hop # a
      BY UnreachableOK
    <3> HIDE DEF c
    <3>3. NdBase(c, {}) /\ c \in NdStates /\ Resolving(c)
      BY <3>2 DEF NdOK, NdBase
    <3>4. Recached(c, e, a, NoNeighbour) /\ Entry(NoNeighbour)
      BY <3>1, <3>3, SetIs DEF Entry
    <3>5. /\ NdBase(e, {}) /\ e.frame = c.frame /\ e.gateway = c.gateway
          /\ \A b \in NdAddrs : b # a => e.cache[b] = c.cache[b]
      BY <3>3, <3>4, RecachedIs
    <3>6. \A f \in NdFrames : c.frame[f].hop \in NdAddrs
      BY <3>3 DEF NdStates, NdFrameRecs
    <3>7. Resolving(e)
      BY <3>2, <3>3, <3>5, <3>6 DEF Resolving, pico_ipv6_route_get_gateway
    <3> QED
      BY <3>5, <3>7 DEF NdOK
  <2>2. CASE n.state \in {"INCOMPLETE", "PROBE"} /\ ~(n.failure_count > MaxSolicit)
    <3> DEFINE b == [d EXCEPT !.cache[a].expire = FALSE]
               c == pico_nd_discover(b, a)
    <3>1. e = pico_nd_new_expire_time(c, a)
      BY <2>2 DEF pico_ipv6_nd_timer_elapsed, Neighbour
    <3>2. To(d, b, a, d.cache[a].state)
      BY <1>1, <1>3, DueTo
    <3> HIDE DEF b
    <3>3. NdOK(b) /\ b \in NdStates /\ b.cache[a] \in NbrRecs
      BY <1>3, <3>2, ToToo
    <3>4. To(b, c, a, b.cache[a].state)
      BY <3>3, DiscoverTo
    <3> HIDE DEF c
    <3>5. NdOK(c) /\ c.cache[a] \in NbrRecs
      BY <3>3, <3>4, ToToo
    <3> QED
      BY <3>1, <3>5, ExpireOK
  <2>3. CASE n.state = "REACHABLE"
    <3>1. e = Enter(d, a, "STALE")
      BY <2>3 DEF pico_ipv6_nd_timer_elapsed, Neighbour
    <3> QED
      BY <1>3, <2>3, <3>1, EnterStaleOK DEF KnownStates
  <2>4. CASE n.state = "DELAY"
    <3> DEFINE c == Enter(d, a, "PROBE")
    <3>1. e = pico_nd_new_expire_time(c, a)
      BY <2>4 DEF pico_ipv6_nd_timer_elapsed, Neighbour
    <3>2. NdOK(c) /\ c.cache[a] \in NbrRecs
      BY <1>3, <2>4, EnterStaleOK DEF KnownStates
    <3> HIDE DEF c
    <3> QED
      BY <3>1, <3>2, ExpireOK
  <2>5. CASE n.state = "STALE"
    <3>1. e = pico_nd_new_expire_time(d, a)
      BY <2>5 DEF pico_ipv6_nd_timer_elapsed, Neighbour
    <3> QED
      BY <1>3, <3>1, ExpireOK
  <2>6. n.state \in {"INCOMPLETE", "PROBE", "REACHABLE", "DELAY", "STALE"}
    BY <1>3 DEF NbrRecs, KnownStates
  <2> QED
    BY <2>1, <2>2, <2>3, <2>4, <2>5, <2>6
<1> QED
  BY <1>1, <1>2, <1>3

(* The callback takes every entry, in some order.                          *)
LEMMA OrderIs == NdSize \in Nat /\ NdOrder \in [1..NdSize -> NdAddrs]
<1>1. IsFiniteSet(NdAddrs)
  BY NdAssumption, FS_AddElement DEF NdAddrs
<1>2. NdSize \in Nat /\ ExistsBijection(1..NdSize, NdAddrs)
  BY <1>1, FS_CardinalityType DEF NdSize
<1>3. PICK order \in Bijection(1..NdSize, NdAddrs) : TRUE
  BY <1>2 DEF ExistsBijection
<1>4. order \in [1..NdSize -> NdAddrs] /\ \A a \in NdAddrs : \E i \in 1..NdSize : order[i] = a
  BY <1>3 DEF Bijection, Injection, Surjection
<1>5. NdOrder \in [1..NdSize -> NdAddrs]
  BY <1>4 DEF NdOrder
<1> QED
  BY <1>2, <1>5

ElapsedStep(d, g, i) ==
    IF i = 0 THEN d ELSE pico_ipv6_nd_timer_elapsed(g[i - 1], NdOrder[i])
ElapsedTo(d, m, g) == g = [i \in 0..m |-> ElapsedStep(d, g, i)]

LEMMA ElapsedExists ==
    ASSUME NEW d, NEW n \in Nat
    PROVE  \E g : ElapsedTo(d, n, g)
<1> DEFINE Bad == {m \in Nat : ~ \E g : ElapsedTo(d, m, g)}
<1> SUFFICES ASSUME Bad # {} PROVE FALSE
  OBVIOUS
<1>1. PICK m \in Bad : \A y \in Bad : m <= y
  BY SmallestNat
<1>2. CASE m = 0
  <2> DEFINE g == [i \in 0..0 |-> d]
  <2>1. ElapsedTo(d, 0, g)
    BY DEF ElapsedTo, ElapsedStep
  <2> QED
    BY <1>1, <1>2, <2>1
<1>3. CASE m # 0
  <2>1. m - 1 \in Nat /\ m - 1 \notin Bad
    BY <1>1, <1>3
  <2>2. PICK g : ElapsedTo(d, m - 1, g)
    BY <2>1
  <2> DEFINE f == [i \in 0..m |-> ElapsedStep(d, g, i)]
  <2>3. ASSUME NEW i \in 0..m PROVE ElapsedStep(d, g, i) = ElapsedStep(d, f, i)
    <3>1. CASE i # 0
      <4>1. i - 1 \in 0..(m - 1) /\ i - 1 \in 0..m
        BY <3>1
      <4>2. g[i - 1] = ElapsedStep(d, g, i - 1)
        BY <2>2, <4>1 DEF ElapsedTo
      <4>3. f[i - 1] = g[i - 1]
        BY <4>1, <4>2
      <4> QED
        BY <3>1, <4>3 DEF ElapsedStep
    <3>2. CASE i = 0
      BY <3>2 DEF ElapsedStep
    <3> QED
      BY <3>1, <3>2
  <2>4. ElapsedTo(d, m, f)
    BY <2>3 DEF ElapsedTo
  <2> QED
    BY <1>1, <2>4
<1> QED
  BY <1>2, <1>3

LEMMA ElapsedOK ==
    ASSUME NEW d, NdOK(d)
    PROVE  NdOK(NdElapsed(d)[NdSize])
<1> DEFINE g == NdElapsed(d)
           Bad == {i \in Nat : i \in 0..NdSize /\ ~NdOK(g[i])}
<1>1. NdElapsed(d) = CHOOSE h : ElapsedTo(d, NdSize, h)
  BY DEF NdElapsed, ElapsedTo, ElapsedStep
<1>2. ElapsedTo(d, NdSize, g)
  BY <1>1, OrderIs, ElapsedExists
<1> HIDE DEF g
<1>3. \A i \in 0..NdSize : g[i] = ElapsedStep(d, g, i)
  BY <1>2 DEF ElapsedTo
<1> SUFFICES ASSUME Bad # {} PROVE FALSE
  BY OrderIs DEF g
<1>4. PICK i \in Bad : \A y \in Bad : i <= y
  BY SmallestNat
<1>5. i # 0
  <2>1. g[0] = d
    BY <1>3, OrderIs DEF ElapsedStep
  <2> QED
    BY <2>1
<1>6. i \in 1..NdSize /\ i - 1 \in 0..NdSize /\ i - 1 \notin Bad
  BY <1>4, <1>5, OrderIs
<1>7. NdOK(g[i - 1])
  BY <1>6
<1>8. g[i] = pico_ipv6_nd_timer_elapsed(g[i - 1], NdOrder[i])
  BY <1>3, <1>5, <1>6 DEF ElapsedStep
<1>9. NdOrder[i] \in NdAddrs
  BY <1>6, OrderIs
<1>10. NdOK(g[i])
  BY <1>7, <1>8, <1>9, TimerElapsedOK
<1> QED
  BY <1>10

LEMMA SettingOK ==
    ASSUME NEW d, NdOK(d), NEW b \in BOOLEAN
    PROVE  NdOK([d EXCEPT !.timer = b]) /\ NdOK([d EXCEPT !.tentative = b])
<1> DEFINE e == [cache |-> d.cache, slots |-> d.slots, last |-> d.last, out |-> d.out, frame |-> d.frame,
                 gateway |-> d.gateway, tentative |-> d.tentative, timer |-> b]
           c == [cache |-> d.cache, slots |-> d.slots, last |-> d.last, out |-> d.out, frame |-> d.frame,
                 gateway |-> d.gateway, tentative |-> b, timer |-> d.timer]
<1>1. d \in NdStates
  BY DEF NdOK, NdBase
<1>2. [d EXCEPT !.timer = b] = e /\ [d EXCEPT !.tentative = b] = c
  BY <1>1 DEF NdStates
<1>3. e \in NdStates /\ c \in NdStates
  BY <1>1 DEF NdStates
<1>4. e.slots = d.slots /\ e.out = d.out /\ e.frame = d.frame /\ e.cache = d.cache /\ e.gateway = d.gateway
  OBVIOUS
<1>5. c.slots = d.slots /\ c.out = d.out /\ c.frame = d.frame /\ c.cache = d.cache /\ c.gateway = d.gateway
  OBVIOUS
<1> HIDE DEF e, c
<1>6. NdOK(e) /\ NdOK(c)
  BY <1>3, <1>4, <1>5 DEF NdOK, NdBase, NdPlaced, Resolving, pico_ipv6_route_get_gateway
<1> QED
  BY <1>2, <1>6

-----------------------------------------------------------------------------
(* Frames come and go.                                                     *)

Born(d, e, f, dst) ==
    e = [d EXCEPT !.frame[f].at = "out", !.frame[f].dst = dst, !.out = Append(@, f)]
Taken(d, e) == e = [d EXCEPT !.out = Tail(@)]

LEMMA NdSendOK ==
    ASSUME NEW d, NdOK(d), NEW f \in NdFrames, NEW dst \in NdAddrs, d.frame[f].at = "unborn",
           NEW e, Born(d, e, f, dst)
    PROVE  NdOK(e)
<1> DEFINE x == [d.frame[f] EXCEPT !.at = "out", !.dst = dst]
           y == [d.frame[f] EXCEPT !.at = "out"]
           fr == [d.frame EXCEPT ![f] = x]
           fr1 == [d.frame EXCEPT ![f] = y]
           o == Append(d.out, f)
<1>1. /\ d \in NdStates /\ NdBase(d, {}) /\ Resolving(d) /\ d.frame \in [NdFrames -> NdFrameRecs]
      /\ d.slots \in [NdSlots -> NdFrames \union {NoNdFrame}] /\ d.out \in Seq(NdFrames)
      /\ d.last \in 0..NdQueued /\ NdPlaced(d, {})
  BY DEF NdOK, NdBase, NdStates
<1>2. d.frame[f] \in NdFrameRecs /\ d.frame[f].why # "resolve" /\ ~InQueue(d.slots, f) /\ ~InQueue(d.out, f)
      /\ NoneTwice(d.slots, NoNdFrame) /\ NoneTwice(d.out, NoNdFrame)
  BY <1>1 DEF NdPlaced
<1>3. x \in NdFrameRecs /\ x.at = "out" /\ x.why = d.frame[f].why /\ x = [y EXCEPT !.dst = dst]
  BY <1>2 DEF NdFrameRecs
<1>4. fr = [fr1 EXCEPT ![f] = [fr1[f] EXCEPT !.dst = dst]]
  BY <1>1, <1>3
<1>5. [d EXCEPT !.frame[f].at = "out"] = [d EXCEPT !.frame = fr1]
  OBVIOUS
<1>6. [d EXCEPT !.frame[f].at = "out", !.frame[f].dst = dst] = [d EXCEPT !.frame = fr]
  <2> HIDE DEF fr1, fr
  <2>1. [d EXCEPT !.frame = fr1].frame = fr1
    BY <1>1 DEF NdStates
  <2>2. [[d EXCEPT !.frame = fr1] EXCEPT !.frame[f].dst = dst] = [d EXCEPT !.frame = fr]
    BY <1>1, <1>4, <2>1 DEF NdStates
  <2> QED
    BY <1>5, <2>2
<1>7. e = [[d EXCEPT !.frame = fr] EXCEPT !.out = o]
  <2>1. d.out = [d EXCEPT !.frame = fr].out
    BY <1>1 DEF NdStates
  <2>2. e = [[d EXCEPT !.frame[f].at = "out", !.frame[f].dst = dst] EXCEPT !.out = Append(@, f)]
    BY DEF Born
  <2> HIDE DEF fr
  <2> QED
    BY <1>6, <2>1, <2>2
<1>8. o \in Seq(NdFrames) /\ NoneTwice(o, NoNdFrame)
      /\ \A g \in NdFrames : InQueue(o, g) <=> InQueue(d.out, g) \/ g = f
  <2> DEFINE q == d.out
  <2>1. q \in Seq(NdFrames) /\ NoneTwice(q, NoNdFrame) /\ ~InQueue(q, f) /\ o = Append(q, f)
    BY <1>1, <1>2
  <2> HIDE DEF q, o
  <2>2. o \in Seq(NdFrames) /\ NoneTwice(o, NoNdFrame)
        /\ \A g \in NdFrames : InQueue(o, g) <=> InQueue(q, g) \/ g = f
    BY <2>1, AppendOK
  <2> QED
    BY <2>2 DEF q
<1>9. PutIn(d.frame, fr, f, x)
  BY DEF PutIn
<1> HIDE DEF x, y, fr, fr1, o
<1>10. Reframed(d, e, d.slots, d.last, o, fr, d.gateway)
  BY <1>1, <1>7 DEF NdStates, Reframed
<1>11. HasMoved(d.slots, d.slots, f, x.at = "slot") /\ HasMoved(d.out, o, f, x.at = "out" /\ f \notin {})
  BY <1>2, <1>3, <1>8 DEF HasMoved
<1>12. SameBut({}, {}, f) /\ WaitsWell(d, x)
  BY <1>2, <1>3 DEF SameBut, WaitsWell
<1>13. NdBase(e, {}) /\ Resolving(e)
  <2>1. NdBase(d, {}) /\ Resolving(d)
    BY <1>1
  <2>2. d.slots \in [NdSlots -> NdFrames \union {NoNdFrame}] /\ NoneTwice(d.slots, NoNdFrame)
        /\ d.last \in 0..NdQueued
    BY <1>1, <1>2
  <2>3. x \in NdFrameRecs /\ o \in Seq(NdFrames) /\ NoneTwice(o, NoNdFrame)
    BY <1>3, <1>8
  <2> QED
    BY <1>9, <1>10, <1>11, <1>12, <2>1, <2>2, <2>3, NdMoveOK
<1> QED
  BY <1>13 DEF NdOK

LEMMA NdTakeOK ==
    ASSUME NEW d, NdOK(d), d.out # <<>>, NEW e, Taken(d, e)
    PROVE  Loose(e, Head(d.out))
<1> DEFINE f == Head(d.out)
           o == Tail(d.out)
<1>1. /\ d \in NdStates /\ Resolving(d) /\ d.frame \in [NdFrames -> NdFrameRecs]
      /\ d.slots \in [NdSlots -> NdFrames \union {NoNdFrame}] /\ d.out \in Seq(NdFrames)
      /\ d.last \in 0..NdQueued /\ d.gateway \in BOOLEAN /\ NdPlaced(d, {})
  BY DEF NdOK, NdBase, NdStates
<1>2. /\ f \in NdFrames /\ InQueue(d.out, f) /\ o \in Seq(NdFrames) /\ NoneTwice(o, NoNdFrame)
      /\ \A g \in NdFrames : InQueue(o, g) <=> InQueue(d.out, g) /\ g # f
  <2>1. NoneTwice(d.out, NoNdFrame) /\ NoNdFrame \notin NdFrames
    BY <1>1, NdBounds DEF NdPlaced
  <2> QED
    BY <1>1, <2>1, TailOK
<1>3. e = [d EXCEPT !.out = o]
  BY DEF Taken
<1> HIDE DEF f, o
<1>4. Reframed(d, e, d.slots, d.last, o, d.frame, d.gateway)
  BY <1>1, <1>3 DEF NdStates, Reframed
<1>5. /\ e \in NdStates /\ e.cache = d.cache /\ e.slots = d.slots /\ e.out = o /\ e.frame = d.frame
      /\ e.gateway = d.gateway
  BY <1>1, <1>2, <1>4, ReframedIs
<1>6. NdPlaced(e, {f})
  BY <1>1, <1>2, <1>5 DEF NdPlaced
<1>7. Resolving(e)
  BY <1>1, <1>5 DEF Resolving, pico_ipv6_route_get_gateway
<1>8. e.frame[f].at = "out"
  BY <1>1, <1>2, <1>5 DEF NdPlaced
<1>9. Loose(e, f)
  BY <1>2, <1>5, <1>6, <1>7, <1>8 DEF Loose, NdBase
<1> QED
  BY <1>9 DEF f

NdInv == NdOK(nd)

LEMMA NdHolds == NdSpec => []NdInv
<1>1. ASSUME NdInv, [NdNext]_ndVars PROVE NdInv'
  <2>0. NdOK(nd) /\ nd \in NdStates /\ Neighbours \subseteq NdAddrs
    BY <1>1 DEF NdInv, NdOK, NdBase, NdAddrs
  <2> SUFFICES NdOK(nd')
    BY DEF NdInv, NdOK, NdBase, NdPlaced, Resolving, pico_ipv6_route_get_gateway
  <2>1. CASE pico_ipv6_nd_timer_callback
    <3> DEFINE d == NdElapsed(nd)[NdSize]
    <3>1. PICK ok \in BOOLEAN : nd' = [d EXCEPT !.timer = ok]
      BY <2>1 DEF pico_ipv6_nd_timer_callback
    <3>2. NdOK(d)
      BY <2>0, ElapsedOK
    <3> HIDE DEF d
    <3> QED
      BY <3>1, <3>2, SettingOK
  <2>2. CASE NdSend
    <3>1. PICK f \in NdFrames, dst \in NdAddrs : nd.frame[f].at = "unborn" /\ Born(nd, nd', f, dst)
      BY <2>2 DEF NdSend, Born
    <3> QED
      BY <2>0, <3>1, NdSendOK
  <2>3. CASE pico_ethernet_ipv6_dst
    <3> DEFINE d == [nd EXCEPT !.out = Tail(@)]
    <3>1. PICK ok \in BOOLEAN : nd' = pico_ipv6_get_neighbor(d, Head(nd.out), ok)
      BY <2>3 DEF pico_ethernet_ipv6_dst
    <3>2. Taken(nd, d) /\ nd.out # <<>>
      BY <2>3 DEF pico_ethernet_ipv6_dst, Taken
    <3> HIDE DEF d
    <3>3. Loose(d, Head(nd.out))
      BY <2>0, <3>2, NdTakeOK
    <3> QED
      BY <3>1, <3>3, Ipv6NeighborOK
  <2>4. CASE pico_nd_neigh_adv_recv
    <3>1. PICK a \in Neighbours, solicited \in BOOLEAN, override \in BOOLEAN, router \in BOOLEAN,
               opt \in NdHws \union {"none"} :
                   /\ nd.cache[a] # NoNeighbour
                   /\ nd' = neigh_adv_process(nd, a, solicited, override, router, opt)
      BY <2>4 DEF pico_nd_neigh_adv_recv, Neighbour
    <3>2. a \in NdAddrs /\ nd.cache[a] \in NbrRecs
      BY <2>0, <3>1 DEF NdStates
    <3> QED
      BY <2>0, <3>1, <3>2, AdvertisementOK
  <2>5. CASE NdUnsolicited
    BY <2>0, <2>5, UnsolicitedOK DEF NdUnsolicited
  <2>6. CASE DefaultRoute
    BY <2>0, <2>6, RerouteOK DEF DefaultRoute
  <2>7. CASE SourceAddress
    <3> DEFINE b == ~nd.tentative
    <3>1. nd' = [nd EXCEPT !.tentative = b]
      BY <2>7 DEF SourceAddress
    <3>2. b \in BOOLEAN
      OBVIOUS
    <3> HIDE DEF b
    <3> QED
      BY <2>0, <3>1, <3>2, SettingOK
  <2>8. CASE UNCHANGED ndVars
    BY <2>0, <2>8 DEF ndVars
  <2> QED
    BY <1>1, <2>1, <2>2, <2>3, <2>4, <2>5, <2>6, <2>7, <2>8 DEF NdNext, NdInput
<1>2. NdInit => NdInv
  BY NdInitOK DEF NdInv
<1> QED
  BY <1>1, <1>2, PTL DEF NdSpec

(* No frame is stranded, whatever the order of advertisements, timeouts,   *)
(* failures of memory, changes of routes and of the source address: a      *)
(* frame is in one place, and one that waits for a neighbour waits for an  *)
(* entry that is being solicited.  This is the wakeup that pico_ipv6_nd.c  *)
(* must not lose.                                                          *)
THEOREM NdKeepsFrames == NdSpec => []NdNoFrameStranded
<1>1. ASSUME NdInv PROVE NdNoFrameStranded
  <2>1. NdPlaced(nd, {}) /\ Resolving(nd) /\ DOMAIN nd.slots = NdSlots
    BY <1>1 DEF NdInv, NdOK, NdBase, NdStates
  <2>2. ASSUME NEW f \in NdFrames
        PROVE  /\ Cardinality({i \in NdSlots : nd.slots[i] = f})
                    = (IF nd.frame[f].at = "slot" THEN 1 ELSE 0)
               /\ Cardinality({i \in DOMAIN nd.out : nd.out[i] = f})
                    = (IF nd.frame[f].at = "out" THEN 1 ELSE 0)
               /\ nd.frame[f].why = "resolve" => Neighbour(nd, nd.frame[f].hop).state = "INCOMPLETE"
    <3>1. f # NoNdFrame
      BY NdBounds
    <3>2. /\ NoneTwice(nd.slots, NoNdFrame) /\ NoneTwice(nd.out, NoNdFrame)
          /\ (nd.frame[f].at = "slot") <=> InQueue(nd.slots, f)
          /\ (nd.frame[f].at = "out") <=> InQueue(nd.out, f)
      BY <2>1 DEF NdPlaced
    <3>3. Cardinality({i \in DOMAIN nd.slots : nd.slots[i] = f})
            = (IF InQueue(nd.slots, f) THEN 1 ELSE 0)
      BY <3>1, <3>2, CountIn
    <3>4. Cardinality({i \in DOMAIN nd.out : nd.out[i] = f})
            = (IF InQueue(nd.out, f) THEN 1 ELSE 0)
      BY <3>1, <3>2, CountIn
    <3>5. nd.frame[f].why = "resolve" => Neighbour(nd, nd.frame[f].hop).state = "INCOMPLETE"
      BY <2>1 DEF Resolving, Neighbour
    <3> QED
      BY <2>1, <3>2, <3>3, <3>4, <3>5
  <2> QED
    BY <2>2 DEF NdNoFrameStranded
<1> QED
  BY <1>1, NdHolds, PTL
=============================================================================
