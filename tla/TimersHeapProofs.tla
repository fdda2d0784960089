-------------------------- MODULE TimersHeapProofs --------------------------
(***************************************************************************)
(* Proofs about TimersHeap, for any number of timers, delays, hashes,      *)
(* identifiers and blocks, in five parts.                                  *)
(*                                                                         *)
(* The heap: heap_insert and heap_peek keep the order and the elements.    *)
(* Their loops are recursive functions; what they compute is shown by      *)
(* taking the smallest (for Climb) or the largest (for Sink) place at      *)
(* which it would be wrong.                                                *)
(*                                                                         *)
(* HeapInv: the elements are in heap order, a struct pico_timer has one    *)
(* reference, the element whose callback runs is the first one although    *)
(* the callback may insert others (an expiry that is not earlier never     *)
(* climbs past it), heap->size and the blocks fit the elements, and no     *)
(* identifier is in use twice while the counter has not come round.        *)
(*                                                                         *)
(* Each action keeps it; NoTimerLeak and InsideBlocks follow.              *)
(*                                                                         *)
(* Refinement: under ArmedTimers each action is the action of Timers with  *)
(* its name.  DropTombstone changes nothing that the service can see, and  *)
(* CallbackReturn pops the timer that was already taken out by Fire.       *)
(***************************************************************************)
EXTENDS TimersHeap, WellFoundedInduction, TLAPS

(* A set of naturals that is not empty has a smallest element.             *)
LEMMA Least ==
    ASSUME NEW S \in SUBSET Nat, S # {}
    PROVE  \E x \in S : \A y \in S : x <= y
<1> DEFINE R == OpToRel(<, Nat)
<1>1. IsWellFoundedOn(R, Nat)
  BY NatLessThanWellFounded
<1> HIDE DEF R
<1>2. PICK x \in S : \A y \in S : ~(<<y, x>> \in R)
  BY <1>1, WFMin
<1>3. \A y \in S : ~(y < x)
  BY <1>2 DEF R, OpToRel
<1> QED
  BY <1>3

-----------------------------------------------------------------------------
(* The recursive functions of the heap are the ones their equations say.   *)

UpStep(h, el, g, i) ==
    IF i > 1 /\ h[i \div 2].expire > el.expire
    THEN [g[i \div 2] EXCEPT ![i] = h[i \div 2]]
    ELSE [Append(h, el) EXCEPT ![i] = el]
UpTo(h, el, m, g) == g = [i \in 1..m |-> UpStep(h, el, g, i)]

LEMMA UpExists ==
    ASSUME NEW h, NEW el, NEW n \in Nat
    PROVE  \E g : UpTo(h, el, n, g)
<1> DEFINE Bad == {m \in Nat : ~ \E g : UpTo(h, el, m, g)}
<1> SUFFICES ASSUME Bad # {} PROVE FALSE
  OBVIOUS
<1>1. PICK m \in Bad : \A y \in Bad : m <= y
  BY Least
<1>2. CASE m = 0
  <2> DEFINE g == [i \in 1..0 |-> UpStep(h, el, <<>>, i)]
  <2>1. UpTo(h, el, 0, g)
    BY DEF UpTo
  <2> QED
    BY <1>1, <1>2, <2>1
<1>3. CASE m # 0
  <2>1. m - 1 \in Nat /\ m - 1 \notin Bad
    BY <1>1, <1>3
  <2>2. PICK g : UpTo(h, el, m - 1, g)
    BY <2>1
  <2> DEFINE f == [i \in 1..m |-> UpStep(h, el, g, i)]
  <2>3. ASSUME NEW i \in 1..m PROVE UpStep(h, el, g, i) = UpStep(h, el, f, i)
    <3>1. CASE i > 1
      <4>1. i \div 2 \in 1..(m - 1) /\ i \div 2 \in 1..m
        BY <3>1
      <4>2. g[i \div 2] = UpStep(h, el, g, i \div 2)
        BY <2>2, <4>1 DEF UpTo
      <4>3. f[i \div 2] = g[i \div 2]
        BY <4>1, <4>2
      <4> QED
        BY <4>3 DEF UpStep
    <3>2. CASE ~(i > 1)
      BY <3>2 DEF UpStep
    <3> QED
      BY <3>1, <3>2
  <2>4. UpTo(h, el, m, f)
    BY <2>3 DEF UpTo
  <2> QED
    BY <1>1, <2>4
<1> QED
  BY <1>2, <1>3

LEMMA ClimbStep ==
    ASSUME NEW S, NEW h \in Seq(S), NEW el, NEW i \in 1..(Len(h) + 1)
    PROVE  Climb(h, el)[i] = UpStep(h, el, Climb(h, el), i)
<1> DEFINE n == Len(h) + 1
<1>1. n \in Nat
  OBVIOUS
<1>2. \E g : UpTo(h, el, n, g)
  BY <1>1, UpExists
<1>3. Climb(h, el) = CHOOSE g : UpTo(h, el, n, g)
  BY DEF Climb, UpTo, UpStep
<1>4. UpTo(h, el, n, Climb(h, el))
  BY <1>2, <1>3
<1> HIDE DEF n
<1>5. i \in 1..n
  BY DEF n
<1> QED
  BY <1>4, <1>5 DEF UpTo

DownStep(h, g, i) ==
    IF 2 * i <= Len(h) - 1 /\ h[Len(h)].expire > h[Child(h, Len(h) - 1, i)].expire
    THEN [g[Child(h, Len(h) - 1, i)] EXCEPT ![i] = h[Child(h, Len(h) - 1, i)]]
    ELSE [h EXCEPT ![i] = h[Len(h)]]
DownTo(h, m, g) == g = [i \in m..Len(h) |-> DownStep(h, g, i)]

LEMMA ChildBelow ==
    ASSUME NEW h, NEW n \in Nat, NEW i \in Nat \ {0}, 2 * i <= n
    PROVE  Child(h, n, i) \in (i + 1)..n /\ Child(h, n, i) \in {2 * i, 2 * i + 1}
BY DEF Child

LEMMA DownExists ==
    ASSUME NEW S, NEW h \in Seq(S), h # <<>>
    PROVE  \E g : DownTo(h, 1, g)
<1> DEFINE N == Len(h)
           Bad == {m \in Nat : m < N /\ ~ \E g : DownTo(h, N - m, g)}
<1>0. N \in Nat /\ N > 0
  OBVIOUS
<1> HIDE DEF N
<1> SUFFICES ASSUME Bad # {} PROVE FALSE
  <2>1. N - 1 \in Nat /\ N - 1 < N /\ N - (N - 1) = 1
    BY <1>0
  <2>2. N - 1 \notin Bad
    OBVIOUS
  <2> QED
    BY <2>1, <2>2
<1>1. PICK m \in Bad : \A y \in Bad : m <= y
  BY Least
<1>2. CASE m = 0
  <2> DEFINE g == [i \in N..N |-> [h EXCEPT ![i] = h[N]]]
  <2>1. ASSUME NEW i \in N..N PROVE DownStep(h, g, i) = [h EXCEPT ![i] = h[N]]
    BY <1>0 DEF DownStep, N
  <2>2. g = [i \in N..N |-> DownStep(h, g, i)]
    BY <2>1
  <2>3. N - m = N
    BY <1>0, <1>2
  <2>4. DownTo(h, N - m, g)
    BY <2>2, <2>3 DEF DownTo, N
  <2> QED
    BY <1>1, <2>4
<1>3. CASE m # 0
  <2>0. m \in Nat /\ m < N
    OBVIOUS
  <2>1. m - 1 \in Nat /\ m - 1 \notin Bad /\ m < N /\ m - 1 < N
    <3> HIDE DEF Bad
    <3> QED
      BY <1>0, <1>1, <1>3, <2>0
  <2> DEFINE a == N - m
  <2>2. a \in Nat \ {0} /\ N - (m - 1) = a + 1
    BY <1>0, <2>1
  <2>3. PICK g : DownTo(h, a + 1, g)
    BY <1>0, <2>1, <2>2
  <2> HIDE DEF a
  <2> DEFINE f == [i \in a..N |-> DownStep(h, g, i)]
  <2>4. ASSUME NEW i \in a..N PROVE DownStep(h, g, i) = DownStep(h, f, i)
    <3> DEFINE c == Child(h, N - 1, i)
    <3>1. CASE 2 * i <= N - 1
      <4>1. c \in (a + 1)..N /\ c \in a..N
        <5>1. c \in (i + 1)..(N - 1)
          BY <1>0, <2>2, <3>1, ChildBelow
        <5> QED
          BY <1>0, <2>2, <5>1
      <4> HIDE DEF c
      <4>2. g[c] = DownStep(h, g, c)
        BY <2>3, <4>1 DEF DownTo, N
      <4>3. f[c] = g[c]
        BY <4>1, <4>2
      <4> QED
        BY <4>3 DEF DownStep, c, N
    <3>2. CASE ~(2 * i <= N - 1)
      BY <3>2 DEF DownStep, N
    <3> QED
      BY <3>1, <3>2
  <2>5. DownTo(h, a, f)
    BY <2>4 DEF DownTo, N
  <2> QED
    BY <1>1, <2>5 DEF a
<1> QED
  BY <1>2, <1>3

LEMMA SinkStep ==
    ASSUME NEW S, NEW h \in Seq(S), h # <<>>, NEW i \in 1..Len(h)
    PROVE  Sink(h)[i] = DownStep(h, Sink(h), i)
<1>1. \E g : DownTo(h, 1, g)
  BY DownExists
<1>2. Len(h) - 1 + 1 = Len(h)
  OBVIOUS
<1>3. Sink(h) = CHOOSE g : DownTo(h, 1, g)
  BY <1>2 DEF Sink, DownTo, DownStep
<1>4. DownTo(h, 1, Sink(h))
  BY <1>1, <1>3
<1> QED
  BY <1>4 DEF DownTo

-----------------------------------------------------------------------------
(* L is e with the element at place i replaced by x, in the order of p.    *)
Moved(e, L, D, i, x, p) ==
    /\ p \in [D -> D]
    /\ \A j, k \in D : p[j] = p[k] => j = k
    /\ \A j \in D : \E k \in D : p[k] = j
    /\ \A k \in D : L[k] = IF p[k] = i THEN x ELSE e[p[k]]

LEMMA MoveHere ==
    ASSUME NEW e, NEW D, D \subseteq DOMAIN e, NEW i \in D, NEW x
    PROVE  Moved(e, [e EXCEPT ![i] = x], D, i, x, [k \in D |-> k])
BY DEF Moved

(* L is M with v at place i.                                               *)
Written(M, L, D, i, v) == L[i] = v /\ \A k \in D : k # i => L[k] = M[k]

MovedTo(e, L, D, i, x, q, c, p) ==
    /\ Moved(e, L, D, i, x, q)
    /\ \A k \in D : k # i /\ p[k] # c => q[k] = p[k]

LEMMA MoveOn ==
    ASSUME NEW e, NEW M, NEW D, NEW i \in D, NEW c \in D, i # c,
           NEW x, NEW p, Moved(e, M, D, c, x, p), p[i] = i,
           NEW L, Written(M, L, D, i, e[c])
    PROVE  \E q : MovedTo(e, L, D, i, x, q, c, p)
<1> DEFINE q == [k \in D |-> IF k = i THEN c ELSE IF p[k] = c THEN i ELSE p[k]]
<1>1. q \in [D -> D]
  BY DEF Moved
<1>2. \A j, k \in D : q[j] = q[k] => j = k
  BY DEF Moved
<1>3. \A j \in D : \E k \in D : q[k] = j
  BY DEF Moved
<1>4. \A k \in D : L[k] = IF q[k] = i THEN x ELSE e[q[k]]
  BY DEF Moved, Written
<1>5. \A k \in D : k # i /\ p[k] # c => q[k] = p[k]
  OBVIOUS
<1> QED
  BY <1>1, <1>2, <1>3, <1>4, <1>5 DEF Moved, MovedTo
-----------------------------------------------------------------------------
(* The order of the heap: no element expires before its parent.            *)
Timed(h, n) == \A k \in 1..n : h[k].expire \in Nat
Ordered(h, n) == \A k \in 2..n : h[k \div 2].expire <= h[k].expire

LEMMA RootFirst ==
    ASSUME NEW h, NEW n \in Nat, Timed(h, n), Ordered(h, n), NEW k \in 1..n
    PROVE  h[1].expire <= h[k].expire
<1> DEFINE Bad == {j \in Nat : j \in 1..n /\ ~(h[1].expire <= h[j].expire)}
<1> SUFFICES ASSUME Bad # {} PROVE FALSE
  OBVIOUS
<1>1. PICK j \in Bad : \A y \in Bad : j <= y
  BY Least
<1>2. j \in 1..n /\ ~(h[1].expire <= h[j].expire) /\ h[1].expire \in Nat /\ h[j].expire \in Nat
  BY DEF Timed
<1>3. j # 1
  BY <1>2
<1>4. j \div 2 \in 1..n /\ j \div 2 < j /\ j \in 2..n
  BY <1>2, <1>3
<1>5. j \div 2 \notin Bad
  <2> HIDE DEF Bad
  <2>1. Bad \subseteq Nat
    BY DEF Bad
  <2> QED
    BY <1>1, <1>4, <2>1
<1>6. h[1].expire <= h[j \div 2].expire /\ h[j \div 2].expire \in Nat
  BY <1>4, <1>5 DEF Timed
<1>7. h[j \div 2].expire <= h[j].expire
  BY <1>4 DEF Ordered
<1> QED
  BY <1>2, <1>6, <1>7

UpOK(h, el, i) ==
    LET n == Len(h) + 1
        L == Climb(h, el)[i]
    IN  /\ DOMAIN L = 1..n /\ L = [k \in 1..n |-> L[k]]
        /\ \E p : /\ Moved(Append(h, el), L, 1..n, i, el, p)
                  /\ \A k \in 1..n : k > i => p[k] = k
        /\ i < n /\ el.expire < h[i].expire
             => Ordered(L, n - 1) /\ L[i].expire <= h[i].expire
        /\ i = n => Ordered(L, n)
        /\ i > 1 /\ h[1].expire <= el.expire => L[1] = h[1]

LEMMA ClimbOK ==
    ASSUME NEW S, NEW h \in Seq(S), NEW el, el.expire \in Nat, Timed(h, Len(h)),
           Ordered(h, Len(h)), NEW i \in 1..(Len(h) + 1), i > 1 => UpOK(h, el, i \div 2)
    PROVE  UpOK(h, el, i)
<1> DEFINE n == Len(h) + 1
           e == Append(h, el)
           L == Climb(h, el)[i]
           D == 1..n
<1>1. n \in Nat /\ n - 1 \in Nat /\ i \in D /\ n - 1 = Len(h) /\ n > 0
  OBVIOUS
<1>2. DOMAIN e = D /\ e[n] = el /\ \A k \in 1..(n - 1) : e[k] = h[k]
  OBVIOUS
<1>3. L = UpStep(h, el, Climb(h, el), i)
  BY ClimbStep
<1>4. Timed(h, n - 1) /\ Ordered(h, n - 1)
  BY <1>1
<1>a. \A k \in 2..n : k \div 2 \in 1..(n - 1) /\ k \div 2 < k
  BY <1>1
<1>5. CASE i > 1 /\ h[i \div 2].expire > el.expire
  <2> DEFINE c == i \div 2
             M == Climb(h, el)[c]
  <2>1. c \in 1..(n - 1) /\ c \in D /\ c < i /\ c # i
    BY <1>1, <1>5
  <2>2. L = [M EXCEPT ![i] = h[c]] /\ h[c].expire > el.expire
    BY <1>3, <1>5 DEF UpStep
  <2>3. UpOK(h, el, c)
    BY <1>5
  <2> HIDE DEF L, M, c, e, n
  <2>4. /\ DOMAIN M = D
        /\ c < n /\ el.expire < h[c].expire => Ordered(M, n - 1) /\ M[c].expire <= h[c].expire
        /\ c > 1 /\ h[1].expire <= el.expire => M[1] = h[1]
    BY <2>3 DEF UpOK, M, n
  <2>5. PICK p : Moved(e, M, D, c, el, p) /\ \A k \in D : k > c => p[k] = k
    BY <2>3 DEF UpOK, M, n, e
  <2>6. h[c] = e[c] /\ p[i] = i
    BY <1>1, <1>2, <2>1, <2>5
  <2>a. L = [k \in D |-> L[k]]
    BY <1>1, <2>2, <2>4
  <2>10. DOMAIN L = D /\ L[i] = h[c] /\ \A k \in D : k # i => L[k] = M[k]
    BY <1>1, <2>2, <2>4
  <2>7. PICK q : /\ Moved(e, L, D, i, el, q)
                 /\ \A k \in D : k # i /\ p[k] # c => q[k] = p[k]
    <3>1. i \in D /\ c \in D /\ i # c /\ Written(M, L, D, i, e[c])
      BY <1>1, <2>1, <2>6, <2>10 DEF Written
    <3> HIDE DEF D
    <3>2. \E q : MovedTo(e, L, D, i, el, q, c, p)
      BY <2>5, <2>6, <3>1, MoveOn
    <3> QED
      BY <3>2 DEF MovedTo
  <2>8. \A k \in D : k > i => q[k] = k
    BY <1>1, <2>1, <2>5, <2>7
  <2>9. ASSUME NEW k \in 1..(n - 1), k > c PROVE M[k] = h[k]
    <3>1. k \in D /\ k # c /\ e[k] = h[k]
      BY <1>1, <1>2, <2>1, <2>9
    <3> QED
      BY <2>5, <2>9, <3>1 DEF Moved
  <2>11. h[c].expire \in Nat /\ Ordered(M, n - 1) /\ M[c].expire <= h[c].expire
    BY <1>1, <1>4, <2>1, <2>2, <2>4 DEF Timed
  <2>12. ASSUME NEW m \in Nat, m <= n, i = n \/ m = n - 1 PROVE Ordered(L, m)
    <3> SUFFICES ASSUME NEW k \in 2..m PROVE L[k \div 2].expire <= L[k].expire
      BY DEF Ordered
    <3>1. k \in 2..n /\ k \in D /\ k \div 2 \in D /\ k \div 2 < k /\ k \div 2 \in 1..(n - 1)
      BY <1>1, <1>a, <2>12
    <3>2. CASE k = i
      BY <2>1, <2>10, <2>11, <3>1, <3>2 DEF c
    <3>3. CASE k \div 2 = i
      <4>1. k \in 2..(n - 1) /\ i \in 2..(n - 1) /\ k > c
        BY <1>1, <1>5, <2>1, <2>12, <3>1, <3>3
      <4>2. h[c].expire <= h[i].expire /\ h[i].expire <= h[k].expire
        BY <1>4, <3>3, <4>1 DEF Ordered, c
      <4>3. h[i].expire \in Nat /\ h[k].expire \in Nat
        BY <1>4, <4>1 DEF Timed
      <4>4. L[k] = h[k] /\ L[k \div 2] = h[c]
        BY <2>9, <2>10, <3>1, <3>3, <4>1
      <4> QED
        BY <2>11, <4>2, <4>3, <4>4
    <3>4. CASE k # i /\ k \div 2 # i
      <4>1. k \in 2..(n - 1)
        BY <1>1, <2>12, <3>1, <3>4
      <4> QED
        BY <2>10, <2>11, <3>1, <3>4, <4>1 DEF Ordered
    <3> QED
      BY <3>2, <3>3, <3>4
  <2>13. i = n => Ordered(L, n)
    BY <1>1, <2>12
  <2>14. ASSUME i < n, el.expire < h[i].expire
         PROVE  Ordered(L, n - 1) /\ L[i].expire <= h[i].expire
    <3>1. i \in 2..(n - 1)
      BY <1>1, <1>5, <2>14
    <3>2. h[c].expire <= h[i].expire
      BY <1>4, <3>1 DEF Ordered, c
    <3> QED
      BY <1>1, <2>10, <2>12, <3>2
  <2>15. ASSUME h[1].expire <= el.expire PROVE L[1] = h[1]
    <3>1. c # 1
      BY <1>1, <1>4, <2>1, <2>2, <2>15, <2>11
    <3>2. c > 1 /\ 1 \in D /\ 1 # i
      BY <1>1, <2>1, <3>1
    <3> QED
      BY <2>4, <2>10, <2>15, <3>2
  <2> QED
    BY <2>a, <2>7, <2>8, <2>10, <2>13, <2>14, <2>15 DEF UpOK, n, L, e
<1>6. CASE ~(i > 1 /\ h[i \div 2].expire > el.expire)
  <2>1. L = [e EXCEPT ![i] = el]
    BY <1>3, <1>6 DEF UpStep
  <2> HIDE DEF L, e, n
  <2> DEFINE p == [k \in D |-> k]
  <2>2. Moved(e, L, D, i, el, p)
    BY <1>1, <1>2, <2>1, MoveHere
  <2>a. L = [k \in D |-> L[k]]
    BY <1>1, <1>2, <2>1
  <2>3. DOMAIN L = D /\ L[i] = el /\ \A k \in D : k # i => L[k] = e[k]
    BY <1>1, <1>2, <2>1
  <2>4. ASSUME NEW m \in Nat, m <= n, \/ i = n
                                      \/ m = n - 1 /\ i < n /\ el.expire < h[i].expire
        PROVE  Ordered(L, m)
    <3> SUFFICES ASSUME NEW k \in 2..m PROVE L[k \div 2].expire <= L[k].expire
      BY DEF Ordered
    <3>1. k \in 2..n /\ k \in D /\ k \div 2 \in D /\ k \div 2 < k /\ k \div 2 \in 1..(n - 1)
      BY <1>1, <1>a, <2>4
    <3>2. CASE k = i
      <4>1. L[k \div 2] = h[k \div 2] /\ L[k] = el /\ h[k \div 2].expire \in Nat
        BY <1>2, <1>4, <2>3, <3>1, <3>2 DEF Timed
      <4> QED
        BY <1>6, <3>1, <3>2, <4>1
    <3>3. CASE k \div 2 = i
      <4>1. k \in 2..(n - 1) /\ i \in 1..(n - 1) /\ el.expire < h[i].expire
        BY <1>1, <2>4, <3>1, <3>3
      <4>2. h[i].expire <= h[k].expire /\ h[i].expire \in Nat /\ h[k].expire \in Nat
        BY <1>4, <3>3, <4>1 DEF Ordered, Timed
      <4>3. L[k] = h[k] /\ L[k \div 2] = el
        BY <1>2, <2>3, <3>1, <3>3, <4>1
      <4> QED
        BY <4>1, <4>2, <4>3
    <3>4. CASE k # i /\ k \div 2 # i
      <4>1. k \in 2..(n - 1) /\ k \in 1..(n - 1)
        BY <1>1, <2>4, <3>1, <3>4
      <4>2. L[k] = h[k] /\ L[k \div 2] = h[k \div 2]
        BY <1>2, <2>3, <3>1, <3>4, <4>1
      <4> QED
        BY <1>4, <4>1, <4>2 DEF Ordered
    <3> QED
      BY <3>2, <3>3, <3>4
  <2>5. i = n => Ordered(L, n)
    BY <1>1, <2>4
  <2>6. ASSUME i < n, el.expire < h[i].expire
        PROVE  Ordered(L, n - 1) /\ L[i].expire <= h[i].expire
    <3>1. h[i].expire \in Nat
      BY <1>1, <1>4, <2>6 DEF Timed
    <3> QED
      BY <1>1, <2>3, <2>4, <2>6, <3>1
  <2>7. ASSUME i > 1 PROVE L[1] = h[1]
    BY <1>1, <1>2, <2>3, <2>7
  <2>8. \A k \in D : p[k] = k
    OBVIOUS
  <2> HIDE DEF p
  <2> QED
    BY <2>a, <2>2, <2>3, <2>5, <2>6, <2>7, <2>8 DEF UpOK, n, L, e
<1> QED
  BY <1>5, <1>6
(* s is e in the order of p: each element of e whose place is in P, once.  *)
Picked(e, s, n, P, p) ==
    /\ p \in [1..n -> P]
    /\ \A j, k \in 1..n : p[j] = p[k] => j = k
    /\ \A j \in P : \E k \in 1..n : p[k] = j
    /\ \A k \in 1..n : s[k] = e[p[k]]

Inserted(S, h, el, s) ==
    /\ s \in Seq(S) /\ Len(s) = Len(h) + 1 /\ Ordered(s, Len(s))
    /\ \E p : Picked(Append(h, el), s, Len(h) + 1, 1..(Len(h) + 1), p)
    /\ h # <<>> /\ h[1].expire <= el.expire => s[1] = h[1]

(* heap_insert keeps the order, adds the element and loses none, and       *)
(* leaves the first one where it is unless the new one expires earlier.    *)
LEMMA InsertOK ==
    ASSUME NEW S, NEW h \in Seq(S), NEW el \in S, el.expire \in Nat, Timed(h, Len(h)),
           Ordered(h, Len(h)), NEW s, s = heap_insert(h, el)
    PROVE  Inserted(S, h, el, s)
<1> DEFINE n == Len(h) + 1
           e == Append(h, el)
           Bad == {i \in Nat : i \in 1..n /\ ~UpOK(h, el, i)}
<1>1. n \in Nat /\ n > 0 /\ n - 1 = Len(h) /\ n \in 1..n
  OBVIOUS
<1>2. Bad = {}
  <2> SUFFICES ASSUME Bad # {} PROVE FALSE
    OBVIOUS
  <2>1. PICK i \in Bad : \A y \in Bad : i <= y
    BY Least
  <2>2. i \in Nat /\ i \in 1..n /\ ~UpOK(h, el, i)
    OBVIOUS
  <2>3. ASSUME i > 1 PROVE UpOK(h, el, i \div 2)
    <3>1. i \div 2 \in 1..n /\ i \div 2 < i /\ i \div 2 \in Nat
      BY <1>1, <2>2, <2>3
    <3>2. i \div 2 \notin Bad
      <4> HIDE DEF Bad
      <4> QED
        BY <2>1, <2>2, <3>1
    <3> QED
      BY <3>1, <3>2
  <2> QED
    BY <2>2, <2>3, ClimbOK
<1>3. UpOK(h, el, n)
  BY <1>1, <1>2
<1>4. s = Climb(h, el)[n]
  BY DEF heap_insert
<1> HIDE DEF n, e, Bad
<1>5. /\ s = [k \in 1..n |-> s[k]] /\ Ordered(s, n)
      /\ n > 1 /\ h[1].expire <= el.expire => s[1] = h[1]
  BY <1>3, <1>4 DEF UpOK, n
<1>6. PICK p : Moved(e, s, 1..n, n, el, p)
  BY <1>3, <1>4 DEF UpOK, n, e
<1>7. e \in Seq(S) /\ DOMAIN e = 1..n /\ e[n] = el /\ Len(e) = n
  BY DEF e, n
<1>8. Picked(e, s, n, 1..n, p)
  BY <1>6, <1>7 DEF Moved, Picked
<1>9. s = [k \in 1..n |-> e[p[k]]]
  BY <1>5, <1>8 DEF Picked
<1>10. s \in Seq(S) /\ Len(s) = n
  BY <1>1, <1>7, <1>8, <1>9 DEF Picked
<1>11. h # <<>> => n > 1
  BY DEF n
<1> QED
  BY <1>5, <1>8, <1>10, <1>11 DEF e, n, Inserted
LEMMA ChildFirst ==
    ASSUME NEW h, NEW n \in Nat, Timed(h, n), NEW i \in Nat \ {0}, 2 * i <= n,
           NEW k \in 1..n, k \in {2 * i, 2 * i + 1}
    PROVE  h[Child(h, n, i)].expire <= h[k].expire
<1>1. 2 * i \in 1..n /\ h[2 * i].expire \in Nat /\ h[k].expire \in Nat
  BY DEF Timed
<1>2. CASE 2 * i # n
  <2>1. 2 * i + 1 \in 1..n
    BY <1>2
  <2>2. h[2 * i + 1].expire \in Nat
    BY <2>1 DEF Timed
  <2> QED
    BY <1>1, <1>2, <2>2 DEF Child
<1>3. CASE 2 * i = n
  <2>1. k = 2 * i
    BY <1>3
  <2> QED
    BY <1>1, <1>3, <2>1 DEF Child
<1> QED
  BY <1>2, <1>3

DownOK(h, i) ==
    LET n == Len(h) - 1
        L == Sink(h)[i]
    IN  /\ DOMAIN L = 1..(n + 1) /\ L = [k \in 1..(n + 1) |-> L[k]]
        /\ \E p : /\ Moved(h, L, 1..n, i, h[n + 1], p)
                  /\ \A k \in 1..n : k < 2 * i /\ k # i => p[k] = k
        /\ h[i].expire <= h[n + 1].expire => Ordered(L, n) /\ h[i].expire <= L[i].expire

LEMMA SinkOK ==
    ASSUME NEW S, NEW h \in Seq(S), h # <<>>, Timed(h, Len(h)), Ordered(h, Len(h)),
           NEW i \in 1..(Len(h) - 1), 
           \A k \in (i + 1)..(Len(h) - 1) : DownOK(h, k)
    PROVE  DownOK(h, i)
<1> DEFINE n == Len(h) - 1
           x == h[n + 1]
           L == Sink(h)[i]
           D == 1..n
           c == Child(h, n, i)
<1>1. n \in Nat /\ n + 1 = Len(h) /\ i \in D /\ DOMAIN h = 1..(n + 1) /\ i \in Nat /\ i > 0 /\ n > 0
  OBVIOUS
<1>2. Timed(h, n + 1) /\ Ordered(h, n + 1) /\ x.expire \in Nat
  BY <1>1 DEF Timed
<1>3. L = DownStep(h, Sink(h), i)
  <2>1. i \in 1..Len(h)
    OBVIOUS
  <2> QED
    BY <2>1, SinkStep
<1>4. \A k \in 2..n : k \div 2 \in D /\ k \div 2 < k
  BY <1>1
<1>5. CASE 2 * i <= n /\ x.expire > h[c].expire
  <2> DEFINE M == Sink(h)[c]
  <2>1. c \in D /\ i < c /\ i # c /\ c \in {2 * i, 2 * i + 1} /\ c \in (i + 1)..n
    BY <1>1, <1>5, ChildBelow
  <2>2. L = [M EXCEPT ![i] = h[c]] /\ x.expire > h[c].expire
    BY <1>1, <1>3, <1>5 DEF DownStep
  <2>3. DownOK(h, c)
    BY <2>1
  <2>4. \A k \in D : k \in {2 * i, 2 * i + 1} => h[c].expire <= h[k].expire
    <3>1. Timed(h, n)
      BY <1>1, <1>2 DEF Timed
    <3> HIDE DEF n
    <3> QED
      BY <1>1, <1>5, <3>1, ChildFirst
  <2> HIDE DEF L, M, c, n, x
  <2>5. /\ DOMAIN M = 1..(n + 1)
        /\ h[c].expire <= x.expire => Ordered(M, n) /\ h[c].expire <= M[c].expire
    BY <2>3 DEF DownOK, M, n, x
  <2>6. PICK p : Moved(h, M, D, c, x, p) /\ \A k \in D : k < 2 * c /\ k # c => p[k] = k
    BY <2>3 DEF DownOK, M, n, x
  <2>7. L = [k \in 1..(n + 1) |-> L[k]]
    BY <2>2, <2>5
  <2>8. DOMAIN L = 1..(n + 1) /\ L[i] = h[c] /\ \A k \in D : k # i => L[k] = M[k]
    BY <1>1, <2>2, <2>5
  <2>9. p[i] = i
    BY <1>1, <2>1, <2>6
  <2>10. PICK q : MovedTo(h, L, D, i, x, q, c, p)
    <3>1. i \in D /\ c \in D /\ i # c /\ Written(M, L, D, i, h[c])
      BY <1>1, <2>1, <2>8 DEF Written
    <3> HIDE DEF D
    <3> QED
      BY <2>6, <2>9, <3>1, MoveOn
  <2>11. Moved(h, L, D, i, x, q)
    BY <2>10 DEF MovedTo
  <2>12. ASSUME NEW k \in D, k < 2 * i, k # i PROVE q[k] = k
    <3>1. k < 2 * c /\ k # c
      BY <1>1, <2>1, <2>12
    <3> QED
      BY <2>6, <2>10, <2>12, <3>1 DEF MovedTo
  <2>13. ASSUME NEW k \in D, k < 2 * c, k # c PROVE M[k] = h[k]
    BY <2>6, <2>13 DEF Moved
  <2>14. h[c].expire \in Nat /\ Ordered(M, n) /\ h[c].expire <= M[c].expire /\ h[i].expire \in Nat
    BY <1>1, <1>2, <2>1, <2>2, <2>5 DEF Timed
  <2>15. h[i].expire <= h[c].expire
    <3>1. c \in 2..(n + 1) /\ c \div 2 = i
      BY <1>1, <2>1
    <3> QED
      BY <1>2, <3>1 DEF Ordered
  <2>16. ASSUME NEW k \in 2..n PROVE L[k \div 2].expire <= L[k].expire
    <3>1. k \in D /\ k \div 2 \in D /\ k \div 2 < k /\ k \in 2..(n + 1)
      BY <1>1, <1>4
    <3>2. CASE k = i
      <4>1. k \div 2 < 2 * c /\ k \div 2 # c /\ k \div 2 # i
        BY <1>1, <2>1, <3>1, <3>2
      <4>2. L[k \div 2] = h[k \div 2] /\ L[k] = h[c]
        BY <2>8, <2>13, <3>1, <3>2, <4>1
      <4>3. h[k \div 2].expire <= h[i].expire /\ h[k \div 2].expire \in Nat
        BY <1>1, <1>2, <3>1, <3>2 DEF Ordered, Timed
      <4> QED
        BY <2>14, <2>15, <4>2, <4>3
    <3>3. CASE k \div 2 = i
      <4>1. k \in {2 * i, 2 * i + 1} /\ k # i
        BY <1>1, <3>1, <3>3
      <4>2. CASE k = c
        BY <2>8, <2>14, <3>1, <3>3, <4>1, <4>2
      <4>3. CASE k # c
        <5>1. k < 2 * c
          BY <1>1, <2>1, <4>1
        <5>2. L[k] = h[k]
          BY <2>8, <2>13, <3>1, <4>1, <4>3, <5>1
        <5> QED
          BY <2>4, <2>8, <3>1, <3>3, <4>1, <5>2
      <4> QED
        BY <4>2, <4>3
    <3>4. CASE k # i /\ k \div 2 # i
      BY <2>8, <2>14, <3>1, <3>4 DEF Ordered
    <3> QED
      BY <3>2, <3>3, <3>4
  <2>17. Ordered(L, n) /\ h[i].expire <= L[i].expire
    BY <2>8, <2>15, <2>16 DEF Ordered
  <2> QED
    BY <2>7, <2>8, <2>11, <2>12, <2>17 DEF DownOK, n, L, x
<1>6. CASE ~(2 * i <= n /\ x.expire > h[c].expire)
  <2>1. L = [h EXCEPT ![i] = x]
    BY <1>1, <1>3, <1>6 DEF DownStep
  <2>2. ASSUME NEW k \in D, k \in {2 * i, 2 * i + 1} PROVE x.expire <= h[k].expire
    <3>1. \A j \in D : h[j].expire \in Nat
      BY <1>1, <1>2 DEF Timed
    <3> HIDE DEF n, x
    <3>2. /\ 2 * i \in D /\ (2 * i # n => 2 * i + 1 \in D) /\ (2 * i + 1 \in D => 2 * i # n)
          /\ 2 * i <= n
      BY <1>1, <2>2
    <3>3. x.expire <= h[c].expire /\ c \in D
      <4>1. c \in D
        BY <1>1, <3>2, ChildBelow
      <4> QED
        BY <1>2, <1>6, <3>1, <3>2, <4>1
    <3>4. h[c].expire <= h[k].expire
      <4>1. Timed(h, n)
        BY <3>1 DEF Timed
      <4> QED
        BY <1>1, <2>2, <3>2, <4>1, ChildFirst
    <3> QED
      BY <1>2, <3>1, <3>3, <3>4
  <2> HIDE DEF L, c, n, x
  <2>3. DOMAIN L = 1..(n + 1) /\ L[i] = x /\ \A k \in D : k # i => L[k] = h[k]
    BY <1>1, <2>1
  <2>4. L = [k \in 1..(n + 1) |-> L[k]]
    BY <1>1, <2>1
  <2> DEFINE p == [k \in D |-> k]
  <2>5. Moved(h, L, D, i, x, p)
    <3>1. D \subseteq DOMAIN h /\ i \in D
      BY <1>1
    <3> HIDE DEF D
    <3> QED
      BY <2>1, <3>1, MoveHere
  <2>6. ASSUME h[i].expire <= x.expire PROVE Ordered(L, n) /\ h[i].expire <= L[i].expire
    <3> SUFFICES ASSUME NEW k \in 2..n PROVE L[k \div 2].expire <= L[k].expire
      BY <2>3, <2>6 DEF Ordered
    <3>1. k \in D /\ k \div 2 \in D /\ k \div 2 < k /\ k \in 2..(n + 1)
      BY <1>1, <1>4
    <3>2. h[k \div 2].expire <= h[k].expire /\ h[k].expire \in Nat /\ h[k \div 2].expire \in Nat
      BY <1>1, <1>2, <3>1 DEF Ordered, Timed
    <3>3. CASE k = i
      BY <1>2, <2>3, <2>6, <3>1, <3>2, <3>3
    <3>4. CASE k \div 2 = i
      <4>1. k \in {2 * i, 2 * i + 1} /\ k # i
        BY <1>1, <3>1, <3>4
      <4> QED
        BY <2>2, <2>3, <3>1, <3>4, <4>1
    <3>5. CASE k # i /\ k \div 2 # i
      BY <2>3, <3>1, <3>2, <3>5
    <3> QED
      BY <3>3, <3>4, <3>5
  <2>7. \A k \in D : p[k] = k
    OBVIOUS
  <2> HIDE DEF p
  <2> QED
    BY <2>3, <2>4, <2>5, <2>6, <2>7 DEF DownOK, n, L, x
<1> QED
  BY <1>5, <1>6

(* heap_peek keeps the order, and loses the first element and no other.    *)
LEMMA PeekOK ==
    ASSUME NEW S, NEW h \in Seq(S), h # <<>>, Timed(h, Len(h)), Ordered(h, Len(h)),
           NEW s, s = heap_peek(h)
    PROVE  /\ s \in Seq(S) /\ Len(s) = Len(h) - 1 /\ Ordered(s, Len(s))
           /\ \E r : Picked(h, s, Len(h) - 1, 2..Len(h), r)
<1> DEFINE n == Len(h) - 1
           x == h[n + 1]
           L == Sink(h)[1]
<1>1. n \in Nat /\ n + 1 = Len(h) /\ Len(h) \in Nat
  OBVIOUS
<1>2. \A k \in 1..(n + 1) : h[k] \in S
  BY <1>1
<1>5. DOMAIN h = 1..(n + 1)
  BY <1>1
<1> HIDE DEF n
<1>3. CASE n = 0
  <2>1. L = [h EXCEPT ![1] = x]
    <3>1. 1 \in 1..Len(h) /\ ~(2 * 1 <= Len(h) - 1)
      BY <1>1, <1>3
    <3> QED
      BY <1>1, <3>1, SinkStep DEF DownStep, n
  <2>2. L \in Seq(S)
    <3>1. x \in S /\ 1 \in 1..(n + 1)
      BY <1>1, <1>2
    <3> QED
      BY <2>1, <3>1
  <2>3. s = <<>>
    BY <1>1, <1>3, <2>2 DEF heap_peek, n
  <2> DEFINE r == [k \in 1..0 |-> 1]
  <2>4. Picked(h, s, 0, 2..1, r)
    BY DEF Picked
  <2>5. Len(h) = 1 /\ Len(s) = 0 /\ s \in Seq(S)
    BY <1>1, <1>3, <2>3
  <2> QED
    BY <2>4, <2>5 DEF Ordered
<1>4. CASE n > 0
  <2> DEFINE Bad == {m \in Nat : m < n /\ ~DownOK(h, n - m)}
  <2>1. Bad = {}
    <3> SUFFICES ASSUME Bad # {} PROVE FALSE
      OBVIOUS
    <3>1. PICK m \in Bad : \A y \in Bad : m <= y
      BY Least
    <3>2. m \in Nat /\ m < n /\ ~DownOK(h, n - m)
      OBVIOUS
    <3>3. ASSUME NEW k \in (n - m + 1)..n PROVE DownOK(h, k)
      <4>1. n - k \in Nat /\ n - k < m /\ n - k < n /\ n - (n - k) = k
        BY <1>1, <3>2
      <4>2. n - k \notin Bad
        <5> HIDE DEF Bad
        <5> QED
          BY <3>1, <3>2, <4>1
      <4> QED
        BY <4>1, <4>2
    <3>4. n - m \in 1..n
      BY <1>1, <3>2
    <3> QED
      BY <3>2, <3>3, <3>4, SinkOK DEF n
  <2>2. DownOK(h, 1)
    <3>1. n - 1 \in Nat /\ n - 1 < n /\ n - (n - 1) = 1
      BY <1>1, <1>4
    <3> QED
      BY <2>1, <3>1
  <2>3. h[1].expire <= x.expire
    <3>1. n + 1 \in 1..Len(h)
      BY <1>1
    <3> QED
      BY <1>1, <3>1, RootFirst
  <2> HIDE DEF Bad, L, n, x
  <2>4. L = [k \in 1..(n + 1) |-> L[k]] /\ Ordered(L, n)
    BY <2>2, <2>3 DEF DownOK, L, n, x
  <2>5. PICK p : Moved(h, L, 1..n, 1, x, p)
    BY <2>2 DEF DownOK, L, n, x
  <2>a. /\ \A k \in 1..n : p[k] \in 1..n
        /\ \A j, k \in 1..n : p[j] = p[k] => j = k
        /\ \A j \in 1..n : \E k \in 1..n : p[k] = j
        /\ \A k \in 1..n : L[k] = IF p[k] = 1 THEN x ELSE h[p[k]]
    BY <2>5 DEF Moved
  <2> DEFINE r == [k \in 1..n |-> IF p[k] = 1 THEN n + 1 ELSE p[k]]
  <2>6. ASSUME NEW k \in 1..n
        PROVE  /\ r[k] = (IF p[k] = 1 THEN n + 1 ELSE p[k]) /\ r[k] \in 2..(n + 1)
               /\ p[k] \in 1..n /\ p[k] # n + 1
    <3>1. r[k] = (IF p[k] = 1 THEN n + 1 ELSE p[k]) /\ p[k] \in 1..n
      BY <2>a
    <3>2. p[k] # n + 1 /\ n + 1 \in 2..(n + 1) /\ (p[k] # 1 => p[k] \in 2..(n + 1))
      BY <1>1, <1>4, <3>1
    <3> QED
      BY <3>1, <3>2
  <2>7. ASSUME NEW j \in 1..n, NEW k \in 1..n, r[j] = r[k] PROVE j = k
    <3>1. p[j] # n + 1 /\ p[k] # n + 1
      BY <2>6
    <3>2. /\ r[j] = (IF p[j] = 1 THEN n + 1 ELSE p[j])
          /\ r[k] = (IF p[k] = 1 THEN n + 1 ELSE p[k])
      BY <2>6
    <3>3. p[j] = p[k]
      BY <2>7, <3>1, <3>2
    <3> QED
      BY <2>a, <3>3
  <2>8. \A j \in 2..(n + 1) : \E k \in 1..n : r[k] = j
    <3> SUFFICES ASSUME NEW j \in 2..(n + 1) PROVE \E k \in 1..n : r[k] = j
      OBVIOUS
    <3>1. CASE j = n + 1
      <4>1. PICK k \in 1..n : p[k] = 1
        BY <1>1, <1>4, <2>a
      <4> QED
        BY <3>1, <4>1
    <3>2. CASE j # n + 1
      <4>1. j \in 1..n /\ j # 1
        BY <1>1, <3>2
      <4>2. PICK k \in 1..n : p[k] = j
        BY <2>a, <4>1
      <4> QED
        BY <4>1, <4>2
    <3> QED
      BY <3>1, <3>2
  <2>9. \A k \in 1..n : L[k] = h[r[k]] /\ L[k] \in S
    <3>1. \A k \in 1..n : L[k] = h[r[k]]
      BY <2>a DEF x
    <3> QED
      BY <1>1, <1>2, <2>6, <3>1
  <2>b. r \in [1..n -> 2..(n + 1)]
    BY <2>6
  <2> HIDE DEF r
  <2>10. L \in Seq(S \union {L[n + 1]}) /\ Len(L) = n + 1
    <3> DEFINE T == S \union {L[n + 1]}
    <3>1. \A k \in 1..(n + 1) : L[k] \in T
      <4>1. \A k \in 1..(n + 1) : k \in 1..n \/ k = n + 1
        BY <1>1
      <4> QED
        BY <2>9, <4>1
    <3> HIDE DEF T
    <3>2. L \in [1..(n + 1) -> T]
      BY <2>4, <3>1
    <3> QED
      BY <1>1, <3>2 DEF T
  <2>11. s = [k \in 1..n |-> L[k]]
    <3>1. s = SubSeq(L, 1, n)
      BY DEF heap_peek, L, n
    <3> QED
      BY <1>1, <2>10, <3>1
  <2>12. s \in Seq(S) /\ Len(s) = n
    BY <1>1, <2>9, <2>11
  <2>13. Ordered(s, n)
    <3>1. \A k \in 2..n : k \in 1..n /\ k \div 2 \in 1..n
      BY <1>1
    <3> QED
      BY <2>4, <2>11, <3>1 DEF Ordered
  <2>14. Picked(h, s, n, 2..(n + 1), r)
    BY <2>b, <2>7, <2>8, <2>9, <2>11 DEF Picked
  <2> QED
    BY <1>1, <2>12, <2>13, <2>14 DEF n
<1> QED
  BY <1>1, <1>3, <1>4

-----------------------------------------------------------------------------
(* The inductive invariant.                                                *)
Ref == [expire : Nat, tmr : 0..MaxAdds, id : 0..(IdSpace - 1), hash : {0} \union Hashes]

HeapTypes ==
    /\ heap \in Seq(Ref) /\ now \in Nat /\ pico_tick \in Nat /\ pico_tick <= now
    /\ pc \in {"idle", "check", "callback"}
    /\ tmr_id \in 0..(IdSpace - 1) /\ added \in 0..MaxAdds /\ passed \in Nat
    /\ size \in Nat /\ top \in [0..(Blocks - 1) -> Nat] /\ alloc \subseteq 1..MaxAdds

(* A struct pico_timer has one reference.                                  *)
TmrsUnique(h) ==
    \A j, k \in DOMAIN h : h[j].tmr = h[k].tmr /\ h[j].tmr # NULL => j = k
TmrsOld(h) == \A k \in DOMAIN h : h[k].tmr <= added

(* The element whose callback runs is the first one until it is popped.    *)
Running ==
    IF pc = "callback"
    THEN heap # <<>> /\ current = heap[1] /\ current.tmr # NULL /\ current.expire < pico_tick
    ELSE current = None

(* heap->size is the number of elements that were asked for, or one more:  *)
(* all below it, and those in use, are inside their block.                 *)
Inside(k) == k % PerBlock < top[k \div PerBlock]
BlocksOK ==
    /\ Len(heap) <= size
    /\ \A k \in 1..size : k <= Len(heap) \/ k < size => Inside(k)

(* As long as the counter has not come round, no identifier is given       *)
(* twice: how far tmr_id is from giving i again, while it skips zero once. *)
Distance(i, t) == IF i >= t THEN i - t ELSE i - t + IdSpace
FreshAt(i, t, a) ==
    \/ a = MaxAdds
    \/ Distance(i, t) >= IdSpace - a
    \/ t \in 1..(a + 1) /\ Distance(i, t) >= IdSpace - a - 1
IdsUnique(h) ==
    \A j, k \in DOMAIN h : h[j].id = h[k].id /\ h[j].id # 0 => j = k
IdsFresh(h) == \A k \in DOMAIN h : h[k].id # 0 => FreshAt(h[k].id, tmr_id, added)

HeapInv ==
    /\ HeapTypes
    /\ Ordered(heap, Len(heap))
    /\ TmrsUnique(heap)
    /\ TmrsOld(heap)
    /\ Running
    /\ NoTimerLeak
    /\ BlocksOK
    /\ MaxAdds < IdSpace => IdsUnique(heap) /\ IdsFresh(heap)

-----------------------------------------------------------------------------
(* What a heap holds, whatever the order.                                  *)
Tmrs(h) == {h[k].tmr : k \in {j \in DOMAIN h : h[j].tmr # NULL}}
WaitingIn(h, t) == {h[k] : k \in {j \in DOMAIN h : h[j].tmr # NULL /\ h[j].tmr # t}}

LEMMA RefShape ==
    ASSUME NEW h \in Seq(Ref)
    PROVE  /\ DOMAIN h = 1..Len(h) /\ Len(h) \in Nat /\ Timed(h, Len(h))
           /\ \A k \in DOMAIN h : /\ h[k] \in Ref /\ h[k].expire \in Nat
                                  /\ h[k].tmr \in 0..MaxAdds /\ h[k].id \in 0..(IdSpace - 1)
                                  /\ h[k].hash \in {0} \union Hashes
<1>1. DOMAIN h = 1..Len(h) /\ Len(h) \in Nat /\ \A k \in DOMAIN h : h[k] \in Ref
  OBVIOUS
<1>2. \A r \in Ref : /\ r.expire \in Nat /\ r.tmr \in 0..MaxAdds /\ r.id \in 0..(IdSpace - 1)
                     /\ r.hash \in {0} \union Hashes
  BY DEF Ref
<1>3. Timed(h, Len(h))
  BY <1>1, <1>2 DEF Timed
<1> QED
  BY <1>1, <1>2, <1>3

(* s holds what the places P of e hold.                                    *)
SameRefs(e, s, P) ==
    /\ TmrsUnique(e) => TmrsUnique(s)
    /\ IdsUnique(e) => IdsUnique(s)
    /\ \A k \in DOMAIN s : \E j \in P : s[k] = e[j]
    /\ \A j \in P : \E k \in DOMAIN s : s[k] = e[j]

LEMMA PickedHolds ==
    ASSUME NEW e, NEW s, NEW n, NEW P, NEW p, Picked(e, s, n, P, p), DOMAIN s = 1..n,
           P \subseteq DOMAIN e
    PROVE  SameRefs(e, s, P)
<1>1. TmrsUnique(e) => TmrsUnique(s)
  BY DEF Picked, TmrsUnique
<1>2. IdsUnique(e) => IdsUnique(s)
  BY DEF Picked, IdsUnique
<1>3. \A k \in DOMAIN s : \E j \in P : s[k] = e[j]
  BY DEF Picked
<1>4. \A j \in P : \E k \in DOMAIN s : s[k] = e[j]
  BY DEF Picked
<1> QED
  BY <1>1, <1>2, <1>3, <1>4 DEF SameRefs

GainsRef(h, el, s) ==
    /\ s \in Seq(Ref) /\ Len(s) = Len(h) + 1 /\ Ordered(s, Len(s))
    /\ h # <<>> /\ h[1].expire <= el.expire => s[1] = h[1]
    /\ \A k \in DOMAIN s : s[k] = el \/ \E j \in DOMAIN h : s[k] = h[j]
    /\ \A j \in DOMAIN h : \E k \in DOMAIN s : s[k] = h[j]
    /\ \E k \in DOMAIN s : s[k] = el
    /\ TmrsUnique(h) /\ (\A j \in DOMAIN h : h[j].tmr # el.tmr) => TmrsUnique(s)
    /\ IdsUnique(h) /\ (\A j \in DOMAIN h : h[j].id # el.id) => IdsUnique(s)

LEMMA InsertedHolds ==
    ASSUME NEW h \in Seq(Ref), Ordered(h, Len(h)), NEW el \in Ref, NEW s,
           s = heap_insert(h, el)
    PROVE  GainsRef(h, el, s)
<1> DEFINE n == Len(h) + 1
           e == Append(h, el)
<1>1. el.expire \in Nat
  BY DEF Ref
<1>2. /\ s \in Seq(Ref) /\ Len(s) = n /\ Ordered(s, Len(s))
      /\ \E p : Picked(e, s, n, 1..n, p)
      /\ h # <<>> /\ h[1].expire <= el.expire => s[1] = h[1]
  <2>1. Timed(h, Len(h))
    BY RefShape
  <2>2. Inserted(Ref, h, el, s)
    BY <1>1, <2>1, InsertOK
  <2> QED
    BY <2>2 DEF Inserted
<1>3. PICK p : Picked(e, s, n, 1..n, p)
  BY <1>2
<1>4. DOMAIN s = 1..n /\ DOMAIN e = 1..n
  BY <1>2
<1>5. /\ \A j \in DOMAIN h : j \in 1..n /\ j # n /\ e[j] = h[j]
      /\ n \in 1..n /\ e[n] = el /\ \A j \in 1..n : j = n \/ j \in DOMAIN h
  OBVIOUS
<1> HIDE DEF n, e
<1>6. TmrsUnique(h) /\ (\A j \in DOMAIN h : h[j].tmr # el.tmr) => TmrsUnique(e)
  BY <1>4, <1>5 DEF TmrsUnique
<1>7. IdsUnique(h) /\ (\A j \in DOMAIN h : h[j].id # el.id) => IdsUnique(e)
  BY <1>4, <1>5 DEF IdsUnique
<1>8. /\ TmrsUnique(e) => TmrsUnique(s)
      /\ IdsUnique(e) => IdsUnique(s)
      /\ \A k \in DOMAIN s : \E j \in 1..n : s[k] = e[j]
      /\ \A j \in 1..n : \E k \in DOMAIN s : s[k] = e[j]
  <2> DEFINE P == 1..n
  <2>1. DOMAIN s = 1..n /\ P \subseteq DOMAIN e /\ Picked(e, s, n, P, p)
    BY <1>3, <1>4
  <2> HIDE DEF P
  <2>2. SameRefs(e, s, P)
    BY <2>1, PickedHolds
  <2> QED
    BY <2>2 DEF SameRefs, P
<1>9. \A k \in DOMAIN s : s[k] = el \/ \E j \in DOMAIN h : s[k] = h[j]
  BY <1>5, <1>8
<1>10. \A j \in DOMAIN h : \E k \in DOMAIN s : s[k] = h[j]
  BY <1>5, <1>8
<1>11. \E k \in DOMAIN s : s[k] = el
  BY <1>5, <1>8
<1> QED
  BY <1>2, <1>6, <1>7, <1>8, <1>9, <1>10, <1>11 DEF n, GainsRef

LosesFirst(h, s) ==
    /\ s \in Seq(Ref) /\ Len(s) = Len(h) - 1 /\ Ordered(s, Len(s))
    /\ \A k \in DOMAIN s : \E j \in DOMAIN h : j # 1 /\ s[k] = h[j]
    /\ \A j \in DOMAIN h : j # 1 => \E k \in DOMAIN s : s[k] = h[j]
    /\ TmrsUnique(h) => TmrsUnique(s)
    /\ IdsUnique(h) => IdsUnique(s)

LEMMA PoppedHolds ==
    ASSUME NEW h \in Seq(Ref), h # <<>>, Ordered(h, Len(h)), NEW s, s = heap_peek(h)
    PROVE  LosesFirst(h, s)
<1> DEFINE n == Len(h) - 1
<1>1. /\ s \in Seq(Ref) /\ Len(s) = n /\ Ordered(s, Len(s))
      /\ \E r : Picked(h, s, n, 2..Len(h), r)
  BY RefShape, PeekOK
<1>2. PICK r : Picked(h, s, n, 2..Len(h), r)
  BY <1>1
<1>3. DOMAIN s = 1..n
  BY <1>1
<1> DEFINE P == 2..Len(h)
<1>4. /\ P \subseteq DOMAIN h /\ \A j \in P : j # 1
      /\ \A j \in DOMAIN h : j # 1 => j \in P
  OBVIOUS
<1> HIDE DEF n, P
<1>5. Picked(h, s, n, P, r)
  BY <1>2 DEF P
<1>6. /\ TmrsUnique(h) => TmrsUnique(s)
      /\ IdsUnique(h) => IdsUnique(s)
      /\ \A k \in DOMAIN s : \E j \in P : s[k] = h[j]
      /\ \A j \in P : \E k \in DOMAIN s : s[k] = h[j]
  <2>1. SameRefs(h, s, P)
    BY <1>3, <1>4, <1>5, PickedHolds
  <2> QED
    BY <2>1 DEF SameRefs
<1>7. \A k \in DOMAIN s : \E j \in DOMAIN h : j # 1 /\ s[k] = h[j]
  BY <1>4, <1>6
<1>8. \A j \in DOMAIN h : j # 1 => \E k \in DOMAIN s : s[k] = h[j]
  BY <1>4, <1>6
<1> QED
  BY <1>1, <1>6, <1>7, <1>8 DEF n, LosesFirst

-----------------------------------------------------------------------------
(* The blocks of the heap.                                                 *)
Number(d, q, r) == d * q + r
LEMMA DivUnique ==
    ASSUME NEW d \in Nat \ {0}, NEW q \in Nat, NEW q2 \in Nat,
           NEW r \in 0..(d - 1), NEW r2 \in 0..(d - 1), Number(d, q, r) = Number(d, q2, r2)
    PROVE  q = q2 /\ r = r2
<1>0. d * q + r = d * q2 + r2
  BY DEF Number
<1>1. ASSUME NEW a \in Nat, NEW b \in Nat, a < b PROVE d * a + d <= d * b
  <2>1. b - a - 1 \in Nat
    BY <1>1
  <2>2. d * (b - a - 1) >= 0
    BY <2>1
  <2>3. d * b = d * a + d + d * (b - a - 1)
    OBVIOUS
  <2>4. d * a \in Nat /\ d * b \in Nat /\ d * (b - a - 1) \in Nat
    BY <2>1
  <2> QED
    BY <2>2, <2>3, <2>4
<1>2. d * q \in Nat /\ d * q2 \in Nat
  OBVIOUS
<1>3. ~(q < q2)
  <2> SUFFICES ASSUME q < q2 PROVE FALSE
    OBVIOUS
  <2>1. d * q + d <= d * q2
    BY <1>1
  <2> QED
    BY <1>0, <1>2, <2>1
<1>4. ~(q2 < q)
  <2> SUFFICES ASSUME q2 < q PROVE FALSE
    OBVIOUS
  <2>1. d * q2 + d <= d * q
    BY <1>1
  <2> QED
    BY <1>0, <1>2, <2>1
<1>5. q = q2
  BY <1>3, <1>4
<1> QED
  BY <1>0, <1>2, <1>5

Divided(k, d, q, r) == q = k \div d /\ r = k % d
LEMMA DivMod ==
    ASSUME NEW k \in Nat, NEW d \in Nat \ {0}, NEW q, NEW r, Divided(k, d, q, r)
    PROVE  q \in Nat /\ r \in 0..(d - 1) /\ d * q \in Nat /\ k = d * q + r
<1>0. q = k \div d /\ r = k % d
  BY DEF Divided
<1>1. k \div d \in Nat
  OBVIOUS
<1>2. k % d \in 0..(d - 1)
  OBVIOUS
<1>3. q \in Int /\ r \in Int /\ k = d * q + r
  BY <1>0
<1>4. d * q \in Nat
  BY <1>0, <1>1
<1> QED
  BY <1>0, <1>1, <1>2, <1>3, <1>4

LEMMA ElementsEnough ==
    ASSUME NEW n \in Nat, NEW k \in 0..n, k \div PerBlock = n \div PerBlock
    PROVE  k % PerBlock < Elements(n) /\ Elements(n) \in Nat
<1> DEFINE d == PerBlock
           q == n \div d
           r == n % d
           r2 == (n + 1) % d
           q2 == (n + 1) \div d
<1>1. d \in Nat \ {0}
  BY HeapAssumption
<1>2. q \in Nat /\ r \in 0..(d - 1) /\ d * q \in Nat /\ n = d * q + r
  <2>1. Divided(n, d, q, r)
    BY DEF Divided
  <2> HIDE DEF d, q, r
  <2> QED
    BY <1>1, <2>1, DivMod
<1>3. q2 \in Nat /\ r2 \in 0..(d - 1) /\ d * q2 \in Nat /\ n + 1 = d * q2 + r2
  <2> DEFINE m == n + 1
  <2>1. Divided(m, d, q2, r2) /\ m \in Nat
    BY DEF Divided
  <2> HIDE DEF d, q2, r2, m
  <2>2. q2 \in Nat /\ r2 \in 0..(d - 1) /\ d * q2 \in Nat /\ m = d * q2 + r2
    BY <1>1, <2>1, DivMod
  <2> QED
    BY <2>2 DEF m
<1> DEFINE r1 == k % d
<1>4. k \in Nat /\ r1 \in 0..(d - 1) /\ k = d * q + r1
  <2>1. Divided(k, d, q, r1) /\ k \in Nat
    BY DEF Divided
  <2> HIDE DEF d, q, r1
  <2> QED
    BY <1>1, <2>1, DivMod
<1>5. Elements(n) = IF r2 = 0 THEN d ELSE r2
  BY DEF Elements
<1> HIDE DEF d, q, r, r1, r2, q2
<1>6. r1 <= r
  BY <1>2, <1>4
<1>7. CASE r + 1 < d
  <2>1. Number(d, q, r + 1) = Number(d, q2, r2) /\ r + 1 \in 0..(d - 1)
    BY <1>1, <1>2, <1>3, <1>7 DEF Number
  <2>2. r + 1 = r2
    BY <1>1, <1>2, <1>3, <2>1, DivUnique
  <2> QED
    BY <1>1, <1>2, <1>4, <1>5, <1>6, <2>2 DEF d, r1
<1>8. CASE ~(r + 1 < d)
  <2>1. r + 1 = d
    BY <1>1, <1>2, <1>8
  <2>2. d * (q + 1) = d * q + d /\ q + 1 \in Nat
    BY <1>1, <1>2
  <2>3. Number(d, q + 1, 0) = Number(d, q2, r2) /\ 0 \in 0..(d - 1)
    BY <1>1, <1>2, <1>3, <2>1, <2>2 DEF Number
  <2>4. 0 = r2
    BY <1>1, <1>2, <1>3, <2>2, <2>3, DivUnique
  <2> QED
    BY <1>1, <1>4, <1>5, <2>4 DEF d, r1
<1> QED
  BY <1>7, <1>8

(* An index that can be asked for is in a block of the array top.          *)
LEMMA BlockExists ==
    ASSUME NEW n \in Nat, CanGrow(n)
    PROVE  n \div PerBlock \in 0..(Blocks - 1)
<1> DEFINE d == PerBlock
           q == n \div d
           r == n % d
<1>1. d \in Nat \ {0} /\ Blocks \in Nat \ {0}
  BY HeapAssumption
<1>2. q \in Nat /\ r \in 0..(d - 1) /\ d * q \in Nat /\ n = d * q + r
  <2>1. Divided(n, d, q, r)
    BY DEF Divided
  <2> HIDE DEF d, q, r
  <2> QED
    BY <1>1, <2>1, DivMod
<1>3. n + 1 <= d * Blocks
  BY DEF CanGrow
<1> HIDE DEF d, q, r
<1>4. ASSUME q >= Blocks PROVE FALSE
  <2>1. q - Blocks \in Nat /\ d * (q - Blocks) \in Nat /\ d * q = d * Blocks + d * (q - Blocks)
    BY <1>1, <1>2, <1>4
  <2>2. d * Blocks \in Nat
    BY <1>1
  <2> QED
    BY <1>1, <1>2, <1>3, <2>1, <2>2
<1> QED
  BY <1>1, <1>2, <1>4 DEF q, d

-----------------------------------------------------------------------------
(* The identifiers.                                                        *)
LEMMA WrapIs ==
    ASSUME NEW m \in 0..IdSpace
    PROVE  Wrap(m) = IF m = IdSpace THEN 0 ELSE m
<1>1. IdSpace \in Nat \ {0, 1}
  BY TimersAssumption
<1>2. CASE m = IdSpace
  <2>1. IdSpace % IdSpace = 0
    BY <1>1
  <2> QED
    BY <1>2, <2>1 DEF Wrap
<1>3. CASE m # IdSpace
  <2>1. m \in 0..(IdSpace - 1)
    BY <1>1, <1>3
  <2>2. m % IdSpace = m
    BY <1>1, <2>1
  <2> QED
    BY <1>3, <2>2 DEF Wrap
<1> QED
  BY <1>2, <1>3

LEMMA NextIdIs ==
    ASSUME tmr_id \in 0..(IdSpace - 1)
    PROVE  /\ NextId \in 1..(IdSpace - 1) /\ NextId = (IF tmr_id = 0 THEN 1 ELSE tmr_id)
           /\ Wrap(NextId + 1) = (IF NextId = IdSpace - 1 THEN 0 ELSE NextId + 1)
           /\ Wrap(NextId + 1) \in 0..(IdSpace - 1) /\ NextId \in 0..(IdSpace - 1)
<1>1. IdSpace \in Nat \ {0, 1}
  BY TimersAssumption
<1>2. 1 \in 0..IdSpace /\ 1 # IdSpace
  BY <1>1
<1>3. Wrap(1) = 1
  BY <1>2, WrapIs
<1>4. NextId \in 1..(IdSpace - 1) /\ NextId = (IF tmr_id = 0 THEN 1 ELSE tmr_id)
  BY <1>1, <1>3 DEF NextId
<1> DEFINE m == NextId + 1
<1>5. m \in 0..IdSpace
  BY <1>1, <1>4
<1>6. Wrap(m) = IF m = IdSpace THEN 0 ELSE m
  BY <1>5, WrapIs
<1> QED
  BY <1>1, <1>4, <1>6

LEMMA FreshStays ==
    ASSUME MaxAdds < IdSpace, NEW t \in 0..(IdSpace - 1), NEW a \in 0..MaxAdds, a < MaxAdds,
           NEW i \in 1..(IdSpace - 1), FreshAt(i, t, a),
           NEW n, n = (IF t = 0 THEN 1 ELSE t),
           NEW u, u = n \/ u = (IF n = IdSpace - 1 THEN 0 ELSE n + 1)
    PROVE  FreshAt(i, u, a + 1) /\ i # n
<1>1. IdSpace \in Nat \ {0, 1} /\ MaxAdds \in Nat
  BY TimersAssumption
<1> QED
  BY <1>1 DEF FreshAt, Distance

LEMMA FreshGiven ==
    ASSUME NEW a \in 0..MaxAdds, NEW n \in 1..(IdSpace - 1),
           NEW u, u = (IF n = IdSpace - 1 THEN 0 ELSE n + 1)
    PROVE  FreshAt(n, u, a + 1)
<1>1. IdSpace \in Nat \ {0, 1} /\ MaxAdds \in Nat
  BY TimersAssumption
<1> QED
  BY <1>1 DEF FreshAt, Distance

-----------------------------------------------------------------------------
(* The steps that leave the heap alone.                                    *)

LEMMA InitHeapInv == Init => HeapInv
<1> SUFFICES ASSUME Init PROVE HeapInv
  OBVIOUS
<1>1. /\ heap = <<>> /\ now = 0 /\ pico_tick = 0 /\ pc = "idle" /\ tmr_id \in FirstIds
      /\ added = 0 /\ size = 0 /\ top = [b \in 0..(Blocks - 1) |-> 0] /\ alloc = {}
      /\ current = None /\ passed = 0
  BY DEF Init
<1>2. heap \in Seq(Ref) /\ Len(heap) = 0 /\ DOMAIN heap = {}
  BY <1>1
<1>3. tmr_id \in 0..(IdSpace - 1) /\ added \in 0..MaxAdds
  BY <1>1, TimersAssumption
<1>4. top \in [0..(Blocks - 1) -> Nat]
  BY <1>1
<1>5. HeapTypes
  BY <1>1, <1>2, <1>3, <1>4 DEF HeapTypes
<1>6. Ordered(heap, Len(heap)) /\ TmrsUnique(heap) /\ TmrsOld(heap)
  BY <1>2 DEF Ordered, TmrsUnique, TmrsOld
<1>7. NoTimerLeak
  BY <1>1, <1>2 DEF NoTimerLeak, Live
<1>8. BlocksOK
  BY <1>1, <1>2 DEF BlocksOK
<1>9. IdsUnique(heap) /\ IdsFresh(heap)
  BY <1>2 DEF IdsUnique, IdsFresh
<1> QED
  BY <1>1, <1>5, <1>6, <1>7, <1>8, <1>9 DEF HeapInv, Running

LEMMA QuietOK ==
    ASSUME HeapInv, UNCHANGED <<heap, size, top, alloc, added, tmr_id>>, HeapTypes', Running'
    PROVE  HeapInv'
<1>1. TmrsOld(heap)' /\ NoTimerLeak' /\ BlocksOK'
  BY DEF HeapInv, TmrsOld, NoTimerLeak, Live, BlocksOK, Inside
<1>2. MaxAdds < IdSpace => IdsUnique(heap)' /\ IdsFresh(heap)'
  BY DEF HeapInv, IdsUnique, IdsFresh
<1>3. Ordered(heap, Len(heap))' /\ TmrsUnique(heap)'
  BY DEF HeapInv, Ordered, TmrsUnique
<1> QED
  BY <1>1, <1>2, <1>3 DEF HeapInv

LEMMA AdvanceOK == HeapInv /\ Advance => HeapInv'
<1> SUFFICES ASSUME HeapInv, Advance PROVE HeapInv'
  OBVIOUS
<1>1. HeapTypes'
  BY DEF HeapInv, HeapTypes, Advance
<1>2. Running'
  BY DEF HeapInv, Running, Advance
<1> QED
  BY <1>1, <1>2, QuietOK DEF Advance

LEMMA CheckBeginOK == HeapInv /\ CheckBegin => HeapInv'
<1> SUFFICES ASSUME HeapInv, CheckBegin PROVE HeapInv'
  OBVIOUS
<1>1. HeapTypes'
  BY DEF HeapInv, HeapTypes, CheckBegin, hvars
<1>2. Running'
  BY DEF HeapInv, Running, CheckBegin, hvars
<1> QED
  BY <1>1, <1>2, QuietOK DEF CheckBegin, hvars

LEMMA CheckEndOK == HeapInv /\ CheckEnd => HeapInv'
<1> SUFFICES ASSUME HeapInv, CheckEnd PROVE HeapInv'
  OBVIOUS
<1>1. HeapTypes'
  BY DEF HeapInv, HeapTypes, CheckEnd, hvars
<1>2. Running'
  BY DEF HeapInv, Running, CheckEnd, hvars
<1> QED
  BY <1>1, <1>2, QuietOK DEF CheckEnd, hvars

LEMMA FireOK == HeapInv /\ Fire => HeapInv'
<1> SUFFICES ASSUME HeapInv, Fire PROVE HeapInv'
  OBVIOUS
<1>1. heap \in Seq(Ref) /\ heap # <<>> /\ heap[1].expire < pico_tick
  BY DEF HeapInv, HeapTypes, Fire, FirstDue
<1>2. 1 \in DOMAIN heap
  BY <1>1
<1>3. heap[1].expire \in Nat
  BY <1>1, <1>2, RefShape
<1>4. HeapTypes'
  BY <1>3 DEF HeapInv, HeapTypes, Fire, hvars
<1>5. Running'
  BY <1>1 DEF Running, Fire, hvars
<1> QED
  BY <1>4, <1>5, QuietOK DEF Fire, hvars

LEMMA FailsOK ==
    ASSUME HeapInv, added < MaxAdds, added' = added + 1,
           tmr_id' = NextId \/ tmr_id' = Wrap(NextId + 1),
           UNCHANGED <<now, pico_tick, pc, alloc, current, passed, heap, size, top>>
    PROVE  HeapInv'
<1>0. HeapTypes /\ MaxAdds \in Nat /\ IdSpace \in Nat
  BY TimersAssumption DEF HeapInv
<1> DEFINE n == NextId
<1>1. /\ n \in 1..(IdSpace - 1) /\ n = (IF tmr_id = 0 THEN 1 ELSE tmr_id)
      /\ Wrap(n + 1) = (IF n = IdSpace - 1 THEN 0 ELSE n + 1)
      /\ Wrap(n + 1) \in 0..(IdSpace - 1) /\ n \in 0..(IdSpace - 1)
  BY <1>0, NextIdIs DEF HeapTypes
<1> HIDE DEF n
<1>2. HeapTypes'
  <2>1. tmr_id' \in 0..(IdSpace - 1)
    <3>2. tmr_id' = n \/ tmr_id' = Wrap(n + 1)
      BY DEF n
    <3> QED
      BY <1>1, <3>2
  <2>2. added' \in 0..MaxAdds
    BY <1>0 DEF HeapTypes
  <2> QED
    BY <1>0, <2>1, <2>2 DEF HeapTypes
<1>3. TmrsOld(heap)'
  <2>1. \A k \in DOMAIN heap : heap[k].tmr \in 0..MaxAdds
    BY <1>0, RefShape DEF HeapTypes
  <2> QED
    BY <1>0, <2>1 DEF HeapInv, TmrsOld, HeapTypes
<1>4. ASSUME MaxAdds < IdSpace PROVE IdsUnique(heap)' /\ IdsFresh(heap)'
  <2>1. IdsUnique(heap) /\ IdsFresh(heap)
    BY <1>4 DEF HeapInv
  <2>2. ASSUME NEW k \in DOMAIN heap, heap[k].id # 0
        PROVE  FreshAt(heap[k].id, tmr_id', added + 1)
    <3>1. heap[k].id \in 0..(IdSpace - 1)
      BY <1>0, RefShape DEF HeapTypes
    <3>2. heap[k].id \in 1..(IdSpace - 1)
      BY <1>0, <2>2, <3>1
    <3>3. FreshAt(heap[k].id, tmr_id, added)
      BY <2>1, <2>2 DEF IdsFresh
    <3>4. tmr_id' = n \/ tmr_id' = (IF n = IdSpace - 1 THEN 0 ELSE n + 1)
      BY <1>1 DEF n
    <3>5. tmr_id \in 0..(IdSpace - 1) /\ added \in 0..MaxAdds
      BY <1>0 DEF HeapTypes
    <3> QED
      BY <1>1, <1>4, <3>2, <3>3, <3>4, <3>5, FreshStays
  <2>3. IdsFresh(heap)'
    BY <2>2 DEF IdsFresh
  <2> QED
    BY <2>1, <2>3 DEF IdsUnique
<1>5. NoTimerLeak' /\ BlocksOK' /\ Running'
  BY DEF HeapInv, NoTimerLeak, Live, BlocksOK, Inside, Running
<1>6. Ordered(heap, Len(heap))' /\ TmrsUnique(heap)'
  BY DEF HeapInv, Ordered, TmrsUnique
<1> QED
  BY <1>2, <1>3, <1>4, <1>5, <1>6 DEF HeapInv

-----------------------------------------------------------------------------
(* The steps that change the heap.                                         *)

(* Growing keeps what is inside its block there, and makes room for n.     *)
LEMMA GrowOK ==
    ASSUME HeapTypes, BlocksOK, NEW n \in Nat, n = Len(heap) + 1, n >= size => CanGrow(n),
           Grow(n)
    PROVE  /\ size' \in Nat /\ top' \in [0..(Blocks - 1) -> Nat] /\ n <= size'
           /\ \A k \in 1..size' : k <= n \/ k < size' => k % PerBlock < top'[k \div PerBlock]
<1>1. /\ size \in Nat /\ top \in [0..(Blocks - 1) -> Nat] /\ Len(heap) \in Nat
      /\ Len(heap) <= size
  BY DEF HeapTypes, BlocksOK
<1>2. CASE n >= size
  <2> DEFINE b == n \div PerBlock
             E == Elements(n)
  <2>1. size' = size + 1 /\ top' = [top EXCEPT ![b] = E]
    BY <1>2 DEF Grow
  <2>2. b \in 0..(Blocks - 1)
    BY <1>2, BlockExists
  <2>3. E \in Nat
    <3>1. n \in 0..n
      OBVIOUS
    <3> QED
      BY <3>1, ElementsEnough
  <2>4. ASSUME NEW k \in 1..size', k <= n \/ k < size'
        PROVE  k % PerBlock < top'[k \div PerBlock]
    <3>1. k \in 0..n /\ k \in Nat
      BY <1>1, <1>2, <2>1, <2>4
    <3>2. CASE k \div PerBlock = b
      <4>1. k % PerBlock < E
        BY <3>1, <3>2, ElementsEnough
      <4> HIDE DEF E, b
      <4> QED
        BY <1>1, <2>1, <2>2, <3>2, <4>1
    <3>3. CASE k \div PerBlock # b
      <4>1. k # n
        BY <3>3
      <4>2. k \in 1..size /\ (k <= Len(heap) \/ k < size)
        BY <1>1, <1>2, <2>1, <3>1, <4>1
      <4>3. k % PerBlock < top[k \div PerBlock]
        BY <4>2 DEF BlocksOK, Inside
      <4> DEFINE c == k \div PerBlock
      <4>4. top'[c] = top[c]
        <5> HIDE DEF c, E, b
        <5> QED
          BY <1>1, <2>1, <3>3 DEF c
      <4> QED
        BY <4>3, <4>4
    <3> QED
      BY <3>2, <3>3
  <2> HIDE DEF b, E
  <2>5. top' \in [0..(Blocks - 1) -> Nat]
    BY <1>1, <2>1, <2>2, <2>3
  <2> QED
    BY <1>1, <1>2, <2>1, <2>4, <2>5
<1>3. CASE ~(n >= size)
  <2>1. size' = size /\ top' = top
    BY <1>3 DEF Grow
  <2>2. ASSUME NEW k \in 1..size', k <= n \/ k < size'
        PROVE  k % PerBlock < top'[k \div PerBlock]
    <3>1. k \in 1..size /\ k < size
      BY <1>1, <1>3, <2>1, <2>2
    <3> QED
      BY <2>1, <3>1 DEF BlocksOK, Inside
  <2> QED
    BY <1>1, <1>3, <2>1, <2>2
<1> QED
  BY <1>2, <1>3

LEMMA AddOK ==
    ASSUME HeapInv, NEW d \in Delays, NEW h \in {0} \union Hashes, Add(d, h)
    PROVE  HeapInv'
<1> DEFINE n == Len(heap) + 1
           r == TimerRef(d, h)
<1>0. /\ HeapTypes /\ MaxAdds \in Nat /\ IdSpace \in Nat /\ d \in Nat
      /\ added < MaxAdds /\ added \in 0..MaxAdds /\ tmr_id \in 0..(IdSpace - 1)
  BY TimersAssumption DEF HeapInv, Add, HeapTypes
<1>a. /\ heap \in Seq(Ref) /\ DOMAIN heap = 1..Len(heap) /\ Len(heap) \in Nat
      /\ \A k \in DOMAIN heap : /\ heap[k].expire \in Nat /\ heap[k].tmr \in 0..MaxAdds
                                 /\ heap[k].id \in 0..(IdSpace - 1)
  BY <1>0, RefShape DEF HeapTypes
<1> DEFINE m == NextId
<1>1. /\ m \in 1..(IdSpace - 1) /\ m = (IF tmr_id = 0 THEN 1 ELSE tmr_id)
      /\ Wrap(m + 1) = (IF m = IdSpace - 1 THEN 0 ELSE m + 1)
      /\ Wrap(m + 1) \in 0..(IdSpace - 1)
  BY <1>0, NextIdIs
<1>2. /\ r = [expire |-> now + d, tmr |-> added + 1, id |-> m, hash |-> h]
      /\ tmr_id' = Wrap(m + 1) /\ added' = added + 1 /\ alloc' = alloc \union {added + 1}
      /\ heap' = heap_insert(heap, r) /\ Grow(n) /\ (n >= size => CanGrow(n))
      /\ UNCHANGED <<now, pico_tick, pc, current, passed>>
  BY DEF Add, TimerRef
<1> HIDE DEF m, r
<1>3. /\ r \in Ref /\ r.expire = now + d /\ r.tmr = added + 1 /\ r.id = m
  <2>1. now + d \in Nat /\ added + 1 \in 0..MaxAdds /\ m \in 0..(IdSpace - 1)
    BY <1>0, <1>1 DEF HeapTypes
  <2> QED
    BY <1>2, <2>1 DEF Ref
<1>4. GainsRef(heap, r, heap')
  BY <1>2, <1>3, <1>a, InsertedHolds DEF HeapInv
<1>5. /\ heap' \in Seq(Ref) /\ Len(heap') = n /\ Ordered(heap', Len(heap'))
      /\ heap # <<>> /\ heap[1].expire <= r.expire => heap'[1] = heap[1]
      /\ \A k \in DOMAIN heap' : heap'[k] = r \/ \E j \in DOMAIN heap : heap'[k] = heap[j]
      /\ \A j \in DOMAIN heap : \E k \in DOMAIN heap' : heap'[k] = heap[j]
      /\ \E k \in DOMAIN heap' : heap'[k] = r
  BY <1>4 DEF GainsRef
<1>6. n \in Nat
  BY <1>a
<1>7. /\ size' \in Nat /\ top' \in [0..(Blocks - 1) -> Nat] /\ n <= size'
      /\ \A k \in 1..size' : k <= n \/ k < size' => k % PerBlock < top'[k \div PerBlock]
  <2>1. BlocksOK
    BY DEF HeapInv
  <2> QED
    BY <1>0, <1>2, <1>6, <2>1, GrowOK
<1> HIDE DEF n
<1>8. BlocksOK'
  BY <1>5, <1>7 DEF BlocksOK, Inside
<1>9. HeapTypes'
  <2>1. added' \in 0..MaxAdds /\ alloc' \subseteq 1..MaxAdds /\ tmr_id' \in 0..(IdSpace - 1)
    BY <1>0, <1>1, <1>2 DEF HeapTypes
  <2> QED
    BY <1>0, <1>2, <1>5, <1>7, <2>1 DEF HeapTypes
<1>10. \A j \in DOMAIN heap : heap[j].tmr # r.tmr /\ heap[j].tmr <= added
  BY <1>0, <1>3, <1>a DEF HeapInv, TmrsOld
<1>11. TmrsUnique(heap')
  BY <1>4, <1>10 DEF GainsRef, HeapInv
<1>12. TmrsOld(heap)'
  <2>1. r.tmr <= added + 1 /\ \A j \in DOMAIN heap : heap[j].tmr <= added + 1
    BY <1>0, <1>3, <1>10, <1>a
  <2>2. \A k \in DOMAIN heap' : heap'[k].tmr <= added + 1
    BY <1>5, <2>1
  <2> QED
    BY <1>2, <2>2 DEF TmrsOld
<1>13. Running'
  <2>1. CASE pc = "callback"
    <3>1. heap # <<>> /\ current = heap[1] /\ current.tmr # NULL /\ current.expire < pico_tick
      BY <2>1 DEF HeapInv, Running
    <3>2. 1 \in DOMAIN heap
      BY <1>a, <3>1
    <3>3. heap[1].expire <= r.expire
      BY <1>0, <1>3, <1>a, <3>1, <3>2 DEF HeapTypes
    <3>4. heap'[1] = heap[1] /\ heap' # <<>>
      BY <1>5, <1>6, <3>1, <3>3 DEF n
    <3> QED
      BY <1>2, <2>1, <3>1, <3>4 DEF Running
  <2>2. CASE pc # "callback"
    BY <1>2, <2>2 DEF HeapInv, Running
  <2> QED
    BY <2>1, <2>2
<1>14. NoTimerLeak'
  <2>1. alloc = {heap[k].tmr : k \in {j \in DOMAIN heap : heap[j].tmr # NULL}}
    BY DEF HeapInv, NoTimerLeak, Live
  <2>2. r.tmr # NULL /\ alloc' = alloc \union {r.tmr}
    BY <1>0, <1>2, <1>3 DEF NULL
  <2>3. alloc' = {heap'[k].tmr : k \in {j \in DOMAIN heap' : heap'[j].tmr # NULL}}
    BY <1>5, <2>1, <2>2
  <2> QED
    BY <2>3 DEF NoTimerLeak, Live
<1>15. ASSUME MaxAdds < IdSpace PROVE IdsUnique(heap') /\ IdsFresh(heap)'
  <2>1. IdsUnique(heap) /\ IdsFresh(heap)
    BY <1>15 DEF HeapInv
  <2>2. ASSUME NEW k \in DOMAIN heap, heap[k].id # 0
        PROVE  FreshAt(heap[k].id, tmr_id', added + 1) /\ heap[k].id # m
    <3>1. heap[k].id \in 1..(IdSpace - 1)
      BY <1>0, <1>a, <2>2
    <3>2. FreshAt(heap[k].id, tmr_id, added)
      BY <2>1, <2>2 DEF IdsFresh
    <3>3. tmr_id' = (IF m = IdSpace - 1 THEN 0 ELSE m + 1)
      BY <1>1, <1>2
    <3> QED
      BY <1>0, <1>1, <1>15, <3>1, <3>2, <3>3, FreshStays
  <2>3. FreshAt(m, tmr_id', added + 1)
    BY <1>0, <1>1, <1>2, FreshGiven
  <2>4. \A j \in DOMAIN heap : heap[j].id # r.id
    <3>1. m # 0
      BY <1>0, <1>1
    <3> QED
      BY <1>3, <2>2, <3>1
  <2>5. IdsUnique(heap')
    BY <1>4, <2>1, <2>4 DEF GainsRef
  <2>6. IdsFresh(heap)'
    BY <1>2, <1>3, <1>5, <2>2, <2>3 DEF IdsFresh
  <2> QED
    BY <2>5, <2>6
<1> QED
  BY <1>5, <1>8, <1>9, <1>11, <1>12, <1>13, <1>14, <1>15 DEF HeapInv

LEMMA PopOK ==
    ASSUME HeapInv, heap # <<>>, heap' = heap_peek(heap), Running',
           alloc' = alloc \ {heap[1].tmr}, HeapTypes /\ heap' \in Seq(Ref) => HeapTypes',
           UNCHANGED <<added, tmr_id, size, top>>
    PROVE  HeapInv'
<1>0. heap \in Seq(Ref) /\ HeapTypes /\ size \in Nat
  BY DEF HeapInv, HeapTypes
<1>1. LosesFirst(heap, heap')
  BY <1>0, PoppedHolds DEF HeapInv
<1>2. /\ heap' \in Seq(Ref) /\ Len(heap') = Len(heap) - 1 /\ Ordered(heap', Len(heap'))
      /\ \A k \in DOMAIN heap' : \E j \in DOMAIN heap : j # 1 /\ heap'[k] = heap[j]
      /\ \A j \in DOMAIN heap : j # 1 => \E k \in DOMAIN heap' : heap'[k] = heap[j]
      /\ TmrsUnique(heap) => TmrsUnique(heap')
      /\ IdsUnique(heap) => IdsUnique(heap')
  BY <1>1 DEF LosesFirst
<1>3. HeapTypes'
  BY <1>0, <1>2
<1>4. TmrsUnique(heap') /\ TmrsOld(heap)'
  BY <1>2 DEF HeapInv, TmrsOld
<1>5. BlocksOK'
  <2>1. Len(heap) \in Nat
    BY <1>0
  <2> QED
    BY <1>0, <1>2, <2>1 DEF HeapInv, BlocksOK, Inside
<1>6. MaxAdds < IdSpace => IdsUnique(heap') /\ IdsFresh(heap)'
  BY <1>2 DEF HeapInv, IdsFresh
<1>7. NoTimerLeak'
  <2>1. alloc = {heap[k].tmr : k \in {j \in DOMAIN heap : heap[j].tmr # NULL}}
    BY DEF HeapInv, NoTimerLeak, Live
  <2>2. 1 \in DOMAIN heap
    BY <1>0
  <2>3. \A j \in DOMAIN heap : heap[j].tmr # NULL /\ j # 1 => heap[j].tmr # heap[1].tmr
    BY <2>2 DEF HeapInv, TmrsUnique
  <2>4. ASSUME NEW t
        PROVE  t \in alloc' <=> \E k \in DOMAIN heap' : heap'[k].tmr # NULL /\ t = heap'[k].tmr
    BY <1>2, <2>1, <2>2, <2>3
  <2>5. alloc' = {heap'[k].tmr : k \in {j \in DOMAIN heap' : heap'[j].tmr # NULL}}
    BY <2>4
  <2> QED
    BY <2>5 DEF NoTimerLeak, Live
<1> QED
  BY <1>2, <1>3, <1>4, <1>5, <1>6, <1>7 DEF HeapInv

LEMMA CallbackReturnOK == HeapInv /\ CallbackReturn => HeapInv'
<1> SUFFICES ASSUME HeapInv, CallbackReturn PROVE HeapInv'
  OBVIOUS
<1>1. heap # <<>> /\ current = heap[1]
  BY DEF HeapInv, Running, CallbackReturn
<1>2. Running'
  BY DEF CallbackReturn, Running
<1>3. HeapTypes /\ heap' \in Seq(Ref) => HeapTypes'
  BY DEF HeapTypes, CallbackReturn
<1> QED
  BY <1>1, <1>2, <1>3, PopOK DEF CallbackReturn

LEMMA DropTombstoneOK == HeapInv /\ DropTombstone => HeapInv'
<1> SUFFICES ASSUME HeapInv, DropTombstone PROVE HeapInv'
  OBVIOUS
<1>1. heap # <<>> /\ heap[1].tmr = NULL
  BY DEF DropTombstone, FirstDue
<1>2. Running'
  BY DEF HeapInv, DropTombstone, Running
<1>3. HeapTypes /\ heap' \in Seq(Ref) => HeapTypes'
  BY DEF HeapTypes, DropTombstone
<1>4. NULL \notin alloc
  BY DEF HeapInv, NoTimerLeak, Live
<1> QED
  BY <1>1, <1>2, <1>3, <1>4, PopOK DEF DropTombstone

(* Cancelling: the references of hit lose their timer, and some            *)
(* identifiers become zero.                                                *)
Cancelled(h, s, hit) ==
    /\ s \in Seq(Ref) /\ Len(s) = Len(h) /\ DOMAIN s = DOMAIN h
    /\ \A k \in DOMAIN h : /\ s[k].expire = h[k].expire /\ s[k].hash = h[k].hash
                           /\ s[k].tmr = (IF k \in hit THEN NULL ELSE h[k].tmr)
                           /\ s[k].id = h[k].id \/ s[k].id = 0
    /\ h # <<>> /\ 1 \notin hit => s[1] = h[1]

LEMMA CancelledOK ==
    ASSUME HeapInv, NEW hit, hit \subseteq Live, Cancelled(heap, heap', hit),
           pc = "callback" => 1 \notin hit, alloc' = alloc \ {heap[k].tmr : k \in hit},
           UNCHANGED <<now, pico_tick, pc, tmr_id, added, size, top, current, passed>>
    PROVE  HeapInv'
<1>0. heap \in Seq(Ref) /\ HeapTypes /\ Live \subseteq DOMAIN heap /\ Len(heap) \in Nat
      /\ DOMAIN heap = 1..Len(heap)
  BY DEF HeapInv, HeapTypes, Live
<1>1. /\ heap' \in Seq(Ref) /\ Len(heap') = Len(heap) /\ DOMAIN heap' = DOMAIN heap
      /\ \A k \in DOMAIN heap :
            /\ heap'[k].expire = heap[k].expire
            /\ heap'[k].tmr = (IF k \in hit THEN NULL ELSE heap[k].tmr)
            /\ heap'[k].id = heap[k].id \/ heap'[k].id = 0
      /\ heap # <<>> /\ 1 \notin hit => heap'[1] = heap[1]
  BY DEF Cancelled
<1>2. HeapTypes'
  BY <1>0, <1>1 DEF HeapTypes
<1>3. Ordered(heap', Len(heap'))
  <2>1. \A k \in 2..Len(heap) : k \in DOMAIN heap /\ k \div 2 \in DOMAIN heap
    BY <1>0
  <2> QED
    BY <1>1, <2>1 DEF HeapInv, Ordered
<1>4. TmrsUnique(heap') /\ TmrsOld(heap)'
  <2>1. TmrsUnique(heap')
    BY <1>1 DEF HeapInv, TmrsUnique
  <2>2. added \in Nat
    BY <1>0 DEF HeapTypes
  <2>3. TmrsOld(heap)'
    BY <1>1, <2>2 DEF HeapInv, TmrsOld, NULL
  <2> QED
    BY <2>1, <2>3
<1>5. Running'
  <2>1. heap = <<>> <=> heap' = <<>>
    BY <1>0, <1>1
  <2> QED
    BY <1>1, <2>1 DEF HeapInv, Running
<1>6. BlocksOK'
  BY <1>1 DEF HeapInv, BlocksOK, Inside
<1>7. MaxAdds < IdSpace => IdsUnique(heap') /\ IdsFresh(heap)'
  <2>1. IdsUnique(heap) => IdsUnique(heap')
    BY <1>1 DEF IdsUnique
  <2>2. IdsFresh(heap) => IdsFresh(heap)'
    BY <1>1 DEF IdsFresh
  <2> QED
    BY <2>1, <2>2 DEF HeapInv
<1>8. NoTimerLeak'
  <2>1. alloc = {heap[k].tmr : k \in Live} /\ \A k \in Live : heap[k].tmr # NULL
    BY DEF HeapInv, NoTimerLeak, Live
  <2>2. Live' = Live \ hit
    BY <1>0, <1>1 DEF Live
  <2>3. \A j, k \in Live : heap[j].tmr = heap[k].tmr => j = k
    BY DEF HeapInv, TmrsUnique, Live
  <2>4. \A k \in Live \ hit : heap'[k].tmr = heap[k].tmr
    BY <1>0, <1>1
  <2>5. alloc' = {heap[k].tmr : k \in Live \ hit}
    BY <2>1, <2>3
  <2>6. {heap[k].tmr : k \in Live \ hit} = {heap'[k].tmr : k \in Live \ hit}
    BY <2>4
  <2> QED
    BY <2>2, <2>5, <2>6 DEF NoTimerLeak
<1> QED
  BY <1>2, <1>3, <1>4, <1>5, <1>6, <1>7, <1>8 DEF HeapInv

LEMMA TombstoneIs ==
    ASSUME NEW r \in Ref
    PROVE  /\ Tombstone(r) \in Ref /\ Tombstone(r).expire = r.expire
           /\ Tombstone(r).hash = r.hash /\ Tombstone(r).tmr = NULL /\ Tombstone(r).id = 0
<1>1. 0 \in 0..MaxAdds /\ 0 \in 0..(IdSpace - 1)
  BY TimersAssumption
<1> QED
  BY <1>1 DEF Tombstone, Ref, NULL

(* What pico_timer_cancel changes.                                         *)
CancelHit(i) == {k \in FirstWithId(i) : heap[k].tmr # NULL}

LEMMA CancelChanges ==
    ASSUME HeapInv, NEW i \in 1..(IdSpace - 1), Cancel(i)
    PROVE  /\ Cancelled(heap, heap', CancelHit(i)) /\ CancelHit(i) \subseteq Live
           /\ pc = "callback" => 1 \notin CancelHit(i)
<1> DEFINE hit == CancelHit(i)
<1>0. /\ heap \in Seq(Ref) /\ DOMAIN heap = 1..Len(heap) /\ Len(heap) \in Nat
      /\ \A k \in DOMAIN heap : heap[k] \in Ref
  BY RefShape DEF HeapInv, HeapTypes
<1>1. heap' = [k \in DOMAIN heap |-> IF k \in hit THEN Tombstone(heap[k]) ELSE heap[k]]
  BY DEF Cancel, CancelHit
<1>2. hit \subseteq Live /\ \A k \in hit : heap[k].id = i
  BY DEF CancelHit, FirstWithId, Live
<1>3. pc = "callback" => 1 \notin hit
  BY <1>2 DEF HeapInv, Running, Cancel
<1> HIDE DEF hit
<1>4. DOMAIN heap' = DOMAIN heap
  BY <1>1
<1>5. ASSUME NEW k \in DOMAIN heap
      PROVE  /\ heap'[k] \in Ref
             /\ heap'[k].expire = heap[k].expire /\ heap'[k].hash = heap[k].hash
             /\ heap'[k].tmr = (IF k \in hit THEN NULL ELSE heap[k].tmr)
             /\ heap'[k].id = heap[k].id \/ heap'[k].id = 0
             /\ k \notin hit => heap'[k] = heap[k]
  BY <1>0, <1>1, TombstoneIs
<1>6. heap' \in Seq(Ref) /\ Len(heap') = Len(heap)
  <2>1. heap' \in [1..Len(heap) -> Ref]
    BY <1>0, <1>1, <1>5
  <2> QED
    BY <1>0, <2>1
<1>7. heap # <<>> => 1 \in DOMAIN heap
  BY <1>0
<1>8. Cancelled(heap, heap', hit)
  BY <1>4, <1>5, <1>6, <1>7 DEF Cancelled
<1> QED
  BY <1>2, <1>3, <1>8 DEF hit

LEMMA CancelOK ==
    ASSUME HeapInv, NEW i \in 1..(IdSpace - 1), Cancel(i)
    PROVE  HeapInv'
<1>1. alloc' = alloc \ {heap[k].tmr : k \in CancelHit(i)}
  BY DEF Cancel, CancelHit
<1> QED
  BY <1>1, CancelChanges, CancelledOK DEF Cancel

(* What pico_timer_cancel_hashed changes.                                  *)
HashedHit(h) == {k \in DOMAIN heap : heap[k].hash = h /\ heap[k].tmr # NULL}

LEMMA CancelHashedChanges ==
    ASSUME HeapInv, NEW h \in Hashes, CancelHashed(h)
    PROVE  /\ Cancelled(heap, heap', HashedHit(h)) /\ HashedHit(h) \subseteq Live
           /\ pc = "callback" => 1 \notin HashedHit(h)
<1> DEFINE hit == HashedHit(h)
           Zero(k) == \E i \in hit : k = 2 * i /\ SameBlock(i, k)
<1>0. /\ heap \in Seq(Ref) /\ DOMAIN heap = 1..Len(heap) /\ Len(heap) \in Nat
      /\ \A k \in DOMAIN heap : heap[k] \in Ref
  BY RefShape DEF HeapInv, HeapTypes
<1>1. heap' = [k \in DOMAIN heap |->
                 [heap[k] EXCEPT !.tmr = IF k \in hit THEN NULL ELSE @,
                                 !.id = IF Zero(k) THEN 0 ELSE @]]
  BY DEF CancelHashed, HashedHit
<1>2. hit \subseteq Live /\ \A k \in hit : k \in DOMAIN heap /\ heap[k].hash = h
  BY DEF HashedHit, Live
<1>3. pc = "callback" => 1 \notin hit
  BY <1>2 DEF HeapInv, Running, CancelHashed
<1>4. ~Zero(1)
  BY <1>0, <1>2
<1> HIDE DEF hit, Zero
<1>5. DOMAIN heap' = DOMAIN heap
  BY <1>1
<1>6. 0 \in 0..MaxAdds /\ 0 \in 0..(IdSpace - 1)
  BY TimersAssumption
<1>7. ASSUME NEW k \in DOMAIN heap
      PROVE  /\ heap'[k] \in Ref
             /\ heap'[k].expire = heap[k].expire /\ heap'[k].hash = heap[k].hash
             /\ heap'[k].tmr = (IF k \in hit THEN NULL ELSE heap[k].tmr)
             /\ heap'[k].id = heap[k].id \/ heap'[k].id = 0
             /\ k \notin hit /\ ~Zero(k) => heap'[k] = heap[k]
  <2> DEFINE t == IF k \in hit THEN NULL ELSE heap[k].tmr
             d == IF Zero(k) THEN 0 ELSE heap[k].id
  <2>1. heap'[k] = [heap[k] EXCEPT !.tmr = t, !.id = d]
    BY <1>1
  <2>2. t \in 0..MaxAdds /\ d \in 0..(IdSpace - 1)
    BY <1>0, <1>6 DEF NULL, Ref
  <2>3. k \notin hit /\ ~Zero(k) => t = heap[k].tmr /\ d = heap[k].id
    OBVIOUS
  <2>4. d = heap[k].id \/ d = 0
    OBVIOUS
  <2>5. t = (IF k \in hit THEN NULL ELSE heap[k].tmr)
    OBVIOUS
  <2> HIDE DEF t, d
  <2>6. /\ heap'[k] \in Ref /\ heap'[k].expire = heap[k].expire /\ heap'[k].hash = heap[k].hash
        /\ heap'[k].tmr = t /\ heap'[k].id = d
    BY <1>0, <2>1, <2>2 DEF Ref
  <2>7. t = heap[k].tmr /\ d = heap[k].id => heap'[k] = heap[k]
    BY <1>0, <2>1 DEF Ref
  <2> QED
    BY <2>3, <2>4, <2>5, <2>6, <2>7
<1>8. heap' \in Seq(Ref) /\ Len(heap') = Len(heap)
  <2>1. heap' \in [1..Len(heap) -> Ref]
    BY <1>0, <1>1, <1>7
  <2> QED
    BY <1>0, <2>1
<1>9. heap # <<>> => 1 \in DOMAIN heap
  BY <1>0
<1>10. Cancelled(heap, heap', hit)
  BY <1>4, <1>5, <1>7, <1>8, <1>9 DEF Cancelled
<1> QED
  BY <1>2, <1>3, <1>10 DEF hit

LEMMA CancelHashedOK ==
    ASSUME HeapInv, NEW h \in Hashes, CancelHashed(h)
    PROVE  HeapInv'
<1>1. alloc' = alloc \ {heap[k].tmr : k \in HashedHit(h)}
  BY DEF CancelHashed, HashedHit
<1> QED
  BY <1>1, CancelHashedChanges, CancelledOK DEF CancelHashed

LEMMA NextHeapInv == HeapInv /\ [Next]_vars => HeapInv'
<1> SUFFICES ASSUME HeapInv, [Next]_vars PROVE HeapInv'
  OBVIOUS
<1>1. CASE UNCHANGED vars
  <2>1. HeapTypes' /\ Running'
    BY <1>1 DEF vars, HeapInv, HeapTypes, Running
  <2> QED
    BY <1>1, <2>1, QuietOK DEF vars
<1>2. CASE CreateFails \/ InsertFails
  BY <1>2, FailsOK DEF CreateFails, InsertFails, hvars
<1> QED
  BY <1>1, <1>2, AdvanceOK, AddOK, CancelOK, CancelHashedOK, CheckBeginOK, FireOK,
     CallbackReturnOK, DropTombstoneOK, CheckEndOK DEF Next

-----------------------------------------------------------------------------
(* Every struct pico_timer and every element is accounted for.             *)

LEMMA HeapHolds == Spec => []HeapInv
  BY InitHeapInv, NextHeapInv, PTL DEF Spec

(* No struct pico_timer leaks or is freed twice: the allocated ones are    *)
(* those the references of the heap still name, however pico_timer_add,    *)
(* its failures, the cancels and pico_check_timers interleave.             *)
THEOREM EveryTimerFreedOnce == Spec => []NoTimerLeak
<1>1. HeapInv => NoTimerLeak
  BY DEF HeapInv
<1> QED
  BY <1>1, HeapHolds, PTL

(* heap_get_element never reaches beyond the memory that                   *)
(* heap_increase_size last gave the block, for every block size and count. *)
THEOREM ElementsInsideBlocks == Spec => []InsideBlocks
<1>1. HeapInv => InsideBlocks
  <2> SUFFICES ASSUME HeapInv PROVE InsideBlocks
    OBVIOUS
  <2>1. heap \in Seq(Ref) /\ DOMAIN heap = 1..Len(heap) /\ Len(heap) \in Nat /\ size \in Nat
        /\ \A k \in DOMAIN heap : heap[k] \in Ref
    BY RefShape DEF HeapInv, HeapTypes
  <2>2. TypeOK
    BY <2>1 DEF HeapInv, HeapTypes, TypeOK, Ref
  <2>3. \A k \in DOMAIN heap : k \in 1..size /\ k <= Len(heap)
    BY <2>1 DEF HeapInv, BlocksOK
  <2>4. \A k \in DOMAIN heap : k % PerBlock < top[k \div PerBlock]
    BY <2>3 DEF HeapInv, BlocksOK, Inside
  <2> QED
    BY <2>2, <2>4 DEF InsideBlocks
<1> QED
  BY <1>1, HeapHolds, PTL

-----------------------------------------------------------------------------
(* The refinement.                                                         *)

LEMMA RefFields ==
    ASSUME NEW r \in Ref
    PROVE  [tmr |-> r.tmr, id |-> r.id, hash |-> r.hash, expire |-> r.expire] = r
  BY DEF Ref

LEMMA ArmedIs ==
    ASSUME heap \in Seq(Ref)
    PROVE  ArmedTimers = WaitingIn(heap, current.tmr)
<1>1. \A k \in DOMAIN heap : heap[k] \in Ref
  BY RefShape
<1>2. \A k \in DOMAIN heap :
         [tmr |-> heap[k].tmr, id |-> heap[k].id, hash |-> heap[k].hash,
          expire |-> heap[k].expire] = heap[k]
  BY <1>1, RefFields
<1> QED
  BY <1>2 DEF ArmedTimers, WaitingIn, Live

LEMMA ArmedIsNext ==
    ASSUME heap' \in Seq(Ref)
    PROVE  ArmedTimers' = WaitingIn(heap', current'.tmr)
<1>1. \A k \in DOMAIN heap' : heap'[k] \in Ref
  BY RefShape
<1>2. \A k \in DOMAIN heap' :
         [tmr |-> heap'[k].tmr, id |-> heap'[k].id, hash |-> heap'[k].hash,
          expire |-> heap'[k].expire] = heap'[k]
  BY <1>1, RefFields
<1> QED
  BY <1>2 DEF ArmedTimers, WaitingIn, Live

LEMMA InitImplements == Init => Service!Init
<1> SUFFICES ASSUME Init PROVE Service!Init
  OBVIOUS
<1>1. heap = <<>>
  BY DEF Init
<1>2. ArmedTimers = {}
  BY <1>1 DEF ArmedTimers, Live
<1> QED
  BY <1>2 DEF Init, Service!Init, None, Service!None

LEMMA AddImplements ==
    ASSUME HeapInv, HeapInv', NEW d \in Delays, NEW h \in {0} \union Hashes, Add(d, h)
    PROVE  Service!Add(d, h)
<1> DEFINE r == TimerRef(d, h)
           new == [tmr |-> added + 1, id |-> NextId, hash |-> h, expire |-> now + d]
<1>1. heap \in Seq(Ref) /\ heap' \in Seq(Ref) /\ added \in 0..MaxAdds /\ MaxAdds \in Nat
  BY TimersAssumption DEF HeapInv, HeapTypes
<1>2. r = new /\ r.tmr = added + 1
  BY DEF TimerRef
<1>3. r \in Ref
  <2>1. /\ NextId \in 0..(IdSpace - 1) /\ now + d \in Nat /\ added + 1 \in 0..MaxAdds
    BY <1>1, TimersAssumption, NextIdIs DEF HeapInv, HeapTypes, Add
  <2> QED
    BY <2>1 DEF Ref, TimerRef
<1> HIDE DEF r
<1>4. heap' = heap_insert(heap, r)
  BY DEF Add, r
<1>5. GainsRef(heap, r, heap')
  BY <1>1, <1>3, <1>4, InsertedHolds DEF HeapInv
<1>6. current' = current /\ current.tmr # r.tmr /\ r.tmr # NULL
  <2>1. CASE pc = "callback"
    <3>1. current = heap[1] /\ 1 \in DOMAIN heap
      BY <1>1, <2>1 DEF HeapInv, Running
    <3>2. current.tmr <= added /\ current.tmr \in 0..MaxAdds
      BY <1>1, <3>1, RefShape DEF HeapInv, TmrsOld
    <3> QED
      BY <1>1, <1>2, <3>2 DEF Add, NULL
  <2>2. CASE pc # "callback"
    BY <1>1, <1>2, <2>2 DEF HeapInv, Running, None, Add, NULL
  <2> QED
    BY <2>1, <2>2
<1>7. WaitingIn(heap', current.tmr) = WaitingIn(heap, current.tmr) \union {r}
  BY <1>5, <1>6 DEF WaitingIn, GainsRef
<1>8. ArmedTimers' = ArmedTimers \union {new}
  BY <1>1, <1>2, <1>6, <1>7, ArmedIs, ArmedIsNext
<1> QED
  BY <1>8 DEF Add, Service!Add, InClient, Service!InClient, NextId, Service!NextId, Wrap,
              Service!Wrap

(* The steps that leave the heap and the running callback alone.           *)
LEMMA ArmedStays ==
    ASSUME UNCHANGED <<heap, current>>
    PROVE  ArmedTimers' = ArmedTimers
  BY DEF ArmedTimers, Live

LEMMA QuietImplements ==
    /\ Advance => Service!Advance
    /\ CreateFails \/ InsertFails => Service!AddFails
    /\ CheckBegin => Service!CheckBegin
    /\ UNCHANGED vars => UNCHANGED Service!vars
<1>1. Advance => Service!Advance
  BY ArmedStays DEF Advance, Service!Advance
<1>2. CreateFails \/ InsertFails => Service!AddFails
  BY ArmedStays DEF CreateFails, InsertFails, Service!AddFails, hvars, InClient,
     Service!InClient, NextId, Service!NextId, Wrap, Service!Wrap
<1>3. CheckBegin => Service!CheckBegin
  BY ArmedStays DEF CheckBegin, Service!CheckBegin, hvars
<1>4. UNCHANGED vars => UNCHANGED Service!vars
  BY ArmedStays DEF vars, Service!vars
<1> QED
  BY <1>1, <1>2, <1>3, <1>4

(* Nothing that waits expires before the first element.                    *)
LEMMA FirstIsLeast ==
    ASSUME HeapInv, NEW r \in ArmedTimers
    PROVE  heap # <<>> /\ heap[1].expire <= r.expire /\ r.expire \in Nat
<1>1. heap \in Seq(Ref) /\ Ordered(heap, Len(heap))
  BY DEF HeapInv, HeapTypes
<1>2. PICK k \in DOMAIN heap : r = heap[k]
  BY <1>1, ArmedIs DEF WaitingIn
<1>3. DOMAIN heap = 1..Len(heap) /\ Len(heap) \in Nat /\ Timed(heap, Len(heap))
      /\ heap[k].expire \in Nat
  BY <1>1, RefShape
<1> QED
  BY <1>1, <1>2, <1>3, RootFirst

LEMMA CheckEndImplements ==
    ASSUME HeapInv, CheckEnd
    PROVE  Service!CheckEnd
<1>1. ASSUME NEW r \in ArmedTimers PROVE ~Service!Due(r)
  <2>1. heap # <<>> /\ heap[1].expire <= r.expire /\ r.expire \in Nat
    BY FirstIsLeast
  <2>2. heap[1].expire \in Nat /\ pico_tick \in Nat
    BY <2>1, RefShape DEF HeapInv, HeapTypes
  <2> QED
    BY <2>1, <2>2 DEF CheckEnd, FirstDue, Service!Due
<1> QED
  BY <1>1, ArmedStays DEF CheckEnd, Service!CheckEnd, hvars

LEMMA FireImplements ==
    ASSUME HeapInv, HeapInv', Fire
    PROVE  Service!Fire
<1> DEFINE r == heap[1]
<1>1. /\ heap \in Seq(Ref) /\ heap' = heap /\ 1 \in DOMAIN heap /\ r.tmr # NULL
      /\ current' = r /\ current = None /\ TmrsUnique(heap)
  BY DEF HeapInv, HeapTypes, Fire, FirstDue, hvars, Running
<1>2. ArmedTimers = WaitingIn(heap, 0) /\ ArmedTimers' = WaitingIn(heap, r.tmr)
  BY <1>1, ArmedIs, ArmedIsNext DEF None
<1>3. r \in ArmedTimers
  BY <1>1, <1>2 DEF WaitingIn, NULL
<1>4. WaitingIn(heap, r.tmr) = WaitingIn(heap, 0) \ {r}
  BY <1>1 DEF WaitingIn, NULL, TmrsUnique
<1>5. \A s \in ArmedTimers : r.expire <= s.expire
  BY FirstIsLeast
<1>6. Service!Due(r)
  BY DEF Fire, FirstDue, Service!Due
<1>7. ArmedTimers' = ArmedTimers \ {r}
  BY <1>2, <1>4
<1> HIDE DEF r
<1>8. passed' = r.expire /\ current' = r
  BY DEF Fire, r
<1> QED
  BY <1>3, <1>5, <1>6, <1>7, <1>8 DEF Fire, Service!Fire

(* The first element goes, and nothing that waits.                         *)
LEMMA PopKeepsWaiting ==
    ASSUME HeapInv, heap # <<>>, heap' = heap_peek(heap), NEW t,
           heap[1].tmr = NULL \/ heap[1].tmr = t, NEW u,
           u = t \/ (u = NULL /\ heap[1].tmr = t)
    PROVE  WaitingIn(heap', u) = WaitingIn(heap, t)
<1>1. heap \in Seq(Ref) /\ Ordered(heap, Len(heap)) /\ TmrsUnique(heap)
  BY DEF HeapInv, HeapTypes
<1>2. LosesFirst(heap, heap') /\ 1 \in DOMAIN heap
  BY <1>1, PoppedHolds
<1>3. \A j \in DOMAIN heap : j # 1 /\ heap[j].tmr # NULL => heap[j].tmr # heap[1].tmr
  BY <1>1, <1>2 DEF TmrsUnique
<1>4. ASSUME NEW x
      PROVE  x \in WaitingIn(heap', u) <=> x \in WaitingIn(heap, t)
  <2>1. ASSUME NEW k \in DOMAIN heap', x = heap'[k], x.tmr # NULL, x.tmr # u
        PROVE  x \in WaitingIn(heap, t)
    <3>1. PICK j \in DOMAIN heap : j # 1 /\ x = heap[j]
      BY <1>2, <2>1 DEF LosesFirst
    <3> QED
      BY <1>3, <2>1, <3>1 DEF WaitingIn
  <2>2. ASSUME NEW j \in DOMAIN heap, x = heap[j], x.tmr # NULL, x.tmr # t
        PROVE  x \in WaitingIn(heap', u)
    <3>1. j # 1
      BY <2>2
    <3>2. PICK k \in DOMAIN heap' : x = heap'[k]
      BY <1>2, <2>2, <3>1 DEF LosesFirst
    <3> QED
      BY <2>2, <3>2 DEF WaitingIn
  <2> QED
    BY <2>1, <2>2 DEF WaitingIn
<1> QED
  BY <1>4

LEMMA CallbackReturnImplements ==
    ASSUME HeapInv, HeapInv', CallbackReturn
    PROVE  Service!CallbackReturn
<1>1. /\ heap \in Seq(Ref) /\ heap' \in Seq(Ref) /\ heap # <<>> /\ heap[1].tmr = current.tmr
      /\ current'.tmr = NULL /\ heap' = heap_peek(heap)
  BY DEF HeapInv, HeapTypes, Running, CallbackReturn, None, NULL
<1>2. ArmedTimers' = ArmedTimers
  BY <1>1, PopKeepsWaiting, ArmedIs, ArmedIsNext
<1> QED
  BY <1>2 DEF CallbackReturn, Service!CallbackReturn, None, Service!None

LEMMA DropTombstoneStutters ==
    ASSUME HeapInv, HeapInv', DropTombstone
    PROVE  UNCHANGED Service!vars
<1>1. /\ heap \in Seq(Ref) /\ heap' \in Seq(Ref) /\ heap # <<>> /\ heap[1].tmr = NULL
      /\ current' = current /\ heap' = heap_peek(heap)
  BY DEF HeapInv, HeapTypes, DropTombstone, FirstDue
<1>2. ArmedTimers' = ArmedTimers
  BY <1>1, PopKeepsWaiting, ArmedIs, ArmedIsNext
<1> QED
  BY <1>2 DEF DropTombstone, Service!vars

(* No other timer has the identifier, so that the first reference with it  *)
(* is the one to cancel.                                                   *)
LEMMA CancelImplements ==
    ASSUME HeapInv, HeapInv', MaxAdds < IdSpace, NEW i \in 1..(IdSpace - 1), Cancel(i)
    PROVE  Service!Cancel(i)
<1> DEFINE hit == CancelHit(i)
           t == current.tmr
<1>1. /\ heap \in Seq(Ref) /\ heap' \in Seq(Ref) /\ IdsUnique(heap) /\ i # 0
      /\ DOMAIN heap = 1..Len(heap) /\ Len(heap) \in Nat /\ current' = current
  BY TimersAssumption DEF HeapInv, HeapTypes, Cancel
<1>2. \A k \in DOMAIN heap : heap[k].id = i /\ heap[k].tmr # NULL => k \in hit
  <2> SUFFICES ASSUME NEW k \in DOMAIN heap, heap[k].id = i, heap[k].tmr # NULL,
                      NEW j \in 1..(k - 1)
               PROVE  heap[j].id # i
    BY DEF CancelHit, FirstWithId
  <2>1. j \in DOMAIN heap /\ j # k
    BY <1>1
  <2> QED
    BY <1>1, <2>1 DEF IdsUnique
<1>3. \A k \in hit : heap[k].id = i
  BY DEF CancelHit, FirstWithId
<1>4. heap' = [k \in DOMAIN heap |-> IF k \in hit THEN Tombstone(heap[k]) ELSE heap[k]]
  BY DEF Cancel, CancelHit
<1>5. \A k \in hit : k \in DOMAIN heap /\ Tombstone(heap[k]).tmr = NULL
  <2>1. \A k \in hit : k \in DOMAIN heap
    BY DEF CancelHit, FirstWithId
  <2> QED
    BY <1>1, <2>1, TombstoneIs, RefShape
<1> HIDE DEF hit
<1>6. ASSUME NEW x
      PROVE  x \in WaitingIn(heap', t) <=> x \in WaitingIn(heap, t) /\ x.id # i
  BY <1>2, <1>3, <1>4, <1>5 DEF WaitingIn
<1>7. ArmedTimers' = {r \in ArmedTimers : r.id # i}
  BY <1>1, <1>6, ArmedIs, ArmedIsNext
<1> QED
  BY <1>7 DEF Cancel, Service!Cancel, InClient, Service!InClient

LEMMA DisownedIs ==
    ASSUME NEW r \in Ref, NEW s \in Ref, s.tmr = r.tmr, s.expire = r.expire, s.hash = r.hash
    PROVE  (s.id = 0 => s = Service!Disowned(r)) /\ (s.id = r.id => s = r)
  BY DEF Ref, Service!Disowned

LEMMA CancelHashedImplements ==
    ASSUME HeapInv, HeapInv', NEW h \in Hashes, CancelHashed(h)
    PROVE  Service!CancelHashed(h)
<1> DEFINE hit == HashedHit(h)
           t == current.tmr
           W == {j \in DOMAIN heap : heap[j].tmr # NULL /\ heap[j].tmr # t}
           K == {k \in W : heap[k].hash # h}
           rest == {heap[k] : k \in {j \in K : heap'[j].id = 0}}
           others == {s \in ArmedTimers : s.hash # h}
<1>1. /\ heap \in Seq(Ref) /\ heap' \in Seq(Ref) /\ TmrsUnique(heap) /\ current' = current
  BY DEF HeapInv, HeapTypes, CancelHashed
<1>2. Cancelled(heap, heap', hit)
  BY CancelHashedChanges
<1>3. ArmedTimers = {heap[k] : k \in W}
  BY <1>1, ArmedIs DEF WaitingIn
<1>4. others = {heap[k] : k \in K}
  BY <1>3
<1>5. ArmedTimers' = {heap'[k] : k \in K}
  <2>1. DOMAIN heap' = DOMAIN heap
        /\ \A k \in DOMAIN heap : heap'[k].tmr = (IF k \in hit THEN NULL ELSE heap[k].tmr)
    BY <1>2 DEF Cancelled
  <2>2. \A k \in DOMAIN heap : k \in hit <=> heap[k].hash = h /\ heap[k].tmr # NULL
    BY DEF HashedHit
  <2>3. K = {j \in DOMAIN heap' : heap'[j].tmr # NULL /\ heap'[j].tmr # t}
    BY <2>1, <2>2
  <2>4. ArmedTimers' = WaitingIn(heap', t)
    BY <1>1, ArmedIsNext
  <2> QED
    BY <2>3, <2>4 DEF WaitingIn
<1>6. ASSUME NEW k \in K
      PROVE  heap'[k] = IF heap[k] \in rest THEN Service!Disowned(heap[k]) ELSE heap[k]
  <2>1. k \in DOMAIN heap /\ k \notin hit /\ heap[k] \in Ref /\ heap'[k] \in Ref
    <3>1. k \in DOMAIN heap /\ k \notin hit
      BY DEF HashedHit
    <3>2. k \in DOMAIN heap'
      BY <1>2, <3>1 DEF Cancelled
    <3> QED
      BY <1>1, <3>1, <3>2, RefShape
  <2>2. /\ heap'[k].expire = heap[k].expire /\ heap'[k].hash = heap[k].hash
        /\ heap'[k].tmr = heap[k].tmr
        /\ heap'[k].id = heap[k].id \/ heap'[k].id = 0
    BY <1>2, <2>1 DEF Cancelled
  <2>3. heap[k] \in rest <=> heap'[k].id = 0
    BY <1>1 DEF TmrsUnique
  <2> HIDE DEF rest, K
  <2> DEFINE r == heap[k]
             s == heap'[k]
  <2>4. /\ r \in Ref /\ s \in Ref /\ s.tmr = r.tmr /\ s.expire = r.expire /\ s.hash = r.hash
        /\ s.id = r.id \/ s.id = 0
        /\ r \in rest <=> s.id = 0
    BY <2>1, <2>2, <2>3
  <2> HIDE DEF r, s
  <2>5. (s.id = 0 => s = Service!Disowned(r)) /\ (s.id = r.id => s = r)
    BY <2>4, DisownedIs
  <2>6. s = IF r \in rest THEN Service!Disowned(r) ELSE r
    BY <2>4, <2>5
  <2> QED
    BY <2>6 DEF r, s
<1>7. rest \subseteq others
  BY <1>4
<1> HIDE DEF rest, others, K
<1>8. ArmedTimers' = {IF r \in rest THEN Service!Disowned(r) ELSE r : r \in others}
  BY <1>4, <1>5, <1>6
<1>9. \E q \in SUBSET {r \in ArmedTimers : r.hash # h} :
         ArmedTimers' = {IF r \in q THEN Service!Disowned(r) ELSE r :
                            r \in {s \in ArmedTimers : s.hash # h}}
  BY <1>7, <1>8 DEF others
<1> QED
  BY <1>9 DEF CancelHashed, Service!CancelHashed, InClient, Service!InClient

LEMMA NextImplements ==
    ASSUME MaxAdds < IdSpace
    PROVE  HeapInv /\ HeapInv' /\ [Next]_vars => [Service!Next]_Service!vars
<1> SUFFICES ASSUME HeapInv, HeapInv', [Next]_vars PROVE [Service!Next]_Service!vars
  OBVIOUS
<1>1. CASE \E d \in Delays, h \in {0} \union Hashes : Add(d, h)
  BY <1>1, AddImplements DEF Service!Next
<1>2. CASE \E i \in 1..(IdSpace - 1) : Cancel(i)
  BY <1>2, CancelImplements DEF Service!Next
<1>3. CASE \E h \in Hashes : CancelHashed(h)
  BY <1>3, CancelHashedImplements DEF Service!Next
<1>4. CASE Fire \/ CallbackReturn \/ CheckEnd
  BY <1>4, FireImplements, CallbackReturnImplements, CheckEndImplements DEF Service!Next
<1>5. CASE Advance \/ CreateFails \/ InsertFails \/ CheckBegin \/ UNCHANGED vars
  BY <1>5, QuietImplements DEF Service!Next
<1>6. CASE DropTombstone
  BY <1>6, DropTombstoneStutters
<1> QED
  BY <1>1, <1>2, <1>3, <1>4, <1>5, <1>6 DEF Next

(* The heap of pico_stack.c is the timer service that module Timers        *)
(* promises, as long as the identifiers have not come round: every step of *)
(* pico_timer_add, of the cancels and of pico_check_timers is a step of    *)
(* the service or changes nothing it can see, for every number of timers,  *)
(* of hashes and of blocks.  (Once tmr_id has come round, the first        *)
(* reference with an identifier need not be the one that was meant.)       *)
THEOREM HeapImplementsService ==
    ASSUME MaxAdds < IdSpace
    PROVE  Spec => Implements
<1>1. HeapInv /\ HeapInv' /\ [Next]_vars => [Service!Next]_Service!vars
  BY NextImplements
<1> QED
  BY <1>1, InitImplements, HeapHolds, PTL DEF Spec, Implements, Service!Spec
=============================================================================
