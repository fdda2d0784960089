--------------------------- MODULE ListenerProofs ---------------------------
(***************************************************************************)
(* Proofs about the tables of sockets: Listener, for every set of sockets  *)
(* and endpoints, every backlog and every width of number_of_pending_conn; *)
(* and Multicast, for every set of groups and sources and every number of  *)
(* sockets.                                                                *)
(***************************************************************************)
EXTENDS Listener, Multicast, FiniteSetTheorems, WellFoundedInduction, TLAPS

-----------------------------------------------------------------------------
(* Arithmetic modulo the width of the counter.                             *)

LEMMA ModRange ==
    ASSUME NEW a \in Int
    PROVE  a % Width \in 0..(Width - 1)
BY ListenerAssumption

LEMMA Division ==
    ASSUME NEW n \in Nat \ {0}, NEW a \in Int, NEW q \in Int, q = a \div n, NEW r \in Int, r = a % n
    PROVE  a = n * q + r
BY Z3

LEMMA ModWhole ==
    ASSUME NEW a \in Int
    PROVE  \E q \in Int : a = Width * q + (a % Width)
<1> DEFINE q == a \div Width
           r == a % Width
<1>1. q \in Int /\ r \in Int /\ Width \in Nat \ {0}
  BY ListenerAssumption
<1> HIDE DEF q, r
<1>2. a = Width * q + r
  BY <1>1, Division DEF q, r
<1> QED
  BY <1>1, <1>2 DEF r

(* No multiple but zero is closer to zero than the number itself.          *)
LEMMA NoMultiple ==
    ASSUME NEW n \in Nat \ {0}, NEW q \in Int, -n < n * q, n * q < n
    PROVE  q = 0
<1>1. CASE q >= 1
  <2>1. n * q >= n * 1
    BY <1>1
  <2> QED
    BY <2>1
<1>2. CASE q <= -1
  <2>1. n * q <= n * (-1)
    BY <1>2
  <2> QED
    BY <2>1
<1> QED
  BY <1>1, <1>2

LEMMA ModUnique ==
    ASSUME NEW a \in Int, NEW q \in Int, NEW r \in 0..(Width - 1), a = Width * q + r
    PROVE  a % Width = r
<1> DEFINE s == a % Width
<1>1. PICK p \in Int : a = Width * p + s
  BY ModWhole
<1>2. s \in 0..(Width - 1) /\ Width \in Nat \ {0}
  BY ModRange, ListenerAssumption
<1> HIDE DEF s
<1> DEFINE d == p - q
<1>3. Width * d = r - s
  BY <1>1, <1>2 DEF d
<1>4. -Width < Width * d /\ Width * d < Width /\ d \in Int
  BY <1>2, <1>3
<1> HIDE DEF d
<1>5. d = 0
  BY <1>2, <1>4, NoMultiple
<1>6. Width * 0 = r - s
  BY <1>3, <1>5
<1>7. s = r
  BY <1>2, <1>6
<1> QED
  BY <1>7 DEF s

(* One down, with the wrap-around; and one up, where there is room.        *)
LEMMA ModDown ==
    ASSUME NEW a \in Int
    PROVE  ((a % Width) - 1) % Width = (a - 1) % Width
<1> DEFINE r == a % Width
<1>1. PICK q \in Int : a = Width * q + r
  BY ModWhole
<1>2. r \in 0..(Width - 1) /\ Width \in Nat \ {0}
  BY ModRange, ListenerAssumption
<1> HIDE DEF r
<1>3. CASE r = 0
  <2>1. a - 1 = Width * (q - 1) + (Width - 1) /\ r - 1 = Width * (-1) + (Width - 1)
    BY <1>1, <1>2, <1>3
  <2>2. Width - 1 \in 0..(Width - 1) /\ a - 1 \in Int /\ q - 1 \in Int /\ r - 1 \in Int
    BY <1>2
  <2>3. (a - 1) % Width = Width - 1
    BY <2>1, <2>2, ModUnique
  <2>4. (r - 1) % Width = Width - 1
    BY <2>1, <2>2, ModUnique
  <2> QED
    BY <2>3, <2>4 DEF r
<1>4. CASE r # 0
  <2>1. a - 1 = Width * q + (r - 1) /\ r - 1 = Width * 0 + (r - 1)
    BY <1>1, <1>2
  <2>2. r - 1 \in 0..(Width - 1) /\ a - 1 \in Int
    BY <1>2, <1>4
  <2>3. (a - 1) % Width = r - 1
    BY <2>1, <2>2, ModUnique
  <2>4. (r - 1) % Width = r - 1
    BY <2>1, <2>2, ModUnique
  <2> QED
    BY <2>3, <2>4 DEF r
<1> QED
  BY <1>3, <1>4

LEMMA ModUp ==
    ASSUME NEW a \in Int, (a % Width) + 1 < Width
    PROVE  (a + 1) % Width = (a % Width) + 1
<1> DEFINE r == a % Width
<1>1. PICK q \in Int : a = Width * q + r
  BY ModWhole
<1>2. r \in 0..(Width - 1) /\ Width \in Nat \ {0} /\ r + 1 < Width
  BY ModRange, ListenerAssumption
<1> HIDE DEF r
<1>3. a + 1 = Width * q + (r + 1) /\ r + 1 \in 0..(Width - 1) /\ a + 1 \in Int
  BY <1>1, <1>2
<1>4. (a + 1) % Width = r + 1
  BY <1>3, ModUnique
<1> QED
  BY <1>4 DEF r

LEMMA ModSmall ==
    ASSUME NEW a \in 0..(Width - 1)
    PROVE  a % Width = a
BY ListenerAssumption

-----------------------------------------------------------------------------
(* The counter.                                                            *)

(* The children that are counted down a second time.                       *)
Extra == {i \in Twice : parent[i]}

(* A collection is due for each deletion, and a socket is deleted twice    *)
(* only by its linger timer, which is then spent.                          *)
Collections ==
    Defined => \A i \in Socks :
        /\ gc[i] = IF state[i] = "deleted" THEN IF late[i] = "twice" THEN 2 ELSE 1 ELSE 0
        /\ late[i] = "twice" => state[i] = "deleted" /\ ~finTmr[i]

(* Counting needs the life of each socket: a child leaves the count when   *)
(* it is deleted, and is out of it when its memory is used again, because  *)
(* a collection is due only for a socket that is deleted.                  *)
Bounded == listener = "LISTEN" /\ Twice = {} => Cardinality(Counted) <= Backlog

Inv ==
    /\ TypeOK
    /\ PendingCounted
    /\ Bounded
    /\ Collections

(* The children that are counted are finitely many.                        *)
LEMMA CountedFinite ==
    /\ IsFiniteSet(Counted) /\ Cardinality(Counted) \in Nat
    /\ IsFiniteSet(Extra) /\ Cardinality(Extra) \in Nat
<1>1. Counted \in SUBSET Socks /\ Extra \in SUBSET Socks
  BY DEF Counted, Extra, Twice
<1>2. IsFiniteSet(Counted) /\ IsFiniteSet(Extra)
  BY <1>1, FS_Subset, ListenerAssumption
<1> QED
  BY <1>2, FS_CardinalityType

(* How the counts change when one leaves or joins.                         *)
LEMMA OneLeaves ==
    ASSUME NEW i \in Counted, Counted' = Counted \ {i}
    PROVE  Cardinality(Counted') = Cardinality(Counted) - 1
BY CountedFinite, FS_RemoveElement

LEMMA OneJoins ==
    ASSUME NEW i, i \notin Counted, Counted' = Counted \union {i}
    PROVE  Cardinality(Counted') = Cardinality(Counted) + 1
BY CountedFinite, FS_AddElement

LEMMA OneMoreExtra ==
    ASSUME NEW i, i \notin Extra, Extra' = Extra \union {i}
    PROVE  Cardinality(Extra') = Cardinality(Extra) + 1
BY CountedFinite, FS_AddElement

LEMMA CountIs ==
    PendingCounted <=> (listener = "LISTEN" /\ Defined =>
                           pending = (Cardinality(Counted) - Cardinality(Extra)) % Width)
BY DEF PendingCounted, Extra

LEMMA NoneTwice ==
    ASSUME Twice = {}
    PROVE  Defined /\ Extra = {} /\ Cardinality(Extra) = 0
<1>1. Defined /\ Extra = {}
  BY DEF Twice, Defined, Extra
<1> QED
  BY <1>1, FS_EmptySet

LEMMA InitInv == Init => Inv
<1> SUFFICES ASSUME Init PROVE Inv
  OBVIOUS
<1>1. TypeOK
  BY ListenerAssumption DEF Init, TypeOK
<1>2. Counted = {} /\ Twice = {}
  BY DEF Init, Counted, InUse, Connected, Twice
<1>3. Cardinality(Counted) = 0 /\ Cardinality(Extra) = 0
  BY <1>2, FS_EmptySet, NoneTwice
<1>4. PendingCounted
  <2>1. 0 % Width = 0
    BY ModSmall, ListenerAssumption
  <2> QED
    BY <1>3, <2>1, CountIs DEF Init
<1>5. Bounded
  BY <1>3, ListenerAssumption DEF Bounded
<1>6. Collections
  BY DEF Init, Collections
<1> QED
  BY <1>1, <1>4, <1>5, <1>6 DEF Inv

(* The counter goes down by one, and so does the count.                    *)
LEMMA CountsDown ==
    ASSUME Inv, listener' = "LISTEN" => listener = "LISTEN", Defined' => Defined,
           Twice' = {} => Twice = {} /\ Cardinality(Counted') <= Cardinality(Counted),
           pending' = (pending - 1) % Width,
           \/ Cardinality(Counted') = Cardinality(Counted) - 1 /\ Cardinality(Extra') = Cardinality(Extra)
           \/ Cardinality(Counted') = Cardinality(Counted) /\ Cardinality(Extra') = Cardinality(Extra) + 1
    PROVE  PendingCounted' /\ Bounded'
<1> DEFINE a == Cardinality(Counted) - Cardinality(Extra)
<1>1. a \in Int
  BY CountedFinite
<1>2. Cardinality(Counted') - Cardinality(Extra') = a - 1
  BY CountedFinite
<1>3. ASSUME (listener = "LISTEN")', Defined'
      PROVE  pending' = (Cardinality(Counted') - Cardinality(Extra')) % Width
  <2>1. pending = a % Width
    BY <1>3, CountIs DEF Inv
  <2> HIDE DEF a
  <2>2. pending' = (a - 1) % Width
    BY <1>1, <2>1, ModDown
  <2> QED
    BY <1>2, <2>2
<1>4. PendingCounted'
  BY <1>3 DEF PendingCounted, Extra
<1>5. Bounded'
  <2> SUFFICES ASSUME (listener = "LISTEN")', Twice' = {}
               PROVE  Cardinality(Counted') <= Backlog
    BY DEF Bounded
  <2>1. Cardinality(Counted) <= Backlog /\ Cardinality(Counted') <= Cardinality(Counted)
    BY DEF Inv, Bounded
  <2>2. Cardinality(Counted) \in Nat /\ Cardinality(Counted') \in Int
    BY CountedFinite
  <2> QED
    BY <2>1, <2>2, ListenerAssumption
<1> QED
  BY <1>4, <1>5

(* A step that leaves the counted children and the counter alone.          *)
LEMMA Quiet ==
    ASSUME Inv, Counted' = Counted, Defined' => Extra' = Extra, pending' = pending,
           Defined' => Defined, Twice' = {} => Twice = {}, listener' = "LISTEN" => listener = "LISTEN"
    PROVE  PendingCounted' /\ Bounded'
BY DEF Inv, PendingCounted, Bounded, Extra

(* pico_socket_del on a socket that is in use.                             *)
LEMMA DelInv ==
    ASSUME Inv, NEW i \in Socks, InUse(i), pico_socket_del(i),
           finTmr' \in [Socks -> BOOLEAN], \A j \in Socks : finTmr'[j] => finTmr[j],
           UNCHANGED <<listener, remote, parent, late>>
    PROVE  Inv'
<1> USE DEF pico_socket_del
<1>0. TypeOK /\ Collections
  BY DEF Inv
<1>1. TypeOK'
  <2>1. pending' \in 0..(Width - 1)
    BY <1>0, ModRange DEF TypeOK
  <2>2. state' \in [Socks -> Connected \union {"LOST", "unlisted", "deleted", "free"}]
    BY <1>0 DEF TypeOK
  <2>3. gc' \in [Socks -> Nat]
    BY <1>0 DEF TypeOK
  <2> QED
    BY <1>0, <2>1, <2>2, <2>3 DEF TypeOK
<1>2. Extra' = Extra /\ Twice' = Twice /\ Defined' = Defined
  BY DEF Extra, Twice, Defined
<1>3. CASE ~SockPort
  <2>1. UNCHANGED <<state, pending, gc, late, parent, listener>>
    BY <1>3
  <2>2. Counted' = Counted
    BY <2>1 DEF Counted, InUse
  <2>3. Collections'
    BY <1>0, <2>1 DEF Collections, Defined
  <2>4. PendingCounted' /\ Bounded'
    BY <1>2, <2>1, <2>2, Quiet
  <2> QED
    BY <1>1, <2>3, <2>4 DEF Inv
<1>4. CASE SockPort
  <2>1. Counted' = Counted \ {i}
    BY <1>0, <1>4 DEF Counted, InUse, InTree, Connected, TypeOK
  <2>2. Collections'
    <3> SUFFICES ASSUME Defined, NEW j \in Socks
                 PROVE  /\ gc'[j] = IF state'[j] = "deleted" THEN IF late[j] = "twice" THEN 2 ELSE 1 ELSE 0
                        /\ late[j] = "twice" => state'[j] = "deleted" /\ ~finTmr'[j]
      BY <1>2 DEF Collections
    <3>1. CASE j = i
      <4>1. gc[i] = 0 /\ late[i] # "twice"
        BY <1>0 DEF Collections, InUse, Connected
      <4>2. gc'[i] = 1 /\ state'[i] = "deleted"
        BY <1>0, <1>4, <4>1 DEF TypeOK
      <4> QED
        BY <3>1, <4>1, <4>2
    <3>2. CASE j # i
      <4>1. gc'[j] = gc[j] /\ (state'[j] = "deleted" <=> state[j] = "deleted")
        BY <1>0, <1>4, <3>2 DEF TypeOK, InTree, Connected
      <4> QED
        BY <1>0, <4>1 DEF Collections
    <3> QED
      BY <3>1, <3>2
  <2>3. CASE parent[i]
    <3>1. i \in Counted
      BY <2>3 DEF Counted
    <3>2. Cardinality(Counted') = Cardinality(Counted) - 1
      BY <2>1, <3>1, OneLeaves
    <3>3. pending' = (pending - 1) % Width
      BY <1>4, <2>3
    <3>4. Cardinality(Counted') <= Cardinality(Counted)
      BY <3>2, CountedFinite
    <3>5. PendingCounted' /\ Bounded'
      BY <1>2, <3>2, <3>3, <3>4, CountsDown
    <3> QED
      BY <1>1, <2>2, <3>5 DEF Inv
  <2>4. CASE ~parent[i]
    <3>1. Counted' = Counted
      BY <2>1, <2>4 DEF Counted
    <3>2. pending' = pending
      BY <1>4, <2>4
    <3>3. PendingCounted' /\ Bounded'
      BY <1>2, <3>1, <3>2, Quiet
    <3> QED
      BY <1>1, <2>2, <3>3 DEF Inv
  <2> QED
    BY <2>3, <2>4
<1> QED
  BY <1>3, <1>4

(* The second deletion, by the linger timer of a socket that is deleted.   *)
LEMMA LateInv ==
    ASSUME Inv, NEW i \in Socks, LingerExpiresLate(i)
    PROVE  Inv'
<1> USE DEF LingerExpiresLate, pico_socket_del
<1>0. TypeOK /\ Collections
  BY DEF Inv
<1>1. TypeOK'
  <2>1. pending' \in 0..(Width - 1)
    BY <1>0, ModRange DEF TypeOK
  <2>2. state' \in [Socks -> Connected \union {"LOST", "unlisted", "deleted", "free"}]
    BY <1>0 DEF TypeOK
  <2>3. gc' \in [Socks -> Nat] /\ late' \in [Socks -> {"once", "twice", "freed"}]
    BY <1>0 DEF TypeOK
  <2> QED
    BY <1>0, <2>1, <2>2, <2>3 DEF TypeOK
<1>2. \A j \in Socks : (late'[j] = "once" => late[j] = "once") /\ (late'[j] = "freed" <=> late[j] = "freed")
  BY <1>0 DEF TypeOK
<1>3. (Defined' <=> Defined) /\ (Twice' = {} => Twice = {})
  BY <1>2 DEF Defined, Twice
<1>4. CASE ~SockPort
  <2>1. UNCHANGED <<state, pending, gc, late, parent, listener>>
    BY <1>4
  <2>2. Counted' = Counted /\ Extra' = Extra
    BY <2>1 DEF Counted, InUse, Extra, Twice
  <2>3. Collections'
    BY <1>0, <2>1 DEF Collections, Defined, TypeOK
  <2>4. PendingCounted' /\ Bounded'
    BY <1>3, <2>1, <2>2, Quiet
  <2> QED
    BY <1>1, <2>3, <2>4 DEF Inv
<1>5. CASE SockPort
  <2>1. Counted' = Counted
    BY <1>0, <1>5 DEF Counted, InUse, InTree, Connected, TypeOK
  <2>2. ASSUME Defined PROVE late[i] = "once" /\ late'[i] = "twice" /\ gc[i] = 1
    <3>1. late[i] # "freed" /\ late[i] # "twice"
      BY <1>0, <2>2 DEF Defined, Collections
    <3> QED
      BY <1>0, <1>5, <2>2, <3>1 DEF TypeOK, Collections
  <2>3. Collections'
    <3> SUFFICES ASSUME Defined, NEW j \in Socks
                 PROVE  /\ gc'[j] = IF state'[j] = "deleted" THEN IF late'[j] = "twice" THEN 2 ELSE 1 ELSE 0
                        /\ late'[j] = "twice" => state'[j] = "deleted" /\ ~finTmr'[j]
      BY <1>3 DEF Collections
    <3>1. CASE j = i
      BY <1>0, <1>5, <2>2, <3>1 DEF TypeOK
    <3>2. CASE j # i
      <4>1. /\ gc'[j] = gc[j] /\ (state'[j] = "deleted" <=> state[j] = "deleted")
            /\ late'[j] = late[j] /\ finTmr'[j] = finTmr[j]
        BY <1>0, <1>5, <3>2 DEF TypeOK, InTree, Connected
      <4> QED
        BY <1>0, <4>1 DEF Collections
    <3> QED
      BY <3>1, <3>2
  <2>4. CASE ~Defined
    <3>1. PendingCounted'
      BY <1>3, <2>4 DEF PendingCounted
    <3>2. Twice' # {}
      BY <1>3, <2>4, NoneTwice
    <3> QED
      BY <1>1, <2>3, <3>1, <3>2 DEF Inv, Bounded
  <2>5. CASE Defined /\ parent[i]
    <3>1. i \notin Extra /\ Extra' = Extra \union {i}
      BY <1>0, <1>5, <2>2, <2>5 DEF Extra, Twice, TypeOK
    <3>2. Cardinality(Extra') = Cardinality(Extra) + 1
      BY <3>1, OneMoreExtra
    <3>3. pending' = (pending - 1) % Width
      BY <1>5, <2>5
    <3>4. Cardinality(Counted') = Cardinality(Counted) /\ Cardinality(Counted') <= Cardinality(Counted)
      BY <2>1, CountedFinite
    <3>5. PendingCounted' /\ Bounded'
      BY <1>3, <3>2, <3>3, <3>4, CountsDown
    <3> QED
      BY <1>1, <2>3, <3>5 DEF Inv
  <2>6. CASE Defined /\ ~parent[i]
    <3>1. Extra' = Extra
      BY <1>0, <1>5, <2>6 DEF Extra, Twice, TypeOK
    <3>2. pending' = pending
      BY <1>5, <2>6
    <3>3. PendingCounted' /\ Bounded'
      BY <1>3, <2>1, <3>1, <3>2, Quiet
    <3> QED
      BY <1>1, <2>3, <3>3 DEF Inv
  <2> QED
    BY <2>4, <2>5, <2>6
<1> QED
  BY <1>4, <1>5

LEMMA CollectInv ==
    ASSUME Inv, NEW i \in Socks, socket_garbage_collect(i)
    PROVE  Inv'
<1> USE DEF socket_garbage_collect
<1>0. TypeOK /\ Collections
  BY DEF Inv
<1>1. TypeOK'
  BY <1>0 DEF TypeOK
<1>2. \A j \in Socks : (late'[j] = "once" => late[j] = "once") /\ (late[j] = "freed" => late'[j] = "freed")
  BY <1>0 DEF TypeOK
<1>3. (Defined' => Defined) /\ (Twice' = {} => Twice = {})
  BY <1>2 DEF Defined, Twice
<1>4. CASE ~Defined'
  <2>1. Twice' # {}
    BY <1>4 DEF Defined, Twice
  <2> QED
    BY <1>1, <1>4, <2>1 DEF Inv, PendingCounted, Bounded, Collections
<1>5. CASE Defined'
  <2>1. late[i] = "once" /\ late' = late
    BY <1>0, <1>5 DEF Defined, TypeOK
  <2>2. state[i] = "deleted" /\ gc[i] = 1
    BY <1>0, <1>3, <1>5, <2>1 DEF Collections
  <2>3. Counted' = Counted
    BY <1>0, <2>2 DEF Counted, InUse, Connected, TypeOK
  <2>4. Extra' = Extra
    BY <2>1 DEF Extra, Twice
  <2>5. PendingCounted' /\ Bounded'
    BY <1>3, <2>3, <2>4, Quiet
  <2>6. Collections'
    BY <1>0, <1>3, <1>5, <2>1, <2>2 DEF Collections, TypeOK
  <2> QED
    BY <1>1, <2>5, <2>6 DEF Inv
<1> QED
  BY <1>4, <1>5

LEMMA SynInv ==
    ASSUME Inv, NEW i \in Socks, NEW c \in Clients, tcp_syn(i, c)
    PROVE  Inv'
<1> USE DEF tcp_syn, NewChild
<1>0. TypeOK /\ Collections
  BY DEF Inv
<1>1. TypeOK'
  BY <1>0, ListenerAssumption DEF TypeOK, Connected
<1>2. Defined' = Defined /\ Twice' = Twice
  BY DEF Defined, Twice
<1>3. i \notin Counted /\ Counted' = Counted \union {i}
  BY <1>0 DEF Counted, InUse, Connected, TypeOK
<1>4. Cardinality(Counted') = Cardinality(Counted) + 1
  BY <1>3, OneJoins
<1>5. ASSUME Defined PROVE late[i] = "once" /\ Extra' = Extra
  <2>1. late[i] = "once"
    BY <1>0, <1>5 DEF Collections, Defined, TypeOK
  <2> QED
    BY <1>0, <2>1 DEF Extra, Twice, TypeOK
<1>6. Collections'
  BY <1>0, <1>2, <1>5 DEF Collections, TypeOK
<1>7. PendingCounted'
  <2> SUFFICES ASSUME Defined
               PROVE  pending' = (Cardinality(Counted') - Cardinality(Extra')) % Width
    BY <1>2 DEF PendingCounted, Extra
  <2> DEFINE a == Cardinality(Counted) - Cardinality(Extra)
  <2>1. pending = a % Width
    BY CountIs DEF Inv
  <2>2. a \in Int
    BY CountedFinite
  <2>3. Cardinality(Counted') - Cardinality(Extra') = a + 1
    BY <1>4, <1>5, CountedFinite
  <2> HIDE DEF a
  <2>4. (a % Width) + 1 < Width
    BY <1>0, <2>1, ListenerAssumption DEF TypeOK
  <2>5. (a + 1) % Width = pending + 1
    BY <2>1, <2>2, <2>4, ModUp
  <2> QED
    BY <2>3, <2>5
<1>8. Bounded'
  <2> SUFFICES ASSUME Twice = {} PROVE Cardinality(Counted') <= Backlog
    BY <1>2 DEF Bounded
  <2>1. Defined /\ Cardinality(Extra) = 0
    BY NoneTwice
  <2>2. Cardinality(Counted) <= Backlog /\ pending = (Cardinality(Counted) - Cardinality(Extra)) % Width
    BY <2>1, CountIs DEF Inv, Bounded
  <2>3. Cardinality(Counted) \in 0..(Width - 1) /\ Cardinality(Counted) - Cardinality(Extra) = Cardinality(Counted)
    BY <2>1, <2>2, CountedFinite, ListenerAssumption
  <2>4. pending = Cardinality(Counted)
    BY <2>2, <2>3, ModSmall
  <2> QED
    BY <1>4, <2>3, <2>4, ListenerAssumption
<1> QED
  BY <1>1, <1>6, <1>7, <1>8 DEF Inv

LEMMA AcceptInv ==
    ASSUME Inv, NEW i \in Socks, pico_socket_accept(i)
    PROVE  Inv'
<1> USE DEF pico_socket_accept
<1>0. TypeOK /\ Collections
  BY DEF Inv
<1>1. TypeOK'
  BY <1>0, ModRange DEF TypeOK
<1>2. Defined' = Defined /\ Twice' = Twice
  BY DEF Defined, Twice
<1>3. i \in Counted /\ Counted' = Counted \ {i}
  BY <1>0 DEF Counted, InUse, Connected, TypeOK
<1>4. Cardinality(Counted') = Cardinality(Counted) - 1 /\ Cardinality(Counted') <= Cardinality(Counted)
  BY <1>3, OneLeaves, CountedFinite
<1>5. Collections'
  BY <1>0, <1>2 DEF Collections
<1>6. CASE Defined
  <2>1. i \notin Twice
    BY <1>0, <1>6 DEF Collections, Defined, Twice, TypeOK
  <2>2. Extra' = Extra
    BY <1>0, <1>2, <2>1 DEF Extra, Twice, TypeOK
  <2>3. PendingCounted' /\ Bounded'
    BY <1>2, <1>4, <2>2, CountsDown
  <2> QED
    BY <1>1, <1>5, <2>3 DEF Inv
<1>7. CASE ~Defined
  <2>1. Twice # {}
    BY <1>7, NoneTwice
  <2> QED
    BY <1>1, <1>2, <1>5, <1>7, <2>1 DEF Inv, PendingCounted, Bounded
<1> QED
  BY <1>6, <1>7

LEMMA NextInv == Inv /\ [Next]_vars => Inv'
<1> SUFFICES ASSUME Inv, [Next]_vars PROVE Inv'
  OBVIOUS
<1>0. TypeOK /\ Collections
  BY DEF Inv
<1>1. ASSUME NEW i \in Socks, Reset(i) PROVE Inv'
  BY <1>0, <1>1, DelInv DEF Reset, TypeOK, InUse, InTree
<1>2. ASSUME NEW i \in Socks, LingerExpires(i) PROVE Inv'
  <2>1. finTmr' \in [Socks -> BOOLEAN] /\ \A j \in Socks : finTmr'[j] => finTmr[j]
    BY <1>0, <1>2 DEF LingerExpires, TypeOK
  <2>2. InUse(i)
    BY <1>2 DEF LingerExpires, InUse, InTree
  <2> QED
    BY <1>2, <2>1, <2>2, DelInv DEF LingerExpires
<1>3. ASSUME NEW i \in Socks,
             tcp_first_ack(i) \/ tcp_closeconn(i) \/ tcp_closewait(i) \/ pico_socket_close(i)
      PROVE  Inv'
  <2> USE <1>3 DEF tcp_first_ack, tcp_closeconn, tcp_closewait, pico_socket_close
  <2>1. TypeOK'
    BY <1>0 DEF TypeOK, Connected
  <2>2. Counted' = Counted
    BY <1>0 DEF Counted, InUse, Connected, TypeOK
  <2>3. Extra' = Extra /\ Twice' = Twice /\ Defined' = Defined
    BY DEF Extra, Twice, Defined
  <2>4. Collections'
    BY <1>0, <2>3 DEF Collections, TypeOK
  <2>5. PendingCounted' /\ Bounded'
    BY <2>2, <2>3, Quiet
  <2> QED
    BY <2>1, <2>4, <2>5 DEF Inv
<1>4. ASSUME CloseListener \/ FreeListener \/ UNCHANGED vars PROVE Inv'
  <2> USE <1>4 DEF CloseListener, FreeListener, vars
  <2>1. TypeOK'
    BY <1>0 DEF TypeOK
  <2>2. Counted' = Counted /\ Extra' = Extra /\ Twice' = Twice /\ Defined' = Defined
    BY DEF Counted, InUse, Extra, Twice, Defined
  <2>3. Collections'
    BY <1>0 DEF Collections, Defined
  <2>4. PendingCounted' /\ Bounded'
    BY <2>2, Quiet
  <2> QED
    BY <2>1, <2>3, <2>4 DEF Inv
<1> QED
  BY <1>1, <1>2, <1>3, <1>4, LateInv, CollectInv, SynInv, AcceptInv DEF Next

LEMMA InvHolds == Spec => []Inv
BY InitInv, NextInv, PTL DEF Spec

(* The counter of pending connections is exact: it equals the number of    *)
(* children that pico_socket_accept has not returned, whatever mixture of  *)
(* resets, timeouts, closes and accepts ended the others, less one for     *)
(* each child deleted twice, modulo the width of the counter.              *)
THEOREM CounterExact == Spec => []PendingCounted
<1>1. Inv => PendingCounted
  BY DEF Inv
<1> QED
  BY <1>1, InvHolds, PTL

(* As long as no linger timer has deleted a socket twice, no more than     *)
(* max_backlog children ever wait for pico_socket_accept.                  *)
THEOREM BacklogNeverExceeded == Spec => []BacklogKept
<1>1. ASSUME Inv PROVE BacklogKept
  <2>1. Waiting \in SUBSET Counted
    BY DEF Waiting, Counted, InTree, InUse
  <2>2. Cardinality(Waiting) <= Cardinality(Counted) /\ IsFiniteSet(Waiting)
    BY <2>1, CountedFinite, FS_Subset
  <2>3. Cardinality(Waiting) \in Nat
    BY <2>2, FS_CardinalityType
  <2> QED
    BY <1>1, <2>2, <2>3, CountedFinite, ListenerAssumption DEF Inv, Bounded, BacklogKept
<1> QED
  BY <1>1, InvHolds, PTL

-----------------------------------------------------------------------------
(* Who is in the tree, and what a timer points to.  A deletion by endpoint *)
(* finds the socket itself because no two sockets in the tree have the     *)
(* same endpoint.                                                          *)
OnePerClient == \A i, j \in Socks : InTree(i) /\ InTree(j) /\ remote[i] = remote[j] => i = j

PeersInv == TypeOK /\ OnePerClient /\ NoTimerAfterFree /\ OnlyItself

LEMMA TypePreserved == TypeOK /\ [Next]_vars => TypeOK'
<1> SUFFICES ASSUME TypeOK, [Next]_vars PROVE TypeOK'
  OBVIOUS
<1>1. ASSUME NEW i \in Socks, pico_socket_del(i)
      PROVE  /\ pending' \in 0..(Width - 1) /\ gc' \in [Socks -> Nat]
             /\ state' \in [Socks -> Connected \union {"LOST", "unlisted", "deleted", "free"}]
  <2>1. (pending - 1) % Width \in 0..(Width - 1)
    BY ModRange DEF TypeOK
  <2> QED
    BY <1>1, <2>1 DEF pico_socket_del, TypeOK
<1>2. ASSUME NEW i \in Socks, Reset(i) \/ LingerExpires(i) \/ LingerExpiresLate(i) PROVE TypeOK'
  BY <1>1, <1>2 DEF Reset, LingerExpires, LingerExpiresLate, TypeOK
<1>3. ASSUME NEW i \in Socks, socket_garbage_collect(i) PROVE TypeOK'
  BY <1>3 DEF socket_garbage_collect, TypeOK
<1>4. ASSUME NEW i \in Socks, NEW c \in Clients, tcp_syn(i, c) PROVE TypeOK'
  BY <1>4, ListenerAssumption DEF tcp_syn, NewChild, TypeOK, Connected
<1>5. ASSUME NEW i \in Socks, tcp_first_ack(i) \/ tcp_closeconn(i) \/ tcp_closewait(i) \/ pico_socket_close(i)
      PROVE  TypeOK'
  BY <1>5 DEF tcp_first_ack, tcp_closeconn, tcp_closewait, pico_socket_close, TypeOK, Connected
<1>6. ASSUME NEW i \in Socks, pico_socket_accept(i) PROVE TypeOK'
  BY <1>6, ModRange DEF pico_socket_accept, TypeOK
<1>7. ASSUME CloseListener \/ FreeListener \/ UNCHANGED vars PROVE TypeOK'
  BY <1>7 DEF CloseListener, FreeListener, vars, TypeOK
<1> QED
  BY <1>2, <1>3, <1>4, <1>5, <1>6, <1>7 DEF Next

(* A step that brings no socket into the tree, loses one only after a      *)
(* second deletion, and arms a timer only of one that is not freed.        *)
LEMMA LeavingKeepsPeers ==
    ASSUME PeersInv, remote' = remote, TypeOK',
           \A j \in Socks : InTree(j)' => InTree(j),
           \A j \in Socks : finTmr'[j] => state'[j] # "free",
           Twice' = {} => Twice = {} /\ \A j \in Socks : state'[j] = "LOST" => state[j] = "LOST"
    PROVE  PeersInv'
BY DEF PeersInv, OnePerClient, NoTimerAfterFree, OnlyItself

LEMMA NextPeers == PeersInv /\ [Next]_vars => PeersInv'
<1> SUFFICES ASSUME PeersInv, [Next]_vars PROVE PeersInv'
  OBVIOUS
<1>0. TypeOK /\ OnePerClient /\ NoTimerAfterFree /\ TypeOK' /\ OnlyItself
  BY TypePreserved DEF PeersInv
<1>a. ASSUME late' = late PROVE Twice' = Twice
  BY <1>a DEF Twice
<1>1. ASSUME NEW i \in Socks, Reset(i) \/ LingerExpires(i) PROVE PeersInv'
  <2> USE <1>1 DEF Reset, LingerExpires, pico_socket_del
  <2>1. remote' = remote /\ late' = late
    OBVIOUS
  <2>2. \A j \in Socks : InTree(j)' => InTree(j)
    BY <1>0 DEF TypeOK, InTree, Connected
  <2>3. \A j \in Socks : finTmr'[j] => state'[j] # "free"
    BY <1>0 DEF TypeOK, NoTimerAfterFree
  <2>4. ASSUME Twice = {}, NEW j \in Socks, state'[j] = "LOST" PROVE state[j] = "LOST"
    <3>1. state[i] # "LOST" /\ InTree(i)
      BY <1>0, <2>4 DEF OnlyItself
    <3>2. j # i => ~(InTree(j) /\ remote[j] = remote[i])
      BY <1>0, <3>1 DEF OnePerClient
    <3> QED
      BY <1>0, <2>4, <3>1, <3>2 DEF TypeOK
  <2> QED
    BY <1>0, <1>a, <2>1, <2>2, <2>3, <2>4, LeavingKeepsPeers
<1>2. ASSUME NEW i \in Socks, LingerExpiresLate(i) PROVE PeersInv'
  <2> USE <1>2 DEF LingerExpiresLate, pico_socket_del
  <2>1. remote' = remote
    OBVIOUS
  <2>2. \A j \in Socks : InTree(j)' => InTree(j)
    BY <1>0 DEF TypeOK, InTree, Connected
  <2>3. \A j \in Socks : finTmr'[j] => state'[j] # "free"
    BY <1>0 DEF TypeOK, NoTimerAfterFree
  <2>4. CASE SockPort
    <3>1. late'[i] # "once"
      BY <1>0, <2>4 DEF TypeOK
    <3>2. Twice' # {}
      BY <3>1 DEF Twice
    <3> QED
      BY <1>0, <2>1, <2>2, <2>3, <3>2, LeavingKeepsPeers
  <2>5. CASE ~SockPort
    BY <1>0, <1>a, <2>1, <2>2, <2>3, <2>5, LeavingKeepsPeers
  <2> QED
    BY <2>4, <2>5
<1>3. ASSUME NEW i \in Socks, socket_garbage_collect(i) PROVE PeersInv'
  <2> USE <1>3 DEF socket_garbage_collect
  <2>1. remote' = remote
    OBVIOUS
  <2>2. \A j \in Socks : InTree(j)' => InTree(j)
    BY <1>0 DEF TypeOK, InTree, Connected
  <2>3. \A j \in Socks : finTmr'[j] => state'[j] # "free"
    BY <1>0 DEF TypeOK, NoTimerAfterFree
  <2>4. \A j \in Socks : (state'[j] = "LOST" => state[j] = "LOST") /\ (late'[j] = "once" => late[j] = "once")
    BY <1>0 DEF TypeOK
  <2>5. Twice' = {} => Twice = {}
    BY <2>4 DEF Twice
  <2> QED
    BY <1>0, <2>1, <2>2, <2>3, <2>4, <2>5, LeavingKeepsPeers
<1>4. ASSUME NEW i \in Socks, NEW c \in Clients, tcp_syn(i, c) PROVE PeersInv'
  <2> USE <1>4 DEF tcp_syn, NewChild
  <2>1. \A j \in Socks : InTree(j)' => j = i \/ (InTree(j) /\ remote'[j] = remote[j] /\ remote[j] # c)
    BY <1>0 DEF TypeOK, InTree
  <2>2. remote'[i] = c
    BY <1>0 DEF TypeOK
  <2>3. OnePerClient'
    BY <1>0, <2>1, <2>2 DEF OnePerClient
  <2>4. NoTimerAfterFree'
    BY <1>0 DEF NoTimerAfterFree, TypeOK
  <2>5. OnlyItself'
    BY <1>0, <1>a DEF OnlyItself, TypeOK
  <2> QED
    BY <1>0, <2>3, <2>4, <2>5 DEF PeersInv
<1>5. ASSUME NEW i \in Socks, tcp_first_ack(i) \/ tcp_closeconn(i) \/ tcp_closewait(i) \/
                              pico_socket_accept(i) \/ pico_socket_close(i)
      PROVE  PeersInv'
  <2> USE <1>5 DEF tcp_first_ack, tcp_closeconn, tcp_closewait, pico_socket_accept, pico_socket_close
  <2>1. remote' = remote /\ late' = late
    OBVIOUS
  <2>2. \A j \in Socks : InTree(j)' => InTree(j)
    BY <1>0 DEF TypeOK, InTree, Connected
  <2>3. \A j \in Socks : finTmr'[j] => state'[j] # "free"
    BY <1>0 DEF TypeOK, NoTimerAfterFree
  <2>4. \A j \in Socks : state'[j] = "LOST" => state[j] = "LOST"
    BY <1>0 DEF TypeOK
  <2> QED
    BY <1>0, <1>a, <2>1, <2>2, <2>3, <2>4, LeavingKeepsPeers
<1>6. ASSUME CloseListener \/ FreeListener \/ UNCHANGED vars PROVE PeersInv'
  BY <1>0, <1>6 DEF CloseListener, FreeListener, vars, PeersInv, OnePerClient, NoTimerAfterFree, InTree,
                    OnlyItself, Twice
<1> QED
  BY <1>1, <1>2, <1>3, <1>4, <1>5, <1>6 DEF Next

LEMMA PeersHold == Spec => []PeersInv
<1>1. Init => PeersInv
  BY ListenerAssumption DEF Init, PeersInv, TypeOK, OnePerClient, NoTimerAfterFree, InTree, Connected, OnlyItself
<1> QED
  BY <1>1, NextPeers, PTL DEF Spec

(* Although pico_socket_del searches the tree by endpoint, and a peer may  *)
(* be back before its old socket is collected, a socket leaves the tree    *)
(* only when it is deleted itself, until a linger timer deletes a socket a *)
(* second time.                                                            *)
THEOREM DeletesOnlyItself == Spec => []OnlyItself
<1>1. PeersInv => OnlyItself
  BY DEF PeersInv
<1> QED
  BY <1>1, PeersHold, PTL

(* The linger timer never points at memory that is free, or that another   *)
(* connection uses: the collection of a socket cancels it first.           *)
THEOREM NoDanglingLinger == Spec => []NoTimerAfterFree
<1>1. PeersInv => NoTimerAfterFree
  BY DEF PeersInv
<1> QED
  BY <1>1, PeersHold, PTL

-----------------------------------------------------------------------------
(* A group while IGMPv3 is alone on the link.                              *)

McStates == {"none", "NON_MEMBER", "DELAYING_MEMBER", "IDLE_MEMBER"}
McEvents == {"CREATE", "UPDATE", "DELETE", "QUERY", "REPORT"}
McRecords == {"unset", "TO_IN", "TO_EX", "ALLOW", "BLOCK"}

IsGroup(p) == p \in [listen : {p.listen}, refs : {p.refs}, filter : {p.filter}, state : {p.state},
                     f : {p.f}, timer : {p.timer}]
(* One timer at most: that of the object in the tree.                      *)
OneTimer(tree) == [tree |-> tree, own |-> IF tree = "none" THEN 0 ELSE 1, old |-> 0, freed |-> 0]

(* A member that delays its report has a timer running and a report to send.*)
Steady(p) ==
    /\ IsGroup(p) /\ p.state \in McStates
    /\ \E tree \in {"none", "running", "stopped"} : p.timer = OneTimer(tree)
    /\ p.state = "DELAYING_MEMBER" => p.timer.tree = "running" /\ p.f \notin {"freed", "none"}

LEMMA ReportIs ==
    ASSUME igmpLink.compat = "v3", NEW p, NEW new, NEW event \in McEvents
    PROVE  LET r == pico_igmp_generate_report(p, new, event) IN
           IF p.filter.mode = "none" THEN r = "fail"
           ELSE r \in McRecords \union {"none"} /\ (event = "QUERY" => r = "unset")
<1>1. \A a, b : src_filtering_inc_inc(a, b, event) \in McRecords \union {"none"}
  BY DEF src_filtering_inc_inc, McRecords
<1>2. \A a, b : src_filtering_excl_excl(a, b) \in McRecords \union {"none"}
  BY DEF src_filtering_excl_excl, McRecords
<1>3. /\ pico_mcast_generate_filter(p.filter, new, event) \in McRecords \union {"none"}
      /\ event = "QUERY" => pico_mcast_generate_filter(p.filter, new, event) = "unset"
  <2>1. CASE event = "QUERY"
    BY <2>1 DEF pico_mcast_generate_filter, McRecords
  <2>2. CASE event = "DELETE"
    BY <1>1, <2>2 DEF pico_mcast_generate_filter, McRecords
  <2>3. CASE event \notin {"QUERY", "DELETE"} /\ p.filter.mode # new.mode
    BY <2>3 DEF pico_mcast_generate_filter, McRecords
  <2>4. CASE event \notin {"QUERY", "DELETE"} /\ p.filter.mode = new.mode
    BY <1>1, <1>2, <2>4 DEF pico_mcast_generate_filter
  <2> QED
    BY <2>1, <2>2, <2>3, <2>4
<1> QED
  BY <1>3 DEF pico_igmp_generate_report

LEMMA TimerStartStop ==
    ASSUME NEW tree \in {"none", "running", "stopped"}
    PROVE  /\ pico_igmp_timer_start(OneTimer(tree)) = OneTimer("running")
           /\ tree # "none" => pico_igmp_timer_stop(OneTimer(tree)) = OneTimer("stopped")
           /\ OneTimer(tree).tree = tree
<1>1. CASE tree = "none"
  BY <1>1 DEF pico_igmp_timer_start, OneTimer
<1>2. CASE tree = "running"
  BY <1>2 DEF pico_igmp_timer_start, pico_igmp_timer_stop, OneTimer
<1>3. CASE tree = "stopped"
  BY <1>3 DEF pico_igmp_timer_start, pico_igmp_timer_stop, OneTimer
<1> QED
  BY <1>1, <1>2, <1>3

LEMMA StartedIs ==
    ASSUME NEW p, Steady(p), NEW r \in McRecords
    PROVE  Steady(Started(p, r))
<1>1. PICK tree \in {"none", "running", "stopped"} : p.timer = OneTimer(tree)
  BY DEF Steady
<1> DEFINE t == OneTimer("running")
           q == [p EXCEPT !.f = r, !.timer = t, !.state = "DELAYING_MEMBER"]
<1>2. pico_igmp_timer_start(p.timer) = t /\ t.tree = "running"
  BY <1>1, TimerStartStop
<1>3. Started(p, r) = q
  BY <1>2 DEF Started
<1>4. r \notin {"freed", "none"}
  BY DEF McRecords
<1> HIDE DEF t
<1>5. IsGroup(q) /\ q.f = r /\ q.state = "DELAYING_MEMBER" /\ q.timer = t
  BY DEF Steady, IsGroup
<1> HIDE DEF q
<1> QED
  BY <1>2, <1>3, <1>4, <1>5 DEF Steady, McStates, t

LEMMA ReportStarts ==
    ASSUME igmpLink.compat = "v3", NEW p, Steady(p), NEW new, NEW event \in {"CREATE", "UPDATE"},
           p.state # "DELAYING_MEMBER"
    PROVE  Steady(srsfst(p, new, event))
<1> DEFINE r == pico_igmp_generate_report(p, new, event)
<1>1. r = "fail" \/ r \in McRecords \union {"none"}
  BY ReportIs DEF McEvents
<1>2. srsfst(p, new, event) = CASE r = "fail" -> p [] r = "none" -> [p EXCEPT !.f = "none"]
                                [] OTHER -> Started(p, r)
  BY DEF srsfst
<1> HIDE DEF r
<1>3. CASE r = "fail"
  BY <1>2, <1>3
<1>4. CASE r = "none"
  <2> DEFINE q == [p EXCEPT !.f = "none"]
  <2>1. IsGroup(q) /\ q.f = "none" /\ q.state = p.state /\ q.timer = p.timer
    BY DEF Steady, IsGroup
  <2>2. srsfst(p, new, event) = q
    BY <1>2, <1>4
  <2> HIDE DEF q
  <2> QED
    BY <2>1, <2>2 DEF Steady
<1>5. CASE r \in McRecords
  <2>1. r \notin {"fail", "none"}
    BY <1>5 DEF McRecords
  <2>2. srsfst(p, new, event) = Started(p, r)
    BY <1>2, <2>1
  <2> QED
    BY <1>5, <2>2, StartedIs
<1> QED
  BY <1>1, <1>3, <1>4, <1>5

(* The events of sockets and packets.  A group that is deleted is one the  *)
(* link has.                                                               *)
LEMMA TableIs ==
    ASSUME igmpLink.compat = "v3", NEW p, Steady(p), p.state # "none", NEW new, NEW event \in McEvents,
           event = "DELETE" => p.filter.mode # "none"
    PROVE  Steady(host_membership_diagram_table(p, new, event))
<1> DEFINE r == host_membership_diagram_table(p, new, event)
<1>1. PICK tree \in {"none", "running", "stopped"} : p.timer = OneTimer(tree)
  BY DEF Steady
<1>2. OneTimer(tree).tree = tree
  BY TimerStartStop
<1>3. tree # "none" => pico_igmp_timer_stop(p.timer) = OneTimer("stopped")
  BY <1>1, TimerStartStop
<1>4. IsGroup(p) /\ p.state \in McStates
  BY DEF Steady
<1>5. Steady(discard(p)) \/ p.state = "DELAYING_MEMBER"
  <2> DEFINE q == [p EXCEPT !.f = "freed"]
  <2>1. IsGroup(q) /\ q.f = "freed" /\ q.state = p.state /\ q.timer = p.timer
    BY <1>4 DEF IsGroup
  <2>2. discard(p) = p \/ discard(p) = q
    BY DEF discard
  <2> HIDE DEF q
  <2> QED
    BY <2>1, <2>2 DEF Steady
<1>6. CASE p.state = "NON_MEMBER"
  <2>1. r = IF event \in {"CREATE", "UPDATE"} THEN srsfst(p, new, event) ELSE discard(p)
    BY <1>6 DEF host_membership_diagram_table
  <2> QED
    BY <1>5, <1>6, <2>1, ReportStarts
<1>7. CASE p.state = "DELAYING_MEMBER"
  <2>1. p.timer.tree = "running" /\ p.f \notin {"freed", "none"} /\ tree = "running"
    BY <1>1, <1>2, <1>7 DEF Steady
  <2>2. CASE event = "DELETE"
    <3>1. r = stslifs(p, new)
      BY <1>7, <2>2 DEF host_membership_diagram_table
    <3>2. pico_igmp_generate_report(p, new, "DELETE") # "fail"
      BY <2>2, ReportIs DEF McEvents, McRecords
    <3> DEFINE t == OneTimer("stopped")
               q == [p EXCEPT !.timer = t, !.state = "none", !.f = "none"]
    <3>3. r = q
      BY <1>3, <2>1, <3>1, <3>2 DEF stslifs
    <3> HIDE DEF t
    <3>4. IsGroup(q) /\ q.state = "none" /\ q.timer = t
      BY <1>4 DEF IsGroup
    <3> HIDE DEF q
    <3> QED
      BY <3>3, <3>4 DEF Steady, McStates, t
  <2>3. CASE event \in {"CREATE", "UPDATE"}
    <3>1. r = mrsrrt(p)
      BY <1>7, <2>3 DEF host_membership_diagram_table
    <3> DEFINE q == [p EXCEPT !.state = "DELAYING_MEMBER"]
    <3>2. r = q
      BY <2>1, <3>1 DEF mrsrrt
    <3>3. IsGroup(q) /\ q.state = p.state /\ q.timer = p.timer /\ q.f = p.f
      BY <1>4, <1>7 DEF IsGroup
    <3> HIDE DEF q
    <3> QED
      BY <3>2, <3>3 DEF Steady
  <2>4. CASE event = "QUERY"
    BY <1>7, <2>4 DEF host_membership_diagram_table, rtimrtct
  <2>5. CASE event = "REPORT"
    <3>1. r = stcl(p)
      BY <1>7, <2>5 DEF host_membership_diagram_table
    <3> DEFINE t == OneTimer("stopped")
               q == [p EXCEPT !.timer = t, !.state = "IDLE_MEMBER"]
    <3>2. r = q
      BY <1>3, <2>1, <3>1 DEF stcl
    <3> HIDE DEF t
    <3>3. IsGroup(q) /\ q.state = "IDLE_MEMBER" /\ q.timer = t
      BY <1>4 DEF IsGroup
    <3> HIDE DEF q
    <3> QED
      BY <3>2, <3>3 DEF Steady, McStates, t
  <2> QED
    BY <2>2, <2>3, <2>4, <2>5 DEF McEvents
<1>8. CASE p.state = "IDLE_MEMBER"
  <2>1. CASE event = "DELETE"
    <3>1. r = slifs(p, new)
      BY <1>8, <2>1 DEF host_membership_diagram_table
    <3> DEFINE q == [p EXCEPT !.state = "none", !.f = "none"]
    <3>2. r = p \/ r = q
      BY <3>1 DEF slifs
    <3>3. IsGroup(q) /\ q.state = "none" /\ q.timer = p.timer
      BY <1>4 DEF IsGroup
    <3> HIDE DEF q
    <3> QED
      BY <1>1, <3>2, <3>3 DEF Steady, McStates
  <2>2. CASE event \in {"CREATE", "UPDATE"}
    BY <1>8, <2>2, ReportStarts DEF host_membership_diagram_table, srst
  <2>3. CASE event = "QUERY"
    <3> DEFINE x == pico_igmp_generate_report(p, NotListening, "QUERY")
    <3>1. x = "fail" \/ x = "unset"
      BY ReportIs DEF McEvents
    <3>2. r = IF x = "fail" THEN p ELSE Started(p, x)
      BY <1>8, <2>3 DEF host_membership_diagram_table, st
    <3> QED
      BY <3>1, <3>2, StartedIs DEF McRecords
  <2>4. CASE event = "REPORT"
    BY <1>5, <1>8, <2>4 DEF host_membership_diagram_table
  <2> QED
    BY <2>1, <2>2, <2>3, <2>4 DEF McEvents
<1> QED
  BY <1>4, <1>6, <1>7, <1>8 DEF McStates

LEMMA StateChangeIs ==
    ASSUME igmpLink.compat = "v3", NEW p, Steady(p), NEW new, NEW event \in {"CREATE", "UPDATE", "DELETE"},
           event = "DELETE" => p.filter.mode # "none"
    PROVE  Steady(pico_igmp_state_change(p, new, event))
<1>1. CASE p.state # "none"
  BY <1>1, TableIs DEF pico_igmp_state_change, McEvents
<1>2. CASE p.state = "none" /\ event = "CREATE"
  <2> DEFINE q == [p EXCEPT !.state = "NON_MEMBER"]
  <2>1. IsGroup(q) /\ q.state = "NON_MEMBER" /\ q.timer = p.timer
    BY DEF Steady, IsGroup
  <2>2. pico_igmp_state_change(p, new, event) = host_membership_diagram_table(q, new, event)
    BY <1>2 DEF pico_igmp_state_change
  <2> HIDE DEF q
  <2>3. Steady(q) /\ q.state # "none"
    BY <2>1 DEF Steady, McStates
  <2> QED
    BY <1>2, <2>2, <2>3, TableIs DEF McEvents
<1>3. CASE p.state = "none" /\ event # "CREATE"
  BY <1>3 DEF pico_igmp_state_change
<1> QED
  BY <1>1, <1>2, <1>3

(* Fields that the report timers do not depend on.                         *)
LEMMA OtherField ==
    ASSUME NEW p, Steady(p), NEW n, NEW q,
           q = [p EXCEPT !.refs = n] \/ q = [p EXCEPT !.filter = n] \/ q = [p EXCEPT !.listen = n]
    PROVE  Steady(q)
<1>1. IsGroup(q) /\ q.f = p.f /\ q.state = p.state /\ q.timer = p.timer
  BY DEF Steady, IsGroup
<1> QED
  BY <1>1 DEF Steady

LEMMA AsksIs ==
    ASSUME NEW p, Steady(p), NEW s, NEW mode, NEW src
    PROVE  Steady(Asks(p, s, mode, src))
<1> DEFINE l == [p.listen EXCEPT ![s] = [mode |-> mode, src |-> src]]
<1>1. Asks(p, s, mode, src) = [p EXCEPT !.listen = l]
  BY DEF Asks
<1> HIDE DEF l
<1> QED
  BY <1>1, OtherField

LEMMA JoinLeaveAre ==
    ASSUME igmpLink.compat = "v3", NEW p, Steady(p), NEW count
    PROVE  Steady(Join(p, count)) /\ Steady(Leave(p, count))
<1> DEFINE new == pico_socket_aggregate_mcastfilters(p.listen)
<1> HIDE DEF new
<1>1. Steady(Join(p, count))
  <2>1. CASE p.filter.mode # "none"
    <3> DEFINE q == [p EXCEPT !.refs = @ + count]
               r == pico_igmp_state_change(q, new, "UPDATE")
    <3>1. Join(p, count) = [r EXCEPT !.filter = new]
      BY <2>1 DEF Join, pico_ipv4_mcast_join, mcast_group_update, new
    <3>2. Steady(q)
      BY OtherField
    <3> HIDE DEF q
    <3>3. Steady(r)
      BY <3>2, StateChangeIs
    <3> HIDE DEF r
    <3> QED
      BY <3>1, <3>3, OtherField
  <2>2. CASE p.filter.mode = "none"
    <3> DEFINE n == [mode |-> "INCLUDE", src |-> {}]
               q == [p EXCEPT !.refs = 1, !.filter = n]
               r == pico_igmp_state_change(q, new, "CREATE")
    <3>1. Join(p, count) = [r EXCEPT !.filter = new]
      BY <2>2 DEF Join, pico_ipv4_mcast_join, mcast_group_update, new
    <3> HIDE DEF n
    <3>2. IsGroup(q) /\ q.f = p.f /\ q.state = p.state /\ q.timer = p.timer
      BY DEF Steady, IsGroup
    <3>3. Steady(q)
      BY <3>2 DEF Steady
    <3> HIDE DEF q
    <3>4. Steady(r)
      BY <3>3, StateChangeIs
    <3> HIDE DEF r
    <3> QED
      BY <3>1, <3>4, OtherField
  <2> QED
    BY <2>1, <2>2
<1>2. Steady(Leave(p, count))
  <2>1. CASE p.filter.mode = "none"
    BY <2>1 DEF Leave, pico_ipv4_mcast_leave
  <2>2. CASE p.filter.mode # "none" /\ count = 1 /\ p.refs = 1
    <3> DEFINE q == [p EXCEPT !.refs = 0]
               r == pico_igmp_state_change(q, new, "DELETE")
    <3>1. Leave(p, count) = [r EXCEPT !.filter = NotListening]
      BY <2>2 DEF Leave, pico_ipv4_mcast_leave, new
    <3>2. Steady(q) /\ q.filter = p.filter
      BY OtherField DEF Steady, IsGroup
    <3> HIDE DEF q
    <3>3. Steady(r)
      BY <2>2, <3>2, StateChangeIs
    <3> HIDE DEF r
    <3> QED
      BY <3>1, <3>3, OtherField
  <2>3. CASE p.filter.mode # "none" /\ ~(count = 1 /\ p.refs = 1)
    <3> DEFINE q == [p EXCEPT !.refs = @ - count]
               r == pico_igmp_state_change(q, new, "UPDATE")
    <3>1. Leave(p, count) = [r EXCEPT !.filter = new]
      BY <2>3 DEF Leave, pico_ipv4_mcast_leave, mcast_group_update, new
    <3>2. Steady(q)
      BY OtherField
    <3> HIDE DEF q
    <3>3. Steady(r)
      BY <3>2, StateChangeIs
    <3> HIDE DEF r
    <3> QED
      BY <3>1, <3>3, OtherField
  <2> QED
    BY <2>1, <2>2, <2>3
<1> QED
  BY <1>1, <1>2

-----------------------------------------------------------------------------
(* The invariant.  Once another version than IGMPv3 has been heard it says *)
(* no more than that this is remembered.                                   *)

McAddrs == McGroups \union {General}
IsLink == igmpLink \in [compat : {igmpLink.compat}, querier : {igmpLink.querier}, mixed : Nat,
                        crashed : {igmpLink.crashed}]
V3Alone ==
    /\ igmpLink.compat = "v3" /\ igmpLink.querier = NoTimer /\ ~igmpLink.crashed
    /\ DOMAIN mcast = McAddrs /\ \A g \in McAddrs : Steady(mcast[g])
McInv == IsLink /\ (igmpLink.mixed = 0 => V3Alone)

LEMMA BecomesIs ==
    ASSUME McInv, igmpLink.mixed = 0, NEW g \in McAddrs, NEW p, Steady(p), Becomes(g, p)
    PROVE  McInv'
<1>1. p.state # "crash"
  BY DEF Steady, McStates
<1>2. mcast' = [mcast EXCEPT ![g] = p] /\ igmpLink' = igmpLink
  BY <1>1 DEF Becomes
<1>3. DOMAIN mcast' = McAddrs /\ \A h \in McAddrs : Steady(mcast'[h])
  BY <1>2 DEF McInv, V3Alone
<1> QED
  BY <1>2, <1>3 DEF McInv, V3Alone, IsLink

LEMMA LinkWith ==
    ASSUME IsLink, NEW l, NEW c, NEW q, NEW x,
           l = [igmpLink EXCEPT !.crashed = c] \/ l = [igmpLink EXCEPT !.compat = c]
           \/ l = [igmpLink EXCEPT !.querier = q] \/ l = [igmpLink EXCEPT !.compat = c, !.querier = q]
           \/ l = [igmpLink EXCEPT !.crashed = x, !.compat = c, !.querier = q]
    PROVE  l.mixed = igmpLink.mixed
           /\ l \in [compat : {l.compat}, querier : {l.querier}, mixed : Nat, crashed : {l.crashed}]
BY DEF IsLink

LEMMA MixedGrows ==
    ASSUME McInv, NEW g, RefusedPacket(g) \/ pico_igmp_compatibility_mode(g)
    PROVE  McInv'
<1> DEFINE n == igmpLink.mixed + 1
           q == pico_igmp_timer_start(Dropped(igmpLink.querier))
<1>1. IsLink /\ n \in Nat /\ n # 0
  BY DEF McInv, IsLink
<1>2. igmpLink' = [igmpLink EXCEPT !.mixed = n]
      \/ igmpLink' = [igmpLink EXCEPT !.compat = "v2", !.mixed = n, !.querier = q]
  BY DEF RefusedPacket, pico_igmp_compatibility_mode
<1> HIDE DEF n, q
<1>3. IsLink' /\ igmpLink'.mixed = n
  BY <1>1, <1>2 DEF IsLink
<1> QED
  BY <1>1, <1>3 DEF McInv

(* Crashes, too, are remembered.                                           *)
LEMMA MixedStays ==
    ASSUME McInv, igmpLink.mixed # 0, McNext
    PROVE  McInv'
<1>1. ASSUME NEW g, NEW p, Becomes(g, p) PROVE McInv'
  BY <1>1 DEF Becomes, McCrash, McInv, IsLink
<1>2. ASSUME NEW s \in 1..McSockets, pico_multicast_delete(s) PROVE McInv'
  BY <1>2 DEF pico_multicast_delete, McCrash, McInv, IsLink
<1>3. ASSUME NEW g, NEW s, McOption(g, s) PROVE McInv'
  BY <1>1, <1>3 DEF McOption, mcast_so_addm, mcast_so_dropm, mcast_so_block_src, mcast_so_unblock_src,
                    mcast_so_addsrcm, mcast_so_dropsrcm
<1>4. ASSUME NEW g, NEW event, Igmpv3Packet(g, event) PROVE McInv'
  BY <1>4 DEF Igmpv3Packet, McInv, IsLink
<1>5. ASSUME NEW g, RefusedPacket(g) \/ pico_igmp_compatibility_mode(g) PROVE McInv'
  BY <1>5, MixedGrows
<1>6. ASSUME NEW g, pico_igmp_timer_expired(g) PROVE McInv'
  BY <1>1, <1>6 DEF pico_igmp_timer_expired, TimerEnds
<1>7. ASSUME QuerierTimer PROVE McInv'
  <2>1. ASSUME NEW q, pico_igmp_v2querier_expired(q) PROVE McInv'
    BY <2>1, LinkWith DEF pico_igmp_v2querier_expired, McInv, IsLink
  <2>2. ASSUME McCrash PROVE McInv'
    BY <2>2 DEF McCrash, McInv, IsLink
  <2> DEFINE l == igmpLink.querier
             o == l.old - 1
             w == IF l.tree = "none" THEN l.own ELSE l.own + 1
             q == [l EXCEPT !.old = o, !.own = w]
  <2>3. ASSUME igmpLink' = [igmpLink EXCEPT !.querier.old = @ - 1,
                              !.querier.own = IF igmpLink.querier.tree = "none" THEN @ ELSE @ + 1]
        PROVE  McInv'
    <3>1. igmpLink' = [igmpLink EXCEPT !.querier = q]
      BY <2>3 DEF McInv, IsLink
    <3> HIDE DEF q
    <3> QED
      BY <3>1, LinkWith DEF McInv, IsLink
  <2> QED
    BY <1>7, <2>1, <2>2, <2>3 DEF QuerierTimer
<1> QED
  BY <1>2, <1>3, <1>4, <1>5, <1>6, <1>7 DEF McNext

LEMMA OptionIs ==
    ASSUME McInv, igmpLink.mixed = 0, NEW g \in McGroups, NEW s, McOption(g, s)
    PROVE  McInv'
<1>1. g \in McAddrs /\ Steady(mcast[g]) /\ igmpLink.compat = "v3"
  BY DEF McInv, V3Alone, McAddrs
<1>2. ASSUME NEW mode, NEW src, NEW count
      PROVE  /\ Steady(Join(Asks(mcast[g], s, mode, src), count))
             /\ Steady(Leave(Asks(mcast[g], s, mode, src), count))
  BY <1>1, AsksIs, JoinLeaveAre
<1>3. CASE mcast_so_addm(g, s)
  BY <1>1, <1>2, <1>3, BecomesIs DEF mcast_so_addm
<1>4. CASE mcast_so_dropm(g, s)
  BY <1>1, <1>2, <1>4, BecomesIs DEF mcast_so_dropm
<1>5. ASSUME NEW src \in McSources, mcast_so_block_src(g, s, src) PROVE McInv'
  BY <1>1, <1>2, <1>5, BecomesIs DEF mcast_so_block_src
<1>6. ASSUME NEW src \in McSources, mcast_so_unblock_src(g, s, src) PROVE McInv'
  BY <1>1, <1>2, <1>6, BecomesIs DEF mcast_so_unblock_src
<1>7. ASSUME NEW src \in McSources, mcast_so_addsrcm(g, s, src) PROVE McInv'
  BY <1>1, <1>2, <1>7, BecomesIs DEF mcast_so_addsrcm
<1>8. ASSUME NEW src \in McSources, mcast_so_dropsrcm(g, s, src) PROVE McInv'
  BY <1>1, <1>2, <1>8, BecomesIs DEF mcast_so_dropsrcm
<1> QED
  BY <1>3, <1>4, <1>5, <1>6, <1>7, <1>8 DEF McOption

LEMMA DeleteIs ==
    ASSUME McInv, igmpLink.mixed = 0, NEW s, pico_multicast_delete(s)
    PROVE  McInv'
<1> DEFINE Left(g) == IF mcast[g].listen[s].mode = "none" THEN mcast[g]
                      ELSE Leave(Asks(mcast[g], s, "none", {}), 1)
           left == [g \in DOMAIN mcast |-> Left(g)]
<1>1. DOMAIN mcast = McAddrs /\ igmpLink.compat = "v3" /\ \A g \in McAddrs : Steady(mcast[g])
  BY DEF McInv, V3Alone
<1>2. \A g \in McAddrs : Steady(Left(g))
  BY <1>1, AsksIs, JoinLeaveAre
<1>3. IF \E g \in McGroups : left[g].state = "crash"
      THEN McCrash ELSE mcast' = left /\ UNCHANGED igmpLink
  BY DEF pico_multicast_delete
<1> HIDE DEF Left
<1>4. DOMAIN left = McAddrs /\ \A g \in McAddrs : left[g] = Left(g)
  BY <1>1
<1> HIDE DEF left
<1>5. \A g \in McGroups : left[g].state # "crash"
  BY <1>2, <1>4 DEF Steady, McStates, McAddrs
<1>6. mcast' = left /\ igmpLink' = igmpLink
  BY <1>3, <1>5
<1>7. DOMAIN mcast' = McAddrs /\ \A g \in McAddrs : Steady(mcast'[g])
  BY <1>2, <1>4, <1>6
<1> QED
  BY <1>6, <1>7 DEF McInv, V3Alone, IsLink

LEMMA AnalyseIs ==
    ASSUME NEW g, Steady(mcast[g])
    PROVE  Steady(pico_igmp_analyse_packet(g)) /\ pico_igmp_analyse_packet(g).state # "none"
<1> DEFINE p == mcast[g]
           q == [p EXCEPT !.state = "NON_MEMBER", !.f = "packet"]
           r == [p EXCEPT !.f = "packet"]
<1>1. pico_igmp_analyse_packet(g) = IF p.state = "none" THEN q ELSE r
  BY DEF pico_igmp_analyse_packet
<1>2. Steady(p)
  OBVIOUS
<1> HIDE DEF p
<1>3. /\ IsGroup(q) /\ q.state = "NON_MEMBER" /\ q.timer = p.timer
      /\ IsGroup(r) /\ r.state = p.state /\ r.timer = p.timer /\ r.f = "packet"
  BY <1>2 DEF Steady, IsGroup
<1> HIDE DEF q, r
<1>4. Steady(q) /\ q.state # "none" /\ (p.state # "none" => Steady(r) /\ r.state # "none")
  BY <1>2, <1>3 DEF Steady, McStates
<1> QED
  BY <1>1, <1>4

LEMMA PacketIs ==
    ASSUME McInv, igmpLink.mixed = 0, NEW g \in McAddrs, NEW event \in {"QUERY", "REPORT"},
           Igmpv3Packet(g, event)
    PROVE  McInv'
<1> DEFINE p == pico_igmp_analyse_packet(g)
           Table(q, e) == host_membership_diagram_table(q, NotListening, e)
<1>1. DOMAIN mcast = McAddrs /\ igmpLink.compat = "v3" /\ \A h \in McAddrs : Steady(mcast[h])
  BY DEF McInv, V3Alone
<1>2. Steady(p) /\ p.state # "none"
  BY <1>1, AnalyseIs
<1> HIDE DEF p
<1>3. \A e \in {"QUERY", "REPORT"} : Steady(Table(p, e))
  BY <1>1, <1>2, TableIs DEF McEvents
<1>4. \A h \in McAddrs : mcast[h].state # "none" => Steady(Table(mcast[h], "QUERY"))
  BY <1>1, TableIs DEF McEvents
<1>5. mcast' = IF g = General /\ event = "QUERY"
               THEN [h \in DOMAIN mcast |->
                       IF h = g THEN Table(p, "QUERY")
                       ELSE IF mcast[h].state = "none" THEN mcast[h] ELSE Table(mcast[h], "QUERY")]
               ELSE [mcast EXCEPT ![g] = Table(p, event)]
  BY DEF Igmpv3Packet, p
<1> HIDE DEF Table
<1>6. DOMAIN mcast' = McAddrs /\ \A h \in McAddrs : Steady(mcast'[h])
  <2>1. CASE g = General /\ event = "QUERY"
    BY <1>1, <1>3, <1>4, <1>5, <2>1
  <2>2. CASE ~(g = General /\ event = "QUERY")
    BY <1>1, <1>3, <1>5, <2>2
  <2> QED
    BY <2>1, <2>2
<1>7. igmpLink' = [igmpLink EXCEPT !.compat = "v3"]
  BY DEF Igmpv3Packet
<1> QED
  BY <1>6, <1>7 DEF McInv, V3Alone, IsLink

(* The timer that fires was the only one: nothing is left behind.          *)
LEMMA FreedIs ==
    ASSUME NEW tree
    PROVE  FreedWith([tree |-> tree, own |-> 1, old |-> 0, freed |-> 0], 0)
             = [tree |-> "none", own |-> 0, old |-> 0, freed |-> 0]
<1> DEFINE t == [tree |-> tree, own |-> 1, old |-> 0, freed |-> 0]
<1>1. t.freed + 0 = 0
  OBVIOUS
<1>2. [t EXCEPT !.tree = "none", !.own = 0, !.freed = 0] \in
          [tree : {"none"}, own : {0}, old : {0}, freed : {0}]
  OBVIOUS
<1>3. \A u \in [tree : {"none"}, own : {0}, old : {0}, freed : {0}] :
          u = [tree |-> "none", own |-> 0, old |-> 0, freed |-> 0]
  OBVIOUS
<1> QED
  BY <1>1, <1>2, <1>3 DEF FreedWith

LEMMA TimerIs ==
    ASSUME McInv, igmpLink.mixed = 0, NEW g \in McAddrs, pico_igmp_timer_expired(g)
    PROVE  McInv'
<1> DEFINE p == mcast[g]
           t == p.timer
           n == OneTimer("none")
           q == [p EXCEPT !.timer = n]
<1>1. Steady(p) /\ ~igmpLink.crashed
  BY DEF McInv, V3Alone
<1>2. PICK tree \in {"none", "running", "stopped"} : t = OneTimer(tree)
  BY <1>1 DEF Steady
<1>3. t.old = 0 /\ t.freed = 0 /\ t.tree = tree /\ t.own = IF tree = "none" THEN 0 ELSE 1
  BY <1>2 DEF OneTimer
<1>4. tree # "none" => FreedWith(t, t.own - 1) = n
  <2> SUFFICES ASSUME tree # "none" PROVE FreedWith(t, 0) = n
    BY <1>3
  <2>1. t = [tree |-> tree, own |-> 1, old |-> 0, freed |-> 0]
    BY <1>2 DEF OneTimer
  <2> QED
    BY <2>1, FreedIs DEF OneTimer
<1>5. \/ t.own > 0 /\ t.tree = "stopped" /\ Becomes(g, [p EXCEPT !.timer = FreedWith(t, t.own - 1)])
      \/ t.own > 0 /\ t.tree = "running" /\ TimerEnds(g, FreedWith(t, t.own - 1))
  BY <1>3 DEF pico_igmp_timer_expired
<1>6. tree # "none"
  BY <1>3, <1>5
<1>7. n.tree = "none"
  BY DEF OneTimer
<1> HIDE DEF n
<1>8. IsGroup(q) /\ q.state = p.state /\ q.f = p.f /\ q.timer = n
  BY <1>1 DEF Steady, IsGroup
<1>9. CASE t.tree = "stopped"
  <2>1. Becomes(g, q)
    BY <1>4, <1>5, <1>6, <1>9
  <2> HIDE DEF q
  <2>2. p.state # "DELAYING_MEMBER"
    BY <1>1, <1>9 DEF Steady
  <2>3. Steady(q)
    BY <1>1, <1>8, <2>2 DEF Steady, n
  <2> QED
    BY <2>1, <2>3, BecomesIs
<1>10. CASE t.tree = "running"
  <2> DEFINE r == IF q.state = "none" THEN q ELSE host_membership_diagram_table(q, NotListening, "TIMER")
  <2>1. Becomes(g, r)
    BY <1>4, <1>5, <1>6, <1>10 DEF TimerEnds
  <2> HIDE DEF q
  <2>2. CASE p.state = "DELAYING_MEMBER"
    <3> DEFINE x == [q EXCEPT !.state = "IDLE_MEMBER", !.f = "freed"]
    <3>1. q.f # "freed"
      BY <1>1, <1>8, <2>2 DEF Steady
    <3>2. r = x
      BY <1>8, <2>2, <3>1 DEF host_membership_diagram_table, srsf
    <3>3. IsGroup(x) /\ x.state = "IDLE_MEMBER" /\ x.timer = n
      BY <1>8 DEF IsGroup
    <3> HIDE DEF x
    <3>4. Steady(x)
      BY <3>3 DEF Steady, McStates, n
    <3> QED
      BY <2>1, <3>2, <3>4, BecomesIs
  <2>3. CASE p.state # "DELAYING_MEMBER"
    <3> DEFINE x == [q EXCEPT !.f = "freed"]
    <3>1. r = q \/ r = x
      BY <1>1, <1>8, <2>3 DEF host_membership_diagram_table, discard, Steady, McStates
    <3>2. IsGroup(x) /\ x.state = q.state /\ x.timer = n
      BY <1>8 DEF IsGroup
    <3> HIDE DEF x
    <3>3. Steady(x) /\ Steady(q)
      BY <1>1, <1>8, <2>3, <3>2 DEF Steady, n
    <3> QED
      BY <2>1, <3>1, <3>3, BecomesIs
  <2> QED
    BY <2>2, <2>3
<1> QED
  BY <1>5, <1>9, <1>10

LEMMA McStep ==
    ASSUME McInv, [McNext]_mcastVars
    PROVE  McInv'
<1>1. CASE UNCHANGED mcastVars
  BY <1>1 DEF mcastVars, McInv, V3Alone, IsLink
<1>2. CASE McNext /\ igmpLink.mixed # 0
  BY <1>2, MixedStays
<1>3. CASE McNext /\ igmpLink.mixed = 0
  <2>1. DOMAIN mcast = McAddrs /\ igmpLink.querier = NoTimer
    BY <1>3 DEF McInv, V3Alone
  <2>2. ASSUME NEW g, RefusedPacket(g) \/ pico_igmp_compatibility_mode(g) PROVE McInv'
    BY <2>2, MixedGrows
  <2>3. ~QuerierTimer
    BY <2>1 DEF QuerierTimer, NoTimer
  <2> QED
    BY <1>3, <2>1, <2>2, <2>3, OptionIs, DeleteIs, PacketIs, TimerIs DEF McNext
<1> QED
  BY <1>1, <1>2, <1>3

LEMMA McStarts ==
    ASSUME McInit
    PROVE  McInv
<1>1. IsLink /\ igmpLink.compat = "v3" /\ igmpLink.querier = NoTimer /\ ~igmpLink.crashed
  BY DEF McInit, IsLink
<1>2. NoTimer = OneTimer("none")
  BY DEF NoTimer, OneTimer
<1>3. ASSUME NEW g \in McAddrs PROVE Steady(mcast[g])
  <2> DEFINE p == [listen |-> [s \in 1..McSockets |-> NotListening], refs |-> 0, filter |-> NotListening,
                   state |-> "none", f |-> "none", timer |-> NoTimer]
  <2>1. mcast[g] = p
    BY DEF McInit, NoMembership, McAddrs
  <2>2. IsGroup(p) /\ p.state = "none" /\ p.timer = NoTimer
    BY DEF IsGroup
  <2> HIDE DEF p
  <2> QED
    BY <1>2, <2>1, <2>2 DEF Steady, McStates
<1>4. DOMAIN mcast = McAddrs
  BY DEF McInit, NoMembership, McAddrs
<1> QED
  BY <1>1, <1>3, <1>4 DEF McInv, V3Alone

(* With IGMPv3 alone on the link, whatever the sockets ask for and the     *)
(* routers query, a group that owes a report (DELAYING_MEMBER) has exactly *)
(* one timer that will send it; no timer is left over or points to a freed *)
(* object, and no freed frame is sent (pico_igmp_timer_start, _stop and    *)
(* _expired, host_membership_diagram_table).                               *)
THEOREM ReportsNeverLost == McSpec => []McReportsAhead
<1>1. McInit => McInv
  BY McStarts
<1>2. McInv /\ [McNext]_mcastVars => McInv'
  BY McStep
<1>3. McInv => McReportsAhead
  <2> SUFFICES ASSUME McInv, igmpLink.mixed = 0, NEW g \in McAddrs
               PROVE  LET t == mcast[g].timer IN
                      /\ t.old = 0 /\ t.freed = 0 /\ t.own = (IF t.tree = "none" THEN 0 ELSE 1)
                      /\ mcast[g].state = "DELAYING_MEMBER" => t.tree = "running"
    BY DEF McInv, V3Alone, McReportsAhead
  <2>1. Steady(mcast[g])
    BY DEF McInv, V3Alone
  <2> QED
    BY <2>1 DEF Steady, OneTimer
<1> QED
  BY <1>1, <1>2, <1>3, PTL DEF McSpec

-----------------------------------------------------------------------------
(* A set of numbers has a least one.                                       *)
LEMMA Least ==
    ASSUME NEW S \in SUBSET Nat, S # {}
    PROVE  \E x \in S : \A y \in S : x <= y
<1> DEFINE R == OpToRel(<, Nat)
<1>1. IsWellFoundedOn(R, Nat)
  BY NatLessThanWellFounded
<1> HIDE DEF R
<1>2. PICK x \in S : \A y \in S : ~(<<y, x>> \in R)
  BY <1>1, WFMin
<1>3. \A y \in S : ~(y < x)
  BY <1>2 DEF R, OpToRel
<1> QED
  BY <1>3

-----------------------------------------------------------------------------
(* What the filters of the sockets are merged into.                        *)

Filters == [mode : {"none", "INCLUDE", "EXCLUDE"}, src : SUBSET McSources]

(* A socket that includes sources includes one at least.                   *)
Listens ==
    {l \in [1..McSockets -> Filters] :
        \A s \in 1..McSockets : l[s].mode = "INCLUDE" => l[s].src # {}}
Asking(l) == {s \in 1..McSockets : l[s].mode # "none"}

Merge(f, l) ==
    CASE l.mode = "none" -> f
      [] f.mode = "EXCLUDE" /\ l.mode = "EXCLUDE" -> pico_mcast_filter_excl_excl(f, l)
      [] f.mode = "EXCLUDE" /\ l.mode = "INCLUDE" -> pico_mcast_filter_excl_incl(f, l)
      [] f.mode = "INCLUDE" /\ l.mode = "EXCLUDE" -> pico_mcast_filter_incl_excl(f, l)
      [] f.mode = "INCLUDE" /\ l.mode = "INCLUDE" -> pico_mcast_filter_incl_incl(f, l)
Merges(l, m, g) ==
    g = [n \in 0..m |-> IF n = 0 THEN [mode |-> "INCLUDE", src |-> {}] ELSE Merge(g[n - 1], l[n])]

LEMMA MergesExists ==
    ASSUME NEW l, NEW k \in Nat
    PROVE  \E g : Merges(l, k, g)
<1> DEFINE Bad == {m \in Nat : ~ \E g : Merges(l, m, g)}
           none == [mode |-> "INCLUDE", src |-> {}]
<1> SUFFICES ASSUME Bad # {} PROVE FALSE
  OBVIOUS
<1>1. PICK m \in Bad : \A y \in Bad : m <= y
  BY Least
<1> HIDE DEF none
<1>2. CASE m = 0
  <2> DEFINE g == [i \in 0..0 |-> none]
  <2>1. g = [i \in 0..0 |-> IF i = 0 THEN none ELSE Merge(g[i - 1], l[i])]
    OBVIOUS
  <2> QED
    BY <1>1, <1>2, <2>1 DEF Merges, none
<1>3. CASE m # 0
  <2>1. m - 1 \in Nat /\ m - 1 \notin Bad
    BY <1>1, <1>3
  <2>2. PICK g : Merges(l, m - 1, g)
    BY <2>1
  <2>3. g = [i \in 0..(m - 1) |-> IF i = 0 THEN none ELSE Merge(g[i - 1], l[i])]
    BY <2>2 DEF Merges, none
  <2> DEFINE f == [i \in 0..m |-> IF i = 0 THEN none ELSE Merge(g[i - 1], l[i])]
  <2>4. ASSUME NEW i \in 1..m PROVE f[i - 1] = g[i - 1]
    <3>1. i - 1 \in 0..(m - 1) /\ i - 1 \in 0..m
      BY <1>1
    <3> QED
      BY <2>3, <3>1
  <2>5. \A i \in 0..m : f[i] = IF i = 0 THEN none ELSE Merge(g[i - 1], l[i])
    OBVIOUS
  <2>6. f = [i \in 0..m |-> f[i]]
    OBVIOUS
  <2> HIDE DEF f
  <2>7. \A i \in 0..m : i # 0 => i \in 1..m
    BY <1>1
  <2>8. \A i \in 0..m : f[i] = IF i = 0 THEN none ELSE Merge(f[i - 1], l[i])
    BY <2>4, <2>5, <2>7
  <2>9. Merges(l, m, f)
    BY <2>6, <2>8 DEF Merges, none
  <2> QED
    BY <1>1, <2>9
<1> QED
  BY <1>2, <1>3

LEMMA AggregateIs ==
    ASSUME NEW l
    PROVE  \E g : Merges(l, McSockets, g)
                  /\ pico_socket_aggregate_mcastfilters(l) = g[McSockets]
<1>1. \E g : Merges(l, McSockets, g)
  BY McAssumption, MergesExists
<1>2. pico_socket_aggregate_mcastfilters(l) = (CHOOSE g : Merges(l, McSockets, g))[McSockets]
  BY DEF pico_socket_aggregate_mcastfilters, Merges, Merge
<1> QED
  BY <1>1, <1>2

(* What is true of the first n sockets merged.                             *)
MergedOK(l, n, f) ==
    LET asking == {s \in 1..n : l[s].mode # "none"} IN
    /\ f \in Filters /\ f.mode # "none"
    /\ asking # {} /\ f.mode = "INCLUDE" => f.src # {}
    /\ (\A s \in asking : l[s].mode = "INCLUDE") =>
          f.mode = "INCLUDE" /\ \A s \in asking : l[s].src \subseteq f.src
    /\ asking = {} => f.src = {}
    /\ asking # {} /\ (\A s \in asking : l[s].mode = "EXCLUDE") =>
          f.mode = "EXCLUDE" /\ \A s \in asking : f.src \subseteq l[s].src
    /\ f.mode = "INCLUDE" => \A s \in asking : l[s].mode = "INCLUDE"

LEMMA MergeOK ==
    ASSUME NEW l \in Listens, NEW n \in 1..McSockets, NEW f, MergedOK(l, n - 1, f)
    PROVE  MergedOK(l, n, Merge(f, l[n]))
<1> DEFINE c == l[n]
           r == Merge(f, c)
           before == {s \in 1..(n - 1) : l[s].mode # "none"}
           now == {s \in 1..n : l[s].mode # "none"}
<1>1. c \in Filters /\ (c.mode = "INCLUDE" => c.src # {})
  BY DEF Listens
<1>2. now = IF c.mode = "none" THEN before ELSE before \union {n}
  BY McAssumption
<1>3. f \in Filters /\ f.mode \in {"INCLUDE", "EXCLUDE"}
  BY DEF MergedOK, Filters
<1>4. ASSUME NEW g \in Filters PROVE g.src \subseteq McSources /\ g.mode \in {"none", "INCLUDE", "EXCLUDE"}
  BY DEF Filters
<1> SUFFICES /\ r \in Filters /\ r.mode # "none"
             /\ now # {} /\ r.mode = "INCLUDE" => r.src # {}
             /\ (\A s \in now : l[s].mode = "INCLUDE") =>
                   r.mode = "INCLUDE" /\ \A s \in now : l[s].src \subseteq r.src
             /\ now = {} => r.src = {}
             /\ now # {} /\ (\A s \in now : l[s].mode = "EXCLUDE") =>
                   r.mode = "EXCLUDE" /\ \A s \in now : r.src \subseteq l[s].src
             /\ r.mode = "INCLUDE" => \A s \in now : l[s].mode = "INCLUDE"
  BY DEF MergedOK
<1>5. /\ before # {} /\ f.mode = "INCLUDE" => f.src # {}
      /\ (\A s \in before : l[s].mode = "INCLUDE") =>
            f.mode = "INCLUDE" /\ \A s \in before : l[s].src \subseteq f.src
      /\ before = {} => f.src = {}
      /\ before # {} /\ (\A s \in before : l[s].mode = "EXCLUDE") =>
            f.mode = "EXCLUDE" /\ \A s \in before : f.src \subseteq l[s].src
      /\ f.mode = "INCLUDE" => \A s \in before : l[s].mode = "INCLUDE"
  BY DEF MergedOK
<1>6. CASE c.mode = "none"
  <2>1. r = f /\ now = before
    BY <1>2, <1>6 DEF Merge
  <2> HIDE DEF r, now, before
  <2> QED
    BY <1>3, <1>5, <2>1
<1>7. CASE c.mode = "INCLUDE" /\ f.mode = "INCLUDE"
  <2>1. r = [mode |-> "INCLUDE", src |-> f.src \union c.src]
    BY <1>7 DEF Merge, pico_mcast_filter_incl_incl
  <2>2. r \in Filters /\ r.mode = "INCLUDE" /\ r.src = f.src \union c.src
    BY <1>1, <1>3, <1>4, <2>1 DEF Filters
  <2>3. now = before \union {n} /\ l[n] = c
    BY <1>2, <1>7
  <2> HIDE DEF r, now, before, c
  <2> QED
    BY <1>1, <1>5, <1>7, <2>2, <2>3
<1>8. CASE c.mode = "EXCLUDE" /\ f.mode = "INCLUDE"
  <2>1. r = [mode |-> "EXCLUDE", src |-> IF c.src = {} THEN f.src ELSE c.src \ f.src]
    BY <1>8 DEF Merge, pico_mcast_filter_incl_excl
  <2>2. r \in Filters /\ r.mode = "EXCLUDE" /\ r.src = IF c.src = {} THEN f.src ELSE c.src \ f.src
    BY <1>1, <1>3, <1>4, <2>1 DEF Filters
  <2>3. now = before \union {n} /\ l[n] = c
    BY <1>2, <1>8
  <2>4. before # {} => \E s \in before : l[s].mode = "INCLUDE"
    BY <1>5, <1>8
  <2> HIDE DEF r, now, before, c
  <2> QED
    BY <1>1, <1>5, <1>8, <2>2, <2>3, <2>4
<1>9. CASE c.mode = "INCLUDE" /\ f.mode = "EXCLUDE"
  <2>1. r = [mode |-> "EXCLUDE", src |-> f.src \ c.src]
    BY <1>9 DEF Merge, pico_mcast_filter_excl_incl
  <2>2. r \in Filters /\ r.mode = "EXCLUDE"
    BY <1>1, <1>3, <1>4, <2>1 DEF Filters
  <2>3. now = before \union {n} /\ l[n] = c
    BY <1>2, <1>9
  <2> HIDE DEF r, now, before, c
  <2> QED
    BY <1>1, <1>5, <1>9, <2>2, <2>3
<1>10. CASE c.mode = "EXCLUDE" /\ f.mode = "EXCLUDE"
  <2>1. r = [mode |-> "EXCLUDE", src |-> f.src \intersect c.src]
    BY <1>10 DEF Merge, pico_mcast_filter_excl_excl
  <2>2. r \in Filters /\ r.mode = "EXCLUDE" /\ r.src = f.src \intersect c.src
    BY <1>1, <1>3, <1>4, <2>1 DEF Filters
  <2>3. now = before \union {n} /\ l[n] = c
    BY <1>2, <1>10
  <2>4. before # {}
    BY <1>5, <1>10
  <2> HIDE DEF r, now, before, c
  <2> QED
    BY <1>1, <1>5, <1>10, <2>2, <2>3, <2>4
<1> QED
  BY <1>1, <1>3, <1>4, <1>6, <1>7, <1>8, <1>9, <1>10

LEMMA AggregateOK ==
    ASSUME NEW l \in Listens
    PROVE  MergedOK(l, McSockets, pico_socket_aggregate_mcastfilters(l))
<1>1. PICK g : Merges(l, McSockets, g) /\ pico_socket_aggregate_mcastfilters(l) = g[McSockets]
  BY AggregateIs
<1>2. \A n \in 0..McSockets :
        g[n] = IF n = 0 THEN [mode |-> "INCLUDE", src |-> {}] ELSE Merge(g[n - 1], l[n])
  BY <1>1 DEF Merges
<1> DEFINE Bad == {n \in 0..McSockets : ~MergedOK(l, n, g[n])}
<1>0. ASSUME Bad = {} PROVE MergedOK(l, McSockets, pico_socket_aggregate_mcastfilters(l))
  <2>1. McSockets \in 0..McSockets
    BY McAssumption
  <2>2. McSockets \notin Bad
    BY <1>0
  <2>3. MergedOK(l, McSockets, g[McSockets])
    BY <2>1, <2>2
  <2> QED
    BY <1>1, <2>3
<1> SUFFICES ASSUME Bad # {} PROVE FALSE
  BY <1>0
<1>3. PICK m \in Bad : \A y \in Bad : m <= y
  <2>1. Bad \in SUBSET Nat
    BY McAssumption
  <2> HIDE DEF Bad
  <2> QED
    BY <2>1, Least
<1>4. m # 0
  <2>1. g[0] = [mode |-> "INCLUDE", src |-> {}]
    BY <1>2, McAssumption
  <2>2. MergedOK(l, 0, g[0])
    BY <2>1 DEF MergedOK, Filters
  <2> QED
    BY <1>3, <2>2
<1>5. m \in 1..McSockets /\ m - 1 \in 0..McSockets /\ m - 1 \notin Bad
  BY <1>3, <1>4, McAssumption
<1>6. MergedOK(l, m - 1, g[m - 1])
  BY <1>5
<1>7. g[m] = Merge(g[m - 1], l[m])
  BY <1>2, <1>3, <1>4
<1>8. MergedOK(l, m, g[m])
  BY <1>5, <1>6, <1>7, MergeOK
<1> QED
  BY <1>3, <1>8

-----------------------------------------------------------------------------
(* What the automaton of a group leaves alone, with any version of IGMP.   *)

McTimerObjects == [tree : {"none", "running", "stopped"}, own : Nat, old : Nat, freed : Nat]
Formed(p) ==
    /\ IsGroup(p) /\ p.timer \in McTimerObjects /\ p.state \in McStates \union {"crash"}
Kept(p, q) == Formed(q) /\ q.listen = p.listen /\ q.refs = p.refs /\ q.filter = p.filter

LEMMA ObjectsStay ==
    ASSUME NEW t \in McTimerObjects
    PROVE  /\ pico_igmp_timer_start(t) \in McTimerObjects
           /\ pico_igmp_timer_stop(t) \in McTimerObjects
           /\ Dropped(t) \in McTimerObjects
           /\ \A n \in Nat : FreedWith(t, n) \in McTimerObjects
<1>2. pico_igmp_timer_start(t) \in McTimerObjects
  BY DEF McTimerObjects, pico_igmp_timer_start
<1>3. pico_igmp_timer_stop(t) \in McTimerObjects
  BY DEF McTimerObjects, pico_igmp_timer_stop
<1>4. Dropped(t) \in McTimerObjects
  <2> DEFINE o == t.old + t.own
             d == [t EXCEPT !.tree = "none", !.own = 0, !.old = o]
  <2>1. Dropped(t) = d
    BY DEF Dropped, McTimerObjects
  <2>2. o \in Nat
    BY DEF McTimerObjects
  <2> HIDE DEF o
  <2>3. d \in McTimerObjects
    BY <2>2 DEF McTimerObjects
  <2> QED
    BY <2>1, <2>3
<1>5. ASSUME NEW n \in Nat PROVE FreedWith(t, n) \in McTimerObjects
  <2> DEFINE o == t.freed + n
             d == [t EXCEPT !.tree = "none", !.own = 0, !.freed = o]
  <2>1. FreedWith(t, n) = d
    BY DEF FreedWith, McTimerObjects
  <2>2. o \in Nat
    BY DEF McTimerObjects
  <2> HIDE DEF o
  <2>3. d \in McTimerObjects
    BY <2>2 DEF McTimerObjects
  <2> QED
    BY <2>1, <2>3
<1> QED
  BY <1>2, <1>3, <1>4, <1>5

LEMMA ChangeKept ==
    ASSUME NEW p, Formed(p), NEW t \in McTimerObjects, NEW s \in McStates \union {"crash"}, NEW f
    PROVE  /\ Kept(p, [p EXCEPT !.timer = t]) /\ Kept(p, [p EXCEPT !.f = f])
           /\ Kept(p, [p EXCEPT !.state = s]) /\ Kept(p, [p EXCEPT !.state = s, !.f = f])
           /\ Kept(p, [p EXCEPT !.timer = t, !.state = s])
           /\ Kept(p, [p EXCEPT !.timer = t, !.state = s, !.f = f])
           /\ Kept(p, [p EXCEPT !.f = f, !.timer = t, !.state = s])
BY DEF Kept, Formed, IsGroup

LEMMA KeptSelf ==
    ASSUME NEW p, Formed(p)
    PROVE  Kept(p, p)
BY DEF Kept

LEMMA StartedKept ==
    ASSUME NEW p, Formed(p), NEW r
    PROVE  Kept(p, Started(p, r)) /\ Started(p, r).state = "DELAYING_MEMBER"
<1> DEFINE t == pico_igmp_timer_start(p.timer)
           q == [p EXCEPT !.f = r, !.timer = t, !.state = "DELAYING_MEMBER"]
<1>1. t \in McTimerObjects
  BY ObjectsStay DEF Formed
<1>2. Started(p, r) = q
  BY DEF Started
<1> HIDE DEF t
<1>3. q.state = "DELAYING_MEMBER"
  BY DEF Formed, IsGroup
<1>4. Kept(p, q)
  BY <1>1, ChangeKept DEF McStates
<1> QED
  BY <1>2, <1>3, <1>4

LEMMA TableKept ==
    ASSUME NEW p, Formed(p), NEW new, NEW event \in McEvents \union {"TIMER"},
           p.state \in McStates \ {"none"}
    PROVE  LET r == host_membership_diagram_table(p, new, event) IN
           Kept(p, r) /\ (event \in {"QUERY", "REPORT"} => r.state # "crash")
<1> DEFINE r == host_membership_diagram_table(p, new, event)
           stop == pico_igmp_timer_stop(p.timer)
           a == [p EXCEPT !.f = "none"]
           b == [p EXCEPT !.f = "freed"]
           c == [p EXCEPT !.state = "crash"]
           d == [p EXCEPT !.state = "DELAYING_MEMBER"]
           e == [p EXCEPT !.state = "IDLE_MEMBER", !.f = "freed"]
           f == [p EXCEPT !.state = "none", !.f = "none"]
           g == [p EXCEPT !.timer = stop]
           h == [p EXCEPT !.timer = stop, !.state = "none", !.f = "none"]
           i == [p EXCEPT !.timer = stop, !.state = "IDLE_MEMBER"]
<1>0. stop \in McTimerObjects
  BY ObjectsStay DEF Formed
<1>1. srsfst(p, new, event) \in {p, a} \/ \E x : srsfst(p, new, event) = Started(p, x)
  BY DEF srsfst
<1>2. discard(p) \in {p, b}
  BY DEF discard
<1>3. mrsrrt(p) \in {p, c, d}
  BY DEF mrsrrt
<1>4. srsf(p) \in {c, e}
  BY DEF srsf
<1>5. slifs(p, new) \in {p, f}
  BY DEF slifs
<1>6. stslifs(p, new) \in {p, g, h}
  BY DEF stslifs
<1>7. stcl(p) \in {p, i}
  BY DEF stcl
<1>8. srst(p, new, event) \in {p, srsfst(p, new, event)}
  BY DEF srst
<1>9. st(p) = p \/ \E x : st(p) = Started(p, x)
  BY DEF st
<1>10. \A x : Kept(p, Started(p, x)) /\ Started(p, x).state # "crash"
  BY StartedKept
<1>11. /\ Kept(p, p) /\ Kept(p, a) /\ Kept(p, b) /\ Kept(p, c) /\ Kept(p, d) /\ Kept(p, e)
       /\ Kept(p, f) /\ Kept(p, g) /\ Kept(p, h) /\ Kept(p, i)
  <2> HIDE DEF stop
  <2> QED
    BY <1>0, KeptSelf, ChangeKept DEF McStates
<1>12. /\ a.state = p.state /\ b.state = p.state /\ i.state = "IDLE_MEMBER"
       /\ p.state \in {"NON_MEMBER", "DELAYING_MEMBER", "IDLE_MEMBER"}
  <2> HIDE DEF stop
  <2> QED
    BY DEF Formed, IsGroup, McStates
<1> HIDE DEF a, b, c, d, e, f, g, h, i, stop
<1>13. CASE event \in {"CREATE", "UPDATE"}
  <2>1. r \in {srsfst(p, new, event), mrsrrt(p), srst(p, new, event)}
    BY <1>12, <1>13 DEF host_membership_diagram_table
  <2> HIDE DEF r
  <2> QED
    BY <1>1, <1>3, <1>8, <1>10, <1>11, <1>13, <2>1 DEF r
<1>14. CASE event = "DELETE"
  <2>1. r \in {discard(p), stslifs(p, new), slifs(p, new)}
    BY <1>12, <1>14 DEF host_membership_diagram_table
  <2> HIDE DEF r
  <2> QED
    BY <1>2, <1>5, <1>6, <1>11, <1>14, <2>1 DEF r
<1>15. CASE event = "QUERY"
  <2>1. r \in {discard(p), p, st(p)}
    BY <1>12, <1>15 DEF host_membership_diagram_table, rtimrtct
  <2> HIDE DEF r
  <2> QED
    BY <1>2, <1>9, <1>10, <1>11, <1>12, <1>15, <2>1 DEF r
<1>16. CASE event = "REPORT"
  <2>1. r \in {discard(p), stcl(p)}
    BY <1>12, <1>16 DEF host_membership_diagram_table
  <2> HIDE DEF r
  <2> QED
    BY <1>2, <1>7, <1>11, <1>12, <1>16, <2>1 DEF r
<1>17. CASE event = "TIMER"
  <2>1. r \in {discard(p), srsf(p)}
    BY <1>12, <1>17 DEF host_membership_diagram_table
  <2> HIDE DEF r
  <2> QED
    BY <1>2, <1>4, <1>11, <1>17, <2>1 DEF r
<1> QED
  BY <1>13, <1>14, <1>15, <1>16, <1>17 DEF McEvents

LEMMA StateChangeKept ==
    ASSUME NEW p, Formed(p), p.state \in McStates, NEW new, NEW event \in McEvents
    PROVE  Kept(p, pico_igmp_state_change(p, new, event))
<1>1. CASE p.state # "none"
  <2>1. pico_igmp_state_change(p, new, event) = host_membership_diagram_table(p, new, event)
    BY <1>1 DEF pico_igmp_state_change
  <2> QED
    BY <1>1, <2>1, TableKept
<1>2. CASE p.state = "none" /\ event = "CREATE"
  <2> DEFINE q == [p EXCEPT !.state = "NON_MEMBER"]
  <2>1. Kept(p, q) /\ q.state = "NON_MEMBER"
    BY ChangeKept DEF McStates, Formed, IsGroup
  <2>2. pico_igmp_state_change(p, new, event) = host_membership_diagram_table(q, new, event)
    BY <1>2 DEF pico_igmp_state_change
  <2> HIDE DEF q
  <2>3. Kept(q, host_membership_diagram_table(q, new, event))
    BY <2>1, TableKept DEF McStates, Kept
  <2> QED
    BY <2>1, <2>2, <2>3 DEF Kept
<1>3. CASE p.state = "none" /\ event # "CREATE"
  BY <1>3, KeptSelf DEF pico_igmp_state_change
<1> QED
  BY <1>1, <1>2, <1>3

(* The sockets, the count and the filter of a group agree.                 *)
Agreed(p) ==
    /\ Formed(p) /\ p.listen \in Listens /\ p.refs = Cardinality(Asking(p.listen))
    /\ p.filter = IF Asking(p.listen) = {} THEN NotListening
                  ELSE pico_socket_aggregate_mcastfilters(p.listen)

LEMMA AskingFinite ==
    ASSUME NEW l
    PROVE  IsFiniteSet(Asking(l)) /\ Cardinality(Asking(l)) \in 0..McSockets
<1>1. IsFiniteSet(1..McSockets) /\ Cardinality(1..McSockets) = McSockets
  BY McAssumption, FS_Interval
<1>2. Asking(l) \subseteq 1..McSockets
  BY DEF Asking
<1>3. IsFiniteSet(Asking(l)) /\ Cardinality(Asking(l)) <= McSockets
  BY <1>1, <1>2, FS_Subset
<1> QED
  BY <1>3, FS_CardinalityType, McAssumption

LEMMA FilterOf ==
    ASSUME NEW p, Agreed(p)
    PROVE  (p.filter.mode = "none") = (Asking(p.listen) = {}) /\ p.filter \in Filters
<1>1. CASE Asking(p.listen) = {}
  BY <1>1 DEF Agreed, NotListening, Filters
<1>2. CASE Asking(p.listen) # {}
  BY <1>2, AggregateOK DEF Agreed, MergedOK
<1> QED
  BY <1>1, <1>2

(* One socket changes what it asks for.                                    *)
LEMMA AskingWith ==
    ASSUME NEW l \in Listens, NEW s \in 1..McSockets, NEW f \in Filters, f.mode = "INCLUDE" => f.src # {},
           NEW m, m = [l EXCEPT ![s] = f]
    PROVE  /\ m \in Listens
           /\ Asking(m) = IF f.mode = "none" THEN Asking(l) \ {s} ELSE Asking(l) \union {s}
           /\ f.mode = "none" /\ s \in Asking(l) => Cardinality(Asking(m)) = Cardinality(Asking(l)) - 1
           /\ f.mode # "none" /\ s \notin Asking(l) => Cardinality(Asking(m)) = Cardinality(Asking(l)) + 1
           /\ f.mode = "none" /\ s \notin Asking(l) => Cardinality(Asking(m)) = Cardinality(Asking(l))
           /\ f.mode # "none" /\ s \in Asking(l) => Cardinality(Asking(m)) = Cardinality(Asking(l))
<1>1. m \in [1..McSockets -> Filters] /\ \A r \in 1..McSockets : m[r] = IF r = s THEN f ELSE l[r]
  BY DEF Listens
<1>2. m \in Listens
  BY <1>1 DEF Listens
<1>3. Asking(m) = IF f.mode = "none" THEN Asking(l) \ {s} ELSE Asking(l) \union {s}
  BY <1>1 DEF Asking
<1>4. IsFiniteSet(Asking(l)) /\ Cardinality(Asking(l)) \in Nat
  BY AskingFinite
<1>5. f.mode = "none" /\ s \in Asking(l) => Cardinality(Asking(m)) = Cardinality(Asking(l)) - 1
  BY <1>3, <1>4, FS_RemoveElement
<1>6. f.mode # "none" /\ s \notin Asking(l) => Cardinality(Asking(m)) = Cardinality(Asking(l)) + 1
  BY <1>3, <1>4, FS_AddElement
<1>7. /\ f.mode = "none" /\ s \notin Asking(l) => Asking(m) = Asking(l)
      /\ f.mode # "none" /\ s \in Asking(l) => Asking(m) = Asking(l)
  BY <1>3
<1> QED
  BY <1>2, <1>3, <1>5, <1>6, <1>7

LEMMA RefsFormed ==
    ASSUME NEW p, Formed(p), NEW n, NEW q, q = [p EXCEPT !.refs = n]
    PROVE  Formed(q) /\ q.listen = p.listen /\ q.refs = n /\ q.filter = p.filter /\ q.state = p.state
BY DEF Formed, IsGroup

LEMMA FilterFormed ==
    ASSUME NEW p, Formed(p), NEW n, NEW q, q = [p EXCEPT !.filter = n]
    PROVE  Formed(q) /\ q.listen = p.listen /\ q.refs = p.refs /\ q.filter = n /\ q.state = p.state
BY DEF Formed, IsGroup

LEMMA ListenFormed ==
    ASSUME NEW p, Formed(p), NEW n, NEW q, q = [p EXCEPT !.listen = n]
    PROVE  Formed(q) /\ q.listen = n /\ q.refs = p.refs /\ q.filter = p.filter /\ q.state = p.state
BY DEF Formed, IsGroup

(* What the options of sockets make of the count and the filter.           *)
LEMMA JoinLeaveKept ==
    ASSUME NEW p, Formed(p), p.state \in McStates, NEW count
    PROVE  LET new == pico_socket_aggregate_mcastfilters(p.listen)
               j == Join(p, count)
               v == Leave(p, count)
           IN  /\ Formed(j) /\ j.listen = p.listen /\ j.filter = new
               /\ j.refs = IF p.filter.mode = "none" THEN 1 ELSE p.refs + count
               /\ p.filter.mode # "none" =>
                    /\ Formed(v) /\ v.listen = p.listen
                    /\ count = 1 /\ p.refs = 1 => v.refs = 0 /\ v.filter = NotListening
                    /\ ~(count = 1 /\ p.refs = 1) => v.refs = p.refs - count /\ v.filter = new
<1> DEFINE new == pico_socket_aggregate_mcastfilters(p.listen)
           j == Join(p, count)
           v == Leave(p, count)
<1> HIDE DEF new
<1>1. Formed(j) /\ j.listen = p.listen /\ j.filter = new
      /\ j.refs = IF p.filter.mode = "none" THEN 1 ELSE p.refs + count
  <2>1. CASE p.filter.mode # "none"
    <3> DEFINE q == [p EXCEPT !.refs = @ + count]
               r == pico_igmp_state_change(q, new, "UPDATE")
    <3>1. j = [r EXCEPT !.filter = new]
      BY <2>1 DEF Join, pico_ipv4_mcast_join, mcast_group_update, new
    <3>2. Formed(q) /\ q.listen = p.listen /\ q.refs = p.refs + count /\ q.state = p.state
      <4>1. q = [p EXCEPT !.refs = p.refs + count]
        BY DEF Formed, IsGroup
      <4> HIDE DEF q
      <4> QED
        BY <4>1, RefsFormed
    <3> HIDE DEF q
    <3>3. Kept(q, r)
      BY <3>2, StateChangeKept DEF McEvents
    <3> HIDE DEF r, j
    <3> QED
      BY <2>1, <3>1, <3>2, <3>3, FilterFormed DEF Kept
  <2>2. CASE p.filter.mode = "none"
    <3> DEFINE n == [mode |-> "INCLUDE", src |-> {}]
               q == [p EXCEPT !.refs = 1, !.filter = n]
               r == pico_igmp_state_change(q, new, "CREATE")
    <3>1. j = [r EXCEPT !.filter = new]
      BY <2>2 DEF Join, pico_ipv4_mcast_join, mcast_group_update, new
    <3> HIDE DEF n
    <3>2. Formed(q) /\ q.listen = p.listen /\ q.refs = 1 /\ q.state = p.state
      BY DEF Formed, IsGroup
    <3> HIDE DEF q
    <3>3. Kept(q, r)
      BY <3>2, StateChangeKept DEF McEvents
    <3> HIDE DEF r, j
    <3> QED
      BY <2>2, <3>1, <3>2, <3>3, FilterFormed DEF Kept
  <2> QED
    BY <2>1, <2>2
<1>2. CASE p.filter.mode = "none"
  BY <1>1, <1>2 DEF new
<1>3. CASE p.filter.mode # "none" /\ count = 1 /\ p.refs = 1
  <2> DEFINE q == [p EXCEPT !.refs = 0]
             r == pico_igmp_state_change(q, new, "DELETE")
  <2>1. v = [r EXCEPT !.filter = NotListening]
    BY <1>3 DEF Leave, pico_ipv4_mcast_leave, new
  <2>2. Formed(q) /\ q.listen = p.listen /\ q.refs = 0 /\ q.state = p.state
    BY RefsFormed
  <2> HIDE DEF q
  <2>3. Kept(q, r)
    BY <2>2, StateChangeKept DEF McEvents
  <2> HIDE DEF r, v, j
  <2>4. Formed(v) /\ v.listen = p.listen /\ v.refs = 0 /\ v.filter = NotListening
    BY <2>1, <2>2, <2>3, FilterFormed DEF Kept
  <2> QED
    BY <1>1, <1>3, <2>4 DEF new, v, j
<1>4. CASE p.filter.mode # "none" /\ ~(count = 1 /\ p.refs = 1)
  <2> DEFINE q == [p EXCEPT !.refs = @ - count]
             r == pico_igmp_state_change(q, new, "UPDATE")
  <2>1. v = [r EXCEPT !.filter = new]
    BY <1>4 DEF Leave, pico_ipv4_mcast_leave, mcast_group_update, new
  <2>2. Formed(q) /\ q.listen = p.listen /\ q.refs = p.refs - count /\ q.state = p.state
    <3>1. q = [p EXCEPT !.refs = p.refs - count]
      BY DEF Formed, IsGroup
    <3> HIDE DEF q
    <3> QED
      BY <3>1, RefsFormed
  <2> HIDE DEF q
  <2>3. Kept(q, r)
    BY <2>2, StateChangeKept DEF McEvents
  <2> HIDE DEF r, v, j
  <2>4. Formed(v) /\ v.listen = p.listen /\ v.refs = p.refs - count /\ v.filter = new
    BY <2>1, <2>2, <2>3, FilterFormed DEF Kept
  <2> QED
    BY <1>1, <1>4, <2>4 DEF new, v, j
<1> QED
  BY <1>2, <1>3, <1>4

LEMMA AsksWith ==
    ASSUME NEW p, Formed(p), NEW s, NEW mode, NEW src, NEW f, f = [mode |-> mode, src |-> src],
           NEW q, q = Asks(p, s, mode, src)
    PROVE  /\ Formed(q) /\ q.listen = [p.listen EXCEPT ![s] = f]
           /\ q.refs = p.refs /\ q.filter = p.filter /\ q.state = p.state
<1> DEFINE l == [p.listen EXCEPT ![s] = f]
<1>1. q = [p EXCEPT !.listen = l]
  BY DEF Asks, Formed, IsGroup
<1> HIDE DEF l
<1>2. /\ Formed(q) /\ q.listen = l
      /\ q.refs = p.refs /\ q.filter = p.filter /\ q.state = p.state
  BY <1>1, ListenFormed
<1> QED
  BY <1>2 DEF l

(* A socket that asks for something: counted if it had not asked before.   *)
LEMMA JoinAgreed ==
    ASSUME NEW p, Agreed(p), p.state \in McStates, NEW s \in 1..McSockets, NEW mode, NEW src,
           [mode |-> mode, src |-> src] \in Filters, mode # "none", mode = "INCLUDE" => src # {}
    PROVE  Agreed(Join(Asks(p, s, mode, src), IF p.listen[s].mode = "none" THEN 1 ELSE 0))
<1> DEFINE f == [mode |-> mode, src |-> src]
           m == [p.listen EXCEPT ![s] = f]
           count == IF p.listen[s].mode = "none" THEN 1 ELSE 0
           q == Asks(p, s, mode, src)
           j == Join(q, count)
<1>1. f.mode = mode /\ f.src = src
  OBVIOUS
<1>2. Formed(q) /\ q.listen = m /\ q.refs = p.refs /\ q.filter = p.filter /\ q.state = p.state
  <2> HIDE DEF f, q
  <2> QED
    BY AsksWith DEF Agreed, f, q
<1> HIDE DEF f, m
<1>3. /\ m \in Listens /\ Asking(m) = Asking(p.listen) \union {s}
      /\ Cardinality(Asking(m)) = IF s \in Asking(p.listen) THEN Cardinality(Asking(p.listen))
                                  ELSE Cardinality(Asking(p.listen)) + 1
  <2>1. m = [p.listen EXCEPT ![s] = f] /\ f \in Filters /\ p.listen \in Listens
    BY DEF Agreed, m, f
  <2> QED
    BY <1>1, <2>1, AskingWith
<1>4. (s \in Asking(p.listen)) = (count = 0) /\ count \in {0, 1}
  BY DEF Asking
<1> HIDE DEF q, count
<1>5. /\ Formed(j) /\ j.listen = m /\ j.filter = pico_socket_aggregate_mcastfilters(m)
      /\ j.refs = IF p.filter.mode = "none" THEN 1 ELSE p.refs + count
  BY <1>2, JoinLeaveKept
<1>6. j.refs = Cardinality(Asking(m))
  <2>1. CASE Asking(p.listen) = {}
    BY <1>3, <1>5, <2>1, FilterOf, FS_EmptySet
  <2>2. CASE Asking(p.listen) # {}
    <3>1. p.filter.mode # "none" /\ p.refs = Cardinality(Asking(p.listen)) /\ p.refs \in Nat
      BY <2>2, FilterOf, AskingFinite DEF Agreed
    <3> QED
      BY <1>3, <1>4, <1>5, <3>1
  <2> QED
    BY <2>1, <2>2
<1> HIDE DEF j
<1>7. Asking(m) # {}
  BY <1>3
<1>8. Agreed(j)
  BY <1>3, <1>5, <1>6, <1>7 DEF Agreed
<1> QED
  BY <1>8 DEF j, q, count

(* A socket that asks for less: it is no longer counted if that is nothing.*)
LEMMA LeaveAgreed ==
    ASSUME NEW p, Agreed(p), p.state \in McStates, NEW s \in 1..McSockets, NEW mode, NEW src,
           p.listen[s].mode # "none",
           [mode |-> mode, src |-> src] \in Filters, mode = "INCLUDE" => src # {}
    PROVE  Agreed(Leave(Asks(p, s, mode, src), IF mode = "none" THEN 1 ELSE 0))
<1> DEFINE f == [mode |-> mode, src |-> src]
           m == [p.listen EXCEPT ![s] = f]
           count == IF mode = "none" THEN 1 ELSE 0
           q == Asks(p, s, mode, src)
           v == Leave(q, count)
<1>1. f.mode = mode /\ f.src = src /\ s \in Asking(p.listen)
  BY DEF Asking
<1>2. Formed(q) /\ q.listen = m /\ q.refs = p.refs /\ q.filter = p.filter /\ q.state = p.state
  <2> HIDE DEF f, q
  <2> QED
    BY AsksWith DEF Agreed, f, q
<1> HIDE DEF f, m
<1>3. /\ m \in Listens
      /\ Asking(m) = IF mode = "none" THEN Asking(p.listen) \ {s} ELSE Asking(p.listen) \union {s}
      /\ Cardinality(Asking(m)) = IF mode = "none" THEN Cardinality(Asking(p.listen)) - 1
                                  ELSE Cardinality(Asking(p.listen))
  <2>1. m = [p.listen EXCEPT ![s] = f] /\ f \in Filters /\ p.listen \in Listens
    BY DEF Agreed, m, f
  <2> QED
    <3>1. CASE mode = "none"
      BY <1>1, <2>1, <3>1, AskingWith
    <3>2. CASE mode # "none"
      BY <1>1, <2>1, <3>2, AskingWith
    <3> QED
      BY <3>1, <3>2
<1>4. p.filter.mode # "none" /\ p.refs = Cardinality(Asking(p.listen)) /\ p.refs \in Nat
  BY <1>1, FilterOf, AskingFinite DEF Agreed
<1>5. count = (IF mode = "none" THEN 1 ELSE 0) /\ count \in {0, 1}
  OBVIOUS
<1> HIDE DEF q, count
<1>6. /\ Formed(v) /\ v.listen = m
      /\ count = 1 /\ p.refs = 1 => v.refs = 0 /\ v.filter = NotListening
      /\ ~(count = 1 /\ p.refs = 1) =>
            v.refs = p.refs - count /\ v.filter = pico_socket_aggregate_mcastfilters(m)
  BY <1>2, <1>4, JoinLeaveKept
<1>7. v.refs = Cardinality(Asking(m))
  BY <1>3, <1>4, <1>5, <1>6
<1>8. (Asking(m) = {}) = (Cardinality(Asking(m)) = 0)
  BY AskingFinite, FS_EmptySet
<1>9. (Asking(m) = {}) = (count = 1 /\ p.refs = 1)
  <2>1. CASE mode = "none"
    BY <1>3, <1>4, <1>5, <1>8, <2>1
  <2>2. CASE mode # "none"
    BY <1>3, <1>5, <2>2
  <2> QED
    BY <2>1, <2>2
<1> HIDE DEF v
<1>10. Agreed(v)
  BY <1>3, <1>6, <1>7, <1>9 DEF Agreed
<1> QED
  BY <1>10 DEF v, q, count

-----------------------------------------------------------------------------
(* What the routers are told while IGMPv3 is alone on the link.            *)

Told(p) == IF p.filter.mode = "none" THEN p.state = "none" ELSE p.state \in {"DELAYING_MEMBER", "IDLE_MEMBER"}

LEMMA ReportTold ==
    ASSUME igmpLink.compat = "v3", NEW p, IsGroup(p), p.state = "IDLE_MEMBER", NEW new,
           NEW event \in {"CREATE", "UPDATE"}
    PROVE  srsfst(p, new, event).state \in {"DELAYING_MEMBER", "IDLE_MEMBER"}
<1> DEFINE t == pico_igmp_timer_start(p.timer)
           a == [p EXCEPT !.f = "none"]
           b(r) == [p EXCEPT !.f = r, !.timer = t, !.state = "DELAYING_MEMBER"]
<1> HIDE DEF t
<1>1. a.state = "IDLE_MEMBER" /\ \A r : b(r).state = "DELAYING_MEMBER"
  BY DEF IsGroup
<1>2. srsfst(p, new, event) \in {p, a} \/ \E r : srsfst(p, new, event) = b(r)
  BY DEF srsfst, Started, t
<1> HIDE DEF a, b
<1> QED
  BY <1>1, <1>2

LEMMA TableTold ==
    ASSUME igmpLink.compat = "v3", NEW p, Steady(p), p.state \in {"DELAYING_MEMBER", "IDLE_MEMBER"},
           p.filter.mode # "none", NEW new, NEW event \in McEvents
    PROVE  LET r == host_membership_diagram_table(p, new, event) IN
           IF event = "DELETE" THEN r.state = "none" ELSE r.state \in {"DELAYING_MEMBER", "IDLE_MEMBER"}
<1> DEFINE r == host_membership_diagram_table(p, new, event)
           stop == pico_igmp_timer_stop(p.timer)
           b == [p EXCEPT !.f = "freed"]
           d == [p EXCEPT !.state = "DELAYING_MEMBER"]
           f == [p EXCEPT !.state = "none", !.f = "none"]
           h == [p EXCEPT !.timer = stop, !.state = "none", !.f = "none"]
           i == [p EXCEPT !.timer = stop, !.state = "IDLE_MEMBER"]
<1>1. IsGroup(p) /\ (p.state = "DELAYING_MEMBER" => p.timer.tree = "running" /\ p.f \notin {"freed", "none"})
  BY DEF Steady
<1>2. pico_igmp_generate_report(p, new, "DELETE") # "fail"
  BY ReportIs DEF McEvents, McRecords
<1>3. ASSUME NEW x PROVE Started(p, x).state = "DELAYING_MEMBER"
  <2> DEFINE t == pico_igmp_timer_start(p.timer)
             c == [p EXCEPT !.f = x, !.timer = t, !.state = "DELAYING_MEMBER"]
  <2>1. Started(p, x) = c
    BY DEF Started
  <2> HIDE DEF t
  <2> QED
    BY <1>1, <2>1 DEF IsGroup
<1>4. CASE p.state = "DELAYING_MEMBER"
  <2>1. event = "DELETE" => r = h
    BY <1>1, <1>2, <1>4 DEF host_membership_diagram_table, stslifs
  <2>2. event \in {"CREATE", "UPDATE"} => r = d
    BY <1>1, <1>4 DEF host_membership_diagram_table, mrsrrt
  <2>3. event = "QUERY" => r = p
    BY <1>4 DEF host_membership_diagram_table, rtimrtct
  <2>4. event = "REPORT" => r = i
    BY <1>1, <1>4 DEF host_membership_diagram_table, stcl
  <2> HIDE DEF stop, r
  <2>5. h.state = "none" /\ d.state = "DELAYING_MEMBER" /\ i.state = "IDLE_MEMBER"
    BY <1>1 DEF IsGroup
  <2> HIDE DEF h, d, i
  <2>6. IF event = "DELETE" THEN r.state = "none" ELSE r.state \in {"DELAYING_MEMBER", "IDLE_MEMBER"}
    BY <1>4, <2>1, <2>2, <2>3, <2>4, <2>5 DEF McEvents
  <2> QED
    BY <2>6 DEF r
<1>5. CASE p.state = "IDLE_MEMBER"
  <2>1. event = "DELETE" => r = f
    BY <1>2, <1>5 DEF host_membership_diagram_table, slifs
  <2>2. event \in {"CREATE", "UPDATE"} => r.state \in {"DELAYING_MEMBER", "IDLE_MEMBER"}
    <3> SUFFICES ASSUME event \in {"CREATE", "UPDATE"} PROVE r.state \in {"DELAYING_MEMBER", "IDLE_MEMBER"}
      OBVIOUS
    <3>1. r = srsfst(p, new, event)
      BY <1>5 DEF host_membership_diagram_table, srst
    <3> HIDE DEF r
    <3> QED
      BY <1>1, <1>5, <3>1, ReportTold
  <2>3. event = "QUERY" => r = p \/ \E x : r = Started(p, x)
    BY <1>5 DEF host_membership_diagram_table, st
  <2>4. event = "REPORT" => r \in {p, b}
    BY <1>5 DEF host_membership_diagram_table, discard
  <2> HIDE DEF r
  <2>5. f.state = "none" /\ b.state = "IDLE_MEMBER"
    BY <1>1, <1>5 DEF IsGroup
  <2> HIDE DEF f, b
  <2>6. IF event = "DELETE" THEN r.state = "none" ELSE r.state \in {"DELAYING_MEMBER", "IDLE_MEMBER"}
    BY <1>3, <1>5, <2>1, <2>2, <2>3, <2>4, <2>5 DEF McEvents
  <2> QED
    BY <2>6 DEF r
<1> QED
  BY <1>4, <1>5

(* A group that the link joins is reported: its first filter lets          *)
(* something through.                                                      *)
LEMMA CreateTold ==
    ASSUME igmpLink.compat = "v3", NEW p, IsGroup(p), p.state = "none",
           p.filter.mode = "INCLUDE", p.filter.src = {},
           NEW new, new.mode \in {"INCLUDE", "EXCLUDE"}, new.mode = "INCLUDE" => new.src # {}
    PROVE  pico_igmp_state_change(p, new, "CREATE").state = "DELAYING_MEMBER"
<1> DEFINE q == [p EXCEPT !.state = "NON_MEMBER"]
           t == pico_igmp_timer_start(q.timer)
           r == pico_igmp_generate_report(q, new, "CREATE")
           u == [q EXCEPT !.f = r, !.timer = t, !.state = "DELAYING_MEMBER"]
<1>1. IsGroup(q) /\ q.state = "NON_MEMBER" /\ q.filter = p.filter
  BY DEF IsGroup
<1>2. pico_igmp_state_change(p, new, "CREATE") = host_membership_diagram_table(q, new, "CREATE")
  BY DEF pico_igmp_state_change
<1> HIDE DEF q, t
<1>3. r \in {"TO_IN", "TO_EX"}
  <2>1. r = pico_mcast_generate_filter(q.filter, new, "CREATE")
    BY <1>1 DEF pico_igmp_generate_report
  <2> HIDE DEF r
  <2>2. CASE new.mode = "EXCLUDE"
    BY <1>1, <2>1, <2>2 DEF pico_mcast_generate_filter
  <2>3. CASE new.mode = "INCLUDE"
    <3>1. r = src_filtering_inc_inc(q.filter.src, new.src, "CREATE")
      BY <1>1, <2>1, <2>3 DEF pico_mcast_generate_filter
    <3>2. new.src \ q.filter.src # {}
      BY <1>1, <2>3
    <3> QED
      BY <3>1, <3>2 DEF src_filtering_inc_inc
  <2> QED
    BY <2>2, <2>3
<1>4. host_membership_diagram_table(q, new, "CREATE") = u
  BY <1>1, <1>3 DEF host_membership_diagram_table, srsfst, Started, t
<1> HIDE DEF r
<1>5. u.state = "DELAYING_MEMBER"
  BY <1>1 DEF IsGroup
<1> QED
  BY <1>2, <1>4, <1>5

LEMMA JoinTold ==
    ASSUME igmpLink.compat = "v3", NEW p, Steady(p), Told(p), p.listen \in Listens,
           Asking(p.listen) # {}, NEW count
    PROVE  Join(p, count).state \in {"DELAYING_MEMBER", "IDLE_MEMBER"}
<1> DEFINE new == pico_socket_aggregate_mcastfilters(p.listen)
           j == Join(p, count)
<1>1. new.mode \in {"INCLUDE", "EXCLUDE"} /\ (new.mode = "INCLUDE" => new.src # {})
  BY AggregateOK DEF MergedOK, Filters, Asking
<1> HIDE DEF new
<1>2. IsGroup(p)
  BY DEF Steady
<1>3. CASE p.filter.mode # "none"
  <2> DEFINE q == [p EXCEPT !.refs = @ + count]
             r == pico_igmp_state_change(q, new, "UPDATE")
  <2>1. j = [r EXCEPT !.filter = new]
    BY <1>3 DEF Join, pico_ipv4_mcast_join, mcast_group_update, new
  <2>2. Steady(q)
    BY OtherField
  <2>3. q.filter = p.filter /\ q.state = p.state
    BY <1>2 DEF IsGroup
  <2> HIDE DEF q
  <2>4. r = host_membership_diagram_table(q, new, "UPDATE")
    BY <1>3, <2>3 DEF Told, pico_igmp_state_change
  <2>5. r.state \in {"DELAYING_MEMBER", "IDLE_MEMBER"}
    BY <1>3, <2>2, <2>3, <2>4, TableTold DEF Told, McEvents
  <2>6. Steady(r)
    BY <2>2, StateChangeIs
  <2> HIDE DEF r, j
  <2>7. j.state = r.state
    BY <2>1, <2>6 DEF Steady, IsGroup
  <2> QED
    BY <2>5, <2>7 DEF j
<1>4. CASE p.filter.mode = "none"
  <2> DEFINE n == [mode |-> "INCLUDE", src |-> {}]
             q == [p EXCEPT !.refs = 1, !.filter = n]
             r == pico_igmp_state_change(q, new, "CREATE")
  <2>1. j = [r EXCEPT !.filter = new]
    BY <1>4 DEF Join, pico_ipv4_mcast_join, mcast_group_update, new
  <2>2. n.mode = "INCLUDE" /\ n.src = {}
    OBVIOUS
  <2> HIDE DEF n
  <2>3. IsGroup(q) /\ q.state = "none" /\ q.filter = n /\ q.f = p.f /\ q.timer = p.timer
    BY <1>2, <1>4 DEF Told, IsGroup
  <2> HIDE DEF q
  <2>4. Steady(q)
    BY <1>4, <2>3 DEF Steady, Told
  <2>5. r.state = "DELAYING_MEMBER"
    BY <1>1, <2>2, <2>3, CreateTold
  <2>6. Steady(r)
    BY <2>4, StateChangeIs
  <2> HIDE DEF r, j
  <2>7. j.state = r.state
    BY <2>1, <2>6 DEF Steady, IsGroup
  <2> QED
    BY <2>5, <2>7 DEF j
<1> QED
  BY <1>3, <1>4

LEMMA LeaveTold ==
    ASSUME igmpLink.compat = "v3", NEW p, Steady(p), Told(p), p.filter.mode # "none", NEW count
    PROVE  IF count = 1 /\ p.refs = 1 THEN Leave(p, count).state = "none"
           ELSE Leave(p, count).state \in {"DELAYING_MEMBER", "IDLE_MEMBER"}
<1> DEFINE new == pico_socket_aggregate_mcastfilters(p.listen)
           v == Leave(p, count)
<1> HIDE DEF new
<1>1. IsGroup(p)
  BY DEF Steady
<1>2. CASE count = 1 /\ p.refs = 1
  <2> DEFINE q == [p EXCEPT !.refs = 0]
             r == pico_igmp_state_change(q, new, "DELETE")
  <2>1. v = [r EXCEPT !.filter = NotListening]
    BY <1>2 DEF Leave, pico_ipv4_mcast_leave, new
  <2>2. Steady(q)
    BY OtherField
  <2>3. q.filter = p.filter /\ q.state = p.state
    BY <1>1 DEF IsGroup
  <2> HIDE DEF q
  <2>4. r = host_membership_diagram_table(q, new, "DELETE")
    BY <2>3 DEF Told, pico_igmp_state_change
  <2>5. r.state = "none"
    BY <2>2, <2>3, <2>4, TableTold DEF Told, McEvents
  <2>6. Steady(r)
    BY <2>2, <2>3, StateChangeIs
  <2> HIDE DEF r, v
  <2>7. v.state = r.state
    BY <2>1, <2>6 DEF Steady, IsGroup
  <2> QED
    BY <1>2, <2>5, <2>7 DEF v
<1>3. CASE ~(count = 1 /\ p.refs = 1)
  <2> DEFINE q == [p EXCEPT !.refs = @ - count]
             r == pico_igmp_state_change(q, new, "UPDATE")
  <2>1. v = [r EXCEPT !.filter = new]
    BY <1>3 DEF Leave, pico_ipv4_mcast_leave, mcast_group_update, new
  <2>2. Steady(q)
    BY OtherField
  <2>3. q.filter = p.filter /\ q.state = p.state
    BY <1>1 DEF IsGroup
  <2> HIDE DEF q
  <2>4. r = host_membership_diagram_table(q, new, "UPDATE")
    BY <2>3 DEF Told, pico_igmp_state_change
  <2>5. r.state \in {"DELAYING_MEMBER", "IDLE_MEMBER"}
    BY <2>2, <2>3, <2>4, TableTold DEF Told, McEvents
  <2>6. Steady(r)
    BY <2>2, StateChangeIs
  <2> HIDE DEF r, v
  <2>7. v.state = r.state
    BY <2>1, <2>6 DEF Steady, IsGroup
  <2> QED
    BY <1>3, <2>5, <2>7 DEF v
<1> QED
  BY <1>2, <1>3

(* What a socket asks for, and what becomes of it.                         *)
LEMMA JoinMember ==
    ASSUME NEW p, Agreed(p), p.state \in McStates, NEW s \in 1..McSockets, NEW mode, NEW src,
           [mode |-> mode, src |-> src] \in Filters, mode # "none", mode = "INCLUDE" => src # {},
           NEW count, count = IF p.listen[s].mode = "none" THEN 1 ELSE 0
    PROVE  LET j == Join(Asks(p, s, mode, src), count) IN
           Agreed(j) /\ (igmpLink.compat = "v3" /\ Steady(p) /\ Told(p) => Told(j))
<1> DEFINE f == [mode |-> mode, src |-> src]
           m == [p.listen EXCEPT ![s] = f]
           q == Asks(p, s, mode, src)
           j == Join(q, count)
<1>1. Agreed(j)
  BY JoinAgreed
<1>2. f.mode = mode /\ f.src = src /\ f \in Filters
  OBVIOUS
<1>3. Formed(q) /\ q.listen = m /\ q.refs = p.refs /\ q.filter = p.filter /\ q.state = p.state
  <2> HIDE DEF f, q
  <2> QED
    BY AsksWith DEF Agreed, f, q
<1>4. Steady(p) => Steady(q)
  BY AsksIs
<1> HIDE DEF f
<1>5. m \in Listens /\ Asking(m) # {}
  <2>1. m = [p.listen EXCEPT ![s] = f] /\ p.listen \in Listens
    BY DEF Agreed
  <2> HIDE DEF m
  <2>2. m \in Listens /\ Asking(m) = Asking(p.listen) \union {s}
    BY <1>2, <2>1, AskingWith
  <2> QED
    BY <2>2
<1> HIDE DEF m, q
<1>6. j.filter = pico_socket_aggregate_mcastfilters(m)
  BY <1>3, JoinLeaveKept
<1>7. j.filter.mode # "none"
  BY <1>5, <1>6, AggregateOK DEF MergedOK
<1>8. ASSUME igmpLink.compat = "v3", Steady(p), Told(p) PROVE Told(j)
  <2>1. Steady(q) /\ Told(q)
    BY <1>3, <1>4, <1>8 DEF Told
  <2>2. j.state \in {"DELAYING_MEMBER", "IDLE_MEMBER"}
    BY <1>3, <1>5, <1>8, <2>1, JoinTold
  <2> QED
    BY <1>7, <2>2 DEF Told
<1> HIDE DEF j
<1>9. Agreed(j) /\ (igmpLink.compat = "v3" /\ Steady(p) /\ Told(p) => Told(j))
  BY <1>1, <1>8
<1> QED
  BY <1>9 DEF j, q

LEMMA LeaveMember ==
    ASSUME NEW p, Agreed(p), p.state \in McStates, NEW s \in 1..McSockets, NEW mode, NEW src,
           p.listen[s].mode # "none",
           [mode |-> mode, src |-> src] \in Filters, mode = "INCLUDE" => src # {},
           NEW count, count = IF mode = "none" THEN 1 ELSE 0
    PROVE  LET v == Leave(Asks(p, s, mode, src), count) IN
           Agreed(v) /\ (igmpLink.compat = "v3" /\ Steady(p) /\ Told(p) => Told(v))
<1> DEFINE f == [mode |-> mode, src |-> src]
           m == [p.listen EXCEPT ![s] = f]
           q == Asks(p, s, mode, src)
           v == Leave(q, count)
<1>1. Agreed(v)
  BY LeaveAgreed
<1>2. f.mode = mode /\ f.src = src /\ f \in Filters
  OBVIOUS
<1>3. Formed(q) /\ q.listen = m /\ q.refs = p.refs /\ q.filter = p.filter /\ q.state = p.state
  <2> HIDE DEF f, q
  <2> QED
    BY AsksWith DEF Agreed, f, q
<1>4. Steady(p) => Steady(q)
  BY AsksIs
<1> HIDE DEF f
<1>5. m \in Listens
  <2>1. m = [p.listen EXCEPT ![s] = f] /\ p.listen \in Listens
    BY DEF Agreed
  <2> HIDE DEF m
  <2> QED
    BY <1>2, <2>1, AskingWith
<1>6. p.filter.mode # "none"
  <2>1. s \in Asking(p.listen)
    BY DEF Asking
  <2> QED
    BY <2>1, FilterOf
<1> HIDE DEF m, q
<1>7. /\ count = 1 /\ p.refs = 1 => v.filter = NotListening
      /\ ~(count = 1 /\ p.refs = 1) => v.filter = pico_socket_aggregate_mcastfilters(m)
  BY <1>3, <1>6, JoinLeaveKept
<1>8. IF count = 1 /\ p.refs = 1 THEN v.filter.mode = "none" ELSE v.filter.mode # "none"
  BY <1>5, <1>7, AggregateOK DEF MergedOK, NotListening
<1>9. ASSUME igmpLink.compat = "v3", Steady(p), Told(p) PROVE Told(v)
  <2>1. Steady(q) /\ Told(q) /\ q.filter.mode # "none"
    BY <1>3, <1>4, <1>6, <1>9 DEF Told
  <2>2. IF count = 1 /\ p.refs = 1 THEN v.state = "none" ELSE v.state \in {"DELAYING_MEMBER", "IDLE_MEMBER"}
    BY <1>3, <1>9, <2>1, LeaveTold
  <2> QED
    BY <1>8, <2>2 DEF Told
<1> HIDE DEF v
<1>10. Agreed(v) /\ (igmpLink.compat = "v3" /\ Steady(p) /\ Told(p) => Told(v))
  BY <1>1, <1>9
<1> QED
  BY <1>10 DEF v, q

-----------------------------------------------------------------------------
(* The invariant of the membership.  No socket asks for General.           *)

Body(m) ==
    /\ DOMAIN m = McAddrs /\ \A g \in McAddrs : Agreed(m[g]) /\ m[g].state \in McStates
    /\ Asking(m[General].listen) = {}
TellsAll(m) == \A g \in McGroups : Told(m[g])
MemberInv == McInv /\ Body(mcast) /\ (igmpLink.mixed = 0 => TellsAll(mcast))

(* What a step must do: McInv is kept by McStep.                           *)
Follows == Body(mcast)' /\ (igmpLink'.mixed = 0 => igmpLink.mixed = 0 /\ TellsAll(mcast)')

LEMMA NobodyAsks == Body(NoMembership) /\ TellsAll(NoMembership)
<1> DEFINE l == [s \in 1..McSockets |-> NotListening]
           p == [listen |-> l, refs |-> 0, filter |-> NotListening, state |-> "none", f |-> "none",
                 timer |-> NoTimer]
<1>1. DOMAIN NoMembership = McAddrs /\ \A g \in McAddrs : NoMembership[g] = p
  BY DEF NoMembership, McAddrs
<1>2. NotListening \in Filters /\ NotListening.mode = "none" /\ NoTimer \in McTimerObjects
  BY DEF NotListening, Filters, NoTimer, McTimerObjects
<1>3. l \in Listens /\ Asking(l) = {}
  BY <1>2 DEF Listens, Asking
<1> HIDE DEF l
<1>4. IsGroup(p) /\ p.listen = l /\ p.refs = 0 /\ p.filter = NotListening /\ p.state = "none" /\ p.timer = NoTimer
  BY DEF IsGroup
<1> HIDE DEF p
<1>5. Agreed(p) /\ Told(p) /\ p.state \in McStates
  BY <1>2, <1>3, <1>4, FS_EmptySet DEF Agreed, Formed, Told, McStates
<1> QED
  BY <1>1, <1>3, <1>4, <1>5 DEF Body, TellsAll, McAddrs

LEMMA CrashFollows ==
    ASSUME MemberInv, McCrash
    PROVE  Follows
<1>1. mcast' = NoMembership
  BY DEF McCrash
<1>2. igmpLink'.mixed = igmpLink.mixed
  BY DEF McCrash, MemberInv, McInv, IsLink
<1> QED
  BY <1>1, <1>2, NobodyAsks DEF Follows, Body, TellsAll

LEMMA BecomesFollows ==
    ASSUME MemberInv, NEW g \in McAddrs, NEW p, Becomes(g, p), Agreed(p),
           g = General => Asking(p.listen) = {}, igmpLink.mixed = 0 /\ g \in McGroups /\ p.state # "crash" => Told(p)
    PROVE  Follows
<1>1. CASE p.state = "crash"
  BY <1>1, CrashFollows DEF Becomes
<1>2. CASE p.state # "crash"
  <2>1. mcast' = [mcast EXCEPT ![g] = p] /\ igmpLink' = igmpLink
    BY <1>2 DEF Becomes
  <2>2. p.state \in McStates
    BY <1>2 DEF Agreed, Formed
  <2>3. DOMAIN mcast' = McAddrs /\ \A h \in McAddrs : mcast'[h] = IF h = g THEN p ELSE mcast[h]
    BY <2>1 DEF MemberInv, Body
  <2>4. General \in McAddrs /\ McGroups \subseteq McAddrs
    BY DEF McAddrs
  <2> QED
    BY <1>2, <2>1, <2>2, <2>3, <2>4 DEF Follows, Body, TellsAll, MemberInv
<1> QED
  BY <1>1, <1>2

LEMMA GroupIs ==
    ASSUME MemberInv, NEW g \in McGroups
    PROVE  /\ g \in McAddrs /\ g # General /\ Agreed(mcast[g]) /\ mcast[g].state \in McStates
           /\ igmpLink.mixed = 0 => igmpLink.compat = "v3" /\ Steady(mcast[g]) /\ Told(mcast[g])
           /\ mcast[g].listen \in [1..McSockets -> Filters]
BY McAssumption DEF MemberInv, Body, McInv, V3Alone, TellsAll, McAddrs, Agreed, Listens

LEMMA OptionFollows ==
    ASSUME MemberInv, NEW g \in McGroups, NEW s \in 1..McSockets, McOption(g, s)
    PROVE  Follows
<1> DEFINE p == mcast[g]
           l == p.listen[s]
           V(src) == IF src = {} THEN "none" ELSE "INCLUDE"
<1>1. /\ g \in McAddrs /\ g # General /\ Agreed(p) /\ p.state \in McStates
      /\ igmpLink.mixed = 0 => igmpLink.compat = "v3" /\ Steady(p) /\ Told(p)
      /\ l \in Filters
  BY GroupIs
<1>2. l.mode \in {"none", "INCLUDE", "EXCLUDE"} /\ l.src \subseteq McSources
  BY <1>1 DEF Filters
<1>3. ASSUME NEW mode \in {"INCLUDE", "EXCLUDE"}, NEW src \in SUBSET McSources,
             mode = "INCLUDE" => src # {}, NEW count, count = IF l.mode = "none" THEN 1 ELSE 0,
             Becomes(g, Join(Asks(p, s, mode, src), count))
      PROVE  Follows
  <2>1. [mode |-> mode, src |-> src] \in Filters
    BY DEF Filters
  <2> DEFINE j == Join(Asks(p, s, mode, src), count)
  <2>2. Agreed(j) /\ (igmpLink.compat = "v3" /\ Steady(p) /\ Told(p) => Told(j))
    BY <1>1, <1>3, <2>1, JoinMember
  <2> HIDE DEF j, p
  <2> QED
    BY <1>1, <1>3, <2>2, BecomesFollows DEF j
<1>4. ASSUME NEW mode \in {"none", "INCLUDE", "EXCLUDE"}, NEW src \in SUBSET McSources,
             mode = "INCLUDE" => src # {}, l.mode # "none", NEW count, count = IF mode = "none" THEN 1 ELSE 0,
             Becomes(g, Leave(Asks(p, s, mode, src), count))
      PROVE  Follows
  <2>1. [mode |-> mode, src |-> src] \in Filters
    BY DEF Filters
  <2> DEFINE j == Leave(Asks(p, s, mode, src), count)
  <2>2. Agreed(j) /\ (igmpLink.compat = "v3" /\ Steady(p) /\ Told(p) => Told(j))
    BY <1>1, <1>4, <2>1, LeaveMember
  <2> HIDE DEF j, p
  <2> QED
    BY <1>1, <1>4, <2>2, BecomesFollows DEF j
<1>5. CASE mcast_so_addm(g, s)
  BY <1>3, <1>5 DEF mcast_so_addm
<1>6. CASE mcast_so_dropm(g, s)
  BY <1>4, <1>6 DEF mcast_so_dropm
<1>7. ASSUME NEW src \in McSources, mcast_so_block_src(g, s, src) PROVE Follows
  <2>1. l.mode = "EXCLUDE" /\ Becomes(g, Join(Asks(p, s, "EXCLUDE", l.src \union {src}), 0))
    BY <1>7 DEF mcast_so_block_src
  <2> QED
    BY <1>2, <1>3, <2>1
<1>8. ASSUME NEW src \in McSources, mcast_so_unblock_src(g, s, src) PROVE Follows
  <2>1. l.mode = "EXCLUDE" /\ Becomes(g, Leave(Asks(p, s, "EXCLUDE", l.src \ {src}), 0))
    BY <1>8 DEF mcast_so_unblock_src
  <2> QED
    BY <1>2, <1>4, <2>1
<1>9. ASSUME NEW src \in McSources, mcast_so_addsrcm(g, s, src) PROVE Follows
  <2>1. Becomes(g, Join(Asks(p, s, "INCLUDE", l.src \union {src}), IF l.mode = "none" THEN 1 ELSE 0))
    BY <1>9 DEF mcast_so_addsrcm
  <2>2. l.src \union {src} # {} /\ l.src \union {src} \in SUBSET McSources
    BY <1>2
  <2> QED
    BY <1>3, <2>1, <2>2
<1>10. ASSUME NEW src \in McSources, mcast_so_dropsrcm(g, s, src) PROVE Follows
  <2> DEFINE rest == l.src \ {src}
             mode == IF rest = {} THEN "none" ELSE "INCLUDE"
             count == IF rest = {} THEN 1 ELSE 0
  <2>1. l.mode = "INCLUDE" /\ Becomes(g, Leave(Asks(p, s, mode, rest), count))
    BY <1>10 DEF mcast_so_dropsrcm
  <2>2. /\ rest \in SUBSET McSources /\ mode \in {"none", "INCLUDE"} /\ (mode = "INCLUDE" => rest # {})
        /\ count = IF mode = "none" THEN 1 ELSE 0
    BY <1>2
  <2> HIDE DEF rest, mode, count
  <2> QED
    BY <1>4, <2>1, <2>2
<1> QED
  BY <1>5, <1>6, <1>7, <1>8, <1>9, <1>10 DEF McOption

LEMMA DeleteFollows ==
    ASSUME MemberInv, NEW s \in 1..McSockets, pico_multicast_delete(s)
    PROVE  Follows
<1> DEFINE Left(g) == IF mcast[g].listen[s].mode = "none" THEN mcast[g]
                      ELSE Leave(Asks(mcast[g], s, "none", {}), 1)
           left == [g \in DOMAIN mcast |-> Left(g)]
<1>1. DOMAIN mcast = McAddrs /\ Body(mcast)
  BY DEF MemberInv, Body
<1>2. IF \E g \in McGroups : left[g].state = "crash"
      THEN McCrash ELSE mcast' = left /\ UNCHANGED igmpLink
  BY DEF pico_multicast_delete
<1>3. [mode |-> "none", src |-> {}] \in Filters
  BY DEF Filters
<1>4. ASSUME NEW g \in McGroups PROVE Agreed(Left(g)) /\ (igmpLink.mixed = 0 => Told(Left(g)))
  <2> DEFINE p == mcast[g]
             v == Leave(Asks(p, s, "none", {}), 1)
  <2>1. /\ Agreed(p) /\ p.state \in McStates
        /\ igmpLink.mixed = 0 => igmpLink.compat = "v3" /\ Steady(p) /\ Told(p)
    BY GroupIs
  <2>2. CASE p.listen[s].mode = "none"
    BY <2>1, <2>2
  <2>3. CASE p.listen[s].mode # "none"
    <3>1. Agreed(v) /\ (igmpLink.compat = "v3" /\ Steady(p) /\ Told(p) => Told(v))
      BY <1>3, <2>1, <2>3, LeaveMember
    <3> HIDE DEF v
    <3> QED
      BY <2>1, <2>3, <3>1 DEF v
  <2> QED
    BY <2>2, <2>3
<1>5. Left(General) = mcast[General]
  BY <1>1 DEF Body, Asking
<1> HIDE DEF Left
<1>6. DOMAIN left = McAddrs /\ \A g \in McAddrs : left[g] = Left(g)
  BY <1>1
<1> HIDE DEF left
<1>7. McAddrs = McGroups \union {General}
  BY DEF McAddrs
<1>8. CASE \E g \in McGroups : left[g].state = "crash"
  BY <1>2, <1>8, CrashFollows
<1>9. CASE ~\E g \in McGroups : left[g].state = "crash"
  <2>1. mcast' = left /\ igmpLink' = igmpLink
    BY <1>2, <1>9
  <2>2. \A g \in McGroups : Left(g).state \in McStates
    BY <1>4, <1>6, <1>7, <1>9 DEF Agreed, Formed
  <2> QED
    BY <1>1, <1>4, <1>5, <1>6, <1>7, <2>1, <2>2 DEF Follows, Body, TellsAll
<1> QED
  BY <1>8, <1>9

(* Steps that leave the sockets, the count and the filter alone.           *)
LEMMA KeptAgreed ==
    ASSUME NEW p, Agreed(p), NEW q, Kept(p, q)
    PROVE  Agreed(q)
BY DEF Kept, Agreed

LEMMA AllKept ==
    ASSUME MemberInv, DOMAIN mcast' = McAddrs,
           \A h \in McAddrs : Kept(mcast[h], mcast'[h]) /\ mcast'[h].state \in McStates
    PROVE  Body(mcast)'
<1>1. \A h \in McAddrs : Agreed(mcast'[h])
  BY KeptAgreed DEF MemberInv, Body
<1>2. mcast'[General].listen = mcast[General].listen
  BY DEF Kept, McAddrs
<1> QED
  BY <1>1, <1>2 DEF MemberInv, Body

LEMMA AnalyseKept ==
    ASSUME NEW g, Formed(mcast[g]), mcast[g].state \in McStates
    PROVE  LET p == pico_igmp_analyse_packet(g) IN
           /\ Kept(mcast[g], p) /\ p.state \in McStates \ {"none"}
           /\ mcast[g].state # "none" => p.state = mcast[g].state
<1> DEFINE p == mcast[g]
           q == [p EXCEPT !.state = "NON_MEMBER", !.f = "packet"]
           r == [p EXCEPT !.f = "packet"]
           a == pico_igmp_analyse_packet(g)
<1>1. a = IF p.state = "none" THEN q ELSE r
  BY DEF pico_igmp_analyse_packet
<1>2. Formed(p) /\ p.state \in McStates
  OBVIOUS
<1> HIDE DEF p, a
<1>3. Kept(p, q) /\ q.state = "NON_MEMBER" /\ Kept(p, r) /\ r.state = p.state
  BY <1>2 DEF Kept, Formed, IsGroup, McStates
<1> HIDE DEF q, r
<1>4. /\ Kept(p, a) /\ a.state \in McStates \ {"none"} /\ (p.state # "none" => a.state = p.state)
  BY <1>1, <1>2, <1>3 DEF McStates
<1> QED
  BY <1>4 DEF a, p

(* A query or a report of another host.                                    *)
LEMMA TableFollows ==
    ASSUME NEW p, Formed(p), p.state \in McStates \ {"none"}, NEW event \in {"QUERY", "REPORT"}
    PROVE  LET r == host_membership_diagram_table(p, NotListening, event) IN
           /\ Kept(p, r) /\ r.state \in McStates
           /\ igmpLink.compat = "v3" /\ Steady(p) /\ Told(p) => Told(r)
<1> DEFINE r == host_membership_diagram_table(p, NotListening, event)
<1>1. Kept(p, r) /\ r.state # "crash"
  BY TableKept DEF McEvents
<1>2. igmpLink.compat = "v3" /\ Steady(p) /\ Told(p) => r.state \in {"DELAYING_MEMBER", "IDLE_MEMBER"}
  <2> SUFFICES ASSUME igmpLink.compat = "v3", Steady(p), Told(p)
               PROVE  r.state \in {"DELAYING_MEMBER", "IDLE_MEMBER"}
    OBVIOUS
  <2>1. p.filter.mode # "none" /\ p.state \in {"DELAYING_MEMBER", "IDLE_MEMBER"}
    BY DEF Told
  <2> QED
    BY <2>1, TableTold DEF McEvents
<1> HIDE DEF r
<1>3. /\ Kept(p, r) /\ r.state \in McStates
      /\ igmpLink.compat = "v3" /\ Steady(p) /\ Told(p) => Told(r)
  BY <1>1, <1>2 DEF Kept, Formed, Told
<1> QED
  BY <1>3 DEF r

LEMMA PacketFollows ==
    ASSUME MemberInv, NEW g \in McAddrs, NEW event \in {"QUERY", "REPORT"}, Igmpv3Packet(g, event)
    PROVE  Follows
<1> DEFINE a == pico_igmp_analyse_packet(g)
           Table(q, e) == host_membership_diagram_table(q, NotListening, e)
<1>1. /\ DOMAIN mcast = McAddrs
      /\ \A h \in McAddrs : Agreed(mcast[h]) /\ Formed(mcast[h]) /\ mcast[h].state \in McStates
  BY DEF MemberInv, Body, Agreed
<1>2. /\ igmpLink'.mixed = igmpLink.mixed /\ McGroups \subseteq McAddrs
      /\ igmpLink.mixed = 0 => igmpLink.compat = "v3" /\ \A h \in McGroups : Steady(mcast[h]) /\ Told(mcast[h])
  BY DEF Igmpv3Packet, MemberInv, McInv, IsLink, V3Alone, TellsAll, McAddrs
<1>3. Kept(mcast[g], a) /\ a.state \in McStates \ {"none"} /\ (mcast[g].state # "none" => a.state = mcast[g].state)
  BY <1>1, AnalyseKept
<1>4. Formed(a) /\ a.filter = mcast[g].filter /\ a.listen = mcast[g].listen /\ a.refs = mcast[g].refs
  BY <1>3 DEF Kept
<1>5. igmpLink.mixed = 0 /\ g \in McGroups => Steady(a) /\ Told(a)
  <2> SUFFICES ASSUME igmpLink.mixed = 0, g \in McGroups PROVE Steady(a) /\ Told(a)
    OBVIOUS
  <2>1. Steady(a)
    BY <1>2, AnalyseIs
  <2>2. mcast[g].state # "none"
    BY McAssumption DEF Igmpv3Packet
  <2> HIDE DEF a
  <2> QED
    BY <1>2, <1>3, <1>4, <2>1, <2>2 DEF Told
<1>6. mcast' = IF g = General /\ event = "QUERY"
               THEN [h \in DOMAIN mcast |->
                       IF h = g THEN Table(a, "QUERY")
                       ELSE IF mcast[h].state = "none" THEN mcast[h] ELSE Table(mcast[h], "QUERY")]
               ELSE [mcast EXCEPT ![g] = Table(a, event)]
  BY DEF Igmpv3Packet
<1> HIDE DEF a
<1>7. ASSUME NEW e \in {"QUERY", "REPORT"}
      PROVE  /\ Kept(mcast[g], Table(a, e)) /\ Table(a, e).state \in McStates
             /\ igmpLink.mixed = 0 /\ g \in McGroups => Told(Table(a, e))
  <2>1. /\ Kept(a, Table(a, e)) /\ Table(a, e).state \in McStates
        /\ igmpLink.compat = "v3" /\ Steady(a) /\ Told(a) => Told(Table(a, e))
    BY <1>3, <1>4, TableFollows
  <2> HIDE DEF Table
  <2> QED
    BY <1>2, <1>4, <1>5, <2>1 DEF Kept
<1>8. ASSUME NEW h \in McAddrs, mcast[h].state # "none"
      PROVE  /\ Kept(mcast[h], Table(mcast[h], "QUERY")) /\ Table(mcast[h], "QUERY").state \in McStates
             /\ igmpLink.mixed = 0 /\ h \in McGroups => Told(Table(mcast[h], "QUERY"))
  BY <1>1, <1>2, <1>8, TableFollows
<1> HIDE DEF Table
<1>9. \A h \in McAddrs : Kept(mcast[h], mcast[h])
  BY <1>1, KeptSelf
<1>10. /\ DOMAIN mcast' = McAddrs
       /\ \A h \in McAddrs : Kept(mcast[h], mcast'[h]) /\ mcast'[h].state \in McStates
       /\ igmpLink.mixed = 0 => \A h \in McGroups : Told(mcast'[h])
  <2>1. CASE g = General /\ event = "QUERY"
    BY <1>1, <1>2, <1>6, <1>7, <1>8, <1>9, <2>1
  <2>2. CASE ~(g = General /\ event = "QUERY")
    <3>1. mcast' = [mcast EXCEPT ![g] = Table(a, event)]
      BY <1>6, <2>2
    <3>2. DOMAIN mcast' = McAddrs /\ \A h \in McAddrs : mcast'[h] = IF h = g THEN Table(a, event) ELSE mcast[h]
      BY <1>1, <3>1
    <3> QED
      BY <1>1, <1>2, <1>7, <1>9, <3>2
  <2> QED
    BY <2>1, <2>2
<1>11. Body(mcast)'
  BY <1>10, AllKept
<1> QED
  BY <1>2, <1>10, <1>11 DEF Follows, TellsAll

(* Packets of another version: that they came is remembered.               *)
LEMMA MixedFollows ==
    ASSUME MemberInv, NEW g \in McAddrs, RefusedPacket(g) \/ pico_igmp_compatibility_mode(g)
    PROVE  Follows
<1> DEFINE a == pico_igmp_analyse_packet(g)
           n == igmpLink.mixed + 1
           q == pico_igmp_timer_start(Dropped(igmpLink.querier))
<1>1. /\ DOMAIN mcast = McAddrs
      /\ \A h \in McAddrs : Agreed(mcast[h]) /\ Formed(mcast[h]) /\ mcast[h].state \in McStates
  BY DEF MemberInv, Body, Agreed
<1>2. n \in Nat /\ n # 0
  BY DEF MemberInv, McInv, IsLink
<1>3. igmpLink' = [igmpLink EXCEPT !.mixed = n]
      \/ igmpLink' = [igmpLink EXCEPT !.compat = "v2", !.mixed = n, !.querier = q]
  BY DEF RefusedPacket, pico_igmp_compatibility_mode
<1> HIDE DEF n, q
<1>4. igmpLink'.mixed # 0
  BY <1>2, <1>3 DEF MemberInv, McInv, IsLink
<1>5. Kept(mcast[g], a) /\ a.state \in McStates
  BY <1>1, AnalyseKept
<1>6. \A h \in McAddrs : Kept(mcast[h], mcast[h])
  BY <1>1, KeptSelf
<1> SUFFICES /\ DOMAIN mcast' = McAddrs
             /\ \A h \in McAddrs : Kept(mcast[h], mcast'[h]) /\ mcast'[h].state \in McStates
  BY <1>4, AllKept DEF Follows
<1>7. CASE RefusedPacket(g)
  <2> DEFINE b == [a EXCEPT !.f = "freed"]
  <2>1. mcast' = [mcast EXCEPT ![g] = b]
    BY <1>7 DEF RefusedPacket
  <2> HIDE DEF a
  <2>2. Kept(a, b) /\ b.state = a.state
    BY <1>5 DEF Kept, Formed, IsGroup
  <2> HIDE DEF b
  <2>3. Kept(mcast[g], b)
    BY <1>5, <2>2 DEF Kept
  <2> QED
    BY <1>1, <1>5, <1>6, <2>1, <2>2, <2>3
<1>8. CASE pico_igmp_compatibility_mode(g)
  <2> DEFINE d(h) == [mcast[h] EXCEPT !.timer = Dropped(mcast[h].timer)]
             dropped == [h \in DOMAIN mcast |-> d(h)]
             b == [a EXCEPT !.timer = Dropped(a.timer)]
             c == Started(b, "v2")
  <2>1. mcast' = [dropped EXCEPT ![g] = c]
    BY <1>8 DEF pico_igmp_compatibility_mode
  <2>2. ASSUME NEW h \in McAddrs PROVE Kept(mcast[h], d(h)) /\ d(h).state \in McStates
    <3> DEFINE p == mcast[h]
               t == Dropped(p.timer)
               e == [p EXCEPT !.timer = t]
    <3>1. t \in McTimerObjects /\ Formed(p) /\ p.state \in McStates
      BY <1>1, ObjectsStay DEF Formed
    <3> HIDE DEF p, t
    <3>2. Kept(p, e) /\ e.state = p.state
      BY <3>1 DEF Kept, Formed, IsGroup
    <3> HIDE DEF e
    <3> QED
      BY <3>1, <3>2 DEF e, t, p
  <2> HIDE DEF a, d
  <2>3. Kept(a, b)
    <3> DEFINE t == Dropped(a.timer)
    <3>1. t \in McTimerObjects /\ Formed(a)
      BY <1>5, ObjectsStay DEF Kept, Formed
    <3> HIDE DEF t
    <3>2. Kept(a, [a EXCEPT !.timer = t])
      BY <3>1 DEF Kept, Formed, IsGroup
    <3> QED
      BY <3>2 DEF t
  <2> HIDE DEF b
  <2>4. Kept(b, c) /\ c.state = "DELAYING_MEMBER"
    BY <2>3, StartedKept DEF Kept
  <2> HIDE DEF c
  <2>5. Kept(mcast[g], c) /\ c.state \in McStates
    BY <1>5, <2>3, <2>4 DEF Kept, McStates
  <2>6. DOMAIN mcast' = McAddrs /\ \A h \in McAddrs : mcast'[h] = IF h = g THEN c ELSE d(h)
    BY <1>1, <2>1
  <2> QED
    BY <2>2, <2>5, <2>6
<1> QED
  BY <1>7, <1>8

(* A timer that fires.                                                     *)
LEMMA TimedFollows ==
    ASSUME MemberInv, NEW g \in McAddrs, NEW q, Becomes(g, q), Kept(mcast[g], q),
           \/ q.state \in {mcast[g].state, "crash"}
           \/ mcast[g].state = "DELAYING_MEMBER" /\ q.state = "IDLE_MEMBER"
    PROVE  Follows
<1>1. Agreed(q)
  BY KeptAgreed DEF MemberInv, Body
<1>2. g = General => Asking(q.listen) = {}
  BY DEF MemberInv, Body, Kept
<1>3. igmpLink.mixed = 0 /\ g \in McGroups /\ q.state # "crash" => Told(q)
  BY DEF MemberInv, TellsAll, Told, Kept
<1> QED
  BY <1>1, <1>2, <1>3, BecomesFollows

LEMMA TimerFollows ==
    ASSUME MemberInv, NEW g \in McAddrs, pico_igmp_timer_expired(g)
    PROVE  Follows
<1> DEFINE p == mcast[g]
           t == p.timer
           With(u) == [p EXCEPT !.timer = u]
           End(u) == IF With(u).state = "none" THEN With(u)
                     ELSE host_membership_diagram_table(With(u), NotListening, "TIMER")
           one == [t EXCEPT !.old = t.old - 1]
           two == [t EXCEPT !.old = t.old - 1, !.own = t.own + 1]
           three == [FreedWith(t, t.own) EXCEPT !.old = t.old - 1]
           crash == [p EXCEPT !.state = "crash"]
<1>1. Formed(p) /\ p.state \in McStates /\ t \in McTimerObjects
  BY DEF MemberInv, Body, Agreed, Formed
<1>2. t.own \in Nat /\ t.old \in Nat
  BY <1>1 DEF McTimerObjects
<1>3. t.own > 0 => FreedWith(t, t.own - 1) \in McTimerObjects
  BY <1>1, <1>2, ObjectsStay
<1>4. t.old > 0 => /\ one \in McTimerObjects /\ Dropped(one) \in McTimerObjects
                   /\ two \in McTimerObjects /\ three \in McTimerObjects
  <2> SUFFICES ASSUME t.old > 0
               PROVE  /\ one \in McTimerObjects /\ Dropped(one) \in McTimerObjects
                      /\ two \in McTimerObjects /\ three \in McTimerObjects
    OBVIOUS
  <2> DEFINE a == t.old - 1
             b == t.own + 1
             f == FreedWith(t, t.own)
             o == [t EXCEPT !.old = a]
  <2>1. a \in Nat /\ b \in Nat /\ f \in McTimerObjects
    <3>1. f \in McTimerObjects
      BY <1>1, <1>2, ObjectsStay
    <3> HIDE DEF f, t
    <3> QED
      BY <1>2, <3>1
  <2> HIDE DEF a, b, f
  <2>2. o \in McTimerObjects /\ [t EXCEPT !.old = a, !.own = b] \in McTimerObjects
    BY <1>1, <2>1 DEF McTimerObjects
  <2>3. [f EXCEPT !.old = a] \in McTimerObjects
    BY <2>1 DEF McTimerObjects
  <2> HIDE DEF o
  <2>4. Dropped(o) \in McTimerObjects
    BY <2>2, ObjectsStay
  <2> QED
    BY <2>2, <2>3, <2>4 DEF a, b, f, o
<1>5. /\ t.old > 0 => [p EXCEPT !.timer.old = @ - 1] = With(one)
      /\ t.old > 0 => [p EXCEPT !.timer.old = @ - 1, !.timer.own = @ + 1] = With(two)
  BY <1>1, <1>2 DEF Formed, IsGroup, McTimerObjects
<1>6. \/ t.own > 0 /\ Becomes(g, With(FreedWith(t, t.own - 1)))
      \/ t.own > 0 /\ Becomes(g, End(FreedWith(t, t.own - 1)))
      \/ t.old > 0 /\ Becomes(g, [p EXCEPT !.timer.old = @ - 1])
      \/ t.old > 0 /\ Becomes(g, With(Dropped([t EXCEPT !.old = @ - 1])))
      \/ t.old > 0 /\ Becomes(g, End([FreedWith(t, t.own) EXCEPT !.old = @ - 1]))
      \/ t.old > 0 /\ Becomes(g, [p EXCEPT !.timer.old = @ - 1, !.timer.own = @ + 1])
      \/ Becomes(g, crash)
  BY DEF pico_igmp_timer_expired, TimerEnds
<1>7. [t EXCEPT !.old = @ - 1] = one /\ [FreedWith(t, t.own) EXCEPT !.old = @ - 1] = three
  <2>1. [t EXCEPT !.old = @ - 1] = one
    BY <1>1 DEF McTimerObjects
  <2>2. FreedWith(t, t.own).old = t.old
    BY <1>1 DEF McTimerObjects, FreedWith
  <2>3. FreedWith(t, t.own) \in McTimerObjects
    BY <1>1, <1>2, ObjectsStay
  <2> DEFINE f == FreedWith(t, t.own)
  <2> HIDE DEF f
  <2>4. [f EXCEPT !.old = @ - 1] = [f EXCEPT !.old = t.old - 1]
    BY <2>2, <2>3 DEF McTimerObjects, f
  <2> QED
    BY <2>1, <2>4 DEF f
<1> HIDE DEF t, one, two, three
<1>8. ASSUME NEW u \in McTimerObjects PROVE Kept(p, With(u)) /\ With(u).state = p.state
  <2> HIDE DEF p
  <2> QED
    BY <1>1 DEF Kept, Formed, IsGroup
<1>9. ASSUME NEW u \in McTimerObjects, Becomes(g, With(u)) PROVE Follows
  <2> DEFINE q == With(u)
  <2>1. Kept(p, q) /\ q.state = p.state /\ Becomes(g, q)
    BY <1>8, <1>9
  <2> HIDE DEF q, With
  <2> QED
    BY <2>1, TimedFollows
<1>10. ASSUME NEW u \in McTimerObjects, Becomes(g, End(u)) PROVE Follows
  <2> DEFINE w == With(u)
             r == host_membership_diagram_table(w, NotListening, "TIMER")
  <2>1. Kept(p, w) /\ w.state = p.state
    BY <1>8
  <2>2. IF w.state = "none" THEN Becomes(g, w) ELSE Becomes(g, r)
    BY <1>10
  <2> HIDE DEF w, With, End
  <2>3. CASE w.state = "none"
    BY <2>1, <2>2, <2>3, TimedFollows
  <2>4. CASE w.state # "none"
    <3> DEFINE c == [w EXCEPT !.state = "crash"]
               d == [w EXCEPT !.state = "IDLE_MEMBER", !.f = "freed"]
               b == [w EXCEPT !.f = "freed"]
    <3>1. IF w.state = "DELAYING_MEMBER" THEN r \in {c, d} ELSE r \in {w, b}
      BY <1>1, <2>1, <2>4 DEF host_membership_diagram_table, srsf, discard, McStates
    <3>2. c.state = "crash" /\ d.state = "IDLE_MEMBER" /\ b.state = w.state
      BY <2>1 DEF Kept, Formed, IsGroup
    <3>3. Kept(w, r)
      BY <1>1, <2>1, <2>4, TableKept DEF Kept
    <3>4. Kept(p, r)
      BY <2>1, <3>3 DEF Kept
    <3> HIDE DEF c, d, b, r
    <3>5. \/ r.state \in {p.state, "crash"}
          \/ p.state = "DELAYING_MEMBER" /\ r.state = "IDLE_MEMBER"
      BY <2>1, <3>1, <3>2
    <3> QED
      BY <2>2, <2>4, <3>4, <3>5, TimedFollows
  <2> QED
    BY <2>3, <2>4
<1>11. Kept(p, crash) /\ crash.state = "crash"
  <2> HIDE DEF p
  <2> QED
    BY <1>1 DEF Kept, Formed, IsGroup
<1>12. ASSUME Becomes(g, crash) PROVE Follows
  <2> HIDE DEF crash
  <2> QED
    BY <1>11, <1>12, TimedFollows
<1> HIDE DEF With, End, crash, p
<1> QED
  BY <1>3, <1>4, <1>5, <1>6, <1>7, <1>9, <1>10, <1>12

LEMMA QuerierFollows ==
    ASSUME MemberInv, QuerierTimer
    PROVE  Follows
<1> DEFINE l == igmpLink.querier
           d(h) == [mcast[h] EXCEPT !.timer = Dropped(mcast[h].timer)]
<1>0. igmpLink.mixed # 0
  BY DEF QuerierTimer, MemberInv, McInv, V3Alone, NoTimer
<1>1. /\ DOMAIN mcast = McAddrs
      /\ \A h \in McAddrs : Agreed(mcast[h]) /\ Formed(mcast[h]) /\ mcast[h].state \in McStates
  BY DEF MemberInv, Body, Agreed
<1>2. ASSUME NEW h \in McAddrs PROVE Kept(mcast[h], d(h)) /\ d(h).state \in McStates
  <2> DEFINE p == mcast[h]
             t == Dropped(p.timer)
             e == [p EXCEPT !.timer = t]
  <2>1. t \in McTimerObjects /\ Formed(p) /\ p.state \in McStates
    BY <1>1, ObjectsStay DEF Formed
  <2> HIDE DEF p, t
  <2>2. Kept(p, e) /\ e.state = p.state
    BY <2>1 DEF Kept, Formed, IsGroup
  <2> HIDE DEF e
  <2> QED
    BY <2>1, <2>2 DEF e, t, p
<1>3. ASSUME NEW q, pico_igmp_v2querier_expired(q) PROVE Follows
  <2>1. mcast' = [h \in DOMAIN mcast |-> d(h)]
    BY <1>3 DEF pico_igmp_v2querier_expired
  <2>2. igmpLink'.mixed = igmpLink.mixed
    BY <1>3 DEF pico_igmp_v2querier_expired, MemberInv, McInv, IsLink
  <2> HIDE DEF d
  <2>3. Body(mcast)'
    BY <1>1, <1>2, <2>1, AllKept
  <2> QED
    BY <1>0, <2>2, <2>3 DEF Follows
<1>4. ASSUME mcast' = mcast, igmpLink' = [igmpLink EXCEPT !.querier.old = @ - 1,
                              !.querier.own = IF l.tree = "none" THEN @ ELSE @ + 1]
      PROVE  Follows
  <2>1. igmpLink'.mixed = igmpLink.mixed
    BY <1>4 DEF MemberInv, McInv, IsLink
  <2> QED
    BY <1>0, <1>4, <2>1 DEF Follows, MemberInv, Body
<1> HIDE DEF d
<1> QED
  BY <1>3, <1>4, CrashFollows DEF QuerierTimer

LEMMA MemberStep ==
    ASSUME MemberInv, [McNext]_mcastVars
    PROVE  MemberInv'
<1>1. McInv'
  BY McStep DEF MemberInv
<1>2. CASE UNCHANGED mcastVars
  BY <1>1, <1>2 DEF mcastVars, MemberInv, Body, TellsAll
<1>3. CASE McNext
  <2>1. DOMAIN mcast = McAddrs
    BY DEF MemberInv, Body
  <2>2. Follows
    BY <1>3, <2>1, OptionFollows, DeleteFollows, PacketFollows, MixedFollows, TimerFollows, QuerierFollows
       DEF McNext
  <2> QED
    BY <1>1, <2>2 DEF Follows, MemberInv
<1> QED
  BY <1>2, <1>3

LEMMA MemberShows ==
    ASSUME MemberInv
    PROVE  McMembership
<1>1. McTypeOK
  <2> SUFFICES ASSUME NEW g \in McAddrs
               PROVE  /\ mcast[g].refs \in 0..McSockets
                      /\ mcast[g].filter.mode \in {"none", "INCLUDE", "EXCLUDE"}
                      /\ mcast[g].filter.src \subseteq McSources
                      /\ mcast[g].state \in {"none", "NON_MEMBER", "DELAYING_MEMBER", "IDLE_MEMBER"}
                      /\ mcast[g].timer \in
                           [tree : {"none", "running", "stopped"}, own : Nat, old : Nat, freed : Nat]
    BY DEF McTypeOK, MemberInv, Body
  <2> DEFINE p == mcast[g]
  <2>1. Agreed(p) /\ p.state \in McStates
    BY DEF MemberInv, Body
  <2>2. p.filter \in Filters
    BY <2>1, FilterOf
  <2>3. p.refs \in 0..McSockets /\ p.timer \in McTimerObjects
    BY <2>1, AskingFinite DEF Agreed, Formed
  <2> HIDE DEF p
  <2>4. p.filter.mode \in {"none", "INCLUDE", "EXCLUDE"} /\ p.filter.src \subseteq McSources
    BY <2>2 DEF Filters
  <2> QED
    BY <2>1, <2>3, <2>4 DEF p, McStates, McTimerObjects
<1>2. ASSUME NEW g \in McGroups
      PROVE  LET asking == {s \in 1..McSockets : mcast[g].listen[s].mode # "none"} IN
             /\ mcast[g].refs = Cardinality(asking)
             /\ (mcast[g].filter.mode = "none") = (asking = {})
             /\ igmpLink.mixed = 0 => (mcast[g].state = "none") = (asking = {})
             /\ Cardinality({mcast[g].listen[s].mode : s \in asking}) = 1 =>
                  \A s \in asking, src \in McSources :
                      pico_socket_mcast_filter(g, s, src) => pico_ipv4_mcast_filter(g, src)
  <2> DEFINE p == mcast[g]
             l == p.listen
             asking == Asking(l)
             modes == {l[s].mode : s \in asking}
  <2>1. Agreed(p) /\ (igmpLink.mixed = 0 => Told(p))
    BY GroupIs
  <2>2. asking = {s \in 1..McSockets : mcast[g].listen[s].mode # "none"}
    BY DEF Asking
  <2> HIDE DEF p
  <2>3. p.refs = Cardinality(asking) /\ (p.filter.mode = "none") = (asking = {})
    BY <2>1, FilterOf DEF Agreed
  <2>4. igmpLink.mixed = 0 => (p.state = "none") = (asking = {})
    BY <2>1, <2>3 DEF Told
  <2>5. ASSUME Cardinality(modes) = 1, NEW s \in asking, NEW src \in McSources, Passes(l[s], src)
        PROVE  Passes(p.filter, src)
    <3>1. p.filter = pico_socket_aggregate_mcastfilters(l) /\ l \in Listens
      BY <2>1 DEF Agreed
    <3>2. MergedOK(l, McSockets, p.filter)
      BY <3>1, AggregateOK
    <3>3. IsFiniteSet(modes)
      <4>1. IsFiniteSet({"INCLUDE"})
        BY FS_Singleton
      <4>2. IsFiniteSet({"INCLUDE"} \union {"EXCLUDE"})
        BY <4>1, FS_AddElement
      <4>3. modes \subseteq {"INCLUDE"} \union {"EXCLUDE"}
        BY <3>1 DEF Listens, Filters, Asking
      <4> QED
        BY <4>2, <4>3, FS_Subset
    <3>4. PICK m : modes = {m}
      <4> HIDE DEF modes
      <4> QED
        BY <2>5, <3>3, FS_Singleton
    <3>5. \A r \in asking : l[r].mode = l[s].mode
      BY <3>4
    <3>6. l[s].mode \in {"INCLUDE", "EXCLUDE"}
      BY <2>5 DEF Passes
    <3>7. /\ (\A r \in asking : l[r].mode = "INCLUDE") =>
               p.filter.mode = "INCLUDE" /\ \A r \in asking : l[r].src \subseteq p.filter.src
          /\ asking # {} /\ (\A r \in asking : l[r].mode = "EXCLUDE") =>
               p.filter.mode = "EXCLUDE" /\ \A r \in asking : p.filter.src \subseteq l[r].src
      BY <3>2 DEF MergedOK, Asking
    <3> HIDE DEF asking, l
    <3>8. CASE l[s].mode = "INCLUDE"
      BY <2>5, <3>5, <3>7, <3>8 DEF Passes
    <3>9. CASE l[s].mode = "EXCLUDE"
      BY <2>5, <3>5, <3>7, <3>9 DEF Passes
    <3> QED
      BY <3>6, <3>8, <3>9
  <2>6. /\ p.refs = Cardinality(asking) /\ (p.filter.mode = "none") = (asking = {})
        /\ igmpLink.mixed = 0 => (p.state = "none") = (asking = {})
        /\ Cardinality(modes) = 1 =>
             \A s \in asking, src \in McSources : Passes(l[s], src) => Passes(p.filter, src)
    BY <2>3, <2>4, <2>5
  <2> HIDE DEF asking
  <2> QED
    BY <2>2, <2>6 DEF p, pico_socket_mcast_filter, pico_ipv4_mcast_filter
<1> QED
  BY <1>1, <1>2 DEF McMembership

(* For any number of sockets, groups and sources, whatever options the     *)
(* sockets use in any order and whatever packets of any version of IGMP    *)
(* come in: the link is a member of exactly the groups its sockets ask     *)
(* for, the reference count is the number of those sockets, the routers    *)
(* are told of those groups and no others while IGMPv3 is alone on the     *)
(* link, and sockets that filter in one mode all receive what they let     *)
(* through (mcast_so_addm to mcast_so_dropsrcm, pico_multicast_delete,     *)
(* pico_socket_aggregate_mcastfilters, pico_ipv4_mcast_join and _leave).   *)
THEOREM MembershipFollowsSockets == McSpec => []McMembership
<1>1. McInit => MemberInv
  <2> SUFFICES ASSUME McInit PROVE MemberInv
    OBVIOUS
  <2>1. mcast = NoMembership
    BY DEF McInit
  <2> QED
    BY <2>1, McStarts, NobodyAsks DEF MemberInv
<1>2. MemberInv /\ [McNext]_mcastVars => MemberInv'
  BY MemberStep
<1>3. MemberInv => McMembership
  BY MemberShows
<1> QED
  BY <1>1, <1>2, <1>3, PTL DEF McSpec
=============================================================================
