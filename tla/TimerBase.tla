------------------------------ MODULE TimerBase ------------------------------
(***************************************************************************)
(* What the timer service (module Timers) and its implementation (module   *)
(* TimersHeap) share: the parameters and the shape of a timer.             *)
(***************************************************************************)
EXTENDS Integers

CONSTANTS
    Delays,    \* the delays, in ms, that clients ask for
    Hashes,    \* hashes of pico_timer_add_hashed (mdns_hash); 0 is "no hash"
    IdSpace,   \* 2^32: tmr_id is a uint32_t
    FirstIds,  \* tmr_id when the behaviour begins: any value, after a long uptime
    MaxTime,   \* bound: the last value of the clock
    MaxAdds    \* bound: how many timers are created

ASSUME TimersAssumption ==
    /\ Delays \subseteq Nat
    /\ Hashes \subseteq Nat \ {0}
    /\ IdSpace \in Nat \ {0, 1}
    /\ FirstIds \subseteq 0..(IdSpace - 1)
    /\ MaxTime \in Nat
    /\ MaxAdds \in Nat

Timer == [tmr : 1..MaxAdds, id : 0..(IdSpace - 1), hash : {0} \union Hashes,
          expire : Nat]
None == [tmr |-> 0, id |-> 0, hash |-> 0, expire |-> 0]

(* tmr_id++ on a uint32_t, and the guard that never hands out zero.        *)
Wrap(n) == n % IdSpace
=============================================================================
