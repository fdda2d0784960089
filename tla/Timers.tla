------------------------------- MODULE Timers -------------------------------
(***************************************************************************)
(* What the timer service of stack/pico_stack.c promises to the rest of    *)
(* the stack: pico_timer_add, pico_timer_add_hashed, pico_timer_cancel,    *)
(* pico_timer_cancel_hashed and the pass of pico_check_timers that every   *)
(* pico_stack_tick begins with.  The heap is abstracted to the set of      *)
(* timers that are armed; module TimersHeap keeps the array and its        *)
(* memory, and implements this module.                                     *)
(*                                                                         *)
(* The stack is single threaded: the interleaving is between the loop of   *)
(* pico_check_timers, the callbacks it runs (which add and cancel timers)  *)
(* and the clock, which advances at any moment.                            *)
(***************************************************************************)
EXTENDS TimerBase

VARIABLES
    now,        \* PICO_TIME_MS()
    pico_tick,  \* the time the current (or last) pass began
    pc,         \* "idle", "check" (head of the loop) or "callback"
    tmr_id,     \* the next identifier
    added,      \* timers created so far: names the next struct pico_timer
    armed,      \* the timers waiting: [tmr, id, hash, expire]
    current,    \* the timer whose callback runs
    passed      \* expiry of the last timer fired in this pass (history)

vars == <<now, pico_tick, pc, tmr_id, added, armed, current, passed>>

NextId == IF tmr_id = 0 THEN Wrap(tmr_id + 1) ELSE tmr_id

Init ==
    /\ now = 0
    /\ pico_tick = now
    /\ pc = "idle"
    /\ tmr_id \in FirstIds
    /\ added = 0
    /\ armed = {}
    /\ current = None
    /\ passed = 0

(* Callbacks, and everything else that runs between two passes, call the   *)
(* timer API; nothing else runs while the loop is at its head.             *)
InClient == pc \in {"idle", "callback"}

Advance ==
    /\ now < MaxTime
    /\ now' = now + 1
    /\ UNCHANGED <<pico_tick, pc, tmr_id, added, armed, current, passed>>

Add(d, h) ==
    /\ InClient
    /\ added < MaxAdds
    /\ added' = added + 1
    /\ tmr_id' = Wrap(NextId + 1)
    /\ armed' = armed \union
                {[tmr |-> added + 1, id |-> NextId, hash |-> h, expire |-> now + d]}
    /\ UNCHANGED <<now, pico_tick, pc, current, passed>>

(* No memory: pico_timer_create fails before an identifier is taken, or    *)
(* heap_insert fails after it is.                                          *)
AddFails ==
    /\ InClient
    /\ added < MaxAdds
    /\ added' = added + 1
    /\ tmr_id' \in {NextId, Wrap(NextId + 1)}
    /\ UNCHANGED <<now, pico_tick, pc, armed, current, passed>>

(* A callback does not cancel the timer it runs for.                       *)
Cancel(i) ==
    /\ InClient
    /\ i # current.id
    /\ armed' = {r \in armed : r.id # i}
    /\ UNCHANGED <<now, pico_tick, pc, tmr_id, added, current, passed>>

(* pico_timer_cancel_hashed stores its zero in tref[i].id where i counts   *)
(* from the heap's base, so it may disown timers of other clients: they    *)
(* stay armed, with identifier zero, and cannot be cancelled any more.     *)
Disowned(r) == [r EXCEPT !.id = 0]

CancelHashed(h) ==
    /\ InClient
    /\ h # current.hash
    /\ \E rest \in SUBSET {r \in armed : r.hash # h} :
          armed' = {IF r \in rest THEN Disowned(r) ELSE r :
                       r \in {s \in armed : s.hash # h}}
    /\ UNCHANGED <<now, pico_tick, pc, tmr_id, added, current, passed>>

CheckBegin ==
    /\ pc = "idle"
    /\ pc' = "check"
    /\ pico_tick' = now
    /\ passed' = 0
    /\ UNCHANGED <<now, tmr_id, added, armed, current>>

Due(r) == r.expire < pico_tick

Fire ==
    /\ pc = "check"
    /\ \E r \in armed :
          /\ Due(r)
          /\ \A s \in armed : r.expire <= s.expire
          /\ armed' = armed \ {r}
          /\ current' = r
          /\ passed' = r.expire
    /\ pc' = "callback"
    /\ UNCHANGED <<now, pico_tick, tmr_id, added>>

CallbackReturn ==
    /\ pc = "callback"
    /\ pc' = "check"
    /\ current' = None
    /\ UNCHANGED <<now, pico_tick, tmr_id, added, armed, passed>>

CheckEnd ==
    /\ pc = "check"
    /\ \A r \in armed : ~Due(r)
    /\ pc' = "idle"
    /\ UNCHANGED <<now, pico_tick, tmr_id, added, armed, current, passed>>

Next ==
    \/ Advance
    \/ \E d \in Delays, h \in {0} \union Hashes : Add(d, h)
    \/ AddFails
    \/ \E i \in 1..(IdSpace - 1) : Cancel(i)
    \/ \E h \in Hashes : CancelHashed(h)
    \/ CheckBegin
    \/ Fire
    \/ CallbackReturn
    \/ CheckEnd

Spec == Init /\ [][Next]_vars

-----------------------------------------------------------------------------
TypeOK ==
    /\ now \in Nat
    /\ pico_tick \in Nat
    /\ pc \in {"idle", "check", "callback"}
    /\ tmr_id \in 0..(IdSpace - 1)
    /\ added \in 0..MaxAdds
    /\ armed \subseteq Timer
    /\ current \in Timer \union {None}
    /\ passed \in Nat

(* A pass leaves nothing overdue behind: what the callbacks of a pass arm, *)
(* with a delay of zero even, expires no earlier than the pass began.      *)
NoneOverdue == pc = "idle" => \A r \in armed : ~Due(r)

(* In a pass no timer fires after one that expires later: whatever a       *)
(* callback arms never goes ahead of the timers already fired.             *)
FiresInOrder == pc # "idle" => \A r \in armed : passed <= r.expire

TimerInv ==
    /\ TypeOK
    /\ pico_tick <= now
    /\ NoneOverdue
    /\ FiresInOrder
    /\ pc # "idle" => (passed = 0 \/ passed < pico_tick)
=============================================================================
