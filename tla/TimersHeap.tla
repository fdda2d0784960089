----------------------------- MODULE TimersHeap -----------------------------
(***************************************************************************)
(* The timer service as stack/pico_stack.c and include/heap.h build it: a  *)
(* binary min-heap of timer references in an array that grows one element  *)
(* at a time inside blocks, a struct pico_timer allocated for each         *)
(* reference, cancelled references left in the heap as tombstones (tmr     *)
(* NULL) until they expire, and a loop that runs the callback of the first *)
(* element while the element is still in the heap and pops the first       *)
(* element afterwards, whatever it is by then.                             *)
(*                                                                         *)
(* Property Implements says that this is the service of module Timers.     *)
(***************************************************************************)
EXTENDS TimerBase, Sequences

CONSTANTS
    PerBlock,  \* MAX_BLOCK_SIZE / sizeof(struct pico_timer_ref)
    Blocks     \* MAX_BLOCK_COUNT

ASSUME HeapAssumption == PerBlock \in Nat \ {0} /\ Blocks \in Nat \ {0}

VARIABLES now, pico_tick, pc, tmr_id, added,
    heap,    \* the elements 1..n of the heap: [expire, tmr, id, hash]
    size,    \* heap->size
    top,     \* allocated elements of each block
    alloc,   \* the struct pico_timer objects that are allocated
    current, \* the reference whose callback runs, as it was when it began
    passed   \* expiry of the last timer fired in this pass (history)

hvars == <<heap, size, top>>
vars == <<now, pico_tick, pc, tmr_id, added, heap, size, top, alloc, current, passed>>

NULL == 0

Init ==
    /\ now = 0
    /\ pico_tick = now
    /\ pc = "idle"
    /\ tmr_id \in FirstIds
    /\ added = 0
    /\ heap = <<>>
    /\ size = 0
    /\ top = [b \in 0..(Blocks - 1) |-> 0]
    /\ alloc = {}
    /\ current = None
    /\ passed = 0

-----------------------------------------------------------------------------
(* include/heap.h                                                          *)

(* The heap after the element el was put at place i of it: it climbs past  *)
(* every parent that expires later, and each of those moves down one place. *)
Climb(h, el) ==
    LET up[i \in 1..(Len(h) + 1)] ==
            IF i > 1 /\ h[i \div 2].expire > el.expire
            THEN [up[i \div 2] EXCEPT ![i] = h[i \div 2]]
            ELSE [Append(h, el) EXCEPT ![i] = el]
    IN  up
heap_insert(h, el) == Climb(h, el)[Len(h) + 1]

(* Mutant of Child: only the left child is compared.                       *)
LeftChild(h, n, i) == 2 * i

(* Of the first n elements, the child of i that expires first.             *)
Child(h, n, i) ==
    IF 2 * i # n /\ h[2 * i + 1].expire < h[2 * i].expire THEN 2 * i + 1 ELSE 2 * i

(* The heap after the last element was put at place i of it: it sinks past *)
(* every child that expires earlier, and each of those moves up one place. *)
Sink(h) ==
    LET n == Len(h) - 1
        last == h[n + 1]
        down[i \in 1..(n + 1)] ==
            IF 2 * i <= n /\ last.expire > h[Child(h, n, i)].expire
            THEN [down[Child(h, n, i)] EXCEPT ![i] = h[Child(h, n, i)]]
            ELSE [h EXCEPT ![i] = last]
    IN  down
(* Pops the first element.                                                 *)
heap_peek(h) == SubSeq(Sink(h)[1], 1, Len(h) - 1)

(* Mutant: room for n elements, but they are numbered from 1.               *)
ElementsShort(n) == IF n % PerBlock = 0 THEN PerBlock ELSE n % PerBlock

(* Elements the block of index n must hold so that n fits in it.           *)
Elements(n) == IF (n + 1) % PerBlock = 0 THEN PerBlock ELSE (n + 1) % PerBlock

(* heap_increase_size, for the count n that heap_insert has raised.        *)
CanGrow(n) == n + 1 <= PerBlock * Blocks
Grow(n) ==
    IF n >= size
    THEN /\ size' = size + 1
         /\ top' = [top EXCEPT ![n \div PerBlock] = Elements(n)]
    ELSE UNCHANGED <<size, top>>

-----------------------------------------------------------------------------
(* pico_timer_add, pico_timer_add_hashed, pico_timer_cancel*               *)

NextId == IF tmr_id = 0 THEN Wrap(tmr_id + 1) ELSE tmr_id

InClient == pc \in {"idle", "callback"}

Advance ==
    /\ now < MaxTime
    /\ now' = now + 1
    /\ UNCHANGED <<pico_tick, pc, tmr_id, added, heap, size, top, alloc, current, passed>>

TimerRef(d, h) ==
    [expire |-> now + d, tmr |-> added + 1, id |-> NextId, hash |-> h]

Add(d, h) ==
    /\ InClient
    /\ added < MaxAdds
    /\ Len(heap) + 1 >= size => CanGrow(Len(heap) + 1)
    /\ Grow(Len(heap) + 1)
    /\ heap' = heap_insert(heap, TimerRef(d, h))
    /\ alloc' = alloc \union {added + 1}
    /\ added' = added + 1
    /\ tmr_id' = Wrap(NextId + 1)
    /\ UNCHANGED <<now, pico_tick, pc, current, passed>>

(* pico_timer_create finds no memory: no identifier is consumed.           *)
CreateFails ==
    /\ InClient
    /\ added < MaxAdds
    /\ added' = added + 1
    /\ tmr_id' = NextId
    /\ UNCHANGED <<now, pico_tick, pc, alloc, current, passed, hvars>>

(* heap_insert fails, for want of memory or because all blocks are full:   *)
(* the struct pico_timer is freed again.                                   *)
InsertFails ==
    /\ InClient
    /\ added < MaxAdds
    /\ Len(heap) + 1 >= size
    /\ added' = added + 1
    /\ tmr_id' = Wrap(NextId + 1)
    /\ UNCHANGED <<now, pico_tick, pc, alloc, current, passed, hvars>>

FirstWithId(i) == {k \in DOMAIN heap : heap[k].id = i /\ \A j \in 1..(k - 1) : heap[j].id # i}
Tombstone(r) == [r EXCEPT !.tmr = NULL, !.id = 0]

(* Mutant: the cancelled struct pico_timer is not freed.                   *)
CancelLeaks(i) ==
    /\ InClient
    /\ i # current.id
    /\ heap' = [k \in DOMAIN heap |-> IF heap[k].id = i THEN Tombstone(heap[k]) ELSE heap[k]]
    /\ UNCHANGED <<now, pico_tick, pc, tmr_id, added, size, top, alloc, current, passed>>

(* The first reference with the identifier loses its timer, unless it has  *)
(* lost it already.                                                        *)
Cancel(i) ==
    /\ InClient
    /\ i # current.id
    /\ LET hit == {k \in FirstWithId(i) : heap[k].tmr # NULL}
       IN  /\ heap' = [k \in DOMAIN heap |->
                          IF k \in hit THEN Tombstone(heap[k]) ELSE heap[k]]
           /\ alloc' = alloc \ {heap[k].tmr : k \in hit}
    /\ UNCHANGED <<now, pico_tick, pc, tmr_id, added, size, top, current, passed>>

(* Every reference with the hash loses its timer.  The identifier that is  *)
(* cleared is tref[i].id with tref already at element i, that is, the one  *)
(* of element 2 * i if the block reaches that far (memory beyond the block *)
(* is not modelled).                                                       *)
SameBlock(i, j) == i \div PerBlock = j \div PerBlock

CancelHashed(h) ==
    /\ InClient
    /\ h # current.hash
    /\ LET hit == {k \in DOMAIN heap : heap[k].hash = h /\ heap[k].tmr # NULL}
       IN  /\ heap' = [k \in DOMAIN heap |->
                          [heap[k] EXCEPT
                             !.tmr = IF k \in hit THEN NULL ELSE @,
                             !.id = IF \E i \in hit : k = 2 * i /\ SameBlock(i, k) THEN 0 ELSE @]]
           /\ alloc' = alloc \ {heap[k].tmr : k \in hit}
    /\ UNCHANGED <<now, pico_tick, pc, tmr_id, added, size, top, current, passed>>

-----------------------------------------------------------------------------
(* pico_check_timers                                                       *)

(* Mutant: the pass looks at the clock of the previous one.                *)
CheckBeginStale ==
    /\ pc = "idle"
    /\ pc' = "check"
    /\ passed' = 0
    /\ UNCHANGED <<now, pico_tick, tmr_id, added, alloc, current, hvars>>

CheckBegin ==
    /\ pc = "idle"
    /\ pc' = "check"
    /\ pico_tick' = now
    /\ passed' = 0
    /\ UNCHANGED <<now, tmr_id, added, alloc, current, hvars>>

FirstDue == heap # <<>> /\ heap[1].expire < pico_tick

Fire ==
    /\ pc = "check"
    /\ FirstDue
    /\ heap[1].tmr # NULL
    /\ current' = heap[1]
    /\ passed' = heap[1].expire
    /\ pc' = "callback"
    /\ UNCHANGED <<now, pico_tick, tmr_id, added, alloc, hvars>>

(* The callback returns: its timer is freed, and the first element popped. *)
CallbackReturn ==
    /\ pc = "callback"
    /\ alloc' = alloc \ {current.tmr}
    /\ heap' = heap_peek(heap)
    /\ current' = None
    /\ pc' = "check"
    /\ UNCHANGED <<now, pico_tick, tmr_id, added, size, top, passed>>

(* A tombstone is popped with nothing to call.                             *)
DropTombstone ==
    /\ pc = "check"
    /\ FirstDue
    /\ heap[1].tmr = NULL
    /\ heap' = heap_peek(heap)
    /\ UNCHANGED <<now, pico_tick, pc, tmr_id, added, size, top, alloc, current, passed>>

CheckEnd ==
    /\ pc = "check"
    /\ ~FirstDue
    /\ pc' = "idle"
    /\ UNCHANGED <<now, pico_tick, tmr_id, added, alloc, current, passed, hvars>>

Next ==
    \/ Advance
    \/ \E d \in Delays, h \in {0} \union Hashes : Add(d, h)
    \/ CreateFails
    \/ InsertFails
    \/ \E i \in 1..(IdSpace - 1) : Cancel(i)
    \/ \E h \in Hashes : CancelHashed(h)
    \/ CheckBegin
    \/ Fire
    \/ CallbackReturn
    \/ DropTombstone
    \/ CheckEnd

(* pico_stack_tick is called for ever, callbacks return and time passes.   *)
Spec ==
    /\ Init
    /\ [][Next]_vars
    /\ WF_vars(Advance)
    /\ WF_vars(CheckBegin)
    /\ WF_vars(Fire \/ CallbackReturn \/ DropTombstone \/ CheckEnd)

-----------------------------------------------------------------------------
Live == {k \in DOMAIN heap : heap[k].tmr # NULL}

TypeOK ==
    /\ pc \in {"idle", "check", "callback"}
    /\ tmr_id \in 0..(IdSpace - 1)
    /\ \A k \in DOMAIN heap :
          heap[k] \in [expire : Nat, tmr : 0..MaxAdds,
                       id : 0..(IdSpace - 1), hash : {0} \union Hashes]
    /\ size \in Nat
    /\ alloc \subseteq 1..MaxAdds

(* Besides the types: element n of the heap is always inside the memory    *)
(* its block was last allocated with.  Growing by one element at a time,   *)
(* and not at all after elements were removed, never leaves                *)
(* heap_get_element short.                                                 *)
InsideBlocks == TypeOK /\ \A k \in DOMAIN heap : k % PerBlock < top[k \div PerBlock]

(* Every struct pico_timer is freed exactly when the last reference to it  *)
(* goes: by the cancel that leaves a tombstone or after its callback.      *)
NoTimerLeak == alloc = {heap[k].tmr : k \in Live}

(* "zero is guard for timers": no timer that can still fire has identifier *)
(* zero, so that whoever armed it can still cancel it.                     *)
ZeroIsGuard == \A k \in Live : heap[k].id # 0

(* Timers that wait are the service's armed timers; the one whose callback *)
(* runs is in the heap still, but no longer armed.                         *)
ArmedTimers ==
    {[tmr |-> heap[k].tmr, id |-> heap[k].id, hash |-> heap[k].hash,
      expire |-> heap[k].expire] : k \in {j \in Live : heap[j].tmr # current.tmr}}

Service == INSTANCE Timers WITH armed <- ArmedTimers

(* Every step of the heap is a step of the timer service: the element that *)
(* pico_check_timers pops after a callback is the one whose callback ran,  *)
(* although the callback may have inserted others, timers fire in the      *)
(* order of expiry, and a pass leaves none that was due when it began      *)
(* (TimersProofs).                                                         *)
Implements == Service!Spec

(* A timer that is armed fires, or is cancelled: it does not stay in the   *)
(* heap for ever.                                                          *)
EveryTimerEnds ==
    \A t \in 1..MaxAdds :
        (\E k \in Live : heap[k].tmr = t /\ heap[k].expire < MaxTime)
            ~> ~ \E k \in Live : heap[k].tmr = t
=============================================================================
