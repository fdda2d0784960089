---------------------------- MODULE TimersProofs ----------------------------
(***************************************************************************)
(* The safety of the timer service for every clock, number of timers and   *)
(* width of the identifiers.  The inductive invariant is TimerInv of       *)
(* module Timers: besides the two properties it says that a pass never     *)
(* runs ahead of the clock and that what it has fired expired before it    *)
(* began, which is what keeps a timer armed by a callback behind both.     *)
(***************************************************************************)
EXTENDS Timers, TLAPS

(* The uint32_t counter stays in range, and the next identifier is handed  *)
(* out by pico_timer_add only after the guard has skipped zero.            *)
LEMMA WrapRange == ASSUME NEW n \in Nat PROVE Wrap(n) \in 0..(IdSpace - 1)
  BY TimersAssumption DEF Wrap

LEMMA NextIdRange ==
  ASSUME TypeOK PROVE NextId \in 1..(IdSpace - 1)
  <1>1. CASE tmr_id = 0
    <2>1. Wrap(1) = 1
      BY TimersAssumption DEF Wrap
    <2> QED BY <1>1, <2>1, TimersAssumption DEF NextId
  <1>2. CASE tmr_id # 0
    BY <1>2, TimersAssumption DEF NextId, TypeOK
  <1> QED BY <1>1, <1>2

LEMMA InitInv == Init => TimerInv
  <1> SUFFICES ASSUME Init PROVE TimerInv
    OBVIOUS
  <1>1. TypeOK
    BY TimersAssumption DEF Init, TypeOK
  <1> QED BY <1>1 DEF Init, TimerInv, NoneOverdue, FiresInOrder

LEMMA NextInv == TimerInv /\ [Next]_vars => TimerInv'
  <1> SUFFICES ASSUME TimerInv, [Next]_vars PROVE TimerInv'
    OBVIOUS
  <1> USE TimersAssumption
  <1>0. /\ TypeOK
        /\ NextId \in 1..(IdSpace - 1)
        /\ Wrap(NextId + 1) \in 0..(IdSpace - 1)
    <2>1. TypeOK BY DEF TimerInv
    <2>2. NextId \in 1..(IdSpace - 1) BY <2>1, NextIdRange
    <2>3. NextId + 1 \in Nat BY <2>2
    <2> QED BY <2>1, <2>2, <2>3, WrapRange
  <1>1. CASE Advance
    BY <1>0, <1>1 DEF Advance, TimerInv, TypeOK, NoneOverdue, FiresInOrder, Due
  <1>2. ASSUME NEW d \in Delays, NEW h \in {0} \union Hashes, Add(d, h)
        PROVE  TimerInv'
    <2> DEFINE new == [tmr |-> added + 1, id |-> NextId, hash |-> h, expire |-> now + d]
    <2>1. armed' = armed \union {new}
      BY <1>2 DEF Add
    <2>2. new \in Timer /\ new.expire >= now
      <3>1. d \in Nat /\ now \in Nat /\ added + 1 \in 1..MaxAdds
        BY <1>0, <1>2 DEF TypeOK, Add
      <3> QED BY <1>0, <3>1 DEF Timer
    <2>3. TypeOK'
      <3>1. armed' \subseteq Timer
        BY <1>0, <2>1, <2>2 DEF TypeOK
      <3> QED BY <1>0, <1>2, <3>1 DEF Add, TypeOK
    <2>4. UNCHANGED <<now, pico_tick, pc, passed>>
      BY <1>2 DEF Add
    <2>5. NoneOverdue'
      BY <1>0, <2>1, <2>2, <2>4 DEF TimerInv, NoneOverdue, Due, TypeOK, Timer
    <2>6. FiresInOrder'
      BY <1>0, <2>1, <2>2, <2>4 DEF TimerInv, FiresInOrder, TypeOK, Timer
    <2> QED BY <2>3, <2>4, <2>5, <2>6 DEF TimerInv
  <1>3. CASE AddFails
    BY <1>0, <1>3 DEF AddFails, TimerInv, TypeOK, NoneOverdue, FiresInOrder, Due
  <1>4. ASSUME NEW i \in 1..(IdSpace - 1), Cancel(i)
        PROVE  TimerInv'
    BY <1>0, <1>4 DEF Cancel, TimerInv, TypeOK, NoneOverdue, FiresInOrder, Due
  <1>5. ASSUME NEW h \in Hashes, CancelHashed(h)
        PROVE  TimerInv'
    <2>1. PICK rest \in SUBSET {r \in armed : r.hash # h} :
             armed' = {IF r \in rest THEN Disowned(r) ELSE r :
                          r \in {s \in armed : s.hash # h}}
      BY <1>5 DEF CancelHashed
    <2>2. ASSUME NEW r \in Timer
          PROVE  Disowned(r) \in Timer /\ Disowned(r).expire = r.expire
      BY DEF Disowned, Timer
    <2>3. \A s \in armed' : s \in Timer /\ \E r \in armed : s.expire = r.expire
      BY <1>0, <2>1, <2>2 DEF TypeOK
    <2>4. UNCHANGED <<now, pico_tick, pc, tmr_id, added, current, passed>>
      BY <1>5 DEF CancelHashed
    <2>5. TypeOK'
      BY <1>0, <2>3, <2>4 DEF TypeOK
    <2>6. NoneOverdue' /\ FiresInOrder'
      BY <2>3, <2>4 DEF TimerInv, NoneOverdue, FiresInOrder, Due
    <2> QED BY <2>4, <2>5, <2>6 DEF TimerInv
  <1>6. CASE CheckBegin
    <2>1. \A r \in armed : r.expire \in Nat
      BY <1>0 DEF TypeOK, Timer
    <2> QED BY <1>0, <1>6, <2>1
            DEF CheckBegin, TimerInv, TypeOK, NoneOverdue, FiresInOrder, Due
  <1>7. CASE Fire
    <2>1. PICK r \in armed : /\ Due(r)
                             /\ \A s \in armed : r.expire <= s.expire
                             /\ armed' = armed \ {r}
                             /\ current' = r
                             /\ passed' = r.expire
      BY <1>7 DEF Fire
    <2>2. r \in Timer
      BY <1>0 DEF TypeOK
    <2>3. r.expire \in Nat
      BY <2>2 DEF Timer
    <2> QED BY <1>0, <1>7, <2>1, <2>2, <2>3
            DEF Fire, TimerInv, TypeOK, NoneOverdue, FiresInOrder, Due
  <1>8. CASE CallbackReturn
    BY <1>0, <1>8 DEF CallbackReturn, TimerInv, TypeOK, NoneOverdue, FiresInOrder, Due
  <1>9. CASE CheckEnd
    BY <1>0, <1>9 DEF CheckEnd, TimerInv, TypeOK, NoneOverdue, FiresInOrder, Due
  <1>10. CASE UNCHANGED vars
    BY <1>0, <1>10 DEF vars, TimerInv, TypeOK, NoneOverdue, FiresInOrder, Due
  <1> QED
    BY <1>1, <1>2, <1>3, <1>4, <1>5, <1>6, <1>7, <1>8, <1>9, <1>10 DEF Next

(* The timer service keeps its invariant.                                  *)
THEOREM TimersSafe == Spec => []TimerInv
  BY InitInv, NextInv, PTL DEF Spec

(* pico_check_timers never returns with a timer that was due when it began *)
(* still armed, however its callbacks add and cancel timers.               *)
THEOREM NothingLeftOverdue == Spec => []NoneOverdue
  <1>1. TimerInv => NoneOverdue
    BY DEF TimerInv
  <1> QED BY <1>1, TimersSafe, PTL

(* In one pass of pico_check_timers, the callbacks run in the order of     *)
(* their expiry.                                                           *)
THEOREM PassInOrder == Spec => []FiresInOrder
  <1>1. TimerInv => FiresInOrder
    BY DEF TimerInv
  <1> QED BY <1>1, TimersSafe, PTL
=============================================================================
