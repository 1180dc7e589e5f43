---------------------------- MODULE SkynetTimer -----------------------------
(***************************************************************************)
(* The hierarchical timer wheel of skynet-src/skynet_timer.c.  Services    *)
(* add timers under the wheel's lock; the timer thread follows the system  *)
(* clock and performs one timer_update per tick, which releases the lock   *)
(* while it delivers the timers of the current tick.                       *)
(*                                                                         *)
(* TIME_NEAR and TIME_LEVEL, powers of two, give the width of the wheel's  *)
(* time: it counts modulo TimeSpan, as the code's uint32_t does.           *)
(***************************************************************************)
EXTENDS Integers, Sequences, FiniteSets

CONSTANTS
  Timer,        \* timers; one that fired may be set again
  TIME_NEAR,    \* slots of the near wheel, 256 in the code
  TIME_LEVEL,   \* slots of each of the four levels, 64 in the code
  MaxDelay,     \* longest delay: less than half of TimeSpan, as an int is of a uint32_t
  MaxLag        \* bound: ticks the timer thread may be behind the clock

ASSUME WheelAssumption == TIME_NEAR \in Nat \ {0} /\ TIME_LEVEL \in Nat \ {0, 1}

\* The ticks one slot of level i stands for, and for i = 4 the whole wheel: the
\* mask of add_node and timer_shift, which grows by a level in each round.
SlotSpan(i) ==
  LET mask[k \in 0..4] == IF k = 0 THEN TIME_NEAR ELSE mask[k - 1] * TIME_LEVEL IN mask[i]

TimeSpan == SlotSpan(4)

ASSUME DelayAssumption == MaxDelay \in Nat \ {0} /\ 2 * MaxDelay < TimeSpan
ASSUME LagAssumption == MaxLag \in Nat \ {0}

VARIABLES
  near,      \* the near wheel: slot to list of timers
  t,         \* the four levels: level and slot to list of timers
  time,      \* T->time
  expire,    \* the expire field of each timer
  pc,        \* timer thread: "idle", "exec1", "shift", "exec2"
  lock,      \* the timer thread holds the wheel's lock
  dispatch,  \* the list unlinked by timer_execute and not yet delivered
  todo,      \* timer_update calls left of this skynet_updatetime
  lag,       \* ticks of the clock that the timer thread has not read
  remain,    \* history: ticks until the timer is due, -1 when it is late
  order      \* history: the timers that are set, in the order they were added

wheelVars == <<near, t, time, expire>>
vars == <<near, t, time, expire, pc, lock, dispatch, todo, lag, remain, order>>

Slots == 0..TIME_NEAR - 1
Levels == 0..3
LevelSlots == 0..TIME_LEVEL - 1

\* timer_create_timer, skynet_timer_init.
Init ==
  /\ near = [s \in Slots |-> <<>>] /\ t = [i \in Levels |-> [s \in LevelSlots |-> <<>>]]
  /\ time = 0 /\ expire = [n \in Timer |-> 0]
  /\ pc = "idle" /\ lock = FALSE /\ dispatch = <<>> /\ todo = 0 /\ lag = 0
  /\ remain = [n \in Timer |-> 0] /\ order = <<>>
-----------------------------------------------------------------------------
(* The wheel.                                                              *)

\* x|(m-1) == y|(m-1).
SameBlock(x, y, m) == x \div m = y \div m

\* The level the loop of add_node stops at.
LevelOf(e, now) ==
  IF \E i \in 0..2 : SameBlock(e, now, SlotSpan(i + 1))
  THEN CHOOSE i \in 0..2 : SameBlock(e, now, SlotSpan(i + 1))
                           /\ \A j \in 0..i - 1 : ~SameBlock(e, now, SlotSpan(j + 1))
  ELSE 3

\* Variant of add_node: one level too few, the distant future shares level 2.
add_node_low(w, n, e, now) ==
  IF SameBlock(e, now, TIME_NEAR)
  THEN [w EXCEPT !.near[e % TIME_NEAR] = Append(@, n)]
  ELSE LET i == IF LevelOf(e, now) = 3 THEN 2 ELSE LevelOf(e, now) IN
         [w EXCEPT !.t[i][(e \div SlotSpan(i)) % TIME_LEVEL] = Append(@, n)]

\* add_node: timer n, which expires at e, in the wheel w when the time is now.
add_node(w, n, e, now) ==
  IF SameBlock(e, now, TIME_NEAR)
  THEN [w EXCEPT !.near[e % TIME_NEAR] = Append(@, n)]
  ELSE LET i == LevelOf(e, now) IN
         [w EXCEPT !.t[i][(e \div SlotSpan(i)) % TIME_LEVEL] = Append(@, n)]

Wheel == [near |-> near, t |-> t]
SetWheel(w) == near' = w.near /\ t' = w.t

\* Variant of move_list: the list is taken from its end.
move_list_reversed(i, idx, now) ==
  LET list == t[i][idx]
      w[k \in 0..Len(list)] ==
        IF k = 0 THEN [near |-> near, t |-> [t EXCEPT ![i][idx] = <<>>]]
        ELSE add_node(w[k - 1], list[Len(list) + 1 - k], expire[list[Len(list) + 1 - k]], now)
  IN w[Len(list)]

\* move_list: the timers of a slot are added anew, in their order.
move_list(i, idx, now) ==
  LET list == t[i][idx]
      w[k \in 0..Len(list)] ==
        IF k = 0 THEN [near |-> near, t |-> [t EXCEPT ![i][idx] = <<>>]]
        ELSE add_node(w[k - 1], list[k], expire[list[k]], now)
  IN w[Len(list)]

\* The level whose slot timer_shift opens at time ct # 0, -1 for none.
ShiftLevel(ct) ==
  IF ct % TIME_NEAR # 0 THEN -1
  ELSE CHOOSE i \in Levels :
         /\ ct % SlotSpan(i) = 0 /\ (ct \div SlotSpan(i)) % TIME_LEVEL # 0
         /\ \A j \in 0..i - 1 : (ct \div SlotSpan(j)) % TIME_LEVEL = 0
-----------------------------------------------------------------------------
(* The services.                                                           *)

\* Timer n is set.
IsSet(n) == \E k \in 1..Len(order) : order[k] = n

\* The timers that are set but for n.
Without(n) ==
  LET k == CHOOSE k \in 1..Len(order) : order[k] = n IN
    SubSeq(order, 1, k - 1) \o SubSeq(order, k + 1, Len(order))

\* node->expire = time + T->time, a uint32_t.
Expiry(delay) == (time + delay) % TimeSpan

\* skynet_timeout of a positive delay: timer_add.
Add(n, delay) ==
  /\ ~lock /\ ~IsSet(n)
  /\ expire' = [expire EXCEPT ![n] = Expiry(delay)]
  /\ SetWheel(add_node(Wheel, n, Expiry(delay), time))
  /\ remain' = [remain EXCEPT ![n] = delay]
  /\ order' = Append(order, n)
  /\ UNCHANGED <<time, pc, lock, dispatch, todo, lag>>
-----------------------------------------------------------------------------
(* The timer thread.                                                       *)

\* The system clock, which the thread reads every 2.5 ms.
Clock ==
  /\ lag < MaxLag
  /\ lag' = lag + 1
  /\ UNCHANGED <<wheelVars, pc, lock, dispatch, todo, remain, order>>

\* skynet_updatetime: as many timer_update as ticks have passed.
UpdateTime ==
  /\ pc = "idle" /\ todo = 0 /\ lag > 0
  /\ todo' = lag /\ lag' = 0
  /\ UNCHANGED <<wheelVars, pc, lock, dispatch, remain, order>>

\* timer_update takes the lock.
Update ==
  /\ pc = "idle" /\ todo > 0
  /\ pc' = "exec1" /\ lock' = TRUE
  /\ UNCHANGED <<wheelVars, dispatch, todo, lag, remain, order>>

\* timer_execute unlinks the list of the current tick and releases the lock.
Unlink ==
  /\ pc \in {"exec1", "exec2"} /\ lock
  /\ near[time % TIME_NEAR] # <<>>
  /\ dispatch' = near[time % TIME_NEAR]
  /\ near' = [near EXCEPT ![time % TIME_NEAR] = <<>>]
  /\ lock' = FALSE
  /\ UNCHANGED <<t, time, expire, pc, todo, lag, remain, order>>

\* dispatch_list: the response of one timer is pushed and the timer freed.
Deliver ==
  /\ dispatch # <<>>
  /\ dispatch' = Tail(dispatch)
  /\ order' = Without(Head(dispatch))
  /\ expire' = [expire EXCEPT ![Head(dispatch)] = 0]
  /\ UNCHANGED <<near, t, time, pc, lock, todo, lag, remain>>

\* timer_execute takes the lock again and looks at the list once more.
Relock ==
  /\ pc \in {"exec1", "exec2"} /\ ~lock /\ dispatch = <<>>
  /\ lock' = TRUE
  /\ UNCHANGED <<wheelVars, pc, dispatch, todo, lag, remain, order>>

\* The first timer_execute of timer_update ends: nothing is due now.
EndFirst ==
  /\ pc = "exec1" /\ lock /\ near[time % TIME_NEAR] = <<>>
  /\ pc' = "shift"
  /\ UNCHANGED <<wheelVars, lock, dispatch, todo, lag, remain, order>>

\* Variant of Opened: the wheel is not refilled when the time wraps.
OpenedNoWrap(ct) ==
  IF ct = 0 \/ ShiftLevel(ct) = -1 THEN Wheel
  ELSE move_list(ShiftLevel(ct), (ct \div SlotSpan(ShiftLevel(ct))) % TIME_LEVEL, ct)

\* The wheel after the timers of the slot that time ct opens have moved down.
Opened(ct) ==
  IF ct = 0 THEN move_list(3, 0, ct)
  ELSE IF ShiftLevel(ct) = -1 THEN Wheel
  ELSE move_list(ShiftLevel(ct), (ct \div SlotSpan(ShiftLevel(ct))) % TIME_LEVEL, ct)

\* timer_shift.
Shift ==
  /\ pc = "shift"
  /\ LET ct == (time + 1) % TimeSpan IN
       /\ time' = ct
       /\ SetWheel(Opened(ct))
  /\ pc' = "exec2"
  /\ remain' = [n \in Timer |-> IF IsSet(n) /\ remain[n] >= 0 THEN remain[n] - 1 ELSE remain[n]]
  /\ UNCHANGED <<expire, lock, dispatch, todo, lag, order>>

\* The second timer_execute ends, and with it timer_update.
EndSecond ==
  /\ pc = "exec2" /\ lock /\ near[time % TIME_NEAR] = <<>>
  /\ pc' = "idle" /\ lock' = FALSE /\ todo' = todo - 1
  /\ UNCHANGED <<wheelVars, dispatch, lag, remain, order>>

TimerThread == UpdateTime \/ Update \/ Unlink \/ Deliver \/ Relock \/ EndFirst \/ Shift \/ EndSecond

Next == (\E n \in Timer, d \in 1..MaxDelay : Add(n, d)) \/ Clock \/ TimerThread

\* The clock advances and the timer thread is scheduled.
Fairness == WF_vars(Clock) /\ WF_vars(TimerThread)
Spec == Init /\ [][Next]_vars /\ Fairness
-----------------------------------------------------------------------------

Time == 0..TimeSpan - 1

TimerTypeOK ==
  /\ near \in [Slots -> Seq(Timer)] /\ t \in [Levels -> [LevelSlots -> Seq(Timer)]]
  /\ time \in Time /\ expire \in [Timer -> Time]
  /\ pc \in {"idle", "exec1", "shift", "exec2"} /\ lock \in BOOLEAN
  /\ dispatch \in Seq(Timer) /\ order \in Seq(Timer)
  /\ todo \in 0..MaxLag /\ lag \in 0..MaxLag
  /\ remain \in [Timer -> -1..MaxDelay]

\* The places of timer n in a list.
In(n, list) == {k \in 1..Len(list) : list[k] = n}

\* The places of timer n in the wheel and in the list being delivered.
Places(n) ==
  (UNION {{<<"near", s, k>> : k \in In(n, near[s])} : s \in Slots})
  \cup (UNION {{<<"level", i, s, k>> : k \in In(n, t[i][s])} : i \in Levels, s \in LevelSlots})
  \cup {<<"dispatch", k>> : k \in In(n, dispatch)}

\* No timer is lost or linked twice, whatever moves between the wheels and
\* whoever adds timers while others are delivered (add_node, move_list,
\* link_clear): a timer that is set is in exactly one place.
LinkedOnce == \A n \in Timer : Cardinality(Places(n)) = IF IsSet(n) THEN 1 ELSE 0

\* Every timer fires in the tick it was set for, not one early and not one
\* late, across all levels and the wrap of the time (timer_shift,
\* timer_execute): what is delivered is due, and nothing that is due is left
\* when timer_update returns; until then it is linked in one place.
OnTime ==
  /\ TimerTypeOK
  /\ LinkedOnce
  /\ \A k \in 1..Len(dispatch) : remain[dispatch[k]] = 0
  /\ \A n \in Timer : IsSet(n) => remain[n] >= (IF pc = "exec2" THEN 0 ELSE 1)

\* Timers due in the same tick fire in the order they were set, although they
\* reached the near wheel through different levels (link, move_list).
InOrder == [][\A n \in Timer : IsSet(n) /\ ~IsSet(n)' =>
  \A k \in 1..Len(order) : order[k] = n => \A j \in 1..k - 1 : remain[order[j]] # 0]_vars

\* Every timer fires.
Fires == \A n \in Timer : IsSet(n) ~> ~IsSet(n)
=============================================================================
