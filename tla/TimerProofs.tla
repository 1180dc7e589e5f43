---------------------------- MODULE TimerProofs -----------------------------
(***************************************************************************)
(* The timer wheel, for any set of timers, any number of slots and any     *)
(* delay below half of its time: every timer fires in the tick it was set  *)
(* for, and those of one tick in the order they were set.                  *)
(*                                                                         *)
(* The argument is about where a timer belongs (InSpot): in the lowest     *)
(* stage whose current round still holds its expiry.  add_node puts it     *)
(* there; a tick leaves it there unless the tick opens exactly its slot,   *)
(* and then move_list adds it anew; in the near wheel the slot of the      *)
(* current tick holds the timers that are due and no other.                *)
(***************************************************************************)
EXTENDS SkynetTimer, FiniteSetTheorems, SequenceTheorems, WellFoundedInduction, TLAPS

-----------------------------------------------------------------------------
(* Quotients and remainders.                                               *)

LEMMA DivUnique ==
  ASSUME NEW m \in Nat \ {0}, NEW q \in Nat, NEW r \in 0..m - 1
  PROVE  (q * m + r) \div m = q /\ (q * m + r) % m = r
<1>1. (q * m + r) % m = r
  BY Z3
<1>2. (q * m + r) \div m = q
  BY Z3
<1> QED
  BY <1>1, <1>2

LEMMA DivMod ==
  ASSUME NEW m \in Nat \ {0}, NEW x \in Nat
  PROVE  /\ x \div m \in Nat /\ x % m \in 0..m - 1
         /\ x = (x \div m) * m + (x % m)
<1>1. x = m * (x \div m) + (x % m) /\ x % m \in 0..m - 1 /\ x \div m \in Nat
  BY Z3
<1>2. ASSUME NEW q \in Nat PROVE m * q = q * m
  BY Z3
<1> QED
  BY <1>1, <1>2

LEMMA DivMono ==
  ASSUME NEW m \in Nat \ {0}, NEW x \in Nat, NEW y \in Nat, x <= y
  PROVE  x \div m <= y \div m
  BY Z3

\* The quotient changes when the remainder comes round.
LEMMA DivStep ==
  ASSUME NEW m \in Nat \ {0}, NEW x \in Nat
  PROVE  (x + 1) \div m = IF (x + 1) % m = 0 THEN (x \div m) + 1 ELSE x \div m
<1> DEFINE q == x \div m
           r == x % m
<1>1. q \in Nat /\ r \in 0..m - 1 /\ x = q * m + r
  BY DivMod
<1> HIDE DEF q, r
<1>2. CASE r < m - 1
  <2>1. x + 1 = q * m + (r + 1) /\ r + 1 \in 0..m - 1
    <3>1. q * m \in Nat
      BY <1>1, Z3
    <3> QED
      BY <1>1, <1>2, <3>1
  <2>2. (q * m + (r + 1)) \div m = q /\ (q * m + (r + 1)) % m = r + 1
    BY <1>1, <2>1, DivUnique
  <2> QED
    BY <1>1, <2>1, <2>2 DEF q
<1>3. CASE r = m - 1
  <2>1. x + 1 = (q + 1) * m + 0
    <3>1. q * m \in Nat /\ (q + 1) * m = q * m + m
      BY <1>1, Z3
    <3> QED
      BY <1>1, <1>3, <3>1
  <2>2. ((q + 1) * m + 0) \div m = q + 1 /\ ((q + 1) * m + 0) % m = 0
    <3>1. q + 1 \in Nat /\ 0 \in 0..m - 1
      BY <1>1
    <3> QED
      BY <3>1, DivUnique
  <2> QED
    BY <2>1, <2>2 DEF q
<1> QED
  BY <1>1, <1>2, <1>3

\* A number in a block of l blocks of m.
LEMMA Split ==
  ASSUME NEW m \in Nat \ {0}, NEW l \in Nat \ {0}, NEW x \in Nat
  PROVE  /\ m * l \in Nat \ {0}
         /\ x \div (m * l) = (x \div m) \div l
         /\ x % (m * l) = ((x \div m) % l) * m + (x % m)
<1> DEFINE y == x \div m
           b == x % m
           q == y \div l
           a == y % l
<1>1. y \in Nat /\ b \in 0..m - 1 /\ x = y * m + b
  BY DivMod
<1>2. q \in Nat /\ a \in 0..l - 1 /\ y = q * l + a
  <2>1. y \in Nat
    BY <1>1
  <2> HIDE DEF y
  <2> QED
    BY <2>1, DivMod
<1>3. m * l \in Nat \ {0}
  BY Z3
<1> HIDE DEF y, b, q, a
<1>4. x = q * (m * l) + (a * m + b)
  <2>1. (q * l + a) * m = q * (m * l) + a * m
    BY <1>1, <1>2, Z3
  <2>2. q * (m * l) \in Nat /\ a * m \in Nat
    <3>1. a * m \in Nat
      BY <1>2, Z3
    <3>2. q * (m * l) \in Nat
      BY <1>2, <1>3, Z3
    <3> QED
      BY <3>1, <3>2
  <2>3. x = (q * l + a) * m + b
    BY <1>1, <1>2, Zenon
  <2> DEFINE u == q * (m * l)
             v == a * m
  <2>4. x = (u + v) + b /\ u \in Nat /\ v \in Nat
    BY <2>1, <2>2, <2>3, Zenon
  <2> HIDE DEF u, v
  <2>5. x = u + (v + b)
    BY <1>1, <2>4
  <2> QED
    BY <2>5, Zenon DEF u, v
<1>5. a * m + b \in 0..(m * l) - 1
  <2>1. a * m <= (l - 1) * m
    <3>1. ASSUME NEW u \in Nat, NEW v \in Nat, u <= v PROVE u * m <= v * m
      BY <3>1, Z3
    <3>2. a \in Nat /\ l - 1 \in Nat /\ a <= l - 1
      BY <1>2
    <3> QED
      BY <3>1, <3>2
  <2>2. (l - 1) * m = m * l - m
    BY SMT
  <2>3. a * m \in Nat
    BY <1>2, Z3
  <2> QED
    BY <1>1, <1>3, <2>1, <2>2, <2>3
<1>6. (q * (m * l) + (a * m + b)) \div (m * l) = q /\ (q * (m * l) + (a * m + b)) % (m * l) = a * m + b
  BY <1>2, <1>3, <1>5, DivUnique
<1>7. x \div (m * l) = q /\ x % (m * l) = a * m + b
  BY <1>4, <1>6
<1> QED
  BY <1>3, <1>7 DEF y, b, q, a

\* Adding a multiple.
LEMMA DivShift ==
  ASSUME NEW m \in Nat \ {0}, NEW c \in Nat, NEW x \in Nat
  PROVE  (x + m * c) \div m = (x \div m) + c /\ (x + m * c) % m = x % m
<1> DEFINE q == x \div m
           r == x % m
<1>1. q \in Nat /\ r \in 0..m - 1 /\ x = q * m + r
  BY DivMod
<1> HIDE DEF q, r
<1>2. x + m * c = (q + c) * m + r
  <2>1. (q + c) * m = q * m + m * c
    BY <1>1, Z3
  <2>2. q * m \in Nat /\ m * c \in Nat
    BY <1>1, Z3
  <2> QED
    BY <1>1, <2>1, <2>2
<1>3. q + c \in Nat
  BY <1>1
<1>4. ((q + c) * m + r) \div m = q + c /\ ((q + c) * m + r) % m = r
  BY <1>1, <1>3, DivUnique
<1> QED
  BY <1>2, <1>4 DEF q, r

-----------------------------------------------------------------------------
(* The stages of the wheel: stage -1 is the near wheel.                    *)

Stages == -1..3
Span(i) == IF i = -1 THEN 1 ELSE SlotSpan(i)
Width(i) == IF i = -1 THEN TIME_NEAR ELSE TIME_LEVEL

\* What the recursive definition of the mask says.
LEMMA Masks ==
  /\ SlotSpan(0) = TIME_NEAR
  /\ \A i \in 1..4 : SlotSpan(i) = SlotSpan(i - 1) * TIME_LEVEL
<1> DEFINE Step(f) == [k \in 0..4 |-> IF k = 0 THEN TIME_NEAR ELSE f[k - 1] * TIME_LEVEL]
           a == TIME_NEAR
           b == a * TIME_LEVEL
           c == b * TIME_LEVEL
           d == c * TIME_LEVEL
           e == d * TIME_LEVEL
           w == [k \in 0..4 |-> IF k = 0 THEN a ELSE IF k = 1 THEN b ELSE IF k = 2 THEN c
                                ELSE IF k = 3 THEN d ELSE e]
           mask == CHOOSE f : f = Step(f)
<1>1. w = Step(w)
  <2> HIDE DEF a, b, c, d, e
  <2>0. b = a * TIME_LEVEL /\ c = b * TIME_LEVEL /\ d = c * TIME_LEVEL /\ e = d * TIME_LEVEL /\ a = TIME_NEAR
    BY Zenon DEF a, b, c, d, e
  <2>1. w[0] = a /\ w[1] = b /\ w[2] = c /\ w[3] = d /\ w[4] = e
    OBVIOUS
  <2>2. \A k \in 0..4 : w[k] = IF k = 0 THEN TIME_NEAR ELSE w[k - 1] * TIME_LEVEL
    <3> TAKE k \in 0..4
    <3>1. k = 0 \/ k = 1 \/ k = 2 \/ k = 3 \/ k = 4
      OBVIOUS
    <3> HIDE DEF w
    <3>2. 1 - 1 = 0 /\ 2 - 1 = 1 /\ 3 - 1 = 2 /\ 4 - 1 = 3
      OBVIOUS
    <3> QED
      BY <2>0, <2>1, <3>1, <3>2
  <2>3. w = [k \in 0..4 |-> w[k]]
    OBVIOUS
  <2> HIDE DEF w
  <2> QED
    BY <2>2, <2>3
<1>2. mask = Step(mask)
  <2> HIDE DEF w
  <2> QED
    BY <1>1
<1>3. \A i : SlotSpan(i) = mask[i]
  BY DEF SlotSpan
<1> HIDE DEF mask, w
<1>4. \A k \in 0..4 : mask[k] = IF k = 0 THEN TIME_NEAR ELSE mask[k - 1] * TIME_LEVEL
  BY <1>2
<1> HIDE DEF Step
<1>5. mask[0] = TIME_NEAR
  BY <1>4
<1>6. \A i \in 1..4 : mask[i] = mask[i - 1] * TIME_LEVEL
  BY <1>4
<1> QED
  BY <1>3, <1>5, <1>6

\* Every stage multiplies the span, and at least two slots of a level make the next.
LEMMA Spans ==
  /\ Span(-1) = 1 /\ TimeSpan = Span(4)
  /\ \A i \in -1..4 : Span(i) \in Nat \ {0}
  /\ \A i \in Stages : Width(i) \in Nat \ {0} /\ Span(i + 1) = Span(i) * Width(i)
<1>1. TIME_NEAR \in Nat \ {0} /\ TIME_LEVEL \in Nat \ {0}
  BY WheelAssumption
<1>2. ASSUME NEW a \in Nat \ {0} PROVE a * TIME_LEVEL \in Nat \ {0}
  BY <1>1, Z3
<1>3. SlotSpan(0) \in Nat \ {0}
  BY <1>1, Masks
<1>4. SlotSpan(1) = SlotSpan(0) * TIME_LEVEL /\ SlotSpan(2) = SlotSpan(1) * TIME_LEVEL
      /\ SlotSpan(3) = SlotSpan(2) * TIME_LEVEL /\ SlotSpan(4) = SlotSpan(3) * TIME_LEVEL
  <2>1. 1 - 1 = 0 /\ 2 - 1 = 1 /\ 3 - 1 = 2 /\ 4 - 1 = 3
    OBVIOUS
  <2> QED
    BY <2>1, Masks
<1>5. SlotSpan(1) \in Nat \ {0}
  BY <1>2, <1>3, <1>4
<1>6. SlotSpan(2) \in Nat \ {0}
  BY <1>2, <1>4, <1>5
<1>7. SlotSpan(3) \in Nat \ {0}
  BY <1>2, <1>4, <1>6
<1>8. SlotSpan(4) \in Nat \ {0}
  BY <1>2, <1>4, <1>7
<1>9. \A i \in -1..4 : Span(i) \in Nat \ {0}
  BY <1>3, <1>5, <1>6, <1>7, <1>8 DEF Span
<1>10. \A i \in Stages : Width(i) \in Nat \ {0} /\ Span(i + 1) = Span(i) * Width(i)
  <2> TAKE i \in Stages
  <2>1. CASE i = -1
    <3>1. 1 * TIME_NEAR = TIME_NEAR
      BY <1>1, Z3
    <3>2. i + 1 = 0
      BY <2>1
    <3> QED
      BY <1>1, <2>1, <3>1, <3>2, Masks DEF Span, Width
  <2>2. CASE i # -1
    <3>1. i \in 0..3 /\ i + 1 \in 1..4 /\ (i + 1) - 1 = i /\ i + 1 # -1
      BY <2>2 DEF Stages
    <3>2. SlotSpan(i + 1) = SlotSpan(i) * TIME_LEVEL
      BY <3>1, Masks
    <3> QED
      BY <1>1, <2>2, <3>1, <3>2 DEF Span, Width
  <2> QED
    BY <2>1, <2>2
<1> QED
  BY <1>9, <1>10 DEF Span, TimeSpan

\* The time is a whole number of spans of every stage, and at least two of
\* those below the last.
LEMMA SpanDivides ==
  /\ \A i \in Stages : \E d \in Nat \ {0} : TimeSpan = Span(i + 1) * d
  /\ \A i \in -1..3 : \E d \in Nat : d >= 2 /\ TimeSpan = Span(i) * d
<1>1. \A i \in 0..3 : Span(i + 1) = Span(i) * TIME_LEVEL /\ Span(i) \in Nat \ {0}
  BY Spans DEF Stages, Width
<1>2. TIME_LEVEL \in Nat /\ TIME_LEVEL >= 2 /\ TIME_NEAR \in Nat \ {0}
  BY WheelAssumption
<1>3. ASSUME NEW a \in Nat \ {0}, NEW b \in Nat, b >= 1 PROVE b * a >= a /\ b * a \in Nat
  <2>1. b * a >= a
    BY <1>3, Z3
  <2>2. b * a \in Nat
    BY Z3
  <2> QED
    BY <2>1, <2>2
<1>4. ASSUME NEW i \in 0..3, NEW d \in Nat, d >= 1, TimeSpan = Span(i + 1) * d
      PROVE  \E g \in Nat : g >= 2 /\ TimeSpan = Span(i) * g
  <2>1. (Span(i) * TIME_LEVEL) * d = Span(i) * (d * TIME_LEVEL)
    BY <1>1, <1>2, Z3
  <2>2. d * TIME_LEVEL >= TIME_LEVEL /\ d * TIME_LEVEL \in Nat
    BY <1>2, <1>3, <1>4
  <2>3. d * TIME_LEVEL >= 2
    BY <1>2, <2>2
  <2>4. TimeSpan = Span(i) * (d * TIME_LEVEL)
    BY <1>1, <1>4, <2>1, Zenon
  <2> QED
    BY <2>2, <2>3, <2>4
<1>5. \E d \in Nat : d >= 1 /\ TimeSpan = Span(4) * d
  <2>1. TimeSpan = Span(4) * 1
    BY Spans
  <2> QED
    BY <2>1
<1>6. \E d \in Nat : d >= 2 /\ TimeSpan = Span(3) * d
  BY <1>4, <1>5
<1>7. \E d \in Nat : d >= 2 /\ TimeSpan = Span(2) * d
  BY <1>4, <1>6
<1>8. \E d \in Nat : d >= 2 /\ TimeSpan = Span(1) * d
  BY <1>4, <1>7
<1>9. \E d \in Nat : d >= 2 /\ TimeSpan = Span(0) * d
  BY <1>4, <1>8
<1>10. \E d \in Nat : d >= 2 /\ TimeSpan = Span(-1) * d
  <2>1. PICK d \in Nat : d >= 2 /\ TimeSpan = Span(0) * d
    BY <1>9
  <2>2. Span(0) \in Nat \ {0} /\ Span(-1) = 1
    BY Spans
  <2>3. d * Span(0) >= Span(0) /\ Span(0) * d = d * Span(0) /\ Span(0) * d >= d
    BY <2>1, <2>2, Z3
  <2>4. TimeSpan \in Nat /\ TimeSpan >= 2 /\ TimeSpan = Span(-1) * TimeSpan
    BY <2>1, <2>2, <2>3, Spans
  <2> QED
    BY <2>4
<1>11. \A i \in -1..3 : \E d \in Nat : d >= 2 /\ TimeSpan = Span(i) * d
  <2> TAKE i \in -1..3
  <2>1. i = -1 \/ i = 0 \/ i = 1 \/ i = 2 \/ i = 3
    OBVIOUS
  <2> QED
    BY <1>6, <1>7, <1>8, <1>9, <1>10, <2>1
<1>12. \A i \in Stages : \E d \in Nat \ {0} : TimeSpan = Span(i + 1) * d
  <2> TAKE i \in Stages
  <2>1. i + 1 \in -1..3 \/ i + 1 = 4
    BY DEF Stages
  <2> QED
    BY <1>5, <1>11, <2>1
<1> QED
  BY <1>11, <1>12

-----------------------------------------------------------------------------
(* Where a timer belongs that is due r ticks after time x.                 *)

Same(x, r, i) == (x + r) \div Span(i) = x \div Span(i)
SlotAt(x, i) == (x \div Span(i)) % Width(i)

InSpot(x, r, i, s) ==
  /\ s = SlotAt(x + r, i)
  /\ i # -1 => ~Same(x, r, i)
  /\ i # 3 => Same(x, r, i + 1)

\* Times in one block are in one block of the next stage.
LEMMA SameUp ==
  ASSUME NEW x \in Nat, NEW r \in Nat, NEW i \in Stages, NEW j \in i..4, Same(x, r, i)
  PROVE  Same(x, r, j)
<1>1. ASSUME NEW k \in Stages, Same(x, r, k) PROVE Same(x, r, k + 1)
  <2>1. Span(k) \in Nat \ {0} /\ Width(k) \in Nat \ {0} /\ Span(k + 1) = Span(k) * Width(k)
    BY Spans DEF Stages
  <2>2. x + r \in Nat
    OBVIOUS
  <2>3. (x + r) \div (Span(k) * Width(k)) = ((x + r) \div Span(k)) \div Width(k)
        /\ x \div (Span(k) * Width(k)) = (x \div Span(k)) \div Width(k)
    BY <2>1, <2>2, Split
  <2> QED
    BY <1>1, <2>1, <2>3 DEF Same
<1>2. i \in -1..3
  BY DEF Stages
<1>3. Same(x, r, -1) => Same(x, r, 0)
  BY <1>1 DEF Stages
<1>4. Same(x, r, 0) => Same(x, r, 1)
  BY <1>1 DEF Stages
<1>5. Same(x, r, 1) => Same(x, r, 2)
  BY <1>1 DEF Stages
<1>6. Same(x, r, 2) => Same(x, r, 3)
  BY <1>1 DEF Stages
<1>7. Same(x, r, 3) => Same(x, r, 4)
  BY <1>1 DEF Stages
<1>8. (i = -1 \/ i = 0 \/ i = 1 \/ i = 2 \/ i = 3) /\ (j = -1 \/ j = 0 \/ j = 1 \/ j = 2 \/ j = 3 \/ j = 4) /\ i <= j
  BY <1>2
<1> QED
  BY <1>3, <1>4, <1>5, <1>6, <1>7, <1>8

\* A timer belongs in one spot.
LEMMA SpotUnique ==
  ASSUME NEW x \in Nat, NEW r \in Nat, NEW i \in Stages, NEW j \in Stages, NEW s, NEW u,
         InSpot(x, r, i, s), InSpot(x, r, j, u)
  PROVE  i = j /\ s = u
<1>1. ASSUME NEW a \in Stages, NEW b \in Stages, NEW c, NEW d,
             InSpot(x, r, a, c), InSpot(x, r, b, d), a < b
      PROVE  FALSE
  <2>1. a + 1 \in Stages /\ b \in a + 1..4 /\ a # 3 /\ b # -1
    BY <1>1 DEF Stages
  <2>2. Same(x, r, a + 1) /\ ~Same(x, r, b)
    BY <1>1, <2>1 DEF InSpot
  <2> QED
    BY <2>1, <2>2, SameUp
<1>2. ~(i < j) /\ ~(j < i)
  BY <1>1
<1>3. i = j
  BY <1>2 DEF Stages
<1> QED
  BY <1>3 DEF InSpot

\* A timer that is due now belongs in the near wheel, and one in the slot of
\* the current tick is due now.
LEMMA SpotDue ==
  ASSUME NEW x \in Nat, NEW r \in Nat, NEW i \in Stages, NEW s, InSpot(x, r, i, s)
  PROVE  /\ r = 0 => i = -1 /\ s = x % TIME_NEAR
         /\ i = -1 /\ s = x % TIME_NEAR => r = 0
<1>0. TIME_NEAR \in Nat \ {0} /\ Span(0) = TIME_NEAR /\ x + r \in Nat
  BY WheelAssumption, Masks DEF Span
<1>1. \A y \in Nat : SlotAt(y, -1) = y % TIME_NEAR
  <2>1. \A y \in Nat : y \div 1 = y
    BY Z3
  <2> QED
    BY <2>1 DEF SlotAt, Span, Width
<1>2. ASSUME r = 0 PROVE i = -1 /\ s = x % TIME_NEAR
  <2>1. x + r = x
    BY <1>2
  <2>2. Same(x, r, i)
    BY <2>1 DEF Same
  <2>3. i = -1
    BY <2>2 DEF InSpot
  <2> QED
    BY <1>1, <2>1, <2>3 DEF InSpot
<1>3. ASSUME i = -1, s = x % TIME_NEAR PROVE r = 0
  <2>1. (x + r) % TIME_NEAR = x % TIME_NEAR
    BY <1>0, <1>1, <1>3 DEF InSpot
  <2>2. (x + r) \div TIME_NEAR = x \div TIME_NEAR
    <3>1. i # 3 /\ i + 1 = 0
      BY <1>3
    <3> QED
      BY <1>0, <1>3, <3>1 DEF InSpot, Same
  <2>3. x = (x \div TIME_NEAR) * TIME_NEAR + (x % TIME_NEAR)
        /\ x + r = ((x + r) \div TIME_NEAR) * TIME_NEAR + ((x + r) % TIME_NEAR)
    BY <1>0, DivMod
  <2>4. x + r = x
    BY <2>1, <2>2, <2>3
  <2> QED
    BY <2>4
<1> QED
  BY <1>2, <1>3

\* The slot of a time is that of the wheel's time.
LEMMA SlotModulo ==
  ASSUME NEW y \in Nat, NEW i \in Stages
  PROVE  SlotAt(y + TimeSpan, i) = SlotAt(y, i)
<1>1. Span(i) \in Nat \ {0} /\ Width(i) \in Nat \ {0} /\ Span(i + 1) = Span(i) * Width(i)
  BY Spans DEF Stages
<1>2. PICK d \in Nat : TimeSpan = Span(i + 1) * d
  BY SpanDivides
<1>3. (Span(i) * Width(i)) * d = Span(i) * (Width(i) * d) /\ Width(i) * d \in Nat
  <2>1. (Span(i) * Width(i)) * d = Span(i) * (Width(i) * d)
    BY <1>1, Z3
  <2>2. Width(i) * d \in Nat
    BY <1>1, Z3
  <2> QED
    BY <2>1, <2>2
<1>4. TimeSpan = Span(i) * (Width(i) * d)
  BY <1>1, <1>2, <1>3, Zenon
<1> DEFINE a == y \div Span(i)
<1>5. (y + Span(i) * (Width(i) * d)) \div Span(i) = a + Width(i) * d /\ a \in Nat
  BY <1>1, <1>3, DivShift, DivMod
<1>6. SlotAt(y, i) = a % Width(i) /\ SlotAt(y + TimeSpan, i) = (a + Width(i) * d) % Width(i)
  BY <1>4, <1>5, Zenon DEF SlotAt
<1> HIDE DEF a
<1>7. (a + Width(i) * d) % Width(i) = a % Width(i)
  BY <1>1, <1>5, DivShift
<1> QED
  BY <1>6, <1>7

\* The wheel's time is the time modulo TimeSpan: spots do not see the difference.
LEMMA SpotModulo ==
  ASSUME NEW x \in Nat, NEW r \in Nat, NEW i \in Stages, NEW s
  PROVE  InSpot(x + TimeSpan, r, i, s) <=> InSpot(x, r, i, s)
<1>0. \A j \in -1..4 : Span(j) \in Nat \ {0}
  BY Spans
<1>1. ASSUME NEW j \in -1..4 PROVE Same(x + TimeSpan, r, j) <=> Same(x, r, j)
  <2>1. PICK d \in Nat : TimeSpan = Span(j) * d
    <3>1. CASE j = -1
      BY <3>1, SpanDivides
    <3>2. CASE j # -1
      <4>1. j - 1 \in Stages /\ (j - 1) + 1 = j
        BY <3>2 DEF Stages
      <4> QED
        BY <4>1, SpanDivides
    <3> QED
      BY <3>1, <3>2
  <2>2. \A y \in Nat : (y + Span(j) * d) \div Span(j) = (y \div Span(j)) + d /\ y \div Span(j) \in Nat
    BY <1>0, DivShift, DivMod
  <2>3. (x + TimeSpan) + r = (x + r) + TimeSpan /\ x + r \in Nat
    BY Spans
  <2>4. ((x + r) + TimeSpan) \div Span(j) = ((x + r) \div Span(j)) + d
        /\ (x + TimeSpan) \div Span(j) = (x \div Span(j)) + d
        /\ (x + r) \div Span(j) \in Nat /\ x \div Span(j) \in Nat
    BY <2>1, <2>2, <2>3
  <2> DEFINE a == (x + r) \div Span(j)
             b == x \div Span(j)
  <2>5. ((x + TimeSpan) + r) \div Span(j) = a + d /\ (x + TimeSpan) \div Span(j) = b + d /\ a \in Nat /\ b \in Nat
    BY <2>3, <2>4
  <2>6. Same(x, r, j) <=> a = b
    BY DEF Same
  <2>7. Same(x + TimeSpan, r, j) <=> a + d = b + d
    BY <2>5 DEF Same
  <2> HIDE DEF a, b
  <2> QED
    BY <2>1, <2>5, <2>6, <2>7
<1>2. SlotAt((x + TimeSpan) + r, i) = SlotAt(x + r, i)
  <2>1. (x + TimeSpan) + r = (x + r) + TimeSpan /\ x + r \in Nat
    BY Spans
  <2> QED
    BY <2>1, SlotModulo
<1>3. i \in -1..4 /\ (i # 3 => i + 1 \in -1..4)
  BY DEF Stages
<1> QED
  BY <1>1, <1>2, <1>3 DEF InSpot

-----------------------------------------------------------------------------
(* A tick passes: time x becomes c.                                        *)

\* Time c opens a slot of level i.
Opens(c, i) == c % Span(i) = 0 /\ c % Span(i + 1) # 0

\* A time that begins a block of a stage begins one of the stage below, in
\* whose wheel it has come round to slot 0.
LEMMA ZeroDown ==
  ASSUME NEW c \in Nat, NEW i \in Stages
  PROVE  c % Span(i + 1) = 0 <=> c % Span(i) = 0 /\ SlotAt(c, i) = 0
<1> DEFINE m == Span(i)
           a == SlotAt(c, i)
           b == c % m
<1>1. Span(i) \in Nat \ {0} /\ Width(i) \in Nat \ {0} /\ Span(i + 1) = Span(i) * Width(i)
  BY Spans DEF Stages
<1>2. c % Span(i + 1) = a * m + b
  BY <1>1, Split DEF SlotAt
<1>3. m \in Nat \ {0} /\ b \in Nat
  BY <1>1, DivMod
<1>4. a \in Nat
  <2>1. c \div Span(i) \in Nat
    BY <1>1, DivMod
  <2> QED
    BY <1>1, <2>1, DivMod DEF SlotAt
<1> HIDE DEF m, a, b
<1>5. a * m \in Nat /\ (a # 0 => a * m # 0) /\ (a = 0 => a * m = 0)
  BY <1>3, <1>4, Z3
<1> DEFINE u == a * m
<1>6. c % Span(i + 1) = u + b /\ u \in Nat /\ (a # 0 => u # 0) /\ (a = 0 => u = 0)
  BY <1>2, <1>5
<1> HIDE DEF u
<1> QED
  BY <1>3, <1>4, <1>6 DEF a, b, m

\* A timer stays where it is when a tick passes, unless its slot is opened.
LEMMA SpotNext ==
  ASSUME NEW x \in Nat, NEW r \in Nat \ {0}, NEW i \in Stages, NEW s, InSpot(x, r, i, s)
  PROVE  \/ InSpot(x + 1, r - 1, i, s)
         \/ /\ i # -1 /\ s = SlotAt(x + 1, i)
            /\ (x + 1) % Span(i) = 0 /\ (i # 3 => (x + 1) % Span(i + 1) # 0)
<1> DEFINE c == x + 1
           e == x + r
<1>0. c \in Nat /\ e \in Nat /\ c + (r - 1) = e /\ x <= c /\ c <= e
  OBVIOUS
<1>1. \A j \in -1..4 : Span(j) \in Nat \ {0}
  BY Spans
<1>2. ASSUME NEW j \in -1..4
      PROVE  /\ c \div Span(j) = IF c % Span(j) = 0 THEN (x \div Span(j)) + 1 ELSE x \div Span(j)
             /\ x \div Span(j) \in Nat /\ c \div Span(j) \in Nat /\ e \div Span(j) \in Nat
             /\ x \div Span(j) <= c \div Span(j) /\ c \div Span(j) <= e \div Span(j)
  <2>1. Span(j) \in Nat \ {0}
    BY <1>1
  <2>2. x \div Span(j) \in Nat /\ c \div Span(j) \in Nat /\ e \div Span(j) \in Nat
    BY <1>0, <2>1, DivMod
  <2>3. x \div Span(j) <= c \div Span(j) /\ c \div Span(j) <= e \div Span(j)
    BY <1>0, <2>1, DivMono
  <2> QED
    BY <2>1, <2>2, <2>3, DivStep
<1>3. ASSUME i # 3 PROVE Same(c, r - 1, i + 1) /\ c % Span(i + 1) # 0
  <2>1. i + 1 \in -1..4
    BY DEF Stages
  <2>2. e \div Span(i + 1) = x \div Span(i + 1)
    BY <1>3 DEF InSpot, Same
  <2>3. c \div Span(i + 1) = x \div Span(i + 1)
    BY <1>2, <2>1, <2>2
  <2>4. c % Span(i + 1) # 0
    BY <1>2, <2>1, <2>3
  <2> QED
    BY <1>0, <2>2, <2>3, <2>4 DEF Same
<1>4. s = SlotAt(c + (r - 1), i)
  BY <1>0 DEF InSpot
<1>5. CASE i = -1 \/ ~Same(c, r - 1, i)
  BY <1>3, <1>4, <1>5 DEF InSpot
<1>6. CASE i # -1 /\ Same(c, r - 1, i)
  <2>1. i \in -1..4
    BY DEF Stages
  <2>2. e \div Span(i) = c \div Span(i) /\ e \div Span(i) # x \div Span(i)
    BY <1>0, <1>6 DEF InSpot, Same
  <2>3. c % Span(i) = 0
    BY <1>2, <2>1, <2>2
  <2>4. s = SlotAt(c, i)
    BY <1>0, <1>4, <2>2 DEF SlotAt
  <2> QED
    BY <1>3, <1>6, <2>3, <2>4
<1> QED
  BY <1>5, <1>6

\* timer_shift opens a slot of the one level that ct begins a slot of.
LEMMA ShiftLevelIs ==
  ASSUME NEW ct \in 1..TimeSpan - 1, ct % TIME_NEAR = 0
  PROVE  /\ ShiftLevel(ct) \in Levels /\ Opens(ct, ShiftLevel(ct))
         /\ \A i \in Levels : Opens(ct, i) => ShiftLevel(ct) = i
<1>0. ct \in Nat /\ TimeSpan \in Nat \ {0}
  BY Spans
<1>1. \A i \in Levels : /\ Span(i) = SlotSpan(i) /\ Width(i) = TIME_LEVEL /\ i \in Stages
                        /\ (ct \div SlotSpan(i)) % TIME_LEVEL = SlotAt(ct, i)
                        /\ (ct % Span(i + 1) = 0 <=> ct % Span(i) = 0 /\ SlotAt(ct, i) = 0)
  BY <1>0, ZeroDown DEF Levels, Span, Width, Stages, SlotAt
<1> DEFINE P(i) == /\ ct % SlotSpan(i) = 0 /\ (ct \div SlotSpan(i)) % TIME_LEVEL # 0
                   /\ \A j \in 0..i - 1 : (ct \div SlotSpan(j)) % TIME_LEVEL = 0
           Z(i) == ct % Span(i) = 0
<1>2. ShiftLevel(ct) = CHOOSE i \in Levels : P(i)
  BY DEF ShiftLevel
<1>3. Z(0) /\ ~Z(4)
  <2>1. ct % TimeSpan = ct
    BY <1>0, Z3
  <2> QED
    BY <2>1, Masks, Spans DEF Span
<1>4. \A i \in Levels : Z(i + 1) => Z(i)
  BY <1>1
<1>5. \A i \in Levels : P(i) <=> Z(i) /\ ~Z(i + 1)
  <2> TAKE i \in Levels
  <2>1. ASSUME P(i) PROVE Z(i) /\ ~Z(i + 1)
    BY <1>1, <2>1
  <2>2. ASSUME Z(i), ~Z(i + 1) PROVE P(i)
    <3>1. ct % SlotSpan(i) = 0 /\ (ct \div SlotSpan(i)) % TIME_LEVEL # 0
      BY <1>1, <2>2
    <3>2. Z(i) => \A j \in 0..i - 1 : Z(j + 1)
      <4>1. i = 0 \/ i = 1 \/ i = 2 \/ i = 3
        BY DEF Levels
      <4>2. (Z(3) => Z(2)) /\ (Z(2) => Z(1))
        BY <1>4 DEF Levels
      <4>3. CASE i = 0
        BY <4>3
      <4>4. CASE i = 1
        BY <4>4
      <4>5. CASE i = 2
        <5>1. \A j \in 0..1 : j + 1 = 1 \/ j + 1 = 2
          OBVIOUS
        <5> HIDE DEF Z
        <5> QED
          BY <4>2, <4>5, <5>1
      <4>6. CASE i = 3
        <5>1. \A j \in 0..2 : j + 1 = 1 \/ j + 1 = 2 \/ j + 1 = 3
          OBVIOUS
        <5> HIDE DEF Z
        <5> QED
          BY <4>2, <4>6, <5>1
      <4> QED
        BY <4>1, <4>3, <4>4, <4>5, <4>6
    <3>3. \A j \in 0..i - 1 : j \in Levels
      BY DEF Levels
    <3> QED
      BY <1>1, <2>2, <3>1, <3>2, <3>3
  <2> QED
    BY <2>1, <2>2
<1>6. \E i \in Levels : Z(i) /\ ~Z(i + 1)
  <2>1. 0 + 1 = 1 /\ 1 + 1 = 2 /\ 2 + 1 = 3 /\ 3 + 1 = 4
    OBVIOUS
  <2>2. 0 \in Levels /\ 1 \in Levels /\ 2 \in Levels /\ 3 \in Levels
    BY DEF Levels
  <2> HIDE DEF Z
  <2> QED
    BY <1>3, <2>1, <2>2
<1>7. \A i, j \in Levels : P(i) /\ P(j) => i = j
  <2> TAKE i, j \in Levels
  <2> HAVE P(i) /\ P(j)
  <2>1. ~(i < j)
    <3>1. i < j => i \in 0..j - 1
      BY DEF Levels
    <3> QED
      BY <3>1
  <2>2. ~(j < i)
    <3>1. j < i => j \in 0..i - 1
      BY DEF Levels
    <3> QED
      BY <3>1
  <2> HIDE DEF P
  <2> QED
    BY <2>1, <2>2 DEF Levels
<1>8. \A i \in Levels : Opens(ct, i) <=> Z(i) /\ ~Z(i + 1)
  BY DEF Opens
<1> HIDE DEF P, Z
<1>9. PICK i \in Levels : P(i)
  BY <1>5, <1>6
<1>10. ShiftLevel(ct) \in Levels /\ P(ShiftLevel(ct))
  BY <1>2, <1>9
<1> QED
  BY <1>5, <1>7, <1>8, <1>10

\* The slot that timer_shift opens at time ct.
OpensSpot(ct, i, s) ==
  IF ct = 0 THEN i = 3 /\ s = 0
  ELSE ct % TIME_NEAR = 0 /\ i = ShiftLevel(ct) /\ s = (ct \div SlotSpan(i)) % TIME_LEVEL

\* When the time advances, also past its end, a timer stays where it belongs or
\* its slot is opened.
LEMMA Passing ==
  ASSUME NEW x \in Time, NEW r \in Nat \ {0}, NEW i \in Stages, NEW s, InSpot(x, r, i, s),
         NEW ct, ct = (x + 1) % TimeSpan
  PROVE  ct \in Time /\ (InSpot(ct, r - 1, i, s) \/ OpensSpot(ct, i, s))
<1>0. TimeSpan \in Nat \ {0} /\ x \in Nat /\ x + 1 \in Nat /\ x + 1 <= TimeSpan /\ r - 1 \in Nat
  BY Spans DEF Time
<1>1. CASE x + 1 < TimeSpan
  <2>1. ct = x + 1 /\ ct \in 1..TimeSpan - 1
    <3>1. (x + 1) % TimeSpan = x + 1
      BY <1>0, <1>1, Z3
    <3> QED
      BY <1>0, <1>1, <3>1
  <2>2. ct \in Time /\ ct # 0 /\ ct \in Nat
    BY <1>0, <2>1 DEF Time
  <2>3. CASE InSpot(x + 1, r - 1, i, s)
    BY <2>1, <2>2, <2>3
  <2>4. CASE /\ i # -1 /\ s = SlotAt(x + 1, i)
             /\ (x + 1) % Span(i) = 0 /\ (i # 3 => (x + 1) % Span(i + 1) # 0)
    <3>1. i \in Levels
      BY <2>4 DEF Stages, Levels
    <3>2. ct % Span(i + 1) # 0
      <4>1. CASE i # 3
        BY <2>1, <2>4, <4>1
      <4>2. CASE i = 3
        <5>1. ct % TimeSpan = ct
          BY <1>0, <2>1, Z3
        <5>2. i + 1 = 4
          BY <4>2
        <5> QED
          BY <2>2, <5>1, <5>2, Spans
      <4> QED
        BY <4>1, <4>2
    <3>3. Opens(ct, i)
      BY <2>1, <2>4, <3>2 DEF Opens
    <3>4. ct % TIME_NEAR = 0
      <4>1. \A j \in Levels : ct % Span(j + 1) = 0 => ct % Span(j) = 0
        BY <2>2, ZeroDown DEF Levels, Stages
      <4>2. 0 + 1 = 1 /\ 1 + 1 = 2 /\ 2 + 1 = 3 /\ 0 \in Levels /\ 1 \in Levels /\ 2 \in Levels
        BY DEF Levels
      <4>3. (ct % Span(3) = 0 => ct % Span(2) = 0) /\ (ct % Span(2) = 0 => ct % Span(1) = 0)
            /\ (ct % Span(1) = 0 => ct % Span(0) = 0)
        BY <4>1, <4>2, Zenon
      <4>4. ct % Span(i) = 0 /\ (i = 0 \/ i = 1 \/ i = 2 \/ i = 3)
        BY <3>1, <3>3 DEF Opens, Levels
      <4>5. ct % Span(0) = 0
        BY <4>3, <4>4, Zenon
      <4> QED
        BY <4>5, Masks DEF Span
    <3>5. i = ShiftLevel(ct)
      BY <2>1, <3>1, <3>3, <3>4, ShiftLevelIs
    <3>6. s = (ct \div SlotSpan(i)) % TIME_LEVEL
      BY <2>1, <2>4 DEF SlotAt, Span, Width
    <3>7. OpensSpot(ct, i, s)
      BY <2>2, <3>4, <3>5, <3>6, Zenon DEF OpensSpot
    <3> QED
      BY <2>2, <3>7
  <2> QED
    BY <1>0, <2>3, <2>4, SpotNext
<1>2. CASE x + 1 = TimeSpan
  <2>1. ct = 0
    BY <1>0, <1>2, Z3
  <2>2. 0 \in Time /\ 0 \in Nat /\ 0 + TimeSpan = x + 1
    BY <1>0, <1>2 DEF Time
  <2>3. CASE InSpot(x + 1, r - 1, i, s)
    <3>1. InSpot(0 + TimeSpan, r - 1, i, s)
      BY <2>2, <2>3
    <3>2. InSpot(0, r - 1, i, s)
      BY <1>0, <2>2, <3>1, SpotModulo
    <3> QED
      BY <2>1, <2>2, <3>2
  <2>4. CASE /\ i # -1 /\ s = SlotAt(x + 1, i)
             /\ (x + 1) % Span(i) = 0 /\ (i # 3 => (x + 1) % Span(i + 1) # 0)
    <3>1. \A j \in -1..3 : TimeSpan % Span(j) = 0
      <4> TAKE j \in -1..3
      <4>1. PICK d \in Nat : TimeSpan = Span(j) * d
        BY SpanDivides
      <4>2. Span(j) \in Nat \ {0}
        BY Spans
      <4>3. (0 + Span(j) * d) % Span(j) = 0 % Span(j)
        BY <4>2, DivShift
      <4>4. 0 + TimeSpan = TimeSpan /\ 0 % Span(j) = 0
        BY <1>0, <4>2
      <4> QED
        BY <4>1, <4>3, <4>4
    <3>2. i = 3
      <4>1. i # 3 => i + 1 \in -1..3
        BY DEF Stages
      <4> QED
        BY <1>2, <2>4, <3>1, <4>1
    <3>3. s = 0
      <4>1. TimeSpan % Span(4) = 0
        BY <1>0, Spans
      <4>2. 3 \in Stages /\ 3 + 1 = 4
        BY DEF Stages
      <4>3. SlotAt(TimeSpan, 3) = 0
        BY <1>0, <4>1, <4>2, ZeroDown
      <4> QED
        BY <1>2, <2>4, <3>2, <4>3
    <3> QED
      BY <2>1, <2>2, <3>2, <3>3 DEF OpensSpot
  <2> QED
    BY <1>0, <2>3, <2>4, SpotNext
<1> QED
  BY <1>0, <1>1, <1>2

-----------------------------------------------------------------------------
(* Where add_node puts a timer.                                            *)

\* The stage and the slot that add_node chooses.
StageFor(e, now) == IF SameBlock(e, now, TIME_NEAR) THEN -1 ELSE LevelOf(e, now)
SlotFor(e, now) == SlotAt(e, StageFor(e, now))

\* Comparing blocks of the wheel's time is comparing blocks, since a delay is
\* less than half of it.
LEMMA BlockModulo ==
  ASSUME NEW x \in Time, NEW r \in Nat, 2 * r < TimeSpan, NEW i \in -1..3,
         NEW e, e = (x + r) % TimeSpan
  PROVE  SameBlock(e, x, Span(i)) <=> Same(x, r, i)
<1>0. TimeSpan \in Nat \ {0} /\ x \in Nat /\ x < TimeSpan /\ Span(i) \in Nat \ {0}
  BY Spans DEF Time
<1>1. CASE x + r < TimeSpan
  <2>1. (x + r) % TimeSpan = x + r
    BY <1>0, <1>1, Z3
  <2> QED
    BY <2>1 DEF SameBlock, Same
<1>2. CASE ~(x + r < TimeSpan)
  <2> DEFINE m == Span(i)
  <2>1. e = x + r - TimeSpan /\ e \in Nat
    <3>1. x + r - TimeSpan \in 0..TimeSpan - 1 /\ x + r = 1 * TimeSpan + (x + r - TimeSpan)
      BY <1>0, <1>2
    <3>2. (1 * TimeSpan + (x + r - TimeSpan)) % TimeSpan = x + r - TimeSpan
      BY <1>0, <3>1, DivUnique
    <3> QED
      BY <1>0, <3>1, <3>2
  <2>2. PICK d \in Nat : d >= 2 /\ TimeSpan = m * d
    BY SpanDivides
  <2>3. m \in Nat \ {0} /\ 2 * m <= TimeSpan
    <3>1. m \in Nat \ {0}
      BY <1>0
    <3> HIDE DEF m
    <3>2. 2 * m <= m * d
      BY <2>2, <3>1, Z3
    <3> QED
      BY <2>2, <3>1, <3>2
  <2> HIDE DEF m
  <2>4. x - e > m
    BY <1>0, <2>1, <2>3
  <2>5. \A y \in Nat : y \div m \in Nat /\ y % m \in 0..m - 1 /\ y = (y \div m) * m + (y % m)
    BY <2>3, DivMod
  <2>6. e \div m # x \div m
    <3> DEFINE a == x \div m
               b == e \div m
    <3>1. x = a * m + (x % m) /\ e = b * m + (e % m) /\ x % m \in 0..m - 1 /\ e % m \in 0..m - 1
          /\ a \in Nat /\ b \in Nat
      BY <1>0, <2>1, <2>5
    <3> HIDE DEF a, b
    <3>2. a = b => x - e < m
      <4> SUFFICES ASSUME a = b PROVE x - e < m
        OBVIOUS
      <4> DEFINE u == a * m
      <4>1. x = u + (x % m) /\ e = u + (e % m) /\ u \in Nat
        <5>1. a * m \in Nat
          BY <2>3, <3>1, Z3
        <5> QED
          BY <3>1, <5>1
      <4> HIDE DEF u
      <4> QED
        BY <2>3, <3>1, <4>1
    <3>3. a # b
      BY <1>0, <2>1, <2>3, <2>4, <3>2
    <3> QED
      BY <3>3 DEF a, b
  <2>7. (x + r) \div m # x \div m
    <3>1. (e + m * d) \div m = (e \div m) + d
      BY <2>1, <2>2, <2>3, DivShift
    <3>2. x + r = e + m * d
      BY <1>0, <2>1, <2>2
    <3>3. (x + r) \div m = (e \div m) + d /\ e \div m \in Nat
      BY <2>1, <2>5, <3>1, <3>2
    <3>4. x \div m < d
      <4>1. x = (x \div m) * m + (x % m) /\ x \div m \in Nat /\ x % m \in Nat
        BY <1>0, <2>3, <2>5
      <4> DEFINE a == x \div m
      <4> HIDE DEF a
      <4>2. a \in Nat /\ a >= d => a * m >= m * d
        BY <2>2, <2>3, Z3
      <4>3. a * m <= x
        <5>1. x = a * m + (x % m) /\ x % m \in Nat /\ a \in Nat
          BY <4>1 DEF a
        <5>2. a * m \in Nat
          BY <2>3, <5>1, Z3
        <5> QED
          BY <5>1, <5>2
      <4>4. a \in Nat
        BY <4>1 DEF a
      <4>5. a * m \in Nat /\ m * d \in Nat
        BY <2>2, <2>3, <4>4, Z3
      <4>6. a < d
        BY <1>0, <2>2, <4>2, <4>3, <4>4, <4>5
      <4> QED
        BY <4>6 DEF a
    <3>5. x \div m \in Nat
      BY <1>0, <2>5
    <3> QED
      BY <2>2, <3>3, <3>4, <3>5
  <2> QED
    BY <2>6, <2>7 DEF SameBlock, Same, m
<1> QED
  BY <1>1, <1>2

\* add_node puts a timer where it belongs.
LEMMA StageForIs ==
  ASSUME NEW x \in Time, NEW r \in Nat, 2 * r < TimeSpan, NEW e, e = (x + r) % TimeSpan
  PROVE  /\ StageFor(e, x) \in Stages /\ SlotFor(e, x) \in 0..Width(StageFor(e, x)) - 1
         /\ InSpot(x, r, StageFor(e, x), SlotFor(e, x))
<1>0. TimeSpan \in Nat \ {0} /\ x \in Nat /\ x < TimeSpan /\ x + r \in Nat /\ x + r < 2 * TimeSpan
  BY Spans DEF Time
<1>1. e \in Nat
  BY <1>0, DivMod
<1>2. \A i \in Stages : SlotAt(e, i) = SlotAt(x + r, i)
  <2> TAKE i \in Stages
  <2>1. CASE x + r < TimeSpan
    <3>1. (x + r) % TimeSpan = x + r
      BY <1>0, <2>1, Z3
    <3> QED
      BY <3>1
  <2>2. CASE ~(x + r < TimeSpan)
    <3>1. x + r - TimeSpan \in 0..TimeSpan - 1 /\ x + r = 1 * TimeSpan + (x + r - TimeSpan)
      BY <1>0, <2>2
    <3>2. (1 * TimeSpan + (x + r - TimeSpan)) % TimeSpan = x + r - TimeSpan
      BY <1>0, <3>1, DivUnique
    <3>3. x + r = e + TimeSpan
      BY <1>0, <3>1, <3>2
    <3> QED
      BY <1>1, <3>3, SlotModulo
  <2> QED
    BY <2>1, <2>2
<1>3. \A i \in -1..3 : SameBlock(e, x, Span(i)) <=> Same(x, r, i)
  BY BlockModulo
<1>4. \A i \in 0..3 : Span(i) = SlotSpan(i)
  BY DEF Span
<1>5. SameBlock(e, x, TIME_NEAR) <=> Same(x, r, 0)
  <2>1. Span(0) = TIME_NEAR
    BY <1>4, Masks
  <2> QED
    BY <1>3, <2>1
<1> DEFINE B(i) == SameBlock(e, x, SlotSpan(i + 1))
           Q(i) == B(i) /\ \A j \in 0..i - 1 : ~B(j)
<1>6. \A i \in 0..2 : B(i) <=> Same(x, r, i + 1)
  BY <1>3, <1>4
<1>7. LevelOf(e, x) = IF \E i \in 0..2 : B(i) THEN CHOOSE i \in 0..2 : Q(i) ELSE 3
  BY DEF LevelOf
<1>8. StageFor(e, x) \in Stages /\ (StageFor(e, x) # -1 => ~Same(x, r, StageFor(e, x)))
      /\ (StageFor(e, x) # 3 => Same(x, r, StageFor(e, x) + 1))
  <2>1. CASE Same(x, r, 0)
    BY <1>5, <2>1 DEF StageFor, Stages
  <2>2. CASE ~Same(x, r, 0)
    <3>1. StageFor(e, x) = LevelOf(e, x)
      BY <1>5, <2>2 DEF StageFor
    <3>2. CASE \E i \in 0..2 : B(i)
      <4>0. 0 + 1 = 1 /\ 1 + 1 = 2 /\ 2 + 1 = 3
        OBVIOUS
      <4>1. \E i \in 0..2 : Q(i)
        <5>1. B(0) \/ B(1) \/ B(2)
          <6> HIDE DEF B
          <6> QED
            BY <3>2
        <5>2. B(0) => Q(0)
          OBVIOUS
        <5>3. B(1) /\ ~B(0) => Q(1)
          <6> HIDE DEF B
          <6> QED
            OBVIOUS
        <5>4. B(2) /\ ~B(1) /\ ~B(0) => Q(2)
          <6> HIDE DEF B
          <6> QED
            OBVIOUS
        <5> HIDE DEF B, Q
        <5> QED
          BY <5>1, <5>2, <5>3, <5>4
      <4> DEFINE l == LevelOf(e, x)
      <4>2. l \in 0..2 /\ Q(l)
        <5> HIDE DEF Q
        <5>1. l = CHOOSE i \in 0..2 : Q(i)
          BY <1>7, <3>2
        <5> QED
          BY <4>1, <5>1
      <4> HIDE DEF l
      <4>3. Same(x, r, l + 1)
        BY <1>6, <4>2
      <4>4. ~Same(x, r, l)
        <5>1. CASE l = 0
          BY <2>2, <5>1
        <5>2. CASE l # 0
          <6>1. l - 1 \in 0..l - 1 /\ l - 1 \in 0..2 /\ (l - 1) + 1 = l
            BY <4>2, <5>2
          <6>2. ~B(l - 1)
            <7> HIDE DEF B
            <7> QED
              BY <4>2, <6>1
          <6> QED
            BY <1>6, <6>1, <6>2
        <5> QED
          BY <5>1, <5>2
      <4>5. StageFor(e, x) = l /\ l \in Stages
        BY <3>1, <4>2 DEF l, Stages
      <4> QED
        BY <4>3, <4>4, <4>5
    <3>3. CASE ~ \E i \in 0..2 : B(i)
      <4>1. StageFor(e, x) = 3
        <5> HIDE DEF B, Q
        <5> QED
          BY <1>7, <3>1, <3>3
      <4>2. ~Same(x, r, 3)
        <5>1. 2 \in 0..2 /\ 2 + 1 = 3
          OBVIOUS
        <5>2. ~B(2)
          <6> HIDE DEF B
          <6> QED
            BY <3>3
        <5> QED
          BY <1>6, <5>1, <5>2
      <4> QED
        BY <4>1, <4>2 DEF Stages
    <3> QED
      BY <3>2, <3>3
  <2> QED
    BY <2>1, <2>2
<1>9. SlotFor(e, x) = SlotAt(x + r, StageFor(e, x))
  BY <1>2, <1>8 DEF SlotFor
<1>10. SlotFor(e, x) \in 0..Width(StageFor(e, x)) - 1
  <2> DEFINE i == StageFor(e, x)
  <2>1. Span(i) \in Nat \ {0} /\ Width(i) \in Nat \ {0}
    BY <1>8, Spans DEF Stages
  <2>2. e \div Span(i) \in Nat
    BY <1>1, <2>1, DivMod
  <2>3. (e \div Span(i)) % Width(i) \in 0..Width(i) - 1
    BY <2>1, <2>2, DivMod
  <2> QED
    BY <2>3 DEF SlotFor, SlotAt
<1> QED
  BY <1>8, <1>9, <1>10 DEF InSpot

-----------------------------------------------------------------------------
(* The lists of the wheel.                                                 *)

SlotsOf(i) == 0..Width(i) - 1
IsWheel(w) == w \in [near : [Slots -> Seq(Timer)], t : [Levels -> [LevelSlots -> Seq(Timer)]]]
ListAt(w, i, s) == IF i = -1 THEN w.near[s] ELSE w.t[i][s]

\* w2 is w with another list in one slot.
Replaced(w, w2, i, s, list) ==
  /\ IsWheel(w2) /\ ListAt(w2, i, s) = list
  /\ \A j \in Stages : \A u \in SlotsOf(j) : (j # i \/ u # s) => ListAt(w2, j, u) = ListAt(w, j, u)

LEMMA NearReplaced ==
  ASSUME NEW w, IsWheel(w), NEW s \in Slots, NEW list \in Seq(Timer), NEW w2,
         w2 = [w EXCEPT !.near[s] = list]
  PROVE  Replaced(w, w2, -1, s, list)
<1>1. w2.near = [w.near EXCEPT ![s] = list] /\ w2.t = w.t /\ IsWheel(w2)
  BY DEF IsWheel
<1>2. w.near \in [Slots -> Seq(Timer)]
  BY DEF IsWheel
<1>3. SlotsOf(-1) = Slots
  BY DEF SlotsOf, Width, Slots
<1> QED
  BY <1>1, <1>2, <1>3 DEF Replaced, ListAt

LEMMA LevelReplaced ==
  ASSUME NEW w, IsWheel(w), NEW i \in Levels, NEW s \in LevelSlots, NEW list \in Seq(Timer), NEW w2,
         w2 = [w EXCEPT !.t[i][s] = list]
  PROVE  Replaced(w, w2, i, s, list)
<1>1. w.t \in [Levels -> [LevelSlots -> Seq(Timer)]]
  BY DEF IsWheel
<1>2. w2.t = [w.t EXCEPT ![i] = [w.t[i] EXCEPT ![s] = list]] /\ w2.near = w.near
  BY DEF IsWheel
<1>3. w2.t \in [Levels -> [LevelSlots -> Seq(Timer)]]
  BY <1>1, <1>2
<1>4. IsWheel(w2)
  <2>1. w2 = [near |-> w2.near, t |-> w2.t]
    BY DEF IsWheel
  <2>2. w2.near \in [Slots -> Seq(Timer)]
    BY <1>2 DEF IsWheel
  <2> QED
    BY <1>3, <2>1, <2>2 DEF IsWheel
<1>5. w2.t[i][s] = list
  BY <1>1, <1>2
<1>6. ASSUME NEW j \in Levels, NEW u \in LevelSlots, j # i \/ u # s PROVE w2.t[j][u] = w.t[j][u]
  BY <1>1, <1>2, <1>6
<1>7. \A j \in Stages : j # -1 => j \in Levels /\ SlotsOf(j) = LevelSlots
  BY DEF Stages, Levels, SlotsOf, Width, LevelSlots
<1>8. i # -1
  BY DEF Levels
<1> QED
  BY <1>2, <1>4, <1>5, <1>6, <1>7, <1>8 DEF Replaced, ListAt

\* A slot of a wheel holds a list of timers.
LEMMA ListType ==
  ASSUME NEW w, IsWheel(w), NEW i \in Stages, NEW s \in SlotsOf(i)
  PROVE  ListAt(w, i, s) \in Seq(Timer)
<1>1. CASE i = -1
  BY <1>1 DEF IsWheel, ListAt, SlotsOf, Width, Slots
<1>2. CASE i # -1
  <2>1. i \in Levels /\ s \in LevelSlots
    BY <1>2 DEF Stages, Levels, SlotsOf, Width, LevelSlots
  <2>2. w.t \in [Levels -> [LevelSlots -> Seq(Timer)]]
    BY DEF IsWheel
  <2> QED
    BY <1>2, <2>1, <2>2 DEF ListAt
<1> QED
  BY <1>1, <1>2

\* add_node appends the timer to one list.
LEMMA AddNodeIs ==
  ASSUME NEW w, IsWheel(w), NEW n \in Timer, NEW e \in Nat, NEW now,
         NEW i \in Stages, i = StageFor(e, now), NEW s \in SlotsOf(i), s = SlotFor(e, now)
  PROVE  Replaced(w, add_node(w, n, e, now), i, s, Append(ListAt(w, i, s), n))
<1>0. ListAt(w, i, s) \in Seq(Timer) /\ Append(ListAt(w, i, s), n) \in Seq(Timer)
  BY ListType, AppendProperties
<1>1. CASE SameBlock(e, now, TIME_NEAR)
  <2>1. i = -1 /\ s \in Slots
    BY <1>1 DEF StageFor, SlotsOf, Width, Slots
  <2>2. s = e % TIME_NEAR
    <3>1. e \div 1 = e
      BY Z3
    <3> QED
      BY <2>1, <3>1 DEF SlotFor, SlotAt, Span, Width
  <2>3. add_node(w, n, e, now) = [w EXCEPT !.near[s] = Append(@, n)]
    BY <1>1, <2>2 DEF add_node
  <2>4. add_node(w, n, e, now) = [w EXCEPT !.near[s] = Append(ListAt(w, i, s), n)]
    BY <2>1, <2>3 DEF ListAt
  <2> DEFINE list == Append(ListAt(w, i, s), n)
             w2 == add_node(w, n, e, now)
  <2>5. list \in Seq(Timer) /\ w2 = [w EXCEPT !.near[s] = list]
    BY <1>0, <2>4
  <2> HIDE DEF list, w2
  <2>6. Replaced(w, w2, -1, s, list)
    BY <2>1, <2>5, NearReplaced
  <2>7. Replaced(w, w2, i, s, list)
    BY <2>1, <2>6, Zenon
  <2> QED
    BY <2>7 DEF list, w2
<1>2. CASE ~SameBlock(e, now, TIME_NEAR)
  <2>0. i = LevelOf(e, now)
    BY <1>2 DEF StageFor
  <2>1. i # -1 /\ i \in Levels /\ s \in LevelSlots
    <3>1. i # -1
      <4>1. LevelOf(e, now) # -1
        <5> DEFINE P(k) == SameBlock(e, now, SlotSpan(k + 1))
                   Q(k) == P(k) /\ \A j \in 0..k - 1 : ~P(j)
        <5>1. LevelOf(e, now) = IF \E k \in 0..2 : P(k) THEN CHOOSE k \in 0..2 : Q(k) ELSE 3
          BY DEF LevelOf
        <5>2. (\E k \in 0..2 : P(k)) => \E k \in 0..2 : Q(k)
          <6>1. P(0) => Q(0)
            OBVIOUS
          <6> HIDE DEF P
          <6>2. P(1) /\ ~P(0) => Q(1)
            OBVIOUS
          <6>3. P(2) /\ ~P(1) /\ ~P(0) => Q(2)
            OBVIOUS
          <6> HIDE DEF Q
          <6> QED
            BY <6>1, <6>2, <6>3
        <5> HIDE DEF P, Q
        <5> QED
          BY <5>1, <5>2
      <4> QED
        BY <2>0, <4>1
    <3> QED
      BY <3>1 DEF Stages, Levels, SlotsOf, Width, LevelSlots
  <2>2. s = (e \div SlotSpan(i)) % TIME_LEVEL
    BY <2>1 DEF SlotFor, SlotAt, Span, Width
  <2>3. add_node(w, n, e, now) = [w EXCEPT !.t[i][s] = Append(@, n)]
    BY <1>2, <2>0, <2>2, Zenon DEF add_node
  <2>4. add_node(w, n, e, now) = [w EXCEPT !.t[i][s] = Append(ListAt(w, i, s), n)]
    BY <2>1, <2>3 DEF ListAt
  <2> QED
    BY <1>0, <2>1, <2>4, LevelReplaced
<1> QED
  BY <1>1, <1>2

-----------------------------------------------------------------------------
(* Timers that are linked where they belong.                               *)

\* m was added before n.
Before(ord, m, n) == \E j, k \in 1..Len(ord) : j < k /\ ord[j] = m /\ ord[k] = n

\* The list of slot s of stage i at time x: its timers are some of A, R[n]
\* ticks from being due, belong there and follow one another in the order in
\* which they were added if they are due in the same tick.
ListOK(list, A, x, R, ord, i, s) ==
  /\ \A k \in 1..Len(list) : list[k] \in A /\ InSpot(x, R[list[k]], i, s)
  /\ \A k, l \in 1..Len(list) : k < l =>
       /\ list[k] # list[l]
       /\ R[list[k]] = R[list[l]] => Before(ord, list[k], list[l])

\* The wheel w links exactly the timers A.
Linked(w, A, x, R, ord) ==
  /\ IsWheel(w) /\ x \in Nat
  /\ A \in SUBSET Timer /\ \A n \in A : R[n] \in Nat
  /\ \A i \in Stages : \A s \in SlotsOf(i) : ListOK(ListAt(w, i, s), A, x, R, ord, i, s)
  /\ \A n \in A : \E i \in Stages : \E s \in SlotsOf(i) : \E k \in 1..Len(ListAt(w, i, s)) :
       ListAt(w, i, s)[k] = n

Members(list) == {list[k] : k \in 1..Len(list)}

\* What is linked does not depend on the other timers.
LEMMA LinkSame ==
  ASSUME NEW w, NEW A, NEW x, NEW R, NEW ord, Linked(w, A, x, R, ord), NEW R2, NEW ord2,
         \A n \in A : R2[n] = R[n],
         \A m, n \in A : Before(ord, m, n) => Before(ord2, m, n)
  PROVE  Linked(w, A, x, R2, ord2)
<1>1. ASSUME NEW i \in Stages, NEW s \in SlotsOf(i) PROVE ListOK(ListAt(w, i, s), A, x, R2, ord2, i, s)
  <2> DEFINE list == ListAt(w, i, s)
  <2>1. ListOK(list, A, x, R, ord, i, s)
    BY DEF Linked
  <2> HIDE DEF list
  <2>2. \A k \in 1..Len(list) : list[k] \in A /\ R2[list[k]] = R[list[k]]
    BY <2>1 DEF ListOK
  <2>3. \A k \in 1..Len(list) : list[k] \in A /\ InSpot(x, R2[list[k]], i, s)
    BY <2>1, <2>2 DEF ListOK
  <2>4. ASSUME NEW k \in 1..Len(list), NEW l \in 1..Len(list), k < l
        PROVE  list[k] # list[l] /\ (R2[list[k]] = R2[list[l]] => Before(ord2, list[k], list[l]))
    BY <2>1, <2>2, <2>4 DEF ListOK
  <2>5. ListOK(list, A, x, R2, ord2, i, s)
    BY <2>3, <2>4 DEF ListOK
  <2> QED
    BY <2>5 DEF list
<1> QED
  BY <1>1 DEF Linked

\* Timers that are due in the same tick are in the same list.
LEMMA SameSpot ==
  ASSUME NEW w, NEW A, NEW x, NEW R, NEW ord, Linked(w, A, x, R, ord),
         NEW i \in Stages, NEW s \in SlotsOf(i), NEW m \in Members(ListAt(w, i, s)),
         NEW n \in A, R[n] = R[m]
  PROVE  n \in Members(ListAt(w, i, s))
<1>a. PICK j \in Stages : \E u \in SlotsOf(j) : \E k \in 1..Len(ListAt(w, j, u)) : ListAt(w, j, u)[k] = n
  BY DEF Linked
<1>b. PICK u \in SlotsOf(j) : \E k \in 1..Len(ListAt(w, j, u)) : ListAt(w, j, u)[k] = n
  BY <1>a
<1>1. PICK k \in 1..Len(ListAt(w, j, u)) : ListAt(w, j, u)[k] = n
  BY <1>b
<1>2. InSpot(x, R[n], j, u) /\ R[n] \in Nat /\ x \in Nat
  BY <1>1 DEF Linked, ListOK
<1>3. InSpot(x, R[m], i, s)
  BY DEF Linked, ListOK, Members
<1>4. i = j /\ s = u
  BY <1>2, <1>3, SpotUnique
<1> QED
  BY <1>1, <1>4 DEF Members

\* Unlinking a list.
LEMMA LinkClear ==
  ASSUME NEW w, NEW A, NEW x, NEW R, NEW ord, Linked(w, A, x, R, ord),
         NEW i \in Stages, NEW s \in SlotsOf(i), NEW w2, Replaced(w, w2, i, s, <<>>)
  PROVE  Linked(w2, A \ Members(ListAt(w, i, s)), x, R, ord)
<1> DEFINE M == Members(ListAt(w, i, s))
           B == A \ M
<1>1. ASSUME NEW j \in Stages, NEW u \in SlotsOf(j) PROVE ListOK(ListAt(w2, j, u), B, x, R, ord, j, u)
  <2>1. CASE j = i /\ u = s
    <3>1. ListAt(w2, j, u) = <<>>
      BY <2>1 DEF Replaced
    <3>2. Len(<<>>) = 0
      OBVIOUS
    <3> QED
      BY <3>1, <3>2 DEF ListOK
  <2>2. CASE ~(j = i /\ u = s)
    <3> DEFINE list == ListAt(w, j, u)
    <3>1. ListAt(w2, j, u) = list /\ ListOK(list, A, x, R, ord, j, u)
      BY <2>2 DEF Replaced, Linked
    <3>2. ASSUME NEW k \in 1..Len(list) PROVE list[k] \notin M
      <4> SUFFICES ASSUME list[k] \in M PROVE FALSE
        OBVIOUS
      <4>1. InSpot(x, R[list[k]], j, u) /\ list[k] \in A
        BY <3>1 DEF ListOK
      <4>2. InSpot(x, R[list[k]], i, s)
        BY DEF Linked, ListOK, Members
      <4>3. R[list[k]] \in Nat /\ x \in Nat
        BY <4>1 DEF Linked
      <4> QED
        BY <2>2, <4>1, <4>2, <4>3, SpotUnique
    <3> HIDE DEF list, M
    <3>3. ListOK(list, B, x, R, ord, j, u)
      BY <3>1, <3>2 DEF ListOK
    <3> QED
      BY <3>1, <3>3
  <2> QED
    BY <2>1, <2>2
<1>2. ASSUME NEW n \in B
      PROVE  \E j \in Stages : \E u \in SlotsOf(j) : \E k \in 1..Len(ListAt(w2, j, u)) :
               ListAt(w2, j, u)[k] = n
  <2>a. PICK j \in Stages : \E u \in SlotsOf(j) : \E k \in 1..Len(ListAt(w, j, u)) : ListAt(w, j, u)[k] = n
    BY <1>2 DEF Linked
  <2>b. PICK u \in SlotsOf(j) : \E k \in 1..Len(ListAt(w, j, u)) : ListAt(w, j, u)[k] = n
    BY <2>a
  <2>1. PICK k \in 1..Len(ListAt(w, j, u)) : ListAt(w, j, u)[k] = n
    BY <2>b
  <2>2. ~(j = i /\ u = s)
    BY <1>2, <2>1 DEF Members
  <2>3. ListAt(w2, j, u) = ListAt(w, j, u)
    BY <2>2 DEF Replaced
  <2> QED
    BY <2>1, <2>3
<1>3. IsWheel(w2) /\ x \in Nat /\ B \in SUBSET Timer /\ \A n \in B : R[n] \in Nat
  BY DEF Replaced, Linked
<1> HIDE DEF B
<1>4. Linked(w2, B, x, R, ord)
  BY <1>1, <1>2, <1>3 DEF Linked
<1> QED
  BY <1>4 DEF B

\* The time advances when the lists that it opens are empty.
LEMMA LinkTick ==
  ASSUME NEW w, NEW A, NEW x \in Time, NEW R, NEW ord, Linked(w, A, x, R, ord),
         NEW R2, \A n \in A : R[n] \in Nat \ {0} /\ R2[n] = R[n] - 1,
         NEW ct, ct = (x + 1) % TimeSpan,
         \A j \in Stages : \A u \in SlotsOf(j) : OpensSpot(ct, j, u) => ListAt(w, j, u) = <<>>
  PROVE  Linked(w, A, ct, R2, ord)
<1>1. ct \in Nat
  <2>1. x + 1 \in Nat /\ TimeSpan \in Nat \ {0}
    BY Spans DEF Time
  <2>2. (x + 1) % TimeSpan \in 0..TimeSpan - 1
    BY <2>1, DivMod
  <2> QED
    BY <2>1, <2>2
<1>2. ASSUME NEW j \in Stages, NEW u \in SlotsOf(j) PROVE ListOK(ListAt(w, j, u), A, ct, R2, ord, j, u)
  <2> DEFINE list == ListAt(w, j, u)
  <2>1. ListOK(list, A, x, R, ord, j, u)
    BY DEF Linked
  <2>2. OpensSpot(ct, j, u) => list = <<>>
    OBVIOUS
  <2> HIDE DEF list
  <2>3. ASSUME NEW k \in 1..Len(list) PROVE list[k] \in A /\ InSpot(ct, R2[list[k]], j, u)
    <3>1. list[k] \in A /\ InSpot(x, R[list[k]], j, u)
      BY <2>1 DEF ListOK
    <3>2. R[list[k]] \in Nat \ {0} /\ R2[list[k]] = R[list[k]] - 1
      BY <3>1
    <3>3. ~OpensSpot(ct, j, u)
      <4>1. Len(<<>>) = 0
        OBVIOUS
      <4> QED
        BY <2>2, <2>3, <4>1
    <3>4. InSpot(ct, R[list[k]] - 1, j, u)
      BY <3>1, <3>2, <3>3, Passing
    <3> QED
      BY <3>1, <3>2, <3>4
  <2>4. ASSUME NEW k \in 1..Len(list), NEW l \in 1..Len(list), k < l
        PROVE  list[k] # list[l] /\ (R2[list[k]] = R2[list[l]] => Before(ord, list[k], list[l]))
    <3>1. list[k] \in A /\ list[l] \in A
      BY <2>3
    <3>2. R2[list[k]] = R2[list[l]] => R[list[k]] = R[list[l]]
      BY <3>1
    <3> QED
      BY <2>1, <2>4, <3>2 DEF ListOK
  <2>5. ListOK(list, A, ct, R2, ord, j, u)
    BY <2>3, <2>4 DEF ListOK
  <2> QED
    BY <2>5 DEF list
<1>3. \A n \in A : R2[n] \in Nat
  OBVIOUS
<1> QED
  BY <1>1, <1>2, <1>3 DEF Linked

\* Adding a timer: add_node links it behind those that are due with it.
LEMMA LinkAdd ==
  ASSUME NEW w, NEW A, NEW x \in Time, NEW R, NEW ord, Linked(w, A, x, R, ord),
         NEW n \in Timer, n \notin A, R[n] \in Nat, 2 * R[n] < TimeSpan,
         NEW e, e = (x + R[n]) % TimeSpan,
         \A m \in A : R[m] = R[n] => Before(ord, m, n)
  PROVE  Linked(add_node(w, n, e, x), A \cup {n}, x, R, ord)
<1> DEFINE i == StageFor(e, x)
           s == SlotFor(e, x)
           old == ListAt(w, i, s)
           new == Append(old, n)
           w2 == add_node(w, n, e, x)
           B == A \cup {n}
<1>1. i \in Stages /\ s \in SlotsOf(i) /\ InSpot(x, R[n], i, s)
  BY StageForIs DEF SlotsOf
<1>2. e \in Nat /\ x \in Nat
  <2>1. TimeSpan \in Nat \ {0} /\ x + R[n] \in Nat /\ x \in Nat
    BY Spans DEF Time
  <2>2. (x + R[n]) % TimeSpan \in 0..TimeSpan - 1
    BY <2>1, DivMod
  <2> QED
    BY <2>1, <2>2
<1>3. IsWheel(w)
  BY DEF Linked
<1>4. Replaced(w, w2, i, s, new)
  BY <1>1, <1>2, <1>3, AddNodeIs
<1>5. old \in Seq(Timer) /\ ListOK(old, A, x, R, ord, i, s)
  BY <1>1, <1>3, ListType DEF Linked
<1> HIDE DEF i, s, old, w2
<1>6. /\ Len(old) \in Nat /\ Len(new) = Len(old) + 1 /\ new[Len(old) + 1] = n
      /\ \A k \in 1..Len(old) : new[k] = old[k]
  BY <1>5, AppendProperties
<1> HIDE DEF new
<1>7. ListOK(new, B, x, R, ord, i, s)
  <2>1. ASSUME NEW k \in 1..Len(new) PROVE new[k] \in B /\ InSpot(x, R[new[k]], i, s)
    <3>1. CASE k \in 1..Len(old)
      BY <1>5, <1>6, <3>1 DEF ListOK
    <3>2. CASE k = Len(old) + 1
      BY <1>1, <1>6, <3>2
    <3> QED
      BY <1>6, <3>1, <3>2
  <2>2. ASSUME NEW k \in 1..Len(new), NEW l \in 1..Len(new), k < l
        PROVE  new[k] # new[l] /\ (R[new[k]] = R[new[l]] => Before(ord, new[k], new[l]))
    <3>1. k \in 1..Len(old) /\ new[k] = old[k] /\ old[k] \in A
      BY <1>5, <1>6, <2>2 DEF ListOK
    <3>2. CASE l \in 1..Len(old)
      BY <1>5, <1>6, <2>2, <3>1, <3>2 DEF ListOK
    <3>3. CASE l = Len(old) + 1
      BY <1>6, <3>1, <3>3
    <3> QED
      BY <1>6, <3>2, <3>3
  <2> QED
    BY <2>1, <2>2 DEF ListOK
<1>8. ASSUME NEW j \in Stages, NEW u \in SlotsOf(j) PROVE ListOK(ListAt(w2, j, u), B, x, R, ord, j, u)
  <2>1. CASE j = i /\ u = s
    BY <1>4, <1>7, <2>1 DEF Replaced
  <2>2. CASE ~(j = i /\ u = s)
    <3>1. ListAt(w2, j, u) = ListAt(w, j, u) /\ ListOK(ListAt(w, j, u), A, x, R, ord, j, u)
      BY <1>4, <2>2 DEF Replaced, Linked
    <3>2. ListOK(ListAt(w, j, u), B, x, R, ord, j, u)
      BY <3>1 DEF ListOK
    <3> QED
      BY <3>1, <3>2
  <2> QED
    BY <2>1, <2>2
<1>9. ASSUME NEW m \in B
      PROVE  \E j \in Stages : \E u \in SlotsOf(j) : \E k \in 1..Len(ListAt(w2, j, u)) :
               ListAt(w2, j, u)[k] = m
  <2>1. ListAt(w2, i, s) = new
    BY <1>4 DEF Replaced
  <2>2. CASE m = n
    <3>1. Len(old) + 1 \in 1..Len(ListAt(w2, i, s)) /\ ListAt(w2, i, s)[Len(old) + 1] = m
      BY <1>6, <2>1, <2>2
    <3> QED
      BY <1>1, <3>1
  <2>3. CASE m \in A
    <3>a. PICK j \in Stages : \E u \in SlotsOf(j) : \E k \in 1..Len(ListAt(w, j, u)) : ListAt(w, j, u)[k] = m
      BY <2>3 DEF Linked
    <3>b. PICK u \in SlotsOf(j) : \E k \in 1..Len(ListAt(w, j, u)) : ListAt(w, j, u)[k] = m
      BY <3>a
    <3>c. PICK k \in 1..Len(ListAt(w, j, u)) : ListAt(w, j, u)[k] = m
      BY <3>b
    <3>1. k \in 1..Len(ListAt(w2, j, u)) /\ ListAt(w2, j, u)[k] = m
      <4>1. CASE j = i /\ u = s
        BY <1>6, <2>1, <3>c, <4>1 DEF old
      <4>2. CASE ~(j = i /\ u = s)
        BY <1>4, <3>c, <4>2 DEF Replaced
      <4> QED
        BY <4>1, <4>2
    <3> QED
      BY <3>1
  <2> QED
    BY <2>2, <2>3
<1>10. IsWheel(w2) /\ x \in Nat /\ B \in SUBSET Timer /\ \A m \in B : R[m] \in Nat
  BY <1>2, <1>4 DEF Replaced, Linked
<1> HIDE DEF B
<1>11. Linked(w2, B, x, R, ord)
  BY <1>8, <1>9, <1>10 DEF Linked
<1> QED
  BY <1>11 DEF B, w2

-----------------------------------------------------------------------------
(* The list of an opened slot moves down.                                  *)

\* A set of naturals that is not empty has a least element.
LEMMA LeastOf ==
  ASSUME NEW T \in SUBSET Nat, T # {}
  PROVE  \E x \in T : \A y \in T : x <= y
<1> DEFINE R == OpToRel(<, Nat)
<1>1. IsWellFoundedOn(R, Nat)
  BY NatLessThanWellFounded
<1>2. PICK x \in T : \A y \in T : ~(<<y, x>> \in R)
  <2> HIDE DEF R
  <2> QED
    BY <1>1, WFMin
<1>3. \A y \in T : ~(y < x)
  BY <1>2 DEF OpToRel
<1> QED
  BY <1>3

\* One round of move_list's loop.
Moving(f, list, w0, now, k) ==
  IF k = 0 THEN w0 ELSE add_node(f[k - 1], list[k], expire[list[k]], now)

LEMMA MoveListIs ==
  ASSUME NEW i, NEW idx, NEW now
  PROVE  move_list(i, idx, now) =
           (CHOOSE w : w = [k \in 0..Len(t[i][idx]) |->
              Moving(w, t[i][idx], [near |-> near, t |-> [t EXCEPT ![i][idx] = <<>>]], now, k)])
           [Len(t[i][idx])]
  BY DEF move_list, Moving

\* The function that move_list defines exists.
LEMMA MovedExists ==
  ASSUME NEW list, Len(list) \in Nat, NEW w0, NEW now
  PROVE  \E w : w = [k \in 0..Len(list) |-> Moving(w, list, w0, now, k)]
<1> DEFINE M(f, k) == Moving(f, list, w0, now, k)
           OK(m, f) == \A k \in 0..Len(list) : k <= m => f[k] = M(f, k)
           Bad == {m \in Nat : ~ \E f : OK(m, f)}
<1>0. ASSUME NEW k \in 0..Len(list), NEW f, NEW g, \A j \in 0..Len(list) : j < k => f[j] = g[j]
      PROVE  M(f, k) = M(g, k)
  <2>1. k # 0 => k - 1 \in 0..Len(list) /\ k - 1 < k
    OBVIOUS
  <2>2. k # 0 => f[k - 1] = g[k - 1]
    BY <1>0, <2>1
  <2> QED
    BY <2>2 DEF Moving
<1> HIDE DEF M
<1>1. Bad = {}
  <2> SUFFICES ASSUME Bad # {} PROVE FALSE
    OBVIOUS
  <2>1. PICK m \in Bad : \A k \in Bad : m <= k
    <3>1. Bad \in SUBSET Nat
      OBVIOUS
    <3> HIDE DEF Bad
    <3> QED
      BY <3>1, LeastOf
  <2>0. m \in Nat
    BY <2>1
  <2>2. \E f : \A k \in 0..Len(list) : k < m => f[k] = M(f, k)
    <3>1. CASE m = 0
      BY <3>1
    <3>2. CASE m # 0
      <4>1. m - 1 \in Nat /\ m - 1 \notin Bad
        <5> HIDE DEF Bad
        <5> QED
          BY <2>0, <2>1, <3>2
      <4>2. PICK f : OK(m - 1, f)
        BY <4>1
      <4>3. \A k \in 0..Len(list) : k < m => k <= m - 1
        <5> HIDE DEF Bad
        <5> QED
          BY <2>0
      <4> QED
        BY <4>2, <4>3
    <3> QED
      BY <3>1, <3>2
  <2>3. PICK f : \A k \in 0..Len(list) : k < m => f[k] = M(f, k)
    BY <2>2
  <2> DEFINE g == [k \in 0..Len(list) |-> M(f, k)]
  <2>4. \A k \in 0..Len(list) : g[k] = M(f, k)
    OBVIOUS
  <2> HIDE DEF g, Bad
  <2>5. ASSUME NEW k \in 0..Len(list), k <= m PROVE g[k] = M(g, k)
    <3>1. \A j \in 0..Len(list) : j < k => f[j] = g[j]
      BY <2>0, <2>3, <2>4, <2>5
    <3>2. M(f, k) = M(g, k)
      BY <1>0, <3>1
    <3> QED
      BY <2>4, <3>2
  <2> QED
    BY <2>1, <2>5 DEF Bad
<1>2. PICK f : OK(Len(list), f)
  <2> HIDE DEF OK
  <2>1. \A m \in Nat : \E f : OK(m, f)
    BY <1>1
  <2> HIDE DEF Bad
  <2> QED
    BY <2>1
<1> DEFINE w == [k \in 0..Len(list) |-> M(f, k)]
<1>3. \A k \in 0..Len(list) : f[k] = M(f, k) /\ w[k] = M(f, k)
  BY <1>2
<1>4. w = [k \in 0..Len(list) |-> M(f, k)]
  OBVIOUS
<1> HIDE DEF w
<1>5. \A k \in 0..Len(list) : M(f, k) = M(w, k)
  <2>1. \A j \in 0..Len(list) : f[j] = w[j]
    BY <1>3
  <2> QED
    BY <1>0, <2>1
<1>6. w = [k \in 0..Len(list) |-> M(w, k)]
  BY <1>4, <1>5
<1> QED
  BY <1>6 DEF M

\* A list whose timers can be added one after the other.
Movable(list, A, x, R, ord) ==
  /\ \A k \in 1..Len(list) :
       /\ list[k] \in Timer /\ list[k] \notin A /\ R[list[k]] \in Nat
       /\ 2 * R[list[k]] < TimeSpan /\ expire[list[k]] = (x + R[list[k]]) % TimeSpan
       /\ \A m \in A : R[m] # R[list[k]]
  /\ \A k, l \in 1..Len(list) : k < l =>
       /\ list[k] # list[l]
       /\ R[list[k]] = R[list[l]] => Before(ord, list[k], list[l])

\* The rounds of move_list's loop.
Rounds(f, list, w0, x) == f = [k \in 0..Len(list) |-> Moving(f, list, w0, x, k)]

\* Such a list is then linked with the rest.
LEMMA MoveAll ==
  ASSUME NEW list, Len(list) \in Nat, NEW w0, NEW A, NEW x \in Time, NEW R, NEW ord,
         Linked(w0, A, x, R, ord), Movable(list, A, x, R, ord), NEW f, Rounds(f, list, w0, x)
  PROVE  Linked(f[Len(list)], A \cup Members(list), x, R, ord)
<1> USE DEF Movable, Rounds
<1> DEFINE First(k) == {list[j] : j \in 1..k}
           Good(k) == Linked(f[k], A \cup First(k), x, R, ord)
           Bad == {k \in 0..Len(list) : ~Good(k)}
<1>1. f[0] = w0 /\ \A k \in 1..Len(list) : f[k] = add_node(f[k - 1], list[k], expire[list[k]], x)
  <2>1. ASSUME NEW k \in 0..Len(list) PROVE f[k] = Moving(f, list, w0, x, k)
    OBVIOUS
  <2>2. 0 \in 0..Len(list) /\ \A k \in 1..Len(list) : k \in 0..Len(list) /\ k # 0
    OBVIOUS
  <2> QED
    BY <2>1, <2>2 DEF Moving
<1>2. Good(0)
  <2>1. A \cup First(0) = A
    OBVIOUS
  <2> QED
    BY <1>1, <2>1
<1>3. ASSUME NEW k \in 1..Len(list), Good(k - 1) PROVE Good(k)
  <2> DEFINE B == A \cup First(k - 1)
             n == list[k]
  <2>1. First(k) = First(k - 1) \cup {n}
    OBVIOUS
  <2>2. n \notin B
    OBVIOUS
  <2>3. ASSUME NEW m \in B, R[m] = R[n] PROVE Before(ord, m, n)
    <3>1. m \notin A
      BY <2>3
    <3>2. PICK j \in 1..k - 1 : m = list[j]
      BY <3>1
    <3>3. j \in 1..Len(list) /\ j < k
      OBVIOUS
    <3> QED
      BY <2>3, <3>2, <3>3
  <2>4. n \in Timer /\ R[n] \in Nat /\ 2 * R[n] < TimeSpan /\ expire[n] = (x + R[n]) % TimeSpan
    OBVIOUS
  <2>5. Linked(f[k - 1], B, x, R, ord)
    BY <1>3
  <2> HIDE DEF B, n
  <2>6. Linked(add_node(f[k - 1], n, expire[n], x), B \cup {n}, x, R, ord)
    BY <2>2, <2>3, <2>4, <2>5, LinkAdd
  <2>7. A \cup First(k) = B \cup {n}
    BY <2>1 DEF B
  <2> QED
    BY <1>1, <2>6, <2>7 DEF n
<1> HIDE DEF Good
<1>4. Bad = {}
  <2> SUFFICES ASSUME Bad # {} PROVE FALSE
    OBVIOUS
  <2>1. PICK m \in Bad : \A k \in Bad : m <= k
    <3>1. Bad \in SUBSET Nat
      OBVIOUS
    <3> HIDE DEF Bad
    <3> QED
      BY <3>1, LeastOf
  <2>2. m \in 1..Len(list)
    BY <1>2
  <2>3. m - 1 \in 0..Len(list) /\ m - 1 \notin Bad
    BY <2>1, <2>2
  <2> QED
    BY <1>3, <2>2, <2>3
<1>5. Good(Len(list))
  <2>1. Len(list) \in 0..Len(list)
    OBVIOUS
  <2> QED
    BY <1>4, <2>1
<1> QED
  BY <1>5 DEF Good, Members

-----------------------------------------------------------------------------
(* The order in which timers were added.                                   *)

\* A timer that is appended comes after the others.
LEMMA AppendOrder ==
  ASSUME NEW ord \in Seq(Timer), NEW n \in Timer
  PROVE  /\ Append(ord, n) \in Seq(Timer)
         /\ Members(Append(ord, n)) = Members(ord) \cup {n}
         /\ \A m, l : Before(ord, m, l) => Before(Append(ord, n), m, l)
         /\ \A m \in Members(ord) : Before(Append(ord, n), m, n)
         /\ n \notin Members(ord) /\ (\A j, k \in 1..Len(ord) : j < k => ord[j] # ord[k])
            => \A j, k \in 1..Len(Append(ord, n)) : j < k => Append(ord, n)[j] # Append(ord, n)[k]
<1> DEFINE new == Append(ord, n)
<1>1. /\ Len(ord) \in Nat /\ Len(new) = Len(ord) + 1 /\ new[Len(ord) + 1] = n
      /\ \A k \in 1..Len(ord) : new[k] = ord[k]
  BY AppendProperties, LenProperties
<1>2. new \in Seq(Timer)
  BY AppendProperties
<1> HIDE DEF new
<1>3. Members(new) = Members(ord) \cup {n}
  BY <1>1 DEF Members
<1>4. \A m, l : Before(ord, m, l) => Before(new, m, l)
  BY <1>1 DEF Before
<1>5. \A m \in Members(ord) : Before(new, m, n)
  BY <1>1 DEF Before, Members
<1>6. ASSUME n \notin Members(ord), \A j, k \in 1..Len(ord) : j < k => ord[j] # ord[k],
             NEW j \in 1..Len(new), NEW k \in 1..Len(new), j < k
      PROVE  new[j] # new[k]
  <2>1. j \in 1..Len(ord) /\ new[j] = ord[j]
    BY <1>1, <1>6
  <2>2. CASE k \in 1..Len(ord)
    BY <1>1, <1>6, <2>1, <2>2
  <2>3. CASE k = Len(ord) + 1
    BY <1>1, <1>6, <2>1, <2>3 DEF Members
  <2> QED
    BY <1>1, <2>2, <2>3
<1> QED
  BY <1>2, <1>3, <1>4, <1>5, <1>6 DEF new

\* The timers that are set but for one keep their order.
LEMMA WithoutIs ==
  ASSUME order \in Seq(Timer), \A j, k \in 1..Len(order) : j < k => order[j] # order[k],
         NEW h \in Members(order)
  PROVE  /\ Without(h) \in Seq(Timer)
         /\ Members(Without(h)) = Members(order) \ {h}
         /\ \A m, l : m # h /\ l # h /\ Before(order, m, l) => Before(Without(h), m, l)
         /\ \A j, k \in 1..Len(Without(h)) : j < k => Without(h)[j] # Without(h)[k]
<1> DEFINE p == CHOOSE k \in 1..Len(order) : order[k] = h
           L == Len(order)
           a == SubSeq(order, 1, p - 1)
           b == SubSeq(order, p + 1, L)
           new == a \o b
<1>0. Without(h) = new
  BY DEF Without
<1>1. p \in 1..L /\ order[p] = h
  <2>1. \E k \in 1..Len(order) : order[k] = h
    BY DEF Members
  <2> QED
    BY <2>1
<1>2. L \in Nat
  BY LenProperties
<1> HIDE DEF p, L
<1>3. /\ a \in Seq(Timer) /\ Len(a) = p - 1 /\ \A k \in 1..p - 1 : a[k] = order[k]
  <2>1. 1 \in 1..Len(order) + 1 /\ p - 1 \in 1 - 1..Len(order)
    BY <1>1, <1>2 DEF L
  <2>2. a \in Seq(Timer) /\ Len(a) = (IF 1 <= p - 1 THEN (p - 1) - 1 + 1 ELSE 0)
        /\ \A k \in 1..(p - 1) - 1 + 1 : a[k] = order[1 + k - 1]
    BY <2>1, SubSeqProperties
  <2>3. \A k \in 1..p - 1 : 1 + k - 1 = k
    BY <1>1
  <2> QED
    BY <1>1, <2>2, <2>3
<1>4. /\ b \in Seq(Timer) /\ Len(b) = L - p /\ \A k \in 1..L - p : b[k] = order[p + k]
  <2>1. p + 1 \in 1..Len(order) + 1 /\ L \in (p + 1) - 1..Len(order)
    BY <1>1, <1>2 DEF L
  <2>2. b \in Seq(Timer) /\ Len(b) = (IF p + 1 <= L THEN L - (p + 1) + 1 ELSE 0)
        /\ \A k \in 1..L - (p + 1) + 1 : b[k] = order[(p + 1) + k - 1]
    BY <2>1, SubSeqProperties
  <2>3. \A k \in 1..L - p : (p + 1) + k - 1 = p + k
    BY <1>1, <1>2
  <2> QED
    BY <1>1, <1>2, <2>2, <2>3
<1> HIDE DEF a, b
<1>5. /\ new \in Seq(Timer) /\ Len(new) = Len(a) + Len(b)
      /\ \A k \in 1..Len(a) + Len(b) : new[k] = IF k <= Len(a) THEN a[k] ELSE b[k - Len(a)]
  BY <1>3, <1>4, ConcatProperties
<1> HIDE DEF new
<1>6. Len(new) = L - 1 /\ \A k \in 1..L - 1 : new[k] = order[IF k < p THEN k ELSE k + 1]
  <2>1. Len(new) = L - 1
    BY <1>1, <1>2, <1>3, <1>4, <1>5
  <2>2. ASSUME NEW k \in 1..L - 1 PROVE new[k] = order[IF k < p THEN k ELSE k + 1]
    <3>1. CASE k < p
      BY <1>1, <1>2, <1>3, <1>4, <1>5, <3>1
    <3>2. CASE ~(k < p)
      <4>1. k - (p - 1) \in 1..L - p /\ p + (k - (p - 1)) = k + 1
        BY <1>1, <1>2, <3>2
      <4>2. new[k] = b[k - (p - 1)]
        BY <1>1, <1>2, <1>3, <1>4, <1>5, <3>2
      <4> QED
        BY <1>4, <3>2, <4>1, <4>2
    <3> QED
      BY <3>1, <3>2
  <2> QED
    BY <2>1, <2>2
<1>7. \A j, k \in 1..L : j # k => order[j] # order[k]
  <2> SUFFICES ASSUME NEW j \in 1..L, NEW k \in 1..L, j # k PROVE order[j] # order[k]
    OBVIOUS
  <2>1. j < k \/ k < j
    BY <1>2
  <2> QED
    BY <2>1 DEF L
<1>8. ASSUME NEW k \in 1..L, k # p
      PROVE  \E j \in 1..L - 1 : new[j] = order[k] /\ j = IF k < p THEN k ELSE k - 1
  <2>1. CASE k < p
    BY <1>1, <1>2, <1>6, <2>1
  <2>2. CASE ~(k < p)
    <3>1. k - 1 \in 1..L - 1 /\ ~(k - 1 < p) /\ (k - 1) + 1 = k
      BY <1>1, <1>2, <1>8, <2>2
    <3>2. new[k - 1] = order[k]
      BY <1>6, <3>1
    <3> QED
      BY <2>2, <3>1, <3>2
  <2> QED
    BY <2>1, <2>2
<1>9. ASSUME NEW j \in 1..L - 1
      PROVE  \E k \in 1..L : k # p /\ new[j] = order[k] /\ k = IF j < p THEN j ELSE j + 1
  BY <1>1, <1>2, <1>6
<1>10. Members(new) = Members(order) \ {h}
  <2>1. ASSUME NEW m \in Members(new) PROVE m \in Members(order) \ {h}
    <3>1. PICK j \in 1..L - 1 : new[j] = m
      BY <1>6 DEF Members
    <3>2. PICK k \in 1..L : k # p /\ new[j] = order[k]
      BY <1>9
    <3> QED
      BY <1>1, <1>7, <3>1, <3>2 DEF Members, L
  <2>2. ASSUME NEW m \in Members(order), m # h PROVE m \in Members(new)
    <3>1. PICK k \in 1..L : order[k] = m
      BY DEF Members, L
    <3>2. k # p
      BY <1>1, <2>2, <3>1
    <3>3. PICK j \in 1..L - 1 : new[j] = order[k]
      BY <1>8, <3>2
    <3> QED
      BY <1>6, <3>1, <3>3 DEF Members
  <2> QED
    BY <2>1, <2>2
<1>11. ASSUME NEW m, NEW l, m # h, l # h, Before(order, m, l) PROVE Before(new, m, l)
  <2>1. PICK j \in 1..L, k \in 1..L : j < k /\ order[j] = m /\ order[k] = l
    BY <1>11 DEF Before, L
  <2>2. j # p /\ k # p
    BY <1>1, <1>11, <2>1
  <2>3. PICK i \in 1..L - 1 : new[i] = order[j] /\ i = IF j < p THEN j ELSE j - 1
    BY <1>8, <2>2
  <2>4. PICK o \in 1..L - 1 : new[o] = order[k] /\ o = IF k < p THEN k ELSE k - 1
    BY <1>8, <2>2
  <2>5. i < o
    BY <1>1, <1>2, <2>1, <2>2, <2>3, <2>4
  <2> QED
    BY <1>6, <2>1, <2>3, <2>4, <2>5 DEF Before
<1>12. ASSUME NEW j \in 1..Len(new), NEW k \in 1..Len(new), j < k PROVE new[j] # new[k]
  <2>1. PICK i \in 1..L : new[j] = order[i] /\ i = IF j < p THEN j ELSE j + 1
    BY <1>6, <1>9
  <2>2. PICK o \in 1..L : new[k] = order[o] /\ o = IF k < p THEN k ELSE k + 1
    BY <1>6, <1>9
  <2>3. i # o
    BY <1>1, <1>2, <1>12, <2>1, <2>2
  <2> QED
    BY <1>7, <2>1, <2>2, <2>3
<1> QED
  BY <1>0, <1>5, <1>10, <1>11, <1>12

-----------------------------------------------------------------------------
(* The inductive invariant.                                                *)

\* The expiry of a timer does not change when a tick passes.
LEMMA ExpiryKept ==
  ASSUME NEW x \in Time, NEW r \in Nat \ {0}, NEW ct, ct = (x + 1) % TimeSpan
  PROVE  ct \in Time /\ (ct + (r - 1)) % TimeSpan = (x + r) % TimeSpan
<1>0. TimeSpan \in Nat \ {0} /\ x \in Nat /\ x + 1 <= TimeSpan /\ r - 1 \in Nat
  BY Spans DEF Time
<1>1. CASE x + 1 < TimeSpan
  <2>1. (x + 1) % TimeSpan = x + 1
    BY <1>0, <1>1, Z3
  <2>2. (x + 1) + (r - 1) = x + r
    BY <1>0
  <2> QED
    BY <1>0, <1>1, <2>1, <2>2 DEF Time
<1>2. CASE x + 1 = TimeSpan
  <2>1. (x + 1) % TimeSpan = 0
    BY <1>0, <1>2, Z3
  <2>2. ((r - 1) + TimeSpan * 1) % TimeSpan = (r - 1) % TimeSpan
    BY <1>0, DivShift
  <2>3. (r - 1) + TimeSpan * 1 = x + r /\ 0 + (r - 1) = r - 1
    BY <1>0, <1>2
  <2> QED
    BY <1>0, <2>1, <2>2, <2>3 DEF Time
<1> QED
  BY <1>0, <1>1, <1>2

\* The timers in the wheel: those that are set and not being delivered.
InWheel == Members(order) \ Members(dispatch)

\* A timer that is set is remain ticks from its expiry, and none is due but in
\* the second timer_execute.
TimesOK ==
  \A n \in Members(order) :
    /\ remain[n] \in 0..MaxDelay /\ expire[n] = (time + remain[n]) % TimeSpan
    /\ pc # "exec2" => remain[n] # 0

\* A timer is set once.
OrderOK == \A j, k \in 1..Len(order) : j < k => order[j] # order[k]

\* What is delivered is due, in the order it was added, and nothing that is
\* due is left behind.
DispatchOK ==
  /\ \A k \in 1..Len(dispatch) : dispatch[k] \in Members(order) /\ remain[dispatch[k]] = 0
  /\ \A k, l \in 1..Len(dispatch) : k < l =>
       dispatch[k] # dispatch[l] /\ Before(order, dispatch[k], dispatch[l])
  /\ dispatch # <<>> => ~lock /\ pc = "exec2" /\ \A n \in InWheel : remain[n] # 0

\* The timer thread shifts the wheel under its lock.
ThreadOK ==
  /\ pc = "shift" => lock
  /\ pc = "idle" => ~lock
  /\ pc # "idle" => todo # 0

TimerInv ==
  /\ TimerTypeOK
  /\ Linked(Wheel, InWheel, time, remain, order)
  /\ TimesOK /\ OrderOK /\ DispatchOK /\ ThreadOK

LEMMA SetIs ==
  ASSUME NEW n
  PROVE  IsSet(n) <=> n \in Members(order)
  BY DEF IsSet, Members

LEMMA EmptyMembers == Members(<<>>) = {} /\ Len(<<>>) = 0
  BY DEF Members

\* The wheel of the next state is the one its action computes.
LEMMA WheelIs ==
  ASSUME NEW w, IsWheel(w), SetWheel(w)
  PROVE  Wheel' = w
<1>1. w = [near |-> w.near, t |-> w.t]
  BY DEF IsWheel
<1> QED
  BY <1>1 DEF SetWheel, Wheel

\* All is well before the first timer.
LEMMA InitTimer == Init => TimerInv
<1> SUFFICES ASSUME Init PROVE TimerInv
  OBVIOUS
<1> USE DEF Init
<1>0. TimeSpan \in Nat \ {0} /\ MaxDelay \in Nat /\ MaxLag \in Nat
  BY Spans, DelayAssumption, LagAssumption
<1>1. <<>> \in Seq(Timer) /\ Len(<<>>) = 0
  OBVIOUS
<1>2. TimerTypeOK
  <2>1. near \in [Slots -> Seq(Timer)]
    BY <1>1
  <2>2. t \in [Levels -> [LevelSlots -> Seq(Timer)]]
    BY <1>1
  <2>3. 0 \in Time /\ 0 \in 0..MaxLag /\ 0 \in -1..MaxDelay
    BY <1>0 DEF Time
  <2>4. expire \in [Timer -> Time] /\ remain \in [Timer -> -1..MaxDelay]
    BY <2>3
  <2> QED
    BY <1>1, <2>1, <2>2, <2>3, <2>4 DEF TimerTypeOK
<1>3. InWheel = {} /\ Members(order) = {}
  BY EmptyMembers DEF InWheel
<1>4. IsWheel(Wheel)
  BY <1>2 DEF TimerTypeOK, Wheel, IsWheel
<1>5. ASSUME NEW i \in Stages, NEW s \in SlotsOf(i) PROVE ListAt(Wheel, i, s) = <<>>
  <2>1. CASE i = -1
    BY <2>1 DEF ListAt, SlotsOf, Width, Slots, Wheel
  <2>2. CASE i # -1
    <3>1. i \in Levels /\ s \in LevelSlots
      BY <2>2 DEF Stages, Levels, SlotsOf, Width, LevelSlots
    <3> QED
      BY <2>2, <3>1 DEF ListAt, Wheel
  <2> QED
    BY <2>1, <2>2
<1>6. ASSUME NEW i \in Stages, NEW s \in SlotsOf(i)
      PROVE  ListOK(ListAt(Wheel, i, s), InWheel, time, remain, order, i, s)
  BY <1>1, <1>5 DEF ListOK
<1>7. Linked(Wheel, InWheel, time, remain, order)
  <2>1. time \in Nat
    OBVIOUS
  <2> QED
    BY <1>3, <1>4, <1>6, <2>1 DEF Linked
<1>8. TimesOK /\ OrderOK /\ DispatchOK /\ ThreadOK
  BY <1>1, <1>3 DEF TimesOK, OrderOK, DispatchOK, ThreadOK
<1> QED
  BY <1>2, <1>7, <1>8 DEF TimerInv

\* skynet_timeout.
LEMMA AddTimer ==
  ASSUME TimerInv, NEW n \in Timer, NEW d \in 1..MaxDelay, Add(n, d)
  PROVE  TimerInv'
<1> DEFINE e == Expiry(d)
           w == add_node(Wheel, n, e, time)
<1>0. TimerTypeOK /\ Linked(Wheel, InWheel, time, remain, order) /\ TimesOK /\ OrderOK /\ DispatchOK /\ ThreadOK
  BY DEF TimerInv
<1>1. /\ ~lock /\ n \notin Members(order)
      /\ expire' = [expire EXCEPT ![n] = e] /\ SetWheel(w)
      /\ remain' = [remain EXCEPT ![n] = d] /\ order' = Append(order, n)
      /\ UNCHANGED <<time, pc, lock, dispatch, todo, lag>>
  BY SetIs DEF Add
<1>2. order \in Seq(Timer) /\ time \in Time /\ remain \in [Timer -> -1..MaxDelay] /\ expire \in [Timer -> Time]
  BY <1>0 DEF TimerTypeOK
<1>3. /\ MaxDelay \in Nat /\ 2 * d < TimeSpan /\ TimeSpan \in Nat \ {0} /\ d \in Nat \ {0}
      /\ time \in Nat /\ time + d \in Nat
  BY <1>2, DelayAssumption, Spans DEF Time
<1>4. /\ order' \in Seq(Timer) /\ Members(order') = Members(order) \cup {n} /\ OrderOK'
      /\ \A m, l : Before(order, m, l) => Before(order', m, l)
      /\ \A m \in Members(order) : Before(order', m, n)
  BY <1>0, <1>1, <1>2, AppendOrder DEF OrderOK
<1>5. Members(dispatch) \subseteq Members(order)
  BY <1>0 DEF DispatchOK, Members
<1>6. InWheel' = InWheel \cup {n} /\ n \notin InWheel
  <2>1. Members(dispatch)' = Members(dispatch)
    BY <1>1 DEF Members
  <2> QED
    BY <1>1, <1>4, <1>5, <2>1 DEF InWheel
<1>7. Members(order) \subseteq Timer
  BY <1>2, ElementOfSeq DEF Members
<1>8. \A m \in Members(order) : remain'[m] = remain[m] /\ expire'[m] = expire[m]
  BY <1>1, <1>2, <1>7
<1>9. remain'[n] = d /\ expire'[n] = e /\ e = (time + remain'[n]) % TimeSpan
  BY <1>1, <1>2 DEF Expiry
<1>10. e \in Time
  <2>1. (time + d) % TimeSpan \in 0..TimeSpan - 1
    BY <1>3, DivMod
  <2> QED
    BY <2>1 DEF Expiry, Time
<1> HIDE DEF e, w
<1>11. Linked(Wheel, InWheel, time, remain', order')
  <2>1. \A m \in InWheel : remain'[m] = remain[m]
    BY <1>8 DEF InWheel
  <2> QED
    BY <1>0, <1>4, <2>1, LinkSame
<1>12. Linked(w, InWheel \cup {n}, time, remain', order')
  <2>1. \A m \in InWheel : Before(order', m, n)
    BY <1>4 DEF InWheel
  <2>2. remain'[n] \in Nat /\ 2 * remain'[n] < TimeSpan
    BY <1>3, <1>9
  <2> QED
    BY <1>2, <1>6, <1>9, <1>11, <2>1, <2>2, LinkAdd DEF w
<1>13. IsWheel(w)
  BY <1>12 DEF Linked
<1>14. Wheel' = w
  BY <1>1, <1>13, WheelIs
<1>15. Linked(Wheel, InWheel, time, remain, order)'
  BY <1>1, <1>6, <1>12, <1>14
<1>16. TimerTypeOK'
  <2>1. near' \in [Slots -> Seq(Timer)] /\ t' \in [Levels -> [LevelSlots -> Seq(Timer)]]
    BY <1>1, <1>13 DEF IsWheel, SetWheel
  <2>2. remain' \in [Timer -> -1..MaxDelay] /\ expire' \in [Timer -> Time]
    BY <1>1, <1>2, <1>3, <1>10
  <2> QED
    BY <1>0, <1>1, <1>4, <2>1, <2>2 DEF TimerTypeOK
<1>17. TimesOK'
  <2>1. ASSUME NEW m \in Members(order')
        PROVE  /\ remain'[m] \in 0..MaxDelay /\ expire'[m] = (time' + remain'[m]) % TimeSpan
               /\ pc' # "exec2" => remain'[m] # 0
    <3>1. CASE m = n
      BY <1>1, <1>3, <1>9, <3>1
    <3>2. CASE m \in Members(order)
      BY <1>0, <1>1, <1>8, <3>2 DEF TimesOK
    <3> QED
      BY <1>4, <2>1, <3>1, <3>2
  <2> QED
    BY <2>1 DEF TimesOK, Members
<1>18. DispatchOK'
  <2>1. ASSUME NEW k \in 1..Len(dispatch) PROVE dispatch[k] \in Members(order') /\ remain'[dispatch[k]] = 0
    BY <1>0, <1>4, <1>8 DEF DispatchOK
  <2>2. ASSUME NEW k \in 1..Len(dispatch), NEW l \in 1..Len(dispatch), k < l
        PROVE  dispatch[k] # dispatch[l] /\ Before(order', dispatch[k], dispatch[l])
    BY <1>0, <1>4, <2>2 DEF DispatchOK
  <2>3. ASSUME dispatch # <<>> PROVE ~lock /\ pc = "exec2" /\ \A m \in InWheel' : remain'[m] # 0
    <3>1. \A m \in InWheel : remain'[m] # 0
      BY <1>0, <1>8, <2>3 DEF DispatchOK, InWheel
    <3> QED
      BY <1>0, <1>3, <1>6, <1>9, <2>3, <3>1 DEF DispatchOK
  <2> QED
    BY <1>1, <2>1, <2>2, <2>3 DEF DispatchOK
<1>19. ThreadOK'
  BY <1>0, <1>1 DEF ThreadOK
<1> QED
  BY <1>4, <1>15, <1>16, <1>17, <1>18, <1>19 DEF TimerInv

\* A timer of the wheel that is due is in the slot of the current tick, and
\* those in that slot are due.
LEMMA DueSlot ==
  ASSUME TimerInv
  PROVE  /\ time % TIME_NEAR \in Slots /\ -1 \in Stages /\ time % TIME_NEAR \in SlotsOf(-1)
         /\ ListAt(Wheel, -1, time % TIME_NEAR) = near[time % TIME_NEAR]
         /\ \A n \in InWheel : remain[n] = 0 => n \in Members(near[time % TIME_NEAR])
         /\ \A n \in Members(near[time % TIME_NEAR]) : n \in InWheel /\ remain[n] = 0
<1> DEFINE s == time % TIME_NEAR
<1>0. TimerTypeOK /\ Linked(Wheel, InWheel, time, remain, order)
  BY DEF TimerInv
<1>1. time \in Nat /\ TIME_NEAR \in Nat \ {0}
  BY <1>0, Spans, WheelAssumption DEF TimerTypeOK, Time
<1>2. s \in Slots /\ -1 \in Stages /\ s \in SlotsOf(-1)
  <2>1. s \in 0..TIME_NEAR - 1
    BY <1>1, DivMod
  <2> QED
    BY <2>1 DEF Slots, Stages, SlotsOf, Width
<1>3. ListAt(Wheel, -1, s) = near[s]
  BY DEF ListAt, Wheel
<1>4. ASSUME NEW n \in InWheel, remain[n] = 0 PROVE n \in Members(near[s])
  <2>a. PICK j \in Stages : \E u \in SlotsOf(j) : \E k \in 1..Len(ListAt(Wheel, j, u)) : ListAt(Wheel, j, u)[k] = n
    BY <1>0 DEF Linked
  <2>b. PICK u \in SlotsOf(j) : \E k \in 1..Len(ListAt(Wheel, j, u)) : ListAt(Wheel, j, u)[k] = n
    BY <2>a
  <2>c. PICK k \in 1..Len(ListAt(Wheel, j, u)) : ListAt(Wheel, j, u)[k] = n
    BY <2>b
  <2>1. InSpot(time, remain[n], j, u)
    BY <1>0, <2>c DEF Linked, ListOK
  <2>2. j = -1 /\ u = s
    <3>1. remain[n] \in Nat
      BY <1>4
    <3> QED
      BY <1>1, <1>4, <2>1, <3>1, SpotDue
  <2> QED
    BY <1>3, <2>c, <2>2 DEF Members
<1>5. ASSUME NEW n \in Members(near[s]) PROVE n \in InWheel /\ remain[n] = 0
  <2>1. n \in InWheel /\ InSpot(time, remain[n], -1, s)
    BY <1>0, <1>2, <1>3 DEF Linked, ListOK, Members
  <2>2. remain[n] \in Nat
    BY <1>0, <2>1 DEF Linked
  <2> QED
    BY <1>1, <1>2, <2>1, <2>2, SpotDue
<1> QED
  BY <1>2, <1>3, <1>4, <1>5

\* timer_execute.
LEMMA UnlinkTimer ==
  ASSUME TimerInv, Unlink
  PROVE  TimerInv'
<1> DEFINE s == time % TIME_NEAR
           list == near[s]
<1>0. TimerTypeOK /\ Linked(Wheel, InWheel, time, remain, order) /\ TimesOK /\ OrderOK /\ DispatchOK /\ ThreadOK
  BY DEF TimerInv
<1>1. /\ pc \in {"exec1", "exec2"} /\ lock /\ list # <<>>
      /\ dispatch' = list /\ near' = [near EXCEPT ![s] = <<>>] /\ lock' = FALSE
      /\ UNCHANGED <<t, time, expire, pc, todo, lag, remain, order>>
  BY DEF Unlink
<1>2. dispatch = <<>>
  BY <1>0, <1>1 DEF DispatchOK
<1>3. InWheel = Members(order)
  BY <1>2, EmptyMembers DEF InWheel
<1>4. /\ s \in Slots /\ -1 \in Stages /\ s \in SlotsOf(-1) /\ ListAt(Wheel, -1, s) = list
      /\ \A n \in InWheel : remain[n] = 0 => n \in Members(list)
      /\ \A n \in Members(list) : n \in InWheel /\ remain[n] = 0
  BY DueSlot
<1>5. list \in Seq(Timer)
  BY <1>0, <1>4 DEF TimerTypeOK
<1>6. ListOK(list, InWheel, time, remain, order, -1, s)
  BY <1>0, <1>4 DEF Linked
<1>7. TimerTypeOK'
  <2>1. <<>> \in Seq(Timer)
    OBVIOUS
  <2>2. near' \in [Slots -> Seq(Timer)]
    BY <1>0, <1>1, <2>1 DEF TimerTypeOK
  <2> QED
    BY <1>0, <1>1, <1>5, <2>2 DEF TimerTypeOK
<1>8. Replaced(Wheel, Wheel', -1, s, <<>>)
  <2>1. IsWheel(Wheel) /\ <<>> \in Seq(Timer)
    BY <1>0 DEF Linked
  <2>2. Wheel' = [Wheel EXCEPT !.near[s] = <<>>]
    BY <1>1 DEF Wheel
  <2> QED
    BY <1>4, <2>1, <2>2, NearReplaced
<1>9. Linked(Wheel', InWheel \ Members(list), time, remain, order)
  BY <1>0, <1>4, <1>8, LinkClear
<1>10. InWheel' = InWheel \ Members(list)
  <2>1. InWheel' = Members(order') \ Members(dispatch')
    BY DEF InWheel
  <2>2. Members(order') = Members(order) /\ Members(dispatch') = Members(list)
    BY <1>1
  <2> QED
    BY <1>3, <2>1, <2>2
<1> HIDE DEF list
<1>11. Linked(Wheel, InWheel, time, remain, order)'
  BY <1>1, <1>9, <1>10
<1>12. \E n \in Members(list) : n \in Members(order) /\ remain[n] = 0
  <2>1. Len(list) \in Nat \ {0}
    BY <1>1, <1>5, EmptySeq
  <2>2. list[1] \in Members(list)
    BY <2>1 DEF Members
  <2> QED
    BY <1>3, <1>4, <2>2
<1>13. pc = "exec2"
  BY <1>0, <1>12 DEF TimesOK
<1>14. DispatchOK'
  <2>1. ASSUME NEW k \in 1..Len(list) PROVE list[k] \in Members(order) /\ remain[list[k]] = 0
    BY <1>3, <1>4 DEF Members
  <2>2. ASSUME NEW k \in 1..Len(list), NEW l \in 1..Len(list), k < l
        PROVE  list[k] # list[l] /\ Before(order, list[k], list[l])
    <3>1. remain[list[k]] = remain[list[l]]
      BY <2>1
    <3> QED
      BY <1>6, <2>2, <3>1 DEF ListOK
  <2>3. ~lock' /\ pc' = "exec2" /\ \A n \in InWheel' : remain[n] # 0
    BY <1>1, <1>4, <1>10, <1>13
  <2> QED
    BY <1>1, <2>1, <2>2, <2>3 DEF DispatchOK
<1>15. TimesOK' /\ OrderOK' /\ ThreadOK'
  <2>1. TimesOK'
    BY <1>0, <1>1 DEF TimesOK
  <2>2. OrderOK'
    BY <1>0, <1>1 DEF OrderOK
  <2>3. ThreadOK'
    BY <1>0, <1>1, <1>13 DEF ThreadOK
  <2> QED
    BY <2>1, <2>2, <2>3
<1> QED
  BY <1>7, <1>11, <1>14, <1>15 DEF TimerInv

\* dispatch_list.
LEMMA DeliverTimer ==
  ASSUME TimerInv, Deliver
  PROVE  TimerInv'
<1> DEFINE h == Head(dispatch)
           rest == Tail(dispatch)
           new == Without(h)
<1>0. TimerTypeOK /\ Linked(Wheel, InWheel, time, remain, order) /\ TimesOK /\ OrderOK /\ DispatchOK /\ ThreadOK
  BY DEF TimerInv
<1>1. /\ dispatch # <<>> /\ dispatch' = rest /\ order' = new
      /\ expire' = [expire EXCEPT ![h] = 0]
      /\ UNCHANGED <<near, t, time, pc, lock, todo, lag, remain>>
  BY DEF Deliver
<1>2. dispatch \in Seq(Timer) /\ order \in Seq(Timer) /\ expire \in [Timer -> Time]
  BY <1>0 DEF TimerTypeOK
<1>3. Len(dispatch) \in Nat \ {0} /\ h = dispatch[1] /\ h \in Timer
  BY <1>1, <1>2, EmptySeq, HeadTailProperties
<1>4. /\ rest \in Seq(Timer) /\ Len(rest) = Len(dispatch) - 1
      /\ \A k \in 1..Len(rest) : rest[k] = dispatch[k + 1]
  BY <1>1, <1>2, HeadTailProperties
<1> HIDE DEF h, rest
<1>5. h \in Members(order)
  BY <1>0, <1>3 DEF DispatchOK
<1>6. /\ new \in Seq(Timer) /\ Members(new) = Members(order) \ {h}
      /\ \A m, l : m # h /\ l # h /\ Before(order, m, l) => Before(new, m, l)
      /\ \A j, k \in 1..Len(new) : j < k => new[j] # new[k]
  BY <1>0, <1>2, <1>5, WithoutIs DEF OrderOK
<1> HIDE DEF new
<1>7. \A k \in 1..Len(rest) : k + 1 \in 1..Len(dispatch) /\ rest[k] = dispatch[k + 1] /\ rest[k] # h
  <2> SUFFICES ASSUME NEW k \in 1..Len(rest)
               PROVE  k + 1 \in 1..Len(dispatch) /\ rest[k] = dispatch[k + 1] /\ rest[k] # h
    OBVIOUS
  <2>1. k + 1 \in 1..Len(dispatch) /\ 1 \in 1..Len(dispatch) /\ 1 < k + 1
    BY <1>3, <1>4
  <2>2. dispatch[1] # dispatch[k + 1]
    BY <1>0, <2>1 DEF DispatchOK
  <2> QED
    BY <1>3, <1>4, <2>1, <2>2
<1>8. Members(dispatch) = Members(rest) \cup {h} /\ h \notin Members(rest)
  <2>1. ASSUME NEW m \in Members(dispatch), m # h PROVE m \in Members(rest)
    <3>1. PICK k \in 1..Len(dispatch) : dispatch[k] = m
      BY DEF Members
    <3>2. k # 1
      BY <1>3, <2>1, <3>1
    <3>3. k - 1 \in 1..Len(rest) /\ (k - 1) + 1 = k
      BY <1>3, <1>4, <3>2
    <3>4. rest[k - 1] = dispatch[k]
      BY <1>7, <3>3
    <3> QED
      BY <3>1, <3>3, <3>4 DEF Members
  <2>2. h \in Members(dispatch)
    BY <1>3 DEF Members
  <2>3. Members(rest) \subseteq Members(dispatch) /\ h \notin Members(rest)
    BY <1>7 DEF Members
  <2> QED
    BY <2>1, <2>2, <2>3
<1>9. InWheel' = InWheel /\ h \notin InWheel
  <2>1. InWheel' = Members(order') \ Members(dispatch')
    BY DEF InWheel
  <2>2. InWheel' = Members(new) \ Members(rest)
    BY <1>1, <2>1
  <2> QED
    BY <1>6, <1>8, <2>2 DEF InWheel
<1>10. Linked(Wheel, InWheel, time, remain, order)'
  <2>1. \A m, l \in InWheel : Before(order, m, l) => Before(new, m, l)
    BY <1>6, <1>9
  <2>2. Linked(Wheel, InWheel, time, remain, new)
    BY <1>0, <2>1, LinkSame
  <2>3. Wheel' = Wheel
    BY <1>1 DEF Wheel
  <2> QED
    BY <1>1, <1>9, <2>2, <2>3
<1>11. TimerTypeOK'
  <2>1. 0 \in Time
    BY Spans DEF Time
  <2>2. expire' \in [Timer -> Time]
    BY <1>1, <1>2, <2>1
  <2> QED
    BY <1>0, <1>1, <1>4, <1>6, <2>2 DEF TimerTypeOK
<1>12. TimesOK'
  <2>1. ASSUME NEW m \in Members(new)
        PROVE  /\ remain[m] \in 0..MaxDelay /\ expire'[m] = (time + remain[m]) % TimeSpan
               /\ pc # "exec2" => remain[m] # 0
    <3>1. m \in Members(order) /\ m # h
      BY <1>6
    <3>2. m \in Timer
      BY <1>2, <3>1, ElementOfSeq DEF Members
    <3>3. expire'[m] = expire[m]
      BY <1>1, <1>2, <3>1, <3>2
    <3> QED
      BY <1>0, <3>1, <3>3 DEF TimesOK
  <2> QED
    BY <1>1, <2>1 DEF TimesOK
<1>13. OrderOK'
  BY <1>1, <1>6 DEF OrderOK
<1>14. DispatchOK'
  <2>1. ASSUME NEW k \in 1..Len(rest) PROVE rest[k] \in Members(new) /\ remain[rest[k]] = 0
    BY <1>0, <1>6, <1>7 DEF DispatchOK
  <2>2. ASSUME NEW k \in 1..Len(rest), NEW l \in 1..Len(rest), k < l
        PROVE  rest[k] # rest[l] /\ Before(new, rest[k], rest[l])
    <3>1. k + 1 < l + 1 /\ k + 1 \in 1..Len(dispatch) /\ l + 1 \in 1..Len(dispatch)
      BY <1>4, <1>7, <2>2
    <3>2. dispatch[k + 1] # dispatch[l + 1] /\ Before(order, dispatch[k + 1], dispatch[l + 1])
      BY <1>0, <3>1 DEF DispatchOK
    <3> QED
      BY <1>6, <1>7, <3>2
  <2>3. ~lock' /\ pc' = "exec2" /\ \A n \in InWheel' : remain[n] # 0
    BY <1>0, <1>1, <1>9 DEF DispatchOK
  <2> QED
    BY <1>1, <2>1, <2>2, <2>3 DEF DispatchOK
<1>15. ThreadOK'
  BY <1>0, <1>1 DEF ThreadOK
<1> QED
  BY <1>10, <1>11, <1>12, <1>13, <1>14, <1>15 DEF TimerInv

\* The steps that touch neither the wheel nor a list.
LEMMA QuietTimer ==
  ASSUME TimerInv,
         UNCHANGED vars \/ Clock \/ UpdateTime \/ Update \/ Relock \/ EndFirst \/ EndSecond
  PROVE  TimerInv'
<1>0. TimerTypeOK /\ Linked(Wheel, InWheel, time, remain, order) /\ TimesOK /\ OrderOK /\ DispatchOK /\ ThreadOK
  BY DEF TimerInv
<1>a. MaxLag \in Nat \ {0} /\ todo \in 0..MaxLag /\ lag \in 0..MaxLag
  BY <1>0, LagAssumption DEF TimerTypeOK
<1>1. near' = near /\ t' = t /\ time' = time /\ expire' = expire /\ remain' = remain
      /\ order' = order /\ dispatch' = dispatch
  BY DEF vars, wheelVars, Clock, UpdateTime, Update, Relock, EndFirst, EndSecond
<1>2. InWheel' = InWheel
  BY <1>1 DEF InWheel, Members
<1>3. Linked(Wheel, InWheel, time, remain, order)'
  <2>1. Wheel' = Wheel
    BY <1>1 DEF Wheel
  <2> QED
    BY <1>0, <1>1, <1>2, <2>1
<1>4. TimerTypeOK'
  <2>1. /\ pc' \in {"idle", "exec1", "shift", "exec2"} /\ lock' \in BOOLEAN
        /\ todo' \in 0..MaxLag /\ lag' \in 0..MaxLag
    <3>1. CASE UNCHANGED vars
      BY <1>0, <3>1 DEF vars, TimerTypeOK
    <3>2. CASE Clock
      BY <1>0, <1>a, <3>2 DEF Clock, wheelVars, TimerTypeOK
    <3>3. CASE UpdateTime
      BY <1>0, <1>a, <3>3 DEF UpdateTime, wheelVars, TimerTypeOK
    <3>4. CASE Update \/ Relock \/ EndFirst
      BY <1>0, <3>4 DEF Update, Relock, EndFirst, wheelVars, TimerTypeOK
    <3>5. CASE EndSecond
      <4>1. todo # 0
        BY <1>0, <3>5 DEF EndSecond, ThreadOK
      <4>2. todo' = todo - 1 /\ lag' = lag
        BY <3>5 DEF EndSecond
      <4>3. pc' = "idle" /\ lock' \in BOOLEAN
        BY <3>5 DEF EndSecond
      <4>4. todo' \in 0..MaxLag /\ lag' \in 0..MaxLag
        BY <1>a, <4>1, <4>2
      <4> QED
        BY <4>3, <4>4
    <3> QED
      BY <3>1, <3>2, <3>3, <3>4, <3>5
  <2> QED
    BY <1>0, <1>1, <2>1 DEF TimerTypeOK
<1>5. TimesOK'
  <2>1. ASSUME pc' # "exec2", NEW n \in Members(order) PROVE remain[n] # 0
    <3>1. CASE pc # "exec2"
      BY <1>0, <3>1 DEF TimesOK
    <3>2. CASE pc = "exec2"
      <4>1. EndSecond
        BY <2>1, <3>2 DEF vars, wheelVars, Clock, UpdateTime, Update, Relock, EndFirst
      <4>2. lock /\ near[time % TIME_NEAR] = <<>>
        BY <4>1 DEF EndSecond
      <4>3. dispatch = <<>>
        BY <1>0, <4>2 DEF DispatchOK
      <4>4. n \in InWheel
        BY <4>3, EmptyMembers DEF InWheel
      <4> QED
        BY <4>2, <4>4, DueSlot, EmptyMembers
    <3> QED
      BY <3>1, <3>2
  <2> QED
    BY <1>0, <1>1, <2>1 DEF TimesOK
<1>6. OrderOK'
  BY <1>0, <1>1 DEF OrderOK
<1>7. DispatchOK'
  <2>1. ASSUME dispatch # <<>> PROVE ~lock' /\ pc' = "exec2"
    <3>1. ~lock /\ pc = "exec2"
      BY <1>0, <2>1 DEF DispatchOK
    <3> QED
      BY <2>1, <3>1 DEF vars, wheelVars, Clock, UpdateTime, Update, Relock, EndFirst, EndSecond
  <2> QED
    BY <1>0, <1>1, <1>2, <2>1 DEF DispatchOK
<1>8. ThreadOK'
  <2>1. CASE UNCHANGED vars \/ Clock
    BY <1>0, <2>1 DEF vars, wheelVars, Clock, ThreadOK
  <2>2. CASE UpdateTime \/ Update \/ Relock
    BY <1>0, <1>a, <2>2 DEF wheelVars, UpdateTime, Update, Relock, ThreadOK
  <2>3. CASE EndFirst \/ EndSecond
    BY <1>0, <2>3 DEF wheelVars, EndFirst, EndSecond, ThreadOK
  <2> QED
    BY <2>1, <2>2, <2>3
<1> QED
  BY <1>3, <1>4, <1>5, <1>6, <1>7, <1>8 DEF TimerInv

LEMMA PredInjective ==
  ASSUME NEW a \in Nat, NEW b \in Nat, a - 1 = b - 1
  PROVE  a = b
  OBVIOUS

\* The list of an opened slot moves down and the wheel is linked for the new time.
LEMMA OpenedLinked ==
  ASSUME TimerInv, dispatch = <<>>, \A n \in Members(order) : remain[n] # 0,
         NEW ct, ct = (time + 1) % TimeSpan,
         NEW i \in Levels, NEW s \in LevelSlots,
         \A j, u : OpensSpot(ct, j, u) => j = i /\ u = s,
         NEW R, \A n \in Members(order) : R[n] = remain[n] - 1
  PROVE  Linked(move_list(i, s, ct), Members(order), ct, R, order)
<1> DEFINE w0 == [near |-> near, t |-> [t EXCEPT ![i][s] = <<>>]]
           list == t[i][s]
           S == Members(order)
           A == S \ Members(list)
<1>0. TimerTypeOK /\ Linked(Wheel, InWheel, time, remain, order) /\ TimesOK /\ OrderOK
  BY DEF TimerInv
<1>1. time \in Time /\ time \in Nat /\ TimeSpan \in Nat \ {0}
  BY <1>0, Spans DEF TimerTypeOK, Time
<1>2. InWheel = S
  BY EmptyMembers DEF InWheel
<1>3. i \in Stages /\ s \in SlotsOf(i) /\ ListAt(Wheel, i, s) = list
  BY DEF Levels, LevelSlots, Stages, SlotsOf, Width, ListAt, Wheel
<1>4. ListOK(list, S, time, remain, order, i, s)
  BY <1>0, <1>2, <1>3 DEF Linked
<1>5. list \in Seq(Timer) /\ Len(list) \in Nat
  BY <1>0, LenProperties DEF TimerTypeOK
<1>6. Replaced(Wheel, w0, i, s, <<>>)
  <2>1. IsWheel(Wheel) /\ <<>> \in Seq(Timer)
    BY <1>0 DEF Linked
  <2>2. w0 = [Wheel EXCEPT !.t[i][s] = <<>>]
    BY DEF Wheel
  <2> QED
    BY <2>1, <2>2, LevelReplaced
<1> HIDE DEF list
<1>7. Linked(w0, A, time, remain, order)
  BY <1>0, <1>2, <1>3, <1>6, LinkClear
<1>8. ASSUME NEW n \in S
      PROVE  /\ n \in Timer /\ remain[n] \in Nat \ {0} /\ R[n] = remain[n] - 1 /\ R[n] \in Nat
             /\ 2 * R[n] < TimeSpan /\ expire[n] = (ct + R[n]) % TimeSpan
  <2>1. n \in Timer
    BY <1>0, ElementOfSeq DEF TimerTypeOK, Members
  <2>2. remain[n] \in 0..MaxDelay /\ expire[n] = (time + remain[n]) % TimeSpan /\ remain[n] # 0
    BY <1>0 DEF TimesOK
  <2>3. MaxDelay \in Nat /\ 2 * MaxDelay < TimeSpan
    BY DelayAssumption
  <2>4. remain[n] \in Nat \ {0} /\ R[n] = remain[n] - 1 /\ R[n] \in Nat /\ 2 * R[n] < TimeSpan
    BY <1>1, <2>2, <2>3
  <2>5. (ct + (remain[n] - 1)) % TimeSpan = (time + remain[n]) % TimeSpan
    BY <1>1, <2>4, ExpiryKept
  <2> QED
    BY <2>1, <2>2, <2>4, <2>5
<1>e. ASSUME NEW m \in S, NEW n \in S, R[m] = R[n] PROVE remain[m] = remain[n]
  <2>1. remain[m] \in Nat /\ remain[n] \in Nat /\ R[m] = remain[m] - 1 /\ R[n] = remain[n] - 1
    BY <1>8
  <2>2. remain[m] - 1 = remain[n] - 1
    BY <1>e, <2>1, Zenon
  <2> QED
    BY <2>1, <2>2, PredInjective, Zenon
<1>9. ct \in Time
  <2>1. 1 \in Nat \ {0}
    OBVIOUS
  <2> QED
    BY <1>1, <2>1, ExpiryKept
<1>10. ListAt(w0, i, s) = <<>>
  BY <1>6 DEF Replaced
<1> HIDE DEF w0, S
<1>11. Linked(w0, A, ct, R, order)
  <2>1. \A n \in A : remain[n] \in Nat \ {0} /\ R[n] = remain[n] - 1
    BY <1>8
  <2>2. \A j \in Stages : \A u \in SlotsOf(j) : OpensSpot(ct, j, u) => ListAt(w0, j, u) = <<>>
    BY <1>10
  <2> HIDE DEF A
  <2> QED
    BY <1>1, <1>7, <2>1, <2>2, LinkTick
<1>12. ASSUME NEW k \in 1..Len(list)
       PROVE  /\ list[k] \in S /\ list[k] \notin A
              /\ \A m \in A : R[m] # R[list[k]]
  <2>1. list[k] \in S /\ list[k] \in Members(list)
    BY <1>4 DEF ListOK, Members
  <2>2. ASSUME NEW m \in A, R[m] = R[list[k]] PROVE FALSE
    <3>1. remain[m] = remain[list[k]]
      BY <1>e, <2>1, <2>2
    <3>2. m \in Members(list)
      BY <1>0, <1>2, <1>3, <2>1, <3>1, SameSpot
    <3> QED
      BY <3>2
  <2> QED
    BY <2>1, <2>2
<1>13. ASSUME NEW k \in 1..Len(list), NEW l \in 1..Len(list), k < l
       PROVE  list[k] # list[l] /\ (R[list[k]] = R[list[l]] => Before(order, list[k], list[l]))
  <2>1. R[list[k]] = R[list[l]] => remain[list[k]] = remain[list[l]]
    BY <1>e, <1>12
  <2> QED
    BY <1>4, <1>13, <2>1 DEF ListOK
<1> DEFINE f == CHOOSE w : w = [k \in 0..Len(list) |-> Moving(w, list, w0, ct, k)]
<1>14. f = [k \in 0..Len(list) |-> Moving(f, list, w0, ct, k)]
  BY <1>5, MovedExists
<1>15. move_list(i, s, ct) = f[Len(list)]
  BY MoveListIs DEF list, w0
<1> HIDE DEF f, A
<1>16. Linked(f[Len(list)], A \cup Members(list), ct, R, order)
  <2>1. \A k \in 1..Len(list) :
           /\ list[k] \in Timer /\ list[k] \notin A /\ R[list[k]] \in Nat
           /\ 2 * R[list[k]] < TimeSpan /\ expire[list[k]] = (ct + R[list[k]]) % TimeSpan
           /\ \A m \in A : R[m] # R[list[k]]
    BY <1>8, <1>12
  <2>2. \A k, l \in 1..Len(list) : k < l =>
           /\ list[k] # list[l]
           /\ R[list[k]] = R[list[l]] => Before(order, list[k], list[l])
    BY <1>13
  <2>3. Movable(list, A, ct, R, order) /\ Rounds(f, list, w0, ct)
    BY <1>14, <2>1, <2>2 DEF Movable, Rounds
  <2> QED
    BY <1>5, <1>9, <1>11, <2>3, MoveAll
<1>17. A \cup Members(list) = S
  BY <1>12 DEF A, Members
<1> QED
  BY <1>15, <1>16, <1>17 DEF S

\* timer_shift.
LEMMA ShiftTimer ==
  ASSUME TimerInv, Shift
  PROVE  TimerInv'
<1> DEFINE ct == (time + 1) % TimeSpan
           S == Members(order)
<1>0. TimerTypeOK /\ Linked(Wheel, InWheel, time, remain, order) /\ TimesOK /\ OrderOK /\ DispatchOK /\ ThreadOK
  BY DEF TimerInv
<1>1. /\ pc = "shift" /\ time' = ct /\ SetWheel(Opened(ct)) /\ pc' = "exec2"
      /\ remain' = [n \in Timer |-> IF IsSet(n) /\ remain[n] >= 0 THEN remain[n] - 1 ELSE remain[n]]
      /\ UNCHANGED <<expire, lock, dispatch, todo, lag, order>>
  BY DEF Shift
<1>2. lock /\ dispatch = <<>> /\ \A n \in S : remain[n] # 0
  BY <1>0, <1>1 DEF ThreadOK, DispatchOK, TimesOK
<1>3. time \in Time /\ remain \in [Timer -> -1..MaxDelay] /\ S \subseteq Timer /\ MaxDelay \in Nat
  BY <1>0, ElementOfSeq, DelayAssumption DEF TimerTypeOK, Members
<1>4. ASSUME NEW n \in S
      PROVE  /\ remain[n] \in 1..MaxDelay /\ remain'[n] = remain[n] - 1
             /\ expire[n] = (ct + remain'[n]) % TimeSpan
  <2>1. remain[n] \in 1..MaxDelay /\ expire[n] = (time + remain[n]) % TimeSpan
    BY <1>0, <1>2, <1>3 DEF TimesOK
  <2>2. IsSet(n) /\ n \in Timer
    BY <1>3, SetIs
  <2>3. remain'[n] = remain[n] - 1
    BY <1>1, <1>3, <2>1, <2>2
  <2>4. remain[n] \in Nat \ {0}
    BY <1>3, <2>1
  <2>5. (ct + (remain[n] - 1)) % TimeSpan = (time + remain[n]) % TimeSpan
    BY <1>3, <2>4, ExpiryKept
  <2> QED
    BY <2>1, <2>3, <2>5
<1>5. ct \in Time
  <2>1. 1 \in Nat \ {0}
    OBVIOUS
  <2> QED
    BY <1>3, <2>1, ExpiryKept
<1>6. InWheel = S /\ InWheel' = S
  <2>1. InWheel' = Members(order') \ Members(dispatch')
    BY DEF InWheel
  <2> QED
    BY <1>1, <1>2, <2>1, EmptyMembers DEF InWheel
<1> HIDE DEF ct, S
<1>7. Linked(Opened(ct), S, ct, remain', order)
  <2>0. \A n \in Members(order) : remain'[n] = remain[n] - 1 /\ remain[n] # 0
    BY <1>2, <1>4 DEF S
  <2>w. TIME_LEVEL \in Nat \ {0, 1} /\ TIME_NEAR \in Nat \ {0} /\ TimeSpan \in Nat \ {0} /\ ct \in Nat
    BY <1>5, WheelAssumption, Spans DEF Time
  <2>1. CASE ct = 0
    <3>1. Opened(ct) = move_list(3, 0, ct)
      BY <2>1 DEF Opened
    <3>2. 3 \in Levels /\ 0 \in LevelSlots
      BY <2>w DEF Levels, LevelSlots
    <3>3. \A j, u : OpensSpot(ct, j, u) => j = 3 /\ u = 0
      BY <2>1 DEF OpensSpot
    <3>4. Linked(move_list(3, 0, ct), Members(order), ct, remain', order)
      BY <1>2, <2>0, <3>2, <3>3, OpenedLinked DEF ct
    <3> QED
      BY <3>1, <3>4 DEF S
  <2>2. CASE ct # 0 /\ ct % TIME_NEAR = 0
    <3> DEFINE i == ShiftLevel(ct)
               s == (ct \div SlotSpan(i)) % TIME_LEVEL
    <3>1. ct \in 1..TimeSpan - 1
      BY <1>5, <2>2, <2>w DEF Time
    <3>2. i \in Levels
      BY <2>2, <3>1, ShiftLevelIs
    <3>3. i # -1
      BY <3>2 DEF Levels
    <3>4. Opened(ct) = move_list(i, s, ct)
      BY <2>2, <3>3 DEF Opened
    <3>5. s \in LevelSlots
      <4>1. SlotSpan(i) \in Nat \ {0}
        <5>1. i \in -1..4 /\ Span(i) = SlotSpan(i)
          BY <3>2, <3>3 DEF Levels, Span
        <5> QED
          BY <5>1, Spans
      <4>2. ct \div SlotSpan(i) \in Nat
        BY <2>w, <4>1, DivMod
      <4>3. s \in 0..TIME_LEVEL - 1
        BY <2>w, <4>2, DivMod
      <4> QED
        BY <4>3 DEF LevelSlots
    <3>6. \A j, u : OpensSpot(ct, j, u) => j = i /\ u = s
      BY <2>2 DEF OpensSpot
    <3> HIDE DEF i, s
    <3>7. Linked(move_list(i, s, ct), Members(order), ct, remain', order)
      BY <1>2, <2>0, <3>2, <3>5, <3>6, OpenedLinked DEF ct
    <3> QED
      BY <3>4, <3>7 DEF S
  <2>3. CASE ct # 0 /\ ct % TIME_NEAR # 0
    <3>1. Opened(ct) = Wheel
      BY <2>3 DEF Opened, ShiftLevel
    <3>2. \A j, u : ~OpensSpot(ct, j, u)
      BY <2>3 DEF OpensSpot
    <3>3. \A n \in S : remain[n] \in Nat \ {0} /\ remain'[n] = remain[n] - 1
      BY <1>3, <1>4
    <3>4. Linked(Wheel, S, time, remain, order)
      BY <1>0, <1>6
    <3>5. Linked(Wheel, S, ct, remain', order)
      BY <1>3, <3>2, <3>3, <3>4, LinkTick DEF ct
    <3> QED
      BY <3>1, <3>5
  <2> QED
    BY <2>1, <2>2, <2>3
<1>8. IsWheel(Opened(ct)) /\ Wheel' = Opened(ct)
  <2>1. IsWheel(Opened(ct))
    BY <1>7 DEF Linked
  <2> QED
    BY <1>1, <2>1, WheelIs
<1>9. Linked(Wheel, InWheel, time, remain, order)'
  BY <1>1, <1>6, <1>7, <1>8
<1>10. TimerTypeOK'
  <2>1. near' \in [Slots -> Seq(Timer)] /\ t' \in [Levels -> [LevelSlots -> Seq(Timer)]]
    BY <1>1, <1>8 DEF IsWheel, SetWheel
  <2>2. remain' \in [Timer -> -1..MaxDelay]
    BY <1>1, <1>3
  <2> QED
    BY <1>0, <1>1, <1>5, <2>1, <2>2 DEF TimerTypeOK
<1>11. TimesOK'
  <2>1. \A n \in S : remain'[n] \in 0..MaxDelay /\ expire[n] = (ct + remain'[n]) % TimeSpan
    BY <1>3, <1>4
  <2> QED
    BY <1>1, <2>1 DEF TimesOK, S
<1>12. OrderOK'
  BY <1>0, <1>1 DEF OrderOK
<1>13. DispatchOK'
  BY <1>1, <1>2, EmptyMembers DEF DispatchOK
<1>14. ThreadOK'
  BY <1>0, <1>1 DEF ThreadOK
<1> QED
  BY <1>9, <1>10, <1>11, <1>12, <1>13, <1>14 DEF TimerInv

-----------------------------------------------------------------------------
(* The theorems.                                                           *)

LEMMA NextTimer == TimerInv /\ [Next]_vars => TimerInv'
<1> SUFFICES ASSUME TimerInv, [Next]_vars PROVE TimerInv'
  OBVIOUS
<1>1. ASSUME NEW n \in Timer, NEW d \in 1..MaxDelay, Add(n, d) PROVE TimerInv'
  BY <1>1, AddTimer
<1>2. CASE Unlink
  BY <1>2, UnlinkTimer
<1>3. CASE Deliver
  BY <1>3, DeliverTimer
<1>4. CASE Shift
  BY <1>4, ShiftTimer
<1>5. CASE UNCHANGED vars \/ Clock \/ UpdateTime \/ Update \/ Relock \/ EndFirst \/ EndSecond
  BY <1>5, QuietTimer
<1> QED
  BY <1>1, <1>2, <1>3, <1>4, <1>5 DEF Next, TimerThread

\* The inductive invariant of the wheel: at every time each timer is in the
\* slot from which timer_shift will bring it down in time.
THEOREM TimersLinked == Spec => []TimerInv
  BY InitTimer, NextTimer, PTL DEF Spec

\* A timer of the near wheel is where it belongs, and so is one of a level.
LEMMA PlaceInWheel ==
  ASSUME TimerInv, NEW i \in Stages, NEW s \in SlotsOf(i), NEW k \in 1..Len(ListAt(Wheel, i, s))
  PROVE  /\ ListAt(Wheel, i, s)[k] \in InWheel
         /\ InSpot(time, remain[ListAt(Wheel, i, s)[k]], i, s)
         /\ \A l \in 1..Len(ListAt(Wheel, i, s)) : ListAt(Wheel, i, s)[l] = ListAt(Wheel, i, s)[k] => l = k
<1> DEFINE list == ListAt(Wheel, i, s)
<1>0. Linked(Wheel, InWheel, time, remain, order)
  BY DEF TimerInv
<1>1. ListOK(list, InWheel, time, remain, order, i, s)
  BY <1>0 DEF Linked
<1>2. Len(list) \in Nat
  <2>1. list \in Seq(Timer)
    BY <1>0, ListType DEF Linked
  <2> HIDE DEF list
  <2> QED
    BY <2>1, LenProperties
<1> HIDE DEF list
<1>3. \A l \in 1..Len(list) : l < k \/ k < l \/ l = k
  BY <1>2 DEF list
<1>4. k \in 1..Len(list)
  BY DEF list
<1>5. list[k] \in InWheel /\ InSpot(time, remain[list[k]], i, s)
  BY <1>1, <1>4 DEF ListOK
<1>6. \A l \in 1..Len(list) : list[l] = list[k] => l = k
  BY <1>1, <1>3, <1>4 DEF ListOK
<1> QED
  BY <1>5, <1>6 DEF list

\* What a place of a timer is.
LEMMA PlacesAre ==
  ASSUME NEW n, NEW p
  PROVE  p \in Places(n) <=>
           \/ \E s \in Slots : \E k \in 1..Len(near[s]) : near[s][k] = n /\ p = <<"near", s, k>>
           \/ \E i \in Levels, s \in LevelSlots : \E k \in 1..Len(t[i][s]) :
                t[i][s][k] = n /\ p = <<"level", i, s, k>>
           \/ \E k \in 1..Len(dispatch) : dispatch[k] = n /\ p = <<"dispatch", k>>
<1> DEFINE N == UNION {{<<"near", s, k>> : k \in In(n, near[s])} : s \in Slots}
           Q(i, s) == {<<"level", i, s, k>> : k \in In(n, t[i][s])}
           L == UNION {Q(i, s) : i \in Levels, s \in LevelSlots}
           D == {<<"dispatch", k>> : k \in In(n, dispatch)}
<1>0. \A list : \A k : k \in In(n, list) <=> k \in 1..Len(list) /\ list[k] = n
  BY DEF In
<1>1. p \in N <=> \E s \in Slots : \E k \in In(n, near[s]) : p = <<"near", s, k>>
  OBVIOUS
<1>2. p \in L <=> \E i \in Levels, s \in LevelSlots : \E k \in In(n, t[i][s]) : p = <<"level", i, s, k>>
  <2>1. \A i, s : p \in Q(i, s) <=> \E k \in In(n, t[i][s]) : p = <<"level", i, s, k>>
    BY Zenon
  <2> HIDE DEF Q
  <2>2. p \in L <=> \E i \in Levels, s \in LevelSlots : p \in Q(i, s)
    <3>1. ASSUME p \in L PROVE \E i \in Levels, s \in LevelSlots : p \in Q(i, s)
      <4>1. PICK q \in {Q(i, s) : i \in Levels, s \in LevelSlots} : p \in q
        BY <3>1
      <4> QED
        BY <4>1
    <3>2. ASSUME NEW i \in Levels, NEW s \in LevelSlots, p \in Q(i, s) PROVE p \in L
      <4>1. Q(i, s) \in {Q(j, u) : j \in Levels, u \in LevelSlots}
        OBVIOUS
      <4> QED
        BY <3>2, <4>1
    <3> QED
      BY <3>1, <3>2
  <2> QED
    BY <2>1, <2>2
<1>3. p \in D <=> \E k \in In(n, dispatch) : p = <<"dispatch", k>>
  BY Zenon
<1>4. Places(n) = N \cup L \cup D
  BY DEF Places
<1> HIDE DEF N, L, D
<1>5. p \in N <=> \E s \in Slots : \E k \in 1..Len(near[s]) : near[s][k] = n /\ p = <<"near", s, k>>
  BY <1>0, <1>1, Zenon
<1>6. p \in L <=> \E i \in Levels, s \in LevelSlots : \E k \in 1..Len(t[i][s]) :
                    t[i][s][k] = n /\ p = <<"level", i, s, k>>
  BY <1>0, <1>2, Zenon
<1>7. p \in D <=> \E k \in 1..Len(dispatch) : dispatch[k] = n /\ p = <<"dispatch", k>>
  BY <1>0, <1>3, Zenon
<1> QED
  BY <1>4, <1>5, <1>6, <1>7, Zenon

\* Places of the lists of the wheel, stage by stage.
PlaceOf(i, s, k) == IF i = -1 THEN <<"near", s, k>> ELSE <<"level", i, s, k>>

LEMMA PlacesOfStages ==
  ASSUME NEW n, NEW p
  PROVE  p \in Places(n) <=>
           \/ \E i \in Stages : \E s \in SlotsOf(i) : \E k \in 1..Len(ListAt(Wheel, i, s)) :
                ListAt(Wheel, i, s)[k] = n /\ p = PlaceOf(i, s, k)
           \/ \E k \in 1..Len(dispatch) : dispatch[k] = n /\ p = <<"dispatch", k>>
<1>1. Stages = Levels \cup {-1} /\ -1 \notin Levels
  BY DEF Stages, Levels
<1>2. SlotsOf(-1) = Slots /\ \A i \in Levels : SlotsOf(i) = LevelSlots
  BY <1>1 DEF SlotsOf, Width, Slots, LevelSlots
<1>3. /\ \A s : ListAt(Wheel, -1, s) = near[s]
      /\ \A i \in Levels : \A s : ListAt(Wheel, i, s) = t[i][s]
  BY <1>1 DEF ListAt, Wheel
<1>4. /\ \A s, k : PlaceOf(-1, s, k) = <<"near", s, k>>
      /\ \A i \in Levels : \A s, k : PlaceOf(i, s, k) = <<"level", i, s, k>>
  BY <1>1 DEF PlaceOf
<1>5. (\E i \in Stages : \E s \in SlotsOf(i) : \E k \in 1..Len(ListAt(Wheel, i, s)) :
          ListAt(Wheel, i, s)[k] = n /\ p = PlaceOf(i, s, k))
      <=> \/ \E s \in Slots : \E k \in 1..Len(near[s]) : near[s][k] = n /\ p = <<"near", s, k>>
          \/ \E i \in Levels : \E s \in LevelSlots : \E k \in 1..Len(t[i][s]) :
               t[i][s][k] = n /\ p = <<"level", i, s, k>>
  <2> DEFINE A(i) == \E s \in SlotsOf(i) : \E k \in 1..Len(ListAt(Wheel, i, s)) :
                       ListAt(Wheel, i, s)[k] = n /\ p = PlaceOf(i, s, k)
  <2>1. A(-1) <=> \E s \in Slots : \E k \in 1..Len(near[s]) : near[s][k] = n /\ p = <<"near", s, k>>
    BY <1>2, <1>3, <1>4
  <2>2. ASSUME NEW i \in Levels
        PROVE  A(i) <=> \E s \in LevelSlots : \E k \in 1..Len(t[i][s]) :
                          t[i][s][k] = n /\ p = <<"level", i, s, k>>
    BY <1>2, <1>3, <1>4
  <2> HIDE DEF A
  <2>3. (\E i \in Stages : A(i)) <=> A(-1) \/ \E i \in Levels : A(i)
    BY <1>1
  <2> QED
    BY <2>1, <2>2, <2>3, Zenon DEF A
<1> QED
  BY <1>5, PlacesAre

\* A timer that is set is in one place, another one in none.
LEMMA InOnePlace ==
  ASSUME TimerInv
  PROVE  LinkedOnce
<1> SUFFICES ASSUME NEW n \in Timer
             PROVE  Cardinality(Places(n)) = IF IsSet(n) THEN 1 ELSE 0
  BY DEF LinkedOnce
<1>0. TimerTypeOK /\ Linked(Wheel, InWheel, time, remain, order) /\ DispatchOK
  BY DEF TimerInv
<1>1. IsSet(n) <=> n \in Members(order)
  BY SetIs
<1>2. CASE n \notin Members(order)
  <2>1. Places(n) = {}
    <3> SUFFICES ASSUME NEW p \in Places(n) PROVE FALSE
      OBVIOUS
    <3>1. ASSUME NEW i \in Stages, NEW s \in SlotsOf(i), NEW k \in 1..Len(ListAt(Wheel, i, s)),
                 ListAt(Wheel, i, s)[k] = n
          PROVE  FALSE
      BY <1>2, <3>1, PlaceInWheel DEF InWheel
    <3>2. ASSUME NEW k \in 1..Len(dispatch), dispatch[k] = n PROVE FALSE
      BY <1>0, <1>2, <3>2 DEF DispatchOK
    <3> QED
      BY <3>1, <3>2, PlacesOfStages
  <2> QED
    BY <1>1, <1>2, <2>1, FS_EmptySet
<1>3. CASE n \in Members(dispatch)
  <2>1. PICK k \in 1..Len(dispatch) : dispatch[k] = n
    BY <1>3 DEF Members
  <2>2. n \in Members(order) /\ n \notin InWheel
    BY <1>0, <1>3, <2>1 DEF DispatchOK, InWheel
  <2>3. ASSUME NEW l \in 1..Len(dispatch), dispatch[l] = n PROVE l = k
    <3>1. Len(dispatch) \in Nat
      BY <1>0, LenProperties DEF TimerTypeOK
    <3>2. l < k \/ k < l \/ l = k
      BY <3>1
    <3> QED
      BY <1>0, <2>1, <2>3, <3>2 DEF DispatchOK
  <2>4. ASSUME NEW i \in Stages, NEW s \in SlotsOf(i), NEW l \in 1..Len(ListAt(Wheel, i, s)),
               ListAt(Wheel, i, s)[l] = n
        PROVE  FALSE
    BY <2>2, <2>4, PlaceInWheel
  <2>5. Places(n) = {<<"dispatch", k>>}
    <3>1. ASSUME NEW p \in Places(n) PROVE p = <<"dispatch", k>>
      BY <2>3, <2>4, PlacesOfStages
    <3>2. <<"dispatch", k>> \in Places(n)
      BY <2>1, PlacesOfStages
    <3> QED
      BY <3>1, <3>2
  <2> QED
    BY <1>1, <2>2, <2>5, FS_Singleton
<1>4. CASE n \in InWheel
  <2>a. PICK j \in Stages : \E u \in SlotsOf(j) : \E k \in 1..Len(ListAt(Wheel, j, u)) : ListAt(Wheel, j, u)[k] = n
    BY <1>0, <1>4 DEF Linked
  <2>b. PICK u \in SlotsOf(j) : \E k \in 1..Len(ListAt(Wheel, j, u)) : ListAt(Wheel, j, u)[k] = n
    BY <2>a
  <2>c. PICK k \in 1..Len(ListAt(Wheel, j, u)) : ListAt(Wheel, j, u)[k] = n
    BY <2>b
  <2>0. time \in Nat /\ remain[n] \in Nat /\ n \in Members(order) /\ n \notin Members(dispatch)
    BY <1>0, <1>4 DEF Linked, InWheel
  <2>1. ASSUME NEW i \in Stages, NEW s \in SlotsOf(i), NEW l \in 1..Len(ListAt(Wheel, i, s)),
               ListAt(Wheel, i, s)[l] = n
        PROVE  PlaceOf(i, s, l) = PlaceOf(j, u, k)
    <3>1. InSpot(time, remain[n], i, s) /\ InSpot(time, remain[n], j, u)
      BY <2>c, <2>1, PlaceInWheel
    <3>2. i = j /\ s = u
      BY <2>0, <3>1, SpotUnique
    <3>3. l = k
      BY <2>c, <2>1, <3>2, PlaceInWheel
    <3> QED
      BY <3>2, <3>3
  <2>2. ASSUME NEW l \in 1..Len(dispatch), dispatch[l] = n PROVE FALSE
    BY <2>0, <2>2 DEF Members
  <2>3. Places(n) = {PlaceOf(j, u, k)}
    <3>1. ASSUME NEW p \in Places(n) PROVE p = PlaceOf(j, u, k)
      BY <2>1, <2>2, PlacesOfStages
    <3>2. PlaceOf(j, u, k) \in Places(n)
      BY <2>c, PlacesOfStages
    <3> QED
      BY <3>1, <3>2
  <2> QED
    BY <1>1, <2>0, <2>3, FS_Singleton
<1> QED
  BY <1>2, <1>3, <1>4 DEF InWheel

\* What the invariant says of the timers.
LEMMA InvOnTime == TimerInv => OnTime
<1> SUFFICES ASSUME TimerInv PROVE OnTime
  OBVIOUS
<1>0. TimerTypeOK /\ TimesOK /\ DispatchOK
  BY DEF TimerInv
<1>1. LinkedOnce
  BY InOnePlace
<1>2. \A k \in 1..Len(dispatch) : remain[dispatch[k]] = 0
  BY <1>0 DEF DispatchOK
<1>3. ASSUME NEW n \in Timer, IsSet(n) PROVE remain[n] >= (IF pc = "exec2" THEN 0 ELSE 1)
  <2>1. remain[n] \in 0..MaxDelay /\ (pc # "exec2" => remain[n] # 0)
    BY <1>0, <1>3, SetIs DEF TimesOK
  <2> QED
    BY <2>1, DelayAssumption
<1> QED
  BY <1>0, <1>1, <1>2, <1>3 DEF OnTime

\* Every timer fires in the tick it was set for, not one early and not one
\* late, and until then it is linked in exactly one place: for every number of
\* timers, every geometry of the wheel and across the wrap of its time
\* (timer_add, timer_shift, move_list, timer_execute).
THEOREM TimersOnTime == Spec => []OnTime
  BY TimersLinked, InvOnTime, PTL

\* A timer that fires is the oldest of those that are due.
LEMMA StepInOrder ==
  ASSUME TimerInv, Next, NEW n \in Timer, IsSet(n), ~IsSet(n)',
         NEW k \in 1..Len(order), order[k] = n, NEW j \in 1..k - 1
  PROVE  remain[order[j]] # 0
<1>0. TimerTypeOK /\ OrderOK /\ DispatchOK
  BY DEF TimerInv
<1>1. Len(order) \in Nat /\ order \in Seq(Timer) /\ dispatch \in Seq(Timer)
  BY <1>0, LenProperties DEF TimerTypeOK
<1>2. order' # order
  BY DEF IsSet
<1>3. Deliver
  <2>1. ASSUME NEW m \in Timer, NEW d \in 1..MaxDelay, Add(m, d) PROVE FALSE
    <3>1. order' = Append(order, m)
      BY <2>1 DEF Add
    <3>2. n \in Members(order')
      BY <1>1, <3>1, AppendOrder, SetIs
    <3> QED
      BY <3>2 DEF IsSet, Members
  <2>2. order' = order \/ Deliver
    BY <2>1 DEF Next, TimerThread, Clock, UpdateTime, Update, Unlink, Relock, EndFirst, Shift, EndSecond
  <2> QED
    BY <1>2, <2>2
<1>4. dispatch # <<>> /\ order' = Without(Head(dispatch))
  BY <1>3 DEF Deliver
<1>5. Len(dispatch) \in Nat \ {0} /\ Head(dispatch) = dispatch[1]
  BY <1>1, <1>4, EmptySeq, HeadTailProperties
<1>6. dispatch[1] \in Members(order)
  BY <1>0, <1>5 DEF DispatchOK
<1>7. n = dispatch[1]
  <2>1. Members(order') = Members(order) \ {dispatch[1]}
    BY <1>0, <1>1, <1>4, <1>5, <1>6, WithoutIs DEF OrderOK
  <2>2. n \in Members(order) /\ n \notin Members(order')
    BY SetIs DEF IsSet, Members
  <2> QED
    BY <2>1, <2>2
<1> SUFFICES ASSUME remain[order[j]] = 0 PROVE FALSE
  OBVIOUS
<1>8. j \in 1..Len(order) /\ j < k /\ order[j] \in Members(order)
  BY <1>1 DEF Members
<1>9. order[j] \in Members(dispatch)
  BY <1>0, <1>4, <1>8 DEF DispatchOK, InWheel
<1>10. PICK l \in 1..Len(dispatch) : dispatch[l] = order[j]
  BY <1>9 DEF Members
<1>11. order[j] # order[k]
  BY <1>0, <1>8 DEF OrderOK
<1>12. 1 < l /\ 1 \in 1..Len(dispatch)
  <2>1. l # 1
    BY <1>7, <1>10, <1>11
  <2> QED
    BY <1>5, <2>1
<1>13. Before(order, order[k], order[j])
  BY <1>0, <1>7, <1>10, <1>12 DEF DispatchOK
<1>14. PICK a \in 1..Len(order), b \in 1..Len(order) : a < b /\ order[a] = order[k] /\ order[b] = order[j]
  BY <1>13 DEF Before
<1>15. a = k /\ b = j
  <2>1. \A x, y \in 1..Len(order) : order[x] = order[y] => x = y
    <3> SUFFICES ASSUME NEW x \in 1..Len(order), NEW y \in 1..Len(order), order[x] = order[y] PROVE x = y
      OBVIOUS
    <3>1. x < y \/ y < x \/ x = y
      BY <1>1
    <3> QED
      BY <1>0, <3>1 DEF OrderOK
  <2> QED
    BY <1>8, <1>14, <2>1
<1> QED
  BY <1>8, <1>14, <1>15

\* Timers due in the same tick fire in the order they were set, through
\* whatever levels they came (link, move_list, dispatch_list).
THEOREM TimersInOrder == Spec => InOrder
<1>1. TimerInv /\ [Next]_vars =>
        [\A n \in Timer : IsSet(n) /\ ~IsSet(n)' =>
           \A k \in 1..Len(order) : order[k] = n => \A j \in 1..k - 1 : remain[order[j]] # 0]_vars
  <2> SUFFICES ASSUME TimerInv, Next, NEW n \in Timer, IsSet(n), ~IsSet(n)',
                      NEW k \in 1..Len(order), order[k] = n, NEW j \in 1..k - 1
               PROVE  remain[order[j]] # 0
    OBVIOUS
  <2> QED
    BY StepInOrder
<1> QED
  BY <1>1, TimersLinked, PTL DEF Spec, InOrder
=============================================================================
