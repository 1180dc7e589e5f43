---------------------------- MODULE MQRingProofs ----------------------------
(***************************************************************************)
(* The ring buffer of a message queue implements the first-in first-out    *)
(* queue MQFifo, for every initial size, every set of messages and any     *)
(* number of pushes.                                                       *)
(***************************************************************************)
EXTENDS MQRing, WellFoundedInduction, TLAPS

\* Inductive invariant: the ends are in the array, what lies between them has
\* been pushed, and pushes and pops account for the length.
RingInv ==
  /\ cap \in Nat \ {0}
  /\ head \in 0..cap - 1 /\ tail \in 0..cap - 1
  /\ queue \in [0..cap - 1 -> Payload \cup {Garbage}]
  /\ popped \in Seq(Payload) /\ pushes \in Nat
  /\ \A i \in 1..Length : queue[Place(i)] \in Payload
  /\ pushes = Len(popped) + Length

\* The remainder that expand_queue computes, of a number less than twice the
\* divisor.
LEMMA ModCap ==
  ASSUME NEW c \in Nat \ {0}, NEW x \in Nat, x < 2 * c
  PROVE  x % c = IF x < c THEN x ELSE x - c
  BY SMT

\* The length is less than the capacity, and the places are in the array.
LEMMA PlaceIn ==
  ASSUME RingInv
  PROVE  /\ Length \in 0..cap - 1
         /\ \A i \in 1..Length : Place(i) \in 0..cap - 1 /\ Place(i) # tail
         /\ Contents \in Seq(Payload) /\ Len(Contents) = Length
<1>1. Length \in 0..cap - 1
  BY DEF RingInv, Length
<1>2. \A i \in 1..Length : Place(i) \in 0..cap - 1 /\ Place(i) # tail
  BY DEF RingInv, Length, Place
<1>3. Contents \in Seq(Payload) /\ Len(Contents) = Length
  BY <1>1 DEF RingInv, Contents
<1> QED
  BY <1>1, <1>2, <1>3

\* The same of the next state.
LEMMA PlaceInNext == RingInv' => (Contents \in Seq(Payload) /\ Len(Contents) = Length)'
<1>1. RingInv => Contents \in Seq(Payload) /\ Len(Contents) = Length
  BY PlaceIn
<1> QED
  BY <1>1, PTL

\* A sequence that continues s with m.
LEMMA IsAppend ==
  ASSUME NEW s \in Seq(Payload), NEW m \in Payload, NEW r \in Seq(Payload),
         Len(r) = Len(s) + 1, \A i \in 1..Len(s) : r[i] = s[i], r[Len(s) + 1] = m
  PROVE  r = Append(s, m)
  OBVIOUS

\* skynet_mq_create makes an empty queue.
LEMMA InitRing == Init => RingInv /\ Fifo!FifoInit
<1> SUFFICES ASSUME Init PROVE RingInv /\ Fifo!FifoInit
  OBVIOUS
<1>1. Length = 0
  BY DEF Init, Length
<1>2. Contents = <<>>
  BY <1>1 DEF Contents
<1> QED
  BY <1>1, <1>2, SizeAssumption DEF Init, RingInv, Fifo!FifoInit

\* A push that leaves room appends the message (skynet_mq_push).
LEMMA PushRoom ==
  ASSUME RingInv, NEW m \in Payload, Push(m), head # Wrap(tail)
  PROVE  RingInv' /\ Contents' = Append(Contents, m) /\ popped' = popped
<1>1. /\ queue' = [queue EXCEPT ![tail] = m] /\ tail' = Wrap(tail)
      /\ head' = head /\ cap' = cap /\ popped' = popped /\ pushes' = pushes + 1
  BY DEF Push
<1>2. tail' \in 0..cap - 1 /\ Length' = Length + 1
  BY <1>1 DEF RingInv, Wrap, Length
<1>3. \A i \in 1..Length : Place(i)' = Place(i) /\ queue'[Place(i)] = queue[Place(i)]
  BY <1>1, PlaceIn DEF RingInv, Place
<1>4. \A i \in 1..Length + 1 : i = Length + 1 => Place(i)' = tail
  BY <1>1, PlaceIn DEF RingInv, Place, Length
<1>5. queue' \in [0..cap - 1 -> Payload \cup {Garbage}] /\ queue'[tail] = m
  BY <1>1 DEF RingInv
<1>6. \A i \in 1..Length + 1 :
        queue'[Place(i)'] = IF i = Length + 1 THEN m ELSE queue[Place(i)]
  BY <1>3, <1>4, <1>5, PlaceIn
<1>7. RingInv'
  <2>1. \A i \in 1..Length + 1 : queue'[Place(i)'] \in Payload
    BY <1>6 DEF RingInv
  <2>2. pushes' = Len(popped') + Length' /\ pushes' \in Nat
    BY <1>1, <1>2, PlaceIn DEF RingInv
  <2> QED
    BY <1>1, <1>2, <1>5, <2>1, <2>2 DEF RingInv
<1>8. Contents' = Append(Contents, m)
  <2>1. Contents' \in Seq(Payload) /\ Len(Contents') = Length + 1
    BY <1>2, <1>7, PlaceIn, PlaceInNext
  <2>2. \A i \in 1..Length + 1 : Contents'[i] = IF i = Length + 1 THEN m ELSE queue[Place(i)]
    BY <1>2, <1>6 DEF Contents
  <2>3. \A i \in 1..Length : Contents'[i] = Contents[i]
    BY <2>2, PlaceIn DEF Contents
  <2>4. Contents'[Length + 1] = m
    BY <2>2, PlaceIn
  <2> QED
    BY <2>1, <2>3, <2>4, PlaceIn, IsAppend
<1> QED
  BY <1>1, <1>7, <1>8

\* A push that fills the array appends the message, and the array is copied
\* so that the oldest message comes first (expand_queue).
LEMMA PushGrow ==
  ASSUME RingInv, NEW m \in Payload, Push(m), head = Wrap(tail)
  PROVE  RingInv' /\ Contents' = Append(Contents, m) /\ popped' = popped
<1> DEFINE q == [queue EXCEPT ![tail] = m]
<1>1. queue' = [i \in 0..2 * cap - 1 |-> IF i < cap THEN q[(head + i) % cap] ELSE Garbage]
  BY DEF Push, expand_queue
<1>a. /\ head' = 0 /\ tail' = cap /\ cap' = 2 * cap
      /\ popped' = popped /\ pushes' = pushes + 1
  BY DEF Push, expand_queue
<1>2. Length = cap - 1 /\ Length' = cap
  BY <1>a DEF RingInv, Wrap, Length
<1>3. q \in [0..cap - 1 -> Payload \cup {Garbage}] /\ q[tail] = m
  BY DEF RingInv
<1>4. \A i \in 1..cap : Place(i)' = i - 1 /\ (head + (i - 1)) % cap = Place(i)
  <2> SUFFICES ASSUME NEW i \in 1..cap
               PROVE  Place(i)' = i - 1 /\ (head + (i - 1)) % cap = Place(i)
    OBVIOUS
  <2>1. Place(i)' = i - 1
    BY <1>a DEF RingInv, Place
  <2>2. head \in Nat /\ head + (i - 1) \in Nat /\ head + (i - 1) < 2 * cap /\ cap \in Nat \ {0}
    BY DEF RingInv
  <2>3. (head + (i - 1)) % cap = IF head + (i - 1) < cap THEN head + (i - 1) ELSE head + (i - 1) - cap
    <3>1. PICK x \in Nat : x = head + (i - 1)
      BY <2>2
    <3>2. x % cap = IF x < cap THEN x ELSE x - cap
      BY <2>2, <3>1, ModCap
    <3> QED
      BY <2>2, <3>1, <3>2
  <2>4. (head + (i - 1)) % cap = Place(i)
    BY <2>2, <2>3 DEF RingInv, Place
  <2> QED
    BY <2>1, <2>4
<1>5. Place(cap) = tail
  BY <1>2 DEF RingInv, Place, Wrap
<1>6. \A i \in 1..cap : queue'[Place(i)'] = q[Place(i)]
  <2> SUFFICES ASSUME NEW i \in 1..cap PROVE queue'[Place(i)'] = q[Place(i)]
    OBVIOUS
  <2>1. i - 1 \in 0..2 * cap - 1 /\ i - 1 < cap
    BY DEF RingInv
  <2>2. queue'[i - 1] = q[(head + (i - 1)) % cap]
    BY <1>1, <2>1
  <2> QED
    BY <2>2, <1>4
<1>7. \A i \in 1..cap : q[Place(i)] = IF i = Length + 1 THEN m ELSE queue[Place(i)]
  <2>1. \A i \in 1..Length : q[Place(i)] = queue[Place(i)]
    BY PlaceIn DEF RingInv
  <2> QED
    BY <2>1, <1>2, <1>3, <1>5 DEF RingInv
<1>8. queue' \in [0..2 * cap - 1 -> Payload \cup {Garbage}]
  <2>1. \A i \in 0..cap - 1 : (head + i) % cap \in 0..cap - 1
    BY DEF RingInv
  <2>2. \A i \in 0..2 * cap - 1 :
          (IF i < cap THEN q[(head + i) % cap] ELSE Garbage) \in Payload \cup {Garbage}
    <3> HIDE DEF q
    <3>1. \A i \in 0..cap - 1 : q[(head + i) % cap] \in Payload \cup {Garbage}
      BY <1>3, <2>1
    <3>2. \A i \in 0..2 * cap - 1 : i < cap => i \in 0..cap - 1
      BY DEF RingInv
    <3> QED
      BY <3>1, <3>2
  <2> QED
    BY <1>1, <2>2
<1>9. RingInv'
  <2>1. \A i \in 1..cap : queue'[Place(i)'] \in Payload
    BY <1>2, <1>6, <1>7, PlaceIn DEF RingInv
  <2>2. pushes' = Len(popped') + Length' /\ pushes' \in Nat
    BY <1>a, <1>2, PlaceIn DEF RingInv
  <2> QED
    BY <1>a, <1>2, <1>8, <2>1, <2>2 DEF RingInv
<1>10. Contents' = Append(Contents, m)
  <2>0. Length' = Length + 1
    BY <1>2 DEF RingInv
  <2>1. Contents' \in Seq(Payload) /\ Len(Contents') = Length + 1
    BY <2>0, <1>9, PlaceInNext
  <2>2. \A i \in 1..Length + 1 : Contents'[i] = IF i = Length + 1 THEN m ELSE queue[Place(i)]
    BY <1>2, <1>6, <1>7 DEF Contents, RingInv
  <2>3. \A i \in 1..Length : Contents'[i] = Contents[i]
    BY <2>2, PlaceIn DEF Contents
  <2>4. Contents'[Length + 1] = m
    BY <2>2, PlaceIn
  <2> QED
    BY <2>1, <2>3, <2>4, PlaceIn, IsAppend
<1> QED
  BY <1>a, <1>9, <1>10

\* A pop takes the oldest message (skynet_mq_pop).
LEMMA PopHead ==
  ASSUME RingInv, Pop
  PROVE  /\ RingInv' /\ Contents # <<>>
         /\ Contents' = Tail(Contents) /\ popped' = Append(popped, Head(Contents))
<1>1. /\ head # tail /\ head' = Wrap(head) /\ popped' = Append(popped, queue[head])
      /\ cap' = cap /\ tail' = tail /\ queue' = queue /\ pushes' = pushes
  BY DEF Pop
<1>2. head' \in 0..cap - 1 /\ Length \in Nat \ {0} /\ Length' = Length - 1
  BY <1>1 DEF RingInv, Wrap, Length
<1>3. Place(1) = head
  BY DEF RingInv, Place
<1>4. \A i \in 1..Length - 1 : Place(i)' = Place(i + 1)
  <2>1. cap \in Nat \ {0} /\ head \in 0..cap - 1 /\ Length \in 0..cap - 1
    BY PlaceIn DEF RingInv
  <2>2. CASE head + 1 >= cap
    <3>1. head' = 0 /\ cap' = cap /\ head = cap - 1
      BY <1>1, <2>1, <2>2 DEF Wrap
    <3> QED
      BY <2>1, <3>1 DEF Place
  <2>3. CASE ~(head + 1 >= cap)
    <3>1. head' = head + 1 /\ cap' = cap
      BY <1>1, <2>3 DEF Wrap
    <3> QED
      BY <2>1, <3>1 DEF Place
  <2> QED
    BY <2>2, <2>3
<1>5. queue[head] \in Payload
  BY <1>2, <1>3 DEF RingInv
<1>6. Contents # <<>> /\ Head(Contents) = queue[head]
  BY <1>2, <1>3, PlaceIn DEF Contents
<1>7. Contents' = Tail(Contents)
  <2>1. Contents' = [i \in 1..Length - 1 |-> queue[Place(i + 1)]]
    BY <1>1, <1>2, <1>4 DEF Contents
  <2>2. Tail(Contents) = [i \in 1..Length - 1 |-> queue[Place(i + 1)]]
    BY <1>2, PlaceIn DEF Contents
  <2> QED
    BY <2>1, <2>2
<1>8. RingInv'
  <2>1. popped' \in Seq(Payload) /\ Len(popped') = Len(popped) + 1
    BY <1>1, <1>5 DEF RingInv
  <2>2. \A i \in 1..Length' : queue'[Place(i)'] \in Payload
    BY <1>1, <1>2, <1>4 DEF RingInv
  <2> QED
    BY <1>1, <1>2, <2>1, <2>2 DEF RingInv
<1> QED
  BY <1>1, <1>6, <1>7, <1>8

\* The other steps leave the messages alone (skynet_mq_pop of an empty queue,
\* skynet_mq_overload).
LEMMA RingFrame ==
  ASSUME RingInv, PopEmpty \/ Overload \/ UNCHANGED ringVars
  PROVE  RingInv' /\ Contents' = Contents /\ popped' = popped
<1>1. UNCHANGED <<cap, head, tail, queue, popped, pushes>>
  BY DEF PopEmpty, Overload, ringVars
<1>2. Length' = Length /\ \A i : Place(i)' = Place(i)
  BY <1>1 DEF Length, Place
<1> QED
  BY <1>1, <1>2 DEF RingInv, Contents

\* Every step of the ring is a step of the queue MQFifo or leaves it unchanged.
LEMMA NextRing == RingInv /\ [Next]_ringVars => RingInv' /\ [Fifo!FifoNext]_Fifo!fifoVars
<1> SUFFICES ASSUME RingInv, [Next]_ringVars
             PROVE  RingInv' /\ [Fifo!FifoNext]_Fifo!fifoVars
  OBVIOUS
<1>1. ASSUME NEW m \in Payload, Push(m)
      PROVE  RingInv' /\ Contents' = Append(Contents, m) /\ popped' = popped
  BY <1>1, PushRoom, PushGrow
<1>2. CASE \E m \in Payload : Push(m)
  BY <1>1, <1>2 DEF Fifo!FifoNext, Fifo!FifoPush
<1>3. CASE Pop
  BY <1>3, PopHead DEF Fifo!FifoNext, Fifo!FifoPop
<1>4. CASE PopEmpty \/ Overload \/ UNCHANGED ringVars
  BY <1>4, RingFrame DEF Fifo!fifoVars
<1> QED
  BY <1>2, <1>3, <1>4 DEF Next

\* The array never fills up, so that skynet_mq_pop never takes a full queue
\* for an empty one, for every initial size and any number of pushes.
THEOREM RingNeverFull == Spec => []NeverFull
<1>1. RingInv => NeverFull
  BY PlaceIn DEF RingInv, NeverFull
<1>2. Spec => []RingInv
  BY InitRing, NextRing, PTL DEF Spec
<1> QED
  BY <1>1, <1>2, PTL

\* The ring of skynet_mq_push and skynet_mq_pop, growth included, implements
\* the first-in first-out queue, for every initial size and set of messages.
THEOREM RingRefinesFifo == Spec => RingIsFifo
  BY InitRing, NextRing, PTL DEF Spec, RingIsFifo, Fifo!FifoSpec
-----------------------------------------------------------------------------
(* The overload warning.                                                   *)

\* Every set of naturals that is not empty has a least member.
LEMMA LeastNat ==
  ASSUME NEW T \in SUBSET Nat, T # {}
  PROVE  \E x \in T : \A y \in T : x <= y
<1> DEFINE R == OpToRel(<, Nat)
<1>1. IsWellFoundedOn(R, Nat)
  BY NatLessThanWellFounded
<1>2. PICK x \in T : \A y \in T : ~(<<y, x>> \in R)
  <2> HIDE DEF R
  <2> QED
    BY <1>1, WFMin
<1>3. \A y \in T : ~(y < x)
  BY <1>2 DEF OpToRel
<1> QED
  BY <1>3

\* f computes the loop of skynet_mq_pop for the length len from every
\* threshold in S.
Computes(f, len, S) == \A t \in S : f[t] = IF len > t THEN f[2 * t] ELSE t

\* The loop ends whatever the threshold it starts from: a function that
\* computes it from len on can be continued downwards, one threshold at a time.
LEMMA LoopDefined ==
  ASSUME NEW len \in Nat
  PROVE  \E f : f = [t \in Nat \ {0} |-> IF len > t THEN f[2 * t] ELSE t]
<1> DEFINE From(n) == {t \in Nat \ {0} : t >= n}
           T == {n \in Nat : \E f \in [Nat \ {0} -> Nat] : Computes(f, len, From(n))}
<1>1. len \in T
  <2> DEFINE f == [t \in Nat \ {0} |-> t]
  <2>1. f \in [Nat \ {0} -> Nat] /\ Computes(f, len, From(len))
    BY DEF Computes
  <2> QED
    BY <2>1
<1>2. PICK n \in T : \A k \in T : n <= k
  <2> HIDE DEF T
  <2>1. T \in SUBSET Nat
    BY DEF T
  <2> QED
    BY <1>1, <2>1, LeastNat
<1>3. n <= 1
  <2>0. n \in Nat
    BY <1>2
  <2> SUFFICES ASSUME n > 1 PROVE n - 1 \in T
    <3> HIDE DEF T
    <3> QED
      BY <1>2, <2>0
  <2>1. PICK f \in [Nat \ {0} -> Nat] : Computes(f, len, From(n))
    OBVIOUS
  <2> DEFINE d == n - 1
             g == [f EXCEPT ![d] = IF len > d THEN f[2 * d] ELSE d]
  <2>2. d \in Nat \ {0} /\ g \in [Nat \ {0} -> Nat]
    OBVIOUS
  <2>3. \A t \in From(n) : g[t] = f[t] /\ 2 * t \in From(n) /\ g[2 * t] = f[2 * t]
    BY <2>2
  <2>4. g[d] = (IF len > d THEN f[2 * d] ELSE d) /\ 2 * d \in From(n)
    BY <2>2
  <2>5. \A t \in From(d) : t = d \/ t \in From(n)
    BY <2>2
  <2>6. g[2 * d] = f[2 * d]
    BY <2>3, <2>4
  <2> HIDE DEF g, d
  <2>7. Computes(g, len, From(d))
    BY <2>1, <2>3, <2>4, <2>5, <2>6 DEF Computes
  <2> QED
    BY <2>2, <2>7 DEF d
<1>4. PICK f \in [Nat \ {0} -> Nat] : Computes(f, len, From(n))
  OBVIOUS
<1>5. \A t \in Nat \ {0} : f[t] = IF len > t THEN f[2 * t] ELSE t
  BY <1>3, <1>4 DEF Computes
<1> QED
  BY <1>5

\* The loop of skynet_mq_pop ends with a threshold that covers the length and,
\* if it ran at all, is less than twice the length.
LEMMA DoubledBounds ==
  ASSUME NEW th \in Nat \ {0}, NEW len \in Nat
  PROVE  /\ Doubled(th, len) \in Nat \ {0} /\ len <= Doubled(th, len)
         /\ len <= th => Doubled(th, len) = th
         /\ len > th => Doubled(th, len) < 2 * len
<1> DEFINE F == CHOOSE f : f = [t \in Nat \ {0} |-> IF len > t THEN f[2 * t] ELSE t]
           Bound(t) == F[t] \in Nat \ {0} /\ len <= F[t] /\ (len > t => F[t] < 2 * len)
           T == {n \in Nat : n < len /\ ~Bound(len - n)}
<1>1. F = [t \in Nat \ {0} |-> IF len > t THEN F[2 * t] ELSE t]
  BY LoopDefined, Zenon
<1>2. Doubled(th, len) = F[th]
  BY Zenon DEF Doubled
<1> HIDE DEF F
<1>3. \A t \in Nat \ {0} : F[t] = IF len > t THEN F[2 * t] ELSE t
  BY <1>1
<1>4. \A t \in Nat \ {0} : t >= len => F[t] = t /\ Bound(t)
  BY <1>3
<1>5. T = {}
  <2> SUFFICES ASSUME T # {} PROVE FALSE
    OBVIOUS
  <2>1. PICK n \in T : \A k \in T : n <= k
    <3>1. T \in SUBSET Nat
      OBVIOUS
    <3> HIDE DEF T
    <3> QED
      BY <3>1, LeastNat
  <2> DEFINE t == len - n
  <2>2. n \in Nat /\ n < len /\ ~Bound(t) /\ t \in Nat \ {0} /\ t <= len
    OBVIOUS
  <2>3. t < len
    BY <2>2, <1>4
  <2>4. F[t] = F[2 * t] /\ 2 * t \in Nat \ {0}
    BY <1>3, <2>2, <2>3
  <2>5. CASE 2 * t >= len
    <3>1. F[2 * t] = 2 * t
      BY <1>4, <2>4, <2>5
    <3> QED
      BY <2>2, <2>3, <2>4, <2>5, <3>1
  <2>6. CASE 2 * t < len
    <3> DEFINE k == len - 2 * t
    <3>1. k \in Nat /\ k < len /\ k < n /\ len - k = 2 * t
      BY <2>2, <2>6
    <3>2. k \notin T
      <4> HIDE DEF T, k
      <4> QED
        BY <2>1, <2>2, <3>1
    <3>3. Bound(2 * t)
      BY <3>1, <3>2
    <3> QED
      BY <2>2, <2>4, <2>6, <3>3
  <2> QED
    BY <2>2, <2>5, <2>6
<1>6. \A t \in Nat \ {0} : Bound(t)
  <2> SUFFICES ASSUME NEW t \in Nat \ {0}, t < len PROVE Bound(t)
    BY <1>4
  <2>1. len - t \in Nat /\ len - t < len /\ len - (len - t) = t
    OBVIOUS
  <2> QED
    BY <1>5, <2>1
<1> QED
  BY <1>2, <1>4, <1>6

\* Inductive invariant of the warning: the threshold never falls below
\* MQ_OVERLOAD, which is why no shorter length is reported.
TrackInv ==
  /\ overload \in Nat /\ overload_threshold \in Nat \ {0} /\ longest \in Nat
  /\ MQ_OVERLOAD <= overload_threshold
  /\ longest <= overload_threshold
  /\ overload_threshold = MQ_OVERLOAD \/ overload_threshold < 2 * longest
  /\ overload # 0 => overload > MQ_OVERLOAD

\* A pop keeps it (skynet_mq_pop).
LEMMA PopTracks ==
  ASSUME RingInv, TrackInv, Pop
  PROVE  TrackInv'
<1> DEFINE len == Left(Wrap(head))
           th == overload_threshold
<1>1. len \in Nat
  BY DEF RingInv, Pop, Left, Wrap
<1>2. /\ overload' = IF len > th THEN len ELSE overload
      /\ overload_threshold' = Doubled(th, len)
      /\ longest' = IF len > longest THEN len ELSE longest
  BY DEF Pop
<1>3. th \in Nat \ {0} /\ MQ_OVERLOAD \in Nat \ {0}
  BY SizeAssumption DEF TrackInv
<1>4. /\ Doubled(th, len) \in Nat \ {0} /\ len <= Doubled(th, len)
      /\ len <= th => Doubled(th, len) = th
      /\ len > th => Doubled(th, len) < 2 * len
  <2> HIDE DEF len, th
  <2> QED
    BY <1>1, <1>3, DoubledBounds
<1> HIDE DEF len
<1>5. CASE len <= th
  BY <1>1, <1>2, <1>3, <1>4, <1>5 DEF TrackInv
<1>6. CASE len > th
  BY <1>1, <1>2, <1>3, <1>4, <1>6 DEF TrackInv
<1> QED
  BY <1>1, <1>3, <1>5, <1>6

\* The threshold of the overload warning keeps pace with the queue, for every
\* MQ_OVERLOAD and any length: it covers every length a pop has seen since the
\* queue was last empty and is less than twice the greatest of them, and no
\* length up to MQ_OVERLOAD is reported (skynet_mq_pop, skynet_mq_overload).
THEOREM ThresholdKeepsPace == Spec => []ThresholdTracks
<1>1. Init => TrackInv
  BY SizeAssumption DEF Init, TrackInv
<1>2. RingInv /\ TrackInv /\ [Next]_ringVars => TrackInv'
  <2> SUFFICES ASSUME RingInv, TrackInv, [Next]_ringVars PROVE TrackInv'
    OBVIOUS
  <2>1. CASE \E m \in Payload : Push(m)
    BY <2>1 DEF Push, TrackInv
  <2>2. CASE Pop
    BY <2>2, PopTracks
  <2>3. CASE PopEmpty
    BY <2>3, SizeAssumption DEF PopEmpty, TrackInv
  <2>4. CASE Overload
    BY <2>4 DEF Overload, TrackInv
  <2>5. CASE UNCHANGED ringVars
    BY <2>5 DEF ringVars, TrackInv
  <2> QED
    BY <2>1, <2>2, <2>3, <2>4, <2>5 DEF Next
<1>3. RingInv /\ TrackInv => ThresholdTracks
  BY DEF RingInv, TrackInv, ThresholdTracks, RingTypeOK
<1> QED
  BY <1>1, <1>2, <1>3, InitRing, NextRing, PTL DEF Spec
=============================================================================
