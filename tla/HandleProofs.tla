---------------------------- MODULE HandleProofs ----------------------------
(***************************************************************************)
(* The handle storage, for every initial size and every number of handles  *)
(* that doubling reaches: a handle is not given again before the index has *)
(* gone round, and with one launch at a time the table is exact whatever   *)
(* was registered, retired and moved.  Names are found by the binary       *)
(* search, last until their handle is retired and end with its retirement; *)
(* the two loops over the name array are shown to compute what they should *)
(* by a least counterexample.  The last part is about the lock that makes  *)
(* each operation one step.                                                *)
(***************************************************************************)
EXTENDS SkynetHandle, RWLock, FiniteSetTheorems, SequenceTheorems, WellFoundedInduction, TLAPS

\* The table can be addressed, and the handles given since the index last
\* wrapped are below the index.
TableInv ==
  /\ HandleTypeOK
  /\ lap \subseteq {Remote + h : h \in 0..handle_index - 1}

\* A context that skynet_handle_register has put in the table.
Placed(c) == launch[c] = "live" \/ (launch[c] = "new" /\ ~failed)

\* The table holds the contexts that were placed, each where its handle says.
Sorted(table, size) ==
  /\ \A i \in 0..size - 1 : table[i] # NULL => Placed(table[i]) /\ given[table[i]] % size = i
  /\ \A c \in Ctx : Placed(c) => given[c] \in Handles /\ table[given[c] % size] = c

\* What holds in addition when services are launched one at a time.
ExactInv ==
  /\ Sorted(slot, slot_size)
  /\ \A c \in Ctx : handle[c] = IF launch[c] = "live" THEN given[c] ELSE 0
  /\ \A c, d \in Ctx : launch[c] = "new" /\ launch[d] = "new" => c = d
  /\ FailsOnlyWhenFull

-----------------------------------------------------------------------------
(* Remainders.                                                             *)

\* The remainder of a number given by quotient and remainder.
LEMMA ModUnique ==
  ASSUME NEW s \in Nat \ {0}, NEW q \in Int, NEW r \in 0..s - 1
  PROVE  (q * s + r) % s = r
  BY Z3

\* Every natural number has a quotient and a remainder.
LEMMA DivMod ==
  ASSUME NEW s \in Nat \ {0}, NEW h \in Nat
  PROVE  \E q \in Nat, r \in 0..s - 1 : h = q * s + r /\ h % s = r
<1> DEFINE q == h \div s
           r == h % s
<1>1. h = (s * (h \div s)) + (h % s) /\ h % s \in 0..s - 1 /\ h \div s \in Nat
  BY Z3
<1>2. q \in Nat /\ r \in 0..s - 1 /\ h = s * q + r /\ h % s = r
  BY <1>1
<1> HIDE DEF q, r
<1>3. h = q * s + r
  BY <1>2, Z3
<1> QED
  BY <1>2, <1>3, Zenon

\* Adding a multiple of the divisor leaves the remainder alone.
LEMMA ModShift ==
  ASSUME NEW s \in Nat \ {0}, NEW k \in Nat, NEW h \in Nat
  PROVE  (k * s + h) % s = h % s
<1>1. PICK q \in Nat, r \in 0..s - 1 : h = q * s + r /\ h % s = r
  BY DivMod
<1>2. k * s + (q * s + r) = (k + q) * s + r
  BY Z3
<1>3. ((k + q) * s + r) % s = r
  <2>1. k + q \in Int
    OBVIOUS
  <2> QED
    BY <2>1, ModUnique
<1>4. (k * s + (q * s + r)) % s = r
  BY <1>2, <1>3, Zenon
<1> QED
  BY <1>1, <1>4, Zenon

\* Masking with the handles and then with a table is masking with the table.
LEMMA ModMod ==
  ASSUME NEW s \in Nat \ {0}, NEW k \in Nat \ {0}, NEW h \in Nat
  PROVE  (h % (k * s)) % s = h % s
<1>0. k * s \in Nat \ {0}
  BY Z3
<1>1. PICK q \in Nat, r \in 0..(k * s) - 1 : h = q * (k * s) + r /\ h % (k * s) = r
  BY <1>0, DivMod
<1>2. q * (k * s) = (q * k) * s /\ q * k \in Nat
  <2>1. q * k \in Nat
    BY Z3
  <2>2. q * (k * s) = (q * k) * s
    BY Z3
  <2> QED
    BY <2>1, <2>2, Zenon
<1>3. r \in Nat
  BY <1>0
<1>4. ((q * k) * s + r) % s = r % s
  BY <1>2, <1>3, ModShift, Zenon
<1>5. (q * (k * s) + r) % s = r % s
  BY <1>2, <1>4, Zenon
<1> QED
  BY <1>1, <1>5, Zenon

\* A remainder is less than the divisor.
LEMMA ModRange ==
  ASSUME NEW s \in Nat \ {0}, NEW h \in Nat
  PROVE  h % s \in 0..s - 1
  BY Z3

\* The remainder of a number less than twice the divisor.
LEMMA ModOnce ==
  ASSUME NEW s \in Nat \ {0}, NEW x \in Nat, x < 2 * s
  PROVE  x % s = IF x < s THEN x ELSE x - s
  BY SMT

-----------------------------------------------------------------------------
(* Sizes and candidates.                                                   *)

\* A set of naturals that is not empty has a least element.
LEMMA LeastOf ==
  ASSUME NEW T \in SUBSET Nat, T # {}
  PROVE  \E x \in T : \A y \in T : x <= y
<1> DEFINE R == OpToRel(<, Nat)
<1>1. IsWellFoundedOn(R, Nat)
  BY NatLessThanWellFounded
<1>2. PICK x \in T : \A y \in T : ~(<<y, x>> \in R)
  <2> HIDE DEF R
  <2> QED
    BY <1>1, WFMin
<1>3. \A y \in T : ~(y < x)
  BY <1>2 DEF OpToRel
<1> QED
  BY <1>3

\* Min of such a set is one of its elements.
LEMMA MinOfSet ==
  ASSUME NEW T \in SUBSET Nat, T # {}
  PROVE  Min(T) \in T
<1>1. PICK x \in T : \A y \in T : x <= y
  BY LeastOf
<1> QED
  BY <1>1 DEF Min

\* The powers of two are positive, and one that is not 1 is twice another.
LEMMA Powers ==
  ASSUME NEW p \in PowersOfTwo
  PROVE  p \in Nat \ {0} /\ (p # 1 => \E q \in PowersOfTwo : p = 2 * q)
  BY DEF PowersOfTwo

\* The table divides the handles.
Divides(size, p) ==
  size \in Nat \ {0} /\ p \in Nat \ {0} /\ p * size = HANDLE_MASK + 1

\* A table that divides the handles is not larger.
LEMMA DividesLess ==
  ASSUME NEW size, NEW p, Divides(size, p)
  PROVE  /\ HANDLE_MASK \in Nat /\ HANDLE_MASK + 1 \in Nat \ {0}
         /\ size <= HANDLE_MASK + 1
<1>1. size \in Nat \ {0} /\ p \in Nat \ {0} /\ p * size = HANDLE_MASK + 1
  BY DEF Divides
<1>2. p * size >= size
  BY <1>1, Z3
<1> QED
  BY <1>1, <1>2, MaskAssumption

\* Candidate wraps at most once.
LEMMA CandidateOnce ==
  ASSUME HandleTypeOK, NEW size, NEW p, Divides(size, p), NEW i \in 0..size - 1
  PROVE  /\ i \in Nat /\ Candidate(i) \in 0..HANDLE_MASK
         /\ Candidate(i) = IF i + handle_index > HANDLE_MASK
                           THEN i + handle_index - (HANDLE_MASK + 1) ELSE i + handle_index
<1>1. /\ HANDLE_MASK \in Nat /\ HANDLE_MASK + 1 \in Nat \ {0}
      /\ size <= HANDLE_MASK + 1 /\ size \in Nat \ {0}
  BY DividesLess DEF Divides
<1>2. handle_index \in 1..HANDLE_MASK + 1
  BY DEF HandleTypeOK
<1>3. i + handle_index \in Nat /\ i + handle_index < 2 * (HANDLE_MASK + 1)
  BY <1>1, <1>2
<1>4. Candidate(i) = IF i + handle_index < HANDLE_MASK + 1 THEN i + handle_index
                     ELSE i + handle_index - (HANDLE_MASK + 1)
  <2> DEFINE x == i + handle_index
             m == HANDLE_MASK + 1
  <2>1. x \in Nat /\ m \in Nat \ {0} /\ x < 2 * m
    BY <1>1, <1>3
  <2>2. Candidate(i) = x % m
    BY DEF Candidate
  <2> HIDE DEF x, m
  <2>3. x % m = IF x < m THEN x ELSE x - m
    BY <2>1, ModOnce
  <2> QED
    BY <1>1, <1>2, <2>2, <2>3 DEF x, m
<1> QED
  BY <1>1, <1>2, <1>3, <1>4

\* The slots that are tried.
LEMMA CandidateSlot ==
  ASSUME HandleTypeOK, NEW size, NEW p, Divides(size, p), NEW i \in 0..size - 1
  PROVE  Candidate(i) % size = (i + handle_index) % size /\ Candidate(i) % size \in 0..size - 1
<1>1. size \in Nat \ {0} /\ p \in Nat \ {0} /\ p * size = HANDLE_MASK + 1
  BY DEF Divides
<1>2. i + handle_index \in Nat
  BY <1>1, MaskAssumption DEF HandleTypeOK
<1>3. ((i + handle_index) % (p * size)) % size = (i + handle_index) % size
  BY <1>1, <1>2, ModMod
<1>4. (i + handle_index) % size \in 0..size - 1
  BY <1>1, <1>2, ModRange
<1> QED
  BY <1>1, <1>3, <1>4 DEF Candidate

\* Every slot is tried.
LEMMA EverySlotTried ==
  ASSUME HandleTypeOK, NEW size, NEW p, Divides(size, p), NEW j \in 0..size - 1
  PROVE  \E i \in 0..size - 1 : Candidate(i) % size = j
<1>1. size \in Nat \ {0} /\ j \in Nat
  BY DEF Divides
<1>2. handle_index \in Nat
  BY MaskAssumption DEF HandleTypeOK
<1>3. PICK q \in Nat, r \in 0..size - 1 : handle_index = q * size + r
  BY <1>1, <1>2, DivMod
<1>4. CASE j >= r
  <2>1. j - r \in 0..size - 1
    BY <1>1, <1>4
  <2>2. (j - r) + (q * size + r) = q * size + j
    <3>1. q * size \in Nat
      BY <1>1, Z3
    <3> QED
      BY <1>1, <3>1
  <2>3. (q * size + j) % size = j
    BY <1>1, ModUnique
  <2>4. ((j - r) + handle_index) % size = j
    BY <1>3, <2>2, <2>3, Zenon
  <2> QED
    BY <2>1, <2>4, CandidateSlot
<1>5. CASE j < r
  <2>1. j - r + size \in 0..size - 1
    BY <1>1, <1>5
  <2>2. (j - r + size) + (q * size + r) = (q + 1) * size + j
    <3>1. q * size \in Nat /\ (q + 1) * size = q * size + size
      BY <1>1, Z3
    <3> QED
      BY <1>1, <3>1
  <2>3. ((q + 1) * size + j) % size = j
    <3>1. q + 1 \in Int
      OBVIOUS
    <3> QED
      BY <1>1, <3>1, ModUnique
  <2>4. ((j - r + size) + handle_index) % size = j
    BY <1>3, <2>2, <2>3, Zenon
  <2> QED
    BY <2>1, <2>4, CandidateSlot
<1> QED
  BY <1>1, <1>4, <1>5

\* The slot of a handle: the harbor's bits do not matter.
LEMMA RemoteSlot ==
  ASSUME NEW size, NEW p, Divides(size, p), NEW h \in 0..HANDLE_MASK
  PROVE  (h + Remote) % size = h % size /\ h + Remote \in Handles /\ h + Remote \in Nat
<1>1. size \in Nat \ {0} /\ p \in Nat \ {0} /\ p * size = HANDLE_MASK + 1
      /\ Harbor \in Nat /\ h \in Nat
  BY HarborAssumption, MaskAssumption DEF Divides
<1>2. Harbor * (p * size) = (Harbor * p) * size /\ Harbor * p \in Nat /\ (Harbor * p) * size \in Nat
  <2>1. Harbor * p \in Nat
    BY <1>1, Z3
  <2>2. Harbor * (p * size) = (Harbor * p) * size
    BY <1>1, Z3
  <2>3. (Harbor * p) * size \in Nat
    BY <1>1, <2>1, Z3
  <2> QED
    BY <2>1, <2>2, <2>3, Zenon
<1>3. Remote = (Harbor * p) * size
  BY <1>1, <1>2, Zenon DEF Remote
<1>4. ((Harbor * p) * size + h) % size = h % size
  BY <1>1, <1>2, ModShift, Zenon
<1>5. Remote \in Nat
  BY <1>2, <1>3, Zenon
<1>6. h + Remote = Remote + h
  BY <1>1, <1>5
<1>7. h + Remote \in Nat
  BY <1>1, <1>5
<1>8. (h + Remote) % size = h % size
  BY <1>3, <1>4, <1>6, Zenon
<1>9. h + Remote \in Handles
  BY <1>6 DEF Handles
<1> QED
  BY <1>7, <1>8, <1>9

-----------------------------------------------------------------------------
(* Any number of launches at a time: the table can be addressed.           *)

\* A size that HandleTypeOK allows divides the handles.
LEMMA SizeDivides ==
  ASSUME HandleTypeOK
  PROVE  \E p \in PowersOfTwo : Divides(slot_size, p)
<1>1. slot_size \in PowersOfTwo
  BY DEF HandleTypeOK
<1>2. PICK p \in PowersOfTwo : slot_size * p = HANDLE_MASK + 1
  BY DEF HandleTypeOK
<1>3. slot_size \in Nat \ {0} /\ p \in Nat \ {0}
  BY <1>1, Powers
<1>4. p * slot_size = slot_size * p
  BY <1>3, Z3
<1> QED
  BY <1>2, <1>3, <1>4 DEF Divides

\* After the first assertion the doubled size divides them as well; when it
\* fails every handle has a slot.
LEMMA DoubleDivides ==
  ASSUME HandleTypeOK
  PROVE  /\ CanDouble => /\ 2 * slot_size \in PowersOfTwo
                         /\ \E p \in PowersOfTwo : Divides(2 * slot_size, p)
         /\ ~CanDouble => slot_size = HANDLE_MASK + 1
<1>1. PICK p \in PowersOfTwo : Divides(slot_size, p)
  BY SizeDivides
<1>2. slot_size \in Nat \ {0} /\ p \in Nat \ {0} /\ p * slot_size = HANDLE_MASK + 1
      /\ HANDLE_MASK \in Nat
  BY <1>1, MaskAssumption DEF Divides
<1>3. CASE p = 1
  <2>1. slot_size = HANDLE_MASK + 1
    BY <1>2, <1>3
  <2> QED
    BY <1>2, <2>1 DEF CanDouble
<1>4. CASE p # 1
  <2>1. PICK q \in PowersOfTwo : p = 2 * q
    BY <1>4, Powers
  <2>2. q \in Nat \ {0}
    BY <2>1, Powers
  <2>3. (2 * q) * slot_size = q * (2 * slot_size) /\ q * (2 * slot_size) >= 2 * slot_size
    <3>1. (2 * q) * slot_size = q * (2 * slot_size)
      BY <1>2, <2>2, Z3
    <3>2. q * (2 * slot_size) >= 2 * slot_size
      BY <1>2, <2>2, Z3
    <3> QED
      BY <3>1, <3>2
  <2>4. q * (2 * slot_size) = HANDLE_MASK + 1
    BY <1>2, <2>1, <2>3, Zenon
  <2>5. 2 * slot_size <= HANDLE_MASK + 1
    BY <2>3, <2>4
  <2>6. 2 * slot_size \in PowersOfTwo
    <3>1. slot_size \in PowersOfTwo /\ HANDLE_MASK + 1 \in PowersOfTwo
      BY MaskAssumption DEF HandleTypeOK
    <3> QED
      BY <1>2, <2>5, <3>1 DEF PowersOfTwo
  <2>7. Divides(2 * slot_size, q)
    BY <1>2, <2>2, <2>4 DEF Divides
  <2>8. CanDouble
    BY <1>2, <2>5 DEF CanDouble
  <2> QED
    BY <2>6, <2>7, <2>8
<1> QED
  BY <1>3, <1>4

\* A table that is full, and the table that doubling makes.
LEMMA FullTable ==
  ASSUME HandleTypeOK, Free(slot, slot_size) = {}
  PROVE  \A j \in 0..slot_size - 1 : slot[j] \in Ctx
<1>1. PICK p \in PowersOfTwo : Divides(slot_size, p)
  BY SizeDivides
<1> TAKE j \in 0..slot_size - 1
<1>2. PICK i \in 0..slot_size - 1 : Candidate(i) % slot_size = j
  BY <1>1, EverySlotTried
<1>3. slot[j] # NULL
  BY <1>2 DEF Free
<1> QED
  BY <1>3 DEF HandleTypeOK

\* A handle is a natural number.
LEMMA HandlesNat == \A h \in Handles \cup {0} : h \in Nat
<1>1. HANDLE_MASK + 1 \in Nat /\ Harbor \in Nat /\ HANDLE_MASK \in Nat
  BY MaskAssumption, HarborAssumption
<1>2. Remote \in Nat
  BY <1>1, Z3 DEF Remote
<1> QED
  BY <1>1, <1>2 DEF Handles

\* Doubling a full table leaves a slot free, whatever the handle fields hold.
LEMMA DoubledFree ==
  ASSUME HandleTypeOK, Free(slot, slot_size) = {}, CanDouble
  PROVE  /\ Doubled \in [0..2 * slot_size - 1 -> Ctx \cup {NULL}]
         /\ Free(Doubled, 2 * slot_size) # {}
<1> DEFINE S == 0..slot_size - 1
           T == 0..2 * slot_size - 1
           f == [i \in S |-> NewHash(i)]
<1>1. slot_size \in Nat \ {0}
  BY Powers DEF HandleTypeOK
<1>2. \A i \in S : slot[i] \in Ctx /\ NewHash(i) \in T
  <2> TAKE i \in S
  <2>1. slot[i] \in Ctx
    BY FullTable
  <2>2. handle[slot[i]] \in Nat
    <3>1. handle \in [Ctx -> Handles \cup {0}]
      BY DEF HandleTypeOK
    <3>2. handle[slot[i]] \in Handles \cup {0}
      BY <2>1, <3>1
    <3> QED
      BY <3>2, HandlesNat, Zenon
  <2>3. 2 * slot_size \in Nat \ {0}
    BY <1>1
  <2>4. NewHash(i) \in T
    BY <2>2, <2>3, ModRange DEF NewHash
  <2> QED
    BY <2>1, <2>4
<1>3. Doubled \in [0..2 * slot_size - 1 -> Ctx \cup {NULL}]
  <2> SUFFICES ASSUME NEW s \in T, \E i \in S : NewHash(i) = s
               PROVE  slot[CHOOSE i \in S : NewHash(i) = s] \in Ctx
    BY DEF Doubled
  <2> QED
    BY <1>2
<1>4. \E s \in T : \A i \in S : NewHash(i) # s
  <2> SUFFICES ASSUME \A s \in T : \E i \in S : NewHash(i) = s PROVE FALSE
    OBVIOUS
  <2>1. f \in Surjection(S, T)
    BY <1>2 DEF Surjection
  <2>2. IsFiniteSet(S) /\ Cardinality(S) = slot_size
    BY <1>1, FS_Interval
  <2>3. Cardinality(T) = 2 * slot_size
    BY <1>1, FS_Interval
  <2>4. Cardinality(T) <= Cardinality(S)
    <3> HIDE DEF S, T, f
    <3> QED
      BY <2>1, <2>2, FS_Surjection
  <2> QED
    BY <1>1, <2>2, <2>3, <2>4
<1>5. PICK s \in T : \A i \in S : NewHash(i) # s
  BY <1>4
<1>6. Doubled[s] = NULL
  BY <1>5 DEF Doubled
<1>7. PICK i \in T : Candidate(i) % (2 * slot_size) = s
  BY DoubleDivides, EverySlotTried
<1>8. i \in Free(Doubled, 2 * slot_size)
  BY <1>6, <1>7 DEF Free
<1> QED
  BY <1>3, <1>8

\* What Take does to a table with a free slot.
LEMMA TakeStep ==
  ASSUME TableInv, NEW c \in Ctx, NEW table, NEW size \in PowersOfTwo, NEW p, Divides(size, p),
         table \in [0..size - 1 -> Ctx \cup {NULL}], Free(table, size) # {}, Take(c, table, size)
  PROVE  \E h \in 0..HANDLE_MASK :
           /\ h % size \in 0..size - 1 /\ table[h % size] = NULL
           /\ slot' = [table EXCEPT ![h % size] = c] /\ slot_size' = size
           /\ handle_index' = h + 1
           /\ given' = [given EXCEPT ![c] = h + Remote]
           /\ \/ h + 1 <= handle_index /\ lap' = {h + Remote}
              \/ h >= handle_index /\ lap' = lap \cup {h + Remote}
<1> DEFINE i == Min(Free(table, size))
           h == Candidate(i)
<1>1. i \in Free(table, size)
  <2>1. Free(table, size) \in SUBSET Nat
    BY DEF Free, Divides
  <2> QED
    BY <2>1, MinOfSet
<1>2. i \in 0..size - 1 /\ table[h % size] = NULL
  BY <1>1 DEF Free
<1>3. HandleTypeOK
  BY DEF TableInv
<1>4. /\ slot' = [table EXCEPT ![h % size] = c] /\ slot_size' = size
      /\ handle_index' = h + 1
      /\ given' = [given EXCEPT ![c] = h + Remote]
      /\ lap' = IF i + handle_index > HANDLE_MASK THEN {h + Remote} ELSE lap \cup {h + Remote}
  BY DEF Take
<1> HIDE DEF i, h
<1>5. /\ h \in 0..HANDLE_MASK
      /\ h = IF i + handle_index > HANDLE_MASK
             THEN i + handle_index - (HANDLE_MASK + 1) ELSE i + handle_index
  BY <1>2, <1>3, CandidateOnce DEF h
<1>6. h % size \in 0..size - 1
  BY <1>2, <1>3, CandidateSlot DEF h
<1>7. \/ h + 1 <= handle_index /\ lap' = {h + Remote}
      \/ h >= handle_index /\ lap' = lap \cup {h + Remote}
  <2>1. size \in Nat /\ size <= HANDLE_MASK + 1 /\ HANDLE_MASK \in Nat
    BY DividesLess DEF Divides
  <2>2. handle_index \in Nat
    BY <1>3, <2>1 DEF HandleTypeOK
  <2>3. i + handle_index > HANDLE_MASK => h + 1 <= handle_index
    BY <1>2, <1>5, <2>1, <2>2
  <2>4. ~(i + handle_index > HANDLE_MASK) => h >= handle_index
    BY <1>2, <1>5, <2>1, <2>2
  <2> QED
    BY <1>4, <2>3, <2>4
<1> QED
  BY <1>2, <1>4, <1>5, <1>6, <1>7

\* Take keeps the table addressable and gives no handle of this lap.
LEMMA TakeKeeps ==
  ASSUME TableInv, NEW c \in Ctx, NEW table, NEW size \in PowersOfTwo,
         NEW p \in PowersOfTwo, Divides(size, p),
         table \in [0..size - 1 -> Ctx \cup {NULL}], Free(table, size) # {}, Take(c, table, size),
         handle' = handle, failed' = failed, launch' = [launch EXCEPT ![c] = "new"]
  PROVE  /\ TableInv'
         /\ \A d \in Ctx : given'[d] # given[d] =>
               given'[d] \notin lap \/ handle_index' <= handle_index
<1>1. PICK h \in 0..HANDLE_MASK :
           /\ h % size \in 0..size - 1 /\ table[h % size] = NULL
           /\ slot' = [table EXCEPT ![h % size] = c] /\ slot_size' = size
           /\ handle_index' = h + 1
           /\ given' = [given EXCEPT ![c] = h + Remote]
           /\ \/ h + 1 <= handle_index /\ lap' = {h + Remote}
              \/ h >= handle_index /\ lap' = lap \cup {h + Remote}
  BY TakeStep
<1>2. h + Remote \in Handles /\ h + Remote \in Nat /\ h \in Nat /\ HANDLE_MASK \in Nat
  BY MaskAssumption, RemoteSlot
<1>3. Remote \in Nat /\ h + Remote = Remote + h
  <2>1. HANDLE_MASK + 1 \in Nat /\ Harbor \in Nat
    BY MaskAssumption, HarborAssumption
  <2>2. Remote \in Nat
    BY <2>1, Z3 DEF Remote
  <2> QED
    BY <1>2, <2>2
<1>4. handle_index \in 1..HANDLE_MASK + 1 /\ lap \subseteq Handles
      /\ lap \subseteq {Remote + g : g \in 0..handle_index - 1}
      /\ handle \in [Ctx -> Handles \cup {0}] /\ given \in [Ctx -> Handles \cup {0}]
      /\ launch \in [Ctx -> {"none", "new", "live"}] /\ failed \in BOOLEAN
  BY DEF TableInv, HandleTypeOK
<1>5. HandleTypeOK'
  <2>1. slot_size' \in PowersOfTwo /\ slot_size' * p = HANDLE_MASK + 1
    <3>1. size * p = p * size
      BY Powers, Z3
    <3> QED
      BY <1>1, <3>1 DEF Divides
  <2>2. slot' \in [0..slot_size' - 1 -> Ctx \cup {NULL}]
    BY <1>1
  <2>3. handle_index' \in 1..HANDLE_MASK + 1
    BY <1>1, <1>2
  <2>4. given' \in [Ctx -> Handles \cup {0}] /\ lap' \subseteq Handles
    BY <1>1, <1>2, <1>4
  <2>5. launch' \in [Ctx -> {"none", "new", "live"}]
    BY <1>4
  <2> QED
    BY <1>4, <2>1, <2>2, <2>3, <2>4, <2>5 DEF HandleTypeOK
<1>6. lap' \subseteq {Remote + g : g \in 0..handle_index' - 1}
  <2> SUFFICES ASSUME NEW x \in lap' PROVE \E g \in 0..h : x = Remote + g
    BY <1>1, <1>2
  <2>1. CASE x = h + Remote
    BY <1>2, <1>3, <2>1
  <2>2. CASE x # h + Remote
    <3>1. h >= handle_index /\ x \in lap
      BY <1>1, <2>2
    <3>2. PICK g \in 0..handle_index - 1 : x = Remote + g
      BY <1>4, <3>1
    <3> QED
      BY <1>2, <1>4, <3>1, <3>2
  <2> QED
    BY <2>1, <2>2
<1>7. h + Remote \notin lap \/ handle_index' <= handle_index
  <2> SUFFICES ASSUME h + Remote \in lap PROVE h + 1 <= handle_index
    BY <1>1
  <2>1. PICK g \in 0..handle_index - 1 : h + Remote = Remote + g
    BY <1>4
  <2> QED
    BY <1>2, <1>3, <1>4, <2>1
<1>8. \A d \in Ctx : given'[d] # given[d] => given'[d] = h + Remote
  BY <1>1, <1>4
<1> QED
  BY <1>5, <1>6, <1>7, <1>8 DEF TableInv

\* skynet_handle_init.
LEMMA InitTable == Init => TableInv
<1> SUFFICES ASSUME Init PROVE TableInv
  OBVIOUS
<1>1. DEFAULT_SLOT_SIZE \in Nat \ {0} /\ HANDLE_MASK \in Nat
  BY MaskAssumption, Powers
<1>2. slot_size \in PowersOfTwo /\ \E p \in PowersOfTwo : slot_size * p = HANDLE_MASK + 1
  BY MaskAssumption DEF Init
<1>3. slot \in [0..slot_size - 1 -> Ctx \cup {NULL}]
  BY DEF Init
<1>4. handle_index \in 1..HANDLE_MASK + 1
  BY <1>1 DEF Init
<1>5. handle \in [Ctx -> Handles \cup {0}] /\ given \in [Ctx -> Handles \cup {0}]
      /\ launch \in [Ctx -> {"none", "new", "live"}] /\ failed \in BOOLEAN /\ lap = {}
  BY DEF Init
<1> QED
  BY <1>2, <1>3, <1>4, <1>5 DEF TableInv, HandleTypeOK

\* The grabbed context.
LEMMA GrabCtx ==
  ASSUME HandleTypeOK, NEW h \in Handles, grab(h) # NULL
  PROVE  /\ h % slot_size \in 0..slot_size - 1 /\ h \in Nat
         /\ grab(h) \in Ctx /\ grab(h) = slot[h % slot_size] /\ handle[grab(h)] = h
<1>1. h \in Nat
  BY HandlesNat
<1>2. slot_size \in Nat \ {0}
  BY Powers DEF HandleTypeOK
<1>3. h % slot_size \in 0..slot_size - 1
  BY <1>1, <1>2, ModRange
<1>4. slot \in [0..slot_size - 1 -> Ctx \cup {NULL}]
  BY DEF HandleTypeOK
<1>5. slot[h % slot_size] \in Ctx \cup {NULL}
  BY <1>3, <1>4
<1>6. grab(h) = slot[h % slot_size] /\ handle[grab(h)] = h
  BY DEF grab
<1> QED
  BY <1>1, <1>3, <1>5, <1>6

\* What every step keeps of the table and of the handles given.
TableStep ==
  /\ TableInv'
  /\ \A c \in Ctx : given'[c] # given[c] /\ given'[c] # 0 =>
       given'[c] \notin lap \/ handle_index' <= handle_index

LEMMA RegisterTable ==
  ASSUME TableInv, NEW c \in Ctx, Register(c)
  PROVE  TableStep
<1>1. HandleTypeOK
  BY DEF TableInv
<1>2. PICK p \in PowersOfTwo : Divides(slot_size, p)
  BY <1>1, SizeDivides
<1>3. slot_size \in PowersOfTwo /\ slot \in [0..slot_size - 1 -> Ctx \cup {NULL}]
  BY <1>1 DEF HandleTypeOK
<1>4. /\ Free(slot, slot_size) # {} /\ Take(c, slot, slot_size)
      /\ handle' = handle /\ failed' = failed /\ launch' = [launch EXCEPT ![c] = "new"]
  BY DEF Register, StartLaunch
<1> QED
  BY <1>2, <1>3, <1>4, TakeKeeps DEF TableStep

LEMMA GrowTable ==
  ASSUME TableInv, NEW c \in Ctx, RegisterGrow(c)
  PROVE  TableStep
<1>1. HandleTypeOK
  BY DEF TableInv
<1>2. /\ Free(slot, slot_size) = {} /\ CanDouble /\ Take(c, Doubled, 2 * slot_size)
      /\ handle' = handle /\ failed' = failed /\ launch' = [launch EXCEPT ![c] = "new"]
  BY DEF RegisterGrow, StartLaunch
<1>3. 2 * slot_size \in PowersOfTwo
  BY <1>1, <1>2, DoubleDivides
<1>4. PICK p \in PowersOfTwo : Divides(2 * slot_size, p)
  BY <1>1, <1>2, DoubleDivides
<1>5. Doubled \in [0..2 * slot_size - 1 -> Ctx \cup {NULL}] /\ Free(Doubled, 2 * slot_size) # {}
  BY <1>1, <1>2, DoubledFree
<1> QED
  BY <1>2, <1>3, <1>4, <1>5, TakeKeeps DEF TableStep

\* The other steps leave the size, the index and the lap alone.
LEMMA QuietTable ==
  ASSUME TableInv, slot_size' = slot_size, handle_index' = handle_index, lap' = lap,
         slot' \in [0..slot_size - 1 -> Ctx \cup {NULL}],
         handle' \in [Ctx -> Handles \cup {0}], given' \in [Ctx -> Handles \cup {0}],
         launch' \in [Ctx -> {"none", "new", "live"}], failed' \in BOOLEAN
  PROVE  TableStep
<1>1. TableInv'
  BY DEF TableInv, HandleTypeOK
<1>2. handle_index' <= handle_index
  BY MaskAssumption DEF TableInv, HandleTypeOK
<1> QED
  BY <1>1, <1>2 DEF TableStep

LEMMA TableNext == TableInv /\ [Next]_vars => TableStep
<1> SUFFICES ASSUME TableInv, [Next]_vars PROVE TableStep
  OBVIOUS
<1>1. /\ slot \in [0..slot_size - 1 -> Ctx \cup {NULL}]
      /\ handle \in [Ctx -> Handles \cup {0}] /\ given \in [Ctx -> Handles \cup {0}]
      /\ launch \in [Ctx -> {"none", "new", "live"}] /\ failed \in BOOLEAN
  BY DEF TableInv, HandleTypeOK
<1>2. ASSUME NEW c \in Ctx, RegisterAssert(c) PROVE TableStep
  BY <1>1, <1>2, QuietTable DEF RegisterAssert, StartLaunch, tableVars
<1>3. ASSUME NEW c \in Ctx, SetHandle(c) PROVE TableStep
  BY <1>1, <1>3, QuietTable DEF SetHandle, tableVars
<1>4. ASSUME NEW h \in Handles \ {0}, Retire(h) PROVE TableStep
  <2>1. h % slot_size \in 0..slot_size - 1 /\ grab(h) \in Ctx
    BY <1>4, GrabCtx DEF Retire, TableInv
  <2> QED
    BY <1>1, <1>4, <2>1, QuietTable DEF Retire
<1>5. ASSUME NEW h \in Handles \ {0}, NEW n \in Names, NameHandle(h, n) PROVE TableStep
  BY <1>1, <1>5, QuietTable DEF NameHandle, tableVars
<1>6. CASE UNCHANGED vars
  BY <1>1, <1>6, QuietTable DEF vars
<1> QED
  BY <1>2, <1>3, <1>4, <1>5, <1>6, RegisterTable, GrowTable DEF Next

\* The size of the table stays a power of two that divides the number of
\* handles, and every slot is addressed inside it (skynet_handle_register).
THEOREM TableAddressed == Spec => []TableInv
<1>1. TableInv /\ [Next]_vars => TableInv'
  BY TableNext DEF TableStep
<1> QED
  BY InitTable, <1>1, PTL DEF Spec

\* For every initial size, number of handles and harbor, and however many
\* threads launch services, a handle is given again only after the index has
\* gone through all of them (skynet_handle_register).
THEOREM GivenOncePerLap == Spec => NoEarlyReuse
<1>1. TableInv /\ [Next]_vars =>
        [\A c \in Ctx : given'[c] # given[c] /\ given'[c] # 0 =>
           given'[c] \notin lap \/ handle_index' <= handle_index]_vars
  BY TableNext DEF TableStep
<1> QED
  BY TableAddressed, <1>1, PTL DEF Spec, NoEarlyReuse

-----------------------------------------------------------------------------
(* One launch at a time: the table is exact.                               *)

\* A handle has a slot in a table of any size.
LEMMA SlotOf ==
  ASSUME NEW h \in Handles, NEW size \in Nat \ {0}
  PROVE  h \in Nat /\ h % size \in 0..size - 1
<1>1. h \in Nat
  BY HandlesNat
<1> QED
  BY <1>1, ModRange

\* A context in a full table is live: nothing else is being launched.
LEMMA FullLive ==
  ASSUME HandleTypeOK, ExactInv, Free(slot, slot_size) = {}, \A d \in Ctx : launch[d] # "new"
  PROVE  \A i \in 0..slot_size - 1 :
           /\ slot[i] \in Ctx /\ slot[i] # NULL /\ launch[slot[i]] = "live"
           /\ given[slot[i]] \in Handles /\ handle[slot[i]] = given[slot[i]]
           /\ given[slot[i]] % slot_size = i
           /\ NewHash(i) = given[slot[i]] % (2 * slot_size)
<1> TAKE i \in 0..slot_size - 1
<1>1. slot[i] \in Ctx /\ slot[i] # NULL
  BY FullTable, CtxAssumption
<1>2. Placed(slot[i]) /\ given[slot[i]] % slot_size = i
  BY <1>1 DEF ExactInv, Sorted
<1>3. launch[slot[i]] = "live"
  BY <1>1, <1>2 DEF Placed
<1>4. given[slot[i]] \in Handles
  BY <1>1, <1>2 DEF ExactInv, Sorted
<1>5. handle[slot[i]] = given[slot[i]]
  BY <1>1, <1>3 DEF ExactInv
<1> QED
  BY <1>1, <1>2, <1>3, <1>4, <1>5 DEF NewHash

\* assert(new_slot[hash] == NULL) holds: the new place of a context determines
\* the old one.
LEMMA NoCollision ==
  ASSUME HandleTypeOK, ExactInv, Free(slot, slot_size) = {}, \A d \in Ctx : launch[d] # "new"
  PROVE  ~Collision
<1>1. slot_size \in Nat \ {0}
  BY Powers DEF HandleTypeOK
<1>2. \A i \in 0..slot_size - 1 : NewHash(i) % slot_size = i
  <2> TAKE i \in 0..slot_size - 1
  <2> DEFINE g == given[slot[i]]
  <2>1. g \in Handles /\ g % slot_size = i /\ NewHash(i) = g % (2 * slot_size)
    BY FullLive
  <2> HIDE DEF g
  <2>2. g \in Nat
    BY <1>1, <2>1, SlotOf
  <2>3. (g % (2 * slot_size)) % slot_size = g % slot_size
    <3>1. 2 \in Nat \ {0}
      OBVIOUS
    <3> QED
      BY <1>1, <2>2, <3>1, ModMod
  <2> QED
    BY <2>1, <2>3, Zenon
<1> QED
  BY <1>2, Zenon DEF Collision

\* The loop that doubles the table keeps every context where its handle says.
LEMMA DoubledSorted ==
  ASSUME HandleTypeOK, ExactInv, Free(slot, slot_size) = {}, \A d \in Ctx : launch[d] # "new"
  PROVE  Sorted(Doubled, 2 * slot_size)
<1> DEFINE S == 0..slot_size - 1
           T == 0..2 * slot_size - 1
<1>1. slot_size \in Nat \ {0} /\ 2 * slot_size \in Nat \ {0}
  BY Powers DEF HandleTypeOK
<1>2. \A i \in S : slot[i] \in Ctx /\ slot[i] # NULL /\ launch[slot[i]] = "live"
                   /\ NewHash(i) = given[slot[i]] % (2 * slot_size)
  BY FullLive
<1>3. \A i, j \in S : NewHash(i) = NewHash(j) => i = j
  BY NoCollision DEF Collision
<1>4. \A s \in T : Doubled[s] = IF \E i \in S : NewHash(i) = s
                                THEN slot[CHOOSE i \in S : NewHash(i) = s] ELSE NULL
  BY DEF Doubled
<1>5. ASSUME NEW i \in S, NEW s \in T, NewHash(i) = s
      PROVE  Doubled[s] = slot[i]
  <2>1. (CHOOSE j \in S : NewHash(j) = s) = i
    BY <1>3, <1>5
  <2> QED
    BY <1>4, <1>5, <2>1
<1> HIDE DEF S, T
<1>6. ASSUME NEW s \in T, Doubled[s] # NULL
      PROVE  Placed(Doubled[s]) /\ given[Doubled[s]] % (2 * slot_size) = s
  <2>1. PICK i \in S : NewHash(i) = s
    BY <1>4, <1>6
  <2>2. Doubled[s] = slot[i]
    BY <1>5, <2>1
  <2> QED
    BY <1>2, <2>1, <2>2, Zenon DEF Placed
<1>7. ASSUME NEW d \in Ctx, Placed(d)
      PROVE  given[d] \in Handles /\ Doubled[given[d] % (2 * slot_size)] = d
  <2>1. given[d] \in Handles /\ slot[given[d] % slot_size] = d
    BY <1>7 DEF ExactInv, Sorted
  <2>2. given[d] % slot_size \in S /\ given[d] % (2 * slot_size) \in T
    BY <1>1, <2>1, SlotOf DEF S, T
  <2>3. NewHash(given[d] % slot_size) = given[d] % (2 * slot_size)
    BY <1>2, <2>1, <2>2, Zenon
  <2>4. Doubled[given[d] % (2 * slot_size)] = slot[given[d] % slot_size]
    BY <1>5, <2>2, <2>3, Zenon
  <2> QED
    BY <2>1, <2>4, Zenon
<1> QED
  BY <1>6, <1>7 DEF Sorted, S, T

\* Taking a free slot of such a table makes such a table.
LEMMA TakeSorted ==
  ASSUME TableInv, NEW c \in Ctx, launch[c] = "none", ~failed,
         NEW table, NEW size \in PowersOfTwo, NEW p, Divides(size, p),
         table \in [0..size - 1 -> Ctx \cup {NULL}], Free(table, size) # {},
         Take(c, table, size), Sorted(table, size),
         failed' = failed, launch' = [launch EXCEPT ![c] = "new"]
  PROVE  Sorted(slot, slot_size)' /\ (\A d \in Ctx \ {c} : given'[d] = given[d])
<1>1. PICK h \in 0..HANDLE_MASK :
           /\ h % size \in 0..size - 1 /\ table[h % size] = NULL
           /\ slot' = [table EXCEPT ![h % size] = c] /\ slot_size' = size
           /\ given' = [given EXCEPT ![c] = h + Remote]
  <2>1. \E h \in 0..HANDLE_MASK :
           /\ h % size \in 0..size - 1 /\ table[h % size] = NULL
           /\ slot' = [table EXCEPT ![h % size] = c] /\ slot_size' = size
           /\ handle_index' = h + 1
           /\ given' = [given EXCEPT ![c] = h + Remote]
           /\ \/ h + 1 <= handle_index /\ lap' = {h + Remote}
              \/ h >= handle_index /\ lap' = lap \cup {h + Remote}
    BY TakeStep
  <2> QED
    BY <2>1, Zenon
<1> DEFINE k == h % size
           g == h + Remote
<1>2. g \in Handles /\ g % size = k
  BY RemoteSlot
<1>3. k \in 0..size - 1 /\ table[k] = NULL /\ slot' = [table EXCEPT ![k] = c]
      /\ slot_size' = size /\ given' = [given EXCEPT ![c] = g]
  BY <1>1
<1> HIDE DEF k, g
<1>4. given \in [Ctx -> Handles \cup {0}] /\ launch \in [Ctx -> {"none", "new", "live"}]
  BY DEF TableInv, HandleTypeOK
<1>5. /\ given'[c] = g /\ Placed(c)' /\ ~Placed(c)
      /\ \A d \in Ctx \ {c} : given'[d] = given[d] /\ (Placed(d)' <=> Placed(d))
  BY <1>3, <1>4 DEF Placed
<1>6. slot'[k] = c /\ \A i \in 0..size - 1 : i # k => slot'[i] = table[i]
  BY <1>3
<1>7. ASSUME NEW i \in 0..size - 1, slot'[i] # NULL
      PROVE  Placed(slot[i])' /\ given'[slot'[i]] % size = i
  <2>1. CASE i = k
    BY <1>2, <1>5, <1>6, <2>1 DEF Placed
  <2>2. CASE i # k
    <3>1. slot'[i] = table[i] /\ table[i] \in Ctx
      BY <1>6, <1>7, <2>2
    <3>2. Placed(table[i]) /\ given[table[i]] % size = i
      BY <1>7, <3>1 DEF Sorted
    <3>3. table[i] # c
      BY <1>5, <3>2
    <3>4. given'[table[i]] = given[table[i]]
      BY <1>5, <3>1, <3>3
    <3>5. Placed(slot[i])'
      BY <3>1, <3>2, <3>3, <1>4 DEF Placed
    <3> QED
      BY <3>1, <3>2, <3>4, <3>5
  <2> QED
    BY <2>1, <2>2
<1>8. ASSUME NEW d \in Ctx, Placed(d)'
      PROVE  given'[d] \in Handles /\ slot'[given'[d] % size] = d
  <2>1. CASE d = c
    BY <1>2, <1>5, <1>6, <2>1
  <2>2. CASE d # c
    <3>1. Placed(d) /\ given'[d] = given[d]
      BY <1>5, <1>8, <2>2
    <3>2. given[d] \in Handles /\ table[given[d] % size] = d
      BY <3>1 DEF Sorted
    <3>3. given[d] % size \in 0..size - 1
      BY <3>2, SlotOf DEF Divides
    <3>4. given[d] % size # k
      BY <1>3, <3>2, CtxAssumption
    <3> QED
      BY <1>6, <3>1, <3>2, <3>3, <3>4
  <2> QED
    BY <2>1, <2>2
<1> QED
  BY <1>3, <1>5, <1>7, <1>8 DEF Sorted

\* What the two registering steps that succeed have in common.
LEMMA LaunchExact ==
  ASSUME TableInv, ExactInv, ConcurrentLaunch = FALSE, NEW c \in Ctx, StartLaunch(c),
         failed' = failed, Sorted(slot, slot_size)', \A d \in Ctx \ {c} : given'[d] = given[d]
  PROVE  ExactInv'
<1>1. /\ ~failed /\ launch[c] = "none" /\ \A d \in Ctx : launch[d] # "new"
      /\ launch' = [launch EXCEPT ![c] = "new"] /\ handle' = handle
  BY DEF StartLaunch
<1>2. launch \in [Ctx -> {"none", "new", "live"}]
  BY DEF TableInv, HandleTypeOK
<1>3. ASSUME NEW d \in Ctx
      PROVE  handle'[d] = IF launch'[d] = "live" THEN given'[d] ELSE 0
  <2>1. handle[d] = IF launch[d] = "live" THEN given[d] ELSE 0
    BY DEF ExactInv
  <2> QED
    BY <1>1, <1>2, <2>1
<1>4. \A d, e \in Ctx : launch'[d] = "new" /\ launch'[e] = "new" => d = e
  BY <1>1, <1>2
<1>5. FailsOnlyWhenFull'
  BY <1>1 DEF FailsOnlyWhenFull
<1> QED
  BY <1>3, <1>4, <1>5 DEF ExactInv

LEMMA RegisterExact ==
  ASSUME TableInv, ExactInv, ConcurrentLaunch = FALSE, NEW c \in Ctx, Register(c)
  PROVE  ExactInv'
<1>1. HandleTypeOK
  BY DEF TableInv
<1>2. PICK p \in PowersOfTwo : Divides(slot_size, p)
  BY <1>1, SizeDivides
<1>3. slot_size \in PowersOfTwo /\ slot \in [0..slot_size - 1 -> Ctx \cup {NULL}]
  BY <1>1 DEF HandleTypeOK
<1>4. /\ Free(slot, slot_size) # {} /\ Take(c, slot, slot_size) /\ StartLaunch(c)
      /\ failed' = failed /\ launch' = [launch EXCEPT ![c] = "new"]
      /\ ~failed /\ launch[c] = "none"
  BY DEF Register, StartLaunch
<1>5. Sorted(slot, slot_size)
  BY DEF ExactInv
<1>6. Sorted(slot, slot_size)' /\ (\A d \in Ctx \ {c} : given'[d] = given[d])
  BY <1>2, <1>3, <1>4, <1>5, TakeSorted
<1> QED
  BY <1>4, <1>6, LaunchExact

LEMMA GrowExact ==
  ASSUME TableInv, ExactInv, ConcurrentLaunch = FALSE, NEW c \in Ctx, RegisterGrow(c)
  PROVE  ExactInv'
<1>1. HandleTypeOK
  BY DEF TableInv
<1>2. /\ Free(slot, slot_size) = {} /\ CanDouble /\ Take(c, Doubled, 2 * slot_size)
      /\ StartLaunch(c) /\ failed' = failed /\ launch' = [launch EXCEPT ![c] = "new"]
      /\ ~failed /\ launch[c] = "none" /\ \A d \in Ctx : launch[d] # "new"
  BY DEF RegisterGrow, StartLaunch
<1>3. 2 * slot_size \in PowersOfTwo
  BY <1>1, <1>2, DoubleDivides
<1>4. PICK p \in PowersOfTwo : Divides(2 * slot_size, p)
  BY <1>1, <1>2, DoubleDivides
<1>5. Doubled \in [0..2 * slot_size - 1 -> Ctx \cup {NULL}] /\ Free(Doubled, 2 * slot_size) # {}
  BY <1>1, <1>2, DoubledFree
<1>6. Sorted(Doubled, 2 * slot_size)
  BY <1>1, <1>2, DoubledSorted
<1>7. Sorted(slot, slot_size)' /\ (\A d \in Ctx \ {c} : given'[d] = given[d])
  BY <1>2, <1>3, <1>4, <1>5, <1>6, TakeSorted
<1> QED
  BY <1>2, <1>7, LaunchExact

\* The assertion that fails is the first one, and every handle is in use.
LEMMA AssertExact ==
  ASSUME TableInv, ExactInv, ConcurrentLaunch = FALSE, NEW c \in Ctx, RegisterAssert(c)
  PROVE  ExactInv'
<1> DEFINE Live == {d \in Ctx : launch[d] = "live"}
<1>1. HandleTypeOK /\ launch \in [Ctx -> {"none", "new", "live"}]
      /\ handle \in [Ctx -> Handles \cup {0}] /\ slot \in [0..slot_size - 1 -> Ctx \cup {NULL}]
  BY DEF TableInv, HandleTypeOK
<1>2. /\ Free(slot, slot_size) = {} /\ (~CanDouble \/ Collision)
      /\ failed' = TRUE /\ launch' = [launch EXCEPT ![c] = "new"]
      /\ ~failed /\ launch[c] = "none" /\ \A d \in Ctx : launch[d] # "new"
      /\ slot' = slot /\ slot_size' = slot_size /\ given' = given /\ handle' = handle
  BY DEF RegisterAssert, StartLaunch, tableVars
<1>3. slot_size = HANDLE_MASK + 1 /\ HANDLE_MASK + 1 \in Nat \ {0} /\ HANDLE_MASK \in Nat
  BY <1>1, <1>2, NoCollision, DoubleDivides, MaskAssumption
<1>4. \A i \in 0..slot_size - 1 :
        /\ slot[i] \in Ctx /\ launch[slot[i]] = "live"
        /\ given[slot[i]] \in Handles /\ handle[slot[i]] = given[slot[i]]
        /\ given[slot[i]] % slot_size = i
  BY <1>1, <1>2, FullLive
<1>5. Live' = Live
  BY <1>1, <1>2
<1>6. \A x \in Handles : \E d \in Live : handle[d] = x
  <2> TAKE x \in Handles
  <2>1. PICK h \in 0..HANDLE_MASK : x = Remote + h
    BY DEF Handles
  <2> DEFINE d == slot[h]
  <2>2. /\ d \in Ctx /\ launch[d] = "live" /\ handle[d] = given[d]
        /\ given[d] \in Handles /\ given[d] % (HANDLE_MASK + 1) = h
    BY <1>3, <1>4
  <2>3. PICK g \in 0..HANDLE_MASK : given[d] = Remote + g
    BY <2>2 DEF Handles
  <2>4. Harbor \in Nat /\ Remote = Harbor * (HANDLE_MASK + 1) /\ g \in 0..(HANDLE_MASK + 1) - 1
    BY <1>3, HarborAssumption DEF Remote
  <2>5. (Harbor * (HANDLE_MASK + 1) + g) % (HANDLE_MASK + 1) = g
    <3>1. Harbor \in Int
      BY <2>4
    <3> QED
      BY <1>3, <2>4, <3>1, ModUnique
  <2>6. g = h
    BY <2>2, <2>3, <2>4, <2>5, Zenon
  <2> QED
    BY <2>1, <2>2, <2>3, <2>6
<1>7. \A d \in Live : handle[d] \in Handles
  BY DEF ExactInv, Sorted, Placed
<1>8. FailsOnlyWhenFull'
  <2>1. {handle[d] : d \in Live} = Handles
    BY <1>6, <1>7
  <2> QED
    BY <1>2, <1>5, <2>1 DEF FailsOnlyWhenFull
<1>9. Sorted(slot, slot_size)'
  <2>1. ASSUME NEW i \in 0..slot_size - 1
        PROVE  Placed(slot[i])' /\ given[slot[i]] % slot_size = i
    BY <1>1, <1>2, <1>4 DEF Placed
  <2>2. ASSUME NEW d \in Ctx, Placed(d)'
        PROVE  given[d] \in Handles /\ slot[given[d] % slot_size] = d
    <3>1. Placed(d)
      BY <1>1, <1>2, <2>2 DEF Placed
    <3> QED
      BY <3>1 DEF ExactInv, Sorted
  <2> QED
    BY <1>2, <2>1, <2>2 DEF Sorted
<1>10. \A d \in Ctx : handle'[d] = IF launch'[d] = "live" THEN given'[d] ELSE 0
  <2> TAKE d \in Ctx
  <2>1. handle[d] = IF launch[d] = "live" THEN given[d] ELSE 0
    BY DEF ExactInv
  <2> QED
    BY <1>1, <1>2, <2>1
<1>11. \A d, e \in Ctx : launch'[d] = "new" /\ launch'[e] = "new" => d = e
  BY <1>1, <1>2
<1> QED
  BY <1>8, <1>9, <1>10, <1>11 DEF ExactInv

LEMMA SetHandleExact ==
  ASSUME TableInv, ExactInv, NEW c \in Ctx, SetHandle(c)
  PROVE  ExactInv'
<1>1. /\ launch \in [Ctx -> {"none", "new", "live"}] /\ handle \in [Ctx -> Handles \cup {0}]
      /\ slot \in [0..slot_size - 1 -> Ctx \cup {NULL}]
  BY DEF TableInv, HandleTypeOK
<1>2. /\ ~failed /\ failed' = failed /\ launch[c] = "new"
      /\ launch' = [launch EXCEPT ![c] = "live"] /\ handle' = [handle EXCEPT ![c] = given[c]]
      /\ slot' = slot /\ slot_size' = slot_size /\ given' = given
  BY DEF SetHandle, tableVars
<1>3. \A d \in Ctx : Placed(d)' <=> Placed(d)
  BY <1>1, <1>2 DEF Placed
<1>4. Sorted(slot, slot_size)'
  <2>1. ASSUME NEW i \in 0..slot_size - 1, slot[i] # NULL
        PROVE  Placed(slot[i])' /\ given[slot[i]] % slot_size = i
    <3>1. slot[i] \in Ctx /\ Placed(slot[i]) /\ given[slot[i]] % slot_size = i
      BY <1>1, <2>1 DEF ExactInv, Sorted
    <3> QED
      BY <1>1, <1>2, <3>1 DEF Placed
  <2>2. ASSUME NEW d \in Ctx, Placed(d)'
        PROVE  given[d] \in Handles /\ slot[given[d] % slot_size] = d
    BY <1>3, <2>2 DEF ExactInv, Sorted
  <2> QED
    BY <1>2, <2>1, <2>2 DEF Sorted
<1>5. \A d \in Ctx : handle'[d] = IF launch'[d] = "live" THEN given'[d] ELSE 0
  <2> TAKE d \in Ctx
  <2>1. handle[d] = IF launch[d] = "live" THEN given[d] ELSE 0
    BY DEF ExactInv
  <2> QED
    BY <1>1, <1>2, <2>1
<1>6. \A d, e \in Ctx : launch'[d] = "new" /\ launch'[e] = "new" => d = e
  BY <1>1, <1>2 DEF ExactInv
<1>7. FailsOnlyWhenFull'
  BY <1>2 DEF FailsOnlyWhenFull
<1> QED
  BY <1>4, <1>5, <1>6, <1>7 DEF ExactInv

LEMMA RetireExact ==
  ASSUME TableInv, ExactInv, NEW h \in Handles \ {0}, Retire(h)
  PROVE  ExactInv'
<1> DEFINE c == grab(h)
           k == h % slot_size
<1>1. /\ launch \in [Ctx -> {"none", "new", "live"}] /\ handle \in [Ctx -> Handles \cup {0}]
      /\ given \in [Ctx -> Handles \cup {0}]
      /\ slot \in [0..slot_size - 1 -> Ctx \cup {NULL}] /\ slot_size \in Nat \ {0}
  BY Powers DEF TableInv, HandleTypeOK
<1>2. /\ ~failed /\ failed' = failed /\ slot_size' = slot_size
      /\ slot' = [slot EXCEPT ![k] = NULL]
      /\ launch' = [launch EXCEPT ![c] = "none"]
      /\ handle' = [handle EXCEPT ![c] = 0] /\ given' = [given EXCEPT ![c] = 0]
  BY DEF Retire
<1>3. k \in 0..slot_size - 1 /\ c \in Ctx /\ slot[k] = c /\ handle[c] = h
  BY GrabCtx DEF Retire, TableInv
<1> HIDE DEF c, k
<1>4. launch[c] = "live"
  BY <1>3 DEF ExactInv
<1>5. \A d \in Ctx \ {c} : given'[d] = given[d] /\ handle'[d] = handle[d] /\ launch'[d] = launch[d]
  BY <1>1, <1>2
<1>6. launch'[c] = "none" /\ handle'[c] = 0
  BY <1>1, <1>2, <1>3
<1>7. Sorted(slot, slot_size)'
  <2>1. ASSUME NEW i \in 0..slot_size - 1, slot'[i] # NULL
        PROVE  Placed(slot[i])' /\ given'[slot'[i]] % slot_size = i
    <3>1. i # k /\ slot'[i] = slot[i] /\ slot[i] \in Ctx
      BY <1>1, <1>2, <1>3, <2>1
    <3>2. Placed(slot[i]) /\ given[slot[i]] % slot_size = i
      BY <2>1, <3>1 DEF ExactInv, Sorted
    <3>3. given[c] % slot_size = k
      BY <1>3, CtxAssumption DEF ExactInv, Sorted
    <3>4. slot[i] # c
      BY <3>1, <3>2, <3>3
    <3>5. Placed(slot[i])'
      BY <1>2, <1>5, <3>1, <3>2, <3>4 DEF Placed
    <3> QED
      BY <1>5, <3>1, <3>2, <3>4, <3>5
  <2>2. ASSUME NEW d \in Ctx, Placed(d)'
        PROVE  given'[d] \in Handles /\ slot'[given'[d] % slot_size] = d
    <3>1. d # c
      BY <1>6, <2>2 DEF Placed
    <3>2. Placed(d)
      BY <1>2, <1>5, <2>2, <3>1 DEF Placed
    <3>3. given[d] \in Handles /\ slot[given[d] % slot_size] = d
      BY <3>2 DEF ExactInv, Sorted
    <3>4. given[d] % slot_size \in 0..slot_size - 1
      BY <1>1, <3>3, SlotOf
    <3>5. given[d] % slot_size # k
      BY <1>3, <3>1, <3>3
    <3>6. slot'[given[d] % slot_size] = slot[given[d] % slot_size]
      BY <1>1, <1>2, <3>4, <3>5
    <3> QED
      BY <1>5, <3>1, <3>3, <3>6
  <2> QED
    BY <1>2, <2>1, <2>2 DEF Sorted
<1>8. \A d \in Ctx : handle'[d] = IF launch'[d] = "live" THEN given'[d] ELSE 0
  BY <1>5, <1>6 DEF ExactInv
<1>9. \A d, e \in Ctx : launch'[d] = "new" /\ launch'[e] = "new" => d = e
  BY <1>5, <1>6 DEF ExactInv
<1>10. FailsOnlyWhenFull'
  BY <1>2 DEF FailsOnlyWhenFull
<1> QED
  BY <1>7, <1>8, <1>9, <1>10 DEF ExactInv

LEMMA ExactNext ==
  ASSUME ConcurrentLaunch = FALSE
  PROVE  TableInv /\ ExactInv /\ [Next]_vars => ExactInv'
<1> SUFFICES ASSUME TableInv, ExactInv, [Next]_vars PROVE ExactInv'
  OBVIOUS
<1>1. ASSUME UNCHANGED <<slot, slot_size, handle, launch, given, failed>> PROVE ExactInv'
  BY <1>1 DEF ExactInv, Sorted, Placed, FailsOnlyWhenFull
<1>2. ASSUME NEW h \in Handles \ {0}, NEW n \in Names, NameHandle(h, n) PROVE ExactInv'
  BY <1>1, <1>2 DEF NameHandle, tableVars
<1>3. CASE UNCHANGED vars
  BY <1>1, <1>3 DEF vars
<1> QED
  BY <1>2, <1>3, RegisterExact, GrowExact, AssertExact, SetHandleExact, RetireExact DEF Next

\* skynet_handle_init makes an empty table.
LEMMA InitExact == Init => ExactInv
  BY DEF Init, ExactInv, Sorted, Placed, FailsOnlyWhenFull

\* An exact table answers skynet_handle_grab.
LEMMA ExactGrabs ==
  ASSUME TableInv, ExactInv
  PROVE  HandlesExact
<1> SUFFICES ASSUME NEW h \in Handles \ {0}, NEW c \in Ctx
             PROVE  grab(h) = c <=> launch[c] = "live" /\ given[c] = h
  BY DEF HandlesExact, GrabExact, TableInv, ExactInv
<1>1. handle[c] = IF launch[c] = "live" THEN given[c] ELSE 0
  BY DEF ExactInv
<1>2. ASSUME grab(h) = c PROVE launch[c] = "live" /\ given[c] = h
  <2>1. handle[c] = h
    BY <1>2, GrabCtx, CtxAssumption DEF TableInv
  <2> QED
    BY <1>1, <2>1
<1>3. ASSUME launch[c] = "live", given[c] = h PROVE grab(h) = c
  <2>1. slot[h % slot_size] = c
    BY <1>3 DEF ExactInv, Sorted, Placed
  <2> QED
    BY <1>1, <1>3, <2>1, CtxAssumption DEF grab
<1> QED
  BY <1>2, <1>3

\* For every initial size, number of handles and harbor, as long as services
\* are launched one at a time: skynet_handle_grab of a handle returns the one
\* live context that was given it and nothing when there is none, through any
\* number of registrations, retirements and doublings of the table, and the
\* assertions of skynet_handle_register fail only when every handle is in use.
THEOREM TableExact ==
  ASSUME ConcurrentLaunch = FALSE
  PROVE  Spec => []HandlesExact
<1>1. TableInv /\ ExactInv /\ [Next]_vars => ExactInv'
  BY ExactNext
<1>2. TableInv /\ ExactInv => HandlesExact
  BY ExactGrabs
<1> QED
  BY InitExact, TableAddressed, <1>1, <1>2, PTL DEF Spec

-----------------------------------------------------------------------------
(* Names: what the two loops over the name array compute.                  *)

\* The entries of the name array, and the array while it is sorted.
Entry == [name : Names, handle : Handles \ {0}]
NamesSorted ==
  /\ name \in Seq(Entry)
  /\ \A i, j \in 1..Len(name) : i < j => name[i].name < name[j].name

\* The ranges the search looks at, and one round of its loop for name n where
\* f holds the results for shorter ranges.
Ranges == (1..Len(name) + 1) \X (0..Len(name))
Round(n, f, p) ==
  LET b == p[1]  e == p[2]  mid == (b + e) \div 2 IN
    IF b > e THEN [found |-> FALSE, at |-> b]
    ELSE IF name[mid].name = n THEN [found |-> TRUE, at |-> mid]
    ELSE IF name[mid].name < n THEN f[<<mid + 1, e>>]
    ELSE f[<<b, mid - 1>>]

\* Search is a function whose value on a range is one round of the loop.
LEMMA SearchIs ==
  ASSUME NEW n
  PROVE  Search(n) = (CHOOSE s : s = [p \in Ranges |-> Round(n, s, p)])[<<1, Len(name)>>]
  BY DEF Search, Ranges, Round

\* The length of a range, and the shorter ranges a round may turn to.
LEMMA Shorter ==
  ASSUME Len(name) \in Nat, NEW p \in Ranges, p[1] <= p[2], NEW mid, mid = (p[1] + p[2]) \div 2
  PROVE  /\ mid \in p[1]..p[2] /\ mid \in 1..Len(name)
         /\ <<mid + 1, p[2]>> \in Ranges /\ <<p[1], mid - 1>> \in Ranges
<1>1. p[1] \in 1..Len(name) + 1 /\ p[2] \in 0..Len(name)
  BY DEF Ranges
<1> DEFINE b == p[1]  e == p[2]
<1>2. b \in Nat /\ e \in Nat /\ b <= e /\ mid = (b + e) \div 2
  BY <1>1
<1> HIDE DEF b, e
<1>3. mid \in b..e
  BY <1>2
<1>4. mid \in p[1]..p[2]
  BY <1>3 DEF b, e
<1> QED
  BY <1>1, <1>4 DEF Ranges

\* The length of a range.
Size(p) == p[2] - p[1] + 1

LEMMA SizeInt ==
  ASSUME Len(name) \in Nat
  PROVE  \A p \in Ranges : Size(p) \in Int /\ Size(p) <= Len(name) + 1
  BY DEF Size, Ranges

\* A round on a range looks at shorter ranges only.
LEMMA RoundShorter ==
  ASSUME Len(name) \in Nat, NEW n, NEW p \in Ranges, NEW f, NEW g,
         \A q \in Ranges : Size(q) < Size(p) => f[q] = g[q]
  PROVE  Round(n, f, p) = Round(n, g, p)
<1> DEFINE mid == (p[1] + p[2]) \div 2
<1>1. CASE p[1] > p[2]
  BY <1>1 DEF Round
<1>2. CASE ~(p[1] > p[2])
  <2>0. p[1] \in Int /\ p[2] \in Int
    BY DEF Ranges
  <2>1. /\ mid \in p[1]..p[2] /\ mid \in 1..Len(name)
        /\ <<mid + 1, p[2]>> \in Ranges /\ <<p[1], mid - 1>> \in Ranges
    BY <1>2, <2>0, Shorter
  <2> HIDE DEF mid
  <2>2. Size(<<mid + 1, p[2]>>) < Size(p) /\ Size(<<p[1], mid - 1>>) < Size(p)
    BY <2>0, <2>1 DEF Size
  <2>3. f[<<mid + 1, p[2]>>] = g[<<mid + 1, p[2]>>] /\ f[<<p[1], mid - 1>>] = g[<<p[1], mid - 1>>]
    BY <2>1, <2>2
  <2>4. \A F : Round(n, F, p) = IF name[mid].name = n THEN [found |-> TRUE, at |-> mid]
                  ELSE IF name[mid].name < n THEN F[<<mid + 1, p[2]>>] ELSE F[<<p[1], mid - 1>>]
    BY <1>2 DEF Round, mid
  <2> QED
    BY <2>3, <2>4
<1> QED
  BY <1>1, <1>2

\* The function that Search defines exists, so that it is one round at every range.
LEMMA SearchExists ==
  ASSUME Len(name) \in Nat, NEW n
  PROVE  \E s : s = [p \in Ranges |-> Round(n, s, p)]
<1> DEFINE OK(m, f) == \A p \in Ranges : Size(p) <= m => f[p] = Round(n, f, p)
           Bad == {m \in Nat : ~ \E f : OK(m, f)}
<1>1. Bad = {}
  <2> SUFFICES ASSUME Bad # {} PROVE FALSE
    OBVIOUS
  <2>1. PICK m \in Bad : \A k \in Bad : m <= k
    <3>1. Bad \in SUBSET Nat
      OBVIOUS
    <3> HIDE DEF Bad
    <3> QED
      BY <3>1, LeastOf
  <2>0. m \in Nat
    BY <2>1
  <2>2. \E f : \A p \in Ranges : Size(p) < m => f[p] = Round(n, f, p)
    <3>1. CASE m = 0
      <4> DEFINE f == [p \in Ranges |-> Round(n, <<>>, p)]
      <4>1. \A p \in Ranges : Size(p) < 0 => p[1] > p[2]
        BY DEF Size, Ranges
      <4>2. \A p \in Ranges : p[1] > p[2] => f[p] = Round(n, f, p)
        BY DEF Round
      <4> QED
        BY <3>1, <4>1, <4>2
    <3>2. CASE m # 0
      <4>1. m - 1 \in Nat /\ m - 1 \notin Bad
        BY <2>1, <3>2
      <4>2. PICK f : OK(m - 1, f)
        BY <4>1
      <4>3. \A p \in Ranges : Size(p) < m => Size(p) <= m - 1
        <5> HIDE DEF Bad
        <5> QED
          BY <2>0, SizeInt
      <4> QED
        BY <4>2, <4>3
    <3> QED
      BY <3>1, <3>2
  <2>3. PICK f : \A p \in Ranges : Size(p) < m => f[p] = Round(n, f, p)
    BY <2>2
  <2> DEFINE g == [p \in Ranges |-> Round(n, f, p)]
  <2>4. \A p \in Ranges : g[p] = Round(n, f, p)
    OBVIOUS
  <2> HIDE DEF g
  <2>5. ASSUME NEW p \in Ranges, Size(p) <= m PROVE g[p] = Round(n, g, p)
    <3>1. \A q \in Ranges : Size(q) < Size(p) => f[q] = g[q]
      <4> TAKE q \in Ranges
      <4> HAVE Size(q) < Size(p)
      <4>1. Size(q) < m
        <5> HIDE DEF Bad
        <5> QED
          BY <2>0, <2>5, SizeInt
      <4> QED
        BY <2>3, <2>4, <4>1
    <3>2. Round(n, f, p) = Round(n, g, p)
      BY <3>1, RoundShorter
    <3> QED
      BY <2>4, <3>2
  <2> QED
    BY <2>1, <2>5
<1>2. PICK f : OK(Len(name) + 1, f)
  <2> HIDE DEF OK
  <2>1. \A m \in Nat : \E f : OK(m, f)
    BY <1>1
  <2>2. Len(name) + 1 \in Nat
    OBVIOUS
  <2> HIDE DEF Bad
  <2> QED
    BY <2>1, <2>2
<1>3. \A p \in Ranges : Size(p) <= Len(name) + 1
  BY SizeInt
<1> DEFINE s == [p \in Ranges |-> Round(n, f, p)]
<1>4. \A p \in Ranges : f[p] = Round(n, f, p) /\ s[p] = Round(n, f, p)
  BY <1>2, <1>3
<1>5. \A p \in Ranges : Round(n, f, p) = Round(n, s, p)
  <2> TAKE p \in Ranges
  <2>1. \A q \in Ranges : f[q] = s[q]
    BY <1>4
  <2> HIDE DEF s
  <2> QED
    BY <2>1, RoundShorter
<1>6. s = [p \in Ranges |-> Round(n, s, p)]
  <2>1. s = [p \in Ranges |-> Round(n, f, p)]
    OBVIOUS
  <2> HIDE DEF s
  <2> QED
    BY <1>5, <2>1
<1> HIDE DEF s
<1> QED
  BY <1>6

\* What the search promises: the place of n, or the place where n belongs.
Finds(n, r) ==
  /\ r.found \in BOOLEAN
  /\ r.found => r.at \in 1..Len(name) /\ name[r.at].name = n
  /\ ~r.found => /\ r.at \in 1..Len(name) + 1
                 /\ \A i \in 1..Len(name) : IF i < r.at THEN name[i].name < n ELSE n < name[i].name

\* The names before a range are too small and those after it too large.
Between(n, p) ==
  /\ p[1] <= p[2] + 1
  /\ \A i \in 1..Len(name) : (i < p[1] => name[i].name < n) /\ (i > p[2] => n < name[i].name)

\* A round keeps n between the ends of the range.
LEMMA RoundFinds ==
  ASSUME NamesSorted, NEW n \in Names, NEW f, NEW p \in Ranges, Between(n, p),
         \A q \in Ranges : Size(q) < Size(p) /\ Between(n, q) => Finds(n, f[q])
  PROVE  Finds(n, Round(n, f, p))
<1> DEFINE mid == (p[1] + p[2]) \div 2
<1>0. /\ Len(name) \in Nat /\ n \in Nat /\ \A i \in 1..Len(name) : name[i] \in Entry /\ name[i].name \in Nat
      /\ p[1] \in 1..Len(name) + 1 /\ p[2] \in 0..Len(name)
  <2>1. Len(name) \in Nat /\ \A i \in 1..Len(name) : name[i] \in Entry
    BY LenProperties, ElementOfSeq DEF NamesSorted
  <2>2. \A e \in Entry : e.name \in Nat
    BY NamesAssumption DEF Entry
  <2>3. p[1] \in 1..Len(name) + 1 /\ p[2] \in 0..Len(name)
    BY DEF Ranges
  <2>4. n \in Nat
    BY NamesAssumption
  <2> QED
    BY <2>1, <2>2, <2>3, <2>4
<1>1. CASE p[1] > p[2]
  <2>1. Round(n, f, p) = [found |-> FALSE, at |-> p[1]]
    BY <1>1 DEF Round
  <2>2. p[1] = p[2] + 1
    BY <1>0, <1>1 DEF Between
  <2> QED
    BY <1>0, <2>1, <2>2 DEF Finds, Between
<1>2. CASE ~(p[1] > p[2])
  <2>1. /\ mid \in p[1]..p[2] /\ mid \in 1..Len(name)
        /\ <<mid + 1, p[2]>> \in Ranges /\ <<p[1], mid - 1>> \in Ranges
    <3>1. p[1] <= p[2]
      BY <1>0, <1>2
    <3> QED
      BY <1>0, <3>1, Shorter
  <2>2. Round(n, f, p) = IF name[mid].name = n THEN [found |-> TRUE, at |-> mid]
                  ELSE IF name[mid].name < n THEN f[<<mid + 1, p[2]>>] ELSE f[<<p[1], mid - 1>>]
    BY <1>2 DEF Round
  <2> HIDE DEF mid
  <2>3. Size(<<mid + 1, p[2]>>) < Size(p) /\ Size(<<p[1], mid - 1>>) < Size(p)
    BY <1>0, <2>1 DEF Size
  <2>4. CASE name[mid].name = n
    BY <2>1, <2>2, <2>4 DEF Finds
  <2>5. CASE name[mid].name < n
    <3>1. Between(n, <<mid + 1, p[2]>>)
      <4>1. ASSUME NEW i \in 1..Len(name), i < mid + 1 PROVE name[i].name < n
        <5>1. i = mid \/ i < mid
          BY <1>0, <2>1, <4>1
        <5>2. name[i].name \in Nat /\ name[mid].name \in Nat
          BY <1>0, <2>1
        <5>3. i < mid => name[i].name < name[mid].name
          BY <2>1 DEF NamesSorted
        <5> QED
          BY <1>0, <2>5, <5>1, <5>2, <5>3
      <4> QED
        BY <1>0, <2>1, <4>1 DEF Between
    <3>2. Round(n, f, p) = f[<<mid + 1, p[2]>>]
      BY <1>0, <2>1, <2>2, <2>5
    <3> QED
      BY <2>1, <2>3, <3>1, <3>2
  <2>6. CASE n < name[mid].name
    <3>1. Between(n, <<p[1], mid - 1>>)
      <4>1. ASSUME NEW i \in 1..Len(name), i > mid - 1 PROVE n < name[i].name
        <5>1. i = mid \/ i > mid
          BY <1>0, <2>1, <4>1
        <5>2. name[i].name \in Nat /\ name[mid].name \in Nat
          BY <1>0, <2>1
        <5>3. i > mid => name[mid].name < name[i].name
          BY <2>1 DEF NamesSorted
        <5> QED
          BY <1>0, <2>6, <5>1, <5>2, <5>3
      <4> QED
        BY <1>0, <2>1, <4>1 DEF Between
    <3>2. Round(n, f, p) = f[<<p[1], mid - 1>>]
      BY <1>0, <2>1, <2>2, <2>6
    <3> QED
      BY <2>1, <2>3, <3>1, <3>2
  <2> QED
    BY <1>0, <2>1, <2>4, <2>5, <2>6
<1> QED
  BY <1>1, <1>2

\* In a sorted array the binary search finds a name that is there and the
\* place of one that is not.
LEMMA SearchFinds ==
  ASSUME NamesSorted, NEW n \in Names
  PROVE  Finds(n, Search(n))
<1>0. Len(name) \in Nat
  BY LenProperties DEF NamesSorted
<1> DEFINE s == CHOOSE s : s = [p \in Ranges |-> Round(n, s, p)]
<1>1. s = [p \in Ranges |-> Round(n, s, p)]
  BY <1>0, SearchExists
<1>2. Search(n) = s[<<1, Len(name)>>]
  BY SearchIs
<1> HIDE DEF s
<1>3. \A p \in Ranges : s[p] = Round(n, s, p)
  BY <1>1
<1> DEFINE Bad == {m \in Nat : \E p \in Ranges : m = Size(p) /\ Between(n, p) /\ ~Finds(n, s[p])}
<1>4. Bad = {}
  <2> SUFFICES ASSUME Bad # {} PROVE FALSE
    OBVIOUS
  <2>1. PICK m \in Bad : \A k \in Bad : m <= k
    <3>1. Bad \in SUBSET Nat
      OBVIOUS
    <3> HIDE DEF Bad
    <3> QED
      BY <3>1, LeastOf
  <2>2. PICK p \in Ranges : m = Size(p) /\ Between(n, p) /\ ~Finds(n, s[p])
    BY <2>1
  <2>3. \A q \in Ranges : Between(n, q) => Size(q) \in Nat
    <3> TAKE q \in Ranges
    <3>1. q[1] \in Nat /\ q[2] \in Nat
      BY <1>0 DEF Ranges
    <3>2. Between(n, q) => q[1] <= q[2] + 1
      BY DEF Between
    <3> QED
      BY <3>1, <3>2 DEF Size
  <2>4. \A q \in Ranges : Size(q) < Size(p) /\ Between(n, q) => Finds(n, s[q])
    <3> TAKE q \in Ranges
    <3> HAVE Size(q) < Size(p) /\ Between(n, q)
    <3>1. Size(q) \in Nat /\ Size(p) \in Nat
      BY <2>2, <2>3
    <3>2. Size(q) \notin Bad
      <4> HIDE DEF Bad
      <4> QED
        BY <2>1, <2>2, <3>1
    <3> QED
      BY <3>1, <3>2
  <2>5. Finds(n, Round(n, s, p))
    BY <2>2, <2>4, RoundFinds
  <2> QED
    BY <1>3, <2>2, <2>5
<1>5. /\ <<1, Len(name)>> \in Ranges /\ Between(n, <<1, Len(name)>>)
      /\ Size(<<1, Len(name)>>) \in Nat
  BY <1>0 DEF Ranges, Between, Size
<1>6. Finds(n, s[<<1, Len(name)>>])
  BY <1>4, <1>5
<1> QED
  BY <1>2, <1>6

\* skynet_handle_findname answers with the handle of the one entry of a name,
\* and with 0 when there is none.
FindsNames == \A n \in Names :
  /\ \A i \in 1..Len(name) : name[i].name = n => findname(n) = name[i].handle
  /\ (\A i \in 1..Len(name) : name[i].name # n) => findname(n) = 0

LEMMA SortedFinds == NamesSorted => FindsNames
<1> SUFFICES ASSUME NamesSorted, NEW n \in Names
             PROVE  /\ \A i \in 1..Len(name) : name[i].name = n => findname(n) = name[i].handle
                    /\ (\A i \in 1..Len(name) : name[i].name # n) => findname(n) = 0
  BY DEF FindsNames
<1> DEFINE r == Search(n)
<1>1. Finds(n, r)
  BY SearchFinds
<1>2. findname(n) = IF r.found THEN name[r.at].handle ELSE 0
  BY DEF findname
<1> HIDE DEF r
<1>3. Len(name) \in Nat /\ n \in Nat
  BY NamesAssumption, LenProperties DEF NamesSorted
<1>4. ASSUME NEW i \in 1..Len(name), name[i].name = n PROVE findname(n) = name[i].handle
  <2>1. r.found
    BY <1>1, <1>3, <1>4 DEF Finds
  <2>2. r.at \in 1..Len(name) /\ name[r.at].name = n
    BY <1>1, <2>1 DEF Finds
  <2>3. ~(r.at < i) /\ ~(i < r.at)
    <3>1. \A j, k \in 1..Len(name) : j < k => name[j].name < name[k].name
      BY DEF NamesSorted
    <3>2. ~(name[i].name < name[r.at].name) /\ ~(name[r.at].name < name[i].name)
      BY <1>3, <1>4, <2>2
    <3> QED
      BY <2>2, <3>1, <3>2
  <2>4. r.at = i
    BY <1>3, <2>2, <2>3
  <2> QED
    BY <1>2, <2>1, <2>4
<1>5. ASSUME \A i \in 1..Len(name) : name[i].name # n PROVE findname(n) = 0
  <2>1. ~r.found
    BY <1>1, <1>5 DEF Finds
  <2> QED
    BY <1>2, <2>1
<1> QED
  BY <1>4, <1>5

LEMMA SortedFindsNext == NamesSorted' => FindsNames'
  BY SortedFinds, PTL

-----------------------------------------------------------------------------
\* One round of the loop that compacts the array.
Copy(h, f, k) ==
  IF k = 0 THEN <<>>
  ELSE IF name[k].handle = h THEN f[k - 1] ELSE Append(f[k - 1], name[k])

LEMMA KeptIs ==
  ASSUME NEW h
  PROVE  Kept(h) = (CHOOSE w : w = [k \in 0..Len(name) |-> Copy(h, w, k)])[Len(name)]
  BY DEF Kept, Copy

\* The function that Kept defines exists.
LEMMA KeptExists ==
  ASSUME Len(name) \in Nat, NEW h
  PROVE  \E w : w = [k \in 0..Len(name) |-> Copy(h, w, k)]
<1> DEFINE OK(m, f) == \A k \in 0..Len(name) : k <= m => f[k] = Copy(h, f, k)
           Bad == {m \in Nat : ~ \E f : OK(m, f)}
<1>0. ASSUME NEW k \in 0..Len(name), NEW f, NEW g, \A j \in 0..Len(name) : j < k => f[j] = g[j]
      PROVE  Copy(h, f, k) = Copy(h, g, k)
  <2>1. k # 0 => k - 1 \in 0..Len(name) /\ k - 1 < k
    OBVIOUS
  <2>2. k # 0 => f[k - 1] = g[k - 1]
    BY <1>0, <2>1
  <2> QED
    BY <2>2 DEF Copy
<1>1. Bad = {}
  <2> SUFFICES ASSUME Bad # {} PROVE FALSE
    OBVIOUS
  <2>1. PICK m \in Bad : \A k \in Bad : m <= k
    <3>1. Bad \in SUBSET Nat
      OBVIOUS
    <3> HIDE DEF Bad
    <3> QED
      BY <3>1, LeastOf
  <2>0. m \in Nat
    BY <2>1
  <2>2. \E f : \A k \in 0..Len(name) : k < m => f[k] = Copy(h, f, k)
    <3>1. CASE m = 0
      BY <3>1
    <3>2. CASE m # 0
      <4>1. m - 1 \in Nat /\ m - 1 \notin Bad
        <5> HIDE DEF Bad
        <5> QED
          BY <2>0, <2>1, <3>2
      <4>2. PICK f : OK(m - 1, f)
        BY <4>1
      <4>3. \A k \in 0..Len(name) : k < m => k <= m - 1
        <5> HIDE DEF Bad
        <5> QED
          BY <2>0
      <4> QED
        BY <4>2, <4>3
    <3> QED
      BY <3>1, <3>2
  <2>3. PICK f : \A k \in 0..Len(name) : k < m => f[k] = Copy(h, f, k)
    BY <2>2
  <2> DEFINE g == [k \in 0..Len(name) |-> Copy(h, f, k)]
  <2>4. \A k \in 0..Len(name) : g[k] = Copy(h, f, k)
    OBVIOUS
  <2> HIDE DEF g, Bad
  <2>5. ASSUME NEW k \in 0..Len(name), k <= m PROVE g[k] = Copy(h, g, k)
    <3>1. \A j \in 0..Len(name) : j < k => f[j] = g[j]
      BY <2>0, <2>3, <2>4, <2>5
    <3>2. Copy(h, f, k) = Copy(h, g, k)
      BY <1>0, <3>1
    <3> QED
      BY <2>4, <3>2
  <2> QED
    BY <2>1, <2>5 DEF Bad
<1>2. PICK f : OK(Len(name), f)
  <2> HIDE DEF OK
  <2>1. \A m \in Nat : \E f : OK(m, f)
    BY <1>1
  <2> HIDE DEF Bad
  <2> QED
    BY <2>1
<1> DEFINE w == [k \in 0..Len(name) |-> Copy(h, f, k)]
<1>3. \A k \in 0..Len(name) : f[k] = Copy(h, f, k) /\ w[k] = Copy(h, f, k)
  BY <1>2
<1>4. w = [k \in 0..Len(name) |-> Copy(h, f, k)]
  OBVIOUS
<1> HIDE DEF w
<1>5. \A k \in 0..Len(name) : Copy(h, f, k) = Copy(h, w, k)
  <2>1. \A j \in 0..Len(name) : f[j] = w[j]
    BY <1>3
  <2> QED
    BY <1>0, <2>1
<1>6. w = [k \in 0..Len(name) |-> Copy(h, w, k)]
  BY <1>4, <1>5
<1> QED
  BY <1>6

\* A compacted array: sorted entries, those of the first k places that are not h's.
Compact(h, k, t) ==
  /\ t \in Seq(Entry) /\ Len(t) <= k
  /\ \A i, j \in 1..Len(t) : i < j => t[i].name < t[j].name
  /\ \A i \in 1..Len(t) : \E j \in 1..k : t[i] = name[j] /\ name[j].handle # h
  /\ \A j \in 1..k : name[j].handle # h => \E i \in 1..Len(t) : t[i] = name[j]

LEMMA CopyCompacts ==
  ASSUME NamesSorted, NEW h, NEW k \in 1..Len(name), NEW f, Compact(h, k - 1, f[k - 1])
  PROVE  Compact(h, k, Copy(h, f, k))
<1> DEFINE t == f[k - 1]
           e == name[k]
<1>0. Len(name) \in Nat /\ e \in Entry /\ k \in Nat \ {0} /\ \A i \in 1..Len(name) : name[i] \in Entry
  BY LenProperties, ElementOfSeq DEF NamesSorted
<1>1. /\ t \in Seq(Entry) /\ Len(t) <= k - 1 /\ Len(t) \in Nat
      /\ \A i, j \in 1..Len(t) : i < j => t[i].name < t[j].name
      /\ \A i \in 1..Len(t) : \E j \in 1..k - 1 : t[i] = name[j] /\ name[j].handle # h
      /\ \A j \in 1..k - 1 : name[j].handle # h => \E i \in 1..Len(t) : t[i] = name[j]
  BY LenProperties DEF Compact
<1>2. Copy(h, f, k) = IF e.handle = h THEN t ELSE Append(t, e)
  BY <1>0 DEF Copy
<1>3. 1..k = (1..k - 1) \cup {k}
  BY <1>0
<1>4. \A j \in 1..k - 1 : name[j].name < e.name
  BY <1>0 DEF NamesSorted
<1> HIDE DEF t
<1>5. CASE e.handle = h
  <2>1. Copy(h, f, k) = t
    BY <1>2, <1>5
  <2>2. Len(t) <= k
    BY <1>0, <1>1
  <2>3. \A i \in 1..Len(t) : \E j \in 1..k : t[i] = name[j] /\ name[j].handle # h
    BY <1>1, <1>3
  <2>4. \A j \in 1..k : name[j].handle # h => \E i \in 1..Len(t) : t[i] = name[j]
    BY <1>1, <1>3, <1>5
  <2> QED
    BY <1>1, <2>1, <2>2, <2>3, <2>4 DEF Compact
<1>6. CASE e.handle # h
  <2> HIDE DEF e
  <2> DEFINE u == Append(t, e)
  <2>1. /\ u \in Seq(Entry) /\ Len(u) = Len(t) + 1 /\ u[Len(t) + 1] = e
        /\ \A i \in 1..Len(t) : u[i] = t[i]
    BY <1>0, <1>1, AppendProperties
  <2> HIDE DEF u
  <2>2. 1..Len(u) = (1..Len(t)) \cup {Len(t) + 1}
    BY <1>1, <2>1
  <2>3. \A i \in 1..Len(t) : t[i].name < e.name
    BY <1>1, <1>4
  <2>4. \A i, j \in 1..Len(u) : i < j => u[i].name < u[j].name
    <3> TAKE i, j \in 1..Len(u)
    <3> HAVE i < j
    <3>1. i \in 1..Len(t)
      BY <1>1, <2>1
    <3>2. CASE j \in 1..Len(t)
      BY <1>1, <2>1, <3>1, <3>2
    <3>3. CASE j = Len(t) + 1
      BY <2>1, <2>3, <3>1, <3>3
    <3> QED
      BY <2>2, <3>2, <3>3
  <2>5. \A i \in 1..Len(u) : \E j \in 1..k : u[i] = name[j] /\ name[j].handle # h
    <3>1. \A i \in 1..Len(t) : \E j \in 1..k : u[i] = name[j] /\ name[j].handle # h
      BY <1>1, <1>3, <2>1
    <3>2. u[Len(t) + 1] = name[k] /\ name[k].handle # h /\ k \in 1..k
      BY <1>0, <1>6, <2>1 DEF e
    <3> QED
      BY <2>2, <3>1, <3>2
  <2>6. \A j \in 1..k : name[j].handle # h => \E i \in 1..Len(u) : u[i] = name[j]
    <3>1. \A j \in 1..k - 1 : name[j].handle # h => \E i \in 1..Len(u) : u[i] = name[j]
      BY <1>1, <2>1, <2>2
    <3>2. \E i \in 1..Len(u) : u[i] = name[k]
      BY <2>1, <2>2 DEF e
    <3> QED
      BY <1>3, <3>1, <3>2
  <2>7. Len(u) <= k
    BY <1>0, <1>1, <2>1
  <2>8. Copy(h, f, k) = u
    BY <1>2, <1>6 DEF u
  <2> QED
    BY <2>1, <2>4, <2>5, <2>6, <2>7, <2>8 DEF Compact
<1> QED
  BY <1>5, <1>6

\* skynet_handle_retire keeps exactly the entries of other handles, in order.
LEMMA KeptCompact ==
  ASSUME NamesSorted, NEW h
  PROVE  Compact(h, Len(name), Kept(h))
<1>0. Len(name) \in Nat
  BY LenProperties DEF NamesSorted
<1> DEFINE w == CHOOSE w : w = [k \in 0..Len(name) |-> Copy(h, w, k)]
<1>1. w = [k \in 0..Len(name) |-> Copy(h, w, k)]
  BY <1>0, KeptExists
<1>2. Kept(h) = w[Len(name)]
  BY KeptIs
<1> HIDE DEF w
<1>3. \A k \in 0..Len(name) : w[k] = Copy(h, w, k)
  BY <1>1
<1> DEFINE Bad == {k \in 0..Len(name) : ~Compact(h, k, w[k])}
<1>4. Bad = {}
  <2> SUFFICES ASSUME Bad # {} PROVE FALSE
    OBVIOUS
  <2>1. PICK k \in Bad : \A j \in Bad : k <= j
    <3>1. Bad \in SUBSET Nat
      BY <1>0
    <3> HIDE DEF Bad
    <3> QED
      BY <3>1, LeastOf
  <2>2. k \in 0..Len(name) /\ ~Compact(h, k, w[k])
    BY <2>1
  <2>3. CASE k = 0
    <3>1. w[0] = <<>>
      BY <1>0, <1>3 DEF Copy
    <3>2. Compact(h, 0, <<>>)
      BY EmptySeq DEF Compact
    <3> QED
      BY <2>2, <2>3, <3>1, <3>2
  <2>4. CASE k # 0
    <3>1. k - 1 \in 0..Len(name) /\ k \in 1..Len(name) /\ ~(k <= k - 1)
      BY <1>0, <2>2, <2>4
    <3>2. Compact(h, k - 1, w[k - 1])
      BY <2>1, <3>1
    <3>3. Compact(h, k, Copy(h, w, k))
      BY <3>1, <3>2, CopyCompacts
    <3> QED
      BY <1>3, <2>2, <3>3
  <2> QED
    BY <2>3, <2>4
<1>5. Len(name) \in 0..Len(name)
  BY <1>0
<1> QED
  BY <1>2, <1>4, <1>5

-----------------------------------------------------------------------------
(* The name table, however many threads launch services.                   *)

\* The name array is sorted and large enough, and a context's handle field is
\* what registration gave it from the store until it is retired.
NamesInv ==
  /\ NamesSorted
  /\ name_cap \in Nat \ {0} /\ Len(name) <= name_cap
  /\ \A c \in Ctx : handle[c] = IF launch[c] = "live" THEN given[c] ELSE 0

\* _insert_name_before: the entries around the place of the new one.
LEMMA InsertAt ==
  ASSUME name \in Seq(Entry), NEW e \in Entry, NEW p \in 1..Len(name) + 1, insert_before(e, p)
  PROVE  /\ name' \in Seq(Entry) /\ Len(name') = Len(name) + 1
         /\ \A i \in 1..Len(name) + 1 :
              name'[i] = IF i < p THEN name[i] ELSE IF i = p THEN e ELSE name[i - 1]
<1> DEFINE L == SubSeq(name, 1, p - 1)
           R == SubSeq(name, p, Len(name))
           M == L \o <<e>>
<1>0. Len(name) \in Nat /\ p \in Nat \ {0} /\ p <= Len(name) + 1
      /\ \A i \in 1..Len(name) : name[i] \in Entry
  BY LenProperties, ElementOfSeq
<1>1. L \in Seq(Entry) /\ Len(L) = p - 1 /\ \A i \in 1..p - 1 : L[i] = name[i]
  <2>1. \A i \in 1..p - 1 : name[i] \in Entry
    BY <1>0
  <2> QED
    BY <1>0, <2>1, SubSeqProperties
<1>2. R \in Seq(Entry) /\ Len(R) = Len(name) + 1 - p
      /\ \A i \in 1..Len(name) + 1 - p : R[i] = name[p + i - 1]
  <2>1. \A i \in p..Len(name) : name[i] \in Entry
    BY <1>0
  <2> QED
    BY <1>0, <2>1, SubSeqProperties
<1>3. <<e>> \in Seq(Entry) /\ Len(<<e>>) = 1 /\ <<e>>[1] = e
  OBVIOUS
<1> HIDE DEF L, R
<1>4. M \in Seq(Entry) /\ Len(M) = p /\ \A i \in 1..p : M[i] = IF i < p THEN name[i] ELSE e
  BY <1>0, <1>1, <1>3, ConcatProperties
<1>5. name' = M \o R
  BY DEF insert_before, L, R
<1> HIDE DEF M
<1>6. /\ M \o R \in Seq(Entry) /\ Len(M \o R) = Len(name) + 1
      /\ \A i \in 1..Len(name) + 1 : (M \o R)[i] = IF i <= p THEN M[i] ELSE R[i - p]
  BY <1>0, <1>2, <1>4, ConcatProperties
<1>7. ASSUME NEW i \in 1..Len(name) + 1
      PROVE  name'[i] = IF i < p THEN name[i] ELSE IF i = p THEN e ELSE name[i - 1]
  <2>1. CASE i <= p
    <3>1. i \in 1..p
      BY <1>0, <2>1
    <3> QED
      BY <1>0, <1>4, <1>5, <1>6, <2>1, <3>1
  <2>2. CASE ~(i <= p)
    <3>1. i - p \in 1..Len(name) + 1 - p /\ p + (i - p) - 1 = i - 1
      BY <1>0, <2>2
    <3>2. R[i - p] = name[i - 1]
      BY <1>2, <3>1
    <3> QED
      BY <1>0, <1>5, <1>6, <2>2, <3>2
  <2> QED
    BY <2>1, <2>2
<1> QED
  BY <1>5, <1>6, <1>7

\* skynet_handle_namehandle keeps the array sorted and every entry in it.
LEMMA NameHandleNames ==
  ASSUME NamesSorted, NEW h \in Handles \ {0}, NEW n \in Names, NameHandle(h, n)
  PROVE  /\ NamesSorted' /\ Len(name') = Len(name) + 1
         /\ \A i \in 1..Len(name) : \E j \in 1..Len(name') : name'[j] = name[i]
<1> DEFINE p == Search(n).at
           e == [name |-> n, handle |-> h]
<1>0. Len(name) \in Nat /\ n \in Nat /\ name \in Seq(Entry)
  BY NamesAssumption, LenProperties DEF NamesSorted
<1>1. Finds(n, Search(n)) /\ ~Search(n).found
  BY SearchFinds DEF NameHandle
<1>2. /\ p \in 1..Len(name) + 1
      /\ \A i \in 1..Len(name) : IF i < p THEN name[i].name < n ELSE n < name[i].name
  BY <1>1 DEF Finds
<1>3. insert_before(e, p) /\ e \in Entry /\ e.name = n
  BY DEF NameHandle, Entry
<1> HIDE DEF p, e
<1>4. /\ name' \in Seq(Entry) /\ Len(name') = Len(name) + 1
      /\ \A i \in 1..Len(name) + 1 :
           name'[i] = IF i < p THEN name[i] ELSE IF i = p THEN e ELSE name[i - 1]
  BY <1>0, <1>2, <1>3, InsertAt
<1>5. ASSUME NEW i \in 1..Len(name'), NEW j \in 1..Len(name'), i < j
      PROVE  name'[i].name < name'[j].name
  <2>1. i \in 1..Len(name) + 1 /\ j \in 1..Len(name) + 1
    BY <1>4
  <2>2. CASE j < p
    <3>1. name'[i] = name[i] /\ name'[j] = name[j] /\ i \in 1..Len(name) /\ j \in 1..Len(name)
      BY <1>0, <1>2, <1>4, <1>5, <2>1, <2>2
    <3> QED
      BY <1>5, <3>1 DEF NamesSorted
  <2>3. CASE j = p
    <3>1. name'[i] = name[i] /\ name'[j] = e /\ i \in 1..Len(name) /\ i < p
      BY <1>0, <1>2, <1>4, <1>5, <2>1, <2>3
    <3> QED
      BY <1>2, <1>3, <3>1
  <2>4. CASE j > p /\ i = p
    <3>1. name'[i] = e /\ name'[j] = name[j - 1] /\ j - 1 \in 1..Len(name) /\ ~(j - 1 < p)
      BY <1>0, <1>2, <1>4, <2>1, <2>4
    <3> QED
      BY <1>2, <1>3, <3>1
  <2>5. CASE j > p /\ i < p
    <3>1. name'[i] = name[i] /\ name'[j] = name[j - 1]
          /\ i \in 1..Len(name) /\ j - 1 \in 1..Len(name) /\ i < j - 1
      BY <1>0, <1>2, <1>4, <2>1, <2>5
    <3> QED
      BY <3>1 DEF NamesSorted
  <2>6. CASE i > p
    <3>1. name'[i] = name[i - 1] /\ name'[j] = name[j - 1]
          /\ i - 1 \in 1..Len(name) /\ j - 1 \in 1..Len(name) /\ i - 1 < j - 1
      BY <1>0, <1>2, <1>4, <1>5, <2>1, <2>6
    <3> QED
      BY <3>1 DEF NamesSorted
  <2> QED
    BY <1>0, <1>2, <1>5, <2>1, <2>2, <2>3, <2>4, <2>5, <2>6
<1>6. \A i \in 1..Len(name) : \E j \in 1..Len(name') : name'[j] = name[i]
  <2> TAKE i \in 1..Len(name)
  <2>1. CASE i < p
    <3>1. i \in 1..Len(name) + 1 /\ name'[i] = name[i]
      BY <1>0, <1>4, <2>1
    <3> QED
      BY <1>4, <3>1
  <2>2. CASE ~(i < p)
    <3>1. i + 1 \in 1..Len(name) + 1 /\ ~(i + 1 < p) /\ i + 1 # p /\ i + 1 - 1 = i
      BY <1>0, <1>2, <2>2
    <3>2. name'[i + 1] = name[i]
      BY <1>4, <3>1
    <3> QED
      BY <1>4, <3>1, <3>2
  <2> QED
    BY <2>1, <2>2
<1> QED
  BY <1>4, <1>5, <1>6 DEF NamesSorted

\* skynet_handle_retire keeps the entries of the others and drops its own.
LEMMA RetireNames ==
  ASSUME NamesSorted, NEW h \in Handles \ {0}, Retire(h)
  PROVE  NamesSorted' /\ Len(name') <= Len(name) /\ Compact(h, Len(name), name')
<1>1. name' = Kept(h)
  BY DEF Retire
<1>2. Compact(h, Len(name), name')
  BY <1>1, KeptCompact
<1> QED
  BY <1>2 DEF Compact, NamesSorted

\* The handle field through every operation.
LEMMA FieldKept ==
  ASSUME TableInv, NamesInv, [Next]_vars
  PROVE  \A c \in Ctx : handle'[c] = IF launch'[c] = "live" THEN given'[c] ELSE 0
<1> DEFINE Field == \A c \in Ctx : handle'[c] = IF launch'[c] = "live" THEN given'[c] ELSE 0
<1>0. /\ launch \in [Ctx -> {"none", "new", "live"}] /\ handle \in [Ctx -> Handles \cup {0}]
      /\ given \in [Ctx -> Handles \cup {0}]
      /\ \A c \in Ctx : handle[c] = IF launch[c] = "live" THEN given[c] ELSE 0
  BY DEF TableInv, HandleTypeOK, NamesInv
<1>1. ASSUME NEW c \in Ctx, StartLaunch(c), \A d \in Ctx \ {c} : given'[d] = given[d] PROVE Field
  BY <1>0, <1>1 DEF StartLaunch
<1>2. ASSUME NEW c \in Ctx, NEW table, NEW size, Take(c, table, size)
      PROVE  \A d \in Ctx \ {c} : given'[d] = given[d]
  BY <1>0, <1>2 DEF Take
<1>3. ASSUME NEW c \in Ctx, Register(c) \/ RegisterGrow(c) \/ RegisterAssert(c) PROVE Field
  <2>1. StartLaunch(c) /\ \A d \in Ctx \ {c} : given'[d] = given[d]
    <3>1. CASE Register(c)
      BY <1>2, <3>1 DEF Register
    <3>2. CASE RegisterGrow(c)
      BY <1>2, <3>2 DEF RegisterGrow
    <3>3. CASE RegisterAssert(c)
      BY <3>3 DEF RegisterAssert
    <3> QED
      BY <1>3, <3>1, <3>2, <3>3
  <2> QED
    BY <1>1, <2>1
<1>4. ASSUME NEW c \in Ctx, SetHandle(c) PROVE Field
  BY <1>0, <1>4 DEF SetHandle
<1>5. ASSUME NEW h \in Handles \ {0}, Retire(h) PROVE Field
  <2>1. grab(h) \in Ctx
    BY <1>5, GrabCtx DEF Retire, TableInv
  <2>2. /\ launch' = [launch EXCEPT ![grab(h)] = "none"]
        /\ handle' = [handle EXCEPT ![grab(h)] = 0] /\ given' = [given EXCEPT ![grab(h)] = 0]
    BY <1>5 DEF Retire
  <2> QED
    BY <1>0, <2>1, <2>2
<1>6. ASSUME UNCHANGED <<handle, launch, given>> PROVE Field
  BY <1>0, <1>6
<1>7. ASSUME NEW h \in Handles \ {0}, NEW n \in Names, NameHandle(h, n) PROVE Field
  BY <1>6, <1>7 DEF NameHandle
<1>8. CASE UNCHANGED vars
  BY <1>6, <1>8 DEF vars
<1> QED
  BY <1>3, <1>4, <1>5, <1>7, <1>8 DEF Next

\* Only naming and retiring touch the name array.
LEMMA NamesStep ==
  ASSUME [Next]_vars
  PROVE  \/ \E h \in Handles \ {0} : Retire(h) \/ \E n \in Names : NameHandle(h, n)
         \/ name' = name /\ name_cap' = name_cap
<1>1. ASSUME NEW c \in Ctx, Register(c) \/ RegisterGrow(c) \/ RegisterAssert(c) \/ SetHandle(c)
      PROVE  name' = name /\ name_cap' = name_cap
  BY <1>1 DEF Register, RegisterGrow, RegisterAssert, SetHandle, StartLaunch
<1>2. CASE UNCHANGED vars
  BY <1>2 DEF vars
<1> QED
  BY <1>1, <1>2 DEF Next

LEMMA NamesNext == TableInv /\ NamesInv /\ [Next]_vars => NamesInv'
<1> SUFFICES ASSUME TableInv, NamesInv, [Next]_vars PROVE NamesInv'
  OBVIOUS
<1>0. NamesSorted /\ name_cap \in Nat \ {0} /\ Len(name) <= name_cap /\ Len(name) \in Nat
  BY LenProperties DEF NamesInv, NamesSorted
<1>1. \A c \in Ctx : handle'[c] = IF launch'[c] = "live" THEN given'[c] ELSE 0
  BY FieldKept
<1>2. ASSUME NEW h \in Handles \ {0}, Retire(h)
      PROVE  NamesSorted' /\ name_cap' \in Nat \ {0} /\ Len(name') <= name_cap'
  <2>1. NamesSorted' /\ Len(name') <= Len(name) /\ name_cap' = name_cap
    BY <1>0, <1>2, RetireNames DEF Retire
  <2>2. Len(name') \in Nat
    BY <2>1, LenProperties DEF NamesSorted
  <2> QED
    BY <1>0, <2>1, <2>2
<1>3. ASSUME NEW h \in Handles \ {0}, NEW n \in Names, NameHandle(h, n)
      PROVE  NamesSorted' /\ name_cap' \in Nat \ {0} /\ Len(name') <= name_cap'
  <2>1. NamesSorted' /\ Len(name') = Len(name) + 1
    BY <1>0, <1>3, NameHandleNames
  <2>2. name_cap' = IF Len(name) >= name_cap THEN 2 * name_cap ELSE name_cap
    BY <1>3 DEF NameHandle
  <2> QED
    BY <1>0, <2>1, <2>2
<1>4. ASSUME name' = name, name_cap' = name_cap
      PROVE  NamesSorted' /\ name_cap' \in Nat \ {0} /\ Len(name') <= name_cap'
  BY <1>0, <1>4 DEF NamesSorted
<1> QED
  BY <1>1, <1>2, <1>3, <1>4, NamesStep DEF NamesInv

LEMMA InitNames == Init => NamesInv
<1> SUFFICES ASSUME Init PROVE NamesInv
  OBVIOUS
<1>1. name = <<>> /\ name_cap = 2 /\ name \in Seq(Entry) /\ Len(name) = 0
  BY EmptySeq DEF Init
<1> QED
  BY <1>1 DEF Init, NamesInv, NamesSorted

LEMMA NamesAreExact == NamesInv => NamesExact
<1> SUFFICES ASSUME NamesInv PROVE NamesExact
  OBVIOUS
<1>1. NamesSorted /\ Len(name) <= name_cap /\ FindsNames
  BY SortedFinds DEF NamesInv
<1>2. Len(name) \in Nat /\ \A i \in 1..Len(name) : name[i] \in Entry
  BY <1>1, LenProperties, ElementOfSeq DEF NamesSorted
<1>3. \A i \in 1..Len(name) : name[i].name \in Names
  BY <1>2 DEF Entry
<1>4. name \in Seq([name : Names, handle : Handles])
  <2>1. Entry \subseteq [name : Names, handle : Handles]
    BY DEF Entry
  <2> QED
    BY <1>1, <2>1, SeqMonotonic DEF NamesSorted
<1>5. \A i \in 1..Len(name) : findname(name[i].name) = name[i].handle
  BY <1>1, <1>3 DEF FindsNames
<1> QED
  BY <1>1, <1>4, <1>5 DEF NamesExact, NamesSorted

\* However many threads launch services: the name array is sorted, never
\* longer than its capacity, and skynet_handle_findname finds every name in it
\* with the handle it was registered for (_insert_name, _insert_name_before,
\* skynet_handle_findname, the compaction of skynet_handle_retire).
THEOREM NamesFound == Spec => []NamesExact
  BY InitNames, NamesNext, NamesAreExact, TableAddressed, PTL DEF Spec

\* What NamesKept asks of one step.
StepKeepsNames ==
  /\ \A n \in Names : findname(n) # 0 =>
       \/ findname(n)' = findname(n)
       \/ /\ findname(n)' = 0
          /\ \E c \in Ctx : given[c] = findname(n) /\ given'[c] = 0
  /\ \A c \in Ctx : launch[c] = "live" /\ launch'[c] = "none" =>
       \A n \in Names : findname(n)' # given[c]

\* A name that is found is the name of an entry, in this state and the next.
LEMMA FoundEntry ==
  ASSUME FindsNames, NEW n \in Names, findname(n) # 0
  PROVE  \E i \in 1..Len(name) : name[i].name = n /\ findname(n) = name[i].handle
  BY DEF FindsNames

LEMMA RetireKeepsNames ==
  ASSUME TableInv, NamesInv, NEW h \in Handles \ {0}, Retire(h)
  PROVE  StepKeepsNames
<1> DEFINE c == grab(h)
<1>0. NamesSorted /\ FindsNames
  BY SortedFinds DEF NamesInv
<1>1. NamesSorted' /\ Compact(h, Len(name), name') /\ FindsNames'
  BY <1>0, RetireNames, SortedFindsNext
<1>2. c \in Ctx /\ handle[c] = h
  BY GrabCtx DEF Retire, TableInv
<1>3. launch' = [launch EXCEPT ![c] = "none"] /\ given' = [given EXCEPT ![c] = 0]
  BY DEF Retire
<1> HIDE DEF c
<1>4. given \in [Ctx -> Handles \cup {0}] /\ launch \in [Ctx -> {"none", "new", "live"}]
  BY DEF TableInv, HandleTypeOK
<1>5. given[c] = h /\ given'[c] = 0 /\ \A d \in Ctx : d # c => launch'[d] = launch[d]
  <2>1. handle[c] = IF launch[c] = "live" THEN given[c] ELSE 0
    BY <1>2 DEF NamesInv
  <2> QED
    BY <1>2, <1>3, <1>4, <2>1
<1>6. ASSUME NEW n \in Names, findname(n) # 0
      PROVE  findname(n)' = findname(n) \/ (findname(n)' = 0 /\ findname(n) = h)
  <2>1. PICK i \in 1..Len(name) : name[i].name = n /\ findname(n) = name[i].handle
    BY <1>0, <1>6, FoundEntry
  <2>2. CASE name[i].handle # h
    <3>1. PICK j \in 1..Len(name') : name'[j] = name[i]
      BY <1>1, <2>2 DEF Compact
    <3>2. findname(n)' = name'[j].handle
      BY <1>1, <2>1, <3>1 DEF FindsNames
    <3> QED
      BY <2>1, <3>1, <3>2
  <2>3. CASE name[i].handle = h
    <3>1. ASSUME NEW j \in 1..Len(name'), name'[j].name = n PROVE FALSE
      <4>1. PICK k \in 1..Len(name) : name'[j] = name[k] /\ name[k].handle # h
        BY <1>1 DEF Compact
      <4>2. name[k].name = n /\ findname(n) = name[k].handle
        BY <1>0, <3>1, <4>1 DEF FindsNames
      <4> QED
        BY <2>1, <2>3, <4>1, <4>2
    <3>2. findname(n)' = 0
      BY <1>1, <3>1 DEF FindsNames
    <3> QED
      BY <2>1, <2>3, <3>2
  <2> QED
    BY <2>2, <2>3
<1>7. ASSUME NEW n \in Names PROVE findname(n)' # h
  <2> SUFFICES ASSUME findname(n)' = h PROVE FALSE
    OBVIOUS
  <2>1. CASE \A j \in 1..Len(name') : name'[j].name # n
    <3>1. findname(n)' = 0
      BY <1>1, <2>1 DEF FindsNames
    <3> QED
      BY <3>1
  <2>2. CASE \E j \in 1..Len(name') : name'[j].name = n
    <3>1. PICK j \in 1..Len(name') : name'[j].name = n
      BY <2>2
    <3>2. findname(n)' = name'[j].handle
      BY <1>1, <3>1 DEF FindsNames
    <3>3. name'[j].handle # h
      BY <1>1 DEF Compact
    <3> QED
      BY <3>2, <3>3
  <2> QED
    BY <2>1, <2>2
<1> QED
  BY <1>2, <1>5, <1>6, <1>7 DEF StepKeepsNames

\* Naming a service changes no name in use and ends none.
LEMMA NamingKeepsNames ==
  ASSUME NamesInv, NEW h \in Handles \ {0}, NEW m \in Names, NameHandle(h, m)
  PROVE  StepKeepsNames
<1>0. NamesSorted /\ FindsNames
  BY SortedFinds DEF NamesInv
<1>1. /\ NamesSorted' /\ FindsNames'
      /\ \A i \in 1..Len(name) : \E j \in 1..Len(name') : name'[j] = name[i]
  BY <1>0, NameHandleNames, SortedFindsNext
<1>2. ASSUME NEW n \in Names, findname(n) # 0 PROVE findname(n)' = findname(n)
  <2>1. PICK i \in 1..Len(name) : name[i].name = n /\ findname(n) = name[i].handle
    BY <1>0, <1>2, FoundEntry
  <2>2. PICK j \in 1..Len(name') : name'[j] = name[i]
    BY <1>1
  <2> QED
    BY <1>1, <2>1, <2>2 DEF FindsNames
<1>3. launch' = launch
  BY DEF NameHandle
<1> QED
  BY <1>2, <1>3 DEF StepKeepsNames

LEMMA OthersKeepNames ==
  ASSUME TableInv, NEW c \in Ctx,
         Register(c) \/ RegisterGrow(c) \/ RegisterAssert(c) \/ SetHandle(c)
  PROVE  StepKeepsNames
<1>1. name' = name
  BY DEF Register, RegisterGrow, RegisterAssert, SetHandle, StartLaunch
<1>2. \A n : findname(n)' = findname(n)
  BY <1>1 DEF findname, Search
<1>3. launch \in [Ctx -> {"none", "new", "live"}]
  BY DEF TableInv, HandleTypeOK
<1>4. launch' = [launch EXCEPT ![c] = "new"] \/ launch' = [launch EXCEPT ![c] = "live"]
  BY DEF Register, RegisterGrow, RegisterAssert, SetHandle, StartLaunch
<1>5. \A d \in Ctx : launch'[d] = "none" => launch[d] = "none"
  BY <1>3, <1>4
<1> QED
  BY <1>2, <1>5 DEF StepKeepsNames

\* However many threads launch services: the first registration of a name wins
\* and lasts until its handle is retired, whatever is named or retired
\* meanwhile, and the step that retires a service leaves no name that leads to
\* its handle (skynet_handle_namehandle, the compaction of
\* skynet_handle_retire).  Nothing is said of names that are given to a handle
\* after its retirement, which skynet_handle_namehandle allows.
THEOREM NamesLast == Spec => NamesKept
<1>1. TableInv /\ NamesInv /\ [Next]_vars => [StepKeepsNames]_vars
  BY RetireKeepsNames, NamingKeepsNames, OthersKeepNames DEF Next
<1>2. Spec => []TableInv
  BY TableAddressed
<1>3. Spec => []NamesInv
  BY InitNames, NamesNext, TableAddressed, PTL DEF Spec
<1>4. Spec => [][StepKeepsNames]_vars
  BY <1>1, <1>2, <1>3, PTL DEF Spec
<1> QED
  BY <1>4 DEF NamesKept, StepKeepsNames

-----------------------------------------------------------------------------
(* The lock that guards the storage.                                       *)

\* The counted threads are finitely many, and counting one more or one less
\* changes their number by one (rwlock_rlock, rwlock_runlock).
LEMMA CountedFinite == IsFiniteSet(Counted)
  BY ThreadAssumption, FS_Subset DEF Counted

\* A thread that moves into the counted places adds one to their number.
LEMMA CountIn ==
  ASSUME LockTypeOK, NEW t \in Thread, NEW to \in {"rtest", "rback", "reading"},
         t \notin Counted, pc' = [pc EXCEPT ![t] = to]
  PROVE  Cardinality(Counted') = Cardinality(Counted) + 1
<1>1. Counted' = Counted \cup {t}
  BY DEF LockTypeOK, Counted
<1> QED
  BY <1>1, CountedFinite, FS_AddElement

\* A thread that leaves the counted places takes one from their number.
LEMMA CountOut ==
  ASSUME LockTypeOK, NEW t \in Counted, NEW to \in Locations \ {"rtest", "rback", "reading"},
         pc' = [pc EXCEPT ![t] = to]
  PROVE  Cardinality(Counted') = Cardinality(Counted) - 1
<1>1. Counted' = Counted \ {t}
  BY DEF LockTypeOK, Counted
<1> QED
  BY <1>1, CountedFinite, FS_RemoveElement

\* A move within or outside the counted places leaves the count.
LEMMA CountSame ==
  ASSUME LockTypeOK, NEW t \in Thread, NEW to,
         t \in Counted <=> to \in {"rtest", "rback", "reading"},
         pc' = [pc EXCEPT ![t] = to]
  PROVE  Counted' = Counted
  BY DEF LockTypeOK, Counted

\* The lock's inductive invariant holds when rwlock_init returns.
LEMMA InitLock == rwlock_init => LockInv
<1> SUFFICES ASSUME rwlock_init PROVE LockInv
  OBVIOUS
<1>1. Counted = {} /\ Owners = {}
  BY DEF rwlock_init, Counted, Owners
<1>2. Cardinality(Counted) = 0
  BY <1>1, FS_EmptySet
<1> QED
  BY <1>1, <1>2 DEF rwlock_init, LockInv, LockTypeOK, Locations

\* Every access to the two counters of struct rwlock preserves the invariant.
LEMMA NextLock == LockInv /\ [LockNext]_lockVars => LockInv'
<1> SUFFICES ASSUME LockInv, [LockNext]_lockVars PROVE LockInv'
  OBVIOUS
<1> USE DEF Goto
<1>t. LockTypeOK
  BY DEF LockInv
<1>1. CASE UNCHANGED lockVars
  BY <1>1 DEF lockVars, LockInv, LockTypeOK, Counted, Owners
<1>2. ASSUME NEW t \in Thread, StartRead(t) \/ SpinRead(t) \/ StartWrite(t)
      PROVE  LockInv'
  <2>1. Counted' = Counted
    BY <1>2, <1>t, CountSame DEF StartRead, SpinRead, StartWrite, Counted
  <2>2. Owners' = Owners
    BY <1>2, <1>t DEF StartRead, SpinRead, StartWrite, Owners, LockTypeOK
  <2> QED
    BY <1>2, <2>1, <2>2 DEF StartRead, SpinRead, StartWrite, LockInv, LockTypeOK, Locations
<1>3. ASSUME NEW t \in Thread, AddRead(t)
      PROVE  LockInv'
  <2>1. Cardinality(Counted') = Cardinality(Counted) + 1
    BY <1>3, <1>t, CountIn DEF AddRead, Counted
  <2>2. Owners' = Owners
    BY <1>3, <1>t DEF AddRead, Owners, LockTypeOK
  <2> QED
    BY <1>3, <2>1, <2>2 DEF AddRead, LockInv, LockTypeOK, Locations
<1>4. ASSUME NEW t \in Thread, EnterRead(t) \/ RefuseRead(t)
      PROVE  LockInv'
  <2>1. Counted' = Counted
    BY <1>4, <1>t, CountSame DEF EnterRead, RefuseRead, Counted
  <2>2. Owners' = Owners
    BY <1>4, <1>t DEF EnterRead, RefuseRead, Owners, LockTypeOK
  <2>3. write = 0 => \A u \in Thread : pc[u] # "writing"
    BY DEF LockInv, Owners
  <2> QED
    BY <1>4, <2>1, <2>2, <2>3 DEF EnterRead, RefuseRead, LockInv, LockTypeOK, Locations
<1>5. ASSUME NEW t \in Thread, BackRead(t) \/ UnlockRead(t)
      PROVE  LockInv'
  <2>1. t \in Counted /\ Cardinality(Counted') = Cardinality(Counted) - 1
    BY <1>5, <1>t, CountOut DEF BackRead, UnlockRead, Counted, Locations
  <2>2. Cardinality(Counted) \in Nat \ {0}
    BY <2>1, CountedFinite, FS_CardinalityType, FS_EmptySet
  <2>3. Owners' = Owners
    BY <1>5, <1>t DEF BackRead, UnlockRead, Owners, LockTypeOK
  <2> QED
    BY <1>5, <2>1, <2>2, <2>3 DEF BackRead, UnlockRead, LockInv, LockTypeOK, Locations
<1>6. ASSUME NEW t \in Thread, TakeWrite(t)
      PROVE  LockInv'
  <2>1. Counted' = Counted
    BY <1>6, <1>t, CountSame DEF TakeWrite, Counted
  <2>2. Owners' = {t}
    BY <1>6, <1>t DEF TakeWrite, Owners, LockTypeOK, LockInv
  <2> QED
    BY <1>6, <2>1, <2>2 DEF TakeWrite, LockInv, LockTypeOK, Locations
<1>7. ASSUME NEW t \in Thread, Drained(t)
      PROVE  LockInv'
  <2>1. Counted' = Counted
    BY <1>7, <1>t, CountSame DEF Drained, Counted
  <2>2. Counted = {}
    BY <1>7, CountedFinite, FS_EmptySet DEF Drained, LockInv
  <2>3. Owners' = Owners
    BY <1>7, <1>t DEF Drained, Owners, LockTypeOK
  <2>4. \A u \in Thread : pc'[u] # "reading"
    BY <2>1, <2>2 DEF Counted
  <2> QED
    BY <1>7, <2>1, <2>3, <2>4 DEF Drained, LockInv, LockTypeOK, Locations
<1>8. ASSUME NEW t \in Thread, UnlockWrite(t)
      PROVE  LockInv'
  <2>1. Counted' = Counted
    BY <1>8, <1>t, CountSame DEF UnlockWrite, Counted
  <2>2. Owners = {t}
    BY <1>8 DEF UnlockWrite, LockInv, Owners
  <2>3. Owners' = {}
    BY <1>8, <1>t, <2>2 DEF UnlockWrite, Owners, LockTypeOK
  <2> QED
    BY <1>8, <2>1, <2>3 DEF UnlockWrite, LockInv, LockTypeOK, Locations
<1> QED
  BY <1>1, <1>2, <1>3, <1>4, <1>5, <1>6, <1>7, <1>8 DEF LockNext, Proceed

\* The invariant of the reader-writer lock of rwlock.h holds for any number
\* of threads: its read field counts the readers that have announced
\* themselves and its write field has one owner at most.
THEOREM LockInductive == LockSpec => []LockInv
<1>1. rwlock_init /\ [][LockNext]_lockVars => []LockInv
  BY InitLock, NextLock, PTL
<1> QED
  BY <1>1, PTL DEF LockSpec

\* A thread between rwlock_wlock and rwlock_wunlock is alone, for any number
\* of threads.
THEOREM LockExclusion == LockSpec => []Exclusion
<1>1. LockInv => Exclusion
  BY DEF LockInv, Exclusion, Owners
<1> QED
  BY <1>1, LockInductive, PTL
=============================================================================
