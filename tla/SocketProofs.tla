---------------------------- MODULE SocketProofs ----------------------------
(***************************************************************************)
(* The socket server, for any number of services, slots and packets and    *)
(* any number of requests: as long as the socket thread has not met, or    *)
(* freed, a slot that a worker was just reserving, slots do not leak,      *)
(* buffers are accounted for, the assertions hold (but for the one of step *)
(* 4 of send_buffer), events are of the socket that has the slot, data     *)
(* goes to the service that was told, and what a socket sends is whole     *)
(* packets in the order of their priority.                                 *)
(***************************************************************************)
EXTENDS SocketServer, FiniteSetTheorems, SequenceTheorems, WellFoundedInduction, TLAPS

Requests == [op : {"O", "L", "S", "K", "D", "P"}, id : Ids, opaque : Services,
             shutdown : BOOLEAN, p : Packets \cup {0}]
Events == [s : SlotIx \cup {NULL}, id : Ids, read : BOOLEAN, write : BOOLEAN]
Reservations == [pc : {"idle", "try", "store"}, i : Nat, id : 0 .. MaxId, op : {"none", "O", "L"}]
Results == [type : {"none", "OPEN", "CLOSE", "ERR", "WARNING", "ACCEPT", "DATA"},
            id : 0 .. MaxId, opaque : Services \cup {"none"}]

\* A slot's size field covers its lists.
Sized(s) == s \in SlotRecord /\ s.wb_size >= Len(s.high) + Len(s.low)

\* The command asks for a slot that was reserved for it.
Opens(r) == r.op \in {"O", "L"}

\* The types.
TypeInv ==
    /\ slot \in [SlotIx -> SlotRecord] /\ \A i \in SlotIx : Sized(slot[i])
    /\ alloc_id \in 0 .. MaxId
    /\ rsv \in [Services -> Reservations]
    /\ \A w \in Services : rsv[w].pc # "idle" => Opens(rsv[w])
    /\ pipe \in Seq(Requests)
    /\ \A n \in DOMAIN pipe : pipe[n].op \in {"D", "P"} => pipe[n].p \in Packets
    /\ pc \in {"top", "take", "failing", "clear"} /\ checkctrl \in BOOLEAN
    /\ ev \in Seq(Events) /\ result \in Results
    /\ known \subseteq Ids /\ heard \in [Ids -> Services \cup {"none", "gone"}]
    /\ raced \in BOOLEAN

\* Ids are handed out once: the ones that services know, the ones being
\* reserved and the ones to come are different, and the command that opens a
\* socket is ahead of every other command about it.
FreshInv ==
    /\ \A id \in known : id <= alloc_id
    /\ \A n \in DOMAIN pipe : pipe[n].id \in known
    /\ \A m, n \in DOMAIN pipe : Opens(pipe[n]) /\ m < n => pipe[m].id # pipe[n].id
    /\ \A w \in Services : rsv[w].pc = "store" =>
          rsv[w].id \in Ids /\ rsv[w].id \notin known /\ rsv[w].id <= alloc_id
    /\ \A v, w \in Services : rsv[v].pc = "store" /\ rsv[w].pc = "store" /\ rsv[v].id = rsv[w].id
                              => v = w

\* Only the first unit of a packet follows a unit of another one.
Framed(l) == \A j \in 2 .. Len(l) : l[j][2] = 1 \/ l[j][1] = l[j - 1][1]

Buffered == {"CONNECTING", "CONNECTED", "HALFCLOSE"}
Unused == {"INVALID", "RESERVE"}

\* The buffers of a slot.
Buffers(s) ==
    /\ s.type \in Buffered => (~send_buffer_empty(s) => s.out)
    /\ s.type \notin Buffered => send_buffer_empty(s)
    /\ s.type \notin Unused => s.wb_size = Len(s.high) + Len(s.low)
    /\ s.type = "HALFCLOSE" => ~send_buffer_empty(s)
    /\ ~list_uncomplete(s.low) /\ Framed(s.low)

BufInv == \A i \in SlotIx : Buffers(slot[i])

\* The id of a socket leads to its slot.
IdInv == \A i \in SlotIx : slot[i].type \notin Unused => slot[i].id \in known /\ Hash(slot[i].id) = i

\* A slot is reserved for exactly one reservation under way or in the pipe.
ClaimInv ==
    /\ \A w \in Services : rsv[w].pc = "store" => slot[Hash(rsv[w].id)].type = "RESERVE"
    /\ \A n \in DOMAIN pipe : Opens(pipe[n]) => slot[Hash(pipe[n].id)].type = "RESERVE"
    /\ \A v, w \in Services :
          rsv[v].pc = "store" /\ rsv[w].pc = "store" /\ Hash(rsv[v].id) = Hash(rsv[w].id) => v = w
    /\ \A m, n \in DOMAIN pipe :
          Opens(pipe[m]) /\ Opens(pipe[n]) /\ Hash(pipe[m].id) = Hash(pipe[n].id) => m = n
    /\ \A w \in Services, n \in DOMAIN pipe :
          rsv[w].pc = "store" /\ Opens(pipe[n]) => Hash(rsv[w].id) # Hash(pipe[n].id)
    /\ \A i \in SlotIx : slot[i].type = "RESERVE" =>
          \/ \E w \in Services : rsv[w].pc = "store" /\ Hash(rsv[w].id) = i
          \/ \E n \in DOMAIN pipe : Opens(pipe[n]) /\ Hash(pipe[n].id) = i

PolledTypes == {"LISTEN", "CONNECTING", "CONNECTED", "HALFCLOSE"}

\* The slot of an event is the one of a socket that is polled, or has just been
\* closed and perhaps been reserved since.
EventOK(e) ==
    \/ slot[e.s].type \in PolledTypes /\ slot[e.s].id = e.id
    \/ /\ pc = "clear" /\ result.id = e.id
       /\ slot[e.s].type = "RESERVE" \/ (slot[e.s].type = "INVALID" /\ slot[e.s].id = e.id)

EventInv == \A n \in DOMAIN ev : ev[n].s # NULL => Hash(ev[n].id) = ev[n].s /\ EventOK(ev[n])

\* The events of one wait are of different slots.
DistinctInv == \A m, n \in DOMAIN ev : ev[m].s = ev[n].s /\ ev[m].s # NULL => m = n

\* What services have been told about a socket, or will be.
HeardInv ==
    /\ \A i \in SlotIx :
          /\ slot[i].type \in {"PLISTEN", "PACCEPT", "CONNECTING"} => heard[slot[i].id] # "gone"
          /\ slot[i].type = "CONNECTED" => heard[slot[i].id] = slot[i].opaque
    /\ \A n \in DOMAIN pipe : Opens(pipe[n]) => heard[pipe[n].id] # "gone"
    /\ \A w \in Services : rsv[w].pc = "store" => heard[rsv[w].id] # "gone"
    /\ \A id \in Ids : id > alloc_id => heard[id] # "gone"

\* A socket that is being connected asks for output events.
ConnectInv == \A i \in SlotIx : slot[i].type = "CONNECTING" => slot[i].out

\* What holds until the socket thread meets, or frees, a slot that is just being
\* reserved.
CalmInv == BufInv /\ ConnectInv /\ IdInv /\ EventInv /\ HeardInv /\ (failed = "no" => ClaimInv)

\* While open_socket fails, its id is of no socket and of no other reservation.
FailInv ==
    pc = "failing" =>
        /\ result.id \in known /\ result.opaque \in Services
        /\ \A n \in DOMAIN pipe : Opens(pipe[n]) => pipe[n].id # result.id
        /\ slot[Hash(result.id)].type \in Unused

SocketInv == TypeInv /\ FreshInv /\ DistinctInv /\ AssertsPinned /\ (~raced => CalmInv)

-----------------------------------------------------------------------------
(* Lists.                                                                  *)

\* An id has a slot.
LEMMA HashIx ==
  ASSUME NEW id \in Nat
  PROVE  Hash(id) \in SlotIx /\ NULL \notin SlotIx
<1>1. MAX_SOCKET \in Nat \ {0}
  BY SocketAssumption
<1>2. id % MAX_SOCKET \in 0 .. MAX_SOCKET - 1
  BY <1>1, Z3
<1> QED
  BY <1>1, <1>2 DEF Hash, SlotIx, NULL

\* The list without its first m units.
LEMMA Suffix ==
  ASSUME NEW l \in Seq(Units), NEW m \in 0 .. Len(l)
  PROVE  /\ SubSeq(l, m + 1, Len(l)) \in Seq(Units)
         /\ Len(SubSeq(l, m + 1, Len(l))) = Len(l) - m
         /\ \A j \in 1 .. Len(l) - m : SubSeq(l, m + 1, Len(l))[j] = l[m + j]
<1>1. Len(l) \in Nat /\ \A j \in 1 .. Len(l) : l[j] \in Units
  OBVIOUS
<1>2. \A j \in m + 1 .. Len(l) : l[j] \in Units
  BY <1>1
<1>3. m + 1 \in Int /\ Len(l) \in Int
  BY <1>1
<1>4. /\ SubSeq(l, m + 1, Len(l)) \in Seq(Units)
      /\ Len(SubSeq(l, m + 1, Len(l))) = IF m + 1 <= Len(l) THEN Len(l) - (m + 1) + 1 ELSE 0
      /\ \A j \in 1 .. Len(l) - (m + 1) + 1 : SubSeq(l, m + 1, Len(l))[j] = l[(m + 1) + j - 1]
  BY <1>2, <1>3, SubSeqProperties
<1>5. \A j \in 1 .. Len(l) - m : (m + 1) + j - 1 = m + j
  BY <1>1
<1> QED
  BY <1>1, <1>4, <1>5

\* The first m units of a list.
LEMMA Prefix ==
  ASSUME NEW l \in Seq(Units), NEW m \in 0 .. Len(l)
  PROVE  SubSeq(l, 1, m) \in Seq(Units) /\ Len(SubSeq(l, 1, m)) = m
<1>1. Len(l) \in Nat /\ \A j \in 1 .. m : l[j] \in Units
  OBVIOUS
<1>2. 1 \in Int /\ m \in Int
  BY <1>1
<1>3. /\ SubSeq(l, 1, m) \in Seq(Units)
      /\ Len(SubSeq(l, 1, m)) = IF 1 <= m THEN m - 1 + 1 ELSE 0
  BY <1>1, <1>2, SubSeqProperties
<1> QED
  BY <1>1, <1>3

\* Cutting a list keeps it framed.
LEMMA SuffixFramed ==
  ASSUME NEW l \in Seq(Units), NEW m \in 0 .. Len(l), Framed(l)
  PROVE  Framed(SubSeq(l, m + 1, Len(l)))
<1> DEFINE r == SubSeq(l, m + 1, Len(l))
<1>1. Len(l) \in Nat /\ Len(r) = Len(l) - m /\ \A j \in 1 .. Len(l) - m : r[j] = l[m + j]
  BY Suffix
<1> HIDE DEF r
<1> SUFFICES ASSUME NEW j \in 2 .. Len(r) PROVE r[j][2] = 1 \/ r[j][1] = r[j - 1][1]
  BY DEF Framed, r
<1>2. r[j] = l[m + j] /\ r[j - 1] = l[m + (j - 1)] /\ m + j \in 2 .. Len(l) /\ m + (j - 1) = (m + j) - 1
  BY <1>1
<1>3. l[m + j][2] = 1 \/ l[m + j][1] = l[(m + j) - 1][1]
  BY <1>2 DEF Framed
<1> QED
  BY <1>2, <1>3

\* The units of a packet that are left.
LEMMA RestUnits ==
  ASSUME NEW p \in Packets, NEW n \in 0 .. Size[p]
  PROVE  /\ Size[p] \in Nat \ {0} /\ Size[p] - n \in Nat
         /\ Rest(p, n) \in Seq(Units) /\ Len(Rest(p, n)) = Size[p] - n
         /\ \A j \in 1 .. Size[p] - n : Rest(p, n)[j] = <<p, n + j>>
<1> DEFINE k == Size[p] - n
<1>1. Size[p] \in Nat \ {0}
  BY SocketAssumption DEF Packets
<1>2. k \in Nat /\ n \in Nat
  BY <1>1
<1>3. Rest(p, n) = [i \in 1 .. k |-> <<p, n + i>>]
  BY DEF Rest
<1> HIDE DEF k
<1>4. \A i \in 1 .. k : <<p, n + i>> \in Units
  BY <1>2 DEF Units
<1>5. Rest(p, n) \in Seq(Units) /\ Len(Rest(p, n)) = k
  <2>1. Rest(p, n) \in [1 .. k -> Units]
    BY <1>3, <1>4
  <2> QED
    BY <1>2, <2>1
<1>6. \A j \in 1 .. k : Rest(p, n)[j] = <<p, n + j>>
  BY <1>3
<1> QED
  BY <1>1, <1>2, <1>5, <1>6 DEF k

\* A list with a packet added.
LEMMA AppendUnits ==
  ASSUME NEW l \in Seq(Units), NEW p \in Packets, NEW n \in 0 .. Size[p]
  PROVE  /\ l \o Rest(p, n) \in Seq(Units) /\ Len(l) \in Nat
         /\ Len(l \o Rest(p, n)) = Len(l) + (Size[p] - n)
<1> DEFINE q == Rest(p, n)
           k == Size[p] - n
<1>1. q \in Seq(Units) /\ Len(q) = k
  BY RestUnits
<1> HIDE DEF q, k
<1>2. l \o q \in Seq(Units) /\ Len(l \o q) = Len(l) + Len(q)
  BY <1>1, ConcatProperties
<1>3. Len(l) \in Nat
  OBVIOUS
<1> QED
  BY <1>1, <1>2, <1>3, Zenon DEF q, k

\* Two lists one after the other.
LEMMA JoinFramed ==
  ASSUME NEW l \in Seq(Units), NEW q \in Seq(Units), Framed(l), ~list_uncomplete(l),
         Framed(q), q # <<>>, q[1][2] = 1
  PROVE  Framed(l \o q) /\ ~list_uncomplete(l \o q)
<1> DEFINE r == l \o q
<1>1. Len(l) \in Nat /\ Len(q) \in Nat \ {0}
  OBVIOUS
<1>2. /\ r \in Seq(Units) /\ Len(r) = Len(l) + Len(q)
      /\ \A j \in 1 .. Len(l) + Len(q) : r[j] = IF j <= Len(l) THEN l[j] ELSE q[j - Len(l)]
  BY ConcatProperties
<1> HIDE DEF r
<1>3. ASSUME NEW j \in 2 .. Len(r) PROVE r[j][2] = 1 \/ r[j][1] = r[j - 1][1]
  <2>0. j \in 1 .. Len(l) + Len(q) /\ j - 1 \in 1 .. Len(l) + Len(q)
    BY <1>1, <1>2, <1>3
  <2>1. CASE j <= Len(l)
    <3>1. r[j] = l[j] /\ r[j - 1] = l[j - 1] /\ j \in 2 .. Len(l)
      BY <1>1, <1>2, <2>0, <2>1
    <3> QED
      BY <3>1 DEF Framed
  <2>2. CASE j = Len(l) + 1
    <3>1. r[j] = q[1]
      BY <1>1, <1>2, <2>0, <2>2
    <3> QED
      BY <3>1
  <2>3. CASE j > Len(l) + 1
    <3> DEFINE i == j - Len(l)
    <3>1. r[j] = q[i] /\ r[j - 1] = q[(j - 1) - Len(l)] /\ i \in 2 .. Len(q) /\ (j - 1) - Len(l) = i - 1
      BY <1>1, <1>2, <2>0, <2>3
    <3> HIDE DEF i
    <3>2. r[j] = q[i] /\ r[j - 1] = q[i - 1]
      BY <3>1
    <3> QED
      BY <3>1, <3>2 DEF Framed
  <2> QED
    BY <1>1, <2>0, <2>1, <2>2, <2>3
<1>4. r # <<>> /\ Head(r) = r[1] /\ ~(r[1][2] > 1)
  <2>0. r # <<>> /\ Head(r) = r[1] /\ 1 \in 1 .. Len(l) + Len(q)
    BY <1>1, <1>2
  <2>1. CASE l = <<>>
    <3>1. r[1] = q[1]
      BY <1>1, <1>2, <2>0, <2>1
    <3> QED
      BY <2>0, <3>1
  <2>2. CASE l # <<>>
    <3>1. r[1] = l[1] /\ Head(l) = l[1]
      BY <1>1, <1>2, <2>0, <2>2
    <3> QED
      BY <2>0, <2>2, <3>1 DEF list_uncomplete
  <2> QED
    BY <2>1, <2>2
<1> QED
  BY <1>3, <1>4 DEF Framed, list_uncomplete, r

\* A whole packet added to a list that is framed.
LEMMA AppendFramed ==
  ASSUME NEW l \in Seq(Units), NEW p \in Packets, Framed(l), ~list_uncomplete(l)
  PROVE  Framed(l \o Rest(p, 0)) /\ ~list_uncomplete(l \o Rest(p, 0))
<1> DEFINE q == Rest(p, 0)
           k == Size[p]
<1>1. k \in Nat \ {0} /\ q \in Seq(Units) /\ Len(q) = k /\ \A j \in 1 .. k : q[j] = <<p, j>>
  <2>1. 0 \in 0 .. k /\ k \in Nat \ {0}
    BY SocketAssumption DEF Packets
  <2>2. /\ q \in Seq(Units) /\ Len(q) = k - 0
        /\ \A j \in 1 .. k - 0 : q[j] = <<p, 0 + j>>
    BY <2>1, RestUnits
  <2> HIDE DEF q, k
  <2> QED
    BY <2>1, <2>2
<1> HIDE DEF q, k
<1>2. q # <<>> /\ q[1][2] = 1
  BY <1>1
<1>3. Framed(q)
  <2> SUFFICES ASSUME NEW j \in 2 .. k PROVE q[j][1] = q[j - 1][1]
    BY <1>1 DEF Framed
  <2>1. q[j] = <<p, j>> /\ q[j - 1] = <<p, j - 1>>
    BY <1>1
  <2> QED
    BY <2>1
<1> QED
  BY <1>1, <1>2, <1>3, JoinFramed DEF q

-----------------------------------------------------------------------------
(* Slots and write buffers.                                                *)

\* A bounded set of naturals that is not empty has a greatest element.
LEMMA MaxOfSet ==
  ASSUME NEW N \in Nat, NEW T \in SUBSET (1 .. N), T # {}
  PROVE  Max(T) \in T /\ \A y \in T : y <= Max(T)
<1> DEFINE R == OpToRel(<, Nat)
           D == {N - y : y \in T}
<1>0. D \in SUBSET Nat /\ D # {}
  <2>1. \A y \in T : N - y \in Nat
    OBVIOUS
  <2>2. PICK y \in T : TRUE
    OBVIOUS
  <2>3. N - y \in D
    BY <2>2
  <2>4. \A x \in D : x \in Nat
    BY <2>1
  <2> QED
    BY <2>3, <2>4
<1>1. IsWellFoundedOn(R, Nat)
  BY NatLessThanWellFounded
<1>2. PICK x \in D : \A y \in D : ~(<<y, x>> \in R)
  <2> HIDE DEF R, D
  <2> QED
    BY <1>0, <1>1, WFMin
<1>3. \A y \in D : ~(y < x)
  BY <1>0, <1>2 DEF OpToRel
<1>4. PICK z \in T : x = N - z
  BY <1>2
<1>5. \A y \in T : z >= y
  <2> SUFFICES ASSUME NEW y \in T PROVE z >= y
    OBVIOUS
  <2>1. ~(N - y < x)
    BY <1>3
  <2> QED
    BY <1>4, <2>1
<1>6. \E m \in T : \A y \in T : m >= y
  BY <1>5
<1> DEFINE mx == CHOOSE m \in T : \A y \in T : m >= y
<1>7. mx \in T /\ \A y \in T : mx >= y
  BY <1>6, Zenon
<1>8. Max(T) = mx
  BY Zenon DEF Max
<1> HIDE DEF mx
<1>9. \A y \in T : y <= mx
  BY <1>7
<1> QED
  BY <1>7, <1>8, <1>9

\* The fields of a slot.
LEMMA SlotFields ==
  ASSUME NEW s \in SlotRecord
  PROVE  /\ s.type \in Types /\ s.id \in 0 .. MaxId /\ s.opaque \in Services \cup {"none"}
         /\ s.high \in Seq(Units) /\ s.low \in Seq(Units)
         /\ s.wb_size \in Nat /\ s.warn_size \in Nat /\ s.out \in BOOLEAN
         /\ Len(s.high) \in Nat /\ Len(s.low) \in Nat
         /\ s.high = <<>> <=> Len(s.high) = 0
         /\ s.low = <<>> <=> Len(s.low) = 0
<1>1. /\ s.type \in Types /\ s.id \in 0 .. MaxId /\ s.opaque \in Services \cup {"none"}
      /\ s.high \in Lists /\ s.low \in Lists
      /\ s.wb_size \in Nat /\ s.warn_size \in Nat /\ s.out \in BOOLEAN
  BY DEF SlotRecord
<1>2. s.high \in Seq(Units) /\ s.low \in Seq(Units)
  BY <1>1 DEF Lists
<1> QED
  BY <1>1, <1>2

\* A slot with other fields.
LEMMA SlotWith ==
  ASSUME NEW s \in SlotRecord, NEW type \in Types, NEW opaque \in Services \cup {"none"},
         NEW high \in Lists, NEW low \in Lists, NEW wb_size \in Nat, NEW warn_size \in Nat,
         NEW out \in BOOLEAN
  PROVE  LET t == [s EXCEPT !.type = type, !.opaque = opaque, !.high = high, !.low = low,
                            !.wb_size = wb_size, !.warn_size = warn_size, !.out = out] IN
         /\ t \in SlotRecord /\ t.type = type /\ t.id = s.id /\ t.opaque = opaque
         /\ t.high = high /\ t.low = low /\ t.wb_size = wb_size /\ t.warn_size = warn_size
         /\ t.out = out
  BY DEF SlotRecord

\* The empty list.
LEMMA EmptyList ==
  /\ <<>> \in Seq(Units) /\ <<>> \in Lists
  /\ Len(<<>>) = 0 /\ Framed(<<>>) /\ ~list_uncomplete(<<>>)
  BY DEF Framed, list_uncomplete, Lists

\* force_close.
LEMMA ClosedSlot ==
  ASSUME NEW s \in SlotRecord
  PROVE  /\ Closed(s) \in SlotRecord /\ Sized(Closed(s)) /\ Buffers(Closed(s))
         /\ Closed(s).type = "INVALID" /\ Closed(s).id = s.id
<1>0. <<>> \in Lists /\ "INVALID" \in Types
  BY EmptyList DEF Types
<1>1. /\ Closed(s) \in SlotRecord /\ Closed(s).type = "INVALID" /\ Closed(s).id = s.id
      /\ Closed(s).high = <<>> /\ Closed(s).low = <<>> /\ Closed(s).wb_size = s.wb_size
  BY <1>0 DEF Closed, SlotRecord
<1>2. s.wb_size \in Nat
  BY SlotFields
<1> QED
  BY <1>1, <1>2, EmptyList DEF Sized, Buffers, Buffered, Unused, send_buffer_empty

\* append_sendbuffer and append_sendbuffer_low.
LEMMA AppendSlot ==
  ASSUME NEW s, Sized(s), NEW p \in Packets, NEW n \in 0 .. Size[p]
  PROVE  LET t == append_sendbuffer(s, p, n) IN
         /\ Sized(t) /\ t.type = s.type /\ t.id = s.id /\ t.opaque = s.opaque /\ t.out = s.out
         /\ t.low = s.low /\ Len(t.high) = Len(s.high) + (Size[p] - n)
         /\ t.wb_size = s.wb_size + (Size[p] - n) /\ Size[p] - n \in Nat
<1> DEFINE t == append_sendbuffer(s, p, n)
           k == Size[p] - n
           h == s.high \o Rest(p, n)
<1>1. /\ s \in SlotRecord /\ s.wb_size \in Nat /\ Len(s.high) \in Nat /\ Len(s.low) \in Nat
      /\ s.high \in Seq(Units) /\ s.wb_size >= Len(s.high) + Len(s.low)
  BY SlotFields DEF Sized
<1>2. k \in Nat /\ h \in Lists /\ Len(h) = Len(s.high) + k
  BY <1>1, RestUnits, AppendUnits DEF Lists
<1>3. s.wb_size + Size[p] - n = s.wb_size + k
  <2>1. Size[p] \in Nat
    BY RestUnits
  <2> QED
    BY <1>1, <2>1
<1> HIDE DEF k
<1>4. t = [s EXCEPT !.high = h, !.wb_size = s.wb_size + k]
  BY <1>3 DEF append_sendbuffer
<1> HIDE DEF h, t
<1>5. s.wb_size + k \in Nat
  BY <1>1, <1>2
<1>6. /\ t \in SlotRecord /\ t.type = s.type /\ t.id = s.id /\ t.opaque = s.opaque /\ t.out = s.out
      /\ t.low = s.low /\ t.high = h /\ t.wb_size = s.wb_size + k
  BY <1>1, <1>2, <1>4, <1>5 DEF SlotRecord
<1>7. t.wb_size >= Len(t.high) + Len(t.low)
  <2> DEFINE a == Len(s.high)
             b == Len(s.low)
             c == s.wb_size
  <2>1. Len(t.high) = a + k /\ Len(t.low) = b /\ t.wb_size = c + k
    BY <1>2, <1>6, Zenon
  <2>2. a \in Nat /\ b \in Nat /\ c \in Nat /\ c >= a + b /\ k \in Nat
    BY <1>1, <1>2
  <2> HIDE DEF a, b, c
  <2>3. c + k >= (a + k) + b
    BY <2>2
  <2> QED
    BY <2>1, <2>3
<1>8. Sized(t)
  BY <1>6, <1>7 DEF Sized
<1> QED
  BY <1>2, <1>6, <1>8, Zenon DEF t, k

LEMMA AppendLowSlot ==
  ASSUME NEW s, Sized(s), NEW p \in Packets
  PROVE  LET t == append_sendbuffer_low(s, p) IN
         /\ Sized(t) /\ t.type = s.type /\ t.id = s.id /\ t.opaque = s.opaque /\ t.out = s.out
         /\ t.high = s.high /\ t.low = s.low \o Rest(p, 0) /\ Len(t.low) = Len(s.low) + Size[p]
         /\ t.wb_size = s.wb_size + Size[p] /\ Size[p] \in Nat \ {0}
<1> DEFINE t == append_sendbuffer_low(s, p)
           k == Size[p]
           h == s.low \o Rest(p, 0)
<1>1. /\ s \in SlotRecord /\ s.wb_size \in Nat /\ Len(s.high) \in Nat /\ Len(s.low) \in Nat
      /\ s.low \in Seq(Units) /\ s.wb_size >= Len(s.high) + Len(s.low)
  BY SlotFields DEF Sized
<1>2. k \in Nat \ {0} /\ h \in Lists /\ Len(h) = Len(s.low) + k
  <2>1. k \in Nat \ {0} /\ 0 \in 0 .. k
    BY SocketAssumption DEF Packets
  <2>2. h \in Lists /\ Len(h) = Len(s.low) + (k - 0)
    BY <1>1, <2>1, AppendUnits DEF Lists
  <2> HIDE DEF k, h
  <2> QED
    BY <2>1, <2>2
<1>3. t = [s EXCEPT !.low = h, !.wb_size = s.wb_size + k]
  BY DEF append_sendbuffer_low
<1> HIDE DEF h, k, t
<1>5. s.wb_size + k \in Nat
  BY <1>1, <1>2
<1>6. /\ t \in SlotRecord /\ t.type = s.type /\ t.id = s.id /\ t.opaque = s.opaque /\ t.out = s.out
      /\ t.high = s.high /\ t.low = h /\ t.wb_size = s.wb_size + k
  BY <1>1, <1>2, <1>3, <1>5 DEF SlotRecord
<1>7. t.wb_size >= Len(t.high) + Len(t.low)
  <2> DEFINE a == Len(s.high)
             b == Len(s.low)
             c == s.wb_size
  <2>1. Len(t.high) = a /\ Len(t.low) = b + k /\ t.wb_size = c + k
    BY <1>2, <1>6, Zenon
  <2>2. a \in Nat /\ b \in Nat /\ c \in Nat /\ c >= a + b /\ k \in Nat
    BY <1>1, <1>2
  <2> HIDE DEF a, b, c
  <2>3. c + k >= a + (b + k)
    BY <2>2
  <2> QED
    BY <2>1, <2>3
<1>8. Sized(t)
  BY <1>6, <1>7 DEF Sized
<1> QED
  BY <1>2, <1>6, <1>8, Zenon DEF t, k, h

\* raise_uncomplete moves the units of one packet.
LEMMA RaisedSlot ==
  ASSUME NEW s \in SlotRecord, s.high = <<>>, list_uncomplete(s.low)
  PROVE  LET u == raise_uncomplete(s) IN
         /\ u \in SlotRecord /\ u.type = s.type /\ u.id = s.id /\ u.opaque = s.opaque
         /\ u.out = s.out /\ u.wb_size = s.wb_size
         /\ Len(u.high) + Len(u.low) = Len(s.low) /\ u.high # <<>>
         /\ Framed(s.low) => Framed(u.low) /\ ~list_uncomplete(u.low)
<1> DEFINE l == s.low
           J == {j \in DOMAIN l : l[j][1] = Head(l)[1]}
           n == Max(J)
           u == raise_uncomplete(s)
<1>1. l \in Seq(Units) /\ l # <<>> /\ Len(l) \in Nat
  BY SlotFields DEF list_uncomplete
<1>2. u = [s EXCEPT !.high = SubSeq(l, 1, n), !.low = SubSeq(l, n + 1, Len(l))]
  BY DEF raise_uncomplete
<1> HIDE DEF l, u
<1>3. DOMAIN l = 1 .. Len(l) /\ 1 \in J /\ Len(l) > 0
  BY <1>1
<1>4. n \in J /\ \A y \in J : y <= n
  <2>1. J \in SUBSET (1 .. Len(l)) /\ J # {}
    BY <1>3
  <2> HIDE DEF J
  <2> QED
    BY <1>1, <2>1, MaxOfSet
<1> HIDE DEF n
<1>5. n \in 1 .. Len(l) /\ n \in 0 .. Len(l)
  BY <1>1, <1>3, <1>4
<1> DEFINE h == SubSeq(l, 1, n)
           r == SubSeq(l, n + 1, Len(l))
<1>6. h \in Seq(Units) /\ Len(h) = n
  BY <1>1, <1>5, Prefix
<1>7. r \in Seq(Units) /\ Len(r) = Len(l) - n /\ \A j \in 1 .. Len(l) - n : r[j] = l[n + j]
  BY <1>1, <1>5, Suffix
<1>8. Framed(l) => Framed(r)
  BY <1>1, <1>5, SuffixFramed
<1> HIDE DEF r, h
<1>9. ASSUME Framed(l), r # <<>> PROVE ~(Head(r)[2] > 1)
  <2>1. Len(l) - n > 0 /\ Head(r) = r[1]
    BY <1>5, <1>7, <1>9
  <2>2. r[1] = l[n + 1] /\ n + 1 \in 2 .. Len(l) /\ (n + 1) - 1 = n
    BY <1>1, <1>5, <1>7, <2>1
  <2>3. n + 1 \notin J
    BY <1>4, <1>5
  <2>4. l[n + 1][1] # Head(l)[1] /\ l[n][1] = Head(l)[1]
    BY <1>3, <1>4, <2>2, <2>3
  <2>5. l[n + 1][2] = 1 \/ l[n + 1][1] = l[(n + 1) - 1][1]
    BY <1>9, <2>2 DEF Framed
  <2>6. l[n + 1][2] = 1
    BY <2>2, <2>4, <2>5
  <2> QED
    BY <2>1, <2>2, <2>6
<1>10. /\ u \in SlotRecord /\ u.type = s.type /\ u.id = s.id /\ u.opaque = s.opaque
       /\ u.out = s.out /\ u.wb_size = s.wb_size
       /\ u.high = h /\ u.low = r
  <2>1. h \in Lists /\ r \in Lists /\ u = [s EXCEPT !.high = h, !.low = r]
    BY <1>2, <1>6, <1>7 DEF Lists, h, r
  <2> QED
    BY <2>1 DEF SlotRecord
<1>11. Len(u.high) + Len(u.low) = Len(l) /\ u.high # <<>>
  <2>1. Len(u.high) = n /\ Len(u.low) = Len(l) - n /\ u.high \in Seq(Units)
    BY <1>6, <1>7, <1>10, Zenon
  <2>2. n + (Len(l) - n) = Len(l) /\ n # 0
    BY <1>1, <1>5
  <2>3. u.high # <<>>
    BY <2>1, <2>2, EmptyList
  <2> QED
    BY <2>1, <2>2, <2>3
<1>12. Framed(l) => ~list_uncomplete(u.low)
  BY <1>9, <1>10 DEF list_uncomplete
<1> QED
  BY <1>8, <1>10, <1>11, <1>12, Zenon DEF l, u

\* The list after as many units as it has, or more.
LEMMA Exhausted ==
  ASSUME NEW l \in Seq(Units), NEW m \in Nat, m >= Len(l)
  PROVE  SubSeq(l, m + 1, Len(l)) = <<>>
<1>1. Len(l) \in Nat /\ m + 1 \in Int /\ Len(l) \in Int /\ ~(m + 1 <= Len(l))
  OBVIOUS
<1>2. \A j \in m + 1 .. Len(l) : l[j] \in Units
  BY <1>1
<1>3. /\ SubSeq(l, m + 1, Len(l)) \in Seq(Units)
      /\ Len(SubSeq(l, m + 1, Len(l))) = IF m + 1 <= Len(l) THEN Len(l) - (m + 1) + 1 ELSE 0
  BY <1>1, <1>2, SubSeqProperties
<1> HIDE DEF Units
<1>4. Len(SubSeq(l, m + 1, Len(l))) = 0
  BY <1>1, <1>3
<1> QED
  BY <1>3, <1>4, EmptySeq

\* The slot when the system has taken k units.
Shrunk(s, k) ==
    LET n  == Len(s.high)
        k2 == IF k > n THEN k - n ELSE 0
    IN  [s EXCEPT !.high = SubSeq(@, k + 1, n), !.low = SubSeq(@, k2 + 1, Len(@)),
                  !.wb_size = @ - k]

LEMMA ShrunkSlot ==
  ASSUME NEW s, Sized(s), NEW k \in 0 .. Len(s.high) + Len(s.low), NEW t, t = Shrunk(s, k)
  PROVE  /\ Sized(t) /\ t.type = s.type /\ t.id = s.id /\ t.opaque = s.opaque /\ t.out = s.out
         /\ t.wb_size = s.wb_size - k
         /\ Len(t.high) + Len(t.low) = (Len(s.high) + Len(s.low)) - k
         /\ Framed(s.low) => Framed(t.low)
         /\ t.low # <<>> => s.low # <<>>
         /\ t.high # <<>> /\ ~list_uncomplete(s.low) => ~list_uncomplete(t.low)
<1> DEFINE n == Len(s.high)
           k2 == IF k > n THEN k - n ELSE 0
           h == SubSeq(s.high, k + 1, n)
           l == SubSeq(s.low, k2 + 1, Len(s.low))
<1> DEFINE a == Len(s.low)
           c == s.wb_size
<1>0. n \in Nat /\ a \in Nat /\ c \in Nat /\ c >= n + a
  BY SlotFields DEF Sized
<1>00. k \in 0 .. n + a
  OBVIOUS
<1>1. /\ s \in SlotRecord /\ s.wb_size \in Nat /\ n \in Nat /\ Len(s.low) \in Nat
      /\ s.high \in Seq(Units) /\ s.low \in Seq(Units) /\ s.wb_size >= n + Len(s.low)
  BY SlotFields DEF Sized
<1>2. t = [s EXCEPT !.high = h, !.low = l, !.wb_size = s.wb_size - k]
  BY DEF Shrunk
<1>3. k2 \in 0 .. Len(s.low) /\ k \in Nat /\ (k <= n => k2 = 0)
  <2> HIDE DEF n, a, c
  <2>1. k2 \in 0 .. a /\ k \in Nat /\ (k <= n => k2 = 0)
    BY <1>0, <1>00
  <2> QED
    BY <2>1 DEF a
<1>4. l \in Seq(Units) /\ Len(l) = Len(s.low) - k2 /\ \A j \in 1 .. Len(s.low) - k2 : l[j] = s.low[k2 + j]
  <2> HIDE DEF k2
  <2> QED
    BY <1>1, <1>3, Suffix
<1>5. Framed(s.low) => Framed(l)
  <2> HIDE DEF k2
  <2> QED
    BY <1>1, <1>3, SuffixFramed
<1>6. h \in Seq(Units) /\ Len(h) = IF k <= n THEN n - k ELSE 0
  <2>1. CASE k <= n
    <3>1. k \in 0 .. Len(s.high)
      BY <1>1, <1>3, <2>1
    <3>2. h \in Seq(Units) /\ Len(h) = Len(s.high) - k
      BY <1>1, <3>1, Suffix
    <3> QED
      BY <2>1, <3>2
  <2>2. CASE ~(k <= n)
    <3>1. k >= Len(s.high)
      BY <1>1, <1>3, <2>2
    <3>2. h = <<>>
      BY <1>1, <1>3, <3>1, Exhausted
    <3> HIDE DEF h, n
    <3> QED
      BY <2>2, <3>2, EmptyList
  <2> QED
    BY <2>1, <2>2
<1>7. Len(h) + Len(l) = (n + Len(s.low)) - k /\ Len(l) \in Nat /\ Len(h) \in Nat
  <2>1. k2 = IF k > n THEN k - n ELSE 0
    BY Zenon
  <2>2. Len(h) = (IF k <= n THEN n - k ELSE 0) /\ Len(l) = a - k2
    BY <1>4, <1>6
  <2> HIDE DEF a, c, n, k2, h, l
  <2>3. Len(h) + Len(l) = (n + a) - k /\ Len(l) \in Nat /\ Len(h) \in Nat
    BY <1>0, <1>00, <2>1, <2>2
  <2> QED
    BY <2>3 DEF a
<1>8. ASSUME h # <<>>, ~list_uncomplete(s.low) PROVE ~list_uncomplete(l)
  <2> HIDE DEF h
  <2>1. k <= n /\ k2 = 0
    <3>1. Len(h) # 0
      BY <1>6, <1>8
    <3> QED
      BY <1>1, <1>3, <1>6, <3>1
  <2> HIDE DEF l, k2
  <2>2. Len(l) = Len(s.low) /\ \A j \in 1 .. Len(s.low) : l[j] = s.low[j]
    BY <1>1, <1>4, <2>1
  <2>3. CASE l = <<>>
    BY <2>3, EmptyList
  <2>4. CASE l # <<>>
    <3>1. Len(s.low) > 0 /\ s.low # <<>> /\ Head(l) = l[1] /\ Head(s.low) = s.low[1] /\ l[1] = s.low[1]
      BY <1>1, <1>4, <2>2, <2>4
    <3> QED
      BY <1>8, <3>1 DEF list_uncomplete
  <2> QED
    BY <2>3, <2>4
<1>9. l # <<>> => s.low # <<>>
  <2> HIDE DEF l, k2
  <2>1. ASSUME s.low = <<>> PROVE l = <<>>
    <3>1. Len(s.low) = 0
      BY <2>1, EmptyList
    <3>2. Len(l) = 0
      <4>1. a = 0 /\ k2 \in 0 .. a /\ Len(l) = a - k2
        BY <1>3, <1>4, <3>1
      <4> HIDE DEF a, c, n
      <4>2. k2 \in 0 .. 0 /\ Len(l) = 0 - k2
        BY <4>1, Zenon
      <4>3. k2 = 0
        BY <4>2
      <4> QED
        BY <4>2, <4>3
    <3> QED
      BY <1>4, <3>2, EmptySeq
  <2> QED
    BY <2>1
<1> HIDE DEF h, l, k2
<1>10. s.wb_size - k \in Nat /\ s.wb_size - k >= Len(h) + Len(l)
  <2>2. Len(h) + Len(l) = (n + a) - k
    BY <1>7
  <2> HIDE DEF a, c, n
  <2>3. c - k \in Nat /\ c - k >= (n + a) - k
    BY <1>0, <1>00
  <2> QED
    BY <2>2, <2>3 DEF c
<1>11. /\ t \in SlotRecord /\ t.type = s.type /\ t.id = s.id /\ t.opaque = s.opaque /\ t.out = s.out
       /\ t.high = h /\ t.low = l /\ t.wb_size = s.wb_size - k
  <2>1. h \in Lists /\ l \in Lists /\ s.wb_size - k \in Nat
    BY <1>4, <1>6, <1>10 DEF Lists
  <2> QED
    BY <1>1, <1>2, <2>1 DEF SlotRecord
<1>12. Sized(t)
  BY <1>10, <1>11, Zenon DEF Sized
<1> QED
  BY <1>5, <1>7, <1>8, <1>9, <1>11, <1>12, Zenon

\* The fields of what send_buffer returns.
LEMMA OutcomeFields ==
  ASSUME NEW s, NEW type, NEW fail, NEW units, NEW o, o = Outcome(s, type, fail, units)
  PROVE  o.s = s /\ o.type = type /\ o.fail = fail /\ o.units = units
  BY DEF Outcome

\* What send_buffer makes of a slot, in any state of the slot.
SentOK(s, o) ==
    /\ Sized(o.s) /\ o.s.id = s.id /\ o.s.opaque = s.opaque
    /\ o.type \in {"none", "CLOSE", "WARNING"}
    /\ o.type = "CLOSE" => o.s.type = "INVALID" /\ o.fail = "no"
    /\ o.type # "CLOSE" => o.s.type = s.type

\* What it makes of a slot whose buffers are sound.
SentCalm(s, o) ==
    /\ s.type \in Buffered /\ o.fail = "no" => Buffers(o.s)
    /\ s.type \notin Unused /\ o.fail # "no" =>
          o.fail = "not_empty" /\ s.low # <<>> /\ ~list_uncomplete(s.low)

\* The lists are empty exactly when they have no units.
LEMMA SizedEmpty ==
  ASSUME NEW s, Sized(s)
  PROVE  /\ Len(s.high) \in Nat /\ Len(s.low) \in Nat
         /\ s.high = <<>> <=> Len(s.high) = 0
         /\ s.low = <<>> <=> Len(s.low) = 0
         /\ send_buffer_empty(s) <=> Len(s.high) + Len(s.low) = 0
<1>1. /\ Len(s.high) \in Nat /\ Len(s.low) \in Nat
      /\ s.high = <<>> <=> Len(s.high) = 0
      /\ s.low = <<>> <=> Len(s.low) = 0
  BY SlotFields DEF Sized
<1> DEFINE a == Len(s.high)
           b == Len(s.low)
<1>2. a \in Nat /\ b \in Nat
  BY <1>1
<1> HIDE DEF a, b
<1>3. a + b = 0 <=> a = 0 /\ b = 0
  BY <1>2
<1> QED
  BY <1>1, <1>3 DEF a, b, send_buffer_empty

\* Step 4 of send_buffer.
LEMMA DrainedSlot ==
  ASSUME NEW t, Sized(t), send_buffer_empty(t), NEW w, NEW o, o = Drained(t, w)
  PROVE  /\ Sized(o.s) /\ o.s.id = t.id /\ o.s.opaque = t.opaque
         /\ o.type \in {"none", "CLOSE", "WARNING"} /\ o.fail = "no"
         /\ o.type = "CLOSE" => o.s.type = "INVALID"
         /\ o.type # "CLOSE" => o.s.type = t.type
         /\ t.type \in Buffered /\ t.wb_size = 0 => Buffers(o.s)
<1>0. t \in SlotRecord /\ t.warn_size \in Nat
  BY SlotFields DEF Sized
<1>1. CASE t.type = "HALFCLOSE"
  <2>1. o = Outcome(Closed(t), "CLOSE", "no", w)
    BY <1>1, Zenon DEF Drained
  <2>2. o.s = Closed(t) /\ o.type = "CLOSE" /\ o.fail = "no"
    BY <2>1, OutcomeFields
  <2>3. Closed(t).opaque = t.opaque
    BY <1>0 DEF Closed, SlotRecord
  <2> QED
    BY <1>0, <2>2, <2>3, ClosedSlot
<1>2. CASE t.type # "HALFCLOSE"
  <2>1. PICK u : o.s = u /\ (u = [t EXCEPT !.out = FALSE, !.warn_size = 0] \/ u = [t EXCEPT !.out = FALSE])
                 /\ o.type \in {"none", "WARNING"} /\ o.fail = "no"
    <3>1. CASE t.warn_size > 0
      <4>1. o = Outcome([t EXCEPT !.out = FALSE, !.warn_size = 0], "WARNING", "no", w)
        BY <1>2, <3>1, Zenon DEF Drained
      <4> QED
        BY <4>1, OutcomeFields
    <3>2. CASE ~(t.warn_size > 0)
      <4>1. o = Outcome([t EXCEPT !.out = FALSE], "none", "no", w)
        BY <1>2, <3>2, Zenon DEF Drained
      <4> QED
        BY <4>1, OutcomeFields
    <3> QED
      BY <3>1, <3>2
  <2>2. /\ u \in SlotRecord /\ u.type = t.type /\ u.id = t.id /\ u.opaque = t.opaque
        /\ u.high = t.high /\ u.low = t.low /\ u.wb_size = t.wb_size
    <3>1. CASE u = [t EXCEPT !.out = FALSE, !.warn_size = 0]
      BY <1>0, <3>1 DEF SlotRecord
    <3>2. CASE u = [t EXCEPT !.out = FALSE]
      BY <1>0, <3>2 DEF SlotRecord
    <3> QED
      BY <2>1, <3>1, <3>2
  <2>3. Sized(u)
    BY <2>2, Zenon DEF Sized
  <2>4. send_buffer_empty(u) /\ Framed(u.low) /\ ~list_uncomplete(u.low)
    <3>1. u.low = <<>> /\ u.high = <<>>
      BY <2>2 DEF send_buffer_empty
    <3> QED
      BY <3>1, EmptyList DEF send_buffer_empty
  <2>5. ASSUME t.wb_size = 0 PROVE u.wb_size = Len(u.high) + Len(u.low)
    BY <2>2, <2>3, <2>4, <2>5, SizedEmpty
  <2>6. t.type \in Buffered /\ t.wb_size = 0 => Buffers(u)
    BY <1>2, <2>2, <2>4, <2>5 DEF Buffers, Buffered, Unused
  <2> QED
    BY <2>1, <2>2, <2>3, <2>6
<1> QED
  BY <1>1, <1>2

LEMMA Sent ==
  ASSUME NEW s, Sized(s), NEW k \in 0 .. Len(s.high) + Len(s.low), NEW err \in BOOLEAN,
         NEW o, o = SendOutcome(s, k, err)
  PROVE  SentOK(s, o) /\ (Buffers(s) => SentCalm(s, o))
<1> DEFINE t == Shrunk(s, k)
           w == SubSeq(s.high \o s.low, 1, k)
<1>1. o = IF list_uncomplete(s.low) THEN Outcome(s, "none", "uncomplete", <<>>)
          ELSE IF err THEN
              IF s.type = "RESERVE" THEN Outcome(s, "none", "reserve", <<>>)
              ELSE Outcome(Closed(t), "CLOSE", "no", w)
          ELSE IF t.high # <<>> THEN Outcome(t, "none", "no", w)
          ELSE IF list_uncomplete(t.low) THEN Outcome(raise_uncomplete(t), "none", "no", w)
          ELSE IF t.low # <<>> \/ t.wb_size # 0 THEN Outcome(t, "none", "not_empty", w)
          ELSE Drained(t, w)
  BY Zenon DEF SendOutcome, Shrunk
<1> HIDE DEF w
<1>2. /\ Sized(t) /\ t.type = s.type /\ t.id = s.id /\ t.opaque = s.opaque /\ t.out = s.out
      /\ t.wb_size = s.wb_size - k
      /\ Len(t.high) + Len(t.low) = (Len(s.high) + Len(s.low)) - k
      /\ Framed(s.low) => Framed(t.low)
      /\ t.low # <<>> => s.low # <<>>
      /\ t.high # <<>> /\ ~list_uncomplete(s.low) => ~list_uncomplete(t.low)
  BY ShrunkSlot, Zenon
<1> HIDE DEF t
<1>3. s \in SlotRecord /\ t \in SlotRecord
  BY <1>2 DEF Sized
<1>4. s.type \notin Unused /\ Buffers(s) => t.wb_size = Len(t.high) + Len(t.low)
  BY <1>2 DEF Buffers
<1>5. ~send_buffer_empty(t) => ~send_buffer_empty(s)
  <2> DEFINE a == Len(s.high) + Len(s.low)
  <2>1. a \in Nat
    <3> DEFINE x == Len(s.high)
               y == Len(s.low)
    <3>1. x \in Nat /\ y \in Nat
      BY SizedEmpty
    <3> HIDE DEF x, y
    <3>2. x + y \in Nat
      BY <3>1
    <3> QED
      BY <3>2, Zenon DEF x, y
  <2>2. k \in 0 .. a
    OBVIOUS
  <2>3. Len(t.high) + Len(t.low) = a - k
    BY <1>2
  <2> HIDE DEF a
  <2>4. ASSUME a = 0 PROVE a - k = 0
    <3>1. k \in 0 .. 0
      BY <2>2, <2>4, Zenon
    <3>2. k = 0
      BY <3>1
    <3> QED
      BY <2>4, <3>2
  <2>5. send_buffer_empty(t) <=> a - k = 0
    BY <1>2, <2>3, SizedEmpty
  <2>6. send_buffer_empty(s) <=> a = 0
    BY SizedEmpty DEF a
  <2> QED
    BY <2>4, <2>5, <2>6
<1>6. CASE list_uncomplete(s.low)
  <2>1. o = Outcome(s, "none", "uncomplete", <<>>)
    BY <1>1, <1>6, Zenon
  <2>2. o.s = s /\ o.type = "none" /\ o.fail = "uncomplete"
    BY <2>1, OutcomeFields
  <2> QED
    BY <1>6, <2>2 DEF SentOK, SentCalm, Buffers
<1>7. CASE ~list_uncomplete(s.low) /\ err /\ s.type = "RESERVE"
  <2>1. o = Outcome(s, "none", "reserve", <<>>)
    BY <1>1, <1>7, Zenon
  <2>2. o.s = s /\ o.type = "none" /\ o.fail = "reserve"
    BY <2>1, OutcomeFields
  <2> QED
    BY <1>7, <2>2 DEF SentOK, SentCalm, Unused
<1>8. CASE ~list_uncomplete(s.low) /\ err /\ s.type # "RESERVE"
  <2>1. o = Outcome(Closed(t), "CLOSE", "no", w)
    BY <1>1, <1>8, Zenon
  <2>2. o.s = Closed(t) /\ o.type = "CLOSE" /\ o.fail = "no"
    BY <2>1, OutcomeFields
  <2>3. Closed(t).opaque = t.opaque
    BY <1>3 DEF Closed, SlotRecord
  <2> QED
    BY <1>2, <1>3, <2>2, <2>3, ClosedSlot DEF SentOK, SentCalm
<1>9. CASE ~list_uncomplete(s.low) /\ ~err /\ t.high # <<>>
  <2>1. o = Outcome(t, "none", "no", w)
    BY <1>1, <1>9, Zenon
  <2>2. o.s = t /\ o.type = "none" /\ o.fail = "no"
    BY <2>1, OutcomeFields
  <2>3. ~send_buffer_empty(t)
    BY <1>9 DEF send_buffer_empty
  <2>4. Buffers(s) /\ s.type \in Buffered => Buffers(t)
    BY <1>2, <1>4, <1>5, <1>9, <2>3 DEF Buffers, Buffered, Unused
  <2> QED
    BY <1>2, <2>2, <2>4 DEF SentOK, SentCalm
<1>10. CASE ~list_uncomplete(s.low) /\ ~err /\ t.high = <<>> /\ list_uncomplete(t.low)
  <2> DEFINE u == raise_uncomplete(t)
  <2>1. o = Outcome(u, "none", "no", w)
    BY <1>1, <1>10, Zenon
  <2>2. /\ u \in SlotRecord /\ u.type = t.type /\ u.id = t.id /\ u.opaque = t.opaque
        /\ u.out = t.out /\ u.wb_size = t.wb_size
        /\ Len(u.high) + Len(u.low) = Len(t.low) /\ u.high # <<>>
        /\ Framed(t.low) => Framed(u.low) /\ ~list_uncomplete(u.low)
    BY <1>3, <1>10, RaisedSlot
  <2> HIDE DEF u
  <2>3. o.s = u /\ o.type = "none" /\ o.fail = "no"
    BY <2>1, OutcomeFields
  <2>4. Len(t.low) \in Nat /\ Len(t.high) = 0 /\ Len(t.high) + Len(t.low) = Len(t.low)
    BY <1>2, <1>10, SizedEmpty
  <2>5. Sized(u)
    BY <1>2, <2>2, <2>4 DEF Sized
  <2>6. t.low # <<>> /\ ~send_buffer_empty(t) /\ ~send_buffer_empty(u)
    BY <1>10, <2>2 DEF send_buffer_empty, list_uncomplete
  <2>7. ASSUME Buffers(s), s.type \in Buffered PROVE Buffers(u)
    <3>1. u.type \in Buffered /\ u.type \notin Unused /\ u.out
      BY <1>2, <1>5, <2>2, <2>6, <2>7 DEF Buffers, Buffered, Unused
    <3>2. u.wb_size = Len(u.high) + Len(u.low)
      BY <1>2, <1>4, <2>2, <2>4, <2>7, <3>1
    <3>3. Framed(u.low) /\ ~list_uncomplete(u.low)
      BY <1>2, <2>2, <2>7 DEF Buffers
    <3> QED
      BY <2>6, <3>1, <3>2, <3>3 DEF Buffers
  <2> QED
    BY <1>2, <2>2, <2>3, <2>5, <2>7 DEF SentOK, SentCalm
<1>11. CASE /\ ~list_uncomplete(s.low) /\ ~err /\ t.high = <<>> /\ ~list_uncomplete(t.low)
            /\ t.low # <<>> \/ t.wb_size # 0
  <2>1. o = Outcome(t, "none", "not_empty", w)
    BY <1>1, <1>11, Zenon
  <2>2. o.s = t /\ o.type = "none" /\ o.fail = "not_empty"
    BY <2>1, OutcomeFields
  <2>3. ASSUME Buffers(s), s.type \notin Unused PROVE t.low # <<>>
    <3>1. t.wb_size = Len(t.high) + Len(t.low)
      BY <1>4, <2>3
    <3>2. ASSUME t.low = <<>> PROVE t.wb_size = 0
      <4>1. Len(t.high) = 0 /\ Len(t.low) = 0
        BY <1>2, <1>11, <3>2, SizedEmpty
      <4> QED
        BY <3>1, <4>1
    <3> QED
      BY <1>11, <3>2
  <2> QED
    BY <1>2, <1>11, <2>2, <2>3 DEF SentOK, SentCalm
<1>12. CASE /\ ~list_uncomplete(s.low) /\ ~err /\ t.high = <<>> /\ ~list_uncomplete(t.low)
            /\ t.low = <<>> /\ t.wb_size = 0
  <2>1. o = Drained(t, w)
    BY <1>1, <1>12, Zenon
  <2>2. send_buffer_empty(t)
    BY <1>12 DEF send_buffer_empty
  <2>3. /\ Sized(o.s) /\ o.s.id = t.id /\ o.s.opaque = t.opaque
        /\ o.type \in {"none", "CLOSE", "WARNING"} /\ o.fail = "no"
        /\ o.type = "CLOSE" => o.s.type = "INVALID"
        /\ o.type # "CLOSE" => o.s.type = t.type
        /\ t.type \in Buffered /\ t.wb_size = 0 => Buffers(o.s)
    BY <1>2, <2>1, <2>2, DrainedSlot
  <2> QED
    BY <1>2, <1>12, <2>3 DEF SentOK, SentCalm
<1> QED
  BY <1>6, <1>7, <1>8, <1>9, <1>10, <1>11, <1>12

-----------------------------------------------------------------------------
(* The parts of a step.                                                    *)

\* A queue without its head.
LEMMA TailSeq ==
  ASSUME NEW S, NEW q \in Seq(S), q # <<>>
  PROVE  /\ Tail(q) \in Seq(S) /\ Head(q) \in S /\ Head(q) = q[1] /\ 1 \in DOMAIN q
         /\ \A n \in DOMAIN Tail(q) : n + 1 \in DOMAIN q /\ n \in Nat \ {0} /\ Tail(q)[n] = q[n + 1]
         /\ \A n \in DOMAIN q : n # 1 => n - 1 \in DOMAIN Tail(q) /\ n = (n - 1) + 1
<1>1. Len(q) \in Nat \ {0} /\ DOMAIN q = 1 .. Len(q) /\ Head(q) = q[1] /\ Tail(q) \in Seq(S)
  OBVIOUS
<1>2. Len(Tail(q)) = Len(q) - 1 /\ \A n \in 1 .. Len(q) - 1 : Tail(q)[n] = q[n + 1]
  BY HeadTailProperties
<1>3. DOMAIN Tail(q) = 1 .. Len(q) - 1
  BY <1>1, <1>2
<1>4. Head(q) \in S /\ 1 \in DOMAIN q
  BY <1>1
<1> DEFINE d == Len(q)
           r == Tail(q)
<1> HIDE DEF d, r
<1>5. d \in Nat \ {0} /\ DOMAIN q = 1 .. d /\ DOMAIN r = 1 .. d - 1 /\ \A n \in 1 .. d - 1 : r[n] = q[n + 1]
  BY <1>1, <1>2, <1>3 DEF d, r
<1>6. \A n \in DOMAIN r : n + 1 \in DOMAIN q /\ n \in Nat \ {0} /\ r[n] = q[n + 1]
  BY <1>5
<1>7. \A n \in DOMAIN q : n # 1 => n - 1 \in DOMAIN r /\ n = (n - 1) + 1
  BY <1>5
<1> QED
  BY <1>1, <1>4, <1>6, <1>7 DEF r

\* A queue with one more.
LEMMA AppendSeq ==
  ASSUME NEW S, NEW q \in Seq(S), NEW x \in S
  PROVE  /\ Append(q, x) \in Seq(S)
         /\ \E d \in Nat : /\ DOMAIN q = 1 .. d /\ DOMAIN Append(q, x) = 1 .. d + 1
                           /\ Append(q, x)[d + 1] = x
                           /\ \A n \in 1 .. d : Append(q, x)[n] = q[n]
<1>1. Len(q) \in Nat /\ DOMAIN q = 1 .. Len(q)
  OBVIOUS
<1>2. /\ Append(q, x) \in Seq(S) /\ Len(Append(q, x)) = Len(q) + 1
      /\ \A n \in 1 .. Len(q) : Append(q, x)[n] = q[n]
      /\ Append(q, x)[Len(q) + 1] = x
  BY AppendProperties
<1>3. DOMAIN Append(q, x) = 1 .. Len(q) + 1
  BY <1>2
<1> QED
  BY <1>1, <1>2, <1>3, Zenon

Kinds == {"none", "OPEN", "CLOSE", "ERR", "WARNING", "ACCEPT", "DATA"}

\* What a message does to the history of who was told.
Told(id, type, opaque) ==
    /\ result' \in Results /\ heard' \in [Ids -> Services \cup {"none", "gone"}]
    /\ \A x \in Ids : x # id => heard'[x] = heard[x]
    /\ id \in Ids => heard'[id] = IF type = "OPEN" THEN opaque
                                  ELSE IF type \in {"CLOSE", "ERR"} THEN "gone" ELSE heard[id]
    /\ type # "none" => result'.type = type /\ result'.id = id /\ result'.opaque = opaque

LEMMA ForwardTold ==
  ASSUME TypeInv, NEW type \in Kinds \ {"none"}, NEW id \in 0 .. MaxId,
         NEW opaque \in Services \cup {"none"}, Forward(type, id, opaque)
  PROVE  Told(id, type, opaque)
<1>1. result' \in Results /\ result'.type = type /\ result'.id = id /\ result'.opaque = opaque
  BY DEF Forward, Results, Kinds
<1>2. heard \in [Ids -> Services \cup {"none", "gone"}]
  BY DEF TypeInv
<1> DEFINE v == IF type = "OPEN" THEN opaque
                ELSE IF type \in {"CLOSE", "ERR"} THEN "gone" ELSE heard[id]
<1>3. heard' = [heard EXCEPT ![id] = v]
  <2>1. CASE type = "OPEN"
    BY <2>1 DEF Forward
  <2>2. CASE type \in {"CLOSE", "ERR"}
    BY <2>2 DEF Forward
  <2>3. CASE type \notin {"OPEN", "CLOSE", "ERR"}
    BY <2>3 DEF Forward
  <2> QED
    BY <2>1, <2>2, <2>3
<1>4. id \in Ids => v \in Services \cup {"none", "gone"}
  BY <1>2
<1> HIDE DEF v
<1>5. heard' \in [Ids -> Services \cup {"none", "gone"}] /\ (id \in Ids => heard'[id] = v)
      /\ \A x \in Ids : x # id => heard'[x] = heard[x]
  BY <1>2, <1>3, <1>4
<1> QED
  BY <1>1, <1>5 DEF Told, v

LEMMA NothingTold ==
  ASSUME TypeInv, Nothing, NEW id, NEW opaque
  PROVE  Told(id, "none", opaque)
<1>1. Quiet \in Results
  <2>1. MaxId \in Nat
    BY SocketAssumption
  <2> QED
    BY <2>1 DEF Quiet, Results
<1> QED
  BY <1>1 DEF Nothing, Told, TypeInv

LEMMA ReturnTold ==
  ASSUME TypeInv, NEW type \in Kinds, NEW id \in 0 .. MaxId,
         NEW opaque \in Services \cup {"none"}, Return(type, id, opaque)
  PROVE  /\ Told(id, type, opaque) /\ pc' \in {"top", "take", "failing", "clear"}
         /\ pc' = IF type \in {"CLOSE", "ERR"} THEN "clear" ELSE pc
<1>1. pc' = IF type \in {"CLOSE", "ERR"} THEN "clear" ELSE pc
  BY DEF Return
<1>2. pc' \in {"top", "take", "failing", "clear"}
  BY <1>1 DEF TypeInv
<1>3. CASE type = "none"
  <2>1. Nothing
    BY <1>3 DEF Return
  <2> QED
    BY <1>1, <1>2, <1>3, <2>1, NothingTold
<1>4. CASE type # "none"
  <2>1. Forward(type, id, opaque) /\ type \in Kinds \ {"none"}
    BY <1>4 DEF Return
  <2> QED
    BY <1>1, <1>2, <2>1, ForwardTold
<1> QED
  BY <1>3, <1>4

-----------------------------------------------------------------------------
(* Commands.                                                               *)

\* The socket thread takes command r and the slot of its id becomes t.
Handled(r, i, t) ==
    /\ pipe # <<>> /\ r = Head(pipe) /\ i = Hash(r.id) /\ pipe' = Tail(pipe)
    /\ slot' = [slot EXCEPT ![i] = t]
    /\ alloc_id' = alloc_id /\ rsv' = rsv /\ checkctrl' = checkctrl /\ ev' = ev /\ known' = known

\* The command and its slot.
LEMMA HeadCommand ==
  ASSUME TypeInv, FreshInv, pipe # <<>>, NEW r, r = Head(pipe), NEW i, i = Hash(r.id)
  PROVE  /\ r = pipe[1] /\ 1 \in DOMAIN pipe /\ r \in Requests /\ r.id \in Ids /\ r.id \in known
         /\ r.id \in 0 .. MaxId /\ r.opaque \in Services /\ i \in SlotIx
         /\ r.op \in {"D", "P"} => r.p \in Packets
         /\ slot[i] \in SlotRecord /\ Sized(slot[i])
<1>1. r = pipe[1] /\ 1 \in DOMAIN pipe /\ r \in Requests
  BY TailSeq DEF TypeInv
<1>2. r.id \in Ids /\ r.opaque \in Services
  BY <1>1 DEF Requests
<1>3. r.id \in Nat /\ r.id \in 0 .. MaxId
  BY <1>2, SocketAssumption DEF Ids
<1>4. i \in SlotIx
  BY <1>3, HashIx
<1> QED
  BY <1>1, <1>2, <1>3, <1>4 DEF TypeInv, FreshInv

LEMMA CommandTypes ==
  ASSUME TypeInv, FreshInv, DistinctInv, NEW r, NEW i, NEW t, Handled(r, i, t), Sized(t),
         result' \in Results, heard' \in [Ids -> Services \cup {"none", "gone"}],
         pc' \in {"top", "take", "failing", "clear"}, raced' \in BOOLEAN
  PROVE  TypeInv' /\ FreshInv' /\ DistinctInv'
<1>1. i \in SlotIx
  BY HeadCommand DEF Handled
<1>2. /\ pipe' \in Seq(Requests)
      /\ \A n \in DOMAIN pipe' : n + 1 \in DOMAIN pipe /\ n \in Nat \ {0} /\ pipe'[n] = pipe[n + 1]
  BY TailSeq DEF Handled, TypeInv
<1>3. slot' \in [SlotIx -> SlotRecord] /\ \A j \in SlotIx : Sized(slot'[j])
  <2>1. slot \in [SlotIx -> SlotRecord] /\ slot' = [slot EXCEPT ![i] = t] /\ t \in SlotRecord
    BY DEF Handled, TypeInv, Sized
  <2>2. \A j \in SlotIx : slot'[j] = IF j = i THEN t ELSE slot[j]
    BY <2>1
  <2> QED
    BY <1>1, <2>1, <2>2 DEF TypeInv
<1>4. TypeInv'
  BY <1>2, <1>3 DEF TypeInv, Handled
<1>5. FreshInv'
  <2>1. \A m, n \in DOMAIN pipe' : Opens(pipe'[n]) /\ m < n => pipe'[m].id # pipe'[n].id
    <3> SUFFICES ASSUME NEW m \in DOMAIN pipe', NEW n \in DOMAIN pipe', Opens(pipe'[n]), m < n
                 PROVE  pipe'[m].id # pipe'[n].id
      OBVIOUS
    <3>1. m + 1 < n + 1 /\ m + 1 \in DOMAIN pipe /\ n + 1 \in DOMAIN pipe
      BY <1>2
    <3>2. pipe'[m] = pipe[m + 1] /\ pipe'[n] = pipe[n + 1]
      BY <1>2
    <3> QED
      BY <3>1, <3>2 DEF FreshInv
  <2>2. \A n \in DOMAIN pipe' : pipe'[n].id \in known
    BY <1>2 DEF FreshInv
  <2> QED
    BY <2>1, <2>2 DEF FreshInv, Handled
<1>6. DistinctInv'
  BY DEF DistinctInv, Handled
<1> QED
  BY <1>4, <1>5, <1>6

LEMMA CommandCalm ==
  ASSUME TypeInv, FreshInv, CalmInv, failed = "no", pc = "top",
         NEW r, NEW i, NEW t, Handled(r, i, t), Buffers(t), t.type = "CONNECTING" => t.out,
         NEW type, NEW opaque, Told(r.id, type, opaque),
         failed' = "no" => (t.type = "RESERVE" <=> slot[i].type = "RESERVE" /\ ~Opens(r)),
         t.type \notin Unused => t.id \in known /\ Hash(t.id) = i,
         slot[i].type \in PolledTypes =>
            \/ t.type \in PolledTypes /\ t.id = slot[i].id
            \/ pc' = "clear" /\ result'.id = slot[i].id /\ t.type = "INVALID" /\ t.id = slot[i].id,
         t.type \in {"PLISTEN", "PACCEPT", "CONNECTING"} => heard'[t.id] # "gone",
         t.type = "CONNECTED" => heard'[t.id] = t.opaque
  PROVE  CalmInv'
<1>1. /\ i \in SlotIx /\ 1 \in DOMAIN pipe /\ r = pipe[1] /\ i = Hash(r.id) /\ r.id \in known
      /\ r.id \in Ids
  BY HeadCommand DEF Handled
<1>2. slot'[i] = t /\ \A j \in SlotIx : j # i => slot'[j] = slot[j]
  BY <1>1 DEF Handled, TypeInv
<1>3. /\ \A n \in DOMAIN pipe' : n + 1 \in DOMAIN pipe /\ n \in Nat \ {0} /\ pipe'[n] = pipe[n + 1]
      /\ \A n \in DOMAIN pipe : n # 1 => n - 1 \in DOMAIN pipe' /\ n = (n - 1) + 1
  BY TailSeq DEF Handled, TypeInv
<1>4. BufInv'
  <2>1. \A j \in SlotIx : Buffers(slot'[j])
    BY <1>2 DEF CalmInv, BufInv
  <2> QED
    BY <2>1 DEF BufInv
<1>5. IdInv' /\ ConnectInv'
  BY <1>2 DEF CalmInv, IdInv, ConnectInv, Handled
<1>6. EventInv'
  <2> SUFFICES ASSUME NEW n \in DOMAIN ev, ev[n].s # NULL
               PROVE  Hash(ev[n].id) = ev[n].s /\ EventOK(ev[n])'
    BY DEF EventInv, Handled
  <2> DEFINE e == ev[n]
  <2>1. Hash(e.id) = e.s /\ slot[e.s].type \in PolledTypes /\ slot[e.s].id = e.id
    BY DEF CalmInv, EventInv, EventOK
  <2>2. e.s \in SlotIx
    <3>1. e \in Events
      BY DEF TypeInv
    <3> HIDE DEF e
    <3>2. e.s \in SlotIx \cup {NULL}
      BY <3>1 DEF Events
    <3> QED
      BY <3>2 DEF e
  <2>3. ev'[n] = e
    BY DEF Handled
  <2> HIDE DEF e
  <2>4. CASE e.s = i
    BY <1>2, <2>1, <2>2, <2>3, <2>4 DEF EventOK, e
  <2>5. CASE e.s # i
    BY <1>2, <2>1, <2>2, <2>3, <2>5 DEF EventOK, e
  <2> QED
    BY <2>1, <2>4, <2>5 DEF e
<1>7. HeardInv'
  <2>0. \A x \in Ids : x # r.id => heard'[x] = heard[x]
    BY DEF Told
  <2>1. ASSUME NEW j \in SlotIx
        PROVE  /\ slot'[j].type \in {"PLISTEN", "PACCEPT", "CONNECTING"} => heard'[slot'[j].id] # "gone"
               /\ slot'[j].type = "CONNECTED" => heard'[slot'[j].id] = slot'[j].opaque
    <3>1. CASE j = i
      BY <1>2, <3>1
    <3>2. CASE j # i
      <4>1. slot'[j] = slot[j]
        BY <1>2, <3>2
      <4>2. CASE slot[j].type \in Unused
        BY <4>1, <4>2 DEF Unused
      <4>3. CASE slot[j].type \notin Unused
        <5>1. slot[j].id \in known /\ Hash(slot[j].id) = j /\ slot[j].id \in Ids
          BY <4>3 DEF CalmInv, IdInv, TypeInv
        <5>2. slot[j].id # r.id
          BY <1>1, <3>2, <5>1
        <5>3. heard'[slot[j].id] = heard[slot[j].id]
          BY <2>0, <5>1, <5>2
        <5> QED
          BY <4>1, <5>3 DEF CalmInv, HeardInv
      <4> QED
        BY <4>2, <4>3
    <3> QED
      BY <3>1, <3>2
  <2>2. ASSUME NEW n \in DOMAIN pipe', Opens(pipe'[n]) PROVE heard'[pipe'[n].id] # "gone"
    <3>1. n + 1 \in DOMAIN pipe /\ pipe'[n] = pipe[n + 1] /\ 1 < n + 1
      BY <1>3
    <3>2. pipe[n + 1].id # r.id /\ pipe[n + 1].id \in Ids
      BY <1>1, <2>2, <3>1 DEF FreshInv, TypeInv
    <3>3. heard[pipe[n + 1].id] # "gone"
      BY <2>2, <3>1 DEF CalmInv, HeardInv
    <3> QED
      BY <2>0, <3>1, <3>2, <3>3
  <2>3. ASSUME NEW w \in Services, rsv'[w].pc = "store" PROVE heard'[rsv'[w].id] # "gone"
    <3>1. rsv' = rsv
      BY DEF Handled
    <3>2. rsv[w].id \in Ids /\ rsv[w].id # r.id
      BY <1>1, <2>3, <3>1 DEF FreshInv
    <3> QED
      BY <2>0, <2>3, <3>1, <3>2 DEF CalmInv, HeardInv
  <2>4. ASSUME NEW id \in Ids, id > alloc_id' PROVE heard'[id] # "gone"
    <3>1. alloc_id' = alloc_id /\ r.id <= alloc_id
      BY <1>1 DEF Handled, FreshInv
    <3>2. id # r.id
      <4>1. id \in Nat /\ alloc_id \in Nat
        BY SocketAssumption DEF Ids, TypeInv
      <4> QED
        BY <2>4, <3>1, <4>1
    <3> QED
      BY <2>0, <2>4, <3>1, <3>2 DEF CalmInv, HeardInv
  <2> QED
    BY <2>1, <2>2, <2>3, <2>4 DEF HeardInv
<1>8. ASSUME failed' = "no" PROVE ClaimInv'
  <2>0. ClaimInv /\ rsv' = rsv
    BY DEF CalmInv, Handled
  <2>1. ASSUME NEW w \in Services, rsv[w].pc = "store" PROVE slot'[Hash(rsv[w].id)].type = "RESERVE"
    <3>1. slot[Hash(rsv[w].id)].type = "RESERVE" /\ Hash(rsv[w].id) \in SlotIx
      <4>1. rsv[w].id \in Nat
        BY <2>1, SocketAssumption DEF FreshInv, Ids
      <4> QED
        BY <2>0, <2>1, <4>1, HashIx DEF ClaimInv
    <3>2. CASE Hash(rsv[w].id) = i
      <4>1. ~Opens(r)
        BY <1>1, <2>0, <2>1, <3>2 DEF ClaimInv
      <4> QED
        BY <1>2, <1>8, <3>1, <3>2, <4>1
    <3>3. CASE Hash(rsv[w].id) # i
      BY <1>2, <3>1, <3>3
    <3> QED
      BY <3>2, <3>3
  <2>2. ASSUME NEW n \in DOMAIN pipe', Opens(pipe'[n]) PROVE slot'[Hash(pipe'[n].id)].type = "RESERVE"
    <3>1. n + 1 \in DOMAIN pipe /\ pipe'[n] = pipe[n + 1] /\ 1 # n + 1
      BY <1>3
    <3>2. slot[Hash(pipe[n + 1].id)].type = "RESERVE" /\ Hash(pipe[n + 1].id) \in SlotIx
      <4>1. pipe[n + 1].id \in Nat
        <5>1. pipe[n + 1] \in Requests
          BY <3>1 DEF TypeInv
        <5>2. pipe[n + 1].id \in Ids
          BY <5>1 DEF Requests
        <5> QED
          BY <5>2, SocketAssumption DEF Ids
      <4> QED
        BY <2>0, <2>2, <3>1, <4>1, HashIx DEF ClaimInv
    <3>3. CASE Hash(pipe[n + 1].id) = i
      <4>1. ~Opens(r)
        BY <1>1, <2>0, <2>2, <3>1, <3>3 DEF ClaimInv
      <4> QED
        BY <1>2, <1>8, <3>1, <3>2, <3>3, <4>1
    <3>4. CASE Hash(pipe[n + 1].id) # i
      BY <1>2, <3>1, <3>2, <3>4
    <3> QED
      BY <3>3, <3>4
  <2>3. \A m, n \in DOMAIN pipe' :
          Opens(pipe'[m]) /\ Opens(pipe'[n]) /\ Hash(pipe'[m].id) = Hash(pipe'[n].id) => m = n
    <3> SUFFICES ASSUME NEW m \in DOMAIN pipe', NEW n \in DOMAIN pipe', Opens(pipe'[m]),
                        Opens(pipe'[n]), Hash(pipe'[m].id) = Hash(pipe'[n].id)
                 PROVE  m = n
      OBVIOUS
    <3>1. m + 1 \in DOMAIN pipe /\ n + 1 \in DOMAIN pipe /\ pipe'[m] = pipe[m + 1]
          /\ pipe'[n] = pipe[n + 1] /\ m \in Nat /\ n \in Nat
      BY <1>3
    <3>2. m + 1 = n + 1
      BY <2>0, <3>1 DEF ClaimInv
    <3> QED
      BY <3>1, <3>2
  <2>4. \A w \in Services, n \in DOMAIN pipe' :
          rsv[w].pc = "store" /\ Opens(pipe'[n]) => Hash(rsv[w].id) # Hash(pipe'[n].id)
    BY <1>3, <2>0 DEF ClaimInv
  <2>5. ASSUME NEW j \in SlotIx, slot'[j].type = "RESERVE"
        PROVE  \/ \E w \in Services : rsv[w].pc = "store" /\ Hash(rsv[w].id) = j
               \/ \E n \in DOMAIN pipe' : Opens(pipe'[n]) /\ Hash(pipe'[n].id) = j
    <3>1. slot[j].type = "RESERVE" /\ (j = i => ~Opens(r))
      BY <1>2, <1>8, <2>5
    <3>2. CASE \E w \in Services : rsv[w].pc = "store" /\ Hash(rsv[w].id) = j
      BY <3>2
    <3>3. CASE \E n \in DOMAIN pipe : Opens(pipe[n]) /\ Hash(pipe[n].id) = j
      <4>1. PICK n \in DOMAIN pipe : Opens(pipe[n]) /\ Hash(pipe[n].id) = j
        BY <3>3
      <4>2. n # 1
        BY <1>1, <3>1, <4>1
      <4>3. n - 1 \in DOMAIN pipe' /\ pipe'[n - 1] = pipe[n]
        BY <1>3, <4>2
      <4> QED
        BY <4>1, <4>3
    <3> QED
      BY <2>0, <3>1, <3>2, <3>3 DEF ClaimInv
  <2> QED
    BY <2>0, <2>1, <2>2, <2>3, <2>4, <2>5 DEF ClaimInv
<1> QED
  BY <1>4, <1>5, <1>6, <1>7, <1>8 DEF CalmInv

\* What the new slot t of command r must satisfy.
Fits(r, i, t) ==
    /\ Buffers(t) /\ (t.type = "CONNECTING" => t.out)
    /\ failed' = "no" => (t.type = "RESERVE" <=> slot[i].type = "RESERVE" /\ ~Opens(r))
    /\ t.type \notin Unused => t.id \in known /\ Hash(t.id) = i
    /\ slot[i].type \in PolledTypes =>
          \/ t.type \in PolledTypes /\ t.id = slot[i].id
          \/ pc' = "clear" /\ result'.id = slot[i].id /\ t.type = "INVALID" /\ t.id = slot[i].id
    /\ t.type \in {"PLISTEN", "PACCEPT", "CONNECTING"} => heard'[t.id] # "gone"
    /\ t.type = "CONNECTED" => heard'[t.id] = t.opaque

LEMMA CommandInv ==
  ASSUME SocketInv, failed = "no", pc = "top", NEW r, NEW i, NEW t, Handled(r, i, t), Sized(t),
         NEW type, NEW opaque, Told(r.id, type, opaque),
         pc' \in {"top", "take", "failing", "clear"}, raced' \in BOOLEAN, raced => raced', AssertsPinned',
         ~raced' => Fits(r, i, t)
  PROVE  SocketInv'
<1>1. TypeInv' /\ FreshInv' /\ DistinctInv'
  BY CommandTypes DEF SocketInv, Told
<1>2. ASSUME ~raced' PROVE CalmInv'
  <2>1. CalmInv /\ TypeInv /\ FreshInv /\ Fits(r, i, t)
    BY <1>2 DEF SocketInv
  <2> QED
    BY <2>1, CommandCalm DEF Fits
<1> QED
  BY <1>1, <1>2 DEF SocketInv

\* No assertion fails in the step.
LEMMA NoFailure ==
  ASSUME failed = "no", failed' = failed
  PROVE  AssertsPinned'
  BY DEF AssertsPinned

\* A slot that stays as it is.
LEMMA SameSlot ==
  ASSUME TypeInv, NEW i \in SlotIx, slot' = slot
  PROVE  slot' = [slot EXCEPT ![i] = slot[i]]
  BY DEF TypeInv

\* A slot that stays as it is fits.
LEMMA SameFits ==
  ASSUME SocketInv, ~raced, NEW r, NEW i \in SlotIx, ~Opens(r),
         slot[i].type \in {"PLISTEN", "PACCEPT", "CONNECTING"} => heard'[slot[i].id] # "gone",
         slot[i].type = "CONNECTED" => heard'[slot[i].id] = slot[i].opaque
  PROVE  Fits(r, i, slot[i])
  BY DEF Fits, SocketInv, CalmInv, BufInv, ConnectInv, IdInv

\* A slot before its first use.
LEMMA FreeFields ==
  /\ FreeSlot \in SlotRecord /\ FreeSlot.high = <<>> /\ FreeSlot.low = <<>> /\ FreeSlot.wb_size = 0
  /\ FreeSlot.type = "INVALID"
<1>1. "INVALID" \in Types /\ 0 \in 0 .. MaxId /\ <<>> \in Lists
  BY SocketAssumption, EmptyList DEF Types
<1> QED
  BY <1>1 DEF FreeSlot, SlotRecord

\* The slot that new_fd fills in.
LEMMA NewSlot ==
  ASSUME NEW id \in Ids, NEW type \in Types, NEW opaque \in Services,
         type \notin {"RESERVE", "INVALID", "HALFCLOSE"},
         NEW t, t = NewFd(id, type, opaque) \/ t = [NewFd(id, type, opaque) EXCEPT !.out = TRUE]
  PROVE  /\ Sized(t) /\ Buffers(t) /\ t.type = type /\ t.id = id /\ t.opaque = opaque
         /\ t = [NewFd(id, type, opaque) EXCEPT !.out = TRUE] => t.out
<1>1. t \in SlotRecord /\ t.type = type /\ t.id = id /\ t.opaque = opaque
      /\ (t = [NewFd(id, type, opaque) EXCEPT !.out = TRUE] => t.out)
      /\ t.high = <<>> /\ t.low = <<>> /\ t.wb_size = 0
  <2>1. <<>> \in Lists /\ id \in 0 .. MaxId /\ opaque \in Services \cup {"none"}
    BY EmptyList, SocketAssumption DEF Ids
  <2>2. FreeSlot \in SlotRecord /\ FreeSlot.high = <<>> /\ FreeSlot.low = <<>> /\ FreeSlot.wb_size = 0
    BY FreeFields
  <2> DEFINE f == NewFd(id, type, opaque)
  <2>3. f = [FreeSlot EXCEPT !.type = type, !.id = id, !.opaque = opaque]
    BY DEF NewFd
  <2> HIDE DEF f
  <2>4. f \in SlotRecord /\ f.type = type /\ f.id = id /\ f.opaque = opaque
        /\ f.high = <<>> /\ f.low = <<>> /\ f.wb_size = 0
    BY <2>1, <2>2, <2>3 DEF SlotRecord
  <2>5. CASE t = f
    BY <2>4, <2>5 DEF SlotRecord, f
  <2>6. CASE t = [f EXCEPT !.out = TRUE]
    BY <2>4, <2>6 DEF SlotRecord
  <2> QED
    BY <2>5, <2>6 DEF f
<1>2. Sized(t)
  BY <1>1, EmptyList DEF Sized
<1> QED
  BY <1>1, <1>2, EmptyList DEF Buffers, Buffered, Unused, send_buffer_empty

\* The slot of a command that opens a socket.
LEMMA OpensCalm ==
  ASSUME SocketInv, ~raced, failed = "no", pipe # <<>>, Opens(Head(pipe))
  PROVE  LET s == slot[Hash(Head(pipe).id)] IN
         /\ s.type = "RESERVE" /\ FdFree(s) /\ heard[Head(pipe).id] # "gone"
         /\ s.low = <<>> /\ s.high = <<>>
<1> DEFINE r == Head(pipe)
           i == Hash(r.id)
<1>1. r = pipe[1] /\ 1 \in DOMAIN pipe /\ i \in SlotIx
  BY HeadCommand DEF SocketInv
<1>2. CalmInv /\ ClaimInv
  BY DEF SocketInv, CalmInv
<1>3. slot[i].type = "RESERVE" /\ heard[r.id] # "gone"
  BY <1>1, <1>2 DEF ClaimInv, CalmInv, HeardInv
<1>4. send_buffer_empty(slot[i])
  BY <1>1, <1>2, <1>3 DEF CalmInv, BufInv, Buffers, Buffered
<1> QED
  BY <1>3, <1>4 DEF FdFree, send_buffer_empty

\* The step of a failed assertion changes no slot.
LEMMA FailedCommand ==
  ASSUME SocketInv, failed = "no", pc = "top", NEW r, NEW i, NEW what, Fail(what),
         pipe # <<>>, r = Head(pipe), i = Hash(r.id), pipe' = Tail(pipe),
         UNCHANGED <<alloc_id, rsv, checkctrl, ev, known>>,
         raced' \in BOOLEAN, raced => raced', failed' # "no", AssertsPinned'
  PROVE  SocketInv'
<1>1. TypeInv /\ FreshInv /\ i \in SlotIx /\ slot[i] \in SlotRecord /\ Sized(slot[i])
  BY HeadCommand DEF SocketInv
<1>2. slot' = slot /\ pc' = pc /\ Nothing
  BY DEF Fail
<1>3. Handled(r, i, slot[i])
  BY <1>1, <1>2, SameSlot DEF Handled
<1>4. Told(r.id, "none", "none") /\ heard' = heard
  BY <1>1, <1>2, NothingTold DEF Nothing
<1>5. pc' \in {"top", "take", "failing", "clear"}
  BY <1>2 DEF SocketInv, TypeInv
<1>6. ASSUME ~raced' PROVE Fits(r, i, slot[i])
  BY <1>1, <1>4, <1>6 DEF Fits, SocketInv, CalmInv, BufInv, ConnectInv, IdInv, HeardInv
<1> QED
  BY <1>1, <1>3, <1>4, <1>5, <1>6, CommandInv

\* The socket thread opens a connection.
LEMMA OpenStep ==
  ASSUME SocketInv, failed = "no", open_socket
  PROVE  SocketInv'
<1> DEFINE r == Head(pipe)
           i == Hash(r.id)
<1>1. /\ pc = "top" /\ pipe # <<>> /\ pipe' = Tail(pipe) /\ r.op = "O" /\ raced' = raced
      /\ UNCHANGED <<alloc_id, rsv, checkctrl, ev, known>>
  BY DEF open_socket, Command
<1>2. /\ TypeInv /\ r.id \in Ids /\ r.id \in known /\ r.id \in 0 .. MaxId /\ r.opaque \in Services
      /\ i \in SlotIx /\ slot[i] \in SlotRecord /\ Sized(slot[i]) /\ raced \in BOOLEAN
      /\ r.opaque \in Services \cup {"none"} /\ slot \in [SlotIx -> SlotRecord]
  BY <1>1, HeadCommand DEF SocketInv, TypeInv
<1>3. Opens(r)
  BY <1>1 DEF Opens
<1>4. ~raced => slot[i].type = "RESERVE" /\ FdFree(slot[i]) /\ heard[r.id] # "gone"
                /\ slot[i].low = <<>> /\ slot[i].high = <<>>
  BY <1>1, <1>3, OpensCalm
<1>5. CASE /\ slot' = [slot EXCEPT ![i].type = "INVALID"]
           /\ Return("ERR", r.id, r.opaque)
           /\ UNCHANGED <<failed, wire>>
  <2> DEFINE t == [slot[i] EXCEPT !.type = "INVALID"]
  <2>1. slot' = [slot EXCEPT ![i] = t]
    BY <1>2, <1>5
  <2>2. t \in SlotRecord /\ t.type = "INVALID" /\ t.low = slot[i].low /\ t.high = slot[i].high
        /\ t.wb_size = slot[i].wb_size
    <3>1. "INVALID" \in Types
      BY DEF Types
    <3> QED
      BY <1>2, <3>1 DEF SlotRecord
  <2> HIDE DEF t
  <2>3. Sized(t)
    BY <1>2, <2>2 DEF Sized
  <2>4. Told(r.id, "ERR", r.opaque) /\ pc' \in {"top", "take", "failing", "clear"}
    <3>1. "ERR" \in Kinds
      BY DEF Kinds
    <3> QED
      BY <1>2, <1>5, <3>1, ReturnTold
  <2>5. ASSUME ~raced' PROVE Fits(r, i, t)
    <3>1. Buffers(t)
      BY <1>1, <1>4, <2>2, <2>5, EmptyList DEF Buffers, Buffered, Unused, send_buffer_empty
    <3> QED
      BY <1>1, <1>3, <1>4, <2>2, <2>5, <3>1 DEF Fits, Unused, PolledTypes
  <2>6. AssertsPinned'
    BY <1>5, NoFailure
  <2>7. Handled(r, i, t)
    BY <1>1, <2>1 DEF Handled
  <2> QED
    BY <1>1, <1>2, <2>3, <2>4, <2>5, <2>6, <2>7, CommandInv
<1>8. CASE AddFails(r)
  <2> DEFINE t == [slot[i] EXCEPT !.type = "INVALID"]
  <2>0. /\ slot' = [slot EXCEPT ![i].type = "INVALID"] /\ pc' = "failing"
        /\ result' = [type |-> "none", id |-> r.id, opaque |-> r.opaque]
        /\ UNCHANGED <<failed, wire, heard>>
    BY <1>8 DEF AddFails
  <2>1. slot' = [slot EXCEPT ![i] = t]
    BY <1>2, <2>0
  <2>2. t \in SlotRecord /\ t.type = "INVALID" /\ t.low = slot[i].low /\ t.high = slot[i].high
        /\ t.wb_size = slot[i].wb_size
    <3>1. "INVALID" \in Types
      BY DEF Types
    <3> QED
      BY <1>2, <3>1 DEF SlotRecord
  <2> HIDE DEF t
  <2>3. Sized(t)
    BY <1>2, <2>2 DEF Sized
  <2>4. Told(r.id, "none", r.opaque)
    BY <1>2, <2>0 DEF Told, Results, TypeInv
  <2>5. ASSUME ~raced' PROVE Fits(r, i, t)
    <3>1. Buffers(t)
      BY <1>1, <1>4, <2>2, <2>5, EmptyList DEF Buffers, Buffered, Unused, send_buffer_empty
    <3> QED
      BY <1>1, <1>3, <1>4, <2>2, <2>5, <3>1 DEF Fits, Unused, PolledTypes
  <2>6. AssertsPinned'
    BY <2>0, NoFailure
  <2>7. Handled(r, i, t)
    BY <1>1, <2>1 DEF Handled
  <2> QED
    BY <1>1, <1>2, <2>0, <2>3, <2>4, <2>5, <2>6, <2>7, CommandInv
<1>6. ASSUME NEW t, NEW type \in {"CONNECTED", "CONNECTING"},
             t = NewFd(r.id, type, r.opaque) \/ t = [NewFd(r.id, type, r.opaque) EXCEPT !.out = TRUE],
             type = "CONNECTING" => t = [NewFd(r.id, type, r.opaque) EXCEPT !.out = TRUE],
             slot' = [slot EXCEPT ![i] = t], NEW kind \in {"OPEN", "none"},
             Return(kind, r.id, r.opaque), type = "CONNECTED" => kind = "OPEN",
             type # "CONNECTED" => kind = "none",
             UNCHANGED <<failed, wire>>
      PROVE  SocketInv'
  <2>1. type \in Types /\ type \notin {"RESERVE", "INVALID", "HALFCLOSE"} /\ kind \in Kinds
    BY DEF Types, Kinds
  <2>2. /\ Sized(t) /\ Buffers(t) /\ t.type = type /\ t.id = r.id /\ t.opaque = r.opaque
        /\ type = "CONNECTING" => t.out
    <3> HIDE DEF r
    <3> QED
      BY <1>2, <1>6, <2>1, NewSlot
  <2>3. Told(r.id, kind, r.opaque) /\ pc' \in {"top", "take", "failing", "clear"}
    BY <1>2, <1>6, <2>1, ReturnTold
  <2>4. ASSUME ~raced' PROVE Fits(r, i, t)
    <3>1. heard'[r.id] = IF kind = "OPEN" THEN r.opaque ELSE heard[r.id]
      BY <1>2, <2>3 DEF Told
    <3> QED
      BY <1>1, <1>2, <1>3, <1>4, <1>6, <2>2, <2>4, <3>1 DEF Fits, Unused, PolledTypes
  <2>5. AssertsPinned'
    BY <1>6, NoFailure
  <2>6. Handled(r, i, t)
    BY <1>1, <1>6 DEF Handled
  <2> QED
    BY <1>1, <1>2, <2>2, <2>3, <2>4, <2>5, <2>6, CommandInv
<1>7. CASE ~FdFree(slot[i]) /\ Fail("new_fd")
  <2>1. raced /\ raced' /\ failed' # "no"
    BY <1>1, <1>4, <1>7 DEF Fail
  <2>2. AssertsPinned'
    BY <2>1 DEF AssertsPinned
  <2> QED
    BY <1>1, <1>2, <1>7, <2>1, <2>2, FailedCommand
<1> QED
  <2>1. CASE /\ FdFree(slot[i])
             /\ slot' = [slot EXCEPT ![i] = NewFd(r.id, "CONNECTED", r.opaque)]
             /\ Return("OPEN", r.id, r.opaque)
             /\ UNCHANGED <<failed, wire>>
    BY <1>6, <2>1
  <2>2. CASE /\ FdFree(slot[i])
             /\ slot' = [slot EXCEPT ![i] = [NewFd(r.id, "CONNECTING", r.opaque) EXCEPT !.out = TRUE]]
             /\ Return("none", r.id, r.opaque)
             /\ UNCHANGED <<failed, wire>>
    BY <1>6, <2>2
  <2> QED
    BY <1>5, <1>7, <1>8, <2>1, <2>2 DEF open_socket

\* The label _failed, after new_fd has failed.
LEMMA OpenFailedStep ==
  ASSUME SocketInv, FailInv, failed = "no", open_failed
  PROVE  SocketInv'
<1> DEFINE id == result.id
           i == Hash(id)
           s == slot[i]
           t == [s EXCEPT !.type = "INVALID"]
<1>1. /\ pc = "failing" /\ raced' = (raced \/ s.type = "RESERVE")
      /\ slot' = [slot EXCEPT ![i].type = "INVALID"] /\ Return("ERR", id, result.opaque)
      /\ UNCHANGED <<alloc_id, rsv, pipe, checkctrl, ev, failed, known>>
  BY DEF open_failed
<1>2. TypeInv /\ FreshInv /\ DistinctInv /\ raced \in BOOLEAN /\ alloc_id \in 0 .. MaxId
  BY DEF SocketInv, TypeInv
<1>3. /\ id \in known /\ id \in Ids /\ result.opaque \in Services /\ s.type \in Unused
      /\ \A n \in DOMAIN pipe : Opens(pipe[n]) => pipe[n].id # id
      /\ id <= alloc_id
  BY <1>1, <1>2 DEF FailInv, TypeInv, FreshInv
<1>4. id \in Nat /\ id \in 0 .. MaxId /\ result.opaque \in Services \cup {"none"}
  BY <1>3, SocketAssumption DEF Ids
<1>5. i \in SlotIx /\ s \in SlotRecord /\ Sized(s)
  BY <1>2, <1>4, HashIx DEF TypeInv
<1>6. "ERR" \in Kinds /\ "INVALID" \in Types
  BY DEF Kinds, Types
<1>7. Told(id, "ERR", result.opaque) /\ pc' = "clear"
  <2> HIDE DEF id
  <2> QED
    BY <1>1, <1>2, <1>4, <1>6, ReturnTold
<1>8. slot' = [slot EXCEPT ![i] = t]
  BY <1>1, <1>2, <1>5 DEF TypeInv
<1>9. t \in SlotRecord /\ t.low = s.low /\ t.high = s.high /\ t.wb_size = s.wb_size
  <2> HIDE DEF s
  <2> QED
    BY <1>5, <1>6 DEF SlotRecord
<1>10. Sized(t)
  <2> HIDE DEF t
  <2> QED
    BY <1>5, <1>9 DEF Sized
<1>11. TypeInv' /\ FreshInv' /\ DistinctInv' /\ AssertsPinned'
  <2> HIDE DEF t
  <2>1. slot' \in [SlotIx -> SlotRecord] /\ \A j \in SlotIx : Sized(slot'[j])
    <3>1. \A j \in SlotIx : slot'[j] = IF j = i THEN t ELSE slot[j]
      BY <1>2, <1>5, <1>8 DEF TypeInv
    <3> QED
      BY <1>2, <1>5, <1>8, <1>9, <1>10, <3>1 DEF TypeInv
  <2>2. pc' \in {"top", "take", "failing", "clear"} /\ raced' \in BOOLEAN
    BY <1>1, <1>2, <1>7
  <2>3. result' \in Results /\ heard' \in [Ids -> Services \cup {"none", "gone"}]
    BY <1>7 DEF Told
  <2>4. TypeInv'
    BY <1>1, <1>2, <2>1, <2>2, <2>3 DEF TypeInv
  <2>5. FreshInv' /\ DistinctInv' /\ AssertsPinned'
    BY <1>1, <1>2, NoFailure DEF FreshInv, DistinctInv
  <2> QED
    BY <2>4, <2>5
<1>12. ASSUME ~raced' PROVE CalmInv'
  <2>1. ~raced /\ s.type = "INVALID"
    BY <1>1, <1>3, <1>12 DEF Unused
  <2>2. CalmInv /\ ClaimInv
    BY <2>1 DEF SocketInv, CalmInv
  <2>3. slot' = slot
    <3>1. t = s
      <4> HIDE DEF s
      <4> QED
        BY <1>5, <2>1 DEF SlotRecord
    <3> QED
      BY <1>2, <1>5, <1>8, <3>1 DEF TypeInv
  <2>4. BufInv' /\ ConnectInv' /\ IdInv' /\ ClaimInv'
    BY <1>1, <2>2, <2>3 DEF CalmInv, BufInv, ConnectInv, IdInv, ClaimInv
  <2>5. EventInv'
    BY <1>1, <2>2, <2>3 DEF CalmInv, EventInv, EventOK
  <2>6. HeardInv'
    <3>1. \A x \in Ids : x # id => heard'[x] = heard[x]
      BY <1>7 DEF Told
    <3>2. \A j \in SlotIx : slot[j].type \notin Unused => slot[j].id \in Ids /\ slot[j].id # id
      BY <1>2, <1>3, <2>2 DEF CalmInv, IdInv, TypeInv
    <3>3. \A n \in DOMAIN pipe : Opens(pipe[n]) => pipe[n].id \in Ids /\ pipe[n].id # id
      BY <1>2, <1>3 DEF FreshInv, TypeInv
    <3>4. \A w \in Services : rsv[w].pc = "store" => rsv[w].id \in Ids /\ rsv[w].id # id
      BY <1>2, <1>3 DEF FreshInv
    <3>5. \A x \in Ids : x > alloc_id => x # id
      BY <1>2, <1>3 DEF Ids
    <3> HIDE DEF id
    <3>6. \A j \in SlotIx :
            /\ slot[j].type \in {"PLISTEN", "PACCEPT", "CONNECTING"} => heard'[slot[j].id] # "gone"
            /\ slot[j].type = "CONNECTED" => heard'[slot[j].id] = slot[j].opaque
      BY <2>2, <3>1, <3>2 DEF CalmInv, HeardInv, Unused
    <3>7. /\ \A n \in DOMAIN pipe : Opens(pipe[n]) => heard'[pipe[n].id] # "gone"
          /\ \A w \in Services : rsv[w].pc = "store" => heard'[rsv[w].id] # "gone"
          /\ \A x \in Ids : x > alloc_id => heard'[x] # "gone"
      BY <2>2, <3>1, <3>3, <3>4, <3>5 DEF CalmInv, HeardInv
    <3> QED
      BY <1>1, <2>3, <3>6, <3>7 DEF HeardInv
  <2> QED
    BY <2>4, <2>5, <2>6 DEF CalmInv
<1> QED
  BY <1>11, <1>12 DEF SocketInv

\* The socket thread opens a listening socket.
LEMMA ListenStep ==
  ASSUME SocketInv, failed = "no", listen_socket
  PROVE  SocketInv'
<1> DEFINE r == Head(pipe)
           i == Hash(r.id)
<1>1. /\ pc = "top" /\ pipe # <<>> /\ pipe' = Tail(pipe) /\ r.op = "L" /\ raced' = raced
      /\ UNCHANGED <<alloc_id, rsv, checkctrl, ev, known>>
  BY DEF listen_socket, Command
<1>2. /\ TypeInv /\ r.id \in Ids /\ r.id \in known /\ r.id \in 0 .. MaxId /\ r.opaque \in Services
      /\ i \in SlotIx /\ raced \in BOOLEAN /\ r.opaque \in Services \cup {"none"}
  BY <1>1, HeadCommand DEF SocketInv, TypeInv
<1>3. Opens(r)
  BY <1>1 DEF Opens
<1>4. ~raced => slot[i].type = "RESERVE" /\ FdFree(slot[i]) /\ heard[r.id] # "gone"
  BY <1>1, <1>3, OpensCalm
<1>5. CASE /\ slot' = [slot EXCEPT ![i] = NewFd(r.id, "PLISTEN", r.opaque)]
           /\ Return("none", r.id, r.opaque)
           /\ UNCHANGED <<failed, wire>>
  <2> DEFINE t == NewFd(r.id, "PLISTEN", r.opaque)
  <2>1. "PLISTEN" \in Types /\ "none" \in Kinds
    BY DEF Types, Kinds
  <2>2. Sized(t) /\ Buffers(t) /\ t.type = "PLISTEN" /\ t.id = r.id /\ t.opaque = r.opaque
    BY <1>2, <2>1, NewSlot
  <2>3. Told(r.id, "none", r.opaque) /\ pc' \in {"top", "take", "failing", "clear"}
    BY <1>2, <1>5, <2>1, ReturnTold
  <2>6. Handled(r, i, t)
    BY <1>1, <1>5 DEF Handled
  <2> HIDE DEF t
  <2>4. ASSUME ~raced' PROVE Fits(r, i, t)
    <3>1. heard'[r.id] = heard[r.id]
      BY <1>2, <2>3 DEF Told
    <3> QED
      BY <1>1, <1>2, <1>3, <1>4, <2>2, <2>4, <3>1 DEF Fits, Unused, PolledTypes
  <2>5. AssertsPinned'
    BY <1>5, NoFailure
  <2> QED
    BY <1>1, <1>2, <2>2, <2>3, <2>4, <2>5, <2>6, CommandInv
<1>6. CASE ~FdFree(slot[i]) /\ Fail("new_fd")
  <2>1. raced /\ raced' /\ failed' # "no"
    BY <1>1, <1>4, <1>6 DEF Fail
  <2>2. AssertsPinned'
    BY <2>1 DEF AssertsPinned
  <2> QED
    BY <1>1, <1>2, <1>6, <2>1, <2>2, FailedCommand
<1> QED
  BY <1>5, <1>6 DEF listen_socket

\* A command about a slot that stays as it is.
LEMMA UntouchedCommand ==
  ASSUME SocketInv, failed = "no", pc = "top", NEW r, NEW i,
         pipe # <<>>, r = Head(pipe), i = Hash(r.id), pipe' = Tail(pipe), ~Opens(r),
         UNCHANGED <<alloc_id, rsv, checkctrl, ev, known, slot, failed>>,
         raced' \in BOOLEAN, raced => raced',
         NEW type \in Kinds \ {"OPEN"}, Return(type, r.id, r.opaque),
         type \in {"CLOSE", "ERR"} => Stale(slot[i], r.id)
  PROVE  SocketInv'
<1>1. /\ TypeInv /\ FreshInv /\ i \in SlotIx /\ slot[i] \in SlotRecord /\ Sized(slot[i])
      /\ r.id \in 0 .. MaxId /\ r.id \in Ids /\ r.opaque \in Services \cup {"none"}
  BY HeadCommand DEF SocketInv
<1>2. Handled(r, i, slot[i])
  BY <1>1, SameSlot DEF Handled
<1>3. Told(r.id, type, r.opaque) /\ pc' \in {"top", "take", "failing", "clear"}
  BY <1>1, ReturnTold
<1>4. ASSUME ~raced' PROVE Fits(r, i, slot[i])
  <2>1. ~raced /\ HeardInv /\ IdInv
    BY <1>4 DEF SocketInv, CalmInv
  <2>2. ASSUME slot[i].type \notin Unused PROVE heard'[slot[i].id] = heard[slot[i].id]
    <3>1. slot[i].id \in Ids
      BY <1>1, <2>1, <2>2 DEF IdInv, TypeInv
    <3>2. CASE slot[i].id # r.id
      BY <1>3, <3>1, <3>2 DEF Told
    <3>3. CASE slot[i].id = r.id
      <4>1. type \notin {"CLOSE", "ERR", "OPEN"}
        BY <2>2, <3>3 DEF Stale, Unused
      <4> QED
        BY <1>1, <1>3, <3>3, <4>1 DEF Told
    <3> QED
      BY <3>2, <3>3
  <2> QED
    BY <1>1, <2>1, <2>2, SameFits DEF HeardInv, Unused
<1>5. AssertsPinned'
  BY NoFailure
<1> QED
  BY <1>1, <1>2, <1>3, <1>4, <1>5, CommandInv

\* A command that closes the socket of its id.
LEMMA ClosingCommand ==
  ASSUME SocketInv, failed = "no", pc = "top", NEW r, NEW i, NEW t, NEW opaque,
         NEW kind \in {"CLOSE", "ERR"}, Handled(r, i, t), ~Opens(r), Sized(t),
         ~raced' => Buffers(t) /\ slot[i].type # "RESERVE",
         t.type = "INVALID", t.id = slot[i].id, slot[i].id = r.id,
         opaque \in Services \cup {"none"}, Return(kind, r.id, opaque), failed' = failed,
         raced' \in BOOLEAN, raced => raced'
  PROVE  SocketInv'
<1>1. TypeInv /\ FreshInv /\ i \in SlotIx /\ r.id \in 0 .. MaxId /\ kind \in Kinds
  BY HeadCommand DEF SocketInv, Handled, Kinds
<1>2. Told(r.id, kind, opaque) /\ pc' = "clear"
  BY <1>1, ReturnTold
<1>3. result'.id = r.id
  BY <1>2 DEF Told
<1>4. ~raced' => Fits(r, i, t)
  BY <1>2, <1>3 DEF Fits, Unused
<1>5. AssertsPinned'
  BY NoFailure
<1> QED
  BY <1>1, <1>2, <1>4, <1>5, CommandInv

\* A command that keeps the socket of its id.
LEMMA KeepingCommand ==
  ASSUME SocketInv, failed = "no", pc = "top", NEW r, NEW i, NEW t, NEW opaque,
         NEW kind \in {"none", "WARNING", "OPEN"}, Handled(r, i, t), ~Opens(r), Sized(t),
         slot[i].id = r.id, t.id = r.id,
         opaque \in Services \cup {"none"}, Return(kind, r.id, opaque), failed' = failed,
         raced' \in BOOLEAN, raced => raced',
         ~raced' => /\ Buffers(t) /\ (t.type = "CONNECTING" => t.out)
                    /\ t.type # "RESERVE" /\ slot[i].type # "RESERVE" /\ slot[i].type # "INVALID"
                    /\ slot[i].type \in PolledTypes => t.type \in PolledTypes
                    /\ t.type \in {"PLISTEN", "PACCEPT", "CONNECTING"} =>
                          kind # "OPEN" /\ slot[i].type \in {"PLISTEN", "PACCEPT", "CONNECTING"}
                    /\ t.type = "CONNECTED" => IF kind = "OPEN" THEN t.opaque = opaque
                                               ELSE slot[i].type = "CONNECTED" /\ t.opaque = slot[i].opaque
  PROVE  SocketInv'
<1>1. /\ TypeInv /\ FreshInv /\ i \in SlotIx /\ r.id \in 0 .. MaxId /\ r.id \in Ids /\ r.id \in known
      /\ kind \in Kinds /\ i = Hash(r.id)
  BY HeadCommand DEF SocketInv, Handled, Kinds
<1>2. Told(r.id, kind, opaque) /\ pc' \in {"top", "take", "failing", "clear"}
  BY <1>1, ReturnTold
<1>3. heard'[r.id] = IF kind = "OPEN" THEN opaque ELSE heard[r.id]
  BY <1>1, <1>2 DEF Told
<1>4. ASSUME ~raced' PROVE Fits(r, i, t)
  <2>1. HeardInv
    BY <1>4 DEF SocketInv, CalmInv
  <2>2. t.type \in {"PLISTEN", "PACCEPT", "CONNECTING"} => heard'[t.id] # "gone"
    BY <1>1, <1>3, <1>4, <2>1 DEF HeardInv
  <2>3. t.type = "CONNECTED" => heard'[t.id] = t.opaque
    BY <1>1, <1>3, <1>4, <2>1 DEF HeardInv
  <2> QED
    BY <1>1, <1>4, <2>2, <2>3 DEF Fits
<1>5. AssertsPinned'
  BY NoFailure
<1> QED
  BY <1>1, <1>2, <1>4, <1>5, CommandInv

\* The socket thread starts a socket, or gives it to another service.
LEMMA StartStep ==
  ASSUME SocketInv, failed = "no", start_socket
  PROVE  SocketInv'
<1> DEFINE r == Head(pipe)
           i == Hash(r.id)
           s == slot[i]
<1>1. /\ pc = "top" /\ pipe # <<>> /\ pipe' = Tail(pipe) /\ r.op = "S" /\ raced' = raced
      /\ UNCHANGED <<alloc_id, rsv, checkctrl, ev, known>> /\ failed' = failed
  BY DEF start_socket, Command
<1>2. /\ TypeInv /\ r.id \in Ids /\ r.id \in known /\ r.id \in 0 .. MaxId /\ r.opaque \in Services
      /\ i \in SlotIx /\ raced \in BOOLEAN /\ r.opaque \in Services \cup {"none"}
      /\ s \in SlotRecord /\ Sized(s) /\ slot \in [SlotIx -> SlotRecord]
  BY <1>1, HeadCommand DEF SocketInv, TypeInv
<1>3. ~Opens(r) /\ s.opaque \in Services \cup {"none"} /\ s.type \in Types /\ s.wb_size \in Nat
  BY <1>1, <1>2, SlotFields DEF Opens
<1>4. ~raced => Buffers(s)
  BY <1>2 DEF SocketInv, CalmInv, BufInv
<1>5. CASE Stale(s, r.id) /\ slot' = slot /\ Return("ERR", r.id, r.opaque)
  <2>1. "ERR" \in Kinds \ {"OPEN"}
    BY DEF Kinds
  <2> QED
    BY <1>1, <1>2, <1>3, <1>5, <2>1, UntouchedCommand
<1>6. CASE /\ ~Stale(s, r.id) /\ s.type \in {"PACCEPT", "PLISTEN"}
           /\ slot' = [slot EXCEPT ![i] = Closed(s)] /\ Return("ERR", r.id, s.opaque)
  <2>1. Sized(Closed(s)) /\ Buffers(Closed(s)) /\ Closed(s).type = "INVALID" /\ Closed(s).id = s.id
    BY <1>2, ClosedSlot
  <2>2. s.id = r.id /\ s.type # "RESERVE"
    BY <1>6 DEF Stale
  <2>3. Handled(r, i, Closed(s))
    BY <1>1, <1>6 DEF Handled
  <2> HIDE DEF r, i, s
  <2> QED
    BY <1>1, <1>2, <1>3, <1>6, <2>1, <2>2, <2>3, ClosingCommand DEF s
<1>7. CASE /\ ~Stale(s, r.id) /\ s.type \in {"PACCEPT", "PLISTEN", "CONNECTED"}
           /\ \E type \in {"CONNECTED", "LISTEN"} :
                 /\ slot' = [slot EXCEPT ![i] = [s EXCEPT !.type = type, !.opaque = r.opaque]]
                 /\ s.type = "CONNECTED" => type = "CONNECTED"
           /\ Return("OPEN", r.id, r.opaque)
  <2>1. PICK type \in {"CONNECTED", "LISTEN"} :
           /\ slot' = [slot EXCEPT ![i] = [s EXCEPT !.type = type, !.opaque = r.opaque]]
           /\ s.type = "CONNECTED" => type = "CONNECTED"
    BY <1>7
  <2> DEFINE t == [s EXCEPT !.type = type, !.opaque = r.opaque]
  <2>2. Handled(r, i, t)
    BY <1>1, <2>1 DEF Handled
  <2>3. /\ t \in SlotRecord /\ t.type = type /\ t.id = s.id /\ t.opaque = r.opaque
        /\ t.high = s.high /\ t.low = s.low /\ t.wb_size = s.wb_size /\ t.out = s.out
    <3>1. type \in Types
      BY <2>1 DEF Types
    <3> HIDE DEF r, i, s
    <3> QED
      BY <1>2, <3>1 DEF SlotRecord
  <2> HIDE DEF t
  <2>4. Sized(t)
    BY <1>2, <2>3 DEF Sized
  <2>5. s.id = r.id /\ s.type # "RESERVE" /\ s.type # "INVALID"
    BY <1>7 DEF Stale
  <2>6. ASSUME ~raced' PROVE Buffers(t)
    <3>1. Buffers(s) /\ send_buffer_empty(t) <=> send_buffer_empty(s)
      BY <1>1, <1>4, <2>3, <2>6 DEF send_buffer_empty
    <3> HIDE DEF s
    <3> QED
      BY <1>1, <1>4, <1>7, <2>1, <2>3, <2>6, <3>1 DEF Buffers, Buffered, Unused, send_buffer_empty
  <2>7. s.type \in PolledTypes => t.type \in PolledTypes
    BY <2>1, <2>3 DEF PolledTypes
  <2>8. t.type \notin {"PLISTEN", "PACCEPT", "CONNECTING", "RESERVE"}
    BY <2>1, <2>3
  <2> HIDE DEF r, i, s
  <2> QED
    BY <1>1, <1>2, <1>3, <1>7, <2>2, <2>3, <2>4, <2>5, <2>6, <2>7, <2>8, KeepingCommand DEF s
<1>8. CASE ~Stale(s, r.id) /\ slot' = slot /\ Return("none", r.id, r.opaque)
  <2>1. "none" \in Kinds \ {"OPEN"}
    BY DEF Kinds
  <2> QED
    BY <1>1, <1>2, <1>3, <1>8, <2>1, UntouchedCommand
<1> QED
  <2>1. CASE /\ ~Stale(s, r.id) /\ s.type \in {"PACCEPT", "PLISTEN"}
             /\ slot' = [slot EXCEPT ![i].type = IF s.type = "PACCEPT" THEN "CONNECTED" ELSE "LISTEN",
                                     ![i].opaque = r.opaque]
             /\ Return("OPEN", r.id, r.opaque)
    <3> DEFINE type == IF s.type = "PACCEPT" THEN "CONNECTED" ELSE "LISTEN"
    <3>1. slot' = [slot EXCEPT ![i] = [s EXCEPT !.type = type, !.opaque = r.opaque]]
      BY <1>2, <2>1
    <3>2. type \in {"CONNECTED", "LISTEN"} /\ s.type # "CONNECTED"
      BY <2>1
    <3> HIDE DEF type
    <3> QED
      BY <1>7, <2>1, <3>1, <3>2
  <2>2. CASE /\ ~Stale(s, r.id) /\ s.type = "CONNECTED"
             /\ slot' = [slot EXCEPT ![i] = Transfer(s, r.opaque)]
             /\ Return("OPEN", r.id, r.opaque)
    <3>1. Transfer(s, r.opaque) = [s EXCEPT !.type = "CONNECTED", !.opaque = r.opaque]
      BY <1>2, <2>2 DEF Transfer, SlotRecord
    <3> QED
      BY <1>7, <2>2, <3>1
  <2> QED
    BY <1>5, <1>6, <1>8, <2>1, <2>2 DEF start_socket

\* send_buffer, as its callers see it.
LEMMA SendBuffer ==
  ASSUME NEW s, Sized(s), NEW o \in send_buffer(s)
  PROVE  SentOK(s, o) /\ (Buffers(s) => SentCalm(s, o))
<1>1. PICK w \in Writes(s) : o = SendOutcome(s, w.k, w.err)
  BY DEF send_buffer
<1>2. w.k \in 0 .. Len(s.high) + Len(s.low) /\ w.err \in BOOLEAN
  BY DEF Writes
<1> QED
  BY <1>1, <1>2, Sent

\* The socket thread closes a socket.
LEMMA CloseStep ==
  ASSUME SocketInv, failed = "no", close_socket
  PROVE  SocketInv'
<1> DEFINE r == Head(pipe)
           i == Hash(r.id)
           s == slot[i]
<1>1. /\ pc = "top" /\ pipe # <<>> /\ pipe' = Tail(pipe) /\ r.op = "K"
      /\ raced' = (raced \/ (s.id = r.id /\ s.type = "RESERVE"))
      /\ UNCHANGED <<alloc_id, rsv, checkctrl, ev, known>>
  BY Zenon DEF close_socket, Command
<1>2. /\ TypeInv /\ r.id \in Ids /\ r.id \in known /\ r.id \in 0 .. MaxId /\ r.opaque \in Services
      /\ i \in SlotIx /\ raced \in BOOLEAN /\ r.opaque \in Services \cup {"none"}
      /\ s \in SlotRecord /\ Sized(s) /\ slot \in [SlotIx -> SlotRecord]
  BY <1>1, HeadCommand DEF SocketInv, TypeInv
<1>3. ~Opens(r) /\ s.opaque \in Services \cup {"none"} /\ s.type \in Types
  BY <1>1, <1>2, SlotFields DEF Opens
<1>4. raced' \in BOOLEAN /\ (raced => raced')
  BY <1>1, <1>2
<1>5. ~raced' => Buffers(s)
  BY <1>2, <1>4 DEF SocketInv, CalmInv, BufInv
<1>6. CASE Stale(s, r.id) /\ Return("CLOSE", r.id, r.opaque) /\ UNCHANGED <<slot, failed, wire>>
  <2>1. "CLOSE" \in Kinds \ {"OPEN"}
    BY DEF Kinds
  <2> QED
    BY <1>1, <1>2, <1>3, <1>4, <1>6, <2>1, UntouchedCommand
<1>7. CASE ~Stale(s, r.id)
  <2>1. s.id = r.id /\ s.type # "INVALID" /\ (~raced' => s.type # "RESERVE" /\ s.type \notin Unused)
    BY <1>1, <1>7 DEF Stale, Unused
  <2> DEFINE done(o, t, type, opaque) ==
        /\ slot' = [slot EXCEPT ![i] = t]
        /\ Return(type, r.id, opaque)
        /\ failed' = failed
  <2>2. PICK o \in IF send_buffer_empty(s) THEN {Outcome(s, "none", "no", <<>>)} ELSE send_buffer(s) :
           LET closing == r.shutdown \/ send_buffer_empty(o.s)
           IN  \/ o.fail # "no" /\ Fail(o.fail)
               \/ o.fail = "no" /\ o.type = "CLOSE" /\ done(o, o.s, "CLOSE", s.opaque)
               \/ /\ o.fail = "no" /\ o.type # "CLOSE" /\ closing
                  /\ \/ s.type = "RESERVE" /\ Fail("reserve")
                     \/ s.type # "RESERVE" /\ done(o, Closed(o.s), "CLOSE", r.opaque)
               \/ /\ o.fail = "no" /\ o.type # "CLOSE" /\ ~closing
                  /\ done(o, [o.s EXCEPT !.type = "HALFCLOSE"], "none", r.opaque)
    <3> HIDE DEF r, i, s
    <3> QED
      BY <1>7, Zenon DEF close_socket, r, i, s
  <2>3. /\ SentOK(s, o) /\ (Buffers(s) => SentCalm(s, o))
        /\ send_buffer_empty(s) => o.s = s /\ o.type = "none"
    <3>1. CASE send_buffer_empty(s)
      <4>1. o = Outcome(s, "none", "no", <<>>)
        BY <2>2, <3>1
      <4> HIDE DEF s
      <4>2. o.s = s /\ o.type = "none" /\ o.fail = "no"
        BY <4>1, OutcomeFields
      <4> QED
        BY <1>2, <4>2 DEF SentOK, SentCalm
    <3>2. CASE ~send_buffer_empty(s)
      <4>1. o \in send_buffer(s)
        BY <2>2, <3>2
      <4> HIDE DEF s
      <4> QED
        BY <1>2, <3>2, <4>1, SendBuffer
    <3> QED
      BY <3>1, <3>2
  <2>4. /\ Sized(o.s) /\ o.s \in SlotRecord /\ o.s.id = s.id /\ o.s.opaque = s.opaque
        /\ o.type = "CLOSE" => o.s.type = "INVALID"
        /\ o.type # "CLOSE" => o.s.type = s.type
    BY <2>3 DEF SentOK, Sized
  <2>5. ASSUME ~raced', ~send_buffer_empty(s) PROVE s.type \in Buffered /\ (o.fail = "no" => Buffers(o.s))
    BY <1>5, <2>3, <2>5 DEF SentCalm, Buffers
  <2>6. CASE o.fail # "no" /\ Fail(o.fail)
    <3>1. failed' = o.fail /\ failed' # "no" /\ slot' = slot
      BY <2>6 DEF Fail
    <3>2. ~raced' => o.fail = "not_empty" /\ s.low # <<>> /\ ~list_uncomplete(s.low)
      BY <1>5, <2>1, <2>3, <2>6 DEF SentCalm
    <3>3. AssertsPinned'
      BY <1>2, <3>1, <3>2 DEF AssertsPinned
    <3> QED
      BY <1>1, <1>2, <1>4, <2>6, <3>1, <3>3, FailedCommand
  <2>7. CASE o.fail = "no" /\ o.type = "CLOSE" /\ done(o, o.s, "CLOSE", s.opaque)
    <3>1. ~send_buffer_empty(s)
      BY <2>3, <2>7
    <3>2. ~raced' => Buffers(o.s)
      BY <2>5, <2>7, <3>1
    <3>3. Handled(r, i, o.s)
      BY <1>1, <2>7 DEF Handled
    <3>4. failed' = failed /\ Return("CLOSE", r.id, s.opaque)
      BY <2>7
    <3> HIDE DEF r, i, s
    <3> QED
      BY <1>1, <1>2, <1>3, <1>4, <2>1, <2>4, <2>7, <3>2, <3>3, <3>4, ClosingCommand DEF s
  <2>8. CASE s.type = "RESERVE" /\ Fail("reserve")
    <3>1. failed' # "no" /\ raced'
      BY <1>1, <2>1, <2>8 DEF Fail
    <3>2. AssertsPinned'
      BY <3>1 DEF AssertsPinned
    <3> QED
      BY <1>1, <1>2, <1>4, <2>8, <3>1, <3>2, FailedCommand
  <2>9. CASE s.type # "RESERVE" /\ done(o, Closed(o.s), "CLOSE", r.opaque)
    <3>1. Sized(Closed(o.s)) /\ Buffers(Closed(o.s)) /\ Closed(o.s).type = "INVALID"
          /\ Closed(o.s).id = s.id
      BY <2>4, ClosedSlot
    <3>2. Handled(r, i, Closed(o.s))
      BY <1>1, <2>9 DEF Handled
    <3>3. failed' = failed /\ Return("CLOSE", r.id, r.opaque) /\ s.type # "RESERVE"
      BY <2>9
    <3> HIDE DEF r, i, s
    <3> QED
      BY <1>1, <1>2, <1>3, <1>4, <2>1, <3>1, <3>2, <3>3, ClosingCommand DEF s
  <2>10. CASE /\ o.fail = "no" /\ o.type # "CLOSE" /\ ~send_buffer_empty(o.s)
              /\ done(o, [o.s EXCEPT !.type = "HALFCLOSE"], "none", r.opaque)
    <3> DEFINE u == o.s
               t == [u EXCEPT !.type = "HALFCLOSE"]
    <3>1. Handled(r, i, t)
      BY <1>1, <2>10 DEF Handled
    <3>2. u \in SlotRecord /\ Sized(u) /\ u.id = s.id /\ u.type = s.type /\ ~send_buffer_empty(u)
      BY <2>4, <2>10
    <3> HIDE DEF u
    <3>3. /\ t \in SlotRecord /\ t.type = "HALFCLOSE" /\ t.id = u.id /\ t.high = u.high /\ t.low = u.low
          /\ t.wb_size = u.wb_size /\ t.out = u.out
      <4>1. "HALFCLOSE" \in Types
        BY DEF Types
      <4> QED
        BY <3>2, <4>1 DEF SlotRecord
    <3> HIDE DEF t
    <3>4. Sized(t)
      BY <3>2, <3>3 DEF Sized
    <3>5. ~send_buffer_empty(t)
      BY <3>2, <3>3 DEF send_buffer_empty
    <3>6. ASSUME ~raced' PROVE Buffers(t)
      <4>1. ~send_buffer_empty(s)
        BY <2>3, <3>2 DEF u
      <4>2. s.type \in Buffered /\ Buffers(u)
        BY <2>5, <2>10, <3>6, <4>1 DEF u
      <4>3. u.out /\ u.wb_size = Len(u.high) + Len(u.low) /\ ~list_uncomplete(u.low) /\ Framed(u.low)
        BY <3>2, <4>2 DEF Buffers, Buffered, Unused
      <4> QED
        BY <3>3, <3>5, <4>3 DEF Buffers, Buffered, Unused
    <3>7. "HALFCLOSE" \in PolledTypes
      BY DEF PolledTypes
    <3>8. failed' = failed /\ Return("none", r.id, r.opaque)
      BY <2>10
    <3> HIDE DEF r, i, s
    <3> QED
      BY <1>1, <1>2, <1>3, <1>4, <2>1, <3>1, <3>2, <3>3, <3>4, <3>6, <3>7, <3>8, KeepingCommand DEF s
  <2> QED
    BY <2>2, <2>6, <2>7, <2>8, <2>9, <2>10, Zenon
<1> QED
  BY <1>6, <1>7, Zenon DEF close_socket

\* The warning that the buffered size has passed the threshold.
LEMMA WarnStep ==
  ASSUME SocketInv, failed = "no", pc = "top", NEW r, NEW i, NEW u, Warn(u, i),
         pipe # <<>>, r = Head(pipe), i = Hash(r.id), pipe' = Tail(pipe), ~Opens(r),
         UNCHANGED <<alloc_id, rsv, checkctrl, ev, known, failed>>,
         raced' \in BOOLEAN, raced => raced',
         Sized(u), slot[i].id = r.id, u.id = r.id, u.opaque = slot[i].opaque,
         ~raced' => /\ Buffers(u) /\ (u.type = "CONNECTING" => u.out)
                    /\ u.type = slot[i].type /\ u.type \notin Unused
  PROVE  SocketInv'
<1>1. /\ TypeInv /\ r.id \in 0 .. MaxId /\ i \in SlotIx /\ slot[i] \in SlotRecord
      /\ slot[i].opaque \in Services \cup {"none"}
  BY HeadCommand, SlotFields DEF SocketInv
<1>2. u \in SlotRecord /\ u.warn_size \in Nat /\ WARNING_SIZE \in Nat
  BY SlotFields, SocketAssumption DEF Sized
<1> DEFINE over == u.wb_size >= WARNING_SIZE /\ u.wb_size >= u.warn_size
           kind == IF over THEN "WARNING" ELSE "none"
           t == IF over THEN [u EXCEPT !.warn_size = IF @ = 0 THEN WARNING_SIZE * 2 ELSE @ * 2] ELSE u
<1>3. slot' = [slot EXCEPT ![i] = t] /\ Return(kind, u.id, u.opaque)
  BY DEF Warn
<1>4. /\ t \in SlotRecord /\ t.type = u.type /\ t.id = u.id /\ t.opaque = u.opaque
      /\ t.high = u.high /\ t.low = u.low /\ t.wb_size = u.wb_size /\ t.out = u.out
  <2>1. CASE over
    <3> DEFINE v == IF u.warn_size = 0 THEN WARNING_SIZE * 2 ELSE u.warn_size * 2
    <3>1. t = [u EXCEPT !.warn_size = v]
      BY <2>1
    <3>2. v \in Nat
      BY <1>2
    <3> HIDE DEF t, v
    <3> QED
      BY <1>2, <3>1, <3>2 DEF SlotRecord
  <2>2. CASE ~over
    BY <1>2, <2>2
  <2> QED
    BY <2>1, <2>2
<1>5. kind \in {"none", "WARNING", "OPEN"} /\ kind # "OPEN"
  OBVIOUS
<1> HIDE DEF t, kind, over
<1>6. Sized(t)
  BY <1>4 DEF Sized
<1>7. Handled(r, i, t)
  BY <1>3 DEF Handled
<1>8. ASSUME ~raced' PROVE Buffers(t) /\ (t.type = "CONNECTING" => t.out)
  BY <1>4, <1>8 DEF Buffers, send_buffer_empty
<1>9. ASSUME ~raced' PROVE /\ t.type # "RESERVE" /\ slot[i].type # "RESERVE" /\ slot[i].type # "INVALID"
                           /\ t.type = slot[i].type
  BY <1>4, <1>9 DEF Unused
<1> QED
  BY <1>1, <1>3, <1>4, <1>5, <1>6, <1>7, <1>8, <1>9, KeepingCommand

\* The socket thread sends a packet, or keeps it for later.
LEMMA SendStep ==
  ASSUME SocketInv, failed = "no", send_socket
  PROVE  SocketInv'
<1> DEFINE r == Head(pipe)
           i == Hash(r.id)
           s == slot[i]
<1>1. /\ pc = "top" /\ pipe # <<>> /\ pipe' = Tail(pipe) /\ r.op \in {"D", "P"}
      /\ raced' = (raced \/ (s.id = r.id /\ s.type = "RESERVE"))
      /\ UNCHANGED <<alloc_id, rsv, checkctrl, ev, known>> /\ failed' = failed
  BY Zenon DEF send_socket, Command
<1>2. /\ TypeInv /\ r.id \in Ids /\ r.id \in known /\ r.id \in 0 .. MaxId /\ r.opaque \in Services
      /\ i \in SlotIx /\ raced \in BOOLEAN /\ r.opaque \in Services \cup {"none"}
      /\ s \in SlotRecord /\ Sized(s) /\ slot \in [SlotIx -> SlotRecord] /\ r.p \in Packets
  BY <1>1, HeadCommand DEF SocketInv, TypeInv
<1>3. ~Opens(r) /\ s.opaque \in Services \cup {"none"} /\ s.type \in Types
  BY <1>1, <1>2, SlotFields DEF Opens
<1>4. raced' \in BOOLEAN /\ (raced => raced')
  BY <1>1, <1>2
<1>5. ~raced' => Buffers(s) /\ (s.type = "CONNECTING" => s.out)
  BY <1>2, <1>4 DEF SocketInv, CalmInv, BufInv, ConnectInv
<1>6. CASE Return("none", r.id, r.opaque) /\ slot' = slot
  <2>1. "none" \in Kinds \ {"OPEN"}
    BY DEF Kinds
  <2> QED
    BY <1>1, <1>2, <1>3, <1>4, <1>6, <2>1, UntouchedCommand
<1>7. CASE /\ ~Stale(s, r.id) /\ s.type = "CONNECTED"
           /\ slot' = [slot EXCEPT ![i] = Closed(s)] /\ Return("CLOSE", r.id, s.opaque)
  <2>1. Sized(Closed(s)) /\ Buffers(Closed(s)) /\ Closed(s).type = "INVALID" /\ Closed(s).id = s.id
    BY <1>2, ClosedSlot
  <2>2. s.id = r.id /\ s.type # "RESERVE"
    BY <1>7 DEF Stale
  <2>3. Handled(r, i, Closed(s))
    BY <1>1, <1>7 DEF Handled
  <2> HIDE DEF r, i, s
  <2> QED
    BY <1>1, <1>2, <1>3, <1>4, <1>7, <2>1, <2>2, <2>3, ClosingCommand DEF s
<1>8. ASSUME NEW n \in 0 .. Size[r.p], n < Size[r.p], ~Stale(s, r.id), s.type = "CONNECTED",
             Warn([append_sendbuffer(s, r.p, n) EXCEPT !.out = TRUE], i)
      PROVE  SocketInv'
  <2> DEFINE a == append_sendbuffer(s, r.p, n)
             u == [a EXCEPT !.out = TRUE]
  <2>1. /\ Sized(a) /\ a.type = s.type /\ a.id = s.id /\ a.opaque = s.opaque /\ a.out = s.out
        /\ a.low = s.low /\ Len(a.high) = Len(s.high) + (Size[r.p] - n)
        /\ a.wb_size = s.wb_size + (Size[r.p] - n) /\ Size[r.p] - n \in Nat
    BY <1>2, AppendSlot
  <2> HIDE DEF a
  <2>2. /\ u \in SlotRecord /\ u.type = a.type /\ u.id = a.id /\ u.opaque = a.opaque /\ u.out
        /\ u.low = a.low /\ u.high = a.high /\ u.wb_size = a.wb_size
    BY <2>1 DEF Sized, SlotRecord
  <2>3. Warn(u, i)
    BY <1>8 DEF a
  <2> HIDE DEF u
  <2>4. Sized(u)
    BY <2>1, <2>2 DEF Sized
  <2>5. s.id = r.id
    BY <1>8 DEF Stale
  <2>6. ASSUME ~raced' PROVE Buffers(u)
    <3>1. u.wb_size = Len(u.high) + Len(u.low)
      <4> DEFINE x == Len(s.high)
                 y == Len(s.low)
                 k == Size[r.p] - n
      <4>1. x \in Nat /\ y \in Nat /\ k \in Nat /\ s.wb_size = x + y
        BY <1>2, <1>5, <1>8, <2>1, <2>6, SizedEmpty DEF Buffers, Unused
      <4>2. u.wb_size = (x + y) + k /\ Len(u.high) = x + k /\ Len(u.low) = y
        BY <2>1, <2>2, <4>1
      <4> HIDE DEF x, y, k
      <4>3. (x + y) + k = (x + k) + y
        BY <4>1
      <4> QED
        BY <4>2, <4>3
    <3>2. Framed(u.low) /\ ~list_uncomplete(u.low)
      BY <1>5, <2>1, <2>2, <2>6 DEF Buffers
    <3> QED
      BY <1>8, <2>1, <2>2, <3>1, <3>2 DEF Buffers, Buffered, Unused
  <2>7. u.type = s.type /\ u.type \notin Unused /\ u.type # "CONNECTING" /\ u.id = r.id
        /\ u.opaque = s.opaque
    BY <1>8, <2>1, <2>2, <2>5 DEF Unused
  <2> QED
    BY <1>1, <1>2, <1>3, <1>4, <2>3, <2>4, <2>5, <2>6, <2>7, WarnStep
<1>9. ASSUME ~Stale(s, r.id),
             s.type \in {"CONNECTING", "RESERVE"} \/ (s.type = "CONNECTED" /\ ~send_buffer_empty(s)),
             NEW u, u = append_sendbuffer_low(s, r.p) \/ u = append_sendbuffer(s, r.p, 0), Warn(u, i)
      PROVE  SocketInv'
  <2> DEFINE x == Len(s.high)
             y == Len(s.low)
             k == Size[r.p]
  <2>0. k \in Nat \ {0} /\ x \in Nat /\ y \in Nat
    BY <1>2, SizedEmpty, SocketAssumption DEF Packets
  <2>1. /\ Sized(u) /\ u.type = s.type /\ u.id = s.id /\ u.opaque = s.opaque /\ u.out = s.out
        /\ u.wb_size = s.wb_size + k /\ (s.wb_size = x + y => u.wb_size = Len(u.high) + Len(u.low))
        /\ ~raced' => Framed(u.low) /\ ~list_uncomplete(u.low)
    <3>1. CASE u = append_sendbuffer_low(s, r.p)
      <4>1. /\ Sized(u) /\ u.type = s.type /\ u.id = s.id /\ u.opaque = s.opaque /\ u.out = s.out
            /\ u.high = s.high /\ u.low = s.low \o Rest(r.p, 0) /\ Len(u.low) = y + k
            /\ u.wb_size = s.wb_size + k
        BY <1>2, <3>1, AppendLowSlot
      <4>2. s.wb_size = x + y => u.wb_size = Len(u.high) + Len(u.low)
        <5>1. Len(u.high) = x /\ Len(u.low) = y + k
          BY <4>1
        <5> HIDE DEF x, y, k
        <5>2. (x + y) + k = x + (y + k)
          BY <2>0
        <5> QED
          BY <4>1, <5>1, <5>2
      <4>3. ~raced' => Framed(u.low) /\ ~list_uncomplete(u.low)
        <5>1. s.low \in Seq(Units)
          BY <1>2, SlotFields
        <5> QED
          BY <1>2, <1>5, <4>1, <5>1, AppendFramed DEF Buffers
      <4> QED
        BY <4>1, <4>2, <4>3
    <3>2. CASE u = append_sendbuffer(s, r.p, 0)
      <4>0. 0 \in 0 .. Size[r.p]
        BY <2>0
      <4>1. /\ Sized(u) /\ u.type = s.type /\ u.id = s.id /\ u.opaque = s.opaque /\ u.out = s.out
            /\ u.low = s.low /\ Len(u.high) = x + (k - 0) /\ u.wb_size = s.wb_size + (k - 0)
        BY <1>2, <3>2, <4>0, AppendSlot
      <4>2. k - 0 = k
        BY <2>0
      <4>3. s.wb_size = x + y => u.wb_size = Len(u.high) + Len(u.low)
        <5>1. Len(u.high) = x + k /\ Len(u.low) = y
          BY <4>1, <4>2
        <5> HIDE DEF x, y, k
        <5>2. (x + y) + k = (x + k) + y
          BY <2>0
        <5> QED
          BY <4>1, <4>2, <5>1, <5>2
      <4>4. ~raced' => Framed(u.low) /\ ~list_uncomplete(u.low)
        BY <1>5, <4>1 DEF Buffers
      <4> QED
        BY <4>1, <4>2, <4>3, <4>4
    <3> QED
      BY <1>9, <3>1, <3>2
  <2> HIDE DEF x, y, k
  <2>2. s.id = r.id
    BY <1>9 DEF Stale
  <2>3. ~raced' => s.type # "RESERVE" /\ s.type \notin Unused
    BY <1>1, <1>9, <2>2 DEF Stale, Unused
  <2>4. ASSUME ~raced' PROVE Buffers(u) /\ (u.type = "CONNECTING" => u.out)
    <3>1. s.wb_size = x + y /\ u.out
      BY <1>5, <1>9, <2>1, <2>3, <2>4 DEF Buffers, Buffered, x, y
    <3>2. u.type \in Buffered /\ u.type # "HALFCLOSE"
      BY <1>9, <2>1, <2>3, <2>4 DEF Buffered
    <3> QED
      BY <2>1, <2>4, <3>1, <3>2 DEF Buffers
  <2> QED
    BY <1>1, <1>2, <1>3, <1>4, <1>9, <2>1, <2>2, <2>3, <2>4, WarnStep
<1> QED
  <2>1. CASE /\ ~Stale(s, r.id)
             /\ s.type = "CONNECTED" /\ send_buffer_empty(s)
             /\ \E n \in 0 .. Size[r.p] :
                   \/ Return("none", r.id, r.opaque) /\ slot' = slot
                   \/ n < Size[r.p] /\ Warn([append_sendbuffer(s, r.p, n) EXCEPT !.out = TRUE], i)
    <3> HIDE DEF r, i, s
    <3> QED
      BY <1>6, <1>8, <2>1
  <2>2. CASE /\ ~Stale(s, r.id)
             /\ s.type \in {"CONNECTING", "RESERVE"} \/ (s.type = "CONNECTED" /\ ~send_buffer_empty(s))
             /\ Warn(IF r.op = "P" THEN append_sendbuffer_low(s, r.p)
                     ELSE append_sendbuffer(s, r.p, 0), i)
    <3> HIDE DEF r, i, s
    <3> QED
      BY <1>9, <2>2
  <2> QED
    BY <1>6, <1>7, <2>1, <2>2, Zenon DEF send_socket

-----------------------------------------------------------------------------
(* The events that a command has voided, and the wait.                     *)

LEMMA QuietResult ==
  Quiet \in Results
<1>1. MaxId \in Nat
  BY SocketAssumption
<1> QED
  BY <1>1 DEF Quiet, Results

\* The fields of an event.
LEMMA EventFields ==
  ASSUME TypeInv, NEW n \in DOMAIN ev
  PROVE  /\ ev[n] \in Events /\ ev[n].s \in SlotIx \cup {NULL} /\ ev[n].id \in Ids
         /\ ev[n].s # NULL => ev[n].s \in SlotIx
<1>1. ev[n] \in Events
  BY DEF TypeInv
<1> DEFINE e == ev[n]
<1> HIDE DEF e
<1>2. e \in Events
  BY <1>1 DEF e
<1>3. e.s \in SlotIx \cup {NULL} /\ e.id \in Ids
  BY <1>2 DEF Events
<1> QED
  BY <1>2, <1>3 DEF e

\* The queue's events are sequences again when each is replaced by one.
LEMMA Mapped ==
  ASSUME NEW S, NEW q \in Seq(S), NEW f, f = [n \in DOMAIN q |-> f[n]], \A n \in DOMAIN q : f[n] \in S
  PROVE  f \in Seq(S) /\ DOMAIN f = DOMAIN q
<1>1. Len(q) \in Nat /\ DOMAIN q = 1 .. Len(q)
  OBVIOUS
<1>2. f \in [1 .. Len(q) -> S]
  BY <1>1
<1> QED
  BY <1>1, <1>2

LEMMA ClearStep ==
  ASSUME SocketInv, failed = "no", clear_closed_event
  PROVE  SocketInv'
<1> DEFINE id == result.id
           i == Hash(id)
<1>1. /\ pc = "clear" /\ pc' = "top" /\ result' = Quiet
      /\ ev' = [n \in DOMAIN ev |-> IF Voided(i, id, ev[n]) THEN [ev[n] EXCEPT !.s = NULL] ELSE ev[n]]
      /\ raced' = (raced \/ (slot[i].type = "RESERVE" /\ \E n \in DOMAIN ev : ev[n].s = i))
      /\ UNCHANGED <<slot, alloc_id, rsv, pipe, checkctrl, failed, known, heard>>
  BY DEF clear_closed_event
<1>2. TypeInv /\ FreshInv /\ DistinctInv /\ raced \in BOOLEAN
  BY DEF SocketInv, TypeInv
<1>3. \A n \in DOMAIN ev : /\ ev'[n] = IF Voided(i, id, ev[n]) THEN [ev[n] EXCEPT !.s = NULL] ELSE ev[n]
                           /\ ev'[n] \in Events
                           /\ ev'[n].s # NULL => ev'[n] = ev[n] /\ ~Voided(i, id, ev[n])
  <2> SUFFICES ASSUME NEW n \in DOMAIN ev
               PROVE  /\ ev'[n] = IF Voided(i, id, ev[n]) THEN [ev[n] EXCEPT !.s = NULL] ELSE ev[n]
                      /\ ev'[n] \in Events
                      /\ ev'[n].s # NULL => ev'[n] = ev[n] /\ ~Voided(i, id, ev[n])
    OBVIOUS
  <2> DEFINE e == ev[n]
  <2>1. e \in Events
    BY <1>2, EventFields
  <2>2. ev'[n] = IF Voided(i, id, e) THEN [e EXCEPT !.s = NULL] ELSE e
    BY <1>1
  <2> HIDE DEF e, i, id
  <2>3. [e EXCEPT !.s = NULL] \in Events /\ [e EXCEPT !.s = NULL].s = NULL
    BY <2>1 DEF Events
  <2> QED
    BY <2>1, <2>2, <2>3 DEF e
<1>4. ev' \in Seq(Events) /\ DOMAIN ev' = DOMAIN ev
  <2> DEFINE E == Events
  <2>1. ev \in Seq(E) /\ \A n \in DOMAIN ev : ev'[n] \in E
    BY <1>2, <1>3 DEF TypeInv
  <2>2. ev' = [n \in DOMAIN ev |-> ev'[n]]
    BY <1>1
  <2> HIDE DEF E
  <2>3. ev' \in Seq(E) /\ DOMAIN ev' = DOMAIN ev
    BY <2>1, <2>2, Mapped
  <2> QED
    BY <2>3 DEF E
<1>5. TypeInv'
  <2>1. raced' \in BOOLEAN
    BY <1>1, <1>2
  <2>2. result' \in Results
    BY <1>1, QuietResult
  <2> QED
    BY <1>1, <1>2, <1>4, <2>1, <2>2 DEF TypeInv
<1>6. FreshInv'
  BY <1>1, <1>2 DEF FreshInv
<1>7. DistinctInv'
  BY <1>2, <1>3, <1>4 DEF DistinctInv
<1>8. AssertsPinned'
  BY <1>1, NoFailure
<1>9. ASSUME ~raced' PROVE CalmInv'
  <2>1. CalmInv
    BY <1>1, <1>9 DEF SocketInv
  <2>2. BufInv' /\ ConnectInv' /\ IdInv' /\ HeardInv' /\ (failed' = "no" => ClaimInv')
    BY <1>1, <2>1 DEF CalmInv, BufInv, ConnectInv, IdInv, HeardInv, ClaimInv
  <2>3. EventInv'
    <3> SUFFICES ASSUME NEW n \in DOMAIN ev', ev'[n].s # NULL
                 PROVE  Hash(ev'[n].id) = ev'[n].s /\ EventOK(ev[n])'
      BY DEF EventInv
    <3> DEFINE e == ev[n]
    <3>1. n \in DOMAIN ev /\ ev'[n] = e /\ ~Voided(i, id, e) /\ e.s # NULL
      BY <1>3, <1>4
    <3>2. Hash(e.id) = e.s /\ EventOK(e)
      BY <2>1, <3>1 DEF CalmInv, EventInv
    <3>3. slot[e.s].type \in PolledTypes /\ slot[e.s].id = e.id
      <4>1. CASE slot[e.s].type \in PolledTypes /\ slot[e.s].id = e.id
        BY <4>1
      <4>2. CASE /\ pc = "clear" /\ id = e.id
                 /\ slot[e.s].type = "RESERVE" \/ (slot[e.s].type = "INVALID" /\ slot[e.s].id = e.id)
        <5>1. e.s = i
          BY <3>2, <4>2
        <5>2. slot[i].type # "RESERVE"
          BY <1>1, <1>9, <3>1, <5>1
        <5>3. slot[i].type = "INVALID" /\ slot[i].id = id
          BY <4>2, <5>1, <5>2
        <5> QED
          BY <3>1, <5>1, <5>3 DEF Voided
      <4> QED
        BY <3>2, <4>1, <4>2 DEF EventOK
    <3>4. slot' = slot
      BY <1>1
    <3> QED
      BY <3>1, <3>2, <3>3, <3>4 DEF EventOK
  <2> QED
    BY <2>2, <2>3 DEF CalmInv
<1> QED
  BY <1>5, <1>6, <1>7, <1>8, <1>9 DEF SocketInv

LEMMA WaitStep ==
  ASSUME SocketInv, failed = "no", sp_wait
  PROVE  SocketInv'
<1>0. PICK n \in 0 .. MAX_SOCKET : \E q \in [1 .. n -> PollEvents] : Wait(q)
  BY DEF sp_wait
<1>1. PICK q \in [1 .. n -> PollEvents] : Wait(q)
  BY <1>0
<1>2. /\ pc = "top" /\ ev' = q /\ checkctrl' = TRUE /\ pc' \in {"take", "top"} /\ Nothing
      /\ \A a, b \in DOMAIN q : q[a].s = q[b].s => a = b
      /\ UNCHANGED <<slot, alloc_id, rsv, pipe, failed, known, raced>>
  BY <1>1 DEF Wait
<1>3. TypeInv /\ FreshInv
  BY DEF SocketInv
<1>4. \A e \in PollEvents : /\ e \in Events /\ e.s \in SlotIx /\ slot[e.s].type \in PolledTypes
                            /\ slot[e.s].id = e.id
  <2> SUFFICES ASSUME NEW e \in PollEvents
               PROVE  /\ e \in Events /\ e.s \in SlotIx /\ slot[e.s].type \in PolledTypes
                      /\ slot[e.s].id = e.id
    OBVIOUS
  <2> DEFINE P == {i \in SlotIx : Polled(i)}
  <2>1. e \in [s : P, id : Ids, read : BOOLEAN, write : BOOLEAN] /\ e.id = slot[e.s].id
    BY DEF PollEvents
  <2>2. P \subseteq SlotIx
    OBVIOUS
  <2>3. e.s \in P
    <3> HIDE DEF P
    <3> QED
      BY <2>1
  <2>4. e \in Events
    <3> HIDE DEF P
    <3> QED
      BY <2>1, <2>2 DEF Events
  <2> QED
    BY <2>1, <2>3, <2>4 DEF Polled, PolledTypes
<1>5. n \in Nat /\ ev' \in Seq(Events) /\ DOMAIN ev' = 1 .. n
  <2>1. n \in Nat
    BY SocketAssumption
  <2>2. q \in [1 .. n -> Events]
    BY <1>4
  <2> QED
    BY <1>2, <2>1, <2>2
<1>6. result' \in Results /\ heard' = heard
  BY <1>2, QuietResult DEF Nothing
<1>7. TypeInv'
  BY <1>2, <1>3, <1>5, <1>6 DEF TypeInv
<1>8. FreshInv'
  BY <1>2, <1>3 DEF FreshInv
<1>9. DistinctInv'
  BY <1>2 DEF DistinctInv
<1>10. AssertsPinned'
  BY <1>2, NoFailure
<1>11. ASSUME ~raced' PROVE CalmInv'
  <2>1. CalmInv
    BY <1>2, <1>11 DEF SocketInv
  <2>2. BufInv' /\ ConnectInv' /\ IdInv' /\ HeardInv' /\ (failed' = "no" => ClaimInv')
    BY <1>2, <1>6, <2>1 DEF CalmInv, BufInv, ConnectInv, IdInv, HeardInv, ClaimInv
  <2>3. EventInv'
    <3> SUFFICES ASSUME NEW m \in DOMAIN ev'
                 PROVE  Hash(ev'[m].id) = ev'[m].s /\ EventOK(ev[m])'
      BY DEF EventInv
    <3>1. ev'[m] \in PollEvents
      BY <1>2, <1>5
    <3>2. /\ ev'[m].s \in SlotIx /\ slot[ev'[m].s].type \in PolledTypes
          /\ slot[ev'[m].s].id = ev'[m].id
      BY <1>4, <3>1
    <3>3. Hash(ev'[m].id) = ev'[m].s
      BY <2>1, <3>2 DEF CalmInv, IdInv, PolledTypes, Unused
    <3> QED
      BY <1>2, <3>2, <3>3 DEF EventOK
  <2> QED
    BY <2>2, <2>3 DEF CalmInv
<1> QED
  BY <1>7, <1>8, <1>9, <1>10, <1>11 DEF SocketInv

-----------------------------------------------------------------------------
(* Events.                                                                 *)

\* The events that are left are ones that were there before.
Left ==
    /\ ev' \in Seq(Events) /\ DistinctInv'
    /\ \A n \in DOMAIN ev' : \E m \in DOMAIN ev : ev'[n].s = ev[m].s /\ ev'[n].id = ev[m].id

LEMMA TailEvents ==
  ASSUME TypeInv, DistinctInv, ev # <<>>, ev' = Tail(ev)
  PROVE  Left /\ \A n \in DOMAIN ev' : ev'[n].s # NULL => ev'[n].s # Head(ev).s
<1>1. /\ ev' \in Seq(Events) /\ Head(ev) = ev[1] /\ 1 \in DOMAIN ev
      /\ \A n \in DOMAIN ev' : n + 1 \in DOMAIN ev /\ n \in Nat \ {0} /\ ev'[n] = ev[n + 1]
  BY TailSeq DEF TypeInv
<1>2. DistinctInv'
  <2> SUFFICES ASSUME NEW m \in DOMAIN ev', NEW n \in DOMAIN ev', ev'[m].s = ev'[n].s, ev'[m].s # NULL
               PROVE  m = n
    BY DEF DistinctInv
  <2>1. m + 1 = n + 1 /\ m \in Nat /\ n \in Nat
    BY <1>1 DEF DistinctInv
  <2> QED
    BY <2>1
<1>3. ASSUME NEW n \in DOMAIN ev', ev'[n].s # NULL PROVE ev'[n].s # Head(ev).s
  <2>1. n + 1 \in DOMAIN ev /\ n + 1 # 1 /\ ev'[n] = ev[n + 1]
    BY <1>1
  <2> QED
    BY <1>1, <1>3, <2>1 DEF DistinctInv
<1>4. \A n \in DOMAIN ev' : \E m \in DOMAIN ev : ev'[n].s = ev[m].s /\ ev'[n].id = ev[m].id
  BY <1>1
<1> QED
  BY <1>1, <1>2, <1>3, <1>4 DEF Left

LEMMA KeptEvents ==
  ASSUME TypeInv, DistinctInv, ev # <<>>,
         ev' = <<[Head(ev) EXCEPT !.read = FALSE]>> \o Tail(ev)
  PROVE  Left
<1> DEFINE h == [Head(ev) EXCEPT !.read = FALSE]
           r == Tail(ev)
<1>1. /\ r \in Seq(Events) /\ Head(ev) = ev[1] /\ 1 \in DOMAIN ev /\ Head(ev) \in Events
      /\ \A n \in DOMAIN r : n + 1 \in DOMAIN ev /\ n \in Nat \ {0} /\ r[n] = ev[n + 1]
  BY TailSeq DEF TypeInv
<1>2. h \in Events /\ h.s = ev[1].s /\ h.id = ev[1].id
  <2> DEFINE e == ev[1]
  <2>1. e \in Events /\ h = [e EXCEPT !.read = FALSE]
    BY <1>1
  <2> HIDE DEF e, h
  <2>2. h \in Events /\ h.s = e.s /\ h.id = e.id
    BY <2>1 DEF Events
  <2> QED
    BY <2>2 DEF e
<1>3. ev' = <<h>> \o r
  OBVIOUS
<1> HIDE DEF h, r
<1>4. <<h>> \in Seq(Events) /\ Len(<<h>>) = 1 /\ <<h>>[1] = h
  BY <1>2
<1>5. /\ ev' \in Seq(Events) /\ Len(ev') = 1 + Len(r) /\ Len(r) \in Nat
      /\ \A n \in 1 .. 1 + Len(r) : ev'[n] = IF n <= 1 THEN <<h>>[n] ELSE r[n - 1]
  <2> DEFINE E == Events
             b == <<h>>
  <2>1. b \in Seq(E) /\ r \in Seq(E) /\ Len(b) = 1
    BY <1>1, <1>4
  <2>2. ev' = b \o r
    BY <1>3
  <2> HIDE DEF E, b
  <2>3. /\ b \o r \in Seq(E) /\ Len(b \o r) = Len(b) + Len(r)
        /\ \A n \in 1 .. Len(b) + Len(r) : (b \o r)[n] = IF n <= Len(b) THEN b[n] ELSE r[n - Len(b)]
    BY <2>1, ConcatProperties
  <2>4. Len(r) \in Nat
    BY <2>1
  <2>5. /\ ev' \in Seq(E) /\ Len(ev') = 1 + Len(r)
        /\ \A n \in 1 .. 1 + Len(r) : ev'[n] = IF n <= 1 THEN b[n] ELSE r[n - 1]
    BY <2>1, <2>2, <2>3
  <2> QED
    BY <2>4, <2>5 DEF E, b
<1>6. \A n \in DOMAIN ev' : /\ n \in DOMAIN ev /\ ev'[n].s = ev[n].s /\ ev'[n].id = ev[n].id
  <2> SUFFICES ASSUME NEW n \in DOMAIN ev'
               PROVE  n \in DOMAIN ev /\ ev'[n].s = ev[n].s /\ ev'[n].id = ev[n].id
    OBVIOUS
  <2>1. n \in 1 .. 1 + Len(r)
    BY <1>5
  <2>2. CASE n = 1
    <3>1. ev'[n] = <<h>>[n]
      BY <1>5, <2>1, <2>2
    <3>2. ev'[n] = h
      BY <1>4, <2>2, <3>1, Zenon
    <3> QED
      BY <1>1, <1>2, <2>2, <3>2
  <2>3. CASE n # 1
    <3>1. ev'[n] = r[n - 1] /\ n - 1 \in 1 .. Len(r)
      BY <1>5, <2>1, <2>3
    <3>2. n - 1 \in DOMAIN r
      BY <1>1, <3>1
    <3>3. r[n - 1] = ev[(n - 1) + 1] /\ (n - 1) + 1 \in DOMAIN ev /\ (n - 1) + 1 = n
      BY <1>1, <1>5, <2>1, <3>2
    <3>4. n \in DOMAIN ev /\ ev'[n] = ev[n]
      BY <3>1, <3>3
    <3> QED
      BY <3>4
  <2> QED
    BY <2>2, <2>3
<1>7. DistinctInv'
  BY <1>6, Zenon DEF DistinctInv
<1> QED
  BY <1>5, <1>6, <1>7 DEF Left

\* The slot of the event at the head.
LEMMA HeadEvent ==
  ASSUME SocketInv, ev # <<>>, Head(ev).s # NULL
  PROVE  LET i == Head(ev).s IN
         /\ i \in SlotIx /\ slot[i] \in SlotRecord /\ Sized(slot[i])
         /\ slot[i].id \in 0 .. MaxId /\ slot[i].opaque \in Services \cup {"none"}
         /\ slot[i].type \in Types
         /\ ~raced /\ pc # "clear" => /\ slot[i].type \in PolledTypes /\ slot[i].id = Head(ev).id
                                      /\ slot[i].id \in known /\ slot[i].id \in Ids
                                      /\ Hash(slot[i].id) = i /\ Buffers(slot[i])
<1> DEFINE i == Head(ev).s
<1>1. TypeInv /\ Head(ev) = ev[1] /\ 1 \in DOMAIN ev
  BY TailSeq DEF SocketInv, TypeInv
<1>2. i \in SlotIx
  BY <1>1, EventFields
<1>3. slot[i] \in SlotRecord /\ Sized(slot[i])
  BY <1>1, <1>2 DEF TypeInv
<1>4. ASSUME ~raced, pc # "clear"
      PROVE  /\ slot[i].type \in PolledTypes /\ slot[i].id = Head(ev).id
             /\ slot[i].id \in known /\ slot[i].id \in Ids
             /\ Hash(slot[i].id) = i /\ Buffers(slot[i])
  <2>1. CalmInv
    BY <1>4 DEF SocketInv
  <2>2. slot[i].type \in PolledTypes /\ slot[i].id = Head(ev).id
    BY <1>1, <1>4, <2>1 DEF CalmInv, EventInv, EventOK
  <2>3. slot[i].type \notin Unused
    BY <2>2 DEF PolledTypes, Unused
  <2> QED
    BY <1>1, <1>2, <2>1, <2>2, <2>3 DEF CalmInv, IdInv, BufInv, TypeInv
<1> QED
  BY <1>2, <1>3, <1>4, SlotFields

\* An event that changes its slot to t.
LEMMA EventStep ==
  ASSUME SocketInv, failed = "no", ev # <<>>, pc # "clear", pc' = "top", checkctrl' \in BOOLEAN,
         rsv' = rsv, pipe' = pipe, known' = known, alloc_id' \in 0 .. MaxId, alloc_id' >= alloc_id,
         NEW i, i = Head(ev).s, i # NULL, NEW t, slot' = [slot EXCEPT ![i] = t], Sized(t),
         NEW kind, NEW opaque, Told(slot[i].id, kind, opaque), Left,
         raced' \in BOOLEAN, raced => raced', AssertsPinned',
         ~raced' => /\ Buffers(t) /\ (t.type = "CONNECTING" => t.out) /\ t.type # "RESERVE"
                    /\ t.type \notin Unused => t.id = slot[i].id
                    /\ \/ t.type \in PolledTypes /\ t.id = slot[i].id
                       \/ \A n \in DOMAIN ev' : ev'[n].s # NULL => ev'[n].s # i
                    /\ t.type \in {"PLISTEN", "PACCEPT", "CONNECTING"} => heard'[t.id] # "gone"
                    /\ t.type = "CONNECTED" => heard'[t.id] = t.opaque
  PROVE  SocketInv'
<1>1. /\ i \in SlotIx /\ slot[i].id \in 0 .. MaxId
      /\ ~raced => /\ slot[i].type \in PolledTypes /\ slot[i].id \in known /\ slot[i].id \in Ids
                   /\ Hash(slot[i].id) = i
  BY HeadEvent
<1>2. TypeInv /\ FreshInv /\ alloc_id \in Nat /\ alloc_id' \in Nat
  BY SocketAssumption DEF SocketInv, TypeInv
<1>3. t \in SlotRecord /\ slot'[i] = t /\ \A j \in SlotIx : j # i => slot'[j] = slot[j]
  BY <1>1, <1>2 DEF TypeInv, Sized
<1>4. TypeInv'
  <2>1. slot' \in [SlotIx -> SlotRecord]
    BY <1>1, <1>2, <1>3 DEF TypeInv
  <2>2. \A j \in SlotIx : Sized(slot'[j])
    BY <1>2, <1>3 DEF TypeInv
  <2> QED
    BY <1>2, <2>1, <2>2 DEF TypeInv, Left, Told
<1>5. FreshInv'
  <2>1. \A id \in known : id <= alloc_id'
    <3>1. \A id \in known : id \in Nat /\ id <= alloc_id
      BY <1>2 DEF FreshInv, TypeInv, Ids
    <3> QED
      BY <1>2, <3>1
  <2>2. \A w \in Services : rsv[w].pc = "store" =>
          rsv[w].id \in Ids /\ rsv[w].id \notin known /\ rsv[w].id <= alloc_id'
    <3>1. \A w \in Services : rsv[w].pc = "store" =>
            rsv[w].id \in Ids /\ rsv[w].id \notin known /\ rsv[w].id <= alloc_id /\ rsv[w].id \in Nat
      BY <1>2 DEF FreshInv, Ids
    <3> QED
      BY <1>2, <3>1
  <2> QED
    BY <1>2, <2>1, <2>2 DEF FreshInv
<1>6. DistinctInv'
  BY DEF Left
<1>7. ASSUME ~raced' PROVE CalmInv'
  <2>1. CalmInv /\ ClaimInv /\ ~raced
    BY <1>7 DEF SocketInv, CalmInv
  <2>2. BufInv'
    <3>1. \A j \in SlotIx : Buffers(slot'[j])
      BY <1>3, <1>7, <2>1 DEF CalmInv, BufInv
    <3> QED
      BY <3>1 DEF BufInv
  <2>3. ConnectInv' /\ IdInv'
    BY <1>1, <1>3, <1>7, <2>1 DEF CalmInv, ConnectInv, IdInv
  <2>4. EventInv'
    <3> SUFFICES ASSUME NEW n \in DOMAIN ev', ev'[n].s # NULL
                 PROVE  Hash(ev'[n].id) = ev'[n].s /\ EventOK(ev[n])'
      BY DEF EventInv
    <3>1. PICK m \in DOMAIN ev : ev'[n].s = ev[m].s /\ ev'[n].id = ev[m].id
      BY DEF Left
    <3>2. /\ Hash(ev[m].id) = ev[m].s /\ slot[ev[m].s].type \in PolledTypes
          /\ slot[ev[m].s].id = ev[m].id /\ ev[m].s \in SlotIx
      BY <1>2, <2>1, <3>1, EventFields DEF CalmInv, EventInv, EventOK
    <3> DEFINE e == ev'[n]
    <3>3. Hash(e.id) = e.s /\ slot[e.s].type \in PolledTypes /\ slot[e.s].id = e.id /\ e.s \in SlotIx
      BY <3>1, <3>2
    <3>4. slot'[e.s].type \in PolledTypes /\ slot'[e.s].id = e.id
      <4>1. CASE e.s = i
        BY <1>3, <1>7, <3>3, <4>1
      <4>2. CASE e.s # i
        BY <1>3, <3>3, <4>2
      <4> QED
        BY <4>1, <4>2
    <3> QED
      BY <3>3, <3>4 DEF EventOK
  <2>5. HeardInv'
    <3>0. \A x \in Ids : x # slot[i].id => heard'[x] = heard[x]
      BY DEF Told
    <3>1. ASSUME NEW j \in SlotIx
          PROVE  /\ slot'[j].type \in {"PLISTEN", "PACCEPT", "CONNECTING"} => heard'[slot'[j].id] # "gone"
                 /\ slot'[j].type = "CONNECTED" => heard'[slot'[j].id] = slot'[j].opaque
      <4>1. CASE j = i
        BY <1>3, <1>7, <4>1
      <4>2. CASE j # i
        <5>1. slot'[j] = slot[j]
          BY <1>3, <4>2
        <5>2. CASE slot[j].type \in Unused
          BY <5>1, <5>2 DEF Unused
        <5>3. CASE slot[j].type \notin Unused
          <6>1. Hash(slot[j].id) = j /\ slot[j].id \in Ids
            BY <1>2, <2>1, <5>3 DEF CalmInv, IdInv, TypeInv
          <6>2. slot[j].id # slot[i].id
            BY <1>1, <2>1, <4>2, <6>1
          <6>3. heard'[slot[j].id] = heard[slot[j].id]
            BY <3>0, <6>1, <6>2
          <6> QED
            BY <2>1, <5>1, <6>3 DEF CalmInv, HeardInv
        <5> QED
          BY <5>2, <5>3
      <4> QED
        BY <4>1, <4>2
    <3>2. ASSUME NEW n \in DOMAIN pipe, Opens(pipe[n]) PROVE heard'[pipe[n].id] # "gone"
      <4>1. slot[Hash(pipe[n].id)].type = "RESERVE" /\ heard[pipe[n].id] # "gone"
        BY <2>1, <3>2 DEF ClaimInv, CalmInv, HeardInv
      <4>2. pipe[n].id # slot[i].id
        BY <1>1, <2>1, <4>1 DEF PolledTypes
      <4>3. pipe[n].id \in Ids
        BY <1>2 DEF FreshInv, TypeInv
      <4> QED
        BY <3>0, <4>1, <4>2, <4>3
    <3>3. ASSUME NEW w \in Services, rsv[w].pc = "store" PROVE heard'[rsv[w].id] # "gone"
      <4>1. rsv[w].id \in Ids /\ rsv[w].id # slot[i].id
        BY <1>1, <1>2, <2>1, <3>3 DEF FreshInv
      <4> QED
        BY <2>1, <3>0, <3>3, <4>1 DEF CalmInv, HeardInv
    <3>4. ASSUME NEW id \in Ids, id > alloc_id' PROVE heard'[id] # "gone"
      <4>1. id \in Nat /\ slot[i].id \in Nat
        BY <1>1 DEF Ids
      <4>2. slot[i].id <= alloc_id
        BY <1>1, <1>2, <2>1 DEF FreshInv
      <4>3. id > alloc_id /\ id # slot[i].id
        BY <1>2, <3>4, <4>1, <4>2
      <4> QED
        BY <2>1, <3>0, <4>3 DEF CalmInv, HeardInv
    <3> QED
      BY <3>1, <3>2, <3>3, <3>4 DEF HeardInv
  <2>6. ClaimInv'
    <3>1. \A j \in SlotIx : slot'[j].type = "RESERVE" <=> slot[j].type = "RESERVE"
      BY <1>1, <1>3, <1>7, <2>1 DEF PolledTypes
    <3>2. ASSUME NEW w \in Services, rsv[w].pc = "store" PROVE Hash(rsv[w].id) \in SlotIx
      <4>1. rsv[w].id \in Nat
        BY <1>2, <3>2 DEF FreshInv, Ids
      <4> QED
        BY <4>1, HashIx
    <3>3. ASSUME NEW n \in DOMAIN pipe PROVE Hash(pipe[n].id) \in SlotIx
      <4>0. pipe[n].id \in Ids
        BY <1>2, <3>3 DEF FreshInv, TypeInv
      <4>1. pipe[n].id \in Nat
        BY <4>0 DEF Ids
      <4> QED
        BY <4>1, HashIx
    <3> QED
      BY <2>1, <3>1, <3>2, <3>3 DEF ClaimInv
  <2> QED
    BY <2>2, <2>3, <2>4, <2>5, <2>6 DEF CalmInv
<1> QED
  BY <1>4, <1>5, <1>6, <1>7 DEF SocketInv

\* What every handler of an event does.
LEMMA EventTaken ==
  ASSUME SocketInv, Event
  PROVE  /\ ev # <<>> /\ pc # "clear" /\ pc' = "top" /\ checkctrl' \in BOOLEAN
         /\ rsv' = rsv /\ pipe' = pipe /\ TypeInv /\ FreshInv /\ DistinctInv /\ raced \in BOOLEAN
         /\ alloc_id \in 0 .. MaxId /\ alloc_id \in Nat /\ alloc_id >= alloc_id
<1>1. /\ ev # <<>> /\ pc # "clear" /\ pc' = "top" /\ checkctrl' \in BOOLEAN
      /\ rsv' = rsv /\ pipe' = pipe
  BY DEF Event
<1>2. TypeInv /\ FreshInv /\ DistinctInv /\ raced \in BOOLEAN /\ alloc_id \in 0 .. MaxId
  BY DEF SocketInv, TypeInv
<1>3. alloc_id \in Nat /\ alloc_id >= alloc_id
  BY <1>2, SocketAssumption
<1> QED
  BY <1>1, <1>2, <1>3

\* An event without a socket is dropped.
LEMMA SkipStep ==
  ASSUME SocketInv, failed = "no", SkipEvent
  PROVE  SocketInv'
<1>1. /\ ev # <<>> /\ pc # "clear" /\ pc' = "top" /\ checkctrl' \in BOOLEAN
      /\ rsv' = rsv /\ pipe' = pipe /\ TypeInv /\ FreshInv /\ DistinctInv
  BY EventTaken DEF SkipEvent
<1>2. ev' = Tail(ev) /\ Nothing /\ UNCHANGED <<slot, alloc_id, failed, known, raced>>
  BY DEF SkipEvent
<1>3. Left
  BY <1>1, <1>2, TailEvents
<1>4. result' \in Results /\ heard' = heard
  BY <1>2, QuietResult DEF Nothing
<1>5. TypeInv'
  BY <1>1, <1>2, <1>3, <1>4 DEF TypeInv, Left
<1>6. FreshInv'
  BY <1>1, <1>2 DEF FreshInv
<1>7. DistinctInv'
  BY <1>3 DEF Left
<1>8. AssertsPinned'
  BY <1>2, NoFailure
<1>9. ASSUME ~raced' PROVE CalmInv'
  <2>1. CalmInv
    BY <1>2, <1>9 DEF SocketInv
  <2>2. BufInv' /\ ConnectInv' /\ IdInv' /\ HeardInv' /\ (failed' = "no" => ClaimInv')
    BY <1>1, <1>2, <1>4, <2>1 DEF CalmInv, BufInv, ConnectInv, IdInv, HeardInv, ClaimInv
  <2>3. EventInv'
    <3> SUFFICES ASSUME NEW n \in DOMAIN ev', ev'[n].s # NULL
                 PROVE  Hash(ev'[n].id) = ev'[n].s /\ EventOK(ev[n])'
      BY DEF EventInv
    <3>1. PICK m \in DOMAIN ev : ev'[n].s = ev[m].s /\ ev'[n].id = ev[m].id
      BY <1>3 DEF Left
    <3>2. /\ Hash(ev[m].id) = ev[m].s /\ slot[ev[m].s].type \in PolledTypes /\ slot[ev[m].s].id = ev[m].id
      BY <1>1, <2>1, <3>1 DEF CalmInv, EventInv, EventOK
    <3> QED
      BY <1>2, <3>1, <3>2 DEF EventOK
  <2> QED
    BY <2>2, <2>3 DEF CalmInv
<1> QED
  BY <1>5, <1>6, <1>7, <1>8, <1>9 DEF SocketInv

\* An event that closes its socket.
LEMMA ClosingEvent ==
  ASSUME SocketInv, failed = "no", Event, NEW i, i = Head(ev).s, i # NULL, ev' = Tail(ev),
         NEW kind \in {"ERR", "CLOSE"}, Forward(kind, slot[i].id, slot[i].opaque),
         NEW t, slot' = [slot EXCEPT ![i] = t], Sized(t), t.type = "INVALID", ~raced' => Buffers(t),
         UNCHANGED <<alloc_id, failed, known>>, raced' \in BOOLEAN, raced => raced'
  PROVE  SocketInv'
<1>1. /\ ev # <<>> /\ pc # "clear" /\ pc' = "top" /\ checkctrl' \in BOOLEAN
      /\ rsv' = rsv /\ pipe' = pipe /\ TypeInv /\ DistinctInv
      /\ alloc_id' \in 0 .. MaxId /\ alloc_id' >= alloc_id
  BY EventTaken
<1>2. /\ slot[i] \in SlotRecord /\ slot[i].id \in 0 .. MaxId /\ slot[i].opaque \in Services \cup {"none"}
  BY <1>1, HeadEvent
<1>3. Told(slot[i].id, kind, slot[i].opaque)
  <2>1. kind \in Kinds \ {"none"}
    BY DEF Kinds
  <2> QED
    BY <1>1, <1>2, <2>1, ForwardTold
<1>4. Left /\ \A n \in DOMAIN ev' : ev'[n].s # NULL => ev'[n].s # i
  BY <1>1, TailEvents
<1>5. AssertsPinned'
  BY NoFailure
<1>6. t.type \in Unused
  BY DEF Unused
<1> QED
  BY <1>1, <1>3, <1>4, <1>5, <1>6, EventStep

\* A connection is made, or fails.
LEMMA ConnectStep ==
  ASSUME SocketInv, failed = "no", report_connect
  PROVE  SocketInv'
<1> DEFINE i == Head(ev).s
           s == slot[i]
<1>1. /\ Event /\ i # NULL /\ s.type = "CONNECTING" /\ ev' = Tail(ev)
      /\ UNCHANGED <<alloc_id, failed, known, raced>>
  BY DEF report_connect, EventOf, EventSlot
<1>2. /\ ev # <<>> /\ pc # "clear" /\ pc' = "top" /\ checkctrl' \in BOOLEAN
      /\ rsv' = rsv /\ pipe' = pipe /\ TypeInv /\ DistinctInv /\ raced \in BOOLEAN
      /\ alloc_id' \in 0 .. MaxId /\ alloc_id' >= alloc_id
  BY <1>1, EventTaken
<1>3. /\ i \in SlotIx /\ s \in SlotRecord /\ Sized(s) /\ s.id \in 0 .. MaxId
      /\ s.opaque \in Services \cup {"none"}
      /\ ~raced => s.id \in Ids /\ Buffers(s)
  BY <1>1, <1>2, HeadEvent
<1>4. CASE slot' = [slot EXCEPT ![i] = Closed(s)] /\ Forward("ERR", s.id, s.opaque)
  <2>1. Sized(Closed(s)) /\ Buffers(Closed(s)) /\ Closed(s).type = "INVALID"
    BY <1>3, ClosedSlot
  <2> HIDE DEF i
  <2> QED
    BY <1>1, <1>2, <1>4, <2>1, ClosingEvent DEF i
<1>5. CASE /\ slot' = [slot EXCEPT ![i].type = "CONNECTED", ![i].out = s.out /\ ~send_buffer_empty(s)]
           /\ Forward("OPEN", s.id, s.opaque)
  <2> DEFINE out == s.out /\ ~send_buffer_empty(s)
             t == [s EXCEPT !.type = "CONNECTED", !.out = out]
  <2>1. slot' = [slot EXCEPT ![i] = t]
    <3>1. slot \in [SlotIx -> SlotRecord]
      BY <1>2 DEF TypeInv
    <3> QED
      BY <1>3, <1>5, <3>1
  <2>2. /\ t \in SlotRecord /\ t.type = "CONNECTED" /\ t.id = s.id /\ t.opaque = s.opaque
        /\ t.high = s.high /\ t.low = s.low /\ t.wb_size = s.wb_size /\ t.out = out
    <3>1. "CONNECTED" \in Types
      BY DEF Types
    <3>2. out \in BOOLEAN
      BY <1>3, SlotFields
    <3> HIDE DEF s, out
    <3> QED
      BY <1>3, <3>1, <3>2 DEF SlotRecord
  <2> HIDE DEF t
  <2>3. Sized(t)
    BY <1>3, <2>2 DEF Sized
  <2>4. send_buffer_empty(t) <=> send_buffer_empty(s)
    BY <2>2 DEF send_buffer_empty
  <2>5. ASSUME ~raced' PROVE Buffers(t)
    BY <1>1, <1>3, <2>2, <2>4, <2>5 DEF Buffers, Buffered, Unused
  <2>6. Told(s.id, "OPEN", s.opaque)
    <3>1. "OPEN" \in Kinds \ {"none"}
      BY DEF Kinds
    <3> QED
      BY <1>2, <1>3, <1>5, <3>1, ForwardTold
  <2>7. ~raced' => heard'[t.id] = t.opaque
    BY <1>1, <1>3, <2>2, <2>6 DEF Told
  <2>8. Left
    BY <1>1, <1>2, TailEvents
  <2>9. AssertsPinned'
    BY <1>1, NoFailure
  <2>10. t.type \in PolledTypes /\ t.type \notin {"PLISTEN", "PACCEPT", "CONNECTING", "RESERVE"}
    BY <2>2 DEF PolledTypes
  <2> QED
    BY <1>1, <1>2, <2>1, <2>2, <2>3, <2>5, <2>6, <2>7, <2>8, <2>9, <2>10, EventStep
<1> QED
  BY <1>4, <1>5 DEF report_connect, EventSlot

\* An event that leaves its socket as it is.
LEMMA KeepingEvent ==
  ASSUME SocketInv, failed = "no", Event, NEW i, i = Head(ev).s, i # NULL, Left,
         NEW kind \in {"none", "DATA", "ACCEPT", "ERR"}, Told(slot[i].id, kind, slot[i].opaque),
         slot' = slot, kind = "ERR" => slot[i].type = "LISTEN",
         failed' = failed, known' = known, alloc_id' \in 0 .. MaxId, alloc_id' >= alloc_id,
         raced' \in BOOLEAN, raced => raced'
  PROVE  SocketInv'
<1>1. /\ ev # <<>> /\ pc # "clear" /\ pc' = "top" /\ checkctrl' \in BOOLEAN
      /\ rsv' = rsv /\ pipe' = pipe /\ TypeInv
  BY EventTaken
<1>2. /\ i \in SlotIx /\ Sized(slot[i])
      /\ ~raced => slot[i].type \in PolledTypes /\ slot[i].id \in Ids /\ Buffers(slot[i])
  BY <1>1, HeadEvent
<1>3. slot' = [slot EXCEPT ![i] = slot[i]]
  BY <1>1, <1>2, SameSlot
<1>4. AssertsPinned'
  BY NoFailure
<1>5. ASSUME ~raced' PROVE
          /\ Buffers(slot[i]) /\ (slot[i].type = "CONNECTING" => slot[i].out) /\ slot[i].type # "RESERVE"
          /\ slot[i].type \in PolledTypes
          /\ slot[i].type \in {"PLISTEN", "PACCEPT", "CONNECTING"} => heard'[slot[i].id] # "gone"
          /\ slot[i].type = "CONNECTED" => heard'[slot[i].id] = slot[i].opaque
  <2>1. CalmInv /\ ~raced
    BY <1>5 DEF SocketInv
  <2>2. kind # "ERR" => heard'[slot[i].id] = heard[slot[i].id]
    BY <1>2, <2>1 DEF Told
  <2>3. slot[i].type # "LISTEN" => heard'[slot[i].id] = heard[slot[i].id]
    BY <2>2
  <2> QED
    BY <1>2, <2>1, <2>3 DEF CalmInv, ConnectInv, HeardInv, PolledTypes
<1> QED
  BY <1>1, <1>2, <1>3, <1>4, <1>5, EventStep

\* Input.
LEMMA ReadStep ==
  ASSUME SocketInv, failed = "no", forward_message_tcp
  PROVE  SocketInv'
<1> DEFINE i == Head(ev).s
           s == slot[i]
           goOn == IF Head(ev).write THEN <<[Head(ev) EXCEPT !.read = FALSE]>> \o Tail(ev)
                   ELSE Tail(ev)
<1>1. /\ Event /\ i # NULL /\ s.type \in Streams /\ raced' = (raced \/ s.type = "RESERVE")
      /\ alloc_id' = alloc_id /\ known' = known
  BY DEF forward_message_tcp, EventOf, EventSlot
<1>2. /\ ev # <<>> /\ pc # "clear" /\ pc' = "top" /\ checkctrl' \in BOOLEAN
      /\ rsv' = rsv /\ pipe' = pipe /\ TypeInv /\ FreshInv /\ DistinctInv /\ raced \in BOOLEAN
      /\ alloc_id' \in 0 .. MaxId /\ alloc_id' >= alloc_id
  BY <1>1, EventTaken
<1>3. /\ i \in SlotIx /\ s \in SlotRecord /\ Sized(s) /\ s.id \in 0 .. MaxId
      /\ s.opaque \in Services \cup {"none"}
  BY <1>1, <1>2, HeadEvent
<1>4. raced' \in BOOLEAN /\ (raced => raced')
  BY <1>1, <1>2
<1>5. CASE /\ s.type = "RESERVE" /\ failed' = "reserve" /\ ev' = Tail(ev)
           /\ Nothing /\ slot' = slot
  <2>1. raced'
    BY <1>1, <1>5
  <2>2. AssertsPinned'
    BY <2>1 DEF AssertsPinned
  <2>3. Left
    BY <1>2, <1>5, TailEvents
  <2>4. Told(s.id, "none", s.opaque)
    BY <1>2, <1>5, NothingTold
  <2>5. slot' = [slot EXCEPT ![i] = s]
    BY <1>2, <1>3, <1>5, SameSlot
  <2> QED
    BY <1>1, <1>2, <1>3, <1>4, <2>1, <2>2, <2>3, <2>4, <2>5, EventStep
<1>6. CASE /\ \E type \in {"ERR", "CLOSE"} : Forward(type, s.id, s.opaque)
           /\ slot' = [slot EXCEPT ![i] = Closed(s)] /\ ev' = Tail(ev) /\ failed' = failed
  <2>1. PICK kind \in {"ERR", "CLOSE"} : Forward(kind, s.id, s.opaque)
    BY <1>6
  <2>2. Sized(Closed(s)) /\ Buffers(Closed(s)) /\ Closed(s).type = "INVALID"
    BY <1>3, ClosedSlot
  <2> HIDE DEF i
  <2> QED
    BY <1>1, <1>2, <1>4, <1>6, <2>1, <2>2, ClosingEvent DEF i
<1>7. ASSUME ev' = goOn PROVE Left
  <2>1. CASE ev' = Tail(ev)
    BY <1>2, <2>1, TailEvents
  <2>2. CASE ev' = <<[Head(ev) EXCEPT !.read = FALSE]>> \o Tail(ev)
    BY <1>2, <2>2, KeptEvents
  <2> QED
    BY <1>7, <2>1, <2>2
<1>8. CASE Forward("DATA", s.id, s.opaque) /\ ev' = goOn /\ slot' = slot /\ failed' = failed
  <2>1. "DATA" \in Kinds \ {"none"}
    BY DEF Kinds
  <2>2. Told(s.id, "DATA", s.opaque)
    BY <1>2, <1>3, <1>8, <2>1, ForwardTold
  <2>3. Left
    BY <1>7, <1>8
  <2> QED
    BY <1>1, <1>2, <1>4, <1>8, <2>2, <2>3, KeepingEvent
<1>9. CASE Nothing /\ ev' = goOn /\ slot' = slot /\ failed' = failed
  <2>1. Told(s.id, "none", s.opaque)
    BY <1>2, <1>9, NothingTold
  <2>2. Left
    BY <1>7, <1>9
  <2> QED
    BY <1>1, <1>2, <1>4, <1>9, <2>1, <2>2, KeepingEvent
<1> QED
  BY <1>5, <1>6, <1>8, <1>9, Zenon DEF forward_message_tcp, EventSlot

\* Output.
LEMMA FlushStep ==
  ASSUME SocketInv, failed = "no", Flush
  PROVE  SocketInv'
<1> DEFINE i == Head(ev).s
           s == slot[i]
<1>1. /\ Event /\ i # NULL /\ s.type \in Streams /\ raced' = (raced \/ s.type = "RESERVE")
      /\ alloc_id' = alloc_id /\ known' = known /\ ev' = Tail(ev)
  BY Zenon DEF Flush, EventOf, EventSlot
<1>2. /\ ev # <<>> /\ pc # "clear" /\ pc' = "top" /\ checkctrl' \in BOOLEAN
      /\ rsv' = rsv /\ pipe' = pipe /\ TypeInv /\ FreshInv /\ DistinctInv /\ raced \in BOOLEAN
      /\ alloc_id' \in 0 .. MaxId /\ alloc_id' >= alloc_id
  BY <1>1, EventTaken
<1>3. /\ i \in SlotIx /\ s \in SlotRecord /\ Sized(s) /\ s.id \in 0 .. MaxId
      /\ s.opaque \in Services \cup {"none"}
      /\ ~raced => s.type \in PolledTypes /\ s.id \in Ids /\ Buffers(s)
  BY <1>1, <1>2, HeadEvent
<1>4. raced' \in BOOLEAN /\ (raced => raced')
  BY <1>1, <1>2
<1>5. Left /\ \A n \in DOMAIN ev' : ev'[n].s # NULL => ev'[n].s # i
  BY <1>1, <1>2, TailEvents
<1>6. ~raced' => s.type \in {"CONNECTED", "HALFCLOSE"} /\ s.type \in Buffered /\ s.type \notin Unused
  BY <1>1, <1>3, <1>4 DEF Streams, PolledTypes, Buffered, Unused
<1>7. PICK o \in send_buffer(s) :
          \/ /\ o.fail # "no" /\ failed' = o.fail /\ Nothing /\ slot' = slot
          \/ /\ o.fail = "no" /\ slot' = [slot EXCEPT ![i] = o.s]
             /\ IF o.type = "none" THEN Nothing ELSE Forward(o.type, s.id, s.opaque)
             /\ failed' = failed
  BY Zenon DEF Flush, EventSlot
<1>8. SentOK(s, o) /\ (Buffers(s) => SentCalm(s, o))
  <2> HIDE DEF s
  <2> QED
    BY <1>3, <1>7, SendBuffer
<1>9. CASE o.fail # "no" /\ failed' = o.fail /\ Nothing /\ slot' = slot
  <2>1. ~raced' => o.fail = "not_empty" /\ s.low # <<>> /\ ~list_uncomplete(s.low)
    BY <1>3, <1>4, <1>6, <1>8, <1>9 DEF SentCalm
  <2>2. AssertsPinned'
    BY <1>3, <1>9, <2>1 DEF AssertsPinned
  <2>3. Told(s.id, "none", s.opaque) /\ heard' = heard
    BY <1>2, <1>9, NothingTold DEF Nothing
  <2>4. slot' = [slot EXCEPT ![i] = s]
    BY <1>2, <1>3, <1>9, SameSlot
  <2>5. ASSUME ~raced' PROVE
          /\ Buffers(s) /\ s.type # "CONNECTING" /\ s.type # "RESERVE" /\ s.type \in PolledTypes
          /\ s.type \notin {"PLISTEN", "PACCEPT", "CONNECTING"}
          /\ s.type = "CONNECTED" => heard'[s.id] = s.opaque
    BY <1>3, <1>4, <1>6, <2>3, <2>5 DEF SocketInv, CalmInv, HeardInv
  <2> QED
    BY <1>1, <1>2, <1>3, <1>4, <1>5, <2>2, <2>3, <2>4, <2>5, EventStep
<1>10. CASE /\ o.fail = "no" /\ slot' = [slot EXCEPT ![i] = o.s]
            /\ IF o.type = "none" THEN Nothing ELSE Forward(o.type, s.id, s.opaque)
            /\ failed' = failed
  <2>1. Told(s.id, o.type, s.opaque)
    <3>1. CASE o.type = "none"
      BY <1>2, <1>10, <3>1, NothingTold
    <3>2. CASE o.type # "none"
      <4>1. o.type \in Kinds \ {"none"}
        BY <1>8, <3>2 DEF SentOK, Kinds
      <4> QED
        BY <1>2, <1>3, <1>10, <3>2, <4>1, ForwardTold
    <3> QED
      BY <3>1, <3>2
  <2>2. /\ Sized(o.s) /\ o.s.id = s.id /\ o.s.opaque = s.opaque
        /\ o.type \in {"none", "CLOSE", "WARNING"}
        /\ o.type = "CLOSE" => o.s.type = "INVALID"
        /\ o.type # "CLOSE" => o.s.type = s.type
    BY <1>8 DEF SentOK
  <2>3. AssertsPinned'
    BY <1>10, NoFailure
  <2>4. ASSUME ~raced' PROVE
          /\ Buffers(o.s) /\ o.s.type # "CONNECTING" /\ o.s.type # "RESERVE"
          /\ o.s.type \notin {"PLISTEN", "PACCEPT", "CONNECTING"}
          /\ o.s.type = "CONNECTED" => heard'[o.s.id] = o.s.opaque
    <3>1. Buffers(o.s)
      BY <1>3, <1>4, <1>6, <1>8, <1>10, <2>4 DEF SentCalm
    <3>2. o.s.type \in {"INVALID", "CONNECTED", "HALFCLOSE"}
      BY <1>6, <2>2, <2>4
    <3>3. ASSUME o.s.type = "CONNECTED" PROVE heard'[s.id] = s.opaque
      <4>1. o.type # "CLOSE" /\ s.type = "CONNECTED"
        BY <2>2, <3>3
      <4>2. heard[s.id] = s.opaque
        BY <1>3, <1>4, <2>4, <4>1 DEF SocketInv, CalmInv, HeardInv
      <4>3. heard'[s.id] = heard[s.id]
        BY <1>3, <1>4, <2>1, <2>2, <2>4, <4>1 DEF Told
      <4> QED
        BY <4>2, <4>3
    <3> QED
      BY <2>2, <3>1, <3>2, <3>3
  <2> QED
    BY <1>1, <1>2, <1>4, <1>5, <1>10, <2>1, <2>2, <2>3, <2>4, EventStep
<1> QED
  BY <1>7, <1>9, <1>10

\* A connection is accepted into a free slot.
LEMMA AcceptedStep ==
  ASSUME SocketInv, failed = "no", Event, ev' = Tail(ev), NEW i, i = Head(ev).s, i # NULL,
         slot[i].type = "LISTEN", NEW k \in Tries, NEW id, id = alloc_id + k, id \in Ids,
         alloc_id' = id, slot' = [slot EXCEPT ![Hash(id)] = NewFd(id, "PACCEPT", slot[i].opaque)],
         known' = known \cup {id}, Forward("ACCEPT", slot[i].id, slot[i].opaque),
         UNCHANGED <<failed, raced>>
  PROVE  SocketInv'
<1> DEFINE j == Hash(id)
           t == NewFd(id, "PACCEPT", slot[i].opaque)
<1>1. /\ ev # <<>> /\ pc # "clear" /\ pc' = "top" /\ checkctrl' \in BOOLEAN
      /\ rsv' = rsv /\ pipe' = pipe /\ TypeInv /\ FreshInv /\ DistinctInv /\ raced \in BOOLEAN
      /\ alloc_id \in Nat
  BY EventTaken
<1>2. k \in Nat \ {0} /\ slot[j].type = "INVALID"
  BY DEF Tries
<1>3. id \in Nat /\ id > alloc_id /\ j \in SlotIx /\ id \in 0 .. MaxId
  <2>1. id \in Nat /\ id > alloc_id /\ id \in 0 .. MaxId
    BY <1>1, <1>2 DEF Ids
  <2> QED
    BY <2>1, HashIx
<1>4. i \in SlotIx /\ slot[i].id \in 0 .. MaxId /\ slot[i].opaque \in Services \cup {"none"}
  BY <1>1, HeadEvent
<1>5. /\ Sized(t) /\ Buffers(t) /\ t.type = "PACCEPT" /\ t.id = id
  <2>1. /\ t \in SlotRecord /\ t.type = "PACCEPT" /\ t.id = id /\ t.high = <<>> /\ t.low = <<>>
        /\ t.wb_size = 0
    <3>1. FreeSlot \in SlotRecord /\ FreeSlot.high = <<>> /\ FreeSlot.low = <<>> /\ FreeSlot.wb_size = 0
      BY FreeFields
    <3>2. "PACCEPT" \in Types
      BY DEF Types
    <3>3. t = [FreeSlot EXCEPT !.type = "PACCEPT", !.id = id, !.opaque = slot[i].opaque]
      BY DEF NewFd
    <3> HIDE DEF t
    <3> QED
      BY <1>3, <1>4, <3>1, <3>2, <3>3 DEF SlotRecord
  <2> HIDE DEF t
  <2> QED
    BY <2>1, EmptyList DEF Sized, Buffers, Buffered, Unused, send_buffer_empty
<1>6. slot' = [slot EXCEPT ![j] = t]
  OBVIOUS
<1> HIDE DEF t
<1>7. slot'[j] = t /\ \A m \in SlotIx : m # j => slot'[m] = slot[m]
  BY <1>1, <1>3, <1>6 DEF TypeInv
<1>8. Told(slot[i].id, "ACCEPT", slot[i].opaque)
  <2>1. "ACCEPT" \in Kinds \ {"none"}
    BY DEF Kinds
  <2> QED
    BY <1>1, <1>4, <2>1, ForwardTold
<1>9. \A x \in Ids : heard'[x] = heard[x]
  BY <1>8 DEF Told
<1>10. Left
  BY <1>1, TailEvents
<1>11. TypeInv'
  <2>1. slot' \in [SlotIx -> SlotRecord]
    BY <1>1, <1>3, <1>5, <1>6 DEF TypeInv, Sized
  <2>2. \A m \in SlotIx : Sized(slot'[m])
    BY <1>1, <1>5, <1>7 DEF TypeInv
  <2> QED
    BY <1>1, <1>3, <1>8, <1>10, <2>1, <2>2 DEF TypeInv, Left, Told
<1>12. FreshInv'
  <2>1. \A x \in known' : x <= alloc_id'
    <3>1. \A x \in known : x \in Nat /\ x <= alloc_id
      BY <1>1 DEF FreshInv, TypeInv, Ids
    <3> QED
      BY <1>1, <1>3, <3>1
  <2>2. \A w \in Services : rsv[w].pc = "store" =>
          rsv[w].id \in Ids /\ rsv[w].id \notin known' /\ rsv[w].id <= alloc_id'
    <3>1. \A w \in Services : rsv[w].pc = "store" =>
            rsv[w].id \in Ids /\ rsv[w].id \notin known /\ rsv[w].id <= alloc_id /\ rsv[w].id \in Nat
      BY <1>1 DEF FreshInv, Ids
    <3> QED
      BY <1>1, <1>3, <3>1
  <2> QED
    BY <1>1, <2>1, <2>2 DEF FreshInv
<1>13. DistinctInv' /\ AssertsPinned'
  BY <1>10, NoFailure DEF Left
<1>14. ASSUME ~raced' PROVE CalmInv'
  <2>1. CalmInv /\ ClaimInv
    BY <1>14 DEF SocketInv, CalmInv
  <2>2. BufInv'
    <3>1. \A m \in SlotIx : Buffers(slot'[m])
      BY <1>5, <1>7, <2>1 DEF CalmInv, BufInv
    <3> QED
      BY <3>1 DEF BufInv
  <2>3. ConnectInv' /\ IdInv'
    BY <1>5, <1>7, <2>1 DEF CalmInv, ConnectInv, IdInv
  <2>4. EventInv'
    <3> SUFFICES ASSUME NEW n \in DOMAIN ev', ev'[n].s # NULL
                 PROVE  Hash(ev'[n].id) = ev'[n].s /\ EventOK(ev[n])'
      BY DEF EventInv
    <3>1. PICK m \in DOMAIN ev : ev'[n].s = ev[m].s /\ ev'[n].id = ev[m].id
      BY <1>10 DEF Left
    <3>2. /\ Hash(ev[m].id) = ev[m].s /\ slot[ev[m].s].type \in PolledTypes
          /\ slot[ev[m].s].id = ev[m].id /\ ev[m].s \in SlotIx
      BY <1>1, <2>1, <3>1, EventFields DEF CalmInv, EventInv, EventOK
    <3>3. ev[m].s # j
      BY <1>2, <3>2 DEF PolledTypes
    <3>4. slot'[ev[m].s] = slot[ev[m].s]
      BY <1>7, <3>2, <3>3
    <3> QED
      BY <3>1, <3>2, <3>4 DEF EventOK
  <2>5. HeardInv'
    <3>1. ASSUME NEW m \in SlotIx
          PROVE  /\ slot'[m].type \in {"PLISTEN", "PACCEPT", "CONNECTING"} => heard'[slot'[m].id] # "gone"
                 /\ slot'[m].type = "CONNECTED" => heard'[slot'[m].id] = slot'[m].opaque
      <4>1. CASE m = j
        <5>1. heard'[id] # "gone"
          BY <1>3, <1>9, <2>1 DEF CalmInv, HeardInv
        <5> QED
          BY <1>5, <1>7, <4>1, <5>1
      <4>2. CASE m # j
        <5>1. slot'[m] = slot[m]
          BY <1>7, <4>2
        <5>2. CASE slot[m].type \in Unused
          BY <5>1, <5>2 DEF Unused
        <5>3. CASE slot[m].type \notin Unused
          <6>1. slot[m].id \in Ids
            BY <1>1, <2>1, <5>3 DEF CalmInv, IdInv, TypeInv
          <6> QED
            BY <1>9, <2>1, <5>1, <6>1 DEF CalmInv, HeardInv
        <5> QED
          BY <5>2, <5>3
      <4> QED
        BY <4>1, <4>2
    <3>2. ASSUME NEW n \in DOMAIN pipe, Opens(pipe[n]) PROVE heard'[pipe[n].id] # "gone"
      <4>1. pipe[n].id \in Ids
        BY <1>1 DEF FreshInv, TypeInv
      <4> QED
        BY <1>9, <2>1, <3>2, <4>1 DEF CalmInv, HeardInv
    <3>3. ASSUME NEW w \in Services, rsv[w].pc = "store" PROVE heard'[rsv[w].id] # "gone"
      <4>1. rsv[w].id \in Ids
        BY <1>1, <3>3 DEF FreshInv
      <4> QED
        BY <1>9, <2>1, <3>3, <4>1 DEF CalmInv, HeardInv
    <3>4. ASSUME NEW x \in Ids, x > alloc_id' PROVE heard'[x] # "gone"
      <4>1. x \in Nat
        BY DEF Ids
      <4>2. x > alloc_id
        BY <1>1, <1>3, <3>4, <4>1
      <4> QED
        BY <1>9, <2>1, <4>2 DEF CalmInv, HeardInv
    <3> QED
      BY <1>1, <3>1, <3>2, <3>3, <3>4, Zenon DEF HeardInv
  <2>6. ClaimInv'
    <3>1. \A m \in SlotIx : slot'[m].type = "RESERVE" <=> slot[m].type = "RESERVE"
      BY <1>2, <1>3, <1>5, <1>7
    <3>2. ASSUME NEW w \in Services, rsv[w].pc = "store" PROVE Hash(rsv[w].id) \in SlotIx
      <4>1. rsv[w].id \in Nat
        BY <1>1, <3>2 DEF FreshInv, Ids
      <4> QED
        BY <4>1, HashIx
    <3>3. ASSUME NEW n \in DOMAIN pipe PROVE Hash(pipe[n].id) \in SlotIx
      <4>0. pipe[n].id \in Ids
        BY <1>1, <3>3 DEF FreshInv, TypeInv
      <4>1. pipe[n].id \in Nat
        BY <4>0 DEF Ids
      <4> QED
        BY <4>1, HashIx
    <3> QED
      BY <1>1, <2>1, <3>1, <3>2, <3>3 DEF ClaimInv
  <2> QED
    BY <2>2, <2>3, <2>4, <2>5, <2>6 DEF CalmInv
<1> QED
  BY <1>11, <1>12, <1>13, <1>14 DEF SocketInv

\* A listening socket has a connection.
LEMMA AcceptStep ==
  ASSUME SocketInv, failed = "no", report_accept
  PROVE  SocketInv'
<1> DEFINE i == Head(ev).s
           s == slot[i]
<1>1. /\ Event /\ i # NULL /\ s.type = "LISTEN" /\ ev' = Tail(ev)
      /\ UNCHANGED <<failed, raced>>
  BY DEF report_accept, EventOf, EventSlot
<1>2. /\ ev # <<>> /\ TypeInv /\ DistinctInv /\ raced \in BOOLEAN
      /\ alloc_id \in 0 .. MaxId /\ alloc_id >= alloc_id /\ alloc_id \in Nat
  BY <1>1, EventTaken
<1>3. s.id \in 0 .. MaxId /\ s.opaque \in Services \cup {"none"} /\ Left
  BY <1>1, <1>2, HeadEvent, TailEvents
<1>4. CASE Nothing /\ UNCHANGED <<slot, alloc_id, known>>
  <2>1. Told(s.id, "none", s.opaque)
    BY <1>2, <1>4, NothingTold
  <2> QED
    BY <1>1, <1>2, <1>3, <1>4, <2>1, KeepingEvent
<1>5. CASE Forward("ERR", s.id, s.opaque) /\ UNCHANGED <<slot, alloc_id, known>>
  <2>1. "ERR" \in Kinds \ {"none"}
    BY DEF Kinds
  <2>2. Told(s.id, "ERR", s.opaque)
    BY <1>2, <1>3, <1>5, <2>1, ForwardTold
  <2> QED
    BY <1>1, <1>2, <1>3, <1>5, <2>2, KeepingEvent
<1>6. CASE /\ alloc_id + MAX_SOCKET <= MaxId /\ alloc_id' = alloc_id + MAX_SOCKET
           /\ Nothing /\ UNCHANGED <<slot, known>>
  <2>1. Told(s.id, "none", s.opaque)
    BY <1>2, <1>6, NothingTold
  <2>2. alloc_id' \in 0 .. MaxId /\ alloc_id' >= alloc_id
    BY <1>2, <1>6, SocketAssumption
  <2> QED
    BY <1>1, <1>2, <1>3, <1>6, <2>1, <2>2, KeepingEvent
<1>7. ASSUME NEW k \in Tries, alloc_id + k \in Ids, alloc_id' = alloc_id + k,
             slot' = [slot EXCEPT ![Hash(alloc_id + k)] = NewFd(alloc_id + k, "PACCEPT", s.opaque)],
             known' = known \cup {alloc_id + k}, Forward("ACCEPT", s.id, s.opaque)
      PROVE  SocketInv'
  BY <1>1, <1>7, AcceptedStep
<1> QED
  BY <1>4, <1>5, <1>6, <1>7, Zenon DEF report_accept, EventSlot

-----------------------------------------------------------------------------
(* Services.                                                               *)

\* A request about a socket that services know.
LEMMA RequestStep ==
  ASSUME SocketInv, failed = "no", NEW r \in Requests, Request(r), ~Opens(r), r.id \in known,
         r.op \in {"D", "P"} => r.p \in Packets,
         UNCHANGED <<slot, alloc_id, rsv, pc, checkctrl, ev, result, failed, known, heard, raced>>
  PROVE  SocketInv'
<1>1. TypeInv /\ FreshInv /\ DistinctInv
  BY DEF SocketInv
<1>2. pipe' = Append(pipe, r) /\ pipe' \in Seq(Requests)
  BY <1>1, AppendSeq DEF Request, TypeInv
<1>3. PICK d \in Nat : /\ DOMAIN pipe = 1 .. d /\ DOMAIN pipe' = 1 .. d + 1 /\ pipe'[d + 1] = r
                       /\ \A n \in 1 .. d : pipe'[n] = pipe[n]
  BY <1>1, <1>2, AppendSeq DEF TypeInv
<1>4. \A n \in DOMAIN pipe' : n = d + 1 \/ (n \in DOMAIN pipe /\ pipe'[n] = pipe[n])
  BY <1>3
<1>5. \A n \in DOMAIN pipe : n \in DOMAIN pipe' /\ pipe'[n] = pipe[n]
  BY <1>3
<1>6. TypeInv'
  BY <1>1, <1>2, <1>3, <1>4 DEF TypeInv
<1>7. FreshInv'
  <2>1. \A n \in DOMAIN pipe' : pipe'[n].id \in known
    BY <1>1, <1>3, <1>4 DEF FreshInv
  <2>2. \A m, n \in DOMAIN pipe' : Opens(pipe'[n]) /\ m < n => pipe'[m].id # pipe'[n].id
    <3> SUFFICES ASSUME NEW m \in DOMAIN pipe', NEW n \in DOMAIN pipe', Opens(pipe'[n]), m < n
                 PROVE  pipe'[m].id # pipe'[n].id
      OBVIOUS
    <3>1. n \in 1 .. d
      BY <1>3, <1>4
    <3>2. m \in 1 .. d
      BY <1>3, <3>1
    <3> QED
      BY <1>1, <1>3, <3>1, <3>2 DEF FreshInv
  <2> QED
    BY <1>1, <2>1, <2>2 DEF FreshInv
<1>8. DistinctInv' /\ AssertsPinned'
  BY <1>1, NoFailure DEF DistinctInv
<1>9. ASSUME ~raced' PROVE CalmInv'
  <2>1. CalmInv /\ ClaimInv
    BY <1>9 DEF SocketInv, CalmInv
  <2>2. BufInv' /\ ConnectInv' /\ IdInv' /\ EventInv'
    BY <2>1 DEF CalmInv, BufInv, ConnectInv, IdInv, EventInv, EventOK
  <2>3. \A n \in DOMAIN pipe' : Opens(pipe'[n]) => n \in DOMAIN pipe /\ pipe'[n] = pipe[n]
    BY <1>3, <1>4
  <2>4. HeardInv'
    BY <2>1, <2>3 DEF CalmInv, HeardInv
  <2>5. ClaimInv'
    <3>1. \A i \in SlotIx : slot[i].type = "RESERVE" =>
            \/ \E w \in Services : rsv[w].pc = "store" /\ Hash(rsv[w].id) = i
            \/ \E n \in DOMAIN pipe' : Opens(pipe'[n]) /\ Hash(pipe'[n].id) = i
      BY <1>5, <2>1 DEF ClaimInv
    <3>2. /\ \A n \in DOMAIN pipe' : Opens(pipe'[n]) => slot[Hash(pipe'[n].id)].type = "RESERVE"
          /\ \A m, n \in DOMAIN pipe' :
               Opens(pipe'[m]) /\ Opens(pipe'[n]) /\ Hash(pipe'[m].id) = Hash(pipe'[n].id) => m = n
          /\ \A w \in Services, n \in DOMAIN pipe' :
               rsv[w].pc = "store" /\ Opens(pipe'[n]) => Hash(rsv[w].id) # Hash(pipe'[n].id)
      BY <2>1, <2>3 DEF ClaimInv
    <3> QED
      BY <2>1, <3>1, <3>2 DEF ClaimInv
  <2> QED
    BY <2>2, <2>4, <2>5 DEF CalmInv
<1> QED
  BY <1>6, <1>7, <1>8, <1>9 DEF SocketInv

LEMMA AskStep ==
  ASSUME SocketInv, failed = "no", NEW w \in Services, NEW id \in Ids, NEW op \in {"S", "K"},
         NEW shutdown \in BOOLEAN, Ask(w, id, op, shutdown)
  PROVE  SocketInv'
<1> DEFINE r == [op |-> op, id |-> id, opaque |-> w, shutdown |-> shutdown, p |-> 0]
<1>1. r \in Requests /\ r.op = op /\ r.id = id
  BY DEF Requests
<1>2. /\ Request(r) /\ id \in known
      /\ UNCHANGED <<slot, alloc_id, rsv, pc, checkctrl, ev, result, failed, known, heard, raced>>
  BY DEF Ask
<1> HIDE DEF r
<1>3. ~Opens(r) /\ r.op \notin {"D", "P"}
  BY <1>1 DEF Opens
<1> QED
  BY <1>1, <1>2, <1>3, RequestStep

LEMMA SendRequestStep ==
  ASSUME SocketInv, failed = "no", NEW w \in Services, NEW id \in Ids, NEW low \in BOOLEAN,
         SendRequest(w, id, low)
  PROVE  SocketInv'
<1> DEFINE p == Len(sent) + 1
           r == [op |-> IF low THEN "P" ELSE "D", id |-> id, opaque |-> w, shutdown |-> FALSE, p |-> p]
<1>1. /\ Request(r) /\ id \in known /\ p \in Packets
      /\ UNCHANGED <<slot, alloc_id, rsv, pc, checkctrl, ev, result, failed, known, heard, raced>>
  BY DEF SendRequest
<1> HIDE DEF p
<1>2. r \in Requests /\ r.op \in {"D", "P"} /\ r.id = id /\ r.p = p
  BY <1>1 DEF Requests
<1> HIDE DEF r
<1>3. ~Opens(r)
  BY <1>2 DEF Opens
<1> QED
  BY <1>1, <1>2, <1>3, RequestStep

\* A service whose reservation begins, goes on or is given up.
LEMMA TryStep ==
  ASSUME SocketInv, failed = "no", NEW w \in Services, NEW v \in Reservations, v.pc # "store",
         v.pc # "idle" => Opens(v), rsv[w].pc # "store", rsv' = [rsv EXCEPT ![w] = v],
         alloc_id' \in 0 .. MaxId, alloc_id' >= alloc_id,
         UNCHANGED <<slot, pipe, pc, checkctrl, ev, result, failed, known, heard, raced>>
  PROVE  SocketInv'
<1>1. TypeInv /\ FreshInv /\ DistinctInv /\ alloc_id \in Nat /\ alloc_id' \in Nat
  BY SocketAssumption DEF SocketInv, TypeInv
<1>2. /\ rsv' \in [Services -> Reservations]
      /\ \A x \in Services : rsv'[x].pc # "idle" => Opens(rsv'[x])
      /\ \A x \in Services : rsv'[x].pc = "store" <=> rsv[x].pc = "store"
      /\ \A x \in Services : rsv[x].pc = "store" => rsv'[x] = rsv[x]
  BY <1>1 DEF TypeInv
<1>3. TypeInv'
  BY <1>1, <1>2 DEF TypeInv
<1>4. FreshInv'
  <2>1. \A id \in known : id <= alloc_id'
    <3>1. \A id \in known : id \in Nat /\ id <= alloc_id
      BY <1>1 DEF FreshInv, TypeInv, Ids
    <3> QED
      BY <1>1, <3>1
  <2>2. \A x \in Services : rsv[x].pc = "store" =>
          rsv[x].id \in Ids /\ rsv[x].id \notin known /\ rsv[x].id <= alloc_id'
    <3>1. \A x \in Services : rsv[x].pc = "store" =>
            rsv[x].id \in Ids /\ rsv[x].id \notin known /\ rsv[x].id <= alloc_id /\ rsv[x].id \in Nat
      BY <1>1 DEF FreshInv, Ids
    <3> QED
      BY <1>1, <3>1
  <2> QED
    BY <1>1, <1>2, <2>1, <2>2 DEF FreshInv
<1>5. DistinctInv' /\ AssertsPinned'
  BY <1>1, NoFailure DEF DistinctInv
<1>6. ASSUME ~raced' PROVE CalmInv'
  <2>1. CalmInv /\ ClaimInv
    BY <1>6 DEF SocketInv, CalmInv
  <2>2. BufInv' /\ ConnectInv' /\ IdInv' /\ EventInv'
    BY <2>1 DEF CalmInv, BufInv, ConnectInv, IdInv, EventInv, EventOK
  <2>3. HeardInv'
    <3>1. \A id \in Ids : id > alloc_id' => heard[id] # "gone"
      <4>1. \A id \in Ids : id \in Nat
        BY DEF Ids
      <4> QED
        BY <1>1, <2>1, <4>1 DEF CalmInv, HeardInv
    <3> QED
      BY <1>2, <2>1, <3>1 DEF CalmInv, HeardInv
  <2>4. ClaimInv'
    BY <1>2, <2>1 DEF ClaimInv
  <2> QED
    BY <2>2, <2>3, <2>4 DEF CalmInv
<1> QED
  BY <1>3, <1>4, <1>5, <1>6 DEF SocketInv

LEMMA BeginStep ==
  ASSUME SocketInv, failed = "no", NEW w \in Services, NEW op \in {"O", "L"}, ReserveBegin(w, op)
  PROVE  SocketInv'
<1> DEFINE v == [pc |-> "try", i |-> 0, id |-> 0, op |-> op]
<1>1. v \in Reservations /\ v.pc # "store" /\ Opens(v)
  BY SocketAssumption DEF Reservations, Opens
<1>2. /\ rsv[w].pc = "idle" /\ rsv' = [rsv EXCEPT ![w] = v] /\ alloc_id' = alloc_id
      /\ UNCHANGED <<slot, pipe, pc, checkctrl, ev, result, failed, known, heard, raced>>
  BY DEF ReserveBegin
<1> HIDE DEF v
<1>3. alloc_id' \in 0 .. MaxId /\ alloc_id' >= alloc_id
  BY <1>2, SocketAssumption DEF SocketInv, TypeInv
<1> QED
  BY <1>1, <1>2, <1>3, TryStep

\* A service takes a free slot.
LEMMA TakenStep ==
  ASSUME SocketInv, failed = "no", NEW w \in Services, NEW id, id = alloc_id + 1, id \in Ids,
         NEW i, i = Hash(id), rsv[w].pc = "try", alloc_id' = id, slot[i].type = "INVALID",
         slot' = [slot EXCEPT ![i].type = "RESERVE"],
         rsv' = [rsv EXCEPT ![w].pc = "store", ![w].id = id],
         UNCHANGED <<pipe, pc, checkctrl, ev, result, failed, known, heard, raced>>
  PROVE  SocketInv'
<1>1. TypeInv /\ FreshInv /\ DistinctInv /\ alloc_id \in Nat /\ id \in Nat
  BY SocketAssumption DEF SocketInv, TypeInv, Ids
<1>2. i \in SlotIx /\ slot[i] \in SlotRecord /\ Sized(slot[i]) /\ id \in 0 .. MaxId
  BY <1>1, HashIx DEF TypeInv, Ids
<1> DEFINE s == slot[i]
           t == [s EXCEPT !.type = "RESERVE"]
<1>3. /\ t \in SlotRecord /\ t.type = "RESERVE" /\ t.id = s.id /\ t.high = s.high /\ t.low = s.low
      /\ t.wb_size = s.wb_size
  <2>1. "RESERVE" \in Types
    BY DEF Types
  <2> HIDE DEF s
  <2> QED
    BY <1>2, <2>1 DEF SlotRecord, s
<1>4. slot' = [slot EXCEPT ![i] = t]
  BY <1>1, <1>2 DEF TypeInv
<1> HIDE DEF t
<1>5. slot'[i] = t /\ \A j \in SlotIx : j # i => slot'[j] = slot[j]
  BY <1>1, <1>2, <1>4 DEF TypeInv
<1>6. Sized(t)
  BY <1>2, <1>3 DEF Sized
<1>7. /\ rsv' \in [Services -> Reservations] /\ rsv'[w].pc = "store" /\ rsv'[w].id = id
      /\ Opens(rsv'[w])
      /\ \A x \in Services : x # w => rsv'[x] = rsv[x]
  <2> DEFINE v == [rsv[w] EXCEPT !.pc = "store", !.id = id]
  <2>1. rsv \in [Services -> Reservations] /\ rsv[w] \in Reservations
    BY <1>1 DEF TypeInv
  <2>2. rsv' = [rsv EXCEPT ![w] = v]
    BY <2>1
  <2>3. v \in Reservations /\ v.pc = "store" /\ v.id = id /\ v.op = rsv[w].op
    BY <1>2, <2>1 DEF Reservations
  <2>4. Opens(v)
    BY <1>1, <2>3 DEF TypeInv, Opens
  <2> HIDE DEF v
  <2> QED
    BY <2>1, <2>2, <2>3, <2>4
<1>8. TypeInv'
  <2>1. slot' \in [SlotIx -> SlotRecord]
    BY <1>1, <1>2, <1>3, <1>4 DEF TypeInv
  <2>2. \A j \in SlotIx : Sized(slot'[j])
    BY <1>1, <1>5, <1>6 DEF TypeInv
  <2> QED
    BY <1>1, <1>2, <1>7, <2>1, <2>2 DEF TypeInv
<1>9. /\ \A x \in known : x \in Nat /\ x <= alloc_id
      /\ \A x \in Services : rsv[x].pc = "store" =>
           rsv[x].id \in Ids /\ rsv[x].id \notin known /\ rsv[x].id <= alloc_id /\ rsv[x].id \in Nat
  BY <1>1 DEF FreshInv, TypeInv, Ids
<1>10. FreshInv'
  <2>1. \A x \in known : x <= alloc_id'
    BY <1>1, <1>9
  <2>2. id \notin known
    BY <1>1, <1>9
  <2>3. \A x \in Services : rsv'[x].pc = "store" =>
          rsv'[x].id \in Ids /\ rsv'[x].id \notin known /\ rsv'[x].id <= alloc_id'
    BY <1>1, <1>7, <1>9, <2>2
  <2>4. \A x, y \in Services : rsv'[x].pc = "store" /\ rsv'[y].pc = "store" /\ rsv'[x].id = rsv'[y].id
                               => x = y
    <3>1. \A x \in Services : x # w /\ rsv'[x].pc = "store" => rsv'[x].id # id
      BY <1>1, <1>7, <1>9
    <3> QED
      BY <1>1, <1>7, <3>1 DEF FreshInv
  <2> QED
    BY <1>1, <2>1, <2>3, <2>4 DEF FreshInv
<1>11. DistinctInv' /\ AssertsPinned'
  BY <1>1, NoFailure DEF DistinctInv
<1>12. ASSUME ~raced' PROVE CalmInv'
  <2>1. CalmInv /\ ClaimInv
    BY <1>12 DEF SocketInv, CalmInv
  <2>2. BufInv'
    <3>1. Buffers(s)
      BY <1>2, <2>1 DEF CalmInv, BufInv
    <3>2. send_buffer_empty(t) /\ Framed(t.low) /\ ~list_uncomplete(t.low)
      BY <1>3, <3>1 DEF Buffers, Buffered, send_buffer_empty
    <3>3. Buffers(t)
      BY <1>3, <3>2 DEF Buffers, Buffered, Unused
    <3>4. \A j \in SlotIx : Buffers(slot'[j])
      BY <1>5, <2>1, <3>3 DEF CalmInv, BufInv
    <3> QED
      BY <3>4 DEF BufInv
  <2>3. ConnectInv' /\ IdInv'
    BY <1>3, <1>5, <2>1 DEF CalmInv, ConnectInv, IdInv, Unused
  <2>4. EventInv'
    <3> SUFFICES ASSUME NEW n \in DOMAIN ev, ev[n].s # NULL
                 PROVE  Hash(ev[n].id) = ev[n].s /\ EventOK(ev[n])'
      BY DEF EventInv
    <3>1. Hash(ev[n].id) = ev[n].s /\ EventOK(ev[n]) /\ ev[n].s \in SlotIx
      BY <1>1, <2>1, EventFields DEF CalmInv, EventInv
    <3>2. CASE ev[n].s = i
      BY <1>3, <1>5, <3>1, <3>2 DEF EventOK, PolledTypes
    <3>3. CASE ev[n].s # i
      BY <1>5, <3>1, <3>3 DEF EventOK
    <3> QED
      BY <3>1, <3>2, <3>3
  <2>5. HeardInv'
    <3>1. heard[id] # "gone"
      BY <1>1, <2>1 DEF CalmInv, HeardInv
    <3>2. \A x \in Ids : x > alloc_id' => heard[x] # "gone"
      <4>1. \A x \in Ids : x \in Nat
        BY DEF Ids
      <4> QED
        BY <1>1, <2>1, <4>1 DEF CalmInv, HeardInv
    <3>3. \A x \in Services : rsv'[x].pc = "store" => heard[rsv'[x].id] # "gone"
      BY <1>7, <2>1, <3>1 DEF CalmInv, HeardInv
    <3>4. \A j \in SlotIx :
            /\ slot'[j].type \in {"PLISTEN", "PACCEPT", "CONNECTING"} => heard[slot'[j].id] # "gone"
            /\ slot'[j].type = "CONNECTED" => heard[slot'[j].id] = slot'[j].opaque
      BY <1>3, <1>5, <2>1 DEF CalmInv, HeardInv
    <3> QED
      BY <2>1, <3>2, <3>3, <3>4 DEF CalmInv, HeardInv
  <2>6. ClaimInv'
    <3>0. /\ \A x \in Services : rsv[x].pc = "store" => Hash(rsv[x].id) \in SlotIx /\ Hash(rsv[x].id) # i
          /\ \A n \in DOMAIN pipe : Opens(pipe[n]) => Hash(pipe[n].id) \in SlotIx /\ Hash(pipe[n].id) # i
      <4>1. \A x \in Services : rsv[x].pc = "store" => Hash(rsv[x].id) \in SlotIx
        BY <1>9, HashIx
      <4>2. \A n \in DOMAIN pipe : Hash(pipe[n].id) \in SlotIx
        BY <1>1, <1>9, HashIx DEF FreshInv
      <4> QED
        BY <2>1, <4>1, <4>2 DEF ClaimInv
    <3>1. \A x \in Services : rsv'[x].pc = "store" => slot'[Hash(rsv'[x].id)].type = "RESERVE"
      BY <1>3, <1>5, <1>7, <2>1, <3>0 DEF ClaimInv
    <3>2. \A n \in DOMAIN pipe : Opens(pipe[n]) => slot'[Hash(pipe[n].id)].type = "RESERVE"
      BY <1>5, <2>1, <3>0 DEF ClaimInv
    <3>3. \A x, y \in Services : rsv'[x].pc = "store" /\ rsv'[y].pc = "store"
                                 /\ Hash(rsv'[x].id) = Hash(rsv'[y].id) => x = y
      BY <1>7, <2>1, <3>0 DEF ClaimInv
    <3>4. \A x \in Services, n \in DOMAIN pipe :
            rsv'[x].pc = "store" /\ Opens(pipe[n]) => Hash(rsv'[x].id) # Hash(pipe[n].id)
      BY <1>7, <2>1, <3>0 DEF ClaimInv
    <3>5. ASSUME NEW j \in SlotIx, slot'[j].type = "RESERVE"
          PROVE  \/ \E x \in Services : rsv'[x].pc = "store" /\ Hash(rsv'[x].id) = j
                 \/ \E n \in DOMAIN pipe : Opens(pipe[n]) /\ Hash(pipe[n].id) = j
      <4>1. CASE j = i
        BY <1>7, <4>1
      <4>2. CASE j # i
        <5>1. \/ \E x \in Services : rsv[x].pc = "store" /\ Hash(rsv[x].id) = j
              \/ \E n \in DOMAIN pipe : Opens(pipe[n]) /\ Hash(pipe[n].id) = j
          BY <1>5, <2>1, <3>5, <4>2 DEF ClaimInv
        <5> QED
          BY <1>7, <5>1
      <4> QED
        BY <4>1, <4>2
    <3>6. /\ pipe' = pipe
          /\ \A m, n \in DOMAIN pipe :
               Opens(pipe[m]) /\ Opens(pipe[n]) /\ Hash(pipe[m].id) = Hash(pipe[n].id) => m = n
      BY <2>1 DEF ClaimInv
    <3>7. /\ \A n \in DOMAIN pipe' : Opens(pipe'[n]) => slot'[Hash(pipe'[n].id)].type = "RESERVE"
          /\ \A m, n \in DOMAIN pipe' :
               Opens(pipe'[m]) /\ Opens(pipe'[n]) /\ Hash(pipe'[m].id) = Hash(pipe'[n].id) => m = n
      BY <3>2, <3>6
    <3>8. \A x \in Services, n \in DOMAIN pipe' :
            rsv'[x].pc = "store" /\ Opens(pipe'[n]) => Hash(rsv'[x].id) # Hash(pipe'[n].id)
      BY <3>4, <3>6
    <3>9. \A j \in SlotIx : slot'[j].type = "RESERVE" =>
            \/ \E x \in Services : rsv'[x].pc = "store" /\ Hash(rsv'[x].id) = j
            \/ \E n \in DOMAIN pipe' : Opens(pipe'[n]) /\ Hash(pipe'[n].id) = j
      BY <3>5, <3>6
    <3> QED
      BY <3>1, <3>3, <3>7, <3>8, <3>9 DEF ClaimInv
  <2> QED
    BY <2>2, <2>3, <2>4, <2>5, <2>6 DEF CalmInv
<1> QED
  BY <1>8, <1>10, <1>11, <1>12 DEF SocketInv

LEMMA ReserveIdStep ==
  ASSUME SocketInv, failed = "no", NEW w \in Services, reserve_id(w)
  PROVE  SocketInv'
<1> DEFINE id == alloc_id + 1
           i == Hash(id)
<1>1. /\ rsv[w].pc = "try" /\ id \in Ids /\ alloc_id' = id
      /\ UNCHANGED <<pipe, pc, checkctrl, ev, result, failed, known, heard, raced>>
  BY DEF reserve_id
<1>2. TypeInv /\ rsv \in [Services -> Reservations] /\ rsv[w] \in Reservations
  BY DEF SocketInv, TypeInv
<1>3. CASE /\ slot[i].type = "INVALID" /\ slot' = [slot EXCEPT ![i].type = "RESERVE"]
           /\ rsv' = [rsv EXCEPT ![w].pc = "store", ![w].id = id]
  BY <1>1, <1>3, TakenStep
<1>4. CASE /\ rsv' = [rsv EXCEPT ![w] = IF rsv[w].i + 1 < MAX_SOCKET THEN [rsv[w] EXCEPT !.i = @ + 1] ELSE Idle]
           /\ slot' = slot
  <2> DEFINE u == rsv[w]
             v == IF u.i + 1 < MAX_SOCKET THEN [u EXCEPT !.i = u.i + 1] ELSE Idle
  <2>1. rsv' = [rsv EXCEPT ![w] = v]
    BY <1>4
  <2>2. Idle \in Reservations /\ Idle.pc = "idle"
    BY SocketAssumption DEF Idle, Reservations
  <2>3. u \in Reservations /\ u.pc = "try" /\ Opens(u)
    BY <1>1, <1>2 DEF TypeInv
  <2> HIDE DEF u
  <2>4. v \in Reservations /\ v.pc # "store" /\ (v.pc # "idle" => Opens(v))
    <3>1. u.i + 1 \in Nat
      BY <2>3 DEF Reservations
    <3>2. /\ [u EXCEPT !.i = u.i + 1] \in Reservations /\ [u EXCEPT !.i = u.i + 1].pc = "try"
          /\ Opens([u EXCEPT !.i = u.i + 1])
      BY <2>3, <3>1 DEF Reservations, Opens
    <3> QED
      BY <2>2, <3>2
  <2> HIDE DEF v
  <2>5. alloc_id' \in 0 .. MaxId /\ alloc_id' >= alloc_id
    BY <1>1, <1>2 DEF Ids, TypeInv
  <2> QED
    BY <1>1, <1>4, <2>1, <2>4, <2>5, TryStep
<1> QED
  BY <1>3, <1>4 DEF reserve_id

\* The id is stored and the command is written to the pipe.
LEMMA StoreStep ==
  ASSUME SocketInv, failed = "no", NEW w \in Services, ReserveStore(w)
  PROVE  SocketInv'
<1> DEFINE id == rsv[w].id
           i == Hash(id)
           r == [op |-> rsv[w].op, id |-> id, opaque |-> w, shutdown |-> FALSE, p |-> 0]
<1>1. /\ rsv[w].pc = "store" /\ slot' = [slot EXCEPT ![i].id = id] /\ Request(r)
      /\ known' = known \cup {id} /\ rsv' = [rsv EXCEPT ![w] = Idle]
      /\ UNCHANGED <<alloc_id, pc, checkctrl, ev, result, failed, heard, raced>>
  BY DEF ReserveStore
<1>2. /\ TypeInv /\ FreshInv /\ DistinctInv /\ id \in Ids /\ id \notin known /\ id <= alloc_id
      /\ alloc_id \in Nat
  BY <1>1, SocketAssumption DEF SocketInv, FreshInv, TypeInv
<1>3. id \in Nat /\ id \in 0 .. MaxId
  BY <1>2 DEF Ids
<1>4. i \in SlotIx /\ slot[i] \in SlotRecord /\ Sized(slot[i])
  BY <1>2, <1>3, HashIx DEF TypeInv
<1>5. r \in Requests /\ r.id = id /\ Opens(r) /\ r.op \notin {"D", "P"}
  <2>1. rsv[w].op \in {"O", "L"}
    BY <1>1, <1>2 DEF TypeInv, Opens
  <2> QED
    BY <1>2, <2>1 DEF Requests, Opens
<1> DEFINE s == slot[i]
           t == [s EXCEPT !.id = id]
<1>6. slot' = [slot EXCEPT ![i] = t]
  BY <1>1, <1>2, <1>4 DEF TypeInv
<1> HIDE DEF id
<1>7. /\ t \in SlotRecord /\ t.type = s.type /\ t.id = id /\ t.high = s.high /\ t.low = s.low
      /\ t.wb_size = s.wb_size /\ t.out = s.out
  <2> HIDE DEF s
  <2> QED
    BY <1>3, <1>4 DEF SlotRecord, s
<1> HIDE DEF t
<1>8. slot'[i] = t /\ \A j \in SlotIx : j # i => slot'[j] = slot[j]
  BY <1>2, <1>4, <1>6 DEF TypeInv
<1>9. Sized(t)
  BY <1>4, <1>7 DEF Sized
<1> HIDE DEF r
<1>10. pipe' = Append(pipe, r) /\ pipe' \in Seq(Requests)
  BY <1>1, <1>2, <1>5, AppendSeq DEF Request, TypeInv
<1>11. PICK d \in Nat : /\ DOMAIN pipe = 1 .. d /\ DOMAIN pipe' = 1 .. d + 1 /\ pipe'[d + 1] = r
                        /\ \A n \in 1 .. d : pipe'[n] = pipe[n]
  BY <1>2, <1>5, <1>10, AppendSeq DEF TypeInv
<1>12. /\ \A n \in DOMAIN pipe' : n = d + 1 \/ (n \in DOMAIN pipe /\ pipe'[n] = pipe[n])
       /\ \A n \in DOMAIN pipe : n \in DOMAIN pipe' /\ pipe'[n] = pipe[n] /\ n < d + 1
       /\ d + 1 \in DOMAIN pipe'
  BY <1>11
<1>13. /\ rsv' \in [Services -> Reservations] /\ rsv'[w].pc # "store" /\ rsv'[w].pc = "idle"
       /\ \A x \in Services : x # w => rsv'[x] = rsv[x]
  <2>1. Idle \in Reservations /\ Idle.pc = "idle"
    BY SocketAssumption DEF Idle, Reservations
  <2> QED
    BY <1>1, <1>2, <2>1 DEF TypeInv
<1>14. TypeInv'
  <2>1. slot' \in [SlotIx -> SlotRecord]
    BY <1>2, <1>4, <1>6, <1>7 DEF TypeInv
  <2>2. \A j \in SlotIx : Sized(slot'[j])
    BY <1>2, <1>8, <1>9 DEF TypeInv
  <2>3. \A n \in DOMAIN pipe' : pipe'[n].op \in {"D", "P"} => pipe'[n].p \in Packets
    BY <1>2, <1>5, <1>11, <1>12 DEF TypeInv
  <2>4. known' \subseteq Ids
    BY <1>1, <1>2 DEF TypeInv
  <2> QED
    BY <1>1, <1>2, <1>10, <1>13, <2>1, <2>2, <2>3, <2>4 DEF TypeInv
<1>15. FreshInv'
  <2>1. \A x \in known' : x <= alloc_id'
    BY <1>1, <1>2 DEF FreshInv
  <2>2. \A n \in DOMAIN pipe' : pipe'[n].id \in known'
    BY <1>1, <1>2, <1>5, <1>11, <1>12 DEF FreshInv
  <2>3. \A m, n \in DOMAIN pipe' : Opens(pipe'[n]) /\ m < n => pipe'[m].id # pipe'[n].id
    <3> SUFFICES ASSUME NEW m \in DOMAIN pipe', NEW n \in DOMAIN pipe', Opens(pipe'[n]), m < n
                 PROVE  pipe'[m].id # pipe'[n].id
      OBVIOUS
    <3>1. m \in DOMAIN pipe /\ pipe'[m] = pipe[m]
      BY <1>11
    <3>2. CASE n = d + 1
      <4>1. pipe[m].id \in known
        BY <1>2, <3>1 DEF FreshInv
      <4> QED
        BY <1>2, <1>5, <1>11, <3>1, <3>2, <4>1
    <3>3. CASE n # d + 1
      <4>1. n \in DOMAIN pipe /\ pipe'[n] = pipe[n]
        BY <1>12, <3>3
      <4> QED
        BY <1>2, <3>1, <4>1 DEF FreshInv
    <3> QED
      BY <3>2, <3>3
  <2>4. \A x \in Services : rsv'[x].pc = "store" =>
          rsv'[x].id \in Ids /\ rsv'[x].id \notin known' /\ rsv'[x].id <= alloc_id'
    <3>1. \A x \in Services : rsv[x].pc = "store" /\ x # w => rsv[x].id # id
      BY <1>1, <1>2 DEF FreshInv, id
    <3> QED
      BY <1>1, <1>2, <1>13, <3>1 DEF FreshInv
  <2>5. \A x, y \in Services : rsv'[x].pc = "store" /\ rsv'[y].pc = "store" /\ rsv'[x].id = rsv'[y].id
                               => x = y
    BY <1>2, <1>13 DEF FreshInv
  <2> QED
    BY <2>1, <2>2, <2>3, <2>4, <2>5 DEF FreshInv
<1>16. DistinctInv' /\ AssertsPinned'
  BY <1>1, <1>2, NoFailure DEF DistinctInv
<1>17. ASSUME ~raced' PROVE CalmInv'
  <2>1. CalmInv /\ ClaimInv
    BY <1>1, <1>17 DEF SocketInv, CalmInv
  <2>0. s.type = "RESERVE"
    BY <1>1, <2>1 DEF ClaimInv, id
  <2>2. BufInv'
    <3>1. Buffers(s)
      BY <1>4, <2>1 DEF CalmInv, BufInv
    <3>2. send_buffer_empty(t) /\ Framed(t.low) /\ ~list_uncomplete(t.low)
      BY <1>7, <2>0, <3>1 DEF Buffers, Buffered, send_buffer_empty
    <3>3. Buffers(t)
      BY <1>7, <2>0, <3>2 DEF Buffers, Buffered, Unused
    <3>4. \A j \in SlotIx : Buffers(slot'[j])
      BY <1>8, <2>1, <3>3 DEF CalmInv, BufInv
    <3> QED
      BY <3>4 DEF BufInv
  <2>3. ConnectInv' /\ IdInv'
    BY <1>1, <1>7, <1>8, <2>0, <2>1 DEF CalmInv, ConnectInv, IdInv, Unused
  <2>4. EventInv'
    <3> SUFFICES ASSUME NEW n \in DOMAIN ev, ev[n].s # NULL
                 PROVE  Hash(ev[n].id) = ev[n].s /\ EventOK(ev[n])'
      BY <1>1 DEF EventInv
    <3>1. Hash(ev[n].id) = ev[n].s /\ EventOK(ev[n]) /\ ev[n].s \in SlotIx
      BY <1>2, <2>1, EventFields DEF CalmInv, EventInv
    <3>2. CASE ev[n].s = i
      BY <1>1, <1>7, <1>8, <2>0, <3>1, <3>2 DEF EventOK, PolledTypes
    <3>3. CASE ev[n].s # i
      BY <1>1, <1>8, <3>1, <3>3 DEF EventOK
    <3> QED
      BY <3>1, <3>2, <3>3
  <2>5. HeardInv'
    <3>1. heard[id] # "gone"
      BY <1>1, <2>1 DEF CalmInv, HeardInv, id
    <3>2. \A n \in DOMAIN pipe' : Opens(pipe'[n]) => heard[pipe'[n].id] # "gone"
      BY <1>5, <1>11, <1>12, <2>1, <3>1 DEF CalmInv, HeardInv
    <3>3. \A x \in Services : rsv'[x].pc = "store" => heard[rsv'[x].id] # "gone"
      BY <1>13, <2>1 DEF CalmInv, HeardInv
    <3>4. \A j \in SlotIx :
            /\ slot'[j].type \in {"PLISTEN", "PACCEPT", "CONNECTING"} => heard[slot'[j].id] # "gone"
            /\ slot'[j].type = "CONNECTED" => heard[slot'[j].id] = slot'[j].opaque
      BY <1>7, <1>8, <2>0, <2>1 DEF CalmInv, HeardInv
    <3> QED
      BY <1>1, <2>1, <3>2, <3>3, <3>4 DEF CalmInv, HeardInv
  <2>6. ClaimInv'
    <3>1. \A j \in SlotIx : slot'[j].type = slot[j].type
      BY <1>7, <1>8
    <3>2. ASSUME NEW x \in Services, rsv[x].pc = "store", x # w
          PROVE  Hash(rsv[x].id) \in SlotIx /\ Hash(rsv[x].id) # i
      <4>1. rsv[x].id \in Nat
        BY <1>2, <3>2 DEF FreshInv, Ids
      <4>2. Hash(rsv[x].id) # i
        BY <1>1, <2>1, <3>2 DEF ClaimInv, id
      <4> QED
        BY <4>1, <4>2, HashIx
    <3>3. ASSUME NEW n \in DOMAIN pipe, Opens(pipe[n])
          PROVE  Hash(pipe[n].id) \in SlotIx /\ Hash(pipe[n].id) # i
      <4>0. pipe[n].id \in Ids
        BY <1>2, <3>3 DEF FreshInv, TypeInv
      <4>1. pipe[n].id \in Nat
        BY <4>0 DEF Ids
      <4>2. Hash(pipe[n].id) # i
        BY <1>1, <2>1, <3>3 DEF ClaimInv, id
      <4> QED
        BY <4>1, <4>2, HashIx
    <3>4. \A x \in Services : rsv'[x].pc = "store" => slot'[Hash(rsv'[x].id)].type = "RESERVE"
      BY <1>13, <2>1, <3>1, <3>2 DEF ClaimInv
    <3>5. \A n \in DOMAIN pipe' : Opens(pipe'[n]) => slot'[Hash(pipe'[n].id)].type = "RESERVE"
      <4> SUFFICES ASSUME NEW n \in DOMAIN pipe', Opens(pipe'[n])
                   PROVE  slot'[Hash(pipe'[n].id)].type = "RESERVE"
        OBVIOUS
      <4>1. CASE n = d + 1
        BY <1>4, <1>5, <1>11, <2>0, <3>1, <4>1
      <4>2. CASE n # d + 1
        <5>1. n \in DOMAIN pipe /\ pipe'[n] = pipe[n]
          BY <1>12, <4>2
        <5> QED
          BY <2>1, <3>1, <3>3, <5>1 DEF ClaimInv
      <4> QED
        BY <4>1, <4>2
    <3>6. \A x, y \in Services : rsv'[x].pc = "store" /\ rsv'[y].pc = "store"
                                 /\ Hash(rsv'[x].id) = Hash(rsv'[y].id) => x = y
      BY <1>13, <2>1 DEF ClaimInv
    <3>7. \A m, n \in DOMAIN pipe' :
            Opens(pipe'[m]) /\ Opens(pipe'[n]) /\ Hash(pipe'[m].id) = Hash(pipe'[n].id) => m = n
      <4> SUFFICES ASSUME NEW m \in DOMAIN pipe', NEW n \in DOMAIN pipe', Opens(pipe'[m]),
                          Opens(pipe'[n]), Hash(pipe'[m].id) = Hash(pipe'[n].id)
                   PROVE  m = n
        OBVIOUS
      <4>1. CASE m = d + 1
        BY <1>5, <1>11, <1>12, <3>3, <4>1
      <4>2. CASE n = d + 1
        BY <1>5, <1>11, <1>12, <3>3, <4>2
      <4>3. CASE m # d + 1 /\ n # d + 1
        BY <1>12, <2>1, <4>3 DEF ClaimInv
      <4> QED
        BY <4>1, <4>2, <4>3
    <3>8. ASSUME NEW x \in Services, NEW n \in DOMAIN pipe', rsv'[x].pc = "store", Opens(pipe'[n])
          PROVE  Hash(rsv'[x].id) # Hash(pipe'[n].id)
      <4>0. x # w /\ rsv'[x] = rsv[x]
        BY <1>13, <3>8
      <4>1. CASE n = d + 1
        BY <1>5, <1>11, <3>2, <3>8, <4>0, <4>1
      <4>2. CASE n # d + 1
        BY <1>12, <2>1, <3>8, <4>0, <4>2 DEF ClaimInv
      <4> QED
        BY <4>1, <4>2
    <3>9. ASSUME NEW j \in SlotIx, slot'[j].type = "RESERVE"
          PROVE  \/ \E x \in Services : rsv'[x].pc = "store" /\ Hash(rsv'[x].id) = j
                 \/ \E n \in DOMAIN pipe' : Opens(pipe'[n]) /\ Hash(pipe'[n].id) = j
      <4>1. CASE j = i
        BY <1>5, <1>11, <1>12, <4>1
      <4>2. CASE j # i
        <5>1. \/ \E x \in Services : rsv[x].pc = "store" /\ Hash(rsv[x].id) = j
              \/ \E n \in DOMAIN pipe : Opens(pipe[n]) /\ Hash(pipe[n].id) = j
          BY <2>1, <3>1, <3>9 DEF ClaimInv
        <5>2. ASSUME NEW x \in Services, rsv[x].pc = "store", Hash(rsv[x].id) = j
              PROVE  rsv'[x].pc = "store" /\ Hash(rsv'[x].id) = j
          <6>1. x # w
            BY <4>2, <5>2 DEF id
          <6> QED
            BY <1>13, <5>2, <6>1
        <5> QED
          BY <1>12, <5>1, <5>2
      <4> QED
        BY <4>1, <4>2
    <3> QED
      BY <3>4, <3>5, <3>6, <3>7, <3>8, <3>9 DEF ClaimInv
  <2> QED
    BY <1>1, <2>2, <2>3, <2>4, <2>5, <2>6 DEF CalmInv
<1> QED
  BY <1>14, <1>15, <1>16, <1>17 DEF SocketInv

-----------------------------------------------------------------------------
(* The invariant and what it implies.                                      *)

LEMMA InitSocket ==
  Init => SocketInv
<1> SUFFICES ASSUME Init PROVE SocketInv
  OBVIOUS
<1>1. /\ FreeSlot \in SlotRecord /\ FreeSlot.high = <<>> /\ FreeSlot.low = <<>>
      /\ FreeSlot.wb_size = 0 /\ FreeSlot.type = "INVALID"
  BY FreeFields
<1>2. Sized(FreeSlot) /\ Buffers(FreeSlot)
  BY <1>1, EmptyList DEF Sized, Buffers, Buffered, Unused, send_buffer_empty
<1>3. slot = [i \in SlotIx |-> FreeSlot] /\ \A i \in SlotIx : slot[i] = FreeSlot
  BY DEF Init
<1>4. Idle \in Reservations /\ Idle.pc = "idle"
  BY SocketAssumption DEF Idle, Reservations
<1>5. rsv \in [Services -> Reservations] /\ \A w \in Services : rsv[w].pc = "idle"
  BY <1>4 DEF Init
<1>6. pipe = <<>> /\ ev = <<>> /\ pipe \in Seq(Requests) /\ ev \in Seq(Events)
      /\ DOMAIN pipe = {} /\ DOMAIN ev = {}
  BY DEF Init
<1>7. TypeInv
  <2>1. alloc_id \in 0 .. MaxId /\ result \in Results
    BY SocketAssumption, QuietResult DEF Init
  <2>2. pc = "top" /\ checkctrl = TRUE /\ known = {} /\ raced = FALSE
        /\ heard \in [Ids -> Services \cup {"none", "gone"}]
    BY DEF Init
  <2> HIDE DEF Requests, Events
  <2> QED
    BY <1>1, <1>2, <1>3, <1>5, <1>6, <2>1, <2>2 DEF TypeInv
<1>8. FreshInv /\ DistinctInv /\ AssertsPinned
  BY <1>5, <1>6 DEF FreshInv, DistinctInv, AssertsPinned, Init
<1>9. BufInv /\ ConnectInv /\ IdInv /\ EventInv
  BY <1>1, <1>2, <1>3, <1>6 DEF BufInv, ConnectInv, IdInv, EventInv, Unused
<1>10. HeardInv /\ ClaimInv
  BY <1>1, <1>3, <1>5, <1>6 DEF HeardInv, ClaimInv, Init
<1> QED
  BY <1>7, <1>8, <1>9, <1>10 DEF SocketInv, CalmInv

\* Only open_socket leaves its clean-up to be done, for an id of its own.
LEMMA OpenFails ==
  ASSUME SocketInv, open_socket
  PROVE  FailInv'
<1> SUFFICES ASSUME pc' = "failing" PROVE FailInv'
  BY DEF FailInv
<1> DEFINE r == Head(pipe)
           i == Hash(r.id)
<1>1. pc = "top" /\ pipe # <<>> /\ pipe' = Tail(pipe) /\ r.op = "O" /\ known' = known
  BY DEF open_socket, Command
<1>2. TypeInv /\ FreshInv /\ slot \in [SlotIx -> SlotRecord] /\ pipe \in Seq(Requests)
  BY DEF SocketInv, TypeInv
<1>3. /\ r = pipe[1] /\ 1 \in DOMAIN pipe /\ r.id \in known /\ r.opaque \in Services /\ i \in SlotIx
      /\ slot[i] \in SlotRecord
  BY <1>1, <1>2, HeadCommand
<1>4. AddFails(r)
  BY <1>1, Zenon DEF open_socket, Return, Fail
<1>5. /\ slot' = [slot EXCEPT ![i].type = "INVALID"]
      /\ result' = [type |-> "none", id |-> r.id, opaque |-> r.opaque]
  BY <1>4 DEF AddFails
<1>6. slot'[i].type = "INVALID"
  BY <1>2, <1>3, <1>5 DEF SlotRecord
<1>7. result'.id = r.id /\ result'.opaque = r.opaque
  BY <1>5
<1>8. \A n \in DOMAIN pipe' : Opens(pipe'[n]) => pipe'[n].id # r.id
  <2>1. \A n \in DOMAIN pipe' : n + 1 \in DOMAIN pipe /\ 1 < n + 1 /\ pipe'[n] = pipe[n + 1]
    BY <1>1, <1>2, TailSeq
  <2> HIDE DEF r
  <2> QED
    BY <1>2, <1>3, <2>1 DEF FreshInv
<1> HIDE DEF r
<1> QED
  BY <1>1, <1>3, <1>6, <1>7, <1>8 DEF FailInv, Unused

LEMMA NextFail ==
  SocketInv /\ FailInv /\ [Next]_vars => FailInv'
<1> SUFFICES ASSUME SocketInv, FailInv, [Next]_vars PROVE FailInv'
  OBVIOUS
<1>1. CASE UNCHANGED vars
  BY <1>1 DEF vars, FailInv
<1>2. CASE open_socket
  BY <1>2, OpenFails
<1>3. CASE Poll /\ ~open_socket
  <2>1. pc' # "failing"
    <3>1. CASE open_failed
      BY <3>1 DEF open_failed, Return
    <3>2. CASE listen_socket \/ start_socket \/ close_socket \/ send_socket
      BY <3>2, Zenon DEF listen_socket, start_socket, close_socket, send_socket, Command, Return, Fail, Warn
    <3>3. CASE clear_closed_event \/ sp_wait
      BY <3>3, Zenon DEF clear_closed_event, sp_wait, Wait
    <3>4. CASE SkipEvent \/ report_connect \/ report_accept \/ forward_message_tcp \/ Flush
      BY <3>4, Zenon DEF SkipEvent, report_connect, report_accept, forward_message_tcp, Flush, EventOf, Event
    <3> QED
      BY <1>3, <3>1, <3>2, <3>3, <3>4 DEF Poll
  <2> QED
    BY <2>1 DEF FailInv
<1>4. ASSUME NEW w \in Services, Service(w), pc' = "failing" PROVE FailInv'
  <2>1. pc' = pc /\ result' = result
    BY <1>4, Zenon DEF Service, ReserveBegin, reserve_id, ReserveStore, Ask, SendRequest
  <2>2. /\ pc = "failing" /\ result.id \in known /\ result.opaque \in Services
        /\ \A n \in DOMAIN pipe : Opens(pipe[n]) => pipe[n].id # result.id
        /\ slot[Hash(result.id)].type \in Unused
    BY <1>4, <2>1 DEF FailInv
  <2>3. TypeInv /\ FreshInv /\ slot \in [SlotIx -> SlotRecord] /\ pipe \in Seq(Requests)
    BY DEF SocketInv, TypeInv
  <2>4. result.id \in Ids /\ Hash(result.id) \in SlotIx
    <3>1. result.id \in Ids
      BY <2>2, <2>3 DEF TypeInv
    <3>2. result.id \in Nat
      BY <3>1 DEF Ids
    <3> QED
      BY <3>1, <3>2, HashIx
  <2>5. known \subseteq known'
    BY <1>4, Zenon DEF Service, ReserveBegin, reserve_id, ReserveStore, Ask, SendRequest
  <2>6. slot'[Hash(result.id)].type \in Unused
    <3>1. CASE slot' = slot
      BY <2>2, <3>1
    <3>2. CASE \E j : slot' = [slot EXCEPT ![j].type = "RESERVE"]
      BY <2>2, <2>3, <2>4, <3>2 DEF SlotRecord, Unused
    <3>3. CASE \E j, id : slot' = [slot EXCEPT ![j].id = id]
      BY <2>2, <2>3, <2>4, <3>3 DEF SlotRecord, Unused
    <3>4. CASE reserve_id(w)
      BY <3>1, <3>2, <3>4, Zenon DEF reserve_id
    <3>5. CASE ReserveStore(w)
      BY <3>3, <3>5, Zenon DEF ReserveStore
    <3> QED
      BY <1>4, <3>1, <3>4, <3>5, Zenon DEF Service, ReserveBegin, Ask, SendRequest
  <2>7. ASSUME NEW r, pipe' = Append(pipe, r), Opens(r) => r.id # result.id
        PROVE  \A n \in DOMAIN pipe' : Opens(pipe'[n]) => pipe'[n].id # result.id
    BY <2>2, <2>3, <2>7
  <2>8. \A n \in DOMAIN pipe' : Opens(pipe'[n]) => pipe'[n].id # result.id
    <3>1. CASE pipe' = pipe
      BY <2>2, <3>1
    <3>2. CASE ReserveStore(w)
      <4>1. rsv[w].id # result.id
        BY <2>2, <2>3, <3>2 DEF ReserveStore, FreshInv
      <4> QED
        BY <2>7, <3>2, <4>1 DEF ReserveStore, Request
    <3>3. CASE \E id \in Ids, op \in {"S", "K"}, shutdown \in BOOLEAN : Ask(w, id, op, shutdown)
      BY <2>7, <3>3 DEF Ask, Request, Opens
    <3>4. CASE \E id \in Ids, low \in BOOLEAN : SendRequest(w, id, low)
      BY <2>7, <3>4 DEF SendRequest, Request, Opens
    <3>5. CASE \E op \in {"O", "L"} : ReserveBegin(w, op)
      BY <3>1, <3>5 DEF ReserveBegin
    <3>6. CASE reserve_id(w)
      BY <3>1, <3>6, Zenon DEF reserve_id
    <3> QED
      BY <1>4, <3>2, <3>3, <3>4, <3>5, <3>6 DEF Service
  <2> QED
    BY <2>1, <2>2, <2>5, <2>6, <2>8 DEF FailInv
<1> QED
  BY <1>1, <1>2, <1>3, <1>4 DEF Next, FailInv

LEMMA NextSocket ==
  SocketInv /\ FailInv /\ [Next]_vars => SocketInv'
<1> SUFFICES ASSUME SocketInv, FailInv, [Next]_vars PROVE SocketInv'
  OBVIOUS
<1>1. CASE UNCHANGED vars
  BY <1>1 DEF vars, SocketInv, TypeInv, FreshInv, DistinctInv, AssertsPinned, CalmInv, BufInv,
              ConnectInv, IdInv, EventInv, EventOK, HeardInv, ClaimInv
<1>2. CASE Next
  <2>1. failed = "no"
    BY <1>2 DEF Next
  <2>2. CASE Poll
    BY <2>1, <2>2, OpenStep, OpenFailedStep, ListenStep, StartStep, CloseStep, SendStep, ClearStep, WaitStep,
       SkipStep, ConnectStep, AcceptStep, ReadStep, FlushStep DEF Poll
  <2>3. ASSUME NEW w \in Services, Service(w) PROVE SocketInv'
    <3>1. CASE \E op \in {"O", "L"} : ReserveBegin(w, op)
      BY <2>1, <3>1, BeginStep
    <3>2. CASE reserve_id(w)
      BY <2>1, <3>2, ReserveIdStep
    <3>3. CASE ReserveStore(w)
      BY <2>1, <3>3, StoreStep
    <3>4. CASE \E id \in Ids : Ask(w, id, "S", FALSE)
      BY <2>1, <3>4, AskStep
    <3>5. CASE \E id \in Ids : \E shutdown \in BOOLEAN : Ask(w, id, "K", shutdown)
      BY <2>1, <3>5, AskStep
    <3>6. CASE \E id \in Ids : \E low \in BOOLEAN : SendRequest(w, id, low)
      BY <2>1, <3>6, SendRequestStep
    <3> QED
      BY <2>3, <3>1, <3>2, <3>3, <3>4, <3>5, <3>6 DEF Service
  <2> QED
    BY <1>2, <2>2, <2>3 DEF Next
<1> QED
  BY <1>1, <1>2

LEMMA InvariantSocket ==
  Spec => []SocketInv
<1>1. Init => FailInv
  BY DEF Init, FailInv
<1> QED
  BY <1>1, InitSocket, NextSocket, NextFail, PTL DEF Spec

\* The types that the model states are part of the invariant.
LEMMA TypesSound ==
  ASSUME SocketInv
  PROVE  SocketTypeOK
<1>1. TypeInv
  BY DEF SocketInv
<1>2. \A w \in Services : rsv[w].pc \in {"idle", "try", "store"} /\ rsv[w].id \in 0 .. MaxId
  <2> SUFFICES ASSUME NEW w \in Services
               PROVE  rsv[w].pc \in {"idle", "try", "store"} /\ rsv[w].id \in 0 .. MaxId
    OBVIOUS
  <2>1. rsv[w] \in Reservations
    BY <1>1 DEF TypeInv
  <2> QED
    BY <2>1 DEF Reservations
<1>3. \A n \in DOMAIN pipe : pipe[n].id \in Ids /\ pipe[n].opaque \in Services
  <2> SUFFICES ASSUME NEW n \in DOMAIN pipe
               PROVE  pipe[n].id \in Ids /\ pipe[n].opaque \in Services
    OBVIOUS
  <2>1. pipe[n] \in Requests
    BY <1>1 DEF TypeInv
  <2> QED
    BY <2>1 DEF Requests
<1>4. \A n \in DOMAIN ev : ev[n].s \in SlotIx \cup {NULL}
  BY <1>1, EventFields
<1> QED
  BY <1>1, <1>2, <1>3, <1>4 DEF SocketTypeOK, TypeInv

\* A reserved slot has one claim, any other slot none.
LEMMA OneClaim ==
  ASSUME ClaimInv, NEW i \in SlotIx
  PROVE  IF slot[i].type = "RESERVE" THEN Cardinality(Claims(i)) = 1 ELSE Claims(i) = {}
<1> DEFINE W == {w \in Services : rsv[w].pc = "store" /\ Hash(rsv[w].id) = i}
           P == {n \in DOMAIN pipe : Opens(pipe[n]) /\ Hash(pipe[n].id) = i}
<1>1. Claims(i) = W \cup P
  BY DEF Claims, Opens
<1>2. CASE slot[i].type # "RESERVE"
  <2>1. W = {} /\ P = {}
    BY <1>2 DEF ClaimInv
  <2> QED
    BY <1>1, <1>2, <2>1
<1>3. CASE slot[i].type = "RESERVE"
  <2>1. \E x : W \cup P = {x}
    <3>1. ASSUME NEW w \in W PROVE W \cup P = {w}
      <4>1. W = {w}
        BY <3>1 DEF ClaimInv
      <4>2. P = {}
        BY <3>1 DEF ClaimInv
      <4> QED
        BY <4>1, <4>2
    <3>2. ASSUME NEW n \in P PROVE W \cup P = {n}
      <4>1. P = {n}
        BY <3>2 DEF ClaimInv
      <4>2. W = {}
        BY <3>2 DEF ClaimInv
      <4> QED
        BY <4>1, <4>2
    <3>3. W # {} \/ P # {}
      BY <1>3 DEF ClaimInv
    <3> HIDE DEF W, P
    <3> QED
      BY <3>1, <3>2, <3>3
  <2> HIDE DEF W, P
  <2>2. Cardinality(W \cup P) = 1
    BY <2>1, FS_Singleton
  <2> QED
    BY <1>1, <1>3, <2>2
<1> QED
  BY <1>2, <1>3

LEMMA SlotsImplied ==
  SocketInv => SlotsSound
<1> SUFFICES ASSUME SocketInv PROVE SlotsSound
  OBVIOUS
<1>1. SocketTypeOK
  BY TypesSound
<1>2. ASSUME ~raced, NEW i \in SlotIx
      PROVE  LET s == slot[i] IN
             /\ failed = "no" =>
                   IF s.type = "RESERVE" THEN Cardinality(Claims(i)) = 1 ELSE Claims(i) = {}
             /\ IF s.type \in {"INVALID", "RESERVE"} THEN send_buffer_empty(s)
                ELSE s.wb_size = Len(s.high) + Len(s.low)
             /\ /\ s.type \in {"CONNECTING", "CONNECTED", "HALFCLOSE"}
                /\ ~send_buffer_empty(s)
                => s.out
             /\ s.type = "HALFCLOSE" => ~send_buffer_empty(s)
  <2>1. CalmInv /\ Buffers(slot[i])
    BY <1>2 DEF SocketInv, CalmInv, BufInv
  <2>2. failed = "no" =>
           IF slot[i].type = "RESERVE" THEN Cardinality(Claims(i)) = 1 ELSE Claims(i) = {}
    BY <2>1, OneClaim DEF CalmInv
  <2> HIDE DEF SlotIx
  <2> QED
    BY <2>1, <2>2 DEF Buffers, Buffered, Unused
<1> QED
  BY <1>1, <1>2 DEF SlotsSound

LEMMA EventsImplied ==
  SocketInv => EventCurrent
<1> SUFFICES ASSUME SocketInv, ~raced, NEW n \in DOMAIN ev, ev[n].s # NULL
             PROVE  \/ slot[ev[n].s].type # "INVALID" /\ slot[ev[n].s].id = ev[n].id
                    \/ pc = "clear" /\ result.id = ev[n].id
  BY DEF EventCurrent
<1>1. EventOK(ev[n])
  BY DEF SocketInv, CalmInv, EventInv
<1> QED
  BY <1>1 DEF EventOK, PolledTypes

-----------------------------------------------------------------------------
(* Who is told what.                                                       *)

\* The step neither forwards data nor reports a socket as open.
Mute == result'.type \notin {"DATA", "OPEN"}

ToOpener ==
    ~raced' /\ result' # result =>
        /\ result'.type = "DATA" => heard[result'.id] = result'.opaque
        /\ result'.type = "OPEN" => heard[result'.id] # "gone"

LEMMA NothingMute ==
  Nothing => Mute
  BY DEF Nothing, Quiet, Mute

LEMMA ForwardFields ==
  ASSUME NEW type, NEW id, NEW opaque, Forward(type, id, opaque)
  PROVE  result'.type = type /\ result'.id = id /\ result'.opaque = opaque
  BY DEF Forward

LEMMA ReturnMute ==
  ASSUME NEW type, NEW id, NEW opaque, Return(type, id, opaque), type \notin {"DATA", "OPEN"}
  PROVE  Mute
<1>1. CASE type = "none"
  BY <1>1, NothingMute DEF Return
<1>2. CASE type # "none"
  <2>1. Forward(type, id, opaque)
    BY <1>2 DEF Return
  <2> QED
    BY <2>1, ForwardFields DEF Mute
<1> QED
  BY <1>1, <1>2

LEMMA ReturnOpen ==
  ASSUME NEW id, NEW opaque, Return("OPEN", id, opaque), ~raced' => heard[id] # "gone"
  PROVE  ToOpener
<1>1. Forward("OPEN", id, opaque)
  BY DEF Return
<1> QED
  BY <1>1, ForwardFields DEF ToOpener

LEMMA MuteToOpener ==
  Mute => ToOpener
  BY DEF Mute, ToOpener

LEMMA OpenTold ==
  ASSUME SocketInv, open_socket
  PROVE  ToOpener
<1> DEFINE r == Head(pipe)
<1>1. pipe # <<>> /\ r.op = "O" /\ raced' = raced
  BY DEF open_socket, Command
<1>2. r = pipe[1] /\ 1 \in DOMAIN pipe /\ raced \in BOOLEAN
  BY <1>1, HeadCommand DEF SocketInv, TypeInv
<1>3. ~raced' => heard[r.id] # "gone"
  BY <1>1, <1>2 DEF SocketInv, CalmInv, HeardInv, Opens
<1>4. \/ Return("ERR", r.id, r.opaque)
      \/ Return("OPEN", r.id, r.opaque)
      \/ Return("none", r.id, r.opaque)
      \/ Nothing
      \/ AddFails(r)
  BY Zenon DEF open_socket, Fail
<1>5. AddFails(r) => Mute
  BY DEF AddFails, Mute
<1> HIDE DEF r
<1> QED
  BY <1>3, <1>4, <1>5, ReturnMute, ReturnOpen, NothingMute, MuteToOpener

LEMMA StartTold ==
  ASSUME SocketInv, start_socket
  PROVE  ToOpener
<1> DEFINE r == Head(pipe)
           i == Hash(r.id)
           s == slot[i]
<1>1. pipe # <<>> /\ raced' = raced
  BY DEF start_socket, Command
<1>2. i \in SlotIx /\ raced \in BOOLEAN
  BY <1>1, HeadCommand DEF SocketInv, TypeInv
<1>3. s \in SlotRecord /\ r.id \in Ids
  BY <1>1, HeadCommand DEF SocketInv
<1>4. ~Stale(s, r.id) => s.id = r.id
  BY DEF Stale
<1>5. ASSUME ~raced', ~Stale(s, r.id), s.type \in {"PACCEPT", "PLISTEN", "CONNECTED"}
      PROVE  heard[r.id] # "gone"
  <2>1. CalmInv
    BY <1>1, <1>5 DEF SocketInv
  <2>2. CASE s.type \in {"PACCEPT", "PLISTEN"}
    BY <1>2, <1>4, <1>5, <2>1, <2>2 DEF CalmInv, HeardInv
  <2>3. CASE s.type = "CONNECTED"
    <3>1. heard[r.id] = s.opaque
      BY <1>2, <1>4, <1>5, <2>1, <2>3 DEF CalmInv, HeardInv
    <3>2. s.opaque \in Services \cup {"none"}
      BY <1>3, SlotFields
    <3> QED
      BY <3>1, <3>2, SocketAssumption
  <2> QED
    BY <1>5, <2>2, <2>3
<1>6. \/ Return("ERR", r.id, r.opaque)
      \/ Return("ERR", r.id, s.opaque)
      \/ /\ ~Stale(s, r.id) /\ s.type \in {"PACCEPT", "PLISTEN", "CONNECTED"}
         /\ Return("OPEN", r.id, r.opaque)
      \/ Return("none", r.id, r.opaque)
  BY DEF start_socket
<1> HIDE DEF r, s
<1> QED
  BY <1>5, <1>6, ReturnMute, ReturnOpen, MuteToOpener

LEMMA CloseTold ==
  ASSUME close_socket
  PROVE  ToOpener
<1> DEFINE r == Head(pipe)
<1>1. \E opaque : \/ Return("CLOSE", r.id, opaque)
                  \/ Return("none", r.id, opaque)
                  \/ Nothing
  BY Zenon DEF close_socket, Fail
<1> HIDE DEF r
<1> QED
  BY <1>1, ReturnMute, NothingMute, MuteToOpener

LEMMA WarnMute ==
  ASSUME NEW s, NEW i, Warn(s, i)
  PROVE  Mute
<1> DEFINE type == IF s.wb_size >= WARNING_SIZE /\ s.wb_size >= s.warn_size THEN "WARNING" ELSE "none"
<1>1. Return(type, s.id, s.opaque)
  BY DEF Warn
<1>2. type \notin {"DATA", "OPEN"}
  OBVIOUS
<1> HIDE DEF type
<1> QED
  BY <1>1, <1>2, ReturnMute

LEMMA SendTold ==
  ASSUME send_socket
  PROVE  ToOpener
<1> DEFINE r == Head(pipe)
<1>1. \E s, i, opaque : \/ Return("none", r.id, opaque)
                        \/ Return("CLOSE", r.id, opaque)
                        \/ Warn(s, i)
  BY Zenon DEF send_socket
<1> HIDE DEF r
<1> QED
  BY <1>1, ReturnMute, WarnMute, MuteToOpener

LEMMA ConnectTold ==
  ASSUME SocketInv, report_connect
  PROVE  ToOpener
<1> DEFINE i == Head(ev).s
           s == slot[i]
<1>1. ev # <<>> /\ i # NULL /\ s.type = "CONNECTING" /\ raced' = raced
  BY DEF report_connect, EventOf, EventSlot, Event
<1>2. i \in SlotIx
  BY <1>1, HeadEvent
<1>3. ~raced' => heard[s.id] # "gone"
  BY <1>1, <1>2 DEF SocketInv, CalmInv, HeardInv
<1>4. Forward("ERR", s.id, s.opaque) \/ Forward("OPEN", s.id, s.opaque)
  BY DEF report_connect, EventSlot
<1> HIDE DEF s
<1> QED
  BY <1>3, <1>4, ForwardFields DEF ToOpener

LEMMA ReadTold ==
  ASSUME SocketInv, forward_message_tcp
  PROVE  ToOpener
<1> DEFINE i == Head(ev).s
           s == slot[i]
<1>1. /\ Event /\ i # NULL /\ s.type \in Streams /\ raced' = (raced \/ s.type = "RESERVE")
  BY DEF forward_message_tcp, EventOf, EventSlot
<1>2. ev # <<>> /\ pc # "clear" /\ raced \in BOOLEAN
  BY <1>1 DEF Event, SocketInv, TypeInv
<1>3. i \in SlotIx /\ (~raced => s.type \in PolledTypes)
  BY <1>1, <1>2, HeadEvent
<1>4. ASSUME ~raced', s.type \notin {"RESERVE", "HALFCLOSE", "PLISTEN"}
      PROVE  heard[s.id] = s.opaque
  <2>1. ~raced /\ s.type = "CONNECTED"
    BY <1>1, <1>2, <1>3, <1>4 DEF Streams, PolledTypes
  <2> QED
    BY <1>3, <2>1 DEF SocketInv, CalmInv, HeardInv
<1>5. \/ Nothing
      \/ Forward("ERR", s.id, s.opaque)
      \/ Forward("CLOSE", s.id, s.opaque)
      \/ s.type \notin {"RESERVE", "HALFCLOSE", "PLISTEN"} /\ Forward("DATA", s.id, s.opaque)
  BY Zenon DEF forward_message_tcp, EventSlot
<1> HIDE DEF s
<1>6. CASE Nothing
  BY <1>6, NothingMute, MuteToOpener
<1>7. CASE Forward("ERR", s.id, s.opaque) \/ Forward("CLOSE", s.id, s.opaque)
  BY <1>7, ForwardFields DEF ToOpener
<1>8. CASE s.type \notin {"RESERVE", "HALFCLOSE", "PLISTEN"} /\ Forward("DATA", s.id, s.opaque)
  BY <1>4, <1>8, ForwardFields DEF ToOpener
<1> QED
  BY <1>5, <1>6, <1>7, <1>8

LEMMA FlushTold ==
  ASSUME SocketInv, Flush
  PROVE  ToOpener
<1> DEFINE i == Head(ev).s
           s == slot[i]
<1>1. ev # <<>> /\ i # NULL
  BY Zenon DEF Flush, EventOf, EventSlot, Event
<1>2. Sized(s)
  BY <1>1, HeadEvent
<1>3. PICK o \in send_buffer(s) : Nothing \/ Forward(o.type, s.id, s.opaque)
  BY Zenon DEF Flush, EventSlot
<1> HIDE DEF s
<1>4. o.type \in {"none", "CLOSE", "WARNING"}
  BY <1>2, <1>3, SendBuffer DEF SentOK
<1>5. CASE Nothing
  BY <1>5, NothingMute, MuteToOpener
<1>6. CASE Forward(o.type, s.id, s.opaque)
  BY <1>4, <1>6, ForwardFields DEF ToOpener
<1> QED
  BY <1>3, <1>5, <1>6

LEMMA AcceptTold ==
  ASSUME report_accept
  PROVE  ToOpener
<1> DEFINE s == EventSlot
<1>1. \/ Nothing
      \/ Forward("ERR", s.id, s.opaque)
      \/ Forward("ACCEPT", s.id, s.opaque)
  BY Zenon DEF report_accept
<1> HIDE DEF s
<1> QED
  BY <1>1, ForwardFields, NothingMute, MuteToOpener DEF ToOpener

LEMMA PollTold ==
  ASSUME SocketInv, Poll
  PROVE  ToOpener
<1>1. CASE listen_socket
  <2>1. \E id, opaque : Return("none", id, opaque) \/ Nothing
    BY <1>1, Zenon DEF listen_socket, Fail
  <2> QED
    BY <2>1, ReturnMute, NothingMute, MuteToOpener
<1>2. CASE clear_closed_event
  BY <1>2, MuteToOpener DEF clear_closed_event, Quiet, Mute
<1>3. CASE sp_wait
  <2>1. Nothing
    BY <1>3, Zenon DEF sp_wait, Wait
  <2> QED
    BY <2>1, NothingMute, MuteToOpener
<1>4. CASE SkipEvent
  BY <1>4, NothingMute, MuteToOpener DEF SkipEvent
<1>5. CASE open_failed
  BY <1>5, ReturnMute, MuteToOpener DEF open_failed
<1> QED
  BY <1>1, <1>2, <1>3, <1>4, <1>5, OpenTold, StartTold, CloseTold, SendTold, ConnectTold, AcceptTold,
     ReadTold, FlushTold DEF Poll

LEMMA ServiceSilent ==
  ASSUME NEW w \in Services, Service(w)
  PROVE  result' = result
  BY Zenon DEF Service, ReserveBegin, reserve_id, ReserveStore, Ask, SendRequest

-----------------------------------------------------------------------------
(* The wire.  What a socket has sent, what its high list holds and what    *)
(* its low list holds make whole packets when they are put one after the   *)
(* other, in order within each priority and older than the packets in the  *)
(* pipe; a socket that is not open has sent nothing.                       *)

\* One unit follows another on the wire.
Follows(x, y) == y = <<x[1], x[2] + 1>> \/ (x[2] = Size[x[1]] /\ y[2] = 1)

\* Units one after the other; the first one begins and the last one ends a packet.
Chained(u) == \A n \in 1 .. Len(u) - 1 : Follows(u[n], u[n + 1])
Starts(u) == u # <<>> => u[1][2] = 1
Ends(u) == u # <<>> => u[Len(u)][2] = Size[u[Len(u)][1]]
Whole(u) == Starts(u) /\ Chained(u) /\ Ends(u)

\* The order of packets of one priority, in a list and from one list to another;
\* S is the history of the packets sent.
Ordered(u, S) ==
    \A m, n \in DOMAIN u : m < n /\ S[u[m][1]].low = S[u[n][1]].low => u[m][1] <= u[n][1]
Before(u, v, S) ==
    \A m \in DOMAIN u, n \in DOMAIN v : S[u[m][1]].low = S[v[n][1]].low => u[m][1] <= v[n][1]

\* The command carries a packet.
Data(r) == r.op \in {"D", "P"}

\* The packets of u are older than the ones in the pipe q.
Past(u, S, q) ==
    \A j \in DOMAIN u : /\ u[j][1] \in 1 .. Len(S)
                        /\ \A n \in DOMAIN q : Data(q[n]) => u[j][1] < q[n].p

Lows(u, S) == \A j \in DOMAIN u : S[u[j][1]].low

\* What has left a socket.
Sound(u, S, q) == Starts(u) /\ Chained(u) /\ Ordered(u, S) /\ Past(u, S, q)

\* What a socket has sent and has still to send from its high list, u, and the
\* low list v behind it.
Lined(u, v, S, q) ==
    /\ Whole(u) /\ Whole(v)
    /\ Ordered(u, S) /\ Ordered(v, S) /\ Before(u, v, S)
    /\ Past(u, S, q) /\ Past(v, S, q) /\ Lows(v, S)

\* The packets in the pipe, in the order in which they were sent.
Queued(S, q) ==
    /\ S \in Seq([id : Ids, low : BOOLEAN])
    /\ \A n \in DOMAIN q : Data(q[n]) => q[n].p \in 1 .. Len(S) /\ (S[q[n].p].low <=> q[n].op = "P")
    /\ \A m, n \in DOMAIN q : Data(q[m]) /\ Data(q[n]) /\ m < n => q[m].p < q[n].p

\* A socket that has not been opened has sent nothing.
UnopenedInv ==
    /\ \A n \in DOMAIN pipe : Opens(pipe[n]) => wire[pipe[n].id] = <<>>
    /\ \A w \in Services : rsv[w].pc = "store" => wire[rsv[w].id] = <<>>
    /\ \A id \in Ids : id > alloc_id => wire[id] = <<>>

\* The slot of a socket has what follows on the wire.
SlotLined(s, w) == s.type \notin Unused => Lined(w[s.id] \o s.high, s.low, sent, pipe)

WireInv ==
    /\ Queued(sent, pipe)
    /\ wire \in [Ids -> Seq(Units)]
    /\ \A id \in Ids : Sound(wire[id], sent, pipe)
    /\ \A i \in SlotIx : SlotLined(slot[i], wire)
    /\ UnopenedInv

\* The packets sent and the pipe some time later: what has left the pipe is older
\* than what is in it.
Later(S, q, T, z) ==
    /\ Len(S) \in Nat /\ Len(T) \in Nat /\ Len(S) <= Len(T)
    /\ \A n \in 1 .. Len(S) : T[n] = S[n]
    /\ \A n \in DOMAIN z : Data(z[n]) =>
          \/ z[n].p \in Nat /\ z[n].p > Len(S)
          \/ \E m \in DOMAIN q : Data(q[m]) /\ q[m].p = z[n].p

-----------------------------------------------------------------------------
(* Lists of units one after the other.                                     *)

\* The units of two lists put together.
LEMMA Joined ==
  ASSUME NEW u \in Seq(Units), NEW v \in Seq(Units)
  PROVE  /\ u \o v \in Seq(Units) /\ Len(u) \in Nat /\ Len(v) \in Nat
         /\ Len(u \o v) = Len(u) + Len(v)
         /\ DOMAIN u = 1 .. Len(u) /\ DOMAIN v = 1 .. Len(v)
         /\ DOMAIN (u \o v) = 1 .. Len(u) + Len(v)
         /\ \A j \in 1 .. Len(u) : (u \o v)[j] = u[j]
         /\ \A j \in 1 .. Len(v) : (u \o v)[Len(u) + j] = v[j]
<1>1. Len(u) \in Nat /\ Len(v) \in Nat /\ DOMAIN u = 1 .. Len(u) /\ DOMAIN v = 1 .. Len(v)
  OBVIOUS
<1>2. /\ u \o v \in Seq(Units) /\ Len(u \o v) = Len(u) + Len(v)
      /\ \A j \in 1 .. Len(u) + Len(v) : (u \o v)[j] = IF j <= Len(u) THEN u[j] ELSE v[j - Len(u)]
  BY ConcatProperties
<1> DEFINE r == u \o v
           a == Len(u)
           b == Len(v)
<1>3. /\ r \in Seq(Units) /\ Len(r) = a + b /\ a \in Nat /\ b \in Nat
      /\ \A j \in 1 .. a + b : r[j] = IF j <= a THEN u[j] ELSE v[j - a]
  BY <1>1, <1>2
<1> HIDE DEF r, a, b
<1>4. DOMAIN r = 1 .. a + b
  BY <1>3
<1>5. \A j \in 1 .. a : r[j] = u[j]
  BY <1>3
<1>6. \A j \in 1 .. b : r[a + j] = v[j]
  <2> SUFFICES ASSUME NEW j \in 1 .. b PROVE r[a + j] = v[j]
    OBVIOUS
  <2>1. a + j \in 1 .. a + b /\ ~(a + j <= a) /\ (a + j) - a = j
    BY <1>3
  <2> QED
    BY <1>3, <2>1
<1> QED
  BY <1>1, <1>2, <1>4, <1>5, <1>6 DEF r, a, b

\* A list is empty when it has no units.
LEMMA NoUnits ==
  ASSUME NEW u \in Seq(Units)
  PROVE  u = <<>> <=> Len(u) = 0
  BY EmptySeq

\* Two chains put together are one when the second begins where the first ends.
LEMMA ChainedJoin ==
  ASSUME NEW u \in Seq(Units), NEW v \in Seq(Units), Chained(u), Ends(u), Chained(v), Starts(v)
  PROVE  Chained(u \o v)
<1> DEFINE r == u \o v
           a == Len(u)
           b == Len(v)
<1>1. /\ Len(r) = a + b /\ a \in Nat /\ b \in Nat
      /\ \A j \in 1 .. a : r[j] = u[j]
      /\ \A j \in 1 .. b : r[a + j] = v[j]
  BY Joined
<1>2. /\ \A n \in 1 .. a - 1 : Follows(u[n], u[n + 1])
      /\ \A n \in 1 .. b - 1 : Follows(v[n], v[n + 1])
      /\ a # 0 => u[a][2] = Size[u[a][1]]
      /\ b # 0 => v[1][2] = 1
  BY NoUnits DEF Chained, Ends, Starts
<1> HIDE DEF r, a, b
<1> SUFFICES ASSUME NEW n \in 1 .. (a + b) - 1 PROVE Follows(r[n], r[n + 1])
  BY <1>1 DEF Chained, r
<1>3. CASE n < a
  <2>1. n \in 1 .. a - 1 /\ r[n] = u[n] /\ r[n + 1] = u[n + 1]
    BY <1>1, <1>3
  <2> QED
    BY <1>2, <2>1
<1>4. CASE n = a
  <2>1. a # 0 /\ b # 0 /\ 1 \in 1 .. b /\ r[n] = u[a]
    BY <1>1, <1>4
  <2>2. r[n + 1] = v[1]
    BY <1>1, <1>4, <2>1
  <2> QED
    BY <1>2, <2>1, <2>2 DEF Follows
<1>5. CASE n > a
  <2> DEFINE m == n - a
  <2>1. m \in 1 .. b - 1 /\ n = a + m /\ n + 1 = a + (m + 1) /\ m \in 1 .. b /\ m + 1 \in 1 .. b
    BY <1>1, <1>5
  <2> HIDE DEF m
  <2>2. r[n] = v[m] /\ r[n + 1] = v[m + 1]
    BY <1>1, <2>1
  <2> QED
    BY <1>2, <2>1, <2>2
<1> QED
  BY <1>1, <1>3, <1>4, <1>5

\* The parts of a chain are chains, and the second follows the first.
LEMMA ChainedParts ==
  ASSUME NEW u \in Seq(Units), NEW v \in Seq(Units), Chained(u \o v)
  PROVE  /\ Chained(u) /\ Chained(v)
         /\ u # <<>> /\ v # <<>> => Follows(u[Len(u)], v[1])
<1> DEFINE r == u \o v
           a == Len(u)
           b == Len(v)
<1>1. /\ Len(r) = a + b /\ a \in Nat /\ b \in Nat
      /\ \A j \in 1 .. a : r[j] = u[j]
      /\ \A j \in 1 .. b : r[a + j] = v[j]
  BY Joined
<1>2. \A n \in 1 .. (a + b) - 1 : Follows(r[n], r[n + 1])
  BY <1>1 DEF Chained
<1> HIDE DEF r, a, b
<1>3. \A n \in 1 .. a - 1 : Follows(u[n], u[n + 1])
  <2> SUFFICES ASSUME NEW n \in 1 .. a - 1 PROVE Follows(u[n], u[n + 1])
    OBVIOUS
  <2>1. n \in 1 .. (a + b) - 1 /\ r[n] = u[n] /\ r[n + 1] = u[n + 1]
    BY <1>1
  <2> QED
    BY <1>2, <2>1
<1>4. \A n \in 1 .. b - 1 : Follows(v[n], v[n + 1])
  <2> SUFFICES ASSUME NEW n \in 1 .. b - 1 PROVE Follows(v[n], v[n + 1])
    OBVIOUS
  <2>1. a + n \in 1 .. (a + b) - 1 /\ n \in 1 .. b /\ n + 1 \in 1 .. b /\ a + (n + 1) = (a + n) + 1
    BY <1>1
  <2>2. r[a + n] = v[n] /\ r[a + (n + 1)] = v[n + 1]
    BY <1>1, <2>1
  <2>3. Follows(r[a + n], r[(a + n) + 1])
    BY <1>2, <2>1
  <2> QED
    BY <2>1, <2>2, <2>3
<1>5. ASSUME a # 0, b # 0 PROVE Follows(u[a], v[1])
  <2>1. a \in 1 .. (a + b) - 1 /\ a \in 1 .. a /\ 1 \in 1 .. b
    BY <1>1, <1>5
  <2>2. r[a] = u[a] /\ r[a + 1] = v[1]
    BY <1>1, <2>1
  <2> QED
    BY <1>2, <2>1, <2>2
<1> QED
  BY <1>3, <1>4, <1>5, NoUnits DEF Chained, a, b

\* Where two lists begin and end.
LEMMA StartsJoin ==
  ASSUME NEW u \in Seq(Units), NEW v \in Seq(Units)
  PROVE  /\ Starts(u) /\ Starts(v) => Starts(u \o v)
         /\ Starts(u \o v) => Starts(u)
         /\ Ends(u) /\ Ends(v) => Ends(u \o v)
         /\ Ends(u \o v) => Ends(v)
<1> DEFINE r == u \o v
           a == Len(u)
           b == Len(v)
<1>1. /\ r \in Seq(Units) /\ Len(r) = a + b /\ a \in Nat /\ b \in Nat
      /\ \A j \in 1 .. a : r[j] = u[j]
      /\ \A j \in 1 .. b : r[a + j] = v[j]
  BY Joined
<1>2. (r = <<>> <=> Len(r) = 0) /\ (u = <<>> <=> a = 0) /\ (v = <<>> <=> b = 0)
  BY <1>1, NoUnits
<1> HIDE DEF r, a, b
<1>3. a # 0 => r # <<>> /\ r[1] = u[1]
  BY <1>1, <1>2
<1>4. a = 0 /\ b # 0 => r # <<>> /\ r[1] = v[1]
  <2> SUFFICES ASSUME a = 0, b # 0 PROVE r # <<>> /\ r[1] = v[1]
    OBVIOUS
  <2>1. 1 \in 1 .. b /\ a + 1 = 1
    BY <1>1
  <2> QED
    BY <1>1, <1>2, <2>1
<1>5. b # 0 => r # <<>> /\ r[Len(r)] = v[b]
  BY <1>1, <1>2
<1>6. b = 0 /\ a # 0 => r # <<>> /\ r[Len(r)] = u[a]
  BY <1>1, <1>2
<1>7. a = 0 /\ b = 0 => r = <<>>
  BY <1>1, <1>2
<1> QED
  BY <1>2, <1>3, <1>4, <1>5, <1>6, <1>7 DEF Starts, Ends, r, a, b

\* Whole packets one after the other.
LEMMA WholeJoin ==
  ASSUME NEW u \in Seq(Units), NEW v \in Seq(Units), Whole(u), Whole(v)
  PROVE  Whole(u \o v)
  BY ChainedJoin, StartsJoin DEF Whole

\* Whole packets cut where another packet begins.
LEMMA WholeCut ==
  ASSUME NEW u \in Seq(Units), NEW v \in Seq(Units), Whole(u \o v),
         u # <<>> /\ v # <<>> => u[Len(u)][1] # v[1][1]
  PROVE  Whole(u) /\ Whole(v)
<1>1. /\ Chained(u) /\ Chained(v)
      /\ u # <<>> /\ v # <<>> => Follows(u[Len(u)], v[1])
  BY ChainedParts DEF Whole
<1>2. Starts(u) /\ Ends(v)
  BY StartsJoin DEF Whole
<1>3. CASE u = <<>>
  <2>1. u \o v = v
    BY <1>3, ConcatEmptySeq
  <2> QED
    BY <1>1, <1>2, <1>3, <2>1 DEF Whole, Ends
<1>4. CASE v = <<>>
  <2>1. u \o v = u
    BY <1>4, ConcatEmptySeq
  <2> QED
    BY <1>1, <1>2, <1>4, <2>1 DEF Whole, Starts
<1>5. CASE u # <<>> /\ v # <<>>
  <2>1. v[1] # <<u[Len(u)][1], u[Len(u)][2] + 1>>
    BY <1>5
  <2>2. u[Len(u)][2] = Size[u[Len(u)][1]] /\ v[1][2] = 1
    BY <1>1, <1>5, <2>1 DEF Follows
  <2> QED
    BY <1>1, <1>2, <1>5, <2>2 DEF Whole, Starts, Ends
<1> QED
  BY <1>3, <1>4, <1>5

\* The order in two lists put together.
LEMMA OrderedJoin ==
  ASSUME NEW u \in Seq(Units), NEW v \in Seq(Units), NEW S
  PROVE  Ordered(u \o v, S) <=> Ordered(u, S) /\ Ordered(v, S) /\ Before(u, v, S)
<1> DEFINE r == u \o v
           a == Len(u)
           b == Len(v)
           le(x, y) == S[x[1]].low = S[y[1]].low => x[1] <= y[1]
<1>1. /\ DOMAIN r = 1 .. a + b /\ a \in Nat /\ b \in Nat /\ DOMAIN u = 1 .. a /\ DOMAIN v = 1 .. b
      /\ \A j \in 1 .. a : r[j] = u[j]
      /\ \A j \in 1 .. b : r[a + j] = v[j]
  BY Joined
<1>2. /\ Ordered(r, S) <=> \A m, n \in 1 .. a + b : m < n => le(r[m], r[n])
      /\ Ordered(u, S) <=> \A m, n \in 1 .. a : m < n => le(u[m], u[n])
      /\ Ordered(v, S) <=> \A m, n \in 1 .. b : m < n => le(v[m], v[n])
      /\ Before(u, v, S) <=> \A m \in 1 .. a, n \in 1 .. b : le(u[m], v[n])
  BY <1>1 DEF Ordered, Before
<1> HIDE DEF r, a, b, le
<1>3. ASSUME \A m, n \in 1 .. a + b : m < n => le(r[m], r[n])
      PROVE  /\ \A m, n \in 1 .. a : m < n => le(u[m], u[n])
             /\ \A m, n \in 1 .. b : m < n => le(v[m], v[n])
             /\ \A m \in 1 .. a, n \in 1 .. b : le(u[m], v[n])
  <2>1. ASSUME NEW m \in 1 .. a, NEW n \in 1 .. a, m < n PROVE le(u[m], u[n])
    <3>1. m \in 1 .. a + b /\ n \in 1 .. a + b /\ r[m] = u[m] /\ r[n] = u[n]
      BY <1>1
    <3>2. le(r[m], r[n])
      BY <1>3, <2>1, <3>1
    <3> QED
      BY <3>1, <3>2
  <2>2. ASSUME NEW m \in 1 .. b, NEW n \in 1 .. b, m < n PROVE le(v[m], v[n])
    <3>1. a + m \in 1 .. a + b /\ a + n \in 1 .. a + b /\ a + m < a + n
      BY <1>1, <2>2
    <3>2. r[a + m] = v[m] /\ r[a + n] = v[n]
      BY <1>1
    <3>3. le(r[a + m], r[a + n])
      BY <1>3, <3>1
    <3> QED
      BY <3>2, <3>3
  <2>3. ASSUME NEW m \in 1 .. a, NEW n \in 1 .. b PROVE le(u[m], v[n])
    <3>1. m \in 1 .. a + b /\ a + n \in 1 .. a + b /\ m < a + n
      BY <1>1
    <3>2. r[m] = u[m] /\ r[a + n] = v[n]
      BY <1>1
    <3>3. le(r[m], r[a + n])
      BY <1>3, <3>1
    <3> QED
      BY <3>2, <3>3
  <2> QED
    BY <2>1, <2>2, <2>3
<1>4. ASSUME \A m, n \in 1 .. a : m < n => le(u[m], u[n]),
             \A m, n \in 1 .. b : m < n => le(v[m], v[n]),
             \A m \in 1 .. a, n \in 1 .. b : le(u[m], v[n]),
             NEW m \in 1 .. a + b, NEW n \in 1 .. a + b, m < n
      PROVE  le(r[m], r[n])
  <2>1. CASE n <= a
    <3>1. m \in 1 .. a /\ n \in 1 .. a
      BY <1>1, <1>4, <2>1
    <3> QED
      BY <1>1, <1>4, <3>1
  <2>2. CASE ~(n <= a)
    <3>1. n - a \in 1 .. b /\ n = a + (n - a)
      BY <1>1, <2>2
    <3>2. r[n] = v[n - a]
      BY <1>1, <3>1
    <3>3. CASE m <= a
      <4>1. m \in 1 .. a
        BY <1>1, <3>3
      <4> QED
        BY <1>1, <1>4, <3>1, <3>2, <4>1
    <3>4. CASE ~(m <= a)
      <4>1. m - a \in 1 .. b /\ m = a + (m - a) /\ m - a < n - a
        BY <1>1, <1>4, <3>4
      <4>2. r[m] = v[m - a]
        BY <1>1, <4>1
      <4> QED
        BY <1>4, <3>1, <3>2, <4>1, <4>2
    <3> QED
      BY <3>3, <3>4
  <2> QED
    BY <2>1, <2>2
<1> QED
  BY <1>2, <1>3, <1>4 DEF r

\* What holds of every unit of two lists holds of the lists put together.
LEMMA UnitsJoin ==
  ASSUME NEW u \in Seq(Units), NEW v \in Seq(Units), NEW S, NEW q, NEW x \in Seq(Units)
  PROVE  /\ Past(u \o v, S, q) <=> Past(u, S, q) /\ Past(v, S, q)
         /\ Lows(u \o v, S) <=> Lows(u, S) /\ Lows(v, S)
         /\ Before(u \o v, x, S) <=> Before(u, x, S) /\ Before(v, x, S)
         /\ Before(x, u \o v, S) <=> Before(x, u, S) /\ Before(x, v, S)
<1> DEFINE r == u \o v
           a == Len(u)
           b == Len(v)
<1>1. /\ DOMAIN r = 1 .. a + b /\ a \in Nat /\ b \in Nat /\ DOMAIN u = 1 .. a /\ DOMAIN v = 1 .. b
      /\ \A j \in 1 .. a : r[j] = u[j]
      /\ \A j \in 1 .. b : r[a + j] = v[j]
  BY Joined
<1> HIDE DEF r, a, b
<1>2. \A j \in DOMAIN r : (\E m \in DOMAIN u : r[j] = u[m]) \/ (\E m \in DOMAIN v : r[j] = v[m])
  <2> SUFFICES ASSUME NEW j \in 1 .. a + b
               PROVE  (\E m \in 1 .. a : r[j] = u[m]) \/ (\E m \in 1 .. b : r[j] = v[m])
    BY <1>1
  <2>1. CASE j <= a
    <3>1. j \in 1 .. a
      BY <1>1, <2>1
    <3> QED
      BY <1>1, <3>1
  <2>2. CASE ~(j <= a)
    <3>1. j - a \in 1 .. b /\ j = a + (j - a)
      BY <1>1, <2>2
    <3>2. r[j] = v[j - a]
      BY <1>1, <3>1
    <3> QED
      BY <3>1, <3>2
  <2> QED
    BY <2>1, <2>2
<1>3. \A m \in DOMAIN u : \E j \in DOMAIN r : r[j] = u[m]
  <2> SUFFICES ASSUME NEW m \in 1 .. a PROVE m \in 1 .. a + b /\ r[m] = u[m]
    BY <1>1
  <2> QED
    BY <1>1
<1>4. \A m \in DOMAIN v : \E j \in DOMAIN r : r[j] = v[m]
  <2> SUFFICES ASSUME NEW m \in 1 .. b PROVE a + m \in 1 .. a + b /\ r[a + m] = v[m]
    BY <1>1
  <2> QED
    BY <1>1
<1>5. Past(r, S, q) <=> Past(u, S, q) /\ Past(v, S, q)
  <2> DEFINE P(y) == y \in 1 .. Len(S) /\ \A n \in DOMAIN q : Data(q[n]) => y < q[n].p
  <2>1. \A y : Past(y, S, q) <=> \A j \in DOMAIN y : P(y[j][1])
    BY Zenon DEF Past
  <2> HIDE DEF P
  <2>2. (\A j \in DOMAIN r : P(r[j][1])) <=> (\A j \in DOMAIN u : P(u[j][1])) /\ (\A j \in DOMAIN v : P(v[j][1]))
    BY <1>2, <1>3, <1>4, Zenon
  <2> QED
    BY <2>1, <2>2, Zenon
<1>6. Lows(r, S) <=> Lows(u, S) /\ Lows(v, S)
  BY <1>2, <1>3, <1>4, Zenon DEF Lows
<1>7. Before(r, x, S) <=> Before(u, x, S) /\ Before(v, x, S)
  <2> DEFINE P(y) == \A n \in DOMAIN x : S[y].low = S[x[n][1]].low => y <= x[n][1]
  <2>1. \A y : Before(y, x, S) <=> \A j \in DOMAIN y : P(y[j][1])
    BY Zenon DEF Before
  <2> HIDE DEF P
  <2>2. (\A j \in DOMAIN r : P(r[j][1])) <=> (\A j \in DOMAIN u : P(u[j][1])) /\ (\A j \in DOMAIN v : P(v[j][1]))
    BY <1>2, <1>3, <1>4, Zenon
  <2> QED
    BY <2>1, <2>2, Zenon
<1>8. Before(x, r, S) <=> Before(x, u, S) /\ Before(x, v, S)
  <2> DEFINE P(y) == \A n \in DOMAIN x : S[x[n][1]].low = S[y].low => x[n][1] <= y
  <2>1. \A y : Before(x, y, S) <=> \A j \in DOMAIN y : P(y[j][1])
    BY Zenon DEF Before
  <2> HIDE DEF P
  <2>2. (\A j \in DOMAIN r : P(r[j][1])) <=> (\A j \in DOMAIN u : P(u[j][1])) /\ (\A j \in DOMAIN v : P(v[j][1]))
    BY <1>2, <1>3, <1>4, Zenon
  <2> QED
    BY <2>1, <2>2, Zenon
<1> QED
  BY <1>5, <1>6, <1>7, <1>8 DEF r

\* The empty list.
LEMMA EmptyLined ==
  ASSUME NEW S, NEW q
  PROVE  /\ Whole(<<>>) /\ Ordered(<<>>, S) /\ Past(<<>>, S, q) /\ Lows(<<>>, S)
         /\ \A u : Before(u, <<>>, S) /\ Before(<<>>, u, S)
         /\ Sound(<<>>, S, q) /\ Lined(<<>>, <<>>, S, q)
<1>1. /\ Whole(<<>>) /\ Ordered(<<>>, S) /\ Past(<<>>, S, q) /\ Lows(<<>>, S)
      /\ \A u : Before(u, <<>>, S) /\ Before(<<>>, u, S)
  BY DEF Whole, Starts, Chained, Ends, Ordered, Past, Lows, Before
<1> QED
  BY <1>1 DEF Sound, Lined, Whole

\* What has left the socket and what follows.
LEMMA LinedSound ==
  ASSUME NEW u \in Seq(Units), NEW v \in Seq(Units), NEW S, NEW q, Lined(u, v, S, q)
  PROVE  Sound(u \o v, S, q)
  BY WholeJoin, OrderedJoin, UnitsJoin DEF Lined, Sound, Whole

\* What has left the socket, when it is the first part of something sound.
LEMMA SoundPart ==
  ASSUME NEW u \in Seq(Units), NEW v \in Seq(Units), NEW S, NEW q, Sound(u \o v, S, q)
  PROVE  Sound(u, S, q)
  BY ChainedParts, StartsJoin, OrderedJoin, UnitsJoin DEF Sound

\* The front v of the low list joins what goes before it.
LEMMA LinedMoved ==
  ASSUME NEW u \in Seq(Units), NEW v \in Seq(Units), NEW x \in Seq(Units), NEW S, NEW q,
         Lined(u, v \o x, S, q), v # <<>> /\ x # <<>> => v[Len(v)][1] # x[1][1]
  PROVE  Lined(u \o v, x, S, q)
<1>1. Whole(v) /\ Whole(x)
  BY WholeCut DEF Lined
<1>2. Whole(u \o v)
  BY <1>1, WholeJoin DEF Lined
<1>3. Ordered(v, S) /\ Ordered(x, S) /\ Before(v, x, S)
  BY OrderedJoin DEF Lined
<1>4. Before(u, v, S) /\ Before(u, x, S) /\ Past(v, S, q) /\ Past(x, S, q) /\ Lows(x, S)
  BY UnitsJoin DEF Lined
<1>5. Ordered(u \o v, S)
  BY <1>3, <1>4, OrderedJoin DEF Lined
<1>6. Before(u \o v, x, S) /\ Past(u \o v, S, q)
  BY <1>3, <1>4, UnitsJoin DEF Lined
<1> QED
  BY <1>1, <1>2, <1>3, <1>4, <1>5, <1>6 DEF Lined

\* A whole packet.
LEMMA PacketUnits ==
  ASSUME NEW p \in Packets, NEW S
  PROVE  LET u == Rest(p, 0) IN
         /\ u \in Seq(Units) /\ Len(u) = Size[p] /\ Size[p] \in Nat \ {0}
         /\ \A j \in DOMAIN u : j \in 1 .. Size[p] /\ u[j] = <<p, j>> /\ u[j][1] = p
         /\ Whole(u) /\ Ordered(u, S)
<1> DEFINE u == Rest(p, 0)
           k == Size[p]
<1>1. k \in Nat \ {0} /\ p \in Nat
  BY SocketAssumption DEF Packets
<1>2. u \in Seq(Units) /\ Len(u) = k - 0 /\ \A j \in 1 .. k - 0 : u[j] = <<p, 0 + j>>
  <2>1. 0 \in 0 .. Size[p]
    BY <1>1
  <2> QED
    BY <2>1, RestUnits
<1> HIDE DEF u
<1>3. k - 0 = k /\ \A j \in 1 .. k : 0 + j = j
  BY <1>1
<1> HIDE DEF k
<1>4. u \in Seq(Units) /\ Len(u) = k /\ DOMAIN u = 1 .. k /\ \A j \in 1 .. k : u[j] = <<p, j>>
  BY <1>1, <1>2, <1>3
<1>5. \A j \in DOMAIN u : j \in 1 .. k /\ u[j] = <<p, j>> /\ u[j][1] = p
  BY <1>4
<1>6. Chained(u)
  <2> SUFFICES ASSUME NEW n \in 1 .. k - 1 PROVE Follows(u[n], u[n + 1])
    BY <1>4 DEF Chained
  <2>1. n \in 1 .. k /\ n + 1 \in 1 .. k
    BY <1>1
  <2>2. u[n] = <<p, n>> /\ u[n + 1] = <<p, n + 1>>
    BY <1>4, <2>1
  <2> QED
    BY <2>2 DEF Follows
<1>7. Starts(u) /\ Ends(u)
  <2>1. 1 \in 1 .. k /\ k \in 1 .. k
    BY <1>1
  <2>2. u[1] = <<p, 1>> /\ u[Len(u)] = <<p, k>>
    BY <1>4, <2>1
  <2> QED
    BY <2>2 DEF Starts, Ends, k
<1>8. Ordered(u, S)
  BY <1>1, <1>5 DEF Ordered
<1> QED
  BY <1>1, <1>4, <1>5, <1>6, <1>7, <1>8 DEF Whole, u, k

-----------------------------------------------------------------------------
(* The packets on their way.                                               *)

\* Time does not disturb what has been sent.
LEMMA LaterUnits ==
  ASSUME NEW S, NEW q, NEW T, NEW z, Later(S, q, T, z), NEW u, NEW v, Past(u, S, q), Past(v, S, q)
  PROVE  /\ Past(u, T, z) /\ Past(v, T, z)
         /\ Ordered(u, S) => Ordered(u, T)
         /\ Lows(v, S) => Lows(v, T)
         /\ Before(u, v, S) => Before(u, v, T)
<1> DEFINE a == Len(S)
           b == Len(T)
<1>1. a \in Nat /\ b \in Nat /\ a <= b /\ \A n \in 1 .. a : T[n] = S[n]
  BY DEF Later
<1>2. ASSUME NEW y \in 1 .. a, \A n \in DOMAIN q : Data(q[n]) => y < q[n].p
      PROVE  y \in 1 .. b /\ \A n \in DOMAIN z : Data(z[n]) => y < z[n].p
  <2>1. y \in 1 .. b
    <3> HIDE DEF a, b
    <3> QED
      BY <1>1
  <2>2. ASSUME NEW n \in DOMAIN z, Data(z[n]) PROVE y < z[n].p
    <3>1. CASE z[n].p \in Nat /\ z[n].p > a
      <4> HIDE DEF a, b
      <4> QED
        BY <1>1, <3>1
    <3>2. CASE \E m \in DOMAIN q : Data(q[m]) /\ q[m].p = z[n].p
      BY <1>2, <3>2
    <3> QED
      BY <2>2, <3>1, <3>2 DEF Later
  <2> QED
    BY <2>1, <2>2
<1>3. /\ \A j \in DOMAIN u : u[j][1] \in 1 .. a /\ \A n \in DOMAIN q : Data(q[n]) => u[j][1] < q[n].p
      /\ \A j \in DOMAIN v : v[j][1] \in 1 .. a /\ \A n \in DOMAIN q : Data(q[n]) => v[j][1] < q[n].p
  BY DEF Past
<1>4. Past(u, T, z) /\ Past(v, T, z)
  BY <1>2, <1>3 DEF Past
<1>5. /\ \A j \in DOMAIN u : T[u[j][1]] = S[u[j][1]]
      /\ \A j \in DOMAIN v : T[v[j][1]] = S[v[j][1]]
  BY <1>1, <1>3
<1>6. Ordered(u, S) => Ordered(u, T)
  BY <1>5, Zenon DEF Ordered
<1>7. Lows(v, S) => Lows(v, T)
  BY <1>5, Zenon DEF Lows
<1>8. Before(u, v, S) => Before(u, v, T)
  BY <1>5, Zenon DEF Before
<1> QED
  BY <1>4, <1>6, <1>7, <1>8

LEMMA LaterLined ==
  ASSUME NEW S, NEW q, NEW T, NEW z, Later(S, q, T, z), NEW u, NEW v
  PROVE  /\ Sound(u, S, q) => Sound(u, T, z)
         /\ Lined(u, v, S, q) => Lined(u, v, T, z)
<1>1. Sound(u, S, q) => Sound(u, T, z)
  BY LaterUnits DEF Sound
<1>2. ASSUME Lined(u, v, S, q) PROVE Lined(u, v, T, z)
  <2>1. Past(u, S, q) /\ Past(v, S, q)
    BY <1>2 DEF Lined
  <2>2. /\ Past(u, T, z) /\ Past(v, T, z)
        /\ Ordered(u, S) => Ordered(u, T)
        /\ Lows(v, S) => Lows(v, T)
        /\ Before(u, v, S) => Before(u, v, T)
    BY <2>1, LaterUnits
  <2>3. Ordered(v, S) => Ordered(v, T)
    BY <2>1, LaterUnits
  <2> QED
    BY <1>2, <2>2, <2>3 DEF Lined
<1> QED
  BY <1>1, <1>2

\* Nothing new has been sent.
LEMMA SameLater ==
  ASSUME NEW S, NEW q, Queued(S, q)
  PROVE  Later(S, q, S, q)
<1>1. Len(S) \in Nat
  BY DEF Queued
<1> QED
  BY <1>1 DEF Later

\* A command is taken from the pipe.
LEMMA TakenLater ==
  ASSUME NEW S, NEW q \in Seq(Requests), q # <<>>, Queued(S, q)
  PROVE  Queued(S, Tail(q)) /\ Later(S, q, S, Tail(q))
<1> DEFINE z == Tail(q)
<1>1. \A n \in DOMAIN z : n + 1 \in DOMAIN q /\ n \in Nat \ {0} /\ z[n] = q[n + 1]
  BY TailSeq
<1>2. Len(S) \in Nat
  BY DEF Queued
<1> HIDE DEF z
<1>3. \A m, n \in DOMAIN z : m < n => m + 1 < n + 1
  BY <1>1
<1>4. \A m, n \in DOMAIN z : Data(z[m]) /\ Data(z[n]) /\ m < n => z[m].p < z[n].p
  <2> SUFFICES ASSUME NEW m \in DOMAIN z, NEW n \in DOMAIN z, Data(z[m]), Data(z[n]), m < n
               PROVE  z[m].p < z[n].p
    OBVIOUS
  <2>1. /\ m + 1 \in DOMAIN q /\ n + 1 \in DOMAIN q /\ m + 1 < n + 1
        /\ z[m] = q[m + 1] /\ z[n] = q[n + 1]
    BY <1>1, <1>3
  <2> QED
    BY <2>1, Zenon DEF Queued
<1>5. \A n \in DOMAIN z : Data(z[n]) => z[n].p \in 1 .. Len(S) /\ (S[z[n].p].low <=> z[n].op = "P")
  BY <1>1, Zenon DEF Queued
<1>6. Queued(S, z)
  BY <1>4, <1>5 DEF Queued
<1>7. \A n \in DOMAIN z : Data(z[n]) => \E m \in DOMAIN q : Data(q[m]) /\ q[m].p = z[n].p
  BY <1>1, Zenon
<1>8. Later(S, q, S, z)
  BY <1>2, <1>7 DEF Later
<1> QED
  BY <1>6, <1>8 DEF z

\* A command without a packet enters the pipe.
LEMMA AskedLater ==
  ASSUME NEW S, NEW q \in Seq(Requests), Queued(S, q), NEW r \in Requests, ~Data(r)
  PROVE  Queued(S, Append(q, r)) /\ Later(S, q, S, Append(q, r))
<1> DEFINE z == Append(q, r)
<1>1. PICK d \in Nat : /\ DOMAIN q = 1 .. d /\ DOMAIN z = 1 .. d + 1 /\ z[d + 1] = r
                       /\ \A n \in 1 .. d : z[n] = q[n]
  BY AppendSeq
<1> HIDE DEF z
<1>2. \A n \in DOMAIN z : Data(z[n]) => n \in DOMAIN q /\ z[n] = q[n]
  <2> SUFFICES ASSUME NEW n \in 1 .. d + 1, Data(z[n]) PROVE n \in 1 .. d
    BY <1>1
  <2>1. n # d + 1
    BY <1>1
  <2> QED
    BY <2>1
<1>3. Queued(S, z)
  BY <1>2, Zenon DEF Queued
<1>4. Len(S) \in Nat
  BY DEF Queued
<1>5. Later(S, q, S, z)
  BY <1>2, <1>4 DEF Later
<1> QED
  BY <1>3, <1>5 DEF z

\* A packet enters the pipe.
LEMMA SentLater ==
  ASSUME NEW S, NEW q \in Seq(Requests), Queued(S, q), NEW id \in Ids, NEW low \in BOOLEAN,
         NEW r \in Requests, r.op = IF low THEN "P" ELSE "D", r.p = Len(S) + 1,
         NEW T, T = Append(S, [id |-> id, low |-> low])
  PROVE  Queued(T, Append(q, r)) /\ Later(S, q, T, Append(q, r))
<1> DEFINE z == Append(q, r)
           a == Len(S)
           x == [id |-> id, low |-> low]
<1>1. PICK d \in Nat : /\ DOMAIN q = 1 .. d /\ DOMAIN z = 1 .. d + 1 /\ z[d + 1] = r
                       /\ \A n \in 1 .. d : z[n] = q[n]
  BY AppendSeq
<1> HIDE DEF z
<1>2. x \in [id : Ids, low : BOOLEAN] /\ x.low = low
  OBVIOUS
<1>3. /\ T \in Seq([id : Ids, low : BOOLEAN]) /\ Len(T) = a + 1 /\ a \in Nat
      /\ \A n \in 1 .. a : T[n] = S[n]
      /\ T[a + 1] = x
  <2> HIDE DEF x
  <2>1. S \in Seq([id : Ids, low : BOOLEAN]) /\ T = Append(S, x)
    BY DEF Queued, x
  <2> QED
    BY <1>2, <2>1, AppendProperties
<1> HIDE DEF a, x
<1>4. \A n \in DOMAIN z : n = d + 1 \/ (n \in DOMAIN q /\ z[n] = q[n])
  BY <1>1
<1>5. \A n \in DOMAIN q : Data(q[n]) => q[n].p \in 1 .. a /\ (S[q[n].p].low <=> q[n].op = "P")
  BY DEF Queued, a
<1>6. ASSUME NEW n \in DOMAIN z, Data(z[n])
      PROVE  z[n].p \in 1 .. a + 1 /\ (T[z[n].p].low <=> z[n].op = "P")
  <2>1. CASE n = d + 1
    <3>1. z[n].p = a + 1 /\ z[n].op = IF low THEN "P" ELSE "D"
      BY <1>1, <2>1 DEF a
    <3>2. T[z[n].p].low = low
      BY <1>2, <1>3, <3>1
    <3>3. a + 1 \in 1 .. a + 1
      BY <1>3
    <3> QED
      BY <3>1, <3>2, <3>3
  <2>2. CASE n \in DOMAIN q /\ z[n] = q[n]
    <3>1. z[n].p \in 1 .. a /\ (S[z[n].p].low <=> z[n].op = "P")
      BY <1>5, <1>6, <2>2
    <3>2. T[z[n].p] = S[z[n].p] /\ z[n].p \in 1 .. a + 1
      BY <1>3, <3>1
    <3> QED
      BY <3>1, <3>2
  <2> QED
    BY <1>4, <2>1, <2>2
<1>7. ASSUME NEW m \in DOMAIN z, NEW n \in DOMAIN z, Data(z[m]), Data(z[n]), m < n
      PROVE  z[m].p < z[n].p
  <2>0. m \in 1 .. d /\ m \in DOMAIN q /\ z[m] = q[m]
    BY <1>1, <1>7
  <2>1. CASE n = d + 1
    <3>1. z[n].p = a + 1
      BY <1>1, <2>1 DEF a
    <3>2. z[m].p \in 1 .. a
      BY <1>5, <1>7, <2>0
    <3> QED
      BY <1>3, <3>1, <3>2
  <2>2. CASE n \in DOMAIN q /\ z[n] = q[n]
    BY <1>7, <2>0, <2>2, Zenon DEF Queued
  <2> QED
    BY <1>4, <2>1, <2>2
<1>8. Queued(T, z)
  BY <1>3, <1>6, <1>7 DEF Queued
<1>9. \A n \in DOMAIN z : Data(z[n]) =>
         \/ z[n].p \in Nat /\ z[n].p > a
         \/ \E m \in DOMAIN q : Data(q[m]) /\ q[m].p = z[n].p
  <2> SUFFICES ASSUME NEW n \in DOMAIN z, Data(z[n])
               PROVE  \/ z[n].p \in Nat /\ z[n].p > a
                      \/ \E m \in DOMAIN q : Data(q[m]) /\ q[m].p = z[n].p
    OBVIOUS
  <2>1. CASE n = d + 1
    <3>1. z[n].p = a + 1
      BY <1>1, <2>1 DEF a
    <3> QED
      BY <1>3, <3>1
  <2>2. CASE n \in DOMAIN q /\ z[n] = q[n]
    BY <2>2
  <2> QED
    BY <1>4, <2>1, <2>2
<1>10. Later(S, q, T, z)
  BY <1>3, <1>9 DEF Later, a
<1> QED
  BY <1>8, <1>10 DEF z

\* The packet that is taken is newer than what has left, and older than the rest.
LEMMA PacketTaken ==
  ASSUME NEW S, NEW q \in Seq(Requests), q # <<>>, Queued(S, q), NEW r, r = Head(q), Data(r),
         r.p \in Packets
  PROVE  LET x == Rest(r.p, 0) IN
         /\ Past(x, S, Tail(q))
         /\ \A u : Past(u, S, q) => Before(u, x, S)
         /\ r.op = "P" => Lows(x, S)
         /\ r.op = "D" => \A v : Lows(v, S) /\ Past(v, S, q) => Before(x, v, S)
<1> DEFINE x == Rest(r.p, 0)
           p == r.p
           z == Tail(q)
<1>1. /\ r = q[1] /\ 1 \in DOMAIN q
      /\ \A n \in DOMAIN z : n + 1 \in DOMAIN q /\ n \in Nat \ {0} /\ z[n] = q[n + 1]
  BY TailSeq
<1>2. p \in 1 .. Len(S) /\ (S[p].low <=> r.op = "P")
  BY <1>1 DEF Queued
<1>3. \A j \in DOMAIN x : x[j][1] = p
  BY PacketUnits
<1> HIDE DEF x, z
<1>4. Len(S) \in Nat /\ p \in Nat
  BY <1>2 DEF Queued
<1>5. \A n \in DOMAIN z : Data(z[n]) => p < z[n].p
  <2> SUFFICES ASSUME NEW n \in DOMAIN z, Data(z[n]) PROVE p < z[n].p
    OBVIOUS
  <2>1. n + 1 \in DOMAIN q /\ 1 < n + 1 /\ z[n] = q[n + 1]
    BY <1>1
  <2> QED
    BY <1>1, <2>1, Zenon DEF Queued
<1>6. Past(x, S, z)
  BY <1>2, <1>3, <1>5 DEF Past
<1>7. ASSUME NEW u, Past(u, S, q) PROVE Before(u, x, S)
  <2>1. \A j \in DOMAIN u : u[j][1] < p /\ u[j][1] \in Nat
    <3>1. \A j \in DOMAIN u : u[j][1] < q[1].p /\ u[j][1] \in 1 .. Len(S)
      BY <1>1, <1>7, Zenon DEF Past
    <3> QED
      BY <1>1, <3>1
  <2> HIDE DEF p
  <2>2. \A j \in DOMAIN u : u[j][1] <= p
    BY <1>4, <2>1
  <2> QED
    BY <1>3, <2>2, Zenon DEF Before
<1>8. r.op = "P" => Lows(x, S)
  BY <1>2, <1>3 DEF Lows
<1>9. ASSUME r.op = "D", NEW v, Lows(v, S), Past(v, S, q) PROVE Before(x, v, S)
  <2>0. \A n \in 1 .. Len(S) : S[n] \in [id : Ids, low : BOOLEAN]
    <3> DEFINE D == [id : Ids, low : BOOLEAN]
    <3>1. S \in Seq(D)
      BY DEF Queued
    <3> HIDE DEF D
    <3>2. \A n \in 1 .. Len(S) : S[n] \in D
      BY <3>1
    <3> QED
      BY <3>2 DEF D
  <2>1. ~S[p].low /\ S[p].low \in BOOLEAN
    <3>1. S[p] \in [id : Ids, low : BOOLEAN]
      BY <1>2, <2>0
    <3> QED
      BY <1>2, <1>9, <3>1
  <2>2. \A j \in DOMAIN v : S[v[j][1]].low /\ S[v[j][1]].low \in BOOLEAN
    <3>1. \A j \in DOMAIN v : v[j][1] \in 1 .. Len(S)
      BY <1>9 DEF Past
    <3>2. \A j \in DOMAIN v : S[v[j][1]] \in [id : Ids, low : BOOLEAN]
      BY <2>0, <3>1
    <3>3. \A j \in DOMAIN v : S[v[j][1]].low \in BOOLEAN
      BY <3>2
    <3> QED
      BY <1>9, <3>3, Zenon DEF Lows
  <2>3. \A j \in DOMAIN v : S[p].low # S[v[j][1]].low
    BY <2>1, <2>2, Zenon
  <2> HIDE DEF p
  <2> QED
    BY <1>3, <2>3, Zenon DEF Before
<1> QED
  BY <1>6, <1>7, <1>8, <1>9 DEF x, z

\* The packet goes to the end of the high list.
LEMMA LinedHigh ==
  ASSUME NEW S, NEW q \in Seq(Requests), q # <<>>, Queued(S, q), NEW r, r = Head(q), Data(r),
         r.p \in Packets, NEW u \in Seq(Units), NEW v \in Seq(Units), Lined(u, v, S, q),
         v = <<>> \/ r.op = "D"
  PROVE  Lined(u \o Rest(r.p, 0), v, S, Tail(q))
<1> DEFINE x == Rest(r.p, 0)
           z == Tail(q)
<1>1. /\ Past(x, S, z) /\ Before(u, x, S) /\ (r.op = "D" => Before(x, v, S))
  BY PacketTaken DEF Lined
<1>2. x \in Seq(Units) /\ Whole(x) /\ Ordered(x, S)
  BY PacketUnits
<1>3. Lined(u, v, S, z)
  BY TakenLater, LaterLined
<1> HIDE DEF x, z
<1>4. Before(x, v, S)
  BY <1>1, EmptyLined
<1>5. Whole(u \o x) /\ Ordered(u \o x, S)
  BY <1>1, <1>2, <1>3, WholeJoin, OrderedJoin DEF Lined
<1>6. Past(u \o x, S, z) /\ Before(u \o x, v, S)
  BY <1>1, <1>2, <1>3, <1>4, UnitsJoin DEF Lined
<1> QED
  BY <1>3, <1>5, <1>6 DEF Lined, x, z

\* The packet goes to the end of the low list.
LEMMA LinedLow ==
  ASSUME NEW S, NEW q \in Seq(Requests), q # <<>>, Queued(S, q), NEW r, r = Head(q), r.op = "P",
         r.p \in Packets, NEW u \in Seq(Units), NEW v \in Seq(Units), Lined(u, v, S, q)
  PROVE  Lined(u, v \o Rest(r.p, 0), S, Tail(q))
<1> DEFINE x == Rest(r.p, 0)
           z == Tail(q)
<1>0. Data(r)
  BY DEF Data
<1>1. /\ Past(x, S, z) /\ Before(u, x, S) /\ Before(v, x, S) /\ Lows(x, S)
  BY <1>0, PacketTaken DEF Lined
<1>2. x \in Seq(Units) /\ Whole(x) /\ Ordered(x, S)
  BY PacketUnits
<1>3. Lined(u, v, S, z)
  BY TakenLater, LaterLined
<1> HIDE DEF x, z
<1>4. Whole(v \o x) /\ Ordered(v \o x, S)
  BY <1>1, <1>2, <1>3, WholeJoin, OrderedJoin DEF Lined
<1>5. Past(v \o x, S, z) /\ Before(u, v \o x, S) /\ Lows(v \o x, S)
  BY <1>1, <1>2, <1>3, UnitsJoin DEF Lined
<1> QED
  BY <1>3, <1>4, <1>5 DEF Lined, x, z

-----------------------------------------------------------------------------
(* What send_buffer writes.                                                *)

\* A list cut in two.
LEMMA CutList ==
  ASSUME NEW l \in Seq(Units), NEW m \in 0 .. Len(l)
  PROVE  /\ SubSeq(l, 1, m) \in Seq(Units) /\ SubSeq(l, m + 1, Len(l)) \in Seq(Units)
         /\ l = SubSeq(l, 1, m) \o SubSeq(l, m + 1, Len(l))
<1>1. SubSeq(l, 1, m) \in Seq(Units) /\ SubSeq(l, m + 1, Len(l)) \in Seq(Units)
  BY Prefix, Suffix
<1>2. Len(l) \in Nat /\ 1 \in 1 .. Len(l) + 1 /\ m \in 1 - 1 .. Len(l) /\ Len(l) \in m .. Len(l)
  OBVIOUS
<1>3. SubSeq(l, 1, m) \o SubSeq(l, m + 1, Len(l)) = SubSeq(l, 1, Len(l))
  BY <1>2, ConcatAdjacentSubSeq
<1>4. SubSeq(l, 1, Len(l)) = l
  BY SubSeqFull
<1> QED
  BY <1>1, <1>3, <1>4, Zenon

\* A front of the first list is a front of both.
LEMMA FrontOfFirst ==
  ASSUME NEW l \in Seq(Units), NEW x \in Seq(Units), NEW k \in 0 .. Len(l)
  PROVE  SubSeq(l \o x, 1, k) = SubSeq(l, 1, k)
<1> DEFINE r == l \o x
           a == Len(l)
           b == Len(x)
<1>1. r \in Seq(Units) /\ Len(r) = a + b /\ a \in Nat /\ b \in Nat /\ \A j \in 1 .. a : r[j] = l[j]
  BY Joined
<1> HIDE DEF r, a, b
<1>2. k \in 0 .. a /\ k \in 0 .. a + b
  BY <1>1 DEF a
<1>3. \A j \in 1 .. k : r[j] = l[j] /\ r[j] \in Units /\ l[j] \in Units
  <2>1. \A j \in 1 .. k : j \in 1 .. a /\ j \in 1 .. Len(r)
    BY <1>1, <1>2
  <2> QED
    BY <1>1, <2>1
<1>4. 1 \in Int /\ k \in Int /\ k - 1 + 1 = k /\ \A j \in 1 .. k : 1 + j - 1 = j
  BY <1>2
<1>5. /\ SubSeq(r, 1, k) \in Seq(Units) /\ Len(SubSeq(r, 1, k)) = IF 1 <= k THEN k - 1 + 1 ELSE 0
      /\ \A j \in 1 .. k - 1 + 1 : SubSeq(r, 1, k)[j] = r[1 + j - 1]
  BY <1>3, <1>4, SubSeqProperties
<1>6. /\ SubSeq(l, 1, k) \in Seq(Units) /\ Len(SubSeq(l, 1, k)) = IF 1 <= k THEN k - 1 + 1 ELSE 0
      /\ \A j \in 1 .. k - 1 + 1 : SubSeq(l, 1, k)[j] = l[1 + j - 1]
  BY <1>3, <1>4, SubSeqProperties
<1> DEFINE f == SubSeq(r, 1, k)
           g == SubSeq(l, 1, k)
<1> HIDE DEF f, g
<1>7. f \in Seq(Units) /\ g \in Seq(Units) /\ Len(f) = Len(g) /\ Len(f) = k
  BY <1>2, <1>4, <1>5, <1>6 DEF f, g
<1>8. \A j \in 1 .. Len(f) : f[j] = g[j]
  <2> SUFFICES ASSUME NEW j \in 1 .. k PROVE f[j] = g[j]
    BY <1>7
  <2>1. f[j] = r[j] /\ g[j] = l[j]
    BY <1>4, <1>5, <1>6 DEF f, g
  <2> QED
    BY <1>3, <2>1
<1>9. f = g
  BY <1>7, <1>8, SeqEqual
<1> QED
  BY <1>9 DEF f, g, r

\* A front of both lists that holds the first is the first and a front of the second.
LEMMA FrontOfBoth ==
  ASSUME NEW l \in Seq(Units), NEW x \in Seq(Units), NEW m \in 0 .. Len(x)
  PROVE  SubSeq(l \o x, 1, Len(l) + m) = l \o SubSeq(x, 1, m)
<1> DEFINE y == SubSeq(x, 1, m)
           w == SubSeq(x, m + 1, Len(x))
           f == l \o y
<1>1. y \in Seq(Units) /\ w \in Seq(Units) /\ x = y \o w /\ Len(y) = m
  BY CutList, Prefix
<1> HIDE DEF y, w
<1>2. l \o x = f \o w
  BY <1>1, ConcatAssociative
<1>3. f \in Seq(Units) /\ Len(f) = Len(l) + m /\ Len(f) \in Nat
  <2>1. f \in Seq(Units) /\ Len(f) = Len(l) + Len(y)
    BY <1>1, ConcatProperties
  <2> HIDE DEF f
  <2>2. Len(f) \in Nat
    BY <2>1
  <2> QED
    BY <1>1, <2>1, <2>2
<1> HIDE DEF f
<1>4. Len(f) \in 0 .. Len(f)
  BY <1>3
<1>5. SubSeq(f \o w, 1, Len(f)) = SubSeq(f, 1, Len(f))
  BY <1>1, <1>3, <1>4, FrontOfFirst
<1>6. SubSeq(f, 1, Len(f)) = f
  BY <1>3, SubSeqFull
<1> QED
  BY <1>2, <1>3, <1>5, <1>6 DEF f, y

\* The slot when the system has taken k units: the units sent and the lists that
\* are left, v being the part of the low list that has been sent.
LEMMA ShrunkUnits ==
  ASSUME NEW s, Sized(s), NEW k \in 0 .. Len(s.high) + Len(s.low), NEW t, t = Shrunk(s, k)
  PROVE  LET w == SubSeq(s.high \o s.low, 1, k) IN
         /\ w \in Seq(Units) /\ t.high \in Seq(Units) /\ t.low \in Seq(Units)
         /\ \E v \in Seq(Units) : /\ s.low = v \o t.low /\ s.high \o v = w \o t.high
                                  /\ t.high # <<>> => v = <<>>
<1> DEFINE h == s.high
           l == s.low
           a == Len(h)
           b == Len(l)
           w == SubSeq(h \o l, 1, k)
           m == IF k > a THEN k - a ELSE 0
<1>1. /\ s \in SlotRecord /\ h \in Seq(Units) /\ l \in Seq(Units) /\ a \in Nat /\ b \in Nat
      /\ s.wb_size \in Nat
  BY SlotFields DEF Sized
<1>2. Sized(t)
  BY ShrunkSlot, Zenon
<1>3. t.high \in Seq(Units) /\ t.low \in Seq(Units)
  BY <1>2, SlotFields DEF Sized
<1>4. t.high = SubSeq(h, k + 1, a) /\ t.low = SubSeq(l, m + 1, b)
  <2>1. t = [s EXCEPT !.high = SubSeq(h, k + 1, a), !.low = SubSeq(l, m + 1, b),
                      !.wb_size = s.wb_size - k]
    BY DEF Shrunk
  <2> HIDE DEF h, l, a, b, m
  <2> QED
    BY <1>1, <2>1 DEF SlotRecord
<1>5. k \in 0 .. a + b
  OBVIOUS
<1> HIDE DEF h, l, w, m
<1>6. CASE k <= a
  <2>1. m = 0 /\ k \in 0 .. a /\ 0 \in 0 .. b
    <3> HIDE DEF a, b
    <3> QED
      BY <1>1, <1>5, <1>6 DEF m
  <2>2. w = SubSeq(h, 1, k)
    BY <1>1, <2>1, FrontOfFirst DEF w
  <2>3. /\ SubSeq(h, 1, k) \in Seq(Units) /\ h = SubSeq(h, 1, k) \o SubSeq(h, k + 1, a)
    BY <1>1, <2>1, CutList
  <2>4. t.low = l
    <3>1. 0 + 1 = 1 /\ SubSeq(l, 1, b) = l
      BY <1>1, SubSeqFull
    <3> QED
      BY <1>4, <2>1, <3>1
  <2>5. <<>> \in Seq(Units) /\ l = <<>> \o t.low /\ h \o <<>> = w \o t.high
    <3>1. <<>> \o l = l /\ h \o <<>> = h
      BY <1>1, ConcatEmptySeq
    <3> QED
      BY <1>4, <2>2, <2>3, <2>4, <3>1, EmptyList
  <2> QED
    BY <1>3, <2>2, <2>3, <2>5 DEF h, l, w
<1>7. CASE k > a
  <2>1. m \in 0 .. b /\ k = a + m /\ k \in Nat /\ k >= a
    <3> HIDE DEF a, b
    <3> QED
      BY <1>1, <1>5, <1>7 DEF m
  <2> DEFINE v == SubSeq(l, 1, m)
  <2>2. v \in Seq(Units) /\ l = v \o SubSeq(l, m + 1, b)
    BY <1>1, <2>1, CutList
  <2>3. w = h \o v
    BY <1>1, <2>1, FrontOfBoth DEF w
  <2>4. t.high = <<>>
    BY <1>1, <1>4, <2>1, Exhausted
  <2> HIDE DEF v
  <2>5. h \o v \in Seq(Units) /\ (h \o v) \o <<>> = h \o v
    BY <1>1, <2>2, ConcatProperties, ConcatEmptySeq
  <2>6. w \in Seq(Units) /\ h \o v = w \o t.high /\ l = v \o t.low
    BY <1>4, <2>2, <2>3, <2>4, <2>5
  <2> QED
    BY <1>3, <2>2, <2>4, <2>6 DEF h, l, w
<1>8. k <= a \/ k > a
  <2> HIDE DEF a, b
  <2> QED
    BY <1>1, <1>5
<1> QED
  BY <1>6, <1>7, <1>8

\* The packet at the head of the low list, when it is raised, and what follows it.
LEMMA RaisedUnits ==
  ASSUME NEW s \in SlotRecord, list_uncomplete(s.low)
  PROVE  LET u == raise_uncomplete(s) IN
         /\ u.high \in Seq(Units) /\ u.low \in Seq(Units) /\ s.low = u.high \o u.low
         /\ u.high # <<>>
         /\ u.low # <<>> => u.high[Len(u.high)][1] # u.low[1][1]
<1> DEFINE l == s.low
           J == {j \in DOMAIN l : l[j][1] = Head(l)[1]}
           n == Max(J)
           u == raise_uncomplete(s)
<1>1. l \in Seq(Units) /\ l # <<>> /\ Len(l) \in Nat
  BY SlotFields DEF list_uncomplete
<1>2. u = [s EXCEPT !.high = SubSeq(l, 1, n), !.low = SubSeq(l, n + 1, Len(l))]
  BY DEF raise_uncomplete
<1> HIDE DEF l, u
<1>3. DOMAIN l = 1 .. Len(l) /\ 1 \in J /\ Len(l) > 0
  BY <1>1
<1>4. n \in J /\ \A y \in J : y <= n
  <2>1. J \in SUBSET (1 .. Len(l)) /\ J # {}
    BY <1>3
  <2> HIDE DEF J
  <2> QED
    BY <1>1, <2>1, MaxOfSet
<1> HIDE DEF n
<1>5. n \in 1 .. Len(l) /\ n \in 0 .. Len(l)
  BY <1>1, <1>3, <1>4
<1> DEFINE h == SubSeq(l, 1, n)
           r == SubSeq(l, n + 1, Len(l))
<1>6. h \in Seq(Units) /\ Len(h) = n /\ r \in Seq(Units) /\ l = h \o r
  BY <1>1, <1>5, Prefix, CutList
<1>7. u.high = h /\ u.low = r
  <2> HIDE DEF h, r
  <2> QED
    BY <1>2 DEF SlotRecord, h, r
<1> HIDE DEF h, r
<1>8. h # <<>>
  BY <1>5, <1>6, NoUnits
<1>9. ASSUME r # <<>> PROVE h[Len(h)][1] # r[1][1]
  <2> DEFINE b == Len(r)
  <2>1. /\ Len(l) = n + b /\ b \in Nat
        /\ \A j \in 1 .. n : l[j] = h[j]
        /\ \A j \in 1 .. b : l[n + j] = r[j]
    BY <1>6, Joined
  <2>2. b # 0
    BY <1>6, <1>9, NoUnits
  <2> HIDE DEF b
  <2>3. n \in 1 .. n /\ 1 \in 1 .. b /\ n + 1 \in 1 .. Len(l) /\ ~(n + 1 <= n)
    BY <1>5, <2>1, <2>2
  <2>4. l[n] = h[n] /\ l[n + 1] = r[1]
    BY <2>1, <2>3
  <2>5. n + 1 \notin J
    BY <1>4, <2>3
  <2> QED
    BY <1>3, <1>4, <1>6, <2>3, <2>4, <2>5
<1> QED
  BY <1>6, <1>7, <1>8, <1>9 DEF l, u

\* What send_buffer writes is a front of what the slot has to send, and leaves the
\* rest; v is the part of the low list that has been sent or raised.
SentUnits(s, o) ==
    /\ o.units \in Seq(Units) /\ o.s.high \in Seq(Units) /\ o.s.low \in Seq(Units)
    /\ \E x \in Seq(Units) : s.high \o s.low = o.units \o x
    /\ o.s.type # "INVALID" =>
          \E v \in Seq(Units) : /\ s.low = v \o o.s.low /\ s.high \o v = o.units \o o.s.high
                                /\ v # <<>> /\ o.s.low # <<>> => v[Len(v)][1] # o.s.low[1][1]

\* Concatenation of lists is associative.
LEMMA JoinAssoc ==
  \A a, b, c \in Seq(Units) : (a \o b) \o c = a \o (b \o c)
<1> SUFFICES ASSUME NEW a \in Seq(Units), NEW b \in Seq(Units), NEW c \in Seq(Units)
             PROVE  (a \o b) \o c = a \o (b \o c)
  OBVIOUS
<1> QED
  BY ConcatAssociative

\* What is left of one list and the next one is left of both.
LEMMA SentFront ==
  \A h, v, w, g, k \in Seq(Units) :
     h \o v = w \o g => h \o (v \o k) = w \o (g \o k)
<1> SUFFICES ASSUME NEW h \in Seq(Units), NEW v \in Seq(Units), NEW w \in Seq(Units),
                    NEW g \in Seq(Units), NEW k \in Seq(Units)
             PROVE  h \o v = w \o g => h \o (v \o k) = w \o (g \o k)
  BY Zenon
<1>1. (h \o v) \o k = h \o (v \o k)
  BY JoinAssoc
<1>2. (w \o g) \o k = w \o (g \o k)
  BY JoinAssoc
<1> QED
  BY <1>1, <1>2, Zenon

LEMMA SentList ==
  ASSUME NEW s, Sized(s), NEW k \in 0 .. Len(s.high) + Len(s.low), NEW err \in BOOLEAN,
         NEW o, o = SendOutcome(s, k, err), o.fail = "no"
  PROVE  SentUnits(s, o)
<1> DEFINE t == Shrunk(s, k)
           w == SubSeq(s.high \o s.low, 1, k)
<1>1. o = IF list_uncomplete(s.low) THEN Outcome(s, "none", "uncomplete", <<>>)
          ELSE IF err THEN
              IF s.type = "RESERVE" THEN Outcome(s, "none", "reserve", <<>>)
              ELSE Outcome(Closed(t), "CLOSE", "no", w)
          ELSE IF t.high # <<>> THEN Outcome(t, "none", "no", w)
          ELSE IF list_uncomplete(t.low) THEN Outcome(raise_uncomplete(t), "none", "no", w)
          ELSE IF t.low # <<>> \/ t.wb_size # 0 THEN Outcome(t, "none", "not_empty", w)
          ELSE Drained(t, w)
  BY Zenon DEF SendOutcome, Shrunk
<1>2. Sized(t) /\ t \in SlotRecord
  BY ShrunkSlot, Zenon DEF Sized
<1>3. s.high \in Seq(Units) /\ s.low \in Seq(Units)
  BY SlotFields DEF Sized
<1>4. w \in Seq(Units) /\ t.high \in Seq(Units) /\ t.low \in Seq(Units)
  BY ShrunkUnits
<1>5. PICK v \in Seq(Units) : /\ s.low = v \o t.low /\ s.high \o v = w \o t.high
                              /\ t.high # <<>> => v = <<>>
  BY ShrunkUnits
<1> HIDE DEF t, w
<1>6. \E x \in Seq(Units) : s.high \o s.low = w \o x
  <2>1. t.high \o t.low \in Seq(Units)
    BY <1>4, ConcatProperties
  <2>2. v \in Seq(Units)
    BY <1>5
  <2>3. s.high \o v = w \o t.high => s.high \o (v \o t.low) = w \o (t.high \o t.low)
    <3> DEFINE P(a, b, c, d, e) == a \o b = c \o d => a \o (b \o e) = c \o (d \o e)
    <3>1. \A a, b, c, d, e \in Seq(Units) : P(a, b, c, d, e)
      BY SentFront, Zenon
    <3> HIDE DEF P
    <3>2. P(s.high, v, w, t.high, t.low)
      BY <1>3, <1>4, <2>2, <3>1, Zenon
    <3> QED
      BY <3>2, Zenon DEF P
  <2>4. s.high \o s.low = w \o (t.high \o t.low)
    BY <1>5, <2>3
  <2> QED
    BY <2>1, <2>4
<1>7. ~list_uncomplete(s.low)
  <2>1. ASSUME list_uncomplete(s.low) PROVE FALSE
    <3>1. o = Outcome(s, "none", "uncomplete", <<>>)
      BY <1>1, <2>1, Zenon
    <3> QED
      BY <3>1, OutcomeFields
  <2> QED
    BY <2>1
<1>8. CASE err
  <2>1. s.type # "RESERVE"
    <3>1. ASSUME s.type = "RESERVE" PROVE FALSE
      <4>1. o = Outcome(s, "none", "reserve", <<>>)
        BY <1>1, <1>7, <1>8, <3>1, Zenon
      <4> QED
        BY <4>1, OutcomeFields
    <3> QED
      BY <3>1
  <2>2. o = Outcome(Closed(t), "CLOSE", "no", w)
    BY <1>1, <1>7, <1>8, <2>1, Zenon
  <2>3. o.s = Closed(t) /\ o.units = w
    BY <2>2, OutcomeFields
  <2>4. Closed(t).type = "INVALID" /\ Closed(t).high \in Seq(Units) /\ Closed(t).low \in Seq(Units)
    BY <1>2, ClosedSlot, SlotFields
  <2> QED
    BY <1>4, <1>6, <2>3, <2>4 DEF SentUnits
<1>9. CASE ~err /\ t.high # <<>>
  <2>1. o = Outcome(t, "none", "no", w)
    BY <1>1, <1>7, <1>9, Zenon
  <2>2. o.s = t /\ o.units = w
    BY <2>1, OutcomeFields
  <2>3. v = <<>>
    BY <1>5, <1>9
  <2> QED
    BY <1>4, <1>5, <1>6, <2>2, <2>3 DEF SentUnits
<1>10. CASE ~err /\ t.high = <<>> /\ list_uncomplete(t.low)
  <2> DEFINE u == raise_uncomplete(t)
  <2>1. o = Outcome(u, "none", "no", w)
    BY <1>1, <1>7, <1>10, Zenon
  <2>2. /\ u.high \in Seq(Units) /\ u.low \in Seq(Units) /\ t.low = u.high \o u.low
        /\ u.high # <<>>
        /\ u.low # <<>> => u.high[Len(u.high)][1] # u.low[1][1]
    BY <1>2, <1>10, RaisedUnits
  <2> HIDE DEF u
  <2>3. o.s = u /\ o.units = w
    BY <2>1, OutcomeFields
  <2> DEFINE y == v \o u.high
  <2>4. y \in Seq(Units) /\ s.low = y \o u.low
    <3>1. v \o (u.high \o u.low) = (v \o u.high) \o u.low
      BY <1>5, <2>2, JoinAssoc, Zenon
    <3> QED
      BY <1>5, <2>2, <3>1, ConcatProperties
  <2>5. s.high \o y = w \o u.high
    <3>1. s.high \o (v \o u.high) = (s.high \o v) \o u.high
      BY <1>3, <1>5, <2>2, JoinAssoc, Zenon
    <3>2. w \o t.high = w
      BY <1>4, <1>10, ConcatEmptySeq
    <3> QED
      BY <1>5, <3>1, <3>2
  <2>6. y[Len(y)] = u.high[Len(u.high)]
    <3> DEFINE g == u.high
               a == Len(v)
               b == Len(g)
    <3>1. /\ Len(y) = a + b /\ b \in Nat /\ \A j \in 1 .. b : y[a + j] = g[j]
      BY <1>5, <2>2, Joined
    <3>2. b # 0
      BY <2>2, NoUnits
    <3> HIDE DEF y, g, a, b
    <3>3. b \in 1 .. b
      BY <3>1, <3>2
    <3>4. y[a + b] = g[b]
      BY <3>1, <3>3
    <3> QED
      BY <3>1, <3>4 DEF g, b
  <2> HIDE DEF y
  <2> QED
    BY <1>4, <1>6, <2>2, <2>3, <2>4, <2>5, <2>6 DEF SentUnits
<1>11. CASE /\ ~err /\ t.high = <<>> /\ ~list_uncomplete(t.low)
            /\ t.low # <<>> \/ t.wb_size # 0
  <2>1. o = Outcome(t, "none", "not_empty", w)
    BY <1>1, <1>7, <1>11, Zenon
  <2> QED
    BY <2>1, OutcomeFields
<1>12. CASE /\ ~err /\ t.high = <<>> /\ ~list_uncomplete(t.low)
            /\ t.low = <<>> /\ t.wb_size = 0
  <2>1. o = Drained(t, w)
    BY <1>1, <1>7, <1>12, Zenon
  <2>2. PICK u, type : /\ o = Outcome(u, type, "no", w)
                       /\ \/ u = Closed(t)
                          \/ u = [t EXCEPT !.out = FALSE, !.warn_size = 0]
                          \/ u = [t EXCEPT !.out = FALSE]
    BY <2>1, Zenon DEF Drained
  <2>3. o.s = u /\ o.units = w
    BY <2>2, OutcomeFields
  <2>4. u.high = <<>> /\ u.low = <<>>
    BY <1>2, <1>12, <2>2 DEF Closed, SlotRecord
  <2>5. s.low = v \o u.low /\ s.high \o v = w \o u.high
    BY <1>5, <1>12, <2>4
  <2> QED
    BY <1>4, <1>5, <1>6, <2>3, <2>4, <2>5, EmptyList DEF SentUnits
<1> QED
  BY <1>8, <1>9, <1>10, <1>11, <1>12

\* send_buffer keeps the line of its socket; W is what the socket has sent before.
LEMMA SentLined ==
  ASSUME NEW s, Sized(s), NEW o, SentUnits(s, o), NEW W \in Seq(Units), NEW S, NEW q,
         Lined(W \o s.high, s.low, S, q)
  PROVE  /\ W \o o.units \in Seq(Units) /\ Sound(W \o o.units, S, q)
         /\ o.s.type # "INVALID" => Lined((W \o o.units) \o o.s.high, o.s.low, S, q)
<1> DEFINE h == s.high
           l == s.low
           u == o.units
           g == o.s.high
           k == o.s.low
<1>1. h \in Seq(Units) /\ l \in Seq(Units) /\ u \in Seq(Units) /\ g \in Seq(Units) /\ k \in Seq(Units)
  BY SlotFields DEF Sized, SentUnits
<1>2. PICK x \in Seq(Units) : h \o l = u \o x
  BY DEF SentUnits
<1>3. Lined(W \o h, l, S, q)
  OBVIOUS
<1>4. o.s.type # "INVALID" => \E v \in Seq(Units) : /\ l = v \o k /\ h \o v = u \o g
                                                    /\ v # <<>> /\ k # <<>> => v[Len(v)][1] # k[1][1]
  BY DEF SentUnits
<1> HIDE DEF h, l, u, g, k
<1>5. W \o h \in Seq(Units) /\ W \o u \in Seq(Units)
  BY <1>1, ConcatProperties
<1>6. Sound(W \o u, S, q)
  <2>1. Sound((W \o h) \o l, S, q)
    BY <1>1, <1>3, <1>5, LinedSound
  <2>2. (W \o h) \o l = W \o (h \o l) /\ (W \o u) \o x = W \o (u \o x)
    <3>1. (W \o h) \o l = W \o (h \o l)
      BY <1>1, JoinAssoc
    <3>2. (W \o u) \o x = W \o (u \o x)
      BY <1>1, <1>2, JoinAssoc
    <3> QED
      BY <3>1, <3>2
  <2>3. Sound((W \o u) \o x, S, q)
    BY <1>2, <2>1, <2>2
  <2> QED
    BY <1>2, <1>5, <2>3, SoundPart
<1>7. \A v \in Seq(Units) : (W \o h) \o v = W \o (h \o v)
  BY <1>1, JoinAssoc
<1>8. (W \o u) \o g = W \o (u \o g)
  BY <1>1, JoinAssoc, Zenon
<1>9. ASSUME o.s.type # "INVALID" PROVE Lined((W \o u) \o g, k, S, q)
  <2>1. PICK v \in Seq(Units) : /\ l = v \o k /\ h \o v = u \o g
                                /\ v # <<>> /\ k # <<>> => v[Len(v)][1] # k[1][1]
    BY <1>4, <1>9
  <2>2. Lined((W \o h) \o v, k, S, q)
    BY <1>1, <1>3, <1>5, <2>1, LinedMoved
  <2>3. (W \o h) \o v = W \o (h \o v)
    BY <1>7
  <2>4. (W \o h) \o v = (W \o u) \o g
    BY <1>8, <2>1, <2>3
  <2> QED
    BY <2>2, <2>4, Zenon
<1> QED
  BY <1>5, <1>6, <1>9 DEF u, g, k

-----------------------------------------------------------------------------
(* Steps that leave the wire as it was, or add to it.                      *)

\* The slot of a socket still has what follows on the wire.
LEMMA QuietWire ==
  ASSUME WireInv, Queued(sent', pipe'), Later(sent, pipe, sent', pipe'), wire' = wire, UnopenedInv',
         \A j \in SlotIx : slot'[j].type \notin Unused =>
            /\ slot[j].type \notin Unused /\ slot'[j].id = slot[j].id
            /\ slot'[j].high = slot[j].high /\ slot'[j].low = slot[j].low
  PROVE  WireInv'
<1>1. wire' \in [Ids -> Seq(Units)]
  BY DEF WireInv
<1>2. \A id \in Ids : Sound(wire'[id], sent', pipe')
  BY LaterLined DEF WireInv
<1>3. ASSUME NEW j \in SlotIx, slot'[j].type \notin Unused
      PROVE  Lined(wire'[slot'[j].id] \o slot'[j].high, slot'[j].low, sent', pipe')
  <2> DEFINE u == wire[slot[j].id] \o slot[j].high
             v == slot[j].low
  <2>1. Lined(u, v, sent, pipe)
    BY <1>3 DEF WireInv, SlotLined
  <2>2. u = wire'[slot'[j].id] \o slot'[j].high /\ v = slot'[j].low
    BY <1>3
  <2> HIDE DEF u, v
  <2>3. Lined(u, v, sent', pipe')
    BY <2>1, LaterLined
  <2> QED
    BY <2>2, <2>3
<1> QED
  BY <1>1, <1>2, <1>3 DEF WireInv, SlotLined

\* One slot changes, and with it what its socket has sent.
LEMMA SlotWire ==
  ASSUME SocketInv, ~raced, WireInv, Queued(sent', pipe'), Later(sent, pipe, sent', pipe'),
         UnopenedInv', NEW id \in Ids, NEW t, slot' = [slot EXCEPT ![Hash(id)] = t], wire' \in [Ids -> Seq(Units)],
         \A x \in Ids : x # id => wire'[x] = wire[x], Sound(wire'[id], sent', pipe'),
         t.type \notin Unused => t.id = id /\ Lined(wire'[id] \o t.high, t.low, sent', pipe')
  PROVE  WireInv'
<1> DEFINE i == Hash(id)
<1>1. slot \in [SlotIx -> SlotRecord] /\ known \subseteq Ids /\ IdInv /\ i \in SlotIx
  BY HashIx DEF SocketInv, TypeInv, CalmInv, Ids
<1>2. slot'[i] = t /\ \A j \in SlotIx : j # i => slot'[j] = slot[j]
  BY <1>1
<1>3. \A x \in Ids : Sound(wire'[x], sent', pipe')
  <2>1. \A x \in Ids : Sound(wire[x], sent', pipe')
    BY LaterLined DEF WireInv
  <2> QED
    BY <2>1
<1>4. ASSUME NEW j \in SlotIx, slot'[j].type \notin Unused
      PROVE  Lined(wire'[slot'[j].id] \o slot'[j].high, slot'[j].low, sent', pipe')
  <2>1. CASE j = i
    BY <1>2, <1>4, <2>1
  <2>2. CASE j # i
    <3>1. slot'[j] = slot[j] /\ slot[j].type \notin Unused
      BY <1>2, <1>4, <2>2
    <3>2. slot[j].id \in Ids /\ slot[j].id # id
      BY <1>1, <2>2, <3>1 DEF IdInv
    <3> DEFINE u == wire[slot[j].id] \o slot[j].high
               v == slot[j].low
    <3>3. Lined(u, v, sent, pipe)
      BY <3>1 DEF WireInv, SlotLined
    <3>4. u = wire'[slot'[j].id] \o slot'[j].high /\ v = slot'[j].low
      BY <3>1, <3>2
    <3> HIDE DEF u, v
    <3>5. Lined(u, v, sent', pipe')
      BY <3>3, LaterLined
    <3> QED
      BY <3>4, <3>5
  <2> QED
    BY <2>1, <2>2
<1> QED
  BY <1>3, <1>4 DEF WireInv, SlotLined

\* The socket thread handles a command or an event.
PollFrame ==
    /\ sent' = sent /\ rsv' = rsv /\ alloc_id' \in Nat /\ alloc_id' >= alloc_id
    /\ pipe' = pipe \/ (pipe # <<>> /\ pipe' = Tail(pipe))

LEMMA PollTime ==
  ASSUME SocketInv, WireInv, PollFrame
  PROVE  /\ Queued(sent', pipe') /\ Later(sent, pipe, sent', pipe')
         /\ \A n \in DOMAIN pipe' : \E m \in DOMAIN pipe : pipe'[n] = pipe[m]
<1>1. pipe \in Seq(Requests) /\ Queued(sent, pipe) /\ sent' = sent
  BY DEF SocketInv, TypeInv, WireInv, PollFrame
<1>2. CASE pipe' = pipe
  BY <1>1, <1>2, SameLater
<1>3. CASE pipe # <<>> /\ pipe' = Tail(pipe)
  <2>1. \A n \in DOMAIN pipe' : n + 1 \in DOMAIN pipe /\ pipe'[n] = pipe[n + 1]
    BY <1>1, <1>3, TailSeq
  <2> QED
    BY <1>1, <1>3, <2>1, TakenLater
<1> QED
  BY <1>2, <1>3 DEF PollFrame

\* Only an open socket sends.
LEMMA PollUnopened ==
  ASSUME SocketInv, failed = "no", ~raced, WireInv, PollFrame,
         NEW id \in Ids, \A x \in Ids : x # id => wire'[x] = wire[x],
         \/ wire' = wire
         \/ slot[Hash(id)].type \notin Unused /\ slot[Hash(id)].id = id
  PROVE  UnopenedInv'
<1>1. /\ TypeInv /\ FreshInv /\ ClaimInv /\ IdInv /\ UnopenedInv
      /\ alloc_id \in Nat /\ alloc_id' \in Nat /\ alloc_id' >= alloc_id /\ rsv' = rsv
      /\ \A n \in DOMAIN pipe' : \E m \in DOMAIN pipe : pipe'[n] = pipe[m]
  BY PollTime, SocketAssumption DEF SocketInv, CalmInv, TypeInv, WireInv, PollFrame
<1>2. Hash(id) \in SlotIx
  BY HashIx DEF Ids
<1>3. ASSUME NEW m \in DOMAIN pipe, Opens(pipe[m]) PROVE wire'[pipe[m].id] = <<>>
  <2>1. wire[pipe[m].id] = <<>> /\ slot[Hash(pipe[m].id)].type \in Unused
    BY <1>1, <1>3 DEF UnopenedInv, ClaimInv, Unused
  <2>2. pipe[m].id \in Ids
    BY <1>1 DEF FreshInv, TypeInv
  <2> QED
    BY <2>1, <2>2
<1>4. ASSUME NEW w \in Services, rsv[w].pc = "store" PROVE wire'[rsv[w].id] = <<>>
  <2>1. wire[rsv[w].id] = <<>> /\ slot[Hash(rsv[w].id)].type \in Unused
    BY <1>1, <1>4 DEF UnopenedInv, ClaimInv, Unused
  <2>2. rsv[w].id \in Ids
    BY <1>1, <1>4 DEF FreshInv
  <2> QED
    BY <2>1, <2>2
<1>5. ASSUME NEW x \in Ids, x > alloc_id' PROVE wire'[x] = <<>>
  <2>1. x \in Nat /\ x > alloc_id
    BY <1>1, <1>5 DEF Ids
  <2>2. wire[x] = <<>>
    BY <1>1, <2>1 DEF UnopenedInv
  <2>3. CASE wire' = wire
    BY <2>2, <2>3
  <2>4. CASE slot[Hash(id)].type \notin Unused /\ slot[Hash(id)].id = id
    <3>1. id \in known
      BY <1>1, <1>2, <2>4 DEF IdInv
    <3>2. id \in Nat /\ id <= alloc_id
      BY <1>1, <3>1 DEF FreshInv, Ids
    <3>3. x # id
      BY <1>1, <2>1, <3>2
    <3> QED
      BY <2>2, <3>3
  <2> QED
    BY <2>3, <2>4
<1> QED
  BY <1>1, <1>3, <1>4, <1>5 DEF UnopenedInv

\* Nothing is sent, and no slot has other lists than before.
LEMMA PollQuiet ==
  ASSUME SocketInv, failed = "no", ~raced, WireInv, PollFrame, wire' = wire,
         \A j \in SlotIx : slot'[j].type \notin Unused =>
            /\ slot[j].type \notin Unused /\ slot'[j].id = slot[j].id
            /\ slot'[j].high = slot[j].high /\ slot'[j].low = slot[j].low
  PROVE  WireInv'
<1>1. Queued(sent', pipe') /\ Later(sent, pipe, sent', pipe')
  BY PollTime
<1>2. UnopenedInv'
  <2>1. CASE Ids = {}
    <3>1. TypeInv /\ FreshInv /\ \A n \in DOMAIN pipe' : \E m \in DOMAIN pipe : pipe'[n] = pipe[m]
      BY PollTime DEF SocketInv
    <3>2. /\ \A n \in DOMAIN pipe : pipe[n].id \in Ids
          /\ \A w \in Services : rsv[w].pc = "store" => rsv[w].id \in Ids
      BY <3>1 DEF TypeInv, FreshInv
    <3> QED
      BY <2>1, <3>1, <3>2 DEF UnopenedInv, PollFrame
  <2>2. CASE \E id : id \in Ids
    BY <2>2, PollUnopened
  <2> QED
    BY <2>1, <2>2
<1> QED
  BY <1>1, <1>2, QuietWire

\* One slot is freed, or is used as before.
LEMMA PollKept ==
  ASSUME SocketInv, failed = "no", ~raced, WireInv, PollFrame, wire' = wire,
         NEW i \in SlotIx, NEW t, slot' = [slot EXCEPT ![i] = t],
         t.type \notin Unused => /\ slot[i].type \notin Unused /\ t.id = slot[i].id
                                 /\ t.high = slot[i].high /\ t.low = slot[i].low
  PROVE  WireInv'
<1>1. slot \in [SlotIx -> SlotRecord]
  BY DEF SocketInv, TypeInv
<1>2. slot'[i] = t /\ \A j \in SlotIx : j # i => slot'[j] = slot[j]
  BY <1>1
<1>3. \A j \in SlotIx : slot'[j].type \notin Unused =>
         /\ slot[j].type \notin Unused /\ slot'[j].id = slot[j].id
         /\ slot'[j].high = slot[j].high /\ slot'[j].low = slot[j].low
  <2> SUFFICES ASSUME NEW j \in SlotIx, slot'[j].type \notin Unused
               PROVE  /\ slot[j].type \notin Unused /\ slot'[j].id = slot[j].id
                      /\ slot'[j].high = slot[j].high /\ slot'[j].low = slot[j].low
    OBVIOUS
  <2>1. CASE j = i
    BY <1>2, <2>1
  <2>2. CASE j # i
    BY <1>2, <2>2
  <2> QED
    BY <2>1, <2>2
<1> QED
  BY <1>3, PollQuiet

\* One slot is given to a socket that has sent nothing.
LEMMA PollNew ==
  ASSUME SocketInv, failed = "no", ~raced, WireInv, PollFrame, wire' = wire,
         NEW id \in Ids, NEW t, slot' = [slot EXCEPT ![Hash(id)] = t],
         t.id = id, t.high = <<>>, t.low = <<>>, wire[id] = <<>>
  PROVE  WireInv'
<1>1. Queued(sent', pipe') /\ Later(sent, pipe, sent', pipe') /\ UnopenedInv'
  BY PollTime, PollUnopened
<1>2. Hash(id) \in SlotIx
  BY HashIx DEF Ids
<1>3. wire' \in [Ids -> Seq(Units)]
  BY DEF WireInv
<1>4. wire'[id] \o t.high = <<>>
  <2>1. <<>> \o <<>> = <<>>
    BY EmptyList, ConcatEmptySeq
  <2> QED
    BY <2>1
<1>5. Sound(wire'[id], sent', pipe') /\ Lined(wire'[id] \o t.high, t.low, sent', pipe')
  <2>1. Sound(<<>>, sent', pipe') /\ Lined(<<>>, <<>>, sent', pipe')
    BY EmptyLined
  <2> QED
    BY <1>4, <2>1
<1> QED
  BY <1>1, <1>2, <1>3, <1>5, SlotWire

\* The socket in slot i sends the units u.
LEMMA PollSent ==
  ASSUME SocketInv, failed = "no", ~raced, WireInv, PollFrame, NEW i \in SlotIx,
         slot[i].type \notin Unused, NEW id, id = slot[i].id, NEW t, slot' = [slot EXCEPT ![i] = t],
         NEW u, wire' = [wire EXCEPT ![id] = @ \o u], wire[id] \o u \in Seq(Units),
         Sound(wire[id] \o u, sent, pipe'),
         t.type \notin Unused => /\ t.id = id
                                 /\ Lined((wire[id] \o u) \o t.high, t.low, sent, pipe')
  PROVE  WireInv'
<1>1. known \subseteq Ids /\ IdInv /\ wire \in [Ids -> Seq(Units)] /\ sent' = sent
  BY DEF SocketInv, TypeInv, CalmInv, WireInv, PollFrame
<1>2. id \in Ids /\ Hash(id) = i
  BY <1>1 DEF IdInv
<1> DEFINE W == wire[id] \o u
<1>3. wire' = [wire EXCEPT ![id] = W] /\ W \in Seq(Units)
  OBVIOUS
<1> HIDE DEF W
<1>4. /\ wire' \in [Ids -> Seq(Units)] /\ wire'[id] = W
      /\ \A x \in Ids : x # id => wire'[x] = wire[x]
  BY <1>1, <1>2, <1>3
<1>5. UnopenedInv'
  BY <1>2, <1>4, PollUnopened
<1>6. Queued(sent', pipe') /\ Later(sent, pipe, sent', pipe')
  BY PollTime
<1>7. /\ Sound(wire'[id], sent', pipe')
      /\ t.type \notin Unused => t.id = id /\ Lined(wire'[id] \o t.high, t.low, sent', pipe')
  BY <1>1, <1>4 DEF W
<1>8. slot' = [slot EXCEPT ![Hash(id)] = t]
  BY <1>2
<1> QED
  BY <1>2, <1>4, <1>5, <1>6, <1>7, <1>8, SlotWire

-----------------------------------------------------------------------------
(* Commands and the wire.                                                  *)

LEMMA CommandFrame ==
  ASSUME SocketInv, NEW op, Command(op)
  PROVE  PollFrame
<1>1. alloc_id \in Nat
  BY SocketAssumption DEF SocketInv, TypeInv
<1> QED
  BY <1>1 DEF Command, PollFrame

\* The fields of a slot that new_fd fills in.
LEMMA NewFields ==
  ASSUME NEW id, NEW type, NEW opaque, NEW t,
         t = NewFd(id, type, opaque) \/ t = [NewFd(id, type, opaque) EXCEPT !.out = TRUE]
  PROVE  t.id = id /\ t.high = <<>> /\ t.low = <<>>
  BY DEF NewFd, FreeSlot

LEMMA OpenWire ==
  ASSUME SocketInv, failed = "no", ~raced', WireInv, open_socket \/ listen_socket
  PROVE  WireInv'
<1> DEFINE r == Head(pipe)
           i == Hash(r.id)
<1>1. /\ Command("O") \/ Command("L")
      /\ raced' = raced /\ pipe # <<>> /\ r.op \in {"O", "L"}
  BY DEF open_socket, listen_socket, Command
<1>2. PollFrame
  BY <1>1, CommandFrame
<1>3. /\ r = pipe[1] /\ 1 \in DOMAIN pipe /\ r.id \in Ids /\ i \in SlotIx
      /\ slot \in [SlotIx -> SlotRecord]
  BY <1>1, HeadCommand DEF SocketInv, TypeInv
<1>4. wire[r.id] = <<>>
  BY <1>1, <1>3 DEF WireInv, UnopenedInv, Opens
<1>5. CASE slot' = [slot EXCEPT ![i].type = "INVALID"] /\ wire' = wire
  <2> DEFINE t == [slot[i] EXCEPT !.type = "INVALID"]
  <2>1. slot' = [slot EXCEPT ![i] = t]
    BY <1>3, <1>5
  <2>2. t.type \in Unused
    BY <1>3 DEF SlotRecord, Unused
  <2> HIDE DEF t, i
  <2> QED
    BY <1>1, <1>2, <1>3, <1>5, <2>1, <2>2, PollKept
<1>6. ASSUME NEW type, NEW opaque, NEW t,
             t = NewFd(r.id, type, opaque) \/ t = [NewFd(r.id, type, opaque) EXCEPT !.out = TRUE],
             slot' = [slot EXCEPT ![i] = t], wire' = wire
      PROVE  WireInv'
  <2>1. t.id = r.id /\ t.high = <<>> /\ t.low = <<>>
    BY <1>6, NewFields
  <2> HIDE DEF r
  <2> QED
    BY <1>1, <1>2, <1>3, <1>4, <1>6, <2>1, PollNew
<1>7. CASE slot' = slot /\ wire' = wire
  BY <1>1, <1>2, <1>7, PollQuiet
<1>8. CASE open_socket
  <2>1. \/ slot' = [slot EXCEPT ![i].type = "INVALID"] /\ wire' = wire
        \/ slot' = [slot EXCEPT ![i] = NewFd(r.id, "CONNECTED", r.opaque)] /\ wire' = wire
        \/ /\ slot' = [slot EXCEPT ![i] = [NewFd(r.id, "CONNECTING", r.opaque) EXCEPT !.out = TRUE]]
           /\ wire' = wire
        \/ slot' = slot /\ wire' = wire
    BY <1>8, Zenon DEF open_socket, AddFails, Fail
  <2> HIDE DEF r, i
  <2> QED
    BY <1>5, <1>6, <1>7, <2>1
<1>9. CASE listen_socket
  <2>1. \/ slot' = [slot EXCEPT ![i] = NewFd(r.id, "PLISTEN", r.opaque)] /\ wire' = wire
        \/ slot' = slot /\ wire' = wire
    BY <1>9, Zenon DEF listen_socket, Fail
  <2> HIDE DEF r, i
  <2> QED
    BY <1>6, <1>7, <2>1
<1> QED
  BY <1>8, <1>9

LEMMA StartWire ==
  ASSUME SocketInv, failed = "no", ~raced', WireInv, start_socket
  PROVE  WireInv'
<1> DEFINE r == Head(pipe)
           i == Hash(r.id)
           s == slot[i]
<1>1. Command("S") /\ raced' = raced /\ pipe # <<>> /\ wire' = wire
  BY DEF start_socket, Command
<1>2. PollFrame
  BY <1>1, CommandFrame
<1>3. i \in SlotIx /\ slot \in [SlotIx -> SlotRecord] /\ s \in SlotRecord
  BY <1>1, HeadCommand DEF SocketInv, TypeInv
<1>4. CASE slot' = slot
  BY <1>1, <1>2, <1>4, PollQuiet
<1>5. CASE slot' = [slot EXCEPT ![i] = Closed(s)]
  <2>1. Closed(s).type \in Unused
    BY <1>3, ClosedSlot DEF Unused
  <2> HIDE DEF i, s
  <2> QED
    BY <1>1, <1>2, <1>3, <1>5, <2>1, PollKept
<1>6. ASSUME NEW type, s.type \in {"PACCEPT", "PLISTEN", "CONNECTED"},
             slot' = [slot EXCEPT ![i].type = type, ![i].opaque = r.opaque]
      PROVE  WireInv'
  <2> DEFINE t == [s EXCEPT !.type = type, !.opaque = r.opaque]
  <2>1. slot' = [slot EXCEPT ![i] = t]
    BY <1>3, <1>6
  <2>2. t.id = s.id /\ t.high = s.high /\ t.low = s.low
    BY <1>3 DEF SlotRecord
  <2>3. slot[i].type \notin Unused /\ t.id = slot[i].id /\ t.high = slot[i].high /\ t.low = slot[i].low
    BY <1>6, <2>2 DEF Unused
  <2> HIDE DEF t, i, s
  <2> QED
    BY <1>1, <1>2, <1>3, <2>1, <2>3, PollKept
<1>7. CASE s.type = "CONNECTED" /\ slot' = [slot EXCEPT ![i] = Transfer(s, r.opaque)]
  <2> DEFINE t == Transfer(s, r.opaque)
  <2>1. t.id = slot[i].id /\ t.high = slot[i].high /\ t.low = slot[i].low
    BY <1>3 DEF SlotRecord, Transfer
  <2>2. slot' = [slot EXCEPT ![i] = t] /\ slot[i].type \notin Unused
    BY <1>7 DEF Unused
  <2> HIDE DEF t, i, s
  <2> QED
    BY <1>1, <1>2, <1>3, <2>1, <2>2, PollKept
<1>8. \/ slot' = slot
      \/ slot' = [slot EXCEPT ![i] = Closed(s)]
      \/ /\ s.type \in {"PACCEPT", "PLISTEN"}
         /\ slot' = [slot EXCEPT ![i].type = IF s.type = "PACCEPT" THEN "CONNECTED" ELSE "LISTEN",
                                 ![i].opaque = r.opaque]
      \/ s.type = "CONNECTED" /\ slot' = [slot EXCEPT ![i] = Transfer(s, r.opaque)]
  BY Zenon DEF start_socket
<1> HIDE DEF r, i, s
<1> QED
  BY <1>4, <1>5, <1>6, <1>7, <1>8

\* The units that a closing or flushed socket has sent.
LEMMA OutcomeUnits ==
  ASSUME NEW s, Sized(s), NEW o, o.fail = "no",
         o \in IF send_buffer_empty(s) THEN {Outcome(s, "none", "no", <<>>)} ELSE send_buffer(s)
  PROVE  SentUnits(s, o) /\ SentOK(s, o)
<1>1. s.high \in Seq(Units) /\ s.low \in Seq(Units)
  BY SlotFields DEF Sized
<1>2. CASE send_buffer_empty(s)
  <2>1. o = Outcome(s, "none", "no", <<>>)
    BY <1>2
  <2>2. o.s = s /\ o.units = <<>> /\ o.type = "none"
    BY <2>1, OutcomeFields
  <2>3. s.high = <<>> /\ s.low = <<>> /\ <<>> \o <<>> = <<>>
    BY <1>2, EmptyList, ConcatEmptySeq DEF send_buffer_empty
  <2>4. /\ <<>> \in Seq(Units) /\ s.low = <<>> \o o.s.low /\ s.high \o <<>> = o.units \o o.s.high
        /\ s.high \o s.low = o.units \o <<>>
    BY <2>2, <2>3, EmptyList
  <2>5. SentUnits(s, o)
    BY <1>1, <2>2, <2>4 DEF SentUnits
  <2> QED
    BY <2>2, <2>5 DEF SentOK
<1>3. CASE ~send_buffer_empty(s)
  <2>1. o \in send_buffer(s)
    BY <1>3
  <2>2. PICK w \in Writes(s) : o = SendOutcome(s, w.k, w.err)
    BY <2>1 DEF send_buffer
  <2>3. w.k \in 0 .. Len(s.high) + Len(s.low) /\ w.err \in BOOLEAN
    BY DEF Writes
  <2> QED
    BY <2>2, <2>3, Sent, SentList
<1> QED
  BY <1>2, <1>3

\* The socket in slot i has sent what o says, and is closed or goes on.
LEMMA OutcomeWire ==
  ASSUME SocketInv, failed = "no", ~raced, WireInv, PollFrame, NEW i \in SlotIx,
         slot[i].type \notin Unused, NEW o, SentUnits(slot[i], o), SentOK(slot[i], o),
         NEW t, slot' = [slot EXCEPT ![i] = t],
         \/ t.type \in Unused
         \/ /\ o.s.type # "INVALID" /\ t.id = o.s.id
            /\ t.high = o.s.high /\ t.low = o.s.low,
         wire' = [wire EXCEPT ![slot[i].id] = @ \o o.units]
  PROVE  WireInv'
<1> DEFINE s == slot[i]
           id == s.id
           W == wire[id]
<1>1. Sized(s) /\ id \in Ids /\ wire \in [Ids -> Seq(Units)] /\ W \in Seq(Units)
  BY DEF SocketInv, TypeInv, CalmInv, IdInv, WireInv
<1>2. Lined(W \o s.high, s.low, sent, pipe)
  BY DEF WireInv, SlotLined
<1>3. /\ W \o o.units \in Seq(Units) /\ Sound(W \o o.units, sent, pipe)
      /\ o.s.type # "INVALID" => Lined((W \o o.units) \o o.s.high, o.s.low, sent, pipe)
  <2> HIDE DEF s, W
  <2> QED
    BY <1>1, <1>2, SentLined DEF s
<1>4. Later(sent, pipe, sent, pipe')
  BY PollTime DEF PollFrame
<1>5. Sound(W \o o.units, sent, pipe')
  BY <1>3, <1>4, LaterLined
<1>6. ASSUME t.type \notin Unused
      PROVE  t.id = id /\ Lined((W \o o.units) \o t.high, t.low, sent, pipe')
  <2>1. o.s.type # "INVALID" /\ t.id = o.s.id /\ t.high = o.s.high /\ t.low = o.s.low /\ o.s.id = id
    BY <1>6 DEF SentOK
  <2>2. Lined((W \o o.units) \o o.s.high, o.s.low, sent, pipe')
    BY <1>3, <1>4, <2>1, LaterLined
  <2> QED
    BY <2>1, <2>2
<1>7. wire' = [wire EXCEPT ![id] = @ \o o.units]
  OBVIOUS
<1> QED
  BY <1>3, <1>5, <1>6, <1>7, PollSent

LEMMA CloseWire ==
  ASSUME SocketInv, failed = "no", ~raced', WireInv, close_socket
  PROVE  WireInv'
<1> DEFINE r == Head(pipe)
           i == Hash(r.id)
           s == slot[i]
<1>1. /\ Command("K") /\ pipe # <<>>
      /\ raced' = (raced \/ (s.id = r.id /\ s.type = "RESERVE"))
  BY Zenon DEF close_socket, Command
<1>2. PollFrame /\ ~raced
  BY <1>1, CommandFrame DEF SocketInv, TypeInv
<1>3. i \in SlotIx /\ slot \in [SlotIx -> SlotRecord] /\ s \in SlotRecord /\ Sized(s)
  BY <1>1, HeadCommand DEF SocketInv, TypeInv
<1>4. CASE slot' = slot /\ wire' = wire
  BY <1>2, <1>4, PollQuiet
<1>5. CASE ~Stale(s, r.id)
  <2>1. s.id = r.id /\ s.type \notin Unused
    BY <1>1, <1>2, <1>5 DEF Stale, Unused
  <2> DEFINE done(o, t) == /\ slot' = [slot EXCEPT ![i] = t]
                           /\ wire' = [wire EXCEPT ![r.id] = @ \o o.units]
  <2>2. PICK o \in IF send_buffer_empty(s) THEN {Outcome(s, "none", "no", <<>>)} ELSE send_buffer(s) :
           \/ slot' = slot /\ wire' = wire
           \/ o.fail = "no" /\ o.type = "CLOSE" /\ done(o, o.s)
           \/ o.fail = "no" /\ o.type # "CLOSE" /\ done(o, Closed(o.s))
           \/ o.fail = "no" /\ o.type # "CLOSE" /\ done(o, [o.s EXCEPT !.type = "HALFCLOSE"])
    <3> HIDE DEF r, i, s
    <3> QED
      BY <1>5, Zenon DEF close_socket, r, i, s, Fail
  <2>3. CASE slot' = slot /\ wire' = wire
    BY <1>4, <2>3
  <2>4. ASSUME o.fail = "no", NEW t, done(o, t),
               (t = o.s /\ o.type = "CLOSE")
                 \/ t = Closed(o.s)
                 \/ (o.type # "CLOSE" /\ t = [o.s EXCEPT !.type = "HALFCLOSE"])
        PROVE  WireInv'
    <3>1. SentUnits(s, o) /\ SentOK(s, o)
      <4> HIDE DEF s
      <4> QED
        BY <1>3, <2>2, <2>4, OutcomeUnits, Zenon
    <3>2. o.s \in SlotRecord /\ (o.type = "CLOSE" => o.s.type = "INVALID")
          /\ (o.type # "CLOSE" => o.s.type = s.type)
      BY <3>1 DEF SentOK, Sized
    <3>3. \/ t.type \in Unused
          \/ /\ o.s.type # "INVALID" /\ t.id = o.s.id
             /\ t.high = o.s.high /\ t.low = o.s.low
      <4>1. CASE t = o.s /\ o.type = "CLOSE"
        BY <3>2, <4>1 DEF Unused
      <4>2. CASE t = Closed(o.s)
        BY <3>2, <4>2, ClosedSlot DEF Unused
      <4>3. CASE o.type # "CLOSE" /\ t = [o.s EXCEPT !.type = "HALFCLOSE"]
        <5>1. t.id = o.s.id /\ t.high = o.s.high /\ t.low = o.s.low
          BY <3>2, <4>3 DEF SlotRecord
        <5> QED
          BY <2>1, <3>2, <4>3, <5>1 DEF Unused
      <4> QED
        BY <2>4, <4>1, <4>2, <4>3
    <3>4. slot' = [slot EXCEPT ![i] = t] /\ wire' = [wire EXCEPT ![slot[i].id] = @ \o o.units]
      BY <2>1, <2>4
    <3>5. slot[i].type \notin Unused /\ SentUnits(slot[i], o) /\ SentOK(slot[i], o)
      BY <2>1, <3>1
    <3> HIDE DEF r, i, s, done
    <3> QED
      BY <1>2, <1>3, <3>3, <3>4, <3>5, OutcomeWire
  <2> HIDE DEF done
  <2> QED
    BY <2>2, <2>3, <2>4
<1>6. CASE Stale(s, r.id)
  BY <1>4, <1>6, Zenon DEF close_socket
<1> QED
  BY <1>5, <1>6

\* A packet cut in two.
LEMMA RestCut ==
  ASSUME NEW p \in Packets, NEW n \in 0 .. Size[p]
  PROVE  /\ SubSeq(Rest(p, 0), 1, n) \in Seq(Units) /\ Rest(p, n) \in Seq(Units)
         /\ SubSeq(Rest(p, 0), 1, n) \o Rest(p, n) = Rest(p, 0)
         /\ n = Size[p] => SubSeq(Rest(p, 0), 1, n) = Rest(p, 0)
<1> DEFINE x == Rest(p, 0)
           y == Rest(p, n)
           k == Size[p]
           f == SubSeq(x, n + 1, Len(x))
<1>1. k \in Nat /\ k - n \in Nat /\ n \in Nat /\ 0 \in 0 .. k /\ k - 0 = k /\ n \in 0 .. k
  BY RestUnits
<1>2. y \in Seq(Units) /\ Len(y) = k - n /\ \A j \in 1 .. k - n : y[j] = <<p, n + j>>
  BY RestUnits
<1>3. x \in Seq(Units) /\ Len(x) = k /\ \A j \in 1 .. k : x[j] = <<p, 0 + j>>
  BY <1>1, RestUnits
<1> HIDE DEF x, y, k
<1>4. f \in Seq(Units) /\ Len(f) = k - n /\ \A j \in 1 .. k - n : f[j] = x[n + j]
  BY <1>1, <1>3, Suffix
<1>5. SubSeq(x, 1, n) \in Seq(Units) /\ x = SubSeq(x, 1, n) \o f
  BY <1>1, <1>3, CutList
<1> HIDE DEF f
<1>6. \A j \in 1 .. Len(f) : f[j] = y[j]
  <2> SUFFICES ASSUME NEW j \in 1 .. k - n PROVE f[j] = y[j]
    BY <1>4
  <2>1. n + j \in 1 .. k /\ 0 + (n + j) = n + j
    BY <1>1
  <2>2. x[n + j] = <<p, n + j>>
    BY <1>3, <2>1
  <2> QED
    BY <1>2, <1>4, <2>2
<1>7. f = y
  BY <1>2, <1>4, <1>6, SeqEqual
<1>8. n = k => SubSeq(x, 1, n) = x
  BY <1>3, SubSeqFull
<1> QED
  BY <1>2, <1>5, <1>7, <1>8 DEF x, y, k

\* The high list after append_sendbuffer.
LEMMA AppendHigh ==
  ASSUME NEW s \in SlotRecord, NEW p, NEW n
  PROVE  append_sendbuffer(s, p, n).high = s.high \o Rest(p, n)
  BY DEF append_sendbuffer, SlotRecord

\* Warning the owner does not touch the lists.
LEMMA WarnSlot ==
  ASSUME NEW i, NEW u \in SlotRecord, Warn(u, i)
  PROVE  \E t : /\ slot' = [slot EXCEPT ![i] = t]
                /\ t.type = u.type /\ t.id = u.id /\ t.high = u.high /\ t.low = u.low
<1> DEFINE over == u.wb_size >= WARNING_SIZE /\ u.wb_size >= u.warn_size
           v == IF u.warn_size = 0 THEN WARNING_SIZE * 2 ELSE u.warn_size * 2
           t == IF over THEN [u EXCEPT !.warn_size = v] ELSE u
<1>1. slot' = [slot EXCEPT ![i] = t]
  BY DEF Warn
<1>2. t.type = u.type /\ t.id = u.id /\ t.high = u.high /\ t.low = u.low
  <2> HIDE DEF over, v
  <2> QED
    BY DEF SlotRecord
<1> HIDE DEF t
<1> QED
  BY <1>1, <1>2

\* The socket of a packet that is sent.
LEMMA SendFrame ==
  ASSUME SocketInv, failed = "no", ~raced, WireInv, pipe # <<>>, NEW r, r = Head(pipe), Data(r),
         NEW s, s = slot[Hash(r.id)], s.type \notin Unused, s.id = r.id
  PROVE  /\ r.p \in Packets /\ Hash(r.id) \in SlotIx /\ s \in SlotRecord /\ Sized(s) /\ s.id \in Ids
         /\ wire[s.id] \in Seq(Units) /\ s.high \in Seq(Units) /\ s.low \in Seq(Units)
         /\ wire[s.id] \o s.high \in Seq(Units)
         /\ pipe \in Seq(Requests) /\ Queued(sent, pipe)
         /\ Lined(wire[s.id] \o s.high, s.low, sent, pipe)
<1>1. /\ r.id \in Ids /\ Hash(r.id) \in SlotIx /\ slot \in [SlotIx -> SlotRecord]
      /\ r.p \in Packets /\ s \in SlotRecord /\ Sized(s)
  BY HeadCommand DEF SocketInv, TypeInv, Data
<1>2. wire[s.id] \in Seq(Units) /\ Lined(wire[s.id] \o s.high, s.low, sent, pipe)
  BY <1>1 DEF WireInv, SlotLined
<1>3. s.high \in Seq(Units) /\ s.low \in Seq(Units)
  BY <1>1, SlotFields
<1>4. wire[s.id] \o s.high \in Seq(Units)
  BY <1>2, <1>3, ConcatProperties
<1> QED
  BY <1>1, <1>2, <1>3, <1>4 DEF SocketInv, TypeInv, WireInv

\* The packet joins the lists of its socket.
LEMMA KeptPacket ==
  ASSUME SocketInv, failed = "no", ~raced, WireInv, PollFrame, pipe # <<>>, pipe' = Tail(pipe),
         NEW r, r = Head(pipe), Data(r),
         NEW s, s = slot[Hash(r.id)], s.type \notin Unused, s.id = r.id, wire' = wire,
         NEW t, slot' = [slot EXCEPT ![Hash(r.id)] = t], t.id = s.id,
         \/ r.op = "P" /\ t.high = s.high /\ t.low = s.low \o Rest(r.p, 0)
         \/ r.op = "D" /\ t.high = s.high \o Rest(r.p, 0) /\ t.low = s.low
  PROVE  WireInv'
<1> DEFINE W == wire[s.id]
           h == s.high
           l == s.low
           x == Rest(r.p, 0)
<1>1. /\ r.p \in Packets /\ Hash(r.id) \in SlotIx /\ s.id \in Ids
      /\ W \in Seq(Units) /\ h \in Seq(Units) /\ l \in Seq(Units) /\ W \o h \in Seq(Units)
      /\ pipe \in Seq(Requests) /\ Queued(sent, pipe) /\ Lined(W \o h, l, sent, pipe)
  BY SendFrame, Zenon
<1>2. x \in Seq(Units)
  BY <1>1, PacketUnits, Zenon
<1>3. Lined(W \o t.high, t.low, sent, pipe')
  <2>1. CASE r.op = "P" /\ t.high = h /\ t.low = l \o x
    <3>1. Lined(W \o h, l \o x, sent, Tail(pipe))
      <4> HIDE DEF W, h, l
      <4> QED
        BY <1>1, <2>1, LinedLow, Zenon
    <3> QED
      BY <2>1, <3>1, Zenon
  <2>2. CASE r.op = "D" /\ t.high = h \o x /\ t.low = l
    <3>1. Lined((W \o h) \o x, l, sent, Tail(pipe))
      <4> HIDE DEF W, h, l
      <4> QED
        BY <1>1, <2>2, LinedHigh, Zenon
    <3>2. (W \o h) \o x = W \o (h \o x)
      <4> DEFINE P(a, b, c) == (a \o b) \o c = a \o (b \o c)
      <4>1. \A a, b, c \in Seq(Units) : P(a, b, c)
        BY JoinAssoc, Zenon
      <4> HIDE DEF P, W, h, x
      <4>2. P(W, h, x)
        BY <1>1, <1>2, <4>1, Zenon
      <4> QED
        BY <4>2, Zenon DEF P
    <3> QED
      BY <2>2, <3>1, <3>2, Zenon
  <2> QED
    BY <2>1, <2>2, Zenon
<1>4. Sound(W, sent, pipe')
  <2>1. Sound(W, sent, pipe)
    BY <1>1, Zenon DEF WireInv
  <2>2. Later(sent, pipe, sent, pipe')
    BY PollTime, Zenon DEF PollFrame
  <2> HIDE DEF W, h, l, x
  <2> QED
    BY <2>1, <2>2, LaterLined, Zenon
<1>5. W \o <<>> = W /\ wire' = [wire EXCEPT ![s.id] = @ \o <<>>]
  <2>1. W \o <<>> = W
    BY <1>1, ConcatEmptySeq, Zenon
  <2>2. wire \in [Ids -> Seq(Units)]
    BY Zenon DEF WireInv
  <2>3. wire = [wire EXCEPT ![s.id] = W]
    BY <2>2, Zenon
  <2> QED
    BY <2>1, <2>3, Zenon
<1>6. W \o <<>> \in Seq(Units) /\ Sound(W \o <<>>, sent, pipe')
      /\ Lined((W \o <<>>) \o t.high, t.low, sent, pipe')
  BY <1>1, <1>3, <1>4, <1>5, Zenon
<1> QED
  BY <1>1, <1>5, <1>6, PollSent, Zenon

\* The first n units of the packet are sent at once, and the others kept.
LEMMA SentPacket ==
  ASSUME SocketInv, failed = "no", ~raced, WireInv, PollFrame, pipe # <<>>, pipe' = Tail(pipe),
         NEW r, r = Head(pipe), Data(r),
         NEW s, s = slot[Hash(r.id)], s.type \notin Unused, s.id = r.id, send_buffer_empty(s),
         NEW n \in 0 .. Size[r.p], wire' = [wire EXCEPT ![r.id] = @ \o SubSeq(Rest(r.p, 0), 1, n)],
         NEW t, slot' = [slot EXCEPT ![Hash(r.id)] = t], t.id = s.id, t.low = <<>>,
         \/ n = Size[r.p] /\ t.high = <<>>
         \/ t.high = Rest(r.p, n)
  PROVE  WireInv'
<1> DEFINE W == wire[s.id]
           x == Rest(r.p, 0)
           u == SubSeq(x, 1, n)
           y == Rest(r.p, n)
<1>1. /\ r.p \in Packets /\ Hash(r.id) \in SlotIx /\ s.id \in Ids
      /\ W \in Seq(Units) /\ s.high = <<>> /\ s.low = <<>>
      /\ pipe \in Seq(Requests) /\ Queued(sent, pipe) /\ Lined(W \o s.high, s.low, sent, pipe)
  BY SendFrame DEF send_buffer_empty
<1>2. /\ u \in Seq(Units) /\ y \in Seq(Units) /\ u \o y = x
      /\ n = Size[r.p] => u = x
  BY <1>1, RestCut
<1>3. x \in Seq(Units)
  BY <1>1, PacketUnits
<1>4. Lined(W, <<>>, sent, pipe)
  <2>1. W \o <<>> = W
    BY <1>1, ConcatEmptySeq
  <2> QED
    BY <1>1, <2>1
<1>5. Lined(W \o x, <<>>, sent, pipe')
  <2> HIDE DEF W
  <2> QED
    BY <1>1, <1>4, EmptyList, LinedHigh
<1> HIDE DEF W, x, u, y
<1>6. (W \o u) \o y = W \o x /\ W \o u \in Seq(Units) /\ W \o x \in Seq(Units)
  <2>1. (W \o u) \o y = W \o (u \o y)
    BY <1>1, <1>2, JoinAssoc
  <2>2. W \o u \in Seq(Units) /\ W \o x \in Seq(Units)
    BY <1>1, <1>2, <1>3, ConcatProperties
  <2> QED
    BY <1>2, <2>1, <2>2
<1>7. Sound(W \o x, sent, pipe')
  <2> DEFINE z == W \o x
  <2>1. z \in Seq(Units) /\ Lined(z, <<>>, sent, pipe') /\ <<>> \in Seq(Units)
    BY <1>5, <1>6, EmptyList
  <2>2. z \o <<>> = z
    BY <2>1, ConcatEmptySeq
  <2> HIDE DEF z
  <2>3. Sound(z \o <<>>, sent, pipe')
    BY <2>1, LinedSound
  <2> QED
    BY <2>2, <2>3 DEF z
<1>8. Sound(W \o u, sent, pipe')
  <2> DEFINE z == W \o u
  <2>1. Sound(z \o y, sent, pipe') /\ z \in Seq(Units)
    BY <1>6, <1>7
  <2> HIDE DEF z
  <2> QED
    BY <1>2, <2>1, SoundPart DEF z
<1>9. Lined((W \o u) \o t.high, t.low, sent, pipe')
  <2>1. CASE t.high = y
    BY <1>5, <1>6, <2>1
  <2>2. CASE n = Size[r.p] /\ t.high = <<>>
    <3>1. (W \o u) \o <<>> = W \o u
      BY <1>6, ConcatEmptySeq
    <3>2. u = x
      BY <1>2, <2>2
    <3> QED
      BY <1>5, <2>2, <3>1, <3>2
  <2> QED
    BY <2>1, <2>2 DEF y
<1>10. wire' = [wire EXCEPT ![s.id] = @ \o u]
  BY DEF u, x
<1> QED
  BY <1>1, <1>6, <1>8, <1>9, <1>10, PollSent, Zenon DEF W

LEMMA SendWire ==
  ASSUME SocketInv, failed = "no", ~raced', WireInv, send_socket
  PROVE  WireInv'
<1> DEFINE r == Head(pipe)
           i == Hash(r.id)
           s == slot[i]
<1>1. /\ Command("D") \/ Command("P")
      /\ pipe # <<>> /\ pipe' = Tail(pipe) /\ r.op \in {"D", "P"}
      /\ raced' = (raced \/ (s.id = r.id /\ s.type = "RESERVE"))
  BY Zenon DEF send_socket, Command
<1>2. PollFrame /\ ~raced /\ Data(r)
  BY <1>1, CommandFrame DEF SocketInv, TypeInv, Data
<1>3. i \in SlotIx /\ slot \in [SlotIx -> SlotRecord] /\ s \in SlotRecord /\ Sized(s) /\ r.p \in Packets
  BY <1>1, HeadCommand DEF SocketInv, TypeInv
<1>4. CASE slot' = slot /\ wire' = wire
  BY <1>2, <1>4, PollQuiet
<1>5. CASE slot' = [slot EXCEPT ![i] = Closed(s)] /\ wire' = wire
  <2>1. Closed(s).type \in Unused
    BY <1>3, ClosedSlot DEF Unused
  <2> HIDE DEF i, s
  <2> QED
    BY <1>2, <1>3, <1>5, <2>1, PollKept
<1>6. ASSUME ~Stale(s, r.id) PROVE s.id = r.id /\ s.type \notin Unused
  BY <1>1, <1>2, <1>6 DEF Stale, Unused
<1>7. ASSUME ~Stale(s, r.id), send_buffer_empty(s), NEW n \in 0 .. Size[r.p],
             wire' = [wire EXCEPT ![r.id] = @ \o SubSeq(Rest(r.p, 0), 1, n)],
             \/ n = Size[r.p] /\ slot' = slot
             \/ n < Size[r.p] /\ Warn([append_sendbuffer(s, r.p, n) EXCEPT !.out = TRUE], i)
      PROVE  WireInv'
  <2>1. s.id = r.id /\ s.type \notin Unused /\ s.high = <<>> /\ s.low = <<>>
    BY <1>6, <1>7 DEF send_buffer_empty
  <2>2. CASE n = Size[r.p] /\ slot' = slot
    <3>1. slot' = [slot EXCEPT ![i] = s]
      BY <1>3, <2>2
    <3>2. s = slot[Hash(r.id)] /\ r = Head(pipe) /\ i = Hash(r.id)
      OBVIOUS
    <3>3. /\ n = Size[r.p] /\ send_buffer_empty(s)
          /\ wire' = [wire EXCEPT ![r.id] = @ \o SubSeq(Rest(r.p, 0), 1, n)]
      BY <1>7, <2>2
    <3> DEFINE f == [slot EXCEPT ![Hash(r.id)] = s]
    <3>4. slot' = f
      BY <3>1
    <3> HIDE DEF r, i, s
    <3> QED
      BY <1>1, <1>2, <2>1, <3>2, <3>3, <3>4, SentPacket, Zenon
  <2>3. CASE n < Size[r.p] /\ Warn([append_sendbuffer(s, r.p, n) EXCEPT !.out = TRUE], i)
    <3> DEFINE a == append_sendbuffer(s, r.p, n)
               u == [a EXCEPT !.out = TRUE]
    <3>1. Sized(a) /\ a.id = s.id /\ a.low = s.low /\ a.high = s.high \o Rest(r.p, n)
      BY <1>3, AppendSlot, AppendHigh
    <3> HIDE DEF a
    <3>2. u \in SlotRecord /\ u.id = a.id /\ u.low = a.low /\ u.high = a.high
      BY <3>1 DEF Sized, SlotRecord
    <3>3. Warn(u, i)
      BY <2>3 DEF a
    <3> HIDE DEF u
    <3>4. PICK t : /\ slot' = [slot EXCEPT ![i] = t]
                   /\ t.type = u.type /\ t.id = u.id /\ t.high = u.high /\ t.low = u.low
      BY <3>2, <3>3, WarnSlot
    <3>5. <<>> \o Rest(r.p, n) = Rest(r.p, n)
      BY <1>3, RestUnits, ConcatEmptySeq
    <3>6. t.id = s.id /\ t.low = <<>> /\ t.high = Rest(r.p, n)
      BY <2>1, <3>1, <3>2, <3>4, <3>5
    <3> HIDE DEF r
    <3> QED
      BY <1>1, <1>2, <1>7, <2>1, <3>4, <3>6, SentPacket DEF r
  <2> QED
    BY <1>7, <2>2, <2>3
<1>8. ASSUME ~Stale(s, r.id), wire' = wire,
             Warn(IF r.op = "P" THEN append_sendbuffer_low(s, r.p) ELSE append_sendbuffer(s, r.p, 0), i)
      PROVE  WireInv'
  <2> DEFINE u == IF r.op = "P" THEN append_sendbuffer_low(s, r.p) ELSE append_sendbuffer(s, r.p, 0)
  <2>1. /\ Sized(u) /\ u.id = s.id
        /\ \/ r.op = "P" /\ u.high = s.high /\ u.low = s.low \o Rest(r.p, 0)
           \/ r.op = "D" /\ u.high = s.high \o Rest(r.p, 0) /\ u.low = s.low
    <3>1. CASE r.op = "P"
      BY <1>3, <3>1, AppendLowSlot
    <3>2. CASE r.op = "D"
      <4>1. 0 \in 0 .. Size[r.p]
        BY <1>3, PacketUnits
      <4> DEFINE a == append_sendbuffer(s, r.p, 0)
      <4>2. Sized(a) /\ a.id = s.id /\ a.low = s.low
        BY <1>3, <4>1, AppendSlot
      <4>3. a.high = s.high \o Rest(r.p, 0)
        <5> DEFINE p == r.p
                   z == 0
        <5>1. a = append_sendbuffer(s, p, z)
          OBVIOUS
        <5> HIDE DEF s, u, a, p, z
        <5>2. a.high = s.high \o Rest(p, z)
          BY <1>3, <5>1, AppendHigh
        <5> QED
          BY <5>2 DEF p, z
      <4>4. u = a
        BY <3>2
      <4> HIDE DEF a, u, s
      <4> QED
        BY <3>2, <4>2, <4>3, <4>4
    <3> QED
      BY <1>1, <3>1, <3>2, Zenon
  <2>2. Warn(u, i)
    BY <1>8
  <2> HIDE DEF u
  <2>3. PICK t : /\ slot' = [slot EXCEPT ![i] = t]
                 /\ t.type = u.type /\ t.id = u.id /\ t.high = u.high /\ t.low = u.low
    <3>1. u \in SlotRecord
      BY <2>1, Zenon DEF Sized
    <3> HIDE DEF i, s, r
    <3> QED
      BY <2>2, <3>1, WarnSlot
  <2>4. /\ t.id = s.id
        /\ \/ r.op = "P" /\ t.high = s.high /\ t.low = s.low \o Rest(r.p, 0)
           \/ r.op = "D" /\ t.high = s.high \o Rest(r.p, 0) /\ t.low = s.low
    BY <2>1, <2>3, Zenon
  <2>5. s.id = r.id /\ s.type \notin Unused
    BY <1>6, <1>8
  <2> HIDE DEF r
  <2> QED
    BY <1>1, <1>2, <1>8, <2>3, <2>4, <2>5, KeptPacket, Zenon DEF r
<1>9. \/ slot' = slot /\ wire' = wire
      \/ slot' = [slot EXCEPT ![i] = Closed(s)] /\ wire' = wire
      \/ /\ ~Stale(s, r.id) /\ send_buffer_empty(s)
         /\ \E n \in 0 .. Size[r.p] :
               /\ wire' = [wire EXCEPT ![r.id] = @ \o SubSeq(Rest(r.p, 0), 1, n)]
               /\ \/ n = Size[r.p] /\ slot' = slot
                  \/ n < Size[r.p] /\ Warn([append_sendbuffer(s, r.p, n) EXCEPT !.out = TRUE], i)
      \/ /\ ~Stale(s, r.id) /\ wire' = wire
         /\ Warn(IF r.op = "P" THEN append_sendbuffer_low(s, r.p) ELSE append_sendbuffer(s, r.p, 0), i)
  BY Zenon DEF send_socket
<1> HIDE DEF r, i, s
<1> QED
  BY <1>4, <1>5, <1>7, <1>8, <1>9

-----------------------------------------------------------------------------
(* Events and the wire.                                                    *)

LEMMA EventFrame ==
  ASSUME SocketInv, Event, alloc_id' \in Nat, alloc_id' >= alloc_id
  PROVE  PollFrame
  BY DEF Event, PollFrame

LEMMA OpenFailedWire ==
  ASSUME SocketInv, failed = "no", ~raced', WireInv, open_failed
  PROVE  WireInv'
<1> DEFINE i == Hash(result.id)
           t == [slot[i] EXCEPT !.type = "INVALID"]
<1>1. /\ raced' = (raced \/ slot[i].type = "RESERVE") /\ slot' = [slot EXCEPT ![i].type = "INVALID"]
      /\ UNCHANGED <<alloc_id, rsv, pipe, sent, wire>>
  BY DEF open_failed
<1>2. /\ slot \in [SlotIx -> SlotRecord] /\ result \in Results /\ alloc_id \in Nat
      /\ raced \in BOOLEAN
  BY SocketAssumption DEF SocketInv, TypeInv
<1>3. i \in SlotIx
  <2>1. result.id \in Nat
    BY <1>2, SocketAssumption DEF Results
  <2> QED
    BY <2>1, HashIx
<1>4. PollFrame
  BY <1>1, <1>2 DEF PollFrame
<1>5. slot' = [slot EXCEPT ![i] = t] /\ ~raced /\ wire' = wire
  BY <1>1, <1>2, <1>3
<1>6. t.type \in Unused
  BY <1>2, <1>3 DEF SlotRecord, Unused
<1> HIDE DEF t, i
<1> QED
  BY <1>3, <1>4, <1>5, <1>6, PollKept

LEMMA QuietEventWire ==
  ASSUME SocketInv, failed = "no", ~raced', WireInv, SkipEvent \/ clear_closed_event \/ sp_wait
  PROVE  WireInv'
<1>1. alloc_id \in Nat /\ raced \in BOOLEAN
  BY SocketAssumption DEF SocketInv, TypeInv
<1>2. CASE SkipEvent
  <2>1. slot' = slot /\ wire' = wire /\ raced' = raced /\ alloc_id' = alloc_id /\ Event
    BY <1>2 DEF SkipEvent
  <2>2. PollFrame
    BY <1>1, <2>1, EventFrame
  <2> QED
    BY <2>1, <2>2, PollQuiet
<1>3. CASE clear_closed_event
  <2>1. slot' = slot /\ wire' = wire /\ ~raced
    BY <1>1, <1>3 DEF clear_closed_event
  <2>2. PollFrame
    BY <1>1, <1>3 DEF clear_closed_event, PollFrame
  <2> QED
    BY <2>1, <2>2, PollQuiet
<1>4. CASE sp_wait
  <2>1. /\ slot' = slot /\ wire' = wire /\ raced' = raced /\ alloc_id' = alloc_id
        /\ sent' = sent /\ rsv' = rsv /\ pipe' = pipe
    BY <1>4, Zenon DEF sp_wait, Wait
  <2>2. PollFrame
    BY <1>1, <2>1 DEF PollFrame
  <2> QED
    BY <2>1, <2>2, PollQuiet
<1> QED
  BY <1>2, <1>3, <1>4

LEMMA ConnectWire ==
  ASSUME SocketInv, failed = "no", ~raced', WireInv, report_connect
  PROVE  WireInv'
<1> DEFINE i == Head(ev).s
           s == slot[i]
<1>1. /\ Event /\ i # NULL /\ s.type = "CONNECTING" /\ wire' = wire
      /\ alloc_id' = alloc_id /\ raced' = raced
  BY DEF report_connect, EventOf, EventSlot
<1>2. ev # <<>> /\ slot \in [SlotIx -> SlotRecord] /\ PollFrame
  BY <1>1, EventTaken, EventFrame DEF TypeInv
<1>3. i \in SlotIx /\ s \in SlotRecord
  BY <1>1, <1>2, HeadEvent
<1>4. CASE slot' = [slot EXCEPT ![i] = Closed(s)]
  <2>1. Closed(s).type \in Unused
    BY <1>3, ClosedSlot DEF Unused
  <2> HIDE DEF i, s
  <2> QED
    BY <1>1, <1>2, <1>3, <1>4, <2>1, PollKept
<1>5. CASE slot' = [slot EXCEPT ![i].type = "CONNECTED", ![i].out = s.out /\ ~send_buffer_empty(s)]
  <2> DEFINE out == s.out /\ ~send_buffer_empty(s)
             t == [s EXCEPT !.type = "CONNECTED", !.out = out]
  <2>1. slot' = [slot EXCEPT ![i] = t]
    BY <1>2, <1>3, <1>5
  <2>2. t.id = s.id /\ t.high = s.high /\ t.low = s.low
    BY <1>3 DEF SlotRecord
  <2>3. s.type \notin Unused
    BY <1>1 DEF Unused
  <2> HIDE DEF t, i
  <2> QED
    BY <1>1, <1>2, <1>3, <2>1, <2>2, <2>3, PollKept
<1> QED
  BY <1>4, <1>5 DEF report_connect, EventSlot

LEMMA ReadWire ==
  ASSUME SocketInv, failed = "no", ~raced', WireInv, forward_message_tcp
  PROVE  WireInv'
<1> DEFINE i == Head(ev).s
           s == slot[i]
<1>1. /\ Event /\ i # NULL /\ wire' = wire
      /\ alloc_id' = alloc_id /\ raced' = (raced \/ s.type = "RESERVE")
  BY DEF forward_message_tcp, EventOf, EventSlot
<1>2. ev # <<>> /\ slot \in [SlotIx -> SlotRecord] /\ PollFrame /\ ~raced
  BY <1>1, EventTaken, EventFrame DEF TypeInv
<1>3. i \in SlotIx /\ s \in SlotRecord
  BY <1>1, <1>2, HeadEvent
<1>4. CASE slot' = [slot EXCEPT ![i] = Closed(s)]
  <2>1. Closed(s).type \in Unused
    BY <1>3, ClosedSlot DEF Unused
  <2> HIDE DEF i, s
  <2> QED
    BY <1>1, <1>2, <1>3, <1>4, <2>1, PollKept
<1>5. CASE slot' = slot
  BY <1>1, <1>2, <1>5, PollQuiet
<1> QED
  BY <1>4, <1>5, Zenon DEF forward_message_tcp, EventSlot

LEMMA FlushWire ==
  ASSUME SocketInv, failed = "no", ~raced', WireInv, Flush
  PROVE  WireInv'
<1> DEFINE i == Head(ev).s
           s == slot[i]
<1>1. /\ Event /\ i # NULL /\ alloc_id' = alloc_id /\ raced' = (raced \/ s.type = "RESERVE")
  BY Zenon DEF Flush, EventOf, EventSlot
<1>2. ev # <<>> /\ pc # "clear" /\ PollFrame /\ ~raced
  BY <1>1, EventTaken, EventFrame
<1>3. /\ i \in SlotIx /\ s \in SlotRecord /\ Sized(s) /\ s.id \in Ids
      /\ s.type \in PolledTypes /\ s.type \notin Unused
  BY <1>1, <1>2, HeadEvent DEF PolledTypes, Unused
<1>4. PICK o \in send_buffer(s) :
         \/ slot' = slot /\ wire' = wire
         \/ /\ o.fail = "no" /\ slot' = [slot EXCEPT ![i] = o.s]
            /\ wire' = IF s.id \in Ids THEN [wire EXCEPT ![s.id] = @ \o o.units] ELSE wire
  BY Zenon DEF Flush, EventSlot
<1>5. CASE slot' = slot /\ wire' = wire
  BY <1>2, <1>5, PollQuiet
<1>6. CASE /\ o.fail = "no" /\ slot' = [slot EXCEPT ![i] = o.s]
           /\ wire' = IF s.id \in Ids THEN [wire EXCEPT ![s.id] = @ \o o.units] ELSE wire
  <2>1. SentUnits(s, o) /\ SentOK(s, o)
    <3>1. PICK w \in Writes(s) : o = SendOutcome(s, w.k, w.err)
      BY DEF send_buffer
    <3>2. w.k \in 0 .. Len(s.high) + Len(s.low) /\ w.err \in BOOLEAN
      BY DEF Writes
    <3> HIDE DEF s
    <3> QED
      BY <1>3, <1>6, <3>1, <3>2, Sent, SentList
  <2>2. wire' = [wire EXCEPT ![s.id] = @ \o o.units]
    BY <1>3, <1>6
  <2>3. o.s.type \in Unused \/ o.s.type # "INVALID"
    BY DEF Unused
  <2> HIDE DEF i
  <2> QED
    BY <1>2, <1>3, <1>6, <2>1, <2>2, <2>3, OutcomeWire
<1> QED
  BY <1>4, <1>5, <1>6, Zenon

LEMMA AcceptWire ==
  ASSUME SocketInv, failed = "no", ~raced', WireInv, report_accept
  PROVE  WireInv'
<1>1. Event /\ wire' = wire /\ raced' = raced
  BY DEF report_accept, EventOf
<1>2. alloc_id \in Nat
  BY <1>1, EventTaken
<1>3. CASE slot' = slot /\ alloc_id' = alloc_id
  <2>1. PollFrame
    BY <1>1, <1>2, <1>3, EventFrame
  <2> QED
    BY <1>1, <1>3, <2>1, PollQuiet
<1>4. CASE slot' = slot /\ alloc_id' = alloc_id + MAX_SOCKET
  <2>1. alloc_id' \in Nat /\ alloc_id' >= alloc_id
    BY <1>2, <1>4, SocketAssumption
  <2>2. PollFrame
    BY <1>1, <2>1, EventFrame
  <2> QED
    BY <1>1, <1>4, <2>2, PollQuiet
<1>5. ASSUME NEW k \in Tries, NEW opaque, NEW id, id = alloc_id + k, id \in Ids, alloc_id' = id,
             slot' = [slot EXCEPT ![Hash(id)] = NewFd(id, "PACCEPT", opaque)]
      PROVE  WireInv'
  <2>1. k \in Nat \ {0}
    BY DEF Tries
  <2>2. alloc_id' \in Nat /\ alloc_id' >= alloc_id /\ id > alloc_id
    BY <1>2, <1>5, <2>1
  <2>3. PollFrame
    BY <1>1, <2>2, EventFrame
  <2>4. wire[id] = <<>>
    BY <1>5, <2>2 DEF WireInv, UnopenedInv
  <2> DEFINE t == NewFd(id, "PACCEPT", opaque)
  <2>5. t.id = id /\ t.high = <<>> /\ t.low = <<>>
    BY NewFields
  <2> HIDE DEF t
  <2>6. slot' = [slot EXCEPT ![Hash(id)] = t]
    BY <1>5 DEF t
  <2> QED
    BY <1>1, <1>5, <2>3, <2>4, <2>5, <2>6, PollNew
<1> QED
  BY <1>3, <1>4, <1>5, Zenon DEF report_accept

-----------------------------------------------------------------------------
(* Services and the wire.                                                  *)

\* A service tries to reserve a slot, or begins to.
LEMMA TryWire ==
  ASSUME SocketInv, WireInv, NEW w \in Services, NEW v, v.pc = "store" => wire[v.id] = <<>>,
         rsv' = [rsv EXCEPT ![w] = v], alloc_id' \in Nat, alloc_id' >= alloc_id,
         sent' = sent, pipe' = pipe, wire' = wire,
         \A j \in SlotIx : slot'[j].type \notin Unused => slot'[j] = slot[j]
  PROVE  WireInv'
<1>1. rsv \in [Services -> Reservations] /\ alloc_id \in Nat /\ UnopenedInv /\ Queued(sent, pipe)
  BY SocketAssumption DEF SocketInv, TypeInv, WireInv
<1>2. rsv'[w] = v /\ \A x \in Services : x # w => rsv'[x] = rsv[x]
  BY <1>1
<1>3. UnopenedInv'
  <2>1. \A id \in Ids : id > alloc_id' => wire'[id] = <<>>
    <3>1. \A id \in Ids : id \in Nat
      BY DEF Ids
    <3> QED
      BY <1>1, <3>1 DEF UnopenedInv
  <2>2. \A x \in Services : rsv'[x].pc = "store" => wire'[rsv'[x].id] = <<>>
    BY <1>1, <1>2 DEF UnopenedInv
  <2>3. \A n \in DOMAIN pipe' : Opens(pipe'[n]) => wire'[pipe'[n].id] = <<>>
    BY <1>1 DEF UnopenedInv
  <2> QED
    BY <2>1, <2>2, <2>3 DEF UnopenedInv
<1>4. Queued(sent', pipe') /\ Later(sent, pipe, sent', pipe')
  BY <1>1, SameLater
<1> QED
  BY <1>3, <1>4, QuietWire

LEMMA BeginWire ==
  ASSUME SocketInv, WireInv, NEW w \in Services, NEW op \in {"O", "L"}, ReserveBegin(w, op)
  PROVE  WireInv'
<1> DEFINE v == [pc |-> "try", i |-> 0, id |-> 0, op |-> op]
<1>1. v.pc # "store"
  OBVIOUS
<1>2. /\ rsv' = [rsv EXCEPT ![w] = v] /\ alloc_id' = alloc_id
      /\ slot' = slot /\ sent' = sent /\ pipe' = pipe /\ wire' = wire
  BY DEF ReserveBegin
<1>3. alloc_id' \in Nat /\ alloc_id' >= alloc_id
  BY <1>2, SocketAssumption DEF SocketInv, TypeInv
<1> HIDE DEF v
<1> QED
  BY <1>1, <1>2, <1>3, TryWire

LEMMA ReserveIdWire ==
  ASSUME SocketInv, WireInv, NEW w \in Services, reserve_id(w)
  PROVE  WireInv'
<1> DEFINE id == alloc_id + 1
           i == Hash(id)
           u == rsv[w]
<1>1. /\ u.pc = "try" /\ id \in Ids /\ alloc_id' = id
      /\ sent' = sent /\ pipe' = pipe /\ wire' = wire
  BY DEF reserve_id
<1>2. /\ slot \in [SlotIx -> SlotRecord] /\ rsv \in [Services -> Reservations] /\ u \in Reservations
      /\ alloc_id \in Nat
  BY SocketAssumption DEF SocketInv, TypeInv
<1>3. id \in Nat /\ id > alloc_id /\ id >= alloc_id
  BY <1>2
<1>4. wire[id] = <<>> /\ i \in SlotIx
  BY <1>1, <1>3, HashIx DEF WireInv, UnopenedInv
<1>5. CASE /\ slot' = [slot EXCEPT ![i].type = "RESERVE"]
           /\ rsv' = [rsv EXCEPT ![w].pc = "store", ![w].id = id]
  <2> DEFINE v == [u EXCEPT !.pc = "store", !.id = id]
  <2>1. rsv' = [rsv EXCEPT ![w] = v]
    BY <1>2, <1>5
  <2>2. v.id = id
    BY <1>2 DEF Reservations
  <2>3. \A j \in SlotIx : slot'[j].type \notin Unused => slot'[j] = slot[j]
    <3>1. slot'[i].type = "RESERVE" /\ \A j \in SlotIx : j # i => slot'[j] = slot[j]
      BY <1>2, <1>4, <1>5 DEF SlotRecord
    <3> QED
      BY <3>1 DEF Unused
  <2> HIDE DEF v, id, i
  <2> QED
    BY <1>1, <1>3, <1>4, <2>1, <2>2, <2>3, TryWire
<1>6. CASE /\ rsv' = [rsv EXCEPT ![w] = IF rsv[w].i + 1 < MAX_SOCKET THEN [rsv[w] EXCEPT !.i = @ + 1] ELSE Idle]
           /\ slot' = slot
  <2> DEFINE v == IF u.i + 1 < MAX_SOCKET THEN [u EXCEPT !.i = u.i + 1] ELSE Idle
  <2>1. rsv' = [rsv EXCEPT ![w] = v]
    BY <1>6
  <2>2. v.pc # "store"
    <3>1. Idle.pc = "idle"
      BY DEF Idle
    <3>2. [u EXCEPT !.i = u.i + 1].pc = u.pc
      BY <1>2 DEF Reservations
    <3> QED
      BY <1>1, <3>1, <3>2
  <2> HIDE DEF v, id, i
  <2> QED
    BY <1>1, <1>3, <1>6, <2>1, <2>2, TryWire
<1> QED
  BY <1>5, <1>6 DEF reserve_id

\* A command is written to the pipe.
LEMMA RequestWire ==
  ASSUME SocketInv, WireInv, NEW r \in Requests, Request(r), Opens(r) => wire[r.id] = <<>>,
         Queued(sent', pipe'), Later(sent, pipe, sent', pipe'), wire' = wire, alloc_id' = alloc_id,
         \A x \in Services : rsv'[x].pc = "store" => rsv'[x] = rsv[x],
         \A j \in SlotIx : slot'[j].type \notin Unused => slot'[j] = slot[j]
  PROVE  WireInv'
<1>1. pipe \in Seq(Requests) /\ UnopenedInv
  BY DEF SocketInv, TypeInv, WireInv
<1>2. pipe' = Append(pipe, r)
  BY DEF Request
<1>3. PICK d \in Nat : /\ DOMAIN pipe = 1 .. d /\ DOMAIN pipe' = 1 .. d + 1 /\ pipe'[d + 1] = r
                       /\ \A n \in 1 .. d : pipe'[n] = pipe[n]
  BY <1>1, <1>2, AppendSeq
<1>4. \A n \in DOMAIN pipe' : pipe'[n] = r \/ (n \in DOMAIN pipe /\ pipe'[n] = pipe[n])
  BY <1>3
<1>5. UnopenedInv'
  <2>1. \A n \in DOMAIN pipe' : Opens(pipe'[n]) => wire'[pipe'[n].id] = <<>>
    BY <1>1, <1>4 DEF UnopenedInv
  <2>2. \A x \in Services : rsv'[x].pc = "store" => wire'[rsv'[x].id] = <<>>
    BY <1>1 DEF UnopenedInv
  <2> QED
    BY <1>1, <2>1, <2>2 DEF UnopenedInv
<1> QED
  BY <1>5, QuietWire

LEMMA AskWire ==
  ASSUME SocketInv, WireInv, NEW w \in Services, NEW id \in Ids, NEW op \in {"S", "K"},
         NEW shutdown \in BOOLEAN, Ask(w, id, op, shutdown)
  PROVE  WireInv'
<1> DEFINE r == [op |-> op, id |-> id, opaque |-> w, shutdown |-> shutdown, p |-> 0]
<1>1. r \in Requests /\ r.op = op
  BY DEF Requests
<1>2. /\ Request(r) /\ rsv' = rsv /\ slot' = slot
      /\ wire' = wire /\ alloc_id' = alloc_id /\ sent' = sent
  BY DEF Ask
<1> HIDE DEF r
<1>3. ~Opens(r) /\ ~Data(r) /\ pipe' = Append(pipe, r)
  BY <1>1, <1>2 DEF Opens, Data, Request
<1>4. pipe \in Seq(Requests) /\ Queued(sent, pipe)
  BY DEF SocketInv, TypeInv, WireInv
<1>5. Queued(sent', pipe') /\ Later(sent, pipe, sent', pipe')
  BY <1>1, <1>2, <1>3, <1>4, AskedLater
<1> QED
  BY <1>1, <1>2, <1>3, <1>5, RequestWire

LEMMA SendRequestWire ==
  ASSUME SocketInv, WireInv, NEW w \in Services, NEW id \in Ids, NEW low \in BOOLEAN,
         SendRequest(w, id, low)
  PROVE  WireInv'
<1> DEFINE p == Len(sent) + 1
           x == [id |-> id, low |-> low]
           r == [op |-> IF low THEN "P" ELSE "D", id |-> id, opaque |-> w, shutdown |-> FALSE, p |-> p]
<1>1. /\ Request(r) /\ p \in Packets /\ rsv' = rsv /\ slot' = slot
      /\ wire' = wire /\ alloc_id' = alloc_id /\ sent' = Append(sent, x)
  BY DEF SendRequest
<1> HIDE DEF p
<1>2. r \in Requests /\ r.op = (IF low THEN "P" ELSE "D") /\ r.p = p
  BY <1>1 DEF Requests
<1> HIDE DEF r
<1>3. ~Opens(r) /\ pipe' = Append(pipe, r)
  BY <1>1, <1>2 DEF Opens, Request
<1>4. pipe \in Seq(Requests) /\ Queued(sent, pipe)
  BY DEF SocketInv, TypeInv, WireInv
<1>5. Queued(sent', pipe') /\ Later(sent, pipe, sent', pipe')
  BY <1>1, <1>2, <1>3, <1>4, SentLater DEF p
<1> QED
  BY <1>1, <1>2, <1>3, <1>5, RequestWire

LEMMA StoreWire ==
  ASSUME SocketInv, failed = "no", ~raced, WireInv, NEW w \in Services, ReserveStore(w)
  PROVE  WireInv'
<1> DEFINE id == rsv[w].id
           i == Hash(id)
           r == [op |-> rsv[w].op, id |-> id, opaque |-> w, shutdown |-> FALSE, p |-> 0]
<1>1. /\ rsv[w].pc = "store" /\ slot' = [slot EXCEPT ![i].id = id] /\ Request(r)
      /\ rsv' = [rsv EXCEPT ![w] = Idle] /\ wire' = wire /\ alloc_id' = alloc_id /\ sent' = sent
  BY DEF ReserveStore
<1>2. /\ slot \in [SlotIx -> SlotRecord] /\ rsv \in [Services -> Reservations] /\ id \in Ids
      /\ rsv[w].op \in {"O", "L"} /\ slot[i].type = "RESERVE" /\ wire[id] = <<>>
      /\ pipe \in Seq(Requests) /\ Queued(sent, pipe)
  BY <1>1 DEF SocketInv, CalmInv, ClaimInv, FreshInv, TypeInv, Opens, WireInv, UnopenedInv
<1>3. i \in SlotIx
  BY <1>2, HashIx DEF Ids
<1>4. r \in Requests /\ r.id = id /\ ~Data(r)
  BY <1>2 DEF Requests, Data
<1>5. \A x \in Services : rsv'[x].pc = "store" => rsv'[x] = rsv[x]
  <2>1. Idle.pc # "store" /\ rsv'[w] = Idle /\ \A x \in Services : x # w => rsv'[x] = rsv[x]
    BY <1>1, <1>2 DEF Idle
  <2> QED
    BY <2>1
<1>6. \A j \in SlotIx : slot'[j].type \notin Unused => slot'[j] = slot[j]
  <2>1. slot'[i].type = "RESERVE" /\ \A j \in SlotIx : j # i => slot'[j] = slot[j]
    BY <1>1, <1>2, <1>3 DEF SlotRecord
  <2> QED
    BY <2>1 DEF Unused
<1> HIDE DEF r
<1>7. pipe' = Append(pipe, r)
  BY <1>1 DEF Request
<1>8. Queued(sent', pipe') /\ Later(sent, pipe, sent', pipe')
  BY <1>1, <1>2, <1>4, <1>7, AskedLater
<1> QED
  BY <1>1, <1>2, <1>4, <1>5, <1>6, <1>8, RequestWire

LEMMA ServiceWire ==
  ASSUME SocketInv, failed = "no", ~raced', WireInv, NEW w \in Services, Service(w)
  PROVE  WireInv'
<1>1. raced' = raced
  BY Zenon DEF Service, ReserveBegin, reserve_id, ReserveStore, Ask, SendRequest
<1>2. CASE \E op \in {"O", "L"} : ReserveBegin(w, op)
  BY <1>2, BeginWire
<1>3. CASE reserve_id(w)
  BY <1>3, ReserveIdWire
<1>4. CASE ReserveStore(w)
  BY <1>1, <1>4, StoreWire
<1>5. CASE \E id \in Ids : Ask(w, id, "S", FALSE)
  BY <1>5, AskWire
<1>6. CASE \E id \in Ids : \E shutdown \in BOOLEAN : Ask(w, id, "K", shutdown)
  BY <1>6, AskWire
<1>7. CASE \E id \in Ids : \E low \in BOOLEAN : SendRequest(w, id, low)
  BY <1>7, SendRequestWire
<1> QED
  BY <1>2, <1>3, <1>4, <1>5, <1>6, <1>7 DEF Service

-----------------------------------------------------------------------------
(* The wire is an invariant until the socket thread meets, or frees, a     *)
(* slot that is just being reserved.                                       *)

CalmWire == ~raced => WireInv

LEMMA InitWire ==
  Init => CalmWire
<1> SUFFICES ASSUME Init PROVE WireInv
  BY DEF CalmWire
<1>1. sent = <<>> /\ pipe = <<>> /\ DOMAIN pipe = {} /\ \A id \in Ids : wire[id] = <<>>
  BY DEF Init
<1>2. <<>> \in Seq(Units) /\ wire \in [Ids -> Seq(Units)]
  BY EmptyList DEF Init
<1>3. Queued(sent, pipe)
  <2>1. <<>> \in Seq([id : Ids, low : BOOLEAN])
    OBVIOUS
  <2> QED
    BY <1>1, <2>1 DEF Queued
<1>4. \A id \in Ids : Sound(wire[id], sent, pipe)
  BY <1>1, EmptyLined
<1>5. \A i \in SlotIx : SlotLined(slot[i], wire)
  BY FreeFields DEF Init, SlotLined, Unused
<1>6. UnopenedInv
  <2>1. \A w \in Services : rsv[w].pc = "idle"
    BY DEF Init, Idle
  <2> QED
    BY <1>1, <2>1 DEF UnopenedInv
<1> QED
  BY <1>2, <1>3, <1>4, <1>5, <1>6 DEF WireInv

LEMMA NextWire ==
  SocketInv /\ CalmWire /\ [Next]_vars => CalmWire'
<1> SUFFICES ASSUME SocketInv, CalmWire, [Next]_vars, ~raced' PROVE WireInv'
  BY DEF CalmWire
<1>1. CASE UNCHANGED vars
  BY <1>1 DEF vars, CalmWire, WireInv, UnopenedInv, SlotLined
<1>2. CASE Next
  <2>1. failed = "no"
    BY <1>2 DEF Next
  <2>2. CASE Poll
    <3>1. ~raced
      BY <2>2, Zenon DEF Poll, open_socket, open_failed, listen_socket, start_socket, close_socket, send_socket,
         clear_closed_event, sp_wait, Wait, SkipEvent, report_connect, report_accept,
         forward_message_tcp, Flush
    <3>2. WireInv
      BY <3>1 DEF CalmWire
    <3> QED
      BY <2>1, <2>2, <3>2, OpenWire, OpenFailedWire, StartWire, CloseWire, SendWire, QuietEventWire, ConnectWire,
         AcceptWire, ReadWire, FlushWire DEF Poll
  <2>3. ASSUME NEW w \in Services, Service(w) PROVE WireInv'
    <3>1. ~raced
      BY <2>3, Zenon DEF Service, ReserveBegin, reserve_id, ReserveStore, Ask, SendRequest
    <3>2. WireInv
      BY <3>1 DEF CalmWire
    <3> QED
      BY <2>1, <2>3, <3>2, ServiceWire
  <2> QED
    BY <1>2, <2>2, <2>3 DEF Next
<1> QED
  BY <1>1, <1>2

LEMMA WireImplied ==
  CalmWire => WireFramed
<1> SUFFICES ASSUME CalmWire, ~raced, NEW id \in Ids
             PROVE  LET u == wire[id] IN
                    /\ u # <<>> => u[1][2] = 1
                    /\ \A n \in 1 .. Len(u) - 1 :
                          \/ u[n + 1] = <<u[n][1], u[n][2] + 1>>
                          \/ u[n][2] = Size[u[n][1]] /\ u[n + 1][2] = 1
                    /\ \A m, n \in DOMAIN u :
                          m < n /\ sent[u[m][1]].low = sent[u[n][1]].low => u[m][1] <= u[n][1]
  BY DEF WireFramed
<1>1. Sound(wire[id], sent, pipe)
  BY DEF CalmWire, WireInv
<1> QED
  BY <1>1, Zenon DEF Sound, Starts, Chained, Follows, Ordered

-----------------------------------------------------------------------------
(* What is proved of the socket server.                                    *)

\* SlotsSound, for any number of slots, services, packets and requests: the
\* bookkeeping of reserve_id, open_socket, force_close, append_sendbuffer and
\* send_buffer neither leaks a slot nor loses count of a buffer.
THEOREM SlotsAccounted ==
  Spec => []SlotsSound
  BY InvariantSocket, SlotsImplied, PTL

\* AssertsPinned: the assertions of new_fd, force_close and the entry of
\* send_buffer can only fail after the collision with a worker that it names.
THEOREM AssertsHold ==
  Spec => []AssertsPinned
<1>1. SocketInv => AssertsPinned
  BY DEF SocketInv
<1> QED
  BY <1>1, InvariantSocket, PTL

\* EventCurrent: clear_closed_event keeps the events of a closed socket from
\* the next socket in its slot.
THEOREM EventsCurrent ==
  Spec => []EventCurrent
  BY InvariantSocket, EventsImplied, PTL

\* DataToOpener: forward_message_tcp reports to the service that start_socket,
\* open_socket or report_connect named last, and nothing opens what is gone.
THEOREM DataReachesOpener ==
  Spec => DataToOpener
<1>1. SocketInv /\ [Next]_vars => [ToOpener]_vars
  <2> SUFFICES ASSUME SocketInv, Next PROVE ToOpener
    OBVIOUS
  <2>1. CASE Poll
    BY <2>1, PollTold
  <2>2. CASE \E w \in Services : Service(w)
    BY <2>2, ServiceSilent DEF ToOpener
  <2> QED
    BY <2>1, <2>2 DEF Next
<1>2. [ToOpener]_vars => [~raced' /\ result' # result =>
          /\ result'.type = "DATA" => heard[result'.id] = result'.opaque
          /\ result'.type = "OPEN" => heard[result'.id] # "gone"]_vars
  BY DEF ToOpener
<1> QED
  BY <1>1, <1>2, InvariantSocket, PTL DEF Spec, DataToOpener

\* WireFramed: send_socket, send_buffer, raise_uncomplete and close_socket never
\* put a unit of one packet inside another, nor a packet before an older one of
\* its priority, however the system cuts the writes.
THEOREM PacketsWhole ==
  Spec => []WireFramed
<1>1. Spec => []CalmWire
  BY InvariantSocket, InitWire, NextWire, PTL DEF Spec
<1> QED
  BY <1>1, WireImplied, PTL
=============================================================================
