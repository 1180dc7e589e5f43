---------------------------- MODULE SkynetHandle ----------------------------
(***************************************************************************)
(* The handle storage of skynet-src/skynet_handle.c: a hash table from     *)
(* handles to service contexts that doubles when it is full, and a sorted  *)
(* table of local names.  Each operation runs inside the storage's         *)
(* reader-writer lock (module RWLock) and is one action, except that       *)
(* skynet_context_new stores the handle it was given in the context after  *)
(* the lock was released: until then the context is in the table with      *)
(* handle 0.                                                               *)
(***************************************************************************)
EXTENDS Integers, Sequences, FiniteSetsExt

CONSTANTS
  Ctx,                \* contexts; one that was retired may be launched again
  NULL,               \* no context
  Names,              \* local names: numbers, whose order is that of strcmp
  DEFAULT_SLOT_SIZE,  \* initial size of the table, 4 in the code
  HANDLE_MASK,        \* greatest local handle, 0xffffff in the code
  Harbor,             \* the harbor id, in the bits above HANDLE_MASK
  ConcurrentLaunch    \* may two threads launch services at the same time?

\* The sizes the table can have: h & (size - 1) in the code is h % size.
PowersOfTwo == {1, 2, 4, 8, 16, 32, 64, 128, 256, 512, 1024, 2048, 4096, 8192, 16384,
                32768, 65536, 131072, 262144, 524288, 1048576, 2097152, 4194304,
                8388608, 16777216}

ASSUME CtxAssumption == NULL \notin Ctx
ASSUME NamesAssumption == Names \subseteq Nat
ASSUME MaskAssumption ==
  /\ HANDLE_MASK \in Nat /\ {DEFAULT_SLOT_SIZE, HANDLE_MASK + 1} \subseteq PowersOfTwo
  /\ \E p \in PowersOfTwo : DEFAULT_SLOT_SIZE * p = HANDLE_MASK + 1
ASSUME HarborAssumption == Harbor \in Nat /\ ConcurrentLaunch \in BOOLEAN

VARIABLES
  slot, slot_size,    \* the table
  handle_index,       \* where the search for a free handle starts
  handle,             \* the handle field of each context
  launch,             \* each context: "none", "new" (registered, field not set), "live"
  given,              \* what skynet_handle_register returned for each context
  name,               \* the names in use, sorted: records [name, handle]
  name_cap,           \* capacity of the name array
  failed,             \* an assertion has failed and the process is gone
  lap                 \* history: the handles given since the index last wrapped

tableVars == <<slot, slot_size, handle_index>>
vars == <<slot, slot_size, handle_index, handle, launch, given, name, name_cap, failed, lap>>

Remote == Harbor * (HANDLE_MASK + 1)
Handles == {Remote + h : h \in 0..HANDLE_MASK}

\* skynet_handle_init.
Init ==
  /\ slot = [i \in 0..DEFAULT_SLOT_SIZE - 1 |-> NULL] /\ slot_size = DEFAULT_SLOT_SIZE
  /\ handle_index = 1
  /\ handle = [c \in Ctx |-> 0] /\ given = [c \in Ctx |-> 0]
  /\ launch = [c \in Ctx |-> "none"]
  /\ name = <<>> /\ name_cap = 2
  /\ failed = FALSE /\ lap = {}
-----------------------------------------------------------------------------
(* Registering a context.                                                  *)

\* The i-th handle tried.
Candidate(i) == (i + handle_index) % (HANDLE_MASK + 1)

\* The tries that find a free slot in a table of the given size.
Free(table, size) == {i \in 0..size - 1 : table[Candidate(i) % size] = NULL}

\* Variant of Take: the search starts at handle 0 each time.
TakeFromZero(c, table, size) ==
  LET h == Min({g \in 0..HANDLE_MASK : table[g % size] = NULL}) IN
    /\ slot' = [table EXCEPT ![h % size] = c] /\ slot_size' = size
    /\ handle_index' = h + 1
    /\ given' = [given EXCEPT ![c] = h + Remote]
    /\ lap' = lap \cup {h + Remote}

\* Put c in the first free slot and give it the handle tried there.
Take(c, table, size) ==
  LET i == Min(Free(table, size))
      h == Candidate(i) IN
    /\ slot' = [table EXCEPT ![h % size] = c] /\ slot_size' = size
    /\ handle_index' = h + 1
    /\ given' = [given EXCEPT ![c] = h + Remote]
    /\ lap' = IF i + handle_index > HANDLE_MASK THEN {h + Remote} ELSE lap \cup {h + Remote}

\* Where the loop that doubles the table puts the contexts.
NewHash(i) == handle[slot[i]] % (2 * slot_size)

\* assert((s->slot_size*2 - 1) <= HANDLE_MASK).
CanDouble == 2 * slot_size - 1 <= HANDLE_MASK

\* Two contexts land in one slot of the new table: assert(new_slot[hash] == NULL).
Collision == \E i, j \in 0..slot_size - 1 : i # j /\ NewHash(i) = NewHash(j)

\* Variant of Doubled: contexts keep the place they had.
DoubledInPlace == [s \in 0..2 * slot_size - 1 |-> IF s < slot_size THEN slot[s] ELSE NULL]

\* The doubled table.
Doubled == [s \in 0..2 * slot_size - 1 |->
              IF \E i \in 0..slot_size - 1 : NewHash(i) = s
              THEN slot[CHOOSE i \in 0..slot_size - 1 : NewHash(i) = s] ELSE NULL]

\* skynet_context_new clears the context's handle and calls skynet_handle_register.
StartLaunch(c) ==
  /\ ~failed /\ launch[c] = "none"
  /\ ConcurrentLaunch \/ \A d \in Ctx : launch[d] # "new"
  /\ launch' = [launch EXCEPT ![c] = "new"]
  /\ UNCHANGED <<handle, name, name_cap>>

Register(c) ==
  /\ StartLaunch(c)
  /\ Free(slot, slot_size) # {}
  /\ Take(c, slot, slot_size)
  /\ UNCHANGED failed

RegisterGrow(c) ==
  /\ StartLaunch(c)
  /\ Free(slot, slot_size) = {}
  /\ CanDouble /\ ~Collision
  /\ Take(c, Doubled, 2 * slot_size)
  /\ UNCHANGED failed

\* One of the two assertions of the doubling stops the process.
RegisterAssert(c) ==
  /\ StartLaunch(c)
  /\ Free(slot, slot_size) = {}
  /\ ~CanDouble \/ Collision
  /\ failed' = TRUE
  /\ UNCHANGED <<tableVars, given, lap>>

\* ctx->handle = skynet_handle_register(ctx), the store.
SetHandle(c) ==
  /\ ~failed /\ launch[c] = "new"
  /\ handle' = [handle EXCEPT ![c] = given[c]]
  /\ launch' = [launch EXCEPT ![c] = "live"]
  /\ UNCHANGED <<tableVars, given, name, name_cap, failed, lap>>
-----------------------------------------------------------------------------
(* Retiring a handle, and finding the context of one.                      *)

\* skynet_handle_grab, without the reference it takes.
grab(h) ==
  LET c == slot[h % slot_size] IN
    IF c = NULL THEN NULL ELSE IF handle[c] = h THEN c ELSE NULL

\* The loop that compacts the name array: after entry k the names kept are
\* the ones up to k that are not h's.
Kept(h) ==
  LET w[k \in 0..Len(name)] ==
        IF k = 0 THEN <<>>
        ELSE IF name[k].handle = h THEN w[k - 1] ELSE Append(w[k - 1], name[k])
  IN w[Len(name)]

\* Variant of Retire: the names of the handle stay.
RetireKeepNames(h) ==
  /\ ~failed /\ grab(h) # NULL
  /\ LET c == grab(h) IN
       /\ slot' = [slot EXCEPT ![h % slot_size] = NULL]
       /\ launch' = [launch EXCEPT ![c] = "none"]
       /\ handle' = [handle EXCEPT ![c] = 0] /\ given' = [given EXCEPT ![c] = 0]
  /\ UNCHANGED <<slot_size, handle_index, name, name_cap, failed, lap>>

\* skynet_handle_retire of a handle in use; the context is free to be used
\* again for another launch.
Retire(h) ==
  /\ ~failed /\ grab(h) # NULL
  /\ LET c == grab(h) IN
       /\ slot' = [slot EXCEPT ![h % slot_size] = NULL]
       /\ launch' = [launch EXCEPT ![c] = "none"]
       /\ handle' = [handle EXCEPT ![c] = 0] /\ given' = [given EXCEPT ![c] = 0]
  /\ name' = Kept(h)
  /\ UNCHANGED <<slot_size, handle_index, name_cap, failed, lap>>
-----------------------------------------------------------------------------
(* Names.                                                                  *)

\* The binary search of skynet_handle_findname and _insert_name, over the
\* places begin..end: the place of name n, or the place it belongs.
Search(n) ==
  LET s[p \in (1..Len(name) + 1) \X (0..Len(name))] ==
        LET b == p[1]  e == p[2]  mid == (b + e) \div 2 IN
          IF b > e THEN [found |-> FALSE, at |-> b]
          ELSE IF name[mid].name = n THEN [found |-> TRUE, at |-> mid]
          ELSE IF name[mid].name < n THEN s[<<mid + 1, e>>]
          ELSE s[<<b, mid - 1>>]
  IN s[<<1, Len(name)>>]

\* skynet_handle_findname.
findname(n) == IF Search(n).found THEN name[Search(n).at].handle ELSE 0

\* Variant of insert_before: the loop that makes room stops one too early.
insert_after(entry, p) ==
  LET q == IF p <= Len(name) THEN p + 1 ELSE p IN
    name' = SubSeq(name, 1, q - 1) \o <<entry>> \o SubSeq(name, q, Len(name))

\* _insert_name_before.
insert_before(entry, p) ==
  name' = SubSeq(name, 1, p - 1) \o <<entry>> \o SubSeq(name, p, Len(name))

\* skynet_handle_namehandle of a name not in use; a name in use is left alone.
NameHandle(h, n) ==
  /\ ~failed /\ ~Search(n).found
  /\ insert_before([name |-> n, handle |-> h], Search(n).at)
  /\ name_cap' = IF Len(name) >= name_cap THEN 2 * name_cap ELSE name_cap
  /\ UNCHANGED <<tableVars, handle, launch, given, failed, lap>>
-----------------------------------------------------------------------------

\* A service is named while it runs or after another killed it: any handle.
Next ==
  \/ \E c \in Ctx : Register(c) \/ RegisterGrow(c) \/ RegisterAssert(c) \/ SetHandle(c)
  \/ \E h \in Handles \ {0} : Retire(h) \/ \E n \in Names : NameHandle(h, n)

Spec == Init /\ [][Next]_vars
-----------------------------------------------------------------------------

HandleTypeOK ==
  /\ slot_size \in PowersOfTwo /\ \E p \in PowersOfTwo : slot_size * p = HANDLE_MASK + 1
  /\ slot \in [0..slot_size - 1 -> Ctx \cup {NULL}]
  /\ handle_index \in 1..HANDLE_MASK + 1
  /\ handle \in [Ctx -> Handles \cup {0}] /\ given \in [Ctx -> Handles \cup {0}]
  /\ launch \in [Ctx -> {"none", "new", "live"}]
  /\ failed \in BOOLEAN /\ lap \subseteq Handles

\* skynet_handle_grab of a handle returns the context that was given it.
GrabExact == \A h \in Handles \ {0} : \A c \in Ctx :
  grab(h) = c <=> launch[c] = "live" /\ given[c] = h

\* The assertions of skynet_handle_register fail only when every handle is in use.
FailsOnlyWhenFull == failed => {handle[c] : c \in {d \in Ctx : launch[d] = "live"}} = Handles

\* The table is exact: whatever was registered, retired and moved when it
\* doubled, grabbing a handle returns the one live context that was given it
\* and nothing when there is none; and with one launch at a time doubling
\* never makes two contexts collide (skynet_handle_register, _grab, _retire).
HandlesExact == HandleTypeOK /\ GrabExact /\ FailsOnlyWhenFull

\* A handle is given again only after the index has gone through all of them:
\* a stale handle does not soon name another service (skynet_handle_register).
NoEarlyReuse == [][\A c \in Ctx :
  given'[c] # given[c] /\ given'[c] # 0 => given'[c] \notin lap \/ handle_index' <= handle_index]_vars

\* The names fit into their array, are sorted and distinct, and the binary search
\* finds exactly the names in the table (_insert_name, skynet_handle_findname).
NamesExact ==
  /\ name \in Seq([name : Names, handle : Handles]) /\ Len(name) <= name_cap
  /\ \A i, j \in 1..Len(name) : i < j => name[i].name < name[j].name
  /\ \A i \in 1..Len(name) : findname(name[i].name) = name[i].handle

\* The first registration of a name wins, only retiring its handle ends it, and
\* then it does end: nobody else's name is changed or lost, and a name that was
\* registered for a live service never leads to another that got its handle
\* later (skynet_handle_namehandle, the compaction in skynet_handle_retire).
NamesKept == [][
  /\ \A n \in Names : findname(n) # 0 =>
       \/ findname(n)' = findname(n)
       \/ /\ findname(n)' = 0
          /\ \E c \in Ctx : given[c] = findname(n) /\ given'[c] = 0
  /\ \A c \in Ctx : launch[c] = "live" /\ launch'[c] = "none" =>
       \A n \in Names : findname(n)' # given[c]]_vars

\* The assertions of skynet_handle_register hold.
AssertsHold == ~failed
=============================================================================
