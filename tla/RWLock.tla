------------------------------- MODULE RWLock -------------------------------
(***************************************************************************)
(* The reader-writer spin lock of skynet-src/rwlock.h, which protects the  *)
(* handle storage, one step per access to its two counters.  The accesses  *)
(* are sequentially consistent, as the __sync builtins make them on x86.   *)
(***************************************************************************)
EXTENDS Integers, FiniteSets

CONSTANT Thread

ASSUME ThreadAssumption == IsFiniteSet(Thread)

VARIABLES
  write, read,   \* the fields of struct rwlock
  pc             \* where each thread is

lockVars == <<write, read, pc>>

Locations == {"out", "rspin", "radd", "rtest", "rback", "reading", "wspin", "wdrain", "writing"}

\* rwlock_init.
rwlock_init == write = 0 /\ read = 0 /\ pc = [t \in Thread |-> "out"]

Goto(t, from, to) == pc[t] = from /\ pc' = [pc EXCEPT ![t] = to]

\* A thread calls rwlock_rlock.
StartRead(t) == Goto(t, "out", "rspin") /\ UNCHANGED <<write, read>>

\* Variant of SpinRead: the reader does not wait for the writer.
SpinReadOnce(t) == Goto(t, "rspin", "radd") /\ UNCHANGED <<write, read>>

\* while (lock->write).
SpinRead(t) == write = 0 /\ Goto(t, "rspin", "radd") /\ UNCHANGED <<write, read>>

\* __sync_add_and_fetch(&lock->read, 1).
AddRead(t) == Goto(t, "radd", "rtest") /\ read' = read + 1 /\ UNCHANGED write

\* Variant of EnterRead: the reader does not look at write again.
EnterReadUnchecked(t) == Goto(t, "rtest", "reading") /\ UNCHANGED <<write, read>>

\* if (lock->write) ... else break.
EnterRead(t) == write = 0 /\ Goto(t, "rtest", "reading") /\ UNCHANGED <<write, read>>

\* The writer came first.
RefuseRead(t) == write # 0 /\ Goto(t, "rtest", "rback") /\ UNCHANGED <<write, read>>

\* __sync_sub_and_fetch(&lock->read, 1), and around the loop again.
BackRead(t) == Goto(t, "rback", "rspin") /\ read' = read - 1 /\ UNCHANGED write

\* rwlock_runlock.
UnlockRead(t) == Goto(t, "reading", "out") /\ read' = read - 1 /\ UNCHANGED write

\* A thread calls rwlock_wlock.
StartWrite(t) == Goto(t, "out", "wspin") /\ UNCHANGED <<write, read>>

\* while (__sync_lock_test_and_set(&lock->write, 1)).
TakeWrite(t) == write = 0 /\ Goto(t, "wspin", "wdrain") /\ write' = 1 /\ UNCHANGED read

\* while (lock->read).
Drained(t) == read = 0 /\ Goto(t, "wdrain", "writing") /\ UNCHANGED <<write, read>>

\* rwlock_wunlock.
UnlockWrite(t) == Goto(t, "writing", "out") /\ write' = 0 /\ UNCHANGED read

\* What a thread that has called goes on to do.
Proceed(t) ==
  \/ SpinRead(t) \/ AddRead(t) \/ EnterRead(t) \/ RefuseRead(t) \/ BackRead(t) \/ UnlockRead(t)
  \/ TakeWrite(t) \/ Drained(t) \/ UnlockWrite(t)

LockNext == \E t \in Thread : StartRead(t) \/ StartWrite(t) \/ Proceed(t)

\* Every thread inside the lock's functions or its critical section runs on.
LockFairness == \A t \in Thread : WF_lockVars(Proceed(t))
LockSpec == rwlock_init /\ [][LockNext]_lockVars /\ LockFairness
-----------------------------------------------------------------------------

\* A thread that writes is alone (rwlock_wlock against both lock functions).
Exclusion == \A t, u \in Thread : pc[t] = "writing" /\ t # u => pc[u] \notin {"writing", "reading"}

\* A writer that has the write flag gets in: readers that arrive later give
\* way (the second test of rwlock_rlock and its inner loop).
WriterEnters == \A t \in Thread : pc[t] = "wdrain" ~> pc[t] = "writing"
-----------------------------------------------------------------------------

\* The threads counted in read, and those that own write.
Counted == {t \in Thread : pc[t] \in {"rtest", "rback", "reading"}}
Owners == {t \in Thread : pc[t] \in {"wdrain", "writing"}}

LockTypeOK == write \in {0, 1} /\ read \in Nat /\ pc \in [Thread -> Locations]

\* Inductive invariant: read counts the readers that have announced
\* themselves, write has at most one owner, and Exclusion.
LockInv ==
  /\ LockTypeOK
  /\ read = Cardinality(Counted)
  /\ write = 0 => Owners = {}
  /\ \A t, u \in Owners : t = u
  /\ \A t, u \in Thread : pc[t] = "writing" => pc[u] # "reading"
=============================================================================
