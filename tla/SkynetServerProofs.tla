------------------------- MODULE SkynetServerProofs -------------------------
(***************************************************************************)
(* The safety properties of SkynetServer hold of every node: any number of *)
(* workers, services and messages, any weights.  They follow from IInv,    *)
(* which is inductive.  First come facts about the operators of the model, *)
(* the types and the stack frames of a thread; then the ownership of       *)
(* queues: the handles that are in circulation have been handed out        *)
(* (KnownInv); a queue never has two owners (OwnInv), and it has one       *)
(* exactly while in_global or release is set (FlagInv).  Then the life of  *)
(* contexts: reference counts are exact (RefExact), a context is deleted   *)
(* once, when its count reaches 0, and its queue after it (LifeInv), and   *)
(* only a service whose init function succeeded is dispatched to           *)
(* (InitInv).                                                              *)
(***************************************************************************)
EXTENDS SkynetServer, FiniteSetTheorems, TLAPS

\* The share of a queue that a worker takes is a number of messages.
LEMMA ShiftRightType ==
  ASSUME NEW k \in Nat, NEW w
  PROVE  ShiftRight(k, w) \in Nat
<1>1. IsFiniteSet(1..k) BY FS_Interval
<1>2. IsFiniteSet({j \in 1..k : j * 2^w <= k}) BY <1>1, FS_Subset
<1> QED BY <1>2, FS_CardinalityType DEF ShiftRight

\* The error report of drop_message is a well-formed send.
LEMMA DropOpType ==
  ASSUME NEW s \in Services, NEW m \in Message
  PROVE  DropOp(s, m) \in OpFrame
  BY DEF DropOp, SendOp, IdleOp, OpFrame, Null, Message, NoMessage

\* So is the frame of skynet_send.
LEMMA SendOpType ==
  ASSUME NEW s \in Null, NEW m \in Message, NEW v \in Null
  PROVE  SendOp(m, s, v) \in OpFrame
  BY DEF SendOp, OpFrame, Null

\* The holders of references to a context are finitely many threads.
LEMMA HoldersFinite ==
  ASSUME NEW s
  PROVE  /\ IsFiniteSet(OpHolders(s)) /\ Cardinality(OpHolders(s)) \in Nat
         /\ IsFiniteSet(DispHolders(s)) /\ Cardinality(DispHolders(s)) \in Nat
         /\ IsFiniteSet(CmdHolders(s)) /\ Cardinality(CmdHolders(s)) \in Nat
         /\ SlotCount(s) \in {0, 1}
<1>1. IsFiniteSet(Threads)
  BY ThreadAssumption, FS_Union DEF Threads
<1>2. /\ OpHolders(s) \subseteq Threads /\ DispHolders(s) \subseteq Threads
      /\ CmdHolders(s) \subseteq Threads
  BY DEF OpHolders, DispHolders, CmdHolders
<1>3. /\ IsFiniteSet(OpHolders(s)) /\ IsFiniteSet(DispHolders(s))
      /\ IsFiniteSet(CmdHolders(s))
  BY <1>1, <1>2, FS_Subset
<1> QED BY <1>3, FS_CardinalityType DEF SlotCount

\* Whoever holds a reference keeps the count of skynet_context.ref above 0.
LEMMA RefPositive ==
  ASSUME TypeOK, RefExact, NEW s \in Services
  PROVE  /\ ref[s] \in Nat
         /\ slot[s] => ref[s] > 0
         /\ OpHolders(s) # {} => ref[s] > 0
         /\ DispHolders(s) # {} => ref[s] > 0
         /\ CmdHolders(s) # {} => ref[s] > 0
<1>1. ref[s] \in Nat /\ ref[s] = RefCount(s)
  BY DEF TypeOK, RefExact
<1>2. /\ OpHolders(s) # {} => Cardinality(OpHolders(s)) # 0
      /\ DispHolders(s) # {} => Cardinality(DispHolders(s)) # 0
      /\ CmdHolders(s) # {} => Cardinality(CmdHolders(s)) # 0
  BY HoldersFinite, FS_EmptySet
<1>3. slot[s] => SlotCount(s) = 1
  BY DEF SlotCount
<1>4. /\ Cardinality(OpHolders(s)) \in Nat /\ Cardinality(DispHolders(s)) \in Nat
      /\ Cardinality(CmdHolders(s)) \in Nat /\ SlotCount(s) \in Nat
  BY HoldersFinite
<1>5. ref[s] = SlotCount(s) + Cardinality(OpHolders(s))
                 + Cardinality(DispHolders(s)) + Cardinality(CmdHolders(s))
  BY <1>1 DEF RefCount
<1>6. /\ SlotCount(s) = 1 => ref[s] > 0
      /\ Cardinality(OpHolders(s)) # 0 => ref[s] > 0
      /\ Cardinality(DispHolders(s)) # 0 => ref[s] > 0
      /\ Cardinality(CmdHolders(s)) # 0 => ref[s] > 0
  BY <1>1, <1>4, <1>5
<1> QED BY <1>1, <1>2, <1>3, <1>6

\* Linking at the tail of the global queue leaves the other places alone.
LEMMA AppendElems ==
  ASSUME NEW S, NEW q \in Seq(S), NEW x \in S
  PROVE  /\ Append(q, x) \in Seq(S) /\ Len(Append(q, x)) = Len(q) + 1
         /\ Append(q, x)[Len(q) + 1] = x
         /\ \A i \in 1..Len(q) : Append(q, x)[i] = q[i]
  OBVIOUS

\* Unlinking the head moves every other queue one place forward.
LEMMA TailElems ==
  ASSUME NEW S, NEW q \in Seq(S), q # <<>>
  PROVE  /\ Tail(q) \in Seq(S) /\ Len(q) \in Nat \ {0} /\ Len(Tail(q)) = Len(q) - 1
         /\ Head(q) \in S /\ Head(q) = q[1]
         /\ \A i \in 1..Len(q) - 1 : Tail(q)[i] = q[i + 1]
  OBVIOUS

\* A queue that somebody owns is live and one of its flags is set.
LEMMA OwnerFacts ==
  ASSUME TypeOK, FrameInv, FlagInv
  PROVE  /\ \A t \in Threads :
              /\ disp[t].q \in Services => qmem[disp[t].q] = "live"
                   /\ (in_global[disp[t].q] = 1 \/ release[disp[t].q] = 1)
              /\ disp[t].nq \in Services => qmem[disp[t].nq] = "live"
                   /\ (in_global[disp[t].nq] = 1 \/ release[disp[t].nq] = 1)
              /\ cmd[t].svc \in Services /\ cmd[t].pc # "mq" =>
                   qmem[cmd[t].svc] = "live"
                   /\ (in_global[cmd[t].svc] = 1 \/ release[cmd[t].svc] = 1)
         /\ \A i \in 1..Len(globalq) : qmem[globalq[i]] = "live"
              /\ (in_global[globalq[i]] = 1 \/ release[globalq[i]] = 1)
<1>1. \A t \in Threads : /\ disp[t].q \in Services => Owned(disp[t].q)
                         /\ disp[t].nq \in Services => Owned(disp[t].nq)
  BY DEF Owned
<1>2. \A t \in Threads : cmd[t].svc \in Services /\ cmd[t].pc # "mq" => Owned(cmd[t].svc)
  BY NullAssumption DEF Owned, LaunchOwns, FrameInv
<1>3. \A i \in 1..Len(globalq) : globalq[i] \in Services /\ Owned(globalq[i])
  BY DEF Owned, InGlobalQueue, TypeOK, MQTypeOK
<1> QED BY <1>1, <1>2, <1>3 DEF FlagInv

\* A queue with both flags clear is in nobody's hands, so it may be linked.
LEMMA NotOwned ==
  ASSUME TypeOK, FrameInv, FlagInv, NEW s \in Services,
         in_global[s] = 0, release[s] = 0, qmem[s] # "none", LifeInv
  PROVE  /\ \A i \in 1..Len(globalq) : globalq[i] # s
         /\ \A t \in Threads : disp[t].q # s /\ disp[t].nq # s /\ cmd[t].svc # s
<1>1. ~Owned(s)
  BY DEF FlagInv
<1>2. \A t \in Threads : cmd[t].svc = s => cmd[t].pc = "mq"
  BY <1>1, NullAssumption DEF Owned, LaunchOwns, FrameInv
<1> QED BY <1>1, <1>2 DEF Owned, InGlobalQueue, LifeInv

\* Linking a queue that nobody else has keeps the owners apart.
LEMMA LinkKeepsApart ==
  ASSUME NEW s \in Services, globalq \in Seq(Services), GlobalOnce,
         globalq' = Append(globalq, s),
         \A i \in 1..Len(globalq) : globalq[i] # s,
         \A t \in Threads : \A i \in 1..Len(globalq) :
           globalq[i] # disp'[t].q /\ globalq[i] # disp'[t].nq /\ globalq[i] # cmd'[t].svc,
         \A t \in Threads : disp'[t].q # s /\ disp'[t].nq # s /\ cmd'[t].svc # s
  PROVE  GlobalOnce' /\ GlobalApart'
<1>1. /\ Len(globalq') = Len(globalq) + 1 /\ globalq'[Len(globalq) + 1] = s
      /\ Len(globalq) \in Nat
      /\ \A i \in 1..Len(globalq) : globalq'[i] = globalq[i]
  BY AppendElems
<1>2. \A i \in 1..Len(globalq') : i \in 1..Len(globalq) \/ i = Len(globalq) + 1
  BY <1>1
<1>3. GlobalOnce' BY <1>1, <1>2 DEF GlobalOnce
<1>4. GlobalApart' BY <1>1, <1>2 DEF GlobalApart
<1> QED BY <1>3, <1>4

\* Taking the head of the global queue keeps the owners apart.
LEMMA UnlinkKeepsApart ==
  ASSUME globalq \in Seq(Services), globalq # <<>>, GlobalOnce,
         globalq' = Tail(globalq),
         \A t \in Threads : \A i \in 1..Len(globalq) : i > 1 =>
           globalq[i] # disp'[t].q /\ globalq[i] # disp'[t].nq /\ globalq[i] # cmd'[t].svc
  PROVE  GlobalOnce' /\ GlobalApart'
<1>1. /\ Len(globalq) \in Nat \ {0} /\ Len(globalq') = Len(globalq) - 1
      /\ \A i \in 1..Len(globalq) - 1 : globalq'[i] = globalq[i + 1]
  BY TailElems
<1>2. \A i \in 1..Len(globalq') : i \in 1..Len(globalq) - 1 /\ i + 1 \in 1..Len(globalq) /\ i + 1 > 1
  BY <1>1
<1>3. GlobalOnce' BY <1>1, <1>2 DEF GlobalOnce
<1>4. GlobalApart' BY <1>1, <1>2 DEF GlobalApart
<1> QED BY <1>3, <1>4

\* Every step of the kernel keeps the types; that a count does not fall below
\* 0 in skynet_context_release is RefPositive.
LEMMA TypeStep ==
  ASSUME TypeOK, FrameInv, RefExact, [Next]_vars
  PROVE  TypeOK'
<1>1. ASSUME NEW t \in Threads, OpStep(t) PROVE TypeOK'
  <2>1. CASE PushGrab(t)
    <3>1. op[t].svc \in Services /\ op[t] \in OpFrame
      BY <2>1 DEF PushGrab, TypeOK, OpFrame, Null, FrameInv
    <3>2. ref' \in [Services -> Nat]
      BY <2>1, <3>1 DEF PushGrab, TypeOK
    <3>3. op' \in [Threads -> OpFrame]
      BY <2>1, <3>1 DEF PushGrab, TypeOK, OpTo, OpFrame
    <3> QED
      BY <2>1, <3>2, <3>3 DEF PushGrab, mqVars, TypeOK, MQTypeOK
  <2>2. CASE PushRefused(t)
    <3>1. op[t].svc \in Services /\ op[t] \in OpFrame
      BY <2>2 DEF PushRefused, TypeOK, OpFrame, Null, FrameInv
    <3>2. op' \in [Threads -> OpFrame]
      BY <2>2, <3>1 DEF PushRefused, TypeOK, AfterSend, IdleOp, RetireOp, OpFrame,
         Null, NoMessage
    <3>3. fate' \in [Msgs -> Fates]
      BY <2>2, <3>1 DEF PushRefused, TypeOK, Fates, Fate
    <3> QED
      BY <2>2, <3>2, <3>3 DEF PushRefused, mqVars, TypeOK, MQTypeOK
  <2>3. CASE Push(t)
    <3>1. op[t].svc \in Services /\ op[t] \in OpFrame
      BY <2>3 DEF Push, TypeOK, OpFrame, Null, FrameInv
    <3>2. op[t].msg \in Message
      BY <3>1, <2>3 DEF Push, TypeOK, FrameInv
    <3>3. globalq' \in Seq(Services)
      BY <2>3, <3>1, <3>2 DEF Push, TypeOK, MQTypeOK, mq_push
    <3>4. queue' \in [Services -> Seq(Message)]
      BY <2>3, <3>1, <3>2 DEF Push, TypeOK, MQTypeOK, mq_push
    <3>5. in_global' \in [Services -> {0, 1}]
      BY <2>3, <3>1, <3>2 DEF Push, TypeOK, MQTypeOK, mq_push
    <3>6. op' \in [Threads -> OpFrame]
      BY <2>3, <3>1, <3>2 DEF Push, TypeOK, OpTo, OpFrame
    <3>7. fate' \in [Msgs -> Fates]
      BY <2>3, <3>1, <3>2 DEF Push, TypeOK, Fates, Fate
    <3> QED
      BY <2>3, <3>3, <3>4, <3>5, <3>6, <3>7 DEF Push, mq_push, TypeOK, MQTypeOK
  <2>4. CASE Release(t)
    <3>1. op[t].svc \in Services /\ op[t] \in OpFrame
      BY <2>4 DEF Release, TypeOK, OpFrame, Null, FrameInv
    <3>2. ref[op[t].svc] \in Nat /\ ref[op[t].svc] # 0
      BY RefPositive, <3>1, <2>4 DEF OpHolders, Release
    <3>3. ref' \in [Services -> Nat]
      BY <2>4, <3>1, <3>2 DEF Release, TypeOK
    <3>4. op' \in [Threads -> OpFrame]
      BY <2>4, <3>1, <3>2 DEF Release, TypeOK, OpTo, AfterSend, IdleOp, RetireOp,
         OpFrame, Null, NoMessage
    <3> QED
      BY <2>4, <3>3, <3>4 DEF Release, mqVars, TypeOK, MQTypeOK
  <2>5. CASE Delete(t)
    <3>1. op[t].svc \in Services /\ op[t] \in OpFrame
      BY <2>5 DEF Delete, TypeOK, OpFrame, Null, FrameInv
    <3>2. globalq' \in Seq(Services)
      BY <2>5, <3>1 DEF Delete, TypeOK, MQTypeOK, mark_release
    <3>3. release' \in [Services -> {0, 1}]
      BY <2>5, <3>1 DEF Delete, TypeOK, MQTypeOK, mark_release
    <3>4. ctx' \in [Services -> {"none", "live", "freed"}]
      BY <2>5, <3>1 DEF Delete, TypeOK
    <3>5. total' \in Int
      BY <2>5, <3>1 DEF Delete, TypeOK
    <3>6. op' \in [Threads -> OpFrame]
      BY <2>5, <3>1 DEF Delete, TypeOK, AfterSend, IdleOp, RetireOp, OpFrame, Null,
         NoMessage
    <3>7. cmd' \in [Threads -> CmdFrame]
      BY <2>5, <3>1 DEF Delete, TypeOK, CmdTo, CmdFrame
    <3> QED
      BY <2>5, <3>2, <3>3, <3>4, <3>5, <3>6, <3>7 DEF Delete, mark_release, TypeOK,
         MQTypeOK
  <2>6. CASE Retire(t)
    <3>1. op[t].svc \in Services /\ op[t] \in OpFrame
      BY <2>6 DEF Retire, TypeOK, OpFrame, Null, FrameInv
    <3>2. slot' \in [Services -> BOOLEAN]
      BY <2>6, <3>1 DEF Retire, TypeOK
    <3>3. op' \in [Threads -> OpFrame]
      BY <2>6, <3>1 DEF Retire, TypeOK, ReleaseOp, OpFrame, Null, NoMessage
    <3>4. cmd' \in [Threads -> CmdFrame]
      BY <2>6, <3>1 DEF Retire, TypeOK, Scan, CmdFrame, Null
    <3> QED
      BY <2>6, <3>2, <3>3, <3>4 DEF Retire, mqVars, TypeOK, MQTypeOK
  <2>7. CASE RetireNothing(t)
    <3>1. op[t].svc \in Services /\ op[t] \in OpFrame
      BY <2>7 DEF RetireNothing, TypeOK, OpFrame, Null, FrameInv
    <3>2. op' \in [Threads -> OpFrame]
      BY <2>7, <3>1 DEF RetireNothing, TypeOK, IdleOp, OpFrame, Null, NoMessage
    <3> QED
      BY <2>7, <3>2 DEF RetireNothing, mqVars, TypeOK, MQTypeOK
  <2> QED BY <1>1, <2>1, <2>2, <2>3, <2>4, <2>5, <2>6, <2>7 DEF OpStep
<1>2. ASSUME NEW t \in Threads, CmdStep(t) PROVE TypeOK'
  <2>1. CASE CreateQueue(t)
    <3>1. cmd[t].svc \in Services /\ cmd[t] \in CmdFrame
      BY <2>1 DEF CreateQueue, TypeOK, CmdFrame, Null, FrameInv
    <3>2. queue' \in [Services -> Seq(Message)]
      BY <2>1, <3>1 DEF CreateQueue, TypeOK, MQTypeOK, mq_create
    <3>3. in_global' \in [Services -> {0, 1}]
      BY <2>1, <3>1 DEF CreateQueue, TypeOK, MQTypeOK, mq_create
    <3>4. release' \in [Services -> {0, 1}]
      BY <2>1, <3>1 DEF CreateQueue, TypeOK, MQTypeOK, mq_create
    <3>5. qmem' \in [Services -> {"none", "live", "freed"}]
      BY <2>1, <3>1 DEF CreateQueue, TypeOK, MQTypeOK, mq_create
    <3>6. total' \in Int
      BY <2>1, <3>1 DEF CreateQueue, TypeOK
    <3>7. cmd' \in [Threads -> CmdFrame]
      BY <2>1, <3>1 DEF CreateQueue, TypeOK, CmdTo, CmdFrame
    <3> QED
      BY <2>1, <3>2, <3>3, <3>4, <3>5, <3>6, <3>7 DEF CreateQueue, mq_create, TypeOK,
         MQTypeOK
  <2>2. CASE InitOK(t)
    <3>1. cmd[t].svc \in Services /\ cmd[t] \in CmdFrame
      BY <2>2 DEF InitOK, TypeOK, CmdFrame, Null, FrameInv
    <3>2. op' \in [Threads -> OpFrame]
      BY <2>2, <3>1 DEF InitOK, TypeOK, ReleaseOp, OpFrame, Null, NoMessage
    <3>3. cmd' \in [Threads -> CmdFrame]
      BY <2>2, <3>1 DEF InitOK, TypeOK, CmdTo, CmdFrame
    <3> QED
      BY <2>2, <3>2, <3>3 DEF InitOK, mqVars, TypeOK, MQTypeOK
  <2>3. CASE SetInit(t)
    <3>1. cmd[t].svc \in Services /\ cmd[t] \in CmdFrame
      BY <2>3 DEF SetInit, TypeOK, CmdFrame, Null, FrameInv
    <3>2. init' \in [Services -> BOOLEAN]
      BY <2>3, <3>1 DEF SetInit, TypeOK
    <3>3. cmd' \in [Threads -> CmdFrame]
      BY <2>3, <3>1 DEF SetInit, TypeOK, CmdTo, CmdFrame
    <3> QED
      BY <2>3, <3>2, <3>3 DEF SetInit, mqVars, TypeOK, MQTypeOK
  <2>4. CASE LaunchPush(t)
    <3>1. cmd[t].svc \in Services /\ cmd[t] \in CmdFrame
      BY <2>4 DEF LaunchPush, TypeOK, CmdFrame, Null, FrameInv
    <3>2. globalq' \in Seq(Services)
      BY <2>4, <3>1 DEF LaunchPush, TypeOK, MQTypeOK, globalmq_push
    <3>3. cmd' \in [Threads -> CmdFrame]
      BY <2>4, <3>1 DEF LaunchPush, TypeOK, IdleCmd, CmdFrame, Null
    <3> QED
      BY <2>4, <3>2, <3>3 DEF LaunchPush, TypeOK, MQTypeOK
  <2>5. CASE InitFail(t)
    <3>1. cmd[t].svc \in Services /\ cmd[t] \in CmdFrame
      BY <2>5 DEF InitFail, TypeOK, CmdFrame, Null, FrameInv
    <3>2. op' \in [Threads -> OpFrame]
      BY <2>5, <3>1 DEF InitFail, TypeOK, ReleaseOp, OpFrame, Null, NoMessage
    <3>3. cmd' \in [Threads -> CmdFrame]
      BY <2>5, <3>1 DEF InitFail, TypeOK, CmdTo, CmdFrame
    <3> QED
      BY <2>5, <3>2, <3>3 DEF InitFail, mqVars, TypeOK, MQTypeOK
  <2>6. CASE LaunchRetire(t)
    <3>1. cmd[t].svc \in Services /\ cmd[t] \in CmdFrame
      BY <2>6 DEF LaunchRetire, TypeOK, CmdFrame, Null, FrameInv
    <3>2. op' \in [Threads -> OpFrame]
      BY <2>6, <3>1 DEF LaunchRetire, TypeOK, RetireOp, OpFrame, Null, NoMessage
    <3>3. cmd' \in [Threads -> CmdFrame]
      BY <2>6, <3>1 DEF LaunchRetire, TypeOK, CmdTo, CmdFrame
    <3> QED
      BY <2>6, <3>2, <3>3 DEF LaunchRetire, mqVars, TypeOK, MQTypeOK
  <2>7. CASE LaunchMqRelease(t)
    <3>1. cmd[t].svc \in Services /\ cmd[t] \in CmdFrame
      BY <2>7 DEF LaunchMqRelease, TypeOK, CmdFrame, Null, FrameInv
    <3>2. globalq' \in Seq(Services)
      BY <2>7, <3>1 DEF LaunchMqRelease, TypeOK, MQTypeOK, mq_release
    <3>3. cmd' \in [Threads -> CmdFrame]
      BY <2>7, <3>1 DEF LaunchMqRelease, TypeOK, CmdTo, CmdFrame, IdleCmd, Null
    <3> QED
      BY <2>7, <3>2, <3>3 DEF LaunchMqRelease, TypeOK, MQTypeOK
  <2>8. CASE LaunchDrop(t)
    <3>1. cmd[t].svc \in Services /\ cmd[t] \in CmdFrame
      BY <2>8 DEF LaunchDrop, TypeOK, CmdFrame, Null, FrameInv
    <3>2. queue[cmd[t].svc] \in Seq(Message) /\ queue[cmd[t].svc] # <<>> /\ Head(queue[cmd[t].svc]) \in Message
      BY <3>1, <2>8 DEF LaunchDrop, TypeOK, mq_pop, MQTypeOK
    <3>3. queue' \in [Services -> Seq(Message)]
      BY <2>8, <3>1, <3>2 DEF LaunchDrop, TypeOK, MQTypeOK, mq_pop
    <3>4. op' \in [Threads -> OpFrame]
      BY DropOpType, <2>8, <3>1, <3>2 DEF LaunchDrop, TypeOK
    <3>5. fate' \in [Msgs -> Fates]
      BY <2>8, <3>1, <3>2 DEF LaunchDrop, TypeOK, Fates, DropFate, Fate
    <3> QED
      BY <2>8, <3>3, <3>4, <3>5 DEF LaunchDrop, mq_pop, TypeOK, MQTypeOK
  <2>9. CASE LaunchDropDone(t)
    <3>1. cmd[t].svc \in Services /\ cmd[t] \in CmdFrame
      BY <2>9 DEF LaunchDropDone, TypeOK, CmdFrame, Null, FrameInv
    <3>2. in_global' \in [Services -> {0, 1}]
      BY <2>9, <3>1 DEF LaunchDropDone, TypeOK, MQTypeOK, drop_done
    <3>3. qmem' \in [Services -> {"none", "live", "freed"}]
      BY <2>9, <3>1 DEF LaunchDropDone, TypeOK, MQTypeOK, drop_done
    <3>4. cmd' \in [Threads -> CmdFrame]
      BY <2>9, <3>1 DEF LaunchDropDone, TypeOK, IdleCmd, CmdFrame, Null
    <3> QED
      BY <2>9, <3>2, <3>3, <3>4 DEF LaunchDropDone, drop_done, TypeOK, MQTypeOK
  <2>10. CASE AbortSlot(t)
    <3>1. cmd[t] \in CmdFrame /\ cmd[t].scan \in SUBSET Services
      BY <2>10 DEF AbortSlot, TypeOK, CmdFrame
    <3>2. PICK s \in cmd[t].scan :
           /\ cmd' = [cmd EXCEPT ![t] = Scan(cmd[t].scan \ {s}, cmd[t].hit)]
           /\ op' = op \/ op' = [op EXCEPT ![t] = RetireOp(s)]
      BY <2>10 DEF AbortSlot
    <3>3. op' \in [Threads -> OpFrame]
      BY <3>1, <3>2 DEF TypeOK, RetireOp, OpFrame, Null, NoMessage
    <3>4. cmd' \in [Threads -> CmdFrame]
      BY <3>1, <3>2 DEF TypeOK, Scan, CmdFrame, Null
    <3> QED
      BY <2>10, <3>3, <3>4 DEF AbortSlot, mqVars, TypeOK, MQTypeOK
  <2>11. CASE AbortPass(t)
    <3>1. cmd' \in [Threads -> CmdFrame]
      BY <2>11 DEF AbortPass, TypeOK, Scan, IdleCmd, CmdFrame, Null
    <3> QED
      BY <2>11, <3>1 DEF AbortPass, mqVars, TypeOK, MQTypeOK
  <2> QED BY <1>2, <2>1, <2>2, <2>3, <2>4, <2>5, <2>6, <2>7, <2>8, <2>9, <2>10, <2>11
     DEF CmdStep
<1>3. ASSUME NEW t \in Threads, Send(t) \/ Kill(t) \/ Launch(t) \/ Abort(t) PROVE TypeOK'
  <2>1. CASE Send(t)
    <3>1. Self(t) \in Null
      BY <2>1 DEF Send, TypeOK, Self, CmdFrame, DispFrame, Null
    <3>2. PICK m \in Msgs, d \in Services :
           /\ op' = [op EXCEPT ![t] = SendOp([typ |-> "req", id |-> m, src |-> Self(t)], d, NoService)]
           /\ fate' = [fate EXCEPT ![m] = "sending"]
      BY <2>1 DEF Send
    <3>3. op' \in [Threads -> OpFrame]
      BY SendOpType, <3>1, <3>2 DEF TypeOK, Message, Null
    <3>4. fate' \in [Msgs -> Fates]
      BY <3>1, <3>2 DEF TypeOK, Fates
    <3> QED
      BY <2>1, <3>3, <3>4 DEF Send, mqVars, TypeOK, MQTypeOK
  <2>2. CASE Kill(t)
    <3>1. monitor_exit \in Null /\ Killable \subseteq Services
      BY BoundAssumption, <2>2 DEF monitor_exit, Null, Kill
    <3>2. PICK v \in Killable :
           /\ op' = [op EXCEPT ![t] = IF monitor_exit = NoService THEN RetireOp(v) ELSE SendOp([typ |-> "exit", id |-> NoMsg, src |-> v], monitor_exit, v)]
      BY <2>2 DEF Kill
    <3>3. op' \in [Threads -> OpFrame]
      BY BoundAssumption, SendOpType, <3>1, <3>2 DEF TypeOK, Message, RetireOp,
         OpFrame, Null, NoMessage
    <3> QED
      BY <2>2, <3>3 DEF Kill, mqVars, TypeOK, MQTypeOK
  <2>3. CASE Launch(t)
    <3>1. PICK s \in Services :
           /\ ctx' = [ctx EXCEPT ![s] = "live"]
           /\ ref' = [ref EXCEPT ![s] = 2]
           /\ slot' = [slot EXCEPT ![s] = TRUE]
           /\ cmd' = [cmd EXCEPT ![t] = [pc |-> "mq", svc |-> s, scan |-> {}, hit |-> FALSE]]
      BY <2>3 DEF Launch
    <3>2. slot' \in [Services -> BOOLEAN]
      BY <3>1 DEF TypeOK
    <3>3. ctx' \in [Services -> {"none", "live", "freed"}]
      BY <3>1 DEF TypeOK
    <3>4. ref' \in [Services -> Nat]
      BY <3>1 DEF TypeOK
    <3>5. cmd' \in [Threads -> CmdFrame]
      BY <3>1 DEF TypeOK, CmdFrame, Null
    <3> QED
      BY <2>3, <3>2, <3>3, <3>4, <3>5 DEF Launch, mqVars, TypeOK, MQTypeOK
  <2>4. CASE Abort(t)
    <3>1. cmd' \in [Threads -> CmdFrame]
      BY <2>4 DEF Abort, TypeOK, Scan, CmdFrame, Null
    <3> QED
      BY <2>4, <3>1 DEF Abort, mqVars, TypeOK, MQTypeOK
  <2> QED BY <1>3, <2>1, <2>2, <2>3, <2>4
<1>4. ASSUME NEW w \in Workers, DispStep(w) PROVE TypeOK'
  <2>1. CASE TakeQueue(w)
    <3>1. w \in Threads
      BY <2>1 DEF TakeQueue, TypeOK, Threads
    <3>2. PICK s \in Services :
           /\ globalq # <<>> /\ s = Head(globalq) /\ globalq' = Tail(globalq)
           /\ disp' = [disp EXCEPT ![w] = DispAt("grab", s)]
      BY <2>1 DEF TakeQueue, globalmq_pop
    <3>3. globalq' \in Seq(Services)
      BY <3>1, <3>2 DEF TypeOK, MQTypeOK
    <3>4. disp' \in [Threads -> DispFrame]
      BY <3>1, <3>2 DEF TypeOK, DispAt, DispFrame, Null, NoMessage
    <3> QED
      BY <2>1, <3>3, <3>4 DEF TakeQueue, TypeOK, MQTypeOK
  <2>2. CASE TakeNothing(w)
    <3>1. w \in Threads
      BY <2>2 DEF TakeNothing, TypeOK, Threads
    <3>2. disp' \in [Threads -> DispFrame]
      BY <2>2, <3>1 DEF TakeNothing, TypeOK, DispAt, DispFrame, Null, NoMessage
    <3> QED
      BY <2>2, <3>2 DEF TakeNothing, mqVars, TypeOK, MQTypeOK
  <2>3. CASE Grab(w)
    <3>1. w \in Threads /\ disp[w].q \in Services /\ disp[w] \in DispFrame
      BY <2>3 DEF Grab, TypeOK, Threads, Top, DispFrame, Null, FrameInv
    <3>2. ref' \in [Services -> Nat]
      BY <2>3, <3>1 DEF Grab, TypeOK
    <3>3. disp' \in [Threads -> DispFrame]
      BY <2>3, <3>1 DEF Grab, TypeOK, DispAt, DispTo, DispFrame, Null, NoMessage
    <3> QED
      BY <2>3, <3>2, <3>3 DEF Grab, mqVars, TypeOK, MQTypeOK
  <2>4. CASE MqRelease(w)
    <3>1. w \in Threads /\ disp[w].q \in Services /\ disp[w] \in DispFrame
      BY <2>4 DEF MqRelease, TypeOK, Threads, Top, DispFrame, Null, FrameInv
    <3>2. globalq' \in Seq(Services)
      BY <2>4, <3>1 DEF MqRelease, TypeOK, MQTypeOK, mq_release
    <3>3. disp' \in [Threads -> DispFrame]
      BY <2>4, <3>1 DEF MqRelease, TypeOK, DispAt, DispTo, DispFrame, Null, NoMessage
    <3> QED
      BY <2>4, <3>2, <3>3 DEF MqRelease, TypeOK, MQTypeOK
  <2>5. CASE Drop(w)
    <3>1. w \in Threads /\ disp[w].q \in Services /\ disp[w] \in DispFrame
      BY <2>5 DEF Drop, TypeOK, Threads, Top, DispFrame, Null, FrameInv
    <3>2. queue[disp[w].q] \in Seq(Message) /\ queue[disp[w].q] # <<>> /\ Head(queue[disp[w].q]) \in Message
      BY <3>1, <2>5 DEF Drop, TypeOK, mq_pop, MQTypeOK
    <3>3. queue' \in [Services -> Seq(Message)]
      BY <2>5, <3>1, <3>2 DEF Drop, TypeOK, MQTypeOK, mq_pop
    <3>4. op' \in [Threads -> OpFrame]
      BY DropOpType, <2>5, <3>1, <3>2 DEF Drop, TypeOK
    <3>5. fate' \in [Msgs -> Fates]
      BY <2>5, <3>1, <3>2 DEF Drop, TypeOK, Fates, DropFate, Fate
    <3> QED
      BY <2>5, <3>3, <3>4, <3>5 DEF Drop, mq_pop, TypeOK, MQTypeOK
  <2>6. CASE DropDone(w)
    <3>1. w \in Threads /\ disp[w].q \in Services /\ disp[w] \in DispFrame
      BY <2>6 DEF DropDone, TypeOK, Threads, Top, DispFrame, Null, FrameInv
    <3>2. in_global' \in [Services -> {0, 1}]
      BY <2>6, <3>1 DEF DropDone, TypeOK, MQTypeOK, drop_done
    <3>3. qmem' \in [Services -> {"none", "live", "freed"}]
      BY <2>6, <3>1 DEF DropDone, TypeOK, MQTypeOK, drop_done
    <3>4. disp' \in [Threads -> DispFrame]
      BY <2>6, <3>1 DEF DropDone, TypeOK, DispAt, DispFrame, Null, NoMessage
    <3> QED
      BY <2>6, <3>2, <3>3, <3>4 DEF DropDone, drop_done, TypeOK, MQTypeOK
  <2>7. CASE Pop(w)
    <3>1. w \in Threads /\ disp[w].q \in Services /\ disp[w] \in DispFrame
      BY <2>7 DEF Pop, TypeOK, Threads, Top, DispFrame, Null, FrameInv
    <3>2. queue[disp[w].q] \in Seq(Message) /\ queue[disp[w].q] # <<>> /\ Head(queue[disp[w].q]) \in Message
      BY <3>1, <2>7 DEF Pop, TypeOK, mq_pop, MQTypeOK
    <3>3. queue' \in [Services -> Seq(Message)]
      BY <2>7, <3>1, <3>2 DEF Pop, TypeOK, MQTypeOK, mq_pop
    <3>4. disp' \in [Threads -> DispFrame]
      BY <2>7, <3>1, <3>2 DEF Pop, TypeOK, DispFrame
    <3>5. fate' \in [Msgs -> Fates]
      BY <2>7, <3>1, <3>2 DEF Pop, TypeOK, Fates, Fate
    <3> QED
      BY <2>7, <3>3, <3>4, <3>5 DEF Pop, mq_pop, TypeOK, MQTypeOK
  <2>8. CASE PopEmpty(w)
    <3>1. w \in Threads /\ disp[w].q \in Services /\ disp[w] \in DispFrame
      BY <2>8 DEF PopEmpty, TypeOK, Threads, Top, DispFrame, Null, FrameInv
    <3>2. in_global' \in [Services -> {0, 1}]
      BY <2>8, <3>1 DEF PopEmpty, TypeOK, MQTypeOK, mq_pop_empty
    <3>3. op' \in [Threads -> OpFrame]
      BY <2>8, <3>1 DEF PopEmpty, TypeOK, ReleaseOp, OpFrame, Null, NoMessage
    <3>4. disp' \in [Threads -> DispFrame]
      BY <2>8, <3>1 DEF PopEmpty, TypeOK, DispAt, DispFrame, Null, NoMessage
    <3> QED
      BY <2>8, <3>2, <3>3, <3>4 DEF PopEmpty, mq_pop_empty, TypeOK, MQTypeOK
  <2>9. CASE Length(w)
    <3>1. w \in Threads /\ disp[w].q \in Services /\ disp[w] \in DispFrame
      BY <2>9 DEF Length, TypeOK, Threads, Top, DispFrame, Null, FrameInv
    <3>2. Len(queue[disp[w].q]) \in Nat
      BY <3>1, <2>9 DEF Length, TypeOK, MQTypeOK
    <3>3. disp' \in [Threads -> DispFrame]
      BY ShiftRightType, <2>9, <3>1, <3>2 DEF Length, TypeOK, DispFrame
    <3> QED
      BY <2>9, <3>3 DEF Length, mqVars, TypeOK, MQTypeOK
  <2>10. CASE Call(w)
    <3>1. w \in Threads /\ disp[w].q \in Services /\ disp[w] \in DispFrame
      BY <2>10 DEF Call, TypeOK, Threads, Top, DispFrame, Null, FrameInv
    <3>2. disp' \in [Threads -> DispFrame]
      BY <2>10, <3>1 DEF Call, TypeOK, DispTo, DispFrame
    <3>3. fate' \in [Msgs -> Fates]
      BY <2>10, <3>1 DEF Call, TypeOK, Fates, Fate
    <3> QED
      BY <2>10, <3>2, <3>3 DEF Call, mqVars, TypeOK, MQTypeOK
  <2>11. CASE Discard(w)
    <3>1. w \in Threads /\ disp[w].q \in Services /\ disp[w] \in DispFrame
      BY <2>11 DEF Discard, TypeOK, Threads, Top, DispFrame, Null, FrameInv
    <3>2. disp' \in [Threads -> DispFrame]
      BY <2>11, <3>1 DEF Discard, TypeOK, Next_i, DispFrame, NoMessage
    <3>3. fate' \in [Msgs -> Fates]
      BY <2>11, <3>1 DEF Discard, TypeOK, Fates, Fate
    <3> QED
      BY <2>11, <3>2, <3>3 DEF Discard, mqVars, TypeOK, MQTypeOK
  <2>12. CASE Return(w)
    <3>1. w \in Threads /\ disp[w].q \in Services /\ disp[w] \in DispFrame
      BY <2>12 DEF Return, TypeOK, Threads, Top, DispFrame, Null, FrameInv
    <3>2. disp' \in [Threads -> DispFrame]
      BY <2>12, <3>1 DEF Return, TypeOK, Next_i, DispFrame, NoMessage
    <3> QED
      BY <2>12, <3>2 DEF Return, mqVars, TypeOK, MQTypeOK
  <2>13. CASE EndTake(w)
    <3>1. w \in Threads /\ disp[w].q \in Services /\ disp[w] \in DispFrame
      BY <2>13 DEF EndTake, TypeOK, Threads, Top, DispFrame, Null, FrameInv
    <3>2. PICK s \in Services :
           /\ globalq # <<>> /\ s = Head(globalq) /\ globalq' = Tail(globalq)
           /\ disp' = [disp EXCEPT ![w] = [pc |-> "back", q |-> disp[w].q, nq |-> s, i |-> disp[w].i, n |-> disp[w].n, msg |-> disp[w].msg]]
      BY <2>13 DEF EndTake, globalmq_pop
    <3>3. globalq' \in Seq(Services)
      BY <3>1, <3>2 DEF TypeOK, MQTypeOK
    <3>4. disp' \in [Threads -> DispFrame]
      BY <3>1, <3>2 DEF TypeOK, DispFrame, Null
    <3> QED
      BY <2>13, <3>3, <3>4 DEF EndTake, TypeOK, MQTypeOK
  <2>14. CASE PushBack(w)
    <3>1. w \in Threads /\ disp[w].q \in Services /\ disp[w] \in DispFrame
      BY <2>14 DEF PushBack, TypeOK, Threads, Top, DispFrame, Null, FrameInv
    <3>2. disp[w].nq \in Services
      BY <3>1, <2>14 DEF PushBack, TypeOK, Top, DispFrame, Null, FrameInv
    <3>3. globalq' \in Seq(Services)
      BY <2>14, <3>1, <3>2 DEF PushBack, TypeOK, MQTypeOK, globalmq_push
    <3>4. op' \in [Threads -> OpFrame]
      BY <2>14, <3>1, <3>2 DEF PushBack, TypeOK, ReleaseOp, OpFrame, Null, NoMessage
    <3>5. disp' \in [Threads -> DispFrame]
      BY <2>14, <3>1, <3>2 DEF PushBack, TypeOK, DispAt, DispFrame, Null, NoMessage
    <3> QED
      BY <2>14, <3>3, <3>4, <3>5 DEF PushBack, TypeOK, MQTypeOK
  <2>15. CASE EndKeep(w)
    <3>1. w \in Threads /\ disp[w].q \in Services /\ disp[w] \in DispFrame
      BY <2>15 DEF EndKeep, TypeOK, Threads, Top, DispFrame, Null, FrameInv
    <3>2. op' \in [Threads -> OpFrame]
      BY <2>15, <3>1 DEF EndKeep, TypeOK, ReleaseOp, OpFrame, Null, NoMessage
    <3>3. disp' \in [Threads -> DispFrame]
      BY <2>15, <3>1 DEF EndKeep, TypeOK, DispAt, DispFrame, Null, NoMessage
    <3> QED
      BY <2>15, <3>2, <3>3 DEF EndKeep, mqVars, TypeOK, MQTypeOK
  <2> QED BY <1>4, <2>1, <2>2, <2>3, <2>4, <2>5, <2>6, <2>7, <2>8, <2>9, <2>10, <2>11,
     <2>12, <2>13, <2>14, <2>15 DEF DispStep
<1>5. CASE UNCHANGED vars BY <1>5 DEF vars, TypeOK, MQTypeOK
<1> QED BY <1>1, <1>2, <1>3, <1>4, <1>5 DEF Next

\* What drop_message leaves to be done: nothing, or a send to the source.
LEMMA DropOpShape ==
  ASSUME NEW s \in Services, NEW m \in Message
  PROVE  /\ DropOp(s, m) \in OpFrame
         /\ DropOp(s, m).pc \in {"idle", "grab"}
         /\ DropOp(s, m).svc = NoService <=> DropOp(s, m).pc = "idle"
         /\ DropOp(s, m).pc = "grab" => /\ DropOp(s, m).msg \in Message
                                        /\ DropOp(s, m).msg.src = s
                                        /\ DropOp(s, m).svc = m.src
         /\ DropOp(s, m).pc = "idle" => DropOp(s, m).msg = NoMessage
         /\ DropOp(s, m).victim = NoService
  BY NullAssumption DEF DropOp, SendOp, IdleOp, OpFrame, Null, Message, NoMessage

\* A failed launch that drops a message keeps the frames in order.
LEMMA FrameLaunchDrop ==
  ASSUME TypeOK, FrameInv, NEW t \in Threads, LaunchDrop(t)
  PROVE  FrameInv'
<1>1. cmd[t].svc \in Services /\ queue[cmd[t].svc] \in Seq(Message) /\ queue[cmd[t].svc] # <<>>
  BY DEF LaunchDrop, mq_pop, TypeOK, MQTypeOK, FrameInv, CmdFrame, Null
<1>2. Head(queue[cmd[t].svc]) \in Message
  BY <1>1
<1>3. op' = [op EXCEPT ![t] = DropOp(cmd[t].svc, Head(queue[cmd[t].svc]))]
  BY DEF LaunchDrop
<1> QED BY <1>1, <1>2, <1>3, DropOpShape DEF LaunchDrop, FrameInv, TypeOK

\* So does a worker that drops one.
LEMMA FrameDrop ==
  ASSUME TypeOK, FrameInv, NEW w \in Workers, Drop(w)
  PROVE  FrameInv'
<1>1. w \in Threads /\ disp[w].q \in Services /\ queue[disp[w].q] \in Seq(Message) /\ queue[disp[w].q] # <<>>
  BY DEF Drop, Top, mq_pop, TypeOK, MQTypeOK, FrameInv, DispFrame, Null, Threads
<1>2. Head(queue[disp[w].q]) \in Message
  BY <1>1
<1>3. op' = [op EXCEPT ![w] = DropOp(disp[w].q, Head(queue[disp[w].q]))]
  BY DEF Drop
<1> QED BY <1>1, <1>2, <1>3, DropOpShape DEF Drop, Top, FrameInv, TypeOK

\* Every step keeps the three frames of a thread in order.
LEMMA FrameStep ==
  ASSUME TypeOK, FrameInv, [Next]_vars
  PROVE  FrameInv'
<1>1. ASSUME NEW t \in Threads, OpStep(t) PROVE FrameInv'
  <2>1. CASE PushGrab(t)
    BY <2>1, NullAssumption, BoundAssumption DEF PushGrab, OpTo, TypeOK, FrameInv,
       OpFrame, CmdFrame, DispFrame, Null, Message, NoMessage
  <2>2. CASE PushRefused(t)
    BY <2>2, NullAssumption, BoundAssumption DEF PushRefused, AfterSend, IdleOp,
       RetireOp, TypeOK, FrameInv, OpFrame, CmdFrame, DispFrame, Null, Message,
       NoMessage
  <2>3. CASE Push(t)
    BY <2>3, NullAssumption, BoundAssumption DEF Push, OpTo, mq_push, TypeOK, FrameInv,
       OpFrame, CmdFrame, DispFrame, Null, Message, NoMessage
  <2>4. CASE Release(t)
    BY <2>4, NullAssumption, BoundAssumption DEF Release, OpTo, AfterSend, IdleOp,
       RetireOp, TypeOK, FrameInv, OpFrame, CmdFrame, DispFrame, Null, Message,
       NoMessage
  <2>5. CASE Delete(t)
    BY <2>5, NullAssumption, BoundAssumption DEF Delete, mark_release, AfterSend,
       IdleOp, RetireOp, CmdTo, TypeOK, FrameInv, OpFrame, CmdFrame, DispFrame, Null,
       Message, NoMessage
  <2>6. CASE Retire(t)
    BY <2>6, NullAssumption, BoundAssumption DEF Retire, ReleaseOp, Scan, TypeOK,
       FrameInv, OpFrame, CmdFrame, DispFrame, Null, Message, NoMessage
  <2>7. CASE RetireNothing(t)
    BY <2>7, NullAssumption, BoundAssumption DEF RetireNothing, IdleOp, TypeOK,
       FrameInv, OpFrame, CmdFrame, DispFrame, Null, Message, NoMessage
  <2> QED BY <1>1, <2>1, <2>2, <2>3, <2>4, <2>5, <2>6, <2>7 DEF OpStep
<1>2. ASSUME NEW t \in Threads, CmdStep(t) PROVE FrameInv'
  <2>1. CASE CreateQueue(t)
    BY <2>1, NullAssumption, BoundAssumption DEF CreateQueue, mq_create, CmdTo, TypeOK,
       FrameInv, OpFrame, CmdFrame, DispFrame, Null, Message, NoMessage
  <2>2. CASE InitOK(t)
    BY <2>2, NullAssumption, BoundAssumption DEF InitOK, ReleaseOp, CmdTo, TypeOK,
       FrameInv, OpFrame, CmdFrame, DispFrame, Null, Message, NoMessage
  <2>3. CASE SetInit(t)
    BY <2>3, NullAssumption, BoundAssumption DEF SetInit, CmdTo, TypeOK, FrameInv,
       OpFrame, CmdFrame, DispFrame, Null, Message, NoMessage
  <2>4. CASE LaunchPush(t)
    BY <2>4, NullAssumption, BoundAssumption DEF LaunchPush, globalmq_push, IdleCmd,
       TypeOK, FrameInv, OpFrame, CmdFrame, DispFrame, Null, Message, NoMessage
  <2>5. CASE InitFail(t)
    BY <2>5, NullAssumption, BoundAssumption DEF InitFail, ReleaseOp, CmdTo, TypeOK,
       FrameInv, OpFrame, CmdFrame, DispFrame, Null, Message, NoMessage
  <2>6. CASE LaunchRetire(t)
    BY <2>6, NullAssumption, BoundAssumption DEF LaunchRetire, RetireOp, CmdTo, TypeOK,
       FrameInv, OpFrame, CmdFrame, DispFrame, Null, Message, NoMessage
  <2>7. CASE LaunchMqRelease(t)
    BY <2>7, NullAssumption, BoundAssumption DEF LaunchMqRelease, CmdTo, IdleCmd,
       mq_release, TypeOK, FrameInv, OpFrame, CmdFrame, DispFrame, Null, Message,
       NoMessage
  <2>8. CASE LaunchDrop(t)
    BY <2>8, FrameLaunchDrop
  <2>9. CASE LaunchDropDone(t)
    BY <2>9, NullAssumption, BoundAssumption DEF LaunchDropDone, drop_done, IdleCmd,
       TypeOK, FrameInv, OpFrame, CmdFrame, DispFrame, Null, Message, NoMessage
  <2>10. CASE AbortSlot(t)
    BY <2>10, NullAssumption, BoundAssumption DEF AbortSlot, Scan, RetireOp, TypeOK,
       FrameInv, OpFrame, CmdFrame, DispFrame, Null, Message, NoMessage
  <2>11. CASE AbortPass(t)
    BY <2>11, NullAssumption, BoundAssumption DEF AbortPass, Scan, IdleCmd, TypeOK,
       FrameInv, OpFrame, CmdFrame, DispFrame, Null, Message, NoMessage
  <2> QED BY <1>2, <2>1, <2>2, <2>3, <2>4, <2>5, <2>6, <2>7, <2>8, <2>9, <2>10, <2>11
     DEF CmdStep
<1>3. ASSUME NEW t \in Threads, Send(t) PROVE FrameInv'
  BY <1>3, NullAssumption, BoundAssumption DEF Send, SendOp, Running, Known, Self,
       TypeOK, FrameInv, OpFrame, CmdFrame, DispFrame, Null, Message, NoMessage
<1>4. ASSUME NEW t \in Threads, Kill(t) PROVE FrameInv'
  BY <1>4, NullAssumption, BoundAssumption DEF Kill, SendOp, RetireOp, monitor_exit,
       Running, Known, TypeOK, FrameInv, OpFrame, CmdFrame, DispFrame, Null, Message,
       NoMessage
<1>5. ASSUME NEW t \in Threads, Launch(t) PROVE FrameInv'
  BY <1>5, NullAssumption, BoundAssumption DEF Launch, Running, TypeOK, FrameInv,
       OpFrame, CmdFrame, DispFrame, Null, Message, NoMessage
<1>6. ASSUME NEW t \in Threads, Abort(t) PROVE FrameInv'
  BY <1>6, NullAssumption, BoundAssumption DEF Abort, Running, Scan, TypeOK,
       FrameInv, OpFrame, CmdFrame, DispFrame, Null, Message, NoMessage
<1>7. ASSUME NEW w \in Workers, DispStep(w) PROVE FrameInv'
  <2>1. CASE TakeQueue(w)
    BY <2>1, NullAssumption, BoundAssumption DEF TakeQueue, Top, globalmq_pop, DispAt,
       TypeOK, FrameInv, OpFrame, CmdFrame, DispFrame, Null, Message, NoMessage,
       Threads
  <2>2. CASE TakeNothing(w)
    BY <2>2, NullAssumption, BoundAssumption DEF TakeNothing, Top, DispAt, TypeOK,
       FrameInv, OpFrame, CmdFrame, DispFrame, Null, Message, NoMessage, Threads
  <2>3. CASE Grab(w)
    BY <2>3, NullAssumption, BoundAssumption DEF Grab, Top, DispAt, DispTo, TypeOK,
       FrameInv, OpFrame, CmdFrame, DispFrame, Null, Message, NoMessage, Threads
  <2>4. CASE MqRelease(w)
    BY <2>4, NullAssumption, BoundAssumption DEF MqRelease, Top, DispAt, DispTo,
       mq_release, TypeOK, FrameInv, OpFrame, CmdFrame, DispFrame, Null, Message,
       NoMessage, Threads
  <2>5. CASE Drop(w)
    BY <2>5, FrameDrop
  <2>6. CASE DropDone(w)
    BY <2>6, NullAssumption, BoundAssumption DEF DropDone, Top, drop_done, DispAt,
       TypeOK, FrameInv, OpFrame, CmdFrame, DispFrame, Null, Message, NoMessage,
       Threads
  <2>7. CASE Pop(w)
    BY <2>7, NullAssumption, BoundAssumption DEF Pop, Top, mq_pop, TypeOK, FrameInv,
       OpFrame, CmdFrame, DispFrame, Null, Message, NoMessage, Threads
  <2>8. CASE PopEmpty(w)
    BY <2>8, NullAssumption, BoundAssumption DEF PopEmpty, Top, mq_pop_empty,
       ReleaseOp, DispAt, TypeOK, FrameInv, OpFrame, CmdFrame, DispFrame, Null,
       Message, NoMessage, Threads
  <2>9. CASE Length(w)
    BY <2>9, NullAssumption, BoundAssumption DEF Length, Top, TypeOK, FrameInv,
       OpFrame, CmdFrame, DispFrame, Null, Message, NoMessage, Threads
  <2>10. CASE Call(w)
    BY <2>10, NullAssumption, BoundAssumption DEF Call, Top, DispTo, TypeOK, FrameInv,
       OpFrame, CmdFrame, DispFrame, Null, Message, NoMessage, Threads
  <2>11. CASE Discard(w)
    BY <2>11, NullAssumption, BoundAssumption DEF Discard, Top, Next_i, TypeOK,
       FrameInv, OpFrame, CmdFrame, DispFrame, Null, Message, NoMessage, Threads
  <2>12. CASE Return(w)
    BY <2>12, NullAssumption, BoundAssumption DEF Return, Top, Next_i, TypeOK,
       FrameInv, OpFrame, CmdFrame, DispFrame, Null, Message, NoMessage, Threads
  <2>13. CASE EndTake(w)
    BY <2>13, NullAssumption, BoundAssumption DEF EndTake, Top, globalmq_pop, TypeOK,
       FrameInv, OpFrame, CmdFrame, DispFrame, Null, Message, NoMessage, Threads
  <2>14. CASE PushBack(w)
    BY <2>14, NullAssumption, BoundAssumption DEF PushBack, Top, globalmq_push,
       ReleaseOp, DispAt, TypeOK, FrameInv, OpFrame, CmdFrame, DispFrame, Null,
       Message, NoMessage, Threads
  <2>15. CASE EndKeep(w)
    BY <2>15, NullAssumption, BoundAssumption DEF EndKeep, Top, ReleaseOp, DispAt,
       TypeOK, FrameInv, OpFrame, CmdFrame, DispFrame, Null, Message, NoMessage,
       Threads
  <2> QED BY <1>7, <2>1, <2>2, <2>3, <2>4, <2>5, <2>6, <2>7, <2>8, <2>9, <2>10, <2>11,
     <2>12, <2>13, <2>14, <2>15 DEF DispStep
<1>8. CASE UNCHANGED vars
  BY <1>8 DEF vars, FrameInv
<1> QED BY <1>1, <1>2, <1>3, <1>4, <1>5, <1>6, <1>7, <1>8 DEF Next
-----------------------------------------------------------------------------
(* Ownership.                                                              *)

\* A popped message names a source that was handed out, as the others do.
LEMMA PopKeepsKnown ==
  ASSUME TypeOK, KnownInv, NEW s \in Services, mq_pop(s)
  PROVE  /\ Head(queue[s]) \in Message
         /\ Head(queue[s]).src \in Services => qmem[Head(queue[s]).src] # "none"
         /\ \A r \in Services : \A i \in 1..Len(queue'[r]) :
              queue'[r][i].src \in Services => qmem'[queue'[r][i].src] # "none"
<1>1. queue[s] \in Seq(Message) /\ queue[s] # <<>>
  BY DEF mq_pop, TypeOK, MQTypeOK
<1>2. Head(queue[s]) \in Message /\ Head(queue[s]) = queue[s][1] /\ 1 \in 1..Len(queue[s])
  BY <1>1, TailElems
<1>3. Head(queue[s]).src \in Services => qmem[Head(queue[s]).src] # "none"
  BY <1>2 DEF KnownInv
<1>4. qmem' = qmem /\ queue' = [queue EXCEPT ![s] = Tail(@)]
  BY DEF mq_pop
<1>5. \A i \in 1..Len(queue'[s]) : i + 1 \in 1..Len(queue[s]) /\ queue'[s][i] = queue[s][i + 1]
  BY <1>1, <1>4, TailElems DEF TypeOK, MQTypeOK
<1>6. ASSUME NEW r \in Services, NEW i \in 1..Len(queue'[r]), queue'[r][i].src \in Services
      PROVE  qmem'[queue'[r][i].src] # "none"
  <2>1. CASE r = s BY <2>1, <1>6, <1>4, <1>5 DEF KnownInv
  <2>2. CASE r # s BY <2>2, <1>6, <1>4 DEF KnownInv, TypeOK, MQTypeOK
  <2> QED BY <2>1, <2>2
<1> QED BY <1>2, <1>3, <1>6

\* drop_message writes the handle of the dropped queue and of the source.
LEMMA KnownDropOp ==
  ASSUME IInv, NEW t \in Threads, NEW s \in Services, qmem[s] = "live", mq_pop(s),
         op' = [op EXCEPT ![t] = DropOp(s, Head(queue[s]))]
  PROVE  KnownInv'
<1>1. /\ Head(queue[s]) \in Message
      /\ Head(queue[s]).src \in Services => qmem[Head(queue[s]).src] # "none"
      /\ \A r \in Services : \A i \in 1..Len(queue'[r]) :
           queue'[r][i].src \in Services => qmem'[queue'[r][i].src] # "none"
  BY PopKeepsKnown DEF IInv
<1>2. qmem' = qmem BY DEF mq_pop
<1>3. DropOp(s, Head(queue[s])).svc \in Services => qmem[DropOp(s, Head(queue[s])).svc] # "none"
  BY <1>1, DropOpShape, NullAssumption
<1>4. DropOp(s, Head(queue[s])).msg.src \in Services => qmem[DropOp(s, Head(queue[s])).msg.src] # "none"
  BY <1>1, DropOpShape, NullAssumption DEF NoMessage
<1>5. DropOp(s, Head(queue[s])).victim \notin Services
  BY <1>1, DropOpShape, NullAssumption
<1> QED BY <1>1, <1>2, <1>3, <1>4, <1>5 DEF IInv, KnownInv, TypeOK

\* A pushed message names a source that was handed out.
LEMMA KnownPush ==
  ASSUME IInv, NEW t \in Threads, Push(t)
  PROVE  KnownInv'
<1> DEFINE s == op[t].svc
           m == op[t].msg
<1>1. s \in Services /\ m \in Message /\ queue[s] \in Seq(Message)
  BY DEF Push, IInv, TypeOK, MQTypeOK, FrameInv, OpFrame, Null
<1>2. qmem' = qmem /\ queue' = [queue EXCEPT ![s] = Append(@, m)]
  BY DEF Push, mq_push
<1>3. ASSUME NEW r \in Services, NEW i \in 1..Len(queue'[r]), queue'[r][i].src \in Services
      PROVE  qmem'[queue'[r][i].src] # "none"
  <2>1. CASE r # s
    BY <1>2, <1>3, <2>1 DEF IInv, KnownInv, TypeOK, MQTypeOK
  <2>2. CASE r = s
    <3>1. queue'[r] = Append(queue[s], m) BY <1>1, <1>2, <2>2 DEF IInv, TypeOK, MQTypeOK
    <3>2. \/ i \in 1..Len(queue[s]) /\ queue'[r][i] = queue[s][i]
          \/ queue'[r][i] = m
      BY <1>1, <1>3, <3>1, AppendElems
    <3> QED BY <1>1, <1>2, <1>3, <3>2 DEF IInv, KnownInv
  <2> QED BY <2>1, <2>2
<1>4. \A u \in Threads : /\ op'[u].svc = op[u].svc /\ op'[u].victim = op[u].victim
                         /\ op'[u].msg = op[u].msg
  BY DEF Push, OpTo, IInv, TypeOK
<1> QED BY <1>2, <1>3, <1>4 DEF IInv, KnownInv

\* Every step writes down only handles that were handed out: those of the
\* thread's own frames and of the messages it popped.
LEMMA KnownStep ==
  ASSUME IInv, [Next]_vars
  PROVE  KnownInv'
<1>1. ASSUME NEW t \in Threads, OpStep(t) PROVE KnownInv'
  <2>1. CASE PushGrab(t)
    BY <2>1, NullAssumption, BoundAssumption DEF PushGrab, OpTo, mqVars, IInv, TypeOK,
       MQTypeOK, FrameInv, KnownInv, OpFrame, Null, NoMessage
  <2>2. CASE PushRefused(t)
    BY <2>2, NullAssumption, BoundAssumption DEF PushRefused, AfterSend, IdleOp,
       RetireOp, mqVars, IInv, TypeOK, MQTypeOK, FrameInv, KnownInv, OpFrame, Null,
       NoMessage
  <2>3. CASE Push(t)
    BY <2>3, KnownPush
  <2>4. CASE Release(t)
    BY <2>4, NullAssumption, BoundAssumption DEF Release, OpTo, AfterSend, IdleOp,
       RetireOp, mqVars, IInv, TypeOK, KnownInv, NoMessage
  <2>5. CASE Delete(t)
    BY <2>5, NullAssumption, BoundAssumption DEF Delete, mark_release, AfterSend,
       IdleOp, RetireOp, CmdTo, IInv, TypeOK, MQTypeOK, FrameInv, KnownInv, OpFrame,
       Null, NoMessage
  <2>6. CASE Retire(t)
    BY <2>6, NullAssumption, BoundAssumption DEF Retire, ReleaseOp, Scan, mqVars, IInv,
       TypeOK, MQTypeOK, FrameInv, KnownInv, OpFrame, Null, NoMessage
  <2>7. CASE RetireNothing(t)
    BY <2>7, NullAssumption, BoundAssumption DEF RetireNothing, IdleOp, mqVars, IInv,
       TypeOK, MQTypeOK, FrameInv, KnownInv, OpFrame, Null, NoMessage
  <2> QED BY <1>1, <2>1, <2>2, <2>3, <2>4, <2>5, <2>6, <2>7 DEF OpStep
<1>2. ASSUME NEW t \in Threads, CmdStep(t) PROVE KnownInv'
  <2>1. CASE CreateQueue(t)
    BY <2>1, NullAssumption, BoundAssumption DEF CreateQueue, mq_create, CmdTo, IInv,
       TypeOK, MQTypeOK, FrameInv, KnownInv, OpFrame, Null, NoMessage, LifeInv
  <2>2. CASE InitOK(t)
    <3>1. cmd[t].svc \in Services /\ qmem[cmd[t].svc] = "live"
      BY <2>2, OwnerFacts DEF IInv, InitOK, TypeOK, FrameInv, CmdFrame, Null
    <3> QED BY <2>2, <3>1, NullAssumption DEF IInv, InitOK, ReleaseOp, KnownInv, TypeOK,
       NoMessage, mqVars
  <2>3. CASE SetInit(t)
    BY <2>3, NullAssumption, BoundAssumption DEF SetInit, CmdTo, mqVars, IInv, TypeOK,
       MQTypeOK, FrameInv, KnownInv, OpFrame, Null, NoMessage
  <2>4. CASE LaunchPush(t)
    BY <2>4, NullAssumption, BoundAssumption DEF LaunchPush, globalmq_push, IdleCmd,
       IInv, TypeOK, MQTypeOK, FrameInv, KnownInv, OpFrame, Null, NoMessage
  <2>5. CASE InitFail(t)
    <3>1. cmd[t].svc \in Services /\ qmem[cmd[t].svc] = "live"
      BY <2>5, OwnerFacts DEF IInv, InitFail, TypeOK, FrameInv, CmdFrame, Null
    <3> QED BY <2>5, <3>1, NullAssumption DEF IInv, InitFail, ReleaseOp, KnownInv, TypeOK,
       NoMessage, mqVars
  <2>6. CASE LaunchRetire(t)
    <3>1. cmd[t].svc \in Services /\ qmem[cmd[t].svc] = "live"
      BY <2>6, OwnerFacts DEF IInv, LaunchRetire, TypeOK, FrameInv, CmdFrame, Null
    <3> QED BY <2>6, <3>1, NullAssumption DEF IInv, LaunchRetire, RetireOp, KnownInv,
       TypeOK, NoMessage, mqVars
  <2>7. CASE LaunchMqRelease(t)
    BY <2>7, NullAssumption, BoundAssumption DEF LaunchMqRelease, CmdTo, IdleCmd,
       mq_release, IInv, TypeOK, MQTypeOK, FrameInv, KnownInv, OpFrame, Null, NoMessage
  <2>8. CASE LaunchDrop(t)
    <3>1. cmd[t].svc \in Services /\ qmem[cmd[t].svc] = "live"
      BY <2>8, OwnerFacts DEF IInv, LaunchDrop, TypeOK, FrameInv, CmdFrame, Null
    <3> QED BY <2>8, <3>1, KnownDropOp DEF LaunchDrop
  <2>9. CASE LaunchDropDone(t)
    BY <2>9, NullAssumption, BoundAssumption DEF LaunchDropDone, drop_done, IdleCmd,
       IInv, TypeOK, MQTypeOK, FrameInv, KnownInv, OpFrame, Null, NoMessage
  <2>10. CASE AbortSlot(t)
    BY <2>10, NullAssumption, BoundAssumption DEF AbortSlot, Scan, RetireOp, mqVars,
       IInv, TypeOK, MQTypeOK, FrameInv, KnownInv, OpFrame, Null, NoMessage
  <2>11. CASE AbortPass(t)
    BY <2>11, NullAssumption, BoundAssumption DEF AbortPass, Scan, IdleCmd, mqVars,
       IInv, TypeOK, MQTypeOK, FrameInv, KnownInv, OpFrame, Null, NoMessage
  <2> QED BY <1>2, <2>1, <2>2, <2>3, <2>4, <2>5, <2>6, <2>7, <2>8, <2>9, <2>10, <2>11
     DEF CmdStep
<1>3. ASSUME NEW t \in Threads, Send(t) PROVE KnownInv'
  <2>1. Self(t) \in Services => qmem[Self(t)] # "none"
    BY <1>3, OwnerFacts, NullAssumption DEF IInv, Send, Running, Self, TypeOK
  <2>2. PICK m \in Msgs, d \in Services : qmem[d] # "none" /\ 
     op' = [op EXCEPT ![t] = SendOp([typ |-> "req", id |-> m, src |-> Self(t)], d,
          NoService)]
    BY <1>3 DEF Send, Known
  <2> QED BY <1>3, <2>1, <2>2, NullAssumption DEF IInv, Send, SendOp, KnownInv, TypeOK,
       mqVars
<1>4. ASSUME NEW t \in Threads, Kill(t) PROVE KnownInv'
  BY <1>4, NullAssumption, BoundAssumption DEF Kill, SendOp, RetireOp, monitor_exit,
       Running, Known, mqVars, IInv, TypeOK, MQTypeOK, FrameInv, KnownInv, OpFrame,
       Null, NoMessage
<1>5. ASSUME NEW t \in Threads, Launch(t) PROVE KnownInv'
  BY <1>5, NullAssumption, BoundAssumption DEF Launch, Running, mqVars, IInv, TypeOK,
       MQTypeOK, FrameInv, KnownInv, OpFrame, Null, NoMessage
<1>6. ASSUME NEW t \in Threads, Abort(t) PROVE KnownInv'
  BY <1>6, NullAssumption, BoundAssumption DEF Abort, Running, Scan, mqVars, IInv,
       TypeOK, MQTypeOK, FrameInv, KnownInv, OpFrame, Null, NoMessage
<1>7. ASSUME NEW w \in Workers, DispStep(w) PROVE KnownInv'
  <2>1. CASE TakeQueue(w)
    BY <2>1, NullAssumption, BoundAssumption DEF TakeQueue, Top, globalmq_pop, DispAt,
       IInv, TypeOK, MQTypeOK, FrameInv, KnownInv, OpFrame, Null, NoMessage, Threads
  <2>2. CASE TakeNothing(w)
    BY <2>2, NullAssumption, BoundAssumption DEF TakeNothing, Top, DispAt, mqVars,
       IInv, TypeOK, MQTypeOK, FrameInv, KnownInv, OpFrame, Null, NoMessage, Threads
  <2>3. CASE Grab(w)
    BY <2>3, NullAssumption, BoundAssumption DEF Grab, Top, DispAt, DispTo, mqVars,
       IInv, TypeOK, MQTypeOK, FrameInv, KnownInv, OpFrame, Null, NoMessage, Threads
  <2>4. CASE MqRelease(w)
    BY <2>4, NullAssumption, BoundAssumption DEF MqRelease, Top, DispAt, DispTo,
       mq_release, IInv, TypeOK, MQTypeOK, FrameInv, KnownInv, OpFrame, Null,
       NoMessage, Threads
  <2>5. CASE Drop(w)
    <3>1. w \in Threads /\ disp[w].q \in Services /\ qmem[disp[w].q] = "live"
      BY <2>5, OwnerFacts DEF IInv, Drop, Top, TypeOK, FrameInv, DispFrame, Null, Threads
    <3> QED BY <2>5, <3>1, KnownDropOp DEF Drop
  <2>6. CASE DropDone(w)
    BY <2>6, NullAssumption, BoundAssumption DEF DropDone, Top, drop_done, DispAt,
       IInv, TypeOK, MQTypeOK, FrameInv, KnownInv, OpFrame, Null, NoMessage, Threads
  <2>7. CASE Pop(w)
    <3>1. disp[w].q \in Services /\ mq_pop(disp[w].q) /\ qmem' = qmem /\ op' = op
      BY <2>7 DEF IInv, Pop, Top, TypeOK, FrameInv, DispFrame, Null, Threads, mq_pop
    <3> QED BY <2>7, <3>1, PopKeepsKnown DEF IInv, KnownInv
  <2>8. CASE PopEmpty(w)
    <3>1. w \in Threads /\ disp[w].q \in Services /\ qmem[disp[w].q] = "live"
      BY <2>8, OwnerFacts DEF IInv, PopEmpty, Top, TypeOK, FrameInv, DispFrame, Null,
         Threads
    <3> QED BY <2>8, <3>1, NullAssumption DEF IInv, PopEmpty, mq_pop_empty, ReleaseOp,
       KnownInv, TypeOK, NoMessage
  <2>9. CASE Length(w)
    BY <2>9, NullAssumption, BoundAssumption DEF Length, Top, mqVars, IInv, TypeOK,
       MQTypeOK, FrameInv, KnownInv, OpFrame, Null, NoMessage, Threads
  <2>10. CASE Call(w)
    BY <2>10, NullAssumption, BoundAssumption DEF Call, Top, DispTo, mqVars, IInv,
       TypeOK, MQTypeOK, FrameInv, KnownInv, OpFrame, Null, NoMessage, Threads
  <2>11. CASE Discard(w)
    BY <2>11, NullAssumption, BoundAssumption DEF Discard, Top, Next_i, mqVars, IInv,
       TypeOK, MQTypeOK, FrameInv, KnownInv, OpFrame, Null, NoMessage, Threads
  <2>12. CASE Return(w)
    BY <2>12, NullAssumption, BoundAssumption DEF Return, Top, Next_i, mqVars, IInv,
       TypeOK, MQTypeOK, FrameInv, KnownInv, OpFrame, Null, NoMessage, Threads
  <2>13. CASE EndTake(w)
    BY <2>13, NullAssumption, BoundAssumption DEF EndTake, Top, globalmq_pop, IInv,
       TypeOK, MQTypeOK, FrameInv, KnownInv, OpFrame, Null, NoMessage, Threads
  <2>14. CASE PushBack(w)
    <3>1. w \in Threads /\ disp[w].q \in Services /\ qmem[disp[w].q] = "live"
      BY <2>14, OwnerFacts DEF IInv, PushBack, Top, TypeOK, FrameInv, DispFrame, Null,
         Threads
    <3> QED BY <2>14, <3>1, NullAssumption DEF IInv, PushBack, ReleaseOp, KnownInv, TypeOK,
       NoMessage
  <2>15. CASE EndKeep(w)
    <3>1. w \in Threads /\ disp[w].q \in Services /\ qmem[disp[w].q] = "live"
      BY <2>15, OwnerFacts DEF IInv, EndKeep, Top, TypeOK, FrameInv, DispFrame, Null,
         Threads
    <3> QED BY <2>15, <3>1, NullAssumption DEF IInv, EndKeep, ReleaseOp, KnownInv, TypeOK,
       NoMessage, mqVars
  <2> QED BY <1>7, <2>1, <2>2, <2>3, <2>4, <2>5, <2>6, <2>7, <2>8, <2>9, <2>10, <2>11,
     <2>12, <2>13, <2>14, <2>15 DEF DispStep
<1>8. CASE UNCHANGED vars
  BY <1>8 DEF vars, IInv, KnownInv
<1> QED BY <1>1, <1>2, <1>3, <1>4, <1>5, <1>6, <1>7, <1>8 DEF Next

\* skynet_mq_push links a queue only when nobody has it.
LEMMA OwnPush ==
  ASSUME IInv, NEW t \in Threads, Push(t)
  PROVE  OwnInv'
<1> DEFINE s == op[t].svc
<1>1. s \in Services /\ qmem[s] # "none" /\ globalq \in Seq(Services)
  BY DEF IInv, Push, TypeOK, MQTypeOK, FrameInv, KnownInv, OpFrame, Null
<1>2. release[s] = 0
  <2>1. t \in OpHolders(s) BY DEF Push, OpHolders
  <2>2. ref[s] # 0 BY <2>1, <1>1, RefPositive DEF IInv
  <2> QED BY <2>2, <1>1 DEF IInv, LifeInv, TypeOK, MQTypeOK
<1>3. cmd' = cmd /\ disp' = disp BY DEF Push
<1>4. CASE in_global[s] = 0
  <2>1. globalq' = Append(globalq, s) BY <1>4 DEF Push, mq_push
  <2>2. GlobalOnce' /\ GlobalApart'
    BY <1>1, <1>2, <1>3, <1>4, <2>1, NotOwned, LinkKeepsApart DEF IInv, OwnInv,
       GlobalApart
  <2> QED BY <2>2, <1>3 DEF IInv, OwnInv, FramesApart
<1>5. CASE in_global[s] # 0
  <2>1. globalq' = globalq BY <1>5 DEF Push, mq_push
  <2> QED BY <2>1, <1>3 DEF IInv, OwnInv, FramesApart, GlobalOnce, GlobalApart
<1> QED BY <1>4, <1>5


\* So does skynet_mq_mark_release, whose queue may be in nobody's hands.
LEMMA OwnDelete ==
  ASSUME IInv, NEW t \in Threads, Delete(t)
  PROVE  OwnInv'
<1> DEFINE s == op[t].svc
<1>1. s \in Services /\ qmem[s] # "none" /\ globalq \in Seq(Services)
  BY DEF IInv, Delete, TypeOK, MQTypeOK, FrameInv, KnownInv, OpFrame, Null
<1>2. release[s] = 0
  BY <1>1 DEF IInv, LifeInv, TypeOK, MQTypeOK, Delete
<1>3. disp' = disp /\ \A u \in Threads : cmd'[u].svc = cmd[u].svc
  BY DEF Delete, CmdTo, IInv, TypeOK
<1>4. CASE in_global[s] = 0
  <2>1. globalq' = Append(globalq, s) BY <1>4 DEF Delete, mark_release
  <2>2. GlobalOnce' /\ GlobalApart'
    BY <1>1, <1>2, <1>3, <1>4, <2>1, NotOwned, LinkKeepsApart DEF IInv, OwnInv,
       GlobalApart
  <2> QED BY <2>2, <1>3 DEF IInv, OwnInv, FramesApart
<1>5. CASE in_global[s] # 0
  <2>1. globalq' = globalq BY <1>5 DEF Delete, mark_release
  <2> QED BY <2>1, <1>3 DEF IInv, OwnInv, FramesApart, GlobalOnce, GlobalApart
<1> QED BY <1>4, <1>5


\* The launcher hands its queue to the global queue.
LEMMA OwnLaunchPush ==
  ASSUME IInv, NEW t \in Threads, LaunchPush(t)
  PROVE  OwnInv'
<1> DEFINE s == cmd[t].svc
<1>1. s \in Services /\ globalq \in Seq(Services) /\ globalq' = Append(globalq, s)
  BY DEF IInv, LaunchPush, globalmq_push, TypeOK, MQTypeOK, FrameInv, CmdFrame, Null
<1>2. disp' = disp /\ \A u \in Threads : cmd'[u].svc = IF u = t THEN NoService ELSE cmd[u].svc
  BY DEF LaunchPush, IdleCmd, IInv, TypeOK
<1>3. /\ \A i \in 1..Len(globalq) : globalq[i] # s /\ globalq[i] # NoService
      /\ \A u \in Threads : disp[u].q # s /\ disp[u].nq # s /\ (u # t => cmd[u].svc # s)
  BY <1>1, NullAssumption DEF IInv, OwnInv, GlobalApart, FramesApart
<1>4. GlobalOnce' /\ GlobalApart'
  BY <1>1, <1>2, <1>3, LinkKeepsApart, NullAssumption DEF IInv, OwnInv, GlobalApart
<1> QED BY <1>2, <1>4, NullAssumption DEF IInv, OwnInv, FramesApart


\* A failed launch pushes the queue back, or keeps it to drop it.
LEMMA OwnLaunchMqRelease ==
  ASSUME IInv, NEW t \in Threads, LaunchMqRelease(t)
  PROVE  OwnInv'
<1> DEFINE s == cmd[t].svc
<1>1. s \in Services /\ globalq \in Seq(Services) /\ disp' = disp
  BY DEF IInv, LaunchMqRelease, TypeOK, MQTypeOK, FrameInv, CmdFrame, Null
<1>2. CASE release[s] = 1
  <2>1. globalq' = globalq /\ \A u \in Threads : cmd'[u].svc = cmd[u].svc
    BY <1>2 DEF LaunchMqRelease, mq_release, CmdTo, IInv, TypeOK
  <2> QED BY <2>1, <1>1 DEF IInv, OwnInv, GlobalOnce, GlobalApart, FramesApart
<1>3. CASE release[s] # 1
  <2>1. globalq' = Append(globalq, s) BY <1>3 DEF LaunchMqRelease, mq_release
  <2>2. \A u \in Threads : cmd'[u].svc = IF u = t THEN NoService ELSE cmd[u].svc
    BY <1>3 DEF LaunchMqRelease, IdleCmd, IInv, TypeOK
  <2>3. /\ \A i \in 1..Len(globalq) : globalq[i] # s /\ globalq[i] # NoService
        /\ \A u \in Threads : disp[u].q # s /\ disp[u].nq # s /\ (u # t => cmd[u].svc # s)
    BY <1>1, NullAssumption DEF IInv, OwnInv, GlobalApart, FramesApart
  <2>4. GlobalOnce' /\ GlobalApart'
    BY <1>1, <2>1, <2>2, <2>3, LinkKeepsApart, NullAssumption DEF IInv, OwnInv,
       GlobalApart
  <2> QED BY <1>1, <2>2, <2>4, NullAssumption DEF IInv, OwnInv, FramesApart
<1> QED BY <1>2, <1>3


\* A new service has no queue yet, so nobody has it.
LEMMA OwnLaunch ==
  ASSUME IInv, NEW t \in Threads, Launch(t)
  PROVE  OwnInv'
<1>1. PICK s \in Services : /\ ctx[s] = "none"
        /\ cmd' = [cmd EXCEPT ![t] = [pc |-> "mq", svc |-> s, scan |-> {}, hit |-> FALSE]]
  BY DEF Launch
<1>2. disp' = disp /\ globalq' = globalq /\ \A u \in Threads : cmd'[u].svc = IF u = t THEN s ELSE cmd[u].svc
  BY <1>1 DEF Launch, mqVars, IInv, TypeOK
<1>3. qmem[s] = "none" /\ \A u \in Threads : cmd[u].svc # s
  BY <1>1 DEF IInv, LifeInv
<1>4. \A i \in 1..Len(globalq) : globalq[i] # s
  BY <1>3, OwnerFacts DEF IInv
<1>5. \A u \in Threads : disp[u].q # s /\ disp[u].nq # s
  BY <1>3, OwnerFacts DEF IInv
<1> QED BY <1>2, <1>3, <1>4, <1>5 DEF IInv, OwnInv, GlobalOnce, GlobalApart, FramesApart


\* A worker takes the queue that heads the global queue.
LEMMA OwnTakeQueue ==
  ASSUME IInv, NEW w \in Workers, TakeQueue(w)
  PROVE  OwnInv'
<1>1. PICK s \in Services : /\ globalq # <<>> /\ s = Head(globalq) /\ globalq' = Tail(globalq)
                            /\ disp' = [disp EXCEPT ![w] = DispAt("grab", s)]
  BY DEF TakeQueue, globalmq_pop
<1>2. /\ cmd' = cmd /\ w \in Threads
      /\ \A u \in Threads : /\ disp'[u].q = IF u = w THEN s ELSE disp[u].q
                            /\ disp'[u].nq = IF u = w THEN NoService ELSE disp[u].nq
  BY <1>1 DEF TakeQueue, DispAt, Threads, IInv, TypeOK
<1>3. globalq \in Seq(Services) /\ s = globalq[1] /\ 1 \in 1..Len(globalq)
  BY <1>1, TailElems DEF IInv, TypeOK, MQTypeOK
<1>4. \A i \in 1..Len(globalq) : i > 1 => globalq[i] # s /\ globalq[i] \in Services
  BY <1>3 DEF IInv, OwnInv, GlobalOnce
<1>5. \A u \in Threads : disp[u].q # s /\ disp[u].nq # s /\ cmd[u].svc # s
  BY <1>3 DEF IInv, OwnInv, GlobalApart
<1>6. GlobalOnce' /\ GlobalApart'
  BY <1>1, <1>2, <1>3, <1>4, UnlinkKeepsApart, NullAssumption DEF IInv, OwnInv,
     GlobalApart
<1> QED BY <1>2, <1>5, <1>6, NullAssumption DEF IInv, OwnInv, FramesApart


\* After its loop a worker takes a second queue,
LEMMA OwnEndTake ==
  ASSUME IInv, NEW w \in Workers, EndTake(w)
  PROVE  OwnInv'
<1>1. PICK s \in Services : /\ globalq # <<>> /\ s = Head(globalq) /\ globalq' = Tail(globalq)
                            /\ disp' = [disp EXCEPT ![w] = [pc |-> "back", q |-> disp[w].q, nq |-> s, i |-> disp[w].i, n |-> disp[w].n, msg |-> disp[w].msg]]
  BY DEF EndTake, globalmq_pop
<1>2. /\ cmd' = cmd /\ w \in Threads
      /\ \A u \in Threads : /\ disp'[u].q = disp[u].q
                            /\ disp'[u].nq = IF u = w THEN s ELSE disp[u].nq
  BY <1>1 DEF EndTake, Threads, IInv, TypeOK
<1>3. globalq \in Seq(Services) /\ s = globalq[1] /\ 1 \in 1..Len(globalq)
  BY <1>1, TailElems DEF IInv, TypeOK, MQTypeOK
<1>4. \A i \in 1..Len(globalq) : i > 1 => globalq[i] # s /\ globalq[i] \in Services
  BY <1>3 DEF IInv, OwnInv, GlobalOnce
<1>5. \A u \in Threads : disp[u].q # s /\ disp[u].nq # s /\ cmd[u].svc # s
  BY <1>3 DEF IInv, OwnInv, GlobalApart
<1>6. GlobalOnce' /\ GlobalApart'
  BY <1>1, <1>2, <1>3, <1>4, UnlinkKeepsApart, NullAssumption DEF IInv, OwnInv,
     GlobalApart
<1> QED BY <1>2, <1>5, <1>6, NullAssumption DEF IInv, OwnInv, FramesApart


\* and pushes the one it used back.
LEMMA OwnPushBack ==
  ASSUME IInv, NEW w \in Workers, PushBack(w)
  PROVE  OwnInv'
<1> DEFINE s == disp[w].q
<1>1. /\ w \in Threads /\ s \in Services /\ disp[w].nq \in Services
      /\ globalq \in Seq(Services) /\ globalq' = Append(globalq, s) /\ cmd' = cmd
  BY DEF IInv, PushBack, Top, globalmq_push, TypeOK, MQTypeOK, FrameInv, DispFrame,
     Null, Threads
<1>2. \A u \in Threads : /\ disp'[u].q = IF u = w THEN disp[w].nq ELSE disp[u].q
                         /\ disp'[u].nq = IF u = w THEN NoService ELSE disp[u].nq
  BY <1>1 DEF PushBack, DispAt, IInv, TypeOK
<1>3. /\ \A i \in 1..Len(globalq) : globalq[i] # s /\ globalq[i] \in Services
      /\ \A u \in Threads : disp[u].nq # s /\ (u # w => disp[u].q # s) /\ cmd[u].svc # s
  BY <1>1 DEF IInv, OwnInv, GlobalApart, FramesApart
<1>4. GlobalOnce' /\ GlobalApart'
  BY <1>1, <1>2, <1>3, LinkKeepsApart, NullAssumption DEF IInv, OwnInv, GlobalApart
<1> QED BY <1>1, <1>2, <1>4, NullAssumption DEF IInv, OwnInv, FramesApart


\* A worker without a context pushes the queue back, or keeps it to drop it.
LEMMA OwnMqRelease ==
  ASSUME IInv, NEW w \in Workers, MqRelease(w)
  PROVE  OwnInv'
<1> DEFINE s == disp[w].q
<1>1. w \in Threads /\ s \in Services /\ globalq \in Seq(Services) /\ cmd' = cmd
  BY DEF IInv, MqRelease, Top, TypeOK, MQTypeOK, FrameInv, DispFrame, Null, Threads
<1>2. CASE release[s] = 1
  <2>1. globalq' = globalq /\ \A u \in Threads : disp'[u].q = disp[u].q /\ disp'[u].nq = disp[u].nq
    BY <1>1, <1>2 DEF MqRelease, mq_release, DispTo, IInv, TypeOK
  <2> QED BY <2>1, <1>1 DEF IInv, OwnInv, GlobalOnce, GlobalApart, FramesApart
<1>3. CASE release[s] # 1
  <2>1. globalq' = Append(globalq, s) BY <1>3 DEF MqRelease, mq_release
  <2>2. \A u \in Threads : /\ disp'[u].q = IF u = w THEN NoService ELSE disp[u].q
                           /\ disp'[u].nq = IF u = w THEN NoService ELSE disp[u].nq
    BY <1>1, <1>3 DEF MqRelease, DispAt, IInv, TypeOK
  <2>3. /\ \A i \in 1..Len(globalq) : globalq[i] # s /\ globalq[i] \in Services
        /\ \A u \in Threads : disp[u].nq # s /\ (u # w => disp[u].q # s) /\ cmd[u].svc # s
    BY <1>1 DEF IInv, OwnInv, GlobalApart, FramesApart
  <2>4. GlobalOnce' /\ GlobalApart'
    BY <1>1, <2>1, <2>2, <2>3, LinkKeepsApart, NullAssumption DEF IInv, OwnInv,
       GlobalApart
  <2> QED BY <1>1, <2>2, <2>4, NullAssumption DEF IInv, OwnInv, FramesApart
<1> QED BY <1>2, <1>3


\* No step gives a queue a second owner.
LEMMA OwnStep ==
  ASSUME IInv, [Next]_vars
  PROVE  OwnInv'
<1>1. ASSUME NEW t \in Threads, OpStep(t) PROVE OwnInv'
  <2>1. CASE PushGrab(t)
    BY <2>1 DEF PushGrab, mqVars, IInv, OwnInv, GlobalOnce, GlobalApart, FramesApart
  <2>2. CASE PushRefused(t)
    BY <2>2 DEF PushRefused, mqVars, IInv, OwnInv, GlobalOnce, GlobalApart, FramesApart
  <2>3. CASE Push(t)
    BY <2>3, OwnPush
  <2>4. CASE Release(t)
    BY <2>4 DEF Release, mqVars, IInv, OwnInv, GlobalOnce, GlobalApart, FramesApart
  <2>5. CASE Delete(t)
    BY <2>5, OwnDelete
  <2>6. CASE Retire(t)
    BY <2>6, NullAssumption DEF Retire, Scan, mqVars, IInv, TypeOK, FrameInv, OwnInv,
       GlobalOnce, GlobalApart, FramesApart, CmdFrame, DispFrame, Null
  <2>7. CASE RetireNothing(t)
    BY <2>7 DEF RetireNothing, mqVars, IInv, OwnInv, GlobalOnce, GlobalApart,
       FramesApart
  <2> QED BY <1>1, <2>1, <2>2, <2>3, <2>4, <2>5, <2>6, <2>7 DEF OpStep
<1>2. ASSUME NEW t \in Threads, CmdStep(t) PROVE OwnInv'
  <2>1. CASE CreateQueue(t)
    BY <2>1, NullAssumption DEF CreateQueue, mq_create, CmdTo, IInv, TypeOK, FrameInv,
       OwnInv, GlobalOnce, GlobalApart, FramesApart, CmdFrame, DispFrame, Null
  <2>2. CASE InitOK(t)
    BY <2>2, NullAssumption DEF InitOK, CmdTo, mqVars, IInv, TypeOK, FrameInv, OwnInv,
       GlobalOnce, GlobalApart, FramesApart, CmdFrame, DispFrame, Null
  <2>3. CASE SetInit(t)
    BY <2>3, NullAssumption DEF SetInit, CmdTo, mqVars, IInv, TypeOK, FrameInv, OwnInv,
       GlobalOnce, GlobalApart, FramesApart, CmdFrame, DispFrame, Null
  <2>4. CASE LaunchPush(t)
    BY <2>4, OwnLaunchPush
  <2>5. CASE InitFail(t)
    BY <2>5, NullAssumption DEF InitFail, CmdTo, mqVars, IInv, TypeOK, FrameInv,
       OwnInv, GlobalOnce, GlobalApart, FramesApart, CmdFrame, DispFrame, Null
  <2>6. CASE LaunchRetire(t)
    BY <2>6, NullAssumption DEF LaunchRetire, CmdTo, mqVars, IInv, TypeOK, FrameInv,
       OwnInv, GlobalOnce, GlobalApart, FramesApart, CmdFrame, DispFrame, Null
  <2>7. CASE LaunchMqRelease(t)
    BY <2>7, OwnLaunchMqRelease
  <2>8. CASE LaunchDrop(t)
    BY <2>8 DEF LaunchDrop, mq_pop, IInv, OwnInv, GlobalOnce, GlobalApart, FramesApart
  <2>9. CASE LaunchDropDone(t)
    BY <2>9, NullAssumption DEF LaunchDropDone, drop_done, IdleCmd, IInv, TypeOK,
       FrameInv, OwnInv, GlobalOnce, GlobalApart, FramesApart, CmdFrame, DispFrame,
       Null
  <2>10. CASE AbortSlot(t)
    BY <2>10, NullAssumption DEF AbortSlot, Scan, mqVars, IInv, TypeOK, FrameInv,
       OwnInv, GlobalOnce, GlobalApart, FramesApart, CmdFrame, DispFrame, Null
  <2>11. CASE AbortPass(t)
    BY <2>11, NullAssumption DEF AbortPass, Scan, IdleCmd, mqVars, IInv, TypeOK,
       FrameInv, OwnInv, GlobalOnce, GlobalApart, FramesApart, CmdFrame, DispFrame,
       Null
  <2> QED BY <1>2, <2>1, <2>2, <2>3, <2>4, <2>5, <2>6, <2>7, <2>8, <2>9, <2>10, <2>11
     DEF CmdStep
<1>3. ASSUME NEW t \in Threads, Send(t) PROVE OwnInv'
  BY <1>3 DEF Send, mqVars, IInv, OwnInv, GlobalOnce, GlobalApart, FramesApart
<1>4. ASSUME NEW t \in Threads, Kill(t) PROVE OwnInv'
  BY <1>4 DEF Kill, mqVars, IInv, OwnInv, GlobalOnce, GlobalApart, FramesApart
<1>5. ASSUME NEW t \in Threads, Launch(t) PROVE OwnInv'
  BY <1>5, OwnLaunch
<1>6. ASSUME NEW t \in Threads, Abort(t) PROVE OwnInv'
  BY <1>6, NullAssumption DEF Abort, Scan, mqVars, IInv, TypeOK, FrameInv, OwnInv,
       GlobalOnce, GlobalApart, FramesApart, CmdFrame, DispFrame, Null
<1>7. ASSUME NEW w \in Workers, DispStep(w) PROVE OwnInv'
  <2>1. CASE TakeQueue(w)
    BY <2>1, OwnTakeQueue
  <2>2. CASE TakeNothing(w)
    BY <2>2, NullAssumption DEF TakeNothing, Top, DispAt, mqVars, IInv, TypeOK,
       FrameInv, OwnInv, GlobalOnce, GlobalApart, FramesApart, CmdFrame, DispFrame,
       Null, Threads
  <2>3. CASE Grab(w)
    BY <2>3, NullAssumption DEF Grab, Top, DispAt, DispTo, mqVars, IInv, TypeOK,
       FrameInv, OwnInv, GlobalOnce, GlobalApart, FramesApart, CmdFrame, DispFrame,
       Null, Threads
  <2>4. CASE MqRelease(w)
    BY <2>4, OwnMqRelease
  <2>5. CASE Drop(w)
    BY <2>5 DEF Drop, mq_pop, IInv, OwnInv, GlobalOnce, GlobalApart, FramesApart
  <2>6. CASE DropDone(w)
    BY <2>6, NullAssumption DEF DropDone, Top, drop_done, DispAt, IInv, TypeOK,
       FrameInv, OwnInv, GlobalOnce, GlobalApart, FramesApart, CmdFrame, DispFrame,
       Null, Threads
  <2>7. CASE Pop(w)
    BY <2>7, NullAssumption DEF Pop, mq_pop, IInv, TypeOK, OwnInv, GlobalOnce,
       GlobalApart, FramesApart, Threads
  <2>8. CASE PopEmpty(w)
    BY <2>8, NullAssumption DEF PopEmpty, Top, mq_pop_empty, DispAt, IInv, TypeOK,
       FrameInv, OwnInv, GlobalOnce, GlobalApart, FramesApart, CmdFrame, DispFrame,
       Null, Threads
  <2>9. CASE Length(w)
    BY <2>9, NullAssumption DEF Length, mqVars, IInv, TypeOK, OwnInv, GlobalOnce,
       GlobalApart, FramesApart, Threads
  <2>10. CASE Call(w)
    BY <2>10, NullAssumption DEF Call, DispTo, mqVars, IInv, TypeOK, OwnInv,
       GlobalOnce, GlobalApart, FramesApart, Threads
  <2>11. CASE Discard(w)
    BY <2>11, NullAssumption DEF Discard, Next_i, mqVars, IInv, TypeOK, OwnInv,
       GlobalOnce, GlobalApart, FramesApart, Threads
  <2>12. CASE Return(w)
    BY <2>12, NullAssumption DEF Return, Next_i, mqVars, IInv, TypeOK, OwnInv,
       GlobalOnce, GlobalApart, FramesApart, Threads
  <2>13. CASE EndTake(w)
    BY <2>13, OwnEndTake
  <2>14. CASE PushBack(w)
    BY <2>14, OwnPushBack
  <2>15. CASE EndKeep(w)
    BY <2>15, NullAssumption DEF EndKeep, Top, DispAt, mqVars, IInv, TypeOK, FrameInv,
       OwnInv, GlobalOnce, GlobalApart, FramesApart, CmdFrame, DispFrame, Null, Threads
  <2> QED BY <1>7, <2>1, <2>2, <2>3, <2>4, <2>5, <2>6, <2>7, <2>8, <2>9, <2>10, <2>11,
     <2>12, <2>13, <2>14, <2>15 DEF DispStep
<1>8. CASE UNCHANGED vars
  BY <1>8 DEF vars, IInv, OwnInv, GlobalOnce, GlobalApart, FramesApart
<1> QED BY <1>1, <1>2, <1>3, <1>4, <1>5, <1>6, <1>7, <1>8 DEF Next

\* What is linked after a push to the global queue.
LEMMA LinkedIn ==
  ASSUME NEW s \in Services, globalq \in Seq(Services), globalq' = Append(globalq, s)
  PROVE  \A r \in Services : InGlobalQueue(r)' <=> InGlobalQueue(r) \/ r = s
<1>1. /\ Len(globalq') = Len(globalq) + 1 /\ globalq'[Len(globalq) + 1] = s
      /\ Len(globalq) \in Nat
      /\ \A i \in 1..Len(globalq) : globalq'[i] = globalq[i]
  BY AppendElems
<1>2. \A i : i \in 1..Len(globalq') <=> i \in 1..Len(globalq) \/ i = Len(globalq) + 1
  BY <1>1
<1> QED BY <1>1, <1>2 DEF InGlobalQueue

\* What is linked after a pop from it.
LEMMA LinkedOut ==
  ASSUME globalq \in Seq(Services), globalq # <<>>, GlobalOnce, globalq' = Tail(globalq)
  PROVE  \A r \in Services : InGlobalQueue(r)' <=> InGlobalQueue(r) /\ r # Head(globalq)
<1>1. /\ Len(globalq) \in Nat \ {0} /\ Len(globalq') = Len(globalq) - 1
      /\ Head(globalq) = globalq[1]
      /\ \A i \in 1..Len(globalq) - 1 : globalq'[i] = globalq[i + 1]
  BY TailElems
<1>2. ASSUME NEW r \in Services, NEW i \in 1..Len(globalq'), globalq'[i] = r
      PROVE  InGlobalQueue(r) /\ r # Head(globalq)
  <2>1. i + 1 \in 1..Len(globalq) /\ globalq[i + 1] = r /\ i + 1 # 1 /\ 1 \in 1..Len(globalq)
    BY <1>1, <1>2
  <2> QED BY <1>1, <2>1 DEF InGlobalQueue, GlobalOnce
<1>3. ASSUME NEW r \in Services, NEW i \in 1..Len(globalq), globalq[i] = r, r # Head(globalq)
      PROVE  InGlobalQueue(r)'
  <2>1. i - 1 \in 1..Len(globalq') /\ globalq'[i - 1] = r
    BY <1>1, <1>3
  <2> QED BY <2>1 DEF InGlobalQueue
<1> QED BY <1>2, <1>3 DEF InGlobalQueue

\* Its head is linked.
LEMMA HeadLinked ==
  ASSUME globalq \in Seq(Services), globalq # <<>>
  PROVE  InGlobalQueue(Head(globalq))
<1>1. Len(globalq) \in Nat \ {0} /\ Head(globalq) = globalq[1]
  BY TailElems
<1> QED BY <1>1 DEF InGlobalQueue

\* Nothing happens to the ownership or the flags of any queue.
LEMMA OwnedSame ==
  ASSUME FlagInv, UNCHANGED <<globalq, queue, in_global, release, qmem>>,
         \A t \in Threads : disp'[t].q = disp[t].q /\ disp'[t].nq = disp[t].nq,
         \A t \in Threads : \A s \in Services : LaunchOwns(t, s)' <=> LaunchOwns(t, s)
  PROVE  FlagInv'
<1>1. \A s \in Services : InGlobalQueue(s)' <=> InGlobalQueue(s)
  BY DEF InGlobalQueue
<1>2. \A s \in Services : Owned(s)' <=> Owned(s)
  BY <1>1 DEF Owned
<1> QED BY <1>2 DEF FlagInv

\* Ownership passes from hand to hand and the flags stay.
LEMMA FlagSame ==
  ASSUME FlagInv, UNCHANGED <<queue, in_global, release, qmem>>,
         \A s \in Services : Owned(s)' <=> Owned(s)
  PROVE  FlagInv'
  BY DEF FlagInv

\* A message is popped and ownership stays.
LEMMA FlagShrink ==
  ASSUME FlagInv, NEW s \in Services, TypeOK, queue[s] # <<>>, 
         queue' = [queue EXCEPT ![s] = Tail(@)],
         UNCHANGED <<globalq, in_global, release, qmem>>, cmd' = cmd,
         \A t \in Threads : disp'[t].q = disp[t].q /\ disp'[t].nq = disp[t].nq
  PROVE  FlagInv'
<1>1. \A r \in Services : InGlobalQueue(r)' <=> InGlobalQueue(r)
  BY DEF InGlobalQueue
<1>2. \A r \in Services : Owned(r)' <=> Owned(r)
  BY <1>1 DEF Owned, LaunchOwns
<1>3. \A r \in Services : queue'[r] # <<>> => queue[r] # <<>>
  BY DEF TypeOK, MQTypeOK
<1> QED BY <1>2, <1>3 DEF FlagInv

\* skynet_mq_push sets in_global and links the queue if it was clear.
LEMMA FlagPush ==
  ASSUME IInv, NEW t \in Threads, Push(t)
  PROVE  FlagInv'
<1> DEFINE s == op[t].svc
<1>1. s \in Services /\ qmem[s] # "none" /\ globalq \in Seq(Services)
  BY DEF IInv, Push, TypeOK, MQTypeOK, FrameInv, KnownInv, OpFrame, Null
<1>2. release[s] = 0 /\ qmem[s] = "live"
  <2>1. t \in OpHolders(s) BY DEF Push, OpHolders
  <2>2. ref[s] # 0 BY <2>1, <1>1, RefPositive DEF IInv
  <2> QED BY <2>2, <1>1 DEF IInv, LifeInv, TypeOK, MQTypeOK
<1>3. /\ cmd' = cmd /\ disp' = disp /\ release' = release /\ qmem' = qmem
      /\ in_global' = [in_global EXCEPT ![s] = 1]
      /\ \A r \in Services : r # s => queue'[r] = queue[r]
  BY <1>1 DEF Push, mq_push, IInv, TypeOK, MQTypeOK
<1>4. \A r \in Services : Owned(r)' <=> Owned(r) \/ r = s
  <2>1. CASE in_global[s] = 0
    <3>1. globalq' = Append(globalq, s) BY <2>1 DEF Push, mq_push
    <3>2. \A r \in Services : InGlobalQueue(r)' <=> InGlobalQueue(r) \/ r = s
      BY <3>1, <1>1, LinkedIn
    <3> QED BY <3>2, <1>3 DEF Owned, LaunchOwns
  <2>2. CASE in_global[s] # 0
    <3>1. globalq' = globalq BY <2>2 DEF Push, mq_push
    <3>2. Owned(s) BY <2>2, <1>1, <1>2 DEF IInv, FlagInv, TypeOK, MQTypeOK
    <3> QED BY <3>1, <3>2, <1>3 DEF Owned, LaunchOwns, InGlobalQueue
  <2> QED BY <2>1, <2>2
<1> QED BY <1>1, <1>2, <1>3, <1>4 DEF IInv, FlagInv, TypeOK, MQTypeOK


\* skynet_mq_mark_release sets release and links the queue if in_global is clear.
LEMMA FlagDelete ==
  ASSUME IInv, NEW t \in Threads, Delete(t)
  PROVE  FlagInv'
<1> DEFINE s == op[t].svc
<1>1. s \in Services /\ qmem[s] # "none" /\ globalq \in Seq(Services)
  BY DEF IInv, Delete, TypeOK, MQTypeOK, FrameInv, KnownInv, OpFrame, Null
<1>2. release[s] = 0 /\ qmem[s] = "live"
  BY <1>1 DEF IInv, LifeInv, TypeOK, MQTypeOK, Delete
<1>3. /\ disp' = disp /\ in_global' = in_global /\ qmem' = qmem /\ queue' = queue
      /\ release' = [release EXCEPT ![s] = 1]
  BY DEF Delete, mark_release
<1>4. \A u \in Threads : \A r \in Services : LaunchOwns(u, r)' <=> LaunchOwns(u, r)
  BY DEF Delete, CmdTo, LaunchOwns, IInv, TypeOK
<1>5. \A r \in Services : Owned(r)' <=> Owned(r) \/ r = s
  <2>1. CASE in_global[s] = 0
    <3>1. globalq' = Append(globalq, s) BY <2>1 DEF Delete, mark_release
    <3>2. \A r \in Services : InGlobalQueue(r)' <=> InGlobalQueue(r) \/ r = s
      BY <3>1, <1>1, LinkedIn
    <3> QED BY <3>2, <1>3, <1>4 DEF Owned
  <2>2. CASE in_global[s] # 0
    <3>1. globalq' = globalq BY <2>2 DEF Delete, mark_release
    <3>2. Owned(s) BY <2>2, <1>1, <1>2 DEF IInv, FlagInv, TypeOK, MQTypeOK
    <3> QED BY <3>1, <3>2, <1>3, <1>4 DEF Owned, InGlobalQueue
  <2> QED BY <2>1, <2>2
<1> QED BY <1>1, <1>2, <1>3, <1>5 DEF IInv, FlagInv, TypeOK, MQTypeOK


\* skynet_mq_create sets in_global; the launcher owns the queue.
LEMMA FlagCreateQueue ==
  ASSUME IInv, NEW t \in Threads, CreateQueue(t)
  PROVE  FlagInv'
<1> DEFINE s == cmd[t].svc
<1>1. s \in Services /\ qmem[s] = "none"
  BY DEF IInv, CreateQueue, TypeOK, FrameInv, CmdFrame, Null, LifeInv
<1>2. /\ disp' = disp /\ globalq' = globalq
      /\ in_global' = [in_global EXCEPT ![s] = 1] /\ release' = [release EXCEPT ![s] = 0]
      /\ qmem' = [qmem EXCEPT ![s] = "live"] /\ queue' = [queue EXCEPT ![s] = <<>>]
  BY DEF CreateQueue, mq_create
<1>3. \A u \in Threads : \A r \in Services : LaunchOwns(u, r)' <=> LaunchOwns(u, r) \/ (u = t /\ r = s)
  BY DEF CreateQueue, CmdTo, LaunchOwns, IInv, TypeOK
<1>4. \A r \in Services : Owned(r)' <=> Owned(r) \/ r = s
  BY <1>2, <1>3 DEF Owned, InGlobalQueue
<1> QED BY <1>1, <1>2, <1>4 DEF IInv, FlagInv, TypeOK, MQTypeOK


\* The launcher hands the queue to the global queue.
LEMMA FlagLaunchPush ==
  ASSUME IInv, NEW t \in Threads, LaunchPush(t)
  PROVE  FlagInv'
<1> DEFINE s == cmd[t].svc
<1>1. s \in Services /\ globalq \in Seq(Services) /\ globalq' = Append(globalq, s) /\ disp' = disp
  BY DEF IInv, LaunchPush, globalmq_push, TypeOK, MQTypeOK, FrameInv, CmdFrame, Null
<1>2. \A u \in Threads : \A r \in Services : LaunchOwns(u, r) <=> LaunchOwns(u, r)' \/ (u = t /\ r = s)
  BY NullAssumption DEF LaunchPush, IdleCmd, LaunchOwns, IInv, TypeOK
<1>3. \A r \in Services : Owned(r)' <=> Owned(r)
  BY <1>1, <1>2, LinkedIn DEF Owned
<1> QED BY <1>3, FlagSame DEF LaunchPush, IInv


\* A failed launch hands it back or keeps it.
LEMMA FlagLaunchMqRelease ==
  ASSUME IInv, NEW t \in Threads, LaunchMqRelease(t)
  PROVE  FlagInv'
<1> DEFINE s == cmd[t].svc
<1>1. s \in Services /\ globalq \in Seq(Services) /\ disp' = disp
  BY DEF IInv, LaunchMqRelease, TypeOK, MQTypeOK, FrameInv, CmdFrame, Null
<1>2. CASE release[s] = 1
  <2>1. globalq' = globalq BY <1>2 DEF LaunchMqRelease, mq_release
  <2>2. \A u \in Threads : \A r \in Services : LaunchOwns(u, r)' <=> LaunchOwns(u, r)
    BY <1>2 DEF LaunchMqRelease, CmdTo, LaunchOwns, IInv, TypeOK
  <2> QED BY <1>1, <2>1, <2>2, OwnedSame DEF LaunchMqRelease, IInv
<1>3. CASE release[s] # 1
  <2>1. globalq' = Append(globalq, s) BY <1>3 DEF LaunchMqRelease, mq_release
  <2>2. \A u \in Threads : \A r \in Services : LaunchOwns(u, r) <=> LaunchOwns(u, r)' \/ (u = t /\ r = s)
    BY <1>3, NullAssumption DEF LaunchMqRelease, IdleCmd, LaunchOwns, IInv, TypeOK
  <2>3. \A r \in Services : Owned(r)' <=> Owned(r)
    BY <1>1, <2>1, <2>2, LinkedIn DEF Owned
  <2> QED BY <2>3, FlagSame DEF LaunchMqRelease, IInv
<1> QED BY <1>2, <1>3


\* A worker swaps the used queue for the next one.
LEMMA FlagPushBack ==
  ASSUME IInv, NEW w \in Workers, PushBack(w)
  PROVE  FlagInv'
<1> DEFINE s == disp[w].q
<1>1. /\ w \in Threads /\ s \in Services /\ disp[w].nq \in Services
      /\ globalq \in Seq(Services) /\ globalq' = Append(globalq, s) /\ cmd' = cmd
  BY DEF IInv, PushBack, Top, globalmq_push, TypeOK, MQTypeOK, FrameInv, DispFrame,
     Null, Threads
<1>2. \A u \in Threads : /\ disp'[u].q = IF u = w THEN disp[w].nq ELSE disp[u].q
                         /\ disp'[u].nq = IF u = w THEN NoService ELSE disp[u].nq
  BY <1>1 DEF PushBack, DispAt, IInv, TypeOK
<1>3. \A r \in Services : Owned(r)' <=> Owned(r)
  BY <1>1, <1>2, LinkedIn, NullAssumption DEF Owned, LaunchOwns
<1> QED BY <1>3, FlagSame DEF PushBack, IInv


\* A worker hands a queue not yet marked back to the global queue.
LEMMA FlagMqRelease ==
  ASSUME IInv, NEW w \in Workers, MqRelease(w)
  PROVE  FlagInv'
<1> DEFINE s == disp[w].q
<1>1. w \in Threads /\ s \in Services /\ globalq \in Seq(Services) /\ cmd' = cmd /\ disp[w].nq = NoService
  BY DEF IInv, MqRelease, Top, TypeOK, MQTypeOK, FrameInv, DispFrame, Null, Threads
<1>2. CASE release[s] = 1
  <2>1. globalq' = globalq /\ \A u \in Threads : disp'[u].q = disp[u].q /\ disp'[u].nq = disp[u].nq
    BY <1>1, <1>2 DEF MqRelease, mq_release, DispTo, IInv, TypeOK
  <2> QED BY <2>1, <1>1, OwnedSame DEF MqRelease, LaunchOwns, IInv
<1>3. CASE release[s] # 1
  <2>1. globalq' = Append(globalq, s) BY <1>3 DEF MqRelease, mq_release
  <2>2. \A u \in Threads : /\ disp'[u].q = IF u = w THEN NoService ELSE disp[u].q
                           /\ disp'[u].nq = disp[u].nq
    BY <1>1, <1>3 DEF MqRelease, DispAt, IInv, TypeOK
  <2>3. \A r \in Services : Owned(r)' <=> Owned(r)
    BY <1>1, <2>1, <2>2, LinkedIn, NullAssumption DEF Owned, LaunchOwns
  <2> QED BY <2>3, FlagSame DEF MqRelease, IInv
<1> QED BY <1>2, <1>3


\* A worker takes a queue; its flag stays set.
LEMMA FlagTakeQueue ==
  ASSUME IInv, NEW w \in Workers, TakeQueue(w)
  PROVE  FlagInv'
<1>1. PICK s \in Services : /\ globalq # <<>> /\ s = Head(globalq) /\ globalq' = Tail(globalq)
                            /\ disp' = [disp EXCEPT ![w] = DispAt("grab", s)]
  BY DEF TakeQueue, globalmq_pop
<1>2. /\ cmd' = cmd /\ w \in Threads /\ disp[w].q = NoService /\ disp[w].nq = NoService
      /\ \A u \in Threads : /\ disp'[u].q = IF u = w THEN s ELSE disp[u].q
                            /\ disp'[u].nq = disp[u].nq
  BY <1>1 DEF TakeQueue, Top, DispAt, Threads, IInv, TypeOK, FrameInv
<1>3. globalq \in Seq(Services) /\ InGlobalQueue(s)
  BY <1>1, HeadLinked DEF IInv, TypeOK, MQTypeOK
<1>4. \A r \in Services : Owned(r)' <=> Owned(r)
  BY <1>1, <1>2, <1>3, LinkedOut, NullAssumption DEF Owned, LaunchOwns, IInv, OwnInv
<1> QED BY <1>4, FlagSame DEF TakeQueue, IInv


\* So it does after its loop.
LEMMA FlagEndTake ==
  ASSUME IInv, NEW w \in Workers, EndTake(w)
  PROVE  FlagInv'
<1>1. PICK s \in Services : /\ globalq # <<>> /\ s = Head(globalq) /\ globalq' = Tail(globalq)
                            /\ disp' = [disp EXCEPT ![w] = [pc |-> "back", q |-> disp[w].q, nq |-> s, i |-> disp[w].i, n |-> disp[w].n, msg |-> disp[w].msg]]
  BY DEF EndTake, globalmq_pop
<1>2. /\ cmd' = cmd /\ w \in Threads /\ disp[w].nq = NoService
      /\ \A u \in Threads : /\ disp'[u].q = disp[u].q
                            /\ disp'[u].nq = IF u = w THEN s ELSE disp[u].nq
  BY <1>1 DEF EndTake, Top, Threads, IInv, TypeOK, FrameInv
<1>3. globalq \in Seq(Services) /\ InGlobalQueue(s)
  BY <1>1, HeadLinked DEF IInv, TypeOK, MQTypeOK
<1>4. \A r \in Services : Owned(r)' <=> Owned(r)
  BY <1>1, <1>2, <1>3, LinkedOut, NullAssumption DEF Owned, LaunchOwns, IInv, OwnInv
<1> QED BY <1>4, FlagSame DEF EndTake, IInv


\* Only the owner clears in_global, and gives the queue up with it.
LEMMA FlagPopEmpty ==
  ASSUME IInv, NEW w \in Workers, PopEmpty(w)
  PROVE  FlagInv'
<1> DEFINE s == disp[w].q
<1>1. /\ w \in Threads /\ s \in Services /\ globalq' = globalq /\ cmd' = cmd /\ queue[s] = <<>>
      /\ queue' = queue /\ release' = release /\ qmem' = qmem /\ in_global' = [in_global EXCEPT ![s] = 0]
  BY DEF IInv, PopEmpty, Top, mq_pop_empty, TypeOK, FrameInv, DispFrame, Null, Threads
<1>2. \A u \in Threads : /\ disp'[u].q = IF u = w THEN NoService ELSE disp[u].q
                         /\ disp'[u].nq = IF u = w THEN NoService ELSE disp[u].nq
  BY <1>1 DEF PopEmpty, DispAt, IInv, TypeOK
<1>3. disp[w].nq = NoService BY <1>1 DEF PopEmpty, Top, IInv, FrameInv
<1>4. \A r \in Services : Owned(r)' <=> Owned(r) /\ r # s
  BY <1>1, <1>2, <1>3, NullAssumption DEF Owned, LaunchOwns, InGlobalQueue, IInv,
     OwnInv, GlobalApart, FramesApart
<1>5. release[s] = 0
  <2>1. w \in DispHolders(s) BY <1>1 DEF PopEmpty, Top, DispHolders, DispRef
  <2>2. ref[s] # 0 BY <2>1, <1>1, RefPositive DEF IInv
  <2> QED BY <2>2, <1>1 DEF IInv, LifeInv, TypeOK, MQTypeOK
<1> QED BY <1>1, <1>4, <1>5 DEF IInv, FlagInv, TypeOK, MQTypeOK


\* A dropped queue is freed and forgotten.
LEMMA FlagDropDone ==
  ASSUME IInv, NEW w \in Workers, DropDone(w)
  PROVE  FlagInv'
<1> DEFINE s == disp[w].q
<1>1. /\ w \in Threads /\ s \in Services /\ globalq' = globalq /\ cmd' = cmd /\ queue[s] = <<>>
      /\ queue' = queue /\ release' = release /\ qmem' = [qmem EXCEPT ![s] = "freed"] /\ in_global' = [in_global EXCEPT ![s] = 0]
  BY DEF IInv, DropDone, Top, drop_done, TypeOK, FrameInv, DispFrame, Null, Threads
<1>2. \A u \in Threads : /\ disp'[u].q = IF u = w THEN NoService ELSE disp[u].q
                         /\ disp'[u].nq = IF u = w THEN NoService ELSE disp[u].nq
  BY <1>1 DEF DropDone, DispAt, IInv, TypeOK
<1>3. disp[w].nq = NoService BY <1>1 DEF DropDone, Top, IInv, FrameInv
<1>4. \A r \in Services : Owned(r)' <=> Owned(r) /\ r # s
  BY <1>1, <1>2, <1>3, NullAssumption DEF Owned, LaunchOwns, InGlobalQueue, IInv,
     OwnInv, GlobalApart, FramesApart
<1> QED BY <1>1, <1>4 DEF IInv, FlagInv, TypeOK, MQTypeOK


\* So it is by a failed launch.
LEMMA FlagLaunchDropDone ==
  ASSUME IInv, NEW t \in Threads, LaunchDropDone(t)
  PROVE  FlagInv'
<1> DEFINE s == cmd[t].svc
<1>1. /\ s \in Services /\ globalq' = globalq /\ disp' = disp /\ queue[s] = <<>>
      /\ queue' = queue /\ release' = release /\ qmem' = [qmem EXCEPT ![s] = "freed"] /\ in_global' = [in_global EXCEPT ![s] = 0]
  BY DEF IInv, LaunchDropDone, drop_done, TypeOK, FrameInv, CmdFrame, Null
<1>2. \A u \in Threads : \A r \in Services : LaunchOwns(u, r)' <=> LaunchOwns(u, r) /\ u # t
  BY NullAssumption DEF LaunchDropDone, IdleCmd, LaunchOwns, IInv, TypeOK
<1>3. \A u \in Threads : LaunchOwns(u, s) => u = t
  BY <1>1 DEF LaunchOwns, IInv, OwnInv, FramesApart
<1>4. \A r \in Services : LaunchOwns(t, r) => r = s
  BY DEF LaunchOwns
<1>5. \A r \in Services : Owned(r)' <=> Owned(r) /\ r # s
  BY <1>1, <1>2, <1>3, <1>4 DEF Owned, InGlobalQueue, IInv, OwnInv, GlobalApart,
     FramesApart
<1> QED BY <1>1, <1>5 DEF IInv, FlagInv, TypeOK, MQTypeOK


\* Every step keeps the flags and the owners in agreement.
LEMMA FlagStep ==
  ASSUME IInv, [Next]_vars
  PROVE  FlagInv'
<1>1. ASSUME NEW t \in Threads, OpStep(t) PROVE FlagInv'
  <2>1. CASE PushGrab(t)
    <3>1. cmd' = cmd /\ disp' = disp BY <2>1 DEF PushGrab
    <3> QED BY <2>1, <3>1, OwnedSame DEF PushGrab, mqVars, LaunchOwns, IInv
  <2>2. CASE PushRefused(t)
    <3>1. cmd' = cmd /\ disp' = disp BY <2>2 DEF PushRefused
    <3> QED BY <2>2, <3>1, OwnedSame DEF PushRefused, mqVars, LaunchOwns, IInv
  <2>3. CASE Push(t)
    BY <2>3, FlagPush
  <2>4. CASE Release(t)
    <3>1. cmd' = cmd /\ disp' = disp BY <2>4 DEF Release
    <3> QED BY <2>4, <3>1, OwnedSame DEF Release, mqVars, LaunchOwns, IInv
  <2>5. CASE Delete(t)
    BY <2>5, FlagDelete
  <2>6. CASE Retire(t)
    <3>1. disp' = disp /\ \A u \in Threads : \A s \in Services : LaunchOwns(u, s)' <=>
       LaunchOwns(u, s)
      BY <2>6, NullAssumption DEF Retire, Scan, mqVars, LaunchOwns, IInv, TypeOK, FrameInv,
         CmdFrame, Null
    <3> QED BY <2>6, <3>1, OwnedSame DEF Retire, mqVars, LaunchOwns, IInv
  <2>7. CASE RetireNothing(t)
    <3>1. cmd' = cmd /\ disp' = disp BY <2>7 DEF RetireNothing
    <3> QED BY <2>7, <3>1, OwnedSame DEF RetireNothing, mqVars, LaunchOwns, IInv
  <2> QED BY <1>1, <2>1, <2>2, <2>3, <2>4, <2>5, <2>6, <2>7 DEF OpStep
<1>2. ASSUME NEW t \in Threads, CmdStep(t) PROVE FlagInv'
  <2>1. CASE CreateQueue(t)
    BY <2>1, FlagCreateQueue
  <2>2. CASE InitOK(t)
    <3>1. disp' = disp /\ \A u \in Threads : \A s \in Services : LaunchOwns(u, s)' <=>
       LaunchOwns(u, s)
      BY <2>2, NullAssumption DEF InitOK, CmdTo, mqVars, LaunchOwns, IInv, TypeOK,
         FrameInv, CmdFrame, Null
    <3> QED BY <2>2, <3>1, OwnedSame DEF InitOK, mqVars, LaunchOwns, IInv
  <2>3. CASE SetInit(t)
    <3>1. disp' = disp /\ \A u \in Threads : \A s \in Services : LaunchOwns(u, s)' <=>
       LaunchOwns(u, s)
      BY <2>3, NullAssumption DEF SetInit, CmdTo, mqVars, LaunchOwns, IInv, TypeOK,
         FrameInv, CmdFrame, Null
    <3> QED BY <2>3, <3>1, OwnedSame DEF SetInit, mqVars, LaunchOwns, IInv
  <2>4. CASE LaunchPush(t)
    BY <2>4, FlagLaunchPush
  <2>5. CASE InitFail(t)
    <3>1. disp' = disp /\ \A u \in Threads : \A s \in Services : LaunchOwns(u, s)' <=>
       LaunchOwns(u, s)
      BY <2>5, NullAssumption DEF InitFail, CmdTo, mqVars, LaunchOwns, IInv, TypeOK,
         FrameInv, CmdFrame, Null
    <3> QED BY <2>5, <3>1, OwnedSame DEF InitFail, mqVars, LaunchOwns, IInv
  <2>6. CASE LaunchRetire(t)
    <3>1. disp' = disp /\ \A u \in Threads : \A s \in Services : LaunchOwns(u, s)' <=>
       LaunchOwns(u, s)
      BY <2>6, NullAssumption DEF LaunchRetire, CmdTo, mqVars, LaunchOwns, IInv, TypeOK,
         FrameInv, CmdFrame, Null
    <3> QED BY <2>6, <3>1, OwnedSame DEF LaunchRetire, mqVars, LaunchOwns, IInv
  <2>7. CASE LaunchMqRelease(t)
    BY <2>7, FlagLaunchMqRelease
  <2>8. CASE LaunchDrop(t)
    <3>1. cmd[t].svc \in Services BY <2>8 DEF LaunchDrop, IInv, TypeOK, FrameInv, CmdFrame,
       Null
    <3> QED BY <2>8, <3>1, FlagShrink DEF LaunchDrop, mq_pop, IInv
  <2>9. CASE LaunchDropDone(t)
    BY <2>9, FlagLaunchDropDone
  <2>10. CASE AbortSlot(t)
    <3>1. disp' = disp /\ \A u \in Threads : \A s \in Services : LaunchOwns(u, s)' <=>
       LaunchOwns(u, s)
      BY <2>10, NullAssumption DEF AbortSlot, Scan, mqVars, LaunchOwns, IInv, TypeOK,
         FrameInv, CmdFrame, Null
    <3> QED BY <2>10, <3>1, OwnedSame DEF AbortSlot, mqVars, LaunchOwns, IInv
  <2>11. CASE AbortPass(t)
    <3>1. disp' = disp /\ \A u \in Threads : \A s \in Services : LaunchOwns(u, s)' <=>
       LaunchOwns(u, s)
      BY <2>11, NullAssumption DEF AbortPass, Scan, IdleCmd, mqVars, LaunchOwns, IInv,
         TypeOK, FrameInv, CmdFrame, Null
    <3> QED BY <2>11, <3>1, OwnedSame DEF AbortPass, mqVars, LaunchOwns, IInv
  <2> QED BY <1>2, <2>1, <2>2, <2>3, <2>4, <2>5, <2>6, <2>7, <2>8, <2>9, <2>10, <2>11
     DEF CmdStep
<1>3. ASSUME NEW t \in Threads, Send(t) PROVE FlagInv'
  <2>1. cmd' = cmd /\ disp' = disp BY <1>3 DEF Send
  <2> QED BY <1>3, <2>1, OwnedSame DEF Send, mqVars, LaunchOwns, IInv
<1>4. ASSUME NEW t \in Threads, Kill(t) PROVE FlagInv'
  <2>1. cmd' = cmd /\ disp' = disp BY <1>4 DEF Kill
  <2> QED BY <1>4, <2>1, OwnedSame DEF Kill, mqVars, LaunchOwns, IInv
<1>5. ASSUME NEW t \in Threads, Launch(t) PROVE FlagInv'
  <2>1. disp' = disp /\ \A u \in Threads : \A s \in Services : LaunchOwns(u, s)' <=>
       LaunchOwns(u, s)
    BY <1>5, NullAssumption DEF Launch, Running, mqVars, LaunchOwns, IInv, TypeOK,
         FrameInv, CmdFrame, Null
  <2> QED BY <1>5, <2>1, OwnedSame DEF Launch, mqVars, LaunchOwns, IInv
<1>6. ASSUME NEW t \in Threads, Abort(t) PROVE FlagInv'
  <2>1. disp' = disp /\ \A u \in Threads : \A s \in Services : LaunchOwns(u, s)' <=>
       LaunchOwns(u, s)
    BY <1>6, NullAssumption DEF Abort, Running, Scan, mqVars, LaunchOwns, IInv, TypeOK,
         FrameInv, CmdFrame, Null
  <2> QED BY <1>6, <2>1, OwnedSame DEF Abort, mqVars, LaunchOwns, IInv
<1>7. ASSUME NEW w \in Workers, DispStep(w) PROVE FlagInv'
  <2>1. CASE TakeQueue(w)
    BY <2>1, FlagTakeQueue
  <2>2. CASE TakeNothing(w)
    <3>1. cmd' = cmd /\ \A u \in Threads : disp'[u].q = disp[u].q /\ disp'[u].nq =
       disp[u].nq
      BY <2>2, NullAssumption DEF TakeNothing, Top, DispAt, mqVars, Threads, IInv, TypeOK,
         FrameInv, DispFrame, Null
    <3> QED BY <2>2, <3>1, OwnedSame DEF TakeNothing, mqVars, LaunchOwns, IInv
  <2>3. CASE Grab(w)
    <3>1. cmd' = cmd /\ \A u \in Threads : disp'[u].q = disp[u].q /\ disp'[u].nq =
       disp[u].nq
      BY <2>3, NullAssumption DEF Grab, Top, DispAt, DispTo, mqVars, Threads, IInv, TypeOK,
         FrameInv, DispFrame, Null
    <3> QED BY <2>3, <3>1, OwnedSame DEF Grab, mqVars, LaunchOwns, IInv
  <2>4. CASE MqRelease(w)
    BY <2>4, FlagMqRelease
  <2>5. CASE Drop(w)
    <3>1. disp[w].q \in Services BY <2>5 DEF Drop, Top, IInv, TypeOK, FrameInv, DispFrame,
       Null, Threads
    <3> QED BY <2>5, <3>1, FlagShrink DEF Drop, mq_pop, IInv
  <2>6. CASE DropDone(w)
    BY <2>6, FlagDropDone
  <2>7. CASE Pop(w)
    <3>1. disp[w].q \in Services BY <2>7 DEF Pop, Top, IInv, TypeOK, FrameInv, DispFrame,
       Null, Threads
    <3>2. \A t \in Threads : disp'[t].q = disp[t].q /\ disp'[t].nq = disp[t].nq
      BY <2>7 DEF Pop, IInv, TypeOK, Threads
    <3> QED BY <2>7, <3>1, <3>2, FlagShrink DEF Pop, mq_pop, IInv
  <2>8. CASE PopEmpty(w)
    BY <2>8, FlagPopEmpty
  <2>9. CASE Length(w)
    <3>1. cmd' = cmd /\ \A u \in Threads : disp'[u].q = disp[u].q /\ disp'[u].nq =
       disp[u].nq
      BY <2>9, NullAssumption DEF Length, Top, mqVars, Threads, IInv, TypeOK, FrameInv,
         DispFrame, Null
    <3> QED BY <2>9, <3>1, OwnedSame DEF Length, mqVars, LaunchOwns, IInv
  <2>10. CASE Call(w)
    <3>1. cmd' = cmd /\ \A u \in Threads : disp'[u].q = disp[u].q /\ disp'[u].nq =
       disp[u].nq
      BY <2>10, NullAssumption DEF Call, Top, DispTo, mqVars, Threads, IInv, TypeOK,
         FrameInv, DispFrame, Null
    <3> QED BY <2>10, <3>1, OwnedSame DEF Call, mqVars, LaunchOwns, IInv
  <2>11. CASE Discard(w)
    <3>1. cmd' = cmd /\ \A u \in Threads : disp'[u].q = disp[u].q /\ disp'[u].nq =
       disp[u].nq
      BY <2>11, NullAssumption DEF Discard, Top, Next_i, mqVars, Threads, IInv, TypeOK,
         FrameInv, DispFrame, Null
    <3> QED BY <2>11, <3>1, OwnedSame DEF Discard, mqVars, LaunchOwns, IInv
  <2>12. CASE Return(w)
    <3>1. cmd' = cmd /\ \A u \in Threads : disp'[u].q = disp[u].q /\ disp'[u].nq =
       disp[u].nq
      BY <2>12, NullAssumption DEF Return, Top, Next_i, mqVars, Threads, IInv, TypeOK,
         FrameInv, DispFrame, Null
    <3> QED BY <2>12, <3>1, OwnedSame DEF Return, mqVars, LaunchOwns, IInv
  <2>13. CASE EndTake(w)
    BY <2>13, FlagEndTake
  <2>14. CASE PushBack(w)
    BY <2>14, FlagPushBack
  <2>15. CASE EndKeep(w)
    <3>1. cmd' = cmd /\ \A u \in Threads : disp'[u].q = disp[u].q /\ disp'[u].nq =
       disp[u].nq
      BY <2>15, NullAssumption DEF EndKeep, Top, DispAt, mqVars, Threads, IInv, TypeOK,
         FrameInv, DispFrame, Null
    <3> QED BY <2>15, <3>1, OwnedSame DEF EndKeep, mqVars, LaunchOwns, IInv
  <2> QED BY <1>7, <2>1, <2>2, <2>3, <2>4, <2>5, <2>6, <2>7, <2>8, <2>9, <2>10, <2>11,
     <2>12, <2>13, <2>14, <2>15 DEF DispStep
<1>8. CASE UNCHANGED vars
  BY <1>8, OwnedSame DEF vars, IInv, LaunchOwns
<1> QED BY <1>1, <1>2, <1>3, <1>4, <1>5, <1>6, <1>7, <1>8 DEF Next

-----------------------------------------------------------------------------
(* The life of contexts. *)

\* No reference changes hands.
LEMMA CountSame ==
  ASSUME RefExact, slot' = slot, ref' = ref,
         \A s \in Services : /\ OpHolders(s)' = OpHolders(s)
                             /\ DispHolders(s)' = DispHolders(s)
                             /\ CmdHolders(s)' = CmdHolders(s)
  PROVE  RefExact'
  BY DEF RefExact, RefCount, SlotCount

\* A set grows by one element.
LEMMA CardIn ==
  ASSUME NEW S, IsFiniteSet(S), NEW x, x \notin S
  PROVE  Cardinality(S \cup {x}) = Cardinality(S) + 1
  BY FS_AddElement

\* A set shrinks by one.
LEMMA CardOut ==
  ASSUME NEW S, IsFiniteSet(S), NEW x \in S
  PROVE  Cardinality(S \ {x}) = Cardinality(S) - 1
  BY FS_RemoveElement

\* A reference passes from a dispatch or a launch to the release that ends it.
LEMMA Transfer ==
  ASSUME RefExact, ref' = ref, slot' = slot, NEW s \in Services, NEW t \in Threads,
         t \notin OpHolders(s),
         \A r \in Services : OpHolders(r)' = IF r = s THEN OpHolders(r) \cup {t} ELSE OpHolders(r),
         \/ /\ t \in DispHolders(s)
            /\ \A r \in Services : DispHolders(r)' = IF r = s THEN DispHolders(r) \ {t} ELSE DispHolders(r)
            /\ \A r \in Services : CmdHolders(r)' = CmdHolders(r)
         \/ /\ t \in CmdHolders(s)
            /\ \A r \in Services : CmdHolders(r)' = IF r = s THEN CmdHolders(r) \ {t} ELSE CmdHolders(r)
            /\ \A r \in Services : DispHolders(r)' = DispHolders(r)
  PROVE  RefExact'
<1>1. SUFFICES ASSUME NEW r \in Services PROVE (ref[r] = RefCount(r))'
  BY DEF RefExact
<1>2. ref[r] = RefCount(r) BY DEF RefExact
<1>3. CASE r # s
  BY <1>2, <1>3 DEF RefCount, SlotCount
<1>4. CASE r = s
  <2>1. Cardinality(OpHolders(s))' = Cardinality(OpHolders(s)) + 1
    BY HoldersFinite, CardIn
  <2>2. \/ /\ Cardinality(DispHolders(s))' = Cardinality(DispHolders(s)) - 1
           /\ Cardinality(CmdHolders(s))' = Cardinality(CmdHolders(s))
        \/ /\ Cardinality(CmdHolders(s))' = Cardinality(CmdHolders(s)) - 1
           /\ Cardinality(DispHolders(s))' = Cardinality(DispHolders(s))
    BY HoldersFinite, CardOut
  <2>3. SlotCount(s)' = SlotCount(s) /\ ref'[s] = ref[s] BY DEF SlotCount
  <2>4. /\ Cardinality(OpHolders(s)) \in Nat /\ Cardinality(DispHolders(s)) \in Nat
        /\ Cardinality(CmdHolders(s)) \in Nat /\ SlotCount(s) \in Nat
    BY HoldersFinite
  <2>5. ref'[s] = SlotCount(s)' + Cardinality(OpHolders(s))' + Cardinality(DispHolders(s))' + Cardinality(CmdHolders(s))'
    BY <1>2, <1>4, <2>1, <2>2, <2>3, <2>4 DEF RefCount
  <2> QED BY <1>4, <2>5 DEF RefCount
<1> QED BY <1>3, <1>4

\* A send takes a reference of its own, or the one of the handle storage; a
\* release gives one back.
LEMMA CountOp ==
  ASSUME RefExact, TypeOK, NEW s \in Services, NEW t \in Threads,
         \A r \in Services : DispHolders(r)' = DispHolders(r) /\ CmdHolders(r)' = CmdHolders(r),
         \/ /\ t \notin OpHolders(s)
            /\ \A r \in Services : OpHolders(r)' = IF r = s THEN OpHolders(r) \cup {t} ELSE OpHolders(r)
            /\ \/ ref' = [ref EXCEPT ![s] = @ + 1] /\ slot' = slot
               \/ ref' = ref /\ slot[s] /\ slot' = [slot EXCEPT ![s] = FALSE]
         \/ /\ t \in OpHolders(s)
            /\ \A r \in Services : OpHolders(r)' = IF r = s THEN OpHolders(r) \ {t} ELSE OpHolders(r)
            /\ ref' = [ref EXCEPT ![s] = @ - 1] /\ slot' = slot
  PROVE  RefExact'
<1>1. SUFFICES ASSUME NEW r \in Services PROVE (ref[r] = RefCount(r))'
  BY DEF RefExact
<1>2. ref[r] = RefCount(r) BY DEF RefExact
<1>3. CASE r # s
  BY <1>2, <1>3 DEF RefCount, SlotCount, TypeOK
<1>4. CASE r = s
  <2>1. /\ Cardinality(OpHolders(s)) \in Nat /\ Cardinality(DispHolders(s)) \in Nat
        /\ Cardinality(CmdHolders(s)) \in Nat /\ SlotCount(s) \in Nat
    BY HoldersFinite
  <2>2. \/ /\ Cardinality(OpHolders(s))' = Cardinality(OpHolders(s)) + 1
           /\ \/ ref'[s] = ref[s] + 1 /\ SlotCount(s)' = SlotCount(s)
              \/ ref'[s] = ref[s] /\ SlotCount(s)' = SlotCount(s) - 1
        \/ /\ Cardinality(OpHolders(s))' = Cardinality(OpHolders(s)) - 1
           /\ ref'[s] = ref[s] - 1 /\ SlotCount(s)' = SlotCount(s)
    BY HoldersFinite, CardIn, CardOut DEF SlotCount, TypeOK
  <2>3. /\ Cardinality(DispHolders(s))' = Cardinality(DispHolders(s))
        /\ Cardinality(CmdHolders(s))' = Cardinality(CmdHolders(s))
    OBVIOUS
  <2>4. ref'[s] = SlotCount(s)' + Cardinality(OpHolders(s))' + Cardinality(DispHolders(s))' + Cardinality(CmdHolders(s))'
    BY <1>2, <1>4, <2>1, <2>2, <2>3 DEF RefCount
  <2> QED BY <1>4, <2>4 DEF RefCount
<1> QED BY <1>3, <1>4

\* A worker takes a reference.
LEMMA CountGrab ==
  ASSUME RefExact, TypeOK, NEW s \in Services, NEW w \in Threads,
         \A r \in Services : OpHolders(r)' = OpHolders(r) /\ CmdHolders(r)' = CmdHolders(r),
         w \notin DispHolders(s),
         \A r \in Services : DispHolders(r)' = IF r = s THEN DispHolders(r) \cup {w} ELSE DispHolders(r),
         ref' = [ref EXCEPT ![s] = @ + 1], slot' = slot
  PROVE  RefExact'
<1>1. SUFFICES ASSUME NEW r \in Services PROVE (ref[r] = RefCount(r))'
  BY DEF RefExact
<1>2. ref[r] = RefCount(r) BY DEF RefExact
<1>3. CASE r # s
  BY <1>2, <1>3 DEF RefCount, SlotCount, TypeOK
<1>4. CASE r = s
  <2>1. /\ Cardinality(OpHolders(s)) \in Nat /\ Cardinality(DispHolders(s)) \in Nat
        /\ Cardinality(CmdHolders(s)) \in Nat /\ SlotCount(s) \in Nat
    BY HoldersFinite
  <2>2. Cardinality(DispHolders(s))' = Cardinality(DispHolders(s)) + 1
    BY HoldersFinite, CardIn
  <2>3. /\ Cardinality(OpHolders(s))' = Cardinality(OpHolders(s))
        /\ Cardinality(CmdHolders(s))' = Cardinality(CmdHolders(s))
    OBVIOUS
  <2>4. SlotCount(s)' = SlotCount(s) /\ ref'[s] = ref[s] + 1
    BY DEF SlotCount, TypeOK
  <2>5. ref'[s] = SlotCount(s)' + Cardinality(OpHolders(s))' + Cardinality(DispHolders(s))' + Cardinality(CmdHolders(s))'
    BY <1>2, <1>4, <2>1, <2>2, <2>3, <2>4 DEF RefCount
  <2> QED BY <1>4, <2>5 DEF RefCount
<1> QED BY <1>3, <1>4

\* The launcher's reference passes to the release that follows init.
LEMMA CountInit ==
  ASSUME IInv, NEW t \in Threads, InitOK(t) \/ InitFail(t)
  PROVE  RefExact'
<1> DEFINE s == cmd[t].svc
<1>1. s \in Services /\ op[t].svc = NoService /\ cmd[t].pc = "init"
  BY DEF InitOK, InitFail, IInv, TypeOK, FrameInv, CmdFrame, Null
<1>2. /\ disp' = disp /\ ref' = ref /\ slot' = slot
      /\ op' = [op EXCEPT ![t] = ReleaseOp(s)]
      /\ \E pc \in {"setinit", "retire"} : cmd' = [cmd EXCEPT ![t] = CmdTo(@, pc)]
  BY DEF InitOK, InitFail
<1>3. /\ t \notin OpHolders(s) /\ t \in CmdHolders(s)
      /\ \A r \in Services : DispHolders(r)' = DispHolders(r)
  BY <1>1, <1>2, NullAssumption DEF OpHolders, CmdHolders, DispHolders
<1>4. \A r \in Services : OpHolders(r)' = IF r = s THEN OpHolders(r) \cup {t} ELSE OpHolders(r)
  BY <1>1, <1>2, NullAssumption DEF OpHolders, ReleaseOp, IInv, TypeOK
<1>5. \A r \in Services : CmdHolders(r)' = IF r = s THEN CmdHolders(r) \ {t} ELSE CmdHolders(r)
  BY <1>1, <1>2 DEF CmdHolders, CmdTo, IInv, TypeOK
<1> QED BY <1>1, <1>2, <1>3, <1>4, <1>5, Transfer DEF IInv


\* The dispatching worker's passes to the release that ends the dispatch.
LEMMA CountDone ==
  ASSUME IInv, NEW w \in Workers, PopEmpty(w) \/ PushBack(w) \/ EndKeep(w)
  PROVE  RefExact'
<1> DEFINE s == disp[w].q
<1>1. /\ w \in Threads /\ s \in Services /\ op[w].svc = NoService /\ disp[w].pc \in DispRef
  BY DEF PopEmpty, PushBack, EndKeep, Top, IInv, TypeOK, FrameInv, DispFrame, Null,
     Threads, DispRef
<1>2. /\ cmd' = cmd /\ ref' = ref /\ slot' = slot
      /\ op' = [op EXCEPT ![w] = ReleaseOp(s)]
      /\ \E pc \in {"next", "grab"}, q \in Null : disp' = [disp EXCEPT ![w] = DispAt(pc, q)]
  BY <1>1 DEF PopEmpty, PushBack, EndKeep, IInv, TypeOK, DispFrame, Null
<1>3. /\ w \notin OpHolders(s) /\ w \in DispHolders(s)
      /\ \A r \in Services : CmdHolders(r)' = CmdHolders(r)
  BY <1>1, <1>2, NullAssumption DEF OpHolders, CmdHolders, DispHolders
<1>4. \A r \in Services : OpHolders(r)' = IF r = s THEN OpHolders(r) \cup {w} ELSE OpHolders(r)
  BY <1>1, <1>2, NullAssumption DEF OpHolders, ReleaseOp, IInv, TypeOK
<1>5. \A r \in Services : DispHolders(r)' = IF r = s THEN DispHolders(r) \ {w} ELSE DispHolders(r)
  BY <1>1, <1>2 DEF DispHolders, DispAt, DispRef, IInv, TypeOK
<1> QED BY <1>1, <1>2, <1>3, <1>4, <1>5, Transfer DEF IInv


\* skynet_context_push takes a reference before it touches the context.
LEMMA CountPushGrab ==
  ASSUME IInv, NEW t \in Threads, PushGrab(t)
  PROVE  RefExact'
<1> DEFINE s == op[t].svc
<1>1. s \in Services BY DEF PushGrab, IInv, TypeOK, FrameInv, OpFrame, Null
<1>2. \A r \in Services : DispHolders(r)' = DispHolders(r) /\ CmdHolders(r)' = CmdHolders(r)
  BY DEF PushGrab, DispHolders, CmdHolders
<1>3. t \notin OpHolders(s) BY DEF PushGrab, OpHolders
<1>4. \A r \in Services : OpHolders(r)' = IF r = s THEN OpHolders(r) \cup {t} ELSE OpHolders(r)
  BY DEF PushGrab, OpHolders, OpTo, IInv, TypeOK
<1>5. ref' = [ref EXCEPT ![s] = @ + 1] /\ slot' = slot BY DEF PushGrab
<1> QED BY <1>1, <1>2, <1>3, <1>4, <1>5, CountOp DEF IInv


\* skynet_context_release gives one back.
LEMMA CountRelease ==
  ASSUME IInv, NEW t \in Threads, Release(t)
  PROVE  RefExact'
<1> DEFINE s == op[t].svc
<1>1. s \in Services BY DEF Release, IInv, TypeOK, FrameInv, OpFrame, Null
<1>2. \A r \in Services : DispHolders(r)' = DispHolders(r) /\ CmdHolders(r)' = CmdHolders(r)
  BY DEF Release, DispHolders, CmdHolders
<1>3. t \in OpHolders(s) BY DEF Release, OpHolders
<1>4. \A r \in Services : OpHolders(r)' = IF r = s THEN OpHolders(r) \ {t} ELSE OpHolders(r)
  BY DEF Release, OpHolders, OpTo, AfterSend, IdleOp, RetireOp, IInv, TypeOK
<1>5. ref' = [ref EXCEPT ![s] = @ - 1] /\ slot' = slot BY DEF Release
<1> QED BY <1>1, <1>2, <1>3, <1>4, <1>5, CountOp DEF IInv


\* skynet_handle_retire releases the reference of the handle storage.
LEMMA CountRetire ==
  ASSUME IInv, NEW t \in Threads, Retire(t)
  PROVE  RefExact'
<1> DEFINE s == op[t].svc
<1>1. s \in Services BY DEF Retire, IInv, TypeOK, FrameInv, OpFrame, Null
<1>2. \A r \in Services : DispHolders(r)' = DispHolders(r) /\ CmdHolders(r)' = CmdHolders(r)
  BY DEF Retire, Scan, DispHolders, CmdHolders, IInv, TypeOK
<1>3. t \notin OpHolders(s) BY DEF Retire, OpHolders
<1>4. \A r \in Services : OpHolders(r)' = IF r = s THEN OpHolders(r) \cup {t} ELSE OpHolders(r)
  BY DEF Retire, OpHolders, ReleaseOp, IInv, TypeOK
<1>5. ref' = ref /\ slot[s] /\ slot' = [slot EXCEPT ![s] = FALSE] BY DEF Retire
<1> QED BY <1>1, <1>2, <1>3, <1>4, <1>5, CountOp DEF IInv


\* skynet_context_message_dispatch takes one, if the handle is still mapped.
LEMMA CountDispGrab ==
  ASSUME IInv, NEW w \in Workers, Grab(w)
  PROVE  RefExact'
<1> DEFINE s == disp[w].q
<1>1. w \in Threads /\ s \in Services /\ cmd' = cmd /\ op' = op /\ slot' = slot
  BY DEF Grab, Top, IInv, TypeOK, FrameInv, DispFrame, Null, Threads
<1>2. \A r \in Services : OpHolders(r)' = OpHolders(r) /\ CmdHolders(r)' = CmdHolders(r)
  BY <1>1 DEF OpHolders, CmdHolders
<1>3. CASE ~slot[s]
  <2>1. ref' = ref BY <1>3, <1>1 DEF Grab, IInv, TypeOK
  <2>2. \A r \in Services : DispHolders(r)' = DispHolders(r)
    BY <1>1, <1>3 DEF Grab, Top, DispTo, DispHolders, DispRef, IInv, TypeOK
  <2> QED BY <1>1, <1>2, <2>1, <2>2, CountSame DEF IInv
<1>4. CASE slot[s]
  <2>1. ref' = [ref EXCEPT ![s] = @ + 1] BY <1>4 DEF Grab
  <2>2. w \notin DispHolders(s) BY DEF Grab, Top, DispHolders, DispRef
  <2>3. \A r \in Services : DispHolders(r)' = IF r = s THEN DispHolders(r) \cup {w} ELSE DispHolders(r)
    BY <1>1, <1>4 DEF Grab, Top, DispAt, DispHolders, DispRef, IInv, TypeOK
  <2> QED BY <1>1, <1>2, <2>1, <2>2, <2>3, CountGrab DEF IInv
<1> QED BY <1>3, <1>4


\* skynet_context_new starts with two.
LEMMA CountLaunch ==
  ASSUME IInv, NEW t \in Threads, Launch(t)
  PROVE  RefExact'
<1>1. PICK s \in Services : /\ ctx[s] = "none"
        /\ ref' = [ref EXCEPT ![s] = 2] /\ slot' = [slot EXCEPT ![s] = TRUE]
        /\ cmd' = [cmd EXCEPT ![t] = [pc |-> "mq", svc |-> s, scan |-> {}, hit |-> FALSE]]
  BY DEF Launch
<1>2. /\ disp' = disp /\ op' = op /\ cmd[t].svc = NoService
  BY DEF Launch, IInv, FrameInv
<1>3. ref[s] = 0 BY <1>1 DEF IInv, LifeInv
<1>4. ~slot[s] /\ OpHolders(s) = {} /\ DispHolders(s) = {} /\ CmdHolders(s) = {}
  BY <1>3, RefPositive DEF IInv
<1>5. \A r \in Services : OpHolders(r)' = OpHolders(r) /\ DispHolders(r)' = DispHolders(r)
  BY <1>2 DEF OpHolders, DispHolders
<1>6. \A r \in Services : CmdHolders(r)' = IF r = s THEN {t} ELSE CmdHolders(r)
  BY <1>1, <1>2, <1>4, NullAssumption DEF CmdHolders, IInv, TypeOK
<1>7. SUFFICES ASSUME NEW r \in Services PROVE (ref[r] = RefCount(r))'
  BY DEF RefExact
<1>8. CASE r # s
  BY <1>1, <1>5, <1>6, <1>8 DEF RefCount, SlotCount, IInv, TypeOK, RefExact
<1>9. CASE r = s
  <2>1. /\ Cardinality(OpHolders(s))' = 0 /\ Cardinality(DispHolders(s))' = 0
        /\ Cardinality(CmdHolders(s))' = 1
    BY <1>4, <1>5, <1>6, FS_EmptySet, FS_Singleton
  <2>2. SlotCount(s)' = 1 /\ ref'[s] = 2
    BY <1>1 DEF SlotCount, IInv, TypeOK
  <2>3. ref'[s] = SlotCount(s)' + Cardinality(OpHolders(s))' + Cardinality(DispHolders(s))' + Cardinality(CmdHolders(s))'
    BY <2>1, <2>2
  <2> QED BY <1>9, <2>3 DEF RefCount
<1> QED BY <1>8, <1>9


\* Dropping a message starts a send, which holds no reference yet.
LEMMA CountLaunchDrop ==
  ASSUME IInv, NEW t \in Threads, LaunchDrop(t)
  PROVE  RefExact'
<1>1. cmd[t].svc \in Services /\ queue[cmd[t].svc] \in Seq(Message) /\ queue[cmd[t].svc] # <<>>
  BY DEF LaunchDrop, mq_pop, IInv, TypeOK, MQTypeOK, FrameInv, CmdFrame, Null
<1>2. op' = [op EXCEPT ![t] = DropOp(cmd[t].svc, Head(queue[cmd[t].svc]))]
  BY DEF LaunchDrop
<1>3. op'[t].pc \in {"idle", "grab"}
  BY <1>1, <1>2, DropOpShape, TailElems DEF IInv, TypeOK
<1>4. \A s \in Services : /\ OpHolders(s)' = OpHolders(s) /\ DispHolders(s)' = DispHolders(s) /\ CmdHolders(s)' = CmdHolders(s)
  BY <1>2, <1>3 DEF LaunchDrop, OpHolders, DispHolders, CmdHolders, IInv, TypeOK
<1> QED BY <1>4, CountSame DEF LaunchDrop, IInv


\* The same, by a worker.
LEMMA CountDrop ==
  ASSUME IInv, NEW w \in Workers, Drop(w)
  PROVE  RefExact'
<1>1. w \in Threads /\ disp[w].q \in Services /\ queue[disp[w].q] \in Seq(Message) /\ queue[disp[w].q] # <<>>
  BY DEF Drop, Top, mq_pop, IInv, TypeOK, MQTypeOK, FrameInv, DispFrame, Null, Threads
<1>2. op' = [op EXCEPT ![w] = DropOp(disp[w].q, Head(queue[disp[w].q]))]
  BY DEF Drop
<1>3. op'[w].pc \in {"idle", "grab"}
  BY <1>1, <1>2, DropOpShape, TailElems DEF IInv, TypeOK
<1>4. \A s \in Services : /\ OpHolders(s)' = OpHolders(s) /\ DispHolders(s)' = DispHolders(s) /\ CmdHolders(s)' = CmdHolders(s)
  BY <1>2, <1>3 DEF Drop, Top, OpHolders, DispHolders, CmdHolders, IInv, TypeOK
<1> QED BY <1>4, CountSame DEF Drop, IInv


\* Every step that changes a count takes or gives back one reference.
LEMMA RefStep ==
  ASSUME IInv, [Next]_vars
  PROVE  RefExact'
<1>1. ASSUME NEW t \in Threads, OpStep(t) PROVE RefExact'
  <2>1. CASE PushGrab(t)
    BY <2>1, CountPushGrab
  <2>2. CASE PushRefused(t)
    <3>1. \A s \in Services : /\ OpHolders(s)' = OpHolders(s)
                            /\ DispHolders(s)' = DispHolders(s)
                            /\ CmdHolders(s)' = CmdHolders(s)
      BY <2>2, NullAssumption DEF PushRefused, AfterSend, IdleOp, RetireOp, OpHolders,
         DispHolders, CmdHolders, DispRef, IInv, TypeOK, FrameInv
    <3> QED BY <2>2, <3>1, CountSame DEF PushRefused, IInv
  <2>3. CASE Push(t)
    <3>1. \A s \in Services : /\ OpHolders(s)' = OpHolders(s)
                            /\ DispHolders(s)' = DispHolders(s)
                            /\ CmdHolders(s)' = CmdHolders(s)
      BY <2>3, NullAssumption DEF Push, OpTo, OpHolders, DispHolders, CmdHolders, DispRef,
         IInv, TypeOK, FrameInv
    <3> QED BY <2>3, <3>1, CountSame DEF Push, IInv
  <2>4. CASE Release(t)
    BY <2>4, CountRelease
  <2>5. CASE Delete(t)
    <3>1. \A s \in Services : /\ OpHolders(s)' = OpHolders(s)
                            /\ DispHolders(s)' = DispHolders(s)
                            /\ CmdHolders(s)' = CmdHolders(s)
      BY <2>5, NullAssumption DEF Delete, AfterSend, IdleOp, RetireOp, CmdTo, OpHolders,
         DispHolders, CmdHolders, DispRef, IInv, TypeOK, FrameInv
    <3> QED BY <2>5, <3>1, CountSame DEF Delete, IInv
  <2>6. CASE Retire(t)
    BY <2>6, CountRetire
  <2>7. CASE RetireNothing(t)
    <3>1. \A s \in Services : /\ OpHolders(s)' = OpHolders(s)
                            /\ DispHolders(s)' = DispHolders(s)
                            /\ CmdHolders(s)' = CmdHolders(s)
      BY <2>7, NullAssumption DEF RetireNothing, IdleOp, OpHolders, DispHolders,
         CmdHolders, DispRef, IInv, TypeOK, FrameInv
    <3> QED BY <2>7, <3>1, CountSame DEF RetireNothing, IInv
  <2> QED BY <1>1, <2>1, <2>2, <2>3, <2>4, <2>5, <2>6, <2>7 DEF OpStep
<1>2. ASSUME NEW t \in Threads, CmdStep(t) PROVE RefExact'
  <2>1. CASE CreateQueue(t)
    <3>1. \A s \in Services : /\ OpHolders(s)' = OpHolders(s)
                            /\ DispHolders(s)' = DispHolders(s)
                            /\ CmdHolders(s)' = CmdHolders(s)
      BY <2>1, NullAssumption DEF CreateQueue, CmdTo, OpHolders, DispHolders, CmdHolders,
         DispRef, IInv, TypeOK, FrameInv
    <3> QED BY <2>1, <3>1, CountSame DEF CreateQueue, IInv
  <2>2. CASE InitOK(t)
    BY <2>2, CountInit
  <2>3. CASE SetInit(t)
    <3>1. \A s \in Services : /\ OpHolders(s)' = OpHolders(s)
                            /\ DispHolders(s)' = DispHolders(s)
                            /\ CmdHolders(s)' = CmdHolders(s)
      BY <2>3, NullAssumption DEF SetInit, CmdTo, OpHolders, DispHolders, CmdHolders,
         DispRef, IInv, TypeOK, FrameInv
    <3> QED BY <2>3, <3>1, CountSame DEF SetInit, IInv
  <2>4. CASE LaunchPush(t)
    <3>1. \A s \in Services : /\ OpHolders(s)' = OpHolders(s)
                            /\ DispHolders(s)' = DispHolders(s)
                            /\ CmdHolders(s)' = CmdHolders(s)
      BY <2>4, NullAssumption DEF LaunchPush, IdleCmd, OpHolders, DispHolders, CmdHolders,
         DispRef, IInv, TypeOK, FrameInv
    <3> QED BY <2>4, <3>1, CountSame DEF LaunchPush, IInv
  <2>5. CASE InitFail(t)
    BY <2>5, CountInit
  <2>6. CASE LaunchRetire(t)
    <3>1. \A s \in Services : /\ OpHolders(s)' = OpHolders(s)
                            /\ DispHolders(s)' = DispHolders(s)
                            /\ CmdHolders(s)' = CmdHolders(s)
      BY <2>6, NullAssumption DEF LaunchRetire, RetireOp, CmdTo, OpHolders, DispHolders,
         CmdHolders, DispRef, IInv, TypeOK, FrameInv
    <3> QED BY <2>6, <3>1, CountSame DEF LaunchRetire, IInv
  <2>7. CASE LaunchMqRelease(t)
    <3>1. \A s \in Services : /\ OpHolders(s)' = OpHolders(s)
                            /\ DispHolders(s)' = DispHolders(s)
                            /\ CmdHolders(s)' = CmdHolders(s)
      BY <2>7, NullAssumption DEF LaunchMqRelease, CmdTo, IdleCmd, OpHolders, DispHolders,
         CmdHolders, DispRef, IInv, TypeOK, FrameInv
    <3> QED BY <2>7, <3>1, CountSame DEF LaunchMqRelease, IInv
  <2>8. CASE LaunchDrop(t)
    BY <2>8, CountLaunchDrop
  <2>9. CASE LaunchDropDone(t)
    <3>1. \A s \in Services : /\ OpHolders(s)' = OpHolders(s)
                            /\ DispHolders(s)' = DispHolders(s)
                            /\ CmdHolders(s)' = CmdHolders(s)
      BY <2>9, NullAssumption DEF LaunchDropDone, IdleCmd, OpHolders, DispHolders,
         CmdHolders, DispRef, IInv, TypeOK, FrameInv
    <3> QED BY <2>9, <3>1, CountSame DEF LaunchDropDone, IInv
  <2>10. CASE AbortSlot(t)
    <3>1. \A s \in Services : /\ OpHolders(s)' = OpHolders(s)
                            /\ DispHolders(s)' = DispHolders(s)
                            /\ CmdHolders(s)' = CmdHolders(s)
      BY <2>10, NullAssumption DEF AbortSlot, Scan, RetireOp, OpHolders, DispHolders,
         CmdHolders, DispRef, IInv, TypeOK, FrameInv
    <3> QED BY <2>10, <3>1, CountSame DEF AbortSlot, IInv
  <2>11. CASE AbortPass(t)
    <3>1. \A s \in Services : /\ OpHolders(s)' = OpHolders(s)
                            /\ DispHolders(s)' = DispHolders(s)
                            /\ CmdHolders(s)' = CmdHolders(s)
      BY <2>11, NullAssumption DEF AbortPass, Scan, IdleCmd, OpHolders, DispHolders,
         CmdHolders, DispRef, IInv, TypeOK, FrameInv
    <3> QED BY <2>11, <3>1, CountSame DEF AbortPass, IInv
  <2> QED BY <1>2, <2>1, <2>2, <2>3, <2>4, <2>5, <2>6, <2>7, <2>8, <2>9, <2>10, <2>11
     DEF CmdStep
<1>3. ASSUME NEW t \in Threads, Send(t) PROVE RefExact'
  <2>1. \A s \in Services : /\ OpHolders(s)' = OpHolders(s)
                          /\ DispHolders(s)' = DispHolders(s)
                          /\ CmdHolders(s)' = CmdHolders(s)
    BY <1>3, NullAssumption DEF Send, SendOp, Running, OpHolders, DispHolders,
         CmdHolders, DispRef, IInv, TypeOK, FrameInv
  <2> QED BY <1>3, <2>1, CountSame DEF Send, IInv
<1>4. ASSUME NEW t \in Threads, Kill(t) PROVE RefExact'
  <2>1. \A s \in Services : /\ OpHolders(s)' = OpHolders(s)
                          /\ DispHolders(s)' = DispHolders(s)
                          /\ CmdHolders(s)' = CmdHolders(s)
    BY <1>4, NullAssumption DEF Kill, SendOp, RetireOp, Running, OpHolders, DispHolders,
         CmdHolders, DispRef, IInv, TypeOK, FrameInv
  <2> QED BY <1>4, <2>1, CountSame DEF Kill, IInv
<1>5. ASSUME NEW t \in Threads, Launch(t) PROVE RefExact'
  BY <1>5, CountLaunch
<1>6. ASSUME NEW t \in Threads, Abort(t) PROVE RefExact'
  <2>1. \A s \in Services : /\ OpHolders(s)' = OpHolders(s)
                          /\ DispHolders(s)' = DispHolders(s)
                          /\ CmdHolders(s)' = CmdHolders(s)
    BY <1>6, NullAssumption DEF Abort, Running, Scan, OpHolders, DispHolders, CmdHolders,
         DispRef, IInv, TypeOK, FrameInv
  <2> QED BY <1>6, <2>1, CountSame DEF Abort, IInv
<1>7. ASSUME NEW w \in Workers, DispStep(w) PROVE RefExact'
  <2>1. CASE TakeQueue(w)
    <3>1. \A s \in Services : /\ OpHolders(s)' = OpHolders(s)
                            /\ DispHolders(s)' = DispHolders(s)
                            /\ CmdHolders(s)' = CmdHolders(s)
      BY <2>1, NullAssumption DEF TakeQueue, Top, DispAt, OpHolders, DispHolders,
         CmdHolders, DispRef, IInv, TypeOK, FrameInv
    <3> QED BY <2>1, <3>1, CountSame DEF TakeQueue, IInv
  <2>2. CASE TakeNothing(w)
    <3>1. \A s \in Services : /\ OpHolders(s)' = OpHolders(s)
                            /\ DispHolders(s)' = DispHolders(s)
                            /\ CmdHolders(s)' = CmdHolders(s)
      BY <2>2, NullAssumption DEF TakeNothing, Top, DispAt, OpHolders, DispHolders,
         CmdHolders, DispRef, IInv, TypeOK, FrameInv
    <3> QED BY <2>2, <3>1, CountSame DEF TakeNothing, IInv
  <2>3. CASE Grab(w)
    BY <2>3, CountDispGrab
  <2>4. CASE MqRelease(w)
    <3>1. \A s \in Services : /\ OpHolders(s)' = OpHolders(s)
                            /\ DispHolders(s)' = DispHolders(s)
                            /\ CmdHolders(s)' = CmdHolders(s)
      BY <2>4, NullAssumption DEF MqRelease, Top, DispAt, DispTo, OpHolders, DispHolders,
         CmdHolders, DispRef, IInv, TypeOK, FrameInv
    <3> QED BY <2>4, <3>1, CountSame DEF MqRelease, IInv
  <2>5. CASE Drop(w)
    BY <2>5, CountDrop
  <2>6. CASE DropDone(w)
    <3>1. \A s \in Services : /\ OpHolders(s)' = OpHolders(s)
                            /\ DispHolders(s)' = DispHolders(s)
                            /\ CmdHolders(s)' = CmdHolders(s)
      BY <2>6, NullAssumption DEF DropDone, Top, DispAt, OpHolders, DispHolders,
         CmdHolders, DispRef, IInv, TypeOK, FrameInv
    <3> QED BY <2>6, <3>1, CountSame DEF DropDone, IInv
  <2>7. CASE Pop(w)
    <3>1. \A s \in Services : /\ OpHolders(s)' = OpHolders(s)
                            /\ DispHolders(s)' = DispHolders(s)
                            /\ CmdHolders(s)' = CmdHolders(s)
      BY <2>7, NullAssumption DEF Pop, Top, OpHolders, DispHolders, CmdHolders, DispRef,
         IInv, TypeOK, FrameInv
    <3> QED BY <2>7, <3>1, CountSame DEF Pop, IInv
  <2>8. CASE PopEmpty(w)
    BY <2>8, CountDone
  <2>9. CASE Length(w)
    <3>1. \A s \in Services : /\ OpHolders(s)' = OpHolders(s)
                            /\ DispHolders(s)' = DispHolders(s)
                            /\ CmdHolders(s)' = CmdHolders(s)
      BY <2>9, NullAssumption DEF Length, Top, OpHolders, DispHolders, CmdHolders, DispRef,
         IInv, TypeOK, FrameInv
    <3> QED BY <2>9, <3>1, CountSame DEF Length, IInv
  <2>10. CASE Call(w)
    <3>1. \A s \in Services : /\ OpHolders(s)' = OpHolders(s)
                            /\ DispHolders(s)' = DispHolders(s)
                            /\ CmdHolders(s)' = CmdHolders(s)
      BY <2>10, NullAssumption DEF Call, Top, DispTo, OpHolders, DispHolders, CmdHolders,
         DispRef, IInv, TypeOK, FrameInv
    <3> QED BY <2>10, <3>1, CountSame DEF Call, IInv
  <2>11. CASE Discard(w)
    <3>1. \A s \in Services : /\ OpHolders(s)' = OpHolders(s)
                            /\ DispHolders(s)' = DispHolders(s)
                            /\ CmdHolders(s)' = CmdHolders(s)
      BY <2>11, NullAssumption DEF Discard, Top, Next_i, OpHolders, DispHolders,
         CmdHolders, DispRef, IInv, TypeOK, FrameInv
    <3> QED BY <2>11, <3>1, CountSame DEF Discard, IInv
  <2>12. CASE Return(w)
    <3>1. \A s \in Services : /\ OpHolders(s)' = OpHolders(s)
                            /\ DispHolders(s)' = DispHolders(s)
                            /\ CmdHolders(s)' = CmdHolders(s)
      BY <2>12, NullAssumption DEF Return, Top, Next_i, OpHolders, DispHolders, CmdHolders,
         DispRef, IInv, TypeOK, FrameInv
    <3> QED BY <2>12, <3>1, CountSame DEF Return, IInv
  <2>13. CASE EndTake(w)
    <3>1. \A s \in Services : /\ OpHolders(s)' = OpHolders(s)
                            /\ DispHolders(s)' = DispHolders(s)
                            /\ CmdHolders(s)' = CmdHolders(s)
      BY <2>13, NullAssumption DEF EndTake, Top, OpHolders, DispHolders, CmdHolders,
         DispRef, IInv, TypeOK, FrameInv
    <3> QED BY <2>13, <3>1, CountSame DEF EndTake, IInv
  <2>14. CASE PushBack(w)
    BY <2>14, CountDone
  <2>15. CASE EndKeep(w)
    BY <2>15, CountDone
  <2> QED BY <1>7, <2>1, <2>2, <2>3, <2>4, <2>5, <2>6, <2>7, <2>8, <2>9, <2>10, <2>11,
     <2>12, <2>13, <2>14, <2>15 DEF DispStep
<1>8. CASE UNCHANGED vars
  BY <1>8, CountSame DEF vars, IInv, OpHolders, DispHolders, CmdHolders
<1> QED BY <1>1, <1>2, <1>3, <1>4, <1>5, <1>6, <1>7, <1>8 DEF Next

\* A grabbed context is mapped, hence live.
LEMMA LifePushGrab ==
  ASSUME IInv, NEW t \in Threads, PushGrab(t)
  PROVE  LifeInv'
<1> DEFINE s == op[t].svc
<1>1. s \in Services /\ slot[s] BY DEF PushGrab, IInv, TypeOK, FrameInv, OpFrame, Null
<1>2. ref[s] > 0 /\ ref[s] \in Nat BY <1>1, RefPositive DEF IInv
<1>3. ctx[s] = "live" BY <1>1, <1>2 DEF IInv, LifeInv
<1>4. \A r \in Services : ref'[r] # 0 => ref[r] # 0
  BY <1>2 DEF PushGrab, IInv, TypeOK
<1>5. \A u \in Threads : op'[u].pc = "del" => op[u] = op'[u] /\ op'[u].svc # s /\ ref'[op'[u].svc] = ref[op'[u].svc]
  BY <1>2 DEF PushGrab, OpTo, IInv, TypeOK, LifeInv, OpFrame, Null
<1> QED BY <1>4, <1>5 DEF PushGrab, mqVars, IInv, LifeInv


\* A push sets in_global of a queue that exists.
LEMMA LifePush ==
  ASSUME IInv, NEW t \in Threads, Push(t)
  PROVE  LifeInv'
<1> DEFINE s == op[t].svc
<1>1. s \in Services /\ qmem[s] # "none"
  BY DEF Push, IInv, TypeOK, FrameInv, KnownInv, OpFrame, Null
<1>2. \A r \in Services : qmem[r] = "none" => in_global'[r] = in_global[r]
  BY <1>1 DEF Push, mq_push, IInv, TypeOK, MQTypeOK
<1>3. \A u \in Threads : op'[u].pc = "del" => op[u] = op'[u]
  BY DEF Push, OpTo, IInv, TypeOK
<1> QED BY <1>2, <1>3 DEF Push, mq_push, IInv, LifeInv


\* The last release finds the context live and nobody else deleting it.
LEMMA LifeRelease ==
  ASSUME IInv, NEW t \in Threads, Release(t)
  PROVE  LifeInv'
<1> DEFINE s == op[t].svc
<1>1. s \in Services BY DEF Release, IInv, TypeOK, FrameInv, OpFrame, Null
<1>2. ref[s] > 0 /\ ref[s] \in Nat BY <1>1, RefPositive DEF IInv, OpHolders, Release
<1>3. ctx[s] = "live" BY <1>1, <1>2 DEF IInv, LifeInv
<1>4. \A r \in Services : (ref'[r] # 0 => ref[r] # 0) /\ (r # s => ref'[r] = ref[r])
  BY <1>2 DEF Release, IInv, TypeOK
<1>5. \A u \in Threads \ {t} : op'[u] = op[u] /\ (op[u].pc = "del" => op[u].svc # s /\ op[u].svc \in Services)
  BY <1>2 DEF Release, IInv, TypeOK, LifeInv, FrameInv, OpFrame, Null
<1>6. op'[t].pc = "del" => ref[s] = 1 /\ op'[t].svc = s
  BY DEF Release, OpTo, AfterSend, IdleOp, RetireOp, IInv, TypeOK
<1>7. ref[s] = 1 => ref'[s] = 0 BY <1>1 DEF Release, IInv, TypeOK
<1>8. \A u \in Threads : op'[u].pc = "del" =>
            /\ ctx[op'[u].svc] = "live" /\ ref'[op'[u].svc] = 0
            /\ \A v \in Threads \ {u} : op'[v].pc = "del" => op'[v].svc # op'[u].svc
  BY <1>3, <1>4, <1>5, <1>6, <1>7 DEF IInv, LifeInv
<1> QED BY <1>4, <1>8 DEF Release, mqVars, IInv, LifeInv


\* delete_context marks the queue and frees the context, once.
LEMMA LifeDelete ==
  ASSUME IInv, NEW t \in Threads, Delete(t)
  PROVE  LifeInv'
<1> DEFINE s == op[t].svc
<1>1. s \in Services /\ qmem[s] # "none" /\ ref[s] = 0 /\ ctx[s] = "live"
  BY DEF Delete, IInv, TypeOK, FrameInv, KnownInv, OpFrame, Null, LifeInv
<1>2. /\ \A r \in Services \ {s} : ctx'[r] = ctx[r] /\ release'[r] = release[r]
      /\ ctx'[s] = "freed" /\ release'[s] = 1
      /\ UNCHANGED <<ref, qmem, in_global, disp>>
  BY <1>1 DEF Delete, mark_release, IInv, TypeOK, MQTypeOK
<1>3. \A u \in Threads : /\ cmd'[u].svc = cmd[u].svc
                         /\ cmd'[u].pc = "mq" <=> cmd[u].pc = "mq"
                         /\ cmd'[u].pc = "drop" => cmd[u].pc = "drop"
  BY DEF Delete, CmdTo, IInv, TypeOK
<1>4. \A u \in Threads : op'[u].pc = "del" => u # t /\ op'[u] = op[u] /\ op[u].svc # s /\ op[u].svc \in Services
  BY DEF Delete, AfterSend, IdleOp, RetireOp, IInv, TypeOK, LifeInv, FrameInv, OpFrame,
     Null
<1>5. \A r \in Services :
       /\ ref'[r] # 0 => ctx'[r] = "live"
       /\ ctx'[r] = "none" => qmem'[r] = "none"
       /\ release'[r] = 1 <=> ctx'[r] = "freed"
       /\ qmem'[r] = "none" => release'[r] = 0 /\ in_global'[r] = 0
       /\ qmem'[r] = "freed" => ctx'[r] = "freed"
  BY <1>1, <1>2 DEF IInv, LifeInv
<1>6. \A u \in Threads : cmd'[u].svc \in Services =>
            /\ ctx'[cmd'[u].svc] # "none"
            /\ cmd'[u].pc = "mq" <=> qmem'[cmd'[u].svc] = "none"
  BY <1>2, <1>3 DEF IInv, LifeInv
<1>7. \A u \in Threads : /\ cmd[u].pc = "drop" => cmd[u].svc \in Services
                         /\ disp[u].pc = "drop" => disp[u].q \in Services
  BY DEF IInv, TypeOK, FrameInv, CmdFrame, DispFrame, Null
<1>8. \A u \in Threads : /\ cmd'[u].pc = "drop" => release'[cmd'[u].svc] = 1
                         /\ disp'[u].pc = "drop" => release'[disp'[u].q] = 1
  BY <1>2, <1>3, <1>7 DEF IInv, LifeInv
<1>9. \A u \in Threads : op'[u].pc = "del" =>
            /\ ctx'[op'[u].svc] = "live" /\ ref'[op'[u].svc] = 0
            /\ \A v \in Threads \ {u} : op'[v].pc = "del" => op'[v].svc # op'[u].svc
  BY <1>2, <1>4 DEF IInv, LifeInv
<1> QED BY <1>5, <1>6, <1>8, <1>9 DEF LifeInv


\* The new queue belongs to the launch alone.
LEMMA LifeCreateQueue ==
  ASSUME IInv, NEW t \in Threads, CreateQueue(t)
  PROVE  LifeInv'
<1> DEFINE s == cmd[t].svc
<1>1. s \in Services /\ qmem[s] = "none" /\ ctx[s] # "none" /\ release[s] = 0
  BY DEF CreateQueue, IInv, TypeOK, FrameInv, LifeInv, CmdFrame, Null
<1>2. /\ \A r \in Services \ {s} : qmem'[r] = qmem[r] /\ in_global'[r] = in_global[r] /\ release'[r] = release[r]
      /\ qmem'[s] = "live" /\ release'[s] = 0
      /\ UNCHANGED <<ref, ctx, op, disp>>
  BY <1>1 DEF CreateQueue, mq_create, IInv, TypeOK, MQTypeOK
<1>3. /\ \A u \in Threads \ {t} : cmd'[u] = cmd[u] /\ cmd[u].svc # s
      /\ cmd'[t].svc = s /\ cmd'[t].pc = "init"
  BY <1>1 DEF CreateQueue, CmdTo, IInv, TypeOK, OwnInv, FramesApart
<1>4. \A u \in Threads : /\ cmd[u].pc = "drop" => cmd[u].svc \in Services
                         /\ disp[u].pc = "drop" => disp[u].q \in Services /\ disp[u].q # s
  BY <1>1, OwnerFacts DEF IInv, TypeOK, FrameInv, CmdFrame, DispFrame, Null
<1>5. \A u \in Threads : /\ cmd'[u].pc = "drop" => release'[cmd'[u].svc] = 1
                         /\ disp'[u].pc = "drop" => release'[disp'[u].q] = 1
  BY <1>2, <1>3, <1>4 DEF IInv, LifeInv
<1>6. \A u \in Threads : cmd'[u].svc \in Services =>
            /\ ctx'[cmd'[u].svc] # "none"
            /\ cmd'[u].pc = "mq" <=> qmem'[cmd'[u].svc] = "none"
  BY <1>1, <1>2, <1>3 DEF IInv, LifeInv
<1>7. \A r \in Services :
       /\ ref'[r] # 0 => ctx'[r] = "live"
       /\ ctx'[r] = "none" => qmem'[r] = "none"
       /\ release'[r] = 1 <=> ctx'[r] = "freed"
       /\ qmem'[r] = "none" => release'[r] = 0 /\ in_global'[r] = 0
       /\ qmem'[r] = "freed" => ctx'[r] = "freed"
  BY <1>1, <1>2 DEF IInv, LifeInv
<1> QED BY <1>2, <1>5, <1>6, <1>7 DEF IInv, LifeInv


\* A grab revives no count.
LEMMA LifeGrab ==
  ASSUME IInv, NEW w \in Workers, Grab(w)
  PROVE  LifeInv'
<1> DEFINE s == disp[w].q
<1>1. w \in Threads /\ s \in Services /\ UNCHANGED <<cmd, op, slot, ctx, qmem, in_global, release>>
  BY DEF Grab, Top, IInv, TypeOK, FrameInv, DispFrame, Null, Threads, mqVars
<1>2. \A r \in Services : ref'[r] = IF r = s /\ slot[s] THEN ref[r] + 1 ELSE ref[r]
  BY <1>1 DEF Grab, IInv, TypeOK
<1>3. slot[s] => ref[s] > 0 BY <1>1, RefPositive DEF IInv
<1>4. \A r \in Services : ref'[r] = ref[r] \/ ref[r] # 0
  BY <1>2, <1>3
<1>5. \A u \in Threads : disp'[u] = disp[u] \/ disp'[u].pc # "drop"
  BY DEF Grab, DispAt, DispTo, IInv, TypeOK
<1>6. \A u \in Threads : op[u].pc = "del" => op[u].svc \in Services
  BY DEF IInv, TypeOK, FrameInv, OpFrame, Null
<1> QED BY <1>1, <1>4, <1>5, <1>6 DEF IInv, LifeInv


\* A queue is freed only after it was marked, that is, after its context.
LEMMA LifeQueueDone ==
  ASSUME IInv, NEW s \in Services, qmem[s] = "live", release[s] = 1, drop_done(s),
         UNCHANGED <<ref, ctx, op>>,
         \A u \in Threads : cmd[u].svc = s /\ cmd[u].pc = "mq" => cmd'[u].svc \notin Services,
         \A u \in Threads :
           /\ cmd'[u] = cmd[u] \/ (cmd'[u].svc \notin Services /\ cmd'[u].pc = "idle")
           /\ disp'[u] = disp[u] \/ disp'[u].pc # "drop"
  PROVE  LifeInv'
<1>1. ctx[s] = "freed" BY DEF IInv, LifeInv
<1>2. /\ \A r \in Services \ {s} : qmem'[r] = qmem[r] /\ in_global'[r] = in_global[r]
      /\ qmem'[s] = "freed" /\ release' = release
  BY DEF drop_done, IInv, TypeOK, MQTypeOK
<1>3. \A r \in Services :
       /\ ref'[r] # 0 => ctx'[r] = "live"
       /\ ctx'[r] = "none" => qmem'[r] = "none"
       /\ release'[r] = 1 <=> ctx'[r] = "freed"
       /\ qmem'[r] = "none" => release'[r] = 0 /\ in_global'[r] = 0
       /\ qmem'[r] = "freed" => ctx'[r] = "freed"
  BY <1>1, <1>2 DEF IInv, LifeInv
<1>4. \A u \in Threads : cmd'[u].svc \in Services =>
            /\ ctx'[cmd'[u].svc] # "none"
            /\ cmd'[u].pc = "mq" <=> qmem'[cmd'[u].svc] = "none"
  BY <1>2 DEF IInv, LifeInv
<1> QED BY <1>2, <1>3, <1>4 DEF IInv, LifeInv

\* A failed launch frees a marked queue,
LEMMA LifeLaunchDropDone ==
  ASSUME IInv, NEW t \in Threads, LaunchDropDone(t)
  PROVE  LifeInv'
<1>1. cmd[t].svc \in Services /\ cmd[t].pc = "drop"
  BY DEF LaunchDropDone, IInv, TypeOK, FrameInv, CmdFrame, Null
<1>2. qmem[cmd[t].svc] = "live" /\ release[cmd[t].svc] = 1
  BY <1>1, OwnerFacts DEF IInv, LifeInv
<1>3. \A u \in Threads : cmd'[u] = cmd[u] \/ (cmd'[u].svc \notin Services /\ cmd'[u].pc = "idle")
  BY NullAssumption DEF LaunchDropDone, IdleCmd, IInv, TypeOK
<1>4. \A u \in Threads : cmd[u].svc = cmd[t].svc /\ cmd[u].pc = "mq" => cmd'[u].svc \notin Services
  BY <1>1, <1>2 DEF IInv, LifeInv
<1> QED BY <1>1, <1>2, <1>3, <1>4, LifeQueueDone DEF LaunchDropDone


\* and so does a worker.
LEMMA LifeDropDone ==
  ASSUME IInv, NEW w \in Workers, DropDone(w)
  PROVE  LifeInv'
<1>1. w \in Threads /\ disp[w].q \in Services /\ disp[w].pc = "drop"
  BY DEF DropDone, Top, IInv, TypeOK, FrameInv, DispFrame, Null, Threads
<1>2. qmem[disp[w].q] = "live" /\ release[disp[w].q] = 1
  BY <1>1, OwnerFacts DEF IInv, LifeInv
<1>3. \A u \in Threads : disp'[u] = disp[u] \/ disp'[u].pc # "drop"
  BY DEF DropDone, DispAt, IInv, TypeOK
<1>4. \A u \in Threads : cmd[u].svc = disp[w].q /\ cmd[u].pc = "mq" => cmd'[u].svc \notin Services
  BY <1>1, <1>2 DEF IInv, LifeInv
<1> QED BY <1>1, <1>2, <1>3, <1>4, LifeQueueDone DEF DropDone


\* Starting a send or a retirement, or taking a queue, touches no context.
LEMMA LifeOp ==
  ASSUME LifeInv, UNCHANGED <<ref, ctx, cmd, release, qmem, in_global>>,
         \A u \in Threads : op'[u] = op[u] \/ op'[u].pc # "del",
         \A u \in Threads : disp'[u] = disp[u] \/ disp'[u].pc # "drop"
  PROVE  LifeInv'
  BY DEF LifeInv

\* Every step keeps contexts and queues in the order of their lives.
LEMMA LifeStep ==
  ASSUME IInv, [Next]_vars
  PROVE  LifeInv'
<1>1. ASSUME NEW t \in Threads, OpStep(t) PROVE LifeInv'
  <2>1. CASE PushGrab(t)
    BY <2>1, LifePushGrab
  <2>2. CASE PushRefused(t)
    <3>1. \A u \in Threads : op'[u] = op[u] \/ op'[u].pc # "del"
      BY <2>2 DEF PushRefused, AfterSend, IdleOp, RetireOp, IInv, TypeOK
    <3> QED BY <2>2, <3>1, LifeOp DEF PushRefused, mqVars, IInv
  <2>3. CASE Push(t)
    BY <2>3, LifePush
  <2>4. CASE Release(t)
    BY <2>4, LifeRelease
  <2>5. CASE Delete(t)
    BY <2>5, LifeDelete
  <2>6. CASE Retire(t)
    BY <2>6, NullAssumption, BoundAssumption DEF Retire, ReleaseOp, Scan, mqVars, IInv,
       TypeOK, MQTypeOK, FrameInv, LifeInv, OpFrame, CmdFrame, DispFrame, Null
  <2>7. CASE RetireNothing(t)
    <3>1. \A u \in Threads : op'[u] = op[u] \/ op'[u].pc # "del"
      BY <2>7 DEF RetireNothing, IdleOp, IInv, TypeOK
    <3> QED BY <2>7, <3>1, LifeOp DEF RetireNothing, mqVars, IInv
  <2> QED BY <1>1, <2>1, <2>2, <2>3, <2>4, <2>5, <2>6, <2>7 DEF OpStep
<1>2. ASSUME NEW t \in Threads, CmdStep(t) PROVE LifeInv'
  <2>1. CASE CreateQueue(t)
    BY <2>1, LifeCreateQueue
  <2>2. CASE InitOK(t)
    BY <2>2, NullAssumption, BoundAssumption DEF InitOK, ReleaseOp, CmdTo, mqVars,
       IInv, TypeOK, MQTypeOK, FrameInv, LifeInv, OpFrame, CmdFrame, DispFrame, Null
  <2>3. CASE SetInit(t)
    BY <2>3, NullAssumption, BoundAssumption DEF SetInit, CmdTo, mqVars, IInv, TypeOK,
       MQTypeOK, FrameInv, LifeInv, OpFrame, CmdFrame, DispFrame, Null
  <2>4. CASE LaunchPush(t)
    BY <2>4, NullAssumption, BoundAssumption DEF LaunchPush, globalmq_push, IdleCmd,
       IInv, TypeOK, MQTypeOK, FrameInv, LifeInv, OpFrame, CmdFrame, DispFrame, Null
  <2>5. CASE InitFail(t)
    BY <2>5, NullAssumption, BoundAssumption DEF InitFail, ReleaseOp, CmdTo, mqVars,
       IInv, TypeOK, MQTypeOK, FrameInv, LifeInv, OpFrame, CmdFrame, DispFrame, Null
  <2>6. CASE LaunchRetire(t)
    BY <2>6, NullAssumption, BoundAssumption DEF LaunchRetire, RetireOp, CmdTo, mqVars,
       IInv, TypeOK, MQTypeOK, FrameInv, LifeInv, OpFrame, CmdFrame, DispFrame, Null
  <2>7. CASE LaunchMqRelease(t)
    BY <2>7, NullAssumption, BoundAssumption DEF LaunchMqRelease, CmdTo, IdleCmd,
       mq_release, IInv, TypeOK, MQTypeOK, FrameInv, LifeInv, OpFrame, CmdFrame,
       DispFrame, Null
  <2>8. CASE LaunchDrop(t)
    <3>1. /\ cmd[t].svc \in Services
          /\ queue[cmd[t].svc] \in Seq(Message) /\ queue[cmd[t].svc] # <<>>
      BY <2>8 DEF LaunchDrop, mq_pop, IInv, TypeOK, MQTypeOK, FrameInv, CmdFrame, Null
    <3>2. Head(queue[cmd[t].svc]) \in Message
      BY <3>1, TailElems
    <3>3. \A u \in Threads : op'[u] = op[u] \/ op'[u].pc # "del"
      BY <2>8, <3>1, <3>2, DropOpShape DEF LaunchDrop, IInv, TypeOK
    <3> QED BY <2>8, <3>3, LifeOp DEF LaunchDrop, mq_pop, IInv
  <2>9. CASE LaunchDropDone(t)
    BY <2>9, LifeLaunchDropDone
  <2>10. CASE AbortSlot(t)
    BY <2>10, NullAssumption, BoundAssumption DEF AbortSlot, Scan, RetireOp, mqVars,
       IInv, TypeOK, MQTypeOK, FrameInv, LifeInv, OpFrame, CmdFrame, DispFrame, Null
  <2>11. CASE AbortPass(t)
    BY <2>11, NullAssumption, BoundAssumption DEF AbortPass, Scan, IdleCmd, mqVars,
       IInv, TypeOK, MQTypeOK, FrameInv, LifeInv, OpFrame, CmdFrame, DispFrame, Null
  <2> QED BY <1>2, <2>1, <2>2, <2>3, <2>4, <2>5, <2>6, <2>7, <2>8, <2>9, <2>10, <2>11
     DEF CmdStep
<1>3. ASSUME NEW t \in Threads, Send(t) PROVE LifeInv'
  <2>1. \A u \in Threads : op'[u] = op[u] \/ op'[u].pc # "del"
    BY <1>3 DEF Send, SendOp, IInv, TypeOK
  <2> QED BY <1>3, <2>1, LifeOp DEF Send, mqVars, IInv
<1>4. ASSUME NEW t \in Threads, Kill(t) PROVE LifeInv'
  <2>1. \A u \in Threads : op'[u] = op[u] \/ op'[u].pc # "del"
    BY <1>4 DEF Kill, SendOp, RetireOp, IInv, TypeOK
  <2> QED BY <1>4, <2>1, LifeOp DEF Kill, mqVars, IInv
<1>5. ASSUME NEW t \in Threads, Launch(t) PROVE LifeInv'
  BY <1>5, NullAssumption, BoundAssumption DEF Launch, Running, mqVars, IInv, TypeOK,
       MQTypeOK, FrameInv, LifeInv, OpFrame, CmdFrame, DispFrame, Null
<1>6. ASSUME NEW t \in Threads, Abort(t) PROVE LifeInv'
  BY <1>6, NullAssumption, BoundAssumption DEF Abort, Running, Scan, mqVars, IInv,
       TypeOK, MQTypeOK, FrameInv, LifeInv, OpFrame, CmdFrame, DispFrame, Null
<1>7. ASSUME NEW w \in Workers, DispStep(w) PROVE LifeInv'
  <2>1. CASE TakeQueue(w)
    <3>1. \A u \in Threads : disp'[u] = disp[u] \/ disp'[u].pc # "drop"
      BY <2>1 DEF TakeQueue, DispAt, IInv, TypeOK
    <3> QED BY <2>1, <3>1, LifeOp DEF TakeQueue, IInv
  <2>2. CASE TakeNothing(w)
    BY <2>2, NullAssumption, BoundAssumption DEF TakeNothing, Top, DispAt, mqVars,
       IInv, TypeOK, MQTypeOK, FrameInv, LifeInv, OpFrame, CmdFrame, DispFrame, Null,
       Threads
  <2>3. CASE Grab(w)
    BY <2>3, LifeGrab
  <2>4. CASE MqRelease(w)
    BY <2>4, NullAssumption, BoundAssumption DEF MqRelease, Top, DispAt, DispTo,
       mq_release, IInv, TypeOK, MQTypeOK, FrameInv, LifeInv, OpFrame, CmdFrame,
       DispFrame, Null, Threads
  <2>5. CASE Drop(w)
    <3>1. /\ disp[w].q \in Services
          /\ queue[disp[w].q] \in Seq(Message) /\ queue[disp[w].q] # <<>>
      BY <2>5 DEF Drop, Top, mq_pop, IInv, TypeOK, MQTypeOK, FrameInv, DispFrame, Null, Threads
    <3>2. Head(queue[disp[w].q]) \in Message
      BY <3>1, TailElems
    <3>3. \A u \in Threads : op'[u] = op[u] \/ op'[u].pc # "del"
      BY <2>5, <3>1, <3>2, DropOpShape DEF Drop, IInv, TypeOK
    <3> QED BY <2>5, <3>3, LifeOp DEF Drop, mq_pop, IInv
  <2>6. CASE DropDone(w)
    BY <2>6, LifeDropDone
  <2>7. CASE Pop(w)
    BY <2>7, NullAssumption, BoundAssumption DEF Pop, Top, mq_pop, IInv, TypeOK,
       MQTypeOK, FrameInv, LifeInv, OpFrame, CmdFrame, DispFrame, Null, Threads
  <2>8. CASE PopEmpty(w)
    BY <2>8, NullAssumption, BoundAssumption DEF PopEmpty, Top, mq_pop_empty,
       ReleaseOp, DispAt, IInv, TypeOK, MQTypeOK, FrameInv, LifeInv, OpFrame, CmdFrame,
       DispFrame, Null, Threads
  <2>9. CASE Length(w)
    BY <2>9, NullAssumption, BoundAssumption DEF Length, Top, mqVars, IInv, TypeOK,
       MQTypeOK, FrameInv, LifeInv, OpFrame, CmdFrame, DispFrame, Null, Threads
  <2>10. CASE Call(w)
    BY <2>10, NullAssumption, BoundAssumption DEF Call, Top, DispTo, mqVars, IInv,
       TypeOK, MQTypeOK, FrameInv, LifeInv, OpFrame, CmdFrame, DispFrame, Null, Threads
  <2>11. CASE Discard(w)
    BY <2>11, NullAssumption, BoundAssumption DEF Discard, Top, Next_i, mqVars, IInv,
       TypeOK, MQTypeOK, FrameInv, LifeInv, OpFrame, CmdFrame, DispFrame, Null, Threads
  <2>12. CASE Return(w)
    BY <2>12, NullAssumption, BoundAssumption DEF Return, Top, Next_i, mqVars, IInv,
       TypeOK, MQTypeOK, FrameInv, LifeInv, OpFrame, CmdFrame, DispFrame, Null, Threads
  <2>13. CASE EndTake(w)
    <3>1. \A u \in Threads : disp'[u] = disp[u] \/ disp'[u].pc # "drop"
      BY <2>13 DEF EndTake, IInv, TypeOK
    <3> QED BY <2>13, <3>1, LifeOp DEF EndTake, IInv
  <2>14. CASE PushBack(w)
    BY <2>14, NullAssumption, BoundAssumption DEF PushBack, Top, globalmq_push,
       ReleaseOp, DispAt, IInv, TypeOK, MQTypeOK, FrameInv, LifeInv, OpFrame, CmdFrame,
       DispFrame, Null, Threads
  <2>15. CASE EndKeep(w)
    BY <2>15, NullAssumption, BoundAssumption DEF EndKeep, Top, ReleaseOp, DispAt,
       mqVars, IInv, TypeOK, MQTypeOK, FrameInv, LifeInv, OpFrame, CmdFrame, DispFrame,
       Null, Threads
  <2> QED BY <1>7, <2>1, <2>2, <2>3, <2>4, <2>5, <2>6, <2>7, <2>8, <2>9, <2>10, <2>11,
     <2>12, <2>13, <2>14, <2>15 DEF DispStep
<1>8. CASE UNCHANGED vars
  BY <1>8, LifeOp DEF vars, IInv
<1> QED BY <1>1, <1>2, <1>3, <1>4, <1>5, <1>6, <1>7, <1>8 DEF Next

\* A deleted context is no longer mapped.
LEMMA ReadyDelete ==
  ASSUME IInv, NEW t \in Threads, Delete(t)
  PROVE  InitInv'
<1> DEFINE s == op[t].svc
<1>1. s \in Services /\ ref[s] = 0
  BY DEF Delete, IInv, TypeOK, FrameInv, OpFrame, Null, LifeInv
<1>2. ~slot[s] BY <1>1, RefPositive DEF IInv
<1>3. cmd[t].pc = "setinit" => cmd[t].svc = s BY DEF Delete, IInv, FrameInv
<1>4. /\ cmd' = [cmd EXCEPT ![t] = IF @.pc = "setinit" THEN CmdTo(@, "push") ELSE @]
      /\ op' = [op EXCEPT ![t] = AfterSend(t)] /\ UNCHANGED <<slot, init, disp>>
  BY DEF Delete
<1>5. ASSUME NEW u \in Threads
      PROVE  /\ cmd'[u].svc = cmd[u].svc
             /\ u # t => cmd'[u] = cmd[u] /\ op'[u] = op[u]
             /\ cmd'[u].pc = cmd[u].pc \/ (u = t /\ cmd'[u].pc = "push" /\ cmd[u].svc = s)
  BY <1>3, <1>4 DEF CmdTo, IInv, TypeOK
<1>6. ~(cmd'[t].pc \in {"mqrel", "drop"} /\ slot[cmd'[t].svc])
  BY <1>4, <1>5 DEF Delete, IInv, InitInv
<1> QED BY <1>2, <1>4, <1>5, <1>6 DEF IInv, InitInv


\* A newly mapped handle is that of the launch.
LEMMA ReadyLaunch ==
  ASSUME IInv, NEW t \in Threads, Launch(t)
  PROVE  InitInv'
<1>1. PICK s \in Services : /\ ctx[s] = "none"
        /\ slot' = [slot EXCEPT ![s] = TRUE]
        /\ cmd' = [cmd EXCEPT ![t] = [pc |-> "mq", svc |-> s, scan |-> {}, hit |-> FALSE]]
  BY DEF Launch
<1>2. /\ disp' = disp /\ op' = op /\ init' = init /\ cmd[t].svc = NoService
  BY DEF Launch, IInv, FrameInv
<1>3. \A u \in Threads : cmd[u].svc # s
  BY <1>1 DEF IInv, LifeInv
<1>4. \A r \in Services \ {s} : slot'[r] = slot[r]
  BY <1>1 DEF IInv, TypeOK
<1>5. \A u \in Threads \ {t} : cmd'[u] = cmd[u]
  BY <1>1 DEF IInv, TypeOK
<1>6. cmd'[t].pc = "mq" /\ cmd'[t].svc = s BY <1>1 DEF IInv, TypeOK
<1>7. \A r \in Services : slot'[r] => init'[r] \/ \E u \in Threads : cmd'[u].svc = r
  BY <1>2, <1>4, <1>5, <1>6, NullAssumption DEF IInv, InitInv
<1>8. \A u \in Threads : cmd[u].svc \in Services => slot'[cmd[u].svc] = slot[cmd[u].svc]
  BY <1>3, <1>4
<1>9. \A u \in Threads : cmd[u].pc \in {"push", "mqrel", "drop"} => cmd[u].svc \in Services
  BY DEF IInv, TypeOK, FrameInv, CmdFrame, Null
<1> QED BY <1>2, <1>5, <1>6, <1>7, <1>8, <1>9 DEF IInv, InitInv


\* A worker that finds the handle mapped finds a service whose launch is over.
LEMMA ReadyGrab ==
  ASSUME IInv, NEW w \in Workers, Grab(w)
  PROVE  InitInv'
<1> DEFINE s == disp[w].q
<1>1. w \in Threads /\ s \in Services /\ UNCHANGED <<cmd, op, slot, init>>
  BY DEF Grab, Top, IInv, TypeOK, FrameInv, DispFrame, Null, Threads
<1>2. slot[s] => init[s]
  BY <1>1 DEF IInv, InitInv, OwnInv, FramesApart
<1>3. /\ \A u \in Threads \ {w} : disp'[u] = disp[u]
      /\ disp'[w].pc \in DispRef => slot[s] /\ disp'[w].q = s
  BY <1>1 DEF Grab, IInv, TypeOK, DispAt, DispTo, DispRef
<1> QED BY <1>1, <1>2, <1>3 DEF IInv, InitInv


\* Every step keeps services without a successful init out of the workers' hands.
LEMMA ReadyStep ==
  ASSUME IInv, [Next]_vars
  PROVE  InitInv'
<1>1. ASSUME NEW t \in Threads, OpStep(t) PROVE InitInv'
  <2>1. CASE PushGrab(t)
    BY <2>1, NullAssumption, BoundAssumption DEF PushGrab, OpTo, IInv, TypeOK,
       FrameInv, InitInv, OpFrame, CmdFrame, DispFrame, DispRef, Null
  <2>2. CASE PushRefused(t)
    BY <2>2, NullAssumption, BoundAssumption DEF PushRefused, AfterSend, IdleOp,
       RetireOp, IInv, TypeOK, FrameInv, InitInv, OpFrame, CmdFrame, DispFrame,
       DispRef, Null
  <2>3. CASE Push(t)
    BY <2>3, NullAssumption, BoundAssumption DEF Push, OpTo, IInv, TypeOK, FrameInv,
       InitInv, OpFrame, CmdFrame, DispFrame, DispRef, Null
  <2>4. CASE Release(t)
    BY <2>4, NullAssumption, BoundAssumption DEF Release, OpTo, AfterSend, IdleOp,
       RetireOp, IInv, TypeOK, FrameInv, InitInv, OpFrame, CmdFrame, DispFrame,
       DispRef, Null
  <2>5. CASE Delete(t)
    BY <2>5, ReadyDelete
  <2>6. CASE Retire(t)
    BY <2>6, NullAssumption, BoundAssumption DEF Retire, ReleaseOp, Scan, IInv, TypeOK,
       FrameInv, InitInv, OpFrame, CmdFrame, DispFrame, DispRef, Null
  <2>7. CASE RetireNothing(t)
    BY <2>7, NullAssumption, BoundAssumption DEF RetireNothing, IdleOp, IInv, TypeOK,
       FrameInv, InitInv, OpFrame, CmdFrame, DispFrame, DispRef, Null
  <2> QED BY <1>1, <2>1, <2>2, <2>3, <2>4, <2>5, <2>6, <2>7 DEF OpStep
<1>2. ASSUME NEW t \in Threads, CmdStep(t) PROVE InitInv'
  <2>1. CASE CreateQueue(t)
    BY <2>1, NullAssumption, BoundAssumption DEF CreateQueue, CmdTo, IInv, TypeOK,
       FrameInv, InitInv, OpFrame, CmdFrame, DispFrame, DispRef, Null
  <2>2. CASE InitOK(t)
    BY <2>2, NullAssumption, BoundAssumption DEF InitOK, ReleaseOp, CmdTo, IInv,
       TypeOK, FrameInv, InitInv, OpFrame, CmdFrame, DispFrame, DispRef, Null
  <2>3. CASE SetInit(t)
    BY <2>3, NullAssumption, BoundAssumption DEF SetInit, CmdTo, IInv, TypeOK,
       FrameInv, InitInv, OpFrame, CmdFrame, DispFrame, DispRef, Null
  <2>4. CASE LaunchPush(t)
    BY <2>4, NullAssumption, BoundAssumption DEF LaunchPush, IdleCmd, IInv, TypeOK,
       FrameInv, InitInv, OpFrame, CmdFrame, DispFrame, DispRef, Null
  <2>5. CASE InitFail(t)
    BY <2>5, NullAssumption, BoundAssumption DEF InitFail, ReleaseOp, CmdTo, IInv,
       TypeOK, FrameInv, InitInv, OpFrame, CmdFrame, DispFrame, DispRef, Null
  <2>6. CASE LaunchRetire(t)
    BY <2>6, NullAssumption, BoundAssumption DEF LaunchRetire, RetireOp, CmdTo, IInv,
       TypeOK, FrameInv, InitInv, OpFrame, CmdFrame, DispFrame, DispRef, Null
  <2>7. CASE LaunchMqRelease(t)
    BY <2>7, NullAssumption, BoundAssumption DEF LaunchMqRelease, CmdTo, IdleCmd, IInv,
       TypeOK, FrameInv, InitInv, OpFrame, CmdFrame, DispFrame, DispRef, Null
  <2>8. CASE LaunchDrop(t)
    BY <2>8, NullAssumption, BoundAssumption DEF LaunchDrop, DropOp, SendOp, IdleOp,
       IInv, TypeOK, FrameInv, InitInv, OpFrame, CmdFrame, DispFrame, DispRef, Null
  <2>9. CASE LaunchDropDone(t)
    BY <2>9, NullAssumption, BoundAssumption DEF LaunchDropDone, IdleCmd, IInv, TypeOK,
       FrameInv, InitInv, OpFrame, CmdFrame, DispFrame, DispRef, Null
  <2>10. CASE AbortSlot(t)
    BY <2>10, NullAssumption, BoundAssumption DEF AbortSlot, Scan, RetireOp, IInv,
       TypeOK, FrameInv, InitInv, OpFrame, CmdFrame, DispFrame, DispRef, Null
  <2>11. CASE AbortPass(t)
    BY <2>11, NullAssumption, BoundAssumption DEF AbortPass, Scan, IdleCmd, IInv,
       TypeOK, FrameInv, InitInv, OpFrame, CmdFrame, DispFrame, DispRef, Null
  <2> QED BY <1>2, <2>1, <2>2, <2>3, <2>4, <2>5, <2>6, <2>7, <2>8, <2>9, <2>10, <2>11
     DEF CmdStep
<1>3. ASSUME NEW t \in Threads, Send(t) PROVE InitInv'
  BY <1>3, NullAssumption, BoundAssumption DEF Send, SendOp, Running, IInv, TypeOK,
       FrameInv, InitInv, OpFrame, CmdFrame, DispFrame, DispRef, Null
<1>4. ASSUME NEW t \in Threads, Kill(t) PROVE InitInv'
  BY <1>4, NullAssumption, BoundAssumption DEF Kill, SendOp, RetireOp, monitor_exit,
       Running, IInv, TypeOK, FrameInv, InitInv, OpFrame, CmdFrame, DispFrame, DispRef,
       Null
<1>5. ASSUME NEW t \in Threads, Launch(t) PROVE InitInv'
  BY <1>5, ReadyLaunch
<1>6. ASSUME NEW t \in Threads, Abort(t) PROVE InitInv'
  BY <1>6, NullAssumption, BoundAssumption DEF Abort, Running, Scan, IInv, TypeOK,
       FrameInv, InitInv, OpFrame, CmdFrame, DispFrame, DispRef, Null
<1>7. ASSUME NEW w \in Workers, DispStep(w) PROVE InitInv'
  <2>1. CASE TakeQueue(w)
    BY <2>1, NullAssumption, BoundAssumption DEF TakeQueue, Top, DispAt, IInv, TypeOK,
       FrameInv, InitInv, OpFrame, CmdFrame, DispFrame, DispRef, Null, Threads
  <2>2. CASE TakeNothing(w)
    BY <2>2, NullAssumption, BoundAssumption DEF TakeNothing, Top, DispAt, IInv,
       TypeOK, FrameInv, InitInv, OpFrame, CmdFrame, DispFrame, DispRef, Null, Threads
  <2>3. CASE Grab(w)
    BY <2>3, ReadyGrab
  <2>4. CASE MqRelease(w)
    BY <2>4, NullAssumption, BoundAssumption DEF MqRelease, Top, DispAt, DispTo, IInv,
       TypeOK, FrameInv, InitInv, OpFrame, CmdFrame, DispFrame, DispRef, Null, Threads
  <2>5. CASE Drop(w)
    BY <2>5, NullAssumption, BoundAssumption DEF Drop, Top, DropOp, SendOp, IdleOp,
       IInv, TypeOK, FrameInv, InitInv, OpFrame, CmdFrame, DispFrame, DispRef, Null,
       Threads
  <2>6. CASE DropDone(w)
    BY <2>6, NullAssumption, BoundAssumption DEF DropDone, Top, DispAt, IInv, TypeOK,
       FrameInv, InitInv, OpFrame, CmdFrame, DispFrame, DispRef, Null, Threads
  <2>7. CASE Pop(w)
    BY <2>7, NullAssumption, BoundAssumption DEF Pop, Top, IInv, TypeOK, FrameInv,
       InitInv, OpFrame, CmdFrame, DispFrame, DispRef, Null, Threads
  <2>8. CASE PopEmpty(w)
    BY <2>8, NullAssumption, BoundAssumption DEF PopEmpty, Top, ReleaseOp, DispAt,
       IInv, TypeOK, FrameInv, InitInv, OpFrame, CmdFrame, DispFrame, DispRef, Null,
       Threads
  <2>9. CASE Length(w)
    BY <2>9, NullAssumption, BoundAssumption DEF Length, Top, IInv, TypeOK, FrameInv,
       InitInv, OpFrame, CmdFrame, DispFrame, DispRef, Null, Threads
  <2>10. CASE Call(w)
    BY <2>10, NullAssumption, BoundAssumption DEF Call, Top, DispTo, IInv, TypeOK,
       FrameInv, InitInv, OpFrame, CmdFrame, DispFrame, DispRef, Null, Threads
  <2>11. CASE Discard(w)
    BY <2>11, NullAssumption, BoundAssumption DEF Discard, Top, Next_i, IInv, TypeOK,
       FrameInv, InitInv, OpFrame, CmdFrame, DispFrame, DispRef, Null, Threads
  <2>12. CASE Return(w)
    BY <2>12, NullAssumption, BoundAssumption DEF Return, Top, Next_i, IInv, TypeOK,
       FrameInv, InitInv, OpFrame, CmdFrame, DispFrame, DispRef, Null, Threads
  <2>13. CASE EndTake(w)
    BY <2>13, NullAssumption, BoundAssumption DEF EndTake, Top, IInv, TypeOK, FrameInv,
       InitInv, OpFrame, CmdFrame, DispFrame, DispRef, Null, Threads
  <2>14. CASE PushBack(w)
    BY <2>14, NullAssumption, BoundAssumption DEF PushBack, Top, ReleaseOp, DispAt,
       IInv, TypeOK, FrameInv, InitInv, OpFrame, CmdFrame, DispFrame, DispRef, Null,
       Threads
  <2>15. CASE EndKeep(w)
    BY <2>15, NullAssumption, BoundAssumption DEF EndKeep, Top, ReleaseOp, DispAt,
       IInv, TypeOK, FrameInv, InitInv, OpFrame, CmdFrame, DispFrame, DispRef, Null,
       Threads
  <2> QED BY <1>7, <2>1, <2>2, <2>3, <2>4, <2>5, <2>6, <2>7, <2>8, <2>9, <2>10, <2>11,
     <2>12, <2>13, <2>14, <2>15 DEF DispStep
<1>8. CASE UNCHANGED vars
  BY <1>8 DEF vars, IInv, InitInv
<1> QED BY <1>1, <1>2, <1>3, <1>4, <1>5, <1>6, <1>7, <1>8 DEF Next
-----------------------------------------------------------------------------
(* The theorems.                                                           *)

\* When the threads start, one service exists and waits in the global queue.
LEMMA InitIInv ==
  ASSUME Init
  PROVE  IInv
<1>1. TypeOK
  <2>1. globalq \in Seq(Services) BY BootAssumption DEF Init
  <2>2. queue \in [Services -> Seq(Message)]
    <3>1. [typ |-> "req", id |-> BootMsg, src |-> Boot] \in Message
      BY BootAssumption DEF Message
    <3> QED BY <3>1 DEF Init
  <2>3. MQTypeOK BY <2>1, <2>2 DEF Init, MQTypeOK
  <2>4. /\ op \in [Threads -> OpFrame] /\ cmd \in [Threads -> CmdFrame]
    BY DEF Init, IdleOp, IdleCmd, OpFrame, CmdFrame, Null
  <2>5. disp \in [Threads -> DispFrame]
    BY DEF Init, DispAt, DispFrame, Null
  <2>6. fate \in [Msgs -> Fates] BY DEF Init, Fates
  <2> QED BY <2>3, <2>4, <2>5, <2>6 DEF Init, TypeOK
<1>2. FrameInv
  BY NullAssumption DEF Init, FrameInv, IdleOp, IdleCmd, DispAt
<1>3. KnownInv
  <2>1. ASSUME NEW s \in Services, NEW i \in 1..Len(queue[s]) PROVE queue[s][i].src = Boot
    <3>1. CASE s = Boot BY <3>1 DEF Init
    <3>2. CASE s # Boot BY <3>2 DEF Init
    <3> QED BY <3>1, <3>2
  <2>2. \A t \in Threads : /\ op[t].svc = NoService /\ op[t].victim = NoService
                          /\ op[t].msg.src = NoService
    BY DEF Init, IdleOp, NoMessage
  <2>3. qmem[Boot] # "none" BY BootAssumption DEF Init
  <2> QED BY <2>1, <2>2, <2>3, NullAssumption DEF KnownInv
<1>4. /\ Len(globalq) = 1 /\ globalq[1] = Boot
      /\ \A t \in Threads : /\ disp[t].q = NoService /\ disp[t].nq = NoService
                            /\ cmd[t].svc = NoService
  BY BootAssumption DEF Init, DispAt, IdleCmd
<1>5. OwnInv
  <2>1. GlobalOnce BY <1>4 DEF GlobalOnce
  <2>2. GlobalApart
    BY <1>4, BootAssumption, NullAssumption DEF GlobalApart
  <2>3. FramesApart
    BY <1>4, NullAssumption DEF FramesApart
  <2> QED BY <2>1, <2>2, <2>3 DEF OwnInv
<1>6. FlagInv
  <2>1. \A s \in Services : Owned(s) <=> s = Boot
    BY <1>4, BootAssumption, NullAssumption DEF Owned, InGlobalQueue, LaunchOwns
  <2> QED BY <2>1 DEF Init, FlagInv
<1>7. RefExact
  <2>1. SUFFICES ASSUME NEW s \in Services PROVE ref[s] = RefCount(s)
    BY DEF RefExact
  <2>2. OpHolders(s) = {} /\ DispHolders(s) = {} /\ CmdHolders(s) = {}
    BY DEF Init, IdleOp, IdleCmd, DispAt, DispRef, OpHolders, DispHolders, CmdHolders
  <2>3. /\ Cardinality(OpHolders(s)) = 0 /\ Cardinality(DispHolders(s)) = 0
        /\ Cardinality(CmdHolders(s)) = 0
    BY <2>2, FS_EmptySet
  <2>4. ref[s] = SlotCount(s) /\ SlotCount(s) \in Nat
    BY DEF Init, SlotCount
  <2> QED BY <2>3, <2>4 DEF RefCount
<1>8. LifeInv
  <2>1. \A t \in Threads : /\ cmd[t].svc = NoService /\ cmd[t].pc = "idle" /\ op[t].pc = "idle"
                          /\ disp[t].pc \in {"idle", "ext"}
    BY DEF Init, IdleOp, IdleCmd, DispAt
  <2>2. ASSUME NEW s \in Services
        PROVE  /\ ref[s] # 0 => ctx[s] = "live"
               /\ ctx[s] = "none" => qmem[s] = "none"
               /\ release[s] = 1 <=> ctx[s] = "freed"
               /\ qmem[s] = "none" => release[s] = 0 /\ in_global[s] = 0
               /\ qmem[s] = "freed" => ctx[s] = "freed"
    <3>1. CASE s = Boot BY <3>1 DEF Init
    <3>2. CASE s # Boot BY <3>2 DEF Init
    <3> QED BY <3>1, <3>2
  <2> QED BY <2>1, <2>2, NullAssumption DEF LifeInv
<1>9. InitInv
  BY DEF Init, InitInv, DispRef, DispAt, IdleCmd
<1> QED BY <1>1, <1>2, <1>3, <1>5, <1>6, <1>7, <1>8, <1>9 DEF IInv

\* The invariant is inductive.
LEMMA NextIInv ==
  ASSUME IInv, [Next]_vars
  PROVE  IInv'
<1>1. TypeOK' BY TypeStep DEF IInv
<1>2. FrameInv' BY FrameStep DEF IInv
<1>3. KnownInv' /\ OwnInv' /\ FlagInv' BY KnownStep, OwnStep, FlagStep
<1>4. RefExact' /\ LifeInv' /\ InitInv' BY RefStep, LifeStep, ReadyStep
<1> QED BY <1>1, <1>2, <1>3, <1>4 DEF IInv

\* The inductive invariant holds of every node, for any number of threads,
\* services and messages: frames fit together, handles in use were handed
\* out, queues have at most one owner and one exactly while a flag is set,
\* and contexts and queues are created and freed in order.
THEOREM Inductive == Spec => []IInv
<1>1. Init => IInv BY InitIInv
<1>2. IInv /\ [Next]_vars => IInv' BY NextIInv
<1> QED BY <1>1, <1>2, PTL DEF Spec

\* Every variable and every stack frame keeps its type; in particular
\* skynet_context_release never brings ctx->ref below 0.
THEOREM Typing == Spec => []TypeOK
<1>1. IInv => TypeOK BY DEF IInv
<1> QED BY <1>1, Inductive, PTL

\* skynet_mq.c keeps every queue in the global queue or in the hands of one
\* thread, never both and never twice, exactly while in_global or release is
\* set.
THEOREM Ownership == Spec => []QueueOwnership
<1>1. ASSUME IInv PROVE QueueOwnership
  <2>1. SUFFICES ASSUME NEW s \in Services
                 PROVE  /\ \A a, b \in Owners(s) : a = b
                        /\ Owners(s) # {} <=> Owned(s)
    BY <1>1 DEF QueueOwnership, IInv, FlagInv
  <2>2. Owners(s) # {} <=> Owned(s)
    BY DEF Owners, Owned, InGlobalQueue, LaunchOwns
  <2>3. ASSUME NEW a \in Owners(s), NEW b \in Owners(s) PROVE a = b
    <3>1. OwnInv BY <1>1 DEF IInv
    <3>2. CASE \E i \in 1..Len(globalq) : a = <<"global", i>> /\ globalq[i] = s
      BY <3>1, <3>2, <2>3 DEF Owners, OwnInv, GlobalOnce, GlobalApart
    <3>3. CASE \E t \in Threads : a = <<"worker", t>> /\ disp[t].q = s
      BY <3>1, <3>3, <2>3 DEF Owners, OwnInv, GlobalApart, FramesApart
    <3>4. CASE \E t \in Threads : a = <<"next", t>> /\ disp[t].nq = s
      BY <3>1, <3>4, <2>3 DEF Owners, OwnInv, GlobalApart, FramesApart
    <3>5. CASE \E t \in Threads : a = <<"launch", t>> /\ cmd[t].svc = s
      BY <3>1, <3>5, <2>3 DEF Owners, OwnInv, GlobalApart, FramesApart
    <3> QED BY <2>3, <3>2, <3>3, <3>4, <3>5 DEF Owners
  <2> QED BY <2>2, <2>3
<1> QED BY <1>1, Inductive, PTL

\* No wakeup is lost: a queue that holds messages is linked, or in the hands
\* of a thread that will get to them.
THEOREM NoLostWakeup == Spec => []NothingStranded
<1>1. ASSUME IInv PROVE NothingStranded
  <2>1. SUFFICES ASSUME NEW s \in Services, queue[s] # <<>> PROVE Owners(s) # {}
    BY DEF NothingStranded
  <2>2. Owned(s) BY <1>1, <2>1 DEF IInv, FlagInv
  <2> QED BY <2>2 DEF Owners, Owned, InGlobalQueue, LaunchOwns
<1> QED BY <1>1, Inductive, PTL

\* skynet_context.ref is exactly the number of references held.
THEOREM Counting == Spec => []RefExact
<1>1. IInv => RefExact BY DEF IInv
<1> QED BY <1>1, Inductive, PTL

\* No thread touches a freed context or a freed queue.
THEOREM Memory == Spec => []MemorySafe
<1>1. ASSUME IInv PROVE MemorySafe
  <2>1. SUFFICES ASSUME NEW t \in Threads
                 PROVE  /\ op[t].pc \in {"push", "rel", "del"} =>
                             /\ ctx[op[t].svc] = "live"
                             /\ qmem[op[t].svc] = "live"
                        /\ disp[t].q \in Services => qmem[disp[t].q] = "live"
                        /\ disp[t].pc \in DispRef => ctx[disp[t].q] = "live"
                        /\ cmd[t].pc = "init" => ctx[cmd[t].svc] = "live"
                        /\ cmd[t].pc \in {"push", "mqrel", "drop"} =>
                             qmem[cmd[t].svc] = "live"
    BY DEF MemorySafe
  <2>2. ASSUME op[t].pc \in {"push", "rel", "del"}
        PROVE  ctx[op[t].svc] = "live" /\ qmem[op[t].svc] = "live"
    <3>1. op[t].svc \in Services
      BY <1>1, <2>2 DEF IInv, TypeOK, FrameInv, OpFrame, Null
    <3>2. CASE op[t].pc \in {"push", "rel"}
      <4>1. ref[op[t].svc] # 0
        BY <1>1, <3>1, <3>2, RefPositive DEF IInv, OpHolders
      <4> QED BY <1>1, <3>1, <4>1 DEF IInv, LifeInv, KnownInv, TypeOK, MQTypeOK
    <3>3. CASE op[t].pc = "del"
      BY <1>1, <3>1, <3>3 DEF IInv, LifeInv, KnownInv, TypeOK, MQTypeOK
    <3> QED BY <2>2, <3>2, <3>3
  <2>3. /\ disp[t].q \in Services => qmem[disp[t].q] = "live"
        /\ cmd[t].pc \in {"push", "mqrel", "drop"} => qmem[cmd[t].svc] = "live"
    BY <1>1, OwnerFacts DEF IInv, TypeOK, FrameInv, CmdFrame, Null
  <2>4. disp[t].pc \in DispRef => ctx[disp[t].q] = "live"
    <3>1. SUFFICES ASSUME disp[t].pc \in DispRef PROVE ctx[disp[t].q] = "live"
      OBVIOUS
    <3>2. disp[t].q \in Services
      BY <1>1, <3>1 DEF IInv, TypeOK, FrameInv, DispFrame, Null, DispRef
    <3>3. ref[disp[t].q] # 0 BY <1>1, <3>1, <3>2, RefPositive DEF IInv, DispHolders
    <3> QED BY <1>1, <3>2, <3>3 DEF IInv, LifeInv
  <2>5. cmd[t].pc = "init" => ctx[cmd[t].svc] = "live"
    <3>1. SUFFICES ASSUME cmd[t].pc = "init" PROVE ctx[cmd[t].svc] = "live"
      OBVIOUS
    <3>2. cmd[t].svc \in Services
      BY <1>1, <3>1 DEF IInv, TypeOK, FrameInv, CmdFrame, Null
    <3>3. ref[cmd[t].svc] # 0 BY <1>1, <3>1, <3>2, RefPositive DEF IInv, CmdHolders
    <3> QED BY <1>1, <3>2, <3>3 DEF IInv, LifeInv
  <2> QED BY <2>2, <2>3, <2>4, <2>5
<1> QED BY <1>1, Inductive, PTL

\* The assertions of the C code hold: ctx->init, release == 0 and the
\* unlinked queue of skynet_globalmq_push, skynet_mq_mark_release and _release.
THEOREM Asserts == Spec => []KernelAsserts
<1>1. ASSUME IInv PROVE KernelAsserts
  <2>1. SUFFICES ASSUME NEW t \in Threads
                 PROVE  /\ disp[t].pc = "cb" => init[disp[t].q]
                        /\ op[t].pc = "del" => release[op[t].svc] = 0
                        /\ disp[t].pc \in {"mqrel", "drop", "back"} => ~InGlobalQueue(disp[t].q)
                        /\ cmd[t].pc \in {"push", "mqrel", "drop"} => ~InGlobalQueue(cmd[t].svc)
                        /\ op[t].pc = "del" /\ in_global[op[t].svc] = 0 =>
                             ~InGlobalQueue(op[t].svc)
    BY DEF KernelAsserts
  <2>2. disp[t].pc = "cb" => init[disp[t].q] BY <1>1 DEF IInv, InitInv, DispRef
  <2>3. ~InGlobalQueue(disp[t].q) /\ ~InGlobalQueue(cmd[t].svc)
    BY <1>1 DEF IInv, OwnInv, GlobalApart, InGlobalQueue
  <2>4. ASSUME op[t].pc = "del"
        PROVE  op[t].svc \in Services /\ release[op[t].svc] = 0 /\ qmem[op[t].svc] # "none"
    BY <1>1, <2>4 DEF IInv, TypeOK, MQTypeOK, FrameInv, KnownInv, LifeInv, OpFrame, Null
  <2>5. ASSUME op[t].pc = "del", in_global[op[t].svc] = 0
        PROVE  ~InGlobalQueue(op[t].svc)
    BY <1>1, <2>4, <2>5, NotOwned DEF IInv, InGlobalQueue
  <2> QED BY <2>2, <2>3, <2>4, <2>5
<1> QED BY <1>1, Inductive, PTL
-----------------------------------------------------------------------------
(* What becomes of a message.                                              *)

\* x is the request m.
Req(x, m) == x.typ = "req" /\ x.id = m

\* A worker's frame that holds request m, popped and not yet dispatched; a
\* send of kind k about message m that is not yet pushed.
Holds(f, m) == f.pc \in {"len", "call"} /\ Req(f.msg, m)
Sends(f, k, m) == f.pc \in {"grab", "push"} /\ f.msg.typ = k /\ f.msg.id = m

\* Request m is in a queue, once, exactly while its history says so; in the
\* hands of one worker; on its way.  The report of its loss is on its way
\* once, and nothing else happens to it then.  The notice of handle_exit is
\* about no message.
QueueTrace ==
  \A m \in Msgs :
    /\ fate[m] = "queued" <=> \E s \in Services : \E i \in 1..Len(queue[s]) : Req(queue[s][i], m)
    /\ \A s, r \in Services : \A i \in 1..Len(queue[s]), j \in 1..Len(queue[r]) :
         Req(queue[s][i], m) /\ Req(queue[r][j], m) => s = r /\ i = j

HandTrace ==
  \A m \in Msgs :
    /\ fate[m] = "held" <=> \E t \in Threads : Holds(disp[t], m)
    /\ \A t, u \in Threads : Holds(disp[t], m) /\ Holds(disp[u], m) => t = u

WayTrace ==
  \A m \in Msgs :
    /\ fate[m] = "sending" <=> \E t \in Threads : Sends(op[t], "req", m)
    /\ \A t \in Threads : Sends(op[t], "err", m) => fate[m] = "reporting"
    /\ \A t \in Threads : ~Sends(op[t], "exit", m)
    /\ \A t, u \in Threads :
         \/ Sends(op[t], "req", m) /\ Sends(op[u], "req", m)
         \/ Sends(op[t], "err", m) /\ Sends(op[u], "err", m)
         => t = u

TraceInv == QueueTrace /\ HandTrace /\ WayTrace

\* A push adds one place to a queue.
LEMMA QueueAppend ==
  ASSUME TypeOK, TypeOK', QueueTrace, NEW s \in Services, NEW x \in Message,
         queue' = [queue EXCEPT ![s] = Append(@, x)],
         \A m \in Msgs : fate'[m] = "queued" <=> fate[m] = "queued" \/ Req(x, m),
         \A m \in Msgs : Req(x, m) => fate[m] # "queued"
  PROVE  QueueTrace'
<1>1. queue \in [Services -> Seq(Message)]
  BY DEF TypeOK, MQTypeOK
<1>2. /\ queue'[s] = Append(queue[s], x) /\ Len(queue'[s]) = Len(queue[s]) + 1 /\ Len(queue[s]) \in Nat
      /\ queue'[s][Len(queue[s]) + 1] = x
      /\ \A i \in 1..Len(queue[s]) : queue'[s][i] = queue[s][i]
      /\ \A r \in Services : r # s => queue'[r] = queue[r]
  BY <1>1, AppendElems
<1> HIDE DEF Req
<1>3. \A r \in Services : \A i \in 1..Len(queue'[r]) :
        \/ r = s /\ i = Len(queue[s]) + 1 /\ queue'[r][i] = x
        \/ i \in 1..Len(queue[r]) /\ queue'[r][i] = queue[r][i]
  BY <1>2
<1>4. \A r \in Services : \A i \in 1..Len(queue[r]) : i \in 1..Len(queue'[r]) /\ queue'[r][i] = queue[r][i]
  BY <1>1, <1>2
<1>5. Len(queue[s]) + 1 \in 1..Len(queue'[s])
  BY <1>2
<1> SUFFICES ASSUME NEW m \in Msgs
             PROVE  /\ fate'[m] = "queued" <=> \E r \in Services : \E i \in 1..Len(queue'[r]) : Req(queue'[r][i], m)
                    /\ \A a, b \in Services : \A i \in 1..Len(queue'[a]), j \in 1..Len(queue'[b]) :
                         Req(queue'[a][i], m) /\ Req(queue'[b][j], m) => a = b /\ i = j
  BY DEF QueueTrace, Req
<1>6. CASE Req(x, m)
  <2>1. \A r \in Services : \A i \in 1..Len(queue[r]) : ~Req(queue[r][i], m)
    BY <1>6 DEF QueueTrace
  <2> QED
    BY <1>2, <1>3, <1>5, <1>6, <2>1
<1>7. CASE ~Req(x, m)
  BY <1>3, <1>4, <1>7 DEF QueueTrace
<1> QED
  BY <1>6, <1>7

\* A pop takes the first place away.
LEMMA QueueTail ==
  ASSUME TypeOK, TypeOK', QueueTrace, NEW s \in Services, queue[s] # <<>>,
         queue' = [queue EXCEPT ![s] = Tail(@)],
         \A m \in Msgs : fate'[m] = "queued" <=> fate[m] = "queued" /\ ~Req(Head(queue[s]), m)
  PROVE  QueueTrace'
<1> DEFINE x == Head(queue[s])
<1>1. queue \in [Services -> Seq(Message)]
  BY DEF TypeOK, MQTypeOK
<1>2. /\ queue'[s] = Tail(queue[s]) /\ Len(queue'[s]) = Len(queue[s]) - 1 /\ Len(queue[s]) \in Nat \ {0}
      /\ queue[s][1] = x
      /\ \A i \in 1..Len(queue[s]) - 1 : queue'[s][i] = queue[s][i + 1]
      /\ \A r \in Services : r # s => queue'[r] = queue[r]
  BY <1>1, TailElems
<1> HIDE DEF Req, x
<1> DEFINE Old(r, i) == IF r = s THEN i + 1 ELSE i
<1>3. \A r \in Services : \A i \in 1..Len(queue'[r]) :
        Old(r, i) \in 1..Len(queue[r]) /\ queue'[r][i] = queue[r][Old(r, i)] /\ (r = s => Old(r, i) # 1)
  <2> SUFFICES ASSUME NEW r \in Services, NEW i \in 1..Len(queue'[r])
               PROVE  Old(r, i) \in 1..Len(queue[r]) /\ queue'[r][i] = queue[r][Old(r, i)] /\ (r = s => Old(r, i) # 1)
    OBVIOUS
  <2>1. CASE r = s
    BY <1>2, <2>1
  <2>2. CASE r # s
    BY <1>2, <2>2
  <2> QED
    BY <2>1, <2>2
<1>4. \A r \in Services : \A i \in 1..Len(queue[r]) :
        \/ r = s /\ i = 1 /\ queue[r][i] = x
        \/ \E j \in 1..Len(queue'[r]) : queue'[r][j] = queue[r][i]
  <2> SUFFICES ASSUME NEW r \in Services, NEW i \in 1..Len(queue[r]), ~(r = s /\ i = 1)
               PROVE  \E j \in 1..Len(queue'[r]) : queue'[r][j] = queue[r][i]
    BY <1>2
  <2>1. CASE r = s
    <3>1. i - 1 \in 1..Len(queue'[r]) /\ queue'[r][i - 1] = queue[r][(i - 1) + 1] /\ (i - 1) + 1 = i
      BY <1>2, <2>1
    <3> QED
      BY <3>1
  <2>2. CASE r # s
    BY <1>2, <2>2
  <2> QED
    BY <2>1, <2>2
<1> SUFFICES ASSUME NEW m \in Msgs
             PROVE  /\ fate'[m] = "queued" <=> \E r \in Services : \E i \in 1..Len(queue'[r]) : Req(queue'[r][i], m)
                    /\ \A a, b \in Services : \A i \in 1..Len(queue'[a]), j \in 1..Len(queue'[b]) :
                         Req(queue'[a][i], m) /\ Req(queue'[b][j], m) => a = b /\ i = j
  BY DEF QueueTrace, Req
<1>5. \A a, b \in Services : \A i \in 1..Len(queue'[a]), j \in 1..Len(queue'[b]) :
        Req(queue'[a][i], m) /\ Req(queue'[b][j], m) => a = b /\ i = j
  <2> TAKE a, b \in Services
  <2> TAKE i \in 1..Len(queue'[a]), j \in 1..Len(queue'[b])
  <2> HAVE Req(queue'[a][i], m) /\ Req(queue'[b][j], m)
  <2>1. /\ Old(a, i) \in 1..Len(queue[a]) /\ Req(queue[a][Old(a, i)], m)
        /\ Old(b, j) \in 1..Len(queue[b]) /\ Req(queue[b][Old(b, j)], m)
    BY <1>3
  <2>2. a = b /\ Old(a, i) = Old(b, j)
    <3> HIDE DEF Old
    <3> QED
      BY <2>1 DEF QueueTrace
  <2> QED
    BY <2>2
<1>6. CASE Req(x, m)
  <2>1. 1 \in 1..Len(queue[s]) /\ Req(queue[s][1], m)
    BY <1>2, <1>6
  <2>2. \A r \in Services : \A i \in 1..Len(queue[r]) : Req(queue[r][i], m) => r = s /\ i = 1
    BY <2>1 DEF QueueTrace
  <2>3. \A r \in Services : \A i \in 1..Len(queue'[r]) : ~Req(queue'[r][i], m)
    BY <1>3, <2>2
  <2>4. fate'[m] # "queued"
    BY <1>6 DEF x
  <2> QED
    BY <1>5, <2>3, <2>4
<1>7. CASE ~Req(x, m)
  <2>1. fate'[m] = "queued" <=> fate[m] = "queued"
    BY <1>7 DEF x
  <2>2. fate[m] = "queued" <=> \E r \in Services : \E i \in 1..Len(queue[r]) : Req(queue[r][i], m)
    BY DEF QueueTrace
  <2>3. (\E r \in Services : \E i \in 1..Len(queue[r]) : Req(queue[r][i], m))
          => \E r \in Services : \E i \in 1..Len(queue'[r]) : Req(queue'[r][i], m)
    BY <1>4, <1>7
  <2>4. (\E r \in Services : \E i \in 1..Len(queue'[r]) : Req(queue'[r][i], m))
          => \E r \in Services : \E i \in 1..Len(queue[r]) : Req(queue[r][i], m)
    BY <1>3
  <2> QED
    BY <1>5, <2>1, <2>2, <2>3, <2>4
<1> QED
  BY <1>6, <1>7

\* A worker's frame changes hands as its old and new content say.
LEMMA HandMove ==
  ASSUME TypeOK, TypeOK', HandTrace, NEW w \in Threads, NEW f, disp' = [disp EXCEPT ![w] = f],
         \A m \in Msgs : fate'[m] = "held" <=> (fate[m] = "held" /\ ~Holds(disp[w], m)) \/ Holds(f, m),
         \A m \in Msgs : Holds(f, m) => fate[m] # "held" \/ Holds(disp[w], m)
  PROVE  HandTrace'
<1>1. disp'[w] = f /\ \A t \in Threads : t # w => disp'[t] = disp[t]
  BY DEF TypeOK
<1> SUFFICES ASSUME NEW m \in Msgs
             PROVE  /\ fate'[m] = "held" <=> \E t \in Threads : Holds(disp'[t], m)
                    /\ \A t, u \in Threads : Holds(disp'[t], m) /\ Holds(disp'[u], m) => t = u
  BY DEF HandTrace, Holds, Req
<1> HIDE DEF Holds
<1> QED
  BY <1>1 DEF HandTrace

\* So does a send in progress.
LEMMA WayMove ==
  ASSUME TypeOK, TypeOK', WayTrace, NEW t \in Threads, NEW f, op' = [op EXCEPT ![t] = f],
         \A m \in Msgs : fate'[m] = "sending" <=>
                           (fate[m] = "sending" /\ ~Sends(op[t], "req", m)) \/ Sends(f, "req", m),
         \A m \in Msgs : Sends(f, "req", m) => fate[m] # "sending" \/ Sends(op[t], "req", m),
         \A m \in Msgs : Sends(f, "err", m) =>
                           fate'[m] = "reporting" /\ (fate[m] # "reporting" \/ Sends(op[t], "err", m)),
         \A m \in Msgs : ~Sends(f, "exit", m),
         \A m \in Msgs : fate[m] = "reporting" => fate'[m] = "reporting" \/ Sends(op[t], "err", m)
  PROVE  WayTrace'
<1>1. op'[t] = f /\ \A u \in Threads : u # t => op'[u] = op[u]
  BY DEF TypeOK
<1> SUFFICES ASSUME NEW m \in Msgs
             PROVE  /\ fate'[m] = "sending" <=> \E u \in Threads : Sends(op'[u], "req", m)
                    /\ \A u \in Threads : Sends(op'[u], "err", m) => fate'[m] = "reporting"
                    /\ \A u \in Threads : ~Sends(op'[u], "exit", m)
                    /\ \A u, v \in Threads :
                         \/ Sends(op'[u], "req", m) /\ Sends(op'[v], "req", m)
                         \/ Sends(op'[u], "err", m) /\ Sends(op'[v], "err", m)
                         => u = v
  BY DEF WayTrace, Sends
<1>2. fate'[m] = "sending" <=> \E u \in Threads : Sends(op'[u], "req", m)
  BY <1>1 DEF WayTrace
<1>3. \A u \in Threads : /\ Sends(op'[u], "err", m) => fate'[m] = "reporting"
                         /\ ~Sends(op'[u], "exit", m)
  BY <1>1 DEF WayTrace
<1>4. \A u, v \in Threads :
        \/ Sends(op'[u], "req", m) /\ Sends(op'[v], "req", m)
        \/ Sends(op'[u], "err", m) /\ Sends(op'[v], "err", m)
        => u = v
  BY <1>1 DEF WayTrace
<1> QED
  BY <1>2, <1>3, <1>4

\* A step that touches no request leaves the traces alone.
LEMMA TraceSame ==
  ASSUME TraceInv, queue' = queue, fate' = fate,
         \A t \in Threads : \A m \in Msgs :
           /\ Holds(disp'[t], m) <=> Holds(disp[t], m)
           /\ Sends(op'[t], "req", m) <=> Sends(op[t], "req", m)
           /\ Sends(op'[t], "err", m) <=> Sends(op[t], "err", m)
           /\ Sends(op'[t], "exit", m) <=> Sends(op[t], "exit", m)
  PROVE  TraceInv'
<1>1. QueueTrace'
  BY DEF TraceInv, QueueTrace, Req
<1>2. HandTrace'
  <2> SUFFICES ASSUME NEW m \in Msgs
               PROVE  /\ fate'[m] = "held" <=> \E t \in Threads : Holds(disp'[t], m)
                      /\ \A t, u \in Threads : Holds(disp'[t], m) /\ Holds(disp'[u], m) => t = u
    BY DEF HandTrace, Holds, Req
  <2> QED
    BY DEF TraceInv, HandTrace
<1>3. WayTrace'
  <2> SUFFICES ASSUME NEW m \in Msgs
               PROVE  /\ fate'[m] = "sending" <=> \E t \in Threads : Sends(op'[t], "req", m)
                      /\ \A t \in Threads : Sends(op'[t], "err", m) => fate'[m] = "reporting"
                      /\ \A t \in Threads : ~Sends(op'[t], "exit", m)
                      /\ \A t, u \in Threads :
                           \/ Sends(op'[t], "req", m) /\ Sends(op'[u], "req", m)
                           \/ Sends(op'[t], "err", m) /\ Sends(op'[u], "err", m)
                           => t = u
    BY DEF WayTrace, Sends
  <2> QED
    BY DEF TraceInv, WayTrace
<1> QED
  BY <1>1, <1>2, <1>3 DEF TraceInv

\* What Fate does to each message.
LEMMA FateAt ==
  ASSUME TypeOK, NEW x, NEW g, fate' = Fate(x, g)
  PROVE  \A m \in Msgs : fate'[m] = IF x.id = m THEN g ELSE fate[m]
  BY DEF Fate, TypeOK

\* A part of the state that a step leaves alone keeps its trace when no
\* message enters or leaves that part in the history either.
LEMMA QueueSame ==
  ASSUME QueueTrace, queue' = queue, \A m \in Msgs : fate'[m] = "queued" <=> fate[m] = "queued"
  PROVE  QueueTrace'
  BY DEF QueueTrace, Req

LEMMA HandSame ==
  ASSUME HandTrace, disp' = disp, \A m \in Msgs : fate'[m] = "held" <=> fate[m] = "held"
  PROVE  HandTrace'
  BY DEF HandTrace, Holds, Req

LEMMA WaySame ==
  ASSUME WayTrace, op' = op, \A m \in Msgs : fate'[m] = "sending" <=> fate[m] = "sending",
         \A m \in Msgs : fate[m] = "reporting" => fate'[m] = "reporting"
  PROVE  WayTrace'
  BY DEF WayTrace, Sends

\* skynet_send of a new message.
LEMMA TraceSend ==
  ASSUME IInv, TraceInv, TypeOK', NEW t \in Threads, Send(t)
  PROVE  TraceInv'
<1>1. PICK m \in Msgs, d \in Services :
        /\ fate[m] = "unsent"
        /\ op' = [op EXCEPT ![t] = SendOp([typ |-> "req", id |-> m, src |-> Self(t)], d, NoService)]
        /\ fate' = [fate EXCEPT ![m] = "sending"]
  BY DEF Send
<1> DEFINE f == SendOp([typ |-> "req", id |-> m, src |-> Self(t)], d, NoService)
<1>2. \A k \in Msgs : /\ Sends(f, "req", k) <=> k = m
                      /\ ~Sends(f, "err", k) /\ ~Sends(f, "exit", k)
                      /\ ~Sends(op[t], "req", k) /\ ~Sends(op[t], "err", k)
  BY DEF Send, Running, SendOp, Sends
<1>3. \A k \in Msgs : fate'[k] = IF k = m THEN "sending" ELSE fate[k]
  BY <1>1 DEF IInv, TypeOK
<1>4. queue' = queue /\ disp' = disp
  BY DEF Send, mqVars
<1>5. QueueTrace' /\ HandTrace'
  BY <1>1, <1>3, <1>4, QueueSame, HandSame DEF TraceInv
<1>6. WayTrace'
  <2>1. op' = [op EXCEPT ![t] = f]
    BY <1>1
  <2> HIDE DEF f
  <2>2. /\ \A k \in Msgs : fate'[k] = "sending" <=>
             (fate[k] = "sending" /\ ~Sends(op[t], "req", k)) \/ Sends(f, "req", k)
        /\ \A k \in Msgs : Sends(f, "req", k) => fate[k] # "sending" \/ Sends(op[t], "req", k)
        /\ \A k \in Msgs : fate[k] = "reporting" => fate'[k] = "reporting" \/ Sends(op[t], "err", k)
    BY <1>1, <1>2, <1>3
  <2>3. TypeOK /\ WayTrace
    BY DEF IInv, TraceInv
  <2> QED
    BY <1>2, <2>1, <2>2, <2>3, WayMove
<1> QED
  BY <1>5, <1>6 DEF TraceInv

\* What a send in progress says of its message's history.
LEMMA SendFacts ==
  ASSUME IInv, TraceInv, NEW t \in Threads, op[t].pc \in {"grab", "push"}
  PROVE  /\ op[t].msg \in Message /\ op[t].msg.typ \in {"req", "err", "exit"}
         /\ \A m \in Msgs : op[t].msg.id = m =>
              /\ op[t].msg.typ = "req" => fate[m] = "sending" /\ Sends(op[t], "req", m)
              /\ op[t].msg.typ = "err" => fate[m] = "reporting" /\ Sends(op[t], "err", m)
              /\ op[t].msg.typ # "exit"
         /\ \A m \in Msgs : Sends(op[t], "req", m) <=> op[t].msg.typ = "req" /\ op[t].msg.id = m
         /\ \A m \in Msgs : Sends(op[t], "err", m) <=> op[t].msg.typ = "err" /\ op[t].msg.id = m
<1>1. op[t].msg \in Message /\ op[t].msg.typ \in {"req", "err", "exit"}
  BY DEF IInv, FrameInv, Message
<1>2. \A m \in Msgs : /\ Sends(op[t], "req", m) => fate[m] = "sending"
                      /\ Sends(op[t], "err", m) => fate[m] = "reporting"
                      /\ ~Sends(op[t], "exit", m)
  BY DEF TraceInv, WayTrace
<1> QED
  BY <1>1, <1>2 DEF Sends

\* A send that ends here, refused or pushed: the message leaves the sender.
LEMMA WayEnds ==
  ASSUME IInv, TraceInv, TypeOK', NEW t \in Threads, op[t].pc \in {"grab", "push"},
         NEW f, op' = [op EXCEPT ![t] = f], f.pc \notin {"grab", "push"},
         NEW g, g \notin {"sending", "reporting"}, fate' = Fate(op[t].msg, g)
  PROVE  WayTrace'
<1>1. \A m \in Msgs : fate'[m] = IF op[t].msg.id = m THEN g ELSE fate[m]
  BY FateAt DEF IInv
<1>2. \A m \in Msgs : ~Sends(f, "req", m) /\ ~Sends(f, "err", m) /\ ~Sends(f, "exit", m)
  BY DEF Sends
<1>3. /\ \A m \in Msgs : fate'[m] = "sending" <=>
           (fate[m] = "sending" /\ ~Sends(op[t], "req", m)) \/ Sends(f, "req", m)
      /\ \A m \in Msgs : fate[m] = "reporting" => fate'[m] = "reporting" \/ Sends(op[t], "err", m)
  <2> SUFFICES ASSUME NEW m \in Msgs
               PROVE  /\ fate'[m] = "sending" <=> fate[m] = "sending" /\ ~Sends(op[t], "req", m)
                      /\ fate[m] = "reporting" => fate'[m] = "reporting" \/ Sends(op[t], "err", m)
    BY <1>2
  <2>1. CASE op[t].msg.id = m
    BY <1>1, <2>1, SendFacts
  <2>2. CASE op[t].msg.id # m
    BY <1>1, <2>2, SendFacts
  <2> QED
    BY <2>1, <2>2
<1>4. TypeOK /\ WayTrace
  BY DEF IInv, TraceInv
<1> QED
  BY <1>2, <1>3, <1>4, WayMove

\* skynet_send of a message to a handle that is no longer mapped.
LEMMA TraceRefused ==
  ASSUME IInv, TraceInv, TypeOK', NEW t \in Threads, PushRefused(t)
  PROVE  TraceInv'
<1> DEFINE g == IF op[t].msg.typ = "err" THEN "unreported" ELSE "refused"
<1>1. /\ op[t].pc \in {"grab", "push"} /\ op' = [op EXCEPT ![t] = AfterSend(t)]
      /\ fate' = Fate(op[t].msg, g) /\ queue' = queue /\ disp' = disp
  BY DEF PushRefused, mqVars
<1>2. AfterSend(t).pc \notin {"grab", "push"} /\ g \in {"unreported", "refused"}
  BY DEF AfterSend, IdleOp, RetireOp
<1> HIDE DEF g
<1>3. \A m \in Msgs : fate'[m] = IF op[t].msg.id = m THEN g ELSE fate[m]
  BY <1>1, FateAt DEF IInv
<1>4. \A m \in Msgs : op[t].msg.id = m => fate[m] \in {"sending", "reporting"}
  BY <1>1, SendFacts
<1>5. \A m \in Msgs : /\ fate'[m] = "queued" <=> fate[m] = "queued"
                      /\ fate'[m] = "held" <=> fate[m] = "held"
  BY <1>2, <1>3, <1>4
<1>6. QueueTrace' /\ HandTrace'
  BY <1>1, <1>5, QueueSame, HandSame DEF TraceInv
<1>7. WayTrace'
  BY <1>1, <1>2, WayEnds
<1> QED
  BY <1>6, <1>7 DEF TraceInv

\* skynet_mq_push: a request enters the queue, and the report of a loss has
\* been delivered.
LEMMA TracePush ==
  ASSUME IInv, TraceInv, TypeOK', NEW t \in Threads, Push(t)
  PROVE  TraceInv'
<1> DEFINE x == op[t].msg
           g == IF op[t].msg.typ = "err" THEN "reported" ELSE "queued"
<1>1. /\ op[t].pc \in {"grab", "push"} /\ op' = [op EXCEPT ![t] = OpTo(op[t], "rel")]
      /\ fate' = Fate(x, g) /\ disp' = disp
      /\ queue' = [queue EXCEPT ![op[t].svc] = Append(@, x)]
  BY DEF Push, mq_push, IInv, TypeOK
<1>2. OpTo(op[t], "rel").pc \notin {"grab", "push"} /\ g \in {"reported", "queued"}
  BY DEF OpTo
<1>3. \A m \in Msgs : fate'[m] = IF x.id = m THEN g ELSE fate[m]
  BY <1>1, FateAt DEF IInv
<1>4. \A m \in Msgs : x.id = m => /\ fate[m] \in {"sending", "reporting"}
                                  /\ fate[m] = "sending" <=> x.typ = "req"
                                  /\ x.typ \in {"req", "err"}
  BY <1>1, SendFacts
<1>5. /\ \A m \in Msgs : fate'[m] = "queued" <=> fate[m] = "queued" \/ Req(x, m)
      /\ \A m \in Msgs : Req(x, m) => fate[m] # "queued"
      /\ \A m \in Msgs : fate'[m] = "held" <=> fate[m] = "held"
  BY <1>3, <1>4 DEF Req
<1>6. x \in Message /\ op[t].svc \in Services /\ TypeOK /\ QueueTrace /\ HandTrace
  BY <1>1, SendFacts DEF IInv, TypeOK, FrameInv, OpFrame, Null, TraceInv
<1>7. QueueTrace'
  <2> HIDE DEF x, g
  <2> QED
    BY <1>1, <1>5, <1>6, QueueAppend
<1>8. HandTrace'
  BY <1>1, <1>5, <1>6, HandSame
<1>9. WayTrace'
  <2> HIDE DEF g
  <2> QED
    BY <1>1, <1>2, WayEnds
<1> QED
  BY <1>7, <1>8, <1>9 DEF TraceInv

\* The oldest message of a queue, and what its history says.
LEMMA HeadFacts ==
  ASSUME IInv, TraceInv, NEW s \in Services, queue[s] # <<>>
  PROVE  /\ Head(queue[s]) \in Message
         /\ \A m \in Msgs : Req(Head(queue[s]), m) => fate[m] = "queued"
<1>1. queue[s] \in Seq(Message)
  BY DEF IInv, TypeOK, MQTypeOK
<1>2. Head(queue[s]) \in Message /\ Head(queue[s]) = queue[s][1] /\ 1 \in 1..Len(queue[s])
  BY <1>1, TailElems
<1> QED
  BY <1>2 DEF TraceInv, QueueTrace

\* skynet_mq_pop by a worker that dispatches: the request is in its hands.
LEMMA TracePop ==
  ASSUME IInv, TraceInv, TypeOK', NEW w \in Threads, Pop(w)
  PROVE  TraceInv'
<1> DEFINE s == disp[w].q
           x == Head(queue[s])
           f == [pc |-> IF disp[w].i = 0 /\ Weight[w] >= 0 THEN "len" ELSE "call",
                 q |-> s, nq |-> disp[w].nq, i |-> disp[w].i, n |-> disp[w].n, msg |-> x]
<1>1. /\ disp[w].pc = "pop" /\ queue[s] # <<>> /\ op' = op
      /\ queue' = [queue EXCEPT ![s] = Tail(@)]
      /\ disp' = [disp EXCEPT ![w] = f]
      /\ fate' = IF x.typ = "req" THEN Fate(x, "held") ELSE fate
  BY DEF Pop, Top, mq_pop, IInv, TypeOK
<1>2. s \in Services
  BY <1>1 DEF IInv, TypeOK, FrameInv, DispFrame, Null
<1>3. x \in Message /\ \A m \in Msgs : Req(x, m) => fate[m] = "queued"
  BY <1>1, <1>2, HeadFacts
<1>4. \A m \in Msgs : (Holds(f, m) <=> Req(x, m)) /\ ~Holds(disp[w], m)
  BY <1>1 DEF Holds
<1> HIDE DEF x, f
<1>5. \A m \in Msgs : fate'[m] = IF Req(x, m) THEN "held" ELSE fate[m]
  <2>1. CASE x.typ = "req"
    BY <1>1, <2>1, FateAt DEF IInv, Req
  <2>2. CASE x.typ # "req"
    BY <1>1, <2>2 DEF Req
  <2> QED
    BY <2>1, <2>2
<1>6. TypeOK /\ QueueTrace /\ HandTrace /\ WayTrace
  BY DEF IInv, TraceInv
<1>7. QueueTrace'
  <2>1. \A m \in Msgs : fate'[m] = "queued" <=> fate[m] = "queued" /\ ~Req(Head(queue[s]), m)
    BY <1>5 DEF x
  <2> HIDE DEF s
  <2> QED
    BY <1>1, <1>2, <1>6, <2>1, QueueTail
<1>8. HandTrace'
  <2>1. \A m \in Msgs : /\ fate'[m] = "held" <=> (fate[m] = "held" /\ ~Holds(disp[w], m)) \/ Holds(f, m)
                        /\ Holds(f, m) => fate[m] # "held" \/ Holds(disp[w], m)
    BY <1>3, <1>4, <1>5
  <2> QED
    BY <1>1, <1>6, <2>1, HandMove
<1>9. WayTrace'
  <2>1. \A m \in Msgs : /\ fate'[m] = "sending" <=> fate[m] = "sending"
                        /\ fate[m] = "reporting" => fate'[m] = "reporting"
    BY <1>3, <1>5
  <2> QED
    BY <1>1, <1>6, <2>1, WaySame
<1> QED
  BY <1>7, <1>8, <1>9 DEF TraceInv

\* _drop_queue takes a message out of a queue without a context; the report
\* of drop_message is on its way, unless the source is handle 0.
LEMMA TraceDrop ==
  ASSUME IInv, TraceInv, TypeOK', NEW t \in Threads, NEW s \in Services, op[t].pc = "idle",
         mq_pop(s), op' = [op EXCEPT ![t] = DropOp(s, Head(queue[s]))],
         fate' = DropFate(Head(queue[s])), disp' = disp
  PROVE  TraceInv'
<1> DEFINE x == Head(queue[s])
           f == DropOp(s, x)
<1>1. queue[s] # <<>> /\ queue' = [queue EXCEPT ![s] = Tail(@)]
  BY DEF mq_pop
<1>2. x \in Message /\ \A m \in Msgs : Req(x, m) => fate[m] = "queued"
  BY <1>1, HeadFacts
<1>3. TypeOK /\ QueueTrace /\ HandTrace /\ WayTrace
  BY DEF IInv, TraceInv
<1>4. \A m \in Msgs : /\ ~Sends(op[t], "req", m) /\ ~Sends(op[t], "err", m)
                      /\ ~Sends(f, "req", m) /\ ~Sends(f, "exit", m)
                      /\ Sends(f, "err", m) <=> Req(x, m) /\ x.src # NoService
  <2> HIDE DEF x
  <2> QED
    BY <1>2, NullAssumption DEF Sends, DropOp, SendOp, IdleOp, Req, Message
<1>5. \A m \in Msgs : fate'[m] = IF Req(x, m)
                                 THEN IF x.src = NoService THEN "dropped" ELSE "reporting"
                                 ELSE fate[m]
  <2> DEFINE g == IF x.src = NoService THEN "dropped" ELSE "reporting"
  <2>1. fate' = IF x.typ # "req" THEN fate ELSE Fate(x, g)
    BY DEF DropFate
  <2> HIDE DEF x, g
  <2>2. CASE x.typ = "req"
    <3>1. \A m \in Msgs : fate'[m] = IF x.id = m THEN g ELSE fate[m]
      BY <2>1, <2>2, FateAt DEF IInv
    <3> QED
      BY <2>2, <3>1 DEF Req, g
  <2>3. CASE x.typ # "req"
    BY <2>1, <2>3 DEF Req
  <2> QED
    BY <2>2, <2>3
<1>6. QueueTrace'
  <2>1. \A m \in Msgs : fate'[m] = "queued" <=> fate[m] = "queued" /\ ~Req(Head(queue[s]), m)
    BY <1>5
  <2> QED
    BY <1>1, <1>3, <2>1, QueueTail
<1> HIDE DEF x, f
<1>7. HandTrace'
  <2>1. \A m \in Msgs : fate'[m] = "held" <=> fate[m] = "held"
    BY <1>2, <1>5
  <2> QED
    BY <1>3, <2>1, HandSame
<1>8. WayTrace'
  <2>1. op' = [op EXCEPT ![t] = f]
    BY DEF f, x
  <2>2. \A m \in Msgs :
          /\ fate'[m] = "sending" <=> (fate[m] = "sending" /\ ~Sends(op[t], "req", m)) \/ Sends(f, "req", m)
          /\ Sends(f, "err", m) => fate'[m] = "reporting" /\ (fate[m] # "reporting" \/ Sends(op[t], "err", m))
          /\ fate[m] = "reporting" => fate'[m] = "reporting" \/ Sends(op[t], "err", m)
    BY <1>2, <1>4, <1>5
  <2> QED
    BY <1>3, <1>4, <2>1, <2>2, WayMove
<1> QED
  BY <1>6, <1>7, <1>8 DEF TraceInv

\* dispatch_message ends the journey: the callback runs, or the message is
\* freed for want of one.
LEMMA TraceCall ==
  ASSUME IInv, TraceInv, TypeOK', NEW w \in Threads, disp[w].pc = "call",
         NEW f, disp' = [disp EXCEPT ![w] = f], f.pc \notin {"len", "call"},
         NEW g, g \in {"dispatched", "discarded"},
         disp[w].msg.typ = "req" => fate' = Fate(disp[w].msg, g),
         disp[w].msg.typ # "req" => fate' = fate,
         queue' = queue, op' = op
  PROVE  TraceInv'
<1> DEFINE x == disp[w].msg
<1>1. \A m \in Msgs : (Holds(disp[w], m) <=> Req(x, m)) /\ ~Holds(f, m)
  BY DEF Holds
<1>2. \A m \in Msgs : Req(x, m) => fate[m] = "held"
  BY <1>1 DEF TraceInv, HandTrace
<1> HIDE DEF x
<1>3. \A m \in Msgs : fate'[m] = IF Req(x, m) THEN g ELSE fate[m]
  <2>1. CASE x.typ = "req"
    BY <2>1, FateAt DEF IInv, Req, x
  <2>2. CASE x.typ # "req"
    BY <2>2 DEF Req, x
  <2> QED
    BY <2>1, <2>2
<1>4. \A m \in Msgs : /\ fate'[m] = "queued" <=> fate[m] = "queued"
                      /\ fate'[m] = "sending" <=> fate[m] = "sending"
                      /\ fate[m] = "reporting" => fate'[m] = "reporting"
                      /\ fate'[m] = "held" <=> (fate[m] = "held" /\ ~Holds(disp[w], m)) \/ Holds(f, m)
  BY <1>1, <1>2, <1>3
<1>5. TypeOK /\ QueueTrace /\ HandTrace /\ WayTrace
  BY DEF IInv, TraceInv
<1> QED
  BY <1>1, <1>4, <1>5, QueueSame, HandMove, WaySame DEF TraceInv

\* skynet_mq_create makes a queue that was empty before, so loses nothing.
LEMMA TraceCreate ==
  ASSUME IInv, TraceInv, NEW t \in Threads, CreateQueue(t)
  PROVE  TraceInv'
<1>1. cmd[t].svc \in Services /\ cmd[t].pc = "mq"
  BY DEF CreateQueue, IInv, TypeOK, FrameInv, CmdFrame, Null
<1>2. queue[cmd[t].svc] = <<>>
  BY <1>1 DEF IInv, FlagInv, LifeInv
<1>3. queue' = queue
  BY <1>1, <1>2 DEF CreateQueue, mq_create, IInv, TypeOK, MQTypeOK
<1> QED
  BY <1>3, TraceSame DEF CreateQueue

\* A step of one thread that carries no message before or after it.
LEMMA TraceQuiet ==
  ASSUME TraceInv, NEW t \in Threads, queue' = queue, fate' = fate,
         \A u \in Threads : u # t => op'[u] = op[u] /\ disp'[u] = disp[u],
         op'[t] = op[t] \/ (op[t].pc \notin {"grab", "push"} /\ op'[t].pc \notin {"grab", "push"}),
         disp'[t] = disp[t] \/ (disp[t].pc \notin {"len", "call"} /\ disp'[t].pc \notin {"len", "call"})
  PROVE  TraceInv'
<1>1. \A u \in Threads : \A m \in Msgs :
        /\ Holds(disp'[u], m) <=> Holds(disp[u], m)
        /\ Sends(op'[u], "req", m) <=> Sends(op[u], "req", m)
        /\ Sends(op'[u], "err", m) <=> Sends(op[u], "err", m)
        /\ Sends(op'[u], "exit", m) <=> Sends(op[u], "exit", m)
  BY DEF Holds, Sends
<1> QED
  BY <1>1, TraceSame

\* The steps of the frames that carry no message.
LEMMA TraceOther ==
  ASSUME IInv, TraceInv, NEW t \in Threads,
         \/ Release(t) \/ Delete(t) \/ Retire(t) \/ RetireNothing(t) \/ Launch(t) \/ Abort(t)
         \/ InitOK(t) \/ SetInit(t) \/ LaunchPush(t) \/ InitFail(t) \/ LaunchRetire(t)
         \/ LaunchMqRelease(t) \/ LaunchDropDone(t) \/ AbortSlot(t) \/ AbortPass(t)
         \/ TakeQueue(t) \/ TakeNothing(t) \/ Grab(t) \/ MqRelease(t) \/ DropDone(t) \/ PopEmpty(t)
         \/ Return(t) \/ EndTake(t) \/ PushBack(t) \/ EndKeep(t)
  PROVE  TraceInv'
<1> USE TraceQuiet DEF mqVars
<1>0. op \in [Threads -> OpFrame] /\ disp \in [Threads -> DispFrame]
  BY DEF IInv, TypeOK
<1>1. CASE Release(t)
  BY <1>0, <1>1 DEF Release, AfterSend, IdleOp, RetireOp, OpTo
<1>2. CASE Delete(t)
  BY <1>0, <1>2 DEF Delete, mark_release, AfterSend, IdleOp, RetireOp
<1>3. CASE Retire(t)
  BY <1>0, <1>3 DEF Retire, ReleaseOp
<1>4. CASE RetireNothing(t)
  BY <1>0, <1>4 DEF RetireNothing, IdleOp
<1>5. CASE Launch(t)
  BY <1>0, <1>5 DEF Launch
<1>6. CASE Abort(t)
  BY <1>0, <1>6 DEF Abort
<1>7. CASE InitOK(t)
  BY <1>0, <1>7 DEF InitOK, ReleaseOp
<1>8. CASE SetInit(t)
  BY <1>0, <1>8 DEF SetInit
<1>9. CASE LaunchPush(t)
  BY <1>0, <1>9 DEF LaunchPush
<1>10. CASE InitFail(t)
  BY <1>0, <1>10 DEF InitFail, ReleaseOp
<1>11. CASE LaunchRetire(t)
  BY <1>0, <1>11 DEF LaunchRetire, RetireOp
<1>12. CASE LaunchMqRelease(t)
  BY <1>0, <1>12 DEF LaunchMqRelease
<1>13. CASE LaunchDropDone(t)
  BY <1>0, <1>13 DEF LaunchDropDone, drop_done
<1>14. CASE AbortSlot(t)
  BY <1>0, <1>14 DEF AbortSlot, RetireOp
<1>15. CASE AbortPass(t)
  BY <1>0, <1>15 DEF AbortPass
<1>16. CASE TakeQueue(t)
  BY <1>0, <1>16 DEF TakeQueue, Top, DispAt
<1>17. CASE TakeNothing(t)
  BY <1>0, <1>17 DEF TakeNothing, Top, DispAt
<1>18. CASE Grab(t)
  BY <1>0, <1>18 DEF Grab, Top, DispAt, DispTo
<1>19. CASE MqRelease(t)
  BY <1>0, <1>19 DEF MqRelease, Top, DispAt, DispTo
<1>20. CASE DropDone(t)
  BY <1>0, <1>20 DEF DropDone, drop_done, Top, DispAt
<1>21. CASE PopEmpty(t)
  BY <1>0, <1>21 DEF PopEmpty, mq_pop_empty, Top, DispAt, ReleaseOp
<1>22. CASE Return(t)
  BY <1>0, <1>22 DEF Return, Top, Next_i
<1>23. CASE EndTake(t)
  BY <1>0, <1>23 DEF EndTake, Top
<1>24. CASE PushBack(t)
  BY <1>0, <1>24 DEF PushBack, Top, DispAt, ReleaseOp
<1>25. CASE EndKeep(t)
  BY <1>0, <1>25 DEF EndKeep, Top, DispAt, ReleaseOp
<1> QED
  BY <1>1, <1>2, <1>3, <1>4, <1>5, <1>6, <1>7, <1>8, <1>9, <1>10, <1>11, <1>12, <1>13,
     <1>14, <1>15, <1>16, <1>17, <1>18, <1>19, <1>20, <1>21, <1>22, <1>23, <1>24, <1>25

\* Every step keeps the traces.
LEMMA TraceStep ==
  ASSUME IInv, TraceInv, [Next]_vars
  PROVE  TraceInv'
<1>0. TypeOK' /\ op \in [Threads -> OpFrame] /\ disp \in [Threads -> DispFrame]
  BY TypeStep DEF IInv, TypeOK
<1>1. ASSUME NEW t \in Threads, OpStep(t) PROVE TraceInv'
  <2>1. CASE PushGrab(t)
    <3>1. /\ queue' = queue /\ fate' = fate /\ disp' = disp
          /\ op' = [op EXCEPT ![t] = OpTo(op[t], "push")] /\ op[t].pc = "grab"
      BY <1>0, <2>1 DEF PushGrab, mqVars
    <3>2. \A u \in Threads : \A k : \A m \in Msgs : Sends(op'[u], k, m) <=> Sends(op[u], k, m)
      BY <1>0, <3>1 DEF Sends, OpTo
    <3> QED
      BY <3>1, <3>2, TraceSame
  <2>2. CASE PushRefused(t)
    BY <1>0, <2>2, TraceRefused
  <2>3. CASE Push(t)
    BY <1>0, <2>3, TracePush
  <2>4. CASE Release(t) \/ Delete(t) \/ Retire(t) \/ RetireNothing(t)
    BY <2>4, TraceOther
  <2> QED
    BY <1>1, <2>1, <2>2, <2>3, <2>4 DEF OpStep
<1>2. ASSUME NEW t \in Threads, CmdStep(t) PROVE TraceInv'
  <2>1. CASE CreateQueue(t)
    BY <2>1, TraceCreate
  <2>2. CASE LaunchDrop(t)
    <3>1. cmd[t].svc \in Services
      BY <2>2 DEF LaunchDrop, IInv, TypeOK, FrameInv, CmdFrame, Null
    <3> QED
      BY <1>0, <2>2, <3>1, TraceDrop DEF LaunchDrop
  <2>3. CASE ~(CreateQueue(t) \/ LaunchDrop(t))
    BY <1>2, <2>3, TraceOther DEF CmdStep
  <2> QED
    BY <2>1, <2>2, <2>3
<1>3. ASSUME NEW t \in Threads, Send(t) \/ Kill(t) \/ Launch(t) \/ Abort(t) PROVE TraceInv'
  <2>1. CASE Send(t)
    BY <1>0, <2>1, TraceSend
  <2>2. CASE Kill(t)
    <3>1. queue' = queue /\ fate' = fate /\ disp' = disp /\ op[t].pc = "idle"
      BY <2>2 DEF Kill, Running, mqVars
    <3>2. PICK f : /\ op' = [op EXCEPT ![t] = f]
                   /\ f.pc = "retire" \/ (f.msg.typ = "exit" /\ f.msg.id = NoMsg)
      BY <2>2 DEF Kill, RetireOp, SendOp
    <3>3. \A u \in Threads : \A k : \A m \in Msgs : Sends(op'[u], k, m) <=> Sends(op[u], k, m)
      BY <1>0, <3>1, <3>2, NullAssumption DEF Sends
    <3> QED
      BY <3>1, <3>3, TraceSame
  <2>3. CASE Launch(t) \/ Abort(t)
    BY <2>3, TraceOther
  <2> QED
    BY <1>3, <2>1, <2>2, <2>3
<1>4. ASSUME NEW w \in Workers, DispStep(w) PROVE TraceInv'
  <2>0. w \in Threads
    BY DEF Threads
  <2>1. CASE Pop(w)
    BY <1>0, <2>0, <2>1, TracePop
  <2>2. CASE Drop(w)
    <3>1. disp[w].q \in Services
      BY <2>0, <2>2 DEF Drop, Top, IInv, TypeOK, FrameInv, DispFrame, Null
    <3> QED
      BY <1>0, <2>0, <2>2, <3>1, TraceDrop DEF Drop, Top
  <2>3. CASE Length(w)
    <3>1. queue' = queue /\ fate' = fate /\ op' = op /\ disp[w].pc = "len"
      BY <2>3 DEF Length, Top, mqVars
    <3> DEFINE n == ShiftRight(Len(queue[disp[w].q]), Weight[w])
               f == [pc |-> "call", q |-> disp[w].q, nq |-> disp[w].nq, i |-> disp[w].i,
                     msg |-> disp[w].msg, n |-> n]
    <3>2. disp' = [disp EXCEPT ![w] = f] /\ f.pc = "call" /\ f.msg = disp[w].msg
      <4>1. disp' = [disp EXCEPT ![w] = f]
        BY <2>3 DEF Length
      <4> HIDE DEF n
      <4> QED
        BY <4>1
    <3> HIDE DEF f
    <3>3. \A u \in Threads : \A m \in Msgs : Holds(disp'[u], m) <=> Holds(disp[u], m)
      BY <1>0, <2>0, <3>1, <3>2 DEF Holds
    <3> QED
      BY <3>1, <3>3, TraceSame
  <2>4. CASE Call(w) \/ Discard(w)
    <3>1. PICK f : disp' = [disp EXCEPT ![w] = f] /\ f.pc \notin {"len", "call"}
      BY <1>0, <2>0, <2>4 DEF Call, DispTo, Discard, Next_i
    <3>2. disp[w].pc = "call" /\ queue' = queue /\ op' = op
      BY <2>4 DEF Call, Discard, Top, mqVars
    <3>3. PICK g \in {"dispatched", "discarded"} :
            /\ disp[w].msg.typ = "req" => fate' = Fate(disp[w].msg, g)
            /\ disp[w].msg.typ # "req" => fate' = fate
      BY <2>4 DEF Call, Discard
    <3> QED
      BY <1>0, <2>0, <3>1, <3>2, <3>3, TraceCall
  <2>5. CASE ~(Pop(w) \/ Drop(w) \/ Length(w) \/ Call(w) \/ Discard(w))
    BY <1>4, <2>0, <2>5, TraceOther DEF DispStep
  <2> QED
    BY <2>1, <2>2, <2>3, <2>4, <2>5
<1>5. CASE UNCHANGED vars
  BY <1>5, TraceSame DEF vars
<1> QED
  BY <1>1, <1>2, <1>3, <1>4, <1>5 DEF Next

\* When the threads start, the bootstrap message is in its queue and no other
\* has been sent.
LEMMA InitTrace ==
  ASSUME Init
  PROVE  TraceInv
<1>1. /\ \A t \in Threads : op[t].pc = "idle" /\ disp[t].pc \in {"idle", "ext"}
      /\ \A m \in Msgs : fate[m] = IF m = BootMsg THEN "queued" ELSE "unsent"
  BY DEF Init, IdleOp, DispAt
<1>2. /\ Len(queue[Boot]) = 1 /\ Req(queue[Boot][1], BootMsg)
      /\ \A s \in Services : s # Boot => Len(queue[s]) = 0
      /\ \A m \in Msgs : Req(queue[Boot][1], m) => m = BootMsg
  BY BootAssumption DEF Init, Req
<1>3. QueueTrace
  <2>1. \A s \in Services : \A i \in 1..Len(queue[s]) : s = Boot /\ i = 1
    <3> TAKE s \in Services
    <3>1. CASE s = Boot
      <4>1. Len(queue[s]) = 1
        BY <1>2, <3>1
      <4> QED
        BY <3>1, <4>1
    <3>2. CASE s # Boot
      BY <1>2, <3>2
    <3> QED
      BY <3>1, <3>2
  <2>2. 1 \in 1..Len(queue[Boot])
    BY <1>2
  <2>3. ASSUME NEW m \in Msgs
        PROVE  fate[m] = "queued" <=> \E s \in Services : \E i \in 1..Len(queue[s]) : Req(queue[s][i], m)
    <3>1. CASE m = BootMsg
      BY <1>1, <1>2, <2>2, <3>1, BootAssumption
    <3>2. CASE m # BootMsg
      BY <1>1, <1>2, <2>1, <3>2
    <3> QED
      BY <3>1, <3>2
  <2> QED
    BY <2>1, <2>3 DEF QueueTrace
<1>4. HandTrace /\ WayTrace
  BY <1>1 DEF HandTrace, WayTrace, Holds, Sends
<1> QED
  BY <1>3, <1>4 DEF TraceInv

\* A set is a singleton exactly when its cardinality is 1, and is empty when
\* it has no member.
LEMMA AtMostOne ==
  ASSUME NEW S, \A a, b \in S : a = b
  PROVE  /\ Cardinality(S) = 1 <=> \E a : a \in S
         /\ Cardinality(S) = 0 <=> ~\E a : a \in S
         /\ Cardinality(S) \in {0, 1}
<1>1. CASE S = {}
  BY <1>1, FS_EmptySet
<1>2. CASE S # {}
  <2>1. PICK a : S = {a}
    BY <1>2
  <2>2. Cardinality(S) = 1
    BY <2>1, FS_Singleton
  <2> QED
    BY <2>1, <2>2
<1> QED
  BY <1>1, <1>2

\* No message is lost or delivered twice, for any number of workers, services
\* and messages: an accepted request is in one place of one queue until one
\* worker has it, however pushes, pops, retirements, failed launches and the
\* dropping of queues interleave (skynet_mq_push, skynet_mq_pop, _drop_queue).
THEOREM Conservation == Spec => []MessageConserved
<1>1. ASSUME TraceInv PROVE MessageConserved
  <2> SUFFICES ASSUME NEW m \in Msgs
               PROVE  LET places == UNION {{<<s, i>> : i \in {j \in 1..Len(queue[s]) :
                               queue[s][j].typ = "req" /\ queue[s][j].id = m}} : s \in Services}
                          hands == {t \in Threads : disp[t].msg.typ = "req" /\ disp[t].msg.id = m
                                                     /\ disp[t].pc \in {"len", "call"}}
                      IN  /\ fate[m] = "queued" <=> Cardinality(places) = 1
                          /\ fate[m] = "held" <=> Cardinality(hands) = 1
                          /\ Cardinality(places) + Cardinality(hands) <= 1
    BY DEF MessageConserved
  <2> DEFINE places == UNION {{<<s, i>> : i \in {j \in 1..Len(queue[s]) :
                         queue[s][j].typ = "req" /\ queue[s][j].id = m}} : s \in Services}
             hands == {t \in Threads : disp[t].msg.typ = "req" /\ disp[t].msg.id = m
                                         /\ disp[t].pc \in {"len", "call"}}
  <2>1. \A p : p \in places <=>
          \E s \in Services : \E i \in 1..Len(queue[s]) : p = <<s, i>> /\ Req(queue[s][i], m)
    BY DEF Req
  <2>2. \A t : t \in hands <=> t \in Threads /\ Holds(disp[t], m)
    BY DEF Holds, Req
  <2> HIDE DEF places, hands
  <2>3. /\ \A p, r \in places : p = r
        /\ fate[m] = "queued" <=> \E p : p \in places
    <3>1. /\ fate[m] = "queued" <=> \E s \in Services : \E i \in 1..Len(queue[s]) : Req(queue[s][i], m)
          /\ \A s, r \in Services : \A i \in 1..Len(queue[s]), j \in 1..Len(queue[r]) :
               Req(queue[s][i], m) /\ Req(queue[r][j], m) => s = r /\ i = j
      BY <1>1 DEF TraceInv, QueueTrace
    <3>2. \A p, r \in places : p = r
      <4> TAKE p, r \in places
      <4>1. PICK s \in Services : \E i \in 1..Len(queue[s]) : p = <<s, i>> /\ Req(queue[s][i], m)
        BY <2>1
      <4>2. PICK z \in Services : \E j \in 1..Len(queue[z]) : r = <<z, j>> /\ Req(queue[z][j], m)
        BY <2>1
      <4> QED
        BY <3>1, <4>1, <4>2
    <3> QED
      BY <2>1, <3>1, <3>2
  <2>4. /\ \A t, u \in hands : t = u
        /\ fate[m] = "held" <=> \E t : t \in hands
    BY <1>1, <2>2 DEF TraceInv, HandTrace
  <2>5. /\ fate[m] = "queued" <=> Cardinality(places) = 1
        /\ fate[m] = "held" <=> Cardinality(hands) = 1
        /\ Cardinality(places) \in {0, 1} /\ Cardinality(hands) \in {0, 1}
    BY <2>3, <2>4, AtMostOne
  <2> QED
    BY <2>5 DEF places, hands
<1>2. Init => TraceInv
  BY InitTrace
<1>3. IInv /\ TraceInv /\ [Next]_vars => TraceInv'
  BY TraceStep
<1> QED
  BY <1>1, <1>2, <1>3, Inductive, PTL DEF Spec

\* A deleted context stays deleted: its handle is not mapped and nothing is
\* pushed to its queue again, although sends that looked it up before may
\* still be on their way (skynet_handle_grab, skynet_context_release).
THEOREM DeletedForGood == Spec => DeadStaysDead
<1> DEFINE Stays == \A s \in Services : ctx[s] = "freed" =>
                      Len(queue'[s]) <= Len(queue[s]) /\ ~slot'[s] /\ ctx'[s] = "freed"
<1>1. ASSUME IInv, [Next]_vars, NEW s \in Services, ctx[s] = "freed"
      PROVE  Len(queue'[s]) <= Len(queue[s]) /\ ~slot'[s] /\ ctx'[s] = "freed"
  <2>1. ref[s] = 0
    BY <1>1 DEF IInv, LifeInv
  <2>2. ~slot[s] /\ \A t \in Threads : op[t].pc = "push" => op[t].svc # s
    BY <1>1, <2>1, RefPositive DEF IInv, OpHolders
  <2>3. /\ queue \in [Services -> Seq(Message)] /\ queue' \in [Services -> Seq(Message)]
        /\ ctx \in [Services -> {"none", "live", "freed"}] /\ slot \in [Services -> BOOLEAN]
    BY <1>1, TypeStep DEF IInv, TypeOK, MQTypeOK
  <2>4. Len(queue[s]) \in Nat
    BY <2>3
  <2>5. ASSUME NEW t \in Threads, Launch(t) \/ Retire(t) \/ Delete(t)
        PROVE  queue' = queue /\ ~slot'[s] /\ ctx'[s] = "freed"
    <3>1. CASE Launch(t)
      BY <1>1, <2>2, <2>3, <3>1 DEF Launch, mqVars
    <3>2. CASE Retire(t)
      BY <1>1, <2>2, <2>3, <3>2 DEF Retire, mqVars
    <3>3. CASE Delete(t)
      BY <1>1, <2>2, <2>3, <3>3 DEF Delete, mark_release
    <3> QED
      BY <2>5, <3>1, <3>2, <3>3
  <2>6. ASSUME NEW t \in Threads, Push(t)
        PROVE  queue'[s] = queue[s] /\ slot' = slot /\ ctx' = ctx
    BY <2>2, <2>3, <2>6 DEF Push, mq_push
  <2>7. ASSUME NEW r, mq_pop(r) PROVE Len(queue'[s]) <= Len(queue[s])
    <3>1. CASE r = s
      <4>1. queue[s] # <<>> /\ queue'[s] = Tail(queue[s])
        BY <2>3, <2>7, <3>1 DEF mq_pop
      <4> QED
        BY <2>3, <2>4, <4>1
    <3>2. CASE r # s
      BY <2>3, <2>4, <2>7, <3>2 DEF mq_pop
    <3> QED
      BY <3>1, <3>2
  <2>8. ASSUME NEW t \in Threads, CreateQueue(t)
        PROVE  Len(queue'[s]) <= Len(queue[s]) /\ slot' = slot /\ ctx' = ctx
    <3>1. slot' = slot /\ ctx' = ctx /\ queue' = [queue EXCEPT ![cmd[t].svc] = <<>>]
      BY <2>8 DEF CreateQueue, mq_create
    <3>2. queue'[s] = queue[s] \/ queue'[s] = <<>>
      BY <2>3, <3>1
    <3> QED
      BY <2>4, <3>1, <3>2
  <2>9. ASSUME NEW t \in Threads, OpStep(t) \/ CmdStep(t) \/ Send(t) \/ Kill(t) \/ Launch(t) \/ Abort(t)
        PROVE  Len(queue'[s]) <= Len(queue[s]) /\ ~slot'[s] /\ ctx'[s] = "freed"
    <3>1. CASE Launch(t) \/ Retire(t) \/ Delete(t)
      BY <2>4, <2>5, <3>1
    <3>2. CASE Push(t)
      BY <1>1, <2>2, <2>4, <2>6, <3>2
    <3>3. CASE LaunchDrop(t)
      BY <1>1, <2>2, <2>7, <3>3 DEF LaunchDrop
    <3>4. CASE CreateQueue(t)
      BY <1>1, <2>2, <2>8, <3>4
    <3>5. CASE UNCHANGED <<queue, slot, ctx>>
      BY <1>1, <2>2, <2>4, <3>5
    <3> QED
      BY <2>9, <3>1, <3>2, <3>3, <3>4, <3>5
         DEF OpStep, PushGrab, PushRefused, Release, RetireNothing, CmdStep, InitOK, SetInit, LaunchPush,
             InitFail, LaunchRetire, LaunchMqRelease, LaunchDropDone, drop_done, AbortSlot, AbortPass,
             Send, Kill, Abort, mqVars
  <2>10. ASSUME NEW w \in Workers, DispStep(w)
         PROVE  Len(queue'[s]) <= Len(queue[s]) /\ ~slot'[s] /\ ctx'[s] = "freed"
    <3>1. CASE Pop(w) \/ Drop(w)
      BY <1>1, <2>2, <2>7, <3>1 DEF Pop, Drop
    <3>2. CASE UNCHANGED <<queue, slot, ctx>>
      BY <1>1, <2>2, <2>4, <3>2
    <3> QED
      BY <2>10, <3>1, <3>2
         DEF DispStep, TakeQueue, TakeNothing, Grab, MqRelease, DropDone, drop_done, PopEmpty, mq_pop_empty,
             Length, Call, Discard, Return, EndTake, PushBack, EndKeep, mqVars
  <2>11. CASE UNCHANGED vars
    BY <1>1, <2>2, <2>4, <2>11 DEF vars
  <2> QED
    BY <1>1, <2>9, <2>10, <2>11 DEF Next
<1>2. IInv /\ [Next]_vars => [Stays]_vars
  BY <1>1
<1> QED
  BY <1>2, Inductive, PTL DEF Spec, DeadStaysDead
=============================================================================
