---------------------------- MODULE RuntimeProofs ---------------------------
(***************************************************************************)
(* The Lua runtime and the launcher, for any set of services, any numbers  *)
(* of calls, forks and coroutines, and any of the services exiting: the    *)
(* tables of a service agree, and a call is forgotten only if its service  *)
(* was in the rest of the batch in which it had exited.                    *)
(***************************************************************************)
EXTENDS LuaRuntime, FiniteSetTheorems, SequenceTheorems, TLAPS

Work == [st : {"free", "run", "wait", "fork", "quit"}, from : All \cup {Nobody, Forked},
         session : Sessions \cup {0}, ret : BOOLEAN, waits : Sessions \cup {0}, told : BOOLEAN]

Status == {"none", "up", "exiting", "down"}

\* The status of a service whose handle is retired.
Retired == {"exiting", "down"}

Reporting == {"LAUNCHOK", "INITERROR", "REMOVE"}

\* What a message in the inbox of x may be, with the services as where has them.
MsgOK(where, x, m) ==
    /\ m.type = "CALL" => m.session \in Sessions /\ m.from \in Services
    /\ m.type = "CALL" /\ x = Launcher => m.arg \in Services
    /\ m.type = "RESPONSE" => m.session \in Sessions
    /\ m.type \in Reporting => m.from \in Services
    /\ m.type = "ERROR" /\ m.session = 0 => m.from \in Services /\ where[m.from] \in Retired

BoxesOK(box, where) ==
    /\ box \in [All -> Seq(Messages)]
    /\ \A x \in All : \A n \in DOMAIN box[x] : MsgOK(where, x, box[x][n])

\* The tables of one service: coroutines, waiting sessions and their addresses.
Agree(run, cs, sid, ws, last) ==
    /\ \A k \in Sessions, c \in Co : sid[k] = c <=> (cs[c].st = "wait" /\ cs[c].waits = k)
    /\ \A c \in Co : cs[c].st = "run" <=> run = c
    /\ \A k \in Sessions : ws[k] # Nobody => sid[k] # NoCo
    /\ \A k \in Sessions : sid[k] # NoCo => k <= last
    /\ \A c \in Co : cs[c].st = "free" => cs[c].from = Nobody

Tables ==
    \A s \in All : st[s] # "down" =>
        Agree(running[s], co[s], session_id_coroutine[s], watching_session[s], sent[s])

\* The coroutines cs that serve x, and the services whose launch x waits for.
Users(cs, x) == {c \in Co : cs[c].from = x}
Awaiting(inst, x) == {t \in Services : inst[t].from = x}

\* A service watches everybody it works for.
Counted ==
    \A s, x \in All : st[s] # "down" =>
        watching_service[s][x] >=
            Cardinality(Users(co[s], x))
            + (IF s = Launcher THEN Cardinality(Awaiting(instance, x)) ELSE 0)

\* A service that has not been launched: its start function is all it has.
Fresh ==
    \A s \in Services : st[s] = "none" =>
        /\ inbox[s] = <<>> /\ instance[s] = NoCaller
        /\ \A k \in Sessions : watching_session[s][k] = Nobody
        /\ \E c \in Co : co[s][c].st # "free" /\ IsStarter(co[s][c])

\* An answer put off is for a session of a service.
Owed ==
    \A t \in Services : instance[t] # NoCaller =>
        (instance[t].from \in Services /\ instance[t].session \in Sessions)

\* Whoever is taken for dead has gone.
Buried == \A s \in All : \A x \in dead_service[s] : x \in Services /\ st[x] \in Retired

RuntimeInv ==
    /\ RuntimeTypeOK /\ BoxesOK(inbox, st) /\ st[Launcher] = "up"
    /\ Tables /\ Counted /\ Fresh /\ Owed /\ Buried
    /\ NobodyForgotten

\* The reasons why session k of s, which waits for t, will end.
Served(s, k, t) == (Alive(t) \/ st[t] = "down") /\ Holds(t, s, k)
Answered(s, k, t) ==
    InBox(s, "RESPONSE", k, t) \/ InBox(s, "ERROR", k, t) \/ InBox(s, "ERROR", 0, t)
Queued(q, k) == \E n \in DOMAIN q : q[n] = k
Pending(s, k, t) ==
    \/ InBox(t, "CALL", k, s)
    \/ Served(s, k, t)
    \/ t = Launcher /\ Launched(s, k)
    \/ Answered(s, k, t)
    \/ Queued(error_queue[s], k)

LEMMA ForgottenDef ==
    NobodyForgotten <=>
        \A s \in Services, k \in Sessions :
            (st[s] = "up" /\ watching_session[s][k] # Nobody) =>
                Pending(s, k, watching_session[s][k])
BY DEF NobodyForgotten, Pending, Served, Answered, Queued, Abandoned

-----------------------------------------------------------------------------
(* Sessions, coroutines and finite sets. *)

LEMMA SessionFacts ==
    /\ Sessions \subseteq Nat /\ 0 \notin Sessions
    /\ \A s \in Services : \A k \in 1 .. MaxCall[s] + 1 : k \in Sessions
    /\ \A s \in Services : 1 \in Sessions
BY RuntimeAssumption DEF Sessions

LEMMA SessionNat == \A k \in Sessions \cup {0} : k \in Nat
BY SessionFacts

LEMMA CoFacts == Co \subseteq Nat /\ 0 \notin Co /\ 1 \in Co /\ IsFiniteSet(Co)
<1>1. Co \subseteq Nat /\ 0 \notin Co /\ 1 \in Co
    BY RuntimeAssumption DEF Co
<1>2. IsFiniteSet(Co)
    BY RuntimeAssumption, FS_Interval DEF Co
<1> QED BY <1>1, <1>2

LEMMA NameFacts ==
    /\ All = Services \cup {Launcher} /\ Launcher \notin Services
    /\ Nobody \notin All /\ Forked \notin All /\ Nobody # Forked
BY RuntimeAssumption DEF All, Nobody, Forked

LEMMA SessionsFinite == IsFiniteSet(Sessions)
<1> DEFINE S == {1 .. MaxCall[s] + 1 : s \in Services}
           f == [s \in Services |-> 1 .. MaxCall[s] + 1]
<1>1. f \in Surjection(Services, S)
    BY DEF Surjection
<1>2. IsFiniteSet(S)
    BY <1>1, FS_Surjection, RuntimeAssumption
<1>3. ASSUME NEW T \in S PROVE IsFiniteSet(T)
    <2>1. PICK s \in Services : T = 1 .. MaxCall[s] + 1
        OBVIOUS
    <2>2. MaxCall[s] + 1 \in Int
        BY RuntimeAssumption
    <2> QED BY <2>1, <2>2, FS_Interval
<1> HIDE DEF S
<1>4. IsFiniteSet(UNION S)
    BY <1>2, <1>3, FS_UNION
<1> QED BY <1>4 DEF S, Sessions

\* Cardinalities of finite sets that differ by an element.
LEMMA CardSub ==
    ASSUME NEW S, IsFiniteSet(S), NEW T, T \subseteq S
    PROVE  IsFiniteSet(T) /\ Cardinality(T) <= Cardinality(S)
           /\ Cardinality(T) \in Nat /\ Cardinality(S) \in Nat
<1>1. T \in SUBSET S
    OBVIOUS
<1> QED BY <1>1, FS_Subset, FS_CardinalityType

LEMMA CardAdd ==
    ASSUME NEW S, IsFiniteSet(S), NEW x, NEW T, T \subseteq S \cup {x}
    PROVE  Cardinality(T) <= Cardinality(S) + 1
           /\ Cardinality(T) \in Nat /\ Cardinality(S) \in Nat
<1>1. IsFiniteSet(S \cup {x}) /\ Cardinality(S \cup {x}) <= Cardinality(S) + 1
      /\ Cardinality(S) \in Nat
    BY FS_AddElement, FS_CardinalityType
<1>2. Cardinality(T) <= Cardinality(S \cup {x}) /\ Cardinality(T) \in Nat
      /\ Cardinality(S \cup {x}) \in Nat
    BY <1>1, CardSub
<1> QED BY <1>1, <1>2

LEMMA CardDrop ==
    ASSUME NEW S, IsFiniteSet(S), NEW x \in S, NEW T, T \subseteq S \ {x}
    PROVE  Cardinality(T) + 1 <= Cardinality(S)
           /\ Cardinality(T) \in Nat /\ Cardinality(S) \in Nat
<1>1. IsFiniteSet(S \ {x}) /\ Cardinality(S \ {x}) = Cardinality(S) - 1
      /\ Cardinality(S) \in Nat
    BY FS_RemoveElement, FS_CardinalityType
<1>2. Cardinality(T) <= Cardinality(S \ {x}) /\ Cardinality(T) \in Nat
      /\ Cardinality(S \ {x}) \in Nat
    BY <1>1, CardSub
<1> QED BY <1>1, <1>2

LEMMA UsersFinite ==
    /\ \A cs, x : IsFiniteSet(Users(cs, x))
    /\ \A inst, x : IsFiniteSet(Awaiting(inst, x))
<1>1. ASSUME NEW cs, NEW x PROVE IsFiniteSet(Users(cs, x))
    <2>1. Users(cs, x) \subseteq Co
        BY DEF Users
    <2> QED BY <2>1, CoFacts, CardSub
<1>2. ASSUME NEW inst, NEW x PROVE IsFiniteSet(Awaiting(inst, x))
    <2>1. Awaiting(inst, x) \subseteq Services
        BY DEF Awaiting
    <2> QED BY <2>1, RuntimeAssumption, CardSub
<1> QED BY <1>1, <1>2

\* Every finite set has a listing, and a listing leaves nobody out.
LEMMA ListingExists ==
    ASSUME NEW S, IsFiniteSet(S)
    PROVE  Listings(S) # {}
<1>1. PICK f \in Bijection(1 .. Cardinality(S), S) : TRUE
    BY FS_CardinalityType DEF ExistsBijection
<1>2. f \in Listings(S)
    BY <1>1 DEF Listings, Bijection, Injection, Surjection, IsInjective
<1> QED BY <1>2

LEMMA ListingAll ==
    ASSUME NEW S, IsFiniteSet(S), NEW q \in Listings(S)
    PROVE  q \in Seq(S) /\ \A x \in S : \E n \in DOMAIN q : q[n] = x
<1>1. Cardinality(S) \in Nat
    BY FS_CardinalityType
<1>2. q \in Injection(1 .. Cardinality(S), S) /\ q \in [1 .. Cardinality(S) -> S]
    BY DEF Listings, Injection, IsInjective
<1>3. Cardinality(1 .. Cardinality(S)) = Cardinality(S)
    BY <1>1, FS_Interval
<1>4. q \in Surjection(1 .. Cardinality(S), S)
    BY <1>2, <1>3, FS_Injection
<1>5. \A x \in S : \E n \in 1 .. Cardinality(S) : q[n] = x
    BY <1>4 DEF Surjection
<1> QED BY <1>1, <1>2, <1>5

-----------------------------------------------------------------------------
(* Messages and inboxes. *)

\* InBox, of the inboxes box.
Has(box, x, type, k, f) ==
    \E n \in DOMAIN box[x] : box[x][n].type = type /\ box[x][n].session = k /\ box[x][n].from = f

LEMMA InBoxHas ==
    /\ \A x, type, k, f : InBox(x, type, k, f) <=> Has(inbox, x, type, k, f)
    /\ \A x, type, k, f : InBox(x, type, k, f)' <=> Has(inbox', x, type, k, f)
BY DEF InBox, Has

LEMMA MsgType ==
    ASSUME NEW type \in {"CALL", "RESPONSE", "ERROR", "LAUNCHOK", "INITERROR", "REMOVE"},
           NEW k \in Sessions \cup {0}, NEW f \in All \cup {Nobody}, NEW arg \in Services \cup {Nobody}
    PROVE  /\ Msg(type, k, f, arg) \in Messages
           /\ Msg(type, k, f, arg).type = type /\ Msg(type, k, f, arg).session = k
           /\ Msg(type, k, f, arg).from = f /\ Msg(type, k, f, arg).arg = arg
BY DEF Msg, Messages

\* A message more, at the end.
LEMMA AppendKeeps ==
    ASSUME NEW q \in Seq(Messages), NEW m \in Messages
    PROVE  /\ Append(q, m) \in Seq(Messages)
           /\ \A n \in DOMAIN q : n \in DOMAIN Append(q, m) /\ Append(q, m)[n] = q[n]
           /\ \A n \in DOMAIN Append(q, m) : Append(q, m)[n] = m \/ (n \in DOMAIN q /\ Append(q, m)[n] = q[n])
           /\ \E n \in DOMAIN Append(q, m) : Append(q, m)[n] = m
<1>1. /\ Append(q, m) \in Seq(Messages) /\ Len(q) \in Nat
      /\ DOMAIN q = 1 .. Len(q) /\ DOMAIN Append(q, m) = 1 .. Len(q) + 1
      /\ \A n \in 1 .. Len(q) : Append(q, m)[n] = q[n]
      /\ Append(q, m)[Len(q) + 1] = m
    OBVIOUS
<1>2. Len(q) + 1 \in DOMAIN Append(q, m) /\ \A n \in DOMAIN Append(q, m) : n = Len(q) + 1 \/ n \in DOMAIN q
    BY <1>1
<1> QED BY <1>1, <1>2

LEMMA DeliverKeeps ==
    ASSUME NEW where, NEW box, BoxesOK(box, where), NEW to, NEW m \in Messages,
           to \in All => MsgOK(where, to, m)
    PROVE  /\ BoxesOK(Deliver(box, to, m), where)
           /\ \A x \in All : \A type, k, f :
                 Has(box, x, type, k, f) => Has(Deliver(box, to, m), x, type, k, f)
           /\ to \in All /\ st[to] = "up" => Has(Deliver(box, to, m), to, m.type, m.session, m.from)
           /\ \A x \in All : ~(x = to /\ st[to] = "up") => Deliver(box, to, m)[x] = box[x]
<1>1. CASE ~(to \in All /\ st[to] = "up")
    BY <1>1 DEF Deliver
<1>2. CASE to \in All /\ st[to] = "up"
    <2> DEFINE new == Deliver(box, to, m)
    <2>1. box \in [All -> Seq(Messages)] /\ box[to] \in Seq(Messages)
        BY <1>2 DEF BoxesOK
    <2>2. new = [box EXCEPT ![to] = Append(box[to], m)]
        BY <1>2 DEF Deliver
    <2>3. /\ new \in [All -> Seq(Messages)] /\ new[to] = Append(box[to], m)
          /\ \A x \in All : x # to => new[x] = box[x]
        BY <1>2, <2>1, <2>2
    <2> HIDE DEF new
    <2>4. ASSUME NEW x \in All, NEW n \in DOMAIN new[x] PROVE MsgOK(where, x, new[x][n])
        <3>1. CASE x # to
            BY <3>1, <2>3 DEF BoxesOK
        <3>2. CASE x = to
            BY <3>2, <2>1, <2>3, <1>2, AppendKeeps DEF BoxesOK
        <3> QED BY <3>1, <3>2
    <2>5. ASSUME NEW x \in All, NEW type, NEW k, NEW f, Has(box, x, type, k, f)
          PROVE  Has(new, x, type, k, f)
        <3>1. CASE x # to
            BY <3>1, <2>3, <2>5 DEF Has
        <3>2. CASE x = to
            BY <3>2, <2>1, <2>3, <2>5, AppendKeeps DEF Has
        <3> QED BY <3>1, <3>2
    <2>6. Has(new, to, m.type, m.session, m.from)
        <3>1. PICK n \in DOMAIN Append(box[to], m) : Append(box[to], m)[n] = m
            BY <2>1, AppendKeeps
        <3> QED BY <3>1, <2>3 DEF Has
    <2>7. BoxesOK(new, where)
        BY <2>3, <2>4 DEF BoxesOK
    <2>8. \A x \in All : ~(x = to /\ st[to] = "up") => new[x] = box[x]
        BY <2>3, <1>2
    <2>9. \A x \in All : \A type, k, f : Has(box, x, type, k, f) => Has(new, x, type, k, f)
        BY <2>5
    <2> QED BY <2>6, <2>7, <2>8, <2>9 DEF new
<1> QED BY <1>1, <1>2

\* The head of the inbox of s is taken.
LEMMA TailKeeps ==
    ASSUME NEW q \in Seq(Messages), q # <<>>
    PROVE  /\ Tail(q) \in Seq(Messages) /\ Head(q) \in Messages /\ 1 \in DOMAIN q /\ Head(q) = q[1]
           /\ \A n \in DOMAIN q : q[n] = Head(q) \/ \E i \in DOMAIN Tail(q) : Tail(q)[i] = q[n]
           /\ \A i \in DOMAIN Tail(q) : \E n \in DOMAIN q : Tail(q)[i] = q[n]
<1>1. /\ Tail(q) \in Seq(Messages) /\ Head(q) \in Messages /\ 1 \in DOMAIN q /\ Head(q) = q[1]
    OBVIOUS
<1>2. /\ Len(Tail(q)) = Len(q) - 1 /\ \A i \in 1 .. Len(q) - 1 : Tail(q)[i] = q[i + 1]
    OBVIOUS
<1>3. ASSUME NEW n \in DOMAIN q, n # 1 PROVE \E i \in DOMAIN Tail(q) : Tail(q)[i] = q[n]
    <2>1. n - 1 \in DOMAIN Tail(q) /\ Tail(q)[n - 1] = q[n]
        BY <1>1, <1>2, <1>3
    <2> QED BY <2>1
<1>4. ASSUME NEW i \in DOMAIN Tail(q) PROVE \E n \in DOMAIN q : Tail(q)[i] = q[n]
    <2>1. i + 1 \in DOMAIN q /\ Tail(q)[i] = q[i + 1]
        BY <1>1, <1>2
    <2> QED BY <2>1
<1> QED BY <1>1, <1>3, <1>4

\* Of the messages of box only m, in the inbox of p, may be gone.
Loses(box, new, p, m) ==
    \A x \in All : \A type, k, f : Has(box, x, type, k, f) =>
        \/ Has(new, x, type, k, f)
        \/ x = p /\ m.type = type /\ m.session = k /\ m.from = f

Pop(box, s) == [box EXCEPT ![s] = Tail(@)]

LEMMA PopKeeps ==
    ASSUME NEW where, NEW box, BoxesOK(box, where), NEW s \in All, box[s] # <<>>
    PROVE  LET new == Pop(box, s)
               m == Head(box[s])
           IN  /\ BoxesOK(new, where) /\ m \in Messages /\ MsgOK(where, s, m)
               /\ \A x \in All : x # s => new[x] = box[x]
               /\ Loses(box, new, s, m)
<1> DEFINE new == Pop(box, s)
           m == Head(box[s])
<1>1. box \in [All -> Seq(Messages)] /\ box[s] \in Seq(Messages)
    BY DEF BoxesOK
<1>2. /\ new \in [All -> Seq(Messages)] /\ new[s] = Tail(box[s])
      /\ \A x \in All : x # s => new[x] = box[x]
    BY <1>1, TailKeeps DEF Pop
<1>3. m \in Messages /\ MsgOK(where, s, m)
    BY <1>1, TailKeeps DEF BoxesOK
<1> HIDE DEF new, m
<1>4. ASSUME NEW x \in All, NEW n \in DOMAIN new[x] PROVE MsgOK(where, x, new[x][n])
    <2>1. CASE x # s
        BY <2>1, <1>2 DEF BoxesOK
    <2>2. CASE x = s
        BY <2>2, <1>1, <1>2, TailKeeps DEF BoxesOK
    <2> QED BY <2>1, <2>2
<1>5. ASSUME NEW x \in All, NEW type, NEW k, NEW f, Has(box, x, type, k, f)
      PROVE  Has(new, x, type, k, f) \/ (x = s /\ m.type = type /\ m.session = k /\ m.from = f)
    <2>1. CASE x # s
        BY <2>1, <1>2, <1>5 DEF Has
    <2>2. CASE x = s
        <3>1. PICK n \in DOMAIN box[s] :
                 box[s][n].type = type /\ box[s][n].session = k /\ box[s][n].from = f
            BY <1>5, <2>2 DEF Has
        <3>2. box[s][n] = m \/ \E i \in DOMAIN Tail(box[s]) : Tail(box[s])[i] = box[s][n]
            BY <1>1, TailKeeps DEF m
        <3> QED BY <3>1, <3>2, <2>2, <1>2 DEF Has
    <2> QED BY <2>1, <2>2
<1>6. BoxesOK(new, where)
    BY <1>2, <1>4 DEF BoxesOK
<1>7. Loses(box, new, s, m)
    BY <1>5 DEF Loses
<1> QED BY <1>2, <1>3, <1>6, <1>7 DEF new, m

-----------------------------------------------------------------------------
(* Coroutines and the end of suspend. *)

LEMMA WorkFacts ==
    /\ NoWork \in Work /\ NoWork.st = "free" /\ NoWork.from = Nobody /\ NoWork.session = 0
    /\ [NoWork EXCEPT !.st = "fork", !.from = Forked] \in Work
    /\ [NoWork EXCEPT !.st = "fork", !.from = Forked].st = "fork"
    /\ [NoWork EXCEPT !.st = "fork", !.from = Forked].from = Forked
BY DEF NoWork, Work

\* A coroutine changes its state and what it waits for.
Turned(cs, c, x, k) == [cs EXCEPT ![c].st = x, ![c].waits = k]

LEMMA Turn ==
    ASSUME NEW cs \in [Co -> Work], NEW c \in Co, NEW x \in {"free", "run", "wait", "fork", "quit"},
           NEW k \in Sessions \cup {0}
    PROVE  LET new == Turned(cs, c, x, k)
           IN  /\ new \in [Co -> Work]
               /\ new[c].st = x /\ new[c].waits = k
               /\ new[c].from = cs[c].from /\ new[c].session = cs[c].session /\ new[c].ret = cs[c].ret
               /\ new[c].told = cs[c].told
               /\ \A d \in Co : d # c => new[d] = cs[d]
<1> DEFINE w == [cs[c] EXCEPT !.st = x, !.waits = k]
<1>1. cs[c] \in Work
    OBVIOUS
<1>2. /\ w \in Work /\ w.st = x /\ w.waits = k
      /\ w.from = cs[c].from /\ w.session = cs[c].session /\ w.ret = cs[c].ret /\ w.told = cs[c].told
    BY <1>1 DEF Work
<1>3. Turned(cs, c, x, k) = [cs EXCEPT ![c] = w]
    BY <1>1 DEF Turned
<1> HIDE DEF w
<1> QED BY <1>2, <1>3

\* The tables of a service, all but the messages.
Typed(run, cs, sid, ws, queue) ==
    /\ run \in Co \cup {NoCo} /\ cs \in [Co -> Work]
    /\ sid \in [Sessions -> Co \cup {NoCo}] /\ ws \in [Sessions -> All \cup {Nobody}]
    /\ queue \in Seq(Sessions)

\* Every coroutine of new works for whom it worked in cs.
SameWork(cs, new) ==
    \A d \in Co : /\ new[d].from = cs[d].from /\ new[d].session = cs[d].session
                  /\ new[d].ret = cs[d].ret /\ new[d].told = cs[d].told
                  /\ (new[d].st = "free" <=> cs[d].st = "free")

\* A session that is still waiting was waiting, and if it was queued it still is.
StillWaits(ws, queue, newws, newqueue) ==
    \A k \in Sessions : newws[k] # Nobody =>
        newws[k] = ws[k] /\ (Queued(queue, k) => Queued(newqueue, k))

Put(f, k, v) == [f EXCEPT ![k] = v]

\* A session is resumed.
LEMMA ResumeAgrees ==
    ASSUME NEW cs, NEW sid, NEW ws, NEW queue, NEW last, Typed(NoCo, cs, sid, ws, queue),
           Agree(NoCo, cs, sid, ws, last), NEW k \in Sessions, NEW c \in Co, sid[k] = c
    PROVE  LET newcs == Turned(cs, c, "run", 0)
               newsid == Put(sid, k, NoCo)
               newws == Put(ws, k, Nobody)
           IN  /\ Typed(c, newcs, newsid, newws, queue)
               /\ Agree(c, newcs, newsid, newws, last)
               /\ SameWork(cs, newcs)
<1> DEFINE newcs == Turned(cs, c, "run", 0)
           newsid == Put(sid, k, NoCo)
           newws == Put(ws, k, Nobody)
<1>0. cs \in [Co -> Work] /\ sid \in [Sessions -> Co \cup {NoCo}]
      /\ ws \in [Sessions -> All \cup {Nobody}]
    BY DEF Typed
<1>1. /\ newcs \in [Co -> Work] /\ newcs[c].st = "run" /\ newcs[c].waits = 0
      /\ newcs[c].from = cs[c].from /\ newcs[c].session = cs[c].session /\ newcs[c].ret = cs[c].ret
      /\ newcs[c].told = cs[c].told
      /\ \A d \in Co : d # c => newcs[d] = cs[d]
    BY <1>0, Turn
<1>2. /\ newsid \in [Sessions -> Co \cup {NoCo}] /\ newsid[k] = NoCo
      /\ \A j \in Sessions : j # k => newsid[j] = sid[j]
      /\ newws \in [Sessions -> All \cup {Nobody}] /\ newws[k] = Nobody
      /\ \A j \in Sessions : j # k => newws[j] = ws[j]
    BY <1>0 DEF Put
<1>3. cs[c].st = "wait" /\ cs[c].waits = k
    BY DEF Agree
<1>4. NoCo \notin Co
    BY CoFacts DEF NoCo
<1> HIDE DEF newcs, newsid, newws
<1>5. Typed(c, newcs, newsid, newws, queue)
    BY <1>1, <1>2 DEF Typed
<1>6. ASSUME NEW j \in Sessions, NEW d \in Co
      PROVE  newsid[j] = d <=> (newcs[d].st = "wait" /\ newcs[d].waits = j)
    <2>1. CASE j = k
        <3>1. newsid[j] # d
            BY <2>1, <1>2, <1>4
        <3>2. d # c => ~(cs[d].st = "wait" /\ cs[d].waits = k)
            BY DEF Agree
        <3>3. ~(newcs[d].st = "wait" /\ newcs[d].waits = j)
            BY <3>2, <1>1, <2>1
        <3> QED BY <3>1, <3>3
    <2>2. CASE j # k
        <3>1. newsid[j] = d <=> (cs[d].st = "wait" /\ cs[d].waits = j)
            BY <2>2, <1>2 DEF Agree
        <3>2. CASE d = c
            BY <3>1, <3>2, <1>1, <1>3, <2>2
        <3>3. CASE d # c
            BY <3>1, <3>3, <1>1
        <3> QED BY <3>2, <3>3
    <2> QED BY <2>1, <2>2
<1>7. \A d \in Co : newcs[d].st = "run" <=> c = d
    BY <1>1, <1>4 DEF Agree
<1>8. \A j \in Sessions : newws[j] # Nobody => newsid[j] # NoCo
    BY <1>2 DEF Agree
<1>9. \A j \in Sessions : newsid[j] # NoCo => j <= last
    BY <1>2 DEF Agree
<1>10. \A d \in Co : newcs[d].st = "free" => newcs[d].from = Nobody
    BY <1>1 DEF Agree
<1>11. Agree(c, newcs, newsid, newws, last)
    BY <1>6, <1>7, <1>8, <1>9, <1>10 DEF Agree
<1>12. SameWork(cs, newcs)
    BY <1>1, <1>3 DEF SameWork
<1> QED BY <1>5, <1>11, <1>12 DEF newcs, newsid, newws

LEMMA TailQueue ==
    ASSUME NEW queue \in Seq(Sessions), queue # <<>>
    PROVE  /\ Tail(queue) \in Seq(Sessions) /\ Head(queue) \in Sessions
           /\ \A k \in Sessions : Queued(queue, k) => k = Head(queue) \/ Queued(Tail(queue), k)
<1>1. /\ Tail(queue) \in Seq(Sessions) /\ Head(queue) \in Sessions /\ Head(queue) = queue[1]
      /\ Len(Tail(queue)) = Len(queue) - 1 /\ \A i \in 1 .. Len(queue) - 1 : Tail(queue)[i] = queue[i + 1]
    OBVIOUS
<1>2. ASSUME NEW k \in Sessions, Queued(queue, k), k # Head(queue) PROVE Queued(Tail(queue), k)
    <2>1. PICK n \in DOMAIN queue : queue[n] = k
        BY <1>2 DEF Queued
    <2>2. n - 1 \in DOMAIN Tail(queue) /\ Tail(queue)[n - 1] = k
        BY <1>1, <1>2, <2>1
    <2> QED BY <2>2 DEF Queued
<1> QED BY <1>1, <1>2

\* The tables of service x stay as they are.
Untouched(x) ==
    /\ running'[x] = running[x] /\ co'[x] = co[x]
    /\ session_id_coroutine'[x] = session_id_coroutine[x]
    /\ watching_session'[x] = watching_session[x] /\ error_queue'[x] = error_queue[x]

LEMMA TypedFacts ==
    RuntimeTypeOK <=>
        /\ st \in [All -> Status]
        /\ inbox \in [All -> Seq(Messages)] /\ left \in [All -> Nat]
        /\ running \in [All -> Co \cup {NoCo}] /\ co \in [All -> [Co -> Work]]
        /\ session_id_coroutine \in [All -> [Sessions -> Co \cup {NoCo}]]
        /\ watching_session \in [All -> [Sessions -> All \cup {Nobody}]]
        /\ watching_service \in [All -> [All -> Nat]]
        /\ dead_service \in [All -> SUBSET (All \cup {Nobody})]
        /\ error_queue \in [All -> Seq(Sessions)]
        /\ instance \in [Services -> [from : All \cup {Nobody}, session : Sessions \cup {0}]]
        /\ sent \in [All -> Sessions \cup {0}]
BY DEF RuntimeTypeOK, Work, Status

\* The types of what suspend writes.
TablesTyped ==
    /\ running \in [All -> Co \cup {NoCo}] /\ co \in [All -> [Co -> Work]]
    /\ session_id_coroutine \in [All -> [Sessions -> Co \cup {NoCo}]]
    /\ watching_session \in [All -> [Sessions -> All \cup {Nobody}]]
    /\ error_queue \in [All -> Seq(Sessions)]

\* Suspend, from tables that agree and in which nothing runs.
LEMMA SuspendAgrees ==
    ASSUME TablesTyped, NEW s \in All, NEW cs, NEW sid, NEW ws, NEW queue, NEW last,
           Typed(NoCo, cs, sid, ws, queue), Agree(NoCo, cs, sid, ws, last),
           Suspend(s, cs, sid, ws, queue)
    PROVE  /\ TablesTyped'
           /\ Agree(running'[s], co'[s], session_id_coroutine'[s], watching_session'[s], last)
           /\ SameWork(cs, co'[s])
           /\ StillWaits(ws, queue, watching_session'[s], error_queue'[s])
           /\ \A x \in All : x # s => Untouched(x)
<1>1. CASE queue = <<>> \/ (queue # <<>> /\ sid[Head(queue)] = NoCo)
    <2> DEFINE rest == IF queue = <<>> THEN <<>> ELSE Tail(queue)
    <2>1. /\ running' = [running EXCEPT ![s] = NoCo] /\ co' = [co EXCEPT ![s] = cs]
          /\ session_id_coroutine' = [session_id_coroutine EXCEPT ![s] = sid]
          /\ watching_session' = [watching_session EXCEPT ![s] = ws]
          /\ error_queue' = [error_queue EXCEPT ![s] = rest]
        BY <1>1 DEF Suspend
    <2>2. rest \in Seq(Sessions)
        BY TailQueue DEF Typed
    <2>3. \A k \in Sessions : ws[k] # Nobody /\ Queued(queue, k) => Queued(rest, k)
        <3>1. CASE queue = <<>>
            BY <3>1 DEF Queued
        <3>2. CASE queue # <<>> /\ sid[Head(queue)] = NoCo
            <4>1. queue \in Seq(Sessions)
                BY DEF Typed
            <4>2. Head(queue) \in Sessions /\ ws[Head(queue)] = Nobody
                BY <3>2, <4>1, TailQueue DEF Agree
            <4> QED BY <3>2, <4>1, <4>2, TailQueue
        <3> QED BY <1>1, <3>1, <3>2
    <2> HIDE DEF rest
    <2>4. TablesTyped'
        BY <2>1, <2>2 DEF TablesTyped, Typed
    <2>5. /\ running'[s] = NoCo /\ co'[s] = cs /\ session_id_coroutine'[s] = sid
          /\ watching_session'[s] = ws /\ error_queue'[s] = rest
        BY <2>1 DEF TablesTyped
    <2>6. \A x \in All : x # s => Untouched(x)
        BY <2>1 DEF TablesTyped, Untouched
    <2> QED BY <2>3, <2>4, <2>5, <2>6 DEF SameWork, StillWaits
<1>2. CASE queue # <<>> /\ sid[Head(queue)] # NoCo
    <2> DEFINE k == Head(queue)
               c == sid[k]
               newcs == Turned(cs, c, "run", 0)
               newsid == Put(sid, k, NoCo)
               newws == Put(ws, k, Nobody)
    <2>1. /\ running' = [running EXCEPT ![s] = c] /\ co' = [co EXCEPT ![s] = newcs]
          /\ session_id_coroutine' = [session_id_coroutine EXCEPT ![s] = newsid]
          /\ watching_session' = [watching_session EXCEPT ![s] = newws]
          /\ error_queue' = [error_queue EXCEPT ![s] = Tail(queue)]
        BY <1>2 DEF Suspend, Turned, Put
    <2>2. k \in Sessions /\ c \in Co /\ Tail(queue) \in Seq(Sessions)
        BY <1>2, TailQueue DEF Typed
    <2>3. Typed(c, newcs, newsid, newws, queue) /\ Agree(c, newcs, newsid, newws, last)
          /\ SameWork(cs, newcs)
        BY <2>2, ResumeAgrees
    <2>4. \A j \in Sessions : newws[j] # Nobody => j # k /\ newws[j] = ws[j]
        BY <2>2 DEF Typed, Put
    <2>5. \A j \in Sessions : newws[j] # Nobody /\ Queued(queue, j) => Queued(Tail(queue), j)
        BY <1>2, <2>4, TailQueue DEF Typed
    <2> HIDE DEF k, c, newcs, newsid, newws
    <2>6. TablesTyped'
        BY <2>1, <2>2, <2>3 DEF TablesTyped, Typed
    <2>7. /\ running'[s] = c /\ co'[s] = newcs /\ session_id_coroutine'[s] = newsid
          /\ watching_session'[s] = newws /\ error_queue'[s] = Tail(queue)
        BY <2>1 DEF TablesTyped
    <2>8. \A x \in All : x # s => Untouched(x)
        BY <2>1 DEF TablesTyped, Untouched
    <2> QED BY <2>3, <2>4, <2>5, <2>6, <2>7, <2>8 DEF StillWaits
<1> QED BY <1>1, <1>2

-----------------------------------------------------------------------------
(* What the parts of the invariant need of a step. *)

\* Nobody gets a new user.
LEMMA CountedKeeps ==
    ASSUME Counted, UNCHANGED <<instance, watching_service>>,
           watching_service \in [All -> [All -> Nat]],
           \A x \in All : st'[x] # "down" => st[x] # "down",
           \A x \in All : \A d \in Co : co'[x][d].from \in All => co'[x][d].from = co[x][d].from
    PROVE  Counted'
<1> SUFFICES ASSUME NEW x \in All, NEW y \in All, st'[x] # "down"
             PROVE  watching_service[x][y] >= Cardinality(Users(co'[x], y))
                       + (IF x = Launcher THEN Cardinality(Awaiting(instance, y)) ELSE 0)
    BY DEF Counted
<1>1. watching_service[x][y] >= Cardinality(Users(co[x], y))
         + (IF x = Launcher THEN Cardinality(Awaiting(instance, y)) ELSE 0)
    BY DEF Counted
<1>2. Users(co'[x], y) \subseteq Users(co[x], y)
    BY DEF Users
<1>3. IsFiniteSet(Users(co[x], y)) /\ IsFiniteSet(Awaiting(instance, y))
    BY UsersFinite
<1>4. Cardinality(Users(co'[x], y)) <= Cardinality(Users(co[x], y))
      /\ Cardinality(Users(co'[x], y)) \in Nat /\ Cardinality(Users(co[x], y)) \in Nat
    BY <1>2, <1>3, CardSub
<1>5. Cardinality(Awaiting(instance, y)) \in Nat
    BY <1>3, FS_CardinalityType
<1> QED BY <1>1, <1>4, <1>5

LEMMA FreshKeeps ==
    ASSUME Fresh,
           \A x \in Services : st'[x] = "none" =>
               /\ st[x] = "none" /\ inbox'[x] = inbox[x] /\ instance'[x] = instance[x]
               /\ watching_session'[x] = watching_session[x] /\ co'[x] = co[x]
    PROVE  Fresh'
BY DEF Fresh, IsStarter

LEMMA TablesKeep ==
    ASSUME Tables, NEW s \in All,
           \A x \in All : x # s => Untouched(x) /\ sent'[x] = sent[x],
           \A x \in All : st'[x] # "down" => st[x] # "down",
           Agree(running'[s], co'[s], session_id_coroutine'[s], watching_session'[s], sent'[s])
    PROVE  Tables'
<1> SUFFICES ASSUME NEW x \in All, st'[x] # "down"
             PROVE  Agree(running'[x], co'[x], session_id_coroutine'[x], watching_session'[x], sent'[x])
    BY DEF Tables
<1>1. CASE x = s
    BY <1>1
<1>2. CASE x # s
    BY <1>2 DEF Tables, Untouched
<1> QED BY <1>1, <1>2

\* The start function of x has not ended.
Starting(x) == st[x] = "up" /\ \E c \in Co : co[x][c].st # "free" /\ IsStarter(co[x][c])

\* No message is lost.
Grows(box, new) == \A x \in All : \A type, k, f : Has(box, x, type, k, f) => Has(new, x, type, k, f)

LEMMA LaunchedDef ==
    ASSUME NEW s, NEW k
    PROVE  /\ Launched(s, k) <=>
                 \E t \in Services : /\ instance[t] = [from |-> s, session |-> k]
                                     /\ \/ Starting(t)
                                        \/ \E type \in Reporting : Has(inbox, Launcher, type, 0, t)
           /\ Launched(s, k)' <=>
                 \E t \in Services : /\ instance'[t] = [from |-> s, session |-> k]
                                     /\ \/ Starting(t)'
                                        \/ \E type \in Reporting : Has(inbox', Launcher, type, 0, t)
BY DEF Launched, Starting, Reporting, InBox, Has, IsStarter

LEMMA LaunchedKeeps ==
    ASSUME NEW s, NEW k, Launched(s, k), instance' = instance, Grows(inbox, inbox'),
           \A x \in Services : Starting(x) =>
               Starting(x)' \/ \E type \in Reporting : Has(inbox', Launcher, type, 0, x)
    PROVE  Launched(s, k)'
<1>1. PICK t \in Services : /\ instance[t] = [from |-> s, session |-> k]
                            /\ \/ Starting(t)
                               \/ \E type \in Reporting : Has(inbox, Launcher, type, 0, t)
    BY LaunchedDef
<1>2. Starting(t)' \/ \E type \in Reporting : Has(inbox', Launcher, type, 0, t)
    BY <1>1 DEF Grows, All
<1> QED BY <1>1, <1>2, LaunchedDef

LEMMA PendingDef ==
    ASSUME NEW s, NEW k, NEW t
    PROVE  /\ Pending(s, k, t) <=>
                 \/ Has(inbox, t, "CALL", k, s) \/ Served(s, k, t) \/ (t = Launcher /\ Launched(s, k))
                 \/ Has(inbox, s, "RESPONSE", k, t) \/ Has(inbox, s, "ERROR", k, t)
                 \/ Has(inbox, s, "ERROR", 0, t) \/ Queued(error_queue[s], k)
           /\ Pending(s, k, t)' <=>
                 \/ Has(inbox', t, "CALL", k, s) \/ Served(s, k, t)' \/ (t = Launcher /\ Launched(s, k)')
                 \/ Has(inbox', s, "RESPONSE", k, t) \/ Has(inbox', s, "ERROR", k, t)
                 \/ Has(inbox', s, "ERROR", 0, t) \/ Queued(error_queue'[s], k)
BY InBoxHas DEF Pending, Answered

\* A step that loses no message, and tells whom it stops serving.
LEMMA PendingKeeps ==
    ASSUME NEW s \in Services, NEW k \in Sessions, NEW t \in All, Pending(s, k, t),
           Grows(inbox, inbox'), instance' = instance,
           \A x \in Services : Starting(x) =>
               Starting(x)' \/ \E type \in Reporting : Has(inbox', Launcher, type, 0, x),
           Served(s, k, t) => \/ Served(s, k, t)'
                              \/ Has(inbox', s, "RESPONSE", k, t) \/ Has(inbox', s, "ERROR", k, t),
           Queued(error_queue[s], k) => Queued(error_queue'[s], k)
    PROVE  Pending(s, k, t)'
<1>1. s \in All
    BY DEF All
<1>2. Launched(s, k) => Launched(s, k)'
    BY LaunchedKeeps
<1> QED BY <1>1, <1>2, PendingDef DEF Grows

LEMMA ForgottenNext ==
    ASSUME watching_session' \in [All -> [Sessions -> All \cup {Nobody}]],
           \A s \in Services, k \in Sessions, t \in All :
               (st'[s] = "up" /\ watching_session'[s][k] = t) => Pending(s, k, t)'
    PROVE  NobodyForgotten'
<1> SUFFICES ASSUME NEW s \in Services, NEW k \in Sessions,
                    st'[s] = "up", watching_session'[s][k] # Nobody
             PROVE  Pending(s, k, watching_session[s][k])'
    BY DEF NobodyForgotten, Pending, Served, Holds, Alive, Abandoned, Answered, Queued
<1>1. PICK t \in All : watching_session'[s][k] = t
    BY NameFacts
<1>2. Pending(s, k, t)'
    BY <1>1
<1> QED BY <1>1, <1>2 DEF Pending, Served, Holds, Alive, Answered, InBox

-----------------------------------------------------------------------------
(* Every step keeps the invariant. *)

LEMMA InvTypes ==
    ASSUME RuntimeInv
    PROVE  /\ TablesTyped
           /\ st \in [All -> Status] /\ sent \in [All -> Sessions \cup {0}]
           /\ watching_service \in [All -> [All -> Nat]]
           /\ dead_service \in [All -> SUBSET (All \cup {Nobody})]
           /\ instance \in [Services -> [from : All \cup {Nobody}, session : Sessions \cup {0}]]
           /\ left \in [All -> Nat]
BY TypedFacts DEF RuntimeInv, TablesTyped

LEMMA InvNext ==
    ASSUME TablesTyped', BoxesOK(inbox', st'), st' \in [All -> Status],
           sent' \in [All -> Sessions \cup {0}], watching_service' \in [All -> [All -> Nat]],
           dead_service' \in [All -> SUBSET (All \cup {Nobody})],
           instance' \in [Services -> [from : All \cup {Nobody}, session : Sessions \cup {0}]],
           left' \in [All -> Nat], st'[Launcher] = "up", Tables', Counted', Fresh', Owed', Buried', NobodyForgotten'
    PROVE  RuntimeInv'
BY DEF RuntimeInv, RuntimeTypeOK, TablesTyped, Work, BoxesOK, Status

\* A coroutine that runs, and its service.
LEMMA RunsFacts ==
    ASSUME RuntimeInv, NEW s \in Services, Runs(s)
    PROVE  /\ s \in All /\ s # Launcher /\ st[s] \in {"up", "exiting"} /\ running[s] \in Co /\ Me(s) \in Work
           /\ Me(s).st = "run" /\ Me(s) = co[s][running[s]]
           /\ Typed(running[s], co[s], session_id_coroutine[s], watching_session[s], error_queue[s])
           /\ Agree(running[s], co[s], session_id_coroutine[s], watching_session[s], sent[s])
<1>1. s \in All /\ s # Launcher /\ st[s] \in {"up", "exiting"}
    BY NameFacts DEF Runs, Alive
<1>2. Typed(running[s], co[s], session_id_coroutine[s], watching_session[s], error_queue[s])
    BY <1>1, InvTypes DEF TablesTyped, Typed
<1>3. Agree(running[s], co[s], session_id_coroutine[s], watching_session[s], sent[s])
    BY <1>1 DEF RuntimeInv, Tables
<1>4. running[s] \in Co
    BY <1>2 DEF Runs, Typed
<1>5. Me(s) \in Work /\ Me(s).st = "run" /\ Me(s) = co[s][running[s]]
    BY <1>2, <1>3, <1>4 DEF Me, Typed, Agree
<1> QED BY <1>1, <1>2, <1>3, <1>4, <1>5

\* The tables when the running coroutine has begun to wait for a new session.
LEMMA CallAgrees ==
    ASSUME NEW c \in Co, NEW cs, NEW sid, NEW ws, NEW queue, NEW last \in Nat, NEW t \in All,
           Typed(c, cs, sid, ws, queue), Agree(c, cs, sid, ws, last), last + 1 \in Sessions
    PROVE  LET newcs == Turned(cs, c, "wait", last + 1)
               newsid == Put(sid, last + 1, c)
               newws == Put(ws, last + 1, t)
           IN  /\ Typed(NoCo, newcs, newsid, newws, queue)
               /\ Agree(NoCo, newcs, newsid, newws, last + 1)
               /\ SameWork(cs, newcs) /\ newws[last + 1] = t
               /\ \A j \in Sessions : j # last + 1 => newws[j] = ws[j]
<1> DEFINE k == last + 1
           newcs == Turned(cs, c, "wait", k)
           newsid == Put(sid, k, c)
           newws == Put(ws, k, t)
<1>0. cs \in [Co -> Work] /\ sid \in [Sessions -> Co \cup {NoCo}]
      /\ ws \in [Sessions -> All \cup {Nobody}] /\ k \in Sessions
    BY DEF Typed
<1> HIDE DEF k
<1>1. /\ newcs \in [Co -> Work] /\ newcs[c].st = "wait" /\ newcs[c].waits = k
      /\ newcs[c].from = cs[c].from /\ newcs[c].session = cs[c].session /\ newcs[c].ret = cs[c].ret
      /\ newcs[c].told = cs[c].told
      /\ \A d \in Co : d # c => newcs[d] = cs[d]
    BY <1>0, Turn
<1>2. /\ newsid \in [Sessions -> Co \cup {NoCo}] /\ newsid[k] = c
      /\ \A j \in Sessions : j # k => newsid[j] = sid[j]
      /\ newws \in [Sessions -> All \cup {Nobody}] /\ newws[k] = t
      /\ \A j \in Sessions : j # k => newws[j] = ws[j]
    BY <1>0 DEF Put
<1>3. cs[c].st = "run" /\ \A d \in Co : cs[d].st = "run" => d = c
    BY DEF Agree
<1>4. NoCo \notin Co
    BY CoFacts DEF NoCo
<1>5. sid[k] = NoCo /\ \A d \in Co : ~(cs[d].st = "wait" /\ cs[d].waits = k)
    <2>1. ~(k <= last)
        BY DEF k
    <2>2. sid[k] = NoCo
        BY <2>1, <1>0 DEF Agree
    <2> QED BY <2>2, <1>0, <1>4 DEF Agree
<1> HIDE DEF newcs, newsid, newws
<1>6. Typed(NoCo, newcs, newsid, newws, queue)
    BY <1>1, <1>2 DEF Typed
<1>7. ASSUME NEW j \in Sessions, NEW d \in Co
      PROVE  newsid[j] = d <=> (newcs[d].st = "wait" /\ newcs[d].waits = j)
    <2>1. CASE j = k
        BY <2>1, <1>1, <1>2, <1>5
    <2>2. CASE j # k
        <3>1. newsid[j] = d <=> (cs[d].st = "wait" /\ cs[d].waits = j)
            BY <2>2, <1>2 DEF Agree
        <3>2. CASE d = c
            BY <3>1, <3>2, <1>1, <1>3, <2>2
        <3>3. CASE d # c
            BY <3>1, <3>3, <1>1
        <3> QED BY <3>2, <3>3
    <2> QED BY <2>1, <2>2
<1>8. \A d \in Co : newcs[d].st = "run" <=> NoCo = d
    BY <1>1, <1>3, <1>4
<1>9. \A j \in Sessions : newws[j] # Nobody => newsid[j] # NoCo
    BY <1>2, <1>4 DEF Agree
<1>10. \A j \in Sessions : newsid[j] # NoCo => j <= k
    <2>1. ASSUME NEW j \in Sessions, newsid[j] # NoCo PROVE j <= k
        <3>1. CASE j = k
            BY <3>1, SessionFacts
        <3>2. CASE j # k
            <4>1. j <= last
                BY <3>2, <2>1, <1>2 DEF Agree
            <4> QED BY <4>1, SessionFacts DEF k
        <3> QED BY <3>1, <3>2
    <2> QED BY <2>1
<1>11. \A d \in Co : newcs[d].st = "free" => newcs[d].from = Nobody
    BY <1>1 DEF Agree
<1>12. Agree(NoCo, newcs, newsid, newws, k)
    BY <1>7, <1>8, <1>9, <1>10, <1>11 DEF Agree
<1>13. SameWork(cs, newcs)
    BY <1>1, <1>3 DEF SameWork
<1> QED BY <1>2, <1>6, <1>12, <1>13 DEF newcs, newsid, newws, k

LEMMA CallInv ==
    ASSUME RuntimeInv, NEW s \in Services, NEW t \in All, NEW arg \in Services \cup {Nobody},
           t = Launcher => arg \in Services, Call(s, t, arg)
    PROVE  RuntimeInv'
<1> DEFINE c == running[s]
           k == sent[s] + 1
           cs == Turned(co[s], c, "wait", k)
           sid == Put(session_id_coroutine[s], k, c)
           ws == Put(watching_session[s], k, t)
           m == Msg("CALL", k, s, arg)
<1>1. /\ Runs(s) /\ t # s /\ st[t] = "up" /\ k <= MaxCall[s] + 1
      /\ sent' = [sent EXCEPT ![s] = k] /\ inbox' = Deliver(inbox, t, m)
      /\ Suspend(s, cs, sid, ws, error_queue[s])
      /\ UNCHANGED <<st, left, watching_service, dead_service, instance, forks>>
    BY DEF Call, Turned, Put
<1>2. /\ s \in All /\ st[s] \in {"up", "exiting"} /\ c \in Co
      /\ Typed(c, co[s], session_id_coroutine[s], watching_session[s], error_queue[s])
      /\ Agree(c, co[s], session_id_coroutine[s], watching_session[s], sent[s])
    BY <1>1, RunsFacts
<1>3. sent[s] \in Nat /\ k \in Sessions
    <2>1. sent[s] \in Sessions \cup {0}
        BY <1>2, InvTypes
    <2>2. sent[s] \in Nat /\ MaxCall[s] \in Nat
        <3>1. sent[s] \in Nat
            BY <2>1, SessionNat
        <3>2. MaxCall[s] \in Nat
            BY RuntimeAssumption
        <3> QED BY <3>1, <3>2
    <2>3. k \in 1 .. MaxCall[s] + 1
        BY <2>2, <1>1
    <2> QED BY <2>2, <2>3, SessionFacts
<1>4. /\ Typed(NoCo, cs, sid, ws, error_queue[s]) /\ Agree(NoCo, cs, sid, ws, k)
      /\ SameWork(co[s], cs) /\ ws[k] = t
      /\ \A j \in Sessions : j # k => ws[j] = watching_session[s][j]
    BY <1>2, <1>3, CallAgrees
<1> HIDE DEF c, k, cs, sid, ws
<1>5. /\ TablesTyped'
      /\ Agree(running'[s], co'[s], session_id_coroutine'[s], watching_session'[s], k)
      /\ SameWork(cs, co'[s])
      /\ StillWaits(ws, error_queue[s], watching_session'[s], error_queue'[s])
      /\ \A x \in All : x # s => Untouched(x)
    BY <1>1, <1>2, <1>4, InvTypes, SuspendAgrees
<1>6. /\ m \in Messages /\ MsgOK(st, t, m) /\ m.type = "CALL" /\ m.session = k /\ m.from = s
    <2>1. /\ m \in Messages /\ m.type = "CALL" /\ m.session = k /\ m.from = s /\ m.arg = arg
        BY <1>2, <1>3, MsgType
    <2> QED BY <2>1, <1>3 DEF MsgOK, Reporting
<1> HIDE DEF m
<1>7. /\ BoxesOK(inbox', st') /\ Grows(inbox, inbox') /\ Has(inbox', t, "CALL", k, s)
      /\ \A x \in All : x # t => inbox'[x] = inbox[x]
    BY <1>1, <1>6, DeliverKeeps DEF RuntimeInv, Grows
<1>8. sent' \in [All -> Sessions \cup {0}] /\ sent'[s] = k /\ \A x \in All : x # s => sent'[x] = sent[x]
    BY <1>1, <1>2, <1>3, InvTypes
<1>9. Tables'
    BY <1>1, <1>2, <1>5, <1>8, TablesKeep DEF RuntimeInv
<1>10. \A x \in All : \A d \in Co : /\ co'[x][d].from = co[x][d].from
                                    /\ co'[x][d].session = co[x][d].session
                                    /\ co'[x][d].ret = co[x][d].ret
                                    /\ co'[x][d].told = co[x][d].told
                                    /\ (co'[x][d].st = "free" <=> co[x][d].st = "free")
    BY <1>4, <1>5 DEF SameWork, Untouched
<1>11. Counted'
    BY <1>1, <1>10, CountedKeeps, InvTypes DEF RuntimeInv
<1>12. Fresh'
    <2>1. \A x \in Services : st'[x] = "none" => x # s /\ x # t
        BY <1>1, <1>2
    <2> QED BY <2>1, <1>1, <1>5, <1>7, FreshKeeps DEF RuntimeInv, Untouched, All
<1>13. Owed' /\ Buried' /\ st'[Launcher] = "up"
    BY <1>1 DEF RuntimeInv, Owed, Buried, NoCaller
<1>14. ASSUME NEW x \in Services, NEW j \in Sessions, NEW y \in All,
              st'[x] = "up", watching_session'[x][j] = y
       PROVE  Pending(x, j, y)'
    <2>1. CASE x = s /\ j = k
        <3>1. y = t
            BY <2>1, <1>4, <1>5, <1>14, NameFacts DEF StillWaits
        <3> QED BY <2>1, <3>1, <1>7, PendingDef
    <2>2. CASE ~(x = s /\ j = k)
        <3>1. watching_session[x][j] = y /\ (Queued(error_queue[x], j) => Queued(error_queue'[x], j))
            <4>1. CASE x = s
                BY <4>1, <2>2, <1>4, <1>5, <1>14, NameFacts DEF StillWaits
            <4>2. CASE x # s
                BY <4>2, <1>5, <1>14 DEF Untouched, All
            <4> QED BY <4>1, <4>2
        <3>2. Pending(x, j, y)
            BY <3>1, <1>1, <1>14, ForgottenDef, NameFacts DEF RuntimeInv
        <3>3. Served(x, j, y) => Served(x, j, y)'
            BY <1>1, <1>10 DEF Served, Holds, Alive
        <3>4. \A z \in Services : Starting(z) => Starting(z)'
            BY <1>1, <1>10 DEF Starting, IsStarter, All
        <3> QED BY <3>1, <3>2, <3>3, <3>4, <1>1, <1>7, PendingKeeps
    <2> QED BY <2>1, <2>2
<1>15. NobodyForgotten'
    BY <1>5, <1>14, ForgottenNext DEF TablesTyped
<1> QED BY <1>1, <1>5, <1>7, <1>8, <1>9, <1>11, <1>12, <1>13, <1>15, InvNext, InvTypes

\* One coroutine, which does not wait and did not, changes.
LEMMA ReplaceAgrees ==
    ASSUME NEW run, NEW new, NEW cs \in [Co -> Work], NEW sid, NEW ws, NEW last, NEW c \in Co, NEW w \in Work,
           Agree(run, cs, sid, ws, last), cs[c].st # "wait", w.st # "wait",
           w.st = "free" => w.from = Nobody, w.st = "run" <=> new = c,
           \A d \in Co : d # c => (cs[d].st = "run" <=> new = d)
    PROVE  Agree(new, Put(cs, c, w), sid, ws, last)
<1> DEFINE newcs == Put(cs, c, w)
<1>1. newcs[c] = w /\ \A d \in Co : d # c => newcs[d] = cs[d]
    BY DEF Put
<1> HIDE DEF newcs
<1>2. ASSUME NEW j \in Sessions, NEW d \in Co
      PROVE  sid[j] = d <=> (newcs[d].st = "wait" /\ newcs[d].waits = j)
    BY <1>1 DEF Agree
<1>3. \A d \in Co : newcs[d].st = "run" <=> new = d
    BY <1>1
<1>4. \A d \in Co : newcs[d].st = "free" => newcs[d].from = Nobody
    BY <1>1 DEF Agree
<1>5. Agree(new, newcs, sid, ws, last)
    BY <1>2, <1>3, <1>4 DEF Agree
<1> QED BY <1>5 DEF newcs

LEMMA ReplaceCo ==
    ASSUME TablesTyped, NEW s \in All, NEW c \in Co, NEW w \in Work, co' = [co EXCEPT ![s][c] = w]
    PROVE  /\ co' \in [All -> [Co -> Work]] /\ co'[s] = Put(co[s], c, w)
           /\ co'[s][c] = w /\ \A d \in Co : d # c => co'[s][d] = co[s][d]
           /\ \A x \in All : x # s => co'[x] = co[x]
<1>1. co \in [All -> [Co -> Work]] /\ co[s] \in [Co -> Work]
    BY DEF TablesTyped
<1>2. /\ Put(co[s], c, w) \in [Co -> Work] /\ Put(co[s], c, w)[c] = w
      /\ \A d \in Co : d # c => Put(co[s], c, w)[d] = co[s][d]
    BY <1>1 DEF Put
<1>3. co' = [co EXCEPT ![s] = Put(co[s], c, w)]
    BY <1>1 DEF Put
<1> QED BY <1>1, <1>2, <1>3

LEMMA ForkInv ==
    ASSUME RuntimeInv, NEW s \in Services, Fork(s)
    PROVE  RuntimeInv'
<1> DEFINE w == [NoWork EXCEPT !.st = "fork", !.from = Forked]
<1>1. PICK c \in Co : FirstFree(s, c) /\ co' = [co EXCEPT ![s][c] = w]
    BY DEF Fork
<1>2. /\ Runs(s)
      /\ UNCHANGED <<st, inbox, left, running, session_id_coroutine, watching_session, watching_service,
                     dead_service, error_queue, instance, sent>>
    BY DEF Fork
<1>3. w \in Work /\ w.st = "fork" /\ w.from = Forked
    BY WorkFacts
<1> HIDE DEF w
<1>4. /\ s \in All /\ st[s] \in {"up", "exiting"} /\ running[s] \in Co
      /\ Typed(running[s], co[s], session_id_coroutine[s], watching_session[s], error_queue[s])
      /\ Agree(running[s], co[s], session_id_coroutine[s], watching_session[s], sent[s])
    BY <1>2, RunsFacts
<1>5. co[s][c].st = "free" /\ co[s][c].from = Nobody /\ co[s] \in [Co -> Work]
    BY <1>1, <1>4 DEF FirstFree, Agree, Typed
<1>6. /\ co' \in [All -> [Co -> Work]] /\ co'[s] = Put(co[s], c, w)
      /\ co'[s][c] = w /\ \A d \in Co : d # c => co'[s][d] = co[s][d]
      /\ \A x \in All : x # s => co'[x] = co[x]
    BY <1>1, <1>3, <1>4, ReplaceCo, InvTypes
<1>7. TablesTyped'
    BY <1>2, <1>6, InvTypes DEF TablesTyped
<1>8. \A d \in Co : co[s][d].st = "run" <=> running[s] = d
    BY <1>4 DEF Agree
<1>9. Agree(running[s], co'[s], session_id_coroutine[s], watching_session[s], sent[s])
    BY <1>3, <1>4, <1>5, <1>6, <1>8, ReplaceAgrees
<1>10. Tables'
    BY <1>2, <1>4, <1>6, <1>9, TablesKeep DEF RuntimeInv, Untouched
<1>11. Counted'
    BY <1>2, <1>3, <1>6, NameFacts, CountedKeeps, InvTypes DEF RuntimeInv
<1>12. Fresh'
    BY <1>2, <1>4, <1>6, FreshKeeps DEF RuntimeInv, All
<1>13. Owed' /\ Buried' /\ st'[Launcher] = "up" /\ BoxesOK(inbox', st')
    BY <1>2 DEF RuntimeInv, Owed, Buried, NoCaller
<1>14. ASSUME NEW x \in Services, NEW j \in Sessions, NEW y \in All,
              st'[x] = "up", watching_session'[x][j] = y
       PROVE  Pending(x, j, y)'
    <2>1. Pending(x, j, y)
        BY <1>2, <1>14, ForgottenDef, NameFacts DEF RuntimeInv
    <2>2. Served(x, j, y) => Served(x, j, y)'
        <3>1. x # Nobody
            BY NameFacts
        <3> QED BY <1>2, <1>5, <1>6, <3>1 DEF Served, Holds, Alive
    <2>3. \A z \in Services : Starting(z) => Starting(z)'
        BY <1>2, <1>5, <1>6 DEF Starting, IsStarter, All
    <2> QED BY <2>1, <2>2, <2>3, <1>2, PendingKeeps DEF Grows
<1>15. NobodyForgotten'
    BY <1>7, <1>14, ForgottenNext DEF TablesTyped
<1> QED BY <1>2, <1>7, <1>10, <1>11, <1>12, <1>13, <1>15, InvNext, InvTypes

LEMMA RetInv ==
    ASSUME RuntimeInv, NEW s \in Services, Ret(s)
    PROVE  RuntimeInv'
<1> DEFINE c == running[s]
           me == Me(s)
           w == [me EXCEPT !.ret = TRUE]
           m == Msg("RESPONSE", me.session, s, Nobody)
<1>1. /\ Runs(s) /\ me.session # 0 /\ ~me.ret
      /\ co' = [co EXCEPT ![s][running[s]].ret = TRUE]
      /\ inbox' = IF me.from \in dead_service[s] THEN inbox ELSE Deliver(inbox, me.from, m)
      /\ UNCHANGED <<st, left, running, session_id_coroutine, watching_session, watching_service,
                     dead_service, error_queue, instance, sent, forks>>
    BY DEF Ret
<1>2. /\ s \in All /\ st[s] \in {"up", "exiting"} /\ c \in Co /\ me \in Work /\ me.st = "run" /\ me = co[s][c]
      /\ Typed(c, co[s], session_id_coroutine[s], watching_session[s], error_queue[s])
      /\ Agree(c, co[s], session_id_coroutine[s], watching_session[s], sent[s])
    BY <1>1, RunsFacts
<1>3. /\ w \in Work /\ w.st = "run" /\ w.from = me.from /\ w.session = me.session /\ w.ret = TRUE /\ w.told = me.told
    BY <1>2 DEF Work
<1>4. co' = [co EXCEPT ![s][c] = w]
    BY <1>1, <1>2, InvTypes DEF TablesTyped
<1>5. me.session \in Sessions
    BY <1>1, <1>2 DEF Work
<1> HIDE DEF c, me, w
<1>6. /\ co' \in [All -> [Co -> Work]] /\ co'[s] = Put(co[s], c, w)
      /\ co'[s][c] = w /\ \A d \in Co : d # c => co'[s][d] = co[s][d]
      /\ \A x \in All : x # s => co'[x] = co[x]
    BY <1>2, <1>3, <1>4, ReplaceCo, InvTypes
<1>7. TablesTyped'
    BY <1>1, <1>6, InvTypes DEF TablesTyped
<1>8. co[s] \in [Co -> Work] /\ \A d \in Co : co[s][d].st = "run" <=> c = d
    BY <1>2 DEF Agree, Typed
<1>9. Agree(c, co'[s], session_id_coroutine[s], watching_session[s], sent[s])
    BY <1>2, <1>3, <1>6, <1>8, ReplaceAgrees
<1>10. Tables'
    BY <1>1, <1>2, <1>6, <1>9, TablesKeep DEF RuntimeInv, Untouched, c
<1>11. \A x \in All : \A d \in Co : /\ co'[x][d].from = co[x][d].from
                                    /\ co'[x][d].session = co[x][d].session
                                    /\ co'[x][d].st = co[x][d].st
                                    /\ co'[x][d].told = co[x][d].told
                                    /\ (co'[x][d].ret = co[x][d].ret \/ (x = s /\ d = c))
    BY <1>2, <1>3, <1>6
<1>12. Counted'
    BY <1>1, <1>11, CountedKeeps, InvTypes DEF RuntimeInv
<1>13. m \in Messages /\ m.type = "RESPONSE" /\ m.session = me.session /\ m.from = s
       /\ \A x \in All : MsgOK(st, x, m)
    <2>1. m \in Messages /\ m.type = "RESPONSE" /\ m.session = me.session /\ m.from = s
        BY <1>2, <1>5, MsgType
    <2> QED BY <2>1, <1>5 DEF MsgOK, Reporting
<1> HIDE DEF m
<1>14. /\ BoxesOK(inbox', st') /\ Grows(inbox, inbox')
       /\ \A x \in All : st[x] # "up" => inbox'[x] = inbox[x]
       /\ me.from \in All /\ st[me.from] = "up" => Has(inbox', me.from, "RESPONSE", me.session, s)
    <2>1. CASE me.from \in dead_service[s]
        <3>1. st[me.from] # "up"
            BY <2>1, <1>2 DEF RuntimeInv, Buried, Retired
        <3> QED BY <3>1, <2>1, <1>1 DEF RuntimeInv, Grows
    <2>2. CASE me.from \notin dead_service[s]
        BY <2>2, <1>1, <1>13, DeliverKeeps DEF RuntimeInv, Grows
    <2> QED BY <2>1, <2>2
<1>15. Fresh'
    BY <1>1, <1>2, <1>6, <1>14, FreshKeeps DEF RuntimeInv, All
<1>16. Owed' /\ Buried' /\ st'[Launcher] = "up"
    BY <1>1 DEF RuntimeInv, Owed, Buried, NoCaller
<1>17. ASSUME NEW x \in Services, NEW j \in Sessions, NEW y \in All,
              st'[x] = "up", watching_session'[x][j] = y
       PROVE  Pending(x, j, y)'
    <2>1. Pending(x, j, y)
        BY <1>1, <1>17, ForgottenDef, NameFacts DEF RuntimeInv
    <2>2. ASSUME Served(x, j, y) PROVE Served(x, j, y)' \/ Has(inbox', x, "RESPONSE", j, y)
        <3>1. PICK d \in Co : /\ Alive(y) \/ st[y] = "down"
                         /\ co[y][d].from = x /\ co[y][d].session = j /\ ~co[y][d].ret /\ ~co[y][d].told
            BY <2>2 DEF Served, Holds, Alive
        <3>2. CASE y = s /\ d = c
            BY <3>1, <3>2, <1>1, <1>2, <1>14, <1>17 DEF All
        <3>3. CASE ~(y = s /\ d = c)
            BY <3>1, <3>3, <1>1, <1>11 DEF Served, Holds, Alive
        <3> QED BY <3>2, <3>3
    <2>3. \A z \in Services : Starting(z) => Starting(z)'
        BY <1>1, <1>11 DEF Starting, IsStarter, All
    <2> QED BY <2>1, <2>2, <2>3, <1>1, <1>14, PendingKeeps
<1>18. NobodyForgotten'
    BY <1>7, <1>17, ForgottenNext DEF TablesTyped
<1> QED BY <1>1, <1>7, <1>10, <1>12, <1>14, <1>15, <1>16, <1>18, InvNext, InvTypes

LEMMA Release ==
    ASSUME watching_service \in [All -> [All -> Nat]], NEW s \in All, NEW y
    PROVE  /\ release_watching(s, y) \in [All -> [All -> Nat]]
           /\ \A x \in All : x # s => release_watching(s, y)[x] = watching_service[x]
           /\ \A z \in All : z # y => release_watching(s, y)[s][z] = watching_service[s][z]
           /\ y \in All => release_watching(s, y)[s][y] + 1 >= watching_service[s][y]
<1>1. CASE ~(y \in All /\ watching_service[s][y] > 0)
    BY <1>1 DEF release_watching
<1>2. CASE y \in All /\ watching_service[s][y] > 0
    <2>1. watching_service[s] \in [All -> Nat] /\ watching_service[s][y] - 1 \in Nat
        BY <1>2
    <2>2. release_watching(s, y) = [watching_service EXCEPT ![s] =
                                       Put(watching_service[s], y, watching_service[s][y] - 1)]
        BY <1>2 DEF release_watching, Put
    <2>3. /\ Put(watching_service[s], y, watching_service[s][y] - 1) \in [All -> Nat]
          /\ Put(watching_service[s], y, watching_service[s][y] - 1)[y] = watching_service[s][y] - 1
          /\ \A z \in All : z # y =>
                Put(watching_service[s], y, watching_service[s][y] - 1)[z] = watching_service[s][z]
        BY <1>2, <2>1 DEF Put
    <2>4. release_watching(s, y)[s] = Put(watching_service[s], y, watching_service[s][y] - 1)
        BY <2>2
    <2>5. release_watching(s, y)[s][y] + 1 >= watching_service[s][y]
        BY <2>1, <2>3, <2>4, <1>2
    <2>6. release_watching(s, y) \in [All -> [All -> Nat]]
        BY <2>2, <2>3
    <2>7. \A x \in All : x # s => release_watching(s, y)[x] = watching_service[x]
        BY <2>2
    <2> QED BY <2>3, <2>4, <2>5, <2>6, <2>7
<1> QED BY <1>1, <1>2

\* A coroutine of s ends, and the address that it served is released once.
LEMMA CountedReleases ==
    ASSUME RuntimeInv, NEW s \in Services, NEW c \in Co, NEW y, co[s][c].from = y,
           UNCHANGED <<st, instance>>, watching_service' = release_watching(s, y),
           \A d \in Co : d # c => co'[s][d].from = co[s][d].from, co'[s][c].from \notin All,
           \A x \in All : x # s => co'[x] = co[x]
    PROVE  Counted'
<1> USE UsersFinite
<1>1. /\ s \in All /\ s # Launcher /\ watching_service \in [All -> [All -> Nat]]
    BY NameFacts, InvTypes
<1>2. /\ watching_service' \in [All -> [All -> Nat]]
      /\ \A x \in All : x # s => watching_service'[x] = watching_service[x]
      /\ \A z \in All : z # y => watching_service'[s][z] = watching_service[s][z]
      /\ y \in All => watching_service'[s][y] + 1 >= watching_service[s][y]
    BY <1>1, Release
<1>3. ASSUME NEW x \in All, NEW z \in All, st'[x] # "down"
      PROVE  watching_service'[x][z] >= Cardinality(Users(co'[x], z))
                + (IF x = Launcher THEN Cardinality(Awaiting(instance', z)) ELSE 0)
    <2>1. watching_service[x][z] >= Cardinality(Users(co[x], z))
             + (IF x = Launcher THEN Cardinality(Awaiting(instance, z)) ELSE 0)
        BY <1>3 DEF RuntimeInv, Counted
    <2>2. CASE x # s
        BY <2>1, <2>2, <1>2
    <2>3. CASE x = s /\ z # y
        <3>1. Users(co'[s], z) \subseteq Users(co[s], z)
            BY DEF Users
        <3>2. Cardinality(Users(co'[s], z)) <= Cardinality(Users(co[s], z))
              /\ Cardinality(Users(co'[s], z)) \in Nat /\ Cardinality(Users(co[s], z)) \in Nat
            BY <3>1, CardSub
        <3>3. watching_service'[s][z] = watching_service[s][z] /\ watching_service[s][z] \in Nat
            BY <2>3, <1>1, <1>2
        <3> QED BY <2>1, <2>3, <3>2, <3>3, <1>1
    <2>4. CASE x = s /\ z = y
        <3>1. Users(co'[s], z) \subseteq Users(co[s], z) \ {c} /\ c \in Users(co[s], z)
            BY <2>4 DEF Users
        <3>2. Cardinality(Users(co'[s], z)) + 1 <= Cardinality(Users(co[s], z))
              /\ Cardinality(Users(co'[s], z)) \in Nat /\ Cardinality(Users(co[s], z)) \in Nat
            BY <3>1, CardDrop
        <3>3. /\ watching_service'[s][z] + 1 >= watching_service[s][z]
              /\ watching_service[s][z] \in Nat /\ watching_service'[s][z] \in Nat
            BY <2>4, <1>1, <1>2
        <3> QED BY <2>1, <2>4, <3>2, <3>3, <1>1
    <2> QED BY <2>2, <2>3, <2>4
<1> QED BY <1>3 DEF Counted

LEMMA FinishInv ==
    ASSUME RuntimeInv, NEW s \in Services, Finish(s)
    PROVE  RuntimeInv'
<1> DEFINE c == running[s]
           me == Me(s)
           cs == Put(co[s], c, NoWork)
           m == Msg("LAUNCHOK", 0, s, Nobody)
<1>1. /\ Runs(s) /\ (me.ret \/ me.from \in {Nobody, Forked})
      /\ inbox' = IF IsStarter(me) THEN Deliver(inbox, Launcher, m) ELSE inbox
      /\ watching_service' = release_watching(s, me.from)
      /\ Suspend(s, cs, session_id_coroutine[s], watching_session[s], error_queue[s])
      /\ UNCHANGED <<st, left, dead_service, instance, sent, forks>>
    BY DEF Finish, Put
<1>2. /\ s \in All /\ s # Launcher /\ st[s] \in {"up", "exiting"} /\ c \in Co /\ me \in Work /\ me.st = "run" /\ me = co[s][c]
      /\ Typed(c, co[s], session_id_coroutine[s], watching_session[s], error_queue[s])
      /\ Agree(c, co[s], session_id_coroutine[s], watching_session[s], sent[s])
    BY <1>1, RunsFacts
<1> HIDE DEF c, me
<1>3. co[s] \in [Co -> Work] /\ (\A d \in Co : co[s][d].st = "run" <=> c = d) /\ NoCo \notin Co
    BY <1>2, CoFacts DEF Agree, Typed, NoCo
<1>4. cs \in [Co -> Work] /\ cs[c] = NoWork /\ \A d \in Co : d # c => cs[d] = co[s][d]
    BY <1>2, <1>3, WorkFacts DEF Put
<1>5. Agree(NoCo, cs, session_id_coroutine[s], watching_session[s], sent[s])
    BY <1>2, <1>3, WorkFacts, ReplaceAgrees
<1>6. Typed(NoCo, cs, session_id_coroutine[s], watching_session[s], error_queue[s])
    BY <1>2, <1>4 DEF Typed
<1> HIDE DEF cs
<1>7. /\ TablesTyped'
      /\ Agree(running'[s], co'[s], session_id_coroutine'[s], watching_session'[s], sent[s])
      /\ SameWork(cs, co'[s])
      /\ StillWaits(watching_session[s], error_queue[s], watching_session'[s], error_queue'[s])
      /\ \A x \in All : x # s => Untouched(x)
    BY <1>1, <1>2, <1>5, <1>6, InvTypes, SuspendAgrees
<1>8. /\ BoxesOK(inbox', st') /\ Grows(inbox, inbox')
      /\ \A x \in All : st[x] # "up" => inbox'[x] = inbox[x]
      /\ IsStarter(me) => Has(inbox', Launcher, "LAUNCHOK", 0, s)
    <2>1. m \in Messages /\ m.type = "LAUNCHOK" /\ m.session = 0 /\ m.from = s
        BY <1>2, MsgType
    <2>2. MsgOK(st, Launcher, m)
        BY <2>1 DEF MsgOK
    <2> HIDE DEF m
    <2>3. Launcher \in All /\ st[Launcher] = "up"
        BY DEF RuntimeInv, All
    <2>4. CASE IsStarter(me)
        BY <2>1, <2>2, <2>3, <2>4, <1>1, DeliverKeeps DEF RuntimeInv, Grows
    <2>5. CASE ~IsStarter(me)
        BY <2>5, <1>1 DEF RuntimeInv, Grows
    <2> QED BY <2>4, <2>5
<1>9. Tables'
    BY <1>1, <1>2, <1>7, TablesKeep DEF RuntimeInv
<1>10. \A d \in Co : d # c => /\ co'[s][d].from = co[s][d].from
                              /\ co'[s][d].session = co[s][d].session
                              /\ co'[s][d].ret = co[s][d].ret
                              /\ co'[s][d].told = co[s][d].told
                              /\ (co'[s][d].st = "free" <=> co[s][d].st = "free")
    BY <1>4, <1>7 DEF SameWork
<1>11. co'[s][c].from = Nobody
    BY <1>2, <1>4, <1>7, WorkFacts DEF SameWork
<1>12. \A x \in All : x # s => co'[x] = co[x]
    BY <1>7 DEF Untouched
<1>13. Counted'
    BY <1>1, <1>2, <1>10, <1>11, <1>12, NameFacts, CountedReleases
<1>14. watching_service' \in [All -> [All -> Nat]]
    BY <1>1, <1>2, Release, InvTypes
<1>15. Fresh'
    <2>1. \A x \in Services : st'[x] = "none" => x # s /\ x \in All
        BY <1>1, <1>2 DEF All
    <2> QED BY <2>1, <1>1, <1>7, <1>8, FreshKeeps DEF RuntimeInv, Untouched
<1>16. Owed' /\ Buried' /\ st'[Launcher] = "up"
    BY <1>1 DEF RuntimeInv, Owed, Buried, NoCaller
<1>17. ASSUME NEW x \in Services, NEW j \in Sessions, NEW y \in All,
              st'[x] = "up", watching_session'[x][j] = y
       PROVE  Pending(x, j, y)'
    <2>1. watching_session[x][j] = y /\ (Queued(error_queue[x], j) => Queued(error_queue'[x], j))
        <3>1. CASE x = s
            BY <3>1, <1>7, <1>17, NameFacts DEF StillWaits
        <3>2. CASE x # s
            BY <3>2, <1>7, <1>17 DEF Untouched, All
        <3> QED BY <3>1, <3>2
    <2>2. Pending(x, j, y)
        BY <2>1, <1>1, <1>17, ForgottenDef, NameFacts DEF RuntimeInv
    <2>3. ASSUME Served(x, j, y) PROVE Served(x, j, y)'
        <3>1. PICK d \in Co : /\ Alive(y) \/ st[y] = "down"
                         /\ co[y][d].from = x /\ co[y][d].session = j /\ ~co[y][d].ret /\ ~co[y][d].told
            BY <2>3 DEF Served, Holds, Alive
        <3>2. ~(y = s /\ d = c)
            BY <3>1, <1>1, <1>2, NameFacts
        <3> QED BY <3>1, <3>2, <1>1, <1>10, <1>12 DEF Served, Holds, Alive
    <2>4. ASSUME NEW z \in Services, Starting(z)
          PROVE  Starting(z)' \/ \E type \in Reporting : Has(inbox', Launcher, type, 0, z)
        <3>1. PICK d \in Co : st[z] = "up" /\ co[z][d].st # "free" /\ co[z][d].from = Nobody
            BY <2>4 DEF Starting, IsStarter
        <3>2. CASE z = s /\ d = c
            BY <3>1, <3>2, <1>2, <1>8 DEF IsStarter, Reporting
        <3>3. CASE ~(z = s /\ d = c)
            BY <3>1, <3>3, <1>1, <1>10, <1>12 DEF Starting, IsStarter, All
        <3> QED BY <3>2, <3>3
    <2> QED BY <2>1, <2>2, <2>3, <2>4, <1>1, <1>8, PendingKeeps
<1>18. NobodyForgotten'
    BY <1>7, <1>17, ForgottenNext DEF TablesTyped
<1> QED BY <1>1, <1>7, <1>8, <1>9, <1>13, <1>14, <1>15, <1>16, <1>18, InvNext, InvTypes

LEMMA ErrorKeeps ==
    ASSUME NEW box, BoxesOK(box, st), NEW s \in All, NEW to, NEW k \in Sessions \cup {0}
    PROVE  /\ BoxesOK(ErrorTo(box, s, to, k), st) /\ Grows(box, ErrorTo(box, s, to, k))
           /\ \A x \in All : st[x] # "up" => ErrorTo(box, s, to, k)[x] = box[x]
           /\ k # 0 /\ to \in All /\ st[to] = "up" => Has(ErrorTo(box, s, to, k), to, "ERROR", k, s)
<1>1. CASE k = 0
    BY <1>1 DEF ErrorTo, Grows
<1>2. CASE k # 0
    <2> DEFINE m == Msg("ERROR", k, s, Nobody)
    <2>1. m \in Messages /\ m.type = "ERROR" /\ m.session = k /\ m.from = s
        BY MsgType
    <2>2. \A x \in All : MsgOK(st, x, m)
        BY <2>1, <1>2 DEF MsgOK, Reporting
    <2>3. ErrorTo(box, s, to, k) = Deliver(box, to, m)
        BY <1>2 DEF ErrorTo
    <2> HIDE DEF m
    <2> QED BY <2>1, <2>2, <2>3, DeliverKeeps DEF Grows
<1> QED BY <1>1, <1>2

LEMMA RaiseInv ==
    ASSUME RuntimeInv, NEW s \in Services, Raise(s)
    PROVE  RuntimeInv'
<1> DEFINE c == running[s]
           me == Me(s)
<1>1. /\ Runs(s) /\ ~IsStarter(me)
      /\ inbox' = ErrorTo(inbox, s, me.from, me.session)
      /\ co' = [co EXCEPT ![s][c] = NoWork] /\ running' = [running EXCEPT ![s] = NoCo]
      /\ UNCHANGED <<st, left, session_id_coroutine, watching_session, watching_service,
                     dead_service, error_queue, instance, sent, forks>>
    BY DEF Raise
<1>2. /\ s \in All /\ st[s] \in {"up", "exiting"} /\ c \in Co /\ me \in Work /\ me.st = "run" /\ me = co[s][c]
      /\ Typed(c, co[s], session_id_coroutine[s], watching_session[s], error_queue[s])
      /\ Agree(c, co[s], session_id_coroutine[s], watching_session[s], sent[s])
    BY <1>1, RunsFacts
<1> HIDE DEF c, me
<1>3. co[s] \in [Co -> Work] /\ (\A d \in Co : co[s][d].st = "run" <=> c = d) /\ NoCo \notin Co
    BY <1>2, CoFacts DEF Agree, Typed, NoCo
<1>4. /\ co' \in [All -> [Co -> Work]] /\ co'[s] = Put(co[s], c, NoWork)
      /\ co'[s][c] = NoWork /\ \A d \in Co : d # c => co'[s][d] = co[s][d]
      /\ \A x \in All : x # s => co'[x] = co[x]
    BY <1>1, <1>2, WorkFacts, ReplaceCo, InvTypes
<1>5. running'[s] = NoCo /\ running' \in [All -> Co \cup {NoCo}]
      /\ \A x \in All : x # s => running'[x] = running[x]
    BY <1>1, <1>2, InvTypes DEF TablesTyped
<1>6. TablesTyped'
    BY <1>1, <1>4, <1>5, InvTypes DEF TablesTyped
<1>7. Agree(NoCo, co'[s], session_id_coroutine[s], watching_session[s], sent[s])
    BY <1>2, <1>3, <1>4, WorkFacts, ReplaceAgrees
<1>8. Tables'
    BY <1>1, <1>2, <1>4, <1>5, <1>7, TablesKeep DEF RuntimeInv, Untouched
<1>9. Counted'
    <2>1. \A x \in All : \A d \in Co : co'[x][d].from \in All => co'[x][d].from = co[x][d].from
        BY <1>4, WorkFacts, NameFacts
    <2> QED BY <2>1, <1>1, CountedKeeps, InvTypes DEF RuntimeInv
<1>10. /\ BoxesOK(inbox', st') /\ Grows(inbox, inbox')
       /\ \A x \in All : st[x] # "up" => inbox'[x] = inbox[x]
       /\ me.session # 0 /\ me.from \in All /\ st[me.from] = "up"
             => Has(inbox', me.from, "ERROR", me.session, s)
    <2>1. me.session \in Sessions \cup {0}
        BY <1>2 DEF Work
    <2> QED BY <2>1, <1>1, <1>2, ErrorKeeps DEF RuntimeInv
<1>11. Fresh'
    BY <1>1, <1>2, <1>4, <1>10, FreshKeeps DEF RuntimeInv, All
<1>12. Owed' /\ Buried' /\ st'[Launcher] = "up"
    BY <1>1 DEF RuntimeInv, Owed, Buried, NoCaller
<1>13. ASSUME NEW x \in Services, NEW j \in Sessions, NEW y \in All,
              st'[x] = "up", watching_session'[x][j] = y
       PROVE  Pending(x, j, y)'
    <2>1. Pending(x, j, y)
        BY <1>1, <1>13, ForgottenDef, NameFacts DEF RuntimeInv
    <2>2. ASSUME Served(x, j, y) PROVE Served(x, j, y)' \/ Has(inbox', x, "ERROR", j, y)
        <3>1. PICK d \in Co : /\ Alive(y) \/ st[y] = "down"
                         /\ co[y][d].from = x /\ co[y][d].session = j /\ ~co[y][d].ret /\ ~co[y][d].told
            BY <2>2 DEF Served, Holds, Alive
        <3>2. CASE y = s /\ d = c
            BY <3>1, <3>2, <1>1, <1>2, <1>10, <1>13, SessionFacts DEF All
        <3>3. CASE ~(y = s /\ d = c)
            BY <3>1, <3>3, <1>1, <1>4 DEF Served, Holds, Alive
        <3> QED BY <3>2, <3>3
    <2>3. ASSUME NEW z \in Services, Starting(z) PROVE Starting(z)'
        <3>1. PICK d \in Co : st[z] = "up" /\ co[z][d].st # "free" /\ co[z][d].from = Nobody
            BY <2>3 DEF Starting, IsStarter
        <3>2. ~(z = s /\ d = c)
            BY <3>1, <1>1, <1>2 DEF IsStarter
        <3> QED BY <3>1, <3>2, <1>1, <1>4 DEF Starting, IsStarter, All
    <2> QED BY <2>1, <2>2, <2>3, <1>1, <1>10, PendingKeeps
<1>14. NobodyForgotten'
    BY <1>6, <1>13, ForgottenNext DEF TablesTyped
<1> QED BY <1>1, <1>6, <1>8, <1>9, <1>10, <1>11, <1>12, <1>14, InvNext, InvTypes

\* A message is in a sequence.
In(q, m) == \E n \in DOMAIN q : q[n] = m

LEMMA ConcatIn ==
    ASSUME NEW q \in Seq(Messages), NEW r \in Seq(Messages)
    PROVE  q \o r \in Seq(Messages) /\ \A m : In(q \o r, m) <=> (In(q, m) \/ In(r, m))
<1>1. /\ q \o r \in Seq(Messages) /\ Len(q) \in Nat /\ Len(r) \in Nat
      /\ DOMAIN q = 1 .. Len(q) /\ DOMAIN r = 1 .. Len(r) /\ DOMAIN (q \o r) = 1 .. Len(q) + Len(r)
      /\ \A n \in 1 .. Len(q) + Len(r) : (q \o r)[n] = IF n <= Len(q) THEN q[n] ELSE r[n - Len(q)]
    OBVIOUS
<1>2. ASSUME NEW m, In(q \o r, m) PROVE In(q, m) \/ In(r, m)
    <2>1. PICK n \in 1 .. Len(q) + Len(r) : (q \o r)[n] = m
        BY <1>1, <1>2 DEF In
    <2>2. CASE n <= Len(q)
        BY <1>1, <2>1, <2>2 DEF In
    <2>3. CASE ~(n <= Len(q))
        <3>1. n - Len(q) \in DOMAIN r /\ r[n - Len(q)] = m
            BY <1>1, <2>1, <2>3
        <3> QED BY <3>1 DEF In
    <2> QED BY <2>2, <2>3
<1>3. ASSUME NEW m, In(q, m) PROVE In(q \o r, m)
    <2>1. PICK n \in 1 .. Len(q) : q[n] = m
        BY <1>1, <1>3 DEF In
    <2>2. n \in DOMAIN (q \o r) /\ (q \o r)[n] = m
        BY <1>1, <2>1
    <2> QED BY <2>2 DEF In
<1>4. ASSUME NEW m, In(r, m) PROVE In(q \o r, m)
    <2>1. PICK n \in 1 .. Len(r) : r[n] = m
        BY <1>1, <1>4 DEF In
    <2>2. Len(q) + n \in DOMAIN (q \o r) /\ (q \o r)[Len(q) + n] = m
        BY <1>1, <2>1
    <2> QED BY <2>2 DEF In
<1> QED BY <1>1, <1>2, <1>3, <1>4

\* What a service that leaves sends to t.
LEMMA ReportsFacts ==
    ASSUME RuntimeInv, NEW s \in Services, NEW t \in All
    PROVE  /\ Reports(s, t) \in Seq(Messages)
           /\ \A m : In(Reports(s, t), m) => m.type \in {"REMOVE", "ERROR"} /\ m.from = s
           /\ t = Launcher => In(Reports(s, t), Msg("REMOVE", 0, s, Nobody))
           /\ \A k \in Callers(s, t) : In(Reports(s, t), Msg("ERROR", k, s, Nobody))
<1> DEFINE sessions == CHOOSE q \in Listings(Callers(s, t)) : TRUE
           A == IF t = Launcher THEN <<Msg("REMOVE", 0, s, Nobody)>> ELSE <<>>
           B == [n \in DOMAIN sessions |-> Msg("ERROR", sessions[n], s, Nobody)]
           C == IF \E k \in Sessions : watching_session[s][k] = t
                THEN <<Msg("ERROR", 0, s, Nobody)>> ELSE <<>>
<1>1. Reports(s, t) = (A \o B) \o C
    BY DEF Reports
<1>2. Callers(s, t) \subseteq Sessions
    BY InvTypes, NameFacts DEF Callers, TablesTyped, Work
<1>3. IsFiniteSet(Callers(s, t))
    BY <1>2, SessionsFinite, CardSub
<1>4. sessions \in Listings(Callers(s, t))
    BY <1>3, ListingExists
<1>5. sessions \in Seq(Callers(s, t)) /\ \A k \in Callers(s, t) : \E n \in DOMAIN sessions : sessions[n] = k
    BY <1>3, <1>4, ListingAll
<1> HIDE DEF sessions
<1>6. s \in All
    BY DEF All
<1>7. /\ \A k \in Sessions \cup {0} : /\ Msg("ERROR", k, s, Nobody) \in Messages
                                      /\ Msg("ERROR", k, s, Nobody).type = "ERROR"
                                      /\ Msg("ERROR", k, s, Nobody).from = s
      /\ Msg("REMOVE", 0, s, Nobody) \in Messages
      /\ Msg("REMOVE", 0, s, Nobody).type = "REMOVE" /\ Msg("REMOVE", 0, s, Nobody).from = s
    BY <1>6, MsgType
<1>8. A \in Seq(Messages) /\ C \in Seq(Messages)
      /\ (\A m : In(A, m) => m.type \in {"REMOVE", "ERROR"} /\ m.from = s)
      /\ (\A m : In(C, m) => m.type \in {"REMOVE", "ERROR"} /\ m.from = s)
      /\ (t = Launcher => In(A, Msg("REMOVE", 0, s, Nobody)))
    BY <1>7 DEF In
<1>9. B \in Seq(Messages)
    BY <1>2, <1>5, <1>7
<1>10. \A m : In(B, m) => m.type \in {"REMOVE", "ERROR"} /\ m.from = s
    BY <1>2, <1>5, <1>7 DEF In
<1>11. ASSUME NEW k \in Callers(s, t) PROVE In(B, Msg("ERROR", k, s, Nobody))
    <2>1. PICK n \in DOMAIN sessions : sessions[n] = k
        BY <1>5
    <2>2. n \in DOMAIN B /\ B[n] = Msg("ERROR", k, s, Nobody)
        BY <2>1
    <2> QED BY <2>2 DEF In
<1> HIDE DEF A, B, C
<1>12. A \o B \in Seq(Messages) /\ \A m : In(A \o B, m) <=> (In(A, m) \/ In(B, m))
    BY <1>8, <1>9, ConcatIn
<1>13. (A \o B) \o C \in Seq(Messages) /\ \A m : In((A \o B) \o C, m) <=> (In(A \o B, m) \/ In(C, m))
    BY <1>8, <1>12, ConcatIn
<1> QED BY <1>1, <1>8, <1>10, <1>11, <1>12, <1>13

LEMMA HasIn ==
    ASSUME NEW box, NEW x, NEW type, NEW k, NEW f
    PROVE  Has(box, x, type, k, f) <=> \E m : In(box[x], m) /\ m.type = type /\ m.session = k /\ m.from = f
BY DEF Has, In

\* What is sent by a service that leaves.
LEMMA LeaveSends ==
    ASSUME RuntimeInv, NEW s \in Services, NEW first \in Seq(Messages), Leave(s, first),
           \A m : In(first, m) => m.type = "INITERROR" /\ m.from = s
    PROVE  /\ BoxesOK(inbox', st') /\ Grows(inbox, inbox')
           /\ \A x \in All : st[x] # "up" => inbox'[x] = inbox[x]
           /\ Has(inbox', Launcher, "REMOVE", 0, s)
           /\ \A x \in All : \A k \in Callers(s, x) :
                 x # s /\ st[x] = "up" => Has(inbox', x, "ERROR", k, s)
<1> DEFINE F(x) == IF x = Launcher THEN first ELSE <<>>
           N(x) == (inbox[x] \o F(x)) \o Reports(s, x)
<1>1. /\ st' = [st EXCEPT ![s] = "exiting"]
      /\ inbox' = [x \in All |-> IF x = s \/ st[x] # "up" THEN inbox[x] ELSE N(x)]
    BY DEF Leave
<1>2. /\ inbox \in [All -> Seq(Messages)] /\ s \in All /\ Launcher \in All /\ Launcher # s
      /\ st[Launcher] = "up" /\ st \in [All -> Status]
    BY NameFacts, InvTypes DEF RuntimeInv, BoxesOK
<1>3. st'[s] \in Retired /\ \A x \in All : st[x] \in Retired => st'[x] \in Retired
    BY <1>1, <1>2 DEF Retired
<1>4. ASSUME NEW x \in All
      PROVE  N(x) \in Seq(Messages) /\ \A m : In(N(x), m) <=> (In(inbox[x], m) \/ In(F(x), m) \/ In(Reports(s, x), m))
    <2>1. F(x) \in Seq(Messages) /\ inbox[x] \in Seq(Messages) /\ Reports(s, x) \in Seq(Messages)
        BY <1>2, ReportsFacts
    <2> HIDE DEF F
    <2>2. inbox[x] \o F(x) \in Seq(Messages)
          /\ \A m : In(inbox[x] \o F(x), m) <=> (In(inbox[x], m) \/ In(F(x), m))
        BY <2>1, ConcatIn
    <2>3. N(x) \in Seq(Messages)
          /\ \A m : In(N(x), m) <=> (In(inbox[x] \o F(x), m) \/ In(Reports(s, x), m))
        BY <2>1, <2>2, ConcatIn
    <2> QED BY <2>2, <2>3
<1>5. ASSUME NEW x \in All, NEW m, In(F(x), m) PROVE m.type = "INITERROR" /\ m.from = s
    BY <1>5 DEF In
<1> HIDE DEF F, N
<1>6. inbox' \in [All -> Seq(Messages)]
    BY <1>1, <1>2, <1>4
<1>7. ASSUME NEW x \in All, NEW m, In(inbox'[x], m)
      PROVE  In(inbox[x], m) \/ (m.type \in {"INITERROR", "REMOVE", "ERROR"} /\ m.from = s)
    BY <1>1, <1>4, <1>5, <1>7, ReportsFacts
<1>8. ASSUME NEW x \in All, NEW m, In(inbox[x], m) PROVE In(inbox'[x], m)
    BY <1>1, <1>4, <1>8
<1>9. ASSUME NEW x \in All, NEW n \in DOMAIN inbox'[x] PROVE MsgOK(st', x, inbox'[x][n])
    <2> DEFINE m == inbox'[x][n]
    <2>1. In(inbox'[x], m)
        BY DEF In
    <2>2. CASE In(inbox[x], m)
        <3>1. MsgOK(st, x, m)
            BY <2>2 DEF In, RuntimeInv, BoxesOK
        <3> QED BY <3>1, <1>3 DEF MsgOK, All
    <2>3. CASE m.type \in {"INITERROR", "REMOVE", "ERROR"} /\ m.from = s
        BY <2>3, <1>3 DEF MsgOK
    <2> QED BY <2>1, <2>2, <2>3, <1>7
<1>10. BoxesOK(inbox', st')
    BY <1>6, <1>9 DEF BoxesOK
<1>11. Grows(inbox, inbox')
    <2> SUFFICES ASSUME NEW x \in All, NEW type, NEW k, NEW f, Has(inbox, x, type, k, f)
                 PROVE  Has(inbox', x, type, k, f)
        BY DEF Grows
    <2>1. PICK m : In(inbox[x], m) /\ m.type = type /\ m.session = k /\ m.from = f
        BY HasIn
    <2> QED BY <2>1, <1>8, HasIn
<1>12. \A x \in All : st[x] # "up" => inbox'[x] = inbox[x]
    BY <1>1
<1>13. Has(inbox', Launcher, "REMOVE", 0, s)
    <2> DEFINE m == Msg("REMOVE", 0, s, Nobody)
    <2>1. In(inbox'[Launcher], m)
        BY <1>1, <1>2, <1>4, ReportsFacts
    <2>2. m.type = "REMOVE" /\ m.session = 0 /\ m.from = s
        BY DEF Msg
    <2> QED BY <2>1, <2>2, HasIn
<1>14. ASSUME NEW x \in All, NEW k \in Callers(s, x), x # s, st[x] = "up"
       PROVE  Has(inbox', x, "ERROR", k, s)
    <2> DEFINE m == Msg("ERROR", k, s, Nobody)
    <2>1. In(inbox'[x], m)
        BY <1>1, <1>4, <1>14, ReportsFacts
    <2>2. m.type = "ERROR" /\ m.session = k /\ m.from = s
        BY DEF Msg
    <2> QED BY <2>1, <2>2, HasIn
<1> QED BY <1>10, <1>11, <1>12, <1>13, <1>14

LEMMA LeaveInv ==
    ASSUME RuntimeInv, NEW s \in Services, Runs(s), NEW first \in Seq(Messages), Leave(s, first),
           \A m : In(first, m) => m.type = "INITERROR" /\ m.from = s
    PROVE  RuntimeInv'
<1>1. /\ st' = [st EXCEPT ![s] = "exiting"] /\ running' = [running EXCEPT ![s] = NoCo]
      /\ co' = [co EXCEPT ![s] = [c \in Co |-> AfterExit(co[s][c])]]
      /\ UNCHANGED <<left, session_id_coroutine, watching_session, watching_service,
                     dead_service, error_queue, instance, sent, forks>>
    BY DEF Leave
<1>2. /\ BoxesOK(inbox', st') /\ Grows(inbox, inbox')
      /\ \A x \in All : st[x] # "up" => inbox'[x] = inbox[x]
      /\ Has(inbox', Launcher, "REMOVE", 0, s)
      /\ \A x \in All : \A k \in Callers(s, x) :
            x # s /\ st[x] = "up" => Has(inbox', x, "ERROR", k, s)
    BY LeaveSends
<1>3. /\ s \in All /\ s # Launcher /\ st[s] \in {"up", "exiting"}
      /\ Agree(running[s], co[s], session_id_coroutine[s], watching_session[s], sent[s])
    BY RunsFacts
<1>4. /\ st' \in [All -> Status] /\ st'[s] = "exiting"
      /\ \A x \in All : x # s => st'[x] = st[x]
    BY <1>1, <1>3, InvTypes DEF Status
<1>5. running' \in [All -> Co \cup {NoCo}] /\ \A x \in All : x # s => running'[x] = running[x]
    BY <1>1, <1>3, InvTypes DEF TablesTyped
<1>6. /\ co' \in [All -> [Co -> Work]] /\ \A x \in All : x # s => co'[x] = co[x]
      /\ \A d \in Co : LET w == co[s][d] IN
            IF w.st \in {"free", "fork"} THEN co'[s][d] = NoWork
            ELSE /\ co'[s][d].st = (IF w.st = "run" THEN "quit" ELSE w.st)
                 /\ co'[s][d].waits = w.waits /\ co'[s][d].from = w.from
    <2>1. co[s] \in [Co -> Work]
        BY <1>3, InvTypes DEF TablesTyped
    <2>2. ASSUME NEW w \in Work
          PROVE  /\ AfterExit(w) \in Work
                 /\ w.st \in {"free", "fork"} => AfterExit(w) = NoWork
                 /\ w.st \notin {"free", "fork"} =>
                       /\ AfterExit(w).st = (IF w.st = "run" THEN "quit" ELSE w.st)
                       /\ AfterExit(w).waits = w.waits /\ AfterExit(w).from = w.from
        BY WorkFacts DEF AfterExit, Work
    <2> DEFINE new == [c \in Co |-> AfterExit(co[s][c])]
    <2>3. new \in [Co -> Work] /\ \A d \in Co : new[d] = AfterExit(co[s][d])
        BY <2>1, <2>2
    <2> HIDE DEF new
    <2>4. /\ co' \in [All -> [Co -> Work]] /\ co'[s] = new /\ \A x \in All : x # s => co'[x] = co[x]
        BY <2>3, <1>1, <1>3, InvTypes DEF TablesTyped, new
    <2> QED BY <2>1, <2>2, <2>3, <2>4
<1>7. TablesTyped'
    BY <1>1, <1>5, <1>6, InvTypes DEF TablesTyped
<1>8. Tables' /\ Counted'
    <2>1. running'[s] = NoCo /\ NoCo \notin Co /\ co[s] \in [Co -> Work]
        BY <1>1, <1>3, CoFacts, InvTypes DEF TablesTyped, NoCo
    <2>2. ASSUME NEW k \in Sessions, NEW d \in Co
          PROVE  session_id_coroutine[s][k] = d <=> (co'[s][d].st = "wait" /\ co'[s][d].waits = k)
        <3>1. session_id_coroutine[s][k] = d <=> (co[s][d].st = "wait" /\ co[s][d].waits = k)
            BY <1>3 DEF Agree
        <3>2. co'[s][d].st = "wait" <=> co[s][d].st = "wait"
            BY <1>6, WorkFacts
        <3>3. co[s][d].st = "wait" => co'[s][d].waits = co[s][d].waits
            BY <1>6
        <3> QED BY <3>1, <3>2, <3>3
    <2>3. \A d \in Co : co'[s][d].st # "run" /\ (co'[s][d].st = "free" => co'[s][d].from = Nobody)
        BY <1>6, WorkFacts
    <2>4. Agree(NoCo, co'[s], session_id_coroutine[s], watching_session[s], sent[s])
        BY <2>1, <2>2, <2>3, <1>3 DEF Agree
    <2>5. Tables'
        BY <2>1, <2>4, <1>1, <1>3, <1>4, <1>5, <1>6, TablesKeep DEF RuntimeInv, Untouched
    <2>6. \A x \in All : \A d \in Co : co'[x][d].from \in All => co'[x][d].from = co[x][d].from
        BY <1>6, WorkFacts, NameFacts
    <2> QED BY <2>5, <2>6, <1>1, <1>3, <1>4, CountedKeeps, InvTypes DEF RuntimeInv
<1>9. Fresh'
    BY <1>1, <1>2, <1>3, <1>4, <1>6, FreshKeeps DEF RuntimeInv, All
<1>10. Owed' /\ Buried' /\ st'[Launcher] = "up"
    BY <1>1, <1>3, <1>4 DEF RuntimeInv, Owed, Buried, NoCaller, All, Retired
<1>11. ASSUME NEW x \in Services, NEW j \in Sessions, NEW y \in All,
              st'[x] = "up", watching_session'[x][j] = y
       PROVE  Pending(x, j, y)'
    <2>1. x \in All /\ x # s /\ st[x] = "up"
        BY <1>4, <1>11 DEF All
    <2>2. Pending(x, j, y)
        BY <2>1, <1>1, <1>11, ForgottenDef, NameFacts DEF RuntimeInv
    <2>3. ASSUME Served(x, j, y) PROVE Served(x, j, y)' \/ Has(inbox', x, "ERROR", j, y)
        <3>1. PICK d \in Co : /\ Alive(y) \/ st[y] = "down"
                         /\ co[y][d].from = x /\ co[y][d].session = j /\ ~co[y][d].ret /\ ~co[y][d].told
            BY <2>3 DEF Served, Holds, Alive
        <3>2. CASE y = s
            <4>1. co[s][d].st # "free"
                BY <3>1, <3>2, <1>3, NameFacts DEF Agree
            <4>2. j \in Callers(s, x)
                BY <3>1, <3>2, <4>1, SessionFacts DEF Callers
            <4> QED BY <4>2, <3>2, <2>1, <1>2
        <3>3. CASE y # s
            BY <3>1, <3>3, <1>4, <1>6 DEF Served, Holds, Alive
        <3> QED BY <3>2, <3>3
    <2>4. \A z \in Services : Starting(z) =>
              Starting(z)' \/ \E type \in Reporting : Has(inbox', Launcher, type, 0, z)
        BY <1>2, <1>4, <1>6 DEF Starting, IsStarter, Reporting, All
    <2> QED BY <2>2, <2>3, <2>4, <1>1, <1>2, PendingKeeps
<1>12. NobodyForgotten'
    BY <1>7, <1>11, ForgottenNext DEF TablesTyped
<1> QED BY <1>1, <1>2, <1>4, <1>7, <1>8, <1>9, <1>10, <1>12, InvNext, InvTypes

LEMMA ExitInv ==
    ASSUME RuntimeInv, NEW s \in Services, Exit(s) \/ StartFails(s)
    PROVE  RuntimeInv'
<1>1. CASE Exit(s)
    <2>1. << >> \in Seq(Messages) /\ \A m : ~In(<< >>, m)
        BY DEF In
    <2>2. Runs(s) /\ Leave(s, << >>)
        BY <1>1 DEF Exit
    <2> QED BY <2>1, <2>2, LeaveInv
<1>2. CASE StartFails(s)
    <2> DEFINE m == Msg("INITERROR", 0, s, Nobody)
    <2>1. m \in Messages /\ m.type = "INITERROR" /\ m.from = s
        BY MsgType DEF All
    <2> HIDE DEF m
    <2>2. <<m>> \in Seq(Messages) /\ \A n : In(<<m>>, n) => n = m
        BY <2>1 DEF In
    <2>3. Runs(s) /\ Leave(s, <<m>>)
        BY <1>2 DEF StartFails, m
    <2> QED BY <2>1, <2>2, <2>3, LeaveInv
<1> QED BY <1>1, <1>2

-----------------------------------------------------------------------------
(* Steps that take a message. *)

\* A message is taken; whatever it was the reason for must have another one.
LEMMA PendingPops ==
    ASSUME NEW s \in Services, NEW k \in Sessions, NEW t \in All, Pending(s, k, t),
           NEW p \in All, NEW m, Loses(inbox, inbox', p, m),
           t = Launcher /\ Launched(s, k) => Pending(s, k, t)',
           Served(s, k, t) => Served(s, k, t)',
           Queued(error_queue[s], k) => Queued(error_queue'[s], k),
           p = t /\ m.type = "CALL" /\ m.session = k /\ m.from = s => Pending(s, k, t)',
           p = s /\ m.type = "RESPONSE" /\ m.session = k => Pending(s, k, t)',
           p = s /\ m.type = "ERROR" /\ m.session \in {0, k} /\ m.from = t => Pending(s, k, t)'
    PROVE  Pending(s, k, t)'
<1>1. s \in All
    BY DEF All
<1>2. CASE Has(inbox, t, "CALL", k, s)
    BY <1>2, PendingDef DEF Loses
<1>3. CASE Served(s, k, t) \/ (t = Launcher /\ Launched(s, k)) \/ Queued(error_queue[s], k)
    BY <1>3, PendingDef
<1>4. CASE Has(inbox, s, "RESPONSE", k, t)
    BY <1>1, <1>4, PendingDef DEF Loses
<1>5. CASE Has(inbox, s, "ERROR", k, t)
    BY <1>1, <1>5, PendingDef DEF Loses
<1>6. CASE Has(inbox, s, "ERROR", 0, t)
    BY <1>1, <1>6, PendingDef DEF Loses
<1> QED BY <1>2, <1>3, <1>4, <1>5, <1>6, PendingDef

\* A message that is no report to the launcher is taken.
LEMMA LaunchedPops ==
    ASSUME NEW s \in Services, NEW k \in Sessions, Launched(s, k),
           NEW p \in All, NEW m, Loses(inbox, inbox', p, m), instance' = instance,
           p = Launcher => m.type \notin Reporting,
           \A x \in Services : Starting(x) => Starting(x)'
    PROVE  Pending(s, k, Launcher)'
<1>1. PICK x \in Services : /\ instance[x] = [from |-> s, session |-> k]
                            /\ \/ Starting(x)
                               \/ \E type \in Reporting : Has(inbox, Launcher, type, 0, x)
    BY LaunchedDef
<1>2. Starting(x)' \/ \E type \in Reporting : Has(inbox', Launcher, type, 0, x)
    BY <1>1 DEF Loses, All
<1>3. Launched(s, k)'
    BY <1>1, <1>2, LaunchedDef
<1> QED BY <1>3, PendingDef

\* The batch ends, and the Lua state is closed.
LEMMA EndBatchInv ==
    ASSUME RuntimeInv, NEW s \in Services, EndBatch(s)
    PROVE  RuntimeInv'
<1> DEFINE new == [c \in Co |-> IF co[s][c].ret \/ co[s][c].told THEN NoWork ELSE co[s][c]]
<1>1. /\ st[s] = "exiting" /\ running[s] = NoCo
      /\ st' = [st EXCEPT ![s] = "down"] /\ left' = [left EXCEPT ![s] = 0]
      /\ co' = [co EXCEPT ![s] = new]
      /\ session_id_coroutine' = [session_id_coroutine EXCEPT ![s] = [k \in Sessions |-> NoCo]]
      /\ watching_session' = [watching_session EXCEPT ![s] = [k \in Sessions |-> Nobody]]
      /\ watching_service' = [watching_service EXCEPT ![s] = [a \in All |-> 0]]
      /\ dead_service' = [dead_service EXCEPT ![s] = {}]
      /\ error_queue' = [error_queue EXCEPT ![s] = <<>>]
      /\ UNCHANGED <<inbox, running, instance, sent, forks>>
    BY DEF EndBatch, Quiet
<1>2. s \in All /\ s # Launcher
    BY NameFacts
<1>3. new \in [Co -> Work] /\ \A d \in Co : ~co[s][d].ret /\ ~co[s][d].told => new[d] = co[s][d]
    BY <1>2, WorkFacts, InvTypes DEF TablesTyped
<1> HIDE DEF new
<1>4. /\ co' \in [All -> [Co -> Work]] /\ co'[s] = new /\ \A x \in All : x # s => co'[x] = co[x]
    BY <1>1, <1>2, <1>3, InvTypes DEF TablesTyped
<1>5. st' \in [All -> Status] /\ st'[s] = "down" /\ \A x \in All : x # s => st'[x] = st[x]
    BY <1>1, <1>2, InvTypes DEF Status
<1>6. TablesTyped' /\ \A x \in All : x # s => Untouched(x)
    BY <1>1, <1>2, <1>4, InvTypes DEF TablesTyped, Untouched
<1>7. Tables'
    BY <1>1, <1>5, <1>6 DEF RuntimeInv, Tables, Untouched
<1>8. /\ watching_service' \in [All -> [All -> Nat]]
      /\ \A x \in All : x # s => watching_service'[x] = watching_service[x]
    BY <1>1, <1>2, InvTypes
<1>9. Counted'
    BY <1>1, <1>4, <1>5, <1>8 DEF RuntimeInv, Counted
<1>10. Fresh'
    <2>1. \A x \in Services : st'[x] = "none" => x # s /\ x \in All
        BY <1>5 DEF All
    <2> QED BY <2>1, <1>1, <1>4, <1>5, <1>6, FreshKeeps DEF RuntimeInv, Untouched
<1>11. BoxesOK(inbox', st')
    <2>1. \A x \in All : st[x] \in Retired => st'[x] \in Retired
        BY <1>5 DEF Retired
    <2>2. ASSUME NEW x \in All, NEW n \in DOMAIN inbox[x] PROVE MsgOK(st', x, inbox[x][n])
        <3>1. MsgOK(st, x, inbox[x][n])
            BY DEF RuntimeInv, BoxesOK
        <3> QED BY <3>1, <2>1 DEF MsgOK, All
    <2> QED BY <2>2, <1>1 DEF RuntimeInv, BoxesOK
<1>12. dead_service' \in [All -> SUBSET (All \cup {Nobody})] /\ Buried'
    <2>1. dead_service' \in [All -> SUBSET (All \cup {Nobody})]
          /\ \A x \in All : dead_service'[x] \subseteq dead_service[x]
        BY <1>1, <1>2, InvTypes
    <2>2. \A x \in Services : st[x] \in Retired => st'[x] \in Retired
        BY <1>5 DEF Retired, All
    <2> QED BY <2>1, <2>2 DEF RuntimeInv, Buried
<1>13. Owed' /\ st'[Launcher] = "up" /\ left' \in [All -> Nat]
    BY <1>1, <1>2, <1>5, InvTypes DEF RuntimeInv, Owed, NoCaller, All
<1>14. ASSUME NEW x \in Services, NEW j \in Sessions, NEW y \in All,
              st'[x] = "up", watching_session'[x][j] = y
       PROVE  Pending(x, j, y)'
    <2>1. x \in All /\ x # s /\ st[x] = "up" /\ Untouched(x)
        BY <1>5, <1>6, <1>14 DEF All
    <2>2. Pending(x, j, y)
        BY <2>1, <1>14, ForgottenDef, NameFacts DEF RuntimeInv, Untouched
    <2>3. ASSUME Served(x, j, y) PROVE Served(x, j, y)'
        <3>1. PICK d \in Co : /\ Alive(y) \/ st[y] = "down"
                             /\ co[y][d].from = x /\ co[y][d].session = j /\ ~co[y][d].ret /\ ~co[y][d].told
            BY <2>3 DEF Served, Holds
        <3>2. co'[y][d] = co[y][d]
            BY <3>1, <1>3, <1>4
        <3>3. Alive(y)' \/ st'[y] = "down"
            BY <3>1, <1>5 DEF Alive
        <3> QED BY <3>1, <3>2, <3>3 DEF Served, Holds
    <2>4. \A z \in Services : Starting(z) => Starting(z)'
        BY <1>1, <1>4, <1>5 DEF Starting, IsStarter, All
    <2> QED BY <2>1, <2>2, <2>3, <2>4, <1>1, PendingKeeps DEF Grows, Untouched
<1>15. NobodyForgotten'
    BY <1>6, <1>14, ForgottenNext DEF TablesTyped
<1> QED BY <1>1, <1>5, <1>6, <1>7, <1>8, <1>9, <1>10, <1>11, <1>12, <1>13, <1>15, InvNext, InvTypes

LEMMA DropInv ==
    ASSUME RuntimeInv, NEW s \in Services, Drop(s)
    PROVE  RuntimeInv'
<1> DEFINE m == Head(inbox[s])
           box == Pop(inbox, s)
           e == Msg("ERROR", 0, s, Nobody)
<1>1. /\ st[s] = "down" /\ inbox[s] # <<>> /\ inbox' = Deliver(box, m.from, e)
      /\ UNCHANGED <<st, left, running, co, session_id_coroutine, watching_session,
                     watching_service, dead_service, error_queue, instance, sent, forks>>
    BY DEF Drop, Pop
<1>2. s \in All /\ s # Launcher
    BY NameFacts
<1>3. /\ BoxesOK(box, st) /\ m \in Messages /\ MsgOK(st, s, m)
      /\ (\A x \in All : x # s => box[x] = inbox[x]) /\ Loses(inbox, box, s, m)
    BY <1>1, <1>2, PopKeeps DEF RuntimeInv
<1>4. e \in Messages /\ e.type = "ERROR" /\ e.session = 0 /\ e.from = s
    BY <1>2, MsgType
<1>5. \A x \in All : MsgOK(st, x, e)
    BY <1>1, <1>4 DEF MsgOK, Reporting, Retired
<1> HIDE DEF m, box, e
<1>6. /\ BoxesOK(inbox', st) /\ Grows(box, inbox')
      /\ \A x \in All : st[x] # "up" => inbox'[x] = box[x]
      /\ m.from \in All /\ st[m.from] = "up" => Has(inbox', m.from, "ERROR", 0, s)
    BY <1>1, <1>3, <1>4, <1>5, DeliverKeeps DEF Grows
<1>7. TablesTyped' /\ Tables'
    BY <1>1, InvTypes DEF RuntimeInv, TablesTyped, Tables
<1>8. Counted'
    BY <1>1, CountedKeeps, InvTypes DEF RuntimeInv
<1>9. Fresh'
    <2>1. \A x \in Services : st[x] = "none" => x # s /\ x \in All
        BY <1>1 DEF All
    <2> QED BY <2>1, <1>1, <1>3, <1>6, FreshKeeps DEF RuntimeInv
<1>10. Owed' /\ Buried' /\ st'[Launcher] = "up"
    BY <1>1 DEF RuntimeInv, Owed, Buried, NoCaller
<1>11. ASSUME NEW x \in Services, NEW j \in Sessions, NEW y \in All,
              st'[x] = "up", watching_session'[x][j] = y
       PROVE  Pending(x, j, y)'
    <2>1. x \in All /\ x # s /\ st[x] = "up"
        BY <1>1, <1>11 DEF All
    <2>2. Pending(x, j, y)
        BY <2>1, <1>1, <1>11, ForgottenDef, NameFacts DEF RuntimeInv
    <2>3. Served(x, j, y) => Served(x, j, y)'
        BY <1>1 DEF Served, Holds, Alive
    <2>4. \A z \in Services : Starting(z) => Starting(z)'
        BY <1>1 DEF Starting, IsStarter
    <2>5. Loses(inbox, inbox', s, m)
        BY <1>3, <1>6 DEF Loses, Grows
    <2>6. s = y /\ m.from = x => Pending(x, j, y)'
        BY <1>6, <2>1, PendingDef
    <2>7. Launched(x, j) => Pending(x, j, Launcher)'
        BY <2>4, <2>5, <1>1, <1>2, LaunchedPops
    <2> QED BY <2>1, <2>2, <2>3, <2>5, <2>6, <2>7, <1>1, <1>2, PendingPops
<1>12. NobodyForgotten'
    BY <1>7, <1>11, ForgottenNext DEF TablesTyped
<1> QED BY <1>1, <1>6, <1>7, <1>8, <1>9, <1>10, <1>12, InvNext, InvTypes

LEMMA RunForkInv ==
    ASSUME RuntimeInv, NEW s \in All, RunFork(s)
    PROVE  RuntimeInv'
<1>1. PICK c \in Co : /\ co[s][c].st = "fork"
                      /\ co' = [co EXCEPT ![s][c].st = "run"] /\ running' = [running EXCEPT ![s] = c]
    BY DEF RunFork
<1>2. /\ st[s] \in {"up", "exiting"} /\ running[s] = NoCo
      /\ UNCHANGED <<st, inbox, left, session_id_coroutine, watching_session, watching_service,
                     dead_service, error_queue, instance, sent, forks>>
    BY DEF RunFork, Alive
<1> DEFINE w == [co[s][c] EXCEPT !.st = "run"]
<1>3. co[s] \in [Co -> Work] /\ co[s][c] \in Work
    BY InvTypes DEF TablesTyped
<1>4. /\ w \in Work /\ w.st = "run" /\ w.from = co[s][c].from
      /\ w.session = co[s][c].session /\ w.ret = co[s][c].ret /\ w.told = co[s][c].told
    BY <1>3 DEF Work
<1>5. co' = [co EXCEPT ![s][c] = w]
    BY <1>1, InvTypes DEF TablesTyped
<1> HIDE DEF w
<1>6. /\ co' \in [All -> [Co -> Work]] /\ co'[s] = Put(co[s], c, w)
      /\ co'[s][c] = w /\ \A d \in Co : d # c => co'[s][d] = co[s][d]
      /\ \A x \in All : x # s => co'[x] = co[x]
    BY <1>4, <1>5, ReplaceCo, InvTypes
<1>7. running' \in [All -> Co \cup {NoCo}] /\ running'[s] = c
      /\ \A x \in All : x # s => running'[x] = running[x]
    BY <1>1, InvTypes DEF TablesTyped
<1>8. TablesTyped'
    BY <1>2, <1>6, <1>7, InvTypes DEF TablesTyped
<1>9. Agree(NoCo, co[s], session_id_coroutine[s], watching_session[s], sent[s])
    BY <1>2 DEF RuntimeInv, Tables
<1>10. \A d \in Co : co[s][d].st # "run"
    BY <1>9, CoFacts DEF Agree, NoCo
<1>11. Agree(c, co'[s], session_id_coroutine[s], watching_session[s], sent[s])
    <2>1. co[s][c].st # "wait" /\ w.st # "wait" /\ w.st # "free"
        BY <1>1, <1>4
    <2>2. \A d \in Co : d # c => (co[s][d].st = "run" <=> c = d)
        BY <1>10
    <2> QED BY <2>1, <2>2, <1>3, <1>4, <1>6, <1>9, ReplaceAgrees
<1>12. Tables'
    BY <1>2, <1>6, <1>7, <1>11, TablesKeep DEF RuntimeInv, Untouched
<1>13. \A x \in All : \A d \in Co : /\ co'[x][d].from = co[x][d].from
                                    /\ co'[x][d].session = co[x][d].session
                                    /\ co'[x][d].ret = co[x][d].ret
                                    /\ co'[x][d].told = co[x][d].told
                                    /\ (co'[x][d].st = "free" <=> co[x][d].st = "free")
    BY <1>1, <1>4, <1>6
<1>14. Counted'
    BY <1>2, <1>13, CountedKeeps, InvTypes DEF RuntimeInv
<1>15. Fresh'
    BY <1>2, <1>6, FreshKeeps DEF RuntimeInv, All
<1>16. Owed' /\ Buried' /\ st'[Launcher] = "up" /\ BoxesOK(inbox', st')
    BY <1>2 DEF RuntimeInv, Owed, Buried, NoCaller
<1>17. ASSUME NEW x \in Services, NEW j \in Sessions, NEW y \in All,
              st'[x] = "up", watching_session'[x][j] = y
       PROVE  Pending(x, j, y)'
    <2>1. Pending(x, j, y)
        BY <1>2, <1>17, ForgottenDef, NameFacts DEF RuntimeInv
    <2>2. Served(x, j, y) => Served(x, j, y)'
        BY <1>2, <1>13 DEF Served, Holds, Alive
    <2>3. \A z \in Services : Starting(z) => Starting(z)'
        BY <1>2, <1>13 DEF Starting, IsStarter, All
    <2> QED BY <2>1, <2>2, <2>3, <1>2, PendingKeeps DEF Grows
<1>18. NobodyForgotten'
    BY <1>8, <1>17, ForgottenNext DEF TablesTyped
<1> QED BY <1>2, <1>8, <1>12, <1>14, <1>15, <1>16, <1>18, InvNext, InvTypes

\* The message that service s takes next.
LEMMA NextFacts ==
    ASSUME RuntimeInv, NEW s \in All, NEW type, Next1(s, type)
    PROVE  /\ st[s] \in {"up", "exiting"} /\ running[s] = NoCo /\ Head(inbox[s]).type = type
           /\ Batch(s) \in [All -> Nat]
           /\ Head(inbox[s]) \in Messages /\ MsgOK(st, s, Head(inbox[s]))
           /\ BoxesOK(Popped(s), st) /\ Loses(inbox, Popped(s), s, Head(inbox[s]))
           /\ \A x \in All : x # s => Popped(s)[x] = inbox[x]
           /\ Typed(NoCo, co[s], session_id_coroutine[s], watching_session[s], error_queue[s])
           /\ Agree(NoCo, co[s], session_id_coroutine[s], watching_session[s], sent[s])
<1> DEFINE m == Head(inbox[s])
<1>1. /\ st[s] \in {"up", "exiting"} /\ (st[s] = "exiting" => left[s] > 0)
      /\ running[s] = NoCo /\ inbox[s] # <<>> /\ m.type = type
    BY DEF Next1, Quiet
<1>2. Popped(s) = Pop(inbox, s)
    BY DEF Popped, Pop
<1>3. /\ m \in Messages /\ MsgOK(st, s, m)
      /\ BoxesOK(Popped(s), st) /\ Loses(inbox, Popped(s), s, m)
      /\ \A x \in All : x # s => Popped(s)[x] = inbox[x]
    BY <1>1, <1>2, PopKeeps DEF RuntimeInv
<1>4. Typed(NoCo, co[s], session_id_coroutine[s], watching_session[s], error_queue[s])
    BY <1>1, InvTypes DEF TablesTyped, Typed
<1>5. Agree(NoCo, co[s], session_id_coroutine[s], watching_session[s], sent[s])
    BY <1>1 DEF RuntimeInv, Tables
<1>6. Batch(s) \in [All -> Nat]
    <2>1. left \in [All -> Nat] /\ inbox[s] \in Seq(Messages)
        BY InvTypes DEF RuntimeInv, BoxesOK
    <2>2. left[s] \in Nat /\ Len(inbox[s]) \in Nat
        BY <2>1
    <2>3. st[s] = "exiting" => left[s] - 1 \in Nat
        BY <2>2, <1>1
    <2>4. Len(inbox[s]) > 2 => Len(inbox[s]) - 2 \in Nat
        BY <2>2
    <2> QED BY <2>1, <2>3, <2>4 DEF Batch
<1> QED BY <1>1, <1>3, <1>4, <1>5, <1>6

LEMMA DispatchResponseInv ==
    ASSUME RuntimeInv, NEW s \in All, DispatchResponse(s)
    PROVE  RuntimeInv'
<1> DEFINE m == Head(inbox[s])
           k == m.session
           c == session_id_coroutine[s][k]
<1>2. /\ Next1(s, "RESPONSE") /\ inbox' = Popped(s) /\ left' = Batch(s)
      /\ \/ c = NoCo /\ UNCHANGED <<running, co, session_id_coroutine, watching_session>>
         \/ /\ c # NoCo
            /\ running' = [running EXCEPT ![s] = c]
            /\ co' = [co EXCEPT ![s][c].st = "run", ![s][c].waits = 0]
            /\ session_id_coroutine' = [session_id_coroutine EXCEPT ![s][k] = NoCo]
            /\ watching_session' = [watching_session EXCEPT ![s][k] = Nobody]
      /\ UNCHANGED <<st, watching_service, dead_service, error_queue, instance, sent, forks>>
    BY Zenon DEF DispatchResponse
<1>3. /\ st[s] \in {"up", "exiting"} /\ left' \in [All -> Nat] /\ running[s] = NoCo /\ m.type = "RESPONSE"
      /\ m \in Messages /\ MsgOK(st, s, m)
      /\ BoxesOK(inbox', st) /\ Loses(inbox, inbox', s, m)
      /\ (\A x \in All : x # s => inbox'[x] = inbox[x])
      /\ Typed(NoCo, co[s], session_id_coroutine[s], watching_session[s], error_queue[s])
      /\ Agree(NoCo, co[s], session_id_coroutine[s], watching_session[s], sent[s])
    BY <1>2, NextFacts, Zenon
<1> HIDE DEF m
<1>4. k \in Sessions /\ c \in Co \cup {NoCo}
    BY <1>3 DEF MsgOK, Typed
<1>5. /\ TablesTyped'
      /\ Agree(running'[s], co'[s], session_id_coroutine'[s], watching_session'[s], sent'[s])
      /\ SameWork(co[s], co'[s]) /\ (\A x \in All : x # s => Untouched(x))
      /\ watching_session'[s][k] = Nobody
      /\ \A j \in Sessions : j # k => watching_session'[s][j] = watching_session[s][j]
    <2>1. CASE c = NoCo
        <3>1. UNCHANGED <<running, co, session_id_coroutine, watching_session>>
            BY <2>1, <1>2
        <3>2. watching_session[s][k] = Nobody
            BY <2>1, <1>3, <1>4 DEF Agree
        <3>3. TablesTyped'
            BY <3>1, <1>2, InvTypes DEF TablesTyped
        <3> QED BY <3>1, <3>2, <3>3, <1>2, <1>3 DEF SameWork, Untouched
    <2>2. CASE c # NoCo
        <3> DEFINE newcs == Turned(co[s], c, "run", 0)
                   newsid == Put(session_id_coroutine[s], k, NoCo)
                   newws == Put(watching_session[s], k, Nobody)
        <3>1. c \in Co
            BY <2>2, <1>4
        <3>2. Typed(c, newcs, newsid, newws, error_queue[s]) /\ Agree(c, newcs, newsid, newws, sent[s])
              /\ SameWork(co[s], newcs)
            BY <3>1, <1>3, <1>4, ResumeAgrees
        <3>3. /\ running' = [running EXCEPT ![s] = c] /\ co' = [co EXCEPT ![s] = newcs]
              /\ session_id_coroutine' = [session_id_coroutine EXCEPT ![s] = newsid]
              /\ watching_session' = [watching_session EXCEPT ![s] = newws]
            BY <2>2, <1>2, InvTypes DEF Turned, Put, TablesTyped
        <3>4. newws[k] = Nobody /\ \A j \in Sessions : j # k => newws[j] = watching_session[s][j]
            BY <1>3, <1>4 DEF Put, Typed
        <3> HIDE DEF c, newcs, newsid, newws
        <3>5. TablesTyped'
            BY <3>2, <3>3, <1>2, InvTypes DEF TablesTyped, Typed
        <3>6. /\ running'[s] = c /\ co'[s] = newcs /\ session_id_coroutine'[s] = newsid
              /\ watching_session'[s] = newws /\ sent' = sent
            BY <3>3, <1>2, InvTypes DEF TablesTyped
        <3>7. \A x \in All : x # s => Untouched(x)
            BY <3>3, <1>2, InvTypes DEF TablesTyped, Untouched
        <3> QED BY <3>2, <3>4, <3>5, <3>6, <3>7
    <2> QED BY <2>1, <2>2
<1> HIDE DEF k, c
<1>6. Tables'
    BY <1>2, <1>5, TablesKeep DEF RuntimeInv
<1>7. \A x \in All : \A d \in Co : /\ co'[x][d].from = co[x][d].from
                                   /\ co'[x][d].session = co[x][d].session
                                   /\ co'[x][d].ret = co[x][d].ret
                                   /\ co'[x][d].told = co[x][d].told
                                   /\ (co'[x][d].st = "free" <=> co[x][d].st = "free")
    BY <1>5 DEF SameWork, Untouched
<1>8. Counted'
    BY <1>2, <1>7, CountedKeeps, InvTypes DEF RuntimeInv
<1>9. Fresh'
    <2>1. \A x \in Services : st'[x] = "none" => x # s /\ x \in All
        BY <1>2, <1>3 DEF All
    <2> QED BY <2>1, <1>2, <1>3, <1>5, FreshKeeps DEF RuntimeInv, Untouched
<1>10. Owed' /\ Buried' /\ st'[Launcher] = "up" /\ BoxesOK(inbox', st')
    BY <1>2, <1>3 DEF RuntimeInv, Owed, Buried, NoCaller
<1>11. ASSUME NEW x \in Services, NEW j \in Sessions, NEW y \in All,
              st'[x] = "up", watching_session'[x][j] = y
       PROVE  Pending(x, j, y)'
    <2>1. watching_session[x][j] = y /\ ~(x = s /\ j = k)
        BY <1>5, <1>11, NameFacts DEF Untouched
    <2>2. Pending(x, j, y)
        BY <2>1, <1>2, <1>11, ForgottenDef, NameFacts DEF RuntimeInv
    <2>3. Served(x, j, y) => Served(x, j, y)'
        BY <1>2, <1>7 DEF Served, Holds, Alive
    <2>4. \A z \in Services : Starting(z) => Starting(z)'
        BY <1>2, <1>7 DEF Starting, IsStarter, All
    <2>5. Launched(x, j) => Pending(x, j, Launcher)'
        BY <2>4, <1>2, <1>3, LaunchedPops DEF Reporting
    <2>6. m.type = "RESPONSE" /\ (x = s => m.session # j) /\ error_queue'[x] = error_queue[x]
        BY <2>1, <1>2, <1>3 DEF k
    <2> QED BY <2>2, <2>3, <2>5, <2>6, <1>3, PendingPops
<1>12. NobodyForgotten'
    BY <1>5, <1>11, ForgottenNext DEF TablesTyped
<1> QED BY <1>2, <1>3, <1>5, <1>6, <1>8, <1>9, <1>10, <1>12, InvNext, InvTypes

LEMMA QueueConcat ==
    ASSUME NEW q \in Seq(Sessions), NEW r \in Seq(Sessions)
    PROVE  q \o r \in Seq(Sessions) /\ \A k : (Queued(q, k) \/ Queued(r, k)) => Queued(q \o r, k)
<1>1. /\ q \o r \in Seq(Sessions) /\ Len(q) \in Nat /\ Len(r) \in Nat
      /\ DOMAIN q = 1 .. Len(q) /\ DOMAIN r = 1 .. Len(r) /\ DOMAIN (q \o r) = 1 .. Len(q) + Len(r)
      /\ \A n \in 1 .. Len(q) + Len(r) : (q \o r)[n] = IF n <= Len(q) THEN q[n] ELSE r[n - Len(q)]
    OBVIOUS
<1>2. ASSUME NEW k, Queued(q, k) PROVE Queued(q \o r, k)
    <2>1. PICK n \in 1 .. Len(q) : q[n] = k
        BY <1>1, <1>2 DEF Queued
    <2>2. n \in DOMAIN (q \o r) /\ (q \o r)[n] = k
        BY <1>1, <2>1
    <2> QED BY <2>2 DEF Queued
<1>3. ASSUME NEW k, Queued(r, k) PROVE Queued(q \o r, k)
    <2>1. PICK n \in 1 .. Len(r) : r[n] = k
        BY <1>1, <1>3 DEF Queued
    <2>2. Len(q) + n \in DOMAIN (q \o r) /\ (q \o r)[Len(q) + n] = k
        BY <1>1, <2>1
    <2> QED BY <2>2 DEF Queued
<1> QED BY <1>1, <1>2, <1>3

LEMMA DispatchErrorInv ==
    ASSUME RuntimeInv, NEW s \in All, DispatchError(s)
    PROVE  RuntimeInv'
<1> DEFINE m == Head(inbox[s])
           failed == IF m.session = 0 THEN Told(s, m.from)
                     ELSE {m.session} \cap {k \in Sessions : watching_session[s][k] # Nobody}
<1>1. PICK q \in Listings(failed) :
          Suspend(s, co[s], session_id_coroutine[s], watching_session[s], error_queue[s] \o q)
    BY Zenon DEF DispatchError
<1>2. /\ Next1(s, "ERROR") /\ inbox' = Popped(s) /\ left' = Batch(s)
      /\ dead_service' = IF m.session = 0 /\ watching_service[s][m.from] > 0
                         THEN [dead_service EXCEPT ![s] = @ \cup {m.from}]
                         ELSE dead_service
      /\ UNCHANGED <<st, watching_service, instance, sent, forks>>
    BY Zenon DEF DispatchError
<1>3. /\ st[s] \in {"up", "exiting"} /\ left' \in [All -> Nat] /\ running[s] = NoCo /\ m.type = "ERROR"
      /\ m \in Messages /\ MsgOK(st, s, m)
      /\ BoxesOK(inbox', st) /\ Loses(inbox, inbox', s, m)
      /\ (\A x \in All : x # s => inbox'[x] = inbox[x])
      /\ Typed(NoCo, co[s], session_id_coroutine[s], watching_session[s], error_queue[s])
      /\ Agree(NoCo, co[s], session_id_coroutine[s], watching_session[s], sent[s])
    BY <1>2, NextFacts, Zenon
<1> HIDE DEF m
<1>4. failed \subseteq Sessions
    BY DEF Told
<1>5. IsFiniteSet(failed)
    BY <1>4, SessionsFinite, CardSub
<1>6. \A k \in Sessions : watching_session[s][k] # Nobody /\ (m.session = k \/ (m.session = 0 /\ watching_session[s][k] = m.from))
          => k \in failed
    BY SessionFacts DEF Told
<1> HIDE DEF failed
<1>7. q \in Seq(Sessions) /\ \A k \in failed : Queued(q, k)
    <2>1. q \in Seq(failed) /\ \A k \in failed : Queued(q, k)
        BY <1>5, ListingAll DEF Queued
    <2> QED BY <2>1, <1>4
<1>8. /\ error_queue[s] \o q \in Seq(Sessions)
      /\ \A k : (Queued(error_queue[s], k) \/ Queued(q, k)) => Queued(error_queue[s] \o q, k)
    BY <1>3, <1>7, QueueConcat DEF Typed
<1>9. Typed(NoCo, co[s], session_id_coroutine[s], watching_session[s], error_queue[s] \o q)
    BY <1>3, <1>8 DEF Typed
<1>10. /\ TablesTyped'
       /\ Agree(running'[s], co'[s], session_id_coroutine'[s], watching_session'[s], sent[s])
       /\ SameWork(co[s], co'[s])
       /\ StillWaits(watching_session[s], error_queue[s] \o q, watching_session'[s], error_queue'[s])
       /\ \A x \in All : x # s => Untouched(x)
    BY <1>1, <1>3, <1>9, InvTypes, SuspendAgrees
<1>11. Tables'
    BY <1>2, <1>10, TablesKeep DEF RuntimeInv
<1>12. \A x \in All : \A d \in Co : /\ co'[x][d].from = co[x][d].from
                                    /\ co'[x][d].session = co[x][d].session
                                    /\ co'[x][d].ret = co[x][d].ret
                                    /\ co'[x][d].told = co[x][d].told
                                    /\ (co'[x][d].st = "free" <=> co[x][d].st = "free")
    BY <1>10 DEF SameWork, Untouched
<1>13. Counted'
    BY <1>2, <1>12, CountedKeeps, InvTypes DEF RuntimeInv
<1>14. Fresh'
    <2>1. \A x \in Services : st'[x] = "none" => x # s /\ x \in All
        BY <1>2, <1>3 DEF All
    <2> QED BY <2>1, <1>2, <1>3, <1>10, FreshKeeps DEF RuntimeInv, Untouched
<1>15. dead_service' \in [All -> SUBSET (All \cup {Nobody})] /\ Buried'
    <2>1. CASE m.session = 0 /\ watching_service[s][m.from] > 0
        <3>1. m.from \in Services /\ st[m.from] \in Retired /\ m.from \in All
            BY <2>1, <1>3 DEF MsgOK, All
        <3>2. dead_service' = [dead_service EXCEPT ![s] = @ \cup {m.from}]
            BY <2>1, <1>2
        <3>3. dead_service' \in [All -> SUBSET (All \cup {Nobody})]
            BY <3>1, <3>2, InvTypes
        <3>4. ASSUME NEW x \in All, NEW y \in dead_service'[x] PROVE y \in Services /\ st[y] \in Retired
            <4>1. y \in dead_service[x] \/ y = m.from
                BY <3>2, InvTypes
            <4> QED BY <4>1, <3>1 DEF RuntimeInv, Buried
        <3> QED BY <3>3, <3>4, <1>2 DEF Buried
    <2>2. CASE ~(m.session = 0 /\ watching_service[s][m.from] > 0)
        BY <2>2, <1>2, InvTypes DEF RuntimeInv, Buried
    <2> QED BY <2>1, <2>2
<1>16. Owed' /\ st'[Launcher] = "up" /\ BoxesOK(inbox', st')
    BY <1>2, <1>3 DEF RuntimeInv, Owed, NoCaller
<1>17. ASSUME NEW x \in Services, NEW j \in Sessions, NEW y \in All,
              st'[x] = "up", watching_session'[x][j] = y
       PROVE  Pending(x, j, y)'
    <2>1. watching_session[x][j] = y /\ (Queued(error_queue[x], j) => Queued(error_queue'[x], j))
          /\ (x = s /\ Queued(q, j) => Queued(error_queue'[x], j))
        <3>1. CASE x = s
            BY <3>1, <1>8, <1>10, <1>17, NameFacts DEF StillWaits
        <3>2. CASE x # s
            BY <3>2, <1>10, <1>17 DEF Untouched, All
        <3> QED BY <3>1, <3>2
    <2>2. Pending(x, j, y)
        BY <2>1, <1>2, <1>17, ForgottenDef, NameFacts DEF RuntimeInv
    <2>3. Served(x, j, y) => Served(x, j, y)'
        BY <1>2, <1>12 DEF Served, Holds, Alive
    <2>4. \A z \in Services : Starting(z) => Starting(z)'
        BY <1>2, <1>12 DEF Starting, IsStarter, All
    <2>5. Launched(x, j) => Pending(x, j, Launcher)'
        BY <2>4, <1>2, <1>3, LaunchedPops DEF Reporting
    <2>6. s = x /\ m.session \in {0, j} /\ m.from = y => Pending(x, j, y)'
        <3>1. ASSUME s = x, m.session \in {0, j}, m.from = y PROVE j \in failed
            BY <3>1, <2>1, <1>6, NameFacts
        <3> QED BY <3>1, <2>1, <1>7, PendingDef
    <2> QED BY <2>1, <2>2, <2>3, <2>5, <2>6, <1>3, PendingPops
<1>18. NobodyForgotten'
    BY <1>10, <1>17, ForgottenNext DEF TablesTyped
<1> QED BY <1>2, <1>3, <1>10, <1>11, <1>13, <1>14, <1>15, <1>16, <1>18, InvNext, InvTypes

LEMMA DispatchCallInv ==
    ASSUME RuntimeInv, NEW s \in All, DispatchCall(s)
    PROVE  RuntimeInv'
<1> USE UsersFinite
<1> DEFINE m == Head(inbox[s])
           w == [NoWork EXCEPT !.st = "run", !.from = m.from, !.session = m.session]
<1>1. PICK c \in Co : /\ FirstFree(s, c)
                      /\ co' = [co EXCEPT ![s][c] = w] /\ running' = [running EXCEPT ![s] = c]
    BY Zenon DEF DispatchCall
<1>2. /\ s # Launcher /\ Next1(s, "CALL") /\ inbox' = Popped(s) /\ left' = Batch(s)
      /\ watching_service' = [watching_service EXCEPT ![s][m.from] = @ + 1]
      /\ UNCHANGED <<st, session_id_coroutine, watching_session, dead_service, error_queue,
                     instance, sent, forks>>
    BY Zenon DEF DispatchCall
<1>3. /\ st[s] \in {"up", "exiting"} /\ left' \in [All -> Nat] /\ running[s] = NoCo /\ m.type = "CALL"
      /\ m \in Messages /\ MsgOK(st, s, m)
      /\ BoxesOK(inbox', st) /\ Loses(inbox, inbox', s, m)
      /\ (\A x \in All : x # s => inbox'[x] = inbox[x])
      /\ Typed(NoCo, co[s], session_id_coroutine[s], watching_session[s], error_queue[s])
      /\ Agree(NoCo, co[s], session_id_coroutine[s], watching_session[s], sent[s])
    BY <1>2, NextFacts, Zenon
<1> HIDE DEF m
<1>4. m.from \in Services /\ m.from \in All /\ m.session \in Sessions
    BY <1>3 DEF MsgOK, All
<1>5. /\ w \in Work /\ w.st = "run" /\ w.from = m.from /\ w.session = m.session
      /\ w.ret = FALSE /\ w.told = FALSE
    BY <1>4 DEF Work, NoWork
<1> HIDE DEF w
<1>6. co[s] \in [Co -> Work] /\ co[s][c].st = "free" /\ co[s][c].from = Nobody
    BY <1>1, <1>3 DEF FirstFree, Agree, Typed
<1>7. /\ co' \in [All -> [Co -> Work]] /\ co'[s] = Put(co[s], c, w)
      /\ co'[s][c] = w /\ (\A d \in Co : d # c => co'[s][d] = co[s][d])
      /\ \A x \in All : x # s => co'[x] = co[x]
    BY <1>1, <1>5, ReplaceCo, InvTypes
<1>8. running' \in [All -> Co \cup {NoCo}] /\ running'[s] = c
      /\ \A x \in All : x # s => running'[x] = running[x]
    BY <1>1, InvTypes DEF TablesTyped
<1>9. TablesTyped'
    BY <1>2, <1>7, <1>8, InvTypes DEF TablesTyped
<1>10. Agree(c, co'[s], session_id_coroutine[s], watching_session[s], sent[s])
    <2>1. co[s][c].st # "wait" /\ w.st # "wait" /\ w.st # "free"
        BY <1>5, <1>6
    <2>2. \A d \in Co : d # c => (co[s][d].st = "run" <=> c = d)
        BY <1>3, CoFacts DEF Agree, NoCo
    <2> QED BY <2>1, <2>2, <1>3, <1>5, <1>6, <1>7, ReplaceAgrees
<1>11. Tables'
    BY <1>2, <1>7, <1>8, <1>10, TablesKeep DEF RuntimeInv, Untouched
<1>12. /\ watching_service' \in [All -> [All -> Nat]]
       /\ \A x \in All : x # s => watching_service'[x] = watching_service[x]
       /\ watching_service'[s][m.from] = watching_service[s][m.from] + 1
       /\ \A y \in All : y # m.from => watching_service'[s][y] = watching_service[s][y]
    <2> DEFINE new == Put(watching_service[s], m.from, watching_service[s][m.from] + 1)
    <2>1. watching_service \in [All -> [All -> Nat]]
        BY InvTypes
    <2>2. watching_service' = [watching_service EXCEPT ![s] = new]
        BY <1>2, <1>4, <2>1 DEF Put
    <2>3. /\ new \in [All -> Nat] /\ new[m.from] = watching_service[s][m.from] + 1
          /\ \A y \in All : y # m.from => new[y] = watching_service[s][y]
        BY <1>4, <2>1 DEF Put
    <2> HIDE DEF new
    <2>4. watching_service'[s] = new /\ watching_service' \in [All -> [All -> Nat]]
          /\ \A x \in All : x # s => watching_service'[x] = watching_service[x]
        BY <2>1, <2>2, <2>3
    <2> QED BY <2>3, <2>4
<1>13. Counted'
    <2> SUFFICES ASSUME NEW x \in All, NEW y \in All, st'[x] # "down"
                 PROVE  watching_service'[x][y] >= Cardinality(Users(co'[x], y))
                           + (IF x = Launcher THEN Cardinality(Awaiting(instance', y)) ELSE 0)
        BY DEF Counted
    <2>1. watching_service[x][y] >= Cardinality(Users(co[x], y))
             + (IF x = Launcher THEN Cardinality(Awaiting(instance, y)) ELSE 0)
        BY <1>2 DEF RuntimeInv, Counted
    <2>2. CASE x # s
        BY <2>1, <2>2, <1>2, <1>7, <1>12
    <2>3. CASE x = s /\ y = m.from
        <3>1. Users(co'[s], y) \subseteq Users(co[s], y) \cup {c}
            BY <1>7 DEF Users
        <3>2. Cardinality(Users(co'[s], y)) <= Cardinality(Users(co[s], y)) + 1
              /\ Cardinality(Users(co'[s], y)) \in Nat /\ Cardinality(Users(co[s], y)) \in Nat
            BY <3>1, CardAdd
        <3>3. watching_service'[s][y] = watching_service[s][y] + 1 /\ watching_service[s][y] \in Nat
            BY <2>3, <1>12, InvTypes
        <3> QED BY <2>1, <2>3, <3>2, <3>3, <1>2
    <2>4. CASE x = s /\ y # m.from
        <3>1. Users(co'[s], y) \subseteq Users(co[s], y)
            BY <2>4, <1>5, <1>7 DEF Users
        <3>2. Cardinality(Users(co'[s], y)) <= Cardinality(Users(co[s], y))
              /\ Cardinality(Users(co'[s], y)) \in Nat /\ Cardinality(Users(co[s], y)) \in Nat
            BY <3>1, CardSub
        <3>3. watching_service'[s][y] = watching_service[s][y] /\ watching_service[s][y] \in Nat
            BY <2>4, <1>12, InvTypes
        <3> QED BY <2>1, <2>4, <3>2, <3>3, <1>2
    <2> QED BY <2>2, <2>3, <2>4
<1>14. Fresh'
    <2>1. \A x \in Services : st'[x] = "none" => x # s /\ x \in All
        BY <1>2, <1>3 DEF All
    <2> QED BY <2>1, <1>2, <1>3, <1>7, FreshKeeps DEF RuntimeInv
<1>15. Owed' /\ Buried' /\ st'[Launcher] = "up" /\ BoxesOK(inbox', st')
    BY <1>2, <1>3 DEF RuntimeInv, Owed, Buried, NoCaller
<1>16. ASSUME NEW x \in Services, NEW j \in Sessions, NEW y \in All,
              st'[x] = "up", watching_session'[x][j] = y
       PROVE  Pending(x, j, y)'
    <2>1. Pending(x, j, y)
        BY <1>2, <1>16, ForgottenDef, NameFacts DEF RuntimeInv
    <2>2. Served(x, j, y) => Served(x, j, y)'
        <3>1. x # Nobody
            BY NameFacts
        <3> QED BY <3>1, <1>2, <1>6, <1>7 DEF Served, Holds, Alive
    <2>3. \A z \in Services : Starting(z) => Starting(z)'
        BY <1>2, <1>6, <1>7 DEF Starting, IsStarter, All
    <2>4. Launched(x, j) => Pending(x, j, Launcher)'
        BY <2>3, <1>2, <1>3, LaunchedPops
    <2>5. s = y /\ m.session = j /\ m.from = x => Served(x, j, y)'
        BY <1>2, <1>3, <1>5, <1>7 DEF Served, Holds, Alive
    <2>6. error_queue'[x] = error_queue[x] /\ m.type = "CALL"
        BY <1>2, <1>3
    <2> QED BY <2>1, <2>2, <2>4, <2>5, <2>6, <1>3, PendingPops, PendingDef
<1>17. NobodyForgotten'
    BY <1>9, <1>16, ForgottenNext DEF TablesTyped
<1> QED BY <1>2, <1>3, <1>9, <1>11, <1>12, <1>13, <1>14, <1>15, <1>17, InvNext, InvTypes

-----------------------------------------------------------------------------
(* The launcher. *)

\* The request is refused.
LEMMA RefuseInv ==
    ASSUME RuntimeInv, Next1(Launcher, "CALL"), NEW m, m = Head(inbox[Launcher]),
           inbox' = ErrorTo(Popped(Launcher), Launcher, m.from, m.session),
           UNCHANGED <<st, instance, watching_service, left, running, co, session_id_coroutine,
                       watching_session, dead_service, error_queue, sent, forks>>
    PROVE  RuntimeInv'
<1>1. Launcher \in All /\ st[Launcher] = "up"
    BY DEF RuntimeInv, All
<1>2. /\ m.type = "CALL" /\ m \in Messages /\ MsgOK(st, Launcher, m)
      /\ BoxesOK(Popped(Launcher), st) /\ Loses(inbox, Popped(Launcher), Launcher, m)
      /\ \A x \in All : x # Launcher => Popped(Launcher)[x] = inbox[x]
    BY <1>1, NextFacts
<1>3. m.from \in Services /\ m.session \in Sessions /\ m.session # 0
    BY <1>2, SessionFacts DEF MsgOK
<1>4. /\ BoxesOK(inbox', st) /\ Grows(Popped(Launcher), inbox')
      /\ \A x \in All : st[x] # "up" => inbox'[x] = Popped(Launcher)[x]
      /\ m.from \in All /\ st[m.from] = "up" => Has(inbox', m.from, "ERROR", m.session, Launcher)
    BY <1>1, <1>2, <1>3, ErrorKeeps
<1>5. TablesTyped' /\ Tables'
    BY InvTypes DEF RuntimeInv, TablesTyped, Tables
<1>6. Counted'
    BY CountedKeeps, InvTypes DEF RuntimeInv
<1>7. Fresh'
    <2>1. \A x \in Services : st[x] = "none" => x # Launcher /\ x \in All
        BY <1>1 DEF All
    <2> QED BY <2>1, <1>2, <1>4, FreshKeeps DEF RuntimeInv
<1>8. Owed' /\ Buried' /\ st'[Launcher] = "up"
    BY DEF RuntimeInv, Owed, Buried, NoCaller
<1>9. ASSUME NEW x \in Services, NEW j \in Sessions, NEW y \in All,
             st'[x] = "up", watching_session'[x][j] = y
      PROVE  Pending(x, j, y)'
    <2>1. Pending(x, j, y)
        BY <1>9, ForgottenDef, NameFacts DEF RuntimeInv
    <2>2. Served(x, j, y) => Served(x, j, y)'
        BY DEF Served, Holds, Alive
    <2>3. \A z \in Services : Starting(z) => Starting(z)'
        BY DEF Starting, IsStarter
    <2>4. Loses(inbox, inbox', Launcher, m)
        BY <1>2, <1>4 DEF Loses, Grows
    <2>5. Launched(x, j) => Pending(x, j, Launcher)'
        BY <2>3, <2>4, <1>1, <1>2, LaunchedPops DEF Reporting
    <2>6. Launcher = y /\ m.session = j /\ m.from = x => Pending(x, j, y)'
        BY <1>4, <1>9, PendingDef DEF All
    <2>7. Launcher # x
        BY NameFacts
    <2> QED BY <2>1, <2>2, <2>4, <2>5, <2>6, <2>7, <1>1, <1>2, PendingPops
<1>10. NobodyForgotten'
    BY <1>5, <1>9, ForgottenNext DEF TablesTyped
<1> QED BY <1>4, <1>5, <1>6, <1>7, <1>8, <1>10, InvNext, InvTypes

\* The service is started.
LEMMA StartInv ==
    ASSUME RuntimeInv, Next1(Launcher, "CALL"), NEW m, m = Head(inbox[Launcher]), NEW t, t = m.arg,
           st[t] = "none", st' = [st EXCEPT ![t] = "up"],
           inbox' = [Popped(Launcher) EXCEPT ![t] = <<StartMsg>>],
           instance' = [instance EXCEPT ![t] = [from |-> m.from, session |-> m.session]],
           watching_service' = [watching_service EXCEPT ![Launcher][m.from] = @ + 1],
           UNCHANGED <<left, running, co, session_id_coroutine, watching_session, dead_service,
                       error_queue, sent, forks>>
    PROVE  RuntimeInv'
<1> USE UsersFinite
<1> DEFINE caller == [from |-> m.from, session |-> m.session]
           box == Popped(Launcher)
<1>1. Launcher \in All /\ st[Launcher] = "up"
    BY DEF RuntimeInv, All
<1>2. /\ m.type = "CALL" /\ m \in Messages /\ MsgOK(st, Launcher, m)
      /\ BoxesOK(box, st) /\ Loses(inbox, box, Launcher, m)
      /\ \A x \in All : x # Launcher => box[x] = inbox[x]
    BY <1>1, NextFacts
<1>3. /\ m.from \in Services /\ m.from \in All /\ m.session \in Sessions
      /\ t \in Services /\ t \in All /\ t # Launcher
    BY <1>2, NameFacts DEF MsgOK
<1>4. /\ caller \in [from : All \cup {Nobody}, session : Sessions \cup {0}]
      /\ caller.from = m.from /\ caller.session = m.session
    BY <1>3
<1> HIDE DEF box, caller
<1>5. /\ st' \in [All -> Status] /\ st'[t] = "up" /\ \A x \in All : x # t => st'[x] = st[x]
    BY <1>3, InvTypes DEF Status
<1>6. /\ instance' \in [Services -> [from : All \cup {Nobody}, session : Sessions \cup {0}]]
      /\ instance'[t] = caller /\ \A x \in Services : x # t => instance'[x] = instance[x]
    BY <1>3, <1>4, InvTypes DEF caller
<1>7. /\ instance[t] = NoCaller /\ inbox[t] = <<>>
      /\ (\A k \in Sessions : watching_session[t][k] = Nobody)
      /\ \E c \in Co : co[t][c].st # "free" /\ IsStarter(co[t][c])
    BY <1>3 DEF RuntimeInv, Fresh
<1>8. /\ BoxesOK(inbox', st') /\ \A x \in All : x # t => inbox'[x] = box[x]
    <2>1. StartMsg \in Messages /\ StartMsg.type = "RESPONSE" /\ StartMsg.session \in Sessions
        <3>1. 1 \in Sessions \cup {0} /\ 1 \in Sessions
            BY <1>3, SessionFacts
        <3> QED BY <3>1, MsgType DEF StartMsg
    <2>2. <<StartMsg>> \in Seq(Messages) /\ \A n \in DOMAIN <<StartMsg>> : <<StartMsg>>[n] = StartMsg
        BY <2>1
    <2>3. box \in [All -> Seq(Messages)]
        BY <1>2 DEF BoxesOK
    <2>4. /\ inbox' \in [All -> Seq(Messages)] /\ inbox'[t] = <<StartMsg>>
          /\ \A x \in All : x # t => inbox'[x] = box[x]
        BY <1>3, <2>2, <2>3 DEF box
    <2>5. ASSUME NEW x \in All, NEW n \in DOMAIN inbox'[x] PROVE MsgOK(st', x, inbox'[x][n])
        <3>1. CASE x = t
            BY <3>1, <2>1, <2>2, <2>4 DEF MsgOK, Reporting
        <3>2. CASE x # t
            <4>1. MsgOK(st, x, inbox'[x][n])
                BY <3>2, <2>4, <1>2 DEF BoxesOK
            <4> QED BY <4>1, <1>3, <1>5 DEF MsgOK, All, Retired
        <3> QED BY <3>1, <3>2
    <2> QED BY <2>4, <2>5 DEF BoxesOK
<1>9. Loses(inbox, inbox', Launcher, m)
    <2> SUFFICES ASSUME NEW x \in All, NEW type, NEW k, NEW f, Has(inbox, x, type, k, f)
                 PROVE  \/ Has(inbox', x, type, k, f)
                        \/ x = Launcher /\ m.type = type /\ m.session = k /\ m.from = f
        BY DEF Loses
    <2>1. x # t
        BY <1>7 DEF Has
    <2>2. Has(box, x, type, k, f) \/ (x = Launcher /\ m.type = type /\ m.session = k /\ m.from = f)
        BY <1>2 DEF Loses
    <2>3. Has(box, x, type, k, f) => Has(inbox', x, type, k, f)
        BY <2>1, <1>8 DEF Has
    <2> QED BY <2>2, <2>3
<1>10. TablesTyped' /\ Tables'
    BY <1>3, <1>5, InvTypes DEF RuntimeInv, TablesTyped, Tables
<1>11. /\ watching_service' \in [All -> [All -> Nat]]
       /\ \A x \in All : x # Launcher => watching_service'[x] = watching_service[x]
       /\ watching_service'[Launcher][m.from] = watching_service[Launcher][m.from] + 1
       /\ \A y \in All : y # m.from => watching_service'[Launcher][y] = watching_service[Launcher][y]
    <2> DEFINE new == Put(watching_service[Launcher], m.from, watching_service[Launcher][m.from] + 1)
    <2>1. watching_service \in [All -> [All -> Nat]]
        BY InvTypes
    <2>2. watching_service' = [watching_service EXCEPT ![Launcher] = new]
        BY <1>1, <1>3, <2>1 DEF Put
    <2>3. /\ new \in [All -> Nat] /\ new[m.from] = watching_service[Launcher][m.from] + 1
          /\ \A y \in All : y # m.from => new[y] = watching_service[Launcher][y]
        BY <1>1, <1>3, <2>1 DEF Put
    <2> HIDE DEF new
    <2>4. watching_service'[Launcher] = new /\ watching_service' \in [All -> [All -> Nat]]
          /\ \A x \in All : x # Launcher => watching_service'[x] = watching_service[x]
        BY <1>1, <2>1, <2>2, <2>3
    <2> QED BY <2>3, <2>4
<1>12. Counted'
    <2> SUFFICES ASSUME NEW x \in All, NEW y \in All, st'[x] # "down"
                 PROVE  watching_service'[x][y] >= Cardinality(Users(co[x], y))
                           + (IF x = Launcher THEN Cardinality(Awaiting(instance', y)) ELSE 0)
        BY DEF Counted
    <2>1. watching_service[x][y] >= Cardinality(Users(co[x], y))
             + (IF x = Launcher THEN Cardinality(Awaiting(instance, y)) ELSE 0)
        BY <1>5 DEF RuntimeInv, Counted
    <2>2. Cardinality(Users(co[x], y)) \in Nat /\ watching_service[x][y] \in Nat
        BY FS_CardinalityType, InvTypes
    <2>3. CASE x # Launcher
        BY <2>1, <2>3, <1>11
    <2>4. CASE x = Launcher /\ y = m.from
        <3>1. Awaiting(instance', y) \subseteq Awaiting(instance, y) \cup {t}
            BY <1>6 DEF Awaiting
        <3>2. Cardinality(Awaiting(instance', y)) <= Cardinality(Awaiting(instance, y)) + 1
              /\ Cardinality(Awaiting(instance', y)) \in Nat /\ Cardinality(Awaiting(instance, y)) \in Nat
            BY <3>1, CardAdd
        <3>3. watching_service'[Launcher][y] = watching_service[Launcher][y] + 1
            BY <2>4, <1>11
        <3> QED BY <2>1, <2>2, <2>4, <3>2, <3>3
    <2>5. CASE x = Launcher /\ y # m.from
        <3>1. Awaiting(instance', y) \subseteq Awaiting(instance, y)
            BY <2>5, <1>4, <1>6 DEF Awaiting
        <3>2. Cardinality(Awaiting(instance', y)) <= Cardinality(Awaiting(instance, y))
              /\ Cardinality(Awaiting(instance', y)) \in Nat /\ Cardinality(Awaiting(instance, y)) \in Nat
            BY <3>1, CardSub
        <3>3. watching_service'[Launcher][y] = watching_service[Launcher][y]
            BY <2>5, <1>11
        <3> QED BY <2>1, <2>2, <2>5, <3>2, <3>3
    <2> QED BY <2>3, <2>4, <2>5
<1>13. Fresh'
    <2>1. \A x \in Services : st'[x] = "none" => x # t /\ x # Launcher /\ x \in All
        BY <1>5, NameFacts
    <2> QED BY <2>1, <1>2, <1>5, <1>6, <1>8, FreshKeeps DEF RuntimeInv
<1>14. Owed'
    BY <1>3, <1>4, <1>6 DEF RuntimeInv, Owed, NoCaller
<1>15. Buried' /\ st'[Launcher] = "up"
    BY <1>1, <1>3, <1>5 DEF RuntimeInv, Buried, All, Retired
<1>16. ASSUME NEW x \in Services, NEW j \in Sessions, NEW y \in All,
              st'[x] = "up", watching_session'[x][j] = y
       PROVE  Pending(x, j, y)'
    <2>1. x \in All /\ x # t /\ st[x] = "up" /\ x # Launcher /\ x # Nobody
        BY <1>5, <1>7, <1>16, NameFacts
    <2>2. Pending(x, j, y)
        BY <2>1, <1>16, ForgottenDef, NameFacts DEF RuntimeInv
    <2>3. Served(x, j, y) => Served(x, j, y)'
        BY <1>3, <1>5 DEF Served, Holds, Alive
    <2>4. \A z \in Services : Starting(z) => Starting(z)'
        BY <1>3, <1>5 DEF Starting, IsStarter, All
    <2>5. ASSUME Launched(x, j) PROVE Launched(x, j)'
        <3>1. PICK z \in Services : /\ instance[z] = [from |-> x, session |-> j]
                                    /\ \/ Starting(z)
                                       \/ \E type \in Reporting : Has(inbox, Launcher, type, 0, z)
            BY <2>5, LaunchedDef
        <3>2. z # t
            BY <3>1, <1>7, <2>1 DEF NoCaller
        <3>3. Starting(z)' \/ \E type \in Reporting : Has(inbox', Launcher, type, 0, z)
            BY <3>1, <2>4, <1>1, <1>2, <1>9 DEF Loses, Reporting
        <3> QED BY <3>1, <3>2, <3>3, <1>6, LaunchedDef
    <2>6. ASSUME m.session = j, m.from = x PROVE Launched(x, j)'
        <3>1. instance'[t] = [from |-> x, session |-> j]
            BY <2>6, <1>6 DEF caller
        <3>2. Starting(t)'
            BY <1>5, <1>7 DEF Starting, IsStarter
        <3> QED BY <3>1, <3>2, <1>3, LaunchedDef
    <2>7. y = Launcher /\ Launched(x, j)' => Pending(x, j, y)'
        BY PendingDef
    <2> QED BY <2>1, <2>2, <2>3, <2>5, <2>6, <2>7, <1>1, <1>2, <1>9, PendingPops
<1>17. NobodyForgotten'
    BY <1>10, <1>16, ForgottenNext DEF TablesTyped
<1> QED BY <1>5, <1>6, <1>8, <1>10, <1>11, <1>12, <1>13, <1>14, <1>15, <1>17, InvNext, InvTypes

LEMMA LaunchInv ==
    ASSUME RuntimeInv, Launch
    PROVE  RuntimeInv'
<1>1. PICK m : m = Head(inbox[Launcher])
    OBVIOUS
<1>2. PICK t : t = m.arg
    OBVIOUS
<1>3. /\ Next1(Launcher, "CALL")
      /\ UNCHANGED <<left, running, co, session_id_coroutine, watching_session, dead_service,
                     error_queue, sent, forks>>
    BY DEF Launch
<1>4. \/ /\ st[t] = "none" /\ st' = [st EXCEPT ![t] = "up"]
         /\ inbox' = [Popped(Launcher) EXCEPT ![t] = <<StartMsg>>]
         /\ instance' = [instance EXCEPT ![t] = [from |-> m.from, session |-> m.session]]
         /\ watching_service' = [watching_service EXCEPT ![Launcher][m.from] = @ + 1]
      \/ /\ inbox' = ErrorTo(Popped(Launcher), Launcher, m.from, m.session)
         /\ UNCHANGED <<st, instance, watching_service>>
    BY <1>1, <1>2 DEF Launch
<1> QED BY <1>1, <1>2, <1>3, <1>4, RefuseInv, StartInv

\* LAUNCHOK, ERROR or REMOVE.
LEMMA ReportInv ==
    ASSUME RuntimeInv, NEW type \in Reporting, Report(type)
    PROVE  RuntimeInv'
<1> USE UsersFinite
<1> DEFINE m == Head(inbox[Launcher])
           caller == instance[m.from]
           box == Popped(Launcher)
           answer == Msg(IF type = "INITERROR" THEN "ERROR" ELSE "RESPONSE",
                         caller.session, Launcher, Nobody)
<1>1. /\ Next1(Launcher, type)
      /\ inbox' = IF caller = NoCaller \/ caller.from \in dead_service[Launcher] THEN box
                  ELSE Deliver(box, caller.from, answer)
      /\ instance' = [instance EXCEPT ![m.from] = NoCaller]
      /\ watching_service' = release_watching(Launcher, caller.from)
      /\ UNCHANGED <<st, left, running, co, session_id_coroutine, watching_session, dead_service,
                     error_queue, sent, forks>>
    BY Zenon DEF Report
<1>2. Launcher \in All /\ st[Launcher] = "up"
    BY DEF RuntimeInv, All
<1>3. /\ m.type = type /\ m \in Messages /\ MsgOK(st, Launcher, m)
      /\ BoxesOK(box, st) /\ Loses(inbox, box, Launcher, m)
      /\ \A x \in All : x # Launcher => box[x] = inbox[x]
    BY <1>1, <1>2, NextFacts
<1>4. m.from \in Services
    BY <1>3 DEF MsgOK
<1> HIDE DEF m, box
<1>5. /\ caller \in [from : All \cup {Nobody}, session : Sessions \cup {0}]
      /\ caller # NoCaller => caller.from \in Services /\ caller.from \in All /\ caller.session \in Sessions
    BY <1>4, InvTypes DEF RuntimeInv, Owed, All
<1>6. /\ instance' \in [Services -> [from : All \cup {Nobody}, session : Sessions \cup {0}]]
      /\ instance'[m.from] = NoCaller /\ \A x \in Services : x # m.from => instance'[x] = instance[x]
    <2>1. NoCaller \in [from : All \cup {Nobody}, session : Sessions \cup {0}]
        BY DEF NoCaller
    <2> QED BY <2>1, <1>1, <1>4, InvTypes
<1> HIDE DEF caller
<1>7. /\ BoxesOK(inbox', st) /\ Grows(box, inbox')
      /\ \A x \in All : st[x] # "up" => inbox'[x] = box[x]
      /\ caller # NoCaller /\ st[caller.from] = "up" =>
            \/ Has(inbox', caller.from, "RESPONSE", caller.session, Launcher)
            \/ Has(inbox', caller.from, "ERROR", caller.session, Launcher)
    <2>1. CASE caller = NoCaller \/ caller.from \in dead_service[Launcher]
        <3>1. caller = NoCaller \/ st[caller.from] # "up"
            BY <2>1, <1>2 DEF RuntimeInv, Buried, Retired
        <3> QED BY <2>1, <3>1, <1>1, <1>3 DEF Grows
    <2>2. CASE ~(caller = NoCaller \/ caller.from \in dead_service[Launcher])
        <3>1. /\ answer \in Messages /\ answer.type \in {"ERROR", "RESPONSE"}
              /\ answer.session = caller.session /\ answer.from = Launcher
            BY <2>2, <1>2, <1>5, MsgType
        <3> HIDE DEF answer
        <3>2. \A x \in All : MsgOK(st, x, answer)
            BY <2>2, <3>1, <1>5, SessionFacts DEF MsgOK, Reporting
        <3>3. inbox' = Deliver(box, caller.from, answer)
            BY <2>2, <1>1 DEF answer
        <3> QED BY <3>1, <3>2, <3>3, <2>2, <1>3, <1>5, DeliverKeeps DEF Grows
    <2> QED BY <2>1, <2>2
<1>8. TablesTyped' /\ Tables'
    BY <1>1, InvTypes DEF RuntimeInv, TablesTyped, Tables
<1>9. /\ watching_service' \in [All -> [All -> Nat]]
      /\ \A x \in All : x # Launcher => watching_service'[x] = watching_service[x]
      /\ \A z \in All : z # caller.from => watching_service'[Launcher][z] = watching_service[Launcher][z]
      /\ caller.from \in All => watching_service'[Launcher][caller.from] + 1 >= watching_service[Launcher][caller.from]
    BY <1>1, <1>2, Release, InvTypes
<1>10. Counted'
    <2> SUFFICES ASSUME NEW x \in All, NEW y \in All, st'[x] # "down"
                 PROVE  watching_service'[x][y] >= Cardinality(Users(co[x], y))
                           + (IF x = Launcher THEN Cardinality(Awaiting(instance', y)) ELSE 0)
        BY <1>1 DEF Counted
    <2>1. watching_service[x][y] >= Cardinality(Users(co[x], y))
             + (IF x = Launcher THEN Cardinality(Awaiting(instance, y)) ELSE 0)
        BY <1>1 DEF RuntimeInv, Counted
    <2>2. Cardinality(Users(co[x], y)) \in Nat /\ watching_service[x][y] \in Nat
          /\ watching_service'[x][y] \in Nat
        BY FS_CardinalityType, InvTypes, <1>9
    <2>3. CASE x # Launcher
        BY <2>1, <2>3, <1>9
    <2>4. CASE x = Launcher /\ y = caller.from
        <3>1. Awaiting(instance', y) \subseteq Awaiting(instance, y) \ {m.from} /\ m.from \in Awaiting(instance, y)
            BY <2>4, <1>4, <1>6, NameFacts DEF Awaiting, caller, NoCaller
        <3>2. Cardinality(Awaiting(instance', y)) + 1 <= Cardinality(Awaiting(instance, y))
              /\ Cardinality(Awaiting(instance', y)) \in Nat /\ Cardinality(Awaiting(instance, y)) \in Nat
            BY <3>1, CardDrop
        <3>3. watching_service'[Launcher][y] + 1 >= watching_service[Launcher][y]
            BY <2>4, <1>9
        <3> QED BY <2>1, <2>2, <2>4, <3>2, <3>3
    <2>5. CASE x = Launcher /\ y # caller.from
        <3>1. Awaiting(instance', y) \subseteq Awaiting(instance, y)
            BY <1>4, <1>6, NameFacts DEF Awaiting, NoCaller
        <3>2. Cardinality(Awaiting(instance', y)) <= Cardinality(Awaiting(instance, y))
              /\ Cardinality(Awaiting(instance', y)) \in Nat /\ Cardinality(Awaiting(instance, y)) \in Nat
            BY <3>1, CardSub
        <3>3. watching_service'[Launcher][y] = watching_service[Launcher][y]
            BY <2>5, <1>9
        <3> QED BY <2>1, <2>2, <2>5, <3>2, <3>3
    <2> QED BY <2>3, <2>4, <2>5
<1>11. Fresh'
    <2>1. ASSUME NEW x \in Services, st'[x] = "none"
          PROVE  /\ inbox'[x] = <<>> /\ instance'[x] = NoCaller
                 /\ \A k \in Sessions : watching_session[x][k] = Nobody
                 /\ \E c \in Co : co[x][c].st # "free" /\ IsStarter(co[x][c])
        <3>1. x \in All /\ x # Launcher /\ st[x] = "none"
            BY <2>1, <1>1, NameFacts
        <3>2. inbox'[x] = inbox[x]
            BY <3>1, <1>3, <1>7
        <3> QED BY <3>1, <3>2, <1>6 DEF RuntimeInv, Fresh
    <2> QED BY <2>1, <1>1 DEF Fresh, IsStarter
<1>12. Owed' /\ Buried' /\ st'[Launcher] = "up"
    BY <1>1, <1>6 DEF RuntimeInv, Owed, Buried, NoCaller
<1>13. ASSUME NEW x \in Services, NEW j \in Sessions, NEW y \in All,
              st'[x] = "up", watching_session'[x][j] = y
       PROVE  Pending(x, j, y)'
    <2>1. Pending(x, j, y)
        BY <1>1, <1>13, ForgottenDef, NameFacts DEF RuntimeInv
    <2>2. Served(x, j, y) => Served(x, j, y)'
        BY <1>1 DEF Served, Holds, Alive
    <2>3. Loses(inbox, inbox', Launcher, m)
        BY <1>3, <1>7 DEF Loses, Grows
    <2>4. ASSUME y = Launcher, Launched(x, j) PROVE Pending(x, j, y)'
        <3>1. PICK z \in Services : /\ instance[z] = [from |-> x, session |-> j]
                                    /\ \/ Starting(z)
                                       \/ \E ty \in Reporting : Has(inbox, Launcher, ty, 0, z)
            BY <2>4, LaunchedDef
        <3>2. CASE z = m.from
            <4>1. caller.from = x /\ caller.session = j /\ caller # NoCaller
                BY <3>1, <3>2, NameFacts DEF caller, NoCaller
            <4>2. Has(inbox', x, "RESPONSE", j, Launcher) \/ Has(inbox', x, "ERROR", j, Launcher)
                BY <4>1, <1>1, <1>7, <1>13
            <4> QED BY <4>2, <2>4, PendingDef
        <3>3. CASE z # m.from
            <4>1. Starting(z) => Starting(z)'
                BY <1>1 DEF Starting, IsStarter
            <4>2. Starting(z)' \/ \E ty \in Reporting : Has(inbox', Launcher, ty, 0, z)
                BY <3>1, <3>3, <4>1, <2>3, <1>2 DEF Loses
            <4>3. Launched(x, j)'
                BY <3>1, <3>3, <4>2, <1>6, LaunchedDef
            <4> QED BY <4>3, <2>4, PendingDef
        <3> QED BY <3>2, <3>3
    <2>5. m.type \notin {"CALL", "RESPONSE", "ERROR"} /\ error_queue'[x] = error_queue[x]
        BY <1>1, <1>3 DEF Reporting
    <2> QED BY <2>1, <2>2, <2>3, <2>4, <2>5, <1>2, PendingPops
<1>14. NobodyForgotten'
    BY <1>8, <1>13, ForgottenNext DEF TablesTyped
<1> QED BY <1>1, <1>6, <1>7, <1>8, <1>9, <1>10, <1>11, <1>12, <1>14, InvNext, InvTypes

-----------------------------------------------------------------------------
LEMMA InitInv == Init => RuntimeInv
<1> SUFFICES ASSUME Init PROVE RuntimeInv
    OBVIOUS
<1>1. 1 \in Co /\ NoCo \notin Co /\ \A s \in Services : 1 \in Sessions
    BY CoFacts, SessionFacts DEF NoCo
<1>2. /\ Services # {} => Starter \in Work
      /\ Starter.st = "wait" /\ Starter.waits = 1 /\ Starter.from = Nobody
    BY <1>1 DEF Starter, NoWork, Work
<1>3. /\ co \in [All -> [Co -> Work]]
      /\ \A s \in All, c \in Co : co[s][c] = IF c = 1 /\ s \in Services THEN Starter ELSE NoWork
    BY <1>2, WorkFacts DEF Init
<1>4. /\ session_id_coroutine \in [All -> [Sessions -> Co \cup {NoCo}]]
      /\ \A s \in All, k \in Sessions :
            session_id_coroutine[s][k] = IF k = 1 /\ s \in Services THEN 1 ELSE NoCo
    BY <1>1 DEF Init
<1>5. /\ watching_session \in [All -> [Sessions -> All \cup {Nobody}]]
      /\ \A s \in All, k \in Sessions : watching_session[s][k] = Nobody
    BY DEF Init
<1>6. /\ running \in [All -> Co \cup {NoCo}] /\ \A s \in All : running[s] = NoCo
    BY DEF Init
<1>7. TablesTyped
    BY <1>3, <1>4, <1>5, <1>6 DEF Init, TablesTyped
<1>8. /\ st \in [All -> Status] /\ st[Launcher] = "up"
      /\ (\A s \in Services : st[s] # "none" <=> s \in Root) /\ \A s \in All : st[s] # "down"
    BY NameFacts, RuntimeAssumption DEF Init, Status
<1>9. BoxesOK(inbox, st)
    <2>1. ASSUME NEW s \in Services
          PROVE  StartMsg \in Messages /\ StartMsg.type = "RESPONSE" /\ StartMsg.session \in Sessions
        <3>1. 1 \in Sessions \cup {0} /\ 1 \in Sessions
            BY <1>1
        <3> QED BY <3>1, MsgType DEF StartMsg
    <2>2. ASSUME NEW s \in All
          PROVE  inbox[s] \in Seq(Messages) /\ \A n \in DOMAIN inbox[s] : MsgOK(st, s, inbox[s][n])
        <3>1. CASE s \in Root
            <4>1. inbox[s] = <<StartMsg>> /\ s \in Services
                BY <3>1, RuntimeAssumption DEF Init
            <4>2. MsgOK(st, s, StartMsg)
                BY <4>1, <2>1 DEF MsgOK, Reporting
            <4> QED BY <4>1, <4>2, <2>1
        <3>2. CASE s \notin Root
            BY <3>2 DEF Init
        <3> QED BY <3>1, <3>2
    <2>3. DOMAIN inbox = All /\ inbox = [s \in All |-> inbox[s]]
        BY DEF Init
    <2> QED BY <2>2, <2>3 DEF BoxesOK
<1>10. Tables
    <2> SUFFICES ASSUME NEW s \in All
                 PROVE  Agree(running[s], co[s], session_id_coroutine[s], watching_session[s], sent[s])
        BY DEF Tables
    <2>1. ASSUME NEW k \in Sessions, NEW c \in Co
          PROVE  session_id_coroutine[s][k] = c <=> (co[s][c].st = "wait" /\ co[s][c].waits = k)
        BY <1>1, <1>2, <1>3, <1>4, WorkFacts
    <2>2. \A c \in Co : co[s][c].st = "run" <=> running[s] = c
        BY <1>1, <1>2, <1>3, <1>6, WorkFacts
    <2>3. \A k \in Sessions : session_id_coroutine[s][k] # NoCo => k <= sent[s]
        BY <1>4 DEF Init
    <2>4. \A c \in Co : co[s][c].st = "free" => co[s][c].from = Nobody
        BY <1>2, <1>3, WorkFacts
    <2> QED BY <2>1, <2>2, <2>3, <2>4, <1>5 DEF Agree
<1>11. Counted
    <2> SUFFICES ASSUME NEW s \in All, NEW x \in All
                 PROVE  watching_service[s][x] >= Cardinality(Users(co[s], x))
                           + (IF s = Launcher THEN Cardinality(Awaiting(instance, x)) ELSE 0)
        BY DEF Counted
    <2>1. Users(co[s], x) = {}
        BY <1>2, <1>3, WorkFacts, NameFacts DEF Users
    <2>2. Awaiting(instance, x) = {}
        BY NameFacts DEF Awaiting, Init, NoCaller
    <2>3. watching_service[s][x] = 0
        BY DEF Init
    <2> QED BY <2>1, <2>2, <2>3, FS_EmptySet
<1>12. Fresh
    <2> SUFFICES ASSUME NEW s \in Services, st[s] = "none"
                 PROVE  /\ inbox[s] = <<>> /\ instance[s] = NoCaller
                        /\ \A k \in Sessions : watching_session[s][k] = Nobody
                        /\ \E c \in Co : co[s][c].st # "free" /\ IsStarter(co[s][c])
        BY DEF Fresh
    <2>1. s \in All /\ s \notin Root
        BY <1>8 DEF All
    <2>2. inbox[s] = <<>> /\ instance[s] = NoCaller
        BY <2>1 DEF Init
    <2>3. co[s][1].st # "free" /\ IsStarter(co[s][1])
        BY <2>1, <1>1, <1>2, <1>3 DEF IsStarter
    <2> QED BY <2>1, <2>2, <2>3, <1>1, <1>5
<1>13. Owed /\ Buried
    BY DEF Owed, Buried, Init
<1>14. NobodyForgotten
    BY <1>5, ForgottenDef DEF All
<1>15. /\ sent \in [All -> Sessions \cup {0}] /\ watching_service \in [All -> [All -> Nat]]
       /\ dead_service \in [All -> SUBSET (All \cup {Nobody})]
    BY <1>1 DEF Init
<1>16. instance \in [Services -> [from : All \cup {Nobody}, session : Sessions \cup {0}]]
    BY DEF Init, NoCaller
<1>17. left \in [All -> Nat]
    BY DEF Init
<1> QED BY <1>7, <1>8, <1>9, <1>10, <1>11, <1>12, <1>13, <1>14, <1>15, <1>16, <1>17, TypedFacts
        DEF RuntimeInv, TablesTyped, BoxesOK

LEMMA NextInv == RuntimeInv /\ [Next]_vars => RuntimeInv'
<1> SUFFICES ASSUME RuntimeInv, [Next]_vars PROVE RuntimeInv'
    OBVIOUS
<1>1. ASSUME NEW s \in Services, CallService(s) PROVE RuntimeInv'
    <2>1. PICK t \in Services : Call(s, t, Nobody)
        BY <1>1 DEF CallService
    <2>2. t \in All /\ t # Launcher
        BY NameFacts
    <2> QED BY <2>1, <2>2, CallInv
<1>2. ASSUME NEW s \in Services, NewService(s) PROVE RuntimeInv'
    <2>1. PICK t \in Services : Call(s, Launcher, t)
        BY <1>2 DEF NewService
    <2>2. Launcher \in All
        BY NameFacts
    <2> QED BY <2>1, <2>2, CallInv
<1>3. ASSUME NEW s \in Services, Step(s) PROVE RuntimeInv'
    BY <1>1, <1>2, <1>3, ForkInv, RaiseInv, ExitInv DEF Step
<1>4. ASSUME NEW s \in Services, Progress(s) PROVE RuntimeInv'
    BY <1>4, RetInv, FinishInv DEF Progress
<1>5. ASSUME NEW s \in All, Dispatch(s) PROVE RuntimeInv'
    BY <1>5, RunForkInv, DispatchResponseInv, DispatchErrorInv, DispatchCallInv DEF Dispatch
<1>6. ASSUME Launching PROVE RuntimeInv'
    BY <1>6, LaunchInv, ReportInv DEF Launching, Reporting
<1>7. ASSUME UNCHANGED vars PROVE RuntimeInv'
    <2>1. UNCHANGED <<st, inbox, left, running, co, session_id_coroutine, watching_session,
                      watching_service, dead_service, error_queue, instance, sent, forks>>
        BY <1>7 DEF vars
    <2>2. TablesTyped' /\ Tables' /\ Owed' /\ Buried' /\ Fresh' /\ Counted' /\ BoxesOK(inbox', st')
        BY <2>1, InvTypes DEF RuntimeInv, TablesTyped, Tables, Owed, Buried, Fresh, Counted,
                              NoCaller, IsStarter
    <2>3. NobodyForgotten'
        BY <2>1 DEF RuntimeInv, NobodyForgotten, InBox, Launched, IsStarter, Holds, Abandoned, Alive
    <2> QED BY <2>1, <2>2, <2>3, InvNext, InvTypes DEF RuntimeInv
<1> QED BY <1>3, <1>4, <1>5, <1>6, <1>7, EndBatchInv, DropInv DEF Next

LEMMA InvHolds == Spec => []RuntimeInv
<1>1. Init => RuntimeInv
    BY InitInv
<1>2. RuntimeInv /\ [Next]_vars => RuntimeInv'
    BY NextInv
<1> QED BY <1>1, <1>2, PTL DEF Spec

(* The tables of a service that runs agree: the sessions of skynet.lua's     *)
(* session_id_coroutine lead to exactly the coroutines that wait for them,   *)
(* one coroutine runs at a time, and watching_service counts everybody that  *)
(* a handler, or an answer the launcher has put off, is for.                 *)
THEOREM TrackedHolds == Spec => []CallsTracked
<1>1. RuntimeInv => CallsTracked
    <2> SUFFICES ASSUME RuntimeInv PROVE CallsTracked
        OBVIOUS
    <2>1. RuntimeTypeOK
        BY DEF RuntimeInv
    <2>2. ASSUME NEW s \in All, Alive(s)
          PROVE  /\ \A k \in Sessions, c \in Co :
                        session_id_coroutine[s][k] = c <=> (co[s][c].st = "wait" /\ co[s][c].waits = k)
                 /\ \A c \in Co : co[s][c].st = "run" <=> running[s] = c
                 /\ \A k \in Sessions : watching_session[s][k] # Nobody => session_id_coroutine[s][k] # NoCo
        BY <2>2 DEF RuntimeInv, Tables, Agree, Alive
    <2>3. ASSUME NEW s \in All, NEW a \in All, Alive(s)
          PROVE  watching_service[s][a] >=
                     Cardinality({c \in Co : co[s][c].from = a})
                     + (IF s = Launcher THEN Cardinality({t \in Services : instance[t].from = a}) ELSE 0)
        BY <2>3 DEF RuntimeInv, Counted, Users, Awaiting, Alive
    <2> QED BY <2>1, <2>2, <2>3 DEF CallsTracked
<1> QED BY <1>1, InvHolds, PTL

(* Whoever raises an error, exits, fails to start or drops its queue, a      *)
(* session of skynet.call that still waits has its request under way, a      *)
(* handler that owes the answer, or the answer or a failure on its way; or   *)
(* the worker's batch has dispatched the request after the skynet.exit of    *)
(* its service, and has ended while the handler waited (Abandoned).          *)
THEOREM ForgottenHolds == Spec => []NobodyForgotten
<1>1. RuntimeInv => NobodyForgotten
    BY DEF RuntimeInv
<1> QED BY <1>1, InvHolds, PTL
=============================================================================
