---------------------------- MODULE SessionProofs ----------------------------
(***************************************************************************)
(* The client connections, for any number of sockets, users and requests   *)
(* and any limit of the gate: the gate counts exactly, both ends of a      *)
(* connection use the same key, and whatever is under way when a           *)
(* connection goes, its agent goes and nothing is left of it.              *)
(***************************************************************************)
EXTENDS ClientSession, FiniteSetTheorems, SequenceTheorems, TLAPS

-----------------------------------------------------------------------------
(* Messages.                                                               *)

\* Queue q holds a message of f of type a; holds at most one.
Has(q, a, f) == \E n \in DOMAIN q : q[n].type = a /\ q[n].fd = f
Once(q, a, f) == \A m, n \in DOMAIN q :
    q[m].type = a /\ q[n].type = a /\ q[m].fd = f /\ q[n].fd = f => m = n

\* No message of f of type b comes after one of type a.
NotAfter(q, a, b, f) == \A m, n \in DOMAIN q :
    m < n /\ q[m].type = a /\ q[m].fd = f => ~(q[n].type = b /\ q[n].fd = f)

\* The bodies of the messages of f of type a.
Carries(q, a, f, B) == \A n \in DOMAIN q : q[n].type = a /\ q[n].fd = f => q[n].body \in B

GateTypes  == {"open", "data", "close", "forward", "kick"}
WdTypes    == {"open", "started", "opened", "close", "kicked", "connected", "disconnected", "recv"}
AgentTypes == {"start", "opened", "data", "send", "disconnect", "answer"}

Wishes == User \cup {"logout"}

\* The handshake, message by message, and what follows it.
Hello  == [key |-> "handshake", msg |-> Shake(nil, checknotip, FALSE)]
Second == [key |-> "handshake", msg |-> Shake(2, checknotip, FALSE)]
Third  == [key |-> "handshake", msg |-> Shake(3, netcheckpackflag, TRUE)]
Asks   == {[key |-> "ckey", msg |-> App(what)] : what \in Wishes}
Answer == [key |-> "ckey", msg |-> App("answer")]

Bodies == {Nobody, Hello, Second} \cup Asks \cup Wishes

Queue(T) == Seq([type : T, fd : Fd, body : Bodies])

\* An object of pack.lua in state n: not told the protocol, and told it.
Plain(n) == [m_state |-> n, m_proto |-> noproto, m_ckey |-> FALSE]
Keyed(n) == [m_state |-> n, m_proto |-> netcheckpackflag, m_ckey |-> TRUE]

NetType ==
    /\ sock \in [Fd -> {"none", "accepted", "open", "half", "closed"}]
    /\ client \in [Fd -> {Plain(0), Plain(1), Plain(2), Keyed(3)}]
    /\ c2s \in [Fd -> Seq({Hello, Second} \cup Asks)]
    /\ s2c \in [Fd -> Seq({Second, Third, Answer})]

GateType ==
    /\ gate_in \in Queue(GateTypes)
    /\ gs \in [connection : [Fd -> {"nil", "true", "false"}], client_number : Int,
               maxclient : Nat]
    /\ connection \in [Fd -> {"nil", "noagent", "agent"}]

Watch == [agent : SUBSET Fd, open : [Fd -> {"no", "launch", "start"}],
          kick : [Fd -> {"no", "close", "all"}], all : {"no", "loop", "done"},
          left : SUBSET Fd, grown : BOOLEAN]

WdType ==
    /\ wd_in \in Queue(WdTypes)
    /\ wd \in Watch
    /\ late \subseteq Fd /\ lost \subseteq Fd

Tables == [toFd : [User -> Fd \cup {Nobody}], toUser : [Fd -> User \cup {Nobody}],
           info : [User -> Fd \cup {Nobody}]]
Maps == [agentTab : SUBSET Fd, fdMap : [Fd -> {"nil", "login", "lobby"}]]
News == Seq({"agent", "noagent", "login", "lobby", "disconnect"})

TablesType ==
    /\ user \in Tables /\ over \subseteq Fd \X User
    /\ bc_in \in [Fd -> News] /\ bc \in Maps

ScriptType ==
    /\ TablesType
    /\ login \in [Logins -> {Idle} \cup [fd : Fd, user : User, pc : {"account", "user"}]]

AgentType ==
    /\ agent_in \in [Fd -> Queue(AgentTypes)]
    /\ \A f \in Fd : \A n \in DOMAIN agent_in[f] : agent_in[f][n].fd = f
    /\ ag \in [Fd -> [st : {"none", "new", "up", "leaving", "exited"},
                      obj : {Plain(0), Plain(1), Keyed(1), Keyed(2), Keyed(3)}]]

TypeInv == NetType /\ GateType /\ WdType /\ ScriptType /\ AgentType

-----------------------------------------------------------------------------
(* The way of a connection to its agent: it is in one place at a time.     *)

\* Up to the launch of the agent.
Unborn(f) ==
    ag[f].st = "none" =>
        /\ agent_in[f] = <<>> /\ ag[f].obj = Plain(0)
        /\ f \notin wd.agent /\ wd.kick[f] = "no" /\ f \notin lost
        /\ sock[f] # "open" /\ connection[f] # "agent" /\ gs.connection[f] # "false"
        /\ ~Has(gate_in, "data", f) /\ ~Has(gate_in, "forward", f) /\ ~Has(gate_in, "kick", f)
        /\ ~Has(wd_in, "started", f) /\ ~Has(wd_in, "opened", f) /\ ~Has(wd_in, "kicked", f)
        /\ ~Has(wd_in, "connected", f) /\ ~Has(wd_in, "disconnected", f) /\ ~Has(wd_in, "recv", f)
        /\ sock[f] \in {"none", "accepted"} => ~Has(gate_in, "close", f) /\ ~Has(wd_in, "close", f)
        /\ sock[f] \in {"half", "closed"} => gs.connection[f] = "nil"
        /\ sock[f] = "none" => gs.connection[f] = "nil"
        /\ Once(gate_in, "open", f) /\ Once(wd_in, "open", f)
        /\ Has(gate_in, "open", f) => /\ gs.connection[f] = "nil" /\ sock[f] = "accepted"
                                      /\ ~Has(wd_in, "open", f) /\ wd.open[f] # "launch"
        /\ Has(wd_in, "open", f) => gs.connection[f] = "true" /\ wd.open[f] # "launch"
        /\ wd.open[f] = "launch" => gs.connection[f] = "true"

\* After it.
Born(f) ==
    /\ ag[f].st # "none" => /\ sock[f] # "none" /\ ~Has(gate_in, "open", f)
                            /\ ~Has(wd_in, "open", f) /\ wd.open[f] # "launch"
                            /\ Has(wd_in, "close", f) => gs.connection[f] = "nil"
    /\ ag[f].st = "new" => /\ agent_in[f] # <<>> /\ Head(agent_in[f]).type = "start"
                           /\ connection[f] # "agent" /\ ~Has(agent_in[f], "data", f)
    /\ ag[f].st # "new" => ~Has(agent_in[f], "start", f)
    /\ ag[f].st = "exited" => agent_in[f] = <<>>

\* The start of the agent, the forwarding and the news that the connection is
\* open follow one another.
Opening(f) ==
    /\ Once(agent_in[f], "start", f) /\ Once(wd_in, "started", f) /\ Once(gate_in, "forward", f)
    /\ Once(wd_in, "opened", f) /\ Once(agent_in[f], "opened", f)
    /\ Has(agent_in[f], "start", f) =>
          /\ ~Has(wd_in, "started", f) /\ ~Has(gate_in, "forward", f)
          /\ ~Has(wd_in, "opened", f) /\ ~Has(agent_in[f], "opened", f)
    /\ Has(wd_in, "started", f) =>
          ~Has(gate_in, "forward", f) /\ ~Has(wd_in, "opened", f) /\ ~Has(agent_in[f], "opened", f)
    /\ Has(gate_in, "forward", f) => ~Has(wd_in, "opened", f) /\ ~Has(agent_in[f], "opened", f)
    /\ Has(wd_in, "opened", f) => ~Has(agent_in[f], "opened", f)

\* The news that the agent's connection is open is still to come.
Awaited(f) ==
    \/ Has(agent_in[f], "start", f) \/ Has(wd_in, "started", f) \/ Has(gate_in, "forward", f)
    \/ Has(wd_in, "opened", f) \/ Has(agent_in[f], "opened", f)

\* What the gate knows about the socket.
Counted(f) ==
    /\ gs.connection[f] = "nil" <=> connection[f] = "nil"
    /\ gs.connection[f] # "nil" /\ sock[f] = "closed" => Has(gate_in, "close", f)
    /\ gs.connection[f] = "false" => sock[f] \in {"half", "closed"}
    /\ Has(gate_in, "close", f) => sock[f] = "closed"

\* The way of an agent out: in the table of the watchdog, being kicked, told
\* to go, taking its leave, gone; or dropped.
Leaving(f) ==
    /\ Once(gate_in, "kick", f) /\ Once(wd_in, "kicked", f) /\ Once(wd_in, "disconnected", f)
    /\ Once(agent_in[f], "disconnect", f) /\ Once(agent_in[f], "answer", f)
    /\ f \in wd.agent => /\ ag[f].st \in {"new", "up"} /\ f \notin lost /\ wd.kick[f] = "no"
                         /\ gs.connection[f] = "nil" => Has(wd_in, "close", f)
    /\ f \in lost => ag[f].st \in {"new", "up"} /\ wd.kick[f] = "no"
    /\ wd.kick[f] # "no" <=> Has(gate_in, "kick", f) \/ Has(wd_in, "kicked", f)
    /\ wd.kick[f] # "no" => ag[f].st \in {"new", "up"}
    /\ Has(gate_in, "kick", f) => ~Has(wd_in, "kicked", f)
    /\ Has(agent_in[f], "disconnect", f) =>
          ag[f].st \in {"new", "up"} /\ f \notin wd.agent /\ f \notin lost /\ wd.kick[f] = "no"
    /\ Has(wd_in, "disconnected", f) => ag[f].st = "leaving"
    /\ Has(agent_in[f], "answer", f) => ag[f].st = "leaving"
    /\ ag[f].st \in {"new", "up"} => \/ f \in wd.agent \/ f \in lost \/ wd.kick[f] # "no"
                                     \/ Has(agent_in[f], "disconnect", f)
    /\ ag[f].st = "leaving" => ~(Has(wd_in, "disconnected", f) <=> Has(agent_in[f], "answer", f))

\* A login of f waits for the database.
LoggingIn(f) == \E n \in Logins : login[n].fd = f

\* After the kick the agent gets no more data, and after its leave it asks
\* for nothing.
Hushed(f) ==
    /\ \/ Has(wd_in, "kicked", f) \/ Has(agent_in[f], "disconnect", f)
       \/ ag[f].st \in {"leaving", "exited"}
       => gs.connection[f] # "true"
    /\ NotAfter(agent_in[f], "disconnect", "data", f)
    /\ NotAfter(wd_in, "disconnected", "recv", f) /\ NotAfter(wd_in, "disconnected", "connected", f)
    /\ ag[f].st \in {"leaving", "exited"} => ~Has(agent_in[f], "data", f)
    /\ ag[f].st = "exited" \/ Has(agent_in[f], "answer", f) =>
          /\ ~Has(wd_in, "recv", f) /\ ~Has(wd_in, "connected", f)
          /\ \/ f \in late
             \/ user.toUser[f] = Nobody /\ Forgets(f) /\ ~LoggingIn(f)

-----------------------------------------------------------------------------
(* The handshake.                                                          *)

\* What is on its way from the client to the agent is in B; is at most one
\* message; is nothing.
InFlight(f, B) ==
    /\ Carries(agent_in[f], "data", f, B) /\ Carries(gate_in, "data", f, B)
    /\ \A n \in DOMAIN c2s[f] : c2s[f][n] \in B

Alone(f) ==
    /\ Once(agent_in[f], "data", f) /\ Once(gate_in, "data", f) /\ Len(c2s[f]) <= 1
    /\ Has(agent_in[f], "data", f) => ~Has(gate_in, "data", f) /\ c2s[f] = <<>>
    /\ Has(gate_in, "data", f) => c2s[f] = <<>>

Silent(f) ==
    ~Has(agent_in[f], "data", f) /\ ~Has(gate_in, "data", f) /\ c2s[f] = <<>>

Shaking(f) ==
    LET c == client[f]
        s == ag[f].obj
    IN  \/ c = Plain(0) /\ s = Plain(0) /\ Silent(f) /\ s2c[f] = <<>>
        \/ c = Plain(1) /\ s \in {Plain(0), Keyed(1)} /\ InFlight(f, {Hello}) /\ Alone(f) /\ s2c[f] = <<>>
        \/ c = Plain(1) /\ s = Plain(1) /\ Silent(f) /\ s2c[f] = <<>>
        \/ c = Plain(1) /\ s = Keyed(2) /\ Silent(f) /\ s2c[f] \in {<<>>, <<Second>>}
        \/ c = Plain(2) /\ s = Keyed(2) /\ InFlight(f, {Second}) /\ Alone(f) /\ s2c[f] = <<>>
        \/ c = Plain(2) /\ s = Keyed(3) /\ Silent(f) /\ s2c[f] \in {<<>>, <<Third>>}
        \/ c = Keyed(3) /\ s = Keyed(3) /\ InFlight(f, Asks)
           /\ \A n \in DOMAIN s2c[f] : s2c[f][n] = Answer

Keys(f) ==
    /\ sock[f] = "none" <=> client[f] = Plain(0)
    /\ Awaited(f) => ag[f].obj \in {Plain(0), Plain(1)}
    /\ Has(wd_in, "recv", f) \/ Has(agent_in[f], "send", f) \/ LoggingIn(f) => client[f] = Keyed(3)
    /\ Carries(wd_in, "recv", f, Wishes)

-----------------------------------------------------------------------------
SocketInv(f) == /\ Unborn(f) /\ Born(f) /\ Opening(f) /\ Counted(f) /\ Leaving(f) /\ Hushed(f)
                /\ Keys(f) /\ Shaking(f)

\* closeSocket runs once, and kicks one agent at a time.
LoopInv ==
    /\ \A f \in Fd : wd.kick[f] = "all" => wd.all = "loop"
    /\ \A f, g \in Fd : wd.kick[f] = "all" /\ wd.kick[g] = "all" => f = g
    /\ wd.all # "done" => lost = {}

CountInv ==
    /\ gs.client_number <= gs.maxclient
    /\ gs.client_number = Cardinality({f \in Fd : gs.connection[f] # "nil"})

SessionInv == TypeInv /\ CountInv /\ LoopInv /\ \A f \in Fd : SocketInv(f)

-----------------------------------------------------------------------------
(* Queues.                                                                 *)

\* Queue r is q with a message of f added, of type t and with body c; without
\* such a message at its head; the same as far as f is concerned.
Added(q, r, t, c, f) ==
    /\ \A a : Has(r, a, f) <=> Has(q, a, f) \/ t = a
    /\ \A a : Once(r, a, f) <=> Once(q, a, f) /\ (t = a => ~Has(q, a, f))
    /\ \A a, b : NotAfter(r, a, b, f) <=> NotAfter(q, a, b, f) /\ (t = b => ~Has(q, a, f))
    /\ \A a, B : Carries(r, a, f, B) <=> Carries(q, a, f, B) /\ (t = a => c \in B)

Removed(q, r, t, c, f) ==
    /\ \A a : Has(q, a, f) <=> Has(r, a, f) \/ t = a
    /\ \A a : Once(q, a, f) => Once(r, a, f) /\ (t = a => ~Has(r, a, f))
    /\ \A a, b : NotAfter(q, a, b, f) => NotAfter(r, a, b, f) /\ (t = a => ~Has(r, b, f))
    /\ \A a, B : Carries(q, a, f, B) => Carries(r, a, f, B) /\ (t = a => c \in B)

Alike(q, r, f) ==
    /\ \A a : Has(r, a, f) <=> Has(q, a, f)
    /\ \A a : Once(q, a, f) => Once(r, a, f)
    /\ \A a, b : NotAfter(q, a, b, f) => NotAfter(r, a, b, f)
    /\ \A a, B : Carries(q, a, f, B) => Carries(r, a, f, B)

LEMMA AppendQueue ==
  ASSUME NEW M, NEW q \in Seq(M), NEW x \in M, NEW f
  PROVE  /\ Append(q, x) \in Seq(M)
         /\ x.fd = f => Added(q, Append(q, x), x.type, x.body, f)
         /\ x.fd # f => Alike(q, Append(q, x), f)
<1> DEFINE r == Append(q, x)
           d == Len(q)
<1>1. /\ r \in Seq(M) /\ d \in Nat /\ DOMAIN q = 1 .. d /\ DOMAIN r = 1 .. d + 1
      /\ r[d + 1] = x /\ \A n \in 1 .. d : r[n] = q[n]
  OBVIOUS
<1> HIDE DEF r, d
<1>2. \A n \in DOMAIN r : n = d + 1 \/ (n \in DOMAIN q /\ r[n] = q[n])
  BY <1>1
<1>3. \A n \in DOMAIN q : n \in DOMAIN r /\ r[n] = q[n] /\ n # d + 1 /\ n < d + 1
  BY <1>1
<1>4. d + 1 \in DOMAIN r /\ r[d + 1] = x /\ \A n \in DOMAIN r : ~(d + 1 < n)
  BY <1>1
<1>5. ASSUME x.fd = f PROVE Added(q, r, x.type, x.body, f)
  <2>1. \A a : Has(r, a, f) <=> Has(q, a, f) \/ x.type = a
    BY <1>2, <1>3, <1>4, <1>5 DEF Has
  <2>2. \A a : Once(r, a, f) <=> Once(q, a, f) /\ (x.type = a => ~Has(q, a, f))
    BY <1>2, <1>3, <1>4, <1>5 DEF Has, Once
  <2>3. \A a, b : NotAfter(r, a, b, f) <=> NotAfter(q, a, b, f) /\ (x.type = b => ~Has(q, a, f))
    BY <1>2, <1>3, <1>4, <1>5 DEF Has, NotAfter
  <2>4. \A a, B : Carries(r, a, f, B) <=> Carries(q, a, f, B) /\ (x.type = a => x.body \in B)
    BY <1>2, <1>3, <1>4, <1>5 DEF Carries
  <2> QED
    BY <2>1, <2>2, <2>3, <2>4 DEF Added
<1>6. ASSUME x.fd # f PROVE Alike(q, r, f)
  <2>1. \A a : Has(r, a, f) <=> Has(q, a, f)
    BY <1>2, <1>3, <1>4, <1>6 DEF Has
  <2>2. \A a : Once(q, a, f) => Once(r, a, f)
    BY <1>2, <1>3, <1>4, <1>6 DEF Once
  <2>3. \A a, b : NotAfter(q, a, b, f) => NotAfter(r, a, b, f)
    BY <1>2, <1>3, <1>4, <1>6 DEF NotAfter
  <2>4. \A a, B : Carries(q, a, f, B) => Carries(r, a, f, B)
    BY <1>2, <1>3, <1>4, <1>6 DEF Carries
  <2> QED
    BY <2>1, <2>2, <2>3, <2>4 DEF Alike
<1> QED
  BY <1>1, <1>5, <1>6 DEF r

LEMMA TailQueue ==
  ASSUME NEW M, NEW q \in Seq(M), q # <<>>, NEW f
  PROVE  /\ Tail(q) \in Seq(M) /\ Head(q) \in M
         /\ Head(q).fd = f => Removed(q, Tail(q), Head(q).type, Head(q).body, f)
         /\ Head(q).fd # f => Alike(q, Tail(q), f)
<1> DEFINE r == Tail(q)
           x == Head(q)
           d == Len(q)
<1>1. /\ r \in Seq(M) /\ d \in Nat \ {0} /\ DOMAIN q = 1 .. d /\ DOMAIN r = 1 .. d - 1
      /\ q[1] = x /\ x \in M /\ \A n \in 1 .. d - 1 : r[n] = q[n + 1]
  OBVIOUS
<1> HIDE DEF r, x, d
<1>2. \A n \in DOMAIN r : n \in Int /\ n + 1 \in DOMAIN q /\ r[n] = q[n + 1] /\ 1 < n + 1
  BY <1>1
<1>3. \A n \in DOMAIN q : n = 1 \/ (n \in Int /\ n - 1 \in DOMAIN r /\ r[n - 1] = q[n])
  BY <1>1
<1>4. 1 \in DOMAIN q /\ q[1] = x
  BY <1>1
<1>5. \A m, n \in DOMAIN r : (m < n <=> m + 1 < n + 1) /\ (m = n <=> m + 1 = n + 1)
  BY <1>2
<1>6. ASSUME x.fd = f PROVE Removed(q, r, x.type, x.body, f)
  <2>1. ASSUME NEW a PROVE Has(q, a, f) <=> Has(r, a, f) \/ x.type = a
    <3>1. ASSUME Has(q, a, f) PROVE Has(r, a, f) \/ x.type = a
      BY <1>3, <1>4, <3>1 DEF Has
    <3>2. ASSUME Has(r, a, f) PROVE Has(q, a, f)
      BY <1>2, <3>2 DEF Has
    <3>3. ASSUME x.type = a PROVE Has(q, a, f)
      BY <1>4, <1>6, <3>3 DEF Has
    <3> QED
      BY <3>1, <3>2, <3>3
  <2>2. ASSUME NEW a, Once(q, a, f) PROVE Once(r, a, f) /\ (x.type = a => ~Has(r, a, f))
    BY <1>2, <1>4, <1>5, <1>6, <2>2 DEF Has, Once
  <2>3. ASSUME NEW a, NEW b, NotAfter(q, a, b, f)
        PROVE  NotAfter(r, a, b, f) /\ (x.type = a => ~Has(r, b, f))
    BY <1>2, <1>4, <1>5, <1>6, <2>3 DEF Has, NotAfter
  <2>4. ASSUME NEW a, NEW B, Carries(q, a, f, B)
        PROVE  Carries(r, a, f, B) /\ (x.type = a => x.body \in B)
    BY <1>2, <1>4, <1>6, <2>4 DEF Carries
  <2> QED
    BY <2>1, <2>2, <2>3, <2>4 DEF Removed
<1>7. ASSUME x.fd # f PROVE Alike(q, r, f)
  <2>1. \A a : Has(r, a, f) <=> Has(q, a, f)
    BY <1>2, <1>3, <1>4, <1>7 DEF Has
  <2>2. ASSUME NEW a, Once(q, a, f) PROVE Once(r, a, f)
    BY <1>2, <1>5, <2>2 DEF Once
  <2>3. ASSUME NEW a, NEW b, NotAfter(q, a, b, f) PROVE NotAfter(r, a, b, f)
    BY <1>2, <1>5, <2>3 DEF NotAfter
  <2>4. ASSUME NEW a, NEW B, Carries(q, a, f, B) PROVE Carries(r, a, f, B)
    BY <1>2, <2>4 DEF Carries
  <2> QED
    BY <2>1, <2>2, <2>3, <2>4 DEF Alike
<1> QED
  BY <1>1, <1>6, <1>7 DEF r, x

LEMMA AlikeSame ==
  ASSUME NEW q, NEW f
  PROVE  Alike(q, q, f)
  BY DEF Alike

LEMMA AlikeBoth ==
  ASSUME NEW q, NEW r, NEW s, NEW f, Alike(q, r, f), Alike(r, s, f)
  PROVE  Alike(q, s, f)
  BY DEF Alike

LEMMA EmptyQueue ==
  ASSUME NEW f
  PROVE  /\ \A a : ~Has(<<>>, a, f) /\ Once(<<>>, a, f)
         /\ \A a, b : NotAfter(<<>>, a, b, f)
         /\ \A a, B : Carries(<<>>, a, f, B)
  BY DEF Has, Once, NotAfter, Carries

LEMMA Put ==
  ASSUME NEW T, NEW q \in Queue(T), NEW t \in T, NEW c \in Bodies, NEW f \in Fd
  PROVE  /\ Append(q, With(t, f, c)) \in Queue(T)
         /\ Added(q, Append(q, With(t, f, c)), t, c, f)
         /\ \A g \in Fd : g # f => Alike(q, Append(q, With(t, f, c)), g)
<1> DEFINE x == With(t, f, c)
           M == [type : T, fd : Fd, body : Bodies]
<1>1. x \in M /\ x.type = t /\ x.fd = f /\ x.body = c
  BY DEF With
<1>2. q \in Seq(M) /\ Queue(T) = Seq(M)
  BY DEF Queue
<1> HIDE DEF x, M
<1>3. Append(q, x) \in Seq(M) /\ Added(q, Append(q, x), t, c, f)
  BY <1>1, <1>2, AppendQueue
<1>4. \A g \in Fd : g # f => Alike(q, Append(q, x), g)
  BY <1>1, <1>2, AppendQueue
<1> QED
  BY <1>2, <1>3, <1>4 DEF x

LEMMA PutMsg ==
  ASSUME NEW T, NEW q \in Queue(T), NEW t \in T, NEW f \in Fd
  PROVE  /\ Append(q, Msg(t, f)) \in Queue(T)
         /\ Added(q, Append(q, Msg(t, f)), t, Nobody, f)
         /\ \A g \in Fd : g # f => Alike(q, Append(q, Msg(t, f)), g)
<1>1. Msg(t, f) = With(t, f, Nobody) /\ Nobody \in Bodies
  BY DEF Msg, With, Bodies
<1> QED
  BY <1>1, Put

LEMMA Take ==
  ASSUME NEW T, NEW q \in Queue(T), q # <<>>, NEW f \in Fd, Head(q).fd = f
  PROVE  /\ Tail(q) \in Queue(T) /\ Head(q) \in [type : T, fd : Fd, body : Bodies]
         /\ Removed(q, Tail(q), Head(q).type, Head(q).body, f)
         /\ \A g \in Fd : g # f => Alike(q, Tail(q), g)
<1> DEFINE M == [type : T, fd : Fd, body : Bodies]
<1>1. q \in Seq(M) /\ Queue(T) = Seq(M)
  BY DEF Queue
<1> HIDE DEF M
<1>2. Tail(q) \in Seq(M) /\ Head(q) \in M /\ Removed(q, Tail(q), Head(q).type, Head(q).body, f)
  BY <1>1, TailQueue
<1>3. \A g \in Fd : g # f => Alike(q, Tail(q), g)
  BY <1>1, TailQueue
<1> QED
  BY <1>1, <1>2, <1>3 DEF M

-----------------------------------------------------------------------------
(* The objects of the handshake, and what it does to them.                 *)

PackObject == [m_state : Int, m_proto : {noproto, netcheckpackflag}, m_ckey : BOOLEAN]

\* An object of pack.lua is its fields, and what EXCEPT does to them.
LEMMA SameObject ==
  ASSUME NEW x \in PackObject, NEW y \in PackObject,
         x.m_state = y.m_state, x.m_proto = y.m_proto, x.m_ckey = y.m_ckey
  PROVE  x = y
  BY DEF PackObject

LEMMA SetState ==
  ASSUME NEW x \in PackObject, NEW n \in Int
  PROVE  LET y == [x EXCEPT !.m_state = n]
         IN  y \in PackObject /\ y.m_state = n /\ y.m_proto = x.m_proto /\ y.m_ckey = x.m_ckey
  BY DEF PackObject

LEMMA SetStateProto ==
  ASSUME NEW x \in PackObject, NEW n \in Int, NEW p \in {noproto, netcheckpackflag}
  PROVE  LET y == [x EXCEPT !.m_state = n, !.m_proto = p]
         IN  y \in PackObject /\ y.m_state = n /\ y.m_proto = p /\ y.m_ckey = x.m_ckey
  BY DEF PackObject

LEMMA SetProtoKey ==
  ASSUME NEW x \in PackObject, NEW p \in {noproto, netcheckpackflag}, NEW c \in BOOLEAN
  PROVE  LET y == [x EXCEPT !.m_proto = p, !.m_ckey = c]
         IN  y \in PackObject /\ y.m_state = x.m_state /\ y.m_proto = p /\ y.m_ckey = c
  BY DEF PackObject

LEMMA Objects ==
  /\ \A n \in Int : /\ Plain(n) \in PackObject /\ Plain(n).m_state = n
                    /\ Plain(n).m_proto = noproto /\ Plain(n).m_ckey = FALSE
  /\ \A n \in Int : /\ Keyed(n) \in PackObject /\ Keyed(n).m_state = n
                    /\ Keyed(n).m_proto = netcheckpackflag /\ Keyed(n).m_ckey = TRUE
  /\ \A m, n \in Int : Plain(m) # Keyed(n)
  /\ \A m, n \in Int : (Plain(m) = Plain(n) => m = n) /\ (Keyed(m) = Keyed(n) => m = n)
  /\ Made = Plain(0)
<1>1. \A n \in Int : /\ Plain(n) \in PackObject /\ Plain(n).m_state = n
                     /\ Plain(n).m_proto = noproto /\ Plain(n).m_ckey = FALSE
  BY DEF Plain, PackObject
<1>2. \A n \in Int : /\ Keyed(n) \in PackObject /\ Keyed(n).m_state = n
                     /\ Keyed(n).m_proto = netcheckpackflag /\ Keyed(n).m_ckey = TRUE
  BY DEF Keyed, PackObject
<1>3. \A m, n \in Int : Plain(m) # Keyed(n)
  BY <1>1, <1>2
<1>4. \A m, n \in Int : (Plain(m) = Plain(n) => m = n) /\ (Keyed(m) = Keyed(n) => m = n)
  BY <1>1, <1>2
<1>5. Made = Plain(0)
  BY DEF Made, Plain, nil
<1> QED
  BY <1>1, <1>2, <1>3, <1>4, <1>5

LEMMA KeyOf ==
  /\ Key(Plain(0)) = "handshake" /\ Key(Plain(1)) = "handshake" /\ Key(Plain(2)) = "handshake"
  /\ Key(Keyed(1)) = "handshake" /\ Key(Keyed(2)) = "handshake" /\ Key(Keyed(3)) = "ckey"
  BY Objects DEF Key

LEMMA PackedWith ==
  ASSUME NEW s, NEW m
  PROVE  /\ Key(s) = "handshake" => Packed(s, m) = [key |-> "handshake", msg |-> m]
         /\ Key(s) = "ckey" => Packed(s, m) = [key |-> "ckey", msg |-> m]
  BY DEF Packed

\* What the handshake does to objects.
LEMMA Changes ==
  /\ StartClient(Plain(0)) = Plain(1) /\ Reset(Plain(0)) = Plain(1)
  /\ [Keyed(1) EXCEPT !.m_state = 2] = Keyed(2) /\ [Keyed(2) EXCEPT !.m_state = 3] = Keyed(3)
  /\ [Plain(1) EXCEPT !.m_state = 2] = Plain(2)
  /\ [[Plain(2) EXCEPT !.m_state = 3] EXCEPT !.m_proto = netcheckpackflag, !.m_ckey = TRUE] = Keyed(3)
<1>1. ASSUME NEW m \in Int, NEW n \in Int
      PROVE  /\ [Plain(m) EXCEPT !.m_state = n] = Plain(n)
             /\ [Keyed(m) EXCEPT !.m_state = n] = Keyed(n)
             /\ [Plain(m) EXCEPT !.m_state = n, !.m_proto = noproto] = Plain(n)
             /\ [Plain(m) EXCEPT !.m_proto = netcheckpackflag, !.m_ckey = TRUE] = Keyed(m)
  <2>1. Plain(m) \in PackObject /\ Plain(n) \in PackObject /\ Keyed(m) \in PackObject
        /\ Keyed(n) \in PackObject
    BY Objects
  <2>2. [Plain(m) EXCEPT !.m_state = n] = Plain(n)
    <3> DEFINE y == [Plain(m) EXCEPT !.m_state = n]
    <3>1. y \in PackObject /\ y.m_state = n /\ y.m_proto = Plain(m).m_proto /\ y.m_ckey = Plain(m).m_ckey
      BY <2>1, SetState
    <3> HIDE DEF y
    <3>2. y.m_state = Plain(n).m_state /\ y.m_proto = Plain(n).m_proto /\ y.m_ckey = Plain(n).m_ckey
      BY <3>1, Objects
    <3>3. y = Plain(n)
      BY <2>1, <3>1, <3>2, SameObject
    <3> QED
      BY <3>3 DEF y
  <2>3. [Keyed(m) EXCEPT !.m_state = n] = Keyed(n)
    <3> DEFINE y == [Keyed(m) EXCEPT !.m_state = n]
    <3>1. y \in PackObject /\ y.m_state = n /\ y.m_proto = Keyed(m).m_proto /\ y.m_ckey = Keyed(m).m_ckey
      BY <2>1, SetState
    <3> HIDE DEF y
    <3>2. y.m_state = Keyed(n).m_state /\ y.m_proto = Keyed(n).m_proto /\ y.m_ckey = Keyed(n).m_ckey
      BY <3>1, Objects
    <3>3. y = Keyed(n)
      BY <2>1, <3>1, <3>2, SameObject
    <3> QED
      BY <3>3 DEF y
  <2>4. [Plain(m) EXCEPT !.m_state = n, !.m_proto = noproto] = Plain(n)
    <3> DEFINE y == [Plain(m) EXCEPT !.m_state = n, !.m_proto = noproto]
    <3>1. y \in PackObject /\ y.m_state = n /\ y.m_proto = noproto /\ y.m_ckey = Plain(m).m_ckey
      BY <2>1, SetStateProto
    <3> HIDE DEF y
    <3>2. y.m_state = Plain(n).m_state /\ y.m_proto = Plain(n).m_proto /\ y.m_ckey = Plain(n).m_ckey
      BY <3>1, Objects
    <3>3. y = Plain(n)
      BY <2>1, <3>1, <3>2, SameObject
    <3> QED
      BY <3>3 DEF y
  <2>5. [Plain(m) EXCEPT !.m_proto = netcheckpackflag, !.m_ckey = TRUE] = Keyed(m)
    <3> DEFINE y == [Plain(m) EXCEPT !.m_proto = netcheckpackflag, !.m_ckey = TRUE]
    <3>1. y \in PackObject /\ y.m_state = Plain(m).m_state /\ y.m_proto = netcheckpackflag /\ y.m_ckey = TRUE
      BY <2>1, SetProtoKey
    <3> HIDE DEF y
    <3>2. y.m_state = Keyed(m).m_state /\ y.m_proto = Keyed(m).m_proto /\ y.m_ckey = Keyed(m).m_ckey
      BY <3>1, Objects
    <3>3. y = Keyed(m)
      BY <2>1, <3>1, <3>2, SameObject
    <3> QED
      BY <3>3 DEF y
  <2> QED
    BY <2>2, <2>3, <2>4, <2>5
<1>2. 0 \in Int /\ 1 \in Int /\ 2 \in Int /\ 3 \in Int
  OBVIOUS
<1> QED
  BY <1>1, <1>2, Zenon DEF StartClient, Reset

LEMMA ServerShakes ==
  /\ ServerShake(Plain(0), Hello.msg) = Outcome(Plain(1), <<>>, FALSE)
  /\ ServerShake(Keyed(1), Hello.msg) = Outcome(Keyed(2), <<Second>>, FALSE)
  /\ ServerShake(Keyed(2), Second.msg) = Outcome(Keyed(3), <<Third>>, TRUE)
<1>1. Hello.msg.proto = checknotip /\ Second.msg.proto = checknotip /\ Second.msg.state = 2
  BY DEF Hello, Second, Shake
<1>2. ServerShake(Plain(0), Hello.msg) = Outcome(Plain(1), <<>>, FALSE)
  <2>1. Plain(0).m_state # 1 /\ Plain(0).m_state # 2
    BY Objects
  <2>2. ServerShake(Plain(0), Hello.msg) = Outcome(Reset(Plain(0)), <<>>, FALSE)
    BY <2>1, Zenon DEF ServerShake
  <2> QED
    BY <2>2, Changes, Zenon
<1>3. ServerShake(Keyed(1), Hello.msg) = Outcome(Keyed(2), <<Second>>, FALSE)
  <2>1. Keyed(1).m_state = 1 /\ Keyed(1).m_state # 2
    BY Objects
  <2>2. Packed(Keyed(1), Shake(2, checknotip, FALSE)) = Second
    BY KeyOf, PackedWith DEF Second
  <2>3. ServerShake(Keyed(1), Hello.msg)
          = Outcome([Keyed(1) EXCEPT !.m_state = 2], <<Packed(Keyed(1), Shake(2, checknotip, FALSE))>>, FALSE)
    BY <1>1, <2>1, Zenon DEF ServerShake
  <2> QED
    BY <2>2, <2>3, Changes, Zenon
<1>4. ServerShake(Keyed(2), Second.msg) = Outcome(Keyed(3), <<Third>>, TRUE)
  <2>1. Keyed(2).m_state = 2 /\ Keyed(2).m_proto = netcheckpackflag /\ Keyed(2).m_ckey = TRUE
    BY Objects
  <2>2. Packed(Keyed(2), Shake(3, Keyed(2).m_proto, Keyed(2).m_ckey)) = Third
    BY <2>1, KeyOf, PackedWith DEF Third
  <2>3. ServerShake(Keyed(2), Second.msg)
          = Outcome([Keyed(2) EXCEPT !.m_state = 3],
                    <<Packed(Keyed(2), Shake(3, Keyed(2).m_proto, Keyed(2).m_ckey))>>, TRUE)
    BY <1>1, <2>1 DEF ServerShake
  <2> QED
    BY <2>2, <2>3, Changes, Zenon
<1> QED
  BY <1>2, <1>3, <1>4

LEMMA ClientShakes ==
  /\ ClientShake(Plain(1), Second.msg) = Outcome(Plain(2), <<Second>>, FALSE)
  /\ ClientShake(Plain(2), Third.msg) = Outcome(Keyed(3), <<>>, TRUE)
<1>1. /\ Second.msg.proto = checknotip /\ Second.msg.state = 2
      /\ Third.msg.proto = netcheckpackflag /\ Third.msg.state = 3 /\ Third.msg.ckey = TRUE
  BY DEF Second, Third, Shake
<1>2. ClientShake(Plain(1), Second.msg) = Outcome(Plain(2), <<Second>>, FALSE)
  <2>1. Plain(1).m_state = 1 /\ Plain(1).m_state # 2
    BY Objects
  <2>2. Packed(Plain(2), Shake(2, checknotip, FALSE)) = Second
    BY KeyOf, PackedWith DEF Second
  <2>3. ClientShake(Plain(1), Second.msg)
          = Outcome([Plain(1) EXCEPT !.m_state = Second.msg.state],
                    <<Packed([Plain(1) EXCEPT !.m_state = Second.msg.state],
                             Shake(Second.msg.state, checknotip, FALSE))>>, FALSE)
    BY <1>1, <2>1, Zenon DEF ClientShake
  <2> QED
    BY <1>1, <2>2, <2>3, Changes, Zenon
<1>3. ClientShake(Plain(2), Third.msg) = Outcome(Keyed(3), <<>>, TRUE)
  <2>1. Plain(2).m_state = 2
    BY Objects
  <2>2. (Third.msg.state = 3) = TRUE
    BY <1>1
  <2>3. ClientShake(Plain(2), Third.msg)
          = Outcome([[Plain(2) EXCEPT !.m_state = Third.msg.state]
                        EXCEPT !.m_proto = Third.msg.proto, !.m_ckey = Third.msg.ckey],
                    <<>>, Third.msg.state = 3)
    BY <2>1 DEF ClientShake
  <2> QED
    BY <1>1, <2>2, <2>3, Changes, Zenon
<1> QED
  BY <1>2, <1>3

-----------------------------------------------------------------------------
(* What a step leaves alone.                                               *)

SameNet(g) ==
    sock'[g] = sock[g] /\ client'[g] = client[g] /\ c2s'[g] = c2s[g] /\ s2c'[g] = s2c[g]

SameGate(g) == gs'.connection[g] = gs.connection[g] /\ connection'[g] = connection[g]

SameWd(g) ==
    /\ wd'.open[g] = wd.open[g] /\ wd'.kick[g] = wd.kick[g]
    /\ g \in wd'.agent <=> g \in wd.agent
    /\ g \in lost' <=> g \in lost

SameScript(g) ==
    /\ user'.toUser[g] = user.toUser[g] /\ bc_in'[g] = bc_in[g]
    /\ bc'.fdMap[g] = bc.fdMap[g] /\ (g \in bc'.agentTab <=> g \in bc.agentTab)
    /\ g \in late' <=> g \in late
    /\ LoggingIn(g)' <=> LoggingIn(g)

SameAgent(g) == agent_in'[g] = agent_in[g] /\ ag'[g] = ag[g]

Same(g) ==
    /\ SameNet(g) /\ SameGate(g) /\ SameWd(g) /\ SameScript(g) /\ SameAgent(g)
    /\ Alike(gate_in, gate_in', g) /\ Alike(wd_in, wd_in', g)

LEMMA SameInv ==
  ASSUME NEW g, SocketInv(g), Same(g)
  PROVE  SocketInv(g)'
<1> USE DEF Same, SameNet, SameGate, SameWd, SameScript, SameAgent, Alike, script
<1>1. Unborn(g)'
  BY DEF SocketInv, Unborn
<1>2. Born(g)'
  BY DEF SocketInv, Born
<1>3. Opening(g)'
  BY DEF SocketInv, Opening
<1>4. Counted(g)'
  BY DEF SocketInv, Counted
<1>5. Leaving(g)'
  BY DEF SocketInv, Leaving
<1>6. Hushed(g)'
  BY DEF SocketInv, Hushed, Forgets
<1>7. Keys(g)'
  BY DEF SocketInv, Keys, Awaited
<1>8. Shaking(g)'
  BY DEF SocketInv, Shaking, InFlight, Alone, Silent
<1> QED
  BY <1>1, <1>2, <1>3, <1>4, <1>5, <1>6, <1>7, <1>8 DEF SocketInv

\* A step that concerns socket f.
LEMMA Assemble ==
  ASSUME SessionInv, NEW f \in Fd, TypeInv', CountInv', LoopInv', SocketInv(f)',
         \A g \in Fd : g # f => Same(g)
  PROVE  SessionInv'
<1>1. ASSUME NEW g \in Fd, g # f PROVE SocketInv(g)'
  BY <1>1, SameInv DEF SessionInv
<1> QED
  BY <1>1 DEF SessionInv

-----------------------------------------------------------------------------
(* Facts that several steps use.                                           *)

LEMMA TypesOf ==
  /\ "open" \in GateTypes /\ "data" \in GateTypes /\ "close" \in GateTypes
  /\ "forward" \in GateTypes /\ "kick" \in GateTypes
  /\ "open" \in WdTypes /\ "started" \in WdTypes /\ "opened" \in WdTypes /\ "close" \in WdTypes
  /\ "kicked" \in WdTypes /\ "connected" \in WdTypes /\ "disconnected" \in WdTypes
  /\ "recv" \in WdTypes
  /\ "start" \in AgentTypes /\ "opened" \in AgentTypes /\ "data" \in AgentTypes
  /\ "send" \in AgentTypes /\ "disconnect" \in AgentTypes /\ "answer" \in AgentTypes
  BY DEF GateTypes, WdTypes, AgentTypes

LEMMA HasNone ==
  ASSUME NEW q, NEW a, NEW f, ~Has(q, a, f)
  PROVE  Once(q, a, f) /\ \A B : Carries(q, a, f, B)
  BY DEF Has, Once, Carries

\* A queue of at most one message.
LEMMA Single ==
  ASSUME NEW x
  PROVE  /\ Len(<<x>>) = 1 /\ DOMAIN <<x>> = {1} /\ <<x>>[1] = x /\ <<x>> # <<>>
         /\ Head(<<x>>) = x /\ Tail(<<x>>) = <<>>
         /\ Len(<<>>) = 0 /\ DOMAIN <<>> = {}
         /\ \A S : (x \in S => <<x>> \in Seq(S)) /\ <<>> \in Seq(S)
  OBVIOUS

LEMMA AtMostOne ==
  ASSUME NEW x, NEW q \in {<<>>, <<x>>}
  PROVE  Len(q) <= 1 /\ \A n \in DOMAIN q : q[n] = x
<1>1. CASE q = <<>>
  BY <1>1
<1>2. CASE q = <<x>>
  BY <1>2
<1> QED
  BY <1>1, <1>2

\* What clients and agents pack.
LEMMA Payloads ==
  /\ Asks \subseteq Bodies /\ Hello \in Bodies /\ Second \in Bodies /\ Nobody \in Bodies
  /\ \A what \in Wishes : [key |-> "ckey", msg |-> App(what)] \in Asks
  /\ \A what \in Wishes : what \in Bodies
  BY DEF Bodies, Asks

\* The end of what is on its way.
LEMMA TailOf ==
  ASSUME NEW S, NEW q \in Seq(S), q # <<>>
  PROVE  /\ Tail(q) \in Seq(S) /\ Head(q) \in S /\ Len(Tail(q)) = Len(q) - 1
         /\ 1 \in DOMAIN q /\ Head(q) = q[1]
         /\ \A n \in DOMAIN Tail(q) : n + 1 \in DOMAIN q /\ Tail(q)[n] = q[n + 1]
         /\ Len(q) <= 1 => Tail(q) = <<>>
  OBVIOUS

LEMMA States ==
  /\ Plain(0).m_state = 0 /\ Plain(1).m_state = 1 /\ Plain(2).m_state = 2
  /\ Keyed(1).m_state = 1 /\ Keyed(2).m_state = 2 /\ Keyed(3).m_state = 3
  /\ Plain(1) # Keyed(1) /\ Plain(2) # Keyed(2)
  BY Objects

LEMMA ConnectKeeps ==
  ASSUME SessionInv, NEW f \in Fd, Connect(f)
  PROVE  SessionInv'
<1>1. TypeInv /\ CountInv /\ LoopInv /\ SocketInv(f)
  BY DEF SessionInv
<1>2. /\ sock[f] = "none" /\ ag[f].st = "none" /\ client[f] = Plain(0)
      /\ s2c[f] = <<>> /\ Silent(f)
  BY <1>1, Objects DEF Connect, SocketInv, Born, Keys, Shaking
<1>3. /\ gate_in' \in Queue(GateTypes) /\ Added(gate_in, gate_in', "open", Nobody, f)
      /\ \A g \in Fd : g # f => Alike(gate_in, gate_in', g)
  BY <1>1, PutMsg, TypesOf DEF Connect, TypeInv, GateType
<1>4. client' = [client EXCEPT ![f] = Plain(1)]
  BY <1>1, <1>2, Changes DEF Connect, TypeInv, NetType
<1>5. c2s' = c2s \/ c2s' = [c2s EXCEPT ![f] = <<Hello>>]
  <2>1. client'[f] = Plain(1)
    BY <1>1, <1>4 DEF TypeInv, NetType
  <2>2. Packed(client'[f], Shake(nil, checknotip, FALSE)) = Hello
    BY <2>1, KeyOf, PackedWith DEF Hello
  <2> QED
    BY <2>2 DEF Connect
<1>6. /\ sock'[f] = "accepted" /\ client'[f] = Plain(1) /\ c2s'[f] \in {<<>>, <<Hello>>}
      /\ s2c'[f] = s2c[f] /\ SameGate(f) /\ SameWd(f) /\ SameScript(f) /\ SameAgent(f)
      /\ Alike(wd_in, wd_in', f)
  BY <1>1, <1>2, <1>4, <1>5, AlikeSame
  DEF Connect, gate, watchdog, TypeInv, NetType, Silent, SameGate, SameWd, SameScript, SameAgent, LoggingIn, script
<1>7. ASSUME NEW g \in Fd, g # f PROVE Same(g)
  BY <1>1, <1>3, <1>4, <1>5, <1>7, AlikeSame
  DEF Connect, gate, watchdog, TypeInv, NetType, Same, SameNet, SameGate, SameWd, SameScript, SameAgent, LoggingIn, script
<1>8. TypeInv'
  <2>1. NetType'
    BY <1>1, <1>4, <1>5, Single DEF Connect, TypeInv, NetType
  <2>2. GateType'
    BY <1>1, <1>3 DEF Connect, gate, TypeInv, GateType
  <2>3. WdType'
    BY <1>1 DEF Connect, watchdog, TypeInv, WdType, Watch, script
  <2>4. ScriptType'
    BY <1>1 DEF Connect, watchdog, TypeInv, ScriptType, TablesType, script
  <2>5. AgentType'
    BY <1>1 DEF Connect, TypeInv, AgentType
  <2> QED
    BY <2>1, <2>2, <2>3, <2>4, <2>5 DEF TypeInv
<1>9. CountInv'
  BY <1>1 DEF CountInv, Connect, gate
<1>10. LoopInv'
  BY <1>1 DEF LoopInv, Connect, watchdog, script
<1>11. SocketInv(f)'
  <2> USE DEF SameNet, SameGate, SameWd, SameScript, SameAgent, Alike, Added, Removed, script
  <2>1. Unborn(f)'
    BY <1>1, <1>2, <1>3, <1>6 DEF SocketInv, Unborn
  <2>2. Born(f)'
    BY <1>1, <1>2, <1>3, <1>6 DEF SocketInv, Born
  <2>3. Opening(f)'
    BY <1>1, <1>2, <1>3, <1>6 DEF SocketInv, Opening
  <2>4. Counted(f)'
    BY <1>1, <1>2, <1>3, <1>6 DEF SocketInv, Counted
  <2>5. Leaving(f)'
    BY <1>1, <1>2, <1>3, <1>6 DEF SocketInv, Leaving
  <2>6. Hushed(f)'
    BY <1>1, <1>2, <1>3, <1>6 DEF SocketInv, Hushed, Forgets
  <2>7. Keys(f)'
    BY <1>1, <1>2, <1>3, <1>6, Objects, EmptyQueue DEF SocketInv, Keys, Awaited, Unborn
  <2>8. Shaking(f)'
    <3>1. Len(c2s'[f]) <= 1 /\ \A n \in DOMAIN c2s'[f] : c2s'[f][n] = Hello
      BY <1>6, AtMostOne
    <3>2. ag[f].obj = Plain(0)
      BY <1>1, <1>2 DEF SocketInv, Unborn
    <3>3. /\ ~Has(agent_in'[f], "data", f) /\ ~Has(gate_in', "data", f)
          /\ Carries(agent_in'[f], "data", f, {Hello}) /\ Carries(gate_in', "data", f, {Hello})
          /\ Once(agent_in'[f], "data", f) /\ Once(gate_in', "data", f)
      BY <1>2, <1>3, <1>6, HasNone DEF Silent
    <3> QED
      BY <1>2, <1>6, <3>1, <3>2, <3>3 DEF Shaking, InFlight, Alone
  <2> QED
    BY <2>1, <2>2, <2>3, <2>4, <2>5, <2>6, <2>7, <2>8 DEF SocketInv
<1> QED
  BY <1>7, <1>8, <1>9, <1>10, <1>11, Assemble

LEMMA ClientRecvKeeps ==
  ASSUME SessionInv, NEW f \in Fd, ClientRecv(f)
  PROVE  SessionInv'
<1>1. TypeInv /\ CountInv /\ LoopInv /\ SocketInv(f)
  BY DEF SessionInv
<1>2. \/ /\ client[f] = Plain(1) /\ ag[f].obj = Keyed(2) /\ s2c[f] = <<Second>> /\ Silent(f)
         /\ client' = [client EXCEPT ![f] = Plain(2)] /\ c2s' = [c2s EXCEPT ![f] = <<Second>>]
      \/ /\ client[f] = Plain(2) /\ ag[f].obj = Keyed(3) /\ s2c[f] = <<Third>> /\ Silent(f)
         /\ client' = [client EXCEPT ![f] = Keyed(3)] /\ c2s' = [c2s EXCEPT ![f] = <<>>]
      \/ client[f] = Keyed(3) /\ client' = client /\ c2s' = c2s
  <2>1. s2c[f] # <<>>
    BY DEF ClientRecv
  <2>2. CASE client[f] = Plain(1)
    <3>1. ag[f].obj = Keyed(2) /\ s2c[f] = <<Second>> /\ Silent(f) /\ c2s[f] = <<>>
      BY <1>1, <2>1, <2>2, States DEF SocketInv, Shaking, Silent
    <3>2. Head(s2c[f]) = Second /\ client[f].m_state # 3
      BY <2>2, <3>1, States
    <3> DEFINE r == ClientShake(client[f], Head(s2c[f]).msg)
    <3>3. r.obj = Plain(2) /\ r.out = <<Second>>
      BY <2>2, <3>2, ClientShakes DEF Outcome
    <3> HIDE DEF r
    <3>4. client' = [client EXCEPT ![f] = r.obj] /\ c2s' = [c2s EXCEPT ![f] = c2s[f] \o r.out]
      BY <3>2 DEF ClientRecv, r
    <3>5. c2s[f] \o r.out = <<Second>>
      BY <3>1, <3>3
    <3> QED
      BY <2>2, <3>1, <3>3, <3>4, <3>5
  <2>3. CASE client[f] = Plain(2)
    <3>1. ag[f].obj = Keyed(3) /\ s2c[f] = <<Third>> /\ Silent(f) /\ c2s[f] = <<>>
      BY <1>1, <2>1, <2>3, States DEF SocketInv, Shaking, Silent
    <3>2. Head(s2c[f]) = Third /\ client[f].m_state # 3
      BY <2>3, <3>1, States
    <3> DEFINE r == ClientShake(client[f], Head(s2c[f]).msg)
    <3>3. r.obj = Keyed(3) /\ r.out = <<>>
      BY <2>3, <3>2, ClientShakes DEF Outcome
    <3> HIDE DEF r
    <3>4. client' = [client EXCEPT ![f] = r.obj] /\ c2s' = [c2s EXCEPT ![f] = c2s[f] \o r.out]
      BY <3>2 DEF ClientRecv, r
    <3>5. c2s[f] \o r.out = <<>>
      BY <3>1, <3>3
    <3> QED
      BY <2>3, <3>1, <3>3, <3>4, <3>5
  <2>4. CASE client[f] = Keyed(3)
    BY <2>4, States DEF ClientRecv
  <2> QED
    BY <1>1, <2>1, <2>2, <2>3, <2>4 DEF SocketInv, Shaking
<1>3. /\ s2c' = [s2c EXCEPT ![f] = Tail(s2c[f])] /\ Tail(s2c[f]) \in Seq({Second, Third, Answer})
      /\ s2c[f] \in {<<Second>>, <<Third>>} => Tail(s2c[f]) = <<>>
      /\ (\A n \in DOMAIN s2c[f] : s2c[f][n] = Answer) => \A n \in DOMAIN Tail(s2c[f]) : Tail(s2c[f])[n] = Answer
  BY <1>1, TailOf DEF ClientRecv, TypeInv, NetType
<1>4. /\ sock'[f] = sock[f] /\ SameGate(f) /\ SameWd(f) /\ SameScript(f) /\ SameAgent(f)
      /\ Alike(gate_in, gate_in', f) /\ Alike(wd_in, wd_in', f) /\ s2c'[f] = Tail(s2c[f])
      /\ \/ client'[f] = Plain(2) /\ c2s'[f] = <<Second>>
         \/ client'[f] = Keyed(3) /\ c2s'[f] = <<>>
         \/ client'[f] = client[f] /\ c2s'[f] = c2s[f]
  BY <1>1, <1>2, <1>3, AlikeSame DEF ClientRecv, gate, watchdog, TypeInv, NetType, SameGate, SameWd, SameScript, SameAgent, LoggingIn, script
<1>5. ASSUME NEW g \in Fd, g # f PROVE Same(g)
  BY <1>1, <1>2, <1>3, <1>5, AlikeSame DEF ClientRecv, gate, watchdog, Same, TypeInv, NetType, GateType, WdType, Watch, ScriptType, TablesType, AgentType, SameNet, SameGate, SameWd, SameScript, SameAgent, LoggingIn, script
<1>6. TypeInv'
  <2>1. NetType'
    <3>1. <<Second>> \in Seq({Hello, Second} \cup Asks) /\ <<>> \in Seq({Hello, Second} \cup Asks)
      BY Single
    <3>2. c2s' \in [Fd -> Seq({Hello, Second} \cup Asks)]
      BY <1>1, <1>2, <3>1 DEF TypeInv, NetType
    <3>3. client' \in [Fd -> {Plain(0), Plain(1), Plain(2), Keyed(3)}]
      BY <1>1, <1>2 DEF TypeInv, NetType
    <3> QED
      BY <1>1, <1>3, <3>2, <3>3 DEF ClientRecv, TypeInv, NetType
  <2>2. GateType'
    BY <1>1 DEF ClientRecv, net, gate, watchdog, TypeInv, GateType, script
  <2>3. WdType'
    BY <1>1 DEF ClientRecv, net, gate, watchdog, TypeInv, WdType, Watch, script
  <2>4. ScriptType'
    BY <1>1 DEF ClientRecv, net, gate, watchdog, TypeInv, ScriptType, TablesType, script
  <2>5. AgentType'
    BY <1>1 DEF ClientRecv, net, gate, watchdog, TypeInv, AgentType, script
  <2> QED
    BY <2>1, <2>2, <2>3, <2>4, <2>5 DEF TypeInv
<1>7. CountInv'
  BY <1>1 DEF CountInv, ClientRecv, gate
<1>8. LoopInv'
  BY <1>1 DEF LoopInv, ClientRecv, watchdog, script
<1>9. SocketInv(f)'
  <2> USE DEF SameNet, SameGate, SameWd, SameScript, SameAgent, Alike, Added, Removed, script
  <2>1. Unborn(f)'
    BY <1>1, <1>4 DEF SocketInv, Unborn
  <2>2. Born(f)'
    BY <1>1, <1>4 DEF SocketInv, Born
  <2>3. Opening(f)'
    BY <1>1, <1>4 DEF SocketInv, Opening
  <2>4. Counted(f)'
    BY <1>1, <1>4 DEF SocketInv, Counted
  <2>5. Leaving(f)'
    BY <1>1, <1>4 DEF SocketInv, Leaving
  <2>6. Hushed(f)'
    BY <1>1, <1>4 DEF SocketInv, Hushed, Forgets
  <2>7. Keys(f)'
    BY <1>1, <1>2, <1>3, States, <1>4 DEF SocketInv, Keys, Awaited
  <2>8. Shaking(f)'
    <3>1. CASE client[f] = Plain(1)
      <4>0. /\ ag[f].obj = Keyed(2) /\ s2c[f] = <<Second>> /\ Silent(f)
            /\ client' = [client EXCEPT ![f] = Plain(2)] /\ c2s' = [c2s EXCEPT ![f] = <<Second>>]
        BY <1>2, <3>1, States
      <4>1. /\ ag'[f].obj = Keyed(2) /\ s2c'[f] = <<>> /\ client'[f] = Plain(2) /\ c2s'[f] = <<Second>>
            /\ ~Has(agent_in'[f], "data", f) /\ ~Has(gate_in', "data", f)
        BY <1>1, <1>3, <1>4, <4>0 DEF Silent, TypeInv, NetType
      <4>2. Len(c2s'[f]) <= 1 /\ \A n \in DOMAIN c2s'[f] : c2s'[f][n] = Second
        BY <4>1, AtMostOne
      <4>3. /\ Carries(agent_in'[f], "data", f, {Second}) /\ Carries(gate_in', "data", f, {Second})
            /\ Once(agent_in'[f], "data", f) /\ Once(gate_in', "data", f)
        BY <4>1, HasNone
      <4> QED
        BY <4>1, <4>2, <4>3 DEF Shaking, InFlight, Alone
    <3>2. CASE client[f] = Plain(2)
      <4>0. /\ ag[f].obj = Keyed(3) /\ s2c[f] = <<Third>> /\ Silent(f)
            /\ client' = [client EXCEPT ![f] = Keyed(3)] /\ c2s' = [c2s EXCEPT ![f] = <<>>]
        BY <1>2, <3>2, States
      <4>1. /\ ag'[f].obj = Keyed(3) /\ s2c'[f] = <<>> /\ client'[f] = Keyed(3) /\ c2s'[f] = <<>>
            /\ ~Has(agent_in'[f], "data", f) /\ ~Has(gate_in', "data", f)
        BY <1>1, <1>3, <1>4, <4>0 DEF Silent, TypeInv, NetType
      <4>2. Carries(agent_in'[f], "data", f, Asks) /\ Carries(gate_in', "data", f, Asks)
        BY <4>1, HasNone
      <4> QED
        BY <4>1, <4>2 DEF Shaking, InFlight
    <3>3. CASE client[f] = Keyed(3)
      BY <1>1, <1>2, <1>3, <1>4, <3>3, States DEF SocketInv, Shaking, InFlight
    <3> QED
      BY <1>2, <3>1, <3>2, <3>3
  <2> QED
    BY <2>1, <2>2, <2>3, <2>4, <2>5, <2>6, <2>7, <2>8 DEF SocketInv
<1> QED
  BY <1>5, <1>6, <1>7, <1>8, <1>9, Assemble

LEMMA ClientAsksKeeps ==
  ASSUME SessionInv, NEW f \in Fd, ClientAsks(f)
  PROVE  SessionInv'
<1>1. TypeInv /\ CountInv /\ LoopInv /\ SocketInv(f)
  BY DEF SessionInv
<1>2. client[f] = Keyed(3)
  <2>1. client[f] \in {Plain(0), Plain(1), Plain(2), Keyed(3)}
    BY <1>1 DEF TypeInv, NetType
  <2>2. client[f].m_state = 3
    BY DEF ClientAsks
  <2> QED
    BY <2>1, <2>2, States
<1>3. /\ c2s' = [c2s EXCEPT ![f] = c2s'[f]] /\ c2s'[f] \in Seq({Hello, Second} \cup Asks)
      /\ (\A n \in DOMAIN c2s[f] : c2s[f][n] \in Asks) => \A n \in DOMAIN c2s'[f] : c2s'[f][n] \in Asks
  <2>1. PICK what \in Wishes : c2s' = [c2s EXCEPT ![f] = Append(c2s[f], Packed(client[f], App(what)))]
    BY DEF ClientAsks, Wishes
  <2>2. Packed(client[f], App(what)) \in Asks
    BY <1>2, KeyOf, PackedWith, Payloads
  <2>3. c2s[f] \in Seq({Hello, Second} \cup Asks)
    BY <1>1 DEF TypeInv, NetType
  <2> QED
    BY <1>1, <2>1, <2>2, <2>3 DEF TypeInv, NetType
<1>4. /\ sock'[f] = sock[f] /\ client'[f] = client[f] /\ s2c'[f] = s2c[f]
      /\ SameGate(f) /\ SameWd(f) /\ SameScript(f) /\ SameAgent(f)
      /\ Alike(gate_in, gate_in', f) /\ Alike(wd_in, wd_in', f)
  BY <1>1, AlikeSame DEF ClientAsks, gate, watchdog, SameGate, SameWd, SameScript, SameAgent, LoggingIn, script
<1>5. ASSUME NEW g \in Fd, g # f PROVE Same(g)
  BY <1>1, <1>3, <1>5, AlikeSame DEF ClientAsks, gate, watchdog, Same, TypeInv, NetType, GateType, WdType, Watch, ScriptType, TablesType, AgentType, SameNet, SameGate, SameWd, SameScript, SameAgent, LoggingIn, script
<1>6. TypeInv'
  <2>1. NetType'
    BY <1>1, <1>2, <1>3 DEF ClientAsks, TypeInv, NetType
  <2>2. GateType'
    BY <1>1 DEF ClientAsks, net, gate, watchdog, TypeInv, GateType, script
  <2>3. WdType'
    BY <1>1 DEF ClientAsks, net, gate, watchdog, TypeInv, WdType, Watch, script
  <2>4. ScriptType'
    BY <1>1 DEF ClientAsks, net, gate, watchdog, TypeInv, ScriptType, TablesType, script
  <2>5. AgentType'
    BY <1>1 DEF ClientAsks, net, gate, watchdog, TypeInv, AgentType, script
  <2> QED
    BY <2>1, <2>2, <2>3, <2>4, <2>5 DEF TypeInv
<1>7. CountInv'
  BY <1>1 DEF CountInv, ClientAsks, gate
<1>8. LoopInv'
  BY <1>1 DEF LoopInv, ClientAsks, watchdog, script
<1>9. SocketInv(f)'
  <2> USE DEF SameNet, SameGate, SameWd, SameScript, SameAgent, Alike, Added, Removed, script
  <2>1. Unborn(f)'
    BY <1>1, <1>4 DEF SocketInv, Unborn
  <2>2. Born(f)'
    BY <1>1, <1>4 DEF SocketInv, Born
  <2>3. Opening(f)'
    BY <1>1, <1>4 DEF SocketInv, Opening
  <2>4. Counted(f)'
    BY <1>1, <1>4 DEF SocketInv, Counted
  <2>5. Leaving(f)'
    BY <1>1, <1>4 DEF SocketInv, Leaving
  <2>6. Hushed(f)'
    BY <1>1, <1>4 DEF SocketInv, Hushed, Forgets
  <2>7. Keys(f)'
    BY <1>1, <1>2, <1>3, States, <1>4 DEF SocketInv, Keys, Awaited
  <2>8. Shaking(f)'
    BY <1>1, <1>2, <1>3, States, <1>4 DEF SocketInv, Shaking, InFlight, Alone, Silent
  <2> QED
    BY <2>1, <2>2, <2>3, <2>4, <2>5, <2>6, <2>7, <2>8 DEF SocketInv
<1> QED
  BY <1>5, <1>6, <1>7, <1>8, <1>9, Assemble

LEMMA ReadKeeps ==
  ASSUME SessionInv, NEW f \in Fd, Read(f)
  PROVE  SessionInv'
<1>1. TypeInv /\ CountInv /\ LoopInv /\ SocketInv(f)
  BY DEF SessionInv
<1>2. /\ sock[f] = "open" /\ c2s[f] # <<>> /\ c2s[f] \in Seq({Hello, Second} \cup Asks)
      /\ c2s' = [c2s EXCEPT ![f] = Tail(c2s[f])]
  BY <1>1 DEF Read, Readable, TypeInv, NetType
<1>3. /\ Tail(c2s[f]) \in Seq({Hello, Second} \cup Asks) /\ Head(c2s[f]) \in {Hello, Second} \cup Asks
      /\ Len(c2s[f]) <= 1 => Tail(c2s[f]) = <<>> /\ Len(Tail(c2s[f])) <= 1
      /\ \A B : (\A n \in DOMAIN c2s[f] : c2s[f][n] \in B) =>
                   Head(c2s[f]) \in B /\ \A n \in DOMAIN Tail(c2s[f]) : Tail(c2s[f])[n] \in B
  BY <1>2, TailOf, Single
<1>4. Head(c2s[f]) \in Bodies
  BY <1>3, Payloads
<1>5. /\ gate_in' \in Queue(GateTypes) /\ Added(gate_in, gate_in', "data", Head(c2s[f]), f)
      /\ \A g \in Fd : g # f => Alike(gate_in, gate_in', g)
  BY <1>1, <1>4, Put, TypesOf DEF Read, TypeInv, GateType
<1>6. /\ sock'[f] = sock[f] /\ client'[f] = client[f] /\ s2c'[f] = s2c[f] /\ c2s'[f] = Tail(c2s[f])
      /\ SameGate(f) /\ SameWd(f) /\ SameScript(f) /\ SameAgent(f) /\ Alike(wd_in, wd_in', f)
  BY <1>1, <1>2, AlikeSame DEF Read, gate, watchdog, TypeInv, NetType, GateType, WdType, Watch, ScriptType, TablesType, AgentType, SameNet, SameGate, SameWd, SameScript, SameAgent, LoggingIn, script
<1>7. ASSUME NEW g \in Fd, g # f PROVE Same(g)
  BY <1>1, <1>2, <1>5, <1>7, AlikeSame DEF Read, gate, watchdog, Same, TypeInv, NetType, GateType, WdType, Watch, ScriptType, TablesType, AgentType, SameNet, SameGate, SameWd, SameScript, SameAgent, LoggingIn, script
<1>8. TypeInv'
  <2>1. NetType'
    BY <1>1, <1>2, <1>3 DEF Read, TypeInv, NetType
  <2>2. GateType'
    BY <1>1, <1>5 DEF Read, gate, TypeInv, GateType
  <2>3. WdType'
    BY <1>1 DEF Read, net, gate, watchdog, TypeInv, WdType, Watch, script
  <2>4. ScriptType'
    BY <1>1 DEF Read, net, gate, watchdog, TypeInv, ScriptType, TablesType, script
  <2>5. AgentType'
    BY <1>1 DEF Read, net, gate, watchdog, TypeInv, AgentType, script
  <2> QED
    BY <2>1, <2>2, <2>3, <2>4, <2>5 DEF TypeInv
<1>9. CountInv'
  BY <1>1 DEF CountInv, Read, gate
<1>10. LoopInv'
  BY <1>1 DEF LoopInv, Read, watchdog, script
<1>11. SocketInv(f)'
  <2> USE DEF SameNet, SameGate, SameWd, SameScript, SameAgent, Alike, Added, Removed, script
  <2>1. Unborn(f)'
    BY <1>1, <1>2, <1>5, <1>6 DEF SocketInv, Unborn
  <2>2. Born(f)'
    BY <1>1, <1>2, <1>5, <1>6 DEF SocketInv, Born
  <2>3. Opening(f)'
    BY <1>1, <1>2, <1>5, <1>6 DEF SocketInv, Opening
  <2>4. Counted(f)'
    BY <1>1, <1>2, <1>5, <1>6 DEF SocketInv, Counted
  <2>5. Leaving(f)'
    BY <1>1, <1>2, <1>5, <1>6 DEF SocketInv, Leaving
  <2>6. Hushed(f)'
    BY <1>1, <1>2, <1>5, <1>6 DEF SocketInv, Hushed, Forgets
  <2>7. Keys(f)'
    BY <1>1, <1>2, <1>5, <1>6 DEF SocketInv, Keys, Awaited
  <2>8. Shaking(f)'
    BY <1>1, <1>2, <1>5, <1>3, <1>6 DEF SocketInv, Shaking, InFlight, Alone, Silent
  <2> QED
    BY <2>1, <2>2, <2>3, <2>4, <2>5, <2>6, <2>7, <2>8 DEF SocketInv
<1> QED
  BY <1>7, <1>8, <1>9, <1>10, <1>11, Assemble

LEMMA HangUpKeeps ==
  ASSUME SessionInv, NEW f \in Fd, HangUp(f)
  PROVE  SessionInv'
<1>1. TypeInv /\ CountInv /\ LoopInv /\ SocketInv(f)
  BY DEF SessionInv
<1>2. /\ sock[f] = "open" /\ ag[f].st # "none"
  BY <1>1 DEF HangUp, Readable, SocketInv, Unborn
<1>3. /\ gate_in' \in Queue(GateTypes) /\ Added(gate_in, gate_in', "close", Nobody, f)
      /\ \A g \in Fd : g # f => Alike(gate_in, gate_in', g)
  BY <1>1, PutMsg, TypesOf DEF HangUp, TypeInv, GateType
<1>4. /\ sock'[f] = "closed" /\ client'[f] = client[f] /\ s2c'[f] = <<>> /\ c2s'[f] = <<>>
      /\ SameGate(f) /\ SameWd(f) /\ SameScript(f) /\ SameAgent(f) /\ Alike(wd_in, wd_in', f)
  BY <1>1, AlikeSame DEF HangUp, gate, watchdog, TypeInv, NetType, GateType, WdType, Watch, ScriptType, TablesType, AgentType, SameNet, SameGate, SameWd, SameScript, SameAgent, LoggingIn, script
<1>5. ASSUME NEW g \in Fd, g # f PROVE Same(g)
  BY <1>1, <1>3, <1>5, AlikeSame DEF HangUp, gate, watchdog, Same, TypeInv, NetType, GateType, WdType, Watch, ScriptType, TablesType, AgentType, SameNet, SameGate, SameWd, SameScript, SameAgent, LoggingIn, script
<1>6. TypeInv'
  <2>1. NetType'
    BY <1>1, Single DEF HangUp, TypeInv, NetType
  <2>2. GateType'
    BY <1>1, <1>3 DEF HangUp, gate, TypeInv, GateType
  <2>3. WdType'
    BY <1>1 DEF HangUp, net, gate, watchdog, TypeInv, WdType, Watch, script
  <2>4. ScriptType'
    BY <1>1 DEF HangUp, net, gate, watchdog, TypeInv, ScriptType, TablesType, script
  <2>5. AgentType'
    BY <1>1 DEF HangUp, net, gate, watchdog, TypeInv, AgentType, script
  <2> QED
    BY <2>1, <2>2, <2>3, <2>4, <2>5 DEF TypeInv
<1>7. CountInv'
  BY <1>1 DEF CountInv, HangUp, gate
<1>8. LoopInv'
  BY <1>1 DEF LoopInv, HangUp, watchdog, script
<1>9. SocketInv(f)'
  <2> USE DEF SameNet, SameGate, SameWd, SameScript, SameAgent, Alike, Added, Removed, script
  <2>1. Unborn(f)'
    BY <1>1, <1>2, <1>3, <1>4 DEF SocketInv, Unborn
  <2>2. Born(f)'
    BY <1>1, <1>2, <1>3, <1>4 DEF SocketInv, Born
  <2>3. Opening(f)'
    BY <1>1, <1>2, <1>3, <1>4 DEF SocketInv, Opening
  <2>4. Counted(f)'
    BY <1>1, <1>2, <1>3, <1>4 DEF SocketInv, Counted
  <2>5. Leaving(f)'
    BY <1>1, <1>2, <1>3, <1>4 DEF SocketInv, Leaving
  <2>6. Hushed(f)'
    BY <1>1, <1>2, <1>3, <1>4 DEF SocketInv, Hushed, Forgets
  <2>7. Keys(f)'
    BY <1>1, <1>2, <1>3, <1>4 DEF SocketInv, Keys, Awaited
  <2>8. Shaking(f)'
    BY <1>1, <1>2, <1>3, Single, <1>4 DEF SocketInv, Shaking, InFlight, Alone, Silent
  <2> QED
    BY <2>1, <2>2, <2>3, <2>4, <2>5, <2>6, <2>7, <2>8 DEF SocketInv
<1> QED
  BY <1>5, <1>6, <1>7, <1>8, <1>9, Assemble

LEMMA SocketClosedKeeps ==
  ASSUME SessionInv, NEW f \in Fd, SocketClosed(f)
  PROVE  SessionInv'
<1>1. TypeInv /\ CountInv /\ LoopInv /\ SocketInv(f)
  BY DEF SessionInv
<1>2. sock[f] = "half"
  BY DEF SocketClosed
<1>3. /\ gate_in' \in Queue(GateTypes) /\ Added(gate_in, gate_in', "close", Nobody, f)
      /\ \A g \in Fd : g # f => Alike(gate_in, gate_in', g)
  BY <1>1, PutMsg, TypesOf DEF SocketClosed, TypeInv, GateType
<1>4. /\ sock'[f] = "closed" /\ client'[f] = client[f] /\ s2c'[f] = <<>> /\ c2s'[f] = c2s[f]
      /\ SameGate(f) /\ SameWd(f) /\ SameScript(f) /\ SameAgent(f) /\ Alike(wd_in, wd_in', f)
  BY <1>1, AlikeSame DEF SocketClosed, gate, watchdog, TypeInv, NetType, GateType, WdType, Watch, ScriptType, TablesType, AgentType, SameNet, SameGate, SameWd, SameScript, SameAgent, LoggingIn, script
<1>5. ASSUME NEW g \in Fd, g # f PROVE Same(g)
  BY <1>1, <1>3, <1>5, AlikeSame DEF SocketClosed, gate, watchdog, Same, TypeInv, NetType, GateType, WdType, Watch, ScriptType, TablesType, AgentType, SameNet, SameGate, SameWd, SameScript, SameAgent, LoggingIn, script
<1>6. TypeInv'
  <2>1. NetType'
    BY <1>1, Single DEF SocketClosed, TypeInv, NetType
  <2>2. GateType'
    BY <1>1, <1>3 DEF SocketClosed, gate, TypeInv, GateType
  <2>3. WdType'
    BY <1>1 DEF SocketClosed, net, gate, watchdog, TypeInv, WdType, Watch, script
  <2>4. ScriptType'
    BY <1>1 DEF SocketClosed, net, gate, watchdog, TypeInv, ScriptType, TablesType, script
  <2>5. AgentType'
    BY <1>1 DEF SocketClosed, net, gate, watchdog, TypeInv, AgentType, script
  <2> QED
    BY <2>1, <2>2, <2>3, <2>4, <2>5 DEF TypeInv
<1>7. CountInv'
  BY <1>1 DEF CountInv, SocketClosed, gate
<1>8. LoopInv'
  BY <1>1 DEF LoopInv, SocketClosed, watchdog, script
<1>9. SocketInv(f)'
  <2> USE DEF SameNet, SameGate, SameWd, SameScript, SameAgent, Alike, Added, Removed, script
  <2>1. Unborn(f)'
    BY <1>1, <1>2, <1>3, <1>4 DEF SocketInv, Unborn
  <2>2. Born(f)'
    BY <1>1, <1>2, <1>3, <1>4 DEF SocketInv, Born
  <2>3. Opening(f)'
    BY <1>1, <1>2, <1>3, <1>4 DEF SocketInv, Opening
  <2>4. Counted(f)'
    BY <1>1, <1>2, <1>3, <1>4 DEF SocketInv, Counted
  <2>5. Leaving(f)'
    BY <1>1, <1>2, <1>3, <1>4 DEF SocketInv, Leaving
  <2>6. Hushed(f)'
    BY <1>1, <1>2, <1>3, <1>4 DEF SocketInv, Hushed, Forgets
  <2>7. Keys(f)'
    BY <1>1, <1>2, <1>3, <1>4 DEF SocketInv, Keys, Awaited
  <2>8. Shaking(f)'
    BY <1>1, <1>2, <1>3, Single, <1>4 DEF SocketInv, Shaking, InFlight, Alone, Silent
  <2> QED
    BY <2>1, <2>2, <2>3, <2>4, <2>5, <2>6, <2>7, <2>8 DEF SocketInv
<1> QED
  BY <1>5, <1>6, <1>7, <1>8, <1>9, Assemble

-----------------------------------------------------------------------------
(* The gate.                                                               *)

LEMMA GateTakes ==
  ASSUME TypeInv, NEW f \in Fd, NEW a, GateGets(a, f)
  PROVE  /\ Tail(gate_in) \in Queue(GateTypes) /\ Head(gate_in).body \in Bodies
         /\ Head(gate_in).type = a /\ Head(gate_in).fd = f
         /\ Removed(gate_in, Tail(gate_in), a, Head(gate_in).body, f)
         /\ \A g \in Fd : g # f => Alike(gate_in, Tail(gate_in), g)
         /\ Has(gate_in, a, f)
<1>1. gate_in \in Queue(GateTypes) /\ gate_in # <<>> /\ Head(gate_in).type = a /\ Head(gate_in).fd = f
  BY DEF TypeInv, GateType, GateGets
<1>2. /\ Tail(gate_in) \in Queue(GateTypes) /\ Head(gate_in) \in [type : GateTypes, fd : Fd, body : Bodies]
      /\ Removed(gate_in, Tail(gate_in), a, Head(gate_in).body, f)
      /\ \A g \in Fd : g # f => Alike(gate_in, Tail(gate_in), g)
  BY <1>1, Take
<1>3. Head(gate_in).body \in Bodies
  BY <1>2
<1>4. Has(gate_in, a, f)
  BY <1>2 DEF Removed
<1> QED
  BY <1>1, <1>2, <1>3, <1>4

LEMMA Numbers ==
  ASSUME TypeInv
  PROVE  gs.client_number \in Int /\ gs.maxclient \in Int
<1>1. gs.client_number \in Int /\ gs.maxclient \in Nat
  BY DEF TypeInv, GateType
<1>2. gs.maxclient \in Nat
  BY <1>1, SessionAssumption, Zenon
<1> QED
  BY <1>1, <1>2

\* The gate counts a connection that it takes up or forgets.
LEMMA CountsUp ==
  ASSUME TypeInv, CountInv, NEW f \in Fd, gs.connection[f] = "nil",
         gs.client_number < gs.maxclient,
         gs' = [gs EXCEPT !.connection[f] = "true", !.client_number = @ + 1]
  PROVE  CountInv'
<1> DEFINE S == {g \in Fd : gs.connection[g] # "nil"}
<1>1. {g \in Fd : gs'.connection[g] # "nil"} = S \cup {f} /\ f \notin S
  BY DEF TypeInv, GateType
<1>2. IsFiniteSet(S)
  BY SessionAssumption, FS_Subset
<1>3. Cardinality(S \cup {f}) = Cardinality(S) + 1
  BY <1>1, <1>2, FS_AddElement
<1>4. /\ gs'.client_number = gs.client_number + 1 /\ gs'.maxclient = gs.maxclient
      /\ gs.client_number \in Int /\ gs.maxclient \in Int
  BY Numbers DEF TypeInv, GateType
<1> QED
  BY <1>1, <1>3, <1>4 DEF CountInv

LEMMA CountsDown ==
  ASSUME TypeInv, CountInv, NEW f \in Fd, gs' = gs_close_fd(f)
  PROVE  CountInv'
<1>1. CASE gs.connection[f] = "nil"
  BY <1>1 DEF gs_close_fd, CountInv
<1>2. CASE gs.connection[f] # "nil"
  <2> DEFINE S == {g \in Fd : gs.connection[g] # "nil"}
  <2>1. gs' = [gs EXCEPT !.connection[f] = "nil", !.client_number = @ - 1]
    BY <1>2 DEF gs_close_fd
  <2>2. {g \in Fd : gs'.connection[g] # "nil"} = S \ {f} /\ f \in S
    BY <1>2, <2>1 DEF TypeInv, GateType
  <2>3. IsFiniteSet(S)
    BY SessionAssumption, FS_Subset
  <2>4. Cardinality(S \ {f}) = Cardinality(S) - 1
    BY <2>2, <2>3, FS_RemoveElement
  <2>5. /\ gs'.client_number = gs.client_number - 1 /\ gs'.maxclient = gs.maxclient
        /\ gs.client_number \in Int /\ gs.maxclient \in Int
    BY <2>1, Numbers DEF TypeInv, GateType
  <2>6. gs.client_number = Cardinality(S) /\ gs.client_number <= gs.maxclient
    BY DEF CountInv
  <2> HIDE DEF S
  <2>7. gs'.client_number = Cardinality(S \ {f}) /\ gs'.client_number <= gs'.maxclient
    BY <2>4, <2>5, <2>6
  <2> QED
    BY <2>2, <2>7 DEF CountInv
<1> QED
  BY <1>1, <1>2


\* MSG.open of a gate that is full.
LEMMA GateRefusesKeeps ==
  ASSUME SessionInv, NEW f \in Fd, gs.client_number >= gs.maxclient, GateOpen(f)
  PROVE  SessionInv'
<1>1. TypeInv /\ CountInv /\ LoopInv /\ SocketInv(f)
  BY DEF SessionInv
<1>2. /\ Tail(gate_in) \in Queue(GateTypes) /\ Removed(gate_in, Tail(gate_in), "open", Head(gate_in).body, f)
      /\ \A g \in Fd : g # f => Alike(gate_in, Tail(gate_in), g)
      /\ Has(gate_in, "open", f)
  BY <1>1, GateTakes DEF GateOpen
<1>3. ag[f].st = "none" /\ sock[f] = "accepted"
  BY <1>1, <1>2 DEF SocketInv, Born, Unborn
<1>4. /\ sock' = [sock EXCEPT ![f] = "half"] /\ c2s' = [c2s EXCEPT ![f] = <<>>] /\ gate_in' = Tail(gate_in)
      /\ UNCHANGED <<client, s2c, gate, wd_in, watchdog, agent_in, ag, apps>>
  BY <1>1, <1>3, Numbers DEF GateOpen, CloseSocket
<1>5. /\ sock'[f] = "half" /\ client'[f] = client[f] /\ s2c'[f] = s2c[f] /\ c2s'[f] = <<>>
      /\ SameGate(f) /\ SameWd(f) /\ SameScript(f) /\ SameAgent(f) /\ Alike(wd_in, wd_in', f)
  BY <1>1, <1>4, AlikeSame DEF gate, watchdog, TypeInv, NetType, GateType, WdType, Watch, ScriptType, TablesType, AgentType, SameNet, SameGate, SameWd, SameScript, SameAgent, LoggingIn, script
<1>6. ASSUME NEW g \in Fd, g # f PROVE Same(g)
  BY <1>1, <1>2, <1>4, <1>6, AlikeSame DEF gate, watchdog, Same, TypeInv, NetType, GateType, WdType, Watch, ScriptType, TablesType, AgentType, SameNet, SameGate, SameWd, SameScript, SameAgent, LoggingIn, script
<1>7. TypeInv'
  <2>1. NetType'
    BY <1>1, <1>4, Single DEF TypeInv, NetType
  <2>2. GateType'
    BY <1>1, <1>2, <1>4 DEF gate, TypeInv, GateType
  <2>3. WdType'
    BY <1>1, <1>4 DEF watchdog, TypeInv, WdType, Watch, script
  <2>4. ScriptType'
    BY <1>1, <1>4 DEF watchdog, TypeInv, ScriptType, TablesType, script
  <2>5. AgentType'
    BY <1>1, <1>4 DEF TypeInv, AgentType
  <2> QED
    BY <2>1, <2>2, <2>3, <2>4, <2>5 DEF TypeInv
<1>8. CountInv'
  BY <1>1, <1>4 DEF CountInv, gate
<1>9. LoopInv'
  BY <1>1, <1>4 DEF LoopInv, watchdog, script
<1>10. SocketInv(f)'
  <2> USE DEF SameNet, SameGate, SameWd, SameScript, SameAgent, Alike, Added, Removed, script
  <2>1. Unborn(f)'
    BY <1>1, <1>2, <1>3, <1>4, <1>5 DEF SocketInv, Unborn
  <2>2. Born(f)'
    BY <1>1, <1>2, <1>3, <1>4, <1>5 DEF SocketInv, Born
  <2>3. Opening(f)'
    BY <1>1, <1>2, <1>3, <1>4, <1>5 DEF SocketInv, Opening
  <2>4. Counted(f)'
    BY <1>1, <1>2, <1>3, <1>4, <1>5 DEF SocketInv, Counted
  <2>5. Leaving(f)'
    BY <1>1, <1>2, <1>3, <1>4, <1>5 DEF SocketInv, Leaving
  <2>6. Hushed(f)'
    BY <1>1, <1>2, <1>3, <1>4, <1>5 DEF SocketInv, Hushed, Forgets
  <2>7. Keys(f)'
    BY <1>1, <1>2, <1>3, <1>4, <1>5 DEF SocketInv, Keys, Awaited
  <2>8. Shaking(f)'
    BY <1>1, <1>2, <1>3, <1>4, Single, <1>5 DEF SocketInv, Shaking, InFlight, Alone, Silent
  <2> QED
    BY <2>1, <2>2, <2>3, <2>4, <2>5, <2>6, <2>7, <2>8 DEF SocketInv
<1> QED
  BY <1>6, <1>7, <1>8, <1>9, <1>10, Assemble

\* MSG.open of a gate that has room.
LEMMA GateAcceptsKeeps ==
  ASSUME SessionInv, NEW f \in Fd, gs.client_number < gs.maxclient, GateOpen(f)
  PROVE  SessionInv'
<1>1. TypeInv /\ CountInv /\ LoopInv /\ SocketInv(f)
  BY DEF SessionInv
<1>2. /\ Tail(gate_in) \in Queue(GateTypes) /\ Removed(gate_in, Tail(gate_in), "open", Head(gate_in).body, f)
      /\ \A g \in Fd : g # f => Alike(gate_in, Tail(gate_in), g)
      /\ Has(gate_in, "open", f)
  BY <1>1, GateTakes DEF GateOpen
<1>3. ag[f].st = "none" /\ sock[f] = "accepted" /\ gs.connection[f] = "nil"
  BY <1>1, <1>2 DEF SocketInv, Born, Unborn
<1>4. /\ gs' = [gs EXCEPT !.connection[f] = "true", !.client_number = @ + 1]
      /\ connection' = [connection EXCEPT ![f] = "noagent"]
      /\ wd_in' = Append(wd_in, Msg("open", f)) /\ gate_in' = Tail(gate_in)
      /\ UNCHANGED <<sock, c2s, client, s2c, watchdog, agent_in, ag, apps>>
  BY <1>1, Numbers DEF GateOpen
<1>5. /\ wd_in' \in Queue(WdTypes) /\ Added(wd_in, wd_in', "open", Nobody, f)
      /\ \A g \in Fd : g # f => Alike(wd_in, wd_in', g)
  BY <1>1, <1>4, PutMsg, TypesOf DEF TypeInv, WdType, Watch
<1>6. /\ SameNet(f) /\ gs'.connection[f] = "true" /\ connection'[f] = "noagent"
      /\ SameWd(f) /\ SameScript(f) /\ SameAgent(f)
  BY <1>1, <1>4 DEF watchdog, TypeInv, NetType, GateType, WdType, Watch, ScriptType, TablesType, AgentType, SameNet, SameGate, SameWd, SameScript, SameAgent, LoggingIn, script
<1>7. ASSUME NEW g \in Fd, g # f PROVE Same(g)
  BY <1>1, <1>2, <1>4, <1>5, <1>7 DEF watchdog, Same, TypeInv, NetType, GateType, WdType, Watch, ScriptType, TablesType, AgentType, SameNet, SameGate, SameWd, SameScript, SameAgent, LoggingIn, script
<1>8. TypeInv'
  <2>1. NetType'
    BY <1>1, <1>4 DEF TypeInv, NetType
  <2>2. GateType'
    <3>1. gs.client_number + 1 \in Int
      BY <1>1, Numbers
    <3>2. gs' \in [connection : [Fd -> {"nil", "true", "false"}], client_number : Int, maxclient : Nat]
      BY <1>1, <1>4, <3>1 DEF TypeInv, GateType
    <3> QED
      BY <1>1, <1>2, <1>4, <3>2 DEF TypeInv, GateType
  <2>3. WdType'
    BY <1>1, <1>4, <1>5 DEF watchdog, TypeInv, WdType, Watch, script
  <2>4. ScriptType'
    BY <1>1, <1>4 DEF watchdog, TypeInv, ScriptType, TablesType, script
  <2>5. AgentType'
    BY <1>1, <1>4 DEF TypeInv, AgentType
  <2> QED
    BY <2>1, <2>2, <2>3, <2>4, <2>5 DEF TypeInv
<1>9. CountInv'
  BY <1>1, <1>3, <1>4, CountsUp
<1>10. LoopInv'
  BY <1>1, <1>4 DEF LoopInv, watchdog, script
<1>11. SocketInv(f)'
  <2> USE DEF SameNet, SameGate, SameWd, SameScript, SameAgent, Alike, Added, Removed, script
  <2>1. Unborn(f)'
    BY <1>1, <1>2, <1>3, <1>4, <1>5, <1>6 DEF SocketInv, Unborn
  <2>2. Born(f)'
    BY <1>1, <1>2, <1>3, <1>4, <1>5, <1>6 DEF SocketInv, Born
  <2>3. Opening(f)'
    BY <1>1, <1>2, <1>3, <1>4, <1>5, <1>6 DEF SocketInv, Opening
  <2>4. Counted(f)'
    BY <1>1, <1>2, <1>3, <1>4, <1>5, <1>6 DEF SocketInv, Counted
  <2>5. Leaving(f)'
    BY <1>1, <1>2, <1>3, <1>4, <1>5, <1>6 DEF SocketInv, Leaving
  <2>6. Hushed(f)'
    <3>1. /\ ~Has(wd_in, "kicked", f) /\ ~Has(agent_in[f], "disconnect", f)
          /\ ~Has(agent_in[f], "answer", f)
      BY <1>1, <1>3, EmptyQueue DEF SocketInv, Unborn
    <3> QED
      BY <1>1, <1>3, <1>5, <1>6, <3>1 DEF SocketInv, Hushed, Forgets
  <2>7. Keys(f)'
    BY <1>1, <1>2, <1>3, <1>4, <1>5, <1>6 DEF SocketInv, Keys, Awaited
  <2>8. Shaking(f)'
    BY <1>1, <1>2, <1>3, <1>4, <1>5, <1>6 DEF SocketInv, Shaking, InFlight, Alone, Silent
  <2> QED
    BY <2>1, <2>2, <2>3, <2>4, <2>5, <2>6, <2>7, <2>8 DEF SocketInv
<1> QED
  BY <1>7, <1>8, <1>9, <1>10, <1>11, Assemble

LEMMA HeadHas ==
  ASSUME TypeInv, NEW f \in Fd, agent_in[f] # <<>>
  PROVE  Has(agent_in[f], Head(agent_in[f]).type, f)
<1>1. agent_in[f] \in Seq([type : AgentTypes, fd : Fd, body : Bodies])
  BY DEF TypeInv, AgentType, Queue
<1>2. 1 \in DOMAIN agent_in[f] /\ Head(agent_in[f]) = agent_in[f][1]
  BY <1>1
<1>3. agent_in[f][1].fd = f
  BY <1>2 DEF TypeInv, AgentType
<1> QED
  BY <1>2, <1>3 DEF Has

\* A message for an agent is put into its queue, unless the agent has exited.
LEMMA Delivered ==
  ASSUME TypeInv, NEW f \in Fd, NEW x \in [type : AgentTypes, fd : Fd, body : Bodies], x.fd = f,
         agent_in' = [agent_in EXCEPT ![f] = Append(@, x)]
  PROVE  /\ agent_in' \in [Fd -> Queue(AgentTypes)]
         /\ \A g \in Fd : \A n \in DOMAIN agent_in'[g] : agent_in'[g][n].fd = g
         /\ Added(agent_in[f], agent_in'[f], x.type, x.body, f)
         /\ \A g \in Fd : g # f => agent_in'[g] = agent_in[g]
<1> DEFINE M == [type : AgentTypes, fd : Fd, body : Bodies]
<1>1. agent_in[f] \in Seq(M) /\ x \in M /\ Queue(AgentTypes) = Seq(M)
  BY DEF TypeInv, AgentType, Queue
<1>2. agent_in \in [Fd -> Queue(AgentTypes)] /\ \A n \in DOMAIN agent_in[f] : agent_in[f][n].fd = f
  BY DEF TypeInv, AgentType
<1>3. agent_in'[f] = Append(agent_in[f], x) /\ \A g \in Fd : g # f => agent_in'[g] = agent_in[g]
  BY <1>2
<1> HIDE DEF M
<1>4. Append(agent_in[f], x) \in Seq(M)
      /\ Added(agent_in[f], Append(agent_in[f], x), x.type, x.body, f)
  BY <1>1, AppendQueue
<1>5. \A n \in DOMAIN Append(agent_in[f], x) : Append(agent_in[f], x)[n].fd = f
  BY <1>1, <1>2
<1>6. agent_in' \in [Fd -> Queue(AgentTypes)]
  BY <1>1, <1>2, <1>4
<1>7. ASSUME NEW g \in Fd PROVE \A n \in DOMAIN agent_in'[g] : agent_in'[g][n].fd = g
  <2>1. CASE g = f
    BY <1>3, <1>5, <2>1
  <2>2. CASE g # f
    BY <1>3, <2>2 DEF TypeInv, AgentType
  <2> QED
    BY <2>1, <2>2
<1> QED
  BY <1>3, <1>4, <1>6, <1>7


LEMMA GateDataKeeps ==
  ASSUME SessionInv, NEW f \in Fd, GateData(f)
  PROVE  SessionInv'
<1>1. TypeInv /\ CountInv /\ LoopInv /\ SocketInv(f)
  BY DEF SessionInv
<1>2. /\ gate_in' \in Queue(GateTypes) /\ Removed(gate_in, gate_in', "data", Head(gate_in).body, f)
      /\ \A g \in Fd : g # f => Alike(gate_in, gate_in', g)
      /\ Head(gate_in).type = "data" /\ Head(gate_in).fd = f /\ Head(gate_in).body \in Bodies
      /\ Head(gate_in) \in [type : AgentTypes, fd : Fd, body : Bodies]
  <2>1. /\ gate_in' \in Queue(GateTypes) /\ Removed(gate_in, gate_in', "data", Head(gate_in).body, f)
        /\ \A g \in Fd : g # f => Alike(gate_in, gate_in', g)
        /\ Head(gate_in).type = "data" /\ Head(gate_in).fd = f /\ Head(gate_in).body \in Bodies
    BY <1>1, GateTakes DEF GateData
  <2>2. gate_in \in Seq([type : GateTypes, fd : Fd, body : Bodies]) /\ gate_in # <<>>
    BY <1>1 DEF GateData, GateGets, TypeInv, GateType, Queue
  <2>3. Head(gate_in) \in [type : GateTypes, fd : Fd, body : Bodies]
    BY <1>1, <2>1, <2>2, Take DEF TypeInv, GateType
  <2>4. Head(gate_in) \in [type : AgentTypes, fd : Fd, body : Bodies]
    BY <2>1, <2>3, TypesOf
  <2> QED
    BY <2>1, <2>4
<1>3. \/ agent_in' = agent_in
      \/ /\ gs.connection[f] = "true" /\ connection[f] = "agent" /\ ag[f].st # "exited"
         /\ agent_in' = [agent_in EXCEPT ![f] = Append(@, Head(gate_in))]
  BY DEF GateData, ToAgent
<1>4. /\ agent_in' \in [Fd -> Queue(AgentTypes)]
      /\ \A g \in Fd : \A n \in DOMAIN agent_in'[g] : agent_in'[g][n].fd = g
      /\ \A g \in Fd : g # f => agent_in'[g] = agent_in[g]
      /\ \/ agent_in'[f] = agent_in[f]
         \/ /\ gs.connection[f] = "true" /\ connection[f] = "agent" /\ ag[f].st # "exited"
            /\ Added(agent_in[f], agent_in'[f], "data", Head(gate_in).body, f)
  <2>1. CASE agent_in' = agent_in
    BY <1>1, <2>1 DEF TypeInv, AgentType
  <2>2. CASE /\ gs.connection[f] = "true" /\ connection[f] = "agent" /\ ag[f].st # "exited"
             /\ agent_in' = [agent_in EXCEPT ![f] = Append(@, Head(gate_in))]
    <3> DEFINE x == Head(gate_in)
    <3>1. /\ x \in [type : AgentTypes, fd : Fd, body : Bodies] /\ x.fd = f /\ x.type = "data"
          /\ agent_in' = [agent_in EXCEPT ![f] = Append(@, x)] /\ x.body = Head(gate_in).body
      BY <1>2, <2>2
    <3> HIDE DEF x
    <3>2. /\ agent_in' \in [Fd -> Queue(AgentTypes)]
          /\ \A g \in Fd : \A n \in DOMAIN agent_in'[g] : agent_in'[g][n].fd = g
          /\ Added(agent_in[f], agent_in'[f], x.type, x.body, f)
          /\ \A g \in Fd : g # f => agent_in'[g] = agent_in[g]
      BY <1>1, <3>1, Delivered
    <3> QED
      BY <2>2, <3>1, <3>2
  <2> QED
    BY <1>3, <2>1, <2>2
<1>5. SameNet(f) /\ SameGate(f) /\ SameWd(f) /\ SameScript(f) /\ ag'[f] = ag[f] /\ Alike(wd_in, wd_in', f)
  BY <1>1, AlikeSame DEF GateData, net, gate, watchdog, SameNet, SameGate, SameWd, SameScript, SameAgent, LoggingIn, script
<1>6. ASSUME NEW g \in Fd, g # f PROVE Same(g)
  BY <1>1, <1>2, <1>4, <1>6, AlikeSame DEF GateData, net, gate, watchdog, Same, SameNet, SameGate, SameWd, SameScript, SameAgent, LoggingIn, script
<1>7. TypeInv'
  <2>1. NetType'
    BY <1>1 DEF GateData, net, gate, watchdog, TypeInv, NetType, script
  <2>2. GateType'
    BY <1>1, <1>2 DEF GateData, gate, TypeInv, GateType
  <2>3. WdType'
    BY <1>1 DEF GateData, net, gate, watchdog, TypeInv, WdType, Watch, script
  <2>4. ScriptType'
    BY <1>1 DEF GateData, net, gate, watchdog, TypeInv, ScriptType, TablesType, script
  <2>5. AgentType'
    BY <1>1, <1>4 DEF GateData, TypeInv, AgentType
  <2> QED
    BY <2>1, <2>2, <2>3, <2>4, <2>5 DEF TypeInv
<1>8. CountInv'
  BY <1>1 DEF CountInv, GateData, gate
<1>9. LoopInv'
  BY <1>1 DEF LoopInv, GateData, watchdog, script
<1>10. SocketInv(f)'
  <2> USE DEF SameNet, SameGate, SameWd, SameScript, SameAgent, Alike, Added, Removed, script
  <2>1. Unborn(f)'
    BY <1>1, <1>2, <1>4, <1>5 DEF SocketInv, Unborn
  <2>2. Born(f)'
    <3>1. agent_in'[f] # agent_in[f] => ag[f].st = "up"
      BY <1>1, <1>4 DEF SocketInv, Unborn, Born, Hushed, TypeInv, AgentType
    <3> QED
      BY <1>1, <1>2, <1>4, <1>5, <3>1 DEF SocketInv, Born
  <2>3. Opening(f)'
    BY <1>1, <1>2, <1>4, <1>5 DEF SocketInv, Opening
  <2>4. Counted(f)'
    BY <1>1, <1>2, <1>4, <1>5 DEF SocketInv, Counted
  <2>5. Leaving(f)'
    BY <1>1, <1>2, <1>4, <1>5 DEF SocketInv, Leaving
  <2>6. Hushed(f)'
    BY <1>1, <1>2, <1>4, <1>5 DEF SocketInv, Hushed, Forgets
  <2>7. Keys(f)'
    BY <1>1, <1>2, <1>4, <1>5 DEF SocketInv, Keys, Awaited
  <2>8. Shaking(f)'
    BY <1>1, <1>2, <1>4, <1>5 DEF SocketInv, Shaking, InFlight, Alone, Silent
  <2> QED
    BY <2>1, <2>2, <2>3, <2>4, <2>5, <2>6, <2>7, <2>8 DEF SocketInv
<1> QED
  BY <1>6, <1>7, <1>8, <1>9, <1>10, Assemble

LEMMA GateCloseKeeps ==
  ASSUME SessionInv, NEW f \in Fd, GateClose(f)
  PROVE  SessionInv'
<1>1. TypeInv /\ CountInv /\ LoopInv /\ SocketInv(f)
  BY DEF SessionInv
<1>2. /\ gate_in' \in Queue(GateTypes) /\ Removed(gate_in, gate_in', "close", Head(gate_in).body, f)
      /\ \A g \in Fd : g # f => Alike(gate_in, gate_in', g)
      /\ Has(gate_in, "close", f) /\ sock[f] = "closed"
  BY <1>1, GateTakes DEF GateClose, SocketInv, Counted
<1>3. /\ wd_in' \in Queue(WdTypes) /\ Added(wd_in, wd_in', "close", Nobody, f)
      /\ \A g \in Fd : g # f => Alike(wd_in, wd_in', g)
  BY <1>1, PutMsg, TypesOf DEF GateClose, TypeInv, WdType, Watch
<1>4. /\ gs' \in [connection : [Fd -> {"nil", "true", "false"}], client_number : Int, maxclient : Nat]
      /\ gs'.connection[f] = "nil" /\ \A g \in Fd : g # f => gs'.connection[g] = gs.connection[g]
  <2>1. gs.client_number - 1 \in Int
    BY <1>1, Numbers
  <2> QED
    BY <1>1, <2>1 DEF GateClose, gs_close_fd, TypeInv, GateType
<1>5. SameNet(f) /\ gs'.connection[f] = "nil" /\ connection'[f] = "nil"
      /\ SameWd(f) /\ SameScript(f) /\ SameAgent(f)
  BY <1>1, <1>4 DEF GateClose, net, watchdog, TypeInv, NetType, GateType, WdType, Watch, ScriptType, TablesType, AgentType, SameNet, SameGate, SameWd, SameScript, SameAgent, LoggingIn, script
<1>6. ASSUME NEW g \in Fd, g # f PROVE Same(g)
  BY <1>1, <1>2, <1>3, <1>4, <1>6 DEF GateClose, net, watchdog, Same, TypeInv, NetType, GateType, WdType, Watch, ScriptType, TablesType, AgentType, SameNet, SameGate, SameWd, SameScript, SameAgent, LoggingIn, script
<1>7. TypeInv'
  <2>1. NetType'
    BY <1>1 DEF GateClose, net, gate, watchdog, TypeInv, NetType, script
  <2>2. GateType'
    BY <1>1, <1>2, <1>4 DEF GateClose, TypeInv, GateType
  <2>3. WdType'
    BY <1>1, <1>3 DEF GateClose, watchdog, TypeInv, WdType, Watch, script
  <2>4. ScriptType'
    BY <1>1 DEF GateClose, net, gate, watchdog, TypeInv, ScriptType, TablesType, script
  <2>5. AgentType'
    BY <1>1 DEF GateClose, net, gate, watchdog, TypeInv, AgentType, script
  <2> QED
    BY <2>1, <2>2, <2>3, <2>4, <2>5 DEF TypeInv
<1>8. CountInv'
  BY <1>1, CountsDown DEF GateClose
<1>9. LoopInv'
  BY <1>1 DEF LoopInv, GateClose, watchdog, script
<1>10. SocketInv(f)'
  <2> USE DEF SameNet, SameGate, SameWd, SameScript, SameAgent, Alike, Added, Removed, script
  <2>1. Unborn(f)'
    BY <1>1, <1>2, <1>3, <1>5 DEF SocketInv, Unborn
  <2>2. Born(f)'
    BY <1>1, <1>2, <1>3, <1>5 DEF SocketInv, Born
  <2>3. Opening(f)'
    BY <1>1, <1>2, <1>3, <1>5 DEF SocketInv, Opening
  <2>4. Counted(f)'
    BY <1>1, <1>2, <1>3, <1>5 DEF SocketInv, Counted
  <2>5. Leaving(f)'
    BY <1>1, <1>2, <1>3, <1>5 DEF SocketInv, Leaving
  <2>6. Hushed(f)'
    BY <1>1, <1>2, <1>3, <1>5 DEF SocketInv, Hushed, Forgets
  <2>7. Keys(f)'
    BY <1>1, <1>2, <1>3, <1>5 DEF SocketInv, Keys, Awaited
  <2>8. Shaking(f)'
    BY <1>1, <1>2, <1>3, <1>5 DEF SocketInv, Shaking, InFlight, Alone, Silent
  <2> QED
    BY <2>1, <2>2, <2>3, <2>4, <2>5, <2>6, <2>7, <2>8 DEF SocketInv
<1> QED
  BY <1>6, <1>7, <1>8, <1>9, <1>10, Assemble

\* Data on its way is at most lost.
Fewer(q, r, f) ==
    /\ Has(r, "data", f) => Has(q, "data", f)
    /\ Once(q, "data", f) => Once(r, "data", f)
    /\ \A B : Carries(q, "data", f, B) => Carries(r, "data", f, B)

LEMMA FewerRest ==
  ASSUME NEW q, NEW r, NEW f, NEW t, NEW c
  PROVE  /\ Alike(q, r, f) => Fewer(q, r, f)
         /\ Removed(q, r, t, c, f) => Fewer(q, r, f)
         /\ Added(q, r, t, c, f) /\ t # "data" => Fewer(q, r, f)
         /\ Fewer(q, q, f)
  BY DEF Fewer, Alike, Removed, Added

LEMMA FewerBoth ==
  ASSUME NEW q, NEW r, NEW s, NEW f, Fewer(q, r, f), Fewer(r, s, f)
  PROVE  Fewer(q, s, f)
  BY DEF Fewer

LEMMA ShakingOn ==
  ASSUME NEW f, Shaking(f), client'[f] = client[f], ag'[f].obj = ag[f].obj,
         s2c'[f] = s2c[f] \/ s2c'[f] = <<>>, c2s'[f] = c2s[f] \/ c2s'[f] = <<>>,
         Fewer(gate_in, gate_in', f), Fewer(agent_in[f], agent_in'[f], f)
  PROVE  Shaking(f)'
<1>1. Silent(f) => Silent(f)'
  BY DEF Silent, Fewer
<1>2. Alone(f) => Alone(f)'
  BY Single DEF Alone, Fewer
<1>3. \A B : InFlight(f, B) => InFlight(f, B)'
  BY Single DEF InFlight, Fewer
<1>4. (\A n \in DOMAIN s2c[f] : s2c[f][n] = Answer) => \A n \in DOMAIN s2c'[f] : s2c'[f][n] = Answer
  BY Single
<1> QED
  BY <1>1, <1>2, <1>3, <1>4 DEF Shaking

\* CMD.forward of a connection that has gone.
LEMMA GateForwardGoneKeeps ==
  ASSUME SessionInv, NEW f \in Fd, connection[f] = "nil", GateForward(f)
  PROVE  SessionInv'
<1>1. TypeInv /\ CountInv /\ LoopInv /\ SocketInv(f)
  BY DEF SessionInv
<1>2. /\ gate_in' \in Queue(GateTypes) /\ Removed(gate_in, gate_in', "forward", Head(gate_in).body, f)
      /\ \A g \in Fd : g # f => Alike(gate_in, gate_in', g)
      /\ Has(gate_in, "forward", f)
  BY <1>1, GateTakes DEF GateForward
<1>3. UNCHANGED <<sock, connection, wd_in, client, c2s, s2c, gs, watchdog, agent_in, ag, apps>>
  BY DEF GateForward
<1>4. SameNet(f) /\ SameGate(f) /\ SameWd(f) /\ SameScript(f) /\ SameAgent(f) /\ Alike(wd_in, wd_in', f)
  BY <1>3, AlikeSame DEF watchdog, SameNet, SameGate, SameWd, SameScript, SameAgent, LoggingIn, script
<1>5. ASSUME NEW g \in Fd, g # f PROVE Same(g)
  BY <1>2, <1>3, <1>5, AlikeSame DEF watchdog, Same, SameNet, SameGate, SameWd, SameScript, SameAgent, LoggingIn, script
<1>6. TypeInv'
  <2>1. NetType'
    BY <1>1, <1>3 DEF TypeInv, NetType
  <2>2. GateType'
    BY <1>1, <1>2, <1>3 DEF TypeInv, GateType
  <2>3. WdType'
    BY <1>1, <1>3 DEF watchdog, TypeInv, WdType, Watch, script
  <2>4. ScriptType'
    BY <1>1, <1>3 DEF watchdog, TypeInv, ScriptType, TablesType, script
  <2>5. AgentType'
    BY <1>1, <1>3 DEF TypeInv, AgentType
  <2> QED
    BY <2>1, <2>2, <2>3, <2>4, <2>5 DEF TypeInv
<1>7. CountInv'
  BY <1>1, <1>3 DEF CountInv
<1>8. LoopInv'
  BY <1>1, <1>3 DEF LoopInv, watchdog, script
<1>9. SocketInv(f)'
  <2> USE DEF SameNet, SameGate, SameWd, SameScript, SameAgent, Alike, Added, Removed, script
  <2>1. Unborn(f)'
    BY <1>1, <1>2, <1>4 DEF SocketInv, Unborn
  <2>2. Born(f)'
    BY <1>1, <1>2, <1>4 DEF SocketInv, Born
  <2>3. Opening(f)'
    BY <1>1, <1>2, <1>4 DEF SocketInv, Opening
  <2>4. Counted(f)'
    BY <1>1, <1>2, <1>4 DEF SocketInv, Counted
  <2>5. Leaving(f)'
    BY <1>1, <1>2, <1>4 DEF SocketInv, Leaving
  <2>6. Hushed(f)'
    BY <1>1, <1>2, <1>4 DEF SocketInv, Hushed, Forgets
  <2>7. Keys(f)'
    BY <1>1, <1>2, <1>4 DEF SocketInv, Keys, Awaited
  <2>8. Shaking(f)'
    BY <1>1, <1>2, <1>4 DEF SocketInv, Shaking, InFlight, Alone, Silent
  <2> QED
    BY <2>1, <2>2, <2>3, <2>4, <2>5, <2>6, <2>7, <2>8 DEF SocketInv
<1> QED
  BY <1>5, <1>6, <1>7, <1>8, <1>9, Assemble

\* CMD.forward of a connection that the gate has; its socket is started.
LEMMA GateForwardsKeeps ==
  ASSUME SessionInv, NEW f \in Fd, connection[f] # "nil", GateForward(f)
  PROVE  SessionInv'
<1>1. TypeInv /\ CountInv /\ LoopInv /\ SocketInv(f)
  BY DEF SessionInv
<1>2. /\ Tail(gate_in) \in Queue(GateTypes) /\ Removed(gate_in, Tail(gate_in), "forward", Head(gate_in).body, f)
      /\ \A g \in Fd : g # f => Alike(gate_in, Tail(gate_in), g)
      /\ Has(gate_in, "forward", f)
  BY <1>1, GateTakes DEF GateForward
<1>3. /\ connection' = [connection EXCEPT ![f] = "agent"] /\ wd_in' = Append(wd_in, Msg("opened", f))
      /\ \/ gate_in' = Tail(gate_in) /\ sock' = sock
         \/ /\ gate_in' = Tail(gate_in) /\ sock[f] = "accepted" /\ sock' = [sock EXCEPT ![f] = "open"]
         \/ /\ gate_in' = Append(Tail(gate_in), Msg("close", f))
            /\ sock[f] \in {"accepted", "closed"} /\ sock' = [sock EXCEPT ![f] = "closed"]
      /\ UNCHANGED <<client, c2s, s2c, gs, watchdog, agent_in, ag, apps>>
  <2>1. CASE gs.connection[f] = "true"
    <3>1. sock \in [Fd -> {"none", "accepted", "open", "half", "closed"}]
      BY <1>1 DEF TypeInv, NetType
    <3> QED
      BY <2>1, <3>1 DEF GateForward, StartSocket
  <2>2. CASE gs.connection[f] # "true"
    BY <2>2 DEF GateForward
  <2> QED
    BY <2>1, <2>2
<1>4. ag[f].st \notin {"none", "new"} /\ sock[f] # "none"
  <2>1. ag[f].st # "none" /\ sock[f] # "none" /\ ~Has(agent_in[f], "start", f)
    BY <1>1, <1>2 DEF SocketInv, Unborn, Born, Opening
  <2> QED
    BY <1>1, <2>1, HeadHas DEF SocketInv, Born
<1>5. /\ wd_in' \in Queue(WdTypes) /\ Added(wd_in, wd_in', "opened", Nobody, f)
      /\ \A g \in Fd : g # f => Alike(wd_in, wd_in', g)
  BY <1>1, <1>3, PutMsg, TypesOf DEF TypeInv, WdType, Watch
<1>6. /\ gate_in' \in Queue(GateTypes) /\ \A g \in Fd : g # f => Alike(gate_in, gate_in', g)
      /\ \/ /\ gate_in' = Tail(gate_in)
            /\ sock'[f] = sock[f] \/ (sock[f] = "accepted" /\ sock'[f] = "open")
         \/ /\ Added(Tail(gate_in), gate_in', "close", Nobody, f)
            /\ sock[f] \in {"accepted", "closed"} /\ sock'[f] = "closed"
  <2>1. sock \in [Fd -> {"none", "accepted", "open", "half", "closed"}]
    BY <1>1 DEF TypeInv, NetType
  <2>2. CASE gate_in' = Tail(gate_in)
    BY <1>2, <1>3, <2>1, <2>2
  <2>3. CASE gate_in' = Append(Tail(gate_in), Msg("close", f))
    <3>1. /\ gate_in' \in Queue(GateTypes) /\ Added(Tail(gate_in), gate_in', "close", Nobody, f)
          /\ \A g \in Fd : g # f => Alike(Tail(gate_in), gate_in', g)
      BY <1>2, <2>3, PutMsg, TypesOf
    <3>2. \A g \in Fd : g # f => Alike(gate_in, gate_in', g)
      BY <1>2, <3>1, AlikeBoth
    <3> QED
      BY <1>2, <1>3, <2>1, <2>3, <3>1, <3>2
  <2> QED
    BY <1>3, <2>2, <2>3
<1>7. /\ client'[f] = client[f] /\ c2s'[f] = c2s[f] /\ s2c'[f] = s2c[f] /\ gs'.connection[f] = gs.connection[f]
      /\ connection'[f] = "agent" /\ SameWd(f) /\ SameScript(f) /\ SameAgent(f)
  BY <1>1, <1>3 DEF watchdog, TypeInv, NetType, GateType, WdType, Watch, ScriptType, TablesType, AgentType, SameNet, SameGate, SameWd, SameScript, SameAgent, LoggingIn, script
<1>8. ASSUME NEW g \in Fd, g # f PROVE Same(g)
  BY <1>1, <1>3, <1>5, <1>6, <1>8 DEF watchdog, Same, TypeInv, NetType, GateType, WdType, Watch, ScriptType, TablesType, AgentType, SameNet, SameGate, SameWd, SameScript, SameAgent, LoggingIn, script
<1>9. TypeInv'
  <2>1. NetType'
    BY <1>1, <1>3 DEF TypeInv, NetType
  <2>2. GateType'
    BY <1>1, <1>3, <1>6 DEF TypeInv, GateType
  <2>3. WdType'
    BY <1>1, <1>3, <1>5 DEF watchdog, TypeInv, WdType, Watch, script
  <2>4. ScriptType'
    BY <1>1, <1>3 DEF watchdog, TypeInv, ScriptType, TablesType, script
  <2>5. AgentType'
    BY <1>1, <1>3 DEF TypeInv, AgentType
  <2> QED
    BY <2>1, <2>2, <2>3, <2>4, <2>5 DEF TypeInv
<1>10. CountInv'
  BY <1>1, <1>3 DEF CountInv
<1>11. LoopInv'
  BY <1>1, <1>3 DEF LoopInv, watchdog, script
<1>12. SocketInv(f)'
  <2> USE DEF SameNet, SameGate, SameWd, SameScript, SameAgent, Alike, Added, Removed, script
  <2>1. Unborn(f)'
    BY <1>1, <1>2, <1>4, <1>5, <1>6, <1>7 DEF SocketInv, Unborn
  <2>2. Born(f)'
    BY <1>1, <1>2, <1>4, <1>5, <1>6, <1>7 DEF SocketInv, Born
  <2>3. Opening(f)'
    BY <1>1, <1>2, <1>4, <1>5, <1>6, <1>7 DEF SocketInv, Opening
  <2>4. Counted(f)'
    BY <1>1, <1>2, <1>4, <1>5, <1>6, <1>7 DEF SocketInv, Counted
  <2>5. Leaving(f)'
    BY <1>1, <1>2, <1>4, <1>5, <1>6, <1>7 DEF SocketInv, Leaving
  <2>6. Hushed(f)'
    BY <1>1, <1>2, <1>4, <1>5, <1>6, <1>7 DEF SocketInv, Hushed, Forgets
  <2>7. Keys(f)'
    BY <1>1, <1>2, <1>4, <1>5, <1>6, <1>7 DEF SocketInv, Keys, Awaited
  <2>8. Shaking(f)'
    <3>1. Fewer(gate_in, Tail(gate_in), f) /\ Fewer(Tail(gate_in), gate_in', f)
      BY <1>2, <1>6, FewerRest
    <3>2. Fewer(gate_in, gate_in', f) /\ Fewer(agent_in[f], agent_in'[f], f)
      BY <1>7, <3>1, FewerRest, FewerBoth
    <3> QED
      BY <1>1, <1>7, <3>2, ShakingOn DEF SocketInv
  <2> QED
    BY <2>1, <2>2, <2>3, <2>4, <2>5, <2>6, <2>7, <2>8 DEF SocketInv
<1> QED
  BY <1>8, <1>9, <1>10, <1>11, <1>12, Assemble

LEMMA GateKickKeeps ==
  ASSUME SessionInv, NEW f \in Fd, GateKick(f)
  PROVE  SessionInv'
<1>1. TypeInv /\ CountInv /\ LoopInv /\ SocketInv(f)
  BY DEF SessionInv
<1>2. /\ Tail(gate_in) \in Queue(GateTypes) /\ Removed(gate_in, Tail(gate_in), "kick", Head(gate_in).body, f)
      /\ \A g \in Fd : g # f => Alike(gate_in, Tail(gate_in), g)
      /\ Has(gate_in, "kick", f)
  BY <1>1, GateTakes DEF GateKick
<1>3. /\ wd_in' = Append(wd_in, Msg("kicked", f))
      /\ \/ /\ gs.connection[f] # "true" /\ gate_in' = Tail(gate_in) /\ UNCHANGED <<gs, sock, c2s>>
         \/ /\ gs.connection[f] = "true" /\ gs' = [gs EXCEPT !.connection[f] = "false"]
            /\ \/ /\ sock[f] = "closed" /\ gate_in' = Append(Tail(gate_in), Msg("close", f))
                  /\ UNCHANGED <<sock, c2s>>
               \/ /\ sock[f] # "closed" /\ gate_in' = Tail(gate_in)
                  /\ sock' = [sock EXCEPT ![f] = "half"] /\ c2s' = [c2s EXCEPT ![f] = <<>>]
      /\ UNCHANGED <<client, s2c, connection, watchdog, agent_in, ag, apps>>
  BY DEF GateKick, CloseSocket
<1>4. ag[f].st # "none" /\ sock[f] # "none"
  BY <1>1, <1>2 DEF SocketInv, Unborn, Born
<1>5. /\ wd_in' \in Queue(WdTypes) /\ Added(wd_in, wd_in', "kicked", Nobody, f)
      /\ \A g \in Fd : g # f => Alike(wd_in, wd_in', g)
  BY <1>1, <1>3, PutMsg, TypesOf DEF TypeInv, WdType, Watch
<1>6. /\ gate_in' \in Queue(GateTypes) /\ \A g \in Fd : g # f => Alike(gate_in, gate_in', g)
      /\ \/ /\ gs.connection[f] # "true" /\ gate_in' = Tail(gate_in) /\ SameNet(f)
            /\ gs'.connection[f] = gs.connection[f]
         \/ /\ gs.connection[f] = "true" /\ gs'.connection[f] = "false" /\ s2c'[f] = s2c[f]
            /\ client'[f] = client[f]
            /\ \/ /\ sock'[f] = "closed" /\ c2s'[f] = c2s[f] /\ sock[f] = "closed"
                  /\ Added(Tail(gate_in), gate_in', "close", Nobody, f)
               \/ /\ sock'[f] = "half" /\ c2s'[f] = <<>> /\ sock[f] # "closed"
                  /\ gate_in' = Tail(gate_in)
  <2>1. CASE gate_in' = Tail(gate_in)
    BY <1>1, <1>2, <1>3, <2>1 DEF TypeInv, NetType, GateType, SameNet
  <2>2. CASE gate_in' = Append(Tail(gate_in), Msg("close", f))
    <3>1. /\ gate_in' \in Queue(GateTypes) /\ Added(Tail(gate_in), gate_in', "close", Nobody, f)
          /\ \A g \in Fd : g # f => Alike(Tail(gate_in), gate_in', g)
      BY <1>2, <2>2, PutMsg, TypesOf
    <3>2. \A g \in Fd : g # f => Alike(gate_in, gate_in', g)
      BY <1>2, <3>1, AlikeBoth
    <3> QED
      BY <1>1, <1>2, <1>3, <2>2, <3>1, <3>2 DEF TypeInv, NetType, GateType, SameNet
  <2> QED
    BY <1>3, <2>1, <2>2
<1>7. connection'[f] = connection[f] /\ SameWd(f) /\ SameScript(f) /\ SameAgent(f)
  BY <1>3 DEF watchdog, SameNet, SameGate, SameWd, SameScript, SameAgent, LoggingIn, script
<1>8. ASSUME NEW g \in Fd, g # f PROVE Same(g)
  BY <1>1, <1>3, <1>5, <1>6, <1>8 DEF watchdog, Same, TypeInv, NetType, GateType, WdType, Watch, ScriptType, TablesType, AgentType, SameNet, SameGate, SameWd, SameScript, SameAgent, LoggingIn, script
<1>9. TypeInv'
  <2>1. NetType'
    <3>1. <<>> \in Seq({Hello, Second} \cup Asks)
      BY Single
    <3>2. c2s' \in [Fd -> Seq({Hello, Second} \cup Asks)]
      BY <1>1, <1>3, <3>1 DEF TypeInv, NetType
    <3> QED
      BY <1>1, <1>3, <3>2 DEF TypeInv, NetType
  <2>2. GateType'
    BY <1>1, <1>3, <1>6 DEF TypeInv, GateType
  <2>3. WdType'
    BY <1>1, <1>3, <1>5 DEF watchdog, TypeInv, WdType, Watch, script
  <2>4. ScriptType'
    BY <1>1, <1>3 DEF watchdog, TypeInv, ScriptType, TablesType, script
  <2>5. AgentType'
    BY <1>1, <1>3 DEF TypeInv, AgentType
  <2> QED
    BY <2>1, <2>2, <2>3, <2>4, <2>5 DEF TypeInv
<1>10. CountInv'
  <2>1. \A g \in Fd : gs'.connection[g] # "nil" <=> gs.connection[g] # "nil"
    BY <1>1, <1>3 DEF TypeInv, GateType
  <2>2. gs'.client_number = gs.client_number /\ gs'.maxclient = gs.maxclient
    BY <1>1, <1>3 DEF TypeInv, GateType
  <2>3. {g \in Fd : gs'.connection[g] # "nil"} = {g \in Fd : gs.connection[g] # "nil"}
    BY <2>1
  <2> QED
    BY <1>1, <2>2, <2>3 DEF CountInv
<1>11. LoopInv'
  BY <1>1, <1>3 DEF LoopInv, watchdog, script
<1>12. SocketInv(f)'
  <2> USE DEF SameNet, SameGate, SameWd, SameScript, SameAgent, Alike, Added, Removed, script
  <2>1. Unborn(f)'
    BY <1>1, <1>2, <1>4, <1>5, <1>6, <1>7 DEF SocketInv, Unborn
  <2>2. Born(f)'
    BY <1>1, <1>2, <1>4, <1>5, <1>6, <1>7 DEF SocketInv, Born
  <2>3. Opening(f)'
    BY <1>1, <1>2, <1>4, <1>5, <1>6, <1>7 DEF SocketInv, Opening
  <2>4. Counted(f)'
    <3>1. CASE gs.connection[f] # "true"
      BY <1>1, <1>2, <1>6, <1>7, <3>1 DEF SocketInv, Counted
    <3>2. CASE gs.connection[f] = "true" /\ sock[f] = "closed"
      BY <1>1, <1>2, <1>6, <1>7, <3>2 DEF SocketInv, Counted
    <3>3. CASE gs.connection[f] = "true" /\ sock[f] # "closed"
      BY <1>1, <1>2, <1>6, <1>7, <3>3 DEF SocketInv, Counted
    <3> QED
      BY <3>1, <3>2, <3>3
  <2>5. Leaving(f)'
    BY <1>1, <1>2, <1>4, <1>5, <1>6, <1>7 DEF SocketInv, Leaving
  <2>6. Hushed(f)'
    BY <1>1, <1>2, <1>4, <1>5, <1>6, <1>7 DEF SocketInv, Hushed, Forgets
  <2>7. Keys(f)'
    BY <1>1, <1>2, <1>4, <1>5, <1>6, <1>7 DEF SocketInv, Keys, Awaited
  <2>8. Shaking(f)'
    <3>1. Fewer(gate_in, Tail(gate_in), f) /\ Fewer(Tail(gate_in), gate_in', f)
      BY <1>2, <1>6, FewerRest
    <3>2. Fewer(gate_in, gate_in', f) /\ Fewer(agent_in[f], agent_in'[f], f)
      BY <1>7, <3>1, FewerRest, FewerBoth
    <3>3. /\ client'[f] = client[f] /\ ag'[f].obj = ag[f].obj
          /\ s2c'[f] = s2c[f] /\ (c2s'[f] = c2s[f] \/ c2s'[f] = <<>>)
      BY <1>6, <1>7
    <3> QED
      BY <1>1, <3>2, <3>3, ShakingOn DEF SocketInv
  <2> QED
    BY <2>1, <2>2, <2>3, <2>4, <2>5, <2>6, <2>7, <2>8 DEF SocketInv
<1> QED
  BY <1>8, <1>9, <1>10, <1>11, <1>12, Assemble

-----------------------------------------------------------------------------
(* The watchdog.                                                           *)

LEMMA WatchdogTakes ==
  ASSUME TypeInv, NEW f \in Fd, NEW a, WatchdogGets(a, f), wd_in' = Tail(wd_in)
  PROVE  /\ wd_in' \in Queue(WdTypes) /\ Head(wd_in).body \in Bodies
         /\ Removed(wd_in, wd_in', a, Head(wd_in).body, f)
         /\ \A g \in Fd : g # f => Alike(wd_in, wd_in', g)
         /\ Has(wd_in, a, f)
<1>1. wd_in \in Queue(WdTypes) /\ wd_in # <<>> /\ Head(wd_in).type = a /\ Head(wd_in).fd = f
  BY DEF TypeInv, WdType, Watch, WatchdogGets
<1>2. /\ wd_in' \in Queue(WdTypes) /\ Head(wd_in) \in [type : WdTypes, fd : Fd, body : Bodies]
      /\ Removed(wd_in, wd_in', a, Head(wd_in).body, f)
      /\ \A g \in Fd : g # f => Alike(wd_in, wd_in', g)
  BY <1>1, Take
<1>3. Head(wd_in).body \in Bodies
  BY <1>2
<1>4. Has(wd_in, a, f)
  BY <1>2 DEF Removed
<1> QED
  BY <1>2, <1>3, <1>4

\* A message that the watchdog sends to an agent.
LEMMA Sent ==
  ASSUME TypeInv, NEW f \in Fd, NEW t \in AgentTypes, agent_in' = ToAgent(agent_in, f, Msg(t, f))
  PROVE  /\ agent_in' \in [Fd -> Queue(AgentTypes)]
         /\ \A g \in Fd : \A n \in DOMAIN agent_in'[g] : agent_in'[g][n].fd = g
         /\ \A g \in Fd : g # f => agent_in'[g] = agent_in[g]
         /\ \/ ag[f].st = "exited" /\ agent_in'[f] = agent_in[f]
            \/ ag[f].st # "exited" /\ Added(agent_in[f], agent_in'[f], t, Nobody, f)
<1>1. CASE ag[f].st = "exited"
  BY <1>1 DEF ToAgent, TypeInv, AgentType
<1>2. CASE ag[f].st # "exited"
  <2> DEFINE x == Msg(t, f)
  <2>1. /\ x \in [type : AgentTypes, fd : Fd, body : Bodies] /\ x.fd = f /\ x.type = t /\ x.body = Nobody
        /\ agent_in' = [agent_in EXCEPT ![f] = Append(@, x)]
    BY <1>2, Payloads DEF Msg, ToAgent
  <2> HIDE DEF x
  <2>2. /\ agent_in' \in [Fd -> Queue(AgentTypes)]
        /\ \A g \in Fd : \A n \in DOMAIN agent_in'[g] : agent_in'[g][n].fd = g
        /\ Added(agent_in[f], agent_in'[f], x.type, x.body, f)
        /\ \A g \in Fd : g # f => agent_in'[g] = agent_in[g]
    BY <2>1, Delivered
  <2> QED
    BY <1>2, <2>1, <2>2
<1> QED
  BY <1>1, <1>2


LEMMA OpenKeeps ==
  ASSUME SessionInv, NEW f \in Fd, Open(f)
  PROVE  SessionInv'
<1>1. TypeInv /\ CountInv /\ LoopInv /\ SocketInv(f)
  BY DEF SessionInv
<1>2. /\ wd_in' \in Queue(WdTypes) /\ Removed(wd_in, wd_in', "open", Head(wd_in).body, f)
      /\ \A g \in Fd : g # f => Alike(wd_in, wd_in', g)
      /\ Has(wd_in, "open", f)
  BY <1>1, WatchdogTakes DEF Open
<1>3. ag[f].st = "none"
  BY <1>1, <1>2 DEF SocketInv, Born
<1>4. /\ SameNet(f) /\ SameGate(f) /\ SameScript(f) /\ SameAgent(f) /\ Alike(gate_in, gate_in', f)
      /\ wd'.open[f] = "launch" /\ wd'.kick[f] = wd.kick[f] /\ (f \in wd'.agent <=> f \in wd.agent)
      /\ (f \in lost' <=> f \in lost)
  BY <1>1, AlikeSame DEF Open, net, gate, TypeInv, WdType, Watch, SameNet, SameGate, SameWd, SameScript, SameAgent, LoggingIn, script
<1>5. ASSUME NEW g \in Fd, g # f PROVE Same(g)
  BY <1>1, <1>2, <1>5, AlikeSame DEF Open, net, gate, TypeInv, WdType, Watch, Same, SameNet, SameGate, SameWd, SameScript, SameAgent, LoggingIn, script
<1>6. TypeInv'
  <2>1. NetType'
    BY <1>1 DEF Open, net, gate, watchdog, TypeInv, NetType, script
  <2>2. GateType'
    BY <1>1 DEF Open, net, gate, watchdog, TypeInv, GateType, script
  <2>3. WdType'
    BY <1>1, <1>2 DEF Open, TypeInv, WdType, Watch
  <2>4. ScriptType'
    BY <1>1 DEF Open, net, gate, watchdog, TypeInv, ScriptType, TablesType, script
  <2>5. AgentType'
    BY <1>1 DEF Open, net, gate, watchdog, TypeInv, AgentType, script
  <2> QED
    BY <2>1, <2>2, <2>3, <2>4, <2>5 DEF TypeInv
<1>7. CountInv'
  BY <1>1 DEF CountInv, Open, gate
<1>8. LoopInv'
  BY <1>1 DEF Open, LoopInv, TypeInv, WdType, Watch
<1>9. SocketInv(f)'
  <2> USE DEF SameNet, SameGate, SameWd, SameScript, SameAgent, Alike, Added, Removed, script
  <2>1. Unborn(f)'
    BY <1>1, <1>2, <1>3, <1>4 DEF SocketInv, Unborn
  <2>2. Born(f)'
    BY <1>1, <1>2, <1>3, <1>4 DEF SocketInv, Born
  <2>3. Opening(f)'
    BY <1>1, <1>2, <1>3, <1>4 DEF SocketInv, Opening
  <2>4. Counted(f)'
    BY <1>1, <1>2, <1>3, <1>4 DEF SocketInv, Counted
  <2>5. Leaving(f)'
    BY <1>1, <1>2, <1>3, <1>4 DEF SocketInv, Leaving
  <2>6. Hushed(f)'
    BY <1>1, <1>2, <1>3, <1>4 DEF SocketInv, Hushed, Forgets
  <2>7. Keys(f)'
    BY <1>1, <1>2, <1>3, <1>4 DEF SocketInv, Keys, Awaited
  <2>8. Shaking(f)'
    BY <1>1, <1>2, <1>3, <1>4 DEF SocketInv, Shaking, InFlight, Alone, Silent
  <2> QED
    BY <2>1, <2>2, <2>3, <2>4, <2>5, <2>6, <2>7, <2>8 DEF SocketInv
<1> QED
  BY <1>5, <1>6, <1>7, <1>8, <1>9, Assemble

\* The launcher has started an agent.
LEMMA LaunchKeeps ==
  ASSUME SessionInv, NEW f \in Fd, ag' # ag, Launched(f)
  PROVE  SessionInv'
<1>1. TypeInv /\ CountInv /\ LoopInv /\ SocketInv(f)
  BY DEF SessionInv
<1>2. /\ wd.open[f] = "launch" /\ ag' = [ag EXCEPT ![f].st = "new"]
      /\ wd' = [wd EXCEPT !.open[f] = "start", !.agent = @ \cup {f}, !.grown = @ \/ wd.all = "loop"]
      /\ agent_in' = [agent_in EXCEPT ![f] = <<Msg("start", f)>>]
  BY DEF Launched
<1>3. ag[f].st = "none" /\ agent_in[f] = <<>>
  BY <1>1, <1>2 DEF SocketInv, Born, Unborn
<1>4. agent_in' = [agent_in EXCEPT ![f] = Append(@, Msg("start", f))]
  <2>1. Append(<<>>, Msg("start", f)) = <<Msg("start", f)>>
    OBVIOUS
  <2> QED
    BY <1>1, <1>2, <1>3, <2>1 DEF TypeInv, AgentType
<1>5. /\ agent_in' \in [Fd -> Queue(AgentTypes)]
      /\ \A g \in Fd : \A n \in DOMAIN agent_in'[g] : agent_in'[g][n].fd = g
      /\ \A g \in Fd : g # f => agent_in'[g] = agent_in[g]
      /\ Added(<<>>, agent_in'[f], "start", Nobody, f)
  <2>1. agent_in' = ToAgent(agent_in, f, Msg("start", f))
    BY <1>3, <1>4 DEF ToAgent
  <2> QED
    BY <1>1, <1>3, <2>1, Sent, TypesOf
<1>6. wd' \in Watch
  <2>1. (wd.grown \/ wd.all = "loop") \in BOOLEAN
    OBVIOUS
  <2> QED
    BY <1>1, <1>2, <2>1 DEF TypeInv, WdType, Watch
<1>7. /\ SameNet(f) /\ SameGate(f) /\ SameScript(f) /\ Alike(gate_in, gate_in', f) /\ Alike(wd_in, wd_in', f)
      /\ wd'.open[f] = "start" /\ wd'.kick[f] = wd.kick[f] /\ f \in wd'.agent
      /\ (f \in lost' <=> f \in lost) /\ ag'[f].st = "new" /\ ag'[f].obj = ag[f].obj
      /\ agent_in'[f] # <<>> /\ Head(agent_in'[f]).type = "start"
  BY <1>1, <1>2, AlikeSame DEF Launched, net, gate, TypeInv, WdType, Watch, AgentType, Msg, SameNet, SameGate, SameWd, SameScript, SameAgent, LoggingIn, script
<1>8. ASSUME NEW g \in Fd, g # f PROVE Same(g)
  BY <1>1, <1>2, <1>5, <1>8, AlikeSame DEF Launched, net, gate, TypeInv, WdType, Watch, AgentType, Same, SameNet, SameGate, SameWd, SameScript, SameAgent, LoggingIn, script
<1>9. TypeInv'
  <2>1. NetType'
    BY <1>1 DEF Launched, net, gate, watchdog, TypeInv, NetType, script
  <2>2. GateType'
    BY <1>1 DEF Launched, net, gate, watchdog, TypeInv, GateType, script
  <2>3. WdType'
    BY <1>1, <1>6 DEF Launched, TypeInv, WdType, Watch
  <2>4. ScriptType'
    BY <1>1 DEF Launched, net, gate, watchdog, TypeInv, ScriptType, TablesType, script
  <2>5. AgentType'
    BY <1>1, <1>2, <1>5 DEF Launched, TypeInv, AgentType
  <2> QED
    BY <2>1, <2>2, <2>3, <2>4, <2>5 DEF TypeInv
<1>10. CountInv'
  BY <1>1 DEF CountInv, Launched, gate
<1>11. LoopInv'
  BY <1>1, <1>2 DEF Launched, LoopInv, TypeInv, WdType, Watch
<1>12. SocketInv(f)'
  <2> USE DEF SameNet, SameGate, SameWd, SameScript, SameAgent, Alike, Added, Removed, script
  <2>1. Unborn(f)'
    BY <1>1, <1>3, <1>5, <1>7 DEF SocketInv, Unborn
  <2>2. Born(f)'
    <3>1. /\ sock[f] # "none" /\ ~Has(gate_in, "open", f) /\ ~Has(wd_in, "open", f)
          /\ ~Has(wd_in, "close", f) /\ connection[f] # "agent"
      BY <1>1, <1>2, <1>3 DEF SocketInv, Unborn, TypeInv, NetType
    <3>2. ~Has(agent_in'[f], "data", f)
      BY <1>5, EmptyQueue
    <3> QED
      BY <1>7, <3>1, <3>2 DEF Born
  <2>3. Opening(f)'
    <3>1. /\ ~Has(wd_in, "started", f) /\ ~Has(gate_in, "forward", f) /\ ~Has(wd_in, "opened", f)
      BY <1>1, <1>3 DEF SocketInv, Unborn
    <3>2. /\ ~Has(agent_in'[f], "opened", f) /\ Once(agent_in'[f], "start", f)
          /\ Once(agent_in'[f], "opened", f)
      <4>1. \A a : ~Has(<<>>, a, f) /\ Once(<<>>, a, f)
        BY EmptyQueue
      <4> HIDE DEF Alike, Removed
      <4> QED
        BY <1>5, <4>1
    <3> QED
      BY <1>1, <1>7, <3>1, <3>2 DEF SocketInv, Opening
  <2>4. Counted(f)'
    BY <1>1, <1>3, <1>5, <1>7 DEF SocketInv, Counted
  <2>5. Leaving(f)'
    BY <1>1, <1>2, <1>3, <1>5, <1>7, EmptyQueue DEF SocketInv, Unborn, Leaving
  <2>6. Hushed(f)'
    BY <1>1, <1>3, <1>5, EmptyQueue, <1>7 DEF SocketInv, Hushed, Forgets
  <2>7. Keys(f)'
    BY <1>1, <1>2, <1>3, <1>5, <1>7, EmptyQueue DEF SocketInv, Unborn, Keys, Awaited
  <2>8. Shaking(f)'
    BY <1>1, <1>3, <1>5, EmptyQueue, <1>7 DEF SocketInv, Shaking, InFlight, Alone, Silent
  <2> QED
    BY <2>1, <2>2, <2>3, <2>4, <2>5, <2>6, <2>7, <2>8 DEF SocketInv
<1> QED
  BY <1>8, <1>9, <1>10, <1>11, <1>12, Assemble

\* The launcher could not start an agent.
LEMMA LaunchFailsKeeps ==
  ASSUME SessionInv, NEW f \in Fd, ag' = ag, Launched(f)
  PROVE  SessionInv'
<1>1. TypeInv /\ CountInv /\ LoopInv /\ SocketInv(f)
  BY DEF SessionInv
<1>2. /\ wd.open[f] = "launch" /\ ag[f].st = "none"
      /\ wd' = [wd EXCEPT !.open[f] = "no"] /\ agent_in' = agent_in
  <2>1. ag[f].st = "none"
    BY <1>1 DEF Launched, SocketInv, Born
  <2>2. [ag EXCEPT ![f].st = "new"] # ag
    BY <1>1, <2>1 DEF TypeInv, AgentType
  <2> QED
    BY <2>1, <2>2 DEF Launched
<1>3. /\ SameNet(f) /\ SameGate(f) /\ SameScript(f) /\ SameAgent(f) /\ Alike(gate_in, gate_in', f)
      /\ Alike(wd_in, wd_in', f)
      /\ wd'.open[f] = "no" /\ wd'.kick[f] = wd.kick[f] /\ (f \in wd'.agent <=> f \in wd.agent)
      /\ (f \in lost' <=> f \in lost)
  BY <1>1, <1>2, AlikeSame DEF Launched, net, gate, TypeInv, WdType, Watch, SameNet, SameGate, SameWd, SameScript, SameAgent, LoggingIn, script
<1>4. ASSUME NEW g \in Fd, g # f PROVE Same(g)
  BY <1>1, <1>2, <1>4, AlikeSame DEF Launched, net, gate, TypeInv, WdType, Watch, Same, SameNet, SameGate, SameWd, SameScript, SameAgent, LoggingIn, script
<1>5. TypeInv'
  <2>1. NetType'
    BY <1>1 DEF Launched, net, gate, watchdog, TypeInv, NetType, script
  <2>2. GateType'
    BY <1>1 DEF Launched, net, gate, watchdog, TypeInv, GateType, script
  <2>3. WdType'
    BY <1>1, <1>2 DEF Launched, TypeInv, WdType, Watch
  <2>4. ScriptType'
    BY <1>1 DEF Launched, net, gate, watchdog, TypeInv, ScriptType, TablesType, script
  <2>5. AgentType'
    BY <1>1, <1>2 DEF Launched, TypeInv, AgentType
  <2> QED
    BY <2>1, <2>2, <2>3, <2>4, <2>5 DEF TypeInv
<1>6. CountInv'
  BY <1>1 DEF CountInv, Launched, gate
<1>7. LoopInv'
  BY <1>1, <1>2 DEF Launched, LoopInv, TypeInv, WdType, Watch
<1>8. SocketInv(f)'
  <2> USE DEF SameNet, SameGate, SameWd, SameScript, SameAgent, Alike, Added, Removed, script
  <2>1. Unborn(f)'
    BY <1>1, <1>2, <1>3 DEF SocketInv, Unborn
  <2>2. Born(f)'
    BY <1>1, <1>2, <1>3 DEF SocketInv, Born
  <2>3. Opening(f)'
    BY <1>1, <1>2, <1>3 DEF SocketInv, Opening
  <2>4. Counted(f)'
    BY <1>1, <1>2, <1>3 DEF SocketInv, Counted
  <2>5. Leaving(f)'
    BY <1>1, <1>2, <1>3 DEF SocketInv, Leaving
  <2>6. Hushed(f)'
    BY <1>1, <1>2, <1>3 DEF SocketInv, Hushed, Forgets
  <2>7. Keys(f)'
    BY <1>1, <1>2, <1>3 DEF SocketInv, Keys, Awaited
  <2>8. Shaking(f)'
    BY <1>1, <1>2, <1>3 DEF SocketInv, Shaking, InFlight, Alone, Silent
  <2> QED
    BY <2>1, <2>2, <2>3, <2>4, <2>5, <2>6, <2>7, <2>8 DEF SocketInv
<1> QED
  BY <1>4, <1>5, <1>6, <1>7, <1>8, Assemble

LEMMA StartedKeeps ==
  ASSUME SessionInv, NEW f \in Fd, Started(f)
  PROVE  SessionInv'
<1>1. TypeInv /\ CountInv /\ LoopInv /\ SocketInv(f)
  BY DEF SessionInv
<1>2. /\ wd_in' \in Queue(WdTypes) /\ Removed(wd_in, wd_in', "started", Head(wd_in).body, f)
      /\ \A g \in Fd : g # f => Alike(wd_in, wd_in', g)
      /\ Has(wd_in, "started", f)
  BY <1>1, WatchdogTakes DEF Started
<1>3. /\ gate_in' \in Queue(GateTypes) /\ Added(gate_in, gate_in', "forward", Nobody, f)
      /\ \A g \in Fd : g # f => Alike(gate_in, gate_in', g)
  BY <1>1, PutMsg, TypesOf DEF Started, TypeInv, GateType
<1>4. ag[f].st # "none"
  BY <1>1, <1>2 DEF SocketInv, Unborn
<1>5. /\ SameNet(f) /\ SameGate(f) /\ SameScript(f) /\ SameAgent(f)
      /\ wd'.open[f] = "no" /\ wd'.kick[f] = wd.kick[f] /\ (f \in wd'.agent <=> f \in wd.agent)
      /\ (f \in lost' <=> f \in lost)
  BY <1>1 DEF Started, net, gate, TypeInv, WdType, Watch, SameNet, SameGate, SameWd, SameScript, SameAgent, LoggingIn, script
<1>6. ASSUME NEW g \in Fd, g # f PROVE Same(g)
  BY <1>1, <1>2, <1>3, <1>6 DEF Started, net, gate, TypeInv, WdType, Watch, Same, SameNet, SameGate, SameWd, SameScript, SameAgent, LoggingIn, script
<1>7. TypeInv'
  <2>1. NetType'
    BY <1>1 DEF Started, net, gate, watchdog, TypeInv, NetType, script
  <2>2. GateType'
    BY <1>1, <1>3 DEF Started, gate, TypeInv, GateType
  <2>3. WdType'
    BY <1>1, <1>2 DEF Started, TypeInv, WdType, Watch
  <2>4. ScriptType'
    BY <1>1 DEF Started, net, gate, watchdog, TypeInv, ScriptType, TablesType, script
  <2>5. AgentType'
    BY <1>1 DEF Started, net, gate, watchdog, TypeInv, AgentType, script
  <2> QED
    BY <2>1, <2>2, <2>3, <2>4, <2>5 DEF TypeInv
<1>8. CountInv'
  BY <1>1 DEF CountInv, Started, gate
<1>9. LoopInv'
  BY <1>1 DEF Started, LoopInv, TypeInv, WdType, Watch
<1>10. SocketInv(f)'
  <2> USE DEF SameNet, SameGate, SameWd, SameScript, SameAgent, Alike, Added, Removed, script
  <2>1. Unborn(f)'
    BY <1>1, <1>2, <1>3, <1>4, <1>5 DEF SocketInv, Unborn
  <2>2. Born(f)'
    BY <1>1, <1>2, <1>3, <1>4, <1>5 DEF SocketInv, Born
  <2>3. Opening(f)'
    BY <1>1, <1>2, <1>3, <1>4, <1>5 DEF SocketInv, Opening
  <2>4. Counted(f)'
    BY <1>1, <1>2, <1>3, <1>4, <1>5 DEF SocketInv, Counted
  <2>5. Leaving(f)'
    BY <1>1, <1>2, <1>3, <1>4, <1>5 DEF SocketInv, Leaving
  <2>6. Hushed(f)'
    BY <1>1, <1>2, <1>3, <1>4, <1>5 DEF SocketInv, Hushed, Forgets
  <2>7. Keys(f)'
    BY <1>1, <1>2, <1>3, <1>4, <1>5 DEF SocketInv, Keys, Awaited
  <2>8. Shaking(f)'
    BY <1>1, <1>2, <1>3, <1>4, <1>5 DEF SocketInv, Shaking, InFlight, Alone, Silent
  <2> QED
    BY <2>1, <2>2, <2>3, <2>4, <2>5, <2>6, <2>7, <2>8 DEF SocketInv
<1> QED
  BY <1>6, <1>7, <1>8, <1>9, <1>10, Assemble

LEMMA OpenedKeeps ==
  ASSUME SessionInv, NEW f \in Fd, Opened(f)
  PROVE  SessionInv'
<1>1. TypeInv /\ CountInv /\ LoopInv /\ SocketInv(f)
  BY DEF SessionInv
<1>2. /\ wd_in' \in Queue(WdTypes) /\ Removed(wd_in, wd_in', "opened", Head(wd_in).body, f)
      /\ \A g \in Fd : g # f => Alike(wd_in, wd_in', g)
      /\ Has(wd_in, "opened", f)
  BY <1>1, WatchdogTakes DEF Opened
<1>3. /\ agent_in' \in [Fd -> Queue(AgentTypes)]
      /\ \A g \in Fd : \A n \in DOMAIN agent_in'[g] : agent_in'[g][n].fd = g
      /\ \A g \in Fd : g # f => agent_in'[g] = agent_in[g]
      /\ \/ agent_in'[f] = agent_in[f]
         \/ ag[f].st # "exited" /\ Added(agent_in[f], agent_in'[f], "opened", Nobody, f)
  <2>1. CASE f \in wd.agent
    BY <1>1, <2>1, Sent, TypesOf DEF Opened
  <2>2. CASE f \notin wd.agent
    BY <1>1, <2>2 DEF Opened, TypeInv, AgentType
  <2> QED
    BY <2>1, <2>2
<1>4. ag[f].st \notin {"none", "new"}
  <2>1. ag[f].st # "none" /\ ~Has(agent_in[f], "start", f)
    BY <1>1, <1>2 DEF SocketInv, Unborn, Opening
  <2> QED
    BY <1>1, <2>1, HeadHas DEF SocketInv, Born
<1>5. SameNet(f) /\ SameGate(f) /\ SameWd(f) /\ SameScript(f) /\ ag'[f] = ag[f] /\ Alike(gate_in, gate_in', f)
  BY <1>1, AlikeSame DEF Opened, net, gate, watchdog, SameNet, SameGate, SameWd, SameScript, SameAgent, LoggingIn, script
<1>6. ASSUME NEW g \in Fd, g # f PROVE Same(g)
  BY <1>1, <1>2, <1>3, <1>6, AlikeSame DEF Opened, net, gate, watchdog, Same, SameNet, SameGate, SameWd, SameScript, SameAgent, LoggingIn, script
<1>7. TypeInv'
  <2>1. NetType'
    BY <1>1 DEF Opened, net, gate, watchdog, TypeInv, NetType, script
  <2>2. GateType'
    BY <1>1 DEF Opened, net, gate, watchdog, TypeInv, GateType, script
  <2>3. WdType'
    BY <1>1, <1>2 DEF Opened, watchdog, TypeInv, WdType, Watch, script
  <2>4. ScriptType'
    BY <1>1 DEF Opened, net, gate, watchdog, TypeInv, ScriptType, TablesType, script
  <2>5. AgentType'
    BY <1>1, <1>3 DEF Opened, TypeInv, AgentType
  <2> QED
    BY <2>1, <2>2, <2>3, <2>4, <2>5 DEF TypeInv
<1>8. CountInv'
  BY <1>1 DEF CountInv, Opened, gate
<1>9. LoopInv'
  BY <1>1 DEF LoopInv, Opened, watchdog, script
<1>10. SocketInv(f)'
  <2> USE DEF SameNet, SameGate, SameWd, SameScript, SameAgent, Alike, Added, Removed, script
  <2>1. Unborn(f)'
    BY <1>1, <1>2, <1>3, <1>4, <1>5 DEF SocketInv, Unborn
  <2>2. Born(f)'
    BY <1>1, <1>2, <1>3, <1>4, <1>5 DEF SocketInv, Born
  <2>3. Opening(f)'
    BY <1>1, <1>2, <1>3, <1>4, <1>5 DEF SocketInv, Opening
  <2>4. Counted(f)'
    BY <1>1, <1>2, <1>3, <1>4, <1>5 DEF SocketInv, Counted
  <2>5. Leaving(f)'
    BY <1>1, <1>2, <1>3, <1>4, <1>5 DEF SocketInv, Leaving
  <2>6. Hushed(f)'
    BY <1>1, <1>2, <1>3, <1>4, <1>5 DEF SocketInv, Hushed, Forgets
  <2>7. Keys(f)'
    BY <1>1, <1>2, <1>3, <1>4, <1>5 DEF SocketInv, Keys, Awaited
  <2>8. Shaking(f)'
    BY <1>1, <1>2, <1>3, <1>4, <1>5 DEF SocketInv, Shaking, InFlight, Alone, Silent
  <2> QED
    BY <2>1, <2>2, <2>3, <2>4, <2>5, <2>6, <2>7, <2>8 DEF SocketInv
<1> QED
  BY <1>6, <1>7, <1>8, <1>9, <1>10, Assemble


\* What close_agent does to the socket g.
Kicking(g) ==
    /\ SameNet(g) /\ SameGate(g) /\ SameAgent(g)
    /\ g \in wd.agent /\ g \notin wd'.agent /\ wd'.kick[g] \in {"close", "all"}
    /\ wd'.open[g] = wd.open[g] /\ (g \in lost' <=> g \in lost)
    /\ Added(gate_in, gate_in', "kick", Nobody, g)
    /\ Alike(wd_in, wd_in', g) \/ \E c : Removed(wd_in, wd_in', "close", c, g)
    /\ LoggingIn(g)' <=> LoggingIn(g)

LEMMA KickingInv ==
  ASSUME NEW g, SocketInv(g), Kicking(g)
  PROVE  SocketInv(g)'
<1> USE DEF Kicking, SameNet, SameGate, SameAgent, Added, Alike, Removed
<1>1. ag[g].st \in {"new", "up"} /\ ~Has(gate_in, "kick", g) /\ ~Has(wd_in, "kicked", g)
  BY DEF SocketInv, Leaving
<1>2. Unborn(g)'
  BY <1>1 DEF SocketInv, Unborn
<1>3. Born(g)'
  BY <1>1 DEF SocketInv, Born
<1>4. Opening(g)'
  BY <1>1 DEF SocketInv, Opening
<1>5. Counted(g)'
  BY <1>1 DEF SocketInv, Counted
<1>6. Leaving(g)'
  BY <1>1 DEF SocketInv, Leaving
<1>7. Hushed(g)'
  BY <1>1 DEF SocketInv, Hushed, Leaving, Forgets
<1>8. Keys(g)'
  BY <1>1 DEF SocketInv, Keys, Awaited
<1>9. Shaking(g)'
  BY FewerRest, ShakingOn DEF SocketInv
<1> QED
  BY <1>2, <1>3, <1>4, <1>5, <1>6, <1>7, <1>8, <1>9 DEF SocketInv

\* What the end of closeSocket does to an agent that it has not visited.
Dropping(g) ==
    /\ SameNet(g) /\ SameGate(g) /\ SameScript(g) /\ SameAgent(g)
    /\ g \in wd.agent /\ g \notin wd'.agent /\ g \in lost'
    /\ wd'.open[g] = wd.open[g] /\ wd'.kick[g] = wd.kick[g]
    /\ Alike(gate_in, gate_in', g) /\ Alike(wd_in, wd_in', g)

LEMMA DroppingInv ==
  ASSUME NEW g, SocketInv(g), Dropping(g)
  PROVE  SocketInv(g)'
<1> USE DEF Dropping, SameNet, SameGate, SameScript, SameAgent, Alike, script
<1>1. ag[g].st \in {"new", "up"} /\ wd.kick[g] = "no"
  BY DEF SocketInv, Leaving
<1>2. Unborn(g)'
  BY <1>1 DEF SocketInv, Unborn
<1>3. Born(g)'
  BY <1>1 DEF SocketInv, Born
<1>4. Opening(g)'
  BY <1>1 DEF SocketInv, Opening
<1>5. Counted(g)'
  BY <1>1 DEF SocketInv, Counted
<1>6. Leaving(g)'
  BY <1>1 DEF SocketInv, Leaving
<1>7. Hushed(g)'
  BY <1>1 DEF SocketInv, Hushed, Leaving, Forgets
<1>8. Keys(g)'
  BY <1>1 DEF SocketInv, Keys, Awaited
<1>9. Shaking(g)'
  BY FewerRest, ShakingOn DEF SocketInv
<1> QED
  BY <1>2, <1>3, <1>4, <1>5, <1>6, <1>7, <1>8, <1>9 DEF SocketInv

\* The tables of the script and of the broadcast change at most for socket f.
Elsewhere(f) ==
    \A g \in Fd : g # f =>
        /\ user'.toUser[g] = user.toUser[g] /\ bc_in'[g] = bc_in[g]
        /\ bc'.fdMap[g] = bc.fdMap[g] /\ (g \in bc'.agentTab <=> g \in bc.agentTab)

\* The tables of the script after a logout and after a login.
LEMMA LogsOut ==
  ASSUME NEW t \in Tables, NEW f \in Fd
  PROVE  /\ onLogoutUser(t, f) \in Tables
         /\ onLogoutUser(t, f).toUser = [t.toUser EXCEPT ![f] = Nobody]
         /\ \A u \in User : onLogoutUser(t, f).toFd[u] = IF u = t.toUser[f] THEN Nobody ELSE t.toFd[u]
<1> DEFINE o == onLogoutUser(t, f)
           T == IF t.toUser[f] = Nobody THEN t.toFd ELSE [t.toFd EXCEPT ![t.toUser[f]] = Nobody]
<1>1. /\ T \in [User -> Fd \cup {Nobody}]
      /\ \A u \in User : T[u] = IF u = t.toUser[f] THEN Nobody ELSE t.toFd[u]
  BY SessionAssumption DEF Tables
<1>2. o = [t EXCEPT !.toFd = T, !.toUser[f] = Nobody]
  BY DEF onLogoutUser
<1> HIDE DEF o, T
<1>3. o \in Tables /\ o.toUser = [t.toUser EXCEPT ![f] = Nobody] /\ o.toFd = T
  BY <1>1, <1>2 DEF Tables
<1> QED
  BY <1>1, <1>3 DEF o

LEMMA LogsIn ==
  ASSUME NEW t \in Tables, NEW f \in Fd, NEW u \in User
  PROVE  /\ LoginTables(t, f, u) \in Tables /\ LoginEnds(t, f, u) \in Tables
         /\ LoginTables(t, f, u).toUser = [t.toUser EXCEPT ![f] = u]
         /\ LoginTables(t, f, u).toFd = [t.toFd EXCEPT ![u] = f]
         /\ LoginEnds(t, f, u).toUser = t.toUser /\ LoginEnds(t, f, u).toFd = t.toFd
  BY DEF LoginTables, LoginEnds, Tables

\* The same of the tables as they are.
LEMMA LogsUser ==
  ASSUME user \in Tables, NEW f \in Fd, NEW u \in User,
         \/ user' = user \/ user' = LoginTables(user, f, u) \/ user' = LoginEnds(user, f, u)
         \/ user' = LoginEnds(LoginTables(user, f, u), f, u)
  PROVE  /\ user' \in Tables
         /\ user'.toUser = user.toUser \/ user'.toUser = [user.toUser EXCEPT ![f] = u]
<1>1. ASSUME NEW t \in Tables
      PROVE  /\ LoginTables(t, f, u) \in Tables /\ LoginEnds(t, f, u) \in Tables
             /\ LoginTables(t, f, u).toUser = [t.toUser EXCEPT ![f] = u]
             /\ LoginEnds(t, f, u).toUser = t.toUser
  BY DEF LoginTables, LoginEnds, Tables
<1> DEFINE t == LoginTables(user, f, u)
<1>2. t \in Tables /\ t.toUser = [user.toUser EXCEPT ![f] = u]
  BY <1>1
<1>3. LoginEnds(user, f, u) \in Tables /\ LoginEnds(user, f, u).toUser = user.toUser
  BY <1>1
<1> HIDE DEF t
<1>4. LoginEnds(t, f, u) \in Tables /\ LoginEnds(t, f, u).toUser = t.toUser
  BY <1>1, <1>2
<1> QED
  BY <1>2, <1>3, <1>4 DEF t

\* What the script says to the broadcast.
LEMMA TellsMore ==
  ASSUME TablesType, NEW f \in Fd, NEW what \in News, what # <<>>, bc_in' = Tells(f, what)
  PROVE  /\ bc_in' \in [Fd -> News] /\ \A g \in Fd : g # f => bc_in'[g] = bc_in[g]
         /\ bc_in'[f] # <<>> /\ bc_in'[f][Len(bc_in'[f])] = what[Len(what)]
<1>1. bc_in[f] \in News /\ bc_in \in [Fd -> News]
  BY DEF TablesType
<1>2. bc_in' = [bc_in EXCEPT ![f] = bc_in[f] \o what]
  BY DEF Tells
<1> DEFINE q == bc_in[f] \o what
<1>3. q \in News /\ q # <<>> /\ q[Len(q)] = what[Len(what)]
  BY <1>1 DEF News
<1> HIDE DEF q
<1> QED
  BY <1>1, <1>2, <1>3 DEF q

LEMMA Disconnects ==
  ASSUME TablesType, NEW f \in Fd, notifyDisiconnected(f), UNCHANGED bc
  PROVE  TablesType' /\ Elsewhere(f) /\ user'.toUser[f] = Nobody /\ Forgets(f)'
<1>1. /\ user' \in Tables /\ user'.toUser = [user.toUser EXCEPT ![f] = Nobody]
      /\ user.toUser \in [Fd -> User \cup {Nobody}]
  BY LogsOut DEF notifyDisiconnected, TablesType, Tables
<1>2. /\ bc_in' \in [Fd -> News] /\ \A g \in Fd : g # f => bc_in'[g] = bc_in[g]
      /\ bc_in'[f] # <<>> /\ bc_in'[f][Len(bc_in'[f])] = "disconnect"
  <2>1. <<"disconnect">> \in News /\ <<"disconnect">> # <<>>
        /\ <<"disconnect">>[Len(<<"disconnect">>)] = "disconnect"
    BY DEF News
  <2> QED
    BY <2>1, TellsMore DEF notifyDisiconnected
<1> QED
  BY <1>1, <1>2 DEF TablesType, Elsewhere, Forgets, notifyDisiconnected

LEMMA Connects ==
  ASSUME TablesType, NEW f \in Fd, notifyConnected(f), UNCHANGED bc
  PROVE  TablesType' /\ Elsewhere(f)
<1> DEFINE what == <<IF f \in wd.agent THEN "agent" ELSE "noagent", "login">>
<1>1. what \in News /\ what # <<>>
  BY DEF News
<1>2. bc_in' = Tells(f, what)
  BY DEF notifyConnected
<1> HIDE DEF what
<1>3. bc_in' \in [Fd -> News] /\ \A g \in Fd : g # f => bc_in'[g] = bc_in[g]
  BY <1>1, <1>2, TellsMore
<1> QED
  BY <1>3 DEF TablesType, Elsewhere, notifyConnected

\* SOCKET.close and SOCKET.error.
LEMMA CloseKeeps ==
  ASSUME SessionInv, NEW f \in Fd, Close(f)
  PROVE  SessionInv'
<1>1. TypeInv /\ CountInv /\ LoopInv /\ SocketInv(f)
  BY DEF SessionInv
<1>2. /\ wd_in' \in Queue(WdTypes) /\ Removed(wd_in, wd_in', "close", Head(wd_in).body, f)
      /\ \A g \in Fd : g # f => Alike(wd_in, wd_in', g)
      /\ Has(wd_in, "close", f)
  BY <1>1, WatchdogTakes DEF Close
<1>3. UNCHANGED <<net, gate, bc, login, late, lost, agent_in, ag, apps>>
  BY DEF Close
<1>4. /\ SameNet(f) /\ SameGate(f) /\ SameAgent(f) /\ (f \in lost' <=> f \in lost)
      /\ (LoggingIn(f)' <=> LoggingIn(f))
  BY <1>3 DEF net, gate, SameNet, SameGate, SameAgent, LoggingIn
<1>5. CountInv' /\ NetType' /\ AgentType'
  BY <1>1, <1>3 DEF CountInv, net, gate, TypeInv, NetType, AgentType
<1>6. CASE f \in wd.agent
  <2>1. /\ wd' = [wd EXCEPT !.agent = @ \ {f}, !.kick[f] = "close"]
        /\ notifyDisiconnected(f) /\ gate_in' = Append(gate_in, Msg("kick", f))
    BY <1>6 DEF Close, close_agent
  <2>2. /\ gate_in' \in Queue(GateTypes) /\ Added(gate_in, gate_in', "kick", Nobody, f)
        /\ \A g \in Fd : g # f => Alike(gate_in, gate_in', g)
    BY <1>1, <2>1, PutMsg, TypesOf DEF TypeInv, GateType
  <2>3. TablesType' /\ Elsewhere(f)
    BY <1>1, <1>3, <2>1, Disconnects DEF TypeInv, ScriptType
  <2>4. Kicking(f)
    BY <1>1, <1>2, <1>4, <1>6, <2>1, <2>2 DEF Kicking, TypeInv, WdType, Watch
  <2>5. SocketInv(f)'
    BY <1>1, <2>4, KickingInv
  <2>6. ASSUME NEW g \in Fd, g # f PROVE Same(g)
    BY <1>1, <1>2, <1>3, <2>1, <2>2, <2>3, <2>6
    DEF net, gate, TypeInv, WdType, Watch, Elsewhere, Same, SameNet, SameGate, SameWd, SameScript, SameAgent, LoggingIn, script
  <2>7. TypeInv'
    BY <1>1, <1>2, <1>3, <1>5, <2>1, <2>2, <2>3 DEF gate, TypeInv, GateType, WdType, Watch, ScriptType, TablesType, script
  <2>8. LoopInv'
    BY <1>1, <1>3, <2>1 DEF LoopInv, TypeInv, WdType, Watch
  <2> QED
    BY <1>5, <2>5, <2>6, <2>7, <2>8, Assemble
<1>7. CASE f \notin wd.agent
  <2>1. UNCHANGED <<wd, script, gate_in>>
    BY <1>3, <1>7 DEF Close, script
  <2>2. ASSUME NEW g \in Fd, g # f PROVE Same(g)
    BY <1>2, <1>3, <2>1, <2>2, AlikeSame
    DEF net, gate, Same, SameNet, SameGate, SameWd, SameScript, SameAgent, LoggingIn, script
  <2>3. TypeInv'
    BY <1>1, <1>2, <1>3, <1>5, <2>1 DEF gate, TypeInv, GateType, WdType, Watch, ScriptType, TablesType, script
  <2>4. LoopInv'
    BY <1>1, <1>3, <2>1 DEF LoopInv
  <2>5. SocketInv(f)'
    <3>1. SameWd(f) /\ SameScript(f) /\ Alike(gate_in, gate_in', f)
      BY <1>3, <2>1, AlikeSame DEF SameWd, SameScript, LoggingIn, script
    <3> USE DEF SameNet, SameGate, SameWd, SameScript, SameAgent, Alike, Removed, script
    <3>2. Unborn(f)'
      BY <1>1, <1>2, <1>4, <3>1 DEF SocketInv, Unborn
    <3>3. Born(f)'
      BY <1>1, <1>2, <1>4, <3>1 DEF SocketInv, Born
    <3>4. Opening(f)'
      BY <1>1, <1>2, <1>4, <3>1 DEF SocketInv, Opening
    <3>5. Counted(f)'
      BY <1>1, <1>2, <1>4, <3>1 DEF SocketInv, Counted
    <3>6. Leaving(f)'
      BY <1>1, <1>2, <1>4, <1>7, <3>1 DEF SocketInv, Leaving
    <3>7. Hushed(f)'
      BY <1>1, <1>2, <1>4, <3>1 DEF SocketInv, Hushed, Forgets
    <3>8. Keys(f)'
      BY <1>1, <1>2, <1>4, <3>1 DEF SocketInv, Keys, Awaited
    <3>9. Shaking(f)'
      BY <1>1, <1>4, <3>1, FewerRest, ShakingOn DEF SocketInv
    <3> QED
      BY <3>2, <3>3, <3>4, <3>5, <3>6, <3>7, <3>8, <3>9 DEF SocketInv
  <2> QED
    BY <1>5, <2>2, <2>3, <2>4, <2>5, Assemble
<1> QED
  BY <1>6, <1>7

\* One turn of the loop of closeSocket, from table w.
LEMMA LoopStep ==
  ASSUME TypeInv, lost = {}, NEW w \in Watch, w.agent = wd.agent, NextAgent(w), UNCHANGED bc
  PROVE  /\ wd' \in Watch /\ gate_in' \in Queue(GateTypes) /\ TablesType' /\ lost' \subseteq Fd
         /\ wd'.open = w.open
         /\ \/ \E g \in wd.agent :
                  /\ wd'.agent = wd.agent \ {g} /\ wd'.kick = [w.kick EXCEPT ![g] = "all"]
                  /\ wd'.all = "loop" /\ lost' = lost /\ Elsewhere(g)
                  /\ Added(gate_in, gate_in', "kick", Nobody, g)
                  /\ \A h \in Fd : h # g => Alike(gate_in, gate_in', h)
            \/ /\ wd'.agent = {} /\ wd'.kick = w.kick /\ wd'.all = "done" /\ lost' = wd.agent
               /\ UNCHANGED <<script, gate_in>>
            \/ /\ wd'.agent = wd.agent /\ wd'.kick = w.kick /\ wd'.all = "done"
               /\ UNCHANGED <<script, gate_in, lost>>
<1>1. gate_in \in Queue(GateTypes) /\ TablesType /\ wd.agent \subseteq Fd
  BY DEF TypeInv, GateType, ScriptType, TablesType, WdType, Watch, script
<1>2. ASSUME NEW g \in w.agent, close_agent([w EXCEPT !.all = "loop"], g, "all"), UNCHANGED lost
      PROVE  /\ wd' \in Watch /\ gate_in' \in Queue(GateTypes) /\ TablesType' /\ wd'.open = w.open
             /\ wd'.agent = wd.agent \ {g} /\ wd'.kick = [w.kick EXCEPT ![g] = "all"]
             /\ wd'.all = "loop" /\ lost' = lost /\ Elsewhere(g)
             /\ Added(gate_in, gate_in', "kick", Nobody, g)
             /\ \A h \in Fd : h # g => Alike(gate_in, gate_in', h)
  <2>1. g \in Fd
    BY <1>1
  <2>2. /\ gate_in' \in Queue(GateTypes) /\ Added(gate_in, gate_in', "kick", Nobody, g)
        /\ \A h \in Fd : h # g => Alike(gate_in, gate_in', h)
    BY <1>1, <1>2, <2>1, PutMsg, TypesOf DEF close_agent
  <2>3. TablesType' /\ Elsewhere(g)
    BY <1>1, <1>2, <2>1, Disconnects DEF close_agent
  <2>4. wd' = [[w EXCEPT !.all = "loop"] EXCEPT !.agent = @ \ {g}, !.kick[g] = "all"]
    BY <1>2 DEF close_agent
  <2>5. /\ wd' \in Watch /\ wd'.open = w.open /\ wd'.agent = wd.agent \ {g}
        /\ wd'.kick = [w.kick EXCEPT ![g] = "all"] /\ wd'.all = "loop"
    BY <2>1, <2>4 DEF Watch
  <2> QED
    BY <1>2, <2>2, <2>3, <2>5
<1>3. ASSUME wd' = [w EXCEPT !.all = "done", !.agent = {}, !.left = {}, !.grown = FALSE],
             lost' = w.agent, UNCHANGED <<script, gate_in>>
      PROVE  /\ wd' \in Watch /\ wd'.open = w.open
             /\ wd'.agent = {} /\ wd'.kick = w.kick /\ wd'.all = "done" /\ lost' = wd.agent
  BY <1>1, <1>3 DEF Watch
<1>4. ASSUME wd' = [w EXCEPT !.all = "done", !.left = {}, !.grown = FALSE]
      PROVE  /\ wd' \in Watch /\ wd'.open = w.open
             /\ wd'.agent = wd.agent /\ wd'.kick = w.kick /\ wd'.all = "done"
  BY <1>4 DEF Watch
<1>5. CASE \E g \in w.agent : close_agent([w EXCEPT !.all = "loop"], g, "all") /\ UNCHANGED lost
  <2>1. PICK g \in w.agent : close_agent([w EXCEPT !.all = "loop"], g, "all") /\ UNCHANGED lost
    BY <1>5
  <2> HIDE DEF close_agent
  <2> QED
    BY <1>2, <2>1
<1>6. CASE /\ wd' = [w EXCEPT !.all = "done", !.agent = {}, !.left = {}, !.grown = FALSE]
           /\ lost' = w.agent /\ UNCHANGED <<script, gate_in>>
  BY <1>1, <1>3, <1>6 DEF script, TablesType
<1>7. CASE /\ wd' = [w EXCEPT !.all = "done", !.left = {}, !.grown = FALSE]
           /\ UNCHANGED <<script, gate_in, lost>>
  BY <1>1, <1>4, <1>7 DEF script, TablesType
<1> QED
  BY <1>5, <1>6, <1>7 DEF NextAgent, script

\* The sockets of which no message is handled in it.
LEMMA LoopRest ==
  ASSUME SessionInv, lost = {}, NEW w \in Watch, w.agent = wd.agent, w.open = wd.open, NextAgent(w),
         UNCHANGED <<net, gate, bc, login, late>>, NEW h \in Fd, w.kick[h] = wd.kick[h],
         SameAgent(h), Alike(wd_in, wd_in', h)
  PROVE  SocketInv(h)'
<1>1. TypeInv /\ SocketInv(h)
  BY DEF SessionInv
<1>2. SameNet(h) /\ SameGate(h) /\ (LoggingIn(h)' <=> LoggingIn(h)) /\ late' = late
  BY DEF net, gate, SameNet, SameGate, LoggingIn
<1>3. wd'.open[h] = wd.open[h]
  BY <1>1, LoopStep
<1>4. ASSUME NEW g \in wd.agent, wd'.agent = wd.agent \ {g}, wd'.kick = [w.kick EXCEPT ![g] = "all"],
             lost' = lost, Elsewhere(g), Added(gate_in, gate_in', "kick", Nobody, g),
             \A i \in Fd : i # g => Alike(gate_in, gate_in', i)
      PROVE  SocketInv(h)'
  <2>1. CASE h = g
    <3>1. Kicking(h)
      BY <1>2, <1>3, <1>4, <2>1 DEF Kicking, Watch
    <3> QED
      BY <1>1, <3>1, KickingInv
  <2>2. CASE h # g
    <3>1. Same(h)
      BY <1>2, <1>3, <1>4, <2>2 DEF Same, SameWd, SameScript, Elsewhere, Watch, script
    <3> QED
      BY <1>1, <3>1, SameInv
  <2> QED
    BY <2>1, <2>2
<1>5. ASSUME wd'.agent = {}, wd'.kick = w.kick, lost' = wd.agent, UNCHANGED <<script, gate_in>>
      PROVE  SocketInv(h)'
  <2>1. CASE h \in wd.agent
    <3>1. Dropping(h)
      BY <1>2, <1>3, <1>5, <2>1, AlikeSame DEF Dropping, SameScript, script
    <3> QED
      BY <1>1, <3>1, DroppingInv
  <2>2. CASE h \notin wd.agent
    <3>1. Same(h)
      BY <1>2, <1>3, <1>5, <2>2, AlikeSame DEF Same, SameWd, SameScript, script
    <3> QED
      BY <1>1, <3>1, SameInv
  <2> QED
    BY <2>1, <2>2
<1>6. ASSUME wd'.agent = wd.agent, wd'.kick = w.kick, UNCHANGED <<script, gate_in, lost>>
      PROVE  SocketInv(h)'
  <2>1. Same(h)
    BY <1>2, <1>3, <1>6, AlikeSame DEF Same, SameWd, SameScript, script
  <2> QED
    BY <1>1, <2>1, SameInv
<1> QED
  BY <1>1, <1>4, <1>5, <1>6, LoopStep

LEMMA LoopOn ==
  ASSUME TypeInv, lost = {}, NEW w \in Watch, w.agent = wd.agent, NextAgent(w), UNCHANGED bc,
         \A h \in Fd : w.kick[h] # "all"
  PROVE  LoopInv'
<1>1. wd.agent \subseteq Fd
  BY DEF TypeInv, WdType, Watch
<1>2. ASSUME NEW g \in wd.agent, wd'.kick = [w.kick EXCEPT ![g] = "all"], wd'.all = "loop", lost' = lost
      PROVE  LoopInv'
  BY <1>1, <1>2 DEF LoopInv, Watch
<1>3. ASSUME wd'.kick = w.kick, wd'.all = "done" PROVE LoopInv'
  BY <1>3 DEF LoopInv, Watch
<1> QED
  BY <1>2, <1>3, LoopStep

LEMMA CloseAllKeeps ==
  ASSUME SessionInv, CloseAll
  PROVE  SessionInv'
<1> DEFINE w == [wd EXCEPT !.left = wd.agent]
<1>1. TypeInv /\ CountInv /\ LoopInv
  BY DEF SessionInv
<1>2. /\ w \in Watch /\ w.agent = wd.agent /\ w.open = wd.open /\ w.kick = wd.kick
      /\ wd.all = "no" /\ NextAgent(w) /\ UNCHANGED <<net, gate, wd_in, bc, login, late, agent_in, ag, apps>>
  <2>1. NextAgent(w) /\ wd.all = "no" /\ UNCHANGED <<net, gate, wd_in, bc, login, late, agent_in, ag, apps>>
    BY DEF CloseAll
  <2>2. w \in Watch /\ w.agent = wd.agent /\ w.open = wd.open /\ w.kick = wd.kick
    BY <1>1 DEF TypeInv, WdType, Watch
  <2> QED
    BY <2>1, <2>2
<1> HIDE DEF w
<1>3. lost = {} /\ \A h \in Fd : w.kick[h] # "all"
  BY <1>1, <1>2 DEF LoopInv
<1>4. ASSUME NEW h \in Fd PROVE SocketInv(h)'
  <2>1. SameAgent(h) /\ Alike(wd_in, wd_in', h) /\ w.kick[h] = wd.kick[h] /\ UNCHANGED <<net, gate, bc, login, late>>
    BY <1>2, AlikeSame DEF SameAgent
  <2> QED
    BY <1>2, <1>3, <2>1, LoopRest
<1>5. LoopInv'
  BY <1>1, <1>2, <1>3, LoopOn
<1>6. CountInv'
  BY <1>1, <1>2 DEF CountInv, gate
<1>7. wd' \in Watch /\ gate_in' \in Queue(GateTypes) /\ TablesType' /\ lost' \subseteq Fd
  BY <1>1, <1>2, <1>3, LoopStep
<1>8. TypeInv'
  BY <1>1, <1>2, <1>7 DEF net, gate, TypeInv, NetType, GateType, WdType, ScriptType, TablesType, AgentType, script
<1> QED
  BY <1>4, <1>5, <1>6, <1>8 DEF SessionInv

LEMMA KickedKeeps ==
  ASSUME SessionInv, NEW f \in Fd, Kicked(f)
  PROVE  SessionInv'
<1>1. TypeInv /\ CountInv /\ LoopInv /\ SocketInv(f)
  BY DEF SessionInv
<1>2. /\ wd_in' \in Queue(WdTypes) /\ Removed(wd_in, wd_in', "kicked", Head(wd_in).body, f)
      /\ \A g \in Fd : g # f => Alike(wd_in, wd_in', g)
      /\ Has(wd_in, "kicked", f)
  BY <1>1, WatchdogTakes DEF Kicked
<1>3. ag[f].st \in {"new", "up"} /\ f \notin wd.agent /\ f \notin lost
  BY <1>1, <1>2 DEF SocketInv, Leaving
<1>4. /\ agent_in' \in [Fd -> Queue(AgentTypes)]
      /\ \A g \in Fd : \A n \in DOMAIN agent_in'[g] : agent_in'[g][n].fd = g
      /\ \A g \in Fd : g # f => agent_in'[g] = agent_in[g]
      /\ Added(agent_in[f], agent_in'[f], "disconnect", Nobody, f)
  BY <1>1, <1>3, Sent, TypesOf DEF Kicked
<1>5. UNCHANGED <<net, gate, bc, login, late, ag, apps>>
  BY DEF Kicked
<1>6. ASSUME wd'.kick[f] = "no", wd'.open[f] = wd.open[f], f \notin wd'.agent, f \notin lost',
             Alike(gate_in, gate_in', f)
      PROVE  SocketInv(f)'
  <2> USE DEF SameNet, SameGate, Alike, Added, Removed
  <2>1. /\ SameNet(f) /\ SameGate(f) /\ ag'[f] = ag[f] /\ (LoggingIn(f)' <=> LoggingIn(f))
        /\ agent_in'[f] # <<>> /\ (agent_in[f] # <<>> => Head(agent_in'[f]) = Head(agent_in[f]))
    <3>1. agent_in[f] \in Seq([type : AgentTypes, fd : Fd, body : Bodies])
      BY <1>1 DEF TypeInv, AgentType, Queue
    <3>2. agent_in'[f] = Append(agent_in[f], Msg("disconnect", f))
      BY <1>1, <1>3 DEF Kicked, ToAgent, TypeInv, AgentType
    <3>3. agent_in'[f] # <<>> /\ (agent_in[f] # <<>> => Head(agent_in'[f]) = Head(agent_in[f]))
      BY <3>1, <3>2
    <3> QED
      BY <1>5, <3>3 DEF net, gate, LoggingIn
  <2>2. Unborn(f)'
    BY <1>3, <2>1 DEF Unborn
  <2>3. Born(f)'
    BY <1>1, <1>2, <1>3, <1>4, <1>6, <2>1 DEF SocketInv, Born
  <2>4. Opening(f)'
    BY <1>1, <1>2, <1>4, <1>6, <2>1 DEF SocketInv, Opening
  <2>5. Counted(f)'
    BY <1>1, <1>6, <2>1 DEF SocketInv, Counted
  <2>6. Leaving(f)'
    BY <1>1, <1>2, <1>3, <1>4, <1>6, <2>1 DEF SocketInv, Leaving
  <2>7. Hushed(f)'
    BY <1>1, <1>2, <1>3, <1>4, <1>6, <2>1 DEF SocketInv, Hushed, Leaving, Forgets
  <2>8. Keys(f)'
    BY <1>1, <1>2, <1>3, <1>4, <1>6, <2>1 DEF SocketInv, Keys, Awaited
  <2>9. Shaking(f)'
    BY <1>1, <1>4, <1>6, <2>1, FewerRest, ShakingOn DEF SocketInv
  <2> QED
    BY <2>2, <2>3, <2>4, <2>5, <2>6, <2>7, <2>8, <2>9 DEF SocketInv
<1>7. CountInv' /\ NetType' /\ AgentType'
  BY <1>1, <1>4, <1>5 DEF CountInv, net, gate, TypeInv, NetType, AgentType
<1>8. CASE wd.kick[f] = "close"
  <2>1. wd' = [wd EXCEPT !.kick[f] = "no"] /\ UNCHANGED <<script, gate_in, lost>>
    BY <1>5, <1>8 DEF Kicked, script
  <2>2. SocketInv(f)'
    BY <1>1, <1>3, <1>6, <2>1, AlikeSame DEF TypeInv, WdType, Watch
  <2>3. ASSUME NEW g \in Fd, g # f PROVE Same(g)
    BY <1>1, <1>2, <1>4, <1>5, <2>1, <2>3, AlikeSame
    DEF net, gate, TypeInv, WdType, Watch, Same, SameNet, SameGate, SameWd, SameScript, SameAgent, LoggingIn, script
  <2>4. TypeInv'
    BY <1>1, <1>2, <1>5, <1>7, <2>1 DEF gate, TypeInv, GateType, WdType, Watch, ScriptType, TablesType, script
  <2>5. LoopInv'
    BY <1>1, <2>1 DEF LoopInv, TypeInv, WdType, Watch
  <2> QED
    BY <1>7, <2>2, <2>3, <2>4, <2>5, Assemble
<1>9. CASE wd.kick[f] = "all"
  <2> DEFINE w == [wd EXCEPT !.kick[f] = "no"]
  <2>1. NextAgent(w)
    BY <1>9 DEF Kicked
  <2>2. /\ w \in Watch /\ w.agent = wd.agent /\ w.open = wd.open /\ w.kick[f] = "no"
        /\ \A h \in Fd : h # f => w.kick[h] = wd.kick[h]
    BY <1>1 DEF TypeInv, WdType, Watch
  <2> HIDE DEF w
  <2>3. lost = {} /\ \A h \in Fd : w.kick[h] # "all"
    BY <1>1, <1>9, <2>2 DEF LoopInv
  <2>4. SocketInv(f)'
    <3>1. /\ wd'.open = w.open
          /\ \/ \E g \in wd.agent :
                   /\ wd'.agent = wd.agent \ {g} /\ wd'.kick = [w.kick EXCEPT ![g] = "all"]
                   /\ lost' = lost /\ \A h \in Fd : h # g => Alike(gate_in, gate_in', h)
             \/ /\ wd'.agent = {} /\ wd'.kick = w.kick /\ lost' = wd.agent /\ gate_in' = gate_in
             \/ /\ wd'.agent = wd.agent /\ wd'.kick = w.kick /\ lost' = lost /\ gate_in' = gate_in
      BY <1>1, <1>5, <2>1, <2>2, <2>3, LoopStep DEF script
    <3>2. /\ wd'.kick[f] = "no" /\ f \notin wd'.agent /\ f \notin lost' /\ wd'.open[f] = wd.open[f]
          /\ Alike(gate_in, gate_in', f)
      BY <1>3, <2>2, <3>1, AlikeSame DEF Watch
    <3> QED
      BY <1>6, <3>2
  <2>5. ASSUME NEW h \in Fd, h # f PROVE SocketInv(h)'
    <3>1. SameAgent(h) /\ Alike(wd_in, wd_in', h) /\ w.kick[h] = wd.kick[h] /\ UNCHANGED <<net, gate, bc, login, late>>
      BY <1>2, <1>4, <1>5, <2>2, <2>5 DEF SameAgent
    <3> QED
      BY <2>1, <2>2, <2>3, <3>1, LoopRest
  <2>6. LoopInv'
    BY <1>1, <1>5, <2>1, <2>2, <2>3, LoopOn
  <2>7. wd' \in Watch /\ gate_in' \in Queue(GateTypes) /\ TablesType' /\ lost' \subseteq Fd
    BY <1>1, <1>5, <2>1, <2>2, <2>3, LoopStep
  <2>8. TypeInv'
    BY <1>1, <1>2, <1>5, <1>7, <2>7 DEF gate, TypeInv, GateType, WdType, ScriptType, TablesType, script
  <2> QED
    BY <1>7, <2>4, <2>5, <2>6, <2>8 DEF SessionInv
<1> QED
  BY <1>8, <1>9 DEF Kicked

LEMMA ConnectedKeeps ==
  ASSUME SessionInv, NEW f \in Fd, Connected(f)
  PROVE  SessionInv'
<1>1. TypeInv /\ CountInv /\ LoopInv /\ SocketInv(f)
  BY DEF SessionInv
<1>2. /\ wd_in' \in Queue(WdTypes) /\ Removed(wd_in, wd_in', "connected", Head(wd_in).body, f)
      /\ \A g \in Fd : g # f => Alike(wd_in, wd_in', g)
      /\ Has(wd_in, "connected", f)
  BY <1>1, WatchdogTakes DEF Connected
<1>3. TablesType' /\ Elsewhere(f)
  BY <1>1, Connects DEF Connected, TypeInv, ScriptType
<1>4. /\ SameNet(f) /\ SameGate(f) /\ SameWd(f) /\ SameAgent(f) /\ Alike(gate_in, gate_in', f)
      /\ (LoggingIn(f)' <=> LoggingIn(f)) /\ late' = late
  BY <1>1, AlikeSame DEF Connected, net, gate, SameNet, SameGate, SameWd, SameScript, SameAgent, LoggingIn, script
<1>5. ASSUME NEW g \in Fd, g # f PROVE Same(g)
  BY <1>1, <1>2, <1>3, <1>5, AlikeSame DEF Connected, net, gate, Elsewhere, Same, SameNet, SameGate, SameWd, SameScript, SameAgent, LoggingIn, script
<1>6. TypeInv'
  <2>1. NetType'
    BY <1>1 DEF Connected, net, gate, watchdog, TypeInv, NetType, script
  <2>2. GateType'
    BY <1>1 DEF Connected, net, gate, watchdog, TypeInv, GateType, script
  <2>3. WdType'
    BY <1>1, <1>2 DEF Connected, TypeInv, WdType
  <2>4. ScriptType'
    BY <1>1, <1>3 DEF Connected, TypeInv, ScriptType, TablesType, script
  <2>5. AgentType'
    BY <1>1 DEF Connected, net, gate, watchdog, TypeInv, AgentType, script
  <2> QED
    BY <2>1, <2>2, <2>3, <2>4, <2>5 DEF TypeInv
<1>7. CountInv'
  BY <1>1 DEF CountInv, Connected, gate
<1>8. LoopInv'
  BY <1>1 DEF LoopInv, Connected, watchdog, script
<1>9. SocketInv(f)'
  <2> USE DEF SameNet, SameGate, SameWd, SameScript, SameAgent, Alike, Added, Removed, script
  <2>1. Unborn(f)'
    BY <1>1, <1>2, <1>4 DEF SocketInv, Unborn
  <2>2. Born(f)'
    BY <1>1, <1>2, <1>4 DEF SocketInv, Born
  <2>3. Opening(f)'
    BY <1>1, <1>2, <1>4 DEF SocketInv, Opening
  <2>4. Counted(f)'
    BY <1>1, <1>2, <1>4 DEF SocketInv, Counted
  <2>5. Leaving(f)'
    BY <1>1, <1>2, <1>4 DEF SocketInv, Leaving
  <2>6. Hushed(f)'
    BY <1>1, <1>2, <1>4 DEF SocketInv, Hushed, Forgets
  <2>7. Keys(f)'
    BY <1>1, <1>2, <1>4 DEF SocketInv, Keys, Awaited
  <2>8. Shaking(f)'
    BY <1>1, <1>2, <1>4 DEF SocketInv, Shaking, InFlight, Alone, Silent
  <2> QED
    BY <2>1, <2>2, <2>3, <2>4, <2>5, <2>6, <2>7, <2>8 DEF SocketInv
<1> QED
  BY <1>5, <1>6, <1>7, <1>8, <1>9, Assemble

LEMMA DisconnectedKeeps ==
  ASSUME SessionInv, NEW f \in Fd, Disconnected(f)
  PROVE  SessionInv'
<1>1. TypeInv /\ CountInv /\ LoopInv /\ SocketInv(f)
  BY DEF SessionInv
<1>2. /\ wd_in' \in Queue(WdTypes) /\ Removed(wd_in, wd_in', "disconnected", Head(wd_in).body, f)
      /\ \A g \in Fd : g # f => Alike(wd_in, wd_in', g)
      /\ Has(wd_in, "disconnected", f)
  BY <1>1, WatchdogTakes DEF Disconnected
<1>3. ag[f].st = "leaving"
  BY <1>1, <1>2 DEF SocketInv, Leaving
<1>4. /\ TablesType' /\ Elsewhere(f)
      /\ user'.toUser[f] = Nobody /\ Forgets(f)'
  BY <1>1, Disconnects DEF Disconnected, TypeInv, ScriptType
<1>5. /\ agent_in' \in [Fd -> Queue(AgentTypes)]
      /\ \A g \in Fd : \A n \in DOMAIN agent_in'[g] : agent_in'[g][n].fd = g
      /\ \A g \in Fd : g # f => agent_in'[g] = agent_in[g]
      /\ Added(agent_in[f], agent_in'[f], "answer", Nobody, f)
  BY <1>1, <1>3, Sent, TypesOf DEF Disconnected
<1>6. /\ SameNet(f) /\ SameGate(f) /\ SameWd(f) /\ ag'[f] = ag[f] /\ Alike(gate_in, gate_in', f)
      /\ (LoggingIn(f)' <=> LoggingIn(f)) /\ (LoggingIn(f) => f \in late')
      /\ late' \subseteq Fd /\ \A g \in Fd : g # f => (g \in late' <=> g \in late)
  BY <1>1, AlikeSame DEF Disconnected, net, gate, TypeInv, WdType, SameNet, SameGate, SameWd, SameScript, SameAgent, LoggingIn, script
<1>7. ASSUME NEW g \in Fd, g # f PROVE Same(g)
  BY <1>1, <1>2, <1>4, <1>5, <1>6, <1>7, AlikeSame DEF Disconnected, net, gate, Elsewhere, Same, SameNet, SameGate, SameWd, SameScript, SameAgent, LoggingIn, script
<1>8. TypeInv'
  <2>1. NetType'
    BY <1>1 DEF Disconnected, net, gate, watchdog, TypeInv, NetType, script
  <2>2. GateType'
    BY <1>1 DEF Disconnected, net, gate, watchdog, TypeInv, GateType, script
  <2>3. WdType'
    BY <1>1, <1>2, <1>6 DEF Disconnected, TypeInv, WdType
  <2>4. ScriptType'
    BY <1>1, <1>4 DEF Disconnected, TypeInv, ScriptType, TablesType, script
  <2>5. AgentType'
    BY <1>1, <1>5 DEF Disconnected, TypeInv, AgentType
  <2> QED
    BY <2>1, <2>2, <2>3, <2>4, <2>5 DEF TypeInv
<1>9. CountInv'
  BY <1>1 DEF CountInv, Disconnected, gate
<1>10. LoopInv'
  BY <1>1 DEF Disconnected, LoopInv
<1>11. SocketInv(f)'
  <2> USE DEF SameNet, SameGate, SameWd, SameScript, SameAgent, Alike, Added, Removed, script
  <2>1. Unborn(f)'
    BY <1>1, <1>2, <1>3, <1>4, <1>5, <1>6 DEF SocketInv, Unborn
  <2>2. Born(f)'
    BY <1>1, <1>2, <1>3, <1>4, <1>5, <1>6 DEF SocketInv, Born
  <2>3. Opening(f)'
    BY <1>1, <1>2, <1>3, <1>4, <1>5, <1>6 DEF SocketInv, Opening
  <2>4. Counted(f)'
    BY <1>1, <1>2, <1>3, <1>4, <1>5, <1>6 DEF SocketInv, Counted
  <2>5. Leaving(f)'
    BY <1>1, <1>2, <1>3, <1>4, <1>5, <1>6 DEF SocketInv, Leaving
  <2>6. Hushed(f)'
    BY <1>1, <1>2, <1>3, <1>4, <1>5, <1>6 DEF SocketInv, Hushed, Forgets
  <2>7. Keys(f)'
    BY <1>1, <1>2, <1>3, <1>4, <1>5, <1>6 DEF SocketInv, Keys, Awaited
  <2>8. Shaking(f)'
    BY <1>1, <1>2, <1>3, <1>4, <1>5, <1>6 DEF SocketInv, Shaking, InFlight, Alone, Silent
  <2> QED
    BY <2>1, <2>2, <2>3, <2>4, <2>5, <2>6, <2>7, <2>8 DEF SocketInv
<1> QED
  BY <1>7, <1>8, <1>9, <1>10, <1>11, Assemble

\* onLogin from one wait to the next.
LEMMA GoesStep ==
  ASSUME TypeInv, NEW n \in Logins, NEW f \in Fd, NEW u \in User, NEW from,
         login[n] = Idle \/ login[n].fd = f, Goes(n, f, u, from), UNCHANGED bc
  PROVE  /\ login' \in [Logins -> {Idle} \cup [fd : Fd, user : User, pc : {"account", "user"}]]
         /\ TablesType' /\ Elsewhere(f)
         /\ agent_in' \in [Fd -> Queue(AgentTypes)]
         /\ \A g \in Fd : \A i \in DOMAIN agent_in'[g] : agent_in'[g][i].fd = g
         /\ \A g \in Fd : g # f => agent_in'[g] = agent_in[g]
         /\ \/ agent_in'[f] = agent_in[f]
            \/ ag[f].st # "exited" /\ Added(agent_in[f], agent_in'[f], "send", Nobody, f)
         /\ \A g \in Fd : g # f => (LoggingIn(g)' <=> LoggingIn(g))
<1>1. TablesType /\ login \in [Logins -> {Idle} \cup [fd : Fd, user : User, pc : {"account", "user"}]]
  BY DEF TypeInv, ScriptType, TablesType, script
<1>2. Idle.fd = Nobody /\ Nobody \notin Fd
  BY SessionAssumption DEF Idle
<1>3. \E x \in {Idle} \cup [fd : Fd, user : User, pc : {"account", "user"}] :
         login' = [login EXCEPT ![n] = x] /\ (x.fd = f \/ x = Idle)
  <2>1. CASE login' = [login EXCEPT ![n] = Idle]
    BY <2>1
  <2>2. CASE login' = [login EXCEPT ![n] = [fd |-> f, user |-> u, pc |-> "account"]]
    <3> DEFINE x == [fd |-> f, user |-> u, pc |-> "account"]
    <3>1. x \in [fd : Fd, user : User, pc : {"account", "user"}] /\ x.fd = f
      OBVIOUS
    <3>2. login' = [login EXCEPT ![n] = x]
      BY <2>2
    <3> HIDE DEF x
    <3> QED
      BY <3>1, <3>2
  <2>3. CASE login' = [login EXCEPT ![n] = [fd |-> f, user |-> u, pc |-> "user"]]
    <3> DEFINE x == [fd |-> f, user |-> u, pc |-> "user"]
    <3>1. x \in [fd : Fd, user : User, pc : {"account", "user"}] /\ x.fd = f
      OBVIOUS
    <3>2. login' = [login EXCEPT ![n] = x]
      BY <2>3
    <3> HIDE DEF x
    <3> QED
      BY <3>1, <3>2
  <2> QED
    BY <2>1, <2>2, <2>3 DEF Goes
<1>4. PICK x \in {Idle} \cup [fd : Fd, user : User, pc : {"account", "user"}] :
         login' = [login EXCEPT ![n] = x] /\ (x.fd = f \/ x = Idle)
  BY <1>3
<1>5. login' \in [Logins -> {Idle} \cup [fd : Fd, user : User, pc : {"account", "user"}]]
  BY <1>1, <1>4
<1>6. ASSUME NEW g \in Fd, g # f PROVE LoggingIn(g)' <=> LoggingIn(g)
  <2>1. login[n].fd # g /\ login'[n].fd # g
    BY <1>1, <1>2, <1>4, <1>6
  <2>2. \A m \in Logins : m # n => login'[m] = login[m]
    BY <1>1, <1>4
  <2> QED
    BY <2>1, <2>2 DEF LoggingIn
<1>7. TablesType' /\ Elsewhere(f)
  <2>1. user \in Tables /\ user.toUser \in [Fd -> User \cup {Nobody}]
    BY <1>1 DEF TablesType, Tables
  <2>2. Replaces(f, u) \subseteq Fd \X User
    BY <1>1, <2>1 DEF Replaces, TablesType
  <2>0. user \in Tables
    BY <2>1
  <2>3. /\ user' \in Tables
        /\ user'.toUser = user.toUser \/ user'.toUser = [user.toUser EXCEPT ![f] = u]
    <3>1. \/ user' = user \/ user' = LoginTables(user, f, u) \/ user' = LoginEnds(user, f, u)
          \/ user' = LoginEnds(LoginTables(user, f, u), f, u)
      BY DEF Goes
    <3> QED
      BY <2>0, <3>1, LogsUser
  <2>4. over' = over \/ over' = Replaces(f, u)
    BY DEF Goes
  <2>5. bc_in' \in [Fd -> News] /\ \A g \in Fd : g # f => bc_in'[g] = bc_in[g]
    <3>1. <<"lobby">> \in News /\ <<"lobby">> # <<>>
      BY DEF News
    <3>2. bc_in' = bc_in \/ bc_in' = Tells(f, <<"lobby">>)
      BY DEF Goes
    <3> QED
      BY <1>1, <3>1, <3>2, TellsMore DEF TablesType
  <2> QED
    BY <1>1, <2>1, <2>2, <2>3, <2>4, <2>5 DEF TablesType, Elsewhere
<1>8. agent_in' = agent_in \/ agent_in' = ToAgent(agent_in, f, Msg("send", f))
  BY DEF Goes, Answered
<1>9. /\ agent_in' \in [Fd -> Queue(AgentTypes)]
      /\ \A g \in Fd : \A i \in DOMAIN agent_in'[g] : agent_in'[g][i].fd = g
      /\ \A g \in Fd : g # f => agent_in'[g] = agent_in[g]
      /\ \/ agent_in'[f] = agent_in[f]
         \/ ag[f].st # "exited" /\ Added(agent_in[f], agent_in'[f], "send", Nobody, f)
  <2>1. CASE agent_in' = agent_in
    BY <2>1 DEF TypeInv, AgentType
  <2>2. CASE agent_in' = ToAgent(agent_in, f, Msg("send", f))
    BY <2>2, Sent, TypesOf
  <2> QED
    BY <1>8, <2>1, <2>2
<1> QED
  BY <1>5, <1>6, <1>7, <1>9

\* What a login does to its socket.
LoggingStep(f) ==
    /\ SameNet(f) /\ SameGate(f) /\ SameWd(f) /\ ag'[f] = ag[f] /\ Alike(gate_in, gate_in', f)
    /\ f \in late' <=> f \in late
    /\ Alike(wd_in, wd_in', f) \/ \E c : Removed(wd_in, wd_in', "recv", c, f)
    /\ \/ agent_in'[f] = agent_in[f]
       \/ ag[f].st # "exited" /\ Added(agent_in[f], agent_in'[f], "send", Nobody, f)

LEMMA LoggingInv ==
  ASSUME TypeInv, NEW f \in Fd, SocketInv(f), LoggingStep(f), client[f] = Keyed(3),
         ag[f].st = "exited" \/ Has(agent_in[f], "answer", f) => f \in late
  PROVE  SocketInv(f)'
<1> USE DEF LoggingStep, SameNet, SameGate, SameWd, Alike, Added, Removed
<1>1. ag[f].st # "new"
  <2>1. ag[f].obj = Keyed(3)
    BY States DEF SocketInv, Shaking
  <2>2. ~Has(agent_in[f], "start", f)
    BY <2>1, States DEF SocketInv, Keys, Awaited
  <2> QED
    BY <2>2, HeadHas DEF SocketInv, Born
<1>2. Unborn(f)'
  <2>1. ag[f].st # "none"
    BY States DEF SocketInv, Unborn, Shaking
  <2> QED
    BY <2>1 DEF Unborn
<1>3. Born(f)'
  BY <1>1 DEF SocketInv, Born
<1>4. Opening(f)'
  BY DEF SocketInv, Opening
<1>5. Counted(f)'
  BY DEF SocketInv, Counted
<1>6. Leaving(f)'
  BY DEF SocketInv, Leaving
<1>7. Hushed(f)'
  BY DEF SocketInv, Hushed, Forgets
<1>8. Keys(f)'
  BY DEF SocketInv, Keys, Awaited
<1>9. Shaking(f)'
  BY FewerRest, ShakingOn DEF SocketInv
<1> QED
  BY <1>2, <1>3, <1>4, <1>5, <1>6, <1>7, <1>8, <1>9 DEF SocketInv

LEMMA RecvDataKeeps ==
  ASSUME SessionInv, NEW f \in Fd, RecvData(f)
  PROVE  SessionInv'
<1> DEFINE what == Head(wd_in).body
<1>1. TypeInv /\ CountInv /\ LoopInv /\ SocketInv(f)
  BY DEF SessionInv
<1>2. /\ wd_in' \in Queue(WdTypes) /\ Removed(wd_in, wd_in', "recv", what, f)
      /\ \A g \in Fd : g # f => Alike(wd_in, wd_in', g)
      /\ Has(wd_in, "recv", f)
  BY <1>1, WatchdogTakes DEF RecvData
<1>3. what \in Wishes
  BY <1>1, <1>2 DEF SocketInv, Keys, Removed
<1>4. UNCHANGED <<net, gate_in, gate, wd, bc, late, lost, ag, apps>>
  BY DEF RecvData
<1> HIDE DEF what
<1>5. client[f] = Keyed(3) /\ ~(ag[f].st = "exited" \/ Has(agent_in[f], "answer", f))
  BY <1>1, <1>2 DEF SocketInv, Keys, Hushed
<1>6. /\ login' \in [Logins -> {Idle} \cup [fd : Fd, user : User, pc : {"account", "user"}]]
      /\ TablesType' /\ Elsewhere(f)
      /\ agent_in' \in [Fd -> Queue(AgentTypes)]
      /\ \A g \in Fd : \A i \in DOMAIN agent_in'[g] : agent_in'[g][i].fd = g
      /\ \A g \in Fd : g # f => agent_in'[g] = agent_in[g]
      /\ \/ agent_in'[f] = agent_in[f]
         \/ ag[f].st # "exited" /\ Added(agent_in[f], agent_in'[f], "send", Nobody, f)
      /\ \A g \in Fd : g # f => (LoggingIn(g)' <=> LoggingIn(g))
  <2>1. CASE user' = onLogoutUser(user, f) /\ UNCHANGED <<over, bc_in, login, agent_in>>
    <3>1. TablesType /\ user \in Tables /\ user.toUser \in [Fd -> User \cup {Nobody}]
      BY <1>1 DEF TypeInv, ScriptType, TablesType, Tables
    <3>2. user' \in Tables /\ user'.toUser = [user.toUser EXCEPT ![f] = Nobody]
      BY <2>1, <3>1, LogsOut
    <3>3. TablesType' /\ Elsewhere(f)
      BY <1>4, <2>1, <3>1, <3>2 DEF TablesType, Elsewhere
    <3> QED
      BY <1>1, <2>1, <3>3 DEF TypeInv, ScriptType, AgentType, LoggingIn
  <2>2. CASE what # "logout" /\ \E n \in Logins : login[n] = Idle /\ Goes(n, f, what, "start")
    <3>1. what \in User
      BY <1>3, <2>2 DEF Wishes
    <3> HIDE DEF Goes
    <3> QED
      BY <1>1, <1>4, <2>2, <3>1, GoesStep
  <2> QED
    BY <2>1, <2>2 DEF RecvData, what
<1>7. LoggingStep(f)
  BY <1>2, <1>4, <1>6, AlikeSame DEF net, gate, LoggingStep, SameNet, SameGate, SameWd
<1>8. SocketInv(f)'
  BY <1>1, <1>5, <1>7, LoggingInv
<1>9. ASSUME NEW g \in Fd, g # f PROVE Same(g)
  BY <1>2, <1>4, <1>6, <1>9, AlikeSame
  DEF net, gate, Elsewhere, Same, SameNet, SameGate, SameWd, SameScript, SameAgent, script
<1>10. TypeInv'
  BY <1>1, <1>2, <1>4, <1>6 DEF net, gate, TypeInv, NetType, GateType, WdType, ScriptType, TablesType, AgentType, script
<1>11. CountInv' /\ LoopInv'
  BY <1>1, <1>4 DEF gate, CountInv, LoopInv
<1> QED
  BY <1>8, <1>9, <1>10, <1>11, Assemble

LEMMA LoginGoesOnKeeps ==
  ASSUME SessionInv, NEW n \in Logins, LoginGoesOn(n)
  PROVE  SessionInv'
<1>1. TypeInv /\ CountInv /\ LoopInv
  BY DEF SessionInv
<1>3. login[n] \in [fd : Fd, user : User, pc : {"account", "user"}]
  BY <1>1 DEF TypeInv, ScriptType, TablesType, LoginGoesOn, script
<1>4. PICK f \in Fd, u \in User : login[n].fd = f /\ login[n].user = u
  BY <1>3
<1>2. /\ Goes(n, f, u, login[n].pc)
      /\ UNCHANGED <<net, gate_in, gate, wd_in, wd, bc, late, lost, ag, apps>>
  BY <1>4 DEF LoginGoesOn
<1>5. LoggingIn(f)
  BY <1>4 DEF LoggingIn
<1>6. SocketInv(f)
  BY DEF SessionInv
<1>7. client[f] = Keyed(3) /\ (ag[f].st = "exited" \/ Has(agent_in[f], "answer", f) => f \in late)
  BY <1>5, <1>6 DEF SocketInv, Keys, Hushed
<1>8. /\ login' \in [Logins -> {Idle} \cup [fd : Fd, user : User, pc : {"account", "user"}]]
      /\ TablesType' /\ Elsewhere(f)
      /\ agent_in' \in [Fd -> Queue(AgentTypes)]
      /\ \A g \in Fd : \A i \in DOMAIN agent_in'[g] : agent_in'[g][i].fd = g
      /\ \A g \in Fd : g # f => agent_in'[g] = agent_in[g]
      /\ \/ agent_in'[f] = agent_in[f]
         \/ ag[f].st # "exited" /\ Added(agent_in[f], agent_in'[f], "send", Nobody, f)
      /\ \A g \in Fd : g # f => (LoggingIn(g)' <=> LoggingIn(g))
  BY <1>1, <1>2, <1>4, GoesStep
<1>9. LoggingStep(f)
  BY <1>2, <1>8, AlikeSame DEF net, gate, LoggingStep, SameNet, SameGate, SameWd
<1>10. SocketInv(f)'
  BY <1>1, <1>6, <1>7, <1>9, LoggingInv
<1>11. ASSUME NEW g \in Fd, g # f PROVE Same(g)
  BY <1>2, <1>8, <1>11, AlikeSame
  DEF net, gate, Elsewhere, Same, SameNet, SameGate, SameWd, SameScript, SameAgent, script
<1>12. TypeInv'
  BY <1>1, <1>2, <1>8 DEF net, gate, TypeInv, NetType, GateType, WdType, ScriptType, TablesType, AgentType, script
<1>13. CountInv' /\ LoopInv'
  BY <1>1, <1>2 DEF gate, CountInv, LoopInv
<1> QED
  BY <1>10, <1>11, <1>12, <1>13, Assemble

LEMMA LastStays ==
  ASSUME NEW S, NEW q \in Seq(S), q # <<>>
  PROVE  /\ Head(q) \in S /\ Tail(q) \in Seq(S) /\ Len(q) \in Nat
         /\ Tail(q) = <<>> => Head(q) = q[Len(q)]
         /\ Tail(q) # <<>> => Tail(q)[Len(Tail(q))] = q[Len(q)]
<1>1. /\ Tail(q) \in Seq(S) /\ Head(q) \in S /\ Len(Tail(q)) = Len(q) - 1 /\ Len(q) \in Nat /\ Head(q) = q[1]
      /\ \A n \in 1 .. Len(Tail(q)) : Tail(q)[n] = q[n + 1]
  OBVIOUS
<1>2. ASSUME Tail(q) = <<>> PROVE Len(q) = 1
  <2> DEFINE k == Len(Tail(q))
             l == Len(q)
  <2>1. Len(<<>>) = 0
    BY EmptySeq
  <2>2. k = 0
    BY <1>2, <2>1, Zenon
  <2>3. k = l - 1 /\ l \in Nat
    BY <1>1
  <2> HIDE DEF k, l
  <2>4. l = 1
    BY <2>2, <2>3
  <2> QED
    BY <2>4 DEF l
<1>3. ASSUME Tail(q) # <<>> PROVE Len(Tail(q)) \in 1 .. Len(Tail(q)) /\ Len(Tail(q)) + 1 = Len(q)
  BY <1>1, <1>3
<1> QED
  BY <1>1, <1>2, <1>3

LEMMA Hears ==
  ASSUME bc \in Maps, NEW f \in Fd, NEW m \in {"agent", "noagent", "login", "lobby", "disconnect"},
         bc' = Heard(f, m)
  PROVE  /\ bc' \in Maps
         /\ \A g \in Fd : g # f => bc'.fdMap[g] = bc.fdMap[g] /\ (g \in bc'.agentTab <=> g \in bc.agentTab)
         /\ m = "disconnect" => bc'.fdMap[f] = "nil" /\ f \notin bc'.agentTab
<1> DEFINE A == IF m = "agent" THEN bc.agentTab \cup {f} ELSE bc.agentTab \ {f}
           M == IF bc.fdMap[f] = "nil" THEN [bc.fdMap EXCEPT ![f] = "login"] ELSE bc.fdMap
<1>1. CASE m \in {"agent", "noagent"}
  <2>1. bc' = [agentTab |-> A, fdMap |-> M]
    BY <1>1 DEF Heard
  <2>2. /\ A \in SUBSET Fd /\ M \in [Fd -> {"nil", "login", "lobby"}]
        /\ \A g \in Fd : g # f => M[g] = bc.fdMap[g] /\ (g \in A <=> g \in bc.agentTab)
    BY DEF Maps
  <2> HIDE DEF A, M
  <2> QED
    BY <1>1, <2>1, <2>2 DEF Maps
<1>2. CASE m \in {"login", "lobby"}
  <2>1. bc' = [bc EXCEPT !.fdMap[f] = m]
    BY <1>2 DEF Heard
  <2> QED
    BY <1>2, <2>1 DEF Maps
<1>3. CASE m = "disconnect"
  <2>1. bc' = [agentTab |-> bc.agentTab \ {f}, fdMap |-> [bc.fdMap EXCEPT ![f] = "nil"]]
    BY <1>3 DEF Heard
  <2> QED
    BY <1>3, <2>1 DEF Maps
<1> QED
  BY <1>1, <1>2, <1>3

\* The broadcast handles a message: the last of those that wait stays the last.
LEMMA BroadcastKeeps ==
  ASSUME SessionInv, NEW f \in Fd, Broadcast(f)
  PROVE  SessionInv'
<1>1. TypeInv /\ CountInv /\ LoopInv /\ SocketInv(f) /\ TablesType
  BY DEF SessionInv, TypeInv, ScriptType
<1>2. /\ UNCHANGED <<net, gate_in, gate, wd_in, wd, user, over, login, late, lost, agent_in, ag, apps>>
      /\ bc_in[f] # <<>> /\ bc_in' = [bc_in EXCEPT ![f] = Tail(@)] /\ bc' = Heard(f, Head(bc_in[f]))
  BY DEF Broadcast
<1>3. /\ Head(bc_in[f]) \in {"agent", "noagent", "login", "lobby", "disconnect"}
      /\ Tail(bc_in[f]) \in News /\ Len(bc_in[f]) \in Nat
      /\ Tail(bc_in[f]) = <<>> => Head(bc_in[f]) = bc_in[f][Len(bc_in[f])]
      /\ Tail(bc_in[f]) # <<>> => Tail(bc_in[f])[Len(Tail(bc_in[f]))] = bc_in[f][Len(bc_in[f])]
  BY <1>1, <1>2, LastStays DEF TablesType, News
<1>4. /\ bc_in' \in [Fd -> News] /\ bc_in'[f] = Tail(bc_in[f])
      /\ \A g \in Fd : g # f => bc_in'[g] = bc_in[g]
  BY <1>1, <1>2, <1>3 DEF TablesType
<1>5. /\ bc' \in Maps
      /\ \A g \in Fd : g # f => bc'.fdMap[g] = bc.fdMap[g] /\ (g \in bc'.agentTab <=> g \in bc.agentTab)
      /\ Head(bc_in[f]) = "disconnect" => bc'.fdMap[f] = "nil" /\ f \notin bc'.agentTab
  BY <1>1, <1>2, <1>3, Hears DEF TablesType
<1>6. Forgets(f) => Forgets(f)'
  BY <1>2, <1>3, <1>4, <1>5 DEF Forgets
<1>7. /\ SameNet(f) /\ SameGate(f) /\ SameWd(f) /\ SameAgent(f) /\ user' = user /\ late' = late
      /\ (LoggingIn(f)' <=> LoggingIn(f)) /\ gate_in' = gate_in /\ wd_in' = wd_in
  BY <1>2 DEF net, gate, SameNet, SameGate, SameWd, SameAgent, LoggingIn
<1>8. ASSUME NEW g \in Fd, g # f PROVE Same(g)
  BY <1>2, <1>4, <1>5, <1>8, AlikeSame
  DEF net, gate, Same, SameNet, SameGate, SameWd, SameScript, SameAgent, LoggingIn
<1>9. TypeInv'
  <2>1. TablesType'
    BY <1>1, <1>2, <1>4, <1>5 DEF TablesType
  <2> QED
    BY <1>1, <1>2, <2>1 DEF net, gate, TypeInv, NetType, GateType, WdType, ScriptType, AgentType
<1>10. CountInv' /\ LoopInv'
  BY <1>1, <1>2 DEF CountInv, LoopInv, gate
<1>11. SocketInv(f)'
  <2> USE DEF SameNet, SameGate, SameWd, SameAgent
  <2>1. Unborn(f)'
    BY <1>1, <1>7 DEF SocketInv, Unborn
  <2>2. Born(f)'
    BY <1>1, <1>7 DEF SocketInv, Born
  <2>3. Opening(f)'
    BY <1>1, <1>7 DEF SocketInv, Opening
  <2>4. Counted(f)'
    BY <1>1, <1>7 DEF SocketInv, Counted
  <2>5. Leaving(f)'
    BY <1>1, <1>7 DEF SocketInv, Leaving
  <2>6. Hushed(f)'
    BY <1>1, <1>6, <1>7 DEF SocketInv, Hushed
  <2>7. Keys(f)'
    BY <1>1, <1>7 DEF SocketInv, Keys, Awaited
  <2>8. Shaking(f)'
    BY <1>1, <1>7 DEF SocketInv, Shaking, InFlight, Alone, Silent
  <2> QED
    BY <2>1, <2>2, <2>3, <2>4, <2>5, <2>6, <2>7, <2>8 DEF SocketInv
<1> QED
  BY <1>8, <1>9, <1>10, <1>11, Assemble

\* An agent takes its next message.
LEMMA AgentTakes ==
  ASSUME TypeInv, NEW f \in Fd, NEW t, AgentGets(t, f), agent_in' = [agent_in EXCEPT ![f] = Tail(@)]
  PROVE  /\ agent_in' \in [Fd -> Queue(AgentTypes)]
         /\ \A g \in Fd : \A n \in DOMAIN agent_in'[g] : agent_in'[g][n].fd = g
         /\ \A g \in Fd : g # f => agent_in'[g] = agent_in[g]
         /\ Removed(agent_in[f], agent_in'[f], t, Head(agent_in[f]).body, f)
         /\ Has(agent_in[f], t, f)
<1> DEFINE M == [type : AgentTypes, fd : Fd, body : Bodies]
           q == agent_in[f]
<1>1. q \in Seq(M) /\ Queue(AgentTypes) = Seq(M) /\ agent_in \in [Fd -> Seq(M)] /\ q # <<>>
      /\ Head(q).type = t
  BY DEF TypeInv, AgentType, Queue, AgentGets
<1>2. agent_in'[f] = Tail(q) /\ \A g \in Fd : g # f => agent_in'[g] = agent_in[g]
  BY <1>1
<1>3. \A n \in DOMAIN q : q[n].fd = f
  BY DEF TypeInv, AgentType
<1> HIDE DEF M, q
<1>4. /\ Tail(q) \in Seq(M) /\ 1 \in DOMAIN q /\ Head(q) = q[1]
      /\ \A n \in DOMAIN Tail(q) : n + 1 \in DOMAIN q /\ Tail(q)[n] = q[n + 1]
  BY <1>1, TailOf
<1>5. Head(q).fd = f /\ \A n \in DOMAIN Tail(q) : Tail(q)[n].fd = f
  BY <1>3, <1>4
<1>6. Removed(q, Tail(q), t, Head(q).body, f)
  BY <1>1, <1>5, TailQueue
<1>7. agent_in' \in [Fd -> Seq(M)]
  BY <1>1, <1>4 DEF q
<1>8. \A g \in Fd : \A n \in DOMAIN agent_in'[g] : agent_in'[g][n].fd = g
  BY <1>2, <1>5 DEF TypeInv, AgentType
<1>9. Has(q, t, f)
  BY <1>1, <1>4, <1>5 DEF Has
<1> QED
  BY <1>1, <1>2, <1>6, <1>7, <1>8, <1>9 DEF q


LEMMA AgentStartKeeps ==
  ASSUME SessionInv, NEW f \in Fd, AgentStart(f)
  PROVE  SessionInv'
<1>1. TypeInv /\ CountInv /\ LoopInv /\ SocketInv(f)
  BY DEF SessionInv
<1>2. /\ agent_in' \in [Fd -> Queue(AgentTypes)]
      /\ \A g \in Fd : \A n \in DOMAIN agent_in'[g] : agent_in'[g][n].fd = g
      /\ \A g \in Fd : g # f => agent_in'[g] = agent_in[g]
      /\ Removed(agent_in[f], agent_in'[f], "start", Head(agent_in[f]).body, f)
      /\ Has(agent_in[f], "start", f)
  BY <1>1, AgentTakes DEF AgentStart
<1>3. /\ wd_in' \in Queue(WdTypes) /\ Added(wd_in, wd_in', "started", Nobody, f)
      /\ \A g \in Fd : g # f => Alike(wd_in, wd_in', g)
  BY <1>1, PutMsg, TypesOf DEF AgentStart, TypeInv, WdType
<1>4. ag[f].st = "new" /\ ag'[f].st = "up" /\ ag'[f].obj = ag[f].obj
  BY <1>1, <1>2 DEF AgentStart, SocketInv, Born, TypeInv, AgentType
<1>5. /\ SameNet(f) /\ SameGate(f) /\ SameWd(f) /\ SameScript(f) /\ Alike(gate_in, gate_in', f)
  BY <1>1, AlikeSame DEF AgentStart, net, gate, watchdog, SameNet, SameGate, SameWd, SameScript, SameAgent, LoggingIn, script
<1>6. ASSUME NEW g \in Fd, g # f PROVE Same(g)
  BY <1>1, <1>2, <1>3, <1>6, AlikeSame DEF AgentStart, net, gate, watchdog, TypeInv, AgentType, Same, SameNet, SameGate, SameWd, SameScript, SameAgent, LoggingIn, script
<1>7. TypeInv'
  <2>1. NetType'
    BY <1>1 DEF AgentStart, net, gate, watchdog, TypeInv, NetType, script
  <2>2. GateType'
    BY <1>1 DEF AgentStart, net, gate, watchdog, TypeInv, GateType, script
  <2>3. WdType'
    BY <1>1, <1>3 DEF AgentStart, watchdog, TypeInv, WdType, script
  <2>4. ScriptType'
    BY <1>1 DEF AgentStart, net, gate, watchdog, TypeInv, ScriptType, TablesType, script
  <2>5. AgentType'
    BY <1>1, <1>2 DEF AgentStart, TypeInv, AgentType
  <2> QED
    BY <2>1, <2>2, <2>3, <2>4, <2>5 DEF TypeInv
<1>8. CountInv'
  BY <1>1 DEF CountInv, AgentStart, gate
<1>9. LoopInv'
  BY <1>1 DEF LoopInv, AgentStart, watchdog, script
<1>10. SocketInv(f)'
  <2> USE DEF SameNet, SameGate, SameWd, SameScript, SameAgent, Alike, Added, Removed, script
  <2>1. Unborn(f)'
    BY <1>1, <1>2, <1>3, <1>4, <1>5 DEF SocketInv, Unborn
  <2>2. Born(f)'
    BY <1>1, <1>2, <1>3, <1>4, <1>5 DEF SocketInv, Born, Opening
  <2>3. Opening(f)'
    BY <1>1, <1>2, <1>3, <1>4, <1>5 DEF SocketInv, Opening
  <2>4. Counted(f)'
    BY <1>1, <1>2, <1>3, <1>4, <1>5 DEF SocketInv, Counted
  <2>5. Leaving(f)'
    BY <1>1, <1>2, <1>3, <1>4, <1>5 DEF SocketInv, Leaving
  <2>6. Hushed(f)'
    BY <1>1, <1>2, <1>3, <1>4, <1>5 DEF SocketInv, Hushed, Forgets
  <2>7. Keys(f)'
    BY <1>1, <1>2, <1>3, <1>4, <1>5 DEF SocketInv, Keys, Awaited
  <2>8. Shaking(f)'
    BY <1>1, <1>2, <1>4, <1>5, FewerRest, ShakingOn DEF SocketInv
  <2> QED
    BY <2>1, <2>2, <2>3, <2>4, <2>5, <2>6, <2>7, <2>8 DEF SocketInv
<1> QED
  BY <1>6, <1>7, <1>8, <1>9, <1>10, Assemble

LEMMA AgentOpenedKeeps ==
  ASSUME SessionInv, NEW f \in Fd, AgentOpened(f)
  PROVE  SessionInv'
<1>1. TypeInv /\ CountInv /\ LoopInv /\ SocketInv(f)
  BY DEF SessionInv
<1>2. /\ agent_in' \in [Fd -> Queue(AgentTypes)]
      /\ \A g \in Fd : \A n \in DOMAIN agent_in'[g] : agent_in'[g][n].fd = g
      /\ \A g \in Fd : g # f => agent_in'[g] = agent_in[g]
      /\ Removed(agent_in[f], agent_in'[f], "opened", Head(agent_in[f]).body, f)
      /\ Has(agent_in[f], "opened", f)
  BY <1>1, AgentTakes DEF AgentOpened
<1>3. ag[f].st \in {"up", "leaving"}
  BY <1>1 DEF AgentOpened, AgentGets, SocketInv, Born
<1>4. /\ ag'[f].st = ag[f].st /\ ag'[f].obj = Keyed(1)
      /\ ag' \in [Fd -> [st : {"none", "new", "up", "leaving", "exited"},
                         obj : {Plain(0), Plain(1), Keyed(1), Keyed(2), Keyed(3)}]]
  <2>1. StartServer(ag[f].obj) = Keyed(1)
    BY DEF StartServer, Keyed
  <2>2. ag' = [ag EXCEPT ![f].obj = Keyed(1)]
    BY <2>1 DEF AgentOpened
  <2> QED
  BY <1>1, <2>2 DEF TypeInv, AgentType
<1>5. /\ SameNet(f) /\ SameGate(f) /\ SameWd(f) /\ SameScript(f) /\ Alike(gate_in, gate_in', f)
      /\ Alike(wd_in, wd_in', f)
  BY <1>1, AlikeSame DEF AgentOpened, net, gate, watchdog, SameNet, SameGate, SameWd, SameScript, SameAgent, LoggingIn, script
<1>6. ASSUME NEW g \in Fd, g # f PROVE Same(g)
  BY <1>1, <1>2, <1>6, AlikeSame DEF AgentOpened, net, gate, watchdog, TypeInv, AgentType, Same, SameNet, SameGate, SameWd, SameScript, SameAgent, LoggingIn, script
<1>7. TypeInv'
  <2>1. NetType'
    BY <1>1 DEF AgentOpened, net, gate, watchdog, TypeInv, NetType, script
  <2>2. GateType'
    BY <1>1 DEF AgentOpened, net, gate, watchdog, TypeInv, GateType, script
  <2>3. WdType'
    BY <1>1 DEF AgentOpened, net, gate, watchdog, TypeInv, WdType, Watch, script
  <2>4. ScriptType'
    BY <1>1 DEF AgentOpened, net, gate, watchdog, TypeInv, ScriptType, TablesType, script
  <2>5. AgentType'
    BY <1>1, <1>2, <1>4 DEF AgentOpened, TypeInv, AgentType
  <2> QED
    BY <2>1, <2>2, <2>3, <2>4, <2>5 DEF TypeInv
<1>8. CountInv'
  BY <1>1 DEF CountInv, AgentOpened, gate
<1>9. LoopInv'
  BY <1>1 DEF LoopInv, AgentOpened, watchdog, script
<1>10. SocketInv(f)'
  <2> USE DEF SameNet, SameGate, SameWd, SameScript, SameAgent, Alike, Added, Removed, script
  <2>1. Unborn(f)'
    BY <1>1, <1>2, <1>3, <1>4, <1>5 DEF SocketInv, Unborn
  <2>2. Born(f)'
    BY <1>1, <1>2, <1>3, <1>4, <1>5 DEF SocketInv, Born
  <2>3. Opening(f)'
    BY <1>1, <1>2, <1>3, <1>4, <1>5 DEF SocketInv, Opening
  <2>4. Counted(f)'
    BY <1>1, <1>2, <1>3, <1>4, <1>5 DEF SocketInv, Counted
  <2>5. Leaving(f)'
    BY <1>1, <1>2, <1>3, <1>4, <1>5 DEF SocketInv, Leaving
  <2>6. Hushed(f)'
    BY <1>1, <1>2, <1>3, <1>4, <1>5 DEF SocketInv, Hushed, Forgets
  <2>7. Keys(f)'
    BY <1>1, <1>2, <1>3, <1>4, <1>5 DEF SocketInv, Keys, Awaited, Opening
  <2>8. Shaking(f)'
    <3>1. ag[f].obj \in {Plain(0), Plain(1)} /\ client[f] # Plain(0) /\ client'[f] = client[f]
      BY <1>1, <1>2, <1>3, <1>5 DEF SocketInv, Keys, Awaited, Born
    <3>2. client[f] = Plain(1) /\ s2c[f] = <<>> /\ (Silent(f) \/ (InFlight(f, {Hello}) /\ Alone(f)))
      <4>1. ag[f].obj # Keyed(2) /\ ag[f].obj # Keyed(3)
        BY <3>1, States
      <4>2. Shaking(f)
        BY <1>1 DEF SocketInv
      <4> QED
        BY <3>1, <4>1, <4>2, Zenon DEF Shaking
    <3>3. InFlight(f, {Hello})' /\ Alone(f)'
      <4>1. CASE Silent(f)
        <5>1. ~Has(agent_in'[f], "data", f) /\ ~Has(gate_in', "data", f) /\ c2s'[f] = <<>>
          BY <1>2, <1>5, <4>1 DEF Silent
        <5>2. Len(c2s'[f]) <= 1 /\ DOMAIN c2s'[f] = {}
          BY <5>1, Single
        <5> QED
          BY <5>1, <5>2, HasNone DEF InFlight, Alone
      <4>2. CASE InFlight(f, {Hello}) /\ Alone(f)
        BY <1>2, <1>5, <4>2 DEF InFlight, Alone
      <4> QED
        BY <3>2, <4>1, <4>2
    <3> QED
      BY <1>4, <1>5, <3>1, <3>2, <3>3 DEF Shaking
  <2> QED
    BY <2>1, <2>2, <2>3, <2>4, <2>5, <2>6, <2>7, <2>8 DEF SocketInv
<1> QED
  BY <1>6, <1>7, <1>8, <1>9, <1>10, Assemble

LEMMA AgentDisconnectKeeps ==
  ASSUME SessionInv, NEW f \in Fd, AgentDisconnect(f)
  PROVE  SessionInv'
<1>1. TypeInv /\ CountInv /\ LoopInv /\ SocketInv(f)
  BY DEF SessionInv
<1>2. /\ agent_in' \in [Fd -> Queue(AgentTypes)]
      /\ \A g \in Fd : \A n \in DOMAIN agent_in'[g] : agent_in'[g][n].fd = g
      /\ \A g \in Fd : g # f => agent_in'[g] = agent_in[g]
      /\ Removed(agent_in[f], agent_in'[f], "disconnect", Head(agent_in[f]).body, f)
      /\ Has(agent_in[f], "disconnect", f)
  BY <1>1, AgentTakes DEF AgentDisconnect
<1>3. /\ wd_in' \in Queue(WdTypes) /\ Added(wd_in, wd_in', "disconnected", Nobody, f)
      /\ \A g \in Fd : g # f => Alike(wd_in, wd_in', g)
  BY <1>1, PutMsg, TypesOf DEF AgentDisconnect, TypeInv, WdType
<1>4. ag[f].st = "up" /\ ag'[f].st = "leaving" /\ ag'[f].obj = ag[f].obj
  BY <1>1, <1>2 DEF AgentDisconnect, AgentGets, SocketInv, Born, Leaving, TypeInv, AgentType
<1>5. /\ SameNet(f) /\ SameGate(f) /\ SameWd(f) /\ SameScript(f) /\ Alike(gate_in, gate_in', f)
  BY <1>1, AlikeSame DEF AgentDisconnect, net, gate, watchdog, SameNet, SameGate, SameWd, SameScript, SameAgent, LoggingIn, script
<1>6. ASSUME NEW g \in Fd, g # f PROVE Same(g)
  BY <1>1, <1>2, <1>3, <1>6, AlikeSame DEF AgentDisconnect, net, gate, watchdog, TypeInv, AgentType, Same, SameNet, SameGate, SameWd, SameScript, SameAgent, LoggingIn, script
<1>7. TypeInv'
  <2>1. NetType'
    BY <1>1 DEF AgentDisconnect, net, gate, watchdog, TypeInv, NetType, script
  <2>2. GateType'
    BY <1>1 DEF AgentDisconnect, net, gate, watchdog, TypeInv, GateType, script
  <2>3. WdType'
    BY <1>1, <1>3 DEF AgentDisconnect, watchdog, TypeInv, WdType, script
  <2>4. ScriptType'
    BY <1>1 DEF AgentDisconnect, net, gate, watchdog, TypeInv, ScriptType, TablesType, script
  <2>5. AgentType'
    BY <1>1, <1>2 DEF AgentDisconnect, TypeInv, AgentType
  <2> QED
    BY <2>1, <2>2, <2>3, <2>4, <2>5 DEF TypeInv
<1>8. CountInv'
  BY <1>1 DEF CountInv, AgentDisconnect, gate
<1>9. LoopInv'
  BY <1>1 DEF LoopInv, AgentDisconnect, watchdog, script
<1>10. SocketInv(f)'
  <2> USE DEF SameNet, SameGate, SameWd, SameScript, SameAgent, Alike, Added, Removed, script
  <2>1. Unborn(f)'
    BY <1>1, <1>2, <1>3, <1>4, <1>5 DEF SocketInv, Unborn
  <2>2. Born(f)'
    BY <1>1, <1>2, <1>3, <1>4, <1>5 DEF SocketInv, Born
  <2>3. Opening(f)'
    BY <1>1, <1>2, <1>3, <1>4, <1>5 DEF SocketInv, Opening
  <2>4. Counted(f)'
    BY <1>1, <1>2, <1>3, <1>4, <1>5 DEF SocketInv, Counted
  <2>5. Leaving(f)'
    BY <1>1, <1>2, <1>3, <1>4, <1>5 DEF SocketInv, Leaving
  <2>6. Hushed(f)'
    BY <1>1, <1>2, <1>3, <1>4, <1>5 DEF SocketInv, Hushed, Leaving, Forgets
  <2>7. Keys(f)'
    BY <1>1, <1>2, <1>3, <1>4, <1>5 DEF SocketInv, Keys, Awaited
  <2>8. Shaking(f)'
    BY <1>1, <1>2, <1>4, <1>5, FewerRest, ShakingOn DEF SocketInv
  <2> QED
    BY <2>1, <2>2, <2>3, <2>4, <2>5, <2>6, <2>7, <2>8 DEF SocketInv
<1> QED
  BY <1>6, <1>7, <1>8, <1>9, <1>10, Assemble

LEMMA AgentExitsKeeps ==
  ASSUME SessionInv, NEW f \in Fd, AgentExits(f)
  PROVE  SessionInv'
<1>1. TypeInv /\ CountInv /\ LoopInv /\ SocketInv(f)
  BY DEF SessionInv
<1>2. Has(agent_in[f], "answer", f)
  BY <1>1, HeadHas DEF AgentExits, AgentGets
<1>3. ag[f].st = "leaving" /\ ag'[f].st = "exited" /\ ag'[f].obj = ag[f].obj
  BY <1>1, <1>2 DEF AgentExits, SocketInv, Leaving, TypeInv, AgentType
<1>4. agent_in'[f] = <<>> /\ agent_in' \in [Fd -> Queue(AgentTypes)]
      /\ \A g \in Fd : \A n \in DOMAIN agent_in'[g] : agent_in'[g][n].fd = g
  <2>1. <<>> \in Queue(AgentTypes) /\ DOMAIN <<>> = {}
    BY Single DEF Queue
  <2>2. agent_in'[f] = <<>> /\ \A g \in Fd : g # f => agent_in'[g] = agent_in[g]
    BY <1>1 DEF AgentExits, TypeInv, AgentType
  <2>3. agent_in' \in [Fd -> Queue(AgentTypes)]
    BY <1>1, <2>1 DEF AgentExits, TypeInv, AgentType
  <2> QED
  BY <1>1, <2>1, <2>2, <2>3 DEF TypeInv, AgentType
<1>5. /\ SameNet(f) /\ SameGate(f) /\ SameWd(f) /\ SameScript(f) /\ Alike(gate_in, gate_in', f)
      /\ Alike(wd_in, wd_in', f)
  BY <1>1, AlikeSame DEF AgentExits, net, gate, watchdog, SameNet, SameGate, SameWd, SameScript, SameAgent, LoggingIn, script
<1>6. ASSUME NEW g \in Fd, g # f PROVE Same(g)
  BY <1>1, <1>6, AlikeSame DEF AgentExits, net, gate, watchdog, TypeInv, AgentType, Same, SameNet, SameGate, SameWd, SameScript, SameAgent, LoggingIn, script
<1>7. TypeInv'
  <2>1. NetType'
    BY <1>1 DEF AgentExits, net, gate, watchdog, TypeInv, NetType, script
  <2>2. GateType'
    BY <1>1 DEF AgentExits, net, gate, watchdog, TypeInv, GateType, script
  <2>3. WdType'
    BY <1>1 DEF AgentExits, net, gate, watchdog, TypeInv, WdType, Watch, script
  <2>4. ScriptType'
    BY <1>1 DEF AgentExits, net, gate, watchdog, TypeInv, ScriptType, TablesType, script
  <2>5. AgentType'
    BY <1>1, <1>4 DEF AgentExits, TypeInv, AgentType
  <2> QED
    BY <2>1, <2>2, <2>3, <2>4, <2>5 DEF TypeInv
<1>8. CountInv'
  BY <1>1 DEF CountInv, AgentExits, gate
<1>9. LoopInv'
  BY <1>1 DEF LoopInv, AgentExits, watchdog, script
<1>10. SocketInv(f)'
  <2> USE DEF SameNet, SameGate, SameWd, SameScript, SameAgent, Alike, Added, Removed, script
  <2>1. Unborn(f)'
    BY <1>1, <1>2, <1>3, <1>4, EmptyQueue, <1>5 DEF SocketInv, Unborn
  <2>2. Born(f)'
    BY <1>1, <1>2, <1>3, <1>4, EmptyQueue, <1>5 DEF SocketInv, Born
  <2>3. Opening(f)'
    BY <1>1, <1>2, <1>3, <1>4, EmptyQueue, <1>5 DEF SocketInv, Opening
  <2>4. Counted(f)'
    BY <1>1, <1>2, <1>3, <1>4, EmptyQueue, <1>5 DEF SocketInv, Counted
  <2>5. Leaving(f)'
    BY <1>1, <1>2, <1>3, <1>4, EmptyQueue, <1>5 DEF SocketInv, Leaving
  <2>6. Hushed(f)'
    BY <1>1, <1>2, <1>3, <1>4, EmptyQueue, <1>5 DEF SocketInv, Hushed, Forgets
  <2>7. Keys(f)'
    BY <1>1, <1>2, <1>3, <1>4, EmptyQueue, <1>5 DEF SocketInv, Keys, Awaited
  <2>8. Shaking(f)'
    <3>1. Fewer(agent_in[f], agent_in'[f], f)
      BY <1>4, EmptyQueue DEF Fewer
    <3> QED
      BY <1>1, <1>3, <1>5, <3>1, FewerRest, ShakingOn DEF SocketInv
  <2> QED
    BY <2>1, <2>2, <2>3, <2>4, <2>5, <2>6, <2>7, <2>8 DEF SocketInv
<1> QED
  BY <1>6, <1>7, <1>8, <1>9, <1>10, Assemble

\* What an agent sends is added, or lost with the socket.
LEMMA SendsOut ==
  ASSUME TypeInv, NEW f \in Fd, NEW x \in {Second, Third, Answer}, s2c' = SendOut(f, <<x>>)
  PROVE  /\ s2c' \in [Fd -> Seq({Second, Third, Answer})]
         /\ \A g \in Fd : g # f => s2c'[g] = s2c[g]
         /\ s2c[f] = <<>> => s2c'[f] \in {<<>>, <<x>>}
         /\ (\A n \in DOMAIN s2c[f] : s2c[f][n] = x) => \A n \in DOMAIN s2c'[f] : s2c'[f][n] = x
<1> DEFINE S == {Second, Third, Answer}
<1>1. s2c \in [Fd -> Seq(S)] /\ x \in S
  BY DEF TypeInv, NetType
<1> HIDE DEF S
<1>2. CASE sock[f] = "open"
  <2> DEFINE q == s2c[f]
             r == s2c[f] \o <<x>>
  <2>1. s2c' = [s2c EXCEPT ![f] = r]
    BY <1>2 DEF SendOut
  <2>2. q \in Seq(S) /\ s2c'[f] = r
    BY <1>1, <2>1
  <2>3. /\ r \in Seq(S) /\ (q = <<>> => r = <<x>>)
        /\ \A n \in DOMAIN r : (n \in DOMAIN q /\ r[n] = q[n]) \/ r[n] = x
    <3> HIDE DEF q
    <3> DEFINE p == q \o <<x>>
    <3>1. /\ p \in Seq(S) /\ Len(p) = Len(q) + 1
          /\ \A n \in 1 .. Len(q) + 1 : p[n] = IF n <= Len(q) THEN q[n] ELSE x
      <4>1. q \in Seq(S) /\ <<x>> \in Seq(S) /\ Len(<<x>>) = 1 /\ <<x>>[1] = x
        BY <1>1, <2>2, Single
      <4>2. /\ p \in Seq(S) /\ Len(p) = Len(q) + 1
            /\ \A n \in 1 .. Len(q) + 1 : p[n] = IF n <= Len(q) THEN q[n] ELSE <<x>>[n - Len(q)]
        BY <4>1, ConcatProperties
      <4>3. Len(q) \in Nat
        BY <4>1
      <4>4. \A n \in 1 .. Len(q) + 1 : n <= Len(q) \/ n - Len(q) = 1
        BY <4>3
      <4> QED
        BY <4>1, <4>2, <4>4
    <3>2. q = <<>> => p = <<x>>
      OBVIOUS
    <3> QED
      BY <1>1, <2>2, <3>1, <3>2 DEF q
  <2> HIDE DEF r
  <2>4. s2c' \in [Fd -> Seq(S)] /\ \A g \in Fd : g # f => s2c'[g] = s2c[g]
    BY <1>1, <2>1, <2>3
  <2> QED
    BY <2>2, <2>3, <2>4 DEF S
<1>3. CASE sock[f] # "open"
  BY <1>1, <1>3 DEF SendOut, S
<1> QED
  BY <1>2, <1>3


LEMMA AgentSendKeeps ==
  ASSUME SessionInv, NEW f \in Fd, AgentSend(f)
  PROVE  SessionInv'
<1>1. TypeInv /\ CountInv /\ LoopInv /\ SocketInv(f)
  BY DEF SessionInv
<1>2. /\ agent_in' \in [Fd -> Queue(AgentTypes)]
      /\ \A g \in Fd : \A n \in DOMAIN agent_in'[g] : agent_in'[g][n].fd = g
      /\ \A g \in Fd : g # f => agent_in'[g] = agent_in[g]
      /\ Removed(agent_in[f], agent_in'[f], "send", Head(agent_in[f]).body, f)
      /\ Has(agent_in[f], "send", f)
  BY <1>1, AgentTakes DEF AgentSend
<1>3. /\ client[f] = Keyed(3) /\ ag[f].obj = Keyed(3) /\ InFlight(f, Asks)
      /\ \A n \in DOMAIN s2c[f] : s2c[f][n] = Answer
  BY <1>1, <1>2, States DEF SocketInv, Keys, Shaking
<1>4. /\ s2c' \in [Fd -> Seq({Second, Third, Answer})] /\ \A g \in Fd : g # f => s2c'[g] = s2c[g]
      /\ \A n \in DOMAIN s2c'[f] : s2c'[f][n] = Answer
  <2>1. Packed(ag[f].obj, App("answer")) = Answer
    BY <1>3, KeyOf, PackedWith DEF Answer
  <2>2. s2c' = SendOut(f, <<Answer>>)
    BY <2>1 DEF AgentSend
  <2> QED
  BY <1>1, <1>3, <2>2, SendsOut
<1>5. ag[f].st \in {"up", "leaving"}
  BY <1>1 DEF AgentSend, AgentGets, SocketInv, Born
<1>6. /\ sock'[f] = sock[f] /\ client'[f] = client[f] /\ c2s'[f] = c2s[f] /\ SameGate(f) /\ SameWd(f)
      /\ SameScript(f) /\ ag'[f] = ag[f] /\ Alike(gate_in, gate_in', f) /\ Alike(wd_in, wd_in', f)
  BY <1>1, AlikeSame DEF AgentSend, gate, watchdog, SameNet, SameGate, SameWd, SameScript, SameAgent, LoggingIn, script
<1>7. ASSUME NEW g \in Fd, g # f PROVE Same(g)
  BY <1>1, <1>2, <1>4, <1>7, AlikeSame DEF AgentSend, gate, watchdog, Same, SameNet, SameGate, SameWd, SameScript, SameAgent, LoggingIn, script
<1>8. TypeInv'
  <2>1. NetType'
    BY <1>1, <1>4 DEF AgentSend, TypeInv, NetType
  <2>2. GateType'
    BY <1>1 DEF AgentSend, net, gate, watchdog, TypeInv, GateType, script
  <2>3. WdType'
    BY <1>1 DEF AgentSend, net, gate, watchdog, TypeInv, WdType, Watch, script
  <2>4. ScriptType'
    BY <1>1 DEF AgentSend, net, gate, watchdog, TypeInv, ScriptType, TablesType, script
  <2>5. AgentType'
    BY <1>1, <1>2 DEF AgentSend, TypeInv, AgentType
  <2> QED
    BY <2>1, <2>2, <2>3, <2>4, <2>5 DEF TypeInv
<1>9. CountInv'
  BY <1>1 DEF CountInv, AgentSend, gate
<1>10. LoopInv'
  BY <1>1 DEF LoopInv, AgentSend, watchdog, script
<1>11. SocketInv(f)'
  <2> USE DEF SameNet, SameGate, SameWd, SameScript, SameAgent, Alike, Added, Removed, script
  <2>1. Unborn(f)'
    BY <1>1, <1>2, <1>5, <1>6 DEF SocketInv, Unborn
  <2>2. Born(f)'
    BY <1>1, <1>2, <1>5, <1>6 DEF SocketInv, Born
  <2>3. Opening(f)'
    BY <1>1, <1>2, <1>5, <1>6 DEF SocketInv, Opening
  <2>4. Counted(f)'
    BY <1>1, <1>2, <1>5, <1>6 DEF SocketInv, Counted
  <2>5. Leaving(f)'
    BY <1>1, <1>2, <1>5, <1>6 DEF SocketInv, Leaving
  <2>6. Hushed(f)'
    BY <1>1, <1>2, <1>5, <1>6 DEF SocketInv, Hushed, Forgets
  <2>7. Keys(f)'
    BY <1>1, <1>2, <1>5, <1>6 DEF SocketInv, Keys, Awaited
  <2>8. Shaking(f)'
    <3>1. InFlight(f, Asks)'
      BY <1>2, <1>3, <1>6 DEF InFlight
    <3> QED
      BY <1>3, <1>4, <1>6, <3>1 DEF Shaking
  <2> QED
    BY <2>1, <2>2, <2>3, <2>4, <2>5, <2>6, <2>7, <2>8 DEF SocketInv
<1> QED
  BY <1>7, <1>8, <1>9, <1>10, <1>11, Assemble

\* The last of what was on its way has come.
LEMMA FallsSilent ==
  ASSUME NEW f, NEW c, Alone(f), Has(agent_in[f], "data", f),
         Removed(agent_in[f], agent_in'[f], "data", c, f), gate_in' = gate_in, c2s'[f] = c2s[f]
  PROVE  Silent(f)'
  BY DEF Alone, Silent, Removed

\* What the agent does with what its client has sent, in the four states in
\* which it can be sent anything.
LEMMA DataCases ==
  ASSUME SessionInv, NEW f \in Fd, AgentData(f)
  PROVE  \/ /\ client[f] = Plain(1) /\ ag' = [ag EXCEPT ![f].obj = Plain(1)]
            /\ s2c[f] = <<>> /\ s2c' = s2c /\ wd_in' = wd_in /\ Silent(f)'
         \/ /\ client[f] = Plain(1) /\ ag[f].obj = Keyed(1) /\ ag' = [ag EXCEPT ![f].obj = Keyed(2)]
            /\ s2c[f] = <<>> /\ s2c' = SendOut(f, <<Second>>) /\ wd_in' = wd_in /\ Silent(f)'
         \/ /\ client[f] = Plain(2) /\ ag[f].obj = Keyed(2) /\ ag' = [ag EXCEPT ![f].obj = Keyed(3)]
            /\ s2c[f] = <<>> /\ s2c' = SendOut(f, <<Third>>)
            /\ wd_in' = Append(wd_in, Msg("connected", f)) /\ Silent(f)'
         \/ /\ client[f] = Keyed(3) /\ ag[f].obj = Keyed(3) /\ InFlight(f, Asks)
            /\ \A n \in DOMAIN s2c[f] : s2c[f][n] = Answer
            /\ ag' = ag /\ s2c' = s2c
            /\ \E what \in Wishes : wd_in' = Append(wd_in, With("recv", f, what))
<1> DEFINE b == Head(agent_in[f]).body
           r == ServerShake(ag[f].obj, b.msg)
<1>1. TypeInv /\ SocketInv(f)
  BY DEF SessionInv
<1>2. Removed(agent_in[f], agent_in'[f], "data", b, f) /\ Has(agent_in[f], "data", f)
  BY <1>1, AgentTakes DEF AgentData
<1>3. /\ ag[f].obj.m_state # 3 => /\ ag' = [ag EXCEPT ![f].obj = r.obj] /\ s2c' = SendOut(f, r.out)
                                  /\ wd_in' = IF r.ended THEN Append(wd_in, Msg("connected", f)) ELSE wd_in
      /\ ag[f].obj.m_state = 3 => wd_in' = Append(wd_in, With("recv", f, b.msg.app)) /\ ag' = ag /\ s2c' = s2c
      /\ gate_in' = gate_in /\ c2s' = c2s
  BY DEF AgentData
<1>4. ~Silent(f) /\ \A B : InFlight(f, B) => b \in B
  BY <1>2 DEF Silent, InFlight, Removed
<1>5. Alone(f) => Silent(f)'
  BY <1>2, <1>3, FallsSilent
<1> HIDE DEF b
<1>6. \/ /\ client[f] = Plain(1) /\ ag[f].obj \in {Plain(0), Keyed(1)} /\ InFlight(f, {Hello})
         /\ Alone(f) /\ s2c[f] = <<>>
      \/ /\ client[f] = Plain(2) /\ ag[f].obj = Keyed(2) /\ InFlight(f, {Second})
         /\ Alone(f) /\ s2c[f] = <<>>
      \/ /\ client[f] = Keyed(3) /\ ag[f].obj = Keyed(3) /\ InFlight(f, Asks)
         /\ \A n \in DOMAIN s2c[f] : s2c[f][n] = Answer
  BY <1>1, <1>4 DEF SocketInv, Shaking
<1>7. CASE client[f] = Plain(1) /\ ag[f].obj = Plain(0) /\ InFlight(f, {Hello}) /\ Alone(f) /\ s2c[f] = <<>>
  <2>1. b = Hello /\ ag[f].obj.m_state # 3
    BY <1>4, <1>7, States
  <2>2. r = Outcome(Plain(1), <<>>, FALSE)
    BY <1>7, <2>1, ServerShakes
  <2> HIDE DEF r
  <2>3. r.obj = Plain(1) /\ r.out = <<>> /\ r.ended = FALSE
    BY <2>2 DEF Outcome
  <2>4. SendOut(f, <<>>) = s2c
    <3>1. s2c \in [Fd -> Seq({Second, Third, Answer})] /\ <<>> \o <<>> = <<>>
      BY <1>1 DEF TypeInv, NetType
    <3> QED
      BY <1>7, <3>1 DEF SendOut
  <2> QED
    BY <1>3, <1>5, <1>7, <2>1, <2>3, <2>4
<1>8. CASE client[f] = Plain(1) /\ ag[f].obj = Keyed(1) /\ InFlight(f, {Hello}) /\ Alone(f) /\ s2c[f] = <<>>
  <2>1. b = Hello /\ ag[f].obj.m_state # 3
    BY <1>4, <1>8, States
  <2>2. r = Outcome(Keyed(2), <<Second>>, FALSE)
    BY <1>8, <2>1, ServerShakes
  <2> HIDE DEF r
  <2>3. r.obj = Keyed(2) /\ r.out = <<Second>> /\ r.ended = FALSE
    BY <2>2 DEF Outcome
  <2> QED
    BY <1>3, <1>5, <1>8, <2>1, <2>3
<1>9. CASE client[f] = Plain(2) /\ ag[f].obj = Keyed(2) /\ InFlight(f, {Second}) /\ Alone(f) /\ s2c[f] = <<>>
  <2>1. b = Second /\ ag[f].obj.m_state # 3
    BY <1>4, <1>9, States
  <2>2. r = Outcome(Keyed(3), <<Third>>, TRUE)
    BY <1>9, <2>1, ServerShakes
  <2> HIDE DEF r
  <2>3. r.obj = Keyed(3) /\ r.out = <<Third>> /\ r.ended = TRUE
    BY <2>2 DEF Outcome
  <2> QED
    BY <1>3, <1>5, <1>9, <2>1, <2>3
<1>10. CASE /\ client[f] = Keyed(3) /\ ag[f].obj = Keyed(3) /\ InFlight(f, Asks)
            /\ \A n \in DOMAIN s2c[f] : s2c[f][n] = Answer
  <2>1. b \in Asks /\ ag[f].obj.m_state = 3
    BY <1>4, <1>10, States
  <2>2. PICK what \in Wishes : b = [key |-> "ckey", msg |-> App(what)]
    BY <2>1 DEF Asks
  <2>3. b.msg.app = what
    BY <2>2 DEF App
  <2> QED
    BY <1>3, <1>10, <2>1, <2>3
<1> QED
  BY <1>6, <1>7, <1>8, <1>9, <1>10


LEMMA AgentDataKeeps ==
  ASSUME SessionInv, NEW f \in Fd, AgentData(f)
  PROVE  SessionInv'
<1>1. TypeInv /\ CountInv /\ LoopInv /\ SocketInv(f)
  BY DEF SessionInv
<1>2. /\ agent_in' \in [Fd -> Queue(AgentTypes)]
      /\ \A g \in Fd : \A n \in DOMAIN agent_in'[g] : agent_in'[g][n].fd = g
      /\ \A g \in Fd : g # f => agent_in'[g] = agent_in[g]
      /\ Removed(agent_in[f], agent_in'[f], "data", Head(agent_in[f]).body, f)
      /\ Has(agent_in[f], "data", f)
  BY <1>1, AgentTakes DEF AgentData
<1>3. ag[f].st = "up"
  BY <1>1, <1>2 DEF AgentData, AgentGets, SocketInv, Born, Hushed
<1>4. \/ /\ client[f] = Plain(1) /\ ag' = [ag EXCEPT ![f].obj = Plain(1)]
         /\ s2c[f] = <<>> /\ s2c' = s2c /\ wd_in' = wd_in /\ Silent(f)'
      \/ /\ client[f] = Plain(1) /\ ag[f].obj = Keyed(1) /\ ag' = [ag EXCEPT ![f].obj = Keyed(2)]
         /\ s2c[f] = <<>> /\ s2c' = SendOut(f, <<Second>>) /\ wd_in' = wd_in /\ Silent(f)'
      \/ /\ client[f] = Plain(2) /\ ag[f].obj = Keyed(2) /\ ag' = [ag EXCEPT ![f].obj = Keyed(3)]
         /\ s2c[f] = <<>> /\ s2c' = SendOut(f, <<Third>>)
         /\ wd_in' = Append(wd_in, Msg("connected", f)) /\ Silent(f)'
      \/ /\ client[f] = Keyed(3) /\ ag[f].obj = Keyed(3) /\ InFlight(f, Asks)
         /\ \A n \in DOMAIN s2c[f] : s2c[f][n] = Answer
         /\ ag' = ag /\ s2c' = s2c
         /\ \E what \in Wishes : wd_in' = Append(wd_in, With("recv", f, what))
  BY DataCases
<1>5. /\ s2c' \in [Fd -> Seq({Second, Third, Answer})] /\ \A g \in Fd : g # f => s2c'[g] = s2c[g]
      /\ s2c' = SendOut(f, <<Second>>) /\ s2c[f] = <<>> => s2c'[f] \in {<<>>, <<Second>>}
      /\ s2c' = SendOut(f, <<Third>>) /\ s2c[f] = <<>> => s2c'[f] \in {<<>>, <<Third>>}
  <2>1. CASE s2c' = s2c
    BY <1>1, <2>1 DEF TypeInv, NetType
  <2>2. CASE s2c' = SendOut(f, <<Second>>)
    BY <1>1, <2>2, SendsOut
  <2>3. CASE s2c' = SendOut(f, <<Third>>)
    BY <1>1, <2>3, SendsOut
  <2> QED
  BY <1>4, <2>1, <2>2, <2>3
<1>6. /\ ag' \in [Fd -> [st : {"none", "new", "up", "leaving", "exited"},
                         obj : {Plain(0), Plain(1), Keyed(1), Keyed(2), Keyed(3)}]]
      /\ \A g \in Fd : g # f => ag'[g] = ag[g]
      /\ ag'[f].st = ag[f].st
      /\ \A x : ag' = [ag EXCEPT ![f].obj = x] => ag'[f].obj = x
  <2> DEFINE O == {Plain(0), Plain(1), Keyed(1), Keyed(2), Keyed(3)}
  <2>1. ag \in [Fd -> [st : {"none", "new", "up", "leaving", "exited"}, obj : O]]
    BY <1>1 DEF TypeInv, AgentType
  <2>2. ag' = ag \/ \E x \in O : ag' = [ag EXCEPT ![f].obj = x]
    BY <1>4, Zenon
  <2> HIDE DEF O
  <2>3. /\ ag' \in [Fd -> [st : {"none", "new", "up", "leaving", "exited"}, obj : O]]
        /\ \A g \in Fd : g # f => ag'[g] = ag[g]
        /\ ag'[f].st = ag[f].st
    BY <2>1, <2>2
  <2>4. \A x : ag' = [ag EXCEPT ![f].obj = x] => ag'[f].obj = x
    BY <2>1
  <2> QED
    BY <2>3, <2>4 DEF O
<1>7. /\ wd_in' \in Queue(WdTypes) /\ \A g \in Fd : g # f => Alike(wd_in, wd_in', g)
      /\ \/ Alike(wd_in, wd_in', f)
         \/ Added(wd_in, wd_in', "connected", Nobody, f)
         \/ client[f] = Keyed(3) /\ \E what \in Wishes : Added(wd_in, wd_in', "recv", what, f)
  <2>1. wd_in \in Queue(WdTypes)
    BY <1>1 DEF TypeInv, WdType
  <2>2. CASE wd_in' = wd_in
    BY <2>1, <2>2, AlikeSame
  <2>3. CASE wd_in' = Append(wd_in, Msg("connected", f))
    BY <2>1, <2>3, PutMsg, TypesOf
  <2>4. CASE client[f] = Keyed(3) /\ \E what \in Wishes : wd_in' = Append(wd_in, With("recv", f, what))
    BY <2>1, <2>4, Put, TypesOf, Payloads
  <2> QED
  BY <1>4, <2>2, <2>3, <2>4
<1>8. /\ sock'[f] = sock[f] /\ client'[f] = client[f] /\ c2s'[f] = c2s[f] /\ SameGate(f) /\ SameWd(f)
      /\ SameScript(f) /\ Alike(gate_in, gate_in', f)
  BY <1>1, AlikeSame DEF AgentData, gate, watchdog, SameNet, SameGate, SameWd, SameScript, SameAgent, LoggingIn, script
<1>9. ASSUME NEW g \in Fd, g # f PROVE Same(g)
  BY <1>1, <1>2, <1>5, <1>6, <1>7, <1>9, AlikeSame DEF AgentData, gate, watchdog, Same, SameNet, SameGate, SameWd, SameScript, SameAgent, LoggingIn, script
<1>10. TypeInv'
  <2>1. NetType'
    BY <1>1, <1>5 DEF AgentData, TypeInv, NetType
  <2>2. GateType'
    BY <1>1 DEF AgentData, net, gate, watchdog, TypeInv, GateType, script
  <2>3. WdType'
    BY <1>1, <1>7 DEF AgentData, watchdog, TypeInv, WdType, script
  <2>4. ScriptType'
    BY <1>1 DEF AgentData, net, gate, watchdog, TypeInv, ScriptType, TablesType, script
  <2>5. AgentType'
    BY <1>2, <1>6 DEF AgentType
  <2> QED
    BY <2>1, <2>2, <2>3, <2>4, <2>5 DEF TypeInv
<1>11. CountInv'
  BY <1>1 DEF CountInv, AgentData, gate
<1>12. LoopInv'
  BY <1>1 DEF LoopInv, AgentData, watchdog, script
<1>13. SocketInv(f)'
  <2> USE DEF SameNet, SameGate, SameWd, SameScript, SameAgent, Alike, Added, Removed, script
  <2>1. Unborn(f)'
    BY <1>1, <1>2, <1>3, <1>6, <1>7, <1>8 DEF SocketInv, Unborn
  <2>2. Born(f)'
    BY <1>1, <1>2, <1>3, <1>6, <1>7, <1>8 DEF SocketInv, Born
  <2>3. Opening(f)'
    BY <1>1, <1>2, <1>3, <1>6, <1>7, <1>8 DEF SocketInv, Opening
  <2>4. Counted(f)'
    BY <1>1, <1>2, <1>3, <1>6, <1>7, <1>8 DEF SocketInv, Counted
  <2>5. Leaving(f)'
    BY <1>1, <1>2, <1>3, <1>6, <1>7, <1>8 DEF SocketInv, Leaving
  <2>6. Hushed(f)'
    BY <1>1, <1>2, <1>3, <1>6, <1>7, <1>8 DEF SocketInv, Hushed, Leaving, Forgets
  <2>7. Keys(f)'
    <3>1. Awaited(f)' => Awaited(f)
      BY <1>2, <1>7, <1>8 DEF Awaited
    <3>2. ag'[f].obj \in {Plain(0), Plain(1)} \/ ag[f].obj \notin {Plain(0), Plain(1)} \/ ag'[f].obj = ag[f].obj
      BY <1>4, <1>6, States
    <3> QED
      BY <1>1, <1>2, <1>3, <1>7, <1>8, <3>1, <3>2 DEF SocketInv, Keys
  <2>8. Shaking(f)'
    <3>1. CASE client[f] = Keyed(3)
      <4>1. /\ client[f] = Keyed(3) /\ ag[f].obj = Keyed(3) /\ InFlight(f, Asks)
            /\ \A n \in DOMAIN s2c[f] : s2c[f][n] = Answer
            /\ ag' = ag /\ s2c' = s2c
        BY <1>4, <3>1, States
      <4>2. InFlight(f, Asks)'
        BY <1>2, <1>8, <4>1 DEF InFlight
      <4> QED
        BY <1>8, <4>1, <4>2 DEF Shaking
    <3>2. CASE client[f] = Plain(1)
      BY <1>4, <1>5, <1>6, <1>8, <3>2, States DEF Shaking
    <3>3. CASE client[f] = Plain(2)
      BY <1>4, <1>5, <1>6, <1>8, <3>3, States DEF Shaking
    <3> QED
      BY <1>4, <3>1, <3>2, <3>3
  <2> QED
    BY <2>1, <2>2, <2>3, <2>4, <2>5, <2>6, <2>7, <2>8 DEF SocketInv
<1> QED
  BY <1>9, <1>10, <1>11, <1>12, <1>13, Assemble

-----------------------------------------------------------------------------
(* The invariant.                                                          *)

LEMMA InitSession == Init => SessionInv
<1> SUFFICES ASSUME Init PROVE SessionInv
  OBVIOUS
<1>1. \A S : <<>> \in Seq(S)
  OBVIOUS
<1>2. \A T : <<>> \in Queue(T)
  BY <1>1 DEF Queue
<1>3. NetType
  BY <1>1, Objects DEF Init, NetType
<1>4. GateType
  <2>1. bound.maxclient \in Nat
    BY SessionAssumption DEF Init, Bound
  <2> QED
    BY <1>2, <2>1 DEF Init, GateType
<1>5. WdType
  BY <1>2 DEF Init, WdType, Watch
<1>6. ScriptType
  BY <1>1 DEF Init, ScriptType, TablesType, Tables, Maps, News
<1>7. AgentType
  BY <1>2, Objects DEF Init, AgentType
<1>8. CountInv
  <2>1. {f \in Fd : gs.connection[f] # "nil"} = {}
    BY DEF Init
  <2>2. gs.client_number = 0 /\ gs.maxclient \in Nat
    BY SessionAssumption DEF Init, Bound
  <2>3. Cardinality({}) = 0
    BY FS_EmptySet
  <2> QED
    BY <2>1, <2>2, <2>3 DEF CountInv
<1>9. LoopInv
  BY DEF Init, LoopInv
<1>10. ASSUME NEW f \in Fd PROVE SocketInv(f)
  <2>1. ~LoggingIn(f)
    BY SessionAssumption DEF Init, LoggingIn, Idle
  <2>2. /\ sock[f] = "none" /\ client[f] = Plain(0) /\ c2s[f] = <<>> /\ s2c[f] = <<>> /\ gate_in = <<>>
        /\ gs.connection[f] = "nil" /\ connection[f] = "nil" /\ wd_in = <<>>
        /\ wd.agent = {} /\ wd.open[f] = "no" /\ wd.kick[f] = "no" /\ agent_in[f] = <<>>
        /\ ag[f].st = "none" /\ ag[f].obj = Plain(0) /\ lost = {}
    BY Objects DEF Init
  <2> USE <2>1, <2>2, EmptyQueue
  <2>3. Unborn(f)
    BY DEF Unborn
  <2>4. Born(f)
    BY DEF Born
  <2>5. Opening(f)
    BY DEF Opening
  <2>6. Counted(f)
    BY DEF Counted
  <2>7. Leaving(f)
    BY DEF Leaving
  <2>8. Hushed(f)
    BY DEF Hushed
  <2>9. Keys(f)
    BY DEF Keys, Awaited
  <2>10. Shaking(f)
    BY DEF Shaking, Silent
  <2> QED
    BY <2>3, <2>4, <2>5, <2>6, <2>7, <2>8, <2>9, <2>10 DEF SocketInv
<1> QED
  BY <1>3, <1>4, <1>5, <1>6, <1>7, <1>8, <1>9, <1>10 DEF SessionInv, TypeInv

LEMMA NextSession == SessionInv /\ [Next]_vars => SessionInv'
<1> SUFFICES ASSUME SessionInv, [Next]_vars PROVE SessionInv'
  OBVIOUS
<1>1. CASE UNCHANGED vars
  <2>1. TypeInv' /\ CountInv' /\ LoopInv'
    BY <1>1 DEF vars, SessionInv, TypeInv, NetType, GateType, WdType, ScriptType, TablesType, AgentType, CountInv, LoopInv, script
  <2>2. ASSUME NEW f \in Fd PROVE Same(f)
    BY <1>1, AlikeSame DEF vars, Same, SameNet, SameGate, SameWd, SameScript, SameAgent, LoggingIn, script
  <2> QED
    BY <2>1, <2>2, SameInv DEF SessionInv
<1>2. ASSUME NEW f \in Fd, Client(f) PROVE SessionInv'
  BY <1>2, ConnectKeeps, ClientRecvKeeps, ClientAsksKeeps, ReadKeeps, HangUpKeeps DEF Client
<1>3. ASSUME NEW f \in Fd, SocketClosed(f) PROVE SessionInv'
  BY <1>3, SocketClosedKeeps
<1>4. ASSUME NEW f \in Fd, Gate(f) PROVE SessionInv'
  <2>1. ASSUME GateOpen(f) PROVE SessionInv'
    <3>1. gs.client_number >= gs.maxclient \/ gs.client_number < gs.maxclient
      BY <2>1 DEF GateOpen
    <3> QED
      BY <2>1, <3>1, GateRefusesKeeps, GateAcceptsKeeps
  <2>2. ASSUME GateForward(f) PROVE SessionInv'
    BY <2>2, GateForwardGoneKeeps, GateForwardsKeeps
  <2> QED
    BY <1>4, <2>1, <2>2, GateDataKeeps, GateCloseKeeps, GateKickKeeps DEF Gate
<1>5. ASSUME NEW f \in Fd, Watchdog(f) PROVE SessionInv'
  BY <1>5, OpenKeeps, LaunchKeeps, LaunchFailsKeeps, StartedKeeps, OpenedKeeps, CloseKeeps, KickedKeeps,
     ConnectedKeeps, DisconnectedKeeps, RecvDataKeeps DEF Watchdog
<1>6. ASSUME NEW f \in Fd, Agent(f) PROVE SessionInv'
  BY <1>6, AgentStartKeeps, AgentOpenedKeeps, AgentDataKeeps, AgentSendKeeps, AgentDisconnectKeeps,
     AgentExitsKeeps DEF Agent
<1> QED
  BY <1>1, <1>2, <1>3, <1>4, <1>5, <1>6, BroadcastKeeps, LoginGoesOnKeeps, CloseAllKeeps DEF Next

\* The counts of the gate, the way of every connection to its agent and out
\* again, and the handshake, as one invariant of the specification.
THEOREM SessionHolds == Spec => []SessionInv
  BY InitSession, NextSession, PTL DEF Spec

-----------------------------------------------------------------------------
(* userToFdTab and fdToUserIdTab.                                          *)

\* A user is reached over the socket that he is on, or over one where another
\* has taken his place.
UsersInv ==
    \A f \in Fd, u \in User : user.toFd[u] = f => (user.toUser[f] = u \/ <<f, u>> \in over)

\* What a step may do to the two tables.
UserStep ==
    \/ UNCHANGED <<user, over>>
    \/ \E f \in Fd : user' = onLogoutUser(user, f) /\ over' = over
    \/ \E f \in Fd, u \in User :
          \/ user' = LoginEnds(user, f, u) /\ over' = over
          \/ /\ user' \in {LoginTables(user, f, u), LoginEnds(LoginTables(user, f, u), f, u)}
             /\ over' = Replaces(f, u)

LEMMA GoesUser ==
  ASSUME NEW n, NEW f \in Fd, NEW u \in User, NEW from, Goes(n, f, u, from)
  PROVE  UserStep
<1>1. \/ UNCHANGED <<user, over>>
      \/ user' = LoginTables(user, f, u) /\ over' = Replaces(f, u)
      \/ user' = LoginEnds(user, f, u) /\ over' = over
      \/ user' = LoginEnds(LoginTables(user, f, u), f, u) /\ over' = Replaces(f, u)
  BY DEF Goes
<1> QED
  BY <1>1 DEF UserStep

LEMMA UserSteps ==
  ASSUME SessionInv, [Next]_vars
  PROVE  UserStep
<1>1. CASE UNCHANGED vars
  BY <1>1 DEF vars, UserStep
<1>2. ASSUME NEW f \in Fd, Client(f) \/ SocketClosed(f) PROVE UserStep
  BY <1>2 DEF Client, Connect, ClientRecv, ClientAsks, Read, HangUp, SocketClosed, watchdog, script, UserStep
<1>3. ASSUME NEW f \in Fd, Gate(f) PROVE UserStep
  BY <1>3 DEF Gate, GateOpen, GateData, GateClose, GateForward, GateKick, watchdog, script, UserStep
<1>4. ASSUME NEW f \in Fd, Agent(f) PROVE UserStep
  BY <1>4 DEF Agent, AgentStart, AgentOpened, AgentData, AgentSend, AgentDisconnect, AgentExits,
              watchdog, script, UserStep
<1>5. ASSUME NEW f \in Fd, Broadcast(f) PROVE UserStep
  BY <1>5 DEF Broadcast, UserStep
<1>6. ASSUME NEW f \in Fd, Open(f) \/ Launched(f) \/ Started(f) \/ Opened(f) PROVE UserStep
  BY <1>6 DEF Open, Launched, Started, Opened, watchdog, script, UserStep
<1>7. ASSUME NEW w, w.agent \subseteq Fd, NextAgent(w) PROVE UserStep
  BY <1>7 DEF NextAgent, close_agent, notifyDisiconnected, UserStep
<1>8. ASSUME NEW f \in Fd, Close(f) \/ Kicked(f) \/ Connected(f) \/ Disconnected(f) PROVE UserStep
  <2>1. CASE Close(f)
    BY <2>1 DEF Close, close_agent, notifyDisiconnected, UserStep
  <2>2. CASE Kicked(f)
    <3> DEFINE w == [wd EXCEPT !.kick[f] = "no"]
    <3>1. w.agent \subseteq Fd
      BY DEF SessionInv, TypeInv, WdType, Watch
    <3>2. UNCHANGED <<user, over>> \/ NextAgent(w)
      BY <2>2 DEF Kicked
    <3> HIDE DEF w
    <3> QED
      BY <1>7, <3>1, <3>2 DEF UserStep
  <2>3. CASE Connected(f) \/ Disconnected(f)
    BY <2>3 DEF Connected, Disconnected, notifyConnected, notifyDisiconnected, UserStep
  <2> QED
    BY <1>8, <2>1, <2>2, <2>3
<1>9. ASSUME NEW f \in Fd, RecvData(f) PROVE UserStep
  <2> DEFINE what == Head(wd_in).body
  <2>1. what \in Wishes
    <3>1. TypeInv /\ SocketInv(f)
      BY DEF SessionInv
    <3>2. Has(wd_in, "recv", f) /\ Removed(wd_in, wd_in', "recv", what, f)
      BY <1>9, <3>1, WatchdogTakes DEF RecvData
    <3> QED
      BY <3>1, <3>2 DEF SocketInv, Keys, Removed
  <2>2. \/ user' = onLogoutUser(user, f) /\ over' = over
        \/ what # "logout" /\ \E n \in Logins : Goes(n, f, what, "start")
    BY <1>9 DEF RecvData
  <2> HIDE DEF what
  <2> QED
    BY <2>1, <2>2, GoesUser DEF UserStep, Wishes
<1>10. ASSUME NEW n \in Logins, LoginGoesOn(n) PROVE UserStep
  <2>1. login[n] \in [fd : Fd, user : User, pc : {"account", "user"}]
    BY <1>10 DEF SessionInv, TypeInv, ScriptType, LoginGoesOn
  <2>2. login[n].fd \in Fd /\ login[n].user \in User /\ Goes(n, login[n].fd, login[n].user, login[n].pc)
    BY <1>10, <2>1 DEF LoginGoesOn
  <2> QED
    BY <2>2, GoesUser
<1>11. ASSUME CloseAll PROVE UserStep
  <2> DEFINE w == [wd EXCEPT !.left = wd.agent]
  <2>1. w.agent \subseteq Fd
    BY DEF SessionInv, TypeInv, WdType, Watch
  <2>2. NextAgent(w)
    BY <1>11 DEF CloseAll
  <2> HIDE DEF w
  <2> QED
    BY <1>7, <2>1, <2>2
<1> QED
  BY <1>1, <1>2, <1>3, <1>4, <1>5, <1>6, <1>8, <1>9, <1>10, <1>11 DEF Next, Watchdog

LEMMA UsersNext ==
  ASSUME user \in Tables, UsersInv, UserStep
  PROVE  UsersInv'
<1>1. user.toUser \in [Fd -> User \cup {Nobody}] /\ user.toFd \in [User -> Fd \cup {Nobody}]
  BY DEF Tables
<1>2. Nobody \notin Fd /\ Nobody \notin User
  BY SessionAssumption
<1>3. CASE UNCHANGED <<user, over>>
  BY <1>3 DEF UsersInv
<1>4. ASSUME NEW f \in Fd, user' = onLogoutUser(user, f), over' = over PROVE UsersInv'
  <2>1. /\ user'.toUser = [user.toUser EXCEPT ![f] = Nobody]
        /\ \A u \in User : user'.toFd[u] = IF u = user.toUser[f] THEN Nobody ELSE user.toFd[u]
    BY <1>4, LogsOut
  <2>2. ASSUME NEW g \in Fd, NEW v \in User, user'.toFd[v] = g
        PROVE  user'.toUser[g] = v \/ <<g, v>> \in over'
    <3>1. v # user.toUser[f] /\ user.toFd[v] = g
      BY <1>2, <2>1, <2>2
    <3> QED
      BY <1>1, <1>4, <2>1, <3>1 DEF UsersInv
  <2> QED
    BY <2>2 DEF UsersInv
<1>5. ASSUME NEW f \in Fd, NEW u \in User, user' = LoginEnds(user, f, u), over' = over PROVE UsersInv'
  <2>1. user'.toUser = user.toUser /\ user'.toFd = user.toFd
    BY <1>5, LogsIn
  <2> QED
    BY <1>5, <2>1 DEF UsersInv
<1>6. ASSUME NEW f \in Fd, NEW u \in User, over' = Replaces(f, u),
             user' \in {LoginTables(user, f, u), LoginEnds(LoginTables(user, f, u), f, u)}
      PROVE  UsersInv'
  <2>1. user'.toUser = [user.toUser EXCEPT ![f] = u] /\ user'.toFd = [user.toFd EXCEPT ![u] = f]
    <3>1. /\ LoginTables(user, f, u) \in Tables
          /\ LoginTables(user, f, u).toUser = [user.toUser EXCEPT ![f] = u]
          /\ LoginTables(user, f, u).toFd = [user.toFd EXCEPT ![u] = f]
      BY LogsIn
    <3>2. /\ LoginEnds(LoginTables(user, f, u), f, u).toUser = LoginTables(user, f, u).toUser
          /\ LoginEnds(LoginTables(user, f, u), f, u).toFd = LoginTables(user, f, u).toFd
      BY <3>1, LogsIn
    <3> QED
      BY <1>6, <3>1, <3>2
  <2>2. ASSUME NEW g \in Fd, NEW v \in User, user'.toFd[v] = g
        PROVE  user'.toUser[g] = v \/ <<g, v>> \in over'
    <3>1. CASE v = u
      BY <1>1, <2>1, <2>2, <3>1
    <3>2. CASE v # u
      <4>1. user.toUser[g] = v \/ <<g, v>> \in over
        BY <1>1, <2>1, <2>2, <3>2 DEF UsersInv
      <4>2. over \subseteq over' /\ (user.toUser[f] = v => <<f, v>> \in over')
        BY <1>2, <1>6, <3>2 DEF Replaces
      <4> QED
        BY <1>1, <2>1, <4>1, <4>2
    <3> QED
      BY <3>1, <3>2
  <2> QED
    BY <2>2 DEF UsersInv
<1> QED
  BY <1>3, <1>4, <1>5, <1>6 DEF UserStep

LEMMA UsersHold == Spec => []UsersInv
<1>1. Init => UsersInv
  BY SessionAssumption DEF Init, UsersInv
<1>2. SessionInv /\ UsersInv /\ [Next]_vars => UsersInv'
  <2> SUFFICES ASSUME SessionInv, UsersInv, [Next]_vars PROVE UsersInv'
    OBVIOUS
  <2>1. user \in Tables
    BY DEF SessionInv, TypeInv, ScriptType, TablesType
  <2>2. UserStep
    BY UserSteps
  <2> QED
    BY <2>1, <2>2, UsersNext
<1> QED
  BY <1>1, <1>2, SessionHolds, PTL DEF Spec

-----------------------------------------------------------------------------
(* What it says.                                                           *)

LEMMA CountedOf == SessionInv => ClientsCounted
<1> SUFFICES ASSUME SessionInv PROVE ClientsCounted
  OBVIOUS
<1>1. TypeInv /\ CountInv /\ \A f \in Fd : Counted(f)
  BY DEF SessionInv, SocketInv
<1>2. SessionTypeOK
  <2>1. ASSUME NEW f \in Fd PROVE {client[f].m_state, ag[f].obj.m_state} \subseteq 0 .. 3
    <3>1. client[f].m_state \in 0 .. 3
      <4>1. client[f] \in {Plain(0), Plain(1), Plain(2), Keyed(3)}
        BY <1>1 DEF TypeInv, NetType
      <4> QED
        BY <4>1, States
    <3>2. ag[f].obj \in {Plain(0), Plain(1), Keyed(1), Keyed(2), Keyed(3)}
      BY <1>1 DEF TypeInv, AgentType
    <3>3. ag[f].obj.m_state \in 0 .. 3
      BY <3>2, States
    <3> QED
      BY <3>1, <3>3
  <2>2. \A f \in Fd : ag[f].st \in {"none", "new", "up", "leaving", "exited"}
    BY <1>1 DEF TypeInv, AgentType
  <2>3. login \in [Logins -> [fd : Fd \cup {Nobody}, user : User \cup {Nobody},
                              pc : {"free", "account", "user"}]]
    BY <1>1 DEF TypeInv, ScriptType, TablesType, Idle, script
  <2> QED
    BY <1>1, <2>1, <2>2, <2>3 DEF SessionTypeOK, TypeInv, NetType, GateType, WdType, Watch, ScriptType, TablesType, Tables, Maps, News
<1> QED
  BY <1>1, <1>2 DEF ClientsCounted, CountInv, Counted, InGate, Has

LEMMA KeysOf == SessionInv => KeysAgree
<1> SUFFICES ASSUME SessionInv, NEW f \in Fd
             PROVE  /\ s2c[f] # <<>> => Head(s2c[f]).key = Key(client[f])
                    /\ AgentGets("data", f) => /\ ag[f].st # "new"
                                               /\ Head(agent_in[f]).body.key = Key(ag[f].obj)
  BY DEF KeysAgree
<1>1. TypeInv /\ SocketInv(f) /\ Shaking(f)
  BY DEF SessionInv, SocketInv
<1>2. /\ Hello.key = "handshake" /\ Second.key = "handshake" /\ Third.key = "handshake"
      /\ Answer.key = "ckey" /\ \A x \in Asks : x.key = "ckey"
  BY DEF Hello, Second, Third, Answer, Asks
<1>3. ASSUME s2c[f] # <<>> PROVE Head(s2c[f]).key = Key(client[f])
  <2>1. Head(s2c[f]) = s2c[f][1] /\ 1 \in DOMAIN s2c[f]
    BY <1>1, <1>3, TailOf DEF TypeInv, NetType
  <2>2. CASE s2c[f] = <<Second>> /\ client[f] = Plain(1)
    BY <1>2, <2>2, KeyOf, Single
  <2>3. CASE s2c[f] = <<Third>> /\ client[f] = Plain(2)
    BY <1>2, <2>3, KeyOf, Single
  <2>4. CASE client[f] = Keyed(3) /\ \A n \in DOMAIN s2c[f] : s2c[f][n] = Answer
    BY <1>2, <2>1, <2>4, KeyOf
  <2> QED
    BY <1>1, <1>3, <2>2, <2>3, <2>4 DEF Shaking
<1>4. ASSUME AgentGets("data", f) PROVE ag[f].st # "new" /\ Head(agent_in[f]).body.key = Key(ag[f].obj)
  <2> DEFINE b == Head(agent_in[f]).body
             q == agent_in[f]
  <2>1. q # <<>> /\ Head(q).type = "data"
    BY <1>4 DEF AgentGets
  <2>2. 1 \in DOMAIN q /\ q[1] = Head(q) /\ q[1].fd = f
    <3>1. q \in Seq([type : AgentTypes, fd : Fd, body : Bodies])
      BY <1>1 DEF TypeInv, AgentType, Queue
    <3>2. 1 \in DOMAIN q /\ q[1] = Head(q)
      BY <2>1, <3>1, TailOf
    <3> QED
      BY <1>1, <3>2 DEF TypeInv, AgentType
  <2>3. Has(q, "data", f) /\ \A B : InFlight(f, B) => b \in B
    BY <2>1, <2>2 DEF Has, InFlight, Carries
  <2>4. ag[f].st # "new"
    BY <1>1, <2>3 DEF SocketInv, Born
  <2> HIDE DEF b
  <2>5. \/ ag[f].obj \in {Plain(0), Keyed(1)} /\ b = Hello
        \/ ag[f].obj = Keyed(2) /\ b = Second
        \/ ag[f].obj = Keyed(3) /\ b \in Asks
    BY <1>1, <2>3 DEF Shaking, Silent
  <2>6. b.key = Key(ag[f].obj)
    BY <1>2, <2>5, KeyOf
  <2> QED
    BY <2>4, <2>6 DEF b
<1> QED
  BY <1>3, <1>4

LEMMA ReleasedOf == SessionInv => AgentReleased
<1> SUFFICES ASSUME SessionInv, NEW f \in Fd, ag[f].st \in {"new", "up", "leaving"}, gs.connection[f] = "nil"
             PROVE  \/ f \in lost
                    \/ f \in wd.agent /\ InWatchdog("close", f)
                    \/ wd.kick[f] # "no" /\ (InGate("kick", f) \/ InWatchdog("kicked", f))
                    \/ Told(f, "disconnect")
                    \/ ag[f].st = "leaving" /\ (InWatchdog("disconnected", f) \/ Told(f, "answer"))
  BY DEF AgentReleased
<1>1. \A a : /\ Has(agent_in[f], a, f) => Told(f, a)
             /\ Has(gate_in, a, f) => InGate(a, f)
             /\ Has(wd_in, a, f) => InWatchdog(a, f)
  BY DEF Has, Told, InGate, InWatchdog
<1> QED
  BY <1>1 DEF SessionInv, SocketInv, Leaving

\* The gate counts its clients exactly and never above maxclient, although a
\* kick that crosses a close makes the socket thread report the end twice; and
\* what it counts has a socket or a close on its way (gateserver.lua).
THEOREM CountHolds == Spec => []ClientsCounted
  BY SessionHolds, CountedOf, PTL

\* Client and agent unpack every message with the key it was packed with, and
\* an agent gets no data before it is started (pack.lua, agent.lua).
THEOREM KeysHold == Spec => []KeysAgree
  BY SessionHolds, KeysOf, PTL

\* When the agent of a socket has exited, the watchdog has no agent there, no
\* user is on the socket or reached over it, and the broadcast has lost it or
\* is going to; but for a login that waited for the database then, and for the
\* users whose place another one took on the socket, whom userToFdTab keeps.
\* Nothing is claimed of m_userInfoTab (watchdog.lua, script.lua, user,
\* broadcast.lua).
THEOREM ResidueHolds == Spec => []NoResidue
<1>1. SessionInv /\ UsersInv => NoResidue
  <2> SUFFICES ASSUME SessionInv, UsersInv, NEW f \in Fd, ag[f].st = "exited"
               PROVE  /\ f \notin wd.agent
                      /\ \/ f \in late
                         \/ /\ user.toUser[f] = Nobody
                            /\ \A u \in User : user.toFd[u] = f => <<f, u>> \in over
                            /\ Forgets(f)
    BY DEF NoResidue
  <2>1. f \notin wd.agent /\ (f \in late \/ (user.toUser[f] = Nobody /\ Forgets(f)))
    BY DEF SessionInv, SocketInv, Leaving, Hushed
  <2>2. user.toUser[f] = Nobody => \A u \in User : user.toFd[u] = f => <<f, u>> \in over
    BY SessionAssumption DEF UsersInv
  <2> QED
    BY <2>1, <2>2
<1> QED
  BY <1>1, SessionHolds, UsersHold, PTL

\* An agent whose connection has gone is on its way out, but for those that
\* closeSocket has dropped from the table (watchdog.lua, agent.lua).
THEOREM ReleaseHolds == Spec => []AgentReleased
  BY SessionHolds, ReleasedOf, PTL
=============================================================================
