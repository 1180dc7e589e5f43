---------------------------- MODULE ClientSession ----------------------------
(* The life of a client connection: the gate (gateserver.lua, gate.lua), the *)
(* watchdog with the script that runs in it (watchdog.lua, script.lua, user, *)
(* login), the service broadcast that the script sends to (broadcast.lua)    *)
(* and one agent for each connection (agent.lua).  Each service handles its  *)
(* messages in order, one at a time; a handler of the watchdog that calls    *)
(* somebody is continued when the answer comes, and other messages are       *)
(* handled in between.                                                       *)
EXTENDS MsgPack, Sequences, FiniteSets

CONSTANTS
    Fd,             \* the sockets that clients may have; an id is used once
    User,           \* the users with an account
    MaxApp,         \* bound: requests that the clients make in all
    Bounds          \* the bounds to choose from, see Bound

Nobody == "nobody"

\* maxclient of the configuration, the clients that send anything, the requests
\* that they make in all, and whether the server is told to close.
Bound == [maxclient : Nat, talkers : SUBSET Fd, apps : 0 .. MaxApp, closing : BOOLEAN]

ASSUME SessionAssumption ==
    /\ IsFiniteSet(Fd)
    /\ IsFiniteSet(User)
    /\ MaxApp \in Nat
    /\ Bounds \subseteq Bound
    /\ Nobody \notin Fd \cup User

VARIABLES
    sock,       \* the sockets as the socket thread has them
    client,     \* the pack object of each client
    c2s, s2c,   \* the bytes under way, as the messages they hold
    gate_in,    \* messages of the gate
    gs,         \* gateserver: connection, client_number and maxclient
    connection, \* gate: "nil", or whether an agent is set
    wd_in,      \* messages of the watchdog
    wd,         \* watchdog: agent, and where its suspended handlers are
    agent_in,   \* messages of each agent
    ag,         \* the agents
    user,       \* tables of the script: userToFdTab, fdToUserIdTab, m_userInfoTab
    bc_in,      \* messages of the broadcast, those of each socket apart
    bc,         \* broadcast: agentTab and fdMap
    login,      \* login requests that wait for the database
    bound,      \* the bounds chosen, and
    apps,       \* the number of requests made
    late,       \* history: sockets with a login under way at the last notification
    over,       \* history: sockets and users that another login there has replaced
    lost        \* history: agents that closeSocket has forgotten

vars == <<sock, client, c2s, s2c, gate_in, gs, connection, wd_in, wd, agent_in, ag,
          user, bc_in, bc, login, bound, apps, late, over, lost>>

net      == <<sock, client, c2s, s2c>>
gate     == <<gs, connection>>
script   == <<user, over, bc_in, bc>>
watchdog == <<wd, script, login, late, lost>>

Logins == 1 .. MaxApp

Idle == [fd |-> Nobody, user |-> Nobody, pc |-> "free"]

Init ==
    /\ sock = [f \in Fd |-> "none"]
    /\ client = [f \in Fd |-> Made]
    /\ c2s = [f \in Fd |-> <<>>]
    /\ s2c = [f \in Fd |-> <<>>]
    /\ gate_in = <<>>
    /\ bound \in Bounds
    /\ gs = [connection |-> [f \in Fd |-> "nil"], client_number |-> 0,
             maxclient |-> bound.maxclient]
    /\ connection = [f \in Fd |-> "nil"]
    /\ wd_in = <<>>
    /\ wd = [agent |-> {}, open |-> [f \in Fd |-> "no"], kick |-> [f \in Fd |-> "no"],
             all |-> "no", left |-> {}, grown |-> FALSE]
    /\ agent_in = [f \in Fd |-> <<>>]
    /\ ag = [f \in Fd |-> [st |-> "none", obj |-> Made]]
    /\ user = [toFd |-> [u \in User |-> Nobody], toUser |-> [f \in Fd |-> Nobody],
               info |-> [u \in User |-> Nobody]]
    /\ bc_in = [f \in Fd |-> <<>>]
    /\ bc = [agentTab |-> {}, fdMap |-> [f \in Fd |-> "nil"]]
    /\ login = [n \in Logins |-> Idle]
    /\ apps = 0
    /\ late = {}
    /\ over = {}
    /\ lost = {}

Msg(type, f) == [type |-> type, fd |-> f, body |-> Nobody]
With(type, f, body) == [type |-> type, fd |-> f, body |-> body]

\* An agent that has exited takes no messages.
ToAgent(box, f, m) ==
    IF ag[f].st = "exited" THEN box ELSE [box EXCEPT ![f] = Append(@, m)]

-----------------------------------------------------------------------------
(* The clients and the socket thread.  A socket that has been accepted is    *)
(* polled only after socketdriver.start.  A close stands also for an error:  *)
(* the services treat both alike, and only log them differently.             *)

\* Variant of Readable: a socket is polled as soon as it is accepted.
ReadableEarly(f) == sock[f] \in {"accepted", "open"}

Readable(f) == sock[f] = "open"

\* A client connects and, unless it stays silent, sends its first handshake.
Connect(f) ==
    /\ sock[f] = "none"
    /\ sock' = [sock EXCEPT ![f] = "accepted"]
    /\ client' = [client EXCEPT ![f] = StartClient(@)]
    /\ c2s' = IF f \in bound.talkers
              THEN [c2s EXCEPT ![f] = <<Packed(client'[f], Shake(nil, checknotip, FALSE))>>]
              ELSE c2s
    /\ gate_in' = Append(gate_in, Msg("open", f))
    /\ UNCHANGED <<s2c, gate, wd_in, watchdog, agent_in, ag, apps>>

\* The client unpacks a message.
ClientRecv(f) ==
    LET m == Head(s2c[f])
        r == ClientShake(client[f], m.msg)
    IN  /\ s2c[f] # <<>>
        /\ s2c' = [s2c EXCEPT ![f] = Tail(@)]
        /\ IF client[f].m_state = 3
           THEN UNCHANGED <<client, c2s>>
           ELSE /\ client' = [client EXCEPT ![f] = r.obj]
                /\ c2s' = [c2s EXCEPT ![f] = @ \o r.out]
        /\ UNCHANGED <<sock, gate_in, gate, wd_in, watchdog, agent_in, ag, apps>>

\* The client, whose handshake has ended, logs in or out.
ClientAsks(f) ==
    /\ client[f].m_state = 3
    /\ sock[f] = "open"
    /\ apps < bound.apps
    /\ apps' = apps + 1
    /\ \E what \in User \cup {"logout"} :
          c2s' = [c2s EXCEPT ![f] = Append(@, Packed(client[f], App(what)))]
    /\ UNCHANGED <<sock, client, s2c, gate_in, gate, wd_in, watchdog, agent_in, ag>>

\* The socket thread reads.
Read(f) ==
    /\ Readable(f)
    /\ c2s[f] # <<>>
    /\ c2s' = [c2s EXCEPT ![f] = Tail(@)]
    /\ gate_in' = Append(gate_in, With("data", f, Head(c2s[f])))
    /\ UNCHANGED <<sock, client, s2c, gate, wd_in, watchdog, agent_in, ag, apps>>

\* The client hangs up, or the connection fails and what it had sent may be lost.
HangUp(f) ==
    /\ Readable(f)
    /\ sock' = [sock EXCEPT ![f] = "closed"]
    /\ gate_in' = Append(gate_in, Msg("close", f))
    /\ c2s' = [c2s EXCEPT ![f] = <<>>]
    /\ s2c' = [s2c EXCEPT ![f] = <<>>]
    /\ UNCHANGED <<client, gate, wd_in, watchdog, agent_in, ag, apps>>

\* socketdriver.close: what is still to be sent is sent first, and a socket that
\* has gone already is reported again.
CloseSocket(f, box) ==
    IF sock[f] = "closed"
    THEN gate_in' = Append(box, Msg("close", f)) /\ UNCHANGED <<sock, c2s>>
    ELSE /\ sock' = [sock EXCEPT ![f] = "half"]
         /\ c2s' = [c2s EXCEPT ![f] = <<>>]
         /\ gate_in' = box

\* The socket is closed, or fails before everything is sent.
SocketClosed(f) ==
    /\ sock[f] = "half"
    /\ sock' = [sock EXCEPT ![f] = "closed"]
    /\ gate_in' = Append(gate_in, Msg("close", f))
    /\ s2c' = [s2c EXCEPT ![f] = <<>>]
    /\ UNCHANGED <<client, c2s, gate, wd_in, watchdog, agent_in, ag, apps>>

\* socketdriver.start
StartSocket(f, box) ==
    \/ /\ sock[f] # "closed"
       /\ sock' = [sock EXCEPT ![f] = IF @ = "accepted" THEN "open" ELSE @]
       /\ gate_in' = box
    \/ /\ sock[f] \in {"accepted", "closed"}
       /\ sock' = [sock EXCEPT ![f] = "closed"]
       /\ gate_in' = Append(box, Msg("close", f))

-----------------------------------------------------------------------------
(* The gate. *)

GateGets(type, f) == gate_in # <<>> /\ Head(gate_in).type = type /\ Head(gate_in).fd = f

\* MSG.open
GateOpen(f) ==
    /\ GateGets("open", f)
    /\ \/ /\ gs.client_number >= gs.maxclient
          /\ CloseSocket(f, Tail(gate_in))
          /\ UNCHANGED <<gate, wd_in>>
       \/ /\ gs.client_number < gs.maxclient
          /\ gs' = [gs EXCEPT !.connection[f] = "true", !.client_number = @ + 1]
          /\ connection' = [connection EXCEPT ![f] = "noagent"]
          /\ wd_in' = Append(wd_in, Msg("open", f))
          /\ gate_in' = Tail(gate_in)
          /\ UNCHANGED <<sock, c2s>>
    /\ UNCHANGED <<client, s2c, watchdog, agent_in, ag, apps>>

\* MSG.data: to the agent once there is one, else the watchdog prints it.
GateData(f) ==
    /\ GateGets("data", f)
    /\ gate_in' = Tail(gate_in)
    /\ agent_in' = IF gs.connection[f] = "true" /\ connection[f] = "agent"
                   THEN ToAgent(agent_in, f, Head(gate_in)) ELSE agent_in
    /\ UNCHANGED <<net, gate, wd_in, watchdog, ag, apps>>

\* Variant of gs_close_fd: counts a connection down whether it is known or not.
gs_close_always(f) == [gs EXCEPT !.connection[f] = "nil", !.client_number = @ - 1]

\* close_fd of gateserver
gs_close_fd(f) ==
    IF gs.connection[f] = "nil" THEN gs
    ELSE [gs EXCEPT !.connection[f] = "nil", !.client_number = @ - 1]

\* MSG.close and MSG.error
GateClose(f) ==
    /\ GateGets("close", f)
    /\ gate_in' = Tail(gate_in)
    /\ gs' = gs_close_fd(f)
    /\ connection' = [connection EXCEPT ![f] = "nil"]
    /\ wd_in' = Append(wd_in, Msg("close", f))
    /\ UNCHANGED <<net, watchdog, agent_in, ag, apps>>

\* CMD.forward; a connection that has gone raises an error, and the caller's too.
GateForward(f) ==
    /\ GateGets("forward", f)
    /\ \/ /\ connection[f] = "nil"
          /\ gate_in' = Tail(gate_in)
          /\ UNCHANGED <<sock, connection, wd_in>>
       \/ /\ connection[f] # "nil"
          /\ connection' = [connection EXCEPT ![f] = "agent"]
          /\ IF gs.connection[f] = "true" THEN StartSocket(f, Tail(gate_in))
             ELSE gate_in' = Tail(gate_in) /\ UNCHANGED sock
          /\ wd_in' = Append(wd_in, Msg("opened", f))
    /\ UNCHANGED <<client, c2s, s2c, gs, watchdog, agent_in, ag, apps>>

\* CMD.kick
GateKick(f) ==
    /\ GateGets("kick", f)
    /\ wd_in' = Append(wd_in, Msg("kicked", f))
    /\ IF gs.connection[f] = "true"
       THEN /\ gs' = [gs EXCEPT !.connection[f] = "false"]
            /\ CloseSocket(f, Tail(gate_in))
       ELSE gate_in' = Tail(gate_in) /\ UNCHANGED <<gs, sock, c2s>>
    /\ UNCHANGED <<client, s2c, connection, watchdog, agent_in, ag, apps>>

-----------------------------------------------------------------------------
(* The tables of the script, and the broadcast.  What is said to the         *)
(* broadcast of one socket changes nothing for another: their messages are   *)
(* kept apart, each socket's in the order in which they were sent.           *)

\* g_gameuser.onLogoutUser
onLogoutUser(t, f) ==
    LET u == t.toUser[f]
    IN  [t EXCEPT !.toFd = IF u = Nobody THEN @ ELSE [@ EXCEPT ![u] = Nobody],
                  !.toUser[f] = Nobody]

Tells(f, what) == [bc_in EXCEPT ![f] = @ \o what]

\* script.notifyDisiconnected
notifyDisiconnected(f) ==
    /\ user' = onLogoutUser(user, f)
    /\ bc_in' = Tells(f, <<"disconnect">>)
    /\ UNCHANGED over

\* script.notifyConnected, with the agent that the watchdog knows by now.
notifyConnected(f) ==
    /\ bc_in' = Tells(f, <<IF f \in wd.agent THEN "agent" ELSE "noagent", "login">>)
    /\ UNCHANGED <<user, over>>

\* onLoginUser up to the query of the user, and after it.
LoginTables(t, f, u) == [t EXCEPT !.toFd[u] = f, !.toUser[f] = u]
LoginEnds(t, f, u) == [t EXCEPT !.info[u] = f]

Replaces(f, u) == IF user.toUser[f] \in {Nobody, u} THEN over ELSE over \cup {<<f, user.toUser[f]>>}

\* What a message of f does to the tables of the broadcast.
Heard(f, what) ==
    CASE what \in {"agent", "noagent"} ->
            [agentTab |-> IF what = "agent" THEN bc.agentTab \cup {f} ELSE bc.agentTab \ {f},
             fdMap |-> IF bc.fdMap[f] = "nil" THEN [bc.fdMap EXCEPT ![f] = "login"] ELSE bc.fdMap]
      [] what \in {"login", "lobby"} -> [bc EXCEPT !.fdMap[f] = what]
      [] what = "disconnect" ->
            [agentTab |-> bc.agentTab \ {f}, fdMap |-> [bc.fdMap EXCEPT ![f] = "nil"]]

\* The broadcast handles a message: connected, enter or disconnect.
Broadcast(f) ==
    /\ bc_in[f] # <<>>
    /\ bc_in' = [bc_in EXCEPT ![f] = Tail(@)]
    /\ bc' = Heard(f, Head(bc_in[f]))
    /\ UNCHANGED <<net, gate_in, gate, wd_in, wd, user, over, login, late, lost, agent_in, ag, apps>>

-----------------------------------------------------------------------------
(* The watchdog. *)

WatchdogGets(type, f) == wd_in # <<>> /\ Head(wd_in).type = type /\ Head(wd_in).fd = f

\* SOCKET.open, up to the call of the launcher.
Open(f) ==
    /\ WatchdogGets("open", f)
    /\ wd_in' = Tail(wd_in)
    /\ wd' = [wd EXCEPT !.open[f] = "launch"]
    /\ UNCHANGED <<net, gate_in, gate, script, login, late, lost, agent_in, ag, apps>>

\* The launcher has answered: the agent is started, or it could not be launched.
Launched(f) ==
    /\ wd.open[f] = "launch"
    /\ \/ /\ wd' = [wd EXCEPT !.open[f] = "start", !.agent = @ \cup {f},
                              !.grown = @ \/ wd.all = "loop"]
          /\ ag' = [ag EXCEPT ![f].st = "new"]
          /\ agent_in' = [agent_in EXCEPT ![f] = <<Msg("start", f)>>]
       \/ /\ wd' = [wd EXCEPT !.open[f] = "no"]
          /\ UNCHANGED <<ag, agent_in>>
    /\ UNCHANGED <<net, gate_in, gate, wd_in, script, login, late, lost, apps>>

\* The agent has been started; what follows the call of the gate only prints.
Started(f) ==
    /\ WatchdogGets("started", f)
    /\ wd_in' = Tail(wd_in)
    /\ wd' = [wd EXCEPT !.open[f] = "no"]
    /\ gate_in' = Append(gate_in, Msg("forward", f))
    /\ UNCHANGED <<net, gate, script, login, late, lost, agent_in, ag, apps>>

\* SOCKET.opened
Opened(f) ==
    /\ WatchdogGets("opened", f)
    /\ wd_in' = Tail(wd_in)
    /\ agent_in' = IF f \in wd.agent THEN ToAgent(agent_in, f, Msg("opened", f)) ELSE agent_in
    /\ UNCHANGED <<net, gate_in, gate, watchdog, ag, apps>>

\* close_agent for an agent that is in the table w, up to the call of the gate.
close_agent(w, f, by) ==
    /\ wd' = [w EXCEPT !.agent = @ \ {f}, !.kick[f] = by]
    /\ notifyDisiconnected(f)
    /\ gate_in' = Append(gate_in, Msg("kick", f))

\* SOCKET.close and SOCKET.error
Close(f) ==
    /\ WatchdogGets("close", f)
    /\ wd_in' = Tail(wd_in)
    /\ \/ f \in wd.agent /\ close_agent(wd, f, "close")
       \/ f \notin wd.agent /\ UNCHANGED <<wd, user, over, bc_in, gate_in>>
    /\ UNCHANGED <<net, gate, bc, login, late, lost, agent_in, ag, apps>>

(* closeSocket without a socket: the loop over agent, from one call of the   *)
(* gate to the next.  Keys that are set during the loop may be visited or    *)
(* not, and may also make next fail, which ends the loop with an error.      *)
NextAgent(w) ==
    \/ \E f \in w.agent :
          /\ w.left \cap w.agent # {} => f \in w.left
          /\ close_agent([w EXCEPT !.all = "loop"], f, "all")
          /\ UNCHANGED lost
    \/ /\ w.left \cap w.agent = {}
       /\ wd' = [w EXCEPT !.all = "done", !.agent = {}, !.left = {}, !.grown = FALSE]
       /\ lost' = w.agent
       /\ UNCHANGED <<user, over, bc_in, gate_in>>
    \/ /\ w.grown
       /\ wd' = [w EXCEPT !.all = "done", !.left = {}, !.grown = FALSE]
       /\ UNCHANGED <<user, over, bc_in, gate_in, lost>>

\* script.serverClose, when another node asks for it.  It happens once here: no
\* second loop runs beside the first, and none of an empty table.
CloseAll ==
    /\ bound.closing
    /\ wd.all = "no"
    /\ wd.agent # {}
    /\ NextAgent([wd EXCEPT !.left = wd.agent])
    /\ UNCHANGED <<net, gate, wd_in, bc, login, late, agent_in, ag, apps>>

\* The gate has answered the kick.
Kicked(f) ==
    /\ WatchdogGets("kicked", f)
    /\ wd_in' = Tail(wd_in)
    /\ agent_in' = ToAgent(agent_in, f, Msg("disconnect", f))
    /\ \/ /\ wd.kick[f] = "close"
          /\ wd' = [wd EXCEPT !.kick[f] = "no"]
          /\ UNCHANGED <<user, over, bc_in, gate_in, lost>>
       \/ /\ wd.kick[f] = "all"
          /\ NextAgent([wd EXCEPT !.kick[f] = "no"])
    /\ UNCHANGED <<net, gate, bc, login, late, ag, apps>>

\* WATCHDOG.notifyConnected
Connected(f) ==
    /\ WatchdogGets("connected", f)
    /\ wd_in' = Tail(wd_in)
    /\ notifyConnected(f)
    /\ UNCHANGED <<net, gate_in, gate, wd, bc, login, late, lost, agent_in, ag, apps>>

\* WATCHDOG.notifyDisiconnected, which the agent calls before it exits.
Disconnected(f) ==
    /\ WatchdogGets("disconnected", f)
    /\ wd_in' = Tail(wd_in)
    /\ notifyDisiconnected(f)
    /\ late' = IF \E n \in Logins : login[n].fd = f THEN late \cup {f} ELSE late
    /\ agent_in' = ToAgent(agent_in, f, Msg("answer", f))
    /\ UNCHANGED <<net, gate_in, gate, wd, bc, login, lost, ag, apps>>

\* The answers to the client, as one message; sendData.
Answered(f) ==
    IF f \in wd.agent THEN ToAgent(agent_in, f, Msg("send", f)) ELSE agent_in

(* onLogin from where it is to where it waits next: for the account, for the *)
(* user, or to its end.  What is in the cache is not waited for; an unknown  *)
(* account or a wrong password ends it.                                      *)
Goes(n, f, u, from) ==
    \/ /\ from = "start"
       /\ login' = [login EXCEPT ![n] = [fd |-> f, user |-> u, pc |-> "account"]]
       /\ UNCHANGED <<user, over, bc_in, agent_in>>
    \/ /\ from \in {"start", "account"}
       /\ login' = [login EXCEPT ![n] = [fd |-> f, user |-> u, pc |-> "user"]]
       /\ user' = LoginTables(user, f, u)
       /\ over' = Replaces(f, u)
       /\ UNCHANGED <<bc_in, agent_in>>
    \/ /\ login' = [login EXCEPT ![n] = Idle]
       /\ user' = LoginEnds(IF from = "user" THEN user ELSE LoginTables(user, f, u), f, u)
       /\ over' = IF from = "user" THEN over ELSE Replaces(f, u)
       /\ bc_in' = Tells(f, <<"lobby">>)
       /\ agent_in' = Answered(f)
    \/ /\ from \in {"start", "account"}
       /\ login' = [login EXCEPT ![n] = Idle]
       /\ agent_in' = Answered(f)
       /\ UNCHANGED <<user, over, bc_in>>

\* WATCHDOG.notifyRecvData
RecvData(f) ==
    LET what == Head(wd_in).body
    IN  /\ WatchdogGets("recv", f)
        /\ wd_in' = Tail(wd_in)
        /\ \/ /\ what = "logout"
              /\ user' = onLogoutUser(user, f)
              /\ UNCHANGED <<over, bc_in, login, agent_in>>
           \/ /\ what # "logout"
              /\ \E n \in Logins :
                    /\ login[n] = Idle
                    /\ \A m \in Logins : m < n => login[m] # Idle
                    /\ Goes(n, f, what, "start")
        /\ UNCHANGED <<net, gate_in, gate, wd, bc, late, lost, ag, apps>>

\* The database has answered.
LoginGoesOn(n) ==
    /\ login[n] # Idle
    /\ Goes(n, login[n].fd, login[n].user, login[n].pc)
    /\ UNCHANGED <<net, gate_in, gate, wd_in, wd, bc, late, lost, ag, apps>>

-----------------------------------------------------------------------------
(* An agent. *)

AgentGets(type, f) ==
    /\ ag[f].st \in {"new", "up", "leaving"}
    /\ agent_in[f] # <<>>
    /\ Head(agent_in[f]).type = type

\* AGENT.start
AgentStart(f) ==
    /\ AgentGets("start", f)
    /\ agent_in' = [agent_in EXCEPT ![f] = Tail(@)]
    /\ ag' = [ag EXCEPT ![f].st = "up"]
    /\ wd_in' = Append(wd_in, Msg("started", f))
    /\ UNCHANGED <<net, gate_in, gate, watchdog, apps>>

\* AGENT.opened
AgentOpened(f) ==
    /\ AgentGets("opened", f)
    /\ agent_in' = [agent_in EXCEPT ![f] = Tail(@)]
    /\ ag' = [ag EXCEPT ![f].obj = StartServer(@)]
    /\ UNCHANGED <<net, gate_in, gate, wd_in, watchdog, apps>>

\* What the socket thread does with what it is given to send.
SendOut(f, out) == IF sock[f] = "open" THEN [s2c EXCEPT ![f] = @ \o out] ELSE s2c

\* The client protocol: the handshake first, then requests for the watchdog.
AgentData(f) ==
    LET m == Head(agent_in[f]).body.msg
        r == ServerShake(ag[f].obj, m)
    IN  /\ AgentGets("data", f)
        /\ agent_in' = [agent_in EXCEPT ![f] = Tail(@)]
        /\ IF ag[f].obj.m_state = 3
           THEN /\ wd_in' = Append(wd_in, With("recv", f, m.app))
                /\ UNCHANGED <<ag, s2c>>
           ELSE /\ ag' = [ag EXCEPT ![f].obj = r.obj]
                /\ s2c' = SendOut(f, r.out)
                /\ wd_in' = IF r.ended THEN Append(wd_in, Msg("connected", f)) ELSE wd_in
        /\ UNCHANGED <<sock, client, c2s, gate_in, gate, watchdog, apps>>

\* AGENT.send
AgentSend(f) ==
    /\ AgentGets("send", f)
    /\ agent_in' = [agent_in EXCEPT ![f] = Tail(@)]
    /\ s2c' = SendOut(f, <<Packed(ag[f].obj, App("answer"))>>)
    /\ UNCHANGED <<sock, client, c2s, gate_in, gate, wd_in, watchdog, ag, apps>>

\* Variant of AgentDisconnect: the agent exits without a word.
AgentJustExits(f) ==
    /\ AgentGets("disconnect", f)
    /\ ag' = [ag EXCEPT ![f].st = "exited"]
    /\ agent_in' = [agent_in EXCEPT ![f] = <<>>]
    /\ UNCHANGED <<net, gate_in, gate, wd_in, watchdog, apps>>

\* AGENT.disconnect, up to the call of the watchdog, and after it.
AgentDisconnect(f) ==
    /\ AgentGets("disconnect", f)
    /\ agent_in' = [agent_in EXCEPT ![f] = Tail(@)]
    /\ ag' = [ag EXCEPT ![f].st = "leaving"]
    /\ wd_in' = Append(wd_in, Msg("disconnected", f))
    /\ UNCHANGED <<net, gate_in, gate, watchdog, apps>>

AgentExits(f) ==
    /\ AgentGets("answer", f)
    /\ ag' = [ag EXCEPT ![f].st = "exited"]
    /\ agent_in' = [agent_in EXCEPT ![f] = <<>>]
    /\ UNCHANGED <<net, gate_in, gate, wd_in, watchdog, apps>>

-----------------------------------------------------------------------------
Gate(f) == GateOpen(f) \/ GateData(f) \/ GateClose(f) \/ GateForward(f) \/ GateKick(f)

Watchdog(f) ==
    \/ Open(f) \/ Launched(f) \/ Started(f) \/ Opened(f) \/ Close(f) \/ Kicked(f)
    \/ Connected(f) \/ Disconnected(f) \/ RecvData(f)

Agent(f) ==
    \/ AgentStart(f) \/ AgentOpened(f) \/ AgentData(f) \/ AgentSend(f)
    \/ AgentDisconnect(f) \/ AgentExits(f)

Client(f) == Connect(f) \/ ClientRecv(f) \/ ClientAsks(f) \/ Read(f) \/ HangUp(f)

Next ==
    /\ \/ \E f \in Fd : \/ Client(f) \/ SocketClosed(f) \/ Gate(f) \/ Watchdog(f)
                         \/ Broadcast(f) \/ Agent(f)
       \/ \E n \in Logins : LoginGoesOn(n)
       \/ CloseAll
    /\ UNCHANGED bound

Spec == Init /\ [][Next]_vars

-----------------------------------------------------------------------------
SessionTypeOK ==
    /\ sock \in [Fd -> {"none", "accepted", "open", "half", "closed"}]
    /\ \A f \in Fd : {client[f].m_state, ag[f].obj.m_state} \subseteq 0 .. 3
    /\ gs \in [connection : [Fd -> {"nil", "true", "false"}], client_number : Int,
               maxclient : Nat]
    /\ connection \in [Fd -> {"nil", "noagent", "agent"}]
    /\ wd \in [agent : SUBSET Fd, open : [Fd -> {"no", "launch", "start"}],
               kick : [Fd -> {"no", "close", "all"}], all : {"no", "loop", "done"},
               left : SUBSET Fd, grown : BOOLEAN]
    /\ \A f \in Fd : ag[f].st \in {"none", "new", "up", "leaving", "exited"}
    /\ user \in [toFd : [User -> Fd \cup {Nobody}], toUser : [Fd -> User \cup {Nobody}],
                 info : [User -> Fd \cup {Nobody}]]
    /\ bc_in \in [Fd -> Seq({"agent", "noagent", "login", "lobby", "disconnect"})]
    /\ bc \in [agentTab : SUBSET Fd, fdMap : [Fd -> {"nil", "login", "lobby"}]]
    /\ over \subseteq Fd \X User
    /\ login \in [Logins -> [fd : Fd \cup {Nobody}, user : User \cup {Nobody},
                             pc : {"free", "account", "user"}]]

InGate(type, f) == \E n \in DOMAIN gate_in : gate_in[n].type = type /\ gate_in[n].fd = f

(* The gate counts its clients exactly and never above maxclient, although   *)
(* it may be told twice that a socket has gone (a kick that crosses a close  *)
(* is answered with another close); and a connection that it still counts    *)
(* has a socket, or the message that ends it is on its way.                  *)
ClientsCounted ==
    /\ SessionTypeOK
    /\ gs.client_number <= gs.maxclient
    /\ gs.client_number = Cardinality({f \in Fd : gs.connection[f] # "nil"})
    /\ \A f \in Fd :
          /\ gs.connection[f] = "nil" <=> connection[f] = "nil"
          /\ gs.connection[f] # "nil" /\ sock[f] = "closed" => InGate("close", f)
          /\ gs.connection[f] = "false" => sock[f] \in {"half", "closed"}

(* Whoever unpacks a message does it with the key that it was packed with,   *)
(* on both sides and across the end of the handshake, and an agent is given  *)
(* data of its client only after it has been started.                        *)
KeysAgree ==
    \A f \in Fd :
        /\ s2c[f] # <<>> => Head(s2c[f]).key = Key(client[f])
        /\ AgentGets("data", f) => /\ ag[f].st # "new"
                                   /\ Head(agent_in[f]).body.key = Key(ag[f].obj)

\* The broadcast knows nothing of f, or is going to forget it last of all.
Forgets(f) ==
    IF bc_in[f] = <<>> THEN f \notin bc.agentTab /\ bc.fdMap[f] = "nil"
    ELSE bc_in[f][Len(bc_in[f])] = "disconnect"

(* When the agent of a socket has exited, the watchdog has no agent there,   *)
(* no user is on the socket, no user is said to be reached over it, and the  *)
(* broadcast has lost it or has the message that makes it lose it behind all *)
(* others of that socket.  Two logins are excepted: one that still waited    *)
(* for the database when the agent took its leave enters its user again, and *)
(* a user in whose place another one logged in on the same socket is never   *)
(* taken out of userToFdTab.  Of m_userInfoTab nothing is claimed: an entry  *)
(* stays there for ever, as only a timer that is never set takes it out.     *)
NoResidue ==
    \A f \in Fd :
        ag[f].st = "exited" =>
            /\ f \notin wd.agent
            /\ \/ f \in late
               \/ /\ user.toUser[f] = Nobody
                  /\ \A u \in User : user.toFd[u] = f => <<f, u>> \in over
                  /\ Forgets(f)

Told(f, type) == \E n \in DOMAIN agent_in[f] : agent_in[f][n].type = type

InWatchdog(type, f) == \E n \in DOMAIN wd_in : wd_in[n].type = type /\ wd_in[n].fd = f

(* An agent whose connection has gone is on its way out: the watchdog has it *)
(* in its table and has the message that ends it, or the gate is being asked *)
(* to kick, or the agent has been told, or it waits to be let go.  The close *)
(* never overtakes the opening.  The agents that closeSocket has dropped     *)
(* from the table without a word are the exception.                          *)
AgentReleased ==
    \A f \in Fd :
        ag[f].st \in {"new", "up", "leaving"} /\ gs.connection[f] = "nil" =>
            \/ f \in lost
            \/ f \in wd.agent /\ InWatchdog("close", f)
            \/ wd.kick[f] # "no" /\ (InGate("kick", f) \/ InWatchdog("kicked", f))
            \/ Told(f, "disconnect")
            \/ ag[f].st = "leaving" /\ (InWatchdog("disconnected", f) \/ Told(f, "answer"))
=============================================================================
