------------------------------- MODULE MsgPack -------------------------------
(* The handshake and the keys of common/msgpack/pack.lua, which the server   *)
(* (isclient = 0) and the client (isclient = 1) share.  An object is its     *)
(* m_state, its m_proto and whether it knows m_ckey; a message is the table  *)
(* that is packed, together with the key it has been encoded with.           *)
EXTENDS Integers

checknotip       == "protbuf"
netcheckpackflag == "WTF"       \* the server asks for encryption
noproto          == "empty"     \* m_proto before the handshake: the empty string
nil              == 0           \* m_state before start, and state in the first handshake

\* pack:init, which start follows later.
Made == [m_state |-> nil, m_proto |-> noproto, m_ckey |-> FALSE]

\* pack:start in the server, and in the client.
StartServer(obj) == [m_state |-> 1, m_proto |-> netcheckpackflag, m_ckey |-> TRUE]
StartClient(obj) == [obj EXCEPT !.m_state = 1, !.m_proto = noproto]

\* _checkmsg: the key that an object packs and unpacks with at this moment.
Key(obj) ==
    IF obj.m_state # 3 THEN "handshake"
    ELSE IF obj.m_proto = netcheckpackflag THEN (IF obj.m_ckey THEN "ckey" ELSE "handshake")
    ELSE "clear"

\* What a packed message carries: a handshake, or something for the game.
Shake(state, proto, ckey) == [state |-> state, proto |-> proto, ckey |-> ckey, app |-> "none"]
App(what) == [state |-> nil, proto |-> noproto, ckey |-> FALSE, app |-> what]

Packed(obj, msg) == [key |-> Key(obj), msg |-> msg]

\* The handshake did not succeed.
Reset(obj) == [obj EXCEPT !.m_state = 1, !.m_proto = noproto]

\* What _recvhandshake does: the object, the messages sent, and whether endfunc is called.
Outcome(obj, out, ended) == [obj |-> obj, out |-> out, ended |-> ended]

\* Variant of ServerShake: the state changes before the last answer is packed.
ServerShakeEarly(obj, msg) ==
    LET done == [obj EXCEPT !.m_state = 3] IN
    CASE obj.m_state = 1 /\ msg.proto = checknotip ->
            Outcome([obj EXCEPT !.m_state = 2], <<Packed(obj, Shake(2, checknotip, FALSE))>>, FALSE)
      [] obj.m_state = 2 /\ msg.state = 2 /\ msg.proto = checknotip ->
            Outcome(done, <<Packed(done, Shake(3, obj.m_proto, obj.m_ckey))>>, TRUE)
      [] OTHER -> Outcome(Reset(obj), <<>>, FALSE)

\* _recvhandshake in the server.  The answers are packed before the state is 3.
ServerShake(obj, msg) ==
    CASE obj.m_state = 1 /\ msg.proto = checknotip ->
            Outcome([obj EXCEPT !.m_state = 2], <<Packed(obj, Shake(2, checknotip, FALSE))>>, FALSE)
      [] obj.m_state = 2 /\ msg.state = 2 /\ msg.proto = checknotip ->
            Outcome([obj EXCEPT !.m_state = 3],
                    <<Packed(obj, Shake(3, obj.m_proto, obj.m_ckey))>>, TRUE)
      [] OTHER -> Outcome(Reset(obj), <<>>, FALSE)

\* _recvhandshake in the client.
ClientShake(obj, msg) ==
    LET told == [obj EXCEPT !.m_state = msg.state] IN
    CASE obj.m_state = 1 /\ msg.proto = checknotip ->
            Outcome(told, <<Packed(told, Shake(msg.state, checknotip, FALSE))>>, FALSE)
      [] obj.m_state = 2 ->
            Outcome([told EXCEPT !.m_proto = msg.proto, !.m_ckey = msg.ckey], <<>>, msg.state = 3)
      [] OTHER -> Outcome(Reset(obj), <<>>, FALSE)
=============================================================================
