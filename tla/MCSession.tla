------------------------------ MODULE MCSession ------------------------------
(* Two sockets and two users.  With room for one client the other is refused *)
(* or comes later, with room for two both are open at once.  One client asks *)
(* for two logins, or a login and a logout, while nothing closes the server; *)
(* for one while the server closes; or both are silent while it closes.      *)
EXTENDS ClientSession, TLC
CONSTANTS f1, f2, u1, u2
MCFd == {f1, f2}
MCUser == {u1, u2}
MCBounds == {
    [maxclient |-> 1, talkers |-> {f1}, apps |-> 2, closing |-> FALSE],
    [maxclient |-> 2, talkers |-> {f1}, apps |-> 1, closing |-> FALSE],
    [maxclient |-> 1, talkers |-> {f1}, apps |-> 1, closing |-> TRUE],
    [maxclient |-> 2, talkers |-> {}, apps |-> 0, closing |-> TRUE]}
Symmetry == Permutations(MCUser)
=============================================================================
