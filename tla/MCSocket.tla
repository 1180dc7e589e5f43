------------------------------ MODULE MCSocket ------------------------------
(* Instance of SocketServer for TLC.                                         *)
EXTENDS SocketServer

\* Two packets: the first longer than what one write may take.
MCSize == <<2, 1>>
=============================================================================
