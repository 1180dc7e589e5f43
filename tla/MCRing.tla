------------------------------- MODULE MCRing -------------------------------
(* Two kinds of message, a ring that starts with two slots and a warning   *)
(* from length 1 on: with MaxPush pushes the ring grows twice and both     *)
(* ends wrap.                                                              *)
EXTENDS MQRing
=============================================================================
