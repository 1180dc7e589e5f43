------------------------------ MODULE MCStart -------------------------------
(* Two or three workers, a few services and up to two waiting queues.      *)
EXTENDS SkynetStart
=============================================================================
