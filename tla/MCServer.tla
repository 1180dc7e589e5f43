------------------------------ MODULE MCServer ------------------------------
(***************************************************************************)
(* Small instances of SkynetServer for TLC.                                *)
(***************************************************************************)
EXTENDS SkynetServer

CONSTANTS s1, s2, s3, w1, w2, ext, m1, m2, m3, null, nomsg

\* weight[] of skynet_start: one worker takes a single message each time, as
\* the first four do, the other a whole queue, as the next four do.
MCWeight == [w \in Workers |-> IF w = w1 THEN -1 ELSE 0]
=============================================================================
