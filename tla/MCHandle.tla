------------------------------ MODULE MCHandle ------------------------------
(* A few contexts that come and go, a table that grows from one slot, and  *)
(* few enough handles for the index to wrap many times.                    *)
EXTENDS SkynetHandle, TLC

Symmetric == Permutations(Ctx)
=============================================================================
