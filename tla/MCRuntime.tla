------------------------------ MODULE MCRuntime -----------------------------
(* Instance of LuaRuntime for TLC: a starts b and calls it, b calls back.    *)
EXTENDS LuaRuntime, TLC

CONSTANTS a, b

\* One call of a starts b; with the others two coroutines can wait for b at once.
MCMaxCall == a :> 3 @@ b :> 1
MCMaxFork == a :> 1 @@ b :> 0
=============================================================================
