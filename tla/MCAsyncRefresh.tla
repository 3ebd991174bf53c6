----------------------------- MODULE MCAsyncRefresh ----------------------------
(* Small instances of AsyncRefresh for TLC. *)
EXTENDS AsyncRefresh
CONSTANTS blink, log
Symmetry == Permutations(Keys)
================================================================================
