--------------------------- MODULE MCBlockHasher ---------------------------
(***************************************************************************)
(* An instance of BlockHasher for TLC: the bytes of the stream are all     *)
(* different, so that every exchange of two of them is visible.            *)
(***************************************************************************)
EXTENDS BlockHasher

\* Ten full blocks of two bytes and a partial one: more blocks than both
\* channels and two workers hold.
MCStream == [i \in 1..21 |-> i]
============================================================================
