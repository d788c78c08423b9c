--------------------------- MODULE SerialHasher ---------------------------
(***************************************************************************)
(* What the block hasher of internal/hash promises to its caller, with no  *)
(* workers and no channels: bytes of a stream are absorbed in order, and   *)
(* Sum returns the hashes of the consecutive BlockSize blocks of what was  *)
(* absorbed, the last block possibly shorter.                              *)
(***************************************************************************)
EXTENDS HashBlocks

VARIABLES
    pos,        \* number of bytes of Stream absorbed so far
    summed,     \* a Sum has returned for the current stream
    sum         \* what it returned

absVars == <<pos, summed, sum>>

Init ==
    /\ pos = 0
    /\ summed = FALSE
    /\ sum = << >>

Absorb ==
    /\ ~summed
    /\ pos' \in pos..Len(Stream)
    /\ UNCHANGED <<summed, sum>>

Finish ==
    /\ summed' = TRUE
    /\ IsSerialSum(sum', pos)
    /\ UNCHANGED pos

Restart ==
    /\ pos' = 0
    /\ summed' = FALSE
    /\ sum' = << >>

Next == Absorb \/ Finish \/ Restart

Spec == Init /\ [][Next]_absVars
============================================================================
