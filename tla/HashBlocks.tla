---------------------------- MODULE HashBlocks ----------------------------
(***************************************************************************)
(* The data of internal/hash/hash.go: a stream of bytes cut into blocks,   *)
(* the digest of a block, and the list of digests that a single-threaded   *)
(* hasher computes.                                                        *)
(***************************************************************************)
EXTENDS Integers, Sequences

CONSTANTS
    BlockSize,  \* hash.BlockSize: bytes per block
    Stream      \* the content that the caller feeds to the hasher

Byte == 0..255

ASSUME BlockSizeAssumption == BlockSize \in Nat \ {0}
ASSUME StreamAssumption == Stream \in Seq(Byte)

\* blake3.Sum256 of one block, as a collision-free digest.
Hash(block) == [blake3 |-> block]

Digest == [blake3 : Seq(Byte)]

Minimum(a, b) == IF a <= b THEN a ELSE b

\* Where the block with index i (from 0) starts.
Offset(i) == i * BlockSize

\* The bytes of the block with index i when n bytes were absorbed.
Block(i, n) ==
    [k \in 1..Minimum(BlockSize, n - Offset(i)) |-> Stream[Offset(i) + k]]

\* c is the number of blocks that n bytes make, a partial last one included.
IsBlockCount(c, n) ==
    /\ n <= Offset(c)
    /\ c > 0 => Offset(c - 1) < n

\* s is the list of block hashes a single-threaded hasher returns for n bytes.
IsSerialSum(s, n) ==
    /\ s \in Seq(Digest)
    /\ IsBlockCount(Len(s), n)
    /\ \A i \in 1..Len(s) : s[i] = Hash(Block(i - 1, n))
============================================================================
