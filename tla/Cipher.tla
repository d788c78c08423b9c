------------------------------- MODULE Cipher -------------------------------
(***************************************************************************)
(* internal/crypt/cipher.go: the layout of an encrypted part.  A header    *)
(* (magic and nonce) is followed by boxes of at most BlockDataSize bytes,  *)
(* each sealed under the nonce of the header plus its number and longer    *)
(* than its data by BlockHeaderSize.  A part is its length, the nonce in   *)
(* its header and its boxes: where each begins, its length, its nonce and  *)
(* its first byte of data.                                                 *)
(***************************************************************************)
EXTENDS Naturals, Integers, Sequences, SequencesExt

CONSTANTS
    FileHeaderSize, BlockHeaderSize, BlockDataSize,
    Base,           \* values of a digit of the nonce (256)
    NonceLen,       \* digits of a nonce (24)
    AddLen          \* digits of the number that is added (8)

ASSUME CipherAssumption ==
    /\ {FileHeaderSize, BlockHeaderSize, BlockDataSize} \subseteq Nat \ {0}
    /\ Base \in Nat /\ Base > 1
    /\ NonceLen \in Nat /\ AddLen \in 1..(NonceLen - 1)

BlockSize == BlockHeaderSize + BlockDataSize
Minimum(a, b) == IF a < b THEN a ELSE b

(***************************************************************************)
(* Nonces, least digit first.                                              *)
(***************************************************************************)
Nonces == [1..NonceLen -> 0..(Base - 1)]

\* Add one to the digits from the i-th on.
Carry(n, i) ==
    [j \in 1..NonceLen |->
        IF j >= i /\ \A k \in i..(j - 1) : n[k] = Base - 1
        THEN (n[j] + 1) % Base ELSE n[j]]

Increment(n) == Carry(n, 1)

(***************************************************************************)
(* nonce.add: column by column, as on paper.  Carries(n, x)[i] is carried  *)
(* out of the first i digits, the last carry goes into the other digits.   *)
(***************************************************************************)
\* x without its i lowest digits.
Shifted(x) == LET rest[i \in 0..AddLen] == IF i = 0 THEN x ELSE rest[i - 1] \div Base
              IN rest

\* x is a number of AddLen digits (a uint64).
Fits(x) == Shifted(x)[AddLen] = 0

Column(n, x, i, carry) == n[i] + (Shifted(x)[i - 1] % Base) + carry

Carries(n, x) ==
    LET carry[i \in 0..AddLen] ==
            IF i = 0 THEN 0 ELSE Column(n, x, i, carry[i - 1]) \div Base
    IN carry

Added(n, x) ==
    [i \in 1..NonceLen |->
        IF i <= AddLen THEN Column(n, x, i, Carries(n, x)[i - 1]) % Base ELSE n[i]]

\* Fault: the last carry is lost.
AddNoCarry(n, x) == Added(n, x)

Add(n, x) ==
    IF Carries(n, x)[AddLen] # 0 THEN Carry(Added(n, x), AddLen + 1) ELSE Added(n, x)

(***************************************************************************)
(* Sizes and offsets.                                                      *)
(***************************************************************************)
\* Fault: a header for an empty last box.
EncryptedSizeOpen(size) ==
    FileHeaderSize + (size \div BlockDataSize) * BlockSize
      + BlockHeaderSize + (size % BlockDataSize)

EncryptedSize(size) ==
    LET residue == size % BlockDataSize
    IN FileHeaderSize + (size \div BlockDataSize) * BlockSize
         + (IF residue # 0 THEN BlockHeaderSize + residue ELSE 0)

\* -1 stands for the errors "too short" and "truncated block header".
DecryptedSize(size) ==
    LET boxes == size - FileHeaderSize
        residue == boxes % BlockSize
    IN CASE boxes < 0 -> -1
         [] boxes >= 0 /\ residue = 0 -> (boxes \div BlockSize) * BlockDataSize
         [] boxes >= 0 /\ residue # 0 ->
              IF residue <= BlockHeaderSize THEN -1
              ELSE (boxes \div BlockSize) * BlockDataSize
                     + residue - BlockHeaderSize

\* Fault: a box that is not full is not counted.
ExtraBlocksDown(more) == IF more > 0 THEN more \div BlockDataSize ELSE 0

\* The boxes after the first that hold more bytes.
ExtraBlocks(more) ==
    IF more > 0 THEN (more + BlockDataSize - 1) \div BlockDataSize ELSE 0

\* Where the boxes with the bytes offset .. offset + limit - 1 are (limit >= 0:
\* the reader of parts always asks for a known number of bytes).
CalculateUnderlying(offset, limit) ==
    LET discard == offset % BlockDataSize
        more == limit - (BlockDataSize - discard)
    IN [blocks  |-> offset \div BlockDataSize,
        discard |-> discard,
        offset  |-> FileHeaderSize + (offset \div BlockDataSize) * BlockSize,
        limit   |-> (1 + ExtraBlocks(more)) * BlockSize]

(***************************************************************************)
(* The encrypter: what reading it to the end returns for size bytes.       *)
(***************************************************************************)
\* The number of boxes, and what each holds.
BoxCount(size) == (size + BlockDataSize - 1) \div BlockDataSize
BoxData(size, b) == Minimum(BlockDataSize, size - (b - 1) * BlockDataSize)

\* The nonce after each number of boxes.
BoxNonces(nonce, count) ==
    LET after[b \in 0..count] == IF b = 0 THEN nonce ELSE Increment(after[b - 1])
    IN after

EncryptData(size, nonce) ==
    LET count == BoxCount(size)
        boxes == [b \in 1..count |->
                    [at    |-> FileHeaderSize + (b - 1) * BlockSize,
                     len   |-> BlockHeaderSize + BoxData(size, b),
                     nonce |-> BoxNonces(nonce, count)[b - 1],
                     from  |-> (b - 1) * BlockDataSize]]
    IN [len   |-> FileHeaderSize + SumFunction([b \in 1..count |-> boxes[b].len]),
        nonce |-> nonce,
        boxes |-> boxes]

\* secretbox.Open on the n bytes at a place of a part: they are one whole box
\* of this nonce.  The set of the boxes that are.
Opens(part, nonce, at, n) ==
    {b \in Range(part.boxes) : b.at = at /\ b.len = n /\ b.nonce = nonce}
=============================================================================
