----------------------------- MODULE ByteStream -----------------------------
(***************************************************************************)
(* What a part reader promises to the code that reads from it              *)
(* (internal/reader: an io.ReadCloser over one range of one stored         *)
(* document): the bytes of the range in their order, io.EOF with the last  *)
(* of them and not before, or an error after a prefix of them.  A byte is  *)
(* its position in the document.                                           *)
(***************************************************************************)
EXTENDS Naturals, Sequences

VARIABLES
    first,      \* the first and the last byte of the range
    last,
    out,        \* the bytes returned so far
    status      \* "open", "eof" or "failed": how the last Read returned

streamVars == <<first, last, out, status>>

\* The bytes from position a up to, not including, position b.
Bytes(a, b) == [i \in 1..(b - a) |-> a + i - 1]

Requested == Bytes(first, last + 1)

Init ==
    /\ first \in Nat /\ last \in Nat /\ first <= last
    /\ out = << >>
    /\ status = "open"

Deliver ==
    /\ status = "open"
    /\ \E n \in Len(out)..Len(Requested) :
          /\ out' = SubSeq(Requested, 1, n)
          /\ status' = IF n = Len(Requested) THEN "eof" ELSE "open"
    /\ UNCHANGED <<first, last>>

Fail ==
    /\ status = "open"
    /\ status' = "failed"
    /\ UNCHANGED <<first, last, out>>

Next == Deliver \/ Fail

Spec == Init /\ [][Next]_streamVars
=============================================================================
