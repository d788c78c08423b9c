------------------------- MODULE MultiReaderProofs -------------------------
(***************************************************************************)
(* Proofs about the reader of a range of one stored document, for every    *)
(* document, range, chunk size, concurrency and number of buffers.         *)
(***************************************************************************)
EXTENDS MultiReader, SequenceTheorems, WellFoundedInduction, TLAPS

----------------------------------------------------------------------------
(* The parts of a range, and the inductive invariant.                      *)

PartFrom(p) == IF p = 0 THEN first ELSE StartOffset + p * ChunkSize
PartTo(p) == IF p + 1 = TotalParts THEN last + 1
             ELSE StartOffset + (p + 1) * ChunkSize
Part(p) == [part |-> p, from |-> PartFrom(p), to |-> PartTo(p)]

Buffer == [part : Int, from : Int, to : Int]

RangeOK == first \in 0..(Size - 1) /\ last \in first..(Size - 1)

\* The first byte that Read has not returned yet.
Position == last + 1 - limit

\* The channel holds the parts that were sent and not taken, in order.
ChanOK(taken, sent) ==
    /\ taken <= sent
    /\ bufferChan \in Seq(Buffer)
    /\ Len(bufferChan) = sent - taken
    /\ \A i \in 1..Len(bufferChan) : bufferChan[i] = Part(taken + i - 1)

\* Read has returned the bytes of the parts taken, but for those in cur.
ReadOK(taken) ==
    /\ limit \in 0..(last - first + 1)
    /\ out = Stream!Bytes(first, Position)
    /\ status \in {"open", "eof", "failed"}
    /\ status # "eof" => limit > 0
    /\ status = "eof" => limit = 0 /\ taken = TotalParts
    /\ cur = NoBuffer \/ (taken > 0 /\ cur \in Buffer /\ cur.part = taken - 1)
    /\ status = "open" /\ ~closed =>
          IF taken = 0 THEN cur = NoBuffer /\ Position = first
          ELSE /\ cur # NoBuffer
               /\ cur.from = Position
               /\ cur.to = PartTo(taken - 1)
               /\ cur.from <= cur.to

Fetching(i) == i <= BatchSize

\* The batch that is fetched or sent.
BatchOK(sent) ==
    /\ filler = "start" => sent = currentPart
    /\ filler = "fetch" =>
          /\ sent = currentPart /\ currentPart < TotalParts
          /\ \A i \in Slots :
                /\ fetch[i].state = "idle" <=> ~Fetching(i)
                /\ buffers[i] = IF fetch[i].state = "ok"
                                THEN Part(currentPart + i - 1) ELSE NoBuffer
                /\ fetch[i].state = "err" => group # "none"
    /\ filler = "send" =>
          /\ currentPart < TotalParts
          /\ currentPart <= sent /\ sent <= currentPart + BatchSize
          /\ \A i \in Slots :
                buffers[i] = IF sent - currentPart < i /\ Fetching(i)
                             THEN Part(currentPart + i - 1) ELSE NoBuffer
    /\ filler = "done" /\ ~cancelled => sent = TotalParts

FetchRecord == [state : {"idle", "get", "wait", "ok", "err"}, attempt : Nat]

FillTyped ==
    /\ filler \in {"start", "fetch", "send", "done"}
    /\ currentPart \in 0..TotalParts
    /\ offset = StartOffset + currentPart * ChunkSize
    /\ fetch \in [Slots -> FetchRecord]
    /\ buffers \in [Slots -> Buffer]
    /\ group \in {"none", "failed", "canceled"}
    /\ filler # "fetch" => \A i \in Slots : fetch[i].state \in {"idle", "ok", "err"}
    /\ ended \in BOOLEAN /\ cancelled \in BOOLEAN /\ closed \in BOOLEAN
    /\ reported \in BOOLEAN

\* Why a reader stops early.
BlameOK(sent) ==
    /\ reported => filler = "done" /\ sent < TotalParts
    /\ group = "canceled" => ended \/ closed
    /\ cancelled => ended \/ closed \/ reported
    /\ status = "failed" => ended \/ reported

\* What went back to the pool: the buffer that Read had last, and those of a
\* batch that failed.
PutsOK(taken, sent) ==
    /\ puts \in [0..(Size - 1) -> 0..1]
    /\ \A p \in 0..(Size - 1) : puts[p] = 1 =>
          \/ p = taken - 1 /\ cur = NoBuffer /\ (status = "eof" \/ closed)
          \/ p >= sent /\ filler = "done"

At(taken, sent) ==
    /\ RangeOK /\ FillTyped
    /\ taken \in 0..TotalParts /\ sent \in 0..TotalParts
    /\ ChanOK(taken, sent) /\ ReadOK(taken) /\ BatchOK(sent)
    /\ BlameOK(sent) /\ PutsOK(taken, sent)

ReaderInv == \E taken, sent \in 0..TotalParts : At(taken, sent)

----------------------------------------------------------------------------
(* Arithmetic.                                                             *)

LEMMA LeastNatural ==
    ASSUME NEW S \in SUBSET Nat, S # {}
    PROVE  \E n \in S : \A m \in S : n <= m
<1> DEFINE R == OpToRel(<, Nat)
<1>1. IsWellFoundedOn(R, Nat)
  BY NatLessThanWellFounded
<1>2. R = {p \in Nat \X Nat : p[1] < p[2]}
  BY DEF OpToRel
<1>3. \A x, y \in Nat : <<x, y>> \in R <=> x < y
  BY <1>2
<1> HIDE DEF R
<1>4. PICK n \in S : \A m \in S : ~(<<m, n>> \in R)
  BY <1>1, WFMin
<1>5. \A m \in S : ~(m < n)
  BY <1>3, <1>4
<1> QED BY <1>5

LEMMA DivMod ==
    ASSUME NEW a \in Nat, NEW c \in Nat \ {0}
    PROVE  a \div c \in Nat /\ a % c \in 0..(c - 1) /\ a = c * (a \div c) + (a % c)
OBVIOUS

LEMMA TimesMonotone ==
    ASSUME NEW a \in Int, NEW b \in Int, NEW c \in Nat, a <= b
    PROVE  c * a <= c * b
OBVIOUS

LEMMA DivUnique ==
    ASSUME NEW c \in Nat \ {0}, NEW q \in Int, NEW p \in Int,
           NEW r \in 0..(c - 1), NEW s \in 0..(c - 1), c * q + r = c * p + s
    PROVE  q = p /\ r = s
<1>1. c * (q + 1) = c * q + c /\ c * (p + 1) = c * p + c
  OBVIOUS
<1>2. c * q \in Int /\ c * p \in Int
  OBVIOUS
<1>3. ~(q < p)
  <2>1. SUFFICES ASSUME q + 1 <= p PROVE FALSE
    OBVIOUS
  <2>2. c * (q + 1) <= c * p
    BY <2>1, TimesMonotone
  <2> QED BY <2>2, <1>1, <1>2
<1>4. ~(p < q)
  <2>1. SUFFICES ASSUME p + 1 <= q PROVE FALSE
    OBVIOUS
  <2>2. c * (p + 1) <= c * q
    BY <2>1, TimesMonotone
  <2> QED BY <2>2, <1>1, <1>2
<1>5. q = p
  BY <1>3, <1>4
<1> QED BY <1>5

\* CalculateChunkSize halves until the chunk is small enough: the recursion
\* is well defined and ends with a size between one byte and MaxChunk.
LEMMA ChunkSizeType ==
    ASSUME NEW start \in Int, NEW end \in Int
    PROVE  CalculateChunkSize(start, end) \in 1..MaxChunk
<1>0. MaxChunk \in Nat \ {0} /\ MinChunk \in Nat \ {0}
  BY MultiReaderAssumption DEF MultiReaderAssumption
<1> DEFINE big(c) == c > MinChunk /\ c > end - start
           step(f, c) == IF big(c) THEN f[c \div 2] ELSE c
           halves(n) == {f \in [1..n -> 1..MaxChunk] :
                           \A c \in 1..n : f[c] = step(f, c)}
           halve == CHOOSE f : f = [c \in 1..MaxChunk |-> step(f, c)]
<1>1. \A c \in Nat : c > 1 => c \div 2 \in 1..(c - 1)
  OBVIOUS
<1>2. \A c \in Nat : big(c) => c > 1
  BY <1>0
<1>3. \A n \in 0..MaxChunk : halves(n) # {}
  <2> DEFINE bad == {n \in 0..MaxChunk : halves(n) = {}}
  <2>1. SUFFICES ASSUME bad # {} PROVE FALSE
    OBVIOUS
  <2>2. bad \in SUBSET Nat
    BY <1>0
  <2>3. PICK n \in bad : \A m \in bad : n <= m
    <3> HIDE DEF bad
    <3> QED BY <2>1, <2>2, LeastNatural
  <2>4. n \in 0..MaxChunk /\ halves(n) = {}
    BY <2>3
  <2>5. CASE n = 0
    <3>1. [c \in 1..0 |-> c] \in halves(0)
      OBVIOUS
    <3> QED BY <3>1, <2>4, <2>5
  <2>6. CASE n # 0
    <3>1. n - 1 \in 0..MaxChunk /\ ~(n <= n - 1)
      BY <2>4, <2>6, <1>0
    <3>10. n - 1 \notin bad
      <4> HIDE DEF bad
      <4> QED BY <2>3, <3>1
    <3>2. PICK g \in halves(n - 1) : TRUE
      <4>1. halves(n - 1) # {}
        <5> HIDE DEF halves
        <5> QED BY <3>1, <3>10
      <4> HIDE DEF halves
      <4> QED BY <4>1
    <3>3. /\ g \in [1..(n - 1) -> 1..MaxChunk]
          /\ \A c \in 1..(n - 1) : g[c] = step(g, c)
      BY <3>2
    <3> DEFINE f == [c \in 1..n |-> IF c = n THEN step(g, n) ELSE g[c]]
    <3>4. n \in Nat /\ n \in 1..MaxChunk
      BY <2>4, <2>6, <1>0
    <3>5. \A c \in 1..n : big(c) => c \div 2 \in 1..(n - 1) /\ c \div 2 \in 1..(c - 1)
      BY <3>4, <1>1, <1>2
    <3>6. step(g, n) \in 1..MaxChunk
      BY <3>3, <3>4, <3>5
    <3>7. f \in [1..n -> 1..MaxChunk]
      BY <3>3, <3>4, <3>6
    <3>8. \A c \in 1..n : f[c] = step(f, c)
      <4>1. SUFFICES ASSUME NEW c \in 1..n PROVE f[c] = step(f, c)
        OBVIOUS
      <4>2. CASE big(c)
        <5>1. f[c \div 2] = g[c \div 2]
          BY <4>2, <3>4, <3>5
        <5>2. f[c] = g[c \div 2]
          BY <4>2, <3>3, <3>4
        <5> QED BY <5>1, <5>2, <4>2
      <4>3. CASE ~big(c)
        BY <4>3, <3>3, <3>4
      <4> QED BY <4>2, <4>3
    <3>9. f \in halves(n)
      BY <3>7, <3>8
    <3> QED BY <3>9, <2>4
  <2> QED BY <2>5, <2>6
<1>4. PICK f \in [1..MaxChunk -> 1..MaxChunk] :
         f = [c \in 1..MaxChunk |-> step(f, c)]
  <2>1. PICK f \in halves(MaxChunk) : TRUE
    <3>1. MaxChunk \in 0..MaxChunk
      BY <1>0
    <3> HIDE DEF halves
    <3> QED BY <3>1, <1>3
  <2>2. f = [c \in 1..MaxChunk |-> step(f, c)]
    BY <2>1
  <2> QED BY <2>1, <2>2
<1>5. halve = [c \in 1..MaxChunk |-> step(halve, c)]
  BY <1>4
<1>6. \A c \in 1..MaxChunk : halve[c] \in 1..MaxChunk
  <2> HIDE DEF halve
  <2> DEFINE bad == {c \in 1..MaxChunk : halve[c] \notin 1..MaxChunk}
  <2>1. SUFFICES ASSUME bad # {} PROVE FALSE
    OBVIOUS
  <2>2. bad \in SUBSET Nat
    BY <1>0
  <2>3. PICK c \in bad : \A m \in bad : c <= m
    <3> HIDE DEF bad
    <3> QED BY <2>1, <2>2, LeastNatural
  <2>4. c \in 1..MaxChunk /\ halve[c] \notin 1..MaxChunk
    BY <2>3
  <2>5. halve[c] = step(halve, c)
    BY <2>4, <1>5
  <2>6. big(c)
    BY <2>4, <2>5
  <2>7. c \div 2 \in 1..(c - 1)
    BY <2>4, <2>6, <1>0, <1>1, <1>2
  <2>8. c \div 2 \in 1..MaxChunk /\ c \div 2 \notin bad
    BY <2>3, <2>4, <2>7, <1>0
  <2> QED BY <2>4, <2>5, <2>6, <2>8
<1>7. CalculateChunkSize(start, end) = halve[MaxChunk]
  BY DEF CalculateChunkSize
<1> HIDE DEF halve
<1> QED BY <1>0, <1>6, <1>7

\* The chunks cover the range: they begin at or before the first byte, and
\* the last byte is in the last of them, as far in as it is in any chunk.
LEMMA ChunksCover ==
    ASSUME RangeOK
    PROVE  /\ Size \in Nat /\ first \in Nat /\ last \in Nat
           /\ first <= last /\ last < Size
           /\ ChunkSize \in Nat \ {0}
           /\ StartOffset \in Nat /\ StartOffset <= first
           /\ first < StartOffset + ChunkSize
           /\ TotalParts \in Nat \ {0}
           /\ StartOffset + (TotalParts - 1) * ChunkSize <= last
           /\ last < StartOffset + TotalParts * ChunkSize
           /\ StartOffset + (TotalParts - 1) * ChunkSize + RightCut = last + 1
<1>1. /\ Size \in Nat /\ first \in Nat /\ last \in Nat
      /\ first <= last /\ last < Size
  BY MultiReaderAssumption DEF RangeOK, MultiReaderAssumption
<1>2. MaxChunk \in Nat
  BY MultiReaderAssumption DEF MultiReaderAssumption
<1>3. PICK c \in Nat \ {0} : c = ChunkSize
  <2>1. ChunkSize \in 1..MaxChunk
    BY <1>1, ChunkSizeType DEF ChunkSize
  <2> QED BY <2>1, <1>2
<1>4. PICK q \in Nat, r \in 0..(c - 1) :
         q = first \div c /\ r = first % c /\ first = c * q + r
  BY <1>1, <1>3, DivMod
<1>5. PICK so \in Nat : so = StartOffset /\ so = c * q
  <2>1. c * q \in Nat
    BY <1>3, <1>4
  <2>2. StartOffset = first - r
    BY <1>3, <1>4 DEF StartOffset
  <2> QED BY <2>1, <2>2, <1>4, <1>1, <1>3
<1>6. so <= first /\ first < so + c
  BY <1>1, <1>3, <1>4, <1>5
<1>7. PICK a \in Nat : a = last - so + c
  BY <1>1, <1>3, <1>5, <1>6
<1>8. PICK n \in Nat, s \in 0..(c - 1) :
         n = a \div c /\ s = a % c /\ a = c * n + s
  BY DivMod
<1>9. n = TotalParts
  BY <1>3, <1>5, <1>7, <1>8 DEF TotalParts
<1>10. n # 0
  <2>1. a >= c
    BY <1>1, <1>3, <1>5, <1>6, <1>7
  <2>2. n = 0 => c * n = 0
    BY <1>3
  <2> QED BY <2>1, <2>2, <1>3, <1>8
<1>11. PICK m \in Nat : m = n - 1
  BY <1>10
<1>12. PICK cm \in Nat : cm = c * m
  BY <1>3
<1>13. c * n = cm + c /\ n * c = cm + c /\ m * c = cm
  BY <1>3, <1>11, <1>12
<1>14. last = so + cm + s
  BY <1>1, <1>3, <1>5, <1>7, <1>8, <1>13
<1>15. so + cm <= last /\ last < so + cm + c
  BY <1>14, <1>3, <1>5
<1>16. PICK p \in Nat, t \in 0..(c - 1) :
          p = last \div c /\ t = last % c /\ last = c * p + t
  BY <1>1, <1>3, DivMod
<1>17. t = s
  <2>1. c * (q + m) = so + cm
    BY <1>3, <1>4, <1>5, <1>12
  <2>2. PICK u \in Int : u = q + m
    OBVIOUS
  <2>3. c * u + s = c * p + t /\ p \in Int
    BY <2>1, <2>2, <1>14, <1>16
  <2> QED BY <2>3, DivUnique
<1>18. RightCut = s + 1
  BY <1>3, <1>16, <1>17 DEF RightCut
<1>19. (TotalParts - 1) * ChunkSize = cm /\ TotalParts * ChunkSize = cm + c
  BY <1>3, <1>9, <1>11, <1>13
<1> QED BY <1>1, <1>3, <1>5, <1>6, <1>9, <1>10, <1>14, <1>15, <1>18, <1>19

\* What fillBatch sends for part p is the part, and the parts join.
LEMMA PartsJoin ==
    ASSUME RangeOK, NEW p \in 0..(TotalParts - 1)
    PROVE  /\ Part(p) \in Buffer
           /\ Part(p).part = p /\ Part(p).from = PartFrom(p) /\ Part(p).to = PartTo(p)
           /\ PartFrom(p) \in Nat /\ PartTo(p) \in Nat
           /\ PartFrom(p) < PartTo(p) /\ PartTo(p) <= last + 1
           /\ p = 0 => PartFrom(p) = first
           /\ p = TotalParts - 1 => PartTo(p) = last + 1
           /\ p + 1 < TotalParts => PartTo(p) = PartFrom(p + 1) /\ PartTo(p) <= last
           /\ Cut(p, GetChunk(StartOffset + p * ChunkSize)) = Part(p)
<1>1. PICK c \in Nat \ {0}, so \in Nat, n \in Nat \ {0} :
         /\ c = ChunkSize /\ so = StartOffset /\ n = TotalParts
         /\ so <= first /\ first < so + c
         /\ so + (n - 1) * c <= last /\ last < so + n * c
         /\ so + (n - 1) * c + RightCut = last + 1
  BY ChunksCover
<1>2. /\ Size \in Nat /\ first \in Nat /\ last \in Nat
      /\ first <= last /\ last < Size
  BY ChunksCover
<1>3. PICK pc \in Nat : pc = p * c
  BY <1>1
<1>4. (p + 1) * c = pc + c
  BY <1>1, <1>3
<1>5. p + 1 < n => pc + c <= (n - 1) * c
  <2>1. SUFFICES ASSUME p + 1 < n PROVE c * (p + 1) <= c * (n - 1)
    BY <1>1, <1>4
  <2>2. p + 1 \in Int /\ n - 1 \in Int /\ p + 1 <= n - 1
    BY <2>1, <1>1
  <2> QED BY <2>2, <1>1, TimesMonotone
<1>6. p + 1 < n => so + pc + c <= last
  <2>1. (n - 1) * c \in Int
    BY <1>1
  <2> QED BY <2>1, <1>1, <1>2, <1>3, <1>5
<1>7. p + 1 = n => /\ so + pc <= last /\ so + pc + RightCut = last + 1
                   /\ RightCut \in Int
  <2>1. p + 1 = n => (n - 1) * c = pc
    BY <1>1, <1>3
  <2>2. RightCut \in Int
    BY <1>1, <1>2, DivMod DEF RightCut
  <2> QED BY <2>1, <2>2, <1>1
<1>8. /\ PartFrom(p) = (IF p = 0 THEN first ELSE so + pc)
      /\ PartTo(p) = IF p + 1 = n THEN last + 1 ELSE so + pc + c
  BY <1>1, <1>3, <1>4 DEF PartFrom, PartTo
<1>9. /\ PartFrom(p) \in Nat /\ PartTo(p) \in Nat
      /\ PartFrom(p) < PartTo(p) /\ PartTo(p) <= last + 1
  <2>1. p = 0 => pc = 0
    BY <1>3, <1>1
  <2>2. CASE p + 1 = n
    BY <2>1, <2>2, <1>1, <1>2, <1>3, <1>7, <1>8
  <2>3. CASE p + 1 # n
    <3>1. so + pc + c <= last
      BY <2>3, <1>1, <1>6
    <3> QED BY <2>1, <2>3, <3>1, <1>1, <1>2, <1>3, <1>8
  <2> QED BY <2>2, <2>3
<1>10. p + 1 < n => PartTo(p) = PartFrom(p + 1) /\ PartTo(p) <= last
  <2>1. p + 1 < n => PartFrom(p + 1) = so + pc + c
    BY <1>1, <1>4 DEF PartFrom
  <2> QED BY <2>1, <1>6, <1>8
<1>11. Cut(p, GetChunk(so + pc)) = Part(p)
  <2>1. LeftCut = first - so /\ first - so \in Nat
    BY <1>1, <1>2 DEF LeftCut
  <2>2. GetChunk(so + pc).from = so + pc
    BY DEF GetChunk
  <2>3. p + 1 < n => GetChunk(so + pc).to = so + pc + c
    BY <1>1, <1>2, <1>3, <1>6 DEF GetChunk
  <2>4. p = 0 => pc = 0
    BY <1>3, <1>1
  <2>5. (IF p = 0 THEN so + pc + LeftCut ELSE so + pc) = PartFrom(p)
    BY <2>1, <2>4, <1>1, <1>2, <1>8
  <2>6. (IF p + 1 = TotalParts THEN so + pc + RightCut ELSE GetChunk(so + pc).to)
        = PartTo(p)
    BY <2>3, <1>1, <1>7, <1>8
  <2> QED BY <2>2, <2>5, <2>6 DEF Cut, Part
<1>12. Part(p) \in Buffer /\ Part(p).part = p
       /\ Part(p).from = PartFrom(p) /\ Part(p).to = PartTo(p)
  BY <1>9 DEF Part, Buffer
<1>13. /\ p = 0 => PartFrom(p) = first
       /\ p = TotalParts - 1 => PartTo(p) = last + 1
  BY <1>1, <1>8
<1> QED BY <1>1, <1>3, <1>9, <1>10, <1>11, <1>12, <1>13

----------------------------------------------------------------------------
(* The bytes of a range.                                                   *)

LEMMA BytesAre ==
    ASSUME NEW a \in Int, NEW b \in Int, a <= b
    PROVE  /\ Stream!Bytes(a, b) \in Seq(Int)
           /\ Len(Stream!Bytes(a, b)) = b - a
           /\ \A i \in 1..(b - a) : Stream!Bytes(a, b)[i] = a + i - 1
<1>1. PICK n \in Nat : n = b - a
  OBVIOUS
<1>2. Stream!Bytes(a, b) = [i \in 1..n |-> a + i - 1]
  BY <1>1 DEF Stream!Bytes
<1>3. \A i \in 1..n : a + i - 1 \in Int
  OBVIOUS
<1>4. [i \in 1..n |-> a + i - 1] \in [1..n -> Int]
  BY <1>3
<1> QED BY <1>1, <1>2, <1>4

LEMMA BytesJoin ==
    ASSUME NEW a \in Int, NEW b \in Int, NEW c \in Int, a <= b, b <= c
    PROVE  Stream!Bytes(a, b) \o Stream!Bytes(b, c) = Stream!Bytes(a, c)
<1>1. PICK x \in Seq(Int) : /\ x = Stream!Bytes(a, b) /\ Len(x) = b - a
                            /\ \A i \in 1..(b - a) : x[i] = a + i - 1
  BY BytesAre
<1>2. PICK y \in Seq(Int) : /\ y = Stream!Bytes(b, c) /\ Len(y) = c - b
                            /\ \A i \in 1..(c - b) : y[i] = b + i - 1
  BY BytesAre
<1>3. PICK z \in Seq(Int) : /\ z = Stream!Bytes(a, c) /\ Len(z) = c - a
                            /\ \A i \in 1..(c - a) : z[i] = a + i - 1
  <2>1. a <= c
    OBVIOUS
  <2> QED BY <2>1, BytesAre
<1>4. x \o y \in Seq(Int) /\ Len(x \o y) = Len(x) + Len(y)
      /\ \A i \in 1..(Len(x) + Len(y)) :
            (x \o y)[i] = IF i <= Len(x) THEN x[i] ELSE y[i - Len(x)]
  BY ConcatProperties
<1>5. Len(x \o y) = Len(z)
  BY <1>1, <1>2, <1>3, <1>4
<1>6. \A i \in 1..Len(z) : (x \o y)[i] = z[i]
  <2>1. SUFFICES ASSUME NEW i \in 1..Len(z) PROVE (x \o y)[i] = z[i]
    OBVIOUS
  <2>2. i \in 1..(c - a) /\ z[i] = a + i - 1 /\ i \in 1..(Len(x) + Len(y))
    BY <1>1, <1>2, <1>3
  <2>3. CASE i <= Len(x)
    BY <2>2, <2>3, <1>1, <1>4
  <2>4. CASE ~(i <= Len(x))
    <3>1. i \in Int /\ i - (b - a) \in 1..(c - b)
      BY <2>2, <2>4, <1>1
    <3>2. (x \o y)[i] = y[i - Len(x)]
      BY <2>2, <2>4, <1>4
    <3>3. y[i - Len(x)] = b + (i - Len(x)) - 1
      BY <3>1, <1>1, <1>2
    <3> QED BY <3>1, <3>2, <3>3, <2>2, <1>1
  <2> QED BY <2>3, <2>4
<1>7. x \o y = z
  BY <1>4, <1>5, <1>6, SeqEqual
<1> QED BY <1>1, <1>2, <1>3, <1>7

LEMMA BytesPrefix ==
    ASSUME NEW a \in Int, NEW c \in Int, NEW n \in Nat, n <= c - a
    PROVE  SubSeq(Stream!Bytes(a, c), 1, n) = Stream!Bytes(a, a + n)
<1>1. PICK z \in Seq(Int) : /\ z = Stream!Bytes(a, c) /\ Len(z) = c - a
                            /\ \A i \in 1..(c - a) : z[i] = a + i - 1
  <2>1. a <= c
    OBVIOUS
  <2> QED BY <2>1, BytesAre
<1>2. PICK b \in Int : b = a + n
  OBVIOUS
<1>3. PICK x \in Seq(Int) : /\ x = Stream!Bytes(a, b) /\ Len(x) = b - a
                            /\ \A i \in 1..(b - a) : x[i] = a + i - 1
  <2>1. a <= b
    BY <1>2
  <2> QED BY <2>1, BytesAre
<1>4. /\ SubSeq(z, 1, n) \in Seq(Int) /\ Len(SubSeq(z, 1, n)) = n
      /\ \A i \in 1..n : SubSeq(z, 1, n)[i] = z[i]
  BY <1>1
<1>5. SubSeq(z, 1, n) = x
  <2>1. Len(SubSeq(z, 1, n)) = Len(x)
    BY <1>2, <1>3, <1>4
  <2>2. \A i \in 1..Len(x) : SubSeq(z, 1, n)[i] = x[i]
    BY <1>1, <1>2, <1>3, <1>4
  <2> QED BY <2>1, <2>2, <1>4, SeqEqual
<1> QED BY <1>1, <1>2, <1>3, <1>5

----------------------------------------------------------------------------
(* What a step that leaves the range alone preserves.                      *)

SameRange == first' = first /\ last' = last

LEMMA PartsKept ==
    ASSUME SameRange
    PROVE  /\ RangeOK => RangeOK'
           /\ ChunkSize' = ChunkSize /\ StartOffset' = StartOffset
           /\ TotalParts' = TotalParts
           /\ \A p : PartTo(p)' = PartTo(p)
           /\ \A p : Part(p)' = Part(p)
           /\ currentPart' = currentPart => BatchSize' = BatchSize
<1>1. first' = first /\ last' = last
  BY DEF SameRange
<1>2. RangeOK => RangeOK'
  BY <1>1 DEF RangeOK
<1>3. ChunkSize' = ChunkSize
  BY <1>1 DEF ChunkSize
<1>4. StartOffset' = StartOffset
  BY <1>1, <1>3 DEF StartOffset
<1>5. TotalParts' = TotalParts
  BY <1>1, <1>3, <1>4 DEF TotalParts
<1>6. \A p : PartTo(p)' = PartTo(p)
  BY <1>1, <1>3, <1>4, <1>5 DEF PartTo
<1>7. \A p : PartFrom(p)' = PartFrom(p)
  BY <1>1, <1>3, <1>4 DEF PartFrom
<1>8. \A p : Part(p)' = Part(p)
  BY <1>6, <1>7 DEF Part
<1>9. currentPart' = currentPart => BatchSize' = BatchSize
  BY <1>5 DEF BatchSize
<1> QED BY <1>2, <1>3, <1>4, <1>5, <1>6, <1>8, <1>9

LEMMA ChanKept ==
    ASSUME NEW t, NEW s, SameRange, UNCHANGED bufferChan, ChanOK(t, s)
    PROVE  ChanOK(t, s)'
<1>1. \A p : Part(p)' = Part(p)
  BY PartsKept
<1> QED BY <1>1 DEF ChanOK

LEMMA ReadKept ==
    ASSUME NEW t, SameRange, UNCHANGED <<readVars, closed>>, ReadOK(t)
    PROVE  ReadOK(t)'
<1>1. TotalParts' = TotalParts /\ PartTo(t - 1)' = PartTo(t - 1)
  BY PartsKept
<1>2. /\ limit' = limit /\ cur' = cur /\ status' = status /\ out' = out
      /\ closed' = closed /\ first' = first /\ last' = last
  BY DEF SameRange, readVars
<1>3. Position' = Position
  BY <1>2 DEF Position
<1> QED BY <1>1, <1>2, <1>3 DEF ReadOK

LEMMA BatchKept ==
    ASSUME NEW s, SameRange, UNCHANGED <<fillVars, cancelled>>, BatchOK(s)
    PROVE  BatchOK(s)'
<1>1. /\ filler' = filler /\ currentPart' = currentPart /\ fetch' = fetch
      /\ buffers' = buffers /\ group' = group /\ cancelled' = cancelled
  BY DEF fillVars
<1>2. /\ TotalParts' = TotalParts /\ \A p : Part(p)' = Part(p)
      /\ BatchSize' = BatchSize
  BY <1>1, PartsKept
<1>3. \A i : Fetching(i)' <=> Fetching(i)
  BY <1>2 DEF Fetching
<1>4. filler = "fetch" =>
        /\ s = currentPart /\ currentPart < TotalParts
        /\ \A i \in Slots :
              /\ fetch[i].state = "idle" <=> ~Fetching(i)
              /\ buffers[i] = IF fetch[i].state = "ok"
                              THEN Part(currentPart + i - 1) ELSE NoBuffer
              /\ fetch[i].state = "err" => group # "none"
  BY DEF BatchOK
<1>5. filler = "send" =>
        /\ currentPart < TotalParts
        /\ currentPart <= s /\ s <= currentPart + BatchSize
        /\ \A i \in Slots :
              buffers[i] = IF s - currentPart < i /\ Fetching(i)
                           THEN Part(currentPart + i - 1) ELSE NoBuffer
  BY DEF BatchOK
<1>6. /\ filler = "start" => s = currentPart
      /\ filler = "done" /\ ~cancelled => s = TotalParts
  BY DEF BatchOK
<1> QED BY <1>1, <1>2, <1>3, <1>4, <1>5, <1>6 DEF BatchOK

LEMMA FillKept ==
    ASSUME SameRange, UNCHANGED fillVars, FillTyped,
           ended' \in BOOLEAN, cancelled' \in BOOLEAN, closed' \in BOOLEAN
    PROVE  FillTyped'
<1>1. /\ TotalParts' = TotalParts /\ ChunkSize' = ChunkSize
      /\ StartOffset' = StartOffset
  BY PartsKept
<1> QED BY <1>1 DEF FillTyped, fillVars

LEMMA InitInv ==
    ASSUME Init PROVE ReaderInv
<1>1. RangeOK
  BY DEF Init, RangeOK
<1>2. /\ first \in Nat /\ last \in Nat /\ first <= last /\ Size \in Nat
      /\ TotalParts \in Nat \ {0} /\ ChunkSize \in Nat /\ StartOffset \in Nat
  BY <1>1, ChunksCover
<1>3. FillTyped
  <2>1. Idle \in FetchRecord /\ Idle.state = "idle"
    BY DEF Idle, FetchRecord
  <2>2. NoBuffer \in Buffer
    BY DEF NoBuffer, Buffer
  <2>3. fetch \in [Slots -> FetchRecord] /\ buffers \in [Slots -> Buffer]
        /\ \A i \in Slots : fetch[i].state = "idle"
    BY <2>1, <2>2 DEF Init
  <2>4. offset = StartOffset + currentPart * ChunkSize /\ currentPart \in 0..TotalParts
    BY <1>2 DEF Init
  <2> QED BY <2>3, <2>4 DEF Init, FillTyped
<1>4. ChanOK(0, 0)
  BY DEF ChanOK, Init
<1>5. ReadOK(0)
  <2>1. limit = last - first + 1 /\ limit \in 0..(last - first + 1) /\ limit > 0
    BY <1>2 DEF Init
  <2>2. Position = first
    BY <1>2, <2>1 DEF Position
  <2>3. Stream!Bytes(first, first) = << >>
    <3>1. Stream!Bytes(first, first) \in Seq(Int) /\ Len(Stream!Bytes(first, first)) = 0
      BY <1>2, BytesAre
    <3> QED BY <3>1
  <2> QED BY <2>1, <2>2, <2>3 DEF ReadOK, Init
<1>6. BatchOK(0) /\ BlameOK(0)
  BY DEF BatchOK, BlameOK, Init
<1>7. PutsOK(0, 0)
  BY <1>2 DEF PutsOK, Init
<1>8. 0 \in 0..TotalParts
  BY <1>2
<1> QED BY <1>1, <1>3, <1>4, <1>5, <1>6, <1>7, <1>8 DEF ReaderInv, At

----------------------------------------------------------------------------
(* The goroutine that fills.                                               *)

LEMMA BatchSizeIs ==
    ASSUME RangeOK, FillTyped, currentPart < TotalParts
    PROVE  /\ currentPart \in Nat /\ TotalParts \in Nat /\ Concurrency \in Nat
           /\ BatchSize \in Nat \ {0} /\ BatchSize <= Concurrency
           /\ currentPart + BatchSize <= TotalParts
<1>1. TotalParts \in Nat /\ currentPart \in 0..TotalParts
  BY ChunksCover DEF FillTyped
<1>2. Concurrency \in Nat \ {0}
  BY MultiReaderAssumption DEF MultiReaderAssumption
<1> QED BY <1>1, <1>2 DEF BatchSize

\* fetchChunkWithRetry works on a part of the range.
LEMMA FetchedPart ==
    ASSUME NEW s, RangeOK, FillTyped, BatchOK(s), filler = "fetch",
           NEW i \in Slots, fetch[i].state # "idle"
    PROVE  /\ currentPart + i - 1 \in 0..(TotalParts - 1)
           /\ s <= currentPart + i - 1
           /\ offset + (i - 1) * ChunkSize
                = StartOffset + (currentPart + i - 1) * ChunkSize
<1>1. s = currentPart /\ currentPart < TotalParts /\ i <= BatchSize
  BY DEF BatchOK, Fetching
<1>2. /\ currentPart \in Nat /\ TotalParts \in Nat /\ Concurrency \in Nat
      /\ BatchSize \in Nat /\ currentPart + BatchSize <= TotalParts
  BY <1>1, BatchSizeIs
<1>3. i \in Nat /\ i >= 1
  BY <1>2 DEF Slots
<1>4. ChunkSize \in Nat /\ StartOffset \in Nat
  BY ChunksCover
<1>5. offset = StartOffset + currentPart * ChunkSize
  BY DEF FillTyped
<1>6. (currentPart + (i - 1)) * ChunkSize
        = currentPart * ChunkSize + (i - 1) * ChunkSize
  BY <1>2, <1>3, <1>4
<1>7. currentPart * ChunkSize \in Int /\ (i - 1) * ChunkSize \in Int
  BY <1>2, <1>3, <1>4
<1>8. currentPart + (i - 1) = currentPart + i - 1
  BY <1>2, <1>3
<1>9. offset + (i - 1) * ChunkSize
        = StartOffset + (currentPart + i - 1) * ChunkSize
  BY <1>4, <1>5, <1>6, <1>7, <1>8
<1> QED BY <1>1, <1>2, <1>3, <1>9

LEMMA StartBatchStep ==
    ASSUME NEW t, NEW s, At(t, s), StartBatch
    PROVE  At(t, s)'
<1>1. /\ RangeOK /\ FillTyped /\ t \in 0..TotalParts /\ s \in 0..TotalParts
      /\ ChanOK(t, s) /\ ReadOK(t) /\ BatchOK(s) /\ BlameOK(s) /\ PutsOK(t, s)
  BY DEF At
<1>2. /\ SameRange /\ UNCHANGED bufferChan /\ UNCHANGED <<readVars, closed>>
      /\ UNCHANGED <<puts, ended, currentPart, offset, group, reported>>
      /\ filler = "start"
  BY DEF StartBatch, SameRange
<1>3. /\ RangeOK' /\ TotalParts' = TotalParts /\ ChunkSize' = ChunkSize
      /\ StartOffset' = StartOffset /\ BatchSize' = BatchSize
  BY <1>1, <1>2, PartsKept
<1>4. ChanOK(t, s)' /\ ReadOK(t)'
  BY <1>1, <1>2, ChanKept, ReadKept
<1>5. s = currentPart /\ ~reported
  BY <1>1, <1>2 DEF BatchOK, BlameOK
<1>6. TotalParts \in Nat /\ currentPart \in 0..TotalParts
  BY <1>1, ChunksCover DEF FillTyped
<1>7. \A i : Fetching(i)' <=> Fetching(i)
  BY <1>3 DEF Fetching
<1>8. cancelled' = cancelled /\ filler' # "start"
  BY <1>1 DEF StartBatch, Finish, FillTyped
<1>9. BlameOK(s)'
  BY <1>1, <1>2, <1>5, <1>8 DEF BlameOK, readVars
<1>10. PutsOK(t, s)'
  BY <1>1, <1>2 DEF PutsOK, readVars
<1>11. FillTyped' /\ BatchOK(s)'
  <2>1. CASE currentPart < TotalParts
    <3> DEFINE get == [state |-> "get", attempt |-> 0]
    <3>1. /\ filler' = "fetch" /\ buffers' = [i \in Slots |-> NoBuffer]
          /\ fetch' = [i \in Slots |-> IF Fetching(i) THEN get ELSE Idle]
      BY <2>1 DEF StartBatch, Fetching
    <3>2. get \in FetchRecord /\ Idle \in FetchRecord /\ NoBuffer \in Buffer
      BY DEF Idle, FetchRecord, NoBuffer, Buffer
    <3>3. get.state = "get" /\ Idle.state = "idle"
      BY DEF Idle
    <3> HIDE DEF get
    <3>4. fetch' \in [Slots -> FetchRecord] /\ buffers' \in [Slots -> Buffer]
      BY <3>1, <3>2
    <3>5. \A i \in Slots : /\ fetch'[i].state = IF Fetching(i) THEN "get" ELSE "idle"
                           /\ buffers'[i] = NoBuffer
      BY <3>1, <3>3
    <3>6. FillTyped'
      BY <3>1, <3>4, <1>1, <1>2, <1>3, <1>8 DEF FillTyped
    <3>7. BatchOK(s)'
      BY <2>1, <3>1, <3>5, <1>2, <1>3, <1>5, <1>7 DEF BatchOK
    <3> QED BY <3>6, <3>7
  <2>2. CASE ~(currentPart < TotalParts)
    <3>1. filler' = "done" /\ UNCHANGED <<fetch, buffers>>
      BY <2>2 DEF StartBatch, Finish
    <3>2. s = TotalParts
      BY <2>2, <1>5, <1>6
    <3>3. FillTyped'
      BY <3>1, <1>1, <1>2, <1>3, <1>8 DEF FillTyped
    <3>4. BatchOK(s)'
      BY <3>1, <3>2, <1>3 DEF BatchOK
    <3> QED BY <3>3, <3>4
  <2> QED BY <2>1, <2>2
<1> QED BY <1>1, <1>3, <1>4, <1>9, <1>10, <1>11 DEF At

FetchSame == UNCHANGED <<first, last, dropped, bufferChan, puts, readVars, ctxVars,
                         filler, currentPart, offset, reported>>

\* One of the goroutines of a batch goes on, ends or fails.
FetchGoes(i, r) ==
    /\ r \in FetchRecord /\ r.state # "idle"
    /\ fetch' = [fetch EXCEPT ![i] = r]
    /\ buffers' = IF r.state = "ok"
                  THEN [buffers EXCEPT ![i] = Part(currentPart + i - 1)] ELSE buffers
    /\ r.state = "err" => group' # "none"
    /\ group' = group \/ group' = "failed" \/ (group' = "canceled" /\ (ended \/ closed))
    /\ group # "none" => group' = group

LEMMA FetchGoesStep ==
    ASSUME NEW t, NEW s, At(t, s), filler = "fetch", NEW i \in Slots,
           fetch[i].state \in {"get", "wait"}, FetchSame,
           NEW r, FetchGoes(i, r)
    PROVE  At(t, s)'
<1>1. /\ RangeOK /\ FillTyped /\ t \in 0..TotalParts /\ s \in 0..TotalParts
      /\ ChanOK(t, s) /\ ReadOK(t) /\ BatchOK(s) /\ BlameOK(s) /\ PutsOK(t, s)
  BY DEF At
<1>2. /\ SameRange /\ UNCHANGED bufferChan /\ UNCHANGED <<readVars, closed>>
      /\ UNCHANGED <<puts, currentPart, offset, reported, filler>>
      /\ UNCHANGED <<ended, cancelled, closed>>
  BY DEF FetchSame, SameRange, ctxVars
<1>3. /\ RangeOK' /\ TotalParts' = TotalParts /\ ChunkSize' = ChunkSize
      /\ StartOffset' = StartOffset /\ BatchSize' = BatchSize
      /\ \A p : Part(p)' = Part(p)
  BY <1>1, <1>2, PartsKept
<1>4. ChanOK(t, s)' /\ ReadOK(t)'
  BY <1>1, <1>2, ChanKept, ReadKept
<1>5. \A j : Fetching(j)' <=> Fetching(j)
  BY <1>3 DEF Fetching
<1>6. Fetching(i)
  BY <1>1 DEF BatchOK
<1>7. Part(currentPart + i - 1) \in Buffer
  <2>1. currentPart + i - 1 \in 0..(TotalParts - 1)
    BY <1>1, FetchedPart
  <2> QED BY <2>1, <1>1, PartsJoin
<1>8. fetch \in [Slots -> FetchRecord] /\ buffers \in [Slots -> Buffer]
  BY <1>1 DEF FillTyped
<1>9. fetch' \in [Slots -> FetchRecord] /\ buffers' \in [Slots -> Buffer]
  BY <1>7, <1>8 DEF FetchGoes
<1>10. /\ fetch'[i] = r
       /\ buffers'[i] = IF r.state = "ok" THEN Part(currentPart + i - 1) ELSE buffers[i]
       /\ \A j \in Slots \ {i} : fetch'[j] = fetch[j] /\ buffers'[j] = buffers[j]
  BY <1>8 DEF FetchGoes
<1>11. group' \in {"none", "failed", "canceled"}
  BY <1>1 DEF FillTyped, FetchGoes
<1>12. FillTyped'
  BY <1>1, <1>2, <1>3, <1>9, <1>11 DEF FillTyped
<1>13. BatchOK(s)'
  <2>1. /\ s = currentPart /\ currentPart < TotalParts
        /\ \A j \in Slots :
              /\ fetch[j].state = "idle" <=> ~Fetching(j)
              /\ buffers[j] = IF fetch[j].state = "ok"
                              THEN Part(currentPart + j - 1) ELSE NoBuffer
              /\ fetch[j].state = "err" => group # "none"
    BY <1>1 DEF BatchOK
  <2>2. /\ r.state = "idle" <=> ~Fetching(i)
        /\ buffers'[i] = IF r.state = "ok"
                         THEN Part(currentPart + i - 1) ELSE NoBuffer
        /\ r.state = "err" => group' # "none"
    BY <2>1, <1>6, <1>10 DEF FetchGoes
  <2>3. group # "none" => group' # "none"
    BY DEF FetchGoes
  <2>4. \A j \in Slots :
              /\ fetch'[j].state = "idle" <=> ~Fetching(j)
              /\ buffers'[j] = IF fetch'[j].state = "ok"
                               THEN Part(currentPart + j - 1) ELSE NoBuffer
              /\ fetch'[j].state = "err" => group' # "none"
    BY <2>1, <2>2, <2>3, <1>10
  <2> QED BY <2>1, <2>4, <1>2, <1>3, <1>5 DEF BatchOK
<1>14. BlameOK(s)'
  <2>1. status' = status
    BY <1>2 DEF readVars
  <2> QED BY <2>1, <1>1, <1>2, <1>3 DEF BlameOK, FetchGoes
<1>15. PutsOK(t, s)'
  BY <1>1, <1>2 DEF PutsOK, readVars
<1> QED BY <1>1, <1>3, <1>4, <1>12, <1>13, <1>14, <1>15 DEF At

LEMMA StateSet ==
    ASSUME NEW i \in Slots, fetch \in [Slots -> FetchRecord],
           NEW x \in {"get", "ok", "err"}
    PROVE  \E r \in FetchRecord :
              /\ r.state = x
              /\ [fetch EXCEPT ![i].state = x] = [fetch EXCEPT ![i] = r]
<1>1. PICK l \in FetchRecord : l = fetch[i]
  OBVIOUS
<1>2. [l EXCEPT !.state = x] \in FetchRecord /\ [l EXCEPT !.state = x].state = x
  BY DEF FetchRecord
<1>3. [fetch EXCEPT ![i].state = x] = [fetch EXCEPT ![i] = [l EXCEPT !.state = x]]
  BY <1>1
<1> QED BY <1>2, <1>3

\* A goroutine that ends with an error.
LEMMA EndsGoes ==
    ASSUME NEW t, NEW s, At(t, s), filler = "fetch", NEW i \in Slots,
           NEW err \in {"failed", "canceled"}, err = "canceled" => GroupDone,
           Ends(i, err), UNCHANGED buffers
    PROVE  \E r : FetchGoes(i, r)
<1>1. fetch \in [Slots -> FetchRecord] /\ group \in {"none", "failed", "canceled"}
  BY DEF At, FillTyped
<1>2. PICK r \in FetchRecord : r.state = "err" /\ fetch' = [fetch EXCEPT ![i] = r]
  BY <1>1, StateSet DEF Ends
<1>3. group' = IF group = "none" THEN err ELSE group
  BY DEF Ends
<1>4. group = "none" /\ GroupDone => ended \/ closed
  BY DEF GroupDone, Done, At, BlameOK
<1>5. FetchGoes(i, r)
  BY <1>2, <1>3, <1>4 DEF FetchGoes
<1> QED BY <1>5

LEMMA AttemptStep ==
    ASSUME NEW t, NEW s, At(t, s), NEW i \in Slots, Attempt(i)
    PROVE  At(t, s)'
<1>1. fetch[i].state = "get" /\ FetchSame
  BY DEF Attempt, FetchSame
<1>2. filler = "fetch"
  BY <1>1 DEF At, FillTyped
<1>3. fetch \in [Slots -> FetchRecord] /\ buffers \in [Slots -> Buffer]
  BY DEF At, FillTyped
<1>4. SUFFICES \E r : FetchGoes(i, r)
  BY <1>1, <1>2, FetchGoesStep
<1>5. CASE FetchOk(i)
  <2>1. PICK r \in FetchRecord : r.state = "ok" /\ fetch' = [fetch EXCEPT ![i] = r]
    BY <1>3, <1>5, StateSet DEF FetchOk
  <2>2. /\ currentPart + i - 1 \in 0..(TotalParts - 1)
        /\ offset + (i - 1) * ChunkSize
             = StartOffset + (currentPart + i - 1) * ChunkSize
    BY <1>1, <1>2, FetchedPart DEF At
  <2>3. Cut(currentPart + i - 1, GetChunk(offset + (i - 1) * ChunkSize))
        = Part(currentPart + i - 1)
    BY <2>2, PartsJoin DEF At
  <2>4. buffers' = [buffers EXCEPT ![i] = Part(currentPart + i - 1)] /\ group' = group
    BY <2>3, <1>5 DEF FetchOk
  <2>5. FetchGoes(i, r)
    BY <2>1, <2>4 DEF FetchGoes
  <2> QED BY <2>5
<1>6. ASSUME FetchTransient(i), fetch[i].attempt >= MaxRetries PROVE \E r : FetchGoes(i, r)
  BY <1>2, <1>6, EndsGoes DEF FetchTransient
<1>7. ASSUME FetchTransient(i), ~(fetch[i].attempt >= MaxRetries)
      PROVE  \E r : FetchGoes(i, r)
  <2>1. PICK l \in FetchRecord : l = fetch[i]
    BY <1>3
  <2>2. PICK n \in Nat : n = l.attempt + 1
    BY <2>1 DEF FetchRecord
  <2>3. PICK r \in FetchRecord : r = [l EXCEPT !.state = "wait", !.attempt = n]
    BY DEF FetchRecord
  <2>4. r.state = "wait"
    BY <2>3 DEF FetchRecord
  <2>5. fetch' = [fetch EXCEPT ![i] = r]
    BY <1>3, <1>7, <2>1, <2>2, <2>3 DEF FetchTransient, FetchRecord
  <2>6. UNCHANGED <<group, buffers>>
    BY <1>7 DEF FetchTransient
  <2>7. FetchGoes(i, r)
    BY <2>4, <2>5, <2>6 DEF FetchGoes
  <2> QED BY <2>7
<1>8. CASE FetchFatal(i)
  BY <1>2, <1>8, EndsGoes DEF FetchFatal
<1>9. CASE FetchCanceled(i)
  BY <1>2, <1>9, EndsGoes DEF FetchCanceled
<1> QED BY <1>5, <1>6, <1>7, <1>8, <1>9 DEF Attempt

LEMMA BackoffStep ==
    ASSUME NEW t, NEW s, At(t, s), NEW i \in Slots, Backoff(i)
    PROVE  At(t, s)'
<1>1. fetch[i].state = "wait" /\ FetchSame /\ UNCHANGED buffers
  BY DEF Backoff, FetchSame
<1>2. filler = "fetch"
  BY <1>1 DEF At, FillTyped
<1>3. SUFFICES \E r : FetchGoes(i, r)
  BY <1>1, <1>2, FetchGoesStep
<1>4. ASSUME GroupDone, Ends(i, "canceled") PROVE \E r : FetchGoes(i, r)
  BY <1>1, <1>2, <1>4, EndsGoes
<1>5. ASSUME fetch' = [fetch EXCEPT ![i].state = "get"], UNCHANGED group
      PROVE  \E r : FetchGoes(i, r)
  <2>1. PICK r \in FetchRecord : r.state = "get" /\ fetch' = [fetch EXCEPT ![i] = r]
    BY <1>5, StateSet DEF At, FillTyped
  <2>2. FetchGoes(i, r)
    BY <2>1, <1>1, <1>5 DEF FetchGoes
  <2> QED BY <2>2
<1> QED BY <1>4, <1>5 DEF Backoff

\* A batch with a part that could not be fetched: its other parts go back to
\* the pool, none of which Read or the channel ever had.
LEMMA BatchFetchedStep ==
    ASSUME NEW t, NEW s, At(t, s), BatchFetched
    PROVE  At(t, s)'
<1>1. /\ RangeOK /\ FillTyped /\ t \in 0..TotalParts /\ s \in 0..TotalParts
      /\ ChanOK(t, s) /\ ReadOK(t) /\ BatchOK(s) /\ BlameOK(s) /\ PutsOK(t, s)
  BY DEF At
<1>2. /\ SameRange /\ UNCHANGED bufferChan /\ UNCHANGED <<readVars, closed>>
      /\ UNCHANGED <<ended, currentPart, offset, fetch, buffers, group>>
      /\ filler = "fetch"
      /\ \A i \in Slots : fetch[i].state \in {"idle", "ok", "err"}
  BY DEF BatchFetched, SameRange
<1>3. /\ RangeOK' /\ TotalParts' = TotalParts /\ ChunkSize' = ChunkSize
      /\ StartOffset' = StartOffset /\ BatchSize' = BatchSize
      /\ \A p : Part(p)' = Part(p)
  BY <1>1, <1>2, PartsKept
<1>4. ChanOK(t, s)' /\ ReadOK(t)' /\ status' = status /\ cur' = cur
  BY <1>1, <1>2, ChanKept, ReadKept DEF readVars
<1>5. /\ s = currentPart /\ currentPart < TotalParts /\ ~reported
      /\ \A j \in Slots :
            /\ fetch[j].state = "idle" <=> ~Fetching(j)
            /\ buffers[j] = IF fetch[j].state = "ok"
                            THEN Part(currentPart + j - 1) ELSE NoBuffer
            /\ fetch[j].state = "err" => group # "none"
  BY <1>1, <1>2 DEF BatchOK, BlameOK
<1>6. \A j : Fetching(j)' <=> Fetching(j)
  BY <1>3 DEF Fetching
<1>7. /\ currentPart \in Nat /\ TotalParts \in Nat /\ Concurrency \in Nat
      /\ BatchSize \in Nat
  BY <1>1, <1>5, BatchSizeIs
<1>8. t <= s /\ t \in Int /\ s \in Int
  BY <1>1, <1>7 DEF ChanOK
<1>9. CASE group = "none"
  <2>1. filler' = "send" /\ UNCHANGED <<reported, puts, cancelled>>
    BY <1>9 DEF BatchFetched
  <2>2. FillTyped'
    BY <2>1, <1>1, <1>2, <1>3 DEF FillTyped
  <2>3. \A j \in Slots : buffers[j] = IF s - currentPart < j /\ Fetching(j)
                                      THEN Part(currentPart + j - 1) ELSE NoBuffer
    <3>1. \A j \in Slots : s - currentPart < j
      BY <1>5, <1>7 DEF Slots
    <3>2. \A j \in Slots : fetch[j].state = "ok" <=> Fetching(j)
      BY <1>2, <1>5, <1>9
    <3> QED BY <3>1, <3>2, <1>5
  <2>4. currentPart <= s /\ s <= currentPart + BatchSize
    BY <1>5, <1>7
  <2>5. BatchOK(s)'
    BY <2>1, <2>3, <2>4, <1>2, <1>3, <1>5, <1>6 DEF BatchOK
  <2>6. BlameOK(s)' /\ PutsOK(t, s)'
    BY <2>1, <1>1, <1>2, <1>4, <1>5 DEF BlameOK, PutsOK
  <2> QED BY <2>2, <2>5, <2>6, <1>1, <1>3, <1>4 DEF At
<1>10. CASE group # "none"
  <2>1. /\ reported' = (reported \/ group # "canceled") /\ filler' = "done"
        /\ cancelled' = (cancelled \/ TRUE) /\ Put({buffers[i].part : i \in Slots})
    BY <1>10 DEF BatchFetched, Finish
  <2>2. FillTyped'
    BY <2>1, <1>1, <1>2, <1>3 DEF FillTyped
  <2>3. BatchOK(s)'
    BY <2>1 DEF BatchOK
  <2>4. BlameOK(s)'
    <3>1. group \in {"none", "failed", "canceled"} /\ s < TotalParts
      BY <1>1, <1>5 DEF FillTyped
    <3> QED BY <2>1, <3>1, <1>1, <1>2, <1>3, <1>4, <1>10 DEF BlameOK
  <2>5. PutsOK(t, s)'
    <3> DEFINE parts == {buffers[i].part : i \in Slots}
    <3>1. \A p \in parts : p = -1 \/ p >= s
      <4>1. SUFFICES ASSUME NEW i \in Slots
                     PROVE  buffers[i].part = -1 \/ buffers[i].part >= s
        OBVIOUS
      <4>2. CASE fetch[i].state = "ok"
        <5>1. currentPart + i - 1 \in 0..(TotalParts - 1) /\ s <= currentPart + i - 1
          BY <4>2, <1>1, <1>2, FetchedPart
        <5>2. buffers[i] = Part(currentPart + i - 1)
          BY <4>2, <1>5
        <5>3. Part(currentPart + i - 1).part = currentPart + i - 1
          BY DEF Part
        <5> QED BY <5>1, <5>2, <5>3
      <4>3. CASE fetch[i].state # "ok"
        BY <4>3, <1>5 DEF NoBuffer
      <4> QED BY <4>2, <4>3
    <3>2. puts \in [0..(Size - 1) -> 0..1]
      BY <1>1 DEF PutsOK
    <3>3. \A p \in 0..(Size - 1) : puts[p] = 1 =>
             p = t - 1 /\ cur = NoBuffer /\ (status = "eof" \/ closed)
      BY <1>1, <1>2 DEF PutsOK
    <3>4. puts' = [p \in 0..(Size - 1) |-> IF p \in parts THEN puts[p] + 1 ELSE puts[p]]
      BY <2>1, <3>2 DEF Put
    <3> HIDE DEF parts
    <3>5. \A p \in 0..(Size - 1) : p \in parts => p >= s /\ puts[p] = 0
      <4>1. Size \in Nat
        BY <1>1, ChunksCover
      <4> QED BY <3>1, <3>2, <3>3, <1>8, <4>1
    <3>6. puts' \in [0..(Size - 1) -> 0..1]
      <4>1. \A p \in 0..(Size - 1) :
               (IF p \in parts THEN puts[p] + 1 ELSE puts[p]) \in 0..1
        BY <3>2, <3>5
      <4> QED BY <4>1, <3>4
    <3>7. \A p \in 0..(Size - 1) : puts'[p] = 1 =>
             \/ p = t - 1 /\ cur = NoBuffer /\ (status = "eof" \/ closed)
             \/ p >= s
      BY <3>3, <3>4, <3>5
    <3> QED BY <3>6, <3>7, <2>1, <1>2, <1>4 DEF PutsOK
  <2> QED BY <2>2, <2>3, <2>4, <2>5, <1>1, <1>3, <1>4 DEF At
<1> QED BY <1>9, <1>10

\* The buffers of a batch that were not sent are those from part s on.
LEMMA UnsentAre ==
    ASSUME NEW t, NEW s, At(t, s), filler = "send"
    PROVE  /\ \A i : i \in Unsent <=> i \in Slots /\ s - currentPart < i /\ i <= BatchSize
           /\ Unsent # {} => /\ s < currentPart + BatchSize
                             /\ NextUnsent = s - currentPart + 1
                             /\ NextUnsent \in Slots
                             /\ buffers[NextUnsent] = Part(s)
           /\ Unsent = {} => s = currentPart + BatchSize
           /\ s \in Nat /\ currentPart <= s /\ s <= currentPart + BatchSize
           /\ currentPart < TotalParts
<1>1. /\ RangeOK /\ FillTyped /\ s \in 0..TotalParts
      /\ currentPart < TotalParts
      /\ currentPart <= s /\ s <= currentPart + BatchSize
      /\ \A i \in Slots :
            buffers[i] = IF s - currentPart < i /\ Fetching(i)
                         THEN Part(currentPart + i - 1) ELSE NoBuffer
  BY DEF At, BatchOK
<1>2. /\ currentPart \in Nat /\ TotalParts \in Nat /\ Concurrency \in Nat
      /\ BatchSize \in Nat /\ BatchSize <= Concurrency /\ s \in Nat
  BY <1>1, BatchSizeIs
<1>3. \A i \in Slots : i \in Nat /\ Part(currentPart + i - 1) # NoBuffer
  <2>1. SUFFICES ASSUME NEW i \in Slots
                 PROVE  i \in Nat /\ Part(currentPart + i - 1) # NoBuffer
    OBVIOUS
  <2>2. i \in Nat /\ currentPart + i - 1 # -1
    BY <1>2 DEF Slots
  <2>3. Part(currentPart + i - 1).part = currentPart + i - 1 /\ NoBuffer.part = -1
    BY DEF Part, NoBuffer
  <2> QED BY <2>2, <2>3
<1>4. \A i : i \in Unsent <=> i \in Slots /\ s - currentPart < i /\ i <= BatchSize
  BY <1>1, <1>3 DEF Unsent, Fetching
<1> DEFINE k == s - currentPart + 1
<1>5. s < currentPart + BatchSize => k \in Unsent
  <2>1. SUFFICES ASSUME s < currentPart + BatchSize
                 PROVE  k \in 1..Concurrency /\ s - currentPart < k /\ k <= BatchSize
    BY <1>4 DEF Slots
  <2> QED BY <2>1, <1>1, <1>2
<1>6. Unsent # {} => s < currentPart + BatchSize
  <2>1. SUFFICES ASSUME NEW i \in Unsent PROVE s < currentPart + BatchSize
    OBVIOUS
  <2>2. i \in Nat /\ s - currentPart < i /\ i <= BatchSize
    BY <1>3, <1>4
  <2> QED BY <2>2, <1>2
<1>7. ASSUME Unsent # {}
      PROVE  NextUnsent = k /\ k \in Slots /\ buffers[k] = Part(s)
  <2>1. k \in Unsent /\ k \in Int
    BY <1>2, <1>5, <1>6, <1>7
  <2>2. \A j \in Unsent : j \in Int /\ k <= j
    <3>1. SUFFICES ASSUME NEW j \in Unsent PROVE j \in Int /\ k <= j
      OBVIOUS
    <3>2. j \in Nat /\ s - currentPart < j
      BY <1>3, <1>4
    <3> QED BY <3>2, <1>2
  <2>3. \A i \in Unsent : (\A j \in Unsent : i <= j) => i = k
    <3>1. SUFFICES ASSUME NEW i \in Unsent, \A j \in Unsent : i <= j PROVE i = k
      OBVIOUS
    <3>2. i <= k
      BY <2>1, <3>1
    <3>3. k <= i /\ i \in Int
      BY <2>2
    <3> QED BY <2>1, <3>2, <3>3
  <2>4. NextUnsent = k
    <3> HIDE DEF k
    <3> QED BY <2>1, <2>2, <2>3 DEF NextUnsent
  <2>5. k \in Slots /\ s - currentPart < k /\ k <= BatchSize
    BY <2>1, <1>4
  <2>6. buffers[k] = Part(currentPart + k - 1)
    <3> HIDE DEF k
    <3> QED BY <2>5, <1>1 DEF Fetching
  <2>7. currentPart + k - 1 = s
    BY <1>2
  <2> HIDE DEF k
  <2> QED BY <2>4, <2>5, <2>6, <2>7
<1>8. Unsent = {} => s = currentPart + BatchSize
  BY <1>1, <1>2, <1>5
<1> QED BY <1>1, <1>2, <1>4, <1>6, <1>7, <1>8

LEMMA SendBufferStep ==
    ASSUME NEW t, NEW s, At(t, s), SendBuffer
    PROVE  At(t, s + 1)'
<1>1. /\ RangeOK /\ FillTyped /\ t \in 0..TotalParts /\ s \in 0..TotalParts
      /\ ChanOK(t, s) /\ ReadOK(t) /\ BatchOK(s) /\ BlameOK(s) /\ PutsOK(t, s)
  BY DEF At
<1>2. /\ SameRange /\ UNCHANGED <<readVars, closed>>
      /\ UNCHANGED <<puts, ended, cancelled, currentPart, offset, fetch, group>>
      /\ UNCHANGED <<reported, filler>>
      /\ filler = "send" /\ Unsent # {}
  BY DEF SendBuffer, SameRange, ctxVars
<1>3. /\ RangeOK' /\ TotalParts' = TotalParts /\ ChunkSize' = ChunkSize
      /\ StartOffset' = StartOffset /\ BatchSize' = BatchSize
      /\ \A p : Part(p)' = Part(p)
  BY <1>1, <1>2, PartsKept
<1>4. /\ s < currentPart + BatchSize /\ NextUnsent = s - currentPart + 1
      /\ NextUnsent \in Slots /\ buffers[NextUnsent] = Part(s)
      /\ s \in Nat /\ currentPart <= s /\ currentPart < TotalParts
  BY <1>2, UnsentAre
<1>5. /\ currentPart \in Nat /\ TotalParts \in Nat /\ BatchSize \in Nat
      /\ currentPart + BatchSize <= TotalParts /\ Concurrency \in Nat
  BY <1>1, <1>4, BatchSizeIs
<1>6. s \in 0..(TotalParts - 1) /\ s + 1 \in 0..TotalParts /\ t \in Int
  BY <1>1, <1>4, <1>5
<1>7. Part(s) \in Buffer
  BY <1>1, <1>6, PartsJoin
<1>8. PICK k \in Slots : k = s - currentPart + 1 /\ k = NextUnsent
  BY <1>4
<1>9. /\ bufferChan' = Append(bufferChan, Part(s))
      /\ buffers' = [buffers EXCEPT ![k] = NoBuffer]
  BY <1>4, <1>8 DEF SendBuffer
<1>10. ChanOK(t, s + 1)'
  <2>1. /\ t <= s /\ bufferChan \in Seq(Buffer) /\ Len(bufferChan) = s - t
        /\ \A i \in 1..Len(bufferChan) : bufferChan[i] = Part(t + i - 1)
    BY <1>1 DEF ChanOK
  <2>2. /\ bufferChan' \in Seq(Buffer) /\ Len(bufferChan') = Len(bufferChan) + 1
        /\ \A i \in 1..Len(bufferChan) : bufferChan'[i] = bufferChan[i]
        /\ bufferChan'[Len(bufferChan) + 1] = Part(s)
    BY <1>7, <1>9, <2>1
  <2>3. Len(bufferChan') = (s + 1) - t /\ t <= s + 1
    BY <2>1, <2>2, <1>4, <1>6
  <2>4. \A i \in 1..Len(bufferChan') : bufferChan'[i] = Part(t + i - 1)
    <3>1. SUFFICES ASSUME NEW i \in 1..Len(bufferChan')
                   PROVE  bufferChan'[i] = Part(t + i - 1)
      OBVIOUS
    <3>2. CASE i \in 1..Len(bufferChan)
      BY <3>2, <2>1, <2>2
    <3>3. CASE i \notin 1..Len(bufferChan)
      <4>1. i = Len(bufferChan) + 1
        BY <3>3, <2>1, <2>2
      <4>2. t + i - 1 = s
        BY <4>1, <2>1, <1>4, <1>6
      <4> QED BY <4>1, <4>2, <2>2
    <3> QED BY <3>2, <3>3
  <2>5. \A i \in 1..Len(bufferChan') : bufferChan'[i] = Part(t + i - 1)'
    BY <2>4, <1>3, Zenon
  <2>6. bufferChan' \in Seq(Buffer)
    BY <2>2
  <2> QED BY <2>3, <2>5, <2>6 DEF ChanOK
<1>11. ReadOK(t)'
  BY <1>1, <1>2, ReadKept
<1>12. NoBuffer \in Buffer
  BY DEF NoBuffer, Buffer
<1>13. buffers \in [Slots -> Buffer] /\ buffers' \in [Slots -> Buffer]
  BY <1>1, <1>9, <1>12 DEF FillTyped
<1>14. FillTyped'
  BY <1>1, <1>2, <1>3, <1>13 DEF FillTyped
<1>15. BatchOK(s + 1)'
  <2>1. \A i \in Slots :
           buffers[i] = IF s - currentPart < i /\ Fetching(i)
                        THEN Part(currentPart + i - 1) ELSE NoBuffer
    BY <1>1, <1>2 DEF BatchOK
  <2>2. \A i : Fetching(i)' <=> Fetching(i)
    BY <1>3 DEF Fetching
  <2>3. \A i \in Slots :
           buffers'[i] = IF (s + 1) - currentPart < i /\ Fetching(i)
                         THEN Part(currentPart + i - 1) ELSE NoBuffer
    <3>1. SUFFICES ASSUME NEW i \in Slots
                   PROVE  buffers'[i] = IF (s + 1) - currentPart < i /\ Fetching(i)
                                        THEN Part(currentPart + i - 1) ELSE NoBuffer
      OBVIOUS
    <3>2. i \in Nat
      BY <1>5 DEF Slots
    <3>3. CASE i = k
      <4>1. ~((s + 1) - currentPart < i)
        BY <3>3, <1>8, <1>4, <1>5
      <4>2. buffers'[i] = NoBuffer
        BY <3>3, <1>9, <1>13
      <4> QED BY <4>1, <4>2
    <3>4. CASE i # k
      <4>1. ((s + 1) - currentPart < i) <=> (s - currentPart < i)
        BY <3>2, <3>4, <1>8, <1>4, <1>5
      <4>2. buffers'[i] = buffers[i]
        BY <3>4, <1>9, <1>13
      <4> QED BY <4>1, <4>2, <2>1
    <3> QED BY <3>3, <3>4
  <2>4. currentPart <= s + 1 /\ s + 1 <= currentPart + BatchSize
    BY <1>4, <1>5
  <2> QED BY <2>2, <2>3, <2>4, <1>2, <1>3, <1>4 DEF BatchOK
<1>16. BlameOK(s + 1)' /\ PutsOK(t, s + 1)'
  BY <1>1, <1>2 DEF BlameOK, PutsOK, readVars
<1> QED BY <1>1, <1>3, <1>6, <1>10, <1>11, <1>14, <1>15, <1>16 DEF At

LEMMA SendCanceledStep ==
    ASSUME NEW t, NEW s, At(t, s), SendCanceled
    PROVE  At(t, s)'
<1>1. /\ RangeOK /\ FillTyped /\ t \in 0..TotalParts /\ s \in 0..TotalParts
      /\ ChanOK(t, s) /\ ReadOK(t) /\ BatchOK(s) /\ BlameOK(s) /\ PutsOK(t, s)
  BY DEF At
<1>2. /\ SameRange /\ UNCHANGED bufferChan /\ UNCHANGED <<readVars, closed>>
      /\ UNCHANGED <<puts, ended, currentPart, offset, fetch, buffers, group>>
      /\ UNCHANGED reported
      /\ filler = "send" /\ Done
      /\ filler' = "done" /\ cancelled' = (cancelled \/ TRUE)
  BY DEF SendCanceled, SameRange, Finish
<1>3. /\ RangeOK' /\ TotalParts' = TotalParts /\ ChunkSize' = ChunkSize
      /\ StartOffset' = StartOffset
  BY <1>1, <1>2, PartsKept
<1>4. ChanOK(t, s)' /\ ReadOK(t)'
  BY <1>1, <1>2, ChanKept, ReadKept
<1>5. FillTyped'
  BY <1>1, <1>2, <1>3 DEF FillTyped
<1>6. BatchOK(s)'
  BY <1>2 DEF BatchOK
<1>7. BlameOK(s)'
  BY <1>1, <1>2 DEF BlameOK, Done, readVars
<1>8. PutsOK(t, s)'
  BY <1>1, <1>2 DEF PutsOK, readVars
<1> QED BY <1>1, <1>3, <1>4, <1>5, <1>6, <1>7, <1>8 DEF At

LEMMA BatchSentStep ==
    ASSUME NEW t, NEW s, At(t, s), BatchSent
    PROVE  At(t, s)'
<1>1. /\ RangeOK /\ FillTyped /\ t \in 0..TotalParts /\ s \in 0..TotalParts
      /\ ChanOK(t, s) /\ ReadOK(t) /\ BatchOK(s) /\ BlameOK(s) /\ PutsOK(t, s)
  BY DEF At
<1>2. /\ SameRange /\ UNCHANGED bufferChan /\ UNCHANGED <<readVars, closed>>
      /\ UNCHANGED <<puts, ended, cancelled, fetch, buffers, group>>
      /\ UNCHANGED reported
      /\ filler = "send" /\ Unsent = {} /\ filler' = "start"
      /\ currentPart' = currentPart + BatchSize
      /\ offset' = offset + ChunkSize * BatchSize
  BY DEF BatchSent, SameRange, ctxVars
<1>3. /\ RangeOK' /\ TotalParts' = TotalParts /\ ChunkSize' = ChunkSize
      /\ StartOffset' = StartOffset
  BY <1>1, <1>2, PartsKept
<1>4. ChanOK(t, s)' /\ ReadOK(t)'
  BY <1>1, <1>2, ChanKept, ReadKept
<1>5. s = currentPart' /\ currentPart < TotalParts
  BY <1>2, UnsentAre
<1>6. /\ currentPart \in Nat /\ TotalParts \in Nat /\ BatchSize \in Nat
      /\ currentPart' <= TotalParts
  BY <1>1, <1>2, <1>5, BatchSizeIs
<1>7. offset' = StartOffset + currentPart' * ChunkSize
  <2>1. ChunkSize \in Nat /\ StartOffset \in Nat
        /\ offset = StartOffset + currentPart * ChunkSize
    BY <1>1, ChunksCover DEF FillTyped
  <2>2. (currentPart + BatchSize) * ChunkSize
          = currentPart * ChunkSize + ChunkSize * BatchSize
    BY <2>1, <1>6
  <2>3. currentPart * ChunkSize \in Int /\ ChunkSize * BatchSize \in Int
    BY <2>1, <1>6
  <2> QED BY <2>1, <2>2, <2>3, <1>2
<1>8. currentPart' \in 0..TotalParts
  BY <1>2, <1>6
<1>9. FillTyped'
  BY <1>1, <1>2, <1>3, <1>7, <1>8 DEF FillTyped
<1>10. BatchOK(s)'
  BY <1>2, <1>5 DEF BatchOK
<1>11. BlameOK(s)' /\ PutsOK(t, s)'
  BY <1>1, <1>2 DEF BlameOK, PutsOK, readVars
<1> QED BY <1>1, <1>3, <1>4, <1>9, <1>10, <1>11 DEF At

----------------------------------------------------------------------------
(* Read and Close.                                                         *)

\* Reading from the buffer b of part t - 1.
Copies(t, b, n) ==
    /\ t \in 1..TotalParts
    /\ b \in Buffer /\ b.part = t - 1
    /\ b.from = Position /\ b.to = PartTo(t - 1) /\ b.from < b.to
    /\ limit \in 0..(last - first + 1) /\ out = Stream!Bytes(first, Position)
    /\ n \in Nat \ {0}
    /\ Copy(b, n)

\* Read takes the next bytes of the range, and sees its end with the last one.
LEMMA CopyIs ==
    ASSUME RangeOK, NEW t, NEW b, NEW n, Copies(t, b, n)
    PROVE  \E k \in Nat \ {0} :
              /\ k <= limit /\ limit' = limit - k
              /\ out' = Stream!Bytes(first, Position + k)
              /\ b.from + k = Position + k /\ b.from + k <= b.to
              /\ IF limit = k
                 THEN /\ status' = "eof" /\ cur' = NoBuffer /\ Put({t - 1})
                      /\ t = TotalParts
                 ELSE /\ cur' = [b EXCEPT !.from = b.from + k]
                      /\ UNCHANGED <<status, puts>>
<1>1. /\ first \in Nat /\ last \in Nat /\ first <= last
      /\ TotalParts \in Nat \ {0}
  BY ChunksCover
<1>2. /\ b.from \in Int /\ b.to \in Int /\ b.from < b.to /\ n \in Nat \ {0}
      /\ limit \in 0..(last - first + 1)
      /\ b.from = Position /\ b.to = PartTo(t - 1) /\ b.part = t - 1
      /\ t \in Int /\ t - 1 \in 0..(TotalParts - 1)
  BY <1>1 DEF Copies, Buffer
<1>3. PartTo(t - 1) <= last + 1
      /\ (t - 1 # TotalParts - 1 => PartTo(t - 1) <= last)
  BY <1>1, <1>2, PartsJoin
<1>4. PICK k \in Nat \ {0} : k = IF n < b.to - b.from THEN n ELSE b.to - b.from
  BY <1>2
<1>5. b.from + k <= b.to
  BY <1>2, <1>4
<1>6. limit \in Int /\ b.from = last + 1 - limit
  BY <1>1, <1>2 DEF Position
<1>7. k <= limit /\ (limit = k => t = TotalParts)
  BY <1>1, <1>2, <1>3, <1>5, <1>6
<1>8. /\ out' = out \o Stream!Bytes(b.from, b.from + k)
      /\ limit' = limit - k
      /\ IF limit' <= 0
         THEN status' = "eof" /\ cur' = NoBuffer /\ Put({b.part})
         ELSE /\ cur' = [b EXCEPT !.from = b.from + k]
              /\ UNCHANGED <<status, puts>>
  BY <1>4 DEF Copies, Copy, Emptied
<1>9. out' = Stream!Bytes(first, Position + k)
  <2>1. first <= b.from /\ b.from <= b.from + k
    BY <1>1, <1>2, <1>6
  <2>2. Stream!Bytes(first, b.from) \o Stream!Bytes(b.from, b.from + k)
        = Stream!Bytes(first, b.from + k)
    <3>1. first \in Int /\ b.from \in Int /\ b.from + k \in Int
      BY <1>1, <1>2
    <3> QED BY <2>1, <3>1, BytesJoin
  <2> QED BY <2>2, <1>2, <1>8 DEF Copies
<1>10. limit' <= 0 <=> limit = k
  BY <1>6, <1>7, <1>8
<1> QED BY <1>2, <1>5, <1>7, <1>8, <1>9, <1>10

LEMMA CopyStep ==
    ASSUME NEW t, NEW s, RangeOK, FillTyped, s \in 0..TotalParts,
           BatchOK(s), BlameOK(s), PutsOK(t, s) \/ PutsOK(t - 1, s),
           t <= s, NEW b, NEW n, Copies(t, b, n),
           status = "open", ~closed,
           UNCHANGED <<first, last, fillVars, ctxVars>>, ChanOK(t, s)'
    PROVE  At(t, s)'
<1>1. /\ SameRange /\ UNCHANGED fillVars
      /\ UNCHANGED <<fillVars, cancelled>> /\ UNCHANGED <<ended, cancelled, closed>>
  BY DEF SameRange, ctxVars
<1>2. /\ RangeOK' /\ TotalParts' = TotalParts /\ BatchOK(s)' /\ FillTyped'
      /\ PartTo(t - 1)' = PartTo(t - 1)
  <2>1. ended' \in BOOLEAN /\ cancelled' \in BOOLEAN /\ closed' \in BOOLEAN
    BY <1>1 DEF FillTyped
  <2> QED BY <2>1, <1>1, PartsKept, BatchKept, FillKept
<1>3. /\ first \in Nat /\ last \in Nat /\ first <= last /\ Size \in Nat
      /\ TotalParts \in Nat \ {0}
  BY ChunksCover
<1>4. /\ t \in 1..TotalParts /\ b \in Buffer /\ b.part = t - 1
      /\ b.from = Position /\ b.to = PartTo(t - 1)
      /\ limit \in 0..(last - first + 1)
  BY DEF Copies
<1>5. PICK k \in Nat \ {0} :
         /\ k <= limit /\ limit' = limit - k
         /\ out' = Stream!Bytes(first, Position + k)
         /\ b.from + k = Position + k /\ b.from + k <= b.to
         /\ IF limit = k
            THEN /\ status' = "eof" /\ cur' = NoBuffer /\ Put({t - 1})
                 /\ t = TotalParts
            ELSE /\ cur' = [b EXCEPT !.from = b.from + k]
                 /\ UNCHANGED <<status, puts>>
  BY CopyIs
<1>6. limit' \in 0..(last - first + 1) /\ Position' = Position + k
      /\ (limit = k <=> limit' = 0)
  BY <1>1, <1>3, <1>4, <1>5 DEF Position, SameRange
<1>7. ReadOK(t)'
  <2>1. limit' \in 0..(last' - first' + 1) /\ out' = Stream!Bytes(first', Position')
    BY <1>1, <1>5, <1>6 DEF SameRange
  <2>2. CASE limit = k
    BY <2>1, <2>2, <1>2, <1>5, <1>6 DEF ReadOK
  <2>3. CASE limit # k
    <3>1. cur' = [b EXCEPT !.from = b.from + k] /\ status' = "open" /\ limit' > 0
      BY <2>3, <1>3, <1>4, <1>5, <1>6
    <3>2. PICK f \in Int : f = b.from + k
      BY <1>4, <1>5 DEF Buffer
    <3>3. cur' = [b EXCEPT !.from = f]
      BY <3>1, <3>2
    <3>4. /\ cur' \in Buffer /\ cur'.from = f /\ cur'.to = b.to
          /\ cur'.part = b.part
      BY <3>3, <1>4 DEF Buffer
    <3>5. cur' # NoBuffer /\ t > 0
      BY <3>4, <1>3, <1>4 DEF NoBuffer
    <3>6. cur'.from = Position' /\ cur'.from <= cur'.to
          /\ cur'.to = PartTo(t - 1)' /\ cur'.part = t - 1
      BY <3>2, <3>4, <1>2, <1>4, <1>5, <1>6
    <3> QED BY <2>1, <3>1, <3>4, <3>5, <3>6 DEF ReadOK
  <2> QED BY <2>2, <2>3
<1>8. BlameOK(s)'
  <2>1. status' = "eof" \/ status' = "open"
    BY <1>5
  <2> QED BY <2>1, <1>1, <1>2 DEF BlameOK, fillVars
<1>9. PutsOK(t, s)'
  <2>1. /\ puts \in [0..(Size - 1) -> 0..1]
        /\ \A p \in 0..(Size - 1) : puts[p] = 1 => p >= s /\ filler = "done"
    BY DEF PutsOK
  <2>2. filler' = filler
    BY <1>1 DEF fillVars
  <2>3. CASE limit # k
    BY <2>1, <2>2, <2>3, <1>5 DEF PutsOK
  <2>4. CASE limit = k
    <3>1. /\ status' = "eof" /\ cur' = NoBuffer
          /\ puts' = [p \in 0..(Size - 1) |-> IF p \in {t - 1} THEN puts[p] + 1 ELSE puts[p]]
      BY <2>1, <2>4, <1>5 DEF Put
    <3>2. \A p \in 0..(Size - 1) : p = t - 1 => puts[p] = 0
      <4>1. ~(t - 1 >= s)
        BY <1>3, <1>4
      <4> QED BY <4>1, <2>1
    <3>3. \A p \in 0..(Size - 1) :
             /\ puts'[p] = IF p = t - 1 THEN 1 ELSE puts[p]
             /\ puts'[p] \in 0..1
      BY <2>1, <3>1, <3>2
    <3>4. puts' \in [0..(Size - 1) -> 0..1]
      BY <3>1, <3>3
    <3> QED BY <2>1, <2>2, <3>1, <3>3, <3>4 DEF PutsOK
  <2> QED BY <2>3, <2>4
<1>10. t \in 0..TotalParts
  BY <1>4
<1> QED BY <1>2, <1>7, <1>8, <1>9, <1>10 DEF At

LEMMA ReadCurrentStep ==
    ASSUME NEW t, NEW s, At(t, s), NEW n \in ReadSizes, ReadCurrent(n)
    PROVE  At(t, s)' /\ Copies(t, cur, n)
<1>1. /\ RangeOK /\ FillTyped /\ t \in 0..TotalParts /\ s \in 0..TotalParts
      /\ ChanOK(t, s) /\ ReadOK(t) /\ BatchOK(s) /\ BlameOK(s) /\ PutsOK(t, s)
  BY DEF At
<1>2. /\ SameRange /\ UNCHANGED bufferChan
      /\ UNCHANGED <<first, last, fillVars, ctxVars>>
      /\ status = "open" /\ ~closed /\ cur.from < cur.to /\ Copy(cur, n)
  BY DEF ReadCurrent, Reading, SameRange
<1>3. n \in Nat \ {0}
  BY MultiReaderAssumption DEF MultiReaderAssumption
<1>4. cur # NoBuffer
  BY <1>2 DEF NoBuffer
<1>5. /\ t > 0 /\ cur \in Buffer /\ cur.part = t - 1
      /\ cur.from = Position /\ cur.to = PartTo(t - 1)
      /\ limit \in 0..(last - first + 1) /\ out = Stream!Bytes(first, Position)
  BY <1>1, <1>2, <1>4 DEF ReadOK
<1>6. TotalParts \in Nat
  BY <1>1, ChunksCover
<1>7. t \in 1..TotalParts /\ t <= s
  BY <1>1, <1>5, <1>6 DEF ChanOK
<1>8. Copies(t, cur, n)
  BY <1>2, <1>3, <1>5, <1>7 DEF Copies
<1>9. ChanOK(t, s)'
  BY <1>1, <1>2, ChanKept
<1> QED BY <1>1, <1>2, <1>7, <1>8, <1>9, CopyStep

LEMMA ReadNextStep ==
    ASSUME NEW t, NEW s, At(t, s), NEW n \in ReadSizes, ReadNext(n)
    PROVE  At(t + 1, s)' /\ Copies(t + 1, Head(bufferChan), n)
<1>1. /\ RangeOK /\ FillTyped /\ t \in 0..TotalParts /\ s \in 0..TotalParts
      /\ ChanOK(t, s) /\ ReadOK(t) /\ BatchOK(s) /\ BlameOK(s) /\ PutsOK(t, s)
  BY DEF At
<1>2. /\ SameRange /\ UNCHANGED <<first, last, fillVars, ctxVars>>
      /\ status = "open" /\ ~closed /\ cur.from >= cur.to
      /\ bufferChan # << >> /\ bufferChan' = Tail(bufferChan)
      /\ Copy(Head(bufferChan), n)
  BY DEF ReadNext, Reading, SameRange
<1>3. n \in Nat \ {0}
  BY MultiReaderAssumption DEF MultiReaderAssumption
<1>4. TotalParts \in Nat /\ t \in Nat /\ s \in Nat
  BY <1>1, ChunksCover
<1>5. /\ t <= s /\ bufferChan \in Seq(Buffer) /\ Len(bufferChan) = s - t
      /\ \A i \in 1..Len(bufferChan) : bufferChan[i] = Part(t + i - 1)
  BY <1>1 DEF ChanOK
<1>6. Len(bufferChan) \in Nat /\ Len(bufferChan) >= 1
  BY <1>2, <1>5
<1>7. t < s /\ t \in 0..(TotalParts - 1)
  BY <1>1, <1>4, <1>5, <1>6
<1>8. Head(bufferChan) = Part(t)
  <2>1. Head(bufferChan) = bufferChan[1]
    BY <1>2, <1>5
  <2>2. bufferChan[1] = Part(t + 1 - 1) /\ t + 1 - 1 = t
    BY <1>4, <1>5, <1>6
  <2> QED BY <2>1, <2>2
<1>9. /\ Part(t) \in Buffer /\ Part(t).part = t
      /\ Part(t).from = PartFrom(t) /\ Part(t).to = PartTo(t)
      /\ PartFrom(t) < PartTo(t)
      /\ t = 0 => PartFrom(t) = first
  BY <1>1, <1>7, PartsJoin
<1>10. PartFrom(t) = Position
  <2>1. CASE t = 0
    BY <2>1, <1>1, <1>2, <1>9 DEF ReadOK
  <2>2. CASE t # 0
    <3>1. t - 1 \in 0..(TotalParts - 1) /\ (t - 1) + 1 < TotalParts /\ (t - 1) + 1 = t
      BY <2>2, <1>4, <1>7
    <3>2. PartTo(t - 1) = PartFrom(t)
      BY <3>1, <1>1, PartsJoin
    <3>3. cur \in Buffer /\ cur.from = Position /\ cur.to = PartTo(t - 1)
          /\ cur.from <= cur.to
      BY <2>2, <1>1, <1>2 DEF ReadOK
    <3> QED BY <3>2, <3>3, <1>2 DEF Buffer
  <2> QED BY <2>1, <2>2
<1>11. limit \in 0..(last - first + 1) /\ out = Stream!Bytes(first, Position)
  BY <1>1 DEF ReadOK
<1>12. (t + 1) - 1 = t /\ t + 1 \in 1..TotalParts /\ t + 1 <= s
  BY <1>4, <1>7
<1>13. Copies(t + 1, Head(bufferChan), n)
  BY <1>2, <1>3, <1>8, <1>9, <1>10, <1>11, <1>12 DEF Copies
<1>14. ChanOK(t + 1, s)'
  <2>1. /\ bufferChan' \in Seq(Buffer) /\ Len(bufferChan') = Len(bufferChan) - 1
        /\ \A i \in 1..Len(bufferChan') : bufferChan'[i] = bufferChan[i + 1]
    BY <1>2, <1>5
  <2>2. Len(bufferChan') = s - (t + 1)
    BY <2>1, <1>4, <1>5
  <2>3. \A i \in 1..Len(bufferChan') : bufferChan'[i] = Part((t + 1) + i - 1)
    <3>1. SUFFICES ASSUME NEW i \in 1..Len(bufferChan')
                   PROVE  bufferChan'[i] = Part((t + 1) + i - 1)
      OBVIOUS
    <3>2. i + 1 \in 1..Len(bufferChan) /\ t + (i + 1) - 1 = (t + 1) + i - 1
      BY <2>1, <1>4, <1>6
    <3> QED BY <3>2, <2>1, <1>5
  <2>4. \A i \in 1..Len(bufferChan') : bufferChan'[i] = Part((t + 1) + i - 1)'
    BY <2>3, <1>2, PartsKept
  <2> QED BY <2>1, <2>2, <2>4, <1>12 DEF ChanOK
<1>15. PutsOK((t + 1) - 1, s)
  BY <1>1, <1>12
<1>16. PICK u \in 1..TotalParts : u = t + 1
  BY <1>12
<1>17. At(u, s)'
  BY <1>1, <1>2, <1>12, <1>13, <1>14, <1>15, <1>16, CopyStep
<1> QED BY <1>13, <1>16, <1>17

\* Read fails only if the request is over or the bot was blamed: a reader
\* that was neither canceled nor closed gets every part, and with the last
\* one io.EOF.
LEMMA ReadFailsStep ==
    ASSUME NEW t, NEW s, At(t, s), ReadFails
    PROVE  At(t, s)'
<1>1. /\ RangeOK /\ FillTyped /\ t \in 0..TotalParts /\ s \in 0..TotalParts
      /\ ChanOK(t, s) /\ ReadOK(t) /\ BatchOK(s) /\ BlameOK(s) /\ PutsOK(t, s)
  BY DEF At
<1>2. /\ SameRange /\ UNCHANGED bufferChan /\ UNCHANGED <<limit, cur, out, puts>>
      /\ UNCHANGED fillVars /\ UNCHANGED <<fillVars, cancelled>>
      /\ UNCHANGED <<ended, cancelled, closed>>
      /\ status = "open" /\ ~closed /\ cur.from >= cur.to /\ status' = "failed"
      /\ Done \/ (bufferChan = << >> /\ filler = "done")
  BY DEF ReadFails, Reading, SameRange, ctxVars
<1>3. /\ RangeOK' /\ TotalParts' = TotalParts /\ ChanOK(t, s)' /\ BatchOK(s)'
      /\ FillTyped' /\ PartTo(t - 1)' = PartTo(t - 1)
  <2>1. ended' \in BOOLEAN /\ cancelled' \in BOOLEAN /\ closed' \in BOOLEAN
    BY <1>1, <1>2 DEF FillTyped
  <2> QED BY <2>1, <1>1, <1>2, PartsKept, ChanKept, BatchKept, FillKept
<1>4. /\ limit \in 0..(last - first + 1) /\ limit > 0
      /\ out = Stream!Bytes(first, Position)
      /\ cur = NoBuffer \/ (t > 0 /\ cur \in Buffer /\ cur.part = t - 1)
  BY <1>1, <1>2 DEF ReadOK
<1>5. Position' = Position
  BY <1>2 DEF Position, SameRange
<1>6. ReadOK(t)'
  BY <1>2, <1>4, <1>5 DEF ReadOK, SameRange
<1>7. ended \/ reported
  <2>1. CASE Done
    BY <2>1, <1>1, <1>2 DEF Done, BlameOK
  <2>2. CASE bufferChan = << >> /\ filler = "done"
    <3>1. SUFFICES ASSUME ~cancelled PROVE FALSE
      BY <1>1, <1>2 DEF BlameOK
    <3>2. s = TotalParts
      BY <2>2, <3>1, <1>1 DEF BatchOK
    <3>3. /\ first \in Nat /\ last \in Nat /\ TotalParts \in Nat \ {0}
      BY <1>1, ChunksCover
    <3>4. t \in Nat /\ s \in Nat /\ t <= s /\ s - t = 0
      BY <2>2, <3>3, <1>1 DEF ChanOK
    <3>5. t = TotalParts
      BY <3>2, <3>4
    <3>6. cur.from = Position /\ cur.to = PartTo(t - 1)
          /\ cur.from <= cur.to /\ cur \in Buffer
      BY <3>3, <3>5, <1>1, <1>2 DEF ReadOK
    <3>7. PartTo(t - 1) = last + 1
      <4>1. t - 1 \in 0..(TotalParts - 1) /\ t - 1 = TotalParts - 1
        BY <3>3, <3>5
      <4> QED BY <4>1, <1>1, PartsJoin
    <3>8. cur.from = cur.to
      BY <3>6, <1>2 DEF Buffer
    <3> QED BY <3>3, <3>6, <3>7, <3>8, <1>4 DEF Position
  <2> QED BY <2>1, <2>2, <1>2
<1>8. BlameOK(s)'
  BY <1>1, <1>2, <1>3, <1>7 DEF BlameOK, fillVars
<1>9. PutsOK(t, s)'
  BY <1>1, <1>2 DEF PutsOK, fillVars
<1> QED BY <1>1, <1>3, <1>6, <1>8, <1>9 DEF At

LEMMA CloseStep ==
    ASSUME NEW t, NEW s, At(t, s), Close
    PROVE  At(t, s)'
<1>1. /\ RangeOK /\ FillTyped /\ t \in 0..TotalParts /\ s \in 0..TotalParts
      /\ ChanOK(t, s) /\ ReadOK(t) /\ BatchOK(s) /\ BlameOK(s) /\ PutsOK(t, s)
  BY DEF At
<1>2. /\ SameRange /\ UNCHANGED bufferChan /\ UNCHANGED <<limit, status, out>>
      /\ UNCHANGED fillVars /\ UNCHANGED ended
      /\ ~closed /\ closed' = TRUE /\ cancelled' = TRUE /\ cur' = NoBuffer
      /\ Put(IF cur = NoBuffer THEN {} ELSE {cur.part})
  BY DEF Close, SameRange, Emptied
<1>3. /\ RangeOK' /\ TotalParts' = TotalParts /\ ChanOK(t, s)' /\ FillTyped'
      /\ \A p : Part(p)' = Part(p)
  <2>1. ended' \in BOOLEAN /\ cancelled' \in BOOLEAN /\ closed' \in BOOLEAN
    BY <1>1, <1>2 DEF FillTyped
  <2> QED BY <2>1, <1>1, <1>2, PartsKept, ChanKept, FillKept
<1>4. BatchOK(s)'
  <2>1. /\ filler' = filler /\ currentPart' = currentPart /\ fetch' = fetch
        /\ buffers' = buffers /\ group' = group /\ BatchSize' = BatchSize
    BY <1>2, PartsKept DEF fillVars
  <2>2. \A j : Fetching(j)' <=> Fetching(j)
    BY <2>1 DEF Fetching
  <2>3. /\ filler = "start" => s = currentPart
        /\ filler = "fetch" =>
              /\ s = currentPart /\ currentPart < TotalParts
              /\ \A i \in Slots :
                    /\ fetch[i].state = "idle" <=> ~Fetching(i)
                    /\ buffers[i] = IF fetch[i].state = "ok"
                                    THEN Part(currentPart + i - 1) ELSE NoBuffer
                    /\ fetch[i].state = "err" => group # "none"
        /\ filler = "send" =>
              /\ currentPart < TotalParts
              /\ currentPart <= s /\ s <= currentPart + BatchSize
              /\ \A i \in Slots :
                    buffers[i] = IF s - currentPart < i /\ Fetching(i)
                                 THEN Part(currentPart + i - 1) ELSE NoBuffer
    BY <1>1 DEF BatchOK
  <2> QED BY <2>1, <2>2, <2>3, <1>2, <1>3 DEF BatchOK
<1>5. ReadOK(t)'
  <2>1. Position' = Position
    BY <1>2 DEF Position, SameRange
  <2> QED BY <2>1, <1>1, <1>2, <1>3 DEF ReadOK, SameRange
<1>6. BlameOK(s)'
  BY <1>1, <1>2, <1>3 DEF BlameOK, fillVars
<1>7. PutsOK(t, s)'
  <2>1. /\ puts \in [0..(Size - 1) -> 0..1]
        /\ \A p \in 0..(Size - 1) : puts[p] = 1 =>
              \/ p = t - 1 /\ cur = NoBuffer /\ (status = "eof" \/ closed)
              \/ p >= s /\ filler = "done"
    BY <1>1 DEF PutsOK
  <2>2. filler' = filler
    BY <1>2 DEF fillVars
  <2>3. CASE cur = NoBuffer
    <3>1. puts' = [p \in 0..(Size - 1) |-> puts[p]]
      BY <2>1, <2>3, <1>2 DEF Put
    <3>2. puts' = puts
      BY <2>1, <3>1
    <3> QED BY <2>1, <2>2, <2>3, <3>2, <1>2 DEF PutsOK
  <2>4. CASE cur # NoBuffer
    <3>1. cur.part = t - 1 /\ t > 0
      BY <2>4, <1>1 DEF ReadOK
    <3>2. puts' = [p \in 0..(Size - 1) |-> IF p \in {t - 1} THEN puts[p] + 1 ELSE puts[p]]
      BY <2>1, <2>4, <3>1, <1>2 DEF Put
    <3>3. ~(t - 1 >= s)
      BY <1>1, ChunksCover DEF ChanOK
    <3>4. \A p \in 0..(Size - 1) : p = t - 1 => puts[p] = 0
      BY <2>1, <2>4, <3>3
    <3>5. \A p \in 0..(Size - 1) :
             /\ puts'[p] = IF p = t - 1 THEN 1 ELSE puts[p]
             /\ puts'[p] \in 0..1
      BY <2>1, <3>2, <3>4
    <3>6. puts' \in [0..(Size - 1) -> 0..1]
      BY <3>2, <3>5
    <3> QED BY <2>1, <2>2, <2>4, <3>5, <3>6, <1>2 DEF PutsOK
  <2> QED BY <2>3, <2>4
<1> QED BY <1>1, <1>3, <1>4, <1>5, <1>6, <1>7 DEF At

LEMMA RequestEndsStep ==
    ASSUME NEW t, NEW s, At(t, s), RequestEnds
    PROVE  At(t, s)'
<1>1. /\ RangeOK /\ FillTyped /\ t \in 0..TotalParts /\ s \in 0..TotalParts
      /\ ChanOK(t, s) /\ ReadOK(t) /\ BatchOK(s) /\ BlameOK(s) /\ PutsOK(t, s)
  BY DEF At
<1>2. /\ SameRange /\ UNCHANGED bufferChan /\ UNCHANGED <<readVars, closed>>
      /\ UNCHANGED puts /\ UNCHANGED fillVars /\ UNCHANGED <<fillVars, cancelled>>
      /\ ended' = TRUE
  BY DEF RequestEnds, SameRange
<1>3. /\ RangeOK' /\ TotalParts' = TotalParts /\ ChanOK(t, s)' /\ ReadOK(t)'
      /\ BatchOK(s)' /\ FillTyped'
  <2>1. ended' \in BOOLEAN /\ cancelled' \in BOOLEAN /\ closed' \in BOOLEAN
    BY <1>1, <1>2 DEF FillTyped
  <2> QED BY <2>1, <1>1, <1>2, PartsKept, ChanKept, ReadKept, BatchKept, FillKept
<1>4. BlameOK(s)' /\ PutsOK(t, s)'
  BY <1>1, <1>2, <1>3 DEF BlameOK, PutsOK, fillVars, readVars
<1> QED BY <1>1, <1>3, <1>4 DEF At

LEMMA Stutters ==
    ASSUME NEW t, NEW s, At(t, s), UNCHANGED vars
    PROVE  At(t, s)'
<1>1. /\ RangeOK /\ FillTyped /\ t \in 0..TotalParts /\ s \in 0..TotalParts
      /\ ChanOK(t, s) /\ ReadOK(t) /\ BatchOK(s) /\ BlameOK(s) /\ PutsOK(t, s)
  BY DEF At
<1>2. /\ SameRange /\ UNCHANGED bufferChan /\ UNCHANGED <<readVars, closed>>
      /\ UNCHANGED puts /\ UNCHANGED fillVars /\ UNCHANGED <<fillVars, cancelled>>
      /\ UNCHANGED <<ended, cancelled, closed>>
  BY DEF vars, ctxVars, SameRange
<1>3. /\ RangeOK' /\ TotalParts' = TotalParts /\ ChanOK(t, s)' /\ ReadOK(t)'
      /\ BatchOK(s)' /\ FillTyped'
  <2>1. ended' \in BOOLEAN /\ cancelled' \in BOOLEAN /\ closed' \in BOOLEAN
    BY <1>1, <1>2 DEF FillTyped
  <2> QED BY <2>1, <1>1, <1>2, PartsKept, ChanKept, ReadKept, BatchKept, FillKept
<1>4. BlameOK(s)' /\ PutsOK(t, s)'
  BY <1>1, <1>2, <1>3 DEF BlameOK, PutsOK, fillVars, readVars
<1> QED BY <1>1, <1>3, <1>4 DEF At

----------------------------------------------------------------------------
(* The theorems.                                                           *)

LEMMA ReaderInvStep ==
    ASSUME ReaderInv, [Next]_vars PROVE ReaderInv'
<1>1. PICK t, s \in 0..TotalParts : At(t, s)
  BY DEF ReaderInv
<1>2. SUFFICES \E u, v : At(u, v)'
  BY DEF ReaderInv, At
<1>3. CASE StartBatch
  BY <1>1, <1>3, StartBatchStep
<1>4. CASE BatchFetched
  BY <1>1, <1>4, BatchFetchedStep
<1>5. CASE SendBuffer
  BY <1>1, <1>5, SendBufferStep
<1>6. CASE SendCanceled
  BY <1>1, <1>6, SendCanceledStep
<1>7. CASE BatchSent
  BY <1>1, <1>7, BatchSentStep
<1>8. ASSUME NEW i \in Slots, Attempt(i) PROVE \E u, v : At(u, v)'
  BY <1>1, <1>8, AttemptStep
<1>9. ASSUME NEW i \in Slots, Backoff(i) PROVE \E u, v : At(u, v)'
  BY <1>1, <1>9, BackoffStep
<1>10. ASSUME NEW n \in ReadSizes, ReadCurrent(n) PROVE \E u, v : At(u, v)'
  BY <1>1, <1>10, ReadCurrentStep
<1>11. ASSUME NEW n \in ReadSizes, ReadNext(n) PROVE \E u, v : At(u, v)'
  BY <1>1, <1>11, ReadNextStep
<1>12. CASE ReadFails
  BY <1>1, <1>12, ReadFailsStep
<1>13. CASE Close
  BY <1>1, <1>13, CloseStep
<1>14. CASE RequestEnds
  BY <1>1, <1>14, RequestEndsStep
<1>15. CASE Over
  BY <1>1, <1>15, Stutters DEF Over
<1>16. CASE UNCHANGED vars
  BY <1>1, <1>16, Stutters
<1> QED
  BY <1>3, <1>4, <1>5, <1>6, <1>7, <1>8, <1>9, <1>10, <1>11, <1>12, <1>13,
     <1>14, <1>15, <1>16 DEF Next, Fill, Read

\* In every reachable state some number of parts was taken and some number
\* sent, and channel, current buffer, batch, offsets and pool agree on both.
THEOREM ReaderCorrect == Spec => []ReaderInv
<1>1. Init => ReaderInv
  BY InitInv
<1>2. ReaderInv /\ [Next]_vars => ReaderInv'
  BY ReaderInvStep
<1> QED BY <1>1, <1>2, PTL DEF Spec

\* No chunk buffer is put in the pool twice, and none that is in the pool is
\* one that Read still copies from or will take from the channel.
THEOREM BuffersAreOwned == Spec => []BuffersOwned
<1>1. ReaderInv => BuffersOwned
  <2>1. SUFFICES ASSUME NEW t \in 0..TotalParts, NEW s \in 0..TotalParts, At(t, s)
                 PROVE  BuffersOwned
    BY DEF ReaderInv
  <2>2. /\ RangeOK /\ ChanOK(t, s) /\ ReadOK(t) /\ PutsOK(t, s)
    BY <2>1 DEF At
  <2>3. TotalParts \in Nat /\ Size \in Nat /\ t \in Int /\ s \in Int
    BY <2>2, ChunksCover
  <2>4. /\ t <= s /\ Len(bufferChan) = s - t
        /\ \A k \in 1..Len(bufferChan) : bufferChan[k] = Part(t + k - 1)
    BY <2>2 DEF ChanOK
  <2>5. cur = NoBuffer \/ cur.part = t - 1
    BY <2>2 DEF ReadOK
  <2>6. /\ puts \in [0..(Size - 1) -> 0..1]
        /\ \A p \in 0..(Size - 1) : puts[p] = 1 =>
              (p = t - 1 /\ cur = NoBuffer) \/ p >= s
    BY <2>2 DEF PutsOK
  <2>7. \A k \in 1..Len(bufferChan) :
           bufferChan[k].part = t + k - 1 /\ t + k - 1 \in t..(s - 1)
    <3>1. SUFFICES ASSUME NEW k \in 1..Len(bufferChan)
                   PROVE  bufferChan[k].part = t + k - 1 /\ t + k - 1 \in t..(s - 1)
      OBVIOUS
    <3>2. Part(t + k - 1).part = t + k - 1
      BY DEF Part
    <3> QED BY <3>2, <2>3, <2>4
  <2>8. ASSUME NEW p \in 0..(Size - 1), puts[p] = 1
        PROVE  cur.part # p /\ \A k \in 1..Len(bufferChan) : bufferChan[k].part # p
    <3>1. p \in Nat /\ ((p = t - 1 /\ cur = NoBuffer) \/ p >= s)
      BY <2>3, <2>6, <2>8
    <3>2. NoBuffer.part = -1
      BY DEF NoBuffer
    <3>3. cur.part # p
      BY <3>1, <3>2, <2>3, <2>4, <2>5
    <3>4. \A k \in 1..Len(bufferChan) : bufferChan[k].part # p
      BY <3>1, <2>3, <2>4, <2>7
    <3> QED BY <3>3, <3>4
  <2>9. DOMAIN puts = 0..(Size - 1) /\ \A p \in 0..(Size - 1) : puts[p] <= 1
    BY <2>6
  <2> QED BY <2>8, <2>9 DEF BuffersOwned
<1> QED BY <1>1, ReaderCorrect, PTL

\* The bot is blamed only if the caller does not get its range, and a caller
\* whose Read fails had it blamed unless the request itself was over.
THEOREM FailuresAreReported == Spec => []FailureReported
<1>1. ReaderInv => FailureReported
  <2>1. SUFFICES ASSUME NEW t \in 0..TotalParts, NEW s \in 0..TotalParts, At(t, s)
                 PROVE  FailureReported
    BY DEF ReaderInv
  <2>2. /\ RangeOK /\ ChanOK(t, s) /\ ReadOK(t) /\ BlameOK(s)
    BY <2>1 DEF At
  <2>3. TotalParts \in Nat
    BY <2>2, ChunksCover
  <2>4. status = "eof" => t = TotalParts
    BY <2>2 DEF ReadOK
  <2>5. t <= s
    BY <2>2 DEF ChanOK
  <2>6. status = "eof" => ~(s < TotalParts)
    BY <2>3, <2>4, <2>5
  <2> QED BY <2>2, <2>6 DEF BlameOK, FailureReported
<1> QED BY <1>1, ReaderCorrect, PTL

\* A Read that copies from part t - 1 delivers more of the range.
LEMMA CopyDelivers ==
    ASSUME RangeOK, NEW t, NEW b, NEW n, Copies(t, b, n),
           status = "open", UNCHANGED <<first, last>>
    PROVE  Stream!Deliver
<1>1. /\ first \in Nat /\ last \in Nat /\ first <= last
  BY ChunksCover
<1>2. /\ limit \in 0..(last - first + 1) /\ out = Stream!Bytes(first, Position)
  BY DEF Copies
<1>3. PICK k \in Nat \ {0} :
         /\ k <= limit
         /\ out' = Stream!Bytes(first, Position + k)
         /\ status' = IF limit = k THEN "eof" ELSE "open"
  <2>1. PICK k \in Nat \ {0} :
           /\ k <= limit /\ limit' = limit - k
           /\ out' = Stream!Bytes(first, Position + k)
           /\ IF limit = k
              THEN /\ status' = "eof" /\ cur' = NoBuffer /\ Put({t - 1})
                   /\ t = TotalParts
              ELSE /\ cur' = [b EXCEPT !.from = b.from + k]
                   /\ UNCHANGED <<status, puts>>
    BY CopyIs
  <2> QED BY <2>1
<1>4. PICK e \in Nat : e = last + 1
  BY <1>1
<1>5. PICK m \in Nat : m = Position - first
  BY <1>1, <1>2 DEF Position
<1>6. PICK q \in Nat : q = m + k
  BY <1>3
<1>7. /\ Position = first + m /\ Position + k = first + q
      /\ m <= q /\ q <= e - first /\ (limit = k <=> q = e - first)
  BY <1>1, <1>2, <1>3, <1>4, <1>5, <1>6 DEF Position
<1>8. Len(out) = m
  <2>1. PICK a \in Int : a = first + m /\ first <= a /\ a - first = m
    BY <1>1
  <2>3. first \in Int
    BY <1>1
  <2>2. Len(Stream!Bytes(first, a)) = a - first
    BY <2>1, <2>3, BytesAre
  <2> QED BY <2>1, <2>2, <1>2, <1>7
<1>9. Stream!Requested = Stream!Bytes(first, e)
  BY <1>4 DEF Stream!Requested
<1>10. Len(Stream!Requested) = e - first
  <2>1. first \in Int /\ e \in Int /\ first <= e
    BY <1>1, <1>4
  <2> QED BY <2>1, <1>9, BytesAre
<1>11. SubSeq(Stream!Requested, 1, q) = Stream!Bytes(first, first + q)
  <2>1. first \in Int /\ e \in Int /\ q <= e - first
    BY <1>1, <1>4, <1>7
  <2> QED BY <2>1, <1>9, BytesPrefix
<1>12. q \in Len(out)..Len(Stream!Requested)
  BY <1>1, <1>4, <1>7, <1>8, <1>10
<1>13. /\ out' = SubSeq(Stream!Requested, 1, q)
       /\ status' = IF q = Len(Stream!Requested) THEN "eof" ELSE "open"
  BY <1>3, <1>7, <1>10, <1>11
<1> QED BY <1>12, <1>13 DEF Stream!Deliver

\* Whatever the fetches do, and in whatever order they end, the caller gets
\* the bytes of its range in order, io.EOF only with the last of them, or an
\* error after a prefix of them: the reader implements ByteStream.
THEOREM ReaderServesTheRange == Spec => ReadsTheRange
<1>1. Init => Stream!Init
  <2>1. SUFFICES ASSUME Init PROVE Stream!Init
    OBVIOUS
  <2>2. RangeOK
    BY <2>1 DEF Init, RangeOK
  <2>3. first \in Nat /\ last \in Nat /\ first <= last
    BY <2>2, ChunksCover
  <2> QED BY <2>1, <2>3 DEF Init, Stream!Init
<1>2. ReaderInv /\ [Next]_vars => [Stream!Next]_(Stream!streamVars)
  <2>1. SUFFICES ASSUME NEW t \in 0..TotalParts, NEW s \in 0..TotalParts, At(t, s),
                        [Next]_vars
                 PROVE  Stream!Next \/ UNCHANGED <<first, last, out, status>>
    BY DEF ReaderInv, Stream!streamVars
  <2>2. RangeOK
    BY <2>1 DEF At
  <2>3. ASSUME NEW n \in ReadSizes, ReadCurrent(n) PROVE Stream!Next
    <3>1. Copies(t, cur, n)
      BY <2>1, <2>3, ReadCurrentStep
    <3>2. status = "open" /\ UNCHANGED <<first, last>>
      BY <2>3 DEF ReadCurrent, Reading
    <3> QED BY <3>1, <3>2, <2>2, CopyDelivers DEF Stream!Next
  <2>4. ASSUME NEW n \in ReadSizes, ReadNext(n) PROVE Stream!Next
    <3>1. Copies(t + 1, Head(bufferChan), n)
      BY <2>1, <2>4, ReadNextStep
    <3>2. status = "open" /\ UNCHANGED <<first, last>>
      BY <2>4 DEF ReadNext, Reading
    <3> QED BY <3>1, <3>2, <2>2, CopyDelivers DEF Stream!Next
  <2>5. CASE ReadFails
    BY <2>5 DEF ReadFails, Reading, Stream!Next, Stream!Fail
  <2>6. CASE Fill
    BY <2>6 DEF Fill, StartBatch, BatchFetched, SendBuffer, SendCanceled,
                BatchSent, readVars
  <2>7. ASSUME NEW i \in Slots, Attempt(i) \/ Backoff(i)
        PROVE  UNCHANGED <<first, last, out, status>>
    BY <2>7 DEF Attempt, Backoff, readVars
  <2>8. CASE Close \/ RequestEnds
    BY <2>8 DEF Close, RequestEnds, readVars
  <2>9. CASE Over \/ UNCHANGED vars
    BY <2>9 DEF Over, vars, readVars
  <2> QED BY <2>1, <2>3, <2>4, <2>5, <2>6, <2>7, <2>8, <2>9 DEF Next, Read
<1> QED BY <1>1, <1>2, ReaderCorrect, PTL DEF Spec, ReadsTheRange, Stream!Spec
=============================================================================
