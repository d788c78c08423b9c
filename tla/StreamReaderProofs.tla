------------------------- MODULE StreamReaderProofs -------------------------
(***************************************************************************)
(* Proofs about encrypted parts and about streaming a range of a file, for *)
(* every size of the file, its parts and its boxes, every header and every *)
(* way to read.                                                            *)
(***************************************************************************)
EXTENDS StreamReader, FiniteSetTheorems, WellFoundedInduction, TLAPS

----------------------------------------------------------------------------
(* Numbers.                                                                *)

LEMMA LeastNatural ==
    ASSUME NEW S \in SUBSET Nat, S # {}
    PROVE  \E n \in S : \A m \in S : n <= m
<1> DEFINE R == OpToRel(<, Nat)
<1>1. IsWellFoundedOn(R, Nat)
  BY NatLessThanWellFounded
<1>2. R = {p \in Nat \X Nat : p[1] < p[2]}
  BY DEF OpToRel
<1>3. \A x, y \in Nat : <<x, y>> \in R <=> x < y
  BY <1>2
<1> HIDE DEF R
<1>4. PICK n \in S : \A m \in S : ~(<<m, n>> \in R)
  BY <1>1, WFMin
<1>5. \A m \in S : ~(m < n)
  BY <1>3, <1>4
<1> QED BY <1>5

\* Induction, with a set for the property.
LEMMA Induction ==
    ASSUME NEW P \in SUBSET Nat, 0 \in P, \A n \in P : n + 1 \in P
    PROVE  P = Nat
<1>1. SUFFICES ASSUME Nat \ P # {} PROVE FALSE
  OBVIOUS
<1>2. PICK n \in Nat \ P : \A m \in Nat \ P : n <= m
  BY <1>1, LeastNatural
<1>3. n - 1 \in Nat /\ ~(n <= n - 1)
  BY <1>2
<1>4. n - 1 \in P
  BY <1>2, <1>3
<1>5. (n - 1) + 1 \in P /\ (n - 1) + 1 = n
  BY <1>4, <1>2
<1> QED BY <1>5, <1>2

\* A function that is defined from its value one below.
Iterates(f, n, a, g) ==
    f = [i \in 0..n |-> IF i = 0 THEN a ELSE g[<<i - 1, f[i - 1]>>]]

LEMMA Recursion ==
    ASSUME NEW S, NEW a \in S, NEW g \in [Nat \X S -> S]
    PROVE  \A n \in Nat : \E f \in [0..n -> S] : Iterates(f, n, a, g)
<1> USE DEF Iterates
<1> DEFINE rec(f, n) == f = [i \in 0..n |-> IF i = 0 THEN a ELSE g[<<i - 1, f[i - 1]>>]]
           P == {n \in Nat : \E f \in [0..n -> S] : rec(f, n)}
<1>1. 0 \in P
  <2> DEFINE f == [i \in 0..0 |-> a]
  <2>1. f \in [0..0 -> S] /\ rec(f, 0)
    OBVIOUS
  <2> QED BY <2>1
<1>2. ASSUME NEW n \in P PROVE n + 1 \in P
  <2>1. n \in Nat
    OBVIOUS
  <2>2. PICK h \in [0..n -> S] : rec(h, n)
    OBVIOUS
  <2> DEFINE f == [i \in 0..(n + 1) |-> IF i = n + 1 THEN g[<<n, h[n]>>] ELSE h[i]]
  <2>3. <<n, h[n]>> \in Nat \X S
    BY <2>1
  <2>4. f \in [0..(n + 1) -> S]
    BY <2>1, <2>3
  <2>5. \A i \in 0..(n + 1) : f[i] = IF i = 0 THEN a ELSE g[<<i - 1, f[i - 1]>>]
    <3>1. SUFFICES ASSUME NEW i \in 0..(n + 1)
                   PROVE  f[i] = IF i = 0 THEN a ELSE g[<<i - 1, f[i - 1]>>]
      OBVIOUS
    <3>2. CASE i = n + 1
      <4>1. i - 1 = n /\ i # 0 /\ n \in 0..(n + 1) /\ n # n + 1
        BY <3>2, <2>1
      <4>2. f[n] = h[n]
        BY <4>1
      <4> QED BY <4>1, <4>2, <3>2
    <3>3. CASE i # n + 1
      <4>1. i \in 0..n
        BY <3>3, <2>1
      <4>2. h[i] = IF i = 0 THEN a ELSE g[<<i - 1, h[i - 1]>>]
        BY <4>1, <2>2
      <4>3. f[i] = h[i]
        BY <3>3
      <4>4. i # 0 => f[i - 1] = h[i - 1]
        BY <4>1, <2>1
      <4> QED BY <4>2, <4>3, <4>4
    <3> QED BY <3>2, <3>3
  <2>6. f = [i \in 0..(n + 1) |-> f[i]]
    OBVIOUS
  <2> HIDE DEF f
  <2>7. [i \in 0..(n + 1) |-> f[i]]
          = [i \in 0..(n + 1) |-> IF i = 0 THEN a ELSE g[<<i - 1, f[i - 1]>>]]
    BY <2>5
  <2>8. f = [i \in 0..(n + 1) |-> IF i = 0 THEN a ELSE g[<<i - 1, f[i - 1]>>]]
    BY <2>6, <2>7, Zenon
  <2>9. n + 1 \in Nat
    BY <2>1
  <2> QED BY <2>4, <2>8, <2>9, Zenon
<1>3. P = Nat
  <2>1. P \in SUBSET Nat
    OBVIOUS
  <2> HIDE DEF P
  <2> QED BY <1>1, <1>2, <2>1, Induction
<1> QED BY <1>3

LEMMA DivMod ==
    ASSUME NEW a \in Nat, NEW c \in Nat \ {0}
    PROVE  a \div c \in Nat /\ a % c \in 0..(c - 1) /\ a = c * (a \div c) + (a % c)
OBVIOUS

LEMMA TimesMonotone ==
    ASSUME NEW a \in Int, NEW b \in Int, NEW c \in Nat, a <= b
    PROVE  c * a <= c * b
OBVIOUS

\* A quotient and a remainder are the quotient and the remainder.
LEMMA DivIs ==
    ASSUME NEW c \in Nat \ {0}, NEW q \in Int, NEW r \in 0..(c - 1),
           NEW a \in Int, a = c * q + r
    PROVE  a \div c = q /\ a % c = r
OBVIOUS

----------------------------------------------------------------------------
(* Nonces.  Adding x + 1 to a nonce is adding x and then one.              *)

LEMMA CipherConstants ==
    /\ FileHeaderSize \in Nat \ {0} /\ BlockHeaderSize \in Nat \ {0}
    /\ BlockDataSize \in Nat \ {0}
    /\ BlockSize \in Nat \ {0} /\ BlockSize = BlockHeaderSize + BlockDataSize
    /\ Base \in Nat \ {0} /\ Base > 1
    /\ NonceLen \in Nat /\ AddLen \in Nat \ {0} /\ AddLen < NonceLen
BY CipherAssumption DEF CipherAssumption, BlockSize

LEMMA ShiftedIs ==
    ASSUME NEW x \in Nat
    PROVE  /\ Shifted(x) \in [0..AddLen -> Nat]
           /\ Shifted(x)[0] = x
           /\ \A i \in 1..AddLen : Shifted(x)[i] = Shifted(x)[i - 1] \div Base
<1> DEFINE g == [p \in Nat \X Nat |-> p[2] \div Base]
           step(f, i) == IF i = 0 THEN x ELSE f[i - 1] \div Base
           rest == CHOOSE f : f = [i \in 0..AddLen |-> step(f, i)]
<1>1. Shifted(x) = rest
  BY DEF Shifted
<1>2. g \in [Nat \X Nat -> Nat]
  BY CipherConstants
<1>3. PICK f \in [0..AddLen -> Nat] : Iterates(f, AddLen, x, g)
  <2> HIDE DEF g
  <2>1. \A m \in Nat : \E f \in [0..m -> Nat] : Iterates(f, m, x, g)
    BY <1>2, Recursion
  <2> QED BY <2>1, CipherConstants
<1>4. f = [i \in 0..AddLen |-> step(f, i)]
  <2>1. \A i \in 0..AddLen : f[i] = step(f, i)
    <3>1. SUFFICES ASSUME NEW i \in 0..AddLen, i # 0
                   PROVE  f[i] = f[i - 1] \div Base
      BY <1>3 DEF Iterates
    <3>2. i - 1 \in 0..AddLen /\ i - 1 \in Nat
      BY <3>1, CipherConstants
    <3>3. <<i - 1, f[i - 1]>> \in Nat \X Nat
      BY <3>2
    <3>4. f[i] = g[<<i - 1, f[i - 1]>>]
      <4> HIDE DEF g
      <4> QED BY <1>3, <3>1 DEF Iterates
    <3> QED BY <3>3, <3>4
  <2>2. f = [i \in 0..AddLen |-> f[i]]
    BY <1>3
  <2>3. [i \in 0..AddLen |-> f[i]] = [i \in 0..AddLen |-> step(f, i)]
    BY <2>1
  <2> QED BY <2>2, <2>3
<1>5. rest = [i \in 0..AddLen |-> step(rest, i)]
  BY <1>4
<1> HIDE DEF rest
<1> DEFINE P == {i \in Nat : i <= AddLen => rest[i] \in Nat}
<1>6. P = Nat
  <2>1. 0 \in P
    BY <1>5, CipherConstants
  <2>2. ASSUME NEW i \in P PROVE i + 1 \in P
    <3>1. SUFFICES ASSUME i + 1 <= AddLen PROVE rest[i + 1] \in Nat
      OBVIOUS
    <3>2. i + 1 \in 0..AddLen /\ i + 1 # 0 /\ (i + 1) - 1 = i
      BY <3>1, CipherConstants
    <3>3. rest[i] \in Nat
      BY <3>1, CipherConstants
    <3>4. rest[i + 1] = rest[i] \div Base
      BY <1>5, <3>2
    <3> QED BY <3>3, <3>4, CipherConstants
  <2>3. P \in SUBSET Nat
    OBVIOUS
  <2> HIDE DEF P
  <2> QED BY <2>1, <2>2, <2>3, Induction
<1>7. \A i \in 0..AddLen : rest[i] \in Nat
  BY <1>6, CipherConstants
<1>8. rest \in [0..AddLen -> Nat]
  BY <1>5, <1>7
<1>9. \A i \in 1..AddLen : rest[i] = rest[i - 1] \div Base
  BY <1>5, CipherConstants
<1>10. rest[0] = x
  BY <1>5, CipherConstants
<1> QED BY <1>1, <1>8, <1>9, <1>10

LEMMA NonceFacts ==
    ASSUME NEW n
    PROVE  n \in Nonces <=> n \in [1..NonceLen -> 0..(Base - 1)]
BY DEF Nonces

LEMMA SameNonce ==
    ASSUME NEW a \in Nonces, NEW b \in Nonces, \A j \in 1..NonceLen : a[j] = b[j]
    PROVE  a = b
<1>1. a = [j \in 1..NonceLen |-> a[j]] /\ b = [j \in 1..NonceLen |-> b[j]]
  BY DEF Nonces
<1>2. [j \in 1..NonceLen |-> a[j]] = [j \in 1..NonceLen |-> b[j]]
  OBVIOUS
<1> QED BY <1>1, <1>2, Zenon

\* Two digits and a carry of one make less than twice the base.
LEMMA ColumnFacts ==
    ASSUME NEW n \in Nonces, NEW x \in Nat, NEW i \in 1..AddLen, NEW c \in 0..1
    PROVE  /\ Column(n, x, i, c) \in Nat
           /\ Column(n, x, i, c) = n[i] + (Shifted(x)[i - 1] % Base) + c
           /\ Column(n, x, i, c) \div Base \in 0..1
           /\ Column(n, x, i, c) % Base \in 0..(Base - 1)
<1>1. n[i] \in 0..(Base - 1)
  BY NonceFacts, CipherConstants
<1>2. Shifted(x)[i - 1] % Base \in 0..(Base - 1)
  <2>1. Shifted(x)[i - 1] \in Nat
    BY ShiftedIs, CipherConstants
  <2> QED BY <2>1, CipherConstants
<1>3. Column(n, x, i, c) = n[i] + (Shifted(x)[i - 1] % Base) + c
  BY DEF Column
<1> HIDE DEF Column
<1>4. Column(n, x, i, c) \in Nat /\ Column(n, x, i, c) < 2 * Base
  BY <1>1, <1>2, <1>3, CipherConstants
<1> QED BY <1>3, <1>4, CipherConstants

LEMMA CarriesIs ==
    ASSUME NEW n \in Nonces, NEW x \in Nat
    PROVE  /\ Carries(n, x) \in [0..AddLen -> 0..1]
           /\ Carries(n, x)[0] = 0
           /\ \A i \in 1..AddLen :
                 Carries(n, x)[i] = Column(n, x, i, Carries(n, x)[i - 1]) \div Base
<1> DEFINE g == [p \in Nat \X (0..1) |->
                    IF p[1] < AddLen THEN Column(n, x, p[1] + 1, p[2]) \div Base ELSE 0]
           step(f, i) == IF i = 0 THEN 0 ELSE Column(n, x, i, f[i - 1]) \div Base
           carry == CHOOSE f : f = [i \in 0..AddLen |-> step(f, i)]
<1>1. Carries(n, x) = carry
  BY DEF Carries
<1>2. g \in [Nat \X (0..1) -> 0..1]
  <2>1. ASSUME NEW p \in Nat \X (0..1), p[1] < AddLen
        PROVE  Column(n, x, p[1] + 1, p[2]) \div Base \in 0..1
    <3>1. p[1] + 1 \in 1..AddLen /\ p[2] \in 0..1
      BY <2>1, CipherConstants
    <3> QED BY <3>1, ColumnFacts
  <2> QED BY <2>1
<1>3. PICK f \in [0..AddLen -> 0..1] : Iterates(f, AddLen, 0, g)
  <2> HIDE DEF g
  <2>1. 0 \in 0..1
    OBVIOUS
  <2>2. \A m \in Nat : \E f \in [0..m -> 0..1] : Iterates(f, m, 0, g)
    BY <1>2, <2>1, Recursion
  <2> QED BY <2>2, CipherConstants
<1>4. f = [i \in 0..AddLen |-> step(f, i)]
  <2>1. \A i \in 0..AddLen : f[i] = step(f, i)
    <3>1. SUFFICES ASSUME NEW i \in 0..AddLen, i # 0
                   PROVE  f[i] = Column(n, x, i, f[i - 1]) \div Base
      BY <1>3 DEF Iterates
    <3>2. i - 1 \in 0..AddLen /\ i - 1 \in Nat /\ i - 1 < AddLen /\ (i - 1) + 1 = i
      BY <3>1, CipherConstants
    <3>3. <<i - 1, f[i - 1]>> \in Nat \X (0..1)
      BY <3>2
    <3>4. f[i] = g[<<i - 1, f[i - 1]>>]
      <4> HIDE DEF g
      <4> QED BY <1>3, <3>1 DEF Iterates
    <3> QED BY <3>2, <3>3, <3>4
  <2>2. f = [i \in 0..AddLen |-> f[i]]
    BY <1>3
  <2>3. [i \in 0..AddLen |-> f[i]] = [i \in 0..AddLen |-> step(f, i)]
    BY <2>1
  <2> QED BY <2>2, <2>3
<1>5. carry = [i \in 0..AddLen |-> step(carry, i)]
  BY <1>4
<1> HIDE DEF carry
<1> DEFINE P == {i \in Nat : i <= AddLen => carry[i] \in 0..1}
<1>6. P = Nat
  <2>1. 0 \in P
    BY <1>5, CipherConstants
  <2>2. ASSUME NEW i \in P PROVE i + 1 \in P
    <3>1. SUFFICES ASSUME i + 1 <= AddLen PROVE carry[i + 1] \in 0..1
      OBVIOUS
    <3>2. i + 1 \in 1..AddLen /\ i + 1 \in 0..AddLen /\ i + 1 # 0 /\ (i + 1) - 1 = i
      BY <3>1, CipherConstants
    <3>3. carry[i] \in 0..1
      BY <3>1, CipherConstants
    <3>4. carry[i + 1] = Column(n, x, i + 1, carry[i]) \div Base
      <4>1. PICK k \in 0..AddLen : k = i + 1
        BY <3>2
      <4>2. carry[k] = step(carry, k)
        BY <1>5
      <4> QED BY <4>1, <4>2, <3>2
    <3>5. Column(n, x, i + 1, carry[i]) \div Base \in 0..1
      BY <3>2, <3>3, ColumnFacts
    <3> QED BY <3>4, <3>5
  <2>3. P \in SUBSET Nat
    OBVIOUS
  <2> HIDE DEF P
  <2> QED BY <2>1, <2>2, <2>3, Induction
<1>7. \A i \in 0..AddLen : carry[i] \in 0..1
  BY <1>6, CipherConstants
<1>8. carry \in [0..AddLen -> 0..1]
  BY <1>5, <1>7
<1>9. \A i \in 1..AddLen : carry[i] = Column(n, x, i, carry[i - 1]) \div Base
  BY <1>5, CipherConstants
<1>10. carry[0] = 0
  BY <1>5, CipherConstants
<1> QED BY <1>1, <1>8, <1>9, <1>10

\* The digits of n from the i-th up to, not including, the j-th are the
\* highest there are: a carry passes them.
Full(n, i, j) == \A k \in i..(j - 1) : n[k] = Base - 1

LEMMA FullGrows ==
    ASSUME NEW n, NEW i \in Nat, NEW j \in Nat, i <= j
    PROVE  /\ Full(n, i, i)
           /\ Full(n, i, j + 1) <=> Full(n, i, j) /\ n[j] = Base - 1
           /\ \A k \in Nat : k >= j => (Full(n, i, k) <=> Full(n, i, j) /\ Full(n, j, k))
BY DEF Full

LEMMA CarryIs ==
    ASSUME NEW n \in Nonces, NEW i \in Nat
    PROVE  /\ Carry(n, i) \in Nonces
           /\ \A j \in 1..NonceLen :
                 Carry(n, i)[j] = IF j >= i /\ Full(n, i, j) THEN (n[j] + 1) % Base
                                  ELSE n[j]
<1>1. \A j \in 1..NonceLen : n[j] \in 0..(Base - 1)
  BY NonceFacts
<1>2. \A j \in 1..NonceLen : (n[j] + 1) % Base \in 0..(Base - 1)
  BY <1>1, CipherConstants
<1>3. Carry(n, i) = [j \in 1..NonceLen |->
                       IF j >= i /\ Full(n, i, j) THEN (n[j] + 1) % Base ELSE n[j]]
  BY DEF Carry, Full
<1>4. Carry(n, i) \in [1..NonceLen -> 0..(Base - 1)]
  BY <1>1, <1>2, <1>3
<1> QED BY <1>3, <1>4, NonceFacts

LEMMA AddedIs ==
    ASSUME NEW n \in Nonces, NEW x \in Nat
    PROVE  /\ Added(n, x) \in Nonces
           /\ \A j \in 1..AddLen :
                 Added(n, x)[j] = Column(n, x, j, Carries(n, x)[j - 1]) % Base
           /\ \A j \in (AddLen + 1)..NonceLen : Added(n, x)[j] = n[j]
<1>1. \A j \in 1..NonceLen : n[j] \in 0..(Base - 1)
  BY NonceFacts
<1>2. ASSUME NEW j \in 1..AddLen
      PROVE  Column(n, x, j, Carries(n, x)[j - 1]) % Base \in 0..(Base - 1)
  <2>1. Carries(n, x)[j - 1] \in 0..1
    BY CarriesIs, CipherConstants
  <2> QED BY <2>1, ColumnFacts
<1>3. \A j \in 1..NonceLen : j <= AddLen => j \in 1..AddLen
  BY CipherConstants
<1>4. Added(n, x) \in [1..NonceLen -> 0..(Base - 1)]
  BY <1>1, <1>2, <1>3 DEF Added
<1>5. 1..AddLen \subseteq 1..NonceLen /\ (AddLen + 1)..NonceLen \subseteq 1..NonceLen
      /\ (\A j \in 1..AddLen : j <= AddLen)
      /\ (\A j \in (AddLen + 1)..NonceLen : ~(j <= AddLen))
  BY CipherConstants
<1> QED BY <1>4, <1>5, NonceFacts DEF Added

LEMMA DivSmall ==
    ASSUME NEW c \in Nat \ {0}, NEW a \in 0..(c - 1)
    PROVE  a \div c = 0 /\ a % c = a
OBVIOUS

LEMMA Distribute ==
    ASSUME NEW a \in Int, NEW b \in Int, NEW c \in Int
    PROVE  /\ a * b \in Int /\ a * (b + c) = a * b + a * c /\ a * (b - c) = a * b - a * c
           /\ a * 0 = 0 /\ a * 1 = a
OBVIOUS

\* What the lowest digit of a passes on when it gets e more.
PassesOn(a, c, e) == IF e = 1 /\ a % c = c - 1 THEN 1 ELSE 0

LEMMA DigitStep ==
    ASSUME NEW a \in Nat, NEW c \in Nat \ {0}, NEW e \in 0..1
    PROVE  /\ (a + e) \div c = (a \div c) + PassesOn(a, c, e)
           /\ (a + e) % c = (a % c) + e - (IF PassesOn(a, c, e) = 1 THEN c ELSE 0)
           /\ (a + e) % c = ((a % c) + e) % c
<1> USE DEF PassesOn
<1>1. PICK q, r, m \in Nat : q = a \div c /\ r = a % c /\ m = c * q
  OBVIOUS
<1>2. r < c /\ a = m + r
  BY <1>1, DivMod
<1>3. PICK w \in Nat : w = a + e
  OBVIOUS
<1>4. CASE e = 1 /\ r = c - 1
  <2>1. PICK v \in Int, z \in 0..(c - 1) : v = q + 1 /\ z = 0
    OBVIOUS
  <2>2. c * v = m + c
    BY <1>1, <2>1, Distribute
  <2>3. w = c * v + z
    BY <1>2, <1>3, <1>4, <2>1, <2>2
  <2>4. w \div c = v /\ w % c = z
    BY <2>3, DivIs
  <2>5. c % c = 0
    <3>1. c = c * 1 + 0 /\ 0 \in 0..(c - 1)
      OBVIOUS
    <3> QED BY <3>1, DivIs
  <2> QED BY <1>1, <1>3, <1>4, <2>1, <2>4, <2>5
<1>5. CASE ~(e = 1 /\ r = c - 1)
  <2>1. PICK z \in 0..(c - 1) : z = r + e
    BY <1>2, <1>5
  <2>2. w = c * q + z
    BY <1>1, <1>2, <1>3, <2>1
  <2>3. w \div c = q /\ w % c = z
    BY <2>2, DivIs
  <2>4. z % c = z
    BY <2>1
  <2> QED BY <1>1, <1>3, <1>5, <2>1, <2>3, <2>4
<1> QED BY <1>4, <1>5

\* One column, with one more to add: e is what the number gets from the lower
\* digits, f what the sum gets.
LEMMA ColumnStep ==
    ASSUME NEW n \in Nat, NEW s \in Nat,
           NEW e \in 0..1, NEW c \in 0..1, NEW c2 \in 0..1, NEW f \in 0..1,
           e + c2 = c + f,
           NEW sum \in Nat, sum = n + (s % Base) + c,
           NEW sum2 \in Nat, sum2 = n + ((s + e) % Base) + c2
    PROVE  /\ ((s + e) \div Base) - (s \div Base) \in 0..1
           /\ ((s + e) \div Base) - (s \div Base) + (sum2 \div Base)
                = (sum \div Base) + PassesOn(sum, Base, f)
           /\ sum2 % Base = ((sum % Base) + f) % Base
<1>0. Base \in Nat \ {0}
  BY CipherConstants
<1>1. PICK E \in 0..1 : E = PassesOn(s, Base, e)
  BY DEF PassesOn
<1>2. /\ (s + e) \div Base = (s \div Base) + E
      /\ (s + e) % Base = (s % Base) + e - (IF E = 1 THEN Base ELSE 0)
  BY <1>0, <1>1, DigitStep
<1>3. PICK F \in 0..1 : F = PassesOn(sum, Base, f)
  BY DEF PassesOn
<1>4. PICK w \in Nat : w = sum + f
  OBVIOUS
<1>5. /\ w \div Base = (sum \div Base) + F
      /\ w % Base = ((sum % Base) + f) % Base
  <2>1. /\ (sum + f) \div Base = (sum \div Base) + F
        /\ (sum + f) % Base = ((sum % Base) + f) % Base
    BY <1>0, <1>3, DigitStep
  <2> QED BY <2>1, <1>4
<1>6. /\ s % Base \in Nat /\ s \div Base \in Nat
      /\ sum % Base \in Nat /\ sum \div Base \in Nat
      /\ sum2 % Base \in 0..(Base - 1) /\ sum2 \div Base \in Nat
  <2>1. \A a \in Nat : a % Base \in 0..(Base - 1) /\ a \div Base \in Nat
    BY CipherConstants, DivMod
  <2> QED BY <2>1
<1>7. sum2 = w - (IF E = 1 THEN Base ELSE 0)
  BY <1>2, <1>4, <1>6, CipherConstants
<1>8. sum2 \div Base = (w \div Base) - E /\ sum2 % Base = w % Base
  <2>1. CASE E = 1
    <3>1. PICK q, r, m \in Nat : q = sum2 \div Base /\ r = sum2 % Base /\ m = Base * q
      <4>1. PICK q, r \in Nat : q = sum2 \div Base /\ r = sum2 % Base
        BY <1>6
      <4>2. Base * q \in Nat
        BY CipherConstants
      <4> QED BY <4>1, <4>2
    <3>2. sum2 = m + r /\ r \in 0..(Base - 1)
      BY <3>1, CipherConstants, DivMod
    <3>3. PICK v \in Int : v = q + 1
      OBVIOUS
    <3>4. Base * v = m + Base
      BY <3>1, <3>3, CipherConstants, Distribute
    <3>5. w = Base * v + r
      BY <3>2, <3>4, <1>7, <2>1, CipherConstants
    <3>6. w \div Base = v /\ w % Base = r
      BY <3>2, <3>5, CipherConstants, DivIs
    <3> QED BY <3>1, <3>3, <3>6, <2>1
  <2>2. CASE E = 0
    <3>1. sum2 = w /\ w \div Base \in Nat
      BY <2>2, <1>7, CipherConstants
    <3> QED BY <3>1, <2>2
  <2> QED BY <2>1, <2>2
<1> QED BY <1>2, <1>3, <1>5, <1>6, <1>8, CipherConstants

\* What adding one to the sum d carries out of its first i digits.
CarryOne(d, i) == IF Full(d, 1, i + 1) THEN 1 ELSE 0

\* Up to the i-th digit, x + 1 in place of x makes one more of the sum, which
\* either stays in the number or is carried.
OneMore(n, x, i) ==
    LET e == Shifted(x + 1)[i] - Shifted(x)[i]
    IN  /\ e \in 0..1
        /\ e + Carries(n, x + 1)[i] = Carries(n, x)[i] + CarryOne(Added(n, x), i)

LEMMA OneMoreStep ==
    ASSUME NEW n \in Nonces, NEW x \in Nat, NEW i \in 1..AddLen, OneMore(n, x, i - 1)
    PROVE  /\ OneMore(n, x, i)
           /\ Added(n, x + 1)[i]
                = (Added(n, x)[i] + CarryOne(Added(n, x), i - 1)) % Base
<1>0. x + 1 \in Nat /\ Base \in Nat \ {0} /\ i \in Nat /\ i - 1 \in Nat
      /\ i - 1 \in 0..AddLen /\ i \in 0..AddLen
  BY CipherConstants
<1>1. PICK s, s2 \in Nat : s = Shifted(x)[i - 1] /\ s2 = Shifted(x + 1)[i - 1]
  BY <1>0, ShiftedIs
<1>2. PICK c, c2 \in 0..1 : c = Carries(n, x)[i - 1] /\ c2 = Carries(n, x + 1)[i - 1]
  BY <1>0, CarriesIs
<1>3. PICK f \in 0..1 : f = CarryOne(Added(n, x), i - 1)
  BY DEF CarryOne
<1>4. PICK e \in 0..1 : s2 = s + e /\ e + c2 = c + f
  BY <1>1, <1>2, <1>3 DEF OneMore
<1>5. PICK m \in Nat : m = n[i]
  <2>1. i \in 1..NonceLen
    BY CipherConstants
  <2> QED BY <2>1, NonceFacts, CipherConstants
<1>y. PICK y \in Nat : y = x + 1
  BY <1>0
<1>6. PICK sum \in Nat : sum = Column(n, x, i, c) /\ sum = m + (s % Base) + c
  <2>1. /\ Column(n, x, i, c) \in Nat
        /\ Column(n, x, i, c) = n[i] + (Shifted(x)[i - 1] % Base) + c
    BY ColumnFacts, Zenon
  <2> QED BY <2>1, <1>1, <1>5
<1>7. PICK sum2 \in Nat : sum2 = Column(n, y, i, c2) /\ sum2 = m + ((s + e) % Base) + c2
  <2>1. /\ Column(n, y, i, c2) \in Nat
        /\ Column(n, y, i, c2) = n[i] + (Shifted(y)[i - 1] % Base) + c2
    BY ColumnFacts, Zenon
  <2>2. Shifted(y)[i - 1] = s + e
    BY <1>1, <1>4, <1>y
  <2> QED BY <2>1, <2>2, <1>5
<1>8. /\ ((s + e) \div Base) - (s \div Base) \in 0..1
      /\ ((s + e) \div Base) - (s \div Base) + (sum2 \div Base)
           = (sum \div Base) + PassesOn(sum, Base, f)
      /\ sum2 % Base = ((sum % Base) + f) % Base
  BY <1>4, <1>6, <1>7, ColumnStep
<1>9. /\ Shifted(x)[i] = s \div Base /\ Shifted(x + 1)[i] = (s + e) \div Base
  <2>1. Shifted(x)[i] = Shifted(x)[i - 1] \div Base
    BY ShiftedIs, Zenon
  <2>2. Shifted(y)[i] = Shifted(y)[i - 1] \div Base
    BY ShiftedIs, Zenon
  <2> QED BY <2>1, <2>2, <1>1, <1>4, <1>y
<1>10. Carries(n, x)[i] = sum \div Base /\ Carries(n, x + 1)[i] = sum2 \div Base
  <2>1. Carries(n, x)[i] = Column(n, x, i, Carries(n, x)[i - 1]) \div Base
    BY CarriesIs, Zenon
  <2>2. Carries(n, y)[i] = Column(n, y, i, Carries(n, y)[i - 1]) \div Base
    BY CarriesIs, Zenon
  <2> QED BY <2>1, <2>2, <1>2, <1>6, <1>7, <1>y
<1>11. Added(n, x)[i] = sum % Base /\ Added(n, x + 1)[i] = sum2 % Base
  <2>1. Added(n, x)[i] = Column(n, x, i, Carries(n, x)[i - 1]) % Base
    BY AddedIs, Zenon
  <2>2. Added(n, y)[i] = Column(n, y, i, Carries(n, y)[i - 1]) % Base
    BY AddedIs, Zenon
  <2> QED BY <2>1, <2>2, <1>2, <1>6, <1>7, <1>y
<1>12. CarryOne(Added(n, x), i) = PassesOn(sum, Base, f)
  <2>1. Full(Added(n, x), 1, i + 1) <=> Full(Added(n, x), 1, i) /\ Added(n, x)[i] = Base - 1
    <3>1. 1 \in Nat /\ 1 <= i
      BY <1>0
    <3> QED BY <3>1, <1>0, FullGrows, Zenon
  <2>2. f = 1 <=> Full(Added(n, x), 1, i)
    <3>1. (i - 1) + 1 = i
      BY <1>0
    <3> QED BY <3>1, <1>3 DEF CarryOne
  <2> QED BY <2>1, <2>2, <1>11 DEF CarryOne, PassesOn
<1> QED BY <1>3, <1>8, <1>9, <1>10, <1>11, <1>12 DEF OneMore

LEMMA OneMoreHolds ==
    ASSUME NEW n \in Nonces, NEW x \in Nat
    PROVE  \A i \in 0..AddLen : OneMore(n, x, i)
<1> DEFINE P == {i \in Nat : i <= AddLen => OneMore(n, x, i)}
<1>1. 0 \in P
  <2>1. /\ Shifted(x + 1)[0] = x + 1 /\ Shifted(x)[0] = x
        /\ Carries(n, x + 1)[0] = 0 /\ Carries(n, x)[0] = 0
    BY ShiftedIs, CarriesIs
  <2>2. CarryOne(Added(n, x), 0) = 1
    BY DEF CarryOne, Full
  <2> QED BY <2>1, <2>2 DEF OneMore
<1>2. ASSUME NEW i \in P PROVE i + 1 \in P
  <2>1. SUFFICES ASSUME i + 1 <= AddLen PROVE OneMore(n, x, i + 1)
    OBVIOUS
  <2>2. OneMore(n, x, i)
    BY <2>1, CipherConstants
  <2>3. PICK j \in 1..AddLen : j = i + 1 /\ j - 1 = i
    BY <2>1, CipherConstants
  <2> QED BY <2>2, <2>3, OneMoreStep
<1>3. P \in SUBSET Nat
  OBVIOUS
<1>4. P = Nat
  <2> HIDE DEF P
  <2> QED BY <1>1, <1>2, <1>3, Induction
<1> QED BY <1>4, CipherConstants

LEMMA AddIs ==
    ASSUME NEW n \in Nonces, NEW x \in Nat
    PROVE  /\ Add(n, x) \in Nonces
           /\ \A j \in 1..AddLen : Add(n, x)[j] = Added(n, x)[j]
           /\ \A j \in (AddLen + 1)..NonceLen :
                 Add(n, x)[j] = IF Carries(n, x)[AddLen] = 1 /\ Full(n, AddLen + 1, j)
                                THEN (n[j] + 1) % Base ELSE n[j]
<1>1. Carries(n, x)[AddLen] \in 0..1
  BY CarriesIs, CipherConstants
<1>2. Added(n, x) \in Nonces
  BY AddedIs
<1>3. \A j \in (AddLen + 1)..NonceLen :
         Full(Added(n, x), AddLen + 1, j) <=> Full(n, AddLen + 1, j)
  BY AddedIs, CipherConstants DEF Full
<1>4. /\ Carry(Added(n, x), AddLen + 1) \in Nonces
      /\ \A j \in 1..AddLen : Carry(Added(n, x), AddLen + 1)[j] = Added(n, x)[j]
      /\ \A j \in (AddLen + 1)..NonceLen :
            Carry(Added(n, x), AddLen + 1)[j] =
               IF Full(n, AddLen + 1, j) THEN (n[j] + 1) % Base ELSE n[j]
  <2>1. AddLen + 1 \in Nat
    BY CipherConstants
  <2>2. /\ Carry(Added(n, x), AddLen + 1) \in Nonces
        /\ \A j \in 1..NonceLen :
              Carry(Added(n, x), AddLen + 1)[j]
                = IF j >= AddLen + 1 /\ Full(Added(n, x), AddLen + 1, j)
                  THEN (Added(n, x)[j] + 1) % Base ELSE Added(n, x)[j]
    BY <1>2, <2>1, CarryIs
  <2>3. \A j \in 1..AddLen : j \in 1..NonceLen /\ ~(j >= AddLen + 1)
    BY CipherConstants
  <2>4. \A j \in (AddLen + 1)..NonceLen : j \in 1..NonceLen /\ j >= AddLen + 1
    BY CipherConstants
  <2>5. \A j \in (AddLen + 1)..NonceLen : Added(n, x)[j] = n[j]
    BY AddedIs
  <2> QED BY <2>2, <2>3, <2>4, <2>5, <1>3
<1>5. \A j \in (AddLen + 1)..NonceLen : Added(n, x)[j] = n[j]
  BY AddedIs
<1>6. CASE Carries(n, x)[AddLen] = 0
  BY <1>2, <1>5, <1>6 DEF Add
<1>7. CASE Carries(n, x)[AddLen] = 1
  BY <1>4, <1>7 DEF Add
<1> QED BY <1>1, <1>6, <1>7

LEMMA AddOne ==
    ASSUME NEW n \in Nonces, NEW x \in Nat, Fits(x + 1)
    PROVE  Fits(x) /\ Add(n, x + 1) = Increment(Add(n, x))
<1>1. PICK y \in Nat : y = x + 1
  OBVIOUS
<1>2. /\ Shifted(x)[AddLen] = 0
      /\ Carries(n, y)[AddLen] = Carries(n, x)[AddLen] + CarryOne(Added(n, x), AddLen)
  <2>1. OneMore(n, x, AddLen)
    BY OneMoreHolds, CipherConstants
  <2>2. Shifted(x + 1)[AddLen] = 0
    BY DEF Fits
  <2>3. Shifted(x)[AddLen] \in Nat
    BY ShiftedIs, CipherConstants
  <2>4. Carries(n, x + 1)[AddLen] \in 0..1 /\ Carries(n, x)[AddLen] \in 0..1
    BY CarriesIs, CipherConstants
  <2> QED BY <2>1, <2>2, <2>3, <2>4, <1>1 DEF OneMore, CarryOne
<1>3. Carries(n, y)[AddLen] \in 0..1 /\ Carries(n, x)[AddLen] \in 0..1
  BY CarriesIs, CipherConstants
<1>4. PICK a \in Nonces : a = Add(n, x)
  BY AddIs
<1>5. PICK b \in Nonces : b = Add(n, y)
  BY AddIs
<1>6. PICK w \in Nonces : w = Increment(a)
  BY CarryIs DEF Increment
<1>7. \A j \in 1..NonceLen : w[j] = IF Full(a, 1, j) THEN (a[j] + 1) % Base ELSE a[j]
  <2>1. \A j \in 1..NonceLen : j >= 1
    OBVIOUS
  <2> QED BY <2>1, <1>6, CarryIs DEF Increment
<1>8. \A j \in 1..NonceLen : a[j] \in 0..(Base - 1) /\ b[j] \in 0..(Base - 1)
  BY NonceFacts
<1>9. ASSUME NEW j \in 1..AddLen PROVE b[j] = w[j]
  <2>1. j \in 1..NonceLen /\ j - 1 \in 0..AddLen /\ (j - 1) + 1 = j
    BY CipherConstants
  <2>2. a[j] = Added(n, x)[j] /\ b[j] = Added(n, y)[j]
    BY <1>4, <1>5, AddIs
  <2>3. b[j] = (a[j] + CarryOne(Added(n, x), j - 1)) % Base
    <3>1. OneMore(n, x, j - 1)
      BY <2>1, OneMoreHolds
    <3> QED BY <3>1, <2>2, <1>1, OneMoreStep
  <2>4. Full(a, 1, j) <=> Full(Added(n, x), 1, j)
    <3>1. \A k \in 1..(j - 1) : a[k] = Added(n, x)[k]
      <4>1. \A k \in 1..(j - 1) : k \in 1..AddLen
        BY CipherConstants
      <4> QED BY <4>1, <1>4, AddIs
    <3> QED BY <3>1 DEF Full
  <2>5. CarryOne(Added(n, x), j - 1) = IF Full(a, 1, j) THEN 1 ELSE 0
    BY <2>1, <2>4 DEF CarryOne
  <2>6. a[j] % Base = a[j] /\ a[j] + 0 = a[j]
    BY <1>8, <2>1, CipherConstants
  <2> QED BY <2>1, <2>3, <2>5, <2>6, <1>7
<1>10. ASSUME NEW j \in (AddLen + 1)..NonceLen PROVE b[j] = w[j]
  <2>1. j \in 1..NonceLen /\ j \in Nat /\ AddLen + 1 \in Nat /\ j >= AddLen + 1
        /\ 1 \in Nat /\ 1 <= AddLen + 1
    BY CipherConstants
  <2>2. \A k \in (AddLen + 1)..NonceLen :
           /\ a[k] = IF Carries(n, x)[AddLen] = 1 /\ Full(n, AddLen + 1, k)
                     THEN (n[k] + 1) % Base ELSE n[k]
           /\ b[k] = IF Carries(n, y)[AddLen] = 1 /\ Full(n, AddLen + 1, k)
                     THEN (n[k] + 1) % Base ELSE n[k]
    BY <1>4, <1>5, AddIs
  <2>3. Full(a, 1, j) <=> Full(a, 1, AddLen + 1) /\ Full(a, AddLen + 1, j)
    BY <2>1, FullGrows
  <2>4. Full(a, 1, AddLen + 1) <=> CarryOne(Added(n, x), AddLen) = 1
    <3>1. \A k \in 1..((AddLen + 1) - 1) : a[k] = Added(n, x)[k]
      BY <1>4, AddIs, CipherConstants
    <3> QED BY <3>1 DEF Full, CarryOne
  <2>5. CASE CarryOne(Added(n, x), AddLen) = 0
    <3>1. w[j] = a[j]
      BY <1>7, <2>1, <2>3, <2>4, <2>5
    <3>2. Carries(n, y)[AddLen] = Carries(n, x)[AddLen]
      BY <1>2, <1>3, <2>5
    <3> QED BY <3>1, <3>2, <2>2
  <2>6. CASE CarryOne(Added(n, x), AddLen) = 1
    <3>1. Carries(n, x)[AddLen] = 0 /\ Carries(n, y)[AddLen] = 1
      BY <1>2, <1>3, <2>6
    <3>2. \A k \in (AddLen + 1)..NonceLen : a[k] = n[k]
      BY <3>1, <2>2
    <3>3. Full(a, AddLen + 1, j) <=> Full(n, AddLen + 1, j)
      <4>1. \A k \in (AddLen + 1)..(j - 1) : k \in (AddLen + 1)..NonceLen
        BY CipherConstants
      <4> QED BY <4>1, <3>2 DEF Full
    <3>4. w[j] = IF Full(n, AddLen + 1, j) THEN (n[j] + 1) % Base ELSE n[j]
      BY <1>7, <2>1, <2>3, <2>4, <2>6, <3>2, <3>3
    <3> QED BY <3>1, <3>4, <2>2
  <2>7. CarryOne(Added(n, x), AddLen) \in 0..1
    BY DEF CarryOne
  <2> QED BY <2>5, <2>6, <2>7
<1>11. b = w
  <2>1. \A j \in 1..NonceLen : j \in 1..AddLen \/ j \in (AddLen + 1)..NonceLen
    BY CipherConstants
  <2>2. \A j \in 1..NonceLen : b[j] = w[j]
    BY <2>1, <1>9, <1>10
  <2> QED BY <2>2, SameNonce
<1> QED BY <1>1, <1>2, <1>4, <1>5, <1>6, <1>11 DEF Fits

LEMMA AddZero ==
    ASSUME NEW n \in Nonces
    PROVE  Add(n, 0) = n
<1>1. \A i \in 0..AddLen : Shifted(0)[i] = 0 /\ Carries(n, 0)[i] = 0
  <2> DEFINE P == {i \in Nat : i <= AddLen => Shifted(0)[i] = 0 /\ Carries(n, 0)[i] = 0}
  <2>1. 0 \in P
    <3>1. Shifted(0)[0] = 0 /\ Carries(n, 0)[0] = 0
      BY ShiftedIs, CarriesIs
    <3> QED BY <3>1
  <2>2. ASSUME NEW i \in P PROVE i + 1 \in P
    <3>1. SUFFICES ASSUME i + 1 <= AddLen
                   PROVE  Shifted(0)[i + 1] = 0 /\ Carries(n, 0)[i + 1] = 0
      OBVIOUS
    <3>2. PICK j \in 1..AddLen : j = i + 1 /\ j - 1 = i
      BY <3>1, CipherConstants
    <3>3. Shifted(0)[i] = 0 /\ Carries(n, 0)[i] = 0
      BY <3>1, CipherConstants
    <3>4. 0 % Base = 0 /\ 0 \div Base = 0
      <4>1. 0 = Base * 0 + 0 /\ 0 \in 0..(Base - 1)
        BY CipherConstants
      <4> QED BY <4>1, CipherConstants, DivIs
    <3>5. Shifted(0)[j] = 0
      BY <3>2, <3>3, <3>4, ShiftedIs
    <3>6. n[j] \in 0..(Base - 1)
      <4>1. j \in 1..NonceLen
        BY CipherConstants
      <4> QED BY <4>1, NonceFacts
    <3>7. Column(n, 0, j, 0) = n[j]
      BY <3>2, <3>3, <3>4, <3>6 DEF Column
    <3>8. n[j] \div Base = 0
      BY <3>6, CipherConstants, DivSmall
    <3>9. Carries(n, 0)[j] = Column(n, 0, j, Carries(n, 0)[j - 1]) \div Base
      BY CarriesIs, Zenon
    <3>10. Carries(n, 0)[j - 1] = 0
      BY <3>2, <3>3
    <3>11. Carries(n, 0)[j] = 0
      <4>1. Column(n, 0, j, Carries(n, 0)[j - 1]) = n[j]
        BY <3>7, <3>10
      <4> QED BY <3>8, <3>9, <4>1
    <3> QED BY <3>2, <3>5, <3>11, Zenon
  <2>3. P \in SUBSET Nat
    OBVIOUS
  <2>4. P = Nat
    <3> HIDE DEF P
    <3> QED BY <2>1, <2>2, <2>3, Induction
  <2> QED BY <2>4, CipherConstants
<1>2. ASSUME NEW j \in 1..NonceLen PROVE Added(n, 0)[j] = n[j]
  <2>1. CASE j \in 1..AddLen
    <3>1. j - 1 \in 0..AddLen
      BY <2>1, CipherConstants
    <3>2. Shifted(0)[j - 1] = 0 /\ Carries(n, 0)[j - 1] = 0
      BY <3>1, <1>1
    <3>3. n[j] \in 0..(Base - 1)
      BY NonceFacts
    <3>4. 0 % Base = 0
      BY CipherConstants
    <3>5. Column(n, 0, j, 0) = n[j]
      BY <3>2, <3>3, <3>4 DEF Column
    <3>6. Added(n, 0)[j] = n[j] % Base
      BY <2>1, <3>2, <3>5, AddedIs
    <3>7. n[j] % Base = n[j]
      BY <3>3, CipherConstants
    <3> QED BY <3>6, <3>7
  <2>2. CASE j \in (AddLen + 1)..NonceLen
    BY <2>2, AddedIs
  <2> QED BY <2>1, <2>2, CipherConstants
<1>3. Added(n, 0) = n
  <2>1. Added(n, 0) \in Nonces
    BY AddedIs
  <2> QED BY <2>1, <1>2, SameNonce
<1>4. Carries(n, 0)[AddLen] = 0
  BY <1>1, CipherConstants
<1> QED BY <1>3, <1>4 DEF Add

LEMMA FitsBelow ==
    ASSUME NEW y \in Nat, Fits(y), NEW x \in 0..y
    PROVE  Fits(x)
<1> DEFINE P == {d \in Nat : d <= y => Fits(y - d)}
<1>1. 0 \in P
  OBVIOUS
<1>2. ASSUME NEW d \in P PROVE d + 1 \in P
  <2>1. SUFFICES ASSUME d + 1 <= y PROVE Fits(y - (d + 1))
    OBVIOUS
  <2>2. PICK z \in Nat : z = y - (d + 1) /\ z + 1 = y - d
    BY <2>1
  <2>3. Fits(z + 1)
    BY <2>1, <2>2
  <2>4. PICK n \in Nonces : TRUE
    <3>1. [j \in 1..NonceLen |-> 0] \in [1..NonceLen -> 0..(Base - 1)]
      BY CipherConstants
    <3> QED BY <3>1, NonceFacts
  <2> QED BY <2>2, <2>3, <2>4, AddOne
<1>3. P \in SUBSET Nat
  OBVIOUS
<1>4. P = Nat
  <2> HIDE DEF P
  <2> QED BY <1>1, <1>2, <1>3, Induction
<1>5. y - x \in Nat /\ y - x <= y /\ y - (y - x) = x
  OBVIOUS
<1>6. y - x \in P
  BY <1>4, <1>5
<1> QED BY <1>5, <1>6

LEMMA BoxNoncesAre ==
    ASSUME NEW n \in Nonces, NEW count \in Nat
    PROVE  /\ BoxNonces(n, count) \in [0..count -> Nonces]
           /\ BoxNonces(n, count)[0] = n
           /\ \A b \in 1..count :
                 BoxNonces(n, count)[b] = Increment(BoxNonces(n, count)[b - 1])
<1> DEFINE g == [p \in Nat \X Nonces |-> Increment(p[2])]
           step(f, b) == IF b = 0 THEN n ELSE Increment(f[b - 1])
           after == CHOOSE f : f = [b \in 0..count |-> step(f, b)]
<1>1. BoxNonces(n, count) = after
  BY DEF BoxNonces
<1>2. \A m \in Nonces : Increment(m) \in Nonces
  BY CarryIs DEF Increment
<1>3. g \in [Nat \X Nonces -> Nonces]
  BY <1>2
<1>4. PICK f \in [0..count -> Nonces] : Iterates(f, count, n, g)
  <2> HIDE DEF g
  <2> QED BY <1>3, Recursion
<1>5. f = [b \in 0..count |-> step(f, b)]
  <2>1. \A b \in 0..count : f[b] = step(f, b)
    <3>1. SUFFICES ASSUME NEW b \in 0..count, b # 0
                   PROVE  f[b] = Increment(f[b - 1])
      BY <1>4 DEF Iterates
    <3>2. b - 1 \in 0..count /\ b - 1 \in Nat
      BY <3>1
    <3>3. <<b - 1, f[b - 1]>> \in Nat \X Nonces
      BY <3>2
    <3>4. f[b] = g[<<b - 1, f[b - 1]>>]
      <4> HIDE DEF g
      <4> QED BY <1>4, <3>1 DEF Iterates
    <3> QED BY <3>3, <3>4
  <2>2. f = [b \in 0..count |-> f[b]]
    BY <1>4
  <2>3. [b \in 0..count |-> f[b]] = [b \in 0..count |-> step(f, b)]
    BY <2>1
  <2> QED BY <2>2, <2>3
<1>6. after = [b \in 0..count |-> step(after, b)]
  BY <1>5
<1> HIDE DEF after
<1> DEFINE P == {b \in Nat : b <= count => after[b] \in Nonces}
<1>7. P = Nat
  <2>1. 0 \in P
    BY <1>6
  <2>2. ASSUME NEW b \in P PROVE b + 1 \in P
    <3>1. SUFFICES ASSUME b + 1 <= count PROVE after[b + 1] \in Nonces
      OBVIOUS
    <3>2. PICK k \in 0..count : k = b + 1 /\ k # 0 /\ k - 1 = b
      BY <3>1
    <3>3. after[b] \in Nonces
      BY <3>1
    <3>4. after[k] = Increment(after[b])
      BY <1>6, <3>2
    <3> QED BY <3>2, <3>3, <3>4, <1>2
  <2>3. P \in SUBSET Nat
    OBVIOUS
  <2> HIDE DEF P
  <2> QED BY <2>1, <2>2, <2>3, Induction
<1>8. \A b \in 0..count : after[b] \in Nonces
  BY <1>7
<1>9. after \in [0..count -> Nonces]
  BY <1>6, <1>8
<1>10. \A b \in 1..count : after[b] = Increment(after[b - 1])
  BY <1>6
<1>11. after[0] = n
  BY <1>6
<1> QED BY <1>1, <1>9, <1>10, <1>11

\* The nonce of a box is the nonce of the header plus the number of the box:
\* the encrypter counts up, the decrypter adds.
THEOREM NoncesAgree ==
    ASSUME NEW n \in Nonces, NEW count \in Nat, NEW b \in 0..count, Fits(b)
    PROVE  BoxNonces(n, count)[b] = Add(n, b)
<1> DEFINE P == {k \in Nat : k <= b => BoxNonces(n, count)[k] = Add(n, k)}
<1>1. 0 \in P
  <2>1. BoxNonces(n, count)[0] = n /\ Add(n, 0) = n
    BY BoxNoncesAre, AddZero
  <2> QED BY <2>1
<1>2. ASSUME NEW k \in P PROVE k + 1 \in P
  <2>1. SUFFICES ASSUME k + 1 <= b
                 PROVE  BoxNonces(n, count)[k + 1] = Add(n, k + 1)
    OBVIOUS
  <2>2. PICK j \in 1..count : j = k + 1 /\ j - 1 = k
    BY <2>1
  <2>3. BoxNonces(n, count)[j] = Increment(BoxNonces(n, count)[j - 1])
    BY BoxNoncesAre, Zenon
  <2>4. BoxNonces(n, count)[k] = Add(n, k)
    BY <2>1
  <2>5. Fits(k + 1)
    BY <2>1, FitsBelow
  <2>6. Add(n, k + 1) = Increment(Add(n, k))
    BY <2>5, AddOne
  <2> QED BY <2>2, <2>3, <2>4, <2>6
<1>3. P \in SUBSET Nat
  OBVIOUS
<1>4. P = Nat
  <2> HIDE DEF P
  <2> QED BY <1>1, <1>2, <1>3, Induction
<1> QED BY <1>4

----------------------------------------------------------------------------
(* The layout of an encrypted part: where its boxes begin, in the data and *)
(* in what is stored.                                                      *)

Span(k) == k * BlockDataSize
At(k) == FileHeaderSize + k * BlockSize

LEMMA Places ==
    /\ Span(0) = 0 /\ At(0) = FileHeaderSize
    /\ \A k \in Nat : /\ Span(k) \in Nat /\ Span(k + 1) = Span(k) + BlockDataSize
                      /\ At(k) \in Nat /\ At(k + 1) = At(k) + BlockSize
<1>1. ASSUME NEW k \in Nat
      PROVE  /\ Span(k) \in Nat /\ Span(k + 1) = Span(k) + BlockDataSize
             /\ At(k) \in Nat /\ At(k + 1) = At(k) + BlockSize
  <2>1. BlockDataSize \in Int /\ BlockSize \in Int /\ k + 1 \in Int /\ 1 \in Int
    BY CipherConstants
  <2>2. k * BlockDataSize \in Nat /\ k * BlockSize \in Nat
    BY CipherConstants
  <2>3. (k + 1) * BlockDataSize = k * BlockDataSize + BlockDataSize
    BY CipherConstants
  <2>4. (k + 1) * BlockSize = k * BlockSize + BlockSize
    BY CipherConstants
  <2> QED BY <2>2, <2>3, <2>4, CipherConstants DEF Span, At
<1>2. Span(0) = 0 /\ At(0) = FileHeaderSize
  BY CipherConstants DEF Span, At
<1> QED BY <1>1, <1>2

LEMMA PlacesGrow ==
    ASSUME NEW j \in Nat, NEW k \in Nat, j < k
    PROVE  Span(j) + BlockDataSize <= Span(k) /\ At(j) + BlockSize <= At(k)
<1>1. j + 1 <= k /\ j + 1 \in Int /\ k \in Int
  OBVIOUS
<1>2. BlockDataSize * (j + 1) <= BlockDataSize * k /\ BlockSize * (j + 1) <= BlockSize * k
  BY <1>1, CipherConstants, TimesMonotone
<1>3. (j + 1) * BlockDataSize <= k * BlockDataSize /\ (j + 1) * BlockSize <= k * BlockSize
  BY <1>2, CipherConstants
<1>4. Span(j + 1) <= Span(k) /\ At(j + 1) <= At(k)
  <2>1. (j + 1) * BlockSize \in Nat /\ k * BlockSize \in Nat
    BY CipherConstants
  <2> QED BY <1>3, <2>1, CipherConstants DEF Span, At
<1> QED BY <1>4, Places

\* The box of a byte, and its place in the box.
LEMMA BoxOf ==
    ASSUME NEW p \in Nat
    PROVE  /\ p \div BlockDataSize \in Nat /\ p % BlockDataSize \in 0..(BlockDataSize - 1)
           /\ p = Span(p \div BlockDataSize) + (p % BlockDataSize)
<1>1. PICK q, r \in Nat : q = p \div BlockDataSize /\ r = p % BlockDataSize
  BY CipherConstants
<1>2. r \in 0..(BlockDataSize - 1) /\ p = BlockDataSize * q + r
  BY <1>1, CipherConstants, DivMod
<1>3. BlockDataSize * q = q * BlockDataSize
  BY CipherConstants
<1> QED BY <1>1, <1>2, <1>3 DEF Span

LEMMA BoxIs ==
    ASSUME NEW q \in Nat, NEW r \in 0..(BlockDataSize - 1)
    PROVE  /\ (Span(q) + r) \div BlockDataSize = q
           /\ (Span(q) + r) % BlockDataSize = r
<1>1. PICK p \in Nat : p = Span(q) + r
  BY Places, CipherConstants
<1>2. p = BlockDataSize * q + r
  BY <1>1, CipherConstants DEF Span
<1> QED BY <1>1, <1>2, CipherConstants, DivIs

\* The boxes of a part of so many bytes.
LEMMA Boxes ==
    ASSUME NEW size \in Nat \ {0}
    PROVE  /\ BoxCount(size) \in Nat \ {0}
           /\ Span(BoxCount(size) - 1) < size /\ size <= Span(BoxCount(size))
           /\ \A b \in 1..BoxCount(size) :
                 /\ BoxData(size, b) \in 1..BlockDataSize
                 /\ b < BoxCount(size) => BoxData(size, b) = BlockDataSize
                 /\ b = BoxCount(size) => BoxData(size, b) = size - Span(b - 1)
                 /\ BoxData(size, b) = Minimum(BlockDataSize, size - Span(b - 1))
<1>1. PICK c, r \in Nat : /\ c = BoxCount(size) /\ r \in 0..(BlockDataSize - 1)
                          /\ size + BlockDataSize - 1 = Span(c) + r
  <2>1. PICK p \in Nat : p = size + BlockDataSize - 1
    BY CipherConstants
  <2>2. /\ p \div BlockDataSize \in Nat /\ p % BlockDataSize \in 0..(BlockDataSize - 1)
        /\ p = Span(p \div BlockDataSize) + (p % BlockDataSize)
    BY BoxOf
  <2>3. BoxCount(size) = p \div BlockDataSize
    BY <2>1 DEF BoxCount
  <2> QED BY <2>1, <2>2, <2>3, CipherConstants
<1>2. c # 0
  <2>1. size + BlockDataSize - 1 > BlockDataSize - 1
    BY CipherConstants
  <2> QED BY <2>1, <1>1, Places, CipherConstants
<1>3. PICK d \in Nat : d = c - 1 /\ d + 1 = c
  BY <1>2
<1>4. Span(c) = Span(d) + BlockDataSize /\ Span(c) \in Nat /\ Span(d) \in Nat
  BY <1>3, Places
<1>5. Span(d) < size /\ size <= Span(c)
  BY <1>1, <1>4, CipherConstants
<1>6. ASSUME NEW b \in 1..c
      PROVE  /\ BoxData(size, b) \in 1..BlockDataSize
             /\ b < c => BoxData(size, b) = BlockDataSize
             /\ b = c => BoxData(size, b) = size - Span(b - 1)
             /\ BoxData(size, b) = Minimum(BlockDataSize, size - Span(b - 1))
  <2>1. PICK a \in Nat : a = b - 1 /\ a + 1 = b
    OBVIOUS
  <2>2. BoxData(size, b) = Minimum(BlockDataSize, size - Span(a))
    BY <2>1 DEF BoxData, Span
  <2>3. CASE b = c
    <3>1. a = d
      BY <2>1, <2>3, <1>3
    <3>2. size - Span(a) \in 1..BlockDataSize
      BY <3>1, <1>4, <1>5, CipherConstants
    <3> QED BY <2>1, <2>2, <2>3, <3>2, CipherConstants DEF Minimum
  <2>4. CASE b # c
    <3>1. b < c /\ a < d
      BY <2>1, <2>4, <1>3
    <3>2. Span(a) + BlockDataSize <= Span(d) /\ Span(a) \in Nat
      BY <3>1, Places, PlacesGrow
    <3>3. BlockDataSize < size - Span(a)
      BY <3>2, <1>4, <1>5, CipherConstants
    <3> QED BY <2>1, <2>2, <2>4, <3>3, CipherConstants DEF Minimum
  <2> QED BY <2>3, <2>4
<1> QED BY <1>1, <1>2, <1>3, <1>5, <1>6

----------------------------------------------------------------------------
(* Sums.                                                                   *)

\* The sum of a function is the only t that adds up its values one by one.
AddsUp(S, g, t) ==
    /\ t[{}] = 0
    /\ \A s \in SUBSET S : \A x \in s : t[s] = g[x] + t[s \ {x}]

LEMMA SumIs ==
    ASSUME NEW S, IsFiniteSet(S), NEW V, NEW g \in [S -> V],
           NEW t, AddsUp(S, g, t)
    PROVE  SumFunction(g) = t[S]
<1> USE DEF AddsUp
<1> DEFINE first(s) == CHOOSE x \in s : TRUE
           step(f, s) == IF s = {} THEN 0 ELSE g[first(s)] + f[s \ {first(s)}]
           iter == CHOOSE f : f = [s \in SUBSET S |-> step(f, s)]
<1>1. SumFunction(g) = iter[S]
  <2>1. DOMAIN g = S
    OBVIOUS
  <2> QED BY <2>1 DEF SumFunction, SumFunctionOnSet, FoldFunctionOnSet, MapThenFoldSet
<1>3. \A s \in SUBSET S : s # {} => first(s) \in s
  OBVIOUS
<1>4. \A s \in SUBSET S : s # {} => t[s] = g[first(s)] + t[s \ {first(s)}]
  <2>1. SUFFICES ASSUME NEW s \in SUBSET S, s # {}
                 PROVE  t[s] = g[first(s)] + t[s \ {first(s)}]
    OBVIOUS
  <2>2. PICK x \in s : x = first(s)
    BY <2>1, <1>3
  <2>3. t[s] = g[x] + t[s \ {x}]
    OBVIOUS
  <2> QED BY <2>2, <2>3
<1> HIDE DEF first
<1>5. iter = [s \in SUBSET S |-> step(iter, s)]
  <2> DEFINE f == [s \in SUBSET S |-> t[s]]
  <2>1. \A s \in SUBSET S : f[s] = step(f, s)
    <3>1. SUFFICES ASSUME NEW s \in SUBSET S PROVE t[s] = step(f, s)
      OBVIOUS
    <3>2. CASE s = {}
      BY <3>2
    <3>3. CASE s # {}
      <4>1. s \ {first(s)} \in SUBSET S
        OBVIOUS
      <4>2. f[s \ {first(s)}] = t[s \ {first(s)}]
        BY <4>1
      <4> QED BY <3>3, <4>2, <1>4
    <3> QED BY <3>2, <3>3
  <2>2. f = [s \in SUBSET S |-> f[s]]
    OBVIOUS
  <2> HIDE DEF f
  <2>3. f = [s \in SUBSET S |-> step(f, s)]
    <3>1. [s \in SUBSET S |-> f[s]] = [s \in SUBSET S |-> step(f, s)]
      BY <2>1
    <3> QED BY <3>1, <2>2
  <2> QED BY <2>3
<1> HIDE DEF iter
<1>6. \A s \in SUBSET S : iter[s] = step(iter, s)
  BY <1>5
<1>7. \A s \in SUBSET S : iter[s] = t[s]
  <2> DEFINE bad == {n \in Nat : \E s \in SUBSET S : Cardinality(s) = n /\ iter[s] # t[s]}
  <2>1. SUFFICES ASSUME NEW s0 \in SUBSET S, iter[s0] # t[s0] PROVE FALSE
    OBVIOUS
  <2>2. Cardinality(s0) \in Nat
    <3>1. IsFiniteSet(s0)
      BY FS_Subset
    <3> QED BY <3>1, FS_CardinalityType
  <2>3. bad \in SUBSET Nat /\ bad # {}
    BY <2>1, <2>2
  <2>4. PICK n \in bad : \A m \in bad : n <= m
    <3> HIDE DEF bad
    <3> QED BY <2>3, LeastNatural
  <2>5. PICK s \in SUBSET S : Cardinality(s) = n /\ iter[s] # t[s]
    BY <2>4
  <2>6. s # {}
    BY <2>5, <1>6
  <2>7. PICK x \in s : x = first(s)
    BY <2>6, <1>3 DEF first
  <2>8. IsFiniteSet(s) /\ IsFiniteSet(s \ {x})
    BY FS_Subset
  <2>9. Cardinality(s \ {x}) = Cardinality(s) - 1
    BY <2>8, FS_RemoveElement
  <2>10. Cardinality(s \ {x}) \in Nat /\ Cardinality(s) \in Nat
    BY <2>8, FS_CardinalityType
  <2>11. Cardinality(s \ {x}) \notin bad
    <3>1. ~(n <= Cardinality(s \ {x}))
      BY <2>5, <2>9, <2>10
    <3> HIDE DEF bad
    <3> QED BY <2>4, <3>1
  <2>12. s \ {x} \in SUBSET S
    OBVIOUS
  <2>13. iter[s \ {x}] = t[s \ {x}]
    BY <2>10, <2>11, <2>12
  <2>14. iter[s] = g[x] + t[s \ {x}]
    BY <2>6, <2>7, <2>13, <1>6
  <2>15. t[s] = g[x] + t[s \ {x}]
    OBVIOUS
  <2> QED BY <2>5, <2>14, <2>15
<1> QED BY <1>1, <1>7

\* The stored boxes are all of the same length but the last.
LEMMA BoxesLength ==
    ASSUME NEW size \in Nat \ {0}
    PROVE  FileHeaderSize
             + SumFunction([b \in 1..BoxCount(size) |-> BlockHeaderSize + BoxData(size, b)])
           = At(BoxCount(size) - 1) + BlockHeaderSize + BoxData(size, BoxCount(size))
<1>1. PICK c \in Nat \ {0} : c = BoxCount(size)
  BY Boxes
<1>2. PICK last \in 1..BlockDataSize : last = BoxData(size, c)
  BY <1>1, Boxes
<1> DEFINE S == 1..c
           g == [b \in S |-> BlockHeaderSize + BoxData(size, b)]
           gap(s) == IF c \in s THEN BlockDataSize - last ELSE 0
           t == [s \in SUBSET S |-> At(Cardinality(s)) - FileHeaderSize - gap(s)]
<1>3. IsFiniteSet(S) /\ Cardinality(S) = c
  <2>1. 1 \in Int /\ c \in Int
    OBVIOUS
  <2>2. IsFiniteSet(S) /\ Cardinality(S) = IF 1 > c THEN 0 ELSE c - 1 + 1
    BY <2>1, FS_Interval, Zenon
  <2> QED BY <2>2
<1>4. \A b \in S : g[b] = BlockHeaderSize + (IF b = c THEN last ELSE BlockDataSize)
  <2>1. SUFFICES ASSUME NEW b \in S
                 PROVE  BoxData(size, b) = IF b = c THEN last ELSE BlockDataSize
    OBVIOUS
  <2>2. b \in 1..BoxCount(size) /\ (b # c => b < c)
    BY <1>1
  <2> QED BY <2>2, <1>1, <1>2, Boxes
<1>5. t[{}] = 0
  <2>1. {} \in SUBSET S /\ Cardinality({}) = 0
    BY FS_EmptySet
  <2> QED BY <2>1, Places, CipherConstants
<1>6. ASSUME NEW s \in SUBSET S, NEW x \in s
      PROVE  t[s] = g[x] + t[s \ {x}]
  <2>1. IsFiniteSet(s) /\ IsFiniteSet(s \ {x}) /\ s \ {x} \in SUBSET S
    BY <1>3, FS_Subset
  <2>2. PICK m \in Nat : m = Cardinality(s \ {x}) /\ Cardinality(s) = m + 1
    <3>1. Cardinality(s \ {x}) = Cardinality(s) - 1
      BY <2>1, FS_RemoveElement
    <3>2. Cardinality(s \ {x}) \in Nat /\ Cardinality(s) \in Nat
      BY <2>1, FS_CardinalityType
    <3> QED BY <3>1, <3>2
  <2>3. At(m) \in Nat /\ At(m + 1) = At(m) + BlockSize
    BY Places
  <2>4. t[s] = At(m) + BlockSize - FileHeaderSize - gap(s)
    <3>1. t[s] = At(Cardinality(s)) - FileHeaderSize - gap(s)
      OBVIOUS
    <3>2. At(Cardinality(s)) = At(m) + BlockSize
      BY <2>2, <2>3
    <3>3. gap(s) \in Int
      BY CipherConstants
    <3> HIDE DEF t, gap
    <3> QED BY <3>1, <3>2, <3>3, <2>3, CipherConstants
  <2>5. t[s \ {x}] = At(m) - FileHeaderSize - gap(s \ {x})
    BY <2>1, <2>2
  <2>6. g[x] = BlockHeaderSize + (IF x = c THEN last ELSE BlockDataSize)
    BY <1>4
  <2>7. CASE x = c
    <3>1. gap(s) = BlockDataSize - last /\ gap(s \ {x}) = 0
      BY <2>7
    <3> HIDE DEF t, g, gap
    <3> QED BY <2>3, <2>4, <2>5, <2>6, <2>7, <3>1, CipherConstants
  <2>8. CASE x # c
    <3>1. gap(s) = gap(s \ {x}) /\ gap(s) \in Int
      BY <2>8, CipherConstants
    <3> HIDE DEF t, g, gap
    <3> QED BY <2>3, <2>4, <2>5, <2>6, <2>8, <3>1, CipherConstants
  <2> QED BY <2>7, <2>8
<1>7. PICK h, V : h = g /\ h \in [S -> V]
  <2>1. g \in [S -> {g[b] : b \in S}]
    OBVIOUS
  <2> QED BY <2>1
<1>8. PICK u : u = t
  OBVIOUS
<1>9. SumFunction(h) = u[S]
  <2>1. AddsUp(S, h, u)
    <3> HIDE DEF t, g
    <3> QED BY <1>5, <1>6, <1>7, <1>8 DEF AddsUp
  <2> QED BY <2>1, <1>3, <1>7, SumIs
<1>10. u[S] = At(c) - FileHeaderSize - (BlockDataSize - last)
  <2>1. S \in SUBSET S /\ c \in S
    OBVIOUS
  <2> QED BY <2>1, <1>3, <1>8
<1>11. /\ At(c) = At(c - 1) + BlockSize /\ At(c) \in Nat /\ At(c - 1) \in Nat
  <2>1. PICK d \in Nat : d = c - 1 /\ d + 1 = c
    OBVIOUS
  <2> QED BY <2>1, Places
<1>12. FileHeaderSize + SumFunction(g) = At(c - 1) + BlockHeaderSize + last
  <2>1. SumFunction(g) = u[S]
    BY <1>7, <1>9, Zenon
  <2> HIDE DEF t, g, S
  <2> QED BY <2>1, <1>10, <1>11, CipherConstants
<1> QED BY <1>1, <1>2, <1>12

\* What the encrypter returns.
LEMMA Encrypted ==
    ASSUME NEW size \in Nat \ {0}, NEW nonce, NEW e, e = EncryptData(size, nonce)
    PROVE  /\ e.nonce = nonce
           /\ DOMAIN e.boxes = 1..BoxCount(size)
           /\ \A b \in 1..BoxCount(size) :
                 e.boxes[b] = [at    |-> At(b - 1),
                               len   |-> BlockHeaderSize + BoxData(size, b),
                               nonce |-> BoxNonces(nonce, BoxCount(size))[b - 1],
                               from  |-> Span(b - 1)]
           /\ e.len = At(BoxCount(size) - 1) + BlockHeaderSize
                        + BoxData(size, BoxCount(size))
<1> DEFINE c == BoxCount(size)
           box(b) == [at    |-> At(b - 1),
                      len   |-> BlockHeaderSize + BoxData(size, b),
                      nonce |-> BoxNonces(nonce, c)[b - 1],
                      from  |-> Span(b - 1)]
           boxes == [b \in 1..c |-> box(b)]
<1>1. e = [len   |-> FileHeaderSize + SumFunction([b \in 1..c |-> boxes[b].len]),
           nonce |-> nonce,
           boxes |-> boxes]
  BY DEF EncryptData, At, Span
<1>2. PICK f, h : /\ f = [b \in 1..c |-> boxes[b].len]
                  /\ h = [b \in 1..c |-> BlockHeaderSize + BoxData(size, b)]
  OBVIOUS
<1>3. e.len = FileHeaderSize + SumFunction(f)
  BY <1>1, <1>2
<1>5. f = h
  BY <1>2
<1>6. e.len = FileHeaderSize + SumFunction(h)
  BY <1>3, <1>5
<1>4. e.boxes = boxes /\ e.nonce = nonce
  BY <1>1
<1>7. FileHeaderSize + SumFunction(h) = At(c - 1) + BlockHeaderSize + BoxData(size, c)
  BY <1>2, BoxesLength
<1> QED BY <1>4, <1>6, <1>7

\* The encrypter's length is what EncryptedSize says, and DecryptedSize is the
\* way back.
LEMMA SizesOfPart ==
    ASSUME NEW size \in Nat \ {0}, NEW nonce
    PROVE  /\ EncryptedSize(size) = EncryptData(size, nonce).len
           /\ DecryptedSize(EncryptData(size, nonce).len) = size
<1>1. PICK d, last \in Nat :
         /\ d + 1 = BoxCount(size) /\ last \in 1..BlockDataSize
         /\ last = BoxData(size, d + 1) /\ size = Span(d) + last
         /\ EncryptData(size, nonce).len = At(d) + BlockHeaderSize + last
  <2>1. PICK d \in Nat : d + 1 = BoxCount(size) /\ d = BoxCount(size) - 1
    BY Boxes
  <2>2. d + 1 \in 1..BoxCount(size) /\ (d + 1) - 1 = d
    BY <2>1
  <2>3. /\ BoxData(size, d + 1) \in 1..BlockDataSize
        /\ BoxData(size, d + 1) = size - Span(d)
    BY <2>1, <2>2, Boxes
  <2>4. EncryptData(size, nonce).len = At(d) + BlockHeaderSize + BoxData(size, d + 1)
    BY <2>1, Encrypted
  <2>5. Span(d) \in Nat
    BY Places
  <2> QED BY <2>1, <2>3, <2>4, <2>5
<1>2. /\ Span(d) \in Nat /\ Span(d + 1) = Span(d) + BlockDataSize
      /\ At(d) \in Nat /\ At(d + 1) = At(d) + BlockSize
  BY Places
<1>3. PICK n \in Nat : n = At(d) + BlockHeaderSize + last
  BY <1>2, CipherConstants
<1>4. /\ d * BlockSize = At(d) - FileHeaderSize
      /\ (d + 1) * BlockSize = At(d + 1) - FileHeaderSize
      /\ d * BlockSize \in Nat
  <2>1. d * BlockSize \in Nat /\ (d + 1) * BlockSize \in Nat
    BY CipherConstants
  <2> QED BY <2>1, CipherConstants DEF At
<1>5. CASE last = BlockDataSize
  <2>1. size = Span(d + 1) + 0 /\ 0 \in 0..(BlockDataSize - 1) /\ d + 1 \in Nat
    BY <1>1, <1>2, <1>5, CipherConstants
  <2>2. size \div BlockDataSize = d + 1 /\ size % BlockDataSize = 0
    <3>1. PICK k \in Nat : k = d + 1
      OBVIOUS
    <3>2. PICK z \in 0..(BlockDataSize - 1) : z = 0
      BY <2>1
    <3>3. (Span(k) + z) \div BlockDataSize = k /\ (Span(k) + z) % BlockDataSize = z
      BY BoxIs
    <3> QED BY <2>1, <3>1, <3>2, <3>3
  <2>3. n = At(d + 1)
    BY <1>2, <1>3, <1>5, CipherConstants
  <2>4. EncryptedSize(size) = n
    BY <2>2, <2>3, <1>2, <1>4, CipherConstants DEF EncryptedSize
  <2>5. PICK m \in Nat : m = n - FileHeaderSize /\ m = (d + 1) * BlockSize
    BY <2>3, <1>2, <1>4, CipherConstants
  <2>6. m \div BlockSize = d + 1 /\ m % BlockSize = 0
    <3>1. PICK k \in Nat, z \in 0..(BlockSize - 1) : k = d + 1 /\ z = 0
      BY CipherConstants
    <3>2. m = BlockSize * k + z
      BY <2>5, <3>1, CipherConstants
    <3> QED BY <3>1, <3>2, CipherConstants, DivIs
  <2>7. DecryptedSize(n) = (d + 1) * BlockDataSize
    BY <2>5, <2>6 DEF DecryptedSize
  <2>8. DecryptedSize(n) = size
    BY <2>1, <2>7, Places DEF Span
  <2> QED BY <2>4, <2>8, <1>1, <1>3
<1>6. CASE last # BlockDataSize
  <2>1. last \in 0..(BlockDataSize - 1) /\ last # 0
    BY <1>1, <1>6, CipherConstants
  <2>2. size \div BlockDataSize = d /\ size % BlockDataSize = last
    BY <2>1, <1>1, BoxIs
  <2>3. EncryptedSize(size) = n
    <3>1. EncryptedSize(size) = FileHeaderSize + d * BlockSize + (BlockHeaderSize + last)
      BY <2>1, <2>2 DEF EncryptedSize
    <3> HIDE DEF EncryptedSize
    <3> QED BY <3>1, <1>2, <1>3, <1>4, CipherConstants
  <2>4. PICK m, z \in Nat : m = n - FileHeaderSize /\ z = BlockHeaderSize + last
                            /\ m = BlockSize * d + z
    <3>1. BlockSize * d = d * BlockSize
      BY CipherConstants
    <3> QED BY <3>1, <1>2, <1>3, <1>4, CipherConstants
  <2>5. z \in 0..(BlockSize - 1) /\ z > BlockHeaderSize
    BY <2>1, <2>4, CipherConstants
  <2>6. m \div BlockSize = d /\ m % BlockSize = z
    BY <2>4, <2>5, CipherConstants, DivIs
  <2>7. DecryptedSize(n) = d * BlockDataSize + z - BlockHeaderSize
    <3>1. m >= 0 /\ z # 0 /\ ~(z <= BlockHeaderSize) /\ ~(m < 0)
      BY <2>4, <2>5, CipherConstants
    <3>2. n - FileHeaderSize = m
      BY <2>4
    <3> QED BY <3>1, <3>2, <2>6 DEF DecryptedSize
  <2>8. DecryptedSize(n) = size
    <3>1. d * BlockDataSize = Span(d)
      BY DEF Span
    <3> QED BY <2>4, <2>7, <3>1, <1>1, <1>2, CipherConstants
  <2> QED BY <2>3, <2>8, <1>1, <1>3
<1> QED BY <1>5, <1>6

----------------------------------------------------------------------------
(* The parts of the file and their bytes.                                  *)

LEMMA StreamConstants ==
    /\ \A f \in Files : /\ f.size \in Nat /\ f.partSize \in Nat \ {0}
                        /\ f.encrypted \in BOOLEAN
                        /\ Fits(f.partSize \div BlockDataSize)
    /\ PartNonces \subseteq Nonces
    /\ ReadSizes \subseteq Nat \ {0} /\ MaxFaults \in Nat
BY StreamAssumption DEF StreamAssumption

\* The first byte of the k + 1st part.
PartAt(k) == k * file.partSize

PartCount == (file.size + file.partSize - 1) \div file.partSize

\* The parts are those of an upload.
PartsInv ==
    /\ file \in Files
    /\ \E nonce \in PartNonces : parts = StoredParts(file, nonce)

LEMMA PartPlaces ==
    ASSUME PartsInv
    PROVE  /\ file.size \in Nat /\ file.partSize \in Nat \ {0} /\ PartAt(0) = 0
           /\ \A k \in Nat : /\ PartAt(k) \in Nat
                             /\ PartAt(k + 1) = PartAt(k) + file.partSize
           /\ \A j, k \in Nat : j < k => PartAt(j) + file.partSize <= PartAt(k)
<1>1. PICK c \in Nat \ {0} : c = file.partSize
  BY StreamConstants DEF PartsInv
<1>2. file.size \in Nat
  BY StreamConstants DEF PartsInv
<1>3. ASSUME NEW k \in Nat
      PROVE  PartAt(k) \in Nat /\ PartAt(k + 1) = PartAt(k) + c
  <2>1. k * c \in Nat /\ (k + 1) * c = k * c + c
    OBVIOUS
  <2> QED BY <2>1, <1>1 DEF PartAt
<1>4. ASSUME NEW j \in Nat, NEW k \in Nat, j < k
      PROVE  PartAt(j) + c <= PartAt(k)
  <2>1. c * (j + 1) <= c * k
    BY <1>4, TimesMonotone
  <2>2. (j + 1) * c <= k * c
    BY <2>1
  <2>3. PartAt(j + 1) <= PartAt(k)
    BY <2>2, <1>1 DEF PartAt
  <2> QED BY <2>3, <1>3
<1>5. PartAt(0) = 0
  BY <1>1 DEF PartAt
<1> QED BY <1>1, <1>2, <1>3, <1>4, <1>5

\* Numbers of so many bytes in pieces of c, from the definition of PartCount.
LEMMA Pieces ==
    ASSUME NEW c \in Nat \ {0}, NEW size \in Nat, NEW k \in Nat
    PROVE  k * c < size <=> k < (size + c - 1) \div c
<1>1. PICK p \in Nat : p = size + c - 1
  OBVIOUS
<1>2. PICK q, r, m \in Nat : q = p \div c /\ r = p % c /\ m = c * q
  OBVIOUS
<1>3. r < c /\ p = m + r
  BY <1>2, DivMod
<1>4. PICK n \in Nat : n = k * c /\ n = c * k
  OBVIOUS
<1>5. CASE k < q
  <2>1. c * (k + 1) <= c * q
    BY <1>5, TimesMonotone
  <2>2. c * (k + 1) = n + c
    BY <1>4
  <2>3. n + c <= m
    BY <2>1, <2>2, <1>2
  <2>4. n < size
    BY <2>3, <1>1, <1>3
  <2> QED BY <2>4, <1>1, <1>2, <1>4, <1>5
<1>6. CASE q <= k
  <2>1. c * q <= c * k
    BY <1>6, TimesMonotone
  <2>2. m <= n
    BY <2>1, <1>2, <1>4
  <2>3. ~(n < size)
    BY <2>2, <1>1, <1>3
  <2> QED BY <2>3, <1>1, <1>2, <1>4, <1>6
<1> QED BY <1>2, <1>5, <1>6

LEMMA PartsAre ==
    ASSUME PartsInv
    PROVE  /\ PartCount \in Nat /\ DOMAIN parts = 1..PartCount
           /\ \A p \in Nat : p + 1 \in DOMAIN parts <=> PartAt(p) < file.size
           /\ \A p \in DOMAIN parts :
                 /\ PlainSize(file, p) = Minimum(file.partSize, file.size - PartAt(p - 1))
                 /\ PlainSize(file, p) \in 1..file.partSize
<1>1. PICK c \in Nat \ {0} : c = file.partSize
  BY PartPlaces
<1>2. PICK n \in Nat : n = file.size
  BY PartPlaces
<1>3. PartCount = (n + c - 1) \div c /\ PartCount \in Nat
  <2>1. PartCount = (n + c - 1) \div c
    BY <1>1, <1>2 DEF PartCount
  <2>2. PICK p \in Nat : p = n + c - 1
    OBVIOUS
  <2>3. p \div c \in Nat
    BY DivMod
  <2> QED BY <2>1, <2>2, <2>3
<1>4. DOMAIN parts = 1..PartCount
  BY DEF PartsInv, StoredParts, PartCount
<1>5. ASSUME NEW p \in Nat PROVE p + 1 \in DOMAIN parts <=> PartAt(p) < file.size
  <2>1. p * c < n <=> p < PartCount
    BY <1>3, Pieces
  <2>2. PartAt(p) = p * c
    BY <1>1 DEF PartAt
  <2> QED BY <2>1, <2>2, <1>2, <1>3, <1>4
<1>6. ASSUME NEW p \in DOMAIN parts
      PROVE  /\ PlainSize(file, p) = Minimum(file.partSize, file.size - PartAt(p - 1))
             /\ PlainSize(file, p) \in 1..file.partSize
  <2>1. PICK k \in Nat : k = p - 1 /\ k + 1 = p
    BY <1>3, <1>4
  <2>2. PartAt(k) < file.size /\ PartAt(k) \in Nat
    BY <2>1, <1>5, PartPlaces
  <2>3. PlainSize(file, p) = Minimum(file.partSize, file.size - PartAt(k))
    BY <2>1 DEF PlainSize, PartAt
  <2>4. Minimum(file.partSize, file.size - PartAt(k)) \in 1..file.partSize
    <3>1. PICK d \in Nat : d = PartAt(k) /\ d < n
      BY <2>2, <1>2
    <3>2. Minimum(c, n - d) \in 1..c
      BY <3>1 DEF Minimum
    <3> QED BY <3>1, <3>2, <1>1, <1>2
  <2> QED BY <2>1, <2>3, <2>4
<1> QED BY <1>3, <1>4, <1>5, <1>6

LEMMA PartIs ==
    ASSUME NEW nonce, parts = StoredParts(file, nonce), NEW p \in DOMAIN parts
    PROVE  /\ file.encrypted => parts[p] = EncryptData(PlainSize(file, p), nonce)
           /\ ~file.encrypted => parts[p].len = PlainSize(file, p)
BY DEF StoredParts

LEMMA PartsInductive ==
    /\ Init => PartsInv
    /\ PartsInv /\ [Next]_vars => PartsInv'
<1>1. Init => PartsInv
  BY DEF Init, PartsInv
<1>2. PartsInv /\ [Next]_vars => PartsInv'
  <2>1. SUFFICES ASSUME PartsInv, [Next]_vars
                 PROVE  file' = file /\ header' = header /\ parts' = parts
    BY DEF PartsInv
  <2> USE DEF request
  <2>2. CASE FilesStream \/ HeadOnly \/ PartsFail
    BY <2>2 DEF FilesStream, HeadOnly, PartsFail
  <2>3. CASE NewReader
    BY <2>3 DEF NewReader
  <2>4. CASE \E k \in ReadSizes : Copy(k)
    BY <2>4 DEF Copy
  <2>5. CASE DroppedFails \/ Over \/ UNCHANGED vars
    BY <2>5 DEF DroppedFails, Over, vars
  <2> QED BY <2>1, <2>2, <2>3, <2>4, <2>5 DEF Next
<1> QED BY <1>1, <1>2

\* The size announced for an encrypted part is the length of what the
\* encrypter returns, and DecryptedSize undoes it (EncryptedSize,
\* DecryptedSize, encrypter).
THEOREM SizesAlwaysAgree == Spec => []SizesAgree
<1>1. PartsInv => SizesAgree
  <2>1. SUFFICES ASSUME PartsInv, file.encrypted, NEW p \in DOMAIN parts
                 PROVE  /\ EncryptedSize(PlainSize(file, p)) = parts[p].len
                        /\ DecryptedSize(parts[p].len) = PlainSize(file, p)
    BY DEF SizesAgree
  <2>2. PICK nonce \in PartNonces : parts = StoredParts(file, nonce)
    BY <2>1 DEF PartsInv
  <2>3. PICK size \in Nat \ {0} : size = PlainSize(file, p)
    BY <2>1, PartsAre
  <2>4. parts[p] = EncryptData(size, nonce)
    BY <2>1, <2>2, <2>3, PartIs
  <2> QED BY <2>3, <2>4, SizesOfPart
<1> QED BY <1>1, PartsInductive, PTL DEF Spec
----------------------------------------------------------------------------
(* The bytes of the file.                                                  *)

LEMMA PositionsAre ==
    ASSUME NEW a \in Int, NEW n \in Nat
    PROVE  /\ Positions(a, n) \in Seq(Int) /\ Len(Positions(a, n)) = n
           /\ DOMAIN Positions(a, n) = 1..n
           /\ \A i \in 1..n : Positions(a, n)[i] = a + i - 1
           /\ Positions(a, n) = << >> <=> n = 0
<1>1. Positions(a, n) = [i \in 1..n |-> a + i - 1]
  BY DEF Positions
<1>2. [i \in 1..n |-> a + i - 1] \in [1..n -> Int]
  OBVIOUS
<1>3. Positions(a, n) \in Seq(Int) /\ Len(Positions(a, n)) = n
  BY <1>1, <1>2
<1>4. Positions(a, n) = << >> <=> n = 0
  BY <1>3
<1> QED BY <1>1, <1>3, <1>4

\* Sequences of bytes are equal if they agree on every byte.
LEMMA SameBytes ==
    ASSUME NEW s \in Seq(Int), NEW t \in Seq(Int), Len(s) = Len(t),
           \A i \in 1..Len(s) : s[i] = t[i]
    PROVE  s = t
OBVIOUS

LEMMA PositionsFrom ==
    ASSUME NEW a \in Int, NEW n \in Nat, NEW k \in 0..n
    PROVE  SubSeq(Positions(a, n), k + 1, n) = Positions(a + k, n - k)
<1>1. PICK s \in Seq(Int) : s = Positions(a, n) /\ Len(s) = n /\ \A i \in 1..n : s[i] = a + i - 1
  BY PositionsAre
<1>2. PICK b \in Int, m \in Nat : b = a + k /\ m = n - k
  OBVIOUS
<1>3. PICK t \in Seq(Int) : t = Positions(b, m) /\ Len(t) = m /\ \A i \in 1..m : t[i] = b + i - 1
  BY PositionsAre
<1>4. /\ SubSeq(s, k + 1, n) \in Seq(Int) /\ Len(SubSeq(s, k + 1, n)) = m
      /\ \A i \in 1..m : SubSeq(s, k + 1, n)[i] = s[k + i]
  BY <1>1, <1>2
<1>5. \A i \in 1..m : s[k + i] = t[i]
  BY <1>1, <1>2, <1>3
<1>6. SubSeq(s, k + 1, n) = t
  BY <1>3, <1>4, <1>5, SameBytes
<1> QED BY <1>1, <1>2, <1>3, <1>6

LEMMA PositionsTo ==
    ASSUME NEW a \in Int, NEW n \in Nat, NEW k \in 0..n
    PROVE  SubSeq(Positions(a, n), 1, k) = Positions(a, k)
<1>1. PICK s \in Seq(Int) : s = Positions(a, n) /\ Len(s) = n /\ \A i \in 1..n : s[i] = a + i - 1
  BY PositionsAre
<1>3. PICK t \in Seq(Int) : t = Positions(a, k) /\ Len(t) = k /\ \A i \in 1..k : t[i] = a + i - 1
  BY PositionsAre
<1>4. /\ SubSeq(s, 1, k) \in Seq(Int) /\ Len(SubSeq(s, 1, k)) = k
      /\ \A i \in 1..k : SubSeq(s, 1, k)[i] = s[i]
  BY <1>1
<1>5. SubSeq(s, 1, k) = t
  BY <1>1, <1>3, <1>4, SameBytes
<1> QED BY <1>1, <1>3, <1>5

LEMMA PositionsJoin ==
    ASSUME NEW a \in Int, NEW n \in Nat, NEW k \in Nat
    PROVE  Positions(a, n) \o Positions(a + n, k) = Positions(a, n + k)
<1>1. PICK s \in Seq(Int) : s = Positions(a, n) /\ Len(s) = n /\ \A i \in 1..n : s[i] = a + i - 1
  BY PositionsAre
<1>2. PICK b \in Int, m \in Nat : b = a + n /\ m = n + k
  OBVIOUS
<1>3. PICK t \in Seq(Int) : t = Positions(b, k) /\ Len(t) = k /\ \A i \in 1..k : t[i] = b + i - 1
  BY PositionsAre
<1>4. PICK u \in Seq(Int) : u = Positions(a, m) /\ Len(u) = m /\ \A i \in 1..m : u[i] = a + i - 1
  BY PositionsAre
<1>5. /\ s \o t \in Seq(Int) /\ Len(s \o t) = m
      /\ \A i \in 1..m : (s \o t)[i] = IF i <= n THEN s[i] ELSE t[i - n]
  <2>1. s \o t \in Seq(Int) /\ Len(s \o t) = Len(s) + Len(t)
    OBVIOUS
  <2>2. \A i \in 1..(Len(s) + Len(t)) :
           (s \o t)[i] = IF i <= Len(s) THEN s[i] ELSE t[i - Len(s)]
    OBVIOUS
  <2> QED BY <2>1, <2>2, <1>1, <1>2, <1>3
<1>6. \A i \in 1..m : (s \o t)[i] = u[i]
  <2>1. TAKE i \in 1..m
  <2>2. CASE i <= n
    BY <2>2, <1>1, <1>4, <1>5
  <2>3. CASE ~(i <= n)
    <3>1. i - n \in 1..k
      BY <2>3, <1>2
    <3>2. t[i - n] = b + (i - n) - 1
      BY <3>1, <1>3
    <3>3. (s \o t)[i] = t[i - n]
      BY <2>3, <1>5
    <3>4. b + (i - n) - 1 = a + i - 1
      BY <1>2
    <3> QED BY <3>2, <3>3, <3>4, <1>4
  <2> QED BY <2>2, <2>3
<1>7. s \o t = u
  BY <1>4, <1>5, <1>6, SameBytes
<1> QED BY <1>1, <1>2, <1>3, <1>4, <1>7

----------------------------------------------------------------------------
(* The ranges of the parts.                                                *)

RangeFrom(r) == PartAt(r.part - 1) + r.start
RangeTo(r) == PartAt(r.part - 1) + r.end

\* A range of bytes inside its part.
Inside(r) ==
    /\ r.part \in DOMAIN parts /\ r.part - 1 \in Nat
    /\ r.start \in Nat /\ r.end \in Nat
    /\ r.start <= r.end /\ r.end < PlainSize(file, r.part)

\* The ranges, one after the other, are the range from a to z.
RangesOK(R, a, z) ==
    /\ Len(R) \in Nat \ {0}
    /\ \A i \in 1..Len(R) : Inside(R[i])
    /\ RangeFrom(R[1]) = a /\ RangeTo(R[Len(R)]) = z
    /\ \A i \in 1..Len(R) : i < Len(R) =>
          RangeTo(R[i]) < z /\ RangeFrom(R[i + 1]) = RangeTo(R[i]) + 1

LEMMA FirstPart ==
    ASSUME PartsInv, file.size > 0
    PROVE  /\ PartSize(1) \in Nat \ {0}
           /\ PartSize(1) = Minimum(file.partSize, file.size)
<1>1. PICK c \in Nat \ {0}, n \in Nat \ {0} : c = file.partSize /\ n = file.size
  <2>1. file.partSize \in Nat \ {0} /\ file.size \in Nat
    BY PartPlaces
  <2>2. file.size \in Nat \ {0}
    BY <2>1
  <2> QED BY <2>1, <2>2, Zenon
<1>2. 0 + 1 \in DOMAIN parts
  <2>1. PartAt(0) < file.size
    BY PartPlaces
  <2> QED BY <2>1, PartsAre
<1>3. 1 \in DOMAIN parts /\ 1 - 1 = 0
  BY <1>2
<1>4. PlainSize(file, 1) = Minimum(c, n) /\ PlainSize(file, 1) \in 1..c
  <2>1. /\ PlainSize(file, 1) = Minimum(file.partSize, file.size - PartAt(1 - 1))
        /\ PlainSize(file, 1) \in 1..file.partSize
    BY <1>3, PartsAre
  <2>2. file.size - PartAt(1 - 1) = n
    BY <1>1, <1>3, PartPlaces
  <2> QED BY <2>1, <2>2, <1>1
<1>5. PICK nonce \in PartNonces : parts = StoredParts(file, nonce)
  BY DEF PartsInv
<1>6. PartSize(1) = PlainSize(file, 1)
  <2>1. CASE file.encrypted
    <3>1. PICK size \in Nat \ {0} : size = PlainSize(file, 1)
      BY <1>4
    <3>2. parts[1] = EncryptData(size, nonce)
      BY <1>3, <1>5, <2>1, <3>1, PartIs
    <3>3. DecryptedSize(parts[1].len) = size
      BY <3>2, SizesOfPart
    <3> QED BY <2>1, <3>1, <3>3 DEF PartSize
  <2>2. CASE ~file.encrypted
    <3>1. parts[1].len = PlainSize(file, 1)
      BY <1>3, <1>5, <2>2, PartIs
    <3> QED BY <2>2, <3>1 DEF PartSize
  <2> QED BY <2>1, <2>2
<1> QED BY <1>1, <1>4, <1>6

\* The k-th multiple of z.
Times(z, k) == z * k

LEMMA Multiples ==
    ASSUME NEW z \in Nat \ {0}
    PROVE  /\ \A k \in Nat : Times(z, k) \in Nat /\ Times(z, k + 1) = Times(z, k) + z
           /\ \A j, k \in Nat : j < k => Times(z, j) + z <= Times(z, k)
           /\ Times(z, 0) = 0
<1>1. \A k \in Nat : Times(z, k) \in Nat /\ Times(z, k + 1) = Times(z, k) + z
  BY DEF Times
<1>2. ASSUME NEW j \in Nat, NEW k \in Nat, j < k
      PROVE  Times(z, j) + z <= Times(z, k)
  <2>1. z * (j + 1) <= z * k
    BY <1>2, TimesMonotone
  <2>2. Times(z, j + 1) <= Times(z, k)
    BY <2>1 DEF Times
  <2> QED BY <2>2, <1>1
<1> QED BY <1>1, <1>2 DEF Times

\* calculatePartByteRanges cuts the range of the request into ranges of parts.
LEMMA RangesAre ==
    ASSUME PartsInv, start \in Nat, end \in Nat, start <= end, end < file.size
    PROVE  RangesOK(CalculatePartByteRanges, start, end)
<1>1. PICK c \in Nat \ {0}, n \in Nat \ {0} : c = file.partSize /\ n = file.size
  <2>1. file.partSize \in Nat \ {0} /\ file.size \in Nat
    BY PartPlaces
  <2>2. file.size \in Nat \ {0}
    BY <2>1
  <2> QED BY <2>1, <2>2, Zenon
<1>2. PICK z \in Nat \ {0} : z = PartSize(1) /\ z = Minimum(c, n)
  BY <1>1, FirstPart
<1>3. PICK lo, hi, r, t \in Nat :
         /\ lo = start \div z /\ hi = end \div z
         /\ r = start % z /\ t = end % z
  OBVIOUS
<1>4. /\ start = Times(z, lo) + r /\ r < z
      /\ end = Times(z, hi) + t /\ t < z
  BY <1>3, DivMod DEF Times
<1>5. lo <= hi
  <2>1. SUFFICES ASSUME hi < lo PROVE FALSE
    OBVIOUS
  <2>2. Times(z, hi) + z <= Times(z, lo) /\ Times(z, hi) \in Nat /\ Times(z, lo) \in Nat
    BY <2>1, Multiples
  <2> QED BY <2>2, <1>4
<1> DEFINE low(no) == IF start > no * z THEN start - no * z ELSE 0
           high(no) == Minimum(z - 1, end - no * z)
           R == [i \in 1..(hi - lo + 1) |->
                   [part  |-> lo + i - 1 + 1,
                    start |-> low(lo + i - 1),
                    end   |-> high(lo + i - 1)]]
<1>6. CalculatePartByteRanges = R
  BY <1>2, <1>3 DEF CalculatePartByteRanges
\* The range in the part no + 1.
<1>7. ASSUME NEW no \in lo..hi
      PROVE  /\ no \in Nat /\ PartAt(no) = Times(z, no) /\ PartAt(no) \in Nat
             /\ low(no) \in Nat /\ high(no) \in Nat
             /\ low(no) <= high(no) /\ no + 1 \in DOMAIN parts
             /\ high(no) < PlainSize(file, no + 1)
             /\ no = lo => PartAt(no) + low(no) = start
             /\ no > lo => low(no) = 0
             /\ no = hi => PartAt(no) + high(no) = end
             /\ no < hi => high(no) = z - 1 /\ PartAt(no) + high(no) < end
  <2>1. no \in Nat /\ no * z = Times(z, no) /\ Times(z, no) \in Nat
    BY Multiples DEF Times
  <2>2. PICK m \in Nat : m = no * z /\ m = Times(z, no)
    BY <2>1
  <2>3. m <= end /\ (no = hi => m = Times(z, hi)) /\ (no < hi => m + z <= end)
    <3>1. Times(z, hi) \in Nat /\ (no < hi => Times(z, no) + z <= Times(z, hi))
      BY <2>1, Multiples
    <3> QED BY <3>1, <2>2, <1>4
  <2>4. (no = lo => m = Times(z, lo) /\ m <= start) /\ (no > lo => m > start)
    <3>1. Times(z, lo) \in Nat /\ (lo < no => Times(z, lo) + z <= Times(z, no))
      BY <2>1, Multiples
    <3> QED BY <3>1, <2>2, <1>4
  <2>5. PartAt(no) = m
    <3>1. CASE z = c
      BY <3>1, <1>1, <2>2 DEF PartAt
    <3>2. CASE z # c
      <4>1. z = n
        BY <3>2, <1>2 DEF Minimum
      <4>2. no = 0
        <5>1. SUFFICES ASSUME 0 < no PROVE FALSE
          BY <2>1
        <5>2. Times(z, 0) + z <= Times(z, no) /\ Times(z, 0) = 0
          BY <5>1, <2>1, Multiples
        <5> QED BY <5>2, <4>1, <2>2, <2>3, <1>1
      <4> QED BY <4>2, <2>2, PartPlaces
    <3> QED BY <3>1, <3>2
  <2>6. no + 1 \in DOMAIN parts
    BY <2>1, <2>3, <2>5, <1>1, PartsAre
  <2>7. PlainSize(file, no + 1) = Minimum(c, n - m)
    <3>1. PlainSize(file, no + 1) = Minimum(file.partSize, file.size - PartAt(no + 1 - 1))
      BY <2>6, PartsAre
    <3>2. no + 1 - 1 = no
      BY <2>1
    <3> QED BY <3>1, <3>2, <2>5, <1>1
  <2>8. z <= c
    BY <1>2 DEF Minimum
  <2>9. PICK l, h \in Int : /\ l = low(no) /\ h = high(no)
                            /\ l = IF start > m THEN start - m ELSE 0
                            /\ h = IF z - 1 < end - m THEN z - 1 ELSE end - m
    <3>1. /\ low(no) = IF start > m THEN start - m ELSE 0
          /\ high(no) = IF z - 1 < end - m THEN z - 1 ELSE end - m
      BY <2>2 DEF Minimum
    <3>2. (IF start > m THEN start - m ELSE 0) \in Int
      BY <2>2
    <3>3. (IF z - 1 < end - m THEN z - 1 ELSE end - m) \in Int
      BY <2>2
    <3> HIDE DEF low, high
    <3> QED BY <3>1, <3>2, <3>3
  <2>10. h \in Nat /\ l \in Nat /\ h < Minimum(c, n - m)
    BY <2>3, <2>8, <2>9, <1>1 DEF Minimum
  <2>11. /\ no = lo => m + l = start
         /\ no > lo => l = 0
         /\ no = hi => m + h = end
         /\ no < hi => h = z - 1 /\ m + h < end
    BY <2>3, <2>4, <2>9, <1>4
  <2>12. l <= h
    <3>1. CASE no = lo
      BY <3>1, <2>4, <2>9, <1>4
    <3>2. CASE no # lo
      BY <3>2, <2>1, <2>10, <2>11
    <3> QED BY <3>1, <3>2
  <2> HIDE DEF low, high
  <2> QED BY <2>1, <2>2, <2>5, <2>6, <2>7, <2>9, <2>10, <2>11, <2>12
<1> HIDE DEF low, high
<1>8. Len(R) = hi - lo + 1 /\ Len(R) \in Nat \ {0}
  BY <1>5
<1>9. ASSUME NEW i \in 1..Len(R)
      PROVE  /\ lo + i - 1 \in lo..hi /\ R[i].part = lo + i - 1 + 1
             /\ R[i].part - 1 = lo + i - 1
             /\ R[i].start = low(lo + i - 1) /\ R[i].end = high(lo + i - 1)
  <2>1. i \in 1..(hi - lo + 1) /\ lo + i - 1 \in lo..hi
    <3> HIDE DEF R
    <3>1. i \in 1..(hi - lo + 1)
      BY <1>8
    <3> QED BY <3>1
  <2>2. R[i] = [part  |-> lo + i - 1 + 1,
                start |-> low(lo + i - 1),
                end   |-> high(lo + i - 1)]
    BY <2>1
  <2> QED BY <2>1, <2>2
<1> HIDE DEF R
<1>10. ASSUME NEW i \in 1..Len(R) PROVE Inside(R[i])
  <2>1. PICK no \in lo..hi : no = lo + i - 1
    BY <1>9
  <2>2. /\ R[i].part = no + 1 /\ R[i].part - 1 = no
        /\ R[i].start = low(no) /\ R[i].end = high(no)
    BY <2>1, <1>9
  <2> QED BY <2>2, <1>7 DEF Inside
<1>11. RangeFrom(R[1]) = start
  <2>1. lo + 1 - 1 = lo /\ lo \in lo..hi
    BY <1>5
  <2>4. 1 \in 1..Len(R)
    BY <1>8
  <2>2. R[1].part - 1 = lo /\ R[1].start = low(lo)
    BY <2>1, <2>4, <1>9
  <2>3. PartAt(lo) + low(lo) = start
    BY <2>1, <1>7
  <2> QED BY <2>2, <2>3 DEF RangeFrom
<1>12. RangeTo(R[Len(R)]) = end
  <2>1. lo + Len(R) - 1 = hi /\ Len(R) \in 1..Len(R) /\ hi \in lo..hi
    BY <1>5, <1>8
  <2>2. R[Len(R)].part - 1 = hi /\ R[Len(R)].end = high(hi)
    BY <2>1, <1>9
  <2>3. PartAt(hi) + high(hi) = end
    BY <2>1, <1>7
  <2> QED BY <2>2, <2>3 DEF RangeTo
<1>13. ASSUME NEW i \in 1..Len(R), i < Len(R)
       PROVE  RangeTo(R[i]) < end /\ RangeFrom(R[i + 1]) = RangeTo(R[i]) + 1
  <2>1. PICK no \in lo..hi : no = lo + i - 1 /\ no < hi /\ no + 1 = lo + (i + 1) - 1
    BY <1>8, <1>13
  <2>2. i + 1 \in 1..Len(R) /\ no + 1 \in lo..hi /\ no + 1 > lo
    BY <2>1, <1>8, <1>13
  <2>3. /\ R[i].part - 1 = no /\ R[i].end = high(no)
        /\ R[i + 1].part - 1 = no + 1 /\ R[i + 1].start = low(no + 1)
    BY <2>1, <2>2, <1>9
  <2>4. high(no) = z - 1 /\ PartAt(no) + high(no) < end /\ low(no + 1) = 0
    BY <2>1, <2>2, <1>7
  <2>5. PartAt(no) = Times(z, no) /\ PartAt(no + 1) = Times(z, no + 1) /\ no \in Nat
    BY <2>1, <2>2, <1>7
  <2>6. Times(z, no + 1) = Times(z, no) + z /\ Times(z, no) \in Nat
    BY <2>5, Multiples
  <2> QED BY <2>3, <2>4, <2>5, <2>6 DEF RangeFrom, RangeTo
<1> QED BY <1>6, <1>8, <1>10, <1>11, <1>12, <1>13 DEF RangesOK

----------------------------------------------------------------------------
(* What a Range header asks for.                                           *)

\* A value asks for the range it resolves to, or for nothing.
LEMMA AskedIs ==
    ASSUME file.size \in Nat, NEW v \in HeaderValues, v.lo # NoDash,
           NEW r, r = Resolve(v, file.size)
    PROVE  LET valid == (v.lo # None \/ v.hi # None) /\ r.start <= r.end /\ r.start >= 0
           IN  /\ valid => /\ r.start \in Nat /\ r.end \in Nat /\ r.start <= r.end
                           /\ r.end < file.size /\ Asked(v) = r.start .. r.end
               /\ ~valid => Asked(v) = {}
<1>1. PICK n \in Nat : n = file.size
  OBVIOUS
<1>2. PICK lo, hi \in Int : /\ lo = v.lo /\ hi = v.hi
                            /\ lo \in Nat \/ lo = -1
                            /\ hi \in Nat \/ hi = -1
  BY DEF HeaderValues, None, NoDash
<1>3. PICK a, z \in Int : /\ a = r.start /\ z = r.end
                          /\ a = IF lo = -1 THEN n - hi ELSE lo
                          /\ lo = -1 \/ hi = -1 => z = n - 1
                          /\ lo # -1 /\ hi # -1 => z = IF hi < n - 1 THEN hi ELSE n - 1
  <2>1. r = [start |-> IF lo = -1 THEN n - hi ELSE lo,
             end   |-> Minimum(IF lo = -1 \/ hi = -1 THEN n - 1 ELSE hi, n - 1)]
    BY <1>1, <1>2 DEF Resolve, None
  <2> QED BY <2>1 DEF Minimum
<1>4. Asked(v) = {p \in 0..(n - 1) :
                    \/ lo = -1 /\ hi \in 0..n /\ p >= n - hi
                    \/ lo >= 0 /\ lo <= p /\ (hi = -1 \/ p <= hi)}
  BY <1>1, <1>2 DEF Asked, None
<1>5. CASE (lo # -1 \/ hi # -1) /\ a <= z /\ a >= 0
  <2>1. a \in Nat /\ z \in Nat /\ a <= z /\ z < n
    BY <1>2, <1>3, <1>5
  <2>2. \A p \in Int : p \in Asked(v) <=> p \in a..z
    <3>1. CASE lo = -1
      BY <3>1, <1>2, <1>3, <1>4, <1>5
    <3>2. CASE lo # -1
      BY <3>2, <1>2, <1>3, <1>4, <1>5
    <3> QED BY <3>1, <3>2
  <2>3. Asked(v) \subseteq Int /\ a..z \subseteq Int
    BY <1>4
  <2>4. Asked(v) = a..z
    BY <2>2, <2>3
  <2> QED BY <2>1, <2>4, <1>1, <1>2, <1>3, <1>5 DEF None
<1>6. CASE ~((lo # -1 \/ hi # -1) /\ a <= z /\ a >= 0)
  <2>1. ASSUME NEW p \in Asked(v) PROVE FALSE
    <3>1. CASE lo = -1
      BY <2>1, <3>1, <1>2, <1>3, <1>4, <1>6
    <3>2. CASE lo # -1
      BY <2>1, <3>2, <1>2, <1>3, <1>4, <1>6
    <3> QED BY <3>1, <3>2
  <2> QED BY <2>1, <1>2, <1>3, <1>6 DEF None
<1> QED BY <1>5, <1>6

\* The bytes from start to end are those that the header asks for.
RangeOK ==
    /\ start \in Nat /\ end \in Nat
    /\ start <= end /\ end < file.size
    /\ Wanted = start..end

\* Without a header, and with one valid value, FilesStream serves what is
\* asked for.
LEMMA WantedIs ==
    ASSUME file.size \in Nat \ {0}, header \in Headers
    PROVE  /\ header = NoHeader => Wanted = 0..(file.size - 1)
           /\ header \notin {NoHeader, BadHeader}
                /\ ~(\E i \in DOMAIN header : header[i].lo = NoDash)
                /\ Cardinality(Parse(header, file.size)) = 1
              => \A i \in Parse(header, file.size) :
                    LET r == Resolve(header[i], file.size)
                    IN /\ r.start \in Nat /\ r.end \in Nat
                       /\ r.start <= r.end /\ r.end < file.size
                       /\ Wanted = r.start .. r.end
<1>1. header = NoHeader => Wanted = 0..(file.size - 1)
  BY StreamAssumption DEF Wanted, StreamAssumption
<1>2. ASSUME header \notin {NoHeader, BadHeader},
             ~(\E i \in DOMAIN header : header[i].lo = NoDash),
             Cardinality(Parse(header, file.size)) = 1,
             NEW i \in Parse(header, file.size), NEW r, r = Resolve(header[i], file.size)
      PROVE  /\ r.start \in Nat /\ r.end \in Nat
             /\ r.start <= r.end /\ r.end < file.size
             /\ Wanted = r.start .. r.end
  <2>1. header \in Seq(HeaderValues)
    BY <1>2, StreamAssumption DEF StreamAssumption
  <2>2. DOMAIN header = 1..Len(header) /\ \A j \in DOMAIN header : header[j] \in HeaderValues
    BY <2>1
  <2>3. Wanted = UNION {Asked(header[j]) : j \in DOMAIN header}
    BY <1>2 DEF Wanted
  <2>4. Parse(header, file.size) \subseteq DOMAIN header
    BY DEF Parse
  <2>5. IsFiniteSet(Parse(header, file.size))
    <3>1. IsFiniteSet(1..Len(header))
      BY <2>1, FS_Interval
    <3> QED BY <2>2, <2>4, <3>1, FS_Subset
  <2>6. \A j \in Parse(header, file.size) : j = i
    <3>1. \E x : Parse(header, file.size) = {x}
      BY <2>5, <1>2, FS_Singleton
    <3> QED BY <3>1, <1>2
  <2>7. ASSUME NEW j \in DOMAIN header, j # i PROVE Asked(header[j]) = {}
    <3>1. PICK v \in HeaderValues : v = header[j] /\ v.lo # NoDash
      BY <2>2, <1>2
    <3>2. PICK s : s = Resolve(v, file.size)
      OBVIOUS
    <3>3. ~((v.lo # None \/ v.hi # None) /\ s.start <= s.end /\ s.start >= 0)
      BY <2>6, <2>7, <3>1, <3>2 DEF Parse
    <3> QED BY <3>1, <3>2, <3>3, AskedIs
  <2>8. PICK v \in HeaderValues : v = header[i] /\ v.lo # NoDash
    BY <2>2, <2>4, <1>2
  <2>9. (v.lo # None \/ v.hi # None) /\ r.start <= r.end /\ r.start >= 0
    BY <2>8, <1>2 DEF Parse
  <2>10. /\ r.start \in Nat /\ r.end \in Nat /\ r.start <= r.end
         /\ r.end < file.size /\ Asked(v) = r.start .. r.end
    BY <2>8, <2>9, <1>2, AskedIs
  <2>11. Wanted = Asked(header[i])
    BY <2>3, <2>4, <2>7, <1>2
  <2> QED BY <2>8, <2>10, <2>11
<1> QED BY <1>1, <1>2

----------------------------------------------------------------------------
(* The boxes of an encrypted part of the file.                             *)

Count(p) == BoxCount(PlainSize(file, p))
NonceAt(p, b) == BoxNonces(parts[p].nonce, Count(p))[b]
DataOf(p, b) == BoxData(PlainSize(file, p), b + 1)

\* Where the first b boxes end.
BoxEnd(p, b) == IF b < Count(p) THEN At(b) ELSE parts[p].len

LEMMA PartLayout ==
    ASSUME PartsInv, file.encrypted, NEW p \in DOMAIN parts
    PROVE  /\ p - 1 \in Nat /\ PartAt(p - 1) \in Nat
           /\ PlainSize(file, p) \in 1..file.partSize /\ Count(p) \in Nat \ {0}
           /\ parts[p].nonce \in Nonces
           /\ NonceAt(p, 0) = parts[p].nonce
           /\ \A b \in 0..Count(p) : /\ NonceAt(p, b) \in Nonces
                                     /\ Fits(b) => NonceAt(p, b) = Add(parts[p].nonce, b)
           /\ \A b \in 0..(Count(p) - 1) : NonceAt(p, b + 1) = Increment(NonceAt(p, b))
           /\ parts[p].len = At(Count(p) - 1) + BlockHeaderSize + DataOf(p, Count(p) - 1)
           /\ DOMAIN parts[p].boxes = 1..Count(p)
           /\ \A b \in 0..(Count(p) - 1) :
                 parts[p].boxes[b + 1] = [at    |-> At(b),
                                          len   |-> BlockHeaderSize + DataOf(p, b),
                                          nonce |-> NonceAt(p, b),
                                          from  |-> Span(b)]
<1>1. PICK nonce \in PartNonces : parts = StoredParts(file, nonce)
  BY DEF PartsInv
<1>2. PICK size \in Nat \ {0} : size = PlainSize(file, p) /\ size \in 1..file.partSize
  BY PartsAre
<1>3. PICK count \in Nat \ {0} : count = Count(p) /\ count = BoxCount(size)
  BY <1>2, Boxes DEF Count
<1>4. parts[p] = EncryptData(size, nonce)
  BY <1>1, <1>2, PartIs
<1>5. p - 1 \in Nat /\ PartAt(p - 1) \in Nat
  <2>1. p - 1 \in Nat
    BY PartsAre
  <2> QED BY <2>1, PartPlaces
<1>6. nonce \in Nonces
  BY StreamConstants
<1>7. PICK e : e = parts[p]
  OBVIOUS
<1>8. /\ e.nonce = nonce
      /\ DOMAIN e.boxes = 1..count
      /\ \A b \in 1..count :
            e.boxes[b] = [at    |-> At(b - 1),
                          len   |-> BlockHeaderSize + BoxData(size, b),
                          nonce |-> BoxNonces(nonce, count)[b - 1],
                          from  |-> Span(b - 1)]
      /\ e.len = At(count - 1) + BlockHeaderSize + BoxData(size, count)
  BY <1>3, <1>4, <1>7, Encrypted
<1>9. \A b : NonceAt(p, b) = BoxNonces(nonce, count)[b]
  BY <1>3, <1>7, <1>8 DEF NonceAt
<1>10. /\ BoxNonces(nonce, count) \in [0..count -> Nonces]
       /\ BoxNonces(nonce, count)[0] = nonce
       /\ \A b \in 1..count :
             BoxNonces(nonce, count)[b] = Increment(BoxNonces(nonce, count)[b - 1])
  BY <1>6, BoxNoncesAre
<1>11. \A b : DataOf(p, b) = BoxData(size, b + 1)
  BY <1>2 DEF DataOf
<1>12. ASSUME NEW b \in 0..(count - 1)
       PROVE  /\ NonceAt(p, b + 1) = Increment(NonceAt(p, b))
              /\ e.boxes[b + 1] = [at    |-> At(b),
                                   len   |-> BlockHeaderSize + DataOf(p, b),
                                   nonce |-> NonceAt(p, b),
                                   from  |-> Span(b)]
  <2>1. PICK k \in 1..count : k = b + 1 /\ k - 1 = b
    OBVIOUS
  <2>2. BoxNonces(nonce, count)[k] = Increment(BoxNonces(nonce, count)[b])
    BY <2>1, <1>10
  <2>3. e.boxes[k] = [at    |-> At(b),
                      len   |-> BlockHeaderSize + BoxData(size, k),
                      nonce |-> BoxNonces(nonce, count)[b],
                      from  |-> Span(b)]
    BY <2>1, <1>8
  <2> QED BY <2>1, <2>2, <2>3, <1>9, <1>11
<1>13. ASSUME NEW b \in 0..count
       PROVE  NonceAt(p, b) \in Nonces /\ (Fits(b) => NonceAt(p, b) = Add(nonce, b))
  BY <1>6, <1>9, <1>10, NoncesAgree
<1>14. e.len = At(count - 1) + BlockHeaderSize + DataOf(p, count - 1)
  <2>1. (count - 1) + 1 = count
    OBVIOUS
  <2> QED BY <2>1, <1>8, <1>11
<1>15. NonceAt(p, 0) = e.nonce
  BY <1>8, <1>9, <1>10
<1> QED BY <1>2, <1>3, <1>5, <1>6, <1>7, <1>8, <1>12, <1>13, <1>14, <1>15

\* Boxes fill the part, and all but the last are of the same length.
LEMMA BoxEnds ==
    ASSUME PartsInv, file.encrypted, NEW p \in DOMAIN parts,
           NEW b \in 0..(Count(p) - 1)
    PROVE  /\ Span(b) < PlainSize(file, p)
           /\ DataOf(p, b) \in 1..BlockDataSize
           /\ Span(b) + DataOf(p, b) = Minimum(Span(b + 1), PlainSize(file, p))
           /\ BoxEnd(p, b) = At(b)
           /\ BoxEnd(p, b + 1) = At(b) + BlockHeaderSize + DataOf(p, b)
           /\ parts[p].len \in Nat
           /\ b + 1 < Count(p) => /\ DataOf(p, b) = BlockDataSize
                                  /\ At(b + 1) <= parts[p].len
           /\ b + 1 = Count(p) => parts[p].len = At(b) + BlockHeaderSize + DataOf(p, b)
<1>1. PICK size \in Nat \ {0} : size = PlainSize(file, p)
  BY PartsAre
<1>2. PICK count \in Nat \ {0}, d \in Nat :
         count = Count(p) /\ count = BoxCount(size) /\ d + 1 = count /\ d = count - 1
  BY <1>1, Boxes DEF Count
<1>3. Span(d) < size /\ size <= Span(count)
  BY <1>2, Boxes
<1>4. ASSUME NEW k \in 0..d
      PROVE  /\ DataOf(p, k) \in 1..BlockDataSize
             /\ k < d => DataOf(p, k) = BlockDataSize
             /\ DataOf(p, k) = Minimum(BlockDataSize, size - Span(k))
  <2>1. PICK j \in 1..count : j = k + 1 /\ j - 1 = k /\ (j < count <=> k < d)
    BY <1>2
  <2>2. DataOf(p, k) = BoxData(size, j)
    BY <2>1, <1>1 DEF DataOf
  <2> QED BY <2>1, <2>2, <1>2, Boxes
<1>5. b \in 0..d
  BY <1>2
<1>6. Span(b) \in Nat /\ Span(b + 1) = Span(b) + BlockDataSize /\ At(b) \in Nat
      /\ At(b + 1) = At(b) + BlockSize
  BY <1>5, Places
<1>7. Span(b) < size
  <2>1. CASE b = d
    BY <2>1, <1>3
  <2>2. CASE b < d
    <3>2. b \in Nat
      BY <1>5
    <3>1. Span(b) + BlockDataSize <= Span(d) /\ Span(d) \in Nat
      BY <2>2, <3>2, Places, PlacesGrow
    <3> QED BY <3>1, <1>3, <1>6, CipherConstants
  <2> QED BY <2>1, <2>2, <1>5
<1>8. PICK m \in 1..BlockDataSize :
         /\ m = DataOf(p, b) /\ m = Minimum(BlockDataSize, size - Span(b))
         /\ b < d => m = BlockDataSize
  BY <1>4, <1>5
<1>9. Span(b) + m = Minimum(Span(b + 1), size)
  BY <1>6, <1>7, <1>8, CipherConstants DEF Minimum
<1>10. parts[p].len = At(d) + BlockHeaderSize + DataOf(p, d) /\ parts[p].len \in Nat
  <2>1. parts[p].len = At(d) + BlockHeaderSize + DataOf(p, d)
    BY <1>2, PartLayout
  <2>2. DataOf(p, d) \in Nat /\ At(d) \in Nat
    BY <1>4, Places, CipherConstants
  <2> QED BY <2>1, <2>2, CipherConstants
<1>11. CASE b = d
  <2>1. b + 1 = count /\ ~(b + 1 < count) /\ b < count
    BY <1>11, <1>2
  <2>2. BoxEnd(p, b) = At(b) /\ BoxEnd(p, b + 1) = parts[p].len
    BY <2>1, <1>2 DEF BoxEnd
  <2> QED BY <2>1, <2>2, <1>1, <1>2, <1>7, <1>8, <1>9, <1>10, <1>11
<1>12. CASE b # d
  <2>1. b + 1 < count /\ b < count /\ b < d /\ b + 1 # count
    BY <1>12, <1>2, <1>5
  <2>2. BoxEnd(p, b) = At(b) /\ BoxEnd(p, b + 1) = At(b + 1)
    BY <2>1, <1>2 DEF BoxEnd
  <2>3. At(b + 1) = At(b) + BlockHeaderSize + m
    BY <2>1, <1>6, <1>8, CipherConstants
  <2>4. At(b + 1) <= parts[p].len
    <3>1. At(b) + BlockSize <= At(d) /\ At(d) \in Nat /\ DataOf(p, d) \in Nat
      <4>1. b \in Nat /\ d \in 0..d
        BY <1>5
      <4>2. At(b) + BlockSize <= At(d) /\ At(d) \in Nat
        BY <2>1, <4>1, Places, PlacesGrow
      <4> QED BY <4>1, <4>2, <1>4, CipherConstants
    <3> QED BY <3>1, <1>6, <1>10, CipherConstants
  <2> QED BY <2>1, <2>2, <2>3, <2>4, <1>1, <1>2, <1>7, <1>8, <1>9, <1>10
<1> QED BY <1>11, <1>12

\* The cells that are opened with the nonce of box b at its place are that box.
LEMMA Opened ==
    ASSUME PartsInv, file.encrypted, NEW p \in DOMAIN parts,
           NEW b \in 0..(Count(p) - 1), NEW n,
           NEW opened, opened = Opens(parts[p], NonceAt(p, b), At(b), n)
    PROVE  /\ n # BlockHeaderSize + DataOf(p, b) => opened = {}
           /\ n = BlockHeaderSize + DataOf(p, b)
                => opened # {} /\ (CHOOSE x \in opened : TRUE).from = Span(b)
<1>1. PICK boxes : boxes = parts[p].boxes
  OBVIOUS
<1>2. /\ DOMAIN boxes = 1..Count(p) /\ Count(p) \in Nat
      /\ \A k \in 0..(Count(p) - 1) :
            boxes[k + 1] = [at    |-> At(k),
                            len   |-> BlockHeaderSize + DataOf(p, k),
                            nonce |-> NonceAt(p, k),
                            from  |-> Span(k)]
  BY <1>1, PartLayout
<1>3. opened = {x \in {boxes[i] : i \in DOMAIN boxes} :
                  x.at = At(b) /\ x.len = n /\ x.nonce = NonceAt(p, b)}
  BY <1>1 DEF Opens, Range
<1>4. ASSUME NEW x \in opened
      PROVE  x.len = BlockHeaderSize + DataOf(p, b) /\ x.from = Span(b) /\ x.len = n
  <2>1. PICK i \in 1..Count(p) : x = boxes[i]
    BY <1>2, <1>3
  <2>2. PICK k \in 0..(Count(p) - 1) : i = k + 1
    BY <1>2
  <2>3. x.at = At(k) /\ x.len = BlockHeaderSize + DataOf(p, k) /\ x.from = Span(k)
    <3>1. x = [at    |-> At(k),
               len   |-> BlockHeaderSize + DataOf(p, k),
               nonce |-> NonceAt(p, k),
               from  |-> Span(k)]
      BY <2>1, <2>2, <1>2
    <3> QED BY <3>1
  <2>4. At(k) = At(b) /\ x.len = n
    BY <2>3, <1>3
  <2>5. k = b
    <3>1. k \in Nat /\ b \in Nat
      BY <1>2
    <3>2. ~(k < b) /\ ~(b < k)
      <4>1. At(b) \in Nat /\ At(k) \in Nat
        BY <3>1, Places
      <4>2. k < b => At(k) + BlockSize <= At(b)
        BY <3>1, PlacesGrow
      <4>3. b < k => At(b) + BlockSize <= At(k)
        BY <3>1, PlacesGrow
      <4> QED BY <4>1, <4>2, <4>3, <2>4, CipherConstants
    <3> QED BY <3>1, <3>2
  <2> QED BY <2>3, <2>4, <2>5
<1>5. ASSUME n = BlockHeaderSize + DataOf(p, b) PROVE boxes[b + 1] \in opened
  <2>1. b + 1 \in DOMAIN boxes
    BY <1>2
  <2>2. /\ boxes[b + 1].at = At(b) /\ boxes[b + 1].len = n
        /\ boxes[b + 1].nonce = NonceAt(p, b)
    <3>1. boxes[b + 1] = [at    |-> At(b),
                          len   |-> BlockHeaderSize + DataOf(p, b),
                          nonce |-> NonceAt(p, b),
                          from  |-> Span(b)]
      BY <1>2
    <3> QED BY <3>1, <1>5
  <2> QED BY <2>1, <2>2, <1>3
<1>6. ASSUME n = BlockHeaderSize + DataOf(p, b)
      PROVE  opened # {} /\ (CHOOSE x \in opened : TRUE).from = Span(b)
  <2>1. opened # {}
    BY <1>5, <1>6
  <2>2. (CHOOSE x \in opened : TRUE) \in opened
    BY <2>1
  <2> QED BY <2>1, <2>2, <1>4
<1> QED BY <1>4, <1>6

----------------------------------------------------------------------------
(* Opening boxes.                                                          *)

\* The boxes that are fetched from the box of the first byte on hold all of
\* the bytes that are asked for.
LEMMA UnderlyingCovers ==
    ASSUME NEW offset \in Nat, NEW limit \in Nat \ {0},
           NEW u, u = CalculateUnderlying(offset, limit)
    PROVE  \E k, x \in Nat :
              /\ u = [blocks |-> k, discard |-> offset - Span(k), offset |-> At(k),
                      limit |-> (1 + x) * BlockSize]
              /\ k = offset \div BlockDataSize
              /\ At(k) + (1 + x) * BlockSize = At(k + 1 + x)
              /\ offset - Span(k) \in 0..(BlockDataSize - 1)
              /\ offset + limit <= Span(k + 1 + x)
<1>1. PICK k, r \in Nat : /\ k = offset \div BlockDataSize /\ r = offset % BlockDataSize
                          /\ r \in 0..(BlockDataSize - 1) /\ offset = Span(k) + r
  <2>1. /\ offset \div BlockDataSize \in Nat /\ offset % BlockDataSize \in 0..(BlockDataSize - 1)
        /\ offset = Span(offset \div BlockDataSize) + (offset % BlockDataSize)
    BY BoxOf
  <2>2. offset % BlockDataSize \in Nat
    BY <2>1, CipherConstants
  <2> QED BY <2>1, <2>2, Zenon
<1>2. PICK more \in Int : more = limit - (BlockDataSize - r)
  BY CipherConstants
<1>3. PICK x \in Nat : x = ExtraBlocks(more) /\ more <= Span(x)
  <2>1. CASE more > 0
    <3>1. PICK m \in Nat \ {0} : m = more
      BY <2>1
    <3>2. ExtraBlocks(more) = BoxCount(m)
      BY <2>1, <3>1 DEF ExtraBlocks, BoxCount
    <3> QED BY <3>1, <3>2, Boxes
  <2>2. CASE ~(more > 0)
    <3>1. ExtraBlocks(more) = 0
      BY <2>2 DEF ExtraBlocks
    <3> QED BY <3>1, <2>2, Places
  <2> QED BY <2>1, <2>2
<1>4. u = [blocks |-> k, discard |-> r, offset |-> At(k), limit |-> (1 + x) * BlockSize]
  BY <1>1, <1>2, <1>3 DEF CalculateUnderlying, At
<1>5. PICK y \in Nat : y = (1 + x) * BlockSize
  BY CipherConstants
<1>6. At(k) + y = At(k + 1 + x)
  <2>1. (k + (1 + x)) * BlockSize = k * BlockSize + (1 + x) * BlockSize
    BY CipherConstants
  <2>2. k + (1 + x) = k + 1 + x /\ k * BlockSize \in Nat
    BY CipherConstants
  <2> QED BY <2>1, <2>2, <1>5, CipherConstants DEF At
<1>7. Span(k + 1 + x) = Span(k) + BlockDataSize + Span(x)
  <2>1. (k + 1 + x) * BlockDataSize = k * BlockDataSize + BlockDataSize + x * BlockDataSize
    <3>1. k + 1 + x \in Nat /\ BlockDataSize \in Nat
      BY CipherConstants
    <3> QED BY <3>1
  <2> QED BY <2>1 DEF Span
<1>8. offset + limit <= Span(k + 1 + x)
  <2>1. PICK c, a, z \in Nat : c = BlockDataSize /\ a = Span(k) /\ z = Span(x)
    BY Places, CipherConstants
  <2>2. offset = a + r /\ limit - (c - r) <= z
    BY <2>1, <1>1, <1>2, <1>3
  <2>3. offset + limit <= a + c + z
    BY <2>2
  <2> QED BY <2>1, <2>3, <1>7
<1>9. offset - Span(k) = r
  BY <1>1, Places
<1> QED BY <1>1, <1>4, <1>5, <1>6, <1>8, <1>9

\* fillBuffer at the start of a box gives the data of the box, or an error
\* that the source gave.
LEMMA FillBufferIs ==
    ASSUME PartsInv, file.encrypted, NEW p \in DOMAIN parts,
           NEW b \in 0..(Count(p) - 1), NEW e \in Nat, b < e,
           NEW buf, NEW limit, NEW stop, stop = Minimum(parts[p].len, At(e)),
           NEW lost \in {-1} \cup (0..(BlockSize - 1)),
           NEW r, r = FillBuffer([nonce |-> NonceAt(p, b), buf |-> buf, limit |-> limit],
                                 [part |-> p, at |-> At(b), stop |-> stop], lost)
    PROVE  \/ r.err = "fault" /\ lost >= 0
           \/ r = Result([nonce |-> NonceAt(p, b + 1),
                          buf   |-> Positions(PartAt(p - 1) + Span(b), DataOf(p, b)),
                          limit |-> limit],
                         [part |-> p, at |-> BoxEnd(p, b + 1), stop |-> stop], "nil")
<1>1. PICK m \in 1..BlockDataSize : m = DataOf(p, b)
  BY BoxEnds
<1>2. PICK a, len \in Nat : a = At(b) /\ len = parts[p].len
  <2>1. b \in Nat
    BY PartLayout
  <2> QED BY <2>1, BoxEnds, Places
<1>3. PICK left \in Nat : left = stop - a /\ left >= BlockHeaderSize + m
                         /\ (left >= BlockSize \/ left = BlockHeaderSize + m)
                         /\ (m = BlockDataSize \/ left = BlockHeaderSize + m)
  <2>1. b \in Nat /\ b + 1 \in Nat /\ (b + 1 < Count(p) \/ b + 1 = Count(p))
    BY PartLayout
  <2>2. At(b + 1) <= At(e)
    <3>1. CASE b + 1 = e
      <4>1. At(e) \in Nat
        BY Places
      <4> QED BY <3>1, <4>1
    <3>2. CASE b + 1 < e
      <4>1. At(b + 1) + BlockSize <= At(e)
        BY <2>1, <3>2, PlacesGrow
      <4>2. At(b + 1) \in Nat /\ At(e) \in Nat
        BY <2>1, Places
      <4> QED BY <4>1, <4>2, CipherConstants
    <3> QED BY <2>1, <3>1, <3>2
  <2>3. At(b + 1) = a + BlockSize /\ At(e) \in Nat
    BY <2>1, <1>2, Places
  <2>4. PICK z \in Nat : z = At(e) /\ a + BlockSize <= z
    BY <2>2, <2>3
  <2>5. stop = IF len < z THEN len ELSE z
    BY <2>4, <1>2 DEF Minimum
  <2>6. CASE b + 1 < Count(p)
    <3>1. m = BlockDataSize /\ a + BlockSize <= len
      BY <2>3, <2>6, <1>1, <1>2, BoxEnds
    <3> QED BY <3>1, <2>4, <2>5, CipherConstants
  <2>7. CASE b + 1 = Count(p)
    <3>1. len = a + BlockHeaderSize + m
      BY <2>7, <1>1, <1>2, BoxEnds
    <3> QED BY <3>1, <2>4, <2>5, CipherConstants
  <2> QED BY <2>1, <2>6, <2>7
<1> DEFINE d == [nonce |-> NonceAt(p, b), buf |-> buf, limit |-> limit]
           s == [part |-> p, at |-> a, stop |-> stop]
<1>4. Left(s) = left
  BY <1>3 DEF Left
<1>5. PICK n \in Nat : n = IF lost \in 0..(left - 1) THEN lost
                          ELSE Minimum(BlockSize, left)
  BY <1>3, CipherConstants DEF Minimum
<1>6. PICK opened : opened = Opens(parts[p], NonceAt(p, b), a, n)
  OBVIOUS
<1>7. /\ n # BlockHeaderSize + m => opened = {}
      /\ n = BlockHeaderSize + m
           => opened # {} /\ (CHOOSE x \in opened : TRUE).from = Span(b)
  BY <1>1, <1>2, <1>6, Opened
<1>8. CASE lost \in 0..(left - 1)
  <2>1. n = lost /\ n < BlockHeaderSize + m
    BY <1>3, <1>5, <1>8, CipherConstants
  <2>2. opened = {}
    BY <2>1, <1>7, CipherConstants
  <2>3. \/ n = 0
        \/ n \in 1..BlockHeaderSize /\ n # 0
        \/ n > BlockHeaderSize /\ n \notin 1..BlockHeaderSize /\ n # 0
    BY CipherConstants
  <2>4. r.err = "fault" /\ lost >= 0
    BY <2>1, <2>2, <2>3, <1>2, <1>4, <1>6, <1>8 DEF FillBuffer, Result
  <2> QED BY <2>4
<1>9. CASE lost \notin 0..(left - 1)
  <2>1. n = Minimum(BlockSize, left) /\ n = BlockHeaderSize + m
    BY <1>3, <1>5, <1>9, CipherConstants DEF Minimum
  <2>2. opened # {} /\ (CHOOSE x \in opened : TRUE).from = Span(b)
    BY <2>1, <1>7
  <2>3. n # 0 /\ n \notin 1..BlockHeaderSize
    BY <2>1, CipherConstants
  <2>4. PICK data : data = [i \in 1..(n - BlockHeaderSize) |->
                              IF opened = {} THEN Zero
                              ELSE (p - 1) * file.partSize
                                     + (CHOOSE x \in opened : TRUE).from + i - 1]
    OBVIOUS
  <2>5. data = Positions(PartAt(p - 1) + Span(b), m)
    <3>1. n - BlockHeaderSize = m
      BY <2>1, CipherConstants
    <3> QED BY <2>2, <2>4, <3>1 DEF Positions, PartAt
  <2>6. r = Result([d EXCEPT !.buf = data, !.nonce = Increment(@)],
                   [s EXCEPT !.at = @ + n], "nil")
    BY <2>1, <2>2, <2>3, <2>4, <1>2, <1>4, <1>6, <1>9 DEF FillBuffer
  <2>7. [s EXCEPT !.at = @ + n] = [part |-> p, at |-> a + n, stop |-> stop]
    OBVIOUS
  <2>8. [d EXCEPT !.buf = data, !.nonce = Increment(@)]
          = [nonce |-> Increment(NonceAt(p, b)), buf |-> data, limit |-> limit]
    <3>1. PICK c : c = d
      OBVIOUS
    <3>2. PICK f : f = [c EXCEPT !.buf = data, !.nonce = Increment(@)]
      OBVIOUS
    <3>3. f = [nonce |-> Increment(NonceAt(p, b)), buf |-> data, limit |-> limit]
      BY <3>1, <3>2
    <3> QED BY <3>1, <3>2, <3>3
  <2>9. Increment(NonceAt(p, b)) = NonceAt(p, b + 1)
    BY PartLayout
  <2>10. BoxEnd(p, b + 1) = a + n
    <3>1. BoxEnd(p, b + 1) = At(b) + BlockHeaderSize + DataOf(p, b)
      BY BoxEnds
    <3> QED BY <3>1, <2>1, <1>1, <1>2, CipherConstants
  <2>11. r = Result([nonce |-> NonceAt(p, b + 1), buf |-> data, limit |-> limit],
                    [part |-> p, at |-> BoxEnd(p, b + 1), stop |-> stop], "nil")
    BY <2>6, <2>7, <2>8, <2>9, <2>10, Zenon
  <2> QED BY <2>5, <2>11, <1>1, Zenon
<1> QED BY <1>8, <1>9

----------------------------------------------------------------------------
(* Reading a range of a part.                                              *)

\* The decrypter holds m bytes from the q-th of the part on, after b boxes, and
\* its source ends behind the e-th box, where the z-th byte has been passed.
DecryptAt(d, s, p, q, z, b, m, e) ==
    /\ b <= Count(p) /\ z < Span(e)
    /\ q + m = Minimum(Span(b), PlainSize(file, p))
    /\ d = [nonce |-> NonceAt(p, b),
            buf   |-> Positions(PartAt(p - 1) + q, m),
            limit |-> z + 1 - q]
    /\ s = [part |-> p, at |-> BoxEnd(p, b), stop |-> Minimum(parts[p].len, At(e))]

\* The next byte read is the q-th of the part, the last one the z-th.
Reads(d, s, p, q, z) ==
    IF file.encrypted THEN \E b, m, e \in Nat : DecryptAt(d, s, p, q, z, b, m, e)
    ELSE s = [part |-> p, at |-> q, stop |-> z + 1]

\* What Faults returns is among these.
AnyFault(where) == {<<"no", -1>>} \cup (where \X (0..(BlockSize - 1)))

\* The header of a part is read, or its source fails.
LEMMA HeaderRead ==
    ASSUME PartsInv, file.encrypted, NEW p \in DOMAIN parts, NEW x \in Nat,
           NEW first, FileHeaderSize + first = At(x), NEW lost \in Int,
           NEW r, r = NewDecrypter(Open(p, 0, FileHeaderSize + first), lost)
    PROVE  \/ r.err = "fault" /\ lost >= 0
           \/ r = Result([nonce |-> parts[p].nonce, buf |-> << >>, limit |-> -1],
                         [part |-> p, at |-> At(0),
                          stop |-> Minimum(parts[p].len, At(x))], "nil")
<1>1. PICK len \in Nat : len = parts[p].len /\ FileHeaderSize <= len
  <2>1. PICK c \in Nat : c + 1 = Count(p) /\ c \in 0..(Count(p) - 1)
    <3>1. Count(p) \in Nat \ {0}
      BY PartLayout
    <3>2. /\ Count(p) - 1 \in Nat /\ (Count(p) - 1) + 1 = Count(p)
          /\ Count(p) - 1 \in 0..(Count(p) - 1)
      BY <3>1
    <3> QED BY <3>2
  <2>2. /\ parts[p].len = At(c) + BlockHeaderSize + DataOf(p, c)
        /\ DataOf(p, c) \in 1..BlockDataSize /\ parts[p].len \in Nat
    BY <2>1, BoxEnds
  <2>3. FileHeaderSize <= At(c) /\ At(c) \in Nat
    <3>1. c * BlockSize \in Nat
      BY CipherConstants
    <3> QED BY <3>1, CipherConstants DEF At
  <2> QED BY <2>2, <2>3, CipherConstants
<1>2. PICK z \in Nat : z = At(x) /\ FileHeaderSize <= z
  <2>1. x * BlockSize \in Nat
    BY CipherConstants
  <2> QED BY <2>1, CipherConstants DEF At
<1>3. PICK stop \in Nat : stop = Minimum(len, z) /\ FileHeaderSize <= stop
  BY <1>1, <1>2 DEF Minimum
<1>4. PICK s : s = [part |-> p, at |-> 0, stop |-> stop]
  OBVIOUS
<1>5. Open(p, 0, FileHeaderSize + first) = s
  <2>1. 0 + z = z
    OBVIOUS
  <2> QED BY <2>1, <1>1, <1>2, <1>3, <1>4 DEF Open
<1>6. Left(s) = stop
  BY <1>3, <1>4 DEF Left
<1>7. Minimum(FileHeaderSize, Left(s)) = FileHeaderSize /\ ~(FileHeaderSize < FileHeaderSize)
  BY <1>3, <1>6, CipherConstants DEF Minimum
<1>8. CASE lost >= 0
  BY <1>5, <1>8 DEF NewDecrypter, Result
<1>9. CASE ~(lost >= 0)
  <2>1. r = Result([NoDecrypter EXCEPT !.nonce = parts[p].nonce],
                   [s EXCEPT !.at = @ + FileHeaderSize], "nil")
    <3>1. r = NewDecrypter(s, lost)
      BY <1>5
    <3>2. r = Result([NoDecrypter EXCEPT !.nonce = parts[s.part].nonce],
                     [s EXCEPT !.at = @ + FileHeaderSize], "nil")
      BY <3>1, <1>7, <1>9 DEF NewDecrypter
    <3>3. s.part = p
      BY <1>4
    <3> QED BY <3>2, <3>3
  <2>2. [s EXCEPT !.at = @ + FileHeaderSize]
          = [part |-> p, at |-> At(0), stop |-> stop]
    BY <1>4, Places, CipherConstants
  <2>3. PICK d : d = NoDecrypter
    OBVIOUS
  <2>4. [d EXCEPT !.nonce = parts[p].nonce]
          = [nonce |-> parts[p].nonce, buf |-> << >>, limit |-> -1]
    BY <2>3 DEF NoDecrypter
  <2> QED BY <2>1, <2>2, <2>3, <2>4, <1>1, <1>2, <1>3
<1> QED BY <1>8, <1>9

\* newDecrypterSeek gives a decrypter of the range, or an error that a source
\* gave.
LEMMA SeekIs ==
    ASSUME PartsInv, file.encrypted, NEW p \in DOMAIN parts,
           NEW q \in Nat, NEW z \in Nat, q <= z, z < PlainSize(file, p),
           NEW fault \in AnyFault({"header", "seek"}),
           NEW r, r = NewDecrypterSeek(p, q, z - q + 1, fault)
    PROVE  \/ r.err = "fault" /\ fault # <<"no", -1>>
           \/ r.err = "nil" /\ Reads(r.d, r.s, p, q, z)
<1>1. PICK limit \in Nat \ {0} : limit = z - q + 1 /\ limit = z + 1 - q /\ q + limit = z + 1
  OBVIOUS
<1>2. PICK size \in Nat \ {0}, count \in Nat \ {0}, nonce \in Nonces :
         /\ size = PlainSize(file, p) /\ count = Count(p) /\ nonce = parts[p].nonce
  <2>1. PlainSize(file, p) \in Nat \ {0}
    BY PartsAre
  <2> QED BY <2>1, PartLayout
<1>3. PICK u : u = CalculateUnderlying(q, limit)
  OBVIOUS
<1>4. PICK k, x \in Nat :
         /\ u = [blocks |-> k, discard |-> q - Span(k), offset |-> At(k),
                 limit |-> (1 + x) * BlockSize]
         /\ k = q \div BlockDataSize
         /\ At(k) + (1 + x) * BlockSize = At(k + 1 + x)
         /\ q - Span(k) \in 0..(BlockDataSize - 1)
         /\ q + limit <= Span(k + 1 + x)
  BY <1>3, UnderlyingCovers
<1>5. PICK e \in Nat : e = k + 1 + x /\ k < e /\ z < Span(e)
  <2>1. k + 1 + x \in Nat /\ k < k + 1 + x
    OBVIOUS
  <2>2. Span(k + 1 + x) \in Nat
    BY <2>1, Places
  <2>3. z < Span(k + 1 + x)
    BY <2>2, <1>1, <1>4
  <2> QED BY <2>1, <2>3
<1>6. PICK l1, l2 \in {-1} \cup (0..(BlockSize - 1)) :
         /\ l1 = IF fault[1] = "header" THEN fault[2] ELSE -1
         /\ l2 = IF fault[1] = "seek" THEN fault[2] ELSE -1
         /\ l1 >= 0 \/ l2 >= 0 => fault # <<"no", -1>>
  BY DEF AnyFault
<1>7. CASE q = 0
  <2>1. k = 0 /\ At(k) = FileHeaderSize /\ At(k) = At(0)
    <3>1. 0 \div BlockDataSize = 0
      BY CipherConstants
    <3> QED BY <3>1, <1>4, <1>7, Places
  <2>2. FileHeaderSize + u.limit = At(e)
    BY <2>1, <1>4, <1>5
  <2>3. PICK head : head = NewDecrypter(Open(p, 0, FileHeaderSize + u.limit), l1)
    OBVIOUS
  <2>4. \/ head.err = "fault" /\ l1 >= 0
        \/ head = Result([nonce |-> nonce, buf |-> << >>, limit |-> -1],
                         [part |-> p, at |-> At(0),
                          stop |-> Minimum(parts[p].len, At(e))], "nil")
    BY <2>2, <2>3, <1>2, <1>6, CipherConstants, HeaderRead
  <2>5. r = IF head.err # "nil" THEN head ELSE [head EXCEPT !.d.limit = limit]
    BY <2>3, <1>1, <1>3, <1>6, <1>7 DEF NewDecrypterSeek
  <2>6. CASE head.err = "fault" /\ l1 >= 0
    BY <2>5, <2>6, <1>6
  <2>7. CASE head = Result([nonce |-> nonce, buf |-> << >>, limit |-> -1],
                           [part |-> p, at |-> At(0),
                            stop |-> Minimum(parts[p].len, At(e))], "nil")
    <3>1. head.err = "nil" /\ head.s = [part |-> p, at |-> At(0),
                                        stop |-> Minimum(parts[p].len, At(e))]
          /\ head.d = [nonce |-> nonce, buf |-> << >>, limit |-> -1]
      BY <2>7 DEF Result
    <3>2. r = [head EXCEPT !.d.limit = limit]
      BY <2>5, <3>1
    <3>3. r.err = "nil" /\ r.s = head.s
          /\ r.d = [nonce |-> nonce, buf |-> << >>, limit |-> limit]
      <4>1. PICK d : d = head.d
        OBVIOUS
      <4>2. [d EXCEPT !.limit = limit] = [nonce |-> nonce, buf |-> << >>, limit |-> limit]
        BY <4>1, <3>1
      <4>3. r = [head EXCEPT !.d = [d EXCEPT !.limit = limit]]
        BY <3>2, <4>1
      <4> QED BY <4>2, <4>3, <2>7 DEF Result
    <3>4. DecryptAt(r.d, r.s, p, q, z, 0, 0, e)
      <4>1. NonceAt(p, 0) = nonce /\ BoxEnd(p, 0) = At(0) /\ 0 <= Count(p)
        BY <1>2, PartLayout DEF BoxEnd
      <4>2. Positions(PartAt(p - 1) + q, 0) = << >>
        BY PartLayout, PositionsAre
      <4>3. q + 0 = Minimum(Span(0), PlainSize(file, p))
        BY <1>2, <1>7, Places DEF Minimum
      <4> QED BY <4>1, <4>2, <4>3, <3>1, <3>3, <1>1, <1>5 DEF DecryptAt
    <3> QED BY <3>3, <3>4, <1>5 DEF Reads
  <2> QED BY <2>4, <2>6, <2>7
<1>8. CASE q # 0
  <2>1. PICK head : head = NewDecrypter(Open(p, 0, FileHeaderSize + 0), l1)
    OBVIOUS
  <2>2. \/ head.err = "fault" /\ l1 >= 0
        \/ head = Result([nonce |-> nonce, buf |-> << >>, limit |-> -1],
                         [part |-> p, at |-> At(0),
                          stop |-> Minimum(parts[p].len, At(0))], "nil")
    <3>1. FileHeaderSize + 0 = At(0) /\ l1 \in Int
      BY Places, CipherConstants
    <3> QED BY <2>1, <3>1, <1>2, HeaderRead
  <2>3. PICK sought : sought = RangeSeek(head.d, p, q, limit, l2)
    OBVIOUS
  <2>4. r = IF head.err # "nil" THEN head ELSE sought
    BY <2>1, <2>3, <1>1, <1>6, <1>8 DEF NewDecrypterSeek
  <2>5. CASE head.err = "fault" /\ l1 >= 0
    BY <2>4, <2>5, <1>6
  <2>6. CASE head = Result([nonce |-> nonce, buf |-> << >>, limit |-> -1],
                           [part |-> p, at |-> At(0),
                            stop |-> Minimum(parts[p].len, At(0))], "nil")
    <3>1. head.err = "nil" /\ head.d = [nonce |-> nonce, buf |-> << >>, limit |-> -1]
      BY <2>6 DEF Result
    \* The byte is in box k, whose nonce is the nonce of the part plus k.
    <3>2. k \in 0..(count - 1) /\ NonceAt(p, k) = Add(nonce, k)
      <4>1. PICK c \in Nat : c = file.partSize /\ size <= c
        <5>1. file.partSize \in Nat \ {0}
          BY PartPlaces
        <5>2. size \in 1..file.partSize
          BY <1>2, PartLayout
        <5> QED BY <5>1, <5>2
      <4>2. k <= c \div BlockDataSize
        <5>1. PICK j \in Nat : j = c \div BlockDataSize /\ c < Span(j + 1)
          <6>1. /\ c \div BlockDataSize \in Nat
                /\ c % BlockDataSize \in 0..(BlockDataSize - 1)
                /\ c = Span(c \div BlockDataSize) + (c % BlockDataSize)
            BY <4>1, BoxOf
          <6>2. Span((c \div BlockDataSize) + 1) = Span(c \div BlockDataSize) + BlockDataSize
                /\ Span(c \div BlockDataSize) \in Nat
            BY <6>1, Places
          <6> QED BY <6>1, <6>2, CipherConstants
        <5>2. SUFFICES ASSUME j < k PROVE FALSE
          BY <5>1
        <5>3. Span(j + 1) <= Span(k) /\ Span(k) \in Nat /\ Span(j + 1) \in Nat
          <6>1. Span(j) + BlockDataSize <= Span(k)
            BY <5>2, PlacesGrow
          <6> QED BY <6>1, Places
        <5> QED BY <5>1, <5>3, <4>1, <1>2, <1>4
      <4>3. Fits(k)
        <5>1. Fits(c \div BlockDataSize) /\ c \div BlockDataSize \in Nat
          BY <4>1, StreamConstants, CipherConstants DEF PartsInv
        <5> QED BY <5>1, <4>2, FitsBelow
      <4>4. k < count
        <5>1. SUFFICES ASSUME count <= k PROVE FALSE
          OBVIOUS
        <5>2. size <= Span(count) /\ Span(count) \in Nat /\ Span(k) \in Nat
          BY <1>2, Boxes, Places DEF Count
        <5>3. Span(count) <= Span(k)
          <6>1. CASE count = k
            BY <6>1, <5>2
          <6>2. CASE count # k
            <7>1. Span(count) + BlockDataSize <= Span(k)
              BY <6>2, <5>1, PlacesGrow
            <7> QED BY <7>1, <5>2, CipherConstants
          <6> QED BY <6>1, <6>2
        <5> QED BY <5>2, <5>3, <1>2, <1>4
      <4>5. k \in 0..Count(p)
        BY <4>4, <1>2
      <4> QED BY <4>3, <4>4, <4>5, <1>2, PartLayout
    <3>3. PICK stop : stop = Minimum(parts[p].len, At(e))
      OBVIOUS
    <3>4. PICK filled : filled = FillBuffer([nonce |-> NonceAt(p, k), buf |-> << >>,
                                             limit |-> -1],
                                            [part |-> p, at |-> At(k), stop |-> stop], l2)
      OBVIOUS
    <3>5. PICK m \in 1..BlockDataSize :
             /\ m = DataOf(p, k)
             /\ Span(k) + m = Minimum(Span(k + 1), PlainSize(file, p))
      BY <3>2, <1>2, BoxEnds
    <3>6. \/ filled.err = "fault" /\ l2 >= 0
          \/ filled = Result([nonce |-> NonceAt(p, k + 1),
                              buf   |-> Positions(PartAt(p - 1) + Span(k), m),
                              limit |-> -1],
                             [part |-> p, at |-> BoxEnd(p, k + 1), stop |-> stop], "nil")
      <4>1. k \in 0..(Count(p) - 1) /\ k < e
        BY <3>2, <1>2, <1>5
      <4>2. \/ filled.err = "fault" /\ l2 >= 0
            \/ filled = Result([nonce |-> NonceAt(p, k + 1),
                                buf   |-> Positions(PartAt(p - 1) + Span(k), DataOf(p, k)),
                                limit |-> -1],
                               [part |-> p, at |-> BoxEnd(p, k + 1), stop |-> stop], "nil")
        BY <4>1, <3>3, <3>4, FillBufferIs
      <4> QED BY <4>2, <3>5
    <3>7. PICK g \in 0..(BlockDataSize - 1) : g = q - Span(k) /\ q = Span(k) + g
      BY <1>4, Places
    <3>8. sought = IF filled.err # "nil" THEN filled
                   ELSE IF g > Len(filled.d.buf)
                        THEN Result(filled.d, filled.s, "bad seek")
                   ELSE [filled EXCEPT !.d.buf = SubSeq(@, g + 1, Len(@)),
                                       !.d.limit = limit]
      <4>1. [head.d EXCEPT !.nonce = Add(@, u.blocks)]
              = [nonce |-> NonceAt(p, k), buf |-> << >>, limit |-> -1]
        <5>1. PICK d : d = head.d
          OBVIOUS
        <5>2. PICK f : f = [d EXCEPT !.nonce = Add(@, k)]
          OBVIOUS
        <5>3. f = [nonce |-> Add(nonce, k), buf |-> << >>, limit |-> -1]
          BY <5>1, <5>2, <3>1
        <5>4. u.blocks = k
          BY <1>4
        <5> QED BY <5>1, <5>2, <5>3, <5>4, <3>2
      <4>2. Open(p, u.offset, u.limit) = [part |-> p, at |-> At(k), stop |-> stop]
        <5>1. u.offset = At(k) /\ u.offset + u.limit = At(e)
          BY <1>4, <1>5
        <5> QED BY <5>1, <3>3 DEF Open
      <4>3. u.discard = g
        BY <1>4, <3>7
      <4>4. filled = FillBuffer([head.d EXCEPT !.nonce = Add(@, u.blocks)],
                                Open(p, u.offset, u.limit), l2)
        BY <4>1, <4>2, <3>4, Zenon
      <4>5. sought = IF filled.err # "nil" THEN filled
                     ELSE IF u.discard > Len(filled.d.buf)
                          THEN Result(filled.d, filled.s, "bad seek")
                     ELSE [filled EXCEPT !.d.buf = SubSeq(@, u.discard + 1, Len(@)),
                                         !.d.limit = limit]
        BY <4>4, <2>3, <1>3, Zenon DEF RangeSeek
      <4> QED BY <4>3, <4>5, Zenon
    <3>9. CASE filled.err = "fault" /\ l2 >= 0
      BY <3>8, <3>9, <2>4, <3>1, <1>6
    <3>10. CASE filled = Result([nonce |-> NonceAt(p, k + 1),
                                 buf   |-> Positions(PartAt(p - 1) + Span(k), m),
                                 limit |-> -1],
                                [part |-> p, at |-> BoxEnd(p, k + 1), stop |-> stop], "nil")
      <4>1. PICK a \in Int : a = PartAt(p - 1) + Span(k)
        <5>1. PartAt(p - 1) \in Nat /\ Span(k) \in Nat
          BY PartLayout, Places
        <5>2. PartAt(p - 1) + Span(k) \in Int
          BY <5>1
        <5> QED BY <5>2
      <4>2. PICK d, s : /\ d = [nonce |-> NonceAt(p, k + 1), buf |-> Positions(a, m),
                                limit |-> -1]
                        /\ s = [part |-> p, at |-> BoxEnd(p, k + 1), stop |-> stop]
        OBVIOUS
      <4>3. filled = [d |-> d, s |-> s, err |-> "nil"]
        BY <4>1, <4>2, <3>10 DEF Result
      <4>4. g < m
        <5>1. Span(k + 1) = Span(k) + BlockDataSize /\ Span(k) \in Nat
          BY Places
        <5> QED BY <5>1, <3>5, <3>7, <1>2, CipherConstants DEF Minimum
      <4>5. Len(Positions(a, m)) = m /\ m \in Nat /\ g \in 0..m
        BY <4>4, PositionsAre, CipherConstants
      <4>6. SubSeq(Positions(a, m), g + 1, m) = Positions(a + g, m - g)
        BY <4>5, PositionsFrom
      <4>7. sought = [filled EXCEPT !.d.buf = SubSeq(@, g + 1, Len(@)), !.d.limit = limit]
        <5>1. ~(g > Len(filled.d.buf)) /\ filled.err = "nil"
          BY <4>2, <4>3, <4>4, <4>5
        <5> QED BY <5>1, <3>8
      <4>8. sought = [d |-> [nonce |-> NonceAt(p, k + 1), buf |-> Positions(a + g, m - g),
                             limit |-> limit],
                      s |-> s, err |-> "nil"]
        <5>1. PICK f : f = [filled EXCEPT !.d.buf = SubSeq(@, g + 1, Len(@))]
          OBVIOUS
        <5>2. sought = [f EXCEPT !.d.limit = limit]
          BY <4>7, <5>1
        <5>3. PICK c : c = [d EXCEPT !.buf = SubSeq(@, g + 1, Len(@))]
          OBVIOUS
        <5>4. c = [nonce |-> NonceAt(p, k + 1), buf |-> Positions(a + g, m - g),
                   limit |-> -1]
          BY <5>3, <4>2, <4>5, <4>6
        <5>5. f = [d |-> c, s |-> s, err |-> "nil"]
          BY <5>1, <5>3, <4>3
        <5>6. PICK t : t = [c EXCEPT !.limit = limit]
          OBVIOUS
        <5>7. t = [nonce |-> NonceAt(p, k + 1), buf |-> Positions(a + g, m - g),
                   limit |-> limit]
          BY <5>4, <5>6
        <5>8. sought = [d |-> t, s |-> s, err |-> "nil"]
          BY <5>2, <5>5, <5>6
        <5> QED BY <5>7, <5>8
      <4>9. r = sought
        BY <2>4, <3>1
      <4>10. a + g = PartAt(p - 1) + q /\ q + (m - g) = Minimum(Span(k + 1), PlainSize(file, p))
             /\ m - g \in Nat
        <5>1. PartAt(p - 1) \in Nat /\ Span(k) \in Nat
          BY PartLayout, Places
        <5> QED BY <5>1, <4>1, <4>4, <3>5, <3>7
      <4>11. DecryptAt(r.d, r.s, p, q, z, k + 1, m - g, e)
        <5>1. k + 1 <= Count(p)
          BY <3>2, <1>2
        <5>2. r.d = [nonce |-> NonceAt(p, k + 1), buf |-> Positions(a + g, m - g),
                     limit |-> limit] /\ r.s = s
          BY <4>8, <4>9
        <5> QED BY <5>1, <5>2, <4>2, <4>10, <3>3, <1>1, <1>5 DEF DecryptAt
      <4>12. r.err = "nil"
        BY <4>8, <4>9
      <4>13. PICK b, i \in Nat : DecryptAt(r.d, r.s, p, q, z, b, i, e)
        <5>1. k + 1 \in Nat
          BY <1>4
        <5> QED BY <5>1, <4>10, <4>11, Zenon
      <4>14. e \in Nat
        BY <1>5
      <4>15. Reads(r.d, r.s, p, q, z)
        BY <4>13, <4>14, Zenon DEF Reads
      <4> QED BY <4>12, <4>15
    <3> QED BY <3>6, <3>9, <3>10
  <2> QED BY <2>2, <2>5, <2>6
<1> QED BY <1>7, <1>8


\* A read of a part fails only by its source; otherwise it gives bytes, in
\* order, and the end of the part's range with the last of them.
LEMMA PartReadIs ==
    ASSUME PartsInv, NEW p \in DOMAIN parts,
           NEW q \in Nat, NEW z \in Nat, q <= z, z < PlainSize(file, p),
           Reads(dec, src, p, q, z),
           NEW k \in Nat \ {0}, NEW fault \in AnyFault({"read"}),
           NEW r, r = PartRead(k, fault)
    PROVE  \/ r.err = "fault" /\ r.bytes = << >> /\ fault # <<"no", -1>>
           \/ \E n \in 1..(z + 1 - q) :
                 /\ r.bytes = Positions(PartAt(p - 1) + q, n)
                 /\ r.err = IF n = z + 1 - q THEN "eof" ELSE "nil"
                 /\ n < z + 1 - q => Reads(r.d, r.s, p, q + n, z)
<1>1. PICK limit \in Nat \ {0} : limit = z + 1 - q
  OBVIOUS
<1>2. PICK a \in Nat : a = PartAt(p - 1) /\ p - 1 \in Nat
  <2>1. p - 1 \in Nat
    BY PartsAre
  <2> QED BY <2>1, PartPlaces
<1>3. CASE ~file.encrypted
  <2>1. src = [part |-> p, at |-> q, stop |-> z + 1]
    BY <1>3 DEF Reads
  <2>2. CASE fault[1] # "no"
    BY <2>2, <1>3 DEF PartRead
  <2>3. CASE fault[1] = "no"
    <3>1. Left(src) = limit
      BY <2>1, <1>1 DEF Left
    <3>2. PICK n \in 1..limit : n = Minimum(k, Left(src))
      BY <3>1 DEF Minimum
    <3>3. r = [bytes |-> Positions((src.part - 1) * file.partSize + src.at, n),
               d |-> dec,
               s |-> [src EXCEPT !.at = @ + n],
               err |-> IF n = Left(src) THEN "eof" ELSE "nil"]
      BY <2>3, <3>2, <1>3 DEF PartRead
    <3>4. (src.part - 1) * file.partSize + src.at = PartAt(p - 1) + q
      BY <2>1 DEF PartAt
    <3>5. [src EXCEPT !.at = @ + n] = [part |-> p, at |-> q + n, stop |-> z + 1]
      BY <2>1
    <3>6. r.bytes = Positions(PartAt(p - 1) + q, n)
          /\ r.err = IF n = limit THEN "eof" ELSE "nil"
      BY <3>1, <3>3, <3>4
    <3>7. Reads(r.d, r.s, p, q + n, z)
      BY <3>3, <3>5, <1>3 DEF Reads
    <3> QED BY <3>6, <3>7, <1>1
  <2> QED BY <2>2, <2>3
<1>4. CASE file.encrypted
  <2>1. PICK b, m, e \in Nat : DecryptAt(dec, src, p, q, z, b, m, e)
    BY <1>4 DEF Reads
  <2>2. PICK size \in Nat \ {0} : size = PlainSize(file, p)
    BY PartsAre
  <2>3. PICK stop : stop = Minimum(parts[p].len, At(e))
    OBVIOUS
  <2>4. /\ b <= Count(p) /\ z < Span(e)
        /\ q + m = Minimum(Span(b), size)
        /\ dec = [nonce |-> NonceAt(p, b), buf |-> Positions(a + q, m), limit |-> limit]
        /\ src = [part |-> p, at |-> BoxEnd(p, b), stop |-> stop]
    BY <2>1, <2>2, <2>3, <1>1, <1>2 DEF DecryptAt
  <2>5. PICK filled : filled = IF dec.buf = << >> THEN FillBuffer(dec, src, fault[2])
                               ELSE Result(dec, src, "nil")
    OBVIOUS
  \* A decrypter with bytes, after a box was opened if it had none.
  <2>6. \/ filled.err = "fault" /\ fault # <<"no", -1>>
        \/ \E c \in Nat, l \in Nat \ {0} :
              /\ c <= Count(p) /\ q + l = Minimum(Span(c), size)
              /\ filled = [d |-> [nonce |-> NonceAt(p, c), buf |-> Positions(a + q, l),
                                  limit |-> limit],
                           s |-> [part |-> p, at |-> BoxEnd(p, c), stop |-> stop],
                           err |-> "nil"]
    <3>1. dec.buf = << >> <=> m = 0
      <4>1. a + q \in Int
        OBVIOUS
      <4> QED BY <4>1, <2>4, PositionsAre
    <3>2. CASE m # 0
      <4>1. filled = Result(dec, src, "nil")
        BY <3>1, <3>2, <2>5
      <4>2. filled = [d |-> dec, s |-> src, err |-> "nil"]
        BY <4>1 DEF Result
      <4> QED BY <4>2, <3>2, <2>4
    <3>3. CASE m = 0
      <4>1. q = Span(b) /\ Span(b) < size
        <5>1. Span(b) \in Nat
          BY Places
        <5>2. q = Minimum(Span(b), size)
          BY <3>3, <2>4
        <5> QED BY <5>1, <5>2, <2>2 DEF Minimum
      <4>2. Count(p) \in Nat /\ size <= Span(Count(p)) /\ Span(Count(p)) \in Nat
        BY <2>2, Boxes, Places DEF Count
      <4>3. b \in 0..(Count(p) - 1)
        <5>1. b # Count(p)
          BY <4>1, <4>2, Places
        <5> QED BY <5>1, <4>2, <2>4
      <4>4. b < e
        <5>1. SUFFICES ASSUME e <= b PROVE FALSE
          OBVIOUS
        <5>2. Span(e) \in Nat /\ Span(b) \in Nat
          BY Places
        <5>3. Span(e) <= Span(b)
          <6>1. CASE e = b
            BY <6>1, <5>2
          <6>2. CASE e # b
            <7>1. Span(e) + BlockDataSize <= Span(b)
              BY <6>2, <5>1, PlacesGrow
            <7> QED BY <7>1, <5>2, CipherConstants
          <6> QED BY <6>1, <6>2
        <5> QED BY <5>2, <5>3, <4>1, <2>4
      <4>5. PICK l \in Nat \ {0} : l = DataOf(p, b) /\ q + l = Minimum(Span(b + 1), size)
        <5>1. DataOf(p, b) \in 1..BlockDataSize
              /\ Span(b) + DataOf(p, b) = Minimum(Span(b + 1), PlainSize(file, p))
          BY <4>3, <1>4, BoxEnds
        <5> QED BY <5>1, <4>1, <2>2, CipherConstants
      <4>6. PICK lost \in {-1} \cup (0..(BlockSize - 1)) : 
                 lost = fault[2] /\ (lost >= 0 => fault # <<"no", -1>>)
        BY DEF AnyFault
      <4>7. BoxEnd(p, b) = At(b)
        BY <4>3, <1>4, BoxEnds
      <4>8. filled = FillBuffer([nonce |-> NonceAt(p, b), buf |-> Positions(a + q, m),
                                 limit |-> limit],
                                [part |-> p, at |-> At(b), stop |-> stop], lost)
        BY <3>1, <3>3, <4>6, <4>7, <2>4, <2>5
      <4>9. \/ filled.err = "fault" /\ lost >= 0
            \/ filled = Result([nonce |-> NonceAt(p, b + 1),
                                buf   |-> Positions(PartAt(p - 1) + Span(b), DataOf(p, b)),
                                limit |-> limit],
                               [part |-> p, at |-> BoxEnd(p, b + 1), stop |-> stop], "nil")
        BY <4>3, <4>4, <4>8, <2>3, <1>4, FillBufferIs
      <4>10. b + 1 \in Nat /\ b + 1 <= Count(p)
        BY <4>2, <4>3
      <4> QED BY <4>1, <4>5, <4>6, <4>9, <4>10, <1>2 DEF Result
    <3> QED BY <3>2, <3>3
  <2>7. CASE filled.err = "fault" /\ fault # <<"no", -1>>
    <3>1. r = [bytes |-> << >>, d |-> filled.d, s |-> filled.s, err |-> filled.err]
      BY <2>5, <2>7, <1>4 DEF PartRead
    <3> QED BY <3>1, <2>7
  <2>8. ASSUME NEW c \in Nat, NEW l \in Nat \ {0},
               c <= Count(p), q + l = Minimum(Span(c), size),
               filled = [d |-> [nonce |-> NonceAt(p, c), buf |-> Positions(a + q, l),
                                limit |-> limit],
                         s |-> [part |-> p, at |-> BoxEnd(p, c), stop |-> stop],
                         err |-> "nil"]
        PROVE  \E n \in 1..limit :
                 /\ r.bytes = Positions(a + q, n)
                 /\ r.err = IF n = limit THEN "eof" ELSE "nil"
                 /\ n < limit => Reads(r.d, r.s, p, q + n, z)
    <3>1. PICK d : d = filled.d
      OBVIOUS
    <3>2. d = [nonce |-> NonceAt(p, c), buf |-> Positions(a + q, l), limit |-> limit]
          /\ filled.err = "nil"
          /\ filled.s = [part |-> p, at |-> BoxEnd(p, c), stop |-> stop]
      BY <3>1, <2>8
    <3>3. Len(d.buf) = l /\ d.limit = limit
      <4>1. a + q \in Int
        OBVIOUS
      <4> QED BY <4>1, <3>2, PositionsAre
    <3>4. PICK n \in 1..limit : n = Minimum(k, Minimum(Len(d.buf), d.limit)) /\ n \in 0..l
      BY <3>3 DEF Minimum
    <3>5. PICK f : f = [d EXCEPT !.buf = SubSeq(@, n + 1, Len(@)), !.limit = @ - n]
      OBVIOUS
    <3>6. r = [bytes |-> SubSeq(d.buf, 1, n), d |-> f, s |-> filled.s,
               err |-> IF f.limit = 0 THEN "eof" ELSE "nil"]
      <4>1. /\ n = Minimum(k, Minimum(Len(filled.d.buf), filled.d.limit))
            /\ f = [filled.d EXCEPT !.buf = SubSeq(@, n + 1, Len(@)), !.limit = @ - n]
        BY <3>1, <3>4, <3>5, Zenon
      <4>2. r = [bytes |-> SubSeq(filled.d.buf, 1, n), d |-> f, s |-> filled.s,
                 err |-> IF f.limit = 0 THEN "eof" ELSE "nil"]
        BY <4>1, <3>2, <2>5, <1>4, Zenon DEF PartRead
      <4> QED BY <4>2, <3>1, Zenon
    <3>7. /\ SubSeq(d.buf, 1, n) = Positions(a + q, n)
          /\ f = [nonce |-> NonceAt(p, c), buf |-> Positions(a + q + n, l - n),
                  limit |-> limit - n]
      <4>1. PICK w \in Int : w = a + q
        OBVIOUS
      <4>2. d = [nonce |-> NonceAt(p, c), buf |-> Positions(w, l), limit |-> limit]
        BY <4>1, <3>2
      <4>3. l \in Nat /\ n \in 0..l /\ n \in Nat
        BY <3>4
      <4>4. /\ SubSeq(Positions(w, l), n + 1, l) = Positions(w + n, l - n)
            /\ SubSeq(Positions(w, l), 1, n) = Positions(w, n)
            /\ Len(Positions(w, l)) = l
        <5>1. SubSeq(Positions(w, l), n + 1, l) = Positions(w + n, l - n)
          BY <4>3, PositionsFrom
        <5>2. SubSeq(Positions(w, l), 1, n) = Positions(w, n)
          BY <4>3, PositionsTo
        <5>3. Len(Positions(w, l)) = l
          BY <4>3, PositionsAre
        <5> QED BY <5>1, <5>2, <5>3
      <4>5. f = [nonce |-> NonceAt(p, c), buf |-> Positions(w + n, l - n),
                 limit |-> limit - n]
        BY <4>2, <4>4, <3>5
      <4>6. SubSeq(d.buf, 1, n) = Positions(w, n)
        BY <4>2, <4>4
      <4> QED BY <4>1, <4>5, <4>6
    <3>8. r.bytes = Positions(a + q, n) /\ r.err = IF n = limit THEN "eof" ELSE "nil"
      BY <3>6, <3>7
    <3>9. DecryptAt(r.d, r.s, p, q + n, z, c, l - n, e)
      <4>1. q + n + (l - n) = q + l /\ a + q + n = a + (q + n) /\ limit - n = z + 1 - (q + n)
        BY <1>1
      <4>2. r.d = [nonce |-> NonceAt(p, c), buf |-> Positions(a + (q + n), l - n),
                   limit |-> z + 1 - (q + n)]
        BY <4>1, <3>6, <3>7
      <4>3. r.s = [part |-> p, at |-> BoxEnd(p, c), stop |-> stop]
        BY <3>2, <3>6
      <4>4. q + n + (l - n) = Minimum(Span(c), PlainSize(file, p))
        BY <4>1, <2>2, <2>8
      <4> QED BY <4>2, <4>3, <4>4, <2>3, <2>4, <2>8, <1>2 DEF DecryptAt
    <3>10. l - n \in Nat
      BY <3>4
    <3>11. Reads(r.d, r.s, p, q + n, z)
      BY <3>9, <3>10, <1>4 DEF Reads
    <3> QED BY <3>8, <3>11
  <2> QED BY <2>6, <2>7, <2>8, <1>1, <1>2
<1> QED BY <1>3, <1>4

----------------------------------------------------------------------------
(* The inductive invariant: where a reader is when it is asked for more,   *)
(* and what the client has got.                                            *)

\* A reader that has read bd of the range from a to z: the next byte is the
\* q-th of the part of its i-th range.
Copying(R, i, rest, d, s, bd, a, z) ==
    /\ RangesOK(R, a, z)
    /\ i \in 1..Len(R) /\ rest \in Nat \ {0}
    /\ \E n, q \in Nat :
          /\ bd = Positions(a, n) /\ n + rest = z - a + 1
          /\ R[i].start <= q /\ q <= R[i].end
          /\ a + n = PartAt(R[i].part - 1) + q
          /\ Reads(d, s, R[i].part, q, R[i].end)

CopyInv == Copying(ranges, pos, remaining, dec, src, body, start, end)

\* The bytes from a to z are those that the header asks for.
Wants(a, z) ==
    /\ a \in Nat /\ z \in Nat
    /\ a <= z /\ z < file.size
    /\ Wanted = a..z

Served(bd, n, a, z) ==
    /\ Wants(a, z)
    /\ n \in Nat /\ n <= z - a + 1
    /\ bd = Positions(a, n)

\* What has come of a request, given its status st, its range from a to z, the
\* body bd, the number fl of failures, and what the pool was told.
Delivered(st, a, z, bd, fl, tl) ==
    /\ st \in {"new", "respond", "copy", "done", "failed", "panic"}
    /\ a \in Nat /\ z \in Nat
    /\ fl \in 0..MaxFaults /\ tl \subseteq {"failure", "success"}
    /\ st \in {"respond", "copy"} => Wants(a, z)
    /\ st \in {"new", "respond"} => bd = << >> /\ tl = {}
    /\ st = "copy" => "success" \notin tl
    /\ st = "failed" => fl > 0
    /\ bd \in {<< >>, <<Text>>} \/ \E n \in Nat : Served(bd, n, a, z)
    /\ "success" \in tl => Served(bd, z - a + 1, a, z)
    /\ "failure" \in tl /\ ~file.encrypted => st = "failed"

StreamInv ==
    /\ PartsInv /\ header \in Headers
    /\ code \in {0, 200, 206, 400, 416} /\ pos \in Nat /\ remaining \in Nat
    /\ Delivered(status, start, end, body, faults, told)
    /\ status = "copy" => CopyInv

\* The request does not change, and so the invariant is about the other variables.
LEMMA SameRequest ==
    ASSUME StreamInv, UNCHANGED request,
           code' \in {0, 200, 206, 400, 416}, pos' \in Nat, remaining' \in Nat,
           Delivered(status', start', end', body', faults', told'),
           status' = "copy" =>
              Copying(ranges', pos', remaining', dec', src', body', start', end')
    PROVE  StreamInv'
<1>1. file' = file /\ header' = header /\ parts' = parts
  BY DEF request
<1>2. PartsInv' /\ (header \in Headers)'
  BY <1>1 DEF StreamInv, PartsInv
<1>3. Delivered(status, start, end, body, faults, told)'
  <2>1. Wants(start, end)' <=> Wants(start', end')
    BY <1>1 DEF Wants, Wanted, Asked
  <2>2. \A n : Served(body, n, start, end)' <=> Served(body', n, start', end')
    BY <2>1, <1>1 DEF Served
  <2>3. Served(body, end - start + 1, start, end)' <=> Served(body', end' - start' + 1, start', end')
    BY <2>1, <1>1 DEF Served
  <2> QED BY <2>1, <2>2, <2>3, <1>1 DEF Delivered
<1>4. (status = "copy" => CopyInv)'
  <2>1. SUFFICES ASSUME status' = "copy" PROVE CopyInv'
    OBVIOUS
  <2>2. Copying(ranges', pos', remaining', dec', src', body', start', end')
    BY <2>1
  <2> QED BY <2>2, <1>1 DEF CopyInv, Copying, RangesOK, Inside, RangeFrom, RangeTo, PartAt, Reads,
              DecryptAt, NonceAt, BoxEnd, Count, PlainSize
<1> QED BY <1>2, <1>3, <1>4 DEF StreamInv

LEMMA InitStream == Init => StreamInv
BY StreamConstants DEF Init, StreamInv, PartsInv, Delivered

LEMMA FilesStreamStep ==
    ASSUME StreamInv, FilesStream
    PROVE  StreamInv'
<1>1. /\ status = "new" /\ body = << >> /\ told = {} /\ faults \in 0..MaxFaults
      /\ body' = body /\ told' = told /\ faults' = faults /\ UNCHANGED request
      /\ pos' \in Nat /\ remaining' \in Nat /\ start \in Nat /\ end \in Nat
  BY DEF StreamInv, Delivered, FilesStream, reader
<1>5. code' \in {0, 200, 206, 400, 416}
  BY DEF FilesStream, Reply
<1>2. file.size \in Nat /\ header \in Headers
  BY PartPlaces DEF StreamInv
<1>3. CASE status' = "respond"
  <2>1. file.size # 0
    BY <1>3 DEF FilesStream, Reply
  <2>2. file.size \in Nat \ {0}
    BY <1>2, <2>1
  <2>3. \/ header = NoHeader /\ start' = 0 /\ end' = file.size - 1
        \/ /\ header \notin {NoHeader, BadHeader}
           /\ ~(\E i \in DOMAIN header : header[i].lo = NoDash)
           /\ Cardinality(Parse(header, file.size)) = 1
           /\ \E i \in Parse(header, file.size) :
                 LET r == Resolve(header[i], file.size)
                 IN start' = r.start /\ end' = r.end
    BY <1>3, <2>1, StreamAssumption DEF FilesStream, Reply, StreamAssumption
  <2>4. ASSUME header = NoHeader, start' = 0, end' = file.size - 1
        PROVE  Wants(start', end')
    <3>1. Wanted = 0..(file.size - 1)
      BY <1>2, <2>2, <2>4, WantedIs
    <3> QED BY <3>1, <2>2, <2>4 DEF Wants
  <2>5. ASSUME header \notin {NoHeader, BadHeader},
               ~(\E i \in DOMAIN header : header[i].lo = NoDash),
               Cardinality(Parse(header, file.size)) = 1,
               \E i \in Parse(header, file.size) :
                   LET r == Resolve(header[i], file.size)
                   IN start' = r.start /\ end' = r.end
        PROVE  Wants(start', end')
    <3>1. PICK i \in Parse(header, file.size) :
             LET r == Resolve(header[i], file.size)
             IN start' = r.start /\ end' = r.end
      BY <2>5
    <3>2. PICK r : r = Resolve(header[i], file.size)
      OBVIOUS
    <3>3. /\ r.start \in Nat /\ r.end \in Nat
          /\ r.start <= r.end /\ r.end < file.size
          /\ Wanted = r.start .. r.end
      BY <1>2, <2>2, <2>5, <3>2, WantedIs, Zenon
    <3> QED BY <3>1, <3>2, <3>3 DEF Wants
  <2>6. Wants(start', end')
    BY <2>3, <2>4, <2>5
  <2>7. Delivered(status', start', end', body', faults', told')
    BY <1>1, <1>3, <2>6 DEF Delivered, Wants
  <2> QED BY <1>1, <1>3, <1>5, <2>7, SameRequest
<1>4. CASE status' # "respond"
  <2>1. status' \in {"done", "panic"} /\ start' = start /\ end' = end
    BY <1>4, StreamAssumption DEF FilesStream, Reply, StreamAssumption
  <2>2. Delivered(status', start', end', body', faults', told')
    BY <1>1, <2>1 DEF Delivered
  <2> QED BY <1>1, <1>5, <2>1, <2>2, SameRequest
<1> QED BY <1>3, <1>4


LEMMA RespondSteps ==
    ASSUME StreamInv, HeadOnly \/ PartsFail
    PROVE  StreamInv'
<1>1. /\ status = "respond" /\ body = << >> /\ told = {} /\ faults \in 0..MaxFaults
      /\ Wants(start, end) /\ UNCHANGED request
  BY DEF StreamInv, Delivered, HeadOnly, PartsFail
<1>4. code' \in {0, 200, 206, 400, 416} /\ pos' \in Nat /\ remaining' \in Nat
  BY DEF StreamInv, HeadOnly, PartsFail, reader
<1>2. CASE HeadOnly
  <2>1. Delivered(status', start', end', body', faults', told')
    BY <1>1, <1>2 DEF Delivered, HeadOnly, Wants
  <2>2. status' # "copy"
    BY <1>2 DEF HeadOnly
  <2> QED BY <1>1, <1>4, <2>1, <2>2, SameRequest
<1>3. CASE PartsFail
  <2>1. /\ status' = "failed" /\ body' = <<Text>> /\ faults' = faults + 1
        /\ faults < MaxFaults
        /\ told' \in {{}, {"failure"}} /\ UNCHANGED <<start, end>>
    BY <1>1, <1>3 DEF PartsFail
  <2>3. faults + 1 \in 0..MaxFaults /\ faults + 1 > 0
    BY <1>1, <2>1, StreamConstants
  <2>2. Delivered(status', start', end', body', faults', told')
    BY <1>1, <2>1, <2>3 DEF Delivered, Wants
  <2> QED BY <1>1, <1>4, <2>1, <2>2, SameRequest
<1> QED BY <1>2, <1>3

\* getPartReader gives a reader of the range or an error that a source gave.
LEMMA PartOpened ==
    ASSUME PartsInv, NEW r, Inside(r), NEW i, ranges'[i] = r, faults \in 0..MaxFaults,
           NEW fault \in Faults({"header", "seek"}), GetPartReader(i, fault)
    PROVE  \/ status' = "failed" /\ faults' = faults + 1 /\ faults < MaxFaults
           \/ /\ status' = "copy" /\ faults' = faults
              /\ Reads(dec', src', r.part, r.start, r.end)
<1>1. PICK p \in DOMAIN parts, q \in Nat, z \in Nat :
         /\ p = r.part /\ q = r.start /\ z = r.end
         /\ q <= z /\ z < PlainSize(file, p)
  BY DEF Inside
<1>2. CASE ~file.encrypted
  BY <1>2 DEF GetPartReader, Reads
<1>3. CASE file.encrypted
  <2>1. PICK opened : opened = NewDecrypterSeek(p, q, z - q + 1, fault)
    OBVIOUS
  <2>2. /\ dec' = opened.d /\ src' = opened.s
        /\ faults' = faults + (IF opened.err = "fault" THEN 1 ELSE 0)
        /\ status' = IF opened.err = "nil" THEN "copy" ELSE "failed"
    BY <1>1, <1>3, <2>1 DEF GetPartReader
  <2>3. fault \in AnyFault({"header", "seek"})
    BY DEF Faults, AnyFault
  <2>4. \/ opened.err = "fault" /\ fault # <<"no", -1>>
        \/ opened.err = "nil" /\ Reads(opened.d, opened.s, p, q, z)
    BY <1>1, <1>3, <2>1, <2>3, SeekIs
  <2>5. fault # <<"no", -1>> => faults < MaxFaults
    BY StreamConstants DEF Faults
  <2> QED BY <1>1, <2>2, <2>4, <2>5
<1> QED BY <1>2, <1>3

\* A reader at the start of a range.
LEMMA AtRange ==
    ASSUME NEW R, NEW a \in Nat, NEW z \in Nat, a <= z, RangesOK(R, a, z),
           NEW i \in 1..Len(R), NEW n \in Nat, a + n = RangeFrom(R[i]), n <= z - a,
           NEW d, NEW s, Reads(d, s, R[i].part, R[i].start, R[i].end)
    PROVE  Copying(R, i, z - a + 1 - n, d, s, Positions(a, n), a, z)
<1>1. z - a + 1 - n \in Nat \ {0} /\ n + (z - a + 1 - n) = z - a + 1
  OBVIOUS
<1>2. R[i].start \in Nat /\ R[i].start <= R[i].start /\ R[i].start <= R[i].end
  BY DEF RangesOK, Inside
<1>3. a + n = PartAt(R[i].part - 1) + R[i].start
  BY DEF RangeFrom
<1> QED BY <1>1, <1>2, <1>3 DEF Copying

LEMMA NewReaderStep ==
    ASSUME StreamInv, NewReader
    PROVE  StreamInv'
<1>1. /\ status = "respond" /\ body = << >> /\ told = {} /\ faults \in 0..MaxFaults
      /\ Wants(start, end) /\ PartsInv
  BY DEF StreamInv, Delivered, NewReader
<1>2. PICK a, z \in Nat : a = start /\ z = end /\ a <= z /\ z < file.size
  BY <1>1 DEF Wants
<1>3. PICK R : R = ranges' /\ R = CalculatePartByteRanges
  BY DEF NewReader
<1>4. RangesOK(R, a, z)
  BY <1>1, <1>2, <1>3, RangesAre
<1>5. /\ pos' = 1 /\ remaining' = z - a + 1 /\ start' = a /\ end' = z
      /\ UNCHANGED request /\ told' = Told
      /\ body' = IF status' = "failed" THEN <<Text>> ELSE << >>
  BY <1>1, <1>2 DEF NewReader
<1>11. code' \in {0, 200, 206, 400, 416} /\ pos' \in Nat /\ remaining' \in Nat
  BY <1>2, <1>5 DEF StreamInv, NewReader
<1>6. 1 \in 1..Len(R) /\ Inside(R[1]) /\ RangeFrom(R[1]) = a
  <2>1. 1 \in 1..Len(R)
    BY <1>4 DEF RangesOK
  <2> QED BY <2>1, <1>4 DEF RangesOK
<1>7. \/ status' = "failed" /\ faults' = faults + 1 /\ faults < MaxFaults
      \/ /\ status' = "copy" /\ faults' = faults
         /\ Reads(dec', src', R[1].part, R[1].start, R[1].end)
  <2>1. PICK fault \in Faults({"header", "seek"}) : GetPartReader(1, fault)
    BY DEF NewReader
  <2> QED BY <2>1, <1>1, <1>3, <1>6, PartOpened
<1>8. Wants(start', end')
  BY <1>1, <1>2, <1>5
<1>9. CASE status' = "failed" /\ faults' = faults + 1 /\ faults < MaxFaults
  <2>1. told' = {"failure"} /\ body' = <<Text>>
    BY <1>1, <1>5, <1>9 DEF Told
  <2>3. faults + 1 \in 0..MaxFaults /\ faults + 1 > 0
    BY <1>1, <1>9, StreamConstants
  <2>2. Delivered(status', start', end', body', faults', told')
    BY <1>8, <1>9, <2>1, <2>3 DEF Delivered, Wants
  <2> QED BY <1>5, <1>9, <1>11, <2>2, SameRequest
<1>10. CASE /\ status' = "copy" /\ faults' = faults
            /\ Reads(dec', src', R[1].part, R[1].start, R[1].end)
  <2>1. told' = {} /\ body' = << >>
    BY <1>1, <1>5, <1>10 DEF Told
  <2>2. Delivered(status', start', end', body', faults', told')
    BY <1>1, <1>8, <1>10, <2>1 DEF Delivered, Wants
  <2>3. Copying(R, 1, z - a + 1 - 0, dec', src', Positions(a, 0), a, z)
    <3>1. a + 0 = RangeFrom(R[1]) /\ 0 <= z - a
      BY <1>2, <1>6
    <3> QED BY <3>1, <1>2, <1>4, <1>6, <1>10, AtRange
  <2>4. z - a + 1 - 0 = z - a + 1 /\ Positions(a, 0) = << >>
    BY PositionsAre
  <2>5. Copying(ranges', pos', remaining', dec', src', body', start', end')
    BY <2>1, <2>3, <2>4, <1>3, <1>5
  <2> QED BY <1>5, <1>11, <2>2, <2>5, SameRequest
<1> QED BY <1>7, <1>9, <1>10

LEMMA DroppedFailsStep ==
    ASSUME StreamInv, DroppedFails
    PROVE  StreamInv'
<1>1. /\ status = "copy" /\ file.encrypted /\ status' = "copy"
      /\ faults' = faults + 1 /\ told' = told \cup {"failure"}
      /\ UNCHANGED <<request, code, start, end, reader, body>> /\ faults < MaxFaults
  BY DEF DroppedFails
<1>4. faults \in 0..MaxFaults
  BY DEF StreamInv, Delivered
<1>5. faults + 1 \in 0..MaxFaults /\ faults + 1 > 0
  BY <1>1, <1>4, StreamConstants
<1>2. Delivered(status', start', end', body', faults', told')
  BY <1>1, <1>5 DEF StreamInv, Delivered
<1>6. code' \in {0, 200, 206, 400, 416} /\ pos' \in Nat /\ remaining' \in Nat
  BY <1>1 DEF StreamInv, reader
<1>3. Copying(ranges', pos', remaining', dec', src', body', start', end')
  BY <1>1 DEF StreamInv, CopyInv, reader
<1> QED BY <1>1, <1>2, <1>3, <1>6, SameRequest

LEMMA CopyStep ==
    ASSUME StreamInv, NEW k \in ReadSizes, Copy(k)
    PROVE  StreamInv'
<1>1. /\ status = "copy" /\ faults \in 0..MaxFaults /\ "success" \notin told
      /\ told \subseteq {"failure", "success"}
      /\ Delivered(status, start, end, body, faults, told)
      /\ Wants(start, end) /\ PartsInv /\ CopyInv
  BY DEF StreamInv, Delivered, Copy
<1>2. PICK a, z \in Nat : a = start /\ z = end /\ a <= z /\ z < file.size
  BY <1>1 DEF Wants
<1>3. PICK R, i, rest :
         /\ R = ranges /\ i = pos /\ rest = remaining
         /\ RangesOK(R, a, z) /\ i \in 1..Len(R) /\ rest \in Nat \ {0}
  BY <1>1, <1>2 DEF CopyInv, Copying
<1>4. PICK n, q \in Nat :
         /\ body = Positions(a, n) /\ n + rest = z - a + 1
         /\ R[i].start <= q /\ q <= R[i].end
         /\ a + n = PartAt(R[i].part - 1) + q
         /\ Reads(dec, src, R[i].part, q, R[i].end)
  BY <1>1, <1>2, <1>3 DEF CopyInv, Copying
<1>5. PICK p \in DOMAIN parts, last \in Nat :
         /\ p = R[i].part /\ last = R[i].end /\ last < PlainSize(file, p)
         /\ PartAt(p - 1) \in Nat
  <2>1. Inside(R[i])
    BY <1>3 DEF RangesOK
  <2> QED BY <2>1, <1>1, PartPlaces DEF Inside
\* The range ends where the file's does, or before it.
<1>6. /\ PartAt(p - 1) + last <= z
      /\ i = Len(R) => PartAt(p - 1) + last = z
      /\ i < Len(R) => PartAt(p - 1) + last < z
                       /\ RangeFrom(R[i + 1]) = PartAt(p - 1) + last + 1
  <2>1. i < Len(R) \/ i = Len(R)
    BY <1>3 DEF RangesOK
  <2>2. RangeTo(R[i]) = PartAt(p - 1) + last
    BY <1>5 DEF RangeTo
  <2>3. i = Len(R) => RangeTo(R[i]) = z
    BY <1>3 DEF RangesOK
  <2>4. i < Len(R) => RangeTo(R[i]) < z /\ RangeFrom(R[i + 1]) = RangeTo(R[i]) + 1
    BY <1>3 DEF RangesOK
  <2> QED BY <2>1, <2>2, <2>3, <2>4, <1>5
<1>13. PICK c \in Nat :
          /\ c = PartAt(p - 1) /\ a + n = c + q /\ q <= last
          /\ c + last <= z /\ n + rest = z - a + 1 /\ rest \in Nat \ {0}
          /\ i = Len(R) => c + last = z
          /\ i < Len(R) => c + last < z /\ RangeFrom(R[i + 1]) = c + last + 1
  BY <1>3, <1>4, <1>5, <1>6
<1>7. PICK fault, r :
         /\ fault \in Faults({"read"})
         /\ r = PartRead(k, fault)
         /\ body' = body \o r.bytes
         /\ remaining' = rest - Len(r.bytes)
         /\ \/ /\ rest - Len(r.bytes) = 0 /\ status' = "done" /\ UNCHANGED <<pos, faults>>
            \/ /\ rest - Len(r.bytes) > 0 /\ r.err = "nil"
               /\ src' = r.s /\ dec' = r.d /\ UNCHANGED <<status, pos, faults>>
            \/ /\ rest - Len(r.bytes) > 0 /\ r.err = "eof" /\ i # Len(R)
               /\ pos' = i + 1
               /\ \E f \in Faults({"header", "seek"}) : GetPartReader(i + 1, f)
            \/ /\ rest - Len(r.bytes) # 0
               /\ ~(rest - Len(r.bytes) > 0 /\ r.err = "nil")
               /\ ~(rest - Len(r.bytes) > 0 /\ r.err = "eof" /\ i # Len(R))
               /\ status' = "failed" /\ UNCHANGED pos
               /\ faults' = faults + (IF r.err = "fault" THEN 1 ELSE 0)
  BY <1>3 DEF Copy
<1>8. ranges' = R /\ start' = a /\ end' = z /\ told' = Told /\ UNCHANGED request
  BY <1>2, <1>3 DEF Copy
<1>14. code' \in {0, 200, 206, 400, 416} /\ i \in Nat /\ i + 1 \in Nat
  <2>1. i \in 1..Len(R) /\ Len(R) \in Nat
    BY <1>3 DEF RangesOK
  <2> QED BY <2>1 DEF Copy, StreamInv
<1>9. Wants(start', end')
  BY <1>1, <1>2, <1>8
<1>10. \/ r.err = "fault" /\ r.bytes = << >> /\ faults < MaxFaults
       \/ \E m \in 1..(last + 1 - q) :
             /\ r.bytes = Positions(PartAt(p - 1) + q, m)
             /\ r.err = IF m = last + 1 - q THEN "eof" ELSE "nil"
             /\ m < last + 1 - q => Reads(r.d, r.s, p, q + m, last)
  <2>1. fault \in AnyFault({"read"})
    BY <1>7 DEF Faults, AnyFault
  <2>2. k \in Nat \ {0}
    BY StreamConstants
  <2>3. fault # <<"no", -1>> => faults < MaxFaults
    BY <1>1, <1>7, StreamConstants DEF Faults
  <2> QED BY <2>1, <2>2, <2>3, <1>1, <1>4, <1>5, <1>7, PartReadIs
<1>11. CASE r.err = "fault" /\ r.bytes = << >> /\ faults < MaxFaults
  <2>1. Len(r.bytes) = 0 /\ rest - Len(r.bytes) = rest /\ rest > 0
    BY <1>3, <1>11
  <2>2. body \o << >> = body
    <3>1. body \in Seq(Int)
      BY <1>4, PositionsAre
    <3> QED BY <3>1
  <2>3. /\ status' = "failed" /\ faults' = faults + 1 /\ body' = body
        /\ pos' = i /\ remaining' = rest
    BY <2>1, <2>2, <1>3, <1>7, <1>11
  <2>6. faults + 1 \in 0..MaxFaults /\ faults + 1 > 0
    BY <1>1, <1>11, StreamConstants
  <2>4. told' = told \cup {"failure"}
    BY <2>3, <1>1, <1>8 DEF Told
  <2>5. Delivered(status', start', end', body', faults', told')
    BY <2>3, <2>4, <2>6, <1>1, <1>2, <1>8 DEF Delivered
  <2> QED BY <2>3, <2>5, <1>3, <1>8, <1>14, SameRequest
<1>12. ASSUME NEW m \in 1..(last + 1 - q),
              r.bytes = Positions(PartAt(p - 1) + q, m),
              r.err = IF m = last + 1 - q THEN "eof" ELSE "nil",
              m < last + 1 - q => Reads(r.d, r.s, p, q + m, last)
       PROVE  StreamInv'
  <2>1. m \in Nat /\ m # 0 /\ m <= rest
    BY <1>13
  <2>2. Len(r.bytes) = m /\ body' = Positions(a, n + m)
    <3>1. r.bytes = Positions(a + n, m)
      BY <1>12, <1>13
    <3>2. a + n \in Int
      OBVIOUS
    <3>3. Len(Positions(a + n, m)) = m
      BY <2>1, <3>2, PositionsAre
    <3>4. Positions(a, n) \o Positions(a + n, m) = Positions(a, n + m)
      <4>1. a \in Int /\ n \in Nat /\ m \in Nat
        BY <2>1
      <4> QED BY <4>1, PositionsJoin, Zenon
    <3> QED BY <3>1, <3>3, <3>4, <1>4, <1>7
  <2>3. n + m \in Nat /\ n + m <= z - a + 1 /\ remaining' = rest - m
        /\ (n + m) + (rest - m) = z - a + 1 /\ a + (n + m) = PartAt(p - 1) + (q + m)
    <3>1. remaining' = rest - m
      BY <2>2, <1>7
    <3>2. n + m \in Nat /\ n + m <= z - a + 1 /\ (n + m) + (rest - m) = z - a + 1
      BY <2>1, <1>13
    <3>3. a + (n + m) = c + (q + m)
      BY <2>1, <1>13
    <3> QED BY <3>1, <3>2, <3>3, <1>13
  <2>4. Served(body', n + m, start', end')
    BY <2>2, <2>3, <1>8, <1>9 DEF Served
  <2>5. CASE rest - m = 0
    <3>1. status' = "done" /\ faults' = faults /\ pos' = i /\ remaining' \in Nat
      BY <2>2, <2>5, <1>3, <1>7
    <3>2. told' = told \cup {"success"}
      BY <3>1, <1>1, <1>8 DEF Told
    <3>3. Served(body', end' - start' + 1, start', end')
      <4>1. n + m = z - a + 1
        BY <2>3, <2>5
      <4> QED BY <4>1, <2>4, <1>8
    <3>4. Delivered(status', start', end', body', faults', told')
      BY <3>1, <3>2, <3>3, <2>4, <1>1, <1>9 DEF Delivered, Wants
    <3> QED BY <3>1, <3>4, <1>8, <1>14, SameRequest
  <2>6. CASE rest - m # 0 /\ m < last + 1 - q
    <3>1. r.err = "nil" /\ rest - m > 0 /\ rest - m \in Nat \ {0}
      BY <2>1, <2>6, <1>3, <1>12
    <3>2. /\ status' = "copy" /\ faults' = faults /\ pos' = i
          /\ src' = r.s /\ dec' = r.d
      BY <2>2, <3>1, <1>1, <1>3, <1>7
    <3>3. told' = told
      BY <3>2, <1>1, <1>8 DEF Told
    <3>4. Delivered(status', start', end', body', faults', told')
      BY <3>2, <3>3, <2>3, <2>4, <1>1, <1>9 DEF Delivered, Wants
    <3>5. Copying(R, i, rest - m, r.d, r.s, body', a, z)
      <4>1. q + m \in Nat /\ R[i].start <= q + m /\ q + m <= R[i].end
        <5>1. R[i].start \in Nat
          BY <1>3 DEF RangesOK, Inside
        <5> QED BY <5>1, <2>1, <2>6, <1>4, <1>5
      <4> QED BY <4>1, <2>2, <2>3, <2>6, <3>1, <1>3, <1>5, <1>12 DEF Copying
    <3>6. Copying(ranges', pos', remaining', dec', src', body', start', end')
      BY <3>2, <3>5, <2>3, <1>8
    <3> QED BY <3>1, <3>2, <3>4, <3>6, <2>3, <1>8, <1>14, SameRequest
  <2>7. CASE rest - m # 0 /\ ~(m < last + 1 - q)
    <3>1. r.err = "eof" /\ rest - m > 0 /\ m = last + 1 - q
      <4>1. m = last + 1 - q
        BY <2>7
      <4> QED BY <2>1, <2>7, <4>1, <1>12, <1>13
    <3>2. i < Len(R) /\ i + 1 \in 1..Len(R) /\ i # Len(R)
      <4>1. i # Len(R)
        <5>1. i = Len(R) => c + last = z
          BY <1>13
        <5> QED BY <2>7, <3>1, <5>1, <1>13
      <4> QED BY <4>1, <1>3 DEF RangesOK
    <3>3. pos' = i + 1 /\ \E f \in Faults({"header", "seek"}) : GetPartReader(i + 1, f)
      BY <2>2, <3>1, <3>2, <1>7
    <3>4. PICK g : g = R[i + 1] /\ Inside(g)
      BY <3>2, <1>3 DEF RangesOK
    <3>8. rest - m \in Nat
      BY <2>1, <1>3
    <3>5. \/ status' = "failed" /\ faults' = faults + 1 /\ faults < MaxFaults
          \/ /\ status' = "copy" /\ faults' = faults
             /\ Reads(dec', src', g.part, g.start, g.end)
      <4>1. PICK f \in Faults({"header", "seek"}) : GetPartReader(i + 1, f)
        BY <3>3
      <4>2. ranges'[i + 1] = g
        BY <3>4, <1>8
      <4> QED BY <4>1, <4>2, <3>4, <1>1, PartOpened
    <3>6. CASE status' = "failed" /\ faults' = faults + 1 /\ faults < MaxFaults
      <4>1. told' = told \cup {"failure"}
        BY <3>6, <1>1, <1>8 DEF Told
      <4>2. Delivered(status', start', end', body', faults', told')
        <5>1. faults + 1 \in 0..MaxFaults /\ faults + 1 > 0
          BY <3>6, <1>1, StreamConstants
        <5> QED BY <3>6, <4>1, <5>1, <2>3, <2>4, <1>1, <1>9 DEF Delivered, Wants
      <4> QED BY <3>3, <3>6, <3>8, <4>2, <2>3, <1>8, <1>14, SameRequest
    <3>7. CASE /\ status' = "copy" /\ faults' = faults
               /\ Reads(dec', src', g.part, g.start, g.end)
      <4>1. told' = told
        BY <3>7, <1>1, <1>8 DEF Told
      <4>2. Delivered(status', start', end', body', faults', told')
        BY <3>7, <4>1, <2>3, <2>4, <1>1, <1>9 DEF Delivered, Wants
      <4>3. a + (n + m) = RangeFrom(R[i + 1]) /\ n + m <= z - a
        <5>1. c + last < z /\ RangeFrom(R[i + 1]) = c + last + 1
          BY <3>2, <1>13
        <5> QED BY <3>1, <5>1, <1>13
      <4>4. Copying(R, i + 1, z - a + 1 - (n + m), dec', src', Positions(a, n + m), a, z)
        BY <4>3, <3>2, <3>4, <3>7, <2>3, <1>2, <1>3, AtRange
      <4>5. remaining' = z - a + 1 - (n + m)
        BY <2>1, <2>3, <1>2, <1>3
      <4>6. Copying(ranges', pos', remaining', dec', src', body', start', end')
        BY <4>4, <4>5, <3>3, <2>2, <1>8
      <4> QED BY <3>3, <3>8, <4>2, <4>6, <2>3, <1>8, <1>14, SameRequest
    <3> QED BY <3>5, <3>6, <3>7
  <2> QED BY <2>5, <2>6, <2>7
<1> QED BY <1>10, <1>11, <1>12

----------------------------------------------------------------------------
(* The results.                                                            *)

\* In every reachable state the parts are those of an upload, the reader holds
\* what comes next in the part it is at, and the body is the start of the range
\* that the header asks for (Reader, decrypter, streamWithTGReader).
THEOREM StreamCorrect == Spec => []StreamInv
<1>1. Init => StreamInv
  BY InitStream
<1>2. StreamInv /\ [Next]_vars => StreamInv'
  <2>1. SUFFICES ASSUME StreamInv, [Next]_vars PROVE StreamInv'
    OBVIOUS
  <2>2. CASE FilesStream
    BY <2>1, <2>2, FilesStreamStep
  <2>3. CASE HeadOnly \/ PartsFail
    BY <2>1, <2>3, RespondSteps
  <2>4. CASE NewReader
    BY <2>1, <2>4, NewReaderStep
  <2>5. CASE \E k \in ReadSizes : Copy(k)
    BY <2>1, <2>5, CopyStep
  <2>6. CASE DroppedFails
    BY <2>1, <2>6, DroppedFailsStep
  <2>7. CASE Over \/ UNCHANGED vars
    <3>1. /\ UNCHANGED request /\ status' = status /\ start' = start /\ end' = end
          /\ UNCHANGED reader /\ body' = body /\ faults' = faults /\ told' = told
      BY <2>7 DEF Over, vars
    <3>2. Delivered(status', start', end', body', faults', told')
      BY <2>1, <3>1 DEF StreamInv
    <3>4. code' \in {0, 200, 206, 400, 416} /\ pos' \in Nat /\ remaining' \in Nat
      BY <2>1, <2>7 DEF Over, vars, reader, StreamInv
    <3>3. status' = "copy" =>
            Copying(ranges', pos', remaining', dec', src', body', start', end')
      BY <2>1, <3>1 DEF StreamInv, CopyInv, reader
    <3> QED BY <2>1, <3>1, <3>2, <3>3, <3>4, SameRequest
  <2> QED BY <2>1, <2>2, <2>3, <2>4, <2>5, <2>6, <2>7 DEF Next
<1> QED BY <1>1, <1>2, PTL DEF Spec

\* Types, the bound on failures, and no body longer than the file but for the
\* text of an error.
THEOREM StreamTypeCorrect == Spec => []TypeOK
<1>1. StreamInv => TypeOK
  <2>1. SUFFICES ASSUME StreamInv PROVE TypeOK
    OBVIOUS
  <2>2. Delivered(status, start, end, body, faults, told)
    BY <2>1 DEF StreamInv
  <2>3. PICK size \in Nat : size = file.size
    BY <2>1, PartPlaces DEF StreamInv
  <2>4. Len(body) <= size + 1
    <3>1. CASE body \in {<< >>, <<Text>>}
      BY <3>1
    <3>2. CASE \E n \in Nat : Served(body, n, start, end)
      <4>1. PICK n, a, z \in Nat : /\ n <= z - a + 1 /\ z < size /\ body = Positions(a, n)
        BY <3>2, <2>3 DEF Served, Wants
      <4>2. Len(Positions(a, n)) = n
        <5>1. a \in Int
          OBVIOUS
        <5> QED BY <5>1, PositionsAre, Zenon
      <4> QED BY <4>1, <4>2
    <3> QED BY <3>1, <3>2, <2>2 DEF Delivered
  <2>5. file \in Files
    BY <2>1 DEF StreamInv, PartsInv
  <2> QED BY <2>1, <2>2, <2>3, <2>4, <2>5 DEF TypeOK, StreamInv, Delivered
<1> QED BY <1>1, StreamCorrect, PTL

\* A stream fails only if a read from Telegram failed: ranges, offsets and
\* limits always lead to whole boxes, to enough of them and to the nonces they
\* were sealed with (calculatePartByteRanges, calculateUnderlying, RangeSeek).
THEOREM OnlyFaultsFail == Spec => []FailsOnlyByFault
<1>1. StreamInv => FailsOnlyByFault
  BY DEF StreamInv, Delivered, FailsOnlyByFault
<1> QED BY <1>1, StreamCorrect, PTL

\* The number of the bytes asked for before a byte of the range.
LEMMA Before ==
    ASSUME NEW a \in Nat, NEW z \in Nat, NEW i \in Nat \ {0}, a + i - 1 <= z
    PROVE  Cardinality({p \in a..z : p < a + i - 1}) = i - 1
<1>1. {p \in a..z : p < a + i - 1} = a..(a + i - 2)
  OBVIOUS
<1>2. PICK y \in Int : y = a + i - 2
  OBVIOUS
<1>3. Cardinality(a..y) = IF a > y THEN 0 ELSE y - a + 1
  <2>1. a \in Int /\ y \in Int
    OBVIOUS
  <2> QED BY <2>1, FS_Interval, Zenon
<1>4. (IF a > y THEN 0 ELSE y - a + 1) = i - 1
  BY <1>2
<1> QED BY <1>1, <1>2, <1>3, <1>4

\* The client gets the bytes that the header asks for, in order, and the pool
\* hears of a success only if it got all of them (Parse, FilesStream,
\* Reader.Read, decrypter.Read, streamWithTGReader).
THEOREM RangeIsServed == Spec => []ServesTheRange
<1>1. StreamInv => ServesTheRange
  <2>1. SUFFICES ASSUME StreamInv PROVE ServesTheRange
    OBVIOUS
  <2>2. ASSUME NEW n \in Nat, Served(body, n, start, end), NEW i \in DOMAIN body
        PROVE  body[i] \in Wanted /\ Cardinality({p \in Wanted : p < body[i]}) = i - 1
    <3>1. PICK a, z \in Nat : /\ a = start /\ z = end /\ a <= z /\ Wanted = a..z
                              /\ n <= z - a + 1 /\ body = Positions(a, n)
      BY <2>2 DEF Served, Wants
    <3>2. i \in 1..n /\ body[i] = a + i - 1
      <4>1. /\ DOMAIN Positions(a, n) = 1..n
            /\ \A j \in 1..n : Positions(a, n)[j] = a + j - 1
        <5>1. a \in Int
          OBVIOUS
        <5> QED BY <5>1, PositionsAre, Zenon
      <4>2. i \in 1..n
        BY <2>2, <3>1, <4>1
      <4> QED BY <3>1, <4>1, <4>2
    <3>3. a + i - 1 \in a..z /\ i \in Nat \ {0} /\ a + i - 1 <= z
      BY <3>1, <3>2
    <3>4. Cardinality({p \in a..z : p < a + i - 1}) = i - 1
      BY <3>3, Before
    <3> QED BY <3>1, <3>2, <3>3, <3>4
  <2>3. \/ body = <<Text>>
        \/ \A i \in DOMAIN body :
              body[i] \in Wanted /\ Cardinality({p \in Wanted : p < body[i]}) = i - 1
    <3>1. body \in {<< >>, <<Text>>} \/ \E n \in Nat : Served(body, n, start, end)
      BY <2>1 DEF StreamInv, Delivered
    <3>2. CASE body \in {<< >>, <<Text>>}
      BY <3>2
    <3>3. CASE \E n \in Nat : Served(body, n, start, end)
      BY <3>3, <2>2
    <3> QED BY <3>1, <3>2, <3>3
  <2>4. ASSUME "success" \in told PROVE Len(body) = Cardinality(Wanted)
    <3>1. Served(body, end - start + 1, start, end)
      BY <2>1, <2>4 DEF StreamInv, Delivered
    <3>2. PICK a, z \in Nat : /\ a = start /\ z = end /\ a <= z /\ Wanted = a..z
                              /\ body = Positions(a, z - a + 1)
      BY <3>1 DEF Served, Wants
    <3>3. Len(body) = z - a + 1
      <4>1. PICK n \in Nat : n = z - a + 1
        BY <3>2
      <4>2. Len(Positions(a, n)) = n
        <5>1. a \in Int
          OBVIOUS
        <5> QED BY <5>1, PositionsAre, Zenon
      <4> QED BY <4>1, <4>2, <3>2
    <3>4. Cardinality(a..z) = IF a > z THEN 0 ELSE z - a + 1
      <4>1. a \in Int /\ z \in Int
        OBVIOUS
      <4> QED BY <4>1, FS_Interval, Zenon
    <3> QED BY <3>2, <3>3, <3>4
  <2>5. "failure" \in told /\ ~file.encrypted => status = "failed"
    BY <2>1 DEF StreamInv, Delivered
  <2> QED BY <2>3, <2>4, <2>5 DEF ServesTheRange
<1> QED BY <1>1, StreamCorrect, PTL
=============================================================================
