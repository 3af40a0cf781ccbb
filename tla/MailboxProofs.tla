---------------------------- MODULE MailboxProofs ----------------------------
(***************************************************************************)
(* Proofs about the ring of bytes.  The invariant says that the ring is the *)
(* image of a sequence of messages: laid end to end from first_header on,  *)
(* zero behind the last.  Positions are counted from first_header, so that *)
(* nothing but the lemmas about Wrap sees where the ring ends.             *)
(***************************************************************************)
EXTENDS Mailbox, InductionLemmas, FiniteSetTheorems, SequenceTheorems

-----------------------------------------------------------------------------
(* Arithmetic of the ring.                                                 *)

\* A position behind the end is read from the top.
Wrap(x) == IF x < Capacity THEN x ELSE x - Capacity

LEMMA TimesGrows ==
  ASSUME NEW a \in Nat, NEW b \in Nat, NEW c \in Nat, a <= b
  PROVE  a * c <= b * c /\ c * a <= c * b /\ a * c \in Nat
<1>1. (b - a) * c \in Nat /\ (b - a) * c = b * c - a * c
  OBVIOUS
<1>2. a * c \in Nat /\ b * c \in Nat
  OBVIOUS
<1> QED
  BY <1>1, <1>2

LEMMA RingSizes ==
  /\ Capacity \in Nat /\ 8 < Capacity
  /\ BYTE \in Nat /\ 2 <= BYTE
  /\ WORD \in Nat /\ BYTE <= WORD /\ Capacity < WORD
<1>1. /\ Capacity \in Nat /\ 8 < Capacity /\ BYTE \in Nat /\ 2 <= BYTE /\ Capacity < WORD
  BY RingAssumption DEF HdrSize
<1> DEFINE b2 == BYTE * BYTE
           b3 == b2 * BYTE
<1>2. b2 \in Nat /\ 1 <= b2
  <2>1. 1 * BYTE <= BYTE * BYTE
    BY <1>1, TimesGrows
  <2> QED
    BY <1>1, <2>1
<1> HIDE DEF b2
<1>3. b3 \in Nat /\ 1 <= b3
  <2>1. 1 * BYTE <= b2 * BYTE
    BY <1>1, <1>2, TimesGrows
  <2> QED
    BY <1>1, <1>2, <2>1
<1> HIDE DEF b3
<1>4. b3 * BYTE \in Nat /\ 1 * BYTE <= b3 * BYTE
  BY <1>1, <1>3, TimesGrows
<1>5. WORD = b3 * BYTE
  BY DEF WORD, b3, b2
<1> QED
  BY <1>1, <1>4, <1>5

LEMMA SmallMod ==
  ASSUME NEW x \in Nat, NEW w \in Nat, x < w
  PROVE  x % w = x
OBVIOUS

LEMMA WrapMod ==
  ASSUME NEW x \in 0 .. 2 * Capacity - 1
  PROVE  x % Capacity = Wrap(x) /\ Wrap(x) \in Pos
<1>1. Capacity \in Nat /\ 0 < Capacity
  BY RingSizes
<1>2. CASE x < Capacity
  BY <1>1, <1>2, SmallMod DEF Wrap, Pos
<1>3. CASE ~(x < Capacity)
  <2>1. x - Capacity \in Nat /\ x - Capacity < Capacity
    BY <1>1, <1>3
  <2>2. x % Capacity = (x - Capacity) % Capacity
    BY <1>1, <2>1
  <2> QED
    BY <1>1, <1>3, <2>1, <2>2, SmallMod DEF Wrap, Pos
<1> QED
  BY <1>2, <1>3

\* How far position i is behind position f.
Dist(f, i) == IF f <= i THEN i - f ELSE i - f + Capacity

LEMMA DistMod ==
  ASSUME NEW f \in Pos, NEW i \in Pos
  PROVE  /\ (i - f) % Capacity = Dist(f, i)
         /\ Dist(f, i) \in Pos /\ Wrap(f + Dist(f, i)) = i
<1>1. Capacity \in Nat /\ 0 < Capacity /\ f \in Nat /\ i \in Nat /\ f < Capacity /\ i < Capacity
  BY RingSizes DEF Pos
<1>2. CASE f <= i
  BY <1>1, <1>2, SmallMod DEF Dist, Pos, Wrap
<1>3. CASE ~(f <= i)
  <2>1. (i - f) % Capacity = (i - f + Capacity) % Capacity
    BY <1>1, <1>3
  <2>2. i - f + Capacity \in Nat /\ i - f + Capacity < Capacity
    BY <1>1, <1>3
  <2> QED
    BY <1>1, <1>3, <2>1, <2>2, SmallMod DEF Dist, Pos, Wrap
<1> QED
  BY <1>2, <1>3

\* Positions are told apart by their distance.
LEMMA WrapDist ==
  ASSUME NEW f \in Pos, NEW d \in Pos
  PROVE  /\ f + d \in 0 .. 2 * Capacity - 1 /\ Wrap(f + d) \in Pos
         /\ Dist(f, Wrap(f + d)) = d
BY RingSizes DEF Pos, Wrap, Dist

\* Distances add up.
LEMMA WrapAdd ==
  ASSUME NEW f \in Pos, NEW d \in 0 .. Capacity, NEW e \in Nat, d + e <= Capacity
  PROVE  Wrap(Wrap(f + d) + e) = Wrap(f + (d + e))
BY RingSizes DEF Pos, Wrap

-----------------------------------------------------------------------------
(* Bytes of a message.                                                     *)

\* The number of four bytes, the lowest first.
Word(a, b, c, d) == a + BYTE * (b + BYTE * (c + BYTE * d))

\* The lowest byte is split off, and what is left is smaller by a factor of BYTE.
LEMMA SplitByte ==
  ASSUME NEW x \in Nat, NEW w \in Nat, x < BYTE * w
  PROVE  /\ x % BYTE \in 0 .. BYTE - 1 /\ Higher(x) \in Nat /\ Higher(x) < w
         /\ x = (x % BYTE) + BYTE * Higher(x)
<1>1. BYTE \in Nat /\ 2 <= BYTE
  BY RingSizes
<1> DEFINE q == x \div BYTE
           r == x % BYTE
<1>2. q \in Nat /\ r \in 0 .. BYTE - 1 /\ x = BYTE * q + r
  BY <1>1
<1> HIDE DEF q, r
<1>3. q < w
  <2>1. SUFFICES ASSUME w <= q PROVE FALSE
    BY <1>2
  <2>2. BYTE * w <= BYTE * q
    BY <1>1, <1>2, <2>1, TimesGrows
  <2>3. BYTE * w \in Nat /\ BYTE * q \in Nat
    BY <1>1, <1>2
  <2> QED
    BY <1>2, <2>2, <2>3
<1> QED
  BY <1>1, <1>2, <1>3 DEF q, r, Higher

LEMMA LengthBytes ==
  ASSUME NEW l \in Nat, l < WORD
  PROVE  /\ l % BYTE \in 0 .. BYTE - 1
         /\ Higher(l) % BYTE \in 0 .. BYTE - 1
         /\ Higher(Higher(l)) % BYTE \in 0 .. BYTE - 1
         /\ Higher(Higher(Higher(l))) % BYTE \in 0 .. BYTE - 1
         /\ l = Word(l % BYTE, Higher(l) % BYTE, Higher(Higher(l)) % BYTE,
                     Higher(Higher(Higher(l))) % BYTE)
<1> DEFINE b2 == BYTE * BYTE
           b3 == BYTE * b2
           x == Higher(l)
           y == Higher(x)
           z == Higher(y)
<1>1. BYTE \in Nat /\ b2 \in Nat /\ b3 \in Nat /\ WORD = BYTE * b3
  <2>1. BYTE \in Nat /\ b2 \in Nat
    BY RingSizes
  <2>2. b3 \in Nat
    <3> HIDE DEF b2
    <3> QED
      BY <2>1
  <2>3. WORD = BYTE * b3
    BY <2>1 DEF WORD
  <2> QED
    BY <2>1, <2>2, <2>3
<1>2. /\ l % BYTE \in 0 .. BYTE - 1 /\ x \in Nat /\ x < b3
      /\ l = (l % BYTE) + BYTE * x
  <2> HIDE DEF b3
  <2> QED
    BY <1>1, SplitByte DEF x
<1> HIDE DEF x
<1>3. /\ x % BYTE \in 0 .. BYTE - 1 /\ y \in Nat /\ y < b2
      /\ x = (x % BYTE) + BYTE * y
  <2> HIDE DEF b2
  <2> QED
    BY <1>1, <1>2, SplitByte DEF y, b3
<1> HIDE DEF y
<1>4. /\ y % BYTE \in 0 .. BYTE - 1 /\ z \in Nat /\ z < BYTE
      /\ y = (y % BYTE) + BYTE * z
  BY <1>1, <1>3, SplitByte DEF z, b2
<1> HIDE DEF z
<1>5. z % BYTE = z /\ z \in 0 .. BYTE - 1
  <2>1. z \in Nat /\ BYTE \in Nat /\ z < BYTE
    BY <1>1, <1>4
  <2> QED
    BY <2>1, SmallMod
<1>6. l = Word(l % BYTE, x % BYTE, y % BYTE, z % BYTE)
  BY <1>2, <1>3, <1>4, <1>5 DEF Word
<1> QED
  BY <1>2, <1>3, <1>4, <1>5, <1>6 DEF x, y, z

\* The properties of a message that the proofs use.
LEMMA MessageFacts ==
  ASSUME NEW m \in Message
  PROVE  /\ m.length \in Nat /\ 8 <= m.length /\ m.length < WORD - 1
         /\ m.stamp \in Stamps /\ m.stamp \in Nat /\ 0 < m.stamp
         /\ Footprint(m) \in Nat /\ Footprint(m) = m.length + 1 /\ 9 <= Footprint(m)
         /\ Footprint(m) < WORD
         /\ m = [length |-> m.length, stamp |-> m.stamp]
<1>1. /\ m.length \in Lengths /\ m.stamp \in Stamps
      /\ m = [length |-> m.length, stamp |-> m.stamp]
  BY DEF Message
<1>2. m.length \in 8 .. WORD - 2 /\ m.stamp \in Nat \ {0}
  BY <1>1, RingAssumption DEF HdrSize
<1>3. Footprint(m) = m.length + 1
  BY DEF Footprint, TidSize
<1>4. m.length \in Nat /\ 8 <= m.length /\ m.length < WORD - 1 /\ m.length + 1 < WORD
  BY <1>2, RingSizes
<1> QED
  BY <1>1, <1>2, <1>3, <1>4

LEMMA StoredFacts ==
  ASSUME NEW m \in Message
  PROVE  /\ \A k \in 1 .. 4 : StoredByte(m, k) \in 0 .. BYTE - 1
         /\ Word(StoredByte(m, 1), StoredByte(m, 2), StoredByte(m, 3), StoredByte(m, 4))
              = m.length
         /\ \A k \in 5 .. Footprint(m) : StoredByte(m, k) = m.stamp * WORD + k
         /\ \A k \in 1 .. Footprint(m) : StoredByte(m, k) \in Nat
<1>1. m.length \in Nat /\ m.length < WORD
  BY MessageFacts, RingSizes
<1>2. /\ StoredByte(m, 1) = m.length % BYTE
      /\ StoredByte(m, 2) = Higher(m.length) % BYTE
      /\ StoredByte(m, 3) = Higher(Higher(m.length)) % BYTE
      /\ StoredByte(m, 4) = Higher(Higher(Higher(m.length))) % BYTE
  BY DEF StoredByte
<1>3. /\ StoredByte(m, 1) \in 0 .. BYTE - 1 /\ StoredByte(m, 2) \in 0 .. BYTE - 1
      /\ StoredByte(m, 3) \in 0 .. BYTE - 1 /\ StoredByte(m, 4) \in 0 .. BYTE - 1
      /\ Word(StoredByte(m, 1), StoredByte(m, 2), StoredByte(m, 3), StoredByte(m, 4))
           = m.length
  BY <1>1, <1>2, LengthBytes
<1>4. \A k \in 1 .. 4 : StoredByte(m, k) \in 0 .. BYTE - 1
  <2>1. \A k \in 1 .. 4 : k \in {1, 2, 3, 4}
    OBVIOUS
  <2> QED
    BY <1>3, <2>1
<1>5. ASSUME NEW k \in 5 .. Footprint(m)
      PROVE  /\ StoredByte(m, k) = m.stamp * WORD + k
             /\ StoredByte(m, k) \in Nat
  <2>1. k \in Nat /\ 4 < k /\ m.stamp \in Nat
    BY MessageFacts
  <2>2. StoredByte(m, k) = m.stamp * WORD + k
    BY <2>1 DEF StoredByte
  <2>3. m.stamp * WORD \in Nat
    BY <2>1, RingSizes
  <2> QED
    BY <2>1, <2>2, <2>3
<1>6. ASSUME NEW k \in 1 .. Footprint(m)
      PROVE  StoredByte(m, k) \in Nat
  <2>1. k \in 1 .. 4 \/ k \in 5 .. Footprint(m)
    BY MessageFacts
  <2> QED
    BY <2>1, <1>4, <1>5, RingSizes
<1> QED
  BY <1>3, <1>4, <1>5, <1>6

-----------------------------------------------------------------------------
(* Headers.                                                                *)

\* The byte at distance d behind position f.
At(r, f, d) == r[Wrap(f + d)]

LEMMA MaxIs ==
  ASSUME NEW x \in Int, 0 < x
  PROVE  Max({x, 0}) = x
<1>1. \E y \in {x, 0} : \A z \in {x, 0} : y >= z
  OBVIOUS
<1>2. \A y \in {x, 0} : (\A z \in {x, 0} : y >= z) => y = x
  OBVIOUS
<1> QED
  BY <1>1, <1>2 DEF Max

LEMMA HeaderIs ==
  ASSUME NEW r, NEW f \in Pos, NEW d \in Pos, d + 3 < Capacity
  PROVE  get_header(r, Wrap(f + d)) =
           Word(At(r, f, d), At(r, f, d + 1), At(r, f, d + 2), At(r, f, d + 3))
<1> DEFINE p == Wrap(f + d)
           b(i) == IF p + i < Capacity THEN r[p + i] ELSE r[i - Max({Capacity - p, 0})]
<1>1. p \in Pos /\ p \in Nat /\ p < Capacity /\ Capacity \in Nat /\ d \in Nat
  <2>1. p \in Pos
    BY WrapDist
  <2> HIDE DEF p
  <2> QED
    BY <2>1, RingSizes DEF Pos
<1>2. ASSUME NEW i \in 0 .. 3
      PROVE  b(i) = At(r, f, d + i)
  <2>1. Wrap(p + i) = Wrap(f + (d + i))
    <3>1. d \in 0 .. Capacity /\ i \in Nat /\ d + i <= Capacity /\ i < Capacity
      BY <1>1, RingSizes
    <3> QED
      BY <3>1, WrapAdd
  <2>2. Max({Capacity - p, 0}) = Capacity - p
    BY <1>1, MaxIs
  <2> HIDE DEF p
  <2>3. IF p + i < Capacity THEN p + i = Wrap(p + i) ELSE i - (Capacity - p) = Wrap(p + i)
    BY <1>1 DEF Wrap
  <2> QED
    BY <2>1, <2>2, <2>3 DEF At
<1>3. get_header(r, p) = Word(b(0), b(1), b(2), b(3))
  BY DEF get_header, Word
<1> HIDE DEF b
<1>4. /\ b(0) = At(r, f, d + 0) /\ b(1) = At(r, f, d + 1)
      /\ b(2) = At(r, f, d + 2) /\ b(3) = At(r, f, d + 3)
  BY <1>2
<1>5. d + 0 = d
  BY <1>1
<1> QED
  BY <1>3, <1>4, <1>5

\* The message m is stored from distance d on.
MessageAt(r, f, d, m) == \A k \in 1 .. Footprint(m) : At(r, f, d + k - 1) = StoredByte(m, k)

\* Where a message is, its length is read.
LEMMA MessageHeader ==
  ASSUME NEW r, NEW f \in Pos, NEW d \in Nat, NEW m \in Message,
         d + Footprint(m) <= Capacity, MessageAt(r, f, d, m)
  PROVE  get_header(r, Wrap(f + d)) = m.length
<1>1. /\ Footprint(m) \in Nat /\ 9 <= Footprint(m) /\ Capacity \in Nat
      /\ BYTE \in Nat
  BY MessageFacts, RingSizes
<1>2. d \in Pos /\ d + 3 < Capacity
  BY <1>1 DEF Pos
<1>3. \A k \in 1 .. 4 : At(r, f, d + k - 1) = StoredByte(m, k)
  BY <1>1 DEF MessageAt
<1>4. /\ d + 1 - 1 = d /\ d + 2 - 1 = d + 1 /\ d + 3 - 1 = d + 2 /\ d + 4 - 1 = d + 3
  BY <1>1
<1>5. /\ At(r, f, d) = StoredByte(m, 1) /\ At(r, f, d + 1) = StoredByte(m, 2)
      /\ At(r, f, d + 2) = StoredByte(m, 3) /\ At(r, f, d + 3) = StoredByte(m, 4)
  BY <1>3, <1>4
<1> QED
  BY <1>2, <1>5, HeaderIs, StoredFacts

\* Zeros are read as a length of zero.
LEMMA ZeroHeader ==
  ASSUME NEW r, NEW f \in Pos, NEW d \in Pos, d + 3 < Capacity,
         \A e \in Pos : d <= e => At(r, f, e) = 0
  PROVE  get_header(r, Wrap(f + d)) = 0
<1>1. /\ d \in Pos /\ d + 1 \in Pos /\ d + 2 \in Pos /\ d + 3 \in Pos /\ d \in Nat
  BY RingSizes DEF Pos
<1>2. /\ At(r, f, d) = 0 /\ At(r, f, d + 1) = 0 /\ At(r, f, d + 2) = 0 /\ At(r, f, d + 3) = 0
  BY <1>1
<1>3. Word(0, 0, 0, 0) = 0
  BY RingSizes DEF Word
<1> QED
  BY <1>2, <1>3, HeaderIs

-----------------------------------------------------------------------------
(* The image of a sequence of messages.                                    *)

\* o[n] is the bytes the first n messages of q take up.
Offsets(o, q) ==
  /\ o[0] = 0
  /\ \A n \in 1 .. Len(q) : n - 1 \in 0 .. Len(q) /\ o[n] = o[n - 1] + Footprint(q[n])

\* The messages of q lie end to end from f on, at the offsets o; the rest is zero.
Laid(r, f, q, o) ==
  /\ q \in Seq(Message) /\ f \in Pos
  /\ Offsets(o, q) /\ o[Len(q)] <= Capacity
  /\ \A n \in 1 .. Len(q) : MessageAt(r, f, o[n - 1], q[n])
  /\ \A d \in Pos : o[Len(q)] <= d => At(r, f, d) = 0

\* Offsets grow by at least nine bytes a message.
Grown(o, n) == \A j \in 0 .. n : o[j] \in Nat /\ o[j] + 9 * (n - j) <= o[n]

LEMMA OffsetsGrow ==
  ASSUME NEW q \in Seq(Message), NEW o, Offsets(o, q)
  PROVE  \A n \in 0 .. Len(q) : Grown(o, n)
<1> DEFINE S == {n \in 0 .. Len(q) : Grown(o, n)}
<1>1. Len(q) \in Nat
  BY LenProperties
<1>2. 0 \in S
  BY <1>1 DEF Offsets, Grown
<1>3. ASSUME NEW n \in 0 .. Len(q), n \in S, n < Len(q)
      PROVE  n + 1 \in S
  <2>1. n + 1 \in 1 .. Len(q) /\ (n + 1) - 1 = n /\ n \in Nat /\ n + 1 \in 0 .. Len(q)
    BY <1>1, <1>3
  <2>2. o[n + 1] = o[n] + Footprint(q[n + 1]) /\ q[n + 1] \in Message
    BY <2>1, ElementOfSeq DEF Offsets
  <2>3. /\ Footprint(q[n + 1]) \in Nat /\ 9 <= Footprint(q[n + 1])
    BY <2>2, MessageFacts
  <2>4. o[n] \in Nat /\ Grown(o, n)
    BY <1>3, <2>1 DEF Grown
  <2>5. ASSUME NEW j \in 0 .. n + 1
        PROVE  o[j] \in Nat /\ o[j] + 9 * ((n + 1) - j) <= o[n + 1]
    <3> DEFINE F == Footprint(q[n + 1])
               x == o[n + 1]
               y == o[n]
               z == o[j]
    <3>1. x = y + F /\ F \in Nat /\ 9 <= F /\ y \in Nat
      BY <2>2, <2>3, <2>4
    <3>2. CASE j = n + 1
      <4>1. z = x
        BY <3>2
      <4> HIDE DEF x, y, F, z
      <4>2. z \in Nat /\ z + 9 * ((n + 1) - j) <= x
        BY <2>1, <3>1, <3>2, <4>1
      <4> QED
        BY <4>2 DEF z, x
    <3>3. CASE j \in 0 .. n
      <4>1. z \in Nat /\ z + 9 * (n - j) <= y
        BY <2>4, <3>3 DEF Grown
      <4> HIDE DEF x, y, F, z
      <4>2. z + 9 * ((n + 1) - j) <= x
        BY <2>1, <3>1, <3>3, <4>1
      <4> QED
        BY <4>1, <4>2 DEF z, x
    <3> QED
      BY <2>1, <3>2, <3>3
  <2>6. Grown(o, n + 1)
    BY <2>5 DEF Grown
  <2> QED
    BY <2>1, <2>6
<1>4. \A n \in 0 .. Len(q) : n \in S
  <2> HIDE DEF S
  <2> QED
    BY <1>1, <1>2, <1>3, InductionUpTo
<1> QED
  BY <1>4

\* What is known of the n-th message laid.
LEMMA LaidFacts ==
  ASSUME NEW r, NEW f, NEW q, NEW o, Laid(r, f, q, o), NEW n \in 1 .. Len(q)
  PROVE  /\ q[n] \in Message /\ n - 1 \in 0 .. Len(q) /\ n \in 0 .. Len(q)
         /\ o[n - 1] \in Nat /\ o[n] \in Nat /\ o[Len(q)] \in Nat
         /\ o[n] = o[n - 1] + Footprint(q[n])
         /\ o[n] <= o[Len(q)] /\ o[n] <= Capacity
         /\ MessageAt(r, f, o[n - 1], q[n])
<1>1. q \in Seq(Message) /\ Len(q) \in Nat /\ o[Len(q)] <= Capacity
  BY LenProperties DEF Laid
<1>2. q[n] \in Message /\ n - 1 \in 0 .. Len(q) /\ n \in 0 .. Len(q)
  BY <1>1, ElementOfSeq
<1>3. o[n] = o[n - 1] + Footprint(q[n])
  BY DEF Laid, Offsets
<1>4. Grown(o, Len(q)) /\ Grown(o, n)
  BY <1>1, <1>2, OffsetsGrow DEF Laid
<1>5. o[n - 1] \in Nat /\ o[n] \in Nat /\ o[Len(q)] \in Nat
  BY <1>1, <1>2, <1>4 DEF Grown
<1>6. o[n] + 9 * (Len(q) - n) <= o[Len(q)]
  BY <1>2, <1>4 DEF Grown
<1>7. o[n] <= o[Len(q)]
  <2> DEFINE x == o[n]
             y == o[Len(q)]
  <2>1. x \in Nat /\ y \in Nat /\ x + 9 * (Len(q) - n) <= y
    BY <1>5, <1>6
  <2> HIDE DEF x, y
  <2>2. x <= y
    BY <2>1, <1>1, <1>2
  <2> QED
    BY <2>2 DEF x, y
<1>8. o[n] <= Capacity
  <2> DEFINE x == o[n]
             y == o[Len(q)]
  <2>1. x \in Nat /\ y \in Nat /\ x <= y /\ y <= Capacity
    BY <1>1, <1>5, <1>7
  <2> HIDE DEF x, y
  <2>2. x <= Capacity
    BY <2>1, RingSizes
  <2> QED
    BY <2>2 DEF x
<1> QED
  BY <1>2, <1>3, <1>5, <1>7, <1>8 DEF Laid

-----------------------------------------------------------------------------
(* Writing the ring.                                                       *)

\* The n bytes of a are those of b behind the first k.
PartOf(a, b, k, n) == Len(a) = n /\ \A i \in 1 .. n : a[i] = b[k + i]

\* How many of n bytes at s lie before the end of the ring.
Fore(s, n) == IF s + n < Capacity THEN n ELSE Capacity - s

\* r2 differs from r in the n bytes at distance d from f, which are those of b.
Overwritten(r, r2, f, d, n, b) ==
  \A e \in Pos : At(r2, f, e) = IF d <= e /\ e < d + n THEN b[e - d + 1] ELSE At(r, f, e)

\* s is the position at distance d, or the end of the ring instead of its top.
StartsAt(s, f, d) == s \in 0 .. Capacity /\ (s = Wrap(f + d) \/ (s = Capacity /\ Wrap(f + d) = 0))

\* The bytes b are written at s: up to the end of the ring, the rest at the top.
LEMMA RingWritten ==
  ASSUME NEW r, NEW f \in Pos, NEW d \in 0 .. Capacity, NEW n \in Nat, d + n <= Capacity,
         NEW s, StartsAt(s, f, d), NEW b, NEW a, NEW z,
         PartOf(a, b, 0, Fore(s, n)), PartOf(z, b, Fore(s, n), n - Fore(s, n))
  PROVE  Overwritten(r, Write(Write(r, s, a), 0, z), f, d, n, b)
<1> DEFINE c == Fore(s, n)
           r2 == Write(Write(r, s, a), 0, z)
<1>0. /\ Capacity \in Nat /\ 8 < Capacity
      /\ s \in 0 .. Capacity /\ (s = Wrap(f + d) \/ (s = Capacity /\ Wrap(f + d) = 0))
  BY RingSizes DEF StartsAt
<1>1. /\ c \in Nat /\ c <= n /\ s + c <= Capacity
      /\ c < n => c = Capacity - s
  BY <1>0 DEF Fore
<1>2. Len(a) = c /\ Len(z) = n - c
  BY DEF PartOf
<1>3. /\ \A k \in 1 .. c : a[k] = b[k]
      /\ \A k \in 1 .. n - c : z[k] = b[c + k]
  BY <1>1 DEF PartOf
<1>4. ASSUME NEW i \in Pos
      PROVE  r2[i] = IF i < n - c THEN z[i + 1]
                     ELSE IF s <= i /\ i < s + c THEN a[i - s + 1] ELSE r[i]
  <2>1. 0 <= i /\ i - 0 + 1 = i + 1
    BY <1>0 DEF Pos
  <2> HIDE DEF c
  <2> QED
    BY <2>1, <1>0, <1>1, <1>2 DEF Write
<1> HIDE DEF c, r2
<1>5. SUFFICES ASSUME NEW e \in Pos
               PROVE  At(r2, f, e) = IF d <= e /\ e < d + n THEN b[e - d + 1] ELSE At(r, f, e)
  BY DEF Overwritten, r2
<1> DEFINE i == Wrap(f + e)
<1>6. i \in Pos
  BY WrapDist
<1>7. /\ f \in Nat /\ f < Capacity /\ e \in Nat /\ e < Capacity /\ d \in Nat /\ d <= Capacity
      /\ s \in Nat /\ s <= Capacity
  BY <1>0 DEF Pos
<1>8. CASE d <= e /\ e < d + n
  <2> DEFINE x == e - d
  <2>1. x \in Nat /\ x < n
    BY <1>7, <1>8
  <2>2. i = IF s + x < Capacity THEN s + x ELSE s + x - Capacity
    BY <1>0, <1>7, <1>8 DEF Wrap
  <2> HIDE DEF x, i
  <2>3. CASE s + x < Capacity
    <3>1. x < c /\ i = s + x
      BY <1>0, <1>1, <1>7, <2>1, <2>2, <2>3
    <3>2. ~(i < n - c)
      BY <1>0, <1>1, <1>7, <2>1, <3>1
    <3>3. s <= i /\ i < s + c /\ i - s + 1 = x + 1 /\ x + 1 \in 1 .. c
      BY <1>1, <1>7, <2>1, <3>1
    <3>4. r2[i] = a[x + 1]
      BY <1>4, <1>6, <3>2, <3>3 DEF i
    <3>5. a[x + 1] = b[x + 1]
      BY <1>3, <3>3
    <3> QED
      BY <1>8, <3>4, <3>5 DEF At, i, x
  <2>4. CASE ~(s + x < Capacity)
    <3>1. c = Capacity - s /\ i = s + x - Capacity
      BY <1>0, <1>1, <1>7, <2>1, <2>2, <2>4 DEF Fore
    <3>2. i < n - c /\ i + 1 \in 1 .. n - c /\ c + (i + 1) = x + 1
      BY <1>0, <1>7, <2>1, <2>4, <3>1
    <3>3. r2[i] = z[i + 1]
      BY <1>4, <1>6, <3>2 DEF i
    <3>4. z[i + 1] = b[x + 1]
      BY <1>3, <3>2
    <3> QED
      BY <1>8, <3>3, <3>4 DEF At, i, x
  <2> QED
    BY <2>3, <2>4
<1>9. CASE ~(d <= e /\ e < d + n)
  <2>1. i \in Nat /\ ~(i < n - c) /\ ~(s <= i /\ i < s + c)
    BY <1>0, <1>1, <1>7, <1>9 DEF Wrap
  <2> HIDE DEF i
  <2>2. r2[i] = r[i]
    BY <1>4, <1>6, <2>1 DEF i
  <2> QED
    BY <1>9, <2>2 DEF At, i
<1> QED
  BY <1>8, <1>9

LEMMA MinIs ==
  ASSUME NEW x \in Int, NEW y \in Int
  PROVE  Min({x, y}) = IF x <= y THEN x ELSE y
<1> DEFINE m == IF x <= y THEN x ELSE y
<1>1. m \in {x, y} /\ \A z \in {x, y} : m <= z
  OBVIOUS
<1>2. \A w \in {x, y} : (\A z \in {x, y} : w <= z) => w = m
  OBVIOUS
<1> QED
  BY <1>1, <1>2 DEF Min

LEMMA MaxZero ==
  ASSUME NEW x \in Int
  PROVE  Max({0, x}) = IF 0 < x THEN x ELSE 0
<1> DEFINE m == IF 0 < x THEN x ELSE 0
<1>1. m \in {0, x} /\ \A z \in {0, x} : m >= z
  OBVIOUS
<1>2. \A w \in {0, x} : (\A z \in {0, x} : w >= z) => w = m
  OBVIOUS
<1> QED
  BY <1>1, <1>2 DEF Max

\* r is an array of bytes.
IsRing(r) == r = [i \in Pos |-> r[i]]

LEMMA WriteIsRing ==
  ASSUME NEW r, NEW p, NEW bs
  PROVE  IsRing(Write(r, p, bs))
<1> DEFINE g(i) == IF p <= i /\ i < p + Len(bs) THEN bs[i - p + 1] ELSE r[i]
<1>1. Write(r, p, bs) = [i \in Pos |-> g(i)]
  BY DEF Write
<1> HIDE DEF g
<1> QED
  BY <1>1 DEF IsRing

\* The n bytes from f on are zeroed, all others stay.
LEMMA RingCleared ==
  ASSUME NEW f \in Pos, NEW n \in Nat, n <= Capacity
  PROVE  /\ \A e \in Pos : At(Cleared(f, n), f, e) = IF e < n THEN 0 ELSE At(ring, f, e)
         /\ IsRing(Cleared(f, n))
<1> DEFINE u == Min({n, Capacity - f})
           v == Max({0, f + n - Capacity})
           a == [k \in 1 .. u |-> 0]
           z == [k \in 1 .. v |-> 0]
           b == [k \in 1 .. n |-> 0]
           r2 == Cleared(f, n)
<1>0. Capacity \in Nat /\ 8 < Capacity /\ f \in Nat /\ f < Capacity
  BY RingSizes DEF Pos
<1>1. u = Fore(f, n) /\ u \in Nat /\ u <= n
  <2>1. u = IF n <= Capacity - f THEN n ELSE Capacity - f
    BY <1>0, MinIs
  <2> HIDE DEF u
  <2> QED
    BY <1>0, <2>1 DEF Fore
<1>2. v = n - Fore(f, n) /\ v \in Nat
  <2>1. v = IF 0 < f + n - Capacity THEN f + n - Capacity ELSE 0
    BY <1>0, MaxZero
  <2> HIDE DEF v
  <2> QED
    BY <1>0, <2>1 DEF Fore
<1>3. r2 = Write(Write(ring, f, a), 0, z)
  BY DEF Cleared
<1> HIDE DEF u, v
<1>4. PartOf(a, b, 0, Fore(f, n))
  <2>1. Len(a) = u
    BY <1>1
  <2>2. \A i \in 1 .. u : a[i] = 0 /\ b[0 + i] = 0
    BY <1>1
  <2> QED
    BY <1>1, <2>1, <2>2 DEF PartOf
<1>5. PartOf(z, b, Fore(f, n), n - Fore(f, n))
  <2>1. Len(z) = v
    BY <1>2
  <2>2. \A i \in 1 .. v : z[i] = 0 /\ b[u + i] = 0
    <3>1. \A i \in 1 .. v : u + i \in 1 .. n
      BY <1>1, <1>2
    <3> QED
      BY <3>1
  <2> QED
    BY <1>1, <1>2, <2>1, <2>2 DEF PartOf
<1> HIDE DEF a, z, r2
<1>6. f = Wrap(f + 0) /\ 0 \in 0 .. Capacity /\ 0 + n <= Capacity /\ f \in 0 .. Capacity
  BY <1>0 DEF Wrap
<1> DEFINE y == 0
<1>7. y = 0 /\ y \in 0 .. Capacity /\ y + n <= Capacity /\ f = Wrap(f + y)
  BY <1>6
<1> HIDE DEF y, b
<1>8. \A e \in Pos : At(r2, f, e) =
                       IF y <= e /\ e < y + n THEN b[e - y + 1] ELSE At(ring, f, e)
  <2>1. StartsAt(f, f, y)
    BY <1>6, <1>7 DEF StartsAt
  <2>2. Overwritten(ring, r2, f, y, n, b)
    BY <1>3, <1>4, <1>5, <1>7, <2>1, RingWritten
  <2> QED
    BY <2>2 DEF Overwritten
<1>9. ASSUME NEW e \in Pos
      PROVE  At(r2, f, e) = IF e < n THEN 0 ELSE At(ring, f, e)
  <2>1. e \in Nat
    BY <1>0 DEF Pos
  <2>2. CASE e < n
    <3>1. y <= e /\ e < y + n /\ e - y + 1 \in 1 .. n
      BY <1>7, <2>1, <2>2
    <3>2. b[e - y + 1] = 0
      BY <3>1 DEF b
    <3> QED
      BY <1>8, <2>2, <3>1, <3>2
  <2>3. CASE ~(e < n)
    BY <1>7, <1>8, <2>1, <2>3
  <2> QED
    BY <2>2, <2>3
<1>10. IsRing(r2)
  BY <1>3, WriteIsRing
<1> QED
  BY <1>9, <1>10 DEF r2

-----------------------------------------------------------------------------
(* Taking the first message out.                                           *)

\* Distances from a position n bytes further down.
LEMMA Shifted ==
  ASSUME NEW r, NEW f \in Pos, NEW n \in 0 .. Capacity, NEW e \in Pos
  PROVE  /\ Wrap(f + n) \in Pos
         /\ n + e < Capacity => At(r, Wrap(f + n), e) = At(r, f, n + e)
         /\ n + e >= Capacity => /\ n + e - Capacity \in Pos /\ n + e - Capacity < n
                                 /\ At(r, Wrap(f + n), e) = At(r, f, n + e - Capacity)
<1>1. /\ Capacity \in Nat /\ 8 < Capacity /\ f \in Nat /\ f < Capacity
      /\ n \in Nat /\ n <= Capacity /\ e \in Nat /\ e < Capacity
  BY RingSizes DEF Pos
<1>2. Wrap(f + n) \in Pos
  BY <1>1 DEF Wrap, Pos
<1>3. ASSUME n + e < Capacity
      PROVE  Wrap(Wrap(f + n) + e) = Wrap(f + (n + e))
  BY <1>1, <1>3 DEF Wrap
<1>4. ASSUME n + e >= Capacity
      PROVE  /\ n + e - Capacity \in Pos /\ n + e - Capacity < n
             /\ Wrap(Wrap(f + n) + e) = Wrap(f + (n + e - Capacity))
  BY <1>1, <1>4 DEF Wrap, Pos
<1> QED
  BY <1>2, <1>3, <1>4 DEF At

\* Every byte of a message that is laid is in the ring.
LEMMA InRing ==
  ASSUME NEW r, NEW f, NEW q, NEW o, Laid(r, f, q, o), NEW n \in 1 .. Len(q),
         NEW k \in 1 .. Footprint(q[n])
  PROVE  /\ o[n - 1] + k - 1 \in Pos /\ o[n - 1] + k - 1 < o[n]
         /\ o[n - 1] + k - 1 < o[Len(q)]
         /\ At(r, f, o[n - 1] + k - 1) = StoredByte(q[n], k)
<1>1. /\ o[n - 1] \in Nat /\ o[n] \in Nat /\ o[Len(q)] \in Nat
      /\ o[n] = o[n - 1] + Footprint(q[n]) /\ o[n] <= o[Len(q)] /\ o[n] <= Capacity
      /\ q[n] \in Message /\ MessageAt(r, f, o[n - 1], q[n])
  BY LaidFacts
<1>2. Footprint(q[n]) \in Nat
  BY <1>1, MessageFacts
<1>3. At(r, f, o[n - 1] + k - 1) = StoredByte(q[n], k)
  BY <1>1 DEF MessageAt
<1> DEFINE x == o[n - 1]
           y == o[n]
           z == o[Len(q)]
           F == Footprint(q[n])
<1>4. /\ x \in Nat /\ y \in Nat /\ z \in Nat /\ F \in Nat /\ y = x + F /\ y <= z
      /\ y <= Capacity /\ k \in 1 .. F
  BY <1>1, <1>2
<1> HIDE DEF x, y, z, F
<1>5. x + k - 1 \in Pos /\ x + k - 1 < y /\ x + k - 1 < z
  BY <1>4, RingSizes DEF Pos
<1> QED
  BY <1>3, <1>5 DEF x, y, z

\* The offsets of the messages behind the first.
Behind(o, q) == [n \in 0 .. Len(q) - 1 |-> o[n + 1] - o[1]]

LEMMA BehindOffsets ==
  ASSUME NEW q \in Seq(Message), q # <<>>, NEW o, Offsets(o, q)
  PROVE  /\ Tail(q) \in Seq(Message) /\ Len(Tail(q)) = Len(q) - 1
         /\ Offsets(Behind(o, q), Tail(q))
         /\ o[1] = Footprint(q[1]) /\ o[1] \in Nat /\ o[1] <= o[Len(q)] /\ o[Len(q)] \in Nat
<1>1. /\ Len(q) \in Nat \ {0} /\ Tail(q) \in Seq(Message) /\ Len(Tail(q)) = Len(q) - 1
      /\ \A n \in 1 .. Len(q) - 1 : Tail(q)[n] = q[n + 1]
  BY EmptySeq, LenProperties, HeadTailProperties
<1> DEFINE p == Behind(o, q)
<1>2. \A n \in 0 .. Len(q) : Grown(o, n)
  BY OffsetsGrow
<1>3. /\ \A n \in 0 .. Len(q) : o[n] \in Nat
      /\ o[1] + 9 * (Len(q) - 1) <= o[Len(q)]
  BY <1>1, <1>2 DEF Grown
<1>4. o[1] = Footprint(q[1])
  <2>1. o[1] = o[1 - 1] + Footprint(q[1]) /\ o[0] = 0 /\ 1 - 1 = 0 /\ q[1] \in Message
    BY <1>1, ElementOfSeq DEF Offsets
  <2> QED
    BY <2>1, MessageFacts
<1>5. o[1] <= o[Len(q)]
  <2> DEFINE x == o[1]
             y == o[Len(q)]
  <2>1. x \in Nat /\ y \in Nat /\ x + 9 * (Len(q) - 1) <= y
    BY <1>1, <1>3
  <2> HIDE DEF x, y
  <2>2. x <= y
    BY <1>1, <2>1
  <2> QED
    BY <2>2 DEF x, y
<1>6. p[0] = 0
  <2>1. p[0] = o[1] - o[1]
    BY <1>1 DEF Behind
  <2> QED
    BY <1>1, <1>3, <2>1
<1>7. ASSUME NEW n \in 1 .. Len(q) - 1
      PROVE  n - 1 \in 0 .. Len(q) - 1 /\ p[n] = p[n - 1] + Footprint(Tail(q)[n])
  <2>1. /\ n - 1 \in 0 .. Len(q) - 1 /\ n \in 0 .. Len(q) - 1 /\ (n - 1) + 1 = n
        /\ n + 1 \in 1 .. Len(q) /\ (n + 1) - 1 = n /\ n \in 0 .. Len(q) /\ 1 \in 0 .. Len(q)
    BY <1>1
  <2>2. p[n] = o[n + 1] - o[1] /\ p[n - 1] = o[n] - o[1]
    BY <2>1 DEF Behind
  <2>3. o[n + 1] = o[n] + Footprint(Tail(q)[n])
    BY <1>1, <2>1 DEF Offsets
  <2>4. q[n + 1] \in Message /\ Tail(q)[n] \in Message
    BY <1>1, <2>1, ElementOfSeq
  <2>5. Footprint(Tail(q)[n]) \in Nat
    BY <2>4, MessageFacts
  <2> DEFINE x == o[n]
             y == o[1]
             F == Footprint(Tail(q)[n])
             u == p[n]
             v == p[n - 1]
  <2>6. x \in Nat /\ y \in Nat /\ F \in Nat /\ u = (x + F) - y /\ v = x - y
    BY <1>3, <2>1, <2>2, <2>3, <2>5
  <2> HIDE DEF x, y, F, u, v
  <2>7. u = v + F
    BY <2>6
  <2> QED
    BY <2>1, <2>7 DEF u, v, F
<1>8. Offsets(p, Tail(q))
  <2> HIDE DEF p
  <2> QED
    BY <1>1, <1>6, <1>7 DEF Offsets
<1> QED
  BY <1>1, <1>3, <1>4, <1>5, <1>8

LEMMA PopLaid ==
  ASSUME NEW f, NEW q, NEW o, Laid(ring, f, q, o), q # <<>>
  PROVE  /\ Laid(Cleared(f, o[1]), Wrap(f + o[1]), Tail(q), Behind(o, q))
         /\ IsRing(Cleared(f, o[1]))
<1> DEFINE t == o[1]
           u == o[Len(q)]
           r2 == Cleared(f, t)
           g == Wrap(f + t)
           p == Behind(o, q)
           s == Tail(q)
<1>1. /\ q \in Seq(Message) /\ f \in Pos /\ Offsets(o, q) /\ u <= Capacity
      /\ \A d \in Pos : u <= d => At(ring, f, d) = 0
  BY DEF Laid
<1>2. /\ s \in Seq(Message) /\ Len(s) = Len(q) - 1 /\ Offsets(p, s)
      /\ t \in Nat /\ t <= u /\ u \in Nat
  BY <1>1, BehindOffsets
<1>3. Capacity \in Nat /\ 8 < Capacity /\ t \in 0 .. Capacity
  <2>1. Capacity \in Nat /\ 8 < Capacity
    BY RingSizes
  <2> HIDE DEF t, u
  <2> QED
    BY <1>1, <1>2, <2>1
<1>4. /\ \A e \in Pos : At(r2, f, e) = IF e < t THEN 0 ELSE At(ring, f, e)
      /\ IsRing(r2)
  <2> HIDE DEF t
  <2>1. t \in Nat /\ t <= Capacity
    BY <1>2, <1>3
  <2> QED
    BY <1>1, <2>1, RingCleared
<1>5. Len(q) \in Nat \ {0} /\ p[Len(s)] = u - t
  <2>1. Len(q) \in Nat \ {0}
    BY <1>1, EmptySeq, LenProperties
  <2>2. Len(s) \in 0 .. Len(q) - 1 /\ Len(s) + 1 = Len(q)
    BY <1>2, <2>1
  <2> HIDE DEF s
  <2> QED
    BY <2>1, <2>2 DEF Behind
<1>6. p[Len(s)] <= Capacity
  <2> HIDE DEF t, u, p, s
  <2> QED
    BY <1>1, <1>2, <1>3, <1>5
<1>7. g \in Pos
  <2> HIDE DEF t
  <2> QED
    BY <1>1, <1>3, RingSizes DEF Pos, Wrap
<1>8. ASSUME NEW n \in 1 .. Len(s)
      PROVE  MessageAt(r2, g, p[n - 1], s[n])
  <2>1. /\ n + 1 \in 1 .. Len(q) /\ (n + 1) - 1 = n /\ s[n] = q[n + 1]
        /\ p[n - 1] = o[n] - t
    <3>1. /\ n \in Nat /\ n + 1 \in 1 .. Len(q) /\ n \in 1 .. Len(q) - 1 /\ (n + 1) - 1 = n
          /\ n - 1 \in 0 .. Len(q) - 1 /\ (n - 1) + 1 = n
      BY <1>2, <1>5
    <3>2. s[n] = q[n + 1]
      BY <1>1, <3>1, HeadTailProperties
    <3> QED
      BY <3>1, <3>2 DEF Behind
  <2>2. o[n] \in Nat /\ t <= o[n]
    <3>1. n \in 0 .. Len(q) /\ 1 \in 0 .. n
      BY <1>2, <1>5
    <3>2. Grown(o, n)
      BY <1>1, <3>1, OffsetsGrow
    <3>3. o[n] \in Nat /\ t + 9 * (n - 1) <= o[n]
      BY <3>1, <3>2 DEF Grown
    <3> DEFINE x == o[n]
    <3>4. x \in Nat /\ t + 9 * (n - 1) <= x
      BY <3>3
    <3> HIDE DEF x, t
    <3>5. t <= x
      BY <1>2, <3>1, <3>4
    <3> QED
      BY <3>4, <3>5 DEF x
  <2>3. ASSUME NEW k \in 1 .. Footprint(s[n])
        PROVE  At(r2, g, p[n - 1] + k - 1) = StoredByte(s[n], k)
    <3>1. /\ o[n] + k - 1 \in Pos /\ At(ring, f, o[n] + k - 1) = StoredByte(s[n], k)
      BY <2>1, InRing
    <3> DEFINE x == o[n]
               y == p[n - 1]
    <3>2. x + k - 1 \in Pos /\ y = x - t /\ x \in Nat /\ t <= x /\ k \in Nat /\ 1 <= k
      BY <2>1, <2>2, <3>1
    <3> HIDE DEF x, y, t
    <3>3. y + k - 1 \in Pos /\ t + (y + k - 1) = x + k - 1
      BY <1>2, <1>3, <3>2 DEF Pos
    <3>4. t + (y + k - 1) < Capacity /\ ~(x + k - 1 < t)
      BY <1>2, <1>3, <3>2, <3>3 DEF Pos
    <3> DEFINE e == y + k - 1
    <3>5. e \in Pos /\ t + e = x + k - 1 /\ t + e < Capacity
      BY <3>3, <3>4
    <3> HIDE DEF r2, e, g
    <3>6. At(r2, g, e) = At(r2, f, x + k - 1)
      <4>1. At(r2, g, e) = At(r2, f, t + e)
        BY <1>1, <1>3, <3>5, Shifted DEF g
      <4> QED
        BY <3>5, <4>1
    <3>7. At(r2, f, x + k - 1) = At(ring, f, x + k - 1)
      BY <1>4, <3>2, <3>4
    <3>8. At(r2, g, e) = StoredByte(s[n], k)
      BY <3>1, <3>6, <3>7 DEF x
    <3> QED
      BY <3>8 DEF e, y
  <2> QED
    BY <2>3 DEF MessageAt
<1>9. ASSUME NEW d \in Pos, p[Len(s)] <= d
      PROVE  At(r2, g, d) = 0
  <2>1. u - t <= d /\ d \in Nat
    BY <1>3, <1>5, <1>9 DEF Pos
  <2> HIDE DEF t, u, r2, g
  <2>2. CASE t + d < Capacity
    <3>1. At(r2, g, d) = At(r2, f, t + d)
      BY <1>1, <1>3, <2>2, Shifted DEF g
    <3>2. t + d \in Pos /\ u <= t + d /\ ~(t + d < t)
      BY <1>2, <1>3, <2>1, <2>2 DEF Pos
    <3> QED
      BY <1>1, <1>4, <3>1, <3>2
  <2>3. CASE ~(t + d < Capacity)
    <3>1. t + d >= Capacity
      BY <1>2, <1>3, <2>1, <2>3
    <3>2. /\ t + d - Capacity \in Pos /\ t + d - Capacity < t
          /\ At(r2, g, d) = At(r2, f, t + d - Capacity)
      BY <1>1, <1>3, <3>1, Shifted DEF g
    <3> QED
      BY <1>4, <3>2
  <2> QED
    BY <2>2, <2>3
<1>10. Laid(r2, g, s, p)
  <2> HIDE DEF r2, g, s, p
  <2> QED
    BY <1>2, <1>6, <1>7, <1>8, <1>9 DEF Laid
<1> QED
  BY <1>4, <1>10

\* Where the ring is empty, the place of the next message does not matter.
LEMMA EmptyLaid ==
  ASSUME NEW r, NEW f, NEW o, Laid(r, f, <<>>, o), NEW g \in Pos
  PROVE  Laid(r, g, <<>>, o)
<1>1. Len(<<>>) = 0
  BY EmptySeq
<1>2. /\ f \in Pos /\ <<>> \in Seq(Message) /\ Offsets(o, <<>>) /\ o[Len(<<>>)] <= Capacity
      /\ \A n \in 1 .. Len(<<>>) : MessageAt(r, f, o[n - 1], <<>>[n])
      /\ \A d \in Pos : o[Len(<<>>)] <= d => At(r, f, d) = 0
  BY DEF Laid
<1>3. o[Len(<<>>)] = 0
  BY <1>1, <1>2 DEF Offsets
<1>4. ASSUME NEW d \in Pos
      PROVE  At(r, g, d) = 0
  <2> DEFINE i == Wrap(g + d)
             e == Dist(f, i)
  <2>1. i \in Pos
    BY WrapDist
  <2> HIDE DEF i
  <2>2. e \in Pos /\ Wrap(f + e) = i
    BY <1>2, <2>1, DistMod
  <2> HIDE DEF e
  <2>3. 0 <= e
    BY <2>2, RingSizes DEF Pos
  <2>4. At(r, f, e) = 0
    BY <1>2, <1>3, <2>2, <2>3
  <2> QED
    BY <2>2, <2>4 DEF At, i
<1>5. \A n \in 1 .. Len(<<>>) : MessageAt(r, g, o[n - 1], <<>>[n])
  BY <1>1
<1> QED
  BY <1>2, <1>4, <1>5 DEF Laid

\* What the header at first_header says once the messages of q are laid from there on.
LEMMA FirstHeader ==
  ASSUME NEW r, NEW f, NEW q, NEW o, Laid(r, f, q, o)
  PROVE  IF q = <<>> THEN get_header(r, f) = 0
         ELSE get_header(r, f) = q[1].length /\ q[1] \in Message
<1>1. f \in Pos /\ q \in Seq(Message) /\ Offsets(o, q)
  BY DEF Laid
<1>2. f = Wrap(f + 0) /\ 0 \in Pos /\ 0 + 3 < Capacity /\ 0 \in Nat
  BY <1>1, RingSizes DEF Pos, Wrap
<1>3. CASE q = <<>>
  <2>1. o[Len(q)] = 0
    BY <1>1, <1>3, EmptySeq DEF Offsets
  <2>2. \A e \in Pos : 0 <= e => At(r, f, e) = 0
    BY <2>1 DEF Laid
  <2>3. get_header(r, Wrap(f + 0)) = 0
    BY <1>1, <1>2, <2>2, ZeroHeader
  <2> QED
    BY <1>2, <1>3, <2>3
<1>4. CASE q # <<>>
  <2>1. 1 \in 1 .. Len(q) /\ 1 - 1 = 0
    BY <1>1, <1>4, EmptySeq, LenProperties
  <2>2. /\ q[1] \in Message /\ o[0] = 0 /\ o[1] = o[0] + Footprint(q[1]) /\ o[1] <= Capacity
        /\ MessageAt(r, f, o[0], q[1])
    BY <1>1, <2>1, LaidFacts DEF Offsets
  <2>3. 0 + Footprint(q[1]) <= Capacity /\ MessageAt(r, f, 0, q[1])
    BY <2>2
  <2>4. get_header(r, Wrap(f + 0)) = q[1].length
    BY <1>1, <1>2, <2>2, <2>3, MessageHeader
  <2> QED
    BY <1>2, <1>4, <2>2, <2>4
<1> QED
  BY <1>3, <1>4

\* The bytes of the first message are read as they were stored.
LEMMA FirstBytes ==
  ASSUME NEW f, NEW q, NEW o, Laid(ring, f, q, o), q # <<>>
  PROVE  Bytes(f, Footprint(q[1])) = Stored(q[1])
<1>1. f \in Pos /\ q \in Seq(Message) /\ Offsets(o, q)
  BY DEF Laid
<1>2. 1 \in 1 .. Len(q) /\ 1 - 1 = 0 /\ o[0] = 0
  BY <1>1, EmptySeq, LenProperties DEF Offsets
<1>3. ASSUME NEW k \in 1 .. Footprint(q[1])
      PROVE  ring[(f + k - 1) % Capacity] = StoredByte(q[1], k)
  <2>1. o[0] + k - 1 \in Pos /\ At(ring, f, o[0] + k - 1) = StoredByte(q[1], k)
    BY <1>2, InRing
  <2> DEFINE e == k - 1
  <2>2. e \in Pos /\ At(ring, f, e) = StoredByte(q[1], k) /\ f + k - 1 = f + e
    <3>1. o[0] + k - 1 = e
      BY <1>2
    <3>2. f + k - 1 = f + e
      BY <1>1, RingSizes DEF Pos
    <3> QED
      BY <2>1, <3>1, <3>2
  <2> HIDE DEF e
  <2>3. f + e \in 0 .. 2 * Capacity - 1
    BY <1>1, <2>2, WrapDist
  <2>4. (f + e) % Capacity = Wrap(f + e)
    BY <2>3, WrapMod
  <2> QED
    BY <2>2, <2>4 DEF At
<1> QED
  BY <1>3 DEF Bytes, Stored

-----------------------------------------------------------------------------
(* The walk of push_message.                                               *)

Steps == Capacity \div (HdrSize + TidSize) + 1

Stopped(s) == s.p = NULL \/ s.count >= Capacity

Further(s) ==
  LET n == get_header(ring, s.p)
  IN  IF n = 0 THEN [s EXCEPT !.p = NULL]
      ELSE [p |-> get_next_message(s.p, n + TidSize),
            count |-> (s.count + n + TidSize) % WORD, last |-> s.p]

\* The recursion that defines Walk.
IsWalk(w) ==
  w = [i \in 0 .. Capacity \div (HdrSize + TidSize) + 1 |->
         IF i = 0 THEN [p |-> first_header, count |-> 0, last |-> NULL]
         ELSE LET s == w[i - 1] IN IF Stopped(s) THEN s ELSE Further(s)]

LEMMA StepsFacts == Steps \in Nat /\ \A n \in Nat : 9 * n <= Capacity => n < Steps
<1>1. Capacity \in Nat /\ HdrSize + TidSize = 9
  BY RingSizes DEF HdrSize, TidSize
<1>2. Steps = Capacity \div 9 + 1
  BY <1>1 DEF Steps
<1> DEFINE d == Capacity \div 9
<1>3. d \in Nat /\ Capacity < 9 * (d + 1) /\ Steps = d + 1
  BY <1>1, <1>2
<1> HIDE DEF d
<1> QED
  BY <1>1, <1>3

\* The recursion has one solution.
LEMMA WalkIs ==
  ASSUME NEW v, IsWalk(v)
  PROVE  Walk = v
<1> DEFINE w == CHOOSE f : IsWalk(f)
<1>1. Walk = w
  BY Zenon DEF Walk, IsWalk, Stopped, Further
<1>2. IsWalk(w)
  OBVIOUS
<1> HIDE DEF w
<1> DEFINE k == Steps
           H(s) == IF Stopped(s) THEN s ELSE Further(s)
           G(f, i) == IF i = 0 THEN [p |-> first_header, count |-> 0, last |-> NULL]
                      ELSE H(f[i - 1])
<1>3. w = [i \in 0 .. k |-> G(w, i)]
  BY <1>2, Zenon DEF IsWalk, Steps
<1>4. v = [i \in 0 .. k |-> G(v, i)]
  BY Zenon DEF IsWalk, Steps
<1>5. k \in Nat
  BY StepsFacts
<1> DEFINE S == {i \in 0 .. k : w[i] = v[i]}
<1> HIDE DEF k
<1>6. 0 \in S
  <2>1. w[0] = G(w, 0) /\ v[0] = G(v, 0)
    <3> HIDE DEF G
    <3>1. 0 \in 0 .. k
      BY <1>5
    <3>2. \A i \in 0 .. k : w[i] = G(w, i)
      BY <1>3, Zenon
    <3>3. \A i \in 0 .. k : v[i] = G(v, i)
      BY <1>4, Zenon
    <3> QED
      BY <3>1, <3>2, <3>3
  <2> QED
    BY <1>5, <2>1
<1>7. ASSUME NEW i \in 0 .. k, i \in S, i < k
      PROVE  i + 1 \in S
  <2>1. i + 1 \in 0 .. k /\ i + 1 # 0 /\ (i + 1) - 1 = i /\ w[i] = v[i]
    BY <1>5, <1>7
  <2>2. w[i + 1] = G(w, i + 1) /\ v[i + 1] = G(v, i + 1)
    <3> HIDE DEF G
    <3>2. \A j \in 0 .. k : w[j] = G(w, j)
      BY <1>3, Zenon
    <3>3. \A j \in 0 .. k : v[j] = G(v, j)
      BY <1>4, Zenon
    <3> QED
      BY <2>1, <3>2, <3>3
  <2>3. G(w, i + 1) = G(v, i + 1)
    <3> HIDE DEF H
    <3>1. G(w, i + 1) = H(w[i])
      BY <2>1
    <3>2. G(v, i + 1) = H(v[i])
      BY <2>1
    <3> HIDE DEF G
    <3> QED
      BY <2>1, <3>1, <3>2
  <2> HIDE DEF G
  <2> QED
    BY <2>1, <2>2, <2>3
<1>8. \A i \in 0 .. k : i \in S
  <2> HIDE DEF S
  <2> QED
    BY <1>5, <1>6, <1>7, InductionUpTo
<1>9. w = v
  <2>1. w = [i \in 0 .. k |-> w[i]]
    <3> HIDE DEF G
    <3> QED
      BY <1>3
  <2>2. v = [i \in 0 .. k |-> v[i]]
    <3> HIDE DEF G
    <3> QED
      BY <1>4
  <2>3. \A i \in 0 .. k : w[i] = v[i]
    BY <1>8
  <2> HIDE DEF G
  <2> QED
    BY <2>1, <2>2, <2>3, Zenon
<1> QED
  BY <1>1, <1>9

\* The state of the walk that has counted the first n messages, laid from f on at o.
Reached(f, o, n) ==
  [p |-> Wrap(f + o[n]), count |-> o[n], last |-> IF n = 0 THEN NULL ELSE Wrap(f + o[n - 1])]

\* The state it ends in: the ring is counted, or a length of zero is read.
Ended(f, q, o) ==
  IF o[Len(q)] = Capacity THEN Reached(f, o, Len(q))
  ELSE [Reached(f, o, Len(q)) EXCEPT !.p = NULL]

\* The bytes behind the last message, if any, are enough for a length to be read.
RoomForLength(q, o) == Capacity - o[Len(q)] \notin 1 .. 3

LEMMA ReachedNext ==
  ASSUME NEW f, NEW q, NEW o, Laid(ring, f, q, o), NEW n \in 1 .. Len(q)
  PROVE  /\ ~Stopped(Reached(f, o, n - 1))
         /\ Further(Reached(f, o, n - 1)) = Reached(f, o, n)
         /\ get_header(ring, Wrap(f + o[n - 1])) = q[n].length
<1> DEFINE x == o[n - 1]
           y == o[n]
           F == Footprint(q[n])
           l == q[n].length
           p == Wrap(f + x)
           s == Reached(f, o, n - 1)
<1>1. /\ x \in Nat /\ y \in Nat /\ y = x + F /\ y <= Capacity
      /\ q[n] \in Message /\ MessageAt(ring, f, x, q[n])
  BY LaidFacts
<1>2. F \in Nat /\ 9 <= F /\ F = l + 1 /\ l \in Nat /\ 8 <= l /\ TidSize = 1
  BY <1>1, MessageFacts DEF TidSize
<1>3. f \in Pos /\ Len(q) \in Nat /\ n # 0
  BY LenProperties DEF Laid
<1>4. /\ Capacity \in Nat /\ 8 < Capacity /\ WORD \in Nat /\ Capacity < WORD
  BY RingSizes
<1>5. s.p = p /\ s.count = x
  BY DEF Reached
<1>6. get_header(ring, p) = l
  <2>1. x + Footprint(q[n]) <= Capacity
    BY <1>1
  <2> HIDE DEF x
  <2> QED
    BY <1>1, <1>3, <2>1, MessageHeader DEF p
<1>7. p \in Pos /\ Wrap(p + F) = Wrap(f + y)
  <2> HIDE DEF x, y, F, l
  <2>1. x \in 0 .. Capacity /\ x + F <= Capacity /\ x \in Pos
    <3>1. x \in Nat /\ F \in Nat /\ 9 <= F /\ x + F <= Capacity
      BY <1>1, <1>2
    <3> QED
      BY <1>4, <3>1 DEF Pos
  <2> QED
    BY <1>1, <1>2, <1>3, <2>1, WrapAdd, WrapDist DEF p
<1>8. ~Stopped(s)
  <2>1. p # NULL /\ ~(x >= Capacity)
    <3> HIDE DEF x, y, F, p, l
    <3> QED
      BY <1>1, <1>2, <1>4, <1>7 DEF Pos, NULL
  <2> HIDE DEF s
  <2> QED
    BY <1>5, <2>1 DEF Stopped
<1>9. get_next_message(p, l + TidSize) = Wrap(p + F)
  <2>1. PICK k : k = l + TidSize
    OBVIOUS
  <2>2. k = F /\ k \in Nat
    BY <1>2, <2>1
  <2> HIDE DEF p, F, l
  <2>3. get_next_message(p, k) = Wrap(p + k)
    BY <1>4, <1>7, <2>2 DEF get_next_message, Wrap, Pos
  <2> QED
    BY <2>1, <2>2, <2>3
<1>10. (x + l + TidSize) % WORD = y
  <2> HIDE DEF x, y, F, l
  <2>1. x + l + TidSize = y /\ y < WORD
    BY <1>1, <1>2, <1>4
  <2> QED
    BY <1>1, <1>4, <2>1, SmallMod
<1>11. Further(s) = [p |-> Wrap(f + y), count |-> y, last |-> p]
  <2>1. l # 0
    BY <1>2
  <2>2. Further(s) = [p |-> get_next_message(p, l + TidSize),
                      count |-> (x + l + TidSize) % WORD, last |-> p]
    <3> HIDE DEF s, x, l, p
    <3> QED
      BY <1>5, <1>6, <2>1 DEF Further
  <2> HIDE DEF s, x, y, l, p, F
  <2> QED
    BY <1>7, <1>9, <1>10, <2>2
<1>12. Further(s) = Reached(f, o, n)
  BY <1>3, <1>11 DEF Reached
<1> QED
  BY <1>6, <1>8, <1>12

LEMMA ReachedEnd ==
  ASSUME NEW f, NEW q, NEW o, Laid(ring, f, q, o), RoomForLength(q, o)
  PROVE  LET s == Reached(f, o, Len(q))
         IN  /\ (IF Stopped(s) THEN s ELSE Further(s)) = Ended(f, q, o)
             /\ Stopped(Ended(f, q, o))
             /\ s.count < Capacity => get_header(ring, s.p) = 0
<1> DEFINE x == o[Len(q)]
           s == Reached(f, o, Len(q))
           p == Wrap(f + x)
<1>1. /\ f \in Pos /\ q \in Seq(Message) /\ Len(q) \in Nat /\ Offsets(o, q) /\ x <= Capacity
      /\ \A d \in Pos : x <= d => At(ring, f, d) = 0
  BY LenProperties DEF Laid
<1>2. x \in Nat
  BY <1>1, OffsetsGrow DEF Grown
<1>3. s.p = p /\ s.count = x
  BY DEF Reached
<1>4. Capacity \in Nat /\ 8 < Capacity
  BY RingSizes
<1>5. CASE x = Capacity
  <2>1. Stopped(s)
    BY <1>3, <1>4, <1>5 DEF Stopped
  <2>2. Ended(f, q, o) = s
    BY <1>5 DEF Ended
  <2>3. ~(s.count < Capacity)
    BY <1>3, <1>4, <1>5
  <2> QED
    BY <2>1, <2>2, <2>3
<1>6. CASE x # Capacity
  <2>1. x + 3 < Capacity /\ x \in Pos
    <3>1. Capacity - x \notin 1 .. 3
      BY DEF RoomForLength
    <3> HIDE DEF x
    <3> QED
      BY <1>1, <1>2, <1>4, <1>6, <3>1 DEF Pos
  <2>2. get_header(ring, p) = 0
    <3> HIDE DEF x
    <3> QED
      BY <1>1, <2>1, ZeroHeader DEF p
  <2>3. ~Stopped(s)
    <3>1. p \in Pos
      <4> HIDE DEF x
      <4> QED
        BY <1>1, <2>1, WrapDist DEF p
    <3>2. p # NULL /\ ~(x >= Capacity)
      <4> HIDE DEF x, p
      <4> QED
        BY <1>2, <1>4, <2>1, <3>1 DEF Pos, NULL
    <3> HIDE DEF s
    <3> QED
      BY <1>3, <3>2 DEF Stopped
  <2>4. Further(s) = [s EXCEPT !.p = NULL]
    <3> HIDE DEF s
    <3> QED
      BY <1>3, <2>2 DEF Further
  <2>5. Ended(f, q, o) = [s EXCEPT !.p = NULL]
    BY <1>6 DEF Ended
  <2>6. Ended(f, q, o).p = NULL
    BY <2>5 DEF Reached
  <2>7. Stopped(Ended(f, q, o))
    BY <2>6 DEF Stopped
  <2>8. /\ (IF Stopped(s) THEN s ELSE Further(s)) = Ended(f, q, o)
        /\ s.count < Capacity => get_header(ring, s.p) = 0
    <3> HIDE DEF s, p
    <3> QED
      BY <1>3, <2>2, <2>3, <2>4, <2>5
  <2> QED
    BY <2>7, <2>8
<1> QED
  BY <1>5, <1>6

\* The walk passes every message and ends behind the last one.
LEMMA WalkCorrect ==
  ASSUME NEW f, NEW q, NEW o, Laid(ring, f, q, o), RoomForLength(q, o), f = first_header
  PROVE  /\ Walk = [i \in 0 .. Steps |-> IF i <= Len(q) THEN Reached(f, o, i)
                                         ELSE Ended(f, q, o)]
         /\ Len(q) < Steps /\ Steps \in Nat
<1> DEFINE N == Len(q)
           v == [i \in 0 .. Steps |-> IF i <= N THEN Reached(f, o, i) ELSE Ended(f, q, o)]
           e(s) == IF Stopped(s) THEN s ELSE Further(s)
<1>1. /\ f \in Pos /\ q \in Seq(Message) /\ N \in Nat /\ Offsets(o, q) /\ o[N] <= Capacity
      /\ o[0] = 0
  BY LenProperties DEF Laid, Offsets
<1>2. Steps \in Nat /\ N < Steps
  <2>1. Grown(o, N)
    BY <1>1, OffsetsGrow
  <2>2. o[0] + 9 * (N - 0) <= o[N] /\ o[N] \in Nat
    BY <1>1, <2>1 DEF Grown
  <2> DEFINE x == o[N]
             y == o[0]
  <2>3. y + 9 * (N - 0) <= x /\ x \in Nat /\ x <= Capacity /\ y = 0
    BY <1>1, <2>2
  <2> HIDE DEF N, x, y
  <2>4. 9 * N <= Capacity
    BY <1>1, <2>3, RingSizes
  <2> QED
    BY <1>1, <2>4, StepsFacts
<1> HIDE DEF N
<1>3. Reached(f, o, 0) = [p |-> first_header, count |-> 0, last |-> NULL]
  <2>1. Wrap(f + o[0]) = f
    BY <1>1, RingSizes DEF Wrap, Pos
  <2> QED
    BY <1>1, <2>1 DEF Reached
<1>4. ASSUME NEW i \in 0 .. Steps, i # 0
      PROVE  v[i] = e(v[i - 1])
  <2>1. i - 1 \in 0 .. Steps /\ i \in Nat
    BY <1>2, <1>4
  <2>2. CASE i <= N
    <3>1. i \in 1 .. Len(q) /\ i - 1 <= N
      BY <1>1, <1>4, <2>1, <2>2 DEF N
    <3>2. v[i] = Reached(f, o, i) /\ v[i - 1] = Reached(f, o, i - 1)
      BY <2>1, <2>2, <3>1
    <3>3. e(Reached(f, o, i - 1)) = Reached(f, o, i)
      BY <3>1, ReachedNext
    <3> HIDE DEF v, e
    <3> QED
      BY <3>2, <3>3
  <2>3. CASE i = N + 1
    <3>1. i - 1 = Len(q) /\ i - 1 <= N /\ ~(i <= N)
      BY <1>1, <2>3 DEF N
    <3>2. v[i] = Ended(f, q, o) /\ v[i - 1] = Reached(f, o, Len(q))
      BY <2>1, <3>1
    <3>3. e(Reached(f, o, Len(q))) = Ended(f, q, o)
      BY ReachedEnd
    <3> HIDE DEF v, e
    <3> QED
      BY <3>2, <3>3
  <2>4. CASE i > N + 1
    <3>1. ~(i - 1 <= N) /\ ~(i <= N)
      BY <1>1, <2>1, <2>4
    <3>2. v[i] = Ended(f, q, o) /\ v[i - 1] = Ended(f, q, o)
      BY <2>1, <3>1
    <3>3. e(Ended(f, q, o)) = Ended(f, q, o)
      BY ReachedEnd
    <3> HIDE DEF v, e
    <3> QED
      BY <3>2, <3>3
  <2> QED
    BY <1>1, <2>1, <2>2, <2>3, <2>4
<1>5. v[0] = [p |-> first_header, count |-> 0, last |-> NULL]
  BY <1>1, <1>2, <1>3
<1>6. IsWalk(v)
  <2>1. v = [i \in 0 .. Steps |-> v[i]]
    OBVIOUS
  <2> HIDE DEF v
  <2>2. v = [i \in 0 .. Steps |->
              IF i = 0 THEN [p |-> first_header, count |-> 0, last |-> NULL] ELSE e(v[i - 1])]
    <3> HIDE DEF e
    <3> DEFINE z == [p |-> first_header, count |-> 0, last |-> NULL]
    <3>1. v[0] = z
      BY <1>5
    <3> HIDE DEF z
    <3>2. v = [i \in 0 .. Steps |-> IF i = 0 THEN z ELSE e(v[i - 1])]
      BY <1>4, <2>1, <3>1
    <3> QED
      BY <3>2 DEF z
  <2> QED
    BY <2>2, Zenon DEF IsWalk, Steps
<1> QED
  BY <1>2, <1>6, WalkIs DEF N

-----------------------------------------------------------------------------
(* The bytes that messages take up.                                        *)

Total(q) ==
  LET sum[n \in 0 .. Len(q)] == IF n = 0 THEN 0 ELSE sum[n - 1] + Footprint(q[n])
  IN  sum[Len(q)]

\* The function f satisfies the recursion that defines Total.
SumsUp(f, q) ==
  f = [n \in 0 .. Len(q) |-> IF n = 0 THEN 0 ELSE f[n - 1] + Footprint(q[n])]

LEMMA TotalIs ==
  ASSUME NEW q \in Seq(Message), NEW o, Offsets(o, q)
  PROVE  Total(q) = o[Len(q)]
<1> DEFINE N == Len(q)
           F(n) == Footprint(q[n])
           f == [n \in 0 .. N |-> o[n]]
           g == CHOOSE h : SumsUp(h, q)
<1>1. N \in Nat
  BY LenProperties
<1>2. o[0] = 0 /\ \A n \in 1 .. N : n - 1 \in 0 .. N /\ o[n] = o[n - 1] + F(n)
  BY DEF Offsets
<1>3. SumsUp(f, q)
  <2> HIDE DEF N, F
  <2>1. \A n \in 0 .. N : f[n] = IF n = 0 THEN 0 ELSE f[n - 1] + F(n)
    BY <1>1, <1>2
  <2>2. f = [n \in 0 .. N |-> IF n = 0 THEN 0 ELSE f[n - 1] + F(n)]
    BY <2>1
  <2> QED
    BY <2>2 DEF SumsUp, N, F
<1>4. SumsUp(g, q)
  <2> HIDE DEF f
  <2> QED
    BY <1>3
<1>5. Total(q) = g[Len(q)]
  BY Zenon DEF Total, SumsUp
<1> HIDE DEF g
<1>6. g = [n \in 0 .. N |-> IF n = 0 THEN 0 ELSE g[n - 1] + F(n)]
  BY <1>4 DEF SumsUp
<1> DEFINE S == {n \in 0 .. N : g[n] = o[n]}
<1> HIDE DEF N, F
<1>7. g[0] = 0 /\ \A n \in 1 .. N : g[n] = g[n - 1] + F(n)
  BY <1>1, <1>6
<1>8. 0 \in S
  BY <1>1, <1>2, <1>7
<1>9. ASSUME NEW n \in 0 .. N, n \in S, n < N
      PROVE  n + 1 \in S
  BY <1>1, <1>2, <1>7, <1>9
<1>10. \A n \in 0 .. N : n \in S
  <2> HIDE DEF S
  <2> QED
    BY <1>1, <1>8, <1>9, InductionUpTo
<1>11. g[N] = o[N]
  BY <1>1, <1>10
<1> QED
  BY <1>5, <1>11 DEF N

\* No messages leave one to three bytes of the ring unused: the length that is read
\* behind the last message is then all inside of the ring or all in a message.
NoGap == \A q \in Seq(Message) : Capacity - Total(q) \notin 1 .. 3

\* The messages of q are laid at the offsets o from first_header on.
Ringed(q, o) ==
  /\ first_header \in Pos \cup {NULL}
  /\ first_header = NULL <=> q = <<>>
  /\ Laid(ring, IF first_header = NULL THEN 0 ELSE first_header, q, o)

LEMMA GapFree ==
  ASSUME NoGap, NEW r, NEW f, NEW q, NEW o, Laid(r, f, q, o)
  PROVE  RoomForLength(q, o)
<1>1. q \in Seq(Message) /\ Offsets(o, q)
  BY DEF Laid
<1>2. Total(q) = o[Len(q)]
  BY <1>1, TotalIs
<1>3. Capacity - Total(q) \notin 1 .. 3
  BY <1>1 DEF NoGap
<1> QED
  BY <1>2, <1>3 DEF RoomForLength

\* What the walk adds up is what the messages take up.
LEMMA SpaceIs ==
  ASSUME NoGap, NEW q, NEW o, Ringed(q, o)
  PROVE  /\ space_remaining = Capacity - o[Len(q)]
         /\ o[Len(q)] \in Nat /\ o[Len(q)] <= Capacity
         /\ q # <<>> => WalkEnd.last = Wrap(first_header + o[Len(q) - 1])
<1> DEFINE x == o[Len(q)]
           f == IF first_header = NULL THEN 0 ELSE first_header
<1>1. Laid(ring, f, q, o) /\ (first_header = NULL <=> q = <<>>)
  BY DEF Ringed
<1>2. /\ q \in Seq(Message) /\ Offsets(o, q) /\ x <= Capacity /\ Len(q) \in Nat
  <2> HIDE DEF f
  <2> QED
    BY <1>1, LenProperties DEF Laid
<1>3. x \in Nat
  BY <1>2, OffsetsGrow DEF Grown
<1>4. /\ Capacity \in Nat /\ WORD \in Nat /\ Capacity < WORD
  BY RingSizes
<1>5. CASE q = <<>>
  <2>1. x = 0 /\ first_header = NULL
    BY <1>1, <1>2, <1>5, EmptySeq DEF Offsets
  <2>2. space_remaining = Capacity
    BY <2>1 DEF space_remaining
  <2> HIDE DEF x, f
  <2>3. space_remaining = Capacity - x
    BY <1>4, <2>1, <2>2
  <2> QED
    BY <1>2, <1>3, <1>5, <2>3 DEF x
<1>6. CASE q # <<>>
  <2>1. f = first_header /\ first_header # NULL
    BY <1>1, <1>6
  <2>2. RoomForLength(q, o)
    <3> HIDE DEF f
    <3> QED
      BY <1>1, GapFree
  <2>3. /\ Walk = [i \in 0 .. Steps |-> IF i <= Len(q) THEN Reached(f, o, i)
                                        ELSE Ended(f, q, o)]
        /\ Len(q) < Steps /\ Steps \in Nat
    <3> HIDE DEF f
    <3> QED
      BY <1>1, <2>1, <2>2, WalkCorrect
  <2>4. WalkEnd = Ended(f, q, o)
    <3> HIDE DEF f
    <3>1. Walk[Steps] = Ended(f, q, o)
      BY <1>2, <2>3
    <3> QED
      BY <3>1 DEF WalkEnd, Steps
  <2>5. Len(q) # 0
    BY <1>2, <1>6, EmptySeq
  <2>6. WalkEnd.count = x /\ WalkEnd.last = Wrap(f + o[Len(q) - 1])
    <3> HIDE DEF f
    <3> QED
      BY <2>4, <2>5 DEF Ended, Reached
  <2>7. (Capacity - x) % WORD = Capacity - x
    <3> HIDE DEF x
    <3>1. Capacity - x \in Nat /\ Capacity - x < WORD
      BY <1>2, <1>3, <1>4
    <3> QED
      BY <1>4, <3>1, SmallMod
  <2>8. space_remaining = Capacity - x
    <3> HIDE DEF x, f
    <3> QED
      BY <2>1, <2>6, <2>7 DEF space_remaining
  <2> QED
    BY <1>2, <1>3, <2>1, <2>6, <2>8
<1> QED
  BY <1>5, <1>6

-----------------------------------------------------------------------------
(* Putting a message in.                                                   *)

\* Where push_message writes.
StartOf ==
  LET last == WalkEnd.last
      behind == last + get_header(ring, last) + TidSize
  IN  IF first_header = NULL THEN 0
      ELSE IF behind > Capacity THEN behind - Capacity ELSE behind

LEMMA StartIs ==
  ASSUME NoGap, NEW q, NEW o, Ringed(q, o)
  PROVE  StartsAt(StartOf, IF first_header = NULL THEN 0 ELSE first_header, o[Len(q)])
<1> DEFINE x == o[Len(q)]
           f == IF first_header = NULL THEN 0 ELSE first_header
<1>1. Laid(ring, f, q, o) /\ (first_header = NULL <=> q = <<>>)
  BY DEF Ringed
<1>2. /\ q \in Seq(Message) /\ Offsets(o, q) /\ x <= Capacity /\ Len(q) \in Nat /\ f \in Pos
  <2> HIDE DEF f
  <2> QED
    BY <1>1, LenProperties DEF Laid
<1>3. Capacity \in Nat /\ 8 < Capacity
  BY RingSizes
<1>4. CASE q = <<>>
  <2>1. x = 0 /\ first_header = NULL
    BY <1>1, <1>2, <1>4, EmptySeq DEF Offsets
  <2>2. StartOf = 0 /\ f = 0
    BY <2>1 DEF StartOf
  <2> HIDE DEF x, f
  <2>3. StartsAt(0, 0, 0)
    BY <1>3 DEF StartsAt, Wrap
  <2>4. StartsAt(StartOf, f, x)
    BY <2>1, <2>2, <2>3
  <2> QED
    BY <2>4 DEF x, f
<1>5. CASE q # <<>>
  <2> DEFINE n == Len(q)
             y == o[n - 1]
             l == q[n].length
             F == Footprint(q[n])
             p == Wrap(f + y)
  <2>1. n \in 1 .. Len(q) /\ f = first_header /\ first_header # NULL
    BY <1>1, <1>2, <1>5, EmptySeq
  <2>2. /\ get_header(ring, p) = l /\ q[n] \in Message /\ y \in Nat /\ x = y + F
    <3> HIDE DEF f
    <3>1. get_header(ring, p) = l
      BY <1>1, <2>1, ReachedNext
    <3> HIDE DEF l, F, p
    <3>2. q[n] \in Message /\ y \in Nat /\ x = y + F
      BY <1>1, <2>1, LaidFacts DEF F
    <3> QED
      BY <3>1, <3>2
  <2>3. F \in Nat /\ F = l + 1 /\ 9 <= F /\ l \in Nat /\ TidSize = 1
    BY <2>2, MessageFacts DEF TidSize
  <2>4. WalkEnd.last = p
    BY <1>5, <2>1, SpaceIs
  <2> HIDE DEF x, y, l, F, f, n
  <2>5. p \in Pos /\ Wrap(p + F) = Wrap(f + x)
    <3>1. y \in 0 .. Capacity /\ y + F <= Capacity /\ y \in Pos
      BY <1>2, <1>3, <2>2, <2>3 DEF Pos
    <3> QED
      BY <1>2, <2>2, <2>3, <3>1, WrapAdd, WrapDist
  <2> HIDE DEF p
  <2> DEFINE w == WalkEnd.last
             h == get_header(ring, w)
             z == w + h + TidSize
             st == StartOf
  <2>6. st = IF z > Capacity THEN z - Capacity ELSE z
    BY <2>1 DEF StartOf
  <2>7. w = p /\ h = l
    BY <2>2, <2>4
  <2> HIDE DEF w, h
  <2>8. z \in Nat /\ z <= 2 * Capacity - 1 /\ Wrap(z) = Wrap(f + x)
    <3>1. z = p + F
      BY <1>3, <2>3, <2>5, <2>7 DEF Pos
    <3>2. F <= Capacity
      BY <1>2, <1>3, <2>2, <2>3
    <3> HIDE DEF z
    <3>3. z \in Nat /\ z <= 2 * Capacity - 1
      BY <1>3, <2>3, <2>5, <3>1, <3>2 DEF Pos
    <3> QED
      BY <2>5, <3>1, <3>3
  <2> HIDE DEF z, st
  <2>9. st \in 0 .. Capacity /\ (st = Wrap(z) \/ (st = Capacity /\ Wrap(z) = 0))
    BY <1>3, <2>6, <2>8 DEF Wrap
  <2>10. StartsAt(st, f, x)
    BY <2>8, <2>9 DEF StartsAt
  <2> QED
    BY <2>10 DEF st, f, x, n
<1> QED
  BY <1>4, <1>5

LEMMA PushWrites ==
  ASSUME NoGap, NEW q, NEW o, Ringed(q, o), NEW m \in Message, push_message(m)
  PROVE  LET f == IF first_header = NULL THEN 0 ELSE first_header
         IN  /\ first_header' = f /\ (overrun = FALSE => overrun' = FALSE) /\ buffer' = buffer
             /\ o[Len(q)] + Footprint(m) <= Capacity
             /\ Overwritten(ring, ring', f, o[Len(q)], Footprint(m), Stored(m))
             /\ IsRing(ring')
<1> DEFINE x == o[Len(q)]
           f == IF first_header = NULL THEN 0 ELSE first_header
           F == Footprint(m)
           n == BeforeWrap(StartOf, F)
           b == Stored(m)
           a == SubSeq(b, 1, n)
           z == SubSeq(b, n + 1, F)
           fitted == StartOf + n <= Capacity
<1>1. /\ Accepts(m) /\ first_header' = f /\ overrun' = (overrun \/ ~fitted)
      /\ ring' = IF fitted THEN Write(Write(ring, StartOf, a), 0, z) ELSE ring
      /\ buffer' = buffer
  BY DEF push_message, StartOf
<1>2. /\ Laid(ring, f, q, o) /\ f \in Pos
  <2>1. Laid(ring, f, q, o)
    BY DEF Ringed
  <2> HIDE DEF f
  <2> QED
    BY <2>1 DEF Laid
<1>3. StartsAt(StartOf, f, x)
  BY StartIs
<1>4. x \in Nat /\ x <= Capacity /\ space_remaining = Capacity - x
  BY SpaceIs
<1>5. F \in Nat /\ 9 <= F /\ Capacity \in Nat /\ WORD \in Nat /\ Capacity < WORD
  BY MessageFacts, RingSizes
<1>6. x + F <= Capacity
  <2>1. Capacity - x >= F
    BY <1>1, <1>4 DEF Accepts
  <2> HIDE DEF x, F
  <2> QED
    BY <1>4, <1>5, <2>1
<1>7. StartOf \in Nat /\ StartOf <= Capacity
  <2> HIDE DEF x, f
  <2> QED
    BY <1>3, <1>5 DEF StartsAt
<1> DEFINE s == StartOf
<1> HIDE DEF s, x, f, F
<1>8. n = Fore(s, F) /\ n \in Nat /\ n <= F /\ s + n <= Capacity
  <2>1. CASE s + F < Capacity
    BY <1>5, <1>7, <2>1 DEF BeforeWrap, Fore, s
  <2>2. CASE ~(s + F < Capacity)
    <3>1. F - (s + F - Capacity) = Capacity - s
      BY <1>5, <1>7 DEF s
    <3>2. Capacity - s \in Nat /\ Capacity - s < WORD
      BY <1>5, <1>7 DEF s
    <3>3. (Capacity - s) % WORD = Capacity - s
      BY <1>5, <3>2, SmallMod
    <3>4. BeforeWrap(s, F) = Capacity - s
      BY <2>2, <3>1, <3>3 DEF BeforeWrap
    <3>5. n = Capacity - s
      BY <3>4 DEF s
    <3> HIDE DEF n
    <3> QED
      BY <1>5, <1>6, <1>7, <2>2, <3>5 DEF Fore, s
  <2> QED
    BY <2>1, <2>2
<1> HIDE DEF n
<1>9. b \in Seq(Nat) /\ Len(b) = F
  <2>1. b \in [1 .. F -> Nat] /\ DOMAIN b = 1 .. F
    BY StoredFacts DEF Stored, F
  <2>2. b \in Seq(Nat)
    BY <1>5, <2>1, SeqDef
  <2> QED
    BY <1>5, <2>1, <2>2, LenProperties
<1> HIDE DEF b
<1>10. PartOf(a, b, 0, n)
  <2>1. Len(a) = n /\ \A i \in 1 .. n : a[i] = b[i]
    BY <1>5, <1>8, <1>9
  <2>2. \A i \in 1 .. n : 0 + i = i
    BY <1>8
  <2> HIDE DEF a
  <2> QED
    BY <2>1, <2>2 DEF PartOf
<1>11. PartOf(z, b, n, F - n)
  <2> DEFINE u == n + 1
  <2>1. u \in Int /\ F \in Int /\ n \in Nat /\ u = n + 1 /\ u <= F + 1
    BY <1>5, <1>8
  <2>2. \A i \in u .. F : b[i] \in Nat
    BY <1>9, <2>1, ElementOfSeq
  <2> HIDE DEF u
  <2> DEFINE y == SubSeq(b, u, F)
  <2>3. /\ Len(y) = IF u <= F THEN F - u + 1 ELSE 0
        /\ \A i \in 1 .. F - u + 1 : y[i] = b[u + i - 1]
    BY <2>1, <2>2, SubSeqProperties
  <2> HIDE DEF y
  <2>4. Len(y) = F - n
    BY <1>5, <2>1, <2>3
  <2>5. \A i \in 1 .. F - n : y[i] = b[n + i]
    <3>1. SUFFICES ASSUME NEW i \in 1 .. F - n PROVE y[i] = b[n + i]
      OBVIOUS
    <3>2. i \in 1 .. F - u + 1 /\ u + i - 1 = n + i
      BY <1>5, <2>1
    <3> QED
      BY <2>3, <3>2
  <2>6. z = y
    BY DEF y, u
  <2> HIDE DEF z
  <2> QED
    BY <2>4, <2>5, <2>6 DEF PartOf
<1>12. fitted
  BY <1>8 DEF s
<1>13. overrun = FALSE => overrun' = FALSE
  <2> HIDE DEF fitted
  <2> QED
    BY <1>1, <1>12, Zenon
<1>18. ring' = Write(Write(ring, s, a), 0, z)
  <2> HIDE DEF fitted, a, z
  <2>1. ring' = Write(Write(ring, StartOf, a), 0, z)
    BY <1>1, <1>12
  <2> QED
    BY <2>1 DEF s
<1> HIDE DEF a, z, fitted
<1>14. Overwritten(ring, ring', f, x, F, b)
  <2>1. x \in 0 .. Capacity /\ PartOf(a, b, 0, Fore(s, F)) /\ PartOf(z, b, Fore(s, F), F - Fore(s, F))
    BY <1>4, <1>5, <1>8, <1>10, <1>11
  <2>2. StartsAt(s, f, x)
    BY <1>3 DEF s
  <2> QED
    BY <1>2, <1>5, <1>6, <1>18, <2>1, <2>2, RingWritten
<1>15. IsRing(ring')
  BY <1>18, WriteIsRing
<1>16. first_header' = f /\ buffer' = buffer
  BY <1>1
<1> QED
  BY <1>6, <1>13, <1>14, <1>15, <1>16 DEF f, x, F, b

\* The offsets with the message m behind those of q.
Extended(o, q, m) ==
  [n \in 0 .. Len(q) + 1 |-> IF n <= Len(q) THEN o[n] ELSE o[Len(q)] + Footprint(m)]

LEMMA PushLaid ==
  ASSUME NEW r, NEW f, NEW q, NEW o, Laid(r, f, q, o), NEW m \in Message,
         o[Len(q)] + Footprint(m) <= Capacity, NEW r2,
         Overwritten(r, r2, f, o[Len(q)], Footprint(m), Stored(m))
  PROVE  Laid(r2, f, Append(q, m), Extended(o, q, m))
<1> DEFINE N == Len(q)
           x == o[Len(q)]
           F == Footprint(m)
           p == Extended(o, q, m)
           s == Append(q, m)
<1>1. /\ q \in Seq(Message) /\ N \in Nat /\ f \in Pos /\ Offsets(o, q) /\ x <= Capacity
      /\ \A n \in 0 .. N : o[n] \in Nat
      /\ \A d \in Pos : x <= d => At(r, f, d) = 0
  <2>1. q \in Seq(Message) /\ N \in Nat /\ Offsets(o, q)
    BY LenProperties DEF Laid
  <2>2. \A n \in 0 .. N : Grown(o, n)
    BY <2>1, OffsetsGrow
  <2>3. \A n \in 0 .. N : o[n] \in Nat
    BY <2>1, <2>2 DEF Grown
  <2> QED
    BY <2>1, <2>3 DEF Laid
<1>2. F \in Nat /\ 9 <= F /\ Capacity \in Nat
  BY MessageFacts, RingSizes
<1>3. s \in Seq(Message) /\ Len(s) = N + 1 /\ s[N + 1] = m /\ \A n \in 1 .. N : s[n] = q[n]
  BY <1>1, AppendProperties
<1>4. /\ \A n \in 0 .. N : p[n] = o[n]
      /\ p[N + 1] = x + F
  <2>1. N + 1 \in 0 .. N + 1 /\ ~(N + 1 <= N)
    BY <1>1
  <2>2. \A n \in 0 .. N : n \in 0 .. N + 1 /\ n <= N
    BY <1>1
  <2> QED
    BY <2>1, <2>2 DEF Extended
<1>5. x \in Nat /\ x + F <= Capacity
  BY <1>1
<1> HIDE DEF p, s
<1>6. ASSUME NEW n \in 1 .. Len(s)
      PROVE  n - 1 \in 0 .. Len(s) /\ p[n] = p[n - 1] + Footprint(s[n])
  <2>1. n \in 1 .. N + 1 /\ n - 1 \in 0 .. N /\ n - 1 \in 0 .. Len(s)
    BY <1>1, <1>3
  <2>2. CASE n \in 1 .. N
    <3>1. p[n] = o[n] /\ p[n - 1] = o[n - 1] /\ s[n] = q[n]
      BY <1>1, <1>3, <1>4, <2>1, <2>2
    <3>2. o[n] = o[n - 1] + Footprint(q[n])
      BY <1>1, <2>2 DEF Offsets
    <3> QED
      BY <2>1, <3>1, <3>2
  <2>3. CASE n = N + 1
    <3>1. n - 1 = N /\ p[n - 1] = x /\ p[n] = x + F /\ s[n] = m
      BY <1>1, <1>3, <1>4, <2>1, <2>3
    <3> QED
      BY <2>1, <3>1
  <2> QED
    BY <1>1, <2>1, <2>2, <2>3
<1>7. Offsets(p, s)
  <2>1. p[0] = 0
    BY <1>1, <1>4 DEF Offsets
  <2> QED
    BY <1>6, <2>1 DEF Offsets
<1>8. ASSUME NEW e \in Pos
      PROVE  At(r2, f, e) = IF x <= e /\ e < x + F THEN StoredByte(m, e - x + 1) ELSE At(r, f, e)
  <2>1. At(r2, f, e) = IF x <= e /\ e < x + F THEN Stored(m)[e - x + 1] ELSE At(r, f, e)
    BY <1>8 DEF Overwritten
  <2>2. x <= e /\ e < x + F => e - x + 1 \in 1 .. F
    <3> HIDE DEF x, F
    <3> QED
      BY <1>2, <1>5, <1>8 DEF Pos
  <2>3. x <= e /\ e < x + F => Stored(m)[e - x + 1] = StoredByte(m, e - x + 1)
    BY <2>2 DEF Stored
  <2> QED
    BY <2>1, <2>3
<1>9. ASSUME NEW n \in 1 .. Len(s)
      PROVE  MessageAt(r2, f, p[n - 1], s[n])
  <2>1. n \in 1 .. N + 1 /\ n - 1 \in 0 .. N
    BY <1>1, <1>3
  <2>2. CASE n \in 1 .. N
    <3>1. p[n - 1] = o[n - 1] /\ s[n] = q[n]
      BY <1>3, <1>4, <2>1, <2>2
    <3>2. ASSUME NEW k \in 1 .. Footprint(q[n])
          PROVE  At(r2, f, o[n - 1] + k - 1) = StoredByte(q[n], k)
      <4> DEFINE e == o[n - 1] + k - 1
      <4>1. e \in Pos /\ e < x /\ At(r, f, e) = StoredByte(q[n], k)
        BY <2>2, <3>2, InRing
      <4> HIDE DEF e, x, F
      <4>2. ~(x <= e)
        BY <1>2, <1>5, <4>1 DEF Pos
      <4>3. At(r2, f, e) = At(r, f, e)
        BY <1>8, <4>1, <4>2
      <4> QED
        BY <4>1, <4>3 DEF e
    <3> QED
      BY <3>1, <3>2 DEF MessageAt
  <2>3. CASE n = N + 1
    <3>1. p[n - 1] = x /\ s[n] = m
      BY <1>1, <1>3, <1>4, <2>3
    <3>2. ASSUME NEW k \in 1 .. F
          PROVE  At(r2, f, x + k - 1) = StoredByte(m, k)
      <4> HIDE DEF x, F
      <4> DEFINE e == x + k - 1
      <4>1. e \in Pos /\ x <= e /\ e < x + F /\ e - x + 1 = k
        BY <1>2, <1>5, <3>2 DEF Pos
      <4> HIDE DEF e
      <4>2. At(r2, f, e) = StoredByte(m, e - x + 1)
        BY <1>8, <4>1
      <4>3. At(r2, f, e) = StoredByte(m, k)
        BY <4>1, <4>2
      <4> QED
        BY <4>3 DEF e
    <3> QED
      BY <3>1, <3>2 DEF MessageAt
  <2> QED
    BY <1>1, <2>1, <2>2, <2>3
<1>10. ASSUME NEW d \in Pos, p[Len(s)] <= d
       PROVE  At(r2, f, d) = 0
  <2>1. p[Len(s)] = x + F
    BY <1>3, <1>4
  <2> HIDE DEF x, F
  <2>2. x <= d /\ ~(d < x + F)
    BY <1>2, <1>5, <1>10, <2>1 DEF Pos
  <2> QED
    BY <1>1, <1>8, <2>2
<1>11. p[Len(s)] <= Capacity
  BY <1>3, <1>4, <1>5
<1>12. Laid(r2, f, s, p)
  BY <1>1, <1>3, <1>7, <1>9, <1>10, <1>11 DEF Laid
<1> QED
  BY <1>12 DEF s, p

-----------------------------------------------------------------------------
(* Reading the messages back from the ring.                                *)

\* Going back from the byte at distance d.
LEMMA BackMod ==
  ASSUME NEW f \in Pos, NEW d \in Pos, NEW j \in 0 .. d
  PROVE  /\ (Wrap(f + d) - j) % Capacity = Wrap(f + (d - j))
         /\ (Wrap(f + d) - j - f) % Capacity = d - j
<1> DEFINE i == Wrap(f + d)
           t == Wrap(f + (d - j))
<1>1. /\ Capacity \in Nat /\ 8 < Capacity /\ f \in Nat /\ f < Capacity
      /\ d \in Nat /\ d < Capacity /\ j \in Nat /\ j <= d
  BY RingSizes DEF Pos
<1>2. /\ i \in Int /\ (i - j = t \/ i - j = t - Capacity) /\ t \in Nat /\ t < Capacity
      /\ (i - j - f = d - j \/ i - j - f = d - j - Capacity)
  BY <1>1 DEF Wrap
<1> HIDE DEF i, t
<1>3. \A x \in Nat : x < Capacity => x % Capacity = x /\ (x - Capacity) % Capacity = x
  BY <1>1
<1>4. d - j \in Nat /\ d - j < Capacity
  BY <1>1
<1> DEFINE x == d - j
           a == i - j
           b == i - j - f
<1>5. /\ x \in Nat /\ x < Capacity /\ (b = x \/ b = x - Capacity)
      /\ (a = t \/ a = t - Capacity)
  BY <1>2, <1>4
<1> HIDE DEF x, a, b
<1>6. a % Capacity = t /\ b % Capacity = x
  BY <1>2, <1>3, <1>5
<1> QED
  BY <1>6 DEF x, a, b, i, t

\* A byte in use belongs to a message.
LEMMA BelongsTo ==
  ASSUME NEW r, NEW f, NEW q, NEW o, Laid(r, f, q, o), NEW d \in Nat, d < o[Len(q)]
  PROVE  \E n \in 1 .. Len(q) : /\ d - o[n - 1] + 1 \in 1 .. Footprint(q[n])
                                /\ o[n - 1] + (d - o[n - 1] + 1) - 1 = d
<1> DEFINE N == Len(q)
           T == {n \in 0 .. N : d < o[n]}
<1>1. /\ N \in Nat /\ o[0] = 0 /\ \A n \in 0 .. N : o[n] \in Nat
  <2>1. q \in Seq(Message) /\ Len(q) \in Nat /\ Offsets(o, q)
    BY LenProperties DEF Laid
  <2>2. \A n \in 0 .. Len(q) : Grown(o, n)
    BY <2>1, OffsetsGrow
  <2> QED
    BY <2>1, <2>2 DEF Grown, Offsets
<1>2. N \in T /\ T \subseteq Nat
  BY <1>1
<1>3. PICK n \in T : \A k \in T : n <= k
  <2> HIDE DEF T
  <2> QED
    BY <1>2, LeastNatural
<1>4. n # 0 /\ n \in 1 .. N /\ n - 1 \in 0 .. N
  BY <1>1, <1>3
<1>5. ~(d < o[n - 1]) /\ d < o[n]
  BY <1>1, <1>3, <1>4
<1>6. o[n] = o[n - 1] + Footprint(q[n]) /\ q[n] \in Message
  BY <1>4, LaidFacts
<1>7. Footprint(q[n]) \in Nat
  BY <1>6, MessageFacts
<1> DEFINE x == o[n - 1]
           y == o[n]
           F == Footprint(q[n])
<1>8. x \in Nat /\ F \in Nat /\ y = x + F /\ ~(d < x) /\ d < y
  BY <1>1, <1>4, <1>5, <1>6, <1>7
<1> HIDE DEF x, y, F
<1>9. d - x + 1 \in 1 .. F /\ x + (d - x + 1) - 1 = d
  BY <1>8
<1> QED
  BY <1>4, <1>9 DEF x, F

\* A fifth byte is told from all others, and tells the stamp.
LEMMA FifthByte ==
  ASSUME NEW m \in Message, NEW l \in Message, NEW k \in 1 .. Footprint(l),
         StoredByte(l, k) = StoredByte(m, 5)
  PROVE  k = 5 /\ l.stamp = m.stamp
<1> DEFINE b == WORD
           s == m.stamp
           t == l.stamp
<1>1. /\ s \in Nat /\ 0 < s /\ t \in Nat /\ 0 < t
      /\ Footprint(l) \in Nat /\ Footprint(l) < b /\ 9 <= Footprint(l)
      /\ 5 \in 5 .. Footprint(m)
  BY MessageFacts
<1>2. BYTE \in Nat /\ 2 <= BYTE /\ b \in Nat /\ BYTE <= b
  BY RingSizes
<1>3. StoredByte(m, 5) = s * b + 5
  BY <1>1, StoredFacts
<1>4. s * b \in Nat /\ t * b \in Nat /\ b <= s * b
  <2>1. 1 * b <= s * b
    <3> HIDE DEF b, s
    <3> QED
      BY <1>1, <1>2, TimesGrows
  <2> HIDE DEF b, s, t
  <2> QED
    BY <1>1, <1>2, <2>1
<1>5. k \notin 1 .. 4
  <2>1. SUFFICES ASSUME k \in 1 .. 4 PROVE FALSE
    OBVIOUS
  <2>2. StoredByte(l, k) \in Nat /\ StoredByte(l, k) < BYTE
    BY <1>2, <2>1, StoredFacts
  <2> DEFINE u == s * b
             v == StoredByte(l, k)
  <2>3. v \in Nat /\ v < BYTE /\ v = u + 5 /\ b <= u /\ u \in Nat
    BY <1>3, <1>4, <2>2
  <2> HIDE DEF u, v, b
  <2> QED
    BY <1>2, <2>3
<1>6. k \in 5 .. Footprint(l)
  BY <1>1, <1>5
<1>7. t * b + k = s * b + 5
  BY <1>3, <1>6, StoredFacts
<1>8. s = t
  <2> HIDE DEF b, s, t
  <2>1. CASE s < t
    <3>1. (t - s) * b = t * b - s * b
      BY <1>1, <1>2
    <3>2. 1 * b <= (t - s) * b
      <4>1. t - s \in Nat /\ 1 <= t - s
        BY <1>1, <2>1
      <4> QED
        BY <1>2, <4>1, TimesGrows
    <3> DEFINE u == s * b
               v == t * b
    <3>3. u \in Nat /\ v \in Nat /\ v + k = u + 5 /\ b <= v - u
      BY <1>2, <1>4, <1>7, <3>1, <3>2
    <3> HIDE DEF u, v
    <3> QED
      BY <1>1, <1>2, <1>6, <3>3
  <2>2. CASE t < s
    <3>1. (s - t) * b = s * b - t * b
      BY <1>1, <1>2
    <3>2. 1 * b <= (s - t) * b
      <4>1. s - t \in Nat /\ 1 <= s - t
        BY <1>1, <2>2
      <4> QED
        BY <1>2, <4>1, TimesGrows
    <3> DEFINE u == s * b
               v == t * b
    <3>3. u \in Nat /\ v \in Nat /\ v + k = u + 5 /\ b <= u - v
      BY <1>2, <1>4, <1>7, <3>1, <3>2
    <3> HIDE DEF u, v
    <3> QED
      BY <1>1, <1>2, <1>6, <3>3
  <2> QED
    BY <1>1, <2>1, <2>2
<1>9. k = 5
  <2> DEFINE u == s * b
  <2>1. u + k = u + 5 /\ u \in Nat
    BY <1>4, <1>7, <1>8
  <2> HIDE DEF u
  <2> QED
    BY <1>6, <2>1
<1> QED
  BY <1>8, <1>9

\* Where the fifth byte of the n-th message is.
Spot(f, o, n) == Wrap(f + (o[n - 1] + 4))

LEMMA SpotBytes ==
  ASSUME NEW f, NEW q, NEW o, Laid(ring, f, q, o), NEW n \in 1 .. Len(q)
  PROVE  /\ Spot(f, o, n) \in Pos /\ o[n - 1] + 4 \in Pos /\ o[n - 1] \in Nat
         /\ ring[Spot(f, o, n)] = StoredByte(q[n], 5)
         /\ \A k \in 1 .. 4 : ring[(Spot(f, o, n) + k - 5) % Capacity] = StoredByte(q[n], k)
         /\ (Spot(f, o, n) - 4 - f) % Capacity = o[n - 1]
<1> DEFINE x == o[n - 1]
           d == x + 4
           i == Spot(f, o, n)
<1>1. q[n] \in Message /\ x \in Nat /\ f \in Pos
  <2>1. f \in Pos
    BY DEF Laid
  <2> QED
    BY <2>1, LaidFacts
<1>2. 9 <= Footprint(q[n]) /\ Footprint(q[n]) \in Nat
  BY <1>1, MessageFacts
<1>3. \A k \in 1 .. 5 : x + k - 1 \in Pos /\ At(ring, f, x + k - 1) = StoredByte(q[n], k)
  <2>1. \A k \in 1 .. 5 : k \in 1 .. Footprint(q[n])
    BY <1>2
  <2> QED
    BY <2>1, InRing
<1> HIDE DEF x
<1>4. x + 5 - 1 = d /\ \A k \in 1 .. 4 : 5 - k \in 0 .. d /\ d - (5 - k) = x + k - 1
  BY <1>1
<1>5. d \in Pos /\ i = Wrap(f + d)
  BY <1>3, <1>4 DEF Spot, x
<1>6. i \in Pos
  <2> HIDE DEF d, i
  <2> QED
    BY <1>1, <1>5, WrapDist
<1>7. \A j \in 0 .. d : (i - j) % Capacity = Wrap(f + (d - j)) /\ (i - j - f) % Capacity = d - j
  <2> HIDE DEF d, i
  <2> QED
    BY <1>1, <1>5, BackMod
<1>8. ring[i] = StoredByte(q[n], 5)
  BY <1>3, <1>4, <1>5 DEF At
<1>9. ASSUME NEW k \in 1 .. 4
      PROVE  ring[(i + k - 5) % Capacity] = StoredByte(q[n], k)
  <2> HIDE DEF i, d
  <2>1. i \in Int
    BY <1>6, RingSizes DEF Pos
  <2>2. i + k - 5 = i - (5 - k)
    BY <2>1
  <2>3. (i - (5 - k)) % Capacity = Wrap(f + (x + k - 1))
    BY <1>4, <1>7
  <2>4. At(ring, f, x + k - 1) = StoredByte(q[n], k)
    BY <1>3
  <2> QED
    BY <2>2, <2>3, <2>4 DEF At
<1>10. (i - 4 - f) % Capacity = x
  <2>1. 4 \in 0 .. d /\ d - 4 = x
    BY <1>1
  <2> HIDE DEF i, d
  <2> QED
    BY <1>7, <2>1
<1> QED
  BY <1>1, <1>5, <1>6, <1>8, <1>9, <1>10 DEF x

\* The length field and the stamp tell a message.
LEMMA MessageTold ==
  ASSUME NEW m \in Message, NEW l \in Message, l.stamp = m.stamp,
         \A k \in 1 .. 4 : StoredByte(l, k) = StoredByte(m, k)
  PROVE  l = m
<1>1. l.length = m.length
  BY StoredFacts
<1> QED
  BY <1>1, MessageFacts

\* What a fifth byte is read as is the message that is there.
LEMMA FifthFound ==
  ASSUME NEW f, NEW q, NEW o, Laid(ring, f, q, o), NEW n \in 1 .. Len(q)
  PROVE  Fifth(Spot(f, o, n)) = {q[n]}
<1> DEFINE i == Spot(f, o, n)
<1>1. /\ ring[i] = StoredByte(q[n], 5)
      /\ \A k \in 1 .. 4 : ring[(i + k - 5) % Capacity] = StoredByte(q[n], k)
  BY SpotBytes
<1>2. q[n] \in Message
  BY LaidFacts
<1> HIDE DEF i
<1>3. q[n] \in Fifth(i)
  BY <1>1, <1>2 DEF Fifth
<1>4. ASSUME NEW m \in Fifth(i)
      PROVE  m = q[n]
  <2>1. /\ m \in Message /\ ring[i] = StoredByte(m, 5)
        /\ \A k \in 1 .. 4 : ring[(i + k - 5) % Capacity] = StoredByte(m, k)
    BY <1>4 DEF Fifth
  <2>2. StoredByte(q[n], 5) = StoredByte(m, 5)
    BY <1>1, <2>1
  <2>3. 5 \in 1 .. Footprint(q[n])
    BY <1>2, MessageFacts
  <2>4. q[n].stamp = m.stamp
    BY <1>2, <2>1, <2>2, <2>3, FifthByte
  <2>5. \A k \in 1 .. 4 : StoredByte(q[n], k) = StoredByte(m, k)
    BY <1>1, <2>1
  <2> QED
    BY <1>2, <2>1, <2>4, <2>5, MessageTold
<1> QED
  BY <1>3, <1>4 DEF i

LEMMA FifthOnly ==
  ASSUME NEW f, NEW q, NEW o, Laid(ring, f, q, o), NEW i \in Pos, Fifth(i) # {}
  PROVE  \E n \in 1 .. Len(q) : i = Spot(f, o, n)
<1>1. PICK m \in Message : ring[i] = StoredByte(m, 5)
  BY DEF Fifth
<1> DEFINE d == Dist(f, i)
<1>2. f \in Pos /\ o[Len(q)] <= Capacity /\ \A e \in Pos : o[Len(q)] <= e => At(ring, f, e) = 0
  BY DEF Laid
<1>3. d \in Pos /\ Wrap(f + d) = i
  BY <1>2, DistMod
<1> HIDE DEF d
<1>4. At(ring, f, d) = StoredByte(m, 5) /\ d \in Nat
  BY <1>1, <1>3, RingSizes DEF At, Pos
<1>5. StoredByte(m, 5) # 0
  <2>1. StoredByte(m, 5) = m.stamp * WORD + 5 /\ m.stamp \in Nat
    BY MessageFacts, StoredFacts
  <2>2. m.stamp * WORD \in Nat
    BY <2>1, RingSizes
  <2> QED
    BY <2>1, <2>2
<1>6. d < o[Len(q)]
  <2>1. ~(o[Len(q)] <= d)
    BY <1>2, <1>3, <1>4, <1>5
  <2>2. o[Len(q)] \in Nat
    <3>1. Len(q) \in Nat /\ q \in Seq(Message) /\ Offsets(o, q)
      BY LenProperties DEF Laid
    <3> QED
      BY <3>1, OffsetsGrow DEF Grown
  <2> QED
    BY <1>4, <2>1, <2>2
<1>7. PICK n \in 1 .. Len(q) : /\ d - o[n - 1] + 1 \in 1 .. Footprint(q[n])
                               /\ o[n - 1] + (d - o[n - 1] + 1) - 1 = d
  BY <1>4, <1>6, BelongsTo
<1> DEFINE k == d - o[n - 1] + 1
<1>8. k \in 1 .. Footprint(q[n]) /\ o[n - 1] + k - 1 = d
  BY <1>7
<1>9. o[n - 1] \in Nat /\ q[n] \in Message
  BY LaidFacts
<1> HIDE DEF k
<1>10. At(ring, f, d) = StoredByte(q[n], k)
  BY <1>8, InRing
<1>11. k = 5
  BY <1>4, <1>8, <1>9, <1>10, FifthByte
<1>12. d = o[n - 1] + 4
  BY <1>8, <1>9, <1>11
<1> QED
  BY <1>3, <1>12 DEF Spot

\* As many values as arguments, if no two arguments have the same.
LEMMA ImageSize ==
  ASSUME NEW k \in Nat, NEW s,
         \A i \in 1 .. k : \A j \in 1 .. k : s[i] = s[j] => i = j
  PROVE  Cardinality({s[i] : i \in 1 .. k}) = k
<1> DEFINE T == {s[i] : i \in 1 .. k}
           g == [i \in 1 .. k |-> s[i]]
<1>1. g \in [1 .. k -> T] /\ \A i \in 1 .. k : g[i] = s[i]
  OBVIOUS
<1> HIDE DEF g
<1>2. \A i \in 1 .. k : \A j \in 1 .. k : g[i] = g[j] => i = j
  BY <1>1
<1>3. \A x \in T : \E i \in 1 .. k : g[i] = x
  BY <1>1
<1> HIDE DEF T
<1>4. g \in Bijection(1 .. k, T)
  BY <1>1, <1>2, <1>3 DEF Bijection, Injection, IsInjective, Surjection
<1>5. ExistsBijection(1 .. k, T)
  BY <1>4 DEF ExistsBijection
<1>6. IsFiniteSet(1 .. k) /\ Cardinality(1 .. k) = k
  BY FS_Interval
<1>7. Cardinality(T) = k
  BY <1>5, <1>6, FS_Bijection
<1> QED
  BY <1>7 DEF T

\* The messages are read back from the ring in the order they lie in.
LEMMA ContentsIs ==
  ASSUME NEW f, NEW q, NEW o, Laid(ring, f, q, o), q # <<>> => f = first_header
  PROVE  Contents = q
<1> DEFINE N == Len(q)
           s == [n \in 1 .. N |-> Spot(f, o, n)]
           at == {i \in Pos : Fifth(i) # {}}
           nearer(i) == {j \in at : Distance(j) < Distance(i)}
           nth(n) == CHOOSE i \in at : Cardinality(nearer(i)) = n - 1
<1>1. q \in Seq(Message) /\ N \in Nat /\ Offsets(o, q) /\ \A n \in 1 .. N : q # <<>>
  BY LenProperties, EmptySeq DEF Laid
<1>2. ASSUME NEW n \in 1 .. N
      PROVE  /\ s[n] \in Pos /\ Fifth(s[n]) = {q[n]} /\ q[n] \in Message
             /\ Distance(s[n]) = o[n - 1] /\ o[n - 1] \in Nat
  <2>1. s[n] = Spot(f, o, n)
    OBVIOUS
  <2>2. f = first_header
    BY <1>1
  <2>3. /\ Spot(f, o, n) \in Pos /\ (Spot(f, o, n) - 4 - f) % Capacity = o[n - 1]
        /\ o[n - 1] \in Nat
    BY SpotBytes
  <2>4. Fifth(Spot(f, o, n)) = {q[n]}
    BY FifthFound
  <2>5. q[n] \in Message
    BY LaidFacts
  <2> HIDE DEF s
  <2> QED
    BY <2>1, <2>2, <2>3, <2>4, <2>5 DEF Distance
<1>3. at = {s[n] : n \in 1 .. N}
  <2>1. ASSUME NEW i \in at
        PROVE  \E n \in 1 .. N : i = s[n]
    <3>1. PICK n \in 1 .. N : i = Spot(f, o, n)
      BY FifthOnly
    <3> QED
      BY <3>1
  <2>2. ASSUME NEW n \in 1 .. N
        PROVE  s[n] \in at
    <3> HIDE DEF s
    <3> QED
      BY <1>2
  <2> HIDE DEF s, at
  <2> QED
    BY <2>1, <2>2
<1>4. ASSUME NEW k \in 1 .. N, NEW n \in 1 .. N, k < n
      PROVE  o[k - 1] < o[n - 1]
  <2>1. n - 1 \in 0 .. N /\ k - 1 \in 0 .. n - 1
    BY <1>1, <1>4
  <2>2. Grown(o, n - 1)
    BY <1>1, <2>1, OffsetsGrow
  <2>3. o[k - 1] \in Nat /\ o[k - 1] + 9 * ((n - 1) - (k - 1)) <= o[n - 1] /\ o[n - 1] \in Nat
    BY <1>2, <2>1, <2>2 DEF Grown
  <2> DEFINE x == o[k - 1]
             y == o[n - 1]
  <2>4. x \in Nat /\ y \in Nat /\ x + 9 * ((n - 1) - (k - 1)) <= y
    BY <2>3
  <2> HIDE DEF x, y, N
  <2>5. x < y
    BY <1>1, <1>4, <2>4
  <2> QED
    BY <2>5 DEF x, y
<1> HIDE DEF s, at
<1>5. \A k \in 1 .. N : \A n \in 1 .. N : Distance(s[k]) < Distance(s[n]) <=> k < n
  <2>1. SUFFICES ASSUME NEW k \in 1 .. N, NEW n \in 1 .. N
                 PROVE  Distance(s[k]) < Distance(s[n]) <=> k < n
    OBVIOUS
  <2> DEFINE x == o[k - 1]
             y == o[n - 1]
  <2>2. Distance(s[k]) = x /\ Distance(s[n]) = y /\ x \in Nat /\ y \in Nat
    BY <1>2
  <2>3. (k < n => x < y) /\ (n < k => y < x) /\ (k = n => x = y)
    BY <1>4
  <2> HIDE DEF x, y
  <2> QED
    BY <1>1, <2>2, <2>3
<1>6. \A k \in 1 .. N : \A n \in 1 .. N : s[k] = s[n] => k = n
  <2>1. SUFFICES ASSUME NEW k \in 1 .. N, NEW n \in 1 .. N, s[k] = s[n] PROVE k = n
    OBVIOUS
  <2>2. ~(Distance(s[k]) < Distance(s[n])) /\ ~(Distance(s[n]) < Distance(s[k]))
    <3>1. Distance(s[k]) = Distance(s[n]) /\ Distance(s[k]) \in Nat
      BY <1>2, <2>1
    <3> QED
      BY <3>1
  <2>3. ~(k < n) /\ ~(n < k)
    BY <1>5, <2>2
  <2> QED
    BY <1>1, <2>3
<1>7. Cardinality(at) = N
  BY <1>1, <1>3, <1>6, ImageSize
<1>8. ASSUME NEW n \in 1 .. N
      PROVE  Cardinality(nearer(s[n])) = n - 1
  <2>1. nearer(s[n]) = {s[k] : k \in 1 .. n - 1}
    <3>1. \A k \in 1 .. n - 1 : k \in 1 .. N /\ k < n
      BY <1>1
    <3>2. \A k \in 1 .. N : k < n => k \in 1 .. n - 1
      BY <1>1
    <3> QED
      BY <1>3, <1>5, <3>1, <3>2
  <2>2. n - 1 \in Nat /\ \A i \in 1 .. n - 1 : \A j \in 1 .. n - 1 : s[i] = s[j] => i = j
    BY <1>1, <1>6
  <2> HIDE DEF nearer
  <2> DEFINE k == n - 1
  <2>3. k \in Nat /\ \A i \in 1 .. k : \A j \in 1 .. k : s[i] = s[j] => i = j
    BY <2>2
  <2> HIDE DEF k
  <2>4. Cardinality({s[i] : i \in 1 .. k}) = k
    BY <2>3, ImageSize
  <2> QED
    BY <2>1, <2>4 DEF k
<1>9. ASSUME NEW n \in 1 .. N
      PROVE  nth(n) = s[n]
  <2> HIDE DEF nearer
  <2>1. s[n] \in at /\ Cardinality(nearer(s[n])) = n - 1
    BY <1>3, <1>8
  <2>2. ASSUME NEW i \in at, Cardinality(nearer(i)) = n - 1
        PROVE  i = s[n]
    <3>1. PICK k \in 1 .. N : i = s[k]
      BY <1>3
    <3>2. k - 1 = n - 1
      BY <1>8, <2>2, <3>1
    <3>3. k = n
      BY <1>1, <3>2
    <3> QED
      BY <3>1, <3>3
  <2> QED
    BY <2>1, <2>2
<1>10. Contents = [n \in 1 .. Cardinality(at) |-> CHOOSE m \in Message : m \in Fifth(nth(n))]
  BY Zenon DEF Contents, at
<1> HIDE DEF nth, nearer
<1>11. ASSUME NEW n \in 1 .. N
       PROVE  (CHOOSE m \in Message : m \in Fifth(nth(n))) = q[n]
  <2>1. Fifth(nth(n)) = {q[n]} /\ q[n] \in Message
    BY <1>2, <1>9
  <2> QED
    BY <2>1
<1>12. Contents = [n \in 1 .. N |-> q[n]]
  BY <1>7, <1>10, <1>11
<1>13. q = [n \in 1 .. N |-> q[n]]
  BY <1>1, LenProperties
<1> QED
  BY <1>12, <1>13

-----------------------------------------------------------------------------
(* The invariant.                                                          *)

RingInv ==
  /\ \E q, o : Ringed(q, o)
  /\ IsRing(ring) /\ overrun = FALSE
  /\ buffer = <<>> \/ \E m \in Message : buffer = Stored(m)

LEMMA RingedContents ==
  ASSUME NEW q, NEW o, Ringed(q, o)
  PROVE  Contents = q
<1> DEFINE f == IF first_header = NULL THEN 0 ELSE first_header
<1>1. Laid(ring, f, q, o) /\ (q # <<>> => f = first_header)
  BY DEF Ringed
<1> HIDE DEF f
<1> QED
  BY <1>1, ContentsIs

LEMMA RingedFilled ==
  ASSUME NEW q, NEW o, Ringed(q, o)
  PROVE  Queue!Filled = o[Len(q)]
<1>1. Queue!Filled = Total(Contents)
  BY Zenon DEF Queue!Filled, Total
<1>2. q \in Seq(Message) /\ Offsets(o, q)
  <2> DEFINE f == IF first_header = NULL THEN 0 ELSE first_header
  <2>1. Laid(ring, f, q, o)
    BY DEF Ringed
  <2> HIDE DEF f
  <2> QED
    BY <2>1 DEF Laid
<1>3. Total(q) = o[Len(q)]
  BY <1>2, TotalIs
<1> QED
  BY <1>1, <1>3, RingedContents

LEMMA RingInit == Init => RingInv
<1> SUFFICES ASSUME Init PROVE RingInv
  OBVIOUS
<1>1. /\ ring = [i \in Pos |-> 0] /\ first_header = NULL /\ buffer = <<>> /\ overrun = FALSE
  BY DEF Init
<1> DEFINE o == [n \in 0 .. 0 |-> 0]
<1>2. <<>> \in Seq(Message) /\ Len(<<>>) = 0
  BY EmptySeq
<1>3. Capacity \in Nat /\ 8 < Capacity
  BY RingSizes
<1>4. Offsets(o, <<>>) /\ o[Len(<<>>)] = 0
  BY <1>2 DEF Offsets
<1> HIDE DEF o
<1>5. ASSUME NEW d \in Pos
      PROVE  At(ring, 0, d) = 0
  <2>1. 0 \in Pos
    BY <1>3 DEF Pos
  <2>2. Wrap(0 + d) \in Pos
    BY <2>1, WrapDist
  <2> QED
    BY <1>1, <2>2 DEF At
<1>6. Laid(ring, 0, <<>>, o)
  <2>1. 0 \in Pos /\ 0 <= Capacity
    BY <1>3 DEF Pos
  <2>2. \A n \in 1 .. Len(<<>>) : MessageAt(ring, 0, o[n - 1], <<>>[n])
    BY <1>2
  <2>3. o[Len(<<>>)] <= Capacity
    BY <1>4, <2>1
  <2> QED
    BY <1>2, <1>4, <1>5, <2>1, <2>2, <2>3 DEF Laid
<1>7. Ringed(<<>>, o)
  BY <1>1, <1>6 DEF Ringed
<1>8. IsRing(ring)
  BY <1>1 DEF IsRing
<1> QED
  BY <1>1, <1>7, <1>8 DEF RingInv

LEMMA PushStep ==
  ASSUME NoGap, NEW q, NEW o, Ringed(q, o), NEW m \in Message, push_message(m)
  PROVE  /\ Ringed(Append(q, m), Extended(o, q, m))'
         /\ IsRing(ring)' /\ buffer' = buffer /\ (overrun = FALSE => overrun' = FALSE)
         /\ Queue!HasRoom(m)
<1> DEFINE f == IF first_header = NULL THEN 0 ELSE first_header
<1>1. /\ first_header' = f /\ (overrun = FALSE => overrun' = FALSE) /\ buffer' = buffer
      /\ o[Len(q)] + Footprint(m) <= Capacity
      /\ Overwritten(ring, ring', f, o[Len(q)], Footprint(m), Stored(m))
      /\ IsRing(ring')
  BY PushWrites
<1>2. Laid(ring, f, q, o)
  BY DEF Ringed
<1> HIDE DEF f
<1>3. Laid(ring', f, Append(q, m), Extended(o, q, m))
  BY <1>1, <1>2, PushLaid
<1>4. f \in Pos /\ f # NULL /\ q \in Seq(Message)
  BY <1>2, RingSizes DEF Laid, Pos, NULL
<1>5. Append(q, m) # <<>>
  BY <1>4, AppendProperties
<1>6. Laid(ring', IF first_header' = NULL THEN 0 ELSE first_header',
           Append(q, m), Extended(o, q, m))
  BY <1>1, <1>3, <1>4
<1>7. Ringed(Append(q, m), Extended(o, q, m))'
  BY <1>1, <1>4, <1>5, <1>6 DEF Ringed
<1>8. Queue!HasRoom(m)
  BY <1>1, RingedFilled DEF Queue!HasRoom
<1> QED
  BY <1>1, <1>7, <1>8

LEMMA PopStep ==
  ASSUME NEW q, NEW o, Ringed(q, o), pop_message
  PROVE  /\ q # <<>> /\ q \in Seq(Message) /\ Ringed(Tail(q), Behind(o, q))'
         /\ IsRing(ring)' /\ overrun' = overrun
         /\ q[1] \in Message /\ buffer' = Stored(q[1])
<1> DEFINE f == first_header
           t == o[1]
           n == get_header(ring, f) + TidSize
           g == get_next_message(f, n)
           r2 == Cleared(f, n)
<1>1. /\ f # NULL /\ buffer' = Bytes(f, n) /\ ring' = r2 /\ overrun' = overrun
      /\ first_header' = IF get_header(r2, g) = 0 THEN NULL ELSE g
  BY DEF pop_message
<1>2. Laid(ring, f, q, o) /\ q # <<>>
  BY <1>1 DEF Ringed
<1>3. q \in Seq(Message) /\ f \in Pos /\ Offsets(o, q)
  BY <1>2 DEF Laid
<1>4. get_header(ring, f) = q[1].length /\ q[1] \in Message
  BY <1>2, FirstHeader
<1>5. n = Footprint(q[1])
  BY <1>4 DEF Footprint
<1>6. t = Footprint(q[1]) /\ t \in Nat
  BY <1>2, <1>3, BehindOffsets
<1>7. g = Wrap(f + t)
  <2>1. n = t
    BY <1>5, <1>6
  <2> HIDE DEF n, t
  <2>2. f \in Nat /\ Capacity \in Nat
    BY <1>3, RingSizes DEF Pos
  <2> HIDE DEF f
  <2> QED
    BY <1>6, <2>1, <2>2 DEF get_next_message, Wrap
<1>8. n = t
  BY <1>5, <1>6
<1> HIDE DEF g, n
<1>9. Laid(r2, g, Tail(q), Behind(o, q)) /\ IsRing(r2)
  <2>1. Laid(Cleared(f, t), Wrap(f + t), Tail(q), Behind(o, q)) /\ IsRing(Cleared(f, t))
    BY <1>2, PopLaid
  <2> HIDE DEF f, t
  <2> QED
    BY <1>7, <1>8, <2>1
<1>10. buffer' = Stored(q[1])
  <2>1. Bytes(f, Footprint(q[1])) = Stored(q[1])
    BY <1>2, FirstBytes
  <2> QED
    BY <1>1, <1>5, <2>1
<1> HIDE DEF r2
<1>11. g \in Pos /\ g # NULL
  BY <1>9, RingSizes DEF Laid, Pos, NULL
<1>12. IF Tail(q) = <<>> THEN get_header(r2, g) = 0
       ELSE get_header(r2, g) = Tail(q)[1].length /\ Tail(q)[1] \in Message
  BY <1>9, FirstHeader
<1>13. Ringed(Tail(q), Behind(o, q))'
  <2>1. CASE Tail(q) = <<>>
    <3>1. first_header' = NULL
      BY <1>1, <1>12, <2>1
    <3>2. 0 \in Pos
      BY RingSizes DEF Pos
    <3>3. Laid(r2, 0, Tail(q), Behind(o, q))
      BY <1>9, <2>1, <3>2, EmptyLaid
    <3>4. Laid(ring', IF first_header' = NULL THEN 0 ELSE first_header', Tail(q), Behind(o, q))
      BY <1>1, <3>1, <3>3
    <3> QED
      BY <2>1, <3>1, <3>4 DEF Ringed
  <2>2. CASE Tail(q) # <<>>
    <3>1. get_header(r2, g) # 0
      BY <1>12, <2>2, MessageFacts
    <3>2. first_header' = g
      BY <1>1, <3>1
    <3>3. Laid(ring', IF first_header' = NULL THEN 0 ELSE first_header', Tail(q), Behind(o, q))
      BY <1>1, <1>9, <1>11, <3>2
    <3> QED
      BY <1>11, <2>2, <3>2, <3>3 DEF Ringed
  <2> QED
    BY <2>1, <2>2
<1>14. IsRing(ring)'
  BY <1>1, <1>9
<1> QED
  BY <1>1, <1>2, <1>3, <1>4, <1>10, <1>13, <1>14

LEMMA RingNext == NoGap /\ RingInv /\ [Next]_mbxVars => RingInv'
<1> SUFFICES ASSUME NoGap, RingInv, [Next]_mbxVars PROVE RingInv'
  OBVIOUS
<1>1. PICK q, o : Ringed(q, o)
  BY DEF RingInv
<1>2. CASE Push
  <2>1. PICK m \in Message : push_message(m)
    BY <1>2 DEF Push
  <2>2. /\ Ringed(Append(q, m), Extended(o, q, m))' /\ IsRing(ring)' /\ buffer' = buffer
        /\ overrun = FALSE => overrun' = FALSE
    BY <1>1, <2>1, PushStep
  <2> QED
    BY <2>2 DEF RingInv
<1>3. CASE pop_message
  <2>1. /\ Ringed(Tail(q), Behind(o, q))' /\ IsRing(ring)' /\ overrun' = overrun
        /\ q[1] \in Message /\ buffer' = Stored(q[1])
    BY <1>1, <1>3, PopStep
  <2> QED
    BY <2>1 DEF RingInv
<1>4. CASE UNCHANGED mbxVars
  BY <1>4 DEF mbxVars, RingInv, Ringed
<1> QED
  BY <1>2, <1>3, <1>4 DEF Next

-----------------------------------------------------------------------------
(* The results.                                                            *)

\* If no messages leave a gap of one to three bytes, the ring always holds whole
\* messages end to end from first_header on, wherever they wrap around, and zeros
\* behind them.
THEOREM RingInvariant ==
  ASSUME NoGap
  PROVE  Spec => []RingInv
<1>1. Init => RingInv
  BY RingInit
<1>2. RingInv /\ [Next]_mbxVars => RingInv'
  BY RingNext
<1> QED
  BY <1>1, <1>2, PTL DEF Spec

\* push_message never writes outside of the mailbox.
THEOREM NoOverrunCorrect ==
  ASSUME NoGap
  PROVE  Spec => []NoOverrun
<1>1. RingInv => NoOverrun
  BY DEF RingInv, NoOverrun
<1> QED
  BY <1>1, RingInvariant, PTL

\* A message is accepted if and only if there is room for it: the walk along the
\* lengths finds every message and nothing else.
THEOREM AcceptsIffRoomCorrect ==
  ASSUME NoGap
  PROVE  Spec => []AcceptsIffRoom
<1>1. RingInv => AcceptsIffRoom
  <2>1. SUFFICES ASSUME RingInv, NEW m \in Message
                 PROVE  Accepts(m) <=> Queue!HasRoom(m)
    BY DEF AcceptsIffRoom
  <2>2. PICK q, o : Ringed(q, o)
    BY <2>1 DEF RingInv
  <2> DEFINE x == o[Len(q)]
             F == Footprint(m)
             sp == space_remaining
             u == Queue!Filled
  <2>3. sp = Capacity - x /\ x \in Nat /\ x <= Capacity
    BY <2>2, SpaceIs
  <2>4. u = x
    BY <2>2, RingedFilled
  <2>5. F \in Nat /\ Capacity \in Nat
    BY MessageFacts, RingSizes
  <2> HIDE DEF x, F, sp, u
  <2>6. sp >= F <=> u + F <= Capacity
    BY <2>3, <2>4, <2>5
  <2> QED
    BY <2>6 DEF Accepts, Queue!HasRoom, F, sp, u
<1> QED
  BY <1>1, RingInvariant, PTL

\* What is not in use is zero, which tells the walk and pop_message where to stop.
THEOREM UnusedIsZeroCorrect ==
  ASSUME NoGap
  PROVE  Spec => []UnusedIsZero
<1>1. RingInv => UnusedIsZero
  <2>1. SUFFICES ASSUME RingInv, NEW i \in Pos,
                        first_header = NULL \/ (i - first_header) % Capacity >= Queue!Filled
                 PROVE  ring[i] = 0
    BY DEF UnusedIsZero
  <2>2. PICK q, o : Ringed(q, o)
    BY <2>1 DEF RingInv
  <2> DEFINE f == IF first_header = NULL THEN 0 ELSE first_header
             x == o[Len(q)]
             d == Dist(f, i)
  <2>3. Queue!Filled = x
    BY <2>2, RingedFilled
  <2>4. Laid(ring, f, q, o) /\ (first_header = NULL <=> q = <<>>)
    BY <2>2 DEF Ringed
  <2>5. first_header # NULL => f = first_header
    OBVIOUS
  <2> HIDE DEF f
  <2>6. /\ f \in Pos /\ q \in Seq(Message) /\ Offsets(o, q)
        /\ \A e \in Pos : x <= e => At(ring, f, e) = 0
    BY <2>4 DEF Laid
  <2>7. d \in Pos /\ Wrap(f + d) = i /\ (i - f) % Capacity = d
    BY <2>6, DistMod
  <2>8. x <= d
    <3>1. CASE first_header = NULL
      <4>1. x = 0
        BY <2>4, <2>6, <3>1, EmptySeq DEF Offsets
      <4>2. d \in Nat
        BY <2>7, RingSizes DEF Pos
      <4> HIDE DEF x, d
      <4> QED
        BY <4>1, <4>2
    <3>2. CASE first_header # NULL
      <4>1. d >= x
        BY <2>1, <2>3, <2>5, <2>7, <3>2
      <4> HIDE DEF x, d
      <4> QED
        BY <4>1
    <3> QED
      BY <3>1, <3>2
  <2> HIDE DEF d, x
  <2>9. At(ring, f, d) = 0
    BY <2>6, <2>7, <2>8
  <2> QED
    BY <2>7, <2>9 DEF At
<1> QED
  BY <1>1, RingInvariant, PTL

\* A message is told by the bytes it is stored as.
LEMMA StoredTells ==
  ASSUME NEW m \in Message, NEW l \in Message, Stored(l) = Stored(m)
  PROVE  l = m
<1>1. DOMAIN Stored(l) = 1 .. Footprint(l) /\ DOMAIN Stored(m) = 1 .. Footprint(m)
  BY DEF Stored
<1>2. /\ Footprint(l) \in Nat /\ 9 <= Footprint(l)
      /\ Footprint(m) \in Nat /\ 9 <= Footprint(m)
  BY MessageFacts
<1>3. 1 .. 5 \subseteq 1 .. Footprint(l) /\ 1 .. 5 \subseteq 1 .. Footprint(m)
  BY <1>2
<1>4. \A k \in 1 .. 5 : StoredByte(l, k) = StoredByte(m, k)
  <2>1. \A k \in 1 .. 5 : Stored(l)[k] = StoredByte(l, k)
    BY <1>3 DEF Stored
  <2>2. \A k \in 1 .. 5 : Stored(m)[k] = StoredByte(m, k)
    BY <1>3 DEF Stored
  <2> QED
    BY <2>1, <2>2
<1>5. l.stamp = m.stamp
  BY <1>3, <1>4, FifthByte
<1>6. \A k \in 1 .. 4 : StoredByte(l, k) = StoredByte(m, k)
  BY <1>4
<1> QED
  BY <1>5, <1>6, MessageTold

\* What pop_message handed out is read back.
LEMMA GotIs ==
  ASSUME NEW m \in Message, buffer = Stored(m)
  PROVE  buffer # <<>> /\ SetToSeq(Popped) = <<m>>
<1>1. buffer # <<>>
  <2>1. 1 \in DOMAIN Stored(m)
    BY MessageFacts DEF Stored
  <2>2. DOMAIN <<>> = {}
    OBVIOUS
  <2> QED
    BY <2>1, <2>2
<1>2. Popped = {m}
  <2>1. \A l \in Message : Stored(l) = Stored(m) => l = m
    BY StoredTells
  <2> QED
    BY <2>1 DEF Popped
<1>3. Cardinality({m}) = 1
  BY FS_Singleton
<1>4. SetToSeq({m}) = CHOOSE f \in [1 .. 1 -> {m}] : IsInjective(f)
  BY <1>3 DEF SetToSeq
<1>5. <<m>> \in [1 .. 1 -> {m}] /\ IsInjective(<<m>>)
  BY DEF IsInjective
<1>6. \A f \in [1 .. 1 -> {m}] : f = <<m>>
  OBVIOUS
<1>7. SetToSeq({m}) = <<m>>
  BY <1>4, <1>5, <1>6
<1> QED
  BY <1>1, <1>2, <1>7

LEMMA GotRead ==
  \A m \in Message : buffer = Stored(m) => buffer # <<>> /\ SetToSeq(Popped) = <<m>>
BY GotIs

ReadBack == \A q, o : Ringed(q, o) => Contents = q

LEMMA ContentsRead == ReadBack
BY RingedContents DEF ReadBack

\* The ring implements a queue: messages come out in the order they went in, each
\* with the bytes it went in with, and one is refused only if there is no room.
THEOREM RingImplementsQueue ==
  ASSUME NoGap
  PROVE  Spec => ImplementsQueue
<1> DEFINE got == IF buffer = <<>> THEN <<>> ELSE SetToSeq(Popped)
<1>1. Init => Queue!QueueInit
  <2>1. SUFFICES ASSUME Init PROVE Contents = <<>> /\ got = <<>>
    BY DEF Queue!QueueInit
  <2>2. first_header = NULL /\ buffer = <<>>
    BY <2>1 DEF Init
  <2>3. PICK q, o : Ringed(q, o)
    BY <2>1, RingInit DEF RingInv
  <2>4. q = <<>>
    BY <2>2, <2>3 DEF Ringed
  <2> QED
    BY <2>2, <2>3, <2>4, RingedContents
<1>2. ASSUME RingInv, RingInv', [Next]_mbxVars
      PROVE  [Queue!QueueNext]_<<Contents, got>>
  <2>1. PICK q, o : Ringed(q, o)
    BY <1>2 DEF RingInv
  <2>2. Contents = q
    BY <2>1, RingedContents
  <2>3. \A p, w : Ringed(p, w)' => Contents' = p
    <3>1. ReadBack'
      BY ContentsRead, PTL
    <3> QED
      BY <3>1 DEF ReadBack
  <2>4. CASE Push
    <3>1. PICK m \in Message : push_message(m)
      BY <2>4 DEF Push
    <3>2. /\ Ringed(Append(q, m), Extended(o, q, m))' /\ buffer' = buffer
          /\ Queue!HasRoom(m)
      BY <2>1, <3>1, PushStep
    <3>3. Contents' = Append(q, m)
      BY <2>3, <3>2
    <3>4. got' = got
      BY <3>2 DEF Popped
    <3> HIDE DEF got
    <3>5. Queue!HasRoom(m) /\ Contents' = Append(Contents, m) /\ UNCHANGED got
      BY <2>2, <3>2, <3>3, <3>4
    <3>6. Queue!Put(m)
      BY <3>5 DEF Queue!Put, got
    <3> QED
      BY <3>1, <3>6 DEF Queue!QueueNext
  <2>5. CASE pop_message
    <3>1. /\ q # <<>> /\ q \in Seq(Message) /\ Ringed(Tail(q), Behind(o, q))'
          /\ q[1] \in Message /\ buffer' = Stored(q[1])
      BY <2>1, <2>5, PopStep
    <3>2. Contents' = Tail(q)
      BY <2>3, <3>1
    <3>3. got' = <<q[1]>>
      <4>1. (\A m \in Message : buffer = Stored(m)
                                  => buffer # <<>> /\ SetToSeq(Popped) = <<m>>)'
        BY GotRead, PTL
      <4>2. buffer' # <<>> /\ SetToSeq(Popped)' = <<q[1]>>
        BY <3>1, <4>1
      <4> QED
        BY <4>2
    <3>4. Head(q) = q[1]
      BY <3>1, HeadTailProperties
    <3>5. Queue!Take
      BY <2>2, <3>1, <3>2, <3>3, <3>4 DEF Queue!Take
    <3> QED
      BY <3>5 DEF Queue!QueueNext
  <2>6. CASE UNCHANGED mbxVars
    <3>1. UNCHANGED <<ring, first_header, buffer>>
      BY <2>6 DEF mbxVars
    <3>2. Ringed(q, o)'
      BY <2>1, <3>1 DEF Ringed
    <3>3. Contents' = q
      BY <2>3, <3>2
    <3>4. got' = got
      BY <3>1 DEF Popped
    <3> QED
      BY <2>2, <3>3, <3>4
  <2> QED
    BY <1>2, <2>4, <2>5, <2>6 DEF Next
<1> QED
  BY <1>1, <1>2, RingInvariant, PTL DEF Spec, ImplementsQueue, Queue!QueueSpec

\* The walk of an empty mailbox reads nothing.
LEMMA EmptyWalk ==
  ASSUME first_header = NULL
  PROVE  \A i \in DOMAIN Walk : Walk[i].p = NULL
<1> DEFINE s == [p |-> NULL, count |-> 0, last |-> NULL]
           v == [i \in 0 .. Steps |-> s]
           e(x) == IF Stopped(x) THEN x ELSE Further(x)
<1>1. Steps \in Nat
  BY StepsFacts
<1>2. e(s) = s
  <2>1. Stopped(s)
    BY DEF Stopped
  <2> HIDE DEF s
  <2> QED
    BY <2>1
<1>3. s = [p |-> first_header, count |-> 0, last |-> NULL] /\ s.p = NULL
  OBVIOUS
<1> HIDE DEF s, e
<1>4. ASSUME NEW i \in 0 .. Steps
      PROVE  s = IF i = 0 THEN s ELSE e(v[i - 1])
  <2>1. i # 0 => i - 1 \in 0 .. Steps
    BY <1>1
  <2> QED
    BY <1>2, <2>1
<1>5. v = [i \in 0 .. Steps |-> IF i = 0 THEN s ELSE e(v[i - 1])]
  BY <1>4
<1>6. IsWalk(v)
  <2> HIDE DEF v
  <2>1. v = [i \in 0 .. Steps |->
              IF i = 0 THEN [p |-> first_header, count |-> 0, last |-> NULL] ELSE e(v[i - 1])]
    BY <1>3, <1>5
  <2> QED
    BY <2>1, Zenon DEF IsWalk, Steps, e
<1>7. Walk = v
  BY <1>6, WalkIs
<1> QED
  BY <1>3, <1>7

\* Every length that push_message's walk reads is that of a message, or the zero
\* behind the last one: a gap is all that can make it read anything else.
THEOREM HeadersExtracted ==
  ASSUME NoGap
  PROVE  Spec => []HeaderExtracted
<1>1. RingInv => HeaderExtracted
  <2>1. SUFFICES ASSUME RingInv, NEW i \in DOMAIN Walk,
                        Walk[i].p # NULL, Walk[i].count < Capacity
                 PROVE  \/ get_header(ring, Walk[i].p) = 0
                        \/ /\ Walk[i].p \in Pos
                           /\ Fifth((Walk[i].p + 4) % Capacity) # {}
    BY DEF HeaderExtracted
  <2>2. PICK q, o : Ringed(q, o)
    BY <2>1 DEF RingInv
  <2> DEFINE f == first_header
             N == Len(q)
  <2>3. f # NULL
    BY <2>1, EmptyWalk
  <2>4. Laid(ring, f, q, o)
    BY <2>2, <2>3 DEF Ringed
  <2>5. RoomForLength(q, o)
    <3> HIDE DEF f
    <3> QED
      BY <2>4, GapFree
  <2>6. /\ Walk = [j \in 0 .. Steps |-> IF j <= Len(q) THEN Reached(f, o, j)
                                        ELSE Ended(f, q, o)]
        /\ Steps \in Nat
    <3> DEFINE g == f
    <3>1. Laid(ring, g, q, o) /\ g = first_header
      BY <2>4
    <3> HIDE DEF g, f
    <3>2. /\ Walk = [j \in 0 .. Steps |-> IF j <= Len(q) THEN Reached(g, o, j)
                                          ELSE Ended(g, q, o)]
          /\ Steps \in Nat
      BY <2>5, <3>1, WalkCorrect
    <3> QED
      BY <3>2 DEF g
  <2>7. f \in Pos /\ q \in Seq(Message) /\ N \in Nat
    <3> HIDE DEF f
    <3> QED
      BY <2>4, LenProperties DEF Laid
  <2>8. i \in 0 .. Steps /\ Walk[i] = IF i <= N THEN Reached(f, o, i) ELSE Ended(f, q, o)
    <3> HIDE DEF f
    <3>1. i \in 0 .. Steps
      BY <2>1, <2>6
    <3> QED
      BY <2>6, <3>1
  <2> HIDE DEF f
  <2>9. CASE i < N
    <3>1. i + 1 \in 1 .. Len(q) /\ (i + 1) - 1 = i /\ i <= N
      BY <2>6, <2>7, <2>8, <2>9
    <3> DEFINE x == o[i]
               p == Wrap(f + x)
    <3>2. x + 4 \in Pos /\ x \in Nat /\ Fifth(Spot(f, o, i + 1)) = {q[i + 1]}
      BY <2>4, <3>1, SpotBytes, FifthFound
    <3>3. Spot(f, o, i + 1) = Wrap(f + (x + 4))
      BY <3>1 DEF Spot
    <3>4. Walk[i].p = p
      BY <2>8, <3>1 DEF Reached
    <3> HIDE DEF x
    <3>5. Capacity \in Nat /\ 8 < Capacity
      BY RingSizes
    <3>6. x \in Pos /\ x \in 0 .. Capacity /\ x + 4 <= Capacity
      BY <3>2, <3>5 DEF Pos
    <3>7. p \in Pos /\ Wrap(p + 4) = Wrap(f + (x + 4))
      BY <2>7, <3>5, <3>6, WrapAdd, WrapDist
    <3> HIDE DEF p
    <3>8. p + 4 \in 0 .. 2 * Capacity - 1
      BY <3>5, <3>7 DEF Pos
    <3>9. (p + 4) % Capacity = Wrap(p + 4)
      BY <3>8, WrapMod
    <3> QED
      BY <3>2, <3>3, <3>4, <3>7, <3>9
  <2>10. CASE i = N
    <3>1. Walk[i] = Reached(f, o, Len(q))
      BY <2>7, <2>8, <2>10
    <3>2. LET s == Reached(f, o, Len(q))
          IN  s.count < Capacity => get_header(ring, s.p) = 0
      BY <2>4, <2>5, ReachedEnd
    <3> QED
      BY <2>1, <3>1, <3>2
  <2>11. CASE i > N
    <3>1. Walk[i] = Ended(f, q, o)
      BY <2>6, <2>7, <2>8, <2>11
    <3>2. Stopped(Ended(f, q, o))
      BY <2>4, <2>5, ReachedEnd
    <3>3. Walk[i].count >= Capacity
      BY <2>1, <3>1, <3>2 DEF Stopped
    <3>4. Walk[i].count = o[Len(q)]
      BY <3>1 DEF Ended, Reached
    <3>5. o[Len(q)] \in Nat
      BY <2>2, SpaceIs
    <3> DEFINE x == o[Len(q)]
    <3>6. x >= Capacity /\ x < Capacity /\ x \in Nat
      BY <2>1, <3>3, <3>4, <3>5
    <3> HIDE DEF x
    <3> QED
      BY <3>6, RingSizes
  <2> QED
    BY <2>6, <2>7, <2>8, <2>9, <2>10, <2>11
<1> QED
  BY <1>1, RingInvariant, PTL

\* A finite set of natural numbers has a greatest one.
LEMMA GreatestExists ==
  ASSUME NEW T, T \subseteq Nat, IsFiniteSet(T), T # {}
  PROVE  Max(T) \in T /\ \A y \in T : y <= Max(T)
<1> DEFINE k == Cardinality(T)
<1>1. k \in Nat /\ ExistsBijection(1 .. k, T)
  BY FS_CardinalityType
<1>2. PICK g \in [1 .. k -> T] : \A y \in T : \E i \in 1 .. k : g[i] = y
  BY <1>1 DEF ExistsBijection, Bijection, Injection, Surjection
<1> HIDE DEF k
<1>3. k # 0
  <2>1. PICK y \in T : TRUE
    OBVIOUS
  <2>2. PICK i \in 1 .. k : g[i] = y
    BY <1>2
  <2> QED
    BY <1>1, <2>2
<1> DEFINE S == {n \in 0 .. k : n = 0 \/ \E x \in T : \A i \in 1 .. n : g[i] <= x}
<1>4. 0 \in S
  BY <1>1
<1>5. ASSUME NEW n \in 0 .. k, n \in S, n < k
      PROVE  n + 1 \in S
  <2>1. n + 1 \in 1 .. k /\ n + 1 \in 0 .. k /\ g[n + 1] \in T /\ g[n + 1] \in Nat
    <3>1. n + 1 \in 1 .. k /\ n + 1 \in 0 .. k
      BY <1>1, <1>5
    <3> HIDE DEF S
    <3> QED
      BY <1>2, <3>1
  <2>2. CASE n = 0
    <3>1. \A i \in 1 .. n + 1 : i = n + 1
      BY <2>2
    <3>2. \A i \in 1 .. n + 1 : g[i] <= g[n + 1]
      BY <2>1, <3>1
    <3> QED
      BY <2>1, <3>2
  <2>3. CASE n # 0
    <3>1. PICK x \in T : \A i \in 1 .. n : g[i] <= x
      BY <1>5, <2>3
    <3> DEFINE z == IF x <= g[n + 1] THEN g[n + 1] ELSE x
    <3>2. x \in Nat /\ z \in T /\ z \in Nat /\ x <= z /\ g[n + 1] <= z
      BY <2>1, <3>1
    <3> HIDE DEF z
    <3>3. ASSUME NEW i \in 1 .. n + 1
          PROVE  g[i] <= z
      <4>1. i = n + 1 \/ i \in 1 .. n
        BY <1>1
      <4>2. ASSUME i \in 1 .. n
            PROVE  g[i] <= z
        <5>1. g[i] <= x /\ i \in 1 .. k
          BY <1>1, <3>1, <4>2
        <5>2. g[i] \in Nat
          BY <1>2, <5>1
        <5> QED
          BY <3>2, <5>1, <5>2
      <4> QED
        BY <3>2, <4>1, <4>2
    <3> QED
      BY <2>1, <3>2, <3>3
  <2> QED
    BY <2>2, <2>3
<1>6. \A n \in 0 .. k : n \in S
  <2> HIDE DEF S
  <2> QED
    BY <1>1, <1>4, <1>5, InductionUpTo
<1>7. PICK x \in T : \A i \in 1 .. k : g[i] <= x
  <2>1. k \in S
    BY <1>1, <1>6
  <2> QED
    BY <1>3, <2>1
<1>8. \A y \in T : x >= y
  <2>1. SUFFICES ASSUME NEW y \in T PROVE x >= y
    OBVIOUS
  <2>2. PICK i \in 1 .. k : g[i] = y
    BY <1>2
  <2>3. g[i] <= x
    BY <1>7
  <2>4. y <= x /\ x \in Nat /\ y \in Nat
    BY <2>2, <2>3
  <2> QED
    BY <2>4
<1>9. \E z \in T : \A y \in T : z >= y
  BY <1>8
<1>10. Max(T) \in T /\ \A y \in T : Max(T) >= y
  BY <1>9 DEF Max
<1> QED
  BY <1>10

\* The stored bytes are small.
LEMMA StoredBound ==
  ASSUME NEW m \in Message, NEW k \in 1 .. Footprint(m), NEW t \in Nat, m.stamp <= t
  PROVE  StoredByte(m, k) \in 0 .. WORD * (t + 1)
<1> DEFINE b == WORD
           s == m.stamp
<1>1. s \in Nat /\ Footprint(m) \in Nat /\ Footprint(m) < b
  BY MessageFacts
<1>2. b \in Nat /\ BYTE \in Nat /\ BYTE <= b
  BY RingSizes
<1> HIDE DEF b, s
<1>3. b <= b * (t + 1) /\ b * (t + 1) \in Nat
  <2>1. b * 1 <= b * (t + 1)
    BY <1>2, TimesGrows
  <2> QED
    BY <1>2, <2>1
<1>4. s * b \in Nat /\ s * b + b <= b * (t + 1)
  <2>1. (s + 1) * b <= (t + 1) * b
    <3>1. s + 1 <= t + 1
      BY <1>1 DEF s
    <3> QED
      BY <1>1, <1>2, <3>1, TimesGrows
  <2>2. (s + 1) * b = s * b + b /\ (t + 1) * b = b * (t + 1) /\ s * b \in Nat
    BY <1>1, <1>2
  <2> QED
    BY <2>1, <2>2
<1>5. CASE k \in 5 .. Footprint(m)
  <2>1. StoredByte(m, k) = s * b + k
    BY <1>5, StoredFacts DEF s, b
  <2> DEFINE u == s * b
             v == b * (t + 1)
             w == StoredByte(m, k)
  <2>2. w = u + k /\ u \in Nat /\ v \in Nat /\ u + b <= v
    BY <1>3, <1>4, <2>1
  <2> HIDE DEF u, v, w
  <2>3. w \in 0 .. v
    BY <1>1, <1>2, <2>2
  <2> QED
    BY <2>3 DEF v, w, b
<1>6. CASE k \in 1 .. 4
  <2>1. StoredByte(m, k) \in 0 .. BYTE - 1
    BY <1>2, <1>6, StoredFacts, RingSizes
  <2> DEFINE v == b * (t + 1)
             w == StoredByte(m, k)
  <2>2. w \in 0 .. BYTE - 1 /\ v \in Nat /\ b <= v
    BY <1>3, <2>1
  <2> HIDE DEF v, w
  <2>3. w \in 0 .. v
    BY <1>2, <2>2
  <2> QED
    BY <2>3 DEF v, w, b
<1> QED
  BY <1>1, <1>5, <1>6

\* Every byte is one of a length or of a content, and what pop_message handed out
\* is a message.
THEOREM RingTypeCorrect ==
  ASSUME NoGap, IsFiniteSet(Stamps), Stamps # {}
  PROVE  Spec => []MailboxTypeOK
<1> DEFINE t == Max(Stamps)
           b == WORD * (t + 1)
<1>1. t \in Stamps /\ t \in Nat /\ \A s \in Stamps : s <= t
  <2>1. Stamps \subseteq Nat
    BY RingAssumption
  <2> QED
    BY <2>1, GreatestExists
<1> HIDE DEF t
<1>2. b \in Nat
  <2>1. WORD \in Nat /\ t + 1 \in Nat
    BY <1>1, RingSizes
  <2> QED
    BY <2>1
<1>3. RingInv => MailboxTypeOK
  <2> SUFFICES ASSUME RingInv PROVE MailboxTypeOK
    OBVIOUS
  <2>1. PICK q, o : Ringed(q, o)
    BY DEF RingInv
  <2> DEFINE f == IF first_header = NULL THEN 0 ELSE first_header
  <2>2. Laid(ring, f, q, o) /\ first_header \in Pos \cup {NULL}
    BY <2>1 DEF Ringed
  <2> HIDE DEF f
  <2>3. f \in Pos /\ \A e \in Pos : o[Len(q)] <= e => At(ring, f, e) = 0
    BY <2>2 DEF Laid
  <2>4. o[Len(q)] \in Nat
    BY <2>1, SpaceIs
  <2>5. ASSUME NEW i \in Pos
        PROVE  ring[i] \in 0 .. b
    <3> DEFINE d == Dist(f, i)
    <3>1. d \in Pos /\ Wrap(f + d) = i
      BY <2>3, DistMod
    <3> HIDE DEF d
    <3>2. d \in Nat /\ ring[i] = At(ring, f, d)
      BY <3>1, RingSizes DEF Pos, At
    <3>3. CASE o[Len(q)] <= d
      <4>1. ring[i] = 0
        BY <2>3, <3>1, <3>2, <3>3
      <4> HIDE DEF b
      <4> QED
        BY <1>2, <4>1
    <3>4. CASE d < o[Len(q)]
      <4>1. PICK n \in 1 .. Len(q) : /\ d - o[n - 1] + 1 \in 1 .. Footprint(q[n])
                                     /\ o[n - 1] + (d - o[n - 1] + 1) - 1 = d
        BY <2>2, <3>2, <3>4, BelongsTo
      <4>2. PICK k \in 1 .. Footprint(q[n]) : o[n - 1] + k - 1 = d
        BY <4>1
      <4>3. At(ring, f, d) = StoredByte(q[n], k)
        BY <2>2, <4>2, InRing
      <4>4. q[n] \in Message
        BY <2>2, LaidFacts
      <4>5. q[n].stamp <= t
        BY <1>1, <4>4, MessageFacts
      <4> QED
        BY <1>1, <3>2, <4>3, <4>4, <4>5, StoredBound
    <3> QED
      BY <2>4, <3>2, <3>3, <3>4
  <2>6. ring \in [Pos -> 0 .. b]
    <3> HIDE DEF b
    <3>1. ring = [i \in Pos |-> ring[i]]
      BY DEF RingInv, IsRing
    <3> QED
      BY <2>5, <3>1
  <2>7. buffer \in Seq(Nat)
    <3>1. CASE buffer = <<>>
      BY <3>1, EmptySeq
    <3>2. ASSUME NEW m \in Message, buffer = Stored(m)
          PROVE  buffer \in Seq(Nat)
      <4>1. Stored(m) \in [1 .. Footprint(m) -> Nat] /\ Footprint(m) \in Nat
        BY StoredFacts, MessageFacts DEF Stored
      <4> QED
        BY <3>2, <4>1, SeqDef
    <3> QED
      BY <3>1, <3>2 DEF RingInv
  <2>8. overrun \in BOOLEAN
    BY DEF RingInv
  <2> QED
    BY <2>2, <2>6, <2>7, <2>8 DEF MailboxTypeOK, t
<1> QED
  BY <1>3, RingInvariant, PTL

\* Every sequence of messages has offsets.
LEMMA OffsetsExist ==
  ASSUME NEW q \in Seq(Message)
  PROVE  \E o : Offsets(o, q)
<1> DEFINE N == Len(q)
           upto(o, k) == o[0] = 0 /\ \A n \in 1 .. k : o[n] = o[n - 1] + Footprint(q[n])
           S == {k \in 0 .. N : \E o : upto(o, k)}
<1>1. N \in Nat
  BY LenProperties
<1>2. 0 \in S
  <2> DEFINE o == [n \in 0 .. 0 |-> 0]
  <2>1. upto(o, 0)
    OBVIOUS
  <2> HIDE DEF o, upto
  <2> QED
    BY <1>1, <2>1
<1>3. ASSUME NEW k \in 0 .. N, k \in S, k < N
      PROVE  k + 1 \in S
  <2>1. PICK o : upto(o, k)
    BY <1>3
  <2> DEFINE p == [n \in 0 .. k + 1 |-> IF n <= k THEN o[n] ELSE o[k] + Footprint(q[k + 1])]
  <2>2. p[0] = 0
    BY <1>1, <2>1
  <2>3. ASSUME NEW n \in 1 .. k + 1
        PROVE  p[n] = p[n - 1] + Footprint(q[n])
    <3>1. n - 1 \in 0 .. k + 1 /\ n \in 0 .. k + 1 /\ n - 1 <= k
      BY <1>1
    <3>2. p[n - 1] = o[n - 1]
      BY <3>1
    <3>3. CASE n <= k
      <4>1. p[n] = o[n] /\ n \in 1 .. k
        BY <1>1, <3>1, <3>3
      <4> QED
        BY <2>1, <3>2, <4>1
    <3>4. CASE n = k + 1
      <4>1. ~(n <= k) /\ n - 1 = k
        BY <1>1, <3>4
      <4>2. p[n] = o[k] + Footprint(q[k + 1])
        BY <3>1, <4>1
      <4> QED
        BY <3>2, <3>4, <4>1, <4>2
    <3> QED
      BY <1>1, <3>3, <3>4
  <2> HIDE DEF p
  <2>4. upto(p, k + 1)
    BY <2>2, <2>3
  <2> HIDE DEF upto
  <2> QED
    BY <1>1, <1>3, <2>4
<1>4. N \in S
  <2> HIDE DEF S
  <2>1. \A k \in 0 .. N : k \in S
    BY <1>1, <1>2, <1>3, InductionUpTo
  <2> QED
    BY <1>1, <2>1
<1>5. PICK o : upto(o, N)
  BY <1>4
<1>6. \A n \in 1 .. N : n - 1 \in 0 .. N
  BY <1>1
<1>7. Offsets(o, q)
  BY <1>5, <1>6 DEF Offsets
<1> QED
  BY <1>7

\* The mailboxes in which there is no gap include those of whole words that take
\* messages of whole words, the sender's id counted.
THEOREM WordsLeaveNoGap ==
  ASSUME Capacity % 4 = 0, \A l \in Lengths : (l + TidSize) % 4 = 0
  PROVE  NoGap
<1>1. SUFFICES ASSUME NEW q \in Seq(Message) PROVE Capacity - Total(q) \notin 1 .. 3
  BY DEF NoGap
<1>2. PICK o : Offsets(o, q)
  BY OffsetsExist
<1>3. Len(q) \in Nat /\ \A n \in 0 .. Len(q) : o[n] \in Nat
  <2>1. \A n \in 0 .. Len(q) : Grown(o, n)
    BY <1>2, OffsetsGrow
  <2> QED
    BY <2>1, LenProperties DEF Grown
<1> DEFINE S == {n \in 0 .. Len(q) : o[n] % 4 = 0}
<1>4. 0 \in S
  BY <1>2, <1>3 DEF Offsets
<1>5. ASSUME NEW n \in 0 .. Len(q), n \in S, n < Len(q)
      PROVE  n + 1 \in S
  <2>1. n + 1 \in 1 .. Len(q) /\ (n + 1) - 1 = n /\ n + 1 \in 0 .. Len(q) /\ q[n + 1] \in Message
    BY <1>3, <1>5, ElementOfSeq
  <2>2. o[n + 1] = o[n] + Footprint(q[n + 1])
    BY <1>2, <2>1 DEF Offsets
  <2>3. Footprint(q[n + 1]) \in Nat /\ Footprint(q[n + 1]) % 4 = 0
    BY <2>1, MessageFacts DEF Footprint, Message
  <2> DEFINE x == o[n]
             y == o[n + 1]
             F == Footprint(q[n + 1])
  <2>4. x \in Nat /\ x % 4 = 0 /\ F \in Nat /\ F % 4 = 0 /\ y = x + F
    BY <1>3, <1>5, <2>2, <2>3
  <2> HIDE DEF x, y, F
  <2>5. y % 4 = 0
    BY <2>4
  <2> QED
    BY <2>1, <2>5 DEF y
<1>6. \A n \in 0 .. Len(q) : n \in S
  <2> HIDE DEF S
  <2> QED
    BY <1>3, <1>4, <1>5, InductionUpTo
<1> DEFINE t == Total(q)
<1>7. t \in Nat /\ t % 4 = 0
  <2>1. t = o[Len(q)] /\ Len(q) \in 0 .. Len(q)
    BY <1>2, <1>3, TotalIs
  <2> QED
    BY <1>3, <1>6, <2>1
<1> HIDE DEF t
<1>8. Capacity - t \notin 1 .. 3
  BY <1>7, RingSizes
<1> QED
  BY <1>8 DEF t
=============================================================================
