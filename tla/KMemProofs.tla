----------------------------- MODULE KMemProofs -----------------------------
(***************************************************************************)
(* Proofs about the memory manager, for all values of the constants.       *)
(***************************************************************************)
EXTENDS KMem, InductionLemmas, FiniteSetTheorems, TLAPS

-----------------------------------------------------------------------------
(* The walk along the list, in a memory m and from a head h.               *)

Steps == 0 .. Cardinality(Addr)

Succ(m, p) == IF p = NULL THEN NULL ELSE m[p].word

WalkOf(h, m) ==
  LET w[n \in 0 .. Cardinality(Addr)] ==
        IF n = 0 THEN h
        ELSE LET p == w[n - 1] IN IF p = NULL THEN NULL ELSE m[p].word
  IN  w

FreeOf(h, m) == {WalkOf(h, m)[n] : n \in Steps} \ {NULL}

LEMMA AddrFinite == /\ IsFiniteSet(Addr) /\ Cardinality(Addr) \in Nat
                    /\ 0 \in Steps
<1>1. IsFiniteSet(0 .. RAM_END - 1)
  BY LayoutAssumption, FS_Interval
<1>2. Addr \subseteq 0 .. RAM_END - 1
  BY DEF Addr
<1>3. IsFiniteSet(Addr)
  BY <1>1, <1>2, FS_Subset
<1>4. Cardinality(Addr) \in Nat
  BY <1>3, FS_CardinalityType
<1> QED
  BY <1>3, <1>4 DEF Steps

\* The function w is the walk over k steps.
IsWalk(w, h, m, k) == w = [n \in 0 .. k |-> IF n = 0 THEN h ELSE Succ(m, w[n - 1])]

\* The recursion that defines the walk has a solution.
LEMMA WalkExists ==
  ASSUME NEW h, NEW m, NEW k \in Nat
  PROVE  \E w : IsWalk(w, h, m, k)
<1> DEFINE S == {j \in 0 .. k : \E w : IsWalk(w, h, m, j)}
<1>1. 0 \in S
  <2> DEFINE w == [n \in 0 .. 0 |-> h]
  <2>1. IsWalk(w, h, m, 0)
    BY DEF IsWalk
  <2> HIDE DEF w
  <2> QED
    BY <2>1
<1>2. ASSUME NEW j \in 0 .. k, j \in S, j < k
      PROVE  j + 1 \in S
  <2>1. PICK w : IsWalk(w, h, m, j)
    BY <1>2
  <2>2. w = [n \in 0 .. j |-> IF n = 0 THEN h ELSE Succ(m, w[n - 1])]
    BY <2>1 DEF IsWalk
  <2> DEFINE v == [n \in 0 .. j + 1 |-> IF n <= j THEN w[n] ELSE Succ(m, w[j])]
  <2>3. ASSUME NEW n \in 0 .. j + 1
        PROVE  v[n] = IF n = 0 THEN h ELSE Succ(m, v[n - 1])
    <3>1. CASE n = 0
      BY <3>1, <2>2
    <3>2. CASE n \in 1 .. j
      <4>1. n - 1 \in 0 .. j /\ v[n - 1] = w[n - 1] /\ v[n] = w[n]
        BY <3>2
      <4> QED
        BY <4>1, <3>2, <2>2
    <3>3. CASE n = j + 1
      <4>1. v[n - 1] = w[j] /\ v[n] = Succ(m, w[j])
        BY <3>3
      <4> QED
        BY <4>1, <3>3
    <3> QED
      BY <3>1, <3>2, <3>3
  <2>4. IsWalk(v, h, m, j + 1)
    BY <2>3 DEF IsWalk
  <2> HIDE DEF v
  <2> QED
    BY <2>4, <1>2
<1>3. \A j \in 0 .. k : j \in S
  <2> HIDE DEF S
  <2> QED
    BY <1>1, <1>2, InductionUpTo
<1> QED
  BY <1>3

LEMMA WalkIs ==
  ASSUME NEW h, NEW m
  PROVE  /\ DOMAIN WalkOf(h, m) = Steps
         /\ WalkOf(h, m)[0] = h
         /\ \A n \in Steps : n > 0 => /\ n - 1 \in Steps
                                      /\ WalkOf(h, m)[n] = Succ(m, WalkOf(h, m)[n - 1])
<1> DEFINE w == WalkOf(h, m)
<1> HIDE DEF w
<1>1. \E u : IsWalk(u, h, m, Cardinality(Addr))
  BY WalkExists, AddrFinite
<1>2. w = [n \in 0 .. Cardinality(Addr) |-> IF n = 0 THEN h ELSE Succ(m, w[n - 1])]
  BY <1>1, Zenon DEF w, WalkOf, Succ, IsWalk
<1>3. DOMAIN w = Steps /\ w[0] = h
  BY <1>2, AddrFinite DEF Steps
<1>4. \A n \in Steps : n > 0 => n - 1 \in Steps /\ w[n] = Succ(m, w[n - 1])
  BY <1>2, AddrFinite DEF Steps
<1> QED
  BY <1>3, <1>4 DEF w

-----------------------------------------------------------------------------
(* The list holds a set F of free blocks in address order.                 *)

\* p is the least address in S, NULL if there is none.
IsFirst(p, S) == IF S = {} THEN p = NULL ELSE p \in S /\ \A b \in S : p <= b

Above(F, a) == {b \in F : a < b}

IsChain(h, m, F) ==
  /\ F \subseteq HeapUnits
  /\ IsFirst(h, F)
  /\ \A a \in F : IsFirst(m[a].word, Above(F, a))

\* The pointers to a, among them those of the blocks in S, are set to x.
Relinks(h, m, S, h2, m2, a, x) ==
  /\ h2 = IF h = a THEN x ELSE h
  /\ \A b \in S : m2[b].word = IF m[b].word = a THEN x ELSE m[b].word

\* The address c could stand in for a: no other block of F is between them.
Replaces(F, a, c) == \A b \in F \ {a} : b # c /\ (b < a <=> b < c)

\* The pointer of the last block of F before a is set to a.
Inserts(h, m, F, h2, m2, a) ==
  /\ h2 = IF \E b \in F : b < a THEN h ELSE a
  /\ \A b \in F : m2[b].word = IF b < a /\ \A c \in F : c < a => c <= b
                               THEN a ELSE m[b].word

LEMMA Units ==
  /\ \A a \in HeapUnits : /\ a \in Addr /\ a \in Nat /\ a % 8 = 0 /\ 0 < a
                          /\ HeapStart <= a /\ a + HeaderSize <= HeapLimit
  /\ HeapLimit \in Nat /\ HeapLimit % 8 = 0 /\ HeapLimit + 7 = RAM_END
  /\ HeapStart \in HeapUnits
  BY LayoutAssumption DEF HeapUnits, Addr, HeapLimit, HeaderSize

\* What has been visited when the walk is at its n-th pointer.
LEMMA ChainVisits ==
  ASSUME NEW h, NEW m, NEW F, IsChain(h, m, F), NEW n \in Steps
  PROVE  /\ WalkOf(h, m)[n] \in F \cup {NULL}
         /\ \A b \in F : WalkOf(h, m)[n] = NULL \/ b < WalkOf(h, m)[n]
              => \E i \in Steps : i < n /\ WalkOf(h, m)[i] = b
<1> DEFINE w == WalkOf(h, m)
           At(k) == /\ w[k] \in F \cup {NULL}
                    /\ \A b \in F : w[k] = NULL \/ b < w[k]
                         => \E i \in Steps : i < k /\ w[i] = b
           S == {k \in Steps : At(k)}
<1>1. /\ w[0] = h /\ 0 \in Steps
      /\ \A k \in Steps : k > 0 => k - 1 \in Steps /\ w[k] = Succ(m, w[k - 1])
  BY WalkIs, AddrFinite
<1>2. /\ F \subseteq HeapUnits /\ IsFirst(h, F)
      /\ \A a \in F : IsFirst(m[a].word, Above(F, a)) /\ a # NULL /\ a \in Nat
  BY Units DEF IsChain, NULL
<1> HIDE DEF w
<1>3. 0 \in S
  BY <1>1, <1>2 DEF IsFirst
<1>4. ASSUME NEW k \in Steps, k \in S, k < Cardinality(Addr)
      PROVE  k + 1 \in S
  <2>1. k + 1 \in Steps /\ w[k + 1] = Succ(m, w[k]) /\ k < k + 1 /\ k \in Nat
    <3>1. k + 1 \in Steps /\ k < k + 1 /\ k \in Nat /\ (k + 1) - 1 = k /\ k + 1 > 0
      BY <1>4, AddrFinite DEF Steps
    <3> QED
      BY <3>1, <1>1
  <2>2. At(k)
    BY <1>4
  <2>3. \A i \in Steps : i < k => i < k + 1
    BY <2>1 DEF Steps
  <2>4. CASE w[k] = NULL
    BY <2>1, <2>2, <2>3, <2>4 DEF Succ
  <2>5. CASE w[k] \in F
    <3>1. w[k + 1] = m[w[k]].word /\ IsFirst(w[k + 1], Above(F, w[k]))
      BY <2>1, <2>5, <1>2 DEF Succ
    <3>2. ASSUME NEW b \in F, w[k + 1] = NULL \/ b < w[k + 1]
          PROVE  b <= w[k]
      BY <3>1, <3>2, <2>5, <1>2 DEF IsFirst, Above
    <3>3. ASSUME NEW b \in F, w[k + 1] = NULL \/ b < w[k + 1]
          PROVE  \E i \in Steps : i < k + 1 /\ w[i] = b
      <4>1. CASE b = w[k]
        BY <4>1, <2>1
      <4>2. CASE b < w[k]
        BY <4>2, <2>2, <2>3
      <4> QED
        BY <4>1, <4>2, <3>2, <3>3, <2>5, <1>2
    <3>4. w[k + 1] \in F \cup {NULL}
      BY <3>1 DEF IsFirst, Above
    <3> QED
      BY <2>1, <3>3, <3>4
  <2> QED
    BY <2>2, <2>4, <2>5
<1>5. \A k \in 0 .. Cardinality(Addr) : k \in S
  <2>1. \A k \in 0 .. Cardinality(Addr) : k \in S /\ k < Cardinality(Addr) => k + 1 \in S
    BY <1>4 DEF Steps
  <2> HIDE DEF S
  <2> QED
    BY <2>1, <1>3, AddrFinite, InductionUpTo
<1> QED
  BY <1>5 DEF w, Steps

\* The walk visits its blocks in the order of their addresses.
LEMMA ChainIncreases ==
  ASSUME NEW h, NEW m, NEW F, IsChain(h, m, F), NEW n \in Steps, NEW i \in Steps,
         i < n, WalkOf(h, m)[n] # NULL
  PROVE  WalkOf(h, m)[i] \in F /\ WalkOf(h, m)[i] < WalkOf(h, m)[n]
<1> DEFINE w == WalkOf(h, m)
           At(k) == w[k] # NULL => \A j \in Steps : j < k => w[j] \in F /\ w[j] < w[k]
           S == {k \in Steps : At(k)}
<1>1. /\ 0 \in Steps
      /\ \A k \in Steps : k > 0 => k - 1 \in Steps /\ w[k] = Succ(m, w[k - 1])
  BY WalkIs, AddrFinite
<1>2. /\ F \subseteq Nat
      /\ \A a \in F : IsFirst(m[a].word, Above(F, a))
  BY Units DEF IsChain
<1>3. \A k \in Steps : w[k] \in F \cup {NULL}
  BY ChainVisits
<1> HIDE DEF w
<1>4. 0 \in S
  BY <1>1 DEF Steps
<1>5. ASSUME NEW k \in Steps, k \in S, k < Cardinality(Addr)
      PROVE  k + 1 \in S
  <2>1. k + 1 \in Steps /\ w[k + 1] = Succ(m, w[k]) /\ k \in Nat
    BY <1>5, <1>1, AddrFinite DEF Steps
  <2>2. ASSUME w[k + 1] # NULL, NEW j \in Steps, j < k + 1
        PROVE  w[j] \in F /\ w[j] < w[k + 1]
    <3>1. w[k] \in F /\ w[k] < w[k + 1] /\ w[k] # NULL /\ w[k + 1] \in F
      BY <2>1, <2>2, <1>2, <1>3 DEF Succ, IsFirst, Above
    <3>2. j = k \/ j < k
      BY <2>1, <2>2 DEF Steps
    <3>3. CASE j < k
      <4>1. w[j] \in F /\ w[j] < w[k]
        BY <3>1, <3>3, <1>5
      <4>2. w[j] \in Nat /\ w[k] \in Nat /\ w[k + 1] \in Nat
        BY <4>1, <3>1, <1>2
      <4> QED
        BY <4>1, <4>2, <3>1
    <3> QED
      BY <3>1, <3>2, <3>3
  <2> QED
    BY <2>1, <2>2
<1>6. \A k \in 0 .. Cardinality(Addr) : k \in S
  <2>1. \A k \in 0 .. Cardinality(Addr) : k \in S /\ k < Cardinality(Addr) => k + 1 \in S
    BY <1>5 DEF Steps
  <2> HIDE DEF S
  <2> QED
    BY <2>1, <1>4, AddrFinite, InductionUpTo
<1> QED
  BY <1>6 DEF w, Steps

\* The walk is long enough to get past the last block.
LEMMA ChainEnds ==
  ASSUME NEW h, NEW m, NEW F, IsChain(h, m, F)
  PROVE  WalkOf(h, m)[Cardinality(Addr)] = NULL
<1> DEFINE K == Cardinality(Addr)
           f == [n \in Steps |-> WalkOf(h, m)[n]]
<1>1. SUFFICES ASSUME WalkOf(h, m)[K] # NULL PROVE FALSE
  OBVIOUS
<1>2. K \in Nat /\ IsFiniteSet(Addr) /\ K \in Steps
  BY AddrFinite DEF Steps
<1>3. F \subseteq Addr /\ \A a \in F : a \in Nat /\ a # NULL
  BY Units DEF IsChain, NULL
<1>4. \A n \in Steps : WalkOf(h, m)[n] \in F
  <2>1. ASSUME NEW n \in Steps PROVE n = K \/ n < K
    BY <1>2 DEF Steps
  <2> QED
    BY <2>1, <1>1, <1>2, ChainIncreases, ChainVisits
<1>5. ASSUME NEW n \in Steps, NEW i \in Steps, f[n] = f[i] PROVE n = i
  <2>1. n < i \/ i < n \/ n = i
    BY DEF Steps
  <2>2. WalkOf(h, m)[n] = WalkOf(h, m)[i]
    BY <1>5
  <2>3. WalkOf(h, m)[n] \in F /\ WalkOf(h, m)[n] \in Nat /\ WalkOf(h, m)[n] # NULL
    BY <1>4, <1>3
  <2> QED
    BY <2>1, <2>2, <2>3, ChainIncreases
<1>6. f \in Injection(Steps, Addr)
  <2>1. f \in [Steps -> Addr]
    BY <1>3, <1>4
  <2> HIDE DEF f
  <2> QED
    BY <1>5, <2>1 DEF Injection, IsInjective
<1>7. Cardinality(Steps) <= K
  BY <1>2, <1>6, FS_Injection
<1>8. Cardinality(Steps) = K + 1
  BY <1>2, FS_Interval DEF Steps
<1> QED
  BY <1>2, <1>7, <1>8

\* The blocks on the list are exactly those of F.
LEMMA ChainIsFree ==
  ASSUME NEW h, NEW m, NEW F, IsChain(h, m, F)
  PROVE  FreeOf(h, m) = F
<1>1. Cardinality(Addr) \in Steps
  BY AddrFinite DEF Steps
<1>2. \A b \in F : \E i \in Steps : WalkOf(h, m)[i] = b
  BY <1>1, ChainEnds, ChainVisits
<1>3. \A n \in Steps : WalkOf(h, m)[n] \in F \cup {NULL}
  BY ChainVisits
<1>4. NULL \notin F
  BY Units DEF IsChain, NULL
<1> QED
  BY <1>2, <1>3, <1>4 DEF FreeOf

-----------------------------------------------------------------------------
(* What the operations do to the list.                                     *)

\* Only one block of the list points to a given one.
LEMMA OnePredecessor ==
  ASSUME NEW h, NEW m, NEW F, IsChain(h, m, F), NEW a \in F,
         NEW p \in F, m[p].word = a
  PROVE  /\ h # a /\ p < a
         /\ \A b \in F : b < a => b <= p
         /\ \A b \in F : m[b].word = a => b = p
<1>1. /\ F \subseteq Nat /\ IsFirst(h, F)
      /\ \A b \in F : IsFirst(m[b].word, Above(F, b)) /\ b # NULL /\ b \in Nat
  BY Units DEF IsChain, NULL
<1>2. \A b \in F : m[b].word = a => b < a /\ \A c \in F : b < c => a <= c
  BY <1>1 DEF IsFirst, Above, NULL
<1>3. p < a /\ \A c \in F : p < c => a <= c
  BY <1>2
<1>4. h # a
  BY <1>1, <1>3 DEF IsFirst
<1>5. ASSUME NEW b \in F, b < a PROVE b <= p
  BY <1>1, <1>3, <1>5
<1>6. ASSUME NEW b \in F, m[b].word = a PROVE b = p
  <2>1. b < a /\ b <= p /\ (b < p => a <= p)
    BY <1>2, <1>5, <1>6
  <2> QED
    BY <2>1, <1>1, <1>3
<1> QED
  BY <1>3, <1>4, <1>5, <1>6

\* The block a leaves the list.
LEMMA ChainRemove ==
  ASSUME NEW h, NEW m, NEW F, IsChain(h, m, F), NEW a \in F,
         NEW h2, NEW m2, Relinks(h, m, F \ {a}, h2, m2, a, m[a].word)
  PROVE  IsChain(h2, m2, F \ {a})
<1> DEFINE G == F \ {a}
<1>1. /\ F \subseteq HeapUnits /\ IsFirst(h, F) /\ IsFirst(m[a].word, Above(F, a))
      /\ \A b \in F : IsFirst(m[b].word, Above(F, b)) /\ b # NULL /\ b \in Nat
  BY Units DEF IsChain, NULL
<1> USE DEF Relinks
<1>2. IsFirst(h2, G)
  <2>1. CASE h = a
    <3>1. Above(F, a) = G
      BY <2>1, <1>1 DEF IsFirst, Above
    <3> QED
      BY <3>1, <2>1, <1>1
  <2>2. CASE h # a
    BY <2>2, <1>1 DEF IsFirst
  <2> QED
    BY <2>1, <2>2
<1>3. ASSUME NEW b \in G PROVE IsFirst(m2[b].word, Above(G, b))
  <2>1. IsFirst(m[b].word, Above(F, b)) /\ b \in Nat /\ a \in Nat /\ b # a
    BY <1>1
  <2>2. CASE m[b].word = a
    <3>1. m2[b].word = m[a].word
      BY <2>2
    <3>2. ASSUME NEW c \in F PROVE c \in Above(F, a) <=> c \in Above(G, b)
      <4>1. c \in Nat /\ b < a /\ (b < c => a <= c)
        BY <2>1, <2>2, <1>1 DEF IsFirst, Above, NULL
      <4> QED
        BY <4>1, <2>1 DEF Above
    <3>3. Above(F, a) = Above(G, b)
      BY <3>2 DEF Above
    <3> QED
      BY <3>1, <3>3, <1>1
  <2>3. CASE m[b].word # a
    BY <2>1, <2>3 DEF IsFirst, Above
  <2> QED
    BY <2>2, <2>3
<1> QED
  BY <1>1, <1>2, <1>3 DEF IsChain

\* The block c takes the place of a.
LEMMA ChainReplace ==
  ASSUME NEW h, NEW m, NEW F, IsChain(h, m, F), NEW a \in F,
         NEW c \in HeapUnits, Replaces(F, a, c), NEW h2, NEW m2,
         Relinks(h, m, F \ {a}, h2, m2, a, c), m2[c].word = m[a].word
  PROVE  IsChain(h2, m2, (F \ {a}) \cup {c})
<1> DEFINE G == (F \ {a}) \cup {c}
<1>1. /\ F \subseteq HeapUnits /\ IsFirst(h, F) /\ IsFirst(m[a].word, Above(F, a))
      /\ \A b \in F : IsFirst(m[b].word, Above(F, b)) /\ b # NULL /\ b \in Nat
  BY Units DEF IsChain, NULL
<1>2. c \in Nat /\ c # NULL /\ a \in Nat /\ a # NULL
  BY <1>1, Units DEF NULL
<1>3. ASSUME NEW b \in F \ {a} PROVE b \in Nat /\ b # c /\ b # a /\ (b < a <=> b < c)
  BY <1>1 DEF Replaces
<1> USE DEF Relinks
<1>4. IsFirst(h2, G)
  <2>1. CASE h = a
    BY <2>1, <1>1, <1>2, <1>3 DEF IsFirst
  <2>2. CASE h # a
    <3>1. h \in F \ {a} /\ h2 = h /\ h <= a
      BY <2>2, <1>1 DEF IsFirst
    <3>2. h < c
      BY <3>1, <1>3, <1>2
    <3>3. \A b \in F : h <= b
      BY <3>1, <1>1 DEF IsFirst
    <3>4. h <= c
      BY <3>1, <3>2, <1>1, <1>2
    <3> QED
      BY <3>1, <3>3, <3>4 DEF IsFirst
  <2> QED
    BY <2>1, <2>2
<1>5. IsFirst(m2[c].word, Above(G, c))
  <2>1. \A b \in F \ {a} : c < b <=> a < b
    BY <1>2, <1>3
  <2>2. \A b \in G : c < b <=> b \in Above(F, a)
    BY <2>1, <1>2 DEF Above
  <2>3. \A b \in Above(F, a) : b \in G
    BY <1>2 DEF Above
  <2>4. Above(G, c) = Above(F, a)
    BY <2>2, <2>3 DEF Above
  <2> QED
    BY <2>4, <1>1
<1>6. ASSUME NEW b \in F \ {a} PROVE IsFirst(m2[b].word, Above(G, b))
  <2>1. /\ IsFirst(m[b].word, Above(F, b)) /\ b \in Nat /\ (b < a <=> b < c)
        /\ m2[b].word = IF m[b].word = a THEN c ELSE m[b].word
    BY <1>1, <1>3
  <2>2. CASE m[b].word = a
    <3>1. m2[b].word = c /\ a \in Above(F, b) /\ \A d \in Above(F, b) : a <= d
      BY <2>1, <2>2, <1>2 DEF IsFirst
    <3>2. c \in Above(G, b)
      BY <2>1, <3>1 DEF Above
    <3>3. ASSUME NEW d \in Above(G, b) PROVE c <= d
      <4>1. CASE d = c
        BY <4>1, <1>2
      <4>2. CASE d \in F \ {a}
        <5>1. d \in Above(F, b)
          BY <4>2, <3>3 DEF Above
        <5> QED
          BY <5>1, <4>2, <3>1, <1>3, <1>2
      <4> QED
        BY <4>1, <4>2, <3>3 DEF Above
    <3> QED
      BY <3>1, <3>2, <3>3 DEF IsFirst
  <2>3. CASE m[b].word # a
    <3>1. m2[b].word = m[b].word
      BY <2>1, <2>3
    <3>2. CASE Above(F, b) = {}
      BY <3>1, <3>2, <2>1, <1>2 DEF IsFirst, Above
    <3>3. CASE Above(F, b) # {}
      <4> DEFINE d == m[b].word
      <4>1. d \in F \ {a} /\ b < d /\ \A e \in F : b < e => d <= e
        BY <3>3, <2>1, <2>3 DEF IsFirst, Above
      <4>2. d \in Nat /\ (d < a <=> d < c) /\ d # c
        BY <4>1, <1>3
      <4>3. b < c => d <= c
        BY <4>1, <4>2, <2>1, <1>2
      <4> QED
        BY <3>1, <4>1, <4>3 DEF IsFirst, Above
    <3> QED
      BY <3>2, <3>3
  <2> QED
    BY <2>2, <2>3
<1> QED
  BY <1>1, <1>4, <1>5, <1>6 DEF IsChain

\* The block a joins the list between the block before it and q.
LEMMA ChainInsert ==
  ASSUME NEW h, NEW m, NEW F, IsChain(h, m, F), NEW a \in HeapUnits, a \notin F,
         NEW h2, NEW m2, IsFirst(m2[a].word, Above(F, a)), Inserts(h, m, F, h2, m2, a)
  PROVE  IsChain(h2, m2, F \cup {a})
<1> USE DEF Inserts
<1> DEFINE G == F \cup {a}
<1>1. /\ F \subseteq HeapUnits /\ IsFirst(h, F)
      /\ \A b \in F : IsFirst(m[b].word, Above(F, b)) /\ b # NULL /\ b \in Nat /\ b # a
  BY Units DEF IsChain, NULL
<1>2. a \in Nat /\ a # NULL
  BY Units DEF NULL
<1>3. IsFirst(h2, G)
  <2>1. CASE \E b \in F : b < a
    <3>1. PICK b \in F : b < a
      BY <2>1
    <3>2. h2 = h /\ h \in F /\ h <= b /\ \A c \in F : h <= c
      BY <2>1, <1>1 DEF IsFirst
    <3>3. h <= a
      BY <3>1, <3>2, <1>1, <1>2
    <3> QED
      BY <3>2, <3>3 DEF IsFirst
  <2>2. CASE ~\E b \in F : b < a
    BY <2>2, <1>1, <1>2 DEF IsFirst
  <2> QED
    BY <2>1, <2>2
<1>4. IsFirst(m2[a].word, Above(G, a))
  <2>1. Above(G, a) = Above(F, a)
    BY <1>2 DEF Above
  <2> QED
    BY <2>1
<1>5. ASSUME NEW b \in F PROVE IsFirst(m2[b].word, Above(G, b))
  <2>1. /\ IsFirst(m[b].word, Above(F, b)) /\ b \in Nat /\ b # a
    BY <1>1
  <2>2. CASE b < a /\ \A c \in F : c < a => c <= b
    <3>1. m2[b].word = a
      BY <2>2
    <3>2. \A c \in G : b < c => a <= c
      BY <2>2, <1>1, <1>2
    <3> QED
      BY <3>1, <3>2, <2>2 DEF IsFirst, Above
  <2>3. CASE b < a /\ \E c \in F : c < a /\ ~(c <= b)
    <3>1. PICK c \in F : c < a /\ ~(c <= b)
      BY <2>3
    <3>2. m2[b].word = m[b].word
      BY <2>3
    <3>3. b < c /\ m[b].word \in F /\ b < m[b].word /\ m[b].word <= c
          /\ \A d \in F : b < d => m[b].word <= d
      BY <3>1, <2>1, <1>1 DEF IsFirst, Above
    <3>4. m[b].word <= a
      BY <3>1, <3>3, <1>1, <1>2
    <3> QED
      BY <3>2, <3>3, <3>4 DEF IsFirst, Above
  <2>4. CASE a < b
    <3>1. m2[b].word = m[b].word /\ Above(G, b) = Above(F, b)
      BY <2>4, <2>1, <1>2 DEF Above
    <3> QED
      BY <3>1, <2>1
  <2> QED
    BY <2>1, <2>2, <2>3, <2>4, <1>2
<1> QED
  BY <1>1, <1>3, <1>4, <1>5 DEF IsChain

-----------------------------------------------------------------------------
(* Blocks that tile the heap: they fill it and do not overlap.             *)

Bounds == HeapUnits \cup {HeapLimit}

\* The blocks of S end in f where they do in e.
SameEnds(S, e, f) == \A b \in S : f[b] = e[b]

\* The blocks of B, each reaching to e, are disjoint and leave no unit out.
Tiles(B, e) ==
  /\ B \subseteq HeapUnits
  /\ \A a \in B : e[a] \in Bounds /\ a < e[a]
  /\ \A a, b \in B : a < b => e[a] <= b
  /\ \A u \in HeapUnits : \E a \in B : a <= u /\ u < e[a]

LEMMA BoundsAre ==
  /\ HeapUnits \subseteq Bounds
  /\ \A x \in Bounds : /\ x \in Nat /\ x % 8 = 0 /\ 0 < x /\ HeapStart <= x
                       /\ x <= HeapLimit /\ (x < HeapLimit => x \in HeapUnits)
                       /\ (x \in HeapUnits => x < HeapLimit /\ x \in Addr)
  /\ \A x \in Int : x % 8 = 0 /\ HeapStart <= x /\ x <= HeapLimit => x \in Bounds
  /\ \A x \in Bounds, y \in Bounds : x < y => x + 8 <= y
  BY Units, LayoutAssumption DEF Bounds, HeapUnits, Addr, HeapLimit, HeaderSize

\* A block is cut in two at c.
LEMMA TilesCut ==
  ASSUME NEW B, NEW e, Tiles(B, e), NEW a \in B, NEW c \in HeapUnits,
         a < c, c < e[a], NEW f, f[a] = c, f[c] = e[a], SameEnds(B \ {a}, e, f)
  PROVE  Tiles(B \cup {c}, f)
<1> USE DEF SameEnds
<1>1. /\ B \subseteq HeapUnits /\ a \in Nat /\ c \in Nat
      /\ \A b \in B : e[b] \in Bounds /\ b < e[b] /\ b \in Nat /\ e[b] \in Nat
      /\ \A b, d \in B : b < d => e[b] <= d
  BY Units, BoundsAre DEF Tiles
<1>2. c \notin B
  BY <1>1
<1>3. \A b \in B \cup {c} : f[b] \in Bounds /\ b < f[b]
  BY <1>1, <1>2, BoundsAre
<1>4. ASSUME NEW b \in B \cup {c}, NEW d \in B \cup {c}, b < d PROVE f[b] <= d
  <2>1. CASE b = a
    <3>1. CASE d = c
      BY <2>1, <3>1, <1>1
    <3>2. CASE d \in B
      BY <2>1, <3>2, <1>1, <1>4
    <3> QED
      BY <3>1, <3>2
  <2>2. CASE b = c
    BY <2>2, <1>1, <1>4
  <2>3. CASE b \in B \ {a}
    <3>1. CASE d = c
      BY <2>3, <3>1, <1>1, <1>4
    <3>2. CASE d \in B
      BY <2>3, <3>2, <1>1, <1>4
    <3> QED
      BY <3>1, <3>2
  <2> QED
    BY <2>1, <2>2, <2>3
<1>5. ASSUME NEW u \in HeapUnits PROVE \E b \in B \cup {c} : b <= u /\ u < f[b]
  <2>1. PICK b \in B : b <= u /\ u < e[b]
    BY DEF Tiles
  <2>2. u \in Nat
    BY Units
  <2>3. CASE b # a
    BY <2>1, <2>3
  <2>4. CASE b = a
    BY <2>1, <2>2, <2>4, <1>1
  <2> QED
    BY <2>3, <2>4
<1> QED
  BY <1>1, <1>3, <1>4, <1>5 DEF Tiles

\* A block takes in the one that begins where it ends.
LEMMA TilesMerge ==
  ASSUME NEW B, NEW e, Tiles(B, e), NEW a \in B, NEW c \in B, e[a] = c,
         NEW f, f[a] = e[c], SameEnds(B \ {a, c}, e, f)
  PROVE  Tiles(B \ {c}, f)
<1> USE DEF SameEnds
<1>1. /\ B \subseteq HeapUnits /\ a \in Nat /\ c \in Nat /\ a < c /\ c < e[c]
      /\ \A b \in B : e[b] \in Bounds /\ b < e[b] /\ b \in Nat /\ e[b] \in Nat
      /\ \A b, d \in B : b < d => e[b] <= d
  BY Units, BoundsAre DEF Tiles
<1>2. \A b \in B \ {c} : f[b] \in Bounds /\ b < f[b]
  BY <1>1
<1>3. ASSUME NEW b \in B \ {c}, NEW d \in B \ {c}, b < d PROVE f[b] <= d
  <2>1. CASE b = a
    <3>1. c <= d
      BY <2>1, <1>1, <1>3
    <3> QED
      BY <2>1, <3>1, <1>1, <1>3
  <2>2. CASE b # a
    BY <2>2, <1>1, <1>3
  <2> QED
    BY <2>1, <2>2
<1>4. ASSUME NEW u \in HeapUnits PROVE \E b \in B \ {c} : b <= u /\ u < f[b]
  <2>1. PICK b \in B : b <= u /\ u < e[b]
    BY DEF Tiles
  <2>2. u \in Nat
    BY Units
  <2>3. CASE b \notin {a, c}
    BY <2>1, <2>3
  <2>4. CASE b \in {a, c}
    BY <2>1, <2>2, <2>4, <1>1
  <2> QED
    BY <2>3, <2>4
<1> QED
  BY <1>1, <1>2, <1>3, <1>4 DEF Tiles

LEMMA TilesSame ==
  ASSUME NEW B, NEW e, Tiles(B, e), NEW f, SameEnds(B, e, f)
  PROVE  Tiles(B, f)
  BY DEF Tiles, SameEnds

-----------------------------------------------------------------------------
(* The invariant, of a head h, a memory m and a set F of free blocks.      *)

Headers == [Addr -> [size : 0 .. WORD - 1,
                     word : Addr \cup {MAGIC_NUM + t : t \in Tid}]]

TaggedIn(m) == {a \in Addr : \E t \in Tid : m[a].word = MAGIC_NUM + t}

\* No block of F begins at an address that is the value of a tag.
Apart(F) == \A a \in F : \A t \in Tid : a # MAGIC_NUM + t

\* The values of the second word that are no tag.
Links == {a \in Addr : \A t \in Tid : a # MAGIC_NUM + t}

Span(m, a) == m[a].size + HeaderSize

\* Where the blocks end, the incomplete unit behind the last one left out.
Ends(m) == [a \in Addr |-> IF a + Span(m, a) = RAM_END THEN HeapLimit
                           ELSE a + Span(m, a)]

Layout(h, m, F) ==
  /\ m \in Headers
  /\ IsChain(h, m, F)
  /\ Tiles(F \cup TaggedIn(m), Ends(m))
  /\ \A a \in F, b \in F : Ends(m)[a] # b
  /\ Apart(F)

MemInv == Layout(head, mem, FreeBlocks)

\* The blocks in S are still the same owner's and end where they did.
Keeps(m, m2, S) == \A b \in S : Ends(m2)[b] = Ends(m)[b] /\ m2[b].word = m[b].word

LEMMA WalkIsWalk == walk = WalkOf(head, mem) /\ FreeBlocks = FreeOf(head, mem)
<1>1. walk = WalkOf(head, mem)
  BY DEF walk, WalkOf
<1> QED
  BY <1>1, WalkIs DEF FreeBlocks, FreeOf

\* What is known of a block.
LEMMA BlockFacts ==
  ASSUME NEW h, NEW m, NEW F, Layout(h, m, F), NEW a \in F \cup TaggedIn(m)
  PROVE  /\ a \in HeapUnits /\ a \in Addr /\ a \in Nat
         /\ m[a].size \in Nat /\ Span(m, a) \in Nat /\ Span(m, a) < WORD
         /\ Span(m, a) = m[a].size + 8
         /\ a + Span(m, a) \in Bounds \cup {RAM_END}
         /\ Ends(m)[a] = IF a + Span(m, a) = RAM_END THEN HeapLimit ELSE a + Span(m, a)
         /\ Ends(m)[a] \in Bounds /\ Ends(m)[a] \in Nat /\ a < Ends(m)[a]
<1>1. a \in HeapUnits /\ Ends(m)[a] \in Bounds /\ a < Ends(m)[a]
  BY DEF Layout, Tiles
<1>2. a \in Addr /\ a \in Nat /\ Ends(m)[a] \in Nat
  BY <1>1, Units, BoundsAre
<1>3. m[a].size \in 0 .. WORD - 1
  BY <1>2 DEF Layout, Headers
<1>4. Span(m, a) \in Nat /\ Span(m, a) = m[a].size + 8 /\ m[a].size \in Nat
  BY <1>3, LayoutAssumption DEF Span, HeaderSize
<1>5. Ends(m)[a] = IF a + Span(m, a) = RAM_END THEN HeapLimit ELSE a + Span(m, a)
  BY <1>2 DEF Ends
<1>6. a + Span(m, a) \in Bounds \cup {RAM_END}
  BY <1>1, <1>5
<1>7. a + Span(m, a) <= RAM_END
  <2> DEFINE x == a + Span(m, a)
  <2>1. x \in Bounds => x <= HeapLimit /\ x \in Nat
    BY BoundsAre
  <2>2. HeapLimit \in Nat /\ HeapLimit + 7 = RAM_END /\ RAM_END \in Nat
    BY Units, LayoutAssumption
  <2> HIDE DEF x
  <2>3. x <= RAM_END
    BY <1>6, <2>1, <2>2 DEF x
  <2> QED
    BY <2>3 DEF x
<1> QED
  BY <1>1, <1>2, <1>4, <1>5, <1>6, <1>7, LayoutAssumption DEF HeaderSize

LEMMA NullIsLink == NULL \in Links /\ 0 \in Links
<1>1. 0 \in Addr
  BY LayoutAssumption DEF Addr
<1> QED
  BY <1>1, TagAssumption DEF Links, NULL

\* The free blocks carry no tag.
LEMMA FreeUntagged ==
  ASSUME NEW h, NEW m, NEW F, Layout(h, m, F), NEW a \in F
  PROVE  /\ a \notin TaggedIn(m) /\ m[a].word \in Addr /\ m[a].word \in Links
         /\ m[a].word \in F \cup {NULL}
<1>1. IsFirst(m[a].word, Above(F, a)) /\ F \subseteq HeapUnits /\ Apart(F)
  BY DEF Layout, IsChain
<1>2. m[a].word \in F \cup {NULL}
  BY <1>1 DEF IsFirst, Above
<1>3. NULL \in Links
  BY NullIsLink
<1>4. F \subseteq Links
  BY <1>1, Units DEF Apart, Links
<1> QED
  BY <1>2, <1>3, <1>4 DEF TaggedIn, Links

-----------------------------------------------------------------------------
(* Allocation.                                                             *)

\* No request is so large that adding the header and rounding up wraps around.
RequestsFit == \A s \in Sizes : s + HeaderSize + 7 < WORD

\* m2 is m with every pointer to a on the list, the head included, set to x; the
\* headers in S are not considered.
Redirected(h, m, F, h2, m2, a, x, S) ==
  /\ m2 \in Headers
  /\ h2 = IF h = a THEN x ELSE h
  /\ \A b \in Addr \ S : /\ m2[b].size = m[b].size
                         /\ m2[b].word = IF b \in F /\ m[b].word = a THEN x ELSE m[b].word

\* The first free block that is long enough.
FirstFit(m, F, need, a) ==
  a \in F /\ need <= Span(m, a) /\ \A b \in F : b < a => Span(m, b) < need

\* All of the free block a is handed out to t.
TakenWhole(h, m, F, h2, m2, need, t, a) ==
  /\ Span(m, a) - need < 8
  /\ m2[a].word = MAGIC_NUM + t /\ Ends(m2)[a] = Ends(m)[a]
  /\ Redirected(h, m, F, h2, m2, a, m[a].word, {a})

\* The first bytes of the free block a are handed out to t.
TakenPart(h, m, F, h2, m2, need, t, a) ==
  /\ a + need \in HeapUnits /\ a + need < Ends(m)[a]
  /\ m2[a].word = MAGIC_NUM + t /\ Ends(m2)[a] = a + need
  /\ m2[a + need].word = m[a].word /\ Ends(m2)[a + need] = Ends(m)[a]
  /\ Redirected(h, m, F, h2, m2, a, a + need, {a, a + need})

LEMMA Needed ==
  ASSUME RequestsFit, NEW s \in Sizes
  PROVE  /\ total_bytes_needed(s) \in Nat /\ total_bytes_needed(s) % 8 = 0
         /\ 8 <= total_bytes_needed(s) /\ total_bytes_needed(s) < WORD
         /\ total_bytes_needed(s) = (s + 15) - ((s + 15) % 8)
<1>1. s \in Nat /\ s + 15 < WORD /\ s + HeaderSize + 7 = s + 15
  BY SizeAssumption, LayoutAssumption DEF RequestsFit, HeaderSize
<1>2. (s + 15) % WORD = s + 15
  BY <1>1, LayoutAssumption
<1>3. total_bytes_needed(s) = (s + 15) - ((s + 15) % 8)
  BY <1>1, <1>2 DEF total_bytes_needed
<1> QED
  BY <1>1, <1>3, LayoutAssumption

LEMMA WholeIsSpan ==
  ASSUME MemInv, NEW a \in FreeBlocks \cup TaggedIn(mem)
  PROVE  Whole(a) = Span(mem, a)
<1>1. Span(mem, a) \in Nat /\ Span(mem, a) < WORD
  BY BlockFacts DEF MemInv
<1> QED
  BY <1>1, LayoutAssumption DEF Whole, Span

LEMMA MinIsLeast ==
  ASSUME NEW T, T \subseteq Nat, T # {}
  PROVE  Min(T) \in T /\ \A x \in T : Min(T) <= x
  BY LeastNatural DEF Min

\* The walk of the operations, in a state that satisfies the invariant.
LEMMA ListVisits ==
  ASSUME MemInv
  PROVE  /\ DOMAIN walk = Steps /\ Steps \subseteq Nat /\ walk[0] = head
         /\ \A n \in Steps : walk[n] \in FreeBlocks \cup {NULL}
         /\ \A n \in Steps : n > 0 => n - 1 \in Steps /\ walk[n] = Succ(mem, walk[n - 1])
         /\ \A n \in Steps, b \in FreeBlocks : walk[n] = NULL \/ b < walk[n]
              => \E i \in Steps : i < n /\ walk[i] = b
         /\ walk[Cardinality(Addr)] = NULL /\ Cardinality(Addr) \in Steps
         /\ \A b \in FreeBlocks : b # NULL /\ b \in Nat
<1> DEFINE F == FreeBlocks
<1>1. IsChain(head, mem, F)
  BY DEF MemInv, Layout
<1> HIDE DEF F
<1>2. \A n \in Steps : /\ WalkOf(head, mem)[n] \in F \cup {NULL}
                       /\ \A b \in F : WalkOf(head, mem)[n] = NULL \/ b < WalkOf(head, mem)[n]
                            => \E i \in Steps : i < n /\ WalkOf(head, mem)[i] = b
  BY <1>1, ChainVisits
<1>3. WalkOf(head, mem)[Cardinality(Addr)] = NULL
  BY <1>1, ChainEnds
<1>4. \A b \in F : b # NULL /\ b \in Nat
  BY <1>1, Units DEF IsChain, NULL
<1>5. Steps \subseteq Nat /\ Cardinality(Addr) \in Steps
  BY AddrFinite DEF Steps
<1>6. walk = WalkOf(head, mem)
  BY WalkIsWalk
<1> QED
  BY <1>2, <1>3, <1>4, <1>5, <1>6, WalkIs DEF F

\* The search ends at the first block that is long enough.
LEMMA SearchFinds ==
  ASSUME MemInv, RequestsFit, NEW s \in Sizes, ~Refused(s), head # NULL,
         NEW n, n = Min({i \in DOMAIN walk : fits(walk[i], i, total_bytes_needed(s))})
  PROVE  /\ n \in Steps /\ FirstFit(mem, FreeBlocks, total_bytes_needed(s), walk[n])
         /\ n = 0 => walk[n] = head
         /\ n # 0 => /\ walk[n - 1] \in FreeBlocks
                     /\ mem[walk[n - 1]].word = walk[n]
<1> DEFINE need == total_bytes_needed(s)
           F == FreeBlocks
           T == {i \in DOMAIN walk : fits(walk[i], i, need)}
<1>1. need \in Nat
  BY Needed
<1>2. /\ DOMAIN walk = Steps /\ Steps \subseteq Nat /\ walk[0] = head
      /\ \A i \in Steps : walk[i] \in F \cup {NULL}
      /\ \A i \in Steps : i > 0 => i - 1 \in Steps /\ walk[i] = Succ(mem, walk[i - 1])
      /\ \A i \in Steps, b \in F : walk[i] = NULL \/ b < walk[i]
           => \E j \in Steps : j < i /\ walk[j] = b
      /\ \A b \in F : b # NULL /\ b \in Nat
  BY ListVisits
<1> HIDE DEF F, need
<1>3. n \in T /\ \A i \in T : n <= i
  <2>1. T \subseteq Nat
    BY <1>2
  <2>2. T # {}
    BY DEF Refused, need
  <2>3. n = Min(T)
    BY DEF need
  <2> HIDE DEF T
  <2> QED
    BY <2>1, <2>2, <2>3, MinIsLeast
<1>4. n \in Steps /\ n \in Nat /\ fits(walk[n], n, need)
  BY <1>2, <1>3
<1>5. walk[n] \in F
  BY <1>2, <1>4 DEF fits
<1>6. need <= Span(mem, walk[n])
  BY <1>4, <1>5, WholeIsSpan DEF fits, F
<1>7. ASSUME NEW b \in F, b < walk[n] PROVE Span(mem, b) < need
  <2>1. PICK i \in Steps : i < n /\ walk[i] = b
    BY <1>2, <1>4, <1>7
  <2>2. i \notin T
    <3>1. i \in Nat /\ ~(n <= i)
      BY <1>2, <1>4, <2>1
    <3> HIDE DEF T
    <3> QED
      BY <3>1, <1>3
  <2>3. ~(need <= Whole(b))
    BY <2>1, <2>2, <1>2 DEF fits
  <2>4. Whole(b) = Span(mem, b) /\ Span(mem, b) \in Nat
    BY WholeIsSpan, BlockFacts DEF F, MemInv
  <2> QED
    BY <2>3, <2>4, <1>1
<1>8. ASSUME n # 0 PROVE walk[n - 1] \in F /\ mem[walk[n - 1]].word = walk[n]
  <2>1. n - 1 \in Steps /\ walk[n] = Succ(mem, walk[n - 1])
    BY <1>2, <1>4, <1>8
  <2> QED
    BY <2>1, <1>2, <1>5 DEF Succ
<1> QED
  BY <1>2, <1>4, <1>5, <1>6, <1>7, <1>8 DEF FirstFit, F, need

\* The n-th pointer of the list, kept in the head or in p, is to a.
Points(h, m, F, a, n, p) ==
  (n = 0 => a = h) /\ (n # 0 => p \in F /\ m[p].word = a)

\* It is the only one.
LEMMA Predecessors ==
  ASSUME NEW h, NEW m, NEW F, IsChain(h, m, F), NEW a \in F, NEW n, NEW p,
         Points(h, m, F, a, n, p)
  PROVE  /\ h = a <=> n = 0
         /\ \A b \in F : m[b].word = a <=> n # 0 /\ b = p
         /\ n # 0 => p \in F /\ p < a /\ p # a
<1>1. \A b \in F : b \in Nat
  BY Units DEF IsChain
<1>2. CASE n = 0
  <2>1. ASSUME NEW b \in F, m[b].word = a PROVE FALSE
    BY <1>2, <2>1, OnePredecessor DEF Points
  <2> QED
    BY <1>2, <2>1 DEF Points
<1>3. CASE n # 0
  <2>1. p \in F /\ m[p].word = a
    BY <1>3 DEF Points
  <2>2. h # a /\ p < a /\ \A b \in F : m[b].word = a => b = p
    BY <2>1, OnePredecessor
  <2> QED
    BY <1>1, <1>3, <2>1, <2>2
<1> QED
  BY <1>2, <1>3

-----------------------------------------------------------------------------
(* Writing headers and links.                                              *)

Words == Addr \cup {MAGIC_NUM + t : t \in Tid}

WithHeader(m, a, z, x) == [m EXCEPT ![a] = [size |-> z, word |-> x]]

\* The link of p set to x, if there is a block before.
Linked(m, n, p, x) == IF n = 0 THEN m ELSE [m EXCEPT ![p].word = x]

LEMMA HeaderWritten ==
  ASSUME NEW m \in Headers, NEW a \in Addr, NEW z \in 0 .. WORD - 1, NEW x \in Words
  PROVE  /\ WithHeader(m, a, z, x) \in Headers
         /\ WithHeader(m, a, z, x)[a].size = z /\ WithHeader(m, a, z, x)[a].word = x
         /\ \A b \in Addr \ {a} : /\ WithHeader(m, a, z, x)[b].size = m[b].size
                                  /\ WithHeader(m, a, z, x)[b].word = m[b].word
  BY DEF Headers, Words, WithHeader

LinkSet(m, n, p, x, m2) ==
  /\ m2 \in Headers
  /\ \A b \in Addr : /\ m2[b].size = m[b].size
                     /\ m2[b].word = IF n # 0 /\ b = p THEN x ELSE m[b].word

LEMMA LinkWritten ==
  ASSUME NEW m \in Headers, NEW n, NEW p, n # 0 => p \in Addr, NEW x \in Words
  PROVE  LinkSet(m, n, p, x, Linked(m, n, p, x))
<1>1. CASE n = 0
  BY <1>1 DEF Linked, LinkSet
<1>2. CASE n # 0
  BY <1>2 DEF Linked, LinkSet, Headers, Words
<1> QED
  BY <1>1, <1>2

\* The last step of both: the block a becomes t's.
LEMMA WholeTaken ==
  ASSUME NEW h, NEW m, NEW F, Layout(h, m, F), NEW a \in F, NEW n, NEW p,
         Points(h, m, F, a, n, p), NEW t \in Tid,
         NEW need \in Nat, need % 8 = 0, 8 <= need, need < WORD,
         need <= Span(m, a), Span(m, a) - need < 8, NEW len \in {need, Span(m, a)},
         NEW h2, h2 = IF n = 0 THEN m[a].word ELSE h,
         NEW m2, m2 = WithHeader(Linked(m, n, p, m[a].word), a,
                                 (len - HeaderSize) % WORD, MAGIC_NUM + t)
  PROVE  TakenWhole(h, m, F, h2, m2, need, t, a)
<1>1. /\ a \in Addr /\ a \in Nat /\ a % 8 = 0
      /\ Span(m, a) \in Nat /\ Span(m, a) < WORD
      /\ a + Span(m, a) \in Bounds \cup {RAM_END}
      /\ Ends(m)[a] = IF a + Span(m, a) = RAM_END THEN HeapLimit ELSE a + Span(m, a)
  BY BlockFacts, Units
<1>2. /\ m \in Headers /\ IsChain(h, m, F)
      /\ F \subseteq Addr /\ m[a].word \in Words
  BY Units, FreeUntagged DEF Layout, IsChain, Words
<1>3. /\ h = a <=> n = 0
      /\ \A b \in F : m[b].word = a <=> n # 0 /\ b = p
      /\ n # 0 => p \in F /\ p # a
  BY <1>2, Predecessors
<1>4. len - HeaderSize \in 0 .. WORD - 1 /\ (len - HeaderSize) % WORD = len - HeaderSize
  <2>1. len - HeaderSize \in Nat /\ len - HeaderSize < WORD
    BY <1>1, LayoutAssumption DEF HeaderSize
  <2> QED
    BY <2>1, LayoutAssumption
<1> DEFINE z == len - HeaderSize
           x == MAGIC_NUM + t
           m1 == Linked(m, n, p, m[a].word)
<1>5. m2 = WithHeader(m1, a, z, x)
  BY <1>4
<1>6. z \in 0 .. WORD - 1 /\ x \in Words
  BY <1>4 DEF Words
<1>7. LinkSet(m, n, p, m[a].word, m1)
  <2>1. n # 0 => p \in Addr
    BY <1>2, <1>3
  <2> QED
    BY <2>1, <1>2, LinkWritten
<1> HIDE DEF m1, z, x
<1>8. /\ m2 \in Headers /\ m2[a].size = z /\ m2[a].word = x
      /\ \A b \in Addr \ {a} : m2[b].size = m1[b].size /\ m2[b].word = m1[b].word
  BY <1>1, <1>5, <1>6, <1>7, HeaderWritten DEF LinkSet
<1>9. Redirected(h, m, F, h2, m2, a, m[a].word, {a})
  BY <1>2, <1>3, <1>7, <1>8 DEF Redirected, LinkSet
<1>10. Ends(m2)[a] = Ends(m)[a]
  <2>1. Ends(m2)[a] = IF a + len = RAM_END THEN HeapLimit ELSE a + len
    <3>1. Span(m2, a) = len
      BY <1>8, <1>1 DEF Span, z, HeaderSize
    <3> QED
      BY <3>1, <1>1 DEF Ends
  <2>2. CASE len = Span(m, a)
    BY <2>1, <2>2, <1>1
  <2>3. CASE len = need
    <3>1. /\ (a + need) % 8 = 0 /\ a + need <= a + Span(m, a)
          /\ a + Span(m, a) < a + need + 8
      BY <1>1
    <3>2. CASE a + Span(m, a) = RAM_END
      BY <3>1, <3>2, <2>1, <2>3, <1>1, LayoutAssumption DEF HeapLimit
    <3>3. CASE a + Span(m, a) \in Bounds
      <4>1. (a + Span(m, a)) % 8 = 0
        BY <3>3, BoundsAre
      <4>2. a + Span(m, a) = a + need
        <5> DEFINE y == a + Span(m, a)
                   d == a + need
        <5>1. y \in Nat /\ d \in Nat /\ y % 8 = 0 /\ d % 8 = 0 /\ d <= y /\ y < d + 8
          BY <4>1, <3>1, <1>1
        <5> HIDE DEF y, d
        <5>2. y = d
          BY <5>1
        <5> QED
          BY <5>2 DEF y, d
      <4> QED
        BY <4>2, <2>1, <2>3, <1>1
    <3> QED
      BY <3>2, <3>3, <1>1
  <2> QED
    BY <2>2, <2>3
<1> QED
  BY <1>8, <1>9, <1>10 DEF TakenWhole, x

LEMMA PartTaken ==
  ASSUME NEW h, NEW m, NEW F, Layout(h, m, F), NEW a \in F, NEW n, NEW p,
         Points(h, m, F, a, n, p), NEW t \in Tid,
         NEW need \in Nat, need % 8 = 0, 8 <= need, need < WORD,
         8 <= Span(m, a) - need,
         NEW h2, h2 = IF n = 0 THEN a + need ELSE h,
         NEW m1, m1 = WithHeader(m, a + need, (m[a].size - need) % WORD, m[a].word),
         NEW m2, m2 = WithHeader(Linked(m1, n, p, a + need), a,
                                 (need - HeaderSize) % WORD, MAGIC_NUM + t)
  PROVE  TakenPart(h, m, F, h2, m2, need, t, a)
<1> DEFINE c == a + need
           rest == m[a].size - need
           z == need - HeaderSize
           x == MAGIC_NUM + t
           m3 == Linked(m1, n, p, c)
<1>1. /\ a \in Addr /\ a \in Nat /\ a % 8 = 0 /\ HeapStart <= a
      /\ Span(m, a) \in Nat /\ Span(m, a) < WORD
      /\ m[a].size \in Nat /\ Span(m, a) = m[a].size + 8
      /\ a + Span(m, a) \in Bounds \cup {RAM_END}
      /\ Ends(m)[a] = IF a + Span(m, a) = RAM_END THEN HeapLimit ELSE a + Span(m, a)
      /\ Ends(m)[a] \in Bounds /\ Ends(m)[a] \in Nat
  BY BlockFacts, Units
<1>2. /\ m \in Headers /\ IsChain(h, m, F)
      /\ F \subseteq HeapUnits /\ F \subseteq Addr /\ m[a].word \in Words
  BY Units, FreeUntagged DEF Layout, IsChain, Words
<1>3. /\ h = a <=> n = 0
      /\ \A b \in F : m[b].word = a <=> n # 0 /\ b = p
      /\ n # 0 => p \in F /\ p < a /\ p # a
  BY <1>2, Predecessors
<1>4. c \in HeapUnits /\ c < Ends(m)[a] /\ c \in Addr /\ c # a /\ a < c /\ c \in Nat /\ c % 8 = 0
  <2>1. c \in Nat /\ a < c /\ c % 8 = 0 /\ c + 8 <= a + Span(m, a) /\ HeapStart <= c
    BY <1>1, LayoutAssumption
  <2> HIDE DEF c
  <2>2. c < Ends(m)[a]
    <3>1. CASE a + Span(m, a) = RAM_END
      BY <3>1, <2>1, <1>1, LayoutAssumption DEF HeapLimit
    <3>2. CASE a + Span(m, a) # RAM_END
      BY <3>2, <2>1, <1>1
    <3> QED
      BY <3>1, <3>2
  <2>3. Ends(m)[a] <= HeapLimit /\ HeapLimit \in Nat
    BY <1>1, BoundsAre, Units
  <2>4. c < HeapLimit
    BY <2>1, <2>2, <2>3, <1>1
  <2>5. c \in Bounds
    BY <2>1, <2>4, <2>3, BoundsAre
  <2> QED
    BY <2>1, <2>2, <2>4, <2>5, BoundsAre, <1>1
<1>5. /\ rest \in 0 .. WORD - 1 /\ rest % WORD = rest
      /\ z \in 0 .. WORD - 1 /\ z % WORD = z
  <2>1. rest \in Nat /\ rest < WORD /\ z \in Nat /\ z < WORD
    BY <1>1, LayoutAssumption DEF HeaderSize
  <2> HIDE DEF rest, z
  <2> QED
    BY <2>1, LayoutAssumption
<1>6. m2 = WithHeader(m3, a, z, x)
  BY <1>5
<1>7. m1 = WithHeader(m, c, rest, m[a].word)
  BY <1>5
<1>8. x \in Words /\ c \in Words /\ (n # 0 => p \in Addr)
  BY <1>2, <1>3, <1>4 DEF Words
<1> HIDE DEF c, rest, z, x
<1>9. /\ m1 \in Headers /\ m1[c].size = rest /\ m1[c].word = m[a].word
      /\ \A b \in Addr \ {c} : m1[b].size = m[b].size /\ m1[b].word = m[b].word
  BY <1>2, <1>4, <1>5, <1>7, HeaderWritten
<1>10. LinkSet(m1, n, p, c, m3)
  BY <1>8, <1>9, LinkWritten
<1> HIDE DEF m3
<1>11. /\ m2 \in Headers /\ m2[a].size = z /\ m2[a].word = x
       /\ \A b \in Addr \ {a} : m2[b].size = m3[b].size /\ m2[b].word = m3[b].word
  <2>1. /\ m3 \in Headers /\ a \in Addr /\ z \in 0 .. WORD - 1 /\ x \in Words
        /\ m2 = WithHeader(m3, a, z, x)
    BY <1>1, <1>5, <1>6, <1>8, <1>10 DEF LinkSet
  <2> QED
    BY <2>1, HeaderWritten
<1>12. Redirected(h, m, F, h2, m2, a, c, {a, c})
  <2>1. m2 \in Headers /\ h2 = IF h = a THEN c ELSE h
    BY <1>3, <1>11 DEF c
  <2>2. ASSUME NEW b \in Addr \ {a, c}
        PROVE  /\ m2[b].size = m[b].size
               /\ m2[b].word = IF b \in F /\ m[b].word = a THEN c ELSE m[b].word
    <3>1. m2[b].size = m3[b].size /\ m2[b].word = m3[b].word
      BY <1>11, <2>2
    <3>2. m3[b].size = m1[b].size /\ m3[b].word = IF n # 0 /\ b = p THEN c ELSE m1[b].word
      BY <1>10, <2>2 DEF LinkSet
    <3>3. m1[b].size = m[b].size /\ m1[b].word = m[b].word
      BY <1>9, <2>2
    <3>4. (n # 0 /\ b = p) <=> (b \in F /\ m[b].word = a)
      BY <1>3
    <3> QED
      BY <3>1, <3>2, <3>3, <3>4
  <2> QED
    BY <2>1, <2>2 DEF Redirected
<1>13. m2[c].size = rest /\ m2[c].word = m[a].word
  <2>1. n = 0 \/ c # p
    BY <1>1, <1>2, <1>3, <1>4, Units
  <2> QED
    BY <2>1, <1>4, <1>9, <1>10, <1>11 DEF LinkSet
<1>14. Ends(m2)[a] = c
  <2>1. Span(m2, a) = need
    BY <1>11 DEF Span, z, HeaderSize
  <2>2. c # RAM_END
    BY <1>4, LayoutAssumption
  <2> QED
    BY <2>1, <2>2, <1>1 DEF Ends, c
<1>15. Ends(m2)[c] = Ends(m)[a]
  <2>1. c + Span(m2, c) = a + Span(m, a)
    BY <1>1, <1>13 DEF Span, rest, c, HeaderSize
  <2>2. Ends(m2)[c] = IF c + Span(m2, c) = RAM_END THEN HeapLimit ELSE c + Span(m2, c)
    BY <1>4 DEF Ends
  <2> QED
    BY <2>1, <2>2, <1>1
<1> QED
  BY <1>4, <1>11, <1>12, <1>13, <1>14, <1>15 DEF TakenPart, x, c

\* k_mem_alloc_with_tid takes the first block that fits, or its first bytes.
LEMMA AllocEffect ==
  ASSUME MemInv, RequestsFit, head # NULL, NEW s \in Sizes, NEW t \in Tid,
         k_mem_alloc_with_tid(s, t)
  PROVE  \E a \in FreeBlocks :
           /\ FirstFit(mem, FreeBlocks, total_bytes_needed(s), a)
           /\ \/ TakenWhole(head, mem, FreeBlocks, head', mem', total_bytes_needed(s), t, a)
              \/ TakenPart(head, mem, FreeBlocks, head', mem', total_bytes_needed(s), t, a)
<1> DEFINE need == total_bytes_needed(s)
           F == FreeBlocks
           n == Min({i \in DOMAIN walk : fits(walk[i], i, need)})
           a == walk[n]
           p == walk[n - 1]
           noRoom == Whole(a) - need < HeaderSize
           cut == WithHeader(mem, a + need, (mem[a].size - need) % WORD, mem[a].word)
           len == IF noRoom /\ n > 0 THEN Whole(a) ELSE need
<1>1. /\ ~Refused(s)
      /\ head' = IF n = 0 THEN (IF noRoom THEN mem[a].word ELSE a + need) ELSE head
      /\ mem' = WithHeader(Linked(IF noRoom THEN mem ELSE cut, n, p,
                                  IF noRoom THEN mem[a].word ELSE a + need), a,
                           (len - HeaderSize) % WORD, MAGIC_NUM + t)
  BY DEF k_mem_alloc_with_tid, Linked, WithHeader, AllocatedHeader
<1>2. FirstFit(mem, F, need, a) /\ Points(head, mem, F, a, n, p)
  BY <1>1, SearchFinds DEF Points
<1>3. need \in Nat /\ need % 8 = 0 /\ 8 <= need /\ need < WORD
  BY Needed
<1>4. Layout(head, mem, F)
  BY DEF MemInv
<1> HIDE DEF n, F, need
<1>5. a \in F /\ need <= Span(mem, a)
  BY <1>2 DEF FirstFit
<1>6. Whole(a) = Span(mem, a) /\ Span(mem, a) \in Nat
  BY <1>4, <1>5, WholeIsSpan, BlockFacts DEF F
<1> HIDE DEF a, p
<1>7. CASE noRoom
  <2>1. /\ head' = IF n = 0 THEN mem[a].word ELSE head
        /\ mem' = WithHeader(Linked(mem, n, p, mem[a].word), a,
                             (len - HeaderSize) % WORD, MAGIC_NUM + t)
    BY <1>1, <1>7
  <2>2. len \in {need, Span(mem, a)} /\ Span(mem, a) - need < 8
    BY <1>6, <1>7 DEF HeaderSize
  <2> HIDE DEF len
  <2>3. TakenWhole(head, mem, F, head', mem', need, t, a)
    BY <2>1, <2>2, <1>2, <1>3, <1>4, <1>5, WholeTaken
  <2> QED
    BY <2>3, <1>2, <1>5 DEF F, need
<1>8. CASE ~noRoom
  <2>1. /\ head' = IF n = 0 THEN a + need ELSE head
        /\ mem' = WithHeader(Linked(cut, n, p, a + need), a,
                             (need - HeaderSize) % WORD, MAGIC_NUM + t)
    BY <1>1, <1>8
  <2>2. 8 <= Span(mem, a) - need
    BY <1>3, <1>6, <1>8 DEF HeaderSize
  <2>3. TakenPart(head, mem, F, head', mem', need, t, a)
    BY <2>1, <2>2, <1>2, <1>3, <1>4, <1>5, PartTaken
  <2> QED
    BY <2>3, <1>2, <1>5 DEF F, need
<1> QED
  BY <1>7, <1>8

-----------------------------------------------------------------------------
(* The invariant after an allocation.                                      *)

\* A link is not a tag.
LEMMA TaggedKept ==
  ASSUME NEW m, NEW m2, NEW S, \A b \in Addr \ S :
           m2[b].word = m[b].word \/ (m2[b].word \in Links /\ m[b].word \in Links)
  PROVE  \A b \in Addr \ S : b \in TaggedIn(m2) <=> b \in TaggedIn(m)
  BY DEF TaggedIn, Links

LEMMA EndKept ==
  ASSUME NEW m, NEW m2, NEW b \in Addr, m2[b].size = m[b].size
  PROVE  Ends(m2)[b] = Ends(m)[b]
  BY DEF Ends, Span

\* What a redirection does to the headers it considers.
LEMMA RedirectedFacts ==
  ASSUME NEW h, NEW m, NEW F, Layout(h, m, F), NEW a \in F, NEW x \in Addr,
         NEW h2, NEW m2, NEW S, Redirected(h, m, F, h2, m2, a, x, S)
  PROVE  /\ \A b \in Addr \ S : Ends(m2)[b] = Ends(m)[b]
         /\ Relinks(h, m, F \ S, h2, m2, a, x) /\ m2 \in Headers
<1>1. F \subseteq Addr
  BY Units DEF Layout, IsChain
<1>2. \A b \in Addr \ S : Ends(m2)[b] = Ends(m)[b]
  BY EndKept DEF Redirected
<1>3. Relinks(h, m, F \ S, h2, m2, a, x) /\ m2 \in Headers
  BY <1>1 DEF Redirected, Relinks
<1> QED
  BY <1>2, <1>3

\* It leaves the tags as they are.
LEMMA RedirectedTags ==
  ASSUME NEW h, NEW m, NEW F, Layout(h, m, F), NEW a \in F, NEW x \in Links,
         NEW h2, NEW m2, NEW S, Redirected(h, m, F, h2, m2, a, x, S)
  PROVE  \A b \in Addr \ S : b \in TaggedIn(m2) <=> b \in TaggedIn(m)
<1>1. F \subseteq Addr
  BY Units DEF Layout, IsChain
<1>2. \A b \in F : m[b].word \in Links
  BY FreeUntagged
<1>3. \A b \in Addr \ S : m2[b].word = m[b].word
                          \/ (m2[b].word \in Links /\ m[b].word \in Links)
  BY <1>1, <1>2 DEF Redirected
<1> QED
  BY <1>3, TaggedKept

\* A list that no tag can be taken for has no tags for links.
LEMMA ChainApart ==
  ASSUME NEW h, NEW m, NEW F, IsChain(h, m, F), Apart(FreeOf(h, m))
  PROVE  Apart(F) /\ F \subseteq Links
<1>1. FreeOf(h, m) = F
  BY ChainIsFree
<1>2. F \subseteq Addr
  BY Units DEF IsChain
<1> QED
  BY <1>1, <1>2 DEF Apart, Links

LEMMA LayoutTakenWhole ==
  ASSUME NEW h, NEW m, NEW F, Layout(h, m, F), NEW a \in F, NEW need, NEW t \in Tid,
         NEW h2, NEW m2, TakenWhole(h, m, F, h2, m2, need, t, a)
  PROVE  /\ Layout(h2, m2, F \ {a}) /\ TaggedIn(m2) = TaggedIn(m) \cup {a}
         /\ Keeps(m, m2, TaggedIn(m))
<1> DEFINE x == m[a].word
           G == F \ {a}
<1>1. /\ m \in Headers /\ IsChain(h, m, F) /\ Tiles(F \cup TaggedIn(m), Ends(m))
      /\ \A b \in F, c \in F : Ends(m)[b] # c
  BY DEF Layout
<1>2. /\ m2[a].word = MAGIC_NUM + t /\ Ends(m2)[a] = Ends(m)[a]
      /\ Redirected(h, m, F, h2, m2, a, x, {a})
  BY DEF TakenWhole
<1>3. F \subseteq Addr /\ TaggedIn(m) \subseteq Addr /\ TaggedIn(m2) \subseteq Addr
  BY <1>1, Units DEF IsChain, TaggedIn
<1>4. x \in Addr /\ x \in Links
  BY FreeUntagged
<1>5. /\ \A b \in Addr \ {a} : b \in TaggedIn(m2) <=> b \in TaggedIn(m)
      /\ \A b \in Addr \ {a} : Ends(m2)[b] = Ends(m)[b]
      /\ Relinks(h, m, F \ {a}, h2, m2, a, x) /\ m2 \in Headers
  <2> DEFINE S == {a}
  <2>1. Redirected(h, m, F, h2, m2, a, x, S)
    BY <1>2
  <2> HIDE DEF S, x
  <2>2. \A b \in Addr \ S : b \in TaggedIn(m2) <=> b \in TaggedIn(m)
    BY <2>1, <1>4, RedirectedTags
  <2>3. /\ \A b \in Addr \ S : Ends(m2)[b] = Ends(m)[b]
        /\ Relinks(h, m, F \ S, h2, m2, a, x) /\ m2 \in Headers
    BY <2>1, <1>4, RedirectedFacts
  <2> QED
    BY <2>2, <2>3 DEF S
<1>6. TaggedIn(m2) = TaggedIn(m) \cup {a}
  <2>1. a \in TaggedIn(m2)
    BY <1>2, <1>3 DEF TaggedIn
  <2> QED
    BY <2>1, <1>3, <1>5
<1>7. IsChain(h2, m2, G)
  BY <1>1, <1>5, ChainRemove
<1>8. \A b \in F \cup TaggedIn(m) : Ends(m2)[b] = Ends(m)[b]
  BY <1>2, <1>3, <1>5
<1>9. SameEnds(F \cup TaggedIn(m), Ends(m), Ends(m2))
  BY <1>8 DEF SameEnds
<1>10. Tiles(G \cup TaggedIn(m2), Ends(m2))
  <2>1. G \cup TaggedIn(m2) = F \cup TaggedIn(m)
    BY <1>6
  <2> QED
    BY <2>1, <1>1, <1>9, TilesSame
<1>11. \A b \in G, c \in G : Ends(m2)[b] # c
  BY <1>1, <1>8
<1>12. Keeps(m, m2, TaggedIn(m))
  <2>1. a \notin TaggedIn(m) /\ \A b \in F : b \notin TaggedIn(m)
    BY FreeUntagged
  <2> QED
    BY <2>1, <1>2, <1>3, <1>8 DEF Keeps, Redirected
<1>13. Apart(G)
  BY DEF Layout, Apart
<1> QED
  BY <1>5, <1>6, <1>7, <1>10, <1>11, <1>12, <1>13 DEF Layout

LEMMA LayoutTakenPart ==
  ASSUME NEW h, NEW m, NEW F, Layout(h, m, F), NEW a \in F, NEW need \in Nat, 0 < need,
         NEW t \in Tid, NEW h2, NEW m2, TakenPart(h, m, F, h2, m2, need, t, a),
         Apart(FreeOf(h2, m2))
  PROVE  /\ Layout(h2, m2, (F \ {a}) \cup {a + need})
         /\ TaggedIn(m2) = TaggedIn(m) \cup {a}
         /\ Keeps(m, m2, TaggedIn(m))
<1> DEFINE c == a + need
           G == (F \ {a}) \cup {c}
           B == F \cup TaggedIn(m)
<1>1. /\ m \in Headers /\ IsChain(h, m, F) /\ Tiles(B, Ends(m))
      /\ \A b \in F, d \in F : Ends(m)[b] # d
  BY DEF Layout
<1>2. /\ c \in HeapUnits /\ c < Ends(m)[a]
      /\ m2[a].word = MAGIC_NUM + t /\ Ends(m2)[a] = c
      /\ m2[c].word = m[a].word /\ Ends(m2)[c] = Ends(m)[a]
      /\ Redirected(h, m, F, h2, m2, a, c, {a, c})
  BY DEF TakenPart
<1>3. /\ F \subseteq Addr /\ TaggedIn(m) \subseteq Addr /\ TaggedIn(m2) \subseteq Addr
      /\ F \subseteq HeapUnits
  BY <1>1, Units DEF IsChain, TaggedIn
<1>4. c \in Addr /\ c \in Nat /\ a \in Nat /\ a < c /\ m[a].word \in Addr
      /\ Ends(m)[a] \in Nat
  BY <1>2, <1>3, Units, FreeUntagged, BlockFacts
<1> HIDE DEF c
<1>5. \A b \in B : b \in Nat /\ Ends(m)[b] \in Nat /\ b < Ends(m)[b]
                   /\ (a < b => Ends(m)[a] <= b) /\ (b < a => Ends(m)[b] <= a)
  BY <1>1, BlockFacts DEF Tiles
<1>6. c \notin B /\ Replaces(F, a, c)
  BY <1>2, <1>4, <1>5 DEF Replaces
<1>7. /\ \A b \in Addr \ {a, c} : Ends(m2)[b] = Ends(m)[b]
      /\ Relinks(h, m, F \ {a, c}, h2, m2, a, c) /\ m2 \in Headers
  <2> DEFINE S == {a, c}
  <2>1. Redirected(h, m, F, h2, m2, a, c, S)
    BY <1>2
  <2> HIDE DEF S
  <2>2. /\ \A b \in Addr \ S : Ends(m2)[b] = Ends(m)[b]
        /\ Relinks(h, m, F \ S, h2, m2, a, c) /\ m2 \in Headers
    BY <2>1, <1>4, RedirectedFacts
  <2> QED
    BY <2>2 DEF S
<1>8. IsChain(h2, m2, G) /\ Apart(G) /\ c \in Links
  <2>1. F \ {a, c} = F \ {a}
    BY <1>6
  <2>2. IsChain(h2, m2, G)
    BY <2>1, <1>1, <1>2, <1>6, <1>7, ChainReplace
  <2> QED
    BY <2>2, ChainApart
<1>9. TaggedIn(m2) = TaggedIn(m) \cup {a}
  <2> DEFINE S == {a, c}
  <2>1. a \in TaggedIn(m2)
    BY <1>2, <1>3 DEF TaggedIn
  <2>2. c \notin TaggedIn(m2)
    BY <1>2, FreeUntagged DEF TaggedIn, Links
  <2>3. Redirected(h, m, F, h2, m2, a, c, S)
    BY <1>2
  <2> HIDE DEF S
  <2>4. \A b \in Addr \ S : b \in TaggedIn(m2) <=> b \in TaggedIn(m)
    BY <2>3, <1>8, RedirectedTags
  <2> QED
    BY <2>1, <2>2, <2>4, <1>3, <1>6 DEF S
<1>10. \A b \in B \ {a} : Ends(m2)[b] = Ends(m)[b]
  BY <1>3, <1>6, <1>7
<1>11. SameEnds(B \ {a}, Ends(m), Ends(m2))
  BY <1>10 DEF SameEnds
<1>12. Tiles(G \cup TaggedIn(m2), Ends(m2))
  <2>1. G \cup TaggedIn(m2) = B \cup {c}
    BY <1>9
  <2>2. Tiles(B \cup {c}, Ends(m2))
    BY <1>1, <1>2, <1>4, <1>11, TilesCut
  <2> QED
    BY <2>1, <2>2
<1>13. ASSUME NEW b \in G, NEW d \in G PROVE Ends(m2)[b] # d
  <2>1. CASE b = c
    <3>1. CASE d = c
      BY <2>1, <3>1, <1>2, <1>4
    <3>2. CASE d \in F
      BY <2>1, <3>2, <1>1, <1>2
    <3> QED
      BY <3>1, <3>2
  <2>2. CASE b \in F \ {a}
    <3>1. Ends(m2)[b] = Ends(m)[b]
      BY <2>2, <1>10
    <3>2. CASE d = c
      <4>1. b < a \/ a < b
        BY <2>2, <1>4, <1>5
      <4>2. CASE b < a
        BY <4>2, <3>1, <3>2, <2>2, <1>4, <1>5
      <4>3. CASE a < b
        <5>1. /\ b \in Nat /\ Ends(m)[b] \in Nat /\ b < Ends(m)[b]
              /\ Ends(m)[a] <= b
          BY <4>3, <2>2, <1>5
        <5>2. c < b /\ c \in Nat
          BY <5>1, <1>2, <1>4
        <5> QED
          BY <5>1, <5>2, <3>1, <3>2
      <4> QED
        BY <4>1, <4>2, <4>3
    <3>3. CASE d \in F
      BY <3>1, <3>3, <2>2, <1>1
    <3> QED
      BY <3>2, <3>3
  <2> QED
    BY <2>1, <2>2
<1>14. Keeps(m, m2, TaggedIn(m))
  <2>1. a \notin TaggedIn(m) /\ \A b \in F : b \notin TaggedIn(m)
    BY FreeUntagged
  <2>2. c \notin TaggedIn(m)
    BY <1>6
  <2> QED
    BY <2>1, <2>2, <1>2, <1>3, <1>10 DEF Keeps, Redirected
<1> QED
  BY <1>7, <1>8, <1>9, <1>12, <1>13, <1>14 DEF Layout, c

-----------------------------------------------------------------------------
(* The invariant after a deallocation.                                     *)

\* The block a is to be freed; q is the free block behind it, the n-th on the list,
\* and p is the one before it unless n = 0.
Freeing(h, m, F, a, n, p, q) ==
  /\ Layout(h, m, F) /\ a \in TaggedIn(m)
  /\ IsFirst(q, Above(F, a))
  /\ n = 0 => q = h /\ \A b \in F : a < b
  /\ n # 0 => p \in F /\ p < a /\ m[p].word = q /\ \A b \in F : b < a => b <= p

TouchesPrev(m, a, n, p) == n # 0 /\ p + Span(m, p) = a
TouchesNext(m, a, q) == q = a + Span(m, a)

\* What is written when a is linked, takes q's place, is taken in by p alone or with q.
LinksAlone(h, m, a, n, p, q, h2, m2) ==
  /\ h2 = IF n = 0 THEN a ELSE h
  /\ LinkSet(WithHeader(m, a, m[a].size, q), n, p, a, m2)
LinksNext(h, m, a, n, p, q, h2, m2) ==
  /\ h2 = IF n = 0 THEN a ELSE h
  /\ LinkSet(WithHeader(m, a, m[q].size + Span(m, a), m[q].word), n, p, a, m2)
JoinsPrev(m, a, p, q, m2) ==
  m2 = WithHeader(Linked(m, 1, a, 0), p, m[p].size + Span(m, a), q)
JoinsBoth(m, a, p, q, m2) ==
  m2 = WithHeader(Linked(m, 1, a, 0), p, m[p].size + Span(m, a) + Span(m, q), m[q].word)

LEMMA FreeingFacts ==
  ASSUME NEW h, NEW m, NEW F, NEW a, NEW n, NEW p, NEW q,
         Freeing(h, m, F, a, n, p, q)
  PROVE  /\ a \in HeapUnits /\ a \in Addr /\ a \in Nat /\ a \notin F
         /\ Span(m, a) = m[a].size + 8 /\ m[a].size \in Nat /\ Span(m, a) < WORD
         /\ m[a].size \in 0 .. WORD - 1
         /\ F \subseteq Addr /\ F \subseteq HeapUnits
         /\ \A b \in F : b \in Nat /\ b # NULL /\ (b < a \/ a < b)
         /\ \A b \in F : b < a => n # 0 /\ b <= p
         /\ \A b \in F : a < b => q \in F /\ q <= b
         /\ q \in F \cup {NULL} /\ q \in Words
         /\ q # NULL => q \in F /\ a < q /\ Ends(m)[a] <= q /\ m[q].word \in Words
         /\ n # 0 => p \in F /\ p \in Addr /\ p < a /\ Ends(m)[p] <= a
         /\ IsChain(h, m, F) /\ m \in Headers
<1>1. /\ m \in Headers /\ IsChain(h, m, F) /\ Tiles(F \cup TaggedIn(m), Ends(m))
      /\ a \in F \cup TaggedIn(m)
  BY DEF Freeing, Layout
<1>2. /\ a \in HeapUnits /\ a \in Addr /\ a \in Nat
      /\ Span(m, a) = m[a].size + 8 /\ m[a].size \in Nat /\ Span(m, a) < WORD
  BY BlockFacts, <1>1 DEF Freeing
<1>3. a \notin F
  BY FreeUntagged DEF Freeing
<1>4. F \subseteq HeapUnits /\ F \subseteq Addr /\ \A b \in F : b \in Nat /\ b # NULL
  BY <1>1, Units DEF IsChain, NULL
<1>5. \A b \in F : b < a \/ a < b
  BY <1>2, <1>3, <1>4
<1>6. \A b \in F : a < b => q \in F /\ q <= b
  BY DEF Freeing, IsFirst, Above
<1>7. q \in F \cup {NULL} /\ (q # NULL => a < q)
  BY DEF Freeing, IsFirst, Above
<1>8. q # NULL => Ends(m)[a] <= q
  BY <1>1, <1>7 DEF Tiles
<1>9. q \in Words /\ (q # NULL => m[q].word \in Words)
  BY <1>4, <1>7, FreeUntagged, LayoutAssumption DEF Words, Addr, NULL, Freeing
<1>10. n # 0 => p \in F /\ p < a /\ p \in Addr /\ Ends(m)[p] <= a
  BY <1>1, <1>4 DEF Freeing, Tiles
<1>11. \A b \in F : b < a => n # 0 /\ b <= p
  BY <1>4, <1>2 DEF Freeing
<1>12. m[a].size \in 0 .. WORD - 1
  BY <1>1, <1>2 DEF Headers
<1> QED
  BY <1>1, <1>2, <1>3, <1>4, <1>5, <1>6, <1>7, <1>8, <1>9, <1>10, <1>11, <1>12

\* The tags when a is free and only links have been written besides.
LEMMA FreedTags ==
  ASSUME NEW m, NEW m2, NEW a \in Addr, m2[a].word \in Links,
         \A b \in Addr \ {a} : m2[b].word = m[b].word
                               \/ (m2[b].word \in Links /\ m[b].word \in Links)
  PROVE  TaggedIn(m2) = TaggedIn(m) \ {a}
<1>1. a \notin TaggedIn(m2)
  BY DEF TaggedIn, Links
<1>2. \A b \in Addr \ {a} : b \in TaggedIn(m2) <=> b \in TaggedIn(m)
  BY TaggedKept
<1>3. TaggedIn(m) \subseteq Addr /\ TaggedIn(m2) \subseteq Addr
  BY DEF TaggedIn
<1> QED
  BY <1>1, <1>2, <1>3

LEMMA ChainSame ==
  ASSUME NEW h, NEW m, NEW F, IsChain(h, m, F), NEW m2,
         \A b \in F : m2[b].word = m[b].word
  PROVE  IsChain(h, m2, F)
  BY DEF IsChain

\* No free block ends at a unless the one before does.
LEMMA PrevApart ==
  ASSUME NEW h, NEW m, NEW F, NEW a, NEW n, NEW p, NEW q,
         Freeing(h, m, F, a, n, p, q), ~TouchesPrev(m, a, n, p)
  PROVE  \A b \in F : Ends(m)[b] # a
<1>1. /\ a \in HeapUnits /\ a \in Nat
      /\ \A b \in F : b \in Nat /\ (b < a \/ a < b)
      /\ \A b \in F : b < a => n # 0 /\ b <= p
      /\ n # 0 => p \in F /\ p < a
  BY FreeingFacts
<1>2. Layout(h, m, F) /\ Tiles(F \cup TaggedIn(m), Ends(m))
  BY DEF Freeing, Layout
<1>3. \A b \in F : b < Ends(m)[b] /\ Ends(m)[b] \in Nat
  BY <1>2, BlockFacts
<1>4. ASSUME NEW b \in F, Ends(m)[b] = a PROVE FALSE
  <2>1. b < a
    BY <1>3, <1>4
  <2>2. n # 0 /\ b <= p /\ p \in F /\ p < a
    BY <2>1, <1>1
  <2>3. CASE b < p
    <3>1. Ends(m)[b] <= p
      BY <2>2, <2>3, <1>2 DEF Tiles
    <3> QED
      BY <3>1, <2>2, <1>1, <1>4
  <2>4. CASE b = p
    <3>1. p + Span(m, p) # a
      BY <2>2 DEF TouchesPrev
    <3>2. Ends(m)[p] = IF p + Span(m, p) = RAM_END THEN HeapLimit ELSE p + Span(m, p)
      BY <2>2, <1>2, BlockFacts
    <3>3. HeapLimit # a
      BY <1>1, BoundsAre
    <3> QED
      BY <3>1, <3>2, <3>3, <2>4, <1>4
  <2> QED
    BY <2>2, <2>3, <2>4, <1>1
<1> QED
  BY <1>4

\* The block a ends at no free block unless at the next one.
LEMMA NextApart ==
  ASSUME NEW h, NEW m, NEW F, NEW a, NEW n, NEW p, NEW q,
         Freeing(h, m, F, a, n, p, q), ~TouchesNext(m, a, q)
  PROVE  \A c \in F : Ends(m)[a] # c
<1>1. /\ a \in HeapUnits /\ a \in Nat /\ F \subseteq HeapUnits
      /\ \A b \in F : b \in Nat /\ (b < a \/ a < b)
      /\ \A b \in F : a < b => q \in F /\ q <= b
      /\ q # NULL => q \in F /\ Ends(m)[a] <= q
      /\ \A b \in F : b # NULL
  BY FreeingFacts
<1>2. /\ a < Ends(m)[a] /\ Ends(m)[a] \in Nat
      /\ Ends(m)[a] = IF a + Span(m, a) = RAM_END THEN HeapLimit ELSE a + Span(m, a)
  BY BlockFacts DEF Freeing
<1>3. ASSUME NEW c \in F, Ends(m)[a] = c PROVE FALSE
  <2>1. q \in F /\ q <= c /\ q \in Nat /\ q # NULL
    BY <1>1, <1>2, <1>3
  <2>2. q = c
    BY <2>1, <1>1, <1>2, <1>3
  <2>3. HeapLimit # q /\ a + Span(m, a) # q
    BY <2>1, <1>1, BoundsAre DEF TouchesNext
  <2> QED
    BY <2>2, <2>3, <1>2, <1>3
<1> QED
  BY <1>3

\* Neither neighbour is free: the block is linked between p and q.
LEMMA FreedAlone ==
  ASSUME NEW h, NEW m, NEW F, NEW a, NEW n, NEW p, NEW q,
         Freeing(h, m, F, a, n, p, q),
         ~TouchesPrev(m, a, n, p), ~TouchesNext(m, a, q),
         NEW h2, NEW m2, LinksAlone(h, m, a, n, p, q, h2, m2),
         Apart(FreeOf(h2, m2))
  PROVE  /\ Layout(h2, m2, F \cup {a}) /\ TaggedIn(m2) = TaggedIn(m) \ {a}
         /\ Keeps(m, m2, TaggedIn(m) \ {a})
<1> DEFINE m1 == WithHeader(m, a, m[a].size, q)
           B == F \cup TaggedIn(m)
<1>1. /\ a \in HeapUnits /\ a \in Addr /\ a \in Nat /\ a \notin F
      /\ m[a].size \in 0 .. WORD - 1
      /\ F \subseteq Addr /\ F \subseteq HeapUnits
      /\ \A b \in F : b \in Nat /\ b # NULL /\ (b < a \/ a < b)
      /\ \A b \in F : b < a => n # 0 /\ b <= p
      /\ \A b \in F : a < b => q \in F /\ q <= b
      /\ q \in F \cup {NULL} /\ q \in Words
      /\ q # NULL => q \in F /\ a < q /\ Ends(m)[a] <= q /\ m[q].word \in Words
      /\ n # 0 => p \in F /\ p \in Addr /\ p < a /\ Ends(m)[p] <= a
      /\ IsChain(h, m, F) /\ m \in Headers
  BY FreeingFacts
<1>2. /\ Layout(h, m, F) /\ a \in TaggedIn(m) /\ IsFirst(q, Above(F, a))
      /\ Tiles(B, Ends(m)) /\ \A b \in F, c \in F : Ends(m)[b] # c
  BY DEF Freeing, Layout
<1>3. /\ m1 \in Headers /\ m1[a].size = m[a].size /\ m1[a].word = q
      /\ \A b \in Addr \ {a} : m1[b].size = m[b].size /\ m1[b].word = m[b].word
  BY <1>1, HeaderWritten
<1>4. LinkSet(m1, n, p, a, m2) /\ h2 = IF n = 0 THEN a ELSE h
  BY DEF LinksAlone
<1> HIDE DEF m1
<1>5. /\ m2 \in Headers /\ m2[a].word = q
      /\ \A b \in Addr : m2[b].size = m[b].size
      /\ \A b \in Addr \ {a} : m2[b].word = IF n # 0 /\ b = p THEN a ELSE m[b].word
  BY <1>1, <1>3, <1>4 DEF LinkSet
<1>6. Ends(m2) = Ends(m)
  BY <1>5 DEF Ends, Span
<1>7. IsChain(h2, m2, F \cup {a}) /\ Apart(F \cup {a}) /\ F \cup {a} \subseteq Links
  <2>1. (\E b \in F : b < a) <=> n # 0
    BY <1>1 DEF Freeing
  <2>2. ASSUME NEW b \in F
        PROVE  (b < a /\ \A c \in F : c < a => c <= b) <=> n # 0 /\ b = p
    <3>1. ASSUME b < a, \A c \in F : c < a => c <= b PROVE n # 0 /\ b = p
      <4>1. n # 0 /\ b <= p /\ p \in F /\ p < a
        BY <3>1, <1>1
      <4>2. p <= b /\ p \in Nat /\ b \in Nat
        BY <4>1, <3>1, <1>1
      <4> QED
        BY <4>1, <4>2
    <3>2. n # 0 /\ b = p => b < a /\ \A c \in F : c < a => c <= b
      BY <1>1
    <3> QED
      BY <3>1, <3>2
  <2>3. Inserts(h, m, F, h2, m2, a)
    BY <2>1, <2>2, <1>1, <1>4, <1>5 DEF Inserts
  <2>4. IsFirst(m2[a].word, Above(F, a))
    BY <1>2, <1>5
  <2>5. IsChain(h2, m2, F \cup {a})
    BY <2>3, <2>4, <1>1, ChainInsert
  <2> QED
    BY <2>5, ChainApart
<1>8. TaggedIn(m2) = TaggedIn(m) \ {a}
  <2>1. \A b \in Addr \ {a} : m2[b].word = m[b].word
                               \/ (m2[b].word \in Links /\ m[b].word \in Links)
    BY <1>1, <1>2, <1>5, <1>7, FreeUntagged
  <2>2. m2[a].word \in Links
    BY <1>1, <1>5, <1>7, NullIsLink
  <2> QED
    BY <2>1, <2>2, <1>1, FreedTags
<1>9. Tiles((F \cup {a}) \cup TaggedIn(m2), Ends(m2))
  <2>1. (F \cup {a}) \cup TaggedIn(m2) = B
    BY <1>2, <1>8
  <2> QED
    BY <2>1, <1>2, <1>6
<1>10. ASSUME NEW b \in F \cup {a}, NEW c \in F \cup {a} PROVE Ends(m)[b] # c
  <2>1. a < Ends(m)[a] /\ Ends(m)[a] \in Nat
    BY <1>2, BlockFacts
  <2>2. \A d \in F : Ends(m)[d] # a /\ Ends(m)[a] # d
    BY PrevApart, NextApart
  <2> QED
    BY <2>1, <2>2, <1>1, <1>2
<1>11. Keeps(m, m2, TaggedIn(m) \ {a})
  <2>1. \A b \in F : b \notin TaggedIn(m)
    BY <1>2, FreeUntagged
  <2>2. TaggedIn(m) \subseteq Addr
    BY DEF TaggedIn
  <2> QED
    BY <2>1, <2>2, <1>1, <1>5, <1>6 DEF Keeps
<1> QED
  BY <1>5, <1>6, <1>8, <1>7, <1>9, <1>10, <1>11 DEF Layout

LEMMA Reaches ==
  ASSUME NEW h, NEW m, NEW F, Layout(h, m, F), NEW a \in F \cup TaggedIn(m)
  PROVE  a + Span(m, a) <= RAM_END
<1> DEFINE x == a + Span(m, a)
<1>1. x \in Bounds \cup {RAM_END}
  BY BlockFacts
<1>2. x \in Bounds => x <= HeapLimit /\ x \in Nat
  BY BoundsAre
<1> HIDE DEF x
<1>3. x <= RAM_END
  BY <1>1, <1>2, Units, LayoutAssumption
<1> QED
  BY <1>3 DEF x

LEMMA EndMoved ==
  ASSUME NEW m, NEW m2, NEW b \in Addr, NEW c \in Addr,
         b + Span(m2, b) = c + Span(m, c)
  PROVE  Ends(m2)[b] = Ends(m)[c]
  BY DEF Ends

\* The block before touches a: it ends there.
LEMMA PrevTouches ==
  ASSUME NEW h, NEW m, NEW F, NEW a, NEW n, NEW p, NEW q,
         Freeing(h, m, F, a, n, p, q), TouchesPrev(m, a, n, p)
  PROVE  /\ n # 0 /\ p \in F /\ p \in Addr /\ p \in Nat /\ p < a
         /\ p + Span(m, p) = a /\ Ends(m)[p] = a
         /\ m[p].size \in Nat /\ Span(m, p) = m[p].size + 8
<1>1. n # 0 /\ p \in F /\ p \in Addr /\ p < a /\ a \in HeapUnits /\ p + Span(m, p) = a
  BY FreeingFacts DEF TouchesPrev
<1>2. /\ Ends(m)[p] = IF p + Span(m, p) = RAM_END THEN HeapLimit ELSE p + Span(m, p)
      /\ p \in Nat /\ m[p].size \in Nat /\ Span(m, p) = m[p].size + 8
  BY <1>1, BlockFacts DEF Freeing
<1>3. a # RAM_END
  BY <1>1, Units, LayoutAssumption
<1> QED
  BY <1>1, <1>2, <1>3

\* The block a ends where the next free one begins.
LEMMA NextTouches ==
  ASSUME NEW h, NEW m, NEW F, NEW a, NEW n, NEW p, NEW q,
         Freeing(h, m, F, a, n, p, q), TouchesNext(m, a, q)
  PROVE  /\ q \in F /\ q \in Addr /\ q \in Nat /\ a < q /\ q \notin TaggedIn(m)
         /\ a + Span(m, a) = q /\ Ends(m)[a] = q
         /\ m[q].size \in Nat /\ Span(m, q) = m[q].size + 8
         /\ q + Span(m, q) <= RAM_END /\ q < Ends(m)[q]
         /\ m[q].word \in Words
<1>1. /\ a \in Nat /\ Span(m, a) = m[a].size + 8 /\ m[a].size \in Nat
      /\ a + Span(m, a) = q /\ F \subseteq HeapUnits
      /\ q # NULL => q \in F /\ a < q /\ m[q].word \in Words
  BY FreeingFacts DEF TouchesNext
<1>2. q \in F /\ q \in HeapUnits /\ a < q /\ m[q].word \in Words
  BY <1>1 DEF NULL
<1>3. /\ Ends(m)[a] = IF a + Span(m, a) = RAM_END THEN HeapLimit ELSE a + Span(m, a)
  BY BlockFacts DEF Freeing
<1>4. q # RAM_END /\ q \in Addr /\ q \in Nat
  BY <1>2, Units, LayoutAssumption
<1>5. Ends(m)[a] = q
  BY <1>1, <1>3, <1>4
<1>6. /\ m[q].size \in Nat /\ Span(m, q) = m[q].size + 8 /\ q < Ends(m)[q]
      /\ q + Span(m, q) <= RAM_END /\ q \notin TaggedIn(m)
  BY <1>2, BlockFacts, Reaches, FreeUntagged DEF Freeing
<1> QED
  BY <1>1, <1>2, <1>4, <1>5, <1>6

\* The next block is free and touches: the block takes it in and its place on the list.
LEMMA FreedNext ==
  ASSUME NEW h, NEW m, NEW F, NEW a, NEW n, NEW p, NEW q,
         Freeing(h, m, F, a, n, p, q),
         ~TouchesPrev(m, a, n, p), TouchesNext(m, a, q),
         NEW h2, NEW m2, LinksNext(h, m, a, n, p, q, h2, m2),
         Apart(FreeOf(h2, m2))
  PROVE  /\ Layout(h2, m2, (F \ {q}) \cup {a}) /\ TaggedIn(m2) = TaggedIn(m) \ {a}
         /\ Keeps(m, m2, TaggedIn(m) \ {a})
<1> DEFINE z == m[q].size + Span(m, a)
           m1 == WithHeader(m, a, z, m[q].word)
           B == F \cup TaggedIn(m)
           G == (F \ {q}) \cup {a}
<1>1. /\ a \in HeapUnits /\ a \in Addr /\ a \in Nat /\ a \notin F
      /\ Span(m, a) = m[a].size + 8 /\ m[a].size \in Nat
      /\ F \subseteq Addr /\ F \subseteq HeapUnits
      /\ \A b \in F : b \in Nat /\ b # NULL /\ (b < a \/ a < b)
      /\ \A b \in F : a < b => q \in F /\ q <= b
      /\ n # 0 => p \in F /\ p \in Addr /\ p < a
      /\ IsChain(h, m, F) /\ m \in Headers
  BY FreeingFacts
<1>2. /\ Layout(h, m, F) /\ a \in TaggedIn(m)
      /\ Tiles(B, Ends(m)) /\ \A b \in F, c \in F : Ends(m)[b] # c
  BY DEF Freeing, Layout
<1>3. /\ q \in F /\ q \in Addr /\ q \in Nat /\ a < q /\ q \notin TaggedIn(m)
      /\ a + Span(m, a) = q /\ Ends(m)[a] = q
      /\ m[q].size \in Nat /\ Span(m, q) = m[q].size + 8
      /\ q + Span(m, q) <= RAM_END /\ q < Ends(m)[q]
      /\ m[q].word \in Words
  BY NextTouches
<1>4. z \in 0 .. WORD - 1
  BY <1>1, <1>3, LayoutAssumption DEF HeaderSize
<1>5. /\ m1 \in Headers /\ m1[a].size = z /\ m1[a].word = m[q].word
      /\ \A b \in Addr \ {a} : m1[b].size = m[b].size /\ m1[b].word = m[b].word
  <2> HIDE DEF z
  <2> QED
    BY <1>1, <1>3, <1>4, HeaderWritten
<1>6. LinkSet(m1, n, p, a, m2) /\ h2 = IF n = 0 THEN a ELSE h
  BY DEF LinksNext
<1> HIDE DEF m1
<1>7. /\ m2 \in Headers /\ m2[a].word = m[q].word /\ m2[a].size = z
      /\ \A b \in Addr \ {a} : m2[b].size = m[b].size
      /\ \A b \in Addr \ {a} : m2[b].word = IF n # 0 /\ b = p THEN a ELSE m[b].word
  BY <1>1, <1>5, <1>6 DEF LinkSet
<1>8. Ends(m2)[a] = Ends(m)[q] /\ \A b \in Addr \ {a} : Ends(m2)[b] = Ends(m)[b]
  <2>1. a + Span(m2, a) = q + Span(m, q)
    BY <1>1, <1>3, <1>7 DEF Span, HeaderSize
  <2> QED
    <3>1. Ends(m2)[a] = Ends(m)[q]
      BY <2>1, <1>1, <1>3, EndMoved
    <3>2. \A b \in Addr \ {a} : Ends(m2)[b] = Ends(m)[b]
      BY <1>7, EndKept
    <3> QED
      BY <3>1, <3>2
<1> HIDE DEF z
<1>9. IsChain(h2, m2, G) /\ Apart(G) /\ a \in Links
  <2>1. Points(h, m, F, q, n, p)
    BY DEF Points, Freeing
  <2>2. /\ h = q <=> n = 0
        /\ \A b \in F : m[b].word = q <=> n # 0 /\ b = p
    BY <2>1, <1>1, <1>3, Predecessors
  <2>3. Relinks(h, m, F \ {q}, h2, m2, q, a)
    BY <2>2, <1>1, <1>6, <1>7 DEF Relinks
  <2>4. Replaces(F, q, a)
    BY <1>1, <1>3 DEF Replaces
  <2>5. IsChain(h2, m2, G)
    BY <2>3, <2>4, <1>1, <1>3, <1>7, ChainReplace
  <2> QED
    BY <2>5, ChainApart
<1>10. TaggedIn(m2) = TaggedIn(m) \ {a}
  <2>1. \A b \in Addr \ {a} : m2[b].word = m[b].word
                               \/ (m2[b].word \in Links /\ m[b].word \in Links)
    BY <1>1, <1>2, <1>7, <1>9, FreeUntagged
  <2>2. m2[a].word \in Links
    BY <1>2, <1>3, <1>7, FreeUntagged
  <2> QED
    BY <2>1, <2>2, <1>1, FreedTags
<1>11. Tiles(G \cup TaggedIn(m2), Ends(m2))
  <2>1. G \cup TaggedIn(m2) = B \ {q}
    BY <1>1, <1>2, <1>3, <1>10
  <2>2. B \subseteq Addr
    BY <1>1 DEF TaggedIn
  <2>3. SameEnds(B \ {a, q}, Ends(m), Ends(m2))
    BY <2>2, <1>8 DEF SameEnds
  <2>4. Tiles(B \ {q}, Ends(m2))
    BY <2>3, <1>2, <1>3, <1>8, TilesMerge
  <2> QED
    BY <2>1, <2>4
<1>12. ASSUME NEW b \in G, NEW c \in G PROVE Ends(m2)[b] # c
  <2>1. Ends(m)[q] \in Nat /\ q < Ends(m)[q]
    BY <1>2, <1>3, BlockFacts
  <2>2. \A d \in F : Ends(m)[d] # a
    BY PrevApart
  <2>3. Ends(m)[q] # a
    BY <2>2, <1>3
  <2> QED
    BY <2>2, <2>3, <1>1, <1>2, <1>3, <1>8
<1>13. Keeps(m, m2, TaggedIn(m) \ {a})
  <2>1. \A b \in F : b \notin TaggedIn(m)
    BY <1>2, FreeUntagged
  <2>2. TaggedIn(m) \subseteq Addr
    BY DEF TaggedIn
  <2> QED
    BY <2>1, <2>2, <1>1, <1>7, <1>8 DEF Keeps
<1> QED
  BY <1>7, <1>10, <1>9, <1>11, <1>12, <1>13 DEF Layout

\* What is written when the block before takes a in.
LEMMA PrevWritten ==
  ASSUME NEW m \in Headers, NEW a \in Addr, NEW p \in Addr, a # p,
         NEW z \in 0 .. WORD - 1, NEW x \in Words,
         NEW m2, m2 = WithHeader(Linked(m, 1, a, 0), p, z, x)
  PROVE  /\ m2 \in Headers /\ m2[p].size = z /\ m2[p].word = x
         /\ m2[a].word = 0
         /\ \A b \in Addr \ {p} : m2[b].size = m[b].size
         /\ \A b \in Addr \ {a, p} : m2[b].word = m[b].word
<1> DEFINE m1 == Linked(m, 1, a, 0)
<1>1. 0 \in Words
  BY LayoutAssumption DEF Words, Addr
<1>2. LinkSet(m, 1, a, 0, m1)
  BY <1>1, LinkWritten
<1> HIDE DEF m1
<1>3. /\ m2 \in Headers /\ m2[p].size = z /\ m2[p].word = x
      /\ \A b \in Addr \ {p} : m2[b].size = m1[b].size /\ m2[b].word = m1[b].word
  <2>1. m1 \in Headers
    BY <1>2 DEF LinkSet
  <2>2. m2 = WithHeader(m1, p, z, x)
    BY DEF m1
  <2> QED
    BY <2>1, <2>2, HeaderWritten
<1> QED
  BY <1>2, <1>3 DEF LinkSet

\* The block before is free and touches: it takes the block in.
LEMMA FreedPrev ==
  ASSUME NEW h, NEW m, NEW F, NEW a, NEW n, NEW p, NEW q,
         Freeing(h, m, F, a, n, p, q),
         TouchesPrev(m, a, n, p), ~TouchesNext(m, a, q),
         NEW m2, JoinsPrev(m, a, p, q, m2)
  PROVE  /\ Layout(h, m2, F) /\ TaggedIn(m2) = TaggedIn(m) \ {a}
         /\ Keeps(m, m2, TaggedIn(m) \ {a})
<1> DEFINE z == m[p].size + Span(m, a)
           B == F \cup TaggedIn(m)
<1>1. /\ a \in HeapUnits /\ a \in Addr /\ a \in Nat /\ a \notin F
      /\ Span(m, a) = m[a].size + 8 /\ m[a].size \in Nat
      /\ F \subseteq Addr /\ F \subseteq HeapUnits
      /\ \A b \in F : b \in Nat /\ b # NULL /\ (b < a \/ a < b)
      /\ q \in F \cup {NULL} /\ q \in Words
      /\ IsChain(h, m, F) /\ m \in Headers
  BY FreeingFacts
<1>2. /\ Layout(h, m, F) /\ a \in TaggedIn(m)
      /\ Tiles(B, Ends(m)) /\ \A b \in F, c \in F : Ends(m)[b] # c
  BY DEF Freeing, Layout
<1>3. /\ n # 0 /\ p \in F /\ p \in Addr /\ p \in Nat /\ p < a
      /\ p + Span(m, p) = a /\ Ends(m)[p] = a
      /\ m[p].size \in Nat /\ Span(m, p) = m[p].size + 8
  BY PrevTouches
<1>4. z \in 0 .. WORD - 1
  <2>1. a + Span(m, a) <= RAM_END
    BY <1>2, Reaches
  <2> QED
    BY <2>1, <1>1, <1>3, LayoutAssumption DEF HeaderSize
<1>5. /\ m2 \in Headers /\ m2[p].size = z /\ m2[p].word = q /\ m2[a].word = 0
      /\ \A b \in Addr \ {p} : m2[b].size = m[b].size
      /\ \A b \in Addr \ {a, p} : m2[b].word = m[b].word
  <2>1. m2 = WithHeader(Linked(m, 1, a, 0), p, z, q) /\ a # p
    BY <1>1, <1>3 DEF JoinsPrev
  <2> HIDE DEF z
  <2> QED
    BY <2>1, <1>1, <1>3, <1>4, PrevWritten
<1>6. m[p].word = q /\ p \notin TaggedIn(m)
  BY <1>2, <1>3, FreeUntagged DEF Freeing
<1>7. Ends(m2)[p] = Ends(m)[a] /\ \A b \in Addr \ {p} : Ends(m2)[b] = Ends(m)[b]
  <2>1. p + Span(m2, p) = a + Span(m, a)
    BY <1>1, <1>3, <1>5 DEF Span, HeaderSize
  <2> QED
    BY <2>1, <1>1, <1>3, <1>5, EndMoved, EndKept
<1> HIDE DEF z
<1>8. TaggedIn(m2) = TaggedIn(m) \ {a}
  <2>1. \A b \in Addr \ {a} : m2[b].word = m[b].word
                               \/ (m2[b].word \in Links /\ m[b].word \in Links)
    BY <1>5, <1>6
  <2>2. m2[a].word \in Links
    BY <1>5, NullIsLink
  <2> QED
    BY <2>1, <2>2, <1>1, FreedTags
<1>9. IsChain(h, m2, F)
  <2>1. \A b \in F : m2[b].word = m[b].word
    BY <1>1, <1>5, <1>6
  <2> QED
    BY <2>1, <1>1, ChainSame
<1>10. Tiles(F \cup TaggedIn(m2), Ends(m2))
  <2>1. F \cup TaggedIn(m2) = B \ {a}
    BY <1>1, <1>2, <1>8
  <2>2. B \subseteq Addr
    BY <1>1 DEF TaggedIn
  <2>3. SameEnds(B \ {p, a}, Ends(m), Ends(m2))
    BY <2>2, <1>7 DEF SameEnds
  <2>4. Tiles(B \ {a}, Ends(m2))
    BY <2>3, <1>2, <1>3, <1>7, TilesMerge
  <2> QED
    BY <2>1, <2>4
<1>11. ASSUME NEW b \in F, NEW c \in F PROVE Ends(m2)[b] # c
  <2>1. \A d \in F : Ends(m)[a] # d
    BY NextApart
  <2> QED
    BY <2>1, <1>1, <1>2, <1>3, <1>7
<1>12. Keeps(m, m2, TaggedIn(m) \ {a})
  <2>1. \A b \in F : b \notin TaggedIn(m)
    BY <1>2, FreeUntagged
  <2>2. TaggedIn(m) \subseteq Addr
    BY DEF TaggedIn
  <2> QED
    BY <2>1, <2>2, <1>3, <1>5, <1>7 DEF Keeps
<1>13. Apart(F)
  BY <1>2 DEF Layout
<1> QED
  BY <1>5, <1>8, <1>9, <1>10, <1>11, <1>12, <1>13 DEF Layout

\* Both neighbours are free and touch: the three become one.
LEMMA FreedBoth ==
  ASSUME NEW h, NEW m, NEW F, NEW a, NEW n, NEW p, NEW q,
         Freeing(h, m, F, a, n, p, q),
         TouchesPrev(m, a, n, p), TouchesNext(m, a, q),
         NEW m2, JoinsBoth(m, a, p, q, m2)
  PROVE  /\ Layout(h, m2, F \ {q}) /\ TaggedIn(m2) = TaggedIn(m) \ {a}
         /\ Keeps(m, m2, TaggedIn(m) \ {a})
<1> DEFINE z == m[p].size + Span(m, a) + Span(m, q)
           B == F \cup TaggedIn(m)
           G == F \ {q}
<1>1. /\ a \in HeapUnits /\ a \in Addr /\ a \in Nat /\ a \notin F
      /\ Span(m, a) = m[a].size + 8 /\ m[a].size \in Nat
      /\ F \subseteq Addr /\ F \subseteq HeapUnits
      /\ \A b \in F : b \in Nat /\ b # NULL /\ (b < a \/ a < b)
      /\ IsChain(h, m, F) /\ m \in Headers
  BY FreeingFacts
<1>2. /\ Layout(h, m, F) /\ a \in TaggedIn(m)
      /\ Tiles(B, Ends(m)) /\ \A b \in F, c \in F : Ends(m)[b] # c
  BY DEF Freeing, Layout
<1>3. /\ n # 0 /\ p \in F /\ p \in Addr /\ p \in Nat /\ p < a
      /\ p + Span(m, p) = a /\ Ends(m)[p] = a
      /\ m[p].size \in Nat /\ Span(m, p) = m[p].size + 8
  BY PrevTouches
<1>4. /\ q \in F /\ q \in Addr /\ q \in Nat /\ a < q /\ q \notin TaggedIn(m)
      /\ a + Span(m, a) = q /\ Ends(m)[a] = q
      /\ m[q].size \in Nat /\ Span(m, q) = m[q].size + 8
      /\ q + Span(m, q) <= RAM_END /\ q < Ends(m)[q]
      /\ m[q].word \in Words
  BY NextTouches
<1>5. z \in 0 .. WORD - 1
  BY <1>1, <1>3, <1>4, LayoutAssumption DEF HeaderSize
<1>6. /\ m2 \in Headers /\ m2[p].size = z /\ m2[p].word = m[q].word /\ m2[a].word = 0
      /\ \A b \in Addr \ {p} : m2[b].size = m[b].size
      /\ \A b \in Addr \ {a, p} : m2[b].word = m[b].word
  <2> DEFINE x == m[q].word
  <2>1. m2 = WithHeader(Linked(m, 1, a, 0), p, z, x) /\ a # p /\ x \in Words
    BY <1>1, <1>3, <1>4 DEF JoinsBoth
  <2> HIDE DEF z, x
  <2>2. /\ m2 \in Headers /\ m2[p].size = z /\ m2[p].word = x /\ m2[a].word = 0
        /\ \A b \in Addr \ {p} : m2[b].size = m[b].size
        /\ \A b \in Addr \ {a, p} : m2[b].word = m[b].word
    BY <2>1, <1>1, <1>3, <1>5, PrevWritten
  <2> QED
    BY <2>2 DEF x
<1>7. p \notin TaggedIn(m) /\ m[p].word \in Links /\ m[q].word \in Links
  BY <1>2, <1>3, <1>4, FreeUntagged
<1>8. Ends(m2)[p] = Ends(m)[q] /\ \A b \in Addr \ {p} : Ends(m2)[b] = Ends(m)[b]
  <2>1. p + Span(m2, p) = q + Span(m, q)
    BY <1>1, <1>3, <1>4, <1>6 DEF Span, HeaderSize
  <2> QED
    BY <2>1, <1>1, <1>3, <1>4, <1>6, EndMoved, EndKept
<1> HIDE DEF z
<1>9. TaggedIn(m2) = TaggedIn(m) \ {a}
  <2>1. \A b \in Addr \ {a} : m2[b].word = m[b].word
                               \/ (m2[b].word \in Links /\ m[b].word \in Links)
    BY <1>6, <1>7
  <2>2. m2[a].word \in Links
    BY <1>6, NullIsLink
  <2> QED
    BY <2>1, <2>2, <1>1, FreedTags
<1>10. IsChain(h, m2, G)
  <2>1. Points(h, m, F, q, n, p)
    BY DEF Points, Freeing
  <2>2. /\ h = q <=> n = 0
        /\ \A b \in F : m[b].word = q <=> n # 0 /\ b = p
    BY <2>1, <1>1, <1>4, Predecessors
  <2>3. Relinks(h, m, F \ {q}, h, m2, q, m[q].word)
    BY <2>2, <1>1, <1>3, <1>6 DEF Relinks
  <2> QED
    BY <2>3, <1>1, <1>4, ChainRemove
<1>11. Tiles(G \cup TaggedIn(m2), Ends(m2))
  <2> DEFINE e == [Ends(m) EXCEPT ![a] = Ends(m)[q]]
  <2>1. G \cup TaggedIn(m2) = (B \ {q}) \ {a}
    BY <1>1, <1>2, <1>4, <1>9
  <2>2. B \subseteq Addr
    BY <1>1 DEF TaggedIn
  <2>3. e[a] = Ends(m)[q] /\ \A b \in Addr \ {a} : e[b] = Ends(m)[b]
    BY <1>1 DEF Ends
  <2> HIDE DEF e
  <2>4. SameEnds(B \ {a, q}, Ends(m), e)
    BY <2>2, <2>3 DEF SameEnds
  <2>5. Tiles(B \ {q}, e)
    BY <2>3, <2>4, <1>2, <1>4, TilesMerge
  <2>6. p \in B \ {q} /\ a \in B \ {q} /\ e[p] = a /\ Ends(m2)[p] = e[a]
    BY <2>3, <1>1, <1>2, <1>3, <1>4, <1>8
  <2>7. SameEnds((B \ {q}) \ {p, a}, e, Ends(m2))
    BY <2>2, <2>3, <1>8 DEF SameEnds
  <2>8. Tiles((B \ {q}) \ {a}, Ends(m2))
    BY <2>5, <2>6, <2>7, TilesMerge
  <2> QED
    BY <2>1, <2>8
<1>12. ASSUME NEW b \in G, NEW c \in G PROVE Ends(m2)[b] # c
  BY <1>1, <1>2, <1>3, <1>4, <1>8
<1>13. Keeps(m, m2, TaggedIn(m) \ {a})
  <2>1. \A b \in F : b \notin TaggedIn(m)
    BY <1>2, FreeUntagged
  <2>2. TaggedIn(m) \subseteq Addr
    BY DEF TaggedIn
  <2> QED
    BY <2>1, <2>2, <1>3, <1>6, <1>8 DEF Keeps
<1>14. Apart(G)
  BY <1>2 DEF Layout, Apart
<1> QED
  BY <1>6, <1>9, <1>10, <1>11, <1>12, <1>13, <1>14 DEF Layout

\* The search ends at the first free block behind a; prev is the one before it.
LEMMA DeallocSearch ==
  ASSUME MemInv, NEW a \in TaggedIn(mem),
         NEW n, n = Min({i \in DOMAIN walk : walk[i] = NULL \/ walk[i] > a})
  PROVE  /\ n \in Nat
         /\ Freeing(head, mem, FreeBlocks, a, n, IF n = 0 THEN NULL ELSE walk[n - 1], walk[n])
<1> DEFINE F == FreeBlocks
           T == {i \in DOMAIN walk : walk[i] = NULL \/ walk[i] > a}
           p == IF n = 0 THEN NULL ELSE walk[n - 1]
           q == walk[n]
<1>1. Layout(head, mem, F) /\ IsChain(head, mem, F)
  BY DEF MemInv, Layout
<1>2. /\ DOMAIN walk = Steps /\ Steps \subseteq Nat /\ walk[0] = head
      /\ \A i \in Steps : walk[i] \in F \cup {NULL}
      /\ \A i \in Steps : i > 0 => i - 1 \in Steps /\ walk[i] = Succ(mem, walk[i - 1])
      /\ \A i \in Steps, b \in F : walk[i] = NULL \/ b < walk[i]
           => \E j \in Steps : j < i /\ walk[j] = b
      /\ walk[Cardinality(Addr)] = NULL /\ Cardinality(Addr) \in Steps
      /\ \A b \in F : b # NULL /\ b \in Nat
  BY ListVisits
<1>3. a \in Nat /\ \A b \in F : b # a
  <2>1. \A b \in F : b \notin TaggedIn(mem)
    BY <1>1, FreeUntagged
  <2> QED
    BY <1>1, <2>1, BlockFacts
<1> HIDE DEF F
<1>4. n \in T /\ \A i \in T : n <= i
  <2>1. T \subseteq Nat /\ T # {}
    BY <1>2
  <2>2. n = Min(T)
    OBVIOUS
  <2> HIDE DEF T
  <2> QED
    BY <2>1, <2>2, MinIsLeast
<1>5. n \in Steps /\ n \in Nat /\ (q = NULL \/ a < q)
  <2>1. n \in Steps /\ n \in Nat /\ (q = NULL \/ q > a)
    BY <1>2, <1>4
  <2>2. q \in F => q \in Nat
    BY <1>2
  <2> QED
    BY <2>1, <2>2, <1>2, <1>3
<1>6. ASSUME NEW i \in Steps, i < n PROVE walk[i] \in F /\ walk[i] < a
  <2>1. i \notin T
    <3>1. i \in Nat /\ ~(n <= i)
      BY <1>2, <1>5, <1>6
    <3> HIDE DEF T
    <3> QED
      BY <3>1, <1>4
  <2>2. walk[i] # NULL /\ ~(walk[i] > a)
    BY <2>1, <1>2
  <2> DEFINE x == walk[i]
  <2>3. x \in F /\ x \in Nat /\ x # a /\ ~(x > a)
    BY <2>2, <1>2, <1>3
  <2> HIDE DEF x
  <2>4. x \in F /\ x < a
    BY <2>3, <1>3
  <2> QED
    BY <2>4 DEF x
<1>7. ASSUME NEW b \in F, q = NULL \/ b < q PROVE b < a
  <2>1. PICK i \in Steps : i < n /\ walk[i] = b
    BY <1>2, <1>5, <1>7
  <2> QED
    BY <2>1, <1>6
<1> HIDE DEF q, p
<1>8. q \in F \cup {NULL}
  BY <1>2, <1>5 DEF q
<1>9. IsFirst(q, Above(F, a))
  <2>1. \A b \in Above(F, a) : b \in F /\ b \in Nat /\ ~(b < a)
    BY <1>2, <1>3 DEF Above
  <2>2. \A b \in Above(F, a) : q # NULL /\ ~(b < q)
    BY <2>1, <1>7
  <2>3. CASE q = NULL
    BY <2>2, <2>3 DEF IsFirst
  <2>4. CASE q # NULL
    <3>1. q \in Above(F, a) /\ q \in Nat
      BY <2>4, <1>2, <1>5, <1>8 DEF Above
    <3> QED
      BY <3>1, <2>1, <2>2 DEF IsFirst
  <2> QED
    BY <2>3, <2>4
<1>10. ASSUME n = 0 PROVE q = head /\ \A b \in F : a < b
  <2>1. q = head
    BY <1>2, <1>10 DEF q
  <2>2. ASSUME NEW b \in F, b < a PROVE FALSE
    <3>1. q = NULL \/ b < q
      BY <2>2, <1>2, <1>3, <1>5, <1>8
    <3>2. PICK i \in Steps : i < n /\ walk[i] = b
      BY <3>1, <1>2, <1>5 DEF q
    <3> QED
      BY <3>2, <1>2, <1>10
  <2> QED
    BY <2>1, <2>2, <1>2, <1>3
<1>11. ASSUME n # 0
       PROVE  p \in F /\ p < a /\ mem[p].word = q /\ \A b \in F : b < a => b <= p
  <2>1. n - 1 \in Steps /\ n - 1 < n /\ walk[n] = Succ(mem, walk[n - 1])
    BY <1>2, <1>5, <1>11
  <2>2. p \in F /\ p < a /\ mem[p].word = q /\ p \in Nat
    BY <2>1, <1>6, <1>2, <1>11 DEF Succ, p, q
  <2>3. ASSUME NEW b \in F, b < a PROVE b <= p
    <3>1. IsFirst(q, Above(F, p))
      BY <2>2, <1>1 DEF IsChain
    <3>2. p < b => q # NULL /\ q \in F /\ q <= b
      BY <3>1, <2>3, <1>2 DEF IsFirst, Above
    <3>3. a \in Nat /\ b \in Nat /\ p \in Nat
      BY <1>2, <1>3, <2>2
    <3>4. ASSUME p < b PROVE FALSE
      <4>1. q \in Nat /\ q <= b /\ a < q
        BY <3>2, <3>4, <1>2, <1>5 DEF q
      <4> QED
        BY <4>1, <3>3, <2>3
    <3> QED
      BY <3>3, <3>4
  <2> QED
    BY <2>2, <2>3
<1>12. Freeing(head, mem, F, a, n, p, q)
  BY <1>1, <1>9, <1>10, <1>11 DEF Freeing
<1> QED
  BY <1>5, <1>12 DEF p, q, F

\* What the deallocation at a does to the tags and the layout.
Freed(m, h2, m2, a) ==
  /\ \E F2 : Layout(h2, m2, F2)
  /\ TaggedIn(m2) = TaggedIn(m) \ {a}
  /\ Keeps(m, m2, TaggedIn(m) \ {a})

LEMMA DeallocEffect ==
  ASSUME MemInv, NEW ptr \in {NULL} \cup {a + HeaderSize : a \in HeapUnits}, NEW t \in Tid,
         k_mem_dealloc_with_tid(ptr, t), Apart(FreeOf(head', mem'))
  PROVE  \E a \in TaggedIn(mem) : /\ ptr = a + HeaderSize /\ mem[a].word = MAGIC_NUM + t
                                  /\ Freed(mem, head', mem', a)
<1> DEFINE a == ptr - HeaderSize
           F == FreeBlocks
           n == Min({i \in DOMAIN walk : walk[i] = NULL \/ walk[i] > a})
           q == walk[n]
           p == IF n = 0 THEN NULL ELSE walk[n - 1]
           len == mem[a].size + HeaderSize
           tp == n > 0 /\ p + Whole(p) = a
           tn == q = a + mem[a].size + HeaderSize
           freed == IF tn THEN [size |-> mem[q].size + len, word |-> mem[q].word]
                          ELSE [size |-> len - HeaderSize, word |-> q]
<1>1. /\ Owns(ptr, t)
      /\ head' = IF n = 0 THEN a ELSE head
      /\ tp => mem' = [[mem EXCEPT ![a].word = 0] EXCEPT
                         ![p] = [size |-> mem[p].size + freed.size + HeaderSize,
                                 word |-> freed.word]]
      /\ ~tp /\ n > 0 => mem' = [[mem EXCEPT ![a].word = 0] EXCEPT
                                   ![a] = freed, ![p].word = a]
      /\ ~tp /\ n = 0 => mem' = [[mem EXCEPT ![a].word = 0] EXCEPT ![a] = freed]
  <2>1. /\ Owns(ptr, t)
        /\ head' = IF n = 0 THEN a ELSE head
        /\ mem' = CASE tp -> [Untagged(a) EXCEPT
                                ![p] = [size |-> mem[p].size + freed.size + HeaderSize,
                                        word |-> freed.word]]
                    [] ~tp /\ n > 0 -> [Untagged(a) EXCEPT ![a] = freed, ![p].word = a]
                    [] n = 0 -> [Untagged(a) EXCEPT ![a] = freed]
    BY Zenon DEF k_mem_dealloc_with_tid, touching_next
  <2> HIDE DEF n, freed, p
  <2>2. /\ tp => mem' = [Untagged(a) EXCEPT
                           ![p] = [size |-> mem[p].size + freed.size + HeaderSize,
                                   word |-> freed.word]]
        /\ ~tp /\ n > 0 => mem' = [Untagged(a) EXCEPT ![a] = freed, ![p].word = a]
        /\ ~tp /\ n = 0 => mem' = [Untagged(a) EXCEPT ![a] = freed]
    BY <2>1
  <2> HIDE DEF a, tp
  <2> QED
    BY <2>1, <2>2, Zenon DEF Untagged
<1>2. a \in HeapUnits /\ ptr = a + HeaderSize /\ a \in Addr
  <2>1. ptr # NULL
    BY <1>1 DEF Owns
  <2>2. PICK b \in HeapUnits : ptr = b + HeaderSize
    BY <2>1
  <2> QED
    BY <2>2, Units DEF HeaderSize
<1>3. Layout(head, mem, F) /\ mem \in Headers
  BY DEF MemInv, Layout
<1> HIDE DEF F
<1>4. a \in TaggedIn(mem) /\ mem[a].word = MAGIC_NUM + t
  <2> DEFINE x == mem[a].word
  <2>1. x \in Int
    BY <1>2, <1>3, TagAssumption DEF Headers, Addr
  <2>2. x - t = MAGIC_NUM
    BY <1>1 DEF Owns
  <2> HIDE DEF x, a
  <2>3. x = MAGIC_NUM + t
    BY <2>1, <2>2, TagAssumption
  <2> QED
    BY <2>3, <1>2 DEF TaggedIn, x
<1> HIDE DEF a
<1>5. n \in Nat /\ Freeing(head, mem, F, a, n, p, q)
  BY <1>4, DeallocSearch DEF F
<1> HIDE DEF n, q, p
<1>6. /\ Span(mem, a) = mem[a].size + 8 /\ mem[a].size \in Nat /\ a \in Nat
      /\ n # 0 => p \in F /\ p \in Addr /\ p < a /\ p \in Nat
      /\ q \in Words
  BY <1>5, FreeingFacts
<1>7. tp <=> TouchesPrev(mem, a, n, p)
  <2>1. n # 0 => Whole(p) = Span(mem, p)
    BY <1>6, WholeIsSpan DEF F
  <2> QED
    BY <2>1, <1>5 DEF TouchesPrev
<1>8. tn <=> TouchesNext(mem, a, q)
  BY <1>6 DEF TouchesNext, HeaderSize
<1>9. len = Span(mem, a) /\ len - HeaderSize = mem[a].size
  BY <1>6 DEF HeaderSize
<1> HIDE DEF tp, tn, len
<1>10. freed = IF tn THEN [size |-> mem[q].size + Span(mem, a), word |-> mem[q].word]
                     ELSE [size |-> mem[a].size, word |-> q]
  BY <1>9
<1>11. CASE tp
  <2>1. n # 0 /\ head' = head
    BY <1>1, <1>7, <1>11 DEF TouchesPrev
  <2>2. mem' = WithHeader(Linked(mem, 1, a, 0), p, mem[p].size + freed.size + HeaderSize,
                          freed.word)
    <3> HIDE DEF freed
    <3>1. mem' = [[mem EXCEPT ![a].word = 0] EXCEPT
                    ![p] = [size |-> mem[p].size + freed.size + HeaderSize,
                            word |-> freed.word]]
      BY <1>1, <1>11
    <3> QED
      BY <3>1 DEF WithHeader, Linked
  <2> HIDE DEF freed
  <2>3. mem[p].size \in Nat
    BY <1>5, <1>7, <1>11, PrevTouches
  <2>4. CASE tn
    <3>1. q \in F /\ mem[q].size \in Nat /\ Span(mem, q) = mem[q].size + 8
      BY <1>5, <1>8, <2>4, NextTouches
    <3>2. freed.size = mem[q].size + Span(mem, a) /\ freed.word = mem[q].word
      BY <1>10, <2>4
    <3>3. mem[p].size + freed.size + HeaderSize = mem[p].size + Span(mem, a) + Span(mem, q)
      BY <3>1, <3>2, <2>3, <1>6 DEF HeaderSize
    <3>4. JoinsBoth(mem, a, p, q, mem')
      BY <3>2, <3>3, <2>2 DEF JoinsBoth
    <3>5. /\ Layout(head, mem', F \ {q}) /\ TaggedIn(mem') = TaggedIn(mem) \ {a}
          /\ Keeps(mem, mem', TaggedIn(mem) \ {a})
      <4>1. /\ Freeing(head, mem, F, a, n, p, q)
            /\ TouchesPrev(mem, a, n, p) /\ TouchesNext(mem, a, q)
        BY <2>4, <1>5, <1>7, <1>8, <1>11
      <4> QED
        BY <3>4, <4>1, FreedBoth
    <3>6. Freed(mem, head', mem', a)
      BY <3>5, <2>1 DEF Freed
    <3> QED
      BY <3>6, <1>2, <1>4
  <2>5. CASE ~tn
    <3>1. freed.size = mem[a].size /\ freed.word = q
      BY <1>10, <2>5
    <3>2. mem[p].size + freed.size + HeaderSize = mem[p].size + Span(mem, a)
      BY <3>1, <2>3, <1>6 DEF HeaderSize
    <3>3. JoinsPrev(mem, a, p, q, mem')
      BY <3>1, <3>2, <2>2 DEF JoinsPrev
    <3>4. /\ Layout(head, mem', F) /\ TaggedIn(mem') = TaggedIn(mem) \ {a}
          /\ Keeps(mem, mem', TaggedIn(mem) \ {a})
      <4>1. /\ Freeing(head, mem, F, a, n, p, q)
            /\ TouchesPrev(mem, a, n, p) /\ ~TouchesNext(mem, a, q)
        BY <2>5, <1>5, <1>7, <1>8, <1>11
      <4> QED
        BY <3>3, <4>1, FreedPrev
    <3>5. Freed(mem, head', mem', a)
      BY <3>4, <2>1 DEF Freed
    <3> QED
      BY <3>5, <1>2, <1>4
  <2> QED
    BY <2>4, <2>5
<1>12. CASE ~tp
  <2>1. mem' = Linked([mem EXCEPT ![a] = freed], n, p, a)
    <3>1. CASE n = 0
      <4>1. mem' = [[mem EXCEPT ![a].word = 0] EXCEPT ![a] = freed]
        BY <1>1, <1>12, <3>1
      <4> HIDE DEF freed
      <4> QED
        BY <4>1, <3>1, <1>3 DEF Linked, Headers
    <3>2. CASE n # 0
      <4>1. mem' = [[mem EXCEPT ![a].word = 0] EXCEPT ![a] = freed, ![p].word = a]
        BY <1>1, <1>5, <1>12, <3>2
      <4> HIDE DEF freed
      <4> QED
        BY <4>1, <3>2, <1>3 DEF Linked, Headers
    <3> QED
      BY <3>1, <3>2
  <2>2. CASE tn
    <3> DEFINE z == mem[q].size + Span(mem, a)
               x == mem[q].word
               m1 == WithHeader(mem, a, z, x)
    <3>1. mem' = Linked(m1, n, p, a)
      BY <2>1, <2>2, <1>10 DEF WithHeader
    <3>2. z \in 0 .. WORD - 1 /\ x \in Words
      <4>1. /\ q \in Nat /\ a + Span(mem, a) = q /\ q + Span(mem, q) <= RAM_END
            /\ mem[q].size \in Nat /\ Span(mem, q) = mem[q].size + 8 /\ x \in Words
        BY <1>5, <1>8, <2>2, NextTouches
      <4> QED
        BY <4>1, <1>6, LayoutAssumption DEF HeaderSize
    <3>3. m1 \in Headers
      <4> HIDE DEF z, x
      <4> QED
        BY <3>2, <1>2, <1>3, HeaderWritten
    <3>4. LinkSet(m1, n, p, a, mem')
      <4> HIDE DEF m1
      <4> QED
        BY <3>1, <3>3, <1>2, <1>6, LinkWritten DEF Words
    <3>5. LinksNext(head, mem, a, n, p, q, head', mem')
      BY <3>4, <1>1 DEF LinksNext
    <3>6. /\ Layout(head', mem', (F \ {q}) \cup {a}) /\ TaggedIn(mem') = TaggedIn(mem) \ {a}
          /\ Keeps(mem, mem', TaggedIn(mem) \ {a})
      <4>1. /\ Freeing(head, mem, F, a, n, p, q)
            /\ ~TouchesPrev(mem, a, n, p) /\ TouchesNext(mem, a, q)
        BY <2>2, <1>5, <1>7, <1>8, <1>12
      <4> QED
        BY <3>5, <4>1, FreedNext
    <3>7. Freed(mem, head', mem', a)
      BY <3>6 DEF Freed
    <3> QED
      BY <3>7, <1>2, <1>4
  <2>3. CASE ~tn
    <3> DEFINE m1 == WithHeader(mem, a, mem[a].size, q)
    <3>1. mem' = Linked(m1, n, p, a)
      BY <2>1, <2>3, <1>10 DEF WithHeader
    <3>2. mem[a].size \in 0 .. WORD - 1
      BY <1>2, <1>3 DEF Headers
    <3>3. m1 \in Headers
      BY <3>2, <1>2, <1>3, <1>6, HeaderWritten
    <3>4. LinkSet(m1, n, p, a, mem')
      <4> HIDE DEF m1
      <4> QED
        BY <3>1, <3>3, <1>2, <1>6, LinkWritten DEF Words
    <3>5. LinksAlone(head, mem, a, n, p, q, head', mem')
      BY <3>4, <1>1 DEF LinksAlone
    <3>6. /\ Layout(head', mem', F \cup {a}) /\ TaggedIn(mem') = TaggedIn(mem) \ {a}
          /\ Keeps(mem, mem', TaggedIn(mem) \ {a})
      <4>1. /\ Freeing(head, mem, F, a, n, p, q)
            /\ ~TouchesPrev(mem, a, n, p) /\ ~TouchesNext(mem, a, q)
        BY <2>3, <1>5, <1>7, <1>8, <1>12
      <4> QED
        BY <3>5, <4>1, FreedAlone
    <3>7. Freed(mem, head', mem', a)
      BY <3>6 DEF Freed
    <3> QED
      BY <3>7, <1>2, <1>4
  <2> QED
    BY <2>2, <2>3
<1> QED
  BY <1>11, <1>12

-----------------------------------------------------------------------------
(* The invariant.                                                          *)

LEMMA InvIs ==
  ASSUME NEW F, Layout(head, mem, F)
  PROVE  MemInv /\ FreeBlocks = F
<1>1. FreeOf(head, mem) = F
  BY ChainIsFree DEF Layout
<1> QED
  BY <1>1, WalkIsWalk DEF MemInv

LEMMA FreeIsNext == FreeBlocks' = FreeOf(head', mem')
<1>1. walk' = WalkOf(head', mem')
  BY DEF walk, WalkOf
<1> QED
  BY <1>1, WalkIs DEF FreeBlocks, FreeOf

LEMMA InvIsNext ==
  ASSUME NEW F, Layout(head', mem', F)
  PROVE  MemInv' /\ FreeBlocks' = F
<1>1. FreeOf(head', mem') = F
  BY ChainIsFree DEF Layout
<1> QED
  BY <1>1, FreeIsNext DEF MemInv

LEMMA StillApart ==
  ASSUME TagsApart'
  PROVE  Apart(FreeOf(head', mem'))
  BY FreeIsNext DEF TagsApart, Apart

LEMMA InitInv ==
  ASSUME Init, TagsApart
  PROVE  MemInv /\ TaggedIn(mem) = {}
<1> DEFINE F == {HeapStart}
<1>1. /\ HeapStart \in HeapUnits /\ HeapStart \in Addr /\ HeapStart \in Nat
      /\ HeapStart < HeapLimit /\ HeapStart # NULL /\ HeapStart < RAM_END
  BY Units, BoundsAre, LayoutAssumption DEF NULL
<1>2. /\ mem[HeapStart] = [size |-> TotalSize - HeaderSize, word |-> NULL]
      /\ head = HeapStart
  BY <1>1 DEF Init
<1>3. /\ TotalSize - HeaderSize \in 0 .. WORD - 1
      /\ HeapStart + ((TotalSize - HeaderSize) + HeaderSize) = RAM_END
  BY LayoutAssumption DEF TotalSize, HeaderSize
<1>4. NULL \in Addr /\ 0 \in Addr
  BY LayoutAssumption DEF Addr, NULL
<1>5. mem \in Headers
  <2> DEFINE R == [size : 0 .. WORD - 1, word : Words]
  <2>1. 0 \in 0 .. WORD - 1 /\ ZeroWord \in 0 .. WORD - 1
    BY LayoutAssumption, SizeAssumption DEF HeaderSize
  <2>2. 0 \in Words /\ NULL \in Words
    BY <1>4 DEF Words
  <2>3. /\ [size |-> ZeroWord, word |-> 0] \in R /\ [size |-> 0, word |-> 0] \in R
        /\ [size |-> TotalSize - HeaderSize, word |-> NULL] \in R
    BY <2>1, <2>2, <1>3
  <2> HIDE DEF R
  <2>4. mem \in [Addr -> R]
    BY <2>3 DEF Init
  <2> QED
    BY <2>4 DEF R, Headers, Words
<1>6. \A a \in Addr : mem[a].word = 0
  BY DEF Init, NULL
<1>7. TaggedIn(mem) = {}
  BY <1>6, NullIsLink DEF TaggedIn, Links
<1>8. IsChain(head, mem, F)
  <2>1. Above(F, HeapStart) = {}
    BY <1>1 DEF Above
  <2>2. IsFirst(head, F)
    BY <1>1, <1>2 DEF IsFirst
  <2>3. IsFirst(mem[HeapStart].word, Above(F, HeapStart))
    BY <2>1, <1>2 DEF IsFirst
  <2> QED
    BY <2>2, <2>3, <1>1 DEF IsChain
<1>9. Ends(mem)[HeapStart] = HeapLimit
  <2>1. HeapStart + Span(mem, HeapStart) = RAM_END
    BY <1>2, <1>3 DEF Span
  <2> QED
    BY <2>1, <1>1 DEF Ends
<1>10. Tiles(F \cup TaggedIn(mem), Ends(mem))
  <2>1. \A u \in HeapUnits : HeapStart <= u /\ u < HeapLimit
    BY DEF HeapUnits
  <2> QED
    BY <2>1, <1>1, <1>7, <1>9 DEF Tiles, Bounds
<1>11. Apart(F)
  <2>1. FreeBlocks = F
    BY <1>8, ChainIsFree, WalkIsWalk
  <2> QED
    BY <2>1 DEF TagsApart, Apart
<1>12. Layout(head, mem, F)
  BY <1>1, <1>5, <1>8, <1>9, <1>10, <1>11 DEF Layout
<1> QED
  BY <1>7, <1>12, InvIs

\* A block that was taken has the length asked for, whatever its header says.
LEMMA TakenEnds ==
  ASSUME NEW h, NEW m, NEW F, Layout(h, m, F), NEW a \in F,
         NEW need \in Nat, need % 8 = 0
  PROVE  /\ need <= Span(m, a) <=> a + need <= Ends(m)[a]
         /\ need <= Span(m, a) /\ Span(m, a) - need < 8 => Ends(m)[a] = a + need
<1>1. /\ a \in Nat /\ a % 8 = 0 /\ Span(m, a) \in Nat
      /\ a + Span(m, a) \in Bounds \cup {RAM_END}
      /\ Ends(m)[a] = IF a + Span(m, a) = RAM_END THEN HeapLimit ELSE a + Span(m, a)
  BY BlockFacts, Units
<1>2. HeapLimit \in Nat /\ HeapLimit % 8 = 0 /\ HeapLimit + 7 = RAM_END
  BY Units
<1> DEFINE z == Span(m, a)
           e == Ends(m)[a]
           x == a + z
<1>3. x # RAM_END => x % 8 = 0
  BY <1>1, BoundsAre
<1>4. e = IF x = RAM_END THEN HeapLimit ELSE x
  BY <1>1
<1>5. z \in Nat
  BY <1>1
<1> HIDE DEF z, e
<1>6. (a + need) % 8 = 0 /\ a + need \in Nat
  BY <1>1
<1>7. need <= z <=> a + need <= x
  BY <1>1, <1>5
<1>8. CASE x = RAM_END
  BY <1>1, <1>2, <1>4, <1>5, <1>6, <1>8 DEF z, e
<1>9. CASE x # RAM_END
  <2>1. e = x /\ x % 8 = 0 /\ x \in Nat
    BY <1>1, <1>3, <1>4, <1>5, <1>9
  <2> QED
    BY <2>1, <1>1, <1>5, <1>6 DEF z, e
<1> QED
  BY <1>8, <1>9

\* What an allocation at a does to the tags and the layout.
Taken(m, h2, m2, a, need, t) ==
  /\ \E F2 : Layout(h2, m2, F2)
  /\ TaggedIn(m2) = TaggedIn(m) \cup {a}
  /\ Keeps(m, m2, TaggedIn(m))
  /\ m2[a].word = MAGIC_NUM + t /\ Ends(m2)[a] = a + need

LEMMA AllocStep ==
  ASSUME MemInv, RequestsFit, head # NULL, NEW s \in Sizes, NEW t \in Tid,
         k_mem_alloc_with_tid(s, t), Apart(FreeOf(head', mem'))
  PROVE  \E a \in FreeBlocks : /\ FirstFit(mem, FreeBlocks, total_bytes_needed(s), a)
                               /\ Taken(mem, head', mem', a, total_bytes_needed(s), t)
<1> DEFINE need == total_bytes_needed(s)
           F == FreeBlocks
<1>1. PICK a \in F :
        /\ FirstFit(mem, F, need, a)
        /\ \/ TakenWhole(head, mem, F, head', mem', need, t, a)
           \/ TakenPart(head, mem, F, head', mem', need, t, a)
  BY AllocEffect
<1>2. need \in Nat /\ need % 8 = 0 /\ 8 <= need
  BY Needed
<1>3. Layout(head, mem, F)
  BY DEF MemInv
<1> HIDE DEF need, F
<1>4. need <= Span(mem, a)
  BY <1>1 DEF FirstFit
<1>5. CASE TakenWhole(head, mem, F, head', mem', need, t, a)
  <2>1. /\ Layout(head', mem', F \ {a}) /\ TaggedIn(mem') = TaggedIn(mem) \cup {a}
        /\ Keeps(mem, mem', TaggedIn(mem))
    BY <1>1, <1>3, <1>5, LayoutTakenWhole
  <2>2. mem'[a].word = MAGIC_NUM + t /\ Ends(mem')[a] = Ends(mem)[a] /\ Span(mem, a) - need < 8
    BY <1>5 DEF TakenWhole
  <2>3. Ends(mem)[a] = a + need
    BY <2>2, <1>2, <1>3, <1>4, TakenEnds
  <2>4. Taken(mem, head', mem', a, need, t)
    BY <2>1, <2>2, <2>3 DEF Taken
  <2> QED
    BY <2>4, <1>1 DEF need, F
<1>6. CASE TakenPart(head, mem, F, head', mem', need, t, a)
  <2>1. /\ Layout(head', mem', (F \ {a}) \cup {a + need})
        /\ TaggedIn(mem') = TaggedIn(mem) \cup {a}
        /\ Keeps(mem, mem', TaggedIn(mem))
    <3>1. 0 < need
      BY <1>2
    <3> QED
      BY <3>1, <1>1, <1>2, <1>3, <1>6, LayoutTakenPart
  <2>2. mem'[a].word = MAGIC_NUM + t /\ Ends(mem')[a] = a + need
    BY <1>6 DEF TakenPart
  <2>3. Taken(mem, head', mem', a, need, t)
    BY <2>1, <2>2 DEF Taken
  <2> QED
    BY <2>3, <1>1 DEF need, F
<1> QED
  BY <1>1, <1>5, <1>6

LEMMA NextInv ==
  ASSUME ~EmptyListCalls, RequestsFit, MemInv, [Next /\ TagsApart']_memVars
  PROVE  MemInv'
<1>1. CASE Alloc /\ TagsApart'
  <2>1. head # NULL
    BY <1>1 DEF Alloc
  <2>2. PICK s \in Sizes, t \in Tid : k_mem_alloc_with_tid(s, t)
    BY <1>1 DEF Alloc
  <2>3. \E F2 : Layout(head', mem', F2)
    BY <2>1, <2>2, <1>1, StillApart, AllocStep DEF Taken
  <2> QED
    BY <2>3, InvIsNext
<1>2. CASE Dealloc /\ TagsApart'
  <2>1. PICK ptr \in {NULL} \cup {a + HeaderSize : a \in HeapUnits}, t \in Tid :
          k_mem_dealloc_with_tid(ptr, t)
    BY <1>2 DEF Dealloc
  <2>2. \E F2 : Layout(head', mem', F2)
    BY <2>1, <1>2, StillApart, DeallocEffect DEF Freed
  <2> QED
    BY <2>2, InvIsNext
<1>3. CASE UNCHANGED memVars
  <2>1. Layout(head', mem', FreeBlocks)
    BY <1>3 DEF memVars, MemInv
  <2> QED
    BY <2>1, InvIsNext
<1> QED
  BY <1>1, <1>2, <1>3 DEF Next

\* The list is in address order, free blocks and tagged blocks tile the heap and no two
\* free blocks touch: k_mem_alloc and k_mem_dealloc keep it so for every heap and every
\* tag, in the behaviours in which no free block begins at the value of a tag, if no
\* request wraps around and none is made when nothing is free.
THEOREM MemInvariant ==
  ASSUME ~EmptyListCalls, RequestsFit
  PROVE  ApartSpec => []MemInv
<1>1. Init /\ TagsApart => MemInv
  BY InitInv
<1>2. MemInv /\ [Next /\ TagsApart']_memVars => MemInv'
  BY NextInv
<1> QED
  BY <1>1, <1>2, PTL DEF ApartSpec, ApartInit, ApartNext

-----------------------------------------------------------------------------
(* What follows from the invariant.                                        *)

LEMMA EndIs ==
  ASSUME MemInv, NEW a \in FreeBlocks \cup TaggedIn(mem)
  PROVE  EndOf(a) = Ends(mem)[a]
<1> DEFINE z == Span(mem, a)
           e == Ends(mem)[a]
           x == a + z
<1>1. /\ a \in Nat /\ a % 8 = 0 /\ z \in Nat
      /\ x \in Bounds \cup {RAM_END}
      /\ e = IF x = RAM_END THEN HeapLimit ELSE x
  BY BlockFacts, Units DEF MemInv
<1>2. HeapLimit \in Nat /\ HeapLimit % 8 = 0 /\ HeapLimit + 7 = RAM_END
  BY Units
<1>3. EndOf(a) = a + z - (z % 8)
  BY WholeIsSpan DEF EndOf
<1>4. x # RAM_END => x % 8 = 0
  BY <1>1, BoundsAre
<1> HIDE DEF z, e
<1>5. CASE x = RAM_END
  BY <1>1, <1>2, <1>3, <1>5 DEF e
<1>6. CASE x # RAM_END
  BY <1>1, <1>3, <1>4, <1>6 DEF e
<1> QED
  BY <1>5, <1>6

LEMMA TaggedIs == Tagged = TaggedIn(mem)
  BY DEF Tagged, TaggedIn

LEMMA TypeFollows ==
  ASSUME MemInv
  PROVE  MemTypeOK
<1>1. mem \in Headers /\ IsFirst(head, FreeBlocks) /\ FreeBlocks \subseteq HeapUnits
  BY DEF MemInv, Layout, IsChain
<1>2. NULL \in Addr
  BY LayoutAssumption DEF Addr, NULL
<1>3. head \in Addr
  BY <1>1, <1>2, Units DEF IsFirst
<1> QED
  BY <1>1, <1>3 DEF MemTypeOK, Headers

LEMMA FreeListFollows ==
  ASSUME MemInv
  PROVE  FreeListOK
<1> DEFINE F == FreeBlocks
<1>1. /\ IsChain(head, mem, F) /\ Tiles(F \cup TaggedIn(mem), Ends(mem))
      /\ \A b \in F, c \in F : Ends(mem)[b] # c
  BY DEF MemInv, Layout
<1>2. DOMAIN walk = Steps /\ walk = WalkOf(head, mem) /\ Steps \subseteq Nat
  BY ListVisits, WalkIsWalk
<1>3. \A b \in F : b \in Nat /\ EndOf(b) = Ends(mem)[b] /\ Ends(mem)[b] \in Nat
  BY EndIs, BlockFacts DEF MemInv
<1> HIDE DEF F
<1>4. ASSUME NEW n \in Steps, n > 0, walk[n] # NULL PROVE EndOf(walk[n - 1]) < walk[n]
  <2>1. n - 1 \in Steps /\ n - 1 < n
    BY <1>2, <1>4, WalkIs
  <2>2. walk[n - 1] \in F /\ walk[n - 1] < walk[n] /\ walk[n] \in F
    BY <2>1, <1>1, <1>2, <1>4, ChainIncreases, ChainVisits
  <2>3. Ends(mem)[walk[n - 1]] <= walk[n] /\ Ends(mem)[walk[n - 1]] # walk[n]
    BY <2>2, <1>1 DEF Tiles
  <2> DEFINE x == walk[n - 1]
             y == walk[n]
  <2>4. Ends(mem)[x] <= y /\ Ends(mem)[x] # y /\ x \in F /\ y \in Nat
    BY <2>2, <2>3, <1>3
  <2> HIDE DEF x, y
  <2>5. EndOf(x) < y
    BY <2>4, <1>3
  <2> QED
    BY <2>5 DEF x, y
<1> QED
  BY <1>2, <1>4 DEF FreeListOK

LEMMA PartitionFollows ==
  ASSUME MemInv
  PROVE  Partitioned
<1> DEFINE B == FreeBlocks \cup Tagged
<1>1. Tiles(B, Ends(mem))
  BY TaggedIs DEF MemInv, Layout
<1>2. \A b \in B : b \in Nat /\ EndOf(b) = Ends(mem)[b] /\ Ends(mem)[b] \in Nat
  BY EndIs, TaggedIs, BlockFacts DEF MemInv
<1> HIDE DEF B
<1>3. ASSUME NEW u \in HeapUnits
      PROVE  Cardinality({a \in B : a <= u /\ u < EndOf(a)}) = 1
  <2> DEFINE S == {a \in B : a <= u /\ u < EndOf(a)}
  <2>1. PICK a \in B : a <= u /\ u < Ends(mem)[a]
    BY <1>1 DEF Tiles
  <2>2. ASSUME NEW b \in S PROVE b = a
    <3>1. u \in Nat /\ b \in B /\ b <= u /\ u < Ends(mem)[b]
      BY <1>2, Units
    <3>2. (a < b => Ends(mem)[a] <= b) /\ (b < a => Ends(mem)[b] <= a)
      BY <3>1, <2>1, <1>1 DEF Tiles
    <3> QED
      BY <3>1, <3>2, <2>1, <1>2
  <2>3. S = {a}
    BY <2>1, <2>2, <1>2
  <2> QED
    BY <2>3, FS_Singleton
<1> QED
  BY <1>3 DEF Partitioned, B

\* An extent of whole units is free of tagged blocks iff one free block holds it.
FreeExtent(S, e, x, len) == /\ x + len <= HeapLimit
                            /\ \A b \in S : e[b] <= x \/ x + len <= b

LEMMA FreeSpan ==
  ASSUME MemInv, NEW x \in HeapUnits, NEW len \in Nat, 0 < len, len % 8 = 0
  PROVE  FreeExtent(TaggedIn(mem), Ends(mem), x, len)
         <=> \E b \in FreeBlocks : b <= x /\ x + len <= Ends(mem)[b]
<1> DEFINE F == FreeBlocks
           T == TaggedIn(mem)
           e == Ends(mem)
<1>1. Tiles(F \cup T, e) /\ \A b \in F, c \in F : e[b] # c
  BY DEF MemInv, Layout
<1>2. \A b \in F \cup T : b \in Nat /\ e[b] \in Bounds /\ e[b] \in Nat /\ b < e[b]
  BY BlockFacts DEF MemInv
<1>3. /\ \A b \in F \cup T, c \in F \cup T : b < c => e[b] <= c
      /\ \A u \in HeapUnits : \E b \in F \cup T : b <= u /\ u < e[b]
  BY <1>1 DEF Tiles
<1>4. x \in Nat /\ HeapLimit \in Nat /\ \A y \in Bounds : y <= HeapLimit
  BY Units, BoundsAre
<1>5. \A b \in F : b \notin T
  BY FreeUntagged DEF MemInv
<1> HIDE DEF F, T, e
<1>6. ASSUME NEW b \in F, b <= x, x + len <= e[b]
      PROVE  FreeExtent(T, e, x, len)
  <2>1. x + len <= HeapLimit
    BY <1>2, <1>4, <1>6
  <2>2. ASSUME NEW c \in T PROVE e[c] <= x \/ x + len <= c
    <3>1. b < c \/ c < b
      BY <1>2, <1>5
    <3> QED
      BY <3>1, <1>2, <1>3, <1>4, <1>6
  <2> QED
    BY <2>1, <2>2 DEF FreeExtent
<1>7. ASSUME FreeExtent(T, e, x, len)
      PROVE  \E b \in F : b <= x /\ x + len <= e[b]
  <2>1. PICK d \in F \cup T : d <= x /\ x < e[d]
    BY <1>3
  <2>2. d \in F
    BY <2>1, <1>2, <1>4, <1>7 DEF FreeExtent
  <2>3. ASSUME ~(x + len <= e[d]) PROVE FALSE
    <3>1. e[d] \in HeapUnits
      BY <2>3, <1>2, <1>4, <1>7, BoundsAre DEF FreeExtent
    <3>2. PICK c \in F \cup T : c <= e[d] /\ e[d] < e[c]
      BY <3>1, <1>3
    <3>3. c = e[d]
      <4>1. c < d => e[c] <= d
        BY <1>3
      <4>2. d < c => e[d] <= c
        BY <1>3
      <4> QED
        BY <4>1, <4>2, <3>2, <1>2
    <3>4. c \in T
      BY <3>3, <2>2, <1>1
    <3>5. e[c] <= x \/ x + len <= c
      BY <3>4, <1>7 DEF FreeExtent
    <3> QED
      BY <3>2, <3>3, <3>5, <2>1, <2>3, <1>2, <1>4
  <2> QED
    BY <2>1, <2>2, <2>3
<1> QED
  BY <1>6, <1>7 DEF F, T, e

-----------------------------------------------------------------------------
(* The list implements the first-fit allocator.                            *)

\* The blocks in use, of the memory m.
InUse(m) == {[at |-> a, len |-> Ends(m)[a] - a, owner |-> m[a].word - MAGIC_NUM] :
               a \in TaggedIn(m)}

HeapBlocks == {[at |-> a, len |-> EndOf(a) - a, owner |-> mem[a].word - MAGIC_NUM] :
                 a \in Tagged}

LEMMA BlocksAre == MemInv => HeapBlocks = InUse(mem)
<1> SUFFICES ASSUME MemInv PROVE HeapBlocks = InUse(mem)
  OBVIOUS
<1>1. \A a \in TaggedIn(mem) : EndOf(a) = Ends(mem)[a]
  BY EndIs
<1> QED
  BY <1>1, TaggedIs DEF HeapBlocks, InUse

LEMMA BlocksAreNext == MemInv' => HeapBlocks' = InUse(mem')
<1>1. (MemInv => HeapBlocks = InUse(mem))'
  BY BlocksAre, PTL
<1> QED
  BY <1>1 DEF InUse, Ends, Span, TaggedIn

LEMMA FreeIs ==
  ASSUME MemInv, NEW x \in Nat, NEW len \in Nat
  PROVE  AbstractHeap!Free(HeapBlocks, x, len) <=> FreeExtent(TaggedIn(mem), Ends(mem), x, len)
<1> DEFINE T == TaggedIn(mem)
           e == Ends(mem)
           r(a) == [at |-> a, len |-> e[a] - a, owner |-> mem[a].word - MAGIC_NUM]
<1>1. \A a \in T : r(a).at = a /\ r(a).at + r(a).len = e[a]
  <2>1. \A a \in T : a \in Nat /\ e[a] \in Nat /\ a + (e[a] - a) = e[a]
    BY BlockFacts DEF MemInv
  <2> QED
    BY <2>1
<1>2. HeapBlocks = {r(a) : a \in T}
  BY BlocksAre DEF InUse
<1> HIDE DEF r
<1>3. (\A b \in HeapBlocks : b.at + b.len <= x \/ x + len <= b.at)
      <=> \A a \in T : r(a).at + r(a).len <= x \/ x + len <= r(a).at
  BY <1>2
<1> QED
  BY <1>1, <1>3 DEF AbstractHeap!Free, FreeExtent

\* Where a request finds room.
LEMMA RoomIs ==
  ASSUME MemInv, NEW len \in Nat
  PROVE  AbstractHeap!Room(len)
         = {x \in HeapUnits : FreeExtent(TaggedIn(mem), Ends(mem), x, len)}
<1> DEFINE R == AbstractHeap!Room(len)
           U == {x \in HeapUnits : FreeExtent(TaggedIn(mem), Ends(mem), x, len)}
<1>1. ASSUME NEW x \in Int PROVE x \in HeapStart .. HeapLimit - 1 /\ x % 8 = 0 <=> x \in HeapUnits
  BY LayoutAssumption DEF HeapUnits, Addr, HeapLimit
<1>2. R = {x \in HeapStart .. HeapLimit - 1 :
             x % 8 = 0 /\ AbstractHeap!Free(HeapBlocks, x, len)}
  BY DEF AbstractHeap!Room, AbstractHeap!Unit, HeapBlocks
<1>3. HeapUnits \subseteq Nat
  BY Units
<1>4. ASSUME NEW x \in R PROVE x \in U
  <2>1. x \in HeapStart .. HeapLimit - 1 /\ x % 8 = 0 /\ AbstractHeap!Free(HeapBlocks, x, len)
    BY <1>2
  <2>2. x \in HeapUnits
    BY <2>1, <1>1
  <2> QED
    BY <2>1, <2>2, <1>3, FreeIs
<1>5. ASSUME NEW x \in U PROVE x \in R
  <2>1. x \in HeapStart .. HeapLimit - 1 /\ x % 8 = 0 /\ AbstractHeap!Free(HeapBlocks, x, len)
    BY <1>1, <1>3, FreeIs
  <2> QED
    BY <2>1, <1>2
<1>6. R = U
  <2> HIDE DEF R, U
  <2> QED
    BY <1>4, <1>5
<1> QED
  BY <1>6

LEMMA ExtentIs ==
  ASSUME RequestsFit, NEW s \in Sizes
  PROVE  AbstractHeap!Extent(s) = total_bytes_needed(s)
<1>1. s \in Nat /\ total_bytes_needed(s) = (s + 15) - ((s + 15) % 8)
  BY Needed, SizeAssumption
<1>2. AbstractHeap!Extent(s) = ((s + 8 + 8 - 1) \div 8) * 8
  BY DEF AbstractHeap!Extent, AbstractHeap!RoundUp, AbstractHeap!Overhead, AbstractHeap!Unit
<1> QED
  BY <1>1, <1>2

\* There is room exactly in the free blocks that are long enough.
LEMMA RoomIn ==
  ASSUME MemInv, NEW need \in Nat, 0 < need, need % 8 = 0
  PROVE  /\ \A x \in AbstractHeap!Room(need) :
              x \in Nat /\ \E b \in FreeBlocks : b <= x /\ need <= Span(mem, b)
         /\ \A b \in FreeBlocks : need <= Span(mem, b) => b \in AbstractHeap!Room(need)
<1> DEFINE F == FreeBlocks
           R == AbstractHeap!Room(need)
<1>1. R = {x \in HeapUnits : FreeExtent(TaggedIn(mem), Ends(mem), x, need)}
  BY RoomIs
<1>2. \A x \in HeapUnits : FreeExtent(TaggedIn(mem), Ends(mem), x, need)
         <=> \E b \in F : b <= x /\ x + need <= Ends(mem)[b]
  BY FreeSpan
<1>3. \A b \in F : /\ b \in HeapUnits /\ b \in Nat /\ Ends(mem)[b] \in Nat
                   /\ need <= Span(mem, b) <=> b + need <= Ends(mem)[b]
  BY BlockFacts, TakenEnds DEF MemInv
<1> HIDE DEF F, R
<1>4. ASSUME NEW x \in R PROVE x \in Nat /\ \E b \in F : b <= x /\ need <= Span(mem, b)
  <2>1. PICK b \in F : b <= x /\ x + need <= Ends(mem)[b]
    BY <1>1, <1>2
  <2>2. x \in Nat
    BY <1>1, Units
  <2>3. b + need <= Ends(mem)[b]
    BY <2>1, <2>2, <1>3
  <2> QED
    BY <2>1, <2>2, <2>3, <1>3
<1>5. ASSUME NEW b \in F, need <= Span(mem, b) PROVE b \in R
  <2>1. b <= b /\ b + need <= Ends(mem)[b]
    BY <1>3, <1>5
  <2> QED
    BY <2>1, <1>1, <1>2, <1>3
<1> QED
  BY <1>4, <1>5 DEF F, R

LEMMA FullFollows ==
  ASSUME RequestsFit, MemInv
  PROVE  RefusedOnlyIfFull
<1> SUFFICES ASSUME NEW s \in Sizes, head # NULL, Refused(s),
                    NEW x \in AbstractHeap!Room(AbstractHeap!Extent(s))
             PROVE  FALSE
  BY DEF RefusedOnlyIfFull
<1> DEFINE need == total_bytes_needed(s)
<1>1. x \in AbstractHeap!Room(need)
  BY ExtentIs
<1>2. need \in Nat /\ need % 8 = 0 /\ 0 < need
  BY Needed
<1>3. \A i \in Steps : ~fits(walk[i], i, need)
  BY ListVisits DEF Refused
<1> HIDE DEF need
<1>4. PICK b \in FreeBlocks : need <= Span(mem, b)
  BY <1>1, <1>2, RoomIn
<1>5. PICK i \in Steps : walk[i] = b
  BY ListVisits
<1>6. Whole(b) = Span(mem, b) /\ b # NULL
  BY WholeIsSpan, ListVisits
<1> QED
  BY <1>3, <1>4, <1>5, <1>6 DEF fits

LEMMA AllocImplements ==
  ASSUME ~EmptyListCalls, RequestsFit, MemInv, Alloc, TagsApart'
  PROVE  AbstractHeap!HeapNext
<1>1. head # NULL
  BY DEF Alloc
<1>2. PICK s \in Sizes, t \in Tid :
        /\ k_mem_alloc_with_tid(s, t)
        /\ request' = [op |-> "alloc", size |-> s, owner |-> t]
  BY DEF Alloc
<1> DEFINE need == total_bytes_needed(s)
           R == AbstractHeap!Room(need)
<1>3. PICK a \in FreeBlocks : /\ FirstFit(mem, FreeBlocks, need, a)
                              /\ Taken(mem, head', mem', a, need, t)
  BY <1>1, <1>2, StillApart, AllocStep
<1>4. need \in Nat /\ need % 8 = 0 /\ 0 < need
  BY Needed
<1>5. AbstractHeap!Extent(s) = need
  BY ExtentIs
<1> HIDE DEF need
<1>6. \A b \in FreeBlocks : b \in Nat /\ Span(mem, b) \in Nat
  BY BlockFacts DEF MemInv
<1>7. a \in R /\ \A x \in R : a <= x
  <2>1. a \in R
    BY <1>3, <1>4, RoomIn DEF FirstFit
  <2>2. ASSUME NEW x \in R PROVE a <= x
    <3>1. x \in Nat /\ \E b \in FreeBlocks : b <= x /\ need <= Span(mem, b)
      BY <1>4, RoomIn
    <3>2. PICK b \in FreeBlocks : b <= x /\ need <= Span(mem, b)
      BY <3>1
    <3>3. ~(b < a)
      BY <3>2, <1>3, <1>4, <1>6 DEF FirstFit
    <3> QED
      BY <3>1, <3>2, <3>3, <1>6
  <2> QED
    BY <2>1, <2>2
<1> HIDE DEF R
<1>8. R \subseteq Nat
  BY <1>4, RoomIn DEF R
<1>9. AbstractHeap!Min(R) = a
  <2>1. \A x \in R : (\A y \in R : x <= y) => x = a
    BY <1>7, <1>8
  <2> QED
    BY <2>1, <1>7 DEF AbstractHeap!Min
<1>10. HeapBlocks' = HeapBlocks \cup {[at |-> a, len |-> need, owner |-> t]}
  <2>1. HeapBlocks = InUse(mem)
    BY BlocksAre
  <2>2. HeapBlocks' = InUse(mem')
    BY <1>3, InvIsNext, BlocksAreNext DEF Taken
  <2>3. /\ TaggedIn(mem') = TaggedIn(mem) \cup {a} /\ Keeps(mem, mem', TaggedIn(mem))
        /\ mem'[a].word = MAGIC_NUM + t /\ Ends(mem')[a] = a + need
    BY <1>3 DEF Taken
  <2>4. Ends(mem')[a] - a = need /\ mem'[a].word - MAGIC_NUM = t
    BY <2>3, <1>4, <1>6, TagAssumption
  <2> QED
    BY <2>1, <2>2, <2>3, <2>4 DEF InUse, Keeps
<1>11. AbstractHeap!Alloc(s, t)
  BY <1>2, <1>5, <1>7, <1>9, <1>10 DEF AbstractHeap!Alloc, HeapBlocks, R
<1> QED
  BY <1>11 DEF AbstractHeap!HeapNext

LEMMA DeallocImplements ==
  ASSUME MemInv, Dealloc, TagsApart'
  PROVE  AbstractHeap!HeapNext
<1>1. PICK ptr \in {NULL} \cup {a + HeaderSize : a \in HeapUnits}, t \in Tid :
        /\ k_mem_dealloc_with_tid(ptr, t)
        /\ request' = [op |-> "dealloc", ptr |-> ptr, owner |-> t]
  BY DEF Dealloc
<1>2. PICK a \in TaggedIn(mem) : /\ ptr = a + HeaderSize /\ mem[a].word = MAGIC_NUM + t
                                 /\ Freed(mem, head', mem', a)
  BY <1>1, StillApart, DeallocEffect
<1>3. a \in HeapUnits /\ a \in Nat /\ ptr \in HeapStart .. HeapLimit /\ ptr = a + 8
  <2>1. a \in HeapUnits /\ a \in Nat
    BY BlockFacts DEF MemInv
  <2> QED
    BY <2>1, <1>2, Units, LayoutAssumption DEF HeaderSize
<1> DEFINE r(b) == [at |-> b, len |-> Ends(mem)[b] - b, owner |-> mem[b].word - MAGIC_NUM]
<1>4. HeapBlocks = {r(b) : b \in TaggedIn(mem)}
  BY BlocksAre DEF InUse
<1>5. HeapBlocks' = {r(b) : b \in TaggedIn(mem) \ {a}}
  <2>1. HeapBlocks' = InUse(mem')
    BY <1>2, InvIsNext, BlocksAreNext DEF Freed
  <2>2. /\ TaggedIn(mem') = TaggedIn(mem) \ {a}
        /\ \A b \in TaggedIn(mem) \ {a} : /\ Ends(mem')[b] = Ends(mem)[b]
                                          /\ mem'[b].word = mem[b].word
    BY <1>2 DEF Freed, Keeps
  <2> QED
    BY <2>1, <2>2 DEF InUse
<1>6. r(a).at + 8 = ptr /\ r(a).owner = t /\ \A b \in TaggedIn(mem) : r(b).at = b
  BY <1>2, <1>3, TagAssumption
<1> HIDE DEF r
<1>7. HeapBlocks' = HeapBlocks \ {r(a)} /\ r(a) \in HeapBlocks
  BY <1>4, <1>5, <1>6
<1>8. AbstractHeap!Dealloc(ptr, t)
  BY <1>1, <1>6, <1>7 DEF AbstractHeap!Dealloc, AbstractHeap!Overhead, HeapBlocks
<1> QED
  BY <1>3, <1>8 DEF AbstractHeap!HeapNext

-----------------------------------------------------------------------------
(* Counting the free spans.                                                *)

\* A span between blocks in use, or the ends of the heap, is free iff it is one block.
LEMMA GapIs ==
  ASSUME MemInv,
         NEW x \in {HeapStart} \cup {Ends(mem)[c] : c \in TaggedIn(mem)},
         NEW y \in {HeapLimit} \cup TaggedIn(mem), x < y
  PROVE  /\ x \in Nat /\ y - x \in Nat
         /\ FreeExtent(TaggedIn(mem), Ends(mem), x, y - x)
              <=> x \in FreeBlocks /\ y = Ends(mem)[x]
<1> DEFINE F == FreeBlocks
           T == TaggedIn(mem)
           e == Ends(mem)
<1>1. Tiles(F \cup T, e) /\ \A b \in F : b \notin T
  BY FreeUntagged DEF MemInv, Layout
<1>2. \A b \in F \cup T : /\ b \in HeapUnits /\ b \in Nat /\ b % 8 = 0 /\ HeapStart <= b
                          /\ e[b] \in Bounds /\ e[b] \in Nat /\ b < e[b] /\ e[b] <= HeapLimit
                          /\ e[b] % 8 = 0 /\ HeapStart <= e[b]
  BY BlockFacts, BoundsAre, Units DEF MemInv
<1>3. \A b \in F \cup T, c \in F \cup T : b < c => e[b] <= c
  BY <1>1 DEF Tiles
<1> HIDE DEF F, T, e
<1>4. HeapStart \in Nat /\ HeapStart % 8 = 0 /\ HeapLimit \in Nat /\ HeapLimit % 8 = 0
  BY Units, LayoutAssumption
<1>5. /\ x \in Nat /\ x % 8 = 0 /\ HeapStart <= x
      /\ x = HeapStart \/ \E c \in T : x = e[c]
  <2>1. x = HeapStart \/ \E c \in T : x = e[c]
    BY DEF T, e
  <2> QED
    BY <2>1, <1>2, <1>4
<1>6. /\ y \in Nat /\ y % 8 = 0 /\ y <= HeapLimit
      /\ y = HeapLimit \/ y \in T
  <2>1. y = HeapLimit \/ y \in T
    BY DEF T
  <2>2. \A b \in T : b <= HeapLimit
    BY <1>2, <1>4
  <2> QED
    BY <2>1, <2>2, <1>2, <1>4
<1>7. x \in HeapUnits
  <2>1. x \in Bounds /\ x < HeapLimit
    BY <1>4, <1>5, <1>6, BoundsAre
  <2> QED
    BY <2>1, BoundsAre
<1>8. y - x \in Nat /\ 0 < y - x /\ (y - x) % 8 = 0 /\ x + (y - x) = y
  BY <1>5, <1>6
<1>9. FreeExtent(T, e, x, y - x) <=> \E b \in F : b <= x /\ y <= e[b]
  <2>1. FreeExtent(T, e, x, y - x) <=> \E b \in F : b <= x /\ x + (y - x) <= e[b]
    BY <1>7, <1>8, FreeSpan DEF F, T, e
  <2> QED
    BY <2>1, <1>8
<1>10. ASSUME NEW b \in F, b <= x, y <= e[b] PROVE x = b /\ y = e[b]
  <2>1. b = x
    <3>1. CASE x = HeapStart
      BY <3>1, <1>2, <1>4, <1>10
    <3>2. ASSUME NEW c \in T, x = e[c] PROVE b = x
      <4>1. b < c \/ c < b
        BY <1>1, <1>2 DEF F, T
      <4>2. CASE b < c
        BY <4>2, <3>2, <1>2, <1>3, <1>6, <1>10
      <4>3. CASE c < b
        BY <4>3, <3>2, <1>2, <1>3, <1>10
      <4> QED
        BY <4>1, <4>2, <4>3
    <3> QED
      BY <3>1, <3>2, <1>5
  <2>2. y = e[b]
    <3>1. CASE y = HeapLimit
      BY <3>1, <1>2, <1>4, <1>10
    <3>2. CASE y \in T
      <4>1. b < y
        BY <2>1
      <4> QED
        BY <4>1, <3>2, <1>2, <1>3, <1>10
    <3> QED
      BY <3>1, <3>2, <1>6
  <2> QED
    BY <2>1, <2>2
<1>11. FreeExtent(T, e, x, y - x) <=> x \in F /\ y = e[x]
  <2>1. ASSUME x \in F, y = e[x] PROVE \E b \in F : b <= x /\ y <= e[b]
    BY <2>1, <1>5, <1>6
  <2> QED
    BY <2>1, <1>9, <1>10
<1> QED
  BY <1>5, <1>8, <1>11 DEF F, T, e

\* A free block begins where a block in use ends, or at the start of the heap, and ends
\* where one begins, or at its end.
LEMMA FreeBetween ==
  ASSUME MemInv, NEW a \in FreeBlocks
  PROVE  /\ a \in {HeapStart} \cup {Ends(mem)[c] : c \in TaggedIn(mem)}
         /\ Ends(mem)[a] \in {HeapLimit} \cup TaggedIn(mem)
<1> DEFINE F == FreeBlocks
           T == TaggedIn(mem)
           e == Ends(mem)
<1>1. Tiles(F \cup T, e) /\ \A b \in F, c \in F : e[b] # c
  BY DEF MemInv, Layout
<1>2. \A b \in F \cup T : b \in HeapUnits /\ b \in Nat /\ e[b] \in Bounds /\ e[b] \in Nat /\ b < e[b]
  BY BlockFacts DEF MemInv
<1>3. /\ \A b \in F \cup T, c \in F \cup T : b < c => e[b] <= c
      /\ \A u \in HeapUnits : \E b \in F \cup T : b <= u /\ u < e[b]
  BY <1>1 DEF Tiles
<1> HIDE DEF F, T, e
<1>4. a \in F
  BY DEF F
<1>5. a = HeapStart \/ \E c \in T : e[c] = a
  <2>1. SUFFICES ASSUME a # HeapStart PROVE \E c \in T : e[c] = a
    OBVIOUS
  <2>2. a - 8 \in HeapUnits /\ a \in Nat
    <3>1. /\ a \in Nat /\ a % 8 = 0 /\ HeapStart <= a /\ a < HeapLimit
          /\ HeapStart \in Nat /\ HeapStart \in HeapUnits /\ HeapLimit \in Nat
      BY <1>2, <1>4, Units, LayoutAssumption DEF HeapUnits
    <3>2. HeapStart + 8 <= a
      BY <3>1, <2>1, <1>2, <1>4, BoundsAre
    <3>3. a - 8 \in Int /\ (a - 8) % 8 = 0 /\ HeapStart <= a - 8 /\ a - 8 < HeapLimit
      BY <3>1, <3>2
    <3> QED
      BY <3>1, <3>3, BoundsAre
  <2>3. PICK c \in F \cup T : c <= a - 8 /\ a - 8 < e[c]
    BY <2>2, <1>3
  <2>4. c < a /\ e[c] <= a
    BY <2>2, <2>3, <1>2, <1>3, <1>4
  <2>5. e[c] = a
    <3>1. e[c] < a => e[c] + 8 <= a
      BY <1>2, <1>4, BoundsAre
    <3> QED
      BY <3>1, <2>2, <2>3, <2>4, <1>2
  <2>6. c \in T
    BY <2>5, <1>1, <1>4 DEF F, e
  <2> QED
    BY <2>5, <2>6
<1>6. e[a] = HeapLimit \/ e[a] \in T
  <2>1. SUFFICES ASSUME e[a] # HeapLimit PROVE e[a] \in T
    OBVIOUS
  <2>2. e[a] \in HeapUnits
    BY <2>1, <1>2, <1>4 DEF Bounds
  <2>3. PICK c \in F \cup T : c <= e[a] /\ e[a] < e[c]
    BY <2>2, <1>3
  <2>4. c = e[a]
    <3>1. (c < a => e[c] <= a) /\ (a < c => e[a] <= c)
      BY <1>3, <1>4
    <3> QED
      BY <3>1, <2>3, <1>2, <1>4
  <2> QED
    BY <2>4, <1>1, <1>4 DEF F, e
<1> QED
  BY <1>5, <1>6 DEF T, e

LEMMA GapsAre ==
  ASSUME MemInv
  PROVE  AbstractHeap!Gaps = {<<a, Ends(mem)[a]>> : a \in FreeBlocks}
<1> DEFINE T == TaggedIn(mem)
           e == Ends(mem)
           X == {HeapStart} \cup {e[c] : c \in T}
           Y == {HeapLimit} \cup T
           r(a) == [at |-> a, len |-> e[a] - a, owner |-> mem[a].word - MAGIC_NUM]
<1>1. HeapBlocks = {r(a) : a \in T}
  BY BlocksAre DEF InUse
<1>2. \A a \in T : r(a).at = a /\ r(a).at + r(a).len = e[a]
  <2>1. \A a \in T : a \in Nat /\ e[a] \in Nat /\ a + (e[a] - a) = e[a]
    BY BlockFacts DEF MemInv
  <2> QED
    BY <2>1
<1> HIDE DEF r
<1>3. {b.at + b.len : b \in HeapBlocks} = {e[c] : c \in T} /\ {b.at : b \in HeapBlocks} = T
  BY <1>1, <1>2
<1>4. AbstractHeap!Gaps = {g \in X \X Y :
                             g[1] < g[2] /\ AbstractHeap!Free(HeapBlocks, g[1], g[2] - g[1])}
  BY <1>3 DEF AbstractHeap!Gaps, HeapBlocks
<1>5. \A x \in X, y \in Y :
        x < y => (AbstractHeap!Free(HeapBlocks, x, y - x) <=> x \in FreeBlocks /\ y = e[x])
  BY GapIs, FreeIs
<1>6. \A a \in FreeBlocks : a \in X /\ e[a] \in Y /\ a < e[a]
  BY FreeBetween, BlockFacts DEF MemInv
<1> HIDE DEF X, Y, e, T
<1> QED
  BY <1>4, <1>5, <1>6 DEF e

LEMMA FragmentsFollow ==
  ASSUME MemInv
  PROVE  ExtFragCounts
<1> SUFFICES ASSUME NEW s \in ExtSizes
             PROVE  \E slack \in {0, 7} :
                      k_mem_count_extfrag(s) = AbstractHeap!Fragments(s, slack)
  BY DEF ExtFragCounts
<1> DEFINE F == FreeBlocks
           e == Ends(mem)
           z(a) == Span(mem, a)
           slack == IF \E a \in F : a + z(a) = RAM_END THEN 7 ELSE 0
           len(g) == g[2] - g[1] + (IF g[2] = HeapLimit THEN slack ELSE 0)
           g(a) == <<a, e[a]>>
           S == {a \in F : Whole(a) < s /\ mem[a].size > 0}
           G == {x \in AbstractHeap!Gaps : 8 < len(x) /\ len(x) < s}
<1>1. k_mem_count_extfrag(s) = Cardinality(S)
  BY DEF k_mem_count_extfrag
<1>2. AbstractHeap!Fragments(s, slack) = Cardinality(G)
  <2>1. AbstractHeap!Fragments(s, slack) = AbstractHeap!Cardinality(G)
    BY DEF AbstractHeap!Fragments, AbstractHeap!Overhead
  <2> HIDE DEF G
  <2> QED
    BY <2>1, Zenon DEF AbstractHeap!Cardinality, Cardinality
<1>3. AbstractHeap!Gaps = {g(a) : a \in F}
  BY GapsAre
<1>4. \A a \in F : /\ a \in Nat /\ z(a) \in Nat /\ mem[a].size \in Nat
                   /\ z(a) = mem[a].size + 8 /\ Whole(a) = z(a)
                   /\ a + z(a) \in Bounds \cup {RAM_END}
                   /\ e[a] = IF a + z(a) = RAM_END THEN HeapLimit ELSE a + z(a)
                   /\ a < e[a] /\ e[a] \in Nat /\ a < HeapLimit
  BY BlockFacts, WholeIsSpan DEF MemInv, HeapUnits
<1>5. HeapLimit \in Nat /\ HeapLimit + 7 = RAM_END
  BY Units
<1>6. \A a \in F, b \in F : a < b => e[a] <= b
  BY DEF MemInv, Layout, Tiles
<1> HIDE DEF F, e, z
<1>7. ASSUME NEW a \in F PROVE len(g(a)) = z(a)
  <2>1. g(a)[1] = a /\ g(a)[2] = e[a]
    OBVIOUS
  <2>2. CASE a + z(a) = RAM_END
    <3>1. slack = 7 /\ e[a] = HeapLimit
      BY <2>2, <1>4
    <3> QED
      BY <2>1, <2>2, <3>1, <1>4, <1>5
  <2>3. CASE a + z(a) # RAM_END
    <3>1. e[a] = a + z(a)
      BY <2>3, <1>4
    <3>2. ASSUME e[a] = HeapLimit PROVE slack = 0
      <4>1. ASSUME NEW b \in F, b + z(b) = RAM_END PROVE FALSE
        <5>1. e[b] = HeapLimit /\ b # a
          BY <4>1, <2>3, <1>4
        <5> QED
          BY <5>1, <3>2, <1>4, <1>5, <1>6
      <4> QED
        BY <4>1
    <3> HIDE DEF slack
    <3>3. e[a] - a + (IF e[a] = HeapLimit THEN slack ELSE 0) = z(a)
      BY <3>1, <3>2, <1>4
    <3> QED
      BY <2>1, <3>3
  <2> QED
    BY <2>2, <2>3
<1> HIDE DEF len
<1>8. S = {a \in F : 8 < z(a) /\ z(a) < s}
  BY <1>4
<1>9. G = {g(a) : a \in S}
  BY <1>3, <1>7, <1>8
<1>10. \A a \in S, b \in S : g(a) = g(b) => a = b
  OBVIOUS
<1>11. IsFiniteSet(S)
  <2>1. F \subseteq Addr
    BY Units DEF MemInv, Layout, IsChain, F
  <2>2. S \subseteq Addr
    BY <2>1
  <2> QED
    BY <2>2, AddrFinite, FS_Subset
<1> HIDE DEF S, G, g
<1>12. [a \in S |-> g(a)] \in Bijection(S, G)
  BY <1>9, <1>10 DEF Bijection, Injection, IsInjective, Surjection
<1>13. Cardinality(S) = Cardinality(G)
  BY <1>11, <1>12, FS_Bijection DEF ExistsBijection
<1> QED
  BY <1>1, <1>2, <1>13

-----------------------------------------------------------------------------
(* The theorems.                                                           *)

\* Every header the kernel reads has a size that fits a word and a second word that is
\* an address or a tag.
THEOREM TypeCorrect ==
  ASSUME ~EmptyListCalls, RequestsFit
  PROVE  ApartSpec => []MemTypeOK
<1>1. MemInv => MemTypeOK
  BY TypeFollows
<1> QED
  BY <1>1, MemInvariant, PTL

\* The free list is in address order and no two of its blocks touch.
THEOREM FreeListInOrder ==
  ASSUME ~EmptyListCalls, RequestsFit
  PROVE  ApartSpec => []FreeListOK
<1>1. MemInv => FreeListOK
  BY FreeListFollows
<1> QED
  BY <1>1, MemInvariant, PTL

\* Every unit of the heap is in exactly one block: no byte is lost and none is handed
\* out twice.
THEOREM HeapPartitioned ==
  ASSUME ~EmptyListCalls, RequestsFit
  PROVE  ApartSpec => []Partitioned
<1>1. MemInv => Partitioned
  BY PartitionFollows
<1> QED
  BY <1>1, MemInvariant, PTL

\* k_mem_alloc returns NULL only if no free span holds the request.
THEOREM RefusalsAreForced ==
  ASSUME ~EmptyListCalls, RequestsFit
  PROVE  ApartSpec => []RefusedOnlyIfFull
<1>1. MemInv => RefusedOnlyIfFull
  BY FullFollows
<1> QED
  BY <1>1, MemInvariant, PTL

\* k_mem_count_extfrag counts the spans of free memory too small for a request.
THEOREM FragmentsCounted ==
  ASSUME ~EmptyListCalls, RequestsFit
  PROVE  ApartSpec => []ExtFragCounts
<1>1. MemInv => ExtFragCounts
  BY FragmentsFollow
<1> QED
  BY <1>1, MemInvariant, PTL

\* The list with its headers implements the first-fit allocator of Heap, of which the
\* same is asked: an allocation takes what its size needs from the first span that holds
\* it, and a deallocation frees the block in use at its pointer, its caller's.
THEOREM ListImplementsHeap ==
  ASSUME ~EmptyListCalls, RequestsFit
  PROVE  ApartSpec => ImplementsHeap
<1>1. Init /\ TagsApart => AbstractHeap!HeapInit
  <2> SUFFICES ASSUME Init, TagsApart PROVE HeapBlocks = {}
    BY DEF AbstractHeap!HeapInit, HeapBlocks, Init
  <2>1. Tagged = {}
    BY InitInv, TaggedIs
  <2> QED
    BY <2>1 DEF HeapBlocks
<1>2. MemInv /\ [Next /\ TagsApart']_memVars
      => [AbstractHeap!HeapNext]_<<HeapBlocks, request>>
  <2> SUFFICES ASSUME MemInv, [Next /\ TagsApart']_memVars
               PROVE  AbstractHeap!HeapNext \/ UNCHANGED <<HeapBlocks, request>>
    OBVIOUS
  <2>1. CASE Alloc /\ TagsApart'
    BY <2>1, AllocImplements
  <2>2. CASE Dealloc /\ TagsApart'
    BY <2>2, DeallocImplements
  <2>3. CASE UNCHANGED memVars
    BY <2>3 DEF memVars, HeapBlocks, Tagged, EndOf, Whole
  <2> QED
    BY <2>1, <2>2, <2>3 DEF Next
<1> QED
  BY <1>1, <1>2, MemInvariant, PTL
     DEF ApartSpec, ApartInit, ApartNext, ImplementsHeap, AbstractHeap!HeapSpec, HeapBlocks
=============================================================================
