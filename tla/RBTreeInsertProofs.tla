-------------------------- MODULE RBTreeInsertProofs --------------------------
(***************************************************************************)
(* Proofs about the red-black tree: rotations and insertion.  The pointers *)
(* are described by the set D[n] of nodes at or below each node n, the     *)
(* colours by the number h[n] of black nodes on the ways down from n.      *)
(* Both are functions that the code does not compute; what makes a tree    *)
(* correct is said of one node and its children at a time, so that a       *)
(* rotation disturbs two nodes.                                            *)
(***************************************************************************)
EXTENDS RBTree, InductionLemmas, FiniteSetTheorems

-----------------------------------------------------------------------------
(* Loops.                                                                  *)

\* v is what f makes of x, step by step.
Unrolled(v, f, x, n) == v = [i \in 0 .. n |-> IF i = 0 THEN x ELSE f[v[i - 1]]]

LEMMA UnrolledExists ==
  ASSUME NEW f, NEW x, NEW n \in Nat
  PROVE  \E v : Unrolled(v, f, x, n)
<1> DEFINE K == {k \in 0 .. n : \E v : Unrolled(v, f, x, k)}
<1>1. 0 \in K
  <2> DEFINE v == [i \in 0 .. 0 |-> x]
  <2>1. Unrolled(v, f, x, 0)
    BY DEF Unrolled
  <2> HIDE DEF v
  <2> QED
    BY <2>1
<1>2. ASSUME NEW k \in 0 .. n, k \in K, k < n
      PROVE  k + 1 \in K
  <2>1. PICK v : Unrolled(v, f, x, k)
    BY <1>2
  <2> DEFINE w == [i \in 0 .. k + 1 |-> IF i = 0 THEN x ELSE f[v[i - 1]]]
  <2>2. \A i \in 0 .. k : w[i] = v[i]
    <3>1. SUFFICES ASSUME NEW i \in 0 .. k PROVE w[i] = v[i]
      OBVIOUS
    <3>2. v[i] = IF i = 0 THEN x ELSE f[v[i - 1]]
      BY <2>1, Zenon DEF Unrolled
    <3>3. i \in 0 .. k + 1
      OBVIOUS
    <3> QED
      BY <3>2, <3>3
  <2>3. \A i \in 1 .. k + 1 : w[i - 1] = v[i - 1]
    <3>1. \A i \in 1 .. k + 1 : i - 1 \in 0 .. k
      OBVIOUS
    <3> QED
      BY <2>2, <3>1
  <2>4. w = [i \in 0 .. k + 1 |-> IF i = 0 THEN x ELSE f[w[i - 1]]]
    <3>1. \A i \in 0 .. k + 1 : i # 0 => i \in 1 .. k + 1
      OBVIOUS
    <3>2. \A i \in 0 .. k + 1 : (IF i = 0 THEN x ELSE f[v[i - 1]])
                                  = (IF i = 0 THEN x ELSE f[w[i - 1]])
      <4> HIDE DEF w
      <4> QED
        BY <2>3, <3>1
    <3> QED
      BY <3>2, Zenon
  <2>5. Unrolled(w, f, x, k + 1)
    BY <2>4, Zenon DEF Unrolled
  <2>6. k + 1 \in 0 .. n
    BY <1>2
  <2> HIDE DEF w
  <2> QED
    BY <2>5, <2>6
<1>3. \A k \in 0 .. n : k \in K
  <2> HIDE DEF K
  <2> QED
    BY <1>1, <1>2, InductionUpTo
<1> QED
  BY <1>3

\* A loop keeps what each of its iterations keeps; J[i] is what holds after i of them.
LEMMA IteratedKeeps ==
  ASSUME NEW f, NEW x, NEW n \in Nat, NEW J, x \in J[0],
         \A i \in 0 .. n - 1 : \A y \in J[i] : f[y] \in J[i + 1]
  PROVE  Iterated(f, x, n) \in J[n]
<1> DEFINE v == CHOOSE u : u = [i \in 0 .. n |-> IF i = 0 THEN x ELSE f[u[i - 1]]]
<1>1. Iterated(f, x, n) = v[n]
  BY Zenon DEF Iterated
<1>2. v = [i \in 0 .. n |-> IF i = 0 THEN x ELSE f[v[i - 1]]]
  <2>1. PICK u : Unrolled(u, f, x, n)
    BY UnrolledExists
  <2>2. u = [i \in 0 .. n |-> IF i = 0 THEN x ELSE f[u[i - 1]]]
    BY <2>1, Zenon DEF Unrolled
  <2> QED
    BY <2>2, Zenon
<1> HIDE DEF v
<1>3. \A i \in 0 .. n : v[i] = IF i = 0 THEN x ELSE f[v[i - 1]]
  BY <1>2, Zenon
<1> DEFINE K == {i \in 0 .. n : v[i] \in J[i]}
<1>4. 0 \in K
  <2>1. 0 \in 0 .. n
    OBVIOUS
  <2>2. v[0] = x
    BY <1>3, <2>1, Zenon
  <2> QED
    BY <2>1, <2>2
<1>5. ASSUME NEW i \in 0 .. n, i \in K, i < n
      PROVE  i + 1 \in K
  <2>1. i + 1 \in 0 .. n /\ i + 1 # 0 /\ (i + 1) - 1 = i /\ i \in 0 .. n - 1
    BY <1>5
  <2>2. v[i + 1] = f[v[i]]
    BY <1>3, <2>1
  <2> QED
    BY <1>5, <2>1, <2>2
<1>6. \A i \in 0 .. n : i \in K
  <2> HIDE DEF K
  <2> QED
    BY <1>4, <1>5, InductionUpTo
<1>7. n \in K
  BY <1>6
<1> QED
  BY <1>1, <1>7

-----------------------------------------------------------------------------
(* Nodes, sides and the fields of a tree.                                  *)

LEMMA NodeFacts ==
  /\ NIL \in Nat /\ NIL \in Node /\ NIL \notin Prio
  /\ \A n \in Node : n # NIL <=> n \in Prio
  /\ Prio \subseteq Nat /\ Prio \subseteq Node
  /\ RED # BLACK /\ RED = 0 /\ BLACK = 1
BY PrioAssumption DEF NIL, Node, Prio, RED, BLACK

LEMMA SideFacts ==
  /\ "left" \in Side /\ "right" \in Side
  /\ \A a \in Side : Other(a) \in Side /\ Other(a) # a /\ Other(Other(a)) = a
  /\ \A a, b \in Side : b = a \/ b = Other(a)
BY DEF Side, Other

\* m is on side a of n.
Ahead(a, m, n) == IF a = "left" THEN m < n ELSE n < m

LEMMA AheadFacts ==
  \A a \in Side : \A m, n, k \in Prio :
     /\ ~Ahead(a, n, n)
     /\ Ahead(a, m, n) <=> Ahead(Other(a), n, m)
     /\ Ahead(a, m, n) /\ Ahead(a, n, k) => Ahead(a, m, k)
     /\ m = n \/ Ahead(a, m, n) \/ Ahead(Other(a), m, n)
     /\ ~(Ahead(a, m, n) /\ Ahead(Other(a), m, n))
BY NodeFacts DEF Side, Other, Ahead

LEMMA SmallSets ==
  /\ Iterations \in Nat /\ Iterations = NIL + 1
  /\ \A M \in SUBSET Prio : /\ IsFiniteSet(M) /\ Cardinality(M) \in Nat
                            /\ Cardinality(M) < Iterations
                            /\ \A K \in SUBSET M : /\ Cardinality(K) <= Cardinality(M)
                                                   /\ Cardinality(K) \in Nat
                                                   /\ K # M => Cardinality(K) < Cardinality(M)
<1>1. IsFiniteSet(Prio) /\ Cardinality(Prio) = NIL
  BY PrioAssumption, FS_Interval DEF Prio, NIL
<1>2. Iterations = NIL + 1
  BY <1>1, NodeFacts, FS_AddElement DEF Iterations, Node
<1>3. ASSUME NEW M \in SUBSET Prio
      PROVE  IsFiniteSet(M) /\ Cardinality(M) \in Nat /\ Cardinality(M) <= NIL
  BY <1>1, <1>3, FS_Subset, FS_CardinalityType
<1>4. ASSUME NEW M \in SUBSET Prio, NEW K \in SUBSET M
      PROVE  /\ Cardinality(K) <= Cardinality(M) /\ Cardinality(K) \in Nat
             /\ K # M => Cardinality(K) < Cardinality(M)
  <2>1. /\ IsFiniteSet(K) /\ Cardinality(K) <= Cardinality(M)
        /\ Cardinality(M) = Cardinality(K) => M = K
    BY <1>3, FS_Subset
  <2>2. Cardinality(K) \in Nat /\ Cardinality(M) \in Nat
    BY <1>3, <2>1, FS_CardinalityType
  <2> QED
    BY <2>1, <2>2
<1> QED
  BY <1>2, <1>3, <1>4, NodeFacts

LEMMA TreeFields ==
  ASSUME NEW t \in Tree
  PROVE  /\ t.root \in Node
         /\ \A n \in Node : t.colour[n] \in {RED, BLACK} /\ t.parent[n] \in Node
         /\ \A a \in Side : \A n \in Node : t.child[a][n] \in Node
BY DEF Tree

-----------------------------------------------------------------------------
(* The shape of a tree.                                                    *)

\* The child of n on side a is a node of M or none; what is below it is on that side.
ChildPlaced(t, M, D, n, a) ==
  LET c == t.child[a][n]
  IN  c \in M \cup {NIL} /\ (\A m \in D[c] : Ahead(a, m, n)) /\ (c # NIL => t.parent[c] = n)

\* The nodes M are a search tree, D[n] being those at or below n.
Shaped(t, M, D) ==
  /\ t \in Tree /\ M \subseteq Prio /\ D \in [Node -> SUBSET M]
  /\ D[NIL] = {} /\ D[t.root] = M
  /\ t.root \in M \cup {NIL}
  /\ t.root # NIL => t.parent[t.root] = NIL
  /\ \A n \in M : /\ D[n] = {n} \cup D[t.child["left"][n]] \cup D[t.child["right"][n]]
                  /\ \A a \in Side : ChildPlaced(t, M, D, n, a)

LEMMA ShapedNode ==
  ASSUME NEW t, NEW M, NEW D, Shaped(t, M, D), NEW n \in M, NEW a \in Side
  PROVE  /\ n \in Prio /\ n \in Node /\ n # NIL
         /\ n \in D[n] /\ D[n] \subseteq M
         /\ D[n] = {n} \cup D[t.child[a][n]] \cup D[t.child[Other(a)][n]]
         /\ t.child[a][n] \in M \cup {NIL} /\ t.child[a][n] \in Node
         /\ D[t.child[a][n]] \subseteq D[n] /\ n \notin D[t.child[a][n]]
         /\ \A m \in D[t.child[a][n]] : Ahead(a, m, n)
         /\ t.child[a][n] # NIL => t.parent[t.child[a][n]] = n
<1>1. n \in Prio /\ n \in Node /\ n # NIL /\ D[n] \subseteq M
  BY NodeFacts DEF Shaped
<1>2. /\ D[n] = {n} \cup D[t.child["left"][n]] \cup D[t.child["right"][n]]
      /\ t.child[a][n] \in M \cup {NIL}
      /\ \A m \in D[t.child[a][n]] : Ahead(a, m, n)
      /\ t.child[a][n] # NIL => t.parent[t.child[a][n]] = n
  BY DEF Shaped, ChildPlaced
<1>3. t.child[a][n] \in Node
  BY <1>2, NodeFacts DEF Shaped
<1>4. D[n] = {n} \cup D[t.child[a][n]] \cup D[t.child[Other(a)][n]]
  BY <1>2 DEF Side, Other
<1>5. n \notin D[t.child[a][n]]
  BY <1>1, <1>2, AheadFacts
<1> QED
  BY <1>1, <1>2, <1>3, <1>4, <1>5

\* What holds of a node if it holds of its children holds of all nodes.
LEMMA BottomUp ==
  ASSUME NEW t, NEW M, NEW D, Shaped(t, M, D), NEW S,
         \A n \in M : (\A a \in Side : t.child[a][n] # NIL => t.child[a][n] \in S) => n \in S
  PROVE  M \subseteq S
<1>1. SUFFICES ASSUME M \ S # {} PROVE FALSE
  OBVIOUS
<1> DEFINE T == {Cardinality(D[n]) : n \in M \ S}
<1>2. \A n \in M : D[n] \in SUBSET Prio /\ Cardinality(D[n]) \in Nat
  BY ShapedNode, SmallSets, SideFacts DEF Shaped
<1>3. PICK k \in T : \A j \in T : k <= j
  <2>1. T \subseteq Nat /\ T # {}
    BY <1>1, <1>2
  <2> HIDE DEF T
  <2> QED
    BY <2>1, LeastNatural
<1>4. PICK n \in M \ S : k = Cardinality(D[n])
  BY <1>3
<1>5. ASSUME NEW a \in Side, t.child[a][n] # NIL
      PROVE  t.child[a][n] \in S
  <2> DEFINE c == t.child[a][n]
  <2>1. c \in M /\ D[c] \subseteq D[n] /\ D[c] # D[n]
    BY <1>4, <1>5, ShapedNode
  <2>2. Cardinality(D[c]) < Cardinality(D[n]) /\ Cardinality(D[c]) \in Nat
    BY <1>2, <1>4, <2>1, SmallSets
  <2>3. ASSUME c \notin S
        PROVE  FALSE
    <3>1. Cardinality(D[c]) \in T
      BY <2>1, <2>3
    <3>2. k <= Cardinality(D[c]) /\ k \in Nat
      BY <1>2, <1>3, <1>4, <3>1
    <3> QED
      BY <1>4, <2>2, <3>2
  <2> QED
    BY <2>3
<1> QED
  BY <1>4, <1>5

\* Subtrees are nested, and parents lead up to the root.
LEMMA Nested ==
  ASSUME NEW t, NEW M, NEW D, Shaped(t, M, D), NEW n \in M, NEW m \in D[n]
  PROVE  /\ m \in M /\ D[m] \subseteq D[n]
         /\ m # n => /\ t.parent[m] \in D[n] /\ t.parent[m] \in M
                     /\ \E a \in Side : t.child[a][t.parent[m]] = m
<1> DEFINE up(k, j) == /\ D[j] \subseteq D[k]
                       /\ j # k => /\ t.parent[j] \in D[k]
                                   /\ \E a \in Side : t.child[a][t.parent[j]] = j
           S == {k \in M : \A j \in D[k] : up(k, j)}
<1>1. ASSUME NEW k \in M, \A a \in Side : t.child[a][k] # NIL => t.child[a][k] \in S
      PROVE  k \in S
  <2>1. SUFFICES ASSUME NEW j \in D[k], j # k PROVE up(k, j)
    BY <1>1
  <2>2. PICK a \in Side : j \in D[t.child[a][k]]
    BY <1>1, <2>1, ShapedNode, SideFacts
  <2> DEFINE c == t.child[a][k]
  <2>3. c # NIL
    BY <2>2 DEF Shaped
  <2>4. c \in M /\ t.parent[c] = k /\ D[c] \subseteq D[k] /\ k \in D[k]
    BY <1>1, <2>3, ShapedNode
  <2>5. up(c, j)
    BY <1>1, <2>2, <2>3
  <2>6. CASE j = c
    BY <2>4, <2>6
  <2>7. CASE j # c
    BY <2>4, <2>5, <2>7
  <2> QED
    BY <2>6, <2>7
<1>2. M \subseteq S
  <2> HIDE DEF S
  <2> QED
    BY <1>1, BottomUp
<1>3. up(n, m)
  BY <1>2
<1>4. D[n] \subseteq M
  BY ShapedNode, SideFacts
<1> QED
  BY <1>3, <1>4

\* A node below another is on one side of it, as everything below that node is.
LEMMA NestedSide ==
  ASSUME NEW t, NEW M, NEW D, Shaped(t, M, D), NEW n \in M, NEW m \in D[n], m # n
  PROVE  \E a \in Side : /\ t.child[a][n] \in M /\ m \in D[t.child[a][n]]
                         /\ D[m] \subseteq D[t.child[a][n]] /\ Ahead(a, m, n) /\ n \notin D[m]
<1>1. PICK a \in Side : m \in D[t.child[a][n]]
  BY ShapedNode, SideFacts
<1>2. t.child[a][n] # NIL
  BY <1>1 DEF Shaped
<1>3. t.child[a][n] \in M
  BY <1>2, ShapedNode
<1>4. D[m] \subseteq D[t.child[a][n]]
  BY <1>1, <1>3, Nested
<1>5. Ahead(a, m, n) /\ n \notin D[t.child[a][n]]
  BY <1>1, ShapedNode
<1> QED
  BY <1>1, <1>3, <1>4, <1>5

\* The parent of a node other than the root is a node, of which it is a child.
LEMMA ParentOf ==
  ASSUME NEW t, NEW M, NEW D, Shaped(t, M, D), NEW n \in M
  PROVE  /\ n # t.root => /\ t.parent[n] \in M /\ t.parent[n] # NIL /\ t.parent[n] # n
                          /\ n \in D[t.parent[n]] /\ t.parent[n] \notin D[n]
                          /\ \E a \in Side : t.child[a][t.parent[n]] = n
         /\ n = t.root => t.parent[n] = NIL
         /\ t.root \in M
<1>1. t.root \in M /\ D[t.root] = M
  <2>1. D[t.root] # {}
    BY DEF Shaped
  <2> QED
    BY <2>1 DEF Shaped
<1>2. n = t.root => t.parent[n] = NIL
  BY <1>1, NodeFacts DEF Shaped
<1>3. ASSUME n # t.root
      PROVE  /\ t.parent[n] \in M /\ t.parent[n] # NIL /\ t.parent[n] # n
             /\ n \in D[t.parent[n]] /\ t.parent[n] \notin D[n]
             /\ \E a \in Side : t.child[a][t.parent[n]] = n
  <2>1. /\ t.parent[n] \in M
        /\ \E a \in Side : t.child[a][t.parent[n]] = n
    BY <1>1, <1>3, Nested
  <2>2. PICK a \in Side : t.child[a][t.parent[n]] = n
    BY <2>1
  <2>3. /\ D[n] \subseteq D[t.parent[n]] /\ t.parent[n] \notin D[n]
    BY <2>1, <2>2, ShapedNode
  <2>4. n \in D[n] /\ t.parent[n] # NIL
    BY <2>1, ShapedNode, SideFacts
  <2> QED
    BY <2>1, <2>3, <2>4
<1> QED
  BY <1>1, <1>2, <1>3

-----------------------------------------------------------------------------
(* What the operations write.                                              *)

LEMMA SideOfSide == \A t, p, n : SideOf(t, p, n) \in Side
BY DEF SideOf, Side

LEMMA Updates ==
  ASSUME NEW t \in Tree
  PROVE  /\ \A v \in Node : LET r == [t EXCEPT !.root = v]
                            IN  /\ r \in Tree /\ r.root = v /\ r.colour = t.colour
                                /\ r.parent = t.parent /\ r.child = t.child
         /\ \A f \in [Node -> {RED, BLACK}] :
               LET r == [t EXCEPT !.colour = f]
               IN  /\ r \in Tree /\ r.root = t.root /\ r.colour = f
                   /\ r.parent = t.parent /\ r.child = t.child
         /\ \A f \in [Node -> Node] :
               LET r == [t EXCEPT !.parent = f]
               IN  /\ r \in Tree /\ r.root = t.root /\ r.colour = t.colour
                   /\ r.parent = f /\ r.child = t.child
         /\ \A f \in [Side -> [Node -> Node]] :
               LET r == [t EXCEPT !.child = f]
               IN  /\ r \in Tree /\ r.root = t.root /\ r.colour = t.colour
                   /\ r.parent = t.parent /\ r.child = f
BY DEF Tree

\* r is t with p's pointer to u pointing to v.
Relinked(r, t, p, u, v) ==
  /\ r \in Tree /\ r.colour = t.colour /\ r.parent = t.parent
  /\ p = NIL => r.root = v
  /\ p # NIL => r.root = t.root /\ r.child[SideOf(t, p, u)][p] = v
  /\ \A a \in Side : \A n \in Node :
        n = NIL \/ n # p \/ a # SideOf(t, p, u) => r.child[a][n] = t.child[a][n]

LEMMA RelinkFields ==
  ASSUME NEW t \in Tree, NEW p \in Node, NEW u \in Node, NEW v \in Node
  PROVE  Relinked(Relink(t, p, u, v), t, p, u, v)
<1> DEFINE r == Relink(t, p, u, v)
<1>1. CASE p = NIL
  <2>1. r = [t EXCEPT !.root = v]
    BY <1>1 DEF Relink
  <2>2. /\ r \in Tree /\ r.root = v /\ r.colour = t.colour
        /\ r.parent = t.parent /\ r.child = t.child
    BY <2>1, Updates
  <2> QED
    BY <1>1, <2>2 DEF Relinked
<1>2. CASE p # NIL
  <2> DEFINE b == SideOf(t, p, u)
             f == [t.child EXCEPT ![b] = [t.child[b] EXCEPT ![p] = v]]
  <2>1. r = [t EXCEPT !.child[b][p] = v] /\ b \in Side
    BY <1>2, SideOfSide DEF Relink
  <2> HIDE DEF b
  <2>2. r = [t EXCEPT !.child = f]
    BY <2>1
  <2>3. t.child \in [Side -> [Node -> Node]]
    BY DEF Tree
  <2>4. f \in [Side -> [Node -> Node]]
    BY <2>1, <2>3
  <2>5. \A a \in Side : \A n \in Node : f[a][n] = IF n = p /\ a = b THEN v ELSE t.child[a][n]
    BY <2>1, <2>3
  <2> HIDE DEF f
  <2>6. /\ r \in Tree /\ r.root = t.root /\ r.colour = t.colour
        /\ r.parent = t.parent /\ r.child = f
    BY <2>2, <2>4, Updates
  <2>7. \A a \in Side : \A n \in Node :
           r.child[a][n] = IF n = p /\ a = b THEN v ELSE t.child[a][n]
    BY <2>5, <2>6
  <2>8. r.child[b][p] = v
    BY <2>1, <2>7
  <2> QED
    BY <1>2, <2>6, <2>7, <2>8 DEF b, Relinked
<1> QED
  BY <1>1, <1>2

\* r is t with x rotated to side s below its child y, whose child z it takes.
Rotated(r, t, x, s, y, z, p) ==
  /\ r \in Tree /\ r.colour = t.colour
  /\ p = NIL => r.root = y
  /\ p # NIL => r.root = t.root
  /\ r.parent[x] = y
  /\ y # x => r.parent[y] = p
  /\ z \notin {NIL, x, y} => r.parent[z] = x
  /\ \A n \in Node \ {x, y} : n # z \/ n = NIL => r.parent[n] = t.parent[n]
  /\ r.child[s][y] = x
  /\ y # x => r.child[Other(s)][x] = z
  /\ \A a \in Side : \A n \in Node :
        \/ n = y /\ a = s
        \/ n = x /\ a = Other(s)
        \/ IF n = p /\ n # NIL /\ a = SideOf(t, n, x)
           THEN r.child[a][n] = y ELSE r.child[a][n] = t.child[a][n]

LEMMA RotateFields ==
  ASSUME NEW t \in Tree, NEW x \in Node, NEW s \in Side,
         NEW y, y = t.child[Other(s)][x]
  PROVE  Rotated(rb_rotate(t, x, s), t, x, s, y, t.child[s][y], t.parent[x])
<1> DEFINE r == rb_rotate(t, x, s)
           p == t.parent[x]
           z == t.child[s][y]
           q == Relink(t, p, x, y)
           o == Other(s)
           f == [q.child EXCEPT ![o][x] = z, ![s][y] = x]
           g == [t.parent EXCEPT ![z] = IF z = NIL THEN t.parent[z] ELSE x, ![y] = p, ![x] = y]
<1>1. p \in Node /\ y \in Node /\ z \in Node /\ o \in Side
  BY TreeFields, SideFacts
<1>2. /\ q \in Tree /\ q.colour = t.colour
      /\ p = NIL => q.root = y
      /\ p # NIL => q.root = t.root /\ q.child[SideOf(t, p, x)][p] = y
      /\ \A a \in Side : \A n \in Node :
            n = NIL \/ n # p \/ a # SideOf(t, p, x) => q.child[a][n] = t.child[a][n]
  <2>1. Relinked(q, t, p, x, y)
    BY <1>1, RelinkFields
  <2> HIDE DEF p, q
  <2> QED
    BY <2>1 DEF Relinked
<1>3. r = [q EXCEPT !.child = f, !.parent = g]
  BY DEF rb_rotate
<1> HIDE DEF p, z, q, o
<1>4. /\ t.parent \in [Node -> Node]
      /\ q.child \in [Side -> [Node -> Node]]
  BY <1>2 DEF Tree
<1>5. /\ g \in [Node -> Node]
      /\ \A n \in Node :
            g[n] = IF n = x THEN y ELSE IF n = y THEN p
                   ELSE IF n = z /\ n # NIL THEN x ELSE t.parent[n]
  BY <1>1, <1>4
<1>6. /\ f \in [Side -> [Node -> Node]]
      /\ \A a \in Side : \A n \in Node :
            f[a][n] = IF n = y /\ a = s THEN x
                      ELSE IF n = x /\ a = o THEN z ELSE q.child[a][n]
  BY <1>1, <1>4
<1> HIDE DEF f, g
<1>7. /\ r \in Tree /\ r.colour = q.colour /\ r.root = q.root
      /\ r.parent = g /\ r.child = f
  <2> DEFINE e == [q EXCEPT !.child = f]
  <2>1. e \in Tree /\ e.root = q.root /\ e.colour = q.colour /\ e.child = f
    BY <1>2, <1>6, Updates
  <2>2. r = [e EXCEPT !.parent = g]
    BY <1>3
  <2> HIDE DEF e
  <2> QED
    BY <1>5, <2>1, <2>2, Updates
<1> QED
  <2>1. \A a \in Side : \A n \in Node :
           \/ n = y /\ a = s
           \/ n = x /\ a = o
           \/ IF n = p /\ n # NIL /\ a = SideOf(t, n, x)
              THEN r.child[a][n] = y ELSE r.child[a][n] = t.child[a][n]
    BY <1>1, <1>2, <1>6, <1>7
  <2>2. /\ r.child[s][y] = x
        /\ y # x => r.child[o][x] = z
    BY <1>1, <1>6, <1>7
  <2>3. /\ r.parent[x] = y
        /\ y # x => r.parent[y] = p
        /\ z \notin {NIL, x, y} => r.parent[z] = x
        /\ \A n \in Node \ {x, y} : n # z \/ n = NIL => r.parent[n] = t.parent[n]
    BY <1>1, <1>5, <1>7
  <2> QED
    BY <1>2, <1>7, <2>1, <2>2, <2>3 DEF p, z, o, Rotated

-----------------------------------------------------------------------------
(* Rotations.                                                              *)

LEMMA ChildSide ==
  ASSUME NEW t, NEW M, NEW D, Shaped(t, M, D), NEW n \in M, NEW a \in Side,
         t.child[a][n] # NIL
  PROVE  /\ SideOf(t, n, t.child[a][n]) = a
         /\ t.child[Other(a)][n] # t.child[a][n]
         /\ t.child[a][n] \in M /\ t.child[a][n] # n
<1> DEFINE c == t.child[a][n]
           d == t.child[Other(a)][n]
<1>1. c \in M /\ (\A m \in D[c] : Ahead(a, m, n)) /\ \A m \in D[d] : Ahead(Other(a), m, n)
  BY ShapedNode, SideFacts
<1>2. c \in D[c] /\ c \in Prio /\ n \in Prio
  BY <1>1, ShapedNode, SideFacts
<1>3. c # d /\ c # n
  BY <1>1, <1>2, AheadFacts, SideFacts
<1>4. SideOf(t, n, c) = a
  BY <1>3 DEF SideOf, Side, Other
<1> QED
  BY <1>1, <1>3, <1>4

\* A node is all there is below it and between its children.
LEMMA NodeShaped ==
  ASSUME NEW t, NEW M, NEW D, NEW n, NEW a \in Side,
         D[n] = {n} \cup D[t.child[a][n]] \cup D[t.child[Other(a)][n]],
         ChildPlaced(t, M, D, n, a), ChildPlaced(t, M, D, n, Other(a))
  PROVE  /\ D[n] = {n} \cup D[t.child["left"][n]] \cup D[t.child["right"][n]]
         /\ \A b \in Side : ChildPlaced(t, M, D, n, b)
<1>1. \A b \in Side : b = a \/ b = Other(a)
  BY SideFacts
<1>2. D[n] = {n} \cup D[t.child["left"][n]] \cup D[t.child["right"][n]]
  BY DEF Side, Other
<1> QED
  BY <1>1, <1>2

\* The subtrees after x has been rotated to side s below y.
Turned(t, D, x, s, y) ==
  [D EXCEPT ![y] = D[x], ![x] = {x} \cup D[t.child[s][x]] \cup D[t.child[s][y]]]

\* Who is who around a node x with a child y on the side away from s.
Around(t, M, D, x, s, y) ==
  LET p == t.parent[x]
      o == Other(s)
      z == t.child[s][y]
      c == t.child[s][x]
      d == t.child[o][y]
  IN  /\ y \in M /\ t.parent[y] = x /\ y # x /\ c # y /\ y \in D[y]
      /\ x = t.root <=> p = NIL
      /\ p # NIL => /\ p \in M /\ p # x /\ p # y
                    /\ t.child[SideOf(t, p, x)][p] = x
                    /\ t.child[Other(SideOf(t, p, x))][p] \notin {x, y}
      /\ t.root \in M
      /\ D[x] = {x} \cup D[c] \cup D[y] /\ D[y] = {y} \cup D[z] \cup D[d]
      /\ c \in M \cup {NIL} /\ z \in M \cup {NIL} /\ d \in M \cup {NIL}
      /\ c \notin {x, y} /\ z \notin {x, y} /\ d \notin {x, y}
      /\ c # NIL => t.parent[c] = x
      /\ z # NIL => t.parent[z] = y
      /\ d # NIL => t.parent[d] = y
      /\ z # NIL => z # d
      /\ M \subseteq Prio /\ D \in [Node -> SUBSET M] /\ D[NIL] = {} /\ D[t.root] = M
      /\ x \in Node /\ y \in Node /\ x # NIL /\ y # NIL /\ \A n \in M : n \in Node /\ n # NIL

LEMMA AroundNode ==
  ASSUME NEW t, NEW M, NEW D, Shaped(t, M, D), NEW x \in M, NEW s \in Side,
         NEW y, y = t.child[Other(s)][x], y # NIL
  PROVE  Around(t, M, D, x, s, y)
<1> DEFINE p == t.parent[x]
           o == Other(s)
           z == t.child[s][y]
           c == t.child[s][x]
           d == t.child[o][y]
<1>1. o \in Side /\ o # s /\ Other(o) = s
  BY SideFacts
<1>3. y \in M /\ t.parent[y] = x /\ y # x /\ c # y /\ y \in D[y]
  BY <1>1, ShapedNode, ChildSide
<1>5. /\ x = t.root <=> p = NIL
      /\ p # NIL => /\ p \in M /\ p # x /\ p # y
                    /\ t.child[SideOf(t, p, x)][p] = x
                    /\ t.child[Other(SideOf(t, p, x))][p] \notin {x, y}
      /\ t.root \in M
  <2>1. t.root \in M /\ (x = t.root => p = NIL)
    BY ParentOf
  <2>2. ASSUME x # t.root
        PROVE  p # NIL /\ p \in M /\ p # x /\ p # y /\ \E a \in Side : t.child[a][p] = x
    <3>1. /\ p \in M /\ p # NIL /\ p # x /\ p \notin D[x]
          /\ \E a \in Side : t.child[a][p] = x
      BY <2>2, ParentOf
    <3>2. D[y] \subseteq D[x]
      BY <1>1, ShapedNode
    <3> QED
      BY <1>3, <3>1, <3>2
  <2>3. ASSUME NEW a \in Side, p \in M, t.child[a][p] = x
        PROVE  /\ SideOf(t, p, x) = a /\ t.child[Other(a)][p] # x
    <3>1. x # NIL
      BY ShapedNode, SideFacts
    <3> QED
      BY <2>3, <3>1, ChildSide
  <2>4. ASSUME NEW a \in Side, p \in M, t.child[a][p] = y, p # x
        PROVE  FALSE
    BY <1>3, <2>4, ShapedNode
  <2> QED
    BY <2>1, <2>2, <2>3, <2>4, SideFacts
<1>6. /\ D[x] = {x} \cup D[c] \cup D[y] /\ D[y] = {y} \cup D[z] \cup D[d]
      /\ c \in M \cup {NIL} /\ z \in M \cup {NIL} /\ d \in M \cup {NIL}
      /\ c \notin {x, y} /\ z \notin {x, y} /\ d \notin {x, y}
      /\ c # NIL => t.parent[c] = x
      /\ z # NIL => t.parent[z] = y
      /\ d # NIL => t.parent[d] = y
      /\ z # NIL => z # d
  <2>1. /\ D[x] = {x} \cup D[c] \cup D[y]
        /\ c \in M \cup {NIL} /\ (c # NIL => t.parent[c] = x) /\ c # x
    BY <1>1, ShapedNode, ChildSide
  <2>2. /\ D[y] = {y} \cup D[z] \cup D[d]
        /\ z \in M \cup {NIL} /\ (z # NIL => t.parent[z] = y) /\ z # y
        /\ z # NIL => z # d
    BY <1>1, <1>3, ShapedNode, ChildSide
  <2>3. d \in M \cup {NIL} /\ (d # NIL => t.parent[d] = y) /\ d # y
    BY <1>1, <1>3, ShapedNode, ChildSide
  <2>4. x \notin D[y]
    BY <1>1, ShapedNode
  <2>5. z # x /\ d # x
    <3>1. \A m \in M : m \in D[m]
      BY ShapedNode, SideFacts
    <3> QED
      BY <2>2, <2>4, <3>1
  <2> QED
    BY <1>3, <2>1, <2>2, <2>3, <2>5
<1>7. /\ M \subseteq Prio /\ D \in [Node -> SUBSET M] /\ D[NIL] = {} /\ D[t.root] = M
      /\ x \in Node /\ y \in Node /\ x # NIL /\ y # NIL /\ \A n \in M : n \in Node /\ n # NIL
  BY <1>3, ShapedNode, SideFacts DEF Shaped
<1> QED
  BY <1>3, <1>5, <1>6, <1>7 DEF Around

\* r is t with x rotated to side s below y, as far as the nodes of the tree see it.
RotatedIn(r, t, M, x, s, y) ==
  LET p == t.parent[x]
      o == Other(s)
      z == t.child[s][y]
      c == t.child[s][x]
      d == t.child[o][y]
  IN  /\ r \in Tree /\ r.colour = t.colour
      /\ p = NIL => r.root = y
      /\ p # NIL => r.root = t.root
      /\ \A n \in Node \ {x, y, z} : r.parent[n] = t.parent[n]
      /\ r.parent[x] = y /\ r.parent[y] = p
      /\ z # NIL => r.parent[z] = x
      /\ r.parent[NIL] = t.parent[NIL]
      /\ r.child[s][y] = x /\ r.child[o][x] = z
      /\ r.child[o][y] = d /\ r.child[s][x] = c
      /\ \A n \in M \ {x, y, p} : \A a \in Side : r.child[a][n] = t.child[a][n]
      /\ p # NIL => /\ r.child[SideOf(t, p, x)][p] = y
                    /\ \A a \in Side : a # SideOf(t, p, x) => r.child[a][p] = t.child[a][p]

LEMMA RotatePointers ==
  ASSUME NEW t, NEW M, NEW D, Shaped(t, M, D), NEW x \in M, NEW s \in Side,
         NEW y, y = t.child[Other(s)][x], y # NIL
  PROVE  RotatedIn(rb_rotate(t, x, s), t, M, x, s, y)
<1> DEFINE r == rb_rotate(t, x, s)
           p == t.parent[x]
           o == Other(s)
           z == t.child[s][y]
           c == t.child[s][x]
           d == t.child[o][y]
<1>1. o \in Side /\ o # s /\ Other(o) = s
  BY SideFacts
<1>2. t \in Tree /\ x \in Node
  BY ShapedNode, SideFacts DEF Shaped
<1>3. Around(t, M, D, x, s, y)
  BY AroundNode
<1>4. Rotated(r, t, x, s, y, z, p)
  BY <1>2, RotateFields
<1> HIDE DEF r
<1>9. /\ \A n \in Node \ {x, y, z} : r.parent[n] = t.parent[n]
      /\ r.parent[x] = y /\ r.parent[y] = p
      /\ z # NIL => r.parent[z] = x
      /\ r.parent[NIL] = t.parent[NIL]
  BY <1>3, <1>4, NodeFacts, Zenon DEF Rotated, Around
<1>10. /\ r.child[s][y] = x /\ r.child[o][x] = z
       /\ r.child[o][y] = d /\ r.child[s][x] = c
       /\ \A n \in M \ {x, y, p} : \A a \in Side : r.child[a][n] = t.child[a][n]
       /\ p # NIL => /\ r.child[SideOf(t, p, x)][p] = y
                     /\ \A a \in Side : a # SideOf(t, p, x) => r.child[a][p] = t.child[a][p]
  <2>1. /\ x \in Node /\ y \in Node /\ y # x /\ p # x /\ p # y /\ x # NIL /\ y # NIL
        /\ p # NIL => p \in Node
        /\ \A n \in M : n \in Node /\ n # NIL
    BY <1>3 DEF Around
  <2>2. r.child[s][y] = x /\ r.child[o][x] = z
    BY <1>4, <2>1 DEF Rotated
  <2>3. \A a \in Side : \A n \in Node :
           \/ n = y /\ a = s
           \/ n = x /\ a = o
           \/ IF n = p /\ n # NIL /\ a = SideOf(t, n, x)
              THEN r.child[a][n] = y ELSE r.child[a][n] = t.child[a][n]
    BY <1>4 DEF Rotated
  <2>4. r.child[o][y] = d /\ r.child[s][x] = c
    BY <1>1, <2>1, <2>3
  <2>5. \A n \in M \ {x, y, p} : \A a \in Side : r.child[a][n] = t.child[a][n]
    BY <2>1, <2>3
  <2>6. p # NIL => /\ r.child[SideOf(t, p, x)][p] = y
                   /\ \A a \in Side : a # SideOf(t, p, x) => r.child[a][p] = t.child[a][p]
    BY <2>1, <2>3, SideOfSide
  <2> QED
    BY <2>2, <2>4, <2>5, <2>6
<1>11. /\ r \in Tree /\ r.colour = t.colour
       /\ p = NIL => r.root = y
       /\ p # NIL => r.root = t.root
  BY <1>4 DEF Rotated
<1> QED
  BY <1>9, <1>10, <1>11 DEF RotatedIn, r

LEMMA RotateShaped ==
  ASSUME NEW t, NEW M, NEW D, Shaped(t, M, D), NEW x \in M, NEW s \in Side,
         NEW y, y = t.child[Other(s)][x], y # NIL
  PROVE  Shaped(rb_rotate(t, x, s), M, Turned(t, D, x, s, y))
<1> DEFINE r == rb_rotate(t, x, s)
           E == Turned(t, D, x, s, y)
           p == t.parent[x]
           o == Other(s)
           z == t.child[s][y]
           c == t.child[s][x]
           d == t.child[o][y]
<1>1. o \in Side /\ o # s /\ Other(o) = s
  BY SideFacts
<1>2. Around(t, M, D, x, s, y) /\ RotatedIn(r, t, M, x, s, y)
  BY AroundNode, RotatePointers
<1>3. y \in M /\ t.parent[y] = x /\ y # x /\ c # y /\ y \in D[y]
  BY <1>2 DEF Around
<1>5. /\ x = t.root <=> p = NIL
      /\ p # NIL => /\ p \in M /\ p # x /\ p # y
                    /\ t.child[SideOf(t, p, x)][p] = x
                    /\ t.child[Other(SideOf(t, p, x))][p] \notin {x, y}
      /\ t.root \in M
  BY <1>2 DEF Around
<1>6. /\ D[x] = {x} \cup D[c] \cup D[y] /\ D[y] = {y} \cup D[z] \cup D[d]
      /\ c \in M \cup {NIL} /\ z \in M \cup {NIL} /\ d \in M \cup {NIL}
      /\ c \notin {x, y} /\ z \notin {x, y} /\ d \notin {x, y}
      /\ c # NIL => t.parent[c] = x
      /\ z # NIL => t.parent[z] = y
      /\ d # NIL => t.parent[d] = y
      /\ z # NIL => z # d
  BY <1>2 DEF Around
<1>7. /\ M \subseteq Prio /\ D \in [Node -> SUBSET M] /\ D[NIL] = {} /\ D[t.root] = M
      /\ x \in Node /\ y \in Node /\ x # NIL /\ y # NIL /\ \A n \in M : n \in Node /\ n # NIL
  BY <1>2 DEF Around
<1>8. /\ E \in [Node -> SUBSET M]
      /\ E[y] = D[x] /\ E[x] = {x} \cup D[c] \cup D[z]
      /\ \A n \in Node \ {x, y} : E[n] = D[n]
  BY <1>3, <1>6, <1>7, Zenon DEF Turned
<1> HIDE DEF r, E
<1>9. /\ \A n \in Node \ {x, y, z} : r.parent[n] = t.parent[n]
      /\ r.parent[x] = y /\ r.parent[y] = p
      /\ z # NIL => r.parent[z] = x
  BY <1>2 DEF RotatedIn
<1>10. /\ r.child[s][y] = x /\ r.child[o][x] = z
       /\ r.child[o][y] = d /\ r.child[s][x] = c
       /\ \A n \in M \ {x, y, p} : \A a \in Side : r.child[a][n] = t.child[a][n]
       /\ p # NIL => /\ r.child[SideOf(t, p, x)][p] = y
                     /\ \A a \in Side : a # SideOf(t, p, x) => r.child[a][p] = t.child[a][p]
  BY <1>2 DEF RotatedIn
<1>4. /\ r \in Tree
      /\ p = NIL => r.root = y
      /\ p # NIL => r.root = t.root
  BY <1>2 DEF RotatedIn
<1> DEFINE kept(e, n) == /\ e \in M \cup {NIL} /\ E[e] = D[e]
                         /\ e # NIL => r.parent[e] = n
<1>20. kept(c, x) /\ kept(z, x) /\ kept(d, y)
  <2>1. c \in Node /\ z \in Node /\ d \in Node
    BY <1>6, <1>7, NodeFacts
  <2>2. E[c] = D[c] /\ E[z] = D[z] /\ E[d] = D[d]
    <3>1. c \in Node \ {x, y} /\ z \in Node \ {x, y} /\ d \in Node \ {x, y}
      BY <1>6, <2>1
    <3> QED
      BY <1>8, <3>1
  <2>3. (c # NIL => c # z) /\ (d # NIL => d # z)
    BY <1>3, <1>6
  <2>4. (c # NIL => r.parent[c] = x) /\ (z # NIL => r.parent[z] = x)
    BY <1>6, <1>9, <2>1, <2>3
  <2>5. d # NIL => r.parent[d] = y
    BY <1>6, <1>9, <2>1, <2>3
  <2> QED
    BY <1>6, <2>2, <2>4, <2>5
<1>11. \A n \in M : \A a \in Side : ChildPlaced(t, M, D, n, a)
  BY DEF Shaped
<1>12. ASSUME NEW n \in M
       PROVE  /\ E[n] = {n} \cup E[r.child["left"][n]] \cup E[r.child["right"][n]]
              /\ \A a \in Side : ChildPlaced(r, M, E, n, a)
  <2>1. CASE n = x
    <3>1. ChildPlaced(r, M, E, x, s)
      <4>1. \A m \in D[c] : Ahead(s, m, x)
        BY <1>11 DEF ChildPlaced
      <4> QED
        BY <1>10, <1>20, <4>1 DEF ChildPlaced
    <3>2. ChildPlaced(r, M, E, x, o)
      <4>1. \A m \in D[y] : Ahead(o, m, x)
        BY <1>1, <1>11 DEF ChildPlaced
      <4>2. \A m \in D[z] : Ahead(o, m, x)
        BY <1>6, <4>1
      <4> QED
        BY <1>10, <1>20, <4>2 DEF ChildPlaced
    <3>3. E[x] = {x} \cup E[r.child[s][x]] \cup E[r.child[o][x]]
      BY <1>8, <1>10, <1>20
    <3>4. /\ E[x] = {x} \cup E[r.child["left"][x]] \cup E[r.child["right"][x]]
          /\ \A b \in Side : ChildPlaced(r, M, E, x, b)
      <4> HIDE DEF kept, p, z, c, d
      <4> QED
        BY <3>1, <3>2, <3>3, NodeShaped
    <3> QED
      BY <2>1, <3>4
  <2>2. CASE n = y
    <3>1. ChildPlaced(r, M, E, y, s)
      <4>1. Ahead(s, x, y)
        BY <1>1, <1>3, <1>7, <1>11, AheadFacts DEF ChildPlaced
      <4>2. \A m \in D[c] : Ahead(s, m, x)
        BY <1>11 DEF ChildPlaced
      <4>3. \A m \in D[c] : Ahead(s, m, y)
        <5>1. ASSUME NEW m \in D[c]
              PROVE  Ahead(s, m, y)
          <6>1. c \in Node
            BY <1>6, <1>7, NodeFacts
          <6>2. m \in Prio /\ x \in Prio /\ y \in Prio
            BY <1>3, <1>7, <6>1
          <6>3. Ahead(s, m, x)
            BY <4>2
          <6> QED
            BY <4>1, <6>2, <6>3, AheadFacts
        <5> QED
          BY <5>1
      <4>4. \A m \in D[z] : Ahead(s, m, y)
        BY <1>3, <1>11 DEF ChildPlaced
      <4> QED
        BY <1>7, <1>8, <1>9, <1>10, <4>1, <4>3, <4>4 DEF ChildPlaced
    <3>2. ChildPlaced(r, M, E, y, o)
      <4>1. \A m \in D[d] : Ahead(o, m, y)
        BY <1>1, <1>3, <1>11 DEF ChildPlaced
      <4> QED
        BY <1>10, <1>20, <4>1 DEF ChildPlaced
    <3>3. E[y] = {y} \cup E[r.child[s][y]] \cup E[r.child[o][y]]
      <4>1. E[y] = {y} \cup E[x] \cup D[d]
        <5> HIDE DEF c, z, d
        <5> QED
          BY <1>6, <1>8
      <4> QED
        BY <1>10, <1>20, <4>1
    <3>4. /\ E[y] = {y} \cup E[r.child["left"][y]] \cup E[r.child["right"][y]]
          /\ \A b \in Side : ChildPlaced(r, M, E, y, b)
      <4> HIDE DEF kept, p, z, c, d
      <4> QED
        BY <3>1, <3>2, <3>3, NodeShaped
    <3> QED
      BY <2>2, <3>4
  <2>3. CASE n = p
    <3> DEFINE a == SideOf(t, p, x)
               e == t.child[Other(a)][p]
    <3>1. p # NIL /\ p \in M /\ a \in Side /\ Other(a) \in Side /\ Other(a) # a
      <4>1. p # NIL /\ p \in M
        BY <1>7, <2>3
      <4>2. a \in Side
        BY SideOfSide
      <4> HIDE DEF a
      <4> QED
        BY <4>1, <4>2, SideFacts
    <3>2. r.child[a][p] = y /\ r.child[Other(a)][p] = e /\ t.child[a][p] = x
      BY <1>5, <1>10, <3>1
    <3>3. /\ e \in M \cup {NIL} /\ e \notin {x, y} /\ e \in Node
          /\ e # NIL => t.parent[e] = p
      BY <1>5, <1>7, <1>11, <3>1, ShapedNode DEF ChildPlaced
    <3>4. ChildPlaced(r, M, E, p, a)
      BY <1>3, <1>7, <1>8, <1>9, <1>11, <3>1, <3>2 DEF ChildPlaced
    <3>5. e # NIL => e # z
      BY <1>5, <1>6, <3>1, <3>3
    <3>6. ChildPlaced(r, M, E, p, Other(a))
      <4>1. \A m \in E[e] : Ahead(Other(a), m, p)
        BY <1>8, <1>11, <3>1, <3>3 DEF ChildPlaced
      <4>2. e # NIL => r.parent[e] = p
        BY <1>9, <3>3, <3>5
      <4> QED
        BY <3>2, <3>3, <4>1, <4>2 DEF ChildPlaced
    <3>7. E[p] = {p} \cup E[r.child[a][p]] \cup E[r.child[Other(a)][p]]
      <4>1. D[p] = {p} \cup D[x] \cup D[e]
        <5> HIDE DEF a
        <5> QED
          BY <3>1, <3>2, ShapedNode
      <4> QED
        BY <1>5, <1>7, <1>8, <3>1, <3>2, <3>3, <4>1
    <3>8. /\ E[p] = {p} \cup E[r.child["left"][p]] \cup E[r.child["right"][p]]
          /\ \A b \in Side : ChildPlaced(r, M, E, p, b)
      BY <3>1, <3>4, <3>6, <3>7, NodeShaped
    <3> QED
      BY <2>3, <3>8
  <2>4. CASE n \notin {x, y, p}
    <3>1. ASSUME NEW a \in Side
          PROVE  /\ r.child[a][n] = t.child[a][n]
                 /\ E[r.child[a][n]] = D[t.child[a][n]]
                 /\ ChildPlaced(r, M, E, n, a)
      <4> DEFINE e == t.child[a][n]
      <4>1. r.child[a][n] = e
        BY <1>10, <2>4
      <4>2. e \in M \cup {NIL} /\ (e # NIL => t.parent[e] = n) /\ \A m \in D[e] : Ahead(a, m, n)
        BY <1>11 DEF ChildPlaced
      <4>3. e \notin {x, y} /\ (e # NIL => e # z)
        BY <1>3, <1>6, <1>7, <2>4, <4>2
      <4>4. E[e] = D[e] /\ (e # NIL => r.parent[e] = n)
        BY <1>7, <1>8, <1>9, <4>2, <4>3, NodeFacts
      <4> QED
        BY <4>1, <4>2, <4>4 DEF ChildPlaced
    <3>2. E[n] = D[n]
      BY <1>7, <1>8, <2>4
    <3> QED
      BY <3>1, <3>2, SideFacts, ShapedNode DEF Shaped
  <2> QED
    BY <2>1, <2>2, <2>3, <2>4
<1>13. /\ r \in Tree /\ r.root \in M \cup {NIL} /\ E[r.root] = M /\ E[NIL] = {}
       /\ r.root # NIL => r.parent[r.root] = NIL
  <2>1. r \in Tree /\ E[NIL] = {}
    BY <1>4, <1>7, <1>8, NodeFacts
  <2>2. CASE p = NIL
    BY <1>3, <1>4, <1>5, <1>7, <1>8, <1>9, <2>1, <2>2
  <2>3. CASE p # NIL
    <3>1. r.root = t.root /\ t.root # x
      BY <1>4, <1>5, <2>3
    <3>2. t.parent[t.root] = NIL
      BY <1>5, ParentOf
    <3>3. t.root # y /\ t.root # z /\ t.root \in Node
      BY <1>3, <1>5, <1>6, <1>7, <3>2
    <3> QED
      BY <1>5, <1>7, <1>8, <1>9, <2>1, <3>1, <3>2, <3>3
  <2> QED
    BY <2>2, <2>3, <2>1
<1> QED
  BY <1>7, <1>8, <1>12, <1>13 DEF Shaped, r, E

\* Elsewhere y takes x's place, and nothing else changes.
LEMMA RotatedElsewhere ==
  ASSUME NEW t, NEW M, NEW D, Shaped(t, M, D), NEW x \in M, NEW s \in Side,
         NEW y, y = t.child[Other(s)][x], y # NIL,
         NEW r, RotatedIn(r, t, M, x, s, y), NEW n \in M, n \notin {x, y}, NEW a \in Side
  PROVE  \/ t.child[a][n] = x /\ r.child[a][n] = y
         \/ t.child[a][n] \notin {x, y} /\ r.child[a][n] = t.child[a][n]
<1> DEFINE p == t.parent[x]
<1>1. Around(t, M, D, x, s, y)
  BY AroundNode
<1>2. n # NIL /\ x # NIL /\ y # NIL /\ t.parent[y] = x
  BY <1>1 DEF Around
<1>3. CASE n = p
  <2>1. /\ t.child[SideOf(t, p, x)][p] = x
        /\ t.child[Other(SideOf(t, p, x))][p] \notin {x, y}
    BY <1>1, <1>2, <1>3 DEF Around
  <2>2. /\ r.child[SideOf(t, p, x)][p] = y
        /\ a # SideOf(t, p, x) => r.child[a][p] = t.child[a][p]
    BY <1>2, <1>3 DEF RotatedIn
  <2>3. a = SideOf(t, p, x) \/ a = Other(SideOf(t, p, x))
    BY SideFacts, SideOfSide
  <2> HIDE DEF p
  <2> QED
    BY <1>3, <2>1, <2>2, <2>3, SideFacts, SideOfSide
<1>4. CASE n # p
  <2>1. r.child[a][n] = t.child[a][n]
    BY <1>4 DEF RotatedIn
  <2>2. t.child[a][n] # NIL => t.parent[t.child[a][n]] = n
    BY ShapedNode
  <2> QED
    BY <1>2, <1>4, <2>1, <2>2
<1> QED
  BY <1>3, <1>4

-----------------------------------------------------------------------------
(* Colours.                                                                *)

\* Only colours tell u from t.
SamePointers(u, t) == /\ u \in Tree /\ u.root = t.root
                      /\ u.parent = t.parent /\ u.child = t.child

\* Only colours and nodes outside M tell u from t.
SameIn(u, t, M) == /\ u \in Tree /\ u.root = t.root
                   /\ \A n \in M : /\ u.parent[n] = t.parent[n]
                                    /\ \A a \in Side : u.child[a][n] = t.child[a][n]

LEMMA SameShaped ==
  ASSUME NEW t, NEW M, NEW D, Shaped(t, M, D), NEW u, SameIn(u, t, M)
  PROVE  Shaped(u, M, D)
BY SideFacts DEF Shaped, ChildPlaced, SameIn

LEMMA PaintShaped ==
  ASSUME NEW t, NEW M, NEW D, Shaped(t, M, D), NEW u, SamePointers(u, t)
  PROVE  Shaped(u, M, D)
BY SameShaped DEF SameIn, SamePointers

\* h counts the black nodes on the ways down.  On side s of p there is one too few; if p
\* is NIL there is none too few anywhere.
Heights(t, M, h, p, s) ==
  /\ h \in [Node -> Nat] /\ h[NIL] = 0 /\ t.colour[NIL] = BLACK
  /\ \A n \in M : \A a \in Side :
        /\ ~(n = p /\ a = s) => h[n] = h[t.child[a][n]] + t.colour[n]
        /\ n = p /\ a = s => h[n] = h[t.child[a][n]] + t.colour[n] + 1

\* A red node has black children and the root is black; of z neither is known.
RedsApart(t, M, z) ==
  /\ t.root # z => t.colour[t.root] = BLACK
  /\ \A n \in M \ {z} : \A a \in Side :
        t.child[a][n] # z => t.colour[n] = BLACK \/ t.colour[t.child[a][n]] = BLACK

\* A red child that is rotated into its parent's place takes its colour and leaves it red:
\* no way down gains or loses a black node.
LEMMA RotateHeights ==
  ASSUME NEW t, NEW M, NEW D, Shaped(t, M, D), NEW x \in M, NEW s \in Side,
         NEW y, y = t.child[Other(s)][x], y # NIL, t.colour[y] = RED,
         NEW h, NEW q, NEW b \in Side, Heights(t, M, h, q, b),
         q \notin {x, y} \/ (q = x /\ b = s),
         NEW u, SamePointers(u, t), u.colour[y] = t.colour[x], u.colour[x] = RED,
         \A n \in Node \ {x, y} : u.colour[n] = t.colour[n]
  PROVE  Heights(rb_rotate(u, x, s), M, [h EXCEPT ![y] = h[x], ![x] = h[y]], q, b)
<1> DEFINE r == rb_rotate(u, x, s)
           k == [h EXCEPT ![y] = h[x], ![x] = h[y]]
           o == Other(s)
           z == t.child[s][y]
           c == t.child[s][x]
           d == t.child[o][y]
<1>1. Shaped(u, M, D) /\ u.child = t.child /\ u.parent = t.parent
  BY PaintShaped DEF SamePointers
<1>2. Around(u, M, D, x, s, y) /\ RotatedIn(r, u, M, x, s, y)
  BY <1>1, AroundNode, RotatePointers
<1>3. /\ x \in Node /\ y \in Node /\ x # NIL /\ y # NIL /\ x # y /\ y \in M
      /\ c \in M \cup {NIL} /\ z \in M \cup {NIL} /\ d \in M \cup {NIL}
      /\ c \notin {x, y} /\ z \notin {x, y} /\ d \notin {x, y}
      /\ \A n \in M : n \in Node
  BY <1>1, <1>2 DEF Around
<1>4. o \in Side /\ o # s /\ \A a \in Side : a = s \/ a = o
  BY SideFacts
<1>5. /\ h \in [Node -> Nat] /\ h[NIL] = 0 /\ t.colour[NIL] = BLACK
      /\ \A n \in M : \A a \in Side :
            /\ ~(n = q /\ a = b) => h[n] = h[t.child[a][n]] + t.colour[n]
            /\ n = q /\ a = b => h[n] = h[t.child[a][n]] + t.colour[n] + 1
  BY DEF Heights
<1>6. /\ k \in [Node -> Nat] /\ k[y] = h[x] /\ k[x] = h[y]
      /\ \A n \in Node \ {x, y} : k[n] = h[n]
  BY <1>3, <1>5
<1>7. /\ r.child[s][y] = x /\ r.child[o][x] = z
      /\ r.child[o][y] = d /\ r.child[s][x] = c
      /\ r.colour = u.colour
  BY <1>1, <1>2 DEF RotatedIn
<1> HIDE DEF k, r, z, c, d, o
<1>12. c \in Node /\ z \in Node /\ d \in Node /\ NIL \in Node /\ NIL \notin {x, y}
  BY <1>3, NodeFacts
<1>8. k[z] = h[z] /\ k[c] = h[c] /\ k[d] = h[d] /\ k[NIL] = 0 /\ u.colour[NIL] = BLACK
  BY <1>3, <1>5, <1>6, <1>12
<1>9. /\ h[x] = h[y] + t.colour[x] /\ h[y] = h[z] + 0 /\ h[y] = h[d] + 0
      /\ q # x => h[x] = h[c] + t.colour[x]
      /\ q = x => h[x] = h[c] + t.colour[x] + 1
  <2>1. h[x] = h[y] + t.colour[x]
    BY <1>4, <1>5 DEF o
  <2>2. h[y] = h[z] + t.colour[y] /\ h[y] = h[d] + t.colour[y]
    BY <1>3, <1>4, <1>5 DEF z, d
  <2>3. /\ q # x => h[x] = h[c] + t.colour[x]
        /\ q = x => h[x] = h[c] + t.colour[x] + 1
    BY <1>4, <1>5 DEF c
  <2> QED
    BY <2>1, <2>2, <2>3, NodeFacts
<1>10. /\ t.colour[x] \in Nat /\ h[x] \in Nat /\ h[y] \in Nat /\ h[z] \in Nat
       /\ h[c] \in Nat /\ h[d] \in Nat
  <2>1. t.colour[x] \in {RED, BLACK}
    BY <1>3, TreeFields DEF Shaped
  <2>2. t.colour[x] \in Nat
    BY <2>1, NodeFacts
  <2> QED
    BY <1>3, <1>5, <1>12, <2>2
<1>11. ASSUME NEW n \in M, NEW a \in Side
       PROVE  /\ ~(n = q /\ a = b) => k[n] = k[r.child[a][n]] + r.colour[n]
              /\ n = q /\ a = b => k[n] = k[r.child[a][n]] + r.colour[n] + 1
  <2>1. CASE n = x
    <3>1. q # x => h[y] = h[c]
      BY <1>9, <1>10
    <3>2. q = x => h[y] = h[c] + 1
      BY <1>9, <1>10
    <3>3. r.colour[x] = 0
      BY <1>7, NodeFacts
    <3>4. CASE a = s
      BY <1>6, <1>7, <1>8, <1>10, <2>1, <3>1, <3>2, <3>3, <3>4
    <3>5. CASE a = o
      BY <1>4, <1>6, <1>7, <1>8, <1>9, <1>10, <2>1, <3>3, <3>5
    <3> QED
      BY <1>4, <3>4, <3>5
  <2>2. CASE n = y
    <3>1. r.colour[y] = t.colour[x]
      BY <1>7
    <3>2. q # y
      BY <1>3
    <3>3. CASE a = s
      BY <1>6, <1>7, <1>9, <1>10, <2>2, <3>1, <3>2, <3>3
    <3>4. CASE a = o
      BY <1>6, <1>7, <1>8, <1>9, <1>10, <2>2, <3>1, <3>2, <3>4
    <3> QED
      BY <1>4, <3>3, <3>4
  <2>3. CASE n \notin {x, y}
    <3>1. \/ t.child[a][n] = x /\ r.child[a][n] = y
          \/ t.child[a][n] \notin {x, y} /\ r.child[a][n] = t.child[a][n]
      BY <1>1, <1>2, <2>3, RotatedElsewhere
    <3>2. t.child[a][n] \in Node
      BY ShapedNode
    <3>3. k[r.child[a][n]] = h[t.child[a][n]] /\ k[n] = h[n] /\ r.colour[n] = t.colour[n]
      BY <1>3, <1>6, <1>7, <2>3, <3>1, <3>2
    <3> QED
      BY <1>5, <3>3
  <2> QED
    BY <2>1, <2>2, <2>3
<1> QED
  BY <1>6, <1>7, <1>8, <1>11 DEF Heights, r, k

-----------------------------------------------------------------------------
(* Insertion: the loop.                                                    *)

\* u is t with the nodes B painted black and the nodes R painted red.
Repainted(u, t, B, R) ==
  /\ SamePointers(u, t)
  /\ \A n \in B : u.colour[n] = BLACK
  /\ \A n \in R : u.colour[n] = RED
  /\ \A n \in Node \ (B \cup R) : u.colour[n] = t.colour[n]

LEMMA Painted ==
  ASSUME NEW t \in Tree, NEW f \in [Node -> {RED, BLACK}], NEW B, NEW R,
         \A n \in B : f[n] = BLACK, \A n \in R : f[n] = RED,
         \A n \in Node \ (B \cup R) : f[n] = t.colour[n]
  PROVE  Repainted([t EXCEPT !.colour = f], t, B, R) /\ [t EXCEPT !.colour = f] \in Tree
<1> DEFINE u == [t EXCEPT !.colour = f]
<1>1. /\ u \in Tree /\ u.root = t.root /\ u.colour = f
      /\ u.parent = t.parent /\ u.child = t.child
  BY Updates
<1> HIDE DEF u
<1> QED
  BY <1>1 DEF Repainted, SamePointers, u

\* The red node z may have a red parent, or be a red root; else the tree is correct.
Climbing(t, M, D, h, z) ==
  /\ Shaped(t, M, D) /\ Heights(t, M, h, NIL, "left") /\ RedsApart(t, M, z)
  /\ z \in M /\ t.colour[z] = RED /\ \A a \in Side : t.colour[t.child[a][z]] = BLACK

\* What every node has.
Linked(t, M) ==
  \A n \in M : /\ n \in Node /\ n # NIL
               /\ \A a \in Side : /\ t.child[a][n] # NIL => t.parent[t.child[a][n]] = n
                                  /\ t.child[a][n] \in Node /\ t.child[a][n] # n

\* z, its parent p, its grandparent g, whose child on side s is p, and its uncle y.
Family(t, M, D, z, p, g, s, y) ==
  /\ p = t.parent[z] /\ g = t.parent[p] /\ s = SideOf(t, g, p)
  /\ t.child[s][g] = p /\ t.child[Other(s)][g] = y
  /\ s \in Side /\ Other(s) \in Side /\ Other(s) # s /\ Other(Other(s)) = s
  /\ p \in M /\ g \in M /\ y \in M \cup {NIL} /\ t.root \in M
  /\ z # p /\ z # g /\ p # g /\ y \notin {p, g, z} /\ t.root \notin {z, p}
  /\ p \in Node /\ g \in Node /\ z \in Node /\ y \in Node
  /\ p # NIL /\ g # NIL /\ z # NIL
  /\ \E a \in Side : t.child[a][p] = z
  /\ y # NIL => t.parent[y] = g
  /\ t.colour[t.root] = BLACK /\ t.colour[g] = BLACK /\ t.colour[p] = RED
  /\ t.parent[t.root] = NIL
  /\ D[z] \subseteq D[g] /\ g \in D[g] /\ g \notin D[z]

\* A red parent is not the root: z has a grandparent, which is black.
LEMMA RedParent ==
  ASSUME NEW t, NEW M, NEW D, NEW h, NEW z, Climbing(t, M, D, h, z),
         NEW p, p = t.parent[z], t.colour[p] = RED,
         NEW g, g = t.parent[p], NEW s, s = SideOf(t, g, p),
         NEW y, y = t.child[Other(s)][g]
  PROVE  Family(t, M, D, z, p, g, s, y)
<1>1. /\ Shaped(t, M, D) /\ RedsApart(t, M, z) /\ z \in M /\ t.colour[NIL] = BLACK
  BY DEF Climbing, Heights
<1>2. p # NIL
  BY <1>1, NodeFacts
<1>3. z # t.root
  BY <1>1, <1>2, ParentOf
<1>4. /\ p \in M /\ z # p /\ z \in D[p] /\ p \notin D[z] /\ \E a \in Side : t.child[a][p] = z
  BY <1>1, <1>3, ParentOf
<1>5. t.colour[t.root] = BLACK /\ t.root \in M /\ t.parent[t.root] = NIL
  BY <1>1, <1>3, ParentOf DEF RedsApart
<1>6. p # t.root
  BY <1>5, NodeFacts
<1>7. /\ g \in M /\ g # NIL /\ g # p /\ p \in D[g] /\ g \notin D[p]
      /\ \E a \in Side : t.child[a][g] = p
  BY <1>1, <1>4, <1>6, ParentOf
<1>8. z \in Node /\ p \in Node /\ g \in Node /\ z # NIL /\ g \in D[g]
  BY <1>1, <1>4, <1>7, ShapedNode, SideFacts
<1>9. D[z] \subseteq D[p] /\ D[p] \subseteq D[g]
  BY <1>1, <1>4, <1>7, Nested
<1>10. g # z /\ g \notin D[z]
  BY <1>4, <1>7, <1>9
<1>11. PICK a \in Side : t.child[a][g] = p
  BY <1>7
<1>12. s = a /\ t.child[Other(a)][g] # p
  BY <1>1, <1>2, <1>7, <1>11, ChildSide
<1>13. t.child[s][g] = p /\ y # p /\ s \in Side
  BY <1>11, <1>12
<1>14. Other(s) \in Side /\ Other(s) # s /\ Other(Other(s)) = s
  BY <1>13, SideFacts
<1>15. /\ y \in M \cup {NIL} /\ y \in Node /\ g \notin D[y] /\ (y # NIL => t.parent[y] = g)
  <2>1. ASSUME NEW o \in Side, o = Other(s)
        PROVE  /\ y \in M \cup {NIL} /\ y \in Node /\ g \notin D[y]
               /\ y # NIL => t.parent[y] = g
    <3>1. y = t.child[o][g]
      BY <2>1
    <3>2. Shaped(t, M, D) /\ g \in M
      BY <1>1, <1>7
    <3>3. /\ t.child[o][g] \in M \cup {NIL} /\ t.child[o][g] \in Node
          /\ g \notin D[t.child[o][g]]
          /\ t.child[o][g] # NIL => t.parent[t.child[o][g]] = g
      BY <3>2, ShapedNode
    <3> QED
      BY <3>1, <3>3
  <2> QED
    BY <1>14, <2>1
<1>16. y \notin {g, z}
  BY <1>2, <1>4, <1>7, <1>8, <1>15
<1>17. t.colour[g] = BLACK
  <2>1. t.child[s][g] # z /\ t.colour[t.child[s][g]] # BLACK
    BY <1>4, <1>13, NodeFacts
  <2> QED
    BY <1>1, <1>7, <1>10, <1>13, <2>1 DEF RedsApart
<1>18. t.root \notin {z, p}
  BY <1>3, <1>6
<1> QED
  BY <1>2, <1>4, <1>5, <1>7, <1>8, <1>9, <1>10, <1>13, <1>14, <1>15, <1>16, <1>17, <1>18
     DEF Family

LEMMA ShapedLinked ==
  ASSUME NEW t, NEW M, NEW D, Shaped(t, M, D)
  PROVE  Linked(t, M)
<1>1. ASSUME NEW n \in M, NEW a \in Side
      PROVE  /\ n \in Node /\ n # NIL
             /\ t.child[a][n] # NIL => t.parent[t.child[a][n]] = n
             /\ t.child[a][n] \in Node /\ t.child[a][n] # n
  <2>1. n \in Node /\ n # NIL /\ n \in D[n] /\ n \notin D[t.child[a][n]]
    BY ShapedNode
  <2> QED
    BY <2>1, ShapedNode
<1> QED
  BY <1>1, SideFacts DEF Linked

\* Red parent and red uncle: both turn black, the grandparent turns red.
LEMMA RedUncle ==
  ASSUME NEW t, NEW M, NEW D, NEW h, NEW z, Climbing(t, M, D, h, z),
         NEW p, NEW g, NEW s, NEW y, Family(t, M, D, z, p, g, s, y), t.colour[y] = RED,
         NEW u, Repainted(u, t, {p, y}, {g})
  PROVE  \E k : Climbing(u, M, D, k, g)
<1> DEFINE k == [h EXCEPT ![p] = h[p] + 1, ![y] = h[y] + 1]
<1>1. /\ Shaped(t, M, D) /\ Heights(t, M, h, NIL, "left") /\ RedsApart(t, M, z)
      /\ t \in Tree /\ Linked(t, M)
  BY ShapedLinked DEF Climbing, Shaped
<1>2. /\ p = t.parent[z] /\ g = t.parent[p] /\ z # NIL
      /\ t.child[s][g] = p /\ t.child[Other(s)][g] = y /\ s \in Side
      /\ p \in M /\ g \in M /\ y \in M \cup {NIL} /\ p # g /\ y \notin {p, g, z}
      /\ p \in Node /\ g \in Node /\ y \in Node /\ p # NIL /\ g # NIL
      /\ y # NIL => t.parent[y] = g
      /\ t.colour[t.root] = BLACK /\ t.colour[g] = BLACK /\ t.colour[p] = RED
      /\ t.root \in M
  BY DEF Family
<1>3. \A n \in M : \A a \in Side : /\ t.child[a][n] # NIL => t.parent[t.child[a][n]] = n
                                   /\ t.child[a][n] \in Node /\ t.child[a][n] # n
                                   /\ n \in Node
  BY <1>1 DEF Linked
<1>4. h \in [Node -> Nat] /\ h[NIL] = 0 /\ t.colour[NIL] = BLACK
  BY <1>1 DEF Heights
<1>5. y # NIL /\ y \in M
  BY <1>2, <1>4, NodeFacts
<1>6. /\ u.colour[p] = BLACK /\ u.colour[y] = BLACK /\ u.colour[g] = RED
      /\ \A n \in Node \ {p, y, g} : u.colour[n] = t.colour[n]
  BY DEF Repainted
<1>13. u \in Tree /\ u.root = t.root /\ u.child = t.child
  BY DEF Repainted, SamePointers
<1>7. /\ k \in [Node -> Nat] /\ k[p] = h[p] + 1 /\ k[y] = h[y] + 1
      /\ \A n \in Node \ {p, y} : k[n] = h[n]
  BY <1>2, <1>4
<1> HIDE DEF k
<1>8. ASSUME NEW n \in M, NEW a \in Side, NEW c, c = t.child[a][n]
      PROVE  c \in {p, y} <=> n = g
  <2>1. c \in {p, y} => n = g
    BY <1>2, <1>3, <1>5, <1>8
  <2>2. n = g => c \in {p, y}
    BY <1>2, <1>8, SideFacts
  <2> QED
    BY <2>1, <2>2
<1>9. \A n \in M : n \in Node /\ \A a \in Side : h[n] = h[t.child[a][n]] + t.colour[n]
  <2>1. \A n \in M : n # NIL /\ n \in Node
    BY <1>1 DEF Linked
  <2> QED
    BY <1>1, <2>1 DEF Heights
<1>10. Heights(u, M, k, NIL, "left")
  <2>1. ASSUME NEW n \in M, NEW a \in Side, NEW c, c = t.child[a][n]
        PROVE  k[n] = k[c] + u.colour[n]
    <3>1. c \in Node /\ n \in Node /\ h[n] = h[c] + t.colour[n] /\ h[n] \in Nat /\ h[c] \in Nat
      BY <1>3, <1>4, <1>9, <2>1
    <3>2. c \in {p, y} <=> n = g
      BY <1>8, <2>1
    <3>3. CASE n = g
      <4>1. k[c] = h[c] + 1 /\ k[n] = h[n] /\ u.colour[n] = 0 /\ t.colour[n] = 1
        BY <1>2, <1>6, <1>7, <3>2, <3>3, NodeFacts
      <4> QED
        BY <3>1, <4>1
    <3>4. CASE n \in {p, y}
      <4>1. k[c] = h[c] /\ k[n] = h[n] + 1 /\ u.colour[n] = 1 /\ t.colour[n] = 0
        BY <1>2, <1>6, <1>7, <3>1, <3>2, <3>4, NodeFacts
      <4> QED
        BY <3>1, <4>1
    <3>5. CASE n \notin {p, y, g}
      <4>1. k[c] = h[c] /\ k[n] = h[n] /\ u.colour[n] = t.colour[n]
        BY <1>6, <1>7, <3>1, <3>2, <3>5
      <4> QED
        BY <3>1, <4>1
    <3> QED
      BY <3>3, <3>4, <3>5
  <2>2. k[NIL] = 0 /\ u.colour[NIL] = BLACK
    BY <1>2, <1>4, <1>5, <1>6, <1>7, NodeFacts
  <2>3. NIL \notin M
    BY <1>1, NodeFacts DEF Shaped
  <2>4. \A n \in M : \A a \in Side : k[n] = k[u.child[a][n]] + u.colour[n]
    BY <1>13, <2>1
  <2> QED
    BY <1>7, <2>2, <2>3, <2>4 DEF Heights
<1>11. RedsApart(u, M, g)
  <2>2. u.root # g => u.colour[u.root] = BLACK
    BY <1>1, <1>2, <1>6, <1>13 DEF Linked
  <2>3. ASSUME NEW n \in M \ {g}, NEW a \in Side, NEW c, c = t.child[a][n], c # g
        PROVE  u.colour[n] = BLACK \/ u.colour[c] = BLACK
    <3>1. c \in Node /\ c \notin {p, y, g} /\ n \in Node
      BY <1>3, <1>8, <2>3
    <3>2. CASE n \in {p, y}
      BY <1>6, <3>2
    <3>3. CASE n \notin {p, y}
      <4>1. u.colour[n] = t.colour[n] /\ u.colour[c] = t.colour[c]
        BY <1>6, <2>3, <3>1, <3>3
      <4>2. c # z
        BY <1>2, <1>3, <2>3, <3>3
      <4>3. n = z => t.colour[c] = BLACK
        BY <2>3 DEF Climbing
      <4>4. n # z => t.colour[n] = BLACK \/ t.colour[c] = BLACK
        BY <1>1, <2>3, <4>2 DEF RedsApart
      <4> QED
        BY <4>1, <4>3, <4>4
    <3> QED
      BY <3>2, <3>3
  <2>4. \A n \in M \ {g} : \A a \in Side :
           u.child[a][n] # g => u.colour[n] = BLACK \/ u.colour[u.child[a][n]] = BLACK
    BY <1>13, <2>3
  <2> QED
    BY <2>2, <2>4 DEF RedsApart
<1>12. \A a \in Side : u.colour[u.child[a][g]] = BLACK
  <2>1. \A a \in Side : t.child[a][g] \in {p, y}
    BY <1>2, <1>8
  <2> QED
    BY <1>6, <1>13, <2>1
<1>14. Shaped(u, M, D)
  BY <1>1, PaintShaped DEF Repainted
<1> QED
  BY <1>2, <1>6, <1>10, <1>11, <1>12, <1>14 DEF Climbing

\* r is t with x rotated to side s below its child y.
Turning(r, t, M, D, x, s, o, y) ==
  /\ Shaped(t, M, D) /\ x \in M /\ y = t.child[o][x] /\ y # NIL
  /\ s \in Side /\ o = Other(s) /\ r = rb_rotate(t, x, s)
  /\ RotatedIn(r, t, M, x, s, y)

LEMMA TurningHolds ==
  ASSUME NEW t, NEW M, NEW D, Shaped(t, M, D), NEW x \in M, NEW s \in Side, NEW o, o = Other(s),
         NEW y, y = t.child[o][x], y # NIL, NEW r, r = rb_rotate(t, x, s)
  PROVE  /\ Turning(r, t, M, D, x, s, o, y)
         /\ Shaped(r, M, Turned(t, D, x, s, y))
BY RotatePointers, RotateShaped DEF Turning

\* The children after a rotation.
LEMMA RotatedChild ==
  ASSUME NEW t, NEW M, NEW D, NEW x, NEW s, NEW o, NEW y, NEW r, Turning(r, t, M, D, x, s, o, y),
         NEW n \in M, NEW a \in Side, NEW c, c = r.child[a][n]
  PROVE  \/ n = x /\ a = s /\ c = t.child[s][x]
         \/ n = x /\ a = o /\ c = t.child[s][y]
         \/ n = y /\ a = s /\ c = x
         \/ n = y /\ a = o /\ c = t.child[o][y]
         \/ n \notin {x, y} /\ t.child[a][n] = x /\ c = y
         \/ n \notin {x, y} /\ t.child[a][n] \notin {x, y} /\ c = t.child[a][n]
<1>1. a = s \/ a = o
  BY SideFacts DEF Turning
<1>2. CASE n = x
  BY <1>1, <1>2 DEF RotatedIn, Turning
<1>3. CASE n = y
  BY <1>1, <1>3 DEF RotatedIn, Turning
<1>4. CASE n \notin {x, y}
  <2>1. /\ Shaped(t, M, D) /\ x \in M /\ s \in Side /\ y = t.child[Other(s)][x] /\ y # NIL
        /\ RotatedIn(r, t, M, x, s, y)
    BY DEF Turning
  <2> QED
    BY <1>4, <2>1, RotatedElsewhere
<1> QED
  BY <1>2, <1>3, <1>4

\* A node hangs off one side of its parent only.
OneSided(t, M) ==
  \A n \in M : \A a, b \in Side :
     t.child[a][n] # NIL /\ a # b => /\ SideOf(t, n, t.child[a][n]) = a
                                     /\ t.child[b][n] # t.child[a][n]

LEMMA OneSide ==
  ASSUME NEW t, NEW M, NEW D, Shaped(t, M, D)
  PROVE  OneSided(t, M)
<1>1. ASSUME NEW n \in M, NEW a \in Side, NEW b \in Side, a # b, t.child[a][n] # NIL
      PROVE  SideOf(t, n, t.child[a][n]) = a /\ t.child[b][n] # t.child[a][n]
  <2>1. b = Other(a)
    BY <1>1, SideFacts
  <2> QED
    BY <1>1, <2>1, ChildSide
<1> QED
  BY <1>1 DEF OneSided

\* z is the outer of p's children, and the uncle is black.
OuterReady(t, z) ==
  LET p == t.parent[z]
      g == t.parent[p]
      o == Other(SideOf(t, g, p))
  IN  t.colour[p] = RED /\ t.colour[t.child[o][g]] = BLACK /\ z # t.child[o][p]

\* Red parent, black uncle, z an inner grandchild: z and p change places, both red.
LEMMA InnerGrandchild ==
  ASSUME NEW t, NEW M, NEW D, NEW h, NEW z, Climbing(t, M, D, h, z),
         NEW p, NEW g, NEW s, NEW y, Family(t, M, D, z, p, g, s, y), t.colour[y] = BLACK,
         NEW o, o = Other(s), z = t.child[o][p], NEW r, r = rb_rotate(t, p, s)
  PROVE  (\E E, k : Climbing(r, M, E, k, p)) /\ OuterReady(r, p)
<1>1. /\ Shaped(t, M, D) /\ Heights(t, M, h, NIL, "left") /\ RedsApart(t, M, z)
      /\ t \in Tree /\ Linked(t, M) /\ z \in M /\ t.colour[z] = RED
  BY ShapedLinked DEF Climbing, Shaped
<1>2. /\ p = t.parent[z] /\ g = t.parent[p] /\ s = SideOf(t, g, p)
      /\ t.child[s][g] = p /\ t.child[o][g] = y /\ s \in Side /\ o \in Side /\ o # s
      /\ Other(o) = s
      /\ p \in M /\ g \in M /\ z # p /\ z # g /\ p # g /\ y \notin {p, g, z}
      /\ p \in Node /\ g \in Node /\ z \in Node
      /\ p # NIL /\ g # NIL /\ z # NIL /\ t.root \notin {z, p}
      /\ t.colour[t.root] = BLACK /\ t.colour[g] = BLACK /\ t.colour[p] = RED
  BY DEF Family
<1>3. Turning(r, t, M, D, p, s, o, z) /\ RotatedIn(r, t, M, p, s, z)
  <2>1. Turning(r, t, M, D, p, s, o, z)
    BY <1>1, <1>2, TurningHolds
  <2> QED
    BY <2>1 DEF Turning
<1>4. Shaped(r, M, Turned(t, D, p, s, z))
  BY <1>1, <1>2, TurningHolds
<1>5. Heights(r, M, [h EXCEPT ![z] = h[p], ![p] = h[z]], NIL, "left")
  <2>1. SamePointers(t, t)
    BY <1>1 DEF SamePointers
  <2>2. NIL \notin {p, z} /\ "left" \in Side
    BY <1>2, SideFacts
  <2>3. /\ z = t.child[Other(s)][p] /\ z # NIL /\ t.colour[z] = RED
        /\ t.colour[z] = t.colour[p] /\ t.colour[p] = RED
        /\ \A n \in Node \ {p, z} : t.colour[n] = t.colour[n]
    BY <1>1, <1>2
  <2>4. Shaped(t, M, D) /\ Heights(t, M, h, NIL, "left") /\ p \in M /\ s \in Side
    BY <1>1, <1>2
  <2> QED
    BY <2>1, <2>2, <2>3, <2>4, RotateHeights
<1>6. r.colour = t.colour /\ r.root = t.root /\ r.parent[p] = z /\ r.parent[z] = g
  BY <1>2, <1>3 DEF RotatedIn
<1>7. \A n \in M \ {z} : \A a \in Side :
         t.child[a][n] # z => t.colour[n] = BLACK \/ t.colour[t.child[a][n]] = BLACK
  BY <1>1 DEF RedsApart
<1>8. \A a \in Side : t.colour[t.child[a][z]] = BLACK
  BY DEF Climbing
<1>9. t.child[s][p] # z
  <2>1. OneSided(t, M)
    BY <1>1, OneSide
  <2> QED
    BY <1>2, <2>1 DEF OneSided
<1>10. t.colour[t.child[s][p]] = BLACK /\ t.colour[t.child[s][z]] = BLACK
  <2>1. RED # BLACK
    BY NodeFacts
  <2> QED
    BY <1>2, <1>7, <1>8, <1>9, <2>1
<1>11. RedsApart(r, M, p)
  <2>1. ASSUME NEW n \in M \ {p}, NEW a \in Side, NEW c, c = r.child[a][n], c # p
        PROVE  t.colour[n] = BLACK \/ t.colour[c] = BLACK
    <3>1. \/ n = z /\ c = t.child[o][z]
          \/ n \notin {p, z} /\ t.child[a][n] = p /\ c = z
          \/ n \notin {p, z} /\ t.child[a][n] \notin {p, z} /\ c = t.child[a][n]
      BY <1>3, <2>1, RotatedChild
    <3>2. CASE n = z /\ c = t.child[o][z]
      BY <1>2, <1>8, <3>2
    <3>3. CASE n \notin {p, z} /\ t.child[a][n] = p /\ c = z
      <4>1. n = g
        BY <1>1, <1>2, <3>3, Zenon DEF Linked
      <4> QED
        BY <1>2, <4>1
    <3>4. CASE n \notin {p, z} /\ t.child[a][n] \notin {p, z} /\ c = t.child[a][n]
      BY <1>7, <3>4
    <3> QED
      BY <3>1, <3>2, <3>3, <3>4
  <2>2. \A n \in M \ {p} : \A a \in Side :
           r.child[a][n] # p => r.colour[n] = BLACK \/ r.colour[r.child[a][n]] = BLACK
    BY <1>6, <2>1
  <2> QED
    BY <1>2, <1>6, <2>2 DEF RedsApart
<1>12. \A a \in Side : r.colour[r.child[a][p]] = BLACK
  <2>1. r.child[s][p] = t.child[s][p] /\ r.child[o][p] = t.child[s][z]
    BY <1>3 DEF RotatedIn
  <2>2. \A a \in Side : a = s \/ a = o
    BY <1>2, SideFacts
  <2> QED
    BY <1>6, <1>10, <2>1, <2>2
<1>13. \E E, k : Climbing(r, M, E, k, p)
  <2>1. p \in M /\ r.colour[p] = RED
    BY <1>2, <1>6
  <2> QED
    BY <1>4, <1>5, <1>11, <1>12, <2>1 DEF Climbing
<1>14. OuterReady(r, p)
  <2>1. r.child[s][g] = z /\ r.child[o][g] = y
    <3>1. \A a \in Side : a # s => r.child[a][g] = t.child[a][g]
      BY <1>2, <1>3 DEF RotatedIn
    <3>2. r.child[s][g] = z
      BY <1>2, <1>3 DEF RotatedIn
    <3> QED
      BY <1>2, <3>1, <3>2
  <2>2. OneSided(r, M)
    BY <1>4, OneSide
  <2>7. g \in M /\ z \in M /\ s \in Side /\ o \in Side /\ s # o /\ z # NIL /\ p # NIL
    BY <1>1, <1>2
  <2>3. SideOf(r, g, z) = s
    BY <2>1, <2>2, <2>7 DEF OneSided
  <2>4. r.child[s][z] = p
    BY <1>3 DEF RotatedIn
  <2>5. p # r.child[o][z]
    BY <2>2, <2>4, <2>7 DEF OneSided
  <2>6. r.colour[z] = RED /\ r.colour[r.child[o][g]] = BLACK
    BY <1>1, <1>6, <2>1
  <2> QED
    BY <1>6, <2>3, <2>5, <2>6 DEF OuterReady
<1> QED
  BY <1>13, <1>14

\* Red parent, black uncle, z an outer grandchild: the grandparent is rotated away below
\* the parent and changes colours with it.
LEMMA OuterGrandchild ==
  ASSUME NEW t, NEW M, NEW D, NEW h, NEW z, Climbing(t, M, D, h, z),
         NEW p, NEW g, NEW s, NEW y, Family(t, M, D, z, p, g, s, y), t.colour[y] = BLACK,
         NEW o, o = Other(s), z # t.child[o][p],
         NEW u, Repainted(u, t, {p}, {g}), NEW r, r = rb_rotate(u, g, o)
  PROVE  (\E E, k : Climbing(r, M, E, k, z)) /\ r.colour[r.parent[z]] = BLACK
<1>1. /\ Shaped(t, M, D) /\ Heights(t, M, h, NIL, "left") /\ RedsApart(t, M, z)
      /\ t \in Tree /\ Linked(t, M) /\ OneSided(t, M) /\ z \in M /\ t.colour[z] = RED
  BY ShapedLinked, OneSide DEF Climbing, Shaped
<1>2. /\ p = t.parent[z] /\ g = t.parent[p]
      /\ t.child[s][g] = p /\ t.child[o][g] = y /\ s \in Side /\ o \in Side /\ o # s
      /\ Other(o) = s
      /\ p \in M /\ g \in M /\ z # p /\ z # g /\ p # g /\ y \notin {p, g, z}
      /\ p \in Node /\ g \in Node /\ z \in Node
      /\ p # NIL /\ g # NIL /\ z # NIL /\ t.root \notin {z, p}
      /\ t.colour[t.root] = BLACK /\ t.colour[g] = BLACK /\ t.colour[p] = RED
      /\ \E a \in Side : t.child[a][p] = z
  BY DEF Family
<1>3. Shaped(u, M, D) /\ SamePointers(u, t) /\ u.root = t.root
      /\ u.child = t.child /\ u.parent = t.parent
  BY <1>1, PaintShaped DEF Repainted, SamePointers
<1>4. /\ u.colour[p] = BLACK /\ u.colour[g] = RED
      /\ \A n \in Node \ {g, p} : u.colour[n] = t.colour[n]
  BY DEF Repainted
<1>5. Turning(r, u, M, D, g, o, s, p) /\ RotatedIn(r, u, M, g, o, p)
      /\ Shaped(r, M, Turned(u, D, g, o, p))
  <2>1. /\ g \in M /\ o \in Side /\ s = Other(o) /\ p = u.child[s][g] /\ p # NIL
        /\ Shaped(u, M, D)
    BY <1>2, <1>3
  <2>2. Turning(r, u, M, D, g, o, s, p) /\ Shaped(r, M, Turned(u, D, g, o, p))
    BY <2>1, TurningHolds
  <2> QED
    BY <2>2 DEF Turning
<1>6. Heights(r, M, [h EXCEPT ![p] = h[g], ![g] = h[p]], NIL, "left")
  <2>1. /\ g \in M /\ o \in Side /\ p = t.child[Other(o)][g] /\ p # NIL /\ t.colour[p] = RED
        /\ u.colour[p] = t.colour[g] /\ u.colour[g] = RED
        /\ NIL \notin {g, p} /\ "left" \in Side
    BY <1>2, <1>4, SideFacts
  <2> QED
    BY <1>1, <1>3, <1>4, <2>1, RotateHeights
<1>7. t.child[s][p] = z
  BY <1>2, SideFacts
<1>8. /\ r.colour = u.colour /\ r.parent[z] = p /\ r.child[s][p] = z
      /\ r.child[o][g] = y /\ r.child[s][g] = t.child[o][p] /\ r.child[o][p] = g
      /\ \A a \in Side : r.child[a][z] = t.child[a][z]
  <2>1. z # t.child[o][p] /\ z \in Node \ {g, p, t.child[o][p]}
    BY <1>2
  <2>2. z \in M \ {g, p, t.parent[g]}
    <3>1. z # t.parent[g]
      <4>2. g \in D[z] => FALSE
        BY DEF Family
      <4>3. t.parent[g] = z => g \in D[z]
        <5>1. g = t.root => t.parent[g] = NIL
          BY <1>1, <1>2, ParentOf
        <5>2. g # t.root => g \in D[t.parent[g]]
          BY <1>1, <1>2, ParentOf
        <5> QED
          BY <1>2, <5>1, <5>2
      <4> QED
        BY <4>2, <4>3
    <3> QED
      BY <1>1, <1>2, <3>1
  <2>3. /\ Other(o) = s /\ u.child = t.child /\ u.parent = t.parent /\ RotatedIn(r, u, M, g, o, p)
        /\ p = t.parent[z] /\ t.child[o][g] = y /\ t.child[s][p] = z
    BY <1>2, <1>3, <1>5, <1>7
  <2>4. r.colour = u.colour /\ r.parent[z] = p
    BY <2>1, <2>3 DEF RotatedIn
  <2>5. /\ r.child[s][p] = z /\ r.child[o][g] = y /\ r.child[s][g] = t.child[o][p]
        /\ r.child[o][p] = g
    BY <2>3 DEF RotatedIn
  <2>6. \A a \in Side : r.child[a][z] = t.child[a][z]
    BY <2>2, <2>3 DEF RotatedIn
  <2> QED
    BY <2>4, <2>5, <2>6
<1>9. \A n \in M \ {z} : \A a \in Side :
         t.child[a][n] # z => t.colour[n] = BLACK \/ t.colour[t.child[a][n]] = BLACK
  BY <1>1 DEF RedsApart
<1>10. t.colour[t.child[o][p]] = BLACK /\ t.child[o][p] \in Node
  <2>1. RED # BLACK
    BY NodeFacts
  <2> QED
    BY <1>1, <1>2, <1>9, <2>1 DEF Linked
<1>15. \A a \in Side : t.child[a][p] # g /\ t.child[a][z] # g
  <2>1. g \in D[g] /\ g \notin D[z]
    BY DEF Family
  <2>2. g \notin D[p]
    BY <1>1, <1>2, ShapedNode
  <2>3. ASSUME NEW n \in {p, z}, NEW a \in Side
        PROVE  D[t.child[a][n]] \subseteq D[n]
    BY <1>1, <1>2, <2>3, ShapedNode
  <2> QED
    BY <2>1, <2>2, <2>3
<1>11. RedsApart(r, M, z)
  <2>1. ASSUME NEW n \in M \ {z}, NEW a \in Side, NEW c, c = r.child[a][n], c # z
        PROVE  u.colour[n] = BLACK \/ u.colour[c] = BLACK
    <3>1. \/ n = g /\ c \in {y, t.child[o][p]}
          \/ n = p
          \/ n \notin {g, p} /\ t.child[a][n] = g /\ c = p
          \/ n \notin {g, p} /\ t.child[a][n] \notin {g, p} /\ c = t.child[a][n]
      <4>1. \/ n = g /\ a = o /\ c = u.child[o][g]
            \/ n = g /\ a = s /\ c = u.child[o][p]
            \/ n = p /\ a = o /\ c = g
            \/ n = p /\ a = s /\ c = u.child[s][p]
            \/ n \notin {g, p} /\ u.child[a][n] = g /\ c = p
            \/ n \notin {g, p} /\ u.child[a][n] \notin {g, p} /\ c = u.child[a][n]
        BY <1>5, <2>1, RotatedChild
      <4> QED
        BY <1>2, <1>3, <4>1
    <3>2. CASE n = g /\ c \in {y, t.child[o][p]}
      <4>1. t.colour[c] = BLACK /\ c # p /\ c # g
        BY <1>2, <1>10, <1>15, <3>2, NodeFacts
      <4>2. c \in Node
        BY <1>10, <3>2 DEF Family
      <4> QED
        BY <1>4, <4>1, <4>2
    <3>3. CASE n = p
      BY <1>4, <3>3
    <3>4. CASE n \notin {g, p} /\ t.child[a][n] = g /\ c = p
      BY <1>4, <3>4
    <3>5. CASE n \notin {g, p} /\ t.child[a][n] \notin {g, p} /\ c = t.child[a][n]
      <4>1. c \in Node /\ n \in Node
        BY <1>1, <3>5 DEF Linked
      <4>2. u.colour[n] = t.colour[n] /\ u.colour[c] = t.colour[c]
        BY <1>4, <3>5, <4>1
      <4> QED
        BY <1>9, <2>1, <3>5, <4>2
    <3> QED
      BY <3>1, <3>2, <3>3, <3>4, <3>5
  <2>2. \A n \in M \ {z} : \A a \in Side :
           r.child[a][n] # z => r.colour[n] = BLACK \/ r.colour[r.child[a][n]] = BLACK
    BY <1>8, <2>1
  <2>3. r.colour[r.root] = BLACK
    <3>1. CASE t.parent[g] = NIL
      BY <1>3, <1>4, <1>5, <1>8, <3>1 DEF RotatedIn
    <3>2. CASE t.parent[g] # NIL
      <4>1. r.root = t.root
        BY <1>3, <1>5, <3>2 DEF RotatedIn
      <4>2. t.root # g /\ t.root \in Node
        BY <3>2, <1>1, <1>2, ParentOf, TreeFields
      <4>3. t.root \in Node \ {g, p} /\ t.colour[t.root] = BLACK
        BY <1>2, <4>2
      <4>4. u.colour[t.root] = BLACK
        BY <1>4, <4>3
      <4> QED
        BY <1>8, <4>1, <4>4
    <3> QED
      BY <3>1, <3>2
  <2> QED
    BY <2>2, <2>3 DEF RedsApart
<1>12. r.colour[z] = RED /\ \A a \in Side : r.colour[r.child[a][z]] = BLACK
  <2>1. u.colour[z] = RED
    BY <1>1, <1>2, <1>4
  <2>2. ASSUME NEW a \in Side
        PROVE  u.colour[t.child[a][z]] = BLACK
    <3>1. t.colour[t.child[a][z]] = BLACK /\ t.child[a][z] \in Node
      BY <1>1 DEF Climbing, Linked
    <3>2. t.child[a][z] # g
      BY <1>15
    <3> QED
      BY <1>4, <3>1, <3>2
  <2> QED
    BY <1>8, <2>1, <2>2
<1>13. r.colour[r.parent[z]] = BLACK
  BY <1>4, <1>8
<1>14. \E E, k : Climbing(r, M, E, k, z)
  BY <1>1, <1>5, <1>6, <1>11, <1>12 DEF Climbing
<1> QED
  BY <1>13, <1>14

\* What holds before iteration i of the loop: the subtree of the node reached has more than
\* i nodes, or one rotation is left to do, or nothing is.
Rising(M, i, l) ==
  \E D, h : /\ Climbing(l.tree, M, D, h, l.at)
            /\ \/ i < Cardinality(D[l.at])
               \/ i <= NIL /\ OuterReady(l.tree, l.at)
               \/ l.tree.colour[l.tree.parent[l.at]] = BLACK

LEMMA InsertFixupKeeps ==
  ASSUME NEW M, NEW i \in Nat, NEW l \in Loop, Rising(M, i, l)
  PROVE  InsertFixup(l) \in Loop /\ Rising(M, i + 1, InsertFixup(l))
<1>1. PICK t, z : t = l.tree /\ z = l.at
  OBVIOUS
<1>2. PICK p, g, s : p = t.parent[z] /\ g = t.parent[p] /\ s = SideOf(t, g, p)
  OBVIOUS
<1>3. PICK o, y : o = Other(s) /\ y = t.child[o][g]
  OBVIOUS
<1>4. PICK D, h : /\ Climbing(t, M, D, h, z)
                  /\ \/ i < Cardinality(D[z])
                     \/ i <= NIL /\ OuterReady(t, z)
                     \/ t.colour[p] = BLACK
  BY <1>1, <1>2 DEF Rising
<1>5. /\ t \in Tree /\ z \in Node /\ p \in Node /\ g \in Node /\ s \in Side /\ o \in Side
      /\ y \in Node
  <2>1. t \in Tree /\ z \in Node
    BY <1>1 DEF Loop
  <2>2. p \in Node /\ g \in Node
    BY <1>2, <2>1, TreeFields
  <2>3. s \in Side /\ o \in Side
    BY <1>2, <1>3, SideOfSide, SideFacts
  <2> QED
    BY <1>3, <2>1, <2>2, <2>3, TreeFields
<1>6. t.colour \in [Node -> {RED, BLACK}] /\ RED # BLACK
  BY <1>5, NodeFacts DEF Tree
<1>7. CASE t.colour[p] = BLACK
  <2>1. InsertFixup(l) = l
    BY <1>1, <1>2, <1>6, <1>7 DEF InsertFixup
  <2>2. Rising(M, i + 1, l)
    BY <1>1, <1>2, <1>4, <1>7 DEF Rising
  <2> QED
    BY <2>1, <2>2
<1>8. CASE t.colour[p] = RED
  <2>1. Family(t, M, D, z, p, g, s, y)
    BY <1>2, <1>3, <1>4, <1>8, RedParent
  <2>2. /\ Shaped(t, M, D) /\ z \in M /\ g \in M /\ D[z] \subseteq D[g] /\ D[z] # D[g]
        /\ p # g /\ y \notin {p, g}
    BY <1>4, <2>1 DEF Climbing, Family
  <2>3. /\ D[z] \in SUBSET D[g] /\ D[g] \in SUBSET Prio
        /\ Cardinality(D[z]) < Cardinality(D[g]) /\ Cardinality(D[g]) \in Nat
        /\ Cardinality(D[z]) \in Nat /\ Cardinality(D[z]) <= NIL
    <3>1. D[z] \in SUBSET D[g] /\ D[g] \in SUBSET Prio /\ D[z] \in SUBSET Prio
      BY <2>2, ShapedNode, SideFacts DEF Shaped
    <3>2. /\ Cardinality(D[z]) < Cardinality(D[g]) /\ Cardinality(D[g]) \in Nat
          /\ Cardinality(D[z]) \in Nat /\ Cardinality(D[z]) < NIL + 1
      BY <2>2, <3>1, SmallSets
    <3> QED
      BY <3>1, <3>2, NodeFacts
  <2>4. CASE t.colour[y] = RED
    <3> DEFINE f == [t.colour EXCEPT ![p] = BLACK, ![y] = BLACK, ![g] = RED]
               u == [t EXCEPT !.colour = f]
               v == [tree |-> u, at |-> g]
    <3>1. InsertFixup(l) = v
      BY <1>1, <1>2, <1>3, <1>6, <1>8, <2>4 DEF InsertFixup
    <3>2. /\ f \in [Node -> {RED, BLACK}] /\ f[p] = BLACK /\ f[y] = BLACK /\ f[g] = RED
          /\ \A n \in Node \ {p, y, g} : f[n] = t.colour[n]
      BY <1>5, <1>6, <2>2
    <3>3. Repainted(u, t, {p, y}, {g}) /\ u \in Tree
      <4> HIDE DEF f
      <4> QED
        BY <1>5, <3>2, Painted
    <3> HIDE DEF f, u
    <3>4. PICK k : Climbing(u, M, D, k, g)
      BY <1>4, <2>1, <2>4, <3>3, RedUncle
    <3>5. ~OuterReady(t, z)
      BY <1>2, <1>3, <1>6, <2>4 DEF OuterReady
    <3>6. i + 1 < Cardinality(D[g])
      BY <1>4, <1>6, <1>8, <2>3, <3>5
    <3>7. v \in Loop /\ v.tree = u /\ v.at = g
      BY <1>5, <3>3 DEF Loop
    <3> HIDE DEF v
    <3>8. Rising(M, i + 1, v)
      BY <3>4, <3>6, <3>7 DEF Rising
    <3> QED
      BY <3>1, <3>7, <3>8
  <2>5. CASE t.colour[y] = BLACK /\ z = t.child[o][p]
    <3>1. PICK r : r = rb_rotate(t, p, s)
      OBVIOUS
    <3> DEFINE v == [tree |-> r, at |-> p]
    <3>2. InsertFixup(l) = v
      BY <1>1, <1>2, <1>3, <1>6, <1>8, <2>5, <3>1 DEF InsertFixup
    <3>3. PICK E, k : Climbing(r, M, E, k, p) /\ OuterReady(r, p)
      BY <1>3, <1>4, <2>1, <2>5, <3>1, InnerGrandchild
    <3>4. ~OuterReady(t, z)
      BY <1>2, <1>3, <2>5 DEF OuterReady
    <3>5. i + 1 <= NIL
      BY <1>4, <1>6, <1>8, <2>3, <3>4, NodeFacts
    <3>6. v \in Loop /\ v.tree = r /\ v.at = p
      BY <1>5, <3>3 DEF Loop, Climbing, Shaped
    <3> HIDE DEF v
    <3>7. Rising(M, i + 1, v)
      BY <3>3, <3>5, <3>6 DEF Rising
    <3> QED
      BY <3>2, <3>6, <3>7
  <2>6. CASE t.colour[y] = BLACK /\ z # t.child[o][p]
    <3> DEFINE f == [t.colour EXCEPT ![p] = BLACK, ![g] = RED]
               u == [t EXCEPT !.colour = f]
    <3>1. PICK r : r = rb_rotate(u, g, o)
      OBVIOUS
    <3> DEFINE v == [tree |-> r, at |-> z]
    <3>2. InsertFixup(l) = v
      BY <1>1, <1>2, <1>3, <1>6, <1>8, <2>6, <3>1 DEF InsertFixup
    <3>3. /\ f \in [Node -> {RED, BLACK}] /\ f[p] = BLACK /\ f[g] = RED
          /\ \A n \in Node \ {p, g} : f[n] = t.colour[n]
      BY <1>5, <1>6, <2>2
    <3>4. Repainted(u, t, {p}, {g})
      <4> HIDE DEF f
      <4> QED
        BY <1>5, <3>3, Painted
    <3> HIDE DEF f, u
    <3>5. PICK E, k : Climbing(r, M, E, k, z) /\ r.colour[r.parent[z]] = BLACK
      BY <1>3, <1>4, <2>1, <2>6, <3>1, <3>4, OuterGrandchild
    <3>6. v \in Loop /\ v.tree = r /\ v.at = z
      BY <1>5, <3>5 DEF Loop, Climbing, Shaped
    <3> HIDE DEF v
    <3>7. Rising(M, i + 1, v)
      BY <3>5, <3>6 DEF Rising
    <3> QED
      BY <3>2, <3>6, <3>7
  <2>7. t.colour[y] \in {RED, BLACK}
    BY <1>5, <1>6
  <2> QED
    BY <2>4, <2>5, <2>6, <2>7
<1> QED
  BY <1>5, <1>6, <1>7, <1>8

\* Nothing is known to be wrong.
Correct(t, M, D, h) ==
  Shaped(t, M, D) /\ Heights(t, M, h, NIL, "left") /\ RedsApart(t, M, NIL)

\* The root may be painted black: every way down gains a black node or none does.
LEMMA PaintRoot ==
  ASSUME NEW t, NEW M, NEW D, Shaped(t, M, D), NEW h, NEW b \in Side, Heights(t, M, h, NIL, b),
         NEW u, Repainted(u, t, {t.root}, {})
  PROVE  \E k : Heights(u, M, k, NIL, b)
<1>1. /\ h \in [Node -> Nat] /\ h[NIL] = 0 /\ t.colour[NIL] = BLACK /\ Linked(t, M)
      /\ t.root \in Node /\ NIL \in Node /\ t.colour[t.root] \in {RED, BLACK}
  <2>1. Linked(t, M)
    BY ShapedLinked
  <2>2. t \in Tree
    BY DEF Shaped
  <2>3. t.root \in Node /\ t.colour[t.root] \in {RED, BLACK}
    BY <2>2, TreeFields
  <2>4. h \in [Node -> Nat] /\ h[NIL] = 0 /\ t.colour[NIL] = BLACK
    BY DEF Heights
  <2> QED
    BY <2>1, <2>3, <2>4, NodeFacts
<1>2. \A n \in M : \A a \in Side : h[n] = h[t.child[a][n]] + t.colour[n]
  BY <1>1 DEF Heights, Linked
<1>3. /\ u.colour[t.root] = BLACK /\ u.child = t.child
      /\ \A n \in Node \ {t.root} : u.colour[n] = t.colour[n]
  BY DEF Repainted, SamePointers
<1>4. CASE t.colour[t.root] = BLACK
  <2>1. \A n \in Node : u.colour[n] = t.colour[n]
    BY <1>3, <1>4
  <2>2. \A n \in M : n \in Node /\ n # NIL
    BY <1>1 DEF Linked
  <2>3. \A n \in M : \A a \in Side : h[n] = h[u.child[a][n]] + u.colour[n]
    BY <1>2, <1>3, <2>1, <2>2
  <2>4. u.colour[NIL] = BLACK
    BY <1>1, <2>1
  <2> QED
    BY <1>1, <2>2, <2>3, <2>4 DEF Heights
<1>5. CASE t.colour[t.root] = RED
  <2> DEFINE k == [h EXCEPT ![t.root] = h[t.root] + 1]
  <2>1. t.root # NIL /\ t.root \in M
    BY <1>1, <1>5, NodeFacts DEF Shaped
  <2>2. /\ k \in [Node -> Nat] /\ k[t.root] = h[t.root] + 1
        /\ \A n \in Node \ {t.root} : k[n] = h[n]
    BY <1>1
  <2> HIDE DEF k
  <2>3. t.parent[t.root] = NIL
    BY <2>1, ParentOf
  <2>4. ASSUME NEW n \in M, NEW a \in Side, NEW c, c = t.child[a][n]
        PROVE  k[n] = k[c] + u.colour[n]
    <3>1. n \in Node /\ c \in Node /\ n # NIL /\ c # t.root
      BY <1>1, <2>1, <2>3, <2>4 DEF Linked
    <3>2. k[c] = h[c] /\ h[n] = h[c] + t.colour[n]
      BY <1>2, <2>2, <2>4, <3>1
    <3>3. CASE n = t.root
      <4>1. t.colour[n] = 0 /\ u.colour[n] = 1 /\ k[n] = h[n] + 1 /\ h[c] \in Nat
        BY <1>1, <1>3, <1>5, <2>2, <3>1, <3>3, NodeFacts
      <4> QED
        BY <3>2, <4>1
    <3>4. CASE n # t.root
      BY <1>3, <2>2, <3>1, <3>2, <3>4
    <3> QED
      BY <3>3, <3>4
  <2>5. k[NIL] = 0 /\ u.colour[NIL] = BLACK
    BY <1>1, <1>3, <2>1, <2>2
  <2>6. \A n \in M : n # NIL /\ \A a \in Side : k[n] = k[u.child[a][n]] + u.colour[n]
    BY <1>1, <1>3, <2>4 DEF Linked
  <2> QED
    BY <2>2, <2>5, <2>6 DEF Heights
<1> QED
  BY <1>1, <1>4, <1>5

\* After the loop and the painting of the root the tree is correct.
LEMMA InsertFixupCorrect ==
  ASSUME NEW t, NEW M, NEW D, NEW h, NEW z, Climbing(t, M, D, h, z)
  PROVE  \E E, k : Correct(rb_insert_fixup(t, z), M, E, k)
<1> DEFINE f == [l \in Loop |-> InsertFixup(l)]
           J == [i \in Nat |-> {l \in Loop : Rising(M, i, l)}]
           x == [tree |-> t, at |-> z]
           end == Iterated(f, x, Iterations)
<1>1. /\ Shaped(t, M, D) /\ z \in M /\ t \in Tree /\ z \in Node /\ M \subseteq Prio
      /\ D[z] \in SUBSET M /\ D[z] # {}
  <2>1. Shaped(t, M, D) /\ z \in M
    BY DEF Climbing
  <2> QED
    BY <2>1, ShapedNode, SideFacts DEF Shaped
<1>2. x \in J[0]
  <2>1. x \in Loop /\ x.tree = t /\ x.at = z
    BY <1>1 DEF Loop
  <2>2. 0 < Cardinality(D[z])
    <3>1. D[z] \in SUBSET Prio
      BY <1>1
    <3>2. IsFiniteSet(D[z]) /\ Cardinality(D[z]) \in Nat
      BY <3>1, SmallSets
    <3>3. Cardinality(D[z]) # 0
      BY <1>1, <3>2, FS_EmptySet
    <3> QED
      BY <3>2, <3>3
  <2> HIDE DEF x
  <2>3. Rising(M, 0, x)
    BY <2>1, <2>2 DEF Rising
  <2> QED
    BY <2>1, <2>3
<1>3. \A i \in 0 .. Iterations - 1 : \A l \in J[i] : f[l] \in J[i + 1]
  <2>1. ASSUME NEW i \in Nat, NEW l \in J[i]
        PROVE  f[l] \in J[i + 1]
    <3>1. l \in Loop /\ Rising(M, i, l)
      OBVIOUS
    <3>2. InsertFixup(l) \in Loop /\ Rising(M, i + 1, InsertFixup(l))
      BY <3>1, InsertFixupKeeps
    <3> QED
      BY <3>1, <3>2
  <2>2. Iterations \in Nat
    BY SmallSets
  <2> HIDE DEF f, J
  <2> QED
    BY <2>1, <2>2
<1>4. end \in J[Iterations]
  <2>1. Iterations \in Nat
    BY SmallSets
  <2> HIDE DEF f, J, x
  <2> QED
    BY <1>2, <1>3, <2>1, IteratedKeeps
<1> HIDE DEF f, x, end
<1>5. PICK E, k : /\ Climbing(end.tree, M, E, k, end.at)
                  /\ \/ Iterations < Cardinality(E[end.at])
                     \/ Iterations <= NIL /\ OuterReady(end.tree, end.at)
                     \/ end.tree.colour[end.tree.parent[end.at]] = BLACK
  <2>1. Iterations \in Nat
    BY SmallSets
  <2> QED
    BY <1>4, <2>1 DEF Rising
<1>6. PICK e, w : e = end.tree /\ w = end.at
  OBVIOUS
<1>7. /\ Shaped(e, M, E) /\ Heights(e, M, k, NIL, "left") /\ RedsApart(e, M, w)
      /\ w \in M /\ e.colour[w] = RED /\ \A a \in Side : e.colour[e.child[a][w]] = BLACK
      /\ e \in Tree
  BY <1>5, <1>6 DEF Climbing, Shaped
<1>8. e.colour[e.parent[w]] = BLACK
  <2>1. E[w] \in SUBSET Prio
    BY <1>7, ShapedNode, SideFacts DEF Shaped
  <2>2. Cardinality(E[w]) < Iterations /\ Cardinality(E[w]) \in Nat /\ Iterations = NIL + 1
    BY <2>1, SmallSets
  <2> QED
    BY <1>5, <1>6, <2>2, NodeFacts
<1> DEFINE u == [e EXCEPT !.colour = [e.colour EXCEPT ![e.root] = BLACK]]
<1>9. rb_insert_fixup(t, z) = u
  BY <1>6 DEF rb_insert_fixup, end, f, x
<1>10. Repainted(u, e, {e.root}, {}) /\ u \in Tree
  <2> DEFINE c == [e.colour EXCEPT ![e.root] = BLACK]
  <2>1. /\ c \in [Node -> {RED, BLACK}] /\ c[e.root] = BLACK
        /\ \A n \in Node \ {e.root} : c[n] = e.colour[n]
    <3>1. e.colour \in [Node -> {RED, BLACK}] /\ e.root \in Node
      BY <1>7 DEF Tree
    <3> QED
      BY <3>1
  <2>2. u = [e EXCEPT !.colour = c]
    OBVIOUS
  <2> HIDE DEF c, u
  <2> QED
    BY <1>7, <2>1, <2>2, Painted
<1> HIDE DEF u
<1>11. PICK j : Heights(u, M, j, NIL, "left")
  BY <1>7, <1>10, SideFacts, PaintRoot
<1>12. Shaped(u, M, E)
  BY <1>7, <1>10, PaintShaped DEF Repainted
<1>13. RedsApart(u, M, NIL)
  <2>1. /\ u.root = e.root /\ u.child = e.child /\ u.colour[e.root] = BLACK
        /\ \A n \in Node \ {e.root} : u.colour[n] = e.colour[n]
    BY <1>10 DEF Repainted, SamePointers
  <2>2. Linked(e, M)
    BY <1>7, ShapedLinked
  <2>3. ASSUME NEW n \in M, NEW a \in Side, NEW c, c = e.child[a][n], c # NIL
        PROVE  u.colour[n] = BLACK \/ u.colour[c] = BLACK
    <3>1. n \in Node /\ c \in Node /\ n = e.parent[c]
      BY <2>2, <2>3 DEF Linked
    <3>2. e.colour[n] = BLACK \/ e.colour[c] = BLACK
      <4>1. CASE n = w
        BY <1>7, <2>3, <4>1
      <4>2. CASE c = w
        BY <1>8, <3>1, <4>2
      <4>3. CASE n # w /\ c # w
        BY <1>7, <2>3, <4>3 DEF RedsApart
      <4> QED
        BY <4>1, <4>2, <4>3
    <3> QED
      BY <2>1, <3>1, <3>2
  <2> QED
    BY <2>1, <2>3 DEF RedsApart
<1> QED
  BY <1>9, <1>11, <1>12, <1>13 DEF Correct

-----------------------------------------------------------------------------
(* Insertion: the new leaf.                                                *)

\* The side of y on which z belongs.
Turn(z, y) == IF z < y THEN "left" ELSE "right"

\* Whatever node x is below, z belongs on the same side of it.
OnWay(M, D, z, x) ==
  \A n \in M \ {x} : \A a \in Side : x \in D[n] /\ Ahead(a, x, n) => Ahead(a, z, n)

\* The search for z has come from y to x.
Descending(t, M, D, z, x, y) ==
  /\ y = NIL => x = t.root
  /\ y # NIL => y \in M /\ OnWay(M, D, z, y) /\ x = t.child[Turn(z, y)][y]

LEMMA TurnAhead ==
  ASSUME NEW z \in Prio, NEW y \in Prio, z # y
  PROVE  Turn(z, y) \in Side /\ Ahead(Turn(z, y), z, y)
BY NodeFacts DEF Turn, Side, Ahead

LEMMA Descends ==
  ASSUME NEW t, NEW M, NEW D, Shaped(t, M, D), NEW z \in Prio \ M,
         NEW x, NEW y, Descending(t, M, D, z, x, y), x # NIL
  PROVE  x \in M /\ OnWay(M, D, z, x)
<1>1. x \in M /\ M \subseteq Prio
  <2>1. t.root \in M \cup {NIL} /\ M \subseteq Prio
    BY DEF Shaped
  <2>2. CASE y = NIL
    BY <2>1, <2>2 DEF Descending
  <2>3. CASE y # NIL
    <3>1. y \in M /\ x = t.child[Turn(z, y)][y] /\ Turn(z, y) \in Side
      BY <2>1, <2>3, TurnAhead DEF Descending
    <3> QED
      BY <2>1, <3>1, ShapedNode
  <2> QED
    BY <2>2, <2>3
<1>2. SUFFICES ASSUME NEW n \in M \ {x}, NEW a \in Side, x \in D[n], Ahead(a, x, n)
               PROVE  Ahead(a, z, n)
  BY <1>1 DEF OnWay
<1>3. t.parent[x] \in M /\ t.parent[x] \in D[n]
  BY <1>2, Nested
<1>4. y # NIL
  <2>1. t.parent[x] # NIL
    BY <1>1, <1>3, NodeFacts
  <2>2. x # t.root
    BY <1>1, <2>1, ParentOf
  <2> QED
    BY <2>2 DEF Descending
<1>5. PICK b \in Side : /\ b = Turn(z, y) /\ Ahead(b, z, y) /\ y \in M /\ y # z
                        /\ x = t.child[b][y] /\ OnWay(M, D, z, y)
  <2>1. y \in M /\ OnWay(M, D, z, y) /\ x = t.child[Turn(z, y)][y]
    BY <1>4 DEF Descending
  <2>2. y \in Prio /\ y # z
    BY <1>1, <2>1
  <2> QED
    BY <2>1, <2>2, TurnAhead
<1>6. t.parent[x] = y /\ x \in D[x] /\ D[x] \subseteq D[y] /\ \A m \in D[x] : Ahead(b, m, y)
  <2>1. \A c \in M : c \in D[c]
    BY ShapedNode, SideFacts
  <2> QED
    BY <1>1, <1>5, <2>1, ShapedNode
<1>7. \A c \in Side : Ahead(c, x, n) => c = a
  BY <1>1, <1>2, AheadFacts, SideFacts
<1>8. CASE n = y
  BY <1>5, <1>6, <1>7, <1>8
<1>9. CASE n # y
  <2>1. PICK c \in Side : t.child[c][n] \in M /\ D[y] \subseteq D[t.child[c][n]] /\ Ahead(c, y, n)
    BY <1>3, <1>6, <1>9, NestedSide
  <2>2. Ahead(c, x, n)
    BY <1>6, <2>1, ShapedNode
  <2>3. c = a
    BY <1>7, <2>2
  <2> QED
    BY <1>3, <1>5, <1>6, <1>9, <2>1, <2>3 DEF OnWay
<1> QED
  BY <1>8, <1>9

\* The search comes to the empty place where z belongs.
LEMMA InsertionPlace ==
  ASSUME NEW t, NEW M, NEW D, Shaped(t, M, D), NEW z \in Prio \ M
  PROVE  Descending(t, M, D, z, NIL, InsertionPoint(t, z)) /\ InsertionPoint(t, z) \in Node
<1> DEFINE f == [a \in Node \X Node |->
                   IF a[1] = NIL THEN a
                   ELSE <<t.child[IF z < a[1] THEN "left" ELSE "right"][a[1]], a[1]>>]
           S(i) == {a \in Node \X Node : /\ Descending(t, M, D, z, a[1], a[2])
                                         /\ a[1] # NIL => i + Cardinality(D[a[1]]) <= NIL}
           J == [i \in Nat |-> S(i)]
           start == <<t.root, NIL>>
           end == Iterated(f, start, Iterations)
<1>1. Iterations \in Nat /\ Iterations = NIL + 1 /\ NIL \in Nat
  BY SmallSets, NodeFacts
<1>2. \A n \in M : /\ n \in Node /\ D[n] \in SUBSET Prio /\ Cardinality(D[n]) \in Nat
                   /\ Cardinality(D[n]) <= NIL
  <2>1. ASSUME NEW n \in M
        PROVE  n \in Node /\ D[n] \in SUBSET Prio
    BY ShapedNode, SideFacts DEF Shaped
  <2> QED
    BY <1>1, <2>1, SmallSets
<1>3. start \in J[0]
  <2>1. t.root \in M \cup {NIL} /\ NIL \in Node /\ M \subseteq Prio
    BY NodeFacts DEF Shaped
  <2>2. start \in Node \X Node /\ start[1] = t.root /\ start[2] = NIL
    BY <1>2, <2>1
  <2>3. Descending(t, M, D, z, start[1], start[2])
    BY <2>2 DEF Descending
  <2>4. start[1] # NIL => 0 + Cardinality(D[start[1]]) <= NIL
    BY <1>2, <2>1, <2>2
  <2> HIDE DEF start
  <2> QED
    BY <2>2, <2>3, <2>4
<1>4. ASSUME NEW i \in Nat, NEW a \in J[i]
      PROVE  f[a] \in J[i + 1]
  <2>1. PICK x \in Node, y \in Node : a = <<x, y>>
    OBVIOUS
  <2>2. /\ Descending(t, M, D, z, x, y)
        /\ x # NIL => i + Cardinality(D[x]) <= NIL
    BY <2>1
  <2>3. CASE x = NIL
    <3>1. f[a] = a
      BY <2>1, <2>3
    <3> QED
      BY <2>1, <2>2, <2>3, <3>1
  <2>4. CASE x # NIL
    <3>1. x \in M /\ OnWay(M, D, z, x)
      BY <2>2, <2>4, Descends
    <3>2. PICK c : c = t.child[Turn(z, x)][x]
      OBVIOUS
    <3>3. f[a] = <<c, x>>
      BY <2>1, <2>4, <3>2 DEF Turn
    <3>4. Turn(z, x) \in Side
      BY <3>1, TurnAhead DEF Shaped
    <3>5. /\ c \in Node /\ c \in M \cup {NIL} /\ D[c] \subseteq D[x] /\ x \in D[x]
          /\ x \notin D[c] /\ D[x] \in SUBSET Prio
      BY <1>2, <3>1, <3>2, <3>4, ShapedNode
    <3>6. Descending(t, M, D, z, c, x)
      BY <2>4, <3>1, <3>2 DEF Descending
    <3>7. c # NIL => (i + 1) + Cardinality(D[c]) <= NIL
      <4>1. Cardinality(D[c]) < Cardinality(D[x]) /\ Cardinality(D[c]) \in Nat
        BY <3>5, SmallSets
      <4> QED
        BY <1>1, <1>2, <2>2, <2>4, <3>1, <4>1
    <3> QED
      BY <3>3, <3>5, <3>6, <3>7
  <2> QED
    BY <2>3, <2>4
<1>5. end \in J[Iterations]
  <2>1. \A i \in 0 .. Iterations - 1 : \A a \in J[i] : f[a] \in J[i + 1]
    <3>1. \A i \in 0 .. Iterations - 1 : i \in Nat
      OBVIOUS
    <3> HIDE DEF f, J
    <3> QED
      BY <1>4, <3>1
  <2> HIDE DEF f, J, start
  <2> QED
    BY <1>1, <1>3, <2>1, IteratedKeeps
<1> HIDE DEF end
<1>6. /\ end \in Node \X Node /\ Descending(t, M, D, z, end[1], end[2])
      /\ end[1] # NIL => Iterations + Cardinality(D[end[1]]) <= NIL
  BY <1>1, <1>5
<1>7. end[1] = NIL
  <2>1. end[1] # NIL => end[1] \in M
    BY <1>6, Descends
  <2> QED
    BY <1>1, <1>2, <1>6, <2>1
<1> QED
  BY <1>6, <1>7 DEF InsertionPoint, end

\* u is t with z hung below y as a red leaf.
Hung(u, t, M, z, y) ==
  /\ u \in Tree
  /\ y = NIL => u.root = z
  /\ y # NIL => u.root = t.root
  /\ u.parent[z] = y /\ u.colour[z] = RED /\ \A a \in Side : u.child[a][z] = NIL
  /\ u.colour[NIL] = t.colour[NIL]
  /\ \A n \in M : /\ u.parent[n] = t.parent[n] /\ u.colour[n] = t.colour[n]
                  /\ \A a \in Side :
                        /\ n = y /\ a = Turn(z, y) => u.child[a][n] = z
                        /\ ~(n = y /\ a = Turn(z, y)) => u.child[a][n] = t.child[a][n]

LEMMA HungFields ==
  ASSUME NEW t \in Tree, NEW M \in SUBSET Prio, NEW z \in Prio \ M,
         InsertionPoint(t, z) \in M \cup {NIL}
  PROVE  \E u : Hung(u, t, M, z, InsertionPoint(t, z)) /\ rb_insert(t, z) = rb_insert_fixup(u, z)
<1> DEFINE y == InsertionPoint(t, z)
           q == IF y = NIL THEN [t EXCEPT !.root = z]
                ELSE [t EXCEPT !.child[IF z < y THEN "left" ELSE "right"][y] = z]
<1>11. y \in M \cup {NIL}
  OBVIOUS
<1>1. q = IF y = NIL THEN [t EXCEPT !.root = z]
          ELSE [t EXCEPT !.child[IF z < y THEN "left" ELSE "right"][y] = z]
  OBVIOUS
<1> HIDE DEF y, q
<1>2. /\ z \in Node /\ y \in Node /\ NIL \in Node /\ M \subseteq Node /\ z \notin M /\ z # NIL
      /\ NIL \notin M /\ z # y
  BY <1>11, NodeFacts
<1>3. /\ q \in Tree /\ q.colour = t.colour /\ q.parent = t.parent
      /\ y = NIL => q.root = z
      /\ y # NIL => q.root = t.root
      /\ \A n \in M : \A a \in Side :
            /\ n = y /\ a = Turn(z, y) => q.child[a][n] = z
            /\ ~(n = y /\ a = Turn(z, y)) => q.child[a][n] = t.child[a][n]
  <2>1. CASE y = NIL
    <3>1. q = [t EXCEPT !.root = z]
      BY <1>1, <2>1
    <3> QED
      BY <1>2, <2>1, <3>1, Updates
  <2>2. CASE y # NIL
    <3>1. PICK b : b = Turn(z, y)
      OBVIOUS
    <3> DEFINE f == [t.child EXCEPT ![b] = [t.child[b] EXCEPT ![y] = z]]
    <3>2. q = [t EXCEPT !.child = f] /\ b \in Side
      BY <1>1, <2>2, <3>1 DEF Turn, Side
    <3>3. t.child \in [Side -> [Node -> Node]]
      BY DEF Tree
    <3>4. /\ f \in [Side -> [Node -> Node]]
          /\ \A a \in Side : \A n \in Node : f[a][n] = IF n = y /\ a = b THEN z ELSE t.child[a][n]
      BY <1>2, <3>2, <3>3
    <3> HIDE DEF f
    <3>5. /\ q \in Tree /\ q.root = t.root /\ q.colour = t.colour
          /\ q.parent = t.parent /\ q.child = f
      BY <3>2, <3>4, Updates
    <3> QED
      BY <1>2, <2>2, <3>1, <3>4, <3>5
  <2> QED
    BY <2>1, <2>2
<1> DEFINE g == [q.parent EXCEPT ![z] = y]
           c == [q.colour EXCEPT ![z] = RED]
           d == [s \in Side |-> [q.child[s] EXCEPT ![z] = NIL]]
           q1 == [q EXCEPT !.parent = g]
           q2 == [q1 EXCEPT !.colour = c]
           u == [q2 EXCEPT !.child = d]
           linked == [q EXCEPT !.parent[z] = y, !.colour[z] = RED,
                               !.child = [s \in Side |-> [q.child[s] EXCEPT ![z] = NIL]]]
<1>4. u = linked
  BY <1>3 DEF Tree
<1>10. rb_insert(t, z) = rb_insert_fixup(linked, z)
  BY DEF rb_insert, y, q
<1> HIDE DEF linked
<1>5. /\ q.parent \in [Node -> Node] /\ q.colour \in [Node -> {RED, BLACK}]
      /\ q.child \in [Side -> [Node -> Node]]
  BY <1>3 DEF Tree
<1>6. /\ g \in [Node -> Node] /\ g[z] = y /\ \A n \in M : g[n] = q.parent[n]
      /\ c \in [Node -> {RED, BLACK}] /\ c[z] = RED
      /\ \A n \in M \cup {NIL} : c[n] = q.colour[n]
  BY <1>2, <1>5
<1>7. /\ d \in [Side -> [Node -> Node]]
      /\ \A a \in Side : d[a][z] = NIL /\ \A n \in M : d[a][n] = q.child[a][n]
  BY <1>2, <1>5
<1> HIDE DEF g, c, d
<1>8. /\ u \in Tree /\ u.root = q.root /\ u.colour = c /\ u.parent = g /\ u.child = d
  <2>1. /\ q1 \in Tree /\ q1.root = q.root /\ q1.parent = g
    BY <1>3, <1>6, Updates
  <2> HIDE DEF q1
  <2>2. /\ q2 \in Tree /\ q2.root = q.root /\ q2.parent = g /\ q2.colour = c
    BY <1>6, <2>1, Updates
  <2> HIDE DEF q2
  <2> QED
    BY <1>7, <2>2, Updates
<1> HIDE DEF u
<1>9. Hung(u, t, M, z, y)
  BY <1>3, <1>6, <1>7, <1>8 DEF Hung
<1> QED
  BY <1>4, <1>9, <1>10 DEF y

\* The new leaf is red, so that only its being red can be wrong.
LEMMA HungClimbs ==
  ASSUME NEW t, NEW M, NEW D, NEW h, Correct(t, M, D, h), NEW z \in Prio \ M,
         NEW y, Descending(t, M, D, z, NIL, y), NEW u, Hung(u, t, M, z, y)
  PROVE  \E E, k : Climbing(u, M \cup {z}, E, k, z)
<1> DEFINE N == M \cup {z}
           E == [n \in Node |-> IF n = z THEN {z} ELSE IF y \in D[n] THEN D[n] \cup {z} ELSE D[n]]
           k == [h EXCEPT ![z] = 0]
<1>1. /\ Shaped(t, M, D) /\ Heights(t, M, h, NIL, "left") /\ RedsApart(t, M, NIL)
      /\ Linked(t, M) /\ M \subseteq Prio /\ D \in [Node -> SUBSET M] /\ D[NIL] = {}
      /\ D[t.root] = M /\ t.root \in M \cup {NIL}
  BY ShapedLinked DEF Correct, Shaped
<1>2. PICK b : b = Turn(z, y)
  OBVIOUS
<1>3. /\ z \in Node /\ z # NIL /\ z \notin M /\ NIL \in Node /\ NIL \notin M /\ z \in Prio
      /\ N \subseteq Prio /\ \A n \in N : n \in Node /\ n # NIL
  BY <1>1, NodeFacts
<1>4. y \in M \/ (y = NIL /\ M = {} /\ t.root = NIL)
  BY <1>1 DEF Descending
<1>5. y # NIL => /\ b \in Side /\ Ahead(b, z, y) /\ t.child[b][y] = NIL /\ OnWay(M, D, z, y)
                 /\ y # z /\ y \in M
  <2>1. y # NIL => y \in Prio /\ y # z
    BY <1>1, <1>3, <1>4
  <2> QED
    BY <1>2, <1>4, <2>1, TurnAhead DEF Descending
<1>6. /\ u \in Tree /\ u.parent[z] = y /\ u.colour[z] = RED /\ \A a \in Side : u.child[a][z] = NIL
      /\ y = NIL => u.root = z
      /\ y # NIL => u.root = t.root
      /\ u.colour[NIL] = t.colour[NIL]
  BY DEF Hung
<1>7. \A n \in M : /\ u.parent[n] = t.parent[n] /\ u.colour[n] = t.colour[n]
                   /\ \A a \in Side :
                         /\ n = y /\ a = b => u.child[a][n] = z
                         /\ ~(n = y /\ a = b) => u.child[a][n] = t.child[a][n]
  BY <1>2 DEF Hung
<1>8. /\ E \in [Node -> SUBSET N] /\ E[z] = {z} /\ E[NIL] = {}
      /\ \A n \in Node \ {z} : /\ y \in D[n] => E[n] = D[n] \cup {z}
                               /\ y \notin D[n] => E[n] = D[n]
  <2>1. y \notin D[NIL]
    BY <1>1
  <2>2. \A n \in Node : D[n] \subseteq M
    BY <1>1
  <2> QED
    BY <1>1, <1>3, <2>1, <2>2
<1> HIDE DEF N, E
<1>9. ASSUME NEW n \in M, NEW a \in Side, NEW c, c = t.child[a][n]
      PROVE  /\ c \in Node /\ c # z /\ c \in M \cup {NIL} /\ n \in Node /\ n # z
             /\ (\A m \in D[c] : Ahead(a, m, n)) /\ n \notin D[c] /\ (c # NIL => u.parent[c] = n)
             /\ D[c] \subseteq D[n] /\ D[n] = {n} \cup D[c] \cup D[t.child[Other(a)][n]]
  <2>1. /\ c \in Node /\ c \in M \cup {NIL} /\ n \in Node
        /\ (\A m \in D[c] : Ahead(a, m, n)) /\ n \notin D[c] /\ (c # NIL => t.parent[c] = n)
        /\ D[c] \subseteq D[n] /\ D[n] = {n} \cup D[c] \cup D[t.child[Other(a)][n]]
    BY <1>1, <1>9, ShapedNode
  <2> QED
    BY <1>3, <1>7, <2>1
<1>10. ASSUME NEW n \in M, NEW a \in Side, NEW c, c = u.child[a][n]
       PROVE  ChildPlaced(u, N, E, n, a)
  <2>1. CASE n = y /\ a = b
    <3>1. c = z /\ c # NIL
      BY <1>3, <1>7, <1>10, <2>1
    <3>2. Ahead(a, z, n) /\ y # NIL
      BY <1>3, <1>5, <2>1
    <3>3. c \in N /\ u.parent[c] = n /\ \A m \in E[c] : Ahead(a, m, n)
      BY <1>6, <1>8, <2>1, <3>1, <3>2 DEF N
    <3> QED
      BY <1>10, <3>3 DEF ChildPlaced
  <2>2. CASE ~(n = y /\ a = b)
    <3>1. c = t.child[a][n]
      BY <1>7, <1>10, <2>2
    <3>2. /\ c \in Node /\ c # z /\ c \in N \cup {NIL} /\ n \in Node
          /\ (\A m \in D[c] : Ahead(a, m, n)) /\ n \notin D[c] /\ (c # NIL => u.parent[c] = n)
          /\ D[c] \subseteq D[n]
      BY <1>9, <3>1 DEF N
    <3>3. y \in D[c] => Ahead(a, z, n)
      <4>1. SUFFICES ASSUME y \in D[c] PROVE Ahead(a, z, n)
        OBVIOUS
      <4>2. y # NIL /\ y # n /\ y \in D[n] /\ Ahead(a, y, n)
        BY <1>1, <1>3, <3>2, <4>1
      <4> QED
        BY <1>5, <4>2 DEF OnWay
    <3>4. \A m \in E[c] : Ahead(a, m, n)
      BY <1>8, <3>2, <3>3
    <3> QED
      BY <1>10, <3>2, <3>4 DEF ChildPlaced
  <2> QED
    BY <2>1, <2>2
<1>11. ASSUME NEW n \in M
       PROVE  E[n] = {n} \cup E[u.child["left"][n]] \cup E[u.child["right"][n]]
  <2>1. /\ D[n] = {n} \cup D[t.child["left"][n]] \cup D[t.child["right"][n]]
        /\ n \in Node /\ n # z
    BY <1>1, <1>3 DEF Shaped, N
  <2>2. /\ t.child["left"][n] \in Node \ {z} /\ t.child["right"][n] \in Node \ {z}
        /\ n \notin D[t.child["left"][n]] /\ n \notin D[t.child["right"][n]]
    BY <1>9, SideFacts
  <2>3. CASE n = y
    <3>1. E[n] = D[n] \cup {z} /\ y # NIL
      BY <1>3, <1>8, <2>1, <2>3
    <3>2. \A a \in Side : /\ a = b => E[u.child[a][n]] = {z} /\ D[t.child[a][n]] = {}
                          /\ a # b => E[u.child[a][n]] = D[t.child[a][n]]
      <4>1. ASSUME NEW a \in Side
            PROVE  /\ a = b => E[u.child[a][n]] = {z} /\ D[t.child[a][n]] = {}
                   /\ a # b => E[u.child[a][n]] = D[t.child[a][n]]
        <5>1. t.child[a][n] \in Node \ {z} /\ n \notin D[t.child[a][n]]
          BY <1>9
        <5> QED
          BY <1>1, <1>5, <1>7, <1>8, <2>3, <3>1, <5>1
      <4> QED
        BY <4>1
    <3> QED
      BY <1>5, <2>1, <3>1, <3>2 DEF Side
  <2>4. CASE n # y
    <3>1. \A a \in Side : u.child[a][n] = t.child[a][n]
      BY <1>7, <2>4
    <3>2. \A e \in Node \ {z} : E[e] = D[e] \cup (IF y \in D[e] THEN {z} ELSE {})
      BY <1>8
    <3>3. y \in D[n] <=> y \in D[t.child["left"][n]] \/ y \in D[t.child["right"][n]]
      BY <2>1, <2>4
    <3> QED
      BY <2>1, <2>2, <3>1, <3>2, <3>3, SideFacts
  <2> QED
    BY <2>3, <2>4
<1>12. ASSUME NEW n \in N
       PROVE  /\ E[n] = {n} \cup E[u.child["left"][n]] \cup E[u.child["right"][n]]
              /\ \A a \in Side : ChildPlaced(u, N, E, n, a)
  <2>1. CASE n = z
    <3>1. \A a \in Side : u.child[a][z] = NIL
      BY <1>6
    <3>2. \A a \in Side : ChildPlaced(u, N, E, z, a)
      BY <1>8, <3>1 DEF ChildPlaced
    <3>3. E[z] = {z} \cup E[u.child["left"][z]] \cup E[u.child["right"][z]]
      BY <1>8, <3>1, SideFacts
    <3> QED
      BY <2>1, <3>2, <3>3
  <2>2. CASE n \in M
    BY <1>10, <1>11, <2>2
  <2> QED
    BY <2>1, <2>2 DEF N
<1>13. /\ E[u.root] = N /\ u.root \in N \cup {NIL}
       /\ u.root # NIL => u.parent[u.root] = NIL
  <2>1. CASE y = NIL
    BY <1>3, <1>4, <1>6, <1>8, <2>1 DEF N
  <2>2. CASE y # NIL
    <3>1. u.root = t.root /\ y \in M /\ t.root \in M /\ t.root \in Node \ {z}
      BY <1>1, <1>3, <1>4, <1>6, <2>2 DEF N
    <3>2. u.parent[t.root] = NIL
      BY <1>1, <1>7, <3>1, ParentOf
    <3>3. E[t.root] = M \cup {z}
      BY <1>1, <1>8, <3>1
    <3> QED
      BY <3>1, <3>2, <3>3 DEF N
  <2> QED
    BY <2>1, <2>2
<1>14. Shaped(u, N, E)
  BY <1>3, <1>6, <1>8, <1>12, <1>13 DEF Shaped
<1>15. /\ h \in [Node -> Nat] /\ h[NIL] = 0 /\ t.colour[NIL] = BLACK
       /\ \A n \in M : \A a \in Side : h[n] = h[t.child[a][n]] + t.colour[n]
  BY <1>1 DEF Heights, Linked
<1>16. /\ k \in [Node -> Nat] /\ k[z] = 0 /\ k[NIL] = 0 /\ \A n \in Node \ {z} : k[n] = h[n]
  BY <1>3, <1>15
<1> HIDE DEF k
<1>17. Heights(u, N, k, NIL, "left")
  <2>1. ASSUME NEW n \in N, NEW a \in Side, NEW c, c = u.child[a][n]
        PROVE  k[n] = k[c] + u.colour[n]
    <3>1. CASE n = z
      BY <1>6, <1>16, <2>1, <3>1, NodeFacts
    <3>2. CASE n \in M
      <4>1. PICK d : d = t.child[a][n]
        OBVIOUS
      <4>2. /\ d \in Node /\ d # z /\ n \in Node /\ n # z /\ h[n] = h[d] + t.colour[n]
            /\ u.colour[n] = t.colour[n]
        BY <1>7, <1>9, <1>15, <3>2, <4>1
      <4>3. k[c] = h[d]
        <5>1. CASE n = y /\ a = b
          <6>1. c = z /\ d = NIL
            BY <1>3, <1>5, <1>7, <2>1, <3>2, <4>1, <5>1
          <6> QED
            BY <1>15, <1>16, <6>1
        <5>2. CASE ~(n = y /\ a = b)
          <6>1. c = d
            BY <1>7, <2>1, <3>2, <4>1, <5>2
          <6> QED
            BY <1>16, <4>2, <6>1
        <5> QED
          BY <5>1, <5>2
      <4>4. k[n] = h[n]
        BY <1>16, <4>2
      <4> QED
        BY <4>2, <4>3, <4>4
    <3> QED
      BY <3>1, <3>2 DEF N
  <2>2. \A n \in N : n # NIL /\ \A a \in Side : k[n] = k[u.child[a][n]] + u.colour[n]
    BY <1>3, <2>1
  <2> QED
    BY <1>6, <1>15, <1>16, <2>2 DEF Heights
<1>18. RedsApart(u, N, z)
  <2>1. u.root # z => u.colour[u.root] = BLACK
    <3>1. u.root # z => u.root = t.root /\ t.root \in M
      BY <1>1, <1>4, <1>6
    <3>2. t.root \in M => t.colour[t.root] = BLACK
      BY <1>1, <1>3 DEF RedsApart
    <3> QED
      BY <1>7, <3>1, <3>2
  <2>2. ASSUME NEW n \in N \ {z}, NEW a \in Side, NEW c, c = u.child[a][n], c # z
        PROVE  u.colour[n] = BLACK \/ u.colour[c] = BLACK
    <3>1. n \in M
      BY DEF N
    <3>2. c = t.child[a][n] /\ c \in M \cup {NIL} /\ u.colour[n] = t.colour[n]
      BY <1>7, <1>9, <2>2, <3>1
    <3>3. CASE c = NIL
      BY <1>6, <1>15, <3>3
    <3>4. CASE c # NIL
      <4>1. t.colour[n] = BLACK \/ t.colour[c] = BLACK
        BY <1>1, <1>3, <3>1, <3>2, <3>4 DEF RedsApart
      <4> QED
        BY <1>7, <3>2, <3>4, <4>1
    <3> QED
      BY <3>3, <3>4
  <2> QED
    BY <2>1, <2>2 DEF RedsApart
<1>19. z \in N /\ \A a \in Side : u.colour[u.child[a][z]] = BLACK
  BY <1>6, <1>15 DEF N
<1> QED
  BY <1>6, <1>14, <1>17, <1>18, <1>19 DEF Climbing, N

\* Inserting a priority that is not in the tree adds it and keeps the tree correct.
LEMMA InsertCorrect ==
  ASSUME NEW t, NEW M, NEW D, NEW h, Correct(t, M, D, h), NEW z \in Prio \ M
  PROVE  \E E, k : Correct(rb_insert(t, z), M \cup {z}, E, k)
<1>1. Shaped(t, M, D) /\ t \in Tree /\ M \in SUBSET Prio
  BY DEF Correct, Shaped
<1>2. PICK y : y = InsertionPoint(t, z)
  OBVIOUS
<1>3. Descending(t, M, D, z, NIL, y)
  BY <1>1, <1>2, InsertionPlace
<1>4. y \in M \cup {NIL}
  BY <1>3 DEF Descending
<1>5. PICK u : Hung(u, t, M, z, y) /\ rb_insert(t, z) = rb_insert_fixup(u, z)
  BY <1>1, <1>2, <1>4, HungFields
<1>6. PICK E, k : Climbing(u, M \cup {z}, E, k, z)
  BY <1>3, <1>5, HungClimbs
<1> QED
  BY <1>5, <1>6, InsertFixupCorrect
=============================================================================
