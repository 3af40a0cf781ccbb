----------------------------- MODULE RBTreeProofs -----------------------------
(***************************************************************************)
(* Proofs about the red-black tree: removal, and the theorems.  The tree   *)
(* is correct after every insertion and removal, for every number of       *)
(* priorities.                                                             *)
(***************************************************************************)
EXTENDS RBTreeInsertProofs

-----------------------------------------------------------------------------
(* Removal: the node that leaves its place.                                *)

\* m is the leftmost of the nodes at or below n.
IsLeftmost(t, M, D, n, m) ==
  /\ m \in M /\ m \in D[n] /\ t.child["left"][m] = NIL
  /\ \A k \in D[n] : k = m \/ m < k

LEMMA LeftmostFound ==
  ASSUME NEW t, NEW M, NEW D, Shaped(t, M, D), NEW n \in M
  PROVE  IsLeftmost(t, M, D, n, Leftmost(t, n))
<1> DEFINE f == [m \in Node |-> IF t.child["left"][m] = NIL THEN m ELSE t.child["left"][m]]
           S(i) == {m \in D[n] : /\ \A k \in D[n] : k \in D[m] \/ m < k
                                 /\ t.child["left"][m] = NIL \/ i + Cardinality(D[m]) <= NIL}
           J == [i \in Nat |-> S(i)]
           end == Iterated(f, n, Iterations)
<1>1. Iterations \in Nat /\ Iterations = NIL + 1 /\ NIL \in Nat
  BY SmallSets, NodeFacts
<1>2. /\ \A m \in M : /\ m \in Node /\ m \in D[m] /\ D[m] \in SUBSET Prio /\ m \in Prio
                      /\ Cardinality(D[m]) \in Nat /\ Cardinality(D[m]) <= NIL
      /\ D[n] \subseteq M /\ Prio \subseteq Nat
  <2>1. ASSUME NEW m \in M
        PROVE  m \in Node /\ m \in D[m] /\ D[m] \in SUBSET Prio /\ m \in Prio /\ D[m] \subseteq M
    BY ShapedNode, SideFacts DEF Shaped
  <2> QED
    BY <1>1, <2>1, SmallSets, NodeFacts
<1>3. n \in J[0]
  BY <1>2
<1>4. ASSUME NEW i \in Nat, NEW m \in J[i]
      PROVE  f[m] \in J[i + 1]
  <2>1. /\ m \in D[n] /\ m \in M /\ (\A k \in D[n] : k \in D[m] \/ m < k)
        /\ t.child["left"][m] = NIL \/ i + Cardinality(D[m]) <= NIL
    BY <1>2
  <2>2. PICK c : c = t.child["left"][m]
    OBVIOUS
  <2>3. f[m] = IF c = NIL THEN m ELSE c
    BY <1>2, <2>1, <2>2
  <2>4. CASE c = NIL
    <3>1. f[m] = m /\ t.child["left"][m] = NIL
      BY <2>2, <2>3, <2>4
    <3>2. m \in S(i + 1)
      BY <2>1, <3>1
    <3> QED
      BY <3>1, <3>2
  <2>5. CASE c # NIL
    <3>1. /\ c \in M /\ D[c] \subseteq D[m] /\ m \notin D[c] /\ c \in D[c] /\ m \in D[m]
          /\ D[m] = {m} \cup D[c] \cup D[t.child["right"][m]]
          /\ \A k \in D[c] : Ahead("left", k, m)
      <4>1. Other("left") = "right"
        BY DEF Other
      <4>2. /\ c \in M /\ D[c] \subseteq D[m] /\ m \notin D[c]
            /\ D[m] = {m} \cup D[c] \cup D[t.child["right"][m]]
            /\ \A k \in D[c] : Ahead("left", k, m)
        BY <2>1, <2>2, <2>5, <4>1, ShapedNode, SideFacts
      <4> QED
        BY <1>2, <2>1, <4>2
    <3>2. \A k \in D[t.child["right"][m]] : Ahead("right", k, m)
      BY <2>1, ShapedNode, SideFacts
    <3>3. D[m] \subseteq D[n] /\ D[m] \subseteq M
      BY <1>2, <2>1, Nested
    <3>4. c \in Nat /\ m \in Nat /\ c < m
      BY <1>2, <2>1, <3>1 DEF Ahead
    <3>5. ASSUME NEW k \in D[n]
          PROVE  k \in D[c] \/ c < k
      <4>1. k \in Nat
        BY <1>2
      <4>2. k \in D[m] \/ m < k
        BY <2>1
      <4>3. k \in D[t.child["right"][m]] => m < k
        BY <3>2 DEF Ahead
      <4> QED
        BY <3>1, <3>4, <4>1, <4>2, <4>3
    <3>6. (i + 1) + Cardinality(D[c]) <= NIL
      <4>1. Cardinality(D[c]) < Cardinality(D[m]) /\ Cardinality(D[c]) \in Nat
        <5>1. D[c] \in SUBSET D[m] /\ D[c] # D[m] /\ D[m] \in SUBSET Prio
          BY <1>2, <2>1, <3>1
        <5> QED
          BY <5>1, SmallSets
      <4> QED
        BY <1>1, <1>2, <2>1, <2>2, <2>5, <4>1
    <3>7. c \in D[n]
      BY <3>1, <3>3
    <3> QED
      BY <2>3, <2>5, <3>5, <3>6, <3>7
  <2> QED
    BY <2>4, <2>5
<1>5. end \in J[Iterations]
  <2>1. \A i \in 0 .. Iterations - 1 : \A m \in J[i] : f[m] \in J[i + 1]
    <3>1. \A i \in 0 .. Iterations - 1 : i \in Nat
      OBVIOUS
    <3> HIDE DEF f, J
    <3> QED
      BY <1>4, <3>1
  <2> HIDE DEF f, J
  <2> QED
    BY <1>1, <1>3, <2>1, IteratedKeeps
<1> HIDE DEF end
<1>6. /\ end \in D[n] /\ end \in M /\ (\A k \in D[n] : k \in D[end] \/ end < k)
      /\ t.child["left"][end] = NIL \/ Iterations + Cardinality(D[end]) <= NIL
  BY <1>1, <1>2, <1>5
<1>7. t.child["left"][end] = NIL
  BY <1>1, <1>2, <1>6
<1>8. \A k \in D[end] : k = end \/ end < k
  <2>1. D[end] = {end} \cup D[NIL] \cup D[t.child["right"][end]] /\ D[NIL] = {}
    BY <1>6, <1>7 DEF Shaped
  <2>2. \A k \in D[t.child["right"][end]] : Ahead("right", k, end)
    BY <1>6, ShapedNode, SideFacts
  <2> QED
    BY <2>1, <2>2 DEF Ahead
<1>9. IsLeftmost(t, M, D, n, end)
  BY <1>6, <1>7, <1>8 DEF IsLeftmost
<1> QED
  BY <1>9 DEF Leftmost, end

\* r is t with v in u's place.
Transplanted(r, t, u, v) ==
  LET p == t.parent[u]
  IN  /\ r \in Tree /\ r.colour = t.colour
      /\ p = NIL => r.root = v
      /\ p # NIL => r.root = t.root /\ r.child[SideOf(t, p, u)][p] = v
      /\ \A a \in Side : \A n \in Node :
            n = NIL \/ n # p \/ a # SideOf(t, p, u) => r.child[a][n] = t.child[a][n]
      /\ r.parent[v] = p
      /\ \A n \in Node \ {v} : r.parent[n] = t.parent[n]

LEMMA TransplantFields ==
  ASSUME NEW t \in Tree, NEW u \in Node, NEW v \in Node
  PROVE  Transplanted(rb_transplant(t, u, v), t, u, v)
<1> DEFINE p == t.parent[u]
           q == Relink(t, p, u, v)
           f == [q.parent EXCEPT ![v] = p]
           r == [q EXCEPT !.parent = f]
<1>1. p \in Node
  BY TreeFields
<1> HIDE DEF p
<1>2. Relinked(q, t, p, u, v)
  BY <1>1, RelinkFields
<1>3. /\ q \in Tree /\ q.colour = t.colour /\ q.parent = t.parent
      /\ p = NIL => q.root = v
      /\ p # NIL => q.root = t.root /\ q.child[SideOf(t, p, u)][p] = v
      /\ \A a \in Side : \A n \in Node :
            n = NIL \/ n # p \/ a # SideOf(t, p, u) => q.child[a][n] = t.child[a][n]
  BY <1>2 DEF Relinked
<1>4. rb_transplant(t, u, v) = r
  <2>1. rb_transplant(t, u, v) = [q EXCEPT !.parent[v] = p]
    BY DEF rb_transplant, p
  <2> HIDE DEF q
  <2> QED
    BY <1>3, <2>1 DEF Tree
<1> HIDE DEF q
<1>5. f \in [Node -> Node] /\ f[v] = p /\ \A n \in Node \ {v} : f[n] = t.parent[n]
  BY <1>1, <1>3 DEF Tree
<1> HIDE DEF f
<1>6. /\ r \in Tree /\ r.root = q.root /\ r.colour = q.colour /\ r.parent = f /\ r.child = q.child
  BY <1>3, <1>5, Updates
<1> HIDE DEF r
<1>7. Transplanted(r, t, u, v)
  BY <1>3, <1>5, <1>6 DEF Transplanted, p
<1> QED
  BY <1>4, <1>7

\* The same, as the nodes M of the tree see it.
Cut(r, t, M, u, v) ==
  /\ r \in Tree /\ r.colour = t.colour
  /\ t.root = u => r.root = v
  /\ t.root # u => r.root = t.root
  /\ r.parent[v] = t.parent[u]
  /\ \A n \in Node \ {v} : r.parent[n] = t.parent[n]
  /\ \A n \in M : \A a \in Side :
        /\ t.child[a][n] = u => r.child[a][n] = v
        /\ t.child[a][n] # u => r.child[a][n] = t.child[a][n]

LEMMA TransplantCuts ==
  ASSUME NEW t, NEW M, NEW D, Shaped(t, M, D), NEW u \in M, NEW v \in Node
  PROVE  Cut(rb_transplant(t, u, v), t, M, u, v)
<1> DEFINE r == rb_transplant(t, u, v)
           p == t.parent[u]
<1>1. t \in Tree /\ u \in Node /\ u # NIL /\ Linked(t, M) /\ OneSided(t, M)
  BY ShapedNode, SideFacts, ShapedLinked, OneSide DEF Shaped
<1>2. /\ u = t.root => p = NIL
      /\ u # t.root => p \in M /\ p # NIL /\ \E a \in Side : t.child[a][p] = u
  BY ParentOf
<1>3. /\ r \in Tree /\ r.colour = t.colour
      /\ p = NIL => r.root = v
      /\ p # NIL => r.root = t.root /\ r.child[SideOf(t, p, u)][p] = v
      /\ \A a \in Side : \A n \in Node :
            n = NIL \/ n # p \/ a # SideOf(t, p, u) => r.child[a][n] = t.child[a][n]
      /\ r.parent[v] = p
      /\ \A n \in Node \ {v} : r.parent[n] = t.parent[n]
  BY <1>1, TransplantFields DEF Transplanted
<1> HIDE DEF r
<1>4. ASSUME NEW n \in M, NEW a \in Side
      PROVE  /\ t.child[a][n] = u => r.child[a][n] = v
             /\ t.child[a][n] # u => r.child[a][n] = t.child[a][n]
  <2>1. n \in Node /\ n # NIL
    BY <1>1 DEF Linked
  <2>2. CASE t.child[a][n] = u
    <3>1. n = p
      BY <1>1, <2>2 DEF Linked
    <3>2. \E b \in Side : b # a
      BY DEF Side
    <3>3. SideOf(t, n, u) = a
      BY <1>1, <2>2, <3>2 DEF OneSided
    <3> HIDE DEF p
    <3> QED
      BY <1>3, <2>1, <2>2, <3>1, <3>3
  <2>3. CASE t.child[a][n] # u
    <3>1. n = p => a # SideOf(t, p, u)
      <4>1. SUFFICES ASSUME n = p PROVE a # SideOf(t, p, u)
        OBVIOUS
      <4>2. PICK b \in Side : t.child[b][p] = u
        BY <1>2, <2>1, <4>1
      <4>3. a # b
        BY <2>3, <4>1, <4>2
      <4>4. SideOf(t, p, u) = b
        BY <1>1, <4>1, <4>2, <4>3 DEF OneSided
      <4> QED
        BY <4>3, <4>4
    <3> HIDE DEF p
    <3> QED
      BY <1>3, <2>1, <2>3, <3>1
  <2> QED
    BY <2>2, <2>3
<1> HIDE DEF p
<1>5. Cut(r, t, M, u, v)
  BY <1>2, <1>3, <1>4 DEF Cut, p
<1> QED
  BY <1>5 DEF r

\* The subtrees without u.
Without(D, u) == [n \in Node |-> D[n] \ {u}]

\* A node with at most one child can be cut out: its child v takes its place.
LEMMA CutShaped ==
  ASSUME NEW t, NEW M, NEW D, Shaped(t, M, D), NEW u \in M, NEW a \in Side, NEW v, v = t.child[a][u],
         t.child[Other(a)][u] = NIL, NEW r, Cut(r, t, M, u, v)
  PROVE  Shaped(r, M \ {u}, Without(D, u))
<1> DEFINE N == M \ {u}
           E == Without(D, u)
<1>1. /\ D[NIL] = {} /\ D[t.root] = M /\ t.root \in M /\ D \in [Node -> SUBSET M] /\ M \subseteq Prio
      /\ Linked(t, M) /\ \A n \in M : n \in D[n]
  BY ParentOf, ShapedLinked, ShapedNode, SideFacts DEF Shaped
<1>2. /\ v \in M \cup {NIL} /\ v \in Node /\ v # u /\ D[u] = {u} \cup D[v] /\ u \notin D[v]
      /\ v # NIL => t.parent[v] = u
  <2>1. /\ v \in M \cup {NIL} /\ D[u] = {u} \cup D[v] \cup D[NIL] /\ u \notin D[v] /\ v \in Node
        /\ v # NIL => t.parent[v] = u
    BY ShapedNode
  <2>2. v # u
    BY <1>1 DEF Linked
  <2> QED
    BY <1>1, <2>1, <2>2
<1>3. /\ E \in [Node -> SUBSET N] /\ \A n \in Node : E[n] = D[n] \ {u}
  BY <1>1 DEF Without
<1> HIDE DEF E
<1>4. /\ r \in Tree
      /\ t.root = u => r.root = v
      /\ t.root # u => r.root = t.root
      /\ r.parent[v] = t.parent[u]
      /\ \A n \in Node \ {v} : r.parent[n] = t.parent[n]
      /\ \A n \in M : \A b \in Side :
            /\ t.child[b][n] = u => r.child[b][n] = v
            /\ t.child[b][n] # u => r.child[b][n] = t.child[b][n]
  BY DEF Cut
<1>5. ASSUME NEW n \in N, NEW b \in Side
      PROVE  /\ ChildPlaced(r, N, E, n, b)
             /\ E[r.child[b][n]] = E[t.child[b][n]]
  <2>1. PICK c, d : c = t.child[b][n] /\ d = r.child[b][n]
    OBVIOUS
  <2>2. /\ c \in M \cup {NIL} /\ c \in Node /\ (\A m \in D[c] : Ahead(b, m, n))
        /\ c # NIL => t.parent[c] = n
    BY <2>1, ShapedNode
  <2>3. CASE c = u
    <3>1. d = v
      BY <1>4, <2>1, <2>3, Zenon
    <3>2. E[v] = E[u]
      <4>1. u \in Node
        BY <2>2, <2>3
      <4> QED
        BY <1>2, <1>3, <4>1, Zenon
    <3>3. \A m \in E[v] : Ahead(b, m, n)
      BY <1>2, <1>3, <2>2, <2>3
    <3>4. v # NIL => r.parent[v] = n
      BY <1>1, <1>4, <2>2, <2>3 DEF Linked
    <3> QED
      BY <1>2, <2>1, <2>3, <3>1, <3>2, <3>3, <3>4 DEF ChildPlaced
  <2>4. CASE c # u
    <3>1. d = c
      BY <1>4, <2>1, <2>4
    <3>2. \A m \in E[c] : Ahead(b, m, n)
      BY <1>3, <2>2
    <3>3. c # NIL => c # v /\ r.parent[c] = n
      <4>1. c # NIL => c # v
        BY <1>2, <2>2
      <4> QED
        BY <1>4, <2>2, <4>1
    <3> QED
      BY <2>1, <2>2, <2>4, <3>1, <3>2, <3>3 DEF ChildPlaced
  <2> QED
    BY <2>3, <2>4
<1>6. \A n \in N : E[n] = {n} \cup E[r.child["left"][n]] \cup E[r.child["right"][n]]
  <2>1. ASSUME NEW n \in N
        PROVE  E[n] = {n} \cup E[r.child["left"][n]] \cup E[r.child["right"][n]]
    <3>1. /\ D[n] = {n} \cup D[t.child["left"][n]] \cup D[t.child["right"][n]] /\ n # u
      BY DEF Shaped
    <3>2. /\ n \in Node /\ t.child["left"][n] \in Node /\ t.child["right"][n] \in Node
      BY ShapedNode, SideFacts
    <3>3. E[n] = {n} \cup E[t.child["left"][n]] \cup E[t.child["right"][n]]
      BY <1>3, <3>1, <3>2
    <3> QED
      BY <1>5, <3>3, SideFacts
  <2> QED
    BY <2>1
<1>7. /\ E[NIL] = {} /\ E[r.root] = N /\ r.root \in N \cup {NIL} /\ N \subseteq Prio
      /\ r.root # NIL => r.parent[r.root] = NIL
  <2>1. E[NIL] = {}
    BY <1>1, <1>3, NodeFacts
  <2>2. CASE t.root = u
    <3>1. r.root = v /\ t.parent[u] = NIL
      BY <1>4, <2>2, ParentOf
    <3>2. E[v] = N
      BY <1>1, <1>2, <1>3, <2>2
    <3> QED
      BY <1>1, <1>2, <1>4, <2>1, <3>1, <3>2
  <2>3. CASE t.root # u
    <3>1. r.root = t.root /\ t.parent[t.root] = NIL /\ t.root \in Node
      BY <1>1, <1>4, <2>3, ParentOf DEF Linked
    <3>2. t.root # v
      <4>1. u # NIL
        BY <1>1 DEF Linked
      <4> QED
        BY <1>1, <1>2, <3>1, <4>1 DEF Linked
    <3> QED
      BY <1>1, <1>3, <1>4, <2>1, <2>3, <3>1, <3>2
  <2> QED
    BY <1>1, <2>1, <2>2, <2>3
<1>8. r \in Tree /\ E \in [Node -> SUBSET N]
  BY <1>3, <1>4
<1>9. Shaped(r, N, E)
  <2> HIDE DEF N
  <2> QED
    BY <1>5, <1>6, <1>7, <1>8 DEF Shaped
<1> QED
  BY <1>9 DEF E

\* Below x one black node may be missing.
Short(t, M, h, x) ==
  \E b \in Side : \/ x = t.root /\ Heights(t, M, h, NIL, b)
                  \/ /\ x # t.root /\ t.parent[x] \in M /\ t.child[b][t.parent[x]] = x
                     /\ Heights(t, M, h, t.parent[x], b)

\* Below x one black node may be missing, and the colour of x may be wrong.
Lacking(t, M, D, h, x) ==
  Shaped(t, M, D) /\ RedsApart(t, M, x) /\ x \in M \cup {NIL} /\ Short(t, M, h, x)

\* A node that is cut out is missed if it was black.
LEMMA CutLacks ==
  ASSUME NEW t, NEW M, NEW D, NEW h, Correct(t, M, D, h),
         NEW u \in M, NEW a \in Side, NEW v, v = t.child[a][u],
         t.child[Other(a)][u] = NIL, NEW r, Cut(r, t, M, u, v),
         NEW N, N = M \ {u}, NEW E, E = Without(D, u)
  PROVE  /\ t.colour[u] = RED => Correct(r, N, E, h)
         /\ t.colour[u] = BLACK => Lacking(r, N, E, h, v)
<1>1. /\ Shaped(t, M, D) /\ Heights(t, M, h, NIL, "left") /\ RedsApart(t, M, NIL)
      /\ Linked(t, M) /\ OneSided(t, M)
  BY ShapedLinked, OneSide DEF Correct
<1>2. Shaped(r, N, E)
  <2>1. Shaped(r, M \ {u}, Without(D, u))
    BY <1>1, CutShaped
  <2> QED
    BY <2>1
<1>3. /\ h \in [Node -> Nat] /\ h[NIL] = 0 /\ t.colour[NIL] = BLACK
      /\ \A n \in M : \A b \in Side : h[n] = h[t.child[b][n]] + t.colour[n]
  BY <1>1 DEF Heights, Linked
<1>4. /\ r.colour = t.colour
      /\ t.root = u => r.root = v
      /\ t.root # u => r.root = t.root
      /\ r.parent[v] = t.parent[u]
      /\ \A n \in M : \A b \in Side :
            /\ t.child[b][n] = u => r.child[b][n] = v
            /\ t.child[b][n] # u => r.child[b][n] = t.child[b][n]
  BY DEF Cut
<1>5. /\ v \in N \cup {NIL} /\ v \in Node /\ u \in Node /\ u # NIL
      /\ h[u] = h[v] + t.colour[u] /\ h[v] \in Nat /\ t.colour[u] \in {RED, BLACK}
  <2>1. v \in M \cup {NIL} /\ v \in Node /\ u \in Node /\ v # u /\ u # NIL
    BY <1>1, ShapedNode DEF Linked
  <2>2. t.colour[u] \in {RED, BLACK}
    BY <1>1, <2>1, TreeFields DEF Shaped
  <2> QED
    BY <1>3, <2>1, <2>2
<1>6. \A n \in N : n \in M /\ n # NIL
  BY <1>1 DEF Linked
<1>7. ASSUME t.colour[u] = RED
      PROVE  Correct(r, N, E, h)
  <2>1. h[u] = h[v]
    BY <1>5, <1>7, NodeFacts
  <2>2. \A n \in N : \A b \in Side : h[n] = h[r.child[b][n]] + r.colour[n]
    BY <1>3, <1>4, <1>6, <2>1
  <2>3. Heights(r, N, h, NIL, "left")
    BY <1>3, <1>4, <1>6, <2>2 DEF Heights
  <2>4. ASSUME NEW n \in N, NEW b \in Side, NEW c, c = r.child[b][n], c # NIL
        PROVE  t.colour[n] = BLACK \/ t.colour[c] = BLACK
    <3>1. CASE t.child[b][n] = u
      BY <1>1, <1>5, <1>6, <1>7, <3>1, NodeFacts DEF RedsApart
    <3>2. CASE t.child[b][n] # u
      <4>1. c = t.child[b][n]
        BY <1>4, <1>6, <2>4, <3>2
      <4> QED
        BY <1>1, <1>6, <2>4, <4>1 DEF RedsApart
    <3> QED
      BY <3>1, <3>2
  <2>5. t.root # NIL /\ t.root # u /\ t.colour[t.root] = BLACK
    <3>1. t.root \in M
      BY <1>1, ParentOf
    <3>2. t.root # NIL /\ t.colour[t.root] = BLACK
      BY <1>1, <3>1 DEF RedsApart, Linked
    <3> QED
      BY <1>7, <3>2, NodeFacts
  <2>6. RedsApart(r, N, NIL)
    BY <1>4, <2>4, <2>5 DEF RedsApart
  <2> QED
    BY <1>2, <2>3, <2>6 DEF Correct
<1>8. ASSUME t.colour[u] = BLACK
      PROVE  Lacking(r, N, E, h, v)
  <2>1. h[u] = h[v] + 1
    BY <1>5, <1>8, NodeFacts
  <2>2. RedsApart(r, N, v)
    <3>1. ASSUME NEW n \in N, NEW b \in Side, NEW c, c = r.child[b][n], c # v
          PROVE  t.colour[n] = BLACK \/ t.colour[c] = BLACK
      <4>1. c = t.child[b][n]
        BY <1>4, <1>6, <3>1
      <4>2. c = NIL \/ t.colour[n] = BLACK \/ t.colour[c] = BLACK
        BY <1>1, <1>6, <4>1 DEF RedsApart
      <4> QED
        BY <1>3, <4>2
    <3>2. r.root # v => t.colour[r.root] = BLACK
      <4>1. t.root # NIL => t.colour[t.root] = BLACK
        BY <1>1 DEF RedsApart
      <4> QED
        BY <1>3, <1>4, <4>1
    <3> QED
      BY <1>4, <3>1, <3>2 DEF RedsApart
  <2>3. CASE t.root = u
    <3>1. \A n \in N : \A b \in Side : h[n] = h[r.child[b][n]] + r.colour[n]
      <4>1. ASSUME NEW n \in N, NEW b \in Side
            PROVE  t.child[b][n] # u
        <5>1. t.parent[u] = NIL
          BY <1>1, <2>3, ParentOf
        <5> QED
          BY <1>1, <1>5, <1>6, <5>1 DEF Linked
      <4> QED
        BY <1>3, <1>4, <1>6, <4>1
    <3>2. Heights(r, N, h, NIL, "left")
      BY <1>3, <1>4, <1>6, <3>1 DEF Heights
    <3>3. Short(r, N, h, v)
      BY <1>4, <2>3, <3>2, SideFacts DEF Short
    <3> QED
      BY <1>2, <1>5, <2>2, <3>3 DEF Lacking
  <2>4. CASE t.root # u
    <3>1. PICK p : p = t.parent[u]
      OBVIOUS
    <3>2. p \in M /\ p # u /\ \E b \in Side : t.child[b][p] = u
      BY <1>1, <2>4, <3>1, ParentOf
    <3>3. PICK b \in Side : t.child[b][p] = u
      BY <3>2
    <3>4. r.child[b][p] = v /\ r.parent[v] = p /\ p \in N
      BY <1>4, <3>1, <3>2, <3>3
    <3>5. ASSUME NEW n \in N, NEW c \in Side
          PROVE  t.child[c][n] = u <=> n = p /\ c = b
      <4>1. t.child[c][n] = u => n = p
        BY <1>1, <1>5, <1>6, <3>1 DEF Linked
      <4>2. c # b => t.child[c][p] # u
        BY <1>1, <1>5, <3>2, <3>3 DEF OneSided
      <4> QED
        BY <3>3, <4>1, <4>2
    <3>6. ASSUME NEW n \in N, NEW c \in Side
          PROVE  /\ ~(n = p /\ c = b) => h[n] = h[r.child[c][n]] + r.colour[n]
                 /\ n = p /\ c = b => h[n] = h[r.child[c][n]] + r.colour[n] + 1
      <4>1. CASE n = p /\ c = b
        <5>1. h[n] = h[v] + 1 + t.colour[n] /\ r.child[c][n] = v /\ r.colour[n] = t.colour[n]
          BY <1>3, <1>4, <1>6, <2>1, <3>3, <3>4, <4>1
        <5>2. t.colour[n] \in Nat
          <6>1. n \in Node /\ t \in Tree
            BY <1>1, <1>6 DEF Linked, Shaped
          <6> QED
            BY <6>1, TreeFields, NodeFacts
        <5> QED
          BY <1>5, <4>1, <5>1, <5>2
      <4>2. CASE ~(n = p /\ c = b)
        BY <1>3, <1>4, <1>6, <3>5, <4>2
      <4> QED
        BY <4>1, <4>2
    <3>7. Heights(r, N, h, p, b)
      BY <1>3, <1>4, <3>6 DEF Heights
    <3>8. v # r.root
      <4>1. p # NIL /\ r.root = t.root /\ t.root \in M
        BY <1>1, <1>4, <2>4, <3>2, ParentOf DEF Linked
      <4>2. v # NIL => t.parent[v] = u
        BY <1>1 DEF Linked
      <4>3. t.parent[t.root] = NIL
        BY <1>1, <4>1, ParentOf
      <4> QED
        BY <1>1, <1>5, <4>1, <4>2, <4>3 DEF Linked
    <3>9. Short(r, N, h, v)
      BY <3>4, <3>7, <3>8 DEF Short
    <3> QED
      BY <1>2, <1>5, <2>2, <3>9 DEF Lacking
  <2> QED
    BY <2>3, <2>4
<1> QED
  BY <1>7, <1>8

-----------------------------------------------------------------------------
(* Removal: the successor that takes a node's place.                       *)

\* n, or y for z.
Put(z, y, n) == IF n = z THEN y ELSE n

\* r is t with node y in place of z.
Renamed(r, t, M, z, y, x) ==
  /\ r \in Tree /\ r.root = Put(z, y, t.root)
  /\ \A n \in M \cup {NIL} : r.colour[Put(z, y, n)] = t.colour[n]
  /\ \A n \in M \cup {x} : r.parent[Put(z, y, n)] = Put(z, y, t.parent[n])
  /\ \A n \in M : \A a \in Side : r.child[a][Put(z, y, n)] = Put(z, y, t.child[a][n])

\* The nodes, subtrees and numbers of black nodes that go with it.
PutIn(M, z, y) == (M \ {z}) \cup {y}
PutBelow(D, z, y) == [n \in Node |-> {Put(z, y, m) : m \in D[Put(y, z, n)]}]
PutHeight(h, z, y) == [n \in Node |-> h[Put(y, z, n)]]

\* Put and its inverse take the nodes of the one tree to those of the other.
Puts(M, z, y) ==
  /\ PutIn(M, z, y) \subseteq Prio
  /\ Put(z, y, NIL) = NIL /\ Put(y, z, NIL) = NIL
  /\ \A n \in M : /\ Put(z, y, n) \in PutIn(M, z, y) /\ Put(z, y, n) # NIL
                  /\ Put(y, z, Put(z, y, n)) = n
  /\ \A n \in PutIn(M, z, y) : /\ Put(y, z, n) \in M /\ n \in Node /\ n # NIL
                               /\ Put(z, y, Put(y, z, n)) = n

LEMMA PutFacts ==
  ASSUME NEW M, M \subseteq Prio, NEW z \in M, NEW y \in Prio \ M
  PROVE  Puts(M, z, y)
<1>1. NIL # z /\ NIL # y /\ NIL \notin M /\ z # y
  BY NodeFacts
<1> QED
  BY <1>1, NodeFacts DEF Puts, Put, PutIn

\* If y lies where z did, the tree with y in place of z is a search tree.
LEMMA RenamedShaped ==
  ASSUME NEW t, NEW M, NEW D, Shaped(t, M, D), NEW z \in M, NEW y \in Prio \ M, NEW x,
         \A n \in M \ {z} : \A a \in Side : Ahead(a, n, z) => Ahead(a, n, y),
         NEW r, Renamed(r, t, M, z, y, x)
  PROVE  Shaped(r, PutIn(M, z, y), PutBelow(D, z, y))
<1> DEFINE N == PutIn(M, z, y)
           E == PutBelow(D, z, y)
           to(n) == Put(z, y, n)
           from(n) == Put(y, z, n)
<1>1. /\ t \in Tree /\ M \subseteq Prio /\ D[NIL] = {} /\ D[t.root] = M /\ t.root \in M
      /\ t.parent[t.root] = NIL /\ D \in [Node -> SUBSET M]
      /\ \A n \in M : n \in Node
  BY ParentOf, ShapedNode, SideFacts DEF Shaped
<1>2. /\ N \subseteq Prio /\ to(NIL) = NIL /\ from(NIL) = NIL
      /\ \A n \in M : to(n) \in N /\ to(n) # NIL /\ from(to(n)) = n
      /\ \A n \in N : from(n) \in M /\ n \in Node /\ n # NIL /\ to(from(n)) = n
  <2>1. Puts(M, z, y)
    BY <1>1, PutFacts
  <2> QED
    BY <2>1 DEF Puts
<1>3. /\ r \in Tree /\ r.root = to(t.root)
      /\ \A n \in M : r.parent[to(n)] = to(t.parent[n])
      /\ \A n \in M : \A a \in Side : r.child[a][to(n)] = to(t.child[a][n])
  BY DEF Renamed
<1>4. \A n, k \in M : \A a \in Side : Ahead(a, k, n) => Ahead(a, to(k), to(n))
  <2>1. ASSUME NEW n \in M, NEW k \in M, NEW a \in Side, Ahead(a, k, n)
        PROVE  Ahead(a, to(k), to(n))
    <3>1. k \in Prio /\ n \in Prio /\ z \in Prio /\ y \in Prio
      BY <1>1
    <3>2. k # n
      BY <2>1, <3>1, AheadFacts
    <3>3. CASE k = z
      <4>1. Ahead(Other(a), n, z)
        BY <2>1, <3>1, <3>3, AheadFacts
      <4>2. Ahead(Other(a), n, y)
        BY <3>2, <3>3, <4>1, SideFacts
      <4>3. Ahead(a, y, n)
        BY <3>1, <4>2, AheadFacts, SideFacts
      <4> QED
        BY <3>2, <3>3, <4>3 DEF Put
    <3>4. CASE n = z
      BY <2>1, <3>2, <3>4 DEF Put
    <3>5. CASE k # z /\ n # z
      BY <2>1, <3>5 DEF Put
    <3> QED
      BY <3>3, <3>4, <3>5
  <2> QED
    BY <2>1
<1>5. /\ \A n \in N \cup {NIL} : E[n] = {to(m) : m \in D[from(n)]}
      /\ E \in [Node -> SUBSET N]
  <2>1. E = [n \in Node |-> {to(m) : m \in D[from(n)]}]
    BY DEF PutBelow
  <2>2. \A n \in N \cup {NIL} : n \in Node
    BY <1>2, NodeFacts
  <2>3. \A n \in Node : from(n) \in Node
    BY <1>1 DEF Put
  <2>4. ASSUME NEW n \in Node
        PROVE  {to(m) : m \in D[from(n)]} \in SUBSET N
    <3>1. D[from(n)] \in SUBSET M
      BY <1>1, <2>3
    <3> HIDE DEF to, from, N
    <3> QED
      BY <1>2, <3>1
  <2> HIDE DEF to, from, N, E
  <2> QED
    BY <2>1, <2>2, <2>4
<1> HIDE DEF to, from, N, E
<1>6. \A n \in M \cup {NIL} : E[to(n)] = {to(m) : m \in D[n]}
  <2>1. \A n \in M \cup {NIL} : to(n) \in N \cup {NIL} /\ from(to(n)) = n
    BY <1>2
  <2> QED
    BY <1>5, <2>1
<1>7. ASSUME NEW n \in N, NEW a \in Side
      PROVE  /\ ChildPlaced(r, N, E, n, a)
             /\ E[r.child[a][n]] = {to(m) : m \in D[t.child[a][from(n)]]}
  <2>1. PICK m \in M : m = from(n) /\ n = to(m)
    BY <1>2
  <2>2. PICK c, d : c = t.child[a][m] /\ d = r.child[a][n]
    OBVIOUS
  <2>3. /\ c \in M \cup {NIL} /\ (\A k \in D[c] : k \in M /\ Ahead(a, k, m))
        /\ c # NIL => t.parent[c] = m
    <3>1. /\ c \in M \cup {NIL} /\ c \in Node /\ (\A k \in D[c] : Ahead(a, k, m))
          /\ D[c] \subseteq D[m] /\ D[m] \subseteq M
          /\ c # NIL => t.parent[c] = m
      BY <2>2, ShapedNode
    <3> QED
      BY <3>1
  <2>4. d = to(c)
    BY <1>3, <2>1, <2>2
  <2>5. E[d] = {to(k) : k \in D[c]}
    BY <1>6, <2>3, <2>4
  <2>6. \A k \in E[d] : Ahead(a, k, n)
    BY <1>4, <2>1, <2>3, <2>5
  <2>7. d \in N \cup {NIL}
    BY <1>2, <2>3, <2>4
  <2>8. d # NIL => r.parent[d] = n
    BY <1>2, <1>3, <2>1, <2>3, <2>4
  <2> QED
    BY <2>1, <2>2, <2>5, <2>6, <2>7, <2>8 DEF ChildPlaced
<1>8. ASSUME NEW n \in N
      PROVE  E[n] = {n} \cup E[r.child["left"][n]] \cup E[r.child["right"][n]]
  <2>1. PICK m \in M : m = from(n) /\ n = to(m)
    BY <1>2
  <2>2. PICK b, c : b = t.child["left"][m] /\ c = t.child["right"][m]
    OBVIOUS
  <2>3. D[m] = {m} \cup D[b] \cup D[c]
    BY <2>2 DEF Shaped
  <2>4. E[n] = {to(k) : k \in D[m]}
    BY <1>5, <2>1
  <2>5. /\ E[r.child["left"][n]] = {to(k) : k \in D[b]}
        /\ E[r.child["right"][n]] = {to(k) : k \in D[c]}
    BY <1>7, <2>1, <2>2, SideFacts
  <2> QED
    BY <2>1, <2>3, <2>4, <2>5
<1>9. E[NIL] = {}
  BY <1>1, <1>2, <1>5
<1>10. E[r.root] = N /\ r.root \in N
  <2>1. E[r.root] = {to(m) : m \in M} /\ r.root \in N
    BY <1>1, <1>2, <1>3, <1>6
  <2>2. {to(m) : m \in M} = N
    BY <1>2
  <2> QED
    BY <2>1, <2>2
<1>11. r.parent[r.root] = NIL
  BY <1>1, <1>2, <1>3
<1>12. Shaped(r, N, E)
  BY <1>2, <1>3, <1>5, <1>7, <1>8, <1>9, <1>10, <1>11 DEF Shaped
<1> QED
  BY <1>12 DEF N, E

\* ... in which no way down gains or loses a black node ...
LEMMA RenamedHeights ==
  ASSUME NEW t, NEW M, NEW D, Shaped(t, M, D), NEW z \in M, NEW y \in Prio \ M, NEW x,
         NEW r, Renamed(r, t, M, z, y, x),
         NEW h, NEW p \in M \cup {NIL}, NEW s \in Side, Heights(t, M, h, p, s)
  PROVE  Heights(r, PutIn(M, z, y), PutHeight(h, z, y), Put(z, y, p), s)
<1> DEFINE N == PutIn(M, z, y)
           k == PutHeight(h, z, y)
           to(n) == Put(z, y, n)
           from(n) == Put(y, z, n)
<1>1. M \subseteq Prio /\ \A n \in M : n \in Node
  BY ShapedNode, SideFacts DEF Shaped
<1>2. /\ to(NIL) = NIL /\ from(NIL) = NIL
      /\ \A n \in M : to(n) \in N /\ to(n) # NIL /\ from(to(n)) = n
      /\ \A n \in N : from(n) \in M /\ n \in Node /\ n # NIL /\ to(from(n)) = n
  <2>1. Puts(M, z, y)
    BY <1>1, PutFacts
  <2> QED
    BY <2>1 DEF Puts
<1>3. /\ \A n \in M \cup {NIL} : r.colour[to(n)] = t.colour[n]
      /\ \A n \in M : \A a \in Side : r.child[a][to(n)] = to(t.child[a][n])
  BY DEF Renamed
<1>4. k \in [Node -> Nat] /\ \A n \in Node : k[n] = h[from(n)]
  <2>1. \A n \in Node : from(n) \in Node
    BY <1>1 DEF Put
  <2>2. h \in [Node -> Nat]
    BY DEF Heights
  <2>3. k = [n \in Node |-> h[from(n)]]
    BY DEF PutHeight
  <2> HIDE DEF from, k
  <2> QED
    BY <2>1, <2>2, <2>3
<1> HIDE DEF to, from, N, k
<1>5. \A n \in M \cup {NIL} : k[to(n)] = h[n]
  <2>1. \A n \in M \cup {NIL} : to(n) \in Node /\ from(to(n)) = n
    BY <1>2, NodeFacts
  <2> QED
    BY <1>4, <2>1
<1>6. h[NIL] = 0 /\ t.colour[NIL] = BLACK
  BY DEF Heights
<1>7. ASSUME NEW n \in N, NEW a \in Side
      PROVE  /\ ~(n = to(p) /\ a = s) => k[n] = k[r.child[a][n]] + r.colour[n]
             /\ n = to(p) /\ a = s => k[n] = k[r.child[a][n]] + r.colour[n] + 1
  <2>1. PICK m \in M : n = to(m)
    BY <1>2
  <2>2. PICK c : c = t.child[a][m]
    OBVIOUS
  <2>3. c \in M \cup {NIL}
    BY <2>2, ShapedNode
  <2>8. r.child[a][n] = to(c)
    BY <1>3, <2>1, <2>2
  <2>4. /\ k[n] = h[m] /\ k[r.child[a][n]] = h[c] /\ r.colour[n] = t.colour[m]
    BY <1>3, <1>5, <2>1, <2>3, <2>8
  <2>5. n = to(p) <=> m = p
    BY <1>2, <2>1
  <2>6. /\ ~(m = p /\ a = s) => h[m] = h[c] + t.colour[m]
        /\ m = p /\ a = s => h[m] = h[c] + t.colour[m] + 1
    BY <2>2 DEF Heights
  <2> QED
    BY <2>4, <2>5, <2>6
<1>8. k[NIL] = 0 /\ r.colour[NIL] = BLACK
  BY <1>2, <1>3, <1>5, <1>6
<1>9. Heights(r, N, k, to(p), s)
  BY <1>4, <1>7, <1>8 DEF Heights
<1> QED
  BY <1>9 DEF N, k, to

\* ... and no red node gets a red child.
LEMMA RenamedReds ==
  ASSUME NEW t, NEW M, NEW D, Shaped(t, M, D), NEW z \in M, NEW y \in Prio \ M, NEW x,
         NEW r, Renamed(r, t, M, z, y, x),
         NEW e \in M \cup {NIL}, RedsApart(t, M, e)
  PROVE  RedsApart(r, PutIn(M, z, y), Put(z, y, e))
<1> DEFINE N == PutIn(M, z, y)
           to(n) == Put(z, y, n)
           from(n) == Put(y, z, n)
<1>1. M \subseteq Prio /\ t.root \in M
  BY ParentOf DEF Shaped
<1>2. /\ to(NIL) = NIL /\ from(NIL) = NIL
      /\ \A n \in M : to(n) \in N /\ to(n) # NIL /\ from(to(n)) = n
      /\ \A n \in N : from(n) \in M /\ n \in Node /\ n # NIL /\ to(from(n)) = n
  <2>1. Puts(M, z, y)
    BY <1>1, PutFacts
  <2> QED
    BY <2>1 DEF Puts
<1>3. /\ r.root = to(t.root)
      /\ \A n \in M \cup {NIL} : r.colour[to(n)] = t.colour[n]
      /\ \A n \in M : \A a \in Side : r.child[a][to(n)] = to(t.child[a][n])
  BY DEF Renamed
<1> HIDE DEF to, from, N
<1>4. ASSUME NEW n \in N, n # to(e), NEW a \in Side, NEW d, d = r.child[a][n], d # to(e)
      PROVE  r.colour[n] = BLACK \/ r.colour[d] = BLACK
  <2>1. PICK m \in M : n = to(m)
    BY <1>2
  <2>2. PICK c : c = t.child[a][m]
    OBVIOUS
  <2>3. c \in M \cup {NIL} /\ d = to(c)
    <3>1. c \in M \cup {NIL}
      BY <2>2, ShapedNode
    <3>2. r.child[a][n] = to(c)
      BY <1>3, <2>1, <2>2
    <3> QED
      BY <1>4, <3>1, <3>2
  <2>4. m # e /\ c # e
    BY <1>4, <2>1, <2>3
  <2>5. t.colour[m] = BLACK \/ t.colour[c] = BLACK
    BY <2>2, <2>4 DEF RedsApart
  <2> QED
    BY <1>3, <2>1, <2>3, <2>5
<1>5. r.root # to(e) => r.colour[r.root] = BLACK
  BY <1>1, <1>3 DEF RedsApart
<1>6. RedsApart(r, N, to(e))
  BY <1>4, <1>5 DEF RedsApart
<1> QED
  BY <1>6 DEF N, to

LEMMA RenamedCorrect ==
  ASSUME NEW t, NEW M, NEW D, NEW h, Correct(t, M, D, h), NEW z \in M, NEW y \in Prio \ M, NEW x,
         \A n \in M \ {z} : \A a \in Side : Ahead(a, n, z) => Ahead(a, n, y),
         NEW r, Renamed(r, t, M, z, y, x)
  PROVE  Correct(r, PutIn(M, z, y), PutBelow(D, z, y), PutHeight(h, z, y))
<1>1. Shaped(t, M, D) /\ Heights(t, M, h, NIL, "left") /\ RedsApart(t, M, NIL)
  BY DEF Correct
<1>2. Shaped(r, PutIn(M, z, y), PutBelow(D, z, y))
  BY <1>1, RenamedShaped
<1>3. Put(z, y, NIL) = NIL
  BY <1>1, NodeFacts DEF Put, Shaped
<1>4. Heights(r, PutIn(M, z, y), PutHeight(h, z, y), Put(z, y, NIL), "left")
  BY <1>1, RenamedHeights, SideFacts
<1>5. RedsApart(r, PutIn(M, z, y), Put(z, y, NIL))
  BY <1>1, RenamedReds
<1> QED
  BY <1>2, <1>3, <1>4, <1>5 DEF Correct

LEMMA RenamedLacking ==
  ASSUME NEW t, NEW M, NEW D, NEW h, NEW x, Lacking(t, M, D, h, x),
         NEW z \in M, NEW y \in Prio \ M,
         \A n \in M \ {z} : \A a \in Side : Ahead(a, n, z) => Ahead(a, n, y),
         NEW r, Renamed(r, t, M, z, y, x)
  PROVE  Lacking(r, PutIn(M, z, y), PutBelow(D, z, y), PutHeight(h, z, y), Put(z, y, x))
<1> DEFINE N == PutIn(M, z, y)
           k == PutHeight(h, z, y)
           to(n) == Put(z, y, n)
<1>1. Shaped(t, M, D) /\ RedsApart(t, M, x) /\ x \in M \cup {NIL} /\ Short(t, M, h, x)
  BY DEF Lacking
<1>2. Shaped(r, N, PutBelow(D, z, y))
  BY <1>1, RenamedShaped
<1>3. RedsApart(r, N, to(x))
  BY <1>1, RenamedReds
<1>4. /\ to(NIL) = NIL /\ \A n \in M : to(n) \in N
      /\ \A n, m \in M \cup {NIL} : to(n) = to(m) => n = m
  <2>1. Puts(M, z, y)
    BY <1>1, PutFacts DEF Shaped
  <2> QED
    BY <2>1 DEF Puts
<1>5. /\ r.root = to(t.root)
      /\ \A n \in M \cup {x} : r.parent[to(n)] = to(t.parent[n])
      /\ \A n \in M : \A a \in Side : r.child[a][to(n)] = to(t.child[a][n])
  BY DEF Renamed
<1>6. t.root \in M
  BY <1>1, ParentOf
<1>7. PICK b \in Side : \/ x = t.root /\ Heights(t, M, h, NIL, b)
                        \/ /\ x # t.root /\ t.parent[x] \in M /\ t.child[b][t.parent[x]] = x
                           /\ Heights(t, M, h, t.parent[x], b)
  BY <1>1 DEF Short
<1>8. Short(r, N, k, to(x))
  <2>1. CASE x = t.root /\ Heights(t, M, h, NIL, b)
    <3>1. Heights(r, N, k, to(NIL), b)
      BY <1>1, <2>1, RenamedHeights
    <3> HIDE DEF to, N, k
    <3> QED
      BY <1>4, <1>5, <2>1, <3>1 DEF Short
  <2>2. CASE /\ x # t.root /\ t.parent[x] \in M /\ t.child[b][t.parent[x]] = x
             /\ Heights(t, M, h, t.parent[x], b)
    <3>1. PICK p \in M : p = t.parent[x]
      BY <2>2
    <3>2. Heights(r, N, k, to(p), b)
      BY <1>1, <2>2, <3>1, RenamedHeights
    <3> HIDE DEF to, N, k
    <3>3. to(x) # r.root /\ r.parent[to(x)] = to(p) /\ to(p) \in N /\ r.child[b][to(p)] = to(x)
      BY <1>1, <1>4, <1>5, <1>6, <2>2, <3>1
    <3> QED
      BY <3>2, <3>3 DEF Short
  <2> QED
    BY <1>7, <2>1, <2>2
<1>9. to(x) \in N \cup {NIL}
  BY <1>1, <1>4
<1> QED
  BY <1>2, <1>3, <1>8, <1>9 DEF Lacking

\* r is w with l as y's child on side s.
Grafted(r, w, y, s, l) ==
  /\ r \in Tree /\ r.root = w.root /\ r.colour = w.colour
  /\ r.child[s][y] = l /\ r.parent[l] = y
  /\ \A a \in Side : \A n \in Node : a # s \/ n # y => r.child[a][n] = w.child[a][n]
  /\ \A n \in Node \ {l} : r.parent[n] = w.parent[n]

LEMMA GraftFields ==
  ASSUME NEW w \in Tree, NEW y \in Node, NEW s \in Side, NEW l \in Node
  PROVE  Grafted([w EXCEPT !.child[s][y] = l, !.parent[l] = y], w, y, s, l)
<1> DEFINE f == [w.child EXCEPT ![s] = [w.child[s] EXCEPT ![y] = l]]
           g == [w.parent EXCEPT ![l] = y]
           q == [w EXCEPT !.child = f]
           r == [q EXCEPT !.parent = g]
<1>1. r = [w EXCEPT !.child[s][y] = l, !.parent[l] = y]
  BY DEF Tree
<1>2. w.child \in [Side -> [Node -> Node]] /\ w.parent \in [Node -> Node]
  BY DEF Tree
<1>3. /\ f \in [Side -> [Node -> Node]]
      /\ f[s][y] = l
      /\ \A a \in Side : \A n \in Node : a # s \/ n # y => f[a][n] = w.child[a][n]
  BY <1>2
<1>4. g \in [Node -> Node] /\ g[l] = y /\ \A n \in Node \ {l} : g[n] = w.parent[n]
  BY <1>2
<1> HIDE DEF f, g
<1>5. /\ q \in Tree /\ q.root = w.root /\ q.colour = w.colour /\ q.parent = w.parent /\ q.child = f
  BY <1>3, Updates
<1> HIDE DEF q
<1>6. /\ r \in Tree /\ r.root = q.root /\ r.colour = q.colour /\ r.parent = g /\ r.child = q.child
  BY <1>4, <1>5, Updates
<1> HIDE DEF r
<1>7. Grafted(r, w, y, s, l)
  BY <1>3, <1>4, <1>5, <1>6 DEF Grafted
<1> QED
  BY <1>1, <1>7

\* In out, y has been cut out of t, leaving u, and has taken over z's right child.
Opened(out, u, M, z, y, x) ==
  LET l == u.child["left"][z]
  IN  /\ out \in Tree /\ out.root = u.root /\ out.colour = u.colour
      /\ out.parent[z] = u.parent[z]
      /\ \A n \in M \ {z} : \A a \in Side : out.child[a][n] = u.child[a][n]
      /\ out.child["left"][z] = l
      /\ out.child["right"][y] = u.child["right"][z]
      /\ \A n \in (M \cup {x}) \ {l, z} : out.parent[n] = Put(z, y, u.parent[n])

\* The last three assignments: y takes over z's left child and z's colour.
LEMMA GraftRenames ==
  ASSUME NEW u, NEW M, NEW D, Shaped(u, M, D), NEW z \in M, NEW y \in Prio \ M,
         NEW x \in M \cup {NIL}, NEW out, Opened(out, u, M, z, y, x),
         NEW l, l = u.child["left"][z], l # NIL, l # x, x # z,
         NEW w, Transplanted(w, out, z, y), NEW q, Grafted(q, w, y, "left", l),
         NEW r, SamePointers(r, q), r.colour[y] = u.colour[z],
         \A n \in Node \ {y} : r.colour[n] = q.colour[n]
  PROVE  Renamed(r, u, M, z, y, x)
<1> DEFINE to(n) == Put(z, y, n)
           p == u.parent[z]
<1>1. /\ u \in Tree /\ M \subseteq Prio /\ z \in Node /\ z # NIL /\ y \in Node /\ y # NIL
      /\ y \notin M /\ z # y /\ NIL \notin M /\ NIL \in Node /\ l \in M /\ l # z
      /\ u.root \in M /\ \A n \in M : n \in Node
  <2>1. l \in M /\ l # z
    BY SideFacts, ShapedNode, ShapedLinked DEF Linked
  <2> QED
    BY <2>1, ParentOf, NodeFacts DEF Shaped
<1>2. Linked(u, M) /\ OneSided(u, M)
  BY ShapedLinked, OneSide
<1>3. /\ z = u.root => p = NIL
      /\ z # u.root => p \in M \ {z} /\ p # NIL /\ \E a \in Side : u.child[a][p] = z
  BY ParentOf
<1>4. \A n \in M : \A a \in Side : u.child[a][n] \in M \cup {NIL}
  BY ShapedNode
<1>5. /\ out \in Tree /\ out.root = u.root /\ out.colour = u.colour
      /\ out.parent[z] = p
      /\ \A n \in M \ {z} : \A a \in Side : out.child[a][n] = u.child[a][n]
      /\ out.child["left"][z] = l
      /\ out.child["right"][y] = u.child["right"][z]
      /\ \A n \in (M \cup {x}) \ {l, z} : out.parent[n] = to(u.parent[n])
  BY DEF Opened
<1>6. p # NIL => SideOf(out, p, z) = SideOf(u, p, z)
  BY <1>3, <1>5, SideFacts DEF SideOf
<1>7. /\ w \in Tree /\ w.colour = out.colour
      /\ p = NIL => w.root = y
      /\ p # NIL => w.root = out.root /\ w.child[SideOf(out, p, z)][p] = y
      /\ \A a \in Side : \A n \in Node :
            n = NIL \/ n # p \/ a # SideOf(out, p, z) => w.child[a][n] = out.child[a][n]
      /\ w.parent[y] = p
      /\ \A n \in Node \ {y} : w.parent[n] = out.parent[n]
  BY <1>5 DEF Transplanted
<1> HIDE DEF p, to
<1>8. /\ r \in Tree /\ r.root = w.root
      /\ r.child["left"][y] = l /\ r.parent[l] = y
      /\ \A a \in Side : \A n \in Node : a # "left" \/ n # y => r.child[a][n] = w.child[a][n]
      /\ \A n \in Node \ {l} : r.parent[n] = w.parent[n]
      /\ \A n \in Node \ {y} : r.colour[n] = w.colour[n]
  BY DEF Grafted, SamePointers
<1>9. /\ to(z) = y /\ \A n : n # z => to(n) = n
  BY DEF to, Put
<1>10. r.root = to(u.root)
  BY <1>3, <1>5, <1>7, <1>8, <1>9
<1>11. \A n \in M \cup {NIL} : r.colour[to(n)] = u.colour[n]
  BY <1>1, <1>5, <1>7, <1>8, <1>9
<1>12. ASSUME NEW n \in M \cup {x}
       PROVE  r.parent[to(n)] = to(u.parent[n])
  <2>1. CASE n = z
    <3>1. p # z /\ y # l
      BY <1>1, <1>3
    <3> QED
      BY <1>1, <1>7, <1>8, <1>9, <2>1, <3>1 DEF p
  <2>2. CASE n = l
    <3>1. u.parent[l] = z
      BY <1>1, <1>2, SideFacts DEF Linked
    <3> QED
      BY <1>1, <1>8, <1>9, <2>2, <3>1
  <2>3. CASE n \notin {z, l}
    <3>1. n \in Node /\ n # y
      BY <1>1
    <3> QED
      BY <1>5, <1>7, <1>8, <1>9, <2>3, <3>1
  <2> QED
    BY <2>1, <2>2, <2>3
<1>13. ASSUME NEW n \in M, NEW a \in Side
       PROVE  r.child[a][to(n)] = to(u.child[a][n])
  <2>1. CASE n = z
    <3>1. u.child[a][z] # z
      BY <1>2 DEF Linked
    <3>2. a = "left" \/ a = "right"
      BY DEF Side
    <3>3. CASE a = "left"
      BY <1>8, <1>9, <2>1, <3>1, <3>3
    <3>4. CASE a = "right"
      <4>1. r.child[a][y] = w.child[a][y]
        BY <1>1, <1>8, <3>4
      <4>2. y = NIL \/ y # p
        BY <1>1, <1>3
      <4>3. w.child[a][y] = out.child[a][y]
        BY <1>1, <1>7, <4>2
      <4> QED
        BY <1>5, <1>9, <2>1, <3>1, <3>4, <4>1, <4>3
    <3> QED
      BY <3>2, <3>3, <3>4
  <2>2. CASE n # z
    <3>1. r.child[a][n] = w.child[a][n] /\ n \in Node /\ n # NIL /\ out.child[a][n] = u.child[a][n]
      BY <1>1, <1>5, <1>8, <2>2
    <3>2. CASE u.child[a][n] = z
      <4>1. n = p
        BY <1>1, <1>2, <3>2 DEF Linked, p
      <4>2. \E b \in Side : a # b
        BY SideFacts
      <4>3. SideOf(u, p, z) = a
        BY <1>1, <1>2, <3>2, <4>1, <4>2 DEF OneSided
      <4>4. p # NIL
        BY <3>1, <4>1
      <4>5. w.child[a][p] = y
        BY <1>6, <1>7, <4>3, <4>4
      <4> QED
        BY <1>9, <2>2, <3>1, <3>2, <4>1, <4>5
    <3>3. CASE u.child[a][n] # z
      <4>1. n = p => a # SideOf(out, p, z)
        <5>1. SUFFICES ASSUME n = p PROVE a # SideOf(out, p, z)
          OBVIOUS
        <5>2. p # NIL
          BY <3>1, <5>1
        <5>3. PICK b \in Side : u.child[b][p] = z
          BY <1>3, <5>2
        <5>4. a # b
          BY <3>3, <5>1, <5>3
        <5>5. SideOf(u, p, z) = b
          BY <1>1, <1>2, <5>1, <5>3, <5>4 DEF OneSided
        <5> QED
          BY <1>6, <5>2, <5>4, <5>5
      <4>2. w.child[a][n] = out.child[a][n]
        BY <1>7, <3>1, <4>1
      <4> QED
        BY <1>9, <2>2, <3>1, <3>3, <4>2
    <3> QED
      BY <3>2, <3>3
  <2> QED
    BY <2>1, <2>2
<1>14. Renamed(r, u, M, z, y, x)
  BY <1>8, <1>10, <1>11, <1>12, <1>13 DEF Renamed, to
<1> QED
  BY <1>14

\* A node outside the subtree at z has the whole of it on one side.
LEMMA Between ==
  ASSUME NEW t, NEW M, NEW D, Shaped(t, M, D), NEW z \in M, NEW n \in M, n \notin D[z]
  PROVE  \E b \in Side : \A y \in D[z] : Ahead(b, y, n)
<1> DEFINE apart(m) == \E b \in Side : \A y \in D[z] : Ahead(b, y, m)
           S == {k \in M : z \in D[k] => \A m \in D[k] : m \in D[z] \/ apart(m)}
<1>1. M \subseteq Prio /\ D \in [Node -> SUBSET M] /\ D[t.root] = M /\ t.root \in M
  BY ParentOf DEF Shaped
<1>2. ASSUME NEW k \in M, \A a \in Side : t.child[a][k] # NIL => t.child[a][k] \in S
      PROVE  k \in S
  <2>1. SUFFICES ASSUME z \in D[k], NEW m \in D[k], m \notin D[z] PROVE apart(m)
    OBVIOUS
  <2>2. z # k
    BY <2>1
  <2>3. PICK a \in Side : t.child[a][k] \in M /\ z \in D[t.child[a][k]] /\ D[z] \subseteq D[t.child[a][k]]
    BY <2>1, <2>2, NestedSide
  <2>4. PICK c, d : c = t.child[a][k] /\ d = t.child[Other(a)][k]
    OBVIOUS
  <2>5. /\ D[k] = {k} \cup D[c] \cup D[d] /\ c \in M /\ D[z] \subseteq D[c] /\ z \in D[c]
        /\ k \in Prio /\ D[c] \subseteq M /\ D[d] \subseteq M
        /\ \A y \in D[c] : Ahead(a, y, k)
        /\ \A y \in D[d] : Ahead(Other(a), y, k)
    <3>1. Other(a) \in Side
      BY SideFacts
    <3>2. D[k] = {k} \cup D[c] \cup D[d] /\ D[k] \subseteq M /\ k \in Prio
      BY <2>4, ShapedNode
    <3>3. \A y \in D[c] : Ahead(a, y, k)
      BY <2>4, ShapedNode
    <3>4. \A y \in D[d] : Ahead(Other(a), y, k)
      BY <2>4, <3>1, ShapedNode
    <3> QED
      BY <2>3, <2>4, <3>2, <3>3, <3>4
  <2>6. CASE m = k
    BY <2>5, <2>6
  <2>7. CASE m \in D[c]
    <3>1. c # NIL
      BY <2>5, ShapedNode, SideFacts
    <3>2. c \in S
      BY <1>2, <2>4, <3>1
    <3> QED
      BY <2>1, <2>5, <2>7, <3>2
  <2>8. CASE m \in D[d]
    <3>1. ASSUME NEW y \in D[z]
          PROVE  Ahead(a, y, m)
      <4>1. Ahead(a, y, k) /\ Ahead(Other(a), m, k) /\ y \in Prio /\ m \in Prio /\ k \in Prio
        BY <1>1, <2>5, <2>8
      <4> QED
        BY <4>1, AheadFacts, SideFacts
    <3> QED
      BY <3>1
  <2> QED
    BY <2>1, <2>5, <2>6, <2>7, <2>8
<1> HIDE DEF apart
<1>3. M \subseteq S
  <2> HIDE DEF S
  <2> QED
    BY <1>2, BottomUp
<1>4. apart(n)
  BY <1>1, <1>3
<1> QED
  BY <1>4 DEF apart

\* y is z's successor and x its only child, if it has one.
Succeeds(t, M, D, z, l, c, y, x) ==
  /\ z \in M /\ l = t.child["left"][z] /\ c = t.child["right"][z]
  /\ l # NIL /\ c # NIL /\ l \in M /\ c \in M /\ l # z /\ c # z /\ l # c
  /\ y \in M /\ y # z /\ y \in D[c] /\ t.child["left"][y] = NIL /\ y # t.root /\ y # l
  /\ t.parent[y] \in M /\ t.parent[y] # y /\ (t.parent[y] = z <=> y = c)
  /\ x = t.child["right"][y] /\ x \in M \cup {NIL} /\ x # z /\ x # y /\ x # l /\ x # c
  /\ t.parent[l] = z /\ t.parent[c] = z
  /\ \A n \in M \ {z} : \A a \in Side : Ahead(a, n, z) /\ n # y => Ahead(a, n, y)

LEMMA SuccessorSucceeds ==
  ASSUME NEW t, NEW M, NEW D, Shaped(t, M, D), NEW z \in M,
         NEW l, l = t.child["left"][z], NEW c, c = t.child["right"][z], l # NIL, c # NIL,
         NEW y, IsLeftmost(t, M, D, c, y), NEW x, x = t.child["right"][y]
  PROVE  Succeeds(t, M, D, z, l, c, y, x)
<1>1. Linked(t, M) /\ OneSided(t, M) /\ M \subseteq Prio
  BY ShapedLinked, OneSide DEF Shaped
<1>2. Other("left") = "right" /\ "left" \in Side /\ "right" \in Side /\ "left" # "right"
  BY SideFacts DEF Other
<1>3. /\ l \in M /\ c \in M /\ D[c] \subseteq D[z] /\ z \notin D[c]
      /\ D[z] = {z} \cup D[l] \cup D[c]
      /\ (\A m \in D[l] : Ahead("left", m, z)) /\ (\A m \in D[c] : Ahead("right", m, z))
      /\ z \in Node /\ z \in Prio /\ D[z] \subseteq M /\ z \in D[z]
  BY <1>2, ShapedNode
<1>4. /\ t.parent[l] = z /\ t.parent[c] = z /\ l # z /\ c # z /\ l # c
  BY <1>1, <1>2 DEF Linked, OneSided
<1>5. /\ y \in M /\ y \in D[c] /\ t.child["left"][y] = NIL
      /\ \A k \in D[c] : k = y \/ y < k
  BY DEF IsLeftmost
<1>6. l \in D[l] /\ c \in D[c]
  BY <1>2, <1>3, ShapedNode
<1>7. \A m \in D[l] : m \notin D[c]
  BY <1>1, <1>2, <1>3, AheadFacts
<1>8. y # z /\ y # l
  BY <1>3, <1>5, <1>6, <1>7
<1>9. y # t.root
  <2>1. SUFFICES ASSUME y = t.root PROVE FALSE
    OBVIOUS
  <2>2. D[y] = M
    BY <2>1 DEF Shaped
  <2>3. D[y] \subseteq D[c]
    BY <1>3, <1>5, Nested
  <2> QED
    BY <1>3, <2>2, <2>3
<1>10. t.parent[y] \in M /\ t.parent[y] # y
  BY <1>5, <1>9, ParentOf
<1>11. t.parent[y] = z <=> y = c
  <2>1. ASSUME y # c PROVE t.parent[y] \in D[c]
    BY <1>3, <1>5, <2>1, Nested
  <2> QED
    BY <1>3, <1>4, <2>1
<1>12. /\ x \in M \cup {NIL} /\ x # y /\ x # z /\ x # l /\ x # c
  <2>1. x \in M \cup {NIL} /\ x # y /\ (x # NIL => t.parent[x] = y)
    BY <1>1, <1>2, <1>5, ShapedNode DEF Linked
  <2>2. x # l /\ x # c
    BY <1>4, <1>8, <2>1
  <2>3. x # z
    <3>1. SUFFICES ASSUME x = z PROVE FALSE
      OBVIOUS
    <3>2. D[x] \subseteq D[y]
      BY <1>2, <1>5, ShapedNode
    <3>3. D[y] \subseteq D[c]
      BY <1>3, <1>5, Nested
    <3> QED
      BY <1>3, <3>1, <3>2, <3>3
  <2> QED
    BY <2>1, <2>2, <2>3
<1>13. ASSUME NEW n \in M \ {z}, NEW a \in Side, Ahead(a, n, z), n # y
       PROVE  Ahead(a, n, y)
  <2>1. Ahead("right", y, z)
    BY <1>3, <1>5
  <2>2. n \in Prio /\ y \in Prio /\ z \in Prio
    BY <1>1, <1>5
  <2>3. a = "left" \/ a = "right"
    BY DEF Side
  <2>4. CASE a = "left"
    <3>1. Ahead("left", z, y)
      BY <1>2, <2>1, <2>2, AheadFacts
    <3> QED
      BY <1>2, <1>13, <2>2, <2>4, <3>1, AheadFacts
  <2>5. CASE a = "right"
    \* n is after z: it is below c, or z is on the left of a node above.
    <3>1. CASE n \in D[c]
      <4>1. y < n
        BY <1>5, <1>13, <3>1
      <4> QED
        BY <2>5, <4>1 DEF Ahead
    <3>2. CASE n \notin D[c]
      <4>1. n \notin D[z]
        <5>1. n \in D[l] => Ahead("left", n, z)
          BY <1>3
        <5>2. ~(Ahead("left", n, z) /\ Ahead("right", n, z))
          BY <1>2, <2>2, AheadFacts
        <5> QED
          BY <1>3, <1>13, <2>5, <3>2, <5>1, <5>2
      <4>2. y \in D[z]
        BY <1>3, <1>5
      <4>3. \E b \in Side : \A k \in D[z] : Ahead(b, k, n)
        BY <4>1, Between
      <4>4. PICK b \in Side : Ahead(b, y, n) /\ Ahead(b, z, n)
        BY <1>3, <4>2, <4>3
      <4>5. Ahead("left", z, n)
        BY <1>2, <1>13, <2>2, <2>5, AheadFacts
      <4>6. b = "left"
        BY <1>2, <2>2, <4>4, <4>5, AheadFacts, SideFacts
      <4> QED
        BY <1>2, <2>2, <2>5, <4>4, <4>6, AheadFacts
    <3> QED
      BY <3>1, <3>2
  <2> QED
    BY <2>3, <2>4, <2>5
<1>14. Succeeds(t, M, D, z, l, c, y, x)
  BY <1>3, <1>4, <1>5, <1>8, <1>9, <1>10, <1>11, <1>12, <1>13 DEF Succeeds
<1> QED
  BY <1>14

\* y, cut out of t and given z's right child.
Moved(t, z, y, x) ==
  IF t.parent[y] = z THEN [t EXCEPT !.parent[x] = y]
  ELSE [rb_transplant(t, y, x) EXCEPT !.child["right"][y] = t.child["right"][z],
                                      !.parent[t.child["right"][z]] = y]

LEMMA MovedOpened ==
  ASSUME NEW t, NEW M, NEW D, Shaped(t, M, D), NEW z, NEW l, NEW c, NEW y, NEW x,
         Succeeds(t, M, D, z, l, c, y, x),
         NEW u, u = rb_transplant(t, y, x), NEW N, N = M \ {y}, NEW E, Shaped(u, N, E)
  PROVE  Opened(Moved(t, z, y, x), u, N, z, y, x) /\ u.child["left"][z] = l /\ z \in N
<1> DEFINE out == Moved(t, z, y, x)
           to(n) == Put(z, y, n)
<1>1. /\ z \in M /\ l = t.child["left"][z] /\ c = t.child["right"][z]
      /\ l # NIL /\ c # NIL /\ l \in M /\ c \in M /\ l # z /\ c # z /\ l # c
      /\ y \in M /\ y # z /\ t.child["left"][y] = NIL /\ y # t.root /\ y # l
      /\ t.parent[y] \in M /\ t.parent[y] # y /\ (t.parent[y] = z <=> y = c)
      /\ x = t.child["right"][y] /\ x \in M \cup {NIL} /\ x # z /\ x # y /\ x # l /\ x # c
      /\ t.parent[l] = z /\ t.parent[c] = z
  BY DEF Succeeds
<1>2. /\ t \in Tree /\ Linked(t, M) /\ Linked(u, N) /\ NIL \in Node
      /\ x \in Node /\ y \in Node /\ z \in Node /\ c \in Node /\ z # NIL /\ y # NIL
      /\ \A n \in M : n \in Node /\ n # NIL
  <2>1. Linked(t, M)
    BY ShapedLinked
  <2>2. Linked(u, N)
    BY ShapedLinked
  <2>3. t \in Tree
    BY DEF Shaped
  <2> QED
    BY <1>1, <2>1, <2>2, <2>3, NodeFacts DEF Linked
<1>3. Cut(u, t, M, y, x)
  BY <1>1, <1>2, TransplantCuts
<1>4. /\ u \in Tree /\ u.colour = t.colour /\ u.root = t.root
      /\ u.parent[x] = t.parent[y]
      /\ \A n \in Node \ {x} : u.parent[n] = t.parent[n]
      /\ \A n \in M : \A a \in Side :
            /\ t.child[a][n] = y => u.child[a][n] = x
            /\ t.child[a][n] # y => u.child[a][n] = t.child[a][n]
  BY <1>1, <1>3 DEF Cut
<1>5. /\ \A n : n # z => to(n) = n
      /\ to(z) = y
  BY DEF Put
<1> HIDE DEF to
<1>6. u.child["left"][z] = l
  BY <1>1, <1>4, SideFacts
<1>7. z \in N
  BY <1>1
\* Only its children have z for a parent.
<1>8. ASSUME NEW n \in N \cup {x}, n # x, u.parent[n] = z
      PROVE  n = l \/ n = u.child["right"][z]
  <2>1. n \in N /\ n # u.root
    <3>1. u.parent[u.root] = NIL
      BY <1>7, ParentOf DEF Shaped
    <3> QED
      BY <1>2, <1>8, <3>1
  <2>2. \E a \in Side : u.child[a][z] = n
    BY <1>8, <2>1, ParentOf
  <2> QED
    BY <1>6, <2>2 DEF Side
<1>9. CASE t.parent[y] = z
  <2> DEFINE g == [t.parent EXCEPT ![x] = y]
  <2>1. out = [t EXCEPT !.parent = g]
    BY <1>2, <1>9 DEF Moved, Tree
  <2>2. g \in [Node -> Node] /\ g[x] = y /\ \A n \in Node \ {x} : g[n] = t.parent[n]
    BY <1>2 DEF Tree
  <2> HIDE DEF g, out
  <2>3. /\ out \in Tree /\ out.root = t.root /\ out.colour = t.colour /\ out.child = t.child
        /\ out.parent = g
    BY <1>2, <2>1, <2>2, Updates
  <2>4. /\ out.root = u.root /\ out.colour = u.colour /\ out.parent[z] = u.parent[z]
        /\ out.child["left"][z] = l
    <3>1. g[z] = t.parent[z] /\ u.parent[z] = t.parent[z]
      BY <1>1, <1>2, <1>4, <2>2
    <3>2. out.root = u.root /\ out.colour = u.colour /\ out.child["left"][z] = l
      BY <1>1, <1>4, <2>3
    <3> QED
      BY <2>3, <3>1, <3>2
  <2>5. ASSUME NEW n \in N \ {z}, NEW a \in Side
        PROVE  out.child[a][n] = u.child[a][n]
    <3>1. t.child[a][n] # y
      BY <1>2, <1>9 DEF Linked
    <3> QED
      BY <1>4, <2>3, <3>1
  <2>6. u.child["right"][z] = x /\ out.child["right"][y] = x
    BY <1>1, <1>4, <1>9, <2>3, SideFacts
  <2>7. ASSUME NEW n \in (N \cup {x}) \ {l, z}
        PROVE  out.parent[n] = to(u.parent[n])
    <3>1. CASE n = x
      BY <1>4, <1>5, <1>9, <2>2, <2>3, <3>1
    <3>2. CASE n # x
      <4>1. u.parent[n] # z
        BY <1>8, <2>6, <3>2
      <4>2. n \in Node
        BY <1>2, <3>2
      <4> QED
        BY <1>4, <1>5, <2>2, <2>3, <3>2, <4>1, <4>2
    <3> QED
      BY <3>1, <3>2
  <2>8. Opened(out, u, N, z, y, x)
    BY <1>6, <2>3, <2>4, <2>5, <2>6, <2>7 DEF Opened, to
  <2> QED
    BY <1>6, <1>7, <2>8 DEF out
<1>10. CASE t.parent[y] # z
  <2>1. y # c
    BY <1>1, <1>10
  <2>2. out = [u EXCEPT !.child["right"][y] = c, !.parent[c] = y]
    BY <1>1, <1>10 DEF Moved
  <2> HIDE DEF out
  <2>3. Grafted(out, u, y, "right", c)
    BY <1>2, <1>4, <2>2, GraftFields, SideFacts
  <2>4. /\ out \in Tree /\ out.root = u.root /\ out.colour = u.colour
        /\ out.child["right"][y] = c /\ out.parent[c] = y
        /\ \A a \in Side : \A n \in Node : a # "right" \/ n # y => out.child[a][n] = u.child[a][n]
        /\ \A n \in Node \ {c} : out.parent[n] = u.parent[n]
    BY <2>3 DEF Grafted
  <2>5. /\ \A n \in N \ {z} : \A a \in Side : out.child[a][n] = u.child[a][n]
        /\ out.child["left"][z] = l /\ out.parent[z] = u.parent[z]
    <3>1. \A n \in N \ {z} : n # y /\ n \in Node
      BY <1>2
    <3>2. \A n \in N \ {z} : \A a \in Side : out.child[a][n] = u.child[a][n]
      BY <2>4, <3>1
    <3>3. out.child["left"][z] = l
      BY <1>1, <1>2, <1>6, <2>4, SideFacts
    <3>4. out.parent[z] = u.parent[z]
      BY <1>1, <1>2, <2>4
    <3> QED
      BY <3>2, <3>3, <3>4
  <2>6. u.child["right"][z] = c
    BY <1>1, <1>4, <2>1, SideFacts
  <2>7. ASSUME NEW n \in (N \cup {x}) \ {l, z}
        PROVE  out.parent[n] = to(u.parent[n])
    <3>1. CASE n = x
      <4>1. u.parent[x] = t.parent[y]
        BY <1>4
      <4>2. x # c /\ x \in Node
        BY <1>1, <1>2
      <4>3. out.parent[x] = u.parent[x]
        BY <2>4, <4>2
      <4>4. to(t.parent[y]) = t.parent[y]
        BY <1>5, <1>10
      <4> QED
        BY <3>1, <4>1, <4>3, <4>4
    <3>2. CASE n = c
      BY <1>1, <1>2, <1>4, <1>5, <2>4, <3>2
    <3>3. CASE n \notin {x, c}
      <4>1. u.parent[n] # z
        BY <1>8, <2>6, <3>3
      <4>2. n \in Node
        BY <1>2, <3>3
      <4> QED
        BY <1>5, <2>4, <3>3, <4>1, <4>2
    <3> QED
      BY <3>1, <3>2, <3>3
  <2>8. Opened(out, u, N, z, y, x)
    BY <1>6, <2>4, <2>5, <2>6, <2>7 DEF Opened, to
  <2> QED
    BY <1>6, <1>7, <2>8 DEF out
<1> QED
  BY <1>9, <1>10

SplicedBy(t, z, y, x) ==
  LET out == Moved(t, z, y, x)
  IN  [rb_transplant(out, z, y) EXCEPT !.child["left"][y] = out.child["left"][z],
                                       !.parent[out.child["left"][z]] = y,
                                       !.colour[y] = out.colour[z]]

LEMMA SplicedRenames ==
  ASSUME NEW t, NEW M, NEW D, Shaped(t, M, D), NEW z, NEW l, NEW c, NEW y, NEW x,
         Succeeds(t, M, D, z, l, c, y, x), y = rb_min(t, c),
         NEW u, u = rb_transplant(t, y, x), NEW N, N = M \ {y}, NEW E, Shaped(u, N, E)
  PROVE  Renamed(Spliced(t, z), u, N, z, y, x)
<1> DEFINE out == Moved(t, z, y, x)
           w == rb_transplant(out, z, y)
           q == [w EXCEPT !.child["left"][y] = l, !.parent[l] = y]
           f == [q.colour EXCEPT ![y] = out.colour[z]]
           r == [q EXCEPT !.colour = f]
<1>1. /\ z \in M /\ c = t.child["right"][z] /\ l # NIL /\ l \in M /\ y \in M
      /\ x = t.child["right"][y] /\ x \in M \cup {NIL} /\ x # z /\ x # y /\ x # l
  BY DEF Succeeds
<1>2. /\ M \subseteq Prio /\ z \in Node /\ y \in Node /\ l \in Node /\ y \in Prio \ N /\ x \in N \cup {NIL}
  BY <1>1, NodeFacts DEF Shaped
<1>3. Opened(out, u, N, z, y, x) /\ u.child["left"][z] = l /\ z \in N
  BY MovedOpened
<1>4. out \in Tree /\ out.colour = u.colour /\ out.child["left"][z] = l
  BY <1>3 DEF Opened
<1>5. Spliced(t, z) = [w EXCEPT !.child["left"][y] = out.child["left"][z],
                                !.parent[out.child["left"][z]] = y,
                                !.colour[y] = out.colour[z]]
  <2> DEFINE Y == rb_min(t, t.child["right"][z])
             X == t.child["right"][Y]
  <2>1. Spliced(t, z) = SplicedBy(t, z, Y, X)
    BY DEF Spliced, SplicedBy, Moved
  <2>2. Y = y
    BY <1>1
  <2> HIDE DEF Y
  <2>3. X = x
    BY <1>1, <2>2
  <2> HIDE DEF X
  <2>4. Spliced(t, z) = SplicedBy(t, z, y, x)
    BY <2>1, <2>2, <2>3
  <2> QED
    BY <2>4 DEF SplicedBy
<1> HIDE DEF out
<1>6. Transplanted(w, out, z, y)
  BY <1>2, <1>4, TransplantFields
<1>7. w \in Tree
  BY <1>6 DEF Transplanted
<1> HIDE DEF w
<1>8. Spliced(t, z) = r
  <2>1. Spliced(t, z) = [w EXCEPT !.child["left"][y] = l, !.parent[l] = y, !.colour[y] = out.colour[z]]
    BY <1>4, <1>5
  <2> QED
    BY <1>7, <2>1 DEF Tree
<1>9. Grafted(q, w, y, "left", l)
  BY <1>2, <1>7, GraftFields, SideFacts
<1> HIDE DEF q
<1>10. q \in Tree
  BY <1>9 DEF Grafted
<1>11. /\ f \in [Node -> {RED, BLACK}] /\ f[y] = u.colour[z]
       /\ \A n \in Node \ {y} : f[n] = q.colour[n]
  <2>1. out.colour[z] \in {RED, BLACK}
    BY <1>2, <1>4, TreeFields
  <2> QED
    BY <1>2, <1>4, <1>10, <2>1 DEF Tree
<1> HIDE DEF f
<1>12. SamePointers(r, q) /\ r.colour = f
  BY <1>10, <1>11, Updates DEF SamePointers
<1> HIDE DEF r
<1>13. Renamed(r, u, N, z, y, x)
  <2>1. l = u.child["left"][z]
    BY <1>3
  <2>2. r.colour[y] = u.colour[z] /\ \A n \in Node \ {y} : r.colour[n] = q.colour[n]
    BY <1>11, <1>12
  <2> QED
    BY <1>1, <1>2, <1>3, <1>6, <1>9, <1>12, <2>1, <2>2, GraftRenames
<1> QED
  BY <1>8, <1>13

-----------------------------------------------------------------------------
(* Removal: the loop that makes up for the missing black node.             *)

\* x, on side s of p, is black and one black node short of its sibling w.
Deficit(t, M, D, h, x, p, s, o, w) ==
  /\ Shaped(t, M, D) /\ RedsApart(t, M, NIL) /\ Heights(t, M, h, p, s)
  /\ x \in M \cup {NIL} /\ x # t.root /\ t.colour[x] = BLACK
  /\ p = t.parent[x] /\ p \in M /\ s = SideOf(t, p, x) /\ s \in Side /\ o = Other(s) /\ o \in Side /\ o # s
  /\ t.child[s][p] = x /\ w = t.child[o][p] /\ w \in M /\ w # NIL /\ w # p /\ w # x /\ x # p
  /\ t.root \in M /\ t.root # w
  /\ h[w] = h[x] + 1 /\ h[p] = h[w] + t.colour[p] /\ h[x] \in Nat

LEMMA DeficitHolds ==
  ASSUME NEW t, NEW M, NEW D, Shaped(t, M, D), RedsApart(t, M, NIL),
         NEW x \in M \cup {NIL}, x # t.root, t.colour[x] = BLACK,
         NEW p \in M, p = t.parent[x], NEW s \in Side, t.child[s][p] = x,
         NEW h, Heights(t, M, h, p, s), NEW o, o = Other(s), NEW w, w = t.child[o][p]
  PROVE  Deficit(t, M, D, h, x, p, s, o, w)
<1>1. /\ Linked(t, M) /\ OneSided(t, M)
  BY ShapedLinked, OneSide
<1>2. o \in Side /\ o # s
  BY SideFacts
<1>3. /\ h \in [Node -> Nat] /\ h[NIL] = 0 /\ h[p] = h[x] + t.colour[p] + 1
      /\ h[p] = h[w] + t.colour[p]
  BY <1>2 DEF Heights
<1>4. w \in M \cup {NIL} /\ w \in Node /\ x \in Node /\ p \in Node /\ w # p /\ x # p
  BY <1>1, <1>2, ShapedNode DEF Linked
<1>5. h[w] = h[x] + 1 /\ h[x] \in Nat
  <2>1. t \in Tree
    BY DEF Shaped
  <2>2. t.colour[p] \in Nat
    BY <1>4, <2>1, TreeFields, NodeFacts
  <2>3. h[w] \in Nat /\ h[x] \in Nat
    BY <1>3, <1>4
  <2> QED
    BY <1>3, <2>2, <2>3
<1>6. w # NIL /\ w \in M /\ w # x
  BY <1>3, <1>4, <1>5
<1>7. s = SideOf(t, p, x)
  <2>1. SideOf(t, p, w) = o
    BY <1>1, <1>2, <1>6 DEF OneSided
  <2>2. x = t.child["left"][p] => s = "left"
    BY <1>2, <1>6, SideFacts
  <2>3. x # t.child["left"][p] => s = "right"
    BY DEF Side
  <2> QED
    BY <2>2, <2>3 DEF SideOf
<1>8. t.root \in M /\ t.root # w
  <2>1. t.parent[w] = p /\ p # NIL
    BY <1>1, <1>2, <1>6 DEF Linked
  <2> QED
    BY <1>6, <2>1, ParentOf
<1> QED
  BY <1>2, <1>3, <1>4, <1>5, <1>6, <1>7, <1>8 DEF Deficit

LEMMA LackingDeficit ==
  ASSUME NEW t, NEW M, NEW D, NEW h, NEW x, Lacking(t, M, D, h, x),
         x # t.root, t.colour[x] = BLACK
  PROVE  \E p, s, o, w : Deficit(t, M, D, h, x, p, s, o, w)
<1>1. Shaped(t, M, D) /\ RedsApart(t, M, x) /\ x \in M \cup {NIL} /\ Short(t, M, h, x)
  BY DEF Lacking
<1>2. PICK p \in M, s \in Side : p = t.parent[x] /\ t.child[s][p] = x /\ Heights(t, M, h, p, s)
  BY <1>1 DEF Short
<1>3. RedsApart(t, M, NIL)
  <2>1. t.colour[t.root] = BLACK
    BY <1>1 DEF RedsApart
  <2>2. ASSUME NEW n \in M, NEW a \in Side, NEW c, c = t.child[a][n], c # NIL
        PROVE  t.colour[n] = BLACK \/ t.colour[c] = BLACK
    BY <1>1, <2>2 DEF RedsApart
  <2> QED
    BY <2>1, <2>2 DEF RedsApart
<1>4. PICK o, w : o = Other(s) /\ w = t.child[o][p]
  OBVIOUS
<1> QED
  BY <1>1, <1>2, <1>3, <1>4, DeficitHolds

\* Black sibling, black nephews: the sibling turns red, and p is short instead.
LEMMA BlackNephews ==
  ASSUME NEW t, NEW M, NEW D, NEW h, NEW x, NEW p, NEW s, NEW o, NEW w,
         Deficit(t, M, D, h, x, p, s, o, w), t.colour[w] = BLACK,
         \A a \in Side : t.colour[t.child[a][w]] = BLACK,
         NEW r, Repainted(r, t, {}, {w})
  PROVE  \E k : Lacking(r, M, D, k, p)
<1> DEFINE k == [h EXCEPT ![w] = h[x], ![p] = h[x] + t.colour[p]]
<1>1. /\ Shaped(t, M, D) /\ RedsApart(t, M, NIL) /\ Heights(t, M, h, p, s)
      /\ p \in M /\ s \in Side /\ o \in Side /\ o # s /\ x # p
      /\ t.child[s][p] = x /\ w = t.child[o][p] /\ w \in M /\ w # NIL /\ w # p /\ w # x
      /\ t.root \in M /\ t.root # w
      /\ h[w] = h[x] + 1 /\ h[p] = h[w] + t.colour[p] /\ h[x] \in Nat
  BY DEF Deficit
<1>2. /\ Linked(t, M) /\ OneSided(t, M)
      /\ \A n \in M : n \in Node /\ n # NIL
  BY <1>1, ShapedLinked, OneSide DEF Linked
<1>3. /\ h \in [Node -> Nat] /\ h[NIL] = 0 /\ t.colour[NIL] = BLACK
      /\ \A n \in M : \A a \in Side :
            ~(n = p /\ a = s) => h[n] = h[t.child[a][n]] + t.colour[n]
  BY <1>1 DEF Heights
<1>4. t.colour[p] \in Nat
  BY <1>1, <1>2, TreeFields, NodeFacts DEF Shaped
<1>5. /\ r.root = t.root /\ r.child = t.child /\ r.parent = t.parent /\ r.colour[w] = RED
      /\ \A n \in Node \ {w} : r.colour[n] = t.colour[n]
  BY DEF Repainted, SamePointers
<1>6. /\ k \in [Node -> Nat] /\ k[w] = h[x] /\ k[p] = h[x] + t.colour[p]
      /\ \A n \in Node \ {w, p} : k[n] = h[n]
  BY <1>1, <1>2, <1>3, <1>4
<1> HIDE DEF k
<1>7. Shaped(r, M, D)
  BY <1>1, PaintShaped DEF Repainted
<1>8. /\ k[NIL] = 0 /\ r.colour[NIL] = BLACK
  BY <1>1, <1>2, <1>3, <1>5, <1>6, NodeFacts
\* Every number is right but those of p's parent.
<1>9. ASSUME NEW n \in M, NEW a \in Side, NEW c, c = t.child[a][n]
      PROVE  /\ c # p => k[n] = k[c] + r.colour[n]
             /\ c = p => k[n] = k[c] + r.colour[n] + 1
  <2>1. n \in Node /\ c \in Node /\ c # n /\ (c # NIL => t.parent[c] = n)
    BY <1>2, <1>9 DEF Linked
  <2>2. CASE n = p
    <3>1. c # p /\ r.colour[n] = t.colour[n] /\ n # w
      BY <1>1, <1>2, <1>5, <2>1, <2>2
    <3>2. a = s \/ a = o
      BY <1>1, SideFacts DEF Side
    <3>3. k[c] = h[x]
      <4>1. CASE a = s
        <5>1. x \in Node /\ x \notin {w, p} /\ c = x
          BY <1>1, <1>9, <2>1, <2>2, <4>1
        <5> QED
          BY <1>6, <5>1
      <4>2. CASE a = o
        BY <1>1, <1>6, <1>9, <2>2, <4>2
      <4> QED
        BY <3>2, <4>1, <4>2
    <3> QED
      BY <1>6, <2>2, <3>1, <3>3
  <2>3. CASE n = w
    <3>1. c # p /\ c # w
      <4>1. t.parent[w] = p
        BY <1>1, <1>2 DEF Linked
      <4>2. c # p
        <5>1. SUFFICES ASSUME c = p PROVE FALSE
          OBVIOUS
        <5>2. w \in D[w] /\ D[c] \subseteq D[w] /\ w \notin D[c] /\ D[w] \subseteq D[p] /\ w \in D[p]
          <6>1. w \in D[w] /\ D[c] \subseteq D[w] /\ w \notin D[c]
            BY <1>1, <1>9, <2>3, ShapedNode
          <6>2. D[w] \subseteq D[p]
            BY <1>1, ShapedNode
          <6> QED
            BY <6>1, <6>2
        <5> QED
          BY <5>1, <5>2
      <4> QED
        BY <2>1, <2>3, <4>2
    <3>2. k[c] = h[c] /\ h[n] = h[c] + 1 /\ r.colour[n] = 0 /\ h[c] \in Nat
      <4>1. t.colour[n] = 1
        BY <2>3, NodeFacts
      <4>2. ~(n = p /\ a = s)
        BY <1>1, <2>3
      <4>3. h[n] = h[c] + t.colour[n]
        BY <1>3, <1>9, <4>2
      <4>4. k[c] = h[c]
        BY <1>6, <2>1, <3>1
      <4>5. r.colour[n] = 0
        BY <1>5, <2>3, NodeFacts
      <4>6. h[c] \in Nat
        BY <1>3, <2>1
      <4> QED
        BY <4>1, <4>3, <4>4, <4>5, <4>6
    <3>3. k[n] = h[x]
      BY <1>6, <2>3
    <3> QED
      BY <1>1, <2>3, <3>1, <3>2, <3>3
  <2>4. CASE n \notin {p, w}
    <3>1. c # w
      <4>1. t.parent[w] = p
        BY <1>1, <1>2 DEF Linked
      <4> QED
        BY <1>1, <2>1, <2>4, <4>1
    <3>2. k[n] = h[n] /\ r.colour[n] = t.colour[n] /\ h[n] = h[c] + t.colour[n]
      BY <1>3, <1>5, <1>6, <1>9, <2>1, <2>4
    <3>3. CASE c = p
      <4>1. t.colour[n] \in Nat
        BY <1>1, <2>1, TreeFields, NodeFacts DEF Shaped
      <4> QED
        BY <1>1, <1>4, <1>6, <3>2, <3>3, <4>1
    <3>4. CASE c # p
      BY <1>6, <2>1, <3>1, <3>2, <3>4
    <3> QED
      BY <3>3, <3>4
  <2> QED
    BY <2>2, <2>3, <2>4
<1>10. Short(r, M, k, p)
  <2>1. CASE p = t.root
    <3>1. ASSUME NEW n \in M, NEW a \in Side
          PROVE  t.child[a][n] # p
      <4>1. t.parent[p] = NIL
        BY <1>1, <2>1, ParentOf
      <4> QED
        BY <1>1, <1>2, <4>1 DEF Linked
    <3>2. \A n \in M : n # NIL /\ \A a \in Side : k[n] = k[r.child[a][n]] + r.colour[n]
      BY <1>2, <1>5, <1>9, <3>1
    <3>3. Heights(r, M, k, NIL, s)
      BY <1>6, <1>8, <3>2 DEF Heights
    <3> QED
      BY <1>1, <1>5, <2>1, <3>3 DEF Short
  <2>2. CASE p # t.root
    <3>1. PICK g \in M, b \in Side : g = t.parent[p] /\ t.child[b][g] = p
      BY <1>1, <2>2, ParentOf
    <3>2. ASSUME NEW n \in M, NEW a \in Side
          PROVE  t.child[a][n] = p <=> n = g /\ a = b
      <4>1. t.child[a][n] = p => n = g
        BY <1>1, <1>2, <3>1 DEF Linked
      <4>2. a # b => t.child[a][g] # p
        BY <1>1, <1>2, <3>1 DEF OneSided
      <4> QED
        BY <3>1, <4>1, <4>2
    <3>3. \A n \in M : \A a \in Side :
             /\ ~(n = g /\ a = b) => k[n] = k[r.child[a][n]] + r.colour[n]
             /\ n = g /\ a = b => k[n] = k[r.child[a][n]] + r.colour[n] + 1
      BY <1>5, <1>9, <3>2
    <3>4. Heights(r, M, k, g, b)
      BY <1>6, <1>8, <3>3 DEF Heights
    <3> QED
      BY <1>1, <1>5, <2>2, <3>1, <3>4 DEF Short
  <2> QED
    BY <2>1, <2>2
<1>11. RedsApart(r, M, p)
  <2>1. r.root # p => r.colour[r.root] = BLACK
    <3>1. t.root # NIL /\ t.colour[t.root] = BLACK /\ t.root \in Node
      BY <1>1, <1>2 DEF RedsApart
    <3> QED
      BY <1>1, <1>5, <3>1
  <2>2. ASSUME NEW n \in M \ {p}, NEW a \in Side, NEW c, c = t.child[a][n], c # p
        PROVE  r.colour[n] = BLACK \/ r.colour[c] = BLACK
    <3>1. n \in Node /\ c \in Node /\ c # n /\ (c # NIL => t.parent[c] = n)
      BY <1>2, <2>2 DEF Linked
    <3>2. c # w
      <4>1. t.parent[w] = p
        BY <1>1, <1>2 DEF Linked
      <4> QED
        BY <1>1, <2>2, <3>1, <4>1
    <3>3. r.colour[c] = t.colour[c]
      BY <1>5, <3>1, <3>2
    <3>4. CASE n = w
      BY <2>2, <3>3, <3>4
    <3>5. CASE n # w
      <4>1. c = NIL \/ t.colour[n] = BLACK \/ t.colour[c] = BLACK
        BY <1>1, <1>2, <2>2 DEF RedsApart
      <4> QED
        BY <1>3, <1>5, <3>1, <3>3, <3>5, <4>1
    <3> QED
      BY <3>4, <3>5
  <2> QED
    BY <1>5, <2>1, <2>2 DEF RedsApart
<1>12. Lacking(r, M, D, k, p)
  BY <1>1, <1>7, <1>10, <1>11 DEF Lacking
<1> QED
  BY <1>12

\* No node is below its own child.
LEMMA GrandchildOther ==
  ASSUME NEW t, NEW M, NEW D, Shaped(t, M, D), NEW n \in M, NEW a \in Side,
         NEW w, w = t.child[a][n], w # NIL, NEW b \in Side
  PROVE  t.child[b][w] # n
<1>1. w \in M /\ D[w] \subseteq D[n] /\ n \notin D[w]
  BY ShapedNode
<1>2. PICK c : c = t.child[b][w]
  OBVIOUS
<1>3. D[c] \subseteq D[w]
  BY <1>1, <1>2, ShapedNode
<1>4. n \in D[n]
  BY ShapedNode
<1> QED
  BY <1>1, <1>2, <1>3, <1>4

\* Rotations leave x alone.
LEMMA TurnedElsewhere ==
  ASSUME NEW t, NEW M, NEW D, D \in [Node -> SUBSET M], NEW x, NEW s, NEW y, NEW n \in Node, n \notin {x, y}
  PROVE  Turned(t, D, x, s, y)[n] = D[n]
BY DEF Turned

\* Red sibling: p is rotated below it, and x gets a black sibling.
LEMMA RedSibling ==
  ASSUME NEW t, NEW M, NEW D, NEW h, NEW x, NEW p, NEW s, NEW o, NEW w,
         Deficit(t, M, D, h, x, p, s, o, w), t.colour[w] = RED,
         NEW u, Repainted(u, t, {w}, {p}), NEW r, r = rb_rotate(u, p, s)
  PROVE  \E E, k, v : Deficit(r, M, E, k, x, p, s, o, v) /\ r.colour[v] = BLACK /\ E[x] = D[x]
<1> DEFINE E == Turned(u, D, p, s, w)
           k == [h EXCEPT ![w] = h[p], ![p] = h[w]]
<1>1. /\ Shaped(t, M, D) /\ RedsApart(t, M, NIL) /\ Heights(t, M, h, p, s)
      /\ x \in M \cup {NIL} /\ x # t.root /\ t.colour[x] = BLACK /\ p = t.parent[x]
      /\ p \in M /\ s \in Side /\ o = Other(s) /\ o \in Side /\ o # s /\ x # p
      /\ t.child[s][p] = x /\ w = t.child[o][p] /\ w \in M /\ w # NIL /\ w # p /\ w # x
      /\ t.root \in M /\ t.root # w
  BY DEF Deficit
<1>23. Shaped(t, M, D) /\ p \in M /\ s \in Side /\ o \in Side /\ x # t.root
  BY <1>1
<1>2. /\ Linked(t, M) /\ x \in Node /\ w \in Node /\ p \in Node
      /\ \A n \in M : n \in Node /\ n # NIL
  <2>1. Linked(t, M)
    BY <1>1, ShapedLinked
  <2> QED
    BY <1>1, <2>1, NodeFacts DEF Linked
<1>3. /\ u.root = t.root /\ u.child = t.child /\ u.parent = t.parent /\ SamePointers(u, t)
      /\ u.colour[w] = BLACK /\ u.colour[p] = RED
      /\ \A n \in Node \ {w, p} : u.colour[n] = t.colour[n]
  BY DEF Repainted, SamePointers
<1>4. t.colour[NIL] = BLACK
  BY <1>1 DEF Heights
<1>5. \A n \in M : \A a \in Side : t.colour[n] = BLACK \/ t.colour[t.child[a][n]] = BLACK
  <2>1. ASSUME NEW n \in M, NEW a \in Side, NEW c, c = t.child[a][n]
        PROVE  t.colour[n] = BLACK \/ t.colour[c] = BLACK
    <3>1. c # NIL => t.colour[n] = BLACK \/ t.colour[c] = BLACK
      BY <1>1, <1>2, <2>1 DEF RedsApart
    <3> QED
      BY <1>4, <3>1
  <2> QED
    BY <2>1
<1>6. t.colour[p] = BLACK
  BY <1>1, <1>5, NodeFacts
<1>7. Shaped(u, M, D)
  BY <1>1, <1>3, PaintShaped
<1>8. Turning(r, u, M, D, p, s, o, w) /\ Shaped(r, M, E)
  BY <1>1, <1>3, <1>7, TurningHolds
<1> HIDE DEF E
<1>9. /\ RotatedIn(r, u, M, p, s, w)
  BY <1>8 DEF Turning
<1>10. /\ r.colour = u.colour /\ r.child[s][p] = x
       /\ u.parent[p] = NIL => r.root = w
       /\ u.parent[p] # NIL => r.root = u.root
       /\ r.parent[NIL] = t.parent[NIL]
  <2>1. /\ r.colour = u.colour /\ r.child[s][p] = u.child[s][p]
        /\ u.parent[p] = NIL => r.root = w
        /\ u.parent[p] # NIL => r.root = u.root
        /\ r.parent[NIL] = u.parent[NIL]
    BY <1>9 DEF RotatedIn
  <2>2. t.child[s][p] = x
    BY <1>1
  <2> QED
    BY <1>3, <2>1, <2>2
<1>11. Heights(r, M, k, p, s)
  <2>1. u.colour[w] = t.colour[p] /\ u.colour[p] = RED
    BY <1>3, <1>6
  <2>2. \A n \in Node \ {p, w} : u.colour[n] = t.colour[n]
    BY <1>3
  <2>3. Heights(rb_rotate(u, p, s), M, [h EXCEPT ![w] = h[p], ![p] = h[w]], p, s)
    BY <1>1, <1>3, <2>1, <2>2, RotateHeights
  <2> QED
    BY <2>3
<1> HIDE DEF k
<1>12. r.parent[x] = p
  <2>1. CASE x = NIL
    BY <1>1, <1>10, <2>1
  <2>2. CASE x # NIL
    <3>1. Linked(r, M)
      BY <1>8, ShapedLinked
    <3> QED
      BY <1>10, <1>23, <2>2, <3>1 DEF Linked
  <2> QED
    BY <2>1, <2>2
<1>13. x # r.root
  BY <1>1, <1>3, <1>10
<1>14. r.colour[x] = BLACK
  BY <1>1, <1>2, <1>3, <1>10
<1>15. PICK z : z = t.child[s][w]
  OBVIOUS
<1>16. /\ z \in Node /\ z # w /\ z # p /\ t.colour[z] = BLACK
  <2>1. z \in Node /\ z # w /\ (z # NIL => t.parent[z] = w)
    BY <1>1, <1>2, <1>15 DEF Linked
  <2>2. z # p
    <3>1. w = t.child[o][p] /\ w # NIL
      BY <1>1
    <3> QED
      BY <1>15, <1>23, <3>1, GrandchildOther
  <2>3. t.colour[z] = BLACK
    BY <1>1, <1>5, <1>15, NodeFacts
  <2> QED
    BY <2>1, <2>2, <2>3
<1>17. RedsApart(r, M, NIL)
  <2>1. r.colour[r.root] = BLACK
    <3>1. CASE u.parent[p] = NIL
      BY <1>3, <1>10, <3>1
    <3>2. CASE u.parent[p] # NIL
      <4>1. t.root # p /\ t.root # NIL /\ t.root \in Node
        BY <1>1, <1>2, <1>3, <3>2, ParentOf
      <4>2. t.colour[t.root] = BLACK
        BY <1>1, <4>1 DEF RedsApart
      <4> QED
        BY <1>1, <1>3, <1>10, <3>2, <4>1, <4>2
    <3> QED
      BY <3>1, <3>2
  <2>2. ASSUME NEW n \in M, NEW a \in Side, NEW c, c = r.child[a][n]
        PROVE  u.colour[n] = BLACK \/ u.colour[c] = BLACK
    <3>1. \/ n = p /\ a = s /\ c = u.child[s][p]
          \/ n = p /\ a = o /\ c = u.child[s][w]
          \/ n = w /\ a = s /\ c = p
          \/ n = w /\ a = o /\ c = u.child[o][w]
          \/ n \notin {p, w} /\ u.child[a][n] = p /\ c = w
          \/ n \notin {p, w} /\ u.child[a][n] \notin {p, w} /\ c = u.child[a][n]
      BY <1>8, <2>2, RotatedChild
    <3>2. CASE n = w \/ c = w
      BY <1>3, <3>2
    <3>3. CASE n = p /\ a = s /\ c = u.child[s][p]
      BY <1>1, <1>10, <1>14, <3>3, <1>3
    <3>4. CASE n = p /\ a = o /\ c = u.child[s][w]
      BY <1>3, <1>15, <1>16, <3>4
    <3>5. CASE n \notin {p, w} /\ u.child[a][n] \notin {p, w} /\ c = u.child[a][n]
      <4>1. c \in Node /\ n \in Node /\ c = t.child[a][n]
        BY <1>2, <1>3, <3>5 DEF Linked
      <4> QED
        BY <1>3, <1>5, <3>5, <4>1
    <3> QED
      BY <3>1, <3>2, <3>3, <3>4, <3>5
  <2> QED
    BY <1>10, <2>1, <2>2 DEF RedsApart
<1>18. PICK v : v = r.child[o][p]
  OBVIOUS
<1>19. Deficit(r, M, E, k, x, p, s, o, v)
  BY <1>1, <1>8, <1>10, <1>11, <1>12, <1>13, <1>14, <1>17, <1>18, DeficitHolds
<1>20. v = z
  <2>1. r.child[o][p] = u.child[s][w]
    BY <1>1, <1>9 DEF RotatedIn
  <2> QED
    BY <1>3, <1>15, <1>18, <2>1
<1>21. r.colour[v] = BLACK
  BY <1>3, <1>10, <1>16, <1>20
<1>22. E[x] = D[x]
  <2>1. D \in [Node -> SUBSET M]
    BY <1>1 DEF Shaped
  <2>2. x \notin {p, w}
    BY <1>1
  <2> QED
    BY <1>2, <2>1, <2>2, TurnedElsewhere DEF E
<1> QED
  BY <1>19, <1>21, <1>22

\* Black sibling with only the near nephew red: the nephew becomes the sibling, whose
\* far child is red.
LEMMA NearNephew ==
  ASSUME NEW t, NEW M, NEW D, NEW h, NEW x, NEW p, NEW s, NEW o, NEW w,
         Deficit(t, M, D, h, x, p, s, o, w), t.colour[w] = BLACK,
         NEW v, v = t.child[s][w], t.colour[v] = RED, t.colour[t.child[o][w]] = BLACK,
         NEW u, Repainted(u, t, {v}, {w}), NEW r, r = rb_rotate(u, w, o)
  PROVE  \E E, k : /\ Deficit(r, M, E, k, x, p, s, o, v)
                   /\ r.colour[v] = BLACK /\ r.colour[r.child[o][v]] = RED
<1> DEFINE E == Turned(u, D, w, o, v)
           k == [h EXCEPT ![v] = h[w], ![w] = h[v]]
<1>1. /\ Shaped(t, M, D) /\ RedsApart(t, M, NIL) /\ Heights(t, M, h, p, s)
      /\ x \in M \cup {NIL} /\ x # t.root /\ t.colour[x] = BLACK /\ p = t.parent[x]
      /\ p \in M /\ s \in Side /\ o = Other(s) /\ o \in Side /\ o # s /\ x # p
      /\ t.child[s][p] = x /\ w = t.child[o][p] /\ w \in M /\ w # NIL /\ w # p /\ w # x
      /\ t.root \in M /\ t.root # w
  BY DEF Deficit
<1>2. /\ Linked(t, M) /\ x \in Node /\ w \in Node /\ p \in Node
      /\ \A n \in M : n \in Node /\ n # NIL
  <2>1. Linked(t, M)
    BY <1>1, ShapedLinked
  <2> QED
    BY <1>1, <2>1, NodeFacts DEF Linked
<1>19. /\ p \in M /\ s \in Side /\ o \in Side /\ w \in M /\ x # w /\ x # t.root /\ t.colour[x] = BLACK
       /\ t.root # w
  BY <1>1
<1>20. t.child[s][p] = x /\ t.child[o][p] = w /\ t.parent[x] = p
  BY <1>1
<1>21. Shaped(t, M, D) /\ w # NIL
  BY <1>1
<1>3. /\ u.root = t.root /\ u.child = t.child /\ u.parent = t.parent /\ SamePointers(u, t)
      /\ u.colour[v] = BLACK /\ u.colour[w] = RED
      /\ \A n \in Node \ {v, w} : u.colour[n] = t.colour[n]
  BY DEF Repainted, SamePointers
<1>4. t.colour[NIL] = BLACK
  BY <1>1 DEF Heights
<1>5. \A n \in M : \A a \in Side : t.colour[n] = BLACK \/ t.colour[t.child[a][n]] = BLACK
  <2>1. ASSUME NEW n \in M, NEW a \in Side, NEW c, c = t.child[a][n]
        PROVE  t.colour[n] = BLACK \/ t.colour[c] = BLACK
    <3>1. c # NIL => t.colour[n] = BLACK \/ t.colour[c] = BLACK
      BY <1>1, <1>2, <2>1 DEF RedsApart
    <3> QED
      BY <1>4, <3>1
  <2> QED
    BY <2>1
<1>6. s = Other(o)
  BY <1>1, SideFacts
<1>7. /\ v # NIL /\ v \in M /\ v # w /\ v \in Node /\ t.parent[v] = w /\ t.parent[w] = p
      /\ v # p /\ v # x
  <2>1. v # NIL
    BY <1>4, NodeFacts
  <2>2. v \in M /\ v # w /\ v \in Node /\ t.parent[v] = w /\ t.parent[w] = p
    <3>1. v \in M /\ v # w /\ v \in Node /\ t.parent[v] = w
      <4>1. v \in M \cup {NIL}
        BY <1>19, <1>21, ShapedNode
      <4> QED
        BY <1>2, <1>19, <2>1, <4>1 DEF Linked
    <3>2. t.parent[w] = p
      BY <1>2, <1>19, <1>20, <1>21 DEF Linked
    <3> QED
      BY <3>1, <3>2
  <2>3. v # x
    BY <1>1, NodeFacts
  <2>4. v # p
    <3>1. w = t.child[o][p]
      BY <1>20
    <3> QED
      BY <1>19, <1>21, <3>1, GrandchildOther
  <2> QED
    BY <2>1, <2>2, <2>3, <2>4
<1>8. Shaped(u, M, D)
  BY <1>1, <1>3, PaintShaped
<1>9. Turning(r, u, M, D, w, o, s, v) /\ Shaped(r, M, E)
  BY <1>1, <1>3, <1>6, <1>7, <1>8, TurningHolds
<1> HIDE DEF E
<1>10. RotatedIn(r, u, M, w, o, v)
  BY <1>9 DEF Turning
<1>11. /\ r.colour = u.colour /\ r.root = u.root /\ r.child[o][v] = w
       /\ r.child[s][v] = t.child[s][v] /\ r.child[o][w] = t.child[o][w]
       /\ r.parent[NIL] = t.parent[NIL]
  <2>1. /\ r.colour = u.colour /\ r.child[o][v] = w
        /\ r.child[s][v] = u.child[s][v] /\ r.child[o][w] = u.child[o][w]
        /\ r.parent[NIL] = u.parent[NIL]
    BY <1>6, <1>10 DEF RotatedIn
  <2>2. u.parent[w] # NIL
    BY <1>2, <1>3, <1>7, <1>19
  <2>3. r.root = u.root
    BY <1>10, <2>2 DEF RotatedIn
  <2> QED
    BY <1>3, <2>1, <2>3
<1>12. r.child[s][p] = x /\ r.child[o][p] = v
  <2>1. ASSUME NEW a \in Side
        PROVE  \/ u.child[a][p] = w /\ r.child[a][p] = v
               \/ u.child[a][p] \notin {w, v} /\ r.child[a][p] = u.child[a][p]
    <3>1. p \notin {w, v}
      BY <1>1, <1>7
    <3>2. v = u.child[Other(o)][w]
      BY <1>3, <1>6
    <3>3. v # NIL
      BY <1>7
    <3> QED
      BY <1>8, <1>10, <1>19, <3>1, <3>2, <3>3, RotatedElsewhere
  <2>2. u.child[s][p] = x /\ u.child[o][p] = w
    BY <1>3, <1>20
  <2> QED
    BY <1>19, <2>1, <2>2
<1>13. Heights(r, M, k, p, s)
  <2>1. u.colour[v] = t.colour[w] /\ u.colour[w] = RED
    BY <1>3
  <2>2. \A n \in Node \ {w, v} : u.colour[n] = t.colour[n]
    BY <1>3
  <2>3. v = t.child[Other(o)][w] /\ p \notin {w, v}
    BY <1>1, <1>6, <1>7
  <2>4. Heights(rb_rotate(u, w, o), M, [h EXCEPT ![v] = h[w], ![w] = h[v]], p, s)
    BY <1>1, <1>3, <1>7, <2>1, <2>2, <2>3, RotateHeights
  <2> QED
    BY <2>4
<1> HIDE DEF k
<1>14. r.parent[x] = p
  <2>1. CASE x = NIL
    BY <1>1, <1>11, <2>1
  <2>2. CASE x # NIL
    <3>1. Linked(r, M)
      BY <1>9, ShapedLinked
    <3> QED
      BY <1>12, <1>19, <2>2, <3>1 DEF Linked
  <2> QED
    BY <2>1, <2>2
<1>15. x # r.root /\ r.colour[x] = BLACK
  <2>1. u.colour[x] = t.colour[x]
    BY <1>2, <1>3, <1>7, <1>19
  <2> QED
    BY <1>3, <1>11, <1>19, <2>1
<1>16. RedsApart(r, M, NIL)
  <2>1. r.colour[r.root] = BLACK
    <3>1. t.root \in Node /\ t.root # NIL /\ t.colour[t.root] = BLACK
      BY <1>1, <1>2 DEF RedsApart
    <3>2. t.root # v
      BY <3>1, NodeFacts
    <3>3. u.colour[t.root] = BLACK
      BY <1>3, <1>19, <3>1, <3>2
    <3> QED
      BY <1>3, <1>11, <3>3
  <2>2. ASSUME NEW n \in M, NEW a \in Side, NEW c, c = r.child[a][n]
        PROVE  u.colour[n] = BLACK \/ u.colour[c] = BLACK
    <3>1. \/ n = w /\ a = o /\ c = u.child[o][w]
          \/ n = w /\ a = s /\ c = u.child[o][v]
          \/ n = v /\ a = o /\ c = w
          \/ n = v /\ a = s /\ c = u.child[s][v]
          \/ n \notin {w, v} /\ u.child[a][n] = w /\ c = v
          \/ n \notin {w, v} /\ u.child[a][n] \notin {w, v} /\ c = u.child[a][n]
      BY <1>9, <2>2, RotatedChild
    <3>2. CASE n = v \/ c = v
      BY <1>3, <3>2
    <3>3. CASE n = w /\ a = o /\ c = u.child[o][w]
      <4>1. c = t.child[o][w] /\ t.colour[c] = BLACK /\ c \in Node /\ c # w
        BY <1>2, <1>3, <1>19, <3>3 DEF Linked
      <4>2. c # v
        BY <4>1, NodeFacts
      <4> QED
        BY <1>3, <4>1, <4>2
    <3>4. CASE n = w /\ a = s /\ c = u.child[o][v]
      <4>1. c = t.child[o][v] /\ c \in Node /\ c # v /\ (c # NIL => t.parent[c] = v)
        BY <1>2, <1>3, <1>7, <1>19, <3>4 DEF Linked
      <4>2. t.colour[c] = BLACK
        BY <1>5, <1>7, <1>19, <4>1, NodeFacts
      <4>3. c # w
        <5>1. w # NIL /\ p # v
          BY <1>2, <1>7, <1>19
        <5> QED
          BY <1>7, <4>1, <5>1
      <4> QED
        BY <1>3, <4>1, <4>2, <4>3
    <3>5. CASE n \notin {w, v} /\ u.child[a][n] \notin {w, v} /\ c = u.child[a][n]
      <4>1. c \in Node /\ n \in Node /\ c = t.child[a][n]
        BY <1>2, <1>3, <3>5 DEF Linked
      <4> QED
        BY <1>3, <1>5, <3>5, <4>1
    <3> QED
      BY <3>1, <3>2, <3>3, <3>4, <3>5
  <2> QED
    BY <1>11, <2>1, <2>2 DEF RedsApart
<1>17. Deficit(r, M, E, k, x, p, s, o, v)
  BY <1>1, <1>9, <1>12, <1>13, <1>14, <1>15, <1>16, DeficitHolds
<1>18. r.colour[v] = BLACK /\ r.colour[r.child[o][v]] = RED
  BY <1>3, <1>11
<1> QED
  BY <1>17, <1>18

\* Black sibling with a red far nephew v: the nephew makes up for the missing node.
LEMMA FarNephew ==
  ASSUME NEW t, NEW M, NEW D, NEW h, NEW x, NEW p, NEW s, NEW o, NEW w,
         Deficit(t, M, D, h, x, p, s, o, w), t.colour[w] = BLACK,
         NEW v, v = t.child[o][w], t.colour[v] = RED,
         NEW u, SamePointers(u, t), u.colour[w] = t.colour[p], u.colour[p] = BLACK, u.colour[v] = BLACK,
         \A n \in Node \ {w, p, v} : u.colour[n] = t.colour[n],
         NEW r, r = rb_rotate(u, p, s)
  PROVE  \E E, k : Correct(r, M, E, k) /\ r.root \in M
<1> DEFINE E == Turned(u, D, p, s, w)
           k == [h EXCEPT ![w] = h[p], ![p] = h[w], ![v] = h[v] + 1]
<1>1. /\ Shaped(t, M, D) /\ RedsApart(t, M, NIL) /\ Heights(t, M, h, p, s)
      /\ p \in M /\ s \in Side /\ o \in Side /\ o # s /\ x # p
      /\ w \in M /\ w # NIL /\ w # p /\ w # x
      /\ t.root \in M /\ t.root # w
  BY DEF Deficit
<1>2. /\ t.child[s][p] = x /\ t.child[o][p] = w /\ o = Other(s) /\ t.colour[x] = BLACK
  BY DEF Deficit
<1>3. h[w] = h[x] + 1 /\ h[p] = h[w] + t.colour[p] /\ h[x] \in Nat
  BY DEF Deficit
<1>4. /\ Linked(t, M) /\ \A n \in M : n \in Node /\ n # NIL
  <2>1. Linked(t, M)
    BY <1>1, ShapedLinked
  <2> QED
    BY <2>1 DEF Linked
<1>5. /\ h \in [Node -> Nat] /\ h[NIL] = 0 /\ t.colour[NIL] = BLACK
      /\ \A n \in M : \A a \in Side :
            ~(n = p /\ a = s) => h[n] = h[t.child[a][n]] + t.colour[n]
  BY <1>1 DEF Heights
<1>6. /\ v # NIL /\ v \in M /\ v # w /\ v \in Node /\ t.parent[v] = w /\ v # p /\ v # x
      /\ x \in Node
  <2>1. v # NIL
    BY <1>5, NodeFacts
  <2>2. v \in M \cup {NIL} /\ v \in Node
    BY <1>1, ShapedNode
  <2>3. v # w /\ t.parent[v] = w
    BY <1>1, <1>4, <2>1 DEF Linked
  <2>4. v # p
    BY <1>1, <1>2, GrandchildOther
  <2>5. v # x
    BY <1>2, NodeFacts
  <2>6. x \in Node
    BY <1>1, <1>2, <1>4 DEF Linked
  <2> QED
    BY <2>1, <2>2, <2>3, <2>4, <2>5, <2>6
<1>7. \A n \in M : \A a \in Side : t.colour[n] = BLACK \/ t.colour[t.child[a][n]] = BLACK
  <2>1. ASSUME NEW n \in M, NEW a \in Side, NEW c, c = t.child[a][n]
        PROVE  t.colour[n] = BLACK \/ t.colour[c] = BLACK
    <3>1. c # NIL => t.colour[n] = BLACK \/ t.colour[c] = BLACK
      BY <1>1, <1>4, <2>1 DEF RedsApart
    <3> QED
      BY <1>5, <3>1
  <2> QED
    BY <2>1
<1>8. /\ u.root = t.root /\ u.child = t.child /\ u.parent = t.parent
  BY DEF SamePointers
<1>9. Shaped(u, M, D)
  BY <1>1, PaintShaped
<1>10. Turning(r, u, M, D, p, s, o, w) /\ Shaped(r, M, E)
  BY <1>1, <1>2, <1>8, <1>9, TurningHolds
<1> HIDE DEF E
<1>11. RotatedIn(r, u, M, p, s, w)
  BY <1>10 DEF Turning
<1>12. /\ r.colour = u.colour
       /\ u.parent[p] = NIL => r.root = w
       /\ u.parent[p] # NIL => r.root = u.root
  BY <1>11 DEF RotatedIn
<1>13. /\ p \in Node /\ w \in Node /\ v \notin {p, w, NIL} /\ w # p
  BY <1>1, <1>4, <1>6
<1>14. /\ k \in [Node -> Nat] /\ k[w] = h[p] /\ k[p] = h[w] /\ k[v] = h[v] + 1
       /\ \A n \in Node \ {w, p, v} : k[n] = h[n]
  BY <1>5, <1>6, <1>13
<1> HIDE DEF k
<1>15. k[NIL] = 0 /\ r.colour[NIL] = BLACK
  <2>1. NIL \in Node /\ NIL \notin {w, p, v}
    BY <1>1, <1>4, <1>6, NodeFacts
  <2> QED
    BY <1>5, <1>12, <1>14, <2>1
\* The child of each node after the rotation, and what it was before.
<1>16. ASSUME NEW n \in M, NEW a \in Side, NEW c, c = r.child[a][n]
       PROVE  \/ n = p /\ a = s /\ c = x
              \/ n = p /\ a = o /\ c = t.child[s][w]
              \/ n = w /\ a = s /\ c = p
              \/ n = w /\ a = o /\ c = v
              \/ n \notin {p, w} /\ t.child[a][n] = p /\ c = w
              \/ n \notin {p, w} /\ t.child[a][n] \notin {p, w} /\ c = t.child[a][n]
  <2>1. \/ n = p /\ a = s /\ c = u.child[s][p]
        \/ n = p /\ a = o /\ c = u.child[s][w]
        \/ n = w /\ a = s /\ c = p
        \/ n = w /\ a = o /\ c = u.child[o][w]
        \/ n \notin {p, w} /\ u.child[a][n] = p /\ c = w
        \/ n \notin {p, w} /\ u.child[a][n] \notin {p, w} /\ c = u.child[a][n]
    BY <1>10, <1>16, RotatedChild
  <2> QED
    BY <1>2, <1>8, <2>1
<1>17. PICK z : z = t.child[s][w]
  OBVIOUS
<1>18. z \in Node /\ z # w /\ z # p /\ z # v /\ h[w] = h[z] + 1 /\ h[w] = h[v] + 1
  <2>1. z \in Node /\ z # w
    BY <1>1, <1>4, <1>17 DEF Linked
  <2>2. z # p
    BY <1>1, <1>2, <1>17, GrandchildOther
  <2>3. z # v
    <3>1. OneSided(t, M)
      BY <1>1, OneSide
    <3> QED
      BY <1>1, <1>6, <1>17, <3>1 DEF OneSided
  <2>4. h[w] = h[z] + t.colour[w] /\ h[w] = h[v] + t.colour[w]
    BY <1>1, <1>5, <1>17
  <2> QED
    BY <2>1, <2>2, <2>3, <2>4, NodeFacts
<1>19. u.colour[p] = 1 /\ u.colour[v] = 1 /\ t.colour[v] = 0 /\ t.colour[p] \in Nat
  <2>1. t.colour[p] \in Nat
    <3>1. t \in Tree
      BY <1>1 DEF Shaped
    <3> QED
      BY <1>13, <3>1, TreeFields, NodeFacts
  <2> QED
    BY <2>1, NodeFacts
<1>20. ASSUME NEW n \in M, NEW a \in Side, NEW c, c = r.child[a][n]
       PROVE  k[n] = k[c] + u.colour[n]
  <2>1. CASE n = p /\ a = s /\ c = x
    <3>1. k[x] = h[x]
      BY <1>1, <1>6, <1>14
    <3> QED
      BY <1>3, <1>14, <1>19, <2>1, <3>1
  <2>2. CASE n = p /\ a = o /\ c = z
    BY <1>14, <1>18, <1>19, <2>2
  <2>3. CASE n = w /\ a = s /\ c = p
    BY <1>3, <1>14, <2>3
  <2>4. CASE n = w /\ a = o /\ c = v
    BY <1>3, <1>14, <1>18, <2>4
  <2>5. CASE n \notin {p, w} /\ t.child[a][n] = p /\ c = w
    <3>1. n # v
      <4>1. p # NIL /\ t.parent[p] = n
        BY <1>1, <1>4, <2>5 DEF Linked
      <4>2. t.parent[p] # v
        <5>1. SUFFICES ASSUME t.parent[p] = v PROVE FALSE
          OBVIOUS
        <5>2. D[p] \subseteq D[v] /\ p \notin D[w] /\ D[v] \subseteq D[w] /\ p \in D[p]
          <6>1. n = v
            BY <4>1, <5>1
          <6>2. D[p] \subseteq D[v] /\ p \in D[p]
            BY <1>1, <1>6, <2>5, <6>1, ShapedNode
          <6>3. p \notin D[w]
            BY <1>1, <1>2, ShapedNode
          <6>4. D[v] \subseteq D[w]
            BY <1>1, ShapedNode
          <6> QED
            BY <6>2, <6>3, <6>4
        <5> QED
          BY <5>2
      <4> QED
        BY <4>1, <4>2
    <3>2. k[n] = h[n] /\ h[n] = h[p] + t.colour[n] /\ u.colour[n] = t.colour[n]
      BY <1>4, <1>5, <1>14, <2>5, <3>1
    <3> QED
      BY <1>14, <2>5, <3>2
  <2>6. CASE n \notin {p, w} /\ t.child[a][n] \notin {p, w} /\ c = t.child[a][n]
    <3>1. c \in Node /\ n \in Node /\ c # v
      BY <1>4, <1>6, <2>6 DEF Linked
    <3>2. k[c] = h[c] /\ h[n] = h[c] + t.colour[n] /\ h[c] \in Nat
      BY <1>5, <1>14, <2>6, <3>1
    <3>3. CASE n = v
      BY <1>14, <1>19, <3>2, <3>3
    <3>4. CASE n # v
      BY <1>14, <2>6, <3>1, <3>2, <3>4
    <3> QED
      BY <3>3, <3>4
  <2> QED
    BY <1>16, <1>17, <1>20, <2>1, <2>2, <2>3, <2>4, <2>5, <2>6
<1>21. Heights(r, M, k, NIL, "left")
  <2>1. \A n \in M : n # NIL /\ \A a \in Side : k[n] = k[r.child[a][n]] + r.colour[n]
    BY <1>4, <1>12, <1>20
  <2> QED
    BY <1>14, <1>15, <2>1 DEF Heights
<1>22. RedsApart(r, M, NIL)
  <2>1. r.colour[r.root] = BLACK
    <3>1. t.root \in Node /\ t.root # NIL /\ t.colour[t.root] = BLACK
      BY <1>1, <1>4 DEF RedsApart
    <3>2. CASE u.parent[p] = NIL
      <4>1. p = t.root
        BY <1>1, <1>8, <3>2, ParentOf
      <4> QED
        BY <1>12, <3>1, <3>2, <4>1
    <3>3. CASE u.parent[p] # NIL
      <4>1. t.root # p
        BY <1>1, <1>8, <3>3, ParentOf
      <4>2. t.root # v
        BY <3>1, NodeFacts
      <4> QED
        BY <1>1, <1>8, <1>12, <3>1, <3>3, <4>1, <4>2
    <3> QED
      BY <3>2, <3>3
  <2>2. ASSUME NEW n \in M, NEW a \in Side, NEW c, c = r.child[a][n]
        PROVE  u.colour[n] = BLACK \/ u.colour[c] = BLACK
    <3>1. CASE n \in {p, v} \/ c \in {p, v}
      BY <3>1
    <3>2. CASE n \notin {p, w} /\ t.child[a][n] = p /\ c = w /\ n # v
      <4>1. t.colour[n] = BLACK \/ t.colour[p] = BLACK
        BY <1>7, <3>2
      <4> QED
        BY <1>4, <3>2, <4>1
    <3>3. CASE n \notin {p, w, v} /\ t.child[a][n] \notin {p, w, v} /\ c = t.child[a][n]
      <4>1. c \in Node /\ n \in Node
        BY <1>4, <3>3 DEF Linked
      <4> QED
        BY <1>7, <3>3, <4>1
    <3> QED
      BY <1>16, <2>2, <3>1, <3>2, <3>3
  <2> QED
    BY <1>12, <2>1, <2>2 DEF RedsApart
<1>23. r.root \in M
  BY <1>1, <1>10, ParentOf
<1> QED
  BY <1>10, <1>21, <1>22, <1>23 DEF Correct

\* If no node is exempt, any may be.
LEMMA RedsApartElse ==
  ASSUME NEW t, NEW M, NEW D, Shaped(t, M, D), NEW h, NEW p, NEW s, Heights(t, M, h, p, s),
         RedsApart(t, M, NIL), NEW x
  PROVE  RedsApart(t, M, x)
<1>1. t.colour[NIL] = BLACK
  BY DEF Heights
<1>2. \A n \in M : n # NIL
  BY ShapedNode, SideFacts
<1>3. t.colour[t.root] = BLACK
  BY <1>1 DEF RedsApart
<1>4. ASSUME NEW n \in M, NEW a \in Side, NEW c, c = t.child[a][n]
      PROVE  t.colour[n] = BLACK \/ t.colour[c] = BLACK
  <2>1. c # NIL => t.colour[n] = BLACK \/ t.colour[c] = BLACK
    BY <1>2, <1>4 DEF RedsApart
  <2> QED
    BY <1>1, <2>1
<1> QED
  BY <1>3, <1>4 DEF RedsApart

LEMMA DeficitLacks ==
  ASSUME NEW t, NEW M, NEW D, NEW h, NEW x, NEW p, NEW s, NEW o, NEW w,
         Deficit(t, M, D, h, x, p, s, o, w)
  PROVE  Lacking(t, M, D, h, x)
<1>1. /\ Shaped(t, M, D) /\ RedsApart(t, M, NIL) /\ Heights(t, M, h, p, s)
      /\ x \in M \cup {NIL} /\ x # t.root /\ p \in M /\ s \in Side /\ t.root \in M
  BY DEF Deficit
<1>2. t.child[s][p] = x /\ p = t.parent[x]
  BY DEF Deficit
<1>3. Short(t, M, h, x)
  BY <1>1, <1>2 DEF Short
<1>4. RedsApart(t, M, x)
  BY <1>1, RedsApartElse
<1> QED
  BY <1>1, <1>3, <1>4 DEF Lacking

LEMMA CorrectLacks ==
  ASSUME NEW t, NEW M, NEW D, NEW h, Correct(t, M, D, h)
  PROVE  Lacking(t, M, D, h, t.root)
<1>1. Shaped(t, M, D) /\ Heights(t, M, h, NIL, "left") /\ RedsApart(t, M, NIL)
  BY DEF Correct
<1>2. RedsApart(t, M, t.root)
  BY <1>1, SideFacts, RedsApartElse
<1>3. t.root \in M \cup {NIL}
  BY <1>1 DEF Shaped
<1>4. Short(t, M, h, t.root)
  BY <1>1, SideFacts DEF Short
<1> QED
  BY <1>1, <1>2, <1>3, <1>4 DEF Lacking

\* What is left is the rotation that FarNephew is about.
FarReady(t, x) ==
  LET p == t.parent[x]
      o == Other(SideOf(t, p, x))
      w == t.child[o][p]
  IN  t.colour[w] = BLACK /\ t.colour[t.child[o][w]] = RED

\* What holds before iteration i of the loop: the subtree of the node reached has at least
\* i nodes, or one rotation is left to do, or nothing is.
Sinking(M, i, l) ==
  \E D, h : /\ Lacking(l.tree, M, D, h, l.at)
            /\ \/ i <= Cardinality(D[l.at])
               \/ i <= NIL /\ FarReady(l.tree, l.at)
               \/ l.at = l.tree.root \/ l.tree.colour[l.at] = RED

\* The iteration once the sibling w is black.
LEMMA BlackSiblingKeeps ==
  ASSUME NEW t, NEW M, NEW D, NEW h, NEW x, NEW p, NEW s, NEW o, NEW w,
         Deficit(t, M, D, h, x, p, s, o, w), t.colour[w] = BLACK,
         NEW i \in Nat, i <= Cardinality(D[x]) \/ (i <= NIL /\ t.colour[t.child[o][w]] = RED)
  PROVE  BlackSibling(t, x, p, s) \in Loop /\ Sinking(M, i + 1, BlackSibling(t, x, p, s))
<1>1. /\ Shaped(t, M, D) /\ t \in Tree /\ M \subseteq Prio
      /\ p \in M /\ s \in Side /\ o \in Side /\ x \in M \cup {NIL}
      /\ w \in M /\ w # NIL /\ w # p /\ w # x /\ x # p
  BY DEF Deficit, Shaped
<1>2. t.child[s][p] = x /\ t.child[o][p] = w /\ o = Other(s) /\ p = t.parent[x] /\ s = SideOf(t, p, x)
  BY DEF Deficit
<1>3. PICK near, far : near = t.child[s][w] /\ far = t.child[o][w]
  OBVIOUS
<1>4. /\ near \in Node /\ far \in Node /\ p \in Node /\ w \in Node /\ x \in Node
      /\ far # w /\ far # p /\ near # w
  <2>1. Linked(t, M)
    BY <1>1, ShapedLinked
  <2>2. near \in Node /\ far \in Node /\ far # w /\ near # w /\ p \in Node /\ w \in Node
    BY <1>1, <1>3, <2>1 DEF Linked
  <2>3. far # p
    BY <1>1, <1>2, <1>3, GrandchildOther
  <2> QED
    BY <1>1, <2>2, <2>3, NodeFacts
<1>5. t.colour \in [Node -> {RED, BLACK}] /\ RED # BLACK
  BY <1>1, NodeFacts DEF Tree
<1>6. /\ Cardinality(D[x]) < Cardinality(D[p]) /\ Cardinality(D[p]) \in Nat
      /\ Cardinality(D[x]) \in Nat /\ Cardinality(D[x]) < NIL /\ NIL \in Nat
  <2>1. p \in D[p] /\ D[x] \subseteq D[p] /\ p \notin D[x] /\ D[p] \subseteq M
    BY <1>1, <1>2, ShapedNode
  <2>2. D[x] \in SUBSET D[p] /\ D[x] # D[p] /\ D[p] \in SUBSET Prio
    BY <1>1, <2>1
  <2>3. /\ Cardinality(D[x]) < Cardinality(D[p]) /\ Cardinality(D[p]) \in Nat
        /\ Cardinality(D[x]) \in Nat /\ Cardinality(D[p]) < NIL + 1
    BY <2>2, SmallSets
  <2> QED
    BY <2>3, NodeFacts
<1>7. CASE t.colour[near] = BLACK /\ t.colour[far] = BLACK
  <2> DEFINE f == [t.colour EXCEPT ![w] = RED]
             r == [t EXCEPT !.colour = f]
             v == [tree |-> r, at |-> p]
  <2>1. BlackSibling(t, x, p, s) = v
    BY <1>2, <1>3, <1>5, <1>7 DEF BlackSibling
  <2>2. /\ f \in [Node -> {RED, BLACK}] /\ f[w] = RED
        /\ \A n \in Node \ {w} : f[n] = t.colour[n]
    BY <1>4, <1>5
  <2>3. Repainted(r, t, {}, {w}) /\ r \in Tree
    <3> HIDE DEF f
    <3> QED
      BY <1>1, <2>2, Painted
  <2> HIDE DEF f, r
  <2>4. \A a \in Side : t.colour[t.child[a][w]] = BLACK
    <3>1. \A a \in Side : a = s \/ a = o
      BY <1>1, <1>2, SideFacts
    <3> QED
      BY <1>3, <1>7, <3>1
  <2>5. PICK k : Lacking(r, M, D, k, p)
    BY <2>3, <2>4, BlackNephews
  <2>6. v \in Loop /\ v.tree = r /\ v.at = p
    BY <1>4, <2>3 DEF Loop
  <2> HIDE DEF v
  <2>7. i + 1 <= Cardinality(D[p])
    BY <1>3, <1>5, <1>6, <1>7
  <2>8. Sinking(M, i + 1, v)
    BY <2>5, <2>6, <2>7 DEF Sinking
  <2> QED
    BY <2>1, <2>6, <2>8
<1>8. CASE t.colour[near] = RED /\ t.colour[far] = BLACK
  <2> DEFINE f == [t.colour EXCEPT ![near] = BLACK, ![w] = RED]
             u == [t EXCEPT !.colour = f]
  <2>1. PICK r : r = rb_rotate(u, w, o)
    OBVIOUS
  <2> DEFINE v == [tree |-> r, at |-> x]
  <2>2. BlackSibling(t, x, p, s) = v
    BY <1>2, <1>3, <1>5, <1>8, <2>1 DEF BlackSibling
  <2>3. /\ f \in [Node -> {RED, BLACK}] /\ f[near] = BLACK /\ f[w] = RED
        /\ \A n \in Node \ {near, w} : f[n] = t.colour[n]
    BY <1>4, <1>5
  <2>4. Repainted(u, t, {near}, {w})
    <3> HIDE DEF f
    <3> QED
      BY <1>1, <2>3, Painted
  <2> HIDE DEF f, u
  <2>5. PICK E, k : /\ Deficit(r, M, E, k, x, p, s, o, near)
                    /\ r.colour[near] = BLACK /\ r.colour[r.child[o][near]] = RED
    BY <1>3, <1>8, <2>1, <2>4, NearNephew
  <2>6. Lacking(r, M, E, k, x)
    BY <2>5, DeficitLacks
  <2>7. FarReady(r, x)
    BY <2>5 DEF FarReady, Deficit
  <2>8. v \in Loop /\ v.tree = r /\ v.at = x
    BY <1>4, <2>5 DEF Loop, Deficit, Shaped
  <2> HIDE DEF v
  <2>9. i + 1 <= NIL
    BY <1>3, <1>5, <1>6, <1>8
  <2>10. Sinking(M, i + 1, v)
    BY <2>6, <2>7, <2>8, <2>9 DEF Sinking
  <2> QED
    BY <2>2, <2>8, <2>10
<1>9. CASE t.colour[far] = RED
  <2> DEFINE f == [t.colour EXCEPT ![w] = t.colour[p], ![p] = BLACK, ![far] = BLACK]
             u == [t EXCEPT !.colour = f]
  <2>1. PICK r : r = rb_rotate(u, p, s)
    OBVIOUS
  <2> DEFINE v == [tree |-> r, at |-> r.root]
  <2>2. BlackSibling(t, x, p, s) = v
    BY <1>2, <1>3, <1>5, <1>9, <2>1 DEF BlackSibling
  <2>3. /\ f \in [Node -> {RED, BLACK}] /\ f[w] = t.colour[p] /\ f[p] = BLACK /\ f[far] = BLACK
        /\ \A n \in Node \ {w, p, far} : f[n] = t.colour[n]
    BY <1>1, <1>4, <1>5
  <2>4. SamePointers(u, t) /\ u.colour = f
    <3> HIDE DEF f
    <3> QED
      BY <1>1, <2>3, Updates DEF SamePointers
  <2> HIDE DEF f, u
  <2>5. PICK E, k : Correct(r, M, E, k) /\ r.root \in M
    BY <1>3, <1>9, <2>1, <2>3, <2>4, FarNephew
  <2>6. Lacking(r, M, E, k, r.root)
    BY <2>5, CorrectLacks
  <2>7. v \in Loop /\ v.tree = r /\ v.at = r.root
    <3>1. r \in Tree
      BY <2>5 DEF Correct, Shaped
    <3> QED
      BY <3>1, TreeFields DEF Loop
  <2> HIDE DEF v
  <2>8. Sinking(M, i + 1, v)
    BY <2>6, <2>7 DEF Sinking
  <2> QED
    BY <2>2, <2>7, <2>8
<1>10. t.colour[near] \in {RED, BLACK} /\ t.colour[far] \in {RED, BLACK}
  BY <1>4, <1>5
<1> QED
  BY <1>7, <1>8, <1>9, <1>10

LEMMA RemoveFixupKeeps ==
  ASSUME NEW M, NEW i \in Nat, NEW l \in Loop, Sinking(M, i, l)
  PROVE  RemoveFixup(l) \in Loop /\ Sinking(M, i + 1, RemoveFixup(l))
<1>1. PICK t, x : t = l.tree /\ x = l.at
  OBVIOUS
<1>2. PICK D, h : /\ Lacking(t, M, D, h, x)
                  /\ \/ i <= Cardinality(D[x])
                     \/ i <= NIL /\ FarReady(t, x)
                     \/ x = t.root \/ t.colour[x] = RED
  BY <1>1 DEF Sinking
<1>3. t \in Tree /\ x \in Node /\ t.colour \in [Node -> {RED, BLACK}] /\ RED # BLACK
  BY <1>1, NodeFacts DEF Loop, Tree
<1>4. CASE x = t.root \/ t.colour[x] = RED
  <2>1. RemoveFixup(l) = l
    BY <1>1, <1>3, <1>4 DEF RemoveFixup
  <2>2. Sinking(M, i + 1, l)
    BY <1>1, <1>2, <1>4 DEF Sinking
  <2> QED
    BY <2>1, <2>2
<1>5. CASE x # t.root /\ t.colour[x] = BLACK
  <2>1. PICK p, s, o, w : Deficit(t, M, D, h, x, p, s, o, w)
    BY <1>2, <1>5, LackingDeficit
  <2>2. /\ t.child[o][p] = w /\ o = Other(s) /\ p = t.parent[x] /\ s = SideOf(t, p, x)
        /\ w \in Node /\ p \in Node /\ w # p
    <3>1. Linked(t, M) /\ w \in M /\ p \in M /\ w # p
      BY <2>1, ShapedLinked DEF Deficit
    <3> QED
      BY <2>1, <3>1 DEF Deficit, Linked
  <2>3. CASE t.colour[w] = BLACK
    <3>1. RemoveFixup(l) = BlackSibling(t, x, p, s)
      BY <1>1, <1>3, <1>5, <2>2, <2>3 DEF RemoveFixup
    <3>2. i <= Cardinality(D[x]) \/ (i <= NIL /\ t.colour[t.child[o][w]] = RED)
      BY <1>2, <1>3, <1>5, <2>2 DEF FarReady
    <3> QED
      BY <2>1, <2>3, <3>1, <3>2, BlackSiblingKeeps
  <2>4. CASE t.colour[w] = RED
    <3> DEFINE f == [t.colour EXCEPT ![w] = BLACK, ![p] = RED]
               u == [t EXCEPT !.colour = f]
    <3>1. PICK r : r = rb_rotate(u, p, s)
      OBVIOUS
    <3>2. RemoveFixup(l) = BlackSibling(r, x, p, s)
      BY <1>1, <1>3, <1>5, <2>2, <2>4, <3>1 DEF RemoveFixup
    <3>3. /\ f \in [Node -> {RED, BLACK}] /\ f[w] = BLACK /\ f[p] = RED
          /\ \A n \in Node \ {w, p} : f[n] = t.colour[n]
      BY <1>3, <2>2
    <3>4. Repainted(u, t, {w}, {p})
      <4> HIDE DEF f
      <4> QED
        BY <1>3, <3>3, Painted
    <3> HIDE DEF f, u
    <3>5. PICK E, k, v : /\ Deficit(r, M, E, k, x, p, s, o, v)
                         /\ r.colour[v] = BLACK /\ E[x] = D[x]
      BY <2>1, <2>4, <3>1, <3>4, RedSibling
    <3>6. i <= Cardinality(D[x])
      BY <1>2, <1>3, <1>5, <2>2, <2>4 DEF FarReady
    <3>7. i <= Cardinality(E[x])
      BY <3>5, <3>6
    <3> QED
      BY <3>2, <3>5, <3>7, BlackSiblingKeeps
  <2>5. t.colour[w] \in {RED, BLACK}
    BY <1>3, <2>2
  <2> QED
    BY <2>3, <2>4, <2>5
<1> QED
  BY <1>3, <1>4, <1>5

\* After the loop and the painting of the node it has come to the tree is correct.
LEMMA RemoveFixupCorrect ==
  ASSUME NEW t, NEW M, NEW D, NEW h, NEW x, Lacking(t, M, D, h, x)
  PROVE  \E E, k : Correct(rb_remove_fixup(t, x), M, E, k)
<1> DEFINE f == [l \in Loop |-> RemoveFixup(l)]
           J == [i \in Nat |-> {l \in Loop : Sinking(M, i, l)}]
           y == [tree |-> t, at |-> x]
           end == Iterated(f, y, Iterations)
<1>1. Shaped(t, M, D) /\ t \in Tree /\ x \in Node /\ M \subseteq Prio /\ D[x] \in SUBSET Prio
  <2>1. Shaped(t, M, D) /\ x \in M \cup {NIL}
    BY DEF Lacking
  <2>2. t \in Tree /\ M \subseteq Prio /\ D \in [Node -> SUBSET M]
    BY <2>1 DEF Shaped
  <2>3. x \in Node
    BY <2>1, <2>2, NodeFacts
  <2> QED
    BY <2>1, <2>2, <2>3
<1>2. y \in J[0]
  <2>1. y \in Loop /\ y.tree = t /\ y.at = x
    BY <1>1 DEF Loop
  <2>2. 0 <= Cardinality(D[x])
    <3>1. Cardinality(D[x]) \in Nat
      BY <1>1, SmallSets
    <3> QED
      BY <3>1
  <2> HIDE DEF y
  <2>3. Sinking(M, 0, y)
    BY <2>1, <2>2 DEF Sinking
  <2> QED
    BY <2>1, <2>3
<1>3. \A i \in 0 .. Iterations - 1 : \A l \in J[i] : f[l] \in J[i + 1]
  <2>1. ASSUME NEW i \in Nat, NEW l \in J[i]
        PROVE  f[l] \in J[i + 1]
    <3>1. l \in Loop /\ Sinking(M, i, l)
      OBVIOUS
    <3>2. RemoveFixup(l) \in Loop /\ Sinking(M, i + 1, RemoveFixup(l))
      BY <3>1, RemoveFixupKeeps
    <3> QED
      BY <3>1, <3>2
  <2>2. Iterations \in Nat
    BY SmallSets
  <2> HIDE DEF f, J
  <2> QED
    BY <2>1, <2>2
<1>4. end \in J[Iterations]
  <2>1. Iterations \in Nat
    BY SmallSets
  <2> HIDE DEF f, J, y
  <2> QED
    BY <1>2, <1>3, <2>1, IteratedKeeps
<1> HIDE DEF f, y, end
<1>5. PICK E, k : /\ Lacking(end.tree, M, E, k, end.at)
                  /\ \/ Iterations <= Cardinality(E[end.at])
                     \/ Iterations <= NIL /\ FarReady(end.tree, end.at)
                     \/ end.at = end.tree.root \/ end.tree.colour[end.at] = RED
  <2>1. Iterations \in Nat
    BY SmallSets
  <2> QED
    BY <1>4, <2>1 DEF Sinking
<1>6. PICK e, w : e = end.tree /\ w = end.at
  OBVIOUS
<1>7. /\ Shaped(e, M, E) /\ RedsApart(e, M, w) /\ w \in M \cup {NIL} /\ Short(e, M, k, w)
      /\ e \in Tree
  BY <1>5, <1>6 DEF Lacking, Shaped
<1>8. w \in Node /\ e.root \in Node /\ e.colour \in [Node -> {RED, BLACK}]
  <2>1. M \subseteq Prio
    BY <1>1
  <2> QED
    BY <1>7, <2>1, NodeFacts DEF Tree
<1>9. w = e.root \/ e.colour[w] = RED
  <2>1. E[w] \in SUBSET Prio
    <3>1. E \in [Node -> SUBSET M] /\ M \subseteq Prio
      BY <1>7 DEF Shaped
    <3> QED
      BY <1>8, <3>1
  <2>2. Cardinality(E[w]) < Iterations /\ Cardinality(E[w]) \in Nat /\ Iterations = NIL + 1
    BY <2>1, SmallSets
  <2> QED
    BY <1>5, <1>6, <2>2, NodeFacts
<1> DEFINE c == [e.colour EXCEPT ![w] = BLACK]
           u == [e EXCEPT !.colour = c]
<1>10. rb_remove_fixup(t, x) = u
  <2>1. rb_remove_fixup(t, x) = [e EXCEPT !.colour[w] = BLACK]
    BY <1>6 DEF rb_remove_fixup, end, f, y
  <2> QED
    BY <1>7, <2>1 DEF Tree
<1>11. /\ c \in [Node -> {RED, BLACK}] /\ c[w] = BLACK
       /\ \A n \in Node \ {w} : c[n] = e.colour[n]
  BY <1>8
<1> HIDE DEF c
<1>12. Repainted(u, e, {w}, {})
  BY <1>7, <1>11, Painted
<1> HIDE DEF u
<1>13. Shaped(u, M, E)
  BY <1>7, <1>12, PaintShaped DEF Repainted
<1>14. /\ u.root = e.root /\ u.child = e.child /\ u.colour[w] = BLACK
       /\ \A n \in Node \ {w} : u.colour[n] = e.colour[n]
  BY <1>12 DEF Repainted, SamePointers
<1>15. PICK b \in Side : \/ w = e.root /\ Heights(e, M, k, NIL, b)
                         \/ /\ w # e.root /\ e.parent[w] \in M /\ e.child[b][e.parent[w]] = w
                            /\ Heights(e, M, k, e.parent[w], b)
  BY <1>7 DEF Short
<1>16. e.colour[NIL] = BLACK /\ Linked(e, M)
  BY <1>7, <1>15, ShapedLinked DEF Heights
<1>17. RedsApart(u, M, NIL)
  <2>1. u.colour[u.root] = BLACK
    BY <1>7, <1>8, <1>14 DEF RedsApart
  <2>2. ASSUME NEW n \in M, NEW a \in Side, NEW d, d = e.child[a][n]
        PROVE  u.colour[n] = BLACK \/ u.colour[d] = BLACK
    <3>1. CASE n = w \/ d = w
      BY <1>14, <3>1
    <3>2. CASE n # w /\ d # w
      <4>1. e.colour[n] = BLACK \/ e.colour[d] = BLACK
        BY <1>7, <2>2, <3>2 DEF RedsApart
      <4>2. n \in Node /\ d \in Node
        BY <1>16, <2>2 DEF Linked
      <4> QED
        BY <1>14, <3>2, <4>1, <4>2
    <3> QED
      BY <3>1, <3>2
  <2> QED
    BY <1>14, <2>1, <2>2 DEF RedsApart
<1>18. \E j : Heights(u, M, j, NIL, "left")
  <2>1. CASE w = e.root
    <3>1. Heights(e, M, k, NIL, b)
      BY <1>15, <2>1
    <3>2. PICK j : Heights(u, M, j, NIL, b)
      BY <1>7, <1>12, <2>1, <3>1, PaintRoot
    <3>3. \A n \in M : n # NIL
      BY <1>16 DEF Linked
    <3>4. Heights(u, M, j, NIL, "left")
      BY <3>2, <3>3 DEF Heights
    <3> QED
      BY <3>4
  <2>2. CASE w # e.root
    <3>1. PICK p \in M : /\ p = e.parent[w] /\ e.child[b][p] = w /\ Heights(e, M, k, p, b)
      BY <1>15, <2>2
    <3>2. e.colour[w] = RED /\ w # NIL /\ w \in M
      BY <1>7, <1>9, <1>16, <2>2, NodeFacts
    <3> DEFINE j == [k EXCEPT ![w] = k[w] + 1]
    <3>3. /\ k \in [Node -> Nat] /\ k[NIL] = 0
          /\ \A n \in M : \A a \in Side :
                /\ ~(n = p /\ a = b) => k[n] = k[e.child[a][n]] + e.colour[n]
                /\ n = p /\ a = b => k[n] = k[e.child[a][n]] + e.colour[n] + 1
      BY <3>1 DEF Heights
    <3>4. /\ j \in [Node -> Nat] /\ j[w] = k[w] + 1 /\ \A n \in Node \ {w} : j[n] = k[n]
      BY <1>8, <3>3
    <3> HIDE DEF j
    <3>5. OneSided(e, M)
      BY <1>7, OneSide
    <3>6. ASSUME NEW n \in M, NEW a \in Side, NEW d, d = e.child[a][n]
          PROVE  j[n] = j[d] + u.colour[n]
      <4>1. n \in Node /\ d \in Node /\ d # n /\ (d # NIL => e.parent[d] = n)
        BY <1>16, <3>6 DEF Linked
      <4>2. k[d] \in Nat /\ e.colour[n] \in Nat
        BY <1>8, <3>3, <4>1, NodeFacts
      <4>3. d = w <=> n = p /\ a = b
        <5>1. d = w => n = p
          BY <3>1, <3>2, <4>1
        <5>2. a # b => e.child[a][p] # w
          BY <3>1, <3>2, <3>5 DEF OneSided
        <5> QED
          BY <3>1, <3>6, <5>1, <5>2
      <4>4. CASE d = w
        <5>0. n = p /\ a = b => k[n] = k[e.child[a][n]] + e.colour[n] + 1
          BY <3>3
        <5>1. k[n] = k[d] + e.colour[n] + 1
          BY <3>6, <4>3, <4>4, <5>0
        <5>2. j[n] = k[n] /\ u.colour[n] = e.colour[n] /\ j[d] = k[d] + 1
          BY <1>14, <3>4, <4>1, <4>4
        <5> QED
          BY <4>2, <5>1, <5>2
      <4>5. CASE d # w
        <5>1. k[n] = k[d] + e.colour[n]
          BY <3>3, <3>6, <4>3, <4>5
        <5>2. j[d] = k[d]
          BY <3>4, <4>1, <4>5
        <5>3. CASE n = w
          <6>1. e.colour[n] = 0 /\ u.colour[n] = 1 /\ j[n] = k[n] + 1
            BY <1>14, <3>2, <3>4, <5>3, NodeFacts
          <6> QED
            BY <4>2, <5>1, <5>2, <6>1
        <5>4. CASE n # w
          BY <1>14, <3>4, <4>1, <5>1, <5>2, <5>4
        <5> QED
          BY <5>3, <5>4
      <4> QED
        BY <4>4, <4>5
    <3>7. j[NIL] = 0 /\ u.colour[NIL] = BLACK
      BY <1>14, <1>16, <3>2, <3>3, <3>4, NodeFacts
    <3>8. \A n \in M : n # NIL /\ \A a \in Side : j[n] = j[u.child[a][n]] + u.colour[n]
      BY <1>14, <1>16, <3>6 DEF Linked
    <3>9. Heights(u, M, j, NIL, "left")
      BY <3>4, <3>7, <3>8 DEF Heights
    <3> QED
      BY <3>9
  <2> QED
    BY <2>1, <2>2
<1> QED
  BY <1>10, <1>13, <1>17, <1>18 DEF Correct

-----------------------------------------------------------------------------
(* Removal: the whole operation.                                           *)

\* The fields of a node that has left are reset; the tree does not see it.
LEMMA UnlinkedCorrect ==
  ASSUME NEW t, NEW M, NEW D, NEW h, Correct(t, M, D, h), NEW z \in Prio \ M
  PROVE  Correct(Unlinked(t, z), M, D, h)
<1> DEFINE c == [t.colour EXCEPT ![z] = BLACK]
           f == [t.parent EXCEPT ![z] = NIL]
           g == [s \in Side |-> [t.child[s] EXCEPT ![z] = NIL]]
           q1 == [t EXCEPT !.colour = c]
           q2 == [q1 EXCEPT !.parent = f]
           u == [q2 EXCEPT !.child = g]
<1>1. /\ Shaped(t, M, D) /\ Heights(t, M, h, NIL, "left") /\ RedsApart(t, M, NIL)
      /\ t \in Tree /\ M \subseteq Prio
  BY DEF Correct, Shaped
<1>2. Unlinked(t, z) = u
  BY <1>1 DEF Unlinked, Tree
<1>3. /\ t.colour \in [Node -> {RED, BLACK}] /\ t.parent \in [Node -> Node]
      /\ t.child \in [Side -> [Node -> Node]] /\ z \in Node /\ NIL \in Node
  BY <1>1, NodeFacts DEF Tree
<1>4. /\ c \in [Node -> {RED, BLACK}] /\ \A n \in Node \ {z} : c[n] = t.colour[n]
      /\ f \in [Node -> Node] /\ \A n \in Node \ {z} : f[n] = t.parent[n]
  BY <1>3
<1>5. /\ g \in [Side -> [Node -> Node]]
      /\ \A a \in Side : \A n \in Node \ {z} : g[a][n] = t.child[a][n]
  BY <1>3
<1> HIDE DEF c, f, g
<1>6. /\ u \in Tree /\ u.root = t.root /\ u.colour = c /\ u.parent = f /\ u.child = g
  <2>1. q1 \in Tree /\ q1.root = t.root /\ q1.colour = c
    BY <1>1, <1>4, Updates
  <2> HIDE DEF q1
  <2>2. q2 \in Tree /\ q2.root = t.root /\ q2.colour = c /\ q2.parent = f
    BY <1>4, <2>1, Updates
  <2> HIDE DEF q2
  <2> QED
    BY <1>5, <2>2, Updates
<1> HIDE DEF u
<1>7. Linked(t, M) /\ NIL # z /\ \A n \in M : n \in Node \ {z}
  <2>1. Linked(t, M)
    BY <1>1, ShapedLinked
  <2> QED
    BY <2>1, NodeFacts DEF Linked
<1>8. SameIn(u, t, M)
  BY <1>4, <1>5, <1>6, <1>7 DEF SameIn
<1>9. Shaped(u, M, D)
  BY <1>1, <1>8, SameShaped
<1>10. \A n \in M \cup {NIL} : u.colour[n] = t.colour[n]
  BY <1>3, <1>4, <1>6, <1>7
<1>11. \A n \in M : \A a \in Side : u.child[a][n] = t.child[a][n]
  BY <1>8 DEF SameIn
<1>12. Heights(u, M, h, NIL, "left")
  BY <1>1, <1>10, <1>11 DEF Heights
<1>13. RedsApart(u, M, NIL)
  <2>1. u.root \in M \cup {NIL} /\ \A n \in M : \A a \in Side : u.child[a][n] \in M \cup {NIL}
    BY <1>9, ShapedNode DEF Shaped
  <2> QED
    BY <1>1, <1>6, <1>10, <1>11, <2>1 DEF RedsApart
<1> QED
  BY <1>2, <1>9, <1>12, <1>13 DEF Correct

\* The end of a removal: the loop runs if the node that left its place was black.
LEMMA Restored ==
  ASSUME NEW r, NEW N, NEW E, NEW h, NEW x, NEW c \in {RED, BLACK},
         c = RED => Correct(r, N, E, h), c = BLACK => Lacking(r, N, E, h, x),
         NEW z \in Prio \ N
  PROVE  \E F, k : Correct(Unlinked(IF c = BLACK THEN rb_remove_fixup(r, x) ELSE r, z), N, F, k)
<1>1. CASE c = BLACK
  <2>1. PICK F, k : Correct(rb_remove_fixup(r, x), N, F, k)
    BY <1>1, RemoveFixupCorrect
  <2>2. Correct(Unlinked(rb_remove_fixup(r, x), z), N, F, k)
    BY <2>1, UnlinkedCorrect
  <2> QED
    BY <1>1, <2>2
<1>2. CASE c = RED
  <2>1. Correct(Unlinked(r, z), N, E, h)
    BY <1>2, UnlinkedCorrect
  <2>2. c # BLACK
    BY <1>2, NodeFacts
  <2> QED
    BY <2>1, <2>2
<1> QED
  BY <1>1, <1>2

\* A node without a left or without a right child is cut out.
LEMMA OneChildRemoved ==
  ASSUME NEW t, NEW M, NEW D, NEW h, Correct(t, M, D, h), NEW z \in M, NEW a \in Side,
         NEW x, x = t.child[a][z], t.child[Other(a)][z] = NIL,
         NEW r, r = rb_transplant(t, z, x), NEW c, c = t.colour[z]
  PROVE  \E F, k : Correct(Unlinked(IF c = BLACK THEN rb_remove_fixup(r, x) ELSE r, z),
                           M \ {z}, F, k)
<1>1. Shaped(t, M, D)
  BY DEF Correct
<1>2. t \in Tree /\ z \in Prio /\ z \in Node /\ x \in Node
  BY <1>1, ShapedNode DEF Shaped
<1>3. c \in {RED, BLACK}
  BY <1>2, TreeFields
<1>4. Cut(r, t, M, z, x)
  BY <1>1, <1>2, TransplantCuts
<1>5. PICK N, E : N = M \ {z} /\ E = Without(D, z)
  OBVIOUS
<1>6. (c = RED => Correct(r, N, E, h)) /\ (c = BLACK => Lacking(r, N, E, h, x))
  BY <1>4, <1>5, CutLacks
<1>7. z \in Prio \ N
  BY <1>2, <1>5
<1>8. \E F, k : Correct(Unlinked(IF c = BLACK THEN rb_remove_fixup(r, x) ELSE r, z), N, F, k)
  BY <1>3, <1>6, <1>7, Restored
<1> QED
  BY <1>5, <1>8

\* A node with two children gives its place to its successor, which is cut out.
LEMMA TwoChildrenRemoved ==
  ASSUME NEW t, NEW M, NEW D, NEW h, Correct(t, M, D, h), NEW z \in M,
         NEW l, l = t.child["left"][z], NEW c, c = t.child["right"][z], l # NIL, c # NIL,
         NEW y, y = rb_min(t, c), NEW x, x = t.child["right"][y],
         NEW r, r = Spliced(t, z), NEW b, b = t.colour[y]
  PROVE  \E F, k : Correct(Unlinked(IF b = BLACK THEN rb_remove_fixup(r, x) ELSE r, z),
                           M \ {z}, F, k)
<1>1. Shaped(t, M, D) /\ t \in Tree /\ M \subseteq Prio /\ z \in Prio
  BY DEF Correct, Shaped
<1>2. c \in M
  BY <1>1, ShapedNode, SideFacts
<1>3. IsLeftmost(t, M, D, c, y)
  <2>1. y = Leftmost(t, c)
    BY DEF rb_min
  <2> QED
    BY <1>1, <1>2, <2>1, LeftmostFound
<1>4. Succeeds(t, M, D, z, l, c, y, x)
  BY <1>1, <1>3, SuccessorSucceeds
<1>5. /\ y \in M /\ z # y /\ t.child["left"][y] = NIL /\ x \in M \cup {NIL} /\ x # z
      /\ \A n \in M \ {z} : \A a \in Side : Ahead(a, n, z) /\ n # y => Ahead(a, n, y)
  BY <1>4 DEF Succeeds
<1>6. y \in Prio /\ y \in Node /\ x \in Node
  BY <1>1, <1>5, NodeFacts
<1>7. b \in {RED, BLACK}
  BY <1>1, <1>6, TreeFields
<1>8. PICK u, N, E : u = rb_transplant(t, y, x) /\ N = M \ {y} /\ E = Without(D, y)
  OBVIOUS
<1>9. Cut(u, t, M, y, x)
  BY <1>1, <1>5, <1>6, <1>8, TransplantCuts
<1>10. "right" \in Side /\ Other("right") = "left"
  BY SideFacts DEF Other
<1>11. (b = RED => Correct(u, N, E, h)) /\ (b = BLACK => Lacking(u, N, E, h, x))
  BY <1>5, <1>8, <1>9, <1>10, CutLacks
<1>12. Shaped(u, N, E)
  BY <1>7, <1>11 DEF Correct, Lacking
<1>13. Renamed(r, u, N, z, y, x)
  BY <1>1, <1>4, <1>8, <1>12, SplicedRenames
<1>14. z \in N /\ y \in Prio \ N
  BY <1>5, <1>6, <1>8
<1>15. \A n \in N \ {z} : \A a \in Side : Ahead(a, n, z) => Ahead(a, n, y)
  BY <1>5, <1>8
<1>16. Put(z, y, x) = x
  BY <1>5 DEF Put
<1>17. PICK G, g : G = PutBelow(E, z, y) /\ g = PutHeight(h, z, y)
  OBVIOUS
<1>18. PutIn(N, z, y) = M \ {z}
  BY <1>5, <1>8 DEF PutIn
<1>19. b = RED => Correct(r, M \ {z}, G, g)
  BY <1>11, <1>13, <1>14, <1>15, <1>17, <1>18, RenamedCorrect
<1>20. b = BLACK => Lacking(r, M \ {z}, G, g, x)
  <2>1. SUFFICES ASSUME b = BLACK PROVE Lacking(r, M \ {z}, G, g, x)
    OBVIOUS
  <2>2. Lacking(r, PutIn(N, z, y), PutBelow(E, z, y), PutHeight(h, z, y), Put(z, y, x))
    BY <1>11, <1>13, <1>14, <1>15, <2>1, RenamedLacking
  <2> QED
    BY <1>16, <1>17, <1>18, <2>2
<1>21. z \in Prio \ (M \ {z})
  BY <1>1
<1> QED
  BY <1>7, <1>19, <1>20, <1>21, Restored

\* Removing a priority from the tree takes it away and keeps the tree correct.
LEMMA RemoveCorrect ==
  ASSUME NEW t, NEW M, NEW D, NEW h, Correct(t, M, D, h), NEW z \in M
  PROVE  \E F, k : Correct(rb_remove(t, z), M \ {z}, F, k)
<1>1. PICK l, c : l = t.child["left"][z] /\ c = t.child["right"][z]
  OBVIOUS
<1>2. /\ "left" \in Side /\ "right" \in Side
      /\ Other("left") = "right" /\ Other("right") = "left"
  BY SideFacts DEF Other
<1>3. CASE l = NIL
  <2>1. PICK r, b : r = rb_transplant(t, z, c) /\ b = t.colour[z]
    OBVIOUS
  <2>2. rb_remove(t, z) = Unlinked(IF b = BLACK THEN rb_remove_fixup(r, c) ELSE r, z)
    BY <1>1, <1>3, <2>1 DEF rb_remove
  <2>3. c = t.child["right"][z] /\ t.child[Other("right")][z] = NIL
    BY <1>1, <1>2, <1>3
  <2>4. \E F, k : Correct(Unlinked(IF b = BLACK THEN rb_remove_fixup(r, c) ELSE r, z),
                          M \ {z}, F, k)
    BY <1>2, <2>1, <2>3, OneChildRemoved
  <2> QED
    BY <2>2, <2>4
<1>4. CASE l # NIL /\ c = NIL
  <2>1. PICK r, b : r = rb_transplant(t, z, l) /\ b = t.colour[z]
    OBVIOUS
  <2>2. rb_remove(t, z) = Unlinked(IF b = BLACK THEN rb_remove_fixup(r, l) ELSE r, z)
    BY <1>1, <1>4, <2>1 DEF rb_remove
  <2>3. l = t.child["left"][z] /\ t.child[Other("left")][z] = NIL
    BY <1>1, <1>2, <1>4
  <2>4. \E F, k : Correct(Unlinked(IF b = BLACK THEN rb_remove_fixup(r, l) ELSE r, z),
                          M \ {z}, F, k)
    BY <1>2, <2>1, <2>3, OneChildRemoved
  <2> QED
    BY <2>2, <2>4
<1>5. CASE l # NIL /\ c # NIL
  <2>1. PICK r, y : r = Spliced(t, z) /\ y = rb_min(t, c)
    OBVIOUS
  <2>2. PICK x, b : x = t.child["right"][y] /\ b = t.colour[y]
    OBVIOUS
  <2>3. rb_remove(t, z) = Unlinked(IF b = BLACK THEN rb_remove_fixup(r, x) ELSE r, z)
    BY <1>1, <1>5, <2>1, <2>2 DEF rb_remove
  <2> QED
    BY <1>1, <1>5, <2>1, <2>2, <2>3, TwoChildrenRemoved
<1> QED
  BY <1>3, <1>4, <1>5

-----------------------------------------------------------------------------
(* What the operators of the properties compute.                           *)

\* The levels from the bottom up: what f makes of the right values of a node's children
\* is the right value of the node, so the right values have been reached after Iterations.
LEMMA LevelsReach ==
  ASSUME NEW t, NEW M, NEW D, Shaped(t, M, D), NEW f, NEW T, NEW start \in T, NEW want,
         \A b \in T : f[b] \in T /\ f[b][NIL] = want[NIL],
         \A b \in T : \A m \in M :
            (\A a \in Side : b[t.child[a][m]] = want[t.child[a][m]]) => f[b][m] = want[m]
  PROVE  \A n \in M \cup {NIL} : Iterated(f, start, Iterations)[n] = want[n]
<1> DEFINE J == [i \in Nat |-> {b \in T : \A m \in M \cup {NIL} :
                                  Cardinality(D[m]) < i => b[m] = want[m]}]
<1>1. Iterations \in Nat
  BY SmallSets
<1>2. \A m \in M \cup {NIL} : /\ Cardinality(D[m]) \in Nat /\ Cardinality(D[m]) < Iterations
                              /\ D[m] \in SUBSET Prio
  <2>1. \A m \in M \cup {NIL} : D[m] \in SUBSET Prio
    BY NodeFacts DEF Shaped
  <2> QED
    BY <2>1, SmallSets
<1>3. start \in J[0]
  <2>1. \A m \in M \cup {NIL} : ~(Cardinality(D[m]) < 0)
    BY <1>2
  <2> QED
    BY <2>1
<1>4. ASSUME NEW i \in Nat, NEW b \in J[i]
      PROVE  f[b] \in J[i + 1]
  <2>1. b \in T /\ \A m \in M \cup {NIL} : Cardinality(D[m]) < i => b[m] = want[m]
    OBVIOUS
  <2>2. f[b] \in T /\ f[b][NIL] = want[NIL]
    BY <2>1
  <2>3. ASSUME NEW m \in M, Cardinality(D[m]) < i + 1
        PROVE  f[b][m] = want[m]
    <3>1. ASSUME NEW a \in Side
          PROVE  b[t.child[a][m]] = want[t.child[a][m]]
      <4>1. PICK c : c = t.child[a][m]
        OBVIOUS
      <4>2. c \in M \cup {NIL} /\ D[c] \subseteq D[m] /\ m \in D[m] /\ m \notin D[c]
        BY <4>1, ShapedNode
      <4>3. Cardinality(D[c]) < Cardinality(D[m])
        BY <1>2, <4>2, SmallSets
      <4>4. Cardinality(D[c]) < i
        BY <1>2, <2>3, <4>2, <4>3
      <4> QED
        BY <2>1, <4>1, <4>2, <4>4
    <3> QED
      BY <2>1, <3>1
  <2>4. \A m \in M \cup {NIL} : Cardinality(D[m]) < i + 1 => f[b][m] = want[m]
    BY <2>2, <2>3
  <2> QED
    BY <2>2, <2>4
<1>5. \A i \in 0 .. Iterations - 1 : i \in Nat
  OBVIOUS
<1>6. J[Iterations] = {b \in T : \A m \in M \cup {NIL} :
                                  Cardinality(D[m]) < Iterations => b[m] = want[m]}
  BY <1>1
<1> HIDE DEF J
<1>7. Iterated(f, start, Iterations) \in J[Iterations]
  BY <1>1, <1>3, <1>4, <1>5, IteratedKeeps
<1> QED
  BY <1>2, <1>6, <1>7

LEMMA BelowFound ==
  ASSUME NEW t, NEW M, NEW D, Shaped(t, M, D)
  PROVE  \A n \in M \cup {NIL} : Below(t, n) = D[n]
<1> DEFINE f == [b \in [Node -> SUBSET Node] |->
                  [m \in Node |-> IF m = NIL THEN {}
                                  ELSE {m} \cup UNION {b[t.child[s][m]] : s \in Side}]]
           start == [m \in Node |-> {}]
           T == [Node -> SUBSET Node]
<1>1. /\ t \in Tree /\ M \subseteq Prio /\ D[NIL] = {} /\ NIL \in Node
      /\ \A m \in M : m \in Node /\ m # NIL
      /\ \A s \in Side : \A m \in Node : t.child[s][m] \in Node
  BY NodeFacts, TreeFields DEF Shaped
<1>2. start \in T
  OBVIOUS
<1>3. \A b \in T : f[b] \in T /\ f[b][NIL] = {}
  <2>1. ASSUME NEW b \in T
        PROVE  f[b] \in T /\ f[b][NIL] = {}
    <3>1. f[b] = [m \in Node |-> IF m = NIL THEN {}
                                 ELSE {m} \cup UNION {b[t.child[s][m]] : s \in Side}]
      OBVIOUS
    <3>2. \A m \in Node : UNION {b[t.child[s][m]] : s \in Side} \in SUBSET Node
      BY <1>1
    <3> HIDE DEF f
    <3> QED
      BY <1>1, <3>1, <3>2
  <2> QED
    BY <2>1
<1>4. ASSUME NEW b \in T, NEW m \in M,
             \A a \in Side : b[t.child[a][m]] = D[t.child[a][m]]
      PROVE  f[b][m] = D[m]
  <2>1. f[b][m] = {m} \cup UNION {b[t.child[s][m]] : s \in Side}
    BY <1>1
  <2>2. D[m] = {m} \cup D[t.child["left"][m]] \cup D[t.child["right"][m]]
    BY DEF Shaped
  <2> HIDE DEF f
  <2>3. UNION {b[t.child[s][m]] : s \in Side} = D[t.child["left"][m]] \cup D[t.child["right"][m]]
    BY <1>4 DEF Side
  <2> QED
    BY <2>1, <2>2, <2>3
<1>5. \A n \in Node : Below(t, n) = Iterated(f, start, Iterations)[n]
  BY DEF Below
<1> HIDE DEF f, start, T
<1>6. \A n \in M \cup {NIL} : Iterated(f, start, Iterations)[n] = D[n]
  <2>1. \A b \in T : f[b] \in T /\ f[b][NIL] = D[NIL]
    BY <1>1, <1>3
  <2> QED
    BY <1>2, <1>4, <2>1, LevelsReach
<1> QED
  BY <1>1, <1>5, <1>6

LEMMA BlackHeightsFound ==
  ASSUME NEW t, NEW M, NEW D, NEW h, Shaped(t, M, D), Heights(t, M, h, NIL, "left")
  PROVE  \A n \in M \cup {NIL} : BlackHeights(t, n) = {h[n]}
<1> DEFINE f == [b \in [Node -> SUBSET Nat] |->
                  [m \in Node |-> IF m = NIL THEN {0}
                                  ELSE {k + t.colour[m] : k \in UNION {b[t.child[s][m]] : s \in Side}}]]
           start == [m \in Node |-> {}]
           T == [Node -> SUBSET Nat]
           want == [m \in Node |-> {h[m]}]
<1>1. /\ t \in Tree /\ M \subseteq Prio /\ NIL \in Node
      /\ \A m \in M : m \in Node /\ m # NIL
      /\ \A s \in Side : \A m \in Node : t.child[s][m] \in Node
      /\ \A m \in Node : t.colour[m] \in Nat
  BY NodeFacts, TreeFields DEF Shaped
<1>2. start \in T
  OBVIOUS
<1>3. /\ h \in [Node -> Nat] /\ h[NIL] = 0
      /\ \A m \in M : \A a \in Side : h[m] = h[t.child[a][m]] + t.colour[m]
  BY <1>1 DEF Heights
<1>4. want[NIL] = {0} /\ \A m \in Node : want[m] = {h[m]}
  BY <1>1, <1>3
<1>5. \A b \in T : f[b] \in T /\ f[b][NIL] = want[NIL]
  <2>1. ASSUME NEW b \in T
        PROVE  f[b] \in T /\ f[b][NIL] = {0}
    <3>1. f[b] = [m \in Node |-> IF m = NIL THEN {0}
                      ELSE {k + t.colour[m] : k \in UNION {b[t.child[s][m]] : s \in Side}}]
      OBVIOUS
    <3>2. \A m \in Node : UNION {b[t.child[s][m]] : s \in Side} \in SUBSET Nat
      BY <1>1
    <3>3. \A m \in Node : {k + t.colour[m] : k \in UNION {b[t.child[s][m]] : s \in Side}} \in SUBSET Nat
      <4>1. ASSUME NEW m \in Node, NEW W \in SUBSET Nat
            PROVE  {k + t.colour[m] : k \in W} \in SUBSET Nat
        BY <1>1
      <4> HIDE DEF T, f
      <4> QED
        BY <3>2, <4>1
    <3> HIDE DEF f
    <3> QED
      BY <1>1, <3>1, <3>3
  <2> HIDE DEF f, T, want
  <2> QED
    BY <1>4, <2>1
<1>6. ASSUME NEW b \in T, NEW m \in M,
             \A a \in Side : b[t.child[a][m]] = want[t.child[a][m]]
      PROVE  f[b][m] = want[m]
  <2>1. f[b][m] = {k + t.colour[m] : k \in UNION {b[t.child[s][m]] : s \in Side}}
    BY <1>1
  <2> HIDE DEF f
  <2>2. PICK g : g = h[m] - t.colour[m]
    OBVIOUS
  <2>3. h[m] \in Nat /\ t.colour[m] \in Nat
    BY <1>1, <1>3
  <2>4. \A a \in Side : b[t.child[a][m]] = {g}
    <3>1. ASSUME NEW a \in Side, NEW c, c = t.child[a][m]
          PROVE  b[c] = {g}
      <4>1. b[c] = {h[c]} /\ h[c] \in Nat
        BY <1>1, <1>3, <1>4, <1>6, <3>1
      <4>2. h[m] = h[c] + t.colour[m]
        BY <1>3, <3>1
      <4> QED
        BY <2>2, <2>3, <4>1, <4>2
    <3> QED
      BY <3>1
  <2>5. UNION {b[t.child[s][m]] : s \in Side} = {g}
    BY <2>4 DEF Side
  <2>6. g + t.colour[m] = h[m]
    BY <2>2, <2>3
  <2> QED
    BY <1>1, <1>4, <2>1, <2>5, <2>6
<1>7. \A n \in Node : BlackHeights(t, n) = Iterated(f, start, Iterations)[n]
  BY DEF BlackHeights
<1> HIDE DEF f, start, T, want
<1>8. \A n \in M \cup {NIL} : Iterated(f, start, Iterations)[n] = want[n]
  BY <1>2, <1>5, <1>6, LevelsReach
<1> QED
  BY <1>1, <1>4, <1>7, <1>8

\* The nodes of a correct tree, and the first of them.
LEMMA MembersFound ==
  ASSUME NEW t, NEW M, NEW D, NEW h, Correct(t, M, D, h)
  PROVE  Members(t) = M /\ (M # {} => rb_min(t, t.root) = Min(M))
<1>1. Shaped(t, M, D)
  BY DEF Correct
<1>2. t.root \in M \cup {NIL} /\ D[t.root] = M /\ D[NIL] = {} /\ M \subseteq Prio
  BY <1>1 DEF Shaped
<1>3. Members(t) = M
  BY <1>1, <1>2, BelowFound DEF Members
<1>4. ASSUME M # {}
      PROVE  rb_min(t, t.root) = Min(M)
  <2>1. t.root \in M /\ t.root # NIL
    BY <1>2, <1>4
  <2>2. PICK m : m = rb_min(t, t.root)
    OBVIOUS
  <2>3. IsLeftmost(t, M, D, t.root, m)
    <3>1. m = Leftmost(t, t.root)
      BY <2>1, <2>2 DEF rb_min
    <3> QED
      BY <1>1, <2>1, <3>1, LeftmostFound
  <2>4. m \in M /\ \A k \in M : k = m \/ m < k
    BY <1>2, <2>3 DEF IsLeftmost
  <2>5. \A k \in M : k \in Nat
    BY <1>2, NodeFacts
  <2>6. \A k \in M : (\A j \in M : k <= j) <=> k = m
    BY <2>4, <2>5
  <2> QED
    BY <2>2, <2>4, <2>6 DEF Min
<1> QED
  BY <1>3, <1>4

-----------------------------------------------------------------------------
(* The theorems.                                                           *)

\* The tree is correct, for some nodes, subtrees and numbers of black nodes.
RBInv == \E M, D, h : Correct(tree, M, D, h)

LEMMA EmptyCorrect == \E D, h : Correct(EmptyTree, {}, D, h)
<1> DEFINE D == [n \in Node |-> {}]
           h == [n \in Node |-> 0]
<1>1. EmptyTree \in Tree /\ EmptyTree.root = NIL /\ EmptyTree.colour[NIL] = BLACK
  BY NodeFacts DEF EmptyTree, Tree
<1>2. D \in [Node -> SUBSET {}] /\ D[NIL] = {} /\ h \in [Node -> Nat] /\ h[NIL] = 0
  BY NodeFacts
<1> HIDE DEF D, h
<1>3. Shaped(EmptyTree, {}, D)
  BY <1>1, <1>2 DEF Shaped
<1>4. Heights(EmptyTree, {}, h, NIL, "left") /\ RedsApart(EmptyTree, {}, NIL)
  BY <1>1, <1>2 DEF Heights, RedsApart
<1> QED
  BY <1>3, <1>4 DEF Correct

\* A step takes the nodes M to those with p or without it.
LEMMA StepCorrect ==
  ASSUME RBInv, Insert \/ Remove
  PROVE  \E M, N, p, D, h : /\ Members(tree) = M /\ Correct(tree', N, D, h)
                            /\ (p \notin M /\ N = M \cup {p}) \/ (p \in M /\ N = M \ {p})
<1>1. PICK M, D, h : Correct(tree, M, D, h)
  BY DEF RBInv
<1>2. Members(tree) = M
  BY <1>1, MembersFound
<1>3. CASE Insert
  <2>1. PICK p \in Prio \ M : tree' = rb_insert(tree, p)
    BY <1>2, <1>3 DEF Insert
  <2>2. PICK E, k : Correct(rb_insert(tree, p), M \cup {p}, E, k)
    BY <1>1, <2>1, InsertCorrect
  <2> QED
    BY <1>2, <2>1, <2>2
<1>4. CASE Remove
  <2>1. PICK p \in M : tree' = rb_remove(tree, p)
    BY <1>2, <1>4 DEF Remove
  <2>2. PICK E, k : Correct(rb_remove(tree, p), M \ {p}, E, k)
    BY <1>1, <2>1, RemoveCorrect
  <2> QED
    BY <1>2, <2>1, <2>2
<1> QED
  BY <1>3, <1>4

\* rb_insert and rb_remove keep the tree correct for every number of priorities, each of
\* their loops in at most Iterations iterations.
THEOREM RBInvariant == Spec => []RBInv
<1>1. Init => RBInv
  BY EmptyCorrect DEF Init, RBInv
<1>2. RBInv /\ [Insert \/ Remove]_tree => RBInv'
  <2>1. ASSUME RBInv, Insert \/ Remove
        PROVE  RBInv'
    BY <2>1, StepCorrect DEF RBInv
  <2>2. ASSUME RBInv, UNCHANGED tree
        PROVE  RBInv'
    BY <2>2 DEF RBInv
  <2> QED
    BY <2>1, <2>2
<1> QED
  BY <1>1, <1>2, PTL DEF Spec

\* The pointers are nodes and the colours are colours.
THEOREM TreeTypeCorrect == Spec => []TreeTypeOK
<1>1. RBInv => TreeTypeOK
  BY DEF RBInv, Correct, Shaped, TreeTypeOK
<1> QED
  BY <1>1, RBInvariant, PTL

\* The tree is a search tree with consistent parent pointers, its root and its nil node
\* are black and a red node has black children.
THEOREM SearchTreeCorrect == Spec => []SearchTree
<1>1. ASSUME NEW t, NEW M, NEW D, NEW h, Correct(t, M, D, h)
      PROVE  /\ Ordered(t)
             /\ t.colour[NIL] = BLACK /\ t.colour[t.root] = BLACK
             /\ t.root # NIL => t.parent[t.root] = NIL
  <2>1. Shaped(t, M, D) /\ Heights(t, M, h, NIL, "left") /\ RedsApart(t, M, NIL)
    BY <1>1 DEF Correct
  <2>2. t.colour[NIL] = BLACK
    BY <2>1 DEF Heights
  <2>3. t.colour[t.root] = BLACK
    BY <2>1, <2>2 DEF RedsApart
  <2>4. t.root # NIL => t.parent[t.root] = NIL
    BY <2>1 DEF Shaped
  <2>5. ASSUME NEW n \in M, NEW s \in Side, NEW c, c = t.child[s][n]
        PROVE  /\ \A m \in Below(t, c) : IF s = "left" THEN m < n ELSE m > n
               /\ c # NIL => t.parent[c] = n
               /\ t.colour[n] = RED => t.colour[c] = BLACK
    <3>1. n \in Node /\ n # NIL /\ c \in M \cup {NIL}
      BY <2>1, <2>5, ShapedNode
    <3>2. n \in Prio /\ D[c] \subseteq Prio /\ \A m \in D[c] : Ahead(s, m, n)
      BY <2>1, <2>5, <3>1, ShapedNode, NodeFacts DEF Shaped
    <3>3. Below(t, c) = D[c]
      BY <2>1, <3>1, BelowFound
    <3>4. \A m \in Below(t, c) : IF s = "left" THEN m < n ELSE m > n
      BY <3>2, <3>3, NodeFacts DEF Ahead
    <3>5. t.colour[n] = RED => t.colour[c] = BLACK
      BY <2>1, <2>2, <2>5, <3>1, NodeFacts DEF RedsApart
    <3> QED
      BY <2>1, <2>5, <3>4, <3>5, ShapedNode
  <2>6. Members(t) = M
    BY <1>1, MembersFound
  <2>7. Ordered(t)
    BY <2>5, <2>6 DEF Ordered
  <2> QED
    BY <2>2, <2>3, <2>4, <2>7
<1>2. RBInv => SearchTree
  BY <1>1 DEF RBInv, SearchTree
<1> QED
  BY <1>2, RBInvariant, PTL

\* Every way down from the root passes the same number of black nodes.
THEOREM BalancedCorrect == Spec => []Balanced
<1>1. RBInv => Balanced
  <2>1. SUFFICES ASSUME NEW M, NEW D, NEW h, Correct(tree, M, D, h)
                 PROVE  Balanced
    BY DEF RBInv
  <2>2. Shaped(tree, M, D) /\ Heights(tree, M, h, NIL, "left") /\ tree.root \in M \cup {NIL}
    BY <2>1 DEF Correct, Shaped
  <2>3. BlackHeights(tree, tree.root) = {h[tree.root]}
    BY <2>2, BlackHeightsFound
  <2> QED
    BY <2>3, FS_Singleton DEF Balanced
<1> QED
  BY <1>1, RBInvariant, PTL

\* A step adds or removes one priority and loses no other, and rb_min finds the most
\* urgent one of what is then in the tree.
THEOREM MembersKeptCorrect == Spec => MembersKept
<1> DEFINE Kept == /\ Cardinality(SymDiff(Members(tree), Members(tree)')) = 1
                   /\ Members(tree)' # {} => rb_min(tree, tree.root)' = Min(Members(tree)')
<1>1. RBInv /\ [Insert \/ Remove]_tree => [Kept]_tree
  <2>1. ASSUME RBInv, Insert \/ Remove
        PROVE  Kept
    <3>1. PICK M, N, p, D, h :
             /\ Members(tree) = M /\ Correct(tree', N, D, h)
             /\ (p \notin M /\ N = M \cup {p}) \/ (p \in M /\ N = M \ {p})
      BY <2>1, StepCorrect
    <3>2. Members(tree') = N /\ (N # {} => rb_min(tree', tree'.root) = Min(N))
      BY <3>1, MembersFound
    <3>3. SymDiff(M, N) = {p}
      BY <3>1 DEF SymDiff
    <3> QED
      BY <3>1, <3>2, <3>3, FS_Singleton
  <2> QED
    BY <2>1
<1> QED
  BY <1>1, RBInvariant, PTL DEF Spec, MembersKept
=============================================================================
