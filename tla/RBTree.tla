------------------------------- MODULE RBTree -------------------------------
(***************************************************************************)
(* The red-black tree of the priorities in use (tcb_storage.c): a node per *)
(* priority, linked by pointers, and one nil node that every leaf and the  *)
(* root's parent share.  The left and the right cases of the code are one  *)
(* case with a side as a parameter.  Every operation runs inside a system  *)
(* call.  A loop of the code is one iteration of it, done again and again  *)
(* until nothing changes; Iterations bounds how often.                     *)
(***************************************************************************)
EXTENDS Integers, FiniteSets, FiniteSetsExt

CONSTANT PRIO_NULL      \* the largest priority

Prio == 0 .. PRIO_NULL
NIL  == PRIO_NULL + 1   \* tree_arr[PRIO_NULL + 1]
Node == Prio \cup {NIL}

RED   == 0
BLACK == 1

Side == {"left", "right"}
Other(s) == IF s = "left" THEN "right" ELSE "left"

ASSUME PrioAssumption == PRIO_NULL \in Nat

VARIABLE tree    \* the root, and the fields of the nodes

\* A node is its own priority.  The fields of a node that is not in the tree are
\* black and NIL: rb_insert writes all of them before anything reads one.
Tree == [root : Node, colour : [Node -> {RED, BLACK}], parent : [Node -> Node],
         child : [Side -> [Node -> Node]]]

\* Mutant of EmptyTree: the index of the nil node is one too large.
EmptyTree_OffByOne == [root |-> NIL + 1,
                       colour |-> [n \in Node |-> BLACK],
                       parent |-> [n \in Node |-> NIL + 1],
                       child |-> [s \in Side |-> [n \in Node |-> NIL + 1]]]

\* rb_initialize_tree.
EmptyTree == [root |-> NIL,
              colour |-> [n \in Node |-> BLACK],
              parent |-> [n \in Node |-> NIL],
              child |-> [s \in Side |-> [n \in Node |-> NIL]]]

-----------------------------------------------------------------------------
(* Loops.                                                                  *)

\* f applied n times to x.
Iterated(f, x, n) ==
  LET v[i \in 0 .. n] == IF i = 0 THEN x ELSE f[v[i - 1]]
  IN  v[n]

\* No loop goes round more often than there are nodes: each iteration but the last
\* moves to a larger or to a smaller subtree.
Iterations == Cardinality(Node)

\* The variables of a loop: the tree and the node it has come to.
Loop == [tree : Tree, at : Node]

-----------------------------------------------------------------------------
(* Operations on a tree t.                                                 *)

\* The child on side s that node p hangs off, if it is n.
SideOf(t, p, n) == IF n = t.child["left"][p] THEN "left" ELSE "right"

\* Parent p's pointer to u points to v instead.
Relink(t, p, u, v) ==
  IF p = NIL THEN [t EXCEPT !.root = v] ELSE [t EXCEPT !.child[SideOf(t, p, u)][p] = v]

\* rb_left_rotate for s = "left", rb_right_rotate for s = "right".
rb_rotate(t, x, s) ==
  LET y == t.child[Other(s)][x]
      z == t.child[s][y]
      p == t.parent[x]
      r == Relink(t, p, x, y)
  IN  [r EXCEPT !.child = [r.child EXCEPT ![Other(s)][x] = z, ![s][y] = x],
                !.parent = [t.parent EXCEPT ![z] = IF z = NIL THEN t.parent[z] ELSE x,
                                            ![y] = p, ![x] = y]]

\* Mutant of InsertFixup: a red uncle is not recoloured.
InsertFixup_KeepsUncle(l) ==
  LET t == l.tree
      z == l.at
      p == t.parent[z]
      g == t.parent[p]
      s == SideOf(t, g, p)
      y == t.child[Other(s)][g]
  IN  CASE t.colour[p] = BLACK -> l
        [] t.colour[p] = RED /\ t.colour[y] = RED ->
             [tree |-> [t EXCEPT !.colour = [t.colour EXCEPT ![p] = BLACK, ![g] = RED]], at |-> g]
        [] t.colour[p] = RED /\ t.colour[y] = BLACK /\ z = t.child[Other(s)][p] ->
             [tree |-> rb_rotate(t, p, s), at |-> p]
        [] OTHER ->
             [tree |-> rb_rotate([t EXCEPT !.colour = [t.colour EXCEPT ![p] = BLACK, ![g] = RED]], g, Other(s)),
              at |-> z]

\* z and its parent p may both be red: recolour and go up, or rotate.
InsertFixup(l) ==
  LET t == l.tree
      z == l.at
      p == t.parent[z]
      g == t.parent[p]
      s == SideOf(t, g, p)
      y == t.child[Other(s)][g]
  IN  CASE t.colour[p] = BLACK -> l
        [] t.colour[p] = RED /\ t.colour[y] = RED ->
             [tree |-> [t EXCEPT !.colour = [t.colour EXCEPT ![p] = BLACK, ![y] = BLACK, ![g] = RED]],
              at |-> g]
        [] t.colour[p] = RED /\ t.colour[y] = BLACK /\ z = t.child[Other(s)][p] ->
             [tree |-> rb_rotate(t, p, s), at |-> p]
        [] OTHER ->
             [tree |-> rb_rotate([t EXCEPT !.colour = [t.colour EXCEPT ![p] = BLACK, ![g] = RED]], g, Other(s)),
              at |-> z]

rb_insert_fixup(t, z) ==
  LET end == Iterated([l \in Loop |-> InsertFixup(l)], [tree |-> t, at |-> z], Iterations).tree
  IN  [end EXCEPT !.colour[end.root] = BLACK]

\* The node that z is to hang off: the search goes down from the root, a[1] being
\* the node it has come to and a[2] the one it came from.
InsertionPoint(t, z) ==
  LET down == [a \in Node \X Node |->
                 IF a[1] = NIL THEN a
                 ELSE <<t.child[IF z < a[1] THEN "left" ELSE "right"][a[1]], a[1]>>]
  IN  Iterated(down, <<t.root, NIL>>, Iterations)[2]

rb_insert(t, z) ==
  LET y == InsertionPoint(t, z)
      linked == IF y = NIL THEN [t EXCEPT !.root = z]
                ELSE [t EXCEPT !.child[IF z < y THEN "left" ELSE "right"][y] = z]
  IN  rb_insert_fixup([linked EXCEPT !.parent[z] = y, !.colour[z] = RED,
                                     !.child = [s \in Side |-> [linked.child[s] EXCEPT ![z] = NIL]]],
                      z)

Leftmost(t, n) ==
  Iterated([m \in Node |-> IF t.child["left"][m] = NIL THEN m ELSE t.child["left"][m]],
           n, Iterations)

\* Mutant of rb_min: one step to the left is not taken.
rb_min_Root(t, n) == n

rb_min(t, n) == IF n = NIL THEN NIL ELSE Leftmost(t, n)

\* v takes u's place; NIL gets a parent too, which rb_remove_fixup climbs by.
rb_transplant(t, u, v) ==
  [Relink(t, t.parent[u], u, v) EXCEPT !.parent[v] = t.parent[u]]

\* The child x of p on side s is one black node short of its sibling w, which is
\* black: recolour w and go up, or rotate.
BlackSibling(t, x, p, s) ==
  LET o == Other(s)
      w == t.child[o][p]
      near == t.child[s][w]
      far == t.child[o][w]
      turned == rb_rotate([t EXCEPT !.colour = [t.colour EXCEPT ![w] = t.colour[p], ![p] = BLACK,
                                                     ![far] = BLACK]], p, s)
  IN  CASE t.colour[near] = BLACK /\ t.colour[far] = BLACK ->
             [tree |-> [t EXCEPT !.colour = [t.colour EXCEPT ![w] = RED]], at |-> p]
        [] t.colour[near] = RED /\ t.colour[far] = BLACK ->
             [tree |-> rb_rotate([t EXCEPT !.colour = [t.colour EXCEPT ![near] = BLACK, ![w] = RED]], w, o),
              at |-> x]
        [] OTHER -> [tree |-> turned, at |-> turned.root]

\* x is one black node short: a red sibling is rotated above p first.
RemoveFixup(l) ==
  LET t == l.tree
      x == l.at
      p == t.parent[x]
      s == SideOf(t, p, x)
      w == t.child[Other(s)][p]
  IN  CASE x = t.root \/ t.colour[x] = RED -> l
        [] x # t.root /\ t.colour[x] = BLACK /\ t.colour[w] = RED ->
             BlackSibling(rb_rotate([t EXCEPT !.colour = [t.colour EXCEPT ![w] = BLACK, ![p] = RED]], p, s),
                          x, p, s)
        [] OTHER -> BlackSibling(t, x, p, s)

rb_remove_fixup(t, x) ==
  LET end == Iterated([l \in Loop |-> RemoveFixup(l)], [tree |-> t, at |-> x], Iterations)
  IN  [end.tree EXCEPT !.colour[end.at] = BLACK]

\* Mutant of Spliced: the successor keeps its own colour.
Spliced_KeepsColour(t, z) ==
  LET y == rb_min(t, t.child["right"][z])
      x == t.child["right"][y]
      out == IF t.parent[y] = z THEN [t EXCEPT !.parent[x] = y]
             ELSE [rb_transplant(t, y, x) EXCEPT
                     !.child["right"][y] = t.child["right"][z],
                     !.parent[t.child["right"][z]] = y]
  IN  [rb_transplant(out, z, y) EXCEPT !.child["left"][y] = out.child["left"][z],
                                       !.parent[out.child["left"][z]] = y]

\* z, which has two children, is replaced by its successor y.
Spliced(t, z) ==
  LET y == rb_min(t, t.child["right"][z])
      x == t.child["right"][y]
      out == IF t.parent[y] = z THEN [t EXCEPT !.parent[x] = y]
             ELSE [rb_transplant(t, y, x) EXCEPT
                     !.child["right"][y] = t.child["right"][z],
                     !.parent[t.child["right"][z]] = y]
  IN  [rb_transplant(out, z, y) EXCEPT !.child["left"][y] = out.child["left"][z],
                                       !.parent[out.child["left"][z]] = y,
                                       !.colour[y] = out.colour[z]]

\* A node that has left the tree; see Tree.
Unlinked(t, z) == [t EXCEPT !.colour[z] = BLACK, !.parent[z] = NIL,
                            !.child = [s \in Side |-> [t.child[s] EXCEPT ![z] = NIL]]]

rb_remove(t, z) ==
  LET l == t.child["left"][z]
      r == t.child["right"][z]
      y == IF l = NIL \/ r = NIL THEN z ELSE rb_min(t, r)   \* the node that moves
      x == IF l = NIL THEN r ELSE IF r = NIL THEN l ELSE t.child["right"][y]
      out == IF l = NIL \/ r = NIL THEN rb_transplant(t, z, x) ELSE Spliced(t, z)
  IN  Unlinked(IF t.colour[y] = BLACK THEN rb_remove_fixup(out, x) ELSE out, z)

-----------------------------------------------------------------------------
(* The tree on its own: any priority enters and leaves at any time.        *)

\* The nodes of the subtree at n.
Below(t, n) ==
  LET level == [b \in [Node -> SUBSET Node] |->
                  [m \in Node |-> IF m = NIL THEN {}
                                  ELSE {m} \cup UNION {b[t.child[s][m]] : s \in Side}]]
  IN  Iterated(level, [m \in Node |-> {}], Iterations)[n]

Members(t) == Below(t, t.root)

Init == tree = EmptyTree

Insert == \E p \in Prio \ Members(tree) : tree' = rb_insert(tree, p)
Remove == \E p \in Members(tree) : tree' = rb_remove(tree, p)

Spec == Init /\ [][Insert \/ Remove]_tree

-----------------------------------------------------------------------------
(* What makes the tree correct.                                            *)

TreeTypeOK == tree \in Tree

\* Whatever is inserted and removed in whatever order: the tree is a search tree
\* with consistent parent pointers, the root is black and so is the shared nil node,
\* a red node has black children.
Ordered(t) ==
  \A n \in Members(t) : \A s \in Side :
     LET c == t.child[s][n]
     IN  /\ \A m \in Below(t, c) : IF s = "left" THEN m < n ELSE m > n
         /\ c # NIL => t.parent[c] = n
         /\ t.colour[n] = RED => t.colour[c] = BLACK
SearchTree == /\ Ordered(tree)
              /\ tree.colour[NIL] = BLACK /\ tree.colour[tree.root] = BLACK
              /\ tree.root # NIL => tree.parent[tree.root] = NIL

\* The numbers of black nodes on the ways from n down to the nil node.
BlackHeights(t, n) ==
  LET level == [b \in [Node -> SUBSET Nat] |->
                  [m \in Node |-> IF m = NIL THEN {0}
                                  ELSE {h + t.colour[m] : h \in UNION {b[t.child[s][m]] : s \in Side}}]]
  IN  Iterated(level, [m \in Node |-> {}], Iterations)[n]

\* Every way down passes the same number of black nodes, so none is more than twice
\* as long as another: finding the next task takes a bounded number of steps.
Balanced == Cardinality(BlackHeights(tree, tree.root)) = 1

\* A step adds or removes one priority and loses no other, although a removal may
\* move its successor and rotations re-link nodes up to the root; and rb_min finds
\* the most urgent priority of what remains.
MembersKept ==
  [][/\ Cardinality(SymDiff(Members(tree), Members(tree)')) = 1
     /\ Members(tree)' # {} => rb_min(tree, tree.root)' = Min(Members(tree)')]_tree
=============================================================================
