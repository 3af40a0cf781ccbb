---------------------------- MODULE KTaskProofs ----------------------------
(***************************************************************************)
(* Proofs about the task manager.  The argument has three layers: lemmas   *)
(* about one FIFO list (ListOf), lemmas about the list-and-tree queue as a *)
(* whole (Queues), and the effect of the scheduler on queue and states     *)
(* (Dispatch).  Each system call prepares a queue and a state function for *)
(* which Dispatch applies.                                                 *)
(***************************************************************************)
EXTENDS KTask, TLAPS, FiniteSetTheorems, SequenceTheorems, WellFoundedInduction

\* The list q holds exactly the tasks of T, each once.
ListOf(q, T) ==
  /\ q \in Seq(TaskId)
  /\ \A i \in 1 .. Len(q) : q[i] \in T
  /\ \A t \in T : \E i \in 1 .. Len(q) : q[i] = t
  /\ \A i, j \in 1 .. Len(q) : q[i] = q[j] => i = j

\* The tasks of S at priority p.
At(S, pr, p) == {t \in S : pr[t] = p}

\* The ready queue rq holds exactly the tasks of S, each in the list of its
\* priority, and its tree is in step with its lists.
Queues(rq, pr, S) ==
  /\ rq \in [prio_list : [Prio -> Seq(TaskId)], tree : SUBSET Prio]
  /\ \A p \in Prio : ListOf(rq.prio_list[p], At(S, pr, p))
  /\ rq.tree = {p \in Prio : rq.prio_list[p] # <<>>}

-----------------------------------------------------------------------------

LEMMA EmptyList ==
  ASSUME NEW q, NEW T, ListOf(q, T)
  PROVE  q = <<>> <=> T = {}
<1>1. CASE q = <<>>
  BY <1>1 DEF ListOf
<1>2. CASE q # <<>>
  <2>1. Len(q) \in Nat \ {0}
    BY <1>2, EmptySeq DEF ListOf
  <2>2. q[1] \in T
    BY <2>1 DEF ListOf
  <2> QED BY <1>2, <2>2
<1> QED BY <1>1, <1>2

LEMMA AppendList ==
  ASSUME NEW q, NEW T, NEW t \in TaskId, ListOf(q, T), t \notin T
  PROVE  ListOf(Append(q, t), T \cup {t})
<1>1. q \in Seq(TaskId) /\ Len(q) \in Nat
  BY DEF ListOf
<1>2. /\ Append(q, t) \in Seq(TaskId)
      /\ Len(Append(q, t)) = Len(q) + 1
      /\ \A i \in 1 .. Len(q) + 1 :
            Append(q, t)[i] = IF i = Len(q) + 1 THEN t ELSE q[i]
  BY <1>1
<1>3. \A i \in 1 .. Len(q) + 1 : Append(q, t)[i] \in T \cup {t}
  BY <1>1, <1>2 DEF ListOf
<1>4. \A u \in T \cup {t} : \E i \in 1 .. Len(q) + 1 : Append(q, t)[i] = u
  BY <1>1, <1>2 DEF ListOf
<1>5. \A i, j \in 1 .. Len(q) + 1 : Append(q, t)[i] = Append(q, t)[j] => i = j
  BY <1>1, <1>2 DEF ListOf
<1> QED BY <1>2, <1>3, <1>4, <1>5 DEF ListOf

LEMMA TailList ==
  ASSUME NEW q, NEW T, ListOf(q, T), q # <<>>
  PROVE  Head(q) \in T /\ ListOf(Tail(q), T \ {Head(q)})
<1>1. /\ q \in Seq(TaskId) /\ Len(q) \in Nat \ {0}
      /\ Head(q) = q[1]
  BY EmptySeq DEF ListOf
<1>2. /\ Tail(q) \in Seq(TaskId)
      /\ Len(Tail(q)) = Len(q) - 1
      /\ \A i \in 1 .. Len(q) - 1 : Tail(q)[i] = q[i + 1]
  BY <1>1, HeadTailProperties
<1>3. Head(q) \in T
  BY <1>1 DEF ListOf
<1>4. \A i \in 1 .. Len(q) - 1 : Tail(q)[i] \in T \ {Head(q)}
  BY <1>1, <1>2 DEF ListOf
<1>5. ASSUME NEW u \in T \ {Head(q)}
      PROVE  \E i \in 1 .. Len(q) - 1 : Tail(q)[i] = u
  <2>1. PICK k \in 1 .. Len(q) : q[k] = u
    BY DEF ListOf
  <2>2. k - 1 \in 1 .. Len(q) - 1 /\ Tail(q)[k - 1] = u
    BY <1>1, <1>2, <2>1
  <2> QED BY <2>2
<1>6. \A i, j \in 1 .. Len(q) - 1 : Tail(q)[i] = Tail(q)[j] => i = j
  BY <1>1, <1>2 DEF ListOf
<1> QED BY <1>2, <1>3, <1>4, <1>5, <1>6 DEF ListOf

LEMMA RemoveAtProperties ==
  ASSUME NEW S, NEW q \in Seq(S), NEW k \in 1 .. Len(q)
  PROVE  /\ RemoveAt(q, k) \in Seq(S)
         /\ Len(RemoveAt(q, k)) = Len(q) - 1
         /\ \A i \in 1 .. Len(q) - 1 :
               RemoveAt(q, k)[i] = IF i < k THEN q[i] ELSE q[i + 1]
<1> DEFINE a == SubSeq(q, 1, k - 1)
           z == SubSeq(q, k + 1, Len(q))
<1>1. Len(q) \in Nat /\ k \in Nat /\ 1 <= k /\ k <= Len(q)
  OBVIOUS
<1>2. \A i \in 1 .. Len(q) : q[i] \in S
  BY ElementOfSeq
<1>3. /\ a \in Seq(S) /\ Len(a) = k - 1
      /\ \A i \in 1 .. k - 1 : a[i] = q[i]
  <2>1. \A i \in 1 .. k - 1 : q[i] \in S
    BY <1>1, <1>2
  <2> QED BY <1>1, <2>1, SubSeqProperties
<1>4. /\ z \in Seq(S) /\ Len(z) = Len(q) - k
      /\ \A i \in 1 .. Len(q) - k : z[i] = q[k + i]
  <2>1. \A i \in k + 1 .. Len(q) : q[i] \in S
    BY <1>1, <1>2
  <2>2. /\ z \in Seq(S)
        /\ Len(z) = IF k + 1 <= Len(q) THEN Len(q) - (k + 1) + 1 ELSE 0
        /\ \A i \in 1 .. Len(q) - (k + 1) + 1 : z[i] = q[(k + 1) + i - 1]
    BY <1>1, <2>1, SubSeqProperties
  <2> HIDE DEF z
  <2>3. /\ Len(q) - (k + 1) + 1 = Len(q) - k
        /\ ~(k + 1 <= Len(q)) => Len(q) - k = 0
    BY <1>1
  <2>4. \A i \in 1 .. Len(q) - k : (k + 1) + i - 1 = k + i
    BY <1>1
  <2> QED BY <2>2, <2>3, <2>4
<1>5. RemoveAt(q, k) = a \o z
  BY DEF RemoveAt
<1> HIDE DEF a, z
<1>6. /\ RemoveAt(q, k) \in Seq(S)
      /\ Len(RemoveAt(q, k)) = Len(a) + Len(z)
      /\ \A i \in 1 .. Len(a) + Len(z) :
            RemoveAt(q, k)[i] = IF i <= Len(a) THEN a[i] ELSE z[i - Len(a)]
  <2>1. /\ a \o z \in Seq(S)
        /\ Len(a \o z) = Len(a) + Len(z)
        /\ \A i \in 1 .. Len(a) + Len(z) :
              (a \o z)[i] = IF i <= Len(a) THEN a[i] ELSE z[i - Len(a)]
    <3>1. a \in Seq(S) /\ z \in Seq(S)
      BY <1>3, <1>4
    <3> QED BY ONLY <3>1, ConcatProperties
  <2> QED BY <1>5, <2>1, Zenon
<1>7. Len(a) + Len(z) = Len(q) - 1
  BY <1>1, <1>3, <1>4
<1>8. ASSUME NEW i \in 1 .. Len(q) - 1
      PROVE  RemoveAt(q, k)[i] = IF i < k THEN q[i] ELSE q[i + 1]
  <2>1. CASE i < k
    <3>1. i \in 1 .. k - 1 /\ i <= Len(a)
      BY <1>1, <1>3, <2>1
    <3> QED BY <1>3, <1>6, <1>7, <2>1, <3>1
  <2>2. CASE ~(i < k)
    <3>1. /\ i - (k - 1) \in 1 .. Len(q) - k
          /\ k + (i - (k - 1)) = i + 1
          /\ ~(i <= k - 1)
      BY <1>1, <2>2
    <3>2. RemoveAt(q, k)[i] = z[i - (k - 1)]
      BY <1>3, <1>6, <1>7, <3>1
    <3> QED BY <1>4, <2>2, <3>1, <3>2
  <2> QED BY <2>1, <2>2
<1> QED BY <1>6, <1>7, <1>8

LEMMA PositionProperties ==
  ASSUME NEW q, NEW T, ListOf(q, T), NEW t \in T
  PROVE  Position(q, t) \in 1 .. Len(q) /\ q[Position(q, t)] = t
<1>1. q \in Seq(TaskId) /\ Len(q) \in Nat /\ DOMAIN q = 1 .. Len(q)
  BY DEF ListOf
<1>2. PICK m \in 1 .. Len(q) : q[m] = t
  BY DEF ListOf
<1>3. \A j \in 1 .. m - 1 : q[j] # t
  BY <1>1, <1>2 DEF ListOf
<1> QED BY <1>1, <1>2, <1>3 DEF Position

LEMMA RemoveList ==
  ASSUME NEW q, NEW T, ListOf(q, T), NEW t \in T
  PROVE  /\ t \in ToSet(q)
         /\ ListOf(RemoveAt(q, Position(q, t)), T \ {t})
<1>1. PICK k \in 1 .. Len(q) : k = Position(q, t) /\ q[k] = t
  BY PositionProperties
<1>2. PICK r : r = RemoveAt(q, k)
  OBVIOUS
<1>3. q \in Seq(TaskId) /\ Len(q) \in Nat /\ k \in Nat /\ k <= Len(q)
  BY DEF ListOf
<1>4. /\ r \in Seq(TaskId)
      /\ Len(r) = Len(q) - 1
      /\ \A i \in 1 .. Len(q) - 1 : r[i] = IF i < k THEN q[i] ELSE q[i + 1]
  BY <1>2, <1>3, RemoveAtProperties
<1>5. t \in ToSet(q)
  BY <1>1, <1>3 DEF ToSet
<1>6. \A i \in 1 .. Len(q) - 1 : r[i] \in T \ {t}
  BY <1>1, <1>3, <1>4 DEF ListOf
<1>7. ASSUME NEW u \in T \ {t}
      PROVE  \E i \in 1 .. Len(q) - 1 : r[i] = u
  <2>1. PICK j \in 1 .. Len(q) : q[j] = u
    BY DEF ListOf
  <2>2. CASE j < k
    BY <1>1, <1>3, <1>4, <2>1, <2>2
  <2>3. CASE j > k
    <3>1. j - 1 \in 1 .. Len(q) - 1 /\ r[j - 1] = u
      BY <1>1, <1>3, <1>4, <2>1, <2>3
    <3> QED BY <3>1
  <2> QED BY <1>1, <1>3, <2>1, <2>2, <2>3
<1>8. ASSUME NEW i \in 1 .. Len(q) - 1, NEW j \in 1 .. Len(q) - 1, r[i] = r[j]
      PROVE  i = j
  <2> DEFINE at(n) == IF n < k THEN n ELSE n + 1
  <2>1. at(i) \in 1 .. Len(q) /\ at(j) \in 1 .. Len(q)
    BY <1>3
  <2>2. q[at(i)] = q[at(j)]
    BY <1>4, <1>8
  <2>3. at(i) = at(j)
    BY <2>1, <2>2 DEF ListOf
  <2> QED BY <1>3, <2>3
<1>9. ListOf(r, T \ {t})
  BY <1>4, <1>6, <1>7, <1>8 DEF ListOf
<1> QED BY <1>1, <1>2, <1>5, <1>9

-----------------------------------------------------------------------------
(* The queue as a whole.                                                   *)

\* A non-empty set of naturals has a least element.
LEMMA LeastElement ==
  ASSUME NEW T \in SUBSET Nat, T # {}
  PROVE  \E m \in T : \A n \in T : m <= n
<1>1. PICK m \in T : \A n \in T : <<n, m>> \notin OpToRel(<, Nat)
  BY WFMin, NatLessThanWellFounded
<1>2. \A n \in T : ~(n < m)
  BY <1>1 DEF OpToRel
<1> QED BY <1>2

\* The most urgent priority of a tree that is not empty.
LEMMA RbMin ==
  ASSUME NEW tree \in SUBSET Prio, tree # {}
  PROVE  rb_min(tree) \in tree /\ \A q \in tree : rb_min(tree) <= q
<1>1. tree \subseteq Nat
  BY TaskAssumption DEF Prio
<1> QED BY <1>1, LeastElement DEF rb_min

LEMMA InsertQueues ==
  ASSUME NEW rq, NEW pr \in [TaskId -> Prio], NEW S, Queues(rq, pr, S),
         NEW t \in TaskId, t \notin S
  PROVE  Queues(pl_insert(rq, t, pr[t]), pr, S \cup {t})
<1> DEFINE r == pl_insert(rq, t, pr[t])
<1>1. pr[t] \in Prio
  OBVIOUS
<1>2. /\ r.prio_list = [rq.prio_list EXCEPT ![pr[t]] = Append(@, t)]
      /\ r.tree = IF rq.prio_list[pr[t]] = <<>> THEN rq.tree \cup {pr[t]} ELSE rq.tree
      /\ r = [prio_list |-> r.prio_list, tree |-> r.tree]
  BY DEF pl_insert
<1>3. ASSUME NEW p \in Prio
      PROVE  ListOf(r.prio_list[p], At(S \cup {t}, pr, p))
  <2>1. CASE p = pr[t]
    <3>1. r.prio_list[p] = Append(rq.prio_list[p], t)
      BY <1>2, <2>1 DEF Queues
    <3>2. At(S \cup {t}, pr, p) = At(S, pr, p) \cup {t} /\ t \notin At(S, pr, p)
      BY <2>1 DEF At
    <3>3. ListOf(Append(rq.prio_list[p], t), At(S, pr, p) \cup {t})
      BY <3>2, AppendList DEF Queues
    <3> QED BY <3>1, <3>2, <3>3
  <2>2. CASE p # pr[t]
    <3>1. r.prio_list[p] = rq.prio_list[p]
      BY <1>2, <2>2 DEF Queues
    <3>2. At(S \cup {t}, pr, p) = At(S, pr, p)
      BY <2>2 DEF At
    <3> QED BY <3>1, <3>2 DEF Queues
  <2> QED BY <2>1, <2>2
<1>4. r.prio_list \in [Prio -> Seq(TaskId)]
  BY <1>2, <1>3 DEF Queues, ListOf
<1>5. \A p \in Prio : p \in r.tree <=> r.prio_list[p] # <<>>
  <2> SUFFICES ASSUME NEW p \in Prio PROVE p \in r.tree <=> r.prio_list[p] # <<>>
    OBVIOUS
  <2>1. CASE p = pr[t]
    <3>1. r.prio_list[p] # <<>>
      BY <1>3, <2>1, EmptyList DEF At
    <3>2. p \in r.tree
      BY <1>2, <2>1 DEF Queues
    <3> QED BY <3>1, <3>2
  <2>2. CASE p # pr[t]
    BY <1>2, <2>2 DEF Queues
  <2> QED BY <2>1, <2>2
<1>6. r.tree \subseteq Prio
  BY <1>1, <1>2 DEF Queues
<1> HIDE DEF r
<1>7. Queues(r, pr, S \cup {t})
  BY <1>2, <1>3, <1>4, <1>5, <1>6 DEF Queues
<1> QED BY <1>7 DEF r

LEMMA PopQueues ==
  ASSUME NEW rq, NEW pr \in [TaskId -> Prio], NEW S \in SUBSET TaskId,
         Queues(rq, pr, S), NEW p \in Prio, rq.prio_list[p] # <<>>
  PROVE  /\ Head(rq.prio_list[p]) \in S
         /\ pr[Head(rq.prio_list[p])] = p
         /\ Queues(pl_pop_min(rq, p), pr, S \ {Head(rq.prio_list[p])})
<1> DEFINE r == pl_pop_min(rq, p)
           h == Head(rq.prio_list[p])
<1>1. h \in At(S, pr, p) /\ ListOf(Tail(rq.prio_list[p]), At(S, pr, p) \ {h})
  BY TailList DEF Queues
<1>2. h \in S /\ pr[h] = p
  BY <1>1 DEF At
<1>3. /\ r.prio_list = [rq.prio_list EXCEPT ![p] = Tail(@)]
      /\ r.tree = IF Tail(rq.prio_list[p]) = <<>> THEN rq.tree \ {p} ELSE rq.tree
      /\ r = [prio_list |-> r.prio_list, tree |-> r.tree]
  BY DEF pl_pop_min
<1> HIDE DEF h
<1>4. ASSUME NEW q \in Prio
      PROVE  ListOf(r.prio_list[q], At(S \ {h}, pr, q))
  <2>1. CASE q = p
    <3>1. r.prio_list[q] = Tail(rq.prio_list[p])
      BY <1>3, <2>1 DEF Queues
    <3>2. At(S \ {h}, pr, q) = At(S, pr, p) \ {h}
      BY <2>1 DEF At
    <3> QED BY <1>1, <3>1, <3>2
  <2>2. CASE q # p
    <3>1. r.prio_list[q] = rq.prio_list[q]
      BY <1>3, <2>2 DEF Queues
    <3>2. At(S \ {h}, pr, q) = At(S, pr, q)
      BY <1>2, <2>2 DEF At
    <3> QED BY <3>1, <3>2 DEF Queues
  <2> QED BY <2>1, <2>2
<1>5. r.prio_list \in [Prio -> Seq(TaskId)]
  BY <1>3, <1>4 DEF Queues, ListOf
<1>6. r.tree = {q \in Prio : r.prio_list[q] # <<>>}
  BY <1>3 DEF Queues
<1> HIDE DEF r
<1>7. Queues(r, pr, S \ {h})
  BY <1>3, <1>4, <1>5, <1>6 DEF Queues
<1> QED BY <1>2, <1>7 DEF r, h

LEMMA RemoveQueues ==
  ASSUME NEW rq, NEW pr \in [TaskId -> Prio], NEW S \in SUBSET TaskId,
         Queues(rq, pr, S), NEW t \in S
  PROVE  Queues(pl_remove(rq, t, pr[t]), pr, S \ {t})
<1> DEFINE p == pr[t]
           r == pl_remove(rq, t, p)
<1>1. p \in Prio /\ t \in At(S, pr, p) /\ rq.prio_list[p] # <<>>
  <2>1. p \in Prio /\ t \in At(S, pr, p)
    BY DEF At
  <2>2. ListOf(rq.prio_list[p], At(S, pr, p))
    BY <2>1 DEF Queues
  <2> QED BY <2>1, <2>2, EmptyList
<1>2. CASE Head(rq.prio_list[p]) = t
  BY <1>1, <1>2, PopQueues DEF pl_remove
<1>3. CASE Head(rq.prio_list[p]) # t
  <2>1. /\ t \in ToSet(rq.prio_list[p])
        /\ ListOf(RemoveAt(rq.prio_list[p], Position(rq.prio_list[p], t)), At(S, pr, p) \ {t})
    BY <1>1, RemoveList DEF Queues
  <2>2. /\ rq = [prio_list |-> rq.prio_list, tree |-> rq.tree]
        /\ rq.prio_list \in [Prio -> Seq(TaskId)]
    BY DEF Queues
  <2>3. r = [rq EXCEPT !.prio_list[p] =
               RemoveAt(rq.prio_list[p], Position(rq.prio_list[p], t))]
    BY <1>1, <1>3, <2>1, <2>2 DEF pl_remove
  <2>4. /\ r.prio_list = [rq.prio_list EXCEPT ![p] =
               RemoveAt(rq.prio_list[p], Position(rq.prio_list[p], t))]
        /\ r.tree = rq.tree
        /\ r = [prio_list |-> r.prio_list, tree |-> r.tree]
    BY <2>2, <2>3
  <2> HIDE DEF r
  <2>5. ASSUME NEW q \in Prio
        PROVE  ListOf(r.prio_list[q], At(S \ {t}, pr, q))
    <3>1. CASE q = p
      <4>1. r.prio_list[q] = RemoveAt(rq.prio_list[p], Position(rq.prio_list[p], t))
        BY <2>2, <2>4, <3>1
      <4>2. At(S \ {t}, pr, q) = At(S, pr, p) \ {t}
        BY <3>1 DEF At
      <4> QED BY <2>1, <4>1, <4>2
    <3>2. CASE q # p
      <4>1. r.prio_list[q] = rq.prio_list[q]
        BY <2>2, <2>4, <3>2
      <4>2. At(S \ {t}, pr, q) = At(S, pr, q)
        BY <3>2 DEF At
      <4> QED BY <4>1, <4>2 DEF Queues
    <3> QED BY <3>1, <3>2
  <2>6. r.prio_list \in [Prio -> Seq(TaskId)]
    BY <2>2, <2>4, <2>5 DEF ListOf
  <2>7. r.prio_list[p] # <<>>      \* the head is still there
    <3>1. Head(rq.prio_list[p]) \in At(S, pr, p) \ {t}
      BY <1>1, <1>3, TailList DEF Queues
    <3>2. At(S \ {t}, pr, p) # {}
      BY <3>1 DEF At
    <3> QED BY <1>1, <2>5, <3>2, EmptyList
  <2>8. r.tree = {q \in Prio : r.prio_list[q] # <<>>}
    BY <1>1, <2>2, <2>4, <2>7 DEF Queues
  <2>9. Queues(r, pr, S \ {t})
    BY <2>4, <2>5, <2>6, <2>8 DEF Queues
  <2> QED BY <2>9 DEF r
<1> QED BY <1>2, <1>3

\* The priority of a task that is not queued does not matter to the queue.
LEMMA ReprioQueues ==
  ASSUME NEW rq, NEW pr \in [TaskId -> Prio], NEW S, Queues(rq, pr, S),
         NEW t \in TaskId, t \notin S, NEW p \in Prio
  PROVE  Queues(rq, [pr EXCEPT ![t] = p], S)
<1>1. \A q : At(S, [pr EXCEPT ![t] = p], q) = At(S, pr, q)
  BY DEF At
<1> QED BY <1>1 DEF Queues

\* The invariants of the model say that its queue holds the READY tasks.
ReadySet(st) == {t \in TaskId : st[t] = READY}

LEMMA QueuesReady ==
  /\ prio \in [TaskId -> Prio]
  /\ ready \in [prio_list : [Prio -> Seq(TaskId)], tree : SUBSET Prio]
  => (ReadyQueueOK <=> Queues(ready, prio, ReadySet(state)))
<1> SUFFICES ASSUME prio \in [TaskId -> Prio],
                    ready \in [prio_list : [Prio -> Seq(TaskId)], tree : SUBSET Prio]
             PROVE  ReadyQueueOK <=> Queues(ready, prio, ReadySet(state))
  OBVIOUS
<1>1. \A p \in Prio : /\ ready.prio_list[p] \in Seq(TaskId)
                      /\ DOMAIN ready.prio_list[p] = 1 .. Len(ready.prio_list[p])
                      /\ \A i \in 1 .. Len(ready.prio_list[p]) : ready.prio_list[p][i] \in TaskId
  BY LenProperties, ElementOfSeq
<1>2. ASSUME ReadyQueueOK
      PROVE  Queues(ready, prio, ReadySet(state))
  <2>1. ASSUME NEW p \in Prio
        PROVE  ListOf(ready.prio_list[p], At(ReadySet(state), prio, p))
    <3>1. /\ \A i \in 1 .. Len(ready.prio_list[p]) :
               /\ state[ready.prio_list[p][i]] = READY
               /\ prio[ready.prio_list[p][i]] = p
               /\ \A j \in 1 .. Len(ready.prio_list[p]) :
                     ready.prio_list[p][j] = ready.prio_list[p][i] => j = i
      BY <1>1, <1>2 DEF ReadyQueueOK, QueuedIsReady
    <3>2. \A t \in At(ReadySet(state), prio, p) :
            \E i \in 1 .. Len(ready.prio_list[p]) : ready.prio_list[p][i] = t
      BY <1>1, <1>2 DEF ReadyQueueOK, ReadyIsQueued, At, ReadySet
    <3> QED BY <1>1, <3>1, <3>2 DEF ListOf, At, ReadySet
  <2> QED BY <1>2, <2>1 DEF Queues, ReadyQueueOK, TreeMatchesLists
<1>3. ASSUME Queues(ready, prio, ReadySet(state))
      PROVE  ReadyQueueOK
  <2>1. \A p \in Prio : ListOf(ready.prio_list[p], At(ReadySet(state), prio, p))
    BY <1>3 DEF Queues
  <2>2. QueuedIsReady
    <3>1. SUFFICES ASSUME NEW p \in Prio, NEW i \in DOMAIN ready.prio_list[p]
                   PROVE  /\ state[ready.prio_list[p][i]] = READY
                          /\ prio[ready.prio_list[p][i]] = p
                          /\ \A j \in DOMAIN ready.prio_list[p] :
                                ready.prio_list[p][j] = ready.prio_list[p][i] => j = i
      BY DEF QueuedIsReady
    <3>2. PICK q : q = ready.prio_list[p]
      OBVIOUS
    <3>3. ListOf(q, At(ReadySet(state), prio, p)) /\ DOMAIN q = 1 .. Len(q)
      BY <1>1, <2>1, <3>2
    <3>4. i \in 1 .. Len(q)
      BY <3>2, <3>3
    <3>5. q[i] \in At(ReadySet(state), prio, p)
      BY <3>3, <3>4 DEF ListOf
    <3>6. \A j \in DOMAIN q : q[j] = q[i] => j = i
      BY <3>3, <3>4 DEF ListOf
    <3> QED BY <3>2, <3>5, <3>6 DEF At, ReadySet
  <2>3. ReadyIsQueued
    BY <1>1, <2>1 DEF ReadyIsQueued, ListOf, At, ReadySet
  <2> QED BY <1>3, <2>2, <2>3 DEF Queues, ReadyQueueOK, TreeMatchesLists
<1> QED BY <1>2, <1>3

-----------------------------------------------------------------------------
(* The scheduler.                                                          *)

States == {DORMANT, READY, RUNNING, BLK_MSG}

\* What a caller must have prepared before it calls the scheduler: the queue
\* holds the READY tasks, nobody but the caller is RUNNING, and if the caller
\* does not want the CPU any more there is somebody to give it to.
Prepared(rq, st, pr) ==
  /\ st \in [TaskId -> States]
  /\ pr \in [TaskId -> Prio]
  /\ gp_current_task \in TaskId
  /\ Queues(rq, pr, ReadySet(st))
  /\ st[gp_current_task] # READY
  /\ \A t \in TaskId : st[t] = RUNNING => t = gp_current_task
  /\ Runnable(st, gp_current_task) \/ ReadySet(st) # {}

\* What the scheduler leaves behind.
Dispatched(st, pr) ==
  /\ gp_current_task' \in TaskId
  /\ state' \in [TaskId -> States]
  /\ Queues(ready', pr, ReadySet(state'))
  /\ \A t \in TaskId : state'[t] = RUNNING <=> t = gp_current_task'
  /\ \A t \in TaskId : st[t] \in {DORMANT, BLK_MSG} => state'[t] = st[t]
  /\ \A t \in TaskId : st[t] \in {READY, RUNNING} => state'[t] \in {READY, RUNNING}
  /\ \A t \in TaskId : state'[t] = READY => pr[gp_current_task'] <= pr[t]

\* Passing the CPU on ends and blocks nobody, and wakes nobody.
Kept(st) ==
  \A t \in TaskId : /\ state'[t] = DORMANT <=> st[t] = DORMANT
                    /\ state'[t] = BLK_MSG <=> st[t] = BLK_MSG

\* The tree's minimum bounds the priority of every queued task from below.
LEMMA MinBound ==
  ASSUME NEW rq, NEW pr \in [TaskId -> Prio], NEW S \in SUBSET TaskId,
         Queues(rq, pr, S), NEW t \in S
  PROVE  /\ rq.tree # {}
         /\ rb_min(rq.tree) \in rq.tree
         /\ rb_min(rq.tree) <= pr[t]
<1>1. pr[t] \in Prio /\ t \in At(S, pr, pr[t])
  BY DEF At
<1>2. ListOf(rq.prio_list[pr[t]], At(S, pr, pr[t]))
  BY <1>1 DEF Queues
<1>3. pr[t] \in rq.tree
  BY <1>1, <1>2, EmptyList DEF Queues
<1>4. rq.tree \in SUBSET Prio
  BY DEF Queues
<1> QED BY <1>3, <1>4, RbMin

LEMMA StayDispatched ==
  ASSUME NEW rq, NEW st, NEW pr, Prepared(rq, st, pr),
         Runnable(st, gp_current_task),
         rq.tree = {} \/ pr[gp_current_task] <= rb_min(rq.tree),
         ready' = rq, state' = st, gp_current_task' = gp_current_task
  PROVE  Dispatched(st, pr)
<1> DEFINE cur == gp_current_task
<1>1. st[cur] = RUNNING
  BY DEF Prepared, Runnable, States
<1>2. ASSUME NEW t \in ReadySet(st)
      PROVE  pr[cur] <= pr[t]
  <2>1. /\ rq.tree # {}
        /\ rb_min(rq.tree) \in rq.tree
        /\ rb_min(rq.tree) <= pr[t]
    BY MinBound DEF Prepared, ReadySet
  <2>2. rb_min(rq.tree) \in Nat /\ pr[cur] \in Nat /\ pr[t] \in Nat
    BY <2>1, TaskAssumption DEF Prepared, Queues, Prio, ReadySet
  <2> QED BY <2>1, <2>2
<1> QED BY <1>1, <1>2, StateAssumption DEF Prepared, Dispatched, ReadySet

LEMMA RunNewDispatches ==
  ASSUME NEW rq, NEW st, NEW pr, Prepared(rq, st, pr), k_tsk_run_new(rq, st, pr)
  PROVE  Dispatched(st, pr)
<1> DEFINE cur == gp_current_task
           min == rb_min(rq.tree)
           S == ReadySet(st)
           all == IF Runnable(st, cur) THEN pl_insert(rq, cur, pr[cur]) ELSE rq
           Q == IF Runnable(st, cur) THEN S \cup {cur} ELSE S
           next == Head(all.prio_list[min])
<1> USE DEF Prepared
<1>1. CASE rq.tree = {} \/ (pr[cur] < min /\ Runnable(st, cur))
  <2>1. Runnable(st, cur)
    <3>1. S # {} => rq.tree # {}
      BY MinBound DEF ReadySet
    <3> QED BY <1>1, <3>1
  <2>2. rq.tree = {} \/ pr[cur] <= min
    <3>1. CASE rq.tree # {}
      <4>1. min \in rq.tree
        BY <3>1, RbMin DEF Queues
      <4>2. min \in Nat /\ pr[cur] \in Nat
        BY <4>1, TaskAssumption DEF Queues, Prio
      <4> QED BY <1>1, <3>1, <4>2
    <3> QED BY <3>1
  <2>3. ready' = rq /\ state' = st /\ gp_current_task' = cur
    BY <1>1 DEF k_tsk_run_new, scheduler, SwitchStates
  <2> QED BY <2>1, <2>2, <2>3, StayDispatched
<1>2. CASE ~(rq.tree = {} \/ (pr[cur] < min /\ Runnable(st, cur)))
  <2>1. /\ ready' = pl_pop_min(all, min)
        /\ gp_current_task' = next
        /\ state' = SwitchStates(st, next)
    BY <1>2 DEF k_tsk_run_new, scheduler
  <2>2. min \in rq.tree /\ min \in Prio /\ min \in Nat
    <3>1. min \in rq.tree
      BY <1>2, RbMin DEF Queues
    <3> QED BY <3>1, TaskAssumption DEF Queues, Prio
  <2>3. Queues(all, pr, Q) /\ Q \in SUBSET TaskId
    BY InsertQueues DEF ReadySet
  <2>4. all.prio_list[min] # <<>>
    <3>1. rq.prio_list[min] # <<>>
      BY <2>2 DEF Queues
    <3>2. ListOf(rq.prio_list[min], At(S, pr, min)) /\ ListOf(all.prio_list[min], At(Q, pr, min))
      BY <2>2, <2>3 DEF Queues
    <3>3. At(S, pr, min) # {} /\ At(S, pr, min) \subseteq At(Q, pr, min)
      BY <3>1, <3>2, EmptyList DEF At
    <3> QED BY <3>2, <3>3, EmptyList
  <2> HIDE DEF all
  <2>5. next \in Q /\ pr[next] = min /\ Queues(pl_pop_min(all, min), pr, Q \ {next})
    <3>1. pr \in [TaskId -> Prio]
      OBVIOUS
    <3>2. next = Head(all.prio_list[min])
      OBVIOUS
    <3> HIDE DEF Q, min, next
    <3>3. /\ Head(all.prio_list[min]) \in Q
          /\ pr[Head(all.prio_list[min])] = min
          /\ Queues(pl_pop_min(all, min), pr, Q \ {Head(all.prio_list[min])})
      BY ONLY <2>2, <2>3, <2>4, <3>1, PopQueues
    <3> QED BY ONLY <3>2, <3>3
  <2> HIDE DEF next
  <2>6. Runnable(st, cur) => st[cur] = RUNNING
    BY DEF Runnable, States
  <2>7. next \in TaskId /\ (next # cur => st[next] = READY)
    BY <2>5 DEF ReadySet
  <2>8. next = cur => st[cur] = RUNNING
    BY <2>5, <2>6 DEF ReadySet
  <2>9. /\ state' \in [TaskId -> States]
        /\ state'[next] = RUNNING
        /\ \A t \in TaskId \ {next, cur} : state'[t] = st[t]
        /\ next # cur => state'[cur] = IF Runnable(st, cur) THEN READY ELSE st[cur]
    BY <2>1, <2>7, <2>8 DEF SwitchStates, States
  <2>10. ReadySet(state') = Q \ {next}
    BY <2>5, <2>6, <2>7, <2>8, <2>9, StateAssumption DEF ReadySet, Runnable, States
  <2>11. \A t \in TaskId : state'[t] = RUNNING <=> t = next
    BY <2>6, <2>7, <2>9, StateAssumption DEF Runnable
  <2>12. ASSUME NEW t \in Q \ {next}
         PROVE  pr[next] <= pr[t]
    <3>1. CASE t \in S
      BY <2>5, <3>1, MinBound DEF ReadySet
    <3>2. CASE t = cur /\ Runnable(st, cur)
      <4>1. pr[cur] \in Nat
        BY TaskAssumption DEF Prio
      <4> QED BY <1>2, <2>2, <2>5, <3>2, <4>1
    <3> QED BY <3>1, <3>2
  <2>13. \A t \in TaskId : st[t] \in {DORMANT, BLK_MSG} => state'[t] = st[t]
    BY <2>6, <2>7, <2>8, <2>9, StateAssumption DEF Runnable
  <2>14. \A t \in TaskId : st[t] \in {READY, RUNNING} => state'[t] \in {READY, RUNNING}
    BY <2>6, <2>7, <2>8, <2>9, StateAssumption DEF Runnable
  <2>15. \A t \in TaskId : state'[t] = READY => pr[next] <= pr[t]
    BY <2>10, <2>12 DEF ReadySet
  <2> QED BY <2>1, <2>5, <2>7, <2>9, <2>10, <2>11, <2>13, <2>14, <2>15 DEF Dispatched
<1> QED BY <1>1, <1>2

\* The scheduler itself keeps the running task only if it is more urgent than
\* everyone who waits.
LEMMA RunNewGivesWay ==
  ASSUME NEW rq, NEW st, NEW pr, Prepared(rq, st, pr), k_tsk_run_new(rq, st, pr),
         gp_current_task' = gp_current_task, NEW t \in ReadySet(st)
  PROVE  pr[gp_current_task] < pr[t]
<1> DEFINE cur == gp_current_task
           min == rb_min(rq.tree)
           S == ReadySet(st)
           all == IF Runnable(st, cur) THEN pl_insert(rq, cur, pr[cur]) ELSE rq
<1> USE DEF Prepared
<1>1. S \in SUBSET TaskId /\ t \in S /\ cur \in TaskId /\ cur \notin S /\ t \in TaskId
  BY DEF ReadySet
<1>2. rq.tree # {} /\ min \in rq.tree /\ min <= pr[t]
  BY <1>1, MinBound
<1>3. min \in Prio /\ min \in Nat /\ pr[cur] \in Nat /\ pr[t] \in Nat
  BY <1>1, <1>2, TaskAssumption DEF Queues, Prio
<1>4. CASE pr[cur] < min
  BY <1>2, <1>3, <1>4
<1>5. CASE ~(pr[cur] < min)
  <2>1. cur = Head(all.prio_list[min])
    BY <1>2, <1>5 DEF k_tsk_run_new, scheduler
  <2>2. rq.prio_list[min] # <<>> /\ rq.prio_list[min] \in Seq(TaskId)
    BY <1>2, <1>3 DEF Queues
  <2>3. Head(rq.prio_list[min]) \in S
    BY <1>1, <1>3, <2>2, PopQueues
  <2>4. Head(all.prio_list[min]) = Head(rq.prio_list[min])
    <3>1. \/ all.prio_list[min] = rq.prio_list[min]
          \/ all.prio_list[min] = Append(rq.prio_list[min], cur)
      BY <1>3 DEF Queues, pl_insert
    <3>2. Head(Append(rq.prio_list[min], cur)) = Head(rq.prio_list[min])
      BY <1>1, <2>2, EmptySeq
    <3> QED BY <3>1, <3>2
  <2> QED BY <1>1, <2>1, <2>3, <2>4
<1> QED BY <1>4, <1>5

LEMMA WrapperDispatches ==
  ASSUME NEW rq, NEW st, NEW pr, NEW strict, Prepared(rq, st, pr),
         run_new_wrapper(strict, rq, st, pr)
  PROVE  Dispatched(st, pr)
<1>1. CASE k_tsk_run_new(rq, st, pr)
  BY <1>1, RunNewDispatches
<1>2. CASE /\ Runnable(st, gp_current_task)
           /\ rq.tree = {} \/ pr[gp_current_task] <= rb_min(rq.tree)
           /\ ready' = rq /\ state' = st /\ gp_current_task' = gp_current_task
  BY <1>2, StayDispatched
<1> QED BY <1>1, <1>2 DEF run_new_wrapper

-----------------------------------------------------------------------------
(* The inductive invariant.                                                *)

\* While k_tsk_init runs, the null task has the CPU and the slots the rest of
\* the table will use are free.
BootSlotsFree ==
  ~Booted => /\ gp_current_task = TID_NULL
             /\ \A t \in boot_i + 1 .. TID_KCD - 1 : state[t] = DORMANT

\* The CPU is with a task of the most urgent priority there is.  main() reaches
\* its first yield with the booted tasks still waiting, hence the exception.
HighestPriorityRuns ==
  gp_current_task # TID_NULL =>
     \A t \in TaskId : state[t] = READY => prio[gp_current_task] <= prio[t]

TaskInv ==
  /\ TypeOK
  /\ ReadyQueueOK
  /\ OneRunning
  /\ NullSchedulable
  /\ ActiveCount
  /\ HighestPriorityRuns
  /\ BootSlotsFree

\* The CPU is with a task of the most urgent priority there is; unlike
\* HighestPriorityRuns, this is not yet so when the null task has just booted.
MostUrgentRuns == \A t \in TaskId : state[t] = READY => prio[gp_current_task] <= prio[t]

LiveSet(st) == {t \in TaskId : st[t] # DORMANT}

LEMMA LiveSetFinite ==
  ASSUME NEW st
  PROVE  IsFiniteSet(LiveSet(st)) /\ Cardinality(LiveSet(st)) \in Nat
<1>1. IsFiniteSet(TaskId)
  BY TaskAssumption, FS_Interval DEF TaskId
<1>2. LiveSet(st) \subseteq TaskId
  BY DEF LiveSet
<1> QED BY <1>1, <1>2, FS_Subset, FS_CardinalityType

\* The three ways a step changes the number of live tasks.
LEMMA LiveSetGrows ==
  ASSUME NEW st, NEW st2, NEW t \in TaskId, st[t] = DORMANT, st2[t] # DORMANT,
         \A u \in TaskId \ {t} : st[u] = DORMANT <=> st2[u] = DORMANT
  PROVE  Cardinality(LiveSet(st2)) = Cardinality(LiveSet(st)) + 1
<1>1. LiveSet(st2) = LiveSet(st) \cup {t} /\ t \notin LiveSet(st)
  BY DEF LiveSet
<1> QED BY <1>1, LiveSetFinite, FS_AddElement

LEMMA LiveSetShrinks ==
  ASSUME NEW st, NEW st2, NEW t \in TaskId, st[t] # DORMANT, st2[t] = DORMANT,
         \A u \in TaskId \ {t} : st[u] = DORMANT <=> st2[u] = DORMANT
  PROVE  Cardinality(LiveSet(st2)) = Cardinality(LiveSet(st)) - 1
<1>1. LiveSet(st2) = LiveSet(st) \ {t} /\ t \in LiveSet(st)
  BY DEF LiveSet
<1>2. IsFiniteSet(LiveSet(st))
  BY LiveSetFinite
<1>3. Cardinality(LiveSet(st) \ {t}) = Cardinality(LiveSet(st)) - 1
  BY ONLY <1>1, <1>2, FS_RemoveElement
<1> QED BY <1>1, <1>3

\* The consequences of a dispatch every system call needs.
LEMMA AfterDispatch ==
  ASSUME NEW st, NEW pr, NEW rq, Prepared(rq, st, pr), Dispatched(st, pr), prio' = pr,
         st[TID_NULL] \in {READY, RUNNING}, pr[TID_NULL] = PRIO_NULL
  PROVE  /\ ReadyQueueOK'
         /\ OneRunning'
         /\ NullSchedulable'
         /\ HighestPriorityRuns'
         /\ MostUrgentRuns'
         /\ LiveSet(state') = LiveSet(st)
         /\ Kept(st)
         /\ gp_current_task' \in TaskId
         /\ state' \in [TaskId -> States]
         /\ ready' \in [prio_list : [Prio -> Seq(TaskId)], tree : SUBSET Prio]
<1>1. ready' \in [prio_list : [Prio -> Seq(TaskId)], tree : SUBSET Prio]
  BY DEF Dispatched, Queues
<1>2. ReadyQueueOK'
  <2>1. Queues(ready', prio', ReadySet(state'))
    BY DEF Dispatched
  <2>2. prio' \in [TaskId -> Prio]
    BY DEF Prepared
  <2>3. (/\ prio \in [TaskId -> Prio]
         /\ ready \in [prio_list : [Prio -> Seq(TaskId)], tree : SUBSET Prio]
         => (ReadyQueueOK <=> Queues(ready, prio, ReadySet(state))))'
    BY QueuesReady, PTL
  <2> QED BY <1>1, <2>1, <2>2, <2>3
<1>3. OneRunning' /\ HighestPriorityRuns' /\ MostUrgentRuns'
  BY DEF Dispatched, OneRunning, HighestPriorityRuns, MostUrgentRuns
<1>4. NullSchedulable'
  BY TaskAssumption DEF Dispatched, NullSchedulable, TID_NULL, TaskId
<1>5. LiveSet(state') = LiveSet(st)
  <2>1. \A u \in TaskId : st[u] = DORMANT <=> state'[u] = DORMANT
    BY StateAssumption DEF Dispatched, Prepared, States
  <2> QED BY <2>1 DEF LiveSet
<1>6. Kept(st)
  <2>1. \A u \in TaskId : st[u] \in States
    BY DEF Prepared
  <2> QED BY <2>1, StateAssumption DEF Dispatched, States, Kept
<1> QED BY <1>1, <1>2, <1>3, <1>4, <1>5, <1>6 DEF Dispatched

\* A call that leaves states and priorities as they are may always reschedule.
LEMMA RunningPrepared ==
  ASSUME TaskInv
  PROVE  Prepared(ready, state, prio)
<1>1. state[gp_current_task] = RUNNING /\ gp_current_task \in TaskId
  BY DEF TaskInv, TypeOK, OneRunning
<1>2. Queues(ready, prio, ReadySet(state))
  BY QueuesReady DEF TaskInv, TypeOK
<1> QED BY <1>1, <1>2, StateAssumption
        DEF TaskInv, TypeOK, OneRunning, Prepared, States, Runnable

-----------------------------------------------------------------------------
(* Every operation preserves the invariant.                                *)

\* As long as fewer than MAX_TASKS tasks are active, the search of k_tsk_create
\* ends at a DORMANT slot.
LEMMA FreeSlotIsDormant ==
  ASSUME TaskInv, g_num_active_tasks < MAX_TASKS
  PROVE  FreeSlot \in TaskId /\ state[FreeSlot] = DORMANT
<1> DEFINE dormant == {t \in TaskId : state[t] = DORMANT}
           above == {t \in dormant : t > current_tid}
<1>1. dormant # {}
  <2>1. SUFFICES ASSUME dormant = {} PROVE FALSE
    OBVIOUS
  <2>2. LiveSet(state) = TaskId
    BY <2>1 DEF LiveSet
  <2>3. Cardinality(TaskId) = MAX_TASKS
    BY TaskAssumption, FS_Interval DEF TaskId
  <2> QED BY <2>2, <2>3, TaskAssumption DEF TaskInv, ActiveCount, LiveSet
<1>2. ASSUME NEW T \in SUBSET dormant, T # {}
      PROVE  Min(T) \in dormant
  <2>1. T \in SUBSET Nat
    BY TaskAssumption DEF TaskId
  <2>2. \E m \in T : \A n \in T : m <= n
    BY <1>2, <2>1, LeastElement
  <2> QED BY <2>2 DEF Min
<1>3. FreeSlot \in dormant
  <2>1. CASE above # {}
    BY <1>2, <2>1 DEF FreeSlot
  <2>2. CASE above = {}
    BY <1>1, <1>2, <2>2 DEF FreeSlot
  <2> QED BY <2>1, <2>2
<1> QED BY <1>3

\* A stack comes from the heap.
LEMMA AllocTypes ==
  ASSUME TaskInv, NEW tid \in TaskId, k_alloc_p_stack(tid)
  PROVE  heap' \in SUBSET Block /\ usp' \in [TaskId -> Block \cup {NULL}]
BY DEF TaskInv, TypeOK, k_alloc_p_stack, k_mem_alloc_with_tid

LEMMA YieldStep ==
  ASSUME TaskInv, k_tsk_yield
  PROVE  TaskInv' /\ MostUrgentRuns' /\ Kept(state)
<1>1. Prepared(ready, state, prio)
  BY RunningPrepared
<1>2. Dispatched(state, prio)
  BY <1>1, WrapperDispatches DEF k_tsk_yield
<1>3. /\ prio' = prio /\ boot_left' = boot_left /\ Booted
      /\ g_num_active_tasks' = g_num_active_tasks
      /\ UNCHANGED <<priv, usp, mbx, current_tid, heap, boot_i>>
  BY DEF k_tsk_yield
<1>4. state[TID_NULL] \in {READY, RUNNING} /\ prio[TID_NULL] = PRIO_NULL
  BY DEF TaskInv, NullSchedulable
<1>5. /\ ReadyQueueOK' /\ OneRunning' /\ NullSchedulable' /\ HighestPriorityRuns'
      /\ MostUrgentRuns'
      /\ Kept(state)
      /\ LiveSet(state') = LiveSet(state)
      /\ gp_current_task' \in TaskId
      /\ state' \in [TaskId -> States]
      /\ ready' \in [prio_list : [Prio -> Seq(TaskId)], tree : SUBSET Prio]
  BY <1>1, <1>2, <1>3, <1>4, AfterDispatch
<1>6. TypeOK'
  BY <1>3, <1>5 DEF TaskInv, TypeOK, States
<1>7. ActiveCount'
  BY <1>3, <1>5 DEF TaskInv, ActiveCount, LiveSet
<1>8. BootSlotsFree'
  BY <1>3 DEF BootSlotsFree, Booted
<1> QED BY <1>5, <1>6, <1>7, <1>8 DEF TaskInv

LEMMA CreatePrepared ==
  ASSUME TaskInv, NEW p \in Prio, k_tsk_create(p)
  PROVE  Prepared(pl_insert(ready, FreeSlot, p), [state EXCEPT ![FreeSlot] = READY],
                  [prio EXCEPT ![FreeSlot] = p])
<1> DEFINE tid == FreeSlot
           st == [state EXCEPT ![tid] = READY]
           pr == [prio EXCEPT ![tid] = p]
           rq == pl_insert(ready, tid, p)
<1>1. tid \in TaskId /\ state[tid] = DORMANT
  BY FreeSlotIsDormant DEF k_tsk_create
<1>2. /\ CanCall /\ current_tid' = tid /\ prio' = pr
      /\ priv' = [priv EXCEPT ![tid] = 0]
      /\ g_num_active_tasks' = g_num_active_tasks + 1
      /\ run_new_wrapper(FALSE, rq, st, pr)
      /\ UNCHANGED <<mbx, boot_i, boot_left>>
      /\ k_alloc_p_stack(tid)
  BY DEF k_tsk_create
<1> HIDE DEF tid
<1>3. state \in [TaskId -> States] /\ prio \in [TaskId -> Prio] /\ gp_current_task \in TaskId
  BY DEF TaskInv, TypeOK, States
<1>4. state[gp_current_task] = RUNNING /\ gp_current_task # tid
  BY <1>1, <1>3, StateAssumption DEF TaskInv, OneRunning
<1>5. Prepared(rq, st, pr)
  <2>1. Queues(ready, prio, ReadySet(state)) /\ tid \notin ReadySet(state)
    BY <1>1, QueuesReady, StateAssumption DEF TaskInv, TypeOK, ReadySet
  <2>2. Queues(ready, pr, ReadySet(state))
    BY <1>1, <1>3, <2>1, ReprioQueues
  <2>3. pr \in [TaskId -> Prio] /\ pr[tid] = p
    BY <1>1, <1>3
  <2>4. Queues(rq, pr, ReadySet(state) \cup {tid})
    <3> HIDE DEF pr
    <3>1. Queues(pl_insert(ready, tid, pr[tid]), pr, ReadySet(state) \cup {tid})
      BY <1>1, <2>1, <2>2, <2>3, InsertQueues
    <3> QED BY <2>3, <3>1
  <2>5. ReadySet(st) = ReadySet(state) \cup {tid}
    BY <1>1, <1>3 DEF ReadySet
  <2>6. \A t \in TaskId : st[t] = RUNNING => t = gp_current_task
    BY <1>1, <1>3, StateAssumption DEF TaskInv, OneRunning
  <2>7. st \in [TaskId -> States] /\ st[gp_current_task] = RUNNING
    BY <1>1, <1>3, <1>4 DEF States
  <2> QED BY <1>3, <2>3, <2>4, <2>5, <2>6, <2>7, StateAssumption DEF Prepared, Runnable
<1> QED BY <1>5 DEF tid

LEMMA CreateStep ==
  ASSUME TaskInv, NEW p \in Prio, k_tsk_create(p)
  PROVE  TaskInv' /\ MostUrgentRuns' /\ Kept([state EXCEPT ![FreeSlot] = READY])
<1> DEFINE tid == FreeSlot
           st == [state EXCEPT ![tid] = READY]
           pr == [prio EXCEPT ![tid] = p]
           rq == pl_insert(ready, tid, p)
<1>1. tid \in TaskId /\ state[tid] = DORMANT
  BY FreeSlotIsDormant DEF k_tsk_create
<1>2. /\ CanCall /\ current_tid' = tid /\ prio' = pr
      /\ priv' = [priv EXCEPT ![tid] = 0]
      /\ g_num_active_tasks' = g_num_active_tasks + 1
      /\ run_new_wrapper(FALSE, rq, st, pr)
      /\ UNCHANGED <<mbx, boot_i, boot_left>>
      /\ k_alloc_p_stack(tid)
  BY DEF k_tsk_create
<1> HIDE DEF tid
<1>3. state \in [TaskId -> States] /\ prio \in [TaskId -> Prio] /\ gp_current_task \in TaskId
  BY DEF TaskInv, TypeOK, States
<1>4. state[gp_current_task] = RUNNING /\ gp_current_task # tid
  BY <1>1, <1>3, StateAssumption DEF TaskInv, OneRunning
<1>5. Prepared(rq, st, pr)
  BY CreatePrepared DEF tid
<1>6. Dispatched(st, pr)
  BY <1>2, <1>5, WrapperDispatches
<1>7. st[TID_NULL] \in {READY, RUNNING} /\ pr[TID_NULL] = PRIO_NULL
  BY <1>1, <1>3, StateAssumption, TaskAssumption
     DEF TaskInv, NullSchedulable, TID_NULL, TaskId
<1>8. /\ ReadyQueueOK' /\ OneRunning' /\ NullSchedulable' /\ HighestPriorityRuns'
      /\ MostUrgentRuns'
      /\ Kept(st)
      /\ LiveSet(state') = LiveSet(st)
      /\ gp_current_task' \in TaskId
      /\ state' \in [TaskId -> States]
      /\ ready' \in [prio_list : [Prio -> Seq(TaskId)], tree : SUBSET Prio]
  BY <1>2, <1>5, <1>6, <1>7, AfterDispatch
<1>9. TypeOK'
  <2>1. heap' \in SUBSET Block /\ usp' \in [TaskId -> Block \cup {NULL}]
    BY <1>1, <1>2, AllocTypes
  <2> QED BY <1>1, <1>2, <1>3, <1>8, <2>1 DEF TaskInv, TypeOK, States
<1>10. ActiveCount'
  <2>1. Cardinality(LiveSet(st)) = Cardinality(LiveSet(state)) + 1
    BY <1>1, <1>3, LiveSetGrows, StateAssumption
  <2> QED BY <1>2, <1>8, <2>1 DEF TaskInv, ActiveCount, LiveSet
<1>11. BootSlotsFree'
  BY <1>2 DEF BootSlotsFree, Booted, CanCall
<1> QED BY <1>8, <1>9, <1>10, <1>11 DEF TaskInv, tid

LEMMA ExitPrepared ==
  ASSUME TaskInv, k_tsk_exit
  PROVE  Prepared(ready, [state EXCEPT ![gp_current_task] = DORMANT], prio)
<1> DEFINE cur == gp_current_task
           st == [state EXCEPT ![cur] = DORMANT]
<1>1. /\ CanCall /\ heap' \subseteq heap
      /\ g_num_active_tasks' = g_num_active_tasks - 1
      /\ run_new_wrapper(FALSE, ready, st, prio)
      /\ UNCHANGED <<prio, priv, usp, mbx, current_tid, boot_i, boot_left>>
  BY DEF k_tsk_exit, FreedByExit
<1>2. state \in [TaskId -> States] /\ prio \in [TaskId -> Prio] /\ cur \in TaskId
  BY DEF TaskInv, TypeOK, States
<1>3. state[cur] = RUNNING /\ cur # TID_NULL
  BY <1>1, <1>2 DEF TaskInv, OneRunning, CanCall
<1>4. TID_NULL \in TaskId /\ state[TID_NULL] = READY
  BY <1>2, <1>3, TaskAssumption DEF TaskInv, NullSchedulable, OneRunning, TID_NULL, TaskId
<1>5. Prepared(ready, st, prio)
  <2>1. Queues(ready, prio, ReadySet(state))
    BY QueuesReady DEF TaskInv, TypeOK
  <2>2. ReadySet(st) = ReadySet(state) /\ TID_NULL \in ReadySet(st)
    BY <1>2, <1>3, <1>4, StateAssumption DEF ReadySet
  <2>3. \A t \in TaskId : st[t] = RUNNING => t = cur
    BY <1>2, <1>3, StateAssumption DEF TaskInv, OneRunning
  <2>4. st \in [TaskId -> States] /\ st[cur] # READY
    BY <1>2, StateAssumption DEF States
  <2> QED BY <1>2, <2>1, <2>2, <2>3, <2>4 DEF Prepared
<1> QED BY <1>5

LEMMA ExitStep ==
  ASSUME TaskInv, k_tsk_exit
  PROVE  TaskInv' /\ MostUrgentRuns' /\ Kept([state EXCEPT ![gp_current_task] = DORMANT])
<1> DEFINE cur == gp_current_task
           st == [state EXCEPT ![cur] = DORMANT]
<1>1. /\ CanCall /\ heap' \subseteq heap
      /\ g_num_active_tasks' = g_num_active_tasks - 1
      /\ run_new_wrapper(FALSE, ready, st, prio)
      /\ UNCHANGED <<prio, priv, usp, mbx, current_tid, boot_i, boot_left>>
  BY DEF k_tsk_exit, FreedByExit
<1>2. state \in [TaskId -> States] /\ prio \in [TaskId -> Prio] /\ cur \in TaskId
  BY DEF TaskInv, TypeOK, States
<1>3. state[cur] = RUNNING /\ cur # TID_NULL
  BY <1>1, <1>2 DEF TaskInv, OneRunning, CanCall
<1>4. TID_NULL \in TaskId /\ state[TID_NULL] = READY
  BY <1>2, <1>3, TaskAssumption DEF TaskInv, NullSchedulable, OneRunning, TID_NULL, TaskId
<1>5. Prepared(ready, st, prio)
  BY ExitPrepared
<1>6. Dispatched(st, prio)
  BY <1>1, <1>5, WrapperDispatches
<1>7. st[TID_NULL] \in {READY, RUNNING} /\ prio[TID_NULL] = PRIO_NULL
  BY <1>2, <1>3, <1>4 DEF TaskInv, NullSchedulable
<1>8. /\ ReadyQueueOK' /\ OneRunning' /\ NullSchedulable' /\ HighestPriorityRuns'
      /\ MostUrgentRuns'
      /\ Kept(st)
      /\ LiveSet(state') = LiveSet(st)
      /\ gp_current_task' \in TaskId
      /\ state' \in [TaskId -> States]
      /\ ready' \in [prio_list : [Prio -> Seq(TaskId)], tree : SUBSET Prio]
  BY <1>1, <1>5, <1>6, <1>7, AfterDispatch
<1>9. Cardinality(LiveSet(st)) = Cardinality(LiveSet(state)) - 1
  BY <1>2, <1>3, LiveSetShrinks, StateAssumption
<1>10. ActiveCount'
  BY <1>1, <1>8, <1>9 DEF TaskInv, ActiveCount, LiveSet
<1>11. g_num_active_tasks' \in Nat
  <2>1. Cardinality(LiveSet(state')) \in Nat
    BY LiveSetFinite
  <2> QED BY <1>10, <2>1 DEF ActiveCount, LiveSet
<1>12. TypeOK'
  BY <1>1, <1>8, <1>11 DEF TaskInv, TypeOK, States
<1>13. BootSlotsFree'
  BY <1>1 DEF BootSlotsFree, Booted, CanCall
<1> QED BY <1>8, <1>10, <1>12, <1>13 DEF TaskInv

LEMMA SetPrioPrepared ==
  ASSUME TaskInv, NEW t \in TaskId, NEW p \in Prio, k_tsk_set_prio(t, p)
  PROVE  /\ t = gp_current_task => Prepared(ready, state, [prio EXCEPT ![t] = p])
         /\ t # gp_current_task =>
              Prepared(IF state[t] = READY
                       THEN pl_insert(pl_remove(ready, t, prio[t]), t, p) ELSE ready,
                       state, [prio EXCEPT ![t] = p])
<1> DEFINE cur == gp_current_task
           pr == [prio EXCEPT ![t] = p]
           out == pl_remove(ready, t, prio[t])
           requeued == IF state[t] = READY THEN pl_insert(out, t, p) ELSE ready
<1>1. /\ CanCall /\ prio' = pr
      /\ t # TID_NULL /\ state[t] # DORMANT
      /\ UNCHANGED <<priv, usp, mbx, g_num_active_tasks, current_tid, heap,
                     boot_i, boot_left>>
      /\ \/ t = cur /\ run_new_wrapper(TRUE, ready, state, pr)
         \/ t # cur /\ run_new_wrapper(FALSE, requeued, state, pr)
  BY DEF k_tsk_set_prio, MaySetPrio
<1>2. /\ state \in [TaskId -> States] /\ prio \in [TaskId -> Prio] /\ cur \in TaskId
      /\ pr \in [TaskId -> Prio] /\ pr[t] = p
  BY DEF TaskInv, TypeOK, States
<1>3. state[cur] = RUNNING /\ cur \notin ReadySet(state)
  BY <1>2, StateAssumption DEF TaskInv, OneRunning, ReadySet
<1>4. Queues(ready, prio, ReadySet(state)) /\ ReadySet(state) \in SUBSET TaskId
  BY QueuesReady DEF TaskInv, TypeOK, ReadySet
<1>5. ASSUME NEW rq, Queues(rq, pr, ReadySet(state))
      PROVE  Prepared(rq, state, pr)
  BY <1>2, <1>3, <1>5, StateAssumption DEF Prepared, Runnable, TaskInv, OneRunning
<1>6. t \notin ReadySet(state) => Queues(ready, pr, ReadySet(state))
  BY <1>2, <1>4, ReprioQueues
<1>7. t \in ReadySet(state) => Queues(pl_insert(out, t, p), pr, ReadySet(state))
  <2>1. SUFFICES ASSUME t \in ReadySet(state)
                 PROVE  Queues(pl_insert(out, t, p), pr, ReadySet(state))
    OBVIOUS
  <2>2. Queues(out, prio, ReadySet(state) \ {t})
    BY <1>2, <1>4, <2>1, RemoveQueues
  <2> HIDE DEF out
  <2>3. Queues(out, pr, ReadySet(state) \ {t})
    BY <1>2, <2>2, ReprioQueues
  <2> HIDE DEF pr
  <2>4. Queues(pl_insert(out, t, pr[t]), pr, (ReadySet(state) \ {t}) \cup {t})
    BY <1>2, <2>3, InsertQueues
  <2>5. (ReadySet(state) \ {t}) \cup {t} = ReadySet(state)
    BY <2>1
  <2> QED BY <1>2, <2>4, <2>5
<1>8. ASSUME t = cur
      PROVE  Prepared(ready, state, pr)
  BY <1>3, <1>5, <1>6, <1>8
<1>9. ASSUME t # cur
      PROVE  Prepared(requeued, state, pr)
  <2>1. Queues(requeued, pr, ReadySet(state))
    BY <1>6, <1>7 DEF ReadySet
  <2> HIDE DEF requeued
  <2> QED BY <1>5, <2>1
<1> QED BY <1>8, <1>9

LEMMA SetPrioStep ==
  ASSUME TaskInv, NEW t \in TaskId, NEW p \in Prio, k_tsk_set_prio(t, p)
  PROVE  TaskInv' /\ MostUrgentRuns' /\ Kept(state)
<1> DEFINE cur == gp_current_task
           pr == [prio EXCEPT ![t] = p]
           out == pl_remove(ready, t, prio[t])
           requeued == IF state[t] = READY THEN pl_insert(out, t, p) ELSE ready
<1>1. /\ CanCall /\ prio' = pr
      /\ t # TID_NULL /\ state[t] # DORMANT
      /\ UNCHANGED <<priv, usp, mbx, g_num_active_tasks, current_tid, heap,
                     boot_i, boot_left>>
      /\ \/ t = cur /\ run_new_wrapper(TRUE, ready, state, pr)
         \/ t # cur /\ run_new_wrapper(FALSE, requeued, state, pr)
  BY DEF k_tsk_set_prio, MaySetPrio
<1>2. /\ state \in [TaskId -> States] /\ prio \in [TaskId -> Prio] /\ cur \in TaskId
      /\ pr \in [TaskId -> Prio] /\ pr[t] = p
  BY DEF TaskInv, TypeOK, States
<1>8. PICK rq : Prepared(rq, state, pr) /\ Dispatched(state, pr)
  <2>1. CASE t = cur /\ run_new_wrapper(TRUE, ready, state, pr)
    BY <2>1, SetPrioPrepared, WrapperDispatches
  <2>2. CASE t # cur /\ run_new_wrapper(FALSE, requeued, state, pr)
    BY <2>2, SetPrioPrepared, WrapperDispatches
  <2> QED BY <1>1, <2>1, <2>2
<1>9. state[TID_NULL] \in {READY, RUNNING} /\ pr[TID_NULL] = PRIO_NULL
  BY <1>1, <1>2, TaskAssumption DEF TaskInv, NullSchedulable, TID_NULL, TaskId
<1> HIDE DEF pr
<1>10. /\ ReadyQueueOK' /\ OneRunning' /\ NullSchedulable' /\ HighestPriorityRuns'
       /\ MostUrgentRuns'
       /\ Kept(state)
       /\ LiveSet(state') = LiveSet(state)
       /\ gp_current_task' \in TaskId
       /\ state' \in [TaskId -> States]
       /\ ready' \in [prio_list : [Prio -> Seq(TaskId)], tree : SUBSET Prio]
  BY <1>1, <1>8, <1>9, AfterDispatch
<1>11. TypeOK'
  BY <1>1, <1>2, <1>10 DEF TaskInv, TypeOK, States
<1>12. ActiveCount'
  BY <1>1, <1>10 DEF TaskInv, ActiveCount, LiveSet
<1>13. BootSlotsFree'
  BY <1>1 DEF BootSlotsFree, Booted, CanCall
<1> QED BY <1>10, <1>11, <1>12, <1>13 DEF TaskInv

\* An entry of the boot table that is created becomes one more READY task.
LEMMA BootCreateStep ==
  ASSUME TaskInv, NEW tid \in TaskId \ {TID_NULL}, NEW p \in Prio,
         state[tid] = DORMANT, gp_current_task = TID_NULL,
         BootCreate(tid, p), prio' = [prio EXCEPT ![tid] = p],
         UNCHANGED gp_current_task
  PROVE  /\ ReadyQueueOK' /\ OneRunning' /\ NullSchedulable' /\ ActiveCount'
         /\ state' = [state EXCEPT ![tid] = READY]
         /\ prio' \in [TaskId -> Prio]
         /\ ready' \in [prio_list : [Prio -> Seq(TaskId)], tree : SUBSET Prio]
<1> DEFINE pr == [prio EXCEPT ![tid] = p]
<1>1. /\ state' = [state EXCEPT ![tid] = READY]
      /\ ready' = pl_insert(ready, tid, p)
      /\ g_num_active_tasks' = g_num_active_tasks + 1
  BY DEF BootCreate
<1>2. /\ state \in [TaskId -> States] /\ prio \in [TaskId -> Prio]
      /\ pr \in [TaskId -> Prio] /\ pr[tid] = p
  BY DEF TaskInv, TypeOK, States
<1>3. Queues(ready, prio, ReadySet(state)) /\ tid \notin ReadySet(state)
  BY QueuesReady, StateAssumption DEF TaskInv, TypeOK, ReadySet
<1>4. Queues(ready, pr, ReadySet(state))
  BY <1>2, <1>3, ReprioQueues
<1>5. ReadySet(state') = ReadySet(state) \cup {tid}
  BY <1>1, <1>2 DEF ReadySet
<1>6. prio' = pr
  OBVIOUS
<1> HIDE DEF pr
<1>7. Queues(pl_insert(ready, tid, pr[tid]), pr, ReadySet(state) \cup {tid})
  BY <1>2, <1>3, <1>4, InsertQueues
<1>8. Queues(ready', prio', ReadySet(state'))
  BY <1>1, <1>2, <1>5, <1>6, <1>7
<1>9. ready' \in [prio_list : [Prio -> Seq(TaskId)], tree : SUBSET Prio]
  BY <1>8 DEF Queues
<1>10. (/\ prio \in [TaskId -> Prio]
        /\ ready \in [prio_list : [Prio -> Seq(TaskId)], tree : SUBSET Prio]
        => (ReadyQueueOK <=> Queues(ready, prio, ReadySet(state))))'
  BY QueuesReady, PTL
<1>11. ReadyQueueOK'
  BY <1>2, <1>6, <1>8, <1>9, <1>10
<1>12. OneRunning'
  BY <1>1, <1>2, StateAssumption DEF TaskInv, OneRunning
<1>13. NullSchedulable'
  BY <1>1, <1>2 DEF TaskInv, NullSchedulable
<1>14. Cardinality(LiveSet(state')) = Cardinality(LiveSet(state)) + 1
  BY <1>1, <1>2, LiveSetGrows, StateAssumption
<1>15. ActiveCount'
  BY <1>1, <1>14 DEF TaskInv, ActiveCount, LiveSet
<1> QED BY <1>1, <1>2, <1>6, <1>9, <1>11, <1>12, <1>13, <1>15

\* An entry that is skipped has only written into a TCB nobody uses.
LEMMA BootSkipStep ==
  ASSUME TaskInv, NEW tid \in TaskId \ {TID_NULL}, NEW p \in Prio,
         state[tid] = DORMANT,
         prio' = [prio EXCEPT ![tid] = p],
         UNCHANGED <<state, ready, g_num_active_tasks, gp_current_task>>
  PROVE  /\ ReadyQueueOK' /\ OneRunning' /\ NullSchedulable' /\ ActiveCount'
         /\ prio' \in [TaskId -> Prio]
<1> DEFINE pr == [prio EXCEPT ![tid] = p]
<1>1. state \in [TaskId -> States] /\ prio \in [TaskId -> Prio] /\ pr \in [TaskId -> Prio]
  BY DEF TaskInv, TypeOK, States
<1>2. Queues(ready, prio, ReadySet(state)) /\ tid \notin ReadySet(state)
  BY QueuesReady, StateAssumption DEF TaskInv, TypeOK, ReadySet
<1>3. Queues(ready, pr, ReadySet(state))
  BY <1>1, <1>2, ReprioQueues
<1>4. Queues(ready', prio', ReadySet(state'))
  BY <1>3
<1>5. ready' \in [prio_list : [Prio -> Seq(TaskId)], tree : SUBSET Prio]
  BY DEF TaskInv, TypeOK
<1>6. (/\ prio \in [TaskId -> Prio]
       /\ ready \in [prio_list : [Prio -> Seq(TaskId)], tree : SUBSET Prio]
       => (ReadyQueueOK <=> Queues(ready, prio, ReadySet(state))))'
  BY QueuesReady, PTL
<1>7. ReadyQueueOK'
  BY <1>1, <1>4, <1>5, <1>6
<1> QED BY <1>1, <1>7 DEF TaskInv, OneRunning, NullSchedulable, ActiveCount

\* The slot an entry of the boot table is meant for.
BootSlot(kcd) == IF kcd THEN TID_KCD ELSE boot_i + 1

\* It is free.
LEMMA BootSlotDormant ==
  ASSUME TaskInv, NEW kcd \in BOOLEAN, NEW p \in Prio, NEW v \in {0, 1},
         BootTask(kcd, p, v)
  PROVE  BootSlot(kcd) \in TaskId \ {TID_NULL} /\ state[BootSlot(kcd)] = DORMANT
<1>1. boot_left > 0 /\ (kcd => state[TID_KCD] = DORMANT)
  BY DEF BootTask
<1>2. boot_i \in Nat /\ boot_left \in Nat /\ boot_i + boot_left <= MAX_TASKS - 2
  BY BootAssumption, TaskAssumption DEF TaskInv, TypeOK
<1>3. CASE kcd
  BY <1>1, <1>3, TaskAssumption DEF TID_KCD, TID_NULL, TaskId, BootSlot
<1>4. CASE ~kcd
  <2>1. boot_i + 1 \in boot_i + 1 .. TID_KCD - 1
    BY <1>1, <1>2, TaskAssumption DEF TID_KCD
  <2>2. state[boot_i + 1] = DORMANT
    BY <1>1, <1>2, <2>1 DEF Booted, TaskInv, BootSlotsFree
  <2> QED BY <1>1, <1>2, <1>4, <2>2, TaskAssumption DEF TID_NULL, TaskId, BootSlot
<1> QED BY <1>3, <1>4

LEMMA BootStep ==
  ASSUME TaskInv, NEW kcd \in BOOLEAN, NEW p \in Prio, NEW v \in {0, 1},
         BootTask(kcd, p, v)
  PROVE  TaskInv'
<1> DEFINE tid == IF kcd THEN TID_KCD ELSE boot_i + 1
<1>1. /\ boot_left > 0
      /\ kcd => state[TID_KCD] = DORMANT
      /\ prio' = [prio EXCEPT ![tid] = p]
      /\ priv' = [priv EXCEPT ![tid] = v]
      /\ boot_i' = IF kcd THEN boot_i ELSE boot_i + 1
      /\ UNCHANGED <<mbx, gp_current_task, current_tid>>
  BY DEF BootTask
<1>2. boot_i \in Nat /\ boot_left \in Nat /\ boot_i + boot_left <= MAX_TASKS - 2
  BY BootAssumption, TaskAssumption DEF TaskInv, TypeOK
<1>3. ~Booted /\ gp_current_task = TID_NULL
  BY <1>1, <1>2 DEF Booted, TaskInv, BootSlotsFree
<1>4. tid \in TaskId \ {TID_NULL} /\ state[tid] = DORMANT
  BY BootSlotDormant DEF BootSlot
<1>5. /\ boot_i' + (boot_left - 1) <= MaxBootTasks /\ boot_i' <= MaxBootTasks
      /\ boot_i' \in Nat /\ boot_left - 1 \in Nat
  BY <1>1, <1>2, BootAssumption, TaskAssumption DEF TaskInv, TypeOK
<1>6. \A t \in boot_i' + 1 .. TID_KCD - 1 : t \in TaskId /\ t # tid /\ state[t] = DORMANT
  BY <1>1, <1>2, <1>3, TaskAssumption DEF TaskInv, BootSlotsFree, TID_KCD, TaskId
<1>7. HighestPriorityRuns'
  BY <1>1, <1>3 DEF HighestPriorityRuns
<1>8. priv' \in [TaskId -> {0, 1}] /\ gp_current_task' = TID_NULL
  BY <1>1, <1>3, <1>4 DEF TaskInv, TypeOK
<1>9. ASSUME BootCreate(tid, p),
             heap' \in SUBSET Block, usp' \in [TaskId -> Block \cup {NULL}]
      PROVE  TaskInv'
  <2> HIDE DEF tid
  <2>1. /\ ReadyQueueOK' /\ OneRunning' /\ NullSchedulable' /\ ActiveCount'
        /\ state' = [state EXCEPT ![tid] = READY]
        /\ prio' \in [TaskId -> Prio]
        /\ ready' \in [prio_list : [Prio -> Seq(TaskId)], tree : SUBSET Prio]
    BY <1>1, <1>3, <1>4, <1>9, BootCreateStep
  <2>2. boot_left' = boot_left - 1 /\ g_num_active_tasks' = g_num_active_tasks + 1
    BY <1>9 DEF BootCreate
  <2>3. TypeOK'
    <3>1. state' \in [TaskId -> {DORMANT, READY, RUNNING, BLK_MSG}]
      BY <1>4, <2>1 DEF TaskInv, TypeOK
    <3>2. g_num_active_tasks' \in Nat /\ boot_left' \in Nat
      BY <1>5, <2>2 DEF TaskInv, TypeOK
    <3>3. /\ mbx' \in [TaskId -> Block \cup {NULL}]
          /\ gp_current_task' \in TaskId /\ current_tid' \in TaskId
      BY <1>1 DEF TaskInv, TypeOK
    <3> QED BY <1>5, <1>8, <1>9, <2>1, <2>2, <3>1, <3>2, <3>3 DEF TypeOK
  <2>4. BootSlotsFree'
    <3>1. state \in [TaskId -> States]
      BY DEF TaskInv, TypeOK, States
    <3>2. \A t \in boot_i' + 1 .. TID_KCD - 1 : state'[t] = DORMANT
      BY <1>6, <2>1, <3>1
    <3> QED BY <1>8, <3>2 DEF BootSlotsFree
  <2> QED BY <1>7, <2>1, <2>3, <2>4 DEF TaskInv
<1>10. ASSUME boot_left' \in {0, boot_left - 1},
              UNCHANGED <<state, ready, g_num_active_tasks, usp, heap>>
       PROVE  TaskInv'
  <2> HIDE DEF tid
  <2>1. /\ ReadyQueueOK' /\ OneRunning' /\ NullSchedulable' /\ ActiveCount'
        /\ prio' \in [TaskId -> Prio]
    BY <1>1, <1>4, <1>10, BootSkipStep
  <2>2. boot_left' \in Nat /\ boot_i' + boot_left' <= MaxBootTasks
    <3>1. CASE boot_left' = 0
      BY <1>5, <3>1
    <3>2. CASE boot_left' = boot_left - 1
      BY <1>5, <3>2
    <3> QED BY <1>10, <3>1, <3>2
  <2>3. TypeOK'
    BY <1>1, <1>5, <1>8, <1>10, <2>1, <2>2 DEF TaskInv, TypeOK
  <2>4. BootSlotsFree'
    BY <1>6, <1>8, <1>10 DEF BootSlotsFree
  <2> QED BY <1>7, <2>1, <2>3, <2>4 DEF TaskInv
<1>11. \/ BootCreate(tid, p) /\ UNCHANGED <<usp, heap>>
       \/ k_alloc_p_stack(tid) /\ BootCreate(tid, p)
       \/ /\ boot_left' \in {0, boot_left - 1}
          /\ UNCHANGED <<state, ready, g_num_active_tasks, usp, heap>>
  BY DEF BootTask
<1>12. CASE BootCreate(tid, p) /\ UNCHANGED <<usp, heap>>
  <2>1. heap' \in SUBSET Block /\ usp' \in [TaskId -> Block \cup {NULL}]
    BY <1>12 DEF TaskInv, TypeOK
  <2> QED BY <1>9, <1>12, <2>1
<1>13. CASE k_alloc_p_stack(tid) /\ BootCreate(tid, p)
  <2>1. heap' \in SUBSET Block /\ usp' \in [TaskId -> Block \cup {NULL}]
    BY <1>4, <1>13, AllocTypes
  <2> QED BY <1>9, <1>13, <2>1
<1> QED BY <1>10, <1>11, <1>12, <1>13

LEMMA InitInv ==
  ASSUME Init
  PROVE  TaskInv
<1>1. /\ state = [t \in TaskId |-> IF t = TID_NULL THEN RUNNING ELSE DORMANT]
      /\ prio = [t \in TaskId |-> IF t = TID_NULL THEN PRIO_NULL ELSE 0]
      /\ priv = [t \in TaskId |-> IF t = TID_NULL THEN 1 ELSE 0]
      /\ usp = [t \in TaskId |-> NULL] /\ mbx = [t \in TaskId |-> NULL]
      /\ ready = [prio_list |-> [p \in Prio |-> <<>>], tree |-> {}]
      /\ gp_current_task = TID_NULL /\ g_num_active_tasks = 1
      /\ current_tid = 1 /\ heap = {}
      /\ boot_i = 0 /\ boot_left \in 0 .. MaxBootTasks
  BY DEF Init
<1>2. /\ TID_NULL \in TaskId /\ 0 \in Prio /\ PRIO_NULL \in Prio /\ 0 \in TaskId
      /\ MaxBootTasks \in Nat /\ TID_KCD \in TaskId
  BY TaskAssumption, BootAssumption DEF TID_NULL, TaskId, Prio, TID_KCD
<1>3. TypeOK
  BY <1>1, <1>2 DEF TypeOK
<1>4. ReadyQueueOK
  BY <1>1, StateAssumption DEF ReadyQueueOK, QueuedIsReady, ReadyIsQueued, TreeMatchesLists
<1>5. OneRunning /\ NullSchedulable /\ HighestPriorityRuns
  BY <1>1, <1>2, StateAssumption DEF OneRunning, NullSchedulable, HighestPriorityRuns
<1>6. ActiveCount
  <2>1. {t \in TaskId : state[t] # DORMANT} = {TID_NULL}
    BY <1>1, <1>2, StateAssumption
  <2> QED BY <1>1, <2>1, FS_Singleton DEF ActiveCount
<1>7. BootSlotsFree
  BY <1>1, <1>2, TaskAssumption DEF BootSlotsFree, TID_KCD, TID_NULL, TaskId
<1> QED BY <1>3, <1>4, <1>5, <1>6, <1>7 DEF TaskInv

LEMMA NextInv ==
  ASSUME TaskInv, [TaskNext]_taskVars
  PROVE  TaskInv'
<1>1. CASE Boot
  BY <1>1, BootStep DEF Boot
<1>2. CASE k_tsk_yield
  BY <1>2, YieldStep
<1>3. CASE Create
  BY <1>3, CreateStep DEF Create
<1>4. CASE k_tsk_exit
  BY <1>4, ExitStep
<1>5. CASE SetPrio
  BY <1>5, SetPrioStep DEF SetPrio
<1>6. CASE UNCHANGED taskVars
  BY <1>6 DEF taskVars, TaskInv, TypeOK, ReadyQueueOK, QueuedIsReady, ReadyIsQueued,
     TreeMatchesLists, OneRunning, NullSchedulable, ActiveCount, HighestPriorityRuns,
     BootSlotsFree, Booted
<1> QED BY <1>1, <1>2, <1>3, <1>4, <1>5, <1>6 DEF TaskNext

-----------------------------------------------------------------------------
(* Stacks and mailboxes.  This part is stated for tasks with mailboxes,    *)
(* which they only get from k_mbx_create (KMsg).                           *)

\* The live tasks whose TCB points at a mailbox.  k_tsk_exit leaves the pointer
\* in the TCB, so nothing can be said of the others.
Owners == {t \in TaskId : state[t] # DORMANT /\ mbx[t] # NULL}

\* The blocks live tasks own are allocated and have one owner and one use, and
\* every allocated block has an owner.
BlocksOwned ==
  /\ \A t \in UserTasks : usp[t] \in heap
  /\ \A t, u \in UserTasks : usp[t] = usp[u] => t = u
  /\ \A t \in Owners : mbx[t] \in heap
  /\ \A t, u \in Owners : mbx[t] = mbx[u] => t = u
  /\ \A t \in Owners, u \in UserTasks : mbx[t] # usp[u]
  /\ \A b \in heap : (\E t \in UserTasks : usp[t] = b) \/ (\E t \in Owners : mbx[t] = b)

\* No TCB points at a mailbox: so it is until boot ends, and as long as nobody
\* creates one.
NoMailboxes == \A t \in TaskId : mbx[t] = NULL

\* What a step that ends nobody and creates nobody does to the live tasks: nothing.
SameLive == \A t \in TaskId : state'[t] = DORMANT <=> state[t] = DORMANT

LEMMA BlocksKept ==
  ASSUME BlocksOwned, SameLive, UNCHANGED <<priv, usp, mbx, heap>>
  PROVE  BlocksOwned'
<1>1. UserTasks' = UserTasks /\ Owners' = Owners
  BY DEF UserTasks, Owners, SameLive
<1> QED BY <1>1 DEF BlocksOwned

\* A slot without a mailbox is taken: by a privileged task without a stack of its
\* own, or by a user task with a block that was free.
LEMMA BlocksOfNewTask ==
  ASSUME TaskInv, BlocksOwned, NEW tid \in TaskId, NEW v \in {0, 1},
         state[tid] = DORMANT, mbx[tid] = NULL,
         \A t \in TaskId : state'[t] = DORMANT <=> state[t] = DORMANT /\ t # tid,
         priv' = [priv EXCEPT ![tid] = v], UNCHANGED mbx,
         \/ v = 1 /\ UNCHANGED <<usp, heap>>
         \/ v = 0 /\ k_alloc_p_stack(tid)
  PROVE  BlocksOwned'
<1>1. /\ priv \in [TaskId -> {0, 1}] /\ usp \in [TaskId -> Block \cup {NULL}]
      /\ mbx \in [TaskId -> Block \cup {NULL}] /\ heap \subseteq Block
  BY DEF TaskInv, TypeOK
<1>2. tid \notin UserTasks /\ Owners' = Owners
  BY DEF UserTasks, Owners
<1>3. CASE v = 1 /\ UNCHANGED <<usp, heap>>
  <2>1. UserTasks' = UserTasks
    BY <1>1, <1>2, <1>3 DEF UserTasks
  <2> QED BY <1>2, <1>3, <2>1 DEF BlocksOwned
<1>4. CASE v = 0 /\ k_alloc_p_stack(tid)
  <2>1. PICK b \in Block \ heap : heap' = heap \cup {b} /\ usp' = [usp EXCEPT ![tid] = b]
    BY <1>4 DEF k_alloc_p_stack, k_mem_alloc_with_tid
  <2>2. UserTasks' = UserTasks \cup {tid}
    BY <1>1, <1>2, <1>4 DEF UserTasks
  <2>3. usp'[tid] = b /\ \A t \in UserTasks : usp'[t] = usp[t] /\ usp[t] # b
    BY <1>1, <1>2, <2>1 DEF BlocksOwned, UserTasks
  <2>4. \A t \in Owners : mbx[t] # b
    BY <2>1 DEF BlocksOwned
  <2> QED BY <1>2, <2>1, <2>2, <2>3, <2>4 DEF BlocksOwned
<1> QED BY <1>3, <1>4

\* A boot entry that is skipped has written into an unused TCB only.
LEMMA BlocksOfSkippedTask ==
  ASSUME TaskInv, BlocksOwned, NEW tid \in TaskId, NEW v \in {0, 1},
         state[tid] = DORMANT, priv' = [priv EXCEPT ![tid] = v],
         UNCHANGED <<state, usp, mbx, heap>>
  PROVE  BlocksOwned'
<1>1. UserTasks' = UserTasks /\ Owners' = Owners
  BY DEF UserTasks, Owners, TaskInv, TypeOK
<1> QED BY <1>1 DEF BlocksOwned

\* An ending task gives back what it had: its stack and its mailbox.
LEMMA BlocksOfEndedTask ==
  ASSUME TaskInv, BlocksOwned, NEW cur \in TaskId, state[cur] # DORMANT,
         \A t \in TaskId : state'[t] = DORMANT <=> state[t] = DORMANT \/ t = cur,
         UNCHANGED <<priv, usp, mbx>>, heap' = heap \ FreedByExit(cur)
  PROVE  BlocksOwned'
<1>1. UserTasks' = UserTasks \ {cur} /\ Owners' = Owners \ {cur}
  BY DEF UserTasks, Owners
<1>2. heap \subseteq Block
  BY DEF TaskInv, TypeOK
<1>3. \A b : b \in heap' <=> /\ b \in heap
                            /\ ~(cur \in UserTasks /\ b = usp[cur])
                            /\ ~(cur \in Owners /\ b = mbx[cur])
  BY <1>2, NullAssumption DEF FreedByExit, UserTasks, Owners, TaskInv, TypeOK
<1>4. \A t \in UserTasks' : usp[t] \in heap'
  BY <1>1, <1>3 DEF BlocksOwned
<1>5. \A t \in Owners' : mbx[t] \in heap'
  BY <1>1, <1>3 DEF BlocksOwned
<1>6. \A b \in heap' : (\E t \in UserTasks' : usp[t] = b) \/ (\E t \in Owners' : mbx[t] = b)
  BY <1>1, <1>3 DEF BlocksOwned
<1> QED BY <1>1, <1>4, <1>5, <1>6 DEF BlocksOwned

\* The system calls and the boot loop.
LEMMA BootBlocks ==
  ASSUME TaskInv, BlocksOwned, NoMailboxes, Boot
  PROVE  BlocksOwned'
<1>1. PICK kcd \in BOOLEAN, p \in Prio, v \in {0, 1} : BootTask(kcd, p, v)
  BY DEF Boot
<1> DEFINE tid == BootSlot(kcd)
<1>2. tid \in TaskId /\ state[tid] = DORMANT /\ mbx[tid] = NULL
  BY <1>1, BootSlotDormant DEF NoMailboxes
<1>3. /\ priv' = [priv EXCEPT ![tid] = v] /\ UNCHANGED mbx
      /\ \/ v = 1 /\ BootCreate(tid, p) /\ UNCHANGED <<usp, heap>>
         \/ v = 0 /\ k_alloc_p_stack(tid) /\ BootCreate(tid, p)
         \/ UNCHANGED <<state, usp, heap>>
  BY <1>1 DEF BootTask, BootSlot
<1> HIDE DEF tid
<1>4. CASE BootCreate(tid, p)
  <2>1. \A t \in TaskId : state'[t] = DORMANT <=> state[t] = DORMANT /\ t # tid
    BY <1>2, <1>4, StateAssumption DEF BootCreate, TaskInv, TypeOK
  <2>2. CASE v = 1 /\ UNCHANGED <<usp, heap>>
    BY <1>2, <1>3, <2>1, <2>2, BlocksOfNewTask
  <2>3. CASE v = 0 /\ k_alloc_p_stack(tid)
    BY <1>2, <1>3, <2>1, <2>3, BlocksOfNewTask
  <2>4. CASE UNCHANGED <<state, usp, heap>>
    BY <1>2, <1>3, <2>4, BlocksOfSkippedTask
  <2> QED BY <1>3, <2>2, <2>3, <2>4
<1>5. CASE UNCHANGED <<state, usp, heap>>
  BY <1>2, <1>3, <1>5, BlocksOfSkippedTask
<1> QED BY <1>3, <1>4, <1>5

LEMMA CreateBlocks ==
  ASSUME TaskInv, BlocksOwned, mbx[FreeSlot] = NULL, Create
  PROVE  BlocksOwned'
<1>1. PICK p \in Prio : k_tsk_create(p)
  BY DEF Create
<1>2. FreeSlot \in TaskId /\ state[FreeSlot] = DORMANT
  BY <1>1, FreeSlotIsDormant DEF k_tsk_create
<1>3. /\ k_alloc_p_stack(FreeSlot) /\ priv' = [priv EXCEPT ![FreeSlot] = 0]
      /\ UNCHANGED mbx
  BY <1>1 DEF k_tsk_create
<1>4. \A t \in TaskId : state'[t] = DORMANT <=> state[t] = DORMANT /\ t # FreeSlot
  <2>1. Kept([state EXCEPT ![FreeSlot] = READY])
    BY <1>1, CreateStep
  <2> QED BY <1>2, <2>1, StateAssumption DEF Kept, TaskInv, TypeOK
<1> QED BY <1>2, <1>3, <1>4, BlocksOfNewTask

LEMMA ExitBlocks ==
  ASSUME TaskInv, BlocksOwned, k_tsk_exit
  PROVE  BlocksOwned'
<1>1. gp_current_task \in TaskId /\ state[gp_current_task] # DORMANT
  BY StateAssumption DEF TaskInv, TypeOK, OneRunning
<1>2. /\ UNCHANGED <<priv, usp, mbx>>
      /\ heap' = heap \ FreedByExit(gp_current_task)
  BY DEF k_tsk_exit
<1>3. \A t \in TaskId : state'[t] = DORMANT <=> state[t] = DORMANT \/ t = gp_current_task
  <2>1. Kept([state EXCEPT ![gp_current_task] = DORMANT])
    BY ExitStep
  <2> QED BY <1>1, <2>1 DEF Kept, TaskInv, TypeOK
<1> QED BY <1>1, <1>2, <1>3, BlocksOfEndedTask

LEMMA YieldBlocks ==
  ASSUME TaskInv, BlocksOwned, k_tsk_yield
  PROVE  BlocksOwned'
<1>1. SameLive
  BY YieldStep DEF Kept, SameLive
<1> QED BY <1>1, BlocksKept DEF k_tsk_yield

LEMMA SetPrioBlocks ==
  ASSUME TaskInv, BlocksOwned, SetPrio
  PROVE  BlocksOwned'
<1>1. PICK t \in TaskId, p \in Prio : k_tsk_set_prio(t, p)
  BY DEF SetPrio
<1>2. SameLive
  BY <1>1, SetPrioStep DEF Kept, SameLive
<1> QED BY <1>1, <1>2, BlocksKept DEF k_tsk_set_prio

LEMMA NextBlocks ==
  ASSUME TaskInv, BlocksOwned, NoMailboxes, [TaskNext]_taskVars
  PROVE  BlocksOwned' /\ NoMailboxes'
<1>1. UNCHANGED mbx
  BY DEF TaskNext, taskVars, Boot, BootTask, k_tsk_yield, Create, k_tsk_create,
         k_tsk_exit, SetPrio, k_tsk_set_prio
<1>2. NoMailboxes'
  BY <1>1 DEF NoMailboxes
<1>3. CASE Create
  <2>1. FreeSlot \in TaskId
    BY <1>3, FreeSlotIsDormant DEF Create, k_tsk_create
  <2>2. mbx[FreeSlot] = NULL
    BY <2>1 DEF NoMailboxes
  <2> QED BY <1>2, <1>3, <2>2, CreateBlocks
<1>4. CASE UNCHANGED taskVars
  BY <1>2, <1>4, BlocksKept DEF taskVars, SameLive
<1> QED BY <1>2, <1>3, <1>4, BootBlocks, ExitBlocks, YieldBlocks, SetPrioBlocks DEF TaskNext

LEMMA InitBlocks ==
  ASSUME Init
  PROVE  BlocksOwned /\ NoMailboxes
<1>1. UserTasks = {}
  BY StateAssumption DEF Init, UserTasks
<1>2. \A t \in TaskId : mbx[t] = NULL
  BY DEF Init
<1>3. Owners = {}
  BY <1>2 DEF Owners
<1> QED BY <1>1, <1>2, <1>3 DEF Init, BlocksOwned, NoMailboxes

-----------------------------------------------------------------------------
(* First come, first served.                                               *)

\* The tasks in front of t in the list q.
AheadIn(q, t) == {q[j] : j \in {k \in DOMAIN q : \A i \in 1 .. k : q[i] # t}}

\* Nobody who was not in front of t in q is in front of it in r.
NoneCutsIn(q, r, t) == AheadIn(r, t) \subseteq AheadIn(q, t)

LEMMA AppendOrder ==
  ASSUME NEW q, NEW T, ListOf(q, T), NEW t \in T, NEW u \in TaskId
  PROVE  NoneCutsIn(q, Append(q, u), t)
<1>1. q \in Seq(TaskId) /\ Len(q) \in Nat /\ DOMAIN q = 1 .. Len(q)
  BY DEF ListOf
<1>2. /\ DOMAIN Append(q, u) = 1 .. Len(q) + 1
      /\ \A i \in 1 .. Len(q) : Append(q, u)[i] = q[i]
  BY <1>1
<1>3. PICK m \in 1 .. Len(q) : q[m] = t
  BY DEF ListOf
<1>4. ASSUME NEW k \in 1 .. Len(q) + 1, \A i \in 1 .. k : Append(q, u)[i] # t
      PROVE  Append(q, u)[k] \in AheadIn(q, t)
  <2>1. k <= Len(q)
    BY <1>1, <1>2, <1>3, <1>4
  <2>2. k \in DOMAIN q /\ \A i \in 1 .. k : q[i] # t
    BY <1>1, <1>2, <1>4, <2>1
  <2> QED BY <1>1, <1>2, <2>2 DEF AheadIn
<1> QED BY <1>2, <1>4 DEF AheadIn, NoneCutsIn

LEMMA TailOrder ==
  ASSUME NEW q, NEW T, ListOf(q, T), q # <<>>, NEW t, t # Head(q)
  PROVE  NoneCutsIn(q, Tail(q), t)
<1>1. /\ q \in Seq(TaskId) /\ Len(q) \in Nat \ {0} /\ DOMAIN q = 1 .. Len(q)
      /\ Head(q) = q[1]
  BY EmptySeq DEF ListOf
<1>2. /\ DOMAIN Tail(q) = 1 .. Len(q) - 1
      /\ \A i \in 1 .. Len(q) - 1 : Tail(q)[i] = q[i + 1]
  BY <1>1, HeadTailProperties
<1>3. ASSUME NEW k \in 1 .. Len(q) - 1, \A i \in 1 .. k : Tail(q)[i] # t
      PROVE  Tail(q)[k] \in AheadIn(q, t)
  <2>1. ASSUME NEW i \in 1 .. k + 1
        PROVE  q[i] # t
    <3>1. CASE i = 1
      BY <1>1, <3>1
    <3>2. CASE i # 1
      <4>1. i - 1 \in 1 .. k /\ i - 1 \in 1 .. Len(q) - 1 /\ (i - 1) + 1 = i
        BY <1>1, <3>2
      <4>2. Tail(q)[i - 1] = q[i]
        BY <1>2, <4>1
      <4> QED BY <1>3, <4>1, <4>2
    <3> QED BY <3>1, <3>2
  <2>2. k + 1 \in DOMAIN q /\ Tail(q)[k] = q[k + 1]
    BY <1>1, <1>2
  <2> QED BY <2>1, <2>2 DEF AheadIn
<1> QED BY <1>2, <1>3 DEF AheadIn, NoneCutsIn

LEMMA RemoveOrder ==
  ASSUME NEW q, NEW T, ListOf(q, T), NEW u \in T, NEW t, t # u
  PROVE  NoneCutsIn(q, RemoveAt(q, Position(q, u)), t)
<1>1. PICK m \in 1 .. Len(q) : m = Position(q, u) /\ q[m] = u
  BY PositionProperties
<1>2. PICK r : r = RemoveAt(q, m)
  OBVIOUS
<1>3. /\ q \in Seq(TaskId) /\ Len(q) \in Nat /\ DOMAIN q = 1 .. Len(q)
      /\ m \in Nat /\ 1 <= m /\ m <= Len(q)
  BY DEF ListOf
<1>4. /\ DOMAIN r = 1 .. Len(q) - 1
      /\ \A i \in 1 .. Len(q) - 1 : r[i] = IF i < m THEN q[i] ELSE q[i + 1]
  <2>1. /\ RemoveAt(q, m) \in Seq(TaskId) /\ Len(RemoveAt(q, m)) = Len(q) - 1
        /\ \A i \in 1 .. Len(q) - 1 :
              RemoveAt(q, m)[i] = IF i < m THEN q[i] ELSE q[i + 1]
    BY <1>3, RemoveAtProperties
  <2>2. DOMAIN r = 1 .. Len(r)
    BY <1>2, <2>1, LenProperties
  <2> QED BY <1>2, <2>1, <2>2
<1>5. ASSUME NEW k \in 1 .. Len(q) - 1, \A i \in 1 .. k : r[i] # t
      PROVE  r[k] \in AheadIn(q, t)
  <2> DEFINE n == IF k < m THEN k ELSE k + 1
  <2>1. n \in 1 .. Len(q) /\ r[k] = q[n]
    BY <1>3, <1>4
  <2>2. ASSUME NEW i \in 1 .. n
        PROVE  q[i] # t
    <3>1. CASE i < m
      <4>1. i \in 1 .. k /\ i \in 1 .. Len(q) - 1
        BY <1>3, <3>1
      <4> QED BY <1>4, <1>5, <3>1, <4>1
    <3>2. CASE i = m
      BY <1>1, <3>2
    <3>3. CASE m < i
      <4>1. i - 1 \in 1 .. k /\ i - 1 \in 1 .. Len(q) - 1 /\ (i - 1) + 1 = i /\ ~(i - 1 < m)
        BY <1>3, <3>3
      <4>2. r[i - 1] = q[i]
        BY <1>4, <4>1
      <4> QED BY <1>5, <4>1, <4>2
    <3> QED BY <1>3, <3>1, <3>2, <3>3
  <2> QED BY <1>3, <2>1, <2>2 DEF AheadIn
<1>6. NoneCutsIn(q, r, t)
  BY <1>4, <1>5 DEF AheadIn, NoneCutsIn
<1> QED BY <1>1, <1>2, <1>6

\* The same for the list of priority p in two queues.
InOrder(rq, rq2, p, t) == NoneCutsIn(rq.prio_list[p], rq2.prio_list[p], t)

LEMMA SameOrder ==
  ASSUME NEW rq, NEW rq2, NEW p, NEW t, rq2.prio_list[p] = rq.prio_list[p]
  PROVE  InOrder(rq, rq2, p, t)
BY DEF InOrder, NoneCutsIn

LEMMA OrderTransitive ==
  ASSUME NEW rq, NEW rq2, NEW rq3, NEW p, NEW t,
         InOrder(rq, rq2, p, t), InOrder(rq2, rq3, p, t)
  PROVE  InOrder(rq, rq3, p, t)
BY DEF InOrder, NoneCutsIn

LEMMA InsertOrder ==
  ASSUME NEW rq, NEW pr \in [TaskId -> Prio], NEW S \in SUBSET TaskId, Queues(rq, pr, S),
         NEW t \in S, NEW u \in TaskId, NEW p \in Prio
  PROVE  InOrder(rq, pl_insert(rq, u, p), pr[t], t)
<1>1. /\ pr[t] \in Prio /\ t \in At(S, pr, pr[t])
      /\ rq.prio_list \in [Prio -> Seq(TaskId)]
  BY DEF At, Queues
<1>2. ListOf(rq.prio_list[pr[t]], At(S, pr, pr[t]))
  BY <1>1 DEF Queues
<1>3. pl_insert(rq, u, p).prio_list = [rq.prio_list EXCEPT ![p] = Append(@, u)]
  BY DEF pl_insert
<1>4. CASE p = pr[t]
  <2>1. pl_insert(rq, u, p).prio_list[pr[t]] = Append(rq.prio_list[pr[t]], u)
    BY <1>1, <1>3, <1>4
  <2>2. NoneCutsIn(rq.prio_list[pr[t]], Append(rq.prio_list[pr[t]], u), t)
    BY <1>1, <1>2, AppendOrder
  <2> QED BY <2>1, <2>2 DEF InOrder
<1>5. CASE p # pr[t]
  BY <1>1, <1>3, <1>5, SameOrder
<1> QED BY <1>4, <1>5

LEMMA PopOrder ==
  ASSUME NEW rq, NEW pr, NEW S, Queues(rq, pr, S),
         NEW p \in Prio, rq.prio_list[p] # <<>>, NEW t, t # Head(rq.prio_list[p]),
         NEW q \in Prio
  PROVE  InOrder(rq, pl_pop_min(rq, p), q, t)
<1>1. ListOf(rq.prio_list[p], At(S, pr, p)) /\ rq.prio_list \in [Prio -> Seq(TaskId)]
  BY DEF Queues
<1>2. pl_pop_min(rq, p).prio_list = [rq.prio_list EXCEPT ![p] = Tail(@)]
  BY DEF pl_pop_min
<1>3. CASE p = q
  <2>1. pl_pop_min(rq, p).prio_list[q] = Tail(rq.prio_list[q])
    BY <1>1, <1>2, <1>3
  <2>2. NoneCutsIn(rq.prio_list[q], Tail(rq.prio_list[q]), t)
    BY <1>1, <1>3, TailOrder
  <2> QED BY <2>1, <2>2 DEF InOrder
<1>4. CASE p # q
  BY <1>1, <1>2, <1>4, SameOrder
<1> QED BY <1>3, <1>4

LEMMA UnlinkOrder ==
  ASSUME NEW rq, NEW pr \in [TaskId -> Prio], NEW S \in SUBSET TaskId, Queues(rq, pr, S),
         NEW u \in S, NEW t, t # u, NEW q \in Prio
  PROVE  InOrder(rq, pl_remove(rq, u, pr[u]), q, t)
<1> DEFINE p == pr[u]
           l == rq.prio_list[p]
<1>1. p \in Prio /\ u \in At(S, pr, p) /\ ListOf(l, At(S, pr, p)) /\ l # <<>>
  <2>1. p \in Prio /\ u \in At(S, pr, p)
    BY DEF At
  <2>2. ListOf(l, At(S, pr, p))
    BY <2>1 DEF Queues
  <2> QED BY <2>1, <2>2, EmptyList
<1>2. CASE Head(l) = u
  <2>1. pl_remove(rq, u, p) = pl_pop_min(rq, p)
    BY <1>2 DEF pl_remove
  <2>2. InOrder(rq, pl_pop_min(rq, p), q, t)
    BY <1>1, <1>2, PopOrder
  <2> QED BY <2>1, <2>2
<1>3. CASE Head(l) # u
  <2>1. u \in ToSet(l)
    BY <1>1, RemoveList
  <2>2. /\ rq = [prio_list |-> rq.prio_list, tree |-> rq.tree]
        /\ rq.prio_list \in [Prio -> Seq(TaskId)]
    BY DEF Queues
  <2>3. pl_remove(rq, u, p).prio_list = [rq.prio_list EXCEPT ![p] = RemoveAt(l, Position(l, u))]
    BY <1>1, <1>3, <2>1, <2>2 DEF pl_remove
  <2>4. CASE p = q
    <3>1. pl_remove(rq, u, p).prio_list[q] = RemoveAt(l, Position(l, u))
      BY <2>2, <2>3, <2>4
    <3>2. NoneCutsIn(l, RemoveAt(l, Position(l, u)), t)
      BY <1>1, RemoveOrder
    <3> QED BY <2>4, <3>1, <3>2 DEF InOrder
  <2>5. CASE p # q
    BY <2>2, <2>3, <2>5, SameOrder
  <2> QED BY <2>4, <2>5
<1> QED BY <1>2, <1>3

\* The scheduler puts nobody in front of a task it leaves waiting.
LEMMA RunNewOrder ==
  ASSUME NEW rq, NEW st, NEW pr, Prepared(rq, st, pr), k_tsk_run_new(rq, st, pr),
         NEW t \in ReadySet(st), t # gp_current_task'
  PROVE  InOrder(rq, ready', pr[t], t)
<1> DEFINE cur == gp_current_task
           min == rb_min(rq.tree)
           S == ReadySet(st)
           all == IF Runnable(st, cur) THEN pl_insert(rq, cur, pr[cur]) ELSE rq
           Q == IF Runnable(st, cur) THEN S \cup {cur} ELSE S
<1>1. /\ S \in SUBSET TaskId /\ pr \in [TaskId -> Prio] /\ cur \in TaskId
      /\ Queues(rq, pr, S) /\ cur \notin S /\ pr[t] \in Prio /\ pr[cur] \in Prio
  BY DEF Prepared, ReadySet
<1>2. CASE rq.tree = {} \/ (pr[cur] < min /\ Runnable(st, cur))
  <2>1. ready' = rq
    BY <1>2 DEF k_tsk_run_new, scheduler
  <2> QED BY <2>1, SameOrder
<1>3. CASE ~(rq.tree = {} \/ (pr[cur] < min /\ Runnable(st, cur)))
  <2>1. ready' = pl_pop_min(all, min) /\ gp_current_task' = Head(all.prio_list[min])
    BY <1>3 DEF k_tsk_run_new, scheduler
  <2>2. min \in rq.tree /\ min \in Prio
    BY <1>1, <1>3, RbMin DEF Queues
  <2>3. Queues(all, pr, Q) /\ InOrder(rq, all, pr[t], t)
    <3>1. CASE Runnable(st, cur)
      BY <1>1, <3>1, InsertQueues, InsertOrder
    <3>2. CASE ~Runnable(st, cur)
      BY <1>1, <3>2, SameOrder
    <3> QED BY <3>1, <3>2
  <2>4. all.prio_list[min] # <<>>
    <3>1. rq.prio_list[min] # <<>>
      BY <1>1, <2>2 DEF Queues
    <3>2. ListOf(rq.prio_list[min], At(S, pr, min)) /\ ListOf(all.prio_list[min], At(Q, pr, min))
      BY <1>1, <2>2, <2>3 DEF Queues
    <3>3. At(S, pr, min) # {} /\ At(S, pr, min) \subseteq At(Q, pr, min)
      BY <3>1, <3>2, EmptyList DEF At
    <3> QED BY <3>2, <3>3, EmptyList
  <2> HIDE DEF all, min, Q
  <2>5. InOrder(all, pl_pop_min(all, min), pr[t], t)
    BY <1>1, <2>1, <2>2, <2>3, <2>4, PopOrder
  <2> QED BY <2>1, <2>3, <2>5, OrderTransitive
<1> QED BY <1>2, <1>3

LEMMA WrapperOrder ==
  ASSUME NEW rq, NEW st, NEW pr, NEW strict, Prepared(rq, st, pr),
         run_new_wrapper(strict, rq, st, pr),
         NEW t \in ReadySet(st), t # gp_current_task'
  PROVE  InOrder(rq, ready', pr[t], t)
<1>1. CASE k_tsk_run_new(rq, st, pr)
  BY <1>1, RunNewOrder
<1>2. CASE ready' = rq
  BY <1>2, SameOrder
<1> QED BY <1>1, <1>2 DEF run_new_wrapper

\* What FCFS says of one step.
InTurn ==
  \A t \in TaskId :
    state[t] = READY /\ state'[t] = READY /\ prio'[t] = prio[t]
      => Ahead(t)' \subseteq Ahead(t) \/ \E p \in Prio : k_tsk_set_prio(t, p)

\* Waiting tasks keep their turn if nobody gets in front of them while the call
\* prepares the queue rq, from which the scheduler then chose.
LEMMA DispatchInTurn ==
  ASSUME OneRunning', NEW rq, NEW st, NEW pr, prio' = pr, Prepared(rq, st, pr),
         (\E strict \in BOOLEAN : run_new_wrapper(strict, rq, st, pr))
           \/ k_tsk_run_new(rq, st, pr),
         NEW t \in TaskId, state'[t] = READY, st[t] = READY, prio'[t] = prio[t],
         InOrder(ready, rq, prio[t], t)
  PROVE  Ahead(t)' \subseteq Ahead(t)
<1>1. t \in ReadySet(st) /\ pr[t] = prio[t]
  BY DEF ReadySet
<1>2. t # gp_current_task'
  BY StateAssumption DEF OneRunning
<1>3. InOrder(rq, ready', prio[t], t)
  BY <1>1, <1>2, WrapperOrder, RunNewOrder
<1>4. InOrder(ready, ready', prio[t], t)
  BY <1>3, OrderTransitive
<1> QED BY <1>4 DEF InOrder, NoneCutsIn, AheadIn, Ahead

LEMMA YieldInTurn ==
  ASSUME TaskInv, k_tsk_yield
  PROVE  InTurn
<1>1. Prepared(ready, state, prio) /\ OneRunning'
  BY RunningPrepared, YieldStep DEF TaskInv
<1>2. run_new_wrapper(TRUE, ready, state, prio) /\ prio' = prio
  BY DEF k_tsk_yield
<1>3. \A t \in TaskId : InOrder(ready, ready, prio[t], t)
  BY SameOrder
<1> QED BY <1>1, <1>2, <1>3, DispatchInTurn DEF InTurn

LEMMA ExitInTurn ==
  ASSUME TaskInv, k_tsk_exit
  PROVE  InTurn
<1> DEFINE st == [state EXCEPT ![gp_current_task] = DORMANT]
<1>1. Prepared(ready, st, prio) /\ OneRunning'
  BY ExitPrepared, ExitStep DEF TaskInv
<1>2. run_new_wrapper(FALSE, ready, st, prio) /\ prio' = prio
  BY DEF k_tsk_exit
<1>3. \A t \in TaskId : InOrder(ready, ready, prio[t], t)
  BY SameOrder
<1>4. \A t \in TaskId : state[t] = READY => st[t] = READY
  BY StateAssumption DEF TaskInv, TypeOK, OneRunning
<1> QED BY <1>1, <1>2, <1>3, <1>4, DispatchInTurn DEF InTurn

LEMMA CreateInTurn ==
  ASSUME TaskInv, NEW p \in Prio, k_tsk_create(p)
  PROVE  InTurn
<1> DEFINE tid == FreeSlot
           st == [state EXCEPT ![tid] = READY]
           pr == [prio EXCEPT ![tid] = p]
           rq == pl_insert(ready, tid, p)
<1>1. Prepared(rq, st, pr) /\ OneRunning'
  BY CreatePrepared, CreateStep DEF TaskInv
<1>2. /\ run_new_wrapper(FALSE, rq, st, pr) /\ prio' = pr
      /\ tid \in TaskId
  BY FreeSlotIsDormant DEF k_tsk_create
<1>3. Queues(ready, prio, ReadySet(state)) /\ ReadySet(state) \in SUBSET TaskId
      /\ prio \in [TaskId -> Prio]
  BY QueuesReady DEF TaskInv, TypeOK, ReadySet
<1> HIDE DEF tid
<1>4. ASSUME NEW t \in TaskId, state[t] = READY
      PROVE  InOrder(ready, rq, prio[t], t) /\ st[t] = READY
  <2>1. t \in ReadySet(state)
    BY <1>4 DEF ReadySet
  <2>2. InOrder(ready, rq, prio[t], t)
    BY <1>2, <1>3, <2>1, InsertOrder
  <2>3. st[t] = READY
    BY <1>2, <1>4 DEF TaskInv, TypeOK
  <2> QED BY <2>2, <2>3
<1> HIDE DEF st, pr, rq
<1> QED BY <1>1, <1>2, <1>4, DispatchInTurn DEF InTurn

LEMMA SetPrioInTurn ==
  ASSUME TaskInv, NEW u \in TaskId, NEW p \in Prio, k_tsk_set_prio(u, p)
  PROVE  InTurn
<1> DEFINE pr == [prio EXCEPT ![u] = p]
           out == pl_remove(ready, u, prio[u])
           requeued == IF state[u] = READY THEN pl_insert(out, u, p) ELSE ready
<1>1. /\ prio' = pr
      /\ \/ u = gp_current_task /\ run_new_wrapper(TRUE, ready, state, pr)
         \/ u # gp_current_task /\ run_new_wrapper(FALSE, requeued, state, pr)
  BY DEF k_tsk_set_prio
<1>2. /\ OneRunning'
      /\ u = gp_current_task => Prepared(ready, state, pr)
      /\ u # gp_current_task => Prepared(requeued, state, pr)
  BY SetPrioPrepared, SetPrioStep DEF TaskInv
<1>3. /\ Queues(ready, prio, ReadySet(state)) /\ ReadySet(state) \in SUBSET TaskId
      /\ prio \in [TaskId -> Prio]
  BY QueuesReady DEF TaskInv, TypeOK, ReadySet
<1> SUFFICES ASSUME NEW t \in TaskId, t # u,
                    state[t] = READY, state'[t] = READY, prio'[t] = prio[t]
             PROVE  Ahead(t)' \subseteq Ahead(t)
  BY DEF InTurn
<1>4. InOrder(ready, requeued, prio[t], t)
  <2>1. t \in ReadySet(state) /\ prio[t] \in Prio
    BY <1>3 DEF ReadySet
  <2>2. CASE state[u] = READY
    <3>1. u \in ReadySet(state)
      BY <2>2 DEF ReadySet
    <3>2. InOrder(ready, out, prio[t], t)
      BY <1>3, <2>1, <3>1, UnlinkOrder
    <3>3. Queues(out, prio, ReadySet(state) \ {u})
      BY <1>3, <3>1, RemoveQueues
    <3> HIDE DEF out
    <3>4. InOrder(out, pl_insert(out, u, p), prio[t], t)
      <4>1. t \in ReadySet(state) \ {u} /\ ReadySet(state) \ {u} \in SUBSET TaskId
        BY <1>3, <2>1
      <4> QED BY <1>3, <3>3, <4>1, InsertOrder
    <3> QED BY <2>2, <3>2, <3>4, OrderTransitive
  <2>3. CASE state[u] # READY
    BY <2>3, SameOrder
  <2> QED BY <2>2, <2>3
<1>5. InOrder(ready, ready, prio[t], t)
  BY SameOrder
<1> HIDE DEF requeued, pr
<1>6. CASE u = gp_current_task
  BY <1>1, <1>2, <1>5, <1>6, DispatchInTurn
<1>7. CASE u # gp_current_task
  BY <1>1, <1>2, <1>4, <1>7, DispatchInTurn
<1> QED BY <1>6, <1>7

LEMMA BootInTurn ==
  ASSUME TaskInv, Boot
  PROVE  InTurn
<1>1. PICK kcd \in BOOLEAN, p \in Prio, v \in {0, 1} : BootTask(kcd, p, v)
  BY DEF Boot
<1> DEFINE tid == BootSlot(kcd)
<1>2. tid \in TaskId /\ state[tid] = DORMANT
  BY <1>1, BootSlotDormant
<1>3. /\ prio' = [prio EXCEPT ![tid] = p]
      /\ ready' \in {ready, pl_insert(ready, tid, p)}
  BY <1>1 DEF BootTask, BootCreate, BootSlot
<1>4. /\ Queues(ready, prio, ReadySet(state)) /\ ReadySet(state) \in SUBSET TaskId
      /\ prio \in [TaskId -> Prio]
  BY QueuesReady DEF TaskInv, TypeOK, ReadySet
<1>5. ASSUME NEW t \in TaskId, state[t] = READY, prio'[t] = prio[t]
      PROVE  Ahead(t)' \subseteq Ahead(t)
  <2>1. t \in ReadySet(state)
    BY <1>5 DEF ReadySet
  <2> HIDE DEF tid
  <2>2. InOrder(ready, pl_insert(ready, tid, p), prio[t], t)
    BY <1>2, <1>4, <2>1, InsertOrder
  <2>3. InOrder(ready, ready', prio[t], t)
    BY <1>3, <2>2, SameOrder
  <2> QED BY <1>5, <2>3 DEF InOrder, NoneCutsIn, AheadIn, Ahead
<1> QED BY <1>5 DEF InTurn

-----------------------------------------------------------------------------
(* The results.                                                            *)

\* The invariant holds of the task manager for any number of tasks, priorities
\* and blocks.
THEOREM TaskInvariant == TaskSpec => []TaskInv
BY InitInv, NextInv, PTL DEF TaskSpec

\* The variables keep their types: in particular g_num_active_tasks never goes
\* below zero, although k_tsk_exit decrements it without looking.
THEOREM TypeCorrect == TaskSpec => []TypeOK
<1>1. TaskInv => TypeOK
  BY DEF TaskInv
<1> QED BY <1>1, TaskInvariant, PTL

\* The linked lists, the tree of priorities and the states in the TCBs agree
\* after every call: no READY task is lost and none is linked twice.
THEOREM ReadyQueueCorrect == TaskSpec => []ReadyQueueOK
<1>1. TaskInv => ReadyQueueOK
  BY DEF TaskInv
<1> QED BY <1>1, TaskInvariant, PTL

\* Exactly the current task is RUNNING, so the CPU never goes to a DORMANT task.
THEOREM OneRunningCorrect == TaskSpec => []OneRunning
<1>1. TaskInv => OneRunning
  BY DEF TaskInv
<1> QED BY <1>1, TaskInvariant, PTL

\* The null task can always be scheduled, so the scheduler never has to return a
\* task that cannot run.
THEOREM NullAlwaysSchedulable == TaskSpec => []NullSchedulable
<1>1. TaskInv => NullSchedulable
  BY DEF TaskInv
<1> QED BY <1>1, TaskInvariant, PTL

\* The counter k_tsk_create relies on to find a free slot counts the live tasks.
THEOREM ActiveCountCorrect == TaskSpec => []ActiveCount
<1>1. TaskInv => ActiveCount
  BY DEF TaskInv
<1> QED BY <1>1, TaskInvariant, PTL

\* Once boot is over, every step leaves a most urgent task with the CPU: the
\* strict-priority scheduling common.h:72 names.
THEOREM StrictPriorityCorrect == TaskSpec => StrictPriority
<1>1. ASSUME TaskInv, TaskNext, Booted
      PROVE  \A t \in TaskId : state'[t] = READY => prio'[gp_current_task'] <= prio'[t]
  <2>1. MostUrgentRuns'
    <3>1. ~Boot
      BY <1>1 DEF Boot, BootTask, Booted
    <3>2. CASE k_tsk_yield
      BY <1>1, <3>2, YieldStep
    <3>3. CASE Create
      BY <1>1, <3>3, CreateStep DEF Create
    <3>4. CASE k_tsk_exit
      BY <1>1, <3>4, ExitStep
    <3>5. CASE SetPrio
      BY <1>1, <3>5, SetPrioStep DEF SetPrio
    <3> QED BY <1>1, <3>1, <3>2, <3>3, <3>4, <3>5 DEF TaskNext
  <2> QED BY <2>1 DEF MostUrgentRuns
<1>2. TaskInv /\ [TaskNext]_taskVars =>
        [Booted => \A t \in TaskId : state'[t] = READY => prio'[gp_current_task'] <= prio'[t]]_taskVars
  BY <1>1
<1> QED BY <1>2, TaskInvariant, PTL DEF TaskSpec, StrictPriority
\* Live user tasks have stacks of their own in allocated memory, however often
\* tasks end and slots and blocks are used again.
THEOREM StacksPrivateCorrect == TaskSpec => []StacksPrivate
<1>1. TaskInv /\ BlocksOwned => StacksPrivate
  BY DEF BlocksOwned, StacksPrivate
<1>2. Init => BlocksOwned /\ NoMailboxes
  BY InitBlocks
<1>3. /\ TaskInv /\ BlocksOwned /\ NoMailboxes /\ [TaskNext]_taskVars
      => BlocksOwned' /\ NoMailboxes'
  BY NextBlocks
<1> QED BY <1>1, <1>2, <1>3, TaskInvariant, PTL DEF TaskSpec

\* First come, first served at equal priority: no step lets a task in front of one
\* that keeps waiting at its priority, unless k_tsk_set_prio re-queues that task.
THEOREM FCFSCorrect == TaskSpec => FCFS
<1>1. TaskInv /\ [TaskNext]_taskVars => [InTurn]_taskVars
  <2>1. SUFFICES ASSUME TaskInv, TaskNext PROVE InTurn
    OBVIOUS
  <2>2. CASE Boot
    BY <2>1, <2>2, BootInTurn
  <2>3. CASE k_tsk_yield
    BY <2>1, <2>3, YieldInTurn
  <2>4. CASE Create
    BY <2>1, <2>4, CreateInTurn DEF Create
  <2>5. CASE k_tsk_exit
    BY <2>1, <2>5, ExitInTurn
  <2>6. CASE SetPrio
    BY <2>1, <2>6, SetPrioInTurn DEF SetPrio
  <2> QED BY <2>1, <2>2, <2>3, <2>4, <2>5, <2>6 DEF TaskNext
<1>2. FCFS <=> [][InTurn]_taskVars
  BY DEF FCFS, InTurn
<1> QED BY <1>1, <1>2, TaskInvariant, PTL DEF TaskSpec
=============================================================================
