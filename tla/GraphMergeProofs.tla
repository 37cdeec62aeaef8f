-------------------------- MODULE GraphMergeProofs --------------------------
(***************************************************************************)
(* The merge of the graphs of a paper's chunks, for all chunks and edges,  *)
(* and the semantic clustering of the merged graph, for all graphs and     *)
(* whatever the models answer.  Their loops are folds; the first part says *)
(* what a fold over a set or a sequence is, the later parts what each loop *)
(* of merge_graphs and of semantic_cluster_and_merge keeps.                *)
(***************************************************************************)
EXTENDS SemanticClustering, FiniteSetTheorems, WellFoundedInduction, TLAPS

LEMMA LeastOf ==
  ASSUME NEW T \in SUBSET Nat, T # {}
  PROVE  Min(T) \in T /\ \A y \in T : Min(T) <= y
<1> DEFINE R == OpToRel(<, Nat)
<1>1. IsWellFoundedOn(R, Nat)
  BY NatLessThanWellFounded
<1>2. \A x, y \in Nat : x < y => <<x, y>> \in R
  BY DEF OpToRel
<1> HIDE DEF R
<1>3. PICK x \in T : \A y \in T : ~(<<y, x>> \in R)
  BY <1>1, WFMin
<1>4. x \in T /\ \A y \in T : ~(y < x)
  BY <1>2, <1>3
<1>5. \A y \in T : x <= y
  BY <1>4
<1> QED
  BY <1>4, <1>5 DEF Min

-----------------------------------------------------------------------------
\* ---- Folds --------------------------------------------------------------
\* What holds at 0 and is handed on holds at every number.
LEMMA HandedOn ==
  ASSUME NEW P, 0 \in P, \A k \in Nat : k \in P => k + 1 \in P
  PROVE  Nat \subseteq P
<1> DEFINE T == {k \in Nat : k \notin P}
<1> SUFFICES ASSUME T # {}
             PROVE  FALSE
  OBVIOUS
<1>1. Min(T) \in T /\ \A y \in T : Min(T) <= y
  BY LeastOf
<1> DEFINE m == Min(T)
<1> HIDE DEF m
<1>2. m \in Nat /\ m \notin P /\ \A y \in T : m <= y
  BY <1>1 DEF m
<1>3. m # 0 /\ m - 1 \in Nat
  BY <1>2
<1>4. m - 1 \in P
  BY <1>2, <1>3
<1>5. (m - 1) + 1 \in P
  BY <1>3, <1>4
<1> QED
  BY <1>2, <1>5

\* The same for the steps of a loop of n passes.
LEMMA StepByStep ==
  ASSUME NEW n \in Nat, NEW P, 0 \in P, \A k \in 1..n : k - 1 \in P => k \in P
  PROVE  \A k \in 0..n : k \in P
<1> DEFINE Q == {k \in Nat : k <= n => k \in P}
<1>1. 0 \in Q
  OBVIOUS
<1>2. ASSUME NEW k \in Nat, k \in Q
      PROVE  k + 1 \in Q
  <2>1. CASE k + 1 <= n
    <3>1. k + 1 \in 1..n /\ (k + 1) - 1 = k /\ k \in P
      BY <1>2, <2>1
    <3> QED
      BY <3>1
  <2>2. CASE ~(k + 1 <= n)
    BY <2>2
  <2> QED
    BY <2>1, <2>2
<1> HIDE DEF Q
<1>3. Nat \subseteq Q
  BY <1>1, <1>2, HandedOn
<1> QED
  BY <1>3 DEF Q

\* The subsets of S that a fold meets: the function from them to the result of the fold.
FoldsTo(f, D, base, c, h) ==
    \A s \in D : f[s] = IF s = {} THEN base ELSE h[<<c[s], f[s \ {c[s]}]>>]

\* Small(S, k): the subsets of S of at most k elements.
Small(S, k) == {s \in SUBSET S : Cardinality(s) <= k}

LEMMA FoldOfSmall ==
  ASSUME NEW S, IsFiniteSet(S), NEW V, NEW base \in V, NEW c, \A s \in SUBSET S : s # {} => c[s] \in s,
         NEW h \in [S \X V -> V], NEW k \in Nat
  PROVE  \E f \in [Small(S, k) -> V] : FoldsTo(f, Small(S, k), base, c, h)
<1> DEFINE P == {j \in Nat : \E f \in [Small(S, j) -> V] : FoldsTo(f, Small(S, j), base, c, h)}
<1>0. \A s \in SUBSET S : IsFiniteSet(s) /\ Cardinality(s) \in Nat /\ (Cardinality(s) = 0 <=> s = {})
  BY FS_Subset, FS_CardinalityType, FS_EmptySet
<1>1. 0 \in P
  <2>1. \A s \in Small(S, 0) : s = {}
    BY <1>0 DEF Small
  <2>2. [s \in Small(S, 0) |-> base] \in [Small(S, 0) -> V]
    OBVIOUS
  <2>3. FoldsTo([s \in Small(S, 0) |-> base], Small(S, 0), base, c, h)
    BY <2>1 DEF FoldsTo
  <2> QED
    BY <2>2, <2>3
<1>2. ASSUME NEW j \in Nat, j \in P
      PROVE  j + 1 \in P
  <2>1. PICK f \in [Small(S, j) -> V] : FoldsTo(f, Small(S, j), base, c, h)
    BY <1>2
  <2> DEFINE next == [s \in Small(S, j + 1) |-> IF s = {} THEN base ELSE h[<<c[s], f[s \ {c[s]}]>>]]
  <2>2. ASSUME NEW s \in Small(S, j + 1), s # {}
        PROVE  s \ {c[s]} \in Small(S, j) /\ c[s] \in S
    <3>1. s \in SUBSET S /\ c[s] \in s
      BY <2>2 DEF Small
    <3>2. Cardinality(s \ {c[s]}) = Cardinality(s) - 1
      BY <1>0, <3>1, FS_RemoveElement
    <3> QED
      BY <1>0, <2>2, <3>1, <3>2 DEF Small
  <2>3. Small(S, j) \subseteq Small(S, j + 1)
    BY <1>0 DEF Small
  <2>4. \A s \in Small(S, j) : next[s] = f[s]
    BY <2>1, <2>3 DEF FoldsTo
  <2>5. next \in [Small(S, j + 1) -> V]
    <3>1. ASSUME NEW s \in Small(S, j + 1)
          PROVE  (IF s = {} THEN base ELSE h[<<c[s], f[s \ {c[s]}]>>]) \in V
      <4>1. CASE s = {}
        BY <4>1
      <4>2. CASE s # {}
        <5>1. f[s \ {c[s]}] \in V /\ c[s] \in S
          BY <2>2, <4>2
        <5> QED
          BY <4>2, <5>1
      <4> QED
        BY <4>1, <4>2
    <3> QED
      BY <3>1
  <2>6. FoldsTo(next, Small(S, j + 1), base, c, h)
    BY <2>2, <2>4 DEF FoldsTo
  <2> HIDE DEF next
  <2>7. \E g \in [Small(S, j + 1) -> V] : FoldsTo(g, Small(S, j + 1), base, c, h)
    BY <2>5, <2>6
  <2> QED
    BY <2>7
<1> HIDE DEF P
<1>3. Nat \subseteq P
  BY <1>1, <1>2, HandedOn
<1>4. k \in P
  BY <1>3
<1> QED
  BY <1>4 DEF P

\* A fold over a finite set has a result for every way to pick the next element.
LEMMA FoldExists ==
  ASSUME NEW S, IsFiniteSet(S), NEW V, NEW base \in V, NEW c, \A s \in SUBSET S : s # {} => c[s] \in s,
         NEW h \in [S \X V -> V]
  PROVE  \E f \in [SUBSET S -> V] : FoldsTo(f, SUBSET S, base, c, h)
<1>1. Cardinality(S) \in Nat
  BY FS_CardinalityType
<1>2. Small(S, Cardinality(S)) = SUBSET S
  BY FS_Subset DEF Small
<1>3. \E f \in [Small(S, Cardinality(S)) -> V] : FoldsTo(f, Small(S, Cardinality(S)), base, c, h)
  BY <1>1, FoldOfSmall
<1> QED
  BY <1>2, <1>3

\* The first k positions have k as their last.
LEMMA LastPosition ==
  ASSUME NEW k \in Nat, k # 0
  PROVE  Max(1..k) = k /\ (1..k) \ {k} = 1..(k - 1)
<1>1. k \in 1..k /\ \A y \in 1..k : k >= y
  OBVIOUS
<1>2. \A x \in 1..k : (\A y \in 1..k : x >= y) => x = k
  BY <1>1
<1> QED
  BY <1>1, <1>2 DEF Max

LEMMA GreatestOf ==
  ASSUME NEW n \in Nat, NEW T \in SUBSET (1..n), T # {}
  PROVE  Max(T) \in T
<1> DEFINE U == {n - x : x \in T}
<1>1. U \in SUBSET Nat /\ U # {}
  <2>1. \A x \in T : n - x \in Nat
    OBVIOUS
  <2>2. PICK x : x \in T
    OBVIOUS
  <2>3. n - x \in U
    BY <2>2
  <2> QED
    BY <2>1, <2>3
<1> HIDE DEF U
<1>2. Min(U) \in U /\ \A y \in U : Min(U) <= y
  BY <1>1, LeastOf
<1> DEFINE u == Min(U)
<1> HIDE DEF u
<1>3. PICK x \in T : u = n - x
  BY <1>2 DEF U, u
<1>4. \A y \in T : n - x <= n - y
  BY <1>2, <1>3 DEF U, u
<1>5. \A y \in T : x >= y
  BY <1>4
<1> QED
  BY <1>5 DEF Max

\* The function a fold over the positions 1..n looks its result up in.
FoldsUp(f, n, base, h) ==
    \A s \in SUBSET (1..n) : f[s] = IF s = {} THEN base ELSE h[<<Max(s), f[s \ {Max(s)}]>>]

LEMMA SequenceFold ==
  ASSUME NEW n \in Nat, NEW V, NEW base \in V, NEW h \in [(1..n) \X V -> V]
  PROVE  \E f \in [SUBSET (1..n) -> V] : FoldsUp(f, n, base, h)
<1> DEFINE c == [s \in SUBSET (1..n) |-> Max(s)]
<1>1. \A s \in SUBSET (1..n) : s # {} => c[s] \in s
  BY GreatestOf
<1>2. IsFiniteSet(1..n)
  BY FS_Interval
<1>3. PICK f \in [SUBSET (1..n) -> V] : FoldsTo(f, SUBSET (1..n), base, c, h)
  <2> HIDE DEF c
  <2> QED
    BY <1>1, <1>2, FoldExists
<1> QED
  BY <1>3 DEF FoldsTo, FoldsUp

\* ---- The merge ----------------------------------------------------------
\* No two edges of a list say the same.
KeysDistinct(edges) ==
    \A i, k \in DOMAIN edges : EdgeKey(edges[i]) = EdgeKey(edges[k]) => i = k

\* An edge of the list says what e says, on no shorter evidence.
Told(edges, e) == \E i \in DOMAIN edges : EdgeKey(edges[i]) = EdgeKey(e) /\ edges[i].span >= e.span

\* An edge that is added is in the list after it, and so is all that was there.
LEMMA AddEdgeSays ==
  ASSUME NEW W, \A w \in W : w.span \in Nat, NEW kept \in Seq(W), NEW e \in W
  PROVE  /\ AddEdge(kept, e) \in Seq(W)
         /\ KeysDistinct(kept) => KeysDistinct(AddEdge(kept, e))
         /\ Told(AddEdge(kept, e), e)
         /\ \A w \in W : Told(kept, w) => Told(AddEdge(kept, e), w)
<1> DEFINE same == {i \in DOMAIN kept : EdgeKey(kept[i]) = EdgeKey(e)}
           better == [i \in DOMAIN kept |-> IF i \in same /\ BetterEdge(e, kept[i]) THEN e ELSE kept[i]]
<1> HIDE DEF EdgeKey
<1>1. CASE same = {}
  <2>1. AddEdge(kept, e) = Append(kept, e)
    BY <1>1 DEF AddEdge
  <2>2. Append(kept, e) \in Seq(W) /\ DOMAIN Append(kept, e) = 1..(Len(kept) + 1)
        /\ Append(kept, e)[Len(kept) + 1] = e
        /\ \A i \in DOMAIN kept : Append(kept, e)[i] = kept[i] /\ i \in DOMAIN Append(kept, e)
    OBVIOUS
  <2>3. KeysDistinct(kept) => KeysDistinct(Append(kept, e))
    <3> SUFFICES ASSUME KeysDistinct(kept), NEW i \in 1..(Len(kept) + 1), NEW k \in 1..(Len(kept) + 1),
                        EdgeKey(Append(kept, e)[i]) = EdgeKey(Append(kept, e)[k])
                 PROVE  i = k
      BY <2>2 DEF KeysDistinct
    <3>1. DOMAIN kept = 1..Len(kept) /\ Len(kept) \in Nat
      OBVIOUS
    <3>2. CASE i = Len(kept) + 1 /\ k # Len(kept) + 1
      BY <1>1, <2>2, <3>1, <3>2
    <3>3. CASE k = Len(kept) + 1 /\ i # Len(kept) + 1
      BY <1>1, <2>2, <3>1, <3>3
    <3>4. CASE i # Len(kept) + 1 /\ k # Len(kept) + 1
      BY <2>2, <3>1, <3>4 DEF KeysDistinct
    <3> QED
      BY <3>2, <3>3, <3>4
  <2>4. Told(Append(kept, e), e)
    BY <2>2 DEF Told
  <2>5. \A w \in W : Told(kept, w) => Told(Append(kept, e), w)
    BY <2>2 DEF Told
  <2> QED
    BY <2>1, <2>2, <2>3, <2>4, <2>5
<1>2. CASE same # {}
  <2>1. AddEdge(kept, e) = better
    BY <1>2 DEF AddEdge
  <2>2. better \in Seq(W) /\ DOMAIN better = DOMAIN kept
    <3>1. \A i \in 1..Len(kept) : kept[i] \in W
      OBVIOUS
    <3> QED
      BY <3>1
  <2>3. \A i \in DOMAIN kept : /\ EdgeKey(better[i]) = EdgeKey(kept[i])
                               /\ better[i].span >= kept[i].span
                               /\ i \in same => better[i].span >= e.span
    <3> TAKE i \in DOMAIN kept
    <3>1. kept[i].span \in Nat /\ e.span \in Nat
      OBVIOUS
    <3> QED
      BY <3>1 DEF BetterEdge
  <2> HIDE DEF better
  <2>4. KeysDistinct(kept) => KeysDistinct(better)
    BY <2>2, <2>3 DEF KeysDistinct
  <2>5. Told(better, e)
    <3>1. PICK i : i \in same
      BY <1>2
    <3> QED
      BY <2>2, <2>3, <3>1 DEF Told
  <2>6. \A w \in W : Told(kept, w) => Told(better, w)
    <3> SUFFICES ASSUME NEW w \in W, Told(kept, w)
                 PROVE  Told(better, w)
      OBVIOUS
    <3>1. PICK i \in DOMAIN kept : EdgeKey(kept[i]) = EdgeKey(w) /\ kept[i].span >= w.span
      BY DEF Told
    <3>2. kept[i].span \in Nat /\ w.span \in Nat /\ better[i].span \in Nat
      BY <2>2
    <3>3. better[i].span >= w.span
      BY <2>3, <3>1, <3>2
    <3> QED
      BY <2>2, <2>3, <3>1, <3>3 DEF Told
  <2> QED
    BY <2>1, <2>2, <2>4, <2>5, <2>6
<1> QED
  BY <1>1, <1>2

\* The loop of merge_edge_lists, edge by edge.
MergeLoop(kept, edges, map) ==
    /\ kept[0] = <<>>
    /\ \A k \in 1..Len(edges) : kept[k] = AddEdge(kept[k - 1], Remapped(map, edges[k]))
    /\ MergeEdges(edges, map) = kept[Len(edges)]

LEMMA MergeEdgesLoop ==
  ASSUME NEW W, \A w \in W : w.span \in Nat, NEW map, NEW edges, DOMAIN edges = 1..Len(edges), Len(edges) \in Nat,
         \A i \in DOMAIN edges : Remapped(map, edges[i]) \in W
  PROVE  \E kept \in [0..Len(edges) -> Seq(W)] : MergeLoop(kept, edges, map)
<1> DEFINE n == Len(edges)
           h == [p \in (1..n) \X Seq(W) |-> AddEdge(p[2], Remapped(map, edges[p[1]]))]
           Is(f) == f = [s \in SUBSET (1..n) |-> IF s = {} THEN <<>>
                            ELSE AddEdge(f[s \ {Max(s)}], Remapped(map, edges[Max(s)]))]
           iter == CHOOSE f : Is(f)
<1>1. h \in [(1..n) \X Seq(W) -> Seq(W)]
  BY AddEdgeSays
<1>2. <<>> \in Seq(W)
  OBVIOUS
<1> HIDE DEF h
<1>3. PICK f \in [SUBSET (1..n) -> Seq(W)] : FoldsUp(f, n, <<>>, h)
  BY <1>1, <1>2, SequenceFold
<1>4. \A s \in SUBSET (1..n) : s # {} =>
         h[<<Max(s), f[s \ {Max(s)}]>>] = AddEdge(f[s \ {Max(s)}], Remapped(map, edges[Max(s)]))
  BY GreatestOf DEF h
<1>5. Is(f)
  BY <1>3, <1>4 DEF FoldsUp
<1> HIDE DEF Is
<1>6. Is(iter)
  BY <1>5
<1>7. MergeEdges(edges, map) = iter[1..n]
  BY DEF MergeEdges, FoldLeft, MapThenFoldSet, Is
<1> HIDE DEF iter
<1>8. iter[1..0] = <<>>
  BY <1>6 DEF Is
<1>9. \A k \in 1..n : iter[1..k] = AddEdge(iter[1..(k - 1)], Remapped(map, edges[k]))
  <2> TAKE k \in 1..n
  <2>1. Max(1..k) = k /\ (1..k) \ {k} = 1..(k - 1) /\ 1..k \in SUBSET (1..n) /\ 1..k # {}
    BY LastPosition
  <2> QED
    BY <1>6, <2>1 DEF Is
<1> DEFINE kept == [k \in 0..n |-> iter[1..k]]
<1>10. kept[0] = <<>> /\ MergeEdges(edges, map) = kept[n] /\ DOMAIN kept = 0..n
       /\ \A k \in 1..n : kept[k] = AddEdge(kept[k - 1], Remapped(map, edges[k]))
  BY <1>7, <1>8, <1>9
<1>11. kept = [k \in 0..n |-> kept[k]]
  OBVIOUS
<1> HIDE DEF kept
<1> DEFINE P == {k \in 0..n : kept[k] \in Seq(W)}
<1>12. 0 \in P
  <2>1. 0 \in 0..n
    OBVIOUS
  <2>2. kept[0] \in Seq(W)
    BY <1>2, <1>10
  <2> QED
    BY <2>1, <2>2
<1>13. ASSUME NEW k \in 1..n, k - 1 \in P
       PROVE  k \in P
  <2>1. kept[k - 1] \in Seq(W) /\ Remapped(map, edges[k]) \in W
    BY <1>13
  <2> QED
    BY <1>10, <2>1, AddEdgeSays
<1> HIDE DEF P
<1>14. \A k \in 0..n : k \in P
  BY <1>12, <1>13, StepByStep
<1>15. \A k \in 0..n : kept[k] \in Seq(W)
  BY <1>14 DEF P
<1>16. kept \in [0..n -> Seq(W)]
  BY <1>11, <1>15
<1> QED
  BY <1>10, <1>16 DEF MergeLoop

\* What merge_edge_lists returns has no edge twice and says what every edge said.
LEMMA MergedEdgesSay ==
  ASSUME NEW W, \A w \in W : w.span \in Nat, NEW map, NEW edges, DOMAIN edges = 1..Len(edges), Len(edges) \in Nat,
         \A i \in DOMAIN edges : Remapped(map, edges[i]) \in W
  PROVE  /\ MergeEdges(edges, map) \in Seq(W)
         /\ KeysDistinct(MergeEdges(edges, map))
         /\ \A i \in DOMAIN edges : Told(MergeEdges(edges, map), Remapped(map, edges[i]))
<1> DEFINE n == Len(edges)
<1>0. PICK kept \in [0..n -> Seq(W)] : MergeLoop(kept, edges, map)
  BY MergeEdgesLoop
<1>1. /\ kept[0] = <<>>
      /\ \A k \in 1..n : kept[k] = AddEdge(kept[k - 1], Remapped(map, edges[k]))
      /\ MergeEdges(edges, map) = kept[n]
  BY <1>0 DEF MergeLoop
<1> DEFINE P == {k \in 0..n : KeysDistinct(kept[k]) /\ \A i \in 1..k : Told(kept[k], Remapped(map, edges[i]))}
<1>2. 0 \in P
  BY <1>1 DEF KeysDistinct
<1>3. ASSUME NEW k \in 1..n, k - 1 \in P
      PROVE  k \in P
  <2>1. kept[k - 1] \in Seq(W) /\ KeysDistinct(kept[k - 1])
        /\ \A i \in 1..(k - 1) : Told(kept[k - 1], Remapped(map, edges[i]))
    BY <1>3
  <2>2. kept[k] = AddEdge(kept[k - 1], Remapped(map, edges[k]))
    BY <1>1
  <2>3. \A i \in 1..k : Remapped(map, edges[i]) \in W
    OBVIOUS
  <2>4. KeysDistinct(kept[k]) /\ Told(kept[k], Remapped(map, edges[k]))
    BY <2>1, <2>2, <2>3, AddEdgeSays
  <2>5. \A i \in 1..(k - 1) : Told(kept[k], Remapped(map, edges[i]))
    BY <2>1, <2>2, <2>3, AddEdgeSays
  <2>6. \A i \in 1..k : i \in 1..(k - 1) \/ i = k
    OBVIOUS
  <2> QED
    BY <2>4, <2>5, <2>6
<1> HIDE DEF P
<1>4. \A k \in 0..n : k \in P
  BY <1>2, <1>3, StepByStep
<1>5. n \in P
  BY <1>4
<1>6. KeysDistinct(kept[n]) /\ \A i \in 1..n : Told(kept[n], Remapped(map, edges[i]))
  BY <1>5 DEF P
<1> QED
  BY <1>1, <1>6
\* The loop that keeps the edges between nodes of a set.
KeepLoop(kept, edges, ids) ==
    /\ kept[0] = <<>>
    /\ \A k \in 1..Len(edges) :
          kept[k] = IF {edges[k].source, edges[k].target} \subseteq ids THEN Append(kept[k - 1], edges[k]) ELSE kept[k - 1]
    /\ EdgesWithin(ids, edges) = kept[Len(edges)]

LEMMA EdgesWithinLoop ==
  ASSUME NEW W, NEW edges \in Seq(W), NEW ids
  PROVE  \E kept \in [0..Len(edges) -> Seq(W)] : KeepLoop(kept, edges, ids)
<1> DEFINE n == Len(edges)
           Kept(before, e) == IF {e.source, e.target} \subseteq ids THEN Append(before, e) ELSE before
           h == [p \in (1..n) \X Seq(W) |-> Kept(p[2], edges[p[1]])]
           Is(f) == f = [s \in SUBSET (1..n) |-> IF s = {} THEN <<>> ELSE Kept(f[s \ {Max(s)}], edges[Max(s)])]
           iter == CHOOSE f : Is(f)
<1>0. DOMAIN edges = 1..n /\ n \in Nat /\ \A k \in 1..n : edges[k] \in W
  OBVIOUS
<1>1. h \in [(1..n) \X Seq(W) -> Seq(W)]
  BY <1>0
<1>2. <<>> \in Seq(W)
  OBVIOUS
<1> HIDE DEF h
<1>3. PICK f \in [SUBSET (1..n) -> Seq(W)] : FoldsUp(f, n, <<>>, h)
  BY <1>0, <1>1, <1>2, SequenceFold
<1>4. \A s \in SUBSET (1..n) : s # {} => h[<<Max(s), f[s \ {Max(s)}]>>] = Kept(f[s \ {Max(s)}], edges[Max(s)])
  BY <1>0, GreatestOf DEF h
<1>5. Is(f)
  <2> HIDE DEF Kept
  <2> QED
    BY <1>3, <1>4 DEF FoldsUp
<1> HIDE DEF Is
<1>6. Is(iter)
  BY <1>5
<1>7. EdgesWithin(ids, edges) = iter[1..n]
  BY <1>0 DEF EdgesWithin, FoldLeft, MapThenFoldSet, Is
<1> HIDE DEF iter
<1> DEFINE kept == [k \in 0..n |-> iter[1..k]]
<1>8. kept[0] = <<>> /\ EdgesWithin(ids, edges) = kept[n] /\ kept = [k \in 0..n |-> kept[k]]
  BY <1>0, <1>6, <1>7 DEF Is
<1>9. \A k \in 1..n : kept[k] = Kept(kept[k - 1], edges[k])
  <2> TAKE k \in 1..n
  <2>1. Max(1..k) = k /\ (1..k) \ {k} = 1..(k - 1) /\ 1..k \in SUBSET (1..n) /\ 1..k # {}
    BY <1>0, LastPosition
  <2>2. iter[1..k] = Kept(iter[1..(k - 1)], edges[k])
    <3> HIDE DEF Kept
    <3> QED
      BY <1>6, <2>1 DEF Is
  <2> QED
    BY <1>0, <2>2
<1> HIDE DEF kept
<1> DEFINE P == {k \in 0..n : kept[k] \in Seq(W)}
<1>10. \A k \in 0..n : k \in P
  <2>1. 0 \in P
    <3>1. 0 \in 0..n
      BY <1>0
    <3>2. kept[0] \in Seq(W)
      BY <1>2, <1>8
    <3> QED
      BY <3>1, <3>2
  <2>2. ASSUME NEW k \in 1..n, k - 1 \in P
        PROVE  k \in P
    <3>1. kept[k - 1] \in Seq(W) /\ edges[k] \in W
      BY <1>0, <2>2
    <3>2. Kept(kept[k - 1], edges[k]) \in Seq(W)
      BY <3>1
    <3>3. kept[k] = Kept(kept[k - 1], edges[k])
      BY <1>9
    <3> HIDE DEF Kept
    <3> QED
      BY <3>2, <3>3
  <2> HIDE DEF P
  <2> QED
    BY <1>0, <2>1, <2>2, StepByStep
<1>11. kept \in [0..n -> Seq(W)]
  BY <1>8, <1>10
<1> QED
  BY <1>8, <1>9, <1>11 DEF KeepLoop

\* The edges that stay are those of the list between nodes that stay, each once.
LEMMA EdgesWithinKeeps ==
  ASSUME NEW W, NEW edges \in Seq(W), NEW ids
  PROVE  /\ EdgesWithin(ids, edges) \in Seq(W)
         /\ Range(EdgesWithin(ids, edges)) = {e \in Range(edges) : {e.source, e.target} \subseteq ids}
         /\ KeysDistinct(edges) => KeysDistinct(EdgesWithin(ids, edges))
<1> DEFINE n == Len(edges)
           Stays(e) == {e.source, e.target} \subseteq ids
<1>0. DOMAIN edges = 1..n /\ n \in Nat
  OBVIOUS
<1>1. PICK kept \in [0..n -> Seq(W)] : KeepLoop(kept, edges, ids)
  BY EdgesWithinLoop
<1>2. /\ kept[0] = <<>>
      /\ \A k \in 1..n : kept[k] = IF Stays(edges[k]) THEN Append(kept[k - 1], edges[k]) ELSE kept[k - 1]
      /\ EdgesWithin(ids, edges) = kept[n]
  BY <1>1 DEF KeepLoop
<1> HIDE DEF Stays
<1> DEFINE Sound(list, k) ==
             \A i \in DOMAIN list : \E j \in 1..k : list[i] = edges[j] /\ Stays(edges[j])
           Whole(list, k) == \A j \in 1..k : Stays(edges[j]) => \E i \in DOMAIN list : list[i] = edges[j]
           P == {k \in 0..n : /\ Sound(kept[k], k) /\ Whole(kept[k], k)
                              /\ KeysDistinct(edges) => KeysDistinct(kept[k])}
<1>3. 0 \in P
  BY <1>0, <1>2 DEF KeysDistinct
<1>4. ASSUME NEW k \in 1..n, k - 1 \in P
      PROVE  k \in P
  <2> DEFINE old == kept[k - 1]
             m == Len(old)
  <2>1. old \in Seq(W) /\ DOMAIN old = 1..m /\ m \in Nat
    BY <1>0
  <2>2. Sound(old, k - 1) /\ Whole(old, k - 1) /\ (KeysDistinct(edges) => KeysDistinct(old))
    BY <1>4
  <2>3. \A j \in 1..k : j \in 1..(k - 1) \/ j = k
    OBVIOUS
  <2>4. \A j \in 1..(k - 1) : j \in 1..k
    OBVIOUS
  <2>5. CASE ~Stays(edges[k])
    <3>1. kept[k] = old
      BY <1>2, <2>5
    <3> HIDE DEF old, m
    <3>2. Sound(old, k)
      BY <2>2, <2>4
    <3>3. Whole(old, k)
      BY <2>2, <2>3, <2>5
    <3> HIDE DEF Sound, Whole
    <3> QED
      BY <2>2, <3>1, <3>2, <3>3
  <2>6. CASE Stays(edges[k])
    <3> DEFINE new == Append(old, edges[k])
    <3>1. kept[k] = new
      BY <1>2, <2>6
    <3> HIDE DEF old, m
    <3>2. DOMAIN new = 1..(m + 1) /\ new[m + 1] = edges[k] /\ \A i \in 1..m : new[i] = old[i] /\ i \in 1..(m + 1)
      BY <2>1 DEF m
    <3> HIDE DEF new
    <3>3. \A i \in 1..(m + 1) : i \in 1..m \/ i = m + 1
      BY <2>1
    <3>4. m + 1 \in 1..(m + 1) /\ k \in 1..k
      BY <2>1
    <3>5. Sound(new, k)
      <4>1. ASSUME NEW i \in 1..m
            PROVE  \E j \in 1..k : new[i] = edges[j] /\ Stays(edges[j])
        <5>1. PICK j \in 1..(k - 1) : old[i] = edges[j] /\ Stays(edges[j])
          BY <2>1, <2>2
        <5> QED
          BY <2>4, <3>2, <5>1
      <4>2. \E j \in 1..k : new[m + 1] = edges[j] /\ Stays(edges[j])
        BY <2>6, <3>2, <3>4
      <4> QED
        BY <3>2, <3>3, <4>1, <4>2
    <3>6. Whole(new, k)
      BY <2>1, <2>2, <2>3, <3>2, <3>4
    <3>7. KeysDistinct(edges) => KeysDistinct(new)
      <4> SUFFICES ASSUME KeysDistinct(edges)
                   PROVE  KeysDistinct(new)
        OBVIOUS
      <4>1. \A i \in 1..m : EdgeKey(old[i]) # EdgeKey(edges[k])
        <5> TAKE i \in 1..m
        <5>1. PICK j \in 1..(k - 1) : old[i] = edges[j]
          BY <2>1, <2>2
        <5>2. j # k /\ j \in 1..n
          OBVIOUS
        <5> QED
          BY <1>0, <5>1, <5>2 DEF KeysDistinct
      <4> QED
        BY <2>1, <2>2, <3>2, <3>3, <4>1 DEF KeysDistinct
    <3> HIDE DEF Sound, Whole
    <3> QED
      BY <3>1, <3>5, <3>6, <3>7
  <2> QED
    BY <2>5, <2>6
<1> HIDE DEF P
<1>5. \A k \in 0..n : k \in P
  BY <1>0, <1>3, <1>4, StepByStep
<1>6. n \in P
  BY <1>0, <1>5
<1>7. Range(kept[n]) = {e \in Range(edges) : Stays(e)}
  BY <1>0, <1>6 DEF P, Range
<1>8. kept[n] \in Seq(W) /\ (KeysDistinct(edges) => KeysDistinct(kept[n]))
  BY <1>0, <1>6 DEF P
<1> QED
  BY <1>2, <1>7, <1>8 DEF Stays

\* What one list after another holds.
LEMMA ConcatenatedElements ==
  ASSUME NEW V, NEW s \in Seq(V), NEW t \in Seq(V)
  PROVE  s \o t \in Seq(V) /\ Range(s \o t) = Range(s) \cup Range(t)
<1> DEFINE st == s \o t
<1>1. st \in Seq(V) /\ DOMAIN st = 1..(Len(s) + Len(t)) /\ DOMAIN s = 1..Len(s) /\ DOMAIN t = 1..Len(t)
      /\ Len(s) \in Nat /\ Len(t) \in Nat
  OBVIOUS
<1>2. \A i \in 1..Len(s) : st[i] = s[i] /\ i \in DOMAIN st
  BY <1>1
<1>3. \A i \in 1..Len(t) : st[Len(s) + i] = t[i] /\ Len(s) + i \in DOMAIN st
  BY <1>1
<1>4. \A i \in DOMAIN st : i \in 1..Len(s) \/ (i - Len(s) \in 1..Len(t) /\ i = Len(s) + (i - Len(s)))
  BY <1>1
<1> HIDE DEF st
<1>5. ASSUME NEW x \in Range(s) PROVE x \in Range(st)
  <2>1. PICK i \in 1..Len(s) : s[i] = x
    BY <1>1 DEF Range
  <2>2. st[i] = x /\ i \in DOMAIN st
    BY <1>2, <2>1
  <2> QED
    BY <2>2 DEF Range
<1>6. ASSUME NEW x \in Range(t) PROVE x \in Range(st)
  <2>1. PICK i \in 1..Len(t) : t[i] = x
    BY <1>1 DEF Range
  <2>2. st[Len(s) + i] = x /\ Len(s) + i \in DOMAIN st
    BY <1>3, <2>1
  <2> QED
    BY <2>2 DEF Range
<1>7. ASSUME NEW x \in Range(st) PROVE x \in Range(s) \cup Range(t)
  <2>1. PICK i \in DOMAIN st : st[i] = x
    BY DEF Range
  <2>2. CASE i \in 1..Len(s)
    BY <1>1, <1>2, <2>1, <2>2 DEF Range
  <2>3. CASE i - Len(s) \in 1..Len(t) /\ i = Len(s) + (i - Len(s))
    <3>1. t[i - Len(s)] = x
      BY <1>3, <2>1, <2>3
    <3> QED
      BY <1>1, <2>3, <3>1 DEF Range
  <2> QED
    BY <1>4, <2>2, <2>3
<1>8. Range(st) = Range(s) \cup Range(t)
  BY <1>5, <1>6, <1>7
<1> QED
  BY <1>1, <1>8 DEF st

\* The nodes of all chunks, one after the other.
LEMMA FlattenedSequences ==
  ASSUME NEW V, NEW seqs \in Seq(Seq(V))
  PROVE  /\ FlattenSeq(seqs) \in Seq(V)
         /\ Range(FlattenSeq(seqs)) = UNION {Range(seqs[i]) : i \in 1..Len(seqs)}
<1> DEFINE n == Len(seqs)
           h == [p \in (1..n) \X Seq(V) |-> p[2] \o seqs[p[1]]]
           Is(f) == f = [i \in 1..n |-> IF i = 1 THEN seqs[i] ELSE f[i - 1] \o seqs[i]]
           flat == CHOOSE f : Is(f)
<1>0. n \in Nat /\ DOMAIN seqs = 1..n /\ \A i \in 1..n : seqs[i] \in Seq(V)
  OBVIOUS
<1>1. CASE n = 0
  <2>1. FlattenSeq(seqs) = seqs /\ seqs = <<>>
    BY <1>1 DEF FlattenSeq
  <2> QED
    BY <1>1, <2>1 DEF Range
<1>2. CASE n # 0
  <2>1. h \in [(1..n) \X Seq(V) -> Seq(V)] /\ <<>> \in Seq(V)
    BY <1>0
  <2> HIDE DEF h
  <2>2. PICK f \in [SUBSET (1..n) -> Seq(V)] : FoldsUp(f, n, <<>>, h)
    BY <1>0, <2>1, SequenceFold
  <2>3. f[1..0] = <<>>
    <3>1. 1..0 \in SUBSET (1..n) /\ 1..0 = {}
      OBVIOUS
    <3> QED
      BY <2>2, <3>1 DEF FoldsUp
  <2>4. \A k \in 1..n : f[1..k] = f[1..(k - 1)] \o seqs[k] /\ f[1..k] \in Seq(V)
    <3> TAKE k \in 1..n
    <3>1. Max(1..k) = k /\ (1..k) \ {k} = 1..(k - 1) /\ 1..k \in SUBSET (1..n) /\ 1..k # {} /\ 1..(k - 1) \in SUBSET (1..n)
      BY <1>0, LastPosition
    <3>2. f[1..k] = h[<<k, f[1..(k - 1)]>>]
      BY <2>2, <3>1 DEF FoldsUp
    <3>3. f[1..(k - 1)] \in Seq(V) /\ f[1..k] \in Seq(V)
      BY <3>1
    <3>4. h[<<k, f[1..(k - 1)]>>] = f[1..(k - 1)] \o seqs[k]
      BY <3>3 DEF h
    <3> QED
      BY <3>2, <3>3, <3>4
  <2> DEFINE found == [k \in 1..n |-> f[1..k]]
  <2>5. Is(found)
    <3>1. ASSUME NEW k \in 1..n, k # 1
          PROVE  found[k] = found[k - 1] \o seqs[k]
      <4>1. k - 1 \in 1..n
        BY <1>0, <3>1
      <4> QED
        BY <2>4, <4>1
    <3>2. ASSUME NEW k \in 1..n, k = 1
          PROVE  found[k] = seqs[k]
      <4>1. f[1..1] = f[1..0] \o seqs[1]
        <5>1. 1 \in 1..n /\ 1 - 1 = 0
          BY <1>0, <3>2
        <5> QED
          BY <2>4, <5>1
      <4>2. seqs[1] \in Seq(V) /\ <<>> \o seqs[1] = seqs[1]
        BY <1>0, <3>2
      <4> QED
        BY <2>3, <3>2, <4>1, <4>2
    <3> QED
      BY <3>1, <3>2
  <2> HIDE DEF Is, found
  <2>6. Is(flat)
    BY <2>5
  <2>7. FlattenSeq(seqs) = flat[n]
    BY <1>0, <1>2 DEF FlattenSeq, Is
  <2> HIDE DEF flat
  <2> DEFINE upto == [k \in 0..n |-> UNION {Range(seqs[i]) : i \in 1..k}]
             P == {k \in 0..n : k # 0 => flat[k] \in Seq(V) /\ Range(flat[k]) = upto[k]}
  <2>8. \A k \in 1..n : upto[k] = upto[k - 1] \cup Range(seqs[k])
    <3> TAKE k \in 1..n
    <3>1. k - 1 \in 0..n /\ k \in 0..n /\ 1..k = (1..(k - 1)) \cup {k}
      BY <1>0
    <3> QED
      BY <3>1
  <2>9. upto[0] = {}
    BY <1>0
  <2>10. upto[n] = UNION {Range(seqs[i]) : i \in 1..n}
    BY <1>0
  <2> HIDE DEF upto
  <2>11. \A s, t \in Seq(V) : s \o t \in Seq(V) /\ Range(s \o t) = Range(s) \cup Range(t)
    BY ConcatenatedElements
  <2>12. \A k \in 0..n : k \in P
    <3>1. 0 \in P
      BY <1>0
    <3>2. ASSUME NEW k \in 1..n, k - 1 \in P
          PROVE  k \in P
      <4>1. k # 1 => k - 1 \in 1..n /\ flat[k - 1] \in Seq(V) /\ Range(flat[k - 1]) = upto[k - 1]
        BY <1>0, <3>2
      <4>2. flat[k] = IF k = 1 THEN seqs[k] ELSE flat[k - 1] \o seqs[k]
        BY <2>6 DEF Is
      <4>3. upto[k] = upto[k - 1] \cup Range(seqs[k]) /\ (k = 1 => upto[k - 1] = {})
        BY <2>8, <2>9
      <4>4. flat[k] \in Seq(V) /\ Range(flat[k]) = upto[k]
        BY <1>0, <2>11, <4>1, <4>2, <4>3
      <4> QED
        BY <4>4
    <3> HIDE DEF P
    <3> QED
      BY <1>0, <3>1, <3>2, StepByStep
  <2> QED
    BY <1>0, <1>2, <2>7, <2>10, <2>12
<1> QED
  BY <1>1, <1>2

\* A sequence has finitely many elements.
LEMMA FiniteRange ==
  ASSUME NEW V, NEW s \in Seq(V)
  PROVE  IsFiniteSet(Range(s))
<1>1. IsFiniteSet(1..Len(s))
  BY FS_Interval
<1>2. Range(s) = {s[i] : i \in 1..Len(s)}
  BY DEF Range
<1>3. s \in Surjection(1..Len(s), Range(s))
  BY <1>2 DEF Surjection
<1> QED
  BY <1>1, <1>3, FS_Surjection

Places == Nat \X Nat

LEMMA BeforeOrders ==
  ASSUME NEW a \in Places, NEW b \in Places, NEW c \in Places
  PROVE  /\ a # b => Before(a, b) \/ Before(b, a)
         /\ Before(a, b) /\ Before(b, c) => Before(a, c)
         /\ ~Before(a, a)
<1>1. /\ a = <<a[1], a[2]>> /\ a[1] \in Nat /\ a[2] \in Nat
      /\ b = <<b[1], b[2]>> /\ b[1] \in Nat /\ b[2] \in Nat
      /\ c = <<c[1], c[2]>> /\ c[1] \in Nat /\ c[2] \in Nat
  BY DEF Places
<1> QED
  BY <1>1 DEF Before

\* The loop over sorted ids has a last one in every set of them.
LEMMA LastOfIds ==
  ASSUME NEW s \in SUBSET Places, IsFiniteSet(s), s # {}
  PROVE  LastOf(s) \in s
<1> DEFINE Top(t) == \E id \in t : \A other \in t \ {id} : Before(other, id)
           P == {k \in Nat : \A t \in SUBSET Places : IsFiniteSet(t) /\ Cardinality(t) = k + 1 => Top(t)}
<1>1. 0 \in P
  <2> SUFFICES ASSUME NEW t \in SUBSET Places, IsFiniteSet(t), Cardinality(t) = 1
               PROVE  Top(t)
    OBVIOUS
  <2>1. PICK id : t = {id}
    BY FS_Singleton
  <2> QED
    BY <2>1
<1>2. ASSUME NEW k \in Nat, k \in P
      PROVE  k + 1 \in P
  <2> SUFFICES ASSUME NEW t \in SUBSET Places, IsFiniteSet(t), Cardinality(t) = (k + 1) + 1
               PROVE  Top(t)
    OBVIOUS
  <2>1. t # {}
    BY FS_EmptySet
  <2>2. PICK x : x \in t
    BY <2>1
  <2>3. IsFiniteSet(t \ {x}) /\ Cardinality(t \ {x}) = k + 1 /\ t \ {x} \in SUBSET Places
    BY <2>2, FS_RemoveElement
  <2>4. Top(t \ {x})
    BY <1>2, <2>3
  <2>5. PICK m \in t \ {x} : \A other \in (t \ {x}) \ {m} : Before(other, m)
    BY <2>4
  <2>6. m \in Places /\ x \in Places /\ m # x
    BY <2>2, <2>5
  <2>7. CASE Before(x, m)
    <3>1. \A other \in t \ {m} : Before(other, m)
      BY <2>5, <2>7
    <3> QED
      BY <2>5, <3>1
  <2>8. CASE Before(m, x)
    <3>1. ASSUME NEW other \in t \ {x}
          PROVE  Before(other, x)
      <4>1. other = m \/ Before(other, m)
        BY <2>5
      <4>2. other \in Places
        OBVIOUS
      <4> QED
        BY <2>6, <2>8, <4>1, <4>2, BeforeOrders
    <3> QED
      BY <2>2, <3>1
  <2> QED
    BY <2>6, <2>7, <2>8, BeforeOrders
<1> HIDE DEF P
<1>3. Nat \subseteq P
  BY <1>1, <1>2, HandedOn
<1>4. Cardinality(s) \in Nat /\ Cardinality(s) # 0
  BY FS_CardinalityType, FS_EmptySet
<1>5. Cardinality(s) - 1 \in P /\ (Cardinality(s) - 1) + 1 = Cardinality(s)
  BY <1>3, <1>4
<1>6. Top(s)
  BY <1>5 DEF P
<1> QED
  BY <1>6 DEF LastOf

-----------------------------------------------------------------------------
\* A graph before it is pruned: its nodes have finitely many ids that tell them apart, and
\* its edges are a list between them.
Prunable(g) ==
    /\ Consistent(g)
    /\ Ids(g.nodes) \subseteq Places /\ IsFiniteSet(Ids(g.nodes))
    /\ g.edges \in Seq(Range(g.edges))

At(g, id, i) == g.edges[i].source = id \/ g.edges[i].target = id

\* The degree of a node tells whether it has an edge, and of one edge which.
LEMMA DegreeTells ==
  ASSUME NEW g, Prunable(g), NEW id
  PROVE  /\ Degree(g, id) = 0 <=> \A i \in DOMAIN g.edges : ~At(g, id, i)
         /\ Degree(g, id) = 1 => \E i \in DOMAIN g.edges :
               /\ At(g, id, i) /\ g.edges[i].source # g.edges[i].target
               /\ \A k \in DOMAIN g.edges : At(g, id, k) => k = i
<1> DEFINE out == {i \in DOMAIN g.edges : g.edges[i].source = id}
           in == {i \in DOMAIN g.edges : g.edges[i].target = id}
<1>1. DOMAIN g.edges = 1..Len(g.edges) /\ Len(g.edges) \in Nat
  BY DEF Prunable
<1>2. IsFiniteSet(DOMAIN g.edges)
  <2> DEFINE n == Len(g.edges)
  <2>1. n \in Nat
    BY <1>1
  <2> HIDE DEF n
  <2>2. IsFiniteSet(1..n)
    BY <2>1, FS_Interval
  <2> QED
    BY <1>1, <2>2 DEF n
<1>3. /\ IsFiniteSet(out) /\ Cardinality(out) \in Nat /\ (Cardinality(out) = 0 <=> out = {})
      /\ IsFiniteSet(in) /\ Cardinality(in) \in Nat /\ (Cardinality(in) = 0 <=> in = {})
  <2>1. out \in SUBSET DOMAIN g.edges /\ in \in SUBSET DOMAIN g.edges
    OBVIOUS
  <2> QED
    BY <1>2, <2>1, FS_Subset, FS_CardinalityType, FS_EmptySet
<1>4. Degree(g, id) = Cardinality(out) + Cardinality(in)
  BY DEF Degree
<1>5. Degree(g, id) = 0 <=> out = {} /\ in = {}
  <2>1. \A a, b \in Nat : a + b = 0 <=> a = 0 /\ b = 0
    OBVIOUS
  <2> HIDE DEF out, in
  <2>2. Degree(g, id) = 0 <=> Cardinality(out) = 0 /\ Cardinality(in) = 0
    BY <1>3, <1>4, <2>1
  <2> QED
    BY <1>3, <2>2
<1>6. Degree(g, id) = 1 => (Cardinality(out) = 1 /\ in = {}) \/ (Cardinality(in) = 1 /\ out = {})
  <2>1. \A a, b \in Nat : a + b = 1 => (a = 1 /\ b = 0) \/ (b = 1 /\ a = 0)
    OBVIOUS
  <2> HIDE DEF out, in
  <2>2. Degree(g, id) = 1 => \/ Cardinality(out) = 1 /\ Cardinality(in) = 0
                             \/ Cardinality(in) = 1 /\ Cardinality(out) = 0
    BY <1>3, <1>4, <2>1
  <2> QED
    BY <1>3, <2>2
<1>7. ASSUME Cardinality(out) = 1, in = {}
      PROVE  \E i \in DOMAIN g.edges : /\ At(g, id, i) /\ g.edges[i].source # g.edges[i].target
                                       /\ \A k \in DOMAIN g.edges : At(g, id, k) => k = i
  <2>1. PICK i : out = {i}
    BY <1>3, <1>7, FS_Singleton
  <2> QED
    BY <1>7, <2>1 DEF At
<1>8. ASSUME Cardinality(in) = 1, out = {}
      PROVE  \E i \in DOMAIN g.edges : /\ At(g, id, i) /\ g.edges[i].source # g.edges[i].target
                                       /\ \A k \in DOMAIN g.edges : At(g, id, k) => k = i
  <2>1. PICK i : in = {i}
    BY <1>3, <1>8, FS_Singleton
  <2> QED
    BY <1>8, <2>1 DEF At
<1>9. Degree(g, id) = 0 <=> \A i \in DOMAIN g.edges : ~At(g, id, i)
  BY <1>5 DEF At
<1> HIDE DEF out, in
<1> QED
  BY <1>6, <1>7, <1>8, <1>9

\* A leaf of a foldable type with a parent that is none.
Leaf(g, id) == NodeOf(g, id).type \in Foldable /\ Degree(g, id) = 1
Lone(g) == {id \in Ids(g.nodes) : Leaf(g, id) /\ ~Leaf(g, ParentOf(g, id))}

\* The one edge of a leaf leads to its parent, another node.
LEMMA ParentOfLeaf ==
  ASSUME NEW g, Prunable(g), NEW id \in Ids(g.nodes), Degree(g, id) = 1
  PROVE  /\ ParentOf(g, id) \in Ids(g.nodes) \ ZeroDegree(g)
         /\ ParentOf(g, id) # id
         /\ \A i \in DOMAIN g.edges : At(g, id, i) => {g.edges[i].source, g.edges[i].target} = {id, ParentOf(g, id)}
<1>1. PICK i \in DOMAIN g.edges :
               /\ At(g, id, i) /\ g.edges[i].source # g.edges[i].target
               /\ \A k \in DOMAIN g.edges : At(g, id, k) => k = i
  BY DegreeTells
<1> DEFINE Touches(e) == e.source = id \/ e.target = id
           chosen == CHOOSE e \in Range(g.edges) : Touches(e)
           e1 == g.edges[i]
<1>2. chosen \in Range(g.edges) /\ Touches(chosen)
  <2>1. e1 \in Range(g.edges) /\ Touches(e1)
    BY <1>1 DEF Range, At
  <2> HIDE DEF Touches
  <2> QED
    BY <2>1
<1>3. chosen = e1
  BY <1>1, <1>2 DEF Range, At
<1>4. ParentOf(g, id) = IF chosen.source = id THEN chosen.target ELSE chosen.source
  BY DEF ParentOf
<1> HIDE DEF chosen
<1>5. {e1.source, e1.target} = {id, ParentOf(g, id)} /\ ParentOf(g, id) # id
  BY <1>1, <1>3, <1>4 DEF At
<1>6. ParentOf(g, id) \in Ids(g.nodes)
  <2>1. {e1.source, e1.target} \subseteq Ids(g.nodes)
    BY DEF Prunable, Consistent, Range
  <2> QED
    BY <1>5, <2>1
<1>7. At(g, ParentOf(g, id), i)
  BY <1>5 DEF At
<1>8. ParentOf(g, id) \notin ZeroDegree(g)
  BY <1>7, DegreeTells DEF ZeroDegree
<1> QED
  BY <1>1, <1>5, <1>6, <1>8

\* Whatever leaves were folded before, the loop folds a leaf when its parent is none.
LEMMA FoldsLone ==
  ASSUME NEW g, Prunable(g), NEW folded \in SUBSET Lone(g), NEW id \in Ids(g.nodes)
  PROVE  Folds(g, folded, id) <=> id \in Lone(g)
<1>1. ASSUME Leaf(g, id), ~Leaf(g, ParentOf(g, id))
      PROVE  ParentOf(g, id) \notin ZeroDegree(g) /\ ParentOf(g, id) \notin folded
  <2>1. ParentOf(g, id) \notin ZeroDegree(g)
    BY <1>1, ParentOfLeaf DEF Leaf
  <2>2. ParentOf(g, id) \notin Lone(g)
    BY <1>1 DEF Lone
  <2> QED
    BY <2>1, <2>2
<1>2. Folds(g, folded, id) <=> /\ Leaf(g, id)
                               /\ ParentOf(g, id) \notin ZeroDegree(g) /\ ParentOf(g, id) \notin folded
                               /\ ~Leaf(g, ParentOf(g, id))
  BY DEF Folds, Leaf
<1> QED
  BY <1>1, <1>2 DEF Lone

\* The order of the loop does not matter (_heuristic_prune): it folds the leaves that have
\* a parent which is none, no more and no fewer.
LEMMA FoldedAreLone ==
  ASSUME NEW g, Prunable(g)
  PROVE  FoldedLeaves(g) = Lone(g)
<1> DEFINE S == Ids(g.nodes)
           After(id, folded) == IF Folds(g, folded, id) THEN folded \cup {id} ELSE folded
           Is(f) == f = [s \in SUBSET S |-> IF s = {} THEN {} ELSE After(LastOf(s), f[s \ {LastOf(s)}])]
           iter == CHOOSE f : Is(f)
<1>1. \A s \in SUBSET S : IsFiniteSet(s) /\ (s # {} => LastOf(s) \in s)
  <2> TAKE s \in SUBSET S
  <2>1. IsFiniteSet(s) /\ s \in SUBSET Places
    BY FS_Subset DEF Prunable
  <2> QED
    BY <2>1, LastOfIds
<1>2. \A s \in SUBSET S : \A id \in s : After(id, (s \ {id}) \cap Lone(g)) = s \cap Lone(g)
  <2> TAKE s \in SUBSET S
  <2> TAKE id \in s
  <2>1. Folds(g, (s \ {id}) \cap Lone(g), id) <=> id \in Lone(g)
    BY FoldsLone
  <2> QED
    BY <2>1
<1> HIDE DEF After
<1>3. Is([s \in SUBSET S |-> s \cap Lone(g)])
  BY <1>1, <1>2
<1> HIDE DEF Is
<1>4. Is(iter)
  BY <1>3
<1>5. FoldedLeaves(g) = iter[S]
  BY DEF FoldedLeaves, MapThenFoldSet, Is, After
<1> HIDE DEF iter
<1> DEFINE P == {k \in Nat : \A s \in SUBSET S : Cardinality(s) = k => iter[s] = s \cap Lone(g)}
<1>6. 0 \in P
  <2>1. \A s \in SUBSET S : Cardinality(s) = 0 => s = {}
    BY <1>1, FS_EmptySet
  <2>2. iter[{}] = {}
    BY <1>4 DEF Is
  <2> QED
    BY <2>1, <2>2
<1>7. ASSUME NEW k \in Nat, k \in P
      PROVE  k + 1 \in P
  <2> SUFFICES ASSUME NEW s \in SUBSET S, Cardinality(s) = k + 1
               PROVE  iter[s] = s \cap Lone(g)
    OBVIOUS
  <2>1. s # {}
    BY FS_EmptySet
  <2> DEFINE id == LastOf(s)
  <2>2. id \in s
    BY <1>1, <2>1
  <2>3. iter[s] = After(id, iter[s \ {id}])
    BY <1>4, <2>1 DEF Is
  <2> HIDE DEF id
  <2>4. Cardinality(s \ {id}) = k
    BY <1>1, <2>2, FS_RemoveElement
  <2>5. iter[s \ {id}] = (s \ {id}) \cap Lone(g)
    BY <1>7, <2>4
  <2> QED
    BY <1>2, <2>2, <2>3, <2>5
<1> HIDE DEF P
<1>8. Nat \subseteq P
  BY <1>6, <1>7, HandedOn
<1>9. Cardinality(S) \in Nat
  BY <1>1, FS_CardinalityType
<1>10. iter[S] = S \cap Lone(g)
  BY <1>8, <1>9 DEF P
<1> QED
  BY <1>5, <1>10 DEF Lone

-----------------------------------------------------------------------------
\* ---- What pruning keeps -------------------------------------------------
Gone(g) == ZeroDegree(g) \cup Lone(g)
Left(g) == Ids(g.nodes) \ Gone(g)

LEMMA Pruned ==
  ASSUME NEW g, Prunable(g)
  PROVE  /\ Prune(g).nodes = {[n EXCEPT !.folded = {l \in Lone(g) : ParentOf(g, l) = n.id}] : n \in {m \in g.nodes : m.id \notin Gone(g)}}
         /\ Prune(g).edges = EdgesWithin(Left(g), g.edges)
BY FoldedAreLone DEF Prune, Gone, Left

\* A node of a merged graph has these fields.
NodeFields == {"id", "label", "type", "span", "confidence", "aliases", "folded"}
Shaped(nodes) == \A n \in nodes : n = [field \in NodeFields |-> n[field]]

\* The node n when it is left, after both passes that follow the merge.
Final(g, n) == Sanitized([n EXCEPT !.folded = {l \in Lone(g) : ParentOf(g, l) = n.id}])

LEMMA FinalNode ==
  ASSUME NEW g, NEW n, n = [field \in NodeFields |-> n[field]]
  PROVE  /\ Final(g, n).id = n.id /\ Final(g, n).aliases = n.aliases
         /\ Final(g, n).folded = {l \in Lone(g) : ParentOf(g, l) = n.id}
         /\ Final(g, n).span = n.span /\ Final(g, n).confidence = n.confidence
<1> DEFINE m == [n EXCEPT !.folded = {l \in Lone(g) : ParentOf(g, l) = n.id}]
<1>1. DOMAIN n = NodeFields
  OBVIOUS
<1>2. /\ m.id = n.id /\ m.aliases = n.aliases /\ m.span = n.span /\ m.confidence = n.confidence /\ DOMAIN m = NodeFields
      /\ m.folded = {l \in Lone(g) : ParentOf(g, l) = n.id}
  BY <1>1 DEF NodeFields
<1> HIDE DEF m
<1>3. /\ Sanitized(m).id = m.id /\ Sanitized(m).aliases = m.aliases /\ Sanitized(m).folded = m.folded
      /\ Sanitized(m).span = m.span /\ Sanitized(m).confidence = m.confidence
  BY <1>2 DEF Sanitized, NodeFields
<1>4. Final(g, n) = Sanitized(m)
  BY DEF Final, m
<1> QED
  BY <1>2, <1>3, <1>4

LEMMA SanitizedGraph ==
  ASSUME NEW g, Prunable(g)
  PROVE  /\ SanitizeLabels(Prune(g)).nodes = {Final(g, n) : n \in {m \in g.nodes : m.id \notin Gone(g)}}
         /\ SanitizeLabels(Prune(g)).edges = EdgesWithin(Left(g), g.edges)
<1> DEFINE p == Prune(g)
           kept == {m \in g.nodes : m.id \notin Gone(g)}
           Marked(n) == [n EXCEPT !.folded = {l \in Lone(g) : ParentOf(g, l) = n.id}]
<1>1. p.nodes = {Marked(n) : n \in kept} /\ p.edges = EdgesWithin(Left(g), g.edges)
  BY Pruned
<1>2. p = [nodes |-> p.nodes, edges |-> p.edges]
  BY DEF Prune
<1> HIDE DEF p
<1>3. SanitizeLabels(p).nodes = {Sanitized(n) : n \in p.nodes} /\ SanitizeLabels(p).edges = p.edges
  BY <1>2 DEF SanitizeLabels
<1>4. {Sanitized(n) : n \in p.nodes} = {Final(g, n) : n \in kept}
  <2> HIDE DEF Marked, kept
  <2>1. {Sanitized(n) : n \in p.nodes} = {Sanitized(Marked(n)) : n \in kept}
    BY <1>1
  <2>2. \A n : Final(g, n) = Sanitized(Marked(n))
    BY DEF Final, Marked
  <2> QED
    BY <2>1, <2>2
<1> QED
  BY <1>1, <1>3, <1>4 DEF p

\* Pruning and renaming leave the graph consistent and tell what went where.
LEMMA PrunedGraph ==
  ASSUME NEW g, Prunable(g), Shaped(g.nodes), KeysDistinct(g.edges)
  PROVE  LET out == SanitizeLabels(Prune(g))
         IN /\ Ids(out.nodes) = Left(g)
            /\ MergeIsConsistent(out)
            /\ IsolatedHasFolded(out)
            /\ \A e \in Range(g.edges) : {e.source, e.target} \subseteq Left(g) => e \in Range(out.edges)
            /\ \A n \in g.nodes :
                  \/ n.id \in ZeroDegree(g)
                  \/ \E m \in out.nodes : m.id = n.id /\ m.aliases = n.aliases
                  \/ \E m \in out.nodes : n.id \in m.folded
<1> DEFINE out == SanitizeLabels(Prune(g))
<1>1. /\ out.nodes = {Final(g, n) : n \in {m \in g.nodes : m.id \notin Gone(g)}}
      /\ out.edges = EdgesWithin(Left(g), g.edges)
  BY SanitizedGraph
<1>2. \A n \in g.nodes : /\ Final(g, n).id = n.id /\ Final(g, n).aliases = n.aliases
                          /\ Final(g, n).folded = {l \in Lone(g) : ParentOf(g, l) = n.id}
  BY FinalNode DEF Shaped
<1>3. \A m, n \in g.nodes : m.id = n.id => m = n
  BY DEF Prunable, Consistent
<1> HIDE DEF out
<1>4. Ids(out.nodes) = Left(g)
  BY <1>1, <1>2 DEF Ids, Left
<1>5. /\ out.edges \in Seq(Range(g.edges)) /\ KeysDistinct(out.edges)
      /\ Range(out.edges) = {e \in Range(g.edges) : {e.source, e.target} \subseteq Left(g)}
  BY <1>1, EdgesWithinKeeps DEF Prunable
<1>6. MergeIsConsistent(out)
  <2>1. \A m, n \in out.nodes : m.id = n.id => m = n
    BY <1>1, <1>2, <1>3
  <2> QED
    BY <1>4, <1>5, <2>1 DEF MergeIsConsistent, Consistent, KeysDistinct
<1>7. ASSUME NEW n \in g.nodes
      PROVE  \/ n.id \in ZeroDegree(g)
             \/ \E m \in out.nodes : m.id = n.id /\ m.aliases = n.aliases
             \/ \E m \in out.nodes : n.id \in m.folded
  <2>1. CASE n.id \in Lone(g)
    <3> DEFINE p == ParentOf(g, n.id)
    <3>1. p \in Ids(g.nodes) \ ZeroDegree(g) /\ p \notin Lone(g)
      BY <2>1, ParentOfLeaf DEF Lone, Leaf
    <3>2. PICK m \in g.nodes : m.id = p
      BY <3>1 DEF Ids
    <3>3. Final(g, m) \in out.nodes
      BY <1>1, <3>1, <3>2 DEF Gone
    <3>4. n.id \in Final(g, m).folded
      BY <1>2, <2>1, <3>2
    <3> QED
      BY <3>3, <3>4
  <2>2. CASE n.id \notin Lone(g) /\ n.id \notin ZeroDegree(g)
    <3>1. Final(g, n) \in out.nodes
      BY <1>1, <2>2 DEF Gone
    <3> QED
      BY <1>2, <3>1
  <2> QED
    BY <2>1, <2>2
<1>8. IsolatedHasFolded(out)
  <2> SUFFICES ASSUME NEW m \in out.nodes, m.id \in ZeroDegree(out)
               PROVE  m.folded # {}
    BY DEF IsolatedHasFolded
  <2>1. PICK n \in g.nodes : m = Final(g, n) /\ n.id \notin Gone(g)
    BY <1>1
  <2>2. m.id = n.id /\ m.folded = {l \in Lone(g) : ParentOf(g, l) = n.id}
    BY <1>2, <2>1
  <2>3. n.id \in Ids(g.nodes) /\ Degree(g, n.id) # 0
    BY <2>1 DEF Gone, ZeroDegree, Ids
  <2>4. PICK i \in DOMAIN g.edges : At(g, n.id, i)
    BY <2>3, DegreeTells
  <2> DEFINE e == g.edges[i]
  <2>5. e \in Range(g.edges) /\ {e.source, e.target} \subseteq Ids(g.nodes)
    BY DEF Prunable, Consistent, Range
  <2>6. e \notin Range(out.edges)
    <3>1. Degree(out, n.id) = 0
      BY <2>2 DEF ZeroDegree
    <3>2. Prunable(out)
      <4>1. IsFiniteSet(Left(g)) /\ Left(g) \subseteq Places
        BY FS_Subset DEF Prunable, Left
      <4>2. out.edges \in Seq(Range(out.edges))
        BY <1>5 DEF Range
      <4> QED
        BY <1>4, <1>6, <4>1, <4>2 DEF Prunable, MergeIsConsistent
    <3>3. \A k \in DOMAIN out.edges : ~At(out, n.id, k)
      BY <3>1, <3>2, DegreeTells
    <3> QED
      BY <2>4, <3>3 DEF At, Range
  <2>7. PICK l \in {e.source, e.target} : l \in Gone(g)
    BY <1>5, <2>5, <2>6 DEF Left
  <2>8. At(g, l, i)
    BY DEF At
  <2>9. l \in Lone(g)
    BY <2>5, <2>7, <2>8, DegreeTells DEF Gone, ZeroDegree
  <2>10. {e.source, e.target} = {l, ParentOf(g, l)}
    BY <2>8, <2>9, ParentOfLeaf DEF Lone, Leaf
  <2>11. n.id \in {e.source, e.target} /\ n.id # l
    BY <2>1, <2>4, <2>7 DEF At
  <2>12. ParentOf(g, l) = n.id
    BY <2>10, <2>11
  <2> QED
    BY <2>2, <2>9, <2>12
<1> QED
  BY <1>4, <1>5, <1>6, <1>7, <1>8 DEF out

-----------------------------------------------------------------------------
\* ---- What the merge itself makes of chunks and edges --------------------
\* Nodes as the chunks bring them, with ids of some set, and edges between ends of some set.
NodesOf(ids, labels, types) == [id : ids, label : labels, type : types, span : Nat, confidence : Nat]
EdgesOf(ends, labels, types) == [source : ends, target : ends, type : types, label : labels, span : Nat]

LEMMA RenamedNodes ==
  ASSUME NEW labels, NEW types, NEW chunks \in Seq(Seq(NodesOf(Nat, labels, types)))
  PROVE  Renamed(chunks) \in Seq(NodesOf(Places, labels, types))
<1> DEFINE N == NodesOf(Places, labels, types)
           own == [c \in DOMAIN chunks |-> [i \in DOMAIN chunks[c] |-> [chunks[c][i] EXCEPT !.id = <<c, @>>]]]
<1>1. DOMAIN chunks = 1..Len(chunks) /\ Len(chunks) \in Nat
  OBVIOUS
<1>2. ASSUME NEW c \in DOMAIN chunks
      PROVE  own[c] \in Seq(N)
  <2> DEFINE list == chunks[c]
  <2>1. list \in Seq(NodesOf(Nat, labels, types)) /\ c \in Nat
    BY <1>1
  <2>2. DOMAIN list = 1..Len(list) /\ Len(list) \in Nat
    BY <2>1
  <2>3. ASSUME NEW i \in 1..Len(list)
        PROVE  [list[i] EXCEPT !.id = <<c, @>>] \in N
    <3>1. list[i] \in NodesOf(Nat, labels, types)
      BY <2>1
    <3> HIDE DEF list
    <3>2. list[i].id \in Nat /\ <<c, list[i].id>> \in Places
      BY <2>1, <3>1 DEF Places, NodesOf
    <3> QED
      BY <3>1, <3>2 DEF NodesOf
  <2>4. own[c] = [i \in 1..Len(list) |-> [list[i] EXCEPT !.id = <<c, @>>]]
    BY <2>2
  <2> HIDE DEF list, own, N
  <2> QED
    BY <2>2, <2>3, <2>4
<1>3. own \in Seq(Seq(N))
  <2> HIDE DEF N
  <2>1. own = [c \in 1..Len(chunks) |-> own[c]]
    BY <1>1
  <2> HIDE DEF own
  <2> QED
    BY <1>1, <1>2, <2>1
<1>4. Renamed(chunks) = FlattenSeq(own)
  BY DEF Renamed
<1> HIDE DEF own, N
<1> QED
  BY <1>3, <1>4, FlattenedSequences DEF N

\* The canonical node of a node has its key and is one of them.
LEMMA CanonicalNode ==
  ASSUME NEW N, NEW all \in Seq(N), NEW n \in Range(all)
  PROVE  \E r \in Range(all) : Canonical(all, n) = r.id /\ NodeKey(r) = NodeKey(n)
<1> DEFINE same == {i \in DOMAIN all : NodeKey(all[i]) = NodeKey(n)}
<1>1. same \in SUBSET Nat /\ same # {}
  BY DEF Range
<1>2. Min(same) \in same
  BY <1>1, LeastOf
<1>3. Canonical(all, n) = all[Min(same)].id
  BY DEF Canonical
<1> QED
  BY <1>2, <1>3 DEF Range

LEMMA MergedNodes ==
  ASSUME NEW labels, NEW types, NEW all \in Seq(NodesOf(Places, labels, types))
  PROVE  /\ Ids(MergeNodes(all)) = {Canonical(all, n) : n \in Range(all)}
         /\ Ids(MergeNodes(all)) \subseteq Places /\ IsFiniteSet(Ids(MergeNodes(all)))
         /\ Shaped(MergeNodes(all))
         /\ \A m, n \in MergeNodes(all) : m.id = n.id => m = n
         /\ \A id \in DOMAIN IdMap(all) : \E n \in MergeNodes(all) : n.id = IdMap(all)[id] /\ id \in n.aliases
<1> DEFINE roots == {Canonical(all, n) : n \in Range(all)}
           ids == {r.id : r \in Range(all)}
<1>1. MergeNodes(all) = {MergedNode(all, root) : root \in roots}
  BY DEF MergeNodes
<1>2. \A root : /\ MergedNode(all, root).id = root
                /\ MergedNode(all, root).aliases = {n.id : n \in {k \in Range(all) : Canonical(all, k) = root}}
                /\ MergedNode(all, root) = [field \in NodeFields |-> MergedNode(all, root)[field]]
  <2> TAKE root
  <2> DEFINE aliases == {n \in Range(all) : Canonical(all, n) = root}
  <2>1. PICK label, type, span, confidence :
          MergedNode(all, root) = [id |-> root, label |-> label, type |-> type, span |-> span,
                                   confidence |-> confidence, aliases |-> Ids(aliases), folded |-> {}]
    BY DEF MergedNode
  <2> HIDE DEF aliases
  <2>2. MergedNode(all, root) = [field \in NodeFields |-> MergedNode(all, root)[field]]
    BY <2>1 DEF NodeFields
  <2>3. MergedNode(all, root).id = root /\ MergedNode(all, root).aliases = Ids(aliases)
    BY <2>1
  <2> QED
    BY <2>2, <2>3 DEF Ids, aliases
<1>3. roots \subseteq ids
  BY CanonicalNode
<1>4. ids \subseteq Places
  <2>1. \A r \in Range(all) : r \in NodesOf(Places, labels, types)
    BY DEF Range
  <2> QED
    BY <2>1 DEF NodesOf
<1>5. IsFiniteSet(roots)
  <2>1. IsFiniteSet(Range(all))
    BY FiniteRange
  <2> DEFINE f == [n \in Range(all) |-> Canonical(all, n)]
  <2>2. f \in Surjection(Range(all), roots)
    BY DEF Surjection
  <2> QED
    BY <2>1, <2>2, FS_Surjection
<1> HIDE DEF roots, ids
<1>6. Ids(MergeNodes(all)) = roots
  <2>1. Ids(MergeNodes(all)) = {MergedNode(all, root).id : root \in roots}
    BY <1>1 DEF Ids
  <2>2. \A root \in roots : MergedNode(all, root).id = root
    BY <1>2
  <2> QED
    BY <2>1, <2>2
<1>7. Shaped(MergeNodes(all)) /\ \A m, n \in MergeNodes(all) : m.id = n.id => m = n
  BY <1>1, <1>2 DEF Shaped
<1>8. ASSUME NEW id \in DOMAIN IdMap(all)
      PROVE  \E n \in MergeNodes(all) : n.id = IdMap(all)[id] /\ id \in n.aliases
  <2> DEFINE k == CHOOSE n \in Range(all) : n.id = id
  <2>1. k \in Range(all) /\ k.id = id
    BY DEF IdMap, Ids
  <2>2. IdMap(all)[id] = Canonical(all, k)
    BY DEF IdMap
  <2> HIDE DEF k
  <2>3. Canonical(all, k) \in roots
    BY <2>1 DEF roots
  <2>4. MergedNode(all, Canonical(all, k)) \in MergeNodes(all)
    BY <1>1, <2>3
  <2>5. id \in MergedNode(all, Canonical(all, k)).aliases
    BY <1>2, <2>1
  <2> QED
    BY <1>2, <2>2, <2>4, <2>5
<1> QED
  BY <1>3, <1>4, <1>5, <1>6, <1>7, <1>8 DEF roots

\* The edges under the ids of the merged nodes.
LEMMA RemappedEdges ==
  ASSUME NEW labels, NEW types, NEW all \in Seq(NodesOf(Places, labels, types)),
         NEW ends, Places \subseteq ends, NEW words, NEW kinds, NEW e \in EdgesOf(ends, words, kinds)
  PROVE  Remapped(IdMap(all), e) \in EdgesOf(ends, words, kinds)
<1>1. \A id \in ends : Mapped(IdMap(all), id) \in ends
  <2> TAKE id \in ends
  <2>1. CASE id \notin DOMAIN IdMap(all)
    BY <2>1 DEF Mapped
  <2>2. CASE id \in DOMAIN IdMap(all)
    <3>1. \E n \in MergeNodes(all) : n.id = IdMap(all)[id]
      BY <2>2, MergedNodes
    <3>2. IdMap(all)[id] \in Places
      BY <3>1, MergedNodes DEF Ids
    <3> QED
      BY <2>2, <3>2 DEF Mapped
  <2> QED
    BY <2>1, <2>2
<1> QED
  BY <1>1 DEF Remapped, EdgesOf

\* The graph before it is pruned.
LEMMA MergedGraph ==
  ASSUME NEW labels, NEW types, NEW chunks \in Seq(Seq(NodesOf(Nat, labels, types))),
         NEW ends, Places \subseteq ends, NEW words, NEW kinds, NEW edges \in Seq(EdgesOf(ends, words, kinds))
  PROVE  LET all == Renamed(chunks)
             g == Merged(chunks, edges)
         IN /\ Prunable(g) /\ Shaped(g.nodes) /\ KeysDistinct(g.edges)
            /\ g.nodes = MergeNodes(all)
            /\ \A i \in DOMAIN edges :
                  LET e == Remapped(IdMap(all), edges[i])
                  IN {e.source, e.target} \subseteq Ids(g.nodes) =>
                        \E k \in Range(g.edges) : EdgeKey(k) = EdgeKey(e) /\ k.span >= e.span
<1> DEFINE all == Renamed(chunks)
           g == Merged(chunks, edges)
           W == EdgesOf(ends, words, kinds)
           map == IdMap(all)
           told == MergeEdges(edges, map)
<1>1. all \in Seq(NodesOf(Places, labels, types))
  BY RenamedNodes
<1>2. g = [nodes |-> MergeNodes(all), edges |-> EdgesWithin(Ids(MergeNodes(all)), told)]
  BY DEF Merged
<1> HIDE DEF all, g
<1>3. \A w \in W : w.span \in Nat
  BY DEF EdgesOf
<1>4. DOMAIN edges = 1..Len(edges) /\ Len(edges) \in Nat /\ \A i \in DOMAIN edges : edges[i] \in W
  OBVIOUS
<1>5. \A i \in DOMAIN edges : Remapped(map, edges[i]) \in W
  BY <1>1, <1>4, RemappedEdges
<1> HIDE DEF W, map
<1>6. told \in Seq(W) /\ KeysDistinct(told) /\ \A i \in DOMAIN edges : Told(told, Remapped(map, edges[i]))
  BY <1>3, <1>4, <1>5, MergedEdgesSay
<1> HIDE DEF told
<1>7. /\ g.edges \in Seq(W) /\ KeysDistinct(g.edges)
      /\ Range(g.edges) = {e \in Range(told) : {e.source, e.target} \subseteq Ids(g.nodes)}
  BY <1>2, <1>6, EdgesWithinKeeps
<1>8. Prunable(g) /\ Shaped(g.nodes)
  <2>1. g.edges \in Seq(Range(g.edges))
    <3> DEFINE list == g.edges
    <3>1. DOMAIN list = 1..Len(list) /\ Len(list) \in Nat /\ list = [i \in 1..Len(list) |-> list[i]]
      BY <1>7
    <3>2. \A i \in 1..Len(list) : list[i] \in Range(list)
      BY <3>1 DEF Range
    <3> HIDE DEF list
    <3>3. list \in Seq(Range(list))
      BY <3>1, <3>2
    <3> QED
      BY <3>3 DEF list
  <2>2. /\ Ids(g.nodes) \subseteq Places /\ IsFiniteSet(Ids(g.nodes)) /\ Shaped(g.nodes)
        /\ \A m, n \in g.nodes : m.id = n.id => m = n
    BY <1>1, <1>2, MergedNodes
  <2> QED
    BY <1>7, <2>1, <2>2 DEF Prunable, Consistent
<1>9. ASSUME NEW i \in DOMAIN edges, {Remapped(map, edges[i]).source, Remapped(map, edges[i]).target} \subseteq Ids(g.nodes)
      PROVE  \E k \in Range(g.edges) : EdgeKey(k) = EdgeKey(Remapped(map, edges[i])) /\ k.span >= Remapped(map, edges[i]).span
  <2> DEFINE e == Remapped(map, edges[i])
  <2>1. PICK j \in DOMAIN told : EdgeKey(told[j]) = EdgeKey(e) /\ told[j].span >= e.span
    BY <1>6 DEF Told
  <2>2. told[j].source = e.source /\ told[j].target = e.target
    BY <2>1 DEF EdgeKey
  <2>3. told[j] \in Range(g.edges)
    BY <1>7, <1>9, <2>2 DEF Range
  <2> QED
    BY <2>1, <2>3
<1> QED
  BY <1>2, <1>7, <1>8, <1>9 DEF all, g, map

-----------------------------------------------------------------------------
\* For every chunks and edges (merge_graphs with prune): a chunked extraction never ends
\* in a graph that its validator refuses, and no relation is in it twice.
THEOREM MergedGraphAccepted ==
  ASSUME NEW labels, NEW types, NEW chunks \in Seq(Seq(NodesOf(Nat, labels, types))),
         NEW ends, Places \subseteq ends, NEW words, NEW kinds, NEW edges \in Seq(EdgesOf(ends, words, kinds))
  PROVE  MergeIsConsistent(MergeGraphs(chunks, edges))
<1> DEFINE g == Merged(chunks, edges)
<1>1. Prunable(g) /\ Shaped(g.nodes) /\ KeysDistinct(g.edges)
  BY MergedGraph
<1>2. MergeGraphs(chunks, edges) = SanitizeLabels(Prune(g))
  BY DEF MergeGraphs
<1> HIDE DEF g
<1> QED
  BY <1>1, <1>2, PrunedGraph

\* And a node of it that no relation names has swallowed its neighbours: what was
\* isolated before is purged.
THEOREM IsolatedHasSwallowed ==
  ASSUME NEW labels, NEW types, NEW chunks \in Seq(Seq(NodesOf(Nat, labels, types))),
         NEW ends, Places \subseteq ends, NEW words, NEW kinds, NEW edges \in Seq(EdgesOf(ends, words, kinds))
  PROVE  IsolatedHasFolded(MergeGraphs(chunks, edges))
<1> DEFINE g == Merged(chunks, edges)
<1>1. Prunable(g) /\ Shaped(g.nodes) /\ KeysDistinct(g.edges)
  BY MergedGraph
<1>2. MergeGraphs(chunks, edges) = SanitizeLabels(Prune(g))
  BY DEF MergeGraphs
<1> HIDE DEF g
<1> QED
  BY <1>1, <1>2, PrunedGraph

\* Every node of every chunk is in the graph, noted as a folded leaf, or nothing pointed
\* at it; a relation between two nodes that are left keeps its longest evidence.
THEOREM MergeLosesNoEvidence ==
  ASSUME NEW labels, NEW types, NEW chunks \in Seq(Seq(NodesOf(Nat, labels, types))),
         NEW ends, Places \subseteq ends, NEW words, NEW kinds, NEW edges \in Seq(EdgesOf(ends, words, kinds))
  PROVE  MergeLosesNothing(chunks, edges, MergeGraphs(chunks, edges))
<1> DEFINE g == Merged(chunks, edges)
           all == Renamed(chunks)
           map == IdMap(all)
           out == MergeGraphs(chunks, edges)
<1>1. /\ Prunable(g) /\ Shaped(g.nodes) /\ KeysDistinct(g.edges)
      /\ g.nodes = MergeNodes(all)
      /\ \A i \in DOMAIN edges :
            LET e == Remapped(map, edges[i])
            IN {e.source, e.target} \subseteq Ids(g.nodes) =>
                  \E k \in Range(g.edges) : EdgeKey(k) = EdgeKey(e) /\ k.span >= e.span
  BY MergedGraph
<1>2. all \in Seq(NodesOf(Places, labels, types))
  BY RenamedNodes
<1>3. out = SanitizeLabels(Prune(g))
  BY DEF MergeGraphs
<1> HIDE DEF g, all, out
<1>4. \A id \in DOMAIN map : \E n \in g.nodes : n.id = map[id] /\ id \in n.aliases
  BY <1>1, <1>2, MergedNodes
<1>5. /\ Ids(out.nodes) = Left(g)
      /\ \A e \in Range(g.edges) : {e.source, e.target} \subseteq Left(g) => e \in Range(out.edges)
      /\ \A n \in g.nodes : \/ n.id \in ZeroDegree(g)
                            \/ \E m \in out.nodes : m.id = n.id /\ m.aliases = n.aliases
                            \/ \E m \in out.nodes : n.id \in m.folded
  BY <1>1, <1>3, PrunedGraph
<1> HIDE DEF map
<1>6. \A id \in DOMAIN map : \/ map[id] \in ZeroDegree(g)
                             \/ \E n \in out.nodes : id \in n.aliases \/ map[id] \in n.folded
  BY <1>4, <1>5
<1>7. ASSUME NEW i \in DOMAIN edges, {Remapped(map, edges[i]).source, Remapped(map, edges[i]).target} \subseteq Ids(out.nodes)
      PROVE  \E k \in Range(out.edges) : EdgeKey(k) = EdgeKey(Remapped(map, edges[i])) /\ k.span >= Remapped(map, edges[i]).span
  <2> DEFINE e == Remapped(map, edges[i])
  <2>1. Left(g) \subseteq Ids(g.nodes)
    BY DEF Left
  <2>2. PICK k \in Range(g.edges) : EdgeKey(k) = EdgeKey(e) /\ k.span >= e.span
    BY <1>1, <1>5, <1>7, <2>1
  <2>3. k.source = e.source /\ k.target = e.target
    BY <2>2 DEF EdgeKey
  <2>4. k \in Range(out.edges)
    BY <1>5, <1>7, <2>3
  <2> QED
    BY <2>2, <2>4
<1> QED
  BY <1>6, <1>7 DEF MergeLosesNothing, all, g, map, out

-----------------------------------------------------------------------------
\* ---- The order of the chunks --------------------------------------------
\* The renamed nodes have ids that tell them apart (they are the keys of a dict).
OwnIds(nodes) == \A m, n \in nodes : m.id = n.id => m = n

KeyOf(all, id) == NodeKey(CHOOSE n \in Range(all) : n.id = id)

LEMMA KeyOfNode ==
  ASSUME NEW all, OwnIds(Range(all)), NEW n \in Range(all)
  PROVE  KeyOf(all, n.id) = NodeKey(n)
<1> DEFINE m == CHOOSE k \in Range(all) : k.id = n.id
<1>1. m \in Range(all) /\ m.id = n.id
  OBVIOUS
<1> HIDE DEF m
<1>2. m = n
  BY <1>1 DEF OwnIds
<1> QED
  BY <1>2 DEF KeyOf, m

\* Nodes of one key, and only they, have one canonical id, of the same key.
LEMMA CanonicalKeys ==
  ASSUME NEW N, NEW all \in Seq(N), OwnIds(Range(all)), NEW m \in Range(all), NEW n \in Range(all)
  PROVE  /\ Canonical(all, m) \in Ids(Range(all)) /\ KeyOf(all, Canonical(all, m)) = NodeKey(m)
         /\ Canonical(all, m) = Canonical(all, n) <=> NodeKey(m) = NodeKey(n)
<1>1. \A k \in Range(all) : Canonical(all, k) \in Ids(Range(all)) /\ KeyOf(all, Canonical(all, k)) = NodeKey(k)
  <2> TAKE k \in Range(all)
  <2>1. PICK r \in Range(all) : Canonical(all, k) = r.id /\ NodeKey(r) = NodeKey(k)
    BY CanonicalNode
  <2> QED
    BY <2>1, KeyOfNode DEF Ids
<1>2. NodeKey(m) = NodeKey(n) => Canonical(all, m) = Canonical(all, n)
  BY DEF Canonical
<1> QED
  BY <1>1, <1>2

\* What a list of nodes says of each key, and a list of edges of the keys it joins.
View(all) == {<<NodeKey(n), n.span, n.confidence>> : n \in Range(all)}
EdgeView(all, e) == <<KeyOf(all, e.source), KeyOf(all, e.target), e.type, e.label, e.span>>
EdgeViews(all, edges) == {EdgeView(all, e) : e \in Range(edges)}

\* The graph as a function of the two, without the names of its nodes.
Keys(view) == {v[1] : v \in view}
SpanOfKey(view, k) == Max({v[2] : v \in {w \in view : w[1] = k}})
TrustOfKey(view, k) == Max({v[3] : v \in {w \in view : w[1] = k}})
DegreeOfKey(joins, k) == Cardinality({f \in joins : f[1] = k}) + Cardinality({f \in joins : f[2] = k})
ParentKey(joins, k) ==
    LET f == CHOOSE j \in joins : j[1] = k \/ j[2] = k IN IF f[1] = k THEN f[2] ELSE f[1]
LeafKey(joins, k) == k[2] \in Foldable /\ DegreeOfKey(joins, k) = 1
LoneKeys(view, joins) == {k \in Keys(view) : LeafKey(joins, k) /\ ~LeafKey(joins, ParentKey(joins, k))}
GoneKeys(view, joins) == {k \in Keys(view) : DegreeOfKey(joins, k) = 0} \cup LoneKeys(view, joins)
Shape(view, joins) ==
    <<{<<k, SpanOfKey(view, k), TrustOfKey(view, k), {l \in LoneKeys(view, joins) : ParentKey(joins, l) = k}>> :
          k \in Keys(view) \ GoneKeys(view, joins)},
      {f \in joins : f[1] \notin GoneKeys(view, joins) /\ f[2] \notin GoneKeys(view, joins)}>>

\* A graph of the merged nodes of a list.
Built(all, g) ==
    /\ Prunable(g) /\ Shaped(g.nodes) /\ KeysDistinct(g.edges)
    /\ g.nodes = MergeNodes(all) /\ OwnIds(Range(all))

\* The nodes of such a graph stand for the keys, one for each.
LEMMA NodesForKeys ==
  ASSUME NEW labels, NEW types, NEW all \in Seq(NodesOf(Places, labels, types)), NEW g, Built(all, g)
  PROVE  /\ {KeyOf(all, id) : id \in Ids(g.nodes)} = Keys(View(all))
         /\ \A a, b \in Ids(g.nodes) : KeyOf(all, a) = KeyOf(all, b) => a = b
         /\ \A n \in g.nodes : /\ n.span = SpanOfKey(View(all), KeyOf(all, n.id))
                               /\ n.confidence = TrustOfKey(View(all), KeyOf(all, n.id))
                               /\ n.type = KeyOf(all, n.id)[2]
<1> DEFINE N == NodesOf(Places, labels, types)
<1>0. all \in Seq(N) /\ OwnIds(Range(all))
  BY DEF Built
<1> HIDE DEF N
<1>1. Ids(g.nodes) = {Canonical(all, n) : n \in Range(all)}
  BY MergedNodes DEF Built
<1>2. \A n \in Range(all) : KeyOf(all, Canonical(all, n)) = NodeKey(n)
  BY <1>0, CanonicalKeys
<1>3. {KeyOf(all, id) : id \in Ids(g.nodes)} = {NodeKey(n) : n \in Range(all)}
  BY <1>1, <1>2
<1>4. Keys(View(all)) = {NodeKey(n) : n \in Range(all)}
  <2>1. \A v \in View(all) : \E n \in Range(all) : v[1] = NodeKey(n)
    BY DEF View
  <2>2. \A n \in Range(all) : \E v \in View(all) : v[1] = NodeKey(n)
    <3> TAKE n \in Range(all)
    <3>1. <<NodeKey(n), n.span, n.confidence>> \in View(all)
      BY DEF View
    <3> QED
      BY <3>1
  <2> QED
    BY <2>1, <2>2 DEF Keys
<1>5. ASSUME NEW a \in Ids(g.nodes), NEW b \in Ids(g.nodes), KeyOf(all, a) = KeyOf(all, b)
      PROVE  a = b
  <2>1. PICK m \in Range(all) : a = Canonical(all, m)
    BY <1>1
  <2>2. PICK n \in Range(all) : b = Canonical(all, n)
    BY <1>1
  <2>3. NodeKey(m) = NodeKey(n)
    BY <1>2, <1>5, <2>1, <2>2
  <2> QED
    BY <1>0, <2>1, <2>2, <2>3, CanonicalKeys
<1>6. ASSUME NEW node \in g.nodes
      PROVE  /\ node.span = SpanOfKey(View(all), KeyOf(all, node.id))
             /\ node.confidence = TrustOfKey(View(all), KeyOf(all, node.id))
             /\ node.type = KeyOf(all, node.id)[2]
  <2>1. PICK n \in Range(all) : node = MergedNode(all, Canonical(all, n))
    BY DEF Built, MergeNodes
  <2> DEFINE root == Canonical(all, n)
             key == NodeKey(n)
             aliases == {k \in Range(all) : Canonical(all, k) = root}
             same == {k \in Range(all) : NodeKey(k) = key}
             representative == CHOOSE k \in aliases : k.id = root
             of == {w \in View(all) : w[1] = key}
  <2>2. aliases = same
    BY <1>0, CanonicalKeys
  <2>3. node = [id |-> root, label |-> representative.label, type |-> representative.type,
                span |-> BestSpan(aliases), confidence |-> Max({k.confidence : k \in aliases}),
                aliases |-> Ids(aliases), folded |-> {}]
    BY <2>1 DEF MergedNode
  <2>4. representative \in aliases
    <3>1. root \in Ids(Range(all)) /\ KeyOf(all, root) = key
      BY <1>0, CanonicalKeys
    <3>2. PICK r \in Range(all) : r.id = root
      BY <3>1 DEF Ids
    <3>3. NodeKey(r) = key
      BY <1>0, <3>1, <3>2, KeyOfNode
    <3>4. r \in aliases /\ r.id = root
      BY <2>2, <3>2, <3>3
    <3> HIDE DEF aliases
    <3> QED
      BY <3>4
  <2> HIDE DEF representative, aliases, root
  <2>5. node.id = root /\ node.type = representative.type /\ node.span = BestSpan(aliases)
        /\ node.confidence = Max({k.confidence : k \in aliases})
    BY <2>3
  <2>6. KeyOf(all, node.id) = key
    BY <1>2, <2>5 DEF root
  <2>7. {v[2] : v \in of} = {k.span : k \in same} /\ {v[3] : v \in of} = {k.confidence : k \in same}
    <3>1. \A v \in of : \E k \in same : v[2] = k.span /\ v[3] = k.confidence
      BY DEF View
    <3>2. \A k \in same : \E v \in of : v[2] = k.span /\ v[3] = k.confidence
      <4> TAKE k \in same
      <4>1. <<NodeKey(k), k.span, k.confidence>> \in of
        BY DEF View
      <4> QED
        BY <4>1
    <3> HIDE DEF of, same
    <3> QED
      BY <3>1, <3>2
  <2>8. node.type = key[2]
    <3>1. NodeKey(representative) = key
      BY <2>2, <2>4
    <3> HIDE DEF key
    <3> QED
      BY <2>5, <3>1 DEF NodeKey
  <2> QED
    BY <2>2, <2>5, <2>6, <2>7, <2>8 DEF SpanOfKey, TrustOfKey, BestSpan
<1> QED
  BY <1>3, <1>4, <1>5, <1>6

\* The edges at a node are the joins of its key.
LEMMA DegreeByKey ==
  ASSUME NEW labels, NEW types, NEW all \in Seq(NodesOf(Places, labels, types)), NEW g, Built(all, g),
         NEW id \in Ids(g.nodes)
  PROVE  Degree(g, id) = DegreeOfKey(EdgeViews(all, g.edges), KeyOf(all, id))
<1> DEFINE joins == EdgeViews(all, g.edges)
           k == KeyOf(all, id)
           out == {i \in DOMAIN g.edges : g.edges[i].source = id}
           in == {i \in DOMAIN g.edges : g.edges[i].target = id}
           f == [i \in DOMAIN g.edges |-> EdgeView(all, g.edges[i])]
           fo == [i \in out |-> EdgeView(all, g.edges[i])]
           fi == [i \in in |-> EdgeView(all, g.edges[i])]
           from == {j \in joins : j[1] = k}
           to == {j \in joins : j[2] = k}
<1>1. \A a, b \in Ids(g.nodes) : KeyOf(all, a) = KeyOf(all, b) => a = b
  BY NodesForKeys
<1>2. \A i \in DOMAIN g.edges : g.edges[i].source \in Ids(g.nodes) /\ g.edges[i].target \in Ids(g.nodes)
  BY DEF Built, Prunable, Consistent, Range
<1>3. \A i, j \in DOMAIN g.edges : EdgeView(all, g.edges[i]) = EdgeView(all, g.edges[j]) => i = j
  <2> TAKE i, j \in DOMAIN g.edges
  <2> SUFFICES ASSUME EdgeView(all, g.edges[i]) = EdgeView(all, g.edges[j])
               PROVE  i = j
    OBVIOUS
  <2>1. /\ KeyOf(all, g.edges[i].source) = KeyOf(all, g.edges[j].source)
        /\ KeyOf(all, g.edges[i].target) = KeyOf(all, g.edges[j].target)
        /\ g.edges[i].type = g.edges[j].type /\ g.edges[i].label = g.edges[j].label
    BY DEF EdgeView
  <2>2. EdgeKey(g.edges[i]) = EdgeKey(g.edges[j])
    BY <1>1, <1>2, <2>1 DEF EdgeKey
  <2> QED
    BY <2>2 DEF Built, KeysDistinct
<1>4. joins = {EdgeView(all, g.edges[i]) : i \in DOMAIN g.edges}
  BY DEF EdgeViews, Range
<1>5. \A i \in DOMAIN g.edges : (EdgeView(all, g.edges[i])[1] = k <=> i \in out) /\ (EdgeView(all, g.edges[i])[2] = k <=> i \in in)
  BY <1>1, <1>2 DEF EdgeView
<1> HIDE DEF joins, k
<1>6. fo \in Bijection(out, from) /\ fi \in Bijection(in, to)
  <2>1. /\ \A i \in out : EdgeView(all, g.edges[i]) \in from
        /\ \A i \in in : EdgeView(all, g.edges[i]) \in to
    BY <1>4, <1>5
  <2>2. /\ \A j \in from : \E i \in out : EdgeView(all, g.edges[i]) = j
        /\ \A j \in to : \E i \in in : EdgeView(all, g.edges[i]) = j
    BY <1>4, <1>5
  <2>3. out \subseteq DOMAIN g.edges /\ in \subseteq DOMAIN g.edges
    OBVIOUS
  <2> HIDE DEF out, in, from, to
  <2>4. fo \in Injection(out, from) /\ fi \in Injection(in, to)
    BY <1>3, <2>1, <2>3 DEF Injection, IsInjective
  <2>5. fo \in Surjection(out, from) /\ fi \in Surjection(in, to)
    BY <2>1, <2>2 DEF Surjection
  <2> QED
    BY <2>4, <2>5 DEF Bijection
<1>7. IsFiniteSet(out) /\ IsFiniteSet(in)
  <2>1. DOMAIN g.edges = 1..Len(g.edges) /\ Len(g.edges) \in Nat
    BY DEF Built, Prunable
  <2>2. IsFiniteSet(1..Len(g.edges))
    <3> DEFINE n == Len(g.edges)
    <3>1. n \in Nat
      BY <2>1
    <3> HIDE DEF n
    <3>2. IsFiniteSet(1..n)
      BY <3>1, FS_Interval
    <3> QED
      BY <3>2 DEF n
  <2> QED
    BY <2>1, <2>2, FS_Subset
<1>8. Cardinality(out) = Cardinality(from) /\ Cardinality(in) = Cardinality(to)
  <2> HIDE DEF out, in, from, to, fo, fi
  <2>1. ExistsBijection(out, from) /\ ExistsBijection(in, to)
    BY <1>6 DEF ExistsBijection
  <2> QED
    BY <1>7, <2>1, FS_Bijection
<1> QED
  BY <1>8 DEF Degree, DegreeOfKey, joins, k

\* The parent of a leaf is that of its key.
LEMMA ParentByKey ==
  ASSUME NEW labels, NEW types, NEW all \in Seq(NodesOf(Places, labels, types)), NEW g, Built(all, g),
         NEW id \in Ids(g.nodes), Degree(g, id) = 1
  PROVE  ParentKey(EdgeViews(all, g.edges), KeyOf(all, id)) = KeyOf(all, ParentOf(g, id))
<1> DEFINE joins == EdgeViews(all, g.edges)
           k == KeyOf(all, id)
           p == ParentOf(g, id)
           Touches(j) == j[1] = k \/ j[2] = k
           f == CHOOSE j \in joins : Touches(j)
<1>1. \A a, b \in Ids(g.nodes) : KeyOf(all, a) = KeyOf(all, b) => a = b
  BY NodesForKeys
<1>2. \A i \in DOMAIN g.edges : g.edges[i].source \in Ids(g.nodes) /\ g.edges[i].target \in Ids(g.nodes)
  BY DEF Built, Prunable, Consistent, Range
<1>3. /\ p \in Ids(g.nodes) /\ p # id
      /\ \A i \in DOMAIN g.edges : At(g, id, i) => {g.edges[i].source, g.edges[i].target} = {id, p}
  BY ParentOfLeaf DEF Built
<1>4. PICK i \in DOMAIN g.edges : At(g, id, i)
  BY DegreeTells DEF Built
<1>5. f \in joins /\ Touches(f)
  <2>1. EdgeView(all, g.edges[i]) \in joins
    BY DEF EdgeViews, Range
  <2>2. Touches(EdgeView(all, g.edges[i]))
    BY <1>4 DEF At, EdgeView
  <2> HIDE DEF Touches, joins
  <2> QED
    BY <2>1, <2>2
<1>6. PICK h \in DOMAIN g.edges : f = EdgeView(all, g.edges[h])
  BY <1>5 DEF EdgeViews, Range
<1> HIDE DEF f, joins
<1>7. f[1] = KeyOf(all, g.edges[h].source) /\ f[2] = KeyOf(all, g.edges[h].target)
  BY <1>6 DEF EdgeView
<1>8. f[1] = k <=> g.edges[h].source = id
  BY <1>1, <1>2, <1>7
<1>9. f[2] = k <=> g.edges[h].target = id
  BY <1>1, <1>2, <1>7
<1>10. {g.edges[h].source, g.edges[h].target} = {id, p}
  BY <1>3, <1>5, <1>8, <1>9 DEF At
<1>11. (IF f[1] = k THEN f[2] ELSE f[1]) = KeyOf(all, p)
  <2>1. CASE g.edges[h].source = id
    <3>1. g.edges[h].target = p
      BY <1>3, <1>10, <2>1
    <3> QED
      BY <1>7, <1>8, <2>1, <3>1
  <2>2. CASE g.edges[h].source # id
    <3>1. g.edges[h].source = p
      BY <1>10, <2>2
    <3> QED
      BY <1>7, <1>8, <2>2, <3>1
  <2> QED
    BY <2>1, <2>2
<1> QED
  BY <1>11 DEF ParentKey, f, joins

\* What is purged, folded and left is so by its key.
LEMMA GoneByKey ==
  ASSUME NEW labels, NEW types, NEW all \in Seq(NodesOf(Places, labels, types)), NEW g, Built(all, g),
         NEW id \in Ids(g.nodes)
  PROVE  LET joins == EdgeViews(all, g.edges)
         IN /\ id \in Lone(g) <=> KeyOf(all, id) \in LoneKeys(View(all), joins)
            /\ id \in Gone(g) <=> KeyOf(all, id) \in GoneKeys(View(all), joins)
            /\ id \in Lone(g) => ParentKey(joins, KeyOf(all, id)) = KeyOf(all, ParentOf(g, id)) /\ ParentOf(g, id) \in Ids(g.nodes)
<1> DEFINE joins == EdgeViews(all, g.edges)
           Key(a) == KeyOf(all, a)
<1>1. \A a \in Ids(g.nodes) : Degree(g, a) = DegreeOfKey(joins, Key(a)) /\ Key(a) \in Keys(View(all))
  BY DegreeByKey, NodesForKeys
<1>2. \A a \in Ids(g.nodes) : NodeOf(g, a).type = Key(a)[2]
  <2> TAKE a \in Ids(g.nodes)
  <2> DEFINE n == CHOOSE m \in g.nodes : m.id = a
  <2>1. n \in g.nodes /\ n.id = a
    BY DEF Ids
  <2> HIDE DEF n
  <2>2. n.type = Key(n.id)[2]
    BY <2>1, NodesForKeys
  <2> QED
    BY <2>1, <2>2 DEF NodeOf, n
<1>3. \A a \in Ids(g.nodes) : Leaf(g, a) <=> LeafKey(joins, Key(a))
  BY <1>1, <1>2 DEF Leaf, LeafKey
<1>4. \A a \in Ids(g.nodes) : Leaf(g, a) => ParentOf(g, a) \in Ids(g.nodes) /\ ParentKey(joins, Key(a)) = Key(ParentOf(g, a))
  BY ParentByKey, ParentOfLeaf DEF Leaf, Built
<1> HIDE DEF Key, joins
<1>5. \A a \in Ids(g.nodes) : a \in Lone(g) <=> Key(a) \in LoneKeys(View(all), joins)
  BY <1>1, <1>3, <1>4 DEF Lone, LoneKeys
<1>6. \A a \in Ids(g.nodes) : a \in Gone(g) <=> Key(a) \in GoneKeys(View(all), joins)
  BY <1>1, <1>5 DEF Gone, GoneKeys, ZeroDegree
<1>7. id \in Lone(g) => Leaf(g, id)
  BY DEF Lone
<1> QED
  BY <1>4, <1>5, <1>6, <1>7 DEF Key, joins

\* The content of the graph, without the names of its nodes, is its shape.
LEMMA ContentIsShape ==
  ASSUME NEW labels, NEW types, NEW all \in Seq(NodesOf(Places, labels, types)), NEW g, Built(all, g)
  PROVE  Content(all, SanitizeLabels(Prune(g))) = Shape(View(all), EdgeViews(all, g.edges))
<1> DEFINE out == SanitizeLabels(Prune(g))
           joins == EdgeViews(all, g.edges)
           view == View(all)
           Key(a) == KeyOf(all, a)
           Of(n) == <<Key(n.id), n.span, n.confidence, {Key(l) : l \in n.folded}>>
           About(k) == <<k, SpanOfKey(view, k), TrustOfKey(view, k), {l \in LoneKeys(view, joins) : ParentKey(joins, l) = k}>>
           gone == GoneKeys(view, joins)
<1>1. Content(all, out) = <<{Of(n) : n \in out.nodes}, {EdgeView(all, e) : e \in Range(out.edges)}>>
  BY DEF Content, KeyOf, EdgeView
<1>2. /\ out.nodes = {Final(g, n) : n \in {m \in g.nodes : m.id \notin Gone(g)}}
      /\ out.edges = EdgesWithin(Left(g), g.edges)
  BY SanitizedGraph DEF Built
<1> HIDE DEF out
<1>3. /\ \A a \in Ids(g.nodes) : \A b \in Ids(g.nodes) : Key(a) = Key(b) => a = b
      /\ {Key(a) : a \in Ids(g.nodes)} = Keys(view)
      /\ \A n \in g.nodes : n.span = SpanOfKey(view, Key(n.id)) /\ n.confidence = TrustOfKey(view, Key(n.id))
  BY NodesForKeys
<1>4. \A a \in Ids(g.nodes) : /\ a \in Lone(g) <=> Key(a) \in LoneKeys(view, joins)
                              /\ a \in Gone(g) <=> Key(a) \in gone
                              /\ a \in Lone(g) => ParentKey(joins, Key(a)) = Key(ParentOf(g, a)) /\ ParentOf(g, a) \in Ids(g.nodes)
  BY GoneByKey
<1>5. Lone(g) \subseteq Ids(g.nodes) /\ LoneKeys(view, joins) \subseteq Keys(view)
  BY DEF Lone, LoneKeys
<1> HIDE DEF Key, view, joins, gone
<1>6. ASSUME NEW n \in g.nodes
      PROVE  Of(Final(g, n)) = About(Key(n.id))
  <2>1. /\ Final(g, n).id = n.id /\ Final(g, n).span = n.span /\ Final(g, n).confidence = n.confidence
        /\ Final(g, n).folded = {l \in Lone(g) : ParentOf(g, l) = n.id}
    BY FinalNode DEF Built, Shaped
  <2>2. n.id \in Ids(g.nodes)
    BY DEF Ids
  <2>3. {Key(l) : l \in Final(g, n).folded} = {k \in LoneKeys(view, joins) : ParentKey(joins, k) = Key(n.id)}
    <3>1. ASSUME NEW l \in Lone(g), ParentOf(g, l) = n.id
          PROVE  Key(l) \in LoneKeys(view, joins) /\ ParentKey(joins, Key(l)) = Key(n.id)
      BY <1>4, <1>5, <3>1
    <3>2. ASSUME NEW k \in LoneKeys(view, joins), ParentKey(joins, k) = Key(n.id)
          PROVE  \E l \in Lone(g) : ParentOf(g, l) = n.id /\ Key(l) = k
      <4>1. PICK l \in Ids(g.nodes) : Key(l) = k
        BY <1>3, <1>5
      <4>2. l \in Lone(g)
        BY <1>4, <4>1
      <4>3. Key(ParentOf(g, l)) = Key(n.id) /\ ParentOf(g, l) \in Ids(g.nodes)
        BY <1>4, <3>2, <4>1, <4>2
      <4> QED
        BY <1>3, <2>2, <4>1, <4>2, <4>3
    <3> QED
      BY <2>1, <3>1, <3>2
  <2> QED
    BY <1>3, <2>1, <2>3
<1>7. {Of(n) : n \in out.nodes} = {About(k) : k \in Keys(view) \ gone}
  <2> HIDE DEF Of, About
  <2>1. \A n \in g.nodes : n.id \in Ids(g.nodes)
    BY DEF Ids
  <2>2. ASSUME NEW n \in g.nodes, n.id \notin Gone(g)
        PROVE  Key(n.id) \in Keys(view) \ gone /\ Of(Final(g, n)) = About(Key(n.id))
    BY <1>3, <1>4, <1>6, <2>1, <2>2
  <2>3. ASSUME NEW k \in Keys(view) \ gone
        PROVE  \E n \in g.nodes : n.id \notin Gone(g) /\ Key(n.id) = k
    <3>1. PICK a \in Ids(g.nodes) : Key(a) = k
      BY <1>3
    <3>2. PICK n \in g.nodes : n.id = a
      BY DEF Ids
    <3> QED
      BY <1>4, <3>1, <3>2
  <2>4. \A x \in {Of(n) : n \in out.nodes} : x \in {About(k) : k \in Keys(view) \ gone}
    BY <1>2, <2>2
  <2>5. ASSUME NEW k \in Keys(view) \ gone
        PROVE  About(k) \in {Of(n) : n \in out.nodes}
    <3>1. PICK n \in g.nodes : n.id \notin Gone(g) /\ Key(n.id) = k
      BY <2>3
    <3>2. Final(g, n) \in out.nodes /\ Of(Final(g, n)) = About(k)
      BY <1>2, <2>2, <3>1
    <3> QED
      BY <3>2
  <2> QED
    BY <2>4, <2>5
<1>8. {EdgeView(all, e) : e \in Range(out.edges)} = {f \in joins : f[1] \notin gone /\ f[2] \notin gone}
  <2>1. Range(out.edges) = {e \in Range(g.edges) : {e.source, e.target} \subseteq Left(g)}
    BY <1>2, EdgesWithinKeeps DEF Built, Prunable
  <2>2. \A e \in Range(g.edges) : e.source \in Ids(g.nodes) /\ e.target \in Ids(g.nodes)
    BY DEF Built, Prunable, Consistent
  <2>3. \A e \in Range(g.edges) : EdgeView(all, e)[1] = Key(e.source) /\ EdgeView(all, e)[2] = Key(e.target)
    BY DEF EdgeView, Key
  <2>4. joins = {EdgeView(all, e) : e \in Range(g.edges)}
    BY DEF joins, EdgeViews
  <2>5. \A e \in Range(g.edges) : {e.source, e.target} \subseteq Left(g) <=> Key(e.source) \notin gone /\ Key(e.target) \notin gone
    BY <1>4, <2>2 DEF Left
  <2> QED
    BY <2>1, <2>3, <2>4, <2>5
<1>9. Shape(view, joins) = <<{About(k) : k \in Keys(view) \ gone}, {f \in joins : f[1] \notin gone /\ f[2] \notin gone}>>
  BY DEF Shape, gone
<1> HIDE DEF Of, About
<1> QED
  BY <1>1, <1>7, <1>8, <1>9 DEF out, view, joins

-----------------------------------------------------------------------------
\* The joins the edges of a list make between nodes of a list, and the longest of each.
Joined(all, edges) ==
    {EdgeView(all, e) : e \in {x \in Range(edges) : {x.source, x.target} \subseteq Ids(Range(all))}}
SameJoin(a, b) == a[1] = b[1] /\ a[2] = b[2] /\ a[3] = b[3] /\ a[4] = b[4]
Longest(joins) == {j \in joins : \A other \in joins : SameJoin(other, j) => other[5] <= j[5]}

\* A remapped edge joins the same keys; it is an edge between merged nodes if the edge was
\* one between nodes.
LEMMA RemappedJoin ==
  ASSUME NEW labels, NEW types, NEW all \in Seq(NodesOf(Places, labels, types)), OwnIds(Range(all)), NEW e,
         NEW ends, NEW words, NEW kinds, e \in EdgesOf(ends, words, kinds)
  PROVE  LET r == Remapped(IdMap(all), e)
         IN /\ {r.source, r.target} \subseteq Ids(MergeNodes(all)) <=> {e.source, e.target} \subseteq Ids(Range(all))
            /\ {e.source, e.target} \subseteq Ids(Range(all)) => EdgeView(all, r) = EdgeView(all, e)
            /\ r.type = e.type /\ r.label = e.label /\ r.span = e.span
<1> DEFINE map == IdMap(all)
           r == Remapped(map, e)
<1>1. DOMAIN map = Ids(Range(all))
  BY DEF IdMap
<1>2. Ids(MergeNodes(all)) = {Canonical(all, n) : n \in Range(all)}
  BY MergedNodes
<1>3. \A id \in Ids(Range(all)) : map[id] \in Ids(MergeNodes(all)) /\ KeyOf(all, map[id]) = KeyOf(all, id)
  <2> TAKE id \in Ids(Range(all))
  <2> DEFINE n == CHOOSE k \in Range(all) : k.id = id
  <2>1. n \in Range(all)
    BY DEF Ids
  <2>2. map[id] = Canonical(all, n) /\ KeyOf(all, id) = NodeKey(n)
    BY DEF IdMap, KeyOf
  <2> HIDE DEF n, map
  <2>3. KeyOf(all, Canonical(all, n)) = NodeKey(n)
    BY <2>1, CanonicalKeys
  <2> QED
    BY <1>2, <2>1, <2>2, <2>3
<1>4. Ids(MergeNodes(all)) \subseteq Ids(Range(all))
  BY <1>2, CanonicalKeys
<1>5. \A id : Mapped(map, id) \in Ids(MergeNodes(all)) <=> id \in Ids(Range(all))
  BY <1>1, <1>3, <1>4 DEF Mapped
<1>6. r.source = Mapped(map, e.source) /\ r.target = Mapped(map, e.target) /\ r.type = e.type /\ r.label = e.label /\ r.span = e.span
  BY DEF Remapped, EdgesOf
<1> HIDE DEF r, map
<1>7. \A id \in Ids(Range(all)) : KeyOf(all, Mapped(map, id)) = KeyOf(all, id)
  BY <1>1, <1>3 DEF Mapped
<1> QED
  BY <1>5, <1>6, <1>7 DEF EdgeView, r, map

\* The merged edges make, of the joins of the list, the longest ones.
LEMMA LongestStay ==
  ASSUME NEW labels, NEW types, NEW chunks \in Seq(Seq(NodesOf(Nat, labels, types))), OwnIds(Range(Renamed(chunks))),
         NEW words, NEW kinds, NEW edges \in Seq(EdgesOf(Places, words, kinds))
  PROVE  /\ Built(Renamed(chunks), Merged(chunks, edges))
         /\ EdgeViews(Renamed(chunks), Merged(chunks, edges).edges) = Longest(Joined(Renamed(chunks), edges))
<1> DEFINE all == Renamed(chunks)
           g == Merged(chunks, edges)
           map == IdMap(all)
           told == MergeEdges(edges, map)
           nodes == Ids(MergeNodes(all))
           W == {Remapped(map, edges[i]) : i \in DOMAIN edges}
           Joins(e) == {e.source, e.target} \subseteq Ids(Range(all))
<1>0. all \in Seq(NodesOf(Places, labels, types)) /\ OwnIds(Range(all))
  BY RenamedNodes
<1>1. Built(all, g)
  BY <1>0, MergedGraph DEF Built
<1>2. g.edges = EdgesWithin(nodes, told)
  BY DEF Merged
<1>3. DOMAIN edges = 1..Len(edges) /\ Len(edges) \in Nat /\ \A i \in DOMAIN edges : edges[i] \in EdgesOf(Places, words, kinds)
  OBVIOUS
<1>4. \A i \in DOMAIN edges :
         LET e == edges[i]
             r == Remapped(map, e)
         IN /\ {r.source, r.target} \subseteq nodes <=> Joins(e)
            /\ Joins(e) => EdgeView(all, r) = EdgeView(all, e)
            /\ r.type = e.type /\ r.label = e.label /\ r.span = e.span
  <2> TAKE i \in DOMAIN edges
  <2> HIDE DEF all
  <2> QED
    BY <1>0, <1>3, RemappedJoin
<1>5. \A w \in W : w.span \in Nat
  BY <1>3, <1>4 DEF EdgesOf
<1> HIDE DEF all, map, g, nodes
<1>6. told \in Seq(W) /\ KeysDistinct(told) /\ \A i \in DOMAIN edges : Told(told, Remapped(map, edges[i]))
  <2>1. \A i \in DOMAIN edges : Remapped(map, edges[i]) \in W
    OBVIOUS
  <2> HIDE DEF W
  <2> QED
    BY <1>3, <1>5, <2>1, MergedEdgesSay
<1> HIDE DEF told
<1>7. Range(g.edges) = {e \in Range(told) : {e.source, e.target} \subseteq nodes}
  <2> HIDE DEF W
  <2> QED
    BY <1>2, <1>6, EdgesWithinKeeps
<1>8. \A k \in DOMAIN told : \E i \in DOMAIN edges : told[k] = Remapped(map, edges[i])
  BY <1>6
<1>9. \A a, b \in nodes : KeyOf(all, a) = KeyOf(all, b) => a = b
  BY <1>0, <1>1, NodesForKeys DEF Built, nodes
<1> DEFINE joins == Joined(all, edges)
<1>10. ASSUME NEW k \in DOMAIN told, {told[k].source, told[k].target} \subseteq nodes
       PROVE  EdgeView(all, told[k]) \in joins
  <2>1. PICK i \in DOMAIN edges : told[k] = Remapped(map, edges[i])
    BY <1>8
  <2>2. Joins(edges[i]) /\ EdgeView(all, told[k]) = EdgeView(all, edges[i]) /\ edges[i] \in Range(edges)
    BY <1>4, <1>10, <2>1 DEF Range
  <2> QED
    BY <2>2 DEF Joined
<1>11. ASSUME NEW j \in joins
       PROVE  \E k \in DOMAIN told : /\ {told[k].source, told[k].target} \subseteq nodes
                                     /\ SameJoin(EdgeView(all, told[k]), j) /\ told[k].span >= j[5]
  <2>1. PICK i \in DOMAIN edges : Joins(edges[i]) /\ j = EdgeView(all, edges[i])
    BY DEF Joined, Range
  <2> DEFINE r == Remapped(map, edges[i])
  <2>2. j = EdgeView(all, r) /\ {r.source, r.target} \subseteq nodes
    BY <1>4, <2>1
  <2>3. PICK k \in DOMAIN told : EdgeKey(told[k]) = EdgeKey(r) /\ told[k].span >= r.span
    BY <1>6 DEF Told
  <2> HIDE DEF r
  <2>4. told[k].source = r.source /\ told[k].target = r.target /\ told[k].type = r.type /\ told[k].label = r.label
    BY <2>3 DEF EdgeKey
  <2> QED
    BY <2>2, <2>3, <2>4 DEF SameJoin, EdgeView
<1>12. \A j \in joins : j = <<j[1], j[2], j[3], j[4], j[5]>> /\ j[5] \in Nat
  <2> TAKE j \in joins
  <2>1. PICK i \in DOMAIN edges : j = EdgeView(all, edges[i])
    BY DEF Joined, Range
  <2>2. edges[i].span \in Nat
    BY <1>3 DEF EdgesOf
  <2> QED
    BY <2>1, <2>2 DEF EdgeView
<1>13. \A k \in DOMAIN told : EdgeView(all, told[k])[5] = told[k].span /\ told[k].span \in Nat
  BY <1>5, <1>6 DEF EdgeView
<1>14. ASSUME NEW k \in DOMAIN told, {told[k].source, told[k].target} \subseteq nodes
       PROVE  EdgeView(all, told[k]) \in Longest(joins)
  <2> DEFINE v == EdgeView(all, told[k])
  <2>1. v \in joins
    BY <1>10, <1>14
  <2> HIDE DEF joins
  <2>2. ASSUME NEW o \in joins, SameJoin(o, v)
        PROVE  o[5] <= v[5]
    <3>1. PICK l \in DOMAIN told : {told[l].source, told[l].target} \subseteq nodes /\ SameJoin(EdgeView(all, told[l]), o) /\ told[l].span >= o[5]
      BY <1>11
    <3>2. /\ KeyOf(all, told[l].source) = KeyOf(all, told[k].source) /\ KeyOf(all, told[l].target) = KeyOf(all, told[k].target)
          /\ told[l].type = told[k].type /\ told[l].label = told[k].label
      BY <2>2, <3>1 DEF SameJoin, EdgeView
    <3>3. EdgeKey(told[l]) = EdgeKey(told[k])
      BY <1>9, <1>14, <3>1, <3>2 DEF EdgeKey
    <3>4. l = k
      BY <1>6, <3>3 DEF KeysDistinct
    <3> QED
      BY <1>13, <3>1, <3>4
  <2> QED
    BY <2>1, <2>2 DEF Longest
<1>15. ASSUME NEW j \in Longest(joins)
       PROVE  \E k \in DOMAIN told : {told[k].source, told[k].target} \subseteq nodes /\ EdgeView(all, told[k]) = j
  <2>1. j \in joins /\ \A o \in joins : SameJoin(o, j) => o[5] <= j[5]
    BY DEF Longest
  <2>2. PICK k \in DOMAIN told : {told[k].source, told[k].target} \subseteq nodes /\ SameJoin(EdgeView(all, told[k]), j) /\ told[k].span >= j[5]
    BY <1>11, <2>1
  <2> DEFINE v == EdgeView(all, told[k])
  <2>3. v \in joins /\ v[5] = told[k].span
    BY <1>10, <1>13, <2>2
  <2> HIDE DEF v, joins
  <2>4. v[5] <= j[5] /\ v[5] >= j[5] /\ v[5] \in Nat /\ j[5] \in Nat
    BY <1>12, <2>1, <2>2, <2>3 DEF v
  <2>5. v[1] = j[1] /\ v[2] = j[2] /\ v[3] = j[3] /\ v[4] = j[4] /\ v[5] = j[5]
    BY <2>2, <2>4 DEF SameJoin, v
  <2>6. v = <<v[1], v[2], v[3], v[4], v[5]>> /\ j = <<j[1], j[2], j[3], j[4], j[5]>>
    BY <1>12, <2>1, <2>3
  <2>7. v = j
    BY <2>5, <2>6
  <2> QED
    BY <2>2, <2>7 DEF v
<1>16. EdgeViews(all, g.edges) = {EdgeView(all, told[k]) : k \in {l \in DOMAIN told : {told[l].source, told[l].target} \subseteq nodes}}
  BY <1>7 DEF EdgeViews, Range
<1> HIDE DEF joins
<1>17. EdgeViews(all, g.edges) = Longest(joins)
  BY <1>14, <1>15, <1>16
<1> QED
  BY <1>1, <1>17 DEF all, g, joins

-----------------------------------------------------------------------------
Named(c, n) == [n EXCEPT !.id = <<c, @>>]

LEMMA RenamedAre ==
  ASSUME NEW labels, NEW types, NEW chunks \in Seq(Seq(NodesOf(Nat, labels, types))), NEW x
  PROVE  x \in Range(Renamed(chunks)) <=> \E c \in 1..Len(chunks) : \E n \in Range(chunks[c]) : x = Named(c, n)
<1> DEFINE own == [c \in DOMAIN chunks |-> [i \in DOMAIN chunks[c] |-> Named(c, chunks[c][i])]]
<1>1. DOMAIN chunks = 1..Len(chunks) /\ Len(chunks) \in Nat
  OBVIOUS
<1>2. own \in Seq(Seq({Named(c, n) : c \in Nat, n \in NodesOf(Nat, labels, types)}))
  <2> DEFINE V == {Named(c, n) : c \in Nat, n \in NodesOf(Nat, labels, types)}
  <2>1. ASSUME NEW c \in DOMAIN chunks
        PROVE  own[c] \in Seq(V)
    <3> DEFINE list == chunks[c]
    <3>1. list \in Seq(NodesOf(Nat, labels, types)) /\ c \in Nat
      BY <1>1
    <3>2. \A i \in 1..Len(list) : Named(c, list[i]) \in V
      <4>1. \A i \in 1..Len(list) : list[i] \in NodesOf(Nat, labels, types)
        BY <3>1
      <4> HIDE DEF list
      <4>2. c \in Nat
        BY <3>1
      <4>3. \A m \in NodesOf(Nat, labels, types) : Named(c, m) \in V
        BY <4>2
      <4> HIDE DEF V
      <4> QED
        BY <4>1, <4>3
    <3>3. DOMAIN list = 1..Len(list) /\ Len(list) \in Nat
      BY <3>1
    <3>4. own[c] = [i \in 1..Len(list) |-> Named(c, list[i])]
      BY <3>3
    <3> HIDE DEF V, list, own
    <3> QED
      BY <3>2, <3>3, <3>4
  <2>2. own = [c \in 1..Len(chunks) |-> own[c]]
    BY <1>1
  <2> HIDE DEF own, V
  <2>3. own \in Seq(Seq(V))
    BY <1>1, <2>1, <2>2
  <2> QED
    BY <2>3 DEF V
<1>3. Renamed(chunks) = FlattenSeq(own)
  BY DEF Renamed, Named
<1>4. Len(own) = Len(chunks)
  BY <1>1
<1>5. \A c \in 1..Len(chunks) : Range(own[c]) = {Named(c, n) : n \in Range(chunks[c])}
  BY <1>1 DEF Range
<1> HIDE DEF own
<1>6. Range(Renamed(chunks)) = UNION {Range(own[c]) : c \in 1..Len(own)}
  BY <1>2, <1>3, FlattenedSequences
<1>7. x \in Range(Renamed(chunks)) <=> \E c \in 1..Len(chunks) : x \in Range(own[c])
  BY <1>4, <1>6
<1>8. \A c \in 1..Len(chunks) : x \in Range(own[c]) <=> \E n \in Range(chunks[c]) : x = Named(c, n)
  BY <1>5
<1> QED
  BY <1>7, <1>8

\* The nodes of a chunk have ids that tell them apart (its validator saw to that).
OwnIdsByChunk(chunks) == \A c \in DOMAIN chunks : OwnIds(Range(chunks[c]))

LEMMA ChunkIds ==
  ASSUME NEW labels, NEW types, NEW chunks \in Seq(Seq(NodesOf(Nat, labels, types))), OwnIdsByChunk(chunks)
  PROVE  OwnIds(Range(Renamed(chunks)))
<1> SUFFICES ASSUME NEW x \in Range(Renamed(chunks)), NEW y \in Range(Renamed(chunks)), x.id = y.id
             PROVE  x = y
  BY DEF OwnIds
<1>1. PICK c \in 1..Len(chunks) : \E m \in Range(chunks[c]) : x = Named(c, m)
  BY RenamedAre
<1>1a. PICK m \in Range(chunks[c]) : x = Named(c, m)
  BY <1>1
<1>2. PICK d \in 1..Len(chunks) : \E n \in Range(chunks[d]) : y = Named(d, n)
  BY RenamedAre
<1>2a. PICK n \in Range(chunks[d]) : y = Named(d, n)
  BY <1>2
<1>3. m \in NodesOf(Nat, labels, types) /\ n \in NodesOf(Nat, labels, types)
  BY <1>1, <1>2 DEF Range
<1>4. x.id = <<c, m.id>> /\ y.id = <<d, n.id>>
  BY <1>1a, <1>2a, <1>3 DEF Named, NodesOf
<1>5. c = d /\ m.id = n.id
  <2>1. <<c, m.id>> = <<d, n.id>>
    BY <1>4
  <2> QED
    BY <2>1
<1>6. m = n
  BY <1>1, <1>2, <1>5 DEF OwnIdsByChunk, OwnIds
<1> QED
  BY <1>1a, <1>2a, <1>5, <1>6

\* The chunks in the opposite order: the same nodes under the ids of their new places.
Turn(n, id) == IF id[1] \in 1..n THEN <<n + 1 - id[1], id[2]>> ELSE id
TurnedNode(n, x) == [x EXCEPT !.id = Turn(n, @)]
TurnedEdge(n, e) == [e EXCEPT !.source = Turn(n, @), !.target = Turn(n, @)]

LEMMA TurnsBack ==
  ASSUME NEW n \in Nat, NEW id \in Places
  PROVE  Turn(n, id) \in Places /\ Turn(n, Turn(n, id)) = id
<1>1. PICK c \in Nat, i \in Nat : id = <<c, i>>
  BY DEF Places
<1>2. CASE c \in 1..n
  <2>1. Turn(n, id) = <<n + 1 - c, i>> /\ n + 1 - c \in 1..n
    BY <1>1, <1>2 DEF Turn
  <2>2. Turn(n, <<n + 1 - c, i>>) = <<n + 1 - (n + 1 - c), i>>
    BY <2>1 DEF Turn
  <2> QED
    BY <1>1, <2>1, <2>2 DEF Places
<1>3. CASE c \notin 1..n
  BY <1>1, <1>3 DEF Turn, Places
<1> QED
  BY <1>2, <1>3

LEMMA ReversedElements ==
  ASSUME NEW V, NEW s \in Seq(V)
  PROVE  /\ Reverse(s) \in Seq(V) /\ Len(Reverse(s)) = Len(s) /\ DOMAIN Reverse(s) = 1..Len(s)
         /\ \A i \in 1..Len(s) : Reverse(s)[i] = s[Len(s) + 1 - i] /\ Len(s) + 1 - i \in 1..Len(s)
         /\ Range(Reverse(s)) = Range(s)
<1>1. DOMAIN s = 1..Len(s) /\ Len(s) \in Nat /\ \A i \in 1..Len(s) : s[i] \in V
  OBVIOUS
<1>2. \A i \in 1..Len(s) : Len(s) + 1 - i \in 1..Len(s) /\ (Len(s) - i) + 1 = Len(s) + 1 - i /\ Len(s) + 1 - (Len(s) + 1 - i) = i
  BY <1>1
<1>3. Reverse(s) = [i \in 1..Len(s) |-> s[(Len(s) - i) + 1]]
  BY DEF Reverse
<1>4. \A i \in 1..Len(s) : Reverse(s)[i] = s[Len(s) + 1 - i]
  BY <1>2, <1>3
<1>5. Reverse(s) \in Seq(V) /\ Len(Reverse(s)) = Len(s) /\ DOMAIN Reverse(s) = 1..Len(s)
  BY <1>1, <1>2, <1>3
<1>6. Range(Reverse(s)) = Range(s)
  BY <1>1, <1>2, <1>4, <1>5 DEF Range
<1> QED
  BY <1>2, <1>4, <1>5, <1>6

LEMMA TurnedNodes ==
  ASSUME NEW labels, NEW types, NEW chunks \in Seq(Seq(NodesOf(Nat, labels, types)))
  PROVE  Range(Renamed(Reverse(chunks))) = {TurnedNode(Len(chunks), x) : x \in Range(Renamed(chunks))}
<1> DEFINE n == Len(chunks)
           turned == Reverse(chunks)
           N == NodesOf(Nat, labels, types)
<1>1. /\ turned \in Seq(Seq(N)) /\ Len(turned) = n
      /\ \A i \in 1..n : turned[i] = chunks[n + 1 - i] /\ n + 1 - i \in 1..n
  BY ReversedElements
<1>2. n \in Nat /\ \A c \in 1..n : chunks[c] \in Seq(N)
  OBVIOUS
<1>3. \A c \in 1..n : \A m \in Range(chunks[c]) : TurnedNode(n, Named(c, m)) = Named(n + 1 - c, m)
  <2> TAKE c \in 1..n
  <2> TAKE m \in Range(chunks[c])
  <2>1. m \in N
    BY <1>2 DEF Range
  <2>2. c \in Nat /\ n + 1 - c \in Nat
    BY <1>2
  <2>3. Turn(n, <<c, m.id>>) = <<n + 1 - c, m.id>>
    BY DEF Turn
  <2> HIDE DEF n
  <2> QED
    BY <2>1, <2>2, <2>3 DEF TurnedNode, Named, NodesOf
<1> HIDE DEF turned, N
<1>4. \A x : x \in Range(Renamed(turned)) <=> \E c \in 1..n : \E m \in Range(turned[c]) : x = Named(c, m)
  BY <1>1, RenamedAre DEF N
<1>5. \A x : x \in Range(Renamed(chunks)) <=> \E c \in 1..n : \E m \in Range(chunks[c]) : x = Named(c, m)
  BY RenamedAre
<1>6. ASSUME NEW x \in Range(Renamed(chunks))
      PROVE  TurnedNode(n, x) \in Range(Renamed(turned))
  <2>1. PICK c \in 1..n : \E m \in Range(chunks[c]) : x = Named(c, m)
    BY <1>5
  <2>1a. PICK m \in Range(chunks[c]) : x = Named(c, m)
    BY <2>1
  <2>2. n + 1 - c \in 1..n /\ n + 1 - (n + 1 - c) = c
    BY <1>2
  <2>3. turned[n + 1 - c] = chunks[c]
    BY <1>1, <2>2
  <2> QED
    BY <1>3, <1>4, <2>1a, <2>2, <2>3
<1>7. ASSUME NEW x \in Range(Renamed(turned))
      PROVE  \E y \in Range(Renamed(chunks)) : x = TurnedNode(n, y)
  <2>1. PICK c \in 1..n : \E m \in Range(turned[c]) : x = Named(c, m)
    BY <1>4
  <2>1a. PICK m \in Range(turned[c]) : x = Named(c, m)
    BY <2>1
  <2>2. n + 1 - c \in 1..n /\ n + 1 - (n + 1 - c) = c /\ turned[c] = chunks[n + 1 - c]
    BY <1>1, <1>2
  <2> DEFINE d == n + 1 - c
  <2>3. d \in 1..n /\ n + 1 - d = c /\ m \in Range(chunks[d])
    BY <2>2
  <2> HIDE DEF d
  <2>4. Named(d, m) \in Range(Renamed(chunks)) /\ TurnedNode(n, Named(d, m)) = x
    BY <1>3, <1>5, <2>1a, <2>3
  <2> QED
    BY <2>4
<1> QED
  BY <1>6, <1>7 DEF turned

\* What the nodes say of the keys does not depend on the order, nor the key of a node.
LEMMA TurnedKeys ==
  ASSUME NEW labels, NEW types, NEW chunks \in Seq(Seq(NodesOf(Nat, labels, types))), OwnIdsByChunk(chunks)
  PROVE  LET all == Renamed(chunks)
             turned == Renamed(Reverse(chunks))
             n == Len(chunks)
         IN /\ OwnIds(Range(turned))
            /\ View(turned) = View(all)
            /\ \A id \in Places : Turn(n, id) \in Ids(Range(turned)) <=> id \in Ids(Range(all))
            /\ \A id \in Ids(Range(all)) : KeyOf(turned, Turn(n, id)) = KeyOf(all, id)
<1> DEFINE all == Renamed(chunks)
           turned == Renamed(Reverse(chunks))
           n == Len(chunks)
<1>1. Range(turned) = {TurnedNode(n, x) : x \in Range(all)} /\ n \in Nat
  BY TurnedNodes
<1>2. OwnIds(Range(all))
  BY ChunkIds
<1>3. \A x \in Range(all) : x \in NodesOf(Places, labels, types)
  <2>1. all \in Seq(NodesOf(Places, labels, types))
    BY RenamedNodes
  <2> QED
    BY <2>1 DEF Range
<1> HIDE DEF all, turned, n
<1>4. \A x \in Range(all) : /\ TurnedNode(n, x).id = Turn(n, x.id) /\ x.id \in Places /\ Turn(n, x.id) \in Places
                            /\ TurnedNode(n, x).span = x.span /\ TurnedNode(n, x).confidence = x.confidence
                            /\ NodeKey(TurnedNode(n, x)) = NodeKey(x)
  <2> TAKE x \in Range(all)
  <2>1. /\ TurnedNode(n, x).id = Turn(n, x.id) /\ x.id \in Places /\ TurnedNode(n, x).label = x.label
        /\ TurnedNode(n, x).type = x.type /\ TurnedNode(n, x).span = x.span /\ TurnedNode(n, x).confidence = x.confidence
    BY <1>3 DEF TurnedNode, NodesOf
  <2> QED
    BY <1>1, <2>1, TurnsBack DEF NodeKey
<1>5. \A a, b \in Places : Turn(n, a) = Turn(n, b) => a = b
  BY <1>1, TurnsBack
<1>6. OwnIds(Range(turned))
  <2> SUFFICES ASSUME NEW x \in Range(all), NEW y \in Range(all), TurnedNode(n, x).id = TurnedNode(n, y).id
               PROVE  x = y
    BY <1>1 DEF OwnIds
  <2>1. x.id = y.id
    BY <1>4, <1>5
  <2> QED
    BY <1>2, <2>1 DEF OwnIds
<1>7. View(turned) = View(all)
  <2>1. View(turned) = {<<NodeKey(TurnedNode(n, x)), TurnedNode(n, x).span, TurnedNode(n, x).confidence>> : x \in Range(all)}
    BY <1>1 DEF View
  <2> QED
    BY <1>4, <2>1 DEF View
<1>8. \A id \in Places : Turn(n, id) \in Ids(Range(turned)) <=> id \in Ids(Range(all))
  <2>1. Ids(Range(turned)) = {TurnedNode(n, x).id : x \in Range(all)}
    BY <1>1 DEF Ids
  <2>2. Ids(Range(turned)) = {Turn(n, x.id) : x \in Range(all)}
    BY <1>4, <2>1
  <2> QED
    BY <1>4, <1>5, <2>2 DEF Ids
<1>9. ASSUME NEW id \in Ids(Range(all))
      PROVE  KeyOf(turned, Turn(n, id)) = KeyOf(all, id)
  <2>1. PICK x \in Range(all) : x.id = id
    BY DEF Ids
  <2>2. TurnedNode(n, x) \in Range(turned) /\ TurnedNode(n, x).id = Turn(n, id)
    BY <1>1, <1>4, <2>1
  <2>3. KeyOf(turned, TurnedNode(n, x).id) = NodeKey(TurnedNode(n, x))
    BY <1>6, <2>2, KeyOfNode
  <2>4. KeyOf(all, x.id) = NodeKey(x)
    BY <1>2, KeyOfNode
  <2> QED
    BY <1>4, <2>1, <2>2, <2>3, <2>4
<1> QED
  BY <1>6, <1>7, <1>8, <1>9 DEF all, turned, n

-----------------------------------------------------------------------------
TurnedEdges(n, edges) == Reverse([i \in DOMAIN edges |-> TurnedEdge(n, edges[i])])

\* The edges under the new ids, in the opposite order, make the same joins.
LEMMA TurnedJoins ==
  ASSUME NEW labels, NEW types, NEW chunks \in Seq(Seq(NodesOf(Nat, labels, types))), OwnIdsByChunk(chunks),
         NEW words, NEW kinds, NEW edges \in Seq(EdgesOf(Places, words, kinds))
  PROVE  /\ TurnedEdges(Len(chunks), edges) \in Seq(EdgesOf(Places, words, kinds))
         /\ Joined(Renamed(Reverse(chunks)), TurnedEdges(Len(chunks), edges)) = Joined(Renamed(chunks), edges)
<1> DEFINE all == Renamed(chunks)
           turned == Renamed(Reverse(chunks))
           n == Len(chunks)
           E == EdgesOf(Places, words, kinds)
           told == [i \in DOMAIN edges |-> TurnedEdge(n, edges[i])]
           backwards == Reverse(told)
<1>1. /\ \A id \in Places : Turn(n, id) \in Ids(Range(turned)) <=> id \in Ids(Range(all))
      /\ \A id \in Ids(Range(all)) : KeyOf(turned, Turn(n, id)) = KeyOf(all, id)
  BY TurnedKeys
<1>2. n \in Nat
  OBVIOUS
<1> HIDE DEF all, turned, n
<1>3. DOMAIN edges = 1..Len(edges) /\ Len(edges) \in Nat /\ \A i \in DOMAIN edges : edges[i] \in E
  OBVIOUS
<1>4. \A e \in E : /\ TurnedEdge(n, e) \in E
                   /\ TurnedEdge(n, e).source = Turn(n, e.source) /\ TurnedEdge(n, e).target = Turn(n, e.target)
                   /\ TurnedEdge(n, e).type = e.type /\ TurnedEdge(n, e).label = e.label /\ TurnedEdge(n, e).span = e.span
                   /\ e.source \in Places /\ e.target \in Places
  <2> TAKE e \in E
  <2>1. e.source \in Places /\ e.target \in Places
    BY DEF EdgesOf
  <2>2. Turn(n, e.source) \in Places /\ Turn(n, e.target) \in Places
    BY <1>2, <2>1, TurnsBack
  <2> QED
    BY <2>1, <2>2 DEF TurnedEdge, EdgesOf
<1> HIDE DEF E
<1>5. told \in Seq(E) /\ Range(told) = {TurnedEdge(n, e) : e \in Range(edges)}
  <2>1. told \in Seq(E)
    BY <1>3, <1>4
  <2> QED
    BY <2>1, <1>3 DEF Range
<1> HIDE DEF told
<1>6. backwards \in Seq(E) /\ Range(backwards) = Range(told)
  BY <1>5, ReversedElements
<1>7. \A e \in E : {TurnedEdge(n, e).source, TurnedEdge(n, e).target} \subseteq Ids(Range(turned))
                   <=> {e.source, e.target} \subseteq Ids(Range(all))
  BY <1>1, <1>4
<1>8. \A e \in E : {e.source, e.target} \subseteq Ids(Range(all)) => EdgeView(turned, TurnedEdge(n, e)) = EdgeView(all, e)
  BY <1>1, <1>4 DEF EdgeView
<1>9. \A e \in Range(edges) : e \in E
  BY <1>3 DEF Range
<1>10. Joined(turned, backwards) = {EdgeView(turned, TurnedEdge(n, e)) :
          e \in {x \in Range(edges) : {TurnedEdge(n, x).source, TurnedEdge(n, x).target} \subseteq Ids(Range(turned))}}
  <2> HIDE DEF backwards
  <2>1. Range(backwards) = {TurnedEdge(n, e) : e \in Range(edges)}
    BY <1>5, <1>6
  <2> QED
    BY <2>1 DEF Joined
<1>11. Joined(turned, backwards) = Joined(all, edges)
  <2> HIDE DEF backwards
  <2> QED
    BY <1>7, <1>8, <1>9, <1>10 DEF Joined
<1> QED
  BY <1>6, <1>11 DEF all, turned, n, told, E, TurnedEdges

\* For every chunks with ids of their own and every edges: the order in which the chunks
\* come back does not shape the graph.
THEOREM ChunkOrderShapesNothing ==
  ASSUME NEW labels, NEW types, NEW chunks \in Seq(Seq(NodesOf(Nat, labels, types))), OwnIdsByChunk(chunks),
         NEW words, NEW kinds, NEW edges \in Seq(EdgesOf(Places, words, kinds))
  PROVE  MergeIgnoresOrder(chunks, edges, MergeGraphs(chunks, edges))
<1> DEFINE n == Len(chunks)
           turned == Reverse(chunks)
           backwards == TurnedEdges(n, edges)
<1>1. turned \in Seq(Seq(NodesOf(Nat, labels, types)))
  BY ReversedElements
<1>2. OwnIds(Range(Renamed(turned))) /\ View(Renamed(turned)) = View(Renamed(chunks)) /\ OwnIds(Range(Renamed(chunks)))
  BY TurnedKeys, ChunkIds
<1>3. backwards \in Seq(EdgesOf(Places, words, kinds)) /\ Joined(Renamed(turned), backwards) = Joined(Renamed(chunks), edges)
  BY TurnedJoins
<1>4. MergeIgnoresOrder(chunks, edges, MergeGraphs(chunks, edges)) <=>
        Content(Renamed(turned), MergeGraphs(turned, backwards)) = Content(Renamed(chunks), MergeGraphs(chunks, edges))
  BY DEF MergeIgnoresOrder, TurnedEdges, TurnedEdge, Turn
<1> HIDE DEF turned, backwards
<1>5. \A c \in Seq(Seq(NodesOf(Nat, labels, types))) : \A e \in Seq(EdgesOf(Places, words, kinds)) :
         OwnIds(Range(Renamed(c))) =>
            Content(Renamed(c), MergeGraphs(c, e)) = Shape(View(Renamed(c)), Longest(Joined(Renamed(c), e)))
  <2> TAKE c \in Seq(Seq(NodesOf(Nat, labels, types)))
  <2> TAKE e \in Seq(EdgesOf(Places, words, kinds))
  <2> HAVE OwnIds(Range(Renamed(c)))
  <2>1. Built(Renamed(c), Merged(c, e)) /\ EdgeViews(Renamed(c), Merged(c, e).edges) = Longest(Joined(Renamed(c), e))
    BY LongestStay
  <2>2. Renamed(c) \in Seq(NodesOf(Places, labels, types))
    BY RenamedNodes
  <2> QED
    BY <2>1, <2>2, ContentIsShape DEF MergeGraphs
<1> QED
  BY <1>1, <1>2, <1>3, <1>4, <1>5

-----------------------------------------------------------------------------
\* ---- Semantic clustering -------------------------------------------------
\* What holds of the empty set, and of a set that has some element without which it holds,
\* holds of every finite set.
LEMMA SetBySet ==
  ASSUME NEW S, IsFiniteSet(S), NEW P, {} \in P,
         \A s \in SUBSET S : s # {} => \E x \in s : s \ {x} \in P => s \in P
  PROVE  \A s \in SUBSET S : s \in P
<1> DEFINE Q == {k \in Nat : \A s \in SUBSET S : Cardinality(s) = k => s \in P}
<1>0. \A s \in SUBSET S : IsFiniteSet(s) /\ Cardinality(s) \in Nat /\ (Cardinality(s) = 0 <=> s = {})
  BY FS_Subset, FS_CardinalityType, FS_EmptySet
<1>1. 0 \in Q
  BY <1>0
<1>2. ASSUME NEW k \in Nat, k \in Q
      PROVE  k + 1 \in Q
  <2> SUFFICES ASSUME NEW s \in SUBSET S, Cardinality(s) = k + 1
               PROVE  s \in P
    OBVIOUS
  <2>1. s # {}
    BY <1>0
  <2>2. PICK x \in s : s \ {x} \in P => s \in P
    BY <2>1
  <2>3. IsFiniteSet(s) /\ s \ {x} \in SUBSET S
    BY <1>0
  <2>4. Cardinality(s \ {x}) = Cardinality(s) - 1
    BY <2>3, FS_RemoveElement
  <2>5. Cardinality(s \ {x}) = k
    BY <2>4
  <2> QED
    BY <1>2, <2>2, <2>3, <2>5
<1> HIDE DEF Q
<1>3. Nat \subseteq Q
  BY <1>1, <1>2, HandedOn
<1> QED
  BY <1>0, <1>3 DEF Q

\* A finite set that a relation orders, be it with ties, has a first element.
Orders(S, R) ==
    /\ \A a, b \in S : <<a, b>> \in R \/ <<b, a>> \in R
    /\ \A a, b, c \in S : <<a, b>> \in R /\ <<b, c>> \in R => <<a, c>> \in R

LEMMA TopOf ==
  ASSUME NEW S, IsFiniteSet(S), S # {}, NEW R, Orders(S, R)
  PROVE  \E m \in S : \A n \in S : <<m, n>> \in R
<1> DEFINE P == {s \in SUBSET S : s # {} => \E m \in s : \A n \in s : <<m, n>> \in R}
<1>1. {} \in P
  OBVIOUS
<1>2. ASSUME NEW s \in SUBSET S, s # {}
      PROVE  \E x \in s : s \ {x} \in P => s \in P
  <2>1. PICK x : x \in s
    BY <1>2
  <2>2. ASSUME s \ {x} \in P
        PROVE  s \in P
    <3>0. x \in S /\ <<x, x>> \in R
      BY <2>1 DEF Orders
    <3>1. CASE s \ {x} = {}
      BY <2>1, <3>0, <3>1
    <3>2. CASE s \ {x} # {}
      <4>1. PICK m \in s \ {x} : \A n \in s \ {x} : <<m, n>> \in R
        BY <2>2, <3>2
      <4>2. CASE <<m, x>> \in R
        BY <4>1, <4>2
      <4>3. CASE <<x, m>> \in R
        <5>1. \A n \in s : <<x, n>> \in R
          BY <3>0, <4>1, <4>3 DEF Orders
        <5> QED
          BY <2>1, <5>1
      <4>4. m \in S
        BY <4>1
      <4> QED
        BY <3>0, <4>2, <4>3, <4>4 DEF Orders
    <3> QED
      BY <3>1, <3>2
  <2> QED
    BY <2>1, <2>2
<1> HIDE DEF P
<1>3. \A s \in SUBSET S : s \in P
  BY <1>1, <1>2, SetBySet
<1>4. S \in P
  BY <1>3
<1> QED
  BY <1>4 DEF P

\* The greatest of finitely many numbers.
LEMMA GreatestOfAll ==
  ASSUME NEW T \in SUBSET Nat, IsFiniteSet(T), T # {}
  PROVE  Max(T) \in T /\ \A y \in T : Max(T) >= y
<1> DEFINE R == {p \in T \X T : p[1] >= p[2]}
<1>1. Orders(T, R)
  BY DEF Orders
<1>2. \A a, b \in T : <<a, b>> \in R => a >= b
  OBVIOUS
<1> HIDE DEF R
<1>3. PICK m \in T : \A n \in T : <<m, n>> \in R
  BY <1>1, TopOf
<1>4. \A n \in T : m >= n
  BY <1>2, <1>3
<1> QED
  BY <1>4 DEF Max

-----------------------------------------------------------------------------
\* ---- The parts of a graph -----------------------------------------------
\* Parts that are apart and make up ids.
Partition(parts, ids) ==
    /\ \A p \in parts : p # {} /\ p \subseteq ids
    /\ \A id \in ids : \E p \in parts : id \in p
    /\ \A p, q \in parts : p \cap q # {} => p = q

\* Each link ties ids of one part.
TiedBy(parts, links) == \A link \in links : \E p \in parts : link \subseteq p

\* A set that no member of a family crosses.
NoneCrosses(family, set) == \A x \in family : x \subseteq set \/ x \cap set = {}

\* What a link makes of the parts.
TieParts(parts, link) ==
    LET tied == {p \in parts : p \cap link # {}}
    IN (parts \ tied) \cup {UNION tied}

\* What no part and not the link crosses, no joined part crosses.
StayUncrossed(parts, link, joined) ==
    \A set : NoneCrosses(parts, set) /\ NoneCrosses({link}, set) => NoneCrosses(joined, set)

LEMMA JoinedParts ==
  ASSUME NEW ids, NEW parts, Partition(parts, ids), NEW link \in SUBSET ids, link # {}
  PROVE  /\ Partition(TieParts(parts, link), ids)
         /\ \E p \in TieParts(parts, link) : link \subseteq p
         /\ \A p \in parts : \E q \in TieParts(parts, link) : p \subseteq q
         /\ StayUncrossed(parts, link, TieParts(parts, link))
<1> DEFINE tied == {p \in parts : p \cap link # {}}
           whole == UNION tied
<1>0. TieParts(parts, link) = (parts \ tied) \cup {whole}
  BY DEF TieParts
<1>1. link \subseteq whole /\ whole \subseteq ids
  BY DEF Partition
<1>2. \A p \in parts \ tied : p \cap whole = {}
  BY DEF Partition
<1>3. \A p \in tied : p \subseteq whole
  OBVIOUS
<1>4. ASSUME NEW set, NoneCrosses(parts, set), NoneCrosses({link}, set)
      PROVE  NoneCrosses({whole}, set)
  <2>1. CASE link \subseteq set
    <3>1. \A p \in tied : p \subseteq set
      BY <1>4, <2>1 DEF NoneCrosses
    <3> QED
      BY <3>1 DEF NoneCrosses
  <2>2. CASE link \cap set = {}
    <3>1. \A p \in tied : p \cap set = {}
      BY <1>4, <2>2 DEF NoneCrosses
    <3> QED
      BY <3>1 DEF NoneCrosses
  <2> QED
    BY <1>4, <2>1, <2>2 DEF NoneCrosses
<1>5. \A p \in parts : p \in tied \/ p \in parts \ tied
  OBVIOUS
<1>6. tied \subseteq parts
  OBVIOUS
<1> HIDE DEF tied, whole
<1>7. Partition(TieParts(parts, link), ids)
  <2>1. \A p \in TieParts(parts, link) : p # {} /\ p \subseteq ids
    BY <1>0, <1>1 DEF Partition
  <2>2. \A id \in ids : \E p \in TieParts(parts, link) : id \in p
    BY <1>0, <1>3, <1>5 DEF Partition
  <2>3. \A p, q \in TieParts(parts, link) : p \cap q # {} => p = q
    BY <1>0, <1>2 DEF Partition
  <2> QED
    BY <2>1, <2>2, <2>3 DEF Partition
<1>8. \A p \in parts : \E q \in TieParts(parts, link) : p \subseteq q
  BY <1>0, <1>3, <1>5
<1>9. StayUncrossed(parts, link, TieParts(parts, link))
  BY <1>0, <1>4 DEF NoneCrosses, StayUncrossed
<1> QED
  BY <1>0, <1>1, <1>7, <1>8, <1>9

\* _build_components: the union-find makes parts that are apart; each link is within one, and
\* no part crosses a set that no link crosses.
LEMMA ComponentsAre ==
  ASSUME NEW ids, NEW links \in SUBSET SUBSET ids, IsFiniteSet(links), \A link \in links : link # {}
  PROVE  /\ Partition(Components(ids, links), ids)
         /\ TiedBy(Components(ids, links), links)
         /\ \A set : NoneCrosses(links, set) => NoneCrosses(Components(ids, links), set)
<1> DEFINE V == SUBSET SUBSET ids
           base == {{id} : id \in ids}
           c == [s \in SUBSET links |-> CHOOSE x \in s : TRUE]
           h == [p \in links \X V |-> TieParts(p[2], p[1])]
           Is(f) == f = [s \in SUBSET links |-> IF s = {} THEN base
                            ELSE TieParts(f[s \ {CHOOSE x \in s : TRUE}], CHOOSE x \in s : TRUE)]
           iter == CHOOSE f : Is(f)
<1>1. h \in [links \X V -> V]
  <2>1. \A parts \in V : \A link : TieParts(parts, link) \in V
    BY DEF TieParts
  <2> QED
    BY <2>1
<1>2. base \in V
  OBVIOUS
<1>3. \A s \in SUBSET links : s # {} => c[s] \in s /\ c[s] = CHOOSE x \in s : TRUE
  OBVIOUS
<1>4. \A link \in links : \A parts \in V : h[<<link, parts>>] = TieParts(parts, link)
  OBVIOUS
<1> HIDE DEF h, c, V, base
<1>5. PICK f \in [SUBSET links -> V] : FoldsTo(f, SUBSET links, base, c, h)
  BY <1>1, <1>2, <1>3, FoldExists
<1>6. Is(f)
  <2>1. f = [s \in SUBSET links |-> f[s]]
    OBVIOUS
  <2>2. \A s \in SUBSET links : f[s] = IF s = {} THEN base
                            ELSE TieParts(f[s \ {CHOOSE x \in s : TRUE}], CHOOSE x \in s : TRUE)
    <3> TAKE s \in SUBSET links
    <3>1. CASE s = {}
      BY <1>5, <3>1 DEF FoldsTo
    <3>2. CASE s # {}
      <4>1. f[s] = h[<<c[s], f[s \ {c[s]}]>>]
        BY <1>5, <3>2 DEF FoldsTo
      <4>2. c[s] \in links /\ f[s \ {c[s]}] \in V
        BY <1>3, <3>2
      <4> QED
        BY <1>3, <1>4, <3>2, <4>1, <4>2
    <3> QED
      BY <3>1, <3>2
  <2> QED
    BY <2>1, <2>2
<1> HIDE DEF Is
<1>7. Is(iter)
  BY <1>6
<1>8. Components(ids, links) = iter[links]
  BY DEF Components, FoldSet, MapThenFoldSet, Is, TieParts, base
<1> HIDE DEF iter
<1>9. iter[{}] = base
  BY <1>7 DEF Is
<1>10. ASSUME NEW s \in SUBSET links, s # {}
       PROVE  c[s] \in s /\ iter[s] = TieParts(iter[s \ {c[s]}], c[s])
  BY <1>3, <1>7, <1>10 DEF Is
<1> DEFINE P == {s \in SUBSET links :
                    /\ Partition(iter[s], ids) /\ TiedBy(iter[s], s)
                    /\ \A set : NoneCrosses(links, set) => NoneCrosses(iter[s], set)}
<1>11. {} \in P
  <2>1. Partition(base, ids)
    BY DEF base, Partition
  <2>2. TiedBy(base, {})
    BY DEF TiedBy
  <2>3. \A set : NoneCrosses(base, set)
    BY DEF base, NoneCrosses
  <2> QED
    BY <1>9, <2>1, <2>2, <2>3
<1>12. ASSUME NEW s \in SUBSET links, s # {}
       PROVE  \E x \in s : s \ {x} \in P => s \in P
  <2> DEFINE x == c[s]
             before == iter[s \ {x}]
  <2>1. x \in s /\ iter[s] = TieParts(before, x)
    BY <1>10, <1>12
  <2>2. ASSUME s \ {x} \in P
        PROVE  s \in P
    <3>1. /\ Partition(before, ids) /\ TiedBy(before, s \ {x})
          /\ \A set : NoneCrosses(links, set) => NoneCrosses(before, set)
      BY <2>2
    <3>2. x \in SUBSET ids /\ x # {}
      BY <2>1
    <3> HIDE DEF before, x
    <3>3. /\ Partition(iter[s], ids)
          /\ \E p \in iter[s] : x \subseteq p
          /\ \A p \in before : \E q \in iter[s] : p \subseteq q
          /\ StayUncrossed(before, x, iter[s])
      BY <2>1, <3>1, <3>2, JoinedParts
    <3>4. TiedBy(iter[s], s)
      <4> SUFFICES ASSUME NEW link \in s
                   PROVE  \E p \in iter[s] : link \subseteq p
        BY DEF TiedBy
      <4>1. CASE link = x
        BY <3>3, <4>1
      <4>2. CASE link # x
        <5>1. PICK p \in before : link \subseteq p
          BY <3>1, <4>2 DEF TiedBy
        <5>2. PICK q \in iter[s] : p \subseteq q
          BY <3>3
        <5> QED
          BY <5>1, <5>2
      <4> QED
        BY <4>1, <4>2
    <3>5. \A set : NoneCrosses(links, set) => NoneCrosses(iter[s], set)
      <4> TAKE set
      <4> HAVE NoneCrosses(links, set)
      <4>1. NoneCrosses({x}, set)
        BY <2>1 DEF NoneCrosses
      <4> QED
        BY <3>1, <3>3, <4>1 DEF StayUncrossed
    <3> QED
      BY <3>3, <3>4, <3>5
  <2> HIDE DEF P
  <2> QED
    BY <2>1, <2>2
<1> HIDE DEF P
<1>13. \A s \in SUBSET links : s \in P
  BY <1>11, <1>12, SetBySet
<1>14. links \in P
  BY <1>13
<1> QED
  BY <1>8, <1>14 DEF P

\* ---- The clusters -------------------------------------------------------
\* Nodes and edges as the second pass gets them.
ClaimNodes(types, words, names) ==
    [id : Nat, type : types, confidence : Nat, span : Nat, description : SUBSET words,
     folded : SUBSET names, aliases : SUBSET names]
ClaimEdges(ids, types, labels) ==
    [source : ids, target : ids, type : types, label : labels, span : Nat, rationale : Nat]

\* A graph that passed the merge: an id is an alias of no other node, and nothing was a bridge
\* yet.
Clusterable(g) ==
    /\ Consistent(g) /\ KeysDistinct(g.edges) /\ IsFiniteSet(g.nodes)
    /\ \A m, n \in g.nodes : n.id \in m.aliases => m = n
    /\ \E types, words, names : g.nodes \subseteq ClaimNodes(types, words, names)
    /\ \E types, labels : Bridge \notin types /\ g.edges \in Seq(ClaimEdges(Ids(g.nodes), types, labels))

\* A degree is a number.
LEMMA DegreeIsNumber ==
  ASSUME NEW g, NEW W, g.edges \in Seq(W), NEW id
  PROVE  Degree(g, id) \in Nat
<1> DEFINE out == {i \in DOMAIN g.edges : g.edges[i].source = id}
           in == {i \in DOMAIN g.edges : g.edges[i].target = id}
<1>1. IsFiniteSet(DOMAIN g.edges)
  <2>1. DOMAIN g.edges = 1..Len(g.edges) /\ Len(g.edges) \in Nat
    OBVIOUS
  <2> QED
    BY <2>1, FS_Interval
<1>2. out \in SUBSET DOMAIN g.edges /\ in \in SUBSET DOMAIN g.edges
  OBVIOUS
<1>3. Degree(g, id) = Cardinality(out) + Cardinality(in)
  BY DEF Degree
<1> HIDE DEF out, in
<1>4. Cardinality(out) \in Nat /\ Cardinality(in) \in Nat
  BY <1>1, <1>2, FS_Subset, FS_CardinalityType
<1> QED
  BY <1>3, <1>4

\* What the second pass needs of the numbers.
LEMMA ClusterableNodes ==
  ASSUME NEW g, Clusterable(g)
  PROVE  /\ Ids(g.nodes) \subseteq Nat /\ IsFiniteSet(Ids(g.nodes))
         /\ \A n \in g.nodes : n.id \in Nat /\ n.confidence \in Nat /\ n.span \in Nat
         /\ \A m, n \in g.nodes : m.id = n.id => m = n
         /\ \A id : Degree(g, id) \in Nat
<1>1. \A n \in g.nodes : n.id \in Nat /\ n.confidence \in Nat /\ n.span \in Nat
  <2>1. PICK types, words, names : g.nodes \subseteq ClaimNodes(types, words, names)
    BY DEF Clusterable
  <2> QED
    BY <2>1 DEF ClaimNodes
<1>2. IsFiniteSet(Ids(g.nodes))
  <2> DEFINE f == [n \in g.nodes |-> n.id]
  <2>1. f \in Surjection(g.nodes, Ids(g.nodes))
    BY DEF Surjection, Ids
  <2> HIDE DEF f
  <2> QED
    BY <2>1, FS_Surjection DEF Clusterable
<1>3. \A m, n \in g.nodes : m.id = n.id => m = n
  BY DEF Clusterable, Consistent
<1>4. \A id : Degree(g, id) \in Nat
  <2>1. PICK types, labels : g.edges \in Seq(ClaimEdges(Ids(g.nodes), types, labels))
    BY DEF Clusterable
  <2> QED
    BY <2>1, DegreeIsNumber
<1> QED
  BY <1>1, <1>2, <1>3, <1>4 DEF Ids

\* Clusters make up the ids, each of nodes of one type.
Clustering(g, clusters) ==
    /\ Partition(clusters, Ids(g.nodes))
    /\ \A c \in clusters : \A m, n \in Members(g, c) : m.type = n.type

LEMMA ClustersAre ==
  ASSUME NEW g, Clusterable(g), NEW world
  PROVE  Clustering(g, ClustersOf(g, world))
<1> DEFINE ids == Ids(g.nodes)
           links == SamePairs(g, world)
           clusters == ClustersOf(g, world)
<1>1. \A link \in links : \E m, n \in g.nodes : link = {m.id, n.id} /\ m.type = n.type
  <2>1. \A link \in links : link \in CoarsePairs(g, world)
    BY DEF SamePairs
  <2>2. \A link \in CoarsePairs(g, world) :
           \E q \in g.nodes \X g.nodes : link = {q[1].id, q[2].id} /\ q[1].type = q[2].type
    BY DEF CoarsePairs
  <2> QED
    BY <2>1, <2>2
<1>2. links \in SUBSET SUBSET ids /\ \A link \in links : link # {}
  BY <1>1 DEF Ids
<1>3. IsFiniteSet(links)
  <2>1. IsFiniteSet(SUBSET ids)
    BY ClusterableNodes, FS_SUBSET
  <2> QED
    BY <1>2, <2>1, FS_Subset
<1>4. clusters = Components(ids, links)
  BY DEF ClustersOf
<1>5. /\ Partition(clusters, ids)
      /\ \A set : NoneCrosses(links, set) => NoneCrosses(clusters, set)
  <2> HIDE DEF ids, links, clusters
  <2> QED
    BY <1>2, <1>3, <1>4, ComponentsAre
<1>6. ASSUME NEW c \in clusters, NEW m \in Members(g, c), NEW n \in Members(g, c)
      PROVE  m.type = n.type
  <2> DEFINE alike == {x.id : x \in {k \in g.nodes : k.type = m.type}}
  <2>1. NoneCrosses(links, alike)
    <3> SUFFICES ASSUME NEW link \in links, link \cap alike # {}
                 PROVE  link \subseteq alike
      BY DEF NoneCrosses
    <3>1. PICK a, b \in g.nodes : link = {a.id, b.id} /\ a.type = b.type
      BY <1>1
    <3>2. a.type = m.type
      BY <3>1, ClusterableNodes
    <3> QED
      BY <3>1, <3>2
  <2>2. NoneCrosses(clusters, alike)
    BY <1>5, <2>1
  <2>3. m.id \in alike /\ m.id \in c /\ n.id \in c
    BY DEF Members
  <2>4. c \subseteq alike
    BY <2>2, <2>3 DEF NoneCrosses
  <2>5. PICK x \in g.nodes : x.id = n.id /\ x.type = m.type
    BY <2>3, <2>4
  <2>6. x = n
    BY <2>5, ClusterableNodes DEF Members
  <2> QED
    BY <2>5, <2>6
<1> QED
  BY <1>5, <1>6 DEF Clustering

\* The order of three numbers after another, the last one backwards.
LEMMA ThreeDeep ==
  ASSUME NEW a1 \in Nat, NEW a2 \in Nat, NEW a3 \in Nat,
         NEW b1 \in Nat, NEW b2 \in Nat, NEW b3 \in Nat,
         NEW c1 \in Nat, NEW c2 \in Nat, NEW c3 \in Nat
  PROVE  LET Above(x1, x2, x3, y1, y2, y3) ==
                 x1 > y1 \/ (x1 = y1 /\ (x2 > y2 \/ (x2 = y2 /\ x3 <= y3)))
         IN /\ Above(a1, a2, a3, b1, b2, b3) \/ Above(b1, b2, b3, a1, a2, a3)
            /\ Above(a1, a2, a3, b1, b2, b3) /\ Above(b1, b2, b3, c1, c2, c3) => Above(a1, a2, a3, c1, c2, c3)
OBVIOUS

\* _elect_root: every cluster has a root, one of its members.
LEMMA RootIsMember ==
  ASSUME NEW g, Clusterable(g), NEW c \in SUBSET Ids(g.nodes), c # {}
  PROVE  Root(g, c) \in Members(g, c)
<1> DEFINE S == Members(g, c)
           R == {p \in S \X S : Outranks(g, p[1], p[2])}
<1>1. IsFiniteSet(S) /\ S # {}
  <2>1. S \in SUBSET g.nodes
    BY DEF Members
  <2>2. S # {}
    BY DEF Members, Ids
  <2> QED
    BY <2>1, <2>2, FS_Subset DEF Clusterable
<1>2. \A m \in S : Degree(g, m.id) \in Nat /\ m.confidence \in Nat /\ m.id \in Nat
  BY ClusterableNodes DEF Members
<1>3. \A a, b \in S : <<a, b>> \in R <=> Outranks(g, a, b)
  OBVIOUS
<1> HIDE DEF S, R
<1>4. Orders(S, R)
  <2>1. ASSUME NEW a \in S, NEW b \in S
        PROVE  <<a, b>> \in R \/ <<b, a>> \in R
    BY <1>2, <1>3, ThreeDeep DEF Outranks
  <2>2. ASSUME NEW a \in S, NEW b \in S, NEW d \in S, <<a, b>> \in R, <<b, d>> \in R
        PROVE  <<a, d>> \in R
    <3>1. Outranks(g, a, b) /\ Outranks(g, b, d)
      BY <1>3, <2>2
    <3>2. Outranks(g, a, d)
      BY <1>2, <3>1 DEF Outranks
    <3> QED
      BY <1>3, <3>2
  <2> QED
    BY <2>1, <2>2 DEF Orders
<1>5. PICK m \in S : \A n \in S : <<m, n>> \in R
  BY <1>1, <1>4, TopOf
<1>6. \A n \in S : Outranks(g, m, n)
  BY <1>3, <1>5
<1> QED
  BY <1>6 DEF Root, S

\* ---- The merged nodes ---------------------------------------------------
\* _merge_clusters: a cluster's node stands for its members and for nobody else.
StandsFor(g, clusters, c) ==
    LET node == ClusterNode(g, c)
    IN /\ node.id = Root(g, c).id /\ node.id \in c
       /\ \A n \in Members(g, c) :
             n.type = node.type /\ n.span <= node.span /\ n.folded \subseteq node.folded
       /\ \A id \in Ids(g.nodes) : id \in c <=> id = node.id \/ id \in node.aliases

LEMMA ClusterNodeStands ==
  ASSUME NEW g, Clusterable(g), NEW clusters, Clustering(g, clusters), NEW c \in clusters
  PROVE  StandsFor(g, clusters, c)
<1> DEFINE root == Root(g, c)
           node == ClusterNode(g, c)
           members == Members(g, c)
           spans == {n.span : n \in members}
<1>0. c \in SUBSET Ids(g.nodes) /\ c # {}
  BY DEF Clustering, Partition
<1>1. root \in members /\ root \in g.nodes /\ root.id \in c
  BY <1>0, RootIsMember DEF Members
<1>2. /\ node.id = root.id /\ node.type = root.type
      /\ node.aliases = root.aliases \cup (c \ {root.id})
      /\ node.folded = FoldedOf(g, c) /\ node.span = Max(spans)
  <2>1. PICK types, words, names : g.nodes \subseteq ClaimNodes(types, words, names)
    BY DEF Clusterable
  <2>2. root \in ClaimNodes(types, words, names)
    BY <1>1, <2>1
  <2> HIDE DEF root
  <2> QED
    BY <2>2 DEF ClusterNode, ClaimNodes, root
<1> HIDE DEF root, node
<1>3. \A n \in members : n.type = node.type
  BY <1>1, <1>2 DEF Clustering
<1>4. \A n \in members : n.folded \subseteq node.folded
  BY <1>2 DEF FoldedOf
<1>5. \A n \in members : n.span <= node.span
  <2>1. members \in SUBSET g.nodes
    BY DEF Members
  <2>2. IsFiniteSet(members)
    BY <2>1, FS_Subset DEF Clusterable
  <2>3. IsFiniteSet(spans)
    <3> DEFINE f == [n \in members |-> n.span]
    <3>1. f \in Surjection(members, spans)
      BY DEF Surjection
    <3> HIDE DEF f, members, spans
    <3> QED
      BY <2>2, <3>1, FS_Surjection
  <2>4. spans \in SUBSET Nat /\ spans # {}
    BY <1>1, <2>1, ClusterableNodes
  <2>5. \A y \in spans : Max(spans) >= y
    <3> HIDE DEF spans
    <3> QED
      BY <2>3, <2>4, GreatestOfAll
  <2>6. Max(spans) \in Nat
    <3> HIDE DEF spans
    <3> QED
      BY <2>3, <2>4, GreatestOfAll
  <2> QED
    BY <1>2, <2>4, <2>5, <2>6
<1>6. ASSUME NEW id \in Ids(g.nodes)
      PROVE  id \in c <=> id = node.id \/ id \in node.aliases
  <2>1. ASSUME id \in root.aliases
        PROVE  id \in c
    <3>1. PICK n \in g.nodes : n.id = id
      BY DEF Ids
    <3>2. n = root
      BY <1>1, <2>1, <3>1 DEF Clusterable
    <3> QED
      BY <1>1, <3>1, <3>2
  <2> QED
    BY <1>1, <1>2, <2>1
<1> QED
  BY <1>1, <1>2, <1>3, <1>4, <1>5, <1>6 DEF StandsFor, node, root

\* The root of a node's cluster.
LEMMA RootOfNode ==
  ASSUME NEW g, Clusterable(g), NEW clusters, Clustering(g, clusters), NEW c \in clusters, NEW id \in c
  PROVE  RootId(g, clusters, id) = Root(g, c).id
<1>1. \A d \in clusters : id \in d => d = c
  BY DEF Clustering, Partition
<1>2. (CHOOSE d \in clusters : id \in d) = c
  BY <1>1
<1> QED
  BY <1>2 DEF RootId

\* The node of the clustered graph that id is now in.
HomeIn(nodes, id) == CHOOSE n \in nodes : id = n.id \/ id \in n.aliases

LEMMA HomeOfNode ==
  ASSUME NEW g, Clusterable(g), NEW clusters, Clustering(g, clusters), NEW c \in clusters, NEW id \in c
  PROVE  HomeIn({ClusterNode(g, d) : d \in clusters}, id) = ClusterNode(g, c)
<1> DEFINE nodes == {ClusterNode(g, d) : d \in clusters}
           Is(n) == id = n.id \/ id \in n.aliases
<1>1. id \in Ids(g.nodes)
  BY DEF Clustering, Partition
<1>2. Is(ClusterNode(g, c)) /\ ClusterNode(g, c) \in nodes
  BY <1>1, ClusterNodeStands DEF StandsFor
<1>3. \A n \in nodes : Is(n) => n = ClusterNode(g, c)
  <2> SUFFICES ASSUME NEW d \in clusters, Is(ClusterNode(g, d))
               PROVE  d = c
    OBVIOUS
  <2>1. id \in d
    BY <1>1, ClusterNodeStands DEF StandsFor
  <2> QED
    BY <2>1 DEF Clustering, Partition
<1> HIDE DEF Is
<1>4. (CHOOSE n \in nodes : Is(n)) = ClusterNode(g, c)
  BY <1>2, <1>3
<1> QED
  BY <1>4 DEF HomeIn, Is

\* ---- The merged edges ---------------------------------------------------
\* An edge of the list says what e says.
Said(edges, e) == \E i \in DOMAIN edges : EdgeKey(edges[i]) = EdgeKey(e)

LEMMA KeepRicherSays ==
  ASSUME NEW W, NEW kept \in Seq(W), NEW e \in W
  PROVE  /\ KeepRicher(kept, e) \in Seq(W)
         /\ e.source # e.target => Said(KeepRicher(kept, e), e)
         /\ \A w : Said(kept, w) => Said(KeepRicher(kept, e), w)
<1> DEFINE twin == {i \in DOMAIN kept : EdgeKey(kept[i]) = EdgeKey(e)}
           better == [i \in DOMAIN kept |-> IF i \in twin /\ Richer(e, kept[i]) THEN e ELSE kept[i]]
<1> HIDE DEF EdgeKey
<1>0. KeepRicher(kept, e) = IF e.source = e.target THEN kept
                            ELSE IF twin = {} THEN Append(kept, e) ELSE better
  BY DEF KeepRicher
<1>1. CASE e.source = e.target
  BY <1>0, <1>1
<1>2. CASE e.source # e.target /\ twin = {}
  <2>1. Append(kept, e) \in Seq(W) /\ Len(kept) + 1 \in DOMAIN Append(kept, e)
        /\ Append(kept, e)[Len(kept) + 1] = e
        /\ \A i \in DOMAIN kept : Append(kept, e)[i] = kept[i] /\ i \in DOMAIN Append(kept, e)
    OBVIOUS
  <2>2. Said(Append(kept, e), e) /\ \A w : Said(kept, w) => Said(Append(kept, e), w)
    BY <2>1 DEF Said
  <2> QED
    BY <1>0, <1>2, <2>1, <2>2
<1>3. CASE e.source # e.target /\ twin # {}
  <2>1. better \in Seq(W) /\ DOMAIN better = DOMAIN kept
    <3>1. \A i \in 1..Len(kept) : kept[i] \in W
      OBVIOUS
    <3> QED
      BY <3>1
  <2>2. \A i \in DOMAIN kept : EdgeKey(better[i]) = EdgeKey(kept[i])
    OBVIOUS
  <2>3. PICK i \in DOMAIN kept : EdgeKey(kept[i]) = EdgeKey(e)
    BY <1>3
  <2> HIDE DEF better
  <2>4. Said(better, e) /\ \A w : Said(kept, w) => Said(better, w)
    BY <2>1, <2>2, <2>3 DEF Said
  <2> QED
    BY <1>0, <1>3, <2>1, <2>4
<1> QED
  BY <1>1, <1>2, <1>3

\* The edges of the merged graph, edge by edge.
RicherLoop(kept, g, clusters) ==
    /\ kept[0] = <<>>
    /\ \A k \in 1..Len(g.edges) : kept[k] = KeepRicher(kept[k - 1], ToRoots(g, clusters, g.edges[k]))
    /\ MergeClusters(g, clusters).edges = kept[Len(g.edges)]

LEMMA MergedClustersLoop ==
  ASSUME NEW W, NEW g, DOMAIN g.edges = 1..Len(g.edges), Len(g.edges) \in Nat, NEW clusters,
         \A i \in DOMAIN g.edges : ToRoots(g, clusters, g.edges[i]) \in W
  PROVE  \E kept \in [0..Len(g.edges) -> Seq(W)] : RicherLoop(kept, g, clusters)
<1> DEFINE n == Len(g.edges)
           Taken(before, k) == KeepRicher(before, ToRoots(g, clusters, g.edges[k]))
           h == [p \in (1..n) \X Seq(W) |-> Taken(p[2], p[1])]
           Is(f) == f = [s \in SUBSET (1..n) |-> IF s = {} THEN <<>> ELSE Taken(f[s \ {Max(s)}], Max(s))]
           iter == CHOOSE f : Is(f)
<1>1. h \in [(1..n) \X Seq(W) -> Seq(W)]
  <2>1. \A k \in 1..n : ToRoots(g, clusters, g.edges[k]) \in W
    OBVIOUS
  <2>2. ASSUME NEW before \in Seq(W), NEW k \in 1..n
        PROVE  Taken(before, k) \in Seq(W)
    BY <2>1, KeepRicherSays
  <2> HIDE DEF Taken
  <2> QED
    BY <2>2
<1>2. <<>> \in Seq(W)
  OBVIOUS
<1> HIDE DEF h
<1>3. PICK f \in [SUBSET (1..n) -> Seq(W)] : FoldsUp(f, n, <<>>, h)
  BY <1>1, <1>2, SequenceFold
<1>4. \A s \in SUBSET (1..n) : s # {} => h[<<Max(s), f[s \ {Max(s)}]>>] = Taken(f[s \ {Max(s)}], Max(s))
  BY GreatestOf DEF h
<1>5. Is(f)
  <2> HIDE DEF Taken
  <2> QED
    BY <1>3, <1>4 DEF FoldsUp
<1> HIDE DEF Is
<1>6. Is(iter)
  BY <1>5
<1>7. MergeClusters(g, clusters).edges = iter[1..n]
  BY DEF MergeClusters, FoldLeft, MapThenFoldSet, Is
<1> HIDE DEF iter
<1>8. iter[1..0] = <<>>
  BY <1>6 DEF Is
<1>9. \A k \in 1..n : iter[1..k] = Taken(iter[1..(k - 1)], k)
  <2> TAKE k \in 1..n
  <2>1. Max(1..k) = k /\ (1..k) \ {k} = 1..(k - 1) /\ 1..k \in SUBSET (1..n) /\ 1..k # {}
    BY LastPosition
  <2> HIDE DEF Taken
  <2> QED
    BY <1>6, <2>1 DEF Is
<1> DEFINE kept == [k \in 0..n |-> iter[1..k]]
<1>10. kept[0] = <<>> /\ MergeClusters(g, clusters).edges = kept[n] /\ kept = [k \in 0..n |-> kept[k]]
       /\ \A k \in 1..n : kept[k] = Taken(kept[k - 1], k)
  <2> HIDE DEF Taken
  <2> QED
    BY <1>7, <1>8, <1>9
<1> HIDE DEF kept
<1> DEFINE P == {k \in 0..n : kept[k] \in Seq(W)}
<1>11. 0 \in P
  <2>1. 0 \in 0..n
    OBVIOUS
  <2>2. kept[0] \in Seq(W)
    BY <1>2, <1>10
  <2> QED
    BY <2>1, <2>2
<1>12. ASSUME NEW k \in 1..n, k - 1 \in P
       PROVE  k \in P
  <2>1. kept[k - 1] \in Seq(W) /\ ToRoots(g, clusters, g.edges[k]) \in W
    BY <1>12
  <2>2. Taken(kept[k - 1], k) \in Seq(W)
    BY <2>1, KeepRicherSays
  <2>3. kept[k] = Taken(kept[k - 1], k)
    BY <1>10
  <2> HIDE DEF Taken
  <2> QED
    BY <2>2, <2>3
<1> HIDE DEF P
<1>13. \A k \in 0..n : k \in P
  BY <1>11, <1>12, StepByStep
<1>14. kept \in [0..n -> Seq(W)]
  BY <1>10, <1>13 DEF P
<1> QED
  BY <1>10, <1>14 DEF RicherLoop

\* _merge_clusters: what an edge between two clusters says is said between their roots.
LEMMA MergedClustersSay ==
  ASSUME NEW W, NEW g, DOMAIN g.edges = 1..Len(g.edges), Len(g.edges) \in Nat, NEW clusters,
         \A i \in DOMAIN g.edges : ToRoots(g, clusters, g.edges[i]) \in W
  PROVE  LET edges == MergeClusters(g, clusters).edges
         IN /\ edges \in Seq(W)
            /\ \A i \in DOMAIN g.edges :
                  LET e == ToRoots(g, clusters, g.edges[i]) IN e.source # e.target => Said(edges, e)
<1> DEFINE n == Len(g.edges)
           Rooted(i) == ToRoots(g, clusters, g.edges[i])
<1>0. PICK kept \in [0..n -> Seq(W)] : RicherLoop(kept, g, clusters)
  BY MergedClustersLoop
<1>1. /\ kept[0] = <<>>
      /\ \A k \in 1..n : kept[k] = KeepRicher(kept[k - 1], Rooted(k))
      /\ MergeClusters(g, clusters).edges = kept[n]
  BY <1>0 DEF RicherLoop
<1>2. \A i \in 1..n : Rooted(i) \in W
  OBVIOUS
<1> HIDE DEF Rooted
<1> DEFINE P == {k \in 0..n : \A i \in 1..k : Rooted(i).source # Rooted(i).target => Said(kept[k], Rooted(i))}
<1>3. 0 \in P
  OBVIOUS
<1>4. ASSUME NEW k \in 1..n, k - 1 \in P
      PROVE  k \in P
  <2>1. kept[k - 1] \in Seq(W) /\ Rooted(k) \in W
    BY <1>2
  <2>2. kept[k] = KeepRicher(kept[k - 1], Rooted(k))
    BY <1>1
  <2>3. /\ Rooted(k).source # Rooted(k).target => Said(kept[k], Rooted(k))
        /\ \A w : Said(kept[k - 1], w) => Said(kept[k], w)
    BY <2>1, <2>2, KeepRicherSays
  <2>4. \A i \in 1..k : i \in 1..(k - 1) \/ i = k
    OBVIOUS
  <2> QED
    BY <1>4, <2>3, <2>4
<1> HIDE DEF P
<1>5. \A k \in 0..n : k \in P
  BY <1>3, <1>4, StepByStep
<1>6. n \in P
  BY <1>5
<1>7. \A i \in 1..n : Rooted(i).source # Rooted(i).target => Said(kept[n], Rooted(i))
  BY <1>6 DEF P
<1> QED
  BY <1>1, <1>7 DEF Rooted

\* ---- One edge of a type -------------------------------------------------
Triple(e) == <<e.source, e.target, e.type>>

SlimLoop(kept, edges) ==
    /\ kept[0] = <<>>
    /\ \A k \in 1..Len(edges) :
          kept[k] = IF \E m \in Range(kept[k - 1]) : Triple(m) = Triple(edges[k]) THEN kept[k - 1]
                    ELSE Append(kept[k - 1], edges[k])
    /\ OnePerType(edges) = kept[Len(edges)]

LEMMA OnePerTypeLoop ==
  ASSUME NEW W, NEW edges \in Seq(W)
  PROVE  \E kept \in [0..Len(edges) -> Seq(W)] : SlimLoop(kept, edges)
<1> DEFINE n == Len(edges)
           Kept(before, e) == IF \E m \in Range(before) : Triple(m) = Triple(e) THEN before ELSE Append(before, e)
           h == [p \in (1..n) \X Seq(W) |-> Kept(p[2], edges[p[1]])]
           Is(f) == f = [s \in SUBSET (1..n) |-> IF s = {} THEN <<>> ELSE Kept(f[s \ {Max(s)}], edges[Max(s)])]
           iter == CHOOSE f : Is(f)
<1>0. DOMAIN edges = 1..n /\ n \in Nat /\ \A k \in 1..n : edges[k] \in W
  OBVIOUS
<1>1. h \in [(1..n) \X Seq(W) -> Seq(W)]
  BY <1>0
<1>2. <<>> \in Seq(W)
  OBVIOUS
<1> HIDE DEF h
<1>3. PICK f \in [SUBSET (1..n) -> Seq(W)] : FoldsUp(f, n, <<>>, h)
  BY <1>0, <1>1, <1>2, SequenceFold
<1>4. \A s \in SUBSET (1..n) : s # {} => h[<<Max(s), f[s \ {Max(s)}]>>] = Kept(f[s \ {Max(s)}], edges[Max(s)])
  BY <1>0, GreatestOf DEF h
<1>5. Is(f)
  <2> HIDE DEF Kept
  <2> QED
    BY <1>3, <1>4 DEF FoldsUp
<1> HIDE DEF Is
<1>6. Is(iter)
  BY <1>5
<1>7. OnePerType(edges) = iter[1..n]
  BY <1>0 DEF OnePerType, FoldLeft, MapThenFoldSet, Is, Triple
<1> HIDE DEF iter
<1> DEFINE kept == [k \in 0..n |-> iter[1..k]]
<1>8. kept[0] = <<>> /\ OnePerType(edges) = kept[n] /\ kept = [k \in 0..n |-> kept[k]]
  <2>1. iter[1..0] = <<>>
    BY <1>0, <1>6 DEF Is
  <2> QED
    BY <1>0, <1>7, <2>1
<1>9. \A k \in 1..n : kept[k] = Kept(kept[k - 1], edges[k])
  <2> TAKE k \in 1..n
  <2>1. Max(1..k) = k /\ (1..k) \ {k} = 1..(k - 1) /\ 1..k \in SUBSET (1..n) /\ 1..k # {}
    BY <1>0, LastPosition
  <2>2. iter[1..k] = Kept(iter[1..(k - 1)], edges[k])
    <3> HIDE DEF Kept
    <3> QED
      BY <1>6, <2>1 DEF Is
  <2> HIDE DEF Kept
  <2> QED
    BY <1>0, <2>2
<1> HIDE DEF kept
<1> DEFINE P == {k \in 0..n : kept[k] \in Seq(W)}
<1>10. \A k \in 0..n : k \in P
  <2>1. 0 \in P
    <3>1. 0 \in 0..n
      BY <1>0
    <3>2. kept[0] \in Seq(W)
      BY <1>2, <1>8
    <3> QED
      BY <3>1, <3>2
  <2>2. ASSUME NEW k \in 1..n, k - 1 \in P
        PROVE  k \in P
    <3>1. kept[k - 1] \in Seq(W) /\ edges[k] \in W
      BY <1>0, <2>2
    <3>2. Kept(kept[k - 1], edges[k]) \in Seq(W)
      BY <3>1
    <3>3. kept[k] = Kept(kept[k - 1], edges[k])
      BY <1>9
    <3> HIDE DEF Kept
    <3> QED
      BY <3>2, <3>3
  <2> HIDE DEF P
  <2> QED
    BY <1>0, <2>1, <2>2, StepByStep
<1>11. kept \in [0..n -> Seq(W)]
  BY <1>8, <1>10
<1> QED
  BY <1>8, <1>9, <1>11 DEF SlimLoop

\* _deduplicate_edges_by_type: of every relation between two nodes one edge stays.
TriplesApart(edges) == \A i, k \in DOMAIN edges : Triple(edges[i]) = Triple(edges[k]) => i = k
SlimOf(slim, edges) ==
    /\ TriplesApart(slim) /\ Range(slim) \subseteq Range(edges)
    /\ \A e \in Range(edges) : \E m \in Range(slim) : Triple(m) = Triple(e)

LEMMA OnePerTypeKeeps ==
  ASSUME NEW W, NEW edges \in Seq(W)
  PROVE  OnePerType(edges) \in Seq(W) /\ SlimOf(OnePerType(edges), edges)
<1> DEFINE n == Len(edges)
<1>0. DOMAIN edges = 1..n /\ n \in Nat
  OBVIOUS
<1>1. PICK kept \in [0..n -> Seq(W)] : SlimLoop(kept, edges)
  BY OnePerTypeLoop
<1>2. /\ kept[0] = <<>>
      /\ \A k \in 1..n :
          kept[k] = IF \E m \in Range(kept[k - 1]) : Triple(m) = Triple(edges[k]) THEN kept[k - 1]
                    ELSE Append(kept[k - 1], edges[k])
      /\ OnePerType(edges) = kept[n]
  BY <1>1 DEF SlimLoop
<1> HIDE DEF Triple
<1> DEFINE Sound(list, k) == \A m \in Range(list) : \E j \in 1..k : m = edges[j]
           Whole(list, k) == \A j \in 1..k : \E m \in Range(list) : Triple(m) = Triple(edges[j])
           P == {k \in 0..n : Sound(kept[k], k) /\ Whole(kept[k], k) /\ TriplesApart(kept[k])}
<1>3. 0 \in P
  BY <1>0, <1>2 DEF TriplesApart, Range
<1>4. ASSUME NEW k \in 1..n, k - 1 \in P
      PROVE  k \in P
  <2> DEFINE old == kept[k - 1]
             new == Append(old, edges[k])
  <2>1. old \in Seq(W) /\ edges[k] \in W
    BY <1>0
  <2>2. Sound(old, k - 1) /\ Whole(old, k - 1) /\ TriplesApart(old)
    BY <1>4
  <2>3. \A j \in 1..k : j \in 1..(k - 1) \/ j = k
    OBVIOUS
  <2>4. k \in 1..k /\ \A j \in 1..(k - 1) : j \in 1..k
    OBVIOUS
  <2>5. CASE \E m \in Range(old) : Triple(m) = Triple(edges[k])
    <3>1. kept[k] = old
      BY <1>2, <2>5
    <3> HIDE DEF old, new
    <3>2. Sound(old, k)
      BY <2>2, <2>4
    <3>3. Whole(old, k)
      BY <2>2, <2>3, <2>5
    <3> HIDE DEF Sound, Whole
    <3> QED
      BY <2>2, <3>1, <3>2, <3>3
  <2>6. CASE ~ \E m \in Range(old) : Triple(m) = Triple(edges[k])
    <3>1. kept[k] = new
      BY <1>2, <2>6
    <3>2. Range(new) = Range(old) \cup {edges[k]}
      <4>1. DOMAIN new = 1..(Len(old) + 1) /\ new[Len(old) + 1] = edges[k] /\ Len(old) \in Nat
            /\ DOMAIN old = 1..Len(old) /\ \A i \in 1..Len(old) : new[i] = old[i]
        BY <2>1
      <4>2. \A i : i \in 1..(Len(old) + 1) <=> i \in 1..Len(old) \/ i = Len(old) + 1
        BY <4>1
      <4> HIDE DEF new, old
      <4> QED
        BY <4>1, <4>2 DEF Range
    <3>3. TriplesApart(new)
      <4>1. DOMAIN new = 1..(Len(old) + 1) /\ new[Len(old) + 1] = edges[k] /\ Len(old) \in Nat
            /\ \A i \in 1..Len(old) : new[i] = old[i] /\ i \in DOMAIN old
        BY <2>1
      <4>2. \A i \in 1..Len(old) : Triple(old[i]) # Triple(edges[k])
        BY <2>6, <4>1 DEF Range
      <4>3. \A i \in 1..(Len(old) + 1) : i \in 1..Len(old) \/ i = Len(old) + 1
        BY <4>1
      <4> HIDE DEF new, old
      <4> QED
        BY <2>2, <4>1, <4>2, <4>3 DEF TriplesApart
    <3> HIDE DEF old, new
    <3>4. Sound(new, k)
      BY <2>2, <2>4, <3>2
    <3>5. Whole(new, k)
      BY <2>2, <2>3, <3>2
    <3> HIDE DEF Sound, Whole
    <3> QED
      BY <3>1, <3>3, <3>4, <3>5
  <2> HIDE DEF P
  <2> QED
    BY <2>5, <2>6
<1> HIDE DEF P
<1>5. \A k \in 0..n : k \in P
  BY <1>0, <1>3, <1>4, StepByStep
<1>6. n \in P
  BY <1>0, <1>5
<1>7. Sound(kept[n], n) /\ Whole(kept[n], n) /\ TriplesApart(kept[n]) /\ kept[n] \in Seq(W)
  BY <1>0, <1>6 DEF P
<1>8. SlimOf(kept[n], edges)
  <2>1. Range(edges) = {edges[j] : j \in 1..n}
    BY <1>0 DEF Range
  <2>2. Range(kept[n]) \subseteq Range(edges)
    BY <1>7, <2>1
  <2>3. \A e \in Range(edges) : \E m \in Range(kept[n]) : Triple(m) = Triple(e)
    BY <1>7, <2>1
  <2> QED
    BY <1>7, <2>2, <2>3 DEF SlimOf
<1> QED
  BY <1>2, <1>7, <1>8

\* ---- The bridges --------------------------------------------------------
\* The merged graph: finitely many nodes, whose ids are numbers, and edges between them of
\* which none is a bridge.
Bridgeable(m, types, labels) ==
    /\ IsFiniteSet(Ids(m.nodes)) /\ Ids(m.nodes) \subseteq Nat
    /\ Bridge \notin types /\ m.edges \in Seq(ClaimEdges(Ids(m.nodes), types, labels))

\* The parts of a graph are apart, finitely many, and no edge leads from one to another.
LEMMA PartsAre ==
  ASSUME NEW g, IsFiniteSet(Ids(g.nodes)), \A e \in Range(g.edges) : {e.source, e.target} \subseteq Ids(g.nodes)
  PROVE  /\ Partition(PartsOf(g), Ids(g.nodes)) /\ IsFiniteSet(PartsOf(g))
         /\ TiedBy(PartsOf(g), LinksOf(g.edges))
         /\ \A set : NoneCrosses(LinksOf(g.edges), set) => NoneCrosses(PartsOf(g), set)
<1> DEFINE ids == Ids(g.nodes)
           links == LinksOf(g.edges)
<1>1. links \in SUBSET SUBSET ids /\ \A link \in links : link # {}
  BY DEF LinksOf
<1>2. IsFiniteSet(SUBSET ids) /\ IsFiniteSet(SUBSET SUBSET ids)
  BY FS_SUBSET
<1>3. IsFiniteSet(links)
  BY <1>1, <1>2, FS_Subset
<1>4. PartsOf(g) = Components(ids, links)
  BY DEF PartsOf
<1> HIDE DEF ids, links
<1>5. /\ Partition(PartsOf(g), ids) /\ TiedBy(PartsOf(g), links)
      /\ \A set : NoneCrosses(links, set) => NoneCrosses(PartsOf(g), set)
  BY <1>1, <1>3, <1>4, ComponentsAre
<1>6. PartsOf(g) \in SUBSET SUBSET ids
  BY <1>5 DEF Partition
<1>7. IsFiniteSet(PartsOf(g))
  <2>1. IsFiniteSet(SUBSET ids)
    BY <1>2 DEF ids
  <2> QED
    BY <1>6, <2>1, FS_Subset
<1> QED
  BY <1>5, <1>7 DEF ids, links

\* A part has a representative, one of its nodes.
LEMMA RepresentativeOfPart ==
  ASSUME NEW g, NEW W, g.edges \in Seq(W), NEW part \in SUBSET Nat, IsFiniteSet(part), part # {}
  PROVE  Representative(g, part) \in part
<1> DEFINE Above(m, n) == Degree(g, m) > Degree(g, n) \/ (Degree(g, m) = Degree(g, n) /\ m >= n)
           R == {p \in part \X part : Above(p[1], p[2])}
<1>1. \A m \in part : Degree(g, m) \in Nat /\ m \in Nat
  BY DegreeIsNumber
<1>2. \A a, b \in part : Above(a, b) \/ Above(b, a)
  BY <1>1
<1>3. \A a, b, c \in part : Above(a, b) /\ Above(b, c) => Above(a, c)
  BY <1>1
<1>4. \A a, b \in part : <<a, b>> \in R <=> Above(a, b)
  OBVIOUS
<1> HIDE DEF R, Above
<1>5. Orders(part, R)
  BY <1>2, <1>3, <1>4 DEF Orders
<1>6. PICK m \in part : \A n \in part : <<m, n>> \in R
  BY <1>5, TopOf
<1>7. \A n \in part : Above(m, n)
  BY <1>4, <1>6
<1> QED
  BY <1>7 DEF Representative, Above

\* The vector of a merged node is that of a member of its cluster.
LEMMA VectorOfMember ==
  ASSUME NEW ids \in SUBSET Nat, NEW clusters, Partition(clusters, ids), NEW id \in ids
  PROVE  Vector(clusters, id) \in ids
<1>1. PICK c \in clusters : id \in c
  BY DEF Partition
<1>2. (CHOOSE c1 \in clusters : id \in c1) \in clusters
  BY <1>1
<1> DEFINE chosen == CHOOSE c1 \in clusters : id \in c1
<1>3. chosen \subseteq ids /\ chosen # {}
  BY <1>2 DEF Partition
<1>4. Vector(clusters, id) = Min(chosen)
  BY DEF Vector
<1> HIDE DEF chosen
<1>5. Min(chosen) \in chosen
  BY <1>3, LeastOf
<1> QED
  BY <1>3, <1>4, <1>5

\* How close the models find any two nodes is a number.
Comparable(world, ids) == \A a, b \in ids : world.sim[{a, b}] \in Nat

\* Of the nodes of the main part one is nearest.
LEMMA NearestOfMain ==
  ASSUME NEW g, NEW world, NEW ids \in SUBSET Nat, Comparable(world, ids),
         NEW clusters, Partition(clusters, ids),
         NEW main \in SUBSET ids, IsFiniteSet(main), main # {}, NEW rep \in ids
  PROVE  Nearest(g, world, clusters, main, rep) \in main
<1> DEFINE Close(m) == Alike(world, clusters, rep, m)
           Above(m, n) == \/ Close(m) > Close(n)
                          \/ /\ Close(m) = Close(n)
                             /\ Vector(clusters, m) <= Vector(clusters, n)
           R == {p \in main \X main : Above(p[1], p[2])}
<1>1. \A m \in main : Close(m) \in Nat /\ Vector(clusters, m) \in Nat
  <2> TAKE m \in main
  <2>1. Vector(clusters, m) \in ids /\ Vector(clusters, rep) \in ids
    BY VectorOfMember
  <2> QED
    BY <2>1 DEF Alike, Comparable
<1> HIDE DEF Close
<1>2. \A a, b \in main : Above(a, b) \/ Above(b, a)
  BY <1>1
<1>3. \A a, b, c \in main : Above(a, b) /\ Above(b, c) => Above(a, c)
  BY <1>1
<1>4. \A a, b \in main : <<a, b>> \in R <=> Above(a, b)
  OBVIOUS
<1> HIDE DEF R, Above
<1>5. Orders(main, R)
  BY <1>2, <1>3, <1>4 DEF Orders
<1>6. PICK m \in main : \A n \in main : <<m, n>> \in R
  BY <1>5, TopOf
<1>7. \A n \in main : Above(m, n)
  BY <1>4, <1>6
<1> QED
  BY <1>7 DEF Nearest, BridgeEnds, Above, Close

\* _add_knn_bridges: what ties a part to the main one begins in it and ends in the main one.
IsBridge(b, part, main) ==
    /\ b = [source |-> b.source, target |-> b.target, type |-> Bridge, label |-> Bridge, span |-> 0, rationale |-> 0]
    /\ b.source \in part /\ b.target \in main

LEMMA BridgeOfPart ==
  ASSUME NEW g, NEW world, NEW clusters, NEW ids \in SUBSET Nat, Comparable(world, ids),
         Partition(clusters, ids), NEW W, g.edges \in Seq(W),
         NEW main \in SUBSET ids, IsFiniteSet(main), main # {},
         NEW part \in SUBSET ids, IsFiniteSet(part), part # {}
  PROVE  LET b == BridgeFrom(g, world, clusters, main, part)
         IN b = <<>> \/ (b = <<b[1]>> /\ IsBridge(b[1], part, main))
<1> DEFINE rep == Representative(g, part)
           to == Nearest(g, world, clusters, main, rep)
           bridge == [source |-> rep, target |-> to, type |-> Bridge, label |-> Bridge, span |-> 0, rationale |-> 0]
<1>1. rep \in part
  BY RepresentativeOfPart
<1>2. rep \in ids
  BY <1>1
<1>3. to \in main
  <2> HIDE DEF rep
  <2> QED
    BY <1>2, NearestOfMain
<1>4. BridgeFrom(g, world, clusters, main, part) = <<>> \/ BridgeFrom(g, world, clusters, main, part) = <<bridge>>
  BY DEF BridgeFrom
<1> HIDE DEF rep, to
<1>5. IsBridge(bridge, part, main)
  BY <1>1, <1>3 DEF IsBridge
<1> HIDE DEF bridge
<1> QED
  BY <1>4, <1>5

\* The edges with the bridges: those that were there and one of each part at the most.
LEMMA BridgesAdded ==
  ASSUME NEW g, NEW world, NEW clusters, NEW main, NEW W, g.edges \in Seq(W), IsFiniteSet(PartsOf(g)),
         \A p \in PartsOf(g) \ {main} : BridgeFrom(g, world, clusters, main, p) \in Seq(W)
  PROVE  LET edges == AddBridges(g, world, clusters, main)
         IN /\ edges \in Seq(W)
            /\ Range(edges) = Range(g.edges) \cup
                   UNION {Range(BridgeFrom(g, world, clusters, main, p)) : p \in PartsOf(g) \ {main}}
<1> DEFINE others == PartsOf(g) \ {main}
           From == [p \in PartsOf(g) |-> BridgeFrom(g, world, clusters, main, p)]
           c == [s \in SUBSET others |-> CHOOSE x \in s : TRUE]
           h == [p \in others \X Seq(W) |-> p[2] \o From[p[1]]]
           Is(f) == f = [s \in SUBSET others |-> IF s = {} THEN g.edges
                            ELSE f[s \ {CHOOSE x \in s : TRUE}] \o From[CHOOSE x \in s : TRUE]]
           iter == CHOOSE f : Is(f)
<1>0. IsFiniteSet(others) /\ \A p \in others : From[p] \in Seq(W) /\ From[p] = BridgeFrom(g, world, clusters, main, p)
  BY FS_Subset
<1> HIDE DEF From
<1>1. h \in [others \X Seq(W) -> Seq(W)]
  BY <1>0
<1>2. \A s \in SUBSET others : s # {} => c[s] \in s /\ c[s] = CHOOSE x \in s : TRUE
  OBVIOUS
<1>3. \A p \in others : \A list \in Seq(W) : h[<<p, list>>] = list \o From[p]
  OBVIOUS
<1> HIDE DEF h, c, others
<1>4. PICK f \in [SUBSET others -> Seq(W)] : FoldsTo(f, SUBSET others, g.edges, c, h)
  BY <1>0, <1>1, <1>2, FoldExists
<1>5. Is(f)
  <2>1. f = [s \in SUBSET others |-> f[s]]
    OBVIOUS
  <2>2. \A s \in SUBSET others : f[s] = IF s = {} THEN g.edges
                            ELSE f[s \ {CHOOSE x \in s : TRUE}] \o From[CHOOSE x \in s : TRUE]
    <3> TAKE s \in SUBSET others
    <3>1. CASE s = {}
      BY <1>4, <3>1 DEF FoldsTo
    <3>2. CASE s # {}
      <4>1. f[s] = h[<<c[s], f[s \ {c[s]}]>>]
        BY <1>4, <3>2 DEF FoldsTo
      <4>2. c[s] \in others /\ f[s \ {c[s]}] \in Seq(W)
        BY <1>2, <3>2
      <4> QED
        BY <1>2, <1>3, <3>2, <4>1, <4>2
    <3> QED
      BY <3>1, <3>2
  <2> QED
    BY <2>1, <2>2
<1> HIDE DEF Is
<1>6. Is(iter)
  BY <1>5
<1>7. AddBridges(g, world, clusters, main) = iter[others]
  BY DEF AddBridges, FoldFunctionOnSet, MapThenFoldSet, Is, From, others
<1> HIDE DEF iter
<1>8. iter[{}] = g.edges
  BY <1>6 DEF Is
<1>9. ASSUME NEW s \in SUBSET others, s # {}
      PROVE  c[s] \in s /\ iter[s] = iter[s \ {c[s]}] \o From[c[s]]
  BY <1>2, <1>6, <1>9 DEF Is
<1> DEFINE Has(s) == iter[s] \in Seq(W) /\ Range(iter[s]) = Range(g.edges) \cup UNION {Range(From[p]) : p \in s}
           P == {s \in SUBSET others : Has(s)}
<1>10. {} \in P
  BY <1>8
<1>11. ASSUME NEW s \in SUBSET others, s # {}
       PROVE  \E x \in s : s \ {x} \in P => s \in P
  <2> DEFINE x == c[s]
             before == iter[s \ {x}]
  <2>1. x \in s /\ iter[s] = before \o From[x]
    BY <1>9, <1>11
  <2>2. ASSUME s \ {x} \in P
        PROVE  s \in P
    <3>1. before \in Seq(W) /\ Range(before) = Range(g.edges) \cup UNION {Range(From[p]) : p \in s \ {x}}
      BY <2>2
    <3>2. From[x] \in Seq(W)
      BY <1>0, <2>1
    <3> HIDE DEF before, x
    <3>3. before \o From[x] \in Seq(W) /\ Range(before \o From[x]) = Range(before) \cup Range(From[x])
      BY <3>1, <3>2, ConcatenatedElements
    <3>4. Has(s)
      BY <2>1, <3>1, <3>3
    <3> QED
      BY <3>4
  <2> HIDE DEF P
  <2> QED
    BY <2>1, <2>2
<1> HIDE DEF P
<1>12. \A s \in SUBSET others : s \in P
  BY <1>0, <1>10, <1>11, SetBySet
<1>13. others \in P
  BY <1>12
<1>14. UNION {Range(From[p]) : p \in others}
         = UNION {Range(BridgeFrom(g, world, clusters, main, p)) : p \in others}
  BY <1>0
<1> QED
  BY <1>7, <1>13, <1>14 DEF P, others

\* Edges of a list are of the kind it is a list of, and its nodes those of the edges.
LEMMA ListedEdges ==
  ASSUME NEW ids, NEW types, NEW labels, NEW edges \in Seq(ClaimEdges(ids, types, labels))
  PROVE  /\ \A e \in Range(edges) : e.type \in types /\ e.source \in ids /\ e.target \in ids
         /\ \A e \in Range(edges) : {e.source, e.target} \subseteq ids
<1>1. \A e \in Range(edges) : e \in ClaimEdges(ids, types, labels)
  BY DEF Range
<1>2. \A e \in ClaimEdges(ids, types, labels) : e.type \in types /\ e.source \in ids /\ e.target \in ids
  BY DEF ClaimEdges
<1> QED
  BY <1>1, <1>2

\* ---- What stays tied ----------------------------------------------------
\* Edges join the nodes of the graph, finitely many.
Ended(g) == IsFiniteSet(Ids(g.nodes)) /\ \A e \in Range(g.edges) : {e.source, e.target} \subseteq Ids(g.nodes)

\* Under home no edge breaks.
Unbroken(g, out, home) ==
    \A e \in Range(g.edges) : \/ home[e.source] = home[e.target]
                              \/ \E k \in Range(out.edges) : k.source = home[e.source] /\ k.target = home[e.target]

\* The homes of a part's nodes are in one part.
HomesTogether(g, out, home) ==
    \A part \in PartsOf(g) : \E whole \in PartsOf(out) : {home[id] : id \in part} \subseteq whole

\* A map of nodes under which no edge breaks keeps every part together.
LEMMA HomesKeepTies ==
  ASSUME NEW g, Ended(g), NEW out, Ended(out), NEW home \in [Ids(g.nodes) -> Ids(out.nodes)],
         Unbroken(g, out, home)
  PROVE  HomesTogether(g, out, home)
<1> SUFFICES ASSUME NEW part \in PartsOf(g)
             PROVE  \E whole \in PartsOf(out) : {home[id] : id \in part} \subseteq whole
  BY DEF HomesTogether
<1>0. /\ IsFiniteSet(Ids(g.nodes)) /\ \A e \in Range(g.edges) : {e.source, e.target} \subseteq Ids(g.nodes)
      /\ IsFiniteSet(Ids(out.nodes)) /\ \A e \in Range(out.edges) : {e.source, e.target} \subseteq Ids(out.nodes)
      /\ \A e \in Range(g.edges) : \/ home[e.source] = home[e.target]
                                    \/ \E k \in Range(out.edges) : k.source = home[e.source] /\ k.target = home[e.target]
  BY DEF Ended, Unbroken
<1>1. /\ Partition(PartsOf(g), Ids(g.nodes))
      /\ \A set : NoneCrosses(LinksOf(g.edges), set) => NoneCrosses(PartsOf(g), set)
  BY <1>0, PartsAre
<1>2. Partition(PartsOf(out), Ids(out.nodes)) /\ TiedBy(PartsOf(out), LinksOf(out.edges))
  BY <1>0, PartsAre
<1>3. PICK a \in Ids(g.nodes) : a \in part
  BY <1>1 DEF Partition
<1>4. PICK whole \in PartsOf(out) : home[a] \in whole
  BY <1>2 DEF Partition
<1> DEFINE C == {id \in Ids(g.nodes) : home[id] \in whole}
<1>5. NoneCrosses(LinksOf(g.edges), C)
  <2>1. ASSUME NEW e \in Range(g.edges)
        PROVE  e.source \in Ids(g.nodes) /\ e.target \in Ids(g.nodes) /\ (e.source \in C <=> e.target \in C)
    <3>1. e.source \in Ids(g.nodes) /\ e.target \in Ids(g.nodes)
      BY <1>0
    <3>2. ASSUME NEW k \in Range(out.edges), k.source = home[e.source], k.target = home[e.target]
          PROVE  home[e.source] \in whole <=> home[e.target] \in whole
      <4>1. {home[e.source], home[e.target]} \in LinksOf(out.edges)
        BY <3>2 DEF LinksOf
      <4>2. PICK q \in PartsOf(out) : {home[e.source], home[e.target]} \subseteq q
        BY <1>2, <4>1 DEF TiedBy
      <4> QED
        BY <1>2, <4>2 DEF Partition
    <3> QED
      BY <1>0, <3>1, <3>2
  <2> HIDE DEF C
  <2> QED
    BY <2>1 DEF NoneCrosses, LinksOf
<1>6. NoneCrosses(PartsOf(g), C)
  BY <1>1, <1>5
<1>7. part \subseteq C
  BY <1>3, <1>4, <1>6 DEF NoneCrosses
<1> QED
  BY <1>4, <1>7

\* What is left of a list without its i-th element.
LEMMA RemovedElements ==
  ASSUME NEW W, NEW s \in Seq(W), NEW i \in DOMAIN s
  PROVE  Range(RemoveAt(s, i)) \subseteq {s[k] : k \in DOMAIN s \ {i}}
<1> DEFINE n == Len(s)
           a == SubSeq(s, 1, i - 1)
           b == SubSeq(s, i + 1, n)
<1>1. n \in Nat /\ DOMAIN s = 1..n /\ i \in 1..n /\ \A k \in 1..n : s[k] \in W
  OBVIOUS
<1>2. /\ a \in Seq(W) /\ Range(a) \subseteq {s[k] : k \in DOMAIN s \ {i}}
  <2>1. Len(a) = i - 1 /\ a = [k \in 1..(i - 1) |-> s[k]]
    BY <1>1
  <2>2. \A k \in 1..(i - 1) : k \in 1..n /\ k # i
    BY <1>1
  <2>3. a \in Seq(W)
    BY <1>1, <2>1, <2>2
  <2> HIDE DEF a
  <2> QED
    BY <1>1, <2>1, <2>2, <2>3 DEF Range
<1>3. /\ b \in Seq(W) /\ Range(b) \subseteq {s[k] : k \in DOMAIN s \ {i}}
  <2>1. b = [k \in 1..(n - i) |-> s[k + i]]
    BY <1>1
  <2>2. \A k \in 1..(n - i) : k + i \in 1..n /\ k + i # i
    BY <1>1
  <2>3. b \in Seq(W)
    BY <1>1, <2>1, <2>2
  <2> HIDE DEF b
  <2> QED
    BY <1>1, <2>1, <2>2, <2>3 DEF Range
<1>4. RemoveAt(s, i) = a \o b
  BY DEF RemoveAt
<1> HIDE DEF a, b
<1> QED
  BY <1>2, <1>3, <1>4, ConcatenatedElements

\* The edges of the tied graph: those of the merged one and bridges, no relation twice.
BridgedBy(m, world, clusters, main, edges) ==
    /\ TriplesApart(edges)
    /\ \A e \in Range(m.edges) : \E k \in Range(edges) : Triple(k) = Triple(e)
    /\ \A e \in Range(edges) :
          \/ e \in Range(m.edges)
          \/ \E part \in PartsOf(m) \ {main} :
                BridgeFrom(m, world, clusters, main, part) = <<e>> /\ IsBridge(e, part, main)

LEMMA BridgedGraph ==
  ASSUME NEW m, NEW types, NEW labels, Bridgeable(m, types, labels),
         NEW world, NEW clusters, NEW ids \in SUBSET Nat, Comparable(world, ids), Partition(clusters, ids),
         Ids(m.nodes) \subseteq ids, NEW main \in MainParts(m)
  PROVE  LET edges == OnePerType(AddBridges(m, world, clusters, main))
         IN /\ edges \in Seq(ClaimEdges(Ids(m.nodes), types \cup {Bridge}, labels \cup {Bridge}))
            /\ BridgedBy(m, world, clusters, main, edges)
<1> DEFINE W == ClaimEdges(Ids(m.nodes), types \cup {Bridge}, labels \cup {Bridge})
           From(p) == BridgeFrom(m, world, clusters, main, p)
           added == AddBridges(m, world, clusters, main)
<1>1. m.edges \in Seq(W)
  <2>1. m.edges \in Seq(ClaimEdges(Ids(m.nodes), types, labels))
    BY DEF Bridgeable
  <2>2. ClaimEdges(Ids(m.nodes), types, labels) \subseteq W
    BY DEF ClaimEdges
  <2> HIDE DEF W
  <2> QED
    BY <2>1, <2>2
<1>2. Partition(PartsOf(m), Ids(m.nodes)) /\ IsFiniteSet(PartsOf(m))
  <2>1. \A e \in Range(m.edges) : {e.source, e.target} \subseteq Ids(m.nodes)
    BY <1>1, ListedEdges DEF W
  <2> QED
    BY <2>1, PartsAre DEF Bridgeable
<1>3. \A p \in PartsOf(m) : p \in SUBSET Ids(m.nodes) /\ p \in SUBSET ids /\ p # {} /\ IsFiniteSet(p)
  <2> TAKE p \in PartsOf(m)
  <2>1. p \in SUBSET Ids(m.nodes) /\ p # {}
    BY <1>2 DEF Partition
  <2> QED
    BY <2>1, FS_Subset DEF Bridgeable
<1>4. main \in PartsOf(m)
  BY DEF MainParts
<1> HIDE DEF W
<1>5. ASSUME NEW p \in PartsOf(m) \ {main}
      PROVE  From(p) = <<>> \/ (From(p) = <<From(p)[1]>> /\ IsBridge(From(p)[1], p, main) /\ From(p)[1] \in W)
  <2>1. From(p) = <<>> \/ (From(p) = <<From(p)[1]>> /\ IsBridge(From(p)[1], p, main))
    BY <1>1, <1>3, <1>4, BridgeOfPart
  <2> DEFINE b == From(p)[1]
  <2>2. ASSUME IsBridge(b, p, main)
        PROVE  b \in W
    <3>1. b = [source |-> b.source, target |-> b.target, type |-> Bridge, label |-> Bridge, span |-> 0, rationale |-> 0]
          /\ b.source \in Ids(m.nodes) /\ b.target \in Ids(m.nodes)
      BY <1>3, <1>4, <2>2 DEF IsBridge
    <3> HIDE DEF b
    <3>2. [source |-> b.source, target |-> b.target, type |-> Bridge, label |-> Bridge, span |-> 0, rationale |-> 0] \in W
      BY <3>1 DEF W, ClaimEdges
    <3> QED
      BY <3>1, <3>2
  <2> QED
    BY <2>1, <2>2
<1> HIDE DEF From
<1>6. \A p \in PartsOf(m) \ {main} : From(p) \in Seq(W)
  <2> TAKE p \in PartsOf(m) \ {main}
  <2>1. <<>> \in Seq(W) /\ \A x \in W : <<x>> \in Seq(W)
    OBVIOUS
  <2> QED
    BY <1>5, <2>1
<1>7. added \in Seq(W) /\ Range(added) = Range(m.edges) \cup UNION {Range(From(p)) : p \in PartsOf(m) \ {main}}
  BY <1>1, <1>2, <1>6, BridgesAdded DEF From
<1> HIDE DEF added
<1>8. OnePerType(added) \in Seq(W) /\ SlimOf(OnePerType(added), added)
  BY <1>7, OnePerTypeKeeps
<1> DEFINE edges == OnePerType(added)
<1> HIDE DEF edges
<1>9. TriplesApart(edges) /\ Range(edges) \subseteq Range(added)
      /\ \A e \in Range(added) : \E k \in Range(edges) : Triple(k) = Triple(e)
  BY <1>8 DEF SlimOf, edges
<1>10. \A e \in Range(m.edges) : \E k \in Range(edges) : Triple(k) = Triple(e)
  BY <1>7, <1>9
<1>11. ASSUME NEW e \in Range(edges), e \notin Range(m.edges)
       PROVE  \E p \in PartsOf(m) \ {main} : From(p) = <<e>> /\ IsBridge(e, p, main)
  <2>1. PICK p \in PartsOf(m) \ {main} : e \in Range(From(p))
    BY <1>7, <1>9, <1>11
  <2>2. Range(<<>>) = {} /\ \A x : Range(<<x>>) = {x}
    BY DEF Range
  <2>3. From(p) = <<e>> /\ IsBridge(e, p, main)
    BY <1>5, <2>1, <2>2
  <2> QED
    BY <2>3
<1>12. BridgedBy(m, world, clusters, main, edges)
  BY <1>9, <1>10, <1>11 DEF BridgedBy, From
<1> QED
  BY <1>8, <1>12 DEF edges, added, W

EndsWithin(edges, ids) == \A e \in Range(edges) : {e.source, e.target} \subseteq ids

\* Without the i-th edge its ends are in different parts.
OnlyTie(ids, edges, i) ==
    \A part \in Components(ids, LinksOf(RemoveAt(edges, i))) : ~{edges[i].source, edges[i].target} \subseteq part

\* A bridge is the only tie between the two parts that it joins: without it nothing leads
\* out of the part it begins in.
LEMMA BridgeIsOnlyTie ==
  ASSUME NEW m, NEW types, NEW labels, Bridgeable(m, types, labels),
         NEW world, NEW clusters, NEW main \in MainParts(m),
         NEW W, NEW edges \in Seq(W), EndsWithin(edges, Ids(m.nodes)),
         BridgedBy(m, world, clusters, main, edges),
         NEW i \in DOMAIN edges, edges[i].type = Bridge
  PROVE  OnlyTie(Ids(m.nodes), edges, i)
<1> DEFINE e == edges[i]
           rest == RemoveAt(edges, i)
           ids == Ids(m.nodes)
<1>1. e \in Range(edges) /\ DOMAIN edges = 1..Len(edges)
  BY DEF Range
<1>2. e \notin Range(m.edges)
  BY ListedEdges DEF Bridgeable
<1>3. PICK p \in PartsOf(m) \ {main} : BridgeFrom(m, world, clusters, main, p) = <<e>> /\ IsBridge(e, p, main)
  BY <1>1, <1>2 DEF BridgedBy
<1>4. /\ Partition(PartsOf(m), ids) /\ TiedBy(PartsOf(m), LinksOf(m.edges)) /\ main \in PartsOf(m)
  <2>1. \A x \in Range(m.edges) : {x.source, x.target} \subseteq Ids(m.nodes)
    BY ListedEdges DEF Bridgeable
  <2> QED
    BY <2>1, PartsAre DEF Bridgeable, MainParts
<1>5. ASSUME NEW k \in DOMAIN edges \ {i}
      PROVE  edges[k].source \in p <=> edges[k].target \in p
  <2> DEFINE x == edges[k]
  <2>0. x \in Range(edges)
    BY DEF Range
  <2>1. CASE x \in Range(m.edges)
    <3>1. {x.source, x.target} \in LinksOf(m.edges)
      BY <2>1 DEF LinksOf
    <3>2. PICK q \in PartsOf(m) : {x.source, x.target} \subseteq q
      BY <1>4, <3>1 DEF TiedBy
    <3> QED
      BY <1>4, <3>2 DEF Partition
  <2>2. CASE x \notin Range(m.edges)
    <3>1. PICK q \in PartsOf(m) \ {main} : BridgeFrom(m, world, clusters, main, q) = <<x>> /\ IsBridge(x, q, main)
      BY <2>0, <2>2 DEF BridgedBy
    <3>2. q # p
      <4>1. ASSUME q = p
            PROVE  x = e
        BY <1>3, <3>1, <4>1
      <4>2. x # e
        BY <1>1 DEF BridgedBy, TriplesApart
      <4> QED
        BY <4>1, <4>2
    <3> QED
      BY <1>3, <1>4, <3>1, <3>2 DEF Partition, IsBridge
  <2> QED
    BY <2>1, <2>2
<1>6. \A x \in Range(rest) : {x.source, x.target} \subseteq ids /\ (x.source \in p <=> x.target \in p)
  <2>1. Range(rest) \subseteq {edges[k] : k \in DOMAIN edges \ {i}}
    BY RemovedElements
  <2>2. \A k \in DOMAIN edges : edges[k] \in Range(edges)
    BY DEF Range
  <2> HIDE DEF rest
  <2> QED
    BY <1>5, <2>1, <2>2 DEF EndsWithin
<1> DEFINE links == LinksOf(rest)
<1>7. links \in SUBSET SUBSET ids /\ (\A link \in links : link # {}) /\ NoneCrosses(links, p)
  <2> HIDE DEF rest
  <2>1. \A x \in Range(rest) : {x.source, x.target} \in SUBSET ids
           /\ ({x.source, x.target} \subseteq p \/ {x.source, x.target} \cap p = {})
    BY <1>6
  <2>2. links = {{x.source, x.target} : x \in Range(rest)}
    BY DEF LinksOf
  <2> HIDE DEF links
  <2>3. \A link \in links : link \in SUBSET ids /\ link # {} /\ (link \subseteq p \/ link \cap p = {})
    BY <2>1, <2>2
  <2> QED
    BY <2>3 DEF NoneCrosses
<1>8. IsFiniteSet(links)
  <2>1. IsFiniteSet(SUBSET ids)
    BY FS_SUBSET DEF Bridgeable
  <2> HIDE DEF links
  <2> QED
    BY <1>7, <2>1, FS_Subset
<1> HIDE DEF links
<1>9. NoneCrosses(Components(ids, links), p)
  BY <1>7, <1>8, ComponentsAre
<1>10. e.source \in p /\ e.target \notin p
  BY <1>3, <1>4 DEF IsBridge, Partition
<1> QED
  BY <1>9, <1>10 DEF NoneCrosses, links, OnlyTie

\* The graph of the clusters' nodes, before its parts are tied.
LEMMA MergedClusters ==
  ASSUME NEW g, Clusterable(g), NEW clusters, Clustering(g, clusters), NEW types, NEW labels, Bridge \notin types,
         g.edges \in Seq(ClaimEdges(Ids(g.nodes), types, labels))
  PROVE  LET m == MergeClusters(g, clusters)
         IN /\ Bridgeable(m, types, labels) /\ Ids(m.nodes) \subseteq Ids(g.nodes)
            /\ \A a, b \in m.nodes : a.id = b.id => a = b
            /\ \A e \in Range(g.edges) :
                  LET s == RootId(g, clusters, e.source)
                      t == RootId(g, clusters, e.target)
                  IN s # t => \E k \in Range(m.edges) : Triple(k) = <<s, t, e.type>>
<1> DEFINE m == MergeClusters(g, clusters)
           ids == Ids(m.nodes)
           W == ClaimEdges(ids, types, labels)
           To(id) == RootId(g, clusters, id)
<1>0. m.nodes = {ClusterNode(g, c) : c \in clusters}
  BY DEF MergeClusters
<1>1. \A c \in clusters : ClusterNode(g, c).id = Root(g, c).id /\ ClusterNode(g, c).id \in c
  BY ClusterNodeStands DEF StandsFor
<1>2. ids \subseteq Ids(g.nodes)
  BY <1>0, <1>1 DEF Ids, Clustering, Partition
<1>3. \A a, b \in m.nodes : a.id = b.id => a = b
  BY <1>0, <1>1 DEF Clustering, Partition
<1>4. ASSUME NEW id \in Ids(g.nodes)
      PROVE  To(id) \in ids
  <2>1. PICK c \in clusters : id \in c
    BY DEF Clustering, Partition
  <2>2. To(id) = Root(g, c).id
    BY <2>1, RootOfNode
  <2> QED
    BY <1>0, <1>1, <2>1, <2>2 DEF Ids
<1> HIDE DEF To, m, ids
<1>5. ASSUME NEW e \in ClaimEdges(Ids(g.nodes), types, labels)
      PROVE  /\ ToRoots(g, clusters, e) \in W
             /\ ToRoots(g, clusters, e).source = To(e.source) /\ ToRoots(g, clusters, e).target = To(e.target)
             /\ ToRoots(g, clusters, e).type = e.type
  <2>1. e.source \in Ids(g.nodes) /\ e.target \in Ids(g.nodes)
    BY DEF ClaimEdges
  <2>2. To(e.source) \in ids /\ To(e.target) \in ids
    BY <1>4, <2>1
  <2>3. ToRoots(g, clusters, e) = [e EXCEPT !.source = To(e.source), !.target = To(e.target)]
    BY DEF ToRoots, To
  <2> QED
    BY <2>2, <2>3 DEF ClaimEdges
<1>6. /\ DOMAIN g.edges = 1..Len(g.edges) /\ Len(g.edges) \in Nat
      /\ \A i \in DOMAIN g.edges : g.edges[i] \in ClaimEdges(Ids(g.nodes), types, labels)
  OBVIOUS
<1>7. \A i \in DOMAIN g.edges : ToRoots(g, clusters, g.edges[i]) \in W
  BY <1>5, <1>6
<1>8. /\ m.edges \in Seq(W)
      /\ \A i \in DOMAIN g.edges :
            ToRoots(g, clusters, g.edges[i]).source # ToRoots(g, clusters, g.edges[i]).target
              => Said(m.edges, ToRoots(g, clusters, g.edges[i]))
  <2> HIDE DEF W
  <2> QED
    BY <1>6, <1>7, MergedClustersSay DEF m
<1>9. Bridgeable(m, types, labels)
  <2>1. Ids(g.nodes) \subseteq Nat /\ IsFiniteSet(Ids(g.nodes))
    BY ClusterableNodes
  <2>2. IsFiniteSet(ids) /\ ids \subseteq Nat
    BY <1>2, <2>1, FS_Subset
  <2> QED
    BY <1>8, <2>2 DEF Bridgeable, ids
<1>10. ASSUME NEW e \in Range(g.edges), To(e.source) # To(e.target)
       PROVE  \E k \in Range(m.edges) : Triple(k) = <<To(e.source), To(e.target), e.type>>
  <2>1. PICK i \in DOMAIN g.edges : e = g.edges[i]
    BY DEF Range
  <2> DEFINE r == ToRoots(g, clusters, e)
  <2>2. r.source = To(e.source) /\ r.target = To(e.target) /\ r.type = e.type
    BY <1>5, <1>6, <2>1
  <2>3. Said(m.edges, r)
    BY <1>8, <1>10, <2>1, <2>2
  <2> HIDE DEF r
  <2>4. PICK k \in DOMAIN m.edges : EdgeKey(m.edges[k]) = EdgeKey(r)
    BY <2>3 DEF Said
  <2>5. Triple(m.edges[k]) = <<To(e.source), To(e.target), e.type>>
    BY <2>2, <2>4 DEF EdgeKey, Triple
  <2> QED
    BY <2>5 DEF Range
<1> QED
  BY <1>2, <1>3, <1>9, <1>10 DEF m, ids, To

\* A map of ids to the nodes of out under which nothing is lost and no edge breaks.
KeepsAll(g, out) ==
    /\ \A n \in g.nodes :
          LET home == HomeIn(out.nodes, n.id)
          IN /\ home \in out.nodes /\ (n.id = home.id \/ n.id \in home.aliases)
             /\ n.folded \subseteq home.folded /\ n.span <= home.span /\ n.type = home.type
    /\ \A e \in Range(g.edges) :
          LET s == HomeIn(out.nodes, e.source)
              t == HomeIn(out.nodes, e.target)
          IN s # t => \E k \in Range(out.edges) : Triple(k) = <<s.id, t.id, e.type>>

LEMMA NothingLost ==
  ASSUME NEW g, NEW out, KeepsAll(g, out), NEW world
  PROVE  ClusteringLosesNothing(g, world, out)
<1> DEFINE Home(id) == CHOOSE n \in out.nodes : id = n.id \/ id \in n.aliases
<1>1. \A id : HomeIn(out.nodes, id) = Home(id)
  BY DEF HomeIn
<1> HIDE DEF Home
<1>2. \A n \in g.nodes : /\ Home(n.id) \in out.nodes /\ (n.id = Home(n.id).id \/ n.id \in Home(n.id).aliases)
                         /\ n.folded \subseteq Home(n.id).folded
                         /\ n.span <= Home(n.id).span /\ n.type = Home(n.id).type
  BY <1>1 DEF KeepsAll
<1>3. \A e \in Range(g.edges) :
         Home(e.source) # Home(e.target) =>
            \E k \in Range(out.edges) :
               <<k.source, k.target, k.type>> = <<Home(e.source).id, Home(e.target).id, e.type>>
  BY <1>1 DEF KeepsAll, Triple
<1>4. \A n \in g.nodes : /\ \E m \in out.nodes : n.id = m.id \/ n.id \in m.aliases
                         /\ n.folded \subseteq Home(n.id).folded
                         /\ n.span <= Home(n.id).span /\ n.type = Home(n.id).type
  BY <1>2
<1> QED
  BY <1>3, <1>4, Zenon DEF ClusteringLosesNothing, Home

LEMMA TiesKept ==
  ASSUME NEW g, Clusterable(g), NEW out, KeepsAll(g, out), Ended(out),
         \A i \in DOMAIN out.edges : out.edges[i].type = Bridge => OnlyTie(Ids(out.nodes), out.edges, i)
  PROVE  TiesStay(g, out)
<1> DEFINE home == [id \in Ids(g.nodes) |-> HomeIn(out.nodes, id).id]
<1>1. IsFiniteSet(Ids(g.nodes)) /\ \A e \in Range(g.edges) : {e.source, e.target} \subseteq Ids(g.nodes)
  BY ClusterableNodes DEF Clusterable, Consistent
<1>2. home \in [Ids(g.nodes) -> Ids(out.nodes)]
  BY DEF KeepsAll, Ids
<1>3. ASSUME NEW e \in Range(g.edges)
      PROVE  \/ home[e.source] = home[e.target]
             \/ \E k \in Range(out.edges) : k.source = home[e.source] /\ k.target = home[e.target]
  <2>1. e.source \in Ids(g.nodes) /\ e.target \in Ids(g.nodes)
    BY <1>1
  <2>2. home[e.source] = HomeIn(out.nodes, e.source).id /\ home[e.target] = HomeIn(out.nodes, e.target).id
    BY <2>1
  <2> HIDE DEF home
  <2>3. CASE HomeIn(out.nodes, e.source) = HomeIn(out.nodes, e.target)
    BY <2>2, <2>3
  <2>4. CASE HomeIn(out.nodes, e.source) # HomeIn(out.nodes, e.target)
    <3>1. PICK k \in Range(out.edges) :
             Triple(k) = <<HomeIn(out.nodes, e.source).id, HomeIn(out.nodes, e.target).id, e.type>>
      BY <2>4 DEF KeepsAll
    <3> QED
      BY <2>2, <3>1 DEF Triple
  <2> QED
    BY <2>3, <2>4
<1> HIDE DEF home
<1>4. HomesTogether(g, out, home)
  <2>1. Ended(g) /\ Unbroken(g, out, home)
    BY <1>1, <1>3 DEF Ended, Unbroken
  <2> QED
    BY <1>2, <2>1, HomesKeepTies
<1>5. home = [id \in Ids(g.nodes) |-> (CHOOSE n \in out.nodes : id = n.id \/ id \in n.aliases).id]
  BY DEF home, HomeIn
<1> QED
  <2>1. \A part \in PartsOf(g) : \E whole \in PartsOf(out) : {home[id] : id \in part} \subseteq whole
    BY <1>4 DEF HomesTogether
  <2>2. \A i \in DOMAIN out.edges :
           out.edges[i].type = Bridge =>
               \A part \in Components(Ids(out.nodes), LinksOf(RemoveAt(out.edges, i))) :
                   ~{out.edges[i].source, out.edges[i].target} \subseteq part
    BY DEF OnlyTie
  <2> QED
    BY <1>5, <2>1, <2>2 DEF TiesStay

\* What the second pass promises of a graph it returns.
SoundAfter(g, world, out) ==
    /\ Consistent(out) /\ KeysDistinct(out.edges)
    /\ ClusteringLosesNothing(g, world, out) /\ TiesStay(g, out)

\* A graph that is returned as it came.
LEMMA UntouchedIsSound ==
  ASSUME NEW g, Clusterable(g), NEW world
  PROVE  SoundAfter(g, world, g)
<1>1. ASSUME NEW n \in g.nodes
      PROVE  HomeIn(g.nodes, n.id) = n
  <2>1. \A m \in g.nodes : n.id = m.id \/ n.id \in m.aliases => m = n
    BY DEF Clusterable, Consistent
  <2> QED
    BY <2>1 DEF HomeIn
<1>2. KeepsAll(g, g)
  <2>1. ASSUME NEW n \in g.nodes
        PROVE  n.span <= n.span
    BY ClusterableNodes
  <2>2. ASSUME NEW e \in Range(g.edges)
        PROVE  Triple(e) = <<HomeIn(g.nodes, e.source).id, HomeIn(g.nodes, e.target).id, e.type>>
    <3>1. PICK s \in g.nodes, t \in g.nodes : s.id = e.source /\ t.id = e.target
      BY DEF Clusterable, Consistent, Ids
    <3>2. HomeIn(g.nodes, e.source) = s /\ HomeIn(g.nodes, e.target) = t
      BY <1>1, <3>1
    <3> QED
      BY <3>1, <3>2 DEF Triple
  <2> QED
    BY <1>1, <2>1, <2>2 DEF KeepsAll
<1>3. \A e \in Range(g.edges) : {e.source, e.target} \subseteq Ids(g.nodes)
  BY DEF Clusterable, Consistent
<1>4. \A i \in DOMAIN g.edges : g.edges[i].type # Bridge
  <2>1. PICK types, labels : Bridge \notin types /\ g.edges \in Seq(ClaimEdges(Ids(g.nodes), types, labels))
    BY DEF Clusterable
  <2>2. \A i \in DOMAIN g.edges : g.edges[i] \in Range(g.edges)
    BY DEF Range
  <2> QED
    BY <2>1, <2>2, ListedEdges
<1>5. TiesStay(g, g)
  <2>1. Ended(g)
    BY <1>3, ClusterableNodes DEF Ended
  <2> QED
    BY <1>2, <1>4, <2>1, TiesKept
<1> QED
  BY <1>2, <1>5, NothingLost DEF SoundAfter, Clusterable

\* semantic_cluster_and_merge, for all graphs of the merge and whatever the models say: the
\* graph is valid, no node, evidence or relation is lost, and bridges only join.
THEOREM ClusteringKeepsGraphSound ==
  ASSUME NEW g, Clusterable(g), NEW world, Comparable(world, Ids(g.nodes)), NEW out \in Clustered(g, world)
  PROVE  SoundAfter(g, world, out)
<1> DEFINE clusters == ClustersOf(g, world)
           m == MergeClusters(g, clusters)
           Tied(main) == OnePerType(AddBridges(m, world, clusters, main))
<1>1. \/ out = g
      \/ \E main \in MainParts(m) : out = [nodes |-> m.nodes, edges |-> Tied(main)]
  BY DEF Clustered
<1>2. CASE out = g
  BY <1>2, UntouchedIsSound
<1>3. ASSUME NEW main \in MainParts(m), out = [nodes |-> m.nodes, edges |-> Tied(main)]
      PROVE  SoundAfter(g, world, out)
  <2>0. Clustering(g, clusters) /\ Partition(clusters, Ids(g.nodes))
    BY ClustersAre DEF Clustering
  <2>1. PICK types, labels : Bridge \notin types /\ g.edges \in Seq(ClaimEdges(Ids(g.nodes), types, labels))
    BY DEF Clusterable
  <2>2. m.nodes = {ClusterNode(g, c) : c \in clusters}
    BY DEF MergeClusters
  <2> HIDE DEF clusters
  <2>3. /\ Bridgeable(m, types, labels) /\ Ids(m.nodes) \subseteq Ids(g.nodes)
        /\ \A a, b \in m.nodes : a.id = b.id => a = b
        /\ \A e \in Range(g.edges) :
              RootId(g, clusters, e.source) # RootId(g, clusters, e.target) =>
                 \E k \in Range(m.edges) :
                    Triple(k) = <<RootId(g, clusters, e.source), RootId(g, clusters, e.target), e.type>>
    BY <2>0, <2>1, MergedClusters
  <2> HIDE DEF m
  <2> DEFINE W == ClaimEdges(Ids(m.nodes), types \cup {Bridge}, labels \cup {Bridge})
  <2>4. /\ Tied(main) \in Seq(W) /\ BridgedBy(m, world, clusters, main, Tied(main))
    <3>1. Ids(g.nodes) \in SUBSET Nat
      BY ClusterableNodes
    <3> QED
      BY <2>0, <2>3, <3>1, BridgedGraph
  <2>5. out.nodes = m.nodes /\ out.edges = Tied(main)
    BY <1>3
  <2> HIDE DEF Tied
  <2>6. \A e \in Range(out.edges) : {e.source, e.target} \subseteq Ids(out.nodes)
    BY <2>4, <2>5, ListedEdges
  <2>7. Consistent(out)
    BY <2>3, <2>5, <2>6 DEF Consistent
  <2>8. KeysDistinct(out.edges)
    BY <2>4, <2>5 DEF BridgedBy, TriplesApart, KeysDistinct, EdgeKey, Triple
  <2>9. ASSUME NEW id \in Ids(g.nodes)
        PROVE  \E c \in clusters : id \in c /\ HomeIn(out.nodes, id) = ClusterNode(g, c)
                                   /\ RootId(g, clusters, id) = ClusterNode(g, c).id
    <3>1. PICK c \in clusters : id \in c
      BY <2>0 DEF Partition
    <3>2. HomeIn(out.nodes, id) = ClusterNode(g, c)
      BY <2>0, <2>2, <2>5, <3>1, HomeOfNode
    <3>3. RootId(g, clusters, id) = ClusterNode(g, c).id
      BY <2>0, <3>1, RootOfNode, ClusterNodeStands DEF StandsFor
    <3> QED
      BY <3>1, <3>2, <3>3
  <2>10. KeepsAll(g, out)
    <3>1. ASSUME NEW n \in g.nodes
          PROVE  LET home == HomeIn(out.nodes, n.id)
                 IN /\ home \in out.nodes /\ (n.id = home.id \/ n.id \in home.aliases)
                    /\ n.folded \subseteq home.folded /\ n.span <= home.span /\ n.type = home.type
      <4>1. n.id \in Ids(g.nodes)
        BY DEF Ids
      <4>2. PICK c \in clusters : n.id \in c /\ HomeIn(out.nodes, n.id) = ClusterNode(g, c)
        BY <2>9, <4>1
      <4>3. StandsFor(g, clusters, c)
        BY <2>0, ClusterNodeStands
      <4>4. n \in Members(g, c)
        BY <4>2 DEF Members
      <4>5. ClusterNode(g, c) \in out.nodes
        BY <2>2, <2>5
      <4> QED
        BY <4>1, <4>2, <4>3, <4>4, <4>5 DEF StandsFor
    <3>2. ASSUME NEW e \in Range(g.edges), HomeIn(out.nodes, e.source) # HomeIn(out.nodes, e.target)
          PROVE  \E k \in Range(out.edges) :
                    Triple(k) = <<HomeIn(out.nodes, e.source).id, HomeIn(out.nodes, e.target).id, e.type>>
      <4>1. e.source \in Ids(g.nodes) /\ e.target \in Ids(g.nodes)
        BY <2>1, ListedEdges
      <4>2. /\ RootId(g, clusters, e.source) = HomeIn(out.nodes, e.source).id
            /\ RootId(g, clusters, e.target) = HomeIn(out.nodes, e.target).id
            /\ HomeIn(out.nodes, e.source) \in m.nodes /\ HomeIn(out.nodes, e.target) \in m.nodes
        BY <2>2, <2>9, <4>1
      <4>3. RootId(g, clusters, e.source) # RootId(g, clusters, e.target)
        BY <2>3, <3>2, <4>2
      <4>4. PICK k \in Range(m.edges) :
               Triple(k) = <<RootId(g, clusters, e.source), RootId(g, clusters, e.target), e.type>>
        BY <2>3, <4>3
      <4>5. PICK k2 \in Range(out.edges) : Triple(k2) = Triple(k)
        BY <2>4, <2>5, <4>4 DEF BridgedBy
      <4> QED
        BY <4>2, <4>4, <4>5
    <3> QED
      BY <3>1, <3>2 DEF KeepsAll
  <2>11. \A i \in DOMAIN out.edges : out.edges[i].type = Bridge => OnlyTie(Ids(out.nodes), out.edges, i)
    <3> DEFINE edges == out.edges
    <3>1. edges \in Seq(W) /\ BridgedBy(m, world, clusters, main, edges) /\ EndsWithin(edges, Ids(m.nodes))
      BY <2>4, <2>5, <2>6 DEF EndsWithin
    <3> HIDE DEF edges, W
    <3>2. \A i \in DOMAIN edges : edges[i].type = Bridge => OnlyTie(Ids(m.nodes), edges, i)
      BY <2>3, <3>1, BridgeIsOnlyTie
    <3> QED
      BY <2>5, <3>2 DEF edges
  <2>12. Ended(out)
    BY <2>3, <2>5, <2>6 DEF Bridgeable, Ended
  <2>13. TiesStay(g, out)
    BY <2>10, <2>11, <2>12, TiesKept
  <2> QED
    BY <2>7, <2>8, <2>10, <2>13, NothingLost DEF SoundAfter
<1> QED
  BY <1>1, <1>2, <1>3
=============================================================================
