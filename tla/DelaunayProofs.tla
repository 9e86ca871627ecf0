--------------------------- MODULE DelaunayProofs ---------------------------
(***************************************************************************)
(* What centroid_walk.py's triangulation may count on whatever its points  *)
(* are.  Up to the section on the super-triangle nothing is used of what   *)
(* the orientation and circle tests answer, but that a ring closes where   *)
(* a lemma assumes so.                                                     *)
(*                                                                         *)
(* While points are inserted: triangles have three vertices, all inserted  *)
(* before, the cavity is of live triangles, and a live triangle and its    *)
(* live neighbour agree on the edge between them.  A fan keeps that,       *)
(* because no two sides of the ring have one edge (RingLists), so the      *)
(* triangle outside a side finds the one new triangle there (RewiredIs),   *)
(* and two new triangles with an edge are each other's mates (MateIs).     *)
(*                                                                         *)
(* While edges are flipped: the incidence lists hold for each edge exactly *)
(* the triangles with it, and every edge that should be flipped is on the  *)
(* heap.  An exchange changes three lists in place (ExchangeLists) and no  *)
(* triangle of an edge that it does not put on the heap (SettledSame).     *)
(*                                                                         *)
(* That the mesh has no gap, no overlap and no stale link (MeshIsWhole)    *)
(* needs one fact of the plane, that the rim of a cavity turns one way     *)
(* around the point and passes no vertex twice (StarShaped), and follows   *)
(* from it alone.  The ring closes (StarCloses), because every triangle is *)
(* left at each vertex as often as it is come to, and inner sides cancel   *)
(* out.  So where a side of the ring ends just one starts (RingInOrder),   *)
(* each new triangle finds its two mates (MatesMeet), the old ones outside *)
(* the ring find theirs (AcrossTheRing, OnTheRing), and no edge is shared  *)
(* by three (FanFits).  And the fan has the area of the cavity             *)
(* (CavityArea), because a triangle is what its sides make with any point  *)
(* and again inner sides cancel out.                                       *)
(*                                                                         *)
(* The rest about coordinates is arithmetic: the super-triangle holds      *)
(* every point, triangles are counterclockwise, and every step of a run    *)
(* brings it nearer to its end.                                            *)
(***************************************************************************)
EXTENDS Delaunay, SequenceTheorems, FiniteSetTheorems, TLAPS

-----------------------------------------------------------------------------
\* Sets of numbers, and sets put in order.

\* A set of natural numbers has a least one.
LEMMA Least ==
    ASSUME NEW T \in SUBSET Nat, T # {}
    PROVE  \E x \in T : \A y \in T : x <= y
<1> DEFINE R == OpToRel(<, Nat)
<1>1. IsWellFoundedOn(R, Nat)
    BY ONLY NatLessThanWellFounded, Zenon
<1>2. \A p, q \in Nat : p < q => <<p, q>> \in R
    BY Z3 DEF OpToRel
<1>3. T \subseteq Nat /\ T # {}
    OBVIOUS
<1> HIDE DEF R
<1>4. PICK x \in T : \A y \in T : ~(<<y, x>> \in R)
    BY ONLY <1>1, <1>3, WFMin, Zenon
<1>5. ASSUME NEW y \in T PROVE x <= y
  <2>1. x \in Nat /\ y \in Nat
      BY <1>3
  <2>2. ~(y < x)
      BY ONLY <1>2, <1>4, <1>5, <2>1, Zenon
  <2> QED
      BY <2>1, <2>2
<1> QED
    BY <1>5

\* Min is it.
LEMMA MinIsLeast ==
    ASSUME NEW T \in SUBSET Nat, T # {}
    PROVE  Min(T) \in T /\ \A y \in T : Min(T) <= y
  BY Least DEF Min

\* before puts every two members of S in order.
TotalOrder(S, before) ==
    /\ \A x \in S : <<x, x>> \notin before
    /\ \A x, y \in S : x # y => <<x, y>> \in before \/ <<y, x>> \in before
    /\ \A x, y, z \in S : <<x, y>> \in before /\ <<y, z>> \in before => <<x, z>> \in before

\* The list is the set: every member of it stands at one place, in order.
LEMMA InOrderLists ==
    ASSUME NEW S, IsFiniteSet(S), NEW before, TotalOrder(S, before)
    PROVE  LET L == InOrder(S, before) IN
           /\ L \in Seq(S) /\ DOMAIN L = 1 .. Cardinality(S)
           /\ Len(L) = Cardinality(S) /\ Cardinality(S) \in Nat
           /\ Range(L) = S
           /\ \A k, l \in DOMAIN L : L[k] = L[l] => k = l
           /\ \A k, l \in DOMAIN L : k < l => <<L[k], L[l]>> \in before
<1> DEFINE prec(x) == {y \in S : <<y, x>> \in before}
<1> DEFINE rank == [x \in S |-> 1 + Cardinality(prec(x))]
<1> DEFINE n == Cardinality(S)
<1> DEFINE L == InOrder(S, before)
<1>1. n \in Nat
    BY FS_CardinalityType
<1>2. ASSUME NEW x \in S
      PROVE  IsFiniteSet(prec(x)) /\ Cardinality(prec(x)) \in Nat /\ rank[x] \in 1 .. n
  <2>1. prec(x) \subseteq S \ {x}
      BY DEF TotalOrder
  <2>2. IsFiniteSet(S \ {x}) /\ Cardinality(S \ {x}) = n - 1
      BY FS_RemoveElement
  <2> HIDE DEF prec
  <2>3. IsFiniteSet(prec(x)) /\ Cardinality(prec(x)) <= n - 1
      BY <2>1, <2>2, FS_Subset
  <2>4. Cardinality(prec(x)) \in Nat
      BY <2>3, FS_CardinalityType
  <2> QED
      BY <1>1, <2>3, <2>4
<1>3. ASSUME NEW x \in S, NEW y \in S, <<x, y>> \in before
      PROVE  rank[x] < rank[y]
  <2>1. prec(x) \cup {x} \subseteq prec(y) /\ x \notin prec(x)
      BY <1>3 DEF TotalOrder
  <2>2. IsFiniteSet(prec(x)) /\ Cardinality(prec(x)) \in Nat
        /\ IsFiniteSet(prec(y)) /\ Cardinality(prec(y)) \in Nat
      BY <1>2
  <2>3. rank[x] = 1 + Cardinality(prec(x)) /\ rank[y] = 1 + Cardinality(prec(y))
      OBVIOUS
  <2> HIDE DEF prec, rank
  <2>4. Cardinality(prec(x) \cup {x}) = Cardinality(prec(x)) + 1
      BY <2>1, <2>2, FS_AddElement
  <2>5. Cardinality(prec(x) \cup {x}) <= Cardinality(prec(y))
      BY <2>1, <2>2, FS_Subset
  <2> QED
      BY <2>2, <2>3, <2>4, <2>5
<1> HIDE DEF prec
<1>4. rank \in Injection(S, 1 .. n)
  <2>1. rank \in [S -> 1 .. n]
      BY <1>2
  <2>2. ASSUME NEW x \in S, NEW y \in S, rank[x] = rank[y] PROVE x = y
    <3>1. rank[x] \in Nat
        BY <2>1, <1>1
    <3> HIDE DEF rank
    <3>2. ~(rank[x] < rank[y]) /\ ~(rank[y] < rank[x])
        BY <2>2, <3>1
    <3> QED
        BY <1>3, <3>2 DEF TotalOrder
  <2> HIDE DEF rank
  <2> QED
      BY <2>1, <2>2 DEF Injection, IsInjective
<1>5. IsFiniteSet(1 .. n) /\ Cardinality(1 .. n) = n
    BY <1>1, FS_Interval
<1>6. rank \in Surjection(S, 1 .. n)
  <2> HIDE DEF rank
  <2> QED
      BY <1>4, <1>5, FS_Injection
<1>7. L = [k \in 1 .. n |-> CHOOSE x \in S : 1 + Cardinality({y \in S : <<y, x>> \in before}) = k]
    BY Zenon DEF InOrder
<1>0. \A x \in S : rank[x] = 1 + Cardinality({y \in S : <<y, x>> \in before})
    BY DEF prec
<1> HIDE DEF rank, L
<1>8. ASSUME NEW k \in 1 .. n PROVE L[k] \in S /\ rank[L[k]] = k
  <2>1. \E x \in S : rank[x] = k
      BY <1>6 DEF Surjection
  <2>2. \E x \in S : 1 + Cardinality({y \in S : <<y, x>> \in before}) = k
      BY <1>0, <2>1
  <2>3. L[k] = CHOOSE x \in S : 1 + Cardinality({y \in S : <<y, x>> \in before}) = k
      BY <1>7
  <2>4. L[k] \in S /\ 1 + Cardinality({y \in S : <<y, L[k]>> \in before}) = k
      BY <2>2, <2>3, Zenon
  <2> QED
      BY <1>0, <2>4
<1>9. DOMAIN L = 1 .. n /\ L \in [1 .. n -> S]
    BY <1>7, <1>8
<1>10. L \in Seq(S) /\ Len(L) = n
    BY <1>1, <1>9, IsASeq
<1>11. \A x \in S : rank[x] \in 1 .. n /\ L[rank[x]] = x
    BY <1>4, <1>8 DEF Injection, IsInjective
<1>12. Range(L) = S
    BY <1>8, <1>9, <1>11 DEF Range
<1>13. \A k, l \in DOMAIN L : L[k] = L[l] => k = l
    BY <1>8, <1>9
<1>14. ASSUME NEW k \in DOMAIN L, NEW l \in DOMAIN L, k < l
       PROVE  <<L[k], L[l]>> \in before
  <2>1. k \in Nat /\ l \in Nat /\ L[k] # L[l]
      BY <1>1, <1>9, <1>13, <1>14
  <2>2. ~(<<L[l], L[k]>> \in before)
      BY <1>3, <1>8, <1>9, <1>14, <2>1
  <2> QED
      BY <1>8, <1>9, <2>1, <2>2 DEF TotalOrder
<1> QED
    BY <1>1, <1>9, <1>10, <1>12, <1>13, <1>14 DEF L

-----------------------------------------------------------------------------
\* The types of the mesh.

\* The positions of a set of numbers, in ascending order.
LEMMA AscendingLists ==
    ASSUME NEW S \in SUBSET Int, IsFiniteSet(S)
    PROVE  LET L == Ascending(S) IN
           /\ L \in Seq(S) /\ DOMAIN L = 1 .. Len(L) /\ Len(L) \in Nat
           /\ Range(L) = S
           /\ \A k, l \in DOMAIN L : L[k] = L[l] => k = l
<1> DEFINE before == {p \in S \X S : p[1] < p[2]}
<1>1. TotalOrder(S, before)
    BY DEF TotalOrder
<1> HIDE DEF before
<1>2. LET L == InOrder(S, before) IN
      /\ L \in Seq(S) /\ DOMAIN L = 1 .. Len(L) /\ Len(L) \in Nat
      /\ Range(L) = S
      /\ \A k, l \in DOMAIN L : L[k] = L[l] => k = l
    BY <1>1, InOrderLists
<1> QED
    BY <1>2 DEF Ascending, before

\* A point list keeps its points, scaled.
LEMMA DedupKeeps ==
    ASSUME NEW s \in Seq(Int \X Int)
    PROVE  Dedup(s) \in Seq(Int \X Int) /\ Len(Dedup(s)) \in Nat
<1> DEFINE S == {k \in DOMAIN s : \A j \in 1 .. k - 1 : s[j] # s[k]}
<1> DEFINE L == Ascending(S)
<1>1. DOMAIN s = 1 .. Len(s) /\ Len(s) \in Nat /\ \A k \in 1 .. Len(s) : s[k] \in Int \X Int
    BY LenProperties, ElementOfSeq
<1>2. S \in SUBSET Int /\ IsFiniteSet(S) /\ S \subseteq 1 .. Len(s)
  <2>1. S \in SUBSET (1 .. Len(s)) /\ IsFiniteSet(1 .. Len(s))
      BY <1>1, FS_Interval
  <2>2. 1 .. Len(s) \subseteq Int
      BY <1>1
  <2> HIDE DEF S
  <2> QED
      BY <2>1, <2>2, FS_Subset
<1>3. Dedup(s) = [k \in DOMAIN L |-> <<10 * s[L[k]][1], 10 * s[L[k]][2]>>]
    BY Zenon DEF Dedup
<1> HIDE DEF S
<1>4. DOMAIN L = 1 .. Len(L) /\ Len(L) \in Nat /\ \A k \in 1 .. Len(L) : L[k] \in 1 .. Len(s)
    BY <1>2, AscendingLists, ElementOfSeq
<1> HIDE DEF L
<1>5. \A k \in 1 .. Len(L) : <<10 * s[L[k]][1], 10 * s[L[k]][2]>> \in Int \X Int
    BY <1>1, <1>4
<1> QED
    BY <1>3, <1>4, <1>5

\* Sides of a triangle.
LEMMA Sides ==
    ASSUME NEW tri
    PROVE  /\ Nxt(1) = 2 /\ Nxt(2) = 3 /\ Nxt(3) = 1
           /\ EdgeOf(tri, 1) = {tri[1], tri[2]}
           /\ EdgeOf(tri, 2) = {tri[2], tri[3]}
           /\ EdgeOf(tri, 3) = {tri[3], tri[1]}
           /\ EdgesOf(tri) = {{tri[1], tri[2]}, {tri[2], tri[3]}, {tri[3], tri[1]}}
<1>1. Nxt(1) = 2 /\ Nxt(2) = 3 /\ Nxt(3) = 1
    BY DEF Nxt
<1>2. 1 .. 3 = {1, 2, 3}
    OBVIOUS
<1> QED
    BY <1>1, <1>2 DEF EdgeOf, EdgesOf, Edge

\* A triangle has three vertices.
Proper(tri) == tri[1] # tri[2] /\ tri[2] # tri[3] /\ tri[3] # tri[1]

\* Of a triangle with three vertices no two sides have the same edge.
LEMMA SidesDiffer ==
    ASSUME NEW tri, Proper(tri), NEW k \in 1 .. 3, NEW l \in 1 .. 3,
           EdgeOf(tri, k) = EdgeOf(tri, l)
    PROVE  k = l
<1>1. k \in {1, 2, 3} /\ l \in {1, 2, 3}
    OBVIOUS
<1>2. /\ {tri[1], tri[2]} # {tri[2], tri[3]}
      /\ {tri[2], tri[3]} # {tri[3], tri[1]}
      /\ {tri[3], tri[1]} # {tri[1], tri[2]}
    BY DEF Proper
<1> QED
    BY <1>1, <1>2, Sides

\* The points and the super-triangle's vertices, and triangles of them.
Vertices == 1 .. Len(pts) + 3
Triple   == Vertices \X Vertices \X Vertices

Inserting == {"insert", "walk", "flood", "fan"}

\* The variables of the mesh keep their types; the walk, the flood and the fan
\* are for a point.
MeshTypes ==
    /\ phase \in Inserting \union {"flip", "done"}
    /\ pts \in Seq(Int \X Int)
    /\ i \in 0 .. Len(pts) /\ (phase \in {"walk", "flood", "fan"} => i # 0)
    /\ tris \in Seq(Triple)
    /\ DOMAIN nbrs = DOMAIN tris
    /\ \A t \in DOMAIN tris : nbrs[t] \in [1 .. 3 -> DOMAIN tris \union {0}]
    /\ at \in DOMAIN tris /\ walked \in Nat
    /\ stack \subseteq DOMAIN tris \union {0}
    /\ cavity \subseteq DOMAIN tris /\ dead \subseteq DOMAIN tris

\* The first mesh is the super-triangle.
LEMMA MeshInit == DInit => MeshTypes
<1> SUFFICES ASSUME DInit PROVE MeshTypes
    OBVIOUS
<1>1. pts \in Seq(Int \X Int) /\ Len(pts) \in Nat
    BY DedupKeeps, InputsAssumption DEF DInit
<1>2. /\ tris = <<<<Len(pts) + 1, Len(pts) + 2, Len(pts) + 3>>>>
      /\ nbrs = <<<<0, 0, 0>>>>
      /\ phase \in {"insert", "done"} /\ i = 0 /\ at = 1 /\ walked = 0
      /\ stack = {} /\ cavity = {} /\ dead = {}
    BY DEF DInit
<1>3. <<Len(pts) + 1, Len(pts) + 2, Len(pts) + 3>> \in Triple
    BY <1>1 DEF Triple, Vertices
<1>4. tris \in Seq(Triple) /\ DOMAIN tris = {1} /\ DOMAIN nbrs = {1}
    BY <1>2, <1>3
<1>5. nbrs[1] \in [1 .. 3 -> DOMAIN tris \union {0}]
    BY <1>2, <1>4
<1>6. at \in DOMAIN tris /\ i \in 0 .. Len(pts)
    BY <1>1, <1>2, <1>4
<1> QED
    BY <1>1, <1>2, <1>4, <1>5, <1>6 DEF MeshTypes, Inserting

-----------------------------------------------------------------------------
\* The ring around the cavity.

\* The boundary of the cavity: each of its sides once, and no other side of the
\* cavity has the edge of one.  No side with an edge of its own is missing.
LEMMA RingLists ==
    ASSUME MeshTypes
    PROVE  /\ Ring \in Seq(cavity \X (1 .. 3)) /\ DOMAIN Ring = 1 .. Len(Ring) /\ Len(Ring) \in Nat
           /\ \A j, l \in DOMAIN Ring : Ring[j] = Ring[l] => j = l
           /\ \A j \in DOMAIN Ring : \A r \in cavity \X (1 .. 3) :
                EdgeAt(r) = EdgeAt(Ring[j]) => r = Ring[j]
           /\ \A s \in cavity \X (1 .. 3) :
                (\A r \in cavity \X (1 .. 3) : EdgeAt(r) = EdgeAt(s) => r = s)
                => \E j \in DOMAIN Ring : Ring[j] = s
<1> DEFINE sides == cavity \X (1 .. 3)
<1> DEFINE once == {s \in sides : \A r \in sides : EdgeAt(r) = EdgeAt(s) => r = s}
<1> DEFINE before == {p \in once \X once : Lexicographic(Dir(p[1]), Dir(p[2]))}
<1>1. IsFiniteSet(once)
  <2>1. IsFiniteSet(cavity)
    <3>1. DOMAIN tris = 1 .. Len(tris) /\ Len(tris) \in Nat
        BY LenProperties DEF MeshTypes
    <3>2. IsFiniteSet(1 .. Len(tris)) /\ cavity \in SUBSET (1 .. Len(tris))
        BY <3>1, FS_Interval DEF MeshTypes
    <3> QED
        BY <3>2, FS_Subset
  <2>2. IsFiniteSet(1 .. 3)
    <3>1. 1 \in Int /\ 3 \in Int
        OBVIOUS
    <3> QED
        BY <3>1, FS_Interval
  <2>3. IsFiniteSet(sides)
      BY <2>1, <2>2, FS_Product
  <2>4. once \in SUBSET sides
      OBVIOUS
  <2> HIDE DEF once, sides
  <2> QED
      BY <2>3, <2>4, FS_Subset
<1>2. ASSUME NEW s \in sides
      PROVE  /\ Dir(s)[1] \in Nat /\ Dir(s)[2] \in Nat
             /\ EdgeAt(s) = {Dir(s)[1], Dir(s)[2]}
  <2>1. s[1] \in cavity /\ s[2] \in {1, 2, 3}
      OBVIOUS
  <2>2. tris[s[1]] \in Triple
      BY <2>1, LenProperties, ElementOfSeq DEF MeshTypes
  <2>3. tris[s[1]][1] \in Nat /\ tris[s[1]][2] \in Nat /\ tris[s[1]][3] \in Nat
    <3>1. Len(pts) \in Nat
        BY LenProperties DEF MeshTypes
    <3> QED
        BY <2>2, <3>1 DEF Triple, Vertices
  <2> QED
      BY <2>1, <2>3, Sides DEF Dir, EdgeAt, EdgeOf, Edge
<1>3. TotalOrder(once, before)
  <2>1. \A s \in once : Dir(s)[1] \in Nat /\ Dir(s)[2] \in Nat
      BY <1>2
  <2>2. ASSUME NEW s \in once, NEW r \in once, Dir(s)[1] = Dir(r)[1], Dir(s)[2] = Dir(r)[2]
        PROVE  s = r
    <3>1. EdgeAt(s) = EdgeAt(r)
        BY <1>2, <2>2
    <3> QED
        BY <3>1
  <2> HIDE DEF once
  <2>3. \A s \in once : <<s, s>> \notin before
      BY <2>1 DEF Lexicographic
  <2>4. \A s, r \in once : s # r => <<s, r>> \in before \/ <<r, s>> \in before
      BY <2>1, <2>2 DEF Lexicographic
  <2>5. \A s, r, q \in once : <<s, r>> \in before /\ <<r, q>> \in before => <<s, q>> \in before
      BY <2>1 DEF Lexicographic
  <2> QED
      BY <2>3, <2>4, <2>5 DEF TotalOrder
<1>4. Ring = InOrder(once, before)
    BY Zenon DEF Ring
<1>5. \A s \in sides : s \in once <=> \A r \in sides : EdgeAt(r) = EdgeAt(s) => r = s
    OBVIOUS
<1>9. once \subseteq sides
    OBVIOUS
<1> HIDE DEF once, before, sides
<1>6. /\ Ring \in Seq(once) /\ DOMAIN Ring = 1 .. Cardinality(once)
      /\ Len(Ring) = Cardinality(once) /\ Cardinality(once) \in Nat
      /\ \A j, l \in DOMAIN Ring : Ring[j] = Ring[l] => j = l
      /\ Range(Ring) = once
    BY <1>1, <1>3, <1>4, InOrderLists
<1>7. \A j \in DOMAIN Ring : Ring[j] \in once
    BY <1>6, ElementOfSeq
<1>8. Ring \in Seq(sides)
    BY <1>6, <1>9, SeqMonotonic
<1>10. \A s \in once : \E j \in DOMAIN Ring : Ring[j] = s
    BY <1>6 DEF Range
<1>11. \A j \in DOMAIN Ring : \A r \in sides : EdgeAt(r) = EdgeAt(Ring[j]) => r = Ring[j]
    BY <1>5, <1>7, <1>9
<1>12. \A s \in sides : (\A r \in sides : EdgeAt(r) = EdgeAt(s) => r = s)
                        => \E j \in DOMAIN Ring : Ring[j] = s
    BY <1>5, <1>10
<1> QED
    BY <1>6, <1>8, <1>11, <1>12 DEF sides

\* The vertices of a triangle, all before the point being inserted.
VertexInv ==
    phase \in Inserting =>
        \A t \in DOMAIN tris :
            /\ Proper(tris[t])
            /\ \A k \in {1, 2, 3} :
                 \/ tris[t][k] > Len(pts)
                 \/ tris[t][k] < IF phase = "insert" THEN i + 1 ELSE i

\* A new triangle stands on a side of the ring, and its other two edges are of
\* the new point.
LEMMA NewTriangle ==
    ASSUME MeshTypes, VertexInv, phase = "fan", NEW s \in cavity \X (1 .. 3)
    PROVE  /\ i \in Vertices => Joined(s) \in Triple
           /\ Proper(Joined(s))
           /\ EdgeOf(Joined(s), 1) = EdgeAt(s)
           /\ i \notin EdgeOf(Joined(s), 1)
           /\ i \in EdgeOf(Joined(s), 2) /\ i \in EdgeOf(Joined(s), 3)
           /\ \A k \in {1, 2, 3} : Joined(s)[k] > Len(pts) \/ Joined(s)[k] < i + 1
<1> DEFINE tri == tris[s[1]]
<1> DEFINE u == Dir(s)[1]
<1> DEFINE v == Dir(s)[2]
<1>1. s[1] \in DOMAIN tris /\ s[2] \in {1, 2, 3}
    BY DEF MeshTypes
<1>2. tri \in Triple
    BY <1>1, LenProperties, ElementOfSeq DEF MeshTypes
<1>3. /\ Proper(tri)
      /\ \A k \in {1, 2, 3} : tri[k] > Len(pts) \/ tri[k] < i
    BY <1>1 DEF VertexInv, Inserting
<1>4. Len(pts) \in Nat /\ i \in 0 .. Len(pts)
    BY LenProperties DEF MeshTypes
<1>5. /\ u \in Vertices /\ v \in Vertices /\ u # v
      /\ u > Len(pts) \/ u < i
      /\ v > Len(pts) \/ v < i
      /\ EdgeAt(s) = {u, v}
  <2>1. u = tri[s[2]] /\ v = tri[Nxt(s[2])] /\ EdgeAt(s) = {u, v}
      BY DEF Dir, EdgeAt, EdgeOf, Edge
  <2>2. tri[1] \in Vertices /\ tri[2] \in Vertices /\ tri[3] \in Vertices
      BY <1>2 DEF Triple
  <2> HIDE DEF tri, u, v
  <2> QED
      BY <1>1, <1>3, <2>1, <2>2, Sides DEF Proper
<1>6. u # i /\ v # i
    BY <1>4, <1>5 DEF Vertices
<1>7. Joined(s) = <<u, v, i>> \/ Joined(s) = <<v, u, i>>
    BY DEF Joined
<1> HIDE DEF u, v
<1>8. /\ Joined(s)[3] = i
      /\ \/ Joined(s)[1] = u /\ Joined(s)[2] = v
         \/ Joined(s)[1] = v /\ Joined(s)[2] = u
  <2>1. CASE Joined(s) = <<u, v, i>>
      BY <2>1
  <2>2. CASE Joined(s) = <<v, u, i>>
      BY <2>2
  <2> QED
      BY <1>7, <2>1, <2>2
<1>9. /\ EdgeOf(Joined(s), 1) = {u, v}
      /\ i \in EdgeOf(Joined(s), 2) /\ i \in EdgeOf(Joined(s), 3)
    BY <1>8, Sides
<1>10. Proper(Joined(s))
    BY <1>5, <1>6, <1>8 DEF Proper
<1>11. i \in Vertices => Joined(s) \in Triple
    BY <1>5, <1>7 DEF Triple
<1>12. \A k \in {1, 2, 3} : Joined(s)[k] > Len(pts) \/ Joined(s)[k] < i + 1
    BY <1>4, <1>5, <1>8 DEF Vertices
<1> QED
    BY <1>5, <1>6, <1>9, <1>10, <1>11, <1>12

-----------------------------------------------------------------------------
\* The fan.

\* The fan.
NewTris == [j \in DOMAIN Ring |-> Joined(Ring[j])]

\* The least of some positions is one of them.
LEMMA MinOfPositions ==
    ASSUME NEW n \in Nat, NEW T \in SUBSET (1 .. n), T # {}
    PROVE  Min(T) \in T
<1>1. T \in SUBSET Nat
    OBVIOUS
<1> QED
    BY <1>1, MinIsLeast

\* Either nothing on the ring meets a side, or the neighbour is a new triangle
\* whose side of the ring does.
LEMMA RewiredIs ==
    ASSUME MeshTypes, NEW t, NEW k
    PROVE  \/ /\ \A j \in DOMAIN Ring : ~(/\ nbrs[Ring[j][1]][Ring[j][2]] = t
                                          /\ EdgeAt(Ring[j]) = EdgeOf(tris[t], k))
              /\ Rewired(Ring, t, k) = nbrs[t][k]
           \/ \E j \in DOMAIN Ring : /\ nbrs[Ring[j][1]][Ring[j][2]] = t
                                     /\ EdgeAt(Ring[j]) = EdgeOf(tris[t], k)
                                     /\ Rewired(Ring, t, k) = Len(tris) + j
<1> DEFINE met == {j \in DOMAIN Ring : /\ nbrs[Ring[j][1]][Ring[j][2]] = t
                                       /\ EdgeAt(Ring[j]) = EdgeOf(tris[t], k)}
<1>1. Rewired(Ring, t, k) = IF met # {} THEN Len(tris) + Min(met) ELSE nbrs[t][k]
    BY Zenon DEF Rewired
<1>2. CASE met = {}
    BY <1>1, <1>2
<1>3. CASE met # {}
  <2>1. met \in SUBSET (1 .. Len(Ring)) /\ Len(Ring) \in Nat
      BY RingLists
  <2> DEFINE j == Min(met)
  <2>2. j \in met
    <3> HIDE DEF met
    <3> QED
        BY <1>3, <2>1, MinOfPositions
  <2>3. Rewired(Ring, t, k) = Len(tris) + j
      BY <1>1, <1>3
  <2> HIDE DEF j
  <2> QED
      BY <2>2, <2>3
<1> QED
    BY <1>2, <1>3

\* The mate of the j-th new triangle at an edge: the only other one with it.
LEMMA MateIs ==
    ASSUME MeshTypes, NEW j \in DOMAIN Ring, NEW e
    PROVE  LET m == {l \in DOMAIN Ring \ {j} : e \in EdgesOf(Joined(Ring[l]))} IN
           /\ \/ Mate(NewTris, j, e) = 0
              \/ \E l \in DOMAIN Ring \ {j} : m = {l} /\ Mate(NewTris, j, e) = Len(tris) + l
           /\ \A l \in DOMAIN Ring : m = {l} => Mate(NewTris, j, e) = Len(tris) + l
<1> DEFINE m == {l \in DOMAIN Ring \ {j} : e \in EdgesOf(Joined(Ring[l]))}
<1>1. Mate(NewTris, j, e) = IF Cardinality(m) = 1 THEN Len(tris) + Min(m) ELSE 0
  <2>1. DOMAIN NewTris = DOMAIN Ring /\ \A l \in DOMAIN Ring : NewTris[l] = Joined(Ring[l])
      BY DEF NewTris
  <2>2. {l \in DOMAIN NewTris \ {j} : e \in EdgesOf(NewTris[l])} = m
      BY <2>1
  <2> QED
      BY <2>2, Zenon DEF Mate
<1>2. m \in SUBSET (1 .. Len(Ring)) /\ Len(Ring) \in Nat /\ m \subseteq DOMAIN Ring \ {j}
    BY RingLists
<1> HIDE DEF m
<1>3. IsFiniteSet(m)
  <2>1. IsFiniteSet(1 .. Len(Ring))
      BY <1>2, FS_Interval
  <2> QED
      BY <1>2, <2>1, FS_Subset
<1>4. \A l \in DOMAIN Ring : m = {l} => Mate(NewTris, j, e) = Len(tris) + l
  <2> SUFFICES ASSUME NEW l \in DOMAIN Ring, m = {l} PROVE Mate(NewTris, j, e) = Len(tris) + l
      OBVIOUS
  <2>1. Cardinality(m) = 1
      BY FS_Singleton
  <2>2. Min(m) = l
      BY <1>2, MinOfPositions
  <2> QED
      BY <1>1, <2>1, <2>2
<1>5. CASE Cardinality(m) = 1
  <2>1. PICK l : m = {l}
      BY <1>3, <1>5, FS_Singleton
  <2>2. l \in DOMAIN Ring \ {j}
      BY <1>2, <2>1
  <2> QED
      BY <1>4, <2>1, <2>2 DEF m
<1>6. CASE Cardinality(m) # 1
    BY <1>1, <1>4, <1>6 DEF m
<1> QED
    BY <1>5, <1>6

\* The mesh after the fan: the old triangles, and one for each side of the ring.
LEMMA FanMakes ==
    ASSUME MeshTypes, VertexInv, Fan
    PROVE  /\ Len(tris) \in Nat \ {0} /\ Len(Ring) \in Nat \ {0}
           /\ tris' \in Seq(Triple) /\ DOMAIN tris' = 1 .. Len(tris) + Len(Ring)
           /\ \A t \in 1 .. Len(tris) : tris'[t] = tris[t]
           /\ \A j \in 1 .. Len(Ring) : tris'[Len(tris) + j] = Joined(Ring[j])
<1>1. /\ phase = "fan" /\ Ring # <<>>
      /\ tris' = tris \o NewTris
    BY DEF Fan, NewTris
<1>2. /\ Len(Ring) \in Nat /\ DOMAIN Ring = 1 .. Len(Ring) /\ Ring \in Seq(cavity \X (1 .. 3))
      /\ \A j \in 1 .. Len(Ring) : Ring[j] \in cavity \X (1 .. 3)
    BY RingLists, ElementOfSeq
<1>3. Len(Ring) # 0
    BY <1>1, <1>2, EmptySeq
<1>4. Len(tris) \in Nat /\ DOMAIN tris = 1 .. Len(tris) /\ tris \in Seq(Triple) /\ Len(tris) # 0
    BY LenProperties DEF MeshTypes
<1>5. i \in Vertices
    BY <1>1, LenProperties DEF MeshTypes, Vertices
<1>6. NewTris \in Seq(Triple) /\ Len(NewTris) = Len(Ring)
  <2>1. \A j \in 1 .. Len(Ring) : Joined(Ring[j]) \in Triple
      BY <1>1, <1>2, <1>5, NewTriangle
  <2> QED
      BY <1>2, <2>1 DEF NewTris
<1>7. /\ tris' \in Seq(Triple) /\ Len(tris') = Len(tris) + Len(Ring)
      /\ \A t \in 1 .. Len(tris) + Len(Ring) :
           tris'[t] = IF t <= Len(tris) THEN tris[t] ELSE NewTris[t - Len(tris)]
  <2> DEFINE w == tris \o NewTris
  <2>1. /\ w \in Seq(Triple) /\ Len(w) = Len(tris) + Len(NewTris)
        /\ \A t \in 1 .. Len(tris) + Len(NewTris) :
             w[t] = IF t <= Len(tris) THEN tris[t] ELSE NewTris[t - Len(tris)]
      BY <1>4, <1>6, ConcatProperties
  <2>2. tris' = w
      BY <1>1
  <2> HIDE DEF w
  <2> QED
      BY <1>6, <2>1, <2>2
<1>8. DOMAIN tris' = 1 .. Len(tris) + Len(Ring)
    BY <1>7, LenProperties
<1>9. \A t \in 1 .. Len(tris) : tris'[t] = tris[t]
    BY <1>2, <1>4, <1>7
<1>10. ASSUME NEW j \in 1 .. Len(Ring) PROVE tris'[Len(tris) + j] = Joined(Ring[j])
  <2>1. /\ Len(tris) + j \in 1 .. Len(tris) + Len(Ring)
        /\ ~(Len(tris) + j <= Len(tris)) /\ (Len(tris) + j) - Len(tris) = j
      BY <1>2, <1>4
  <2>2. NewTris[j] = Joined(Ring[j])
      BY <1>2 DEF NewTris
  <2> QED
      BY <1>7, <2>1, <2>2
<1> QED
    BY <1>2, <1>3, <1>4, <1>7, <1>8, <1>9, <1>10

\* The neighbours of the j-th new triangle.
NewLinks(j) == <<nbrs[Ring[j][1]][Ring[j][2]],
                 Mate(NewTris, j, EdgeOf(NewTris[j], 2)),
                 Mate(NewTris, j, EdgeOf(NewTris[j], 3))>>

\* The links after the fan.
LEMMA FanLinks ==
    ASSUME MeshTypes, VertexInv, Fan
    PROVE  /\ DOMAIN nbrs' = 1 .. Len(tris) + Len(Ring)
           /\ \A t \in 1 .. Len(tris) + Len(Ring) :
                nbrs'[t] \in [1 .. 3 -> (1 .. Len(tris) + Len(Ring)) \union {0}]
           /\ \A t \in 1 .. Len(tris) : t \in Alive \ cavity =>
                \A k \in 1 .. 3 : nbrs'[t][k] = Rewired(Ring, t, k)
           /\ \A j \in 1 .. Len(Ring) : nbrs'[Len(tris) + j] = NewLinks(j)
<1> DEFINE N == Len(tris)
<1> DEFINE M == Len(Ring)
<1> DEFINE Links == [1 .. 3 -> (1 .. N + M) \union {0}]
<1> DEFINE old == [t \in DOMAIN tris |->
                     IF t \in Alive \ cavity THEN [k \in 1 .. 3 |-> Rewired(Ring, t, k)]
                     ELSE nbrs[t]]
<1> DEFINE new == [j \in DOMAIN Ring |-> NewLinks(j)]
<1>1. nbrs' = old \o new
  <2>1. DOMAIN NewTris = DOMAIN Ring
      BY DEF NewTris
  <2>2. nbrs' = old \o [j \in DOMAIN NewTris |-> NewLinks(j)]
      BY Zenon DEF Fan, NewTris, NewLinks
  <2> QED
      BY <2>1, <2>2
<1>2. /\ M \in Nat /\ DOMAIN Ring = 1 .. M
      /\ \A j \in 1 .. M : Ring[j] \in cavity \X (1 .. 3)
    BY RingLists, ElementOfSeq
<1>3. N \in Nat /\ DOMAIN tris = 1 .. N
    BY LenProperties DEF MeshTypes
<1> HIDE DEF N, M
<1>4. ASSUME NEW t \in 1 .. N PROVE nbrs[t] \in Links
  <2>1. nbrs[t] \in [1 .. 3 -> 1 .. N \union {0}]
      BY <1>3 DEF MeshTypes
  <2>2. 1 .. N \union {0} \subseteq (1 .. N + M) \union {0}
      BY <1>2, <1>3
  <2> QED
      BY <2>1, <2>2
<1>5. ASSUME NEW t \in 1 .. N PROVE [k \in 1 .. 3 |-> Rewired(Ring, t, k)] \in Links
  <2> SUFFICES ASSUME NEW k \in 1 .. 3 PROVE Rewired(Ring, t, k) \in (1 .. N + M) \union {0}
      OBVIOUS
  <2>1. nbrs[t][k] \in (1 .. N + M) \union {0}
      BY <1>4
  <2>2. \A j \in 1 .. M : N + j \in 1 .. N + M
      BY <1>2, <1>3
  <2> QED
      BY <1>2, <2>1, <2>2, RewiredIs DEF N
<1>6. ASSUME NEW j \in 1 .. M PROVE NewLinks(j) \in Links
  <2>1. nbrs[Ring[j][1]][Ring[j][2]] \in (1 .. N + M) \union {0}
    <3>1. Ring[j][1] \in 1 .. N /\ Ring[j][2] \in 1 .. 3
        BY <1>2, <1>3 DEF MeshTypes
    <3> QED
        BY <1>4, <3>1
  <2>2. \A e : Mate(NewTris, j, e) \in (1 .. N + M) \union {0}
    <3>1. \A l \in 1 .. M : N + l \in 1 .. N + M
        BY <1>2, <1>3
    <3>2. ASSUME NEW e
          PROVE  Mate(NewTris, j, e) = 0 \/ \E l \in 1 .. M : Mate(NewTris, j, e) = N + l
      <4>1. \/ Mate(NewTris, j, e) = 0
            \/ \E l \in DOMAIN Ring \ {j} : Mate(NewTris, j, e) = Len(tris) + l
        <5>1. j \in DOMAIN Ring
            BY <1>2
        <5> QED
            BY <5>1, MateIs
      <4> QED
          BY <1>2, <4>1 DEF N
    <3> QED
        BY <3>1, <3>2
  <2> QED
      BY <2>1, <2>2 DEF NewLinks
<1> HIDE DEF Links
<1>7. old \in Seq(Links) /\ Len(old) = N
    BY <1>3, <1>4, <1>5
<1>8. new \in Seq(Links) /\ Len(new) = M
    BY <1>2, <1>6
<1>9. \A t \in 1 .. N : t \in Alive \ cavity => old[t] = [k \in 1 .. 3 |-> Rewired(Ring, t, k)]
    BY <1>3
<1>10. \A j \in 1 .. M : new[j] = NewLinks(j)
    BY <1>2
<1> HIDE DEF old, new
<1>11. /\ nbrs' \in Seq(Links) /\ Len(nbrs') = N + M
       /\ \A t \in 1 .. N + M : nbrs'[t] = IF t <= N THEN old[t] ELSE new[t - N]
    BY <1>1, <1>7, <1>8, ConcatProperties
<1>12. DOMAIN nbrs' = 1 .. N + M /\ \A t \in 1 .. N + M : nbrs'[t] \in Links
    BY <1>11, LenProperties, ElementOfSeq
<1>13. ASSUME NEW t \in 1 .. N, t \in Alive \ cavity, NEW k \in 1 .. 3
       PROVE  nbrs'[t][k] = Rewired(Ring, t, k)
  <2>1. nbrs'[t] = old[t]
      BY <1>2, <1>3, <1>11
  <2> QED
      BY <1>9, <1>13, <2>1
<1>14. ASSUME NEW j \in 1 .. M PROVE nbrs'[N + j] = NewLinks(j)
  <2>1. N + j \in 1 .. N + M /\ ~(N + j <= N) /\ (N + j) - N = j
      BY <1>2, <1>3
  <2> QED
      BY <1>10, <1>11, <2>1
<1> QED
    BY <1>12, <1>13, <1>14 DEF N, M, Links

-----------------------------------------------------------------------------
\* The links.

\* The triangle across the k-th side of t has t across the same edge.
Mutual(t, k) ==
    \E l \in 1 .. 3 : /\ nbrs[nbrs[t][k]][l] = t
                      /\ EdgeOf(tris[nbrs[t][k]], l) = EdgeOf(tris[t], k)

\* Live neighbours agree, and the flood only takes live triangles.
LinkInv ==
    phase \in Inserting =>
        /\ phase \in {"flood", "fan"} => cavity \subseteq Alive
        /\ \A t \in Alive, k \in 1 .. 3 : nbrs[t][k] \in Alive => Mutual(t, k)

\* A fan keeps the links mutual: between a new triangle and the one outside its
\* side of the ring, between two new ones, between two that stay.
LEMMA FanKeepsLinks ==
    ASSUME MeshTypes, VertexInv, LinkInv, Fan
    PROVE  \A t \in Alive', k \in 1 .. 3 : nbrs'[t][k] \in Alive' => Mutual(t, k)'
<1> DEFINE N == Len(tris)
<1> DEFINE M == Len(Ring)
<1>1. /\ N \in Nat /\ M \in Nat /\ N # 0
      /\ DOMAIN tris' = 1 .. N + M
      /\ \A t \in 1 .. N : tris'[t] = tris[t]
      /\ \A j \in 1 .. M : tris'[N + j] = Joined(Ring[j])
    BY FanMakes
<1>2. /\ \A t \in 1 .. N : t \in Alive \ cavity =>
           \A k \in 1 .. 3 : nbrs'[t][k] = Rewired(Ring, t, k)
      /\ \A j \in 1 .. M : nbrs'[N + j] = NewLinks(j)
    BY FanLinks
<1>3. /\ DOMAIN Ring = 1 .. M
      /\ \A j \in 1 .. M : Ring[j] \in cavity \X (1 .. 3)
      /\ \A j, l \in 1 .. M : Ring[j] = Ring[l] => j = l
      /\ \A j \in 1 .. M : \A r \in cavity \X (1 .. 3) :
           EdgeAt(r) = EdgeAt(Ring[j]) => r = Ring[j]
    BY RingLists, ElementOfSeq
<1>4. /\ phase = "fan" /\ dead' = dead \union cavity
      /\ cavity \subseteq Alive
      /\ \A t \in Alive, k \in 1 .. 3 : nbrs[t][k] \in Alive => Mutual(t, k)
    BY DEF Fan, LinkInv, Inserting
<1>5. DOMAIN tris = 1 .. N /\ Alive \subseteq 1 .. N
    BY LenProperties DEF MeshTypes, Alive
<1>6. \A t \in Alive : Proper(tris[t])
    BY <1>4 DEF VertexInv, Inserting, Alive
<1>7. \A t \in 1 .. N : nbrs[t] \in [1 .. 3 -> 1 .. N \union {0}]
    BY <1>5 DEF MeshTypes
<1>8. ASSUME NEW t \in Alive'
      PROVE  \/ t \in Alive \ cavity /\ t \in 1 .. N
             \/ \E j \in 1 .. M : t = N + j
  <2>1. t \in 1 .. N + M /\ t \notin dead /\ t \notin cavity
      BY <1>1, <1>4 DEF Alive
  <2>2. CASE t \in 1 .. N
      BY <1>5, <2>1, <2>2 DEF Alive
  <2>3. CASE t \notin 1 .. N
    <3>1. t - N \in 1 .. M /\ t = N + (t - N)
        BY <1>1, <2>1, <2>3
    <3> QED
        BY <3>1
  <2> QED
      BY <2>2, <2>3
<1>9. \A j \in 1 .. M : N + j \notin 1 .. N \union {0}
    BY <1>1
<1>10. ASSUME NEW j \in 1 .. M
       PROVE  /\ EdgeOf(Joined(Ring[j]), 1) = EdgeAt(Ring[j])
              /\ i \notin EdgeOf(Joined(Ring[j]), 1)
              /\ i \in EdgeOf(Joined(Ring[j]), 2) /\ i \in EdgeOf(Joined(Ring[j]), 3)
    BY <1>3, <1>4, NewTriangle
<1>11. ASSUME NEW j \in 1 .. M
       PROVE  /\ NewLinks(j)[1] = nbrs[Ring[j][1]][Ring[j][2]]
              /\ NewLinks(j)[2] = Mate(NewTris, j, EdgeOf(Joined(Ring[j]), 2))
              /\ NewLinks(j)[3] = Mate(NewTris, j, EdgeOf(Joined(Ring[j]), 3))
    BY <1>3 DEF NewLinks, NewTris
<1> HIDE DEF N, M
\* The outside of a side of the ring.
<1>12. ASSUME NEW j \in 1 .. M, NEW u \in Alive \ cavity,
              nbrs[Ring[j][1]][Ring[j][2]] = u
       PROVE  \E l \in 1 .. 3 : /\ nbrs'[u][l] = N + j
                                /\ EdgeOf(tris[u], l) = EdgeAt(Ring[j])
  <2>1. Ring[j][1] \in Alive /\ Ring[j][2] \in 1 .. 3
      BY <1>3, <1>4
  <2>2. PICK l \in 1 .. 3 : /\ nbrs[u][l] = Ring[j][1]
                            /\ EdgeOf(tris[u], l) = EdgeAt(Ring[j])
      BY <1>4, <1>12, <2>1 DEF Mutual, EdgeAt
  <2>3. \A m \in 1 .. M : EdgeAt(Ring[m]) = EdgeOf(tris[u], l) => m = j
    <3> SUFFICES ASSUME NEW m \in 1 .. M, EdgeAt(Ring[m]) = EdgeOf(tris[u], l) PROVE m = j
        OBVIOUS
    <3>1. EdgeAt(Ring[m]) = EdgeAt(Ring[j]) /\ Ring[m] \in cavity \X (1 .. 3)
        BY <1>3, <2>2
    <3> QED
        BY <1>3, <3>1
  <2>4. Rewired(Ring, u, l) = N + j
    <3>1. EdgeAt(Ring[j]) = EdgeOf(tris[u], l) /\ nbrs[Ring[j][1]][Ring[j][2]] = u
        BY <1>12, <2>2
    <3> QED
        BY <1>3, <2>3, <3>1, RewiredIs DEF N
  <2>5. nbrs'[u][l] = N + j
      BY <1>2, <1>5, <2>4
  <2> QED
      BY <2>2, <2>5
\* A new triangle and another.
<1>13. ASSUME NEW j \in 1 .. M, NEW k \in {2, 3}, NEW l \in 1 .. M,
              Mate(NewTris, j, EdgeOf(Joined(Ring[j]), k)) = N + l
       PROVE  \E m \in {2, 3} :
                /\ NewLinks(l)[m] = N + j
                /\ EdgeOf(Joined(Ring[l]), m) = EdgeOf(Joined(Ring[j]), k)
  <2> DEFINE e == EdgeOf(Joined(Ring[j]), k)
  <2> DEFINE with == {n \in DOMAIN Ring : e \in EdgesOf(Joined(Ring[n]))}
  <2>1. with \ {j} = {l} /\ l # j
    <3>1. PICK n \in DOMAIN Ring \ {j} :
            {q \in DOMAIN Ring \ {j} : e \in EdgesOf(Joined(Ring[q]))} = {n}
            /\ Mate(NewTris, j, e) = N + n
      <4>1. Mate(NewTris, j, e) # 0
          BY <1>1, <1>13 DEF N
      <4> QED
          BY <1>3, <4>1, MateIs DEF N
    <3>2. n = l
        BY <1>1, <1>3, <1>13, <3>1 DEF N, M
    <3> QED
        BY <3>1, <3>2
  <2>2. j \in with
    <3>1. EdgeOf(Joined(Ring[j]), k) \in EdgesOf(Joined(Ring[j]))
        BY DEF EdgesOf
    <3> QED
        BY <1>3, <3>1
  <2>3. with \ {l} = {j}
      BY <2>1, <2>2
  <2>4. i \in e
      BY <1>10
  <2>5. PICK m \in {2, 3} : EdgeOf(Joined(Ring[l]), m) = e
    <3>1. e \in EdgesOf(Joined(Ring[l]))
        BY <2>1
    <3>2. PICK m \in 1 .. 3 : EdgeOf(Joined(Ring[l]), m) = e
        BY <3>1 DEF EdgesOf
    <3>3. m # 1
        BY <1>10, <2>4, <3>2
    <3>4. m \in {2, 3}
        BY <3>3
    <3> QED
        BY <3>2, <3>4
  <2>6. {q \in DOMAIN Ring \ {l} : e \in EdgesOf(Joined(Ring[q]))} = {j}
      BY <2>3
  <2> HIDE DEF e, with
  <2>7. Mate(NewTris, l, e) = N + j
      BY <1>3, <2>6, MateIs DEF N
  <2>8. NewLinks(l)[m] = N + j
      BY <1>11, <2>5, <2>7
  <2> QED
      BY <2>5, <2>8 DEF e
<1> SUFFICES ASSUME NEW t \in Alive', NEW k \in 1 .. 3, nbrs'[t][k] \in Alive'
             PROVE  \E l \in 1 .. 3 :
                      /\ nbrs'[nbrs'[t][k]][l] = t
                      /\ EdgeOf(tris'[nbrs'[t][k]], l) = EdgeOf(tris'[t], k)
    BY DEF Mutual, EdgeOf, Nxt, Edge
<1> DEFINE u == nbrs'[t][k]
<1>14. ASSUME NEW j \in 1 .. M, t = N + j, k = 1
       PROVE  \E l \in 1 .. 3 : nbrs'[u][l] = t /\ EdgeOf(tris'[u], l) = EdgeOf(tris'[t], k)
  <2>1. u = nbrs[Ring[j][1]][Ring[j][2]]
      BY <1>2, <1>11, <1>14
  <2>2. u \in 1 .. N \union {0}
    <3>1. Ring[j][1] \in 1 .. N /\ Ring[j][2] \in 1 .. 3
        BY <1>3, <1>4, <1>5
    <3> QED
        BY <1>7, <2>1, <3>1
  <2>3. u \in Alive \ cavity /\ u \in 1 .. N
      BY <1>8, <1>9, <2>2
  <2> HIDE DEF u
  <2>4. PICK l \in 1 .. 3 : nbrs'[u][l] = N + j /\ EdgeOf(tris[u], l) = EdgeAt(Ring[j])
      BY <1>12, <2>1, <2>3
  <2> QED
      BY <1>1, <1>10, <1>14, <2>3, <2>4 DEF N, M
<1>15. ASSUME NEW j \in 1 .. M, t = N + j, k \in {2, 3}
       PROVE  \E l \in 1 .. 3 : nbrs'[u][l] = t /\ EdgeOf(tris'[u], l) = EdgeOf(tris'[t], k)
  <2>1. u = Mate(NewTris, j, EdgeOf(Joined(Ring[j]), k))
      BY <1>2, <1>11, <1>15
  <2>2. PICK l \in 1 .. M : u = N + l
    <3>1. u # 0
        BY <1>1, <1>8 DEF N, M
    <3> QED
        BY <1>3, <2>1, <3>1, MateIs DEF N
  <2> HIDE DEF u
  <2>3. PICK m \in {2, 3} : /\ NewLinks(l)[m] = N + j
                            /\ EdgeOf(Joined(Ring[l]), m) = EdgeOf(Joined(Ring[j]), k)
    <3>1. Mate(NewTris, j, EdgeOf(Joined(Ring[j]), k)) = N + l /\ k \in {2, 3}
        BY <1>15, <2>1, <2>2
    <3> HIDE DEF u
    <3> QED
        BY <1>13, <3>1
  <2> QED
      BY <1>1, <1>2, <1>15, <2>2, <2>3 DEF N, M
<1>16. ASSUME t \in Alive \ cavity, t \in 1 .. N, NEW j \in 1 .. M, u = N + j
       PROVE  \E l \in 1 .. 3 : nbrs'[u][l] = t /\ EdgeOf(tris'[u], l) = EdgeOf(tris'[t], k)
  <2>1. u = Rewired(Ring, t, k) /\ u # nbrs[t][k]
    <3>1. nbrs[t][k] \in 1 .. N \union {0}
        BY <1>7, <1>16
    <3> QED
        BY <1>2, <1>9, <1>16, <3>1
  <2> HIDE DEF u
  <2>2. PICK m \in 1 .. M : /\ nbrs[Ring[m][1]][Ring[m][2]] = t
                            /\ EdgeAt(Ring[m]) = EdgeOf(tris[t], k)
                            /\ u = N + m
      BY <1>3, <2>1, RewiredIs DEF N
  <2>3. nbrs'[u][1] = t /\ EdgeOf(tris'[u], 1) = EdgeOf(tris'[t], k)
      BY <1>1, <1>2, <1>10, <1>11, <1>16, <2>2 DEF N, M
  <2> QED
      BY <2>3
<1>17. ASSUME t \in Alive \ cavity, t \in 1 .. N, u \in Alive \ cavity, u \in 1 .. N
       PROVE  \E l \in 1 .. 3 : nbrs'[u][l] = t /\ EdgeOf(tris'[u], l) = EdgeOf(tris'[t], k)
  <2>1. u = Rewired(Ring, t, k)
      BY <1>2, <1>17
  <2>2. u = nbrs[t][k]
      BY <1>3, <1>9, <1>17, <2>1, RewiredIs DEF N
  <2>3. PICK l \in 1 .. 3 : nbrs[u][l] = t /\ EdgeOf(tris[u], l) = EdgeOf(tris[t], k)
      BY <1>4, <1>17, <2>2 DEF Mutual
  <2> HIDE DEF u
  <2>4. ASSUME NEW m \in 1 .. M, nbrs[Ring[m][1]][Ring[m][2]] = u,
               EdgeAt(Ring[m]) = EdgeOf(tris[u], l)
        PROVE  FALSE
    <3>1. Ring[m][1] \in cavity /\ Ring[m][1] \in Alive /\ Ring[m][2] \in 1 .. 3
        BY <1>3, <1>4
    <3>2. PICK n \in 1 .. 3 : /\ nbrs[u][n] = Ring[m][1]
                              /\ EdgeOf(tris[u], n) = EdgeAt(Ring[m])
      <4>1. Mutual(Ring[m][1], Ring[m][2])
          BY <1>4, <1>17, <2>4, <3>1
      <4> QED
          BY <2>4, <4>1 DEF Mutual, EdgeAt
    <3>3. n = l
        BY <1>6, <1>17, <2>4, <3>2, SidesDiffer
    <3> QED
        BY <1>17, <2>3, <3>1, <3>2, <3>3
  <2>5. Rewired(Ring, u, l) = nbrs[u][l]
      BY <1>3, <2>4, RewiredIs
  <2> QED
      BY <1>1, <1>2, <1>17, <2>3, <2>5 DEF N, M
<1>18. k = 1 \/ k \in {2, 3}
    OBVIOUS
<1> QED
    BY <1>8, <1>14, <1>15, <1>16, <1>17, <1>18

-----------------------------------------------------------------------------
\* The mesh, step by step.

\* What the insertion of points keeps.
MeshInv == MeshTypes /\ VertexInv /\ LinkInv

\* What the mesh looks like does not depend on what is being done to it.
LEMMA SameMesh ==
    ASSUME MeshInv, UNCHANGED <<points, mesh>>, phase \in Inserting,
           phase' = "insert" => i' = i /\ phase = "insert",
           phase' \in {"walk", "flood", "fan"} =>
              \/ phase = "insert" /\ i' = i + 1
              \/ phase # "insert" /\ i' = i,
           phase' \in {"flood", "fan"} => cavity' \subseteq Alive
    PROVE  VertexInv' /\ LinkInv'
<1>1. UNCHANGED <<pts, coords, tris, nbrs, dead, Alive>>
    BY DEF points, mesh, Alive
<1>2. \A t \in DOMAIN tris :
        /\ Proper(tris[t])
        /\ \A k \in {1, 2, 3} :
             \/ tris[t][k] > Len(pts)
             \/ tris[t][k] < IF phase = "insert" THEN i + 1 ELSE i
    BY DEF MeshInv, VertexInv
<1>3. VertexInv'
  <2>1. phase' \in Inserting =>
          (IF phase = "insert" THEN i + 1 ELSE i) = (IF phase' = "insert" THEN i' + 1 ELSE i')
      BY DEF Inserting, MeshInv, MeshTypes
  <2> QED
      BY <1>1, <1>2, <2>1 DEF VertexInv, Proper
<1>4. LinkInv'
  <2>1. \A t, k : Mutual(t, k)' = Mutual(t, k)
      BY <1>1 DEF Mutual, EdgeOf, Edge, Nxt
  <2> QED
      BY <1>1, <2>1 DEF LinkInv, MeshInv
<1> QED
    BY <1>3, <1>4

\* The walk, the flood, and the fan keep the mesh in order.
LEMMA MeshNext == MeshInv /\ [DNext]_dvars => MeshInv'
<1> SUFFICES ASSUME MeshInv, [DNext]_dvars PROVE MeshInv'
    OBVIOUS
<1> USE DEF MeshInv
<1>0. /\ DOMAIN tris = 1 .. Len(tris) /\ Len(tris) \in Nat /\ Len(pts) \in Nat
      /\ Alive \subseteq DOMAIN tris
      /\ \A t \in DOMAIN tris : nbrs[t] \in [1 .. 3 -> DOMAIN tris \union {0}]
    BY LenProperties DEF MeshTypes, Alive
<1>1. CASE NextPoint
  <2>1. UNCHANGED <<points, mesh, at, flood>> /\ phase = "insert" /\ phase' = "walk"
        /\ i < Len(pts) /\ i' = i + 1 /\ walked' = 0
      BY <1>1 DEF NextPoint
  <2>2. VertexInv' /\ LinkInv'
      BY <2>1, SameMesh DEF Inserting
  <2>3. UNCHANGED <<pts, tris, nbrs, dead, at, stack, cavity, Triple>>
      BY <2>1 DEF points, mesh, flood, Triple, Vertices
  <2>4. i' \in 0 .. Len(pts) /\ i' # 0 /\ walked' \in Nat
      BY <1>0, <2>1 DEF MeshTypes
  <2>5. MeshTypes'
      BY <2>1, <2>3, <2>4 DEF MeshTypes, Inserting
  <2> QED
      BY <2>2, <2>5
<1>2. CASE Walk
  <2>1. UNCHANGED <<phase, points, i, mesh, flood>> /\ phase = "walk"
        /\ walked' = walked + 1
        /\ at' = nbrs[at][Min(Beyond(at))] /\ Beyond(at) # {}
      BY <1>2 DEF Walk
  <2>2. VertexInv' /\ LinkInv'
      BY <2>1, SameMesh DEF Inserting
  <2>3. at' \in DOMAIN tris
    <3>1. Beyond(at) \in SUBSET (1 .. 3) /\ \A k \in Beyond(at) : nbrs[at][k] \in Alive
        BY DEF Beyond
    <3>2. Min(Beyond(at)) \in Beyond(at)
        BY <2>1, <3>1, MinOfPositions, 3 \in Nat
    <3> QED
        BY <1>0, <2>1, <3>1, <3>2
  <2>4. UNCHANGED <<pts, tris, nbrs, dead, stack, cavity, Triple>>
      BY <2>1 DEF points, mesh, flood, Triple, Vertices
  <2>5. walked' \in Nat
      BY <2>1 DEF MeshTypes
  <2>6. MeshTypes'
      BY <2>1, <2>3, <2>4, <2>5 DEF MeshTypes
  <2> QED
      BY <2>2, <2>6
<1>3. CASE Arrive
  <2>1. UNCHANGED <<points, i, mesh, at, walked>> /\ phase = "walk" /\ phase' = "flood"
        /\ cavity' = {}
        /\ stack' = {IF Walking THEN at ELSE Scan}
      BY <1>3 DEF Arrive
  <2>2. VertexInv' /\ LinkInv'
      BY <2>1, SameMesh DEF Inserting
  <2>3. stack' \subseteq DOMAIN tris
    <3> DEFINE holding == {t \in Alive : Holds(t)}
               fan == {t \in DOMAIN tris : i - 1 \in Range(tris[t])} \union {Len(tris)}
    <3>1. /\ holding \in SUBSET (1 .. Len(tris))
          /\ fan \in SUBSET (1 .. Len(tris)) /\ fan # {}
        BY <1>0 DEF MeshTypes, Alive
    <3>2. Scan = IF holding # {} THEN Min(holding) ELSE Min(fan)
        BY DEF Scan, Hint
    <3> HIDE DEF holding, fan
    <3>3. Min(fan) \in 1 .. Len(tris)
        BY <1>0, <3>1, MinOfPositions
    <3>4. holding # {} => Min(holding) \in 1 .. Len(tris)
        BY <1>0, <3>1, MinOfPositions
    <3> QED
        BY <1>0, <2>1, <3>2, <3>3, <3>4 DEF MeshTypes
  <2>4. MeshTypes'
      BY <1>0, <2>1, <2>3 DEF MeshTypes, Inserting, points, mesh, Triple, Vertices
  <2> QED
      BY <2>2, <2>4
<1>4. CASE Flood
  <2>1. UNCHANGED <<phase, points, i, mesh, at, walked>> /\ phase = "flood"
        /\ cavity' = cavity \union Conflicts((stack \cap Alive) \ cavity)
        /\ stack' = Spread(Conflicts((stack \cap Alive) \ cavity)) \ cavity'
      BY <1>4 DEF Flood
  <2>2. Conflicts((stack \cap Alive) \ cavity) \subseteq Alive
      BY DEF Conflicts
  <2>3. cavity' \subseteq Alive
      BY <2>1, <2>2 DEF LinkInv, Inserting
  <2>4. VertexInv' /\ LinkInv'
      BY <2>1, <2>3, SameMesh DEF Inserting
  <2>5. Spread(Conflicts((stack \cap Alive) \ cavity)) \subseteq DOMAIN tris \union {0}
    <3>1. \A t \in DOMAIN tris : \A x \in Range(nbrs[t]) : x \in DOMAIN tris \union {0}
        BY <1>0 DEF Range
    <3> QED
        BY <1>0, <2>2, <3>1 DEF Spread
  <2>6. MeshTypes'
      BY <1>0, <2>1, <2>3, <2>5 DEF MeshTypes, Inserting, points, mesh, Triple, Vertices
  <2> QED
      BY <2>4, <2>6
<1>5. CASE Flooded
  <2>1. UNCHANGED <<points, i, mesh, at, walked, stack>> /\ phase = "flood"
        /\ phase' \in {"done", "fan"}
        /\ cavity' = IF cavity = {} THEN Conflicts(Alive) ELSE cavity
      BY <1>5 DEF Flooded
  <2>2. cavity' \subseteq Alive
      BY <2>1 DEF Conflicts, LinkInv, Inserting
  <2>3. VertexInv' /\ LinkInv'
      BY <2>1, <2>2, SameMesh DEF Inserting
  <2>4. MeshTypes'
      BY <1>0, <2>1, <2>2 DEF MeshTypes, Inserting, points, mesh, Triple, Vertices
  <2> QED
      BY <2>3, <2>4
<1>6. CASE Fan
  <2>1. UNCHANGED <<points, i, walked, flood>> /\ phase = "fan" /\ phase' = "insert"
        /\ dead' = dead \union cavity /\ at' = Len(tris) + 1
      BY <1>6 DEF Fan
  <2>2. /\ Len(tris) \in Nat \ {0} /\ Len(Ring) \in Nat \ {0}
        /\ tris' \in Seq(Triple) /\ DOMAIN tris' = 1 .. Len(tris) + Len(Ring)
        /\ \A t \in 1 .. Len(tris) : tris'[t] = tris[t]
        /\ \A j \in 1 .. Len(Ring) : tris'[Len(tris) + j] = Joined(Ring[j])
      BY <1>6, FanMakes
  <2>3. /\ DOMAIN nbrs' = 1 .. Len(tris) + Len(Ring)
        /\ \A t \in 1 .. Len(tris) + Len(Ring) :
             nbrs'[t] \in [1 .. 3 -> (1 .. Len(tris) + Len(Ring)) \union {0}]
      BY <1>6, FanLinks
  <2>4. MeshTypes'
    <3>1. at' \in DOMAIN tris' /\ DOMAIN tris \subseteq DOMAIN tris'
        BY <1>0, <2>1, <2>2
    <3>2. pts' = pts /\ i' = i /\ walked' = walked /\ stack' = stack /\ cavity' = cavity
        BY <2>1 DEF points, flood
    <3>3. Triple' = Triple
        BY <3>2 DEF Triple, Vertices
    <3> QED
        BY <2>1, <2>2, <2>3, <3>1, <3>2, <3>3 DEF MeshTypes, Inserting
  <2>5. VertexInv'
    <3>1. UNCHANGED <<pts, i>>
        BY <2>1 DEF points
    <3>2. ASSUME NEW t \in DOMAIN tris'
          PROVE  /\ Proper(tris'[t])
                 /\ \A k \in {1, 2, 3} : tris'[t][k] > Len(pts) \/ tris'[t][k] < i + 1
      <4>1. CASE t \in 1 .. Len(tris)
        <5>1. /\ Proper(tris[t])
              /\ \A k \in {1, 2, 3} : tris[t][k] > Len(pts) \/ tris[t][k] < i
            BY <1>0, <2>1, <4>1 DEF VertexInv, Inserting
        <5>2. tris[t] \in Triple
            BY <4>1, ElementOfSeq DEF MeshTypes
        <5>3. tris[t][1] \in Nat /\ tris[t][2] \in Nat /\ tris[t][3] \in Nat
            BY <1>0, <5>2 DEF Triple, Vertices
        <5>4. tris'[t] = tris[t] /\ i \in Nat
            BY <2>2, <4>1 DEF MeshTypes
        <5> QED
            BY <5>1, <5>3, <5>4
      <4>2. CASE t \notin 1 .. Len(tris)
        <5>1. t - Len(tris) \in 1 .. Len(Ring) /\ Len(tris) + (t - Len(tris)) = t
            BY <2>2, <4>2
        <5>2. PICK j \in 1 .. Len(Ring) : tris'[t] = Joined(Ring[j])
            BY <2>2, <5>1
        <5>3. Ring[j] \in cavity \X (1 .. 3)
            BY RingLists, ElementOfSeq
        <5> QED
            BY <2>1, <5>2, <5>3, NewTriangle
      <4> QED
          BY <4>1, <4>2
    <3> QED
        BY <2>1, <3>1, <3>2 DEF VertexInv, Proper
  <2>6. LinkInv'
      BY <1>6, <2>1, FanKeepsLinks DEF LinkInv
  <2> QED
      BY <2>4, <2>5, <2>6
<1>7. CASE Finalize \/ Pop \/ Finish
  <2>1. /\ UNCHANGED <<points, i, mesh, at, walked, flood>>
        /\ phase' \in {"flip", "done"}
      BY <1>7 DEF Finalize, Pop, Finish
  <2>2. MeshTypes'
      BY <1>0, <2>1 DEF MeshTypes, Inserting, points, mesh, flood, Triple, Vertices
  <2> QED
      BY <2>1, <2>2 DEF VertexInv, LinkInv, Inserting
<1>8. CASE Done \/ UNCHANGED dvars
  <2>1. UNCHANGED dvars
      BY <1>8 DEF Done
  <2>2. UNCHANGED <<phase, pts, coords, i, tris, nbrs, dead, at, walked, stack, cavity>>
      BY <2>1 DEF dvars
  <2>3. Alive' = Alive /\ Triple' = Triple
      BY <2>2 DEF Alive, Triple, Vertices
  <2>4. MeshTypes'
      BY <2>2, <2>3 DEF MeshTypes
  <2>5. VertexInv'
      BY <2>2 DEF VertexInv, Proper
  <2>6. \A t, k : Mutual(t, k)' = Mutual(t, k)
      BY <2>2 DEF Mutual, EdgeOf, Edge, Nxt
  <2>7. LinkInv'
      BY <2>2, <2>3, <2>6 DEF LinkInv
  <2> QED
      BY <2>4, <2>5, <2>7
<1> QED
    BY <1>1, <1>2, <1>3, <1>4, <1>5, <1>6, <1>7, <1>8 DEF DNext

-----------------------------------------------------------------------------
\* Lists without repetition.

\* A list without repetition, and what is in it.
Lists(s, S) == IsInjective(s) /\ Range(s) = S

\* One more at the end.
LEMMA AppendLists ==
    ASSUME NEW D, NEW s \in Seq(D), NEW S, Lists(s, S), NEW x \in D, x \notin S
    PROVE  Append(s, x) \in Seq(D) /\ Lists(Append(s, x), S \union {x})
<1> DEFINE w == Append(s, x)
<1>1. Len(s) \in Nat /\ DOMAIN s = 1 .. Len(s) /\ \A k \in 1 .. Len(s) : s[k] \in D
    BY LenProperties, ElementOfSeq
<1>2. /\ w \in Seq(D) /\ DOMAIN w = 1 .. Len(s) + 1 /\ w[Len(s) + 1] = x
      /\ \A k \in 1 .. Len(s) : w[k] = s[k]
    BY <1>1
<1> HIDE DEF w
<1>3. /\ \A k, l \in 1 .. Len(s) : s[k] = s[l] => k = l
      /\ \A k \in 1 .. Len(s) : s[k] \in S
      /\ \A y \in S : \E k \in 1 .. Len(s) : s[k] = y
    BY <1>1 DEF Lists, IsInjective, Range
<1>4. \A k \in DOMAIN w : k \in 1 .. Len(s) \/ k = Len(s) + 1
    BY <1>1, <1>2
<1>5. IsInjective(w)
    BY <1>2, <1>3, <1>4 DEF IsInjective
<1>6. \A y : y \in S \union {x} <=> \E k \in DOMAIN w : w[k] = y
  <2>1. Len(s) + 1 \in DOMAIN w /\ 1 .. Len(s) \subseteq DOMAIN w
      BY <1>1, <1>2
  <2> QED
      BY <1>2, <1>3, <1>4, <2>1
<1>7. Range(w) = S \union {x}
    BY <1>6 DEF Range
<1> QED
    BY <1>2, <1>5, <1>7 DEF Lists, w

\* One less.
LEMMA WithoutLists ==
    ASSUME NEW D, NEW s \in Seq(D), NEW S, Lists(s, S), NEW x \in S
    PROVE  Without(s, x) \in Seq(D) /\ Lists(Without(s, x), S \ {x})
<1>1. Len(s) \in Nat /\ DOMAIN s = 1 .. Len(s) /\ \A k \in 1 .. Len(s) : s[k] \in D
    BY LenProperties, ElementOfSeq
<1>2. /\ \A k, l \in 1 .. Len(s) : s[k] = s[l] => k = l
      /\ \A k \in 1 .. Len(s) : s[k] \in S
      /\ \A y \in S : \E k \in 1 .. Len(s) : s[k] = y
    BY <1>1 DEF Lists, IsInjective, Range
<1> DEFINE p == CHOOSE k \in DOMAIN s : s[k] = x
<1>3. p \in 1 .. Len(s) /\ s[p] = x
    BY <1>1, <1>2
<1> DEFINE w == SubSeq(s, 1, p - 1) \o SubSeq(s, p + 1, Len(s))
<1>4. Without(s, x) = w
    BY Zenon DEF Without, RemoveAt
<1> HIDE DEF p
<1>5. /\ SubSeq(s, 1, p - 1) \in Seq(D) /\ Len(SubSeq(s, 1, p - 1)) = p - 1
      /\ \A k \in 1 .. p - 1 : SubSeq(s, 1, p - 1)[k] = s[k]
  <2>1. 1 \in Int /\ p - 1 \in Int /\ \A k \in 1 .. p - 1 : s[k] \in D
      BY <1>1, <1>3
  <2>2. /\ SubSeq(s, 1, p - 1) \in Seq(D)
        /\ Len(SubSeq(s, 1, p - 1)) = IF 1 <= p - 1 THEN (p - 1) - 1 + 1 ELSE 0
        /\ \A k \in 1 .. (p - 1) - 1 + 1 : SubSeq(s, 1, p - 1)[k] = s[1 + k - 1]
      BY <2>1, SubSeqProperties
  <2> QED
      BY <1>3, <2>2
<1>6. /\ SubSeq(s, p + 1, Len(s)) \in Seq(D) /\ Len(SubSeq(s, p + 1, Len(s))) = Len(s) - p
      /\ \A k \in 1 .. Len(s) - p : SubSeq(s, p + 1, Len(s))[k] = s[p + k]
  <2>1. p + 1 \in Int /\ Len(s) \in Int /\ \A k \in p + 1 .. Len(s) : s[k] \in D
      BY <1>1, <1>3
  <2>2. /\ SubSeq(s, p + 1, Len(s)) \in Seq(D)
        /\ Len(SubSeq(s, p + 1, Len(s))) = IF p + 1 <= Len(s) THEN Len(s) - (p + 1) + 1 ELSE 0
        /\ \A k \in 1 .. Len(s) - (p + 1) + 1 : SubSeq(s, p + 1, Len(s))[k] = s[(p + 1) + k - 1]
      BY <2>1, SubSeqProperties
  <2>3. ASSUME NEW n \in Nat, NEW q \in 1 .. n
        PROVE  /\ n - (q + 1) + 1 = n - q
               /\ ~(q + 1 <= n) => n - q = 0
      OBVIOUS
  <2>4. \A k \in 1 .. Len(s) - p : (p + 1) + k - 1 = p + k
      BY <1>1, <1>3
  <2> HIDE DEF w
  <2> DEFINE rest == SubSeq(s, p + 1, Len(s))
  <2>5. /\ rest \in Seq(D) /\ Len(rest) = Len(s) - p
        /\ \A k \in 1 .. Len(s) - p : rest[k] = s[(p + 1) + k - 1]
    <3>1. /\ Len(s) - (p + 1) + 1 = Len(s) - p
          /\ ~(p + 1 <= Len(s)) => Len(s) - p = 0
        BY <1>1, <1>3, <2>3
    <3> QED
        BY <2>2, <3>1
  <2> HIDE DEF rest
  <2>6. \A k \in 1 .. Len(s) - p : rest[k] = s[p + k]
      BY <2>4, <2>5
  <2> QED
      BY <2>5, <2>6 DEF rest
<1>7. /\ w \in Seq(D) /\ Len(w) = Len(s) - 1
      /\ \A k \in 1 .. Len(s) - 1 : w[k] = IF k < p THEN s[k] ELSE s[k + 1]
  <2> DEFINE head == SubSeq(s, 1, p - 1)
  <2> DEFINE rest == SubSeq(s, p + 1, Len(s))
  <2>1. /\ head \in Seq(D) /\ Len(head) = p - 1 /\ \A k \in 1 .. p - 1 : head[k] = s[k]
        /\ rest \in Seq(D) /\ Len(rest) = Len(s) - p
        /\ \A k \in 1 .. Len(s) - p : rest[k] = s[p + k]
      BY <1>5, <1>6
  <2>2. w = head \o rest
      OBVIOUS
  <2> HIDE DEF head, rest, w
  <2>0. /\ head \o rest \in Seq(D) /\ Len(head \o rest) = Len(head) + Len(rest)
        /\ \A k \in 1 .. Len(head) + Len(rest) :
             (head \o rest)[k] = IF k <= Len(head) THEN head[k] ELSE rest[k - Len(head)]
      BY <2>1, ConcatProperties
  <2>3. /\ w \in Seq(D) /\ Len(w) = (p - 1) + (Len(s) - p)
        /\ \A k \in 1 .. (p - 1) + (Len(s) - p) :
             w[k] = IF k <= p - 1 THEN head[k] ELSE rest[k - (p - 1)]
      BY <2>0, <2>1, <2>2, Zenon
  <2>4. ASSUME NEW k \in 1 .. Len(s) - 1 PROVE w[k] = IF k < p THEN s[k] ELSE s[k + 1]
    <3>1. CASE k < p
      <4>1. k \in 1 .. p - 1 /\ k <= p - 1 /\ k \in 1 .. (p - 1) + (Len(s) - p)
          BY <1>1, <1>3, <3>1
      <4>2. w[k] = head[k]
          BY <2>3, <4>1
      <4> QED
          BY <2>1, <3>1, <4>1, <4>2
    <3>2. CASE ~(k < p)
      <4>1. /\ k - (p - 1) \in 1 .. Len(s) - p /\ p + (k - (p - 1)) = k + 1
            /\ ~(k <= p - 1) /\ k \in 1 .. (p - 1) + (Len(s) - p)
          BY <1>1, <1>3, <3>2
      <4>2. w[k] = rest[k - (p - 1)]
          BY <2>3, <4>1
      <4> QED
          BY <2>1, <3>2, <4>1, <4>2
    <3> QED
        BY <3>1, <3>2
  <2>5. (p - 1) + (Len(s) - p) = Len(s) - 1
      BY <1>1, <1>3
  <2> QED
      BY <2>3, <2>4, <2>5
<1> HIDE DEF w
<1>8. DOMAIN w = 1 .. Len(s) - 1
    BY <1>7, LenProperties
<1>9. IsInjective(w)
  <2> SUFFICES ASSUME NEW k \in 1 .. Len(s) - 1, NEW l \in 1 .. Len(s) - 1, w[k] = w[l]
               PROVE  k = l
      BY <1>8 DEF IsInjective
  <2> DEFINE at_(n) == IF n < p THEN n ELSE n + 1
  <2>1. \A n \in 1 .. Len(s) - 1 : at_(n) \in 1 .. Len(s) /\ w[n] = s[at_(n)]
    <3> TAKE n \in 1 .. Len(s) - 1
    <3>1. w[n] = s[at_(n)]
        BY <1>7
    <3>2. at_(n) \in 1 .. Len(s)
        BY <1>1, <1>3
    <3> QED
        BY <3>1, <3>2
  <2>2. at_(k) = at_(l)
    <3> HIDE DEF at_
    <3> QED
        BY <1>2, <2>1
  <2> QED
      BY <1>3, <2>2
<1>10. \A y \in S \ {x} : \E k \in DOMAIN w : w[k] = y
  <2> TAKE y \in S \ {x}
  <2>1. PICK k \in 1 .. Len(s) : s[k] = y
      BY <1>2
  <2>2. k # p
      BY <1>3, <2>1
  <2>3. CASE k < p
    <3>1. k \in DOMAIN w /\ w[k] = y
        BY <1>1, <1>3, <1>7, <1>8, <2>1, <2>3
    <3> QED
        BY <3>1
  <2>4. CASE k > p
    <3>1. k - 1 \in 1 .. Len(s) - 1 /\ ~(k - 1 < p) /\ (k - 1) + 1 = k
        BY <1>1, <1>3, <2>4
    <3>2. w[k - 1] = y
        BY <1>7, <2>1, <3>1
    <3> QED
        BY <1>8, <3>1, <3>2
  <2> QED
      BY <1>1, <1>3, <2>2, <2>3, <2>4
<1>11. \A k \in DOMAIN w : w[k] \in S \ {x}
  <2> TAKE k \in DOMAIN w
  <2>1. PICK n \in 1 .. Len(s) : n # p /\ w[k] = s[n]
    <3>1. k \in 1 .. Len(s) - 1
        BY <1>8
    <3>2. CASE k < p
        BY <1>1, <1>3, <1>7, <3>1, <3>2
    <3>3. CASE ~(k < p)
      <4>1. k + 1 \in 1 .. Len(s) /\ k + 1 # p
          BY <1>1, <1>3, <3>1, <3>3
      <4> QED
          BY <1>7, <3>1, <3>3, <4>1
    <3> QED
        BY <3>2, <3>3
  <2> QED
      BY <1>2, <1>3, <2>1
<1>12. Range(w) = S \ {x}
    BY <1>10, <1>11 DEF Range
<1> QED
    BY <1>4, <1>7, <1>9, <1>12 DEF Lists

\* Two more.
LEMMA PairLists ==
    ASSUME NEW D, NEW s \in Seq(D), NEW S, Lists(s, S),
           NEW x \in D, NEW y \in D, x \notin S, y \notin S, x # y
    PROVE  s \o <<x, y>> \in Seq(D) /\ Lists(s \o <<x, y>>, S \union {x, y})
<1>1. Append(s, x) \in Seq(D) /\ Lists(Append(s, x), S \union {x})
    BY AppendLists
<1>2. /\ Append(Append(s, x), y) \in Seq(D)
      /\ Lists(Append(Append(s, x), y), (S \union {x}) \union {y})
  <2>1. y \notin S \union {x}
      OBVIOUS
  <2> HIDE DEF Lists
  <2> QED
      BY <1>1, <2>1, AppendLists
<1>3. s \o <<x, y>> = Append(Append(s, x), y)
    OBVIOUS
<1>4. (S \union {x}) \union {y} = S \union {x, y}
    OBVIOUS
<1> QED
    BY <1>2, <1>3, <1>4

-----------------------------------------------------------------------------
\* Edges and their ends.

\* The ends of an edge.
LEMMA PairEnds ==
    ASSUME NEW p \in Nat, NEW q \in Nat, p # q
    PROVE  /\ {p, q} = {Min({p, q}), Max({p, q})}
           /\ Min({p, q}) # Max({p, q})
<1>1. Min({p, q}) \in {p, q} /\ \A y \in {p, q} : Min({p, q}) <= y
  <2>1. \E x \in {p, q} : \A y \in {p, q} : x <= y
      OBVIOUS
  <2> QED
      BY <2>1 DEF Min
<1>2. Max({p, q}) \in {p, q} /\ \A y \in {p, q} : Max({p, q}) >= y
  <2>1. \E x \in {p, q} : \A y \in {p, q} : x >= y
      OBVIOUS
  <2> QED
      BY <2>1 DEF Max
<1>3. (Min({p, q}) = p /\ Max({p, q}) = q) \/ (Min({p, q}) = q /\ Max({p, q}) = p)
    BY <1>1, <1>2
<1> QED
    BY <1>3

\* Triangles of points only.
Corners == Points \X Points \X Points

\* The edges of a triangle, from one of them and the vertex that is not on it.
LEMMA ThirdVertex ==
    ASSUME NEW tri \in Corners, Proper(tri), NEW u, NEW v, {u, v} \in EdgesOf(tri),
           NEW w \in Range(tri), w \notin {u, v}
    PROVE  /\ u \in Points /\ v \in Points /\ w \in Points
           /\ u # v /\ w # u /\ w # v
           /\ EdgesOf(tri) = {{u, v}, {v, w}, {w, u}}
<1>1. Range(tri) = {tri[1], tri[2], tri[3]}
    BY DEF Range, Corners
<1>2. tri[1] \in Points /\ tri[2] \in Points /\ tri[3] \in Points
    BY DEF Corners
<1>3. EdgesOf(tri) = {{tri[1], tri[2]}, {tri[2], tri[3]}, {tri[3], tri[1]}}
    BY Sides
<1>4. w \in Range(tri) /\ w \notin {u, v}
    OBVIOUS
<1>5. CASE {u, v} = {tri[1], tri[2]}
  <2>1. w = tri[3]
      BY <1>1, <1>4, <1>5
  <2>2. (u = tri[1] /\ v = tri[2]) \/ (u = tri[2] /\ v = tri[1])
      BY <1>5
  <2>3. \/ {v, w} = {tri[2], tri[3]} /\ {w, u} = {tri[3], tri[1]}
        \/ {v, w} = {tri[3], tri[1]} /\ {w, u} = {tri[2], tri[3]}
      BY <2>1, <2>2
  <2> QED
      BY <1>2, <1>3, <1>5, <2>1, <2>2, <2>3 DEF Proper
<1>6. CASE {u, v} = {tri[2], tri[3]}
  <2>1. w = tri[1]
      BY <1>1, <1>4, <1>6
  <2>2. (u = tri[2] /\ v = tri[3]) \/ (u = tri[3] /\ v = tri[2])
      BY <1>6
  <2>3. \/ {v, w} = {tri[3], tri[1]} /\ {w, u} = {tri[1], tri[2]}
        \/ {v, w} = {tri[1], tri[2]} /\ {w, u} = {tri[3], tri[1]}
      BY <2>1, <2>2
  <2> QED
      BY <1>2, <1>3, <1>6, <2>1, <2>2, <2>3 DEF Proper
<1>7. CASE {u, v} = {tri[3], tri[1]}
  <2>1. w = tri[2]
      BY <1>1, <1>4, <1>7
  <2>2. (u = tri[3] /\ v = tri[1]) \/ (u = tri[1] /\ v = tri[3])
      BY <1>7
  <2>3. \/ {v, w} = {tri[1], tri[2]} /\ {w, u} = {tri[2], tri[3]}
        \/ {v, w} = {tri[2], tri[3]} /\ {w, u} = {tri[1], tri[2]}
      BY <2>1, <2>2
  <2> QED
      BY <1>2, <1>3, <1>7, <2>1, <2>2, <2>3 DEF Proper
<1> QED
    BY <1>3, <1>5, <1>6, <1>7

\* Every edge of a triangle has two ends, and a vertex that is not on it.
LEMMA EdgeEnds ==
    ASSUME NEW tri \in Corners, Proper(tri), NEW e \in EdgesOf(tri)
    PROVE  /\ \E u, v \in Points : u # v /\ e = {u, v}
           /\ \E x \in Range(tri) : x \notin e
<1>1. tri[1] \in Points /\ tri[2] \in Points /\ tri[3] \in Points
    BY DEF Corners
<1>2. Range(tri) = {tri[1], tri[2], tri[3]}
    BY DEF Range, Corners
<1> QED
    BY <1>1, <1>2, Sides DEF Proper

\* The six edges between four points.
LEMMA SixEdges ==
    ASSUME NEW u, NEW v, NEW a, NEW b, u # v, a # u, a # v, b # u, b # v, a # b
    PROVE  /\ {u, v} \notin {{v, a}, {a, u}, {u, b}, {b, v}, {a, b}}
           /\ {v, a} \notin {{u, v}, {a, u}, {u, b}, {b, v}, {a, b}}
           /\ {a, u} \notin {{u, v}, {v, a}, {u, b}, {b, v}, {a, b}}
           /\ {u, b} \notin {{u, v}, {v, a}, {a, u}, {b, v}, {a, b}}
           /\ {b, v} \notin {{u, v}, {v, a}, {a, u}, {u, b}, {a, b}}
           /\ {a, b} \notin {{u, v}, {v, a}, {a, u}, {u, b}, {b, v}}
  OBVIOUS

\* An edge is not exchanged for a point.
LEMMA FlipHasTwoSides ==
    ASSUME MeshTypes, NEW u \in Points, NEW v \in Points, NEW a \in Points, NEW b \in Points,
           Flips(u, v, a, b)
    PROVE  a # b
<1> SUFFICES ASSUME a = b PROVE FALSE
    OBVIOUS
<1>1. Orient(XY(u), XY(a), XY(a)) > 0
    BY DEF Flips, OrientXY
<1>2. XY(u) = pts[u] /\ XY(a) = pts[a] /\ pts[u] \in Int \X Int /\ pts[a] \in Int \X Int
  <2>1. Len(pts) \in Nat /\ DOMAIN pts = 1 .. Len(pts)
      BY LenProperties DEF MeshTypes
  <2>2. u \in 1 .. Len(pts) /\ a \in 1 .. Len(pts)
      BY DEF Points
  <2>3. pts[u] \in Int \X Int /\ pts[a] \in Int \X Int
      BY <2>1, <2>2, ElementOfSeq DEF MeshTypes
  <2> QED
      BY <2>1, <2>2, <2>3 DEF XY, IsSuper
<1>3. PICK x \in Int, y \in Int : x = pts[a][1] - pts[u][1] /\ y = pts[a][2] - pts[u][2]
    BY <1>2
<1>4. x * y - y * x > 0
    BY <1>1, <1>2, <1>3 DEF Orient
<1> QED
    BY <1>3, <1>4

\* The triangles, of those of f, that have an edge.
With(f, x) == {t \in DOMAIN f : x \in EdgesOf(f[t])}

\* What the flips keep, and Finalize establishes.
FlipInv ==
    /\ final \in Seq(Corners)
    /\ \A t \in DOMAIN final : Proper(final[t])
    /\ \A x \in DOMAIN inc : inc[x] \in Seq(DOMAIN final)
    /\ heap \subseteq SUBSET Points /\ flips \in 0 .. Cap
    /\ IncidenceIsRight
    /\ NothingLeftToFlip

\* IncidenceIsRight, edge by edge.
LEMMA IncidenceIs ==
    IncidenceIsRight <=> /\ \A x : x \in DOMAIN inc <=> With(final, x) # {}
                         /\ \A x \in DOMAIN inc : Lists(inc[x], With(final, x))
<1>1. DOMAIN inc = UNION {EdgesOf(final[t]) : t \in DOMAIN final}
      <=> \A x : x \in DOMAIN inc <=> With(final, x) # {}
  <2>1. \A x : x \in UNION {EdgesOf(final[t]) : t \in DOMAIN final} <=> With(final, x) # {}
      BY DEF With
  <2> QED
      BY <2>1
<1> QED
    BY <1>1 DEF IncidenceIsRight, Lists, With

-----------------------------------------------------------------------------
\* The exchange of an edge, and the triangles.

\* The triangles t1 and t2 of an edge e from u to v, and the points opposite.
Facing(e, u, v, a, b, t1, t2) ==
    /\ t1 \in DOMAIN final /\ t2 \in DOMAIN final /\ t1 # t2
    /\ With(final, e) = {t1, t2}
    /\ u \in Points /\ v \in Points /\ a \in Points /\ b \in Points
    /\ e = Edge(u, v) /\ u # v /\ a # u /\ a # v /\ b # u /\ b # v
    /\ EdgesOf(final[t1]) = {Edge(u, v), Edge(v, a), Edge(a, u)}
    /\ EdgesOf(final[t2]) = {Edge(u, v), Edge(b, v), Edge(u, b)}

\* An edge with two triangles is between two points, and faces two.
LEMMA TwoTriangles ==
    ASSUME MeshTypes, FlipInv, NEW e, HasTwo(e)
    PROVE  Facing(e, Min(e), Max(e), Third(e, 1), Third(e, 2), inc[e][1], inc[e][2])
<1> DEFINE u == Min(e)
<1> DEFINE v == Max(e)
<1> DEFINE a == Third(e, 1)
<1> DEFINE b == Third(e, 2)
<1> DEFINE t1 == inc[e][1]
<1> DEFINE t2 == inc[e][2]
<1>1. e \in DOMAIN inc /\ Len(inc[e]) = 2 /\ inc[e] \in Seq(DOMAIN final)
    BY DEF HasTwo, FlipInv
<1>2. Lists(inc[e], With(final, e))
    BY <1>1, IncidenceIs DEF FlipInv
<1>3. DOMAIN inc[e] = {1, 2} /\ t1 \in DOMAIN final /\ t2 \in DOMAIN final
  <2>1. DOMAIN inc[e] = 1 .. Len(inc[e])
      BY <1>1, LenProperties
  <2> QED
      BY <1>1, <2>1, ElementOfSeq
<1>4. t1 # t2 /\ With(final, e) = {t1, t2}
    BY <1>2, <1>3 DEF Lists, IsInjective, Range
<1>5. /\ e \in EdgesOf(final[t1]) /\ e \in EdgesOf(final[t2])
      /\ final[t1] \in Corners /\ Proper(final[t1])
      /\ final[t2] \in Corners /\ Proper(final[t2])
  <2>1. DOMAIN final = 1 .. Len(final)
      BY LenProperties DEF FlipInv
  <2> QED
      BY <1>3, <1>4, <2>1, ElementOfSeq DEF With, FlipInv
<1>6. /\ a = CHOOSE x \in Range(final[t1]) : x \notin e
      /\ b = CHOOSE x \in Range(final[t2]) : x \notin e
    BY DEF Third
<1> HIDE DEF a, b, t1, t2
<1>7. e = {u, v}
  <2>1. PICK p \in Points, q \in Points : p # q /\ e = {p, q}
      BY <1>5, EdgeEnds
  <2>2. p \in Nat /\ q \in Nat
    <3>1. Len(pts) \in Nat
        BY LenProperties DEF MeshTypes
    <3> QED
        BY <3>1 DEF Points
  <2> QED
      BY <2>1, <2>2, PairEnds
<1> HIDE DEF u, v
<1>8. /\ u \in Points /\ v \in Points /\ a \in Points
      /\ u # v /\ a # u /\ a # v
      /\ EdgesOf(final[t1]) = {{u, v}, {v, a}, {a, u}}
  <2>1. {u, v} \in EdgesOf(final[t1]) /\ final[t1] \in Corners /\ Proper(final[t1])
      BY <1>5, <1>7
  <2>2. a \in Range(final[t1]) /\ a \notin {u, v}
    <3>1. \E x \in Range(final[t1]) : x \notin e
        BY <1>5, EdgeEnds
    <3> QED
        BY <1>6, <1>7, <3>1
  <2> QED
      BY <2>1, <2>2, ThirdVertex
<1>9. /\ u \in Points /\ v \in Points /\ b \in Points
      /\ u # v /\ b # u /\ b # v
      /\ EdgesOf(final[t2]) = {{u, v}, {v, b}, {b, u}}
  <2>1. {u, v} \in EdgesOf(final[t2]) /\ final[t2] \in Corners /\ Proper(final[t2])
      BY <1>5, <1>7
  <2>2. b \in Range(final[t2]) /\ b \notin {u, v}
    <3>1. \E x \in Range(final[t2]) : x \notin e
        BY <1>5, EdgeEnds
    <3> QED
        BY <1>6, <1>7, <3>1
  <2> QED
      BY <2>1, <2>2, ThirdVertex
<1> QED
    BY <1>3, <1>4, <1>7, <1>8, <1>9 DEF u, v, a, b, t1, t2, Facing, Edge

\* What an exchange does to the triangles, and to which of them have an edge.
Exchanged(u, v, a, b, t1, t2) ==
    /\ final' \in Seq(Corners) /\ DOMAIN final' = DOMAIN final
    /\ \A t \in DOMAIN final' : Proper(final'[t])
    /\ \A t \in DOMAIN final \ {t1, t2} : final'[t] = final[t]
    /\ t1 \in With(final, Edge(v, a)) /\ t2 \notin With(final, Edge(v, a))
    /\ t2 \in With(final, Edge(u, b)) /\ t1 \notin With(final, Edge(u, b))
    /\ t1 \notin With(final, Edge(a, b)) /\ t2 \notin With(final, Edge(a, b))
    /\ Edge(v, a) # Edge(u, b) /\ Edge(v, a) # Edge(a, b) /\ Edge(u, b) # Edge(a, b)
    /\ Edge(u, v) \notin {Edge(v, a), Edge(u, b), Edge(a, b)}
    /\ \A x : x = Edge(v, a) => With(final', x) = (With(final, x) \ {t1}) \union {t2}
    /\ \A x : x = Edge(u, b) => With(final', x) = (With(final, x) \union {t1}) \ {t2}
    /\ \A x : x = Edge(a, b) => With(final', x) = With(final, x) \union {t1, t2}
    /\ \A x : x = Edge(u, v) => With(final', x) = {}
    /\ \A x : x \notin {Edge(v, a), Edge(u, b), Edge(a, b), Edge(u, v)} =>
         With(final', x) = With(final, x)

\* The exchange, for any four points: the triangles and their edges.
LEMMA ExchangeTriangles ==
    ASSUME FlipInv, NEW e, NEW u, NEW v, NEW a, NEW b, NEW t1, NEW t2,
           Facing(e, u, v, a, b, t1, t2), a # b,
           final' = [final EXCEPT ![t1] = <<u, b, a>>, ![t2] = <<b, v, a>>]
    PROVE  Exchanged(u, v, a, b, t1, t2)
<1>0. /\ t1 \in DOMAIN final /\ t2 \in DOMAIN final /\ t1 # t2
      /\ u \in Points /\ v \in Points /\ a \in Points /\ b \in Points
      /\ u # v /\ a # u /\ a # v /\ b # u /\ b # v /\ With(final, {u, v}) = {t1, t2}
      /\ EdgesOf(final[t1]) = {{u, v}, {v, a}, {a, u}}
      /\ EdgesOf(final[t2]) = {{u, v}, {v, b}, {b, u}}
    BY DEF Facing, Edge
<1>1. /\ final \in Seq(Corners) /\ DOMAIN final = 1 .. Len(final) /\ Len(final) \in Nat
      /\ \A t \in DOMAIN final : Proper(final[t])
    BY LenProperties DEF FlipInv
<1>2. /\ final' \in Seq(Corners) /\ DOMAIN final' = DOMAIN final
      /\ \A t \in DOMAIN final \ {t1, t2} : final'[t] = final[t]
      /\ final'[t1] = <<u, b, a>> /\ final'[t2] = <<b, v, a>>
  <2>1. <<u, b, a>> \in Corners /\ <<b, v, a>> \in Corners
      BY <1>0 DEF Corners
  <2> DEFINE g == [final EXCEPT ![t1] = <<u, b, a>>]
  <2>2. g \in Seq(Corners) /\ DOMAIN g = DOMAIN final
      BY <1>0, <1>1, <2>1
  <2>3. [g EXCEPT ![t2] = <<b, v, a>>] \in Seq(Corners)
    <3> HIDE DEF g
    <3> QED
        BY <1>0, <1>1, <2>1, <2>2
  <2> QED
      BY <1>0, <1>1, <2>2, <2>3
<1>3. /\ EdgesOf(final'[t1]) = {{u, b}, {a, b}, {a, u}} /\ Proper(final'[t1])
      /\ EdgesOf(final'[t2]) = {{b, v}, {v, a}, {a, b}} /\ Proper(final'[t2])
  <2>1. {b, a} = {a, b}
      OBVIOUS
  <2>2. ASSUME NEW x, NEW y, NEW z, x # y, y # z, z # x
        PROVE  EdgesOf(<<x, y, z>>) = {{x, y}, {y, z}, {z, x}} /\ Proper(<<x, y, z>>)
    <3>1. <<x, y, z>>[1] = x /\ <<x, y, z>>[2] = y /\ <<x, y, z>>[3] = z
        OBVIOUS
    <3> QED
        BY <2>2, <3>1, Sides DEF Proper
  <2>3. EdgesOf(<<u, b, a>>) = {{u, b}, {b, a}, {a, u}} /\ Proper(<<u, b, a>>)
      BY <1>0, <2>2
  <2>4. EdgesOf(<<b, v, a>>) = {{b, v}, {v, a}, {a, b}} /\ Proper(<<b, v, a>>)
      BY <1>0, <2>2
  <2> QED
      BY <1>2, <2>1, <2>3, <2>4
<1>4. \A t \in DOMAIN final' : Proper(final'[t])
    BY <1>1, <1>2, <1>3
<1>5. /\ {u, v} \notin {{v, a}, {a, u}, {u, b}, {b, v}, {a, b}}
      /\ {v, a} \notin {{u, v}, {a, u}, {u, b}, {b, v}, {a, b}}
      /\ {a, u} \notin {{u, v}, {v, a}, {u, b}, {b, v}, {a, b}}
      /\ {u, b} \notin {{u, v}, {v, a}, {a, u}, {b, v}, {a, b}}
      /\ {b, v} \notin {{u, v}, {v, a}, {a, u}, {u, b}, {a, b}}
      /\ {a, b} \notin {{u, v}, {v, a}, {a, u}, {u, b}, {b, v}}
    BY <1>0, SixEdges
<1>6. {v, b} = {b, v} /\ {b, u} = {u, b}
    OBVIOUS
<1>7. \A x : \A t \in DOMAIN final : t \in With(final, x) <=> x \in EdgesOf(final[t])
    BY DEF With
<1>8. \A x : \A t \in DOMAIN final : t \in With(final', x) <=> x \in EdgesOf(final'[t])
  <2>1. \A x : With(final', x) = {t \in DOMAIN final' : x \in EdgesOf(final'[t])}
      BY DEF With, EdgesOf, EdgeOf, Edge, Nxt
  <2> QED
      BY <1>2 DEF With
<1>9. \A x : With(final, x) \subseteq DOMAIN final /\ With(final', x) \subseteq DOMAIN final
  <2>1. \A x : With(final', x) \subseteq DOMAIN final'
      BY DEF With
  <2> QED
      BY <1>2, <2>1 DEF With
<1>10. \A x : \A t \in DOMAIN final \ {t1, t2} : t \in With(final', x) <=> t \in With(final, x)
    BY <1>2, <1>7, <1>8
<1> DEFINE ed1 == {{u, v}, {v, a}, {a, u}}
<1> DEFINE ed2 == {{u, v}, {b, v}, {u, b}}
<1> DEFINE ed1n == {{u, b}, {a, b}, {a, u}}
<1> DEFINE ed2n == {{b, v}, {v, a}, {a, b}}
<1>11. \A x : /\ t1 \in With(final, x) <=> x \in ed1
              /\ t2 \in With(final, x) <=> x \in ed2
              /\ t1 \in With(final', x) <=> x \in ed1n
              /\ t2 \in With(final', x) <=> x \in ed2n
    BY <1>0, <1>2, <1>3, <1>6, <1>7, <1>8
<1>12. \A x : x \notin {{v, a}, {u, b}, {a, b}, {u, v}} =>
                 (x \in ed1 <=> x \in ed1n) /\ (x \in ed2 <=> x \in ed2n)
    OBVIOUS
<1>13. /\ {v, a} \in ed1 /\ {v, a} \notin ed2 /\ {v, a} \notin ed1n /\ {v, a} \in ed2n
       /\ {u, b} \notin ed1 /\ {u, b} \in ed2 /\ {u, b} \in ed1n /\ {u, b} \notin ed2n
       /\ {a, b} \notin ed1 /\ {a, b} \notin ed2 /\ {a, b} \in ed1n /\ {a, b} \in ed2n
       /\ {u, v} \notin ed1n /\ {u, v} \notin ed2n
    BY <1>5
<1>14. /\ {v, a} # {u, b} /\ {v, a} # {a, b} /\ {u, b} # {a, b}
       /\ {u, v} \notin {{v, a}, {u, b}, {a, b}}
    BY <1>5
<1> HIDE DEF ed1, ed2, ed1n, ed2n
<1>15. \A x : x \notin {{v, a}, {u, b}, {a, b}, {u, v}} => With(final', x) = With(final, x)
  <2> SUFFICES ASSUME NEW x, x \notin {{v, a}, {u, b}, {a, b}, {u, v}} PROVE With(final', x) = With(final, x)
      OBVIOUS
  <2>1. \A t \in DOMAIN final : t \in With(final', x) <=> t \in With(final, x)
      BY <1>10, <1>11, <1>12
  <2> QED
      BY <1>9, <2>1
<1>16. ASSUME NEW x, x = {v, a} PROVE With(final', x) = (With(final, x) \ {t1}) \union {t2}
  <2>1. \A t \in DOMAIN final : t \in With(final', x) <=> t \in (With(final, x) \ {t1}) \union {t2}
      BY <1>10, <1>11, <1>13, <1>16
  <2>2. With(final', x) \subseteq DOMAIN final /\ (With(final, x) \ {t1}) \union {t2} \subseteq DOMAIN final
      BY <1>0, <1>9
  <2> QED
      BY <2>1, <2>2
<1>17. ASSUME NEW x, x = {u, b} PROVE With(final', x) = (With(final, x) \union {t1}) \ {t2}
  <2>1. \A t \in DOMAIN final : t \in With(final', x) <=> t \in (With(final, x) \union {t1}) \ {t2}
      BY <1>10, <1>11, <1>13, <1>17
  <2>2. With(final', x) \subseteq DOMAIN final /\ (With(final, x) \union {t1}) \ {t2} \subseteq DOMAIN final
      BY <1>0, <1>9
  <2> QED
      BY <2>1, <2>2
<1>18. ASSUME NEW x, x = {a, b} PROVE With(final', x) = With(final, x) \union {t1, t2}
  <2>1. \A t \in DOMAIN final : t \in With(final', x) <=> t \in With(final, x) \union {t1, t2}
      BY <1>10, <1>11, <1>13, <1>18
  <2>2. With(final', x) \subseteq DOMAIN final /\ With(final, x) \union {t1, t2} \subseteq DOMAIN final
      BY <1>0, <1>9
  <2> QED
      BY <2>1, <2>2
<1>19. ASSUME NEW x, x = {u, v} PROVE With(final', x) = {}
  <2>1. t1 \notin With(final', x) /\ t2 \notin With(final', x)
      BY <1>11, <1>13, <1>19
  <2>2. \A t \in DOMAIN final \ {t1, t2} : t \notin With(final', x)
      BY <1>0, <1>10, <1>19
  <2> QED
      BY <1>9, <2>1, <2>2
<1>20. /\ t1 \in With(final, {v, a}) /\ t2 \notin With(final, {v, a})
       /\ t2 \in With(final, {u, b}) /\ t1 \notin With(final, {u, b})
       /\ t1 \notin With(final, {a, b}) /\ t2 \notin With(final, {a, b})
    BY <1>11, <1>13
<1> QED
    BY <1>2, <1>4, <1>14, <1>15, <1>16, <1>17, <1>18, <1>19, <1>20 DEF Edge, Exchanged

\* The predicate that decides about an edge reads nothing but the points.
LEMMA FlipsSame ==
    ASSUME UNCHANGED points, NEW u, NEW v, NEW a, NEW b
    PROVE  Flips(u, v, a, b)' <=> Flips(u, v, a, b)
<1>1. pts' = pts /\ coords' = coords
    BY DEF points
<1>2. XY(u)' = XY(u) /\ XY(v)' = XY(v) /\ XY(a)' = XY(a) /\ XY(b)' = XY(b)
    BY <1>1 DEF XY, IsSuper
<1> QED
    BY <1>2 DEF Flips, OrientXY, Closer

\* The edge need not be flipped.
Settled(x) == HasTwo(x) => ~Flips(Min(x), Max(x), Third(x, 1), Third(x, 2))

\* An edge whose list is the same, and whose triangles are, is as settled as before.
LEMMA SettledSame ==
    ASSUME UNCHANGED points, FlipInv, NEW x \in DOMAIN inc, x \in DOMAIN inc', inc'[x] = inc[x],
           \A t \in With(final, x) : final'[t] = final[t]
    PROVE  Settled(x)' <=> Settled(x)
<1>1. HasTwo(x)' <=> HasTwo(x)
    BY DEF HasTwo
<1>2. CASE ~HasTwo(x)
    BY <1>1, <1>2 DEF Settled
<1>3. CASE HasTwo(x)
  <2>1. inc[x][1] \in With(final, x) /\ inc[x][2] \in With(final, x)
    <3>1. Lists(inc[x], With(final, x)) /\ inc[x] \in Seq(DOMAIN final) /\ Len(inc[x]) = 2
        BY <1>3, IncidenceIs DEF FlipInv, HasTwo
    <3>2. DOMAIN inc[x] = 1 .. 2
        BY <3>1, LenProperties
    <3>3. 1 \in DOMAIN inc[x] /\ 2 \in DOMAIN inc[x]
        BY <3>2
    <3> QED
        BY <3>1, <3>3 DEF Lists, Range
  <2>2. Third(x, 1)' = Third(x, 1) /\ Third(x, 2)' = Third(x, 2)
      BY <2>1 DEF Third
  <2>3. PICK a, b : a = Third(x, 1) /\ b = Third(x, 2)
      OBVIOUS
  <2>4. Flips(Min(x), Max(x), a, b)' <=> Flips(Min(x), Max(x), a, b)
      BY FlipsSame
  <2>5. Settled(x)' <=> ~Flips(Min(x), Max(x), a, b)'
      BY <1>1, <1>3, <2>2, <2>3 DEF Settled
  <2> QED
      BY <1>3, <2>3, <2>4, <2>5 DEF Settled
<1> QED
    BY <1>2, <1>3

\* The lists after an exchange are those of the new triangles.
LEMMA ExchangeLists ==
    ASSUME MeshTypes, FlipInv, NEW e, HasTwo(e),
           Flips(Min(e), Max(e), Third(e, 1), Third(e, 2)),
           Exchange(e, Min(e), Max(e), Third(e, 1), Third(e, 2)),
           flips < Cap, UNCHANGED points
    PROVE  FlipInv'
<1>0. PICK u, v, a, b, t1, t2 :
        /\ u = Min(e) /\ v = Max(e) /\ a = Third(e, 1) /\ b = Third(e, 2)
        /\ t1 = inc[e][1] /\ t2 = inc[e][2]
    OBVIOUS
<1> DEFINE D == DOMAIN final
<1>1. Facing(e, u, v, a, b, t1, t2)
    BY <1>0, TwoTriangles
<1>2. /\ t1 \in D /\ t2 \in D /\ t1 # t2
      /\ With(final, e) = {t1, t2}
      /\ u \in Points /\ v \in Points /\ a \in Points /\ b \in Points
      /\ e = Edge(u, v) /\ u # v /\ a # u /\ a # v /\ b # u /\ b # v
      /\ EdgesOf(final[t1]) = {Edge(u, v), Edge(v, a), Edge(a, u)}
      /\ EdgesOf(final[t2]) = {Edge(u, v), Edge(b, v), Edge(u, b)}
    BY <1>1 DEF Facing
<1>3. a # b
    BY <1>0, <1>2, FlipHasTwoSides
<1>4. /\ final' = [final EXCEPT ![t1] = <<u, b, a>>, ![t2] = <<b, v, a>>]
      /\ DOMAIN inc' = (DOMAIN inc \ {e}) \union {Edge(a, b)}
      /\ \A x \in (DOMAIN inc \ {e}) \union {Edge(a, b)} :
           inc'[x] = CASE x = Edge(v, a) -> Append(Without(inc[x], t1), t2)
                       [] x = Edge(u, b) -> Without(Append(inc[x], t1), t2)
                       [] x = Edge(a, b) -> (IF x \in DOMAIN inc THEN inc[x] ELSE <<>>) \o <<t1, t2>>
                       [] OTHER -> inc[x]
      /\ heap' = (heap \ {e}) \union {Edge(u, b), Edge(b, v), Edge(v, a), Edge(a, u), Edge(a, b)}
      /\ flips' = flips + 1
  <2>1. Exchange(e, u, v, a, b)
      BY <1>0
  <2>2. /\ final' = [final EXCEPT ![inc[e][1]] = <<u, b, a>>, ![inc[e][2]] = <<b, v, a>>]
        /\ inc' = [x \in (DOMAIN inc \ {e}) \union {Edge(a, b)} |->
             CASE x = Edge(v, a) -> Append(Without(inc[x], inc[e][1]), inc[e][2])
               [] x = Edge(u, b) -> Without(Append(inc[x], inc[e][1]), inc[e][2])
               [] x = Edge(a, b) -> (IF x \in DOMAIN inc THEN inc[x] ELSE <<>>) \o <<inc[e][1], inc[e][2]>>
               [] OTHER -> inc[x]]
        /\ heap' = (heap \ {e}) \union {Edge(u, b), Edge(b, v), Edge(v, a), Edge(a, u), Edge(a, b)}
        /\ flips' = flips + 1
      BY <2>1, Zenon DEF Exchange, Suspects, Edge
  <2> QED
      BY <1>0, <2>2
<1>5. /\ \A x : x \in DOMAIN inc <=> With(final, x) # {}
      /\ \A x \in DOMAIN inc : inc[x] \in Seq(D) /\ Lists(inc[x], With(final, x))
      /\ heap \subseteq SUBSET Points /\ flips \in 0 .. Cap
      /\ \A x \in DOMAIN inc \ heap : Settled(x)
    BY IncidenceIs DEF FlipInv, NothingLeftToFlip, Settled
<1>6. /\ final' \in Seq(Corners) /\ DOMAIN final' = D
      /\ \A t \in DOMAIN final' : Proper(final'[t])
      /\ \A t \in D \ {t1, t2} : final'[t] = final[t]
      /\ t1 \in With(final, Edge(v, a)) /\ t2 \notin With(final, Edge(v, a))
      /\ t2 \in With(final, Edge(u, b)) /\ t1 \notin With(final, Edge(u, b))
      /\ t1 \notin With(final, Edge(a, b)) /\ t2 \notin With(final, Edge(a, b))
      /\ Edge(v, a) # Edge(u, b) /\ Edge(v, a) # Edge(a, b) /\ Edge(u, b) # Edge(a, b)
      /\ Edge(u, v) \notin {Edge(v, a), Edge(u, b), Edge(a, b)}
      /\ \A x : x = Edge(v, a) => With(final', x) = (With(final, x) \ {t1}) \union {t2}
      /\ \A x : x = Edge(u, b) => With(final', x) = (With(final, x) \union {t1}) \ {t2}
      /\ \A x : x = Edge(a, b) => With(final', x) = With(final, x) \union {t1, t2}
      /\ \A x : x = Edge(u, v) => With(final', x) = {}
      /\ \A x : x \notin {Edge(v, a), Edge(u, b), Edge(a, b), Edge(u, v)} => With(final', x) = With(final, x)
  <2>1. final' = [final EXCEPT ![t1] = <<u, b, a>>, ![t2] = <<b, v, a>>]
      BY <1>4
  <2>2. Exchanged(u, v, a, b, t1, t2)
      BY <1>1, <1>3, <2>1, ExchangeTriangles
  <2> QED
      BY <2>2 DEF Exchanged
<1> HIDE DEF D
<1>7. Edge(v, a) \in DOMAIN inc \ {e} /\ Edge(u, b) \in DOMAIN inc \ {e}
    BY <1>2, <1>5, <1>6
<1>8. DOMAIN inc' = (DOMAIN inc \ {e}) \union {Edge(a, b)}
    BY <1>4
<1>9. ASSUME NEW x, x = Edge(v, a) PROVE inc'[x] \in Seq(D) /\ Lists(inc'[x], With(final', x))
  <2> DEFINE w == Without(inc[x], t1)
  <2>1. w \in Seq(D) /\ Lists(w, With(final, x) \ {t1})
      BY <1>9, <1>5, <1>6, <1>7, WithoutLists
  <2> HIDE DEF w
  <2>2. Append(w, t2) \in Seq(D) /\ Lists(Append(w, t2), (With(final, x) \ {t1}) \union {t2})
    <3>1. t2 \in D /\ t2 \notin With(final, x) \ {t1}
        BY <1>9, <1>2, <1>6
    <3> QED
        BY <2>1, <3>1, AppendLists
  <2>3. inc'[x] = Append(w, t2)
      BY <1>4, <1>6, <1>7, <1>9 DEF w
  <2> QED
      BY <1>9, <1>6, <2>2, <2>3
<1>10. ASSUME NEW x, x = Edge(u, b) PROVE inc'[x] \in Seq(D) /\ Lists(inc'[x], With(final', x))
  <2> DEFINE w == Append(inc[x], t1)
  <2>1. w \in Seq(D) /\ Lists(w, With(final, x) \union {t1})
      BY <1>10, <1>2, <1>5, <1>6, <1>7, AppendLists
  <2> HIDE DEF w
  <2>2. Without(w, t2) \in Seq(D) /\ Lists(Without(w, t2), (With(final, x) \union {t1}) \ {t2})
    <3>1. t2 \in With(final, x) \union {t1}
        BY <1>10, <1>6
    <3> QED
        BY <2>1, <3>1, WithoutLists
  <2>3. inc'[x] = Without(w, t2)
      BY <1>10, <1>4, <1>6, <1>7 DEF w
  <2> QED
      BY <1>10, <1>6, <2>2, <2>3
<1>11. ASSUME NEW x, x = Edge(a, b) PROVE inc'[x] \in Seq(D) /\ Lists(inc'[x], With(final', x))
  <2> DEFINE w == IF x \in DOMAIN inc THEN inc[x] ELSE <<>>
  <2>1. w \in Seq(D) /\ Lists(w, With(final, x))
    <3>1. CASE x \in DOMAIN inc
        BY <1>11, <1>5, <3>1
    <3>2. CASE x \notin DOMAIN inc
      <4>1. w = <<>> /\ With(final, x) = {}
          BY <1>11, <1>5, <3>2
      <4>2. <<>> \in Seq(D) /\ DOMAIN <<>> = {}
          OBVIOUS
      <4>3. Lists(<<>>, {})
          BY <4>2 DEF Lists, IsInjective, Range
      <4> QED
          BY <4>1, <4>2, <4>3
    <3> QED
        BY <3>1, <3>2
  <2> HIDE DEF w
  <2>2. /\ w \o <<t1, t2>> \in Seq(D)
        /\ Lists(w \o <<t1, t2>>, With(final, x) \union {t1, t2})
      BY <1>11, <1>2, <1>6, <2>1, PairLists DEF D
  <2>3. inc'[x] = w \o <<t1, t2>>
      BY <1>11, <1>4, <1>6 DEF w
  <2> QED
      BY <1>11, <1>6, <2>2, <2>3
<1>12. ASSUME NEW x \in DOMAIN inc', x \notin {Edge(v, a), Edge(u, b), Edge(a, b)}
       PROVE  x \in DOMAIN inc /\ x # e /\ inc'[x] = inc[x] /\ With(final', x) = With(final, x)
  <2>1. x \in DOMAIN inc /\ x # e
      BY <1>8, <1>12
  <2>2. inc'[x] = inc[x]
      BY <1>4, <1>8, <1>12
  <2>3. With(final', x) = With(final, x)
      BY <1>2, <1>6, <1>12, <2>1
  <2> QED
      BY <2>1, <2>2, <2>3
<1>13. \A x \in DOMAIN inc' : inc'[x] \in Seq(D) /\ Lists(inc'[x], With(final', x))
  <2> TAKE x \in DOMAIN inc'
  <2>1. CASE x = Edge(v, a)
      BY <1>9, <2>1
  <2>2. CASE x = Edge(u, b)
      BY <1>10, <2>2
  <2>3. CASE x = Edge(a, b)
      BY <1>11, <2>3
  <2>4. CASE x \notin {Edge(v, a), Edge(u, b), Edge(a, b)}
      BY <1>5, <1>12, <2>4
  <2> QED
      BY <2>1, <2>2, <2>3, <2>4
<1>14. \A x : x \in DOMAIN inc' <=> With(final', x) # {}
  <2> TAKE x
  <2>1. CASE x \in {Edge(v, a), Edge(u, b), Edge(a, b)}
    <3>1. x \in DOMAIN inc'
        BY <1>7, <1>8, <2>1
    <3>2. With(final', x) # {}
        BY <2>1,  <1>2, <1>6
    <3> QED
        BY <2>1, <3>1, <3>2
  <2>2. CASE x = e
    <3>1. x \notin DOMAIN inc'
        BY <1>2, <1>6, <1>8, <2>2
    <3>2. With(final', x) = {}
        BY <1>2, <1>6, <2>2
    <3> QED
        BY <3>1, <3>2
  <2>3. CASE x \notin {Edge(v, a), Edge(u, b), Edge(a, b), e}
    <3>1. With(final', x) = With(final, x)
        BY <1>2, <1>6, <2>3
    <3> QED
        BY <1>5, <1>8, <2>3, <3>1
  <2> QED
      BY <2>1, <2>2, <2>3
<1>15. IncidenceIsRight'
  <2>1. IncidenceIsRight' <=> /\ \A x : x \in DOMAIN inc' <=> With(final', x) # {}
                              /\ \A x \in DOMAIN inc' : Lists(inc'[x], With(final', x))
    <3>1. DOMAIN inc' = UNION {EdgesOf(final'[t]) : t \in DOMAIN final'}
          <=> \A x : x \in DOMAIN inc' <=> With(final', x) # {}
      <4>1. \A x : With(final', x) = {t \in DOMAIN final' : x \in EdgesOf(final'[t])}
          BY DEF With, EdgesOf, EdgeOf, Edge, Nxt
      <4>2. \A x : x \in UNION {EdgesOf(final'[t]) : t \in DOMAIN final'} <=> With(final', x) # {}
          BY <4>1
      <4> QED
          BY <4>2
    <3> QED
        BY <3>1 DEF IncidenceIsRight, Lists, With
  <2> QED
      BY <1>13, <1>14, <2>1
<1>16. NothingLeftToFlip'
  <2>1. ASSUME NEW x \in DOMAIN inc' \ heap' PROVE Settled(x)'
    <3>1. x \notin {Edge(u, b), Edge(b, v), Edge(v, a), Edge(a, u), Edge(a, b)} /\ (x \in heap => x = e)
        BY <1>4, <2>1
    <3>2. x \in DOMAIN inc /\ x # e /\ inc'[x] = inc[x]
        BY <1>12, <2>1, <3>1
    <3>3. Settled(x)
        BY <1>5, <3>1, <3>2
    <3>4. \A t \in With(final, x) : final'[t] = final[t]
      <4>1. t1 \notin With(final, x) /\ t2 \notin With(final, x)
        <5>1. x \notin {Edge(u, v), Edge(v, a), Edge(a, u)} /\ x \notin {Edge(u, v), Edge(b, v), Edge(u, b)}
            BY <1>2, <3>1, <3>2
        <5> QED
            BY <1>2, <5>1 DEF With
      <4> QED
          BY <1>6, <4>1 DEF With, D
    <3> QED
        BY <2>1, <3>2, <3>3, <3>4, SettledSame
  <2> QED
      BY <2>1 DEF NothingLeftToFlip, Settled
<1>17. heap' \subseteq SUBSET Points
    BY <1>2, <1>4, <1>5 DEF Edge
<1>18. Points' = Points /\ Corners' = Corners /\ Cap' = Cap
    BY DEF points, Points, Corners, Cap
<1>19. flips' \in 0 .. Cap'
  <2>1. Cap \in Nat
    <3>1. Len(pts) \in Nat
        BY LenProperties DEF MeshTypes
    <3> QED
        BY <3>1 DEF Cap
  <2> QED
      BY <1>4, <1>5, <1>18, <2>1
<1> QED
    BY <1>6, <1>13, <1>15, <1>16, <1>17, <1>18, <1>19 DEF FlipInv

-----------------------------------------------------------------------------
\* The flips, step by step.

\* Without final triangles there are no edges.
LEMMA FlipInit ==
    ASSUME Len(pts) \in Nat, final = <<>>, inc = <<>>, heap = {}, flips = 0
    PROVE  FlipInv
<1>1. DOMAIN final = {} /\ final \in Seq(Corners) /\ DOMAIN inc = {}
    BY DEF Corners
<1>2. flips \in 0 .. Cap
    BY DEF Cap
<1>3. IncidenceIsRight
    BY <1>1 DEF IncidenceIsRight
<1>4. NothingLeftToFlip
    BY <1>1 DEF NothingLeftToFlip
<1> QED
    BY <1>1, <1>2, <1>3, <1>4 DEF FlipInv

\* What remains of the mesh, with every edge on the heap.
LEMMA FinalizeLists ==
    ASSUME MeshInv, FlipInv, Finalize
    PROVE  FlipInv'
<1> DEFINE S == {t \in Alive : Remains(t)}
<1> DEFINE kept == Ascending(S)
<1> DEFINE W(e) == {j \in DOMAIN kept : e \in EdgesOf(tris[kept[j]])}
<1>1. /\ phase = "insert"
      /\ final' = [j \in DOMAIN kept |-> tris[kept[j]]]
      /\ heap' = UNION {EdgesOf(tris[t]) : t \in Range(kept)}
      /\ inc' = [e \in heap' |-> Ascending(W(e))]
      /\ UNCHANGED <<points, flips>>
    BY Zenon DEF Finalize
<1>2. Len(pts) \in Nat /\ DOMAIN tris = 1 .. Len(tris) /\ Len(tris) \in Nat
    BY LenProperties DEF MeshInv, MeshTypes
<1>3. S \in SUBSET Int /\ IsFiniteSet(S) /\ S \subseteq DOMAIN tris
  <2>1. S \in SUBSET (1 .. Len(tris)) /\ IsFiniteSet(1 .. Len(tris))
      BY <1>2, FS_Interval DEF Alive
  <2>2. 1 .. Len(tris) \subseteq Int
      BY <1>2
  <2> HIDE DEF S
  <2> QED
      BY <1>2, <2>1, <2>2, FS_Subset
<1>4. \A t \in S : tris[t] \in Corners /\ Proper(tris[t])
  <2> TAKE t \in S
  <2>1. Remains(t) /\ t \in DOMAIN tris
      BY <1>3
  <2>2. tris[t] \in Triple /\ Proper(tris[t])
      BY <1>1, <1>2, <2>1, ElementOfSeq DEF MeshInv, MeshTypes, VertexInv, Inserting
  <2>3. tris[t][1] \in Points /\ tris[t][2] \in Points /\ tris[t][3] \in Points
    <3>1. tris[t][1] \in Vertices /\ tris[t][2] \in Vertices /\ tris[t][3] \in Vertices
        BY <2>2 DEF Triple
    <3>2. 1 \in 1 .. 3 /\ 2 \in 1 .. 3 /\ 3 \in 1 .. 3
        OBVIOUS
    <3>3. ~(tris[t][1] > Len(pts)) /\ ~(tris[t][2] > Len(pts)) /\ ~(tris[t][3] > Len(pts))
        BY <2>1, <3>2 DEF Remains, IsSuper
    <3> QED
        BY <1>2, <3>1, <3>3 DEF Vertices, Points
  <2>4. tris[t] \in Corners
      BY <2>2, <2>3 DEF Triple, Corners
  <2> QED
      BY <2>2, <2>4
<1> HIDE DEF S
<1>5. /\ DOMAIN kept = 1 .. Len(kept) /\ Len(kept) \in Nat /\ Range(kept) = S
      /\ \A j \in DOMAIN kept : kept[j] \in S
  <2>1. /\ kept \in Seq(S) /\ DOMAIN kept = 1 .. Len(kept) /\ Len(kept) \in Nat
        /\ Range(kept) = S
      BY <1>3, AscendingLists
  <2> HIDE DEF kept
  <2> QED
      BY <2>1, ElementOfSeq
<1> HIDE DEF kept
<1>6. /\ final' \in Seq(Corners) /\ DOMAIN final' = DOMAIN kept
      /\ \A j \in DOMAIN kept : final'[j] = tris[kept[j]]
    BY <1>1, <1>4, <1>5
<1>7. \A j \in DOMAIN final' : Proper(final'[j])
    BY <1>4, <1>5, <1>6
<1>8. \A e : W(e) = With(final', e)
    BY <1>6 DEF With
<1>9. \A e : e \in heap' <=> With(final', e) # {}
  <2> TAKE e
  <2>1. e \in heap' <=> \E t \in Range(kept) : e \in EdgesOf(tris[t])
      BY <1>1
  <2>2. (\E t \in Range(kept) : e \in EdgesOf(tris[t]))
        <=> \E j \in DOMAIN kept : e \in EdgesOf(tris[kept[j]])
      BY DEF Range
  <2> QED
      BY <1>6, <2>1, <2>2 DEF With
<1>10. ASSUME NEW e \in heap' PROVE inc'[e] \in Seq(DOMAIN final') /\ Lists(inc'[e], With(final', e))
  <2>1. inc'[e] = Ascending(W(e))
      BY <1>1
  <2>2. W(e) \in SUBSET Int /\ IsFiniteSet(W(e)) /\ W(e) \subseteq DOMAIN final'
    <3>1. W(e) \in SUBSET (1 .. Len(kept)) /\ IsFiniteSet(1 .. Len(kept))
        BY <1>5, FS_Interval
    <3>2. 1 .. Len(kept) \subseteq Int
        BY <1>5
    <3> HIDE DEF W
    <3> QED
        BY <1>5, <1>6, <3>1, <3>2, FS_Subset
  <2> HIDE DEF W
  <2>3. LET L == Ascending(W(e)) IN
        /\ L \in Seq(W(e)) /\ Range(L) = W(e)
        /\ \A k, l \in DOMAIN L : L[k] = L[l] => k = l
      BY <2>2, AscendingLists
  <2>4. inc'[e] \in Seq(W(e)) /\ Lists(inc'[e], W(e))
      BY <2>1, <2>3 DEF Lists, IsInjective
  <2>5. inc'[e] \in Seq(DOMAIN final')
      BY <2>2, <2>4, SeqMonotonic
  <2> QED
      BY <1>8, <2>4, <2>5
<1>11. DOMAIN inc' = heap'
    BY <1>1
<1>12. IncidenceIsRight'
  <2>1. \A e : e \in UNION {EdgesOf(final'[t]) : t \in DOMAIN final'} <=> With(final', e) # {}
      BY DEF With
  <2>2. DOMAIN inc' = UNION {EdgesOf(final'[t]) : t \in DOMAIN final'}
      BY <1>9, <1>11, <2>1
  <2> QED
      BY <1>10, <1>11, <2>2 DEF IncidenceIsRight, Lists, With
<1>13. NothingLeftToFlip'
    BY <1>11 DEF NothingLeftToFlip
<1>14. heap' \subseteq SUBSET Points
  <2>1. ASSUME NEW t \in S PROVE EdgesOf(tris[t]) \subseteq SUBSET Points
    <3>1. tris[t][1] \in Points /\ tris[t][2] \in Points /\ tris[t][3] \in Points
        BY <1>4 DEF Corners
    <3> QED
        BY <3>1, Sides
  <2> QED
      BY <1>1, <1>5, <2>1
<1>15. Points' = Points /\ Corners' = Corners /\ Cap' = Cap
    BY <1>1 DEF points, Points, Corners, Cap
<1> QED
    BY <1>1, <1>6, <1>7, <1>10, <1>11, <1>12, <1>13, <1>14, <1>15 DEF FlipInv

\* The worklist keeps the lists, and leaves nothing to flip that is not on it.
LEMMA FlipNext == MeshInv /\ FlipInv /\ [DNext]_dvars => FlipInv'
<1> SUFFICES ASSUME MeshInv, FlipInv, [DNext]_dvars PROVE FlipInv'
    OBVIOUS
<1>1. CASE Finalize
    BY <1>1, FinalizeLists
<1>2. CASE Pop
  <2>1. PICK e \in heap :
          \/ /\ HasTwo(e)
             /\ Flips(Min(e), Max(e), Third(e, 1), Third(e, 2))
             /\ Exchange(e, Min(e), Max(e), Third(e, 1), Third(e, 2))
          \/ /\ HasTwo(e) => ~Flips(Min(e), Max(e), Third(e, 1), Third(e, 2))
             /\ heap' = heap \ {e}
             /\ UNCHANGED <<final, inc, flips>>
      BY <1>2 DEF Pop
  <2>2. flips < Cap /\ UNCHANGED points
      BY <1>2 DEF Pop
  <2>3. CASE /\ HasTwo(e)
             /\ Flips(Min(e), Max(e), Third(e, 1), Third(e, 2))
             /\ Exchange(e, Min(e), Max(e), Third(e, 1), Third(e, 2))
      BY <2>2, <2>3, ExchangeLists DEF MeshInv
  <2>4. CASE /\ HasTwo(e) => ~Flips(Min(e), Max(e), Third(e, 1), Third(e, 2))
             /\ heap' = heap \ {e}
             /\ UNCHANGED <<final, inc, flips>>
    <3>1. Points' = Points /\ Corners' = Corners /\ Cap' = Cap
        BY <2>2 DEF points, Points, Corners, Cap
    <3>2. IncidenceIsRight'
        BY <2>4 DEF FlipInv, IncidenceIsRight
    <3>3. ASSUME NEW x \in DOMAIN inc' \ heap' PROVE Settled(x)'
      <4>1. x \in DOMAIN inc /\ (x = e \/ x \notin heap)
          BY <2>4, <3>3
      <4>2. Settled(x)
          BY <2>4, <4>1 DEF Settled, FlipInv, NothingLeftToFlip
      <4> QED
          BY <2>2, <2>4, <3>3, <4>1, <4>2, SettledSame
    <3>4. NothingLeftToFlip'
        BY <3>3 DEF NothingLeftToFlip, Settled
    <3> QED
        BY <2>4, <3>1, <3>2, <3>4 DEF FlipInv
  <2> QED
      BY <2>1, <2>3, <2>4
<1>3. CASE NextPoint \/ Walk \/ Arrive \/ Flood \/ Flooded \/ Fan \/ Finish \/ Done \/ UNCHANGED dvars
  <2>1. UNCHANGED <<points, final, inc, heap, flips>>
      BY <1>3 DEF NextPoint, Walk, Arrive, Flood, Flooded, Fan, Finish, Done, dvars, flipv, points
  <2>2. Points' = Points /\ Corners' = Corners /\ Cap' = Cap
      BY <2>1 DEF points, Points, Corners, Cap
  <2>3. IncidenceIsRight'
      BY <2>1 DEF FlipInv, IncidenceIsRight
  <2>4. ASSUME NEW x \in DOMAIN inc' \ heap' PROVE Settled(x)'
    <3>1. Settled(x)
        BY <2>1, <2>4 DEF Settled, FlipInv, NothingLeftToFlip
    <3> QED
        BY <2>1, <2>4, <3>1, SettledSame
  <2>5. NothingLeftToFlip'
      BY <2>4 DEF NothingLeftToFlip, Settled
  <2> QED
      BY <2>1, <2>2, <2>3, <2>5 DEF FlipInv
<1> QED
    BY <1>1, <1>2, <1>3 DEF DNext

\* The mesh while points are inserted, the lists while edges are flipped.
DInv == MeshInv /\ FlipInv

\* The initial states.
LEMMA InvInit == DInit => DInv
<1> SUFFICES ASSUME DInit PROVE DInv
    OBVIOUS
<1>1. MeshTypes
    BY MeshInit
<1>2. Len(pts) \in Nat
    BY <1>1, LenProperties DEF MeshTypes
<1>3. /\ tris = <<<<Len(pts) + 1, Len(pts) + 2, Len(pts) + 3>>>>
      /\ nbrs = <<<<0, 0, 0>>>> /\ phase \in {"insert", "done"}
    BY DEF DInit
<1>4. DOMAIN tris = {1}
    BY <1>3
<1>5. VertexInv
  <2>1. /\ tris[1][1] = Len(pts) + 1 /\ tris[1][2] = Len(pts) + 2
        /\ tris[1][3] = Len(pts) + 3
      BY <1>3
  <2>2. /\ tris[1][1] > Len(pts) /\ tris[1][2] > Len(pts) /\ tris[1][3] > Len(pts)
        /\ Proper(tris[1])
      BY <1>2, <2>1 DEF Proper
  <2> QED
      BY <1>4, <2>2 DEF VertexInv
<1>6. LinkInv
  <2>1. \A k \in 1 .. 3 : nbrs[1][k] = 0
      BY <1>3
  <2>2. Alive \subseteq {1} /\ 0 \notin Alive
      BY <1>4 DEF Alive
  <2> QED
      BY <1>3, <2>1, <2>2 DEF LinkInv, Inserting
<1>7. FlipInv
    BY <1>2, FlipInit DEF DInit
<1> QED
    BY <1>1, <1>5, <1>6, <1>7 DEF DInv, MeshInv

\* And every step.
LEMMA InvNext == DInv /\ [DNext]_dvars => DInv'
    BY MeshNext, FlipNext DEF DInv

\* What every operation of the triangulation may count on.
THEOREM DelaunayInv == DSpec => []DInv
  BY InvInit, InvNext, PTL DEF DSpec

\* Triangles are of known vertices and have known neighbours, and the edges and
\* lists that the flips work on are of the final triangles.
THEOREM DelaunayTypeOK == DSpec => []DTypeOK
<1>1. DInv => DTypeOK
  <2> SUFFICES ASSUME DInv PROVE DTypeOK
      OBVIOUS
  <2> USE DEF DInv, MeshInv, FlipInv
  <2>1. tris \in Seq((1 .. Len(pts) + 3) \X (1 .. Len(pts) + 3) \X (1 .. Len(pts) + 3))
      BY DEF MeshTypes, Triple, Vertices
  <2>2. \A t \in DOMAIN tris : Range(nbrs[t]) \subseteq DOMAIN tris \union {0}
      BY DEF MeshTypes, Range
  <2>3. \A t \in DOMAIN final : Range(final[t]) \subseteq Points
    <3> TAKE t \in DOMAIN final
    <3>1. final[t] \in Corners
        BY ElementOfSeq, LenProperties
    <3> QED
        BY <3>1 DEF Corners, Range
  <2>4. \A e \in DOMAIN inc : Range(inc[e]) \subseteq DOMAIN final
      BY DEF IncidenceIsRight
  <2> QED
      BY <2>1, <2>2, <2>3, <2>4 DEF DTypeOK, MeshTypes, Inserting
<1> QED
    BY <1>1, DelaunayInv, PTL

\* insert rewires every neighbour it must: between two insertions whoever a live
\* triangle takes for its neighbour takes it for the neighbour across that edge.
THEOREM DelaunayLinks == DSpec => []LinksLeadBack
<1>1. DInv => LinksLeadBack
    BY DEF DInv, MeshInv, LinkInv, LinksLeadBack, Mutual, Inserting
<1> QED
    BY <1>1, DelaunayInv, PTL

\* The lists that a flip updates edge by edge are the ones that would be built
\* from the triangles anew.
THEOREM DelaunayIncidence == DSpec => []IncidenceIsRight
<1>1. DInv => IncidenceIsRight
    BY DEF DInv, FlipInv
<1> QED
    BY <1>1, DelaunayInv, PTL

\* No edge that should be flipped is forgotten: the heap has it.
THEOREM DelaunaySettled == DSpec => []NothingLeftToFlip
<1>1. DInv => NothingLeftToFlip
    BY DEF DInv, FlipInv
<1> QED
    BY <1>1, DelaunayInv, PTL

-----------------------------------------------------------------------------
\* The mesh fits together, if every cavity has one rim.

\* Live triangles with an edge are neighbours across it and on different sides of
\* it, and have no other edge in common; none is its own neighbour; an edge
\* without a live neighbour is the super-triangle's.
MeshFits ==
    /\ \A t, u \in Alive : \A k, l \in 1 .. 3 :
         t # u /\ EdgeOf(tris[t], k) = EdgeOf(tris[u], l) =>
            /\ nbrs[t][k] = u
            /\ tris[t][k] = tris[u][Nxt(l)]
            /\ \A m, n \in 1 .. 3 : EdgeOf(tris[t], m) = EdgeOf(tris[u], n) => m = k
    /\ \A t \in Alive, k \in 1 .. 3 :
         /\ nbrs[t][k] # t
         /\ nbrs[t][k] \notin Alive => \A v \in EdgeOf(tris[t], k) : IsSuper(v)

\* Where the j-th side of the ring starts, and where it ends.
Start(j) == Dir(Ring[j])[1]
Stop(j)  == Dir(Ring[j])[2]

\* What MeshFits needs of the ring: each new triangle has its side of the ring in
\* the direction of the ring, and at each end of it one other new triangle.
RingOrder ==
    \A j \in 1 .. Len(Ring) :
      /\ Joined(Ring[j]) = <<Start(j), Stop(j), i>>
      /\ EdgeAt(Ring[j]) = {Start(j), Stop(j)}
      /\ Start(j) # Stop(j) /\ Start(j) # i /\ Stop(j) # i
      /\ \A l \in 1 .. Len(Ring) : Start(j) = Start(l) \/ Stop(j) = Stop(l) => j = l
      /\ \E l \in 1 .. Len(Ring) : Start(l) = Stop(j)
      /\ \E l \in 1 .. Len(Ring) : Stop(l) = Start(j)

\* A ring that closes has that order.
LEMMA RingInOrder ==
    ASSUME MeshTypes, VertexInv, phase = "fan", RingCloses
    PROVE  RingOrder
<1> DEFINE M == Len(Ring)
<1> DEFINE S == {Ring[j] : j \in 1 .. M}
<1>1. /\ DOMAIN Ring = 1 .. M
      /\ \A j \in 1 .. M : Ring[j] \in cavity \X (1 .. 3)
      /\ \A j, l \in 1 .. M : Ring[j] = Ring[l] => j = l
    BY RingLists, ElementOfSeq
<1>2. Range(Ring) = S
    BY <1>1 DEF Range
<1>3. /\ \A r, s \in S : \A n \in {1, 2} : Dir(r)[n] = Dir(s)[n] => r = s
      /\ {Dir(s)[1] : s \in S} = {Dir(s)[2] : s \in S}
      /\ \A s \in S : OrientXY(Dir(s)[1], Dir(s)[2], i) >= 0
    BY <1>2, Zenon DEF RingCloses
<1> HIDE DEF M
<1> SUFFICES ASSUME NEW j \in 1 .. M
             PROVE  /\ Joined(Ring[j]) = <<Start(j), Stop(j), i>>
                    /\ EdgeAt(Ring[j]) = {Start(j), Stop(j)}
                    /\ Start(j) # Stop(j) /\ Start(j) # i /\ Stop(j) # i
                    /\ \A l \in 1 .. M : Start(j) = Start(l) \/ Stop(j) = Stop(l) => j = l
                    /\ \E l \in 1 .. M : Start(l) = Stop(j)
                    /\ \E l \in 1 .. M : Stop(l) = Start(j)
    BY DEF RingOrder, M
<1>4. Joined(Ring[j]) = <<Start(j), Stop(j), i>>
    BY <1>3 DEF Joined, Start, Stop
<1>5. EdgeAt(Ring[j]) = {Start(j), Stop(j)}
    BY DEF EdgeAt, EdgeOf, Edge, Start, Stop, Dir
<1>6. Proper(Joined(Ring[j]))
    BY <1>1, NewTriangle
<1>7. Start(j) # Stop(j) /\ Start(j) # i /\ Stop(j) # i
    BY <1>4, <1>6 DEF Proper
<1>8. \A l \in 1 .. M : Start(j) = Start(l) \/ Stop(j) = Stop(l) => j = l
    BY <1>1, <1>3 DEF Start, Stop
<1>9. \E l \in 1 .. M : Start(l) = Stop(j)
  <2>1. Stop(j) \in {Dir(s)[1] : s \in S}
      BY <1>3 DEF Stop
  <2> QED
      BY <2>1 DEF Start
<1>10. \E l \in 1 .. M : Stop(l) = Start(j)
  <2>1. Start(j) \in {Dir(s)[2] : s \in S}
      BY <1>3 DEF Start
  <2> QED
      BY <2>1 DEF Stop
<1> QED
    BY <1>4, <1>5, <1>7, <1>8, <1>9, <1>10

\* The edges of a triangle written out.
LEMMA Corners3 ==
    ASSUME NEW a, NEW b, NEW c
    PROVE  /\ EdgeOf(<<a, b, c>>, 1) = {a, b} /\ EdgeOf(<<a, b, c>>, 2) = {b, c}
           /\ EdgeOf(<<a, b, c>>, 3) = {c, a}
           /\ EdgesOf(<<a, b, c>>) = {{a, b}, {b, c}, {c, a}}
  BY Sides

\* Where one side of the ring ends and the next one starts, their triangles are
\* each other's mates.
LEMMA MatesMeet ==
    ASSUME MeshTypes, RingOrder, NEW j \in 1 .. Len(Ring), NEW l \in 1 .. Len(Ring),
           Stop(j) = Start(l)
    PROVE  /\ j # l
           /\ Mate(NewTris, j, EdgeOf(Joined(Ring[j]), 2)) = Len(tris) + l
           /\ Mate(NewTris, l, EdgeOf(Joined(Ring[l]), 3)) = Len(tris) + j
<1> DEFINE e == {Stop(j), i}
<1> DEFINE with == {n \in DOMAIN Ring : e \in EdgesOf(Joined(Ring[n]))}
<1>1. DOMAIN Ring = 1 .. Len(Ring)
    BY RingLists
<1>2. \A n \in 1 .. Len(Ring) :
        EdgesOf(Joined(Ring[n])) = {{Start(n), Stop(n)}, {Stop(n), i}, {i, Start(n)}}
  <2> SUFFICES ASSUME NEW n \in 1 .. Len(Ring)
               PROVE  EdgesOf(Joined(Ring[n])) = {{Start(n), Stop(n)}, {Stop(n), i}, {i, Start(n)}}
      OBVIOUS
  <2>1. Joined(Ring[n]) = <<Start(n), Stop(n), i>>
      BY DEF RingOrder
  <2>2. EdgesOf(<<Start(n), Stop(n), i>>) = {{Start(n), Stop(n)}, {Stop(n), i}, {i, Start(n)}}
      BY Corners3
  <2> QED
      BY <2>1, <2>2
<1>3. j # l
    BY DEF RingOrder
<1>4. with = {j, l}
  <2>1. \A n \in 1 .. Len(Ring) :
          e \in EdgesOf(Joined(Ring[n])) <=> Stop(n) = Stop(j) \/ Start(n) = Stop(j)
    <3> SUFFICES ASSUME NEW n \in 1 .. Len(Ring)
                 PROVE  e \in {{Start(n), Stop(n)}, {Stop(n), i}, {i, Start(n)}}
                        <=> Stop(n) = Stop(j) \/ Start(n) = Stop(j)
        BY <1>2
    <3>1. Start(n) # i /\ Stop(n) # i /\ Stop(j) # i
        BY DEF RingOrder
    <3> QED
        BY <3>1
  <2>2. \A n \in 1 .. Len(Ring) :
          /\ Stop(n) = Stop(j) <=> n = j
          /\ Start(n) = Stop(j) <=> n = l
      BY DEF RingOrder
  <2> QED
      BY <1>1, <2>1, <2>2
<1>5. EdgeOf(Joined(Ring[j]), 2) = e /\ EdgeOf(Joined(Ring[l]), 3) = e
  <2>1. Joined(Ring[j]) = <<Start(j), Stop(j), i>> /\ Joined(Ring[l]) = <<Start(l), Stop(l), i>>
      BY DEF RingOrder
  <2>2. /\ EdgeOf(<<Start(j), Stop(j), i>>, 2) = {Stop(j), i}
        /\ EdgeOf(<<Start(l), Stop(l), i>>, 3) = {i, Start(l)}
      BY Corners3
  <2> QED
      BY <2>1, <2>2
<1>6. with \ {j} = {l} /\ with \ {l} = {j}
    BY <1>3, <1>4
<1>7. /\ {n \in DOMAIN Ring \ {j} : e \in EdgesOf(Joined(Ring[n]))} = {l}
      /\ {n \in DOMAIN Ring \ {l} : e \in EdgesOf(Joined(Ring[n]))} = {j}
    BY <1>6
<1> HIDE DEF e, with
<1>8. Mate(NewTris, j, e) = Len(tris) + l /\ Mate(NewTris, l, e) = Len(tris) + j
    BY <1>1, <1>7, MateIs
<1> QED
    BY <1>3, <1>5, <1>8

\* The mesh after the fan, as its parts before: of the old triangles those outside
\* the cavity live on, and each of the new ones stands on a side of the ring.
FanParts ==
    /\ Len(tris) \in Nat /\ Len(Ring) \in Nat
    /\ Alive \subseteq 1 .. Len(tris)
    /\ cavity \subseteq Alive
    /\ \A t : t \in Alive' <=> \/ t \in Alive \ cavity
                               \/ \E j \in 1 .. Len(Ring) : t = Len(tris) + j
    /\ \A t \in Alive \ cavity :
         /\ tris'[t] = tris[t]
         /\ \A k \in 1 .. 3 : nbrs[t][k] \in 1 .. Len(tris) \union {0}
         /\ \A k \in 1 .. 3 : nbrs'[t][k] = Rewired(Ring, t, k)
         /\ \A k \in 1 .. 3 : i \notin EdgeOf(tris[t], k)
    /\ \A j \in 1 .. Len(Ring) :
         /\ tris'[Len(tris) + j] = Joined(Ring[j])
         /\ nbrs'[Len(tris) + j] = NewLinks(j)

\* A fan is those parts.
LEMMA FanInParts ==
    ASSUME MeshTypes, VertexInv, LinkInv, Fan
    PROVE  FanParts
<1> DEFINE N == Len(tris)
<1> DEFINE M == Len(Ring)
<1>1. /\ N \in Nat /\ M \in Nat
      /\ DOMAIN tris' = 1 .. N + M
      /\ \A t \in 1 .. N : tris'[t] = tris[t]
      /\ \A j \in 1 .. M : tris'[N + j] = Joined(Ring[j])
    BY FanMakes
<1>2. /\ \A t \in 1 .. N : t \in Alive \ cavity =>
           \A k \in 1 .. 3 : nbrs'[t][k] = Rewired(Ring, t, k)
      /\ \A j \in 1 .. M : nbrs'[N + j] = NewLinks(j)
    BY FanLinks
<1>3. /\ phase = "fan" /\ dead' = dead \union cavity /\ cavity \subseteq Alive
    BY DEF Fan, LinkInv, Inserting
<1>4. DOMAIN tris = 1 .. N /\ Alive \subseteq 1 .. N /\ dead \subseteq 1 .. N
    BY LenProperties DEF MeshTypes, Alive
<1>5. \A t \in 1 .. N : nbrs[t] \in [1 .. 3 -> 1 .. N \union {0}]
    BY <1>4 DEF MeshTypes
<1>6. ASSUME NEW t \in Alive, NEW k \in 1 .. 3
      PROVE  i \notin EdgeOf(tris[t], k)
  <2>1. i \in 0 .. Len(pts) /\ Len(pts) \in Nat
      BY LenProperties DEF MeshTypes
  <2>2. \A n \in {1, 2, 3} : tris[t][n] > Len(pts) \/ tris[t][n] < i
      BY <1>3 DEF VertexInv, Inserting, Alive
  <2>3. \A n \in {1, 2, 3} : tris[t][n] # i
      BY <2>1, <2>2
  <2>4. k \in {1, 2, 3}
      OBVIOUS
  <2> QED
      BY <2>3, <2>4, Sides
<1> HIDE DEF N, M
<1>7. ASSUME NEW t
      PROVE  t \in Alive' <=> t \in Alive \ cavity \/ \E j \in 1 .. M : t = N + j
  <2>1. t \in Alive' <=> t \in 1 .. N + M /\ t \notin dead /\ t \notin cavity
      BY <1>1, <1>3 DEF Alive
  <2>2. t \in Alive <=> t \in 1 .. N /\ t \notin dead
      BY <1>4 DEF Alive
  <2>3. t \in 1 .. N + M <=> t \in 1 .. N \/ \E j \in 1 .. M : t = N + j
    <3>1. ASSUME t \in 1 .. N + M, t \notin 1 .. N PROVE \E j \in 1 .. M : t = N + j
      <4>1. t - N \in 1 .. M /\ t = N + (t - N)
          BY <1>1, <3>1
      <4> QED
          BY <4>1
    <3>2. \A j \in 1 .. M : N + j \in 1 .. N + M
        BY <1>1
    <3>3. 1 .. N \subseteq 1 .. N + M
        BY <1>1
    <3> QED
        BY <3>1, <3>2, <3>3
  <2>4. ASSUME NEW j \in 1 .. M PROVE N + j \notin 1 .. N
      BY <1>1
  <2>5. cavity \subseteq 1 .. N
      BY <1>3, <1>4
  <2> QED
      BY <1>4, <2>1, <2>2, <2>3, <2>4, <2>5
<1> QED
    BY <1>1, <1>2, <1>3, <1>4, <1>5, <1>6, <1>7 DEF FanParts, N, M

\* The side of the ring across from a live triangle outside the cavity.
LEMMA AcrossTheRing ==
    ASSUME MeshTypes, VertexInv, LinkInv, MeshFits, phase = "fan",
           NEW t \in Alive \ cavity, NEW k \in 1 .. 3,
           NEW c \in cavity, NEW m \in 1 .. 3, EdgeOf(tris[c], m) = EdgeOf(tris[t], k)
    PROVE  /\ nbrs[t][k] = c /\ nbrs[c][m] = t
           /\ tris[t][k] = tris[c][Nxt(m)]
           /\ \A r \in cavity \X (1 .. 3) : EdgeAt(r) = EdgeOf(tris[t], k) => r = <<c, m>>
<1>1. cavity \subseteq Alive /\ c \in Alive /\ c # t
    BY DEF LinkInv, Inserting
<1>2. /\ nbrs[t][k] = c /\ nbrs[c][m] = t
      /\ tris[t][k] = tris[c][Nxt(m)]
    BY <1>1 DEF MeshFits
<1>3. ASSUME NEW r \in cavity \X (1 .. 3), EdgeAt(r) = EdgeOf(tris[t], k)
      PROVE  r = <<c, m>>
  <2>1. r[1] \in cavity /\ r[2] \in 1 .. 3 /\ r = <<r[1], r[2]>>
      OBVIOUS
  <2>2. EdgeOf(tris[r[1]], r[2]) = EdgeOf(tris[t], k)
      BY <1>3 DEF EdgeAt
  <2>3. nbrs[t][k] = r[1]
      BY <1>1, <2>1, <2>2 DEF MeshFits
  <2>4. EdgeOf(tris[c], r[2]) = EdgeOf(tris[c], m) /\ Proper(tris[c])
      BY <1>1, <1>2, <2>2, <2>3 DEF VertexInv, Inserting, Alive
  <2>5. r[2] = m
      BY <2>1, <2>4, SidesDiffer
  <2> QED
      BY <1>2, <2>1, <2>3, <2>5
<1> QED
    BY <1>2, <1>3

\* Two old triangles stay neighbours.
LEMMA OldAndOld ==
    ASSUME MeshTypes, VertexInv, LinkInv, MeshFits, phase = "fan",
           NEW t \in Alive \ cavity, NEW u \in Alive \ cavity, t # u,
           NEW k \in 1 .. 3, NEW l \in 1 .. 3, EdgeOf(tris[t], k) = EdgeOf(tris[u], l)
    PROVE  Rewired(Ring, t, k) = u
<1>1. nbrs[t][k] = u
    BY DEF MeshFits
<1>2. ASSUME NEW j \in DOMAIN Ring, EdgeAt(Ring[j]) = EdgeOf(tris[t], k)
      PROVE  FALSE
  <2>1. Ring[j] \in cavity \X (1 .. 3)
      BY RingLists, ElementOfSeq
  <2>2. Ring[j][1] \in cavity /\ Ring[j][2] \in 1 .. 3
      BY <2>1
  <2>3. EdgeOf(tris[Ring[j][1]], Ring[j][2]) = EdgeOf(tris[t], k)
      BY <1>2 DEF EdgeAt
  <2>4. nbrs[t][k] = Ring[j][1]
      BY <2>2, <2>3, AcrossTheRing
  <2> QED
      BY <1>1, <2>2, <2>4
<1>3. \A j \in DOMAIN Ring : EdgeAt(Ring[j]) # EdgeOf(tris[t], k)
    BY <1>2
<1> QED
    BY <1>1, <1>3, RewiredIs

\* An old triangle with an edge of a new one is outside its side of the ring.
LEMMA OldAndNew ==
    ASSUME MeshTypes, VertexInv, LinkInv, MeshFits, RingOrder, phase = "fan",
           NEW t \in Alive \ cavity, NEW j \in 1 .. Len(Ring),
           \A k \in 1 .. 3 : i \notin EdgeOf(tris[t], k),
           NEW k \in 1 .. 3, NEW l \in 1 .. 3,
           EdgeOf(tris[t], k) = EdgeOf(Joined(Ring[j]), l)
    PROVE  /\ l = 1
           /\ Rewired(Ring, t, k) = Len(tris) + j
           /\ NewLinks(j)[1] = t
           /\ tris[t][k] = Stop(j) /\ tris[t][Nxt(k)] = Start(j)
           /\ EdgeOf(tris[t], k) = EdgeAt(Ring[j])
<1>1. /\ DOMAIN Ring = 1 .. Len(Ring) /\ Len(Ring) \in Nat
      /\ Ring[j] \in cavity \X (1 .. 3)
      /\ \A n, m \in 1 .. Len(Ring) : Ring[n] = Ring[m] => n = m
  <2>1. Ring \in Seq(cavity \X (1 .. 3)) /\ DOMAIN Ring = 1 .. Len(Ring) /\ Len(Ring) \in Nat
      BY RingLists
  <2>2. Ring[j] \in cavity \X (1 .. 3)
      BY <2>1, ElementOfSeq
  <2>3. \A n, m \in DOMAIN Ring : Ring[n] = Ring[m] => n = m
      BY RingLists
  <2> QED
      BY <2>1, <2>2, <2>3
<1>2. Joined(Ring[j]) = <<Start(j), Stop(j), i>> /\ EdgeAt(Ring[j]) = {Start(j), Stop(j)}
    BY DEF RingOrder
<1>3. /\ EdgeOf(Joined(Ring[j]), 1) = {Start(j), Stop(j)}
      /\ EdgeOf(Joined(Ring[j]), 2) = {Stop(j), i}
      /\ EdgeOf(Joined(Ring[j]), 3) = {i, Start(j)}
    BY <1>2, Corners3
<1>4. l = 1
  <2>1. l \in {1, 2, 3}
      OBVIOUS
  <2>2. i \notin EdgeOf(Joined(Ring[j]), l)
      BY ONLY k \in 1 .. 3, \A n \in 1 .. 3 : i \notin EdgeOf(tris[t], n),
              EdgeOf(tris[t], k) = EdgeOf(Joined(Ring[j]), l)
  <2>3. i \in EdgeOf(Joined(Ring[j]), 2) /\ i \in EdgeOf(Joined(Ring[j]), 3)
      BY <1>3
  <2> QED
      BY <2>1, <2>2, <2>3
<1>5. EdgeAt(Ring[j]) = EdgeOf(tris[t], k)
    BY <1>2, <1>3, <1>4
<1>6. PICK c \in cavity, m \in 1 .. 3 : Ring[j] = <<c, m>>
    BY <1>1
<1>7. Ring[j][1] = c /\ Ring[j][2] = m
    BY <1>6
<1>8. EdgeOf(tris[c], m) = EdgeOf(tris[t], k)
    BY <1>5, <1>7 DEF EdgeAt
<1>9. /\ nbrs[c][m] = t
      /\ tris[t][k] = tris[c][Nxt(m)]
      /\ \A r \in cavity \X (1 .. 3) : EdgeAt(r) = EdgeOf(tris[t], k) => r = <<c, m>>
    BY <1>8, AcrossTheRing
<1>10. tris[t][Nxt(k)] = tris[c][m]
  <2>1. c \in Alive /\ t \in Alive /\ c # t
      BY DEF LinkInv, Inserting
  <2> QED
      BY <1>8, <2>1 DEF MeshFits
<1>11. Start(j) = tris[c][m] /\ Stop(j) = tris[c][Nxt(m)]
    BY <1>7 DEF Start, Stop, Dir
<1>12. \A n \in DOMAIN Ring : EdgeAt(Ring[n]) = EdgeOf(tris[t], k) => n = j
  <2> SUFFICES ASSUME NEW n \in 1 .. Len(Ring), EdgeAt(Ring[n]) = EdgeOf(tris[t], k)
               PROVE  n = j
      BY <1>1
  <2>1. Ring[n] \in cavity \X (1 .. 3)
      BY RingLists, ElementOfSeq
  <2>2. Ring[n] = Ring[j]
      BY <1>6, <1>9, <2>1
  <2> QED
      BY <1>1, <2>2
<1>13. Rewired(Ring, t, k) = Len(tris) + j
  <2>1. nbrs[Ring[j][1]][Ring[j][2]] = t /\ j \in DOMAIN Ring
      BY <1>1, <1>7, <1>9
  <2> QED
      BY <1>5, <1>12, <2>1, RewiredIs
<1>14. NewLinks(j)[1] = t
    BY <1>7, <1>9 DEF NewLinks
<1> QED
    BY <1>4, <1>5, <1>9, <1>10, <1>11, <1>13, <1>14

\* No two sides of the ring have one edge.
LEMMA EdgesOnRing ==
    ASSUME MeshTypes, NEW j \in 1 .. Len(Ring), NEW l \in 1 .. Len(Ring), j # l
    PROVE  EdgeAt(Ring[j]) # EdgeAt(Ring[l])
<1>1. Ring[j] \in cavity \X (1 .. 3) /\ Ring[j] # Ring[l] /\ l \in DOMAIN Ring
    BY RingLists, ElementOfSeq
<1> QED
    BY <1>1, RingLists

\* Two new triangles share at most one edge, from the point to where one side of
\* the ring ends and the other starts.
LEMMA NewAndNew ==
    ASSUME MeshTypes, RingOrder,
           NEW j \in 1 .. Len(Ring), NEW l \in 1 .. Len(Ring), j # l,
           NEW k \in 1 .. 3, NEW n \in 1 .. 3,
           EdgeOf(Joined(Ring[j]), k) = EdgeOf(Joined(Ring[l]), n)
    PROVE  \/ k = 2 /\ n = 3 /\ Stop(j) = Start(l)
           \/ k = 3 /\ n = 2 /\ Start(j) = Stop(l)
<1>1. /\ Joined(Ring[j]) = <<Start(j), Stop(j), i>> /\ EdgeAt(Ring[j]) = {Start(j), Stop(j)}
      /\ Joined(Ring[l]) = <<Start(l), Stop(l), i>> /\ EdgeAt(Ring[l]) = {Start(l), Stop(l)}
      /\ Start(j) # Stop(j) /\ Start(j) # i /\ Stop(j) # i
      /\ Start(l) # Stop(l) /\ Start(l) # i /\ Stop(l) # i
      /\ Start(j) # Start(l) /\ Stop(j) # Stop(l)
    BY DEF RingOrder
<1>2. /\ EdgeOf(Joined(Ring[j]), 1) = {Start(j), Stop(j)}
      /\ EdgeOf(Joined(Ring[j]), 2) = {Stop(j), i}
      /\ EdgeOf(Joined(Ring[j]), 3) = {i, Start(j)}
      /\ EdgeOf(Joined(Ring[l]), 1) = {Start(l), Stop(l)}
      /\ EdgeOf(Joined(Ring[l]), 2) = {Stop(l), i}
      /\ EdgeOf(Joined(Ring[l]), 3) = {i, Start(l)}
    BY <1>1, Corners3
<1>3. {Start(j), Stop(j)} # {Start(l), Stop(l)}
    BY <1>1, EdgesOnRing
<1>4. k \in {1, 2, 3} /\ n \in {1, 2, 3}
    OBVIOUS
<1>5. CASE k = 1
    BY <1>1, <1>2, <1>3, <1>4, <1>5
<1>6. CASE k = 2
    BY <1>1, <1>2, <1>4, <1>6
<1>7. CASE k = 3
    BY <1>1, <1>2, <1>4, <1>7
<1> QED
    BY <1>4, <1>5, <1>6, <1>7

\* A side of the cavity with nothing of it across is on the ring.
LEMMA OnTheRing ==
    ASSUME MeshTypes, VertexInv, LinkInv, MeshFits, phase = "fan",
           NEW t \in Alive \ cavity, NEW k \in 1 .. 3, nbrs[t][k] \in cavity
    PROVE  \E j \in DOMAIN Ring : /\ nbrs[Ring[j][1]][Ring[j][2]] = t
                                  /\ EdgeAt(Ring[j]) = EdgeOf(tris[t], k)
<1>1. cavity \subseteq Alive /\ Mutual(t, k)
    BY DEF LinkInv, Inserting
<1>2. PICK l \in 1 .. 3 : /\ nbrs[nbrs[t][k]][l] = t
                          /\ EdgeOf(tris[nbrs[t][k]], l) = EdgeOf(tris[t], k)
    BY <1>1 DEF Mutual
<1> DEFINE s == <<nbrs[t][k], l>>
<1>3. s \in cavity \X (1 .. 3) /\ EdgeAt(s) = EdgeOf(tris[t], k)
    BY <1>2 DEF EdgeAt
<1>4. \A r \in cavity \X (1 .. 3) : EdgeAt(r) = EdgeAt(s) => r = s
    BY <1>2, <1>3, AcrossTheRing
<1>5. s[1] = nbrs[t][k] /\ s[2] = l
    OBVIOUS
<1> HIDE DEF s
<1>6. PICK j \in DOMAIN Ring : Ring[j] = s
    BY <1>3, <1>4, RingLists
<1> QED
    BY <1>2, <1>3, <1>5, <1>6

\* Of a triangle that stays: it is not its own neighbour, and whom it loses it
\* loses to nobody.
LEMMA OldAlone ==
    ASSUME MeshTypes, VertexInv, LinkInv, MeshFits, phase = "fan", FanParts,
           NEW t \in Alive \ cavity, NEW k \in 1 .. 3
    PROVE  /\ Rewired(Ring, t, k) # t
           /\ Rewired(Ring, t, k) \in Alive'
              \/ \A v \in EdgeOf(tris[t], k) : IsSuper(v)
<1>1. /\ t \in 1 .. Len(tris) /\ Len(tris) \in Nat /\ DOMAIN Ring = 1 .. Len(Ring)
      /\ Len(Ring) \in Nat
      /\ \A j \in 1 .. Len(Ring) : Len(tris) + j \in Alive'
      /\ \A u \in Alive \ cavity : u \in Alive'
    BY RingLists DEF FanParts
<1>2. CASE \A j \in DOMAIN Ring : ~(/\ nbrs[Ring[j][1]][Ring[j][2]] = t
                                    /\ EdgeAt(Ring[j]) = EdgeOf(tris[t], k))
  <2>1. Rewired(Ring, t, k) = nbrs[t][k]
      BY <1>2, RewiredIs
  <2>2. nbrs[t][k] \notin cavity
      BY <1>2, OnTheRing
  <2>3. /\ nbrs[t][k] # t
        /\ nbrs[t][k] \in Alive \/ \A v \in EdgeOf(tris[t], k) : IsSuper(v)
      BY DEF MeshFits
  <2> QED
      BY <1>1, <2>1, <2>2, <2>3
<1>3. CASE \E j \in DOMAIN Ring : /\ nbrs[Ring[j][1]][Ring[j][2]] = t
                                  /\ EdgeAt(Ring[j]) = EdgeOf(tris[t], k)
                                  /\ Rewired(Ring, t, k) = Len(tris) + j
  <2>1. PICK j \in 1 .. Len(Ring) : Rewired(Ring, t, k) = Len(tris) + j
      BY <1>1, <1>3
  <2>2. Len(tris) + j # t
      BY <1>1
  <2> QED
      BY <1>1, <2>1, <2>2
<1> QED
    BY <1>2, <1>3, RewiredIs

\* Of a new triangle: outside the ring it takes over a neighbour, and its other
\* two it has.
LEMMA NewAlone ==
    ASSUME MeshTypes, VertexInv, LinkInv, MeshFits, RingOrder, phase = "fan", FanParts,
           NEW j \in 1 .. Len(Ring), NEW k \in 1 .. 3
    PROVE  /\ NewLinks(j)[k] # Len(tris) + j
           /\ NewLinks(j)[k] \in Alive'
              \/ \A v \in EdgeOf(Joined(Ring[j]), k) : IsSuper(v)
<1>1. /\ Len(tris) \in Nat /\ DOMAIN Ring = 1 .. Len(Ring) /\ Len(Ring) \in Nat
      /\ \A l \in 1 .. Len(Ring) : Len(tris) + l \in Alive'
      /\ \A u \in Alive \ cavity : u \in Alive'
      /\ Ring[j] \in cavity \X (1 .. 3)
      /\ \A r \in cavity \X (1 .. 3) : EdgeAt(r) = EdgeAt(Ring[j]) => r = Ring[j]
    BY RingLists, ElementOfSeq DEF FanParts
<1>2. cavity \subseteq Alive /\ Alive \subseteq 1 .. Len(tris)
    BY DEF FanParts
<1>3. Joined(Ring[j]) = <<Start(j), Stop(j), i>> /\ EdgeAt(Ring[j]) = {Start(j), Stop(j)}
    BY DEF RingOrder
<1>4. k \in {1, 2, 3}
    OBVIOUS
<1>5. CASE k = 1
  <2>1. PICK c \in cavity, m \in 1 .. 3 : Ring[j] = <<c, m>>
      BY <1>1
  <2>2. Ring[j][1] = c /\ Ring[j][2] = m
      BY <2>1
  <2>3. NewLinks(j)[1] = nbrs[c][m]
      BY <2>2 DEF NewLinks
  <2>4. EdgeOf(Joined(Ring[j]), 1) = EdgeOf(tris[c], m)
    <3>1. EdgeOf(Joined(Ring[j]), 1) = {Start(j), Stop(j)}
        BY <1>3, Corners3
    <3> QED
        BY <1>3, <2>2, <3>1 DEF EdgeAt
  <2>5. nbrs[c][m] # c /\ (nbrs[c][m] \in Alive \/ \A v \in EdgeOf(tris[c], m) : IsSuper(v))
      BY <1>2 DEF MeshFits
  <2>6. nbrs[c][m] # Len(tris) + j
    <3>1. nbrs[c] \in [1 .. 3 -> 1 .. Len(tris) \union {0}]
        BY <1>1, <1>2, LenProperties DEF MeshTypes
    <3>2. nbrs[c][m] \in 1 .. Len(tris) \union {0}
        BY <3>1
    <3> QED
        BY <1>1, <3>2
  <2>7. nbrs[c][m] \notin cavity
    <3> SUFFICES ASSUME nbrs[c][m] \in cavity PROVE FALSE
        OBVIOUS
    <3>1. Mutual(c, m)
        BY <1>2 DEF LinkInv, Inserting
    <3>2. PICK l \in 1 .. 3 : EdgeOf(tris[nbrs[c][m]], l) = EdgeOf(tris[c], m)
        BY <3>1 DEF Mutual
    <3>3. <<nbrs[c][m], l>> \in cavity \X (1 .. 3) /\ EdgeAt(<<nbrs[c][m], l>>) = EdgeAt(Ring[j])
        BY <2>2, <3>2 DEF EdgeAt
    <3>4. <<nbrs[c][m], l>> = <<c, m>>
        BY <1>1, <2>1, <3>3
    <3> QED
        BY <2>5, <3>4
  <2> QED
      BY <1>1, <1>5, <2>3, <2>4, <2>5, <2>6, <2>7
<1>6. CASE k = 2
  <2>1. PICK l \in 1 .. Len(Ring) : Start(l) = Stop(j)
      BY DEF RingOrder
  <2>2. j # l /\ Mate(NewTris, j, EdgeOf(Joined(Ring[j]), 2)) = Len(tris) + l
      BY <2>1, MatesMeet
  <2>3. NewLinks(j)[2] = Mate(NewTris, j, EdgeOf(Joined(Ring[j]), 2))
      BY <1>1 DEF NewLinks, NewTris
  <2>4. Len(tris) + l # Len(tris) + j
      BY <1>1, <2>2
  <2> QED
      BY <1>1, <1>6, <2>2, <2>3, <2>4
<1>7. CASE k = 3
  <2>1. PICK l \in 1 .. Len(Ring) : Stop(l) = Start(j)
      BY DEF RingOrder
  <2>2. j # l /\ Mate(NewTris, j, EdgeOf(Joined(Ring[j]), 3)) = Len(tris) + l
      BY <2>1, MatesMeet
  <2>3. NewLinks(j)[3] = Mate(NewTris, j, EdgeOf(Joined(Ring[j]), 3))
      BY <1>1 DEF NewLinks, NewTris
  <2>4. Len(tris) + l # Len(tris) + j
      BY <1>1, <2>2
  <2> QED
      BY <1>1, <1>7, <2>2, <2>3, <2>4
<1> QED
    BY <1>4, <1>5, <1>6, <1>7

\* What MeshFits says of two triangles and an edge of theirs.
FitAt(tri1, tri2, link, u, k, l) ==
    /\ link = u
    /\ tri1[k] = tri2[Nxt(l)]
    /\ \A m, n \in 1 .. 3 : EdgeOf(tri1, m) = EdgeOf(tri2, n) => m = k

\* If the ring closes, the mesh fits together after the fan.
LEMMA FanFits ==
    ASSUME MeshTypes, VertexInv, LinkInv, MeshFits, RingCloses, Fan
    PROVE  MeshFits'
<1> DEFINE N == Len(tris)
<1> DEFINE M == Len(Ring)
<1>1. phase = "fan" /\ FanParts /\ RingOrder
  <2>1. phase = "fan"
      BY DEF Fan
  <2> QED
      BY <2>1, FanInParts, RingInOrder
<1>2. /\ N \in Nat /\ M \in Nat
      /\ \A t \in Alive' : t \in Alive \ cavity \/ \E j \in 1 .. M : t = N + j
      /\ \A t \in Alive \ cavity :
           /\ tris'[t] = tris[t]
           /\ t \in 1 .. N
           /\ \A k \in 1 .. 3 : nbrs'[t][k] = Rewired(Ring, t, k)
           /\ \A k \in 1 .. 3 : i \notin EdgeOf(tris[t], k)
      /\ \A j \in 1 .. M : tris'[N + j] = Joined(Ring[j]) /\ nbrs'[N + j] = NewLinks(j)
    BY <1>1 DEF FanParts
<1>3. pts' = pts
    BY DEF Fan, points
<1>4. \A t \in Alive \ cavity : Proper(tris[t])
    BY <1>1 DEF VertexInv, Inserting, Alive
<1> HIDE DEF N, M
<1>5. ASSUME NEW t \in Alive \ cavity, NEW u \in Alive \ cavity, t # u,
             NEW k \in 1 .. 3, NEW l \in 1 .. 3, EdgeOf(tris[t], k) = EdgeOf(tris[u], l)
      PROVE  FitAt(tris[t], tris[u], Rewired(Ring, t, k), u, k, l)
  <2>1. Rewired(Ring, t, k) = u
      BY <1>1, <1>5, OldAndOld
  <2>2. tris[t][k] = tris[u][Nxt(l)] /\ \A m, n \in 1 .. 3 : EdgeOf(tris[t], m) = EdgeOf(tris[u], n) => m = k
      BY <1>5 DEF MeshFits
  <2> QED
      BY <2>1, <2>2 DEF FitAt
<1>6. ASSUME NEW t \in Alive \ cavity, NEW j \in 1 .. M,
             NEW k \in 1 .. 3, NEW l \in 1 .. 3, EdgeOf(tris[t], k) = EdgeOf(Joined(Ring[j]), l)
      PROVE  /\ FitAt(tris[t], Joined(Ring[j]), Rewired(Ring, t, k), N + j, k, l)
             /\ FitAt(Joined(Ring[j]), tris[t], NewLinks(j)[l], t, l, k)
  <2>1. /\ l = 1 /\ Rewired(Ring, t, k) = N + j /\ NewLinks(j)[1] = t
        /\ tris[t][k] = Stop(j) /\ tris[t][Nxt(k)] = Start(j)
        /\ EdgeOf(tris[t], k) = EdgeAt(Ring[j])
      BY <1>1, <1>2, <1>6, OldAndNew DEF N, M
  <2>2. Joined(Ring[j])[1] = Start(j) /\ Joined(Ring[j])[Nxt(1)] = Stop(j)
    <3>1. Joined(Ring[j]) = <<Start(j), Stop(j), i>> /\ Nxt(1) = 2
        BY <1>1, Sides DEF RingOrder, M
    <3> QED
        BY <3>1
  <2>3. ASSUME NEW m \in 1 .. 3, NEW n \in 1 .. 3, EdgeOf(tris[t], m) = EdgeOf(Joined(Ring[j]), n)
        PROVE  m = k /\ n = 1
    <3>1. n = 1 /\ EdgeOf(tris[t], m) = EdgeAt(Ring[j])
        BY <1>1, <1>2, <2>3, OldAndNew DEF M
    <3> QED
        BY <1>4, <2>1, <3>1, SidesDiffer
  <2> QED
      BY <2>1, <2>2, <2>3 DEF FitAt
<1>7. ASSUME NEW j \in 1 .. M, NEW l \in 1 .. M, j # l,
             NEW k \in 1 .. 3, NEW n \in 1 .. 3,
             EdgeOf(Joined(Ring[j]), k) = EdgeOf(Joined(Ring[l]), n)
      PROVE  FitAt(Joined(Ring[j]), Joined(Ring[l]), NewLinks(j)[k], N + l, k, n)
  <2>1. \/ k = 2 /\ n = 3 /\ Stop(j) = Start(l)
        \/ k = 3 /\ n = 2 /\ Start(j) = Stop(l)
      BY <1>1, <1>7, NewAndNew DEF M
  <2>2. /\ Joined(Ring[j]) = <<Start(j), Stop(j), i>> /\ EdgeAt(Ring[j]) = {Start(j), Stop(j)}
        /\ Joined(Ring[l]) = <<Start(l), Stop(l), i>> /\ EdgeAt(Ring[l]) = {Start(l), Stop(l)}
      BY <1>1 DEF RingOrder, M
  <2>3. EdgeAt(Ring[j]) # EdgeAt(Ring[l])
      BY <1>7, EdgesOnRing DEF M
  <2>4. \A m, o \in 1 .. 3 : EdgeOf(Joined(Ring[j]), m) = EdgeOf(Joined(Ring[l]), o) => m = k
    <3> SUFFICES ASSUME NEW m \in 1 .. 3, NEW o \in 1 .. 3,
                        EdgeOf(Joined(Ring[j]), m) = EdgeOf(Joined(Ring[l]), o)
                 PROVE  m = k
        OBVIOUS
    <3>1. \/ m = 2 /\ o = 3 /\ Stop(j) = Start(l)
          \/ m = 3 /\ o = 2 /\ Start(j) = Stop(l)
        BY <1>1, <1>7, NewAndNew DEF M
    <3> QED
        BY <2>1, <2>2, <2>3, <3>1
  <2>5. NewLinks(j)[2] = Mate(NewTris, j, EdgeOf(Joined(Ring[j]), 2))
        /\ NewLinks(j)[3] = Mate(NewTris, j, EdgeOf(Joined(Ring[j]), 3))
      BY RingLists DEF NewLinks, NewTris, M
  <2>6. NewLinks(j)[k] = N + l
      BY <1>1, <2>1, <2>5, MatesMeet DEF N, M
  <2>7. Joined(Ring[j])[k] = Joined(Ring[l])[Nxt(n)]
      BY <2>1, <2>2, Sides
  <2> QED
      BY <2>4, <2>6, <2>7 DEF FitAt
<1>8. ASSUME NEW t \in Alive', NEW u \in Alive', t # u, NEW k \in 1 .. 3, NEW l \in 1 .. 3,
             EdgeOf(tris'[t], k) = EdgeOf(tris'[u], l)
      PROVE  FitAt(tris'[t], tris'[u], nbrs'[t][k], u, k, l)
  <2>1. CASE t \in Alive \ cavity /\ u \in Alive \ cavity
      BY <1>2, <1>5, <1>8, <2>1
  <2>2. ASSUME t \in Alive \ cavity, NEW j \in 1 .. M, u = N + j
        PROVE  FitAt(tris'[t], tris'[u], nbrs'[t][k], u, k, l)
      BY <1>2, <1>6, <1>8, <2>2
  <2>3. ASSUME u \in Alive \ cavity, NEW j \in 1 .. M, t = N + j
        PROVE  FitAt(tris'[t], tris'[u], nbrs'[t][k], u, k, l)
      BY <1>2, <1>6, <1>8, <2>3
  <2>4. ASSUME NEW j \in 1 .. M, t = N + j, NEW n \in 1 .. M, u = N + n
        PROVE  FitAt(tris'[t], tris'[u], nbrs'[t][k], u, k, l)
    <3>1. j # n /\ EdgeOf(Joined(Ring[j]), k) = EdgeOf(Joined(Ring[n]), l)
        BY <1>2, <1>8, <2>4
    <3>2. FitAt(Joined(Ring[j]), Joined(Ring[n]), NewLinks(j)[k], N + n, k, l)
        BY <1>7, <3>1
    <3> QED
        BY <1>2, <2>4, <3>2
  <2> QED
      BY <1>2, <2>1, <2>2, <2>3, <2>4
<1>9. ASSUME NEW t \in Alive', NEW k \in 1 .. 3
      PROVE  /\ nbrs'[t][k] # t
             /\ nbrs'[t][k] \in Alive' \/ \A v \in EdgeOf(tris'[t], k) : IsSuper(v)
  <2>1. CASE t \in Alive \ cavity
      BY <1>1, <1>2, <2>1, OldAlone
  <2>2. ASSUME NEW j \in 1 .. M, t = N + j
        PROVE  /\ nbrs'[t][k] # t
               /\ nbrs'[t][k] \in Alive' \/ \A v \in EdgeOf(tris'[t], k) : IsSuper(v)
      BY <1>1, <1>2, <2>2, NewAlone DEF N, M
  <2> QED
      BY <1>2, <2>1, <2>2
<1>10. \A t \in Alive', k \in 1 .. 3 :
         nbrs'[t][k] # t /\ (nbrs'[t][k] \notin Alive' => \A v \in EdgeOf(tris'[t], k) : IsSuper(v)')
    BY <1>3, <1>9 DEF IsSuper
<1>11. \A t, u \in Alive' : \A k, l \in 1 .. 3 :
         t # u /\ EdgeOf(tris'[t], k) = EdgeOf(tris'[u], l) =>
            /\ nbrs'[t][k] = u
            /\ tris'[t][k] = tris'[u][Nxt(l)]
            /\ \A m, n \in 1 .. 3 : EdgeOf(tris'[t], m) = EdgeOf(tris'[u], n) => m = k
    BY <1>8 DEF FitAt
<1> QED
    BY <1>10, <1>11 DEF MeshFits, EdgeOf, Edge, Nxt

\* The super-triangle alone fits.
LEMMA FitsInit == DInit => MeshFits
<1> SUFFICES ASSUME DInit PROVE MeshFits
    OBVIOUS
<1>1. Len(pts) \in Nat
    BY MeshInit, LenProperties DEF MeshTypes
<1>2. tris[1] = <<Len(pts) + 1, Len(pts) + 2, Len(pts) + 3>> /\ DOMAIN tris = {1}
    BY DEF DInit
<1>3. Alive \subseteq {1} /\ \A k \in 1 .. 3 : nbrs[1][k] = 0
    BY <1>2 DEF Alive, DInit
<1>4. \A k \in 1 .. 3 : \A v \in EdgeOf(tris[1], k) : IsSuper(v)
  <2>1. \A n \in {1, 2, 3} : IsSuper(tris[1][n])
      BY <1>1, <1>2 DEF IsSuper
  <2>2. \A k \in 1 .. 3 : k \in {1, 2, 3} /\ Nxt(k) \in {1, 2, 3}
      BY DEF Nxt
  <2> QED
      BY <2>1, <2>2 DEF EdgeOf, Edge
<1>5. \A t \in Alive : t = 1
    BY <1>3
<1>6. \A t, u \in Alive : t = u
    BY <1>5
<1>7. ASSUME NEW t \in Alive, NEW k \in 1 .. 3
      PROVE  nbrs[t][k] # t /\ \A v \in EdgeOf(tris[t], k) : IsSuper(v)
  <2>1. t = 1 /\ nbrs[t][k] = 0
      BY <1>3, <1>5
  <2> QED
      BY <1>4, <2>1
<1> QED
    BY <1>6, <1>7 DEF MeshFits

\* Every other step leaves the mesh as it is.
LEMMA FitsNext ==
    DInv /\ MeshFits /\ (phase = "fan" => RingCloses) /\ [DNext]_dvars => MeshFits'
<1> SUFFICES ASSUME DInv, MeshFits, phase = "fan" => RingCloses, [DNext]_dvars
             PROVE  MeshFits'
    OBVIOUS
<1>1. CASE Fan
  <2>1. phase = "fan"
      BY <1>1 DEF Fan
  <2> QED
      BY <1>1, <2>1, FanFits DEF DInv, MeshInv
<1>2. CASE UNCHANGED <<points, mesh>>
  <2>1. tris' = tris /\ nbrs' = nbrs /\ Alive' = Alive /\ pts' = pts
      BY <1>2 DEF mesh, points, Alive
  <2>2. \A t, k : EdgeOf(tris[t], k)' = EdgeOf(tris[t], k)
      BY <2>1 DEF EdgeOf, Edge, Nxt
  <2>3. \A v : IsSuper(v)' <=> IsSuper(v)
      BY <2>1 DEF IsSuper
  <2> QED
      BY <2>1, <2>2, <2>3, SMTT(30) DEF MeshFits, Nxt
<1>3. Fan \/ UNCHANGED <<points, mesh>>
    BY DEF DNext, NextPoint, Walk, Arrive, Flood, Flooded, Finalize, Pop, Finish, Done,
           dvars, points, mesh
<1> QED
    BY <1>1, <1>2, <1>3

\* With links that lead back, that is what Meshed says.
LEMMA FitsIsMeshed ==
    ASSUME MeshFits, LinkInv, phase = "insert"
    PROVE  Meshed
<1>1. \A t \in Alive, k \in 1 .. 3 : nbrs[t][k] \in Alive => Mutual(t, k)
    BY DEF LinkInv, Inserting
<1>2. ASSUME NEW t \in Alive, NEW u \in Alive, NEW k \in 1 .. 3, NEW l \in 1 .. 3, t # u,
             nbrs[t][k] = u, nbrs[u][l] = t
      PROVE  EdgeOf(tris[t], k) = EdgeOf(tris[u], l)
  <2>1. PICK n \in 1 .. 3 : EdgeOf(tris[u], n) = EdgeOf(tris[t], k)
      BY <1>1, <1>2 DEF Mutual
  <2>2. PICK m \in 1 .. 3 : EdgeOf(tris[t], m) = EdgeOf(tris[u], l)
      BY <1>1, <1>2 DEF Mutual
  <2>3. m = k
      BY <1>2, <2>1, <2>2 DEF MeshFits
  <2> QED
      BY <2>2, <2>3
<1>3. ASSUME NEW t \in Alive, NEW u \in Alive, NEW k \in 1 .. 3, NEW l \in 1 .. 3, t # u,
             EdgeOf(tris[t], k) = EdgeOf(tris[u], l)
      PROVE  nbrs[t][k] = u /\ nbrs[u][l] = t /\ tris[t][k] = tris[u][Nxt(l)]
    BY <1>3 DEF MeshFits
<1> QED
    BY <1>2, <1>3 DEF Meshed, MeshFits

-----------------------------------------------------------------------------
\* The super-triangle.

\* The size of the coordinates: no less than one, which is ten here.
Sizes(s) == {10} \union {Abs(s[p][c]) : p \in DOMAIN s, c \in {1, 2}}
Scale(s) == Max(Sizes(s))

\* No coordinate of the first n points is larger than b.
Within(s, n, b) == \A p \in 1 .. n : Abs(s[p][1]) <= b /\ Abs(s[p][2]) <= b

\* The sizes of a list's coordinates are bounded.
LEMMA SizesBounded ==
    ASSUME NEW s \in Seq(Int \X Int)
    PROVE  \E b \in Nat : \A x \in Sizes(s) : x <= b
<1> DEFINE Bad == {n \in Nat : n <= Len(s) /\ ~\E b \in Nat : Within(s, n, b)}
<1>1. Len(s) \in Nat /\ DOMAIN s = 1 .. Len(s) /\ \A p \in 1 .. Len(s) : s[p] \in Int \X Int
    BY LenProperties, ElementOfSeq
<1>2. \A p \in 1 .. Len(s) : Abs(s[p][1]) \in Nat /\ Abs(s[p][2]) \in Nat
    BY <1>1 DEF Abs
<1>3. Bad = {}
  <2> SUFFICES ASSUME Bad # {} PROVE FALSE
      OBVIOUS
  <2>1. PICK n \in Bad : \A m \in Bad : n <= m
    <3>1. Bad \in SUBSET Nat
        OBVIOUS
    <3> HIDE DEF Bad
    <3> QED
        BY <3>1, Least
  <2>2. n \in Nat /\ n <= Len(s) /\ ~\E b \in Nat : Within(s, n, b)
      OBVIOUS
  <2>3. n # 0
    <3>1. Within(s, 0, 0)
        BY DEF Within
    <3> QED
        BY <2>2, <3>1
  <2>4. \E b \in Nat : Within(s, n - 1, b)
    <3>1. n - 1 \in Nat /\ n - 1 <= Len(s) /\ ~(n <= n - 1)
        BY <1>1, <2>2, <2>3
    <3>2. n - 1 \notin Bad
        BY ONLY <2>1, <3>1, Zenon
    <3> QED
        BY <3>1, <3>2
  <2>5. PICK b \in Nat : Within(s, n - 1, b)
      BY <2>4
  <2>6. n \in 1 .. Len(s)
      BY <1>1, <2>2, <2>3
  <2>7. Abs(s[n][1]) \in Nat /\ Abs(s[n][2]) \in Nat
      BY <1>2, <2>6
  <2>8. PICK c \in Nat : b <= c /\ Abs(s[n][1]) <= c /\ Abs(s[n][2]) <= c
    <3>1. \A x, y \in Nat : b + x + y \in Nat /\ b <= b + x + y /\ x <= b + x + y /\ y <= b + x + y
        OBVIOUS
    <3> QED
        BY ONLY <2>7, <3>1, Zenon
  <2>9. ASSUME NEW p \in 1 .. n PROVE Abs(s[p][1]) <= c /\ Abs(s[p][2]) <= c
    <3>1. CASE p = n
        BY <2>8, <3>1
    <3>2. CASE p # n
      <4>1. p \in 1 .. n - 1 /\ p \in 1 .. Len(s)
          BY <1>1, <2>2, <3>2
      <4>2. /\ Abs(s[p][1]) <= b /\ Abs(s[p][2]) <= b
            /\ Abs(s[p][1]) \in Nat /\ Abs(s[p][2]) \in Nat
          BY <1>2, <2>5, <4>1 DEF Within
      <4>3. \A x, y \in Nat : x <= b /\ y <= b => x <= c /\ y <= c
          BY ONLY <2>8, b \in Nat, c \in Nat, SMT
      <4> QED
          BY ONLY <4>2, <4>3, Zenon
    <3> QED
        BY <3>1, <3>2
  <2>10. Within(s, n, c)
      BY <2>9 DEF Within
  <2> QED
      BY <2>2, <2>10
<1>4. PICK b \in Nat : Within(s, Len(s), b)
  <2>1. Len(s) <= Len(s) /\ Len(s) \notin Bad
      BY <1>1, <1>3
  <2> QED
      BY <1>1, <2>1
<1>5. ASSUME NEW x \in Sizes(s) PROVE x <= b + 10
  <2>1. x = 10 \/ \E p \in 1 .. Len(s) : x = Abs(s[p][1]) \/ x = Abs(s[p][2])
      BY <1>1 DEF Sizes
  <2> QED
      BY <1>2, <1>4, <2>1 DEF Within
<1>6. b + 10 \in Nat
    OBVIOUS
<1> QED
    BY <1>5, <1>6

\* So one of them is the largest.
LEMMA ScaleIs ==
    ASSUME NEW s \in Seq(Int \X Int)
    PROVE  Scale(s) \in Sizes(s) /\ Scale(s) \in Nat /\ \A x \in Sizes(s) : x <= Scale(s)
<1>1. Sizes(s) \subseteq Nat /\ 10 \in Sizes(s)
  <2>1. DOMAIN s = 1 .. Len(s) /\ \A p \in 1 .. Len(s) : s[p] \in Int \X Int
      BY LenProperties, ElementOfSeq
  <2>2. \A p \in DOMAIN s : \A c \in {1, 2} : Abs(s[p][c]) \in Nat
      BY <2>1 DEF Abs
  <2> QED
      BY <2>2 DEF Sizes
<1> DEFINE T == {b \in Nat : \A x \in Sizes(s) : x <= b}
<1>2. PICK m \in T : \A b \in T : m <= b
  <2>1. T \in SUBSET Nat /\ T # {}
      BY SizesBounded
  <2> HIDE DEF T
  <2> QED
      BY <2>1, Least
<1>3. m \in Sizes(s)
  <2> SUFFICES ASSUME m \notin Sizes(s) PROVE FALSE
      OBVIOUS
  <2>1. m \in Nat /\ 10 <= m /\ \A x \in Sizes(s) : x \in Nat /\ x <= m /\ x # m
      BY <1>1
  <2>2. m - 1 \in T
      BY <2>1
  <2> QED
      BY <1>2, <2>1, <2>2
<1>4. \E x \in Sizes(s) : \A y \in Sizes(s) : x >= y
  <2>1. \A y \in Sizes(s) : m >= y
      BY <1>1
  <2> QED
      BY <1>3, <2>1
<1>5. Scale(s) \in Sizes(s) /\ \A y \in Sizes(s) : Scale(s) >= y
    BY <1>4 DEF Scale, Max
<1> QED
    BY <1>1, <1>5

\* Ten times a whole number no less than one, when all coordinates are.
LEMMA ScaleIsTens ==
    ASSUME NEW s \in Seq(Int \X Int),
           \A p \in DOMAIN s : \E x, y \in Int : s[p] = <<10 * x, 10 * y>>
    PROVE  \E m \in Nat \ {0} :
             /\ Scale(s) = 10 * m
             /\ \A p \in DOMAIN s : /\ -(10 * m) <= s[p][1] /\ s[p][1] <= 10 * m
                                    /\ -(10 * m) <= s[p][2] /\ s[p][2] <= 10 * m
<1>1. Scale(s) \in Sizes(s) /\ Scale(s) \in Nat /\ \A x \in Sizes(s) : x <= Scale(s)
    BY ScaleIs
<1>2. 10 <= Scale(s)
    BY <1>1 DEF Sizes
<1>3. \A p \in DOMAIN s : \A c \in {1, 2} : \E z \in Int : s[p][c] = 10 * z
  <2> SUFFICES ASSUME NEW p \in DOMAIN s, NEW c \in {1, 2}
               PROVE  \E z \in Int : s[p][c] = 10 * z
      OBVIOUS
  <2>1. PICK x \in Int, y \in Int : s[p] = <<10 * x, 10 * y>>
      OBVIOUS
  <2> QED
      BY <2>1
<1>4. \E m \in Nat \ {0} : Scale(s) = 10 * m
  <2>1. CASE Scale(s) = 10
      BY <2>1
  <2>2. ASSUME NEW p \in DOMAIN s, NEW c \in {1, 2}, Scale(s) = Abs(s[p][c])
        PROVE  \E m \in Nat \ {0} : Scale(s) = 10 * m
    <3>1. PICK z \in Int : s[p][c] = 10 * z
        BY <1>3
    <3>2. Scale(s) = 10 * z \/ Scale(s) = 10 * (-z)
        BY <2>2, <3>1 DEF Abs
    <3>4. CASE Scale(s) = 10 * z
      <4>1. z \in Nat \ {0}
          BY <1>2, <3>4
      <4> QED
          BY <3>4, <4>1
    <3>5. CASE Scale(s) = 10 * (-z)
      <4>1. -z \in Nat \ {0}
          BY <1>2, <3>5
      <4> QED
          BY <3>5, <4>1
    <3> QED
        BY <3>2, <3>4, <3>5
  <2> QED
      BY <1>1, <2>1, <2>2 DEF Sizes
<1>5. PICK m \in Nat \ {0} : Scale(s) = 10 * m
    BY <1>4
<1>6. ASSUME NEW p \in DOMAIN s, NEW c \in {1, 2}
      PROVE  -(10 * m) <= s[p][c] /\ s[p][c] <= 10 * m
  <2>1. Abs(s[p][c]) \in Sizes(s)
      BY DEF Sizes
  <2>2. Abs(s[p][c]) <= 10 * m
      BY <1>1, <1>5, <2>1
  <2>3. PICK z \in Int : s[p][c] = 10 * z
      BY <1>3
  <2> QED
      BY <2>2, <2>3 DEF Abs
<1> QED
    BY <1>5, <1>6

\* The vertices of the super-triangle of points no farther out than 10 * m.
LEMMA SuperIs ==
    ASSUME NEW s, NEW m \in Nat \ {0}, Scale(s) = 10 * m
    PROVE  Super(s) = <<<<30 * m + 17, 13>>, <<-(25 * m) - 9, 31 * m + 23>>,
                        <<-(8 * m) - 11, -(27 * m) - 7>>>>
<1>1. Super(s) = <<<<3 * Scale(s) + 17, 13>>,
                   <<0 - (25 * Scale(s)) \div 10 - 9, (31 * Scale(s)) \div 10 + 23>>,
                   <<0 - (8 * Scale(s)) \div 10 - 11, 0 - (27 * Scale(s)) \div 10 - 7>>>>
    BY DEF Super, Scale, Sizes
<1>2. Super(s) = <<<<3 * (10 * m) + 17, 13>>,
                   <<0 - (25 * (10 * m)) \div 10 - 9, (31 * (10 * m)) \div 10 + 23>>,
                   <<0 - (8 * (10 * m)) \div 10 - 11, 0 - (27 * (10 * m)) \div 10 - 7>>>>
    BY <1>1
<1>3. /\ (25 * (10 * m)) \div 10 = 25 * m /\ (31 * (10 * m)) \div 10 = 31 * m
      /\ (8 * (10 * m)) \div 10 = 8 * m /\ (27 * (10 * m)) \div 10 = 27 * m
    OBVIOUS
<1> QED
    BY <1>2, <1>3

\* To the left of its sides is every point of that square.
LEMMA SquareIsInside ==
    ASSUME NEW m \in Nat \ {0}, NEW x \in Int, NEW y \in Int,
           -(10 * m) <= x, x <= 10 * m, -(10 * m) <= y, y <= 10 * m
    PROVE  LET a == <<30 * m + 17, 13>>
               b == <<-(25 * m) - 9, 31 * m + 23>>
               c == <<-(8 * m) - 11, -(27 * m) - 7>>
               p == <<x, y>>
           IN  Orient(a, b, p) > 0 /\ Orient(b, c, p) > 0 /\ Orient(c, a, p) > 0
<1> DEFINE a == <<30 * m + 17, 13>>
<1> DEFINE b == <<-(25 * m) - 9, 31 * m + 23>>
<1> DEFINE c == <<-(8 * m) - 11, -(27 * m) - 7>>
<1> DEFINE p == <<x, y>>
<1>1. \A f, g \in Int : f >= 0 /\ g >= 0 => f * g >= 0
    OBVIOUS
<1>2. m * m >= 1 /\ m >= 1
    OBVIOUS
<1>3. Orient(a, b, p) > 0
  <2>1. Orient(a, b, p) = (55 * m + 26) * (10 * m - y) + (31 * m + 10) * (10 * m - x)
                          + 70 * (m * m) + 1182 * m + 508
      BY DEF Orient
  <2>2. (55 * m + 26) * (10 * m - y) >= 0 /\ (31 * m + 10) * (10 * m - x) >= 0
      BY <1>1
  <2> QED
      BY <1>2, <2>1, <2>2
<1>4. Orient(b, c, p) > 0
  <2>1. Orient(b, c, p) = (17 * m - 2) * (y + 10 * m) + (58 * m + 30) * (x + 10 * m)
                          + 173 * (m * m) + 663 * m + 316
      BY DEF Orient
  <2>2. (17 * m - 2) * (y + 10 * m) >= 0 /\ (58 * m + 30) * (x + 10 * m) >= 0
      BY <1>1
  <2> QED
      BY <1>2, <2>1, <2>2
<1>5. Orient(c, a, p) > 0
  <2>1. Orient(c, a, p) = (38 * m + 28) * (y + 10 * m) + (27 * m + 20) * (10 * m - x)
                          + 160 * (m * m) + 85 * m - 24
      BY DEF Orient
  <2>2. (38 * m + 28) * (y + 10 * m) >= 0 /\ (27 * m + 20) * (10 * m - x) >= 0
      BY <1>1
  <2> QED
      BY <1>2, <2>1, <2>2
<1> QED
    BY <1>3, <1>4, <1>5

\* Of the points with the same coordinates one is kept, and no point is lost:
\* what insert counts on when it takes every point for a new one.
THEOREM DedupKeepsEach ==
    ASSUME NEW s \in Seq(Int \X Int)
    PROVE  /\ \A p, q \in DOMAIN Dedup(s) : Dedup(s)[p] = Dedup(s)[q] => p = q
           /\ \A k \in DOMAIN s : \E p \in DOMAIN Dedup(s) :
                Dedup(s)[p] = <<10 * s[k][1], 10 * s[k][2]>>
<1> DEFINE S == {k \in DOMAIN s : \A j \in 1 .. k - 1 : s[j] # s[k]}
<1> DEFINE L == Ascending(S)
<1>1. DOMAIN s = 1 .. Len(s) /\ Len(s) \in Nat /\ \A k \in 1 .. Len(s) : s[k] \in Int \X Int
    BY LenProperties, ElementOfSeq
<1>2. S \in SUBSET Int /\ IsFiniteSet(S)
  <2>1. S \in SUBSET (1 .. Len(s)) /\ IsFiniteSet(1 .. Len(s))
      BY <1>1, FS_Interval
  <2>2. 1 .. Len(s) \subseteq Int
      BY <1>1
  <2> HIDE DEF S
  <2> QED
      BY <2>1, <2>2, FS_Subset
<1>3. \A k, l \in S : s[k] = s[l] => k = l
  <2> SUFFICES ASSUME NEW k \in S, NEW l \in S, s[k] = s[l], k < l PROVE FALSE
    <3>1. \A k, l \in S : k \in Int /\ l \in Int /\ (k < l \/ l < k \/ k = l)
        BY <1>2
    <3> HIDE DEF S
    <3> QED
        BY <3>1
  <2>1. k \in 1 .. l - 1
      BY <1>1
  <2> QED
      BY <2>1
<1>4. ASSUME NEW k \in DOMAIN s PROVE \E l \in S : s[l] = s[k]
  <2> DEFINE T == {j \in 1 .. Len(s) : s[j] = s[k]}
  <2>1. T \in SUBSET Nat /\ T # {}
      BY <1>1
  <2>2. PICK l \in T : \A j \in T : l <= j
    <3> HIDE DEF T
    <3> QED
        BY <2>1, Least
  <2>3. ASSUME NEW j \in 1 .. l - 1, s[j] = s[l] PROVE FALSE
    <3>1. j \in 1 .. Len(s) /\ ~(l <= j)
        BY <1>1
    <3>2. j \in T
        BY <2>3, <3>1
    <3> QED
        BY <2>2, <3>1, <3>2
  <2>4. l \in S
      BY <1>1, <2>3
  <2> QED
      BY <2>4
<1>5. Dedup(s) = [k \in DOMAIN L |-> <<10 * s[L[k]][1], 10 * s[L[k]][2]>>]
    BY Zenon DEF Dedup
<1>6. S \subseteq DOMAIN s
    OBVIOUS
<1> HIDE DEF S
<1>7. Range(L) = S /\ \A k, l \in DOMAIN L : L[k] = L[l] => k = l
    BY <1>2, AscendingLists
<1>8. \A k \in DOMAIN L : L[k] \in S
    BY <1>7 DEF Range
<1>9. \A l \in S : \E p \in DOMAIN L : L[p] = l
    BY <1>7 DEF Range
<1> HIDE DEF L
<1>10. ASSUME NEW p \in DOMAIN L, NEW q \in DOMAIN L, Dedup(s)[p] = Dedup(s)[q]
       PROVE  p = q
  <2>1. /\ Dedup(s)[p] = <<10 * s[L[p]][1], 10 * s[L[p]][2]>>
        /\ Dedup(s)[q] = <<10 * s[L[q]][1], 10 * s[L[q]][2]>>
      BY <1>5
  <2>2. s[L[p]] \in Int \X Int /\ s[L[q]] \in Int \X Int
      BY <1>1, <1>6, <1>8
  <2>3. \A c, d \in Int \X Int :
          <<10 * c[1], 10 * c[2]>> = <<10 * d[1], 10 * d[2]>> => c = d
    <3> SUFFICES ASSUME NEW c \in Int \X Int, NEW d \in Int \X Int,
                        <<10 * c[1], 10 * c[2]>> = <<10 * d[1], 10 * d[2]>>
                 PROVE  c = d
        OBVIOUS
    <3>1. 10 * c[1] = 10 * d[1] /\ 10 * c[2] = 10 * d[2]
        OBVIOUS
    <3>2. c[1] \in Int /\ c[2] \in Int /\ d[1] \in Int /\ d[2] \in Int
        OBVIOUS
    <3>3. c[1] = d[1] /\ c[2] = d[2]
        BY <3>1, <3>2
    <3>4. c = <<c[1], c[2]>> /\ d = <<d[1], d[2]>>
        OBVIOUS
    <3> QED
        BY <3>3, <3>4
  <2>4. s[L[p]] = s[L[q]]
    <3>1. <<10 * s[L[p]][1], 10 * s[L[p]][2]>> = <<10 * s[L[q]][1], 10 * s[L[q]][2]>>
        BY <1>10, <2>1
    <3> QED
        BY ONLY <2>2, <2>3, <3>1, Zenon
  <2> QED
      BY <1>3, <1>7, <1>8, <2>4
<1>11. ASSUME NEW k \in DOMAIN s
       PROVE  \E p \in DOMAIN L : Dedup(s)[p] = <<10 * s[k][1], 10 * s[k][2]>>
  <2>1. PICK p \in DOMAIN L : s[L[p]] = s[k]
      BY <1>4, <1>9
  <2> QED
      BY <1>5, <2>1
<1>12. DOMAIN Dedup(s) = DOMAIN L
    BY <1>5
<1> QED
    BY <1>10, <1>11, <1>12

\* Scaled, the coordinates of a list are multiples of ten.
LEMMA DedupScales ==
    ASSUME NEW s \in Seq(Int \X Int)
    PROVE  \A p \in DOMAIN Dedup(s) : \E x, y \in Int : Dedup(s)[p] = <<10 * x, 10 * y>>
<1> DEFINE S == {k \in DOMAIN s : \A j \in 1 .. k - 1 : s[j] # s[k]}
<1> DEFINE L == Ascending(S)
<1>1. DOMAIN s = 1 .. Len(s) /\ Len(s) \in Nat /\ \A k \in 1 .. Len(s) : s[k] \in Int \X Int
    BY LenProperties, ElementOfSeq
<1>2. S \in SUBSET Int /\ IsFiniteSet(S) /\ S \subseteq DOMAIN s
  <2>1. S \in SUBSET (1 .. Len(s)) /\ IsFiniteSet(1 .. Len(s))
      BY <1>1, FS_Interval
  <2>2. 1 .. Len(s) \subseteq Int
      BY <1>1
  <2> HIDE DEF S
  <2> QED
      BY <1>1, <2>1, <2>2, FS_Subset
<1>3. Dedup(s) = [k \in DOMAIN L |-> <<10 * s[L[k]][1], 10 * s[L[k]][2]>>]
    BY Zenon DEF Dedup
<1> HIDE DEF S
<1>4. \A k \in DOMAIN L : L[k] \in DOMAIN s
  <2>1. Range(L) = S
      BY <1>2, AscendingLists
  <2> QED
      BY <1>2, <2>1 DEF Range
<1> HIDE DEF L
<1> QED
    BY <1>1, <1>3, <1>4

\* The point p is to the left of the super-triangle's sides.
Inside(p) ==
    /\ Orient(coords[1], coords[2], p) > 0
    /\ Orient(coords[2], coords[3], p) > 0
    /\ Orient(coords[3], coords[1], p) > 0

\* The vertices of the super-triangle are points, and it has every other point
\* inside.
SuperInv ==
    /\ \A n \in 1 .. 3 : coords[n] \in Int \X Int
    /\ Orient(coords[1], coords[2], coords[3]) > 0
    /\ \A p \in Points : Inside(pts[p])

\* The super-triangle that the code sets up is as SuperInv says.
LEMMA SuperInit == DInit => SuperInv
<1> SUFFICES ASSUME DInit PROVE SuperInv
    OBVIOUS
<1>1. PICK s \in Seq(Int \X Int) : pts = Dedup(s)
    BY InputsAssumption DEF DInit
<1>2. pts \in Seq(Int \X Int) /\ Points = DOMAIN pts
    BY <1>1, DedupKeeps, LenProperties DEF Points
<1>3. \A p \in DOMAIN pts : \E x, y \in Int : pts[p] = <<10 * x, 10 * y>>
    BY <1>1, DedupScales
<1>4. PICK m \in Nat \ {0} :
        /\ Scale(pts) = 10 * m
        /\ \A p \in DOMAIN pts : /\ -(10 * m) <= pts[p][1] /\ pts[p][1] <= 10 * m
                                 /\ -(10 * m) <= pts[p][2] /\ pts[p][2] <= 10 * m
    BY <1>2, <1>3, ScaleIsTens
<1> DEFINE a == <<30 * m + 17, 13>>
<1> DEFINE b == <<-(25 * m) - 9, 31 * m + 23>>
<1> DEFINE c == <<-(8 * m) - 11, -(27 * m) - 7>>
<1>5. coords = <<a, b, c>>
    BY <1>4, SuperIs DEF DInit
<1>6. coords[1] = a /\ coords[2] = b /\ coords[3] = c
    BY <1>5
<1>7. \A n \in 1 .. 3 : coords[n] \in Int \X Int
  <2>1. a \in Int \X Int /\ b \in Int \X Int /\ c \in Int \X Int
      OBVIOUS
  <2>2. \A n \in 1 .. 3 : n \in {1, 2, 3}
      OBVIOUS
  <2> HIDE DEF a, b, c
  <2> QED
      BY <1>6, <2>1, <2>2
<1>8. Orient(a, b, c) > 0
  <2>1. Orient(a, b, c) = 2663 * (m * m) + 3050 * m + 800
      BY DEF Orient
  <2>2. m * m >= 1
      OBVIOUS
  <2> QED
      BY <2>1, <2>2
<1>9. ASSUME NEW p \in Points
      PROVE  Orient(a, b, pts[p]) > 0 /\ Orient(b, c, pts[p]) > 0 /\ Orient(c, a, pts[p]) > 0
  <2>1. PICK x \in Int, y \in Int : pts[p] = <<10 * x, 10 * y>>
      BY <1>2, <1>3
  <2>2. /\ -(10 * m) <= 10 * x /\ 10 * x <= 10 * m
        /\ -(10 * m) <= 10 * y /\ 10 * y <= 10 * m
      BY <1>2, <1>4, <2>1
  <2>3. 10 * x \in Int /\ 10 * y \in Int
      OBVIOUS
  <2> HIDE DEF a, b, c
  <2>4. LET q == <<10 * x, 10 * y>>
        IN  Orient(a, b, q) > 0 /\ Orient(b, c, q) > 0 /\ Orient(c, a, q) > 0
      BY <2>2, <2>3, SquareIsInside DEF a, b, c
  <2> QED
      BY <2>1, <2>4
<1> HIDE DEF a, b, c
<1> QED
    BY <1>6, <1>7, <1>8, <1>9 DEF SuperInv, Inside

\* Its points never change.
LEMMA SuperAlways == DSpec => []SuperInv
<1>1. SuperInv /\ [DNext]_dvars => SuperInv'
  <2> SUFFICES ASSUME SuperInv, [DNext]_dvars PROVE SuperInv'
      OBVIOUS
  <2>1. pts' = pts /\ coords' = coords
      BY DEF DNext, NextPoint, Walk, Arrive, Flood, Flooded, Fan, Finalize, Pop, Finish, Done,
             dvars, points
  <2> QED
      BY <2>1 DEF SuperInv, Inside, Points
<1> QED
    BY <1>1, SuperInit, PTL DEF DSpec

\* The first size tried holds all points: the loop that would double it never
\* does, whatever the points are.
THEOREM SuperHoldsThePoints == DSpec => [](\A p \in Points : Inside(pts[p]))
<1>1. SuperInv => \A p \in Points : Inside(pts[p])
    BY DEF SuperInv
<1> QED
    BY <1>1, SuperAlways, PTL

-----------------------------------------------------------------------------
\* The triangles are counterclockwise.

\* The same triangle the other way round has the opposite area.
LEMMA OrientTurns ==
    ASSUME NEW a \in Int \X Int, NEW b \in Int \X Int, NEW c \in Int \X Int
    PROVE  /\ Orient(a, b, c) \in Int
           /\ Orient(b, a, c) = -Orient(a, b, c)
<1>1. PICK ax \in Int, ay \in Int : a = <<ax, ay>>
    OBVIOUS
<1>2. PICK bx \in Int, by \in Int : b = <<bx, by>>
    OBVIOUS
<1>3. PICK cx \in Int, cy \in Int : c = <<cx, cy>>
    OBVIOUS
<1>4. Orient(a, b, c) = (bx - ax) * (cy - ay) - (by - ay) * (cx - ax)
    BY <1>1, <1>2, <1>3 DEF Orient
<1>5. Orient(b, a, c) = (ax - bx) * (cy - by) - (ay - by) * (cx - bx)
    BY <1>1, <1>2, <1>3 DEF Orient
<1> QED
    BY <1>4, <1>5

\* Joined turns a triangle round that the point would have clockwise.
LEMMA JoinedTurns ==
    ASSUME MeshTypes, VertexInv, SuperInv, phase = "fan", NEW s \in cavity \X (1 .. 3)
    PROVE  OrientXY(Joined(s)[1], Joined(s)[2], Joined(s)[3]) >= 0
<1> DEFINE u == Dir(s)[1]
<1> DEFINE v == Dir(s)[2]
<1>1. Len(pts) \in Nat /\ i \in Vertices
    BY LenProperties DEF MeshTypes, Vertices
<1>2. \A w \in Vertices : XY(w) \in Int \X Int
  <2> TAKE w \in Vertices
  <2>1. CASE w > Len(pts)
    <3>1. w - Len(pts) \in 1 .. 3
        BY <1>1, <2>1 DEF Vertices
    <3>2. XY(w) = coords[w - Len(pts)]
        BY <2>1 DEF XY, IsSuper
    <3> QED
        BY <3>1, <3>2 DEF SuperInv
  <2>2. CASE ~(w > Len(pts))
    <3>1. w \in 1 .. Len(pts)
        BY <1>1, <2>2 DEF Vertices
    <3> QED
        BY <2>2, <3>1, ElementOfSeq DEF XY, IsSuper, MeshTypes
  <2> QED
      BY <2>1, <2>2
<1>3. u \in Vertices /\ v \in Vertices
  <2>1. s[1] \in DOMAIN tris /\ s[2] \in {1, 2, 3}
      BY DEF MeshTypes
  <2>2. tris[s[1]] \in Triple
      BY <2>1, LenProperties, ElementOfSeq DEF MeshTypes
  <2>3. \A n \in {1, 2, 3} : tris[s[1]][n] \in Vertices
      BY <2>2 DEF Triple
  <2>4. Nxt(s[2]) \in {1, 2, 3}
      BY <2>1, Sides
  <2> QED
      BY <2>1, <2>3, <2>4 DEF Dir
<1>4. Joined(s) = IF OrientXY(u, v, i) >= 0 THEN <<u, v, i>> ELSE <<v, u, i>>
    BY DEF Joined
<1> HIDE DEF u, v
<1>5. OrientXY(u, v, i) \in Int /\ OrientXY(v, u, i) = -OrientXY(u, v, i)
    BY <1>1, <1>2, <1>3, OrientTurns DEF OrientXY
<1>6. CASE OrientXY(u, v, i) >= 0
  <2>1. Joined(s)[1] = u /\ Joined(s)[2] = v /\ Joined(s)[3] = i
      BY <1>4, <1>6
  <2> QED
      BY <1>6, <2>1
<1>7. CASE ~(OrientXY(u, v, i) >= 0)
  <2>1. Joined(s)[1] = v /\ Joined(s)[2] = u /\ Joined(s)[3] = i
      BY <1>4, <1>7
  <2>2. OrientXY(v, u, i) >= 0
      BY <1>5, <1>7
  <2> QED
      BY <2>1, <2>2
<1> QED
    BY <1>6, <1>7

\* No triangle is clockwise, and of those that remain none is flat.
Counterclockwise ==
    /\ \A t \in DOMAIN tris : Area(t) >= 0
    /\ \A j \in DOMAIN final : OrientXY(final[j][1], final[j][2], final[j][3]) > 0

\* The super-triangle is counterclockwise.
LEMMA TurnsInit == DInit => Counterclockwise
<1> SUFFICES ASSUME DInit PROVE Counterclockwise
    OBVIOUS
<1>1. Len(pts) \in Nat /\ SuperInv
    BY MeshInit, SuperInit, LenProperties DEF MeshTypes
<1>2. /\ tris[1] = <<Len(pts) + 1, Len(pts) + 2, Len(pts) + 3>> /\ DOMAIN tris = {1}
      /\ DOMAIN final = {}
    BY DEF DInit
<1>3. \A n \in {1, 2, 3} : XY(Len(pts) + n) = coords[n]
  <2> TAKE n \in {1, 2, 3}
  <2>1. Len(pts) + n > Len(pts) /\ (Len(pts) + n) - Len(pts) = n
      BY <1>1
  <2> QED
      BY <2>1 DEF XY, IsSuper
<1>4. Area(1) = Orient(coords[1], coords[2], coords[3])
  <2>1. /\ tris[1][1] = Len(pts) + 1 /\ tris[1][2] = Len(pts) + 2
        /\ tris[1][3] = Len(pts) + 3
      BY <1>2
  <2> QED
      BY <1>3, <2>1 DEF Area, OrientXY
<1>5. \A n \in 1 .. 3 : coords[n] \in Int \X Int
    BY <1>1 DEF SuperInv
<1>6. Orient(coords[1], coords[2], coords[3]) \in Int
    BY <1>5, OrientTurns
<1>7. Area(1) >= 0
    BY <1>1, <1>4, <1>6 DEF SuperInv
<1> QED
    BY <1>2, <1>7 DEF Counterclockwise

\* A fan turns its triangles, finalize drops the flat ones, and an edge is flipped
\* only when the two new triangles are counterclockwise.
LEMMA TurnsNext ==
    DInv /\ SuperInv /\ Counterclockwise /\ [DNext]_dvars => Counterclockwise'
<1> SUFFICES ASSUME DInv, SuperInv, Counterclockwise, [DNext]_dvars PROVE Counterclockwise'
    OBVIOUS
<1>0. pts' = pts /\ coords' = coords
    BY DEF DNext, NextPoint, Walk, Arrive, Flood, Flooded, Fan, Finalize, Pop, Finish, Done,
           dvars, points
<1>1. \A u, v, w : OrientXY(u, v, w)' = OrientXY(u, v, w)
    BY <1>0 DEF OrientXY, XY, IsSuper
<1>2. ASSUME UNCHANGED tris PROVE \A t \in DOMAIN tris' : Area(t)' >= 0
  <2>1. \A t : Area(t)' = Area(t)
      BY <1>0, <1>2 DEF Area, OrientXY, XY, IsSuper
  <2> QED
      BY <1>2, <2>1 DEF Counterclockwise
<1>3. ASSUME UNCHANGED final
      PROVE  \A j \in DOMAIN final' : OrientXY(final[j][1], final[j][2], final[j][3])' > 0
  <2>1. \A j : OrientXY(final[j][1], final[j][2], final[j][3])'
               = OrientXY(final[j][1], final[j][2], final[j][3])
      BY <1>0, <1>3 DEF OrientXY, XY, IsSuper
  <2> QED
      BY <1>3, <2>1 DEF Counterclockwise
<1>4. CASE Fan
  <2>1. phase = "fan" /\ final' = final
      BY <1>4 DEF Fan, flipv
  <2>2. /\ Len(tris) \in Nat /\ Len(Ring) \in Nat
        /\ DOMAIN tris' = 1 .. Len(tris) + Len(Ring)
        /\ \A t \in 1 .. Len(tris) : tris'[t] = tris[t]
        /\ \A j \in 1 .. Len(Ring) : tris'[Len(tris) + j] = Joined(Ring[j])
      BY <1>4, FanMakes DEF DInv, MeshInv
  <2>3. ASSUME NEW t \in DOMAIN tris'
        PROVE  OrientXY(tris'[t][1], tris'[t][2], tris'[t][3]) >= 0
    <3>1. CASE t \in 1 .. Len(tris)
      <4>1. t \in DOMAIN tris
          BY <3>1, LenProperties DEF DInv, MeshInv, MeshTypes
      <4>2. Area(t) >= 0 /\ tris'[t] = tris[t]
          BY <2>2, <3>1, <4>1 DEF Counterclockwise
      <4> QED
          BY <4>2 DEF Area
    <3>2. CASE t \notin 1 .. Len(tris)
      <4>1. t - Len(tris) \in 1 .. Len(Ring) /\ Len(tris) + (t - Len(tris)) = t
          BY <2>2, <3>2
      <4>2. PICK j \in 1 .. Len(Ring) : tris'[t] = Joined(Ring[j])
          BY <2>2, <4>1
      <4>3. Ring[j] \in cavity \X (1 .. 3)
          BY RingLists, ElementOfSeq DEF DInv, MeshInv
      <4>4. OrientXY(Joined(Ring[j])[1], Joined(Ring[j])[2], Joined(Ring[j])[3]) >= 0
          BY <2>1, <4>3, JoinedTurns DEF DInv, MeshInv
      <4> QED
          BY <4>2, <4>4
    <3> QED
        BY <3>1, <3>2
  <2>4. \A t : Area(t)' = OrientXY(tris'[t][1], tris'[t][2], tris'[t][3])
      BY <1>0 DEF Area, OrientXY, XY, IsSuper
  <2> QED
      BY <1>3, <2>1, <2>3, <2>4 DEF Counterclockwise
<1>5. CASE Finalize
  <2> DEFINE S == {t \in Alive : Remains(t)}
  <2> DEFINE kept == Ascending(S)
  <2>1. tris' = tris /\ final' = [j \in DOMAIN kept |-> tris[kept[j]]]
      BY <1>5, Zenon DEF Finalize, mesh
  <2>2. \A j \in DOMAIN kept : kept[j] \in S
    <3>1. S \in SUBSET Int /\ IsFiniteSet(S)
      <4>1. DOMAIN tris = 1 .. Len(tris) /\ Len(tris) \in Nat
          BY LenProperties DEF DInv, MeshInv, MeshTypes
      <4>2. S \in SUBSET (1 .. Len(tris)) /\ IsFiniteSet(1 .. Len(tris))
          BY <4>1, FS_Interval DEF Alive
      <4>3. 1 .. Len(tris) \subseteq Int
          BY <4>1
      <4> HIDE DEF S
      <4> QED
          BY <4>2, <4>3, FS_Subset
    <3>2. Range(kept) = S
      <4> HIDE DEF S
      <4> QED
          BY <3>1, AscendingLists
    <3> HIDE DEF S, kept
    <3> QED
        BY <3>2 DEF Range
  <2>3. \A t \in S : OrientXY(tris[t][1], tris[t][2], tris[t][3]) > 0
      BY DEF Remains
  <2> HIDE DEF S, kept
  <2>4. \A j \in DOMAIN final' : OrientXY(final'[j][1], final'[j][2], final'[j][3]) > 0
      BY <2>1, <2>2, <2>3
  <2>5. \A j : OrientXY(final[j][1], final[j][2], final[j][3])'
               = OrientXY(final'[j][1], final'[j][2], final'[j][3])
      BY <1>0 DEF OrientXY, XY, IsSuper
  <2> QED
      BY <1>2, <2>1, <2>4, <2>5 DEF Counterclockwise
<1>6. CASE Pop
  <2>1. tris' = tris
      BY <1>6 DEF Pop, mesh
  <2>2. \A j \in DOMAIN final' : OrientXY(final'[j][1], final'[j][2], final'[j][3]) > 0
    <3>1. CASE final' = final
        BY <3>1 DEF Counterclockwise
    <3>2. ASSUME NEW e, NEW u, NEW v, NEW a, NEW b, Flips(u, v, a, b), Exchange(e, u, v, a, b)
          PROVE  \A j \in DOMAIN final' : OrientXY(final'[j][1], final'[j][2], final'[j][3]) > 0
      <4>1. OrientXY(u, b, a) > 0 /\ OrientXY(b, v, a) > 0
          BY <3>2 DEF Flips
      <4>2. final' = [final EXCEPT ![inc[e][1]] = <<u, b, a>>, ![inc[e][2]] = <<b, v, a>>]
          BY <3>2 DEF Exchange
      <4>3. ASSUME NEW j \in DOMAIN final'
            PROVE  j \in DOMAIN final
                   /\ \/ final'[j] = <<u, b, a>>
                      \/ final'[j] = <<b, v, a>>
                      \/ final'[j] = final[j]
          BY <4>2
      <4>4. ASSUME NEW j \in DOMAIN final'
            PROVE  OrientXY(final'[j][1], final'[j][2], final'[j][3]) > 0
        <5>1. CASE final'[j] = <<u, b, a>>
            BY <4>1, <5>1
        <5>2. CASE final'[j] = <<b, v, a>>
            BY <4>1, <5>2
        <5>3. CASE final'[j] = final[j]
            BY <4>3, <5>3 DEF Counterclockwise
        <5> QED
            BY <4>3, <5>1, <5>2, <5>3
      <4> QED
          BY <4>4
    <3>3. final' = final \/ \E e, u, v, a, b : Flips(u, v, a, b) /\ Exchange(e, u, v, a, b)
        BY <1>6 DEF Pop
    <3> QED
        BY <3>1, <3>2, <3>3
  <2>3. \A j : OrientXY(final[j][1], final[j][2], final[j][3])'
               = OrientXY(final'[j][1], final'[j][2], final'[j][3])
      BY <1>0 DEF OrientXY, XY, IsSuper
  <2> QED
      BY <1>2, <2>1, <2>2, <2>3 DEF Counterclockwise
<1>7. CASE NextPoint \/ Walk \/ Arrive \/ Flood \/ Flooded \/ Finish \/ Done \/ UNCHANGED dvars
  <2>1. tris' = tris /\ final' = final
      BY <1>7 DEF NextPoint, Walk, Arrive, Flood, Flooded, Finish, Done, dvars, mesh, flipv
  <2> QED
      BY <1>2, <1>3, <2>1 DEF Counterclockwise
<1> QED
    BY <1>4, <1>5, <1>6, <1>7 DEF DNext

\* Every triangle ever made is counterclockwise or flat, which the walk takes for
\* granted when it asks on which side of an edge a point is, and every triangle
\* returned has an area: finalize drops those without, and no flip makes one.
THEOREM TurnsOneWay == DSpec => []Counterclockwise
  BY TurnsInit, TurnsNext, DelaunayInv, SuperAlways, PTL DEF DSpec

-----------------------------------------------------------------------------
\* Sums over finite sets.

\* Induction over the subsets of a finite set: P is the set of those for which
\* what is to be shown holds.
LEMMA SubsetInduction ==
    ASSUME NEW S, IsFiniteSet(S), NEW P,
           \A T \in SUBSET S : (\A U \in SUBSET T : U # T => U \in P) => T \in P
    PROVE  \A T \in SUBSET S : T \in P
<1> DEFINE Bad == {n \in Nat : \E T \in SUBSET S : T \notin P /\ Cardinality(T) = n}
<1>1. \A T \in SUBSET S : IsFiniteSet(T) /\ Cardinality(T) \in Nat
    BY FS_Subset, FS_CardinalityType
<1>2. SUFFICES ASSUME NEW T \in SUBSET S, T \notin P PROVE FALSE
    OBVIOUS
<1>3. Bad \in SUBSET Nat /\ Bad # {}
    BY <1>1, <1>2
<1>4. PICK n \in Bad : \A m \in Bad : n <= m
  <2> HIDE DEF Bad
  <2> QED
      BY <1>3, Least
<1>5. PICK V \in SUBSET S : V \notin P /\ Cardinality(V) = n
    BY <1>4
<1>6. ASSUME NEW U \in SUBSET V, U # V, U \notin P PROVE FALSE
  <2>1. Cardinality(U) \in Bad /\ Cardinality(U) \in Nat
      BY <1>1, <1>5, <1>6
  <2>2. Cardinality(U) < Cardinality(V)
      BY <1>1, <1>5, <1>6, FS_Subset
  <2>3. n <= Cardinality(U) /\ n \in Nat
      BY <1>4, <2>1
  <2> QED
      BY <1>5, <2>1, <2>2, <2>3
<1> QED
    BY <1>5, <1>6

\* g sums f over the subsets of S, the way MapThenSumSet does.
IsSum(g, f, S) ==
    g = [T \in SUBSET S |-> IF T = {} THEN 0
                            ELSE LET x == CHOOSE x \in T : TRUE IN f[x] + g[T \ {x}]]
\* The sum of f over S.
Total(f, S) == (CHOOSE g : IsSum(g, f, S))[S]

\* h is g on the subsets of U.
Narrows(h, U, g, S, f) ==
    IsSum(g, f, S) /\ U \in SUBSET S /\ h = [T \in SUBSET U |-> g[T]]

\* What sums over the subsets of S sums over those of a subset.
LEMMA SumRestricts ==
    ASSUME NEW h, NEW U, NEW g, NEW S, NEW f, Narrows(h, U, g, S, f)
    PROVE  IsSum(h, f, U)
<1>0. IsSum(g, f, S) /\ U \in SUBSET S /\ h = [T \in SUBSET U |-> g[T]]
    BY DEF Narrows
<1>1. ASSUME NEW T \in SUBSET U
      PROVE  h[T] = IF T = {} THEN 0
                    ELSE LET x == CHOOSE x \in T : TRUE IN f[x] + h[T \ {x}]
  <2>1. T \in SUBSET S /\ h[T] = g[T]
      BY <1>0
  <2>2. \A x : h[T \ {x}] = g[T \ {x}]
      BY <1>0
  <2>3. g[T] = IF T = {} THEN 0
               ELSE LET x == CHOOSE x \in T : TRUE IN f[x] + g[T \ {x}]
      BY <1>0, <2>1 DEF IsSum
  <2> QED
      BY <2>1, <2>2, <2>3
<1>2. h = [T \in SUBSET U |-> h[T]]
    BY <1>0
<1>3. h = [T \in SUBSET U |-> IF T = {} THEN 0
                            ELSE LET x == CHOOSE x \in T : TRUE IN f[x] + h[T \ {x}]]
    BY <1>1, <1>2
<1> QED
    BY <1>3 DEF IsSum

\* There is one way to sum over a finite set.
LEMMA SumIsOne ==
    ASSUME NEW S, IsFiniteSet(S), NEW f, NEW g, IsSum(g, f, S), NEW h, IsSum(h, f, S)
    PROVE  g = h
<1> DEFINE P == {T \in SUBSET S : g[T] = h[T]}
<1>1. ASSUME NEW T \in SUBSET S, \A U \in SUBSET T : U # T => U \in P PROVE T \in P
  <2>1. CASE T = {}
      BY <2>1 DEF IsSum
  <2>2. CASE T # {}
    <3> DEFINE x == CHOOSE x \in T : TRUE
    <3>1. x \in T /\ T \ {x} \in SUBSET T /\ T \ {x} # T
        BY <2>2
    <3>2. g[T \ {x}] = h[T \ {x}]
        BY <1>1, <3>1
    <3>3. g[T] = f[x] + g[T \ {x}] /\ h[T] = f[x] + h[T \ {x}]
        BY <2>2 DEF IsSum
    <3> QED
        BY <3>2, <3>3
  <2> QED
      BY <2>1, <2>2
<1>2. \A T \in SUBSET S : T \in P
  <2> HIDE DEF P
  <2> QED
      BY <1>1, SubsetInduction
<1>3. \A T \in SUBSET S : g[T] = h[T]
    BY <1>2
<1>4. g = [T \in SUBSET S |-> g[T]] /\ h = [T \in SUBSET S |-> h[T]]
    BY DEF IsSum
<1> QED
    BY <1>3, <1>4

\* There is a way.
LEMMA SumExists ==
    ASSUME NEW S, IsFiniteSet(S), NEW f
    PROVE  \E g : IsSum(g, f, S)
<1> DEFINE P == {T \in SUBSET S : \E g : IsSum(g, f, T)}
<1>1. ASSUME NEW T \in SUBSET S, \A U \in SUBSET T : U # T => U \in P PROVE T \in P
  <2> DEFINE h == [U \in SUBSET T |->
                     IF U # T THEN Total(f, U)
                     ELSE IF T = {} THEN 0
                     ELSE LET x == CHOOSE x \in T : TRUE IN f[x] + Total(f, T \ {x})]
  <2>1. ASSUME NEW U \in SUBSET T, U # T, U # {}
        PROVE  LET x == CHOOSE x \in U : TRUE IN Total(f, U) = f[x] + Total(f, U \ {x})
    <3> DEFINE x == CHOOSE x \in U : TRUE
    <3> DEFINE g == CHOOSE g : IsSum(g, f, U)
    <3>1. IsSum(g, f, U)
        BY <1>1, <2>1
    <3>2. x \in U /\ U \ {x} \in SUBSET U /\ IsFiniteSet(U \ {x})
      <4>1. IsFiniteSet(U)
          BY FS_Subset
      <4>2. x \in U
          BY <2>1
      <4> QED
          BY <4>1, <4>2, FS_Subset
    <3> DEFINE k == [V \in SUBSET (U \ {x}) |-> g[V]]
    <3>3. IsSum(k, f, U \ {x})
      <4>1. Narrows(k, U \ {x}, g, U, f)
        <5> HIDE DEF g, x
        <5> QED
            BY <3>1, <3>2 DEF Narrows
      <4> HIDE DEF k, g, x
      <4> QED
          BY <4>1, SumRestricts
    <3>4. Total(f, U \ {x}) = k[U \ {x}]
      <4> DEFINE c == CHOOSE c : IsSum(c, f, U \ {x})
      <4>1. IsSum(c, f, U \ {x})
        <5> HIDE DEF k
        <5> QED
            BY <3>3
      <4>2. c = k
        <5> HIDE DEF c, k, g, x
        <5> QED
            BY <3>2, <3>3, <4>1, SumIsOne
      <4>3. Total(f, U \ {x}) = c[U \ {x}]
          BY DEF Total
      <4> QED
          BY <4>2, <4>3
    <3>5. k[U \ {x}] = g[U \ {x}]
        OBVIOUS
    <3>6. Total(f, U) = g[U]
        BY DEF Total
    <3>7. g[U] = f[x] + g[U \ {x}]
      <4> HIDE DEF g
      <4> QED
          BY <2>1, <3>1 DEF IsSum
    <3> QED
        BY <3>4, <3>5, <3>6, <3>7
  <2>2. ASSUME NEW U \in SUBSET T
        PROVE  h[U] = IF U = {} THEN 0
                      ELSE LET x == CHOOSE x \in U : TRUE IN f[x] + h[U \ {x}]
    <3>1. CASE U = {} /\ U # T
      <4>1. h[U] = Total(f, {})
          BY <3>1
      <4>2. PICK g : IsSum(g, f, {})
          BY <1>1, <3>1
      <4>3. IsSum(CHOOSE c : IsSum(c, f, {}), f, {})
          BY <4>2
      <4>4. Total(f, {}) = 0
        <5> DEFINE c == CHOOSE c : IsSum(c, f, {})
        <5> HIDE DEF c
        <5>1. IsSum(c, f, {})
            BY <4>3 DEF c
        <5>2. c[{}] = 0
            BY <5>1 DEF IsSum
        <5> QED
            BY <5>2 DEF Total, c
      <4> QED
          BY <3>1, <4>1, <4>4
    <3>2. CASE U # {} /\ U # T
      <4> DEFINE x == CHOOSE x \in U : TRUE
      <4>1. h[U] = Total(f, U)
          BY <3>2
      <4>2. x \in U /\ U \ {x} \in SUBSET T /\ U \ {x} # T
          BY <3>2
      <4>3. h[U \ {x}] = Total(f, U \ {x})
          BY <4>2
      <4>4. Total(f, U) = f[x] + Total(f, U \ {x})
          BY <2>1, <3>2
      <4> HIDE DEF h
      <4> QED
          BY <3>2, <4>1, <4>3, <4>4
    <3>3. CASE U = T /\ T # {}
      <4> DEFINE x == CHOOSE x \in T : TRUE
      <4>1. x \in T /\ T \ {x} \in SUBSET T /\ T \ {x} # T
          BY <3>3
      <4>2. h[T \ {x}] = Total(f, T \ {x})
          BY <4>1
      <4>3. h[T] = f[x] + Total(f, T \ {x})
          BY <3>3
      <4> HIDE DEF h
      <4> QED
          BY <3>3, <4>2, <4>3
    <3>4. CASE U = {} /\ U = T
        BY <3>4
    <3> QED
        BY <3>1, <3>2, <3>3, <3>4
  <2>3. h = [U \in SUBSET T |-> h[U]]
      OBVIOUS
  <2> HIDE DEF h
  <2>4. IsSum(h, f, T)
      BY <2>2, <2>3 DEF IsSum
  <2> QED
      BY <2>4
<1>2. \A T \in SUBSET S : T \in P
  <2> HIDE DEF P
  <2> QED
      BY <1>1, SubsetInduction
<1> QED
    BY <1>2

\* The sum over nothing, and over a set from the element chosen first.
LEMMA SumFirst ==
    ASSUME NEW S, IsFiniteSet(S), NEW f
    PROVE  /\ Total(f, {}) = 0
           /\ S # {} => LET x == CHOOSE x \in S : TRUE IN Total(f, S) = f[x] + Total(f, S \ {x})
<1>1. ASSUME NEW T, IsFiniteSet(T)
      PROVE  \E g : IsSum(g, f, T) /\ g[T] = Total(f, T)
  <2> DEFINE g == CHOOSE g : IsSum(g, f, T)
  <2>1. IsSum(g, f, T)
      BY <1>1, SumExists
  <2>2. g[T] = Total(f, T)
      BY DEF Total
  <2> HIDE DEF g
  <2> QED
      BY <2>1, <2>2
<1>2. Total(f, {}) = 0
  <2>1. PICK g : IsSum(g, f, {}) /\ g[{}] = Total(f, {})
      BY <1>1, FS_EmptySet
  <2> QED
      BY <2>1 DEF IsSum
<1>3. ASSUME S # {}
      PROVE  LET x == CHOOSE x \in S : TRUE IN Total(f, S) = f[x] + Total(f, S \ {x})
  <2> DEFINE x == CHOOSE x \in S : TRUE
  <2>1. x \in S /\ IsFiniteSet(S \ {x}) /\ S \ {x} \in SUBSET S
      BY <1>3, FS_Subset
  <2>2. PICK g : IsSum(g, f, S) /\ g[S] = Total(f, S)
      BY <1>1
  <2>3. PICK h : IsSum(h, f, S \ {x}) /\ h[S \ {x}] = Total(f, S \ {x})
      BY <1>1, <2>1
  <2> DEFINE k == [V \in SUBSET (S \ {x}) |-> g[V]]
  <2>4. IsSum(k, f, S \ {x})
    <3>1. Narrows(k, S \ {x}, g, S, f)
      <4> HIDE DEF x
      <4> QED
          BY <2>1, <2>2 DEF Narrows
    <3> HIDE DEF k, x
    <3> QED
        BY <3>1, SumRestricts
  <2>5. k = h
    <3> HIDE DEF x, k
    <3> QED
        BY <2>1, <2>3, <2>4, SumIsOne
  <2>6. k[S \ {x}] = g[S \ {x}]
      OBVIOUS
  <2>7. g[S] = f[x] + g[S \ {x}]
      BY <1>3, <2>2 DEF IsSum
  <2> QED
      BY <2>2, <2>3, <2>5, <2>6, <2>7
<1> QED
    BY <1>2, <1>3

\* A sum of integers is an integer, and any element may be taken out first.
LEMMA SumTakes ==
    ASSUME NEW S, IsFiniteSet(S), NEW f, \A x \in S : f[x] \in Int
    PROVE  /\ Total(f, S) \in Int
           /\ \A x \in S : Total(f, S) = f[x] + Total(f, S \ {x})
<1> DEFINE Right(T) == /\ Total(f, T) \in Int
                       /\ \A x \in T : Total(f, T) = f[x] + Total(f, T \ {x})
<1> DEFINE P == {T \in SUBSET S : Right(T)}
<1>0. \A T \in SUBSET S : IsFiniteSet(T)
    BY FS_Subset
<1>1. ASSUME NEW T \in SUBSET S, \A U \in SUBSET T : U # T => U \in P PROVE T \in P
  <2>1. CASE T = {}
    <3>1. Total(f, T) = 0
        BY <2>1, <1>0, SumFirst
    <3> QED
        BY <2>1, <3>1
  <2>2. CASE T # {}
    <3> DEFINE c == CHOOSE c \in T : TRUE
    <3>1. c \in T /\ f[c] \in Int /\ T \ {c} \in P
        BY <1>1, <2>2
    <3>2. Total(f, T) = f[c] + Total(f, T \ {c})
        BY <1>0, <2>2, SumFirst
    <3> HIDE DEF c
    <3>3. Total(f, T \ {c}) \in Int
        BY <3>1
    <3>4. ASSUME NEW x \in T PROVE Total(f, T) = f[x] + Total(f, T \ {x})
      <4>1. CASE x = c
          BY <3>2, <4>1
      <4>2. CASE x # c
        <5>1. x \in T \ {c} /\ c \in T \ {x} /\ T \ {x} \in P /\ (T \ {c}) \ {x} \in P
            BY <1>1, <3>1, <4>2
        <5>2. /\ Total(f, T \ {c}) = f[x] + Total(f, (T \ {c}) \ {x})
              /\ Total(f, T \ {x}) = f[c] + Total(f, (T \ {x}) \ {c})
              /\ Total(f, (T \ {c}) \ {x}) \in Int
            BY <3>1, <5>1
        <5>3. (T \ {c}) \ {x} = (T \ {x}) \ {c}
            OBVIOUS
        <5>4. f[x] \in Int
            OBVIOUS
        <5> DEFINE a == Total(f, (T \ {c}) \ {x})
        <5>5. /\ Total(f, T) = f[c] + (f[x] + a) /\ Total(f, T \ {x}) = f[c] + a
              /\ a \in Int
            BY <3>2, <5>2, <5>3
        <5> HIDE DEF a
        <5> QED
            BY <3>1, <5>4, <5>5
      <4> QED
          BY <4>1, <4>2
    <3>5. Total(f, T) \in Int
        BY <3>1, <3>2, <3>3
    <3> QED
        BY <3>4, <3>5
  <2> QED
      BY <2>1, <2>2
<1>2. \A T \in SUBSET S : T \in P
  <2> HIDE DEF P
  <2> QED
      BY <1>1, SubsetInduction
<1> QED
    BY <1>2

\* The sum grows by the value of an element put in.
LEMMA SumPuts ==
    ASSUME NEW S, IsFiniteSet(S), NEW f, NEW x, x \notin S, \A y \in S \union {x} : f[y] \in Int
    PROVE  /\ Total(f, S) \in Int
           /\ Total(f, S \union {x}) = f[x] + Total(f, S)
<1>1. IsFiniteSet(S \union {x})
    BY FS_AddElement
<1>2. Total(f, S \union {x}) = f[x] + Total(f, (S \union {x}) \ {x})
    BY <1>1, SumTakes
<1>3. (S \union {x}) \ {x} = S
    OBVIOUS
<1>4. Total(f, S) \in Int
    BY SumTakes
<1> QED
    BY <1>2, <1>3, <1>4

\* Two integers for each subset agree on the empty one and, where they agree, on
\* one element more.
GrowsAlike(G, H, S) ==
    /\ G[{}] = H[{}]
    /\ \A T \in SUBSET S : \A x \in S \ T : G[T] = H[T] => G[T \union {x}] = H[T \union {x}]

\* Then they agree on the whole.
LEMMA GrowAlike ==
    ASSUME NEW G, NEW H, NEW S, GrowsAlike(G, H, S), IsFiniteSet(S)
    PROVE  G[S] = H[S]
<1> USE DEF GrowsAlike
<1> DEFINE P == {T \in SUBSET S : G[T] = H[T]}
<1>1. ASSUME NEW T \in SUBSET S, \A U \in SUBSET T : U # T => U \in P PROVE T \in P
  <2>1. CASE T = {}
      BY <2>1
  <2>2. CASE T # {}
    <3>1. PICK x \in T : TRUE
        BY <2>2
    <3>2. T \ {x} \in P /\ x \in S \ (T \ {x}) /\ (T \ {x}) \union {x} = T
        BY <1>1, <3>1
    <3> QED
        BY <3>2
  <2> QED
      BY <2>1, <2>2
<1>2. \A T \in SUBSET S : T \in P
  <2> HIDE DEF P
  <2> QED
      BY <1>1, SubsetInduction
<1> QED
    BY <1>2

\* The sum over two sets that have nothing in common.
LEMMA SumAdds ==
    ASSUME NEW A, IsFiniteSet(A), NEW B, IsFiniteSet(B), A \cap B = {}, NEW f,
           \A x \in A \union B : f[x] \in Int
    PROVE  Total(f, A \union B) = Total(f, A) + Total(f, B)
<1> DEFINE G == [T \in SUBSET B |-> Total(f, A \union T)]
<1> DEFINE H == [T \in SUBSET B |-> Total(f, A) + Total(f, T)]
<1>1. Total(f, A) \in Int /\ Total(f, {}) = 0
    BY SumTakes, SumFirst
<1>2. G[{}] = H[{}]
    BY <1>1
<1>3. ASSUME NEW T \in SUBSET B, NEW x \in B \ T, G[T] = H[T]
      PROVE  G[T \union {x}] = H[T \union {x}]
  <2>1. IsFiniteSet(T) /\ IsFiniteSet(A \union T)
      BY FS_Subset, FS_Union
  <2>2. x \notin A \union T /\ x \notin T /\ f[x] \in Int
      OBVIOUS
  <2>3. (A \union T) \union {x} = A \union (T \union {x}) /\ T \union {x} \in SUBSET B
      OBVIOUS
  <2>4. Total(f, T \union {x}) = f[x] + Total(f, T) /\ Total(f, T) \in Int
      BY <2>1, <2>2, SumPuts
  <2>5. Total(f, (A \union T) \union {x}) = f[x] + Total(f, A \union T)
      BY <2>1, <2>2, SumPuts
  <2>6. Total(f, A \union T) = Total(f, A) + Total(f, T)
      BY <1>3
  <2>7. Total(f, A \union (T \union {x})) = Total(f, A) + Total(f, T \union {x})
    <3> DEFINE a == Total(f, A)
    <3> DEFINE t == Total(f, T)
    <3>1. Total(f, A \union (T \union {x})) = f[x] + (a + t)
        BY <2>3, <2>5, <2>6
    <3>2. Total(f, T \union {x}) = f[x] + t /\ a \in Int /\ t \in Int /\ f[x] \in Int
        BY <1>1, <2>2, <2>4
    <3>3. f[x] + (a + t) = a + (f[x] + t)
      <4> HIDE DEF a, t
      <4> QED
          BY <3>2
    <3> QED
        BY <3>1, <3>2, <3>3
  <2> QED
      BY <2>3, <2>7
<1> HIDE DEF G, H
<1>4. G[B] = H[B]
  <2>1. GrowsAlike(G, H, B)
      BY <1>2, <1>3 DEF GrowsAlike
  <2> QED
      BY <2>1, GrowAlike
<1> QED
    BY <1>4 DEF G, H

\* The sum over the images of different elements.
LEMMA SumImageSet ==
    ASSUME NEW S, IsFiniteSet(S), NEW b, \A x, y \in S : b[x] = b[y] => x = y,
           NEW f, NEW h, \A x \in S : h[x] = f[b[x]] /\ f[b[x]] \in Int
    PROVE  Total(f, {b[x] : x \in S}) = Total(h, S)
<1> DEFINE G == [T \in SUBSET S |-> Total(f, {b[x] : x \in T})]
<1> DEFINE H == [T \in SUBSET S |-> Total(h, T)]
<1>1. G[{}] = H[{}]
  <2>1. {b[x] : x \in {}} = {} /\ Total(f, {}) = 0 /\ Total(h, {}) = 0
      BY SumFirst
  <2> QED
      BY <2>1
<1>2. ASSUME NEW T \in SUBSET S, NEW z \in S \ T, G[T] = H[T]
      PROVE  G[T \union {z}] = H[T \union {z}]
  <2> DEFINE I == {b[x] : x \in T}
  <2>1. IsFiniteSet(T)
      BY FS_Subset
  <2>2. IsFiniteSet(I)
    <3>1. \A y \in I : \E x \in T : y = b[x]
        OBVIOUS
    <3>2. IsFiniteSet({[x \in T |-> b[x]][t] : t \in T})
      <4>1. [x \in T |-> b[x]] \in Surjection(T, I)
          BY DEF Surjection
      <4>2. IsFiniteSet(I)
          BY <2>1, <4>1, FS_Surjection
      <4>3. I = {[x \in T |-> b[x]][t] : t \in T}
          OBVIOUS
      <4> HIDE DEF I
      <4> QED
          BY <4>2, <4>3
    <3>3. I = {[x \in T |-> b[x]][t] : t \in T}
        OBVIOUS
    <3> QED
        BY <3>2, <3>3
  <2>3. {b[x] : x \in T \union {z}} = I \union {b[z]}
      OBVIOUS
  <2>4. b[z] \notin I
      OBVIOUS
  <2>5. \A y \in I \union {b[z]} : f[y] \in Int
      OBVIOUS
  <2>6. \A x \in T \union {z} : h[x] \in Int
      OBVIOUS
  <2>7. Total(f, I) = Total(h, T)
      BY <1>2
  <2> HIDE DEF I
  <2>8. Total(f, I \union {b[z]}) = f[b[z]] + Total(f, I)
      BY <2>2, <2>4, <2>5, SumPuts
  <2>9. Total(h, T \union {z}) = h[z] + Total(h, T)
      BY <2>1, <2>6, SumPuts
  <2>10. Total(f, {b[x] : x \in T \union {z}}) = Total(h, T \union {z})
      BY <2>3, <2>7, <2>8, <2>9
  <2> QED
      BY <2>10
<1> HIDE DEF G, H
<1>3. G[S] = H[S]
  <2>1. GrowsAlike(G, H, S)
      BY <1>1, <1>2 DEF GrowsAlike
  <2> QED
      BY <2>1, GrowAlike
<1> QED
    BY <1>3 DEF G, H

\* The same for a set known by its members.
LEMMA SumImages ==
    ASSUME NEW S, IsFiniteSet(S), NEW b, \A x, y \in S : b[x] = b[y] => x = y,
           NEW f, NEW h, \A x \in S : h[x] = f[b[x]] /\ f[b[x]] \in Int,
           NEW image, \A y : y \in image <=> \E x \in S : y = b[x]
    PROVE  Total(f, image) = Total(h, S)
<1>1. image = {b[x] : x \in S}
    OBVIOUS
<1>2. Total(f, {b[x] : x \in S}) = Total(h, S)
    BY SumImageSet
<1> QED
    BY <1>1, <1>2

\* Sums that agree element by element.
LEMMA SumSame ==
    ASSUME NEW S, IsFiniteSet(S), NEW f, NEW h, \A x \in S : h[x] = f[x] /\ f[x] \in Int
    PROVE  Total(f, S) = Total(h, S)
<1> DEFINE b == [x \in S |-> x]
<1>1. \A x \in S : b[x] = x
    OBVIOUS
<1>2. \A y : y \in S <=> \E x \in S : y = b[x]
    OBVIOUS
<1> HIDE DEF b
<1> QED
    BY <1>1, <1>2, SumImages

\* Where each element has a partner of the opposite value, the sum is nothing.
LEMMA SumCancels ==
    ASSUME NEW S, IsFiniteSet(S), NEW f, \A x \in S : f[x] \in Int,
           NEW p, \A x \in S : p[x] \in S /\ p[p[x]] = x /\ f[p[x]] = -f[x]
    PROVE  Total(f, S) = 0
<1> DEFINE h == [x \in S |-> f[p[x]]]
<1> DEFINE G == [T \in SUBSET S |-> Total(h, T)]
<1> DEFINE H == [T \in SUBSET S |-> -Total(f, T)]
<1>1. \A x \in S : h[x] = f[p[x]] /\ h[x] = -f[x] /\ h[x] \in Int
    OBVIOUS
<1> HIDE DEF h
<1>2. Total(f, S) = Total(h, S)
  <2>1. \A y : y \in S <=> \E x \in S : y = p[x]
      OBVIOUS
  <2>2. \A x, y \in S : p[x] = p[y] => x = y
      OBVIOUS
  <2>3. \A x \in S : h[x] = f[p[x]] /\ f[p[x]] \in Int
      BY <1>1
  <2> QED
      BY <2>1, <2>2, <2>3, SumImages
<1>3. G[{}] = H[{}]
  <2>1. Total(h, {}) = 0 /\ Total(f, {}) = 0
      BY SumFirst
  <2> QED
      BY <2>1
<1>4. ASSUME NEW T \in SUBSET S, NEW x \in S \ T, G[T] = H[T]
      PROVE  G[T \union {x}] = H[T \union {x}]
  <2>1. IsFiniteSet(T) /\ x \notin T /\ f[x] \in Int
      BY FS_Subset
  <2>2. Total(h, T) = -Total(f, T)
      BY <1>4
  <2>3. Total(f, T \union {x}) = f[x] + Total(f, T) /\ Total(f, T) \in Int
      BY <2>1, SumPuts
  <2>4. Total(h, T \union {x}) = h[x] + Total(h, T) /\ Total(h, T) \in Int
      BY <1>1, <2>1, SumPuts
  <2>5. Total(h, T \union {x}) = -Total(f, T \union {x})
      BY <1>1, <2>1, <2>2, <2>3, <2>4
  <2> QED
      BY <2>5
<1> HIDE DEF G, H
<1>5. G[S] = H[S]
  <2>1. GrowsAlike(G, H, S)
      BY <1>3, <1>4 DEF GrowsAlike
  <2> QED
      BY <2>1, GrowAlike
<1>6. Total(h, S) = -Total(f, S)
    BY <1>5 DEF G, H
<1>7. Total(f, S) \in Int
    BY SumTakes
<1> QED
    BY <1>2, <1>6, <1>7

\* Where each element stands for three others, the sum is theirs.
LEMMA SumThrees ==
    ASSUME NEW C, IsFiniteSet(C), NEW a, NEW h,
           \A s \in C \X (1 .. 3) : h[s] \in Int,
           \A t \in C : a[t] = (h[<<t, 1>>] + h[<<t, 2>>]) + h[<<t, 3>>]
    PROVE  Total(a, C) = Total(h, C \X (1 .. 3))
<1> DEFINE G == [T \in SUBSET C |-> Total(a, T)]
<1> DEFINE H == [T \in SUBSET C |-> Total(h, T \X (1 .. 3))]
<1>0. 1 .. 3 = {1, 2, 3} /\ IsFiniteSet(1 .. 3)
  <2>1. 1 \in Int /\ 3 \in Int
      OBVIOUS
  <2>2. IsFiniteSet(1 .. 3)
      BY <2>1, FS_Interval
  <2>3. 1 .. 3 = {1, 2, 3}
      OBVIOUS
  <2> QED
      BY <2>2, <2>3
<1>1. \A t \in C : /\ h[<<t, 1>>] \in Int /\ h[<<t, 2>>] \in Int /\ h[<<t, 3>>] \in Int
                   /\ a[t] \in Int
  <2> TAKE t \in C
  <2>1. <<t, 1>> \in C \X (1 .. 3) /\ <<t, 2>> \in C \X (1 .. 3) /\ <<t, 3>> \in C \X (1 .. 3)
      OBVIOUS
  <2>2. h[<<t, 1>>] \in Int /\ h[<<t, 2>>] \in Int /\ h[<<t, 3>>] \in Int
      BY <2>1
  <2>3. a[t] = (h[<<t, 1>>] + h[<<t, 2>>]) + h[<<t, 3>>]
      OBVIOUS
  <2> QED
      BY <2>2, <2>3
<1>2. G[{}] = H[{}]
  <2>1. {} \X (1 .. 3) = {}
      OBVIOUS
  <2>2. Total(a, {}) = 0 /\ Total(h, {}) = 0
      BY SumFirst
  <2> QED
      BY <2>1, <2>2
<1>3. ASSUME NEW T \in SUBSET C, NEW x \in C \ T, G[T] = H[T]
      PROVE  G[T \union {x}] = H[T \union {x}]
  <2> DEFINE S0 == T \X (1 .. 3)
  <2> DEFINE S1 == S0 \union {<<x, 1>>}
  <2> DEFINE S2 == S1 \union {<<x, 2>>}
  <2> DEFINE S3 == S2 \union {<<x, 3>>}
  <2>1. IsFiniteSet(T) /\ IsFiniteSet(S0)
      BY <1>0, FS_Subset, FS_Product
  <2>2. S3 = (T \union {x}) \X (1 .. 3)
      BY <1>0
  <2>3. <<x, 1>> \notin S0 /\ <<x, 2>> \notin S1 /\ <<x, 3>> \notin S2
    <3>1. \A s \in S0 : s[1] # x
        OBVIOUS
    <3> QED
        BY <3>1
  <2>4. IsFiniteSet(S1) /\ IsFiniteSet(S2)
    <3>1. IsFiniteSet(S1)
      <4> HIDE DEF S0
      <4> QED
          BY <2>1, FS_AddElement
    <3>2. IsFiniteSet(S2)
      <4> HIDE DEF S1
      <4> QED
          BY <3>1, FS_AddElement
    <3> QED
        BY <3>1, <3>2
  <2>5. /\ \A s \in S0 : h[s] \in Int
        /\ h[<<x, 1>>] \in Int /\ h[<<x, 2>>] \in Int /\ h[<<x, 3>>] \in Int
      BY <1>1
  <2>6. \A s \in S1 : h[s] \in Int
      BY <2>5
  <2>7. \A s \in S2 : h[s] \in Int
      BY <2>5, <2>6
  <2>8. \A s \in S3 : h[s] \in Int
      BY <2>5, <2>7
  <2>9. Total(a, T) = Total(h, S0)
      BY <1>3
  <2> DEFINE T1 == T \union {x}
  <2>10. Total(a, T1) = a[x] + Total(a, T)
    <3>1. \A y \in T1 : a[y] \in Int
        BY <1>1
    <3> QED
        BY <2>1, <3>1, SumPuts
  <2> HIDE DEF S0, S1, S2, S3, T1
  <2>11. Total(h, S1) = h[<<x, 1>>] + Total(h, S0) /\ Total(h, S0) \in Int
      BY <2>1, <2>3, <2>6, SumPuts DEF S1
  <2>12. Total(h, S2) = h[<<x, 2>>] + Total(h, S1) /\ Total(h, S1) \in Int
      BY <2>3, <2>4, <2>7, SumPuts DEF S2
  <2>13. Total(h, S3) = h[<<x, 3>>] + Total(h, S2) /\ Total(h, S2) \in Int
      BY <2>3, <2>4, <2>8, SumPuts DEF S3
  <2>14. Total(a, T1) = Total(h, S3)
    <3> DEFINE p == h[<<x, 1>>]
    <3> DEFINE q == h[<<x, 2>>]
    <3> DEFINE r == h[<<x, 3>>]
    <3> DEFINE n == Total(h, S0)
    <3>1. Total(h, S3) = r + (q + (p + n)) /\ Total(a, T1) = ((p + q) + r) + n
        BY <2>9, <2>10, <2>11, <2>12, <2>13
    <3>2. p \in Int /\ q \in Int /\ r \in Int /\ n \in Int
        BY <2>5, <2>11
    <3> HIDE DEF p, q, r, n
    <3>3. r + (q + (p + n)) = ((p + q) + r) + n
        BY <3>2
    <3> QED
        BY <3>1, <3>3
  <2>15. T1 \in SUBSET C /\ Total(a, T1) = Total(h, T1 \X (1 .. 3))
      BY <2>2, <2>14 DEF T1
  <2>16. G[T1] = H[T1]
      BY <2>15
  <2> HIDE DEF G, H
  <2> QED
      BY <2>16 DEF T1
<1> HIDE DEF G, H
<1>4. G[C] = H[C]
  <2>1. GrowsAlike(G, H, C)
      BY <1>2, <1>3 DEF GrowsAlike
  <2> QED
      BY <2>1, GrowAlike
<1> QED
    BY <1>4 DEF G, H

\* Of the numbers 1 to n in old, those in cav give way to n + 1 to n + m, whose
\* values r add up to theirs.
Replaces(n, m, old, cav, new, f, g, r) ==
    /\ n \in Nat /\ m \in Nat /\ old \in SUBSET (1 .. n) /\ cav \in SUBSET old
    /\ \A t : t \in new <=> t \in old \ cav \/ \E j \in 1 .. m : t = n + j
    /\ \A t \in old : f[t] \in Int
    /\ \A t \in old \ cav : g[t] = f[t]
    /\ \A j \in 1 .. m : r[j] \in Int /\ g[n + j] = r[j]
    /\ Total(f, cav) = Total(r, 1 .. m)

\* That leaves the sum as it is.
LEMMA SumReplaced ==
    ASSUME NEW n, NEW m, NEW old, NEW cav, NEW new, NEW f, NEW g, NEW r,
           Replaces(n, m, old, cav, new, f, g, r)
    PROVE  Total(g, new) = Total(f, old)
<1> USE DEF Replaces
<1> DEFINE kept == old \ cav
<1> DEFINE b == [j \in 1 .. m |-> n + j]
<1> DEFINE more == {b[j] : j \in 1 .. m}
<1>1. /\ IsFiniteSet(1 .. n) /\ IsFiniteSet(1 .. m) /\ IsFiniteSet(n + 1 .. n + m)
      /\ kept \in SUBSET (1 .. n) /\ more \in SUBSET (n + 1 .. n + m)
  <2>1. 1 \in Int /\ n \in Int /\ m \in Int /\ n + 1 \in Int /\ n + m \in Int
      OBVIOUS
  <2>2. more \in SUBSET (n + 1 .. n + m)
      OBVIOUS
  <2> QED
      BY <2>1, <2>2, FS_Interval
<1>2. IsFiniteSet(kept) /\ IsFiniteSet(cav) /\ IsFiniteSet(more) /\ IsFiniteSet(old)
    BY <1>1, FS_Subset
<1>3. new = kept \union more /\ kept \cap more = {} /\ old = kept \union cav /\ kept \cap cav = {}
  <2>1. \A t : t \in more <=> \E j \in 1 .. m : t = n + j
      OBVIOUS
  <2>2. \A t \in more : t \notin 1 .. n
      BY <1>1
  <2>3. new = kept \union more
      BY <2>1
  <2>4. kept \cap more = {}
      BY <2>2
  <2> QED
      BY <2>3, <2>4
<1>4. \A j \in 1 .. m : r[j] = g[b[j]] /\ g[b[j]] \in Int
    OBVIOUS
<1>5. \A j, l \in 1 .. m : b[j] = b[l] => j = l
    OBVIOUS
<1>6. \A t \in more : g[t] \in Int
    BY <1>4
<1>7. \A t \in kept : g[t] = f[t] /\ f[t] \in Int
    OBVIOUS
<1> HIDE DEF b
<1>8. Total(g, more) = Total(r, 1 .. m)
  <2> DEFINE J == 1 .. m
  <2>1. \A j \in J : r[j] = g[b[j]] /\ g[b[j]] \in Int
      BY <1>4
  <2>2. \A j, l \in J : b[j] = b[l] => j = l
      BY <1>5
  <2>3. IsFiniteSet(J) /\ \A y : y \in more <=> \E j \in J : y = b[j]
      BY <1>1
  <2> HIDE DEF J, more
  <2>4. Total(g, more) = Total(r, J)
      BY <2>1, <2>2, <2>3, SumImages, SMTT(30)
  <2> QED
      BY <2>4 DEF J
<1>9. Total(g, kept) = Total(f, kept)
    BY <1>2, <1>7, SumSame
<1> HIDE DEF kept, more
<1>10. Total(g, kept \union more) = Total(g, kept) + Total(g, more)
    BY <1>2, <1>3, <1>6, <1>7, SumAdds
<1>11. Total(f, kept \union cav) = Total(f, kept) + Total(f, cav)
    BY <1>2, <1>3, <1>7, SumAdds
<1> QED
    BY <1>3, <1>8, <1>9, <1>10, <1>11

\* Nothing adds up to more than nothing.
LEMMA SumNotPositive ==
    ASSUME NEW S, IsFiniteSet(S), NEW f, \A x \in S : f[x] \in Int /\ f[x] <= 0
    PROVE  Total(f, S) <= 0
<1> DEFINE P == {T \in SUBSET S : Total(f, T) <= 0}
<1>1. ASSUME NEW T \in SUBSET S, \A U \in SUBSET T : U # T => U \in P PROVE T \in P
  <2>1. CASE T = {}
      BY <2>1, SumFirst
  <2>2. CASE T # {}
    <3>1. PICK x \in T : TRUE
        BY <2>2
    <3>2. T \ {x} \in P /\ T \ {x} \in SUBSET S
        BY <1>1, <3>1
    <3>3. IsFiniteSet(T) /\ IsFiniteSet(T \ {x})
        BY <3>2, FS_Subset
    <3>4. Total(f, T) = f[x] + Total(f, T \ {x}) /\ Total(f, T \ {x}) \in Int
        BY <3>1, <3>3, SumTakes
    <3>5. Total(f, T \ {x}) <= 0 /\ f[x] \in Int /\ f[x] <= 0
        BY <3>1, <3>2
    <3>6. Total(f, T) <= 0
        BY <3>4, <3>5
    <3> QED
        BY <3>6
  <2> QED
      BY <2>1, <2>2
<1>2. \A T \in SUBSET S : T \in P
  <2> HIDE DEF P
  <2> QED
      BY <1>1, SubsetInduction
<1> QED
    BY <1>2

-----------------------------------------------------------------------------
\* The area of the mesh.

\* A triangle is what its three sides make with any point.
LEMMA AreaSplits ==
    ASSUME NEW a \in Int \X Int, NEW b \in Int \X Int, NEW c \in Int \X Int,
           NEW p \in Int \X Int
    PROVE  Orient(a, b, c) = (Orient(a, b, p) + Orient(b, c, p)) + Orient(c, a, p)
<1>1. PICK ax \in Int, ay \in Int : a = <<ax, ay>>
    OBVIOUS
<1>2. PICK bx \in Int, by \in Int : b = <<bx, by>>
    OBVIOUS
<1>3. PICK cx \in Int, cy \in Int : c = <<cx, cy>>
    OBVIOUS
<1>4. PICK px \in Int, py \in Int : p = <<px, py>>
    OBVIOUS
<1>5. Orient(a, b, c) = (bx - ax) * (cy - ay) - (by - ay) * (cx - ax)
    BY <1>1, <1>2, <1>3 DEF Orient
<1>6. Orient(a, b, p) = (bx - ax) * (py - ay) - (by - ay) * (px - ax)
    BY <1>1, <1>2, <1>4 DEF Orient
<1>7. Orient(b, c, p) = (cx - bx) * (py - by) - (cy - by) * (px - bx)
    BY <1>2, <1>3, <1>4 DEF Orient
<1>8. Orient(c, a, p) = (ax - cx) * (py - cy) - (ay - cy) * (px - cx)
    BY <1>1, <1>3, <1>4 DEF Orient
<1>9. (bx - ax) * (cy - ay) - (by - ay) * (cx - ax)
      = (((bx - ax) * (py - ay) - (by - ay) * (px - ax))
         + ((cx - bx) * (py - by) - (cy - by) * (px - bx)))
        + ((ax - cx) * (py - cy) - (ay - cy) * (px - cx))
    OBVIOUS
<1> QED
    BY <1>5, <1>6, <1>7, <1>8, <1>9

\* Every vertex is a point with integer coordinates.
LEMMA PointsOfVertices ==
    ASSUME MeshTypes, SuperInv
    PROVE  \A w \in Vertices : XY(w) \in Int \X Int
<1>1. Len(pts) \in Nat
    BY LenProperties DEF MeshTypes
<1> TAKE w \in Vertices
<1>2. CASE w > Len(pts)
  <2>1. w - Len(pts) \in 1 .. 3
      BY <1>1, <1>2 DEF Vertices
  <2>2. XY(w) = coords[w - Len(pts)]
      BY <1>2 DEF XY, IsSuper
  <2> QED
      BY <2>1, <2>2 DEF SuperInv
<1>3. CASE ~(w > Len(pts))
  <2>1. w \in 1 .. Len(pts)
      BY <1>1, <1>3 DEF Vertices
  <2> QED
      BY <1>3, <2>1, ElementOfSeq DEF XY, IsSuper, MeshTypes
<1> QED
    BY <1>2, <1>3

\* What a side makes with the point being inserted.
SideArea(s) == OrientXY(Dir(s)[1], Dir(s)[2], i)

\* A triangle is what its sides make with the point.
LEMMA AreaOfSides ==
    ASSUME MeshTypes, SuperInv, i \in Vertices, NEW t \in DOMAIN tris
    PROVE  /\ \A k \in 1 .. 3 : SideArea(<<t, k>>) \in Int
           /\ Area(t) = (SideArea(<<t, 1>>) + SideArea(<<t, 2>>)) + SideArea(<<t, 3>>)
           /\ Area(t) \in Int
<1>1. \A w \in Vertices : XY(w) \in Int \X Int
    BY PointsOfVertices
<1>2. tris[t] \in Triple
    BY LenProperties, ElementOfSeq DEF MeshTypes
<1>3. tris[t][1] \in Vertices /\ tris[t][2] \in Vertices /\ tris[t][3] \in Vertices
    BY <1>2 DEF Triple
<1> DEFINE a == XY(tris[t][1])
<1> DEFINE b == XY(tris[t][2])
<1> DEFINE c == XY(tris[t][3])
<1> DEFINE p == XY(i)
<1>4. a \in Int \X Int /\ b \in Int \X Int /\ c \in Int \X Int /\ p \in Int \X Int
    BY <1>1, <1>3
<1>5. /\ SideArea(<<t, 1>>) = Orient(a, b, p) /\ SideArea(<<t, 2>>) = Orient(b, c, p)
      /\ SideArea(<<t, 3>>) = Orient(c, a, p) /\ Area(t) = Orient(a, b, c)
    BY Sides DEF SideArea, Area, OrientXY, Dir
<1> HIDE DEF a, b, c, p
<1>6. /\ Orient(a, b, p) \in Int /\ Orient(b, c, p) \in Int /\ Orient(c, a, p) \in Int
      /\ Orient(a, b, c) \in Int
    BY <1>4, OrientTurns
<1>7. Orient(a, b, c) = (Orient(a, b, p) + Orient(b, c, p)) + Orient(c, a, p)
    BY <1>4, AreaSplits
<1>8. 1 .. 3 = {1, 2, 3}
    OBVIOUS
<1> QED
    BY <1>5, <1>6, <1>7, <1>8

\* Two sides of live triangles on one edge are the same side or go opposite ways.
LEMMA OppositeSides ==
    ASSUME MeshTypes, VertexInv, LinkInv, MeshFits, phase = "fan",
           NEW s \in cavity \X (1 .. 3), NEW r \in cavity \X (1 .. 3),
           EdgeAt(s) = EdgeAt(r), s # r
    PROVE  /\ s[1] # r[1] /\ nbrs[s[1]][s[2]] = r[1]
           /\ Dir(r)[1] = Dir(s)[2] /\ Dir(r)[2] = Dir(s)[1]
<1>1. /\ s[1] \in Alive /\ r[1] \in Alive /\ s[2] \in 1 .. 3 /\ r[2] \in 1 .. 3
      /\ s = <<s[1], s[2]>> /\ r = <<r[1], r[2]>>
    BY DEF LinkInv, Inserting
<1>2. EdgeOf(tris[s[1]], s[2]) = EdgeOf(tris[r[1]], r[2])
    BY DEF EdgeAt
<1>3. Proper(tris[s[1]])
    BY <1>1 DEF VertexInv, Inserting, Alive
<1>4. s[1] # r[1]
  <2>1. ASSUME s[1] = r[1] PROVE FALSE
    <3>1. s[2] = r[2]
        BY <1>1, <1>2, <1>3, <2>1, SidesDiffer
    <3> QED
        BY <1>1, <2>1, <3>1
  <2> QED
      BY <2>1
<1>5. /\ nbrs[s[1]][s[2]] = r[1]
      /\ tris[s[1]][s[2]] = tris[r[1]][Nxt(r[2])]
      /\ tris[r[1]][r[2]] = tris[s[1]][Nxt(s[2])]
    BY <1>1, <1>2, <1>4 DEF MeshFits
<1> QED
    BY <1>4, <1>5 DEF Dir

\* There are finitely many sides of the cavity.
LEMMA CavityFinite ==
    ASSUME MeshTypes
    PROVE  IsFiniteSet(cavity) /\ IsFiniteSet(cavity \X (1 .. 3))
<1>1. DOMAIN tris = 1 .. Len(tris) /\ Len(tris) \in Nat
    BY LenProperties DEF MeshTypes
<1>2. IsFiniteSet(1 .. Len(tris)) /\ cavity \in SUBSET (1 .. Len(tris))
    BY <1>1, FS_Interval DEF MeshTypes
<1>3. IsFiniteSet(1 .. 3)
  <2>1. 1 \in Int /\ 3 \in Int
      OBVIOUS
  <2> QED
      BY <2>1, FS_Interval
<1>4. IsFiniteSet(cavity)
    BY <1>2, FS_Subset
<1> QED
    BY <1>3, <1>4, FS_Product

\* What a number for each side of the cavity adds up to, where the two sides of an
\* edge have opposite numbers: what it does on the ring.
LEMMA RingTotal ==
    ASSUME MeshTypes, VertexInv, LinkInv, MeshFits, phase = "fan",
           NEW h, \A s \in cavity \X (1 .. 3) : h[s] \in Int,
           \A s, q \in cavity \X (1 .. 3) :
             s # q /\ Dir(q)[1] = Dir(s)[2] /\ Dir(q)[2] = Dir(s)[1] => h[q] = -h[s],
           NEW r, \A j \in 1 .. Len(Ring) : r[j] = h[Ring[j]]
    PROVE  Total(h, cavity \X (1 .. 3)) = Total(r, 1 .. Len(Ring))
<1> DEFINE sides == cavity \X (1 .. 3)
<1> DEFINE outer == {s \in sides : \E j \in 1 .. Len(Ring) : Ring[j] = s}
<1> DEFINE inner == sides \ outer
<1>1. /\ Len(Ring) \in Nat /\ DOMAIN Ring = 1 .. Len(Ring)
      /\ \A j \in 1 .. Len(Ring) : Ring[j] \in sides
      /\ \A j, l \in 1 .. Len(Ring) : Ring[j] = Ring[l] => j = l
      /\ \A j \in 1 .. Len(Ring) : \A q \in sides : EdgeAt(q) = EdgeAt(Ring[j]) => q = Ring[j]
      /\ \A s \in sides : (\A q \in sides : EdgeAt(q) = EdgeAt(s) => q = s)
                          => \E j \in 1 .. Len(Ring) : Ring[j] = s
    BY RingLists, ElementOfSeq
<1>2. IsFiniteSet(sides) /\ IsFiniteSet(1 .. Len(Ring))
    BY <1>1, CavityFinite, FS_Interval
<1>5. \A s \in sides : h[s] \in Int
    OBVIOUS
<1>8. /\ outer \in SUBSET sides /\ inner \in SUBSET sides
      /\ sides = outer \union inner /\ outer \cap inner = {}
    OBVIOUS
<1>9. Total(h, inner) = 0
  <2> DEFINE p == [s \in sides |-> CHOOSE q \in sides : q # s /\ EdgeAt(q) = EdgeAt(s)]
  <2>1. ASSUME NEW s \in inner
        PROVE  p[s] \in sides /\ p[s] # s /\ EdgeAt(p[s]) = EdgeAt(s)
    <3>1. \E q \in sides : q # s /\ EdgeAt(q) = EdgeAt(s)
      <4>1. s \in sides /\ ~\E j \in 1 .. Len(Ring) : Ring[j] = s
          OBVIOUS
      <4> HIDE DEF sides, inner, outer
      <4> QED
          BY <1>1, <4>1
    <3>2. s \in sides
        OBVIOUS
    <3> HIDE DEF sides, inner, outer
    <3> QED
        BY <3>1, <3>2
  <2> HIDE DEF p
  <2>2. ASSUME NEW s \in inner PROVE p[s] \in inner
    <3>1. /\ s \in sides /\ s \notin outer
          /\ p[s] \in sides /\ p[s] # s /\ EdgeAt(p[s]) = EdgeAt(s)
        BY <2>1
    <3>2. ASSUME p[s] \in outer PROVE FALSE
      <4>1. PICK j \in 1 .. Len(Ring) : Ring[j] = p[s]
          BY <3>2
      <4> QED
          BY <1>1, <3>1, <4>1
    <3> QED
        BY <3>1, <3>2
  <2>3. ASSUME NEW s \in inner PROVE p[p[s]] = s /\ h[p[s]] = -h[s]
    <3> DEFINE q == p[s]
    <3> DEFINE o == p[q]
    <3>1. /\ s \in sides /\ q \in inner /\ q \in sides /\ q # s /\ EdgeAt(q) = EdgeAt(s)
        BY <2>1, <2>2, <1>8
    <3>2. o \in sides /\ o # q /\ EdgeAt(o) = EdgeAt(q)
        BY <2>1, <3>1
    <3> HIDE DEF q, o, inner, outer
    <3>3. nbrs[q[1]][q[2]] = s[1] /\ Dir(q)[1] = Dir(s)[2] /\ Dir(q)[2] = Dir(s)[1]
        BY <3>1, OppositeSides
    <3>4. nbrs[q[1]][q[2]] = o[1]
        BY <3>1, <3>2, OppositeSides
    <3>5. o = s
      <4>1. ASSUME o # s PROVE FALSE
        <5>1. o[1] # s[1]
            BY <3>1, <3>2, <4>1, OppositeSides
        <5> QED
            BY <3>3, <3>4, <5>1
      <4> QED
          BY <4>1
    <3>6. h[q] = -h[s]
        BY <3>1, <3>3
    <3> QED
        BY <3>5, <3>6 DEF q, o
  <2>4. IsFiniteSet(inner) /\ \A s \in inner : h[s] \in Int
    <3> HIDE DEF sides, inner, outer
    <3> QED
        BY <1>2, <1>5, <1>8, FS_Subset
  <2> HIDE DEF inner, outer, sides
  <2> QED
      BY <2>2, <2>3, <2>4, SumCancels
<1>10. Total(h, outer) = Total(r, 1 .. Len(Ring))
  <2> DEFINE J == 1 .. Len(Ring)
  <2>1. \A y : y \in outer <=> \E j \in J : y = Ring[j]
      BY <1>1
  <2>2. \A j \in J : r[j] = h[Ring[j]] /\ h[Ring[j]] \in Int
      BY <1>1, <1>5
  <2>3. IsFiniteSet(J) /\ \A j, l \in J : Ring[j] = Ring[l] => j = l
      BY <1>1, <1>2
  <2> HIDE DEF J, outer
  <2>4. Total(h, outer) = Total(r, J)
      BY <2>1, <2>2, <2>3, SumImages
  <2> QED
      BY <2>4 DEF J
<1> HIDE DEF outer, inner, sides
<1>11. IsFiniteSet(outer) /\ IsFiniteSet(inner)
    BY <1>2, <1>8, FS_Subset
<1>12. Total(h, outer \union inner) = Total(h, outer) + Total(h, inner)
  <2>1. \A s \in outer \union inner : h[s] \in Int
      BY <1>5, <1>8
  <2> QED
      BY <1>8, <1>11, <2>1, SumAdds
<1>13. Total(h, outer) \in Int
  <2>1. \A s \in outer : h[s] \in Int
      BY <1>5, <1>8
  <2> QED
      BY <1>11, <2>1, SumTakes
<1>14. Total(h, sides) = Total(r, 1 .. Len(Ring))
    BY <1>8, <1>9, <1>10, <1>12, <1>13
<1> QED
    BY <1>14 DEF sides

\* The cavity has the area that its ring makes with the point: the sides inside
\* it cancel out.
LEMMA CavityArea ==
    ASSUME MeshTypes, VertexInv, LinkInv, MeshFits, SuperInv, phase = "fan",
           NEW f, \A t \in cavity : f[t] = Area(t),
           NEW r, \A j \in 1 .. Len(Ring) : r[j] = SideArea(Ring[j])
    PROVE  Total(f, cavity) = Total(r, 1 .. Len(Ring))
<1> DEFINE sides == cavity \X (1 .. 3)
<1> DEFINE h == [s \in sides |-> SideArea(s)]
<1>1. \A j \in 1 .. Len(Ring) : Ring[j] \in sides
    BY RingLists, ElementOfSeq
<1>2. IsFiniteSet(cavity)
    BY CavityFinite
<1>3. i \in Vertices
    BY LenProperties DEF MeshTypes, Vertices
<1>4. \A t \in cavity : /\ \A k \in 1 .. 3 : SideArea(<<t, k>>) \in Int
                        /\ Area(t) = (SideArea(<<t, 1>>) + SideArea(<<t, 2>>)) + SideArea(<<t, 3>>)
    BY <1>3, AreaOfSides DEF MeshTypes
<1>5. \A s \in sides : h[s] = SideArea(s) /\ h[s] \in Int
  <2> TAKE s \in sides
  <2>1. s[1] \in cavity /\ s[2] \in 1 .. 3 /\ s = <<s[1], s[2]>>
      OBVIOUS
  <2>2. SideArea(s) \in Int
      BY <1>4, <2>1
  <2> QED
      BY <2>2
<1>6. \A t \in cavity : f[t] = (h[<<t, 1>>] + h[<<t, 2>>]) + h[<<t, 3>>]
  <2> TAKE t \in cavity
  <2>1. <<t, 1>> \in sides /\ <<t, 2>> \in sides /\ <<t, 3>> \in sides
      OBVIOUS
  <2>2. /\ h[<<t, 1>>] = SideArea(<<t, 1>>) /\ h[<<t, 2>>] = SideArea(<<t, 2>>)
        /\ h[<<t, 3>>] = SideArea(<<t, 3>>)
      BY <1>5, <2>1
  <2> QED
      BY <1>4, <2>2
<1> HIDE DEF h
<1>7. Total(f, cavity) = Total(h, sides)
    BY <1>2, <1>5, <1>6, SumThrees
<1>8. ASSUME NEW s \in sides, NEW q \in sides, Dir(q)[1] = Dir(s)[2], Dir(q)[2] = Dir(s)[1]
      PROVE  h[q] = -h[s]
  <2>1. Dir(s)[1] \in Vertices /\ Dir(s)[2] \in Vertices
    <3>1. s[1] \in DOMAIN tris /\ s[2] \in {1, 2, 3}
        BY DEF MeshTypes
    <3>2. tris[s[1]] \in Triple
        BY <3>1, LenProperties, ElementOfSeq DEF MeshTypes
    <3>3. \A n \in {1, 2, 3} : tris[s[1]][n] \in Vertices
        BY <3>2 DEF Triple
    <3>4. Nxt(s[2]) \in {1, 2, 3}
        BY <3>1, Sides
    <3> QED
        BY <3>1, <3>3, <3>4 DEF Dir
  <2>2. \A w \in Vertices : XY(w) \in Int \X Int
      BY PointsOfVertices
  <2> DEFINE a == XY(Dir(s)[1])
  <2> DEFINE b == XY(Dir(s)[2])
  <2>3. SideArea(s) = Orient(a, b, XY(i)) /\ SideArea(q) = Orient(b, a, XY(i))
      BY <1>8 DEF SideArea, OrientXY
  <2>4. a \in Int \X Int /\ b \in Int \X Int /\ XY(i) \in Int \X Int
      BY <1>3, <2>1, <2>2
  <2> HIDE DEF a, b
  <2>5. SideArea(q) = -SideArea(s)
      BY <2>3, <2>4, OrientTurns
  <2> HIDE DEF sides
  <2> QED
      BY <1>5, <2>5
<1>9. \A s \in cavity \X (1 .. 3) : h[s] \in Int
    BY <1>5
<1>10. \A s, q \in cavity \X (1 .. 3) :
         s # q /\ Dir(q)[1] = Dir(s)[2] /\ Dir(q)[2] = Dir(s)[1] => h[q] = -h[s]
    BY <1>8
<1>11. \A j \in 1 .. Len(Ring) : r[j] = h[Ring[j]]
    BY <1>1, <1>5
<1>12. Total(h, cavity \X (1 .. 3)) = Total(r, 1 .. Len(Ring))
    BY <1>9, <1>10, <1>11, RingTotal
<1> QED
    BY <1>7, <1>12

-----------------------------------------------------------------------------
\* A ring that is left once at each vertex closes.

\* Whether a side leaves a vertex, 1, or comes to it, -1.
Leaves(s, v) == (IF Dir(s)[1] = v THEN 1 ELSE 0) - (IF Dir(s)[2] = v THEN 1 ELSE 0)

\* The ring leaves a vertex as often as it comes to it, as every triangle does.
LEMMA RingBalances ==
    ASSUME MeshTypes, VertexInv, LinkInv, MeshFits, phase = "fan", NEW v,
           NEW r, \A j \in 1 .. Len(Ring) : r[j] = Leaves(Ring[j], v)
    PROVE  Total(r, 1 .. Len(Ring)) = 0
<1> DEFINE sides == cavity \X (1 .. 3)
<1> DEFINE h == [s \in sides |-> Leaves(s, v)]
<1> DEFINE a == [t \in cavity |-> 0]
<1> DEFINE p == [t \in cavity |-> t]
<1>1. \A s \in sides : h[s] = Leaves(s, v) /\ h[s] \in Int
    BY DEF Leaves
<1>2. \A t \in cavity : a[t] = (h[<<t, 1>>] + h[<<t, 2>>]) + h[<<t, 3>>]
  <2> TAKE t \in cavity
  <2>1. <<t, 1>> \in sides /\ <<t, 2>> \in sides /\ <<t, 3>> \in sides
      OBVIOUS
  <2>2. /\ h[<<t, 1>>] = Leaves(<<t, 1>>, v) /\ h[<<t, 2>>] = Leaves(<<t, 2>>, v)
        /\ h[<<t, 3>>] = Leaves(<<t, 3>>, v)
      BY <1>1, <2>1
  <2>3. /\ Dir(<<t, 1>>) = <<tris[t][1], tris[t][2]>>
        /\ Dir(<<t, 2>>) = <<tris[t][2], tris[t][3]>>
        /\ Dir(<<t, 3>>) = <<tris[t][3], tris[t][1]>>
      BY Sides DEF Dir
  <2>4. (Leaves(<<t, 1>>, v) + Leaves(<<t, 2>>, v)) + Leaves(<<t, 3>>, v) = 0
      BY <2>3 DEF Leaves
  <2> QED
      BY <2>2, <2>4
<1>3. \A s, q \in sides :
        s # q /\ Dir(q)[1] = Dir(s)[2] /\ Dir(q)[2] = Dir(s)[1] => h[q] = -h[s]
    BY <1>1 DEF Leaves
<1>4. \A j \in 1 .. Len(Ring) : Ring[j] \in sides
    BY RingLists, ElementOfSeq
<1>5. \A j \in 1 .. Len(Ring) : r[j] = h[Ring[j]]
    BY <1>1, <1>4
<1> HIDE DEF h
<1>6. IsFiniteSet(cavity)
    BY CavityFinite
<1>7. Total(a, cavity) = 0
  <2>1. \A t \in cavity : a[t] = 0 /\ p[t] = t
      OBVIOUS
  <2> HIDE DEF a, p
  <2>2. \A t \in cavity : a[t] \in Int /\ p[t] \in cavity /\ p[p[t]] = t /\ a[p[t]] = -a[t]
      BY <2>1
  <2> QED
      BY <1>6, <2>2, SumCancels
<1> HIDE DEF a
<1>8. Total(a, cavity) = Total(h, sides)
    BY <1>1, <1>2, <1>6, SumThrees
<1>9. Total(h, sides) = Total(r, 1 .. Len(Ring))
  <2>1. \A s \in cavity \X (1 .. 3) : h[s] \in Int
      BY <1>1
  <2>2. \A s, q \in cavity \X (1 .. 3) :
          s # q /\ Dir(q)[1] = Dir(s)[2] /\ Dir(q)[2] = Dir(s)[1] => h[q] = -h[s]
      BY <1>3
  <2>3. Total(h, cavity \X (1 .. 3)) = Total(r, 1 .. Len(Ring))
      BY <1>5, <2>1, <2>2, RingTotal
  <2> QED
      BY <2>3
<1> QED
    BY <1>7, <1>8, <1>9

\* The ring has the point on its left and leaves no vertex twice.
StarShaped ==
    \A s \in Range(Ring) :
      /\ OrientXY(Dir(s)[1], Dir(s)[2], i) >= 0
      /\ \A r \in Range(Ring) : Dir(r)[1] = Dir(s)[1] => r = s

\* Then it closes: it comes to a vertex as often as it leaves it.
LEMMA StarCloses ==
    ASSUME MeshTypes, VertexInv, LinkInv, MeshFits, phase = "fan", StarShaped
    PROVE  RingCloses
<1> DEFINE J == 1 .. Len(Ring)
<1>1. /\ Range(Ring) = {Ring[j] : j \in J} /\ IsFiniteSet(J)
      /\ \A j \in J : Ring[j] \in cavity \X (1 .. 3)
      /\ \A j, l \in J : Ring[j] = Ring[l] => j = l
  <2>1. Len(Ring) \in Nat /\ DOMAIN Ring = J
      BY RingLists
  <2>2. IsFiniteSet(J)
    <3>1. 1 \in Int /\ Len(Ring) \in Int
        BY <2>1
    <3> QED
        BY <3>1, FS_Interval
  <2> QED
      BY <2>1, <2>2, RingLists, ElementOfSeq DEF Range
<1>2. \A j, l \in J : Start(j) = Start(l) => j = l
    BY <1>1 DEF StarShaped, Start
<1>3. \A j \in J : Start(j) # Stop(j)
  <2> TAKE j \in J
  <2>1. /\ EdgeOf(Joined(Ring[j]), 1) = EdgeAt(Ring[j])
        /\ Proper(Joined(Ring[j]))
      BY <1>1, NewTriangle
  <2>2. EdgeAt(Ring[j]) = {Start(j), Stop(j)}
      BY DEF EdgeAt, EdgeOf, Edge, Start, Stop, Dir
  <2>3. EdgeOf(Joined(Ring[j]), 1) = {Joined(Ring[j])[1], Joined(Ring[j])[2]}
      BY Sides
  <2> QED
      BY <2>1, <2>2, <2>3 DEF Proper
<1>4. ASSUME NEW v
      PROVE  \E r : /\ \A j \in J : /\ r[j] \in Int
                                    /\ Start(j) = v => r[j] = 1
                                    /\ Start(j) # v /\ Stop(j) = v => r[j] = -1
                                    /\ Start(j) # v /\ Stop(j) # v => r[j] = 0
                    /\ Total(r, J) = 0
  <2> DEFINE r == [j \in J |-> Leaves(Ring[j], v)]
  <2>1. \A j \in J : r[j] = Leaves(Ring[j], v)
      OBVIOUS
  <2> HIDE DEF r
  <2>2. Total(r, J) = 0
      BY <2>1, RingBalances
  <2>3. \A j \in J : /\ r[j] \in Int
                     /\ Start(j) = v => r[j] = 1
                     /\ Start(j) # v /\ Stop(j) = v => r[j] = -1
                     /\ Start(j) # v /\ Stop(j) # v => r[j] = 0
      BY <1>3, <2>1 DEF Leaves, Start, Stop
  <2> QED
      BY <2>2, <2>3
<1> HIDE DEF J
<1>5. ASSUME NEW l \in J PROVE \E j \in J : Start(j) = Stop(l)
  <2> SUFFICES ASSUME \A j \in J : Start(j) # Stop(l) PROVE FALSE
      OBVIOUS
  <2>1. PICK r : /\ \A j \in J : /\ r[j] \in Int
                                 /\ Start(j) # Stop(l) /\ Stop(j) = Stop(l) => r[j] = -1
                                 /\ Start(j) # Stop(l) /\ Stop(j) # Stop(l) => r[j] = 0
                 /\ Total(r, J) = 0
      BY <1>4
  <2>2. \A j \in J : r[j] \in Int /\ r[j] <= 0
      BY <2>1
  <2>3. r[l] = -1
      BY <2>1
  <2>4. IsFiniteSet(J \ {l}) /\ \A j \in J \ {l} : r[j] \in Int /\ r[j] <= 0
      BY <1>1, <2>2, FS_RemoveElement
  <2>5. Total(r, J) = r[l] + Total(r, J \ {l}) /\ Total(r, J \ {l}) \in Int
    <3>1. \A j \in J : r[j] \in Int
        BY <2>2
    <3>2. \A j \in J \ {l} : r[j] \in Int
        BY <2>2
    <3> QED
        BY <1>1, <2>4, <3>1, <3>2, SumTakes
  <2>6. Total(r, J \ {l}) <= 0
      BY <2>4, SumNotPositive
  <2> QED
      BY <2>1, <2>3, <2>5, <2>6
<1>6. ASSUME NEW l \in J PROVE \E j \in J : Stop(j) = Start(l)
  <2> SUFFICES ASSUME \A j \in J : Stop(j) # Start(l) PROVE FALSE
      OBVIOUS
  <2> DEFINE v == Start(l)
  <2>1. PICK r : /\ \A j \in J : /\ r[j] \in Int
                                 /\ Start(j) = v => r[j] = 1
                                 /\ Start(j) # v /\ Stop(j) # v => r[j] = 0
                 /\ Total(r, J) = 0
      BY <1>4
  <2>2. \A j \in J \ {l} : r[j] = 0
      BY <1>2, <2>1
  <2>3. r[l] = 1
      BY <2>1
  <2> DEFINE p == [j \in J \ {l} |-> j]
  <2>4. IsFiniteSet(J \ {l})
      BY <1>1, FS_RemoveElement
  <2>5. Total(r, J \ {l}) = 0
    <3>1. \A j \in J \ {l} : r[j] \in Int /\ p[j] \in J \ {l} /\ p[p[j]] = j /\ r[p[j]] = -r[j]
        BY <2>2
    <3> HIDE DEF p
    <3> QED
        BY <2>4, <3>1, SumCancels
  <2>6. Total(r, J) = r[l] + Total(r, J \ {l})
    <3>1. \A j \in J : r[j] \in Int
        BY <2>1
    <3> QED
        BY <1>1, <3>1, SumTakes
  <2> QED
      BY <2>1, <2>3, <2>5, <2>6
<1>7. ASSUME NEW l \in J, NEW m \in J, Stop(l) = Stop(m), l # m PROVE FALSE
  <2> DEFINE v == Stop(l)
  <2>1. PICK r : /\ \A j \in J : /\ r[j] \in Int
                                 /\ Start(j) = v => r[j] = 1
                                 /\ Start(j) # v /\ Stop(j) = v => r[j] = -1
                                 /\ Start(j) # v /\ Stop(j) # v => r[j] = 0
                 /\ Total(r, J) = 0
      BY <1>4
  <2>2. PICK k \in J : Start(k) = v
      BY <1>5
  <2>3. k # l /\ k # m
      BY <1>3, <1>7, <2>2
  <2>4. r[k] = 1 /\ r[l] = -1 /\ r[m] = -1
    <3>1. Start(l) # v /\ Start(m) # v /\ Stop(l) = v /\ Stop(m) = v
        BY <1>3, <1>7
    <3> HIDE DEF v
    <3> QED
        BY <2>1, <2>2, <3>1
  <2> DEFINE J1 == J \ {k}
  <2> DEFINE J2 == J1 \ {l}
  <2> DEFINE J3 == J2 \ {m}
  <2>5. \A j \in J3 : r[j] \in Int /\ r[j] <= 0
    <3> TAKE j \in J3
    <3>1. j \in J /\ j # k
        OBVIOUS
    <3>2. Start(j) # v
        BY <1>2, <2>2, <3>1
    <3>3. r[j] = -1 \/ r[j] = 0
        BY <2>1, <3>1, <3>2
    <3> QED
        BY <3>3
  <2>6. l \in J1 /\ m \in J2
      BY <1>7, <2>3
  <2>7. \A j \in J : r[j] \in Int
      BY <2>1
  <2>8. (\A j \in J1 : r[j] \in Int) /\ (\A j \in J2 : r[j] \in Int) /\ \A j \in J3 : r[j] \in Int
      BY <2>7
  <2>9. IsFiniteSet(J1) /\ IsFiniteSet(J2) /\ IsFiniteSet(J3)
    <3>1. IsFiniteSet(J1)
        BY <1>1, FS_RemoveElement
    <3>2. IsFiniteSet(J2)
      <4> HIDE DEF J1
      <4> QED
          BY <3>1, FS_RemoveElement
    <3>3. IsFiniteSet(J3)
      <4> HIDE DEF J2
      <4> QED
          BY <3>2, FS_RemoveElement
    <3> QED
        BY <3>1, <3>2, <3>3
  <2> HIDE DEF J1, J2, J3, v
  <2>10. Total(r, J) = r[k] + Total(r, J1)
      BY <1>1, <2>7, SumTakes DEF J1
  <2>11. Total(r, J1) = r[l] + Total(r, J2)
      BY <2>6, <2>8, <2>9, SumTakes DEF J2
  <2>12. Total(r, J2) = r[m] + Total(r, J3)
      BY <2>6, <2>8, <2>9, SumTakes DEF J3
  <2>13. Total(r, J3) \in Int
      BY <2>8, <2>9, SumTakes
  <2>14. Total(r, J3) <= 0
      BY <2>5, <2>9, SumNotPositive
  <2> QED
      BY <2>1, <2>4, <2>10, <2>11, <2>12, <2>13, <2>14
<1> DEFINE sides == Range(Ring)
<1>8. \A s \in sides : \E j \in J : s = Ring[j] /\ Dir(s)[1] = Start(j) /\ Dir(s)[2] = Stop(j)
    BY <1>1 DEF Start, Stop
<1>9. \A r, s \in sides : \A n \in {1, 2} : Dir(r)[n] = Dir(s)[n] => r = s
  <2> SUFFICES ASSUME NEW r \in sides, NEW s \in sides, NEW n \in {1, 2}, Dir(r)[n] = Dir(s)[n]
               PROVE  r = s
      OBVIOUS
  <2>1. PICK j \in J : r = Ring[j] /\ Dir(r)[1] = Start(j) /\ Dir(r)[2] = Stop(j)
      BY <1>8
  <2>2. PICK l \in J : s = Ring[l] /\ Dir(s)[1] = Start(l) /\ Dir(s)[2] = Stop(l)
      BY <1>8
  <2>3. Start(j) = Start(l) \/ Stop(j) = Stop(l)
      BY <2>1, <2>2
  <2> QED
      BY <1>2, <1>7, <2>1, <2>2, <2>3
<1>10. {Dir(s)[1] : s \in sides} = {Dir(s)[2] : s \in sides}
  <2>1. \A j \in J : Ring[j] \in sides /\ Dir(Ring[j])[1] = Start(j) /\ Dir(Ring[j])[2] = Stop(j)
      BY <1>1 DEF Start, Stop
  <2> HIDE DEF sides
  <2>2. ASSUME NEW s \in sides PROVE \E q \in sides : Dir(s)[1] = Dir(q)[2]
    <3>1. PICK l \in J : Dir(s)[1] = Start(l)
        BY <1>8 DEF sides
    <3> QED
        BY <1>6, <2>1, <3>1
  <2>3. ASSUME NEW s \in sides PROVE \E q \in sides : Dir(s)[2] = Dir(q)[1]
    <3>1. PICK l \in J : Dir(s)[2] = Stop(l)
        BY <1>8 DEF sides
    <3> QED
        BY <1>5, <2>1, <3>1
  <2> QED
      BY <2>2, <2>3
<1>11. \A s \in sides : OrientXY(Dir(s)[1], Dir(s)[2], i) >= 0
    BY DEF StarShaped
<1> QED
    BY <1>9, <1>10, <1>11, Zenon DEF RingCloses

-----------------------------------------------------------------------------
\* The mesh is whole.

\* The live triangles have the area of the super-triangle.
AreaInv == Total([t \in Alive |-> Area(t)], Alive) = Orient(coords[1], coords[2], coords[3])

\* The first of them is the super-triangle.
LEMMA AreaInit == DInit => AreaInv
<1> SUFFICES ASSUME DInit PROVE AreaInv
    OBVIOUS
<1>1. Len(pts) \in Nat /\ SuperInv
    BY MeshInit, SuperInit, LenProperties DEF MeshTypes
<1>2. tris[1] = <<Len(pts) + 1, Len(pts) + 2, Len(pts) + 3>> /\ Alive = {1}
    BY DEF DInit, Alive
<1>3. \A n \in {1, 2, 3} : XY(Len(pts) + n) = coords[n]
  <2> TAKE n \in {1, 2, 3}
  <2>1. Len(pts) + n > Len(pts) /\ (Len(pts) + n) - Len(pts) = n
      BY <1>1
  <2> QED
      BY <2>1 DEF XY, IsSuper
<1>4. Area(1) = Orient(coords[1], coords[2], coords[3])
  <2>1. /\ tris[1][1] = Len(pts) + 1 /\ tris[1][2] = Len(pts) + 2
        /\ tris[1][3] = Len(pts) + 3
      BY <1>2
  <2> QED
      BY <1>3, <2>1 DEF Area, OrientXY
<1>5. \A n \in 1 .. 3 : coords[n] \in Int \X Int
    BY <1>1 DEF SuperInv
<1>6. Area(1) \in Int
    BY <1>4, <1>5, OrientTurns
<1> DEFINE f == [t \in Alive |-> Area(t)]
<1>7. f[1] = Area(1)
    BY <1>2
<1> HIDE DEF f
<1>8. Total(f, {} \union {1}) = f[1] + Total(f, {}) /\ Total(f, {}) = 0
  <2>1. IsFiniteSet({}) /\ 1 \notin {} /\ \A y \in {} \union {1} : f[y] \in Int
      BY <1>6, <1>7, FS_EmptySet
  <2> QED
      BY <2>1, SumPuts, SumFirst
<1>9. {} \union {1} = Alive
    BY <1>2
<1>10. Total(f, Alive) = Orient(coords[1], coords[2], coords[3])
    BY <1>4, <1>6, <1>7, <1>8, <1>9
<1> QED
    BY <1>10 DEF AreaInv, f

\* A fan has the area of the cavity.
LEMMA FanArea ==
    ASSUME DInv, MeshFits, SuperInv, RingCloses, AreaInv, Fan
    PROVE  AreaInv'
<1> USE DEF DInv, MeshInv
<1>1. phase = "fan" /\ pts' = pts /\ coords' = coords
    BY DEF Fan, points
<1>2. FanParts /\ RingOrder
    BY <1>1, FanInParts, RingInOrder
<1>3. i \in Vertices
    BY <1>1, LenProperties DEF MeshTypes, Vertices
<1>4. \A t \in Alive : Area(t) \in Int
    BY <1>3, AreaOfSides DEF Alive
<1> DEFINE r == [j \in 1 .. Len(Ring) |-> SideArea(Ring[j])]
<1>5. \A j \in 1 .. Len(Ring) : r[j] = SideArea(Ring[j]) /\ r[j] \in Int
  <2> TAKE j \in 1 .. Len(Ring)
  <2>1. Ring[j] \in cavity \X (1 .. 3)
      BY RingLists, ElementOfSeq
  <2>2. Ring[j][1] \in DOMAIN tris /\ Ring[j][2] \in 1 .. 3 /\ Ring[j] = <<Ring[j][1], Ring[j][2]>>
      BY <2>1 DEF MeshTypes
  <2>3. SideArea(Ring[j]) \in Int
      BY <1>3, <2>2, AreaOfSides
  <2> QED
      BY <2>3
<1> DEFINE f == [t \in Alive |-> Area(t)]
<1> DEFINE g == [t \in Alive' |-> OrientXY(tris'[t][1], tris'[t][2], tris'[t][3])]
<1>6. [t \in Alive |-> Area(t)]' = g
  <2>1. \A t : Area(t)' = OrientXY(tris'[t][1], tris'[t][2], tris'[t][3])
      BY <1>1 DEF Area, OrientXY, XY, IsSuper
  <2> QED
      BY <2>1
<1>7. \A t \in Alive \ cavity : g[t] = f[t]
    BY <1>2 DEF FanParts, Area
<1>8. \A t \in Alive : f[t] = Area(t) /\ f[t] \in Int
    BY <1>4
<1>9. ASSUME NEW j \in 1 .. Len(Ring) PROVE g[Len(tris) + j] = r[j]
  <2> DEFINE t == Len(tris) + j
  <2>1. tris'[t] = <<Start(j), Stop(j), i>> /\ t \in Alive'
      BY <1>2 DEF FanParts, RingOrder
  <2>2. tris'[t][1] = Start(j) /\ tris'[t][2] = Stop(j) /\ tris'[t][3] = i
      BY <2>1
  <2>3. g[t] = OrientXY(tris'[t][1], tris'[t][2], tris'[t][3])
      BY <2>1
  <2> HIDE DEF t, g
  <2>4. OrientXY(tris'[t][1], tris'[t][2], tris'[t][3]) = SideArea(Ring[j])
      BY <2>2 DEF SideArea, Start, Stop
  <2> QED
      BY <1>5, <2>3, <2>4 DEF t
<1> HIDE DEF f, g, r
<1>10. Total(f, cavity) = Total(r, 1 .. Len(Ring))
  <2>1. \A t \in cavity : f[t] = Area(t)
      BY <1>2, <1>8 DEF FanParts
  <2> QED
      BY <1>1, <1>5, <2>1, CavityArea
<1> DEFINE n == Len(tris)
<1> DEFINE m == Len(Ring)
<1> DEFINE new == Alive'
<1>11. /\ n \in Nat /\ m \in Nat /\ Alive \in SUBSET (1 .. n) /\ cavity \in SUBSET Alive
       /\ \A t : t \in new <=> t \in Alive \ cavity \/ \E j \in 1 .. m : t = n + j
    BY <1>2 DEF FanParts
<1>12. Replaces(n, m, Alive, cavity, new, f, g, r)
    BY <1>5, <1>7, <1>8, <1>9, <1>10, <1>11 DEF Replaces
<1> HIDE DEF n, m, new
<1>13. Total(g, new) = Total(f, Alive)
    BY <1>12, SumReplaced
<1>14. Total([t \in Alive |-> Area(t)]', Alive') = Orient(coords'[1], coords'[2], coords'[3])
    BY <1>1, <1>6, <1>13 DEF AreaInv, new, f
<1> QED
    BY <1>14 DEF AreaInv

\* Every other step leaves the mesh as it is.
LEMMA AreaNext ==
    DInv /\ MeshFits /\ SuperInv /\ (phase = "fan" => RingCloses) /\ AreaInv /\ [DNext]_dvars
    => AreaInv'
<1> SUFFICES ASSUME DInv, MeshFits, SuperInv, phase = "fan" => RingCloses, AreaInv,
                    [DNext]_dvars
             PROVE  AreaInv'
    OBVIOUS
<1>1. CASE Fan
  <2>1. phase = "fan"
      BY <1>1 DEF Fan
  <2> QED
      BY <1>1, <2>1, FanArea
<1>2. CASE UNCHANGED <<points, mesh>>
  <2>1. tris' = tris /\ Alive' = Alive /\ pts' = pts /\ coords' = coords
      BY <1>2 DEF mesh, points, Alive
  <2>2. \A t : Area(t)' = Area(t)
      BY <2>1 DEF Area, OrientXY, XY, IsSuper
  <2>3. [t \in Alive |-> Area(t)]' = [t \in Alive |-> Area(t)]
      BY <2>1, <2>2
  <2>4. Total([t \in Alive |-> Area(t)]', Alive') = Orient(coords'[1], coords'[2], coords'[3])
      BY <2>1, <2>3 DEF AreaInv
  <2> QED
      BY <2>4 DEF AreaInv
<1>3. Fan \/ UNCHANGED <<points, mesh>>
    BY DEF DNext, NextPoint, Walk, Arrive, Flood, Flooded, Finalize, Pop, Finish, Done,
           dvars, points, mesh
<1> QED
    BY <1>1, <1>2, <1>3

\* MapThenSumSet sums one element after the other.
LEMMA SumUnfolds ==
    ASSUME NEW S
    PROVE  MapThenSumSet(Area, S) =
             (CHOOSE g : g = [T \in SUBSET S |->
                                IF T = {} THEN 0
                                ELSE LET x == CHOOSE x \in T : TRUE
                                     IN  Area(x) + g[T \ {x}]])[S]
  BY Zenon DEF MapThenSumSet, MapThenFoldSet

\* Its sum is Total.
LEMMA SumIsTotal ==
    ASSUME NEW S, IsFiniteSet(S)
    PROVE  MapThenSumSet(Area, S) = Total([t \in S |-> Area(t)], S)
<1> DEFINE f == [t \in S |-> Area(t)]
<1> DEFINE R(h) == h = [T \in SUBSET S |->
                          IF T = {} THEN 0
                          ELSE LET x == CHOOSE x \in T : TRUE IN Area(x) + h[T \ {x}]]
<1>1. PICK g : IsSum(g, f, S)
    BY SumExists
<1>2. \A h : R(h) <=> IsSum(h, f, S)
  <2> TAKE h
  <2>1. \A T \in SUBSET S : T # {} => (CHOOSE x \in T : TRUE) \in S
      OBVIOUS
  <2>2. \A T \in SUBSET S : T # {} => f[CHOOSE x \in T : TRUE] = Area(CHOOSE x \in T : TRUE)
      BY <2>1
  <2> HIDE DEF f
  <2>3. [T \in SUBSET S |->
           IF T = {} THEN 0 ELSE LET x == CHOOSE x \in T : TRUE IN Area(x) + h[T \ {x}]]
        = [T \in SUBSET S |->
             IF T = {} THEN 0 ELSE LET x == CHOOSE x \in T : TRUE IN f[x] + h[T \ {x}]]
      BY <2>2
  <2> QED
      BY <2>3 DEF IsSum
<1>3. MapThenSumSet(Area, S) = (CHOOSE h : R(h))[S]
    BY SumUnfolds
<1>4. Total(f, S) = (CHOOSE h : IsSum(h, f, S))[S]
    BY DEF Total
<1> HIDE DEF f, R
<1>5. (CHOOSE h : R(h)) = g
  <2>1. R(CHOOSE h : R(h))
      BY <1>1, <1>2
  <2> DEFINE c == CHOOSE h : R(h)
  <2>2. IsSum(c, f, S)
      BY <1>2, <2>1
  <2> HIDE DEF c
  <2>3. c = g
      BY <1>1, <2>2, SumIsOne
  <2> QED
      BY <2>3 DEF c
<1>6. (CHOOSE h : IsSum(h, f, S)) = g
  <2> DEFINE c == CHOOSE h : IsSum(h, f, S)
  <2>1. IsSum(c, f, S)
      BY <1>1
  <2> HIDE DEF c
  <2>2. c = g
      BY <1>1, <2>1, SumIsOne
  <2> QED
      BY <2>2 DEF c
<1>7. MapThenSumSet(Area, S) = Total(f, S)
    BY <1>3, <1>4, <1>5, <1>6
<1> QED
    BY <1>7 DEF f

\* The mesh stays whole as long as the flood ends with a cavity whose rim, seen
\* from the point, turns one way and passes no vertex twice: then the rim closes,
\* the fan has the area of the cavity and its triangles are each other's
\* neighbours and those of the triangles outside.  Nothing is asked of the walk and
\* of the circle test but such cavities.
THEOREM StarsKeepItWhole ==
    DSpec /\ [](phase = "fan" => StarShaped) => []MeshIsWhole
<1>1. DInv /\ MeshFits /\ (phase = "fan" => StarShaped) => (phase = "fan" => RingCloses)
    BY StarCloses DEF DInv, MeshInv
<1>2. DInv /\ MeshFits /\ AreaInv /\ (phase = "fan" => RingCloses) => MeshIsWhole
  <2> SUFFICES ASSUME DInv, MeshFits, AreaInv, phase = "fan" => RingCloses
               PROVE  MeshIsWhole
      OBVIOUS
  <2>1. phase = "insert" => Meshed
      BY FitsIsMeshed DEF DInv, MeshInv
  <2>2. IsFiniteSet(Alive)
    <3>1. DOMAIN tris = 1 .. Len(tris) /\ Len(tris) \in Nat
        BY LenProperties DEF DInv, MeshInv, MeshTypes
    <3>2. IsFiniteSet(1 .. Len(tris)) /\ Alive \in SUBSET (1 .. Len(tris))
        BY <3>1, FS_Interval DEF Alive
    <3> QED
        BY <3>2, FS_Subset
  <2>3. MapThenSumSet(Area, Alive) = Total([t \in Alive |-> Area(t)], Alive)
      BY <2>2, SumIsTotal
  <2>4. MapThenSumSet(Area, Alive) = Orient(coords[1], coords[2], coords[3])
      BY <2>3 DEF AreaInv
  <2> QED
      BY <2>1, <2>4 DEF MeshIsWhole
<1> QED
    BY <1>1, <1>2, FitsInit, FitsNext, AreaInit, AreaNext, DelaunayInv, SuperAlways, PTL DEF DSpec

-----------------------------------------------------------------------------
\* The end of a run.

\* Flips are done when no edge is left to look at or there have been too many.
HeapInv ==
    /\ phase \in Inserting => heap = {}
    /\ phase = "done" => heap = {} \/ flips = Cap

\* The heap is empty until the flips begin.
LEMMA HeapInit == DInit => HeapInv
    BY DEF DInit, HeapInv

\* Finish waits for it to be empty again, or for the cap.
LEMMA HeapNext == DInv /\ HeapInv /\ [DNext]_dvars => HeapInv'
<1> SUFFICES ASSUME DInv, HeapInv, [DNext]_dvars PROVE HeapInv'
    OBVIOUS
<1>1. UNCHANGED pts
    BY DEF DNext, NextPoint, Walk, Arrive, Flood, Flooded, Fan, Finalize, Pop, Finish, Done,
           dvars, points
<1>2. Cap' = Cap
    BY <1>1 DEF Cap
<1>3. CASE NextPoint \/ Walk \/ Arrive \/ Flood \/ Flooded \/ Fan
  <2>1. phase \in Inserting /\ heap' = heap
      BY <1>3 DEF NextPoint, Walk, Arrive, Flood, Flooded, Fan, flipv, Inserting
  <2> QED
      BY <2>1 DEF HeapInv
<1>4. CASE Finalize \/ Pop
  <2>1. phase' = "flip"
      BY <1>4 DEF Finalize, Pop
  <2> QED
      BY <2>1 DEF HeapInv, Inserting
<1>5. CASE Finish
  <2>1. phase' = "done" /\ heap' = heap /\ flips' = flips /\ (heap = {} \/ flips = Cap)
      BY <1>5 DEF Finish, flipv
  <2> QED
      BY <1>2, <2>1 DEF HeapInv, Inserting
<1>6. CASE Done \/ UNCHANGED dvars
  <2>1. phase' = phase /\ heap' = heap /\ flips' = flips
      BY <1>6 DEF Done, dvars
  <2> QED
      BY <1>2, <2>1 DEF HeapInv
<1> QED
    BY <1>3, <1>4, <1>5, <1>6 DEF DNext

\* What is returned has no edge left that should be flipped, or the flips were
\* stopped by their cap: the loop does not end in any other way.
THEOREM FinishedIsSettled ==
    DSpec => [](phase = "done" =>
                  \/ flips = Cap
                  \/ \A e \in DOMAIN inc :
                       HasTwo(e) => ~Flips(Min(e), Max(e), Third(e, 1), Third(e, 2)))
<1>1. DInv /\ HeapInv =>
        (phase = "done" =>
           \/ flips = Cap
           \/ \A e \in DOMAIN inc :
                HasTwo(e) => ~Flips(Min(e), Max(e), Third(e, 1), Third(e, 2)))
    BY DEF DInv, FlipInv, HeapInv, NothingLeftToFlip
<1> QED
    BY <1>1, HeapInit, HeapNext, DelaunayInv, PTL DEF DSpec

-----------------------------------------------------------------------------
\* Every step counts.

\* How far a run has got: what is left of each part of its work.  Points and flips
\* come one after the other.
Stage == CASE phase = "done" -> 0 [] phase = "flip" -> 1 [] OTHER -> 2
ToInsert == Len(pts) - i
\* What is to be done for the point.
Rank == CASE phase = "walk" -> 3 [] phase = "flood" -> 2 [] phase = "fan" -> 1 [] OTHER -> 0
\* Steps the walk may still take, triangles the flood may still take, flips left.
Budget == CASE phase = "walk" -> 4 * Len(pts) + 64 - walked
            [] phase = "flood" -> Len(tris) - Cardinality(cavity)
            [] phase = "flip" -> Cap - flips
            [] OTHER -> 0
\* What is still to be looked at.
Waiting == CASE phase = "flood" -> IF stack = {} THEN 0 ELSE 1
             [] phase = "flip" -> Cardinality(heap)
             [] OTHER -> 0

\* The first of these that changes gets less.
Nearer ==
    \/ Stage' < Stage
    \/ /\ Stage' = Stage
       /\ \/ ToInsert' < ToInsert
          \/ /\ ToInsert' = ToInsert
             /\ \/ Rank' < Rank
                \/ /\ Rank' = Rank
                   /\ \/ Budget' < Budget
                      \/ Budget' = Budget /\ Waiting' < Waiting

\* None of them is ever negative.
BudgetInv == walked \in 0 .. 4 * Len(pts) + 64

\* No step of a walk is taken yet.
LEMMA BudgetInit == DInit => BudgetInv
<1> SUFFICES ASSUME DInit PROVE BudgetInv
    OBVIOUS
<1>1. Len(pts) \in Nat /\ walked = 0
    BY MeshInit, LenProperties DEF MeshTypes, DInit
<1> QED
    BY <1>1 DEF BudgetInv

\* A walk stops at its limit.
LEMMA BudgetNext == DInv /\ BudgetInv /\ [DNext]_dvars => BudgetInv'
<1> SUFFICES ASSUME DInv, BudgetInv, [DNext]_dvars PROVE BudgetInv'
    OBVIOUS
<1>1. Len(pts) \in Nat
    BY LenProperties DEF DInv, MeshInv, MeshTypes
<1>2. pts' = pts
    BY DEF DNext, NextPoint, Walk, Arrive, Flood, Flooded, Fan, Finalize, Pop, Finish, Done,
           dvars, points
<1>3. CASE Walk
    BY <1>1, <1>2, <1>3 DEF Walk, Walking, BudgetInv
<1>4. walked' = walked \/ walked' = 0 \/ Walk
    BY DEF DNext, NextPoint, Arrive, Flood, Flooded, Fan, Finalize, Pop, Finish, Done, dvars
<1> QED
    BY <1>1, <1>2, <1>3, <1>4 DEF BudgetInv

\* The flood's triangles are some of the mesh's, and the heap is finite.
LEMMA FiniteWork ==
    ASSUME DInv
    PROVE  /\ IsFiniteSet(cavity) /\ Cardinality(cavity) \in 0 .. Len(tris)
           /\ \A S \in SUBSET (1 .. Len(tris)) : IsFiniteSet(S) /\ Cardinality(S) \in 0 .. Len(tris)
           /\ IsFiniteSet(heap)
           /\ Len(tris) \in Nat /\ Len(pts) \in Nat /\ DOMAIN tris = 1 .. Len(tris)
<1>1. Len(tris) \in Nat /\ Len(pts) \in Nat /\ DOMAIN tris = 1 .. Len(tris)
    BY LenProperties DEF DInv, MeshInv, MeshTypes
<1>2. IsFiniteSet(1 .. Len(tris)) /\ Cardinality(1 .. Len(tris)) = Len(tris)
  <2>1. \A n \in Nat : IsFiniteSet(1 .. n) /\ Cardinality(1 .. n) = n
      BY FS_Interval
  <2> QED
      BY <1>1, <2>1
<1>3. ASSUME NEW S \in SUBSET (1 .. Len(tris))
      PROVE  IsFiniteSet(S) /\ Cardinality(S) \in 0 .. Len(tris)
  <2>1. IsFiniteSet(S) /\ Cardinality(S) <= Len(tris)
      BY <1>2, FS_Subset
  <2>2. Cardinality(S) \in Nat
      BY <2>1, FS_CardinalityType
  <2> QED
      BY <1>1, <2>1, <2>2
<1>4. cavity \in SUBSET (1 .. Len(tris))
    BY <1>1 DEF DInv, MeshInv, MeshTypes
<1>5. IsFiniteSet(heap)
  <2>1. IsFiniteSet(Points)
      BY <1>1, FS_Interval DEF Points
  <2>2. IsFiniteSet(SUBSET Points)
      BY <2>1, FS_SUBSET
  <2>3. heap \in SUBSET (SUBSET Points)
      BY DEF DInv, FlipInv
  <2> QED
      BY <2>2, <2>3, FS_Subset
<1> QED
    BY <1>1, <1>3, <1>4, <1>5

\* They are natural numbers.
LEMMA WorkIsCounted ==
    ASSUME DInv, BudgetInv
    PROVE  Stage \in Nat /\ ToInsert \in Nat /\ Rank \in Nat /\ Budget \in Nat /\ Waiting \in Nat
<1>1. /\ IsFiniteSet(cavity) /\ Cardinality(cavity) \in 0 .. Len(tris)
      /\ IsFiniteSet(heap) /\ Cardinality(heap) \in Nat
      /\ Len(tris) \in Nat /\ Len(pts) \in Nat
    BY FiniteWork, FS_CardinalityType
<1>2. ToInsert \in Nat
    BY <1>1 DEF DInv, MeshInv, MeshTypes, ToInsert
<1>3. Budget \in Nat
  <2>1. 4 * Len(pts) + 64 - walked \in Nat
      BY <1>1 DEF BudgetInv
  <2>2. Len(tris) - Cardinality(cavity) \in Nat
      BY <1>1
  <2>3. Cap - flips \in Nat
      BY <1>1 DEF DInv, FlipInv, Cap
  <2> QED
      BY <2>1, <2>2, <2>3 DEF Budget
<1> QED
    BY <1>1, <1>2, <1>3 DEF Stage, Rank, Waiting

\* Every step but the last one's repetition brings the run nearer to its end.
LEMMA StepCounts == DInv /\ DNext => Nearer \/ phase = "done"
<1> SUFFICES ASSUME DInv, DNext PROVE Nearer \/ phase = "done"
    OBVIOUS
<1>0. /\ Len(pts) \in Nat /\ Len(tris) \in Nat /\ DOMAIN tris = 1 .. Len(tris)
      /\ i \in 0 .. Len(pts) /\ walked \in Nat /\ flips \in 0 .. Cap /\ Cap \in Nat
  <2>1. Len(pts) \in Nat /\ Len(tris) \in Nat /\ DOMAIN tris = 1 .. Len(tris)
      BY FiniteWork
  <2> QED
      BY <2>1 DEF DInv, MeshInv, MeshTypes, FlipInv, Cap
<1>1. pts' = pts
    BY DEF DNext, NextPoint, Walk, Arrive, Flood, Flooded, Fan, Finalize, Pop, Finish, Done,
           dvars, points
<1>2. CASE NextPoint
  <2>1. phase = "insert" /\ phase' = "walk" /\ i' = i + 1
      BY <1>2 DEF NextPoint
  <2>2. Stage' = Stage /\ ToInsert' < ToInsert
      BY <1>0, <1>1, <2>1 DEF Stage, ToInsert
  <2> QED
      BY <2>2 DEF Nearer
<1>3. CASE Walk
  <2>1. phase = "walk" /\ phase' = "walk" /\ i' = i /\ walked' = walked + 1
      BY <1>3 DEF Walk
  <2>2. Stage' = Stage /\ ToInsert' = ToInsert /\ Rank' = Rank /\ Budget' < Budget
      BY <1>0, <1>1, <2>1 DEF Stage, ToInsert, Rank, Budget
  <2> QED
      BY <2>2 DEF Nearer
<1>4. CASE Arrive
  <2>1. phase = "walk" /\ phase' = "flood" /\ i' = i
      BY <1>4 DEF Arrive
  <2>2. Stage' = Stage /\ ToInsert' = ToInsert /\ Rank' < Rank
      BY <1>1, <2>1 DEF Stage, ToInsert, Rank
  <2> QED
      BY <2>2 DEF Nearer
<1>5. CASE Flood
  <2> DEFINE new == Conflicts((stack \cap Alive) \ cavity)
  <2>1. /\ phase = "flood" /\ phase' = "flood" /\ i' = i /\ tris' = tris /\ stack # {}
        /\ cavity' = cavity \union new /\ stack' = Spread(new) \ cavity'
      BY <1>5 DEF Flood, mesh
  <2>2. new \subseteq 1 .. Len(tris) /\ new \cap cavity = {}
      BY <1>0 DEF Conflicts, Alive
  <2> HIDE DEF new
  <2>3. Stage' = Stage /\ ToInsert' = ToInsert /\ Rank' = Rank
      BY <1>1, <2>1 DEF Stage, ToInsert, Rank
  <2>4. CASE new = {}
    <3>1. cavity' = cavity /\ stack' = {}
        BY <2>1, <2>4 DEF Spread
    <3>2. Budget = Len(tris) - Cardinality(cavity) /\ Budget' = Len(tris') - Cardinality(cavity')
        BY <2>1 DEF Budget
    <3>3. Waiting = 1 /\ Waiting' = 0
        BY <2>1, <3>1 DEF Waiting
    <3>4. Budget' = Budget /\ Waiting' < Waiting
        BY <2>1, <3>1, <3>2, <3>3
    <3> QED
        BY <2>3, <3>4 DEF Nearer
  <2>5. CASE new # {}
    <3>1. PICK t \in new : TRUE
        BY <2>5
    <3>2. /\ IsFiniteSet(cavity) /\ Cardinality(cavity) \in Nat
          /\ t \notin cavity /\ cavity \union {t} \subseteq cavity'
        BY <2>1, <2>2, <3>1, FiniteWork, FS_CardinalityType
    <3>3. Cardinality(cavity \union {t}) = Cardinality(cavity) + 1
        BY <3>2, FS_AddElement
    <3>4. IsFiniteSet(cavity') /\ Cardinality(cavity') \in Nat
      <4>1. cavity' \in SUBSET (1 .. Len(tris))
          BY <1>0, <2>1, <2>2 DEF DInv, MeshInv, MeshTypes
      <4> QED
          BY <1>0, <4>1, FiniteWork
    <3>5. Cardinality(cavity \union {t}) <= Cardinality(cavity')
        BY <3>2, <3>4, FS_Subset
    <3>6. Budget' < Budget
      <4>1. /\ Budget = Len(tris) - Cardinality(cavity)
            /\ Budget' = Len(tris) - Cardinality(cavity')
          BY <2>1 DEF Budget
      <4> QED
          BY <1>0, <3>2, <3>3, <3>4, <3>5, <4>1
    <3> QED
        BY <2>3, <3>6 DEF Nearer
  <2> QED
      BY <2>4, <2>5
<1>6. CASE Flooded
  <2>1. phase = "flood" /\ phase' \in {"done", "fan"} /\ i' = i
      BY <1>6 DEF Flooded
  <2>2. Stage' < Stage \/ (Stage' = Stage /\ ToInsert' = ToInsert /\ Rank' < Rank)
      BY <1>1, <2>1 DEF Stage, ToInsert, Rank
  <2> QED
      BY <2>2 DEF Nearer
<1>7. CASE Fan
  <2>1. phase = "fan" /\ phase' = "insert" /\ i' = i
      BY <1>7 DEF Fan
  <2>2. Stage' = Stage /\ ToInsert' = ToInsert /\ Rank' < Rank
      BY <1>1, <2>1 DEF Stage, ToInsert, Rank
  <2> QED
      BY <2>2 DEF Nearer
<1>8. CASE Finalize \/ Finish
  <2>1. \/ phase = "insert" /\ phase' = "flip"
        \/ phase = "flip" /\ phase' = "done"
      BY <1>8 DEF Finalize, Finish
  <2>2. Stage' < Stage
      BY <2>1 DEF Stage
  <2> QED
      BY <2>2 DEF Nearer
<1>9. CASE Pop
  <2>1. phase = "flip" /\ phase' = "flip" /\ i' = i
      BY <1>9 DEF Pop
  <2>2. Stage' = Stage /\ ToInsert' = ToInsert /\ Rank' = Rank /\ Cap' = Cap
      BY <1>1, <2>1 DEF Stage, ToInsert, Rank, Cap
  <2>3. \/ flips' = flips + 1
        \/ \E e \in heap : heap' = heap \ {e} /\ flips' = flips
      BY <1>9 DEF Pop, Exchange
  <2>4. CASE flips' = flips + 1
    <3>1. Budget' < Budget
        BY <1>0, <2>1, <2>2, <2>4 DEF Budget
    <3> QED
        BY <2>2, <3>1 DEF Nearer
  <2>5. ASSUME NEW e \in heap, heap' = heap \ {e}, flips' = flips PROVE Nearer
    <3>1. Budget' = Budget
        BY <2>1, <2>2, <2>5 DEF Budget
    <3>2. IsFiniteSet(heap) /\ Cardinality(heap) \in Nat
        BY FiniteWork, FS_CardinalityType
    <3>3. Cardinality(heap \ {e}) = Cardinality(heap) - 1
        BY <3>2, FS_RemoveElement
    <3>4. Waiting' < Waiting
      <4>1. Waiting = Cardinality(heap) /\ Waiting' = Cardinality(heap')
          BY <2>1 DEF Waiting
      <4> QED
          BY <2>5, <3>2, <3>3, <4>1
    <3> QED
        BY <2>2, <3>1, <3>4 DEF Nearer
  <2> QED
      BY <2>3, <2>4, <2>5
<1>10. CASE Done
    BY <1>10 DEF Done
<1> QED
    BY <1>2, <1>3, <1>4, <1>5, <1>6, <1>7, <1>8, <1>9, <1>10 DEF DNext

\* No walk goes round, no flood comes back, no flips undo each other for ever:
\* every step of a run lowers the first of five natural numbers that it changes,
\* and five numbers can only so often be lowered in this order.
THEOREM EveryStepCounts ==
    DSpec => /\ [](/\ Stage \in Nat /\ ToInsert \in Nat /\ Rank \in Nat
                   /\ Budget \in Nat /\ Waiting \in Nat)
             /\ [][Nearer]_dvars
<1>1. DInv /\ [DNext]_dvars => [Nearer]_dvars
  <2> SUFFICES ASSUME DInv, DNext PROVE Nearer \/ UNCHANGED dvars
      OBVIOUS
  <2>1. phase = "done" => UNCHANGED dvars
      BY DEF DNext, NextPoint, Walk, Arrive, Flood, Flooded, Fan, Finalize, Pop, Finish, Done
  <2> QED
      BY <2>1, StepCounts
<1> QED
    BY <1>1, BudgetInit, BudgetNext, WorkIsCounted, DelaunayInv, PTL DEF DSpec
=============================================================================
