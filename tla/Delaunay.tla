------------------------------- MODULE Delaunay -------------------------------
(***************************************************************************)
(* The Delaunay triangulation of tools/spectral-standard/centroid_walk.py: *)
(* Bowyer-Watson insertion into a super-triangle, then a worklist that     *)
(* flips edges.                                                            *)
(*                                                                         *)
(* A point is located by a walk through the mesh, the triangles whose      *)
(* circumcircle it is in or on are replaced by a fan around it, and the    *)
(* neighbours of every triangle are rewired.  A wrong neighbour does not   *)
(* show where it is made, but in a walk or a flood several points later.   *)
(*                                                                         *)
(* Points are on an integer grid and every coordinate is ten times the     *)
(* code's, so that the vertices of the super-triangle are integers too.    *)
(* Arithmetic is exact here; the tolerances of the code only tell a tie    *)
(* from rounding, except for the relative one of the circle test, which is *)
(* kept.                                                                   *)
(*                                                                         *)
(* An operator marked "Slip" is a plausible mistake in the definition that *)
(* follows it.  No behaviour of DSpec uses it; PROJECT.json names the      *)
(* property that notices it.                                               *)
(***************************************************************************)
EXTENDS Integers, Sequences, FiniteSets, SequencesExt, FiniteSetsExt

CONSTANT Inputs   \* the point lists to triangulate, as <<x, y>> on the grid

ASSUME InputsAssumption == \A s \in Inputs : s \in Seq(Int \X Int) /\ s # <<>>

VARIABLES
    phase,   \* what is next: "insert" a point, "walk", "flood" or "fan" for it,
             \*   "flip", "done"
    pts,     \* the points kept
    coords,  \* the vertices of the super-triangle
    i,       \* the point being inserted
    tris,    \* triangles, also the dead ones
    nbrs,    \* per triangle, its neighbours across its three edges, or 0
    dead,    \* the triangles replaced since
    at,      \* where the walk is; the hint before it begins
    walked,  \* its steps
    stack,   \* triangles the flood has come to
    cavity,  \* those the point is in conflict with
    final,   \* the triangles that remain
    inc,     \* per edge, the final triangles with it, in the order they came
    heap,    \* edges to look at
    flips

points == <<pts, coords>>
mesh   == <<tris, nbrs, dead>>
flood  == <<stack, cavity>>
flipv  == <<final, inc, heap, flips>>
dvars  == <<phase, pts, coords, i, tris, nbrs, dead, at, walked, stack, cavity,
            final, inc, heap, flips>>

-----------------------------------------------------------------------------
\* The members of a set, one after the other; before has the pairs in order.
InOrder(S, before) ==
    LET rank(x) == 1 + Cardinality({y \in S : <<y, x>> \in before})
    IN  [k \in 1 .. Cardinality(S) |-> CHOOSE x \in S : rank(x) = k]

Ascending(S) == InOrder(S, {p \in S \X S : p[1] < p[2]})

Abs(x) == IF x < 0 THEN -x ELSE x

\* Coordinates that agree after rounding are one point; the first one is kept.
Dedup(s) ==
    LET keep == Ascending({k \in DOMAIN s : \A j \in 1 .. k - 1 : s[j] # s[k]})
    IN  [k \in DOMAIN keep |-> <<10 * s[keep[k]][1], 10 * s[keep[k]][2]>>]

Points == 1 .. Len(pts)
IsSuper(v) == v > Len(pts)

\* The vertices of the super-triangle, from the largest coordinate, which counts
\* as no less than one.  The first size tried always holds the points.
Super(s) ==
    LET scale == Max({10} \union {Abs(s[p][c]) : p \in DOMAIN s, c \in {1, 2}})
    IN  <<<<3 * scale + 17, 13>>,
          <<0 - (25 * scale) \div 10 - 9, (31 * scale) \div 10 + 23>>,
          <<0 - (8 * scale) \div 10 - 11, 0 - (27 * scale) \div 10 - 7>>>>

XY(v) == IF IsSuper(v) THEN coords[v - Len(pts)] ELSE pts[v]

\* Twice the signed area of a triangle.
Orient(a, b, c) == (b[1] - a[1]) * (c[2] - a[2]) - (b[2] - a[2]) * (c[1] - a[1])
OrientXY(u, v, w) == Orient(XY(u), XY(v), XY(w))

\* Where p is to the circle through a, b, c, in this order counterclockwise:
\* "in", "on" within the relative tolerance, "out"; a triangle without area has
\* no circle, and p is "inside" whatever it is.
InCircle(a, b, c, p) ==
    LET ax == a[1] - p[1]  ay == a[2] - p[2]  az == ax * ax + ay * ay
        bx == b[1] - p[1]  by == b[2] - p[2]  bz == bx * bx + by * by
        cx == c[1] - p[1]  cy == c[2] - p[2]  cz == cx * cx + cy * cy
        d == ax * (by * cz - cy * bz) - ay * (bx * cz - cx * bz) + az * (bx * cy - cx * by)
        perm == Abs(ax * by * cz) + Abs(ax * cy * bz) + Abs(bx * ay * cz)
                + Abs(bx * cy * az) + Abs(cx * ay * bz) + Abs(cx * by * az)
        eps == perm \div 1000000000
    IN  CASE Orient(a, b, c) <= 0 -> "inside"
          [] OTHER -> CASE d > eps -> "in"
                        [] d < -eps -> "out"
                        [] OTHER -> "on"

Circle(t, p) == InCircle(XY(tris[t][1]), XY(tris[t][2]), XY(tris[t][3]), XY(p))

Nxt(k) == (k % 3) + 1
Edge(u, v) == {u, v}
EdgeOf(tri, k) == Edge(tri[k], tri[Nxt(k)])
EdgesOf(tri) == {EdgeOf(tri, k) : k \in 1 .. 3}

Alive == DOMAIN tris \ dead

Lexicographic(s, t) == s[1] < t[1] \/ (s[1] = t[1] /\ s[2] < t[2])

\* The two ends of an edge, the smaller one first, by index and by position.
Ends(e) == <<Min(e), Max(e)>>
LexKey(p, q) == IF Lexicographic(q, p) THEN <<q, p>> ELSE <<p, q>>
LexLess(k, l) == Lexicographic(k[1], l[1]) \/ (k[1] = l[1] /\ Lexicographic(k[2], l[2]))

-----------------------------------------------------------------------------
\* A run over one input.  One point has no edges and two have one.
DInit ==
    /\ \E s \in Inputs : pts = Dedup(s)
    /\ coords = Super(pts)
    /\ phase = IF Len(pts) <= 2 THEN "done" ELSE "insert"
    /\ i = 0
    /\ tris = <<<<Len(pts) + 1, Len(pts) + 2, Len(pts) + 3>>>>
    /\ nbrs = <<<<0, 0, 0>>>>
    /\ dead = {} /\ at = 1 /\ walked = 0
    /\ stack = {} /\ cavity = {}
    /\ final = <<>> /\ inc = <<>> /\ heap = {} /\ flips = 0

NextPoint ==
    /\ phase = "insert" /\ i < Len(pts)
    /\ i' = i + 1 /\ walked' = 0 /\ phase' = "walk"
    /\ UNCHANGED <<points, mesh, at, flood, flipv>>

\* The sides of the triangle beyond which the point is, where a neighbour is.
Beyond(t) == {k \in 1 .. 3 : /\ OrientXY(tris[t][k], tris[t][Nxt(k)], i) < 0
                             /\ nbrs[t][k] \in Alive}

Walking == at \in Alive /\ walked < 4 * Len(pts) + 64

\* _locate: on to the neighbour across the first such side.
Walk ==
    /\ phase = "walk" /\ Walking
    /\ Beyond(at) # {}
    /\ at' = nbrs[at][Min(Beyond(at))]
    /\ walked' = walked + 1
    /\ UNCHANGED <<phase, points, i, mesh, flood, flipv>>

Holds(t) == \A k \in 1 .. 3 : OrientXY(tris[t][k], tris[t][Nxt(k)], i) >= 0

\* Where the walk began: the first triangle of the last fan, or the super-triangle.
Hint == Min({t \in DOMAIN tris : i - 1 \in Range(tris[t])} \union {Len(tris)})

\* The scan when the walk got nowhere: the first triangle that holds the point,
\* and the hint when none does.
Scan == LET holding == {t \in Alive : Holds(t)}
        IN  IF holding # {} THEN Min(holding) ELSE Hint

\* The walk ends where there is no such side.
Arrive ==
    /\ phase = "walk"
    /\ Walking => Beyond(at) = {}
    /\ stack' = {IF Walking THEN at ELSE Scan}
    /\ cavity' = {}
    /\ phase' = "flood"
    /\ UNCHANGED <<points, i, mesh, at, walked, flipv>>

\* A tie is a conflict.
Conflicts(among) == {t \in among : Circle(t, i) # "out"}

\* Slip: neighbours of neighbours are not looked at.
SlipSpread(new) == IF cavity = {} THEN UNION {Range(nbrs[t]) : t \in new} ELSE {}

\* Where the flood goes from the triangles it has just added.
Spread(new) == UNION {Range(nbrs[t]) : t \in new}

\* Slip: triangles seen before are put on the stack again.
SlipFlood ==
    /\ phase = "flood" /\ stack # {}
    /\ \E new \in {Conflicts(stack \cap Alive)} :
         /\ cavity' = cavity \union new
         /\ stack' = Spread(new)
    /\ UNCHANGED <<phase, points, i, mesh, at, walked, flipv>>

\* _cavity, one ring of the flood at a time.
Flood ==
    /\ phase = "flood" /\ stack # {}
    /\ \E new \in {Conflicts((stack \cap Alive) \ cavity)} :
         /\ cavity' = cavity \union new
         /\ stack' = Spread(new) \ cavity'
    /\ UNCHANGED <<phase, points, i, mesh, at, walked, flipv>>

\* When even the triangle found is not in conflict, all triangles are tried; if
\* none is, insert raises ValueError and no triangulation is returned.
Flooded ==
    /\ phase = "flood" /\ stack = {}
    /\ cavity' = IF cavity = {} THEN Conflicts(Alive) ELSE cavity
    /\ phase' = IF cavity' = {} THEN "done" ELSE "fan"
    /\ UNCHANGED <<points, i, mesh, at, walked, stack, flipv>>

\* A side of a triangle as <<triangle, 1 .. 3>>: its edge, and the edge in the
\* direction that has the triangle on its left.
EdgeAt(s) == EdgeOf(tris[s[1]], s[2])
Dir(s) == <<tris[s[1]][s[2]], tris[s[1]][Nxt(s[2])]>>

\* The boundary of the cavity: its edges that are an edge of one triangle of it.
Ring == LET sides == cavity \X (1 .. 3)
            once  == {s \in sides : \A r \in sides : EdgeAt(r) = EdgeAt(s) => r = s}
        IN  InOrder(once, {p \in once \X once : Lexicographic(Dir(p[1]), Dir(p[2]))})

\* The point joined to a side, counterclockwise.
Joined(s) == LET u == Dir(s)[1]
                 v == Dir(s)[2]
             IN  IF OrientXY(u, v, i) >= 0 THEN <<u, v, i>> ELSE <<v, u, i>>

\* The other new triangle with an edge of the j-th, where there is exactly one.
Mate(new, j, e) ==
    LET m == {l \in DOMAIN new \ {j} : e \in EdgesOf(new[l])}
    IN  IF Cardinality(m) = 1 THEN Len(tris) + Min(m) ELSE 0

\* Slip: the triangles around the cavity keep their dead neighbours.
SlipRewired(ring, t, k) == nbrs[t][k]

\* The neighbour of a surviving triangle: the new one, where the ring has the
\* side they share.
Rewired(ring, t, k) ==
    LET met == {j \in DOMAIN ring : /\ nbrs[ring[j][1]][ring[j][2]] = t
                                    /\ EdgeAt(ring[j]) = EdgeOf(tris[t], k)}
    IN  IF met # {} THEN Len(tris) + Min(met) ELSE nbrs[t][k]

\* The cavity gives way to a fan around the point.  Without a new triangle
\* new_ids[0] would raise, and nothing catches that.
Fan ==
    /\ phase = "fan" /\ Ring # <<>>
    /\ \E ring \in {Ring} : \E new \in {[j \in DOMAIN ring |-> Joined(ring[j])]} :
         /\ tris' = tris \o new
         /\ nbrs' = [t \in DOMAIN tris |->
                       IF t \in Alive \ cavity
                         THEN [k \in 1 .. 3 |-> Rewired(ring, t, k)]
                         ELSE nbrs[t]]
                    \o [j \in DOMAIN new |->
                          <<nbrs[ring[j][1]][ring[j][2]],
                            Mate(new, j, EdgeOf(new[j], 2)),
                            Mate(new, j, EdgeOf(new[j], 3))>>]
    /\ dead' = dead \union cavity
    /\ at' = Len(tris) + 1
    /\ phase' = "insert"
    /\ UNCHANGED <<points, i, walked, flood, flipv>>

\* Slip: only the triangle of the super-triangle's three vertices goes.
SlipRemains(t) == /\ \E k \in 1 .. 3 : ~IsSuper(tris[t][k])
                  /\ OrientXY(tris[t][1], tris[t][2], tris[t][3]) > 0

\* finalize: triangles of the super-triangle and without area go.
Remains(t) == /\ \A k \in 1 .. 3 : ~IsSuper(tris[t][k])
              /\ OrientXY(tris[t][1], tris[t][2], tris[t][3]) > 0

\* Every edge of what remains is to be looked at.
Finalize ==
    /\ phase = "insert" /\ i = Len(pts)
    /\ \E kept \in {Ascending({t \in Alive : Remains(t)})} :
         /\ final' = [j \in DOMAIN kept |-> tris[kept[j]]]
         /\ heap' = UNION {EdgesOf(tris[t]) : t \in Range(kept)}
         /\ inc' = [e \in heap' |->
                      Ascending({j \in DOMAIN kept : e \in EdgesOf(tris[kept[j]])})]
    /\ phase' = "flip"
    /\ UNCHANGED <<points, i, mesh, at, walked, flood, flips>>

Cap == 24 * Len(pts) + 64

\* The diagonal a, b comes before u, v.
Closer(a, b, u, v) == LexLess(LexKey(XY(a), XY(b)), LexKey(XY(u), XY(v)))

\* Slip: a tie is flipped to either diagonal, on whichever side a is.
SlipFlips(u, v, a, b) ==
    LET left == OrientXY(v, u, b) > 0
    IN  InCircle(XY(IF left THEN v ELSE u), XY(IF left THEN u ELSE v), XY(b), XY(a))
            \in {"in", "on"}

\* The edge u, v is exchanged for a, b: a is inside the circle through u, v and
\* b, or on it and the first diagonal.  The code then wants u, b, a and b, v, a
\* counterclockwise, which they are only if a is to the left of u, v.
Flips(u, v, a, b) ==
    LET left == OrientXY(v, u, b) > 0
        side == InCircle(XY(IF left THEN v ELSE u), XY(IF left THEN u ELSE v), XY(b), XY(a))
    IN  /\ side = "in" \/ (side = "on" /\ Closer(a, b, u, v))
        /\ OrientXY(u, b, a) > 0 /\ OrientXY(b, v, a) > 0

\* The triangles of an edge, and their third vertices.
HasTwo(e) == e \in DOMAIN inc /\ Len(inc[e]) = 2
Third(e, n) == CHOOSE w \in Range(final[inc[e][n]]) : w \notin e

\* Slip: the last one goes instead.
SlipWithout(s, t) == Front(s)

\* list.remove
Without(s, t) == RemoveAt(s, CHOOSE k \in DOMAIN s : s[k] = t)

\* Slip: only the new diagonal is looked at again.
SlipSuspects(u, v, a, b) == {Edge(a, b)}

\* The edges to look at after u, v was exchanged for a, b.
Suspects(u, v, a, b) == {Edge(u, b), Edge(b, v), Edge(v, a), Edge(a, u), Edge(a, b)}

\* The two triangles of e become those of ab, in the incidence lists in the
\* order in which the code removes and appends.
Exchange(e, u, v, a, b) ==
    LET t1 == inc[e][1]
        t2 == inc[e][2]
        ab == Edge(a, b)
    IN  /\ final' = [final EXCEPT ![t1] = <<u, b, a>>, ![t2] = <<b, v, a>>]
        /\ inc' = [x \in (DOMAIN inc \ {e}) \union {ab} |->
                     CASE x = Edge(v, a) -> Append(Without(inc[x], t1), t2)
                       [] x = Edge(u, b) -> Without(Append(inc[x], t1), t2)
                       [] x = ab -> (IF x \in DOMAIN inc THEN inc[x] ELSE <<>>) \o <<t1, t2>>
                       [] OTHER -> inc[x]]
        /\ heap' = (heap \ {e}) \union Suspects(u, v, a, b)
        /\ flips' = flips + 1

\* The smallest edge of the heap is looked at.
Pop ==
    /\ phase = "flip" /\ flips < Cap
    /\ \E e \in heap :
         /\ \A x \in heap \ {e} : Lexicographic(Ends(e), Ends(x))
         /\ \/ /\ HasTwo(e)
               /\ Flips(Min(e), Max(e), Third(e, 1), Third(e, 2))
               /\ Exchange(e, Min(e), Max(e), Third(e, 1), Third(e, 2))
            \/ /\ HasTwo(e) => ~Flips(Min(e), Max(e), Third(e, 1), Third(e, 2))
               /\ heap' = heap \ {e}
               /\ UNCHANGED <<final, inc, flips>>
    /\ UNCHANGED <<phase, points, i, mesh, at, walked, flood>>

Finish ==
    /\ phase = "flip" /\ (heap = {} \/ flips = Cap)
    /\ phase' = "done"
    /\ UNCHANGED <<points, i, mesh, at, walked, flood, flipv>>

Done == phase = "done" /\ UNCHANGED dvars

DNext == \/ NextPoint \/ Walk \/ Arrive \/ Flood \/ Flooded \/ Fan
         \/ Finalize \/ Pop \/ Finish \/ Done

DSpec == DInit /\ [][DNext]_dvars /\ WF_dvars(DNext)

\* The points in the order of the path that stands for a set on one line.
Path == InOrder(Points, {p \in Points \X Points : Lexicographic(pts[p[1]], pts[p[2]])})

\* The edges returned.
Edges ==
    CASE Len(pts) = 1  -> {}
      [] Len(pts) = 2  -> {Edge(1, 2)}
      [] final = <<>>  -> {Edge(Path[k], Path[k + 1]) : k \in 1 .. Len(pts) - 1}
      [] OTHER         -> UNION {EdgesOf(final[t]) : t \in DOMAIN final}

-----------------------------------------------------------------------------
\* The variables keep their types: triangles are of known vertices, and have
\* known neighbours.
DTypeOK ==
    LET Vertices  == 1 .. Len(pts) + 3
        Triangles == DOMAIN tris
    IN  /\ phase \in {"insert", "walk", "flood", "fan", "flip", "done"}
        /\ i \in 0 .. Len(pts)
        /\ tris \in Seq(Vertices \X Vertices \X Vertices)
        /\ DOMAIN nbrs = Triangles
        /\ \A t \in Triangles : Range(nbrs[t]) \subseteq Triangles \union {0}
        /\ at \in Triangles /\ walked \in Nat
        /\ stack \subseteq Triangles \union {0}
        /\ cavity \subseteq Triangles /\ dead \subseteq Triangles
        /\ \A t \in DOMAIN final : Range(final[t]) \subseteq Points
        /\ \A e \in DOMAIN inc : Range(inc[e]) \subseteq DOMAIN final
        /\ heap \subseteq SUBSET Points /\ flips \in 0 .. Cap

Area(t) == OrientXY(tris[t][1], tris[t][2], tris[t][3])

\* Two triangles that are not dead are each other's neighbours exactly across the
\* edge they share, of which they are on different sides; the edges without a
\* neighbour are the super-triangle's.
Meshed ==
    /\ \A t, u \in Alive : \A k, l \in 1 .. 3 : t # u =>
         /\ nbrs[t][k] = u /\ nbrs[u][l] = t <=> EdgeOf(tris[t], k) = EdgeOf(tris[u], l)
         /\ EdgeOf(tris[t], k) = EdgeOf(tris[u], l) => tris[t][k] = tris[u][Nxt(l)]
    /\ \A t \in Alive : \A k \in 1 .. 3 :
         nbrs[t][k] \notin Alive => \A v \in EdgeOf(tris[t], k) : IsSuper(v)

\* The ring leads round the cavity, through no vertex twice, and has the point on
\* its left.
RingCloses ==
    LET sides == Range(Ring)
    IN  /\ \A r, s \in sides : \A n \in {1, 2} : Dir(r)[n] = Dir(s)[n] => r = s
        /\ {Dir(s)[1] : s \in sides} = {Dir(s)[2] : s \in sides}
        /\ \A s \in sides : OrientXY(Dir(s)[1], Dir(s)[2], i) >= 0

\* Between two insertions the mesh has no hole, no overlap and no stale link: the
\* triangles that are not dead have the area of the super-triangle between them,
\* and fit together.  What an insertion takes out of it has one rim.
MeshIsWhole ==
    /\ phase = "insert" =>
         MapThenSumSet(Area, Alive) = Orient(coords[1], coords[2], coords[3]) /\ Meshed
    /\ phase = "fan" => RingCloses

\* Between two insertions a live neighbour knows of it: whoever a triangle takes
\* for its neighbour across an edge has that edge, and takes it for the neighbour
\* there ("stale neighbor references to dead triangles are treated as absent",
\* so all the others must be right), whatever the predicates made of the points.
LinksLeadBack ==
    phase = "insert" =>
        \A t \in Alive, k \in 1 .. 3 : nbrs[t][k] \in Alive =>
            \E l \in 1 .. 3 : /\ nbrs[nbrs[t][k]][l] = t
                             /\ EdgeOf(tris[nbrs[t][k]], l) = EdgeOf(tris[t], k)

\* After each insertion no point is inside the circle of any triangle, wherever
\* in the mesh, and no triangle is without area.
AlwaysDelaunay ==
    phase = "insert" =>
        \A t \in Alive, p \in 1 .. i : Circle(t, p) \in {"on", "out"}

\* The walk gets to its triangle without the full scan, and the flood to every
\* triangle in conflict ("the in-circumcircle set is edge-connected for a
\* Delaunay triangulation"), ties included.
FloodFindsAll ==
    /\ phase = "walk" => Walking
    /\ phase = "fan" => cavity = Conflicts(Alive)

LeftOf(p, q)  == {r \in Points : OrientXY(p, q, r) > 0}
RightOf(p, q) == {r \in Points : OrientXY(p, q, r) < 0}
OnSegment(p, q, r) ==
    /\ r \notin {p, q} /\ OrientXY(p, q, r) = 0
    /\ \A c \in {1, 2} : pts[r][c] \in (Min({pts[p][c], pts[q][c]}) .. Max({pts[p][c], pts[q][c]}))

\* Some circle through p and q has no point inside; or none on it either.
EmptyCircle(p, q, how) ==
    /\ \A r \in Points : ~OnSegment(p, q, r)
    /\ \A l \in LeftOf(p, q), r \in RightOf(p, q) :
         InCircle(pts[p], pts[q], pts[l], pts[r]) \in how

\* The edges returned are Delaunay edges, and all of those are there that do not
\* depend on how a tie is broken: neither the order of the points nor the
\* super-triangle shows in them.
EdgesAreDelaunay ==
    phase = "done" =>
        \A p, q \in Points : p < q =>
            /\ Edge(p, q) \in Edges => EmptyCircle(p, q, {"on", "out"})
            /\ EmptyCircle(p, q, {"out"}) => Edge(p, q) \in Edges

\* While edges are flipped the incidence lists, which the code updates edge by
\* edge, say of every edge which triangles have it, each once.
IncidenceIsRight ==
    /\ DOMAIN inc = UNION {EdgesOf(final[t]) : t \in DOMAIN final}
    /\ \A e \in DOMAIN inc :
         /\ IsInjective(inc[e])
         /\ Range(inc[e]) = {t \in DOMAIN final : e \in EdgesOf(final[t])}

\* An edge that is not on the heap need not be flipped: whatever a flip changes
\* is looked at again.
NothingLeftToFlip ==
    \A e \in DOMAIN inc \ heap :
        HasTwo(e) => ~Flips(Min(e), Max(e), Third(e, 1), Third(e, 2))

\* The flips stop because no edge is left to look at, not because of their cap.
WorklistEmpties == phase = "done" => heap = {}

\* Every walk, flood and worklist ends.
EveryInputEnds == <>(phase = "done")
=============================================================================
