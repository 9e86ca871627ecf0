----------------------------- MODULE MCDelaunay ------------------------------
(* Inputs for Delaunay: points of a grid of three by three, whose squares,  *)
(* rectangles and rhombi are full of ties, and a circle with five points.   *)
EXTENDS Delaunay

Grid == (0 .. 2) \X (0 .. 2)

\* A set of points in every order.
Orders(S) == {s \in [1 .. Cardinality(S) -> S] : IsInjective(s)}

\* The corners and the centre; a square with a point on its axis; a rectangle
\* with the middles of its long sides.
Cross  == {<<0, 0>>, <<0, 2>>, <<2, 0>>, <<2, 2>>, <<1, 1>>}
House  == {<<0, 0>>, <<0, 1>>, <<1, 0>>, <<1, 1>>, <<2, 2>>}
Ladder == {<<0, 0>>, <<1, 0>>, <<2, 0>>, <<0, 1>>, <<1, 1>>, <<2, 1>>}

\* Five points on one circle: a flip makes a tie of what was none.
Round == {<<1, 0>>, <<3, 0>>, <<0, 1>>, <<4, 1>>, <<0, 3>>}

MCInputs ==
    UNION {Orders(S) : S \in {T \in SUBSET Grid : Cardinality(T) \in 1 .. 3}}
    \union UNION {Orders(S) : S \in {T \in SUBSET Grid : Cardinality(T) = 4 /\ <<0, 0>> \in T}}
    \union Orders(Cross) \union Orders(House) \union Orders(Round)
    \union {s \in Orders(Ladder) : s[1] = <<0, 0>> /\ s[2] # <<1, 0>>}
    \union {s \o <<s[1]>> : s \in Orders({<<0, 0>>, <<1, 0>>, <<2, 1>>})}
=============================================================================
