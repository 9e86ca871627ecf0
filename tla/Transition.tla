----------------------------- MODULE Transition -----------------------------
(***************************************************************************)
(* explainTransition of tools/point-map/pointmap.js: what an edit of one   *)
(* document did to the number of isolated points of a map.                 *)
(*                                                                         *)
(* It only explains edits that add one name or move one point, keeps a     *)
(* ledger of degrees and edges for them, and throws when the ledger's      *)
(* delta is not the one recounted from the two maps.                       *)
(*                                                                         *)
(* A map here is a function from its names to places.  All that the ledger *)
(* depends on is which places are closer than ISO_RADIUS; chord is         *)
(* symmetric also as it is rounded.                                        *)
(***************************************************************************)
EXTENDS Integers, FiniteSets

CONSTANTS Names,    \* document names
          Places,   \* points of the sphere
          Near      \* the pairs of them with chord < ISO_RADIUS

ASSUME NamesAssumption == IsFiniteSet(Names)
ASSUME NearAssumption ==
    \A p, q \in Places : <<p, q>> \in Near => <<q, p>> \in Near

PointMaps == UNION {[S -> Places] : S \in SUBSET Names}

Bit(condition) == IF condition THEN 1 ELSE 0

\* The row of the adjacency matrix, and its sum.
Edges(m, u)  == {v \in DOMAIN m \ {u} : <<m[u], m[v]>> \in Near}
Degrees(m)   == [u \in DOMAIN m |-> Cardinality(Edges(m, u))]

\* isolatedCount, from the points and not from the degrees.
Isolated(m) == {u \in DOMAIN m : \A v \in DOMAIN m \ {u} : <<m[u], m[v]>> \notin Near}
ActualDelta(before, after) == Cardinality(Isolated(after)) - Cardinality(Isolated(before))

\* ADD: the new point may be isolated, and takes isolates as neighbours.
IsolationDeltaAdd(degrees, edges) ==
    Bit(edges = {}) - Cardinality({u \in edges : degrees[u] = 0})

\* Slip: the edge that goes is not taken off.
SlipPostDegree(degrees, old, new, j) == degrees[j] + Bit(j \in new)

PostDegree(degrees, old, new, j) == degrees[j] - Bit(j \in old) + Bit(j \in new)

\* CHANGE of the point v.
IsolationDeltaChange(degrees, old, new, v) ==
    LET others == DOMAIN degrees \ {v}
    IN  Bit(new = {}) - Bit(degrees[v] = 0)
        + Cardinality({j \in others : PostDegree(degrees, old, new, j) = 0})
        - Cardinality({j \in others : degrees[j] = 0})

\* isolationDeltaChange throws "invalid ledger" otherwise.
ValidChange(degrees, old, new, v) ==
    /\ Cardinality(old) = degrees[v]
    /\ \A j \in DOMAIN degrees \ {v} : PostDegree(degrees, old, new, j) >= 0

Added(before, after)   == DOMAIN after \ DOMAIN before
Removed(before, after) == DOMAIN before \ DOMAIN after
Moved(before, after)   == {n \in DOMAIN before \cap DOMAIN after : before[n] # after[n]}

\* added_name or moved_name, if any.
Edited(before, after) == Added(before, after) \union Moved(before, after)

\* Otherwise notApplicable: a name is gone, or more than one is added or moved.
Applicable(before, after) ==
    /\ Removed(before, after) = {}
    /\ Cardinality(Edited(before, after)) <= 1

LedgerDelta(before, after) ==
    LET degrees == Degrees(before)
        n == CHOOSE n \in Edited(before, after) : TRUE
    IN  CASE Added(before, after) # {} -> IsolationDeltaAdd(degrees, Edges(after, n))
          [] Moved(before, after) # {} ->
               IsolationDeltaChange(degrees, Edges(before, n), Edges(after, n), n)
          [] OTHER -> 0

\* Nothing is thrown: not "invalid ledger", nor "math ledger mismatch".
Balances(before, after) ==
    /\ \A v \in Moved(before, after) :
         ValidChange(Degrees(before), Edges(before, v), Edges(after, v), v)
    /\ LedgerDelta(before, after) = ActualDelta(before, after)
=============================================================================
