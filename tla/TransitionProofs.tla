--------------------------- MODULE TransitionProofs ---------------------------
(***************************************************************************)
(* The ledger of explainTransition always balances: for every radius,      *)
(* every placing of any finite number of names, and every edit it explains *)
(* none of its checks throws.                                              *)
(*                                                                         *)
(* An ADD only changes the new point and the isolates it is near.  In a    *)
(* CHANGE the degrees of the others are those before, less the edge that   *)
(* went, plus the one that came; a point is isolated iff its degree is 0.  *)
(***************************************************************************)
EXTENDS Transition, FiniteSetTheorems, TLAPS

\* A map has finitely many names, and what is counted of them is counted
\* right (degreesOf, isolatedCount).
LEMMA MapsAreFinite ==
    ASSUME NEW m \in PointMaps
    PROVE  /\ IsFiniteSet(DOMAIN m)
           /\ \A S \in SUBSET DOMAIN m : IsFiniteSet(S) /\ Cardinality(S) \in Nat
           /\ \A u \in DOMAIN m : m[u] \in Places
           /\ \A u \in DOMAIN m : Edges(m, u) \in SUBSET DOMAIN m
           /\ Isolated(m) \in SUBSET DOMAIN m
<1>1. DOMAIN m \in SUBSET Names /\ \A u \in DOMAIN m : m[u] \in Places
    BY DEF PointMaps
<1>2. IsFiniteSet(DOMAIN m)
    BY <1>1, NamesAssumption, FS_Subset
<1>3. \A S \in SUBSET DOMAIN m : IsFiniteSet(S) /\ Cardinality(S) \in Nat
    BY <1>2, FS_Subset, FS_CardinalityType
<1>4. \A u \in DOMAIN m : Edges(m, u) \in SUBSET DOMAIN m
    BY DEF Edges
<1>5. Isolated(m) \in SUBSET DOMAIN m
    BY DEF Isolated
<1> QED
    BY <1>1, <1>2, <1>3, <1>4, <1>5

\* The number of isolated points is a number (isolatedCount).
LEMMA ActualDeltaType ==
    ASSUME NEW b \in PointMaps, NEW a \in PointMaps
    PROVE  ActualDelta(b, a) \in Int
  BY MapsAreFinite DEF ActualDelta

\* Counting a set with and without one of its elements.
LEMMA CountWithout ==
    ASSUME NEW S, IsFiniteSet(S), NEW v
    PROVE  /\ Cardinality(S) = Cardinality(S \ {v}) + Bit(v \in S)
           /\ Cardinality(S \ {v}) \in Nat
<1>1. Cardinality(S) \in Nat
    BY FS_CardinalityType
<1>2. /\ IsFiniteSet(S \ {v})
      /\ Cardinality(S \ {v}) = IF v \in S THEN Cardinality(S) - 1 ELSE Cardinality(S)
    BY FS_RemoveElement
<1>3. Cardinality(S \ {v}) \in Nat
    BY <1>2, FS_CardinalityType
<1> QED
    BY <1>1, <1>2, <1>3 DEF Bit

\* A point is isolated exactly when its degree is zero (isolatedCount looks at
\* the points, the ledger at the degrees).
LEMMA IsolatedHasDegreeZero ==
    ASSUME NEW m \in PointMaps, NEW u \in DOMAIN m
    PROVE  /\ Degrees(m)[u] \in Nat
           /\ Degrees(m)[u] = 0 <=> Edges(m, u) = {}
           /\ u \in Isolated(m) <=> Edges(m, u) = {}
  BY MapsAreFinite, FS_EmptySet DEF Degrees, Edges, Isolated

\* The edges of the others lose and gain only the point that moved
\* (deg'_j = deg_j - old edge + new edge).
LEMMA PostDegreeIsDegree ==
    ASSUME NEW b \in PointMaps, NEW a \in PointMaps, DOMAIN a = DOMAIN b,
           NEW v \in DOMAIN b, \A u \in DOMAIN b \ {v} : a[u] = b[u],
           NEW j \in DOMAIN b \ {v}
    PROVE  PostDegree(Degrees(b), Edges(b, v), Edges(a, v), j) = Degrees(a)[j]
<1> DEFINE rest == Edges(b, j) \ {v}
<1>1. rest = Edges(a, j) \ {v}
    BY DEF Edges
<1>2. IsFiniteSet(Edges(b, j)) /\ IsFiniteSet(Edges(a, j))
    BY MapsAreFinite
<1>3. Cardinality(Edges(b, j)) = Cardinality(rest) + Bit(v \in Edges(b, j))
    BY <1>2, CountWithout
<1>4. Cardinality(Edges(a, j)) = Cardinality(rest) + Bit(v \in Edges(a, j))
    BY <1>1, <1>2, CountWithout
<1>5. /\ v \in Edges(b, j) <=> j \in Edges(b, v)
      /\ v \in Edges(a, j) <=> j \in Edges(a, v)
    BY MapsAreFinite, NearAssumption DEF Edges
<1>6. Cardinality(rest) \in Nat
    BY <1>2, CountWithout
<1> QED
    BY <1>3, <1>4, <1>5, <1>6 DEF PostDegree, Degrees, Bit

\* The ledger of a CHANGE is valid, and its delta is the recounted one.
THEOREM ChangeBalances ==
    ASSUME NEW b \in PointMaps, NEW a \in PointMaps, DOMAIN a = DOMAIN b,
           NEW v \in DOMAIN b, \A u \in DOMAIN b \ {v} : a[u] = b[u]
    PROVE  /\ ValidChange(Degrees(b), Edges(b, v), Edges(a, v), v)
           /\ IsolationDeltaChange(Degrees(b), Edges(b, v), Edges(a, v), v)
                = ActualDelta(b, a)
<1> DEFINE others == DOMAIN Degrees(b) \ {v}
           post   == {j \in others : PostDegree(Degrees(b), Edges(b, v), Edges(a, v), j) = 0}
           zero   == {j \in others : Degrees(b)[j] = 0}
<1>1. DOMAIN Degrees(b) = DOMAIN b
    BY DEF Degrees
<1>2. post = Isolated(a) \ {v}
    BY <1>1, PostDegreeIsDegree, IsolatedHasDegreeZero, MapsAreFinite
<1>3. zero = Isolated(b) \ {v}
    BY <1>1, IsolatedHasDegreeZero, MapsAreFinite
<1>4. /\ Cardinality(Isolated(a)) = Cardinality(post) + Bit(v \in Isolated(a))
      /\ Cardinality(post) \in Nat
    BY <1>2, MapsAreFinite, CountWithout
<1>5. /\ Cardinality(Isolated(b)) = Cardinality(zero) + Bit(v \in Isolated(b))
      /\ Cardinality(zero) \in Nat
    BY <1>3, MapsAreFinite, CountWithout
<1>6. Bit(v \in Isolated(a)) = Bit(Edges(a, v) = {})
    BY IsolatedHasDegreeZero DEF Bit
<1>7. Bit(v \in Isolated(b)) = Bit(Degrees(b)[v] = 0)
    BY IsolatedHasDegreeZero DEF Bit
<1>8. IsolationDeltaChange(Degrees(b), Edges(b, v), Edges(a, v), v)
        = ActualDelta(b, a)
  <2>1. IsolationDeltaChange(Degrees(b), Edges(b, v), Edges(a, v), v)
          = Bit(Edges(a, v) = {}) - Bit(Degrees(b)[v] = 0)
            + Cardinality(post) - Cardinality(zero)
    BY DEF IsolationDeltaChange
  <2> HIDE DEF post, zero
  <2>2. Bit(Edges(a, v) = {}) \in Int /\ Bit(Degrees(b)[v] = 0) \in Int
    BY DEF Bit
  <2> QED
    BY <1>4, <1>5, <1>6, <1>7, <2>1, <2>2 DEF ActualDelta
<1>9. ValidChange(Degrees(b), Edges(b, v), Edges(a, v), v)
  <2>1. Cardinality(Edges(b, v)) = Degrees(b)[v]
    BY <1>1 DEF Degrees
  <2>2. \A j \in DOMAIN b \ {v} :
          PostDegree(Degrees(b), Edges(b, v), Edges(a, v), j) >= 0
    BY PostDegreeIsDegree, IsolatedHasDegreeZero
  <2> QED
    BY <1>1, <2>1, <2>2 DEF ValidChange
<1> QED
    BY <1>8, <1>9

\* The delta of an ADD is the recounted one.
THEOREM AddBalances ==
    ASSUME NEW b \in PointMaps, NEW a \in PointMaps, NEW q, q \notin DOMAIN b,
           DOMAIN a = DOMAIN b \union {q}, \A u \in DOMAIN b : a[u] = b[u]
    PROVE  IsolationDeltaAdd(Degrees(b), Edges(a, q)) = ActualDelta(b, a)
<1> DEFINE touched == {u \in Edges(a, q) : Degrees(b)[u] = 0}
           old == Isolated(a) \ {q}
<1>1. Edges(a, q) \in SUBSET DOMAIN b
    BY DEF Edges
<1>2. ASSUME NEW u \in DOMAIN b
      PROVE  u \in old <=> u \in Isolated(b) /\ u \notin Edges(a, q)
  <2>1. q \in Edges(a, u) <=> u \in Edges(a, q)
    BY MapsAreFinite, NearAssumption DEF Edges
  <2>2. Edges(a, u) \ {q} = Edges(b, u)
    BY DEF Edges
  <2>3. u # q /\ u \in DOMAIN a
    OBVIOUS
  <2> QED
    BY <2>1, <2>2, <2>3, IsolatedHasDegreeZero
<1>3. old \in SUBSET DOMAIN b /\ Isolated(b) \in SUBSET DOMAIN b
    BY DEF Isolated
<1>4. touched = {u \in Isolated(b) : u \in Edges(a, q)}
    BY <1>1, <1>3, IsolatedHasDegreeZero
<1>5. old \union touched = Isolated(b) /\ old \cap touched = {}
    BY <1>2, <1>3, <1>4
<1>6. /\ Cardinality(Isolated(b)) = Cardinality(old) + Cardinality(touched)
      /\ Cardinality(old) \in Nat /\ Cardinality(touched) \in Nat
  <2>1. IsFiniteSet(old) /\ IsFiniteSet(touched)
    BY <1>1, <1>3, MapsAreFinite
  <2>2. Cardinality(old \cap touched) = 0
    BY <1>5, FS_EmptySet
  <2> HIDE DEF old, touched
  <2>3. Cardinality(old \union touched)
          = Cardinality(old) + Cardinality(touched) - Cardinality(old \cap touched)
    BY <2>1, FS_Union
  <2>4. Cardinality(old) \in Nat /\ Cardinality(touched) \in Nat
    BY <2>1, FS_CardinalityType
  <2>5. Cardinality(old \union touched) = Cardinality(Isolated(b))
    BY <1>5, Zenon
  <2> QED
    BY <2>2, <2>3, <2>4, <2>5
<1>7. Cardinality(Isolated(a)) = Cardinality(old) + Bit(q \in Isolated(a))
    BY MapsAreFinite, CountWithout
<1>8. Bit(q \in Isolated(a)) = Bit(Edges(a, q) = {}) /\ Bit(Edges(a, q) = {}) \in Int
    BY IsolatedHasDegreeZero DEF Bit
<1>9. IsolationDeltaAdd(Degrees(b), Edges(a, q))
        = Bit(Edges(a, q) = {}) - Cardinality(touched)
    BY DEF IsolationDeltaAdd
<1> HIDE DEF old, touched
<1> QED
    BY <1>6, <1>7, <1>8, <1>9 DEF ActualDelta

\* Whatever transition explainTransition explains, it never throws "math ledger
\* mismatch" nor "invalid ledger" about it.
THEOREM LedgerBalances ==
    ASSUME NEW b \in PointMaps, NEW a \in PointMaps, Applicable(b, a)
    PROVE  Balances(b, a)
<1>1. /\ IsFiniteSet(Edited(b, a)) /\ Cardinality(Edited(b, a)) <= 1
      /\ DOMAIN b \subseteq DOMAIN a
  <2>1. Edited(b, a) \in SUBSET DOMAIN a
    BY DEF Edited, Added, Moved
  <2> QED
    BY <2>1, MapsAreFinite DEF Applicable, Removed
<1>2. \A n, m \in Edited(b, a) : n = m
  <2> SUFFICES ASSUME NEW n \in Edited(b, a), NEW m \in Edited(b, a), n # m
      PROVE  FALSE
    OBVIOUS
  <2>1. {n, m} \in SUBSET Edited(b, a)
    OBVIOUS
  <2>2. Cardinality({n, m}) <= Cardinality(Edited(b, a))
    BY <1>1, <2>1, FS_Subset
  <2>3. Cardinality({n}) = 1 /\ IsFiniteSet({n})
    BY FS_Singleton
  <2>4. Cardinality({n} \cup {m}) = Cardinality({n}) + 1
    BY <2>3, FS_AddElement
  <2>5. {n} \cup {m} = {n, m} /\ Cardinality(Edited(b, a)) \in Nat
    BY <1>1, FS_CardinalityType
  <2> QED
    BY <1>1, <2>2, <2>3, <2>4, <2>5
<1>3. CASE Added(b, a) # {}
  <2>1. PICK q \in Added(b, a) : Edited(b, a) = {q}
    BY <1>2, <1>3 DEF Edited
  <2>2. /\ q \notin DOMAIN b /\ DOMAIN a = DOMAIN b \union {q}
        /\ \A u \in DOMAIN b : a[u] = b[u]
    BY <1>1, <2>1 DEF Edited, Added, Moved
  <2>3. Moved(b, a) = {}
    BY <2>1, <2>2 DEF Edited, Moved
  <2>4. (CHOOSE n \in Edited(b, a) : TRUE) = q
    BY <2>1
  <2>5. LedgerDelta(b, a) = IsolationDeltaAdd(Degrees(b), Edges(a, q))
    BY <1>3, <2>3, <2>4 DEF LedgerDelta
  <2> QED
    BY <2>2, <2>3, <2>5, AddBalances DEF Balances
<1>4. CASE Added(b, a) = {} /\ Moved(b, a) # {}
  <2>1. PICK v \in Moved(b, a) : Edited(b, a) = {v} /\ Moved(b, a) = {v}
    BY <1>2, <1>4 DEF Edited
  <2>2. /\ v \in DOMAIN b /\ DOMAIN a = DOMAIN b
        /\ \A u \in DOMAIN b \ {v} : a[u] = b[u]
    BY <1>1, <1>4, <2>1 DEF Added, Moved
  <2>3. (CHOOSE n \in Edited(b, a) : TRUE) = v
    BY <2>1
  <2>4. LedgerDelta(b, a)
          = IsolationDeltaChange(Degrees(b), Edges(b, v), Edges(a, v), v)
    BY <1>4, <2>3 DEF LedgerDelta
  <2> QED
    BY <2>1, <2>2, <2>4, ChangeBalances DEF Balances
<1>5. CASE Added(b, a) = {} /\ Moved(b, a) = {}
  <2>1. DOMAIN a = DOMAIN b /\ \A u \in DOMAIN b : a[u] = b[u]
    BY <1>1, <1>5 DEF Added, Moved
  <2>2. Isolated(a) = Isolated(b)
    BY <2>1 DEF Isolated
  <2>3. ActualDelta(b, a) = 0
    BY <2>2, MapsAreFinite DEF ActualDelta
  <2>4. LedgerDelta(b, a) = 0
    BY <1>5 DEF LedgerDelta
  <2> QED
    BY <1>5, <2>3, <2>4 DEF Balances
<1> QED
    BY <1>3, <1>4, <1>5
================================================================================
