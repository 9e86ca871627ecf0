----------------------------- MODULE MCWayfinder -----------------------------
(* An instance of Wayfinder for TLC.                                       *)
EXTENDS Wayfinder, FiniteSets, TLC

CONSTANTS small, large, moved, other, c1, c2, p1, alpha, beta, gamma, f1, f2

MCMaps    == {small, large, moved, other}
MCLarge   == {large, other}
MCClients == {c1, c2}
MCPosters == {p1}
MCNames   == {alpha, beta, gamma}
MCTargets == {[action |-> "change", name |-> alpha], [action |-> "add", name |-> beta]}

\* D1 reports the row it inserted.
MCLastRowId == [id \in 1 .. MaxId |-> id]

\* Places on a line.
MCPlaces == 0 .. 4
MCNear   == {t \in MCPlaces \X MCPlaces : t[1] - t[2] \in {-1, 0, 1}}

\* large adds beta to small, next to alpha; moved takes alpha from there to gamma;
\* other is on a frame of its own.
MCPointsOf == small :> (alpha :> 0 @@ gamma :> 3)
           @@ large :> (alpha :> 0 @@ beta :> 1 @@ gamma :> 3)
           @@ moved :> (alpha :> 4 @@ beta :> 1 @@ gamma :> 3)
           @@ other :> (beta :> 0)
MCFrameOf  == small :> f1 @@ large :> f1 @@ moved :> f1 @@ other :> f2

\* Bound: two requests at a time, of either kind, one at a time once the ledger
\* has a row, and none once it is full.
FewAtATime ==
    Cardinality({c \in Clients : ~At(c, "idle")}
                \union {p \in Posters : post[p].pc # "idle"})
        <= IF outcomes = <<>> THEN 2 ELSE 1

NotFull == Len(outcomes) < MaxRows

Symmetry == Permutations(MCClients)
=============================================================================
