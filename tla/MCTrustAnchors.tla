--------------------------- MODULE MCTrustAnchors ---------------------------
(* Instances of TrustAnchors for TLC.                                      *)
EXTENDS TrustAnchors, TLC

CONSTANTS k1, k2, alice, bob, yubiOS, other

MCKeys     == {k1, k2}
OneVolume  == {1}
TwoVolumes == {1, 2}
OneUser    == {alice}
TwoUsers   == {alice, bob}
OneHost    == {yubiOS}
TwoHosts   == {yubiOS, other}

OneDisk  == [v \in Vols |-> 1]
OwnDisks == [v \in Vols |-> v]

Symmetry == Permutations(MCKeys) \union Permutations(TwoUsers)
=============================================================================
