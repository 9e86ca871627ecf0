---------------------------- MODULE MCSecureBoot ----------------------------
(* Instances of SecureBoot for TLC.                                        *)
EXTENDS SecureBoot

CONSTANTS k1, k2

MCKeys    == {k1, k2}
MCImages  == 1 .. 2
MCLoaders == {1}
=============================================================================
