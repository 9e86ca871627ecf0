-------------------------------- MODULE Archive -------------------------------
(***************************************************************************)
(* What the stored maps of the wayfinder promise to those who know an id:  *)
(* an id stands for one map.  It is given out once, may be reserved before *)
(* the map is there, stands for that map until the map is withdrawn, and   *)
(* for nothing afterwards.                                                 *)
(*                                                                         *)
(* MapStore implements it; the outcomes ledger of Wayfinder relies on it.  *)
(***************************************************************************)
EXTENDS Naturals

CONSTANTS Maps, MaxId

VARIABLE content   \* what each id stands for

States == {"free", "reserved", "withdrawn", "removed"}

ArchiveInit == content = [id \in 1 .. MaxId |-> "free"]

Becomes(id, from, to) ==
    /\ content[id] \in from
    /\ content' = [content EXCEPT ![id] = to]

\* Ids are given out in order.
GiveOut(id) ==
    /\ \A i \in 1 .. MaxId : i < id => content[i] # "free"
    /\ \E to \in Maps \union {"reserved"} : Becomes(id, {"free"}, to)

Publish(id)  == \E m \in Maps : Becomes(id, {"reserved"}, m)
Withdraw(id) == Becomes(id, Maps, "withdrawn")
Remove(id)   == Becomes(id, Maps \union {"reserved", "withdrawn"}, "removed")

ArchiveNext == \E id \in 1 .. MaxId :
                 GiveOut(id) \/ Publish(id) \/ Withdraw(id) \/ Remove(id)

ArchiveSpec == ArchiveInit /\ [][ArchiveNext]_content
=============================================================================
