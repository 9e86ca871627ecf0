---------------------------- MODULE MapStoreProofs ----------------------------
(***************************************************************************)
(* The stored maps of MapStore, for any maps, any number of requests at a  *)
(* time and any number of rows: what a reader gets, what an answered save  *)
(* leaves, and that the two stores together implement Archive.             *)
(*                                                                         *)
(* The properties speak of rows and answers; the strengthening says what a *)
(* request between its two stores may count on.  A save that has not yet   *)
(* pointed its row at the body is the only one for its id, and no DELETE   *)
(* has seen a body to drop.                                                *)
(***************************************************************************)
EXTENDS MapStore, TLAPS

\* A request works on an id that was given out.
IdsInv == \A c \in Clients : ~At(c, "idle") => req[c].id \in 1 .. lastId

\* Every id given out was given out for a map; nothing is kept under the others.
SavedInv == \A id \in Ids : IF id <= lastId THEN saved[id] \in Maps
                            ELSE /\ kv[id] = NoMap /\ older[id] = {}
                                 /\ fate[id] = "open"

\* The body under a key, old or new, is the map of its id.
BodyInv == \A id \in Ids : /\ kv[id] \in {NoMap, saved[id]}
                           /\ older[id] \subseteq {NoMap, saved[id]}

RowInv == \A id \in Ids : rows[id].map = IF rows[id].kind = "inline" THEN saved[id]
                                                                     ELSE NoMap

\* A request that holds a map holds the one of its id.
HeldInv == \A c \in Clients :
             req[c].pc \in {"put", "point", "answer", "got"} => req[c].map = saved[req[c].id]

Saving(c) == At(c, "put") \/ At(c, "point")

SaveInv ==
    \A c \in Clients : Saving(c) =>
        /\ rows[req[c].id].kind \in {"absent", "pending"}
        /\ At(c, "point") => kv[req[c].id] = saved[req[c].id]
        /\ \A d \in Clients : d # c /\ (Saving(d) \/ At(d, "drop")) => req[d].id # req[c].id

\* What holds of an id until somebody asks for its removal.
KeptInv ==
    /\ \A id \in Ids : /\ fate[id] = "acked" => Complete(id)
                       /\ fate[id] # "deleted" /\ rows[id].kind = "pointer" =>
                            kv[id] = saved[id]
    /\ \A c \in Clients :
         /\ req[c].pc \in {"drop", "remove"} => fate[req[c].id] = "deleted"
         /\ ~At(c, "idle") /\ fate[req[c].id] # "deleted" =>
              /\ At(c, "answer") => Complete(req[c].id)
              /\ Saving(c) => rows[req[c].id].kind = "pending"

MInv == MapTypeOK /\ IdsInv /\ SavedInv /\ BodyInv /\ RowInv /\ HeldInv /\ SaveInv /\ KeptInv

-----------------------------------------------------------------------------
(* The strengthening is inductive: one lemma per kind of request.          *)

\* The empty stores satisfy it.
LEMMA MInvInit == MapInit => MInv
  BY MapsAssumption, IdsAssumption
  DEF MapInit, MInv, MapTypeOK, IdsInv, SavedInv, BodyInv, RowInv, HeldInv, SaveInv,
      KeptInv, At, Saving, Complete, Ids, Rows, NoRow, Idle, Steps

\* A request that ends, however it ends, takes nothing with it.
LEMMA LeavingKeeps ==
    ASSUME MInv, NEW c \in Clients, req' = [req EXCEPT ![c] = Idle],
           UNCHANGED <<d1, store, history>>
    PROVE  MInv'
<1> USE MapsAssumption, IdsAssumption
    DEF At, Goto, d1, store, history, Ids, Rows, NoRow, Idle, Steps, Saving, Complete,
        Put, Served, NextId
<1>1. MapTypeOK'
  BY DEF MInv, MapTypeOK, IdsInv, SavedInv, BodyInv, RowInv, HeldInv, SaveInv, KeptInv
<1>2. IdsInv'
  BY DEF MInv, MapTypeOK, IdsInv, SavedInv, BodyInv, RowInv, HeldInv, SaveInv, KeptInv
<1>3. SavedInv'
  BY DEF MInv, MapTypeOK, IdsInv, SavedInv, BodyInv, RowInv, HeldInv, SaveInv, KeptInv
<1>4. BodyInv'
  BY DEF MInv, MapTypeOK, IdsInv, SavedInv, BodyInv, RowInv, HeldInv, SaveInv, KeptInv
<1>5. RowInv'
  BY DEF MInv, MapTypeOK, IdsInv, SavedInv, BodyInv, RowInv, HeldInv, SaveInv, KeptInv
<1>6. HeldInv'
  BY DEF MInv, MapTypeOK, IdsInv, SavedInv, BodyInv, RowInv, HeldInv, SaveInv, KeptInv
<1>7. SaveInv'
  BY DEF MInv, MapTypeOK, IdsInv, SavedInv, BodyInv, RowInv, HeldInv, SaveInv, KeptInv
<1>8. KeptInv'
  BY DEF MInv, MapTypeOK, IdsInv, SavedInv, BodyInv, RowInv, HeldInv, SaveInv, KeptInv
<1> QED
  BY <1>1, <1>2, <1>3, <1>4, <1>5, <1>6, <1>7, <1>8 DEF MInv

\* A load or a delete that goes on to its next await.
LEMMA MovingKeeps ==
    ASSUME MInv, NEW c \in Clients, NEW pc \in {"fetch", "got"},
           NEW id \in 1 .. lastId, NEW m \in Maps \union {NoMap}, Goto(c, pc, id, m),
           pc = "got" => m = saved[id] /\ m \in Maps,
           UNCHANGED <<d1, store, history>>
    PROVE  MInv'
<1> USE MapsAssumption, IdsAssumption
    DEF At, Goto, d1, store, history, Ids, Rows, NoRow, Idle, Steps, Saving, Complete,
        Put, Served, NextId
<1>1. MapTypeOK'
  BY DEF MInv, MapTypeOK, IdsInv, SavedInv, BodyInv, RowInv, HeldInv, SaveInv, KeptInv
<1>2. IdsInv'
  BY DEF MInv, MapTypeOK, IdsInv, SavedInv, BodyInv, RowInv, HeldInv, SaveInv, KeptInv
<1>3. SavedInv'
  BY DEF MInv, MapTypeOK, IdsInv, SavedInv, BodyInv, RowInv, HeldInv, SaveInv, KeptInv
<1>4. BodyInv'
  BY DEF MInv, MapTypeOK, IdsInv, SavedInv, BodyInv, RowInv, HeldInv, SaveInv, KeptInv
<1>5. RowInv'
  BY DEF MInv, MapTypeOK, IdsInv, SavedInv, BodyInv, RowInv, HeldInv, SaveInv, KeptInv
<1>6. HeldInv'
  BY DEF MInv, MapTypeOK, IdsInv, SavedInv, BodyInv, RowInv, HeldInv, SaveInv, KeptInv
<1>7. SaveInv'
  BY DEF MInv, MapTypeOK, IdsInv, SavedInv, BodyInv, RowInv, HeldInv, SaveInv, KeptInv
<1>8. KeptInv'
  BY DEF MInv, MapTypeOK, IdsInv, SavedInv, BodyInv, RowInv, HeldInv, SaveInv, KeptInv
<1> QED
  BY <1>1, <1>2, <1>3, <1>4, <1>5, <1>6, <1>7, <1>8 DEF MInv

\* A save, from its INSERT to its answer.
LEMMA SaveKeeps ==
    ASSUME MInv, NEW c \in Clients,
           InsertInline(c) \/ InsertPending(c) \/ PutBody(c) \/ PointRow(c) \/ AnswerSave(c)
    PROVE  MInv'
<1>0. \A id \in Ids : RowId(id) = id
    BY RowIdAssumption DEF RowId, Ids
<1> USE <1>0, MapsAssumption, IdsAssumption
    DEF At, Goto, d1, store, history, Ids, Rows, NoRow, Idle, Steps, Saving, Complete,
        Put, Served, NextId
<1>1. CASE InsertInline(c)
  <2>1. MapTypeOK'
    BY <1>1 DEF MInv, MapTypeOK, IdsInv, SavedInv, BodyInv, RowInv, HeldInv, SaveInv, KeptInv, InsertInline
  <2>2. IdsInv'
    BY <1>1 DEF MInv, MapTypeOK, IdsInv, SavedInv, BodyInv, RowInv, HeldInv, SaveInv, KeptInv, InsertInline
  <2>3. SavedInv'
    BY <1>1 DEF MInv, MapTypeOK, IdsInv, SavedInv, BodyInv, RowInv, HeldInv, SaveInv, KeptInv, InsertInline
  <2>4. BodyInv'
    BY <1>1 DEF MInv, MapTypeOK, IdsInv, SavedInv, BodyInv, RowInv, HeldInv, SaveInv, KeptInv, InsertInline
  <2>5. RowInv'
    BY <1>1 DEF MInv, MapTypeOK, IdsInv, SavedInv, BodyInv, RowInv, HeldInv, SaveInv, KeptInv, InsertInline
  <2>6. HeldInv'
    BY <1>1 DEF MInv, MapTypeOK, IdsInv, SavedInv, BodyInv, RowInv, HeldInv, SaveInv, KeptInv, InsertInline
  <2>7. SaveInv'
    BY <1>1 DEF MInv, MapTypeOK, IdsInv, SavedInv, BodyInv, RowInv, HeldInv, SaveInv, KeptInv, InsertInline
  <2>8. KeptInv'
    BY <1>1 DEF MInv, MapTypeOK, IdsInv, SavedInv, BodyInv, RowInv, HeldInv, SaveInv, KeptInv, InsertInline
  <2> QED
    BY <2>1, <2>2, <2>3, <2>4, <2>5, <2>6, <2>7, <2>8 DEF MInv
<1>2. CASE InsertPending(c)
  <2>1. MapTypeOK'
    BY <1>2 DEF MInv, MapTypeOK, IdsInv, SavedInv, BodyInv, RowInv, HeldInv, SaveInv, KeptInv, InsertPending
  <2>2. IdsInv'
    BY <1>2 DEF MInv, MapTypeOK, IdsInv, SavedInv, BodyInv, RowInv, HeldInv, SaveInv, KeptInv, InsertPending
  <2>3. SavedInv'
    <3>1. PICK id \in Ids, m \in LargeMaps :
            /\ lastId' = id
            /\ saved' = [saved EXCEPT ![id] = m]
            /\ req' = [req EXCEPT ![c] = [pc |-> "put", id |-> id, map |-> m]]
        BY <1>2 DEF InsertPending
    <3> QED
        BY <1>2, <3>1 DEF MInv, MapTypeOK, SavedInv, InsertPending
  <2>4. BodyInv'
    BY <1>2 DEF MInv, MapTypeOK, IdsInv, SavedInv, BodyInv, RowInv, HeldInv, SaveInv, KeptInv, InsertPending
  <2>5. RowInv'
    BY <1>2 DEF MInv, MapTypeOK, IdsInv, SavedInv, BodyInv, RowInv, HeldInv, SaveInv, KeptInv, InsertPending
  <2>6. HeldInv'
    BY <1>2 DEF MInv, MapTypeOK, IdsInv, SavedInv, BodyInv, RowInv, HeldInv, SaveInv, KeptInv, InsertPending
  <2>7. SaveInv'
    BY <1>2 DEF MInv, MapTypeOK, IdsInv, SavedInv, BodyInv, RowInv, HeldInv, SaveInv, KeptInv, InsertPending
  <2>8. KeptInv'
    BY <1>2 DEF MInv, MapTypeOK, IdsInv, SavedInv, BodyInv, RowInv, HeldInv, SaveInv, KeptInv, InsertPending
  <2> QED
    BY <2>1, <2>2, <2>3, <2>4, <2>5, <2>6, <2>7, <2>8 DEF MInv
<1>3. CASE PutBody(c)
  <2>1. MapTypeOK'
    BY <1>3 DEF MInv, MapTypeOK, IdsInv, SavedInv, BodyInv, RowInv, HeldInv, SaveInv, KeptInv, PutBody
  <2>2. IdsInv'
    BY <1>3 DEF MInv, MapTypeOK, IdsInv, SavedInv, BodyInv, RowInv, HeldInv, SaveInv, KeptInv, PutBody
  <2>3. SavedInv'
    BY <1>3 DEF MInv, MapTypeOK, IdsInv, SavedInv, BodyInv, RowInv, HeldInv, SaveInv, KeptInv, PutBody
  <2>4. BodyInv'
    BY <1>3 DEF MInv, MapTypeOK, IdsInv, SavedInv, BodyInv, RowInv, HeldInv, SaveInv, KeptInv, PutBody
  <2>5. RowInv'
    BY <1>3 DEF MInv, MapTypeOK, IdsInv, SavedInv, BodyInv, RowInv, HeldInv, SaveInv, KeptInv, PutBody
  <2>6. HeldInv'
    BY <1>3 DEF MInv, MapTypeOK, IdsInv, SavedInv, BodyInv, RowInv, HeldInv, SaveInv, KeptInv, PutBody
  <2>7. SaveInv'
    BY <1>3 DEF MInv, MapTypeOK, IdsInv, SavedInv, BodyInv, RowInv, HeldInv, SaveInv, KeptInv, PutBody
  <2>8. KeptInv'
    BY <1>3 DEF MInv, MapTypeOK, IdsInv, SavedInv, BodyInv, RowInv, HeldInv, SaveInv, KeptInv, PutBody
  <2> QED
    BY <2>1, <2>2, <2>3, <2>4, <2>5, <2>6, <2>7, <2>8 DEF MInv
<1>4. CASE PointRow(c)
  <2>1. MapTypeOK'
    BY <1>4 DEF MInv, MapTypeOK, IdsInv, SavedInv, BodyInv, RowInv, HeldInv, SaveInv, KeptInv, PointRow
  <2>2. IdsInv'
    BY <1>4 DEF MInv, MapTypeOK, IdsInv, SavedInv, BodyInv, RowInv, HeldInv, SaveInv, KeptInv, PointRow
  <2>3. SavedInv'
    BY <1>4 DEF MInv, MapTypeOK, IdsInv, SavedInv, BodyInv, RowInv, HeldInv, SaveInv, KeptInv, PointRow
  <2>4. BodyInv'
    BY <1>4 DEF MInv, MapTypeOK, IdsInv, SavedInv, BodyInv, RowInv, HeldInv, SaveInv, KeptInv, PointRow
  <2>5. RowInv'
    BY <1>4 DEF MInv, MapTypeOK, IdsInv, SavedInv, BodyInv, RowInv, HeldInv, SaveInv, KeptInv, PointRow
  <2>6. HeldInv'
    BY <1>4 DEF MInv, MapTypeOK, IdsInv, SavedInv, BodyInv, RowInv, HeldInv, SaveInv, KeptInv, PointRow
  <2>7. SaveInv'
    BY <1>4 DEF MInv, MapTypeOK, IdsInv, SavedInv, BodyInv, RowInv, HeldInv, SaveInv, KeptInv, PointRow
  <2>8. KeptInv'
    BY <1>4 DEF MInv, MapTypeOK, IdsInv, SavedInv, BodyInv, RowInv, HeldInv, SaveInv, KeptInv, PointRow
  <2> QED
    BY <2>1, <2>2, <2>3, <2>4, <2>5, <2>6, <2>7, <2>8 DEF MInv
<1>5. CASE AnswerSave(c)
  <2>1. MapTypeOK'
    BY <1>5 DEF MInv, MapTypeOK, IdsInv, SavedInv, BodyInv, RowInv, HeldInv, SaveInv, KeptInv, AnswerSave
  <2>2. IdsInv'
    BY <1>5 DEF MInv, MapTypeOK, IdsInv, SavedInv, BodyInv, RowInv, HeldInv, SaveInv, KeptInv, AnswerSave
  <2>3. SavedInv'
    BY <1>5 DEF MInv, MapTypeOK, IdsInv, SavedInv, BodyInv, RowInv, HeldInv, SaveInv, KeptInv, AnswerSave
  <2>4. BodyInv'
    BY <1>5 DEF MInv, MapTypeOK, IdsInv, SavedInv, BodyInv, RowInv, HeldInv, SaveInv, KeptInv, AnswerSave
  <2>5. RowInv'
    BY <1>5 DEF MInv, MapTypeOK, IdsInv, SavedInv, BodyInv, RowInv, HeldInv, SaveInv, KeptInv, AnswerSave
  <2>6. HeldInv'
    BY <1>5 DEF MInv, MapTypeOK, IdsInv, SavedInv, BodyInv, RowInv, HeldInv, SaveInv, KeptInv, AnswerSave
  <2>7. SaveInv'
    BY <1>5 DEF MInv, MapTypeOK, IdsInv, SavedInv, BodyInv, RowInv, HeldInv, SaveInv, KeptInv, AnswerSave
  <2>8. KeptInv'
    <3>1. req[c].id \in 1 .. lastId /\ fate[req[c].id] = "open" => Complete(req[c].id)
      BY <1>5 DEF MInv, MapTypeOK, IdsInv, KeptInv, AnswerSave
    <3>2. \A id \in Ids : /\ fate'[id] = "acked" => Complete(id)
                         /\ (fate'[id] = "deleted") = (fate[id] = "deleted")
      BY <1>5, <3>1 DEF MInv, MapTypeOK, KeptInv, AnswerSave
    <3>3. \A id \in Ids : Complete(id)' = Complete(id)
      BY <1>5 DEF AnswerSave
    <3> QED
      BY <1>5, <3>2, <3>3 DEF MInv, MapTypeOK, IdsInv, KeptInv, AnswerSave
  <2> QED
    BY <2>1, <2>2, <2>3, <2>4, <2>5, <2>6, <2>7, <2>8 DEF MInv
<1> QED
    BY <1>1, <1>2, <1>3, <1>4, <1>5

\* A delete.
LEMMA DeleteKeeps ==
    ASSUME MInv, NEW c \in Clients,
           LookRow(c) \/ DropBody(c) \/ RemoveRow(c)
    PROVE  MInv'
<1> USE MapsAssumption, IdsAssumption
    DEF At, Goto, d1, store, history, Ids, Rows, NoRow, Idle, Steps, Saving, Complete,
        Put, Served, NextId
<1>1. CASE LookRow(c)
  <2>a. PICK id \in 1 .. lastId, pc \in {"drop", "remove"} :
          /\ Goto(c, pc, id, NoMap)
          /\ pc = "drop" => rows[id].kind = "pointer"
          /\ fate' = [fate EXCEPT ![id] = "deleted"]
    BY <1>1 DEF LookRow
  <2>b. At(c, "idle") /\ UNCHANGED <<d1, store, saved>>
    BY <1>1 DEF LookRow
  <2>1. MapTypeOK'
    BY <2>a, <2>b DEF MInv, MapTypeOK, IdsInv, SavedInv, BodyInv, RowInv, HeldInv, SaveInv, KeptInv
  <2>2. IdsInv'
    BY <2>a, <2>b DEF MInv, MapTypeOK, IdsInv, SavedInv, BodyInv, RowInv, HeldInv, SaveInv, KeptInv
  <2>3. SavedInv'
    BY <2>a, <2>b DEF MInv, MapTypeOK, IdsInv, SavedInv, BodyInv, RowInv, HeldInv, SaveInv, KeptInv
  <2>4. BodyInv'
    BY <2>a, <2>b DEF MInv, MapTypeOK, IdsInv, SavedInv, BodyInv, RowInv, HeldInv, SaveInv, KeptInv
  <2>5. RowInv'
    BY <2>b DEF MInv, RowInv
  <2>6. HeldInv'
    BY <2>a, <2>b DEF MInv, MapTypeOK, IdsInv, SavedInv, BodyInv, RowInv, HeldInv, SaveInv, KeptInv
  <2>7. SaveInv'
    BY <2>a, <2>b DEF MInv, MapTypeOK, IdsInv, SavedInv, BodyInv, RowInv, HeldInv, SaveInv, KeptInv
  <2>8. KeptInv'
    BY <2>a, <2>b DEF MInv, MapTypeOK, IdsInv, SavedInv, BodyInv, RowInv, HeldInv, SaveInv, KeptInv
  <2> QED
    BY <2>1, <2>2, <2>3, <2>4, <2>5, <2>6, <2>7, <2>8 DEF MInv
<1>2. CASE DropBody(c)
  <2>a. fate[req[c].id] = "deleted" /\ req[c].id \in 1 .. lastId
    BY <1>2 DEF DropBody, MInv, IdsInv, KeptInv
  <2>b. At(c, "drop") /\ Goto(c, "remove", req[c].id, NoMap) /\ UNCHANGED <<d1, history>>
    BY <1>2 DEF DropBody
  <2>c. CASE UNCHANGED store
    <3>1. MapTypeOK'
      BY <2>a, <2>b, <2>c DEF MInv, MapTypeOK, IdsInv, SavedInv, BodyInv, RowInv, HeldInv, SaveInv, KeptInv
    <3>2. IdsInv'
      BY <2>a, <2>b, <2>c DEF MInv, MapTypeOK, IdsInv, SavedInv, BodyInv, RowInv, HeldInv, SaveInv, KeptInv
    <3>3. SavedInv'
      BY <2>a, <2>b, <2>c DEF MInv, MapTypeOK, IdsInv, SavedInv, BodyInv, RowInv, HeldInv, SaveInv, KeptInv
    <3>4. BodyInv'
      BY <2>a, <2>b, <2>c DEF MInv, MapTypeOK, IdsInv, SavedInv, BodyInv, RowInv, HeldInv, SaveInv, KeptInv
    <3>5. RowInv'
      BY <2>a, <2>b, <2>c DEF MInv, MapTypeOK, IdsInv, SavedInv, BodyInv, RowInv, HeldInv, SaveInv, KeptInv
    <3>6. HeldInv'
      BY <2>a, <2>b, <2>c DEF MInv, MapTypeOK, IdsInv, SavedInv, BodyInv, RowInv, HeldInv, SaveInv, KeptInv
    <3>7. SaveInv'
      BY <2>a, <2>b, <2>c DEF MInv, MapTypeOK, IdsInv, SavedInv, BodyInv, RowInv, HeldInv, SaveInv, KeptInv
    <3>8. KeptInv'
      BY <2>a, <2>b, <2>c DEF MInv, MapTypeOK, IdsInv, SavedInv, BodyInv, RowInv, HeldInv, SaveInv, KeptInv
    <3> QED
      BY <3>1, <3>2, <3>3, <3>4, <3>5, <3>6, <3>7, <3>8 DEF MInv
  <2>d. CASE Put(req[c].id, NoMap)
    <3>1. MapTypeOK'
      BY <2>a, <2>b, <2>d DEF MInv, MapTypeOK, IdsInv, SavedInv, BodyInv, RowInv, HeldInv, SaveInv, KeptInv
    <3>2. IdsInv'
      BY <2>a, <2>b, <2>d DEF MInv, MapTypeOK, IdsInv, SavedInv, BodyInv, RowInv, HeldInv, SaveInv, KeptInv
    <3>3. SavedInv'
      BY <2>a, <2>b, <2>d DEF MInv, MapTypeOK, IdsInv, SavedInv, BodyInv, RowInv, HeldInv, SaveInv, KeptInv
    <3>4. BodyInv'
      BY <2>a, <2>b, <2>d DEF MInv, MapTypeOK, IdsInv, SavedInv, BodyInv, RowInv, HeldInv, SaveInv, KeptInv
    <3>5. RowInv'
      BY <2>a, <2>b, <2>d DEF MInv, MapTypeOK, IdsInv, SavedInv, BodyInv, RowInv, HeldInv, SaveInv, KeptInv
    <3>6. HeldInv'
      BY <2>a, <2>b, <2>d DEF MInv, MapTypeOK, IdsInv, SavedInv, BodyInv, RowInv, HeldInv, SaveInv, KeptInv
    <3>7. SaveInv'
      BY <2>a, <2>b, <2>d DEF MInv, MapTypeOK, IdsInv, SavedInv, BodyInv, RowInv, HeldInv, SaveInv, KeptInv
    <3>8. KeptInv'
      BY <2>a, <2>b, <2>d DEF MInv, MapTypeOK, IdsInv, SavedInv, BodyInv, RowInv, HeldInv, SaveInv, KeptInv
    <3> QED
      BY <3>1, <3>2, <3>3, <3>4, <3>5, <3>6, <3>7, <3>8 DEF MInv
  <2> QED
    BY <1>2, <2>c, <2>d DEF DropBody
<1>3. CASE RemoveRow(c)
  <2>1. MapTypeOK'
    BY <1>3 DEF MInv, MapTypeOK, IdsInv, SavedInv, BodyInv, RowInv, HeldInv, SaveInv, KeptInv, RemoveRow
  <2>2. IdsInv'
    BY <1>3 DEF MInv, MapTypeOK, IdsInv, SavedInv, BodyInv, RowInv, HeldInv, SaveInv, KeptInv, RemoveRow
  <2>3. SavedInv'
    BY <1>3 DEF MInv, MapTypeOK, IdsInv, SavedInv, BodyInv, RowInv, HeldInv, SaveInv, KeptInv, RemoveRow
  <2>4. BodyInv'
    BY <1>3 DEF MInv, MapTypeOK, IdsInv, SavedInv, BodyInv, RowInv, HeldInv, SaveInv, KeptInv, RemoveRow
  <2>5. RowInv'
    BY <1>3 DEF MInv, MapTypeOK, IdsInv, SavedInv, BodyInv, RowInv, HeldInv, SaveInv, KeptInv, RemoveRow
  <2>6. HeldInv'
    BY <1>3 DEF MInv, MapTypeOK, IdsInv, SavedInv, BodyInv, RowInv, HeldInv, SaveInv, KeptInv, RemoveRow
  <2>7. SaveInv'
    BY <1>3 DEF MInv, MapTypeOK, IdsInv, SavedInv, BodyInv, RowInv, HeldInv, SaveInv, KeptInv, RemoveRow
  <2>8. KeptInv'
    BY <1>3 DEF MInv, MapTypeOK, IdsInv, SavedInv, BodyInv, RowInv, HeldInv, SaveInv, KeptInv, RemoveRow
  <2> QED
    BY <2>1, <2>2, <2>3, <2>4, <2>5, <2>6, <2>7, <2>8 DEF MInv
<1> QED
    BY <1>1, <1>2, <1>3

\* Every step of MapStore.
LEMMA MInvNext == MInv /\ [MapNext]_mapvars => MInv'
<1> SUFFICES ASSUME MInv, [MapNext]_mapvars
             PROVE  MInv'
    OBVIOUS
<1>1. ASSUME NEW c \in Clients, Save(c)
      PROVE  MInv'
    BY <1>1, SaveKeeps DEF Save
<1>2. ASSUME NEW c \in Clients, SelectRow(c)
      PROVE  MInv'
  <2>1. UNCHANGED <<d1, store, history>>
    BY <1>2 DEF SelectRow
  <2>2. PICK id \in Ids :
          \/ rows[id].kind = "inline" /\ Goto(c, "got", id, rows[id].map)
          \/ rows[id].kind = "pointer" /\ Goto(c, "fetch", id, NoMap)
    BY <1>2 DEF SelectRow
  <2>3. id \in 1 .. lastId
    BY <2>2, IdsAssumption DEF MInv, MapTypeOK, Ids, NoRow
  <2>4. rows[id].kind = "inline" => rows[id].map = saved[id] /\ saved[id] \in Maps
    BY <2>3 DEF MInv, RowInv, SavedInv, Ids
  <2> QED
    BY <2>1, <2>2, <2>3, <2>4, MovingKeeps
<1>3. ASSUME NEW c \in Clients, FetchBody(c)
      PROVE  MInv'
  <2>1. UNCHANGED <<d1, store, history>>
    BY <1>3 DEF FetchBody
  <2>2. PICK m \in Served(req[c].id) :
          IF m = NoMap THEN req' = [req EXCEPT ![c] = Idle]
                       ELSE Goto(c, "got", req[c].id, m)
    BY <1>3 DEF FetchBody
  <2>3. req[c].id \in 1 .. lastId
    BY <1>3 DEF MInv, IdsInv, FetchBody, At
  <2>4. m # NoMap => m = saved[req[c].id] /\ m \in Maps
    BY <2>2, <2>3, IdsAssumption DEF MInv, MapTypeOK, BodyInv, SavedInv, Served, Ids
  <2> QED
    BY <2>1, <2>2, <2>3, <2>4, LeavingKeeps, MovingKeeps
<1>4. ASSUME NEW c \in Clients, Delete(c)
      PROVE  MInv'
    BY <1>4, DeleteKeeps DEF Delete
<1>5. ASSUME NEW c \in Clients, End(c)
      PROVE  MInv'
    BY <1>5, LeavingKeeps DEF End
<1>6. ASSUME NEW id \in Ids, Propagate(id)
      PROVE  MInv'
    BY <1>6 DEF Propagate, MInv, MapTypeOK, IdsInv, SavedInv, BodyInv, RowInv, HeldInv,
                SaveInv, KeptInv, Complete, Saving, At, d1, history
<1>7. CASE UNCHANGED mapvars
    BY <1>7 DEF mapvars, MInv, MapTypeOK, IdsInv, SavedInv, BodyInv, RowInv, HeldInv,
                SaveInv, KeptInv, Complete, Saving, At
<1> QED
    BY <1>1, <1>2, <1>3, <1>4, <1>5, <1>6, <1>7 DEF MapNext, Load

\* What every request may count on, in every state of the worker
\* (map-store.mjs, worker-base.js).
THEOREM MapInvariance == MapSpec => []MInv
  BY MInvInit, MInvNext, PTL DEF MapSpec

-----------------------------------------------------------------------------
(* The properties.                                                         *)

\* The stores and the requests keep their types.
THEOREM MapTypesAlways == MapSpec => []MapTypeOK
<1>1. MInv => MapTypeOK
    BY DEF MInv
<1> QED
    BY <1>1, MapInvariance, PTL

\* loadStoredMapJson gives every reader the map its id was inserted for, for
\* any number of concurrent saves, deletes and late propagations.
THEOREM ReadsAreTheSavedMapAlways == MapSpec => []ReadsAreTheSavedMap
<1>1. MInv => ReadsAreTheSavedMap
    BY DEF MInv, HeldInv, ReadsAreTheSavedMap, At
<1> QED
    BY <1>1, MapInvariance, PTL

\* An answer of saveStoredMap is kept: the map is complete in the two stores
\* until somebody asks for its removal.
THEOREM AnsweredSavesStayAlways == MapSpec => []AnsweredSavesStay
<1>1. MInv => AnsweredSavesStay
    BY DEF MInv, KeptInv, AnsweredSavesStay
<1> QED
    BY <1>1, MapInvariance, PTL

\* No step brings a removed row back: neither the late UPDATE of a save nor an
\* INSERT.
LEMMA StaysDeletedStep ==
    ASSUME MInv, [MapNext]_mapvars, NEW id \in Ids, id <= lastId, rows[id] = NoRow
    PROVE  rows'[id] = NoRow
<1> USE IdsAssumption DEF MInv, MapTypeOK, Ids, d1, store, history
<1>1. ASSUME NEW c \in Clients, InsertInline(c) \/ InsertPending(c)
      PROVE  rows'[id] = NoRow
    BY <1>1 DEF InsertInline, InsertPending, NextId
<1>2. ASSUME NEW c \in Clients, PointRow(c)
      PROVE  rows'[id] = NoRow
    BY <1>2 DEF PointRow
<1>3. ASSUME NEW c \in Clients, RemoveRow(c)
      PROVE  rows'[id] = NoRow
    BY <1>3 DEF RemoveRow
<1>4. ASSUME NEW c \in Clients,
             PutBody(c) \/ AnswerSave(c) \/ Load(c) \/ LookRow(c) \/ DropBody(c) \/ End(c)
      PROVE  rows'[id] = NoRow
    BY <1>4 DEF PutBody, AnswerSave, Load, SelectRow, FetchBody, LookRow, DropBody, End
<1>5. ASSUME NEW i \in Ids, Propagate(i)
      PROVE  rows'[id] = NoRow
    BY <1>5 DEF Propagate
<1>6. CASE UNCHANGED mapvars
    BY <1>6 DEF mapvars
<1> QED
    BY <1>1, <1>2, <1>3, <1>4, <1>5, <1>6 DEF MapNext, Save, Delete

\* A DELETE is final, also when it overtakes the save it removes
\* (UPDATE ... WHERE id, AUTOINCREMENT).
THEOREM DeletedStaysDeletedAlways == MapSpec => DeletedStaysDeleted
<1> DEFINE Final == \A id \in Ids : id <= lastId /\ rows[id] = NoRow => rows'[id] = NoRow
<1>1. MInv /\ [MapNext]_mapvars => [Final]_mapvars
    BY StaysDeletedStep
<1> QED
    BY <1>1, MapInvariance, PTL DEF MapSpec, DeletedStaysDeleted

-----------------------------------------------------------------------------
(* The two stores implement Archive.                                       *)

\* What an id stands for, by the row that has it.
LEMMA ContentOf ==
    ASSUME MInv, NEW id \in Ids
    PROVE  /\ id > lastId => Content(id) = "free"
           /\ id <= lastId => Content(id) \in Maps \union {"removed", "reserved", "withdrawn"}
           /\ id <= lastId => Content(id) # "free"
<1> USE IdsAssumption, MapsAssumption, StatesAssumption
    DEF MInv, MapTypeOK, Rows, Ids, SavedInv, RowInv, BodyInv
<1>1. id > lastId => Content(id) = "free"
    BY DEF Content
<1>2. ASSUME id <= lastId
      PROVE  Content(id) \in Maps \union {"removed", "reserved", "withdrawn"}
    BY <1>2 DEF Content
<1> QED
    BY <1>1, <1>2

\* It depends on its row, its body and the counter alone.
LEMMA SameContent ==
    ASSUME NEW i \in Ids, rows'[i] = rows[i], kv'[i] = kv[i], lastId' = lastId \/ i <= lastId,
           MInv, lastId' >= lastId, lastId' \in Nat
    PROVE  Content(i)' = Content(i)
<1>1. (i > lastId') <=> (i > lastId)
    BY IdsAssumption DEF MInv, MapTypeOK, Ids
<1>2. CASE i > lastId
    BY <1>1, <1>2 DEF Content
<1>3. CASE ~(i > lastId)
  <2>1. rows[i].kind \in {"absent", "pending", "inline", "pointer"}
    BY DEF MInv, MapTypeOK, Rows
  <2> QED
    BY <1>1, <1>3, <2>1 DEF Content
<1> QED
    BY <1>2, <1>3

\* The archive's view, and what it is after a step that changes one id.
Seen == [id \in Ids |-> Content(id)]

\* A step that changes what one id stands for is the archive's step of that id.
LEMMA OneIdChanges ==
    ASSUME NEW id \in Ids, \A i \in Ids \ {id} : Content(i)' = Content(i)
    PROVE  Seen' = [Seen EXCEPT ![id] = Content(id)']
  BY DEF Seen, Ids

\* An INSERT gives out the next id, for its map or as reserved.
LEMMA InsertGivesOut ==
    ASSUME MInv, NEW c \in Clients, InsertInline(c) \/ InsertPending(c)
    PROVE  A!ArchiveNext
<1> USE IdsAssumption, MapsAssumption, StatesAssumption
<1>1. PICK id \in Ids :
        /\ id = lastId + 1 /\ lastId' = id
        /\ UNCHANGED kv
        /\ \/ \E m \in Maps : rows' = [rows EXCEPT ![id] = [kind |-> "inline", map |-> m]]
           \/ rows' = [rows EXCEPT ![id] = [kind |-> "pending", map |-> NoMap]]
    BY DEF InsertInline, InsertPending, NextId, store
<1>2. ASSUME NEW i \in Ids \ {id}
      PROVE  Content(i)' = Content(i)
  <2>1. rows'[i] = rows[i] /\ kv'[i] = kv[i]
    BY <1>1 DEF MInv, MapTypeOK
  <2>2. CASE i <= lastId
    <3>1. i \in Ids /\ lastId' >= lastId /\ lastId' \in Nat
      BY <1>1 DEF MInv, MapTypeOK, Ids
    <3> QED
      BY <2>1, <2>2, <3>1, SameContent
  <2>3. CASE i > lastId
    BY <1>1, <2>3 DEF MInv, MapTypeOK, Ids, Content
  <2> QED
    BY <2>2, <2>3 DEF MInv, MapTypeOK, Ids
<1>3. Content(id)' \in Maps \union {"reserved"}
  <2>1. ~(id > lastId')
    BY <1>1 DEF Ids
  <2>2. CASE rows' = [rows EXCEPT ![id] = [kind |-> "pending", map |-> NoMap]]
    BY <2>1, <2>2 DEF MInv, MapTypeOK, Content
  <2>3. ASSUME NEW m \in Maps, rows' = [rows EXCEPT ![id] = [kind |-> "inline", map |-> m]]
        PROVE  Content(id)' = m
    BY <2>1, <2>3 DEF MInv, MapTypeOK, Content
  <2> QED
    BY <1>1, <2>2, <2>3
<1>4. Seen[id] = "free" /\ \A i \in Ids : i < id => Seen[i] # "free"
    BY <1>1, ContentOf DEF Seen, Ids, MInv, MapTypeOK
<1>5. Seen' = [Seen EXCEPT ![id] = Content(id)']
    BY <1>2, OneIdChanges
<1> QED
    BY <1>3, <1>4, <1>5 DEF A!ArchiveNext, A!GiveOut, A!Becomes, Seen, Ids

\* The UPDATE of a save publishes the map, unless the row is gone.
LEMMA PointPublishes ==
    ASSUME MInv, NEW c \in Clients, PointRow(c)
    PROVE  A!ArchiveNext \/ Seen' = Seen
<1> USE IdsAssumption, MapsAssumption, StatesAssumption
<1>1. PICK id \in Ids : /\ id = req[c].id /\ id <= lastId
                       /\ saved[id] \in Maps /\ kv[id] = saved[id]
                       /\ rows[id].kind \in {"absent", "pending"}
    BY SMTT(30) DEF PointRow, At, MInv, MapTypeOK, IdsInv, SavedInv, SaveInv, Saving, Ids
<1>2. UNCHANGED <<lastId, kv>>
    BY DEF PointRow, store
<1>3. CASE rows[id] = NoRow
    BY <1>1, <1>2, <1>3 DEF PointRow, Seen, Content, Ids
<1>4. CASE rows[id] # NoRow
  <2>1. rows' = [rows EXCEPT ![id] = [kind |-> "pointer", map |-> NoMap]]
    BY <1>1, <1>4 DEF PointRow
  <2>2. rows[id].kind = "pending"
    BY <1>1, <1>4 DEF MInv, MapTypeOK, RowInv, Rows, NoRow
  <2>3. \A i \in Ids \ {id} : Content(i)' = Content(i)
    BY <1>2, <2>1, SameContent DEF MInv, MapTypeOK
  <2>4. Content(id) = "reserved" /\ Content(id)' = saved[id]
    BY <1>1, <1>2, <2>1, <2>2 DEF MInv, MapTypeOK, Ids, Content
  <2>5. Seen' = [Seen EXCEPT ![id] = saved[id]]
    BY <1>1, <2>3, <2>4, OneIdChanges
  <2> QED
    BY <1>1, <2>4, <2>5 DEF A!ArchiveNext, A!Publish, A!Becomes, Seen, Ids
<1> QED
    BY <1>3, <1>4

\* A body in KV is seen through a pointer only: a save puts it before there is
\* one, a DELETE that takes it away withdraws the map.
LEMMA BodyWithdraws ==
    ASSUME MInv, NEW c \in Clients, PutBody(c) \/ DropBody(c)
    PROVE  A!ArchiveNext \/ Seen' = Seen
<1> USE IdsAssumption, MapsAssumption, StatesAssumption
<1>1. PICK id \in Ids : id = req[c].id /\ id <= lastId
    BY DEF PutBody, DropBody, At, MInv, MapTypeOK, IdsInv, Ids
<1>2. UNCHANGED <<rows, lastId>>
    BY DEF PutBody, DropBody, d1
<1>3. \/ UNCHANGED kv
      \/ PutBody(c) /\ \E m : kv' = [kv EXCEPT ![id] = m]
      \/ kv' = [kv EXCEPT ![id] = NoMap]
    BY <1>1 DEF PutBody, DropBody, Put, store
<1>4. CASE UNCHANGED kv
    BY <1>2, <1>4 DEF Seen, Content
<1>5. CASE PutBody(c) /\ \E m : kv' = [kv EXCEPT ![id] = m]
  <2>1. rows[id].kind \in {"absent", "pending"}
    BY <1>1, <1>5 DEF PutBody, At, MInv, SaveInv, Saving
  <2>2. \A i \in Ids : Content(i)' = Content(i)
    BY <1>1, <1>2, <1>5, <2>1 DEF MInv, MapTypeOK, Ids, Content
  <2> QED
    BY <2>2 DEF Seen
<1>6. CASE kv' = [kv EXCEPT ![id] = NoMap]
  <2>1. \A i \in Ids \ {id} : Content(i)' = Content(i)
    BY <1>1, <1>2, <1>6 DEF MInv, MapTypeOK, Ids, Content
  <2>2. Seen' = [Seen EXCEPT ![id] = Content(id)']
    BY <1>1, <2>1, OneIdChanges
  <2>3. \/ Content(id)' = Content(id)
        \/ Content(id) \in Maps /\ Content(id)' = "withdrawn"
    BY <1>1, <1>2, <1>6 DEF MInv, MapTypeOK, Rows, Ids, SavedInv, BodyInv, Content
  <2>4. CASE Content(id)' = Content(id)
    BY <1>1, <2>2, <2>4 DEF Seen, Ids
  <2>5. CASE Content(id) \in Maps /\ Content(id)' = "withdrawn"
    BY <1>1, <2>2, <2>5 DEF A!ArchiveNext, A!Withdraw, A!Becomes, Seen, Ids
  <2> QED
    BY <2>3, <2>4, <2>5
<1> QED
    BY <1>3, <1>4, <1>5, <1>6

\* The DELETE of a row removes the id.
LEMMA RowGoes ==
    ASSUME MInv, NEW c \in Clients, RemoveRow(c)
    PROVE  A!ArchiveNext \/ Seen' = Seen
<1> USE IdsAssumption, MapsAssumption, StatesAssumption
<1>1. PICK id \in Ids : id = req[c].id /\ id <= lastId
    BY SMTT(30) DEF RemoveRow, At, MInv, MapTypeOK, IdsInv, Ids
<1>2. rows' = [rows EXCEPT ![id] = NoRow] /\ UNCHANGED <<lastId, kv>>
    BY <1>1 DEF RemoveRow, store
<1>3. \A i \in Ids \ {id} : Content(i)' = Content(i)
    BY <1>2, SameContent DEF MInv, MapTypeOK
<1>4. Content(id)' = "removed"
    BY <1>1, <1>2 DEF MInv, MapTypeOK, Ids, Content, NoRow
<1>5. Seen' = [Seen EXCEPT ![id] = "removed"]
    BY <1>1, <1>3, <1>4, OneIdChanges
<1>6. CASE Content(id) = "removed"
    BY <1>1, <1>5, <1>6 DEF Seen, Ids
<1>7. CASE Content(id) # "removed"
    BY <1>1, <1>5, <1>7, ContentOf DEF A!ArchiveNext, A!Remove, A!Becomes, Seen, Ids
<1> QED
    BY <1>6, <1>7

\* Every step of the worker is a step of the archive or none.
LEMMA StepIsArchived == MInv /\ [MapNext]_mapvars => [A!ArchiveNext]_Seen
<1> SUFFICES ASSUME MInv, [MapNext]_mapvars
             PROVE  A!ArchiveNext \/ Seen' = Seen
    OBVIOUS
<1>1. ASSUME NEW c \in Clients,
             AnswerSave(c) \/ Load(c) \/ LookRow(c) \/ End(c)
      PROVE  Seen' = Seen
  <2>1. UNCHANGED <<rows, lastId, kv>>
    BY <1>1 DEF AnswerSave, Load, SelectRow, FetchBody, LookRow, End, d1, store
  <2> QED
    BY <2>1 DEF Seen, Content
<1>2. ASSUME NEW id \in Ids, Propagate(id)
      PROVE  Seen' = Seen
    BY <1>2 DEF Propagate, d1, Seen, Content
<1>3. CASE UNCHANGED mapvars
    BY <1>3 DEF mapvars, Seen, Content
<1> QED
    BY <1>1, <1>2, <1>3, InsertGivesOut, PointPublishes, BodyWithdraws, RowGoes
    DEF MapNext, Save, Delete

\* saveStoredMap, loadStoredMapJson and the DELETE of worker-base.js implement
\* the archive: whatever their awaits interleave with, an id stands for one map.
THEOREM ImplementsArchive == MapSpec => ArchivePromise
<1>1. MapInit => A!ArchiveInit
    BY IdsAssumption DEF MapInit, A!ArchiveInit, Content, Ids
<1>2. MInv /\ [MapNext]_mapvars => [A!ArchiveNext]_([id \in Ids |-> Content(id)])
    BY StepIsArchived DEF Seen
<1> QED
    BY <1>1, <1>2, MapInvariance, PTL DEF MapSpec, ArchivePromise, A!ArchiveSpec
=============================================================================
