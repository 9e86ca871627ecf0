------------------------------- MODULE MapStore -------------------------------
(***************************************************************************)
(* The stored maps of the wayfinder worker: POST, GET and DELETE of        *)
(* /api/maps, as tools/point-map/lib/map-store.mjs and worker-base.js keep *)
(* them in two stores without a transaction.                               *)
(*                                                                         *)
(* A map that fits is one INSERT into D1.  A larger one is a pending row,  *)
(* then a body in KV under the id of the row, then an UPDATE that turns    *)
(* the row into a pointer.  Requests interleave between their awaits, and  *)
(* any of them may end at any await, by an error or by the end of its      *)
(* worker.  KV answers a read with an older value until it has propagated  *)
(* the newest.                                                             *)
(*                                                                         *)
(* An operator marked "Slip" is a plausible mistake in the definition that *)
(* follows it.  No behaviour of MapSpec uses it; PROJECT.json names the    *)
(* property that notices it.                                               *)
(***************************************************************************)
EXTENDS Naturals

CONSTANTS Maps,
          LargeMaps,  \* those above D1_MAP_JSON_LIMIT
          NoMap,
          Clients,    \* requests served at the same time
          MaxId,      \* bound: rows ever inserted
          LastRowId   \* meta.last_row_id of D1's answer to the INSERT of a row

ASSUME MapsAssumption == LargeMaps \subseteq Maps /\ NoMap \notin Maps
ASSUME IdsAssumption  == MaxId \in Nat
\* D1 reports the id of every row it inserts.  Without a report the worker would
\* ask for MAX(id) instead, which by then may be another save's row.
ASSUME RowIdAssumption == \A id \in 1 .. MaxId : LastRowId[id] = id
\* Archive tells maps from the other things an id may stand for.
ASSUME StatesAssumption ==
    Maps \cap {"free", "reserved", "withdrawn", "removed"} = {}

VARIABLES
    rows,     \* D1: the row of each id
    lastId,   \* D1: the AUTOINCREMENT counter
    kv,       \* KV: the newest value under map-json:<id>
    older,    \* KV: values a read may still get instead
    req,      \* where each request is
    saved,    \* history: the map the row of an id was inserted for
    fate      \* history: "open", then "acked" by a save, "deleted" by a DELETE

d1      == <<rows, lastId>>
store   == <<kv, older>>
history == <<saved, fate>>
mapvars == <<rows, lastId, kv, older, req, saved, fate>>

Ids   == 1 .. MaxId
NoRow == [kind |-> "absent", map |-> NoMap]
Rows  == [kind : {"absent", "inline", "pending", "pointer"},
          map : Maps \union {NoMap}]
Idle  == [pc |-> "idle", id |-> 0, map |-> NoMap]

\* A save is at put, point or answer, a load at fetch or got, a delete at
\* drop or remove.
Steps == {"idle", "put", "point", "answer", "fetch", "got", "drop", "remove"}

\* The variables keep their types, only inserted rows exist, and a request that
\* is to answer with a map has one.
MapTypeOK ==
    /\ lastId \in 0 .. MaxId
    /\ rows \in [Ids -> Rows] /\ \A id \in Ids : id > lastId => rows[id] = NoRow
    /\ kv \in [Ids -> Maps \union {NoMap}]
    /\ older \in [Ids -> SUBSET (Maps \union {NoMap})]
    /\ req \in [Clients -> [pc : Steps, id : Ids \union {0},
                            map : Maps \union {NoMap}]]
    /\ \A c \in Clients : req[c].pc \in {"put", "got"} => req[c].map \in Maps
    /\ saved \in [Ids -> Maps \union {NoMap}]
    /\ fate \in [Ids -> {"open", "acked", "deleted"}]

MapInit ==
    /\ rows = [id \in Ids |-> NoRow] /\ lastId = 0
    /\ kv = [id \in Ids |-> NoMap]
    /\ older = [id \in Ids |-> {}]
    /\ req = [c \in Clients |-> Idle]
    /\ saved = [id \in Ids |-> NoMap]
    /\ fate = [id \in Ids |-> "open"]

At(c, pc) == req[c].pc = pc

Goto(c, pc, id, m) == req' = [req EXCEPT ![c] = [pc |-> pc, id |-> id, map |-> m]]

\* Slip: rowids without AUTOINCREMENT, so that the id of a deleted last row
\* comes back.
SlipNextId(id) == \A i \in Ids : i < id <=> rows[i] # NoRow

\* The id D1 gives to the next row.
NextId(id) == id = lastId + 1

\* The id a save goes on with: D1's last_row_id, which by RowIdAssumption is there,
\* so that the query behind the ?? is not made.
RowId(id) == LastRowId[id]

\* INSERT with the body in the row: answered as soon as it is in.
InsertInline(c) ==
    /\ At(c, "idle")
    /\ \E id \in Ids, m \in Maps \ LargeMaps :
         /\ NextId(id)
         /\ lastId' = id
         /\ rows' = [rows EXCEPT ![id] = [kind |-> "inline", map |-> m]]
         /\ saved' = [saved EXCEPT ![id] = m]
         /\ Goto(c, "answer", RowId(id), m)
    /\ UNCHANGED <<store, fate>>

\* INSERT of {"__kv_pending": true} for a body that does not fit.
InsertPending(c) ==
    /\ At(c, "idle")
    /\ \E id \in Ids, m \in LargeMaps :
         /\ NextId(id)
         /\ lastId' = id
         /\ rows' = [rows EXCEPT ![id] = [kind |-> "pending", map |-> NoMap]]
         /\ saved' = [saved EXCEPT ![id] = m]
         /\ Goto(c, "put", RowId(id), m)
    /\ UNCHANGED <<store, fate>>

Put(id, m) ==
    /\ kv' = [kv EXCEPT ![id] = m]
    /\ older' = [older EXCEPT ![id] = @ \union {kv[id]}]

\* Slip: the failure of the put is logged, not thrown.
SlipPutBody(c) ==
    /\ At(c, "put")
    /\ Put(req[c].id, req[c].map) \/ UNCHANGED store
    /\ Goto(c, "point", req[c].id, req[c].map)
    /\ UNCHANGED <<d1, history>>

PutBody(c) ==
    /\ At(c, "put")
    /\ Put(req[c].id, req[c].map)
    /\ Goto(c, "point", req[c].id, req[c].map)
    /\ UNCHANGED <<d1, history>>

\* Slip: INSERT OR REPLACE, which brings a deleted row back.
SlipPointRow(c) ==
    /\ At(c, "point")
    /\ rows' = [rows EXCEPT ![req[c].id] = [kind |-> "pointer", map |-> NoMap]]
    /\ Goto(c, "answer", req[c].id, req[c].map)
    /\ UNCHANGED <<lastId, store, history>>

\* UPDATE ... WHERE id: without effect when the row is gone.
PointRow(c) ==
    /\ At(c, "point")
    /\ rows' = IF rows[req[c].id] = NoRow
                 THEN rows
                 ELSE [rows EXCEPT ![req[c].id] = [kind |-> "pointer", map |-> NoMap]]
    /\ Goto(c, "answer", req[c].id, req[c].map)
    /\ UNCHANGED <<lastId, store, history>>

AnswerSave(c) ==
    /\ At(c, "answer")
    /\ fate' = [fate EXCEPT ![req[c].id] = IF @ = "open" THEN "acked" ELSE @]
    /\ req' = [req EXCEPT ![c] = Idle]
    /\ UNCHANGED <<d1, store, saved>>

\* What a read of a KV key may return.
Served(id) == {kv[id]} \union older[id]

\* GET: no row is answered 404 and a pending one 409, without a step.
SelectRow(c) ==
    /\ At(c, "idle")
    /\ \E id \in Ids :
         \/ rows[id].kind = "inline" /\ Goto(c, "got", id, rows[id].map)
         \/ rows[id].kind = "pointer" /\ Goto(c, "fetch", id, NoMap)
    /\ UNCHANGED <<d1, store, history>>

\* Slip: whatever KV answers is decoded.
SlipFetchBody(c) ==
    /\ At(c, "fetch")
    /\ \E m \in Served(req[c].id) : Goto(c, "got", req[c].id, m)
    /\ UNCHANGED <<d1, store, history>>

\* A body that is not there is answered 503.
FetchBody(c) ==
    /\ At(c, "fetch")
    /\ \E m \in Served(req[c].id) :
         IF m = NoMap THEN req' = [req EXCEPT ![c] = Idle]
                      ELSE Goto(c, "got", req[c].id, m)
    /\ UNCHANGED <<d1, store, history>>

\* DELETE: the row says whether there is a body to remove first.  A SELECT
\* that fails is treated like a row without one.  Nobody asks for ids that
\* were not given out.
LookRow(c) ==
    /\ At(c, "idle")
    /\ \E id \in 1 .. lastId :
         /\ \/ rows[id].kind = "pointer" /\ Goto(c, "drop", id, NoMap)
            \/ Goto(c, "remove", id, NoMap)
         /\ fate' = [fate EXCEPT ![id] = "deleted"]
    /\ UNCHANGED <<d1, store, saved>>

\* SITE.delete, whose failure is swallowed as well.
DropBody(c) ==
    /\ At(c, "drop")
    /\ Put(req[c].id, NoMap) \/ UNCHANGED store
    /\ Goto(c, "remove", req[c].id, NoMap)
    /\ UNCHANGED <<d1, history>>

RemoveRow(c) ==
    /\ At(c, "remove")
    /\ rows' = [rows EXCEPT ![req[c].id] = NoRow]
    /\ req' = [req EXCEPT ![c] = Idle]
    /\ UNCHANGED <<lastId, store, history>>

\* A request ends where it is: its answer was sent or lost, a store threw, or
\* its worker was ended.
End(c) ==
    /\ ~At(c, "idle")
    /\ req' = [req EXCEPT ![c] = Idle]
    /\ UNCHANGED <<d1, store, history>>

\* KV: the newest value under a key has reached every location.
Propagate(id) ==
    /\ older[id] # {}
    /\ older' = [older EXCEPT ![id] = {}]
    /\ UNCHANGED <<d1, kv, req, history>>

Save(c) == \/ InsertInline(c) \/ InsertPending(c) \/ PutBody(c)
           \/ PointRow(c) \/ AnswerSave(c)
Load(c) == SelectRow(c) \/ FetchBody(c)
Delete(c) == LookRow(c) \/ DropBody(c) \/ RemoveRow(c)

MapNext == \/ \E c \in Clients : Save(c) \/ Load(c) \/ Delete(c) \/ End(c)
           \/ \E id \in Ids : Propagate(id)

MapSpec == MapInit /\ [][MapNext]_mapvars

-----------------------------------------------------------------------------
\* No reader is ever given another map than the one its id was inserted for
\* (loadStoredMapJson: "Readers see the identical decoded object either way"),
\* whatever writes, deletes and propagations happen between the two reads.
ReadsAreTheSavedMap ==
    \A c \in Clients : At(c, "got") => req[c].map = saved[req[c].id]

Complete(id) ==
    \/ rows[id] = [kind |-> "inline", map |-> saved[id]]
    \/ rows[id].kind = "pointer" /\ kv[id] = saved[id]

\* Once saveStoredMap has answered with an id, the map is complete in the two
\* stores until somebody deletes it, whatever other requests do or leave undone.
AnsweredSavesStay == \A id \in Ids : fate[id] = "acked" => Complete(id)

\* A removed row never comes back, although the save it belongs to may still
\* be between its two stores: its UPDATE finds nothing, its id is not reused.
DeletedStaysDeleted ==
    [][\A id \in Ids : id <= lastId /\ rows[id] = NoRow => rows'[id] = NoRow]_mapvars

\* The two stores as one: what an id stands for.
Content(id) ==
    IF id > lastId THEN "free"
    ELSE CASE rows[id].kind = "absent"  -> "removed"
           [] rows[id].kind = "pending" -> "reserved"
           [] rows[id].kind = "inline"  -> rows[id].map
           [] rows[id].kind = "pointer" ->
                IF kv[id] = NoMap THEN "withdrawn" ELSE kv[id]

A == INSTANCE Archive WITH content <- [id \in Ids |-> Content(id)]

\* The worker implements the archive: a map appears whole under its id, is
\* never exchanged for another, and goes once.
ArchivePromise == A!ArchiveSpec
=============================================================================
