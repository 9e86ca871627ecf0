---------------------------- MODULE WayfinderProofs ----------------------------
(***************************************************************************)
(* The outcomes ledger of Wayfinder, for any maps, targets and number of   *)
(* requests and rows.  A POST changes no map and a map request no ledger   *)
(* row, so the theorems of MapStoreProofs hold here as well; what the      *)
(* ledger's rows stand for follows from what a POST may count on between   *)
(* its awaits.                                                             *)
(***************************************************************************)
EXTENDS Wayfinder, MapStoreProofs, TransitionProofs

\* What a POST holds is what the ids in its body stand for, although the maps
\* themselves may be gone by now.
PostInv ==
    \A p \in Posters : LET q == post[p] IN
        /\ q.pc # "idle" => q.baseline \in 1 .. lastId /\ q.target \in Targets
        /\ q.pc \in {"after", "afterbody", "prev"} => q.bmap = saved[q.baseline]
        /\ q.pc = "afterbody" => q.after \in 1 .. lastId
        /\ q.pc = "after" => q.after = 0
        /\ q.pc = "prev" /\ q.after # 0 =>
             /\ q.after \in 1 .. lastId /\ Explained(q.target, saved[q.baseline], saved[q.after])
             /\ q.delta = Observed(saved[q.baseline], saved[q.after])

\* The same of a row, and what it supersedes is of its baseline.
RowsInv ==
    \A n \in 1 .. Len(outcomes) : LET e == outcomes[n] IN
        /\ e.baseline \in 1 .. lastId /\ e.frame = FrameOf[saved[e.baseline]]
        /\ e.source = "server" =>
             /\ e.after \in 1 .. lastId /\ Explained(e.target, saved[e.baseline], saved[e.after])
             /\ e.observed = Observed(saved[e.baseline], saved[e.after])
        /\ e.supersedes # 0 => outcomes[e.supersedes].baseline = e.baseline

LInv == MInv /\ LedgerTypeOK /\ PostInv /\ RowsInv

-----------------------------------------------------------------------------
(* The maps.                                                               *)

\* No step of the ledger changes a map.
LEMMA LedgerKeepsMaps == [WNext]_wvars => [MapNext]_mapvars
  BY DEF WNext, wvars, mapvars, Post, SelectBase, FetchBase, NoAfter, SelectAfter,
         FetchAfter, InsertOutcome, EndPost

\* With the ledger beside it the map store does what it does alone.
LEMMA WorkerIsMapStore == WSpec => MapSpec
<1>1. WInit => MapInit
    BY DEF WInit
<1> QED
    BY <1>1, LedgerKeepsMaps, PTL DEF WSpec, MapSpec

\* Loads, saves and deletes beside the ledger's POSTs: a reader gets the saved
\* map (loadStoredMapJson).
THEOREM WReadsAlways == WSpec => []ReadsAreTheSavedMap
  BY WorkerIsMapStore, ReadsAreTheSavedMapAlways, PTL

\* ... an answered save is kept (saveStoredMap) ...
THEOREM WSavesAlways == WSpec => []AnsweredSavesStay
  BY WorkerIsMapStore, AnsweredSavesStayAlways, PTL

\* ... a removed row stays removed (DELETE) ...
THEOREM WDeletesAlways == WSpec => DeletedStaysDeleted
  BY WorkerIsMapStore, DeletedStaysDeletedAlways, PTL

\* ... and the worker implements Archive.
THEOREM WImplementsArchive == WSpec => ArchivePromise
  BY WorkerIsMapStore, ImplementsArchive, PTL

\* An id given out stands for its map for ever.
LEMMA SavedStays ==
    ASSUME MInv, [MapNext]_mapvars
    PROVE  /\ lastId' >= lastId /\ lastId' \in Nat
           /\ \A id \in 1 .. lastId : saved'[id] = saved[id]
<1> USE IdsAssumption DEF MInv, MapTypeOK, Ids, d1, store, history
<1>1. ASSUME NEW c \in Clients, InsertInline(c) \/ InsertPending(c)
      PROVE  /\ lastId' = lastId + 1
             /\ \E m : saved' = [saved EXCEPT ![lastId + 1] = m]
    BY <1>1 DEF InsertInline, InsertPending, NextId
<1>2. ASSUME NEW c \in Clients,
             PutBody(c) \/ PointRow(c) \/ AnswerSave(c) \/ Load(c) \/ Delete(c) \/ End(c)
      PROVE  UNCHANGED <<lastId, saved>>
    BY <1>2 DEF PutBody, PointRow, AnswerSave, Load, SelectRow, FetchBody, Delete, LookRow,
                DropBody, RemoveRow, End
<1>3. ASSUME NEW i \in Ids, Propagate(i)
      PROVE  UNCHANGED <<lastId, saved>>
    BY <1>3 DEF Propagate
<1>4. \/ UNCHANGED <<lastId, saved>>
      \/ lastId' = lastId + 1 /\ \E m : saved' = [saved EXCEPT ![lastId + 1] = m]
    BY <1>1, <1>2, <1>3 DEF MapNext, Save, mapvars
<1> QED
    BY <1>4

-----------------------------------------------------------------------------
(* The ledger.                                                             *)

\* The empty worker satisfies the invariant.
LEMMA LInvInit == WInit => LInv
<1> SUFFICES ASSUME WInit PROVE LInv
    OBVIOUS
<1>1. MInv
    BY MInvInit DEF WInit
<1>2. LedgerTypeOK
    BY <1>1, RowsAssumption DEF LedgerTypeOK, MInv, WInit, Quiet, Request
<1>3. PostInv
    BY DEF PostInv, WInit, Quiet, Request
<1>4. RowsInv
    BY DEF RowsInv, WInit
<1> QED
    BY <1>1, <1>2, <1>3, <1>4 DEF LInv

\* A map in hand, from the row or from KV, is the one its id stands for.
LEMMA HeldMaps ==
    ASSUME MInv, NEW id \in Ids
    PROVE  /\ rows[id].kind \in {"inline", "pointer"} => id \in 1 .. lastId
           /\ rows[id].kind = "inline" => rows[id].map = saved[id] /\ saved[id] \in Maps
           /\ \A m \in Served(id) \ {NoMap} : m = saved[id] /\ (id <= lastId => m \in Maps)
<1> USE IdsAssumption DEF MInv, MapTypeOK, Ids
<1>1. rows[id].kind \in {"inline", "pointer"} => id \in 1 .. lastId
    BY DEF NoRow
<1>2. rows[id].kind = "inline" => rows[id].map = saved[id] /\ saved[id] \in Maps
    BY <1>1 DEF RowInv, SavedInv
<1>3. \A m \in Served(id) \ {NoMap} : m = saved[id] /\ (id <= lastId => m \in Maps)
    BY DEF Served, BodyInv, SavedInv
<1> QED
    BY <1>1, <1>2, <1>3

\* A POST that writes no row.
LEMMA RowsUntouched ==
    ASSUME LInv, NEW p \in Posters, UNCHANGED <<mapvars, outcomes>>,
           NEW q \in [pc : {"idle", "basebody", "after", "afterbody", "prev"},
                       baseline : Ids \union {0}, after : Ids \union {0},
                       target : Targets \union {NoTarget}, bmap : Maps \union {NoMap},
                       delta : Int],
           post' = [post EXCEPT ![p] = q],
           q.pc # "idle" => q.baseline \in 1 .. lastId /\ q.target \in Targets,
           q.pc \in {"after", "afterbody", "prev"} => q.bmap = saved[q.baseline],
           q.pc = "afterbody" => q.after \in 1 .. lastId,
           q.pc = "after" => q.after = 0,
           q.pc = "prev" /\ q.after # 0 =>
             /\ q.after \in 1 .. lastId /\ Explained(q.target, saved[q.baseline], saved[q.after])
             /\ q.delta = Observed(saved[q.baseline], saved[q.after])
    PROVE  LInv'
<1>1. MInv'
    BY MInvNext DEF LInv
<1>2. LedgerTypeOK'
    BY <1>1 DEF LInv, LedgerTypeOK, MInv
<1>3. PostInv'
    BY DEF LInv, LedgerTypeOK, PostInv, mapvars, Explained, Observed
<1>4. RowsInv'
    BY DEF LInv, RowsInv, mapvars, Explained, Observed
<1> QED
    BY <1>1, <1>2, <1>3, <1>4 DEF LInv

\* A POST that is over.
LEMMA StopKeeps ==
    ASSUME LInv, NEW p \in Posters, Stop(p), UNCHANGED <<mapvars, outcomes>>
    PROVE  LInv'
<1>1. /\ Quiet \in [pc : {"idle", "basebody", "after", "afterbody", "prev"},
                    baseline : Ids \union {0}, after : Ids \union {0},
                    target : Targets \union {NoTarget}, bmap : Maps \union {NoMap},
                    delta : Int]
      /\ Quiet.pc = "idle"
    BY DEF Quiet, Request
<1> HIDE DEF Quiet
<1> QED
    BY <1>1, RowsUntouched DEF Stop

\* A POST that goes on with a baseline.
LEMMA RequestKeeps ==
    ASSUME LInv, NEW p \in Posters, NEW pc \in {"basebody", "after"},
           NEW id \in 1 .. lastId, NEW target \in Targets, NEW m \in Maps \union {NoMap},
           pc = "after" => m = saved[id],
           post' = [post EXCEPT ![p] = Request(pc, id, target, m)],
           UNCHANGED <<mapvars, outcomes>>
    PROVE  LInv'
<1>1. id \in Ids
    BY IdsAssumption DEF LInv, MInv, MapTypeOK, Ids
<1> DEFINE q == Request(pc, id, target, m)
<1>2. /\ q \in [pc : {"idle", "basebody", "after", "afterbody", "prev"},
                baseline : Ids \union {0}, after : Ids \union {0},
                target : Targets \union {NoTarget}, bmap : Maps \union {NoMap},
                delta : Int]
      /\ q.pc = pc /\ q.baseline = id /\ q.after = 0 /\ q.target = target /\ q.bmap = m
    BY <1>1 DEF Request
<1> HIDE DEF q
<1>3. post' = [post EXCEPT ![p] = q]
    BY DEF q
<1> QED
    BY <1>2, <1>3, RowsUntouched

\* Taking a POST's baseline, or giving up on it.
LEMMA TakeBaseKeeps ==
    ASSUME LInv, NEW p \in Posters, NEW id \in 1 .. lastId, NEW target \in Targets,
           TakeBase(p, id, target, saved[id]), UNCHANGED <<mapvars, outcomes>>
    PROVE  LInv'
<1>1. id \in Ids /\ saved[id] \in Maps
    BY IdsAssumption DEF LInv, MInv, MapTypeOK, SavedInv, Ids
<1>2. CASE Stop(p)
    BY <1>2, StopKeeps
<1>3. CASE post' = [post EXCEPT ![p] = Request("after", id, target, saved[id])]
    BY <1>1, <1>3, RequestKeeps
<1> QED
    BY <1>2, <1>3 DEF TakeBase

\* The delta between two maps is a number (actual_delta).
LEMMA ObservedType ==
    ASSUME NEW b \in Maps, NEW a \in Maps
    PROVE  Observed(b, a) \in Int
  BY TargetsAssumption, ActualDeltaType DEF Observed

\* The same for the after map.
LEMMA TakeAfterKeeps ==
    ASSUME LInv, NEW p \in Posters, NEW id \in 1 .. lastId, post[p].pc \in {"after", "afterbody"},
           TakeAfter(p, id, saved[id]), UNCHANGED <<mapvars, outcomes>>
    PROVE  LInv'
<1>1. /\ id \in Ids /\ saved[id] \in Maps
      /\ post[p].bmap = saved[post[p].baseline] /\ post[p].bmap \in Maps
    BY IdsAssumption DEF LInv, MInv, MapTypeOK, SavedInv, PostInv, Ids
<1>2. CASE Explained(post[p].target, post[p].bmap, saved[id])
  <2>1. post' = [post EXCEPT ![p] =
                   [post[p] EXCEPT !.pc = "prev", !.after = id,
                                   !.delta = Observed(post[p].bmap, saved[id])]]
    BY <1>2 DEF TakeAfter, LInv, LedgerTypeOK
  <2>2. Observed(post[p].bmap, saved[id]) \in Int
    BY <1>1, ObservedType
  <2> QED
    BY <1>1, <1>2, <2>1, <2>2, RowsUntouched, ZenonT(30) DEF LInv, LedgerTypeOK, PostInv
<1>3. CASE Stop(p)
    BY <1>3, StopKeeps
<1> QED
    BY <1>2, <1>3 DEF TakeAfter

\* The insert: the row says what the POST found out.
LEMMA InsertKeeps ==
    ASSUME LInv, NEW p \in Posters, InsertOutcome(p)
    PROVE  LInv'
<1>1. UNCHANGED mapvars /\ MInv' /\ post[p].pc = "prev" /\ post' = [post EXCEPT ![p] = Quiet]
    BY MInvNext DEF InsertOutcome, Stop, LInv
<1>2. PICK verdict \in Verdicts, prev \in 0 .. Len(outcomes) :
        /\ prev # 0 => MaySupersede(p, outcomes[prev])
        /\ outcomes' = Append(outcomes,
             [baseline |-> post[p].baseline, after |-> post[p].after,
              target |-> post[p].target, frame |-> FrameOf[post[p].bmap],
              source |-> IF post[p].after = 0 THEN "caller" ELSE "server",
              observed |-> post[p].delta,
              verdict |-> verdict, supersedes |-> prev])
    BY DEF InsertOutcome
<1> DEFINE e == [baseline |-> post[p].baseline, after |-> post[p].after,
                 target |-> post[p].target, frame |-> FrameOf[post[p].bmap],
                 source |-> IF post[p].after = 0 THEN "caller" ELSE "server",
                 observed |-> post[p].delta,
                 verdict |-> verdict, supersedes |-> prev]
<1>3. /\ post[p].baseline \in 1 .. lastId /\ post[p].target \in Targets
      /\ post[p].bmap = saved[post[p].baseline] /\ post[p].bmap \in Maps
      /\ post[p].after # 0 => post[p].after \in 1 .. lastId
                             /\ Explained(post[p].target, saved[post[p].baseline],
                                          saved[post[p].after])
                             /\ post[p].delta = Observed(saved[post[p].baseline],
                                                        saved[post[p].after])
      /\ post[p].delta \in Int
    BY <1>1, IdsAssumption DEF LInv, MInv, MapTypeOK, SavedInv, LedgerTypeOK, PostInv, Ids
<1>4. 1 .. lastId \subseteq Ids /\ Len(outcomes) < MaxRows /\ outcomes \in Seq(Entry)
    BY IdsAssumption DEF LInv, MInv, MapTypeOK, LedgerTypeOK, Ids, InsertOutcome
<1>5. e \in Entry
    BY <1>3, <1>4, RowsAssumption DEF Entry, Sources, LInv, MInv, MapTypeOK
<1>6. /\ Len(outcomes') = Len(outcomes) + 1 /\ outcomes'[Len(outcomes) + 1] = e
      /\ \A n \in 1 .. Len(outcomes) : outcomes'[n] = outcomes[n]
      /\ outcomes' \in Seq(Entry)
    BY <1>2, <1>4, <1>5
<1> HIDE DEF e
<1>7. LedgerTypeOK'
  <2>1. \A n \in 1 .. Len(outcomes') : outcomes'[n].supersedes < n
    BY <1>4, <1>6 DEF LInv, LedgerTypeOK, e
  <2>2. Len(outcomes') <= MaxRows
    BY <1>4, <1>6, RowsAssumption
  <2>3. post' \in [Posters -> [pc : {"idle", "basebody", "after", "afterbody", "prev"},
                               baseline : Ids \union {0}, after : Ids \union {0},
                               target : Targets \union {NoTarget},
                               bmap : Maps \union {NoMap}, delta : Int]]
    BY <1>1 DEF LInv, LedgerTypeOK, Quiet, Request
  <2>4. MapTypeOK'
    BY <1>1 DEF MInv
  <2> QED
    BY <1>6, <2>1, <2>2, <2>3, <2>4 DEF LedgerTypeOK
<1>8. PostInv'
    BY <1>1 DEF LInv, LedgerTypeOK, PostInv, mapvars, Quiet, Request, Explained, Observed
<1>9. RowsInv'
  <2>1. UNCHANGED <<saved, lastId>>
    BY <1>1 DEF mapvars
  <2>2. ASSUME NEW n \in 1 .. Len(outcomes)
        PROVE  /\ outcomes'[n].baseline \in 1 .. lastId'
               /\ outcomes'[n].frame = FrameOf[saved'[outcomes'[n].baseline]]
               /\ outcomes'[n].source = "server" =>
                    /\ outcomes'[n].after \in 1 .. lastId'
                    /\ Explained(outcomes'[n].target, saved'[outcomes'[n].baseline],
                                 saved'[outcomes'[n].after])
                    /\ outcomes'[n].observed = Observed(saved'[outcomes'[n].baseline],
                                                        saved'[outcomes'[n].after])
               /\ outcomes'[n].supersedes # 0 =>
                    outcomes'[outcomes'[n].supersedes].baseline = outcomes'[n].baseline
    <3>1. outcomes[n].supersedes \in 0 .. Len(outcomes)
      <4>1. outcomes[n] \in Entry /\ Len(outcomes) \in Nat
        BY <1>4
      <4>2. outcomes[n].supersedes < n
        BY DEF LInv, LedgerTypeOK
      <4>3. outcomes[n].supersedes \in Nat
        BY <4>1, RowsAssumption DEF Entry
      <4> QED
        BY <4>1, <4>2, <4>3
    <3> QED
      BY <1>6, <2>1, <3>1 DEF LInv, RowsInv
  <2>3. /\ e.baseline \in 1 .. lastId' /\ e.frame = FrameOf[saved'[e.baseline]]
        /\ e.source = "server" =>
             /\ e.after \in 1 .. lastId' /\ Explained(e.target, saved'[e.baseline], saved'[e.after])
             /\ e.observed = Observed(saved'[e.baseline], saved'[e.after])
        /\ e.supersedes # 0 => outcomes'[e.supersedes].baseline = e.baseline
    BY <1>2, <1>3, <1>6, <2>1 DEF e, MaySupersede
  <2>4. 1 .. Len(outcomes') = 1 .. Len(outcomes) \union {Len(outcomes) + 1}
    BY <1>4, <1>6
  <2> QED
    BY <1>6, <2>2, <2>3, <2>4 DEF RowsInv, Explained, Observed
<1> QED
    BY <1>1, <1>7, <1>8, <1>9 DEF LInv

\* A map request leaves the ledger alone, and the ids it speaks of.
LEMMA MapStepKeeps ==
    ASSUME LInv, [MapNext]_mapvars, UNCHANGED <<outcomes, post>>
    PROVE  LInv'
<1>1. MInv'
    BY MInvNext DEF LInv
<1>2. /\ 1 .. lastId \subseteq 1 .. lastId'
      /\ \A id \in 1 .. lastId : saved'[id] = saved[id]
    BY SavedStays DEF LInv, MInv, MapTypeOK
<1>3. LedgerTypeOK'
    BY <1>1 DEF LInv, LedgerTypeOK, MInv
<1>4. PostInv'
  <2> SUFFICES ASSUME NEW p \in Posters
      PROVE  /\ post[p].pc # "idle" =>
                  post[p].baseline \in 1 .. lastId' /\ post[p].target \in Targets
             /\ post[p].pc \in {"after", "afterbody", "prev"} =>
                  post[p].bmap = saved'[post[p].baseline]
             /\ post[p].pc = "afterbody" => post[p].after \in 1 .. lastId'
             /\ post[p].pc = "after" => post[p].after = 0
             /\ post[p].pc = "prev" /\ post[p].after # 0 =>
                  /\ post[p].after \in 1 .. lastId'
                  /\ Explained(post[p].target, saved'[post[p].baseline], saved'[post[p].after])
                  /\ post[p].delta = Observed(saved'[post[p].baseline], saved'[post[p].after])
      BY DEF PostInv, Explained, Observed
  <2> QED
      BY <1>2 DEF LInv, PostInv
<1>5. RowsInv'
  <2> SUFFICES ASSUME NEW n \in 1 .. Len(outcomes)
      PROVE  /\ outcomes[n].baseline \in 1 .. lastId'
             /\ outcomes[n].frame = FrameOf[saved'[outcomes[n].baseline]]
             /\ outcomes[n].source = "server" =>
                  /\ outcomes[n].after \in 1 .. lastId'
                  /\ Explained(outcomes[n].target, saved'[outcomes[n].baseline],
                               saved'[outcomes[n].after])
                  /\ outcomes[n].observed = Observed(saved'[outcomes[n].baseline],
                                                     saved'[outcomes[n].after])
             /\ outcomes[n].supersedes # 0 =>
                  outcomes[outcomes[n].supersedes].baseline = outcomes[n].baseline
      BY DEF RowsInv, Explained, Observed
  <2> QED
      BY <1>2 DEF LInv, RowsInv
<1> QED
    BY <1>1, <1>3, <1>4, <1>5 DEF LInv

\* One case for each await of a POST.
LEMMA PostKeeps ==
    ASSUME LInv, NEW p \in Posters, Post(p)
    PROVE  LInv'
<1>1. CASE InsertOutcome(p)
    BY <1>1, InsertKeeps
<1>2. CASE EndPost(p)
    BY <1>2, StopKeeps DEF EndPost
<1>3. CASE NoAfter(p)
  <2>1. /\ post[p].pc = "after" /\ UNCHANGED <<mapvars, outcomes>>
        /\ post' = [post EXCEPT ![p] = [post[p] EXCEPT !.pc = "prev"]]
    BY <1>3 DEF NoAfter, LInv, LedgerTypeOK
  <2> QED
    BY <2>1, RowsUntouched DEF LInv, LedgerTypeOK, PostInv
<1>4. CASE SelectBase(p)
  <2>1. PICK id \in Ids, target \in Targets :
          \/ /\ rows[id].kind = "inline"
             /\ TakeBase(p, id, target, rows[id].map)
          \/ /\ rows[id].kind = "pointer"
             /\ post' = [post EXCEPT ![p] = Request("basebody", id, target, NoMap)]
    BY <1>4 DEF SelectBase
  <2>2. UNCHANGED <<mapvars, outcomes>> /\ MInv
    BY <1>4 DEF SelectBase, LInv
  <2>3. CASE rows[id].kind = "inline" /\ TakeBase(p, id, target, rows[id].map)
    BY <2>2, <2>3, HeldMaps, TakeBaseKeeps
  <2>4. CASE /\ rows[id].kind = "pointer"
             /\ post' = [post EXCEPT ![p] = Request("basebody", id, target, NoMap)]
    BY <2>2, <2>4, HeldMaps, RequestKeeps
  <2> QED
    BY <2>1, <2>3, <2>4
<1>5. CASE FetchBase(p)
  <2>1. PICK m \in Served(post[p].baseline) :
          IF m = NoMap THEN Stop(p)
                       ELSE TakeBase(p, post[p].baseline, post[p].target, m)
    BY <1>5 DEF FetchBase
  <2>2. /\ UNCHANGED <<mapvars, outcomes>> /\ MInv
        /\ post[p].baseline \in 1 .. lastId /\ post[p].target \in Targets
        /\ 1 .. lastId \subseteq Ids
    BY <1>5, IdsAssumption DEF FetchBase, LInv, PostInv, MInv, MapTypeOK, Ids
  <2>3. CASE Stop(p)
    BY <2>2, <2>3, StopKeeps
  <2>4. CASE m # NoMap /\ TakeBase(p, post[p].baseline, post[p].target, m)
    BY <2>2, <2>4, HeldMaps, TakeBaseKeeps
  <2> QED
    BY <2>1, <2>3, <2>4
<1>6. CASE SelectAfter(p)
  <2>1. PICK id \in Ids :
          CASE rows[id].kind = "inline"  -> TakeAfter(p, id, rows[id].map)
            [] rows[id].kind = "pointer" ->
                 post' = [post EXCEPT ![p] = [@ EXCEPT !.pc = "afterbody", !.after = id]]
            [] OTHER -> Stop(p)
    BY <1>6 DEF SelectAfter
  <2>2. UNCHANGED <<mapvars, outcomes>> /\ MInv /\ post[p].pc = "after"
    BY <1>6 DEF SelectAfter, LInv
  <2>3. CASE rows[id].kind = "inline" /\ TakeAfter(p, id, rows[id].map)
    BY <2>2, <2>3, HeldMaps, TakeAfterKeeps
  <2>4. CASE /\ rows[id].kind = "pointer"
             /\ post' = [post EXCEPT ![p] = [@ EXCEPT !.pc = "afterbody", !.after = id]]
    <3>1. post[p] \in [pc : {"idle", "basebody", "after", "afterbody", "prev"},
                       baseline : Ids \union {0}, after : Ids \union {0},
                       target : Targets \union {NoTarget}, bmap : Maps \union {NoMap},
                       delta : Int]
      BY DEF LInv, LedgerTypeOK
    <3>2. post' = [post EXCEPT ![p] = [post[p] EXCEPT !.pc = "afterbody", !.after = id]]
      BY <2>4 DEF LInv, LedgerTypeOK
    <3>3. id \in 1 .. lastId
      BY <2>2, <2>4, HeldMaps
    <3>4. /\ post[p].baseline \in 1 .. lastId /\ post[p].target \in Targets
          /\ post[p].bmap = saved[post[p].baseline]
      BY <2>2 DEF LInv, PostInv
    <3> QED
      BY <2>2, <3>1, <3>2, <3>3, <3>4, RowsUntouched
  <2>5. CASE Stop(p)
    BY <2>2, <2>5, StopKeeps
  <2> QED
    BY <2>1, <2>3, <2>4, <2>5
<1>7. CASE FetchAfter(p)
  <2>1. PICK m \in Served(post[p].after) :
          IF m = NoMap THEN Stop(p) ELSE TakeAfter(p, post[p].after, m)
    BY <1>7 DEF FetchAfter
  <2>2. /\ UNCHANGED <<mapvars, outcomes>> /\ MInv /\ post[p].pc = "afterbody"
        /\ post[p].after \in 1 .. lastId /\ 1 .. lastId \subseteq Ids
    BY <1>7, IdsAssumption DEF FetchAfter, LInv, PostInv, MInv, MapTypeOK, Ids
  <2>3. CASE Stop(p)
    BY <2>2, <2>3, StopKeeps
  <2>4. CASE m # NoMap /\ TakeAfter(p, post[p].after, m)
    BY <2>2, <2>4, HeldMaps, TakeAfterKeeps
  <2> QED
    BY <2>1, <2>3, <2>4
<1> QED
    BY <1>1, <1>2, <1>3, <1>4, <1>5, <1>6, <1>7 DEF Post

\* LInv is inductive.
LEMMA LInvNext ==
    ASSUME LInv, [WNext]_wvars
    PROVE  LInv'
<1>1. CASE MapNext /\ UNCHANGED <<outcomes, post>>
    BY <1>1, MapStepKeeps
<1>2. CASE \E p \in Posters : Post(p)
    BY <1>2, PostKeeps
<1>3. CASE UNCHANGED wvars
    BY <1>3, MapStepKeeps DEF wvars, mapvars
<1> QED
    BY <1>1, <1>2, <1>3 DEF WNext

\* What POSTs and rows may count on holds of the whole worker.
THEOREM LedgerInvariance == WSpec => []LInv
<1>1. LInv /\ [WNext]_wvars => LInv'
    BY LInvNext
<1> QED
    BY <1>1, LInvInit, PTL DEF WSpec

\* The ledger and its requests keep their types (the outcomes table and the
\* locals of its POST handler).
THEOREM LedgerTypesAlways == WSpec => []LedgerTypeOK
<1>1. LInv => LedgerTypeOK
    BY DEF LInv
<1> QED
    BY <1>1, LedgerInvariance, PTL

\* Every delta marked as the server's is the change of isolated points between
\* the two saved maps, by an edit of the target alone, for any number of requests
\* and maps (POST of /api/outcomes).
THEOREM ServerDeltaIsRealAlways == WSpec => []ServerDeltaIsReal
<1>1. LInv => ServerDeltaIsReal
    BY DEF LInv, RowsInv, ServerDeltaIsReal, Explained
<1> QED
    BY <1>1, LedgerInvariance, PTL

\* Whatever maps are saved, on whatever frame and with whatever radius, no two of
\* them make explainTransition throw "math ledger mismatch" or "invalid ledger".
THEOREM LedgersBalanceAlways == WSpec => []LedgersBalance
<1>1. ASSUME LInv PROVE LedgersBalance
  <2>1. \A id \in 1 .. lastId : PointsOf[saved[id]] \in PointMaps
    BY <1>1, TargetsAssumption, IdsAssumption DEF LInv, MInv, MapTypeOK, SavedInv, Ids
  <2> QED
    BY <2>1, LedgerBalances DEF LedgersBalance
<1> QED
    BY <1>1, LedgerInvariance, PTL

\* The rows a filtered GET counts are those the full table counts
\* (contingency).
THEOREM FiltersAgreeAlways == WSpec => []FiltersAgree
<1>1. ASSUME LInv PROVE FiltersAgree
  <2>1. ASSUME NEW k \in AllRows, outcomes[k].supersedes \in AllRows
        PROVE  /\ outcomes[outcomes[k].supersedes].baseline = outcomes[k].baseline
               /\ outcomes[outcomes[k].supersedes].frame = outcomes[k].frame
    BY <1>1, <2>1 DEF LInv, RowsInv, AllRows
  <2>2. ASSUME NEW sel \in SUBSET AllRows,
               \A k \in AllRows : outcomes[k].supersedes \in sel => k \in sel
        PROVE  Effective(sel) = Effective(AllRows) \cap sel
    BY <2>2 DEF Effective
  <2>3. ASSUME NEW b \in Ids
        PROVE  Effective(OfBaseline(b)) = Effective(AllRows) \cap OfBaseline(b)
    <3>1. /\ OfBaseline(b) \in SUBSET AllRows
          /\ \A k \in AllRows : outcomes[k].supersedes \in OfBaseline(b) => k \in OfBaseline(b)
      BY <2>1 DEF OfBaseline
    <3> QED
      BY <2>2, <3>1
  <2>4. ASSUME NEW f \in {FrameOf[m] : m \in Maps}
        PROVE  Effective(OfFrame(f)) = Effective(AllRows) \cap OfFrame(f)
    <3>1. /\ OfFrame(f) \in SUBSET AllRows
          /\ \A k \in AllRows : outcomes[k].supersedes \in OfFrame(f) => k \in OfFrame(f)
      BY <2>1 DEF OfFrame
    <3> QED
      BY <2>2, <3>1
  <2> QED
    BY <2>3, <2>4 DEF FiltersAgree
<1> QED
    BY <1>1, LedgerInvariance, PTL
================================================================================
