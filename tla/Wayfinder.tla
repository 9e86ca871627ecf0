------------------------------ MODULE Wayfinder ------------------------------
(***************************************************************************)
(* The outcomes ledger of the wayfinder (POST and GET of /api/outcomes,    *)
(* tools/point-map/lib/outcomes-route.mjs) over the stored maps of         *)
(* MapStore.  A row joins a prediction about a baseline map to what was    *)
(* observed on an after map and to a verdict; it is never changed, only    *)
(* superseded by a later row.                                              *)
(*                                                                         *)
(* A POST loads the baseline, then the after map, then the row it          *)
(* supersedes, and inserts.  Maps are saved and deleted meanwhile.  The    *)
(* fields of its body are chosen where the handler first uses them.        *)
(***************************************************************************)
EXTENDS MapStore, Sequences, Transition

CONSTANTS Posters,     \* POSTs served at the same time
          Targets,     \* what a POST may be about: [action, name]
          PointsOf,    \* the points of each map, by name
          FrameOf,     \* its frozen frame
          NoName,
          MaxRows      \* bound: rows of the ledger

ASSUME TargetsAssumption ==
    /\ Targets \subseteq [action : {"add", "change"}, name : Names]
    /\ PointsOf \in [Maps -> PointMaps]
ASSUME RowsAssumption == MaxRows \in Nat

VARIABLES
    outcomes,  \* D1: the ledger, by id
    post       \* where each POST is

wvars == <<rows, lastId, kv, older, req, saved, fate, outcomes, post>>

NoTarget == [action |-> "none", name |-> NoName]
Verdicts == {"pending", "settled"}   \* the five final verdicts are not told apart
Sources  == {"server", "caller"}     \* "caller" also when nothing was observed

Entry == [baseline : Ids, after : Ids \union {0}, target : Targets,
          frame : {FrameOf[m] : m \in Maps}, source : Sources, observed : Int,
          verdict : Verdicts, supersedes : 0 .. MaxRows]

Request(pc, baseline, target, m) ==
    [pc |-> pc, baseline |-> baseline, after |-> 0, target |-> target, bmap |-> m,
     delta |-> 0]
Quiet == Request("idle", 0, NoTarget, NoMap)

\* The ledger and the requests keep their types, and rows supersede older rows.
LedgerTypeOK ==
    /\ MapTypeOK
    /\ outcomes \in Seq(Entry) /\ Len(outcomes) <= MaxRows
    /\ \A n \in 1 .. Len(outcomes) : outcomes[n].supersedes < n
    /\ post \in [Posters -> [pc : {"idle", "basebody", "after", "afterbody", "prev"},
                             baseline : Ids \union {0}, after : Ids \union {0},
                             target : Targets \union {NoTarget},
                             bmap : Maps \union {NoMap}, delta : Int]]

WInit ==
    /\ MapInit
    /\ outcomes = <<>>
    /\ post = [p \in Posters |-> Quiet]

Stop(p) == post' = [post EXCEPT ![p] = Quiet]

\* CHANGE needs a name of the baseline, ADD a new one.
Fits(target, m) == (target.action = "change") <=> (target.name \in DOMAIN PointsOf[m])

\* The baseline, a map in hand: 409 when the target does not fit it.
TakeBase(p, id, target, m) ==
    IF Fits(target, m)
      THEN post' = [post EXCEPT ![p] = Request("after", id, target, m)]
      ELSE Stop(p)

\* loadStoredMap(baseline_id), the row; without one, or with a pending one, the
\* POST is answered and leaves nothing.
SelectBase(p) ==
    /\ post[p].pc = "idle"
    /\ \E id \in Ids, target \in Targets :
         \/ /\ rows[id].kind = "inline"
            /\ TakeBase(p, id, target, rows[id].map)
         \/ /\ rows[id].kind = "pointer"
            /\ post' = [post EXCEPT ![p] = Request("basebody", id, target, NoMap)]
    /\ UNCHANGED <<mapvars, outcomes>>

FetchBase(p) ==
    /\ post[p].pc = "basebody"
    /\ \E m \in Served(post[p].baseline) :
         IF m = NoMap THEN Stop(p)
                      ELSE TakeBase(p, post[p].baseline, post[p].target, m)
    /\ UNCHANGED <<mapvars, outcomes>>

\* Slip: the name that moved is not compared with the target's.
SlipExplained(target, b, a) ==
    /\ FrameOf[b] = FrameOf[a]
    /\ Applicable(PointsOf[b], PointsOf[a]) /\ Balances(PointsOf[b], PointsOf[a])

\* PM.explainTransition does not throw and is applicable, and what was added or
\* moved, if anything, is the target.
Explained(target, b, a) ==
    /\ FrameOf[b] = FrameOf[a]
    /\ Applicable(PointsOf[b], PointsOf[a]) /\ Balances(PointsOf[b], PointsOf[a])
    /\ Edited(PointsOf[b], PointsOf[a]) \subseteq {target.name}

Observed(b, a) == ActualDelta(PointsOf[b], PointsOf[a])

TakeAfter(p, id, m) ==
    IF Explained(post[p].target, post[p].bmap, m)
      THEN post' = [post EXCEPT ![p] =
                      [@ EXCEPT !.pc = "prev", !.after = id,
                                !.delta = Observed(post[p].bmap, m)]]
      ELSE Stop(p)

\* A body without after_id is taken at the caller's word, whatever the number.
NoAfter(p) ==
    /\ post[p].pc = "after"
    /\ post' = [post EXCEPT ![p].pc = "prev"]
    /\ UNCHANGED <<mapvars, outcomes>>

SelectAfter(p) ==
    /\ post[p].pc = "after"
    /\ \E id \in Ids :
         CASE rows[id].kind = "inline"  -> TakeAfter(p, id, rows[id].map)
           [] rows[id].kind = "pointer" ->
                post' = [post EXCEPT ![p] = [@ EXCEPT !.pc = "afterbody", !.after = id]]
           [] OTHER -> Stop(p)
    /\ UNCHANGED <<mapvars, outcomes>>

FetchAfter(p) ==
    /\ post[p].pc = "afterbody"
    /\ \E m \in Served(post[p].after) :
         IF m = NoMap THEN Stop(p) ELSE TakeAfter(p, post[p].after, m)
    /\ UNCHANGED <<mapvars, outcomes>>

\* Slip: a row may supersede one about another baseline.
SlipMaySupersede(p, prev) == prev.target = post[p].target

MaySupersede(p, prev) ==
    /\ prev.baseline = post[p].baseline
    /\ prev.target = post[p].target

\* INSERT INTO outcomes; rows are never changed, so the check of the row it
\* supersedes still holds.
InsertOutcome(p) ==
    /\ post[p].pc = "prev"
    /\ Len(outcomes) < MaxRows
    /\ \E verdict \in Verdicts, prev \in 0 .. Len(outcomes) :
         /\ prev # 0 => MaySupersede(p, outcomes[prev])
         /\ outcomes' = Append(outcomes,
              [baseline |-> post[p].baseline, after |-> post[p].after,
               target |-> post[p].target, frame |-> FrameOf[post[p].bmap],
               source |-> IF post[p].after = 0 THEN "caller" ELSE "server",
               observed |-> post[p].delta,
               verdict |-> verdict, supersedes |-> prev])
    /\ Stop(p)
    /\ UNCHANGED mapvars

\* A POST ends where it is; one whose row is in may not hear of it.
EndPost(p) ==
    /\ post[p].pc # "idle"
    /\ Stop(p)
    /\ UNCHANGED <<mapvars, outcomes>>

Post(p) == \/ SelectBase(p) \/ FetchBase(p)
           \/ NoAfter(p) \/ SelectAfter(p) \/ FetchAfter(p)
           \/ InsertOutcome(p) \/ EndPost(p)

WNext == \/ MapNext /\ UNCHANGED <<outcomes, post>>
         \/ \E p \in Posters : Post(p)

WSpec == WInit /\ [][WNext]_wvars

-----------------------------------------------------------------------------
\* A delta marked as the server's is the change in isolated points between the
\* maps its two ids stand for, of an edit of the target and nothing else, although
\* the maps were loaded one after the other while both stores changed ("The
\* observed geometric delta is recomputed by the server from two stored maps").
ServerDeltaIsReal ==
    \A n \in 1 .. Len(outcomes) :
        LET e == outcomes[n]
            b == saved[e.baseline]
            a == saved[e.after]
        IN  e.source = "server" =>
                /\ FrameOf[b] = FrameOf[a] /\ e.observed = Observed(b, a)
                /\ Applicable(PointsOf[b], PointsOf[a])
                /\ Edited(PointsOf[b], PointsOf[a]) \subseteq {e.target.name}

\* No two saved maps on a frame make explainTransition throw "math ledger
\* mismatch" or "invalid ledger": its delta from the degrees and edges before an
\* edit is the one counted from the points after it.
LedgersBalance ==
    \A i, j \in 1 .. lastId :
        LET b == PointsOf[saved[i]]
            a == PointsOf[saved[j]]
        IN  FrameOf[saved[i]] = FrameOf[saved[j]] /\ Applicable(b, a) => Balances(b, a)

\* The rows a contingency table counts: settled, and superseded by no row of
\* the same selection.
Effective(sel) == {n \in sel : /\ outcomes[n].verdict # "pending"
                               /\ \A k \in sel : outcomes[k].supersedes # n}

\* The rows a GET selects, all of them or those of one baseline or frame.
AllRows      == 1 .. Len(outcomes)
OfBaseline(b) == {n \in AllRows : outcomes[n].baseline = b}
OfFrame(f)    == {n \in AllRows : outcomes[n].frame = f}

\* contingency() only sees the rows the GET selected.  A filtered table still
\* counts a row exactly when the full table does: what supersedes a row is
\* always in its selection, also when the baseline was saved, deleted and
\* loaded again between the two POSTs.
FiltersAgree ==
    /\ \A b \in Ids : Effective(OfBaseline(b)) = Effective(AllRows) \cap OfBaseline(b)
    /\ \A f \in {FrameOf[m] : m \in Maps} :
         Effective(OfFrame(f)) = Effective(AllRows) \cap OfFrame(f)
=============================================================================
