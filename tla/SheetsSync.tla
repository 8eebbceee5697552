----------------------------- MODULE SheetsSync -----------------------------
(***************************************************************************)
(* The offers sheet and the offer_overrides table it fills.                *)
(*   app/services/sheets_sync.py      sync_offers and what it calls        *)
(*   app/services/sheets_runner.py    the named MySQL lock around a sync   *)
(*   app/services/sheets_scheduler.py, app/routes/webhooks.py,             *)
(*   app/routes/admin.py, app/sync.py       who starts a sync              *)
(* Dealers and admins edit the same rows (routes/dealer.py, admin.py).     *)
(*                                                                         *)
(* A session reads from the snapshot its first query opens and writes at   *)
(* its commit.  WHEN it opens differs: an admin's session has already read *)
(* the users table (require_role) when it asks for the lock, a scheduler's *)
(* opens at its comparison and a webhook's at the inventory query, both    *)
(* after the lock is granted.                                              *)
(***************************************************************************)
EXTENDS SequencesExt

CONSTANTS Schedulers,  \* background schedulers, one in each server process
          Webhooks,    \* POST /webhooks/sheets-changed
          Admins,      \* POST /admin/sync-sheets
          Scripts,     \* the command line script: it takes no lock
          Editors,     \* dealers and super admins editing offers
          Vins,
          Terms,       \* lease terms a version of the sheet gives
          Edited,      \* lease terms an editor gives, told apart from a sheet's
          None

Procs == Schedulers \cup Webhooks \cup Admins \cup Scripts

ASSUME NoneIsNoProc == /\ None \notin Procs \cup Terms \cup {"sheet", "dealer", "broker"}
                       /\ Edited \cap Terms = {}

VARIABLES sheet,   \* what the Google sheet holds
          offers,  \* offer_overrides: VIN -> row, or Absent
          metas,   \* sheet_sources_meta: the hash in each row for this sheet, by id
          lock,    \* the process GET_LOCK was granted to, or None
          runs,    \* process -> where its sync is
          edits    \* editor -> the edit it is making

vars == <<sheet, offers, metas, lock, runs, edits>>
-----------------------------------------------------------------------------
\* A version of the sheet: the VINs its rows can match and the terms it gives
\* them; NoRows is the empty sheet.  A version stands for its own hash.
Version == [vins : SUBSET Vins, terms : Terms]
NoRows == [vins |-> {}, terms |-> None]

Source == {"sheet", "dealer", "broker"}
Row == [terms : Terms \cup Edited, source : Source]
Absent == [source |-> None]

Tables == [offers |-> offers, metas |-> metas]
NoSnapshot == [metas |-> None]
Snapshot == [offers : [Vins -> Row \cup {Absent}], metas : Seq(Version)]

Idle == [pc |-> "idle"]
RunState ==
    {Idle}
    \cup [pc : {"lock", "fetch"}, snap : Snapshot \cup {NoSnapshot}]
    \cup [pc : {"check", "release"}]
    \cup [pc : {"compare"}, hash : Version \cup {NoRows}]
    \cup [pc : {"index"}, seen : Version, snap : Snapshot \cup {NoSnapshot}]
    \cup [pc : {"commit"}, seen : Version, found : SUBSET Vins, snap : Snapshot]

\* "stranded": the row an edit or a deletion read has been deleted since.
EditState == {Idle}
             \cup [pc : {"edit"}, vin : Vins, seen : Row \cup {Absent},
                   source : Source \ {"sheet"}, terms : Edited]
             \cup [pc : {"delete"}, vin : Vins, seen : Row]
             \cup [pc : {"stranded"}]

TypeOK == /\ sheet \in Version \cup {NoRows}
          /\ offers \in [Vins -> Row \cup {Absent}]
          /\ metas \in Seq(Version)
          /\ lock \in Procs \cup {None}
          /\ runs \in [Procs -> RunState]
          /\ edits \in [Editors -> EditState]

Init == /\ sheet \in Version
        /\ offers = [v \in Vins |-> Absent]
        /\ metas = <<>>
        /\ lock = None
        /\ runs = [p \in Procs |-> Idle]
        /\ edits = [e \in Editors |-> Idle]

Goto(p, s) == runs' = [runs EXCEPT ![p] = s]

\* The end of a sync: the finally clause releases the lock, if there is one.
Finish(p) == Goto(p, IF p \in Scripts THEN Idle ELSE [pc |-> "release"])
-----------------------------------------------------------------------------
\* A sync is started; the session of an admin has its snapshot already.
Start(p) ==
    /\ runs[p] = Idle
    /\ Goto(p, [pc |-> IF p \in Scripts THEN "fetch" ELSE "lock",
                snap |-> IF p \in Admins THEN Tables ELSE NoSnapshot])
    /\ UNCHANGED <<sheet, offers, metas, lock, edits>>

\* Mutant: the answer of GET_LOCK is not looked at.
AcquireAnyway(p) ==
    /\ runs[p].pc = "lock"
    /\ lock' = IF lock = None THEN p ELSE lock
    /\ Goto(p, IF p \in Schedulers THEN [pc |-> "check"]
               ELSE [pc |-> "fetch", snap |-> runs[p].snap])
    /\ UNCHANGED <<sheet, offers, metas, edits>>

\* _run_with_lock: GET_LOCK is granted.  A scheduler syncs only if the sheet
\* has changed, the others always.
Acquire(p) ==
    /\ runs[p].pc = "lock"
    /\ lock = None
    /\ lock' = p
    /\ Goto(p, IF p \in Schedulers THEN [pc |-> "check"]
               ELSE [pc |-> "fetch", snap |-> runs[p].snap])
    /\ UNCHANGED <<sheet, offers, metas, edits>>

\* _run_with_lock: the lock is not granted in time.
GiveUp(p) ==
    /\ runs[p].pc = "lock"
    /\ lock # None
    /\ Goto(p, Idle)
    /\ UNCHANGED <<sheet, offers, metas, lock, edits>>

\* _sync_one_if_changed: the sheet is fetched for its hash.
Check(p) ==
    /\ runs[p].pc = "check"
    /\ Goto(p, [pc |-> "compare", hash |-> sheet])
    /\ UNCHANGED <<sheet, offers, metas, lock, edits>>

\* _sync_one_if_changed: the hash is compared with that of the newest meta row.
Compare(p) ==
    /\ runs[p].pc = "compare"
    /\ IF metas # <<>> /\ Last(metas) = runs[p].hash
       THEN Finish(p)
       ELSE Goto(p, [pc |-> "fetch", snap |-> Tables])
    /\ UNCHANGED <<sheet, offers, metas, lock, edits>>

\* sync_offers: the sheet is fetched (again, for a scheduler); an empty one
\* changes nothing.
Fetch(p) ==
    /\ runs[p].pc = "fetch"
    /\ IF sheet = NoRows
       THEN Finish(p)
       ELSE Goto(p, [pc |-> "index", seen |-> sheet, snap |-> runs[p].snap])
    /\ UNCHANGED <<sheet, offers, metas, lock, edits>>

\* _build_inventory_index and _match_vins_from_inventory_index: any of the
\* VINs the sheet can match may be in the inventory when it is asked.
Matches(version) == SUBSET version.vins

\* sync_offers: the inventory tells which of the sheet's VINs there are.
Index(p) ==
    /\ runs[p].pc = "index"
    /\ \E found \in Matches(runs[p].seen) :
          Goto(p, [pc |-> "commit", seen |-> runs[p].seen, found |-> found,
                   snap |-> IF runs[p].snap = NoSnapshot
                            THEN Tables ELSE runs[p].snap])
    /\ UNCHANGED <<sheet, offers, metas, lock, edits>>

\* The VINs of the snapshot's sheet rows that the sheet no longer gives.
Stale(r) == {v \in Vins \ r.found : r.snap.offers[v].source = "sheet"}

\* Mutant: a row that exists already keeps its terms.
SyncedInsertOnly(r, v) ==
    CASE v \in r.found /\ offers[v] = Absent ->
            [terms |-> r.seen.terms, source |-> "sheet"]
      [] v \in Stale(r) /\ offers[v].source = "sheet" -> Absent
      [] OTHER -> offers[v]

\* _delete_stale_sheet_offer_overrides and _bulk_upsert_offer_overrides: a
\* stale VIN loses its row if that is still a sheet row, a VIN found gets the
\* sheet's terms whatever row it had.
Synced(r, v) ==
    CASE v \in r.found -> [terms |-> r.seen.terms, source |-> "sheet"]
      [] v \in Stale(r) /\ offers[v].source = "sheet" -> Absent
      [] OTHER -> offers[v]

\* Mutant: every sync adds a meta row.
RecordedAgain(r) == Append(metas, r.seen)

\* Mutant: a new meta row is added without its hash.
RecordedNothing(r) ==
    IF r.snap.metas = <<>> THEN Append(metas, None)
    ELSE IF Head(r.snap.metas) = r.seen THEN metas
    ELSE [metas EXCEPT ![1] = r.seen]

\* _upsert_meta: the first meta row of the snapshot gets the hash (the column
\* is written only if it differs from what the snapshot shows), or one is added.
Recorded(r) ==
    IF r.snap.metas = <<>> THEN Append(metas, r.seen)
    ELSE IF Head(r.snap.metas) = r.seen THEN metas
    ELSE [metas EXCEPT ![1] = r.seen]

\* The edits in progress once the rows of vs are deleted: a row that comes back
\* for the same VIN has another id.
EditsLosing(vs) ==
    [e \in Editors |->
        IF edits[e].pc \in {"edit", "delete"} /\ edits[e].vin \in vs
           /\ edits[e].seen # Absent
        THEN [pc |-> "stranded"] ELSE edits[e]]

\* sync_offers: delete, upsert, record the hash, commit.
Commit(p) ==
    /\ runs[p].pc = "commit"
    /\ offers' = [v \in Vins |-> Synced(runs[p], v)]
    /\ metas' = Recorded(runs[p])
    /\ edits' = EditsLosing({v \in Vins : offers'[v] = Absent})
    /\ Finish(p)
    /\ UNCHANGED <<sheet, lock>>

\* Mutant: an error leaves the lock held.
FailHoldingLock(p) ==
    /\ runs[p].pc \in {"check", "compare", "fetch", "index", "commit"}
    /\ Goto(p, Idle)
    /\ UNCHANGED <<sheet, offers, metas, lock, edits>>

\* Google or the database fails: the session is rolled back.
Fail(p) ==
    /\ runs[p].pc \in {"check", "compare", "fetch", "index", "commit"}
    /\ Finish(p)
    /\ UNCHANGED <<sheet, offers, metas, lock, edits>>

\* _run_with_lock: RELEASE_LOCK.
Release(p) ==
    /\ runs[p].pc = "release"
    /\ lock' = None
    /\ Goto(p, Idle)
    /\ UNCHANGED <<sheet, offers, metas, edits>>

\* The process dies; MySQL frees the lock with its connection.
Crash(p) ==
    /\ runs[p] # Idle
    /\ lock' = IF lock = p THEN None ELSE lock
    /\ Goto(p, Idle)
    /\ UNCHANGED <<sheet, offers, metas, edits>>
-----------------------------------------------------------------------------
\* Someone edits the Google sheet.
ChangeSheet ==
    /\ sheet' \in Version \cup {NoRows}
    /\ UNCHANGED <<offers, metas, lock, runs, edits>>

\* update_offer, update_offer_by_ymm (dealers), upsert_offer_override,
\* upsert_offer_override_by_ymm (brokers), upsert_manual_vehicle: the row is
\* read.
BeginEdit(e, v, src, terms) ==
    /\ edits[e] = Idle
    /\ edits' = [edits EXCEPT ![e] = [pc |-> "edit", vin |-> v, seen |-> offers[v],
                                      source |-> src, terms |-> terms]]
    /\ UNCHANGED <<sheet, offers, metas, lock, runs>>

\* The columns an edit writes: those that differ from the row it read.
EditedRow(r, row) ==
    [terms |-> IF r.seen.terms = r.terms THEN row.terms ELSE r.terms,
     source |-> IF r.seen.source = r.source THEN row.source ELSE r.source]

\* The edit commits: an INSERT if it read no row (the VIN is unique), an
\* UPDATE of the row it read if that row still exists.
CommitEdit(e) ==
    LET r == edits[e] IN
    /\ r.pc = "edit"
    /\ r.seen = Absent => offers[r.vin] = Absent
    /\ offers' = [offers EXCEPT ![r.vin] =
           IF r.seen = Absent THEN [terms |-> r.terms, source |-> r.source]
           ELSE EditedRow(r, @)]
    /\ edits' = [edits EXCEPT ![e] = Idle]
    /\ UNCHANGED <<sheet, metas, lock, runs>>

\* delete_offer_override: the row is read, whoever gave its terms.
BeginDelete(e, v) ==
    /\ edits[e] = Idle
    /\ offers[v] # Absent
    /\ edits' = [edits EXCEPT ![e] = [pc |-> "delete", vin |-> v,
                                      seen |-> offers[v]]]
    /\ UNCHANGED <<sheet, offers, metas, lock, runs>>

CommitDelete(e) ==
    LET v == edits[e].vin IN
    /\ edits[e].pc = "delete"
    /\ offers' = [offers EXCEPT ![v] = Absent]
    /\ edits' = [EditsLosing({v}) EXCEPT ![e] = Idle]
    /\ UNCHANGED <<sheet, metas, lock, runs>>

\* The edit fails: a duplicate VIN, a deleted row (a deletion just deletes
\* nothing then), a lost connection.
FailEdit(e) ==
    /\ edits[e] # Idle
    /\ edits' = [edits EXCEPT ![e] = Idle]
    /\ UNCHANGED <<sheet, offers, metas, lock, runs>>
-----------------------------------------------------------------------------
\* The steps of a sync that holds the lock; none of them waits for another.
Work(p) == \/ Check(p) \/ Compare(p) \/ Fetch(p) \/ Index(p)
           \/ Commit(p) \/ Fail(p) \/ Release(p)

Next ==
    \/ \E p \in Procs : \/ Start(p) \/ Acquire(p) \/ GiveUp(p)
                        \/ Work(p) \/ Crash(p)
    \/ ChangeSheet
    \/ \E e \in Editors :
          \/ \E v \in Vins, src \in Source \ {"sheet"}, terms \in Edited :
                BeginEdit(e, v, src, terms)
          \/ \E v \in Vins : BeginDelete(e, v)
          \/ CommitEdit(e)
          \/ CommitDelete(e)
          \/ FailEdit(e)

Spec == Init /\ [][Next]_vars

FairSpec == Spec /\ \A p \in Procs : WF_vars(Work(p))
-----------------------------------------------------------------------------
\* A row of the sheet never outlives its VIN on the sheet: what the table
\* shows as a sheet offer is on the version of the sheet whose hash the
\* schedulers compare with (_delete_stale_sheet_offer_overrides is there to
\* remove the others; while the hash is the sheet's, nobody else will).
RetiredRowsGone ==
    \A v \in Vins : offers[v].source = "sheet" =>
        metas # <<>> /\ v \in Last(metas).vins

\* A sheet row has the terms of that same version, or those of an edit that
\* had read the row as its own before the sync took it over: a scheduler that
\* skips a sync because the hash is unchanged leaves no outdated terms.
TermsFollowSheet ==
    \A v \in Vins : offers[v].source = "sheet" =>
        metas # <<>> /\ offers[v].terms \in {Last(metas).terms} \cup Edited

\* Two syncs never both add the meta row of a sheet (the table has no unique
\* key): the row a scheduler compares with is the row a sync updates.
OneMetaRow == Len(metas) <= 1

\* However a sync ends, its lock is freed.
LockReleased == \A p \in Procs : lock = p ~> lock # p
=============================================================================
