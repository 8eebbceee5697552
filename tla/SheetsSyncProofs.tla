-------------------------- MODULE SheetsSyncProofs --------------------------
(***************************************************************************)
(* What SheetsSync guarantees for any number of syncs, editors, VINs and   *)
(* versions of the sheet.                                                  *)
(*                                                                         *)
(* Whoever syncs, the types hold, and an edit in progress has its row.     *)
(* That the table follows the sheet needs every session to open its        *)
(* snapshot under the lock: then whoever is past the lock holds it, what   *)
(* it has read of the sheet rows is current, though edits may have taken   *)
(* some over, and its commit leaves the sheet it has seen.                 *)
(***************************************************************************)
EXTENDS SheetsSync, SequenceTheorems, TLAPS

\* Every sync asks for the lock, and its session reads nothing before it has it.
SyncsLockFirst == Admins = {} /\ Scripts = {}

\* An edit or a deletion in progress that has read a row has it still.
EditsHaveRows == \A e \in Editors :
    (edits[e].pc \in {"edit", "delete"} /\ edits[e].seen # Absent)
        => offers[edits[e].vin] # Absent

\* What holds of the tables whoever syncs.
TInv == TypeOK /\ EditsHaveRows

\* Where a sync is past the lock.
PastLock == {"check", "compare", "fetch", "index", "commit", "release"}

\* A sync that is past the lock holds it, so no two are past it at once.
SyncsHoldLock == \A p \in Procs : runs[p].pc \in PastLock => lock = p

\* A snapshot shows the meta rows as they are, and every sheet row there is.
Current(snap) == /\ snap.metas = metas
                 /\ \A v \in Vins : offers[v].source = "sheet"
                                       => snap.offers[v].source = "sheet"

\* What a sync has read is current, and before the lock it has read nothing.
SnapshotsCurrent == \A p \in Procs :
    /\ runs[p].pc = "lock" => runs[p].snap = NoSnapshot
    /\ runs[p].pc \in {"fetch", "index", "commit"} =>
          runs[p].snap = NoSnapshot \/ Current(runs[p].snap)

\* What a sync has found is on the sheet it has seen.
FoundOnSheet == \A p \in Procs :
    runs[p].pc = "commit" => runs[p].found \subseteq runs[p].seen.vins

\* The inductive invariant of syncs that lock first.
IInv == /\ TInv
        /\ SyncsHoldLock /\ SnapshotsCurrent /\ FoundOnSheet
        /\ OneMetaRow /\ RetiredRowsGone /\ TermsFollowSheet
-----------------------------------------------------------------------------
\* A row is there, and its source is a source.
LEMMA RowsArePresent ==
    /\ Absent.source = None /\ None \notin Source /\ Absent \notin Row
    /\ \A r \in Row : r.source \in Source /\ r.terms \in Terms \cup Edited
  BY NoneIsNoProc DEF Absent, Row, Source

\* What a state of a sync carries.
LEMMA RunParts ==
    ASSUME NEW r \in RunState
    PROVE  /\ r.pc \in {"idle", "lock", "fetch", "compare", "index", "commit", "check", "release"}
           /\ r.pc \in {"lock", "fetch", "index"} => r.snap \in Snapshot \cup {NoSnapshot}
           /\ r.pc \in {"index", "commit"} => r.seen \in Version
           /\ r.pc = "compare" => r.hash \in Version \cup {NoRows}
           /\ r.pc = "commit" => r.snap \in Snapshot /\ r.found \in SUBSET Vins
           /\ r.pc = "idle" => r = Idle
<1>1. CASE r = Idle
  BY <1>1 DEF Idle
<1>2. CASE r \in [pc : {"lock", "fetch"}, snap : Snapshot \cup {NoSnapshot}]
  BY <1>2
<1>3. CASE r \in [pc : {"check", "release"}]
  BY <1>3
<1>4. CASE r \in [pc : {"compare"}, hash : Version \cup {NoRows}]
  BY <1>4
<1>5. CASE r \in [pc : {"index"}, seen : Version, snap : Snapshot \cup {NoSnapshot}]
  BY <1>5
<1>6. CASE r \in [pc : {"commit"}, seen : Version, found : SUBSET Vins, snap : Snapshot]
  BY <1>6
<1> QED BY <1>1, <1>2, <1>3, <1>4, <1>5, <1>6 DEF RunState

\* The states of a sync that the steps make.
LEMMA RunsMade ==
    /\ Idle \in RunState /\ Idle.pc = "idle"
    /\ \A pc \in {"check", "release"} : [pc |-> pc] \in RunState
    /\ \A pc \in {"lock", "fetch"}, snap \in Snapshot \cup {NoSnapshot} :
          [pc |-> pc, snap |-> snap] \in RunState
    /\ \A hash \in Version \cup {NoRows} : [pc |-> "compare", hash |-> hash] \in RunState
    /\ \A seen \in Version, snap \in Snapshot \cup {NoSnapshot} :
          [pc |-> "index", seen |-> seen, snap |-> snap] \in RunState
    /\ \A seen \in Version, found \in SUBSET Vins, snap \in Snapshot :
          [pc |-> "commit", seen |-> seen, found |-> found, snap |-> snap] \in RunState
  BY DEF RunState, Idle

\* What a state of an edit carries.
LEMMA EditParts ==
    ASSUME NEW r \in EditState
    PROVE  /\ r.pc \in {"edit", "delete"} => r.vin \in Vins /\ r.seen \in Row \cup {Absent}
           /\ r.pc = "edit" => r.source \in {"dealer", "broker"} /\ r.terms \in Edited
<1>1. CASE r = Idle \/ r \in [pc : {"stranded"}]
  BY <1>1 DEF Idle
<1>2. CASE r \in [pc : {"edit"}, vin : Vins, seen : Row \cup {Absent},
                  source : Source \ {"sheet"}, terms : Edited]
  BY <1>2 DEF Source
<1>3. CASE r \in [pc : {"delete"}, vin : Vins, seen : Row]
  BY <1>3
<1> QED BY <1>1, <1>2, <1>3 DEF EditState

\* The states of an edit that the steps make.
LEMMA EditsMade ==
    /\ Idle \in EditState /\ Idle.pc = "idle"
    /\ [pc |-> "stranded"] \in EditState
    /\ \A v \in Vins, seen \in Row \cup {Absent}, src \in Source \ {"sheet"}, terms \in Edited :
          [pc |-> "edit", vin |-> v, seen |-> seen, source |-> src, terms |-> terms]
              \in EditState
    /\ \A v \in Vins, seen \in Row :
          [pc |-> "delete", vin |-> v, seen |-> seen] \in EditState
  BY DEF EditState, Idle

\* The tables make a snapshot.
LEMMA TablesSnapshot ==
    ASSUME TypeOK
    PROVE  Tables \in Snapshot /\ Tables.metas = metas /\ Tables.offers = offers
  BY DEF TypeOK, Tables, Snapshot

\* A snapshot is not the lack of one.
LEMMA SnapshotIsThere == NoSnapshot \notin Snapshot
  BY DEF NoSnapshot, Snapshot
-----------------------------------------------------------------------------
\* A sync goes on without touching the tables: the types are kept.
LEMMA RunTyped ==
    ASSUME TInv, NEW p \in Procs, NEW s \in RunState, Goto(p, s),
           lock' \in Procs \cup {None}, UNCHANGED <<sheet, offers, metas, edits>>
    PROVE  TInv'
  BY DEF TInv, TypeOK, EditsHaveRows, Goto

\* And so is the rest, if the lock is held by who is past it and what was read
\* is current.
LEMMA RunKeeps ==
    ASSUME IInv, NEW p \in Procs, NEW s \in RunState, Goto(p, s),
           lock' \in Procs \cup {None}, UNCHANGED <<sheet, offers, metas, edits>>,
           lock' = lock \/ lock \in {p, None},
           s.pc \in PastLock => lock' = p,
           s.pc = "lock" => s.snap = NoSnapshot,
           s.pc \in {"fetch", "index", "commit"} => s.snap = NoSnapshot \/ Current(s.snap),
           s.pc = "commit" => s.found \subseteq s.seen.vins
    PROVE  IInv'
<1> USE DEF IInv
<1>1. runs' = [runs EXCEPT ![p] = s] /\ runs \in [Procs -> RunState]
  BY DEF Goto, TInv, TypeOK
<1>2. runs'[p] = s /\ \A q \in Procs \ {p} : runs'[q] = runs[q]
  BY <1>1
<1>3. SyncsHoldLock'
  <2> SUFFICES ASSUME NEW q \in Procs, runs'[q].pc \in PastLock PROVE lock' = q
    BY DEF SyncsHoldLock, PastLock
  <2>1. CASE q = p
    BY <1>2, <2>1
  <2>2. CASE q # p
    BY <1>2, <2>2, NoneIsNoProc DEF SyncsHoldLock
  <2> QED BY <2>1, <2>2
<1>4. SnapshotsCurrent'
  <2> SUFFICES ASSUME NEW q \in Procs
               PROVE  (/\ runs[q].pc = "lock" => runs[q].snap = NoSnapshot
                       /\ runs[q].pc \in {"fetch", "index", "commit"} =>
                             runs[q].snap = NoSnapshot \/ Current(runs[q].snap))'
    BY DEF SnapshotsCurrent
  <2>1. PICK r : r = runs'[q]
    OBVIOUS
  <2>2. /\ r.pc = "lock" => r.snap = NoSnapshot
        /\ r.pc \in {"fetch", "index", "commit"} => r.snap = NoSnapshot \/ Current(r.snap)
    BY <1>2, <2>1 DEF SnapshotsCurrent
  <2>3. PICK snap : snap = r.snap
    OBVIOUS
  <2>4. Current(snap) => Current(snap)'
    BY DEF Current
  <2> QED BY <2>1, <2>2, <2>3, <2>4 DEF Current
<1>5. FoundOnSheet'
  BY <1>2 DEF FoundOnSheet
<1>6. (OneMetaRow /\ RetiredRowsGone /\ TermsFollowSheet)'
  BY DEF OneMetaRow, RetiredRowsGone, TermsFollowSheet
<1> QED BY <1>3, <1>4, <1>5, <1>6, RunTyped

\* A state of a sync, of one of its places.
LEMMA RunAt ==
    ASSUME TypeOK, NEW p \in Procs
    PROVE  runs[p] \in RunState
  BY DEF TypeOK

\* A sync that ends goes on to release the lock, or is over.
LEMMA FinishMade ==
    ASSUME NEW p \in Procs, Finish(p)
    PROVE  \E s \in RunState : /\ Goto(p, s) /\ s.pc \in {"idle", "release"}
                               /\ p \notin Scripts => s.pc = "release"
<1>1. PICK s : s = IF p \in Scripts THEN Idle ELSE [pc |-> "release"]
  OBVIOUS
<1>2. s \in RunState /\ s.pc \in {"idle", "release"} /\ (p \notin Scripts => s.pc = "release")
  BY <1>1, RunsMade
<1> QED BY <1>1, <1>2 DEF Finish

\* The steps that leave the tables alone make these states.
LEMMA QuietSteps ==
    ASSUME TypeOK, NEW p \in Procs,
           \/ Start(p) \/ Acquire(p) \/ GiveUp(p) \/ Check(p) \/ Compare(p)
           \/ Fetch(p) \/ Index(p) \/ Fail(p) \/ Release(p) \/ Crash(p)
    PROVE  /\ UNCHANGED <<sheet, offers, metas, edits>>
           /\ lock' \in Procs \cup {None}
           /\ \E s \in RunState : Goto(p, s)
<1>1. Tables \in Snapshot /\ sheet \in Version \cup {NoRows} /\ lock \in Procs \cup {None}
  BY TablesSnapshot DEF TypeOK
<1>2. runs[p] \in RunState
  BY RunAt
<1>3. CASE Start(p)
  <2>1. PICK s : s = [pc |-> IF p \in Scripts THEN "fetch" ELSE "lock",
                      snap |-> IF p \in Admins THEN Tables ELSE NoSnapshot]
    OBVIOUS
  <2>2. s \in RunState
    BY <1>1, <2>1, RunsMade
  <2> QED BY <1>1, <1>3, <2>1, <2>2 DEF Start
<1>4. CASE Acquire(p)
  <2>1. PICK s : s = IF p \in Schedulers THEN [pc |-> "check"]
                     ELSE [pc |-> "fetch", snap |-> runs[p].snap]
    OBVIOUS
  <2>2. runs[p].snap \in Snapshot \cup {NoSnapshot}
    BY <1>2, <1>4, RunParts DEF Acquire
  <2>3. s \in RunState
    BY <2>1, <2>2, RunsMade
  <2> QED BY <1>4, <2>1, <2>3 DEF Acquire
<1>5. CASE GiveUp(p)
  BY <1>1, <1>5, RunsMade DEF GiveUp
<1>6. CASE Check(p)
  BY <1>1, <1>6, RunsMade DEF Check
<1>7. CASE Compare(p)
  BY <1>1, <1>7, RunsMade, FinishMade DEF Compare
<1>8. CASE Fetch(p)
  <2>1. runs[p].snap \in Snapshot \cup {NoSnapshot}
    BY <1>2, <1>8, RunParts DEF Fetch
  <2> QED BY <1>1, <1>8, <2>1, RunsMade, FinishMade DEF Fetch
<1>9. CASE Index(p)
  <2>1. runs[p].snap \in Snapshot \cup {NoSnapshot} /\ runs[p].seen \in Version
    BY <1>2, <1>9, RunParts DEF Index
  <2>2. PICK snap : snap = IF runs[p].snap = NoSnapshot THEN Tables ELSE runs[p].snap
    OBVIOUS
  <2>3. snap \in Snapshot
    BY <1>1, <2>1, <2>2
  <2>4. PICK found \in Matches(runs[p].seen) :
            Goto(p, [pc |-> "commit", seen |-> runs[p].seen, found |-> found, snap |-> snap])
    BY <1>9, <2>2 DEF Index
  <2>5. found \in SUBSET Vins
    BY <2>1 DEF Matches, Version
  <2> QED BY <1>1, <1>9, <2>1, <2>3, <2>4, <2>5, RunsMade DEF Index
<1>10. CASE Fail(p)
  BY <1>1, <1>10, FinishMade DEF Fail
<1>11. CASE Release(p)
  BY <1>1, <1>11, RunsMade DEF Release
<1>12. CASE Crash(p)
  BY <1>1, <1>12, RunsMade DEF Crash
<1> QED BY <1>3, <1>4, <1>5, <1>6, <1>7, <1>8, <1>9, <1>10, <1>11, <1>12
-----------------------------------------------------------------------------
\* What a sync leaves in the row of a VIN.
LEMMA SyncedRow ==
    ASSUME TypeOK, NEW r \in RunState, r.pc = "commit", NEW v \in Vins
    PROVE  /\ Synced(r, v) \in Row \cup {Absent}
           /\ v \in r.found => /\ Synced(r, v) # Absent
                               /\ Synced(r, v).source = "sheet"
                               /\ Synced(r, v).terms = r.seen.terms
           /\ v \notin r.found =>
                 IF r.snap.offers[v].source = "sheet" /\ offers[v].source = "sheet"
                 THEN Synced(r, v) = Absent ELSE Synced(r, v) = offers[v]
<1>1. r.seen \in Version /\ r.seen.terms \in Terms /\ offers[v] \in Row \cup {Absent}
  BY RunParts DEF Version, TypeOK
<1>2. CASE v \in r.found
  <2>1. Synced(r, v) = [terms |-> r.seen.terms, source |-> "sheet"]
    BY <1>2 DEF Synced, Stale
  <2>2. Synced(r, v) \in Row
    BY <1>1, <2>1 DEF Row, Source
  <2> QED BY <1>2, <2>1, <2>2, RowsArePresent
<1>3. CASE v \notin r.found /\ r.snap.offers[v].source = "sheet" /\ offers[v].source = "sheet"
  BY <1>3 DEF Synced, Stale
<1>4. CASE v \notin r.found /\ ~(r.snap.offers[v].source = "sheet" /\ offers[v].source = "sheet")
  BY <1>1, <1>4 DEF Synced, Stale
<1> QED BY <1>2, <1>3, <1>4

\* When rows are deleted, an edit that goes on had read none of them.
LEMMA EditsLeft ==
    ASSUME TypeOK, NEW vs, NEW e \in Editors
    PROVE  /\ EditsLosing(vs)[e] \in EditState
           /\ EditsLosing(vs)[e].pc \in {"edit", "delete"} =>
                 /\ EditsLosing(vs)[e] = edits[e]
                 /\ edits[e].vin \in vs => edits[e].seen = Absent
<1>1. edits[e] \in EditState
  BY DEF TypeOK
<1>2. CASE edits[e].pc \in {"edit", "delete"} /\ edits[e].vin \in vs /\ edits[e].seen # Absent
  <2>1. EditsLosing(vs)[e] = [pc |-> "stranded"]
    BY <1>2 DEF EditsLosing
  <2> QED BY <2>1, EditsMade
<1>3. CASE ~(edits[e].pc \in {"edit", "delete"} /\ edits[e].vin \in vs /\ edits[e].seen # Absent)
  <2>1. EditsLosing(vs)[e] = edits[e]
    BY <1>3 DEF EditsLosing
  <2> QED BY <1>1, <1>3, <2>1
<1> QED BY <1>2, <1>3

\* A sync commits: what it leaves has the types, and edits keep their rows.
LEMMA CommitTyped ==
    ASSUME TInv, NEW p \in Procs, Commit(p)
    PROVE  TInv'
<1> USE DEF TInv
<1>1. PICK r \in RunState : r = runs[p]
  BY RunAt
<1>2. r.pc = "commit" /\ r.seen \in Version /\ r.snap.metas \in Seq(Version)
  <2>1. r.pc = "commit"
    BY <1>1 DEF Commit
  <2> QED BY <2>1, RunParts DEF Snapshot
<1>3. offers' = [v \in Vins |-> Synced(r, v)]
  BY <1>1 DEF Commit
<1>4. offers' \in [Vins -> Row \cup {Absent}]
  BY <1>2, <1>3, SyncedRow
<1>5. metas' \in Seq(Version)
  <2>1. metas' = Recorded(r)
    BY <1>1 DEF Commit
  <2>2. PICK x \in Version : x = r.seen
    BY <1>2
  <2>3. metas \in Seq(Version)
    BY DEF TypeOK
  <2>4. Append(metas, x) \in Seq(Version)
    BY <2>3
  <2>5. [metas EXCEPT ![1] = x] \in Seq(Version)
    <3>1. PICK n \in Nat : metas \in [1 .. n -> Version]
      BY <2>3
    <3>2. [metas EXCEPT ![1] = x] \in [1 .. n -> Version]
      BY <3>1
    <3> QED BY <3>2, SeqDef
  <2> QED BY <2>1, <2>2, <2>3, <2>4, <2>5 DEF Recorded
<1>6. PICK vs : vs = {v \in Vins : offers'[v] = Absent}
  OBVIOUS
<1>7. edits' = EditsLosing(vs)
  BY <1>6 DEF Commit
<1>8. edits' \in [Editors -> EditState]
  <2>1. edits' = [e \in Editors |-> edits'[e]]
    BY <1>7 DEF EditsLosing
  <2> QED BY <1>7, <2>1, EditsLeft
<1>9. EditsHaveRows'
  <2> SUFFICES ASSUME NEW e \in Editors, edits'[e].pc \in {"edit", "delete"},
                      edits'[e].seen # Absent
               PROVE  offers'[edits'[e].vin] # Absent
    BY DEF EditsHaveRows, Absent
  <2>1. /\ edits'[e] = edits[e] /\ edits'[e] \in EditState
        /\ edits[e].vin \in vs => edits[e].seen = Absent
    BY <1>7, EditsLeft
  <2>2. edits'[e].vin \in Vins /\ edits'[e].vin \notin vs
    BY <2>1, EditParts
  <2> QED BY <1>6, <2>2
<1>10. PICK s \in RunState : Goto(p, s)
  BY FinishMade DEF Commit
<1>11. TypeOK'
  BY <1>4, <1>5, <1>8, <1>10 DEF TypeOK, Goto, Commit
<1> QED BY <1>9, <1>11

\* Somebody edits the sheet.
LEMMA ChangeTyped ==
    ASSUME TInv, ChangeSheet
    PROVE  TInv'
  BY DEF TInv, TypeOK, EditsHaveRows, ChangeSheet

\* An editor reads a row, or begins to delete one.
LEMMA BeginTyped ==
    ASSUME TInv, NEW e \in Editors, NEW v \in Vins,
           \/ BeginDelete(e, v)
           \/ \E src \in Source \ {"sheet"}, terms \in Edited : BeginEdit(e, v, src, terms)
    PROVE  TInv'
<1> USE DEF TInv
<1>1. offers[v] \in Row \cup {Absent} /\ edits \in [Editors -> EditState]
  BY DEF TypeOK
<1>2. PICK s \in EditState :
          edits' = [edits EXCEPT ![e] = s] /\ s.vin = v /\ s.seen = offers[v]
  <2>1. CASE BeginDelete(e, v)
    <3>1. PICK s : s = [pc |-> "delete", vin |-> v, seen |-> offers[v]]
      OBVIOUS
    <3>2. offers[v] \in Row
      BY <1>1, <2>1 DEF BeginDelete
    <3> QED BY <2>1, <3>1, <3>2, EditsMade DEF BeginDelete
  <2>2. ASSUME NEW src \in Source \ {"sheet"}, NEW terms \in Edited,
               BeginEdit(e, v, src, terms)
        PROVE  \E s \in EditState :
                  edits' = [edits EXCEPT ![e] = s] /\ s.vin = v /\ s.seen = offers[v]
    <3>1. PICK s : s = [pc |-> "edit", vin |-> v, seen |-> offers[v], source |-> src,
                      terms |-> terms]
      OBVIOUS
    <3>2. s \in EditState
      BY <1>1, <3>1, EditsMade
    <3>3. s.vin = v /\ s.seen = offers[v]
      BY <3>1
    <3>4. edits' = [edits EXCEPT ![e] = s]
      BY <2>2, <3>1 DEF BeginEdit
    <3> QED BY <3>2, <3>3, <3>4
  <2> QED BY <2>1, <2>2
<1>3. UNCHANGED <<sheet, offers, metas, lock, runs>>
  BY DEF BeginEdit, BeginDelete
<1>4. TypeOK'
  BY <1>1, <1>2, <1>3 DEF TypeOK
<1>5. EditsHaveRows'
  <2> SUFFICES ASSUME NEW f \in Editors, edits'[f].pc \in {"edit", "delete"},
                      edits'[f].seen # Absent
               PROVE  offers[edits'[f].vin] # Absent
    BY <1>3 DEF EditsHaveRows, Absent
  <2>1. CASE f = e
    BY <1>1, <1>2, <2>1
  <2>2. CASE f # e
    BY <1>1, <1>2, <2>2 DEF EditsHaveRows
  <2> QED BY <2>1, <2>2
<1> QED BY <1>4, <1>5

\* What an edit leaves in its row.
LEMMA EditedRowIs ==
    ASSUME TInv, NEW e \in Editors, CommitEdit(e)
    PROVE  \E r \in EditState, row \in Row :
              /\ r = edits[e] /\ r.vin \in Vins
              /\ offers' = [offers EXCEPT ![r.vin] = row]
              /\ row.source = "sheet" => /\ offers[r.vin].source = "sheet"
                                         /\ row.terms \in {offers[r.vin].terms} \cup Edited
<1> USE DEF TInv
<1>1. PICK r \in EditState : r = edits[e]
  BY DEF TypeOK
<1>2. r.pc = "edit" /\ r.vin \in Vins /\ r.seen \in Row \cup {Absent}
      /\ r.source \in {"dealer", "broker"} /\ r.terms \in Edited
  BY <1>1, EditParts DEF CommitEdit
<1>3. CASE r.seen = Absent
  <2>1. PICK row : row = [terms |-> r.terms, source |-> r.source]
    OBVIOUS
  <2>2. row \in Row /\ row.source # "sheet"
    BY <1>2, <2>1 DEF Row, Source
  <2>3. offers' = [offers EXCEPT ![r.vin] = row]
    BY <1>1, <1>3, <2>1 DEF CommitEdit
  <2> QED BY <1>1, <1>2, <2>2, <2>3
<1>4. CASE r.seen # Absent
  <2>1. PICK old \in Row : old = offers[r.vin]
    BY <1>1, <1>2, <1>4 DEF EditsHaveRows, TypeOK
  <2>2. PICK row : row = EditedRow(r, old)
    OBVIOUS
  <2>3. old.terms \in Terms \cup Edited /\ old.source \in Source
    BY RowsArePresent
  <2>4. row \in Row /\ (row.source = "sheet" => old.source = "sheet")
        /\ row.terms \in {old.terms} \cup Edited
    BY <1>2, <2>2, <2>3 DEF EditedRow, Row, Source
  <2>5. offers' = [offers EXCEPT ![r.vin] = row]
    BY <1>1, <1>4, <2>1, <2>2 DEF CommitEdit
  <2> QED BY <1>1, <1>2, <2>1, <2>4, <2>5
<1> QED BY <1>3, <1>4

\* An edit commits.
LEMMA CommitEditTyped ==
    ASSUME TInv, NEW e \in Editors, CommitEdit(e)
    PROVE  TInv'
<1> USE DEF TInv
<1>1. PICK r \in EditState, row \in Row :
          r = edits[e] /\ r.vin \in Vins /\ offers' = [offers EXCEPT ![r.vin] = row]
  BY EditedRowIs
<1>2. edits' = [edits EXCEPT ![e] = Idle] /\ UNCHANGED <<sheet, metas, lock, runs>>
  BY DEF CommitEdit
<1>3. TypeOK'
  BY <1>1, <1>2, EditsMade DEF TypeOK
<1>4. EditsHaveRows'
  <2> SUFFICES ASSUME NEW f \in Editors, edits'[f].pc \in {"edit", "delete"},
                      edits'[f].seen # Absent
               PROVE  offers'[edits'[f].vin] # Absent
    BY DEF EditsHaveRows, Absent
  <2>1. f # e /\ edits'[f] = edits[f]
    BY <1>2, EditsMade DEF TypeOK
  <2>2. offers[edits[f].vin] # Absent
    BY <2>1 DEF EditsHaveRows
  <2> QED BY <1>1, <2>1, <2>2, RowsArePresent DEF TypeOK
<1> QED BY <1>3, <1>4

\* A deletion commits.
LEMMA CommitDeleteTyped ==
    ASSUME TInv, NEW e \in Editors, CommitDelete(e)
    PROVE  TInv'
<1> USE DEF TInv
<1>1. PICK v : v = edits[e].vin
  OBVIOUS
<1>2. v \in Vins
  BY <1>1, EditParts DEF CommitDelete, TypeOK
<1>3. /\ offers' = [offers EXCEPT ![v] = Absent]
      /\ edits' = [EditsLosing({v}) EXCEPT ![e] = Idle] /\ UNCHANGED <<sheet, metas, lock, runs>>
  BY <1>1 DEF CommitDelete
<1>4. EditsLosing({v}) \in [Editors -> EditState]
  <2>1. EditsLosing({v}) = [f \in Editors |-> EditsLosing({v})[f]]
    BY DEF EditsLosing
  <2> QED BY <2>1, EditsLeft
<1>5. TypeOK'
  BY <1>2, <1>3, <1>4, EditsMade DEF TypeOK
<1>6. EditsHaveRows'
  <2> SUFFICES ASSUME NEW f \in Editors, edits'[f].pc \in {"edit", "delete"},
                      edits'[f].seen # Absent
               PROVE  offers'[edits'[f].vin] # Absent
    BY DEF EditsHaveRows, Absent
  <2>1. f # e /\ edits'[f] = EditsLosing({v})[f]
    BY <1>3, <1>4, EditsMade
  <2>2. edits'[f] = edits[f] /\ edits[f].vin # v
    BY <2>1, EditsLeft
  <2>3. offers[edits[f].vin] # Absent
    BY <2>2 DEF EditsHaveRows
  <2> QED BY <1>2, <1>3, <2>2, <2>3 DEF TypeOK
<1> QED BY <1>5, <1>6

\* An edit fails.
LEMMA FailEditTyped ==
    ASSUME TInv, NEW e \in Editors, FailEdit(e)
    PROVE  TInv'
  BY EditsMade DEF TInv, TypeOK, EditsHaveRows, FailEdit
-----------------------------------------------------------------------------
\* At first nobody has synced, and nobody edits.
LEMMA InitTInv == Init => TInv
  BY RunsMade, EditsMade DEF Init, TInv, TypeOK, EditsHaveRows

\* Every step keeps the types, whoever syncs.
LEMMA StepTInv == TInv /\ [Next]_vars => TInv'
<1> SUFFICES ASSUME TInv, [Next]_vars PROVE TInv'
  OBVIOUS
<1>1. ASSUME NEW p \in Procs,
             \/ Start(p) \/ Acquire(p) \/ GiveUp(p) \/ Check(p) \/ Compare(p)
             \/ Fetch(p) \/ Index(p) \/ Fail(p) \/ Release(p) \/ Crash(p)
      PROVE  TInv'
  <2>1. PICK s \in RunState : /\ Goto(p, s) /\ lock' \in Procs \cup {None}
                              /\ UNCHANGED <<sheet, offers, metas, edits>>
    BY <1>1, QuietSteps DEF TInv
  <2> QED BY <2>1, RunTyped
<1>2. ASSUME NEW p \in Procs, Commit(p) PROVE TInv'
  BY <1>2, CommitTyped
<1>3. CASE ChangeSheet
  BY <1>3, ChangeTyped
<1>4. ASSUME NEW e \in Editors, NEW v \in Vins,
             \/ BeginDelete(e, v)
           \/ \E src \in Source \ {"sheet"}, terms \in Edited : BeginEdit(e, v, src, terms)
      PROVE  TInv'
  BY <1>4, BeginTyped
<1>5. ASSUME NEW e \in Editors, CommitEdit(e) \/ CommitDelete(e) \/ FailEdit(e)
      PROVE  TInv'
  BY <1>5, CommitEditTyped, CommitDeleteTyped, FailEditTyped
<1>6. CASE UNCHANGED vars
  BY <1>6 DEF vars, TInv, TypeOK, EditsHaveRows
<1> QED BY <1>1, <1>2, <1>3, <1>4, <1>5, <1>6 DEF Next, Work

\* The types hold, and an edit in progress has its row.
THEOREM TypesInvariant == Spec => []TInv
  BY InitTInv, StepTInv, PTL DEF Spec

\* Tables, syncs and edits have their types, whoever syncs.
THEOREM TypeCorrect == Spec => []TypeOK
  BY TypesInvariant, PTL DEF TInv
-----------------------------------------------------------------------------
\* Syncs that lock first: the steps that leave the tables alone.
LEMMA QuietKeeps ==
    ASSUME SyncsLockFirst, IInv, NEW p \in Procs,
           \/ Start(p) \/ Acquire(p) \/ GiveUp(p) \/ Check(p) \/ Compare(p)
           \/ Fetch(p) \/ Index(p) \/ Fail(p) \/ Release(p) \/ Crash(p)
    PROVE  IInv'
<1> USE DEF IInv
<1>1. p \notin Admins /\ p \notin Scripts
  BY DEF SyncsLockFirst
<1>2. /\ UNCHANGED <<sheet, offers, metas, edits>> /\ lock' \in Procs \cup {None}
      /\ lock \in Procs \cup {None} /\ runs[p] \in RunState
  BY QuietSteps, RunAt DEF TInv, TypeOK
<1>3. PICK r \in RunState : r = runs[p]
  BY <1>2
<1>4. /\ r.pc \in PastLock => lock = p
      /\ r.pc = "lock" => r.snap = NoSnapshot
      /\ r.pc \in {"fetch", "index", "commit"} => r.snap = NoSnapshot \/ Current(r.snap)
  BY <1>3 DEF SyncsHoldLock, SnapshotsCurrent
<1>5. Tables \in Snapshot /\ Current(Tables) /\ sheet \in Version \cup {NoRows}
  BY TablesSnapshot DEF Current, TInv, TypeOK
<1>6. CASE Start(p)
  <2>1. PICK s : s = [pc |-> "lock", snap |-> NoSnapshot]
    OBVIOUS
  <2>2. Goto(p, s) /\ lock' = lock
    BY <1>1, <1>6, <2>1 DEF Start
  <2>3. s \in RunState /\ s.pc = "lock" /\ s.snap = NoSnapshot
    BY <2>1, RunsMade
  <2> QED BY <1>2, <2>2, <2>3, RunKeeps DEF PastLock
<1>7. CASE Acquire(p)
  <2>1. PICK s : s = IF p \in Schedulers THEN [pc |-> "check"]
                     ELSE [pc |-> "fetch", snap |-> NoSnapshot]
    OBVIOUS
  <2>2. r.pc = "lock" /\ r.snap = NoSnapshot
    BY <1>3, <1>4, <1>7 DEF Acquire
  <2>3. Goto(p, s) /\ lock = None /\ lock' = p
    BY <1>3, <1>7, <2>1, <2>2 DEF Acquire
  <2>4. /\ s \in RunState /\ s.pc \in {"check", "fetch"}
        /\ s.pc = "fetch" => s.snap = NoSnapshot
    BY <2>1, RunsMade
  <2> QED BY <1>2, <2>3, <2>4, RunKeeps
<1>8. CASE GiveUp(p)
  <2>1. Goto(p, Idle) /\ lock' = lock
    BY <1>8 DEF GiveUp
  <2> QED BY <1>2, <2>1, RunsMade, RunKeeps DEF PastLock
<1>9. CASE Check(p)
  <2>1. PICK s : s = [pc |-> "compare", hash |-> sheet]
    OBVIOUS
  <2>2. Goto(p, s) /\ lock' = lock /\ lock = p
    BY <1>3, <1>4, <1>9, <2>1 DEF Check, PastLock
  <2>3. s \in RunState /\ s.pc = "compare"
    BY <1>5, <2>1, RunsMade
  <2> QED BY <1>2, <2>2, <2>3, RunKeeps
<1>10. CASE Finish(p) /\ lock' = lock /\ r.pc \in PastLock
  <2>1. PICK s \in RunState : Goto(p, s) /\ s.pc = "release"
    BY <1>1, <1>10, FinishMade
  <2> QED BY <1>2, <1>4, <1>10, <2>1, RunKeeps
<1>11. CASE Compare(p)
  <2>1. lock' = lock /\ lock = p /\ r.pc \in PastLock
    BY <1>3, <1>4, <1>11 DEF Compare, PastLock
  <2>2. CASE Goto(p, [pc |-> "fetch", snap |-> Tables])
    <3>1. PICK s : s = [pc |-> "fetch", snap |-> Tables]
      OBVIOUS
    <3>2. s \in RunState /\ s.pc = "fetch" /\ s.snap = Tables
      BY <1>5, <3>1, RunsMade
    <3>3. Current(s.snap)
      BY <1>5, <3>2
    <3> QED BY <1>2, <2>1, <2>2, <3>1, <3>2, <3>3, RunKeeps
  <2> QED BY <1>10, <1>11, <2>1, <2>2 DEF Compare
<1>12. CASE Fetch(p)
  <2>1. lock' = lock /\ lock = p /\ r.pc \in PastLock /\ r.pc = "fetch"
    BY <1>3, <1>4, <1>12 DEF Fetch, PastLock
  <2>2. CASE sheet # NoRows
    <3>1. PICK s : s = [pc |-> "index", seen |-> sheet, snap |-> r.snap]
      OBVIOUS
    <3>2. s \in RunState /\ s.pc = "index" /\ s.snap = r.snap
      BY <1>5, <2>1, <2>2, <3>1, RunsMade, RunParts
    <3>3. s.snap = NoSnapshot \/ Current(s.snap)
      BY <1>4, <2>1, <3>2
    <3>4. Goto(p, s)
      BY <1>3, <1>12, <2>2, <3>1 DEF Fetch
    <3> QED BY <1>2, <2>1, <3>2, <3>3, <3>4, RunKeeps
  <2> QED BY <1>10, <1>12, <2>1, <2>2 DEF Fetch
<1>13. CASE Index(p)
  <2>1. lock' = lock /\ lock = p /\ r.pc = "index"
    BY <1>3, <1>4, <1>13 DEF Index, PastLock
  <2>2. PICK snap : snap = IF r.snap = NoSnapshot THEN Tables ELSE r.snap
    OBVIOUS
  <2>3. snap \in Snapshot /\ Current(snap) /\ r.seen \in Version
    BY <1>4, <1>5, <2>1, <2>2, RunParts
  <2>4. PICK found \in Matches(r.seen) :
            Goto(p, [pc |-> "commit", seen |-> r.seen, found |-> found, snap |-> snap])
    BY <1>3, <1>13, <2>2 DEF Index
  <2>5. found \subseteq r.seen.vins /\ found \in SUBSET Vins
    BY <2>3 DEF Matches, Version
  <2>6. PICK s : s = [pc |-> "commit", seen |-> r.seen, found |-> found, snap |-> snap]
    OBVIOUS
  <2>7. /\ s \in RunState /\ s.pc = "commit" /\ s.snap = snap /\ s.seen = r.seen
        /\ s.found = found
    BY <2>3, <2>5, <2>6, RunsMade
  <2>8. s.found \subseteq s.seen.vins /\ Current(s.snap)
    BY <2>3, <2>5, <2>7
  <2> QED BY <1>2, <2>1, <2>4, <2>6, <2>7, <2>8, RunKeeps
<1>14. CASE Fail(p)
  <2>1. lock' = lock /\ r.pc \in PastLock /\ Finish(p)
    BY <1>3, <1>14 DEF Fail, PastLock
  <2> QED BY <1>10, <2>1
<1>15. CASE Release(p)
  <2>1. Goto(p, Idle) /\ lock = p
    BY <1>3, <1>4, <1>15 DEF Release, PastLock
  <2> QED BY <1>2, <2>1, RunsMade, RunKeeps DEF PastLock
<1>16. CASE Crash(p)
  <2>1. Goto(p, Idle) /\ (lock' = lock \/ lock = p)
    BY <1>16 DEF Crash
  <2> QED BY <1>2, <2>1, RunsMade, RunKeeps DEF PastLock
<1> QED BY <1>6, <1>7, <1>8, <1>9, <1>11, <1>12, <1>13, <1>14, <1>15, <1>16

\* A sequence of at most one element is empty or has one.
LEMMA EmptyOrOne ==
    ASSUME NEW S, NEW s \in Seq(S), Len(s) <= 1
    PROVE  s # <<>> <=> Len(s) = 1
<1>1. CASE s = <<>>
  BY <1>1
<1>2. CASE s # <<>>
  <2>1. Len(s) \in Nat \ {0}
    BY <1>2
  <2> QED BY <1>2, <2>1
<1> QED BY <1>1, <1>2

\* The hash a sync records: the only one, and that of the sheet it has seen.
LEMMA RecordedIs ==
    ASSUME IInv, NEW r \in RunState, r.pc = "commit", r.snap.metas = metas
    PROVE  /\ Len(Recorded(r)) = 1 /\ Recorded(r) # <<>>
           /\ Last(Recorded(r)) = r.seen
<1>1. metas \in Seq(Version) /\ Len(metas) <= 1
  BY DEF IInv, TInv, TypeOK, OneMetaRow
<1>2. PICK x \in Version : x = r.seen
  BY RunParts
<1>3. metas # <<>> => Len(metas) = 1
  BY <1>1, EmptyOrOne
<1>4. CASE metas = <<>>
  <2>1. Recorded(r) = Append(metas, x)
    BY <1>2, <1>4 DEF Recorded
  <2> QED BY <1>1, <1>2, <1>4, <2>1 DEF Last
<1>5. CASE metas # <<>> /\ Head(metas) = x
  <2>1. Recorded(r) = metas
    BY <1>2, <1>5 DEF Recorded
  <2>2. Len(metas) = 1 /\ metas[1] = x
    BY <1>1, <1>5, <1>3
  <2> QED BY <1>2, <1>5, <2>1, <2>2 DEF Last
<1>6. CASE metas # <<>> /\ Head(metas) # x
  <2>1. Recorded(r) = [metas EXCEPT ![1] = x]
    BY <1>2, <1>6 DEF Recorded
  <2>2. Len(metas) = 1 /\ 1 \in 1 .. Len(metas)
    BY <1>6, <1>3
  <2>3. PICK m : m = [metas EXCEPT ![1] = x]
    OBVIOUS
  <2>4. m \in Seq(Version) /\ Len(m) = 1 /\ m[1] = x
    BY <1>1, <2>2, <2>3, ExceptSeq
  <2>5. m # <<>>
    BY <2>4, EmptyOrOne
  <2> QED BY <1>2, <2>1, <2>3, <2>4, <2>5 DEF Last
<1> QED BY <1>4, <1>5, <1>6

\* A sync that locks first commits: every sheet row is on the sheet it has seen
\* and has its terms, and so has the hash it records; no other sync has read
\* anything yet.
LEMMA CommitKeeps ==
    ASSUME SyncsLockFirst, IInv, NEW p \in Procs, Commit(p)
    PROVE  IInv'
<1> USE DEF IInv
<1>1. PICK r \in RunState : r = runs[p]
  BY RunAt DEF TInv
<1>2. r.pc = "commit" /\ lock = p /\ r.snap \in Snapshot
  <2>1. r.pc = "commit"
    BY <1>1 DEF Commit
  <2> QED BY <1>1, <2>1, RunParts DEF SyncsHoldLock, PastLock
<1>3. /\ r.snap.metas = metas /\ r.found \subseteq r.seen.vins
      /\ \A v \in Vins : offers[v].source = "sheet" => r.snap.offers[v].source = "sheet"
  BY <1>1, <1>2, SnapshotIsThere DEF SnapshotsCurrent, Current, FoundOnSheet
<1>4. /\ metas' = Recorded(r) /\ UNCHANGED <<sheet, lock>>
      /\ \A v \in Vins : offers'[v] = Synced(r, v)
  BY <1>1 DEF Commit
<1>5. Len(metas') = 1 /\ metas' # <<>> /\ Last(metas') = r.seen
  BY <1>2, <1>3, <1>4, RecordedIs
<1>6. ASSUME NEW v \in Vins, offers'[v].source = "sheet"
      PROVE  v \in r.seen.vins /\ offers'[v].terms = r.seen.terms
  <2>1. CASE v \in r.found
    BY <1>2, <1>3, <1>4, <2>1, SyncedRow DEF TInv
  <2>2. CASE v \notin r.found
    BY <1>2, <1>3, <1>4, <1>6, <2>2, SyncedRow, RowsArePresent, NoneIsNoProc DEF TInv
  <2> QED BY <2>1, <2>2
<1>7. (OneMetaRow /\ RetiredRowsGone /\ TermsFollowSheet)'
  BY <1>5, <1>6 DEF OneMetaRow, RetiredRowsGone, TermsFollowSheet
<1>8. PICK s \in RunState : Goto(p, s) /\ s.pc = "release"
  BY FinishMade DEF SyncsLockFirst, Commit
<1>9. /\ runs'[p].pc = "release" /\ \A q \in Procs \ {p} : runs'[q] = runs[q]
      /\ \A q \in Procs \ {p} : runs[q].pc \notin PastLock
  BY <1>2, <1>8 DEF Goto, TInv, TypeOK, SyncsHoldLock
<1>10. (SyncsHoldLock /\ SnapshotsCurrent /\ FoundOnSheet)'
  BY <1>2, <1>4, <1>9 DEF SyncsHoldLock, SnapshotsCurrent, FoundOnSheet, PastLock
<1> QED BY <1>7, <1>10, CommitTyped

\* Editors make no sheet rows, and leave the sheet's terms or their own.
LEMMA EditsKeep ==
    ASSUME IInv, TInv', UNCHANGED <<metas, lock, runs>>,
           \A v \in Vins : offers'[v].source = "sheet" =>
               offers[v].source = "sheet" /\ offers'[v].terms \in {offers[v].terms} \cup Edited
    PROVE  IInv'
<1> USE DEF IInv
<1>1. (SyncsHoldLock /\ FoundOnSheet /\ OneMetaRow)'
  BY DEF SyncsHoldLock, FoundOnSheet, OneMetaRow
<1>2. (RetiredRowsGone /\ TermsFollowSheet)'
  BY DEF RetiredRowsGone, TermsFollowSheet
<1>3. SnapshotsCurrent'
  <2> SUFFICES ASSUME NEW q \in Procs
               PROVE  (/\ runs[q].pc = "lock" => runs[q].snap = NoSnapshot
                       /\ runs[q].pc \in {"fetch", "index", "commit"} =>
                             runs[q].snap = NoSnapshot \/ Current(runs[q].snap))'
    BY DEF SnapshotsCurrent
  <2>1. PICK snap : snap = runs[q].snap
    OBVIOUS
  <2>2. Current(snap) => Current(snap)'
    BY DEF Current
  <2>3. /\ runs[q].pc = "lock" => snap = NoSnapshot
        /\ runs[q].pc \in {"fetch", "index", "commit"} => snap = NoSnapshot \/ Current(snap)
    BY <2>1 DEF SnapshotsCurrent
  <2>4. runs'[q] = runs[q]
    OBVIOUS
  <2> QED BY <2>1, <2>2, <2>3, <2>4 DEF Current
<1> QED BY <1>1, <1>2, <1>3

\* Every step of syncs that lock first keeps the invariant.
LEMMA StepIInv == SyncsLockFirst /\ IInv /\ [Next]_vars => IInv'
<1> SUFFICES ASSUME SyncsLockFirst, IInv, [Next]_vars PROVE IInv'
  OBVIOUS
<1>1. TInv' /\ TInv
  BY StepTInv DEF IInv
<1>2. ASSUME NEW p \in Procs,
             \/ Start(p) \/ Acquire(p) \/ GiveUp(p) \/ Check(p) \/ Compare(p)
             \/ Fetch(p) \/ Index(p) \/ Fail(p) \/ Release(p) \/ Crash(p)
      PROVE  IInv'
  BY <1>2, QuietKeeps
<1>3. ASSUME NEW p \in Procs, Commit(p) PROVE IInv'
  BY <1>3, CommitKeeps
<1>4. CASE ChangeSheet \/ UNCHANGED vars
  BY <1>1, <1>4, EditsKeep DEF ChangeSheet, vars
<1>5. ASSUME NEW e \in Editors, NEW v \in Vins,
             \/ BeginDelete(e, v)
           \/ \E src \in Source \ {"sheet"}, terms \in Edited : BeginEdit(e, v, src, terms)
      PROVE  IInv'
  BY <1>1, <1>5, EditsKeep DEF BeginDelete, BeginEdit
<1>6. ASSUME NEW e \in Editors, FailEdit(e) PROVE IInv'
  BY <1>1, <1>6, EditsKeep DEF FailEdit
<1>7. ASSUME NEW e \in Editors, CommitEdit(e) PROVE IInv'
  <2>1. PICK w \in Vins, row \in Row :
            /\ offers' = [offers EXCEPT ![w] = row]
            /\ row.source = "sheet" => /\ offers[w].source = "sheet"
                                       /\ row.terms \in {offers[w].terms} \cup Edited
    BY <1>1, <1>7, EditedRowIs
  <2>2. offers \in [Vins -> Row \cup {Absent}] /\ UNCHANGED <<metas, lock, runs>>
    BY <1>1, <1>7 DEF TInv, TypeOK, CommitEdit
  <2> QED BY <1>1, <2>1, <2>2, EditsKeep
<1>8. ASSUME NEW e \in Editors, CommitDelete(e) PROVE IInv'
  <2>1. PICK v : offers' = [offers EXCEPT ![v] = Absent] /\ UNCHANGED <<metas, lock, runs>>
    BY <1>8 DEF CommitDelete
  <2>2. offers \in [Vins -> Row \cup {Absent}] /\ Absent.source # "sheet"
    BY <1>1, RowsArePresent, NoneIsNoProc DEF TInv, TypeOK
  <2> QED BY <1>1, <2>1, <2>2, EditsKeep
<1> QED BY <1>2, <1>3, <1>4, <1>5, <1>6, <1>7, <1>8 DEF Next, Work

\* The invariant holds at first.
LEMMA InitIInv == Init => IInv
<1> SUFFICES ASSUME Init PROVE IInv
  OBVIOUS
<1>1. SyncsHoldLock /\ SnapshotsCurrent /\ FoundOnSheet
  BY RunsMade DEF Init, SyncsHoldLock, SnapshotsCurrent, FoundOnSheet, PastLock
<1>2. OneMetaRow /\ RetiredRowsGone /\ TermsFollowSheet
  BY RowsArePresent, NoneIsNoProc
     DEF Init, OneMetaRow, RetiredRowsGone, TermsFollowSheet
<1> QED BY <1>1, <1>2, InitTInv DEF IInv

\* The invariant of syncs that lock first holds.
THEOREM Invariance == ASSUME SyncsLockFirst PROVE Spec => []IInv
<1>1. IInv /\ [Next]_vars => IInv'
  BY SyncsLockFirst, StepIInv
<1> QED BY <1>1, InitIInv, PTL DEF Spec

\* When every sync locks first, what the table shows as a sheet offer is on the
\* version of the sheet whose hash is recorded: no change of the sheet, edit,
\* failure or crash between any two steps leaves a row that was taken off it.
THEOREM NoRetiredRows == ASSUME SyncsLockFirst PROVE Spec => []RetiredRowsGone
<1>1. IInv => RetiredRowsGone
  BY DEF IInv
<1> QED BY <1>1, SyncsLockFirst, Invariance, PTL

\* And it has the terms of that version, or an editor's.
THEOREM TermsOfSheet == ASSUME SyncsLockFirst PROVE Spec => []TermsFollowSheet
<1>1. IInv => TermsFollowSheet
  BY DEF IInv
<1> QED BY <1>1, SyncsLockFirst, Invariance, PTL

\* And there is one meta row.
THEOREM OneMeta == ASSUME SyncsLockFirst PROVE Spec => []OneMetaRow
<1>1. IInv => OneMetaRow
  BY DEF IInv
<1> QED BY <1>1, SyncsLockFirst, Invariance, PTL
=============================================================================
