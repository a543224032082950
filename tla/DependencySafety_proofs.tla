----------------------- MODULE DependencySafety_proofs -------------------------
(***************************************************************************)
(* Theorems about DependencyChange: what a run reports as succeeded or as  *)
(* deleted is true; a reusable Set goes only past its consumer guard; and  *)
(* an object is changed or deleted at most once over all re-runs, with the *)
(* content its check has accepted in the backup; a run without faults and  *)
(* edits does everything, and a rollback without them restores everything. *)
(***************************************************************************)
EXTENDS DependencyChange_proofs

-----------------------------------------------------------------------------
(* Reports.  A rollback puts documents back, so nothing that a run has     *)
(* reported may be carried into it.                                        *)

Undoing == phase \in {"rollback", "undone"}

Reports ==
    /\ SucceededIsTrue
    /\ DeletedIsGone
    /\ Undoing => results.succeeded = {} /\ results.deleted = {}

\* A step that reports nothing new and neither restores an object nor takes a change back
\* keeps the reports true.
LEMMA NothingNew ==
  ASSUME Types, Reports,
         results'.succeeded \ results'.unseen \subseteq results.succeeded \ results.unseen,
         results'.deleted \ results'.guessed \subseteq results.deleted \ results.guessed,
         present' \subseteq present,
         \A o \in Objects : form[o] \in {"new", "again"} => form'[o] \in {"new", "again"},
         Undoing' => results'.succeeded = {} /\ results'.deleted = {}
  PROVE  Reports'
<1>1. results.succeeded \subseteq Objects
  BY DEF Types, ResultTypes, Results, Objects, Checked
<1>. QED  BY <1>1 DEF Reports, SucceededIsTrue, DeletedIsGone

LEMMA AppliedReports ==
  ASSUME Types, NEW o \in Objects, Applied(o)
  PROVE  /\ present' = present
         /\ \A p \in Objects : form[p] \in {"new", "again"} => form'[p] \in {"new", "again"}
  BY DEF Types, ServerTypes, Applied

LEMMA RemovedReports ==
  ASSUME Types, NEW o \in Objects, Removed(o)
  PROVE  present' = present \ {o} /\ form' = form
  BY DEF Removed

\* The delete of an object or a Set: the one step that reports deletions.
LEMMA DeleteNowReports ==
  ASSUME Types, Reports, NEW o \in Deletes \cup Sets, DeleteNow(o), UNCHANGED phase, ~Undoing
  PROVE  Reports'
<1>1. o \in Objects /\ results \in Results
  BY DEF Objects, Checked, Types, ResultTypes
<1>2. (present' = present \ {o} \/ present' = present) /\ form' = form
  BY <1>1, RemovedReports DEF DeleteNow, server, Removed
<1>3. results'.succeeded = results.succeeded /\ results'.unseen = results.unseen
  <2>1. CASE Record([results EXCEPT !.deleted = @ \cup {o}])
    BY <1>1, <2>1 DEF Record, Results
  <2>2. CASE \E answered \in BOOLEAN : Record(AfterFailure(o, answered, o \in present'))
    <3>1. PICK answered \in BOOLEAN : Record(AfterFailure(o, answered, o \in present'))
      BY <2>2
    <3>2. CASE answered
      BY <1>1, <3>1, <3>2 DEF Record, AfterFailure, Results
    <3>3. CASE ~answered
      BY <1>1, <3>1, <3>3 DEF Record, AfterFailure, Results
    <3>. QED  BY <3>2, <3>3
  <2>. QED  BY <2>1, <2>2 DEF DeleteNow
<1>4. (results'.deleted \ results'.guessed) \cap present' = {}
  <2>1. (results.deleted \ results.guessed) \cap present' = {}
    BY <1>2 DEF Reports, DeletedIsGone
  <2>2. CASE Removed(o) /\ Record([results EXCEPT !.deleted = @ \cup {o}])
    BY <1>1, <2>1, <2>2 DEF Removed, Record, Results
  <2>3. CASE \E answered \in BOOLEAN : Record(AfterFailure(o, answered, o \in present'))
    <3>1. PICK answered \in BOOLEAN : Record(AfterFailure(o, answered, o \in present'))
      BY <2>3
    <3>2. CASE answered
      BY <1>1, <2>1, <3>1, <3>2 DEF Record, AfterFailure, Results
    <3>3. CASE ~answered
      BY <1>1, <2>1, <3>1, <3>3 DEF Record, AfterFailure, Results
    <3>. QED  BY <3>2, <3>3
  <2>. QED  BY <2>2, <2>3 DEF DeleteNow
<1>. QED  BY <1>2, <1>3, <1>4 DEF Reports, SucceededIsTrue, DeletedIsGone, Undoing

LEMMA VerifyReports == ASSUME Types, Reports, Verify PROVE Reports'
<1>1. results \in Results /\ ~Undoing /\ phase' = phase /\ UNCHANGED server
  BY DEF Types, ResultTypes, Verify, PhaseTypes, Undoing
<1>2. results'.deleted = results.deleted /\ results'.guessed = results.guessed
  BY <1>1, VerifyRecords DEF Seen, Unseen, NotVerified, Results
<1>3. \/ results'.succeeded \ results'.unseen \subseteq results.succeeded \ results.unseen
      \/ /\ form[current] = "new"
         /\ results'.succeeded \ results'.unseen
               \subseteq (results.succeeded \ results.unseen) \cup {current}
  <2>1. CASE results' = Seen /\ form[current] = "new"
    BY <1>1, <2>1 DEF Seen, Results
  <2>2. CASE results' = Unseen
    BY <1>1, <2>2 DEF Unseen, Results
  <2>3. CASE results' = NotVerified
    BY <1>1, <2>3 DEF NotVerified, Results
  <2>. QED  BY <2>1, <2>2, <2>3, VerifyRecords
<1>. QED
  BY <1>1, <1>2, <1>3 DEF Reports, SucceededIsTrue, DeletedIsGone, Undoing, server

\* The steps that record a failure or that a check was not passed.
LEMMA CheckReports == ASSUME Types, Reports, NEW o \in Objects, Check(o) PROVE Reports'
<1>1. results' = results \/ results' = [results EXCEPT !.skipped = @ \cup {o}]
  BY DEF Check, Record
<1>2. results'.succeeded = results.succeeded /\ results'.deleted = results.deleted
      /\ results'.guessed = results.guessed /\ results'.unseen = results.unseen
  BY <1>1 DEF Types, ResultTypes, Results
<1>3. UNCHANGED server /\ ~Undoing'
  BY DEF Check, Undoing
<1>. QED  BY <1>2, <1>3, NothingNew DEF server

LEMMA FetchReports == ASSUME Types, Reports, Fetch PROVE Reports'
<1>1. \/ results' = results
      \/ results' = [results EXCEPT !.failedFix = @ \cup {current}]
      \/ results' = [results EXCEPT !.failedOther = @ \cup {current}]
  BY DEF Fetch, Record
<1>2. results'.succeeded = results.succeeded /\ results'.deleted = results.deleted
      /\ results'.guessed = results.guessed /\ results'.unseen = results.unseen
  BY <1>1 DEF Types, ResultTypes, Results
<1>3. UNCHANGED server /\ ~Undoing'
  BY DEF Fetch, Undoing
<1>. QED  BY <1>2, <1>3, NothingNew DEF server

LEMMA ImportReports == ASSUME Types, Reports, Import PROVE Reports'
<1>1. current \in Objects /\ ~Undoing'
  BY DEF Types, PhaseTypes, Import, Undoing
<1>2. Applied(current) \/ UNCHANGED server
  BY DEF Import
<1>3. present' = present
      /\ \A p \in Objects : form[p] \in {"new", "again"} => form'[p] \in {"new", "again"}
  BY <1>1, <1>2, AppliedReports DEF server
<1>. QED  BY <1>1, <1>3, NothingNew DEF Import

LEMMA DeleteSetReports == ASSUME Types, Reports, NEW k \in Objects, DeleteSet(k) PROVE Reports'
<1>1. k \in Sets /\ ~Undoing /\ phase' = phase
  BY DEF Types, PhaseTypes, DeleteSet, Undoing
<1>2. CASE MayDeleteSet(k)
  BY <1>1, <1>2, DeleteNowReports DEF DeleteSet
<1>3. CASE ~MayDeleteSet(k)
  <2>1. results' = [results EXCEPT !.skipped = @ \cup {k}] /\ UNCHANGED server
    BY <1>3 DEF DeleteSet, Record
  <2>2. results'.succeeded = results.succeeded /\ results'.deleted = results.deleted
        /\ results'.guessed = results.guessed /\ results'.unseen = results.unseen
    BY <2>1 DEF Types, ResultTypes, Results
  <2>. QED  BY <1>1, <2>1, <2>2, NothingNew DEF server, Undoing
<1>. QED  BY <1>2, <1>3

\* A run begins, ends or dies with empty lists.
LEMMA EmptyReports ==
  ASSUME results'.succeeded = {}, results'.deleted = {}
  PROVE  Reports'
  BY DEF Reports, SucceededIsTrue, DeletedIsGone

LEMMA StartRunReports == ASSUME StartRun PROVE Reports'
<1>1. results' = NoResults \/ results' = [NoResults EXCEPT !.aborted = TRUE]
  BY DEF StartRun
<1>2. results'.succeeded = {} /\ results'.deleted = {}
  BY <1>1 DEF NoResults
<1>. QED  BY <1>2, EmptyReports

LEMMA RestoreEntryReports ==
  ASSUME Types, Reports, NEW o \in Objects, RestoreEntry(o) PROVE Reports'
<1>1. Undoing /\ results.succeeded = {} /\ results.deleted = {}
  BY DEF RestoreEntry, Undoing, Reports
<1>2. results' = results \/ results' = [results EXCEPT !.failedOther = @ \cup {o}]
  BY DEF RestoreEntry, RestoreFailed
<1>3. results'.succeeded = {} /\ results'.deleted = {}
  BY <1>1, <1>2 DEF Types, ResultTypes, Results
<1>. QED  BY <1>3, EmptyReports

LEMMA TenantEditsReports ==
  ASSUME Types, Reports, NEW o \in Objects, TenantEdits(o) PROVE Reports'
<1>1. \A p \in Objects : form[p] \in {"new", "again"} => form'[p] \in {"new", "again"}
  BY DEF TenantEdits, Types, ServerTypes
<1>. QED  BY <1>1, NothingNew DEF TenantEdits, Reports, Undoing

\* The steps that touch neither the lists nor the server.
LEMMA QuietReports ==
  ASSUME Types, Reports, UNCHANGED <<server, results>>, Undoing' => Undoing
  PROVE  Reports'
  BY NothingNew DEF server, Reports

LEMMA NextReports == ASSUME Types, Reports, [Next]_vars PROVE Reports'
<1>1. CASE UNCHANGED vars
  BY <1>1, QuietReports DEF vars, server, Undoing
<1>2. CASE Scan \/ BackUp \/ PhaseOver \/ TakeSource \/ FinishRollback
  <2>1. UNCHANGED <<server, results>>
    BY <1>2 DEF Scan, BackUp, PhaseOver, TakeSource, FinishRollback
  <2>2. Undoing' => Undoing
    BY <1>2 DEF Scan, BackUp, PhaseOver, NextPhase, TakeSource, FinishRollback, Undoing
  <2>. QED  BY <2>1, <2>2, QuietReports
<1>3. CASE DeleteObject
  <2>1. current \in Deletes /\ DeleteNow(current) /\ UNCHANGED phase /\ ~Undoing
    BY <1>3 DEF Types, PhaseTypes, DeleteObject, Undoing
  <2>. QED  BY <2>1, DeleteNowReports
<1>4. CASE Kill \/ StartRollback
  <2>1. results' = NoResults
    BY <1>4 DEF Kill, StartRollback
  <2>2. results'.succeeded = {} /\ results'.deleted = {}
    BY <2>1 DEF NoResults
  <2>. QED  BY <2>2, EmptyReports
<1>. QED
  BY <1>1, <1>2, <1>3, <1>4, StartRunReports, FetchReports, ImportReports, VerifyReports,
     CheckReports, DeleteSetReports, RestoreEntryReports, TenantEditsReports DEF Next

LEMMA ReportsInvariant == Spec => [](Types /\ Reports)
<1>1. Init => Types /\ Reports
  <2>1. ASSUME Init PROVE results.succeeded = {} /\ results.deleted = {}
    BY <2>1 DEF Init, NoResults
  <2>. QED  BY <2>1, InitTypes DEF Reports, SucceededIsTrue, DeletedIsGone
<1>2. (Types /\ Reports) /\ [Next]_vars => (Types /\ Reports)'
  BY NextTypes, NextReports
<1>. QED  BY <1>1, <1>2, PTL DEF Spec

\* What a run reports as succeeded is in force, unless a tenant has undone it since,
\* whatever the import call answered and whatever happened in earlier runs.
\* (import_outcome, _verify_change)
THEOREM ReportedChangesAreReal == Spec => []SucceededIsTrue
<1>1. Reports => SucceededIsTrue
  BY DEF Reports
<1>. QED  BY <1>1, ReportsInvariant, PTL

\* What a run reports as deleted is gone, unless both the delete and the lookup after it
\* failed.  (_delete_one)
THEOREM ReportedDeletesAreReal == Spec => []DeletedIsGone
<1>1. Reports => DeletedIsGone
  BY DEF Reports
<1>. QED  BY <1>1, ReportsInvariant, PTL

-----------------------------------------------------------------------------
(* The Set guard.  By the time Sets are deleted, every entry of the two    *)
(* phases before has left its mark in the lists.                           *)

DeleteSettled == results.deleted \cup results.failedOther \cup results.skipped
FixSettled == results.succeeded \cup results.failedFix \cup results.skipped
AtWork(o) == step # "next" /\ o = current

Processed ==
    /\ phase = "delete" => \A o \in Deletes \ todo : AtWork(o) \/ o \in DeleteSettled
    /\ phase \in {"fix", "source", "sets"} => Deletes \subseteq DeleteSettled
    /\ phase = "fix" => \A o \in Fixes \ todo : AtWork(o) \/ o \in FixSettled
    /\ phase \in {"source", "sets"} => Fixes \subseteq FixSettled

Grown == DeleteSettled \subseteq DeleteSettled' /\ FixSettled \subseteq FixSettled'

LEMMA CheckProcessed == ASSUME Types, Processed, NEW o \in Objects, Check(o) PROVE Processed'
<1>1. \/ results' = results /\ step' = "checked"
      \/ results' = [results EXCEPT !.skipped = @ \cup {o}] /\ step' = "next"
  BY DEF Check, Record
<1>2. /\ results'.deleted = results.deleted /\ results'.failedOther = results.failedOther
      /\ results'.succeeded = results.succeeded /\ results'.failedFix = results.failedFix
      /\ \/ results'.skipped = results.skipped /\ step' = "checked"
         \/ results'.skipped = results.skipped \cup {o} /\ step' = "next"
  BY <1>1 DEF Types, ResultTypes, Results
<1>3. step = "next" /\ todo' = todo \ {o} /\ current' = o /\ phase' = phase
  BY DEF Check
<1>. QED  BY <1>2, <1>3 DEF Processed, DeleteSettled, FixSettled, AtWork

\* In its phase a delete settles its entry; later it only adds to the lists.
LEMMA DeleteNowGrows ==
  ASSUME Types, NEW o \in Deletes \cup Sets, DeleteNow(o)
  PROVE  /\ Grown /\ step' = "next"
         /\ phase = "delete" => o \in DeleteSettled'
<1>1. o \in Objects /\ results \in Results
  BY DEF Objects, Checked, Types, ResultTypes
<1>2. CASE Record([results EXCEPT !.deleted = @ \cup {o}])
  BY <1>1, <1>2 DEF Record, Results, Grown, DeleteSettled, FixSettled
<1>3. CASE \E answered \in BOOLEAN : Record(AfterFailure(o, answered, o \in present'))
  <2>1. PICK answered \in BOOLEAN : Record(AfterFailure(o, answered, o \in present'))
    BY <1>3
  <2>2. CASE answered /\ o \in present'
    <3>1. CASE phase = "delete"
      BY <1>1, <2>1, <2>2, <3>1
      DEF Record, AfterFailure, Results, Grown, DeleteSettled, FixSettled
    <3>2. CASE phase # "delete"
      BY <2>1, <2>2, <3>2 DEF Record, AfterFailure, Grown, DeleteSettled, FixSettled
    <3>. QED  BY <3>1, <3>2
  <2>3. CASE ~(answered /\ o \in present')
    BY <1>1, <2>1, <2>3 DEF Record, AfterFailure, Results, Grown, DeleteSettled, FixSettled
  <2>. QED  BY <2>2, <2>3
<1>. QED  BY <1>2, <1>3 DEF DeleteNow

LEMMA FetchProcessed == ASSUME Types, Processed, Fetch PROVE Processed'
<1>1. \/ results' = results /\ step' = "fetched"
      \/ /\ phase = "fix" /\ step' = "next"
         /\ results' = [results EXCEPT !.failedFix = @ \cup {current}]
      \/ /\ phase # "fix" /\ step' = "next"
         /\ results' = [results EXCEPT !.failedOther = @ \cup {current}]
  BY DEF Fetch, Record
<1>2. /\ Grown
      /\ phase = "fix" => step' = "fetched" \/ current \in FixSettled'
  BY <1>1 DEF Types, ResultTypes, Results, Grown, DeleteSettled, FixSettled
<1>3. phase \in {"fix", "source"} /\ UNCHANGED <<phase, current, todo>>
  BY DEF Fetch
<1>. QED  BY <1>2, <1>3 DEF Processed, Grown, AtWork

LEMMA VerifyProcessed == ASSUME Types, Processed, Verify PROVE Processed'
<1>1. step' = "next" /\ results \in Results
  BY VerifyRecords DEF Types, ResultTypes
<1>2. Grown /\ (phase = "fix" => current \in FixSettled')
  <2>1. CASE results' \in {Seen, Unseen}
    BY <1>1, <2>1 DEF Seen, Unseen, Results, Grown, DeleteSettled, FixSettled
  <2>2. CASE results' = NotVerified
    BY <1>1, <2>2 DEF NotVerified, Results, Grown, DeleteSettled, FixSettled
  <2>. QED  BY <2>1, <2>2, VerifyRecords
<1>3. phase \in {"fix", "source"} /\ UNCHANGED <<phase, current, todo>>
  BY DEF Verify, Types, PhaseTypes, entry
<1>. QED  BY <1>1, <1>2, <1>3 DEF Processed, Grown, AtWork

LEMMA DeleteSetProcessed ==
  ASSUME Types, Processed, NEW k \in Objects, DeleteSet(k) PROVE Processed'
<1>1. k \in Sets /\ phase = "sets" /\ phase' = phase
  BY DEF Types, PhaseTypes, DeleteSet
<1>2. Grown
  <2>1. CASE MayDeleteSet(k)
    BY <1>1, <2>1, DeleteNowGrows DEF DeleteSet
  <2>2. CASE ~MayDeleteSet(k)
    <3>1. results' = [results EXCEPT !.skipped = @ \cup {k}]
      BY <2>2 DEF DeleteSet, Record
    <3>. QED  BY <3>1 DEF Types, ResultTypes, Results, Grown, DeleteSettled, FixSettled
  <2>. QED  BY <2>1, <2>2
<1>. QED  BY <1>1, <1>2 DEF Processed, Grown

LEMMA NextProcessed == ASSUME Types, Processed, [Next]_vars PROVE Processed'
<1>1. CASE UNCHANGED vars
  BY <1>1 DEF vars, Processed, DeleteSettled, FixSettled, AtWork
<1>2. CASE Scan \/ BackUp \/ Kill \/ StartRollback \/ FinishRollback
           \/ \E o \in Objects : RestoreEntry(o)
  BY <1>2 DEF Scan, BackUp, Kill, StartRollback, FinishRollback, RestoreEntry, Processed
<1>3. CASE StartRun
  BY <1>3 DEF StartRun, Processed
<1>4. CASE PhaseOver
  BY <1>4 DEF PhaseOver, NextPhase, Processed, DeleteSettled, FixSettled, AtWork
<1>5. CASE TakeSource
  BY <1>5 DEF TakeSource, Processed, DeleteSettled, FixSettled
<1>6. CASE DeleteObject
  <2>1. current \in Deletes /\ DeleteNow(current) /\ phase = "delete" /\ UNCHANGED <<phase, todo>>
    BY <1>6 DEF Types, PhaseTypes, DeleteObject
  <2>2. Grown /\ step' = "next" /\ current \in DeleteSettled'
    BY <2>1, DeleteNowGrows
  <2>. QED  BY <2>1, <2>2 DEF Processed, Grown, AtWork
<1>7. CASE Import
  BY <1>7 DEF Import, Processed, DeleteSettled, FixSettled, AtWork
<1>8. CASE \E o \in Objects : TenantEdits(o)
  BY <1>8 DEF TenantEdits, Processed, DeleteSettled, FixSettled, AtWork, entry
<1>. QED
  BY <1>1, <1>2, <1>3, <1>4, <1>5, <1>6, <1>7, <1>8, CheckProcessed, FetchProcessed,
     VerifyProcessed, DeleteSetProcessed DEF Next

\* Only deletes make an object disappear, and only the last phase deletes Sets.
LEMMA SetsGoOnlyByDeleteSet ==
  ASSUME Types, [Next]_vars, NEW k \in Sets, k \in present \ present'
  PROVE  DeleteSet(k) /\ MayDeleteSet(k)
<1>1. k \notin Deletes /\ k \notin Fixes /\ k # Source /\ k \in Objects
  BY ChangeAssumption DEF Objects
<1>2. CASE UNCHANGED server \/ \E o \in Objects : TenantEdits(o)
  BY <1>2 DEF server, TenantEdits
<1>3. CASE DeleteObject
  <2>1. current \in Deletes
    BY <1>3 DEF Types, PhaseTypes, DeleteObject
  <2>. QED  BY <1>1, <1>3, <2>1 DEF DeleteObject, DeleteNow, Removed, server
<1>4. CASE Import
  BY <1>4 DEF Import, Applied, server
<1>5. CASE Kill
  <2>1. phase = "delete" /\ step = "checked" => current \in Deletes
    BY DEF Types, PhaseTypes
  <2>. QED  BY <1>1, <1>5, <2>1 DEF Kill, Applied, Removed, server
<1>6. CASE \E o \in Objects : RestoreEntry(o)
  BY <1>6 DEF RestoreEntry, Restored, server
<1>7. ASSUME NEW o \in Objects, DeleteSet(o) PROVE DeleteSet(k) /\ MayDeleteSet(k)
  <2>1. MayDeleteSet(o)
    BY <1>7 DEF DeleteSet, server
  <2>2. present' = present \ {o} \/ present' = present
    BY <1>7, <2>1 DEF DeleteSet, DeleteNow, Removed, server
  <2>. QED  BY <1>7, <2>1, <2>2
<1>8. CASE Scan \/ BackUp \/ StartRun \/ PhaseOver \/ TakeSource \/ Fetch \/ Verify
           \/ StartRollback \/ FinishRollback \/ (\E o \in Objects : Check(o)) \/ UNCHANGED vars
  BY <1>2, <1>8 DEF Scan, BackUp, StartRun, PhaseOver, TakeSource, Fetch, Verify, StartRollback,
     FinishRollback, Check, vars, server
<1>. QED  BY <1>2, <1>3, <1>4, <1>5, <1>6, <1>7, <1>8 DEF Next

\* A reusable Set is deleted only past its consumer guard: a consumer that is still there
\* and still refers to it was passed over, or its own delete did not work, or its fix was
\* listed as done with nothing to show it.
\* (set_delete_decision over what the phases before have recorded)
THEOREM SetsGoPastTheGuard == Spec => SetsGuarded
<1>. DEFINE Inv == Types /\ Reports /\ Processed
<1>1. Spec => []Inv
  <2>1. Init => Processed
    BY DEF Init, Processed
  <2>2. Processed /\ Types /\ [Next]_vars => Processed'
    BY NextProcessed
  <2>. QED  BY <2>1, <2>2, ReportsInvariant, PTL DEF Spec
<1>2. Inv /\ [Next]_vars =>
        [\A k \in Sets : k \in present \ present' =>
           \A c \in InUseBy[k] \cap present :
              form[c] = "old" =>
                  c \in results.skipped \cup results.failedOther \cup results.guessed
                            \cup results.unseen]_vars
  <2>1. SUFFICES ASSUME Inv, [Next]_vars,
                        NEW k \in Sets, k \in present \ present',
                        NEW c \in InUseBy[k] \cap present, form[c] = "old"
                 PROVE  c \in results.skipped \cup results.failedOther \cup results.guessed
                                  \cup results.unseen
    OBVIOUS
  <2>2. DeleteSet(k) /\ MayDeleteSet(k)
    BY <2>1, SetsGoOnlyByDeleteSet
  <2>3. /\ Deletes \subseteq DeleteSettled /\ Fixes \subseteq FixSettled
        /\ c \in Fixes \cup Deletes /\ c \notin results.failedFix
    BY <2>1, <2>2, ChangeAssumption DEF DeleteSet, MayDeleteSet, Processed
  <2>4. c \in results.succeeded => c \in results.unseen
    BY <2>1 DEF Reports, SucceededIsTrue
  <2>5. c \in results.deleted => c \in results.guessed
    BY <2>1 DEF Reports, DeletedIsGone
  <2>. QED  BY <2>3, <2>4, <2>5 DEF DeleteSettled, FixSettled
<1>. QED  BY <1>1, <1>2, PTL DEF Spec, SetsGuarded

-----------------------------------------------------------------------------
(* The plan's `modified` times tie an object to its backup: as long as the *)
(* time is the plan's, nobody has saved the object since the scan, so the  *)
(* content is the backup's and the run has not changed it yet.             *)

Tracked == Checked \ Unstamped
Running == phase \in {"idle", "delete", "fix", "source", "sets"}

OnRecord(o) ==
    /\ 0 < stamps[o] /\ stamps[o] <= modified[o]
    /\ changes[o] > 0 /\ o \in present => stamps[o] < modified[o]
    /\ modified[o] = stamps[o] /\ o \in present /\ o \in DOMAIN backup
          => content[o] = backup[o]

\* What is about to be changed has not been changed, and is in the backup as checked.
Fresh(o) == changes[o] = 0 /\ backup[o] = checkedAt[o]

Planned == phase = "backup" \/ Running => \A o \in Tracked : OnRecord(o)
Untouched == /\ phase = "scan" => DOMAIN backup = {}
             /\ ~Running => \A o \in Objects : changes[o] = 0
Once == \A o \in Tracked : changes[o] <= 1 /\ (changes[o] > 0 => backup[o] = checkedAt[o])
WorkFresh == step \in {"checked", "fetched"} /\ current \in Tracked => Fresh(current)
SourceFresh == phase \in {"delete", "fix"} \/ (phase = "source" /\ Source \in todo) => Fresh(Source)

Tracking == Planned /\ Untouched /\ Once /\ WorkFresh /\ SourceFresh

LEMMA TrackedIsChecked == Tracked \subseteq Checked /\ Tracked \subseteq Objects /\ Source \in Tracked
  BY ChangeAssumption DEF Tracked, Checked, Changed, Objects

LEMMA InitTracking == ASSUME Init PROVE Tracking
  BY TrackedIsChecked
  DEF Init, Tracking, Planned, Untouched, Once, WorkFresh, SourceFresh, Running

\* An object that passes the drift check is as it was at the scan.
LEMMA NoDriftIsFresh ==
  ASSUME Types, Tracking, Running, NEW o \in Tracked, NEW answered \in BOOLEAN,
         DriftOk(o, answered)
  PROVE  changes[o] = 0 /\ content[o] = backup[o]
<1>1. OnRecord(o) /\ o \in DOMAIN backup
  BY TrackedIsChecked DEF Tracking, Planned, Types, PlanTypes, Running
<1>2. modified[o] = stamps[o] /\ o \in present
  BY <1>1 DEF DriftOk, IsDrift, OnRecord
<1>3. changes[o] \in Nat /\ modified[o] \in Nat /\ stamps[o] \in Nat
  BY TrackedIsChecked DEF Types, GhostTypes, ServerTypes, PlanTypes
<1>. QED  BY <1>1, <1>2, <1>3 DEF OnRecord

\* A change of an object that was fresh, by an import or a delete.
LEMMA ChangeTracking ==
  ASSUME Types, Tracking, Running, Running', UNCHANGED <<plan, checkedAt>>, NEW o \in Objects,
         o \in Tracked => Fresh(o),
         \/ Applied(o)
         \/ Removed(o)
  PROVE  /\ Planned' /\ Untouched' /\ Once'
         /\ o # Source /\ Fresh(Source) => Fresh(Source)'
<1>. USE TrackedIsChecked
<1>1. /\ changes' = [changes EXCEPT ![o] = @ + 1] /\ changes \in [Objects -> Nat]
      /\ stamps' = stamps /\ backup' = backup /\ checkedAt' = checkedAt
  BY DEF Applied, Removed, Types, GhostTypes, plan
<1>2. ASSUME NEW p \in Tracked PROVE OnRecord(p)'
  <2>1. /\ OnRecord(p) /\ stamps[p] \in Nat /\ modified[p] \in Nat /\ changes[p] \in Nat
    BY <1>2 DEF Tracking, Planned, Types, GhostTypes, ServerTypes, PlanTypes
  <2>2. CASE Applied(o)
    <3>1. /\ modified' = [modified EXCEPT ![o] = @ + 1] /\ modified \in [Objects -> Nat]
          /\ content' = [content EXCEPT ![o] = body] /\ content \in [Objects -> {0, 1}]
          /\ present' = present
      BY <2>2 DEF Applied, Types, ServerTypes
    <3>2. CASE p = o
      <4>1. modified'[p] = modified[p] + 1
        BY <3>1, <3>2
      <4>. QED  BY <1>1, <2>1, <4>1 DEF OnRecord
    <3>3. CASE p # o
      <4>1. modified'[p] = modified[p] /\ content'[p] = content[p] /\ changes'[p] = changes[p]
        BY <1>1, <3>1, <3>3
      <4>. QED  BY <1>1, <2>1, <3>1, <4>1 DEF OnRecord
    <3>. QED  BY <3>2, <3>3
  <2>3. CASE Removed(o)
    <3>1. present' = present \ {o} /\ content' = content /\ modified' = modified
      BY <2>3 DEF Removed
    <3>2. p # o => changes'[p] = changes[p]
      BY <1>1
    <3>. QED  BY <1>1, <2>1, <3>1, <3>2 DEF OnRecord
  <2>. QED  BY <2>2, <2>3
<1>3. Once'
  <2>1. ASSUME NEW p \in Tracked
        PROVE  changes'[p] <= 1 /\ (changes'[p] > 0 => backup'[p] = checkedAt'[p])
    <3>1. CASE p = o
      BY <1>1, <2>1, <3>1 DEF Fresh
    <3>2. CASE p # o
      BY <1>1, <2>1, <3>2 DEF Tracking, Once
    <3>. QED  BY <3>1, <3>2
  <2>. QED  BY <2>1 DEF Once
<1>4. Untouched'
  BY DEF Untouched, Running
<1>5. o # Source /\ Fresh(Source) => Fresh(Source)'
  BY <1>1 DEF Fresh
<1>. QED  BY <1>2, <1>3, <1>4, <1>5 DEF Planned

\* What touches neither the server nor the plan nor the record of the checks.
LEMMA KeptTracking ==
  ASSUME Types, Tracking, UNCHANGED <<server, plan, ghosts>>,
         phase = "backup" \/ Running, Running',
         step' \in {"checked", "fetched"} /\ current' \in Tracked => Fresh(current'),
         phase' \in {"delete", "fix"} \/ (phase' = "source" /\ Source \in todo') => Fresh(Source)
  PROVE  Tracking'
<1>1. Planned'
  BY DEF Tracking, Planned, OnRecord, server, plan, ghosts
<1>2. Untouched' /\ Once'
  BY DEF Tracking, Untouched, Once, Running, server, plan, ghosts
<1>3. WorkFresh' /\ SourceFresh'
  BY DEF WorkFresh, SourceFresh, Fresh, plan, ghosts
<1>. QED  BY <1>1, <1>2, <1>3 DEF Tracking

LEMMA ScanTracking == ASSUME Types, Tracking, Scan PROVE Tracking'
<1>1. Planned'
  <2>1. ASSUME NEW o \in Tracked PROVE OnRecord(o)'
    <3>1. modified[o] \in Nat \ {0} /\ stamps'[o] = modified[o] /\ modified' = modified
      BY TrackedIsChecked, <2>1 DEF Scan, server, Types, ServerTypes, Tracked
    <3>2. changes'[o] = 0 /\ o \notin DOMAIN backup'
      BY TrackedIsChecked, <2>1 DEF Scan, ghosts, Tracking, Untouched, Running
    <3>. QED  BY <3>1, <3>2 DEF OnRecord
  <2>. QED  BY <2>1 DEF Planned
<1>2. Untouched' /\ Once' /\ WorkFresh' /\ SourceFresh'
  BY DEF Scan, ghosts, entry, Tracking, Untouched, Running, Once, WorkFresh, SourceFresh, Fresh,
         Types, PhaseTypes
<1>. QED  BY <1>1, <1>2 DEF Tracking

LEMMA BackUpTracking == ASSUME Types, Tracking, BackUp PROVE Tracking'
<1>1. /\ phase = "backup" /\ phase' \in {"backup", "idle"}
      /\ UNCHANGED <<server, stamps, step, entry, todo, ghosts>>
  BY DEF BackUp
<1>2. \A o \in Objects : changes[o] = 0
  BY <1>1 DEF Tracking, Untouched, Running
<1>3. Planned'
  <2>1. ASSUME NEW o \in Tracked PROVE OnRecord(o)'
    <3>1. OnRecord(o) /\ changes'[o] = 0 /\ changes[o] = 0
      BY TrackedIsChecked, <1>1, <1>2, <2>1 DEF Tracking, Planned, ghosts
    <3>2. \/ o \in DOMAIN backup' => o \in DOMAIN backup /\ backup'[o] = backup[o]
          \/ backup'[o] = content[o]
      <4>1. CASE UNCHANGED backup
        BY <4>1
      <4>2. CASE \E p \in Due : backup' = [q \in DOMAIN backup \cup {p} |->
                                             IF q = p THEN content[p] ELSE backup[q]]
        <5>1. PICK p \in Due : backup' = [q \in DOMAIN backup \cup {p} |->
                                             IF q = p THEN content[p] ELSE backup[q]]
          BY <4>2
        <5>2. CASE o = p
          BY <5>1, <5>2
        <5>3. CASE o # p
          BY <5>1, <5>3
        <5>. QED  BY <5>2, <5>3
      <4>. QED  BY <4>1, <4>2 DEF BackUp
    <3>. QED  BY <1>1, <3>1, <3>2 DEF OnRecord, server
  <2>. QED  BY <2>1 DEF Planned
<1>4. step = "next"
  BY <1>1 DEF Types, PhaseTypes
<1>5. Untouched' /\ Once' /\ WorkFresh' /\ SourceFresh'
  BY TrackedIsChecked, <1>1, <1>2, <1>4
  DEF ghosts, Untouched, Running, Once, WorkFresh, SourceFresh
<1>. QED  BY <1>3, <1>5 DEF Tracking

\* A drift check that is passed, of the source or of an entry, makes the object fresh.
LEMMA PassedCheck ==
  ASSUME Types, Tracking, Running, Running', UNCHANGED <<server, plan, changes>>,
         NEW o \in Objects, NEW answered \in BOOLEAN, DriftOk(o, answered),
         checkedAt' = [checkedAt EXCEPT ![o] = content[o]]
  PROVE  /\ Planned' /\ Untouched' /\ Once'
         /\ o \in Tracked => Fresh(o)'
         /\ o # Source /\ Fresh(Source) => Fresh(Source)'
<1>. USE TrackedIsChecked
<1>1. checkedAt \in [Objects -> {0, 1}] /\ changes' = changes /\ backup' = backup
  BY DEF Types, GhostTypes, plan
<1>2. o \in Tracked => changes[o] = 0 /\ content[o] = backup[o]
  BY NoDriftIsFresh
<1>3. Planned'
  BY DEF Tracking, Planned, OnRecord, server, plan
<1>4. Untouched'
  BY DEF Untouched, Running
<1>5. Once'
  BY <1>1, <1>2 DEF Tracking, Once
<1>. QED  BY <1>1, <1>2, <1>3, <1>4, <1>5 DEF Fresh

LEMMA StartRunTracking == ASSUME Types, Tracking, StartRun PROVE Tracking'
<1>1. phase = "idle" /\ step = "next" /\ step' = "next" /\ Running /\ Source \in Objects
  BY TrackedIsChecked DEF StartRun, Types, PhaseTypes, Running
<1>2. PICK answered \in BOOLEAN :
        IF DriftOk(Source, answered)
        THEN phase' = "delete" /\ checkedAt' = [checkedAt EXCEPT ![Source] = content[Source]]
        ELSE UNCHANGED <<phase, todo, checkedAt>>
  BY DEF StartRun
<1>3. UNCHANGED <<server, plan, changes>>
  BY DEF StartRun
<1>4. CASE DriftOk(Source, answered)
  <2>1. Running' /\ Planned' /\ Untouched' /\ Once' /\ Fresh(Source)'
    BY <1>1, <1>2, <1>3, <1>4, PassedCheck, TrackedIsChecked DEF Running
  <2>. QED  BY <1>1, <2>1 DEF Tracking, WorkFresh, SourceFresh
<1>5. CASE ~DriftOk(Source, answered)
  BY <1>1, <1>2, <1>3, <1>5, KeptTracking DEF ghosts, Running
<1>. QED  BY <1>4, <1>5

LEMMA CheckTracking == ASSUME Types, Tracking, NEW o \in Objects, Check(o) PROVE Tracking'
<1>1. /\ phase \in {"delete", "fix"} /\ phase' = phase /\ Running /\ Running'
      /\ o \in Fixes \cup Deletes /\ o # Source /\ current' = o /\ Fresh(Source)
  BY ChangeAssumption
  DEF Check, Running, Types, PhaseTypes, Tracking, SourceFresh
<1>2. UNCHANGED <<server, plan, changes>>
  BY DEF Check
<1>3. PICK answered \in BOOLEAN :
        IF DriftOk(o, answered)
        THEN checkedAt' = [checkedAt EXCEPT ![o] = content[o]]
        ELSE step' = "next" /\ UNCHANGED checkedAt
  BY DEF Check, Record
<1>4. CASE DriftOk(o, answered)
  <2>1. /\ Planned' /\ Untouched' /\ Once' /\ Fresh(Source)'
        /\ o \in Tracked => Fresh(o)'
    BY <1>1, <1>2, <1>3, <1>4, PassedCheck
  <2>. QED  BY <1>1, <2>1 DEF Tracking, WorkFresh, SourceFresh, Fresh
<1>5. CASE ~DriftOk(o, answered)
  BY <1>1, <1>2, <1>3, <1>5, KeptTracking DEF ghosts
<1>. QED  BY <1>4, <1>5

LEMMA PhaseOverTracking == ASSUME Types, Tracking, PhaseOver PROVE Tracking'
<1>1. step' = "next" /\ UNCHANGED <<server, plan, ghosts>> /\ Running /\ Running'
  BY DEF PhaseOver, NextPhase, Running
<1>2. phase' \in {"delete", "fix"} \/ (phase' = "source" /\ Source \in todo') => Fresh(Source)
  BY DEF PhaseOver, NextPhase, Tracking, SourceFresh
<1>. QED  BY <1>1, <1>2, KeptTracking

LEMMA TakeSourceTracking == ASSUME Types, Tracking, TakeSource PROVE Tracking'
<1>1. /\ UNCHANGED <<server, plan, ghosts>> /\ Running /\ Running' /\ current' = Source
      /\ phase' = "source" /\ todo' = {} /\ Fresh(Source)
  BY DEF TakeSource, Running, Tracking, SourceFresh
<1>. QED  BY <1>1, KeptTracking

\* The delete of an object or a Set
LEMMA DeleteNowTracking ==
  ASSUME Types, Tracking, NEW o \in Deletes \cup Sets, DeleteNow(o), Running,
         UNCHANGED <<plan, phase, checkedAt>>, o \in Tracked => Fresh(o)
  PROVE  /\ Planned' /\ Untouched' /\ Once' /\ step' = "next"
         /\ Fresh(Source) => Fresh(Source)'
<1>1. o \in Objects /\ o # Source /\ Running'
  BY ChangeAssumption DEF Objects, Checked, Running
<1>2. step' = "next"
  BY DEF DeleteNow, Record
<1>3. CASE Removed(o)
  BY <1>1, <1>2, <1>3, ChangeTracking
<1>4. CASE UNCHANGED <<server, changes>>
  <2>1. Planned'
    BY <1>4 DEF Tracking, Planned, OnRecord, Running, server, plan
  <2>2. Untouched' /\ Once' /\ (Fresh(Source) => Fresh(Source)')
    BY <1>4 DEF Tracking, Untouched, Once, Fresh, Running, plan
  <2>. QED  BY <1>2, <2>1, <2>2
<1>. QED  BY <1>3, <1>4 DEF DeleteNow

LEMMA DeleteObjectTracking == ASSUME Types, Tracking, DeleteObject PROVE Tracking'
<1>1. /\ phase = "delete" /\ Running /\ current \in Deletes /\ DeleteNow(current)
      /\ UNCHANGED <<plan, phase, todo, checkedAt>>
      /\ current \in Tracked => Fresh(current)
      /\ Fresh(Source)
  BY DEF DeleteObject, Running, Types, PhaseTypes, Tracking, WorkFresh, SourceFresh
<1>2. /\ Planned' /\ Untouched' /\ Once' /\ step' = "next" /\ Fresh(Source)'
  BY <1>1, DeleteNowTracking
<1>. QED  BY <1>2 DEF Tracking, WorkFresh, SourceFresh

LEMMA DeleteSetTracking ==
  ASSUME Types, Tracking, NEW k \in Objects, DeleteSet(k) PROVE Tracking'
<1>1. /\ phase = "sets" /\ Running /\ k \in Sets /\ k \notin Tracked
      /\ UNCHANGED <<plan, phase, checkedAt>>
  BY ChangeAssumption
  DEF DeleteSet, Running, Types, PhaseTypes, Tracked, Checked, Changed
<1>2. CASE MayDeleteSet(k)
  <2>1. Planned' /\ Untouched' /\ Once' /\ step' = "next"
    BY <1>1, <1>2, DeleteNowTracking DEF DeleteSet
  <2>. QED  BY <1>1, <2>1 DEF Tracking, WorkFresh, SourceFresh
<1>3. CASE ~MayDeleteSet(k)
  <2>1. UNCHANGED <<server, ghosts>> /\ step' = "next"
    BY <1>1, <1>3 DEF DeleteSet, Record, ghosts
  <2>. QED  BY <1>1, <2>1, KeptTracking DEF Running
<1>. QED  BY <1>2, <1>3

LEMMA FetchTracking == ASSUME Types, Tracking, Fetch PROVE Tracking'
<1>1. /\ Running /\ Running' /\ UNCHANGED <<server, plan, ghosts, phase, todo, current>>
      /\ current \in Tracked => Fresh(current)
  BY DEF Fetch, Running, Tracking, WorkFresh
<1>. QED  BY <1>1, KeptTracking DEF Tracking, SourceFresh

LEMMA ImportTracking == ASSUME Types, Tracking, Import PROVE Tracking'
<1>1. /\ Running /\ Running' /\ UNCHANGED <<plan, checkedAt, phase, todo>> /\ step' = "imported"
      /\ current \in Objects
      /\ current \in Tracked => Fresh(current)
  BY DEF Import, Running, Types, PhaseTypes, Tracking, WorkFresh
<1>2. phase \in {"delete", "fix"} \/ (phase = "source" /\ Source \in todo) => current # Source
  BY ChangeAssumption DEF Import, Types, PhaseTypes
<1>3. CASE Applied(current)
  <2>1. /\ Planned' /\ Untouched' /\ Once'
        /\ current # Source /\ Fresh(Source) => Fresh(Source)'
    BY <1>1, <1>3, ChangeTracking
  <2>. QED  BY <1>1, <1>2, <2>1 DEF Tracking, WorkFresh, SourceFresh
<1>4. CASE UNCHANGED <<server, changes>>
  BY <1>1, <1>4, KeptTracking DEF ghosts, Tracking, SourceFresh
<1>. QED  BY <1>3, <1>4 DEF Import

LEMMA VerifyTracking == ASSUME Types, Tracking, Verify PROVE Tracking'
<1>1. /\ Running /\ Running' /\ UNCHANGED <<server, plan, ghosts, phase, todo>> /\ step' = "next"
  BY DEF Verify, Record, Running, Types, PhaseTypes
<1>. QED  BY <1>1, KeptTracking DEF Tracking, SourceFresh

LEMMA KillTracking == ASSUME Types, Tracking, Kill PROVE Tracking'
<1>1. /\ Running /\ Running' /\ UNCHANGED <<plan, checkedAt>> /\ phase' = "idle" /\ step' = "next"
      /\ current \in Objects
  BY DEF Kill, Running, Types, PhaseTypes
<1>2. CASE UNCHANGED <<server, changes>>
  BY <1>1, <1>2, KeptTracking DEF ghosts
<1>3. CASE ~UNCHANGED <<server, changes>>
  <2>1. (Applied(current) \/ Removed(current)) /\ (current \in Tracked => Fresh(current))
    BY <1>3 DEF Kill, Tracking, WorkFresh
  <2>2. Planned' /\ Untouched' /\ Once'
    BY <1>1, <2>1, ChangeTracking
  <2>. QED  BY <1>1, <2>2 DEF Tracking, WorkFresh, SourceFresh
<1>. QED  BY <1>2, <1>3

LEMMA RollbackTracking ==
  ASSUME Types, Tracking,
         StartRollback \/ FinishRollback \/ \E o \in Objects : RestoreEntry(o)
  PROVE  Tracking'
<1>1. /\ phase' \in {"rollback", "undone"} /\ step' = "next"
      /\ \A o \in Objects : changes'[o] = 0
  <2>1. CASE StartRollback
    BY <2>1 DEF StartRollback, Types, PhaseTypes
  <2>2. CASE FinishRollback \/ \E o \in Objects : RestoreEntry(o)
    BY <2>2 DEF FinishRollback, RestoreEntry, ghosts, Types, PhaseTypes, Tracking, Untouched,
                Running
  <2>. QED  BY <2>1, <2>2
<1>. QED
  BY <1>1, TrackedIsChecked
  DEF Tracking, Planned, Untouched, Once, WorkFresh, SourceFresh, Running

LEMMA TenantEditsTracking ==
  ASSUME Types, Tracking, NEW o \in Objects, TenantEdits(o) PROVE Tracking'
<1>1. /\ content' = [content EXCEPT ![o] = 1] /\ content \in [Objects -> {0, 1}]
      /\ modified' = [modified EXCEPT ![o] = @ + 1] /\ modified \in [Objects -> Nat]
      /\ UNCHANGED <<present, plan, phase, step, entry, todo, ghosts>>
  BY DEF TenantEdits, Types, ServerTypes
<1>2. Planned'
  <2>1. ASSUME NEW p \in Tracked, OnRecord(p) PROVE OnRecord(p)'
    <3>1. stamps[p] \in Nat /\ modified[p] \in Nat /\ p \in Objects
      BY TrackedIsChecked, <1>1, <2>1 DEF Types, PlanTypes
    <3>2. CASE p = o
      <4>1. modified'[p] = modified[p] + 1
        BY <1>1, <3>2
      <4>. QED  BY <1>1, <2>1, <3>1, <4>1 DEF OnRecord, plan, ghosts
    <3>3. CASE p # o
      <4>1. modified'[p] = modified[p] /\ content'[p] = content[p]
        BY <1>1, <3>1, <3>3
      <4>. QED  BY <1>1, <2>1, <4>1 DEF OnRecord, plan, ghosts
    <3>. QED  BY <3>2, <3>3
  <2>. QED  BY <1>1, <2>1 DEF Tracking, Planned, Running
<1>3. Untouched' /\ Once' /\ WorkFresh' /\ SourceFresh'
  BY <1>1 DEF Tracking, Untouched, Once, WorkFresh, SourceFresh, Fresh, Running, plan, ghosts,
              entry
<1>. QED  BY <1>2, <1>3 DEF Tracking

LEMMA NextTracking == ASSUME Types, Tracking, [Next]_vars PROVE Tracking'
<1>1. CASE UNCHANGED vars
  BY <1>1 DEF vars, Tracking, Planned, OnRecord, Untouched, Once, WorkFresh, SourceFresh, Fresh,
              Running
<1>. QED
  BY <1>1, ScanTracking, BackUpTracking, StartRunTracking, PhaseOverTracking, CheckTracking,
     TakeSourceTracking, DeleteObjectTracking, FetchTracking, ImportTracking, VerifyTracking,
     DeleteSetTracking, RollbackTracking, KillTracking, TenantEditsTracking DEF Next

LEMMA TrackingInvariant == Spec => [](Types /\ Tracking)
<1>1. Init => Types /\ Tracking
  BY InitTypes, InitTracking
<1>2. (Types /\ Tracking) /\ [Next]_vars => (Types /\ Tracking)'
  BY NextTypes, NextTracking
<1>. QED  BY <1>1, <1>2, PTL DEF Spec

\* However often a plan is run again after kills, wrong answers and partial failures, an
\* object the scan has found a `modified` time for is changed or deleted at most once.
\* (_drift_ok, is_drift)
THEOREM NoObjectIsChangedTwice == Spec => []ChangedOnce
<1>1. Tracking => ChangedOnce
  BY DEF Tracking, Once, ChangedOnce, Tracked
<1>. QED  BY <1>1, TrackingInvariant, PTL

\* Whatever is changed or deleted is in the backup with the content its drift check has
\* accepted: what a tenant saves between the scan, the backup and the check is never lost.
\* (apply_change_cmd: "A prior backup is REQUIRED")
THEOREM RollbackStaysPossible == Spec => []ChangedIsBackedUp
<1>1. Tracking => ChangedIsBackedUp
  BY DEF Tracking, Once, ChangedIsBackedUp, Tracked
<1>. QED  BY <1>1, TrackingInvariant, PTL

-----------------------------------------------------------------------------
(* A run without faults and edits                                          *)

\* Within the fixes what is built on an object comes before it, and the source is built
\* on none of its dependents.  FIX_ORDER orders types: a View on a View, which has the
\* same rank, or a Model on a View, whose rank is higher, is not in order.
InOrder ==
    /\ \A o, p \in Fixes : o \in BuiltOn[p] => FixRank[p] < FixRank[o]
    /\ BuiltOn[Source] \cap Changed = {}

\* What the run has still to change: the entry in hand, the rest of the phase, and the
\* phases after it.
InHand == IF step \in {"checked", "fetched"} THEN {current} ELSE {}
Later ==
    CASE phase = "delete" -> Fixes \cup {Source} \cup Sets
      [] phase = "fix"    -> {Source} \cup Sets
      [] phase = "source" -> Sets
      [] OTHER            -> IF runs = 0 THEN Objects ELSE {}
Left == todo \cup InHand \cup Later

AsScanned(o) == o \in present /\ form[o] = "old" /\ modified[o] = 1
AsPlanned(o) ==
    IF o \in Changed THEN o \in present /\ form[o] = "new" /\ modified[o] = 2
                     ELSE o \notin present

Going ==
    /\ \A o \in Left : AsScanned(o)
    /\ \A o \in Objects \ Left : AsPlanned(o)
    /\ results.failedFix = {}
    /\ \A o \in Objects : stamps[o] \in {0, 1}
    /\ phase # "scan" => stamps[Source] = 1
    /\ phase \in {"scan", "backup", "idle"} => todo = {}
    /\ phase \in {"scan", "backup"} => runs = 0
    /\ phase \in {"delete", "fix", "source", "sets"} => runs > 0
    /\ step # "next" => current \notin todo
    /\ phase = "fix" /\ step # "next" => \A p \in todo : FixRank[current] <= FixRank[p]

Smooth == quiet /\ ~Undoing => Going

LEMMA Members ==
  /\ Source \in Objects /\ Fixes \subseteq Objects /\ Deletes \subseteq Objects
  /\ Sets \subseteq Objects /\ Changed \subseteq Objects
  /\ \A o \in Objects : o \in Changed \/ o \in Deletes \/ o \in Sets
  /\ Source \in Changed /\ Fixes \subseteq Changed
  /\ \A o \in Deletes \cup Sets : o \notin Changed
  BY ChangeAssumption DEF Objects, Checked, Changed

LEMMA QuietStep ==
  ASSUME [Next]_vars, quiet', ~Undoing'
  PROVE  quiet /\ ~Undoing
<1>. USE DEF Undoing, Fault
<1>1. CASE \/ Scan \/ BackUp \/ StartRun \/ PhaseOver \/ TakeSource \/ UNCHANGED vars
           \/ \E o \in Objects : Check(o) \/ TenantEdits(o)
  BY <1>1 DEF Scan, BackUp, StartRun, PhaseOver, NextPhase, TakeSource, vars, Check, TenantEdits
<1>2. CASE DeleteObject \/ \E o \in Objects : DeleteSet(o)
  BY <1>2 DEF DeleteObject, DeleteSet, DeleteNow
<1>3. CASE Fetch \/ Import \/ Verify \/ Kill
  BY <1>3 DEF Fetch, Import, Verify, Kill
<1>4. CASE StartRollback \/ FinishRollback \/ \E o \in Objects : RestoreEntry(o)
  BY <1>4 DEF StartRollback, FinishRollback, RestoreEntry
<1>. QED  BY <1>1, <1>2, <1>3, <1>4 DEF Next

\* A step that leaves the server, the plan and what is left alone.
LEMMA OnlyOn ==
  ASSUME Going, UNCHANGED <<present, form, modified, stamps>>, Left' = Left,
         results'.failedFix = {}, phase # "scan",
         phase' # "scan", phase' \in {"backup", "idle"} => todo' = {},
         phase' = "backup" => runs' = 0,
         phase' \in {"delete", "fix", "source", "sets"} => runs' > 0,
         step' # "next" => current' \notin todo',
         phase' = "fix" /\ step' # "next" => \A p \in todo' : FixRank[current'] <= FixRank[p]
  PROVE  Going'
  BY DEF Going, AsScanned, AsPlanned

LEMMA ScanGoes == ASSUME Types, Going, Scan PROVE Going'
<1>1. /\ phase = "scan" /\ phase' = "backup" /\ runs = 0 /\ runs' = 0 /\ step = "next"
      /\ UNCHANGED <<present, form, modified, step, current, todo, results>> /\ todo = {}
      /\ stamps' = [o \in Objects |-> IF o \in Unstamped THEN 0 ELSE modified[o]]
  BY DEF Scan, Types, PhaseTypes, Going, server, entry
<1>2. Left = Objects /\ Left' = Objects
  BY <1>1 DEF Left, Later, InHand
<1>3. Source \notin Unstamped /\ \A o \in Objects : modified[o] = 1
  BY <1>2, ChangeAssumption DEF Going, AsScanned
<1>4. stamps'[Source] = 1 /\ \A o \in Objects : stamps'[o] \in {0, 1}
  BY <1>1, <1>3, Members
<1>. QED  BY <1>1, <1>2, <1>4 DEF Going, AsScanned, AsPlanned

LEMMA BackUpGoes == ASSUME Types, Going, BackUp PROVE Going'
<1>1. /\ phase = "backup" /\ phase' \in {"backup", "idle"} /\ runs = 0 /\ runs' = 0
      /\ step = "next" /\ todo = {}
      /\ UNCHANGED <<present, form, modified, stamps, step, current, todo, results>>
  BY DEF BackUp, Types, PhaseTypes, Going, server, entry
<1>2. Left = Objects /\ Left' = Objects
  BY <1>1 DEF Left, Later, InHand
<1>. QED  BY <1>1, <1>2, OnlyOn DEF Going

\* The first run passes the check of the source, and every later one is stopped by it.
LEMMA StartRunGoes == ASSUME Types, Going, quiet', StartRun PROVE Going'
<1>1. /\ phase = "idle" /\ runs' = runs + 1 /\ runs \in Nat /\ step = "next" /\ todo = {}
      /\ UNCHANGED <<present, form, modified, stamps, step, current>>
  BY DEF StartRun, Types, PhaseTypes, GhostTypes, Going, server, plan, entry
<1>2. \/ /\ DriftOk(Source, TRUE) /\ phase' = "delete" /\ todo' = Deletes
         /\ results' = NoResults
      \/ /\ ~DriftOk(Source, TRUE) /\ results' = [NoResults EXCEPT !.aborted = TRUE]
         /\ UNCHANGED <<phase, todo>>
  BY DEF StartRun, Fault
<1>3. results'.failedFix = {}
  <2>1. CASE results' = NoResults
    BY <2>1 DEF NoResults
  <2>2. CASE results' = [NoResults EXCEPT !.aborted = TRUE]
    BY <2>2 DEF NoResults
  <2>. QED  BY <1>2, <2>1, <2>2
<1>4. CASE runs = 0
  <2>1. Left = Objects
    BY <1>1, <1>4 DEF Left, Later, InHand
  <2>2. DriftOk(Source, TRUE)
    BY <1>1, <2>1, Members DEF Going, AsScanned, DriftOk, IsDrift
  <2>3. phase' = "delete" /\ todo' = Deletes
    BY <1>2, <2>2
  <2>4. Left' = Objects
    BY <1>1, <2>3 DEF Left, Later, InHand, Objects, Checked, Changed
  <2>5. runs' > 0 /\ phase # "scan" /\ step' = "next"
    BY <1>1, <1>4
  <2>. QED  BY <1>1, <1>3, <2>1, <2>3, <2>4, <2>5, OnlyOn
<1>5. CASE runs # 0
  <2>1. Left = {}
    BY <1>1, <1>5 DEF Left, Later, InHand
  <2>2. modified[Source] = 2 /\ stamps[Source] = 1
    BY <1>1, <2>1, Members DEF Going, AsPlanned
  <2>3. ~DriftOk(Source, TRUE)
    BY <2>2 DEF DriftOk, IsDrift
  <2>4. runs' # 0
    BY <1>1, <1>5
  <2>5. UNCHANGED <<phase, todo>>
    BY <1>2, <2>3
  <2>6. phase' = "idle" /\ todo' = {} /\ step' = "next" /\ phase # "scan"
    BY <1>1, <2>5
  <2>7. Left' = {}
    BY <2>4, <2>6 DEF Left, Later, InHand
  <2>. QED  BY <1>1, <1>3, <2>1, <2>6, <2>7, OnlyOn
<1>. QED  BY <1>4, <1>5

LEMMA PhaseOverGoes == ASSUME Types, Going, PhaseOver PROVE Going'
<1>1. /\ phase \in {"delete", "fix", "source", "sets"} /\ step = "next" /\ todo = {}
      /\ step' = "next" /\ runs' = runs /\ runs > 0
      /\ UNCHANGED <<present, form, modified, stamps, results>>
      /\ phase' = NextPhase(phase).phase /\ todo' = NextPhase(phase).todo
  BY DEF PhaseOver, Going, server, plan
<1>2. /\ phase' \in {"fix", "source", "sets", "idle"} /\ (phase' = "idle" => todo' = {})
      /\ todo' \cup Later' = Later
  <2>1. CASE phase = "delete"
    BY <1>1, <2>1 DEF NextPhase, Later
  <2>2. CASE phase = "fix"
    BY <1>1, <2>2 DEF NextPhase, Later
  <2>3. CASE phase = "source"
    BY <1>1, <2>3 DEF NextPhase, Later
  <2>4. CASE phase = "sets"
    BY <1>1, <2>4 DEF NextPhase, Later
  <2>. QED  BY <1>1, <2>1, <2>2, <2>3, <2>4
<1>3. Left' = Left
  BY <1>1, <1>2 DEF Left, InHand
<1>. QED  BY <1>1, <1>2, <1>3, OnlyOn DEF Going

LEMMA CheckGoes == ASSUME Types, Going, quiet', NEW o \in Objects, Check(o) PROVE Going'
<1>1. /\ phase \in {"delete", "fix"} /\ step = "next" /\ o \in todo /\ NextInOrder(o)
      /\ todo' = todo \ {o} /\ current' = o
      /\ UNCHANGED <<present, form, modified, stamps, phase, runs>>
  BY DEF Check, server, plan
<1>2. DriftOk(o, TRUE)
  BY <1>1 DEF Going, Left, AsScanned, DriftOk, IsDrift
<1>3. step' = "checked" /\ UNCHANGED results
  BY <1>2 DEF Check, Fault
<1>4. Left' = Left
  BY <1>1, <1>3 DEF Left, InHand, Later
<1>5. phase' = "fix" => \A p \in todo' : FixRank[current'] <= FixRank[p]
  BY <1>1 DEF NextInOrder
<1>. QED  BY <1>1, <1>3, <1>4, <1>5, OnlyOn DEF Going

LEMMA TakeSourceGoes == ASSUME Types, Going, TakeSource PROVE Going'
<1>1. /\ phase = "source" /\ step = "next" /\ todo = {Source} /\ todo' = {}
      /\ current' = Source /\ step' = "checked"
      /\ UNCHANGED <<present, form, modified, stamps, phase, runs, results>>
  BY DEF TakeSource, Types, PhaseTypes, server, plan
<1>2. Left' = Left
  BY <1>1 DEF Left, InHand, Later
<1>. QED  BY <1>1, <1>2, OnlyOn DEF Going

\* A change that is carried out: of what was left, one object less.
LEMMA OneLess ==
  ASSUME Types, Going, NEW o \in Left, Left' = Left \ {o}, AsPlanned(o)',
         \A p \in Objects \ {o} : /\ p \in present' <=> p \in present
                                  /\ form'[p] = form[p] /\ modified'[p] = modified[p],
         UNCHANGED <<stamps, phase, runs>>, results'.failedFix = {}, todo' \subseteq todo,
         phase \in {"delete", "fix", "source", "sets"},
         step' # "next" => step # "next" /\ current' = current
  PROVE  Going'
<1>1. Left \subseteq Objects
  BY Members DEF Types, PhaseTypes, Left, InHand, Later
<1>2. \A p \in Left' : AsScanned(p)'
  BY <1>1 DEF Going, AsScanned
<1>3. \A p \in Objects \ Left' : AsPlanned(p)'
  BY DEF Going, AsPlanned
<1>. QED  BY <1>2, <1>3 DEF Going

LEMMA DeletionGoes ==
  ASSUME Types, Going, quiet', NEW o \in Deletes \cup Sets, DeleteNow(o), o \in Left,
         Left' = Left \ {o}, UNCHANGED <<stamps, phase, runs>>, todo' \subseteq todo,
         phase \in {"delete", "sets"}
  PROVE  Going'
<1>1. Removed(o) /\ Record([results EXCEPT !.deleted = @ \cup {o}])
  BY DEF DeleteNow, Fault
<1>2. results'.failedFix = results.failedFix /\ step' = "next"
  BY <1>1 DEF Record, Types, ResultTypes, Results
<1>3. AsPlanned(o)'
  BY <1>1, Members DEF Removed, AsPlanned
<1>. QED  BY <1>1, <1>2, <1>3, OneLess DEF Removed, Going

LEMMA DeleteObjectGoes == ASSUME Types, Going, quiet', DeleteObject PROVE Going'
<1>1. /\ phase = "delete" /\ step = "checked" /\ current \in Deletes /\ DeleteNow(current)
      /\ step' = "next" /\ UNCHANGED <<stamps, phase, runs, todo>>
  BY DEF DeleteObject, Types, PhaseTypes, DeleteNow, Record, plan
<1>2. current \notin todo /\ current \notin Fixes \cup {Source} \cup Sets
  BY <1>1, ChangeAssumption DEF Going
<1>3. current \in Left /\ Left' = Left \ {current}
  BY <1>1, <1>2 DEF Left, InHand, Later
<1>. QED  BY <1>1, <1>3, DeletionGoes

LEMMA DeleteSetGoes == ASSUME Types, Going, quiet', NEW k \in Objects, DeleteSet(k) PROVE Going'
<1>1. /\ phase = "sets" /\ step = "next" /\ k \in todo /\ k \in Sets /\ todo' = todo \ {k}
      /\ UNCHANGED <<stamps, phase, runs>> /\ runs > 0
  BY DEF DeleteSet, Types, PhaseTypes, Going, plan
<1>2. DeleteNow(k) /\ step' = "next"
  BY DEF DeleteSet, MayDeleteSet, Going, DeleteNow, Record
<1>3. k \in Left /\ Left' = Left \ {k}
  BY <1>1, <1>2 DEF Left, InHand, Later
<1>. QED  BY <1>1, <1>2, <1>3, DeletionGoes

LEMMA FetchGoes == ASSUME Types, Going, quiet', Fetch PROVE Going'
<1>1. /\ phase \in {"fix", "source"} /\ step = "checked" /\ step' = "fetched"
      /\ UNCHANGED <<present, form, modified, stamps, phase, runs, current, todo, results>>
  BY DEF Fetch, Fault, server, plan
<1>2. Left' = Left
  BY <1>1 DEF Left, InHand, Later
<1>. QED  BY <1>1, <1>2, OnlyOn DEF Going

\* The server has no reason to refuse: what is built on the object is done.
LEMMA NotBlocked ==
  ASSUME InOrder, Types, Going, phase \in {"fix", "source"}, step = "fetched"
  PROVE  ~Blocked(current)
<1>. SUFFICES ASSUME NEW p \in present, current \in BuiltOn[p], p \notin Sets, form[p] # "new"
              PROVE  FALSE
  BY DEF Blocked
<1>1. p \in Objects /\ p \in Left
  BY Members DEF Types, ServerTypes, Going, AsPlanned
<1>2. CASE phase = "source"
  BY <1>1, <1>2, Members DEF Left, InHand, Later, Types, PhaseTypes, InOrder
<1>3. CASE phase = "fix"
  <2>1. current \in Fixes /\ p \in Fixes \cup {Source}
    BY <1>1, <1>3 DEF Left, InHand, Later, Types, PhaseTypes
  <2>2. p \in Fixes
    BY <2>1, Members DEF InOrder
  <2>3. FixRank[p] < FixRank[current] /\ p \in todo \cup {current}
    BY <1>1, <1>3, <2>1, <2>2, ChangeAssumption DEF InOrder, Left, InHand, Later
  <2>4. FixRank[p] \in Int /\ FixRank[current] \in Int
    BY <2>1, <2>2, ChangeAssumption
  <2>. QED  BY <1>3, <2>3, <2>4 DEF Going
<1>. QED  BY <1>2, <1>3

LEMMA ImportGoes == ASSUME InOrder, Types, Going, quiet', Import PROVE Going'
<1>1. /\ step = "fetched" /\ step' = "imported" /\ phase \in {"fix", "source"}
      /\ current \in Changed /\ UNCHANGED <<stamps, phase, runs, current, todo, results>>
  BY Members DEF Import, Types, PhaseTypes, plan
<1>2. Applied(current)
  BY <1>1, NotBlocked DEF Import, Fault
<1>3. /\ current \notin todo
      /\ current \notin Later
  BY <1>1, ChangeAssumption DEF Going, Types, PhaseTypes, Later
<1>4. current \in Left /\ Left' = Left \ {current}
  BY <1>1, <1>3 DEF Left, InHand, Later
<1>5. AsPlanned(current)'
  <2>1. current \in Objects /\ AsScanned(current)
    BY <1>1, <1>4, Members DEF Going
  <2>. QED  BY <1>1, <1>2, <2>1 DEF Applied, AsScanned, AsPlanned, Types, ServerTypes
<1>6. \A p \in Objects \ {current} : /\ p \in present' <=> p \in present
                                     /\ form'[p] = form[p] /\ modified'[p] = modified[p]
  BY <1>2 DEF Applied, Types, ServerTypes
<1>. QED  BY <1>1, <1>4, <1>5, <1>6, OneLess DEF Going

LEMMA VerifyGoes == ASSUME Types, Going, quiet', Verify PROVE Going'
<1>1. /\ step = "imported" /\ step' = "next" /\ phase \in {"fix", "source"}
      /\ UNCHANGED <<present, form, modified, stamps, phase, runs, todo>>
  BY DEF Verify, Types, PhaseTypes, Record, server, plan
<1>2. current \in Changed /\ current \notin Left
  <2>1. current \notin todo /\ current \in Objects
    BY <1>1, Members DEF Going, Types, PhaseTypes
  <2>2. current \in Changed /\ current \notin Later
    BY <1>1, Members, ChangeAssumption DEF Later, Types, PhaseTypes
  <2>. QED  BY <1>1, <2>1, <2>2 DEF Left, InHand
<1>3. current \in present /\ form[current] = "new"
  BY <1>2, Members DEF Going, AsPlanned
<1>4. results' \in {Seen, Unseen}
  <2>1. InForce(current)
    BY <1>3 DEF InForce
  <2>2. PICK reading \in Readings :
           /\ Fault(reading = "error" \/ (reading = "blind" /\ ~InForce(current)))
           /\ Verified(reading) =>
                 results' = [results EXCEPT
                                !.succeeded = @ \cup {current},
                                !.unseen = IF reading = "blind" THEN @ \cup {current} ELSE @]
    BY DEF Verify, Record, Success
  <2>3. reading \in {"body", "blind"}
    BY <2>2 DEF Fault, Readings
  <2>4. Verified(reading)
    BY <2>1, <2>3 DEF Verified
  <2>5. CASE reading = "blind"
    BY <2>2, <2>4, <2>5 DEF Unseen
  <2>6. CASE reading = "body"
    <3>1. results' = [results EXCEPT !.succeeded = @ \cup {current}, !.unseen = @]
      BY <2>2, <2>4, <2>6
    <3>. QED  BY <3>1 DEF Seen, Types, ResultTypes, Results
  <2>. QED  BY <2>3, <2>5, <2>6
<1>5. results'.failedFix = {}
  BY <1>4 DEF Seen, Unseen, Going, Types, ResultTypes, Results
<1>6. Left' = Left
  BY <1>1 DEF Left, InHand, Later
<1>. QED  BY <1>1, <1>5, <1>6, OnlyOn DEF Going

LEMMA NextSmooth == ASSUME InOrder, Types, Smooth, [Next]_vars PROVE Smooth'
<1>. SUFFICES ASSUME quiet', ~Undoing' PROVE Going'
  BY DEF Smooth
<1>0. Going
  BY QuietStep DEF Smooth
<1>1. CASE UNCHANGED vars
  BY <1>0, <1>1 DEF vars, Going, Left, InHand, Later, AsScanned, AsPlanned
<1>2. CASE Kill \/ \E o \in Objects : TenantEdits(o)
  BY <1>2 DEF Kill, TenantEdits, Fault
<1>3. CASE StartRollback \/ FinishRollback \/ \E o \in Objects : RestoreEntry(o)
  BY <1>3 DEF StartRollback, FinishRollback, RestoreEntry, Undoing
<1>. QED
  BY <1>0, <1>1, <1>2, <1>3, ScanGoes, BackUpGoes, StartRunGoes, PhaseOverGoes, CheckGoes,
     TakeSourceGoes, DeleteObjectGoes, DeleteSetGoes, FetchGoes, ImportGoes, VerifyGoes DEF Next

\* Without faults and edits one run does everything: the order of the phases, and within
\* the fixes that of the types, never makes the server refuse a change for the sake of an
\* object built on it, and no Set is held back by its guard.  (sort_fixes, error 14544)
THEOREM AQuietRunSucceeds ==
  ASSUME InOrder
  PROVE  Spec => []QuietRunSucceeds
<1>1. Init => Smooth
  <2>. SUFFICES ASSUME Init PROVE Going
    BY DEF Smooth
  <2>1. Left = Objects
    BY DEF Init, Left, Later, InHand
  <2>. QED  BY <2>1, Members DEF Init, Going, AsScanned, NoResults
<1>2. Types /\ Smooth => QuietRunSucceeds
  <2>. SUFFICES ASSUME Types, Smooth, quiet, phase = "idle", runs > 0
                PROVE  /\ \A o \in Changed : form[o] = "new"
                       /\ (Deletes \cup Sets) \cap present = {}
    BY DEF QuietRunSucceeds
  <2>1. Going /\ Left = InHand
    BY DEF Smooth, Undoing, Going, Left, Later
  <2>2. Left = {}
    BY <2>1 DEF InHand, Types, PhaseTypes
  <2>. QED  BY <2>1, <2>2, Members DEF Going, AsPlanned
<1>. QED  BY <1>1, <1>2, NextSmooth, TypesInvariant, PTL DEF Spec

-----------------------------------------------------------------------------
(* A rollback without faults and edits                                     *)

\* Nothing is built on a Set or on what uses one: a Set is in no backup, and what uses
\* a deleted Set stays refused, and with it everything built on that.
Rooted ==
    \A o \in Checked :
        /\ BuiltOn[o] \cap Sets = {}
        /\ \A k \in Sets : BuiltOn[o] \cap InUseBy[k] = {}

Back(o) == o \in present /\ content[o] = backup[o] /\ form[o] = "old"
Settled(o) == Back(o) \/ UsesMissingSet(o) \/ o \in Deletes \cap present

Standing ==
    /\ Changed \subseteq present
    /\ \A o \in Deletes : form[o] = "old"

Returning ==
    /\ Standing
    /\ phase = "undone" => todo = {}
    /\ quiet /\ Undoing => \A o \in Checked \ todo : Settled(o)

\* Only deletes take an object away, only of entries to delete, and to those nothing
\* else is done.
LEMMA NextStanding == ASSUME Types, Standing, [Next]_vars PROVE Standing'
<1>1. Changed \subseteq Objects /\ Deletes \cap Changed = {} /\ Sets \cap Changed = {}
      /\ Deletes \subseteq Objects
  BY ChangeAssumption DEF Objects, Checked, Changed
<1>2. ASSUME UNCHANGED <<present, form>> PROVE Standing'
  BY <1>2 DEF Standing
<1>3. ASSUME NEW o \in Deletes \cup Sets, Removed(o) PROVE Standing'
  BY <1>1, <1>3 DEF Standing, Removed
<1>4. ASSUME NEW o \in Changed, Applied(o) PROVE Standing'
  BY <1>1, <1>4 DEF Standing, Applied, Types, ServerTypes
<1>5. ASSUME NEW o \in Deletes \cup Sets, DeleteNow(o) PROVE Standing'
  BY <1>2, <1>3, <1>5 DEF DeleteNow, server
<1>6. CASE UNCHANGED server \/ UNCHANGED vars
  BY <1>2, <1>6 DEF server, vars
<1>7. CASE DeleteObject
  BY <1>5, <1>7 DEF DeleteObject, Types, PhaseTypes
<1>8. CASE Import
  <2>1. current \in Changed
    BY <1>8 DEF Import, Types, PhaseTypes, Changed
  <2>. QED  BY <1>4, <1>6, <1>8, <2>1 DEF Import
<1>9. CASE Kill
  <2>1. /\ step = "fetched" => current \in Changed
        /\ phase = "delete" /\ step = "checked" => current \in Deletes
    BY DEF Types, PhaseTypes, Changed, Phases
  <2>. QED  BY <1>3, <1>4, <1>6, <1>9, <2>1 DEF Kill
<1>10. ASSUME NEW k \in Objects, DeleteSet(k) PROVE Standing'
  <2>1. k \in Sets
    BY <1>10 DEF DeleteSet, Types, PhaseTypes
  <2>. QED  BY <1>5, <1>6, <1>10, <2>1 DEF DeleteSet
<1>11. ASSUME NEW o \in Objects, RestoreEntry(o) PROVE Standing'
  <2>1. CASE Restored(o)
    BY <1>1, <2>1 DEF Standing, Restored, Types, ServerTypes
  <2>. QED  BY <1>6, <1>11, <2>1 DEF RestoreEntry
<1>12. ASSUME NEW o \in Objects, TenantEdits(o) PROVE Standing'
  BY <1>1, <1>12 DEF TenantEdits, Standing, Types, ServerTypes
<1>13. CASE Scan \/ BackUp \/ StartRun \/ PhaseOver \/ TakeSource \/ Fetch \/ Verify
           \/ StartRollback \/ FinishRollback \/ \E o \in Objects : Check(o)
  BY <1>6, <1>13 DEF Scan, BackUp, StartRun, PhaseOver, TakeSource, Fetch, Verify,
     StartRollback, FinishRollback, Check
<1>. QED  BY <1>6, <1>7, <1>8, <1>9, <1>10, <1>11, <1>12, <1>13 DEF Next

\* What the restored objects refer to is back before them: a refusal means a missing Set.
LEMMA RestoreEntryReturns ==
  ASSUME Rooted, Types, Returning, quiet', NEW o \in Objects, RestoreEntry(o)
  PROVE  Returning'
<1>1. /\ phase = "rollback" /\ o \in todo /\ RootsFirst(o) /\ todo' = todo \ {o}
      /\ UNCHANGED <<stamps, backup, phase>>
  BY DEF RestoreEntry, plan
<1>2. quiet /\ Undoing /\ o \in Checked
  BY <1>1 DEF RestoreEntry, Fault, Undoing, Types, PhaseTypes
<1>3. \/ Restorable(o) /\ Restored(o)
      \/ (~Restorable(o) \/ UsesMissingSet(o)) /\ UNCHANGED server
  BY DEF RestoreEntry, Fault
<1>4. \A p \in Checked \ todo : Settled(p)
  BY <1>2 DEF Returning
<1>5. CASE Restored(o)
  <2>1. Settled(o)'
    BY <1>1, <1>2, <1>5 DEF Restored, Settled, Back, Types, ServerTypes, Checked, Objects
  <2>2. ASSUME NEW p \in Checked \ todo, p # o PROVE Settled(p)'
    <3>1. o \notin Sets
      BY <1>2, ChangeAssumption DEF Checked, Changed
    <3>. QED  BY <1>1, <1>4, <1>5, <2>2, <3>1
              DEF Restored, Settled, Back, UsesMissingSet, Types, ServerTypes, Objects
  <2>. QED  BY <1>1, <2>1, <2>2, NextStanding DEF Returning, Next, Undoing
<1>6. CASE (~Restorable(o) \/ UsesMissingSet(o)) /\ UNCHANGED server
  <2>1. UsesMissingSet(o)
    <3>. SUFFICES ASSUME ~Restorable(o), ~UsesMissingSet(o) PROVE FALSE
      BY <1>6
    <3>1. o \in present \/ o \in Deletes
      BY <1>2 DEF Returning, Standing, Checked
    <3>2. PICK p \in BuiltOn[o] : p \notin present \/ form[p] = "new"
      BY <3>1 DEF Restorable
    <3>3. p \in Checked \ todo
      BY <1>1, <1>2, <3>2, ChangeAssumption DEF Rooted, RootsFirst, Objects
    <3>4. ~UsesMissingSet(p)
      BY <1>2, <3>2 DEF Rooted, UsesMissingSet
    <3>. QED  BY <1>4, <3>2, <3>3, <3>4 DEF Settled, Back, Returning, Standing
  <2>2. \A p \in Checked \ todo' : Settled(p)'
    BY <1>1, <1>4, <1>6, <2>1 DEF Settled, Back, UsesMissingSet, server
  <2>. QED  BY <1>1, <2>2, NextStanding DEF Returning, Next
<1>. QED  BY <1>3, <1>5, <1>6

LEMMA NextReturning == ASSUME Rooted, Types, Returning, [Next]_vars PROVE Returning'
<1>1. Standing'
  BY NextStanding DEF Returning
<1>2. CASE UNCHANGED vars
  BY <1>2 DEF vars, Returning, Standing, Settled, Back, UsesMissingSet, Undoing
<1>3. CASE \E o \in Objects : RestoreEntry(o)
  <2>1. PICK o \in Objects : RestoreEntry(o)
    BY <1>3
  <2>2. phase' = "rollback"
    BY <2>1 DEF RestoreEntry
  <2>3. CASE quiet'
    BY <2>1, <2>3, RestoreEntryReturns
  <2>. QED  BY <1>1, <2>2, <2>3 DEF Returning
<1>4. CASE StartRollback
  <2>1. /\ phase' = "rollback" /\ todo' = Changed \cup (Deletes \ present)
        /\ UNCHANGED server
    BY <1>4 DEF StartRollback
  <2>2. \A o \in Checked \ todo' : Settled(o)'
    BY <2>1 DEF Checked, Settled, server
  <2>. QED  BY <1>1, <2>1, <2>2 DEF Returning
<1>5. CASE FinishRollback
  BY <1>1, <1>5 DEF FinishRollback, Returning, Settled, Back, UsesMissingSet, Undoing, server, plan
<1>6. CASE \E o \in Objects : TenantEdits(o)
  BY <1>1, <1>6 DEF TenantEdits, Returning, Fault
<1>7. CASE Scan \/ BackUp \/ StartRun \/ PhaseOver \/ TakeSource \/ DeleteObject \/ Fetch
           \/ Import \/ Verify \/ Kill \/ \E o \in Objects : Check(o) \/ DeleteSet(o)
  <2>1. ~Undoing'
    BY <1>7 DEF Scan, BackUp, StartRun, PhaseOver, NextPhase, TakeSource, DeleteObject, Fetch,
       Import, Verify, Kill, Check, DeleteSet, Undoing, Types, PhaseTypes
  <2>. QED  BY <1>1, <2>1 DEF Returning, Undoing
<1>. QED  BY <1>2, <1>3, <1>4, <1>5, <1>6, <1>7 DEF Next

\* A rollback that meets no fault and no edit restores everything it takes up, wherever
\* the run before it stopped and whatever faults and edits there were until then: roots
\* first, nothing is refused but what uses a Set that is gone.  (order_by_references,
\* _skip_still_present)
THEOREM AQuietRollbackRestores ==
  ASSUME Rooted
  PROVE  Spec => []QuietRollbackRestores
<1>1. Init => Returning
  BY DEF Init, Returning, Standing, Undoing, Objects, Checked
<1>2. Returning => QuietRollbackRestores
  BY DEF Returning, QuietRollbackRestores, Settled, Back, Undoing
<1>. QED  BY <1>1, <1>2, NextReturning, TypesInvariant, PTL DEF Spec
=============================================================================
