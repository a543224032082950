---------------------------- MODULE CascadeDelete ----------------------------
(***************************************************************************)
(* `ts dependency cascade-preview`, `backup`, `cascade-delete` and         *)
(* `rollback` (ts_cli/commands/dependency_cascade.py and dependency.py,    *)
(* ts_cli/dependency/cascade.py and backup.py): deleting a Table, Model or *)
(* View with everything built on it in one server-side call, guarded by a  *)
(* backup, and restoring what went.  Tenants go on editing and creating     *)
(* objects; the server works on after its answer was lost.                 *)
(*                                                                         *)
(* A guid is <<object, n>>: n = 0 is the original, n > 0 the object the    *)
(* n-th rollback created.  A version number stands for an object's content *)
(* and for its `modified` time.                                            *)
(***************************************************************************)
EXTENDS Integers, FiniteSets, Functions

CONSTANTS
    Objects,       \* the source and whatever may depend on it
    Source,        \* the Table, Model or View that is deleted
    Owners,        \* Tables, Models and Views: what others are built on
    Unlisted,      \* reusable Sets and feedback, which no preview names
    LateObjects,   \* objects tenants create in the meantime
    Edited,        \* objects tenants edit in the meantime
    Reads,         \* [Objects -> SUBSET Objects]: what an object is built on
    Rank,          \* DELETE_ORDER of an object's type
    MaxRollbacks   \* bound: rollback commands

Guids == Objects \X Nat

ASSUME CascadeAssumption ==
    /\ IsFiniteSet(Objects)
    /\ Source \in Owners \ LateObjects
    /\ Owners \subseteq Objects /\ Unlisted \subseteq Objects \ Owners
    /\ LateObjects \subseteq Objects /\ Edited \subseteq Objects
    /\ Reads \in [Objects -> SUBSET Owners]
    /\ \A o \in Objects \ LateObjects : Reads[o] \cap LateObjects = {}
    /\ Rank \in [Objects -> Int]
    /\ MaxRollbacks \in Nat

VARIABLES
    live,       \* guids on the server
    version,    \* [Objects -> Int]: of the original; -1: not created yet
    binds,      \* [live -> SUBSET Guids]: what an object reads
    removing,   \* objects the server's cascade has still to remove
    removed,    \* objects it has removed
    doomed,     \* objects of the last cascade, as the server took it on
    answer,     \* the server's answer to the delete
    pc,         \* where the operator's sequence of commands is
    listed,     \* the preview's objects, the source included
    stamps,     \* `modified` times read before the export
    manifest,   \* {object: backup entry}
    before,     \* objects the delete may remove, as re-checked
    atCheck,    \* originals that existed at the re-check
    seen,       \* versions at the existence check
    report,     \* the status cascade-delete printed, and its exit code
    todo, skipped, failed, newGuids,   \* the running rollback
    unlearned,  \* restored objects whose new guid no run has learned (ghost)
    later,      \* skipped objects the operator holds a `restore_later` command for
    rollbacks   \* how many rollbacks there have been

server == <<live, version, binds>>
cascade == <<removing, removed, doomed, answer>>
backup == <<listed, stamps, manifest>>
checks == <<before, atCheck, seen>>
restore == <<todo, skipped, failed, newGuids, unlearned, later, rollbacks>>
vars == <<live, version, binds, removing, removed, doomed, answer, pc, listed,
          stamps, manifest, before, atCheck, seen, report, todo, skipped,
          failed, newGuids, unlearned, later, rollbacks>>

Empty == [o \in {} |-> {}]
Unknown == -1
Original(o) == <<o, 0>>
Existing == {o \in Objects : Original(o) \in live}
NoReport == [status |-> "none", ok |-> FALSE]

Init ==
    /\ live = {Original(o) : o \in Objects \ LateObjects}
    /\ version = [o \in Objects |-> IF o \in LateObjects THEN -1 ELSE 0]
    /\ binds = [g \in live |-> {Original(o) : o \in Reads[g[1]]}]
    /\ removing = {} /\ removed = {} /\ doomed = {} /\ answer = "none"
    /\ pc = "idle" /\ listed = {} /\ stamps = Empty /\ manifest = Empty
    /\ before = {} /\ atCheck = {} /\ seen = Empty
    /\ report = NoReport
    /\ todo = {} /\ skipped = {} /\ failed = {} /\ newGuids = Empty
    /\ unlearned = {} /\ later = {} /\ rollbacks = 0

-----------------------------------------------------------------------------
(* The scope of a delete.                                                  *)

\* The originals that exist and read one of os
DirectDependents(os) ==
    {o \in Existing : \E p \in os : Original(p) \in binds[Original(o)]}

\* What os has grown to when F adds nothing to it any more
Grown(F, os) ==
    LET upTo[n \in Nat] == IF n = 0 THEN os ELSE F[upTo[n - 1]]
    IN  upTo[Cardinality(Objects)]

\* o with everything built on it
Closure(o) == Grown([os \in SUBSET Objects |-> os \cup DirectDependents(os)], {o})

\* What one preview names: at least the direct dependents, all if it goes deep.
Preview(o, deep) ==
    (IF o \in deep THEN Closure(o) ELSE DirectDependents({o})) \ Unlisted

OnePreview(deep) == Preview(Source, deep) \cup {Source}   \* mutant

\* _scope: the previews of the source and of every Table, Model and View that
\* one of them lists; with the source itself (deleted_set).
Scope(deep) ==
    Grown([os \in SUBSET Objects |-> os \cup UNION {Preview(o, deep) : o \in os \cap Owners}],
          {Source})

\* _attached: Sets and feedback of the Tables, Models and Views in the scope
Attached(scope) == DirectDependents(scope \cap Owners) \cap Unlisted

\* cascade_preview_cmd: with anything attached the operator is told BLOCKED.
RunPreview ==
    /\ pc = "idle"
    /\ Source \in Existing
    /\ \E deep \in SUBSET Owners : listed' = Scope(deep)
    /\ Attached(listed') = {}
    /\ pc' = "previewed"
    /\ report' = NoReport
    /\ UNCHANGED <<server, cascade, stamps, manifest, checks, restore>>

-----------------------------------------------------------------------------
(* backup_cmd: the `modified` times, then one export after the other.      *)

ModifiedBeforeExport ==
    /\ pc = "previewed"
    /\ \/ stamps' = [o \in listed \cap Existing |-> version[o]]
       \/ stamps' = Empty      \* the lookup failed
    /\ manifest' = Empty
    /\ pc' = "export"
    /\ UNCHANGED <<server, cascade, listed, checks, report, restore>>

\* The plan lists the objects in some order.
NextExport == CHOOSE o \in listed \ DOMAIN manifest : TRUE

Export(o) ==
    /\ pc = "export"
    /\ listed # DOMAIN manifest /\ o = NextExport
    /\ o \in Existing
    /\ manifest' = [p \in DOMAIN manifest \cup {o} |->
          IF p # o THEN manifest[p]
          ELSE [content  |-> version[o],
                binds    |-> binds[Original(o)],
                modified |-> IF o \in DOMAIN stamps THEN stamps[o] ELSE Unknown]]
    /\ UNCHANGED <<server, cascade, pc, listed, stamps, checks, report, restore>>

AnyExport == manifest # Empty   \* mutant: a failed export is passed over

AllExported == DOMAIN manifest = listed

\* Files and manifest are written only now.
WriteBackup ==
    /\ pc = "export"
    /\ AllExported
    /\ stamps' = Empty
    /\ pc' = "backed_up"
    /\ UNCHANGED <<server, cascade, listed, manifest, checks, report, restore>>

-----------------------------------------------------------------------------
(* cascade_delete_cmd: _checks_before_delete.                              *)

\* A fresh scope, nothing attached, and exactly the backup's objects in it
CheckScope ==
    /\ pc = "backed_up"
    /\ Source \in Existing
    /\ \E deep \in SUBSET Owners : before' = Scope(deep)
    /\ Attached(before') = {}
    /\ before' = DOMAIN manifest
    /\ atCheck' = Existing
    /\ pc' = "checked"
    /\ UNCHANGED <<server, cascade, backup, seen, report, restore>>

\* stale: server time against the server time recorded at the backup
Fresh(o) == manifest[o].modified # Unknown /\ manifest[o].modified = version[o]

\* One existence check, for `invisible` and for `stale`
CheckPresent ==
    /\ pc = "checked"
    /\ before \subseteq Existing
    /\ \A o \in before : Fresh(o)
    /\ seen' = [o \in before |-> version[o]]
    /\ pc' = "send"
    /\ UNCHANGED <<server, cascade, backup, before, atCheck, report, restore>>

\* The commands that ran are over, their backup is not used again.
StartOver ==
    /\ pc' = "idle"
    /\ listed' = {} /\ stamps' = Empty /\ manifest' = Empty
    /\ before' = {} /\ atCheck' = {} /\ seen' = Empty

\* A refusal (BLOCKED, RECHECK_MISMATCH, NOT_VISIBLE, STALE_BACKUP, BAD_BACKUP), a
\* failed preview or export, or a kill: nothing was sent, the operator starts over.
Refuse ==
    /\ pc \in {"previewed", "export", "backed_up", "checked", "send"}
    /\ StartOver
    /\ UNCHANGED <<server, cascade, report, restore>>

\* The delete is sent once; the server takes on what there is when it arrives.
SendDelete ==
    /\ pc = "send"
    /\ doomed' = IF Source \in Existing THEN Closure(Source) ELSE {}
    /\ removing' = doomed'
    /\ answer' = "none"
    /\ pc' = "sent"
    /\ UNCHANGED <<server, removed, backup, checks, report, restore>>

-----------------------------------------------------------------------------
(* The server                                                              *)

\* The cascade removes dependents before what they are built on.
ServerRemoves(o) ==
    /\ o \in removing \cap Existing
    /\ DirectDependents({o}) \cap removing = {}
    /\ live' = live \ {Original(o)}
    /\ binds' = [g \in live' |-> binds[g]]
    /\ removing' = removing \ {o}
    /\ removed' = removed \cup {o}
    /\ UNCHANGED <<version, doomed, answer, pc, backup, checks, report, restore>>

\* 200, an error that means the server has stopped, or none: a timeout, a gateway
\* error.  Without a definite error it may work on.
Answer ==
    /\ pc = "sent"
    /\ answer' \in {"done", "refused", "failed", "lost"}
    /\ removing' = IF answer' \in {"refused", "failed"} THEN {} ELSE removing
    /\ pc' = "answered"
    /\ UNCHANGED <<server, removed, doomed, backup, checks, report, restore>>

ServerGivesUp ==
    /\ pc \notin {"sent", "answered"} \/ answer \in {"done", "lost"}
    /\ removing # {}
    /\ removing' = {}
    /\ UNCHANGED <<server, removed, doomed, answer, pc, backup, checks, report, restore>>

-----------------------------------------------------------------------------
(* _report_after_delete: what happened is what no longer exists.           *)

Gone == before \ Existing

Classify ==
    IF Gone = before THEN "APPLIED" ELSE IF Gone = {} THEN "NOT_APPLIED" ELSE "PARTIAL"

AnyAnswerIsDefinite == TRUE   \* mutant

\* definite_failure: the server is not still working on it
DefiniteFailure == answer \in {"refused", "failed"}

Status ==
    IF Classify # "NOT_APPLIED" THEN Classify
    ELSE IF ~DefiniteFailure THEN "UNKNOWN"
    ELSE IF answer = "refused" THEN "REFUSED" ELSE "NOT_APPLIED"

NothingWithoutBackup == {}   \* mutant

\* deleted_without_backup: what a 200 names and the backup does not hold
WithoutBackup == (doomed \ Unlisted) \ DOMAIN manifest

Report ==
    /\ pc = "answered"
    /\ \/ report' = [status |-> "UNKNOWN", ok |-> FALSE]   \* the check failed
       \/ \E readable \in BOOLEAN :
            report' = [status |-> Status,
                       ok     |-> /\ Status = "APPLIED" /\ answer = "done"
                                  /\ readable /\ WithoutBackup = {}]
    /\ pc' = "reported"
    /\ UNCHANGED <<server, cascade, backup, checks, restore>>

\* Nothing went and nothing will: the operator may run it all again.
RunAgain ==
    /\ pc = "reported"
    /\ report.status \in {"NOT_APPLIED", "REFUSED"}
    /\ rollbacks = 0
    /\ StartOver
    /\ UNCHANGED <<server, cascade, report, restore>>

-----------------------------------------------------------------------------
(* rollback_cmd                                                            *)

SkipNone(wanted) == {}   \* mutant

\* _skip_still_present, read once before the first import
StillPresent(wanted) == wanted \cap Existing

StartRollback(wanted) ==
    /\ pc = "reported"
    /\ rollbacks < MaxRollbacks
    /\ rollbacks' = rollbacks + 1
    /\ todo' = wanted
    /\ skipped' = StillPresent(wanted)
    /\ later' = (later \ wanted) \cup skipped'
    /\ failed' = {} /\ newGuids' = Empty
    /\ pc' = "restore"
    /\ UNCHANGED <<server, cascade, backup, checks, report, unlearned>>

\* The whole backup is rolled back once (a second time would create second copies),
\* then the skipped objects one by one, with --guid.
RollbackAll == rollbacks = 0 /\ StartRollback(DOMAIN manifest)

\* order_by_references: among the entries whose references to other entries are
\* placed (in a cycle: among all), one of the highest rank.
Placeable(o) == {g[1] : g \in manifest[o].binds} \cap (todo \ {o}) = {}

HighestRank(o) == o \in todo /\ \A p \in todo : Rank[p] <= Rank[o]   \* mutant

NextEntry(o) ==
    LET placeable == {p \in todo : Placeable(p)}
        first == IF placeable = {} THEN todo ELSE placeable
    IN  o \in first /\ \A p \in first : Rank[p] <= Rank[o]

\* remap_guids: of the guids this run has created
Remapped(gs) == {IF g[1] \in DOMAIN newGuids THEN newGuids[g[1]] ELSE g : g \in gs}

\* The import creates o under a new guid, with the backup's references remapped.
Create(o) ==
    LET new == <<o, rollbacks>>
    IN  /\ live' = live \cup {new}
        /\ binds' = [g \in live' |->
                        IF g = new THEN Remapped(manifest[o].binds) ELSE binds[g]]

\* Only status OK counts, and only an answer that names the new guid lets later entries
\* bind to it.  A WARNING, or an ERROR that applied, creates the object and lists it as
\* failed; an OK without a guid lists it as restored.
RollbackEntry(o) ==
    /\ pc = "restore"
    /\ NextEntry(o)
    /\ todo' = todo \ {o}
    /\ \/ /\ o \in skipped
          /\ UNCHANGED <<live, binds, newGuids, unlearned, failed>>
       \/ /\ o \notin skipped
          /\ Create(o)
          /\ newGuids' = [p \in DOMAIN newGuids \cup {o} |->
                             IF p = o THEN <<o, rollbacks>> ELSE newGuids[p]]
          /\ UNCHANGED <<unlearned, failed>>
       \/ /\ o \notin skipped
          /\ Create(o)
          /\ unlearned' = unlearned \cup {<<o, rollbacks>>}
          /\ failed' \in {failed, failed \cup {o}}
          /\ UNCHANGED newGuids
       \/ /\ o \notin skipped
          /\ failed' = failed \cup {o}
          /\ UNCHANGED <<live, binds, newGuids, unlearned>>
    /\ UNCHANGED <<version, cascade, pc, backup, checks, report, skipped, later, rollbacks>>

FinishRollback ==
    /\ pc = "restore"
    /\ todo = {}
    /\ pc' = "reported"
    /\ UNCHANGED <<server, cascade, backup, checks, report, restore>>

\* The client exits on an import whose effect is unknown.
ImportLost(o) ==
    /\ pc = "restore"
    /\ NextEntry(o) /\ o \notin skipped
    /\ Create(o)
    /\ todo' = {}
    /\ pc' = "reported"
    /\ UNCHANGED <<version, cascade, backup, checks, report, skipped, failed,
                   newGuids, unlearned, later, rollbacks>>

\* The command is killed after the delete was sent, or during a rollback.
Kill ==
    /\ pc \in {"sent", "answered", "restore"}
    /\ answer' = IF answer = "none" THEN "lost" ELSE answer
    /\ todo' = {}
    /\ pc' = "reported"
    /\ UNCHANGED <<server, removing, removed, doomed, backup, checks, report,
                   skipped, failed, newGuids, unlearned, later, rollbacks>>

-----------------------------------------------------------------------------
(* Tenants                                                                 *)

TenantEdits(o) ==
    /\ o \in Edited \cap Existing
    /\ version[o] = 0
    /\ version' = [version EXCEPT ![o] = 1]
    /\ UNCHANGED <<live, binds, cascade, pc, backup, checks, report, restore>>

TenantCreates(o) ==
    /\ o \in LateObjects
    /\ version[o] = -1
    /\ Reads[o] \subseteq Existing
    /\ version' = [version EXCEPT ![o] = 0]
    /\ live' = live \cup {Original(o)}
    /\ binds' = [g \in live' |-> IF g = Original(o) THEN {Original(p) : p \in Reads[o]}
                                 ELSE binds[g]]
    /\ UNCHANGED <<cascade, pc, backup, checks, report, restore>>

-----------------------------------------------------------------------------

Next ==
    \/ RunPreview \/ ModifiedBeforeExport \/ WriteBackup
    \/ CheckScope \/ CheckPresent \/ Refuse \/ SendDelete
    \/ Answer \/ ServerGivesUp \/ Report \/ RunAgain
    \/ RollbackAll \/ \E o \in later : StartRollback({o})
    \/ FinishRollback \/ Kill
    \/ \E o \in Objects : \/ Export(o) \/ ServerRemoves(o)
                          \/ RollbackEntry(o) \/ ImportLost(o)
                          \/ TenantEdits(o) \/ TenantCreates(o)

Spec == Init /\ [][Next]_vars

-----------------------------------------------------------------------------
(* Properties                                                              *)

Entries == [content : Nat, binds : SUBSET Guids, modified : Int]

TypeOK ==
    /\ live \subseteq Guids
    /\ version \in [Objects -> Int]
    /\ binds \in [live -> SUBSET Guids]
    /\ removing \subseteq doomed
    /\ removed \cup doomed \cup listed \cup before \cup atCheck \subseteq Objects
    /\ removing \subseteq Existing
    /\ answer \in {"none", "done", "refused", "failed", "lost"}
    /\ pc \in {"idle", "previewed", "export", "backed_up", "checked", "send",
               "sent", "answered", "reported", "restore"}
    /\ DOMAIN manifest \subseteq Objects /\ Range(manifest) \subseteq Entries
    /\ pc \in {"backed_up", "checked", "send", "sent", "answered"} =>
          DOMAIN manifest = listed
    /\ DOMAIN stamps \subseteq Objects /\ Range(stamps) \subseteq Int
    /\ DOMAIN seen \subseteq before /\ Range(seen) \subseteq Int
    /\ report.status \in {"none", "APPLIED", "PARTIAL", "NOT_APPLIED", "REFUSED", "UNKNOWN"}
    /\ report.ok \in BOOLEAN
    /\ todo \subseteq DOMAIN manifest /\ skipped \cup failed \cup later \subseteq DOMAIN manifest
    /\ DOMAIN newGuids \subseteq Objects /\ Range(newGuids) \cup unlearned \subseteq Guids
    /\ rollbacks \in 0..MaxRollbacks

\* _checks_before_delete: whatever the cascade removes that existed when the scope was
\* re-checked, Sets and feedback included, is in the backup, with the content it had
\* when its existence was checked.  Only what tenants do in the moment between the
\* checks and the delete escapes.
RemovedIsBackedUp ==
    \A o \in removed \cap atCheck :
        o \in DOMAIN manifest /\ manifest[o].content = seen[o]

\* Exit 0 means that everything the server took on and names, late objects included,
\* is gone and in the backup.  (_report_after_delete)
AppliedIsTrue ==
    report.ok => \A o \in doomed \ Unlisted : o \notin Existing /\ o \in DOMAIN manifest

\* NOT_APPLIED and REFUSED are final: nothing of what was to be deleted has gone, and
\* the server is not still at it.  (definite_failure)
NotAppliedIsFinal ==
    pc = "reported" /\ report.status \in {"NOT_APPLIED", "REFUSED"} =>
        removed \cap before = {} /\ removing = {}

\* A rollback re-creates only what has gone: no object exists beside its own
\* restored copy.  (_skip_still_present)
NoTwin == \A g, h \in live : g[1] = h[1] => g = h

\* No object restored by a rollback is left reading the deleted original of one that the
\* same rollback or an earlier one has restored: "References between restored objects
\* are carried over".  The code cannot carry over a reference to an object whose new guid
\* the import's answer did not give it.  (order_by_references, remap_guids)
BindsToTheRestored ==
    \A g \in live : g[2] > 0 =>
        \A r \in binds[g] \ live : \A h \in live \ unlearned : h[1] = r[1] => h[2] > g[2]
=============================================================================
