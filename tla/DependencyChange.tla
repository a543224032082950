--------------------------- MODULE DependencyChange ---------------------------
(***************************************************************************)
(* `ts dependency apply-change` (ts_cli/commands/dependency_apply.py and   *)
(* ts_cli/dependency/apply.py): removing a column from a Model or Table.   *)
(* An operator scans the dependents, backs them up, and runs the plan:     *)
(* deletes, then fixes of the dependents, then the source, then reusable   *)
(* Sets.  Each is a few calls with a drift check before them; tenants save *)
(* objects between any two calls, the server's answers may be wrong, the   *)
(* command may die, and the same plan may be run again.  In the end it may *)
(* be undone from the backup (`rollback_cmd` in commands/dependency.py).   *)
(*                                                                         *)
(* An object's content is what its tenant last saved (0, or 1 after an     *)
(* edit) and its form: "old" while it refers to the column as it did at    *)
(* the scan, "new" once the plan's change is in it, "again" if a tenant    *)
(* has put the column back since.                                          *)
(***************************************************************************)
EXTENDS Integers, FiniteSets

CONSTANTS
    Source,       \* plan["source"]
    Fixes,        \* plan["fix"]
    Deletes,      \* plan["delete"]
    Sets,         \* plan["sets"], with an action that deletes them
    InUseBy,      \* [Sets -> SUBSET (Fixes \cup Deletes)]
    BuiltOn,      \* [Objects -> SUBSET Objects]
    FixRank,      \* [Fixes -> Int]: FIX_ORDER of the object's type
    DeleteRank,   \* [Deletes -> Int]: DELETE_ORDER
    Unstamped,    \* objects the scan found no `modified` time for
    Edited,       \* objects tenants may save, once each
    MaxRuns       \* bound: runs of apply-change with this plan

Changed == {Source} \cup Fixes
Checked == Changed \cup Deletes
Objects == Checked \cup Sets

ASSUME ChangeAssumption ==
    /\ Source \notin Fixes \cup Deletes \cup Sets
    /\ Fixes \cap Deletes = {} /\ Sets \cap (Fixes \cup Deletes) = {}
    /\ InUseBy \in [Sets -> SUBSET (Fixes \cup Deletes)]
    /\ BuiltOn \in [Objects -> SUBSET Objects]
    /\ FixRank \in [Fixes -> Int] /\ DeleteRank \in [Deletes -> Int]
    /\ Unstamped \subseteq Objects \ {Source} /\ Edited \subseteq Objects
    /\ MaxRuns \in Nat

VARIABLES
    present,     \* objects on the server
    content,     \* [Objects -> {0, 1}]
    form,        \* [Objects -> {"old", "new", "again"}]
    modified,    \* [Objects -> Nat]: metadata_header.modified
    stamps,      \* the plan's modified_at; 0: none
    backup,      \* backup_dir: [objects -> content]
    phase,       \* the phase of apply-change, or where the operator is
    step,        \* what has been done for the current object
    current,     \* the plan entry at work
    todo,        \* entries of the phase still to come
    body,        \* content of the fetched document
    apiOk,       \* what the import call answered
    results,     \* the run's lists, by phase where the code keeps it
    checkedAt,   \* content at the entry's last drift check (ghost)
    changes,     \* [Objects -> Nat]: changes the server carried out (ghost)
    quiet,       \* no fault and no edit so far (ghost)
    runs

server == <<present, content, form, modified>>
plan == <<stamps, backup>>
entry == <<current, body, apiOk>>
ghosts == <<checkedAt, changes>>
vars == <<present, content, form, modified, stamps, backup, phase, step, current,
          todo, body, apiOk, results, checkedAt, changes, quiet, runs>>

\* `unseen` (succeeded) and `guessed` (deleted) are ghosts: entries listed on no evidence.
NoResults == [succeeded |-> {}, unseen |-> {}, failedFix |-> {}, failedOther |-> {},
              deleted |-> {}, guessed |-> {}, skipped |-> {}, aborted |-> FALSE]

Init ==
    /\ present = Objects
    /\ content = [o \in Objects |-> 0]
    /\ form = [o \in Objects |-> "old"]
    /\ modified = [o \in Objects |-> 1]
    /\ stamps = [o \in Objects |-> 0]
    /\ backup = [o \in {} |-> 0]
    /\ phase = "scan" /\ step = "next" /\ current = Source /\ todo = {}
    /\ body = 0 /\ apiOk = FALSE
    /\ results = NoResults
    /\ checkedAt = [o \in Objects |-> 0]
    /\ changes = [o \in Objects |-> 0]
    /\ quiet = TRUE
    /\ runs = 0

-----------------------------------------------------------------------------
(* The plan: modified_at at the scan, then the backup, object by object.   *)

Scan ==
    /\ phase = "scan"
    /\ stamps' = [o \in Objects |-> IF o \in Unstamped THEN 0 ELSE modified[o]]
    /\ phase' = "backup"
    /\ UNCHANGED <<server, backup, step, entry, todo, results, ghosts, quiet, runs>>

DueDependents == (Checked \ {Source}) \ DOMAIN backup   \* mutant: the source is left out

\* The source, what is to be fixed and what is to be deleted
Due == Checked \ DOMAIN backup

BackUp ==
    /\ phase = "backup"
    /\ \/ /\ Due = {}
          /\ phase' = "idle"
          /\ UNCHANGED backup
       \/ \E o \in Due :
             /\ backup' = [p \in DOMAIN backup \cup {o} |->
                              IF p = o THEN content[o] ELSE backup[p]]
             /\ UNCHANGED phase
    /\ UNCHANGED <<server, stamps, step, entry, todo, results, ghosts, quiet, runs>>

-----------------------------------------------------------------------------
(* The run.                                                                *)

OlderIsDrift(snapshot, now) == snapshot # 0 /\ snapshot > now   \* mutant

\* is_drift: a missing snapshot is no drift
IsDrift(snapshot, now) == snapshot # 0 /\ snapshot # now

FailedQueryPasses(o, answered) ==   \* mutant
    ~answered \/ (o \in present /\ ~IsDrift(stamps[o], modified[o]))

\* _drift_ok: a query that fails, or finds nothing, counts as drift.
DriftOk(o, answered) ==
    answered /\ o \in present /\ ~IsDrift(stamps[o], modified[o])

Fault(happened) == quiet' = (quiet /\ ~happened)

\* The source-drift hard stop, before anything is changed.
StartRun ==
    /\ phase = "idle"
    /\ runs < MaxRuns
    /\ runs' = runs + 1
    /\ \E answered \in BOOLEAN :
          /\ Fault(~answered)
          /\ IF DriftOk(Source, answered)
             THEN /\ phase' = "delete" /\ todo' = Deletes
                  /\ results' = NoResults
                  /\ checkedAt' = [checkedAt EXCEPT ![Source] = content[Source]]
             ELSE /\ results' = [NoResults EXCEPT !.aborted = TRUE]
                  /\ UNCHANGED <<phase, todo, checkedAt>>
    /\ UNCHANGED <<server, plan, step, entry, changes>>

\* apply_change_cmd: deletes, dependents, the source last, then the Sets.
NextPhase(p) ==
    CASE p = "delete" -> [phase |-> "fix", todo |-> Fixes]
      [] p = "fix"    -> [phase |-> "source", todo |-> {Source}]
      [] p = "source" -> [phase |-> "sets", todo |-> Sets]
      [] OTHER        -> [phase |-> "idle", todo |-> {}]

PhaseOver ==
    /\ phase \in {"delete", "fix", "source", "sets"}
    /\ step = "next" /\ todo = {}
    /\ phase' = NextPhase(phase).phase
    /\ todo' = NextPhase(phase).todo
    /\ UNCHANGED <<server, plan, step, entry, results, ghosts, quiet, runs>>

ModelsFirst(o) ==   \* mutant: FIX_ORDER upside down
    CASE phase = "delete" -> \A p \in todo : DeleteRank[o] <= DeleteRank[p]
      [] phase = "fix"    -> \A p \in todo : FixRank[o] >= FixRank[p]
      [] OTHER            -> TRUE

\* sorted(..., key=delete_sort_key), sort_fixes
NextInOrder(o) ==
    CASE phase = "delete" -> \A p \in todo : DeleteRank[o] <= DeleteRank[p]
      [] phase = "fix"    -> \A p \in todo : FixRank[o] <= FixRank[p]
      [] OTHER            -> TRUE

\* The entry at work is done with, its outcome recorded.
Record(outcome) ==
    /\ results' = outcome
    /\ step' = "next"

\* The drift check of a delete or a fix
Check(o) ==
    /\ phase \in {"delete", "fix"}
    /\ step = "next" /\ o \in todo /\ NextInOrder(o)
    /\ todo' = todo \ {o}
    /\ current' = o
    /\ \E answered \in BOOLEAN :
          /\ Fault(~answered)
          /\ IF DriftOk(o, answered)
             THEN /\ checkedAt' = [checkedAt EXCEPT ![o] = content[o]]
                  /\ step' = "checked"
                  /\ UNCHANGED results
             ELSE /\ Record([results EXCEPT !.skipped = @ \cup {o}])
                  /\ UNCHANGED checkedAt
    /\ UNCHANGED <<server, plan, phase, body, apiOk, changes, runs>>

\* The source is fetched without another check.
TakeSource ==
    /\ phase = "source" /\ step = "next" /\ Source \in todo
    /\ todo' = {}
    /\ current' = Source
    /\ step' = "checked"
    /\ UNCHANGED <<server, plan, phase, body, apiOk, results, ghosts, quiet, runs>>

-----------------------------------------------------------------------------
(* _delete_one                                                             *)

Removed(o) ==
    /\ present' = present \ {o}
    /\ changes' = [changes EXCEPT ![o] = @ + 1]
    /\ UNCHANGED <<content, form, modified>>

FailureIsDeletion(o, answered, there) ==   \* mutant: no re-query
    [results EXCEPT !.deleted = @ \cup {o}]

\* After a refused delete the object is looked up: not found counts as deleted, and
\* so does a lookup that fails.
AfterFailure(o, answered, there) ==
    IF answered /\ there
    THEN IF phase = "delete" THEN [results EXCEPT !.failedOther = @ \cup {o}]
                             ELSE results
    ELSE [results EXCEPT !.deleted = @ \cup {o},
                         !.guessed = IF answered THEN @ ELSE @ \cup {o}]

\* The call and, if it is refused, the lookup; a refused call may have had its effect.
DeleteNow(o) ==
    \/ /\ Removed(o)
       /\ o \in present
       /\ Record([results EXCEPT !.deleted = @ \cup {o}])
       /\ UNCHANGED quiet
    \/ /\ Removed(o) \/ UNCHANGED <<server, changes>>
       /\ \E answered \in BOOLEAN : Record(AfterFailure(o, answered, o \in present'))
       /\ Fault(TRUE)

DeleteObject ==
    /\ phase = "delete" /\ step = "checked"
    /\ DeleteNow(current)
    /\ UNCHANGED <<plan, phase, entry, todo, checkedAt, runs>>

-----------------------------------------------------------------------------
(* A fix, and the source: _plan_body, _mutate_body, _apply_one             *)
(* (a document fetched empty ends the command with a TypeError: see Kill). *)

Fetch ==
    /\ phase \in {"fix", "source"} /\ step = "checked"
    /\ \/ /\ current \in present
          /\ body' = content[current]
          /\ step' = "fetched"
          /\ UNCHANGED <<results, quiet>>
       \/ /\ Record(IF phase = "fix" THEN [results EXCEPT !.failedFix = @ \cup {current}]
                                     ELSE [results EXCEPT !.failedOther = @ \cup {current}])
          /\ Fault(TRUE)
          /\ UNCHANGED body
    /\ UNCHANGED <<server, plan, phase, current, apiOk, todo, ghosts, runs>>

\* Error 14544: the server does not take a column from an object while one built on
\* it still refers to the column.
Blocked(o) == \E p \in present : o \in BuiltOn[p] /\ p \notin Sets /\ form[p] # "new"

\* The import writes the fetched document, changed: what was saved since is gone.
Applied(o) ==
    /\ content' = [content EXCEPT ![o] = body]
    /\ form' = [form EXCEPT ![o] = "new"]
    /\ modified' = [modified EXCEPT ![o] = @ + 1]
    /\ changes' = [changes EXCEPT ![o] = @ + 1]
    /\ UNCHANGED present

\* The API's status may be wrong in both directions (open item #15).
Import ==
    /\ step = "fetched"
    /\ \/ /\ current \in present /\ ~Blocked(current)
          /\ Applied(current)
          /\ apiOk' \in BOOLEAN
          /\ Fault(~apiOk')
       \/ /\ UNCHANGED <<server, changes>>
          /\ apiOk' \in BOOLEAN
          /\ Fault(~Blocked(current))
    /\ step' = "imported"
    /\ UNCHANGED <<plan, phase, current, body, todo, results, checkedAt, runs>>

ApiStatusDecides(ok, verified) == ok   \* mutant

\* import_outcome, is_success_outcome: what the re-export shows decides.
Success(ok, verified) == verified

InForce(o) == o \in present /\ form[o] = "new"

\* The re-export: a document whose references can be searched; none, or one in which the
\* column matches something else ("error"); or one in which no search finds the column,
\* empty (dumped as null) or naming it in characters json.dumps escapes ("blind").
Readings == {"body", "error", "blind"}

\* _verify_change, verify_remove_applied: no leftover found is verified.
Verified(reading) == reading = "blind" \/ (reading = "body" /\ InForce(current))

Verify ==
    /\ step = "imported"
    /\ \E reading \in Readings :
          LET verified == Verified(reading)
          IN  /\ reading = "body" => current \in present
              /\ Fault(reading = "error" \/ (reading = "blind" /\ ~InForce(current)))
              /\ Record(IF Success(apiOk, verified)
                        THEN [results EXCEPT
                                 !.succeeded = @ \cup {current},
                                 !.unseen = IF reading = "blind" THEN @ \cup {current}
                                                                 ELSE @]
                        ELSE IF phase = "fix"
                        THEN [results EXCEPT !.failedFix = @ \cup {current}]
                        ELSE [results EXCEPT !.failedOther = @ \cup {current}])
    /\ UNCHANGED <<server, plan, phase, entry, todo, ghosts, runs>>

-----------------------------------------------------------------------------
(* _run_set_deletes                                                        *)

AlwaysDelete(k) == TRUE   \* mutant

\* set_delete_decision over failed_fix_guids: consumers whose fix has failed
MayDeleteSet(k) == InUseBy[k] \cap results.failedFix = {}

DeleteSet(k) ==
    /\ phase = "sets" /\ step = "next" /\ k \in todo
    /\ todo' = todo \ {k}
    /\ current' = k
    /\ IF MayDeleteSet(k)
       THEN DeleteNow(k)
       ELSE /\ Record([results EXCEPT !.skipped = @ \cup {k}])
            /\ UNCHANGED <<server, changes, quiet>>
    /\ UNCHANGED <<plan, phase, body, apiOk, checkedAt, runs>>

-----------------------------------------------------------------------------
(* rollback_cmd of the backup, once: "Do not re-run it after a partial     *)
(* restore".                                                               *)

\* What was changed is updated in place, what is gone is created again, and what was to
\* be deleted and still exists is skipped (_skip_still_present).  Nothing is kept from the
\* run but the backup, and no `modified` time matters any more.
StartRollback ==
    /\ phase = "idle" /\ runs > 0
    /\ phase' = "rollback"
    /\ todo' = Changed \cup (Deletes \ present)
    /\ results' = NoResults
    /\ quiet' = TRUE
    /\ current' = Source /\ body' = 0 /\ apiOk' = FALSE
    /\ stamps' = [o \in Objects |-> 0]
    /\ checkedAt' = [o \in Objects |-> 0] /\ changes' = [o \in Objects |-> 0]
    /\ UNCHANGED <<server, backup, step, runs>>

DependentsFirst(o) == \A p \in todo : o \notin BuiltOn[p]   \* mutant

\* order_by_references: roots first
RootsFirst(o) == \A p \in todo : p \notin BuiltOn[o]

\* The server takes a document back if what it refers to has the column again.
Restorable(o) ==
    /\ o \in present \/ o \in Deletes
    /\ \A p \in BuiltOn[o] : p \in present /\ form[p] # "new"

UsesMissingSet(o) == \E k \in Sets \ present : o \in InUseBy[k]

Restored(o) ==
    /\ present' = present \cup {o}
    /\ content' = [content EXCEPT ![o] = backup[o]]
    /\ form' = [form EXCEPT ![o] = "old"]
    /\ UNCHANGED modified

RestoreFailed(o) == [results EXCEPT !.failedOther = @ \cup {o}]

\* _rollback_one_entry: no drift check before, no re-export after it
RestoreEntry(o) ==
    /\ phase = "rollback" /\ o \in todo /\ RootsFirst(o)
    /\ todo' = todo \ {o}
    /\ \/ /\ Restorable(o)
          /\ Restored(o)
          /\ UNCHANGED <<results, quiet>>
       \/ /\ ~Restorable(o) \/ UsesMissingSet(o)
          /\ results' = RestoreFailed(o)
          /\ UNCHANGED <<server, quiet>>
       \/ /\ (Restorable(o) /\ Restored(o)) \/ UNCHANGED server
          /\ results' \in {results, RestoreFailed(o)}
          /\ Fault(TRUE)
    /\ UNCHANGED <<plan, phase, step, entry, ghosts, runs>>

FinishRollback ==
    /\ phase = "rollback" /\ todo = {}
    /\ phase' = "undone"
    /\ UNCHANGED <<server, plan, step, entry, todo, results, ghosts, quiet, runs>>

-----------------------------------------------------------------------------

\* The command is killed, raises, or the client exits on a lost answer; a call that was
\* under way may have had its effect.  The results were only in memory.
Kill ==
    /\ phase \in {"delete", "fix", "source", "sets"}
    /\ \/ UNCHANGED <<server, changes>>
       \/ step = "fetched" /\ current \in present /\ ~Blocked(current) /\ Applied(current)
       \/ phase = "delete" /\ step = "checked" /\ current \in present /\ Removed(current)
    /\ phase' = "idle" /\ step' = "next" /\ todo' = {}
    /\ results' = NoResults
    /\ Fault(TRUE)
    /\ UNCHANGED <<plan, entry, checkedAt, runs>>

\* A tenant saves an object, once; a reference to the column may come back while what
\* the object is built on has it.
TenantEdits(o) ==
    /\ o \in Edited \cap present
    /\ content[o] = 0
    /\ content' = [content EXCEPT ![o] = 1]
    /\ modified' = [modified EXCEPT ![o] = @ + 1]
    /\ \/ UNCHANGED form
       \/ /\ form[o] = "new" /\ \E p \in BuiltOn[o] \cap present : form[p] # "new"
          /\ form' = [form EXCEPT ![o] = "again"]
    /\ Fault(TRUE)
    /\ UNCHANGED <<present, plan, phase, step, entry, todo, results, ghosts, runs>>

Next ==
    \/ Scan \/ BackUp \/ StartRun \/ PhaseOver \/ TakeSource \/ DeleteObject
    \/ Fetch \/ Import \/ Verify \/ Kill \/ StartRollback \/ FinishRollback
    \/ \E o \in Objects : Check(o) \/ DeleteSet(o) \/ RestoreEntry(o) \/ TenantEdits(o)

Spec == Init /\ [][Next]_vars

-----------------------------------------------------------------------------
(* Properties                                                              *)

Phases == {"scan", "backup", "idle", "delete", "fix", "source", "sets", "rollback",
           "undone"}

TypeOK ==
    /\ present \subseteq Objects
    /\ content \in [Objects -> {0, 1}]
    /\ form \in [Objects -> {"old", "new", "again"}]
    /\ modified \in [Objects -> Nat] /\ stamps \in [Objects -> Nat]
    /\ DOMAIN backup \subseteq Checked /\ \A o \in DOMAIN backup : backup[o] \in {0, 1}
    /\ phase \in Phases
    /\ phase \notin {"scan", "backup"} => DOMAIN backup = Checked
    /\ step \in {"next", "checked", "fetched", "imported"}
    /\ step # "next" => phase \in {"delete", "fix", "source"} /\ current \in Checked
    /\ current \in Objects /\ todo \subseteq Objects
    /\ body \in {0, 1} /\ apiOk \in BOOLEAN
    /\ results.failedFix \subseteq Fixes
    /\ results.succeeded \subseteq Changed /\ results.unseen \subseteq results.succeeded
    /\ results.guessed \subseteq results.deleted
    /\ results.deleted \subseteq Deletes \cup Sets
    /\ checkedAt \in [Objects -> {0, 1}] /\ changes \in [Objects -> Nat]
    /\ quiet \in BOOLEAN /\ runs \in 0..MaxRuns

\* "A prior backup is REQUIRED ... so rollback stays possible" (apply_change_cmd): of
\* everything the command changes or deletes, Sets excepted, the backup holds the
\* content that its drift check accepted, so that nothing a tenant saved between the
\* scan and the check is overwritten or deleted.
ChangedIsBackedUp ==
    \A o \in Checked \ Unstamped : changes[o] > 0 => backup[o] = checkedAt[o]

\* However often a plan is run again after kills, wrong answers and partial failures,
\* no object is changed twice: its own change makes it drift.  (_drift_ok)
ChangedOnce == \A o \in Checked \ Unstamped : changes[o] <= 1

\* What is reported as succeeded is in force, unless a tenant has undone it since or the
\* check had nothing to search (an empty re-export, an escaped name), whatever the import
\* call answered.  (import_outcome, _verify_change)
SucceededIsTrue ==
    \A o \in results.succeeded \ results.unseen : form[o] \in {"new", "again"}

\* What is reported as deleted is gone, unless both the delete and the lookup that
\* should have settled it failed.  (_delete_one)
DeletedIsGone == (results.deleted \ results.guessed) \cap present = {}

\* The consumer guard of the Set deletes: a Set goes only if every consumer that still
\* refers to it has been passed over (it drifted, its own delete failed or is only believed
\* to have worked, or its fix is only believed to) or was saved by its tenant again after
\* its fix.  (set_delete_decision)
SetsGuarded ==
    [][\A k \in Sets : k \in present \ present' =>
          \A c \in InUseBy[k] \cap present :
              form[c] = "old" =>
                  c \in results.skipped \cup results.failedOther \cup results.guessed
                            \cup results.unseen]_vars

\* Without faults and edits one run does everything: the order of the phases, and of
\* the types within them, never makes the server refuse a change.  (FIX_ORDER,
\* error 14544)
QuietRunSucceeds ==
    quiet /\ phase = "idle" /\ runs > 0 =>
        /\ \A o \in Changed : form[o] = "new"
        /\ (Deletes \cup Sets) \cap present = {}

\* A rollback that meets no fault and no edit restores everything it takes up, wherever
\* the run before it stopped, in one pass: only what uses a Set that the run has deleted,
\* and that no backup holds, may stay as it is.  (order_by_references, _skip_still_present)
QuietRollbackRestores ==
    phase = "undone" /\ quiet =>
        \A o \in Checked :
            \/ o \in present /\ content[o] = backup[o] /\ form[o] = "old"
            \/ UsesMissingSet(o)
            \/ o \in Deletes \cap present

\* dependency/apply.py:216-220: "A Set is deleted only if EVERY consumer fix in 9c
\* succeeded"; no consumer is left "pointing at a missing Set GUID".
NoDanglingConsumer ==
    [][\A k \in Sets : k \in present \ present' =>
          \A c \in InUseBy[k] \cap Fixes : form[c] # "old"]_vars
=============================================================================
