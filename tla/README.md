# Verification of the `ts` command line

TLA+ models, TLC runs and TLAPS proofs for the parts of `tools/ts-cli`
(package `ts_cli`) that change something that cannot be taken back: objects on a
ThoughtSpot cluster, and the files on the operator's disk that are needed to undo
what was done to them.

The repository is large and most of it translates documents: a Tableau workbook, a
Databricks metric view or a dbt project goes in and a ThoughtSpot model comes out.
Those parts have no steps and no shared state and unit tests reach them well. The
parts modelled here are the opposite. They are short, but each is a sequence of
remote calls and file writes that may stop anywhere, that runs again, and that meets
a server and tenants who go on working in between.

## 1. The system

### 1.1 Actors and shared state

- **The operator** runs one `ts` command after another. A command has no memory but
  the files an earlier one left.
- **`ts` processes** may run side by side on one profile (an agent starts several).
  They share the token cache in the temporary directory: a token file and an expiry
  file, with no lock.
- **The ThoughtSpot server** holds the objects. It may execute a call whose answer is
  lost, and go on working after a gateway has given up.
- **Tenants** edit and create objects at any time.
- **Files**: `plan/state.json` and `plan/backup/<guid>.json` of a migration;
  `manifest.json` and the documents of a dependency backup; the rollback record of a
  publication.

Every command reaches the server through `ThoughtSpotClient.request`. What that
function promises (a create is never sent twice, an ambiguous fault ends the command)
is what the models of the commands build on: there a command that dies at any point
stands for a kill as well as for the client's exit.

### 1.2 Components

| Component | State | Operations | What is hard | What makes it correct |
|---|---|---|---|---|
| REST client (`client.py`) | two cache files, the token in memory, two retry budgets | find a token, authenticate, send, retry, clear the cache | concurrent processes on the files, faults that may hide an executed call, revoked tokens | no create twice; a definite failure had no effect; every call ends; a stale token does not survive a 401 |
| Org migration (`commands/migrate.py`, `migrate/apply_plan.py`, `apply_exec.py`, `discover.py`, `classify.py`, `rewrite.py`) | the ledger, the backup files, the objects of two Orgs and their grants | `apply`, `apply --resume`, `rollback`; five steps | kills between a call and its record, a plan regenerated for an old ledger, names used as keys, failed probes | complete means migrated; originals survive and are restorable; no stranded copy; no foreign grant; rolled back means gone |
| Cascade delete and rollback (`commands/dependency_cascade.py`, `commands/dependency.py`, `dependency/cascade.py`, `dependency/backup.py`) | the preview, the backup and its manifest, the server's asynchronous delete, the map of new GUIDs | `cascade-preview`, `backup`, `cascade-delete`, `rollback`, `rollback --guid` | edits between the checks and the delete, an answer that is lost, survivors of a partial delete, order of restoring | what is removed is backed up as it was; the printed status is true; no twins; a restored object binds to restored ones |
| Dependency change (`commands/dependency_apply.py`, `dependency/apply.py`, `commands/dependency.py`) | the plan with its `modified` times, the backup, the results per phase | `apply-change`: deletes, fixes, the source, Set deletes; the `rollback` of what was changed | drift between scan, check, fetch and import; an import's answer that is wrong; a plan that is run again | what is changed is backed up as its check saw it, once; the printed result is true; a Set goes only when nothing reads it; a quiet run and a quiet rollback do everything |
| Publishing (`publish_planning.py`, `publish_plan.py`, `publish_apply.py`) | variables and values, parameterized fields, the files of closure, matrix and rollback record | `export`, `resolve`, `apply`, `rollback`, `run` | commands that stop at any call, re-running from an old closure, variables that several objects share | Primary always reads its own data and no target Org ever does; what apply did is what rollback undoes |
| Alias waves (`migrate/aliases.py`, `alias.py`) | one alias document for all Orgs | export, merge, import per wave | two waves at once, a partial export | a wave changes its own Orgs only |
| Tenancy (`commands/tenancy.py`, `tenancy_plan.py`, `tenancy_spec.py`) | Orgs, groups, users, memberships, the marker | `apply`, `verify`, `teardown` | re-runs from a fresh reading, several tenants at once, an Org that cannot be read | what is reported as applied or torn down is; teardown deletes only what applies of its own spec made, or of its template in Primary, and only in Orgs that were named; re-running ends |
| Table creation (`commands/tables.py`) | batches, the second pass | create, attach row-level security | failure between the passes | a table without its security is reported |
| Sharing, column security | a list of calls | one pass over the calls | partial failure | each Org gets its own calls |
| Read-only reports (`audit/`, `report/`, `sets/`, `migrate/sets_scan.py`) | none | export, evaluate, print | none | the report follows the documents |
| Document translation (Tableau, Power BI, Qlik, Sisense, Excel, Databricks, dbt, Snowflake, formulas, model building, `dependency/mutate.py`) | none | pure functions | none of the concurrent kind | meaning is preserved |
| Aggregates, calendars, data loading | none that outlives the command | score, generate SQL, insert rows | none | generated SQL is right |
| Skills and references (`agents/`) | documents | read by an agent | none | their promises agree with the code |

`PROJECT.json` lists the same components with their files, and every hazard with its
line and the properties that would catch it. A note says where a hazard lies outside
what its property or its instance covers, or why no property covers it.

## 2. The modules

| Module | Models | Extended by |
|---|---|---|
| `ApiClient` | the token cache and the request loop | `ApiClient_proofs` |
| `MigrateApply` | `migrate apply` and `migrate rollback` | `MCMigrateApply` (TLC instance), `MigrateApply_proofs`, and on top of it `MigrateTarget_proofs` |
| `MigrationPromise` | what a migration promises a tenant, without steps, ledgers, resumes or kills; `MigrateApply` is shown to implement it | an INSTANCE in `MigrateApply` |
| `CascadeDelete` | `dependency cascade-preview`, `backup`, `cascade-delete`, `rollback` | `MCCascadeDelete` (TLC instance), `CascadeDelete_proofs` |
| `DependencyChange` | `dependency apply-change`, and the `rollback` of its backup | `MCDependencyChange` (TLC instance), `DependencyChange_proofs`, `DependencySafety_proofs` |
| `Publication` | `publish export`, `resolve`, `apply`, `rollback`, `run` | `MCPublication` (TLC instance), `Publication_proofs` |
| `Tenancy` | `tenancy apply`, `verify`, `teardown` | `MCTenancy` (TLC instance), `Tenancy_proofs` |

Each command is a sequence of calls of `ApiClient`'s `request`, and each of these modules
takes from it what `ApiClient` shows: a call that ends the command may have been
executed, at most once.

Some modules also contain definitions marked `mutant` in their comment. Each is a
form of the definition after it with a plausible mistake in it: a dropped guard, an
off-by-one, a missing reset. Nothing uses them in a specification; they are there to
show that a property fails when the code has the mistake.

### 2.1 `ApiClient`

A process makes one call. Its program counter walks through `get_token` and
`_read_cached_token` (`UseMemory` ... `ReadToken`), `_authenticate` and
`_write_cached_token` (`Authenticate` ... `FillExpiry`), one pass of the loop in
`request` (`Send`), and `clear_token_cache` (`SeeToken` ... `UnlinkExpiry`). Every
look at a file and every write is a step of its own, because the processes
interleave there: `exists()` and `read_text()` are two steps, and opening a file for
writing (which truncates it) and filling it are two more.

A token is abstracted to the server-side generation it was issued in; the server
accepts exactly the current one, and `Revoke` starts a new one. `tokenEnv` tells a
`token_env` profile, whose token comes from the credential store and which writes no
expiry file, from a password or secret-key profile. What a fault means follows the
code: `NeverSent` is a connection that was never established, `Ambiguous` a fault after
the request may have reached the server, which `_refuse_ambiguous_retry` turns into an
exit unless the call may be repeated.

In two of its outcomes a call ends in a Python traceback: `request` authenticates inside
its loop but outside its `try` (`client.py:423`), so a network fault of the token endpoint is
neither retried nor explained. The model has the outcome; no property forbids it.

`executed` counts how often the server has executed the call. It and `rejectedAt`
(the generation at the first 401) are history for the properties and guard nothing.

### 2.2 `MigrateApply`

One tenant, one source Model, its dependent Views and content. `OnModel` is content
with a reference to the Model itself (it is rewritten), the remaining content reads
Views only (it is *shielded*: moved to another Org without a rewrite). The target is
another Org (`SameOrg = FALSE`: imports create copies, `uses` records what they read)
or the same Org (`SameOrg = TRUE`: imports update in place, `bound` records it).

| In the module | In the code |
|---|---|
| `disk`, `mem` | `state.json`, and the ledger the running command holds |
| `backup` | `backup/<guid>.json`; the value is what the saved object read |
| `Classified`, `StartApply` | `dependents_through_views`, `_classify_scope`, `build_apply_plan`: the plan is computed afresh from the live Org on every start, `--resume` included |
| `Dark`, `blank` | `export_dependents`: an object whose document is missing from the export counts as one without references |
| `Remap`, `RewriteContent` | `_view_guid_remap`: a View whose document is missing keeps its source guid in the content |
| `GrantStack`, `Unreached` | `target_stack`: without the published Model's document Tables and Model are not granted |
| `NextStep`, `Pending` | `pending_steps`: a step is skipped by name |
| `RunBackup`, `RewriteViews`, `RewriteContent`, `MoveShielded`, `ShareStack`, `ShareContent` | `run_backup`, `run_rewrite_views`, `run_rewrite_content`, `run_move_shielded`, `run_share_grants` |
| `made`, `Completed`, `SaveStep` | `imported_guids`, `record_completed` and the write of the ledger after a step |
| `StepFails` | `StepFailed` |
| `StartRollback`, `DeleteContent`, `DeleteViews`, `FinishRollback` | `rollback_migration`, `_types_by_guid`, `_delete_in_order` |
| `BackupCutShort`, `Crash` | a kill, or the client's exit |
| `AddObject` | a tenant saves a new object in the source Org |

Created objects are recorded by *name* in the ledger, as in the code, and names need
not be unique (`NameOf`); of two objects with one name the later in the listing wins
(`FromEnd`). `Lands` models Strict Object Mode: a grant on an object whose sources the
group has not been granted is accepted and dropped.

Three exports of the code do not compare what they asked for with what came (`discover.py:211`,
`apply_exec.py:304`, `:430`), unlike the other three (`:152`, `:226`, `:332`). `MayBeBlank` and
`StackMayBeBlank` say which documents may be missing from them. What a run has missed in this
way is remembered in `blank`, which guards nothing, and `Overlooked` adds the Views of such
content: those may have been misfiled because of it.

`Init` has a second disjunct: a finished same-Org migration whose ledger was written
before the ledger recorded the topology. `rollback_refusal` has a branch for exactly
that file.

**`MigrationPromise`** is the abstract specification. Its actions are those a tenant could
name: an object is added, saved, rewritten in place, copied in a batch, shared or withdrawn,
or the operator is told something. `MigrateApply` maps to it as it stands (`Promise`):
`originals` is what exists in the source, `saved` the backup files that hold an object as
it was, `rewritten` what is bound to the target, `grants` those on content, `told` the
report. `KeepsPromise` is the claim that every behaviour of `MigrateApply` is one of
`MigrationPromise`, step for step or stuttering: a rewrite in place only of what is
already saved, a saved file never replaced by a rewritten object, a copy whose Views
are there before it (or were `overlooked`, which only grows), one batch with each object once, a withdrawal that leaves no
copy without what it reads, and no report of success before the work is done.

### 2.3 `CascadeDelete`

The sequence `idle, previewed, export, backed_up, checked, send, sent, answered,
reported, restore` is the operator's sequence of commands; a refusal goes back to
`idle`. A preview names at least the direct dependents and may go deeper (`deep`),
and never names reusable Sets and feedback (`Unlisted`), which is why the code asks for them
separately (`Attached`). A version number is both an object's content and its
`modified` time.

| In the module | In the code |
|---|---|
| `RunPreview` | `cascade_preview_cmd`, `_scope`, `_attached` |
| `ModifiedBeforeExport`, `Export`, `WriteBackup` | `backup_cmd`: the times are read before the exports |
| `Scope`, `Closure`, both by `Grown` | the loop of `_scope` until nothing is added, and the dependents of dependents that the server deletes: what one keeps adding to a set of objects |
| `CheckScope`, `CheckPresent` | `_checks_before_delete` |
| `SendDelete`, `Answer`, `ServerRemoves`, `ServerGivesUp` | the delete call, and the server, which removes dependents first and may work on after its answer was lost |
| `Report` | `_report_after_delete`, `definite_failure`, `deleted_without_backup` |
| `RollbackAll`, `StartRollback`, `RollbackEntry`, `ImportLost`, `FinishRollback` | `rollback_cmd`, `_skip_still_present`, `order_by_references`, `remap_guids`; a single `StartRollback({o})` is the printed `restore_later` command |
| `Kill` | a kill after the delete was sent or during a rollback |
| `TenantEdits`, `TenantCreates` | tenants, at any moment |

### 2.4 `DependencyChange`

Removing a column. An object is what its tenant last saved (`content`), its `modified`
time and its `form`: whether it still refers to the column (`old`), has had the plan's
change (`new`), or has got the column back from a tenant since (`again`). What a mutation does
inside a document, and what a verification looks for there, is that one distinction.

| In the module | In the code |
|---|---|
| `Scan`, `BackUp` | the plan's `modified_at`, and `backup_cmd` |
| `StartRun` | `apply_change_cmd` up to the hard stop on a source that drifted |
| `Check` (`DriftOk`, `IsDrift`), `Fetch`, `Import`, `Verify` | `_run_fixes`, `_plan_body`, `_import_body`, `_verify_change`: four calls, four steps |
| `TakeSource` | `_run_source`, which does not check again |
| `DeleteObject`, `DeleteSet` (`DeleteNow`, `AfterFailure`, `MayDeleteSet`) | `_run_deletes`, `_run_set_deletes`, `_delete_one`, `set_delete_decision` |
| `NextPhase`, `NextInOrder` | the order of the phases and `FIX_ORDER`, `DELETE_ORDER` |
| `StartRollback`, `RestoreEntry`, `FinishRollback` | `rollback_cmd` on this backup, `_skip_still_present`, `order_by_references`, `_rollback_one_entry` |
| `Kill`, `TenantEdits` | a kill or the client's exit, at any point; a save, between any two calls |

`Blocked` is the server's error 14544: a column is not taken from an object while one built
on it refers to it. `quiet` remembers that neither a fault nor an edit has happened,
`checkedAt` and `changes` what was there at the check and how often an object was changed;
the three guard nothing.

`Verify` takes the re-export as one of three readings. A document whose references can be
searched tells what is in force. An export that fails, or a column name that matches something
else in the document, verifies nothing. And in two cases there is nothing to find, so the code
takes the change for applied: an export item without a document, which parses to `None` and is
searched as the text `null`, and a name with quotes or non-ASCII characters, which `json.dumps`
has escaped in the text it is searched in (`dependency_apply.py:174`, `dependency/apply.py:136`).
`results.unseen` remembers what was listed as succeeded that way, as `results.guessed` remembers the
deletions that nothing confirmed.

### 2.5 `Publication`

The commands hand files to each other: `closure` (export.json), `matrix` (matrix.json),
`record` (of `--rollback-out`). All three may be older than the cluster. A field holds
a static value or the token of a variable. A name is a number, in the order in which
`suggest_variable_name` tries them; a token is written as its variable.

| In the module | In the code |
|---|---|
| `Export` | `_walk_closure`, `build_closure`: the fields of any subset of the `Unreadable` Tables are passed over, and the owning Org of an `Unfound` target may not be found |
| `Clusters`, `Unwired`, `Suggested`, `VariableOf`, `ValueFor`, `WithOwner`, `Matrix`, `Resolve` | `build_clusters`, `suggest_variable_name`, `_variable_name`, `_value_for`, `build_value_matrix`, `coverage_report`, `resolve` |
| `Original`, `ToBind`, `Originals`, `RecordOf`, `StartApply` | `_variable_steps`, `build_apply_plan`, `_write_rollback` |
| `CreateVariable` with `Reused`, `AssignValue`, `Parameterize`, `PublishAll` | `_run_apply`, `_publish_all` |
| `Known`, `StartRollback`, `Unpublish`, `Unparameterize`, `DeleteVariables`, `FinishRollback` | `rollback_steps`, `rollback`, `_rollback_unpublish` |
| `Ends` | the client's exit, or a kill, before or after a call's effect |
| `OthersCreate` | a variable made by hand |

`run` is `Export`, `Resolve` and `StartApply` in one go. `maker`, `open`, `exposed`,
`ownerless` and `reused` are history. The closure and the matrix of a target need not be from one export: a field
that only the matrix has is bound without a recorded original, which the rollback skips; the
server then refuses to delete its variable, and the rollback ends there.

The server is the one the design document observed (2026-07-25-ts-publish-orgs-design.md:152-164):
it refuses to publish an object with a variable that has no value in the Org, and one with no variable
at all. It does not ask whether every field is bound (`Granted`). What it answers to a
name that is taken is left open: `CreateVariable` ends the command, as after the HTTP 409 "Duplicate
template variable name" that was observed, or passes the name over, as the code does for "already exists".

`RollsBackFirst` is the operator's discipline, not the code's: no target is
planned again before its last apply has been rolled back.

### 2.6 `Tenancy`

Several specs from one template, so they carry one marker and may share a group of
the Primary Org. `things` is what exists (Orgs, groups as <<Org, name>>, users),
`marked` what carries the marker, `belongs` who is in which Org, `members` who is in
which group.

| In the module | In the code |
|---|---|
| `Coherent` | `validate_spec` (an assumption on the constant `SpecOf`) |
| `Readings`, `Reading`, `Listed`, `TakenFor`, `Attributed` | `_org_inventory`, `_read_cluster`, `_groups_in_org`, `_accumulate_org` |
| `ApplyPlan`, `TeardownPlan`, `InScope`, `NamedOrg`, `Rank`, `First` | `build_apply_plan`, `build_teardown_plan` and its three parts, `_STEP_ORDER` |
| `Start`, `Call`, `Finish`, `CreateOrg`, `CreateGroup`, `CreateUser`, `AddGroupMember`, `Stamp` | `apply_cmd`, `teardown_cmd`, `_stamp` |
| `Unknown`, `Resolves` | `_ORG_INDEX_CACHE`, `_org_name_to_id`, `_resolve_org_id` behind `_org_client` |
| `ChangeWish` | the operator decides to tear down, with any `--org` (Orgs of the spec, Primary, none), or to stand the tenant up, at any time and again |
| `OthersCreate` | an Org, a group or a user made by hand, without the marker |

`wish`, `named` and `done` are the operator's: what is wanted, with which `--org`, and
whether the last command said, with exit 0 and without a warning about an unreadable Org, that
it has been done. `verify` is an apply whose plan is empty. Four variables are history, for the
properties: `made` (whose apply made what), `swept` (common groups that another
tenant's teardown took since a tenant last read the cluster), `stripped` (users who outlived
one of their Orgs) and `late` (what was made by hand under a name whose deletion was under way).

`RowsNameOrgs` says whether the server's rows of groups name their Orgs. Where they do not,
`_groups_in_org` keeps every row and Primary is read as having the groups of all Orgs, by
name; the code calls that "the old behaviour" of some builds.

## 3. What the runs check

All runs are in `PROJECT.json`. *Violation* runs check a sentence of the
repository's own documents or comments that the code does not keep; each has a
finding that quotes the sentence.

### 3.1 REST client

| Run | Properties | Instance |
|---|---|---|
| `client_pair` | `TypeOK`, `NoDuplicateCreate`, `DefiniteFailureHasNoEffect`, `SecondRejectionIsNews`, `EveryCallEnds` | two processes, one creating and one repeatable call, one retry each, one revocation, one kill; both kinds of profile; every state of the files at the start |

Two processes are enough for every interference the files allow: a process sees a
file that another has opened, filled or removed between two of its own steps, and
each of those steps is made by one other process. One retry is enough for the
first retry and the exhausted budget; the proof covers any number.
`SecondRejectionIsNews` is about a process whose profile is not a `token_env` one, while no other
process has fetched a token: the others may read, truncate and remove the files at any
moment. One that has fetched a token may put an older one into the cache in between, and a
`token_env` profile gets the same token from the credential store however often it asks.

`FairSpec` assumes that a started
process keeps taking steps, which the operating system's scheduler provides.
Nothing is assumed of the server, the network or the other processes: a fault at every
opportunity is a fair behaviour, and `EveryCallEnds` has to hold in it. Killing a
process, revoking tokens, refreshing a credential and the passing of time have no
fairness.

### 3.2 Org migration

| Run | Properties | Instance |
|---|---|---|
| `migrate_new_org` | `TypeOK`, `CompleteMeansMigrated`, `RolledBackMeansGone`, `NoStrandedCopy`, `NoForeignGrant`, `KeepsPromise` | another Org, three commands of any kind, one Answer that appears at any moment, permissions that cannot be read, exports without the documents of the View, of shielded content or of the Model |
| `migrate_same_org` | `OriginalsAreBackedUp`, `OriginalsSurvive`, `KeepsPromise` | the same Org, five commands, starting fresh or from an older version's ledger, discoveries that cannot read some of the content |
| `migrate_resume_twice` | violation of `NoSecondCopy` | kill between an import and the ledger, then `--resume` |

The tenant is a View, an Answer on the Model, an Answer on both and an Answer that only
the View feeds: each of the three classes, and content that depends on a step before
its own. Two groups with different grants per object make a grant to the wrong group
visible. Three commands reach apply, rollback and apply again, and an apply that is resumed
twice; five in the same Org allow an interrupted run, resumed and fresh ones in any
order. The theorems of section 4 cover any tenant and any number of commands.

The passing runs state their conditions as constants:

- `ResumeUndone = FALSE`: `apply --resume` is not run on a ledger whose rollback has
  started. Nothing in the code refuses it. With `TRUE` the steps whose objects were
  deleted are skipped by name and `CompleteMeansMigrated` does not hold.
- `LateObjects = {}` in the same Org. Content that is created between a failed run and its
  `--resume` is rewritten in place by a step that follows a backup which has been
  completed without it (`apply_plan.py:366`): `OriginalsAreBackedUp` does not hold then.
- Names are unique. What was created and what is to be granted is keyed by name
  (`apply_exec.py:98`, `:405`), and with two Answers of one name `NoForeignGrant` does not hold.
- No View is read for the first time while a migration to another Org is under way. With a
  late View `NoStrandedCopy` does not hold: apply stops after `rewrite_views`, a
  View is saved and content on it and on the Model; `--resume` does not repeat the completed
  step, so the View is not copied, and the content's copy keeps the reference to the View of the
  source Org (`apply_exec.py:232-234`).
- `FreshReruns = FALSE` in the violation run shows that it needs no re-run without
  `--resume`.

`CompleteMeansMigrated` speaks of the plan of the run that reported success and of what
was there from the start. A permissions read that fails looks like an object without
grants (`source_group_grants`, `apply_exec.py:411`), without a word to the operator; the property
allows that for the object concerned and for no other. The same goes for a document that is
missing from one of the three exports that do not count what came. What the properties then
allow is exactly this, and no more:

- a copy may read the source Org's View if that View's document was missing (`NoStrandedCopy`);
- a View, and content on Views alone, may have no copy if overlooked; content on the Model
  always has one (`CompleteMeansMigrated`);
- grants may be missing on content with an overlooked View, and on content of groups that
  cannot see the Model because its Tables were not listed (`CompleteMeansMigrated`);
- in place, content that was rewritten unread may be backed up once more as rewritten
  (`OriginalsAreBackedUp`), and an overlooked View may stay as it was (`KeepsPromise`);
- content that was misfiled in one run and not in the next has two copies, of which the rollback
  forgets one (`apply_plan.py:422`, `RolledBackMeansGone`).

`KeepsPromise` is a refinement and so a property of steps: TLC checks that every step of
`MigrateApply`, through every resume, fresh re-run, rollback and kill of the two instances,
is a step of `MigrationPromise` or changes nothing it sees.

One more thing follows from the code and is no run: a View that nothing reads is
looked up nowhere by `_classify_scope` (`commands/migrate.py:522`) and is
classified and imported with the content. The model keeps this (`Classified`); no property
depends on it.

### 3.3 Cascade delete and rollback

| Run | Properties | Instance |
|---|---|---|
| `cascade_guarded` | `TypeOK`, `RemovedIsBackedUp`, `AppliedIsTrue`, `NotAppliedIsFinal`, `NoTwin`, `BindsToTheRestored` | a Model, a View on it, a Model on the View, an Answer on that; a tenant edits the second Model, creates an Answer that reads both Models, and a reusable Set; two rollbacks |
| `cascade_restore_later` | violation of `BindsToTheRestored` | a Model and an Answer on it, three rollbacks |

The instance has the shape that makes the rollback's order hard: the second Model
outranks the View by type and reads it. `Edited` and `LateObjects` hold one object of
each kind the checks must find: a listed object that changes, an object that a later
preview names, and a Set that no preview names. Tenants act between any two steps, so
also between the last check and the delete; what is edited or created in that moment is
outside `RemovedIsBackedUp`, which speaks of what existed at the re-check with the content it had at
the existence check, and is the concern of `AppliedIsTrue`: exit 0 is printed only when
nothing the server took on and names was without a backup. It names no Sets and no feedback, so
a Set created in that moment is deleted without a backup and without a word, and `AppliedIsTrue`
leaves it out (`Unlisted`); one that existed at the re-check makes the command refuse.

`BindsToTheRestored` is what the code's readme says of a rollback: no restored object
reads the deleted original of one that the same rollback or an earlier one restored. (An
object that is restored *later* cannot be known to the earlier run.) It holds
for the whole rollback and one `restore_later` command after it (two rollbacks): the
server removes dependents first, so what a skipped object is built on was skipped as well.
An import tells only with status OK, and with the object in its answer, that it has created one:
a WARNING, an error that applied, or an OK without a GUID leaves a copy whose GUID the run does not know
(`dependency.py:501`, `:549-560`), and what is restored after it keeps the deleted GUID. The model
has these outcomes (`unlearned` remembers the copies) and the property excepts references to them: it
says that the order and the map lose nothing that the code could have known. The whole rollback is
run once, as the command's documents ask; a second one would create again what an earlier one
had created under an answer it took for a failure.

It fails with two such commands: each run of `rollback` starts with an empty map of new
GUIDs, so the second object is bound to the deleted original of the first. That is
`cascade_restore_later`.

No fairness is assumed: the properties are about safety, and the server is allowed
never to finish.

### 3.4 Dependency change

| Run | Properties | Instance |
|---|---|---|
| `dependency_apply` | `TypeOK`, `ChangedIsBackedUp`, `ChangedOnce`, `SucceededIsTrue`, `DeletedIsGone`, `SetsGuarded`, `QuietRunSucceeds`, `QuietRollbackRestores` | a Model, a View on it, an Answer on the View to be fixed, another to be deleted, a Set both Answers use; the plan is run twice, then rolled back; the Model and the Answers are edited; the scan has no time for the View |
| `dependency_set` | violation of `NoDanglingConsumer` | the same objects, one run |

The chain of Model, View and Answer is what makes the order of the fixes and of the
restoring matter; the Set has a consumer in each of the two lists. Two runs of one plan are
enough for a re-run after each way to stop: the second starts from any state the first can leave.

The edge of each property is where the code's promise ends. `ChangedIsBackedUp`
compares the backup with what the drift check saw; a save between that check and the
import is overwritten and is in no backup (the calls are separate and the server
has no conditional update). An object without a `modified` time (`Unstamped`) is never
found to have drifted, by the code's own decision (`is_drift`), and is outside
`ChangedIsBackedUp` and `ChangedOnce`. `DeletedIsGone` excepts objects whose delete
was refused and whose lookup failed too, which the code reports as deleted
(`guessed`), and `SucceededIsTrue` those whose re-export had nothing to search (`unseen`, section 2.4).
The docstring of `_verify_change` calls a failed re-export "a verification failure (never a
silent pass)" (`dependency_apply.py:166`); an empty one is passed. `SetsGuarded` is what the guard of the Set deletes does achieve:
a consumer that still uses a Set when it goes was passed over in this run and is on its
list of skipped or failed objects, or is one of the entries that were listed as done with nothing to show it. What the guard promises is `NoDanglingConsumer`, and
`dependency_set` shows a consumer that drifted, was skipped, and lost its Set.

`QuietRunSucceeds` and `QuietRollbackRestores` say that the orders are right: with
nothing in the way the server never refuses a change or a restored document. The rollback is quiet from
its start, so the second holds wherever the run before it was killed. It excepts
what uses a deleted Set: Sets are in no backup. Two limits of the code are visible in the
instance and are not claims: `FIX_ORDER` goes by type, so it would fix a View before a Model
built on it, and one View before another built on it (error 14544 in a quiet run), and a rollback restores in place
without a drift check, over whatever tenants saved since.

### 3.5 Publishing

| Run | Properties | Instance |
|---|---|---|
| `publication_apply` | `TypeOK`, `OwnerKeepsItsData`, `PublishedIsCovered`, `RollbackRestores` | a Model on two Tables with one schema, one of which may not be readable, and a Model on a Table with another schema, whose owner may not be found; one target Org with a given value; two applies, two rollbacks; three variable names, one of which somebody else may take |
| `publication_again` | violation of `OwnerKeepsItsData` | one Model, applied, exported, resolved and applied again |

Two fields in one closure make a half-done binding possible, two Orgs a half-done assignment; two Models with
different schemas make them compete for a variable name, from closures that are both older than the other's run, and the
second takes the first one's variable for its own. One target Org is enough: Orgs differ
only in the values they are given, and Primary is the second. `publication_again` has two
schemas in one closure.

The three invariants cover what the fixed order of `_run_apply` and its reversal in
`rollback_steps` are for. They hold at every step and not only between commands, so a
command may stop anywhere. Their exceptions are where the code does not keep the promise:

- `OwnerKeepsItsData` excepts a target whose export did not find the owner (`ownerless`): its matrix
  has no value for Primary (publish_plan.py:392), and its fields read nothing there from the
  moment they are bound until they are rolled back. And it excepts the fields of a variable that another apply passed over
  as "already exists" while they were bound to it (`reused`): that apply replaces the variable's values
  with its own. Both contradict README.md:1572.
- `PublishedIsCovered` is about the fields that the matrix binds. The fields of a Table that export passed over
  (publish_planning.py:61-69) are in no matrix and read Primary's static values in the target Org, with nothing
  to stop the publication as long as one field of the object is bound. It also excepts a target whose rollback could not
  unpublish it and went on (`exposed`): the code does that on purpose and reports it.
- A rollback deletes every variable that its record lists, also one that apply found and reused, unless a
  field is bound to it; README.md:1627 says "A variable that already existed is never deleted". The model has
  the step; no property is about it.

`RollsBackFirst` is necessary. Without it a second apply of the same target plans from
fields that are tokens already, and two things go wrong. The value of the owning Org becomes
the token itself, which `publication_again` shows; and the rollback record, written anew
before the run, no longer holds the static values, so that no rollback restores them.

### 3.6 Tenancy

| Run | Properties | Instance |
|---|---|---|
| `tenancy_two` | `TypeOK`, `AppliedMeansComplete`, `TornDownMeansGone`, `TakesOnlyItsOwn`, `NoUserIsStripped`, `ReRunFinishes` | two tenants with two Orgs and one; a common group in Primary, whose name is also that of a group of the second's Org; the first's user in two Orgs and Primary, the second's in Primary alone; the first tenant's wish changes twice, the second's once; one fault, which is a refusal of the network, a kill, an unreadable Org, or a thing made by hand: the second's Org, the first's user or the common group |
| `tenancy_same_group` | violation of `AppliedMeansComplete` | one tenant, one group name in two Orgs, one fault |

Two Orgs in a tenant make a partial teardown possible, and one user in both makes it
refuse the user. The common group is created by whichever apply comes first and carries a marker
that fits both specs. One fault stops a command anywhere, and its re-run finds what it left; two
changes of one tenant's wish are an apply, a teardown with any `--org` and an apply again,
or two teardowns, during the commands of the other. With two faults the instance has
over a million states and takes longer than a run may.

The exceptions are what the code does, and each is needed: without any one of them TLC finds
the property violated.

- **`--org Primary`.** The teardown deletes a group if its Org was named and it carries the marker,
  and the marker is the template's. So it deletes a common group that another tenant made and
  uses, and that other tenant is no longer complete (`swept`), until it is applied again.
  `TakesOnlyItsOwn` allows this for groups of Primary, and only when Primary was named.
- **Names.** The teardown deletes by name. What somebody makes by hand under the name of a group that
  has gone since the plan was made goes too (`late`).
- **Orgs of users.** Apply and verify look at whether a user is there, not at their Orgs. A user who
  outlived an Org (`stripped`), or whom somebody else made, is not put back into it: their
  memberships there are refused for ever, which is the exception of `ReRunFinishes`, and
  `AppliedMeansComplete` says nothing about the Orgs of such a user. That of users made
  by hand is there for the theorem: in this instance such a user's second membership is refused,
  so that no apply reports completion with one.
- **A user of Primary alone** is in scope of every teardown, also of one that names no Org, about
  which the docstring of `build_teardown_plan` says that it "refuses everything".
  `TornDownMeansGone` has it as the code does.

`ReRunFinishes` is a liveness property. `FairSpec` is weakly fair to `Operate(t)`: a
command that has been started goes on, and an operator whose command has not said that
it is done runs it again. That is what the documents tell the operator to do ("a run that failed
halfway is simply re-run") and no more: which tenant is next, when somebody else creates
something and when the operator's mind changes is not fair, and faults are bounded by
`MaxFaults`, because no number of re-runs succeeds against a network that always fails. A stale
index of Orgs refuses a group in an Org that the same run created; the next run has it in
its index.

What the instance assumes: users of the specs are in Primary as well, which is how the shipped
templates have it; nobody adds a user to an Org that the spec does not have for them, since the
teardown would delete such a user with a membership it does not know of (`tenancy_plan.py:151` takes
the Orgs from the spec); rows of groups name their Orgs; and no user is in two groups of one
name, without which memberships are confused, as `tenancy_same_group` shows on the shipped
reference topology.

### 3.7 Deadlock

Every configuration has `CHECK_DEADLOCK FALSE`: the systems really stop. A process ends
when its call ends, and an operator who has used up the bound on commands does nothing
more.

## 4. What is proved

TLC covers the instances above. The theorems below hold for every value of the
constants that satisfies the module's assumption (`ClientAssumption`,
`MigrateAssumption`, `CascadeAssumption`, `ChangeAssumption`, `PublicationAssumption`,
`TenancyAssumption`). Each says that the parameters have their types, that references stay within
the modelled objects, and what the code itself checks of its input. No bound of a configuration is used; the
counters that the models cap (`MaxRuns`, `MaxRevocations`, `MaxKills`) are arbitrary
natural numbers there, with the one exception of `BindsToTheRestored`.

Some theorems have a hypothesis beyond that, written in their statement. Each excludes cases in
which the code does not keep the property, and is satisfied by the instance of
the run that checks it. This table lists them all:

| Hypothesis | For | What it says | Why it is needed |
|---|---|---|---|
| `LateObjects = {}` | `BackedUpInPlace` | nothing is saved during a same-Org migration | section 3.2: late content is rewritten without a backup |
| `OwnNames(Others)` | `RolledBackMeansGoneAlways`, `NoForeignGrantAlways` | content has unique names | the ledger and the grants are keyed by name |
| `Settled` | `NoStrandedCopyAlways`, `CompleteMeansMigratedAlways` | no View is read for the first time during the migration, Views have unique names, a rolled-back ledger is not resumed | section 3.2 on each |
| `Promised` | `KeepsPromiseAlways` | the first line in place, the next two to another Org | the same |
| `Layered` | `BindsToTheRestoredAlways` | nothing is built on itself | no order restores a cycle |
| `OneRestoreLater` | `BindsToTheRestoredAlways` | one whole rollback and one `restore_later` command | the run `cascade_restore_later` |
| `InOrder` | `AQuietRunSucceeds` | the ranks of the fixes follow what is built on what | section 3.4: `FIX_ORDER` goes by type |
| `Rooted` | `AQuietRollbackRestores` | nothing is built on a Set or on what uses one | Sets are in no backup, so what uses a deleted one stays refused, and with it what is built on that |
| `RollsBackFirst` | all of `Publication` but `TypeOK` | no target is planned again before it is rolled back | the run `publication_again` |
| `Separate` | the same | targets share no field | a closure exported while another target's tokens are in a shared field takes them for values |
| `Distinct` | all of `Tenancy` but `TypeOK` | no Org and no user is in two specs | the marker does not say whose a thing is |
| `OneGroupPerName` | `AppliedMeansCompleteAlways` | no user of a spec is in two groups of one name | the run `tenancy_same_group` |
| `RowsNameOrgs` | `TakesOnlyItsOwnAlways`, `AppliedMeansCompleteAlways` | the server's rows of groups name their Orgs | a group of an Org is taken for one of Primary of that name: an apply does not create the latter, and a teardown deletes it unmarked |
| `UsersAreInPrimary` | `TornDownMeansGoneAlways` | users are in Primary as well | a user whose only Org is deleted while it cannot be read is never found again |

**`ApiClient_proofs`.** `Invariance` proves `IInv == TypeOK /\ RepeatsBounded /\
CreatesOnce`, from which `TypeCorrect`, `NoDuplicate` and `DefiniteFailure` follow.
`NoDuplicateCreate` alone is not inductive: it does not say why a call that has been
executed is not sent again. `CreatesOnce` adds that a create that was executed has
ended, as a success or as ambiguous, and `RepeatsBounded` that a repeatable call was
executed at most once per counted fault, with one more for the attempt that ended
it. All steps but `Send` are `Quiet`: they leave both counters alone and never revive an
ended process, so only `Send` has to be examined case by case. `SecondRejection` is about the
files: once a process has cleared the cache after its first 401, what it holds in memory, and what it or
anybody else can find in the token file, is of the server's present generation or nothing
(`Fresh`), until the server revokes again. Processes that have not authenticated can only
remove and truncate (`StepIsLocal`), which is why the property speaks of those.

**`MigrateApply_proofs`.** `TypeCorrect`: the strengthening `Types` makes the ledger's
dictionaries maps from names to guids and says that a command that is saving or sharing
has a pending step. It is split into parts (`Parts`), so that a step shows only what it
touches. `LedgerOK` inside it is more than typing: completed steps form a prefix, and only
completed steps have recorded objects. `Survives`: no sequence of commands and kills, also
from an older version's ledger, deletes an original. `Survival` strengthens it: a ledger
whose mode is that of another Org records only guids of copies, and a rollback that is
deleting holds such a ledger. `BackedUpInPlace`: everything rewritten in place is in the backup
as it was, however often apply is killed, resumed or run afresh. The idea of its invariant `Safekeeping`: an
object that was rewritten never comes back into the scope of a later run (its own reference is
gone, and its Views were rewritten in an earlier step), so no later backup can
overwrite its file; and a ledger that lists the backup as completed vouches for
everything that is in the scope now.

**`MigrateTarget_proofs`** is about another Org. Its invariant `Intact` has one part per question.
`Scoped`: the plan holds at least what was there from the start, and nothing was rewritten in place.
`Tracked`: the ledgers, and what a step has imported but not yet saved, list copies of their own
kind of object under its name. `Withdrawing`: a rollback that has met no failure knows
all that is left to delete. `Sharing`: what is about to be granted is what the originals grant.
`Binding`: a ledger that no rollback has used lists living copies of all Views that are read, once
`rewrite_views` is complete; that is what content imported later, by whatever run, is bound to.
`Completing`: likewise of content and grants. Both speak of what no run has overlooked (`SeenViews`,
`SeenMains`, `SeenShields`): these classes only shrink (`Overlooking`), so what is established of them
stays established, and `ImportBound` shows that a reference that an import leaves in the
source Org is one to an overlooked View. The first two hold always; the others under
the hypotheses of their theorems, which `Intact` has as implications, so that `IntactAlways` has none.

`KeepsPromiseAlways` is the refinement: `MigrateApply` implements `MigrationPromise`. Initial
states map to initial states, and each action to one of the abstract module or to a
stutter: `AddObject` to `TenantAdds`, the backups (also one cut short) to `Save`, the imports to
`CopyOver` or, in place, `RewriteInPlace`, `StartApply` to `Overlook`, `ShareContent` to `ShareWith`, the deletions to `Withdraw`,
the ends of commands to `Tell`. The guards of the abstract actions are where the work is: that a
save never overwrites an original with its rewritten form is `Safekeeping`, that
success is told only when all is done is `Completing` and, in place, `Replacing`.

**`CascadeDelete_proofs`.** `RemovedIsBackedUpAlways`, `AppliedIsTrueAlways`, `NotAppliedIsFinalAlways` and
`NoTwinAlways` hold without a hypothesis, for any previews, tenants and number of rollbacks. Their
invariant `IInv` ties what the commands hand on to the server: `Originals` and
`Snapshots` (the backup's versions and times against the objects), `Phases` (what is known at each command),
`Checked` (what the last checks have established and tenants have not yet undone), `Reported`, `Restores`.
`BindsToTheRestoredAlways` adds that the cascade takes nothing before what is built on it, so that
what a skipped object is built on was skipped as well (`DependentsFirst`, `SkippedTogether`), and that a
copy reads copies, or originals of which at most a later rollback has made a copy that it knows of (`CopiesBound`, for which `ThisRun`
and `OneAtATime` say what the running rollback has still to do). The proof needs what `Grown` computes:
`GrownIs` and `GrownIsLeast` say that it contains what it starts from, is closed under growing and is
contained in every closed set. They are proved about this definition by the least
counterexample among the natural numbers.

**`DependencyChange_proofs`.** `TypeCorrect`, again by a strengthening in parts. Beyond types
`Types` says that each phase works only on entries of its own kind, that an entry is at work
only in a phase that has entries, and that the backup is complete before a run may start.

**`DependencySafety_proofs`.** Five arguments over the same types:

- `ReportedChangesAreReal` and `ReportedDeletesAreReal`: what a run lists as succeeded is in
  force unless its re-export could not be searched, and what it lists as deleted is gone unless the delete and the lookup after it both
  failed. Only a restore can make such a report false, so the invariant `Reports` adds that a
  rollback starts from empty lists.
- `SetsGoPastTheGuard` (an action property): `Processed` says that every entry of a finished phase,
  and every entry of the current one that is neither to come nor at work, has left its mark in
  the lists. With the truth of the reports, that settles which consumers a Set may still have
  when it is deleted.
- `NoObjectIsChangedTwice` and `RollbackStaysPossible`: `Tracking` ties an object to its backup
  through the plan's `modified` time. As long as the time is the plan's, nobody has saved the
  object since the scan, so its content is the backup's and the run has not changed it. A
  passed check therefore makes it `Fresh`, and it stays so until the import or the delete,
  although tenants may save it in between: section 3.4
  says what becomes of such a save. The theorems are
  about objects with a snapshot only; the code lets one without a snapshot pass its check.
- `AQuietRunSucceeds`: `Smooth` divides the objects into what is `Left`, which is as it was at the
  scan, and the rest, which is as the plan wants it. That an import is never refused
  (`NotBlocked`) is the only place where the order matters, and the only use of `InOrder`. A second
  quiet run is stopped by the drift check of the source, which the first has changed.
- `AQuietRollbackRestores`: whatever the runs before left, everything to be updated still exists and nothing that
  is gone had been changed (`Standing`); so with roots first, what an entry is built on is
  back before it, and only a missing Set can make the server refuse.

**`Publication_proofs`.** `TypeCorrect` needs no hypothesis, but an argument: `resolve` must find a free name
for every value. The invariant for the other three ties the files to the cluster: a
closure shows static values only (`ClosuresAreStatic`), a matrix creates the variables it binds,
gives each one value per Org and, if it has Primary at all, Primary what the field held (`MatricesAreSound`), a target without an open apply has left nothing behind
(`ClosedIsAtRest`), a record lists the variable of every bound field and which variables
its apply has made, and knows no wrong original (`RecordsKnow`), each field is static or bound to a variable that gives the owner its value,
but for the exceptions
(`FieldsAreKept`); and while a command runs, which calls it must have made by now (`ApplyIsAt`,
`RollbackIsAt`). The attempt showed that two cases of `ValueFor` overlapped in an
earlier version of the model; they exclude each other now, as the code's branches do.

**`Tenancy_proofs`.** `TypeCorrect` is part of `Commands`: what a running command holds are calls of its
own kind for its own spec. `TakesOnlyItsOwnAlways` and `NoUserIsStrippedAlways`, action properties, follow
from `MarkerTells` (what carries the marker was made by an apply of a tenant that names
it), `TargetsAreMade` (so was what a teardown is about to delete, or it is gone, or common), `GroupsAreInOrgs`
and `UsersAsSpecified`. For `AppliedMeansCompleteAlways` and `TornDownMeansGoneAlways` the invariant follows one
command: what the spec wants and does not exist is still to be called for or was swept (`ApplyCovers`), a user
whom an apply made is in their Orgs or has outlived one (`UsersAreInTheirOrgs`), what
is to go and still exists likewise (`TeardownCovers`), however the other tenants' commands interleave
with it; `MadeUsersInPrimary` is where a teardown finds users whose other Orgs it has deleted.

Only model-checked are the liveness properties `EveryCallEnds` and `ReRunFinishes`: fairness and
`ENABLED` are outside the provers' reach. The theorems about induction that the library has
take an operator as a parameter, which the provers here cannot instantiate; where a proof needs induction it
argues, about the definition at hand, from the least counterexample (`GrownIs`, and `Least` in
`MigrateApply_proofs`). No module declares a RECURSIVE operator.

## 5. Not modelled

The implementation has about 129,000 lines, of which the modules stand for some 2,700.
That share cannot rise to a large one by honest modelling: nine tenths of the
package are translations between document formats, rule catalogues, report writers and
numeric heuristics, without state, order, concurrency or failure to get wrong, and
faithful TLA+ for them would be a transliteration checked against itself. What has those
things and is not modelled yet is in section 6. Within the modelled parts:

- **The wording of everything**: TML documents, messages, reports. A document is the set
  of objects it refers to.
- **In the client**: profile parsing, the Org part of the cache key, the backoff's
  length.
- **In the migration**: validation of the mapping, the segmentation check and the rewrite of
  column names are steps that may fail; Views that read Views, the commands
  `audit`, `scan-sets` and `wave-aliases`.
- **In the cascade**: column deletes (their entries are in `DependencyChange`), a cluster or Org
  mismatch, the administrator and published-object checks (a refusal of any of them
  is the action `Refuse`), and the command `mutate`.
- **In the dependency change**: REPOINT, which differs from REMOVE in what is written into a
  document and how it is recognised there; `view_refs`; the contents of mutations.
- **In publishing**: manifests, patterns and `--field`, the cohort gate (it refuses before
  anything happens), `--skip-validation`, `push` and `unpush` as commands of their own.
- **In tenancy**: `export`, placeholders, passwords, privileges of groups.
- **External parts** are modelled from how the code uses them: what the server does
  with a delete whose answer was lost, that it refuses to delete a View something reads,
  and Strict Object Mode's dropping of grants.
- **Translation, scoring and reporting components** have no steps to interleave; section
  1.2 lists them.

## 6. Plan

Every safety property of a passing run is proved. What is left, in order of how much can
go wrong unnoticed:

1. **`AliasWave` and `TableCreate`**: two waves at once over one alias document; a table
   between its two passes.
2. **Weaker hypotheses**: `InOrder` asks that fixes follow what is built on what, where it
   would do that a blocked fix cannot be in the plan; the theorems of `Publication` are about
   targets that share no field, while two Models on one Table are allowed as long as only one of them is
   published at a time.
3. **The REST client under the commands**: a refinement from `ApiClient` to the one-call
   abstraction that the other modules use (executed at most once, or the command ends).
4. **Pure algorithms** against reference definitions: `remap_guids`, and the grouping of
   share calls.
