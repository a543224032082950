----------------------------- MODULE MigrateApply -----------------------------
(***************************************************************************)
(* `ts migrate apply` and `ts migrate rollback`                            *)
(* (ts_cli/commands/migrate.py, ts_cli/migrate/apply_plan.py and           *)
(* apply_exec.py): moving one tenant's Views and content onto a published  *)
(* Model in five steps, with a ledger on disk (state.json), re-runs with   *)
(* and without --resume, and the undo.  The operator runs one command at a *)
(* time; a command may end at any point with nothing further written (a    *)
(* kill, or the client's exit on a fault whose effect is unknown).         *)
(*                                                                         *)
(* An object is a View, or content that reads the Model (OnModel), Views   *)
(* (Uses) or both.  A guid is <<object, n>>: n = 0 is the source object, n *)
(* > 0 the copy the n-th import created.                                   *)
(***************************************************************************)
EXTENDS Integers, FiniteSets, Functions

CONSTANTS
    Views, Content,      \* dependents of the source Model
    LateObjects,         \* those that appear while the migration is under way
    OnModel,             \* content with a reference to the source Model itself
    Uses,                \* [Content -> SUBSET Views]
    NameOf,              \* [objects -> names]; names need not be unique
    FromEnd,             \* [objects -> Nat]: distance from the end of a listing
    Groups, GrantsOf,    \* [objects -> SUBSET Groups]: the source's group grants
    SameOrg,             \* the topology
    MayBeUnread,         \* objects whose fetch-permissions may fail
    MayBeBlank,          \* objects whose export may come back without a document
    StackMayBeBlank,     \* ... and the published Model's
    FreshReruns,         \* apply is also re-run without --resume
    ResumeUndone,        \* apply --resume is also run after a rollback
    MaxRuns              \* bound: apply and rollback commands in a behaviour

Objects == Views \cup Content
Guids == Objects \X Nat

ASSUME MigrateAssumption ==
    /\ Views \cap Content = {}
    /\ LateObjects \subseteq Objects
    /\ OnModel \subseteq Content
    /\ Uses \in [Content -> SUBSET Views]
    /\ \A c \in Content : c \in OnModel \/ Uses[c] # {}
    /\ \A c \in Content \ LateObjects : Uses[c] \cap LateObjects = {}
    /\ FromEnd \in [Objects -> Nat]
    /\ DOMAIN NameOf = Objects
    /\ GrantsOf \in [Objects -> SUBSET Groups]
    /\ MayBeBlank \subseteq Objects /\ MayBeUnread \subseteq Objects
    /\ {SameOrg, StackMayBeBlank, FreshReruns, ResumeUndone} \subseteq BOOLEAN
    /\ MaxRuns \in Nat

ContentFirst == <<"backup", "rewrite_content", "rewrite_views", "move_shielded",
                  "share_grants">>   \* mutant

StepOrder == <<"backup", "rewrite_views", "rewrite_content", "move_shielded",
               "share_grants">>
StepNames == {"backup", "rewrite_views", "rewrite_content", "move_shielded",
              "share_grants"}

VARIABLES
    exists,     \* the source objects there are
    bound,      \* what the source objects read: "source" or "target"
    backup,     \* backup/<guid>.json: "none", or what the saved object read
    copies,     \* guids of the objects imported into the target Org
    uses,       \* [copies -> SUBSET Guids]: the Views a copy reads
    modelGroups, grants,   \* grants in the target: on the stack, on copies
    disk,       \* state.json
    mem,        \* the ledger of the running command
    plan,       \* the running apply's scope
    pc,         \* where the command is
    made,       \* {name: guid} the current step created
    wanted,     \* {name: groups} share_grants re-establishes
    found,      \* guids a rollback has found to exist
    failed,     \* the command has collected failures
    unread,     \* objects whose grants a run could not re-establish (ghost)
    blank,      \* objects whose document an export of a run left out (ghost)
    imports, runs,   \* counters
    report      \* what the last command told the operator

source == <<exists, bound>>
target == <<copies, uses, modelGroups, grants, imports>>
work == <<made, wanted, found, failed, unread, blank>>
vars == <<exists, bound, backup, copies, uses, modelGroups, grants, disk, mem,
          plan, pc, made, wanted, found, failed, unread, blank, imports, runs, report>>

Empty == [n \in {} |-> {}]
NoPlan == [views |-> {}, content |-> {}, shielded |-> {}, refs |-> {}]

\* new_ledger, and no state.json at all.  `undone` is not in the file: it
\* remembers that a rollback has started on this ledger.
Ledger(m) == [present |-> TRUE, mode |-> m, completed |-> {}, views |-> Empty,
              content |-> Empty, shielded |-> Empty, rolledBack |-> FALSE,
              undone |-> FALSE]
NoLedger == [Ledger("none") EXCEPT !.present = FALSE]
Mode == IF SameOrg THEN "same" ELSE "new"

\* {name: guid} of the objects os imported as number n: for objects of one name
\* the later in the list wins.
Winner(os, o) == \A p \in os : NameOf[p] = NameOf[o] => FromEnd[o] <= FromEnd[p]
Named(os, n) ==
    [name \in {NameOf[o] : o \in os} |->
        <<CHOOSE o \in os : NameOf[o] = name /\ Winner(os, o), n>>]
Guid0(os) == Named(os, 0)

\* dict.update
Updated(d, e) ==
    [name \in DOMAIN d \cup DOMAIN e |->
        IF name \in DOMAIN e THEN e[name] ELSE d[name]]

Recorded(l) == Range(l.views) \cup Range(l.content) \cup Range(l.shielded)

\* A ledger a version before the mode was recorded left of a finished same-Org run.
OldLedger ==
    [Ledger("none") EXCEPT !.completed = StepNames, !.views = Guid0(Views),
                           !.content = Guid0(OnModel)]

Init ==
    /\ exists = Objects \ LateObjects
    /\ copies = {} /\ uses = Empty /\ modelGroups = {} /\ grants = {}
    /\ mem = NoLedger /\ plan = NoPlan /\ pc = "idle" /\ report = "none"
    /\ made = Empty /\ wanted = Empty /\ found = {} /\ failed = FALSE
    /\ unread = {} /\ blank = {}
    /\ imports = 0 /\ runs = 0
    /\ \/ /\ disk = NoLedger
          /\ bound = [o \in Objects |-> "source"]
          /\ backup = [o \in Objects |-> "none"]
       \/ /\ SameOrg /\ LateObjects = {}
          /\ disk = OldLedger
          /\ bound = [o \in Objects |->
                        IF o \in Views \cup OnModel THEN "target" ELSE "source"]
          /\ backup = [o \in Objects |-> "source"]

-----------------------------------------------------------------------------
(* Starting apply: the scope is read from the live source Org.             *)

\* dependents_through_views: the Model's own dependents, and those of its Views
ViewScope == {v \in Views \cap exists : bound[v] = "source"}
Dependents ==
    ViewScope \cup {c \in Content \cap exists :
        (c \in OnModel /\ bound[c] = "source") \/ Uses[c] \cap ViewScope # {}}

\* export_dependents: an object without a document (dark) has no references, and
\* nothing says so.  Only for content does that matter.
Dark == (Dependents \cap Content) \cap MayBeBlank

\* _classify_scope looks up the kinds of what the dependents refer to: a View that
\* no content reads is not among them, and passes for content.
ViewsRead(dark) ==
    {v \in ViewScope : \E c \in (Content \cap exists) \ dark : v \in Uses[c]}

\* classify_dependent: a reference to any Model costs a rewrite, and so does a
\* dependent without references.  refs: source_refs of the content, as far as
\* they are Views.
Classified(dark) ==
    LET views   == ViewsRead(dark)
        charged == (Dependents \cap OnModel) \cup dark
    IN  [views    |-> views,
         content  |-> charged \cup (ViewScope \ views),
         shielded |-> (Dependents \cap Content) \ charged,
         refs     |-> UNION {Uses[c] : c \in charged \ dark}]

InPlan == plan.views \cup plan.content \cup plan.shielded

\* build_apply_plan: shielded content moves only to another Org
Moving == IF SameOrg THEN {} ELSE plan.shielded

StartApply(resume) ==
    /\ pc = "idle"
    /\ runs < MaxRuns
    /\ resume \/ FreshReruns \/ ~disk.present
    /\ resume /\ disk.undone => ResumeUndone
    /\ \E dark \in SUBSET Dark : /\ plan' = Classified(dark)
                               /\ blank' = blank \cup dark
    /\ mem' = IF resume /\ disk.present THEN disk ELSE Ledger(Mode)
    /\ runs' = runs + 1
    /\ pc' = "run"
    /\ report' = "none"
    /\ UNCHANGED <<source, backup, target, disk, made, wanted, found, failed, unread>>

\* pending_steps: the first step, by name, that the ledger has not completed
Pending(i) ==
    /\ StepOrder[i] \notin mem.completed
    /\ \A j \in 1..(i - 1) : StepOrder[j] \in mem.completed
NextStep(name) == pc = "run" /\ \E i \in 1..5 : StepOrder[i] = name /\ Pending(i)
Current == StepOrder[CHOOSE i \in 1..5 : Pending(i)]

-----------------------------------------------------------------------------
(* The steps.  Each ends in "save"; apply then writes the ledger.          *)

BackupWithoutViews(os) == os \cap Content   \* mutant

BackupOfEverything(os) == exists   \* mutant

\* The backup step's objects
BackupScope(os) == os

\* run_backup writes one file per object: a kill leaves some of them.
WriteBackup(os) ==
    backup' = [o \in Objects |-> IF o \in os THEN bound[o] ELSE backup[o]]

RunBackup ==
    /\ NextStep("backup")
    /\ WriteBackup(BackupScope(InPlan))
    /\ pc' = "save"
    /\ UNCHANGED <<source, target, disk, mem, plan, work, runs, report>>

BackupCutShort ==
    /\ NextStep("backup")
    /\ \E os \in SUBSET BackupScope(InPlan) : WriteBackup(os)
    /\ pc' = "idle"
    /\ UNCHANGED <<source, target, disk, mem, plan, work, runs, report>>

\* _view_guid_remap by View name, then _repoint_fqns: a reference stays on the
\* source View if the ledger has no View of its name, or if the View is not among
\* the known: those that a listed reference names and whose export has a document.
Remap(v, known) ==
    IF v \in known /\ NameOf[v] \in DOMAIN mem.views
    THEN mem.views[NameOf[v]] ELSE <<v, 0>>

StaleViewRefs(o, known) ==   \* mutant
    IF o \in Views THEN {} ELSE {<<v, 0>> : v \in Uses[o]}

ViewRefs(o, known) ==
    IF o \in Views THEN {} ELSE {Remap(v, known) : v \in Uses[o]}

\* One ALL_OR_NONE import: of updates in place, or of new objects
Import(os, known) ==
    /\ pc' = "save"
    /\ IF os = {}
       THEN made' = Empty /\ UNCHANGED <<bound, copies, uses, imports>>
       ELSE IF SameOrg
       THEN /\ bound' = [o \in Objects |-> IF o \in os THEN "target" ELSE bound[o]]
            /\ made' = Guid0(os)
            /\ UNCHANGED <<copies, uses, imports>>
       ELSE /\ imports' = imports + 1
            /\ copies' = copies \cup {<<o, imports + 1>> : o \in os}
            /\ uses' = [g \in copies' |->
                           IF g \in copies THEN uses[g] ELSE ViewRefs(g[1], known)]
            /\ made' = Named(os, imports + 1)
            /\ UNCHANGED bound
    /\ UNCHANGED <<exists, backup, modelGroups, grants, disk, mem, plan, wanted, unread,
                   found, failed, runs, report>>

RewriteViews ==
    NextStep("rewrite_views") /\ Import(plan.views, {}) /\ UNCHANGED blank

\* Nothing compares the Views asked for with the documents that came.
RewriteContent ==
    /\ NextStep("rewrite_content")
    /\ \E missing \in SUBSET (IF SameOrg THEN {} ELSE plan.refs \cap MayBeBlank) :
          /\ Import(plan.content, plan.refs \ missing)
          /\ blank' = blank \cup missing

\* Refused (StepFails) when a View of the content was not migrated, or gave no
\* document.
MoveShielded ==
    /\ NextStep("move_shielded")
    /\ \A o \in Moving : \A v \in Uses[o] : NameOf[v] \in DOMAIN mem.views
    /\ Import(Moving, Views)
    /\ UNCHANGED blank

\* Objects of a step: none means that it cannot fail.
StepObjects(name) ==
    CASE name = "backup"          -> InPlan
      [] name = "rewrite_views"   -> plan.views
      [] name = "rewrite_content" -> plan.content
      [] OTHER                    -> Moving

\* StepFailed: an incomplete export, an unseparated target, a residual
\* reference, a refused import.  Nothing is imported; the ledger is written.
StepFails ==
    /\ \E name \in StepNames \ {"share_grants"} :
          NextStep(name) /\ StepObjects(name) # {}
    /\ disk' = mem
    /\ pc' = "idle"
    /\ report' = "failed"
    /\ UNCHANGED <<source, backup, target, mem, plan, work, runs>>

-----------------------------------------------------------------------------
(* run_share_grants: the stack, then the content.                          *)

Shared == IF SameOrg THEN {} ELSE plan.content \cup plan.shielded

\* source_group_grants: {name: groups}; an object whose permissions cannot be
\* read is left out, and so is one without groups.  `content` is listed before
\* `moving`, so a shielded object of the same name wins.
LaterInList(o, p) ==
    \/ p \in plan.content /\ o \in plan.shielded
    \/ (p \in plan.content <=> o \in plan.content) /\ FromEnd[o] <= FromEnd[p]

Wanted(faults) ==
    LET granted == {o \in Shared \ faults : GrantsOf[o] # {}}
    IN  [name \in {NameOf[o] : o \in granted} |->
            GrantsOf[CHOOSE o \in granted :
                /\ NameOf[o] = name
                /\ \A p \in granted : NameOf[p] = name => LaterInList(o, p)]]

\* A grant lands only if the group has been granted everything below
\* (Strict Object Mode); otherwise it is accepted and dropped.
Lands(g, grp, below) ==
    grp \in modelGroups' /\ \A v \in uses[g] : <<v, grp>> \in below

StackWithoutViews(want, lost, listed) ==   \* mutant
    LET all == UNION Range(want)
    IN  /\ modelGroups' = modelGroups \cup (IF listed THEN all \ lost ELSE {})
        /\ UNCHANGED grants

\* Tables and Model as far as target_stack lists them (nothing, if the Model's
\* export has no document), and recorded Views, for the union of the groups; a
\* share call that is refused (no such group in the target Org) is collected.
GrantStack(want, lost, listed) ==
    LET all == UNION Range(want)
    IN  /\ modelGroups' = modelGroups \cup (IF listed THEN all \ lost ELSE {})
        /\ grants' = grants \cup
              {x \in Range(mem.views) \X ((all \ lost) \cap modelGroups') : x[1] \in copies}

\* What a group not granted the Model can see nothing of.
Unreached(listed) == IF listed THEN {} ELSE {o \in Shared : ~(GrantsOf[o] \subseteq modelGroups)}

UnionToContent(want, lost) ==   \* mutant: every object gets every group
    LET created == Updated(mem.content, mem.shielded)
        all == UNION Range(want)
    IN  grants' = grants \cup
          UNION {{<<created[n], grp>> : grp \in {h \in all \ lost :
                    created[n] \in copies /\ Lands(created[n], h, grants)}}
                 : n \in DOMAIN created}

\* Each created object gets the groups `wanted` holds under its name.
GrantContent(want, lost) ==
    LET created == Updated(mem.content, mem.shielded)
    IN  grants' = grants \cup
          UNION {{<<created[n], grp>> : grp \in {h \in want[n] \ lost :
                    created[n] \in copies /\ Lands(created[n], h, grants)}}
                 : n \in DOMAIN created \cap DOMAIN want}

ShareStack ==
    /\ NextStep("share_grants")
    /\ \E faults \in SUBSET (Shared \cap MayBeUnread),
          lost \in SUBSET Groups, listed \in (IF StackMayBeBlank THEN BOOLEAN ELSE {TRUE}) :
          LET want == Wanted(faults)
          IN  /\ lost \subseteq UNION Range(want)
              /\ unread' = unread \cup faults \cup Unreached(listed)
              /\ wanted' = want
              /\ GrantStack(want, lost, listed)
              /\ failed' = (lost # {})
    /\ pc' = "share"
    /\ UNCHANGED <<source, backup, copies, uses, imports, disk, mem, plan, made,
                   found, blank, runs, report>>

ShareContent ==
    /\ pc = "share"
    /\ \E lost \in SUBSET Groups :
          /\ lost \subseteq UNION Range(wanted)
          /\ UNCHANGED modelGroups
          /\ GrantContent(wanted, lost)
          /\ \/ /\ failed \/ lost # {}
                /\ disk' = mem
                /\ pc' = "idle"
                /\ report' = "failed"
             \/ /\ ~failed /\ lost = {}
                /\ pc' = "save"
                /\ UNCHANGED <<disk, report>>
    /\ wanted' = Empty
    /\ failed' = FALSE
    /\ UNCHANGED <<source, backup, copies, uses, imports, mem, plan, made, found, unread, blank, runs>>

-----------------------------------------------------------------------------
(* apply, after a step: record_completed, state.json, the next step.       *)

OnlyTheLast(l, name) == [l EXCEPT !.completed = {name}]   \* mutant

Completed(l, name) ==
    LET done == [l EXCEPT !.completed = @ \cup {name}]
    IN  CASE name = "rewrite_views"   -> [done EXCEPT !.views = Updated(@, made)]
          [] name = "rewrite_content" -> [done EXCEPT !.content = Updated(@, made)]
          [] name = "move_shielded"   -> [done EXCEPT !.shielded = Updated(@, made)]
          [] OTHER                    -> done

SaveStep ==
    /\ pc = "save"
    /\ mem' = Completed(mem, Current)
    /\ disk' = mem'
    /\ made' = Empty
    /\ pc' = "run"
    /\ UNCHANGED <<source, backup, target, plan, wanted, found, failed, unread, blank, runs, report>>

MigrationComplete ==
    /\ pc = "run"
    /\ mem.completed = StepNames
    /\ pc' = "idle"
    /\ report' = "migrated"
    /\ UNCHANGED <<source, backup, target, disk, mem, plan, work, runs>>

-----------------------------------------------------------------------------
(* rollback_migration                                                      *)

NeverRefused(l) == FALSE   \* mutant

\* rollback_refusal: an old ledger is judged by its Orgs
Refused(l) == IF l.mode = "none" THEN SameOrg ELSE l.mode = "same"

\* rollback_sets merges the content of two steps by name: of two copies with one
\* name only the shielded one is deleted.
RollbackSet(l) == Range(l.views) \cup Range(Updated(l.content, l.shielded))

Existing == copies \cup {<<o, 0>> : o \in exists}
IsView(g) == g[1] \in Views

ProbeErrorsIgnored(unknown) == UNCHANGED failed   \* mutant: finding 17.4

\* _types_by_guid: a failed existence probe is a failure of the rollback
ProbeErrors(unknown) == failed' = (unknown # {})

StartRollback ==
    /\ pc = "idle"
    /\ runs < MaxRuns
    /\ disk.present
    /\ ~Refused(disk)
    /\ RollbackSet(disk) # {}
    /\ \E unknown \in SUBSET {TRUE, FALSE} :    \* the kinds whose probe fails
          /\ ProbeErrors(unknown)
          /\ found' = {g \in RollbackSet(disk) \cap Existing : IsView(g) \notin unknown}
    /\ disk' = [disk EXCEPT !.undone = TRUE]
    /\ mem' = disk'
    /\ runs' = runs + 1
    /\ pc' = "delete_content"
    /\ report' = "none"
    /\ UNCHANGED <<source, backup, target, plan, made, wanted, unread, blank>>

\* metadata/delete of one batch; the server refuses to delete a View that
\* something still reads, and may fail.
Delete(gs) ==
    \/ /\ \A c \in copies \ gs : uses[c] \cap gs = {}
       /\ copies' = copies \ gs
       /\ exists' = exists \ {g[1] : g \in {h \in gs : h[2] = 0}}
       /\ uses' = [g \in copies' |-> uses[g]]
       /\ grants' = {x \in grants : x[1] \notin gs}
       /\ UNCHANGED failed
    \/ /\ gs # {}
       /\ failed' = TRUE
       /\ UNCHANGED <<copies, exists, uses, grants>>

DeleteContent ==
    /\ pc = "delete_content"
    /\ Delete(found \cap Range(Updated(mem.content, mem.shielded)))
    /\ pc' = "delete_views"
    /\ UNCHANGED <<bound, backup, modelGroups, imports, disk, mem, plan, made, wanted, unread, blank,
                   found, runs, report>>

DeleteViews ==
    /\ pc = "delete_views"
    /\ Delete(found \cap Range(mem.views))
    /\ pc' = "deleted"
    /\ UNCHANGED <<bound, backup, modelGroups, imports, disk, mem, plan, made, wanted, unread, blank,
                   found, runs, report>>

FinishRollback ==
    /\ pc = "deleted"
    /\ IF failed
       THEN report' = "incomplete" /\ UNCHANGED disk
       ELSE report' = "rolled_back" /\ disk' = [mem EXCEPT !.rolledBack = TRUE]
    /\ pc' = "idle"
    /\ failed' = FALSE
    /\ found' = {}
    /\ UNCHANGED <<source, backup, target, mem, plan, made, wanted, unread, blank, runs>>

-----------------------------------------------------------------------------

\* The command ends here: it is killed, or the client exits.
Crash ==
    /\ pc # "idle"
    /\ pc' = "idle"
    /\ failed' = FALSE /\ made' = Empty /\ wanted' = Empty /\ found' = {}
    /\ UNCHANGED <<source, backup, target, disk, mem, plan, unread, blank, runs, report>>

\* The tenant saves a new View or new content in the source Org.
AddObject ==
    /\ \E o \in LateObjects \ exists : /\ o \in Content => Uses[o] \subseteq exists
                                       /\ exists' = exists \cup {o}
    /\ UNCHANGED <<bound, backup, target, disk, mem, plan, pc, work, runs, report>>

Next ==
    \/ \E resume \in BOOLEAN : StartApply(resume)
    \/ RunBackup \/ BackupCutShort \/ RewriteViews \/ RewriteContent
    \/ MoveShielded \/ StepFails \/ ShareStack \/ ShareContent
    \/ SaveStep \/ MigrationComplete
    \/ StartRollback \/ DeleteContent \/ DeleteViews \/ FinishRollback
    \/ Crash \/ AddObject

Spec == Init /\ [][Next]_vars

-----------------------------------------------------------------------------
(* Properties                                                              *)

\* Steps complete in their order; only completed steps have created anything.
LedgerOK(l) ==
    /\ l.mode \in {"same", "new", "none"}
    /\ l.completed \subseteq StepNames
    /\ \A i \in 1..5 : \A j \in 1..i :
          StepOrder[i] \in l.completed => StepOrder[j] \in l.completed
    /\ "rewrite_views" \notin l.completed => l.views = Empty
    /\ "rewrite_content" \notin l.completed => l.content = Empty
    /\ "move_shielded" \notin l.completed => l.shielded = Empty
    /\ Recorded(l) \subseteq Guids

TypeOK ==
    /\ exists \subseteq Objects
    /\ bound \in [Objects -> {"source", "target"}]
    /\ backup \in [Objects -> {"none", "source", "target"}]
    /\ copies \subseteq Guids
    /\ uses \in [copies -> SUBSET Guids]
    /\ modelGroups \subseteq Groups
    /\ grants \subseteq Guids \X Groups
    /\ LedgerOK(disk) /\ LedgerOK(mem)
    /\ Range(made) \subseteq Guids
    /\ plan.views \subseteq Views
    /\ plan.content \subseteq Objects /\ plan.refs \subseteq Views
    /\ plan.shielded \subseteq (Content \ OnModel) \ plan.content
    /\ pc \in {"idle", "run", "save", "share", "delete_content", "delete_views", "deleted"}
    /\ report \in {"none", "failed", "migrated", "incomplete", "rolled_back"}
    /\ found \subseteq Guids
    /\ failed \in BOOLEAN /\ unread \subseteq Objects /\ blank \subseteq Objects
    /\ imports \in Nat /\ runs \in 0..MaxRuns

\* In a same-Org run the backup is the only rollback (run_backup): whatever has
\* been rewritten in place can be restored from its backup file to what it was
\* before the first rewrite, across kills, resumed and repeated runs.  Content that
\* one discovery could not read is excepted: a View left out because of it stays, and
\* a later run backs that content up once more, as rewritten.
OriginalsAreBackedUp ==
    SameOrg => \A o \in exists \ blank : bound[o] = "target" => backup[o] = "source"

\* No object of the tenant is ever deleted: a rollback deletes what an apply
\* created, never what it updated in place.  (rollback_refusal)
OriginalsSurvive == Objects \ LateObjects \subseteq exists

\* What the runs have overlooked: a View whose export gave no document, or a View
\* of content whose export gave none.
Overlooked == blank \cup UNION {Uses[c] : c \in blank \cap Content}

\* The copy o's number n reads a copy of each View of o, and those exist; only an
\* overlooked View may be read in the source Org.
ReadsItsViews(o, n) ==
    /\ {g[1] : g \in uses[<<o, n>>]} = Uses[o]
    /\ \A g \in uses[<<o, n>>] : g \in copies \/ (g[2] = 0 /\ g[1] \in Overlooked)

\* No copy in the target Org is bound to a View that is not there, or to the
\* copy of another View: not by the move of shielded content after a resume,
\* nor by a rollback that fails half-way.  The one exception is a View that an
\* export left out.  (_view_guid_remap, _delete_in_order)
NoStrandedCopy == \A g \in copies : IsView(g) \/ ReadsItsViews(g[1], g[2])

\* When apply reports the migration complete, every object in its scope that was
\* there from the start has a copy in the target Org, bound to copies of its own
\* Views, that the groups of the source object can see.  What an export or a
\* permissions read left out costs the objects it was for, and no other: content on
\* Views alone and the Views may be missing if overlooked, grants if the source's
\* could not be read, the Model's Tables not be listed, or a View was overlooked.
CompleteMeansMigrated ==
    report = "migrated" /\ ~SameOrg =>
        \A o \in InPlan \ (LateObjects \cup (Overlooked \ OnModel)) : \E n \in 1..imports :
            /\ <<o, n>> \in copies
            /\ o \in Content =>
                  /\ ReadsItsViews(o, n)
                  /\ o \notin unread /\ Uses[o] \cap Overlooked = {} =>
                        \A grp \in GrantsOf[o] : <<<<o, n>>, grp>> \in grants

\* "An Answer shared only with Finance must not become visible to HR"
\* (run_share_grants): a copy is granted to no group its source object is not.
NoForeignGrant ==
    \A x \in grants : ~IsView(x[1]) => x[2] \in GrantsOf[x[1][1]]

\* A rollback that reports success has left nothing of what the ledger records,
\* whatever probe or delete failed (finding 17.4), except for content that a
\* discovery could not read: filed in one run as the Model's and in a resumed one as
\* shielded, it has been created twice, and rollback_sets forgets the first.
RolledBackMeansGone ==
    report = "rolled_back" =>
        \A g \in Recorded(disk) \cap Existing : g[1] \in blank \cap Content

Promise == INSTANCE MigrationPromise WITH
    originals <- exists,
    saved     <- {o \in Objects : backup[o] = "source"},
    rewritten <- {o \in Objects : bound[o] = "target"},
    overlooked <- Overlooked,
    reads     <- uses,
    grants    <- {x \in grants : ~IsView(x[1])},
    told      <- report

\* The five steps with their ledger, resumes, fresh re-runs, rollbacks and kills do
\* nothing but what MigrationPromise allows, step for step: a backup never replaces
\* a saved original, each import is one whole batch whose Views are there already, a
\* rollback takes nothing from under a copy that stays, and neither command claims
\* success of work that is not done.
KeepsPromise == Promise!Spec

\* docs/superpowers/specs/2026-07-15-ts-org-migrate-design.md:425-428: a re-run
\* with --resume avoids creating an object a second time.
NoSecondCopy ==
    \A g, h \in copies : g[1] = h[1] => g = h
=============================================================================
