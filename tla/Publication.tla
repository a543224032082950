------------------------------ MODULE Publication ------------------------------
(***************************************************************************)
(* `ts publish export | resolve | apply | rollback | run`                  *)
(* (ts_cli/commands/publish_planning.py, publish_plan.py,                  *)
(* publish_apply.py): objects of the Primary Org are published to target   *)
(* Orgs without a copy.  The fields of their tables (database, schema) are *)
(* replaced by variables, one per distinct value, and every Org gets its   *)
(* own value.  The steps are files handed from command to command; any     *)
(* command may stop after any call, and the way back is the rollback       *)
(* record that apply writes before its first call.                         *)
(*                                                                         *)
(* A field holds a static value or the token of a variable; a token is     *)
(* written as the variable's name, and names are numbers, in the order in  *)
(* which suggest_variable_name tries them.                                 *)
(***************************************************************************)
EXTENDS Integers, FiniteSets

CONSTANTS
    Targets,        \* selections that are published together
    Fields,         \* fields of tables that can be parameterized
    FieldsOf,       \* [Targets -> SUBSET Fields]: the selected fields of its tables
    Static,         \* [Fields -> Values]: what the fields hold before any run
    Values,
    Unreadable,     \* fields of Tables whose export may fail
    Unfound,        \* targets that metadata/search may not find
    None,           \* no value; no file
    Owner, Orgs,    \* the Primary Org; the target Orgs
    Given,          \* [Orgs -> Values \cup {None}]: the rows of --source file, db, pattern
    Sources,        \* the --source the operator uses
    RollsBackFirst, \* the operator rolls an apply back before planning its target again
    MaxNames,       \* bound: variable names
    OthersNames,    \* names that somebody may give to a variable by hand, once
    MaxApplies, MaxRollbacks   \* bounds: runs of the commands

Names == 1..MaxNames
Everyone == Orgs \cup {Owner}

\* What the files hold: export.json, matrix.json and the record of --rollback-out.
PartialFields(V) == UNION {[S -> V] : S \in SUBSET Fields}
Closures == [fields : PartialFields(Values \cup Names), taken : SUBSET Names,
             owner : BOOLEAN]   \* metadata/search named the owning Org
Matrices == [create : SUBSET Names, bind : SUBSET (Fields \X Names),
             assign : SUBSET (Names \X Everyone \X (Values \cup Names)),
             complete : BOOLEAN]
Records == [created : SUBSET Names, to : SUBSET Orgs,
            fields : PartialFields(Values \cup {None})]

ASSUME PublicationAssumption ==
    /\ IsFiniteSet(Fields)
    /\ FieldsOf \in [Targets -> SUBSET Fields]
    /\ Static \in [Fields -> Values]
    /\ Unreadable \subseteq Fields /\ Unfound \subseteq Targets
    /\ Values \cap Names = {} /\ None \notin Values \cup Names \cup Targets
    /\ None \notin Closures /\ None \notin Matrices /\ None \notin Records
    /\ Owner \notin Orgs /\ Given \in [Orgs -> Values \cup {None}]
    /\ Sources \subseteq {"uniform", "given", "existing"}
    /\ RollsBackFirst \in BOOLEAN
    /\ OthersNames \subseteq Names
    /\ MaxNames \in Nat /\ MaxApplies \in Nat /\ MaxRollbacks \in Nat

VARIABLES
    variables,   \* names of the variables that exist
    value,       \* [Names -> [Everyone -> Values \cup Names \cup {None}]]
    raw,         \* [Fields -> Values \cup Names]: what the table says
    published,   \* SUBSET (Targets \X Orgs)
    closure,     \* export.json, per target
    matrix,      \* matrix.json, per target
    record,      \* the file of --rollback-out, per target
    phase,       \* where the running command is
    target,      \* the target it works on
    todo,        \* calls it has still to make
    failed,      \* rollback: an unpublish did not work
    maker,       \* [Names -> Targets \cup {None}]: whose apply created it (ghost)
    open,        \* targets whose last apply has not been rolled back (ghost)
    exposed,     \* targets whose rollback went on after a failed unpublish (ghost)
    ownerless,   \* open targets that an apply gave no value in the Owner (ghost)
    reused,      \* names that fields used when another apply passed them over (ghost)
    applies, rollbacks

server == <<variables, value, raw, published>>
files == <<closure, matrix, record>>
command == <<phase, target, todo, failed>>
ghosts == <<maker, open, exposed, ownerless, reused>>
counters == <<applies, rollbacks>>
vars == <<variables, value, raw, published, closure, matrix, record, phase, target,
          todo, failed, maker, open, exposed, ownerless, reused, applies, rollbacks>>

NoCalls == [create |-> {}, assign |-> {}, bind |-> {}, to |-> {}]

Init ==
    /\ variables = {}
    /\ value = [n \in Names |-> [o \in Everyone |-> None]]
    /\ raw = Static
    /\ published = {}
    /\ closure = [t \in Targets |-> None]
    /\ matrix = [t \in Targets |-> None]
    /\ record = [t \in Targets |-> None]
    /\ phase = "idle" /\ target = None /\ todo = NoCalls /\ failed = FALSE
    /\ maker = [n \in Names |-> None] /\ open = {} /\ exposed = {}
    /\ ownerless = {} /\ reused = {}
    /\ applies = 0 /\ rollbacks = 0

-----------------------------------------------------------------------------
(* Planning.                                                               *)

MayPlan(t) == phase = "idle" /\ (RollsBackFirst => t \notin open)

\* export: what the fields hold, the names that are taken, and whether metadata/search
\* returned a row with the owning Org.  A Table whose export is an ERROR, or that does
\* not parse, is passed over: only the fields S are read.
Export(t, S, owner) ==
    /\ MayPlan(t)
    /\ FieldsOf[t] \ S \subseteq Unreadable
    /\ owner \/ t \in Unfound
    /\ closure' = [closure EXCEPT ![t] = [fields |-> [f \in S |-> raw[f]],
                                          taken |-> variables, owner |-> owner]]
    /\ UNCHANGED <<server, matrix, record, command, ghosts, counters>>

\* build_clusters: one cluster, and one variable, per distinct value
Clusters(c) == {c.fields[f] : f \in DOMAIN c.fields}
Unwired(c) == Clusters(c) \ Names

\* suggest_variable_name: each cluster the first name that is not taken yet
Suggested(c) ==
    CHOOSE s \in [Unwired(c) -> Names \ c.taken] :
        /\ \A x, y \in Unwired(c) : s[x] = s[y] => x = y
        /\ \A x \in Unwired(c), n \in Names \ c.taken :
              n < s[x] => \E y \in Unwired(c) : s[y] = n

\* _variable_name: the variable a field is bound to already, or the suggestion
VariableOf(c, x) == IF x \in Names THEN x ELSE Suggested(c)[x]

\* _value_for; the Owner always gets "uniform"
ValueFor(c, x, org, source) ==
    CASE source = "uniform" \/ org = Owner -> x
      [] source = "given" /\ org # Owner -> Given[org]
      [] source = "existing" /\ org # Owner ->
            IF VariableOf(c, x) \in variables THEN value[VariableOf(c, x)][org] ELSE None

\* The owning Org is included, if export has found it.
WithOwner(c, orgs) == IF c.owner THEN orgs \cup {Owner} ELSE orgs

\* build_value_matrix and coverage_report
Matrix(c, orgs, source) ==
    LET values == [p \in Clusters(c) \X WithOwner(c, orgs) |-> ValueFor(c, p[1], p[2], source)]
        valued == {p \in DOMAIN values : values[p] # None}
    IN  [create |-> {VariableOf(c, x) : x \in Unwired(c)},
         bind |-> {<<f, VariableOf(c, c.fields[f])>> : f \in DOMAIN c.fields},
         assign |-> {<<VariableOf(c, p[1]), p[2], values[p]>> : p \in valued},
         complete |-> valued = DOMAIN values]

Resolve(t, orgs, source) ==
    /\ MayPlan(t)
    /\ closure[t] # None
    /\ Clusters(closure[t]) # {}   \* "No parameterizable fields selected"
    /\ Cardinality(Names \ closure[t].taken) >= Cardinality(Unwired(closure[t]))
    /\ matrix' = [matrix EXCEPT ![t] = Matrix(closure[t], orgs, source)]
    /\ UNCHANGED <<server, closure, record, command, ghosts, counters>>

-----------------------------------------------------------------------------
(* apply: build_apply_plan, the rollback record, then the calls.           *)

\* _variable_steps: a field already bound is skipped in both directions.  One that the
\* matrix has from an earlier export, and this closure has not, is bound without an
\* original value.
Original(c, f) == IF f \in DOMAIN c.fields THEN c.fields[f] ELSE None
ToBind(c, m) == {b \in m.bind : Original(c, b[1]) \notin Names}
Originals(c, m) == [f \in {b[1] : b \in ToBind(c, m)} |-> Original(c, f)]

RecordTokens(c, m, to) ==        \* mutant: what apply writes, not what it replaces
    [created |-> m.create, to |-> to, fields |-> [f \in DOMAIN Originals(c, m) |-> 1]]
RecordNoOrgs(c, m, to) ==        \* mutant
    [created |-> m.create, to |-> {}, fields |-> Originals(c, m)]
RecordNoVariables(c, m, to) ==   \* mutant
    [created |-> {}, to |-> to, fields |-> Originals(c, m)]

\* build_apply_plan's "rollback"
RecordOf(c, m, to) ==
    [created |-> m.create, to |-> to, fields |-> Originals(c, m)]

\* An incomplete matrix is refused before anything is changed; then the record is
\* written, over the one of an earlier run.
StartApply(t, to) ==
    LET c == closure[t]
        m == matrix[t]
    IN  /\ MayPlan(t)
        /\ m # None /\ m.complete
        /\ applies < MaxApplies
        /\ applies' = applies + 1
        /\ record' = [record EXCEPT ![t] = RecordOf(c, m, to)]
        /\ todo' = [create |-> m.create, assign |-> m.assign, to |-> to,
                    bind |-> ToBind(c, m)]
        /\ phase' = "create" /\ target' = t
        /\ open' = open \cup {t}
        /\ exposed' = exposed \ {t}
        /\ ownerless' = IF \E a \in m.assign : a[2] = Owner THEN ownerless
                        ELSE ownerless \cup {t}
        /\ UNCHANGED <<server, closure, matrix, failed, maker, reused, rollbacks>>

BindFirst(p) ==   \* mutant
    CASE p = "create" -> "bind" [] p = "bind" -> "assign" [] p = "assign" -> "publish"

\* _run_apply, _publish_all: "Order is load-bearing".
NextPhase(p) ==
    CASE p = "create" -> "assign" [] p = "assign" -> "bind" [] p = "bind" -> "publish"

CallsOf(p) ==
    CASE p = "create" -> todo.create [] p = "assign" -> todo.assign [] p = "bind" -> todo.bind

PhaseOver ==
    /\ phase \in {"create", "assign", "bind"}
    /\ CallsOf(phase) = {}
    /\ phase' = NextPhase(phase)
    /\ UNCHANGED <<server, files, target, todo, failed, ghosts, counters>>

\* The command ends: it is done, killed, or the client has exited on an error.
Stop ==
    /\ phase' = "idle" /\ target' = None /\ todo' = NoCalls /\ failed' = FALSE

\* A refused call, or one whose answer is lost, ends the command, after the effect
\* or before it.
Ends(effect) ==
    /\ effect \/ UNCHANGED <<server, maker, reused>>
    /\ Stop

Continues(effect, rest) ==
    /\ effect
    /\ todo' = rest
    /\ UNCHANGED <<phase, target, failed>>

Created(n) ==
    /\ n \notin variables
    /\ variables' = variables \cup {n}
    /\ maker' = [maker EXCEPT ![n] = target]
    /\ UNCHANGED <<value, raw, published, reused>>

\* "variable ... already exists, reusing", whoever made it and whatever it is for
Reused(n) ==
    /\ n \in variables
    /\ reused' = IF \E f \in Fields : raw[f] = n THEN reused \cup {n} ELSE reused
    /\ UNCHANGED <<server, maker>>

\* A name that is taken is reused if the server says that it "already exists"; any
\* other answer, such as HTTP 409 "Duplicate template variable name", ends the command.
CreateVariable(n) ==
    /\ phase = "create" /\ n \in todo.create
    /\ \/ Continues(Created(n) \/ Reused(n), [todo EXCEPT !.create = @ \ {n}])
       \/ Ends(Created(n))
    /\ UNCHANGED <<files, open, exposed, ownerless, counters>>

Assigned(a) ==
    /\ a[1] \in variables
    /\ value' = [value EXCEPT ![a[1]][a[2]] = a[3]]
    /\ UNCHANGED <<variables, raw, published, maker, reused>>

AssignValue(a) ==
    /\ phase = "assign" /\ a \in todo.assign
    /\ \/ Continues(Assigned(a), [todo EXCEPT !.assign = @ \ {a}])
       \/ Ends(Assigned(a))
    /\ UNCHANGED <<files, open, exposed, ownerless, counters>>

Bound(b) ==
    /\ b[2] \in variables
    /\ raw' = [raw EXCEPT ![b[1]] = b[2]]
    /\ UNCHANGED <<variables, value, published, maker, reused>>

Parameterize(b) ==
    /\ phase = "bind" /\ b \in todo.bind
    /\ \/ Continues(Bound(b), [todo EXCEPT !.bind = @ \ {b}])
       \/ Ends(Bound(b))
    /\ UNCHANGED <<files, open, exposed, ownerless, counters>>

\* A field reads in an Org what its variable holds there.
Effective(f, o) ==
    IF raw[f] \notin Names THEN raw[f]
    ELSE IF raw[f] \in variables THEN value[raw[f]][o] ELSE None

\* The server refuses an object with a variable that has no value in the Org, and one
\* with "No template variable node ... in the dependency tree".  One field that is bound
\* is enough: it does not ask whether the others are.
Granted ==
    /\ \E f \in FieldsOf[target] : raw[f] \in Names
    /\ \A f \in FieldsOf[target], o \in todo.to : Effective(f, o) # None
    /\ published' = published \cup ({target} \X todo.to)
    /\ UNCHANGED <<variables, value, raw, maker, reused>>

PublishAll ==
    /\ phase = "publish"
    /\ \/ Ends(Granted)
       \/ todo.to = {} /\ UNCHANGED <<server, maker, reused>> /\ Stop
    /\ UNCHANGED <<files, open, exposed, ownerless, counters>>

-----------------------------------------------------------------------------
(* rollback: rollback_steps, in order.                                     *)

\* A field without a recorded original is skipped and reported.
Known(r) == {f \in DOMAIN r.fields : r.fields[f] # None}

StartRollback(t) ==
    /\ phase = "idle"
    /\ record[t] # None
    /\ rollbacks < MaxRollbacks
    /\ rollbacks' = rollbacks + 1
    /\ phase' = "unpublish" /\ target' = t
    /\ todo' = [create |-> record[t].created, assign |-> {}, to |-> record[t].to,
                bind |-> {<<f, record[t].fields[f]>> : f \in Known(record[t])}]
    /\ UNCHANGED <<server, files, failed, ghosts, applies>>

Retracted ==
    /\ published' = published \ ({target} \X todo.to)
    /\ UNCHANGED <<variables, value, raw, maker, reused>>

\* _rollback_unpublish: "not published to any orgs" and, after a retry without
\* dependencies, "dependents present" are successes; anything else is remembered,
\* and the rollback goes on.
Unpublish ==
    /\ phase = "unpublish"
    /\ \/ /\ Retracted
          /\ phase' = "unbind"
          /\ UNCHANGED <<target, todo, failed, exposed>>
       \/ /\ todo.to # {}
          /\ phase' = "unbind"
          /\ failed' = TRUE
          /\ exposed' = exposed \cup {target}
          /\ UNCHANGED <<server, maker, reused, target, todo>>
       \/ Ends(Retracted) /\ UNCHANGED exposed
    /\ UNCHANGED <<files, open, ownerless, counters>>

Unbound(b) ==
    /\ raw' = [raw EXCEPT ![b[1]] = b[2]]
    /\ UNCHANGED <<variables, value, published, maker, reused>>

Unparameterize(b) ==
    /\ phase = "unbind" /\ b \in todo.bind
    /\ \/ Continues(Unbound(b), [todo EXCEPT !.bind = @ \ {b}])
       \/ Ends(Unbound(b))
    /\ UNCHANGED <<files, open, exposed, ownerless, counters>>

\* A bound variable cannot be deleted, in one call with the others.
Deleted ==
    /\ \A n \in todo.create, f \in Fields : raw[f] # n
    /\ reused' = reused \ todo.create
    /\ variables' = variables \ todo.create
    /\ value' = [n \in Names |-> IF n \in todo.create THEN [o \in Everyone |-> None]
                                 ELSE value[n]]
    /\ maker' = [n \in Names |-> IF n \in todo.create THEN None ELSE maker[n]]
    /\ UNCHANGED <<raw, published>>

DeleteVariables ==
    /\ phase = "unbind" /\ todo.bind = {}
    /\ \/ /\ Deleted
          /\ phase' = "undone"
          /\ UNCHANGED <<target, todo, failed>>
       \/ Ends(Deleted)
    /\ UNCHANGED <<files, open, exposed, ownerless, counters>>

\* "rollback complete", or INCOMPLETE and exit 1
FinishRollback ==
    /\ phase = "undone"
    /\ open' = IF failed THEN open ELSE open \ {target}
    /\ ownerless' = ownerless \cap open'
    /\ Stop
    /\ UNCHANGED <<server, files, maker, exposed, reused, counters>>

-----------------------------------------------------------------------------

\* Somebody else creates a variable by hand.
OthersCreate(n) ==
    /\ n \notin variables
    /\ maker[n] = None
    /\ variables' = variables \cup {n}
    /\ UNCHANGED <<value, raw, published, files, command, ghosts, counters>>

Next ==
    \/ \E t \in Targets :
          \/ StartRollback(t)
          \/ \E S \in SUBSET FieldsOf[t], owner \in BOOLEAN : Export(t, S, owner)
          \/ \E orgs \in SUBSET Orgs \ {{}}, source \in Sources : Resolve(t, orgs, source)
          \/ \E to \in SUBSET Orgs : StartApply(t, to)
    \/ PhaseOver
    \/ \E n \in todo.create : CreateVariable(n)
    \/ \E a \in todo.assign : AssignValue(a)
    \/ \E b \in todo.bind : Parameterize(b) \/ Unparameterize(b)
    \/ PublishAll \/ Unpublish \/ DeleteVariables \/ FinishRollback
    \/ \E n \in OthersNames : OthersCreate(n)

Spec == Init /\ [][Next]_vars

-----------------------------------------------------------------------------
(* Properties                                                              *)

TypeOK ==
    /\ variables \subseteq Names
    /\ value \in [Names -> [Everyone -> Values \cup Names \cup {None}]]
    /\ raw \in [Fields -> Values \cup Names]
    /\ published \subseteq Targets \X Orgs
    /\ closure \in [Targets -> Closures \cup {None}]
    /\ matrix \in [Targets -> Matrices \cup {None}]
    /\ record \in [Targets -> Records \cup {None}]
    /\ \A t \in Targets :
          /\ closure[t] # None => DOMAIN closure[t].fields \subseteq FieldsOf[t]
          /\ matrix[t] # None => /\ closure[t] # None
                                 /\ \A b \in matrix[t].bind : b[1] \in FieldsOf[t]
          /\ record[t] # None => DOMAIN record[t].fields \subseteq FieldsOf[t]
    /\ phase \in {"idle", "create", "assign", "bind", "publish", "unpublish", "unbind",
                  "undone"}
    /\ IF phase = "idle" THEN target = None /\ todo = NoCalls /\ ~failed
                         ELSE target \in Targets /\ record[target] # None
    /\ todo \in [create : SUBSET Names, to : SUBSET Orgs,
                 assign : SUBSET (Names \X Everyone \X (Values \cup Names)),
                 bind : SUBSET (Fields \X (Values \cup Names))]
    /\ maker \in [Names -> Targets \cup {None}]
    /\ open \subseteq Targets /\ exposed \subseteq Targets
    /\ ownerless \subseteq open /\ reused \subseteq Names
    /\ applies \in 0..MaxApplies /\ rollbacks \in 0..MaxRollbacks

\* README.md:1572 "The owner (Primary) org ... always keeps its current value":
\* whatever runs, stops and is rolled back, every field reads in the Primary Org what
\* it read before the first run, at every moment.  Not so where the code gives the owner
\* no value, because export did not find it, and where two applies share a variable that
\* the second took for its own.
OwnerKeepsItsData ==
    \A f \in Fields :
        \/ Effective(f, Owner) = Static[f]
        \/ \E t \in ownerless : f \in FieldsOf[t]
        \/ raw[f] \in reused

\* What the matrix of a target binds reads a value of the Org's own.
Covered(t, o) ==
    matrix[t] # None /\ \A b \in matrix[t].bind :
                           raw[b[1]] \in Names /\ Effective(b[1], o) # None

\* An Org that an object is published to never reads the static value of the Primary
\* Org, nor a variable without a value, from any field that the object's matrix binds,
\* except while a rollback that could not unpublish has taken the variables away.  The
\* fields of Tables that export passed over are in no matrix and read as in Primary: no
\* guard of the code or of the server stands before that.  (_walk_closure, _run_apply's
\* order, rollback_steps)
PublishedIsCovered ==
    \A p \in published : Covered(p[1], p[2]) \/ p[1] \in exposed

\* After a rollback that ends without a failure the target is as before its apply:
\* not published where apply published it, static, and with no variable of its own
\* left behind, wherever apply stopped.  (rollback_steps, _write_rollback)
RollbackRestores ==
    phase = "undone" /\ ~failed =>
        /\ \A f \in FieldsOf[target] : raw[f] = Static[f]
        /\ \A o \in Orgs : <<target, o>> \notin published
        /\ \A n \in variables : maker[n] # target
=============================================================================
