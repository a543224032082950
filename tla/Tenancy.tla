-------------------------------- MODULE Tenancy --------------------------------
(***************************************************************************)
(* `ts tenancy apply | verify | teardown` (ts_cli/commands/tenancy.py,     *)
(* tenancy_plan.py, tenancy_spec.py): the Orgs, groups and users of        *)
(* tenants, stood up from a spec and taken down again.  Several tenants    *)
(* come from one template, so their specs share a marker and may share a   *)
(* group of the Primary Org.  Commands of different tenants run at the     *)
(* same time, plan from one reading of the cluster, and may end after any  *)
(* call; the way on is to run them again.  A teardown may name any Orgs,   *)
(* Primary too, or none.                                                   *)
(*                                                                         *)
(* A thing is an Org, a group <<Org, name>> or a user; a member is         *)
(* <<group, user>>.                                                        *)
(***************************************************************************)
EXTENDS Naturals, FiniteSets

CONSTANTS
    Tenants,        \* the specs
    Orgs, Primary,  \* Orgs of tenants; the Org that always exists
    GroupNames, Users,
    SpecOf,         \* [Tenants -> [orgs, groups, users, members]], parsed
    Others,         \* Orgs, groups and users that somebody may create by hand
    RowsNameOrgs,   \* the server's rows of groups tell which Orgs they are of
    MaxFaults,      \* bound: faults of the network, kills, and things created by hand
    MaxChanges      \* [Tenants -> Nat], bound: how often it is no longer wanted, or again

AllOrgs == Orgs \cup {Primary}
Groups == AllOrgs \X GroupNames
Things == AllOrgs \cup Groups \cup Users

\* validate_spec: what a spec has to be before any call is made
Coherent(s) ==
    /\ s.orgs \subseteq Orgs
    /\ \A g \in s.groups : g[1] \in s.orgs \cup {Primary}
    /\ \A u \in DOMAIN s.users : s.users[u] \subseteq s.orgs \cup {Primary}
    /\ \A m \in s.members :
          m[2] \in DOMAIN s.users /\ m[1][1] \in s.users[m[2]] /\ m[1] \in s.groups

ASSUME TenancyAssumption ==
    /\ Primary \notin Orgs
    /\ AllOrgs \cap Users = {} /\ Groups \cap (AllOrgs \cup Users) = {}
    /\ \A t \in Tenants :
          /\ Coherent(SpecOf[t])
          /\ SpecOf[t].groups \subseteq Groups /\ DOMAIN SpecOf[t].users \subseteq Users
          /\ SpecOf[t].members \subseteq Groups \X Users
    /\ Others \subseteq Orgs \cup Groups \cup Users /\ RowsNameOrgs \in BOOLEAN
    /\ MaxFaults \in Nat /\ MaxChanges \in [Tenants -> Nat]

VARIABLES
    things,    \* what exists
    marked,    \* what carries the marker
    belongs,   \* users and the Orgs they are in
    members,   \* groups and the users in them
    wish,      \* per tenant: whether it is to be "up" or "down"
    named,     \* per tenant: the Orgs that its teardown is given with --org
    done,      \* the last command did what was wished, and said so
    cmd,       \* per tenant: the running command, its calls to make, its warnings,
               \* and the Orgs of the spec that its index of Orgs lacks
    made,      \* tenants and the things their applies created (ghost)
    swept,     \* tenants and the groups of Primary that another tenant's teardown took
               \* since the tenant last read the cluster (ghost)
    stripped,  \* users who outlived one of their Orgs (ghost)
    late,      \* what somebody created while a teardown was about to delete one of that
               \* name (ghost)
    faults, changes

cluster == <<things, marked, belongs, members>>
ghosts == <<made, swept, stripped, late>>
vars == <<things, marked, belongs, members, wish, named, done, cmd, made, swept, stripped,
          late, faults, changes>>

Idle == [kind |-> "idle", todo |-> {}, quiet |-> TRUE, unknown |-> {}]

Init ==
    /\ things = {Primary} /\ marked = {} /\ belongs = {} /\ members = {}
    /\ wish = [t \in Tenants |-> "up"] /\ named = [t \in Tenants |-> {}]
    /\ done = [t \in Tenants |-> FALSE] /\ cmd = [t \in Tenants |-> Idle]
    /\ made = {} /\ swept = {} /\ stripped = {} /\ late = {}
    /\ faults = 0 /\ changes = [t \in Tenants |-> 0]

-----------------------------------------------------------------------------
(* _read_cluster                                                           *)

AnyGroup(g, u) == \E h \in Groups : <<h, u>> \in members   \* mutant

\* _accumulate_org: a user row lists the names of the user's groups in all Orgs; a
\* membership is taken for one in this Org if this Org has a group of that name.
Attributed(g, u) == \E h \in Groups : h[2] = g[2] /\ <<h, u>> \in members

\* _groups_in_org: Primary lists the groups of every Org; a row that does not tell its
\* Orgs is kept, and h is taken for a group of Primary.
TakenFor(h, g) == h = g \/ (~RowsNameOrgs /\ g[1] = Primary /\ h[2] = g[2])

Listed(read, of) ==
    {g \in Groups : g[1] \in read /\ \E h \in of \cap Groups : TakenFor(h, g)}

Reading(read) ==
    LET users == {u \in things \cap Users : \E o \in read : <<u, o>> \in belongs}
    IN  [things |-> (things \cap AllOrgs) \cup Listed(read, things) \cup users,
         marked |-> (marked \cap (AllOrgs \cup users)) \cup Listed(read, marked),
         members |-> {m \in Listed(read, things) \X users :
                         <<m[2], m[1][1]>> \in belongs /\ Attributed(m[1], m[2])}]

\* _org_inventory: an Org that cannot be read is treated as empty, with a warning.
Readings(s) ==
    LET targets == (s.orgs \cup {Primary}) \cap things
    IN  {[seen |-> Reading(read), quiet |-> read = targets] : read \in SUBSET targets}

-----------------------------------------------------------------------------
(* The plans.  A step is [kind, of]; ranks are the order of the kinds.     *)

Kinds == {"create_org", "create_group", "create_user", "add_group_member",
          "delete_user", "delete_group", "delete_org"}

Steps(kind, of) == {[kind |-> kind, of |-> x] : x \in of}

\* build_apply_plan: what is there is skipped.
ApplyPlan(s, seen) ==
    Steps("create_org", s.orgs \ seen.things)
    \cup Steps("create_group", s.groups \ seen.things)
    \cup Steps("create_user", DOMAIN s.users \ seen.things)
    \cup Steps("add_group_member", s.members \ seen.members)

AnyScope(s, u, allowed) == TRUE                             \* mutant
NamedOrPrimary(o, allowed) == o \in allowed \cup {Primary}   \* mutant

\* _teardown_users: every Org of the user but Primary, as the spec has it, was named.  A
\* user of Primary alone is in scope of every teardown.
InScope(s, u, allowed) == s.users[u] \ {Primary} \subseteq allowed

NamedOrg(o, allowed) == o \in allowed

\* build_teardown_plan; what it leaves out is refused.
TeardownPlan(s, seen, allowed) ==
    LET mine == seen.marked
    IN  Steps("delete_user", {u \in DOMAIN s.users \cap mine : InScope(s, u, allowed)})
        \cup Steps("delete_group", {g \in s.groups \cap mine : NamedOrg(g[1], allowed)})
        \cup Steps("delete_org", {o \in s.orgs \cap mine : NamedOrg(o, allowed)})

UsersFirst(kind) ==   \* mutant
    CASE kind \in {"create_user", "delete_user"} -> 1
      [] kind \in {"create_org", "delete_group"} -> 2
      [] kind \in {"create_group", "delete_org"} -> 3
      [] kind = "add_group_member" -> 4

\* _STEP_ORDER, and the order in which build_teardown_plan puts its lists together
Rank(kind) ==
    CASE kind \in {"create_org", "delete_user"} -> 1
      [] kind \in {"create_group", "delete_group"} -> 2
      [] kind \in {"create_user", "delete_org"} -> 3
      [] kind = "add_group_member" -> 4

\* Within a kind the order is that of the names or of the spec: fixed, and any.
First(todo) == CHOOSE x \in todo : \A y \in todo : Rank(x.kind) <= Rank(y.kind)

-----------------------------------------------------------------------------
(* The commands.                                                           *)

Fault == faults < MaxFaults /\ faults' = faults + 1

\* _ORG_INDEX_CACHE is filled when the first Org but Primary is read, once per command.
Unknown(s) == IF s.orgs \cap things = {} THEN {} ELSE s.orgs \ things

\* apply_cmd, teardown_cmd: read, plan; unread Orgs count as one fault.
Start(t) ==
    /\ cmd[t].kind = "idle" /\ ~done[t]
    /\ \E r \in Readings(SpecOf[t]) :
          /\ IF r.quiet THEN UNCHANGED faults ELSE Fault
          /\ \/ /\ wish[t] = "up"
                /\ cmd' = [cmd EXCEPT ![t] =
                      [kind |-> "apply", todo |-> ApplyPlan(SpecOf[t], r.seen),
                       quiet |-> r.quiet, unknown |-> Unknown(SpecOf[t])]]
             \/ /\ wish[t] = "down"
                /\ cmd' = [cmd EXCEPT ![t] =
                      [kind |-> "teardown", quiet |-> r.quiet,
                       todo |-> TeardownPlan(SpecOf[t], r.seen, named[t]),
                       unknown |-> {}]]
    /\ swept' = {p \in swept : p[1] # t}
    /\ UNCHANGED <<cluster, wish, named, done, made, stripped, late, changes>>

StampWithoutUsers(x) == IF x \in Users THEN {} ELSE {x}   \* mutant
StampTheOrg(x) == IF x \in Groups THEN {x[1]} ELSE {x}      \* mutant

\* _stamp, and the extended property of a user
Stamp(x) == {x}

\* _org_client: an Org is resolved in the index, and has to be there.
Resolves(t, o) == o \in things /\ o \notin cmd[t].unknown

\* What the client and the server accept.
Accepts(t, x) ==
    CASE x.kind = "create_org" -> x.of \notin things
      [] x.kind = "create_group" -> Resolves(t, x.of[1]) /\ x.of \notin things
      [] x.kind = "create_user" ->
            x.of \notin things /\ SpecOf[t].users[x.of] \subseteq things
      [] x.kind = "add_group_member" ->
            /\ Resolves(t, x.of[1][1])
            /\ x.of[1] \in things /\ <<x.of[2], x.of[1][1]>> \in belongs
      [] OTHER -> x.of \in things

Created(t, x) ==
    /\ things' = things \cup {x}
    /\ marked' = marked \cup Stamp(x)
    /\ made' = made \cup {<<t, x>>}
    /\ UNCHANGED <<members, swept, stripped, late>>

CreateOrg(t, x) == Created(t, x.of) /\ UNCHANGED belongs

CreateGroup(t, x) == Created(t, x.of) /\ UNCHANGED belongs

CreateUser(t, x) ==
    /\ Created(t, x.of)
    /\ belongs' = belongs \cup ({x.of} \X SpecOf[t].users[x.of])

AddGroupMember(t, x) ==
    /\ members' = members \cup {x.of}
    /\ UNCHANGED <<things, marked, belongs, ghosts>>

\* A thing is removed with what is inside it.
Removed(t, x) ==
    LET out == {y \in things : y = x \/ (y \in Groups /\ y[1] = x)}
        common == {y \in out \cap Groups : y[1] = Primary}
    IN  /\ things' = things \ out
        /\ marked' = marked \ out
        /\ made' = {p \in made : p[2] \notin out}
        /\ belongs' = {b \in belongs : b[1] # x /\ b[2] # x}
        /\ members' = {m \in members : m[1] \notin out /\ m[2] # x}
        /\ swept' = swept \cup ((Tenants \ {t}) \X common)
        /\ stripped' = {u \in Users : u \in stripped \/ <<u, x>> \in belongs} \ {x}
        /\ late' = late \ out

Effect(t, x) ==
    \/ x.kind = "create_org" /\ CreateOrg(t, x)
    \/ x.kind = "create_group" /\ CreateGroup(t, x)
    \/ x.kind = "create_user" /\ CreateUser(t, x)
    \/ x.kind = "add_group_member" /\ AddGroupMember(t, x)
    \/ x.kind \in {"delete_user", "delete_group", "delete_org"} /\ Removed(t, x.of)

Ends(t) == cmd' = [cmd EXCEPT ![t] = Idle]

Call(t, x) ==
    /\ x = First(cmd[t].todo)
    /\ \/ /\ Accepts(t, x)
          /\ Effect(t, x)
          /\ cmd' = [cmd EXCEPT ![t].todo = @ \ {x}]
          /\ UNCHANGED faults
       \/ /\ ~Accepts(t, x)            \* refused: the command ends, with an error
          /\ Ends(t)
          /\ UNCHANGED <<cluster, ghosts, faults>>
       \/ /\ Accepts(t, x)             \* killed, or the answer is lost
          /\ Effect(t, x) \/ UNCHANGED <<cluster, ghosts>>
          /\ Fault
          /\ Ends(t)
    /\ UNCHANGED <<wish, named, done, changes>>

\* Exit 0: "applied", "topology already matches the spec", "deleted".  After a warning
\* the operator runs the command again.
Finish(t) ==
    /\ cmd[t].kind # "idle" /\ cmd[t].todo = {}
    /\ done' = [done EXCEPT ![t] = cmd[t].quiet]
    /\ Ends(t)
    /\ UNCHANGED <<cluster, wish, named, ghosts, faults, changes>>

-----------------------------------------------------------------------------
(* Who else acts.                                                          *)

\* The operator takes the tenant down, with any --org (a name of no Org of the spec but
\* Primary changes nothing), or stands it up, again too.
ChangeWish(t, w, orgs) ==
    /\ cmd[t].kind = "idle"
    /\ w = "up" => orgs = {}
    /\ w # wish[t] \/ orgs # named[t] \/ (w = "up" /\ done[t])
    /\ changes[t] < MaxChanges[t]
    /\ changes' = [changes EXCEPT ![t] = @ + 1]
    /\ wish' = [wish EXCEPT ![t] = w] /\ named' = [named EXCEPT ![t] = orgs]
    /\ done' = [done EXCEPT ![t] = FALSE]
    /\ UNCHANGED <<cluster, cmd, ghosts, faults>>

\* Somebody creates an Org, a group, or a user of the Primary Org, without the marker.
OthersCreate(x) ==
    /\ x \notin things
    /\ x \in Groups => x[1] \in things
    /\ things' = things \cup {x}
    /\ belongs' = IF x \in Users THEN belongs \cup {<<x, Primary>>} ELSE belongs
    /\ late' = IF \E t \in Tenants : \E y \in cmd[t].todo :
                     cmd[t].kind = "teardown" /\ y.of = x
               THEN late \cup {x} ELSE late
    /\ Fault
    /\ UNCHANGED <<marked, members, wish, named, done, cmd, made, swept, stripped, changes>>

Operate(t) == Start(t) \/ (\E x \in cmd[t].todo : Call(t, x)) \/ Finish(t)

Next ==
    \/ \E t \in Tenants :
          \/ Operate(t)
          \/ \E w \in {"up", "down"} :
                \E orgs \in SUBSET (SpecOf[t].orgs \cup {Primary}) : ChangeWish(t, w, orgs)
    \/ \E x \in Others : OthersCreate(x)

Spec == Init /\ [][Next]_vars

\* A command runs on, and the operator runs it again until it has said that it is done
\* ("a run that failed halfway is simply re-run").
FairSpec == Spec /\ \A t \in Tenants : WF_vars(Operate(t))

-----------------------------------------------------------------------------
(* Properties                                                              *)

\* Types; memberships only of things that exist, in Orgs their user is in; and the
\* Primary Org never carries the marker, which would put it into a teardown's reach.
TypeOK ==
    /\ Primary \in things /\ things \subseteq Things /\ marked \subseteq things \ {Primary}
    /\ belongs \subseteq (things \cap Users) \X (things \cap AllOrgs)
    /\ members \subseteq (things \cap Groups) \X Users
    /\ \A m \in members : <<m[2], m[1][1]>> \in belongs
    /\ wish \in [Tenants -> {"up", "down"}] /\ named \in [Tenants -> SUBSET AllOrgs]
    /\ done \in [Tenants -> BOOLEAN]
    /\ cmd \in [Tenants -> [kind : {"idle", "apply", "teardown"}, quiet : BOOLEAN,
                            todo : SUBSET [kind : Kinds,
                                           of : Things \cup (Groups \X Users)],
                            unknown : SUBSET Orgs]]
    /\ made \subseteq Tenants \X things /\ swept \subseteq Tenants \X Groups
    /\ stripped \subseteq things \cap Users /\ late \subseteq things
    /\ faults \in 0..MaxFaults
    /\ changes \in [Tenants -> Nat] /\ \A t \in Tenants : changes[t] <= MaxChanges[t]

\* Everything the spec states is there, except common groups, with the memberships in
\* them, that another tenant's teardown has swept.  A user is also in the Orgs that the
\* spec has for them, unless somebody else made the user or they outlived an Org: apply
\* and verify do not look at users' Orgs.
Holds(t) ==
    LET s == SpecOf[t]
        lost == {g \in s.groups : <<t, g>> \in swept}
    IN  /\ s.orgs \cup (s.groups \ lost) \cup DOMAIN s.users \subseteq things
        /\ {m \in s.members : m[1] \notin lost} \subseteq members
        /\ \A u \in DOMAIN s.users :
              u \in marked \ stripped => {u} \X s.users[u] \subseteq belongs

\* When apply or verify has said that the topology matches the spec it does, and goes on
\* doing so whatever other tenants' commands do, but for common groups that one of them
\* tears down with --org Primary.  (commands/tenancy.py: "anything present is skipped, so
\* a run that failed halfway is simply re-run")
AppliedMeansComplete ==
    \A t \in Tenants : done[t] /\ wish[t] = "up" => Holds(t)

\* When a teardown without warnings has ended, nothing that the tenant's applies made is
\* left in the Orgs that were named, nor a user all of whose Orgs but Primary were:
\* however often applies and teardowns stopped before.
TornDownMeansGone ==
    \A t \in Tenants : done[t] /\ wish[t] = "down" =>
        \A p \in made : p[1] = t =>
            /\ p[2] \notin named[t]
            /\ p[2] \in Groups => p[2][1] \notin named[t]
            /\ p[2] \in Users => ~(SpecOf[t].users[p[2]] \ {Primary} \subseteq named[t])

\* Whatever disappears is of an Org that was named, and was created by the tenant that is
\* being torn down, or is inside an Org that was; but a teardown that names Primary also
\* takes common groups that other tenants' applies made, and use.  What somebody made by
\* hand stays, unless they took the name of something the teardown was about to delete.
\* (build_teardown_plan: "no single mistake ... can lose a tenant")
TakesOnlyItsOwn ==
    [][\A x \in things \ things' :
          \E t \in Tenants :
             /\ cmd[t].kind = "teardown"
             /\ x \in Orgs => x \in named[t]
             /\ x \in Groups => x[1] \in named[t]
             /\ \/ <<t, x>> \in made
                \/ x \in Groups /\ <<t, x[1]>> \in made
                \/ x \in Groups /\ x[1] = Primary /\ \E u \in Tenants : <<u, x>> \in made
                \/ x \in late]_vars

\* README.md "A user who also belongs to an unnamed Org is refused, because deleting them
\* would strip them from it."
NoUserIsStripped ==
    [][\A u \in Users \cap (things \ things') :
          \E t \in Tenants : /\ cmd[t].kind = "teardown"
                             /\ \A o \in Orgs : <<u, o>> \in belongs => o \in named[t]]_vars

\* Re-running ends: every tenant is some day as it is wished, and stays so, unless it is to
\* be up and one of its users was made by somebody else or has outlived an Org: nothing
\* puts such a user into their Orgs.
ReRunFinishes ==
    \A t \in Tenants :
        \/ <>[]done[t]
        \/ <>[](/\ wish[t] = "up"
                /\ \E u \in DOMAIN SpecOf[t].users \cap things :
                      u \notin marked \/ u \in stripped)
=============================================================================
