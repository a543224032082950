-------------------------- MODULE Tenancy_proofs ---------------------------
(***************************************************************************)
(* Proofs about Tenancy, for any tenants and specs: the types, that a      *)
(* teardown takes its own things only and strips no user, and what is true *)
(* once apply or teardown has ended.                                       *)
(***************************************************************************)
EXTENDS Tenancy, TLAPS

(***************************************************************************)
(* The hypotheses of the theorems                                          *)
(***************************************************************************)

\* No Org and no user is in two specs; a group of the Primary Org may be.
Distinct ==
    \A t, u \in Tenants : t # u =>
        /\ SpecOf[t].orgs \cap SpecOf[u].orgs = {}
        /\ DOMAIN SpecOf[t].users \cap DOMAIN SpecOf[u].users = {}

\* No user is to be in two groups of one name.  (Tenancy_same_group has one who is.)
OneGroupPerName ==
    \A t \in Tenants : \A l, m \in SpecOf[t].members :
        l[2] = m[2] /\ l[1][2] = m[1][2] => l = m

\* Every user is also one of the Primary Org, where a teardown still finds them when
\* their other Orgs are gone.
UsersAreInPrimary ==
    \A t \in Tenants : \A n \in DOMAIN SpecOf[t].users : Primary \in SpecOf[t].users[n]

(***************************************************************************)
(* The inductive invariant: the commands                                   *)
(***************************************************************************)
ApplySteps(s) ==
    Steps("create_org", s.orgs) \cup Steps("create_group", s.groups)
    \cup Steps("create_user", DOMAIN s.users) \cup Steps("add_group_member", s.members)

InOrgs(s) == {g \in s.groups : g[1] # Primary}

TeardownSteps(s) ==
    Steps("delete_user", DOMAIN s.users) \cup Steps("delete_group", s.groups)
    \cup Steps("delete_org", s.orgs)

\* What a teardown is given with --org allows the step.
Allowed(s, x, orgs) ==
    /\ x.kind = "delete_user" => InScope(s, x.of, orgs)
    /\ x.kind = "delete_group" => x.of[1] \in orgs
    /\ x.kind = "delete_org" => x.of \in orgs

\* A command has calls of its own kind only, and works at what is wished.
CommandIsWished(t) ==
    /\ done[t] => cmd[t].kind = "idle"
    /\ cmd[t].kind = "idle" => cmd[t].todo = {}
    /\ cmd[t].kind = "apply" => wish[t] = "up" /\ cmd[t].todo \subseteq ApplySteps(SpecOf[t])
    /\ cmd[t].kind = "teardown" =>
          /\ wish[t] = "down" /\ cmd[t].todo \subseteq TeardownSteps(SpecOf[t])
          /\ \A x \in cmd[t].todo : Allowed(SpecOf[t], x, named[t])

Commands == TypeOK /\ \A t \in Tenants : CommandIsWished(t)

(***************************************************************************)
(* The inductive invariant: whose the things are                           *)
(***************************************************************************)
Own(t) == SpecOf[t].orgs \cup SpecOf[t].groups \cup DOMAIN SpecOf[t].users
Private(t) == SpecOf[t].orgs \cup InOrgs(SpecOf[t]) \cup DOMAIN SpecOf[t].users

IsCommon(y) == y \in Groups /\ y[1] = Primary

\* The marker is on what an apply of a tenant that names it made, and on nothing else.
MarkerTells ==
    /\ \A p \in made : p[2] \in marked /\ p[2] \in Own(p[1])
    /\ \A y \in marked : \E t \in Tenants : <<t, y>> \in made

\* What a teardown has still to take is its tenant's; or it is gone, and in its place may
\* be a group that somebody made since; or it is common, and some tenant's.
TargetsAreMade ==
    \A t \in Tenants : cmd[t].kind = "teardown" =>
        \A x \in cmd[t].todo :
            \/ <<t, x.of>> \in made
            \/ x.of \in Groups /\ (x.of \notin things \/ x.of \in late)
            \/ IsCommon(x.of) /\ (RowsNameOrgs => \E u \in Tenants : <<u, x.of>> \in made)

GroupsAreInOrgs == \A g \in things \cap Groups : g[1] \in things

\* Users and memberships are as their spec has them.
UsersAsSpecified ==
    \A t \in Tenants : \A n \in DOMAIN SpecOf[t].users :
        /\ \A o \in Orgs : <<n, o>> \in belongs => o \in SpecOf[t].users[n]
        /\ \A g \in Groups : <<g, n>> \in members => <<g, n>> \in SpecOf[t].members

IInv == Commands /\ MarkerTells /\ TargetsAreMade /\ GroupsAreInOrgs /\ UsersAsSpecified

\* What a running apply has not planned is there, or was swept since its reading.
ApplyCovers ==
    \A t \in Tenants : cmd[t].kind = "apply" =>
        /\ \A y \in Own(t) : y \in things \/ <<t, y>> \in swept \/ \E x \in cmd[t].todo :
              x.kind # "add_group_member" /\ x.of = y
        /\ \A m \in SpecOf[t].members : m \in members \/ <<t, m[1]>> \in swept \/
              \E x \in cmd[t].todo : x.kind = "add_group_member" /\ x.of = m

\* What AppliedMeansComplete says, but for the Orgs of users.
AppliedIsThere ==
    \A t \in Tenants : done[t] /\ wish[t] = "up" =>
        /\ \A y \in Own(t) : y \in things \/ <<t, y>> \in swept
        /\ \A m \in SpecOf[t].members : m \in members \/ <<t, m[1]>> \in swept

\* A user whom an apply made is in all of their Orgs, unless they outlived one.
UsersAreInTheirOrgs ==
    \A p \in made : p[2] \in Users =>
        p[2] \in stripped \/ {p[2]} \X SpecOf[p[1]].users[p[2]] \subseteq belongs

\* What a teardown is to take of what its tenant made.
InReach(t, y) ==
    \/ y \in named[t]
    \/ y \in Groups /\ y[1] \in named[t]
    \/ y \in Users /\ SpecOf[t].users[y] \ {Primary} \subseteq named[t]

\* A teardown without warnings has planned all of it.
TeardownCovers ==
    \A t \in Tenants : cmd[t].kind = "teardown" /\ cmd[t].quiet =>
        \A y \in Things : <<t, y>> \in made /\ InReach(t, y) =>
            \E x \in cmd[t].todo : x.of = y

MadeUsersInPrimary ==
    \A p \in made : p[2] \in Users => <<p[2], Primary>> \in belongs
-----------------------------------------------------------------------------
(* Helpers                                                                 *)

\* An Org, a group and a user are three things.
LEMMA ThreeKinds ==
  /\ Primary \notin Orgs /\ Primary \in AllOrgs /\ Orgs \subseteq AllOrgs
  /\ \A o \in AllOrgs : o \notin Groups /\ o \notin Users /\ o \in Things
  /\ \A g \in Groups : g \notin Users /\ g \in Things /\ g[1] \in AllOrgs /\ g[2] \in GroupNames
  /\ \A u \in Users : u \in Things
BY TenancyAssumption DEF AllOrgs, Things, Groups

LEMMA SpecType ==
  ASSUME NEW t \in Tenants
  PROVE  /\ SpecOf[t].orgs \subseteq Orgs /\ SpecOf[t].groups \subseteq Groups
         /\ DOMAIN SpecOf[t].users \subseteq Users
         /\ SpecOf[t].members \subseteq Groups \X Users
         /\ \A g \in SpecOf[t].groups : g[1] \in SpecOf[t].orgs \cup {Primary}
         /\ \A n \in DOMAIN SpecOf[t].users :
               SpecOf[t].users[n] \subseteq SpecOf[t].orgs \cup {Primary}
         /\ \A m \in SpecOf[t].members :
               m[2] \in DOMAIN SpecOf[t].users /\ m[1] \in SpecOf[t].groups
BY TenancyAssumption DEF Coherent

LEMMA OwnType ==
  ASSUME NEW t \in Tenants
  PROVE  Own(t) \subseteq Things \ {Primary} /\ Private(t) \subseteq Own(t)
BY ThreeKinds, SpecType DEF Own, Private, InOrgs

StepType == [kind : Kinds, of : Things \cup (Groups \X Users)]

CommandType == [kind : {"idle", "apply", "teardown"}, quiet : BOOLEAN,
                todo : SUBSET StepType, unknown : SUBSET Orgs]

LEMMA ApplyStepsType ==
  ASSUME NEW t \in Tenants
  PROVE  /\ ApplySteps(SpecOf[t]) \subseteq StepType
         /\ \A x \in ApplySteps(SpecOf[t]) :
               \/ x.kind = "create_org" /\ x.of \in SpecOf[t].orgs
               \/ x.kind = "create_group" /\ x.of \in SpecOf[t].groups
               \/ x.kind = "create_user" /\ x.of \in DOMAIN SpecOf[t].users
               \/ x.kind = "add_group_member" /\ x.of \in SpecOf[t].members
BY ThreeKinds, SpecType DEF ApplySteps, Steps, StepType, Kinds

LEMMA TeardownStepsType ==
  ASSUME NEW t \in Tenants
  PROVE  /\ TeardownSteps(SpecOf[t]) \subseteq StepType
         /\ \A x \in TeardownSteps(SpecOf[t]) :
               \/ x.kind = "delete_user" /\ x.of \in DOMAIN SpecOf[t].users
               \/ x.kind = "delete_group" /\ x.of \in SpecOf[t].groups
               \/ x.kind = "delete_org" /\ x.of \in SpecOf[t].orgs
BY ThreeKinds, SpecType DEF TeardownSteps, Steps, StepType, Kinds

LEMMA ApplyPlanned ==
  ASSUME NEW t \in Tenants, NEW seen
  PROVE  ApplyPlan(SpecOf[t], seen) \subseteq ApplySteps(SpecOf[t])
BY DEF ApplyPlan, ApplySteps, Steps

\* A teardown is planned within the Orgs that are named.
LEMMA TeardownPlanned ==
  ASSUME NEW t \in Tenants, NEW seen, NEW orgs
  PROVE  /\ TeardownPlan(SpecOf[t], seen, orgs) \subseteq TeardownSteps(SpecOf[t])
         /\ \A x \in TeardownPlan(SpecOf[t], seen, orgs) :
               x.of \in seen.marked /\ Allowed(SpecOf[t], x, orgs)
BY DEF TeardownPlan, TeardownSteps, Steps, Allowed, NamedOrg

-----------------------------------------------------------------------------
(* What a call can do to the cluster.                                      *)

\* An apply adds one thing that was not there.
Adds(t, y) ==
    /\ y \notin things /\ y \in Own(t)
    /\ y \in Groups => y[1] \in things
    /\ things' = things \cup {y} /\ marked' = marked \cup {y}
    /\ made' = made \cup {<<t, y>>}
    /\ IF y \in Users
          THEN /\ belongs' = belongs \cup ({y} \X SpecOf[t].users[y])
               /\ SpecOf[t].users[y] \subseteq things
          ELSE belongs' = belongs
    /\ UNCHANGED <<members, swept, stripped, late>>

\* Or one membership.
Joins(t, m) ==
    /\ m \in SpecOf[t].members /\ m[1] \in things /\ <<m[2], m[1][1]>> \in belongs
    /\ members' = members \cup {m}
    /\ UNCHANGED <<things, marked, belongs, made, swept, stripped, late>>

\* What is gone with y.
Inside(y) == {z \in things : z = y \/ (z \in Groups /\ z[1] = y)}

\* A teardown takes one thing that its spec names, with what is inside.
Takes(t, y) ==
    /\ y \in Own(t)
    /\ things' = things \ Inside(y) /\ marked' = marked \ Inside(y)
    /\ made' = {p \in made : p[2] \notin Inside(y)}
    /\ belongs' = {b \in belongs : b[1] # y /\ b[2] # y}
    /\ members' = {m \in members : m[1] \notin Inside(y) /\ m[2] # y}
    /\ swept' = swept \cup ((Tenants \ {t}) \X {z \in Inside(y) : IsCommon(z)})
    /\ stripped' = {u \in Users : u \in stripped \/ <<u, y>> \in belongs} \ {y}
    /\ late' = late \ Inside(y)

Goes(t, x) ==
    \/ cmd[t].kind = "apply" /\ x.kind # "add_group_member" /\ Adds(t, x.of)
    \/ cmd[t].kind = "apply" /\ x.kind = "add_group_member" /\ Joins(t, x.of)
    \/ cmd[t].kind = "teardown" /\ Takes(t, x.of)

LEMMA CallGoes ==
  ASSUME Commands, NEW t \in Tenants, NEW x \in cmd[t].todo, Accepts(t, x), Effect(t, x)
  PROVE  Goes(t, x)
<1>1. CommandIsWished(t) /\ TypeOK
  BY DEF Commands
<1>2. CASE cmd[t].kind = "apply"
  <2>1. x \in ApplySteps(SpecOf[t])
    BY <1>1, <1>2 DEF CommandIsWished
  <2>2. CASE x.kind = "create_org" /\ x.of \in SpecOf[t].orgs
    <3>1. x.of \notin things
      BY <2>2 DEF Accepts
    <3>2. Created(t, x.of) /\ UNCHANGED belongs
      BY <2>2 DEF Effect, CreateOrg
    <3>3. x.of \in Own(t) /\ x.of \notin Groups /\ x.of \notin Users
      BY <2>2, SpecType, ThreeKinds DEF Own
    <3>. QED  BY <1>2, <2>2, <3>1, <3>2, <3>3 DEF Goes, Adds, Created, Stamp
  <2>3. CASE x.kind = "create_group" /\ x.of \in SpecOf[t].groups
    <3>1. x.of \notin things /\ x.of[1] \in things
      BY <2>3 DEF Accepts, Resolves
    <3>2. Created(t, x.of) /\ UNCHANGED belongs
      BY <2>3 DEF Effect, CreateGroup
    <3>3. x.of \in Own(t) /\ x.of \notin Users
      BY <2>3, SpecType, ThreeKinds DEF Own
    <3>. QED  BY <1>2, <2>3, <3>1, <3>2, <3>3 DEF Goes, Adds, Created, Stamp
  <2>4. CASE x.kind = "create_user" /\ x.of \in DOMAIN SpecOf[t].users
    <3>1. x.of \notin things /\ SpecOf[t].users[x.of] \subseteq things
      BY <2>4 DEF Accepts
    <3>2. Created(t, x.of) /\ belongs' = belongs \cup ({x.of} \X SpecOf[t].users[x.of])
      BY <2>4 DEF Effect, CreateUser
    <3>3. x.of \in Own(t) /\ x.of \in Users /\ x.of \notin Groups
      BY <2>4, SpecType, ThreeKinds DEF Own
    <3>. QED  BY <1>2, <2>4, <3>1, <3>2, <3>3 DEF Goes, Adds, Created, Stamp
  <2>5. CASE x.kind = "add_group_member" /\ x.of \in SpecOf[t].members
    BY <1>2, <2>5 DEF Goes, Joins, Accepts, Effect, AddGroupMember, ghosts
  <2>. QED  BY <2>1, <2>2, <2>3, <2>4, <2>5, ApplyStepsType
<1>3. CASE cmd[t].kind = "teardown"
  <2>1. x \in TeardownSteps(SpecOf[t])
    BY <1>1, <1>3 DEF CommandIsWished
  <2>2. x.kind \in {"delete_user", "delete_group", "delete_org"} /\ x.of \in Own(t)
    BY <2>1, TeardownStepsType DEF Own
  <2>3. Removed(t, x.of)
    BY <2>2 DEF Effect
  <2>4. {y \in Inside(x.of) \cap Groups : y[1] = Primary} = {z \in Inside(x.of) : IsCommon(z)}
    BY DEF IsCommon
  <2>. QED  BY <1>3, <2>2, <2>3, <2>4 DEF Goes, Takes, Removed, Inside
<1>4. cmd[t].kind # "idle"
  BY <1>1 DEF CommandIsWished
<1>. QED  BY <1>1, <1>2, <1>3, <1>4 DEF TypeOK

\* The command goes on, is refused or stops; the server has answered or not.
Continues(t, x) == cmd' = [cmd EXCEPT ![t].todo = @ \ {x}]

LEMMA CallCases ==
  ASSUME Commands, NEW t \in Tenants, NEW x \in cmd[t].todo, Call(t, x)
  PROVE  /\ \/ Goes(t, x) /\ (Continues(t, x) \/ Ends(t))
            \/ UNCHANGED <<things, marked, belongs, members, made, swept, stripped, late>> /\ Ends(t)
         /\ UNCHANGED <<wish, named, done, changes>>
         /\ faults' = faults \/ Fault
BY CallGoes DEF Call, Continues, cluster, ghosts

LEMMA CommandAfter ==
  ASSUME TypeOK, NEW t \in Tenants, NEW x \in cmd[t].todo, Continues(t, x) \/ Ends(t)
  PROVE  /\ cmd' \in [Tenants -> CommandType]
         /\ \A u \in Tenants \ {t} : cmd'[u] = cmd[u]
         /\ Ends(t) => cmd'[t] = Idle
         /\ Continues(t, x) => cmd'[t] = [cmd[t] EXCEPT !.todo = @ \ {x}]
<1>1. cmd \in [Tenants -> CommandType]
  BY DEF TypeOK, StepType, CommandType
<1>2. Idle \in CommandType
  BY DEF Idle, CommandType
<1>3. [cmd[t] EXCEPT !.todo = @ \ {x}] \in CommandType
  BY <1>1 DEF CommandType
<1>4. Ends(t) => cmd' \in [Tenants -> CommandType]
  BY <1>1, <1>2 DEF Ends
<1>5. Continues(t, x) => cmd' \in [Tenants -> CommandType]
  <2>1. Continues(t, x) => cmd' = [cmd EXCEPT ![t] = [cmd[t] EXCEPT !.todo = @ \ {x}]]
    BY DEF Continues
  <2>. QED  BY <1>1, <1>3, <2>1
<1>. QED
  <2>1. Ends(t) => cmd'[t] = Idle
    BY DEF Ends, TypeOK
  <2>2. Continues(t, x) => cmd'[t] = [cmd[t] EXCEPT !.todo = @ \ {x}]
    BY DEF Continues, TypeOK
  <2>3. \A u \in Tenants \ {t} : cmd'[u] = cmd[u]
    BY DEF Ends, Continues, TypeOK
  <2>. QED  BY <1>4, <1>5, <2>1, <2>2, <2>3
-----------------------------------------------------------------------------
(* The types, and the commands                                             *)

ClusterType ==
    /\ Primary \in things /\ things \subseteq Things /\ marked \subseteq things \ {Primary}
    /\ belongs \subseteq (things \cap Users) \X (things \cap AllOrgs)
    /\ members \subseteq (things \cap Groups) \X Users
    /\ \A m \in members : <<m[2], m[1][1]>> \in belongs
    /\ made \subseteq Tenants \X things /\ swept \subseteq Tenants \X Groups
    /\ stripped \subseteq things \cap Users /\ late \subseteq things

LEMMA AddsType ==
  ASSUME ClusterType, NEW t \in Tenants, NEW y, Adds(t, y)
  PROVE  ClusterType'
<1>1. y \in Things \ {Primary}
  BY OwnType DEF Adds
<1>2. belongs' \subseteq (things' \cap Users) \X (things' \cap AllOrgs)
  <2>1. CASE y \in Users
    <3>1. y \in DOMAIN SpecOf[t].users
      BY <2>1, SpecType, ThreeKinds DEF Adds, Own
    <3>2. SpecOf[t].users[y] \subseteq AllOrgs
      BY <3>1, SpecType DEF AllOrgs
    <3>. QED  BY <2>1, <3>2 DEF Adds, ClusterType
  <2>2. CASE y \notin Users
    BY <2>2 DEF Adds, ClusterType
  <2>. QED  BY <2>1, <2>2
<1>3. belongs \subseteq belongs'
  BY DEF Adds
<1>. QED  BY <1>1, <1>2, <1>3 DEF Adds, ClusterType

LEMMA JoinsType ==
  ASSUME ClusterType, NEW t \in Tenants, NEW m, Joins(t, m)
  PROVE  ClusterType'
<1>1. m \in Groups \X Users
  BY SpecType DEF Joins
<1>. QED  BY <1>1 DEF Joins, ClusterType

LEMMA TakesType ==
  ASSUME ClusterType, NEW t \in Tenants, NEW y, Takes(t, y)
  PROVE  ClusterType'
<1>1. y \in Things \ {Primary}
  BY OwnType DEF Takes
<1>2. Primary \notin Inside(y)
  BY <1>1, ThreeKinds DEF Inside
<1>3. \A b \in belongs' : b[1] \in things' \cap Users /\ b[2] \in things' \cap AllOrgs
  <2>1. \A b \in belongs' : /\ b \in belongs /\ b[1] # y /\ b[2] # y
                            /\ b[1] \in things \cap Users /\ b[2] \in things \cap AllOrgs
    BY DEF Takes, ClusterType
  <2>. QED  BY <2>1, ThreeKinds DEF Takes, Inside
<1>4. \A m \in members' : m[1] \in things' \cap Groups /\ <<m[2], m[1][1]>> \in belongs'
  <2>. SUFFICES ASSUME NEW m \in members'
                PROVE  m[1] \in things' \cap Groups /\ <<m[2], m[1][1]>> \in belongs'
    OBVIOUS
  <2>1. m \in members /\ m[1] \notin Inside(y) /\ m[2] # y
    BY DEF Takes
  <2>2. m[1] \in things \cap Groups /\ <<m[2], m[1][1]>> \in belongs
    BY <2>1 DEF ClusterType
  <2>3. m[1][1] # y
    BY <2>1, <2>2 DEF Inside
  <2>4. m[1] \in things' \cap Groups
    BY <2>1, <2>2 DEF Takes
  <2>. QED  BY <2>1, <2>2, <2>3, <2>4 DEF Takes
<1>5. belongs' \subseteq belongs /\ members' \subseteq members
  BY DEF Takes
<1>6. belongs' \subseteq (things' \cap Users) \X (things' \cap AllOrgs)
      /\ members' \subseteq (things' \cap Groups) \X Users
  BY <1>3, <1>4, <1>5 DEF ClusterType
<1>7. swept' \subseteq Tenants \X Groups
  BY DEF Takes, ClusterType, IsCommon
<1>8. stripped' \subseteq things' \cap Users
  <2>. SUFFICES ASSUME NEW u \in stripped' PROVE u \in things' \cap Users
    OBVIOUS
  <2>1. u \in Users /\ u # y /\ u \in things
    BY DEF Takes, ClusterType
  <2>2. u \notin Inside(y)
    BY <2>1, ThreeKinds DEF Inside
  <2>. QED  BY <2>1, <2>2 DEF Takes
<1>. QED  BY <1>2, <1>4, <1>6, <1>7, <1>8 DEF Takes, ClusterType

LEMMA GoesType ==
  ASSUME ClusterType, NEW t \in Tenants, NEW x, Goes(t, x)
  PROVE  ClusterType'
BY AddsType, JoinsType, TakesType DEF Goes

LEMMA CommandsInit == Init => Commands
<1>. SUFFICES ASSUME Init PROVE Commands
  OBVIOUS
<1>1. TypeOK
  BY TenancyAssumption, ThreeKinds DEF Init, TypeOK, Idle
<1>2. ASSUME NEW t \in Tenants PROVE CommandIsWished(t)
  BY DEF Init, CommandIsWished, Idle
<1>. QED  BY <1>1, <1>2 DEF Commands

\* A command that has gone on has fewer calls; one that has ended has none.
LEMMA CommandsCall ==
  ASSUME Commands, NEW t \in Tenants, NEW x \in cmd[t].todo, Call(t, x)
  PROVE  Commands'
<1>1. TypeOK /\ ClusterType
  BY DEF Commands, TypeOK, ClusterType
<1>2. /\ \/ Goes(t, x) /\ (Continues(t, x) \/ Ends(t))
         \/ UNCHANGED <<things, marked, belongs, members, made, swept, stripped, late>> /\ Ends(t)
      /\ UNCHANGED <<wish, named, done, changes>>
      /\ faults' = faults \/ Fault
  BY CallCases
<1>3. ClusterType'
  <2>1. CASE Goes(t, x)
    BY <1>1, <2>1, GoesType
  <2>2. CASE UNCHANGED <<things, marked, belongs, members, made, swept, stripped, late>>
    BY <1>1, <2>2 DEF ClusterType
  <2>. QED  BY <1>2, <2>1, <2>2
<1>4. /\ cmd' \in [Tenants -> CommandType]
      /\ \A u \in Tenants \ {t} : cmd'[u] = cmd[u]
      /\ Ends(t) => cmd'[t] = Idle
      /\ Continues(t, x) => cmd'[t] = [cmd[t] EXCEPT !.todo = @ \ {x}]
  BY <1>1, <1>2, CommandAfter
<1>5. faults' \in 0..MaxFaults
  BY <1>1, <1>2, TenancyAssumption DEF TypeOK, Fault
<1>6. TypeOK'
  BY <1>1, <1>2, <1>3, <1>4, <1>5 DEF TypeOK, ClusterType, CommandType, StepType
<1>7. ASSUME NEW u \in Tenants
      PROVE  CommandIsWished(u)'
  <2>1. CommandIsWished(u) /\ cmd[t] \in CommandType
    BY <1>1 DEF Commands, TypeOK, StepType, CommandType
  <2>2. CASE u # t
    BY <1>2, <1>4, <2>1, <2>2 DEF CommandIsWished
  <2>3. CASE u = t /\ Ends(t)
    BY <1>2, <1>4, <2>1, <2>3 DEF CommandIsWished, Idle
  <2>4. CASE u = t /\ Continues(t, x)
    <3>1. /\ cmd'[t].kind = cmd[t].kind /\ cmd'[t].todo \subseteq cmd[t].todo
      BY <1>4, <2>1, <2>4 DEF CommandType
    <3>. QED  BY <1>2, <2>1, <2>4, <3>1 DEF CommandIsWished
  <2>. QED  BY <1>2, <2>2, <2>3, <2>4
<1>. QED  BY <1>6, <1>7 DEF Commands

LEMMA ReadingsType ==
  ASSUME NEW s, NEW r \in Readings(s)
  PROVE  /\ r.quiet \in BOOLEAN
         /\ \E read \in SUBSET ((s.orgs \cup {Primary}) \cap things) :
               /\ r.seen = Reading(read)
               /\ r.quiet => read = (s.orgs \cup {Primary}) \cap things
<1>. DEFINE targets == (s.orgs \cup {Primary}) \cap things
            R(read) == [seen |-> Reading(read), quiet |-> read = targets]
<1>1. PICK read \in SUBSET targets : r = R(read)
  BY DEF Readings
<1>2. R(read).quiet = (read = targets) /\ R(read).seen = Reading(read)
  BY Zenon
<1>3. (read = targets) \in BOOLEAN
  BY Zenon
<1>. HIDE DEF R, targets
<1>4. r.quiet = (read = targets) /\ r.seen = Reading(read)
  BY <1>1, <1>2, Zenon
<1>5. r.quiet \in BOOLEAN
  BY <1>3, <1>4, Zenon
<1>6. r.quiet => read = targets
  BY <1>4, Zenon
<1>. QED  BY <1>4, <1>5, <1>6 DEF targets

\* What Start plans.
LEMMA StartAfter ==
  ASSUME TypeOK, NEW t \in Tenants, Start(t)
  PROVE  /\ UNCHANGED <<things, marked, belongs, members, wish, named, done, made, stripped,
                        late, changes>>
         /\ swept' = {p \in swept : p[1] # t}
         /\ cmd[t].kind = "idle" /\ ~done[t]
         /\ cmd' \in [Tenants -> CommandType] /\ \A u \in Tenants \ {t} : cmd'[u] = cmd[u]
         /\ \E r \in Readings(SpecOf[t]) :
               /\ faults' = faults \/ Fault
               /\ cmd'[t].quiet = r.quiet
               /\ \/ /\ wish[t] = "up" /\ cmd'[t].kind = "apply"
                     /\ cmd'[t].todo = ApplyPlan(SpecOf[t], r.seen)
                  \/ /\ wish[t] = "down" /\ cmd'[t].kind = "teardown"
                     /\ cmd'[t].todo = TeardownPlan(SpecOf[t], r.seen, named[t])
<1>1. PICK r \in Readings(SpecOf[t]) :
         /\ IF r.quiet THEN UNCHANGED faults ELSE Fault
         /\ \/ /\ wish[t] = "up"
               /\ cmd' = [cmd EXCEPT ![t] =
                     [kind |-> "apply", todo |-> ApplyPlan(SpecOf[t], r.seen),
                      quiet |-> r.quiet, unknown |-> Unknown(SpecOf[t])]]
            \/ /\ wish[t] = "down"
               /\ cmd' = [cmd EXCEPT ![t] =
                     [kind |-> "teardown", todo |-> TeardownPlan(SpecOf[t], r.seen, named[t]),
                      quiet |-> r.quiet, unknown |-> {}]]
  BY DEF Start
<1>2. r.quiet \in BOOLEAN
  BY ReadingsType
<1>3. PICK c \in CommandType :
         /\ cmd' = [cmd EXCEPT ![t] = c] /\ c.quiet = r.quiet
         /\ \/ /\ wish[t] = "up" /\ c.kind = "apply"
               /\ c.todo = ApplyPlan(SpecOf[t], r.seen)
            \/ /\ wish[t] = "down" /\ c.kind = "teardown"
               /\ c.todo = TeardownPlan(SpecOf[t], r.seen, named[t])
  <2>1. CASE wish[t] = "up"
    <3>. DEFINE plan == ApplyPlan(SpecOf[t], r.seen)
                c == [kind |-> "apply", todo |-> plan, quiet |-> r.quiet,
                      unknown |-> Unknown(SpecOf[t])]
    <3>1. cmd' = [cmd EXCEPT ![t] = c]
      BY <1>1, <2>1
    <3>2. plan \in SUBSET StepType
      BY ApplyPlanned, ApplyStepsType
    <3>3. Unknown(SpecOf[t]) \in SUBSET Orgs
      BY SpecType DEF Unknown
    <3>. HIDE DEF plan
    <3>4. c \in CommandType
      BY <1>2, <3>2, <3>3 DEF CommandType
    <3>5. c.quiet = r.quiet /\ c.kind = "apply" /\ c.todo = plan
      OBVIOUS
    <3>. HIDE DEF c
    <3>. QED  BY <2>1, <3>1, <3>4, <3>5 DEF plan
  <2>2. CASE wish[t] = "down"
    <3>. DEFINE plan == TeardownPlan(SpecOf[t], r.seen, named[t])
                c == [kind |-> "teardown", todo |-> plan, quiet |-> r.quiet, unknown |-> {}]
    <3>1. cmd' = [cmd EXCEPT ![t] = c]
      BY <1>1, <2>2
    <3>2. plan \in SUBSET StepType
      BY TeardownPlanned, TeardownStepsType
    <3>. HIDE DEF plan
    <3>3. c \in CommandType
      BY <1>2, <3>2 DEF CommandType
    <3>4. c.quiet = r.quiet /\ c.kind = "teardown" /\ c.todo = plan
      OBVIOUS
    <3>. HIDE DEF c
    <3>. QED  BY <2>2, <3>1, <3>3, <3>4 DEF plan
  <2>. QED  BY <1>1, <2>1, <2>2
<1>4. cmd \in [Tenants -> CommandType]
  BY DEF TypeOK, CommandType, StepType
<1>5. cmd' \in [Tenants -> CommandType] /\ cmd'[t] = c
      /\ \A u \in Tenants \ {t} : cmd'[u] = cmd[u]
  BY <1>3, <1>4
<1>6. /\ UNCHANGED <<things, marked, belongs, members, wish, named, done, made, stripped,
                     late, changes>>
      /\ swept' = {p \in swept : p[1] # t} /\ cmd[t].kind = "idle" /\ ~done[t]
  BY DEF Start, cluster
<1>7. faults' = faults \/ Fault
  BY <1>1
<1>. QED  BY <1>3, <1>5, <1>6, <1>7

LEMMA CommandsStart ==
  ASSUME Commands, NEW t \in Tenants, Start(t)
  PROVE  Commands'
<1>1. TypeOK /\ \A u \in Tenants : CommandIsWished(u)
  BY DEF Commands
<1>2. /\ UNCHANGED <<things, marked, belongs, members, wish, named, done, made, stripped,
                     late, changes>>
      /\ swept' = {p \in swept : p[1] # t}
      /\ cmd[t].kind = "idle" /\ ~done[t]
      /\ cmd' \in [Tenants -> CommandType] /\ \A u \in Tenants \ {t} : cmd'[u] = cmd[u]
  BY <1>1, StartAfter
<1>3. PICK r \in Readings(SpecOf[t]) :
         /\ faults' = faults \/ Fault
         /\ \/ /\ wish[t] = "up" /\ cmd'[t].kind = "apply"
               /\ cmd'[t].todo = ApplyPlan(SpecOf[t], r.seen)
            \/ /\ wish[t] = "down" /\ cmd'[t].kind = "teardown"
               /\ cmd'[t].todo = TeardownPlan(SpecOf[t], r.seen, named[t])
  BY <1>1, StartAfter
<1>4. faults' \in 0..MaxFaults
  BY <1>1, <1>3, TenancyAssumption DEF TypeOK, Fault
<1>5. TypeOK'
  BY <1>1, <1>2, <1>4 DEF TypeOK, CommandType, StepType
<1>6. ASSUME NEW u \in Tenants PROVE CommandIsWished(u)'
  <2>1. CASE u # t
    BY <1>1, <1>2, <2>1 DEF CommandIsWished
  <2>2. CASE u = t
    <3>1. /\ ~done'[t] /\ wish'[t] = wish[t] /\ named'[t] = named[t]
          /\ ApplyPlan(SpecOf[t], r.seen) \subseteq ApplySteps(SpecOf[t])
      BY <1>2, ApplyPlanned
    <3>2. /\ TeardownPlan(SpecOf[t], r.seen, named[t]) \subseteq TeardownSteps(SpecOf[t])
          /\ \A x \in TeardownPlan(SpecOf[t], r.seen, named[t]) :
                Allowed(SpecOf[t], x, named[t])
      BY TeardownPlanned
    <3>3. CASE wish[t] = "up"
      BY <1>3, <2>2, <3>1, <3>3 DEF CommandIsWished
    <3>4. CASE wish[t] = "down"
      BY <1>3, <2>2, <3>1, <3>2, <3>4 DEF CommandIsWished, Allowed, NamedOrg
    <3>. QED  BY <1>3, <3>3, <3>4
  <2>. QED  BY <2>1, <2>2
<1>. QED  BY <1>5, <1>6 DEF Commands

\* The end of a command that has nothing left to do.
LEMMA FinishAfter ==
  ASSUME Commands, NEW t \in Tenants, Finish(t)
  PROVE  /\ UNCHANGED <<things, marked, belongs, members, wish, named, made, swept, stripped,
                        late, faults, changes>>
         /\ cmd[t].kind # "idle" /\ cmd[t].todo = {}
         /\ cmd' = [cmd EXCEPT ![t] = Idle] /\ cmd'[t] = Idle
         /\ \A u \in Tenants \ {t} : cmd'[u] = cmd[u] /\ done'[u] = done[u]
         /\ done'[t] = cmd[t].quiet /\ TypeOK'
<1>1. TypeOK /\ cmd \in [Tenants -> CommandType]
  BY DEF Commands, TypeOK, StepType, CommandType
<1>2. /\ UNCHANGED <<things, marked, belongs, members, wish, named, made, swept, stripped,
                     late, faults, changes>>
      /\ cmd[t].kind # "idle" /\ cmd[t].todo = {}
      /\ done' = [done EXCEPT ![t] = cmd[t].quiet] /\ cmd' = [cmd EXCEPT ![t] = Idle]
  BY DEF Finish, Ends, cluster, ghosts
<1>3. Idle \in CommandType /\ cmd[t].quiet \in BOOLEAN
  BY <1>1 DEF Idle, CommandType
<1>4. /\ cmd' \in [Tenants -> CommandType] /\ cmd'[t] = Idle
      /\ \A u \in Tenants \ {t} : cmd'[u] = cmd[u]
  BY <1>1, <1>2, <1>3
<1>5. done' \in [Tenants -> BOOLEAN] /\ done'[t] = cmd[t].quiet
      /\ \A u \in Tenants \ {t} : done'[u] = done[u]
  BY <1>1, <1>2, <1>3 DEF TypeOK
<1>6. TypeOK'
  BY <1>1, <1>2, <1>4, <1>5 DEF TypeOK, StepType, CommandType
<1>. QED  BY <1>2, <1>4, <1>5, <1>6

LEMMA CommandsFinish ==
  ASSUME Commands, NEW t \in Tenants, Finish(t)
  PROVE  Commands'
<1>1. ASSUME NEW u \in Tenants PROVE CommandIsWished(u)'
  <2>1. CommandIsWished(u)
    BY DEF Commands
  <2>2. CASE u # t
    BY <2>1, <2>2, FinishAfter DEF CommandIsWished
  <2>3. CASE u = t
    BY <2>1, <2>3, FinishAfter DEF CommandIsWished, Idle
  <2>. QED  BY <2>2, <2>3
<1>. QED  BY <1>1, FinishAfter DEF Commands

LEMMA CommandsChangeWish ==
  ASSUME Commands, NEW t \in Tenants, NEW w \in {"up", "down"},
         NEW orgs \in SUBSET (SpecOf[t].orgs \cup {Primary}), ChangeWish(t, w, orgs)
  PROVE  Commands'
<1>1. TypeOK /\ \A u \in Tenants : CommandIsWished(u)
  BY DEF Commands
<1>2. /\ cmd[t].kind = "idle" /\ changes[t] < MaxChanges[t]
      /\ changes' = [changes EXCEPT ![t] = @ + 1]
      /\ wish' = [wish EXCEPT ![t] = w] /\ named' = [named EXCEPT ![t] = orgs]
      /\ done' = [done EXCEPT ![t] = FALSE]
      /\ UNCHANGED <<things, marked, belongs, members, cmd, made, swept, stripped, late, faults>>
  BY DEF ChangeWish, cluster, ghosts
<1>3. orgs \subseteq AllOrgs
  BY SpecType DEF AllOrgs
<1>4. /\ changes' \in [Tenants -> Nat]
      /\ \A u \in Tenants : changes'[u] <= MaxChanges[u]
  <2>1. changes \in [Tenants -> Nat] /\ \A u \in Tenants : changes[u] <= MaxChanges[u]
    BY <1>1 DEF TypeOK
  <2>2. MaxChanges \in [Tenants -> Nat]
    BY TenancyAssumption
  <2>3. MaxChanges[t] \in Nat /\ changes[t] \in Nat /\ changes[t] < MaxChanges[t]
    BY <1>2, <2>1, <2>2
  <2>4. changes[t] + 1 \in Nat /\ changes[t] + 1 <= MaxChanges[t]
    BY <2>3
  <2>5. changes' = [changes EXCEPT ![t] = changes[t] + 1]
    BY <1>2
  <2>. QED  BY <2>1, <2>4, <2>5
<1>5. TypeOK'
  BY <1>1, <1>2, <1>3, <1>4 DEF TypeOK
<1>6. ASSUME NEW u \in Tenants PROVE CommandIsWished(u)'
  <2>1. CASE u # t
    BY <1>1, <1>2, <2>1 DEF CommandIsWished, TypeOK
  <2>2. CASE u = t
    BY <1>1, <1>2, <2>2 DEF CommandIsWished, TypeOK
  <2>. QED  BY <2>1, <2>2
<1>. QED  BY <1>5, <1>6 DEF Commands

LEMMA CommandsOthersCreate ==
  ASSUME Commands, NEW x \in Others, OthersCreate(x)
  PROVE  Commands'
<1>1. x \in Things
  BY TenancyAssumption, ThreeKinds
<1>2. TypeOK'
  <2>1. belongs' \subseteq (things' \cap Users) \X (things' \cap AllOrgs)
    BY <1>1, ThreeKinds DEF Commands, TypeOK, OthersCreate
  <2>2. belongs \subseteq belongs' /\ late' \subseteq late \cup {x}
    BY DEF OthersCreate
  <2>3. faults' \in 0..MaxFaults
    BY TenancyAssumption DEF Commands, TypeOK, OthersCreate, Fault
  <2>. QED  BY <1>1, <2>1, <2>2, <2>3 DEF Commands, TypeOK, OthersCreate
<1>3. \A u \in Tenants : CommandIsWished(u)'
  BY DEF Commands, CommandIsWished, OthersCreate
<1>. QED  BY <1>2, <1>3 DEF Commands

LEMMA CommandsStep == ASSUME Commands, [Next]_vars PROVE Commands'
<1>1. CASE UNCHANGED vars
  BY <1>1 DEF Commands, TypeOK, CommandIsWished, vars
<1>2. ASSUME NEW t \in Tenants, Operate(t) PROVE Commands'
  BY <1>2, CommandsStart, CommandsCall, CommandsFinish DEF Operate
<1>3. ASSUME NEW t \in Tenants, NEW w \in {"up", "down"},
         NEW orgs \in SUBSET (SpecOf[t].orgs \cup {Primary}), ChangeWish(t, w, orgs)
      PROVE  Commands'
  BY <1>3, CommandsChangeWish
<1>4. ASSUME NEW x \in Others, OthersCreate(x) PROVE Commands'
  BY <1>4, CommandsOthersCreate
<1>. QED  BY <1>1, <1>2, <1>3, <1>4 DEF Next

\* For any specs: nothing belongs to what does not exist, and the Primary Org is never
\* marked nor removed.
THEOREM TypeCorrect == Spec => []TypeOK
<1>1. Commands => TypeOK
  BY DEF Commands
<1>. QED  BY <1>1, CommandsInit, CommandsStep, PTL DEF Spec
-----------------------------------------------------------------------------
(* Whose the things are                                                    *)

\* What a tenant has for itself is in no other spec, nor is anything inside it.
LEMMA Foreign ==
  ASSUME Distinct, NEW t \in Tenants, NEW u \in Tenants, NEW y, y \in Private(t), y \in Own(u)
  PROVE  t = u
<1>. SUFFICES ASSUME t # u PROVE FALSE
  OBVIOUS
<1>1. CASE y \in SpecOf[t].orgs
  <2>1. y \in AllOrgs /\ y \notin Groups /\ y \notin Users
    BY <1>1, SpecType, ThreeKinds
  <2>2. y \in SpecOf[u].orgs
    BY <2>1, SpecType DEF Own
  <2>. QED  BY <1>1, <2>2 DEF Distinct
<1>2. CASE y \in InOrgs(SpecOf[t])
  <2>1. y \in Groups /\ y \notin AllOrgs /\ y \notin Users /\ y[1] \in SpecOf[t].orgs
    BY <1>2, SpecType, ThreeKinds DEF InOrgs
  <2>2. y \in SpecOf[u].groups
    BY <2>1, SpecType, ThreeKinds DEF Own
  <2>3. y[1] \in SpecOf[u].orgs
    BY <2>1, <2>2, SpecType, ThreeKinds
  <2>. QED  BY <2>1, <2>3 DEF Distinct
<1>3. CASE y \in DOMAIN SpecOf[t].users
  <2>1. y \in Users /\ y \notin AllOrgs /\ y \notin Groups
    BY <1>3, SpecType, ThreeKinds
  <2>2. y \in DOMAIN SpecOf[u].users
    BY <2>1, SpecType, ThreeKinds DEF Own
  <2>. QED  BY <1>3, <2>2 DEF Distinct
<1>. QED  BY <1>1, <1>2, <1>3 DEF Private

\* What the marker is on and only one spec names was made by its tenant.
LEMMA MarkedIsMade ==
  ASSUME Distinct, MarkerTells, NEW t \in Tenants, NEW y \in marked, y \in Private(t)
  PROVE  <<t, y>> \in made
<1>1. PICK u \in Tenants : <<u, y>> \in made
  BY DEF MarkerTells
<1>2. y \in Own(u)
  BY <1>1 DEF MarkerTells
<1>. QED  BY <1>1, <1>2, Foreign

\* A spec names what is for itself, and common groups.
LEMMA PrivateOrCommon ==
  ASSUME NEW t \in Tenants, NEW y \in Own(t)
  PROVE  /\ y \in Private(t) \/ IsCommon(y)
         /\ IsCommon(y) => Inside(y) \subseteq {y}
<1>1. y \in Private(t) \/ IsCommon(y)
  BY SpecType DEF Own, Private, InOrgs, IsCommon
<1>2. IsCommon(y) => \A z \in Inside(y) : z = y
  BY ThreeKinds DEF IsCommon, Inside
<1>. QED  BY <1>1, <1>2

LEMMA ForeignInside ==
  ASSUME Distinct, TypeOK, NEW t \in Tenants, NEW u \in Tenants,
         NEW y, y \in Private(t), NEW z, z \in Inside(y), z \in Own(u)
  PROVE  t = u
<1>1. CASE z = y
  BY <1>1, Foreign
<1>2. CASE z \in Groups /\ z[1] = y
  <2>1. y \in AllOrgs
    BY <1>2, ThreeKinds
  <2>2. y \in SpecOf[t].orgs
    BY <2>1, SpecType, ThreeKinds DEF Private, InOrgs
  <2>3. z \in SpecOf[u].groups
    BY <1>2, SpecType, ThreeKinds DEF Own
  <2>4. y \in SpecOf[u].orgs
    BY <1>2, <2>2, <2>3, SpecType, ThreeKinds
  <2>. QED  BY <2>2, <2>4 DEF Distinct
<1>. QED  BY <1>1, <1>2 DEF Inside

\* What a teardown takes of what another spec names is a common group.
LEMMA ForeignTaken ==
  ASSUME Distinct, TypeOK, NEW t \in Tenants, NEW u \in Tenants, t # u,
         NEW y \in Own(u), NEW z \in Own(t), z \in Inside(y)
  PROVE  z = y /\ IsCommon(y)
<1>1. y \notin Private(u)
  BY ForeignInside
<1>. QED  BY <1>1, PrivateOrCommon

\* The steps of a teardown: what each is of tells its kind.
LEMMA TeardownStep ==
  ASSUME Commands, NEW t \in Tenants, cmd[t].kind = "teardown", NEW x \in cmd[t].todo
  PROVE  /\ x \in StepType /\ x.of \in Own(t) /\ Allowed(SpecOf[t], x, named[t])
         /\ x.of \in Users <=> x.kind = "delete_user"
         /\ x.of \in Groups <=> x.kind = "delete_group"
         /\ x.of \in AllOrgs <=> x.kind = "delete_org"
         /\ x.kind \in {"delete_user", "delete_group", "delete_org"}
<1>1. x \in TeardownSteps(SpecOf[t]) /\ Allowed(SpecOf[t], x, named[t])
  BY DEF Commands, CommandIsWished
<1>2. x \in StepType /\ \/ x.kind = "delete_user" /\ x.of \in DOMAIN SpecOf[t].users
                        \/ x.kind = "delete_group" /\ x.of \in SpecOf[t].groups
                        \/ x.kind = "delete_org" /\ x.of \in SpecOf[t].orgs
  BY <1>1, TeardownStepsType
<1>. QED  BY <1>1, <1>2, SpecType, ThreeKinds DEF Own

LEMMA SameStep ==
  ASSUME Commands, NEW t \in Tenants, cmd[t].kind = "teardown",
         NEW x \in cmd[t].todo, NEW y \in cmd[t].todo, x.of = y.of
  PROVE  x = y
<1>1. x.kind = y.kind
  BY TeardownStep
<1>2. x \in StepType /\ y \in StepType
  BY TeardownStep
<1>. QED  BY <1>1, <1>2 DEF StepType

LEMMA InvInit == Init => IInv
<1>. SUFFICES ASSUME Init PROVE IInv
  OBVIOUS
<1>1. MarkerTells /\ TargetsAreMade /\ UsersAsSpecified
  BY DEF Init, Idle, MarkerTells, TargetsAreMade, UsersAsSpecified
<1>2. GroupsAreInOrgs
  BY ThreeKinds DEF Init, GroupsAreInOrgs
<1>. QED  BY <1>1, <1>2, CommandsInit DEF IInv

Owned == MarkerTells /\ TargetsAreMade /\ GroupsAreInOrgs /\ UsersAsSpecified

\* Calls only drop out of a running command, and of a command that has ended.
LEMMA FewerCalls ==
  ASSUME Commands, NEW t \in Tenants, NEW x \in cmd[t].todo, Continues(t, x) \/ Ends(t),
         NEW u \in Tenants
  PROVE  /\ cmd'[u].todo \subseteq cmd[u].todo
         /\ cmd'[u].kind # "idle" => /\ cmd'[u].kind = cmd[u].kind
                                     /\ cmd'[u].quiet = cmd[u].quiet
         /\ cmd'[t].kind # "idle" => cmd'[t].todo = cmd[t].todo \ {x}
         /\ u # t => cmd'[u] = cmd[u]
<1>1. TypeOK /\ cmd[t] \in CommandType
  BY DEF Commands, TypeOK, StepType, CommandType
<1>2. /\ \A v \in Tenants \ {t} : cmd'[v] = cmd[v]
      /\ Ends(t) => cmd'[t] = Idle
      /\ Continues(t, x) => cmd'[t] = [cmd[t] EXCEPT !.todo = @ \ {x}]
  BY <1>1, CommandAfter
<1>3. CASE Ends(t)
  BY <1>2, <1>3 DEF Idle
<1>4. CASE Continues(t, x)
  BY <1>1, <1>2, <1>4 DEF CommandType
<1>. QED  BY <1>3, <1>4

LEMMA OwnedAdds ==
  ASSUME Distinct, IInv, NEW t \in Tenants, NEW x \in cmd[t].todo,
         Continues(t, x) \/ Ends(t), Adds(t, x.of)
  PROVE  Owned'
<1>. DEFINE y == x.of
<1>1. TypeOK /\ Commands
  BY DEF IInv, Commands
<1>2. /\ y \notin things /\ y \in Own(t)
      /\ y \in Groups => y[1] \in things
      /\ things' = things \cup {y} /\ marked' = marked \cup {y}
      /\ made' = made \cup {<<t, y>>} /\ UNCHANGED <<members, late>>
  BY DEF Adds
<1>3. MarkerTells'
  <2>1. \A p \in made' : p[2] \in marked' /\ p[2] \in Own(p[1])
    BY <1>2 DEF IInv, MarkerTells
  <2>2. \A z \in marked' : \E u \in Tenants : <<u, z>> \in made'
    BY <1>2 DEF IInv, MarkerTells
  <2>. QED  BY <2>1, <2>2 DEF MarkerTells, Own
<1>4. TargetsAreMade'
  <2>. SUFFICES ASSUME NEW u \in Tenants, cmd'[u].kind = "teardown", NEW z \in cmd'[u].todo
                PROVE  \/ <<u, z.of>> \in made'
                       \/ z.of \in Groups /\ (z.of \notin things' \/ z.of \in late')
                       \/ IsCommon(z.of) /\
                             (RowsNameOrgs => \E v \in Tenants : <<v, z.of>> \in made')
    BY DEF TargetsAreMade, IsCommon
  <2>1. cmd[u].kind = "teardown" /\ z \in cmd[u].todo
    BY <1>1, FewerCalls
  <2>2. \/ <<u, z.of>> \in made
        \/ z.of \in Groups /\ (z.of \notin things \/ z.of \in late)
        \/ IsCommon(z.of) /\ (RowsNameOrgs => \E v \in Tenants : <<v, z.of>> \in made)
    BY <2>1 DEF IInv, TargetsAreMade
  <2>3. z.of \in Private(u) \/ IsCommon(z.of)
    BY <1>1, <2>1, TeardownStep, PrivateOrCommon
  <2>4. CASE z.of = y
    BY <1>2, <2>3, <2>4, Foreign
  <2>5. CASE z.of # y
    BY <1>2, <2>2, <2>5
  <2>. QED  BY <2>4, <2>5
<1>5. GroupsAreInOrgs'
  BY <1>2 DEF IInv, GroupsAreInOrgs
<1>6. UsersAsSpecified'
  <2>. SUFFICES ASSUME NEW u \in Tenants, NEW n \in DOMAIN SpecOf[u].users
                PROVE  /\ \A o \in Orgs : <<n, o>> \in belongs' => o \in SpecOf[u].users[n]
                       /\ \A g \in Groups : <<g, n>> \in members' => <<g, n>> \in SpecOf[u].members
    BY DEF UsersAsSpecified
  <2>1. /\ \A o \in Orgs : <<n, o>> \in belongs => o \in SpecOf[u].users[n]
        /\ \A g \in Groups : <<g, n>> \in members => <<g, n>> \in SpecOf[u].members
    BY DEF IInv, UsersAsSpecified
  <2>2. CASE n = y
    <3>1. y \in Users /\ y \in Private(u)
      BY <2>2, SpecType DEF Private
    <3>2. u = t
      BY <1>2, <3>1, Foreign
    <3>3. belongs' = belongs \cup ({y} \X SpecOf[t].users[y])
      BY <3>1 DEF Adds
    <3>. QED  BY <1>2, <2>1, <2>2, <3>2, <3>3
  <2>3. CASE n # y
    <3>1. \A o \in Orgs : <<n, o>> \in belongs' => <<n, o>> \in belongs
      BY <2>3 DEF Adds
    <3>. QED  BY <1>2, <2>1, <3>1
  <2>. QED  BY <2>2, <2>3
<1>. QED  BY <1>3, <1>4, <1>5, <1>6 DEF Owned

LEMMA OwnedJoins ==
  ASSUME Distinct, IInv, NEW t \in Tenants, NEW x \in cmd[t].todo,
         Continues(t, x) \/ Ends(t), Joins(t, x.of)
  PROVE  Owned'
<1>1. Commands /\ UNCHANGED <<things, marked, belongs, made, late>>
  BY DEF IInv, Joins
<1>2. MarkerTells' /\ GroupsAreInOrgs'
  BY <1>1 DEF IInv, MarkerTells, GroupsAreInOrgs, Own
<1>3. TargetsAreMade'
  BY <1>1, FewerCalls DEF IInv, TargetsAreMade, IsCommon
<1>4. UsersAsSpecified'
  <2>. SUFFICES ASSUME NEW u \in Tenants, NEW n \in DOMAIN SpecOf[u].users,
                       NEW g \in Groups, <<g, n>> \in members'
                PROVE  <<g, n>> \in SpecOf[u].members
    BY <1>1 DEF IInv, UsersAsSpecified
  <2>1. CASE <<g, n>> \in members
    BY <2>1 DEF IInv, UsersAsSpecified
  <2>2. CASE <<g, n>> = x.of
    <3>1. <<g, n>> \in SpecOf[t].members /\ n \in DOMAIN SpecOf[t].users
      BY <2>2, SpecType DEF Joins
    <3>. QED  BY <3>1 DEF Distinct
  <2>. QED  BY <2>1, <2>2 DEF Joins
<1>. QED  BY <1>2, <1>3, <1>4 DEF Owned

LEMMA OwnedTakes ==
  ASSUME Distinct, IInv, NEW t \in Tenants, NEW x \in cmd[t].todo, cmd[t].kind = "teardown",
         Continues(t, x) \/ Ends(t), Takes(t, x.of)
  PROVE  Owned'
<1>. DEFINE y == x.of
<1>1. TypeOK /\ Commands
  BY DEF IInv, Commands
<1>2. /\ y \in Own(t)
      /\ things' = things \ Inside(y) /\ marked' = marked \ Inside(y)
      /\ made' = {p \in made : p[2] \notin Inside(y)} /\ late' = late \ Inside(y)
      /\ belongs' \subseteq belongs /\ members' \subseteq members
  BY DEF Takes
<1>3. MarkerTells'
  BY <1>2 DEF IInv, MarkerTells, Own
<1>4. TargetsAreMade'
  <2>. SUFFICES ASSUME NEW u \in Tenants, cmd'[u].kind = "teardown", NEW z \in cmd'[u].todo
                PROVE  \/ <<u, z.of>> \in made'
                       \/ z.of \in Groups /\ (z.of \notin things' \/ z.of \in late')
                       \/ IsCommon(z.of) /\
                             (RowsNameOrgs => \E v \in Tenants : <<v, z.of>> \in made')
    BY DEF TargetsAreMade, IsCommon
  <2>1. cmd[u].kind = "teardown" /\ z \in cmd[u].todo
    BY <1>1, FewerCalls
  <2>2. \/ <<u, z.of>> \in made
        \/ z.of \in Groups /\ (z.of \notin things \/ z.of \in late)
        \/ IsCommon(z.of) /\ (RowsNameOrgs => \E v \in Tenants : <<v, z.of>> \in made)
    BY <2>1 DEF IInv, TargetsAreMade
  <2>3. CASE z.of \in Inside(y)
    <3>1. z.of \notin things'
      BY <1>2, <2>3
    <3>2. z.of \in Own(u)
      BY <1>1, <2>1, TeardownStep
    <3>3. z.of \in Groups
      <4>1. CASE u # t
        BY <1>1, <1>2, <2>3, <3>2, <4>1, ForeignTaken DEF IsCommon
      <4>2. CASE u = t
        <5>1. z # x
          BY <1>1, <4>2, FewerCalls
        <5>2. z.of # y
          BY <1>1, <2>1, <4>2, <5>1, SameStep
        <5>. QED  BY <2>3, <5>2 DEF Inside
      <4>. QED  BY <4>1, <4>2
    <3>. QED  BY <3>1, <3>3
  <2>4. CASE z.of \notin Inside(y)
    BY <1>2, <2>2, <2>4
  <2>. QED  BY <2>3, <2>4
<1>5. GroupsAreInOrgs'
  <2>. SUFFICES ASSUME NEW g \in things' \cap Groups PROVE g[1] \in things'
    BY DEF GroupsAreInOrgs
  <2>1. g \in things \cap Groups /\ g[1] \in things /\ g[1] # y
    BY <1>2 DEF IInv, GroupsAreInOrgs, Inside
  <2>. QED  BY <1>2, <2>1, ThreeKinds DEF Inside
<1>6. UsersAsSpecified'
  BY <1>2 DEF IInv, UsersAsSpecified
<1>. QED  BY <1>3, <1>4, <1>5, <1>6 DEF Owned

LEMMA OwnedCall ==
  ASSUME Distinct, IInv, NEW t \in Tenants, NEW x \in cmd[t].todo, Call(t, x)
  PROVE  Owned'
<1>1. Commands /\ TypeOK
  BY DEF IInv, Commands
<1>2. \/ Goes(t, x) /\ (Continues(t, x) \/ Ends(t))
      \/ UNCHANGED <<things, marked, belongs, members, made, swept, stripped, late>> /\ Ends(t)
  BY <1>1, CallCases
<1>3. CASE UNCHANGED <<things, marked, belongs, members, made, swept, stripped, late>> /\ Ends(t)
  <2>1. MarkerTells' /\ GroupsAreInOrgs' /\ UsersAsSpecified'
    BY <1>3 DEF IInv, MarkerTells, GroupsAreInOrgs, UsersAsSpecified, Own
  <2>2. TargetsAreMade'
    BY <1>1, <1>3, FewerCalls DEF IInv, TargetsAreMade, IsCommon
  <2>. QED  BY <2>1, <2>2 DEF Owned
<1>. QED  BY <1>2, <1>3, OwnedAdds, OwnedJoins, OwnedTakes DEF Goes

\* What a reading shows as marked is, but for common groups where rows do not name Orgs.
LEMMA ReadingMarks ==
  ASSUME MarkerTells, NEW read, NEW y \in Reading(read).marked
  PROVE  \/ y \in marked
         \/ IsCommon(y) /\ ~RowsNameOrgs
BY DEF Reading, Listed, TakenFor, IsCommon

LEMMA OwnedStart ==
  ASSUME Distinct, IInv, NEW t \in Tenants, Start(t)
  PROVE  Owned'
<1>1. /\ Commands /\ TypeOK /\ UNCHANGED <<things, marked, belongs, members, made, late>>
      /\ \A u \in Tenants \ {t} : cmd'[u] = cmd[u]
  BY StartAfter DEF IInv, Commands
<1>2. PICK r \in Readings(SpecOf[t]) :
         \/ cmd'[t].kind = "apply"
         \/ /\ cmd'[t].kind = "teardown"
            /\ cmd'[t].todo = TeardownPlan(SpecOf[t], r.seen, named[t])
  BY <1>1, StartAfter
<1>3. PICK read : r.seen = Reading(read)
  BY ReadingsType
<1>4. TargetsAreMade'
  <2>. SUFFICES ASSUME NEW u \in Tenants, cmd'[u].kind = "teardown", NEW z \in cmd'[u].todo
                PROVE  \/ <<u, z.of>> \in made
                       \/ z.of \in Groups /\ (z.of \notin things \/ z.of \in late)
                       \/ IsCommon(z.of) /\
                             (RowsNameOrgs => \E v \in Tenants : <<v, z.of>> \in made)
    BY <1>1 DEF TargetsAreMade, IsCommon
  <2>1. CASE u # t
    <3>1. cmd'[u] = cmd[u]
      BY <1>1, <2>1
    <3>. QED  BY <3>1 DEF IInv, TargetsAreMade
  <2>2. CASE u = t
    <3>1. z \in TeardownPlan(SpecOf[t], r.seen, named[t])
      BY <1>2, <2>2
    <3>2. z.of \in Reading(read).marked /\ z \in TeardownSteps(SpecOf[t])
      BY <1>3, <3>1, TeardownPlanned
    <3>3. z.of \in Own(t)
      BY <3>2, TeardownStepsType DEF Own
    <3>4. CASE IsCommon(z.of) /\ ~RowsNameOrgs
      BY <3>4
    <3>5. CASE z.of \in marked
      <4>1. CASE z.of \in Private(t)
        BY <2>2, <3>5, <4>1, MarkedIsMade DEF IInv
      <4>2. CASE IsCommon(z.of)
        BY <3>5, <4>2 DEF IInv, MarkerTells
      <4>. QED  BY <3>3, <4>1, <4>2, PrivateOrCommon
    <3>. QED  BY <3>2, <3>4, <3>5, ReadingMarks DEF IInv
  <2>. QED  BY <2>1, <2>2
<1>5. MarkerTells' /\ GroupsAreInOrgs' /\ UsersAsSpecified'
  BY <1>1 DEF IInv, MarkerTells, GroupsAreInOrgs, UsersAsSpecified, Own
<1>. QED  BY <1>4, <1>5 DEF Owned

LEMMA OwnedOthersCreate ==
  ASSUME IInv, NEW x \in Others, OthersCreate(x)
  PROVE  Owned'
<1>1. Primary \notin Orgs /\ Commands /\ TypeOK
  BY ThreeKinds DEF IInv, Commands
<1>2. /\ things' = things \cup {x} /\ UNCHANGED <<marked, members, cmd, made>>
      /\ x \in Groups => x[1] \in things
      /\ belongs' = IF x \in Users THEN belongs \cup {<<x, Primary>>} ELSE belongs
      /\ late' = IF \E t \in Tenants : \E y \in cmd[t].todo :
                       cmd[t].kind = "teardown" /\ y.of = x
                 THEN late \cup {x} ELSE late
  BY DEF OthersCreate
<1>3. MarkerTells' /\ GroupsAreInOrgs'
  BY <1>2 DEF IInv, MarkerTells, GroupsAreInOrgs, Own
<1>4. TargetsAreMade'
  <2>. SUFFICES ASSUME NEW t \in Tenants, cmd[t].kind = "teardown", NEW z \in cmd[t].todo
                PROVE  \/ <<t, z.of>> \in made
                       \/ z.of \in Groups /\ (z.of \notin things' \/ z.of \in late')
                       \/ IsCommon(z.of) /\
                             (RowsNameOrgs => \E v \in Tenants : <<v, z.of>> \in made)
    BY <1>2 DEF TargetsAreMade, IsCommon
  <2>1. \/ <<t, z.of>> \in made
        \/ z.of \in Groups /\ (z.of \notin things \/ z.of \in late)
        \/ IsCommon(z.of) /\ (RowsNameOrgs => \E v \in Tenants : <<v, z.of>> \in made)
    BY DEF IInv, TargetsAreMade
  <2>2. late \subseteq late' /\ (z.of = x => x \in late')
    BY <1>2
  <2>. QED  BY <1>2, <2>1, <2>2
<1>5. UsersAsSpecified'
  <2>1. \A n, o : o \in Orgs /\ <<n, o>> \in belongs' => <<n, o>> \in belongs
    BY <1>1, <1>2
  <2>. QED  BY <1>2, <2>1 DEF IInv, UsersAsSpecified
<1>. QED  BY <1>3, <1>4, <1>5 DEF Owned

LEMMA InvStep == ASSUME Distinct, IInv, [Next]_vars PROVE IInv'
<1>1. Commands'
  BY CommandsStep DEF IInv
<1>. SUFFICES Owned'
  BY <1>1 DEF IInv, Owned
<1>2. CASE UNCHANGED vars
  BY <1>2 DEF IInv, Owned, MarkerTells, TargetsAreMade, GroupsAreInOrgs, UsersAsSpecified,
              Own, IsCommon, vars
<1>3. ASSUME NEW t \in Tenants, NEW x \in cmd[t].todo, Call(t, x) PROVE Owned'
  BY <1>3, OwnedCall
<1>4. ASSUME NEW t \in Tenants, Start(t) PROVE Owned'
  BY <1>4, OwnedStart
<1>5. ASSUME NEW t \in Tenants, Finish(t) PROVE Owned'
  <2>1. /\ UNCHANGED <<things, marked, belongs, members, made, late>>
        /\ \A u \in Tenants : cmd'[u].kind = "teardown" => cmd'[u] = cmd[u]
    BY <1>5, FinishAfter DEF IInv, Idle
  <2>. QED  BY <2>1 DEF IInv, Owned, MarkerTells, TargetsAreMade, GroupsAreInOrgs,
                        UsersAsSpecified, Own, IsCommon
<1>6. ASSUME NEW t \in Tenants, NEW w \in {"up", "down"},
         NEW orgs \in SUBSET (SpecOf[t].orgs \cup {Primary}), ChangeWish(t, w, orgs)
      PROVE  Owned'
  BY <1>6 DEF ChangeWish, cluster, ghosts, IInv, Owned, MarkerTells, TargetsAreMade,
              GroupsAreInOrgs, UsersAsSpecified, Own, IsCommon
<1>7. ASSUME NEW x \in Others, OthersCreate(x) PROVE Owned'
  BY <1>7, OwnedOthersCreate
<1>. QED  BY <1>2, <1>3, <1>4, <1>5, <1>6, <1>7 DEF Next, Operate

\* However the commands of the tenants interleave, and wherever they stop, the marker
\* tells whose a thing is, and what a teardown is about to take is its tenant's.
THEOREM InvariantHolds ==
  ASSUME Distinct
  PROVE  Spec => []IInv
<1>1. IInv /\ [Next]_vars => IInv'
  BY InvStep
<1>. QED  BY InvInit, <1>1, PTL DEF Spec

\* Things disappear by a call of a teardown only.
LEMMA Losing ==
  ASSUME Commands, [Next]_vars, NEW z \in things \ things'
  PROVE  \E t \in Tenants : \E x \in cmd[t].todo :
            cmd[t].kind = "teardown" /\ z \in Inside(x.of)
<1>1. PICK t \in Tenants : \E x \in cmd[t].todo : Call(t, x)
  <2>1. CASE UNCHANGED vars
    BY <2>1 DEF vars
  <2>2. ASSUME NEW t \in Tenants, Start(t) \/ Finish(t)
        PROVE  things' = things
    BY <2>2 DEF Start, Finish, cluster
  <2>3. ASSUME NEW t, NEW w, NEW orgs, ChangeWish(t, w, orgs) PROVE things' = things
    BY <2>3 DEF ChangeWish, cluster
  <2>4. ASSUME NEW x, OthersCreate(x) PROVE things \subseteq things'
    BY <2>4 DEF OthersCreate
  <2>. QED  BY <2>1, <2>2, <2>3, <2>4 DEF Next, Operate
<1>2. PICK x \in cmd[t].todo : Call(t, x)
  BY <1>1
<1>3. Goes(t, x)
  BY <1>2, CallCases
<1>4. cmd[t].kind = "teardown" /\ Takes(t, x.of)
  BY <1>3 DEF Goes, Adds, Joins
<1>. QED  BY <1>4 DEF Takes

\* A teardown removes, of the Orgs that it names, what its own tenant's applies made, and
\* what is inside it; of Primary, if it names that, what any tenant's applies made; and
\* what took the name of one of these since it was planned.
THEOREM TakesOnlyItsOwnAlways ==
  ASSUME Distinct, RowsNameOrgs
  PROVE  Spec => TakesOnlyItsOwn
<1>1. ASSUME IInv, [Next]_vars, NEW z \in things \ things'
      PROVE  \E t \in Tenants :
                /\ cmd[t].kind = "teardown"
                /\ z \in Orgs => z \in named[t]
                /\ z \in Groups => z[1] \in named[t]
                /\ \/ <<t, z>> \in made
                   \/ z \in Groups /\ <<t, z[1]>> \in made
                   \/ z \in Groups /\ z[1] = Primary /\ \E u \in Tenants : <<u, z>> \in made
                   \/ z \in late
  <2>1. Commands
    BY <1>1 DEF IInv
  <2>2. PICK t \in Tenants : \E x \in cmd[t].todo :
           cmd[t].kind = "teardown" /\ z \in Inside(x.of)
    BY <1>1, <2>1, Losing
  <2>3. PICK x \in cmd[t].todo : cmd[t].kind = "teardown" /\ z \in Inside(x.of)
    BY <2>2
  <2>4. \/ <<t, x.of>> \in made
        \/ x.of \in Groups /\ (x.of \notin things \/ x.of \in late)
        \/ IsCommon(x.of) /\ \E u \in Tenants : <<u, x.of>> \in made
    BY <1>1, <2>3 DEF IInv, TargetsAreMade
  <2>5. /\ x.of \in AllOrgs => x.of \in named[t]
        /\ x.of \in Groups => x.of[1] \in named[t]
    BY <2>1, <2>3, TeardownStep DEF Allowed
  <2>6. CASE z = x.of
    BY <1>1, <2>3, <2>4, <2>5, <2>6, ThreeKinds DEF IsCommon
  <2>7. CASE z \in Groups /\ z[1] = x.of
    <3>1. x.of \in AllOrgs /\ x.of \notin Groups /\ z \notin Orgs
      BY <2>7, ThreeKinds
    <3>. QED  BY <2>3, <2>4, <2>5, <2>7, <3>1 DEF IsCommon
  <2>. QED  BY <2>3, <2>6, <2>7 DEF Inside
<1>2. IInv /\ [Next]_vars =>
        [\A x \in things \ things' :
            \E t \in Tenants :
               /\ cmd[t].kind = "teardown"
               /\ x \in Orgs => x \in named[t]
               /\ x \in Groups => x[1] \in named[t]
               /\ \/ <<t, x>> \in made
                  \/ x \in Groups /\ <<t, x[1]>> \in made
                  \/ x \in Groups /\ x[1] = Primary /\ \E u \in Tenants : <<u, x>> \in made
                  \/ x \in late]_vars
  BY <1>1
<1>. QED  BY <1>2, InvariantHolds, PTL DEF Spec, TakesOnlyItsOwn

\* Nobody is deleted who is in an Org that was not named.
THEOREM NoUserIsStrippedAlways ==
  ASSUME Distinct
  PROVE  Spec => NoUserIsStripped
<1>1. ASSUME IInv, [Next]_vars, NEW n \in Users \cap (things \ things')
      PROVE  \E t \in Tenants : /\ cmd[t].kind = "teardown"
                                /\ \A o \in Orgs : <<n, o>> \in belongs => o \in named[t]
  <2>1. Commands
    BY <1>1 DEF IInv
  <2>2. PICK t \in Tenants : \E x \in cmd[t].todo :
           cmd[t].kind = "teardown" /\ n \in Inside(x.of)
    BY <1>1, <2>1, Losing
  <2>3. PICK x \in cmd[t].todo :
           cmd[t].kind = "teardown" /\ n \in Inside(x.of)
    BY <2>2
  <2>4. n = x.of
    BY <2>3, ThreeKinds DEF Inside
  <2>5. x.kind = "delete_user"
    BY <2>1, <2>3, <2>4, TeardownStep
  <2>6. n \in DOMAIN SpecOf[t].users /\ InScope(SpecOf[t], n, named[t])
    <3>1. n \in Own(t) /\ Allowed(SpecOf[t], x, named[t])
      BY <2>1, <2>3, <2>4, TeardownStep
    <3>. QED  BY <2>4, <2>5, <3>1, SpecType, ThreeKinds DEF Own, Allowed
  <2>7. \A o \in Orgs : <<n, o>> \in belongs => o \in SpecOf[t].users[n] /\ o # Primary
    BY <1>1, <2>6, ThreeKinds DEF IInv, UsersAsSpecified
  <2>. QED  BY <2>3, <2>6, <2>7 DEF InScope
<1>2. IInv /\ [Next]_vars =>
        [\A u \in Users \cap (things \ things') :
            \E t \in Tenants : /\ cmd[t].kind = "teardown"
                               /\ \A o \in Orgs : <<u, o>> \in belongs => o \in named[t]]_vars
  BY <1>1
<1>. QED  BY <1>2, InvariantHolds, PTL DEF Spec, NoUserIsStripped
-----------------------------------------------------------------------------
(* What is applied stays.                                                  *)

\* Neither another tenant's call nor an apply takes anything of a tenant's, but for common
\* groups and what is in them.
LEMMA OwnStays ==
  ASSUME Distinct, IInv, NEW u \in Tenants, NEW x \in cmd[u].todo, Call(u, x),
         NEW t \in Tenants, t # u \/ cmd[u].kind = "apply"
  PROVE  /\ swept \subseteq swept'
         /\ \A y \in Own(t) : y \in things => y \in things' \/ <<t, y>> \in swept'
         /\ \A m \in SpecOf[t].members : m \in members =>
               m \in members' \/ <<t, m[1]>> \in swept'
<1>1. Commands /\ TypeOK
  BY DEF IInv, Commands
<1>2. Goes(u, x) \/ UNCHANGED <<things, members, swept>>
  BY <1>1, CallCases
<1>3. CASE cmd[u].kind = "teardown" /\ Takes(u, x.of)
  <2>1. x.of \in Own(u) /\ t # u
    BY <1>3 DEF Takes
  <2>2. ASSUME NEW y \in Own(t), y \in Inside(x.of) \/ (y = x.of /\ y \in things)
        PROVE  <<t, y>> \in swept' /\ y \in Groups
    <3>1. y \in Inside(x.of)
      BY <2>2 DEF Inside
    <3>2. IsCommon(y)
      BY <1>1, <2>1, <3>1, ForeignTaken
    <3>. QED  BY <1>3, <2>1, <3>1, <3>2 DEF Takes, IsCommon
  <2>3. ASSUME NEW m \in SpecOf[t].members, m \in members
        PROVE  m \in members' \/ <<t, m[1]>> \in swept'
    <3>1. m[1] \in Own(t) /\ m[2] \in Own(t) /\ m[2] \in Users
      BY SpecType DEF Own
    <3>2. m[2] \in things /\ m[2] \notin Groups
      <4>1. /\ <<m[2], m[1][1]>> \in belongs
            /\ belongs \subseteq (things \cap Users) \X (things \cap AllOrgs)
        BY <1>1, <2>3 DEF TypeOK
      <4>. QED  BY <3>1, <4>1, ThreeKinds
    <3>3. m[2] # x.of
      BY <2>2, <3>1, <3>2
    <3>. QED  BY <1>3, <2>2, <2>3, <3>1, <3>3 DEF Takes
  <2>4. swept \subseteq swept' /\ things' = things \ Inside(x.of)
    BY <1>3 DEF Takes
  <2>. QED  BY <2>2, <2>3, <2>4
<1>4. CASE Adds(u, x.of) \/ Joins(u, x.of)
  BY <1>4 DEF Adds, Joins
<1>. QED  BY <1>2, <1>3, <1>4 DEF Goes

\* Everything a spec names is planned, unless it is there.
LEMMA ApplyPlanCovers ==
  ASSUME NEW t \in Tenants, NEW seen
  PROVE  /\ \A y \in Own(t) : y \in seen.things \/
               \E x \in ApplyPlan(SpecOf[t], seen) : x.kind # "add_group_member" /\ x.of = y
         /\ \A m \in SpecOf[t].members : m \in seen.members \/
               \E x \in ApplyPlan(SpecOf[t], seen) : x.kind = "add_group_member" /\ x.of = m
<1>. DEFINE plan == ApplyPlan(SpecOf[t], seen)
<1>1. ASSUME NEW y \in SpecOf[t].orgs, y \notin seen.things
      PROVE  [kind |-> "create_org", of |-> y] \in plan
  BY <1>1 DEF ApplyPlan, Steps
<1>2. ASSUME NEW y \in SpecOf[t].groups, y \notin seen.things
      PROVE  [kind |-> "create_group", of |-> y] \in plan
  BY <1>2 DEF ApplyPlan, Steps
<1>3. ASSUME NEW y \in DOMAIN SpecOf[t].users, y \notin seen.things
      PROVE  [kind |-> "create_user", of |-> y] \in plan
  BY <1>3 DEF ApplyPlan, Steps
<1>4. ASSUME NEW m \in SpecOf[t].members, m \notin seen.members
      PROVE  [kind |-> "add_group_member", of |-> m] \in plan
  BY <1>4 DEF ApplyPlan, Steps
<1>. HIDE DEF plan
<1>5. ASSUME NEW y \in Own(t), y \notin seen.things
      PROVE  \E x \in plan : x.kind # "add_group_member" /\ x.of = y
  <2>1. PICK k \in {"create_org", "create_group", "create_user"} :
           [kind |-> k, of |-> y] \in plan
    BY <1>1, <1>2, <1>3, <1>5 DEF Own
  <2>. QED  BY <2>1
<1>6. ASSUME NEW m \in SpecOf[t].members, m \notin seen.members
      PROVE  \E x \in plan : x.kind = "add_group_member" /\ x.of = m
  BY <1>4, <1>6
<1>. QED  BY <1>5, <1>6 DEF plan

\* A membership is read right where nobody is to be in two groups of one name.
LEMMA ReadingTells ==
  ASSUME OneGroupPerName, IInv, NEW t \in Tenants, NEW read,
         NEW m \in SpecOf[t].members, m \in Reading(read).members
  PROVE  m \in members
<1>1. Attributed(m[1], m[2])
  BY DEF Reading
<1>2. PICK h \in Groups : h[2] = m[1][2] /\ <<h, m[2]>> \in members
  BY <1>1 DEF Attributed
<1>3. m[2] \in DOMAIN SpecOf[t].users /\ m = <<m[1], m[2]>>
  BY SpecType
<1>4. <<h, m[2]>> \in SpecOf[t].members
  BY <1>2, <1>3 DEF IInv, UsersAsSpecified
<1>5. <<h, m[2]>> = m
  BY <1>2, <1>4 DEF OneGroupPerName
<1>. QED  BY <1>2, <1>5

\* What a reading shows of what a spec names is there, where rows name their Orgs.
LEMMA ReadingShows ==
  ASSUME RowsNameOrgs, NEW read
  PROVE  Reading(read).things \subseteq things
BY DEF Reading, Listed, TakenFor

AppliedInv == IInv /\ ApplyCovers /\ AppliedIsThere /\ UsersAreInTheirOrgs

LEMMA AppliedInit == Init => AppliedInv
BY InvInit DEF Init, Idle, AppliedInv, ApplyCovers, AppliedIsThere, UsersAreInTheirOrgs

LEMMA AppliedStart ==
  ASSUME OneGroupPerName, RowsNameOrgs, AppliedInv, NEW t \in Tenants, Start(t)
  PROVE  ApplyCovers' /\ AppliedIsThere' /\ UsersAreInTheirOrgs'
<1>1. /\ IInv /\ Commands /\ TypeOK
      /\ UNCHANGED <<things, belongs, members, wish, done, made, stripped>>
      /\ swept' = {p \in swept : p[1] # t} /\ ~done[t]
      /\ \A u \in Tenants \ {t} : cmd'[u] = cmd[u]
  BY StartAfter DEF AppliedInv, IInv, Commands
<1>2. PICK r \in Readings(SpecOf[t]) :
         \/ /\ cmd'[t].kind = "apply"
            /\ cmd'[t].todo = ApplyPlan(SpecOf[t], r.seen)
         \/ cmd'[t].kind = "teardown"
  BY <1>1, StartAfter
<1>3. \A u \in Tenants \ {t} : \A y : <<u, y>> \in swept => <<u, y>> \in swept'
  BY <1>1
<1>4. AppliedIsThere'
  BY <1>1, <1>3 DEF AppliedInv, AppliedIsThere, Own
<1>5. UsersAreInTheirOrgs'
  BY <1>1 DEF AppliedInv, UsersAreInTheirOrgs
<1>6. ApplyCovers'
  <2>. SUFFICES ASSUME NEW u \in Tenants, cmd'[u].kind = "apply"
                PROVE  /\ \A y \in Own(u) :
                             \/ y \in things \/ <<u, y>> \in swept'
                             \/ \E x \in cmd'[u].todo :
                                   x.kind # "add_group_member" /\ x.of = y
                       /\ \A m \in SpecOf[u].members :
                             \/ m \in members \/ <<u, m[1]>> \in swept'
                             \/ \E x \in cmd'[u].todo :
                                   x.kind = "add_group_member" /\ x.of = m
    BY <1>1 DEF ApplyCovers, Own
  <2>1. CASE u # t
    <3>1. cmd'[u] = cmd[u]
      BY <1>1, <2>1
    <3>. QED  BY <1>3, <2>1, <3>1 DEF AppliedInv, ApplyCovers
  <2>2. CASE u = t
    <3>1. cmd'[t].todo = ApplyPlan(SpecOf[t], r.seen)
      BY <1>2, <2>2
    <3>2. PICK read : r.seen = Reading(read)
      BY ReadingsType
    <3>3. r.seen.things \subseteq things
      BY <3>2, ReadingShows
    <3>4. \A m \in SpecOf[t].members : m \in r.seen.members => m \in members
      BY <1>1, <3>2, ReadingTells
    <3>. QED  BY <2>2, <3>1, <3>3, <3>4, ApplyPlanCovers
  <2>. QED  BY <2>1, <2>2
<1>. QED  BY <1>4, <1>5, <1>6

LEMMA AppliedCall ==
  ASSUME Distinct, AppliedInv, NEW u \in Tenants, NEW x \in cmd[u].todo, Call(u, x)
  PROVE  ApplyCovers' /\ AppliedIsThere' /\ UsersAreInTheirOrgs'
<1>1. IInv /\ Commands /\ TypeOK /\ \A t \in Tenants : CommandIsWished(t)
  BY DEF AppliedInv, IInv, Commands
<1>2. /\ \/ Goes(u, x) /\ (Continues(u, x) \/ Ends(u))
         \/ UNCHANGED <<things, marked, belongs, members, made, swept, stripped, late>> /\ Ends(u)
      /\ UNCHANGED <<wish, named, done>>
  BY <1>1, CallCases
<1>3. ApplyCovers'
  <2>. SUFFICES ASSUME NEW t \in Tenants, cmd'[t].kind = "apply"
                PROVE  /\ \A y \in Own(t) :
                             \/ y \in things' \/ <<t, y>> \in swept'
                             \/ \E z \in cmd'[t].todo :
                                   z.kind # "add_group_member" /\ z.of = y
                       /\ \A m \in SpecOf[t].members :
                             \/ m \in members' \/ <<t, m[1]>> \in swept'
                             \/ \E z \in cmd'[t].todo :
                                   z.kind = "add_group_member" /\ z.of = m
    BY DEF ApplyCovers, Own
  <2>1. cmd[t].kind = "apply"
    BY <1>1, <1>2, FewerCalls
  <2>2. /\ \A y \in Own(t) : y \in things \/ <<t, y>> \in swept =>
              y \in things' \/ <<t, y>> \in swept'
        /\ \A m \in SpecOf[t].members : m \in members \/ <<t, m[1]>> \in swept =>
              m \in members' \/ <<t, m[1]>> \in swept'
    <3>1. t # u \/ cmd[u].kind = "apply"
      BY <2>1
    <3>. QED  BY <1>1, <3>1, OwnStays
  <2>3. /\ \A y \in Own(t) : \/ y \in things \/ <<t, y>> \in swept
                            \/ \E z \in cmd[t].todo :
                                  z.kind # "add_group_member" /\ z.of = y
        /\ \A m \in SpecOf[t].members : \/ m \in members \/ <<t, m[1]>> \in swept
                                       \/ \E z \in cmd[t].todo :
                                             z.kind = "add_group_member" /\ z.of = m
    BY <2>1 DEF AppliedInv, ApplyCovers
  <2>4. CASE t # u
    <3>1. cmd'[t] = cmd[t]
      BY <1>1, <1>2, <2>4, FewerCalls
    <3>. QED  BY <2>2, <2>3, <3>1
  <2>5. CASE t = u
    <3>1. cmd'[t].todo = cmd[t].todo \ {x}
      BY <1>1, <1>2, <2>5, FewerCalls
    <3>2. Goes(u, x)
      <4>1. ASSUME Ends(u)
            PROVE  cmd'[u].kind = "idle"
        <5>1. cmd'[u] = Idle
          BY <1>1, <4>1 DEF Ends, TypeOK
        <5>. QED  BY <5>1 DEF Idle
      <4>2. ~Ends(u)
        BY <2>5, <4>1
      <4>. QED  BY <1>2, <4>2
    <3>3. x.kind # "add_group_member" => x.of \in things'
      BY <2>1, <2>5, <3>2 DEF Goes, Adds
    <3>4. x.kind = "add_group_member" => x.of \in members'
      BY <2>1, <2>5, <3>2 DEF Goes, Joins
    <3>. QED  BY <2>2, <2>3, <3>1, <3>3, <3>4
  <2>. QED  BY <2>4, <2>5
<1>4. AppliedIsThere'
  <2>. SUFFICES ASSUME NEW t \in Tenants, done[t], wish[t] = "up"
                PROVE  /\ \A y \in Own(t) : y \in things' \/ <<t, y>> \in swept'
                       /\ \A m \in SpecOf[t].members :
                             m \in members' \/ <<t, m[1]>> \in swept'
    BY <1>2 DEF AppliedIsThere, Own
  <2>1. cmd[t].todo = {}
    BY <1>1 DEF CommandIsWished
  <2>2. t # u
    BY <2>1
  <2>. QED  BY <1>1, <2>2, OwnStays DEF AppliedInv, AppliedIsThere
<1>5. UsersAreInTheirOrgs'
  <2>. SUFFICES ASSUME NEW p \in made', p[2] \in Users
                PROVE  p[2] \in stripped' \/ {p[2]} \X SpecOf[p[1]].users[p[2]] \subseteq belongs'
    BY DEF UsersAreInTheirOrgs
  <2>1. CASE Adds(u, x.of)
    <3>1. CASE p \in made
      BY <2>1, <3>1 DEF AppliedInv, UsersAreInTheirOrgs, Adds
    <3>2. CASE p = <<u, x.of>>
      BY <2>1, <3>2 DEF Adds
    <3>. QED  BY <2>1, <3>1, <3>2 DEF Adds
  <2>2. CASE Takes(u, x.of)
    <3>1. p \in made /\ p[2] # x.of
      BY <1>1, <2>2 DEF Takes, TypeOK, Inside
    <3>2. p[2] \in stripped => p[2] \in stripped'
      BY <2>2, <3>1 DEF Takes
    <3>3. CASE <<p[2], x.of>> \in belongs
      BY <2>2, <3>1, <3>3 DEF Takes
    <3>4. CASE <<p[2], x.of>> \notin belongs
      <4>1. \A o : <<p[2], o>> \in belongs => <<p[2], o>> \in belongs'
        BY <2>2, <3>1, <3>4 DEF Takes
      <4>2. p[2] \in stripped \/ {p[2]} \X SpecOf[p[1]].users[p[2]] \subseteq belongs
        BY <3>1 DEF AppliedInv, UsersAreInTheirOrgs
      <4>. QED  BY <3>2, <4>1, <4>2
    <3>. QED  BY <3>3, <3>4
  <2>3. CASE UNCHANGED <<belongs, made, stripped>>
    BY <2>3 DEF AppliedInv, UsersAreInTheirOrgs
  <2>. QED  BY <1>2, <2>1, <2>2, <2>3 DEF Goes, Joins
<1>. QED  BY <1>3, <1>4, <1>5

LEMMA AppliedFinish ==
  ASSUME AppliedInv, NEW t \in Tenants, Finish(t)
  PROVE  ApplyCovers' /\ AppliedIsThere' /\ UsersAreInTheirOrgs'
<1>1. /\ Commands /\ CommandIsWished(t) /\ TypeOK
      /\ UNCHANGED <<things, belongs, members, wish, made, swept, stripped>>
      /\ cmd[t].kind # "idle" /\ cmd[t].todo = {} /\ cmd'[t] = Idle
      /\ \A u \in Tenants \ {t} : cmd'[u] = cmd[u] /\ done'[u] = done[u]
  BY FinishAfter DEF AppliedInv, IInv, Commands
<1>2. ApplyCovers' /\ UsersAreInTheirOrgs'
  BY <1>1 DEF AppliedInv, ApplyCovers, UsersAreInTheirOrgs, Own, Idle
<1>3. AppliedIsThere'
  <2>. SUFFICES ASSUME NEW u \in Tenants, done'[u], wish[u] = "up"
                PROVE  /\ \A y \in Own(u) : y \in things \/ <<u, y>> \in swept
                       /\ \A m \in SpecOf[u].members : m \in members \/ <<u, m[1]>> \in swept
    BY <1>1 DEF AppliedIsThere, Own
  <2>1. CASE u # t
    BY <1>1, <2>1 DEF AppliedInv, AppliedIsThere
  <2>2. CASE u = t
    <3>1. cmd[t].kind = "apply"
      BY <1>1, <2>2 DEF CommandIsWished, TypeOK
    <3>. QED  BY <1>1, <2>2, <3>1 DEF AppliedInv, ApplyCovers
  <2>. QED  BY <2>1, <2>2
<1>. QED  BY <1>2, <1>3

LEMMA AppliedStep ==
  ASSUME Distinct, OneGroupPerName, RowsNameOrgs, AppliedInv, [Next]_vars
  PROVE  AppliedInv'
<1>1. IInv'
  BY InvStep DEF AppliedInv
<1>. SUFFICES ApplyCovers' /\ AppliedIsThere' /\ UsersAreInTheirOrgs'
  BY <1>1 DEF AppliedInv
<1>2. CASE UNCHANGED vars
  BY <1>2 DEF AppliedInv, ApplyCovers, AppliedIsThere, UsersAreInTheirOrgs, Own, vars
<1>3. ASSUME NEW t \in Tenants, NEW w \in {"up", "down"},
             NEW orgs \in SUBSET (SpecOf[t].orgs \cup {Primary}), ChangeWish(t, w, orgs)
      PROVE  ApplyCovers' /\ AppliedIsThere' /\ UsersAreInTheirOrgs'
  <2>1. /\ TypeOK /\ UNCHANGED <<things, belongs, members, cmd, made, swept, stripped>>
        /\ wish' = [wish EXCEPT ![t] = w] /\ done' = [done EXCEPT ![t] = FALSE]
    BY <1>3 DEF AppliedInv, IInv, Commands, ChangeWish, cluster, ghosts
  <2>2. \A u \in Tenants : done'[u] => u # t /\ done[u] /\ wish'[u] = wish[u]
    BY <2>1 DEF TypeOK
  <2>3. AppliedIsThere'
    BY <2>1, <2>2 DEF AppliedInv, AppliedIsThere, Own
  <2>. QED  BY <2>1, <2>3 DEF AppliedInv, ApplyCovers, UsersAreInTheirOrgs, Own
<1>4. ASSUME NEW x \in Others, OthersCreate(x)
      PROVE  ApplyCovers' /\ AppliedIsThere' /\ UsersAreInTheirOrgs'
  <2>1. /\ things \subseteq things' /\ belongs \subseteq belongs'
        /\ UNCHANGED <<members, wish, done, cmd, made, swept, stripped>>
    BY <1>4 DEF OthersCreate
  <2>2. ApplyCovers' /\ AppliedIsThere'
    BY <2>1 DEF AppliedInv, ApplyCovers, AppliedIsThere, Own
  <2>3. UsersAreInTheirOrgs'
    BY <2>1 DEF AppliedInv, UsersAreInTheirOrgs
  <2>. QED  BY <2>2, <2>3
<1>5. ASSUME NEW t \in Tenants, Operate(t)
      PROVE  ApplyCovers' /\ AppliedIsThere' /\ UsersAreInTheirOrgs'
  BY <1>5, AppliedStart, AppliedCall, AppliedFinish DEF Operate
<1>. QED  BY <1>2, <1>3, <1>4, <1>5 DEF Next

\* What an apply has reported is there, users in their Orgs included, and stays there
\* through every command of every other tenant, but for the common groups that one of
\* them sweeps, as long as it is wished.
THEOREM AppliedMeansCompleteAlways ==
  ASSUME Distinct, OneGroupPerName, RowsNameOrgs
  PROVE  Spec => []AppliedMeansComplete
<1>1. AppliedInv /\ [Next]_vars => AppliedInv'
  BY AppliedStep
<1>2. ASSUME AppliedInv, NEW t \in Tenants, done[t], wish[t] = "up"
      PROVE  Holds(t)
  <2>. DEFINE lost == {g \in SpecOf[t].groups : <<t, g>> \in swept}
  <2>1. /\ \A y \in Own(t) : y \in things \/ <<t, y>> \in swept
        /\ \A m \in SpecOf[t].members : m \in members \/ <<t, m[1]>> \in swept
    BY <1>2 DEF AppliedInv, AppliedIsThere
  <2>2. \A y : <<t, y>> \in swept => y \in Groups
    BY <1>2 DEF AppliedInv, IInv, Commands, TypeOK
  <2>3. SpecOf[t].orgs \cup (SpecOf[t].groups \ lost) \cup DOMAIN SpecOf[t].users \subseteq things
    BY <2>1, <2>2, SpecType, ThreeKinds DEF Own
  <2>4. {m \in SpecOf[t].members : m[1] \notin lost} \subseteq members
    BY <2>1, SpecType
  <2>5. ASSUME NEW n \in DOMAIN SpecOf[t].users, n \in marked \ stripped
        PROVE  {n} \X SpecOf[t].users[n] \subseteq belongs
    <3>1. <<t, n>> \in made
      BY <1>2, <2>5, MarkedIsMade DEF AppliedInv, IInv, Private
    <3>2. n \in Users
      BY <2>5, SpecType
    <3>. QED  BY <1>2, <2>5, <3>1, <3>2 DEF AppliedInv, UsersAreInTheirOrgs
  <2>. QED  BY <2>3, <2>4, <2>5 DEF Holds
<1>3. AppliedInv => AppliedMeansComplete
  BY <1>2 DEF AppliedMeansComplete
<1>. QED  BY AppliedInit, <1>1, <1>3, PTL DEF Spec

-----------------------------------------------------------------------------
(* What is torn down is gone.                                              *)

NothingIsLeft ==
    \A t \in Tenants : done[t] /\ wish[t] = "down" =>
        \A y \in Things : <<t, y>> \in made => ~InReach(t, y)

TornDownInv == IInv /\ MadeUsersInPrimary /\ TeardownCovers /\ NothingIsLeft

LEMMA TornDownInit == Init => TornDownInv
BY InvInit DEF Init, Idle, TornDownInv, MadeUsersInPrimary, TeardownCovers, NothingIsLeft

\* A teardown that could read every Org finds, in the Orgs that are named, all that its
\* tenant's applies made.
LEMMA TeardownPlanCovers ==
  ASSUME TornDownInv, NEW t \in Tenants, NEW read,
         read = (SpecOf[t].orgs \cup {Primary}) \cap things,
         NEW y \in Things, <<t, y>> \in made, InReach(t, y)
  PROVE  \E x \in TeardownPlan(SpecOf[t], Reading(read), named[t]) : x.of = y
<1>. DEFINE seen == Reading(read)
            plan == TeardownPlan(SpecOf[t], seen, named[t])
<1>1. /\ TypeOK
      /\ y \in marked /\ y \in Own(t) /\ y \in things /\ Primary \in read
  BY DEF TornDownInv, IInv, Commands, MarkerTells, TypeOK
<1>2. /\ y \in AllOrgs => y \in seen.marked
      /\ y \in Groups /\ y[1] \in read => y \in seen.marked
      /\ y \in Users /\ (\E o \in read : <<y, o>> \in belongs) => y \in seen.marked
  BY <1>1, ThreeKinds DEF Reading, Listed, TakenFor
<1>3. CASE y \in named[t]
  <2>1. y \in SpecOf[t].orgs /\ y \in seen.marked
    BY <1>1, <1>2, <1>3, SpecType, ThreeKinds DEF Own, TypeOK
  <2>2. [kind |-> "delete_org", of |-> y] \in plan
    <3>. HIDE DEF seen
    <3>. QED  BY <1>3, <2>1 DEF TeardownPlan, Steps, NamedOrg
  <2>. QED  BY <2>2
<1>4. CASE y \in Groups /\ y[1] \in named[t]
  <2>1. y \in SpecOf[t].groups /\ y[1] \in things
    BY <1>1, <1>4, SpecType, ThreeKinds DEF Own, TornDownInv, IInv, GroupsAreInOrgs
  <2>2. y \in seen.marked
    <3>1. y[1] \in SpecOf[t].orgs \cup {Primary}
      BY <2>1, SpecType
    <3>. QED  BY <1>2, <1>4, <2>1, <3>1
  <2>3. [kind |-> "delete_group", of |-> y] \in plan
    <3>. HIDE DEF seen
    <3>. QED  BY <1>4, <2>1, <2>2 DEF TeardownPlan, Steps, NamedOrg
  <2>. QED  BY <2>3
<1>5. CASE y \in Users /\ SpecOf[t].users[y] \ {Primary} \subseteq named[t]
  <2>1. y \in DOMAIN SpecOf[t].users
    BY <1>1, <1>5, SpecType, ThreeKinds DEF Own
  <2>2. y \in seen.marked
    <3>1. <<y, Primary>> \in belongs
      BY <1>5 DEF TornDownInv, MadeUsersInPrimary
    <3>. QED  BY <1>1, <1>2, <1>5, <3>1
  <2>3. InScope(SpecOf[t], y, named[t])
    BY <1>5, <2>1, SpecType DEF InScope
  <2>4. [kind |-> "delete_user", of |-> y] \in plan
    <3>. HIDE DEF seen
    <3>. QED  BY <2>1, <2>2, <2>3 DEF TeardownPlan, Steps
  <2>. QED  BY <2>4
<1>. QED  BY <1>3, <1>4, <1>5 DEF InReach

LEMMA TornDownStart ==
  ASSUME TornDownInv, NEW t \in Tenants, Start(t)
  PROVE  MadeUsersInPrimary' /\ TeardownCovers' /\ NothingIsLeft'
<1>1. /\ Commands /\ TypeOK /\ UNCHANGED <<things, belongs, made, wish, named, done>>
      /\ \A u \in Tenants \ {t} : cmd'[u] = cmd[u]
  BY StartAfter DEF TornDownInv, IInv, Commands
<1>2. PICK r \in Readings(SpecOf[t]) :
         /\ cmd'[t].quiet = r.quiet
         /\ \/ cmd'[t].kind = "apply"
            \/ /\ cmd'[t].kind = "teardown"
               /\ cmd'[t].todo = TeardownPlan(SpecOf[t], r.seen, named[t])
  BY <1>1, StartAfter
<1>3. MadeUsersInPrimary' /\ NothingIsLeft'
  BY <1>1 DEF TornDownInv, MadeUsersInPrimary, NothingIsLeft, InReach
<1>4. TeardownCovers'
  <2>. SUFFICES ASSUME NEW u \in Tenants, cmd'[u].kind = "teardown", cmd'[u].quiet,
                       NEW y \in Things, <<u, y>> \in made, InReach(u, y)
                PROVE  \E x \in cmd'[u].todo : x.of = y
    BY <1>1 DEF TeardownCovers, InReach
  <2>1. CASE u # t
    <3>1. cmd'[u] = cmd[u]
      BY <1>1, <2>1
    <3>. QED  BY <3>1 DEF TornDownInv, TeardownCovers
  <2>2. CASE u = t
    <3>1. cmd'[t].todo = TeardownPlan(SpecOf[t], r.seen, named[t]) /\ r.quiet
      BY <1>2, <2>2
    <3>2. PICK read : /\ r.seen = Reading(read)
                      /\ read = (SpecOf[t].orgs \cup {Primary}) \cap things
      BY <3>1, ReadingsType
    <3>. QED  BY <2>2, <3>1, <3>2, TeardownPlanCovers
  <2>. QED  BY <2>1, <2>2
<1>. QED  BY <1>3, <1>4

LEMMA TornDownCall ==
  ASSUME UsersAreInPrimary, TornDownInv, NEW u \in Tenants, NEW x \in cmd[u].todo, Call(u, x)
  PROVE  MadeUsersInPrimary' /\ TeardownCovers' /\ NothingIsLeft'
<1>1. Commands /\ TypeOK /\ \A t \in Tenants : CommandIsWished(t)
  BY DEF TornDownInv, IInv, Commands
<1>2. /\ \/ Goes(u, x) /\ (Continues(u, x) \/ Ends(u))
         \/ UNCHANGED <<things, marked, belongs, members, made, swept, stripped, late>> /\ Ends(u)
      /\ UNCHANGED <<wish, named, done>>
  BY <1>1, CallCases
<1>3. MadeUsersInPrimary'
  <2>1. CASE Adds(u, x.of)
    <3>1. x.of \in Users => x.of \in DOMAIN SpecOf[u].users
      BY <2>1, SpecType, ThreeKinds DEF Adds, Own
    <3>2. x.of \in Users => <<x.of, Primary>> \in belongs'
      BY <2>1, <3>1 DEF Adds, UsersAreInPrimary
    <3>3. belongs \subseteq belongs' /\ made' = made \cup {<<u, x.of>>}
      BY <2>1 DEF Adds
    <3>. QED  BY <3>2, <3>3 DEF TornDownInv, MadeUsersInPrimary
  <2>2. CASE Takes(u, x.of)
    <3>. SUFFICES ASSUME NEW p \in made', p[2] \in Users
                  PROVE  <<p[2], Primary>> \in belongs'
      BY DEF MadeUsersInPrimary
    <3>1. p \in made /\ p[2] \notin Inside(x.of) /\ p[2] \in things
      BY <1>1, <2>2 DEF Takes, TypeOK
    <3>2. p[2] # x.of /\ x.of # Primary
      BY <2>2, <3>1, OwnType DEF Inside, Takes
    <3>3. <<p[2], Primary>> \in belongs
      BY <3>1 DEF TornDownInv, MadeUsersInPrimary
    <3>. QED  BY <2>2, <3>2, <3>3 DEF Takes
  <2>3. CASE UNCHANGED <<belongs, made>>
    BY <2>3 DEF TornDownInv, MadeUsersInPrimary
  <2>. QED  BY <1>2, <2>1, <2>2, <2>3 DEF Goes, Joins
<1>4. \A t \in Tenants : \A y : <<t, y>> \in made' =>
         <<t, y>> \in made \/ (t = u /\ cmd[u].kind = "apply")
  BY <1>2 DEF Goes, Adds, Joins, Takes
<1>5. TeardownCovers'
  <2>. SUFFICES ASSUME NEW t \in Tenants, cmd'[t].kind = "teardown", cmd'[t].quiet,
                       NEW y \in Things, <<t, y>> \in made', InReach(t, y)
                PROVE  \E z \in cmd'[t].todo : z.of = y
    BY <1>2 DEF TeardownCovers, InReach
  <2>1. cmd[t].kind = "teardown" /\ cmd[t].quiet
    BY <1>1, <1>2, FewerCalls
  <2>2. <<t, y>> \in made
    BY <1>4, <2>1
  <2>3. PICK z \in cmd[t].todo : z.of = y
    BY <2>1, <2>2 DEF TornDownInv, TeardownCovers
  <2>4. CASE t # u
    BY <1>1, <1>2, <2>3, <2>4, FewerCalls
  <2>5. CASE t = u
    <3>1. cmd'[t].todo = cmd[t].todo \ {x} /\ ~Ends(u)
      <4>1. cmd'[t].todo = cmd[t].todo \ {x}
        BY <1>1, <1>2, <2>1, <2>5, FewerCalls
      <4>2. ASSUME Ends(u)
            PROVE  cmd'[u].kind = "idle"
        <5>1. cmd'[u] = Idle
          BY <1>1, <4>2 DEF Ends, TypeOK
        <5>. QED  BY <5>1 DEF Idle
      <4>. QED  BY <2>5, <4>1, <4>2
    <3>2. Takes(u, x.of)
      BY <1>2, <2>1, <2>5, <3>1 DEF Goes
    <3>3. y \in things
      BY <1>1, <2>2 DEF TypeOK
    <3>4. y # x.of
      BY <3>2, <3>3 DEF Takes, Inside
    <3>. QED  BY <2>3, <3>1, <3>4
  <2>. QED  BY <2>4, <2>5
<1>6. NothingIsLeft'
  <2>. SUFFICES ASSUME NEW t \in Tenants, done[t], wish[t] = "down",
                       NEW y \in Things, <<t, y>> \in made', InReach(t, y)
                PROVE  FALSE
    BY <1>2 DEF NothingIsLeft, InReach
  <2>1. cmd[t].kind = "idle"
    BY <1>1 DEF CommandIsWished
  <2>2. <<t, y>> \in made
    BY <1>4, <2>1
  <2>. QED  BY <2>2 DEF TornDownInv, NothingIsLeft
<1>. QED  BY <1>3, <1>5, <1>6

LEMMA TornDownFinish ==
  ASSUME TornDownInv, NEW t \in Tenants, Finish(t)
  PROVE  MadeUsersInPrimary' /\ TeardownCovers' /\ NothingIsLeft'
<1>1. /\ Commands /\ CommandIsWished(t) /\ TypeOK
      /\ UNCHANGED <<belongs, made, wish, named>>
      /\ cmd[t].kind # "idle" /\ cmd[t].todo = {} /\ cmd'[t] = Idle /\ done'[t] = cmd[t].quiet
      /\ \A u \in Tenants \ {t} : cmd'[u] = cmd[u] /\ done'[u] = done[u]
  BY FinishAfter DEF TornDownInv, IInv, Commands
<1>2. MadeUsersInPrimary' /\ TeardownCovers'
  BY <1>1 DEF TornDownInv, MadeUsersInPrimary, TeardownCovers, InReach, Idle
<1>3. NothingIsLeft'
  <2>. SUFFICES ASSUME NEW u \in Tenants, done'[u], wish[u] = "down",
                       NEW y \in Things, <<u, y>> \in made, InReach(u, y)
                PROVE  FALSE
    BY <1>1 DEF NothingIsLeft, InReach
  <2>1. CASE u # t
    BY <1>1, <2>1 DEF TornDownInv, NothingIsLeft
  <2>2. CASE u = t
    <3>1. cmd[t].kind = "teardown" /\ cmd[t].quiet
      BY <1>1, <2>2 DEF CommandIsWished, TypeOK
    <3>. QED  BY <1>1, <2>2, <3>1 DEF TornDownInv, TeardownCovers
  <2>. QED  BY <2>1, <2>2
<1>. QED  BY <1>2, <1>3

LEMMA TornDownStep ==
  ASSUME Distinct, UsersAreInPrimary, TornDownInv, [Next]_vars
  PROVE  TornDownInv'
<1>1. IInv'
  BY InvStep DEF TornDownInv
<1>. SUFFICES MadeUsersInPrimary' /\ TeardownCovers' /\ NothingIsLeft'
  BY <1>1 DEF TornDownInv
<1>2. CASE UNCHANGED vars
  BY <1>2 DEF TornDownInv, MadeUsersInPrimary, TeardownCovers, NothingIsLeft, InReach, vars
<1>3. ASSUME NEW t \in Tenants, NEW w \in {"up", "down"},
         NEW orgs \in SUBSET (SpecOf[t].orgs \cup {Primary}), ChangeWish(t, w, orgs)
      PROVE  MadeUsersInPrimary' /\ TeardownCovers' /\ NothingIsLeft'
  <2>1. /\ TypeOK /\ UNCHANGED <<belongs, made, cmd>> /\ cmd[t].kind = "idle"
        /\ wish' = [wish EXCEPT ![t] = w] /\ named' = [named EXCEPT ![t] = orgs]
        /\ done' = [done EXCEPT ![t] = FALSE]
    BY <1>3 DEF TornDownInv, IInv, Commands, ChangeWish, cluster, ghosts
  <2>2. \A u \in Tenants : /\ done'[u] => u # t /\ done[u]
                           /\ u # t => wish'[u] = wish[u] /\ named'[u] = named[u]
    BY <2>1 DEF TypeOK
  <2>3. TeardownCovers'
    BY <2>1, <2>2 DEF TornDownInv, TeardownCovers, InReach
  <2>4. NothingIsLeft'
    BY <2>1, <2>2 DEF TornDownInv, NothingIsLeft, InReach
  <2>. QED  BY <2>1, <2>3, <2>4 DEF TornDownInv, MadeUsersInPrimary
<1>4. ASSUME NEW x \in Others, OthersCreate(x)
      PROVE  MadeUsersInPrimary' /\ TeardownCovers' /\ NothingIsLeft'
  <2>1. belongs \subseteq belongs' /\ UNCHANGED <<made, cmd, wish, named, done>>
    BY <1>4 DEF OthersCreate
  <2>. QED  BY <2>1 DEF TornDownInv, MadeUsersInPrimary, TeardownCovers, NothingIsLeft, InReach
<1>5. ASSUME NEW t \in Tenants, Operate(t)
      PROVE  MadeUsersInPrimary' /\ TeardownCovers' /\ NothingIsLeft'
  BY <1>5, TornDownStart, TornDownCall, TornDownFinish DEF Operate
<1>. QED  BY <1>2, <1>3, <1>4, <1>5 DEF Next

\* What a teardown has reported as gone is gone, however often applies and teardowns
\* stopped before, as long as nobody applies it again.
THEOREM TornDownMeansGoneAlways ==
  ASSUME Distinct, UsersAreInPrimary
  PROVE  Spec => []TornDownMeansGone
<1>1. TornDownInv /\ [Next]_vars => TornDownInv'
  BY TornDownStep
<1>2. TornDownInv => TornDownMeansGone
  <2>1. ASSUME TypeOK, NothingIsLeft, NEW t \in Tenants, done[t], wish[t] = "down",
               NEW p \in made, p[1] = t
        PROVE  ~InReach(t, p[2])
    <3>1. p[2] \in Things /\ p = <<t, p[2]>>
      BY <2>1 DEF TypeOK
    <3>. QED  BY <2>1, <3>1 DEF NothingIsLeft
  <2>. QED  BY <2>1 DEF TornDownInv, IInv, Commands, TornDownMeansGone, InReach
<1>. QED  BY TornDownInit, <1>1, <1>2, PTL DEF Spec
====
