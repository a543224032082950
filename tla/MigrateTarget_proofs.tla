------------------------- MODULE MigrateTarget_proofs -------------------------
(***************************************************************************)
(* What a migration to another Org leaves in it: nothing that a finished   *)
(* rollback should have deleted, no copy bound to the wrong View, no grant *)
(* to the wrong group, and all of the tenant's content once apply says so; *)
(* and that MigrateApply implements MigrationPromise.                      *)
(***************************************************************************)
EXTENDS MigrateApply_proofs

USE MigrateAssumption

Early == Objects \ LateObjects

\* Views that some content reads from the start: rewrite_views copies them, and
\* rewrite_content every other View (_classify_scope).  A View that is only read by
\* content without a document passes for content, and so does that content itself.
ReadEarly == UNION {Uses[k] : k \in Content \ LateObjects}
SurelyRead == UNION {Uses[k] : k \in Content \ (LateObjects \cup MayBeBlank)}
Shields == Content \ OnModel
Mains == OnModel \cup (Views \ SurelyRead) \cup (blank \cap Content)
Others == Content \cup (Views \ SurelyRead)

\* What no run has overlooked, class by class
SeenViews == ReadEarly \ Overlooked
SeenMains == OnModel \cup (Views \ (ReadEarly \cup Overlooked))
SeenShields == Shields \ blank
SeenContent == OnModel \cup SeenShields

\* The hypotheses of the theorems.  State.json and the grants are keyed by name;
OwnNames(os) == \A o, p \in os : NameOf[o] = NameOf[p] => o = p
\* and a step that is complete is not done again for a View that came later.
LateReads == \A k \in Content : Uses[k] \subseteq ReadEarly

-----------------------------------------------------------------------------
(* The inductive invariants, for a migration to another Org                *)

\* What the plan holds: at least everything that was there from the start.
Scoped ==
    /\ \A o \in Objects : bound[o] = "source"
    /\ InPlan \subseteq exists
    /\ plan.content \subseteq Mains
    /\ \A k \in plan.content \cap Content : k \in blank \/ Uses[k] \subseteq plan.refs
    /\ Applying \/ report = "migrated" => Early \subseteq InPlan
    /\ report # "none" => pc = "idle"

\* Dictionaries list copies under the name of their object.
KeyedBy(d, os) == \A n \in DOMAIN d : d[n][1] \in os /\ NameOf[d[n][1]] = n
Keyed(l) == KeyedBy(l.views, Views) /\ KeyedBy(l.content, Mains) /\ KeyedBy(l.shielded, Shields)

Tracked ==
    /\ \A g \in copies : g[2] \in 1..imports /\ (IsView(g) => uses[g] = {})
    /\ \A x \in grants : x[1] \in copies
    /\ Keyed(mem) /\ Keyed(disk)
    /\ pc = "save" => /\ Pending(2) => KeyedBy(made, Views)
                      /\ Pending(3) => KeyedBy(made, Mains)
                      /\ Pending(4) => KeyedBy(made, Shields)
    /\ pc = "share" => Pending(5)
    /\ pc \in Deleting => mem.undone /\ disk = mem

\* A rollback that has collected no failure knows what is left to delete, content
\* apart that may be recorded twice.
Left(l) == {g \in Recorded(l) \cap copies : g[1] \notin blank \cap Content}
Withdrawing ==
    /\ pc = "delete_content" /\ ~failed => Left(mem) \subseteq found
    /\ pc = "delete_views" /\ ~failed => Left(mem) \subseteq found \cap Range(mem.views)
    /\ pc = "deleted" /\ ~failed => Left(mem) = {}
    /\ report = "rolled_back" => Left(disk) = {}

Sharing ==
    /\ NoForeignGrant
    /\ pc = "share" =>
         \A n \in DOMAIN wanted : \E o \in Others : NameOf[o] = n /\ wanted[n] = GrantsOf[o]

\* A ledger that no rollback has used lists living copies of Views, and once
\* rewrite_views is complete of all that no run has overlooked: what content imported
\* later is bound to.
Living(d) == \A n \in DOMAIN d : d[n] \in copies /\ d[n][1] \in ReadEarly
Listed(os, d) == \A o \in os : NameOf[o] \in DOMAIN d
ViewsCopied(l) ==
    /\ Living(l.views)
    /\ "rewrite_views" \in l.completed => Listed(SeenViews, l.views)
Binding ==
    /\ NoStrandedCopy
    /\ \A l \in {mem, disk} : ~l.undone => ViewsCopied(l)
    /\ Applying \/ report = "migrated" =>
         SeenViews \subseteq plan.views /\ plan.views \subseteq ReadEarly
    /\ Applying => ~mem.undone
    /\ pc = "save" /\ Pending(2) => Living(made) /\ Listed(SeenViews, made)

\* Likewise of its content: the copies in the ledger are bound to the Views in the
\* ledger, and share_grants, once complete, has reached them.
Copied(os, d) == \A o \in os : /\ NameOf[o] \in DOMAIN d
                               /\ d[NameOf[o]] \in copies
                               /\ d[NameOf[o]][1] = o
Brought(d, vs, os) ==
    /\ Copied(os, d)
    /\ \A o \in os \cap Content : Uses[o] \cap Overlooked = {} =>
          uses[d[NameOf[o]]] = {vs[NameOf[v]] : v \in Uses[o]}
CopyIn(l, o) == IF o \in Shields THEN l.shielded[NameOf[o]] ELSE l.content[NameOf[o]]
Granted(l) ==
    \A o \in Early \cap SeenContent :
        o \notin unread /\ Uses[o] \cap Overlooked = {} =>
            \A grp \in GrantsOf[o] : <<CopyIn(l, o), grp>> \in grants
Accomplished(l) ==
    /\ "rewrite_content" \in l.completed => Brought(l.content, l.views, Early \cap SeenMains)
    /\ "move_shielded" \in l.completed => Brought(l.shielded, l.views, Early \cap SeenShields)
    /\ "share_grants" \in l.completed => Granted(l)

\* The stack has what is about to be granted: every group of an object that can be
\* reached has the Model, and every group that has the Model the Views.
StackGranted ==
    /\ \A o \in Early \cap Content : o \in unread \/ GrantsOf[o] \subseteq modelGroups
    /\ \A grp \in (UNION Range(wanted)) \cap modelGroups :
          \A v \in SeenViews : <<mem.views[NameOf[v]], grp>> \in grants

Completing ==
    /\ CompleteMeansMigrated
    /\ \A l \in {mem, disk} : ~l.undone => Accomplished(l)
    /\ pc = "save" => /\ Pending(3) => Brought(made, mem.views, Early \cap SeenMains)
                      /\ Pending(4) => Brought(made, mem.views, Early \cap SeenShields)
                      /\ Pending(5) => Granted(mem)
    /\ pc = "share" =>
         /\ \A o \in Early \cap Content : o \in unread \/ GrantsOf[o] = {} \/
               (NameOf[o] \in DOMAIN wanted /\ wanted[NameOf[o]] = GrantsOf[o])
         /\ ~failed => StackGranted

-----------------------------------------------------------------------------
(* The classes of objects, and dictionaries of them                        *)

LEMMA Classes ==
  /\ Early \subseteq Objects /\ ReadEarly \subseteq Views /\ SurelyRead \subseteq ReadEarly
  /\ Mains \subseteq Others /\ Shields \subseteq Others /\ Others \subseteq Objects
  /\ Mains \cap Shields \subseteq blank \cap Content /\ Shields \subseteq Content
  /\ SeenViews \subseteq ReadEarly /\ SeenMains \subseteq Others /\ SeenShields \subseteq Shields
  /\ SeenContent \subseteq Content /\ OnModel \subseteq SeenMains /\ Content \subseteq Others
  /\ SeenViews \cup SeenMains \cup SeenShields = Objects \ (Overlooked \ OnModel)
  /\ \A k \in Content \ LateObjects : Uses[k] \subseteq ReadEarly
<1>1. ReadEarly \subseteq Views /\ SurelyRead \subseteq ReadEarly
  BY DEF ReadEarly, SurelyRead
<1>2. \A k \in Content \ LateObjects : Uses[k] \subseteq ReadEarly
  BY DEF ReadEarly
<1>3. \A k \in Content : Uses[k] \subseteq Views
  OBVIOUS
<1>4. /\ Early \subseteq Objects /\ Shields \subseteq Content /\ Views \cap Content = {}
      /\ Others \subseteq Objects /\ OnModel \subseteq Content /\ Objects = Views \cup Content
  BY DEF Early, Shields, Others, Objects
<1>5. /\ Mains \subseteq Others /\ Shields \subseteq Others
      /\ Mains \cap Shields \subseteq blank \cap Content
      /\ SeenMains \subseteq Others
  BY <1>1, <1>4 DEF Mains, Shields, Others, SeenMains
<1>6. \A k \in Content : k \in Overlooked <=> k \in blank
  BY <1>3, <1>4 DEF Overlooked
<1>7. SeenViews \cup SeenMains \cup SeenShields = Objects \ (Overlooked \ OnModel)
  BY <1>1, <1>4, <1>6 DEF SeenViews, SeenMains, SeenShields, Shields
<1>. QED
  BY <1>1, <1>2, <1>4, <1>5, <1>7 DEF SeenViews, SeenShields, SeenContent, SeenMains, Others

\* What was overlooked stays so, and what is seen only shrinks.
LEMMA Overlooking ==
  ASSUME blank \subseteq blank'
  PROVE  /\ Overlooked \subseteq Overlooked' /\ Mains \subseteq Mains'
         /\ SeenViews' \subseteq SeenViews /\ SeenMains' \subseteq SeenMains
         /\ SeenShields' \subseteq SeenShields /\ SeenContent' \subseteq SeenContent
<1>1. Overlooked \subseteq Overlooked'
  BY DEF Overlooked
<1>. QED  BY <1>1 DEF Mains, SeenViews, SeenMains, SeenShields, SeenContent, Shields, ReadEarly

LEMMA DictOf ==
  ASSUME NEW d \in Dicts, NEW n \in DOMAIN d
  PROVE  d[n] \in Guids /\ d[n] \in Range(d)
<1>1. PICK N \in SUBSET Names : d \in [N -> Guids]
  BY DEF Dicts
<1>. QED  BY <1>1 DEF Range

LEMMA EmptyKeyed == \A os : KeyedBy(Empty, os)
  BY DEF Empty, KeyedBy

LEMMA NamedKeyed ==
  ASSUME NEW os \in SUBSET Objects, NEW n \in Nat
  PROVE  /\ KeyedBy(Named(os, n), os)
         /\ \A k \in DOMAIN Named(os, n) : Named(os, n)[k] = <<Named(os, n)[k][1], n>>
<1>. DEFINE pick(name) == CHOOSE o \in os : NameOf[o] = name /\ Winner(os, o)
            N == {NameOf[o] : o \in os}
<1>1. \A name \in N : pick(name) \in os /\ NameOf[pick(name)] = name
  <2>1. ASSUME NEW name \in N PROVE pick(name) \in os /\ NameOf[pick(name)] = name
    <3>1. \E o \in os : NameOf[o] = name /\ Winner(os, o)
      BY WinnerExists
    <3>. QED  BY <3>1
  <2>. QED  BY <2>1
<1>2. Named(os, n) = [name \in N |-> <<pick(name), n>>]
  BY DEF Named
<1>. HIDE DEF pick
<1>. QED  BY <1>1, <1>2 DEF KeyedBy

\* Where names are unique no object of an import is lost from what it returns.
LEMMA NamedWhole ==
  ASSUME NEW os \in SUBSET Objects, OwnNames(os), NEW n \in Nat, NEW o \in os
  PROVE  NameOf[o] \in DOMAIN Named(os, n) /\ Named(os, n)[NameOf[o]] = <<o, n>>
<1>1. NameOf[o] \in DOMAIN Named(os, n)
  BY DEF Named
<1>2. PICK p : Named(os, n)[NameOf[o]] = <<p, n>> /\ p \in os /\ NameOf[p] = NameOf[o]
  BY <1>1, NamedKeyed DEF KeyedBy
<1>3. p = o
  BY <1>2 DEF OwnNames
<1>. QED  BY <1>1, <1>2, <1>3

LEMMA UpdatedEmpty ==
  ASSUME NEW e \in Dicts
  PROVE  Updated(Empty, e) = e
<1>1. PICK M \in SUBSET Names : e \in [M -> Guids]
  BY DEF Dicts
<1>2. DOMAIN e = M /\ e = [name \in M |-> e[name]]
  BY <1>1
<1>3. Updated(Empty, e) = [name \in M |-> e[name]]
  BY <1>2, EmptyDict DEF Updated
<1>. QED  BY <1>2, <1>3

LEMMA NamedNone == ASSUME NEW n PROVE Named({}, n) = Empty
  BY DEF Named, Empty

-----------------------------------------------------------------------------
(* The steps, said once for all invariants                                 *)

LEMMA PendingOne ==
  ASSUME NEW i \in 1..5, NEW j \in 1..5, Pending(i), Pending(j)
  PROVE  i = j
<1>1. i < j => StepOrder[i] \in mem.completed
  BY DEF Pending
<1>2. j < i => StepOrder[j] \in mem.completed
  BY DEF Pending
<1>. QED  BY <1>1, <1>2 DEF Pending

LEMMA StepNumbers ==
  /\ NextStep("backup") => Pending(1)
  /\ NextStep("rewrite_views") => Pending(2)
  /\ NextStep("rewrite_content") => Pending(3)
  /\ NextStep("move_shielded") => Pending(4)
  /\ NextStep("share_grants") => Pending(5)
<1>1. /\ StepOrder[1] = "backup" /\ StepOrder[2] = "rewrite_views"
      /\ StepOrder[3] = "rewrite_content" /\ StepOrder[4] = "move_shielded"
      /\ StepOrder[5] = "share_grants"
  BY DEF StepOrder
<1>2. \A i \in 1..5 : i = 1 \/ i = 2 \/ i = 3 \/ i = 4 \/ i = 5
  OBVIOUS
<1>. QED  BY <1>1, <1>2 DEF NextStep

LEMMA DoneBefore ==
  /\ Pending(3) => "rewrite_views" \in mem.completed
  /\ Pending(4) => {"rewrite_views", "rewrite_content"} \subseteq mem.completed
  /\ Pending(5) => {"rewrite_views", "rewrite_content", "move_shielded"} \subseteq mem.completed
<1>1. /\ StepOrder[2] = "rewrite_views" /\ StepOrder[3] = "rewrite_content"
      /\ StepOrder[4] = "move_shielded"
  BY DEF StepOrder
<1>. QED  BY <1>1 DEF Pending

\* The objects of the i-th step, and what importing them does to the target Org
StepSet(i) == CASE i = 2 -> plan.views [] i = 3 -> plan.content [] i = 4 -> plan.shielded
Importing(i, os, n, known) ==
    /\ Pending(i) /\ pc = "run" /\ pc' = "save" /\ os = StepSet(i)
    /\ blank \subseteq blank' /\ (i # 3 => blank' = blank)
    /\ i = 3 => plan.refs \ known \subseteq blank'
    /\ i = 4 => known = Views /\ \A o \in os : \A v \in Uses[o] : NameOf[v] \in DOMAIN mem.views
    /\ UNCHANGED <<source, backup, disk, mem, plan, modelGroups, grants, wanted, found,
                   failed, unread, runs, report>>
    /\ imports' = n
    /\ IF os = {} THEN n = imports ELSE n = imports + 1
    /\ copies' = copies \cup {<<o, n>> : o \in os}
    /\ \A g \in copies : uses'[g] = uses[g]
    /\ \A g \in copies' \ copies : uses'[g] = ViewRefs(g[1], known)
    /\ made' = Named(os, n)

LEMMA ImportsStep ==
  ASSUME ~SameOrg, Types, RewriteViews \/ RewriteContent \/ MoveShielded
  PROVE  \E i \in {2, 3, 4}, os \in SUBSET Objects, n \in Nat, known \in SUBSET Views :
            Importing(i, os, n, known)
<1>1. /\ plan.views \in SUBSET Objects /\ plan.content \in SUBSET Objects
      /\ plan.shielded \in SUBSET Objects /\ Moving = plan.shielded /\ imports \in Nat
  BY DEF Types, TypeOK, Objects, Moving
<1>2. \E i \in {2, 3, 4}, known \in SUBSET Views :
         /\ Pending(i) /\ pc = "run" /\ Import(StepSet(i), known)
         /\ blank \subseteq blank' /\ (i # 3 => blank' = blank)
         /\ i = 3 => plan.refs \ known \subseteq blank'
         /\ i = 4 => /\ known = Views
                     /\ \A o \in StepSet(i) : \A v \in Uses[o] : NameOf[v] \in DOMAIN mem.views
  <2>1. CASE RewriteViews
    BY <2>1, StepNumbers DEF RewriteViews, StepSet, NextStep
  <2>2. CASE RewriteContent
    <3>1. PICK missing : /\ Import(plan.content, plan.refs \ missing)
                         /\ blank' = blank \cup missing
      BY <2>2 DEF RewriteContent
    <3>2. Pending(3) /\ pc = "run" /\ StepSet(3) = plan.content
      BY <2>2, StepNumbers DEF RewriteContent, StepSet, NextStep
    <3>3. /\ Import(StepSet(3), plan.refs \ missing) /\ blank \subseteq blank'
          /\ plan.refs \ (plan.refs \ missing) \subseteq blank'
      BY <3>1, <3>2
    <3>4. plan.refs \ missing \in SUBSET Views
      BY DEF Types, TypeOK
    <3>. QED  BY <3>2, <3>3, <3>4
  <2>3. CASE MoveShielded
    <3>1. Pending(4) /\ pc = "run" /\ StepSet(4) = plan.shielded
      BY <2>3, StepNumbers DEF MoveShielded, StepSet, NextStep
    <3>2. /\ Import(StepSet(4), Views) /\ blank' = blank
          /\ \A o \in StepSet(4) : \A v \in Uses[o] : NameOf[v] \in DOMAIN mem.views
      BY <1>1, <2>3, <3>1 DEF MoveShielded
    <3>. QED  BY <3>1, <3>2
  <2>. QED  BY <2>1, <2>2, <2>3
<1>2a. PICK i \in {2, 3, 4}, known \in SUBSET Views :
         /\ Pending(i) /\ pc = "run" /\ Import(StepSet(i), known)
         /\ blank \subseteq blank' /\ (i # 3 => blank' = blank)
         /\ i = 3 => plan.refs \ known \subseteq blank'
         /\ i = 4 => /\ known = Views
                     /\ \A o \in StepSet(i) : \A v \in Uses[o] : NameOf[v] \in DOMAIN mem.views
  BY <1>2
<1>. DEFINE os == StepSet(i)
            n == IF os = {} THEN imports ELSE imports + 1
<1>3. os \in SUBSET Objects /\ n \in Nat
  BY <1>1 DEF StepSet
<1>4. /\ pc' = "save"
      /\ UNCHANGED <<exists, backup, modelGroups, grants, disk, mem, plan, wanted, unread,
                     found, failed, runs, report>>
  BY <1>2a DEF Import
<1>. HIDE DEF os
<1>5. CASE os = {}
  <2>1. made' = Empty /\ UNCHANGED <<bound, copies, uses, imports>>
    BY <1>2a, <1>5 DEF Import, os
  <2>2. made' = Named(os, n) /\ copies' = copies \cup {<<o, n>> : o \in os}
    BY <1>5, <2>1, NamedNone
  <2>. QED  BY <1>2a, <1>3, <1>4, <1>5, <2>1, <2>2 DEF Importing, os, source
<1>6. CASE os # {}
  <2>1. /\ imports' = imports + 1 /\ bound' = bound
        /\ copies' = copies \cup {<<o, imports + 1>> : o \in os}
        /\ uses' = [g \in copies' |-> IF g \in copies THEN uses[g] ELSE ViewRefs(g[1], known)]
        /\ made' = Named(os, imports + 1)
    BY <1>2a, <1>6 DEF Import, os
  <2>2. /\ \A g \in copies : uses'[g] = uses[g]
        /\ \A g \in copies' \ copies : uses'[g] = ViewRefs(g[1], known)
    BY <2>1
  <2>. QED  BY <1>2a, <1>3, <1>4, <1>6, <2>1, <2>2 DEF Importing, os, source
<1>. QED  BY <1>5, <1>6

\* The ledger a completed step leaves, entry by entry
Saving(i) ==
    /\ Pending(i) /\ pc = "save" /\ pc' = "run" /\ made' = Empty
    /\ UNCHANGED <<source, backup, target, plan, wanted, found, failed, unread, blank, runs, report>>
    /\ disk' = mem'
    /\ mem'.completed = mem.completed \cup {StepOrder[i]} /\ mem'.undone = mem.undone
    /\ mem'.views = (IF i = 2 THEN made ELSE mem.views)
    /\ mem'.content = (IF i = 3 THEN made ELSE mem.content)
    /\ mem'.shielded = (IF i = 4 THEN made ELSE mem.shielded)

LEMMA SavesStep ==
  ASSUME Types, SaveStep
  PROVE  \E i \in 1..5 : Saving(i)
<1>1. /\ mem \in LedgerType /\ LedgerOK(mem) /\ made \in Dicts
  BY DEF Types, TypeOK
<1>2. /\ pc = "save" /\ pc' = "run" /\ made' = Empty /\ disk' = mem'
      /\ UNCHANGED <<source, backup, target, plan, wanted, found, failed, unread, blank, runs, report>>
      /\ mem' = Completed(mem, Current)
  BY DEF SaveStep
<1>3. PICK i \in 1..5 : Current = StepOrder[i] /\ Pending(i)
  BY <1>2, CurrentStep
<1>. DEFINE name == StepOrder[i]
            done == [mem EXCEPT !.completed = @ \cup {name}]
<1>4. /\ done.views = mem.views /\ done.content = mem.content /\ done.shielded = mem.shielded
      /\ done.undone = mem.undone /\ done.completed = mem.completed \cup {name}
      /\ done \in [present : BOOLEAN, mode : {"same", "new", "none"},
                   completed : SUBSET (StepNames \cup {name}), views : Dicts, content : Dicts,
                   shielded : Dicts, rolledBack : BOOLEAN, undone : BOOLEAN]
  BY <1>1 DEF LedgerType
<1>5. /\ name = "rewrite_views" <=> i = 2
      /\ name = "rewrite_content" <=> i = 3
      /\ name = "move_shielded" <=> i = 4
  BY <1>3, Distinct DEF StepOrder
<1>6. Updated(Empty, made) = made
  BY <1>1, UpdatedEmpty
<1>7. name \notin mem.completed
  BY <1>3 DEF Pending
<1>8. mem' = CASE name = "rewrite_views"   -> [done EXCEPT !.views = Updated(@, made)]
             [] name = "rewrite_content" -> [done EXCEPT !.content = Updated(@, made)]
             [] name = "move_shielded"   -> [done EXCEPT !.shielded = Updated(@, made)]
             [] OTHER                    -> done
  BY <1>2, <1>3 DEF Completed
<1>. HIDE DEF done, name
<1>9. /\ i = 2 => mem.views = Empty
      /\ i = 3 => mem.content = Empty
      /\ i = 4 => mem.shielded = Empty
  BY <1>1, <1>5, <1>7 DEF LedgerOK
<1>10. /\ mem'.completed = mem.completed \cup {name} /\ mem'.undone = mem.undone
       /\ mem'.views = (IF i = 2 THEN made ELSE mem.views)
       /\ mem'.content = (IF i = 3 THEN made ELSE mem.content)
       /\ mem'.shielded = (IF i = 4 THEN made ELSE mem.shielded)
  <2>1. CASE i = 2
    <3>1. mem' = [done EXCEPT !.views = made]
      BY <1>4, <1>5, <1>6, <1>8, <1>9, <2>1
    <3>. QED  BY <1>4, <2>1, <3>1
  <2>2. CASE i = 3
    <3>1. mem' = [done EXCEPT !.content = made]
      BY <1>4, <1>5, <1>6, <1>8, <1>9, <2>2
    <3>. QED  BY <1>4, <2>2, <3>1
  <2>3. CASE i = 4
    <3>1. mem' = [done EXCEPT !.shielded = made]
      BY <1>4, <1>5, <1>6, <1>8, <1>9, <2>3
    <3>. QED  BY <1>4, <2>3, <3>1
  <2>4. CASE i \notin {2, 3, 4}
    <3>1. mem' = done
      BY <1>5, <1>8, <2>4
    <3>. QED  BY <1>4, <2>4, <3>1
  <2>. QED  BY <2>1, <2>2, <2>3, <2>4
<1>. QED  BY <1>2, <1>3, <1>10 DEF Saving, name

\* A batch of a rollback: deleted, or refused
Deletes(gs) ==
    /\ \/ /\ pc = "delete_content" /\ pc' = "delete_views"
          /\ gs = found \cap Range(Updated(mem.content, mem.shielded))
       \/ /\ pc = "delete_views" /\ pc' = "deleted"
          /\ gs = found \cap Range(mem.views)
    /\ UNCHANGED <<source, backup, modelGroups, imports, disk, mem, plan, made, wanted,
                   unread, blank, found, runs, report>>
    /\ \/ /\ \A k \in copies \ gs : uses[k] \cap gs = {}
          /\ copies' = copies \ gs
          /\ \A g \in copies' : uses'[g] = uses[g]
          /\ grants' = {x \in grants : x[1] \notin gs}
          /\ failed' = failed
       \/ /\ failed' = TRUE
          /\ UNCHANGED <<copies, uses, grants>>

LEMMA DeletesStep ==
  ASSUME Types, Survival, DeleteContent \/ DeleteViews
  PROVE  ~SameOrg /\ \E gs \in SUBSET found : Deletes(gs)
<1>1. PICK gs \in SUBSET found :
         /\ Delete(gs)
         /\ \/ /\ pc = "delete_content" /\ pc' = "delete_views"
               /\ gs = found \cap Range(Updated(mem.content, mem.shielded))
            \/ /\ pc = "delete_views" /\ pc' = "deleted"
               /\ gs = found \cap Range(mem.views)
  BY DEF DeleteContent, DeleteViews
<1>2. UNCHANGED <<bound, backup, modelGroups, imports, disk, mem, plan, made, wanted, unread,
                  blank, found, runs, report>>
  BY DEF DeleteContent, DeleteViews
<1>3. ~SameOrg /\ \A g \in gs : g[2] > 0
  BY <1>1 DEF Survival, Deleting, InTarget
<1>4. {g[1] : g \in {h \in gs : h[2] = 0}} = {}
  BY <1>3
<1>5. exists' = exists
  BY <1>1, <1>4 DEF Delete
<1>6. \/ /\ \A k \in copies \ gs : uses[k] \cap gs = {}
         /\ copies' = copies \ gs
         /\ \A g \in copies' : uses'[g] = uses[g]
         /\ grants' = {x \in grants : x[1] \notin gs}
         /\ failed' = failed
      \/ /\ failed' = TRUE
         /\ UNCHANGED <<copies, uses, grants>>
  BY <1>1 DEF Delete
<1>. QED  BY <1>1, <1>2, <1>3, <1>5, <1>6 DEF Deletes, source

\* The start of a rollback marks its ledger as used.
Undoing ==
    /\ pc = "idle" /\ pc' = "delete_content" /\ report' = "none"
    /\ UNCHANGED <<source, backup, target, plan, made, wanted, unread, blank>>
    /\ disk' = mem' /\ mem'.undone
    /\ mem'.views = disk.views /\ mem'.content = disk.content
    /\ mem'.shielded = disk.shielded /\ mem'.completed = disk.completed
    /\ ~failed' => found' = RollbackSet(disk) \cap Existing

LEMMA UndoesStep ==
  ASSUME Types, Survival, StartRollback
  PROVE  ~SameOrg /\ Undoing
<1>. USE DEF StartRollback
<1>1. disk \in LedgerType /\ disk.present /\ ~Refused(disk)
  BY DEF Types
<1>2. ~SameOrg
  BY <1>1 DEF Survival, Home, Refused
<1>3. mem' = [disk EXCEPT !.undone = TRUE] /\ disk' = mem'
  OBVIOUS
<1>4. /\ mem'.undone /\ mem'.views = disk.views /\ mem'.content = disk.content
      /\ mem'.shielded = disk.shielded /\ mem'.completed = disk.completed
  BY <1>1, <1>3 DEF LedgerType
<1>5. PICK unknown \in SUBSET {TRUE, FALSE} :
         /\ failed' = (unknown # {})
         /\ found' = {g \in RollbackSet(disk) \cap Existing : IsView(g) \notin unknown}
  BY DEF ProbeErrors
<1>6. ~failed' => found' = RollbackSet(disk) \cap Existing
  BY <1>5
<1>7. /\ pc = "idle" /\ pc' = "delete_content" /\ report' = "none"
      /\ UNCHANGED <<source, backup, target, plan, made, wanted, unread, blank>>
  OBVIOUS
<1>. QED  BY <1>2, <1>3, <1>4, <1>6, <1>7 DEF Undoing

-----------------------------------------------------------------------------
(* The plan                                                                *)

\* Nothing that was there from the start is missed by a plan, and a View that is
\* read from the start is never among the content.
LEMMA ClassifiedFits ==
  ASSUME \A o \in Objects : bound[o] = "source", exists \subseteq Objects, Early \subseteq exists,
         NEW dark \in SUBSET Dark, NEW p, p = Classified(dark)
  PROVE  LET all == p.views \cup p.content \cup p.shielded
         IN  /\ all \subseteq exists /\ Early \subseteq all /\ dark \subseteq Content
             /\ p.content \subseteq OnModel \cup (Views \ SurelyRead) \cup dark
             /\ \A k \in p.content \cap Content : k \in dark \/ Uses[k] \subseteq p.refs
             /\ \A v \in ReadEarly : v \in p.views \/ \E k \in dark : v \in Uses[k]
             /\ LateReads => p.views \subseteq ReadEarly
<1>0. /\ Views \cup Content = Objects /\ Views \cap Content = {} /\ OnModel \subseteq Content
      /\ dark \subseteq Content \cap MayBeBlank /\ dark \subseteq Dependents
  BY DEF Objects, Dark
<1>1. ViewScope = Views \cap exists
  BY <1>0 DEF ViewScope
<1>2. Dependents \subseteq exists /\ ViewScope \subseteq Dependents
  BY DEF Dependents, ViewScope
<1>3. ViewsRead(dark) \subseteq ViewScope
  BY DEF ViewsRead
<1>4. ReadEarly \subseteq ViewScope
  <2>1. SUFFICES ASSUME NEW k \in Content \ LateObjects, NEW v \in Uses[k]
                 PROVE  v \in ViewScope
    BY DEF ReadEarly
  <2>2. v \in Views /\ v \in Objects \ LateObjects
    BY <1>0
  <2>. QED  BY <1>1, <2>2 DEF Early
<1>5. ASSUME NEW v \in ReadEarly
      PROVE  v \in ViewsRead(dark) \/ \E k \in dark : v \in Uses[k]
  <2>1. PICK k \in Content \ LateObjects : v \in Uses[k]
    BY DEF ReadEarly
  <2>2. k \in Content \cap exists /\ v \in ViewScope
    BY <1>0, <1>4 DEF Early
  <2>. QED  BY <2>1, <2>2 DEF ViewsRead
<1>6. SurelyRead \subseteq ViewsRead(dark)
  <2>1. SUFFICES ASSUME NEW k \in Content \ (LateObjects \cup MayBeBlank), NEW v \in Uses[k]
                 PROVE  v \in ViewsRead(dark)
    BY DEF SurelyRead
  <2>2. k \in (Content \cap exists) \ dark /\ v \in ViewScope
    BY <1>0, <1>4 DEF Early, ReadEarly
  <2>. QED  BY <2>2 DEF ViewsRead
<1>7. ASSUME NEW k \in Early \cap Content PROVE k \in Dependents
  <2>1. k \in exists /\ bound[k] = "source"
    BY <1>0
  <2>2. CASE k \in OnModel
    BY <2>1, <2>2 DEF Dependents
  <2>3. CASE k \notin OnModel
    <3>1. PICK v \in Uses[k] : TRUE
      BY <2>3
    <3>2. v \in ViewScope
      BY <1>4, <3>1 DEF ReadEarly, Early
    <3>. QED  BY <2>1, <3>1, <3>2 DEF Dependents
  <2>. QED  BY <2>2, <2>3
<1>8. /\ p.views = ViewsRead(dark)
      /\ p.content = ((Dependents \cap OnModel) \cup dark) \cup (ViewScope \ ViewsRead(dark))
      /\ p.shielded = (Dependents \cap Content) \ ((Dependents \cap OnModel) \cup dark)
      /\ p.refs = UNION {Uses[c] : c \in ((Dependents \cap OnModel) \cup dark) \ dark}
  BY ClassifiedParts
<1>9. Early \subseteq p.views \cup p.content \cup p.shielded
  <2>. SUFFICES ASSUME NEW o \in Early
                PROVE  o \in p.views \cup p.content \cup p.shielded
    OBVIOUS
  <2>1. CASE o \in Views
    BY <1>1, <1>8, <2>1
  <2>2. CASE o \in Content
    BY <1>7, <1>8, <2>2
  <2>. QED  BY <1>0, <2>1, <2>2 DEF Early
<1>10. p.content \subseteq OnModel \cup (Views \ SurelyRead) \cup dark
  BY <1>1, <1>6, <1>8
<1>11. \A k \in p.content \cap Content : k \in dark \/ Uses[k] \subseteq p.refs
  BY <1>0, <1>1, <1>8
<1>12. LateReads => p.views \subseteq ReadEarly
  BY <1>8 DEF LateReads, ViewsRead
<1>13. p.views \cup p.content \cup p.shielded \subseteq exists
  BY <1>0, <1>2, <1>3, <1>8
<1>. QED  BY <1>0, <1>5, <1>8, <1>9, <1>10, <1>11, <1>12, <1>13

\* Only a new apply makes a new plan.
LEMMA PlanStays ==
  ASSUME ~SameOrg, Types, Survival, [Next]_vars, \A resume \in BOOLEAN : ~StartApply(resume),
         report # "none" => pc = "idle"
  PROVE  /\ plan' = plan /\ bound' = bound /\ exists \subseteq exists' /\ blank \subseteq blank'
         /\ Applying' => Applying
         /\ report' = "migrated" => Applying \/ report = "migrated"
         /\ report' # "none" => pc' = "idle"
<1>. USE DEF Applying, source, target, work
<1>1. CASE UNCHANGED vars
  BY <1>1 DEF vars
<1>2. CASE RunBackup \/ BackupCutShort
  BY <1>2 DEF RunBackup, BackupCutShort, NextStep
<1>3. CASE RewriteViews \/ RewriteContent \/ MoveShielded
  BY <1>3, ImportsStep DEF Importing
<1>4. CASE StepFails
  BY <1>4 DEF StepFails
<1>5. CASE ShareStack \/ ShareContent
  BY <1>5 DEF ShareStack, ShareContent, NextStep
<1>6. CASE SaveStep \/ MigrationComplete
  BY <1>6 DEF SaveStep, MigrationComplete
<1>7. CASE StartRollback
  BY <1>7 DEF StartRollback
<1>8. CASE DeleteContent \/ DeleteViews
  BY <1>8, DeletesStep DEF Deletes
<1>9. CASE FinishRollback
  BY <1>9 DEF FinishRollback
<1>10. CASE Crash
  BY <1>10 DEF Crash
<1>11. CASE AddObject
  BY <1>11 DEF AddObject
<1>. QED  BY <1>1, <1>2, <1>3, <1>4, <1>5, <1>6, <1>7, <1>8, <1>9, <1>10, <1>11 DEF Next

LEMMA ScopedNext ==
  ASSUME ~SameOrg, Types, Survival, Scoped, [Next]_vars
  PROVE  Scoped'
<1>0. /\ exists \subseteq Objects /\ Early \subseteq exists
  BY DEF Types, TypeOK, Survival, OriginalsSurvive, Early
<1>1. CASE \E resume \in BOOLEAN : StartApply(resume)
  <2>0. PICK dark \in SUBSET Dark : plan' = Classified(dark) /\ blank' = blank \cup dark
    BY <1>1 DEF StartApply
  <2>1. UNCHANGED source /\ pc' = "run" /\ report' = "none"
    BY <1>1 DEF StartApply
  <2>2. /\ InPlan' \subseteq exists /\ Early \subseteq InPlan' /\ dark \subseteq Content
        /\ plan'.content \subseteq OnModel \cup (Views \ SurelyRead) \cup dark
        /\ \A k \in plan'.content \cap Content : k \in dark \/ Uses[k] \subseteq plan'.refs
    BY <1>0, <2>0, ClassifiedFits DEF Scoped, InPlan
  <2>3. plan'.content \subseteq Mains'
    BY <2>0, <2>2 DEF Mains
  <2>4. \A k \in plan'.content \cap Content : k \in blank' \/ Uses[k] \subseteq plan'.refs
    BY <2>0, <2>2
  <2>. QED  BY <2>1, <2>2, <2>3, <2>4 DEF Scoped, source
<1>2. CASE \A resume \in BOOLEAN : ~StartApply(resume)
  <2>1. /\ plan' = plan /\ bound' = bound /\ exists \subseteq exists'
        /\ blank \subseteq blank'
        /\ Applying' => Applying
        /\ report' = "migrated" => Applying \/ report = "migrated"
        /\ report' # "none" => pc' = "idle"
    BY <1>2, PlanStays DEF Scoped
  <2>2. Mains \subseteq Mains'
    BY <2>1, Overlooking
  <2>. QED  BY <2>1, <2>2 DEF Scoped, InPlan
<1>. QED  BY <1>1, <1>2

-----------------------------------------------------------------------------
(* The grants                                                              *)

\* ShareStack, for the permissions it could not read, the groups it lost, and a Model
\* that was listed or not
Stacking(faults, lost, listed) ==
    LET all == UNION Range(Wanted(faults))
    IN  /\ Pending(5) /\ pc = "run" /\ pc' = "share"
        /\ wanted' = Wanted(faults) /\ unread' = unread \cup faults \cup Unreached(listed)
        /\ failed' = (lost # {})
        /\ modelGroups' = modelGroups \cup (IF listed THEN all \ lost ELSE {})
        /\ grants' = grants \cup {x \in Range(mem.views) \X ((all \ lost) \cap modelGroups') :
                                     x[1] \in copies}
        /\ UNCHANGED <<source, backup, copies, uses, imports, disk, mem, plan, made, found,
                       blank, runs, report>>

LEMMA StacksStep ==
  ASSUME ShareStack
  PROVE  \E faults, lost : \E listed \in BOOLEAN : Stacking(faults, lost, listed)
<1>1. PICK faults, lost, listed :
         /\ listed \in (IF StackMayBeBlank THEN BOOLEAN ELSE {TRUE})
         /\ wanted' = Wanted(faults) /\ unread' = unread \cup faults \cup Unreached(listed)
         /\ failed' = (lost # {}) /\ GrantStack(Wanted(faults), lost, listed)
  BY DEF ShareStack
<1>2. Pending(5) /\ pc = "run"
  BY StepNumbers DEF ShareStack, NextStep
<1>3. /\ pc' = "share"
      /\ UNCHANGED <<source, backup, copies, uses, imports, disk, mem, plan, made, found,
                     blank, runs, report>>
  BY DEF ShareStack
<1>4. Stacking(faults, lost, listed)
  BY <1>1, <1>2, <1>3 DEF Stacking, GrantStack
<1>5. listed \in BOOLEAN
  BY <1>1
<1>. QED  BY <1>4, <1>5

\* ShareContent: a new grant is one that the name of a recorded copy calls for, and
\* without a lost group none that can land is missed.
Granting(lost) ==
    LET created == Updated(mem.content, mem.shielded)
    IN  /\ pc = "share" /\ pc' = (IF failed \/ lost # {} THEN "idle" ELSE "save")
        /\ pc' = "save" => UNCHANGED <<disk, report>>
        /\ pc' = "idle" => disk' = mem /\ report' = "failed"
        /\ UNCHANGED <<source, backup, copies, uses, imports, mem, plan, made, found, unread,
                       blank, runs, modelGroups>>
        /\ grants \subseteq grants'
        /\ \A x \in grants' \ grants : \E n \in DOMAIN created \cap DOMAIN wanted :
              x[1] = created[n] /\ x[1] \in copies /\ x[2] \in wanted[n]
        /\ lost = {} => \A n \in DOMAIN created \cap DOMAIN wanted : \A grp \in wanted[n] :
              /\ created[n] \in copies
              /\ grp \in modelGroups /\ \A g \in uses[created[n]] : <<g, grp>> \in grants
              => <<created[n], grp>> \in grants'

LEMMA GrantsStep ==
  ASSUME ShareContent
  PROVE  \E lost : Granting(lost)
<1>1. PICK lost : /\ UNCHANGED modelGroups
                  /\ GrantContent(wanted, lost)
                  /\ \/ /\ failed \/ lost # {}
                        /\ disk' = mem
                        /\ pc' = "idle"
                        /\ report' = "failed"
                     \/ /\ ~failed /\ lost = {}
                        /\ pc' = "save"
                        /\ UNCHANGED <<disk, report>>
  BY DEF ShareContent
<1>2. /\ pc = "share"
      /\ UNCHANGED <<source, backup, copies, uses, imports, mem, plan, made, found, unread, blank,
                     runs>>
  BY DEF ShareContent
<1>. DEFINE created == Updated(mem.content, mem.shielded)
            new(n) == {<<created[n], grp>> : grp \in {h \in wanted[n] \ lost :
                         created[n] \in copies /\ Lands(created[n], h, grants)}}
<1>3. grants' = grants \cup UNION {new(n) : n \in DOMAIN created \cap DOMAIN wanted}
  BY <1>1 DEF GrantContent
<1>. HIDE DEF created
<1>4. \A x \in grants' \ grants : \E n \in DOMAIN created \cap DOMAIN wanted :
         x[1] = created[n] /\ x[1] \in copies /\ x[2] \in wanted[n]
  <2>. SUFFICES ASSUME NEW x \in grants' \ grants
                PROVE  \E n \in DOMAIN created \cap DOMAIN wanted :
                          x[1] = created[n] /\ x[1] \in copies /\ x[2] \in wanted[n]
    OBVIOUS
  <2>1. PICK n \in DOMAIN created \cap DOMAIN wanted : x \in new(n)
    BY <1>3
  <2>. QED  BY <2>1
<1>5. ASSUME lost = {}, NEW n \in DOMAIN created \cap DOMAIN wanted, NEW grp \in wanted[n],
             created[n] \in copies, grp \in modelGroups,
             \A g \in uses[created[n]] : <<g, grp>> \in grants
      PROVE  <<created[n], grp>> \in grants'
  <2>1. Lands(created[n], grp, grants)
    BY <1>1, <1>5 DEF Lands
  <2>2. <<created[n], grp>> \in new(n)
    BY <1>5, <2>1
  <2>. QED  BY <1>3, <2>2
<1>6. grants \subseteq grants'
  BY <1>3
<1>7. pc' = (IF failed \/ lost # {} THEN "idle" ELSE "save")
  BY <1>1
<1>. QED  BY <1>1, <1>2, <1>4, <1>5, <1>6, <1>7 DEF Granting, created

-----------------------------------------------------------------------------
(* Ledgers name what the steps created                                     *)

LEMMA KeyedStays ==
  ASSUME blank \subseteq blank', NEW l, Keyed(l)
  PROVE  /\ KeyedBy(l.views, Views) /\ KeyedBy(l.content, Mains')
         /\ KeyedBy(l.shielded, Shields)
<1>1. Mains \subseteq Mains'
  BY Overlooking
<1>. QED  BY <1>1 DEF Keyed, KeyedBy

LEMMA LedgersStay ==
  ASSUME Keyed(mem), Keyed(disk), disk' \in {disk, mem}, mem' = mem, blank \subseteq blank'
  PROVE  Keyed(mem)' /\ Keyed(disk)'
<1>1. Keyed(mem') /\ Keyed(disk')
  BY DEF Keyed
<1>. QED  BY <1>1, KeyedStays DEF Keyed

LEMMA TrackedNext ==
  ASSUME ~SameOrg, Types, Survival, Scoped, Tracked, [Next]_vars
  PROVE  Tracked'
<1>. USE DEF Tracked, IsView
<1>0. imports \in Nat /\ mem \in LedgerType
  BY DEF Types, TypeOK
<1>1. CASE \E resume \in BOOLEAN : StartApply(resume)
  <2>1. /\ UNCHANGED target /\ disk' = disk /\ pc' = "run" /\ blank \subseteq blank'
        /\ mem' = disk \/ mem' = Ledger(Mode)
    BY <1>1 DEF StartApply
  <2>2. Keyed(disk)'
    BY <2>1, KeyedStays DEF Keyed
  <2>3. Keyed(mem)'
    <3>1. CASE mem' = disk
      BY <2>1, <2>2, <3>1 DEF Keyed
    <3>2. CASE mem' = Ledger(Mode)
      BY <3>2, EmptyKeyed DEF Keyed, Ledger
    <3>. QED  BY <2>1, <3>1, <3>2
  <2>. QED  BY <2>1, <2>2, <2>3 DEF target, Deleting
<1>2. CASE RewriteViews \/ RewriteContent \/ MoveShielded
  <2>1. PICK i \in {2, 3, 4}, os \in SUBSET Objects, n \in Nat, known \in SUBSET Views :
          Importing(i, os, n, known)
    BY <1>2, ImportsStep
  <2>. USE <2>1 DEF Importing
  <2>2. \A g \in copies' : g[2] \in 1..imports' /\ (IsView(g) => uses'[g] = {})
    <3>. SUFFICES ASSUME NEW g \in copies'
                  PROVE  g[2] \in 1..n /\ (IsView(g) => uses'[g] = {})
      OBVIOUS
    <3>1. CASE g \in copies
      <4>1. /\ g[2] \in 1..imports /\ imports \in Nat /\ n >= imports
            /\ IsView(g) => uses[g] = {}
        BY <1>0, <3>1
      <4>. QED  BY <3>1, <4>1
    <3>2. CASE g \notin copies
      <4>1. g[2] = n /\ n = imports + 1 /\ uses'[g] = ViewRefs(g[1], known)
        BY <3>2
      <4>2. IsView(g) => ViewRefs(g[1], known) = {}
        BY DEF IsView, ViewRefs
      <4>. QED  BY <1>0, <4>1, <4>2
    <3>. QED  BY <3>1, <3>2
  <2>3. KeyedBy(made', os)
    BY NamedKeyed
  <2>4. /\ i = 2 => os \subseteq Views
        /\ i = 3 => os \subseteq Mains
        /\ i = 4 => os \subseteq Shields
    BY DEF StepSet, Types, PlanTypes, Scoped, Shields
  <2>5. \A j \in {2, 3, 4} : Pending(j)' => j = i
    BY PendingOne, PendingNext
  <2>6. Mains \subseteq Mains'
    BY Overlooking
  <2>7. /\ Pending(2)' => KeyedBy(made, Views)'
        /\ Pending(3)' => KeyedBy(made, Mains)'
        /\ Pending(4)' => KeyedBy(made, Shields)'
    BY <2>3, <2>4, <2>5, <2>6 DEF KeyedBy
  <2>8. \A x \in grants' : x[1] \in copies'
    OBVIOUS
  <2>9. Keyed(mem)' /\ Keyed(disk)'
    BY LedgersStay
  <2>. QED  BY <2>2, <2>7, <2>8, <2>9 DEF Deleting
<1>3. CASE SaveStep
  <2>1. PICK i \in 1..5 : Saving(i)
    BY <1>3, SavesStep
  <2>2. Mains' = Mains /\ UNCHANGED target
    BY <2>1 DEF Saving, Mains, target
  <2>3. /\ KeyedBy(mem'.views, Views) /\ KeyedBy(mem'.content, Mains)
        /\ KeyedBy(mem'.shielded, Shields)
    BY <2>1 DEF Saving, Keyed
  <2>4. Keyed(mem)' /\ Keyed(disk)'
    BY <2>1, <2>2, <2>3 DEF Saving, Keyed
  <2>. QED  BY <2>1, <2>2, <2>4 DEF Saving, Deleting, target
<1>4. CASE ShareStack
  <2>1. PICK faults, lost : \E listed \in BOOLEAN : Stacking(faults, lost, listed)
    BY <1>4, StacksStep
  <2>2. Pending(5)'
    BY <2>1, PendingNext DEF Stacking
  <2>3. Keyed(mem)' /\ Keyed(disk)'
    BY <2>1, LedgersStay DEF Stacking
  <2>. QED  BY <2>1, <2>2, <2>3 DEF Stacking, Deleting
<1>5. CASE ShareContent
  <2>1. PICK lost : Granting(lost)
    BY <1>5, GrantsStep
  <2>2. ~Pending(2)' /\ ~Pending(3)' /\ ~Pending(4)'
    <3>1. Pending(5)
      BY <2>1 DEF Granting
    <3>. QED  BY <2>1, <3>1, PendingOne, PendingNext DEF Granting
  <2>3. \A x \in grants' : x[1] \in copies
    BY <2>1 DEF Granting
  <2>4. Keyed(mem)' /\ Keyed(disk)'
    <3>1. disk' \in {disk, mem} /\ mem' = mem /\ blank' = blank
      BY <2>1 DEF Granting
    <3>. QED  BY <3>1, LedgersStay
  <2>. QED  BY <2>1, <2>2, <2>3, <2>4 DEF Granting, Deleting
<1>6. CASE RunBackup
  <2>1. /\ pc' = "save" /\ Pending(1) /\ UNCHANGED <<target, disk, mem, work>>
    BY <1>6, StepNumbers DEF RunBackup
  <2>2. ~Pending(2)' /\ ~Pending(3)' /\ ~Pending(4)'
    BY <2>1, PendingOne, PendingNext
  <2>3. Keyed(mem)' /\ Keyed(disk)'
    BY <2>1, LedgersStay DEF work
  <2>. QED  BY <2>1, <2>2, <2>3 DEF target, work, Deleting
<1>7. CASE BackupCutShort \/ StepFails \/ MigrationComplete \/ Crash
  <2>1. pc' = "idle" /\ UNCHANGED <<target, mem, blank>> /\ disk' \in {disk, mem}
    BY <1>7 DEF BackupCutShort, StepFails, MigrationComplete, Crash, work
  <2>. QED  BY <2>1, LedgersStay DEF target, Deleting
<1>8. CASE StartRollback
  <2>1. Undoing
    BY <1>8, UndoesStep
  <2>2. Keyed(mem)' /\ Keyed(disk)'
    <3>1. /\ blank' = blank /\ disk' = mem' /\ mem'.views = disk.views
          /\ mem'.content = disk.content /\ mem'.shielded = disk.shielded
      BY <2>1 DEF Undoing
    <3>. QED  BY <3>1, KeyedStays DEF Keyed
  <2>. QED  BY <2>1, <2>2 DEF Undoing, target
<1>9. CASE DeleteContent \/ DeleteViews
  <2>1. PICK gs \in SUBSET found : Deletes(gs)
    BY <1>9, DeletesStep
  <2>2. /\ \A g \in copies' : g \in copies /\ uses'[g] = uses[g]
        /\ \A x \in grants' : x[1] \in copies'
    BY <2>1 DEF Deletes
  <2>3. pc \in Deleting /\ pc' \in Deleting
    BY <2>1 DEF Deletes, Deleting
  <2>4. Keyed(mem)' /\ Keyed(disk)'
    BY <2>1, LedgersStay DEF Deletes
  <2>. QED  BY <2>1, <2>2, <2>3, <2>4 DEF Deletes, Deleting
<1>10. CASE FinishRollback
  <2>1. /\ UNCHANGED <<target, mem, blank>> /\ pc' = "idle"
        /\ disk' = disk \/ disk' = [mem EXCEPT !.rolledBack = TRUE]
    BY <1>10 DEF FinishRollback
  <2>2. Keyed([mem EXCEPT !.rolledBack = TRUE])
    BY <1>0 DEF Keyed, LedgerType
  <2>3. Mains' = Mains
    BY <2>1 DEF Mains
  <2>4. Keyed(disk') /\ Keyed(mem')
    BY <2>1, <2>2
  <2>5. Keyed(mem)' /\ Keyed(disk)'
    BY <2>3, <2>4 DEF Keyed
  <2>. QED  BY <2>1, <2>5 DEF target, Deleting
<1>11. CASE AddObject \/ UNCHANGED vars
  <2>1. UNCHANGED <<target, disk, mem, made, pc, blank>>
    BY <1>11 DEF AddObject, vars, target, work
  <2>2. \A j \in 1..5 : Pending(j)' <=> Pending(j)
    BY <2>1, PendingNext
  <2>3. Mains' = Mains
    BY <2>1 DEF Mains
  <2>. QED  BY <2>1, <2>2, <2>3 DEF target, Keyed
<1>. QED  BY <1>1, <1>2, <1>3, <1>4, <1>5, <1>6, <1>7, <1>8, <1>9, <1>10, <1>11 DEF Next

-----------------------------------------------------------------------------
(* A rollback                                                              *)

\* rollback_sets merges the content of two steps by name; with unique names it loses
\* only content that was filed twice.
LEMMA MergedWhole ==
  ASSUME OwnNames(Others), NEW l \in LedgerType, Keyed(l)
  PROVE  \A g \in Recorded(l) : g[1] \notin blank \cap Content =>
           /\ g \in RollbackSet(l)
           /\ g \in Range(l.views) \/ g \in Range(Updated(l.content, l.shielded))
<1>. DEFINE d == l.content
            e == l.shielded
            u == Updated(d, e)
<1>1. d \in Dicts /\ e \in Dicts
  BY DEF LedgerType
<1>2. /\ DOMAIN u = DOMAIN d \cup DOMAIN e
      /\ \A n \in DOMAIN u : u[n] = IF n \in DOMAIN e THEN e[n] ELSE d[n]
  BY DEF Updated
<1>3. ASSUME NEW n \in DOMAIN d, n \in DOMAIN e PROVE d[n][1] \in blank \cap Content
  <2>1. /\ d[n][1] \in Mains /\ NameOf[d[n][1]] = n
        /\ e[n][1] \in Shields /\ NameOf[e[n][1]] = n
    BY <1>3 DEF Keyed, KeyedBy
  <2>2. d[n][1] = e[n][1]
    BY <2>1, Classes DEF OwnNames
  <2>. QED  BY <2>1, <2>2, Classes
<1>. HIDE DEF u
<1>4. \A g \in Range(d) \cup Range(e) : g[1] \notin blank \cap Content => g \in Range(u)
  BY <1>2, <1>3 DEF Range
<1>. QED  BY <1>4 DEF u, RollbackSet, Recorded

\* Commands that are no rollback
LEMMA NotWithdrawing ==
  ASSUME Types, Scoped, [Next]_vars, ~StartRollback, ~DeleteContent, ~DeleteViews, ~FinishRollback,
         ~AddObject, ~UNCHANGED vars
  PROVE  pc' \notin Deleting /\ report' # "rolled_back"
<1>. USE DEF Deleting, Scoped
<1>1. CASE \E resume \in BOOLEAN : StartApply(resume)
  BY <1>1 DEF StartApply
<1>2. CASE RunBackup \/ BackupCutShort
  BY <1>2 DEF RunBackup, BackupCutShort, NextStep
<1>3. CASE RewriteViews \/ RewriteContent \/ MoveShielded
  BY <1>3 DEF RewriteViews, RewriteContent, MoveShielded, Import, NextStep
<1>4. CASE StepFails \/ SaveStep \/ MigrationComplete \/ Crash
  BY <1>4 DEF StepFails, SaveStep, MigrationComplete, Crash
<1>5. CASE ShareStack \/ ShareContent
  BY <1>5 DEF ShareStack, ShareContent, NextStep
<1>. QED  BY <1>1, <1>2, <1>3, <1>4, <1>5 DEF Next

LEMMA WithdrawingNext ==
  ASSUME ~SameOrg, OwnNames(Others), Types, Survival, Scoped, Tracked, Withdrawing, [Next]_vars
  PROVE  Withdrawing'
<1>. USE DEF Withdrawing, Left
<1>0. mem \in LedgerType /\ disk \in LedgerType /\ Keyed(mem) /\ Keyed(disk)
  BY DEF Types, Tracked
<1>1. CASE StartRollback
  <2>1. Undoing
    BY <1>1, UndoesStep
  <2>2. Recorded(mem') = Recorded(disk) /\ blank' = blank
    BY <2>1 DEF Undoing, Recorded
  <2>3. \A g \in Recorded(disk) : g[1] \notin blank \cap Content => g \in RollbackSet(disk)
    BY <1>0, MergedWhole
  <2>. QED  BY <2>1, <2>2, <2>3 DEF Undoing, target, Existing
<1>2. CASE DeleteContent \/ DeleteViews
  <2>1. PICK gs \in SUBSET found : Deletes(gs)
    BY <1>2, DeletesStep
  <2>2. \A g \in Recorded(mem) : g[1] \notin blank \cap Content =>
           g \in Range(mem.views) \/ g \in Range(Updated(mem.content, mem.shielded))
    BY <1>0, MergedWhole
  <2>4. /\ mem' = mem /\ disk' = disk /\ found' = found /\ report' = report /\ Recorded(mem') = Recorded(mem)
        /\ blank' = blank
        /\ ~failed' => ~failed /\ copies' = copies \ gs
    BY <2>1 DEF Deletes, Recorded
  <2>5. report' # "rolled_back"
    BY <2>1 DEF Deletes, Scoped
  <2>6. CASE pc = "delete_content"
    <3>1. pc' = "delete_views" /\ gs = found \cap Range(Updated(mem.content, mem.shielded))
      BY <2>1, <2>6 DEF Deletes
    <3>2. ASSUME ~failed' PROVE Left(mem)' \subseteq found' \cap Range(mem'.views)
      BY <2>2, <2>4, <2>6, <3>1, <3>2
    <3>. QED  BY <2>5, <3>1, <3>2
  <2>7. CASE pc = "delete_views"
    <3>1. pc' = "deleted" /\ gs = found \cap Range(mem.views)
      BY <2>1, <2>7 DEF Deletes
    <3>2. ASSUME ~failed' PROVE Left(mem)' = {}
      BY <2>4, <2>7, <3>1, <3>2
    <3>. QED  BY <2>5, <3>1, <3>2
  <2>. QED  BY <2>1, <2>6, <2>7 DEF Deletes
<1>3. CASE FinishRollback
  <2>1. /\ pc = "deleted" /\ pc' = "idle" /\ copies' = copies /\ blank' = blank
        /\ \/ report' = "incomplete"
           \/ ~failed /\ disk' = [mem EXCEPT !.rolledBack = TRUE]
    BY <1>3 DEF FinishRollback, target
  <2>2. Recorded([mem EXCEPT !.rolledBack = TRUE]) = Recorded(mem)
    BY <1>0 DEF Recorded, LedgerType
  <2>. QED  BY <2>1, <2>2
<1>4. CASE AddObject \/ UNCHANGED vars
  <2>1. UNCHANGED <<copies, disk, mem, pc, found, failed, report, blank>>
    BY <1>4 DEF AddObject, vars, target, work
  <2>. QED  BY <2>1 DEF Recorded
<1>5. CASE ~StartRollback /\ ~DeleteContent /\ ~DeleteViews /\ ~FinishRollback
           /\ ~AddObject /\ ~UNCHANGED vars
  BY <1>5, NotWithdrawing DEF Deleting
<1>. QED  BY <1>1, <1>2, <1>3, <1>4, <1>5

-----------------------------------------------------------------------------
(* Who is granted what                                                     *)

LEMMA SharedAreOthers ==
  ASSUME Types, Scoped
  PROVE  Shared \subseteq Others
  BY Classes DEF Types, PlanTypes, Scoped, Shared, Shields

\* No command but apply's last step grants anything.
LEMMA GrantsStay ==
  ASSUME ~SameOrg, Types, Survival, Scoped, [Next]_vars, ~ShareStack, ~ShareContent
  PROVE  \/ grants' \subseteq grants /\ pc' # "share"
         \/ pc' = pc /\ UNCHANGED <<target, wanted>>
<1>. USE DEF target, work
<1>1. CASE \E resume \in BOOLEAN : StartApply(resume)
  BY <1>1 DEF StartApply
<1>2. CASE RunBackup \/ BackupCutShort \/ StepFails \/ SaveStep \/ MigrationComplete \/ Crash
  BY <1>2 DEF RunBackup, BackupCutShort, StepFails, SaveStep, MigrationComplete, Crash
<1>3. CASE RewriteViews \/ RewriteContent \/ MoveShielded
  BY <1>3 DEF RewriteViews, RewriteContent, MoveShielded, Import
<1>4. CASE StartRollback \/ FinishRollback
  BY <1>4 DEF StartRollback, FinishRollback
<1>5. CASE DeleteContent \/ DeleteViews
  BY <1>5, DeletesStep DEF Deletes
<1>6. CASE AddObject \/ UNCHANGED vars
  BY <1>6 DEF AddObject, vars
<1>. QED  BY <1>1, <1>2, <1>3, <1>4, <1>5, <1>6 DEF Next

LEMMA SharingNext ==
  ASSUME ~SameOrg, OwnNames(Others), Types, Survival, Scoped, Tracked, Sharing, [Next]_vars
  PROVE  Sharing'
<1>. USE DEF Sharing
<1>0. mem \in LedgerType /\ Keyed(mem)
  BY DEF Types, Tracked
<1>1. CASE ShareStack
  <2>1. PICK faults, lost : \E listed \in BOOLEAN : Stacking(faults, lost, listed)
    BY <1>1, StacksStep
  <2>2. NoForeignGrant'
    <3>. SUFFICES ASSUME NEW x \in grants', ~IsView(x[1]) PROVE x \in grants
      BY DEF NoForeignGrant
    <3>1. CASE x \notin grants
      <4>1. x[1] \in Range(mem.views)
        BY <2>1, <3>1 DEF Stacking
      <4>2. PICK n \in DOMAIN mem.views : x[1] = mem.views[n]
        BY <4>1 DEF Range
      <4>. QED  BY <1>0, <4>2 DEF Keyed, KeyedBy, IsView
    <3>. QED  BY <3>1
  <2>3. \A n \in DOMAIN wanted' : \E o \in Others : NameOf[o] = n /\ wanted'[n] = GrantsOf[o]
    <3>. DEFINE W == Wanted(faults)
    <3>1. \A n \in DOMAIN W : \E o \in Shared \ faults : NameOf[o] = n /\ W[n] = GrantsOf[o]
      BY WantedEntry
    <3>2. wanted' = W
      BY <2>1 DEF Stacking
    <3>. HIDE DEF W
    <3>. QED  BY <3>1, <3>2, SharedAreOthers
  <2>. QED  BY <2>2, <2>3
<1>2. CASE ShareContent
  <2>1. PICK lost : Granting(lost)
    BY <1>2, GrantsStep
  <2>2. NoForeignGrant'
    <3>. SUFFICES ASSUME NEW x \in grants', ~IsView(x[1]), x \notin grants
                  PROVE  x[2] \in GrantsOf[x[1][1]]
      BY DEF NoForeignGrant
    <3>. DEFINE created == Updated(mem.content, mem.shielded)
    <3>1. PICK n \in DOMAIN created \cap DOMAIN wanted : x[1] = created[n] /\ x[2] \in wanted[n]
      BY <2>1 DEF Granting
    <3>2. /\ created[n][1] \in Mains \cup Shields /\ NameOf[created[n][1]] = n
      BY <1>0, <3>1 DEF Updated, Keyed, KeyedBy
    <3>3. PICK o \in Others : NameOf[o] = n /\ wanted[n] = GrantsOf[o]
      BY <2>1, <3>1 DEF Granting
    <3>4. created[n][1] = o
      BY <3>2, <3>3, Classes DEF OwnNames
    <3>. QED  BY <3>1, <3>3, <3>4
  <2>. QED  BY <2>1, <2>2 DEF Granting
<1>3. CASE ~ShareStack /\ ~ShareContent
  BY <1>3, GrantsStay DEF NoForeignGrant, IsView, target
<1>. QED  BY <1>1, <1>2, <1>3

-----------------------------------------------------------------------------
(* What content is bound to                                                *)

Settled == LateReads /\ OwnNames(ReadEarly) /\ ~ResumeUndone

\* A reference leads to a copy, or stays on a View that was overlooked.
Leads(v, there, over) == v \in there \/ (v[2] = 0 /\ v[1] \in over)
Reads(vs, o, there, over) == (\A v \in vs : Leads(v, there, over)) /\ {v[1] : v \in vs} = Uses[o]

LEMMA Stranded ==
  ASSUME Types
  PROVE  NoStrandedCopy <=>
           \A g \in copies : IsView(g) \/ Reads(uses[g], g[1], copies, Overlooked)
<1>1. \A g \in copies : g = <<g[1], g[2]>>
  BY DEF Types, TypeOK, Guids
<1>. QED  BY <1>1 DEF NoStrandedCopy, ReadsItsViews, Reads, Leads

LEMMA StrandedNext ==
  ASSUME Types'
  PROVE  NoStrandedCopy' <=>
           \A g \in copies' : IsView(g) \/ Reads(uses'[g], g[1], copies', Overlooked')
<1>1. \A g \in copies' : g = <<g[1], g[2]>>
  BY DEF Types, TypeOK, Guids
<1>. QED  BY <1>1 DEF NoStrandedCopy, ReadsItsViews, IsView, Reads, Leads

\* While no copy goes, no reference is stranded.
LEMMA StrandedStays ==
  ASSUME Types, Types', NoStrandedCopy, copies' = copies, uses' = uses, blank \subseteq blank'
  PROVE  NoStrandedCopy'
<1>1. Overlooked \subseteq Overlooked'
  BY Overlooking
<1>. QED  BY <1>1, Stranded, StrandedNext DEF Reads, Leads

\* What a ledger lists of the Views stays so while the target Org only grows.
LEMMA ViewsStay ==
  ASSUME copies \subseteq copies', blank \subseteq blank'
  PROVE  /\ \A d : Living(d) => Living(d)'
         /\ \A d : Listed(SeenViews, d) => Listed(SeenViews, d)'
         /\ \A l : ViewsCopied(l) => ViewsCopied(l)'
<1>1. ASSUME NEW d, Living(d) PROVE Living(d)'
  BY <1>1 DEF Living
<1>2. ASSUME NEW d, Listed(SeenViews, d) PROVE Listed(SeenViews, d)'
  <2>1. SeenViews' \subseteq SeenViews
    BY Overlooking
  <2>. QED  BY <1>2, <2>1 DEF Listed
<1>3. ASSUME NEW l, ViewsCopied(l) PROVE ViewsCopied(l)'
  BY <1>1, <1>2, <1>3 DEF ViewsCopied
<1>. QED  BY <1>1, <1>2, <1>3

\* The living entry of a View's name is the View's.
LEMMA ViewEntry ==
  ASSUME OwnNames(ReadEarly), NEW d, Living(d), KeyedBy(d, Views), NEW v \in ReadEarly,
         NameOf[v] \in DOMAIN d
  PROVE  d[NameOf[v]] \in copies /\ d[NameOf[v]][1] = v
  BY DEF Living, KeyedBy, OwnNames

\* Where a reference of an import leads: to the ledger's entry, unless the View was not
\* among the known or has no entry.
LEMMA ViewRefsBound ==
  ASSUME LateReads, OwnNames(ReadEarly), Living(mem.views), KeyedBy(mem.views, Views),
         NEW o \in Content, NEW known, NEW over,
         \A v \in Uses[o] : v \notin known \/ NameOf[v] \notin DOMAIN mem.views => v \in over
  PROVE  /\ Reads(ViewRefs(o, known), o, copies, over)
         /\ Uses[o] \cap over = {} => ViewRefs(o, known) = {mem.views[NameOf[v]] : v \in Uses[o]}
<1>1. o \notin Views /\ Uses[o] \subseteq ReadEarly
  BY DEF LateReads
<1>2. \A v \in Uses[o] :
         /\ Remap(v, known)[1] = v /\ Leads(Remap(v, known), copies, over)
         /\ v \notin over => Remap(v, known) = mem.views[NameOf[v]]
  <2>. SUFFICES ASSUME NEW v \in Uses[o]
                PROVE  /\ Remap(v, known)[1] = v /\ Leads(Remap(v, known), copies, over)
                       /\ v \notin over => Remap(v, known) = mem.views[NameOf[v]]
    OBVIOUS
  <2>1. CASE v \in known /\ NameOf[v] \in DOMAIN mem.views
    BY <1>1, <2>1, ViewEntry DEF Remap, Leads
  <2>2. CASE ~(v \in known /\ NameOf[v] \in DOMAIN mem.views)
    <3>1. Remap(v, known) = <<v, 0>> /\ v \in over
      BY <2>2 DEF Remap
    <3>. QED  BY <3>1 DEF Leads
  <2>. QED  BY <2>1, <2>2
<1>3. ViewRefs(o, known) = {Remap(v, known) : v \in Uses[o]}
  BY <1>1 DEF ViewRefs
<1>. QED  BY <1>2, <1>3 DEF Reads

\* So it is with what rewrite_content and move_shielded import.
LEMMA ImportBound ==
  ASSUME ~SameOrg, Settled, Types, Scoped, Tracked, Binding,
         NEW i \in {2, 3, 4}, NEW os \in SUBSET Objects, NEW n \in Nat, NEW known \in SUBSET Views,
         Importing(i, os, n, known), NEW o \in os \cap Content
  PROVE  /\ Reads(ViewRefs(o, known), o, copies, Overlooked')
         /\ Uses[o] \cap Overlooked' = {} =>
               ViewRefs(o, known) = {mem.views[NameOf[v]] : v \in Uses[o]}
<1>. USE DEF Importing
<1>1. ~mem.undone /\ i \in {3, 4}
  BY DEF Applying, Binding, StepSet, Types, TypeOK
<1>2. Living(mem.views) /\ Listed(SeenViews, mem.views)
  BY <1>1, DoneBefore DEF Binding, ViewsCopied
<1>3. KeyedBy(mem.views, Views)
  BY DEF Tracked, Keyed
<1>4. Overlooked \subseteq Overlooked' /\ \A v \in Views : v \in blank' => v \in Overlooked'
  BY Overlooking DEF Overlooked
<1>5. LateReads /\ OwnNames(ReadEarly) /\ Uses[o] \subseteq ReadEarly /\ Uses[o] \subseteq Views
  BY DEF Settled, LateReads
<1>6. \A v \in Uses[o] : NameOf[v] \notin DOMAIN mem.views => v \in Overlooked'
  BY <1>2, <1>4, <1>5 DEF Listed, SeenViews
<1>7. \A v \in Uses[o] : v \notin known => v \in Overlooked'
  <2>1. CASE i = 4
    BY <1>5, <2>1
  <2>2. CASE i = 3
    <3>1. o \in blank \/ Uses[o] \subseteq plan.refs
      BY <2>2 DEF StepSet, Scoped
    <3>2. CASE o \in blank
      <4>1. Uses[o] \subseteq Overlooked
        BY <3>2 DEF Overlooked
      <4>. QED  BY <1>4, <4>1
    <3>3. CASE Uses[o] \subseteq plan.refs
      BY <1>4, <1>5, <2>2, <3>3
    <3>. QED  BY <3>1, <3>2, <3>3
  <2>. QED  BY <1>1, <2>1, <2>2
<1>8. \A v \in Uses[o] : v \notin known \/ NameOf[v] \notin DOMAIN mem.views => v \in Overlooked'
  BY <1>6, <1>7
<1>. HIDE DEF Importing
<1>. QED  BY <1>2, <1>3, <1>5, <1>8, ViewRefsBound

\* What a re-run starts from.
LEMMA StartsFrom ==
  ASSUME ~SameOrg, ~ResumeUndone, NEW resume \in BOOLEAN, StartApply(resume)
  PROVE  /\ UNCHANGED <<source, backup, target, disk, made, wanted, found, failed, unread>>
         /\ blank \subseteq blank'
         /\ \E dark \in SUBSET Dark : plan' = Classified(dark) /\ blank' = blank \cup dark
         /\ pc' = "run" /\ report' = "none"
         /\ \/ mem' = disk /\ ~disk.undone
            \/ mem' = Ledger(Mode)
<1>. QED  BY DEF StartApply

LEMMA NewLedger ==
  /\ Ledger(Mode).completed = {} /\ ~Ledger(Mode).undone /\ Ledger(Mode).views = Empty
  /\ DOMAIN Empty = {}
  BY EmptyDict DEF Ledger

\* Steps between two writes of the target Org
Between ==
    /\ UNCHANGED <<copies, uses, mem, blank>> /\ disk' \in {disk, mem}
    /\ pc' = "save" => ~Pending(2)' /\ ~Pending(3)' /\ ~Pending(4)'
    /\ UNCHANGED pc \/ pc' # "save" \/ pc = "share" \/ Pending(1)

LEMMA BetweenSteps ==
  ASSUME ~SameOrg, Types, Tracked,
         \/ RunBackup \/ BackupCutShort \/ StepFails \/ ShareStack \/ ShareContent
         \/ MigrationComplete \/ Crash
  PROVE  Between
<1>1. CASE BackupCutShort \/ StepFails \/ MigrationComplete \/ Crash
  BY <1>1 DEF BackupCutShort, StepFails, MigrationComplete, Crash, Between, target,
                work
<1>2. CASE RunBackup
  <2>1. /\ pc' = "save" /\ Pending(1) /\ UNCHANGED <<target, disk, mem, blank>>
    BY <1>2, StepNumbers DEF RunBackup, work
  <2>2. ~Pending(2)' /\ ~Pending(3)' /\ ~Pending(4)'
    BY <2>1, PendingOne, PendingNext
  <2>. QED  BY <2>1, <2>2 DEF Between, target
<1>3. CASE ShareStack
  <2>1. PICK faults, lost : \E listed \in BOOLEAN : Stacking(faults, lost, listed)
    BY <1>3, StacksStep
  <2>. QED  BY <2>1 DEF Stacking, Between
<1>4. CASE ShareContent
  <2>1. PICK lost : Granting(lost)
    BY <1>4, GrantsStep
  <2>2. ~Pending(2)' /\ ~Pending(3)' /\ ~Pending(4)'
    <3>1. Pending(5) /\ mem' = mem
      BY <2>1 DEF Granting, Tracked
    <3>. QED  BY <3>1, PendingOne, PendingNext
  <2>. QED  BY <2>1, <2>2 DEF Granting, Between
<1>. QED  BY <1>1, <1>2, <1>3, <1>4

LEMMA BindingNext ==
  ASSUME ~SameOrg, Settled, Types, Types', Survival, Scoped, Tracked, Binding, [Next]_vars
  PROVE  Binding'
<1>. USE DEF Binding
<1>1. CASE \E resume \in BOOLEAN : StartApply(resume)
  <2>1. /\ UNCHANGED <<source, target, disk>> /\ blank \subseteq blank'
        /\ \E dark \in SUBSET Dark : plan' = Classified(dark) /\ blank' = blank \cup dark
        /\ pc' = "run" /\ report' = "none"
        /\ \/ mem' = disk /\ ~disk.undone
           \/ mem' = Ledger(Mode)
    BY <1>1, StartsFrom DEF Settled
  <2>2. SeenViews' \subseteq plan'.views /\ plan'.views \subseteq ReadEarly
    <3>1. /\ exists \subseteq Objects /\ Early \subseteq exists
      BY DEF Types, TypeOK, Survival, OriginalsSurvive, Early
    <3>2. PICK dark \in SUBSET Dark : plan' = Classified(dark) /\ blank' = blank \cup dark
      BY <2>1
    <3>3. /\ \A v \in ReadEarly : v \in plan'.views \/ \E k \in dark : v \in Uses[k]
          /\ plan'.views \subseteq ReadEarly /\ dark \subseteq Content
      BY <3>1, <3>2, ClassifiedFits DEF Scoped, Settled
    <3>4. \A k \in dark : Uses[k] \subseteq Overlooked'
      BY <3>2, <3>3 DEF Overlooked
    <3>. QED  BY <3>3, <3>4 DEF SeenViews, ReadEarly
  <2>3. NoStrandedCopy'
    BY <2>1, StrandedStays DEF target
  <2>4. ViewsCopied(mem)' /\ (disk.undone \/ ViewsCopied(disk)')
    <3>1. \A l : ViewsCopied(l) => ViewsCopied(l)'
      BY <2>1, ViewsStay DEF target
    <3>2. ViewsCopied(Ledger(Mode))
      BY NewLedger DEF ViewsCopied, Living
    <3>3. disk.undone \/ ViewsCopied(disk)'
      BY <2>1, <3>1 DEF ViewsCopied
    <3>4. ViewsCopied(mem)'
      BY <2>1, <3>1, <3>2 DEF ViewsCopied, Living, Listed
    <3>. QED  BY <3>3, <3>4
  <2>5. ~mem'.undone
    BY <2>1, NewLedger
  <2>. QED  BY <2>1, <2>2, <2>3, <2>4, <2>5
<1>2. CASE RewriteViews \/ RewriteContent \/ MoveShielded
  <2>1. PICK i \in {2, 3, 4}, os \in SUBSET Objects, n \in Nat, known \in SUBSET Views :
          Importing(i, os, n, known)
    BY <1>2, ImportsStep
  <2>2. /\ Applying /\ ~mem.undone /\ SeenViews \subseteq plan.views /\ plan.views \subseteq ReadEarly
        /\ copies \subseteq copies' /\ blank \subseteq blank' /\ Overlooked \subseteq Overlooked'
        /\ SeenViews' \subseteq SeenViews
    BY <2>1, Overlooking DEF Applying, Importing
  <2>3. ASSUME NEW g \in copies', ~IsView(g)
        PROVE  Reads(uses'[g], g[1], copies', Overlooked')
    <3>1. CASE g \in copies
      <4>1. Reads(uses[g], g[1], copies, Overlooked) /\ uses'[g] = uses[g]
        BY <2>1, <2>3, <3>1, Stranded DEF Importing
      <4>. QED  BY <2>2, <4>1 DEF Reads, Leads
    <3>2. CASE g \notin copies
      <4>1. PICK o \in os : g = <<o, n>>
        BY <2>1, <3>2 DEF Importing
      <4>2. o \in Content
        BY <2>3, <4>1 DEF IsView, Objects
      <4>3. Reads(ViewRefs(o, known), o, copies, Overlooked')
        BY <2>1, <4>2, ImportBound
      <4>4. uses'[g] = ViewRefs(o, known)
        BY <2>1, <3>2, <4>1 DEF Importing
      <4>. QED  BY <2>2, <4>1, <4>3, <4>4 DEF Reads, Leads
    <3>. QED  BY <3>1, <3>2
  <2>4. NoStrandedCopy'
    BY <2>3, StrandedNext
  <2>5. \A l \in {mem, disk} : ViewsCopied(l) => ViewsCopied(l)'
    BY <2>2, ViewsStay
  <2>6. ASSUME Pending(2)' PROVE Living(made)' /\ Listed(SeenViews, made)'
    <3>. USE <2>1 DEF Importing
    <3>1. i = 2
      BY <2>6, PendingOne, PendingNext
    <3>2. os = plan.views
      BY <3>1 DEF StepSet
    <3>3. \A k \in DOMAIN made' : made'[k] = <<made'[k][1], n>> /\ made'[k][1] \in os
      BY NamedKeyed DEF KeyedBy
    <3>4. Living(made)'
      BY <2>2, <3>2, <3>3 DEF Living
    <3>5. Listed(SeenViews, made)'
      <4>1. \A o \in os : NameOf[o] \in DOMAIN made'
        BY DEF Named
      <4>. QED  BY <2>2, <3>2, <4>1 DEF Listed
    <3>. QED  BY <3>4, <3>5
  <2>. QED  BY <2>1, <2>2, <2>4, <2>5, <2>6 DEF Applying, Importing, ViewsCopied
<1>3. CASE SaveStep
  <2>1. PICK i \in 1..5 : Saving(i)
    BY <1>3, SavesStep
  <2>2. Applying /\ ~mem.undone /\ copies' = copies /\ uses' = uses /\ blank' = blank
    BY <2>1 DEF Applying, Saving, target
  <2>3. SeenViews' = SeenViews
    BY <2>2 DEF SeenViews, Overlooked
  <2>4. Living(mem'.views) /\ ("rewrite_views" \in mem'.completed => Listed(SeenViews, mem'.views))
    <3>1. CASE i = 2
      <4>1. mem'.views = made /\ Living(made) /\ Listed(SeenViews, made)
        BY <2>1, <3>1 DEF Saving
      <4>. QED  BY <4>1
    <3>2. CASE i # 2
      <4>1. mem'.views = mem.views
        BY <2>1, <3>2 DEF Saving
      <4>2. "rewrite_views" \in mem'.completed => "rewrite_views" \in mem.completed
        <5>1. StepOrder[i] # "rewrite_views"
          BY <3>2, Distinct DEF StepOrder
        <5>. QED  BY <2>1, <5>1 DEF Saving
      <4>. QED  BY <2>2, <4>1, <4>2 DEF ViewsCopied
    <3>. QED  BY <3>1, <3>2
  <2>5. ViewsCopied(mem)'
    BY <2>2, <2>3, <2>4 DEF ViewsCopied, Living, Listed
  <2>6. NoStrandedCopy'
    BY <2>2, StrandedStays
  <2>7. \A l \in {mem', disk'} : ~l.undone => ViewsCopied(l)'
    BY <2>1, <2>5 DEF Saving, ViewsCopied
  <2>. QED  BY <2>1, <2>2, <2>3, <2>6, <2>7 DEF Saving, Applying
<1>4. CASE \/ RunBackup \/ BackupCutShort \/ StepFails \/ ShareStack \/ ShareContent
           \/ MigrationComplete \/ Crash
  <2>1. Between
    BY <1>4, BetweenSteps
  <2>2. /\ plan' = plan
        /\ Applying' => Applying
        /\ report' = "migrated" => Applying \/ report = "migrated"
    <3>1. \A resume \in BOOLEAN : ~StartApply(resume)
      <4>1. CASE pc = "idle"
        BY <1>4, <4>1 DEF RunBackup, BackupCutShort, StepFails, ShareStack, ShareContent,
                          MigrationComplete, Crash, NextStep
      <4>2. CASE pc # "idle"
        BY <4>2 DEF StartApply
      <4>. QED  BY <4>1, <4>2
    <3>. QED  BY <3>1, PlanStays DEF Scoped
  <2>3. NoStrandedCopy'
    BY <2>1, StrandedStays DEF Between
  <2>4. \A l \in {mem, disk} : ViewsCopied(l) => ViewsCopied(l)'
    BY <2>1, ViewsStay DEF Between
  <2>5. mem' = mem /\ disk' \in {disk, mem} /\ (pc' = "save" => ~Pending(2)')
    BY <2>1 DEF Between
  <2>6. \A l \in {mem', disk'} : ~l.undone => ViewsCopied(l)'
    BY <2>4, <2>5 DEF ViewsCopied
  <2>7. Applying' => ~mem'.undone
    BY <2>2, <2>5
  <2>8. Applying' \/ report' = "migrated" =>
          SeenViews' \subseteq plan'.views /\ plan'.views \subseteq ReadEarly
    BY <2>1, <2>2 DEF Between, SeenViews, Overlooked
  <2>. QED  BY <2>3, <2>5, <2>6, <2>7, <2>8
<1>5. CASE StartRollback
  <2>1. Undoing
    BY <1>5, UndoesStep
  <2>2. NoStrandedCopy'
    BY <2>1, StrandedStays DEF Undoing, target
  <2>. QED  BY <2>1, <2>2 DEF Undoing, Applying
<1>6. CASE DeleteContent \/ DeleteViews
  <2>1. PICK gs \in SUBSET found : Deletes(gs)
    BY <1>6, DeletesStep
  <2>2. /\ mem.undone /\ disk = mem /\ UNCHANGED <<disk, mem, report, plan, blank>>
        /\ pc' \notin {"run", "save", "share"} /\ report = "none"
    BY <2>1 DEF Deletes, Tracked, Deleting, Scoped
  <2>3. \A g \in copies' : IsView(g) \/ Reads(uses'[g], g[1], copies', Overlooked')
    <3>1. Overlooked' = Overlooked
      BY <2>2 DEF Overlooked
    <3>2. \A g \in copies : IsView(g) \/ Reads(uses[g], g[1], copies, Overlooked)
      BY Stranded
    <3>. QED  BY <2>1, <3>1, <3>2 DEF Deletes, Reads, Leads
  <2>4. NoStrandedCopy'
    BY <2>3, StrandedNext
  <2>. QED  BY <2>2, <2>4 DEF Applying
<1>7. CASE FinishRollback
  <2>1. /\ pc = "deleted" /\ pc' = "idle" /\ UNCHANGED <<target, mem, plan, blank>>
        /\ disk' = disk \/ disk' = [mem EXCEPT !.rolledBack = TRUE]
        /\ report' \in {"incomplete", "rolled_back"}
    BY <1>7 DEF FinishRollback
  <2>2. mem.undone /\ disk = mem /\ mem \in LedgerType
    BY <2>1 DEF Tracked, Deleting, Types
  <2>3. disk'.undone /\ mem'.undone
    BY <2>1, <2>2 DEF LedgerType
  <2>4. NoStrandedCopy'
    BY <2>1, StrandedStays DEF target
  <2>. QED  BY <2>1, <2>3, <2>4 DEF Applying
<1>8. CASE AddObject \/ UNCHANGED vars
  <2>1. UNCHANGED <<copies, uses, disk, mem, made, plan, pc, report, blank>>
    BY <1>8 DEF AddObject, vars, target, work
  <2>2. \A j \in 1..5 : Pending(j)' <=> Pending(j)
    BY <2>1, PendingNext
  <2>3. NoStrandedCopy'
    BY <2>1, StrandedStays
  <2>4. SeenViews' = SeenViews
    BY <2>1 DEF SeenViews, Overlooked
  <2>. QED  BY <2>1, <2>2, <2>3, <2>4 DEF Applying, ViewsCopied, Living, Listed
<1>. QED  BY <1>1, <1>2, <1>3, <1>4, <1>5, <1>6, <1>7, <1>8 DEF Next

-----------------------------------------------------------------------------
(* What is done when apply says so                                         *)

\* What a ledger has accomplished stays so while the target Org only grows.
LEMMA AccomplishedStays ==
  ASSUME copies \subseteq copies', \A g \in copies : uses'[g] = uses[g],
         grants \subseteq grants', unread \subseteq unread', blank \subseteq blank'
  PROVE  /\ \A d, vs : /\ Brought(d, vs, Early \cap SeenMains) => Brought(d, vs, Early \cap SeenMains)'
                       /\ Brought(d, vs, Early \cap SeenShields) => Brought(d, vs, Early \cap SeenShields)'
         /\ \A l : Granted(l) => Granted(l)'
         /\ \A l : Accomplished(l) => Accomplished(l)'
<1>0. /\ Overlooked \subseteq Overlooked' /\ SeenMains' \subseteq SeenMains
      /\ SeenShields' \subseteq SeenShields /\ SeenContent' \subseteq SeenContent
  BY Overlooking
<1>2. ASSUME NEW d, NEW vs, Brought(d, vs, Early \cap SeenMains)
      PROVE  Brought(d, vs, Early \cap SeenMains)'
  <2>1. Early \cap SeenMains' \subseteq Early \cap SeenMains
    BY <1>0
  <2>2. /\ \A o \in Early \cap SeenMains' : /\ NameOf[o] \in DOMAIN d /\ d[NameOf[o]] \in copies'
                                       /\ d[NameOf[o]][1] = o
        /\ \A o \in (Early \cap SeenMains') \cap Content : Uses[o] \cap Overlooked' = {} =>
              uses'[d[NameOf[o]]] = {vs[NameOf[v]] : v \in Uses[o]}
    BY <1>0, <1>2, <2>1 DEF Brought, Copied
  <2>3. Early' = Early
    BY DEF Early
  <2>. QED  BY <2>2, <2>3 DEF Brought, Copied
<1>3. ASSUME NEW d, NEW vs, Brought(d, vs, Early \cap SeenShields)
      PROVE  Brought(d, vs, Early \cap SeenShields)'
  <2>1. Early \cap SeenShields' \subseteq Early \cap SeenShields
    BY <1>0
  <2>2. /\ \A o \in Early \cap SeenShields' : /\ NameOf[o] \in DOMAIN d /\ d[NameOf[o]] \in copies'
                                       /\ d[NameOf[o]][1] = o
        /\ \A o \in (Early \cap SeenShields') \cap Content : Uses[o] \cap Overlooked' = {} =>
              uses'[d[NameOf[o]]] = {vs[NameOf[v]] : v \in Uses[o]}
    BY <1>0, <1>3, <2>1 DEF Brought, Copied
  <2>3. Early' = Early
    BY DEF Early
  <2>. QED  BY <2>2, <2>3 DEF Brought, Copied
<1>4. ASSUME NEW l, Granted(l) PROVE Granted(l)'
  BY <1>0, <1>4 DEF Granted, CopyIn
<1>5. ASSUME NEW l, Accomplished(l) PROVE Accomplished(l)'
  BY <1>2, <1>3, <1>4, <1>5 DEF Accomplished
<1>. QED  BY <1>2, <1>3, <1>4, <1>5

\* The copies in a ledger read their Views.
LEMMA RecordedCopy ==
  ASSUME Types, Tracked, NoStrandedCopy, NEW d, NEW os, Copied(os, d), NEW o \in os
  PROVE  \E n \in 1..imports : /\ <<o, n>> \in copies /\ d[NameOf[o]] = <<o, n>>
                               /\ o \in Content => ReadsItsViews(o, n)
<1>. DEFINE g == d[NameOf[o]]
<1>1. g \in copies /\ g[1] = o
  BY DEF Copied
<1>. HIDE DEF g
<1>2. g \in Guids /\ g[2] \in 1..imports
  BY <1>1 DEF Types, TypeOK, Tracked
<1>3. g = <<o, g[2]>>
  BY <1>1, <1>2 DEF Guids
<1>4. o \in Content => ~IsView(g)
  BY <1>1 DEF IsView
<1>5. o \in Content => ReadsItsViews(o, g[2])
  BY <1>1, <1>4 DEF NoStrandedCopy
<1>. QED  BY <1>1, <1>2, <1>3, <1>5 DEF g

\* All steps completed is the tenant migrated.
LEMMA AllStepsDone ==
  ASSUME ~SameOrg, Settled, Types, Scoped, Tracked, NoStrandedCopy, ViewsCopied(mem),
         Accomplished(mem), mem.completed = StepNames, NEW o \in Early \ (Overlooked \ OnModel)
  PROVE  \E n \in 1..imports :
            /\ <<o, n>> \in copies
            /\ o \in Content =>
                  /\ ReadsItsViews(o, n)
                  /\ o \notin unread /\ Uses[o] \cap Overlooked = {} =>
                        \A grp \in GrantsOf[o] : <<<<o, n>>, grp>> \in grants
<1>0. /\ Living(mem.views) /\ Listed(SeenViews, mem.views) /\ Granted(mem)
      /\ Copied(Early \cap SeenMains, mem.content)
      /\ Copied(Early \cap SeenShields, mem.shielded)
      /\ KeyedBy(mem.views, Views)
  BY DEF ViewsCopied, Accomplished, StepNames, Brought, Tracked, Keyed
<1>1. CASE o \in SeenViews
  <2>1. Copied(SeenViews, mem.views)
    BY <1>0, ViewEntry DEF Listed, Copied, SeenViews, Settled
  <2>2. o \notin Content
    BY <1>1, Classes
  <2>. QED  BY <1>1, <2>1, <2>2, RecordedCopy
<1>2. CASE o \in SeenMains
  <2>. DEFINE os == Early \cap SeenMains
  <2>0. Copied(os, mem.content) /\ o \in os
    BY <1>0, <1>2
  <2>. HIDE DEF os
  <2>1. PICK n \in 1..imports : /\ <<o, n>> \in copies /\ mem.content[NameOf[o]] = <<o, n>>
                                /\ o \in Content => ReadsItsViews(o, n)
    BY <2>0, RecordedCopy
  <2>2. o \in Content => o \in OnModel
    BY <1>2 DEF SeenMains
  <2>3. o \in Content => CopyIn(mem, o) = <<o, n>> /\ o \in SeenContent
    BY <2>1, <2>2 DEF CopyIn, SeenContent, Shields
  <2>. QED  BY <1>0, <2>1, <2>3 DEF Granted
<1>3. CASE o \in SeenShields
  <2>. DEFINE os == Early \cap SeenShields
  <2>0. Copied(os, mem.shielded) /\ o \in os
    BY <1>0, <1>3
  <2>. HIDE DEF os
  <2>1. PICK n \in 1..imports : /\ <<o, n>> \in copies /\ mem.shielded[NameOf[o]] = <<o, n>>
                                /\ o \in Content => ReadsItsViews(o, n)
    BY <2>0, RecordedCopy
  <2>2. CopyIn(mem, o) = <<o, n>> /\ o \in SeenContent
    BY <1>3, <2>1 DEF CopyIn, SeenContent, SeenShields
  <2>. QED  BY <1>0, <2>1, <2>2 DEF Granted
<1>. QED  BY <1>1, <1>2, <1>3, Classes

\* A batch of content: all of its class that was there from the start and was not
\* overlooked, bound to the ledger's Views.
LEMMA BatchBrought ==
  ASSUME ~SameOrg, Settled, OwnNames(Others), Types, Tracked, Scoped, Binding,
         NEW i \in {3, 4}, NEW os \in SUBSET Objects, NEW n \in Nat, NEW known \in SUBSET Views,
         Importing(i, os, n, known)
  PROVE  /\ i = 3 => Brought(made, mem.views, Early \cap SeenMains)'
         /\ i = 4 => Brought(made, mem.views, Early \cap SeenShields)'
<1>. DEFINE class == IF i = 3 THEN SeenMains' ELSE SeenShields'
<1>1. /\ Applying /\ SeenViews \subseteq plan.views /\ plan.views \subseteq ReadEarly
      /\ Early \subseteq InPlan /\ blank \subseteq blank' /\ mem' = mem
  BY DEF Applying, Binding, Scoped, Importing
<1>2. /\ SeenMains' \subseteq SeenMains /\ SeenShields' \subseteq SeenShields
  BY <1>1, Overlooking
<1>3. os \subseteq Others /\ Early \cap class \subseteq os
  <2>1. /\ plan.content \subseteq Mains /\ plan.shielded \subseteq Shields
        /\ os = IF i = 3 THEN plan.content ELSE plan.shielded
    BY DEF Scoped, Types, PlanTypes, Shields, Importing, StepSet
  <2>2. CASE i = 3
    <3>1. \A o \in SeenMains : o \notin plan.views /\ o \notin plan.shielded
      BY <1>1 DEF SeenMains, ReadEarly, Types, PlanTypes
    <3>. QED  BY <1>1, <1>2, <2>1, <2>2, <3>1, Classes DEF InPlan
  <2>3. CASE i = 4
    <3>1. \A o \in SeenShields : o \notin plan.views /\ o \notin plan.content
      <4>1. \A o \in SeenShields : o \in Content /\ o \notin blank /\ o \notin OnModel
        BY DEF SeenShields, Shields
      <4>. QED  BY <2>1, <4>1 DEF Mains, Types, TypeOK
    <3>. QED  BY <1>1, <1>2, <2>1, <2>3, <3>1, Classes DEF InPlan
  <2>. QED  BY <2>2, <2>3
<1>4. OwnNames(os)
  BY <1>3 DEF OwnNames
<1>5. ASSUME NEW o \in Early \cap class
      PROVE  /\ NameOf[o] \in DOMAIN made' /\ made'[NameOf[o]] = <<o, n>> /\ <<o, n>> \in copies'
             /\ o \in Content /\ Uses[o] \cap Overlooked' = {} =>
                   uses'[<<o, n>>] = {mem.views[NameOf[v]] : v \in Uses[o]}
  <2>1. o \in os
    BY <1>3
  <2>2. NameOf[o] \in DOMAIN Named(os, n) /\ Named(os, n)[NameOf[o]] = <<o, n>>
    BY <1>4, <2>1, NamedWhole
  <2>3. <<o, n>> \in copies' \ copies
    <3>1. n = imports + 1 /\ imports \in Nat
      BY <2>1 DEF Types, TypeOK, Importing
    <3>2. <<o, n>> \notin copies
      BY <3>1 DEF Tracked
    <3>. QED  BY <2>1, <3>2 DEF Importing
  <2>4. uses'[<<o, n>>] = ViewRefs(o, known) /\ made' = Named(os, n)
    BY <2>3 DEF Importing
  <2>5. o \in Content /\ Uses[o] \cap Overlooked' = {} =>
           ViewRefs(o, known) = {mem.views[NameOf[v]] : v \in Uses[o]}
    BY <2>1, ImportBound
  <2>. QED  BY <2>2, <2>3, <2>4, <2>5
<1>6. \A o \in Early \cap class :
         /\ NameOf[o] \in DOMAIN made' /\ made'[NameOf[o]] \in copies'
         /\ made'[NameOf[o]][1] = o
         /\ o \in Content /\ Uses[o] \cap Overlooked' = {} =>
               uses'[made'[NameOf[o]]] = {mem'.views[NameOf[v]] : v \in Uses[o]}
  <2>. SUFFICES ASSUME NEW o \in Early \cap class
                PROVE  /\ NameOf[o] \in DOMAIN made' /\ made'[NameOf[o]] \in copies'
                       /\ made'[NameOf[o]][1] = o
                       /\ o \in Content /\ Uses[o] \cap Overlooked' = {} =>
                             uses'[made'[NameOf[o]]] = {mem'.views[NameOf[v]] : v \in Uses[o]}
    BY Zenon
  <2>1. made'[NameOf[o]] = <<o, n>> /\ <<o, n>>[1] = o
    BY <1>5
  <2>. QED  BY <1>1, <1>5, <2>1
<1>. HIDE DEF class
<1>7. /\ \A o \in Early \cap class :
            NameOf[o] \in DOMAIN made' /\ made'[NameOf[o]] \in copies' /\ made'[NameOf[o]][1] = o
      /\ \A o \in (Early \cap class) \cap Content : Uses[o] \cap Overlooked' = {} =>
            uses'[made'[NameOf[o]]] = {mem'.views[NameOf[v]] : v \in Uses[o]}
  BY <1>6
<1>8. Early' = Early
  BY DEF Early
<1>9. CASE i = 3
  <2>1. class = SeenMains'
    BY <1>9 DEF class
  <2>. QED  BY <1>7, <1>8, <1>9, <2>1 DEF Brought, Copied
<1>10. CASE i = 4
  <2>1. class = SeenShields'
    BY <1>10 DEF class
  <2>. QED  BY <1>7, <1>8, <1>10, <2>1 DEF Brought, Copied
<1>. QED  BY <1>9, <1>10

LEMMA ImportCompletes ==
  ASSUME ~SameOrg, Settled, OwnNames(Others), Types, Tracked, Scoped, Binding, Completing,
         RewriteViews \/ RewriteContent \/ MoveShielded
  PROVE  Completing'
<1>1. PICK i \in {2, 3, 4}, os \in SUBSET Objects, n \in Nat, known \in SUBSET Views :
          Importing(i, os, n, known)
  BY ImportsStep
<1>2. \A l : Accomplished(l) => Accomplished(l)'
  BY <1>1, AccomplishedStays DEF Importing
<1>3. /\ UNCHANGED <<mem, disk, report>> /\ pc' = "save" /\ report = "none"
  BY <1>1 DEF Importing, Scoped
<1>4. \A j \in 1..5 : Pending(j)' => j = i
  <2>1. Pending(i)
    BY <1>1 DEF Importing
  <2>. QED  BY <1>3, <2>1, PendingOne, PendingNext
<1>5. /\ i = 3 => Brought(made, mem.views, Early \cap SeenMains)'
      /\ i = 4 => Brought(made, mem.views, Early \cap SeenShields)'
  <2>1. CASE i = 2
    BY <2>1
  <2>2. CASE i \in {3, 4}
    BY <1>1, <2>2, BatchBrought
  <2>. QED  BY <2>1, <2>2
<1>6. /\ Pending(3)' => Brought(made, mem.views, Early \cap SeenMains)'
      /\ Pending(4)' => Brought(made, mem.views, Early \cap SeenShields)'
  BY <1>4, <1>5
<1>7. \A l \in {mem', disk'} : ~l.undone => Accomplished(l)'
  BY <1>2, <1>3 DEF Completing
<1>8. ~Pending(5)'
  BY <1>4
<1>9. CompleteMeansMigrated'
  BY <1>3 DEF CompleteMeansMigrated
<1>. QED  BY <1>3, <1>6, <1>7, <1>8, <1>9 DEF Completing

\* The ledger before a step has nothing of the later ones.
LEMMA NotYet ==
  ASSUME LedgerOK(mem), NEW i \in 1..5, Pending(i), NEW j \in i..5
  PROVE  StepOrder[j] \notin mem.completed
<1>1. i \in 1..5 /\ j \in 1..5 /\ i \in 1..j
  OBVIOUS
<1>. QED  BY <1>1 DEF LedgerOK, Pending

LEMMA SaveCompletes ==
  ASSUME ~SameOrg, Types, Types', Scoped, Tracked, Binding, Completing, SaveStep
  PROVE  Completing'
<1>1. PICK i \in 1..5 : Saving(i)
  BY SavesStep
<1>2. /\ pc = "save" /\ pc' = "run" /\ disk' = mem' /\ Pending(i) /\ report' = "none"
      /\ UNCHANGED <<copies, uses, grants, imports, unread, blank>>
      /\ mem'.completed = mem.completed \cup {StepOrder[i]} /\ mem'.undone = mem.undone
      /\ mem'.views = (IF i = 2 THEN made ELSE mem.views)
      /\ mem'.content = (IF i = 3 THEN made ELSE mem.content)
      /\ mem'.shielded = (IF i = 4 THEN made ELSE mem.shielded)
  BY <1>1 DEF Saving, target, Scoped
<1>3. Accomplished(mem)
  BY <1>2 DEF Binding, Applying, Completing
<1>4. /\ StepOrder[1] = "backup" /\ StepOrder[2] = "rewrite_views"
      /\ StepOrder[3] = "rewrite_content" /\ StepOrder[4] = "move_shielded"
      /\ StepOrder[5] = "share_grants"
  BY DEF StepOrder
<1>5. /\ i <= 3 => "rewrite_content" \notin mem.completed
      /\ i <= 4 => "move_shielded" \notin mem.completed
      /\ "share_grants" \notin mem.completed
  <2>1. LedgerOK(mem)
    BY DEF Types, TypeOK
  <2>2. \A j \in i..5 : StepOrder[j] \notin mem.completed
    BY <1>2, <2>1, NotYet
  <2>. QED  BY <1>4, <2>2
<1>6. /\ SeenMains' = SeenMains /\ SeenShields' = SeenShields /\ SeenContent' = SeenContent
      /\ Overlooked' = Overlooked /\ Early' = Early
  BY <1>2 DEF SeenMains, SeenShields, SeenContent, Overlooked, Shields, ReadEarly, Early
<1>7. ASSUME "rewrite_content" \in mem'.completed
      PROVE  Brought(mem'.content, mem'.views, Early \cap SeenMains)
  <2>1. i >= 3
    BY <1>2, <1>4, <1>5, <1>7
  <2>2. CASE i = 3
    <3>1. Brought(made, mem.views, Early \cap SeenMains)
      BY <1>2, <2>2 DEF Completing
    <3>. QED  BY <1>2, <2>2, <3>1
  <2>3. CASE i # 3
    <3>1. "rewrite_content" \in mem.completed
      BY <1>2, <1>4, <1>7, <2>3
    <3>2. mem'.content = mem.content /\ mem'.views = mem.views
      BY <1>2, <2>1, <2>3
    <3>. QED  BY <1>3, <3>1, <3>2 DEF Accomplished
  <2>. QED  BY <2>2, <2>3
<1>8. ASSUME "move_shielded" \in mem'.completed
      PROVE  Brought(mem'.shielded, mem'.views, Early \cap SeenShields)
  <2>1. i >= 4
    BY <1>2, <1>4, <1>5, <1>8
  <2>2. CASE i = 4
    <3>1. Brought(made, mem.views, Early \cap SeenShields)
      BY <1>2, <2>2 DEF Completing
    <3>. QED  BY <1>2, <2>2, <3>1
  <2>3. CASE i # 4
    <3>1. "move_shielded" \in mem.completed
      BY <1>2, <1>4, <1>8, <2>3
    <3>2. mem'.shielded = mem.shielded /\ mem'.views = mem.views
      BY <1>2, <2>1, <2>3
    <3>. QED  BY <1>3, <3>1, <3>2 DEF Accomplished
  <2>. QED  BY <2>2, <2>3
<1>9. ASSUME "share_grants" \in mem'.completed PROVE Granted(mem)'
  <2>1. i = 5
    BY <1>2, <1>4, <1>5, <1>9
  <2>2. Granted(mem)
    BY <1>2, <2>1 DEF Completing
  <2>3. /\ mem'.shielded = mem.shielded /\ mem'.content = mem.content
        /\ grants' = grants /\ unread' = unread
    BY <1>2, <2>1
  <2>. QED  BY <1>6, <2>2, <2>3 DEF Granted, CopyIn
<1>10. Accomplished(mem)'
  <2>1. "rewrite_content" \in mem'.completed => Brought(mem.content, mem.views, Early \cap SeenMains)'
    BY <1>2, <1>6, <1>7 DEF Brought, Copied
  <2>2. "move_shielded" \in mem'.completed => Brought(mem.shielded, mem.views, Early \cap SeenShields)'
    BY <1>2, <1>6, <1>8 DEF Brought, Copied
  <2>. QED  BY <1>9, <2>1, <2>2 DEF Accomplished
<1>11. \A l \in {mem', disk'} : ~l.undone => Accomplished(l)'
  BY <1>2, <1>10 DEF Accomplished
<1>12. CompleteMeansMigrated'
  BY <1>2 DEF CompleteMeansMigrated
<1>. QED  BY <1>2, <1>11, <1>12 DEF Completing

\* share_grants finds every recorded copy under its name.
LEMMA CreatedIs ==
  ASSUME OwnNames(Others), Keyed(mem),
         Brought(mem.content, mem.views, Early \cap SeenMains),
         Brought(mem.shielded, mem.views, Early \cap SeenShields), NEW o \in Early \cap SeenContent
  PROVE  LET created == Updated(mem.content, mem.shielded)
         IN  /\ NameOf[o] \in DOMAIN created /\ created[NameOf[o]] = CopyIn(mem, o)
             /\ CopyIn(mem, o) \in copies
             /\ Uses[o] \cap Overlooked = {} =>
                   uses[CopyIn(mem, o)] = {mem.views[NameOf[v]] : v \in Uses[o]}
<1>. DEFINE created == Updated(mem.content, mem.shielded)
<1>1. /\ DOMAIN created = DOMAIN mem.content \cup DOMAIN mem.shielded
      /\ \A n \in DOMAIN created :
            created[n] = IF n \in DOMAIN mem.shielded THEN mem.shielded[n] ELSE mem.content[n]
  BY DEF Updated
<1>. HIDE DEF created
<1>0. o \in Content /\ Content \subseteq Others
  BY Classes
<1>2. CASE o \in SeenShields
  <2>1. /\ NameOf[o] \in DOMAIN mem.shielded /\ mem.shielded[NameOf[o]] \in copies
        /\ Uses[o] \cap Overlooked = {} =>
              uses[mem.shielded[NameOf[o]]] = {mem.views[NameOf[v]] : v \in Uses[o]}
    BY <1>0, <1>2 DEF Brought, Copied
  <2>2. CopyIn(mem, o) = mem.shielded[NameOf[o]]
    BY <1>2 DEF CopyIn, SeenShields
  <2>. QED  BY <1>1, <2>1, <2>2 DEF created
<1>3. CASE o \in OnModel
  <2>1. o \in SeenMains /\ o \notin Shields
    BY <1>3 DEF SeenMains, Shields
  <2>2. /\ NameOf[o] \in DOMAIN mem.content /\ mem.content[NameOf[o]] \in copies
        /\ Uses[o] \cap Overlooked = {} =>
              uses[mem.content[NameOf[o]]] = {mem.views[NameOf[v]] : v \in Uses[o]}
    BY <1>0, <2>1 DEF Brought, Copied
  <2>3. ASSUME NameOf[o] \in DOMAIN mem.shielded PROVE FALSE
    <3>1. PICK p \in Shields : NameOf[p] = NameOf[o]
      BY <2>3 DEF Keyed, KeyedBy
    <3>2. p \in Others
      BY <1>0, <3>1 DEF Shields
    <3>. QED  BY <1>0, <2>1, <3>1, <3>2 DEF OwnNames
  <2>4. CopyIn(mem, o) = mem.content[NameOf[o]]
    BY <2>1 DEF CopyIn
  <2>. QED  BY <1>1, <2>2, <2>3, <2>4 DEF created
<1>. QED  BY <1>2, <1>3 DEF SeenContent

LEMMA StackCompletes ==
  ASSUME ~SameOrg, Settled, OwnNames(Others), Types, Scoped, Tracked, Binding, Completing,
         ShareStack
  PROVE  Completing'
<1>1. PICK faults, lost : \E listed \in BOOLEAN : Stacking(faults, lost, listed)
  BY StacksStep
<1>1a. PICK listed \in BOOLEAN : Stacking(faults, lost, listed)
  BY <1>1
<1>. DEFINE W == Wanted(faults)
            all == UNION Range(W)
<1>2. /\ Pending(5) /\ pc = "run" /\ pc' = "share" /\ wanted' = W
      /\ unread' = unread \cup faults \cup Unreached(listed) /\ failed' = (lost # {})
      /\ modelGroups' = modelGroups \cup (IF listed THEN all \ lost ELSE {})
      /\ grants' = grants \cup
            {x \in Range(mem.views) \X ((all \ lost) \cap modelGroups') : x[1] \in copies}
      /\ UNCHANGED <<copies, uses, imports, disk, mem, plan, report, blank>>
  BY <1>1a DEF Stacking
<1>3. /\ DOMAIN W = {NameOf[o] : o \in {p \in Shared \ faults : GrantsOf[p] # {}}}
      /\ \A n \in DOMAIN W : \E o \in Shared \ faults : NameOf[o] = n /\ W[n] = GrantsOf[o]
  BY WantedEntry
<1>. HIDE DEF W
<1>4. /\ ~mem.undone /\ Early \subseteq InPlan /\ plan.views \subseteq Views
      /\ plan.shielded \subseteq Objects /\ plan.content \subseteq Objects
  BY <1>2 DEF Applying, Binding, Scoped, Types, TypeOK, Objects
<1>5. Living(mem.views) /\ Listed(SeenViews, mem.views) /\ KeyedBy(mem.views, Views)
  BY <1>2, <1>4, DoneBefore DEF Binding, ViewsCopied, Tracked, Keyed
<1>5a. Copied(SeenViews, mem.views)
  BY <1>5, ViewEntry DEF Listed, Copied, SeenViews, Settled
<1>5b. Early \cap Content \subseteq Shared
  BY <1>4 DEF InPlan, Shared
<1>6. ASSUME NEW o \in Early \cap Content, o \notin unread', GrantsOf[o] # {}
      PROVE  NameOf[o] \in DOMAIN W /\ W[NameOf[o]] = GrantsOf[o]
  <2>1. o \in Shared \ faults
    BY <1>2, <1>5b, <1>6
  <2>2. NameOf[o] \in DOMAIN W
    BY <1>3, <1>6, <2>1
  <2>3. PICK p \in Shared : NameOf[p] = NameOf[o] /\ W[NameOf[o]] = GrantsOf[p]
    BY <1>3, <2>2
  <2>4. p = o
    BY <2>1, <2>3, SharedAreOthers DEF OwnNames
  <2>. QED  BY <2>2, <2>3, <2>4
<1>7. ASSUME ~failed' PROVE StackGranted'
  <2>1. all \ lost = all
    BY <1>2, <1>7
  <2>2. ASSUME NEW o \in Early \cap Content, o \notin unread'
        PROVE  GrantsOf[o] \subseteq modelGroups'
    <3>1. CASE GrantsOf[o] = {}
      BY <3>1
    <3>2. CASE GrantsOf[o] # {} /\ listed
      <4>1. GrantsOf[o] \subseteq all
        BY <1>6, <2>2, <3>2 DEF Range
      <4>. QED  BY <1>2, <2>1, <3>2, <4>1
    <3>3. CASE ~listed
      <4>1. o \in Shared
        BY <1>5b
      <4>2. o \notin Unreached(listed)
        BY <1>2, <2>2
      <4>3. GrantsOf[o] \subseteq modelGroups
        BY <3>3, <4>1, <4>2 DEF Unreached
      <4>. QED  BY <1>2, <4>3
    <3>. QED  BY <3>1, <3>2, <3>3
  <2>3. ASSUME NEW grp \in all \cap modelGroups', NEW v \in SeenViews
        PROVE  <<mem.views[NameOf[v]], grp>> \in grants'
    <3>1. mem.views[NameOf[v]] \in Range(mem.views) /\ mem.views[NameOf[v]] \in copies
      BY <1>5a DEF Copied, Range
    <3>2. grp \in (all \ lost) \cap modelGroups'
      BY <2>1
    <3>. HIDE DEF all
    <3>3. <<mem.views[NameOf[v]], grp>> \in
            {x \in Range(mem.views) \X ((all \ lost) \cap modelGroups') : x[1] \in copies}
      BY <3>1, <3>2
    <3>. QED  BY <1>2, <3>3
  <2>4. SeenViews' = SeenViews /\ Early' = Early
    BY <1>2 DEF SeenViews, Overlooked, Early
  <2>. QED  BY <1>2, <2>2, <2>3, <2>4 DEF StackGranted
<1>8. \A l : Accomplished(l) => Accomplished(l)'
  BY <1>2, AccomplishedStays
<1>9. CompleteMeansMigrated' /\ \A l \in {mem', disk'} : ~l.undone => Accomplished(l)'
  BY <1>2, <1>8 DEF Completing, CompleteMeansMigrated, Scoped
<1>10. \A o \in Early \cap Content :
          o \in unread' \/ GrantsOf[o] = {} \/
            (NameOf[o] \in DOMAIN wanted' /\ wanted'[NameOf[o]] = GrantsOf[o])
  BY <1>2, <1>6
<1>. QED  BY <1>2, <1>7, <1>9, <1>10 DEF Completing

LEMMA ContentCompletes ==
  ASSUME ~SameOrg, Settled, OwnNames(Others), Types, Scoped, Tracked, Binding, Completing,
         ShareContent
  PROVE  Completing'
<1>1. PICK lost : Granting(lost)
  BY GrantsStep
<1>2. /\ pc = "share" /\ pc' = (IF failed \/ lost # {} THEN "idle" ELSE "save")
      /\ disk' \in {disk, mem} /\ mem' = mem /\ report' # "migrated"
      /\ UNCHANGED <<copies, uses, imports, plan, unread, blank>> /\ grants \subseteq grants'
      /\ Pending(5)
  BY <1>1 DEF Granting, Tracked, Scoped
<1>3. ~mem.undone /\ Accomplished(mem)
  BY <1>2 DEF Applying, Binding, Completing
<1>4. ASSUME pc' = "save" PROVE Granted(mem)'
  <2>1. lost = {} /\ ~failed
    BY <1>2, <1>4
  <2>2. StackGranted
    BY <1>2, <2>1 DEF Completing
  <2>3. /\ Brought(mem.content, mem.views, Early \cap SeenMains)
        /\ Brought(mem.shielded, mem.views, Early \cap SeenShields)
    BY <1>2, <1>3, DoneBefore DEF Accomplished
  <2>4. ASSUME NEW o \in Early \cap SeenContent, o \notin unread, Uses[o] \cap Overlooked = {},
               NEW grp \in GrantsOf[o]
        PROVE  <<CopyIn(mem, o), grp>> \in grants'
    <3>. DEFINE created == Updated(mem.content, mem.shielded)
    <3>0. o \in Early \cap Content /\ Uses[o] \subseteq SeenViews
      BY <2>4, Classes DEF SeenViews, Settled, LateReads
    <3>1. /\ NameOf[o] \in DOMAIN created /\ created[NameOf[o]] = CopyIn(mem, o)
          /\ CopyIn(mem, o) \in copies
          /\ uses[CopyIn(mem, o)] = {mem.views[NameOf[v]] : v \in Uses[o]}
      BY <2>3, <2>4, CreatedIs DEF Tracked
    <3>2. NameOf[o] \in DOMAIN wanted /\ grp \in wanted[NameOf[o]]
      BY <1>2, <2>4, <3>0 DEF Completing
    <3>3. grp \in UNION Range(wanted) /\ grp \in modelGroups
      BY <2>2, <2>4, <3>0, <3>2 DEF Range, StackGranted
    <3>4. \A v \in Uses[o] : <<mem.views[NameOf[v]], grp>> \in grants
      BY <2>2, <3>0, <3>3 DEF StackGranted
    <3>5. \A g \in uses[created[NameOf[o]]] : <<g, grp>> \in grants
      BY <3>1, <3>4
    <3>. HIDE DEF created
    <3>6. \A n \in DOMAIN created \cap DOMAIN wanted : \A h \in wanted[n] :
             /\ created[n] \in copies
             /\ h \in modelGroups /\ \A g \in uses[created[n]] : <<g, h>> \in grants
             => <<created[n], h>> \in grants'
      BY <1>1, <2>1 DEF Granting, created
    <3>. QED  BY <3>1, <3>2, <3>3, <3>5, <3>6
  <2>5. SeenContent' = SeenContent /\ Overlooked' = Overlooked /\ Early' = Early
    BY <1>2 DEF SeenContent, SeenShields, Shields, Overlooked, Early
  <2>. QED  BY <1>2, <2>4, <2>5 DEF Granted, CopyIn
<1>5. \A l : Accomplished(l) => Accomplished(l)'
  BY <1>2, AccomplishedStays
<1>6. CompleteMeansMigrated' /\ \A l \in {mem', disk'} : ~l.undone => Accomplished(l)'
  BY <1>2, <1>5 DEF Completing, CompleteMeansMigrated
<1>7. pc' = "save" => ~Pending(3)' /\ ~Pending(4)'
  BY <1>2, PendingOne, PendingNext
<1>. QED  BY <1>2, <1>4, <1>6, <1>7 DEF Completing

LEMMA CompletingNext ==
  ASSUME ~SameOrg, Settled, OwnNames(Others), Types, Types', Survival, Scoped, Tracked, Binding,
         Completing, [Next]_vars
  PROVE  Completing'
<1>1. CASE \E resume \in BOOLEAN : StartApply(resume)
  <2>1. /\ UNCHANGED <<target, disk, unread>> /\ blank \subseteq blank'
        /\ pc' = "run" /\ report' = "none"
        /\ \/ mem' = disk /\ ~disk.undone
           \/ mem'.completed = {} /\ ~mem'.undone
    BY <1>1, StartsFrom, NewLedger DEF Settled
  <2>2. \A l : Accomplished(l) => Accomplished(l)'
    BY <2>1, AccomplishedStays DEF target
  <2>3. \A l \in {mem', disk'} : ~l.undone => Accomplished(l)'
    <3>1. mem'.completed = {} => Accomplished(mem)'
      BY DEF Accomplished
    <3>. QED  BY <2>1, <2>2, <3>1 DEF Completing, Accomplished
  <2>. QED  BY <2>1, <2>3 DEF Completing, CompleteMeansMigrated
<1>2. CASE RewriteViews \/ RewriteContent \/ MoveShielded
  BY <1>2, ImportCompletes
<1>3. CASE SaveStep
  BY <1>3, SaveCompletes
<1>4. CASE ShareStack
  BY <1>4, StackCompletes
<1>5. CASE ShareContent
  BY <1>5, ContentCompletes
<1>6. CASE RunBackup
  <2>1. /\ Pending(1) /\ pc = "run" /\ pc' = "save"
        /\ UNCHANGED <<target, disk, mem, work, report, plan>>
    BY <1>6, StepNumbers DEF RunBackup, NextStep
  <2>2. ~Pending(3)' /\ ~Pending(4)' /\ ~Pending(5)'
    BY <2>1, PendingOne, PendingNext
  <2>3. \A l : Accomplished(l) => Accomplished(l)'
    BY <2>1, AccomplishedStays DEF target, work
  <2>4. report' # "migrated"
    BY <2>1 DEF Scoped
  <2>. QED  BY <2>1, <2>2, <2>3, <2>4 DEF Completing, CompleteMeansMigrated
<1>7. CASE BackupCutShort \/ StepFails \/ Crash
  <2>1. /\ pc # "idle" /\ pc' = "idle" /\ UNCHANGED <<target, mem, unread, blank>>
        /\ disk' \in {disk, mem}
        /\ report' \in {report, "failed"}
    BY <1>7 DEF BackupCutShort, StepFails, Crash, work, NextStep
  <2>2. \A l : Accomplished(l) => Accomplished(l)'
    BY <2>1, AccomplishedStays DEF target
  <2>3. report' # "migrated"
    BY <2>1 DEF Scoped
  <2>. QED  BY <2>1, <2>2, <2>3 DEF Completing, CompleteMeansMigrated
<1>8. CASE MigrationComplete
  <2>1. /\ pc = "run" /\ mem.completed = StepNames /\ pc' = "idle"
        /\ UNCHANGED <<source, target, disk, mem, plan, work>>
    BY <1>8 DEF MigrationComplete
  <2>2. \A l : Accomplished(l) => Accomplished(l)'
    BY <2>1, AccomplishedStays DEF target, work
  <2>3. ViewsCopied(mem) /\ Accomplished(mem) /\ NoStrandedCopy
    BY <2>1 DEF Applying, Binding, Completing
  <2>4. ASSUME NEW o \in Early \ (Overlooked \ OnModel)
        PROVE  \E n \in 1..imports :
                  /\ <<o, n>> \in copies
                  /\ o \in Content =>
                        /\ ReadsItsViews(o, n)
                        /\ o \notin unread /\ Uses[o] \cap Overlooked = {} =>
                              \A grp \in GrantsOf[o] : <<<<o, n>>, grp>> \in grants
    BY <2>1, <2>3, AllStepsDone
  <2>5. InPlan \ (LateObjects \cup (Overlooked \ OnModel)) \subseteq Early \ (Overlooked \ OnModel)
    BY DEF Types, TypeOK, InPlan, Early, Objects
  <2>6. UNCHANGED <<plan, copies, uses, grants, imports, unread, blank>>
    BY <2>1 DEF target, work
  <2>7. InPlan' = InPlan /\ Overlooked' = Overlooked
    BY <2>6 DEF InPlan, Overlooked
  <2>8. \A o, n : ReadsItsViews(o, n) => ReadsItsViews(o, n)'
    BY <2>6, <2>7 DEF ReadsItsViews
  <2>9. CompleteMeansMigrated'
    BY <2>4, <2>5, <2>6, <2>7, <2>8 DEF CompleteMeansMigrated
  <2>. QED  BY <2>1, <2>2, <2>9 DEF Completing
<1>9. CASE StartRollback
  BY <1>9, UndoesStep DEF Undoing, Completing, CompleteMeansMigrated
<1>10. CASE DeleteContent \/ DeleteViews
  <2>1. PICK gs \in SUBSET found : Deletes(gs)
    BY <1>10, DeletesStep
  <2>2. /\ mem'.undone /\ disk' = mem' /\ report' # "migrated"
        /\ pc' \notin {"save", "share"}
    BY <2>1 DEF Deletes, Tracked, Deleting, Scoped
  <2>. QED  BY <2>2 DEF Completing, CompleteMeansMigrated
<1>11. CASE FinishRollback
  <2>1. /\ pc = "deleted" /\ pc' = "idle" /\ mem' = mem
        /\ disk' = disk \/ disk' = [mem EXCEPT !.rolledBack = TRUE]
        /\ report' \in {"incomplete", "rolled_back"}
    BY <1>11 DEF FinishRollback
  <2>2. mem.undone /\ disk = mem /\ mem \in LedgerType
    BY <2>1 DEF Tracked, Deleting, Types
  <2>3. disk'.undone /\ mem'.undone
    BY <2>1, <2>2 DEF LedgerType
  <2>. QED  BY <2>1, <2>3 DEF Completing, CompleteMeansMigrated
<1>12. CASE AddObject \/ UNCHANGED vars
  <2>1. UNCHANGED <<copies, uses, modelGroups, grants, imports, disk, mem, made, wanted, failed,
                    unread, plan, pc, report, blank>>
    BY <1>12 DEF AddObject, vars, target, work
  <2>2. \A j \in 1..5 : Pending(j)' <=> Pending(j)
    BY <2>1, PendingNext
  <2>3. CompleteMeansMigrated'
    <3>1. InPlan' = InPlan /\ Overlooked' = Overlooked
      BY <2>1 DEF InPlan, Overlooked
    <3>2. \A o, n : ReadsItsViews(o, n) => ReadsItsViews(o, n)'
      BY <2>1, <3>1 DEF ReadsItsViews
    <3>. QED  BY <2>1, <3>1, <3>2 DEF Completing, CompleteMeansMigrated
  <2>4. \A l : Accomplished(l) => Accomplished(l)'
    BY <2>1, AccomplishedStays
  <2>5. \A l \in {mem', disk'} : ~l.undone => Accomplished(l)'
    BY <2>1, <2>4 DEF Completing
  <2>0. /\ SeenMains' = SeenMains /\ SeenShields' = SeenShields /\ SeenContent' = SeenContent
        /\ SeenViews' = SeenViews /\ Overlooked' = Overlooked /\ Early' = Early
    BY <2>1 DEF SeenMains, SeenShields, SeenContent, SeenViews, Overlooked, Shields, ReadEarly, Early
  <2>6. pc' = "save" => /\ Pending(3)' => Brought(made, mem.views, Early \cap SeenMains)'
                        /\ Pending(4)' => Brought(made, mem.views, Early \cap SeenShields)'
                        /\ Pending(5)' => Granted(mem)'
    <3>1. pc' = "save" => /\ Pending(3)' => Brought(made, mem.views, Early \cap SeenMains)
                          /\ Pending(4)' => Brought(made, mem.views, Early \cap SeenShields)
                          /\ Pending(5)' => Granted(mem)
      BY <2>1, <2>2 DEF Completing
    <3>2. /\ Brought(made, mem.views, Early \cap SeenMains)
                => Brought(made, mem.views, Early \cap SeenMains)'
          /\ Brought(made, mem.views, Early \cap SeenShields)
                => Brought(made, mem.views, Early \cap SeenShields)'
      BY <2>0, <2>1 DEF Brought, Copied
    <3>3. Granted(mem) => Granted(mem)'
      BY <2>0, <2>1 DEF Granted, CopyIn
    <3>. QED  BY <3>1, <3>2, <3>3
  <2>7. pc' = "share" =>
          /\ \A o \in Early \cap Content : o \in unread' \/ GrantsOf[o] = {} \/
                (NameOf[o] \in DOMAIN wanted' /\ wanted'[NameOf[o]] = GrantsOf[o])
          /\ ~failed' => StackGranted'
    BY <2>0, <2>1 DEF Completing, StackGranted
  <2>. QED  BY <2>3, <2>5, <2>6, <2>7 DEF Completing
<1>. QED  BY <1>1, <1>2, <1>3, <1>4, <1>5, <1>6, <1>7, <1>8, <1>9, <1>10, <1>11, <1>12 DEF Next

-----------------------------------------------------------------------------
(* The theorems                                                            *)

\* A migration in place creates and grants nothing.
Nothing == copies = {} /\ grants = {} /\ uses = Empty /\ report # "rolled_back"

Intact ==
    /\ Types /\ Survival
    /\ SameOrg => Nothing
    /\ ~SameOrg => Scoped /\ Tracked
    /\ ~SameOrg /\ OwnNames(Others) => Withdrawing /\ Sharing
    /\ ~SameOrg /\ Settled => Binding
    /\ ~SameOrg /\ Settled /\ OwnNames(Others) => Completing

LEMMA InitIntact == Init => Intact
<1>. SUFFICES ASSUME Init PROVE Intact
  OBVIOUS
<1>. USE DEF Init
<1>1. Types /\ Survival
  BY InitTypes, InitSurvival
<1>2. /\ copies = {} /\ grants = {} /\ uses = Empty /\ report = "none" /\ pc = "idle"
      /\ mem = NoLedger /\ plan = NoPlan
  OBVIOUS
<1>3. SameOrg => Nothing
  BY <1>2 DEF Nothing
<1>. SUFFICES ASSUME ~SameOrg
              PROVE  Scoped /\ Tracked /\ Withdrawing /\ Sharing /\ Binding /\ Completing
  BY <1>1, <1>3 DEF Intact
<1>4. disk = NoLedger /\ bound = [o \in Objects |-> "source"]
  OBVIOUS
<1>5. /\ NoLedger.completed = {} /\ Recorded(NoLedger) = {}
      /\ NoLedger.views = Empty /\ NoLedger.content = Empty /\ NoLedger.shielded = Empty
  BY LedgerTypes DEF NoLedger, Ledger
<1>6. Scoped
  BY <1>2, <1>4 DEF Scoped, InPlan, NoPlan, Applying
<1>7. Keyed(NoLedger)
  BY <1>5, EmptyKeyed DEF Keyed
<1>8. Tracked
  BY <1>2, <1>4, <1>7 DEF Tracked, Deleting
<1>9. Withdrawing /\ Sharing
  BY <1>2 DEF Withdrawing, Sharing, NoForeignGrant
<1>10. Binding
  BY <1>2, <1>4, <1>5, EmptyDict DEF Binding, NoStrandedCopy, ViewsCopied, Living, Applying
<1>11. Completing
  BY <1>2, <1>4, <1>5 DEF Completing, CompleteMeansMigrated, Accomplished
<1>. QED  BY <1>6, <1>8, <1>9, <1>10, <1>11

LEMMA NothingNext ==
  ASSUME SameOrg, Types, Survival, Nothing, [Next]_vars
  PROVE  Nothing'
<1>. USE DEF Nothing, target, work
<1>0. /\ pc \notin Deleting
      /\ disk.present => Refused(disk)
  BY DEF Survival, Home, Refused
<1>1. CASE \E resume \in BOOLEAN : StartApply(resume)
  BY <1>1 DEF StartApply
<1>2. CASE RunBackup \/ BackupCutShort \/ StepFails \/ SaveStep \/ MigrationComplete \/ Crash
  BY <1>2 DEF RunBackup, BackupCutShort, StepFails, SaveStep, MigrationComplete, Crash
<1>3. CASE RewriteViews \/ RewriteContent \/ MoveShielded
  BY <1>3 DEF RewriteViews, RewriteContent, MoveShielded, Import
<1>4. CASE ShareStack
  BY <1>4, StacksStep DEF Stacking
<1>5. CASE ShareContent
  <2>1. PICK lost : Granting(lost)
    BY <1>5, GrantsStep
  <2>2. grants' = {}
    BY <2>1 DEF Granting
  <2>. QED  BY <2>1, <2>2 DEF Granting
<1>6. CASE StartRollback \/ DeleteContent \/ DeleteViews \/ FinishRollback
  BY <1>0, <1>6 DEF StartRollback, DeleteContent, DeleteViews, FinishRollback, Deleting
<1>7. CASE AddObject \/ UNCHANGED vars
  BY <1>7 DEF AddObject, vars
<1>. QED  BY <1>1, <1>2, <1>3, <1>4, <1>5, <1>6, <1>7 DEF Next

LEMMA NextIntact == Intact /\ [Next]_vars => Intact'
<1>. SUFFICES ASSUME Intact, [Next]_vars PROVE Intact'
  OBVIOUS
<1>1. Types /\ Survival /\ Types' /\ Survival'
  BY NextTypes, NextSurvival DEF Intact
<1>2. SameOrg => Nothing'
  BY <1>1, NothingNext DEF Intact
<1>3. ~SameOrg => Scoped' /\ Tracked'
  BY <1>1, ScopedNext, TrackedNext DEF Intact
<1>4. ~SameOrg /\ OwnNames(Others) => Withdrawing' /\ Sharing'
  BY <1>1, WithdrawingNext, SharingNext DEF Intact
<1>5. ~SameOrg /\ Settled => Binding'
  BY <1>1, BindingNext DEF Intact
<1>6. ~SameOrg /\ Settled /\ OwnNames(Others) => Completing'
  BY <1>1, CompletingNext DEF Intact
<1>7. /\ OwnNames(Others)' <=> OwnNames(Others)
      /\ Settled' <=> Settled
  BY DEF OwnNames, Settled, LateReads, Others, SurelyRead, ReadEarly
<1>. QED  BY <1>1, <1>2, <1>3, <1>4, <1>5, <1>6, <1>7 DEF Intact

THEOREM IntactAlways == Spec => []Intact
  BY InitIntact, NextIntact, PTL DEF Spec

\* A rollback that reports success has left none of the copies the ledger records,
\* whichever probe or deletion failed and however often the command was killed before,
\* but for content that a discovery could not read (see the property).  Names must be
\* unique: of two recorded copies with one name one is forgotten.
THEOREM RolledBackMeansGoneAlways ==
  ASSUME OwnNames(Others)
  PROVE  Spec => []RolledBackMeansGone
<1>1. Intact => RolledBackMeansGone
  <2>. SUFFICES ASSUME Intact, report = "rolled_back"
                PROVE  \A g \in Recorded(disk) \cap Existing : g[1] \in blank \cap Content
    BY DEF RolledBackMeansGone
  <2>1. ~SameOrg
    BY DEF Intact, Nothing
  <2>2. /\ \A g \in Recorded(disk) \cap copies : g[1] \in blank \cap Content
        /\ \A g \in Recorded(disk) : g[2] > 0
    BY <2>1 DEF Intact, Withdrawing, Left, Survival, InTarget
  <2>. QED  BY <2>2 DEF Existing
<1>. QED  BY <1>1, IntactAlways, PTL

\* No group is granted a copy of content that it could not see before.
THEOREM NoForeignGrantAlways ==
  ASSUME OwnNames(Others)
  PROVE  Spec => []NoForeignGrant
<1>1. Intact => NoForeignGrant
  BY DEF Intact, Nothing, Sharing, NoForeignGrant
<1>. QED  BY <1>1, IntactAlways, PTL

\* No copy is ever bound to the copy of another View, to one that a rollback has deleted,
\* or, unless an export left that very View out, to a View of the source Org.  A View that
\* content reads must be among those that were read from the start, names of Views
\* unique, and apply not resumed from a ledger that a rollback has used.
THEOREM NoStrandedCopyAlways ==
  ASSUME Settled
  PROVE  Spec => []NoStrandedCopy
<1>1. Intact => NoStrandedCopy
  BY DEF Intact, Nothing, Binding, NoStrandedCopy
<1>. QED  BY <1>1, IntactAlways, PTL

\* When apply reports the migration complete, all that was there from the start has been
\* copied, is bound to copies of its own Views, and is granted to the groups that had it,
\* whatever the exports left out: that excuses only the objects the property names.
THEOREM CompleteMeansMigratedAlways ==
  ASSUME Settled, OwnNames(Others)
  PROVE  Spec => []CompleteMeansMigrated
<1>1. Intact => CompleteMeansMigrated
  <2>1. SameOrg => CompleteMeansMigrated
    BY DEF CompleteMeansMigrated
  <2>. QED  BY <2>1 DEF Intact, Completing
<1>. QED  BY <1>1, IntactAlways, PTL


-----------------------------------------------------------------------------
(* A migration in place that is complete has rewritten everything          *)

AllRewritten == \A o \in OnModel \cup (Views \ Overlooked) : bound[o] = "target"

\* The plan holds all that is still to be rewritten, and of Views those that content
\* reads: once rewrite_views is complete there are none of these (Keeps).
Replacing ==
    /\ Applying =>
         /\ \A o \in Views \cup OnModel :
               bound[o] = "source" => o \in plan.views \cup plan.content
         /\ \A v \in plan.views : \E k \in Content : v \in Uses[k]
    /\ \A l \in {mem, disk} : "rewrite_content" \in l.completed => AllRewritten
    /\ pc = "save" /\ Pending(3) => AllRewritten

LEMMA InitReplacing == InPlace /\ Init => Replacing
<1>. SUFFICES ASSUME InPlace, Init PROVE Replacing
  OBVIOUS
<1>1. pc = "idle" /\ mem = NoLedger /\ NoLedger.completed = {}
  BY DEF Init, NoLedger, Ledger
<1>2. disk = NoLedger \/ AllRewritten
  BY DEF Init, AllRewritten, Objects
<1>. QED  BY <1>1, <1>2 DEF Replacing, Applying

LEMMA ImportReplaces ==
  ASSUME InPlace, Types, Safekeeping, Replacing, RewriteViews \/ RewriteContent \/ MoveShielded
  PROVE  Replacing'
<1>1. /\ pc = "run" /\ pc' = "save" /\ UNCHANGED <<exists, disk, mem, plan>>
      /\ \A o \in Objects : bound'[o] = "source" => bound[o] = "source"
      /\ \A o \in Objects : bound[o] = "target" => bound'[o] = "target"
  <2>1. PICK os, known : Import(os, known) /\ pc = "run"
    BY DEF RewriteViews, RewriteContent, MoveShielded, NextStep
  <2>2. \/ bound' = bound
        \/ bound' = [o \in Objects |-> IF o \in os THEN "target" ELSE bound[o]]
    BY <2>1 DEF Import
  <2>. QED  BY <2>1, <2>2 DEF Import
<1>2. \A o \in Views \cup OnModel : o \in Objects /\ bound'[o] \in {"source", "target"}
  BY NextTypes DEF Types, TypeOK, Objects, Next
<1>0. blank' = blank /\ Overlooked' = Overlooked
  <2>1. blank' = blank
    BY DEF RewriteViews, RewriteContent, MoveShielded, InPlace
  <2>. QED  BY <2>1 DEF Overlooked
<1>3. AllRewritten => AllRewritten'
  BY <1>0, <1>1, <1>2 DEF AllRewritten
<1>4. Pending(3)' => AllRewritten'
  <2>. SUFFICES ASSUME Pending(3), NEW o \in OnModel \cup (Views \ Overlooked), bound'[o] # "target"
                PROVE  FALSE
    BY <1>0, <1>1, PendingNext DEF AllRewritten
  <2>1. RewriteContent
    BY PendingOne, StepNumbers DEF RewriteViews, MoveShielded
  <2>2. \A p \in plan.content : bound'[p] = "target"
    <3>1. plan.content \subseteq Objects
      BY DEF Types, TypeOK
    <3>2. PICK known : Import(plan.content, known)
      BY <2>1 DEF RewriteContent
    <3>. QED  BY <3>1, <3>2 DEF Import, InPlace
  <2>3. bound[o] = "source" /\ o \in plan.views
    BY <1>1, <1>2, <2>2 DEF Replacing, Applying
  <2>4. ClearlyRead = {} /\ exists = Objects
    BY <1>1, PendingSteps DEF Safekeeping, Keeps
  <2>5. PICK k \in Content : o \in Uses[k]
    BY <1>1, <2>3 DEF Replacing, Applying
  <2>6. o \in Views \ Overlooked
    BY <2>3 DEF Types, TypeOK
  <2>7. k \notin blank
    BY <2>5, <2>6 DEF Overlooked
  <2>8. o \in ClearlyRead
    BY <1>2, <2>3, <2>4, <2>5, <2>6, <2>7 DEF ClearlyRead, ViewsRead, ViewScope, Objects
  <2>. QED  BY <2>4, <2>8
<1>. QED  BY <1>1, <1>2, <1>3, <1>4 DEF Replacing, Applying

LEMMA ReplacingNext ==
  ASSUME InPlace, Types, Survival, Safekeeping, Replacing, [Next]_vars
  PROVE  Replacing'
<1>0. SameOrg /\ LateObjects = {}
  BY DEF InPlace
<1>1. ASSUME NEW resume \in BOOLEAN, StartApply(resume) PROVE Replacing'
  <2>0. PICK dark \in SUBSET Dark : plan' = Classified(dark) /\ blank' = blank \cup dark
    BY <1>1 DEF StartApply
  <2>1. /\ bound' = bound /\ disk' = disk /\ pc' = "run"
        /\ mem' = disk \/ mem'.completed = {}
    BY <1>1 DEF StartApply, source, Ledger
  <2>2. exists = Objects /\ \A o \in Objects : bound[o] \in {"source", "target"}
    BY DEF Safekeeping, Types, TypeOK
  <2>2a. /\ plan'.views = ViewsRead(dark)
         /\ plan'.content = ((Dependents \cap OnModel) \cup dark) \cup (ViewScope \ ViewsRead(dark))
    BY <2>0, ClassifiedParts
  <2>3. \A o \in Views \cup OnModel :
           bound[o] = "source" => o \in plan'.views \cup plan'.content
    BY <2>2, <2>2a DEF Dependents, ViewScope, Objects
  <2>4. \A v \in plan'.views : \E k \in Content : v \in Uses[k]
    BY <2>2a DEF ViewsRead
  <2>5. Overlooked \subseteq Overlooked'
    BY <2>0, Overlooking
  <2>6. AllRewritten => AllRewritten'
    BY <2>1, <2>5 DEF AllRewritten
  <2>. QED  BY <2>1, <2>3, <2>4, <2>6 DEF Replacing
<1>2. CASE RewriteViews \/ RewriteContent \/ MoveShielded
  BY <1>2, ImportReplaces
<1>3. CASE \/ RunBackup \/ BackupCutShort \/ StepFails \/ ShareStack \/ ShareContent
           \/ MigrationComplete \/ Crash \/ UNCHANGED vars
  <2>1. /\ UNCHANGED <<bound, plan, mem, blank>> /\ disk' \in {disk, mem}
        /\ Applying' => Applying
        /\ pc' = "save" => pc = "save" \/ Pending(1) \/ Pending(5)
    <3>1. CASE RunBackup
      BY <3>1, StepNumbers DEF RunBackup, Applying, source, NextStep, work
    <3>2. CASE ShareContent
      <4>1. Pending(5)
        BY <3>2 DEF ShareContent, Safekeeping, Underway, Applying
      <4>2. /\ UNCHANGED <<bound, plan, mem, blank>> /\ disk' \in {disk, mem}
            /\ pc = "share" /\ pc' \in {"idle", "save"}
        BY <3>2 DEF ShareContent, source
      <4>. QED  BY <4>1, <4>2 DEF Applying
    <3>3. CASE ShareStack
      BY <3>3 DEF ShareStack, Applying, source, NextStep
    <3>4. CASE BackupCutShort \/ StepFails \/ MigrationComplete \/ Crash \/ UNCHANGED vars
      BY <3>4 DEF BackupCutShort, StepFails, MigrationComplete, Crash, Applying, source, vars, work
    <3>. QED  BY <1>3, <3>1, <3>2, <3>3, <3>4
  <2>2. pc' = "save" /\ Pending(3)' => AllRewritten
    BY <2>1, PendingNext, PendingOne DEF Replacing
  <2>. QED  BY <2>1, <2>2 DEF Replacing, AllRewritten, Overlooked
<1>4. CASE SaveStep
  <2>1. PICK i \in 1..5 : Saving(i)
    BY <1>4, SavesStep
  <2>2. /\ UNCHANGED <<bound, plan, blank>> /\ pc = "save" /\ pc' = "run" /\ disk' = mem'
        /\ mem'.completed = mem.completed \cup {StepOrder[i]} /\ Pending(i)
    BY <2>1 DEF Saving, source
  <2>3. "rewrite_content" \in mem'.completed => AllRewritten
    <3>1. StepOrder[3] = "rewrite_content"
      BY DEF StepOrder
    <3>2. CASE "rewrite_content" \in mem.completed
      BY <3>2 DEF Replacing
    <3>3. CASE StepOrder[i] = "rewrite_content"
      <4>1. i = 3
        BY <3>1, <3>3, Distinct
      <4>. QED  BY <2>2, <4>1 DEF Replacing
    <3>. QED  BY <2>2, <3>2, <3>3
  <2>. QED  BY <2>2, <2>3 DEF Replacing, Applying, AllRewritten, Overlooked
<1>5. CASE StartRollback \/ DeleteContent \/ DeleteViews \/ FinishRollback \/ AddObject
  <2>1. pc \notin Deleting /\ (disk.present => Refused(disk))
    BY <1>0 DEF Survival, Home, Refused
  <2>. QED
    BY <1>0, <1>5, <2>1 DEF StartRollback, DeleteContent, DeleteViews, FinishRollback, Deleting,
       AddObject
<1>. QED  BY <1>1, <1>2, <1>3, <1>4, <1>5 DEF Next

-----------------------------------------------------------------------------
(* MigrateApply implements MigrationPromise                                *)

\* A migration in place keeps the originals if nothing is saved meanwhile, one to
\* another Org needs what the theorems above need.
Promised == IF SameOrg THEN LateObjects = {} ELSE Settled /\ OwnNames(Others)

Sound ==
    /\ Intact
    /\ InPlace => Safekeeping /\ Replacing

LEMMA NextSound == Sound /\ [Next]_vars => Sound'
<1>. SUFFICES ASSUME Sound, [Next]_vars PROVE Sound'
  OBVIOUS
<1>1. Intact' /\ Types /\ Survival
  BY NextIntact DEF Sound, Intact
<1>2. InPlace => Safekeeping' /\ Replacing'
  BY <1>1, NextSafekeeping, ReplacingNext DEF Sound
<1>. QED  BY <1>1, <1>2 DEF Sound, InPlace

LEMMA SoundAlways == Spec => []Sound
<1>1. Init => Sound
  BY InitIntact, InitSafekeeping, InitReplacing DEF Sound
<1>. QED  BY <1>1, NextSound, PTL DEF Spec

PromiseStep == [Promise!Next]_(Promise!vars)

LEMMA TellStep ==
  ASSUME UNCHANGED <<source, backup, copies, uses, grants, blank>>,
         report' = "migrated" => Promise!Done, report' = "rolled_back" => ~SameOrg
  PROVE  PromiseStep
<1>1. UNCHANGED <<Promise!tenant, Promise!given>>
  BY DEF Promise!tenant, Promise!given, source
<1>2. Overlooked' = Overlooked
  BY DEF Overlooked
<1>3. Promise!Tell
  BY <1>1, <1>2 DEF Promise!Tell
<1>. QED  BY <1>3 DEF Promise!Next, PromiseStep

LEMMA StutterStep ==
  ASSUME UNCHANGED <<source, backup, copies, uses, report, blank>>,
         {x \in grants' : ~IsView(x[1])} = {x \in grants : ~IsView(x[1])}
  PROVE  PromiseStep
  BY DEF PromiseStep, Promise!vars, source, Overlooked

LEMMA BackupKeepsPromise ==
  ASSUME Promised, Sound, RunBackup \/ BackupCutShort
  PROVE  PromiseStep
<1>1. PICK os \in SUBSET InPlan :
         /\ backup' = [o \in Objects |-> IF o \in os THEN bound[o] ELSE backup[o]]
         /\ NextStep("backup")
         /\ UNCHANGED <<source, copies, uses, grants, report, blank>>
  BY DEF RunBackup, BackupCutShort, WriteBackup, BackupScope, target, work
<1>2. InPlan \subseteq Objects /\ Types
  BY DEF Sound, Intact, Types, PlanTypes, InPlan, Objects
<1>3. \A o \in InPlan \ Overlooked : bound[o] = "source"
  <2>1. CASE SameOrg
    <3>1. Safekeeping
      BY <2>1 DEF Sound, InPlace, Promised
    <3>2. Found
      BY <1>1, <3>1, PendingSteps DEF Safekeeping, Underway, Applying, NextStep
    <3>3. InPlan = Dependents
      BY <3>2, ClassifiedScope
    <3>4. blank \subseteq Overlooked
      BY DEF Overlooked
    <3>. QED  BY <1>2, <3>1, <3>3, <3>4, ScopeIsUntouched
  <2>2. CASE ~SameOrg
    BY <1>2, <2>2 DEF Sound, Intact, Scoped
  <2>. QED  BY <2>1, <2>2
<1>4. \A o \in Objects :
         /\ backup[o] = "source" /\ o \notin Overlooked => backup'[o] = "source"
         /\ backup'[o] = "source" /\ bound[o] = "target" => backup[o] = "source"
  BY <1>1, <1>3
<1>5. Promise!Save
  <2>1. UNCHANGED <<exists, {o \in Objects : bound[o] = "target"}, Overlooked, Promise!given, report>>
    BY <1>1 DEF source, Promise!given, Overlooked
  <2>. QED  BY <1>4, <2>1 DEF Promise!Save, Promise!NoClaim
<1>. QED  BY <1>5 DEF PromiseStep, Promise!Next

LEMMA ImportKeepsPromise ==
  ASSUME Promised, Sound, Sound', RewriteViews \/ RewriteContent \/ MoveShielded
  PROVE  PromiseStep
<1>1. CASE SameOrg
  <2>1. InPlace /\ Safekeeping' /\ Types
    BY <1>1 DEF Sound, Intact, InPlace, Promised
  <2>2. PICK os, known : Import(os, known)
    BY DEF RewriteViews, RewriteContent, MoveShielded
  <2>3. /\ UNCHANGED <<exists, backup, copies, uses, grants, report>>
        /\ \A o \in Objects : bound[o] = "target" => bound'[o] = "target"
    BY <1>1, <2>2 DEF Import
  <2>4. blank' = blank
    BY <1>1 DEF RewriteViews, RewriteContent, MoveShielded
  <2>5. \A o \in Objects : bound'[o] = "target" => backup'[o] = "source" \/ o \in Overlooked
    BY <2>1, <2>4 DEF Safekeeping, Rewritten, Overlooked
  <2>6. Promise!RewriteInPlace
    <3>1. UNCHANGED <<exists, {o \in Objects : backup[o] = "source"}, Overlooked, Promise!given, report>>
      BY <2>3, <2>4 DEF Promise!given, Overlooked
    <3>. QED
      BY <1>1, <2>3, <2>5, <3>1 DEF Promise!RewriteInPlace, Promise!NoClaim
  <2>. QED  BY <2>6 DEF PromiseStep, Promise!Next
<1>2. CASE ~SameOrg
  <2>0. /\ Types /\ Types' /\ Scoped /\ Tracked /\ Binding /\ Binding' /\ Settled
    BY <1>2 DEF Sound, Intact, Promised, Settled, LateReads, OwnNames, ReadEarly
  <2>1. PICK i \in {2, 3, 4}, os \in SUBSET Objects, n \in Nat, known \in SUBSET Views :
          Importing(i, os, n, known)
    BY <1>2, <2>0, ImportsStep
  <2>2. /\ pc = "run" /\ os = StepSet(i) /\ blank \subseteq blank'
        /\ UNCHANGED <<source, backup, grants, report>>
        /\ copies' = copies \cup {<<o, n>> : o \in os}
        /\ IF os = {} THEN n = imports ELSE n = imports + 1
        /\ \A g \in copies : uses'[g] = uses[g]
        /\ \A g \in copies' \ copies : uses'[g] = ViewRefs(g[1], known)
    BY <2>1 DEF Importing
  <2>3. \A g \in copies' \ copies : g[1] \in os /\ g = <<g[1], n>> /\ g[2] = n
    BY <2>2
  <2>4. os \subseteq exists
    BY <2>0, <2>2 DEF StepSet, Scoped, InPlan
  <2>5. ASSUME NEW g \in copies' \ copies
        PROVE  /\ uses'[g] \cap (copies' \ copies) = {}
               /\ g[1] \in Content => Promise!Whole(g)'
    <3>1. g[1] \in os /\ g[1] \in Objects /\ n # 0
      BY <2>0, <2>2, <2>3 DEF Types, TypeOK
    <3>2. CASE g[1] \in Views
      <4>1. uses'[g] = {}
        BY <2>2, <3>2 DEF ViewRefs
      <4>. QED  BY <3>2, <4>1
    <3>3. CASE g[1] \in Content
      <4>1. Reads(ViewRefs(g[1], known), g[1], copies, Overlooked')
        BY <1>2, <2>0, <2>1, <3>1, <3>3, ImportBound
      <4>2. Reads(uses'[g], g[1], copies, Overlooked')
        BY <2>2, <4>1
      <4>3. \A v \in uses'[g] : v \in copies \/ v[2] = 0
        BY <4>2 DEF Reads, Leads
      <4>4. uses'[g] \cap (copies' \ copies) = {}
        BY <2>3, <3>1, <4>3
      <4>5. Promise!Whole(g)'
        BY <2>2, <4>2 DEF Promise!Whole, Promise!There, Reads, Leads
      <4>. QED  BY <4>4, <4>5
    <3>. QED  BY <3>1, <3>2, <3>3 DEF Objects
  <2>6. UNCHANGED <<Promise!tenant, {x \in grants : ~IsView(x[1])}, report>>
    BY <2>2 DEF Promise!tenant, source
  <2>7. Overlooked \subseteq Overlooked'
    BY <2>2, Overlooking
  <2>8. Promise!CopyOver
    <3>1. \A g \in copies' \ copies :
             /\ g[1] \in exists
             /\ uses'[g] \cap (copies' \ copies) = {}
             /\ g[1] \in Content => Promise!Whole(g)'
      BY <2>3, <2>4, <2>5
    <3>2. \A g, h \in copies' \ copies : g[1] = h[1] => g = h
      BY <2>3
    <3>3. copies \subseteq copies' /\ \A g \in copies : uses'[g] = uses[g]
      BY <2>2
    <3>. QED  BY <1>2, <2>6, <2>7, <3>1, <3>2, <3>3 DEF Promise!CopyOver, Promise!NoClaim
  <2>. QED  BY <2>8 DEF PromiseStep, Promise!Next
<1>. QED  BY <1>1, <1>2

LEMMA SharingKeepsPromise ==
  ASSUME Promised, Sound, Sound', ShareStack \/ ShareContent
  PROVE  PromiseStep
<1>0. Types /\ Types'
  BY DEF Sound, Intact
<1>1. CASE ShareStack
  <2>1. PICK faults, lost : \E listed \in BOOLEAN : Stacking(faults, lost, listed)
    BY <1>1, StacksStep
  <2>2. UNCHANGED <<source, backup, copies, uses, report, blank>>
    BY <2>1 DEF Stacking
  <2>3. {x \in grants' : ~IsView(x[1])} = {x \in grants : ~IsView(x[1])}
    <3>1. CASE SameOrg
      BY <3>1 DEF Sound, Intact, Nothing
    <3>2. CASE ~SameOrg
      <4>1. grants \subseteq grants' /\ \A x \in grants' \ grants : x[1] \in Range(mem.views)
        BY <2>1 DEF Stacking
      <4>2. \A g \in Range(mem.views) : IsView(g)
        BY <3>2 DEF Sound, Intact, Tracked, Keyed, KeyedBy, Range, IsView
      <4>. QED  BY <4>1, <4>2
    <3>. QED  BY <3>1, <3>2
  <2>. QED  BY <2>2, <2>3, StutterStep
<1>2. CASE ShareContent
  <2>1. PICK lost : Granting(lost)
    BY <1>2, GrantsStep
  <2>2. /\ UNCHANGED <<source, backup, copies, uses, blank>> /\ grants \subseteq grants'
        /\ \A x \in grants' \ grants : x[1] \in copies
        /\ report' = report \/ report' = "failed"
    BY <2>1 DEF Granting
  <2>3. \A x \in grants' : ~IsView(x[1]) => x[2] \in GrantsOf[x[1][1]]
    BY DEF Sound, Intact, Nothing, Sharing, NoForeignGrant, Promised
  <2>4. UNCHANGED <<Promise!tenant, Overlooked, copies, uses>>
    BY <2>2 DEF Promise!tenant, source, Overlooked
  <2>5. Promise!ShareWith
    BY <2>2, <2>3, <2>4 DEF Promise!ShareWith, Promise!NoClaim, Promise!Claims
  <2>. QED  BY <2>5 DEF PromiseStep, Promise!Next
<1>. QED  BY <1>1, <1>2

LEMMA CompleteKeepsPromise ==
  ASSUME Promised, Sound, MigrationComplete
  PROVE  PromiseStep
<1>1. /\ UNCHANGED <<source, backup, copies, uses, grants, blank>> /\ report' = "migrated"
      /\ mem.completed = StepNames /\ pc = "run"
  BY DEF MigrationComplete, target, work
<1>2. CASE SameOrg
  <2>1. AllRewritten
    BY <1>1, <1>2 DEF Sound, InPlace, Promised, Replacing, StepNames
  <2>2. \A o \in Views \cup OnModel : o \in Objects
    BY DEF Objects
  <2>3. Promise!Done
    BY <1>2, <2>1, <2>2 DEF Promise!Done, Promise!Surely, AllRewritten
  <2>. QED  BY <1>1, <2>3, TellStep
<1>3. CASE ~SameOrg
  <2>0. /\ Types /\ Scoped /\ Tracked /\ Binding /\ Completing /\ Settled
        /\ ViewsCopied(mem) /\ Accomplished(mem) /\ NoStrandedCopy
    BY <1>1, <1>3 DEF Sound, Intact, Promised, Binding, Completing, Applying
  <2>1. \A o \in Early \ (Overlooked \ OnModel) : \E g \in copies : g[1] = o /\ (o \in Content => Promise!Whole(g))
    <3>. SUFFICES ASSUME NEW o \in Early \ (Overlooked \ OnModel)
                  PROVE  \E g \in copies : g[1] = o /\ (o \in Content => Promise!Whole(g))
      OBVIOUS
    <3>1. PICK n \in 1..imports : <<o, n>> \in copies /\ (o \in Content => ReadsItsViews(o, n))
      BY <1>1, <1>3, <2>0, AllStepsDone
    <3>2. o \in Content => Promise!Whole(<<o, n>>)
      BY <3>1 DEF ReadsItsViews, Promise!Whole, Promise!There
    <3>. QED  BY <3>1, <3>2
  <2>2. Promise!Done
    BY <1>3, <2>1 DEF Promise!Done, Promise!Surely, Promise!Early, Early, Objects
  <2>. QED  BY <1>1, <2>2, TellStep
<1>. QED  BY <1>2, <1>3

LEMMA DeletionKeepsPromise ==
  ASSUME Promised, Sound, DeleteContent \/ DeleteViews
  PROVE  PromiseStep
<1>1. Types /\ ~SameOrg
  BY DeletesStep DEF Sound, Intact
<1>2. PICK gs \in SUBSET found : Deletes(gs)
  BY DeletesStep DEF Sound, Intact
<1>3. Tracked
  BY <1>1 DEF Sound, Intact
<1>4. UNCHANGED <<source, backup, report, blank>>
  BY <1>2 DEF Deletes
<1>5. CASE UNCHANGED <<copies, uses, grants>>
  BY <1>4, <1>5, StutterStep
<1>6. CASE /\ \A k \in copies \ gs : uses[k] \cap gs = {}
           /\ copies' = copies \ gs
           /\ \A g \in copies' : uses'[g] = uses[g]
           /\ grants' = {x \in grants : x[1] \notin gs}
  <2>1. \A g \in copies' : uses'[g] = uses[g] /\ uses[g] \cap copies \subseteq copies'
    BY <1>6
  <2>2. {x \in grants' : ~IsView(x[1])}
          = {x \in {y \in grants : ~IsView(y[1])} : x[1] \in copies'}
    BY <1>3, <1>6 DEF Tracked
  <2>3. UNCHANGED <<Promise!tenant, Overlooked, report>>
    BY <1>4 DEF Promise!tenant, source, Overlooked
  <2>4. Promise!Withdraw
    BY <1>6, <2>1, <2>2, <2>3 DEF Promise!Withdraw, Promise!NoClaim
  <2>. QED  BY <2>4 DEF PromiseStep, Promise!Next
<1>. QED  BY <1>2, <1>5, <1>6 DEF Deletes

LEMMA NextKeepsPromise ==
  ASSUME Promised, Sound, Sound', [Next]_vars
  PROVE  PromiseStep
<1>1. ASSUME NEW resume \in BOOLEAN, StartApply(resume) PROVE PromiseStep
  <2>1. /\ UNCHANGED <<source, backup, copies, uses, grants>> /\ report' = "none"
        /\ blank \subseteq blank'
    BY <1>1 DEF StartApply, target
  <2>2. UNCHANGED <<Promise!tenant, Promise!given>>
    BY <2>1 DEF Promise!tenant, Promise!given, source
  <2>3. Promise!Overlook
    BY <2>1, <2>2, Overlooking DEF Promise!Overlook, Promise!NoClaim, Promise!Claims
  <2>. QED  BY <2>3 DEF PromiseStep, Promise!Next
<1>2. CASE RunBackup \/ BackupCutShort
  BY <1>2, BackupKeepsPromise
<1>3. CASE RewriteViews \/ RewriteContent \/ MoveShielded
  BY <1>3, ImportKeepsPromise
<1>4. CASE ShareStack \/ ShareContent
  BY <1>4, SharingKeepsPromise
<1>5. CASE StepFails \/ StartRollback
  BY <1>5, TellStep DEF StepFails, StartRollback, target, work
<1>6. CASE MigrationComplete
  BY <1>6, CompleteKeepsPromise
<1>7. CASE DeleteContent \/ DeleteViews
  BY <1>7, DeletionKeepsPromise
<1>8. CASE FinishRollback
  <2>1. /\ UNCHANGED <<source, backup, copies, uses, grants, blank>> /\ pc = "deleted"
        /\ report' \in {"incomplete", "rolled_back"}
    BY <1>8 DEF FinishRollback, target
  <2>2. ~SameOrg
    BY <2>1 DEF Sound, Intact, Survival, Deleting
  <2>. QED  BY <2>1, <2>2, TellStep
<1>9. CASE SaveStep \/ Crash \/ UNCHANGED vars
  <2>1. UNCHANGED <<source, backup, copies, uses, grants, report, blank>>
    BY <1>9 DEF SaveStep, Crash, vars, target, source
  <2>. QED  BY <2>1, StutterStep
<1>10. CASE AddObject
  <2>1. PICK o \in LateObjects : exists' = exists \cup {o}
    BY <1>10 DEF AddObject
  <2>2. UNCHANGED <<bound, backup, copies, uses, grants, report, blank>>
    BY <1>10 DEF AddObject, target, work
  <2>3. UNCHANGED <<{p \in Objects : backup[p] = "source"}, {p \in Objects : bound[p] = "target"},
                    Overlooked, Promise!given, report>>
    BY <2>2 DEF Promise!given, Overlooked
  <2>4. Promise!TenantAdds
    BY <2>1, <2>3 DEF Promise!TenantAdds, Promise!NoClaim
  <2>. QED  BY <2>4 DEF PromiseStep, Promise!Next
<1>. QED  BY <1>1, <1>2, <1>3, <1>4, <1>5, <1>6, <1>7, <1>8, <1>9, <1>10 DEF Next

\* The five steps, the ledger, resumes, fresh re-runs, rollbacks and kills implement
\* MigrationPromise: no original is deleted; one rewritten in place is on disk as it was;
\* a copy appears with its Views and outlives no reader; success means that it is done.
\* Exports that leave documents out only widen what is overlooked.
THEOREM KeepsPromiseAlways ==
  ASSUME Promised
  PROVE  Spec => KeepsPromise
<1>1. Init => Promise!Init
  <2>. SUFFICES ASSUME Init PROVE Promise!Init
    OBVIOUS
  <2>1. \A o \in Objects : bound[o] = "target" => backup[o] = "source"
    BY DEF Init
  <2>2. /\ exists = (Views \cup Content) \ LateObjects /\ copies = {} /\ grants = {}
        /\ uses = [g \in {} |-> {}] /\ report = "none" /\ Overlooked = {}
    BY DEF Init, Objects, Empty, Overlooked
  <2>. QED  BY <2>1, <2>2 DEF Promise!Init
<1>2. Sound /\ Sound' /\ [Next]_vars => [Promise!Next]_(Promise!vars)
  BY NextKeepsPromise DEF PromiseStep
<1>. QED  BY <1>1, <1>2, SoundAlways, PTL DEF Spec, KeepsPromise, Promise!Spec
=============================================================================
