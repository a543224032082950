------------------------- MODULE MigrateApply_proofs -------------------------
(***************************************************************************)
(* Type correctness of MigrateApply, and that it never loses an original:  *)
(* a rollback deletes nothing the tenant had, and in a same-Org run the    *)
(* backup holds every object that was rewritten in place.                  *)
(***************************************************************************)
EXTENDS MigrateApply, WellFoundedInduction, TLAPS

USE MigrateAssumption

Names == {NameOf[o] : o \in Objects}
Dicts == UNION {[N -> Guids] : N \in SUBSET Names}
LedgerType ==
    [present : BOOLEAN, mode : {"same", "new", "none"},
     completed : SUBSET StepNames, views : Dicts, content : Dicts,
     shielded : Dicts, rolledBack : BOOLEAN, undone : BOOLEAN]

-----------------------------------------------------------------------------
(* Dictionaries                                                            *)

\* A non-empty set of naturals has a least element.
LEMMA Least ==
  ASSUME NEW T \in SUBSET Nat, T # {}
  PROVE  \E x \in T : \A y \in T : x <= y
<1>1. PICK x \in T : \A y \in T : ~ (<<y, x>> \in OpToRel(<, Nat))
  BY NatLessThanWellFounded, WFMin, Zenon
<1>2. \A y \in T : ~(y < x)
  BY <1>1 DEF OpToRel
<1>. QED  BY <1>2

\* Among objects of one name some object comes last in a listing.
LEMMA WinnerExists ==
  ASSUME NEW os \in SUBSET Objects, NEW name \in {NameOf[o] : o \in os}
  PROVE  \E o \in os : NameOf[o] = name /\ Winner(os, o)
<1>. DEFINE T == {FromEnd[o] : o \in {p \in os : NameOf[p] = name}}
<1>1. T \in SUBSET Nat /\ T # {}
  OBVIOUS
<1>2. PICK r \in T : \A q \in T : r <= q
  BY <1>1, Least
<1>3. PICK o \in os : NameOf[o] = name /\ FromEnd[o] = r
  OBVIOUS
<1>4. \A p \in os : NameOf[p] = NameOf[o] => FromEnd[o] <= FromEnd[p]
  BY <1>2, <1>3
<1>. QED  BY <1>3, <1>4 DEF Winner

LEMMA EmptyDict == Empty \in Dicts /\ Range(Empty) = {} /\ DOMAIN Empty = {}
<1>1. Empty \in [{} -> Guids]
  BY DEF Empty
<1>2. {} \in SUBSET Names
  OBVIOUS
<1>. QED  BY <1>1, <1>2 DEF Dicts, Range

\* What an import returns: a dictionary of guids of that import.
LEMMA NamedDict ==
  ASSUME NEW os \in SUBSET Objects, NEW n \in Nat
  PROVE  /\ Named(os, n) \in Dicts
         /\ \A g \in Range(Named(os, n)) : g \in Guids /\ g[2] = n
<1>. DEFINE N == {NameOf[o] : o \in os}
            pick(name) == CHOOSE o \in os : NameOf[o] = name /\ Winner(os, o)
<1>1. \A name \in N : pick(name) \in os
  <2>1. ASSUME NEW name \in N PROVE pick(name) \in os
    <3>1. \E o \in os : NameOf[o] = name /\ Winner(os, o)
      BY WinnerExists
    <3>. QED  BY <3>1
  <2>. QED  BY <2>1
<1>. HIDE DEF pick
<1>2. Named(os, n) = [name \in N |-> <<pick(name), n>>]
  BY DEF Named, pick
<1>3. \A name \in N : <<pick(name), n>> \in Guids
  BY <1>1 DEF Guids
<1>4. Named(os, n) \in [N -> Guids]
  BY <1>2, <1>3
<1>5. N \in SUBSET Names
  BY DEF Names
<1>6. Named(os, n) \in Dicts
  BY <1>4, <1>5 DEF Dicts
<1>7. \A g \in Range(Named(os, n)) : g \in Guids /\ g[2] = n
  BY <1>2, <1>3 DEF Range
<1>. QED  BY <1>6, <1>7

\* dict.update adds no value of its own.
LEMMA UpdatedDict ==
  ASSUME NEW d \in Dicts, NEW e \in Dicts
  PROVE  Updated(d, e) \in Dicts /\ Range(Updated(d, e)) \subseteq Range(d) \cup Range(e)
<1>1. PICK N \in SUBSET Names : d \in [N -> Guids]
  BY DEF Dicts
<1>2. PICK M \in SUBSET Names : e \in [M -> Guids]
  BY DEF Dicts
<1>3. DOMAIN d = N /\ DOMAIN e = M
  BY <1>1, <1>2
<1>4. Updated(d, e) = [name \in N \cup M |-> IF name \in M THEN e[name] ELSE d[name]]
  BY <1>3 DEF Updated
<1>5. Updated(d, e) \in [N \cup M -> Guids]
  BY <1>1, <1>2, <1>4
<1>6. Updated(d, e) \in Dicts
  BY <1>5 DEF Dicts
<1>7. Range(Updated(d, e)) \subseteq Range(d) \cup Range(e)
  BY <1>3, <1>4 DEF Range
<1>. QED  BY <1>6, <1>7

LEMMA DictRange == ASSUME NEW d \in Dicts PROVE Range(d) \subseteq Guids
  BY DEF Dicts, Range

-----------------------------------------------------------------------------
(* The type invariant, with what it needs of a command half-way            *)

\* A step that has run but is not yet in the ledger is the next one.
HasStep == pc \in {"save", "share"} => \E i \in 1..5 : Pending(i)

PlanTypes ==
    /\ plan \in [views : SUBSET Views, content : SUBSET Objects,
                 shielded : SUBSET (Content \ OnModel), refs : SUBSET Views]
    /\ plan.shielded \cap plan.content = {}

Types ==
    /\ TypeOK
    /\ disk \in LedgerType /\ mem \in LedgerType
    /\ made \in Dicts
    /\ PlanTypes
    /\ HasStep

LEMMA Distinct ==
  \A i, j \in 1..5 : /\ StepOrder[i] \in StepNames
                     /\ StepOrder[i] = StepOrder[j] => i = j
  BY DEF StepOrder, StepNames

LEMMA LedgerTypes ==
  ASSUME NEW m \in {"same", "new", "none"}
  PROVE  /\ Ledger(m) \in LedgerType /\ LedgerOK(Ledger(m)) /\ Recorded(Ledger(m)) = {}
         /\ NoLedger \in LedgerType /\ LedgerOK(NoLedger) /\ Recorded(NoLedger) = {}
<1>1. Ledger(m) \in LedgerType /\ NoLedger \in LedgerType
  BY EmptyDict DEF Ledger, NoLedger, LedgerType
<1>2. Recorded(Ledger(m)) = {} /\ Recorded(NoLedger) = {}
  BY EmptyDict DEF Ledger, NoLedger, Recorded
<1>3. LedgerOK(Ledger(m)) /\ LedgerOK(NoLedger)
  BY <1>2 DEF Ledger, NoLedger, LedgerOK
<1>. QED  BY <1>1, <1>2, <1>3

LEMMA OldLedgerType ==
  OldLedger \in LedgerType /\ LedgerOK(OldLedger)
<1>1. Guid0(Views) \in Dicts /\ Guid0(OnModel) \in Dicts
  BY NamedDict DEF Guid0, Objects
<1>2. OldLedger = [Ledger("none") EXCEPT !.completed = StepNames, !.views = Guid0(Views),
                                         !.content = Guid0(OnModel)]
  BY DEF OldLedger
<1>3. OldLedger \in LedgerType
  BY <1>1, <1>2, EmptyDict DEF Ledger, LedgerType
<1>4. OldLedger.views = Guid0(Views) /\ OldLedger.content = Guid0(OnModel)
      /\ OldLedger.shielded = Empty /\ OldLedger.completed = StepNames
      /\ OldLedger.mode = "none"
  BY <1>2 DEF Ledger
<1>5. Recorded(OldLedger) \subseteq Guids
  BY <1>1, <1>4, DictRange, EmptyDict DEF Recorded
<1>6. \A i \in 1..5 : StepOrder[i] \in StepNames
  BY Distinct
<1>7. LedgerOK(OldLedger)
  BY <1>4, <1>5, <1>6 DEF LedgerOK, StepNames
<1>. QED  BY <1>3, <1>7

LEMMA InitTypes == Init => Types
<1>. SUFFICES ASSUME Init PROVE Types
  OBVIOUS
<1>1. disk \in LedgerType /\ mem \in LedgerType /\ LedgerOK(disk) /\ LedgerOK(mem)
  BY LedgerTypes, OldLedgerType DEF Init
<1>2. uses \in [copies -> SUBSET Guids]
  BY DEF Init, Empty
<1>3. bound \in [Objects -> {"source", "target"}]
      /\ backup \in [Objects -> {"none", "source", "target"}]
  BY DEF Init
<1>4. PlanTypes
  BY DEF Init, NoPlan, PlanTypes
<1>5. pc = "idle" /\ report = "none" /\ made = Empty /\ plan = NoPlan /\ runs = 0
      /\ imports = 0 /\ found = {} /\ failed = FALSE /\ unread = {} /\ blank = {} /\ copies = {} /\ grants = {}
      /\ modelGroups = {} /\ exists \subseteq Objects
  BY DEF Init
<1>6. MaxRuns \in Nat
  OBVIOUS
<1>7. TypeOK
  <2>1. Range(made) \subseteq Guids
    BY <1>5, EmptyDict
  <2>2. /\ plan.views \subseteq Views /\ plan.content \subseteq Objects
        /\ plan.refs \subseteq Views
        /\ plan.shielded \subseteq (Content \ OnModel) \ plan.content
    BY <1>5 DEF NoPlan
  <2>3. copies \subseteq Guids /\ modelGroups \subseteq Groups /\ found \subseteq Guids
        /\ grants \subseteq Guids \X Groups /\ failed \in BOOLEAN /\ unread \subseteq Objects
        /\ blank \subseteq Objects
    BY <1>5
  <2>4. imports \in Nat /\ runs \in 0..MaxRuns
    BY <1>5, <1>6
  <2>. QED  BY <1>1, <1>2, <1>3, <1>5, <2>1, <2>2, <2>3, <2>4 DEF TypeOK
<1>8. HasStep
  BY <1>5 DEF HasStep
<1>. QED  BY <1>1, <1>4, <1>5, <1>7, <1>8, EmptyDict DEF Types

\* What is wanted under a name are the grants of an object of that name: the last of
\* those that hold any.
LEMMA WantedEntry ==
  ASSUME Types, NEW faults
  PROVE  /\ DOMAIN Wanted(faults) = {NameOf[o] : o \in {p \in Shared \ faults : GrantsOf[p] # {}}}
         /\ \A n \in DOMAIN Wanted(faults) :
               \E o \in Shared \ faults : NameOf[o] = n /\ Wanted(faults)[n] = GrantsOf[o]
<1>. DEFINE granted == {o \in Shared \ faults : GrantsOf[o] # {}}
            N == {NameOf[o] : o \in granted}
            last(name, o) == NameOf[o] = name
                   /\ \A p \in granted : NameOf[p] = name => LaterInList(o, p)
            pick(name) == CHOOSE o \in granted : last(name, o)
<1>0. /\ \A o \in granted : o \in plan.content \/ o \in plan.shielded
      /\ plan.content \cap plan.shielded = {}
      /\ granted \subseteq Objects
  BY DEF Types, TypeOK, Shared, Objects
<1>1. ASSUME NEW name \in N PROVE \E o \in granted : last(name, o)
  <2>. DEFINE named == {o \in granted : NameOf[o] = name}
              late == IF named \cap plan.shielded # {} THEN named \cap plan.shielded ELSE named
              T == {FromEnd[o] : o \in late}
  <2>1. late # {} /\ late \subseteq named /\ late \subseteq Objects
    BY <1>0
  <2>2. T \in SUBSET Nat /\ T # {}
    BY <2>1
  <2>3. PICK r \in T : \A q \in T : r <= q
    BY <2>2, Least
  <2>4. PICK o \in late : FromEnd[o] = r
    OBVIOUS
  <2>5. ASSUME NEW p \in granted, NameOf[p] = name PROVE LaterInList(o, p)
    <3>1. CASE p \in late
      <4>1. FromEnd[o] <= FromEnd[p]
        BY <2>3, <2>4, <3>1
      <4>2. p \in plan.content <=> o \in plan.content
        BY <1>0, <2>1, <2>4, <3>1
      <4>. QED  BY <4>1, <4>2 DEF LaterInList
    <3>2. CASE p \notin late
      BY <1>0, <2>1, <2>4, <2>5, <3>2 DEF LaterInList
    <3>. QED  BY <3>1, <3>2
  <2>. QED  BY <2>1, <2>4, <2>5
<1>2. \A name \in N : pick(name) \in granted /\ NameOf[pick(name)] = name
  <2>1. ASSUME NEW name \in N PROVE pick(name) \in granted /\ NameOf[pick(name)] = name
    <3>1. \E o \in granted : last(name, o)
      BY <1>1
    <3>. QED  BY <3>1
  <2>. QED  BY <2>1
<1>3. Wanted(faults) = [name \in N |-> GrantsOf[pick(name)]]
  BY DEF Wanted
<1>. HIDE DEF pick
<1>. QED  BY <1>2, <1>3

LEMMA WantedGroups ==
  ASSUME Types, NEW faults
  PROVE  UNION Range(Wanted(faults)) \subseteq Groups
<1>1. \A o \in Shared : GrantsOf[o] \subseteq Groups
  BY DEF Types, PlanTypes, Shared, Objects
<1>. DEFINE W == Wanted(faults)
<1>2. \A n \in DOMAIN W : \E o \in Shared \ faults : NameOf[o] = n /\ W[n] = GrantsOf[o]
  BY WantedEntry
<1>. HIDE DEF W
<1>3. \A n \in DOMAIN W : W[n] \subseteq Groups
  BY <1>1, <1>2
<1>. QED  BY <1>3 DEF Range, W

-----------------------------------------------------------------------------
(* Every step preserves the types.  The parts go with the groups of        *)
(* variables that an action leaves alone together.                         *)

SourceTypes == /\ exists \subseteq Objects
               /\ bound \in [Objects -> {"source", "target"}]
               /\ backup \in [Objects -> {"none", "source", "target"}]
TargetTypes == /\ copies \subseteq Guids /\ uses \in [copies -> SUBSET Guids]
               /\ modelGroups \subseteq Groups /\ grants \subseteq Guids \X Groups
               /\ imports \in Nat
LedgersOK == disk \in LedgerType /\ mem \in LedgerType /\ LedgerOK(disk) /\ LedgerOK(mem)
WorkTypes ==
    /\ made \in Dicts /\ found \subseteq Guids
    /\ failed \in BOOLEAN /\ unread \subseteq Objects /\ blank \subseteq Objects
CommandTypes ==
    /\ pc \in {"idle", "run", "save", "share", "delete_content", "delete_views", "deleted"}
    /\ report \in {"none", "failed", "migrated", "incomplete", "rolled_back"}
    /\ runs \in 0..MaxRuns

Parts == SourceTypes /\ TargetTypes /\ LedgersOK /\ PlanTypes /\ WorkTypes
         /\ CommandTypes /\ HasStep

LEMMA TypesAreParts == Types <=> Parts
<1>1. Types => Parts
  BY DEF Types, Parts, TypeOK, SourceTypes, TargetTypes, LedgersOK, PlanTypes,
         WorkTypes, CommandTypes
<1>2. ASSUME Parts PROVE Types
  <2>1. Range(made) \subseteq Guids
    BY <1>2, DictRange DEF Parts, WorkTypes
  <2>2. /\ plan.views \subseteq Views /\ plan.content \subseteq Objects
        /\ plan.refs \subseteq Views
        /\ plan.shielded \subseteq (Content \ OnModel) \ plan.content
    BY <1>2 DEF Parts, PlanTypes
  <2>3. TypeOK
    BY <1>2, <2>1, <2>2 DEF Parts, TypeOK, SourceTypes, TargetTypes, LedgersOK,
                            WorkTypes, CommandTypes
  <2>. QED  BY <1>2, <2>3 DEF Parts, Types, LedgersOK, PlanTypes, WorkTypes
<1>. QED  BY <1>1, <1>2

LEMMA PartsNext == Parts' => Types'
  BY TypesAreParts, PTL

\* A part holds after a step that leaves its variables alone.
LEMMA Kept ==
  ASSUME Types
  PROVE  /\ UNCHANGED <<source, backup>> => SourceTypes'
         /\ UNCHANGED target => TargetTypes'
         /\ UNCHANGED <<disk, mem>> => LedgersOK'
         /\ UNCHANGED plan => PlanTypes'
         /\ UNCHANGED <<made, found, failed, unread, blank>> => WorkTypes'
<1>. USE TypesAreParts DEF Parts
<1>1. UNCHANGED <<source, backup>> => SourceTypes'
  BY DEF SourceTypes, source
<1>2. UNCHANGED target => TargetTypes'
  BY DEF TargetTypes, target
<1>3. UNCHANGED <<disk, mem>> => LedgersOK'
  BY DEF LedgersOK
<1>4. UNCHANGED plan => PlanTypes'
  BY DEF PlanTypes
<1>5. UNCHANGED <<made, found, failed, unread, blank>> => WorkTypes'
  BY DEF WorkTypes
<1>. QED  BY <1>1, <1>2, <1>3, <1>4, <1>5

LEMMA StepIsPending ==
  ASSUME NEW name, NextStep(name), UNCHANGED mem
  PROVE  \E i \in 1..5 : Pending(i)'
  BY DEF NextStep, Pending

LEMMA ViewRefsType ==
  ASSUME Types, NEW o \in Objects, NEW known
  PROVE  ViewRefs(o, known) \subseteq Guids
<1>1. mem.views \in Dicts
  BY DEF Types, LedgerType
<1>2. ASSUME NEW w \in Views PROVE Remap(w, known) \in Guids
  <2>1. <<w, 0>> \in Guids
    BY <1>2 DEF Guids, Objects
  <2>2. NameOf[w] \in DOMAIN mem.views => mem.views[NameOf[w]] \in Guids
    BY <1>1 DEF Dicts
  <2>. QED  BY <2>1, <2>2 DEF Remap
<1>3. CASE o \in Views
  BY <1>3 DEF ViewRefs
<1>4. CASE o \notin Views
  <2>1. Uses[o] \subseteq Views
    BY <1>4 DEF Objects
  <2>. QED  BY <1>2, <1>4, <2>1 DEF ViewRefs
<1>. QED  BY <1>3, <1>4

LEMMA ImportTypes ==
  ASSUME Types, NEW os \in SUBSET Objects, NEW known, Import(os, known),
         blank' \in SUBSET Objects, \E i \in 1..5 : Pending(i)'
  PROVE  Types'
<1>. USE TypesAreParts DEF Parts
<1>1. UNCHANGED <<exists, backup, modelGroups, grants, disk, mem, plan, found, failed, unread,
                  runs, report>> /\ pc' = "save"
  BY DEF Import
<1>2. LedgersOK' /\ PlanTypes'
  BY <1>1, Kept
<1>3. CommandTypes' /\ HasStep'
  BY <1>1 DEF CommandTypes, HasStep
<1>4. CASE os = {}
  <2>1. made' = Empty /\ UNCHANGED <<bound, copies, uses, imports>>
    BY <1>4 DEF Import
  <2>2. SourceTypes' /\ TargetTypes'
    BY <1>1, <2>1, Kept DEF source, target
  <2>3. WorkTypes'
    BY <1>1, <2>1, EmptyDict DEF WorkTypes
  <2>. QED  BY <1>2, <1>3, <2>2, <2>3, PartsNext
<1>5. CASE os # {} /\ SameOrg
  <2>1. /\ bound' = [o \in Objects |-> IF o \in os THEN "target" ELSE bound[o]]
        /\ made' = Named(os, 0)
        /\ UNCHANGED <<copies, uses, imports>>
    BY <1>5 DEF Import, Guid0
  <2>2. TargetTypes'
    BY <1>1, <2>1, Kept DEF target
  <2>3. SourceTypes'
    BY <1>1, <2>1 DEF SourceTypes
  <2>4. WorkTypes'
    BY <1>1, <2>1, NamedDict DEF WorkTypes
  <2>. QED  BY <1>2, <1>3, <2>2, <2>3, <2>4, PartsNext
<1>6. CASE os # {} /\ ~SameOrg
  <2>1. /\ imports' = imports + 1
        /\ copies' = copies \cup {<<o, imports + 1>> : o \in os}
        /\ uses' = [g \in copies' |->
                       IF g \in copies THEN uses[g] ELSE ViewRefs(g[1], known)]
        /\ made' = Named(os, imports + 1)
        /\ UNCHANGED bound
    BY <1>6 DEF Import
  <2>2. imports + 1 \in Nat
    BY DEF TargetTypes
  <2>3. WorkTypes'
    BY <1>1, <2>1, <2>2, NamedDict DEF WorkTypes
  <2>4. SourceTypes'
    BY <1>1, <2>1 DEF SourceTypes
  <2>5. copies' \subseteq Guids
    BY <2>1, <2>2 DEF TargetTypes, Guids
  <2>6. \A g \in copies' : IF g \in copies THEN uses[g] \in SUBSET Guids
                                           ELSE ViewRefs(g[1], known) \in SUBSET Guids
    BY <2>5, ViewRefsType DEF TargetTypes, Guids
  <2>7. uses' \in [copies' -> SUBSET Guids]
    BY <2>1, <2>6
  <2>8. TargetTypes'
    BY <1>1, <2>1, <2>2, <2>5, <2>7 DEF TargetTypes
  <2>. QED  BY <1>2, <1>3, <2>3, <2>4, <2>8, PartsNext
<1>. QED  BY <1>4, <1>5, <1>6

\* record_completed keeps the ledger in step order.
LEMMA CompletedType ==
  ASSUME NEW l \in LedgerType, LedgerOK(l), made \in Dicts, NEW i \in 1..5,
         \A j \in 1..(i - 1) : StepOrder[j] \in l.completed
  PROVE  /\ Completed(l, StepOrder[i]) \in LedgerType
         /\ LedgerOK(Completed(l, StepOrder[i]))
         /\ Completed(l, StepOrder[i]).completed = l.completed \cup {StepOrder[i]}
         /\ Completed(l, StepOrder[i]).mode = l.mode
         /\ Completed(l, StepOrder[i]).present = l.present
         /\ Recorded(Completed(l, StepOrder[i])) \subseteq Recorded(l) \cup Range(made)
<1>. DEFINE name == StepOrder[i]
            done == [l EXCEPT !.completed = @ \cup {name}]
            c == Completed(l, name)
<1>1. name \in StepNames
  BY Distinct
<1>2. done \in LedgerType
  BY <1>1 DEF LedgerType
<1>3. c = CASE name = "rewrite_views"   -> [done EXCEPT !.views = Updated(@, made)]
          [] name = "rewrite_content" -> [done EXCEPT !.content = Updated(@, made)]
          [] name = "move_shielded"   -> [done EXCEPT !.shielded = Updated(@, made)]
          [] OTHER                    -> done
  BY DEF Completed
<1>4. /\ Updated(l.views, made) \in Dicts
      /\ Updated(l.content, made) \in Dicts
      /\ Updated(l.shielded, made) \in Dicts
  BY UpdatedDict DEF LedgerType
<1>5. /\ done.views = l.views /\ done.content = l.content /\ done.shielded = l.shielded
      /\ done.completed = l.completed \cup {name} /\ done.mode = l.mode
      /\ done.present = l.present
  BY DEF LedgerType
<1>. HIDE DEF c, done, name
<1>6. /\ c \in LedgerType
      /\ c.completed = l.completed \cup {name} /\ c.mode = l.mode
      /\ c.present = l.present
      /\ c.views = l.views \/ c.views = Updated(l.views, made)
      /\ c.content = l.content \/ c.content = Updated(l.content, made)
      /\ c.shielded = l.shielded \/ c.shielded = Updated(l.shielded, made)
      /\ name # "rewrite_views" => c.views = l.views
      /\ name # "rewrite_content" => c.content = l.content
      /\ name # "move_shielded" => c.shielded = l.shielded
  BY <1>2, <1>3, <1>4, <1>5 DEF LedgerType
<1>7. Recorded(c) \subseteq Guids
  BY <1>6, DictRange DEF Recorded, LedgerType
<1>8. \A k \in 1..5 : \A j \in 1..k :
          StepOrder[k] \in c.completed => StepOrder[j] \in c.completed
  <2>. SUFFICES ASSUME NEW k \in 1..5, NEW j \in 1..k, StepOrder[k] \in c.completed
                PROVE  StepOrder[j] \in c.completed
    OBVIOUS
  <2>1. CASE StepOrder[k] \in l.completed
    BY <1>6, <2>1 DEF LedgerOK
  <2>2. CASE StepOrder[k] = name
    <3>1. k = i
      BY <2>2, Distinct DEF name
    <3>. QED  BY <1>6, <3>1 DEF name
  <2>. QED  BY <1>6, <2>1, <2>2
<1>9. c.completed \subseteq StepNames /\ c.mode \in {"same", "new", "none"}
  BY <1>1, <1>6 DEF LedgerType
<1>10. LedgerOK(c)
  BY <1>6, <1>7, <1>8, <1>9 DEF LedgerOK
<1>11. Recorded(c) \subseteq Recorded(l) \cup Range(made)
  <2>1. /\ Range(Updated(l.views, made)) \subseteq Range(l.views) \cup Range(made)
        /\ Range(Updated(l.content, made)) \subseteq Range(l.content) \cup Range(made)
        /\ Range(Updated(l.shielded, made)) \subseteq Range(l.shielded) \cup Range(made)
    BY UpdatedDict DEF LedgerType
  <2>. QED  BY <1>6, <2>1 DEF Recorded
<1>. QED  BY <1>6, <1>10, <1>11 DEF c, name

\* The plan's lists, and that nothing in scope is left out of them.
LEMMA ClassifiedParts ==
  ASSUME NEW dark \in SUBSET Dark
  PROVE  /\ Classified(dark).views = ViewsRead(dark)
         /\ Classified(dark).content =
               ((Dependents \cap OnModel) \cup dark) \cup (ViewScope \ ViewsRead(dark))
         /\ Classified(dark).shielded =
               (Dependents \cap Content) \ ((Dependents \cap OnModel) \cup dark)
         /\ Classified(dark).refs =
               UNION {Uses[c] : c \in ((Dependents \cap OnModel) \cup dark) \ dark}
  BY DEF Classified

LEMMA ClassifiedType ==
  ASSUME NEW dark \in SUBSET Dark
  PROVE  /\ Classified(dark) \in
               [views : SUBSET Views, content : SUBSET Objects,
                shielded : SUBSET (Content \ OnModel), refs : SUBSET Views]
         /\ Classified(dark).shielded \cap Classified(dark).content = {}
<1>. DEFINE p == Classified(dark)
<1>0. p = [views |-> p.views, content |-> p.content, shielded |-> p.shielded, refs |-> p.refs]
  BY DEF Classified
<1>1. p.views \subseteq Views /\ ViewScope \subseteq Views
  BY ClassifiedParts DEF ViewsRead, ViewScope
<1>2. Dependents \subseteq Objects /\ dark \subseteq Content
  BY DEF Dependents, ViewScope, Objects, Dark
<1>3. p.content \subseteq Objects
  BY <1>1, <1>2, ClassifiedParts DEF Objects
<1>4. p.shielded \subseteq Content \ OnModel /\ p.shielded \cap p.content = {}
  BY <1>1, <1>2, ClassifiedParts
<1>5. p.refs \subseteq Views
  BY <1>2, ClassifiedParts
<1>. HIDE DEF p
<1>. QED  BY <1>0, <1>1, <1>3, <1>4, <1>5 DEF p

LEMMA StartApplyTypes ==
  ASSUME Types, NEW resume \in BOOLEAN, StartApply(resume)
  PROVE  Types'
<1>. USE TypesAreParts DEF Parts
<1>0. PICK dark \in SUBSET Dark : plan' = Classified(dark) /\ blank' = blank \cup dark
  BY DEF StartApply
<1>1. /\ UNCHANGED <<source, backup, target, disk, made, wanted, found, failed, unread>>
      /\ pc' = "run" /\ report' = "none"
      /\ runs < MaxRuns /\ runs' = runs + 1
      /\ mem' = disk \/ mem' = Ledger(Mode)
  BY DEF StartApply
<1>2. Mode \in {"same", "new", "none"}
  BY DEF Mode
<1>3. LedgersOK'
  <2>1. Ledger(Mode) \in LedgerType /\ LedgerOK(Ledger(Mode))
    BY <1>2, LedgerTypes
  <2>. QED  BY <1>1, <2>1 DEF LedgersOK
<1>4. PlanTypes'
  BY <1>0, ClassifiedType DEF PlanTypes
<1>5. CommandTypes'
  BY <1>1 DEF CommandTypes
<1>6. HasStep'
  BY <1>1 DEF HasStep
<1>7. SourceTypes' /\ TargetTypes'
  BY <1>1, Kept
<1>8. WorkTypes'
  BY <1>0, <1>1 DEF WorkTypes, Dark, Objects
<1>. QED  BY <1>8, <1>3, <1>4, <1>5, <1>6, <1>7, PartsNext

LEMMA BackupTypes ==
  ASSUME Types, RunBackup \/ BackupCutShort
  PROVE  Types'
<1>. USE TypesAreParts DEF Parts
<1>1. /\ UNCHANGED <<source, target, disk, mem, plan, work, runs, report>>
      /\ NextStep("backup") /\ pc' \in {"save", "idle"}
      /\ \E os : WriteBackup(os)
  BY DEF RunBackup, BackupCutShort
<1>2. SourceTypes'
  <2>1. PICK os : backup' = [o \in Objects |-> IF o \in os THEN bound[o] ELSE backup[o]]
    BY <1>1 DEF WriteBackup
  <2>2. backup' \in [Objects -> {"none", "source", "target"}]
    BY <2>1 DEF SourceTypes
  <2>. QED  BY <1>1, <2>2 DEF SourceTypes, source
<1>3. TargetTypes' /\ LedgersOK' /\ PlanTypes' /\ WorkTypes'
  BY <1>1, Kept DEF work
<1>4. CommandTypes'
  BY <1>1 DEF CommandTypes
<1>5. HasStep'
  BY <1>1, StepIsPending DEF HasStep
<1>. QED  BY <1>2, <1>3, <1>4, <1>5, PartsNext

LEMMA RewriteTypes ==
  ASSUME Types, RewriteViews \/ RewriteContent \/ MoveShielded
  PROVE  Types'
<1>1. /\ plan.views \in SUBSET Objects /\ plan.content \in SUBSET Objects
      /\ Moving \in SUBSET Objects
  BY DEF Types, PlanTypes, Objects, Moving
<1>2. PICK os \in SUBSET Objects, name \in StepNames, known \in SUBSET Views :
         NextStep(name) /\ Import(os, known)
  <2>1. plan.refs \subseteq Views
    BY DEF Types, TypeOK
  <2>. QED  BY <1>1, <2>1 DEF RewriteViews, RewriteContent, MoveShielded, StepNames
<1>3. UNCHANGED mem
  BY <1>2 DEF Import
<1>4. blank' \in SUBSET Objects
  BY DEF RewriteViews, RewriteContent, MoveShielded, Types, TypeOK
<1>. QED  BY <1>2, <1>3, <1>4, ImportTypes, StepIsPending

LEMMA StepFailsTypes ==
  ASSUME Types, StepFails
  PROVE  Types'
<1>. USE TypesAreParts DEF Parts
<1>1. /\ UNCHANGED <<source, backup, target, mem, plan, work, runs>>
      /\ disk' = mem /\ pc' = "idle" /\ report' = "failed"
  BY DEF StepFails
<1>2. SourceTypes' /\ TargetTypes' /\ PlanTypes' /\ WorkTypes'
  BY <1>1, Kept DEF work
<1>3. LedgersOK'
  BY <1>1 DEF LedgersOK
<1>4. CommandTypes' /\ HasStep'
  BY <1>1 DEF CommandTypes, HasStep
<1>. QED  BY <1>2, <1>3, <1>4, PartsNext

LEMMA ShareStackTypes ==
  ASSUME Types, ShareStack
  PROVE  Types'
<1>. USE TypesAreParts DEF Parts
<1>1. /\ UNCHANGED <<source, backup, copies, uses, imports, disk, mem, plan, made,
                     found, blank, runs, report>>
      /\ NextStep("share_grants") /\ pc' = "share"
  BY DEF ShareStack
<1>2. PICK faults, lost, listed :
         /\ faults \subseteq Shared
         /\ GrantStack(Wanted(faults), lost, listed) /\ failed' = (lost # {})
         /\ unread' = unread \cup faults \cup Unreached(listed)
  BY DEF ShareStack
<1>3. SourceTypes' /\ LedgersOK' /\ PlanTypes'
  BY <1>1, Kept
<1>4. TargetTypes'
  <2>1. UNION Range(Wanted(faults)) \subseteq Groups
    BY WantedGroups
  <2>2. modelGroups' \subseteq Groups /\ grants' \subseteq Guids \X Groups
    BY <1>2, <2>1 DEF GrantStack, TargetTypes
  <2>. QED  BY <1>1, <2>2 DEF TargetTypes
<1>5. WorkTypes'
  <2>1. Shared \subseteq Objects
    BY DEF Shared, PlanTypes, Objects
  <2>2. Unreached(listed) \subseteq Shared
    BY DEF Unreached
  <2>. QED  BY <1>1, <1>2, <2>1, <2>2 DEF WorkTypes
<1>6. CommandTypes'
  BY <1>1 DEF CommandTypes
<1>7. HasStep'
  BY <1>1, StepIsPending DEF HasStep
<1>. QED  BY <1>3, <1>4, <1>5, <1>6, <1>7, PartsNext

LEMMA ShareContentTypes ==
  ASSUME Types, ShareContent
  PROVE  Types'
<1>. USE TypesAreParts DEF Parts
<1>1. /\ UNCHANGED <<source, backup, copies, uses, imports, mem, plan, made, found, unread,
                     blank, runs>>
      /\ pc = "share" /\ failed' = FALSE /\ modelGroups' = modelGroups
      /\ \/ disk' = mem /\ pc' = "idle" /\ report' = "failed"
         \/ pc' = "save" /\ UNCHANGED <<disk, report>>
  BY DEF ShareContent
<1>2. PICK lost : GrantContent(wanted, lost)
  BY DEF ShareContent
<1>3. SourceTypes' /\ PlanTypes'
  BY <1>1, Kept
<1>4. TargetTypes'
  <2>1. \A x \in grants' : x \in grants \/ (x[2] \in modelGroups' /\ x[1] \in copies
                                           /\ x = <<x[1], x[2]>>)
    BY <1>2 DEF GrantContent, Lands
  <2>2. grants' \subseteq Guids \X Groups
    BY <1>1, <2>1 DEF TargetTypes
  <2>. QED  BY <1>1, <2>2 DEF TargetTypes
<1>5. WorkTypes'
  BY <1>1 DEF WorkTypes
<1>6. LedgersOK' /\ CommandTypes'
  BY <1>1 DEF LedgersOK, CommandTypes
<1>7. HasStep'
  BY <1>1 DEF HasStep, Pending
<1>. QED  BY <1>3, <1>4, <1>5, <1>6, <1>7, PartsNext

\* The step a command saves is the first that its ledger lacks.
LEMMA CurrentStep ==
  ASSUME Types, pc = "save"
  PROVE  \E i \in 1..5 : Current = StepOrder[i] /\ Pending(i)
<1>1. \E i \in 1..5 : Pending(i)
  BY DEF Types, HasStep
<1>. QED  BY <1>1 DEF Current

LEMMA SaveStepTypes ==
  ASSUME Types, SaveStep
  PROVE  Types'
<1>. USE TypesAreParts DEF Parts
<1>1. /\ UNCHANGED <<source, backup, target, plan, wanted, found, failed, unread, blank, runs, report>>
      /\ pc = "save" /\ pc' = "run" /\ made' = Empty
      /\ mem' = Completed(mem, Current) /\ disk' = mem'
  BY DEF SaveStep
<1>2. PICK i \in 1..5 : Current = StepOrder[i] /\ Pending(i)
  BY <1>1, CurrentStep
<1>3. LedgersOK'
  <2>1. mem' \in LedgerType /\ LedgerOK(mem')
    BY <1>1, <1>2, CompletedType DEF LedgersOK, WorkTypes, Pending
  <2>. QED  BY <1>1, <2>1 DEF LedgersOK
<1>4. SourceTypes' /\ TargetTypes' /\ PlanTypes'
  BY <1>1, Kept
<1>5. WorkTypes'
  BY <1>1, EmptyDict DEF WorkTypes
<1>6. CommandTypes' /\ HasStep'
  BY <1>1 DEF CommandTypes, HasStep
<1>. QED  BY <1>3, <1>4, <1>5, <1>6, PartsNext

LEMMA CompleteTypes ==
  ASSUME Types, MigrationComplete
  PROVE  Types'
<1>. USE TypesAreParts DEF Parts
<1>1. /\ UNCHANGED <<source, backup, target, disk, mem, plan, work, runs>>
      /\ pc' = "idle" /\ report' = "migrated"
  BY DEF MigrationComplete
<1>2. SourceTypes' /\ TargetTypes' /\ LedgersOK' /\ PlanTypes' /\ WorkTypes'
  BY <1>1, Kept DEF work
<1>3. CommandTypes' /\ HasStep'
  BY <1>1 DEF CommandTypes, HasStep
<1>. QED  BY <1>2, <1>3, PartsNext

\* rolledBack and undone play no part in the types.
LEMMA MarkedLedger ==
  ASSUME NEW l \in LedgerType, LedgerOK(l)
  PROVE  /\ [l EXCEPT !.undone = TRUE] \in LedgerType
         /\ LedgerOK([l EXCEPT !.undone = TRUE])
         /\ [l EXCEPT !.rolledBack = TRUE] \in LedgerType
         /\ LedgerOK([l EXCEPT !.rolledBack = TRUE])
<1>1. /\ [l EXCEPT !.undone = TRUE] \in LedgerType
      /\ [l EXCEPT !.rolledBack = TRUE] \in LedgerType
  BY DEF LedgerType
<1>2. ASSUME NEW m \in LedgerType, m.mode = l.mode, m.completed = l.completed,
             m.views = l.views, m.content = l.content, m.shielded = l.shielded
      PROVE  LedgerOK(m)
  <2>1. Recorded(m) = Recorded(l)
    BY <1>2 DEF Recorded
  <2>. QED  BY <1>2, <2>1 DEF LedgerOK
<1>. QED  BY <1>1, <1>2 DEF LedgerType

LEMMA RollbackSetRecorded ==
  ASSUME NEW l \in LedgerType
  PROVE  RollbackSet(l) \subseteq Recorded(l)
<1>1. Range(Updated(l.content, l.shielded)) \subseteq Range(l.content) \cup Range(l.shielded)
  BY UpdatedDict DEF LedgerType
<1>. QED  BY <1>1 DEF RollbackSet, Recorded

LEMMA StartRollbackTypes ==
  ASSUME Types, StartRollback
  PROVE  Types'
<1>. USE TypesAreParts DEF Parts
<1>1. /\ UNCHANGED <<source, backup, target, plan, made, wanted, unread, blank>>
      /\ runs < MaxRuns /\ runs' = runs + 1 /\ pc' = "delete_content" /\ report' = "none"
      /\ disk' = [disk EXCEPT !.undone = TRUE] /\ mem' = disk'
      /\ found' \subseteq RollbackSet(disk)
      /\ failed' \in BOOLEAN
  BY DEF StartRollback, ProbeErrors
<1>2. SourceTypes' /\ TargetTypes' /\ PlanTypes'
  BY <1>1, Kept
<1>3. LedgersOK'
  BY <1>1, MarkedLedger DEF LedgersOK
<1>4. WorkTypes'
  <2>1. RollbackSet(disk) \subseteq Guids
    BY RollbackSetRecorded DEF LedgersOK, LedgerOK
  <2>. QED  BY <1>1, <2>1 DEF WorkTypes
<1>5. CommandTypes' /\ HasStep'
  BY <1>1 DEF CommandTypes, HasStep
<1>. QED  BY <1>2, <1>3, <1>4, <1>5, PartsNext

LEMMA DeleteTypes ==
  ASSUME Types, DeleteContent \/ DeleteViews
  PROVE  Types'
<1>. USE TypesAreParts DEF Parts
<1>1. /\ UNCHANGED <<bound, backup, modelGroups, imports, disk, mem, plan, made, unread, blank,
                     wanted, found, runs, report>>
      /\ pc' \in {"delete_views", "deleted"}
      /\ \E gs : Delete(gs)
  BY DEF DeleteContent, DeleteViews
<1>2. PICK gs : Delete(gs)
  BY <1>1
<1>3. /\ copies' \subseteq copies /\ exists' \subseteq exists /\ grants' \subseteq grants
      /\ uses' = [g \in copies' |-> uses[g]]
      /\ failed' \in BOOLEAN
  BY <1>2 DEF Delete, TargetTypes, WorkTypes
<1>4. SourceTypes'
  BY <1>1, <1>3 DEF SourceTypes
<1>5. TargetTypes'
  BY <1>1, <1>3 DEF TargetTypes
<1>6. LedgersOK' /\ PlanTypes'
  BY <1>1, Kept
<1>7. WorkTypes'
  BY <1>1, <1>3 DEF WorkTypes
<1>8. CommandTypes' /\ HasStep'
  BY <1>1 DEF CommandTypes, HasStep
<1>. QED  BY <1>4, <1>5, <1>6, <1>7, <1>8, PartsNext

LEMMA FinishTypes ==
  ASSUME Types, FinishRollback
  PROVE  Types'
<1>. USE TypesAreParts DEF Parts
<1>1. /\ UNCHANGED <<source, backup, target, mem, plan, made, wanted, unread, blank, runs>>
      /\ pc' = "idle" /\ failed' = FALSE /\ found' = {}
      /\ \/ report' = "incomplete" /\ UNCHANGED disk
         \/ report' = "rolled_back" /\ disk' = [mem EXCEPT !.rolledBack = TRUE]
  BY DEF FinishRollback
<1>2. SourceTypes' /\ TargetTypes' /\ PlanTypes'
  BY <1>1, Kept
<1>3. LedgersOK'
  BY <1>1, MarkedLedger DEF LedgersOK
<1>4. WorkTypes'
  BY <1>1 DEF WorkTypes
<1>5. CommandTypes' /\ HasStep'
  BY <1>1 DEF CommandTypes, HasStep
<1>. QED  BY <1>2, <1>3, <1>4, <1>5, PartsNext

LEMMA CrashTypes ==
  ASSUME Types, Crash
  PROVE  Types'
<1>. USE TypesAreParts DEF Parts
<1>1. /\ UNCHANGED <<source, backup, target, disk, mem, plan, unread, blank, runs, report>>
      /\ pc' = "idle" /\ failed' = FALSE /\ made' = Empty /\ found' = {}
  BY DEF Crash
<1>2. SourceTypes' /\ TargetTypes' /\ LedgersOK' /\ PlanTypes'
  BY <1>1, Kept
<1>3. WorkTypes'
  BY <1>1, EmptyDict DEF WorkTypes
<1>4. CommandTypes' /\ HasStep'
  BY <1>1 DEF CommandTypes, HasStep
<1>. QED  BY <1>2, <1>3, <1>4, PartsNext

LEMMA AddTypes ==
  ASSUME Types, AddObject
  PROVE  Types'
<1>. USE TypesAreParts DEF Parts
<1>1. /\ UNCHANGED <<bound, backup, target, disk, mem, plan, pc, work, runs, report>>
      /\ \E o \in LateObjects : exists' = exists \cup {o}
  BY DEF AddObject
<1>2. TargetTypes' /\ LedgersOK' /\ PlanTypes' /\ WorkTypes'
  BY <1>1, Kept DEF work
<1>3. SourceTypes'
  BY <1>1 DEF SourceTypes
<1>4. CommandTypes' /\ HasStep'
  BY <1>1 DEF CommandTypes, HasStep, Pending
<1>. QED  BY <1>2, <1>3, <1>4, PartsNext

LEMMA NextTypes == Types /\ [Next]_vars => Types'
<1>. SUFFICES ASSUME Types, [Next]_vars PROVE Types'
  OBVIOUS
<1>1. CASE UNCHANGED vars
  <2>1. /\ UNCHANGED <<source, backup, target, disk, mem, plan, made, found, failed, unread, blank>>
        /\ UNCHANGED <<pc, report, runs>>
    BY <1>1 DEF vars, source, target
  <2>2. SourceTypes' /\ TargetTypes' /\ LedgersOK' /\ PlanTypes' /\ WorkTypes'
    BY <2>1, Kept
  <2>3. CommandTypes' /\ HasStep'
    BY <2>1, TypesAreParts DEF Parts, CommandTypes, HasStep, Pending
  <2>. QED  BY <2>2, <2>3, PartsNext DEF Parts
<1>2. CASE Next
  BY <1>2, StartApplyTypes, BackupTypes, RewriteTypes, StepFailsTypes, ShareStackTypes,
     ShareContentTypes, SaveStepTypes, CompleteTypes, StartRollbackTypes, DeleteTypes,
     FinishTypes, CrashTypes, AddTypes DEF Next
<1>. QED  BY <1>1, <1>2

\* Every reachable state has the types of TypeOK: in particular both ledgers,
\* the file and the running command's, list a prefix of the steps, and only a
\* completed step has recorded objects.
THEOREM TypeCorrect == Spec => []TypeOK
<1>1. Spec => []Types
  BY InitTypes, NextTypes, PTL DEF Spec
<1>2. Types => TypeOK
  BY DEF Types
<1>. QED  BY <1>1, <1>2, PTL

-----------------------------------------------------------------------------
(* A rollback deletes nothing the tenant had.                              *)

Deleting == {"delete_content", "delete_views", "deleted"}
Home == IF SameOrg THEN {"same", "none"} ELSE {"new"}
InTarget(gs) == \A g \in gs : g[2] > 0

\* A ledger belongs to this topology; with another Org it names only copies,
\* and with the same Org no rollback gets past its refusal.
Survival ==
    /\ OriginalsSurvive
    /\ disk.present => disk.mode \in Home
    /\ mem.present => mem.mode \in Home
    /\ SameOrg => pc \notin Deleting
    /\ ~SameOrg => InTarget(Recorded(disk)) /\ InTarget(Recorded(mem))
                   /\ InTarget(Range(made)) /\ InTarget(found)

LEMMA InitSurvival == Init => Survival
<1>. SUFFICES ASSUME Init PROVE Survival
  OBVIOUS
<1>1. /\ pc = "idle" /\ exists = Objects \ LateObjects /\ made = Empty /\ found = {}
      /\ mem = NoLedger /\ (disk = NoLedger \/ (SameOrg /\ disk = OldLedger))
  BY DEF Init
<1>2. Recorded(NoLedger) = {} /\ ~NoLedger.present /\ OldLedger.mode = "none"
  BY LedgerTypes DEF NoLedger, OldLedger, Ledger
<1>. QED  BY <1>1, <1>2, EmptyDict DEF Survival, OriginalsSurvive, Home, Deleting, InTarget

LEMMA ImportSurvival ==
  ASSUME Types, Survival, RewriteViews \/ RewriteContent \/ MoveShielded
  PROVE  Survival'
<1>1. /\ plan.views \in SUBSET Objects /\ plan.content \in SUBSET Objects
      /\ Moving \in SUBSET Objects
  BY DEF Types, PlanTypes, Objects, Moving
<1>2. PICK os \in SUBSET Objects, known \in SUBSET Views : Import(os, known)
  <2>1. plan.refs \subseteq Views
    BY DEF Types, TypeOK
  <2>. QED  BY <1>1, <2>1 DEF RewriteViews, RewriteContent, MoveShielded
<1>3. UNCHANGED <<exists, disk, mem, found>> /\ pc' = "save"
  BY <1>2 DEF Import
<1>4. imports \in Nat
  BY DEF Types, TypeOK
<1>5. ~SameOrg => InTarget(Range(made'))
  <2>1. ~SameOrg => made' = Empty \/ made' = Named(os, imports + 1)
    BY <1>2 DEF Import
  <2>2. \A g \in Range(Named(os, imports + 1)) : g[2] = imports + 1
    BY <1>4, NamedDict
  <2>. QED  BY <1>4, <2>1, <2>2, EmptyDict DEF InTarget
<1>. QED  BY <1>3, <1>5 DEF Survival, OriginalsSurvive, Deleting, InTarget

LEMMA StartSurvival ==
  ASSUME Types, Survival, NEW resume \in BOOLEAN, StartApply(resume)
  PROVE  Survival'
<1>1. /\ UNCHANGED <<exists, disk, made, found>> /\ pc' = "run"
      /\ mem' = disk \/ mem' = Ledger(Mode)
  BY DEF StartApply, source, work
<1>2. Recorded(Ledger(Mode)) = {} /\ Ledger(Mode).mode \in Home
  BY LedgerTypes DEF Mode, Home, Ledger
<1>. QED  BY <1>1, <1>2 DEF Survival, OriginalsSurvive, Deleting, InTarget

LEMMA SaveSurvival ==
  ASSUME Types, Survival, SaveStep
  PROVE  Survival'
<1>1. /\ UNCHANGED <<exists, found>> /\ pc' = "run" /\ made' = Empty /\ pc = "save"
      /\ mem' = Completed(mem, Current) /\ disk' = mem'
  BY DEF SaveStep, source
<1>2. PICK i \in 1..5 : Current = StepOrder[i] /\ Pending(i)
  BY <1>1, CurrentStep
<1>3. /\ mem'.mode = mem.mode /\ mem'.present = mem.present
      /\ Recorded(mem') \subseteq Recorded(mem) \cup Range(made)
  BY <1>1, <1>2, CompletedType DEF Types, TypeOK, Pending
<1>. QED  BY <1>1, <1>3, EmptyDict DEF Survival, OriginalsSurvive, Deleting, InTarget

LEMMA RollbackSurvival ==
  ASSUME Types, Survival,
         StartRollback \/ DeleteContent \/ DeleteViews \/ FinishRollback
  PROVE  Survival'
<1>0. disk \in LedgerType /\ mem \in LedgerType
  BY DEF Types
<1>1. CASE StartRollback
  <2>1. /\ UNCHANGED <<exists, made>> /\ disk.present /\ ~Refused(disk)
        /\ pc' = "delete_content" /\ found' \subseteq Recorded(disk)
        /\ disk' = [disk EXCEPT !.undone = TRUE] /\ mem' = disk'
    <3>. USE <1>1 DEF StartRollback
    <3>1. UNCHANGED <<exists, made>>
      BY DEF source
    <3>2. found' \subseteq Recorded(disk)
      BY <1>0, RollbackSetRecorded
    <3>3. disk.present /\ ~Refused(disk) /\ pc' = "delete_content"
          /\ disk' = [disk EXCEPT !.undone = TRUE] /\ mem' = disk'
      OBVIOUS
    <3>. QED  BY <3>1, <3>2, <3>3
  <2>2. Recorded(disk') = Recorded(disk) /\ disk'.mode = disk.mode
    BY <1>0, <2>1 DEF Recorded, LedgerType
  <2>3. ~SameOrg
    BY <2>1 DEF Survival, Home, Refused
  <2>. QED  BY <2>1, <2>2, <2>3 DEF Survival, OriginalsSurvive, InTarget
<1>2. CASE DeleteContent \/ DeleteViews
  <2>1. PICK gs \in SUBSET found : Delete(gs)
    BY <1>2 DEF DeleteContent, DeleteViews
  <2>2. /\ UNCHANGED <<disk, mem, made, found>> /\ pc \in Deleting /\ pc' \in Deleting
    BY <1>2 DEF DeleteContent, DeleteViews, Deleting
  <2>3. ~SameOrg
    BY <2>2 DEF Survival
  <2>4. \A g \in gs : g[2] > 0
    BY <2>3 DEF Survival, InTarget
  <2>5. {g[1] : g \in {h \in gs : h[2] = 0}} = {}
    BY <2>4
  <2>6. exists' = exists \ {g[1] : g \in {h \in gs : h[2] = 0}} \/ exists' = exists
    BY <2>1 DEF Delete
  <2>7. exists' = exists
    BY <2>5, <2>6
  <2>. QED  BY <2>2, <2>3, <2>7 DEF Survival, OriginalsSurvive, InTarget
<1>3. CASE FinishRollback
  <2>1. /\ UNCHANGED <<exists, mem, made>> /\ pc' = "idle" /\ found' = {}
        /\ disk' = disk \/ disk' = [mem EXCEPT !.rolledBack = TRUE]
    BY <1>3 DEF FinishRollback, source
  <2>2. LET l == [mem EXCEPT !.rolledBack = TRUE]
        IN  Recorded(l) = Recorded(mem) /\ l.mode = mem.mode /\ l.present = mem.present
    BY <1>0 DEF Recorded, LedgerType
  <2>. QED  BY <2>1, <2>2 DEF Survival, OriginalsSurvive, Deleting, InTarget
<1>. QED  BY <1>1, <1>2, <1>3

LEMMA NextSurvival == Types /\ Survival /\ [Next]_vars => Survival'
<1>. SUFFICES ASSUME Types, Survival, [Next]_vars PROVE Survival'
  OBVIOUS
<1>. USE DEF Survival, OriginalsSurvive, Deleting, InTarget
<1>1. CASE UNCHANGED vars
  BY <1>1 DEF vars
<1>2. CASE \E resume \in BOOLEAN : StartApply(resume)
  BY <1>2, StartSurvival
<1>3. CASE RunBackup \/ BackupCutShort
  BY <1>3 DEF RunBackup, BackupCutShort, source, work
<1>4. CASE RewriteViews \/ RewriteContent \/ MoveShielded
  BY <1>4, ImportSurvival
<1>5. CASE StepFails
  BY <1>5 DEF StepFails, source, work
<1>6. CASE ShareStack
  BY <1>6 DEF ShareStack, source
<1>7. CASE ShareContent
  <2>1. /\ UNCHANGED <<exists, mem, made, found>> /\ pc' \in {"idle", "save"}
        /\ disk' = mem \/ disk' = disk
    BY <1>7 DEF ShareContent, source
  <2>. QED  BY <2>1
<1>8. CASE SaveStep
  BY <1>8, SaveSurvival
<1>9. CASE MigrationComplete
  BY <1>9 DEF MigrationComplete, source, work
<1>10. CASE StartRollback \/ DeleteContent \/ DeleteViews \/ FinishRollback
  BY <1>10, RollbackSurvival
<1>11. CASE Crash
  BY <1>11, EmptyDict DEF Crash, source
<1>12. CASE AddObject
  BY <1>12 DEF AddObject, work
<1>. QED  BY <1>1, <1>2, <1>3, <1>4, <1>5, <1>6, <1>7, <1>8, <1>9, <1>10, <1>11, <1>12
             DEF Next

\* A rollback never deletes an object the tenant had before the migration: not
\* after any mix of kills, resumed and repeated runs, not with the ledger of an
\* older version, which does not say whether its guids are originals or copies.
THEOREM Survives == Spec => []OriginalsSurvive
<1>1. Init => Types /\ Survival
  BY InitTypes, InitSurvival
<1>2. (Types /\ Survival) /\ [Next]_vars => (Types /\ Survival)'
  BY NextTypes, NextSurvival
<1>3. Survival => OriginalsSurvive
  BY DEF Survival
<1>. QED  BY <1>1, <1>2, <1>3, PTL DEF Spec

-----------------------------------------------------------------------------
(* In a same-Org migration of objects that all exist from the start, every *)
(* object rewritten in place is in the backup as it was before.            *)

BackedUp(os) == \A o \in os \ blank : backup[o] = "source"

\* The Views read by content that no discovery of a run has failed to read.
ClearlyRead == ViewsRead(blank)

\* What a ledger's completed steps vouch for, in any later run that reads it.
Keeps(l) == /\ "backup" \in l.completed => BackedUp(Dependents)
            /\ "rewrite_views" \in l.completed => ClearlyRead = {}

\* Content is rewritten only when all its Views have been: it never comes back
\* into the scope of a later run, whose backup would overwrite the first.
Rewritten(o) == o \in blank \/ /\ o \in Views \cup OnModel /\ backup[o] = "source"
                               /\ o \in Content => Uses[o] \cap ViewScope = {}

\* The plan is what this run's discovery found.
Found == \E dark \in SUBSET (Dark \cap blank) : plan = Classified(dark)

\* A plan charges content off the Model only if it is blank.
Charged == plan.content \subseteq Views \cup OnModel \cup blank

Underway ==
    /\ ClearlyRead \subseteq plan.views /\ Charged
    /\ "backup" \in mem.completed \/ pc = "save" => BackedUp(InPlan)
    /\ "backup" \notin mem.completed => Found
    /\ pc = "save" /\ Pending(2) => ClearlyRead = {}
    /\ pc = "share" => Pending(5)

Applying == pc \in {"run", "save", "share"}

Safekeeping ==
    /\ exists = Objects
    /\ \A o \in Objects : bound[o] = "target" => Rewritten(o)
    /\ Keeps(disk) /\ Keeps(mem)
    /\ Applying => Underway

InPlace == SameOrg /\ LateObjects = {}

LEMMA InitSafekeeping == InPlace /\ Init => Safekeeping
<1>. SUFFICES ASSUME InPlace, Init PROVE Safekeeping
  OBVIOUS
<1>1. exists = Objects /\ pc = "idle"
  BY DEF Init, InPlace
<1>2. mem = NoLedger /\ Keeps(mem)
  BY DEF Init, NoLedger, Ledger, Keeps
<1>3. CASE disk = NoLedger /\ bound = [o \in Objects |-> "source"]
  <2>1. Keeps(disk)
    BY <1>2, <1>3 DEF Keeps, NoLedger, Ledger
  <2>. QED  BY <1>1, <1>2, <1>3, <2>1 DEF Safekeeping, Applying
<1>4. CASE /\ bound = [o \in Objects |->
                         IF o \in Views \cup OnModel THEN "target" ELSE "source"]
           /\ backup = [o \in Objects |-> "source"]
  <2>1. ViewScope = {} /\ ClearlyRead = {}
    BY <1>4 DEF ViewScope, ClearlyRead, ViewsRead, Objects
  <2>2. Dependents \subseteq Objects
    BY DEF Dependents, ViewScope, Objects
  <2>3. BackedUp(Dependents)
    BY <1>4, <2>2 DEF BackedUp
  <2>4. \A o \in Objects : bound[o] = "target" => Rewritten(o)
    BY <1>4, <2>1 DEF Rewritten
  <2>. QED  BY <1>1, <1>2, <2>1, <2>3, <2>4 DEF Safekeeping, Applying, Keeps
<1>. QED  BY <1>3, <1>4 DEF Init

\* What apply finds in the source Org is, object by object, unmodified.
LEMMA ScopeIsUntouched ==
  ASSUME Types, Safekeeping
  PROVE  /\ Dependents \subseteq Objects
         /\ \A o \in Dependents \ blank : bound[o] = "source"
<1>1. bound \in [Objects -> {"source", "target"}]
  BY DEF Types, TypeOK
<1>2. Dependents \subseteq Objects
  BY DEF Dependents, ViewScope, Objects
<1>3. ASSUME NEW o \in Dependents \ blank, bound[o] = "target" PROVE FALSE
  <2>1. Rewritten(o)
    BY <1>2, <1>3 DEF Safekeeping
  <2>2. o \notin ViewScope
    BY <1>3 DEF ViewScope
  <2>3. o \in Content /\ Uses[o] \cap ViewScope # {}
    BY <1>3, <2>2 DEF Dependents
  <2>. QED  BY <1>3, <2>1, <2>3 DEF Rewritten
<1>. QED  BY <1>1, <1>2, <1>3

LEMMA ClassifiedScope ==
  Found => InPlan = Dependents /\ ClearlyRead \subseteq plan.views /\ Charged
<1>. SUFFICES ASSUME Found
              PROVE  InPlan = Dependents /\ ClearlyRead \subseteq plan.views /\ Charged
  OBVIOUS
<1>1. PICK dark \in SUBSET (Dark \cap blank) : plan = Classified(dark)
  BY DEF Found
<1>2. /\ plan.views = ViewsRead(dark)
      /\ plan.content = ((Dependents \cap OnModel) \cup dark) \cup (ViewScope \ ViewsRead(dark))
      /\ plan.shielded = (Dependents \cap Content) \ ((Dependents \cap OnModel) \cup dark)
  BY <1>1, ClassifiedParts
<1>3. /\ ViewsRead(dark) \subseteq ViewScope /\ ViewScope \subseteq Dependents
      /\ dark \subseteq Dependents \cap Content
      /\ Dependents \subseteq ViewScope \cup Content
  BY DEF ViewsRead, Dependents, Dark
<1>4. InPlan = Dependents
  BY <1>2, <1>3 DEF InPlan
<1>5. ViewsRead(blank) \subseteq ViewsRead(dark)
  BY DEF ViewsRead
<1>6. ViewScope \subseteq Views
  BY DEF ViewScope
<1>. QED  BY <1>2, <1>4, <1>5, <1>6 DEF ClearlyRead, Charged

\* Rewriting in place only shrinks the scope.
LEMMA ScopeShrinks ==
  ASSUME Types, exists' = exists, blank' = blank,
         \A o \in Objects : bound'[o] = "source" => bound[o] = "source"
  PROVE  /\ ViewScope' \subseteq ViewScope /\ ClearlyRead' \subseteq ClearlyRead
         /\ Dependents' \subseteq Dependents
<1>1. ViewScope' \subseteq ViewScope
  BY DEF ViewScope, Objects
<1>2. Dependents' \subseteq Dependents
  BY <1>1 DEF Dependents, Objects
<1>3. ClearlyRead' \subseteq ClearlyRead
  BY <1>1 DEF ClearlyRead, ViewsRead
<1>. QED  BY <1>1, <1>2, <1>3

\* Once no View that is clearly read needs rewriting, none of such content's does.
LEMMA NoneRead ==
  ASSUME ClearlyRead' = {}, exists' = Objects, NEW c \in Content, c \notin blank'
  PROVE  Uses[c] \cap ViewScope' = {}
<1>1. c \in exists'
  BY DEF Objects
<1>. QED  BY <1>1 DEF ClearlyRead, ViewsRead

\* The files that the later steps read are written by the first.
LEMMA PendingSteps ==
  /\ Pending(1) <=> "backup" \notin mem.completed
  /\ \A i \in 2..5 : Pending(i) => "backup" \in mem.completed
  /\ \A i \in 3..5 : Pending(i) => "rewrite_views" \in mem.completed
  /\ NextStep("backup") => Pending(1)
  /\ NextStep("rewrite_views") => Pending(2)
  /\ NextStep("rewrite_content") => Pending(3)
  /\ NextStep("share_grants") => Pending(5)
<1>1. /\ StepOrder[1] = "backup" /\ StepOrder[2] = "rewrite_views"
      /\ StepOrder[3] = "rewrite_content" /\ StepOrder[4] = "move_shielded"
      /\ StepOrder[5] = "share_grants"
  BY DEF StepOrder
<1>2. Pending(1) <=> "backup" \notin mem.completed
  BY <1>1 DEF Pending
<1>3. \A i \in 2..5 : Pending(i) => "backup" \in mem.completed
  BY <1>1 DEF Pending
<1>4. \A i \in 3..5 : Pending(i) => "rewrite_views" \in mem.completed
  BY <1>1 DEF Pending
<1>5. \A i \in 1..5 : i = 1 \/ i = 2 \/ i = 3 \/ i = 4 \/ i = 5
  OBVIOUS
<1>6. /\ NextStep("backup") => Pending(1)
      /\ NextStep("rewrite_views") => Pending(2)
      /\ NextStep("rewrite_content") => Pending(3)
      /\ NextStep("share_grants") => Pending(5)
  BY <1>1, <1>5 DEF NextStep
<1>. QED  BY <1>2, <1>3, <1>4, <1>6

LEMMA PendingNext ==
  ASSUME mem' = mem
  PROVE  \A i \in 1..5 : Pending(i)' <=> Pending(i)
  BY DEF Pending

\* Steps that leave the source Org and the backup alone disturb nothing but the
\* position of the command; what a discovery cannot read only weakens the claims.
LEMMA Undisturbed ==
  ASSUME Safekeeping, UNCHANGED <<source, backup>>, disk' = disk \/ disk' = mem,
         mem' = mem \/ mem' = disk \/ mem'.completed = {}, blank \subseteq blank'
  PROVE  /\ ViewScope' = ViewScope /\ ClearlyRead' \subseteq ClearlyRead
         /\ Dependents' = Dependents /\ Dark' = Dark
         /\ \A dark : Classified(dark)' = Classified(dark)
         /\ exists' = Objects
         /\ \A o \in Objects : bound'[o] = "target" => Rewritten(o)'
         /\ Keeps(disk)' /\ Keeps(mem)'
<1>1. exists' = exists /\ bound' = bound /\ backup' = backup
  BY DEF source
<1>2. ViewScope' = ViewScope /\ ClearlyRead' \subseteq ClearlyRead
  BY <1>1 DEF ViewScope, ClearlyRead, ViewsRead
<1>3. Dependents' = Dependents /\ Dark' = Dark
  BY <1>1, <1>2 DEF Dependents, Dark
<1>4. \A dark : ViewsRead(dark)' = ViewsRead(dark)
  BY <1>1, <1>2 DEF ViewsRead
<1>5. \A dark : Classified(dark)' = Classified(dark)
  BY <1>2, <1>3, <1>4 DEF Classified
<1>6. \A o \in Objects : bound'[o] = "target" => Rewritten(o)'
  BY <1>1, <1>2 DEF Safekeeping, Rewritten
<1>7. Keeps(disk)' /\ Keeps(mem)'
  BY <1>1, <1>2, <1>3 DEF Safekeeping, Keeps, BackedUp
<1>. QED  BY <1>1, <1>2, <1>3, <1>5, <1>6, <1>7 DEF Safekeeping

LEMMA StartSafekeeping ==
  ASSUME Types, Safekeeping, NEW resume \in BOOLEAN, StartApply(resume)
  PROVE  Safekeeping'
<1>0. PICK dark \in SUBSET Dark : plan' = Classified(dark) /\ blank' = blank \cup dark
  BY DEF StartApply
<1>1. /\ UNCHANGED <<source, backup, disk>> /\ pc' = "run"
      /\ mem' = disk \/ mem' = Ledger(Mode)
  BY DEF StartApply
<1>2. mem' = disk \/ mem'.completed = {}
  BY <1>1 DEF Ledger
<1>3. /\ ViewScope' = ViewScope
      /\ Dependents' = Dependents /\ Dark' = Dark /\ exists' = Objects
      /\ Classified(dark)' = Classified(dark)
      /\ \A o \in Objects : bound'[o] = "target" => Rewritten(o)'
      /\ Keeps(disk)' /\ Keeps(mem)'
  BY <1>0, <1>1, <1>2, Undisturbed
<1>4. Found'
  BY <1>0, <1>3 DEF Found
<1>5. (InPlan = Dependents /\ ClearlyRead \subseteq plan.views /\ Charged)'
  BY <1>4, ClassifiedScope, PTL
<1>6. "backup" \in mem'.completed => BackedUp(InPlan)'
  BY <1>3, <1>5 DEF Keeps, BackedUp
<1>7. Underway'
  BY <1>1, <1>4, <1>5, <1>6 DEF Underway
<1>. QED  BY <1>3, <1>7 DEF Safekeeping

LEMMA BackupSafekeeping ==
  ASSUME Types, Safekeeping, RunBackup \/ BackupCutShort
  PROVE  Safekeeping'
<1>1. /\ UNCHANGED <<exists, bound, disk, mem, plan, blank>> /\ pc = "run" /\ Pending(1)
      /\ pc' = "save" \/ pc' = "idle"
  BY PendingSteps DEF RunBackup, BackupCutShort, source, work, NextStep
<1>2. PICK os : /\ os \subseteq InPlan
                /\ backup' = [o \in Objects |-> IF o \in os THEN bound[o] ELSE backup[o]]
                /\ pc' = "save" => os = InPlan
  <2>1. CASE RunBackup
    BY <2>1 DEF RunBackup, WriteBackup, BackupScope
  <2>2. CASE BackupCutShort
    BY <2>2 DEF BackupCutShort, WriteBackup, BackupScope
  <2>. QED  BY <2>1, <2>2
<1>3. Found /\ "backup" \notin mem.completed
  BY <1>1, PendingSteps DEF Safekeeping, Underway, Applying
<1>4. InPlan = Dependents /\ \A o \in InPlan \ blank : o \in Objects /\ bound[o] = "source"
  BY <1>3, ClassifiedScope, ScopeIsUntouched
<1>5. \A o \in Objects \ blank : backup[o] = "source" => backup'[o] = "source"
  BY <1>2, <1>4
<1>6. /\ ViewScope' = ViewScope /\ ClearlyRead' = ClearlyRead
      /\ Dependents' = Dependents
  BY <1>1 DEF ViewScope, ClearlyRead, ViewsRead, Dependents
<1>7. \A o \in Objects : bound'[o] = "target" => Rewritten(o)'
  BY <1>1, <1>5, <1>6 DEF Safekeeping, Rewritten
<1>8. Keeps(disk)' /\ Keeps(mem)'
  BY <1>1, <1>5, <1>6, ScopeIsUntouched DEF Safekeeping, Keeps, BackedUp
<1>9. ASSUME pc' = "save" PROVE Underway'
  <2>1. InPlan' = InPlan
    BY <1>1 DEF InPlan
  <2>2. BackedUp(InPlan)'
    BY <1>1, <1>2, <1>4, <1>9, <2>1 DEF BackedUp
  <2>3. ~Pending(2)'
    BY <1>1, <1>3, PendingNext, PendingSteps
  <2>4. ClearlyRead' \subseteq plan'.views /\ Charged'
    BY <1>1, <1>6 DEF Safekeeping, Underway, Applying, Charged
  <2>5. Found'
    <3>1. PICK dark \in SUBSET (Dark \cap blank) : plan = Classified(dark)
      BY <1>3 DEF Found
    <3>2. Dark' = Dark /\ Classified(dark)' = Classified(dark)
      BY <1>1, <1>6 DEF Dark, Classified, ViewsRead
    <3>. QED  BY <1>1, <3>1, <3>2 DEF Found
  <2>. QED  BY <1>1, <1>3, <1>6, <1>9, <2>2, <2>3, <2>4, <2>5 DEF Underway
<1>. QED  BY <1>1, <1>7, <1>8, <1>9 DEF Safekeeping, Applying

\* An in-place import: the Views, or the content once the Views are done.
LEMMA InPlaceImport ==
  ASSUME Types, Safekeeping, SameOrg, NEW os, os \subseteq InPlan, pc = "run",
         "backup" \in mem.completed, os \subseteq Views \cup OnModel \cup blank,
         NEW known, Import(os, known), blank' = blank,
         \/ os = {} /\ ~Pending(2)
         \/ os = plan.views
         \/ "rewrite_views" \in mem.completed
  PROVE  Safekeeping'
<1>0. bound \in [Objects -> {"source", "target"}]
  BY DEF Types, TypeOK
<1>1. /\ UNCHANGED <<exists, backup, disk, mem, plan>> /\ pc' = "save"
      /\ \/ os = {} /\ bound' = bound
         \/ bound' = [o \in Objects |-> IF o \in os THEN "target" ELSE bound[o]]
  BY DEF Import
<1>2. \A o \in Objects : bound'[o] = IF o \in os THEN "target" ELSE bound[o]
  BY <1>1
<1>3. BackedUp(InPlan) /\ ClearlyRead \subseteq plan.views /\ Charged
  BY DEF Safekeeping, Underway, Applying
<1>4. /\ ViewScope' \subseteq ViewScope /\ ClearlyRead' \subseteq ClearlyRead
      /\ Dependents' \subseteq Dependents
  BY <1>1, <1>2, ScopeShrinks
<1>5. "rewrite_views" \in mem.completed => ClearlyRead = {}
  BY DEF Safekeeping, Keeps
<1>6. os = plan.views => ClearlyRead' = {}
  BY <1>1, <1>2, <1>3 DEF ViewScope, ClearlyRead, ViewsRead, Objects
<1>7. ASSUME NEW o \in Objects, bound'[o] = "target" PROVE Rewritten(o)'
  <2>1. CASE o \in os /\ o \notin blank
    <3>1. backup'[o] = "source" /\ o \in Views \cup OnModel
      BY <1>1, <1>3, <2>1 DEF BackedUp
    <3>2. ClearlyRead' = {}
      BY <1>4, <1>5, <1>6, <2>1
    <3>3. o \in Content => Uses[o] \cap ViewScope' = {}
      BY <1>1, <2>1, <3>2, NoneRead DEF Safekeeping
    <3>. QED  BY <3>1, <3>3 DEF Rewritten
  <2>2. CASE o \notin os
    <3>1. Rewritten(o)
      BY <1>2, <1>7, <2>2 DEF Safekeeping
    <3>. QED  BY <1>1, <1>4, <3>1 DEF Rewritten
  <2>3. CASE o \in blank
    BY <2>3 DEF Rewritten
  <2>. QED  BY <2>1, <2>2, <2>3
<1>8. Keeps(disk)' /\ Keeps(mem)'
  BY <1>1, <1>4 DEF Safekeeping, Keeps, BackedUp
<1>9. Underway'
  <2>1. BackedUp(InPlan)' /\ Charged'
    BY <1>1, <1>3 DEF BackedUp, InPlan, Charged
  <2>2. Pending(2)' => Pending(2) /\ "rewrite_views" \notin mem.completed
    BY <1>1, PendingNext DEF Pending, StepOrder
  <2>3. Pending(2)' => ClearlyRead' = {}
    BY <1>6, <2>2
  <2>. QED  BY <1>1, <1>3, <1>4, <2>1, <2>3 DEF Underway
<1>. QED  BY <1>1, <1>7, <1>8, <1>9 DEF Safekeeping

LEMMA RewriteSafekeeping ==
  ASSUME Types, Safekeeping, SameOrg, RewriteViews \/ RewriteContent \/ MoveShielded
  PROVE  Safekeeping'
<1>0. /\ plan.views \subseteq Views /\ blank' = blank
      /\ pc = "run" => plan.content \subseteq Views \cup OnModel \cup blank
  <2>1. blank' = blank
    BY DEF RewriteViews, RewriteContent, MoveShielded
  <2>. QED  BY <2>1 DEF Types, TypeOK, Safekeeping, Applying, Underway, Charged
<1>1. CASE RewriteViews
  <2>1. Pending(2) /\ pc = "run" /\ Import(plan.views, {})
    BY <1>1, PendingSteps DEF RewriteViews, NextStep
  <2>2. "backup" \in mem.completed
    BY <2>1, PendingSteps
  <2>. QED  BY <1>0, <2>1, <2>2, InPlaceImport DEF InPlan
<1>2. CASE RewriteContent
  <2>1. PICK known : Pending(3) /\ pc = "run" /\ Import(plan.content, known)
    BY <1>2, PendingSteps DEF RewriteContent, NextStep
  <2>2. "backup" \in mem.completed /\ "rewrite_views" \in mem.completed
    BY <2>1, PendingSteps
  <2>. QED  BY <1>0, <2>1, <2>2, InPlaceImport DEF InPlan
<1>3. CASE MoveShielded
  <2>1. PICK i \in 1..5 : StepOrder[i] = "move_shielded" /\ Pending(i)
    BY <1>3 DEF MoveShielded, NextStep
  <2>2. i = 4
    BY <2>1, Distinct DEF StepOrder
  <2>3. "backup" \in mem.completed /\ "rewrite_views" \in mem.completed
    BY <2>1, <2>2, PendingSteps
  <2>4. pc = "run" /\ Import({}, Views)
    BY <1>3 DEF MoveShielded, NextStep, Moving
  <2>. QED  BY <1>0, <2>3, <2>4, InPlaceImport
<1>. QED  BY <1>1, <1>2, <1>3

LEMMA SaveSafekeeping ==
  ASSUME Types, Safekeeping, SaveStep
  PROVE  Safekeeping'
<1>1. /\ UNCHANGED <<exists, bound, backup, plan, blank>> /\ pc = "save" /\ pc' = "run"
      /\ mem' = Completed(mem, Current) /\ disk' = mem'
  BY DEF SaveStep, source
<1>2. PICK i \in 1..5 : Current = StepOrder[i] /\ Pending(i)
  BY <1>1, CurrentStep
<1>3. mem'.completed = mem.completed \cup {StepOrder[i]}
  BY <1>1, <1>2, CompletedType DEF Types, TypeOK, Pending
<1>4. /\ ViewScope' = ViewScope /\ ClearlyRead' = ClearlyRead
      /\ Dependents' = Dependents /\ InPlan' = InPlan
  BY <1>1 DEF ViewScope, ClearlyRead, ViewsRead, Dependents, InPlan
<1>5. /\ BackedUp(InPlan) /\ ClearlyRead \subseteq plan.views /\ Charged
      /\ "backup" \notin mem.completed => Found
      /\ Pending(2) => ClearlyRead = {}
  BY <1>1 DEF Safekeeping, Underway, Applying
<1>6. "backup" \in mem'.completed
  BY <1>2, <1>3, PendingSteps DEF StepOrder
<1>7. BackedUp(Dependents)
  BY <1>5, ClassifiedScope DEF Safekeeping, Keeps
<1>8. "rewrite_views" \in mem'.completed => ClearlyRead = {}
  <2>1. "rewrite_views" \in mem'.completed => i = 2 \/ "rewrite_views" \in mem.completed
    BY <1>3 DEF StepOrder
  <2>. QED  BY <1>2, <1>5, <2>1 DEF Safekeeping, Keeps
<1>9. Keeps(disk)' /\ Keeps(mem)'
  BY <1>1, <1>4, <1>7, <1>8 DEF Keeps, BackedUp
<1>10. \A o \in Objects : bound'[o] = "target" => Rewritten(o)'
  BY <1>1, <1>4 DEF Safekeeping, Rewritten
<1>11. Underway'
  BY <1>1, <1>4, <1>5, <1>6 DEF Underway, BackedUp, Charged
<1>. QED  BY <1>1, <1>9, <1>10, <1>11 DEF Safekeeping

\* The rest of apply writes neither the source Org nor the backup.
LEMMA QuietSafekeeping ==
  ASSUME Types, Safekeeping,
         \/ StepFails \/ ShareStack \/ ShareContent \/ MigrationComplete \/ Crash
         \/ UNCHANGED vars
  PROVE  Safekeeping'
<1>1. /\ UNCHANGED <<source, backup, mem, plan, blank>> /\ (disk' = disk \/ disk' = mem)
      /\ \/ pc' = "idle"
         \/ pc = "run" /\ pc' = "share" /\ Pending(5)
         \/ pc = "share" /\ pc' = "save"
         \/ pc' = pc
  <2>1. CASE StepFails
    BY <2>1 DEF StepFails, work
  <2>2. CASE ShareStack
    BY <2>2, PendingSteps DEF ShareStack, NextStep
  <2>3. CASE ShareContent
    BY <2>3 DEF ShareContent
  <2>4. CASE MigrationComplete
    BY <2>4 DEF MigrationComplete, work
  <2>5. CASE Crash
    BY <2>5 DEF Crash
  <2>6. CASE UNCHANGED vars
    BY <2>6 DEF vars, source
  <2>. QED  BY <2>1, <2>2, <2>3, <2>4, <2>5, <2>6
<1>2. /\ ViewScope' = ViewScope /\ ClearlyRead' \subseteq ClearlyRead
      /\ Dependents' = Dependents /\ Dark' = Dark /\ exists' = Objects
      /\ \A dark : Classified(dark)' = Classified(dark)
      /\ \A o \in Objects : bound'[o] = "target" => Rewritten(o)'
      /\ Keeps(disk)' /\ Keeps(mem)'
  BY <1>1, Undisturbed
<1>3. ASSUME Applying' PROVE Underway'
  <2>1. Applying /\ Underway
    BY <1>1, <1>3 DEF Applying, Safekeeping
  <2>2. (BackedUp(InPlan) => BackedUp(InPlan)') /\ (Pending(2) <=> Pending(2)')
        /\ (Pending(5) <=> Pending(5)') /\ (Charged => Charged')
    BY <1>1, PendingNext DEF BackedUp, InPlan, Charged
  <2>0. Found => Found'
    BY <1>1, <1>2 DEF Found
  <2>3. CASE pc' = pc
    BY <1>1, <1>2, <2>0, <2>1, <2>2, <2>3 DEF Underway
  <2>4. CASE pc = "run" /\ pc' = "share" /\ Pending(5)
    BY <1>1, <1>2, <2>0, <2>1, <2>2, <2>4 DEF Underway
  <2>5. CASE pc = "share" /\ pc' = "save"
    <3>1. "backup" \in mem.completed /\ "rewrite_views" \in mem.completed
      BY <2>1, <2>5, PendingSteps DEF Underway
    <3>2. ~Pending(2)
      BY <3>1 DEF Pending, StepOrder
    <3>. QED  BY <1>1, <1>2, <2>0, <2>1, <2>2, <2>5, <3>1, <3>2 DEF Underway
  <2>. QED  BY <1>1, <1>3, <2>3, <2>4, <2>5 DEF Applying
<1>. QED  BY <1>2, <1>3 DEF Safekeeping

LEMMA NextSafekeeping ==
  ASSUME InPlace, Types, Survival, Safekeeping, [Next]_vars
  PROVE  Safekeeping'
<1>1. SameOrg /\ LateObjects = {} /\ pc \notin Deleting
  BY DEF InPlace, Survival
<1>2. ~StartRollback
  <2>1. SUFFICES ASSUME disk.present PROVE Refused(disk)
    BY DEF StartRollback
  <2>. QED  BY <1>1, <2>1 DEF Survival, Home, Refused
<1>3. ~DeleteContent /\ ~DeleteViews /\ ~FinishRollback
  BY <1>1 DEF DeleteContent, DeleteViews, FinishRollback, Deleting
<1>4. ~AddObject
  BY <1>1 DEF AddObject
<1>. QED  BY <1>1, <1>2, <1>3, <1>4, StartSafekeeping, BackupSafekeeping, RewriteSafekeeping,
             SaveSafekeeping, QuietSafekeeping DEF Next

\* In a same-Org migration no object is ever left rewritten without the backup
\* of what it was, however often apply is killed, resumed or run afresh, and
\* whatever content a discovery could not read (the property excepts that).  The
\* condition is needed: an object created between a failed run and its --resume
\* is rewritten without one.
THEOREM BackedUpInPlace == Spec => [](LateObjects = {} => OriginalsAreBackedUp)
<1>. DEFINE Inv == Types /\ Survival /\ (InPlace => Safekeeping)
<1>1. Init => Inv
  BY InitTypes, InitSurvival, InitSafekeeping
<1>2. Inv /\ [Next]_vars => Inv'
  <2>. SUFFICES ASSUME Inv, [Next]_vars PROVE Inv'
    OBVIOUS
  <2>1. Types' /\ Survival'
    BY NextTypes, NextSurvival
  <2>2. InPlace' <=> InPlace
    BY DEF InPlace
  <2>3. InPlace => Safekeeping'
    BY NextSafekeeping
  <2>. QED  BY <2>1, <2>2, <2>3
<1>3. Inv => (LateObjects = {} => OriginalsAreBackedUp)
  <2>. SUFFICES ASSUME Inv, SameOrg, LateObjects = {}, NEW o \in exists \ blank, bound[o] = "target"
                PROVE  backup[o] = "source"
    BY DEF OriginalsAreBackedUp
  <2>1. Safekeeping /\ o \in Objects
    BY DEF InPlace, Types, TypeOK
  <2>. QED  BY <2>1 DEF Safekeeping, Rewritten
<1>. QED  BY <1>1, <1>2, <1>3, PTL DEF Spec
=============================================================================
