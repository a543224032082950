------------------------ MODULE CascadeDelete_proofs ------------------------
(***************************************************************************)
(* Proofs about CascadeDelete, for any objects, references, previews and   *)
(* tenants: what Grown computes, the types, and that what goes is backed   *)
(* up, what is reported is true, and what is restored fits together.       *)
(***************************************************************************)
EXTENDS CascadeDelete, FiniteSetTheorems, TLAPS

(***************************************************************************)
(* The hypotheses of the last theorem                                      *)
(***************************************************************************)

\* Nothing is built on itself, directly or through others.
Layered ==
    \E depth \in [Objects -> Nat] :
        \A o \in Objects : \A p \in Reads[o] : depth[p] < depth[o]

\* One rollback of everything, and one of what was skipped.
OneRestoreLater == MaxRollbacks <= 2

(***************************************************************************)
(* The inductive invariant                                                 *)
(***************************************************************************)
Preparing == {"idle", "previewed", "export", "backed_up", "checked", "send"}
Sent == {"sent", "answered", "reported", "restore"}

ServerTypes ==
    /\ live \subseteq Guids
    /\ version \in [Objects -> -1..1]
    /\ binds \in [live -> SUBSET Guids]
    /\ \A g \in live : version[g[1]] # -1

CascadeTypes ==
    /\ removing \subseteq doomed /\ doomed \subseteq Objects
    /\ removed \subseteq Objects /\ removing \subseteq Existing
    /\ answer \in {"none", "done", "refused", "failed", "lost"}
    /\ \A o \in doomed : version[o] # -1

PcType == pc \in Preparing \cup Sent

BackupTypes ==
    /\ listed \subseteq Objects /\ DOMAIN manifest \subseteq Objects
    /\ \A o \in DOMAIN manifest : manifest[o] \in Entries /\ version[o] # -1
    /\ DOMAIN stamps \subseteq Objects
    /\ \A o \in DOMAIN stamps : stamps[o] \in Int /\ 0 <= stamps[o] /\ stamps[o] <= version[o]
    /\ pc \in {"backed_up", "checked", "send", "sent", "answered"} =>
          DOMAIN manifest = listed
    /\ pc = "export" => DOMAIN manifest \subseteq listed
    /\ pc = "idle" => DOMAIN manifest = {}

ChecksTypes ==
    /\ before \subseteq Objects /\ atCheck \subseteq Objects
    /\ DOMAIN seen \subseteq before /\ \A o \in DOMAIN seen : seen[o] \in Int
    /\ pc \in {"idle", "previewed", "export", "backed_up"} => atCheck = {} /\ before = {}

ReportTypes ==
    /\ report.status \in {"none", "APPLIED", "PARTIAL", "NOT_APPLIED", "REFUSED", "UNKNOWN"}
    /\ report.ok \in BOOLEAN /\ (report.ok => report.status = "APPLIED")

RestoreTypes ==
    /\ todo \subseteq DOMAIN manifest /\ skipped \subseteq DOMAIN manifest
    /\ failed \subseteq DOMAIN manifest /\ later \subseteq DOMAIN manifest
    /\ DOMAIN newGuids \subseteq Objects
    /\ \A o \in DOMAIN newGuids : newGuids[o] \in Guids
    /\ unlearned \subseteq Guids
    /\ rollbacks \in 0..MaxRollbacks
    /\ pc \in Preparing => rollbacks = 0
    /\ pc = "restore" => rollbacks # 0
    /\ rollbacks = 0 => todo = {} /\ skipped = {} /\ failed = {} /\ later = {}

Types == /\ ServerTypes /\ CascadeTypes /\ PcType /\ BackupTypes /\ ChecksTypes
         /\ ReportTypes /\ RestoreTypes

\* An original is created once, on what exists, and goes once.
Originals ==
    /\ \A o \in Existing : binds[Original(o)] = {Original(p) : p \in Reads[o]}
    /\ \A o \in Objects : version[o] # -1 => \A p \in Reads[o] : version[p] # -1
    /\ \A o \in removed : version[o] # -1 /\ o \notin Existing
    /\ \A o \in atCheck : version[o] # -1

\* A snapshot is not newer than the object; its time is not newer than the snapshot.
Snapshots ==
    \A o \in DOMAIN manifest :
        /\ manifest[o].binds = {Original(p) : p \in Reads[o]}
        /\ manifest[o].content <= version[o]
        /\ manifest[o].modified # Unknown => manifest[o].modified <= manifest[o].content

\* Nothing is deleted or restored before a delete was sent, and what was checked is
\* what was backed up.
Phases ==
    /\ pc \in Preparing => removing = {}
    /\ pc \in {"checked", "send"} \cup Sent => before = DOMAIN manifest
    /\ pc \in {"send"} \cup Sent =>
          DOMAIN seen = before /\ \A o \in before : seen[o] = manifest[o].content
    /\ pc = "send" => before \subseteq Existing
    /\ pc \notin {"idle", "reported", "restore"} => report = NoReport
    /\ pc = "sent" => answer = "none"
    /\ pc \in Sent \ {"sent"} /\ answer \in {"refused", "failed"} => removing = {}
    /\ pc # "restore" => todo = {}

\* Of what existed at the re-check the cascade can take only what is in the backup:
\* that has no dependents outside it, and none can come to be.
Checked ==
    /\ pc \in {"checked", "send"} =>
          /\ Source \in before /\ removed \cap atCheck = {}
          /\ \A o \in atCheck : /\ Reads[o] \cap Existing \subseteq atCheck
                                /\ Reads[o] \cap before # {} => o \in before
    /\ pc \in Sent => (removed \cup doomed) \cap atCheck \subseteq before

\* What was reported stays true.
Reported == AppliedIsTrue /\ (report.status \in {"NOT_APPLIED", "REFUSED"} =>
                                 removed \cap before = {} /\ removing = {})

\* What is still to be created has no copy, and neither has what was skipped.
Restores ==
    /\ NoTwin
    /\ \A g \in live : g[2] <= rollbacks /\ (g[2] > 0 => g[1] \in DOMAIN manifest)
    /\ \A g \in live : g[1] \in todo \ skipped => FALSE
    /\ \A g \in live : g[1] \in later => g[2] = 0
    /\ (todo \ skipped) \cap later = {}

IInv == Types /\ Originals /\ Snapshots /\ Phases /\ Checked /\ Reported /\ Restores

\* The cascade takes nothing of the backup before what is built on it.
DependentsFirst ==
    pc \in Sent => \A o \in DOMAIN manifest \cap Existing :
                   \A p \in Reads[o] \cap DOMAIN manifest :
                      p \in Existing /\ (p \in removing => o \in removing)

\* What a copy reads is a copy, or an original that at most later rollbacks have copied,
\* as far as they have learned of it.
CopiesBound ==
    \A g \in live : g[2] > 0 => \A r \in binds[g] :
        IF r[2] = 0 THEN \A h \in live \ unlearned : h[1] = r[1] /\ h[2] > 0 => h[2] > g[2]
                    ELSE r \in live

\* The running rollback knows its copies, but for those it has not learned of, and none of them reads what is still to come.
ThisRun ==
    pc = "restore" =>
        /\ \A g \in live : g[2] = rollbacks =>
              /\ g[1] \in DOMAIN newGuids \/ g \in unlearned
              /\ \A r \in binds[g] : r[1] \notin todo
        /\ \A p \in DOMAIN newGuids : newGuids[p] = <<p, rollbacks>> /\ newGuids[p] \in live

\* What a skipped object is built on was skipped as well.
SkippedTogether ==
    rollbacks = 1 => \A o \in later : Reads[o] \cap DOMAIN manifest \subseteq later

\* The second rollback is of one skipped object.
OneAtATime ==
    rollbacks = 2 => \A o \in todo : /\ todo = {o}
                                     /\ \A h \in live : h[1] \in Reads[o] => h[2] = 0

Rebound == CopiesBound /\ ThisRun /\ SkippedTogether /\ OneAtATime

BInv == IInv /\ DependentsFirst /\ Rebound

(***************************************************************************)
(* What Grown computes.                                                    *)
(***************************************************************************)

-----------------------------------------------------------------------------
(* Sets of naturals *)
LEMMA LeastNatural ==
  ASSUME NEW T \in SUBSET Nat, T # {}
  PROVE  \E m \in T : \A k \in T : m <= k
<1>. DEFINE upTo == {0..m : m \in T}
<1>1. upTo \subseteq FiniteSubsetsOf(Nat) /\ upTo # {}
  <2>1. ASSUME NEW m \in T PROVE 0..m \in FiniteSubsetsOf(Nat)
    <3>1. IsFiniteSet(0..m)
      BY FS_Interval
    <3>. QED  BY <3>1 DEF FiniteSubsetsOf
  <2>. QED  BY <2>1
<1>2. PICK s \in upTo : \A r \in upTo : ~ (<<r, s>> \in StrictSubsetOrdering(Nat))
  <2>. HIDE DEF upTo
  <2>. QED  BY <1>1, FS_StrictSubsetOrderingWellFounded, WFMin
<1>3. PICK m \in T : s = 0..m
  OBVIOUS
<1>4. ASSUME NEW k \in T, k < m PROVE FALSE
  <2>1. 0..k \subseteq s /\ 0..k # s /\ 0..k \in upTo
    BY <1>3, <1>4
  <2>2. <<0..k, s>> \in StrictSubsetOrdering(Nat)
    BY <1>3, <2>1 DEF StrictSubsetOrdering
  <2>. QED  BY <1>2, <2>1, <2>2
<1>. QED  BY <1>4

\* The first n numbers and the F-iterates of S on them
Upto(F, S, n) ==
    {g \in [0..n -> SUBSET Objects] :
        g[0] = S /\ \A i \in 1..n : g[i] = F[g[i - 1]]}

LEMMA UptoUnique ==
  ASSUME NEW F, NEW S, NEW n \in Nat, NEW k \in 0..n,
         NEW g \in Upto(F, S, n), NEW h \in Upto(F, S, k)
  PROVE  \A i \in 0..k : g[i] = h[i]
<1>. DEFINE T == {i \in 0..k : g[i] # h[i]}
<1>. SUFFICES ASSUME T # {} PROVE FALSE
  OBVIOUS
<1>1. PICK m \in T : \A i \in T : m <= i
  <2>1. T \in SUBSET Nat
    OBVIOUS
  <2>. HIDE DEF T
  <2>. QED  BY <2>1, LeastNatural
<1>2. m # 0
  BY DEF Upto
<1>3. m - 1 \in 0..k /\ m - 1 \notin T /\ m \in 1..k /\ m \in 1..n
  BY <1>1, <1>2
<1>. QED  BY <1>3 DEF Upto

LEMMA UptoExists ==
  ASSUME NEW F \in [SUBSET Objects -> SUBSET Objects], NEW S \in SUBSET Objects,
         NEW n \in Nat
  PROVE  Upto(F, S, n) # {}
<1>. DEFINE T == {i \in Nat : Upto(F, S, i) = {}}
<1>. SUFFICES ASSUME T # {} PROVE FALSE
  OBVIOUS
<1>1. PICK m \in T : \A i \in T : m <= i
  <2>. HIDE DEF T
  <2>1. T \in SUBSET Nat
    BY DEF T
  <2>. QED  BY <2>1, LeastNatural
<1>2. m # 0
  <2>1. [i \in 0..0 |-> S] \in Upto(F, S, 0)
    BY DEF Upto
  <2>. QED  BY <2>1
<1>3. m - 1 \in Nat /\ m - 1 \notin T
  BY <1>1, <1>2
<1>4. PICK g : g \in Upto(F, S, m - 1)
  BY <1>3
<1>. DEFINE h == [i \in 0..m |-> IF i = m THEN F[g[m - 1]] ELSE g[i]]
<1>5. h \in Upto(F, S, m)
  <2>1. /\ g \in [0..(m - 1) -> SUBSET Objects] /\ g[0] = S
        /\ \A i \in 1..(m - 1) : g[i] = F[g[i - 1]]
    BY <1>4 DEF Upto
  <2>2. h \in [0..m -> SUBSET Objects]
    BY <2>1, <1>3
  <2>3. h[0] = S
    BY <2>1, <1>2
  <2>4. ASSUME NEW i \in 1..m PROVE h[i] = F[h[i - 1]]
    <3>1. i - 1 \in 0..m /\ i - 1 # m /\ i \in 0..m
      OBVIOUS
    <3>2. h[i - 1] = g[i - 1]
      BY <3>1
    <3>3. CASE i = m
      BY <3>1, <3>2, <3>3
    <3>4. CASE i # m
      <4>1. i \in 1..(m - 1) /\ h[i] = g[i]
        BY <3>1, <3>4
      <4>. QED  BY <2>1, <3>2, <4>1
    <3>. QED  BY <3>3, <3>4
  <2>. QED  BY <2>2, <2>3, <2>4 DEF Upto
<1>. QED  BY <1>1, <1>5

\* The iterates of F as one function; there is one, so the recursive definition has it.
Recursion(F, S) == CHOOSE f : f = [n \in Nat |-> IF n = 0 THEN S ELSE F[f[n - 1]]]

LEMMA Iterates ==
  ASSUME NEW F \in [SUBSET Objects -> SUBSET Objects], NEW S \in SUBSET Objects
  PROVE  /\ \A n \in Nat : Recursion(F, S)[n] \in SUBSET Objects
         /\ Recursion(F, S)[0] = S
         /\ \A n \in Nat : Recursion(F, S)[n + 1] = F[Recursion(F, S)[n]]
<1>. DEFINE pick(n) == CHOOSE g : g \in Upto(F, S, n)
            f == [n \in Nat |-> pick(n)[n]]
<1>1. ASSUME NEW n \in Nat PROVE pick(n) \in Upto(F, S, n)
  BY UptoExists
<1>2. ASSUME NEW n \in Nat, n # 0 PROVE f[n] = F[f[n - 1]]
  <2>1. n - 1 \in Nat /\ n - 1 \in 0..n /\ n \in 1..n
    BY <1>2
  <2>2. pick(n)[n - 1] = pick(n - 1)[n - 1]
    <3>1. pick(n) \in Upto(F, S, n) /\ pick(n - 1) \in Upto(F, S, n - 1)
      BY <1>1, <2>1
    <3>. HIDE DEF pick
    <3>2. \A i \in 0..(n - 1) : pick(n)[i] = pick(n - 1)[i]
      BY <2>1, <3>1, UptoUnique
    <3>. QED  BY <2>1, <3>2
  <2>3. pick(n)[n] = F[pick(n)[n - 1]]
    BY <1>1, <2>1 DEF Upto
  <2>4. f[n] = pick(n)[n] /\ f[n - 1] = pick(n - 1)[n - 1]
    <3>. HIDE DEF pick
    <3>. QED  BY <2>1
  <2>. HIDE DEF pick, f
  <2>. QED  BY <2>2, <2>3, <2>4
<1>3. f[0] = S
  BY <1>1 DEF Upto
<1>4. f = [n \in Nat |-> IF n = 0 THEN S ELSE F[f[n - 1]]]
  <2>. HIDE DEF pick
  <2>1. \A n \in Nat : f[n] = IF n = 0 THEN S ELSE F[f[n - 1]]
    BY <1>2, <1>3
  <2>. QED  BY <2>1
<1>5. Recursion(F, S) = [n \in Nat |-> IF n = 0 THEN S ELSE F[Recursion(F, S)[n - 1]]]
  <2>. HIDE DEF f
  <2>. QED  BY <1>4 DEF Recursion
<1>. DEFINE r == Recursion(F, S)
<1>6. \A n \in Nat : r[n] = IF n = 0 THEN S ELSE F[r[n - 1]]
  <2>. HIDE DEF r
  <2>1. r = [n \in Nat |-> IF n = 0 THEN S ELSE F[r[n - 1]]]
    BY <1>5 DEF r
  <2>. QED  BY <2>1
<1>7. r[0] = S /\ \A n \in Nat : r[n + 1] = F[r[n]]
  <2>. HIDE DEF r
  <2>1. \A n \in Nat : n + 1 \in Nat /\ n + 1 # 0 /\ (n + 1) - 1 = n
    OBVIOUS
  <2>. QED  BY <1>6, <2>1
<1>8. \A n \in Nat : r[n] \in SUBSET Objects
  <2>. DEFINE T == {i \in Nat : r[i] \notin SUBSET Objects}
  <2>. HIDE DEF r
  <2>. SUFFICES ASSUME T # {} PROVE FALSE
    OBVIOUS
  <2>1. PICK m \in T : \A i \in T : m <= i
    <3>1. T \in SUBSET Nat
      OBVIOUS
    <3>. HIDE DEF T
    <3>. QED  BY <3>1, LeastNatural
  <2>2. m # 0
    BY <1>7
  <2>3. m - 1 \in Nat /\ m - 1 \notin T /\ r[m] = F[r[m - 1]]
    BY <1>6, <2>1, <2>2
  <2>. QED  BY <2>3
<1>. QED  BY <1>7, <1>8

LEMMA GrownIsIterate ==
  ASSUME NEW F, NEW S
  PROVE  Grown(F, S) = Recursion(F, S)[Cardinality(Objects)]
BY DEF Grown, Recursion

\* A sequence of sets in which each is grown from the one before grows as long as it
\* changes, so it is constant once it has had as many steps as there are objects.
LEMMA GrownIs ==
  ASSUME NEW F \in [SUBSET Objects -> SUBSET Objects], NEW S \in SUBSET Objects,
         \A os \in SUBSET Objects : os \subseteq F[os]
  PROVE  /\ S \subseteq Grown(F, S) /\ Grown(F, S) \in SUBSET Objects
         /\ F[Grown(F, S)] = Grown(F, S)
<1>. DEFINE r == Recursion(F, S)
            N == Cardinality(Objects)
<1>1. /\ r[0] = S /\ \A n \in Nat : r[n] \in SUBSET Objects
      /\ \A n \in Nat : r[n + 1] = F[r[n]]
  BY Iterates
<1>2. N \in Nat /\ IsFiniteSet(Objects)
  BY CascadeAssumption, FS_CardinalityType
<1>3. \A n \in Nat : IsFiniteSet(r[n]) /\ Cardinality(r[n]) \in Nat
  BY <1>1, <1>2, FS_Subset, FS_CardinalityType
<1>. HIDE DEF r, N
<1>4. \A n \in Nat : r[n] \subseteq r[n + 1]
  BY <1>1
<1>5. ASSUME NEW n \in Nat, r[n + 1] # r[n]
      PROVE  Cardinality(r[n]) + 1 <= Cardinality(r[n + 1])
  <2>1. Cardinality(r[n]) < Cardinality(r[n + 1])
    BY <1>3, <1>4, <1>5, FS_Subset
  <2>. QED  BY <1>3, <2>1
<1>6. \A n \in Nat : r[n + 1] = r[n] \/ n + 1 <= Cardinality(r[n + 1])
  <2>. DEFINE T == {n \in Nat : r[n + 1] # r[n] /\ ~(n + 1 <= Cardinality(r[n + 1]))}
  <2>. SUFFICES ASSUME T # {} PROVE FALSE
    OBVIOUS
  <2>1. PICK m \in T : \A i \in T : m <= i
    <3>1. T \in SUBSET Nat
      OBVIOUS
    <3>. HIDE DEF T
    <3>. QED  BY <3>1, LeastNatural
  <2>2. Cardinality(r[m]) + 1 <= Cardinality(r[m + 1])
    BY <1>5, <2>1
  <2>3. m # 0
    BY <1>3, <2>1, <2>2
  <2>4. m - 1 \in Nat /\ m - 1 \notin T /\ (m - 1) + 1 = m
    BY <2>1, <2>3
  <2>5. r[m] # r[m - 1]
    BY <1>1, <2>1, <2>4
  <2>6. m <= Cardinality(r[m])
    BY <2>4, <2>5
  <2>. QED  BY <1>3, <2>1, <2>2, <2>6
<1>7. r[N + 1] = r[N]
  <2>1. N + 1 \in Nat /\ Cardinality(r[N + 1]) <= N
    BY <1>1, <1>2, FS_Subset DEF N
  <2>. QED  BY <1>2, <1>3, <1>6, <2>1
<1>8. S \subseteq r[N]
  <2>. DEFINE T == {n \in Nat : ~(S \subseteq r[n])}
  <2>. SUFFICES ASSUME T # {} PROVE FALSE
    BY <1>2
  <2>1. PICK m \in T : \A i \in T : m <= i
    <3>1. T \in SUBSET Nat
      OBVIOUS
    <3>. HIDE DEF T
    <3>. QED  BY <3>1, LeastNatural
  <2>2. m - 1 \in Nat /\ m - 1 \notin T /\ (m - 1) + 1 = m
    BY <1>1, <2>1
  <2>. QED  BY <1>4, <2>1, <2>2
<1>9. Grown(F, S) = r[N]
  BY GrownIsIterate DEF r, N
<1>. QED  BY <1>1, <1>2, <1>7, <1>8, <1>9

\* It is contained in every set that F does not lead out of.
LEMMA GrownIsLeast ==
  ASSUME NEW F \in [SUBSET Objects -> SUBSET Objects], NEW S \in SUBSET Objects,
         NEW C, S \subseteq C,
         \A os \in SUBSET Objects : os \subseteq C => F[os] \subseteq C
  PROVE  Grown(F, S) \subseteq C
<1>. DEFINE r == Recursion(F, S)
            T == {n \in Nat : ~(r[n] \subseteq C)}
<1>1. /\ r[0] = S /\ \A n \in Nat : r[n] \in SUBSET Objects
      /\ \A n \in Nat : r[n + 1] = F[r[n]]
  BY Iterates
<1>2. Cardinality(Objects) \in Nat
  BY CascadeAssumption, FS_CardinalityType
<1>. HIDE DEF r
<1>3. T = {}
  <2>. SUFFICES ASSUME T # {} PROVE FALSE
    OBVIOUS
  <2>1. PICK m \in T : \A i \in T : m <= i
    <3>1. T \in SUBSET Nat
      OBVIOUS
    <3>. HIDE DEF T
    <3>. QED  BY <3>1, LeastNatural
  <2>2. m - 1 \in Nat /\ m - 1 \notin T /\ (m - 1) + 1 = m
    BY <1>1, <2>1
  <2>. QED  BY <1>1, <2>1, <2>2
<1>4. Grown(F, S) = r[Cardinality(Objects)]
  BY GrownIsIterate DEF r
<1>. QED  BY <1>2, <1>3, <1>4

(***************************************************************************)
(* The scope of a delete                                                   *)
(***************************************************************************)
LEMMA DependentsType ==
  ASSUME NEW os
  PROVE  DirectDependents(os) \in SUBSET Objects /\ DirectDependents(os) \subseteq Existing
BY DEF DirectDependents, Existing

LEMMA ClosureIs ==
  ASSUME NEW o \in Objects
  PROVE  /\ Closure(o) \in SUBSET Objects /\ o \in Closure(o)
         /\ DirectDependents(Closure(o)) \subseteq Closure(o)
<1>. DEFINE F == [os \in SUBSET Objects |-> os \cup DirectDependents(os)]
<1>1. F \in [SUBSET Objects -> SUBSET Objects] /\ \A os \in SUBSET Objects : os \subseteq F[os]
  BY DependentsType
<1>2. \A os \in SUBSET Objects : F[os] = os => DirectDependents(os) \subseteq os
  OBVIOUS
<1>3. Closure(o) = Grown(F, {o}) /\ {o} \in SUBSET Objects
  BY DEF Closure
<1>. HIDE DEF F
<1>. QED  BY <1>1, <1>2, <1>3, GrownIs

LEMMA ClosureIsLeast ==
  ASSUME NEW o \in Objects, NEW C, o \in C,
         \A os \in SUBSET Objects : os \subseteq C => DirectDependents(os) \subseteq C
  PROVE  Closure(o) \subseteq C
<1>. DEFINE F == [os \in SUBSET Objects |-> os \cup DirectDependents(os)]
<1>1. F \in [SUBSET Objects -> SUBSET Objects]
  BY DependentsType
<1>2. \A os \in SUBSET Objects : os \subseteq C => F[os] \subseteq C
  OBVIOUS
<1>3. Closure(o) = Grown(F, {o}) /\ {o} \in SUBSET Objects /\ {o} \subseteq C
  BY DEF Closure
<1>4. Grown(F, {o}) \subseteq C
  <2>. DEFINE S == {o}
  <2>1. S \in SUBSET Objects /\ S \subseteq C
    BY <1>3
  <2>. HIDE DEF F, S
  <2>2. Grown(F, S) \subseteq C
    BY <1>1, <1>2, <2>1, GrownIsLeast
  <2>. QED  BY <2>2 DEF S
<1>. QED  BY <1>3, <1>4

LEMMA ClosureExists ==
  ASSUME NEW o \in Existing
  PROVE  Closure(o) \subseteq Existing
BY ClosureIsLeast, DependentsType DEF Existing

LEMMA ScopeIs ==
  ASSUME NEW deep
  PROVE  /\ Scope(deep) \in SUBSET Objects /\ Source \in Scope(deep)
         /\ \A o \in Scope(deep) \cap Owners : Preview(o, deep) \subseteq Scope(deep)
<1>. DEFINE F == [os \in SUBSET Objects |->
                    os \cup UNION {Preview(o, deep) : o \in os \cap Owners}]
<1>1. \A o \in Objects : Preview(o, deep) \in SUBSET Objects
  BY ClosureIs, DependentsType DEF Preview
<1>2. F \in [SUBSET Objects -> SUBSET Objects] /\ \A os \in SUBSET Objects : os \subseteq F[os]
  BY <1>1
<1>3. \A os \in SUBSET Objects : F[os] = os =>
         \A o \in os \cap Owners : Preview(o, deep) \subseteq os
  OBVIOUS
<1>4. Scope(deep) = Grown(F, {Source}) /\ {Source} \in SUBSET Objects
  BY CascadeAssumption DEF Scope
<1>5. /\ {Source} \subseteq Grown(F, {Source}) /\ Grown(F, {Source}) \in SUBSET Objects
      /\ F[Grown(F, {Source})] = Grown(F, {Source})
  <2>. HIDE DEF F
  <2>. QED  BY <1>2, <1>4, GrownIs
<1>. HIDE DEF F
<1>. QED  BY <1>3, <1>4, <1>5

\* With nothing attached to it a scope holds whatever exists and reads it.
LEMMA ScopeCovers ==
  ASSUME Originals, NEW deep, Attached(Scope(deep)) = {},
         NEW o \in Existing, NEW p \in Reads[o], p \in Scope(deep)
  PROVE  o \in Scope(deep)
<1>1. o \in Objects /\ p \in Owners /\ p \in Objects
  BY CascadeAssumption DEF Existing
<1>2. Original(p) \in binds[Original(o)]
  BY DEF Originals
<1>3. \A os : p \in os => o \in DirectDependents(os)
  BY <1>2 DEF DirectDependents
<1>4. CASE o \in Unlisted
  <2>1. o \in Attached(Scope(deep))
    BY <1>1, <1>3, <1>4 DEF Attached
  <2>. QED  BY <2>1
<1>5. CASE o \notin Unlisted
  <2>1. p \in Closure(p) /\ DirectDependents(Closure(p)) \subseteq Closure(p)
    BY <1>1, ClosureIs
  <2>2. o \in Preview(p, deep)
    BY <1>3, <1>5, <2>1 DEF Preview
  <2>. QED  BY <1>1, <2>2, ScopeIs
<1>. QED  BY <1>4, <1>5

-----------------------------------------------------------------------------
(* Types *)
LEMMA OriginalIs ==
  /\ \A o \in Objects : Original(o) \in Guids /\ Original(o)[1] = o /\ Original(o)[2] = 0
  /\ \A o, p : Original(o) = Original(p) => o = p
  /\ \A g \in Guids : /\ g[1] \in Objects /\ g[2] \in Nat
                      /\ g[2] = 0 => g = Original(g[1])
  /\ \A g, h \in Guids : g[1] = h[1] /\ g[2] = h[2] => g = h
BY DEF Original, Guids

LEMMA EmptyIs == DOMAIN Empty = {}
BY DEF Empty

LEMMA TypesOK == Types => TypeOK
<1>. SUFFICES ASSUME Types PROVE TypeOK
  OBVIOUS
<1>1. \A f : Range(f) = {f[x] : x \in DOMAIN f}
  BY DEF Range
<1>2. /\ Range(manifest) \subseteq Entries /\ Range(stamps) \subseteq Int
      /\ Range(seen) \subseteq Int /\ Range(newGuids) \subseteq Guids
  BY <1>1 DEF Types, BackupTypes, ChecksTypes, RestoreTypes
<1>3. version \in [Objects -> Int]
  BY DEF Types, ServerTypes
<1>. QED  BY <1>2, <1>3 DEF Types, ServerTypes, CascadeTypes, PcType, Preparing, Sent,
             BackupTypes, ChecksTypes, ReportTypes, RestoreTypes, TypeOK

LEMMA TypesInit == Init => Types
<1>. SUFFICES ASSUME Init PROVE Types
  OBVIOUS
<1>1. ServerTypes
  <2>1. live \subseteq Guids /\ binds \in [live -> SUBSET Guids]
    BY CascadeAssumption DEF Init, Guids, Original
  <2>2. \A g \in live : g[1] \in Objects \ LateObjects
    BY OriginalIs DEF Init
  <2>. QED  BY <2>1, <2>2 DEF Init, ServerTypes
<1>2. CascadeTypes /\ PcType
  BY DEF Init, CascadeTypes, PcType, Preparing
<1>3. BackupTypes /\ ChecksTypes
  BY EmptyIs DEF Init, BackupTypes, ChecksTypes
<1>4. ReportTypes
  BY DEF Init, ReportTypes, NoReport
<1>5. RestoreTypes
  BY EmptyIs, CascadeAssumption DEF Init, RestoreTypes
<1>. QED  BY <1>1, <1>2, <1>3, <1>4, <1>5 DEF Types

\* What a new object changes on the server
LEMMA Adding ==
  ASSUME ServerTypes, NEW g \in Guids, NEW gs \in SUBSET Guids,
         live' = live \cup {g},
         binds' = [h \in live' |-> IF h = g THEN gs ELSE binds[h]],
         version' \in [Objects -> -1..1], version'[g[1]] # -1,
         \A h \in live : version'[h[1]] # -1
  PROVE  ServerTypes' /\ binds'[g] = gs /\ \A h \in live : h # g => binds'[h] = binds[h]
BY DEF ServerTypes

\* A restored object
LEMMA Creating ==
  ASSUME Types, NEW o \in DOMAIN manifest, rollbacks # 0, Create(o), UNCHANGED version
  PROVE  /\ ServerTypes' /\ <<o, rollbacks>> \in Guids
         /\ binds'[<<o, rollbacks>>] = Remapped(manifest[o].binds)
         /\ \A h \in live : h # <<o, rollbacks>> => binds'[h] = binds[h]
         /\ Existing' = Existing
<1>. DEFINE new == <<o, rollbacks>>
            gs == Remapped(manifest[o].binds)
<1>1. new \in Guids
  BY CascadeAssumption DEF Types, BackupTypes, RestoreTypes, Guids
<1>2. manifest[o].binds \in SUBSET Guids
  BY DEF Types, BackupTypes, Entries
<1>3. gs \in SUBSET Guids
  BY <1>2 DEF Types, RestoreTypes, Remapped
<1>4. live' = live \cup {new} /\ binds' = [h \in live' |-> IF h = new THEN gs ELSE binds[h]]
  BY DEF Create
<1>5. \A p \in Objects : Original(p) # new
  BY DEF Original
<1>6. Existing' = Existing
  BY <1>4, <1>5 DEF Existing
<1>7. /\ version' \in [Objects -> -1..1] /\ version'[new[1]] # -1
      /\ \A h \in live : version'[h[1]] # -1
  BY DEF Types, ServerTypes, BackupTypes
<1>. HIDE DEF new, gs
<1>8. ServerTypes' /\ binds'[new] = gs /\ \A h \in live : h # new => binds'[h] = binds[h]
  BY <1>1, <1>3, <1>4, <1>7, Adding DEF Types
<1>. QED  BY <1>1, <1>6, <1>8 DEF new, gs

-----------------------------------------------------------------------------
(* Types, action by action *)
LEMMA ServerKept ==
  ASSUME UNCHANGED server
  PROVE  Existing' = Existing /\ (ServerTypes => ServerTypes')
BY DEF server, Existing, ServerTypes

LEMMA TypesRunPreview == Types /\ RunPreview => Types'
<1>. SUFFICES ASSUME Types, RunPreview PROVE Types'
  OBVIOUS
<1>1. ServerTypes' /\ Existing' = Existing
  BY ServerKept DEF Types, RunPreview
<1>2. listed' \in SUBSET Objects
  BY ScopeIs DEF RunPreview
<1>. QED  BY <1>1, <1>2 DEF RunPreview, cascade, checks, restore, NoReport, server,
             Types, CascadeTypes, PcType, Preparing, Sent, BackupTypes, ChecksTypes,
             ReportTypes, RestoreTypes

LEMMA TypesStamps == Types /\ ModifiedBeforeExport => Types'
<1>. SUFFICES ASSUME Types, ModifiedBeforeExport PROVE Types'
  OBVIOUS
<1>1. ServerTypes' /\ Existing' = Existing
  BY ServerKept DEF Types, ModifiedBeforeExport
<1>2. \A o \in Existing : version[o] \in Int /\ 0 <= version[o]
  BY DEF Types, ServerTypes, Existing, Original
<1>3. /\ DOMAIN stamps' \subseteq Objects
      /\ \A o \in DOMAIN stamps' : /\ stamps'[o] \in Int /\ 0 <= stamps'[o]
                                   /\ stamps'[o] <= version[o]
  BY <1>2, EmptyIs DEF ModifiedBeforeExport, Existing
<1>4. BackupTypes'
  BY <1>3, EmptyIs DEF ModifiedBeforeExport, server, Types, BackupTypes
<1>. QED  BY <1>1, <1>4, EmptyIs DEF ModifiedBeforeExport, server, cascade, checks, restore,
             Types, CascadeTypes, PcType, Preparing, Sent, ChecksTypes, ReportTypes,
             RestoreTypes

\* What an export adds
LEMMA Exporting ==
  ASSUME Types, NEW o \in Objects, Export(o)
  PROVE  /\ o \in listed \ DOMAIN manifest /\ o \in Existing
         /\ DOMAIN manifest' = DOMAIN manifest \cup {o}
         /\ \A p \in DOMAIN manifest : manifest'[p] = manifest[p]
         /\ manifest'[o] = [content |-> version[o], binds |-> binds[Original(o)],
                            modified |-> IF o \in DOMAIN stamps THEN stamps[o] ELSE Unknown]
<1>1. o \in listed \ DOMAIN manifest
  BY DEF Export, NextExport, Types, BackupTypes
<1>. QED  BY <1>1 DEF Export

LEMMA TypesExport == ASSUME Types, NEW o \in Objects, Export(o) PROVE Types'
<1>1. ServerTypes' /\ Existing' = Existing
  BY ServerKept DEF Types, Export
<1>2. /\ version[o] \in Nat /\ version[o] # -1
      /\ binds[Original(o)] \in SUBSET Guids
  <2>1. Original(o) \in live /\ Original(o)[1] = o
    BY Exporting, OriginalIs DEF Existing
  <2>2. version[o] \in -1..1 /\ version[o] # -1
    BY <2>1 DEF Types, ServerTypes
  <2>. QED  BY <2>1, <2>2 DEF Types, ServerTypes
<1>3. manifest'[o] \in Entries
  <2>. DEFINE when == IF o \in DOMAIN stamps THEN stamps[o] ELSE Unknown
  <2>1. when \in Int
    BY DEF Types, BackupTypes, Unknown
  <2>2. manifest'[o] = [content |-> version[o], binds |-> binds[Original(o)],
                        modified |-> when]
    BY Exporting
  <2>. HIDE DEF when
  <2>. QED  BY <1>2, <2>1, <2>2 DEF Entries
<1>4. BackupTypes'
  BY <1>2, <1>3, Exporting DEF Export, Types, BackupTypes, server
<1>. QED  BY <1>1, <1>4, Exporting DEF Export, server, cascade, checks, restore,
             Types, CascadeTypes, PcType, Preparing, Sent, ChecksTypes, ReportTypes,
             RestoreTypes

LEMMA TypesPrepare ==
  Types /\ (WriteBackup \/ CheckScope \/ CheckPresent \/ Refuse \/ RunAgain) => Types'
<1>. SUFFICES ASSUME Types, WriteBackup \/ CheckScope \/ CheckPresent \/ Refuse \/ RunAgain
              PROVE  Types'
  OBVIOUS
<1>1. ServerTypes' /\ Existing' = Existing /\ version' = version
  BY ServerKept DEF Types, WriteBackup, CheckScope, CheckPresent, Refuse, RunAgain, server
<1>2. CASE WriteBackup
  BY <1>1, <1>2, EmptyIs DEF WriteBackup, cascade, checks, restore, AllExported,
     Types, CascadeTypes, PcType, Preparing, Sent, BackupTypes, ChecksTypes,
     ReportTypes, RestoreTypes
<1>3. CASE CheckScope
  <2>1. before' \in SUBSET Objects /\ atCheck' \subseteq Objects
    BY <1>3, ScopeIs DEF CheckScope, Existing
  <2>2. DOMAIN seen = {}
    BY <1>3 DEF CheckScope, Types, ChecksTypes
  <2>. QED  BY <1>1, <1>3, <2>1, <2>2 DEF CheckScope, cascade, backup, restore,
     Types, CascadeTypes, PcType, Preparing, Sent, BackupTypes, ChecksTypes,
     ReportTypes, RestoreTypes
<1>4. CASE CheckPresent
  <2>1. \A o \in Existing : version[o] \in Int
    BY DEF Types, ServerTypes, Existing
  <2>2. ChecksTypes'
    BY <1>4, <2>1 DEF CheckPresent, Types, ChecksTypes
  <2>. QED  BY <1>1, <1>4, <2>2 DEF CheckPresent, cascade, backup, restore,
     Types, CascadeTypes, PcType, Preparing, Sent, BackupTypes,
     ReportTypes, RestoreTypes
<1>5. CASE Refuse \/ RunAgain
  <2>1. /\ StartOver /\ UNCHANGED <<cascade, report, restore>> /\ rollbacks = 0
    BY <1>5 DEF Refuse, RunAgain, Types, RestoreTypes, Preparing
  <2>. QED  BY <1>1, <2>1, EmptyIs DEF StartOver, cascade, restore,
     Types, CascadeTypes, PcType, Preparing, Sent, BackupTypes, ChecksTypes,
     ReportTypes, RestoreTypes
<1>. QED  BY <1>2, <1>3, <1>4, <1>5

LEMMA TypesDelete ==
  Types /\ (SendDelete \/ Answer \/ ServerGivesUp \/ Report) => Types'
<1>. SUFFICES ASSUME Types, SendDelete \/ Answer \/ ServerGivesUp \/ Report
              PROVE  Types'
  OBVIOUS
<1>1. ServerTypes' /\ Existing' = Existing /\ version' = version
  BY ServerKept DEF Types, SendDelete, Answer, ServerGivesUp, Report, server
<1>2. CASE SendDelete
  <2>1. doomed' \subseteq Existing /\ removing' = doomed' /\ doomed' \subseteq Objects
    BY <1>2, ClosureExists DEF SendDelete, Existing
  <2>2. \A o \in doomed' : version[o] # -1
    BY <2>1, OriginalIs DEF Existing, Types, ServerTypes
  <2>. QED  BY <1>1, <1>2, <2>1, <2>2 DEF SendDelete, backup, checks, restore,
     Types, CascadeTypes, PcType, Preparing, Sent, BackupTypes, ChecksTypes,
     ReportTypes, RestoreTypes
<1>3. CASE Answer
  BY <1>1, <1>3 DEF Answer, backup, checks, restore,
     Types, CascadeTypes, PcType, Preparing, Sent, BackupTypes, ChecksTypes,
     ReportTypes, RestoreTypes
<1>4. CASE ServerGivesUp
  BY <1>1, <1>4 DEF ServerGivesUp, backup, checks, restore,
     Types, CascadeTypes, PcType, Preparing, Sent, BackupTypes, ChecksTypes,
     ReportTypes, RestoreTypes
<1>5. CASE Report
  <2>1. ReportTypes'
    <3>1. Status \in {"APPLIED", "PARTIAL", "NOT_APPLIED", "REFUSED", "UNKNOWN"}
      BY DEF Status, Classify
    <3>2. CASE report' = [status |-> "UNKNOWN", ok |-> FALSE]
      BY <3>2 DEF ReportTypes
    <3>3. ASSUME NEW readable \in BOOLEAN,
                 report' = [status |-> Status,
                            ok     |-> /\ Status = "APPLIED" /\ answer = "done"
                                       /\ readable /\ WithoutBackup = {}]
          PROVE  ReportTypes'
      <4>. DEFINE fine == /\ Status = "APPLIED" /\ answer = "done"
                          /\ readable /\ WithoutBackup = {}
      <4>1. report'.ok = fine /\ report'.status = Status
        BY <3>3
      <4>2. fine \in BOOLEAN /\ (fine => Status = "APPLIED")
        OBVIOUS
      <4>. HIDE DEF fine
      <4>. QED  BY <3>1, <4>1, <4>2 DEF ReportTypes
    <3>. QED  BY <1>5, <3>2, <3>3 DEF Report
  <2>. QED  BY <1>1, <1>5, <2>1 DEF Report, backup, cascade, checks, restore,
     Types, CascadeTypes, PcType, Preparing, Sent, BackupTypes, ChecksTypes,
     RestoreTypes
<1>. QED  BY <1>2, <1>3, <1>4, <1>5

LEMMA TypesStartRollback ==
  ASSUME Types, NEW wanted \in SUBSET DOMAIN manifest, StartRollback(wanted)
  PROVE  Types'
<1>1. ServerTypes' /\ Existing' = Existing /\ version' = version
  BY ServerKept DEF Types, StartRollback, server
<1>2. RestoreTypes'
  BY EmptyIs, CascadeAssumption
  DEF StartRollback, StillPresent, backup, Types, RestoreTypes, Preparing
<1>. QED  BY <1>1, <1>2 DEF StartRollback, cascade, backup, checks,
     Types, CascadeTypes, PcType, Preparing, Sent, BackupTypes, ChecksTypes, ReportTypes

LEMMA TypesRestore ==
  ASSUME Types, NEW o \in Objects, RollbackEntry(o) \/ ImportLost(o)
  PROVE  Types'
<1>1. o \in todo /\ o \in DOMAIN manifest /\ rollbacks # 0 /\ pc = "restore"
  BY DEF RollbackEntry, ImportLost, NextEntry, Types, RestoreTypes
<1>2. ServerTypes' /\ Existing' = Existing /\ version' = version /\ <<o, rollbacks>> \in Guids
  <2>1. CASE Create(o) /\ UNCHANGED version
    BY <1>1, <2>1, Creating
  <2>2. CASE UNCHANGED server
    <3>1. <<o, rollbacks>> \in Guids
      BY <1>1, CascadeAssumption DEF Types, RestoreTypes, Guids
    <3>. QED  BY <2>2, <3>1, ServerKept DEF Types, server
  <2>. QED  BY <2>1, <2>2 DEF RollbackEntry, ImportLost, server
<1>3. /\ todo' \subseteq todo /\ failed' \subseteq failed \cup {o}
      /\ UNCHANGED <<cascade, backup, checks, report, skipped, later, rollbacks>>
      /\ pc' \in {"restore", "reported"}
  BY <1>1 DEF RollbackEntry, ImportLost
<1>4. /\ DOMAIN newGuids' \subseteq Objects /\ unlearned' \subseteq Guids
      /\ \A p \in DOMAIN newGuids' : newGuids'[p] \in Guids
  BY <1>2 DEF RollbackEntry, ImportLost, Types, RestoreTypes
<1>5. RestoreTypes'
  BY <1>1, <1>3, <1>4 DEF backup, Types, RestoreTypes, Preparing
<1>. QED  BY <1>2, <1>3, <1>5 DEF cascade, backup, checks,
     Types, CascadeTypes, PcType, Preparing, Sent, BackupTypes, ChecksTypes, ReportTypes

LEMMA TypesEnd == Types /\ (FinishRollback \/ Kill) => Types'
<1>. SUFFICES ASSUME Types, FinishRollback \/ Kill PROVE Types'
  OBVIOUS
<1>1. ServerTypes' /\ Existing' = Existing /\ version' = version
  BY ServerKept DEF Types, FinishRollback, Kill, server
<1>2. CASE FinishRollback
  BY <1>1, <1>2 DEF FinishRollback, cascade, backup, checks, restore,
     Types, CascadeTypes, PcType, Preparing, Sent, BackupTypes, ChecksTypes,
     ReportTypes, RestoreTypes
<1>3. CASE Kill
  BY <1>1, <1>3 DEF Kill, backup, checks,
     Types, CascadeTypes, PcType, Preparing, Sent, BackupTypes, ChecksTypes,
     ReportTypes, RestoreTypes
<1>. QED  BY <1>2, <1>3

LEMMA TypesServerRemoves ==
  ASSUME Types, NEW o \in Objects, ServerRemoves(o)
  PROVE  Types' /\ Existing' = Existing \ {o}
<1>1. Existing' = Existing \ {o}
  BY OriginalIs DEF ServerRemoves, Existing
<1>2. ServerTypes'
  BY DEF ServerRemoves, Types, ServerTypes
<1>3. CascadeTypes'
  BY <1>1 DEF ServerRemoves, Types, CascadeTypes
<1>. QED  BY <1>1, <1>2, <1>3 DEF ServerRemoves, backup, checks, restore,
     Types, PcType, BackupTypes, ChecksTypes, ReportTypes, RestoreTypes

LEMMA TypesTenants ==
  ASSUME Types, NEW o \in Objects, TenantEdits(o) \/ TenantCreates(o)
  PROVE  /\ Types'
         /\ \A p \in Objects : version[p] <= version'[p]
                               /\ (version[p] # -1 => version'[p] # -1)
         /\ TenantEdits(o) => Existing' = Existing
         /\ TenantCreates(o) => Existing' = Existing \cup {o}
<1>1. version' = [version EXCEPT ![o] = version[o] + 1] /\ version[o] \in {-1, 0}
  BY DEF TenantEdits, TenantCreates, Types, ServerTypes
<1>2. /\ version' \in [Objects -> -1..1] /\ version'[o] # -1
      /\ \A p \in Objects : version[p] \in -1..1 /\ version[p] <= version'[p]
                            /\ (version[p] # -1 => version'[p] # -1)
  BY <1>1 DEF Types, ServerTypes
<1>3. TenantEdits(o) => Existing' = Existing
  BY DEF TenantEdits, Existing
<1>4. TenantCreates(o) => Existing' = Existing \cup {o}
  BY OriginalIs DEF TenantCreates, Existing
<1>5. \A h \in live : h[1] \in Objects /\ version'[h[1]] # -1
  BY <1>2, OriginalIs DEF Types, ServerTypes
<1>6. ServerTypes'
  <2>1. CASE TenantEdits(o)
    BY <1>2, <1>5, <2>1 DEF TenantEdits, Types, ServerTypes
  <2>2. CASE TenantCreates(o)
    <3>. DEFINE gs == {Original(p) : p \in Reads[o]}
    <3>1. gs \in SUBSET Guids /\ Original(o) \in Guids /\ Original(o)[1] = o
      BY OriginalIs, CascadeAssumption
    <3>2. /\ live' = live \cup {Original(o)}
          /\ binds' = [h \in live' |-> IF h = Original(o) THEN gs ELSE binds[h]]
      BY <2>2 DEF TenantCreates
    <3>. HIDE DEF gs
    <3>. QED  BY <1>2, <1>5, <3>1, <3>2, Adding DEF Types
  <2>. QED  BY <2>1, <2>2
<1>7. UNCHANGED <<cascade, pc, backup, checks, report, restore>>
  BY DEF TenantEdits, TenantCreates
<1>8. CascadeTypes'
  BY <1>2, <1>3, <1>4, <1>7 DEF cascade, Types, CascadeTypes
<1>9. BackupTypes'
  <2>1. \A p \in DOMAIN stamps : /\ stamps[p] \in Int /\ version[p] \in Int
                                 /\ version'[p] \in Int /\ stamps[p] <= version'[p]
    BY <1>2 DEF Types, BackupTypes, ServerTypes
  <2>. QED  BY <1>2, <1>7, <2>1 DEF backup, Types, BackupTypes
<1>10. PcType' /\ ChecksTypes' /\ ReportTypes' /\ RestoreTypes'
  BY <1>7 DEF backup, checks, restore, Types, PcType, ChecksTypes, ReportTypes, RestoreTypes
<1>11. Types'
  BY <1>6, <1>8, <1>9, <1>10 DEF Types
<1>. QED  BY <1>2, <1>3, <1>4, <1>11

LEMMA TypesStutter == Types /\ UNCHANGED vars => Types'
<1>. SUFFICES ASSUME Types, UNCHANGED vars PROVE Types'
  OBVIOUS
<1>1. Existing' = Existing
  BY DEF vars, Existing
<1>. QED  BY <1>1 DEF vars, Types, ServerTypes, CascadeTypes, PcType,
     BackupTypes, ChecksTypes, ReportTypes, RestoreTypes

\* The actions of the commands and the server that concern no single object
Command ==
    \/ RunPreview \/ ModifiedBeforeExport \/ WriteBackup
    \/ CheckScope \/ CheckPresent \/ Refuse \/ SendDelete
    \/ Answer \/ ServerGivesUp \/ Report \/ RunAgain
    \/ FinishRollback \/ Kill

LEMMA RollbackOf ==
  ASSUME Types, RollbackAll \/ \E o \in later : StartRollback({o})
  PROVE  \E wanted \in SUBSET DOMAIN manifest :
            /\ StartRollback(wanted)
            /\ \/ rollbacks = 0 /\ wanted = DOMAIN manifest
               \/ rollbacks # 0 /\ \E o \in later : wanted = {o}
BY DEF RollbackAll, Types, RestoreTypes

LEMMA TypesStep == Types /\ [Next]_vars => Types'
<1>. SUFFICES ASSUME Types, [Next]_vars PROVE Types'
  OBVIOUS
<1>1. CASE UNCHANGED vars
  BY <1>1, TypesStutter
<1>2. CASE Command
  BY <1>2, TypesRunPreview, TypesStamps, TypesPrepare, TypesDelete, TypesEnd DEF Command
<1>3. CASE RollbackAll \/ \E o \in later : StartRollback({o})
  BY <1>3, RollbackOf, TypesStartRollback
<1>4. ASSUME NEW o \in Objects,
             \/ Export(o) \/ ServerRemoves(o) \/ RollbackEntry(o)
             \/ ImportLost(o) \/ TenantEdits(o) \/ TenantCreates(o)
      PROVE  Types'
  BY <1>4, TypesExport, TypesServerRemoves, TypesRestore, TypesTenants
<1>. QED  BY <1>1, <1>2, <1>3, <1>4 DEF Next, Command

\* For any objects, references, edits and rollbacks: what exists is read, backed up and
\* deleted as what it is, and a rollback works on the backup only.
THEOREM TypeCorrect == Spec => []TypeOK
<1>1. Spec => []Types
  BY TypesInit, TypesStep, PTL DEF Spec
<1>. QED  BY <1>1, TypesOK, PTL

-----------------------------------------------------------------------------
(* Originals and their snapshots *)
\* What a rollback may be asked for
Wanted == {w \in SUBSET DOMAIN manifest :
              \/ rollbacks = 0 /\ w = DOMAIN manifest
              \/ rollbacks # 0 /\ \E o \in later : w = {o}}

Quiet == Command \/ \E wanted \in Wanted : StartRollback(wanted)

LEMMA QuietFrame ==
  ASSUME Quiet
  PROVE  /\ UNCHANGED <<live, version, binds, removed>> /\ Existing' = Existing
         /\ atCheck' = atCheck \/ atCheck' = {} \/ atCheck' = Existing
         /\ manifest' = manifest \/ manifest' = Empty
<1>1. /\ UNCHANGED <<live, version, binds, removed>>
      /\ atCheck' = atCheck \/ atCheck' = {} \/ atCheck' = Existing
      /\ manifest' = manifest \/ manifest' = Empty
  BY DEF Quiet, Command, RunPreview, ModifiedBeforeExport, WriteBackup, CheckScope,
     CheckPresent, Refuse, SendDelete, Answer, ServerGivesUp, Report, RunAgain,
     FinishRollback, Kill, StartRollback, StartOver, server, cascade, backup, checks, restore
<1>. QED  BY <1>1 DEF Existing

LEMMA NextIs ==
  ASSUME Types, [Next]_vars
  PROVE  \/ UNCHANGED vars \/ Quiet
         \/ \E o \in Objects : \/ Export(o) \/ ServerRemoves(o) \/ RollbackEntry(o)
                               \/ ImportLost(o) \/ TenantEdits(o) \/ TenantCreates(o)
<1>1. RollbackAll \/ (\E o \in later : StartRollback({o})) => Quiet
  BY RollbackOf DEF Quiet, Wanted
<1>. QED  BY <1>1 DEF Next, Quiet, Command

\* What a rollback's step does to the server: nothing, or a new object.
LEMMA RestoreFrame ==
  ASSUME Types, NEW o \in Objects, RollbackEntry(o) \/ ImportLost(o)
  PROVE  /\ o \in todo /\ o \in DOMAIN manifest /\ rollbacks # 0 /\ pc = "restore"
         /\ Existing' = Existing
         /\ todo' \subseteq todo \ {o}
         /\ UNCHANGED <<version, cascade, backup, checks, report, skipped, later, rollbacks>>
         /\ \/ UNCHANGED <<live, binds, newGuids, unlearned>>
            \/ Create(o) /\ o \notin skipped /\ unlearned \subseteq unlearned'
<1>1. o \in todo /\ o \in DOMAIN manifest /\ rollbacks # 0 /\ pc = "restore"
  BY DEF RollbackEntry, ImportLost, NextEntry, Types, RestoreTypes
<1>2. /\ UNCHANGED <<version, cascade, backup, checks, report, skipped, later, rollbacks>>
      /\ todo' \subseteq todo \ {o}
      /\ \/ UNCHANGED <<live, binds, newGuids, unlearned>>
         \/ Create(o) /\ o \notin skipped /\ unlearned \subseteq unlearned'
  BY <1>1 DEF RollbackEntry, ImportLost
<1>3. Existing' = Existing
  <2>1. CASE UNCHANGED live
    BY <2>1 DEF Existing
  <2>2. CASE Create(o)
    BY <1>1, <1>2, <2>2, Creating
  <2>. QED  BY <1>2, <2>1, <2>2
<1>. QED  BY <1>1, <1>2, <1>3

LEMMA OriginalsStep == Types /\ Originals /\ [Next]_vars => Originals'
<1>. SUFFICES ASSUME Types, Originals, [Next]_vars PROVE Originals'
  OBVIOUS
<1>0. \A o \in Existing : o \in Objects /\ version[o] # -1 /\ Original(o) \in live
  BY OriginalIs DEF Existing, Types, ServerTypes
<1>1. CASE UNCHANGED vars
  <2>1. Existing' = Existing
    BY <1>1 DEF vars, Existing
  <2>. QED  BY <1>1, <2>1 DEF vars, Originals
<1>2. CASE Quiet
  BY <1>0, <1>2, QuietFrame DEF Originals
<1>3. ASSUME NEW o \in Objects, Export(o)
      PROVE  Originals'
  <2>1. Existing' = Existing
    BY <1>3 DEF Export, server, Existing
  <2>. QED  BY <1>3, <2>1 DEF Export, server, cascade, checks, Originals
<1>4. ASSUME NEW o \in Objects, ServerRemoves(o)
      PROVE  Originals'
  <2>1. Existing' = Existing \ {o} /\ o \in Existing
    BY <1>4, TypesServerRemoves DEF ServerRemoves
  <2>2. \A p \in Existing' : binds'[Original(p)] = binds[Original(p)]
    BY <1>0, <1>4, <2>1, OriginalIs DEF ServerRemoves, Existing
  <2>. QED  BY <1>0, <1>4, <2>1, <2>2 DEF ServerRemoves, checks, Originals
<1>5. ASSUME NEW o \in Objects, RollbackEntry(o) \/ ImportLost(o)
      PROVE  Originals'
  <2>1. \A p \in Existing : binds'[Original(p)] = binds[Original(p)]
    <3>1. CASE UNCHANGED binds
      BY <3>1
    <3>2. CASE Create(o)
      <4>1. \A p \in Objects : Original(p) # <<o, rollbacks>>
        BY <1>5, RestoreFrame DEF Original
      <4>2. \A h \in live : h # <<o, rollbacks>> => binds'[h] = binds[h]
        BY <1>5, <3>2, RestoreFrame, Creating
      <4>. QED  BY <1>0, <4>1, <4>2
    <3>. QED  BY <1>5, <3>1, <3>2, RestoreFrame
  <2>2. UNCHANGED <<version, removed, atCheck>> /\ Existing' = Existing
    BY <1>5, RestoreFrame DEF cascade, checks
  <2>. QED  BY <2>1, <2>2 DEF Originals
<1>6. ASSUME NEW o \in Objects, TenantEdits(o)
      PROVE  Originals'
  <2>1. /\ Existing' = Existing
        /\ \A p \in Objects : version[p] # -1 <=> version'[p] # -1
    <3>1. Existing' = Existing
      BY <1>6, TypesTenants
    <3>2. /\ version \in [Objects -> -1..1] /\ version[o] = 0
          /\ version' = [version EXCEPT ![o] = 1]
      BY <1>6 DEF TenantEdits, Types, ServerTypes
    <3>. QED  BY <3>1, <3>2
  <2>. QED  BY <1>6, <2>1, CascadeAssumption DEF TenantEdits, cascade, checks, Originals,
            Types, CascadeTypes, ChecksTypes
<1>7. ASSUME NEW o \in Objects, TenantCreates(o)
      PROVE  Originals'
  <2>1. /\ Existing' = Existing \cup {o} /\ version[o] = -1 /\ Reads[o] \subseteq Existing
        /\ \A p \in Objects : version[p] # -1 => version'[p] # -1
        /\ \A p \in Objects : p # o => version'[p] = version[p]
    BY <1>7, TypesTenants DEF TenantCreates, Types, ServerTypes
  <2>2. /\ binds'[Original(o)] = {Original(p) : p \in Reads[o]}
        /\ \A p \in Existing : binds'[Original(p)] = binds[Original(p)]
    BY <1>0, <1>7, <2>1, OriginalIs DEF TenantCreates
  <2>3. UNCHANGED <<removed, atCheck>> /\ removed \subseteq Objects /\ atCheck \subseteq Objects
    BY <1>7 DEF TenantCreates, cascade, checks, Types, CascadeTypes, ChecksTypes
  <2>4. \A p \in Existing' : binds'[Original(p)] = {Original(q) : q \in Reads[p]}
    BY <2>1, <2>2 DEF Originals
  <2>5. \A p \in Objects : version'[p] # -1 => \A q \in Reads[p] : version'[q] # -1
    BY <1>0, <2>1, CascadeAssumption DEF Originals
  <2>6. /\ \A p \in removed' : version'[p] # -1 /\ p \notin Existing'
        /\ \A p \in atCheck' : version'[p] # -1
    BY <2>1, <2>3 DEF Originals
  <2>. QED  BY <2>4, <2>5, <2>6 DEF Originals
<1>. QED  BY <1>1, <1>2, <1>3, <1>4, <1>5, <1>6, <1>7, NextIs

LEMMA SnapshotsStep == Types /\ Originals /\ Snapshots /\ [Next]_vars => Snapshots'
<1>. SUFFICES ASSUME Types, Originals, Snapshots, [Next]_vars PROVE Snapshots'
  OBVIOUS
<1>1. CASE UNCHANGED vars
  BY <1>1 DEF vars, Snapshots
<1>2. CASE Quiet
  BY <1>2, QuietFrame, EmptyIs DEF Snapshots
<1>3. ASSUME NEW o \in Objects, Export(o)
      PROVE  Snapshots'
  <2>1. /\ manifest'[o].content = version[o] /\ manifest'[o].binds = binds[Original(o)]
        /\ manifest'[o].modified # Unknown => o \in DOMAIN stamps
                                              /\ manifest'[o].modified = stamps[o]
    <3>. DEFINE when == IF o \in DOMAIN stamps THEN stamps[o] ELSE Unknown
    <3>1. manifest'[o] = [content |-> version[o], binds |-> binds[Original(o)],
                          modified |-> when]
      BY <1>3, Exporting
    <3>2. when # Unknown => o \in DOMAIN stamps /\ when = stamps[o]
      OBVIOUS
    <3>. HIDE DEF when
    <3>. QED  BY <3>1, <3>2
  <2>2. binds[Original(o)] = {Original(p) : p \in Reads[o]} /\ version[o] \in Int
    <3>1. o \in Existing
      BY <1>3, Exporting
    <3>. QED  BY <3>1 DEF Originals, Types, ServerTypes
  <2>3. o \in DOMAIN stamps => stamps[o] <= version[o]
    BY DEF Types, BackupTypes
  <2>4. /\ DOMAIN manifest' = DOMAIN manifest \cup {o} /\ version' = version
        /\ \A p \in DOMAIN manifest : manifest'[p] = manifest[p]
    BY <1>3, Exporting DEF Export, server
  <2>. QED  BY <2>1, <2>2, <2>3, <2>4 DEF Snapshots
<1>4. ASSUME NEW o \in Objects, ServerRemoves(o)
      PROVE  Snapshots'
  BY <1>4 DEF ServerRemoves, backup, Snapshots
<1>5. ASSUME NEW o \in Objects, RollbackEntry(o) \/ ImportLost(o)
      PROVE  Snapshots'
  BY <1>5, RestoreFrame DEF backup, Snapshots
<1>6. ASSUME NEW o \in Objects, TenantEdits(o) \/ TenantCreates(o)
      PROVE  Snapshots'
  <2>1. \A p \in DOMAIN manifest : /\ manifest[p].content \in Int /\ version[p] \in Int
                                   /\ version'[p] \in Int /\ version[p] <= version'[p]
    BY <1>6, TypesTenants DEF Types, BackupTypes, ServerTypes, Entries
  <2>2. manifest' = manifest
    BY <1>6 DEF TenantEdits, TenantCreates, backup
  <2>. QED  BY <2>1, <2>2 DEF Snapshots
<1>. QED  BY <1>1, <1>2, <1>3, <1>4, <1>5, <1>6, NextIs

\* An object whose time is still the backup's has been saved as it is.
LEMMA FreshIsSaved ==
  ASSUME Types, Snapshots, NEW o \in DOMAIN manifest, Fresh(o)
  PROVE  manifest[o].content = version[o]
BY DEF Types, ServerTypes, BackupTypes, Entries, Snapshots, Fresh

-----------------------------------------------------------------------------
(* What was checked is what was backed up. *)
Core == Types /\ Originals /\ Snapshots /\ Phases /\ Checked /\ Reported

LEMMA PhasesQuiet == Core /\ Quiet => Phases'
<1>. SUFFICES ASSUME Core, Quiet PROVE Phases'
  OBVIOUS
<1>. USE DEF Preparing, Sent
<1>1. Existing' = Existing /\ Phases /\ (pc \in Preparing => todo = {})
  BY QuietFrame DEF Core, Types, RestoreTypes
<1>2. CASE RunPreview \/ ModifiedBeforeExport \/ WriteBackup
  BY <1>1, <1>2 DEF RunPreview, ModifiedBeforeExport, WriteBackup, Phases, cascade, checks,
     restore
<1>3. CASE CheckScope
  BY <1>1, <1>3 DEF CheckScope, Phases, cascade, backup, restore
<1>4. CASE CheckPresent
  <2>1. \A o \in before : manifest[o].content = version[o]
    BY <1>4, FreshIsSaved DEF CheckPresent, Core, Phases
  <2>. QED  BY <1>1, <1>4, <2>1 DEF CheckPresent, Phases, cascade, backup, restore
<1>5. CASE Refuse \/ RunAgain
  <2>1. removing = {} /\ todo = {}
    BY <1>1, <1>5 DEF Refuse, RunAgain, Phases, Core, Reported
  <2>. QED  BY <1>5, <2>1 DEF Refuse, RunAgain, StartOver, Phases, cascade, restore
<1>6. CASE SendDelete
  BY <1>1, <1>6 DEF SendDelete, Phases, backup, checks, restore
<1>7. CASE Answer
  BY <1>1, <1>7 DEF Answer, Phases, backup, checks, restore
<1>8. CASE ServerGivesUp
  BY <1>1, <1>8 DEF ServerGivesUp, Phases, backup, checks, restore
<1>9. CASE Report
  BY <1>1, <1>9 DEF Report, Phases, cascade, backup, checks, restore
<1>10. CASE FinishRollback
  BY <1>1, <1>10 DEF FinishRollback, Phases, cascade, backup, checks, restore
<1>11. CASE Kill
  BY <1>1, <1>11 DEF Kill, Phases, backup, checks
<1>12. ASSUME NEW wanted \in Wanted, StartRollback(wanted)
       PROVE  Phases'
  BY <1>1, <1>12 DEF StartRollback, Phases, cascade, backup, checks
<1>. QED  BY <1>2, <1>3, <1>4, <1>5, <1>6, <1>7, <1>8, <1>9, <1>10, <1>11, <1>12
         DEF Quiet, Command

LEMMA PhasesStep == Core /\ [Next]_vars => Phases'
<1>. SUFFICES ASSUME Core, [Next]_vars PROVE Phases'
  OBVIOUS
<1>. USE DEF Preparing, Sent
<1>1. CASE UNCHANGED vars
  <2>1. Existing' = Existing
    BY <1>1 DEF vars, Existing
  <2>. QED  BY <1>1, <2>1 DEF vars, Core, Phases
<1>2. CASE Quiet
  BY <1>2, PhasesQuiet
<1>3. ASSUME NEW o \in Objects, Export(o) PROVE Phases'
  BY <1>3 DEF Export, cascade, checks, restore, Core, Phases
<1>4. ASSUME NEW o \in Objects, ServerRemoves(o) PROVE Phases'
  BY <1>4 DEF ServerRemoves, backup, checks, restore, Core, Phases
<1>5. ASSUME NEW o \in Objects, RollbackEntry(o) \/ ImportLost(o) PROVE Phases'
  <2>1. pc = "restore" /\ (pc' = "restore" \/ (pc' = "reported" /\ todo' = {}))
    <3>1. pc = "restore"
      BY <1>5, RestoreFrame DEF Core
    <3>2. (RollbackEntry(o) => pc' = pc) /\ (ImportLost(o) => pc' = "reported" /\ todo' = {})
      BY DEF RollbackEntry, ImportLost
    <3>. QED  BY <1>5, <3>1, <3>2
  <2>. QED  BY <1>5, <2>1, RestoreFrame DEF cascade, backup, checks, Core, Phases
<1>6. ASSUME NEW o \in Objects, TenantEdits(o) \/ TenantCreates(o) PROVE Phases'
  <2>1. Existing \subseteq Existing'
    BY <1>6, TypesTenants DEF Core
  <2>2. UNCHANGED <<cascade, pc, backup, checks, report, restore>>
    BY <1>6 DEF TenantEdits, TenantCreates
  <2>. QED  BY <2>1, <2>2 DEF cascade, backup, checks, restore, Core, Phases
<1>. QED  BY <1>1, <1>2, <1>3, <1>4, <1>5, <1>6, NextIs DEF Core

-----------------------------------------------------------------------------
(* The cascade's reach *)

\* What the server takes on was in the scope, or came to be after it was re-checked.
LEMMA SentIsChecked ==
  ASSUME Core, SendDelete
  PROVE  doomed' \cap atCheck \subseteq before
<1>. DEFINE C == {o \in Existing : o \in atCheck => o \in before}
<1>1. CASE Source \notin Existing
  BY <1>1 DEF SendDelete
<1>2. CASE Source \in Existing
  <2>1. pc = "send"
    BY DEF SendDelete
  <2>2. Source \in C
    BY <1>2, <2>1 DEF Core, Checked
  <2>3. ASSUME NEW os \in SUBSET Objects, os \subseteq C
        PROVE  DirectDependents(os) \subseteq C
    <3>. SUFFICES ASSUME NEW q \in DirectDependents(os), q \in atCheck
                  PROVE  q \in before
      BY DependentsType
    <3>1. q \in Existing
      BY DependentsType
    <3>2. PICK p \in os : Original(p) \in binds[Original(q)]
      BY DEF DirectDependents
    <3>3. p \in Reads[q]
      BY <3>1, <3>2, OriginalIs DEF Core, Originals
    <3>4. p \in Existing /\ (p \in atCheck => p \in before)
      BY <2>3
    <3>5. p \in before
      BY <2>1, <3>3, <3>4 DEF Core, Checked
    <3>. QED  BY <2>1, <3>3, <3>5 DEF Core, Checked
  <2>4. Source \in Objects
    BY CascadeAssumption
  <2>5. Closure(Source) \subseteq C
    <3>. HIDE DEF C
    <3>. QED  BY <2>2, <2>3, <2>4, ClosureIsLeast
  <2>. QED  BY <1>2, <2>5 DEF SendDelete
<1>. QED  BY <1>1, <1>2

LEMMA CheckedQuiet == Core /\ Quiet => Checked'
<1>. SUFFICES ASSUME Core, Quiet PROVE Checked'
  OBVIOUS
<1>. USE DEF Preparing, Sent
<1>1. Existing' = Existing /\ Checked
  BY QuietFrame DEF Core
<1>2. CASE RunPreview \/ ModifiedBeforeExport \/ WriteBackup \/ Refuse \/ RunAgain
  BY <1>2 DEF RunPreview, ModifiedBeforeExport, WriteBackup, Refuse, RunAgain, StartOver,
     Checked
<1>3. CASE CheckScope
  <2>1. PICK deep \in SUBSET Owners : before' = Scope(deep)
    BY <1>3 DEF CheckScope
  <2>2. /\ Attached(Scope(deep)) = {} /\ atCheck' = Existing
        /\ pc' = "checked" /\ removed' = removed
    BY <1>3, <2>1 DEF CheckScope, cascade
  <2>3. \A o \in Existing : Reads[o] \cap Scope(deep) # {} => o \in Scope(deep)
    BY <2>2, ScopeCovers DEF Core
  <2>4. Source \in Scope(deep)
    BY ScopeIs
  <2>5. removed \cap Existing = {}
    BY DEF Core, Originals
  <2>. QED  BY <1>1, <2>1, <2>2, <2>3, <2>4, <2>5 DEF Checked
<1>4. CASE CheckPresent
  BY <1>1, <1>4 DEF CheckPresent, Checked, cascade
<1>5. CASE SendDelete
  <2>1. removed \cap atCheck = {}
    BY <1>1, <1>5 DEF SendDelete, Checked
  <2>. QED  BY <1>5, <2>1, SentIsChecked DEF SendDelete, Checked, checks
<1>6. CASE Answer \/ ServerGivesUp \/ Report \/ FinishRollback \/ Kill
  BY <1>1, <1>6 DEF Answer, ServerGivesUp, Report, FinishRollback, Kill, Checked, cascade,
     checks
<1>7. ASSUME NEW wanted \in Wanted, StartRollback(wanted)
      PROVE  Checked'
  BY <1>1, <1>7 DEF StartRollback, Checked, cascade, checks
<1>. QED  BY <1>2, <1>3, <1>4, <1>5, <1>6, <1>7 DEF Quiet, Command

LEMMA CheckedStep == Core /\ [Next]_vars => Checked'
<1>. SUFFICES ASSUME Core, [Next]_vars PROVE Checked'
  OBVIOUS
<1>. USE DEF Preparing, Sent
<1>1. CASE UNCHANGED vars
  <2>1. Existing' = Existing
    BY <1>1 DEF vars, Existing
  <2>. QED  BY <1>1, <2>1 DEF vars, Core, Checked
<1>2. CASE Quiet
  BY <1>2, CheckedQuiet
<1>3. ASSUME NEW o \in Objects, Export(o) PROVE Checked'
  BY <1>3 DEF Export, Checked
<1>4. ASSUME NEW o \in Objects, ServerRemoves(o) PROVE Checked'
  <2>1. o \in doomed /\ pc \in Sent
    BY <1>4 DEF ServerRemoves, Core, Types, CascadeTypes, PcType, Phases
  <2>. QED  BY <1>4, <2>1 DEF ServerRemoves, checks, Core, Checked
<1>5. ASSUME NEW o \in Objects, RollbackEntry(o) \/ ImportLost(o) PROVE Checked'
  <2>1. pc = "restore" /\ pc' \in {"restore", "reported"}
    BY <1>5, RestoreFrame DEF RollbackEntry, ImportLost, Core
  <2>. QED  BY <1>5, <2>1, RestoreFrame DEF cascade, checks, Core, Checked
<1>6. ASSUME NEW o \in Objects, TenantEdits(o) PROVE Checked'
  <2>1. Existing' = Existing /\ UNCHANGED <<cascade, pc, checks>>
    BY <1>6, TypesTenants DEF TenantEdits, Core
  <2>. QED  BY <2>1 DEF cascade, checks, Core, Checked
<1>7. ASSUME NEW o \in Objects, TenantCreates(o) PROVE Checked'
  <2>1. Existing' = Existing \cup {o} /\ UNCHANGED <<cascade, pc, checks>> /\ version[o] = -1
    BY <1>7, TypesTenants DEF TenantCreates, Core
  <2>2. \A q \in atCheck : o \notin Reads[q]
    BY <2>1 DEF Core, Originals, Types, ChecksTypes
  <2>. QED  BY <2>1, <2>2 DEF cascade, checks, Core, Checked
<1>. QED  BY <1>1, <1>2, <1>3, <1>4, <1>5, <1>6, <1>7, NextIs DEF Core

-----------------------------------------------------------------------------
(* The report *)
LEMMA ReportIsTrue ==
  ASSUME Core, Report
  PROVE  Reported'
<1>1. /\ pc = "answered" /\ before = DOMAIN manifest
      /\ answer \in {"refused", "failed"} => removing = {}
      /\ UNCHANGED <<removing, removed, doomed, before, manifest>> /\ Existing' = Existing
  <2>1. Existing' = Existing /\ pc = "answered"
    BY DEF Report, server, Existing
  <2>. QED  BY <2>1 DEF Report, Core, Phases, Sent, cascade, backup, checks
<1>2. CASE report' = [status |-> "UNKNOWN", ok |-> FALSE]
  BY <1>2 DEF Reported, AppliedIsTrue
<1>3. ASSUME NEW readable \in BOOLEAN,
             report' = [status |-> Status,
                        ok     |-> /\ Status = "APPLIED" /\ answer = "done"
                                   /\ readable /\ WithoutBackup = {}]
      PROVE  Reported'
  <2>1. report'.status = Status /\ (report'.ok => Status = "APPLIED" /\ WithoutBackup = {})
    BY <1>3
  <2>2. Status = "APPLIED" => before \cap Existing = {}
    BY DEF Status, Classify, Gone
  <2>3. Status \in {"NOT_APPLIED", "REFUSED"} => before \subseteq Existing /\ removing = {}
    BY <1>1 DEF Status, Classify, Gone, DefiniteFailure
  <2>4. AppliedIsTrue'
    BY <1>1, <2>1, <2>2 DEF AppliedIsTrue, WithoutBackup
  <2>5. removed \cap Existing = {}
    BY DEF Core, Originals
  <2>. QED  BY <1>1, <2>1, <2>3, <2>4, <2>5 DEF Reported
<1>. QED  BY <1>2, <1>3 DEF Report

LEMMA ReportedQuiet == Core /\ Quiet => Reported'
<1>. SUFFICES ASSUME Core, Quiet PROVE Reported'
  OBVIOUS
<1>1. /\ Existing' = Existing /\ removed' = removed /\ Reported
      /\ report.ok => report.status = "APPLIED"
  BY QuietFrame DEF Core, Types, ReportTypes
<1>2. ASSUME report'.ok = FALSE, report'.status = "none" PROVE Reported'
  BY <1>2 DEF Reported, AppliedIsTrue
<1>3. CASE pc \in {"previewed", "export", "backed_up", "checked", "send", "sent"}
  <2>1. report.ok = FALSE /\ report.status = "none"
    BY <1>3 DEF Core, Phases, NoReport
  <2>2. report' = report
    BY <1>3 DEF Quiet, Command, RunPreview, ModifiedBeforeExport, WriteBackup, CheckScope,
       CheckPresent, Refuse, SendDelete, Answer, ServerGivesUp, Report, RunAgain,
       FinishRollback, Kill, StartRollback
  <2>. QED  BY <1>2, <2>1, <2>2
<1>4. CASE RunPreview
  BY <1>2, <1>4 DEF RunPreview, NoReport
<1>5. CASE Report
  BY <1>5, ReportIsTrue
<1>6. CASE RunAgain
  BY <1>1, <1>6 DEF RunAgain, StartOver, cascade, Reported, AppliedIsTrue
<1>7. CASE ServerGivesUp
  BY <1>1, <1>7 DEF ServerGivesUp, backup, checks, Reported, AppliedIsTrue
<1>8. CASE Kill \/ FinishRollback \/ \E wanted \in Wanted : StartRollback(wanted)
  BY <1>1, <1>8 DEF Kill, FinishRollback, StartRollback, cascade, backup, checks, Reported,
     AppliedIsTrue
<1>9. CASE Answer \/ SendDelete \/ CheckPresent \/ CheckScope \/ WriteBackup
           \/ ModifiedBeforeExport \/ Refuse
  BY <1>3, <1>9 DEF Answer, SendDelete, CheckPresent, CheckScope, WriteBackup,
     ModifiedBeforeExport, Refuse
<1>. QED  BY <1>4, <1>5, <1>6, <1>7, <1>8, <1>9 DEF Quiet, Command

LEMMA ReportedStep == Core /\ [Next]_vars => Reported'
<1>. SUFFICES ASSUME Core, [Next]_vars PROVE Reported'
  OBVIOUS
<1>1. CASE UNCHANGED vars
  <2>1. Existing' = Existing
    BY <1>1 DEF vars, Existing
  <2>. QED  BY <1>1, <2>1 DEF vars, Core, Reported, AppliedIsTrue
<1>2. CASE Quiet
  BY <1>2, ReportedQuiet
<1>3. ASSUME NEW o \in Objects, Export(o) PROVE Reported'
  BY <1>3 DEF Export, NoReport, Core, Phases, Reported, AppliedIsTrue
<1>4. ASSUME NEW o \in Objects, ServerRemoves(o) PROVE Reported'
  <2>1. Existing' = Existing \ {o} /\ removing # {}
    BY <1>4, TypesServerRemoves DEF ServerRemoves, Core
  <2>. QED  BY <1>4, <2>1 DEF ServerRemoves, backup, checks, Core, Reported, AppliedIsTrue
<1>5. ASSUME NEW o \in Objects, RollbackEntry(o) \/ ImportLost(o) PROVE Reported'
  BY <1>5, RestoreFrame DEF cascade, backup, checks, Core, Reported, AppliedIsTrue
<1>6. ASSUME NEW o \in Objects, TenantEdits(o) \/ TenantCreates(o) PROVE Reported'
  <2>1. UNCHANGED <<cascade, backup, checks, report>>
    BY <1>6 DEF TenantEdits, TenantCreates
  <2>2. \A p \in doomed : p \in Existing' => p \in Existing
    BY <1>6, TypesTenants DEF TenantCreates, Core, Types, CascadeTypes
  <2>. QED  BY <2>1, <2>2 DEF cascade, backup, checks, Core, Reported, AppliedIsTrue
<1>. QED  BY <1>1, <1>2, <1>3, <1>4, <1>5, <1>6, NextIs DEF Core

-----------------------------------------------------------------------------
(* Rollbacks make no twins. *)
LEMMA RestoresQuiet == Core /\ Restores /\ Quiet => Restores'
<1>. SUFFICES ASSUME Core, Restores, Quiet PROVE Restores'
  OBVIOUS
<1>1. UNCHANGED live /\ Existing' = Existing
  BY QuietFrame
<1>2. CASE Command
  <2>1. /\ UNCHANGED <<skipped, later, rollbacks>>
        /\ todo' = todo \/ todo' = {}
        /\ manifest' = manifest \/ rollbacks = 0
    BY <1>2 DEF Command, RunPreview, ModifiedBeforeExport, WriteBackup, CheckScope,
       CheckPresent, Refuse, SendDelete, Answer, ServerGivesUp, Report, RunAgain,
       FinishRollback, Kill, StartOver, backup, checks, restore, Core, Types, RestoreTypes,
       Preparing
  <2>2. rollbacks = 0 => \A g \in live : ~(g[2] > 0)
    BY OriginalIs DEF Restores, Core, Types, ServerTypes
  <2>. QED  BY <1>1, <2>1, <2>2 DEF Restores, NoTwin
<1>3. ASSUME NEW wanted \in Wanted, StartRollback(wanted)
      PROVE  Restores'
  <2>1. /\ rollbacks' = rollbacks + 1 /\ todo' = wanted /\ skipped' = wanted \cap Existing
        /\ later' = (later \ wanted) \cup skipped' /\ UNCHANGED <<live, manifest>>
    BY <1>3 DEF StartRollback, StillPresent, server, backup
  <2>2. rollbacks \in Nat /\ \A g \in live : g \in Guids /\ g[2] \in Nat
    BY OriginalIs, CascadeAssumption DEF Core, Types, RestoreTypes, ServerTypes
  <2>3. \A g \in live : g[1] \in wanted => g[2] = 0
    BY <2>2 DEF Wanted, Restores
  <2>4. \A g \in live : g[1] \in wanted => g[1] \in skipped'
    BY <2>1, <2>2, <2>3, OriginalIs DEF Existing
  <2>5. \A g \in live : g[2] <= rollbacks' /\ (g[2] > 0 => g[1] \in DOMAIN manifest')
    BY <2>1, <2>2 DEF Restores
  <2>6. \A g \in live : g[1] \in later' => g[2] = 0
    BY <2>1, <2>3 DEF Restores
  <2>. QED  BY <2>1, <2>4, <2>5, <2>6 DEF Restores, NoTwin
<1>. QED  BY <1>2, <1>3 DEF Quiet

LEMMA RestoresStep == Core /\ Restores /\ [Next]_vars => Restores'
<1>. SUFFICES ASSUME Core, Restores, [Next]_vars PROVE Restores'
  OBVIOUS
<1>1. CASE UNCHANGED vars
  BY <1>1 DEF vars, Restores, NoTwin
<1>2. CASE Quiet
  BY <1>2, RestoresQuiet
<1>3. ASSUME NEW o \in Objects, Export(o) PROVE Restores'
  <2>1. DOMAIN manifest \subseteq DOMAIN manifest'
    BY <1>3, Exporting DEF Core
  <2>. QED  BY <1>3, <2>1 DEF Export, server, restore, Restores, NoTwin
<1>4. ASSUME NEW o \in Objects, ServerRemoves(o) PROVE Restores'
  BY <1>4 DEF ServerRemoves, backup, restore, Restores, NoTwin
<1>5. ASSUME NEW o \in Objects, RollbackEntry(o) \/ ImportLost(o) PROVE Restores'
  <2>1. /\ o \in todo /\ o \in DOMAIN manifest /\ rollbacks # 0 /\ todo' \subseteq todo \ {o}
        /\ UNCHANGED <<manifest, skipped, later, rollbacks>>
        /\ UNCHANGED live \/ (Create(o) /\ o \notin skipped)
    BY <1>5, RestoreFrame DEF Core, backup
  <2>2. CASE UNCHANGED live
    BY <2>1, <2>2 DEF Restores, NoTwin
  <2>3. CASE Create(o) /\ o \notin skipped
    <3>. DEFINE new == <<o, rollbacks>>
    <3>1. live' = live \cup {new} /\ new[1] = o /\ new[2] = rollbacks
      BY <2>3 DEF Create
    <3>2. \A g \in live : g[1] # o
      BY <2>1, <2>3 DEF Restores
    <3>3. o \notin later /\ o \notin todo' /\ rollbacks \in Nat
      BY <2>1, <2>3, CascadeAssumption DEF Restores, Core, Types, RestoreTypes
    <3>. HIDE DEF new
    <3>4. NoTwin'
      BY <3>1, <3>2 DEF Restores, NoTwin
    <3>. QED  BY <2>1, <3>1, <3>3, <3>4 DEF Restores
  <2>. QED  BY <2>1, <2>2, <2>3
<1>6. ASSUME NEW o \in Objects, TenantEdits(o) \/ TenantCreates(o) PROVE Restores'
  <2>1. UNCHANGED <<backup, restore>>
    BY <1>6 DEF TenantEdits, TenantCreates
  <2>2. CASE UNCHANGED live
    BY <2>1, <2>2 DEF backup, restore, Restores, NoTwin
  <2>3. CASE TenantCreates(o)
    <3>1. live' = live \cup {Original(o)} /\ Original(o)[1] = o /\ Original(o)[2] = 0
      BY <2>3, OriginalIs DEF TenantCreates
    <3>2. (\A g \in live : g[1] # o) /\ o \notin DOMAIN manifest /\ rollbacks \in Nat
      BY <2>3, CascadeAssumption
      DEF TenantCreates, Core, Types, ServerTypes, BackupTypes, RestoreTypes
    <3>3. o \notin todo /\ o \notin later
      BY <3>2 DEF Core, Types, RestoreTypes
    <3>4. NoTwin'
      BY <3>1, <3>2 DEF Restores, NoTwin
    <3>. QED  BY <2>1, <3>1, <3>2, <3>3, <3>4 DEF backup, restore, Restores
  <2>. QED  BY <1>6, <2>2, <2>3 DEF TenantEdits
<1>. QED  BY <1>1, <1>2, <1>3, <1>4, <1>5, <1>6, NextIs DEF Core

LEMMA InvInit == Init => IInv
<1>. SUFFICES ASSUME Init PROVE IInv
  OBVIOUS
<1>1. Types
  BY TypesInit
<1>2. /\ live = {Original(o) : o \in Objects \ LateObjects}
      /\ binds = [g \in live |-> {Original(o) : o \in Reads[g[1]]}]
      /\ version = [o \in Objects |-> IF o \in LateObjects THEN -1 ELSE 0]
      /\ removed = {} /\ atCheck = {} /\ before = {} /\ removing = {} /\ pc = "idle"
      /\ report = NoReport /\ todo = {} /\ later = {} /\ rollbacks = 0
      /\ DOMAIN manifest = {}
  BY EmptyIs DEF Init
<1>3. Originals
  <2>1. \A o \in Existing : binds[Original(o)] = {Original(p) : p \in Reads[o]}
    BY <1>2, OriginalIs DEF Existing
  <2>2. \A o \in Objects : version[o] # -1 => \A p \in Reads[o] : version[p] # -1
    BY <1>2, CascadeAssumption
  <2>. QED  BY <1>2, <2>1, <2>2 DEF Originals
<1>4. Snapshots /\ Phases /\ Checked
  BY <1>2 DEF Snapshots, Phases, Checked, Preparing, Sent
<1>5. Reported
  BY <1>2 DEF Reported, AppliedIsTrue, NoReport
<1>6. Restores
  <2>1. \A g \in live : g[2] = 0 /\ g \in Guids
    BY <1>2, OriginalIs
  <2>2. NoTwin
    BY <2>1, OriginalIs DEF NoTwin
  <2>. QED  BY <1>2, <2>1, <2>2 DEF Restores
<1>. QED  BY <1>1, <1>3, <1>4, <1>5, <1>6 DEF IInv

LEMMA InvStep == IInv /\ [Next]_vars => IInv'
<1>. SUFFICES ASSUME IInv, [Next]_vars PROVE IInv'
  OBVIOUS
<1>1. Core
  BY DEF IInv, Core
<1>. QED  BY <1>1, TypesStep, OriginalsStep, SnapshotsStep, PhasesStep, CheckedStep,
             ReportedStep, RestoresStep DEF IInv

\* The backup, the scope and the objects fit together, wherever commands stop.
THEOREM InvariantHolds == Spec => []IInv
BY InvInit, InvStep, PTL DEF Spec

\* Whatever the cascade removes that existed at the re-check, through any chain of
\* references and however tenants have gone on, is in the backup as it was then.
THEOREM RemovedIsBackedUpAlways == Spec => []RemovedIsBackedUp
<1>1. IInv => RemovedIsBackedUp
  <2>. SUFFICES ASSUME IInv, NEW o \in removed \cap atCheck
                PROVE  o \in DOMAIN manifest /\ manifest[o].content = seen[o]
    BY DEF RemovedIsBackedUp
  <2>1. pc \in Sent
    BY DEF IInv, Checked, Types, PcType, ChecksTypes, Preparing
  <2>. QED  BY <2>1 DEF IInv, Checked, Phases
<1>. QED  BY <1>1, InvariantHolds, PTL

\* Exit 0 of cascade-delete is true, late objects included.
THEOREM AppliedIsTrueAlways == Spec => []AppliedIsTrue
<1>1. IInv => AppliedIsTrue
  BY DEF IInv, Reported
<1>. QED  BY <1>1, InvariantHolds, PTL

\* NOT_APPLIED and REFUSED stay true: the server does nothing afterwards.
THEOREM NotAppliedIsFinalAlways == Spec => []NotAppliedIsFinal
<1>1. IInv => NotAppliedIsFinal
  BY DEF IInv, Reported, NotAppliedIsFinal
<1>. QED  BY <1>1, InvariantHolds, PTL

\* No rollback, and no sequence of them, creates an object that is still there.
THEOREM NoTwinAlways == Spec => []NoTwin
<1>1. IInv => NoTwin
  BY DEF IInv, Restores
<1>. QED  BY <1>1, InvariantHolds, PTL

-----------------------------------------------------------------------------
(* Restored objects are bound to restored ones. *)
LEMMA DependentsFirstQuiet == IInv /\ DependentsFirst /\ Quiet => DependentsFirst'
<1>. SUFFICES ASSUME IInv, DependentsFirst, Quiet PROVE DependentsFirst'
  OBVIOUS
<1>. USE DEF Preparing, Sent
<1>1. Existing' = Existing
  BY QuietFrame
<1>2. CASE SendDelete
  <2>1. /\ before = DOMAIN manifest /\ before \subseteq Existing /\ manifest' = manifest
        /\ removing' = IF Source \in Existing THEN Closure(Source) ELSE {}
    BY <1>2 DEF SendDelete, backup, IInv, Phases
  <2>2. ASSUME NEW o \in Existing, NEW p \in Reads[o], p \in removing'
        PROVE  o \in removing'
    <3>1. Original(p) \in binds[Original(o)]
      BY DEF IInv, Originals
    <3>2. o \in DirectDependents(removing')
      BY <2>2, <3>1 DEF DirectDependents
    <3>3. DirectDependents(Closure(Source)) \subseteq Closure(Source)
      BY ClosureIs, CascadeAssumption
    <3>. QED  BY <2>1, <2>2, <3>2, <3>3
  <2>. QED  BY <1>1, <2>1, <2>2 DEF DependentsFirst
<1>3. CASE RunPreview \/ ModifiedBeforeExport \/ WriteBackup \/ CheckScope \/ CheckPresent
           \/ Refuse \/ RunAgain
  BY <1>3 DEF RunPreview, ModifiedBeforeExport, WriteBackup, CheckScope, CheckPresent,
     Refuse, RunAgain, StartOver, DependentsFirst
<1>4. CASE \/ Answer \/ ServerGivesUp \/ Report \/ FinishRollback \/ Kill
           \/ \E wanted \in Wanted : StartRollback(wanted)
  <2>1. /\ removing' = removing \/ removing' = {}
        /\ manifest' = manifest /\ (pc' = pc \/ pc \in Sent)
    BY <1>4 DEF Answer, ServerGivesUp, Report, FinishRollback, Kill, StartRollback,
       cascade, backup
  <2>. QED  BY <1>1, <2>1 DEF DependentsFirst
<1>. QED  BY <1>2, <1>3, <1>4 DEF Quiet, Command

LEMMA DependentsFirstStep == IInv /\ DependentsFirst /\ [Next]_vars => DependentsFirst'
<1>. SUFFICES ASSUME IInv, DependentsFirst, [Next]_vars PROVE DependentsFirst'
  OBVIOUS
<1>. USE DEF Preparing, Sent
<1>1. CASE UNCHANGED vars
  <2>1. Existing' = Existing
    BY <1>1 DEF vars, Existing
  <2>. QED  BY <1>1, <2>1 DEF vars, DependentsFirst
<1>2. CASE Quiet
  BY <1>2, DependentsFirstQuiet
<1>3. ASSUME NEW o \in Objects, Export(o) PROVE DependentsFirst'
  BY <1>3 DEF Export, DependentsFirst
<1>4. ASSUME NEW x \in Objects, ServerRemoves(x) PROVE DependentsFirst'
  <2>1. /\ Existing' = Existing \ {x} /\ removing' = removing \ {x} /\ x \in removing
        /\ UNCHANGED <<pc, manifest>>
    BY <1>4, TypesServerRemoves DEF ServerRemoves, backup, IInv
  <2>2. ASSUME NEW o \in Existing, x \in Reads[o] PROVE o \notin removing
    <3>1. Original(x) \in binds[Original(o)]
      BY <2>2 DEF IInv, Originals
    <3>2. o \in DirectDependents({x})
      BY <3>1 DEF DirectDependents
    <3>. QED  BY <1>4, <3>2 DEF ServerRemoves
  <2>. QED  BY <2>1, <2>2 DEF DependentsFirst
<1>5. ASSUME NEW o \in Objects, RollbackEntry(o) \/ ImportLost(o) PROVE DependentsFirst'
  <2>1. pc = "restore"
    BY <1>5, RestoreFrame DEF IInv
  <2>. QED  BY <1>5, <2>1, RestoreFrame DEF cascade, backup, IInv, DependentsFirst
<1>6. ASSUME NEW x \in Objects, TenantEdits(x) \/ TenantCreates(x) PROVE DependentsFirst'
  <2>1. UNCHANGED <<removing, manifest, pc>> /\ (TenantCreates(x) => version[x] = -1)
    BY <1>6 DEF TenantEdits, TenantCreates, cascade, backup
  <2>2. x \notin DOMAIN manifest \/ Existing' = Existing
    BY <1>6, <2>1, TypesTenants DEF IInv, Types, BackupTypes
  <2>. QED  BY <1>6, <2>1, <2>2, TypesTenants DEF IInv, DependentsFirst
<1>. QED  BY <1>1, <1>2, <1>3, <1>4, <1>5, <1>6, NextIs DEF IInv

\* What is restored next is built on nothing that is still to be restored.
LEMMA NextIsPlaceable ==
  ASSUME Layered, IInv, NEW o \in todo, NextEntry(o)
  PROVE  Reads[o] \cap todo = {}
<1>1. PICK depth \in [Objects -> Nat] :
         \A q \in Objects : \A p \in Reads[q] : depth[p] < depth[q]
  BY DEF Layered
<1>2. todo \subseteq Objects /\ todo \subseteq DOMAIN manifest
  BY DEF IInv, Types, BackupTypes, RestoreTypes
<1>3. \A q \in todo : {g[1] : g \in manifest[q].binds} = Reads[q]
  <2>. SUFFICES ASSUME NEW q \in todo PROVE {g[1] : g \in manifest[q].binds} = Reads[q]
    OBVIOUS
  <2>1. manifest[q].binds = {Original(p) : p \in Reads[q]} /\ Reads[q] \subseteq Objects
    BY <1>2, CascadeAssumption DEF IInv, Snapshots
  <2>. QED  BY <2>1, OriginalIs
<1>4. PICK q \in todo : \A p \in todo : depth[q] <= depth[p]
  <2>. DEFINE T == {depth[p] : p \in todo}
  <2>1. T \in SUBSET Nat /\ T # {}
    BY <1>2
  <2>2. \E n \in T : \A k \in T : n <= k
    <3>. HIDE DEF T
    <3>. QED  BY <2>1, LeastNatural
  <2>. QED  BY <2>2
<1>5. Reads[q] \cap todo = {}
  <2>1. ASSUME NEW p \in Reads[q], p \in todo PROVE FALSE
    <3>1. depth[p] < depth[q] /\ depth[q] <= depth[p]
      BY <1>1, <1>2, <1>4, <2>1
    <3>2. depth[p] \in Nat /\ depth[q] \in Nat
      BY <1>2, <2>1
    <3>. QED  BY <3>1, <3>2
  <2>. QED  BY <2>1
<1>6. Placeable(q)
  BY <1>3, <1>5 DEF Placeable
<1>7. Placeable(o)
  BY <1>6 DEF NextEntry
<1>8. Reads[o] \cap (todo \ {o}) = {}
  BY <1>3, <1>7 DEF Placeable
<1>9. o \notin Reads[o]
  <2>1. depth[o] \in Nat
    BY <1>2
  <2>. QED  BY <1>1, <1>2, <2>1
<1>. QED  BY <1>8, <1>9

\* What the references of a snapshot become: those of this run's copies, where there are any.
LEMMA RemappedIs ==
  ASSUME IInv, Rebound, pc = "restore", NEW o \in DOMAIN manifest,
         NEW r \in Remapped(manifest[o].binds)
  PROVE  \E p \in Reads[o] :
            \/ p \in DOMAIN newGuids /\ r = <<p, rollbacks>> /\ r \in live
            \/ p \notin DOMAIN newGuids /\ r = Original(p)
<1>1. manifest[o].binds = {Original(p) : p \in Reads[o]}
  BY DEF IInv, Snapshots
<1>2. PICK p \in Reads[o] :
         r = IF Original(p)[1] \in DOMAIN newGuids THEN newGuids[Original(p)[1]]
             ELSE Original(p)
  BY <1>1 DEF Remapped
<1>3. Original(p)[1] = p
  BY DEF Original
<1>. QED  BY <1>2, <1>3 DEF Rebound, ThisRun

\* A copy's references, when it is made
LEMMA CopyIsBound ==
  ASSUME Layered, OneRestoreLater, IInv, Rebound, NEW o \in todo, NextEntry(o), pc = "restore",
         NEW r \in Remapped(manifest[o].binds)
  PROVE  /\ r[1] # o /\ r[1] \notin todo
         /\ IF r[2] = 0 THEN \A h \in live \ unlearned : ~(h[1] = r[1] /\ h[2] > 0)
                        ELSE r \in live
<1>1. o \in DOMAIN manifest /\ rollbacks \in {1, 2}
  BY CascadeAssumption DEF OneRestoreLater, IInv, Types, RestoreTypes
<1>2. PICK p \in Reads[o] :
            \/ p \in DOMAIN newGuids /\ r = <<p, rollbacks>> /\ r \in live
            \/ p \notin DOMAIN newGuids /\ r = Original(p)
  BY <1>1, RemappedIs
<1>3. p \notin todo /\ p # o
  BY NextIsPlaceable
<1>4. CASE p \in DOMAIN newGuids
  BY <1>1, <1>2, <1>3, <1>4
<1>5. CASE p \notin DOMAIN newGuids
  <2>1. r[1] = p /\ r[2] = 0
    BY <1>2, <1>5 DEF Original
  <2>2. ASSUME NEW h \in live \ unlearned, h[1] = p, h[2] > 0 PROVE FALSE
    <3>1. h[2] <= rollbacks /\ h[2] # rollbacks /\ h[2] \in Nat
      BY <1>5, <2>2, OriginalIs DEF IInv, Types, ServerTypes, Restores, Rebound, ThisRun
    <3>2. rollbacks = 2
      BY <1>1, <2>2, <3>1
    <3>. QED  BY <2>2, <3>2 DEF Rebound, OneAtATime
  <2>. QED  BY <1>3, <2>1, <2>2
<1>. QED  BY <1>4, <1>5

LEMMA ReboundCommand == BInv /\ Command => Rebound'
<1>. SUFFICES ASSUME BInv, Command PROVE Rebound'
  OBVIOUS
<1>1. /\ UNCHANGED <<live, binds, newGuids, unlearned, later, rollbacks>>
      /\ todo' = todo \/ todo' = {}
      /\ manifest' = manifest \/ rollbacks = 0
      /\ pc' = "restore" => pc = "restore"
  BY DEF Command, RunPreview, ModifiedBeforeExport, WriteBackup, CheckScope,
     CheckPresent, Refuse, SendDelete, Answer, ServerGivesUp, Report, RunAgain,
     FinishRollback, Kill, StartOver, server, backup, checks, restore, BInv, IInv, Types,
     RestoreTypes, Preparing
<1>2. CopiesBound'
  BY <1>1 DEF BInv, Rebound, CopiesBound
<1>3. ThisRun'
  BY <1>1 DEF BInv, Rebound, ThisRun
<1>4. SkippedTogether' /\ OneAtATime'
  BY <1>1 DEF BInv, Rebound, SkippedTogether, OneAtATime
<1>. QED  BY <1>2, <1>3, <1>4 DEF Rebound

LEMMA ReboundStart ==
  ASSUME BInv, NEW wanted \in Wanted, StartRollback(wanted)
  PROVE  Rebound'
<1>1. /\ rollbacks' = rollbacks + 1 /\ todo' = wanted /\ skipped' = wanted \cap Existing
      /\ later' = (later \ wanted) \cup skipped'
      /\ UNCHANGED <<live, binds, manifest, unlearned>>
      /\ DOMAIN newGuids' = {} /\ pc = "reported"
  BY EmptyIs DEF StartRollback, StillPresent, server, backup
<1>2. rollbacks \in Nat /\ \A g \in live : g \in Guids /\ g[2] \in Nat /\ g[2] <= rollbacks
  BY OriginalIs, CascadeAssumption DEF BInv, IInv, Types, RestoreTypes, ServerTypes, Restores
<1>3. CopiesBound'
  BY <1>1 DEF BInv, Rebound, CopiesBound
<1>4. ThisRun'
  <2>1. \A g \in live : g[2] # rollbacks'
    BY <1>1, <1>2
  <2>. QED  BY <1>1, <2>1 DEF ThisRun
<1>5. SkippedTogether'
  <2>. SUFFICES ASSUME rollbacks = 0, NEW o \in later', NEW p \in Reads[o],
                       p \in DOMAIN manifest
                PROVE  p \in later'
    BY <1>1, <1>2 DEF SkippedTogether
  <2>1. wanted = DOMAIN manifest /\ later = {}
    BY DEF Wanted, BInv, IInv, Types, RestoreTypes
  <2>2. p \in Existing
    BY <1>1, <2>1 DEF BInv, DependentsFirst, Sent
  <2>. QED  BY <1>1, <2>1, <2>2
<1>6. OneAtATime'
  <2>. SUFFICES ASSUME rollbacks = 1, NEW o \in wanted
                PROVE  /\ wanted = {o}
                       /\ \A h \in live : h[1] \in Reads[o] => h[2] = 0
    BY <1>1, <1>2 DEF OneAtATime
  <2>1. wanted = {o} /\ o \in later
    BY DEF Wanted
  <2>2. \A h \in live : h[1] \in Reads[o] /\ h[2] > 0 => h[1] \in later
    BY <2>1 DEF BInv, Rebound, SkippedTogether, IInv, Restores
  <2>3. \A h \in live : h[1] \in later => h[2] = 0
    BY DEF BInv, IInv, Restores
  <2>. QED  BY <1>2, <2>1, <2>2, <2>3
<1>. QED  BY <1>3, <1>4, <1>5, <1>6 DEF Rebound

LEMMA ReboundRestore ==
  ASSUME Layered, OneRestoreLater, BInv, NEW o \in Objects, RollbackEntry(o) \/ ImportLost(o)
  PROVE  Rebound'
<1>1. /\ o \in todo /\ o \in DOMAIN manifest /\ rollbacks # 0 /\ pc = "restore"
      /\ todo' \subseteq todo \ {o}
      /\ UNCHANGED <<manifest, later, rollbacks>>
      /\ \/ UNCHANGED <<live, binds, newGuids, unlearned>>
         \/ Create(o) /\ o \notin skipped /\ unlearned \subseteq unlearned'
  BY RestoreFrame DEF BInv, IInv, backup
<1>2. SkippedTogether'
  BY <1>1 DEF BInv, Rebound, SkippedTogether
<1>3. CASE UNCHANGED <<live, binds, newGuids, unlearned>>
  <2>1. CopiesBound'
    BY <1>1, <1>3 DEF BInv, Rebound, CopiesBound
  <2>2. ThisRun'
    BY <1>1, <1>3 DEF BInv, Rebound, ThisRun
  <2>3. OneAtATime'
    BY <1>1, <1>3 DEF BInv, Rebound, OneAtATime
  <2>. QED  BY <1>2, <2>1, <2>2, <2>3 DEF Rebound
<1>4. CASE Create(o) /\ o \notin skipped /\ unlearned \subseteq unlearned'
  <2>. DEFINE new == <<o, rollbacks>>
  <2>1. /\ live' = live \cup {new} /\ new[1] = o /\ new[2] = rollbacks
        /\ binds'[new] = Remapped(manifest[o].binds)
        /\ \A h \in live : h # new => binds'[h] = binds[h]
    <3>1. UNCHANGED version
      BY RestoreFrame DEF BInv, IInv
    <3>. QED  BY <1>1, <1>4, <3>1, Creating DEF Create, BInv, IInv
  <2>2. /\ rollbacks \in Nat /\ rollbacks > 0
        /\ \A g \in live : g[1] # o /\ g # new /\ g[2] <= rollbacks /\ g[2] \in Nat
    BY <1>1, <1>4, <2>1, OriginalIs, CascadeAssumption
    DEF BInv, IInv, Types, ServerTypes, RestoreTypes, Restores
  <2>3. NextEntry(o)
    BY DEF RollbackEntry, ImportLost
  <2>4. \A r \in binds'[new] :
           /\ r[1] # o /\ r[1] \notin todo
           /\ IF r[2] = 0 THEN \A h \in live \ unlearned : ~(h[1] = r[1] /\ h[2] > 0)
                          ELSE r \in live
    BY <1>1, <2>1, <2>3, CopyIsBound DEF BInv
  <2>. HIDE DEF new
  <2>5. CopiesBound'
    <3>1. ASSUME NEW r \in binds'[new]
          PROVE  IF r[2] = 0 THEN \A h \in live' \ unlearned' : h[1] = r[1] /\ h[2] > 0 => h[2] > new[2]
                             ELSE r \in live'
      BY <1>4, <2>1, <2>4
    <3>2. ASSUME NEW g \in live, g[2] > 0, NEW r \in binds[g]
          PROVE  IF r[2] = 0 THEN \A h \in live' \ unlearned' : h[1] = r[1] /\ h[2] > 0 => h[2] > g[2]
                             ELSE r \in live'
      <4>1. r[1] = o => g[2] # rollbacks
        BY <1>1, <3>2 DEF BInv, Rebound, ThisRun
      <4>. QED  BY <1>4, <2>1, <2>2, <3>2, <4>1 DEF BInv, Rebound, CopiesBound
    <3>. QED  BY <2>1, <2>2, <3>1, <3>2 DEF CopiesBound
  <2>6. OneAtATime'
    <3>1. rollbacks = 2 => todo' = {}
      BY <1>1 DEF BInv, Rebound, OneAtATime
    <3>. QED  BY <1>1, <3>1 DEF OneAtATime
  <2>7. ThisRun'
    <3>1. CASE pc' # "restore"
      BY <3>1 DEF ThisRun
    <3>2. CASE pc' = "restore"
      <4>1. /\ \A p \in DOMAIN newGuids' :
                  newGuids'[p] = <<p, rollbacks>>
                  /\ (p # o => p \in DOMAIN newGuids)
            /\ DOMAIN newGuids \subseteq DOMAIN newGuids'
            /\ o \in DOMAIN newGuids' \/ new \in unlearned'
        <5>1. RollbackEntry(o)
          BY <3>2 DEF ImportLost
        <5>2. live' # live
          BY <2>1, <2>2
        <5>3. \A p \in DOMAIN newGuids : newGuids[p] = <<p, rollbacks>>
          BY <1>1 DEF BInv, Rebound, ThisRun
        <5>4. CASE newGuids' = [p \in DOMAIN newGuids \cup {o} |->
                                   IF p = o THEN <<o, rollbacks>> ELSE newGuids[p]]
          BY <5>3, <5>4
        <5>5. CASE newGuids' = newGuids /\ unlearned' = unlearned \cup {new}
          BY <5>3, <5>5
        <5>. QED  BY <5>1, <5>2, <5>4, <5>5 DEF RollbackEntry, new
      <4>2. \A p \in DOMAIN newGuids' :
               newGuids'[p] = <<p, rollbacks>> /\ newGuids'[p] \in live'
        BY <1>1, <2>1, <4>1 DEF BInv, Rebound, ThisRun, new
      <4>3. \A g \in live : g[2] = rollbacks =>
               /\ g[1] \in DOMAIN newGuids' \/ g \in unlearned'
               /\ \A r \in binds'[g] : r[1] \notin todo'
        BY <1>1, <1>4, <2>1, <2>2, <4>1 DEF BInv, Rebound, ThisRun
      <4>4. \A r \in binds'[new] : r[1] \notin todo'
        BY <1>1, <2>4
      <4>. QED  BY <1>1, <2>1, <4>1, <4>2, <4>3, <4>4 DEF ThisRun, new
    <3>. QED  BY <3>1, <3>2
  <2>. QED  BY <1>2, <2>5, <2>6, <2>7 DEF Rebound
<1>. QED  BY <1>1, <1>3, <1>4

LEMMA ReboundOthers ==
  ASSUME BInv, NEW o \in Objects,
         Export(o) \/ ServerRemoves(o) \/ TenantEdits(o) \/ TenantCreates(o)
  PROVE  Rebound'
<1>. DEFINE r0 == Original(o)
<1>1. r0[1] = o /\ r0[2] = 0 /\ r0 \in Guids
  BY OriginalIs
<1>2. /\ UNCHANGED <<newGuids, unlearned, later, rollbacks, todo, pc>>
      /\ manifest' = manifest \/ rollbacks = 0
  BY DEF Export, ServerRemoves, TenantEdits, TenantCreates, restore, backup, BInv, IInv,
     Types, RestoreTypes, Preparing
<1>3. /\ \/ live' = live \/ live' = live \ {r0} \/ live' = live \cup {r0}
      /\ \A g \in live' : g # r0 => binds'[g] = binds[g]
      /\ live' = live => binds' = binds
  <2>1. CASE Export(o) \/ TenantEdits(o)
    BY <2>1 DEF Export, TenantEdits, server
  <2>2. CASE ServerRemoves(o) \/ TenantCreates(o)
    <3>1. live' # live
      BY <2>2, <1>1 DEF ServerRemoves, TenantCreates, Existing, BInv, IInv, Types, ServerTypes
    <3>. QED  BY <2>2, <3>1 DEF ServerRemoves, TenantCreates
  <2>. QED  BY <2>1, <2>2
<1>. HIDE DEF r0
<1>4. CopiesBound'
  BY <1>1, <1>2, <1>3 DEF BInv, Rebound, CopiesBound
<1>5. ThisRun'
  <2>1. pc = "restore" => rollbacks \in Nat /\ rollbacks # 0
    BY CascadeAssumption DEF BInv, IInv, Types, RestoreTypes
  <2>2. \A p : pc = "restore" => <<p, rollbacks>> # r0
    BY <1>1, <2>1
  <2>. QED  BY <1>1, <1>2, <1>3, <2>1, <2>2 DEF BInv, Rebound, ThisRun
<1>6. SkippedTogether' /\ OneAtATime'
  BY <1>1, <1>2, <1>3 DEF BInv, Rebound, SkippedTogether, OneAtATime
<1>. QED  BY <1>4, <1>5, <1>6 DEF Rebound

LEMMA ReboundStep ==
  ASSUME Layered, OneRestoreLater, BInv, [Next]_vars
  PROVE  Rebound'
<1>1. CASE UNCHANGED vars
  <2>1. CopiesBound' /\ ThisRun'
    BY <1>1 DEF vars, BInv, Rebound, CopiesBound, ThisRun
  <2>2. SkippedTogether' /\ OneAtATime'
    BY <1>1 DEF vars, BInv, Rebound, SkippedTogether, OneAtATime
  <2>. QED  BY <2>1, <2>2 DEF Rebound
<1>2. CASE Quiet
  BY <1>2, ReboundCommand, ReboundStart DEF Quiet
<1>. QED  BY <1>1, <1>2, ReboundRestore, ReboundOthers, NextIs DEF BInv, IInv

\* If nothing is built on itself, and one `restore_later` command follows the rollback of
\* everything, no restored object reads the deleted original of a restored one.
THEOREM BindsToTheRestoredAlways ==
  ASSUME Layered, OneRestoreLater
  PROVE  Spec => []BindsToTheRestored
<1>1. Init => BInv
  <2>. SUFFICES ASSUME Init PROVE BInv
    OBVIOUS
  <2>1. IInv
    BY InvInit
  <2>2. /\ live = {Original(o) : o \in Objects \ LateObjects} /\ pc = "idle"
        /\ rollbacks = 0
    BY DEF Init
  <2>3. \A g \in live : g[2] = 0
    BY <2>2, OriginalIs
  <2>4. Rebound
    BY <2>2, <2>3 DEF Rebound, CopiesBound, ThisRun, SkippedTogether, OneAtATime
  <2>. QED  BY <2>1, <2>2, <2>4 DEF BInv, DependentsFirst, Sent
<1>2. BInv /\ [Next]_vars => BInv'
  BY InvStep, DependentsFirstStep, ReboundStep DEF BInv
<1>3. BInv => BindsToTheRestored
  <2>. SUFFICES ASSUME BInv, NEW g \in live, g[2] > 0, NEW r \in binds[g], r \notin live,
                       NEW h \in live \ unlearned, h[1] = r[1]
                PROVE  h[2] > g[2]
    BY DEF BindsToTheRestored
  <2>1. r[2] = 0 /\ r \in Guids
    BY DEF BInv, Rebound, CopiesBound, IInv, Types, ServerTypes
  <2>2. h \in Guids /\ h[2] # 0
    BY <2>1, OriginalIs DEF BInv, IInv, Types, ServerTypes
  <2>3. h[2] > 0
    BY <2>2, OriginalIs
  <2>. QED  BY <2>1, <2>3 DEF BInv, Rebound, CopiesBound
<1>. QED  BY <1>1, <1>2, <1>3, PTL DEF Spec
=============================================================================
