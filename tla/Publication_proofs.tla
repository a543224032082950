-------------------------- MODULE Publication_proofs --------------------------
(***************************************************************************)
(* Proofs about Publication, for any targets, fields, Orgs, names and runs:*)
(* the types, and that publishing keeps the owner's data, publishes only   *)
(* what is covered, and can be undone.                                     *)
(***************************************************************************)
EXTENDS Publication, FiniteSetTheorems, FunctionTheorems, TLAPS

(***************************************************************************)
(* The inductive invariant                                                 *)
(***************************************************************************)
ApplyPhases == {"create", "assign", "bind", "publish"}
RollbackPhases == {"unpublish", "unbind", "undone"}

\* The targets share no field.  Two closures over one Table do share its fields, and
\* then the second closure takes the first one's tokens for values (see Unwired).
Separate == \A t, u \in Targets : t # u => FieldsOf[t] \cap FieldsOf[u] = {}

\* The record of an apply that never started holds nothing to take back.
AtRest(t) ==
    /\ \A f \in FieldsOf[t] : raw[f] = Static[f]
    /\ \A o \in Orgs : <<t, o>> \notin published
    /\ \A n \in Names : maker[n] # t

\* Export sees what the fields held before any run.
ClosuresAreStatic ==
    \A t \in Targets : closure[t] # None =>
        \A f \in DOMAIN closure[t].fields : closure[t].fields[f] = Static[f]

\* It gives the owner values.
Owned(m) == \E a \in m.assign : a[2] = Owner

\* What a matrix promises of its variables: each of them is created, has one value per
\* Org, and in the Primary Org, if it is there at all, the value of the field.
MatrixIsSound(t, m) ==
    /\ \A b \in m.bind : /\ b[1] \in FieldsOf[t] /\ b[2] \in m.create
                         /\ Owned(m) => <<b[2], Owner, Static[b[1]]>> \in m.assign
    /\ \A a \in m.assign : a[1] \in m.create
    /\ \A a, d \in m.assign : a[1] = d[1] /\ a[2] = d[2] => a[3] = d[3]

MatricesAreSound ==
    \A t \in Targets : matrix[t] # None => MatrixIsSound(t, matrix[t])

\* A target that is not open is as before any run.
ClosedIsAtRest == \A t \in Targets : t \notin open => AtRest(t)

\* The record knows the way back from everything its apply may have done: a field whose
\* value it does not know is bound to a variable that it deletes, and the server does
\* not delete a variable with a field.
RecordsKnow ==
    \A t \in Targets :
        /\ record[t] # None => \A f \in DOMAIN record[t].fields :
                                  record[t].fields[f] \in {Static[f], None}
        /\ \A f \in FieldsOf[t] :
              raw[f] = Static[f] \/ (record[t] # None /\ raw[f] \in record[t].created)
        /\ \A n \in Names : maker[n] = t => record[t] # None /\ n \in record[t].created
        /\ \A o \in Orgs : <<t, o>> \in published => record[t] # None /\ o \in record[t].to

\* A field holds its own value, or a variable with that value in the Primary Org, or one
\* of the exceptions.
FieldsAreKept ==
    \A f \in Fields :
        \/ raw[f] = Static[f]
        \/ /\ raw[f] \in variables
           /\ \/ value[raw[f]][Owner] = Static[f]
              \/ \E t \in ownerless : f \in FieldsOf[t]
              \/ raw[f] \in reused

\* Where a running apply is.  What it has not created yet nobody uses; what it has
\* created holds what it has assigned; and it binds only when all are assigned.
ApplyIsAt ==
    phase \in ApplyPhases =>
        LET m == matrix[target] IN
        /\ target \in open /\ ~failed /\ m # None
        /\ target \in ownerless \/ Owned(m)
        /\ todo.create \subseteq m.create /\ todo.assign \subseteq m.assign
        /\ todo.bind \subseteq m.bind /\ todo.to = record[target].to
        /\ record[target].created = m.create
        /\ phase = "create" => todo.assign = m.assign
        /\ phase # "create" => todo.create = {}
        /\ phase \in {"bind", "publish"} => todo.assign = {}
        /\ phase = "publish" => todo.bind = {}
        /\ \A n \in m.create \ todo.create : n \in variables
        /\ \A a \in m.assign \ todo.assign : value[a[1]][a[2]] = a[3]
        /\ \A b \in m.bind \ todo.bind : raw[b[1]] \in Names
        /\ phase \in {"create", "assign"} =>
              \A f \in Fields : raw[f] \in m.create \ todo.create => raw[f] \in reused
        /\ \A o \in Orgs : <<target, o>> \notin published

\* Where a running rollback is.
RollbackIsAt ==
    phase \in RollbackPhases =>
        /\ todo.create = record[target].created /\ todo.to = record[target].to
        /\ \A b \in todo.bind : b[1] \in FieldsOf[target] /\ b[2] = Static[b[1]]
        /\ phase = "unpublish" => ~failed
        /\ phase # "unpublish" =>
              IF failed THEN target \in exposed
                        ELSE \A o \in Orgs : <<target, o>> \notin published
        /\ phase = "undone" => /\ \A f \in FieldsOf[target] : raw[f] = Static[f]
                               /\ \A n \in Names : maker[n] # target

FilesKept == ClosuresAreStatic /\ MatricesAreSound
ServerKept == ClosedIsAtRest /\ RecordsKnow /\ FieldsAreKept /\ PublishedIsCovered
CommandKept == ApplyIsAt /\ RollbackIsAt

IInv == TypeOK /\ FilesKept /\ ServerKept /\ CommandKept
-----------------------------------------------------------------------------
(* Sets of naturals *)
LEMMA LeastNatural ==
  ASSUME NEW T \in SUBSET Nat, T # {}
  PROVE  \E m \in T : \A k \in T : m <= k
<1>. DEFINE upTo == {0..m : m \in T}
<1>1. upTo \subseteq FiniteSubsetsOf(Nat) /\ upTo # {}
  <2>1. ASSUME NEW m \in T PROVE 0..m \in FiniteSubsetsOf(Nat)
    <3>1. IsFiniteSet(0..m)
      BY FS_Interval
    <3>. QED  BY <3>1 DEF FiniteSubsetsOf
  <2>. QED  BY <2>1
<1>2. PICK s \in upTo : \A r \in upTo : ~ (<<r, s>> \in StrictSubsetOrdering(Nat))
  <2>. HIDE DEF upTo
  <2>. QED  BY <1>1, FS_StrictSubsetOrderingWellFounded, WFMin
<1>3. PICK m \in T : s = 0..m
  OBVIOUS
<1>4. ASSUME NEW k \in T, k < m PROVE FALSE
  <2>1. 0..k \subseteq s /\ 0..k # s /\ 0..k \in upTo
    BY <1>3, <1>4
  <2>2. <<0..k, s>> \in StrictSubsetOrdering(Nat)
    BY <1>3, <2>1 DEF StrictSubsetOrdering
  <2>. QED  BY <1>2, <2>1, <2>2
<1>. QED  BY <1>4

\* The k smallest elements of a finite set of naturals
LEMMA FirstOfASet ==
  ASSUME NEW S \in SUBSET Nat, IsFiniteSet(S), NEW k \in Nat, k <= Cardinality(S),
         NEW b \in Nat, \A n \in S : n <= b
  PROVE  \E T \in SUBSET S : /\ IsFiniteSet(T) /\ Cardinality(T) = k
                             /\ \A n \in T, p \in S : p < n => p \in T
<1>. DEFINE below(m) == {n \in S : n < m}
            enough == {m \in 0..(b + 1) : k <= Cardinality(below(m))}
<1>1. \A m \in Nat : IsFiniteSet(below(m)) /\ Cardinality(below(m)) \in Nat
  BY FS_Subset, FS_CardinalityType
<1>2a. \A n \in S : n \in Nat
  OBVIOUS
<1>2. b + 1 \in enough
  <2>1. \A n \in S : n < b + 1
    BY <1>2a
  <2>2. below(b + 1) = S
    BY <2>1
  <2>. QED  BY <2>2
<1>3. PICK m \in enough : \A p \in enough : m <= p
  <2>. HIDE DEF enough
  <2>1. enough \in SUBSET Nat
    BY DEF enough
  <2>. QED  BY <1>2, <2>1, LeastNatural
<1>4. Cardinality(below(m)) = k
  <2>1. CASE m = 0
    <3>1. below(m) = {}
      <4>1. \A n \in S : ~(n < m)
        BY <1>2a, <2>1
      <4>. QED  BY <4>1
    <3>2. Cardinality(below(m)) = 0 /\ k <= Cardinality(below(m))
      BY <1>3, <2>1, <3>1, FS_EmptySet
    <3>. QED  BY <3>2
  <2>2. CASE m # 0
    <3>1. m - 1 \in 0..(b + 1) /\ m - 1 \notin enough
      BY <1>3, <2>2
    <3>2. Cardinality(below(m - 1)) < k
      BY <1>1, <3>1
    <3>3. Cardinality(below(m - 1) \cup {m - 1}) <= Cardinality(below(m - 1)) + 1
          /\ IsFiniteSet(below(m - 1) \cup {m - 1})
      <4>. HIDE DEF below
      <4>1. m - 1 \in Nat
        BY <3>1
      <4>2. IsFiniteSet(below(m - 1)) /\ Cardinality(below(m - 1)) \in Nat
        BY <1>1, <4>1
      <4>. QED  BY <4>2, FS_AddElement
    <3>4. below(m) \subseteq below(m - 1) \cup {m - 1}
      <4>1. \A n \in S : n < m /\ ~(n < m - 1) => n = m - 1
        BY <1>2a, <3>1
      <4>. QED  BY <4>1
    <3>5. Cardinality(below(m)) <= Cardinality(below(m - 1) \cup {m - 1})
      BY <3>3, <3>4, FS_Subset
    <3>6. k <= Cardinality(below(m)) /\ Cardinality(below(m)) \in Nat
      BY <1>1, <1>3
    <3>. HIDE DEF below
    <3>7. Cardinality(below(m - 1)) \in Nat /\ Cardinality(below(m - 1) \cup {m - 1}) \in Nat
      BY <1>1, <3>1, <3>3, FS_CardinalityType
    <3>. QED  BY <3>2, <3>3, <3>5, <3>6, <3>7
  <2>. QED  BY <2>1, <2>2
<1>5. below(m) \in SUBSET S /\ \A n \in below(m), p \in S : p < n => p \in below(m)
  OBVIOUS
<1>. QED  BY <1>1, <1>3, <1>4, <1>5
-----------------------------------------------------------------------------
(* Helpers: what suggest_variable_name returns.                            *)

LEMMA NamesType == Names \in SUBSET Nat /\ IsFiniteSet(Names) /\ MaxNames \in Nat
                   /\ \A n \in Names : n <= MaxNames
<1>1. MaxNames \in Nat
  BY PublicationAssumption
<1>2. IsFiniteSet(1..MaxNames)
  BY <1>1, FS_Interval
<1>. QED  BY <1>1, <1>2 DEF Names

\* There are only as many clusters as fields.
LEMMA UnwiredFinite ==
  ASSUME NEW c \in Closures
  PROVE  IsFiniteSet(Unwired(c))
<1>1. PICK S \in SUBSET Fields : c.fields \in [S -> Values \cup Names]
  BY DEF Closures, PartialFields
<1>2. IsFiniteSet(DOMAIN c.fields)
  BY <1>1, FS_Subset, PublicationAssumption
<1>3. IsFiniteSet(Clusters(c))
  <2>. DEFINE F == [f \in DOMAIN c.fields |-> c.fields[f]]
  <2>1. F \in Surjection(DOMAIN c.fields, Clusters(c))
    BY DEF Surjection, Clusters
  <2>. QED  BY <1>2, <2>1, FS_Surjection
<1>. QED  BY <1>3, FS_Subset DEF Unwired

\* With names enough, the clusters get distinct names that are not taken.
LEMMA SuggestedType ==
  ASSUME NEW c \in Closures, Cardinality(Names \ c.taken) >= Cardinality(Unwired(c))
  PROVE  /\ Suggested(c) \in [Unwired(c) -> Names \ c.taken]
         /\ \A x, y \in Unwired(c) : Suggested(c)[x] = Suggested(c)[y] => x = y
<1>. DEFINE free == Names \ c.taken
            First(s) ==
              /\ \A x, y \in Unwired(c) : s[x] = s[y] => x = y
              /\ \A x \in Unwired(c), n \in free :
                    n < s[x] => \E y \in Unwired(c) : s[y] = n
<1>1. free \in SUBSET Nat /\ IsFiniteSet(free) /\ \A n \in free : n <= MaxNames
  BY NamesType, FS_Subset
<1>2. IsFiniteSet(Unwired(c)) /\ Cardinality(Unwired(c)) \in Nat
      /\ Cardinality(Unwired(c)) <= Cardinality(free)
  BY <1>1, UnwiredFinite, FS_CardinalityType
<1>3. PICK T \in SUBSET free :
         /\ IsFiniteSet(T) /\ Cardinality(T) = Cardinality(Unwired(c))
         /\ \A n \in T, p \in free : p < n => p \in T
  <2>. HIDE DEF free
  <2>. QED  BY <1>1, <1>2, NamesType, FirstOfASet
<1>4. PICK s \in Bijection(Unwired(c), T) : TRUE
  BY <1>2, <1>3, FS_SameCardinalityBij DEF ExistsBijection
<1>5. s \in [Unwired(c) -> free] /\ First(s)
  <2>1. s \in [Unwired(c) -> T] /\ \A n \in T : \E y \in Unwired(c) : s[y] = n
    BY <1>4 DEF Bijection, Surjection, Injection
  <2>2. \A x, y \in Unwired(c) : s[x] = s[y] => x = y
    BY <1>4 DEF Bijection, Injection, IsInjective
  <2>3. ASSUME NEW x \in Unwired(c), NEW n \in free, n < s[x]
        PROVE  \E y \in Unwired(c) : s[y] = n
    <3>. HIDE DEF free
    <3>1. s[x] \in T
      BY <2>1
    <3>. QED  BY <1>3, <2>1, <2>3, <3>1
  <2>4. s \in [Unwired(c) -> free]
    BY <2>1
  <2>. QED  BY <2>2, <2>3, <2>4
<1>6. Suggested(c) = CHOOSE r \in [Unwired(c) -> free] : First(r)
  BY DEF Suggested
<1>7. Suggested(c) \in [Unwired(c) -> free] /\ First(Suggested(c))
  <2>. HIDE DEF First, free
  <2>. QED  BY <1>5, <1>6
<1>. QED  BY <1>7
-----------------------------------------------------------------------------
(* Helpers: what build_value_matrix writes.                                *)

LEMMA ClosureOf ==
  ASSUME TypeOK, NEW t \in Targets, closure[t] # None
  PROVE  /\ closure[t] \in Closures /\ DOMAIN closure[t].fields \subseteq FieldsOf[t]
         /\ closure[t].fields \in [DOMAIN closure[t].fields -> Values \cup Names]
<1>1. closure[t] \in Closures /\ DOMAIN closure[t].fields \subseteq FieldsOf[t]
  BY DEF TypeOK
<1>2. PICK S \in SUBSET Fields : closure[t].fields \in [S -> Values \cup Names]
  BY <1>1 DEF Closures, PartialFields
<1>. QED  BY <1>1, <1>2

LEMMA VariableOfType ==
  ASSUME NEW c \in Closures, Cardinality(Names \ c.taken) >= Cardinality(Unwired(c)),
         NEW x \in Clusters(c)
  PROVE  VariableOf(c, x) \in Names
<1>1. CASE x \in Names
  BY <1>1 DEF VariableOf
<1>2. CASE x \notin Names
  <2>1. x \in Unwired(c)
    BY <1>2 DEF Unwired
  <2>. QED  BY <1>2, <2>1, SuggestedType DEF VariableOf
<1>. QED  BY <1>1, <1>2

LEMMA ClusterType ==
  ASSUME NEW c \in Closures, NEW x \in Clusters(c)
  PROVE  x \in Values \cup Names
<1>1. PICK S \in SUBSET Fields : c.fields \in [S -> Values \cup Names]
  BY DEF Closures, PartialFields
<1>. QED  BY <1>1 DEF Clusters

LEMMA ValueForType ==
  ASSUME TypeOK, NEW c \in Closures,
         Cardinality(Names \ c.taken) >= Cardinality(Unwired(c)),
         NEW x \in Clusters(c), NEW org \in Everyone, NEW source \in Sources
  PROVE  ValueFor(c, x, org, source) \in Values \cup Names \cup {None}
<1>. DEFINE v == VariableOf(c, x)
<1>1. v \in Names /\ x \in Values \cup Names
  BY VariableOfType, ClusterType
<1>. HIDE DEF v
<1>2. CASE source = "uniform" \/ org = Owner
  BY <1>1, <1>2 DEF ValueFor
<1>3. CASE org # Owner /\ source = "given"
  <2>1. Given[org] \in Values \cup {None}
    BY <1>3, PublicationAssumption DEF Everyone
  <2>. QED  BY <1>3, <2>1 DEF ValueFor
<1>4. CASE org # Owner /\ source = "existing"
  <2>1. value[v][org] \in Values \cup Names \cup {None}
    <3>1. value[v] \in [Everyone -> Values \cup Names \cup {None}]
      BY <1>1 DEF TypeOK
    <3>. QED  BY <3>1
  <2>2. ValueFor(c, x, org, source) = IF v \in variables THEN value[v][org] ELSE None
    BY <1>4 DEF ValueFor, v
  <2>. QED  BY <2>1, <2>2
<1>. QED  BY <1>2, <1>3, <1>4, PublicationAssumption

\* The files of resolve are well formed, and speak of the closure's own fields.
LEMMA MatrixType ==
  ASSUME TypeOK, NEW t \in Targets, closure[t] # None,
         Cardinality(Names \ closure[t].taken) >= Cardinality(Unwired(closure[t])),
         NEW orgs \in SUBSET Orgs, NEW source \in Sources
  PROVE  /\ Matrix(closure[t], orgs, source) \in Matrices
         /\ \A b \in Matrix(closure[t], orgs, source).bind : b[1] \in FieldsOf[t]
<1>. DEFINE c == closure[t]
            values == [p \in Clusters(c) \X WithOwner(c, orgs) |-> ValueFor(c, p[1], p[2], source)]
            valued == {p \in DOMAIN values : values[p] # None}
            create == {VariableOf(c, x) : x \in Unwired(c)}
            bind == {<<f, VariableOf(c, c.fields[f])>> : f \in DOMAIN c.fields}
            assign == {<<VariableOf(c, p[1]), p[2], values[p]>> : p \in valued}
            complete == valued = DOMAIN values
<1>1. c \in Closures /\ DOMAIN c.fields \subseteq FieldsOf[t]
      /\ Cardinality(Names \ c.taken) >= Cardinality(Unwired(c))
  BY ClosureOf
<1>2. Matrix(c, orgs, source) = [create |-> create, bind |-> bind, assign |-> assign,
                                 complete |-> complete]
  BY DEF Matrix
<1>. HIDE DEF c
<1>3. create \subseteq Names
  BY <1>1, VariableOfType DEF Unwired
<1>4. bind \in SUBSET (Fields \X Names) /\ \A b \in bind : b[1] \in FieldsOf[t]
  <2>1. FieldsOf[t] \subseteq Fields
    BY PublicationAssumption
  <2>2. \A f \in DOMAIN c.fields : VariableOf(c, c.fields[f]) \in Names
    BY <1>1, VariableOfType DEF Clusters
  <2>. QED  BY <1>1, <2>1, <2>2
<1>5. assign \in SUBSET (Names \X Everyone \X (Values \cup Names))
  <2>1. ASSUME NEW p \in valued
        PROVE  <<VariableOf(c, p[1]), p[2], values[p]>>
                  \in Names \X Everyone \X (Values \cup Names)
    <3>1. p \in Clusters(c) \X WithOwner(c, orgs) /\ values[p] # None
      OBVIOUS
    <3>2. PICK x \in Clusters(c), o \in WithOwner(c, orgs) : p = <<x, o>>
      BY <3>1
    <3>3. values[p] = ValueFor(c, x, o, source)
      BY <3>2
    <3>4. o \in Everyone
      BY DEF WithOwner, Everyone
    <3>5. VariableOf(c, x) \in Names
      BY <1>1, VariableOfType
    <3>6. ValueFor(c, x, o, source) \in Values \cup Names \cup {None}
      BY <1>1, <3>4, ValueForType
    <3>. HIDE DEF values
    <3>. QED  BY <3>1, <3>2, <3>3, <3>4, <3>5, <3>6
  <2>. HIDE DEF valued, values
  <2>. QED  BY <2>1
<1>6. complete \in BOOLEAN
  OBVIOUS
<1>. HIDE DEF create, bind, assign, complete
<1>. QED  BY <1>2, <1>3, <1>4, <1>5, <1>6 DEF Matrices, c

\* A matrix of a closure that was exported at rest keeps its promises.
LEMMA ResolvedIsSound ==
  ASSUME TypeOK, ClosuresAreStatic, NEW t \in Targets, closure[t] # None,
         Cardinality(Names \ closure[t].taken) >= Cardinality(Unwired(closure[t])),
         NEW orgs \in SUBSET Orgs, NEW source \in Sources
  PROVE  MatrixIsSound(t, Matrix(closure[t], orgs, source))
<1>. DEFINE c == closure[t]
            values == [p \in Clusters(c) \X WithOwner(c, orgs) |-> ValueFor(c, p[1], p[2], source)]
            valued == {p \in DOMAIN values : values[p] # None}
            create == {VariableOf(c, x) : x \in Unwired(c)}
            bind == {<<f, VariableOf(c, c.fields[f])>> : f \in DOMAIN c.fields}
            assign == {<<VariableOf(c, p[1]), p[2], values[p]>> : p \in valued}
            complete == valued = DOMAIN values
<1>1. c \in Closures /\ DOMAIN c.fields \subseteq FieldsOf[t]
      /\ Cardinality(Names \ c.taken) >= Cardinality(Unwired(c))
      /\ \A f \in DOMAIN c.fields : c.fields[f] = Static[f]
  BY ClosureOf DEF ClosuresAreStatic
<1>2. /\ Matrix(c, orgs, source).create = create
      /\ Matrix(c, orgs, source).bind = bind
      /\ Matrix(c, orgs, source).assign = assign
  BY DEF Matrix
<1>3. \A x \in Clusters(c) : x \notin Names /\ x # None /\ x \in Unwired(c)
                             /\ VariableOf(c, x) = Suggested(c)[x]
  <2>1. \A f \in FieldsOf[t] : Static[f] \in Values
    BY PublicationAssumption
  <2>2. \A x \in Clusters(c) : x \in Values
    BY <1>1, <2>1 DEF Clusters
  <2>. QED  BY <2>2, PublicationAssumption DEF Unwired, VariableOf
<1>4. \A x, y \in Clusters(c) : VariableOf(c, x) = VariableOf(c, y) => x = y
  BY <1>1, <1>3, SuggestedType
<1>. HIDE DEF c
<1>5. \A p \in valued : \E x \in Clusters(c), o \in WithOwner(c, orgs) :
         p = <<x, o>> /\ values[p] = ValueFor(c, x, o, source)
  <2>1. ASSUME NEW p \in valued
        PROVE  \E x \in Clusters(c), o \in WithOwner(c, orgs) :
                  p = <<x, o>> /\ values[p] = ValueFor(c, x, o, source)
    <3>1. p \in Clusters(c) \X WithOwner(c, orgs)
      OBVIOUS
    <3>2. PICK x \in Clusters(c), o \in WithOwner(c, orgs) : p = <<x, o>>
      BY <3>1
    <3>. QED  BY <3>2
  <2>. QED  BY <2>1
<1>6. ASSUME NEW f \in DOMAIN c.fields
      PROVE  /\ VariableOf(c, c.fields[f]) \in create
             /\ c.owner => <<VariableOf(c, c.fields[f]), Owner, Static[f]>> \in assign
  <2>. DEFINE x == c.fields[f]
              p == <<x, Owner>>
  <2>1. x \in Clusters(c) /\ x = Static[f]
    BY <1>1 DEF Clusters
  <2>2. VariableOf(c, x) \in create
    BY <1>3, <2>1
  <2>3. ASSUME c.owner PROVE <<VariableOf(c, x), Owner, Static[f]>> \in assign
    <3>1. p \in DOMAIN values /\ values[p] = ValueFor(c, x, Owner, source)
      BY <2>1, <2>3 DEF WithOwner
    <3>2. ValueFor(c, x, Owner, source) = x
      BY DEF ValueFor
    <3>3. p \in valued
      BY <1>3, <2>1, <3>1, <3>2
    <3>4. p[1] = x /\ p[2] = Owner
      OBVIOUS
    <3>5. <<VariableOf(c, p[1]), p[2], values[p]>> \in assign
      <4>. HIDE DEF p, values, valued
      <4>. QED  BY <3>3
    <3>. QED  BY <2>1, <3>1, <3>2, <3>4, <3>5
  <2>. QED  BY <2>2, <2>3
<1>9. ASSUME NEW a \in assign
      PROVE  \E x \in Clusters(c), o \in WithOwner(c, orgs) :
                a = <<VariableOf(c, x), o, ValueFor(c, x, o, source)>>
  <2>1. PICK p \in valued : a = <<VariableOf(c, p[1]), p[2], values[p]>>
    OBVIOUS
  <2>2. PICK x \in Clusters(c), o \in WithOwner(c, orgs) :
           p = <<x, o>> /\ values[p] = ValueFor(c, x, o, source)
    <3>. HIDE DEF valued, values
    <3>. QED  BY <1>5, <2>1
  <2>. QED  BY <2>1, <2>2
<1>7. ASSUME Owned(Matrix(c, orgs, source)) PROVE c.owner
  <2>1. PICK a \in assign : a[2] = Owner
    BY <1>2, <1>7 DEF Owned
  <2>2. PICK x \in Clusters(c), o \in WithOwner(c, orgs) :
           a = <<VariableOf(c, x), o, ValueFor(c, x, o, source)>>
    <3>. HIDE DEF assign
    <3>. QED  BY <1>9, <2>1
  <2>3. Owner \in WithOwner(c, orgs)
    BY <2>1, <2>2
  <2>. QED  BY <2>3, PublicationAssumption DEF WithOwner
<1>8. \A b \in bind : /\ b[1] \in FieldsOf[t] /\ b[2] \in create
                      /\ Owned(Matrix(c, orgs, source)) =>
                            <<b[2], Owner, Static[b[1]]>> \in assign
  <2>. HIDE DEF create, assign
  <2>. QED  BY <1>1, <1>6, <1>7
<1>10. \A a \in assign : a[1] \in create
  <2>. HIDE DEF assign
  <2>. QED  BY <1>3, <1>9
<1>11. ASSUME NEW a \in assign, NEW d \in assign, a[1] = d[1], a[2] = d[2]
       PROVE  a[3] = d[3]
  <2>1. PICK x \in Clusters(c), o \in WithOwner(c, orgs) :
           a = <<VariableOf(c, x), o, ValueFor(c, x, o, source)>>
    BY <1>9
  <2>2. PICK y \in Clusters(c), q \in WithOwner(c, orgs) :
           d = <<VariableOf(c, y), q, ValueFor(c, y, q, source)>>
    BY <1>9
  <2>3. x = y /\ o = q
    BY <1>4, <1>11, <2>1, <2>2
  <2>. QED  BY <2>1, <2>2, <2>3
<1>. HIDE DEF create, bind, assign
<1>. QED  BY <1>2, <1>8, <1>10, <1>11 DEF MatrixIsSound, c
-----------------------------------------------------------------------------
(* Type correctness                                                        *)

LEMMA TypeInit == Init => TypeOK
<1>. SUFFICES ASSUME Init PROVE TypeOK
  OBVIOUS
<1>1. raw \in [Fields -> Values \cup Names]
  BY PublicationAssumption DEF Init
<1>2. todo \in [create : SUBSET Names, to : SUBSET Orgs,
                assign : SUBSET (Names \X Everyone \X (Values \cup Names)),
                bind : SUBSET (Fields \X (Values \cup Names))]
  BY DEF Init, NoCalls
<1>. QED  BY <1>1, <1>2, PublicationAssumption DEF Init, TypeOK, NoCalls

\* What the end of a command leaves of it.
LEMMA StopType ==
  ASSUME Stop
  PROVE  /\ phase' = "idle" /\ target' = None /\ todo' = NoCalls /\ ~failed'
         /\ todo' \in [create : SUBSET Names, to : SUBSET Orgs,
                       assign : SUBSET (Names \X Everyone \X (Values \cup Names)),
                       bind : SUBSET (Fields \X (Values \cup Names))]
BY DEF Stop, NoCalls

LEMMA TypeExport ==
  ASSUME TypeOK, NEW t \in Targets, NEW S \in SUBSET FieldsOf[t], NEW owner \in BOOLEAN,
         Export(t, S, owner)
  PROVE  TypeOK'
<1>. DEFINE new == [fields |-> [f \in S |-> raw[f]], taken |-> variables, owner |-> owner]
<1>1. new \in Closures /\ DOMAIN new.fields \subseteq FieldsOf[t]
  <2>1. S \in SUBSET Fields
    BY PublicationAssumption
  <2>2. [f \in S |-> raw[f]] \in [S -> Values \cup Names]
    BY <2>1 DEF TypeOK
  <2>3. [f \in S |-> raw[f]] \in PartialFields(Values \cup Names)
    BY <2>1, <2>2 DEF PartialFields
  <2>. QED  BY <2>3 DEF Closures, TypeOK
<1>. HIDE DEF new
<1>2. closure' = [closure EXCEPT ![t] = new]
  BY DEF Export, new
<1>3. closure' \in [Targets -> Closures \cup {None}]
  BY <1>1, <1>2 DEF TypeOK
<1>4. \A x \in Targets :
         /\ closure'[x] # None => DOMAIN closure'[x].fields \subseteq FieldsOf[x]
         /\ closure[x] # None => closure'[x] # None
  BY <1>1, <1>2, PublicationAssumption DEF TypeOK
<1>. QED  BY <1>3, <1>4 DEF TypeOK, Export, server, command, ghosts, counters

LEMMA TypeResolve ==
  ASSUME TypeOK, NEW t \in Targets, NEW orgs \in SUBSET Orgs, NEW source \in Sources,
         Resolve(t, orgs, source)
  PROVE  TypeOK'
<1>. DEFINE new == Matrix(closure[t], orgs, source)
<1>1. closure[t] # None
      /\ Cardinality(Names \ closure[t].taken) >= Cardinality(Unwired(closure[t]))
  BY DEF Resolve
<1>2. new \in Matrices /\ \A b \in new.bind : b[1] \in FieldsOf[t]
  BY <1>1, MatrixType
<1>3. matrix' = [matrix EXCEPT ![t] = new]
  BY DEF Resolve
<1>. HIDE DEF new
<1>4. matrix' \in [Targets -> Matrices \cup {None}]
  BY <1>2, <1>3 DEF TypeOK
<1>5. \A x \in Targets : matrix'[x] # None =>
         closure[x] # None /\ \A b \in matrix'[x].bind : b[1] \in FieldsOf[x]
  BY <1>1, <1>2, <1>3 DEF TypeOK
<1>. QED  BY <1>4, <1>5 DEF TypeOK, Resolve, server, command, ghosts, counters

\* What an apply starts from.
LEMMA MatrixOf ==
  ASSUME TypeOK, NEW t \in Targets, matrix[t] # None
  PROVE  /\ closure[t] \in Closures
         /\ closure[t].fields \in [DOMAIN closure[t].fields -> Values \cup Names]
         /\ matrix[t] \in Matrices /\ \A b \in matrix[t].bind : b[1] \in FieldsOf[t]
<1>1. closure[t] # None /\ matrix[t] \in Matrices
      /\ \A b \in matrix[t].bind : b[1] \in FieldsOf[t]
  BY DEF TypeOK
<1>. QED  BY <1>1, ClosureOf

LEMMA OriginalsType ==
  ASSUME NEW c \in Closures, NEW m \in Matrices, NEW t \in Targets,
         c.fields \in [DOMAIN c.fields -> Values \cup Names],
         \A b \in m.bind : b[1] \in FieldsOf[t]
  PROVE  /\ Originals(c, m) \in PartialFields(Values \cup {None})
         /\ DOMAIN Originals(c, m) \subseteq FieldsOf[t]
<1>. DEFINE S == {b[1] : b \in ToBind(c, m)}
<1>1. S \in SUBSET Fields /\ S \subseteq FieldsOf[t]
      /\ \A f \in S : Original(c, f) \in Values \cup {None}
  BY PublicationAssumption DEF ToBind, Original
<1>2. Originals(c, m) \in [S -> Values \cup {None}] /\ DOMAIN Originals(c, m) = S
  <2>. HIDE DEF S
  <2>1. Originals(c, m) = [f \in S |-> Original(c, f)]
    BY DEF Originals, S
  <2>. QED  BY <1>1, <2>1
<1>. HIDE DEF S
<1>. QED  BY <1>1, <1>2 DEF PartialFields

LEMMA RecordOfType ==
  ASSUME NEW c \in Closures, NEW m \in Matrices, NEW t \in Targets,
         c.fields \in [DOMAIN c.fields -> Values \cup Names],
         \A b \in m.bind : b[1] \in FieldsOf[t], NEW to \in SUBSET Orgs
  PROVE  /\ RecordOf(c, m, to) \in Records
         /\ DOMAIN RecordOf(c, m, to).fields \subseteq FieldsOf[t]
BY OriginalsType DEF RecordOf, Records, Matrices

LEMMA TypeStartApply ==
  ASSUME TypeOK, NEW t \in Targets, NEW to \in SUBSET Orgs, StartApply(t, to)
  PROVE  TypeOK'
<1>. DEFINE c == closure[t]
            m == matrix[t]
<1>1. /\ c \in Closures /\ c.fields \in [DOMAIN c.fields -> Values \cup Names]
      /\ m \in Matrices /\ \A b \in m.bind : b[1] \in FieldsOf[t]
  BY MatrixOf DEF StartApply
<1>2. /\ record' = [record EXCEPT ![t] = RecordOf(c, m, to)]
      /\ todo' = [create |-> m.create, assign |-> m.assign, to |-> to, bind |-> ToBind(c, m)]
      /\ phase' = "create" /\ target' = t /\ open' = open \cup {t}
      /\ exposed' = exposed \ {t} /\ applies' = applies + 1 /\ applies < MaxApplies
      /\ ownerless' \subseteq ownerless \cup {t}
      /\ UNCHANGED <<server, closure, matrix, failed, maker, reused, rollbacks>>
  BY DEF StartApply
<1>. HIDE DEF c, m
<1>3. RecordOf(c, m, to) \in Records /\ RecordOf(c, m, to) # None
      /\ DOMAIN RecordOf(c, m, to).fields \subseteq FieldsOf[t]
  BY <1>1, RecordOfType, PublicationAssumption
<1>4. /\ record' \in [Targets -> Records \cup {None}] /\ record'[t] # None
      /\ \A x \in Targets : record'[x] # None => DOMAIN record'[x].fields \subseteq FieldsOf[x]
  BY <1>2, <1>3 DEF TypeOK
<1>5. todo' \in [create : SUBSET Names, to : SUBSET Orgs,
                 assign : SUBSET (Names \X Everyone \X (Values \cup Names)),
                 bind : SUBSET (Fields \X (Values \cup Names))]
  <2>1. ToBind(c, m) \in SUBSET (Fields \X (Values \cup Names))
    BY <1>1 DEF ToBind, Matrices
  <2>. QED  BY <1>1, <1>2, <2>1 DEF Matrices
<1>6. applies' \in 0..MaxApplies
  BY <1>2, PublicationAssumption DEF TypeOK
<1>. QED  BY <1>2, <1>4, <1>5, <1>6 DEF TypeOK, server

LEMMA TypeStartRollback ==
  ASSUME TypeOK, NEW t \in Targets, StartRollback(t)
  PROVE  TypeOK'
<1>. DEFINE r == record[t]
<1>1. r \in Records /\ DOMAIN r.fields \subseteq FieldsOf[t] /\ r # None
  BY DEF TypeOK, StartRollback
<1>2. PICK S \in SUBSET Fields : r.fields \in [S -> Values \cup {None}]
  BY <1>1 DEF Records, PartialFields
<1>3. /\ todo' = [create |-> r.created, assign |-> {}, to |-> r.to,
                  bind |-> {<<f, r.fields[f]>> : f \in Known(r)}]
      /\ phase' = "unpublish" /\ target' = t
      /\ rollbacks < MaxRollbacks /\ rollbacks' = rollbacks + 1
      /\ UNCHANGED <<server, files, failed, ghosts, applies>>
  BY DEF StartRollback
<1>4. todo' \in [create : SUBSET Names, to : SUBSET Orgs,
                 assign : SUBSET (Names \X Everyone \X (Values \cup Names)),
                 bind : SUBSET (Fields \X (Values \cup Names))]
  <2>1. {<<f, r.fields[f]>> : f \in Known(r)} \in SUBSET (Fields \X (Values \cup Names))
    BY <1>2 DEF Known
  <2>. QED  BY <1>1, <1>3, <2>1 DEF Records
<1>5. rollbacks' \in 0..MaxRollbacks
  BY <1>3, PublicationAssumption DEF TypeOK
<1>. QED  BY <1>1, <1>3, <1>4, <1>5 DEF TypeOK, server, files, ghosts

\* The parts of TypeOK that a call can change: the server, and the calls still to make.
ServerType ==
    /\ variables \subseteq Names
    /\ value \in [Names -> [Everyone -> Values \cup Names \cup {None}]]
    /\ raw \in [Fields -> Values \cup Names]
    /\ published \subseteq Targets \X Orgs
    /\ maker \in [Names -> Targets \cup {None}]
    /\ reused \subseteq Names
Calls == [create : SUBSET Names, to : SUBSET Orgs,
          assign : SUBSET (Names \X Everyone \X (Values \cup Names)),
          bind : SUBSET (Fields \X (Values \cup Names))]

LEMMA CreatedType ==
  ASSUME TypeOK, phase # "idle", NEW n \in Names, Created(n) \/ Reused(n)
  PROVE  ServerType'
BY DEF TypeOK, ServerType, Created, Reused, server

LEMMA AssignedType ==
  ASSUME TypeOK, NEW a \in Names \X Everyone \X (Values \cup Names), Assigned(a)
  PROVE  ServerType'
<1>1. a[1] \in Names /\ a[2] \in Everyone /\ a[3] \in Values \cup Names
  OBVIOUS
<1>2. value' = [value EXCEPT ![a[1]] = [value[a[1]] EXCEPT ![a[2]] = a[3]]]
  BY DEF Assigned
<1>3. [value[a[1]] EXCEPT ![a[2]] = a[3]] \in [Everyone -> Values \cup Names \cup {None}]
  BY <1>1 DEF TypeOK
<1>4. value' \in [Names -> [Everyone -> Values \cup Names \cup {None}]]
  BY <1>1, <1>2, <1>3 DEF TypeOK
<1>. QED  BY <1>4 DEF TypeOK, ServerType, Assigned

LEMMA FieldType ==
  ASSUME TypeOK, NEW b \in Fields \X (Values \cup Names), Bound(b) \/ Unbound(b)
  PROVE  ServerType'
BY DEF TypeOK, ServerType, Bound, Unbound

LEMMA UnchangedType ==
  ASSUME TypeOK, UNCHANGED <<server, maker, reused>>
  PROVE  ServerType'
BY DEF TypeOK, ServerType, server

\* A call that leaves the server typed keeps the type, whether the command goes on
\* with fewer calls or ends.
LEMMA TypeCall ==
  ASSUME TypeOK, ServerType', UNCHANGED <<files, open, ownerless, counters>>,
         exposed' \subseteq Targets,
         \/ Stop
         \/ /\ phase # "idle" /\ target' = target /\ todo' \in Calls
            /\ phase' \in {"create", "assign", "bind", "publish", "unpublish", "unbind",
                           "undone"}
  PROVE  TypeOK'
<1>1. CASE Stop
  BY <1>1, StopType DEF TypeOK, ServerType, files, counters
<1>2. CASE /\ phase # "idle" /\ target' = target /\ todo' \in Calls
           /\ phase' \in {"create", "assign", "bind", "publish", "unpublish", "unbind",
                          "undone"}
  BY <1>2 DEF TypeOK, ServerType, Calls, files, counters
<1>. QED  BY <1>1, <1>2

LEMMA TypeCreateVariable ==
  ASSUME TypeOK, NEW n \in todo.create, CreateVariable(n)
  PROVE  TypeOK'
<1>1. n \in Names /\ phase = "create" /\ exposed' \subseteq Targets
      /\ UNCHANGED <<files, open, ownerless, counters>>
  BY DEF TypeOK, CreateVariable
<1>2. ServerType'
  BY <1>1, CreatedType, UnchangedType DEF CreateVariable, Continues, Ends
<1>3. Stop \/ (phase' = phase /\ target' = target
                 /\ todo' = [todo EXCEPT !.create = @ \ {n}])
  BY DEF CreateVariable, Continues, Ends
<1>4. [todo EXCEPT !.create = @ \ {n}] \in Calls
  BY DEF TypeOK, Calls
<1>. QED  BY <1>1, <1>2, <1>3, <1>4, TypeCall

LEMMA TypeAssignValue ==
  ASSUME TypeOK, NEW a \in todo.assign, AssignValue(a)
  PROVE  TypeOK'
<1>1. /\ a \in Names \X Everyone \X (Values \cup Names)
      /\ phase = "assign" /\ exposed' \subseteq Targets
      /\ UNCHANGED <<files, open, ownerless, counters>>
  BY DEF TypeOK, AssignValue
<1>2. ServerType'
  BY <1>1, AssignedType, UnchangedType DEF AssignValue, Continues, Ends
<1>3. Stop \/ (phase' = phase /\ target' = target
                 /\ todo' = [todo EXCEPT !.assign = @ \ {a}])
  BY DEF AssignValue, Continues, Ends
<1>4. [todo EXCEPT !.assign = @ \ {a}] \in Calls
  BY DEF TypeOK, Calls
<1>. QED  BY <1>1, <1>2, <1>3, <1>4, TypeCall

LEMMA TypeBinding ==
  ASSUME TypeOK, NEW b \in todo.bind, Parameterize(b) \/ Unparameterize(b)
  PROVE  TypeOK'
<1>1. /\ b \in Fields \X (Values \cup Names)
      /\ phase \in {"bind", "unbind"} /\ exposed' \subseteq Targets
      /\ UNCHANGED <<files, open, ownerless, counters>>
  BY DEF TypeOK, Parameterize, Unparameterize
<1>2. ServerType'
  BY <1>1, FieldType, UnchangedType DEF Parameterize, Unparameterize, Continues, Ends
<1>3. Stop \/ (phase' = phase /\ target' = target
                 /\ todo' = [todo EXCEPT !.bind = @ \ {b}])
  BY DEF Parameterize, Unparameterize, Continues, Ends
<1>4. [todo EXCEPT !.bind = @ \ {b}] \in Calls
  BY DEF TypeOK, Calls
<1>. QED  BY <1>1, <1>2, <1>3, <1>4, TypeCall

LEMMA TypePublishAll == ASSUME TypeOK, PublishAll PROVE TypeOK'
<1>1. Stop /\ exposed' \subseteq Targets /\ UNCHANGED <<files, open, ownerless, counters>>
  BY DEF PublishAll, Ends, TypeOK
<1>2. Granted \/ UNCHANGED <<server, maker, reused>>
  BY DEF PublishAll, Ends
<1>3. ServerType'
  <2>1. CASE Granted
    <3>1. target \in Targets /\ todo.to \subseteq Orgs
      BY DEF PublishAll, TypeOK
    <3>. QED  BY <2>1, <3>1 DEF Granted, ServerType, TypeOK
  <2>. QED  BY <1>2, <2>1, UnchangedType
<1>. QED  BY <1>1, <1>3, TypeCall

LEMMA TypeUnpublish == ASSUME TypeOK, Unpublish PROVE TypeOK'
<1>1. target \in Targets /\ todo \in Calls /\ phase = "unpublish"
  BY DEF TypeOK, Unpublish, Calls
<1>2. Retracted \/ UNCHANGED <<server, maker, reused>>
  BY DEF Unpublish, Ends
<1>3. ServerType'
  <2>1. CASE Retracted
    BY <2>1 DEF Retracted, ServerType, TypeOK
  <2>. QED  BY <1>2, <2>1, UnchangedType
<1>4. exposed' \subseteq Targets /\ UNCHANGED <<files, open, ownerless, counters>>
  BY <1>1 DEF Unpublish, TypeOK
<1>5. Stop \/ (phase' = "unbind" /\ target' = target /\ todo' = todo)
  BY DEF Unpublish, Ends
<1>. QED  BY <1>1, <1>3, <1>4, <1>5, TypeCall

LEMMA TypeDeleteVariables == ASSUME TypeOK, DeleteVariables PROVE TypeOK'
<1>1. todo \in Calls /\ phase = "unbind" /\ exposed' \subseteq Targets
      /\ UNCHANGED <<files, open, ownerless, counters>>
  BY DEF TypeOK, DeleteVariables, Calls
<1>2. Deleted \/ UNCHANGED <<server, maker, reused>>
  BY DEF DeleteVariables, Ends
<1>3. ServerType'
  <2>1. CASE Deleted
    BY <2>1 DEF Deleted, ServerType, TypeOK
  <2>. QED  BY <1>2, <2>1, UnchangedType
<1>4. Stop \/ (phase' = "undone" /\ target' = target /\ todo' = todo)
  BY DEF DeleteVariables, Ends
<1>. QED  BY <1>1, <1>3, <1>4, TypeCall

LEMMA TypeFinishRollback == ASSUME TypeOK, FinishRollback PROVE TypeOK'
BY StopType DEF TypeOK, FinishRollback, server, files, counters

LEMMA TypePhaseOver == ASSUME TypeOK, PhaseOver PROVE TypeOK'
<1>1. ServerType'
  BY UnchangedType DEF PhaseOver, ghosts
<1>2. /\ phase # "idle" /\ target' = target /\ todo' \in Calls
      /\ phase' \in {"create", "assign", "bind", "publish", "unpublish", "unbind", "undone"}
  BY DEF PhaseOver, NextPhase, TypeOK, Calls
<1>3. exposed' \subseteq Targets /\ UNCHANGED <<files, open, ownerless, counters>>
  BY DEF PhaseOver, ghosts, TypeOK
<1>. QED  BY <1>1, <1>2, <1>3, TypeCall

LEMMA TypeOthersCreate ==
  ASSUME TypeOK, NEW n \in OthersNames, OthersCreate(n)
  PROVE  TypeOK'
<1>1. n \in Names
  BY PublicationAssumption
<1>. QED  BY <1>1 DEF TypeOK, OthersCreate, files, command, ghosts, counters

LEMMA TypeStep == ASSUME TypeOK, [Next]_vars PROVE TypeOK'
<1>1. CASE UNCHANGED vars
  BY <1>1 DEF TypeOK, vars
<1>2. ASSUME NEW t \in Targets, NEW S \in SUBSET FieldsOf[t], NEW owner \in BOOLEAN,
             Export(t, S, owner)
      PROVE  TypeOK'
  BY <1>2, TypeExport
<1>3. ASSUME NEW t \in Targets, NEW orgs \in SUBSET Orgs \ {{}}, NEW source \in Sources,
             Resolve(t, orgs, source)
      PROVE  TypeOK'
  BY <1>3, TypeResolve
<1>4. ASSUME NEW t \in Targets, NEW to \in SUBSET Orgs, StartApply(t, to) PROVE TypeOK'
  BY <1>4, TypeStartApply
<1>5. ASSUME NEW t \in Targets, StartRollback(t) PROVE TypeOK'
  BY <1>5, TypeStartRollback
<1>6. ASSUME NEW n \in todo.create, CreateVariable(n) PROVE TypeOK'
  BY <1>6, TypeCreateVariable
<1>7. ASSUME NEW a \in todo.assign, AssignValue(a) PROVE TypeOK'
  BY <1>7, TypeAssignValue
<1>8. ASSUME NEW b \in todo.bind, Parameterize(b) \/ Unparameterize(b) PROVE TypeOK'
  BY <1>8, TypeBinding
<1>9. ASSUME NEW n \in OthersNames, OthersCreate(n) PROVE TypeOK'
  BY <1>9, TypeOthersCreate
<1>. QED  BY <1>1, <1>2, <1>3, <1>4, <1>5, <1>6, <1>7, <1>8, <1>9, TypePhaseOver,
             TypePublishAll, TypeUnpublish, TypeDeleteVariables, TypeFinishRollback DEF Next

\* The files, the server and the command always have their types; for resolve, which
\* must find a free name for every value, this needs that the names suffice, and that
\* the first free names are there to be found.
THEOREM TypeCorrect == Spec => []TypeOK
BY TypeInit, TypeStep, PTL DEF Spec
-----------------------------------------------------------------------------
(* What a single call does to the server.                                  *)

\* The operator rolls an apply back before planning its target again, and no two
\* targets share a field: without either, a closure is exported with tokens in it, and
\* the owner's values are lost.
LEMMA CreatedKept ==
  ASSUME IInv, phase = "create", NEW n \in todo.create, Created(n),
         UNCHANGED <<files, open, exposed, ownerless>>
  PROVE  ServerKept'
<1>1. TypeOK /\ ServerKept /\ ApplyIsAt /\ target \in Targets /\ n \in Names
  BY DEF IInv, CommandKept, TypeOK
<1>2. target \in open /\ n \in record[target].created /\ record[target] # None
  BY <1>1 DEF ApplyIsAt, ApplyPhases, TypeOK
<1>3. variables \subseteq variables' /\ value' = value /\ raw' = raw /\ reused' = reused
  BY DEF Created
<1>4. ClosedIsAtRest'
  BY <1>1, <1>2 DEF ServerKept, ClosedIsAtRest, AtRest, Created, TypeOK
<1>5. RecordsKnow'
  BY <1>1, <1>2 DEF ServerKept, RecordsKnow, Created, TypeOK, files
<1>6. FieldsAreKept'
  BY <1>1, <1>3 DEF ServerKept, FieldsAreKept
<1>7. PublishedIsCovered'
  BY <1>1, <1>3 DEF ServerKept, PublishedIsCovered, Covered, Effective, Created, files
<1>. QED  BY <1>4, <1>5, <1>6, <1>7 DEF ServerKept

\* Passing a name over changes nothing but what is known of its fields.
LEMMA ReusedKept ==
  ASSUME IInv, NEW n, Reused(n), UNCHANGED <<files, open, exposed, ownerless>>
  PROVE  ServerKept'
<1>1. ServerKept /\ reused \subseteq reused' /\ UNCHANGED <<server, maker>>
  BY DEF IInv, Reused
<1>2. ClosedIsAtRest' /\ RecordsKnow'
  BY <1>1 DEF ServerKept, ClosedIsAtRest, AtRest, RecordsKnow, server, files
<1>3. FieldsAreKept'
  BY <1>1 DEF ServerKept, FieldsAreKept, server
<1>4. PublishedIsCovered'
  BY <1>1 DEF ServerKept, PublishedIsCovered, Covered, Effective, server, files
<1>. QED  BY <1>2, <1>3, <1>4 DEF ServerKept

\* No field is bound to a variable that an apply still assigns to, but for those that
\* used it when the apply passed it over.
LEMMA AssignedKept ==
  ASSUME IInv, phase = "assign", NEW a \in todo.assign, Assigned(a),
         UNCHANGED <<files, open, exposed, ownerless>>
  PROVE  ServerKept'
<1>1. TypeOK /\ ServerKept /\ ApplyIsAt /\ MatricesAreSound /\ target \in Targets
      /\ a \in Names \X Everyone \X (Values \cup Names)
  BY DEF IInv, CommandKept, FilesKept, TypeOK
<1>2. \A f \in Fields : raw[f] = a[1] => raw[f] \in reused
  <2>1. matrix[target] # None /\ a \in matrix[target].assign /\ todo.create = {}
        /\ \A f \in Fields :
              raw[f] \in matrix[target].create \ todo.create => raw[f] \in reused
    BY <1>1 DEF ApplyIsAt, ApplyPhases
  <2>2. a[1] \in matrix[target].create
    BY <1>1, <2>1 DEF MatricesAreSound, MatrixIsSound
  <2>. QED  BY <2>1, <2>2
<1>3. \A k \in Names : k # a[1] => value'[k] = value[k]
  BY <1>1 DEF Assigned, TypeOK
<1>4. ClosedIsAtRest'
  BY <1>1 DEF ServerKept, ClosedIsAtRest, AtRest, Assigned
<1>5. RecordsKnow'
  BY <1>1 DEF ServerKept, RecordsKnow, Assigned, files
<1>6. FieldsAreKept'
  BY <1>1, <1>2, <1>3 DEF ServerKept, FieldsAreKept, Assigned, TypeOK
<1>7. \A k \in Names, o \in Everyone : value[k][o] # None => value'[k][o] # None
  <2>1. a[1] \in Names /\ a[2] \in Everyone /\ a[3] # None
    BY <1>1, PublicationAssumption
  <2>2. value' = [value EXCEPT ![a[1]] = [value[a[1]] EXCEPT ![a[2]] = a[3]]]
    BY DEF Assigned
  <2>3. value[a[1]] \in [Everyone -> Values \cup Names \cup {None}]
    BY <1>1, <2>1 DEF TypeOK
  <2>. QED  BY <1>1, <1>3, <2>1, <2>2, <2>3 DEF TypeOK
<1>8. PublishedIsCovered'
  <2>1. \A p \in published : p[2] \in Everyone
    BY <1>1 DEF TypeOK, Everyone
  <2>2. \A f, o : Effective(f, o) # None /\ raw[f] \in Names /\ o \in Everyone =>
                  Effective(f, o)' # None
    BY <1>7 DEF Effective, Assigned
  <2>. QED  BY <1>1, <2>1, <2>2 DEF ServerKept, PublishedIsCovered, Covered, Assigned, files
<1>. QED  BY <1>4, <1>5, <1>6, <1>8 DEF ServerKept

\* A field is bound to a variable that holds its value in the Primary Org.
LEMMA BoundKept ==
  ASSUME Separate, IInv, phase = "bind", NEW b \in todo.bind, Bound(b),
         UNCHANGED <<files, open, exposed, ownerless>>
  PROVE  ServerKept'
<1>. DEFINE m == matrix[target]
<1>1. TypeOK /\ ServerKept /\ ApplyIsAt /\ MatricesAreSound /\ target \in Targets
      /\ b \in Fields \X (Values \cup Names)
  BY DEF IInv, CommandKept, FilesKept, TypeOK
<1>2. /\ m # None /\ b \in m.bind /\ todo.assign = {} /\ target \in open
      /\ target \in ownerless \/ Owned(m)
      /\ record[target].created = m.create /\ record[target] # None
      /\ \A d \in m.assign \ todo.assign : value[d[1]][d[2]] = d[3]
      /\ \A o \in Orgs : <<target, o>> \notin published
  BY <1>1 DEF ApplyIsAt, ApplyPhases, TypeOK
<1>3. /\ b[1] \in FieldsOf[target] /\ b[2] \in m.create
      /\ Owned(m) => <<b[2], Owner, Static[b[1]]>> \in m.assign
  BY <1>1, <1>2 DEF MatricesAreSound, MatrixIsSound
<1>4. b[2] \in variables /\ (target \in ownerless \/ value[b[2]][Owner] = Static[b[1]])
  <2>. SUFFICES ASSUME Owned(m) PROVE value[b[2]][Owner] = Static[b[1]]
    BY <1>2 DEF Bound
  <2>. DEFINE d == <<b[2], Owner, Static[b[1]]>>
  <2>1. d[1] = b[2] /\ d[2] = Owner /\ d[3] = Static[b[1]]
    OBVIOUS
  <2>2. d \in m.assign \ todo.assign
    BY <1>2, <1>3
  <2>. HIDE DEF d, m
  <2>3. value[d[1]][d[2]] = d[3]
    BY <1>2, <2>2
  <2>. QED  BY <2>1, <2>3
<1>5. \A f \in Fields : raw'[f] = IF f = b[1] THEN b[2] ELSE raw[f]
  BY <1>1 DEF Bound, TypeOK
<1>6. \A t \in Targets : /\ FieldsOf[t] \subseteq Fields
                         /\ t # target => b[1] \notin FieldsOf[t]
  BY <1>1, <1>3, PublicationAssumption DEF Separate
<1>. HIDE DEF m
<1>7. ClosedIsAtRest'
  BY <1>1, <1>2, <1>5, <1>6 DEF ServerKept, ClosedIsAtRest, AtRest, Bound
<1>8. RecordsKnow'
  <2>1. \A f \in FieldsOf[target] :
           raw'[f] = Static[f] \/ (record[target] # None /\ raw'[f] \in record[target].created)
    BY <1>1, <1>2, <1>3, <1>5, <1>6 DEF ServerKept, RecordsKnow
  <2>2. \A t \in Targets : t # target => \A f \in FieldsOf[t] : raw'[f] = raw[f]
    BY <1>5, <1>6
  <2>. QED  BY <1>1, <2>1, <2>2 DEF ServerKept, RecordsKnow, Bound, files
<1>9. FieldsAreKept'
  <2>. SUFFICES ASSUME NEW f \in Fields
                PROVE  \/ raw'[f] = Static[f]
                       \/ /\ raw'[f] \in variables
                          /\ \/ value[raw'[f]][Owner] = Static[f]
                             \/ \E t \in ownerless : f \in FieldsOf[t]
                             \/ raw'[f] \in reused
    BY DEF FieldsAreKept, Bound
  <2>1. CASE f = b[1]
    BY <1>3, <1>4, <1>5, <2>1
  <2>2. CASE f # b[1]
    BY <1>1, <1>5, <2>2 DEF ServerKept, FieldsAreKept
  <2>. QED  BY <2>1, <2>2
<1>10. PublishedIsCovered'
  <2>. SUFFICES ASSUME NEW p \in published, p[1] \notin exposed
                PROVE  Covered(p[1], p[2])'
    BY <1>1 DEF PublishedIsCovered, Bound
  <2>1. p[1] \in Targets /\ p[2] \in Orgs /\ p = <<p[1], p[2]>>
    BY <1>1 DEF TypeOK
  <2>2. p[1] # target
    BY <1>2, <2>1
  <2>3. Covered(p[1], p[2])
    BY <1>1 DEF ServerKept, PublishedIsCovered
  <2>4. \A d \in matrix[p[1]].bind : raw'[d[1]] = raw[d[1]]
    BY <1>1, <1>5, <1>6, <2>1, <2>2, <2>3 DEF TypeOK, Covered
  <2>. QED  BY <2>3, <2>4 DEF Covered, Effective, Bound, files
<1>. QED  BY <1>7, <1>8, <1>9, <1>10 DEF ServerKept

LEMMA GrantedKept ==
  ASSUME IInv, phase = "publish", Granted, UNCHANGED <<files, open, exposed, ownerless>>
  PROVE  ServerKept'
<1>1. TypeOK /\ ServerKept /\ ApplyIsAt /\ target \in Targets
  BY DEF IInv, CommandKept, TypeOK
<1>2. /\ target \in open /\ todo.to = record[target].to /\ record[target] # None
      /\ matrix[target] # None /\ \A b \in matrix[target].bind : raw[b[1]] \in Names
  BY <1>1 DEF ApplyIsAt, ApplyPhases, TypeOK
<1>3. ClosedIsAtRest'
  BY <1>1, <1>2 DEF ServerKept, ClosedIsAtRest, AtRest, Granted
<1>4. RecordsKnow'
  BY <1>1, <1>2 DEF ServerKept, RecordsKnow, Granted, files
<1>5. FieldsAreKept'
  BY <1>1 DEF ServerKept, FieldsAreKept, Granted
<1>6. PublishedIsCovered'
  <2>1. ASSUME NEW p \in published \cup ({target} \X todo.to)
        PROVE  Covered(p[1], p[2]) \/ p[1] \in exposed
    <3>1. CASE p \in published
      BY <1>1, <3>1 DEF ServerKept, PublishedIsCovered
    <3>2. CASE p \in {target} \X todo.to
      <4>1. p[1] = target /\ p[2] \in todo.to
        BY <3>2
      <4>2. \A b \in matrix[target].bind : b[1] \in FieldsOf[target]
        BY <1>1, <1>2 DEF TypeOK
      <4>. QED  BY <1>2, <4>1, <4>2 DEF Granted, Covered
    <3>. QED  BY <2>1, <3>1, <3>2
  <2>. QED  BY <2>1 DEF PublishedIsCovered, Covered, Effective, Granted, files
<1>. QED  BY <1>3, <1>4, <1>5, <1>6 DEF ServerKept

LEMMA RetractedKept ==
  ASSUME IInv, phase = "unpublish", Retracted, UNCHANGED <<files, open, exposed, ownerless>>
  PROVE  /\ ServerKept'
         /\ \A o \in Orgs : <<target, o>> \notin published'
<1>1. TypeOK /\ ServerKept /\ RollbackIsAt /\ target \in Targets
  BY DEF IInv, CommandKept, TypeOK
<1>2. todo.to = record[target].to
  BY <1>1 DEF RollbackIsAt, RollbackPhases
<1>3. ClosedIsAtRest' /\ RecordsKnow' /\ FieldsAreKept'
  BY <1>1 DEF ServerKept, ClosedIsAtRest, AtRest, RecordsKnow, FieldsAreKept, Retracted, files
<1>4. PublishedIsCovered'
  BY <1>1 DEF ServerKept, PublishedIsCovered, Covered, Effective, Retracted, files
<1>5. \A o \in Orgs : <<target, o>> \notin published'
  BY <1>1, <1>2 DEF ServerKept, RecordsKnow, Retracted
<1>. QED  BY <1>3, <1>4, <1>5 DEF ServerKept

LEMMA UnboundKept ==
  ASSUME Separate, IInv, phase = "unbind", NEW b \in todo.bind, Unbound(b),
         UNCHANGED <<files, open, exposed, ownerless>>
  PROVE  ServerKept'
<1>1. TypeOK /\ ServerKept /\ RollbackIsAt /\ target \in Targets
      /\ b \in Fields \X (Values \cup Names)
  BY DEF IInv, CommandKept, TypeOK
<1>2. /\ b[1] \in FieldsOf[target] /\ b[2] = Static[b[1]]
      /\ target \in exposed \/ \A o \in Orgs : <<target, o>> \notin published
  BY <1>1 DEF RollbackIsAt, RollbackPhases
<1>3. \A f \in Fields : raw'[f] = IF f = b[1] THEN Static[f] ELSE raw[f]
  BY <1>1, <1>2 DEF Unbound, TypeOK
<1>4. \A t \in Targets : /\ FieldsOf[t] \subseteq Fields
                         /\ t # target => b[1] \notin FieldsOf[t]
  BY <1>1, <1>2, PublicationAssumption DEF Separate
<1>5. ClosedIsAtRest'
  BY <1>1, <1>3, <1>4 DEF ServerKept, ClosedIsAtRest, AtRest, Unbound
<1>6. RecordsKnow'
  <2>1. \A t \in Targets : \A f \in FieldsOf[t] : raw'[f] = raw[f] \/ raw'[f] = Static[f]
    BY <1>3, <1>4
  <2>. QED  BY <1>1, <2>1 DEF ServerKept, RecordsKnow, Unbound, files
<1>7. FieldsAreKept'
  BY <1>1, <1>3 DEF ServerKept, FieldsAreKept, Unbound
<1>8. PublishedIsCovered'
  <2>. SUFFICES ASSUME NEW p \in published, p[1] \notin exposed
                PROVE  Covered(p[1], p[2])'
    BY <1>1 DEF PublishedIsCovered, Unbound
  <2>1. p[1] \in Targets /\ p[2] \in Orgs /\ p = <<p[1], p[2]>>
    BY <1>1 DEF TypeOK
  <2>2. p[1] # target
    BY <1>2, <2>1
  <2>3. Covered(p[1], p[2])
    BY <1>1 DEF ServerKept, PublishedIsCovered
  <2>4. \A d \in matrix[p[1]].bind : raw'[d[1]] = raw[d[1]]
    BY <1>1, <1>3, <1>4, <2>1, <2>2, <2>3 DEF TypeOK, Covered
  <2>. QED  BY <2>3, <2>4 DEF Covered, Effective, Unbound, files
<1>. QED  BY <1>5, <1>6, <1>7, <1>8 DEF ServerKept

\* The server does not delete a variable that a field is bound to.
LEMMA DeletedKept ==
  ASSUME IInv, phase = "unbind", Deleted, UNCHANGED <<files, open, exposed, ownerless>>
  PROVE  /\ ServerKept'
         /\ \A f \in FieldsOf[target] : raw'[f] = Static[f]
         /\ \A n \in Names : maker'[n] # target
<1>1. TypeOK /\ ServerKept /\ RollbackIsAt /\ target \in Targets
  BY DEF IInv, CommandKept, TypeOK
<1>2. todo.create = record[target].created
  BY <1>1 DEF RollbackIsAt, RollbackPhases
<1>3. /\ \A n \in Names : maker'[n] = maker[n] \/ maker'[n] \notin Targets
      /\ \A n \in todo.create : maker'[n] \notin Targets
  BY <1>1, PublicationAssumption DEF Deleted, TypeOK
<1>4. \A f \in Fields : /\ raw[f] \in variables => raw[f] \in variables'
                        /\ raw[f] \in Names => value'[raw[f]] = value[raw[f]]
                        /\ raw[f] \in reused => raw[f] \in reused'
  BY DEF Deleted
<1>5. ClosedIsAtRest'
  BY <1>1, <1>3 DEF ServerKept, ClosedIsAtRest, AtRest, Deleted
<1>6. RecordsKnow'
  BY <1>1, <1>3 DEF ServerKept, RecordsKnow, Deleted, files
<1>7. FieldsAreKept'
  <2>1. raw' = raw /\ ownerless' = ownerless /\ variables \subseteq Names
    BY <1>1 DEF Deleted, TypeOK
  <2>. QED  BY <1>1, <1>4, <2>1 DEF ServerKept, FieldsAreKept
<1>8. PublishedIsCovered'
  <2>1. \A t \in Targets : FieldsOf[t] \subseteq Fields
    BY PublicationAssumption
  <2>2. ASSUME NEW p \in published, Covered(p[1], p[2]) PROVE Covered(p[1], p[2])'
    <3>1. p[1] \in Targets
      BY <1>1 DEF TypeOK
    <3>2. \A b \in matrix[p[1]].bind : b[1] \in Fields
      BY <1>1, <2>1, <2>2, <3>1 DEF TypeOK, Covered
    <3>. QED  BY <1>4, <2>2, <3>2 DEF Covered, Effective, Deleted, files
  <2>. QED  BY <1>1, <2>2 DEF ServerKept, PublishedIsCovered, Deleted
<1>9. \A n \in Names : maker'[n] # target
  BY <1>1, <1>2, <1>3 DEF ServerKept, RecordsKnow
<1>10. \A f \in FieldsOf[target] : raw'[f] = Static[f]
  <2>1. FieldsOf[target] \subseteq Fields
    BY <1>1, PublicationAssumption
  <2>. QED  BY <1>1, <1>2, <2>1 DEF ServerKept, RecordsKnow, Deleted
<1>. QED  BY <1>5, <1>6, <1>7, <1>8, <1>9, <1>10 DEF ServerKept

LEMMA UnchangedKept ==
  ASSUME IInv, UNCHANGED <<server, maker, reused>>, UNCHANGED <<matrix, record>>,
         open' = open, ownerless' = ownerless, exposed \subseteq exposed'
  PROVE  ServerKept'
<1>1. ClosedIsAtRest' /\ RecordsKnow' /\ FieldsAreKept'
  BY DEF IInv, ServerKept, ClosedIsAtRest, AtRest, RecordsKnow, FieldsAreKept, server
<1>2. PublishedIsCovered'
  BY DEF IInv, ServerKept, PublishedIsCovered, Covered, Effective, server
<1>. QED  BY <1>1, <1>2 DEF ServerKept
-----------------------------------------------------------------------------
(* The steps.                                                              *)

LEMMA InvInit == Init => IInv
<1>. SUFFICES ASSUME Init PROVE IInv
  OBVIOUS
<1>1. TypeOK
  BY TypeInit
<1>2. FilesKept
  BY DEF Init, FilesKept, ClosuresAreStatic, MatricesAreSound
<1>3. ServerKept
  <2>1. \A t \in Targets : FieldsOf[t] \subseteq Fields /\ t # None
    BY PublicationAssumption
  <2>. QED  BY <2>1 DEF Init, ServerKept, ClosedIsAtRest, AtRest, RecordsKnow,
                       FieldsAreKept, PublishedIsCovered
<1>4. CommandKept
  BY DEF Init, CommandKept, ApplyIsAt, RollbackIsAt, ApplyPhases, RollbackPhases
<1>. QED  BY <1>1, <1>2, <1>3, <1>4 DEF IInv

\* A command that has ended is nowhere.
LEMMA IdleKept == ASSUME phase' = "idle" PROVE CommandKept'
BY DEF CommandKept, ApplyIsAt, RollbackIsAt, ApplyPhases, RollbackPhases

LEMMA FilesStay == ASSUME FilesKept, UNCHANGED <<closure, matrix>> PROVE FilesKept'
BY DEF FilesKept, ClosuresAreStatic, MatricesAreSound

LEMMA KeptExport ==
  ASSUME RollsBackFirst, IInv, NEW t \in Targets, NEW S \in SUBSET FieldsOf[t],
         NEW owner \in BOOLEAN, Export(t, S, owner)
  PROVE  FilesKept' /\ ServerKept' /\ CommandKept'
<1>1. TypeOK /\ AtRest(t) /\ phase' = "idle"
  BY DEF IInv, ServerKept, ClosedIsAtRest, Export, MayPlan, command
<1>2. \A x \in Targets : closure'[x] # closure[x] =>
         x = t /\ \A f \in DOMAIN closure'[t].fields : closure'[t].fields[f] = Static[f]
  <2>. DEFINE new == [fields |-> [f \in S |-> raw[f]], taken |-> variables, owner |-> owner]
  <2>1. \A f \in DOMAIN new.fields : new.fields[f] = Static[f]
    BY <1>1 DEF AtRest
  <2>2. closure' = [closure EXCEPT ![t] = new]
    BY DEF Export
  <2>. HIDE DEF new
  <2>. QED  BY <1>1, <2>1, <2>2 DEF TypeOK
<1>3. ClosuresAreStatic'
  BY <1>2 DEF IInv, FilesKept, ClosuresAreStatic
<1>4. MatricesAreSound'
  BY DEF IInv, FilesKept, MatricesAreSound, Export
<1>5. ServerKept'
  BY UnchangedKept DEF Export, ghosts
<1>. QED  BY <1>1, <1>3, <1>4, <1>5, IdleKept DEF FilesKept

LEMMA KeptResolve ==
  ASSUME RollsBackFirst, IInv, NEW t \in Targets, NEW orgs \in SUBSET Orgs, NEW source \in Sources,
         Resolve(t, orgs, source)
  PROVE  FilesKept' /\ ServerKept' /\ CommandKept'
<1>. DEFINE new == Matrix(closure[t], orgs, source)
<1>1. TypeOK /\ phase' = "idle"
  BY DEF IInv, Resolve, MayPlan, command
<1>2. MatrixIsSound(t, new)
  BY ResolvedIsSound DEF IInv, FilesKept, Resolve
<1>3. matrix' = [matrix EXCEPT ![t] = new]
  BY DEF Resolve
<1>. HIDE DEF new
<1>4. MatricesAreSound'
  <2>. SUFFICES ASSUME NEW x \in Targets, matrix'[x] # None
                PROVE  MatrixIsSound(x, matrix'[x])
    BY DEF MatricesAreSound, MatrixIsSound
  <2>1. CASE x = t
    BY <1>1, <1>2, <1>3, <2>1 DEF TypeOK
  <2>2. CASE x # t
    BY <1>1, <1>3, <2>2 DEF IInv, FilesKept, MatricesAreSound, TypeOK
  <2>. QED  BY <2>1, <2>2
<1>5. ClosuresAreStatic'
  BY DEF IInv, FilesKept, ClosuresAreStatic, Resolve
<1>6. ClosedIsAtRest' /\ RecordsKnow' /\ FieldsAreKept'
  BY DEF IInv, ServerKept, ClosedIsAtRest, AtRest, RecordsKnow, FieldsAreKept, Resolve,
         server, ghosts
<1>7. PublishedIsCovered'
  <2>. SUFFICES ASSUME NEW p \in published, p[1] \notin exposed
                PROVE  Covered(p[1], p[2])'
    BY DEF PublishedIsCovered, Resolve, server, ghosts
  <2>1. p[1] \in Targets /\ p[2] \in Orgs /\ p = <<p[1], p[2]>>
    BY <1>1 DEF TypeOK
  <2>2. p[1] # t
    BY <2>1 DEF IInv, ServerKept, ClosedIsAtRest, AtRest, Resolve, MayPlan
  <2>3. matrix'[p[1]] = matrix[p[1]]
    BY <1>1, <1>3, <2>1, <2>2 DEF TypeOK
  <2>. QED  BY <2>3 DEF IInv, ServerKept, PublishedIsCovered, Covered, Effective, Resolve,
                        server
<1>. QED  BY <1>1, <1>4, <1>5, <1>6, <1>7, IdleKept DEF FilesKept, ServerKept

LEMMA KeptStartApply ==
  ASSUME RollsBackFirst, IInv, NEW t \in Targets, NEW to \in SUBSET Orgs, StartApply(t, to)
  PROVE  FilesKept' /\ ServerKept' /\ CommandKept'
<1>. DEFINE c == closure[t]
            m == matrix[t]
            r == RecordOf(c, m, to)
<1>1. /\ TypeOK /\ ServerKept /\ AtRest(t) /\ phase = "idle" /\ ~failed /\ m # None
      /\ \A f \in DOMAIN c.fields : c.fields[f] = Static[f]
      /\ \A f \in FieldsOf[t] : Original(c, f) \in {Static[f], None}
      /\ \A f \in FieldsOf[t] : Original(c, f) \notin Names
      /\ MatrixIsSound(t, m)
  <2>1. phase = "idle" /\ t \notin open /\ m # None /\ TypeOK /\ ServerKept
    BY DEF StartApply, MayPlan, IInv
  <2>2. c # None /\ ~failed
    BY <2>1 DEF TypeOK
  <2>3. AtRest(t) /\ MatrixIsSound(t, m)
        /\ \A f \in DOMAIN c.fields : c.fields[f] = Static[f]
    BY <2>1, <2>2 DEF IInv, FilesKept, ServerKept, ClosedIsAtRest, MatricesAreSound,
                      ClosuresAreStatic
  <2>4. \A f \in FieldsOf[t] : Static[f] \notin Names /\ None \notin Names
    BY PublicationAssumption
  <2>5. \A f \in FieldsOf[t] : Original(c, f) \in {Static[f], None}
    BY <2>3 DEF Original
  <2>. QED  BY <2>1, <2>2, <2>3, <2>4, <2>5
<1>2. /\ record' = [record EXCEPT ![t] = r]
      /\ todo' = [create |-> m.create, assign |-> m.assign, to |-> to, bind |-> ToBind(c, m)]
      /\ phase' = "create" /\ target' = t /\ open' = open \cup {t}
      /\ exposed' = exposed \ {t}
      /\ ownerless' = IF Owned(m) THEN ownerless ELSE ownerless \cup {t}
      /\ UNCHANGED <<server, closure, matrix, failed, maker, reused>>
  BY DEF StartApply, Owned
<1>3. record'[t] = r /\ r.created = m.create /\ r.to = to
      /\ \A x \in Targets \ {t} : record'[x] = record[x]
  BY <1>1, <1>2 DEF TypeOK, RecordOf
<1>4. ToBind(c, m) = m.bind /\ \A f \in DOMAIN r.fields : r.fields[f] \in {Static[f], None}
  <2>. DEFINE S == {b[1] : b \in ToBind(c, m)}
  <2>1. \A b \in m.bind : b[1] \in FieldsOf[t]
    BY <1>1 DEF MatrixIsSound
  <2>2. ToBind(c, m) = m.bind
    BY <1>1, <2>1 DEF ToBind
  <2>3. S \subseteq FieldsOf[t]
    BY <2>1, <2>2
  <2>4. r.fields = [f \in S |-> Original(c, f)]
    BY DEF RecordOf, Originals
  <2>. HIDE DEF S, r, c, m
  <2>. QED  BY <1>1, <2>2, <2>3, <2>4
<1>. HIDE DEF c, m, r
<1>5. ClosedIsAtRest'
  BY <1>1, <1>2 DEF ServerKept, ClosedIsAtRest, AtRest, server
<1>6. RecordsKnow'
  <2>. SUFFICES ASSUME NEW x \in Targets
                PROVE  /\ record'[x] # None => \A f \in DOMAIN record'[x].fields :
                             record'[x].fields[f] \in {Static[f], None}
                       /\ \A f \in FieldsOf[x] :
                             \/ raw'[f] = Static[f]
                             \/ record'[x] # None /\ raw'[f] \in record'[x].created
                       /\ \A n \in Names : maker'[n] = x =>
                             record'[x] # None /\ n \in record'[x].created
                       /\ \A o \in Orgs : <<x, o>> \in published' =>
                             record'[x] # None /\ o \in record'[x].to
    BY DEF RecordsKnow
  <2>1. CASE x = t
    BY <1>1, <1>2, <1>3, <1>4, <2>1 DEF AtRest, server
  <2>2. CASE x # t
    BY <1>1, <1>2, <1>3, <2>2 DEF ServerKept, RecordsKnow, server
  <2>. QED  BY <2>1, <2>2
<1>7. FieldsAreKept'
  BY <1>1, <1>2 DEF ServerKept, FieldsAreKept, server
<1>8. PublishedIsCovered'
  <2>1. \A p \in published : p[1] \in Targets /\ p[2] \in Orgs /\ p = <<p[1], p[2]>>
    BY <1>1 DEF TypeOK
  <2>2. \A p \in published : p[1] # t
    BY <1>1, <2>1 DEF AtRest
  <2>. QED  BY <1>1, <1>2, <2>2
            DEF ServerKept, PublishedIsCovered, Covered, Effective, server
<1>9. ApplyIsAt'
  <2>1. ToBind(c, m) = m.bind
    BY <1>4
  <2>2. matrix' = matrix /\ matrix'[t] = m
    BY <1>2 DEF m
  <2>3. \A o \in Orgs : <<t, o>> \notin published'
    BY <1>1, <1>2 DEF AtRest, server
  <2>4. target' \in ownerless' \/ Owned(matrix'[target'])
    BY <1>2, <2>2
  <2>5. todo'.create = m.create /\ todo'.assign = m.assign /\ todo'.to = to
        /\ todo'.bind = m.bind
    BY <1>2, <2>1
  <2>. QED  BY <1>1, <1>2, <1>3, <2>2, <2>3, <2>4, <2>5 DEF ApplyIsAt, ApplyPhases, Owned
<1>10. RollbackIsAt'
  BY <1>2 DEF RollbackIsAt, RollbackPhases
<1>11. FilesKept'
  BY <1>2, FilesStay DEF IInv
<1>. QED  BY <1>5, <1>6, <1>7, <1>8, <1>9, <1>10, <1>11 DEF ServerKept, CommandKept

LEMMA KeptStartRollback ==
  ASSUME IInv, NEW t \in Targets, StartRollback(t)
  PROVE  FilesKept' /\ ServerKept' /\ CommandKept'
<1>. DEFINE r == record[t]
<1>1. /\ TypeOK /\ r # None /\ phase = "idle" /\ ~failed
      /\ DOMAIN r.fields \subseteq FieldsOf[t]
      /\ \A f \in Known(r) : r.fields[f] = Static[f]
  BY DEF IInv, ServerKept, RecordsKnow, StartRollback, TypeOK, Known
<1>2. /\ todo' = [create |-> r.created, assign |-> {}, to |-> r.to,
                  bind |-> {<<f, r.fields[f]>> : f \in Known(r)}]
      /\ phase' = "unpublish" /\ target' = t /\ UNCHANGED <<server, files, failed, ghosts>>
  BY DEF StartRollback
<1>3. RollbackIsAt'
  <2>1. \A b \in todo'.bind : b[1] \in FieldsOf[t] /\ b[2] = Static[b[1]]
    BY <1>1, <1>2 DEF Known
  <2>3. todo'.create = record'[t].created /\ todo'.to = record'[t].to
    BY <1>2 DEF files
  <2>. QED  BY <1>1, <1>2, <2>1, <2>3 DEF RollbackIsAt
<1>4. ApplyIsAt'
  BY <1>2 DEF ApplyIsAt, ApplyPhases
<1>5. ServerKept'
  BY <1>2, UnchangedKept DEF files, ghosts
<1>6. FilesKept'
  BY <1>2, FilesStay DEF IInv, files
<1>. QED  BY <1>3, <1>4, <1>5, <1>6 DEF CommandKept

LEMMA KeptPhaseOver == ASSUME IInv, PhaseOver PROVE FilesKept' /\ ServerKept' /\ CommandKept'
<1>1. /\ phase \in {"create", "assign", "bind"} /\ CallsOf(phase) = {}
      /\ phase' = NextPhase(phase)
      /\ UNCHANGED <<server, files, target, todo, failed, ghosts>>
  BY DEF PhaseOver
<1>2. ApplyIsAt'
  <2>1. ApplyIsAt
    BY DEF IInv, CommandKept
  <2>2. \/ phase = "create" /\ todo.create = {} /\ phase' = "assign"
        \/ phase = "assign" /\ todo.assign = {} /\ phase' = "bind"
        \/ phase = "bind" /\ todo.bind = {} /\ phase' = "publish"
    BY <1>1 DEF CallsOf, NextPhase
  <2>. QED  BY <1>1, <2>1, <2>2 DEF ApplyIsAt, ApplyPhases, server, files, ghosts
<1>3. RollbackIsAt'
  BY <1>1 DEF NextPhase, RollbackIsAt, RollbackPhases
<1>4. ServerKept'
  BY <1>1, UnchangedKept DEF files, ghosts
<1>5. FilesKept'
  BY <1>1, FilesStay DEF IInv, files
<1>. QED  BY <1>2, <1>3, <1>4, <1>5 DEF CommandKept

LEMMA KeptCreateVariable ==
  ASSUME IInv, NEW n \in todo.create, CreateVariable(n)
  PROVE  FilesKept' /\ ServerKept' /\ CommandKept'
<1>1. phase = "create" /\ UNCHANGED <<files, open, exposed, ownerless>>
  BY DEF CreateVariable
<1>2. FilesKept'
  BY <1>1, FilesStay DEF IInv, files
<1>3. Created(n) \/ Reused(n) \/ UNCHANGED <<server, maker, reused>>
  BY DEF CreateVariable, Continues, Ends
<1>4. ServerKept'
  BY <1>1, <1>3, CreatedKept, ReusedKept, UnchangedKept DEF files
<1>5. CASE Continues(Created(n) \/ Reused(n), [todo EXCEPT !.create = @ \ {n}])
  <2>. DEFINE m == matrix[target]
  <2>1. /\ Created(n) \/ Reused(n)
        /\ todo' = [todo EXCEPT !.create = @ \ {n}]
        /\ phase' = phase /\ target' = target /\ failed' = failed
    BY <1>5 DEF Continues
  <2>2. TypeOK /\ ApplyIsAt /\ FieldsAreKept /\ target \in Targets /\ n \in Names
    BY <1>1 DEF IInv, CommandKept, ServerKept, TypeOK
  <2>3. /\ todo'.create = todo.create \ {n} /\ todo'.assign = todo.assign
        /\ todo'.bind = todo.bind /\ todo'.to = todo.to
    BY <2>1, <2>2 DEF TypeOK
  <2>4. /\ \A f \in Fields : raw[f] = n => n \in reused'
        /\ n \in variables' /\ variables \subseteq variables' /\ reused \subseteq reused'
        /\ UNCHANGED <<value, raw, published>>
    <3>1. CASE Created(n)
      BY <2>2, <3>1, PublicationAssumption DEF FieldsAreKept, Created
    <3>2. CASE Reused(n)
      BY <3>2 DEF Reused, server
    <3>. QED  BY <2>1, <3>1, <3>2
  <2>5. ApplyIsAt'
    <3>1. \A f \in Fields : raw'[f] \in m.create \ todo'.create => raw'[f] \in reused'
      BY <1>1, <2>2, <2>3, <2>4 DEF ApplyIsAt, ApplyPhases
    <3>2. \A k \in m.create \ todo'.create : k \in variables'
      BY <1>1, <2>2, <2>3, <2>4 DEF ApplyIsAt, ApplyPhases
    <3>. QED  BY <1>1, <2>1, <2>2, <2>3, <2>4, <3>1, <3>2 DEF ApplyIsAt, ApplyPhases, files
  <2>6. RollbackIsAt'
    BY <1>1, <2>1 DEF RollbackIsAt, RollbackPhases
  <2>. QED  BY <1>2, <1>4, <2>5, <2>6 DEF CommandKept
<1>6. CASE Stop
  BY <1>2, <1>4, <1>6, IdleKept DEF Stop
<1>. QED  BY <1>5, <1>6 DEF CreateVariable, Ends

LEMMA KeptAssignValue ==
  ASSUME IInv, NEW a \in todo.assign, AssignValue(a)
  PROVE  FilesKept' /\ ServerKept' /\ CommandKept'
<1>1. phase = "assign" /\ UNCHANGED <<files, open, exposed, ownerless>>
  BY DEF AssignValue
<1>2. FilesKept'
  BY <1>1, FilesStay DEF IInv, files
<1>3. Assigned(a) \/ UNCHANGED <<server, maker, reused>>
  BY DEF AssignValue, Continues, Ends
<1>4. ServerKept'
  BY <1>1, <1>3, AssignedKept, UnchangedKept DEF files
<1>5. CASE Continues(Assigned(a), [todo EXCEPT !.assign = @ \ {a}])
  <2>. DEFINE m == matrix[target]
  <2>1. /\ Assigned(a) /\ todo' = [todo EXCEPT !.assign = @ \ {a}]
        /\ phase' = phase /\ target' = target /\ failed' = failed
    BY <1>5 DEF Continues
  <2>2. /\ TypeOK /\ ApplyIsAt /\ target \in Targets
        /\ a \in Names \X Everyone \X (Values \cup Names) /\ m \in Matrices
    BY <1>1 DEF IInv, CommandKept, TypeOK, ApplyIsAt, ApplyPhases
  <2>3. /\ todo'.assign = todo.assign \ {a} /\ todo'.create = todo.create
        /\ todo'.bind = todo.bind /\ todo'.to = todo.to
    BY <2>1, <2>2 DEF TypeOK
  <2>4. m # None /\ MatrixIsSound(target, m) /\ a \in m.assign
    BY <1>1, <2>2 DEF IInv, FilesKept, MatricesAreSound, ApplyIsAt, ApplyPhases
  <2>5. ASSUME NEW d \in m.assign \ todo'.assign
        PROVE  value'[d[1]][d[2]] = d[3]
    <3>1. d \in Names \X Everyone \X (Values \cup Names)
      BY <2>2 DEF Matrices
    <3>2. d[1] \in Names /\ d[2] \in Everyone
      BY <3>1
    <3>3. value'[d[1]][d[2]] = IF d[1] = a[1] /\ d[2] = a[2] THEN a[3] ELSE value[d[1]][d[2]]
      <4>1. value' = [value EXCEPT ![a[1]] = [value[a[1]] EXCEPT ![a[2]] = a[3]]]
        BY <2>1 DEF Assigned
      <4>2. value[d[1]] \in [Everyone -> Values \cup Names \cup {None}]
        BY <2>2, <3>2 DEF TypeOK
      <4>. QED  BY <2>2, <3>2, <4>1, <4>2 DEF TypeOK
    <3>4. CASE d[1] = a[1] /\ d[2] = a[2]
      BY <2>4, <3>3, <3>4 DEF MatrixIsSound
    <3>5. CASE ~(d[1] = a[1] /\ d[2] = a[2])
      <4>1. d # a
        BY <3>5
      <4>2. d \in m.assign \ todo.assign
        BY <2>3, <4>1
      <4>. QED  BY <1>1, <2>2, <3>3, <3>5, <4>2 DEF ApplyIsAt, ApplyPhases
    <3>. QED  BY <3>4, <3>5
  <2>6. ApplyIsAt'
    BY <1>1, <2>1, <2>2, <2>3, <2>5 DEF ApplyIsAt, ApplyPhases, Assigned, files
  <2>7. RollbackIsAt'
    BY <1>1, <2>1 DEF RollbackIsAt, RollbackPhases
  <2>. QED  BY <1>2, <1>4, <2>6, <2>7 DEF CommandKept
<1>6. CASE Stop
  BY <1>2, <1>4, <1>6, IdleKept DEF Stop
<1>. QED  BY <1>5, <1>6 DEF AssignValue, Ends

LEMMA KeptParameterize ==
  ASSUME Separate, IInv, NEW b \in todo.bind, Parameterize(b)
  PROVE  FilesKept' /\ ServerKept' /\ CommandKept'
<1>1. phase = "bind" /\ UNCHANGED <<files, open, exposed, ownerless>>
  BY DEF Parameterize
<1>2. FilesKept'
  BY <1>1, FilesStay DEF IInv, files
<1>3. Bound(b) \/ UNCHANGED <<server, maker, reused>>
  BY DEF Parameterize, Continues, Ends
<1>4. ServerKept'
  BY <1>1, <1>3, BoundKept, UnchangedKept DEF files
<1>5. CASE Continues(Bound(b), [todo EXCEPT !.bind = @ \ {b}])
  <2>1. /\ Bound(b) /\ todo' = [todo EXCEPT !.bind = @ \ {b}]
        /\ phase' = phase /\ target' = target /\ failed' = failed
    BY <1>5 DEF Continues
  <2>2. TypeOK /\ ApplyIsAt
    BY DEF IInv, CommandKept
  <2>3. /\ todo'.bind = todo.bind \ {b} /\ todo'.create = todo.create
        /\ todo'.assign = todo.assign /\ todo'.to = todo.to
    BY <2>1, <2>2 DEF TypeOK
  <2>4. ASSUME NEW d \in matrix[target].bind \ todo'.bind
        PROVE  raw'[d[1]] \in Names
    <3>1. matrix[target] # None /\ target \in Targets
      BY <1>1, <2>2 DEF ApplyIsAt, ApplyPhases, TypeOK
    <3>2. matrix[target].bind \subseteq Fields \X Names
      BY <2>2, <3>1 DEF TypeOK, Matrices
    <3>3. b \in Fields \X Names /\ d \in Fields \X Names
      BY <1>1, <2>2, <3>2 DEF ApplyIsAt, ApplyPhases
    <3>4. raw'[d[1]] = IF d[1] = b[1] THEN b[2] ELSE raw[d[1]]
      BY <2>1, <2>2, <3>3 DEF Bound, TypeOK
    <3>5. CASE d[1] = b[1]
      BY <3>3, <3>4, <3>5
    <3>6. CASE d[1] # b[1]
      BY <1>1, <2>2, <2>3, <3>4, <3>6 DEF ApplyIsAt, ApplyPhases
    <3>. QED  BY <3>5, <3>6
  <2>7. ApplyIsAt'
    BY <1>1, <2>1, <2>2, <2>3, <2>4 DEF ApplyIsAt, ApplyPhases, Bound, files
  <2>5. RollbackIsAt'
    BY <1>1, <2>1 DEF RollbackIsAt, RollbackPhases
  <2>. QED  BY <1>2, <1>4, <2>5, <2>7 DEF CommandKept
<1>6. CASE Stop
  BY <1>2, <1>4, <1>6, IdleKept DEF Stop
<1>. QED  BY <1>5, <1>6 DEF Parameterize, Ends

LEMMA KeptPublishAll ==
  ASSUME IInv, PublishAll
  PROVE  FilesKept' /\ ServerKept' /\ CommandKept'
<1>1. phase = "publish" /\ UNCHANGED <<files, open, exposed, ownerless>> /\ Stop
  BY DEF PublishAll, Ends
<1>2. Granted \/ UNCHANGED <<server, maker, reused>>
  BY DEF PublishAll, Ends
<1>3. ServerKept'
  BY <1>1, <1>2, GrantedKept, UnchangedKept DEF files
<1>. QED  BY <1>1, <1>3, IdleKept, FilesStay DEF IInv, files, Stop

LEMMA KeptUnpublish ==
  ASSUME IInv, Unpublish
  PROVE  FilesKept' /\ ServerKept' /\ CommandKept'
<1>1. phase = "unpublish" /\ UNCHANGED <<files, open, ownerless>>
  BY DEF Unpublish
<1>2. FilesKept'
  BY <1>1, FilesStay DEF IInv, files
<1>3. TypeOK /\ RollbackIsAt
  BY DEF IInv, CommandKept
<1>4. /\ todo.create = record[target].created /\ todo.to = record[target].to /\ ~failed
      /\ \A b \in todo.bind : b[1] \in FieldsOf[target] /\ b[2] = Static[b[1]]
  BY <1>1, <1>3 DEF RollbackIsAt, RollbackPhases
<1>5. CASE Retracted /\ phase' = "unbind" /\ UNCHANGED <<target, todo, failed, exposed>>
  <2>1. ServerKept' /\ \A o \in Orgs : <<target, o>> \notin published'
    BY <1>1, <1>5, RetractedKept
  <2>2. RollbackIsAt' /\ ApplyIsAt'
    BY <1>1, <1>4, <1>5, <2>1 DEF RollbackIsAt, ApplyIsAt, ApplyPhases, files
  <2>. QED  BY <1>2, <2>1, <2>2 DEF CommandKept
<1>6. CASE /\ phase' = "unbind" /\ failed' = TRUE /\ exposed' = exposed \cup {target}
           /\ UNCHANGED <<server, maker, reused, target, todo>>
  <2>1. ServerKept'
    BY <1>1, <1>6, UnchangedKept DEF files
  <2>2. RollbackIsAt' /\ ApplyIsAt'
    BY <1>1, <1>4, <1>6 DEF RollbackIsAt, ApplyIsAt, ApplyPhases, files
  <2>. QED  BY <1>2, <2>1, <2>2 DEF CommandKept
<1>7. CASE Ends(Retracted) /\ UNCHANGED exposed
  <2>1. ServerKept'
    BY <1>1, <1>7, RetractedKept, UnchangedKept DEF Ends, files
  <2>. QED  BY <1>2, <1>7, <2>1, IdleKept DEF Ends, Stop
<1>. QED  BY <1>5, <1>6, <1>7 DEF Unpublish

LEMMA KeptUnparameterize ==
  ASSUME Separate, IInv, NEW b \in todo.bind, Unparameterize(b)
  PROVE  FilesKept' /\ ServerKept' /\ CommandKept'
<1>1. phase = "unbind" /\ UNCHANGED <<files, open, exposed, ownerless>>
  BY DEF Unparameterize
<1>2. FilesKept'
  BY <1>1, FilesStay DEF IInv, files
<1>3. Unbound(b) \/ UNCHANGED <<server, maker, reused>>
  BY DEF Unparameterize, Continues, Ends
<1>4. ServerKept'
  BY <1>1, <1>3, UnboundKept, UnchangedKept DEF files
<1>5. CASE Continues(Unbound(b), [todo EXCEPT !.bind = @ \ {b}])
  <2>1. /\ Unbound(b) /\ todo' = [todo EXCEPT !.bind = @ \ {b}]
        /\ phase' = phase /\ target' = target /\ failed' = failed
    BY <1>5 DEF Continues
  <2>2. TypeOK /\ RollbackIsAt /\ target \in Targets /\ FieldsOf[target] \subseteq Fields
    BY <1>1, PublicationAssumption DEF IInv, CommandKept, TypeOK
  <2>3. /\ todo'.bind = todo.bind \ {b} /\ todo'.create = todo.create /\ todo'.to = todo.to
    BY <2>1, <2>2 DEF TypeOK
  <2>6. RollbackIsAt'
    BY <1>1, <2>1, <2>2, <2>3 DEF RollbackIsAt, RollbackPhases, Unbound, files
  <2>7. ApplyIsAt'
    BY <1>1, <2>1 DEF ApplyIsAt, ApplyPhases
  <2>. QED  BY <1>2, <1>4, <2>6, <2>7 DEF CommandKept
<1>6. CASE Stop
  BY <1>2, <1>4, <1>6, IdleKept DEF Stop
<1>. QED  BY <1>5, <1>6 DEF Unparameterize, Ends

LEMMA KeptDeleteVariables ==
  ASSUME IInv, DeleteVariables
  PROVE  FilesKept' /\ ServerKept' /\ CommandKept'
<1>1. phase = "unbind" /\ todo.bind = {} /\ UNCHANGED <<files, open, exposed, ownerless>>
  BY DEF DeleteVariables
<1>2. FilesKept'
  BY <1>1, FilesStay DEF IInv, files
<1>3. CASE Deleted /\ phase' = "undone" /\ UNCHANGED <<target, todo, failed>>
  <2>1. /\ ServerKept' /\ \A n \in Names : maker'[n] # target
        /\ \A f \in FieldsOf[target] : raw'[f] = Static[f]
    BY <1>1, <1>3, DeletedKept
  <2>2. RollbackIsAt
    BY DEF IInv, CommandKept
  <2>3. RollbackIsAt'
    BY <1>1, <1>3, <2>1, <2>2 DEF RollbackIsAt, RollbackPhases, Deleted, files
  <2>4. ApplyIsAt'
    BY <1>3 DEF ApplyIsAt, ApplyPhases
  <2>. QED  BY <1>2, <2>1, <2>3, <2>4 DEF CommandKept
<1>4. CASE Ends(Deleted)
  <2>1. ServerKept'
    BY <1>1, <1>4, DeletedKept, UnchangedKept DEF Ends, files
  <2>. QED  BY <1>2, <1>4, <2>1, IdleKept DEF Ends, Stop
<1>. QED  BY <1>3, <1>4 DEF DeleteVariables

\* Only a rollback that could unpublish closes the target, and leaves it at rest.
LEMMA KeptFinishRollback ==
  ASSUME IInv, FinishRollback
  PROVE  FilesKept' /\ ServerKept' /\ CommandKept'
<1>1. /\ phase = "undone" /\ Stop /\ open' = IF failed THEN open ELSE open \ {target}
      /\ ownerless' = ownerless \cap open' /\ ownerless \subseteq open
      /\ UNCHANGED <<server, files, maker, exposed, reused>>
  BY DEF FinishRollback, IInv, TypeOK
<1>2. ~failed => AtRest(target)
  BY <1>1 DEF IInv, CommandKept, RollbackIsAt, RollbackPhases, AtRest
<1>3. ClosedIsAtRest'
  BY <1>1, <1>2 DEF IInv, ServerKept, ClosedIsAtRest, AtRest, server
<1>4. RecordsKnow' /\ FieldsAreKept'
  <2>1. RecordsKnow'
    BY <1>1 DEF IInv, ServerKept, RecordsKnow, server, files
  <2>2. \A t \in ownerless \ ownerless' : \A f \in FieldsOf[t] : raw[f] = Static[f]
    BY <1>1, <1>2 DEF AtRest
  <2>3. FieldsAreKept'
    BY <1>1, <2>2 DEF IInv, ServerKept, FieldsAreKept, server
  <2>. QED  BY <2>1, <2>3
<1>5. PublishedIsCovered'
  BY <1>1 DEF IInv, ServerKept, PublishedIsCovered, Covered, Effective, server, files
<1>. QED  BY <1>1, <1>3, <1>4, <1>5, FilesStay, IdleKept DEF IInv, ServerKept, files, Stop

LEMMA KeptOthersCreate ==
  ASSUME IInv, NEW n \in OthersNames, OthersCreate(n)
  PROVE  FilesKept' /\ ServerKept' /\ CommandKept'
<1>1. /\ TypeOK /\ n \notin variables /\ variables' = variables \cup {n}
      /\ UNCHANGED <<raw, published, files, command, ghosts>>
  BY DEF IInv, OthersCreate
<1>2. variables \subseteq variables' /\ value' = value
  BY <1>1 DEF OthersCreate
<1>3. FilesKept'
  BY <1>1, FilesStay DEF IInv, files
<1>4. ClosedIsAtRest' /\ RecordsKnow'
  BY <1>1 DEF IInv, ServerKept, ClosedIsAtRest, AtRest, RecordsKnow, files, ghosts
<1>5. FieldsAreKept'
  BY <1>1, <1>2 DEF IInv, ServerKept, FieldsAreKept, ghosts
<1>6. PublishedIsCovered'
  BY <1>1, <1>2 DEF IInv, ServerKept, PublishedIsCovered, Covered, Effective, ghosts, files
<1>7. ApplyIsAt'
  BY <1>1, <1>2 DEF IInv, CommandKept, ApplyIsAt, command, files, ghosts
<1>8. RollbackIsAt'
  BY <1>1 DEF IInv, CommandKept, RollbackIsAt, command, files, ghosts
<1>. QED  BY <1>3, <1>4, <1>5, <1>6, <1>7, <1>8 DEF ServerKept, CommandKept

LEMMA InvStep == ASSUME RollsBackFirst, Separate, IInv, [Next]_vars PROVE IInv'
<1>1. TypeOK'
  BY TypeStep DEF IInv
<1>. SUFFICES FilesKept' /\ ServerKept' /\ CommandKept'
  BY <1>1 DEF IInv
<1>2. CASE UNCHANGED vars
  <2>1. FilesKept' /\ ServerKept'
    BY <1>2, FilesStay, UnchangedKept DEF IInv, vars, server
  <2>2. CommandKept'
    BY <1>2 DEF IInv, CommandKept, ApplyIsAt, RollbackIsAt, vars
  <2>. QED  BY <2>1, <2>2
<1>3. CASE \E t \in Targets : \E S \in SUBSET FieldsOf[t], owner \in BOOLEAN :
              Export(t, S, owner)
  BY <1>3, KeptExport
<1>4. CASE \E t \in Targets, orgs \in SUBSET Orgs \ {{}}, source \in Sources :
              Resolve(t, orgs, source)
  <2>1. PICK t \in Targets, orgs \in SUBSET Orgs, source \in Sources :
           Resolve(t, orgs, source)
    BY <1>4
  <2>. QED  BY <2>1, KeptResolve
<1>5. CASE \E t \in Targets, to \in SUBSET Orgs : StartApply(t, to)
  BY <1>5, KeptStartApply
<1>6. CASE \E t \in Targets : StartRollback(t)
  BY <1>6, KeptStartRollback
<1>7. CASE \E n \in todo.create : CreateVariable(n)
  BY <1>7, KeptCreateVariable
<1>8. CASE \E a \in todo.assign : AssignValue(a)
  BY <1>8, KeptAssignValue
<1>9. CASE \E b \in todo.bind : Parameterize(b) \/ Unparameterize(b)
  BY <1>9, KeptParameterize, KeptUnparameterize
<1>10. CASE \E n \in OthersNames : OthersCreate(n)
  BY <1>10, KeptOthersCreate
<1>. QED  BY <1>2, <1>3, <1>4, <1>5, <1>6, <1>7, <1>8, <1>9, <1>10, KeptPhaseOver,
             KeptPublishAll, KeptUnpublish, KeptDeleteVariables, KeptFinishRollback DEF Next

-----------------------------------------------------------------------------
(* The properties                                                          *)

\* The theorems about what a run leaves behind are for an operator who rolls back
\* before planning again and whose targets share no field: Publication_again shows what
\* is lost without the first, and a shared Table does the same to the second closure.
THEOREM InvariantHolds ==
  ASSUME RollsBackFirst, Separate
  PROVE  Spec => []IInv
<1>1. IInv /\ [Next]_vars => IInv'
  BY InvStep
<1>. QED  BY InvInit, <1>1, PTL DEF Spec

\* The Primary Org reads its own data at every moment, whatever runs, stops halfway and
\* is rolled back, for any number of targets, fields, Orgs and runs: the only fields that
\* may read something else are those of a target whose export did not find the owner,
\* until it is rolled back, and those of a variable that another apply took for its own.
THEOREM OwnerKeepsItsDataAlways ==
  ASSUME RollsBackFirst, Separate
  PROVE  Spec => []OwnerKeepsItsData
<1>1. IInv => OwnerKeepsItsData
  <2>. SUFFICES ASSUME FieldsAreKept, NEW f \in Fields, TypeOK
                PROVE  \/ Effective(f, Owner) = Static[f]
                       \/ \E t \in ownerless : f \in FieldsOf[t]
                       \/ raw[f] \in reused
    BY DEF OwnerKeepsItsData, IInv, ServerKept
  <2>1. CASE raw[f] = Static[f]
    BY <2>1, PublicationAssumption DEF Effective
  <2>2. CASE raw[f] \in variables /\ value[raw[f]][Owner] = Static[f]
    BY <2>2 DEF Effective, TypeOK
  <2>. QED  BY <2>1, <2>2 DEF FieldsAreKept
<1>. QED  BY <1>1, InvariantHolds, PTL

\* Where an object is published every field that its matrix binds reads a value of that
\* Org's own, however many Tables its export passed over, and although the server grants
\* an object with one bound field.
THEOREM PublishedIsCoveredAlways ==
  ASSUME RollsBackFirst, Separate
  PROVE  Spec => []PublishedIsCovered
<1>1. IInv => PublishedIsCovered
  BY DEF IInv, ServerKept
<1>. QED  BY <1>1, InvariantHolds, PTL

\* A rollback that reports success leaves nothing of the apply, wherever that stopped.
THEOREM RollbackRestoresAlways ==
  ASSUME RollsBackFirst, Separate
  PROVE  Spec => []RollbackRestores
<1>1. IInv => RollbackRestores
  BY DEF IInv, CommandKept, RollbackIsAt, RollbackPhases, RollbackRestores, TypeOK
<1>. QED  BY <1>1, InvariantHolds, PTL
===============================================================================
