------------------------ MODULE DependencyChange_proofs ------------------------
(***************************************************************************)
(* Theorems about DependencyChange: types; that reports of success and of  *)
(* deletion are true; that a Set goes only past its guard; and that what   *)
(* is changed is changed once and is in the backup as its check saw it.    *)
(***************************************************************************)
EXTENDS DependencyChange, TLAPS

-----------------------------------------------------------------------------
(* Types, in parts, so that an action shows only what it touches.          *)

Results ==
    [succeeded : SUBSET Changed, unseen : SUBSET Changed,
     failedFix : SUBSET Fixes, failedOther : SUBSET Objects,
     deleted : SUBSET (Deletes \cup Sets), guessed : SUBSET (Deletes \cup Sets),
     skipped : SUBSET Objects, aborted : BOOLEAN]

ServerTypes ==
    /\ present \subseteq Objects
    /\ content \in [Objects -> {0, 1}]
    /\ form \in [Objects -> {"old", "new", "again"}]
    /\ modified \in [Objects -> Nat \ {0}]

PlanTypes ==
    /\ stamps \in [Objects -> Nat]
    /\ DOMAIN backup \subseteq Checked
    /\ \A o \in DOMAIN backup : backup[o] \in {0, 1}
    /\ phase \notin {"scan", "backup"} => DOMAIN backup = Checked

\* What a phase may still have to do, and which entry is at work.
PhaseTypes ==
    /\ phase \in Phases
    /\ step \in {"next", "checked", "fetched", "imported"}
    /\ current \in Objects
    /\ step # "next" =>
          \/ phase = "delete" /\ step = "checked" /\ current \in Deletes
          \/ phase = "fix" /\ current \in Fixes
          \/ phase = "source" /\ current = Source /\ todo = {}
    /\ todo \subseteq Objects
    /\ phase = "delete" => todo \subseteq Deletes
    /\ phase = "fix" => todo \subseteq Fixes
    /\ phase = "source" => todo \subseteq {Source}
    /\ phase = "sets" => todo \subseteq Sets
    /\ phase = "rollback" => todo \subseteq Checked

EntryTypes == body \in {0, 1} /\ apiOk \in BOOLEAN

ResultTypes ==
    /\ results \in Results
    /\ results.guessed \subseteq results.deleted
    /\ results.unseen \subseteq results.succeeded

GhostTypes ==
    /\ checkedAt \in [Objects -> {0, 1}]
    /\ changes \in [Objects -> Nat]
    /\ quiet \in BOOLEAN
    /\ runs \in 0..MaxRuns

Types ==
    ServerTypes /\ PlanTypes /\ PhaseTypes /\ EntryTypes /\ ResultTypes /\ GhostTypes

LEMMA TypesGiveTypeOK == Types => TypeOK
  BY DEF Types, ServerTypes, PlanTypes, PhaseTypes, EntryTypes, ResultTypes, GhostTypes,
         TypeOK, Results, Checked, Changed

LEMMA InitTypes == ASSUME Init PROVE Types
<1>1. ServerTypes /\ PlanTypes
  BY ChangeAssumption DEF Init, ServerTypes, PlanTypes
<1>2. PhaseTypes /\ EntryTypes
  BY DEF Init, PhaseTypes, EntryTypes, Phases, Objects, Checked, Changed
<1>3. ResultTypes
  BY DEF Init, ResultTypes, Results, NoResults
<1>4. GhostTypes
  BY ChangeAssumption DEF Init, GhostTypes
<1>. QED  BY <1>1, <1>2, <1>3, <1>4 DEF Types

\* What leaves a part's variables alone leaves the part alone.
LEMMA Kept ==
  ASSUME Types
  PROVE  /\ UNCHANGED server => ServerTypes'
         /\ UNCHANGED <<stamps, backup, phase>> => PlanTypes'
         /\ UNCHANGED <<phase, step, current, todo>> => PhaseTypes'
         /\ UNCHANGED <<body, apiOk>> => EntryTypes'
         /\ UNCHANGED results => ResultTypes'
         /\ UNCHANGED <<checkedAt, changes>> /\ quiet' \in BOOLEAN /\ UNCHANGED runs
               => GhostTypes'
<1>1. UNCHANGED server => ServerTypes'
  BY DEF Types, ServerTypes, server
<1>2. UNCHANGED <<stamps, backup, phase>> => PlanTypes'
  BY DEF Types, PlanTypes
<1>3. UNCHANGED <<phase, step, current, todo>> => PhaseTypes'
  BY DEF Types, PhaseTypes
<1>4. UNCHANGED <<body, apiOk>> => EntryTypes'
  BY DEF Types, EntryTypes
<1>5. UNCHANGED results => ResultTypes'
  BY DEF Types, ResultTypes
<1>6. UNCHANGED <<checkedAt, changes>> /\ quiet' \in BOOLEAN /\ UNCHANGED runs => GhostTypes'
  BY DEF Types, GhostTypes
<1>. QED  BY <1>1, <1>2, <1>3, <1>4, <1>5, <1>6

\* Once the backup is complete only the phase can matter to the plan's types.
LEMMA PlanKept ==
  ASSUME Types, UNCHANGED <<stamps, backup>>, phase \notin {"scan", "backup"}
  PROVE  PlanTypes'
  BY DEF Types, PlanTypes

LEMMA FaultTypes ==
  ASSUME Types, NEW happened \in BOOLEAN, Fault(happened)
  PROVE  quiet' \in BOOLEAN
  BY DEF Types, GhostTypes, Fault

LEMMA RemovedTypes ==
  ASSUME Types, NEW o \in Objects, Removed(o)
  PROVE  ServerTypes' /\ changes' \in [Objects -> Nat]
  BY DEF Types, ServerTypes, GhostTypes, Removed

LEMMA AppliedTypes ==
  ASSUME Types, NEW o \in Objects, Applied(o)
  PROVE  ServerTypes' /\ changes' \in [Objects -> Nat]
  BY DEF Types, ServerTypes, GhostTypes, EntryTypes, Applied

LEMMA ScanTypes == ASSUME Types, Scan PROVE Types'
<1>1. PlanTypes'
  BY DEF Types, Scan, PlanTypes, ServerTypes
<1>2. PhaseTypes'
  BY DEF Types, Scan, PhaseTypes, Phases, entry
<1>3. quiet' \in BOOLEAN
  BY DEF Types, Scan, GhostTypes
<1>. QED  BY <1>1, <1>2, <1>3, Kept DEF Types, Scan, entry, ghosts

LEMMA BackUpTypes == ASSUME Types, BackUp PROVE Types'
<1>1. PlanTypes'
  <2>1. CASE Due = {} /\ phase' = "idle" /\ UNCHANGED backup
    BY <2>1 DEF Types, BackUp, PlanTypes, Due
  <2>2. CASE \E o \in Due : /\ backup' = [p \in DOMAIN backup \cup {o} |->
                                             IF p = o THEN content[o] ELSE backup[p]]
                            /\ UNCHANGED phase
    <3>1. PICK o \in Due : /\ backup' = [p \in DOMAIN backup \cup {o} |->
                                             IF p = o THEN content[o] ELSE backup[p]]
                           /\ UNCHANGED phase
      BY <2>2
    <3>2. content[o] \in {0, 1} /\ o \in Checked
      BY DEF Types, ServerTypes, Due, Objects
    <3>3. stamps' = stamps /\ phase = "backup"
      BY DEF BackUp
    <3>. QED  BY <3>1, <3>2, <3>3 DEF Types, PlanTypes
  <2>. QED  BY <2>1, <2>2 DEF BackUp
<1>2. PhaseTypes'
  BY DEF Types, BackUp, PhaseTypes, Phases, entry
<1>3. quiet' \in BOOLEAN
  BY DEF Types, BackUp, GhostTypes
<1>. QED  BY <1>1, <1>2, <1>3, Kept DEF Types, BackUp, entry, ghosts

LEMMA StartRunTypes == ASSUME Types, StartRun PROVE Types'
<1>1. PlanTypes'
  BY PlanKept DEF StartRun, plan
<1>2. PhaseTypes'
  BY DEF Types, StartRun, PhaseTypes, Phases, entry, Objects, Checked
<1>3. ResultTypes'
  <2>1. /\ NoResults \in Results /\ NoResults.guessed \subseteq NoResults.deleted
        /\ NoResults.unseen \subseteq NoResults.succeeded
    BY DEF NoResults, Results
  <2>2. NoResults.guessed = {} /\ NoResults.deleted = {}
    BY DEF NoResults
  <2>3. CASE results' = NoResults
    BY <2>1, <2>3 DEF ResultTypes
  <2>4. CASE results' = [NoResults EXCEPT !.aborted = TRUE]
    BY <2>1, <2>2, <2>4 DEF ResultTypes, Results
  <2>. QED  BY <2>3, <2>4 DEF StartRun
<1>4. GhostTypes'
  <2>1. Source \in Objects
    BY DEF Objects, Checked, Changed
  <2>. QED  BY <2>1, ChangeAssumption DEF Types, StartRun, GhostTypes, ServerTypes, Fault
<1>. QED  BY <1>1, <1>2, <1>3, <1>4, Kept DEF Types, StartRun, entry

LEMMA PhaseOverTypes == ASSUME Types, PhaseOver PROVE Types'
<1>1. PlanTypes'
  BY PlanKept DEF PhaseOver, plan
<1>2. PhaseTypes'
  BY DEF Types, PhaseOver, NextPhase, PhaseTypes, Phases, entry, Objects, Checked, Changed
<1>3. quiet' \in BOOLEAN
  BY DEF Types, PhaseOver, GhostTypes
<1>. QED  BY <1>1, <1>2, <1>3, Kept DEF Types, PhaseOver, entry, ghosts

LEMMA CheckTypes == ASSUME Types, NEW o \in Objects, Check(o) PROVE Types'
<1>1. PlanTypes'
  BY PlanKept DEF Check, plan
<1>2. PhaseTypes'
  BY DEF Types, Check, Record, PhaseTypes
<1>3. ResultTypes'
  BY DEF Types, Check, Record, ResultTypes, Results
<1>4. GhostTypes'
  BY DEF Types, Check, GhostTypes, ServerTypes, Fault
<1>. QED  BY <1>1, <1>2, <1>3, <1>4, Kept DEF Types, Check

LEMMA TakeSourceTypes == ASSUME Types, TakeSource PROVE Types'
<1>1. PlanTypes'
  BY PlanKept DEF TakeSource, plan
<1>2. PhaseTypes'
  BY DEF Types, TakeSource, PhaseTypes, Objects, Checked, Changed
<1>3. quiet' \in BOOLEAN
  BY DEF Types, TakeSource, GhostTypes
<1>. QED  BY <1>1, <1>2, <1>3, Kept DEF Types, TakeSource, ghosts

LEMMA DeleteNowTypes ==
  ASSUME Types, NEW o \in Deletes \cup Sets, DeleteNow(o), phase = "sets" \/ o \in Deletes
  PROVE  /\ ServerTypes' /\ ResultTypes' /\ changes' \in [Objects -> Nat]
         /\ quiet' \in BOOLEAN /\ step' = "next"
<1>1. o \in Objects
  BY DEF Objects, Checked
<1>2. ServerTypes' /\ changes' \in [Objects -> Nat]
  <2>1. Removed(o) \/ UNCHANGED <<server, changes>>
    BY DEF DeleteNow
  <2>2. CASE Removed(o)
    BY <1>1, <2>2, RemovedTypes
  <2>3. CASE UNCHANGED <<server, changes>>
    BY <2>3, Kept DEF Types, GhostTypes, server
  <2>. QED  BY <2>1, <2>2, <2>3
<1>3. ResultTypes' /\ step' = "next"
  <2>1. CASE Record([results EXCEPT !.deleted = @ \cup {o}])
    BY <2>1 DEF Types, ResultTypes, Results, Record
  <2>2. CASE \E answered \in BOOLEAN : Record(AfterFailure(o, answered, o \in present'))
    <3>1. /\ step' = "next"
          /\ \/ results' = [results EXCEPT !.failedOther = @ \cup {o}]
             \/ results' = results
             \/ results' = [results EXCEPT !.deleted = @ \cup {o}]
             \/ results' = [results EXCEPT !.deleted = @ \cup {o}, !.guessed = @ \cup {o}]
      <4>1. PICK answered \in BOOLEAN : Record(AfterFailure(o, answered, o \in present'))
        BY <2>2
      <4>2. results \in Results
        BY DEF Types, ResultTypes
      <4>3. CASE answered
        BY <4>1, <4>2, <4>3 DEF Record, AfterFailure, Results
      <4>4. CASE ~answered
        BY <4>1, <4>2, <4>4 DEF Record, AfterFailure, Results
      <4>. QED  BY <4>3, <4>4
    <3>2. /\ results \in Results /\ results.guessed \subseteq results.deleted
          /\ results.unseen \subseteq results.succeeded
      BY DEF Types, ResultTypes
    <3>3. CASE results' = [results EXCEPT !.failedOther = @ \cup {o}]
      BY <1>1, <3>1, <3>2, <3>3 DEF ResultTypes, Results
    <3>4. CASE results' = results
      BY <3>1, <3>2, <3>4 DEF ResultTypes
    <3>5. CASE results' = [results EXCEPT !.deleted = @ \cup {o}]
      BY <3>1, <3>2, <3>5 DEF ResultTypes, Results
    <3>6. CASE results' = [results EXCEPT !.deleted = @ \cup {o}, !.guessed = @ \cup {o}]
      <4>1. results' = [results EXCEPT !.deleted = results.deleted \cup {o},
                                       !.guessed = results.guessed \cup {o}]
        BY <3>6
      <4>. QED  BY <3>1, <3>2, <4>1 DEF ResultTypes, Results
    <3>. QED  BY <3>1, <3>3, <3>4, <3>5, <3>6
  <2>. QED  BY <2>1, <2>2 DEF DeleteNow
<1>4. quiet' \in BOOLEAN
  BY DEF Types, GhostTypes, DeleteNow, Fault
<1>. QED  BY <1>2, <1>3, <1>4

LEMMA DeleteObjectTypes == ASSUME Types, DeleteObject PROVE Types'
<1>1. /\ phase = "delete" /\ step = "checked" /\ DeleteNow(current)
      /\ UNCHANGED <<plan, phase, entry, todo, checkedAt, runs>>
  BY DEF DeleteObject
<1>2. current \in Deletes
  BY <1>1 DEF Types, PhaseTypes
<1>3. /\ ServerTypes' /\ ResultTypes' /\ changes' \in [Objects -> Nat]
      /\ quiet' \in BOOLEAN /\ step' = "next"
  BY <1>1, <1>2, DeleteNowTypes
<1>4. PhaseTypes'
  BY <1>1, <1>3 DEF Types, PhaseTypes, entry
<1>5. GhostTypes'
  BY <1>1, <1>3 DEF Types, GhostTypes
<1>. QED  BY <1>1, <1>3, <1>4, <1>5, Kept DEF Types, plan, entry

LEMMA FetchTypes == ASSUME Types, Fetch PROVE Types'
<1>1. PhaseTypes'
  BY DEF Types, Fetch, Record, PhaseTypes
<1>2. EntryTypes'
  BY DEF Types, Fetch, EntryTypes, PhaseTypes, ServerTypes
<1>3. ResultTypes'
  <2>1. current \in Objects /\ (phase = "fix" => current \in Fixes)
    BY DEF Types, Fetch, PhaseTypes
  <2>2. \/ results' = results
        \/ phase = "fix" /\ results' = [results EXCEPT !.failedFix = @ \cup {current}]
        \/ results' = [results EXCEPT !.failedOther = @ \cup {current}]
    BY DEF Fetch, Record
  <2>. QED  BY <2>1, <2>2 DEF Types, ResultTypes, Results
<1>4. quiet' \in BOOLEAN
  BY DEF Types, Fetch, GhostTypes, Fault
<1>. QED  BY <1>1, <1>2, <1>3, <1>4, Kept DEF Types, Fetch, plan, ghosts

LEMMA ImportTypes == ASSUME Types, Import PROVE Types'
<1>1. PhaseTypes'
  BY DEF Types, Import, PhaseTypes
<1>2. EntryTypes'
  BY DEF Types, Import, EntryTypes
<1>3. ServerTypes' /\ changes' \in [Objects -> Nat]
  <2>1. Applied(current) \/ UNCHANGED <<server, changes>>
    BY DEF Import
  <2>2. CASE Applied(current)
    BY <2>2, AppliedTypes DEF Types, PhaseTypes
  <2>3. CASE UNCHANGED <<server, changes>>
    BY <2>3, Kept DEF Types, GhostTypes, server
  <2>. QED  BY <2>1, <2>2, <2>3
<1>4. GhostTypes'
  BY <1>3 DEF Types, Import, GhostTypes, Fault
<1>. QED  BY <1>1, <1>2, <1>3, <1>4, Kept DEF Types, Import, plan

\* What a verification records: a success it has seen, one it has not, or a failure.
Seen == [results EXCEPT !.succeeded = @ \cup {current}]
Unseen == [results EXCEPT !.succeeded = @ \cup {current}, !.unseen = @ \cup {current}]
NotVerified ==
    IF phase = "fix" THEN [results EXCEPT !.failedFix = @ \cup {current}]
                     ELSE [results EXCEPT !.failedOther = @ \cup {current}]

LEMMA VerifyRecords ==
  ASSUME Types, Verify
  PROVE  /\ step' = "next"
         /\ (results' = Seen /\ form[current] = "new") \/ results' \in {Unseen, NotVerified}
<1>1. step' = "next" /\ results \in Results
  BY DEF Verify, Record, Types, ResultTypes
<1>2. PICK reading \in Readings :
         results' = IF Success(apiOk, Verified(reading))
                    THEN [results EXCEPT !.succeeded = @ \cup {current},
                                         !.unseen = IF reading = "blind" THEN @ \cup {current}
                                                                         ELSE @]
                    ELSE NotVerified
  BY DEF Verify, Record, NotVerified
<1>3. CASE ~Verified(reading)
  BY <1>1, <1>2, <1>3 DEF Success
<1>4. CASE reading = "blind"
  BY <1>1, <1>2, <1>4 DEF Success, Verified, Unseen
<1>5. CASE Verified(reading) /\ reading # "blind"
  <2>1. results' = [results EXCEPT !.succeeded = @ \cup {current}, !.unseen = @]
    BY <1>2, <1>5 DEF Success
  <2>2. results' = Seen
    BY <1>1, <2>1 DEF Seen, Results
  <2>. QED  BY <1>1, <1>5, <2>2 DEF Verified, InForce
<1>. QED  BY <1>3, <1>4, <1>5

LEMMA VerifyTypes == ASSUME Types, Verify PROVE Types'
<1>1. PhaseTypes'
  BY DEF Types, Verify, Record, PhaseTypes, entry
<1>2. ResultTypes'
  <2>1. current \in Changed /\ current \in Objects /\ (phase = "fix" => current \in Fixes)
    BY DEF Types, Verify, PhaseTypes, Changed
  <2>2. results \in Results /\ results.guessed \subseteq results.deleted
        /\ results.unseen \subseteq results.succeeded
    BY DEF Types, ResultTypes
  <2>3. CASE results' = Seen
    BY <2>1, <2>2, <2>3 DEF Seen, ResultTypes, Results
  <2>4. CASE results' = Unseen
    <3>1. results' = [results EXCEPT !.succeeded = results.succeeded \cup {current},
                                     !.unseen = results.unseen \cup {current}]
      BY <2>4 DEF Unseen
    <3>. QED  BY <2>1, <2>2, <3>1 DEF ResultTypes, Results
  <2>5. CASE results' = NotVerified
    BY <2>1, <2>2, <2>5 DEF NotVerified, ResultTypes, Results
  <2>. QED  BY <2>3, <2>4, <2>5, VerifyRecords
<1>3. quiet' \in BOOLEAN
  BY DEF Types, Verify, GhostTypes, Fault
<1>. QED  BY <1>1, <1>2, <1>3, Kept DEF Types, Verify, plan, entry, ghosts

LEMMA DeleteSetTypes == ASSUME Types, NEW k \in Objects, DeleteSet(k) PROVE Types'
<1>1. /\ phase = "sets" /\ step = "next" /\ k \in todo /\ todo' = todo \ {k} /\ current' = k
      /\ UNCHANGED <<plan, phase, body, apiOk, checkedAt, runs>>
  BY DEF DeleteSet
<1>2. k \in Sets
  BY <1>1 DEF Types, PhaseTypes
<1>3. /\ ServerTypes' /\ ResultTypes' /\ changes' \in [Objects -> Nat]
      /\ quiet' \in BOOLEAN /\ step' = "next"
  <2>1. CASE MayDeleteSet(k)
    BY <1>1, <1>2, <2>1, DeleteNowTypes DEF DeleteSet
  <2>2. CASE ~MayDeleteSet(k)
    <3>1. /\ Record([results EXCEPT !.skipped = @ \cup {k}])
          /\ UNCHANGED <<server, changes, quiet>>
      BY <2>2 DEF DeleteSet
    <3>. QED  BY <3>1, Kept DEF Types, Record, ResultTypes, Results, GhostTypes, server
  <2>. QED  BY <2>1, <2>2
<1>4. PhaseTypes'
  BY <1>1, <1>3 DEF Types, PhaseTypes
<1>5. GhostTypes'
  BY <1>1, <1>3 DEF Types, GhostTypes
<1>. QED  BY <1>1, <1>3, <1>4, <1>5, Kept DEF Types, plan

LEMMA StartRollbackTypes == ASSUME Types, StartRollback PROVE Types'
<1>1. PlanTypes'
  BY DEF Types, StartRollback, PlanTypes
<1>2. PhaseTypes'
  BY DEF Types, StartRollback, PhaseTypes, Phases, Objects, Checked, Changed
<1>3. EntryTypes' /\ ResultTypes'
  BY DEF StartRollback, EntryTypes, ResultTypes, Results, NoResults
<1>4. GhostTypes'
  BY DEF Types, StartRollback, GhostTypes
<1>. QED  BY <1>1, <1>2, <1>3, <1>4, Kept DEF Types, StartRollback

LEMMA RestoreEntryTypes == ASSUME Types, NEW o \in Objects, RestoreEntry(o) PROVE Types'
<1>1. /\ phase = "rollback" /\ o \in todo /\ todo' = todo \ {o}
      /\ Restored(o) \/ UNCHANGED server
      /\ results' \in {results, RestoreFailed(o)}
      /\ UNCHANGED <<plan, phase, step, entry, ghosts, runs>>
  BY DEF RestoreEntry
<1>2. ServerTypes'
  <2>1. CASE Restored(o)
    <3>1. backup[o] \in {0, 1}
      BY <1>1 DEF Types, PhaseTypes, PlanTypes
    <3>. QED  BY <2>1, <3>1 DEF Types, Restored, ServerTypes
  <2>. QED  BY <1>1, <2>1, Kept
<1>3. PhaseTypes'
  BY <1>1 DEF Types, PhaseTypes, entry
<1>4. ResultTypes'
  BY <1>1 DEF Types, ResultTypes, Results, RestoreFailed
<1>5. quiet' \in BOOLEAN
  BY DEF Types, RestoreEntry, GhostTypes, Fault
<1>. QED  BY <1>1, <1>2, <1>3, <1>4, <1>5, Kept DEF Types, plan, entry, ghosts

LEMMA FinishRollbackTypes == ASSUME Types, FinishRollback PROVE Types'
<1>1. PlanTypes'
  BY PlanKept DEF FinishRollback, plan
<1>2. PhaseTypes'
  BY DEF Types, FinishRollback, PhaseTypes, Phases, entry
<1>3. quiet' \in BOOLEAN
  BY DEF Types, FinishRollback, GhostTypes
<1>. QED  BY <1>1, <1>2, <1>3, Kept DEF Types, FinishRollback, entry, ghosts

LEMMA KillTypes == ASSUME Types, Kill PROVE Types'
<1>1. PlanTypes'
  BY PlanKept DEF Kill, plan
<1>2. PhaseTypes'
  BY DEF Types, Kill, PhaseTypes, Phases, entry
<1>3. ResultTypes'
  BY DEF Kill, ResultTypes, Results, NoResults
<1>4. ServerTypes' /\ changes' \in [Objects -> Nat]
  <2>1. Applied(current) \/ Removed(current) \/ UNCHANGED <<server, changes>>
    BY DEF Kill
  <2>2. current \in Objects
    BY DEF Types, PhaseTypes
  <2>3. CASE UNCHANGED <<server, changes>>
    BY <2>3, Kept DEF Types, GhostTypes, server
  <2>. QED  BY <2>1, <2>2, <2>3, AppliedTypes, RemovedTypes
<1>5. GhostTypes'
  BY <1>4 DEF Types, Kill, GhostTypes, Fault
<1>. QED  BY <1>1, <1>2, <1>3, <1>4, <1>5, Kept DEF Types, Kill, entry

LEMMA TenantEditsTypes == ASSUME Types, NEW o \in Objects, TenantEdits(o) PROVE Types'
<1>1. ServerTypes'
  BY DEF Types, TenantEdits, ServerTypes
<1>2. quiet' \in BOOLEAN
  BY DEF Types, TenantEdits, GhostTypes, Fault
<1>. QED  BY <1>1, <1>2, Kept DEF Types, TenantEdits, plan, entry, ghosts

LEMMA NextTypes == ASSUME Types, [Next]_vars PROVE Types'
<1>1. CASE UNCHANGED vars
  BY <1>1, Kept DEF Types, GhostTypes, vars, server
<1>. QED
  BY <1>1, ScanTypes, BackUpTypes, StartRunTypes, PhaseOverTypes, CheckTypes, TakeSourceTypes,
     DeleteObjectTypes, FetchTypes, ImportTypes, VerifyTypes, DeleteSetTypes,
     StartRollbackTypes, RestoreEntryTypes, FinishRollbackTypes, KillTypes, TenantEditsTypes
  DEF Next

LEMMA TypesInvariant == Spec => []Types
<1>1. Init => Types
  BY InitTypes
<1>2. Types /\ [Next]_vars => Types'
  BY NextTypes
<1>. QED  BY <1>1, <1>2, PTL DEF Spec

\* However a plan is run, killed, run again and undone, the lists of a report hold only
\* objects of their kind, the backup is complete before anything is changed, and an entry is
\* at work only in a phase that has entries of its kind.  (apply_change_cmd, rollback_cmd)
THEOREM TypeCorrect == Spec => []TypeOK
<1>1. Types => TypeOK
  BY TypesGiveTypeOK
<1>. QED  BY <1>1, TypesInvariant, PTL
=============================================================================
