--------------------------- MODULE MigrationPromise ---------------------------
(***************************************************************************)
(* What `ts migrate` promises a tenant, without steps, ledgers, resumes or *)
(* crashes (docs/superpowers/specs/2026-07-15-ts-org-migrate-design.md):   *)
(* the tenant's own objects are never deleted; an object is rewritten in   *)
(* place only once it is saved, and what is saved stays; copies appear in  *)
(* whole batches, each bound to copies that are already there, and go only *)
(* when nothing reads them; a group is given only what it had; success is  *)
(* claimed only of a migration that is done.  What an export leaves out    *)
(* without a word is overlooked: those objects are promised less.          *)
(***************************************************************************)
CONSTANTS
    Views, Content, LateObjects, OnModel, Uses, GrantsOf, SameOrg

VARIABLES
    originals,   \* the tenant's own objects
    saved,       \* those of which a copy from before the migration is on disk
    rewritten,   \* those that have been rewritten in place
    overlooked,  \* objects that the exports left out, and the Views of such content
    copies,      \* <<object, n>>: what the target Org has been given
    reads,       \* [copies -> sets of <<View, n>>]
    grants,      \* {<<copy, group>>} on content
    told         \* what the operator was last told

tenant == <<originals, saved, rewritten>>
given == <<copies, reads, grants>>
vars == <<originals, saved, rewritten, overlooked, copies, reads, grants, told>>

Claims == {"migrated", "rolled_back"}

\* A step that does something makes no claim.
NoClaim == told' = told \/ told' \notin Claims

Init ==
    /\ originals = (Views \cup Content) \ LateObjects
    /\ rewritten \subseteq saved
    /\ overlooked = {}
    /\ copies = {} /\ reads = [g \in {} |-> {}] /\ grants = {}
    /\ told = "none"

TenantAdds ==
    /\ originals \subseteq originals' /\ originals' \subseteq originals \cup LateObjects
    /\ NoClaim
    /\ UNCHANGED <<saved, rewritten, overlooked, given>>

\* An export leaves something out.
Overlook ==
    /\ overlooked \subseteq overlooked'
    /\ NoClaim
    /\ UNCHANGED <<tenant, given>>

Save ==
    /\ saved \ overlooked \subseteq saved'
    /\ (saved' \ saved) \cap rewritten = {}
    /\ NoClaim
    /\ UNCHANGED <<originals, rewritten, overlooked, given>>

RewriteInPlace ==
    /\ SameOrg
    /\ rewritten \subseteq rewritten' /\ rewritten' \subseteq saved \cup overlooked
    /\ NoClaim
    /\ UNCHANGED <<originals, saved, overlooked, given>>

\* g reads a copy of each View that its original reads, or the original if that
\* View was overlooked.
There(v) == v \in copies \/ (v[2] = 0 /\ v[1] \in overlooked)
Whole(g) == (\A v \in reads[g] : There(v)) /\ {v[1] : v \in reads[g]} = Uses[g[1]]

\* One batch, each object once; what it reads was there before it.
CopyOver ==
    LET new == copies' \ copies
    IN  /\ ~SameOrg
        /\ copies \subseteq copies'
        /\ \A g, h \in new : g[1] = h[1] => g = h
        /\ \A g \in new : /\ g[1] \in originals
                          /\ reads'[g] \cap new = {}
                          /\ g[1] \in Content => Whole(g)'
        /\ \A g \in copies : reads'[g] = reads[g]
        /\ overlooked \subseteq overlooked'
        /\ NoClaim
        /\ UNCHANGED <<tenant, grants>>

ShareWith ==
    /\ grants \subseteq grants'
    /\ \A x \in grants' \ grants : x[1] \in copies /\ x[2] \in GrantsOf[x[1][1]]
    /\ NoClaim
    /\ UNCHANGED <<tenant, overlooked, copies, reads>>

Withdraw ==
    /\ copies' \subseteq copies
    /\ \A g \in copies' : reads'[g] = reads[g] /\ reads[g] \cap copies \subseteq copies'
    /\ grants' = {x \in grants : x[1] \in copies'}
    /\ NoClaim
    /\ UNCHANGED <<tenant, overlooked>>

Early == (Views \cup Content) \ LateObjects

\* A View, and content that only Views bind, may have been overlooked altogether.
Surely == IF SameOrg THEN OnModel \cup (Views \ overlooked)
          ELSE OnModel \cup ((Views \cup Content) \ overlooked)

Done ==
    IF SameOrg
    THEN Early \cap Surely \subseteq rewritten
    ELSE \A o \in Early \cap Surely :
            \E g \in copies : g[1] = o /\ (o \in Content => Whole(g))

Tell ==
    /\ told' = "migrated" => Done
    /\ told' = "rolled_back" => ~SameOrg
    /\ UNCHANGED <<tenant, overlooked, given>>

Next ==
    \/ TenantAdds \/ Overlook \/ Save \/ RewriteInPlace \/ CopyOver \/ ShareWith
    \/ Withdraw \/ Tell

Spec == Init /\ [][Next]_vars
=============================================================================
