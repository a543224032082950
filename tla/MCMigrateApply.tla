---------------------------- MODULE MCMigrateApply ----------------------------
(***************************************************************************)
(* A small tenant for MigrateApply: a View v, an Answer c on the Model, an *)
(* Answer x on both, and an Answer s that the View shields.                *)
(***************************************************************************)
EXTENDS MigrateApply, TLC

CONSTANTS v, c, x, s, Finance, HR

MCViews == {v}
MCContent == {c, x, s}
MCOnModel == {c, x}
MCUses == (c :> {}) @@ (x :> {v}) @@ (s :> {v})
MCFromEnd == (v :> 4) @@ (c :> 3) @@ (x :> 2) @@ (s :> 1)
MCGroups == {Finance, HR}
MCGrants == (v :> {}) @@ (c :> {Finance}) @@ (x :> {Finance, HR}) @@ (s :> {HR})

MCNames == (v :> "view") @@ (c :> "sales") @@ (x :> "mixed") @@ (s :> "shielded")
MCLate == {x}
=============================================================================
