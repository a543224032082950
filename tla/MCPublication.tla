---------------------------- MODULE MCPublication ----------------------------
(***************************************************************************)
(* Small instances of Publication: a Model t on two Tables, with different *)
(* schemas or with the same, and a Model u on a Table with another.        *)
(***************************************************************************)
EXTENDS Publication, TLC

CONSTANTS t, u, f, g, h, sales, ref, mine, org1

MCFieldsOf == [x \in Targets |-> IF x = t THEN {f, g} ELSE {h}]
MCStatic == [x \in Fields |-> IF x = g THEN ref ELSE sales]
MCOneEach == [x \in Fields |-> IF x = h THEN ref ELSE sales]
MCGiven == (org1 :> mine)
=============================================================================
