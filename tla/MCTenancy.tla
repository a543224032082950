------------------------------- MODULE MCTenancy -------------------------------
(***************************************************************************)
(* Small instances of Tenancy: a tenant acme with two Orgs and a tenant    *)
(* beta with one, from one template, with a common group of Primary, whose *)
(* name beta's Org has too.  A user of acme is in two Orgs and Primary, one *)
(* of beta in Primary alone.                                               *)
(***************************************************************************)
EXTENDS Tenancy, TLC

CONSTANTS acme, beta, a1, a2, b, Analyst, Sales, ann, bob

MCSpec(t) ==
    IF t = acme
    THEN [orgs |-> {a1, a2},
          groups |-> {<<Primary, Analyst>>, <<a2, Sales>>},
          users |-> (ann :> {Primary, a1, a2}),
          members |-> {<<<<Primary, Analyst>>, ann>>, <<<<a2, Sales>>, ann>>}]
    ELSE [orgs |-> {b},
          groups |-> {<<Primary, Analyst>>, <<b, Analyst>>},
          users |-> (bob :> {Primary}),
          members |-> {<<<<Primary, Analyst>>, bob>>}]

MCOthers == {b, ann, <<Primary, Analyst>>}

MCChanges == [t \in Tenants |-> IF t = acme THEN 2 ELSE 1]

MCTwoTenants == [t \in Tenants |-> MCSpec(t)]

\* tools/fixtures/tenancy-reference.yaml: the same group name in every tenant Org
MCSameGroupName ==
    [t \in Tenants |->
        [orgs |-> {a1, a2}, groups |-> {<<a1, Sales>>, <<a2, Sales>>},
         users |-> (ann :> {Primary, a1, a2}),
         members |-> {<<<<a1, Sales>>, ann>>, <<<<a2, Sales>>, ann>>}]]
=============================================================================
