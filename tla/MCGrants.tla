------------------------------ MODULE MCGrants ------------------------------
(* Instances of Grants for model checking. *)
EXTENDS Grants, TLC

CONSTANTS r1, r2, r3, r4, p1, p2

\* Of the requests that follow the redemption of the code, two run on one
\* replica and one on the other.
TwoReplicas == [r \in Request |-> IF r \in {r1, r3} THEN p1 ELSE p2]
=============================================================================
