----------------------------- MODULE MCWebhooks -----------------------------
(* Webhooks on a small instance.                                           *)
EXTENDS Webhooks, TLC

Symmetry == Permutations(Replica)
=============================================================================
