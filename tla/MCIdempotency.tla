-------------------------- MODULE MCIdempotency --------------------------
(* Small instances of Idempotency for TLC.                                 *)
EXTENDS Idempotency, TLC

CONSTANTS r1, r2, r3, b1, b2

\* Two retries of one body and a call that reuses the key with another body.
MCBodyOf == (r1 :> b1) @@ (r2 :> b1) @@ (r3 :> b2)

==========================================================================
