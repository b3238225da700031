---------------------------- MODULE MCEventInbox ----------------------------
(* Instances of EventInbox for TLC.                                        *)
EXTENDS EventInbox

CONSTANTS s1, s2, s3, a, b

MCHomeOf == s1 :> a @@ s2 :> a @@ s3 :> b

=============================================================================
