----------------------------- MODULE MCEventLog -----------------------------
(* Instances of EventLog for TLC.                                          *)
EXTENDS EventLog

CONSTANTS e1, e2, e3, o1, o2

\* Two events in one batch, then a gap marker.
MCFeed == <<e1, e2, Gap>>

\* Two events and nothing else.
MCTwo == <<e1, e2>>

=============================================================================
