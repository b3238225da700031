--------------------------- MODULE AppendOnlyLog ---------------------------
(***************************************************************************)
(* What the readers of one event log are promised (header of               *)
(* runtime/events/log.rs): the committed rows are a sequence that only     *)
(* grows at its end, "a row never changes once written", and the floor     *)
(* under which rows may be gone only moves up, never past the head.        *)
(***************************************************************************)
EXTENDS Naturals, Sequences, SequencesExt

VARIABLES
    log,    \* every row committed so far, in order
    floor   \* the lowest sequence number still retained

Init == log = <<>> /\ floor = 1

\* Rows are committed after the ones before.
Extend ==
    /\ IsStrictPrefix(log, log')
    /\ UNCHANGED floor

\* The oldest rows are given up.
Truncate ==
    /\ floor' \in (floor + 1) .. (Len(log) + 1)
    /\ UNCHANGED log

Next == Extend \/ Truncate

Spec == Init /\ [][Next]_<<log, floor>>

=============================================================================
