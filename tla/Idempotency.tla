---------------------------- MODULE Idempotency ----------------------------
(***************************************************************************)
(* Retries of one tools/call under one (scope, idempotency key): the       *)
(* KV-backed idempotency store (runtime/idempotency/kv_store.rs) driven by *)
(* the direct-call path of the tools/call handler                          *)
(* (runtime/handlers/tools_call.rs), on any number of replicas sharing one *)
(* key-value store (builtins/cluster_primitives/memory.rs).                *)
(*                                                                         *)
(* Every call of the key-value store is a step of its own, so a record     *)
(* read by one request may be stale when it is written back.               *)
(*                                                                         *)
(* Abstractions.  The storage key is fixed, so the scope check of          *)
(* read_record always succeeds.  A request hash is a member of Body.  An   *)
(* envelope is the request whose dispatch produced it.  reservation_id and *)
(* created_at are written and never read back, so they are left out.  One  *)
(* tick of `now' is the millisecond remaining_ttl clamps to.               *)
(***************************************************************************)
EXTENDS Naturals

CONSTANTS
    Request,    \* the calls that carry the key: the first one and its retries
    Body,       \* request hashes
    ZeroHash,   \* the all-zero hash complete() writes when the record is gone
    BodyOf,     \* the body each request carries
    Oversize,   \* requests whose assembled envelope is over the payload cap
    NoRecord,   \* no record under the storage key
    NoOutcome,  \* no envelope in the record
    Ttl,        \* policy.default_ttl_ms
    MaxNow,     \* bound on the clock
    LazyPurge,  \* get() removes an expired entry in a second step
    KvFaults    \* a call of the store may fail

ASSUME ConstantsAssumption ==
    /\ BodyOf \in [Request -> Body]
    /\ ZeroHash \notin Body
    /\ Oversize \subseteq Request
    /\ NoOutcome \notin Request
    /\ Ttl \in Nat \ {0}
    /\ MaxNow \in Nat
    /\ LazyPurge \in BOOLEAN
    /\ KvFaults \in BOOLEAN

\* The bounded claim loop of reserve_or_get.
ClaimTries == 3

Record == [state     : {"in_flight", "completed"},
           hash      : Body \cup {ZeroHash},
           outcome   : Request \cup {NoOutcome},
           truncated : BOOLEAN,
           expiresAt : Nat,
           replays   : Nat]

ASSUME NoRecordAssumption == NoRecord \notin Record

VARIABLES
    now,        \* the clock
    kv,         \* the record stored under the key, or NoRecord
    deadline,   \* when the stored entry expires
    pc,         \* where each request is
    purge,      \* requests inside get(), about to remove an expired entry
    snap,       \* the record each request last read or built
    tries,      \* failed claims of each request
    reserved,   \* idempotency_reserved of the handler
    dispatched, \* requests whose tool call has run
    marked,     \* history: a truncation marker has been written
    answer      \* what each request was answered, and from whose envelope

vars == <<now, kv, deadline, pc, purge, snap, tries, reserved, dispatched,
          marked, answer>>

Pc == {"peek", "bump_peek", "gates", "reserve", "bump_reserve", "claim",
       "classify", "dispatch", "complete", "complete_put", "done"}

Answer == [kind : {"none", "fresh", "replay", "in_flight", "conflict", "denied"},
           from : Request \cup {NoOutcome}]

Init ==
    /\ now = 0
    /\ kv = NoRecord
    /\ deadline = 0
    /\ pc = [r \in Request |-> "peek"]
    /\ purge = {}
    /\ snap = [r \in Request |-> NoRecord]
    /\ tries = [r \in Request |-> 0]
    /\ reserved = {}
    /\ dispatched = {}
    /\ marked = FALSE
    /\ answer = [r \in Request |-> [kind |-> "none", from |-> NoOutcome]]

-----------------------------------------------------------------------------
(* The key-value store.                                                    *)

\* The entry is expired when its deadline is reached.
Live == kv # NoRecord /\ deadline > now

\* What get() returns.
Seen == IF Live THEN kv ELSE NoRecord

\* get() of an expired entry: the entry guard is dropped before the entry is
\* removed, so the removal is a later step of the same request.
Get(r) ==
    purge' = IF LazyPurge /\ kv # NoRecord /\ ~Live THEN purge \cup {r} ELSE purge

Purge(r) ==
    /\ r \in purge
    /\ purge' = purge \ {r}
    /\ kv' = NoRecord
    /\ UNCHANGED <<now, deadline, pc, snap, tries, reserved, dispatched, marked, answer>>

\* put(): the last writer wins.
Put(record, ttl) ==
    /\ kv' = record
    /\ deadline' = now + ttl

\* A put whose caller ignores the result: it is applied, or it fails.
BestEffortPut(record, ttl) ==
    \/ Put(record, ttl)
    \/ KvFaults /\ UNCHANGED <<kv, deadline>>

RemainingTtl(record) ==
    IF record.expiresAt > now THEN record.expiresAt - now ELSE 1

-----------------------------------------------------------------------------
(* The requests.                                                           *)

At(r, place) == pc[r] = place /\ r \notin purge

Goto(r, place) == pc' = [pc EXCEPT ![r] = place]

\* A terminal response.
Finish(r, kind, from) ==
    /\ Goto(r, "done")
    /\ answer' = [answer EXCEPT ![r] = [kind |-> kind, from |-> from]]

Continue(r, place) == Goto(r, place) /\ UNCHANGED answer

Keep(r, record) == snap' = [snap EXCEPT ![r] = record]

\* The answer to a record found under the key that is not a replay.
Refuse(r, record) ==
    \/ /\ record.hash # BodyOf[r]
       /\ Finish(r, "conflict", NoOutcome)
    \/ /\ record.hash = BodyOf[r]
       /\ record.state = "in_flight"
       /\ Finish(r, "in_flight", NoOutcome)

\* Mutants: the body is not compared; the state is not looked at.
ReplayableAnyBody(r, record) == record.state = "completed"

ReplayableAnyState(r, record) == record.hash = BodyOf[r]

Replayable(r, record) == record.hash = BodyOf[r] /\ record.state = "completed"

\* peek(): the read.  A failed peek proceeds without dedupe.
Peek(r) ==
    /\ At(r, "peek")
    /\ Get(r)
    /\ \/ /\ Seen = NoRecord \/ KvFaults
          /\ Continue(r, "gates")
          /\ UNCHANGED snap
       \/ /\ Seen # NoRecord
          /\ \/ Refuse(r, Seen) /\ UNCHANGED snap
             \/ Replayable(r, Seen) /\ Continue(r, "bump_peek") /\ Keep(r, Seen)
    /\ UNCHANGED <<now, kv, deadline, tries, reserved, dispatched, marked>>

\* Mutant: the counter counts down.
BumpedDown(record) == [record EXCEPT !.replays = @ - 1]

Bumped(record) == [record EXCEPT !.replays = @ + 1]

\* peek(): the replay counter is written back, then the handler decides.  A
\* truncation marker and a replay the policy does not allow fall through to
\* the gates; re-validation may deny.
BumpPeek(r) ==
    /\ At(r, "bump_peek")
    /\ BestEffortPut(Bumped(snap[r]), RemainingTtl(snap[r]))
    /\ \/ Continue(r, "gates")
       \/ Finish(r, "denied", NoOutcome)
       \/ ~snap[r].truncated /\ Finish(r, "replay", snap[r].outcome)
    /\ UNCHANGED <<now, purge, snap, tries, reserved, dispatched, marked>>

\* The policy, quota and plugin gates between the peek and the reservation.
Gates(r) ==
    /\ At(r, "gates")
    /\ Continue(r, "reserve") \/ Finish(r, "denied", NoOutcome)
    /\ UNCHANGED <<now, kv, deadline, purge, snap, tries, reserved, dispatched, marked>>

\* The record reserve_or_get tries to claim the slot with.
Reservation(r) == [state |-> "in_flight", hash |-> BodyOf[r],
                   outcome |-> NoOutcome, truncated |-> FALSE,
                   expiresAt |-> now + Ttl, replays |-> 0]

\* reserve_or_get(), first phase: read.  A failed reservation proceeds to the
\* dispatch without dedupe.
ReserveRead(r) ==
    /\ At(r, "reserve")
    /\ Get(r)
    /\ \/ KvFaults /\ Continue(r, "dispatch") /\ UNCHANGED snap
       \/ Seen = NoRecord /\ Continue(r, "claim") /\ Keep(r, Reservation(r))
       \/ /\ Seen # NoRecord
          /\ \/ Refuse(r, Seen) /\ UNCHANGED snap
             \/ Replayable(r, Seen) /\ Continue(r, "bump_reserve") /\ Keep(r, Seen)
    /\ UNCHANGED <<now, kv, deadline, tries, reserved, dispatched, marked>>

\* A completed record found by reserve_or_get: replayed, unless it is a
\* truncation marker, which is treated as a reservation of this request.
ReplayOrRerun(r, record) ==
    \/ /\ ~record.truncated
       /\ Finish(r, "replay", record.outcome)
       /\ UNCHANGED reserved
    \/ /\ record.truncated
       /\ Continue(r, "dispatch")
       /\ reserved' = reserved \cup {r}

BumpReserve(r) ==
    /\ At(r, "bump_reserve")
    /\ BestEffortPut(Bumped(snap[r]), RemainingTtl(snap[r]))
    /\ ReplayOrRerun(r, snap[r])
    /\ UNCHANGED <<now, purge, snap, tries, dispatched, marked>>

\* Mutant: a plain put takes the slot, whatever is in it.
ClaimBlind(r) ==
    /\ At(r, "claim")
    /\ Put(snap[r], Ttl)
    /\ Continue(r, "dispatch")
    /\ reserved' = reserved \cup {r}
    /\ UNCHANGED <<now, purge, snap, tries, dispatched, marked>>

\* reserve_or_get(), second phase: put_if_absent.  An expired incumbent counts
\* as absent.  A failed call may have been applied.
Claim(r) ==
    /\ At(r, "claim")
    /\ \/ /\ ~Live
          /\ Put(snap[r], Ttl)
          /\ Continue(r, "dispatch")
          /\ reserved' = reserved \cup {r}
       \/ /\ Live
          /\ Continue(r, "classify")
          /\ UNCHANGED <<kv, deadline, reserved>>
       \/ /\ KvFaults
          /\ UNCHANGED <<kv, deadline>> \/ (~Live /\ Put(snap[r], Ttl))
          /\ Continue(r, "dispatch")
          /\ UNCHANGED reserved
    /\ UNCHANGED <<now, purge, snap, tries, dispatched, marked>>

\* reserve_or_get(): the read that classifies the record that won.  No record
\* is a lost race with its expiry: claim again, at most ClaimTries times.
Classify(r) ==
    /\ At(r, "classify")
    /\ Get(r)
    /\ \/ /\ KvFaults
          /\ Continue(r, "dispatch")
          /\ UNCHANGED <<tries, reserved>>
       \/ /\ Seen = NoRecord
          /\ tries' = [tries EXCEPT ![r] = @ + 1]
          /\ IF tries'[r] < ClaimTries
             THEN Continue(r, "claim")
             ELSE Finish(r, "in_flight", NoOutcome)
          /\ UNCHANGED reserved
       \/ /\ Seen # NoRecord
          /\ \/ Refuse(r, Seen) /\ UNCHANGED reserved
             \/ Replayable(r, Seen) /\ ReplayOrRerun(r, Seen)
          /\ UNCHANGED tries
    /\ UNCHANGED <<now, kv, deadline, snap, dispatched, marked>>

\* The tool runs.  A post-dispatch gate may refuse the result, and the handler
\* then returns without completing the reservation.
Dispatch(r) ==
    /\ At(r, "dispatch")
    /\ dispatched' = dispatched \cup {r}
    /\ \/ r \in reserved /\ Continue(r, "complete")
       \/ r \notin reserved /\ Finish(r, "fresh", r)
       \/ Finish(r, "denied", NoOutcome)
    /\ UNCHANGED <<now, kv, deadline, purge, snap, tries, reserved, marked>>

\* The assembled envelope is larger than the payload cap.
OverCap(r) == r \in Oversize

\* complete(): the record the outcome is written into.
Completed(r, found) ==
    IF found = NoRecord
    THEN [state |-> "completed", hash |-> ZeroHash, outcome |-> r,
          truncated |-> OverCap(r), expiresAt |-> now + Ttl, replays |-> 0]
    ELSE [found EXCEPT !.state = "completed", !.outcome = r,
                       !.truncated = OverCap(r)]

\* complete(): the read.  Its failure is logged and the call succeeds.
CompleteRead(r) ==
    /\ At(r, "complete")
    /\ Get(r)
    /\ \/ KvFaults /\ Finish(r, "fresh", r) /\ UNCHANGED snap
       \/ Continue(r, "complete_put") /\ Keep(r, Completed(r, Seen))
    /\ UNCHANGED <<now, kv, deadline, tries, reserved, dispatched, marked>>

\* complete(): the write, whoever holds the reservation by now.
CompletePut(r) ==
    /\ At(r, "complete_put")
    /\ BestEffortPut(snap[r], RemainingTtl(snap[r]))
    /\ marked' = (marked \/ OverCap(r))
    /\ Finish(r, "fresh", r)
    /\ UNCHANGED <<now, purge, snap, tries, reserved, dispatched>>

\* The replica stops, or the client goes away and the handler is dropped.
Drop(r) ==
    /\ pc[r] # "done"
    /\ Goto(r, "done")
    /\ purge' = purge \ {r}
    /\ UNCHANGED <<now, kv, deadline, snap, tries, reserved, dispatched, marked, answer>>

Tick ==
    /\ now < MaxNow
    /\ now' = now + 1
    /\ UNCHANGED <<kv, deadline, pc, purge, snap, tries, reserved, dispatched,
                   marked, answer>>

Step(r) ==
    \/ Peek(r) \/ BumpPeek(r) \/ Gates(r)
    \/ ReserveRead(r) \/ BumpReserve(r) \/ Claim(r) \/ Classify(r)
    \/ Dispatch(r) \/ CompleteRead(r) \/ CompletePut(r)
    \/ Purge(r)

Next == Tick \/ \E r \in Request : Step(r) \/ Drop(r)

Spec == Init /\ [][Next]_vars

-----------------------------------------------------------------------------
(* Properties.                                                             *)

\* Every variable stays within its range.
TypeOK ==
    /\ now \in Nat
    /\ kv \in Record \cup {NoRecord}
    /\ deadline \in Nat
    /\ pc \in [Request -> Pc]
    /\ purge \subseteq Request
    /\ snap \in [Request -> Record \cup {NoRecord}]
    /\ tries \in [Request -> Nat]
    /\ reserved \subseteq Request
    /\ dispatched \subseteq Request
    /\ marked \in BOOLEAN
    /\ answer \in [Request -> Answer]

\* Until the first reservation can have expired, and unless an over-cap result
\* replaced its record by a truncation marker, at most one of the requests that
\* dispatch under a reservation does so: whatever the interleaving of peeks,
\* claims, replay-count writes, completions, failed calls and dropped handlers.
SingleDispatch ==
    now < Ttl /\ ~marked =>
        \A r, s \in reserved \cap dispatched : r = s

\* In that window every replayed envelope is the envelope of a request that
\* dispatched under a reservation and that had the body of the replayed request.
ReplayIsTheDispatch ==
    now < Ttl /\ ~marked =>
        \A r \in Request : answer[r].kind = "replay" =>
            /\ answer[r].from \in reserved \cap dispatched
            /\ BodyOf[answer[r].from] = BodyOf[r]

\* At any time, an envelope that is replayed was produced by a dispatch: no
\* write of a stale or re-created record invents one.
ReplayOnlyDispatched ==
    \A r \in Request :
        answer[r].kind = "replay" => answer[r].from \in dispatched

\* In the first window an outcome, once stored, stays the stored outcome: the
\* replay-count writes of stale snapshots and the completions of other requests
\* never take it back or replace it.
OutcomeSticks ==
    [][ (now' < Ttl /\ ~marked' /\ kv # NoRecord /\ kv.state = "completed") =>
          /\ kv' # NoRecord
          /\ kv'.state = "completed"
          /\ kv'.outcome = kv.outcome ]_vars

-----------------------------------------------------------------------------
(* The inductive invariant behind the properties above.                    *)

\* What a request holds in its snapshot, by where it is.  An envelope in a
\* record or a snapshot comes from a dispatch.
SnapOK ==
    /\ kv # NoRecord /\ kv.state = "completed" => kv.outcome \in dispatched
    /\ \A r \in Request :
        /\ pc[r] \in {"bump_peek", "bump_reserve"} =>
            snap[r] # NoRecord /\ snap[r].state = "completed"
        /\ pc[r] \in {"claim", "classify", "complete_put"} => snap[r] # NoRecord
        /\ pc[r] \in {"complete", "complete_put"} => r \in dispatched
        /\ snap[r] # NoRecord /\ snap[r].state = "completed" =>
            snap[r].outcome \in dispatched

\* A completed record of the first window: the outcome of the reserved request.
Authentic(record) ==
    /\ record.outcome \in reserved \cap dispatched
    /\ record.hash = BodyOf[record.outcome]
    /\ ~record.truncated

\* No get() is about to purge; one request at most is reserved; the record
\* under the key is its record; and every snapshot is one it wrote.
OneReservation ==
    /\ purge = {}
    /\ \A r, s \in reserved : r = s
    /\ kv # NoRecord =>
        /\ deadline >= Ttl
        /\ kv.expiresAt >= Ttl
        /\ kv.state = "completed" => Authentic(kv)
    /\ \A r \in reserved : kv # NoRecord /\ kv.hash = BodyOf[r]
    /\ \A r \in Request :
        /\ snap[r] # NoRecord => snap[r].expiresAt >= Ttl
        /\ pc[r] \in {"bump_peek", "bump_reserve"} =>
            Authentic(snap[r]) /\ snap[r].hash = BodyOf[r]
        /\ pc[r] \in {"claim", "classify"} =>
            snap[r].state = "in_flight" /\ snap[r].hash = BodyOf[r]
        /\ pc[r] \in {"complete", "complete_put"} => r \in reserved
        /\ pc[r] = "complete_put" =>
            /\ snap[r].state = "completed"
            /\ snap[r].outcome = r
            /\ snap[r].hash = BodyOf[r]
            /\ snap[r].truncated = OverCap(r)

\* ... while no record can have expired and no truncation marker was written.
FirstWindow == now < Ttl /\ ~marked => OneReservation

IInv == TypeOK /\ SnapOK /\ FirstWindow /\ ReplayIsTheDispatch /\ ReplayOnlyDispatched

=============================================================================
