# TLA+ models of mcpg

mcpg is a gateway that serves MCP over several transports in front of tools, upstream
MCP servers, HTTP backends and command lines. Replicas of it share nothing but a
*cluster backend*: a key-value store with `put_if_absent`, `incr`, TTLs and leases, and
a publish/subscribe channel. Almost everything that has to be true of the fleet as a
whole (a retried call runs once, a cap holds, an event is delivered, one replica reaps)
is built out of single calls of that store with crashes and other replicas in between.
That is where tests hardly reach, and it is what these modules are about.

Paths below are relative to `src/src/`.

## Inventory

| Part | State | Operations | Hard behaviour | What makes it correct |
|---|---|---|---|---|
| Idempotency store (`runtime/idempotency/kv_store.rs`) and the direct call path of `runtime/handlers/tools_call.rs` | one record per (scope, key): hash, state, envelope, truncation flag, expiry, replay count | `peek`, `reserve_or_get`, `complete`, around the gates and the dispatch | read-then-write over a shared store, expiry under a running call, failed calls, dropped handlers | one dispatch per reservation lifetime; a replay is the envelope of that dispatch for that body; a stored outcome stays |
| In-memory store (`builtins/cluster_primitives/memory.rs`) | entries with deadlines | `get`, `put`, `put_if_absent`, `delete`, `expire`, `incr`, `list_page`, purge | `get` of an expired entry removes it in a second step | `put_if_absent` has one winner per lifetime |
| Fleet semaphore (`runtime/fleet_semaphore.rs`) | slot keys in the store; local semaphores, held keys and the full mark of each replica | `try_acquire`, `acquire_within`, drop of a permit, refresh pass, prune | futures dropped between the put and the permit, refresh of a released key, late refresh, deletes tried again, restarts | never more than `max` permits; an abandoned slot comes free |
| Event log writer (`runtime/events/log.rs`) | rows, head, floor, dedup markers, drained count | `append`, `append_many`, `append_marker`, `write_row`, `commit_marked`, `enforce_retention` | a writer stops between rows, head and markers; operations that outlive their lease | contiguous rows that never change, no consumed event lost |
| Event inbox (`runtime/events/log.rs`) | slot counter, rows, drained count, the hole waited for | `ask_slot`, `reserve`, `inbox_put`, `drain_inbox` | slots reserved and never written, passes that fail between rows, markers and deletes, full inbox on two replicas | accepted events reach the log unless `shape` drops them, in slot order, with few repeats |
| Event log readers, cursors (`runtime/events/log.rs`, `cursor.rs`) | cursor, row cache, epoch | `bounds`, `resume`, `read` | reading across a floor that moves, an epoch that changes | no event skipped without `truncated` |
| Subscriptions and delivery (`runtime/events/{subscriptions,dispatcher,poll,push,webhook,delivery}.rs`) | per-subscription cursor, lease, retry state | subscribe, deliver, acknowledge, retry, cancel | outcomes out of order, holders that change, late checkpoints, ends | at-least-once: nothing is taken for finished that is not |
| Event engine and sources (`runtime/events/{engine,sources,federated,inbound,upstream_webhook}.rs`) | owner lease, running sources | acquire, renew, start, stop | two owners across a pause | at most one owner inside its lease |
| Reapers (`runtime/reapers/`) | leadership lease, listing cursor | `hold`, sweep of expired pipelines and tasks | lease lost during a sweep, resume racing the reaper | an expired run is ended once |
| Session store and fleet (`runtime/stores/session_store.rs`, `session_fleet.rs`) | sessions, owner, last seen | create, touch, adopt, terminate, expire | a touch reviving an ended session | a terminated session stays terminated |
| Task store (`runtime/stores/task_store.rs`) | task status, result, subscribers | create, update, cancel, result, expire | cancellation racing completion | a terminal status never changes |
| Pipeline store and execution (`runtime/stores/pipeline_store.rs`, `runtime/execution/pipeline.rs`) | suspended runs, claims | suspend, claim, resume, fail, reap | two resumes, resume against reap | one continuation per suspension |
| Subscription, request-state stores | keyed records | put, get, take | one-time use across replicas | a state is taken once |
| Quota gate (`runtime/quota_gate.rs`) | window counters, semaphores | admit, release | several counters stepped one after the other | a refused call does not stay counted |
| Authorization server (`runtime/authorization_server*.rs`) | codes, grants, refresh families, revocations | authorize, exchange, refresh, revoke | reuse racing rotation | a code and a refresh token are used once |
| Watch engine and shards (`runtime/watch_{engine,shards}.rs`) | shard leases, watchers | assign, rebalance, poll | two replicas on a shard | every shard is watched |
| Approvals, delivery and cancellation buses | pending requests, seen ids | ask, answer, cancel | answer racing timeout, duplicate or lost bus messages | one outcome per request |
| Federation, hot reload, backend health, audit chain, file store | see PROJECT.json | | | |
| Protocol types, configuration, policy expressions, observability, admin, transports | sequential code or input and output | | | left to unit tests |

The parts interact through the store only: the direct call path calls the idempotency
store; the quota gate holds permits of the fleet semaphore while a call runs; senders on
every replica write inbox rows which the owner of the events drains into the log;
readers and dispatchers follow the log; the engine and the reapers hold leases.

PROJECT.json lists every part with its status, and the hazards with the line where each
one bites.

## Modules

| Module | Models | Used by |
|---|---|---|
| `Idempotency` | `kv_store.rs` and the direct path of `tools_call.rs`, over one key of the in-memory store | `MCIdempotency`, `IdempotencyProofs` |
| `FleetSemaphore` | `fleet_semaphore.rs`, one (scope, max) | `MCFleetSemaphore`, `FleetSemaphoreProofs` |
| `EventLog` | the writers of one log: `log.rs` appends, adoption, commit, markers, retention, under leases | `MCEventLog`, `EventLogProofs` |
| `AppendOnlyLog` | abstract: what readers of a log are promised | refined by `EventLog` (`ReadersPromise`, proved in `EventLogProofs`) |
| `EventInbox` | the inbox of one log: `log.rs` slot task, `inbox_put`, `drain_inbox` | `MCEventInbox`, `EventInboxProofs` |
| `Pipelines` | a suspended tool pipeline: `pipeline_store.rs`, the suspending parts of `execution/`, `delivery.rs`, `cancellation.rs`, `reapers/` | `MCPipelines`, `PipelinesProofs` |
| `Grants` | one sign-in grant: `authorization_server_{grants,refresh,revocation,state}.rs` | `MCGrants`, `GrantsProofs`, `GrantsReuseProofs` |
| `Webhooks` | one webhook subscription: `events/dispatcher.rs`, the shard leases of `events/engine.rs`, the stored state of `events/subscriptions.rs` | `MCWebhooks`, `WebhooksProofs` |

`EventLog` and `EventInbox` are two views of one component that meet in the append:
`EventLog` has every call of an append and a plain sequence for the inbox; `EventInbox` has
every call of the inbox and an append that adds the rows without a marker, or on an error
some first part of them with some of their markers. Composing them in one state space is
beyond TLC. `Webhooks` reads a log as `AppendOnlyLog` promises it: rows that only grow at
the head and go at the floor, and, beyond that promise, a log that is lost and created again
under a new epoch.

### Idempotency

`kv` is the record under the storage key and `deadline` the expiry of its entry; `pc`,
`snap`, `tries` and `reserved` are the locals of each request's handler. Every call of
the store is a step: `Peek`/`BumpPeek` (`peek` and its replay-count write), `Gates`,
`ReserveRead`/`BumpReserve`/`Claim`/`Classify` (`reserve_or_get`), `Dispatch`,
`CompleteRead`/`CompletePut` (`complete`). `Purge` is the second half of `get` of an
expired entry. `Drop` is a handler that goes away. A failed call (`KvFaults`) proceeds as
the handler does: without dedupe.

A lifetime is told apart from the next by the clock: the *first window* is the time
before `Ttl`, in which no record can have expired, and while no over-cap result has left
a truncation marker (a marker makes every retry dispatch again, by design). The four
safety properties speak about that window, except `ReplayOnlyDispatched`, which holds at
all times. What can happen after it is under "Not in the runs".

### FleetSemaphore

`left` is the time each slot entry has left. Callers go through the local semaphore of their
replica (`avail`, by generation because `prune` may replace it while a handle is out), scan
the slots (`Take`), hold and release. The task a release spawns deletes the entry (`Free`);
an attempt that fails (`FreeFails`) may have been applied, and is repeated up to `Attempts`
times with other callers in between; `Freed` is what follows the last one. Each replica's
refresher prunes idle local semaphores and copies its held keys (`StartPass`), extends them
one at a time (`Extend`) and writes a key found gone again (`Retake`).

No timing is assumed: an entry may end before its refresh, at any time. Two histories keep
account of what that does. `bare` is the set of callers whose entry, or whose key at the
refresher, is gone while they count on it, and `causes` how it began: `"late"`, an entry
ended under its owner, or `"again"`, a delete was applied, reported as failed and tried
again. The properties say what the code has in the presence of both: `SlotExclusive`, of two
callers on one slot one is bare, and nobody is bare without a cause; `NeverOverCap`, the
permits that are not bare are at most `Max`; `PermitBacked`, a permit that is not bare has its
entry and its key. That is a bound on the excess, one permit for each one hit, and not the
cap: what the documentation says of it (`CapKept`: never over `Max` unless a refresh is late)
is violated, see `fleet_over`.

### EventLog and AppendOnlyLog

`row`, `head`, `floor`, `marker` and `drained` are what the store holds; `hist` keeps the
first body ever written under a number. A writer runs one operation at a time (the code
takes a lock per log), as a chain of steps: `Dedup`, `ReadHead`, then for each row `Check`,
`WriteRow` and, when the slot is taken, `Adopt` and `MarkAdopted`; then `Commit`, `PutHead`,
`Mark`. `Rescue` is the error path of `append_many`, which still commits what was written. A
retention pass is `StartRetain`, `PutFloor`, `PutBytes`, `Evict`. `Abort` is a failed call
or a stopped process at any step. The owner runs drains and retention one after the other.
`fed` says which kind of source the log has: one whose events come through the inbox, or one
that appends directly; in the first case direct appends are gaps and ends only.

Leases exclude each other (`Grant` after `Expire`); that is what the store's lease
promises. An operation may outlive its lease unless `Timely`. With retention and late
operations together (`~Orderly`) the log does not keep its shape: a late retention puts
back an old head. The invariants assume one or the other.

`ReadersPromise` instantiates `AppendOnlyLog` with `log <- Committed` (the first bodies
up to the head) and `floor <- floor`: crashes, adoption and retention only ever append
to what readers may see, or move the floor up to at most one past the head.

### EventInbox

`counter`, `drained` and `inrow` are in the store. Senders ask (`Ask`), the slot task of a
replica takes all that wait as one turn (`StartTurn`, `Count`, `Reserve`), and each
sender writes its row (`PutRow`). The owner's pass is `StartDrain`, `Fetch` (one row
at a time), `Pass`, `AppendEvents`,
`Delete`, `PutDrained`; `GraceEnds` is the end of `INBOX_HOLE_GRACE`. `FailTurn`, `FailPut`
and `FailPass` are failed calls and stopped processes, at most `Faults` of them.

`log` has the rows, `marked` the events with a dedup marker. `AppendEvents` takes what `shape`
lets through (a row `shape` answers `None` for is consumed and not appended; `dropped` is the
history of those slots) and appends what has no marker (`News`). Only a row that carries an
event id can have one: any other is a new event at every shaping (`Named`,
`occurrence.rs:122`). A pass may fail after any first part of its rows and after any part of their
markers (`AppendSome` in `FailPass`; `broken` counts those), so the next one may append a row
again. `InSlotOrder` says how much of the order survives that: no event is overtaken, and one
with an id has at most one copy more than there were such failures.

`Prompt`: a reserved slot is written before the grace ends; the grace is far longer than
a write, and a write that takes longer is lost by design. `Margin`: the grace does not
end between the reads of a pass and the moment the pass measures its wait. The second is
not something the code ensures; "Not in the runs" says what happens without it.

### Pipelines

`row` is the pipeline's row (version, step, the request it waits for, whether it knows the
caller's JSON-RPC id), `marker` the versions with a claim marker, `pending` the
pending-request rows, `rpckey` the lookup key by JSON-RPC id. Each handler (the starting
call, answers, cancellations) has a record in `work`: its next call of the store and what
it read. A resume is `Respond`, `Load`, `ClaimRead`, `ClaimMark`, `ClaimWrite`
(`try_claim_pipeline`), then `Run` up to the next suspension (`Save`, `Send`) or the end
(`Delete`, `Tell`). The starter patches the id into the row after the save (`PatchLoad`,
`PatchRead`, `PatchWrite`). `Cancel` finds the row by its id and claims it as an answer
does. A reaper pass is `ListTimedOut`/`DeleteTimedOut` (requests), `ListExpired`,
`LoadExpired`, `DeleteExpired`, `Deliver` (pipelines), and leadership may `Lapse` between
any two of them. `Stop` and `StopReaper` are processes that go away.

### Grants

`grant`, `codeUsed`, `index` (live refresh tokens), `spent` (their records once exchanged)
and `tomb` are in the sealed store; `revoked` is the memory of each replica. A request is a
record in `work` and takes one call of the store per step: a code (`ClaimCode`,
`ReadPending`, `Activate`), a refresh (`ReadIndex`, `ReadGrant`, `Live`, `Claim`,
`Revalidate`, `Issue`, `PutGrant`, `Seal`, `Retire`, `Check`, with `Undo`, `Unclaim`,
`Drop` and `DropGrant` on the failure paths), a token presented again (`ReadSpent`,
`Await`, `AwaitGrant`, `ReadSuccessor`, `Again`, `Judge`), a revocation (`ReadRevoked`,
`ReadClientGrant`, `Tombstone`, `DeleteGrant`, `DropRevoked`). `Poll` is the other replicas
learning of tombstones, `GraceEnds` and `TombstoneEnds` are time, `Stop` and `Restart` are
requests and replicas that go away. The tombstone ends when no request is under way, the
graces are over and every replica has polled: it lives as long as an access token, 60 s or
more, which is at least the longest reuse grace.

### Webhooks

`epoch`, `floor`, `head` are the log; `rec`, `start`, `ckpt` what the store holds of the
subscription; `lock` and `granted` the coordinator's shard lock and `lease` what each
replica believes of it. `fences`, `sub`, `bounds`, `under`, `tasks`, `giving` and `pc` are
the dispatcher of a replica, `sub` being the `Sub` of the code: acknowledged watermark, rows
in flight, attempts, done rows above the watermark, last row handed out, the end it waits
for, and `Gaps` the rows that are gap markers: their envelopes are delivered, retried and
kept in flight as events are, and carry their own row as cursor. A pass is `Pass` (find or
load the subscription, read the bounds) and then `Schedule` (rebase, retries, new rows,
refused payloads) or `Late` (the lease ends too soon). Attempts end in any order
(`Outcome`), also when the subscription is no longer served. A checkpoint is `GetDelivery`
and `PutDelivery`/`PutFails`, or `Lapsed`/`Deposed`; a hand-off is `HandOff`, outcomes and a
checkpoint, `Release`. `Expire` frees the lock at the coordinator and `Lapse` is the holder
learning of it, so a deposed holder goes on for a while and may write its checkpoint late.

The operators (`Advance`, `Finish`, `Resumed`, `Rebased`, `AfterRetries`, `AfterFresh`,
`CursorOf`...) are pure functions of a `Sub`, one for each piece of `schedule`,
`load_sub` and `apply_outcome`.

One assumption, `Margin`: clocks differ by less than the time-out of an attempt, and a
pass takes less than it, so that a pass that found its lease long enough
(`dispatcher.rs:836`) hands out while the lease still stands. It bounds the interleavings
the runs explore; the proofs do not use it. A log may be re-created at any time but within
`Schedule` (a pass reads the log of one epoch); `LostAt` bounds, for TLC, how long it is then.
An outcome carries the number of its row and not the log, so one that arrives after the log
was created again closes the row of that number of the new log: `misread` is the history of
the rows this happens to. `WatermarkCovers`, `CheckpointCovers`, `CursorSafe` and `EndIsLast`
name them as their only exception (`Settled`). `CursorSafe` is about the bodies of events and
not about the envelopes of gaps.

## Runs

| Run | Checks | Shows |
|---|---|---|
| `idem_retries` | `TypeOK`, `SingleDispatch`, `ReplayIsTheDispatch`, `ReplayOnlyDispatched`, `OutcomeSticks` | three requests, two bodies, one over-cap result, failing calls, dropped handlers, expiry |
| `fleet_cap` | `TypeOK`, `SlotExclusive`, `NeverOverCap`, `PermitBacked`, `LocalCount`, `OrphanEnds` | two replicas, three callers, one slot; late refreshes, failing calls, deletes tried again, prune, restarts; every orphaned entry ends |
| `fleet_over` | `CapKept`, violated | with refreshes in time, a delete applied, reported as failed and tried again removes the entry of the next holder, and the fleet holds three permits under a cap of two |
| `log_retention` | `TypeOK`, `NoHoles`, `BytesCover`, `ReadersPromise` | crashes and retention, operations within their lease; the refinement of `AppendOnlyLog` |
| `log_split_brain` | `NoHoles`, `NothingLost`, `MarkedIsWritten` | operations that outlive their lease, without retention |
| `log_hidden` | `DrainedIsReadable`, violated | a marker written at adoption hides an event that no head covers |
| `inbox_drain` | `TypeOK`, `AcceptedKept`, `InSlotOrder`, `PendingBounded`, `AcceptedReachesLog` | two replicas, events with and without an id, one that `shape` may drop, failed turns, writes and passes |
| `pipeline_ends` | `TypeOK`, `OneWinnerPerVersion`, `NoSilentEnd`, `CallerAnswered`, `RowEnds` | duplicate answers, a cancellation, the id patch and two reapers on one pipeline; every row ends, every caller is answered under its own id but for the two cases the property names |
| `pipeline_twice` | `ResumedOnce`, violated | a duplicate answer that loads the row after the first claim claims the next version of the same suspension |
| `grants_rotation` | `TypeOK`, `OneTokenPerGeneration`, `RevokedIsFinal`, `ReuseEndsGrant`, `GraceKeeps` | four requests of any kind on two replicas, with one failed write, refusal, stop or restart |
| `webhook_delivery` | `TypeOK`, `WatermarkCovers`, `CheckpointCovers`, `CursorSafe` | two replicas in turn, with leases that lapse, hand-offs, late checkpoints and one disturbance (crash, failed put, dropped row, re-created log, unsubscription); one row is a gap |
| `webhook_ends` | `EndIsLast`, `EventSettled`, `EndReached` | a refused payload, a gap and the upstream's end across a change of holder, under fairness |

A violated property states what a comment or message of the repository says; PROJECT.json
quotes it under "findings".

### Bounds

* Idempotency: three requests are needed for a claim, a stale writer and a reader; two
  bodies for a conflict; `Ttl = 2` with `MaxNow = 2` gives time before and at the expiry,
  so a record can expire and be replaced.
* Fleet semaphore: three callers on two replicas. `fleet_cap` has one slot and two attempts to
  delete, so that a repeated delete, the next holder and a third caller meet; `SlotTtl = 2` is
  the shortest life a refresh can extend; `Gens = 1` lets replica `a`, with two callers, prune
  its local semaphore once while a handle is out. `fleet_over` has two slots, the scan over
  them and the code's three attempts; it needs no prune. The proofs cover any cap, number of
  attempts and prunes.
* Event log: two writers and two leases make one takeover; three leases are needed only
  for `log_hidden`. `MaxSeq = 4` leaves room for the batch and for a second copy; `WriteRow`
  is simply not enabled beyond it, so runs of the log may stop (`CHECK_DEADLOCK FALSE`).
* Inbox: three senders on two replicas with `MaxRows = 2` fill the inbox from both sides,
  `MaxSlot = 5` exceeds the bound of `PendingBounded` by one. `Faults = 1` keeps the
  liveness check within minutes. `Named = {s1, s3}` and `Droppable = {s1}` give an event of each
  kind but one without an id that is dropped.
* Pipelines: two suspensions, so that a late claim of the first can meet the second; two
  answers, one cancellation, two reapers; two events (answers, cancellations, stops and
  lapses together), which already lets any two handlers race each other and the reapers.
* Grants: four requests are a code, the exchange of its token and two more, so that a
  rotation, a repetition and a revocation can overlap; three tokens are two rotations. The
  run fixes which replica a request runs on; by hand every assignment passes (4.4 million
  states), and so does `GraceOn = FALSE` (1.7 million).
* Webhooks: two rows make one that can be in flight below another; two leases make one
  takeover with a deposed holder beside it; two attempts make one retry. `webhook_delivery`
  has `InFlightCap = 1` (rows wait for retries while others go out) and one disturbance,
  `LostAt = {1}` a log lost with its first row in flight. A done row between two in flight
  needs a third row and is left to the proofs. `webhook_ends` has a third row for the end
  and `Window = 3`, so that the end is found while a row is in flight.

Deadlock is not checked where requests, writers or senders end with nothing left to do.

### Fairness

* `FleetSemaphore!Fairness`: weak fairness of time, of the answer to a put (`Hold`), of the
  spawned `Free`, and of each step of the refresh pass, which the code runs on an interval
  in a loop. No fairness of `Release`: a permit may be held for ever.
* `EventInbox!Fairness`: weak fairness of the drain, which runs on every hint and on a
  timer, and of the write of a reserved row; strong fairness of `GraceEnds`, because the
  wait is measured on the clock, which goes on while passes come and go.
* `Pipelines!Fairness`: weak fairness of every handler that has begun, of the starter's
  patch, of each reaper's loop and of the pipeline's timeout. None of `Respond`: a client
  may never answer.
* `Webhooks!Fairness`: weak fairness of the dispatcher's tick, of the checkpoint or
  hand-off under way, of taking a free shard, of a lapsed lease being noticed and of the
  expiry of a lock whose holder is gone. Strong fairness of `Schedule` with every retry due
  (backoffs end, and passes within a lease recur: that needs `attempt_timeout_ms` well below
  the 15 s of a lease, which `config/events.rs:880-883` does not require; at or above it every
  pass is `Late` and nothing is ever delivered) and of `Answered`, because an attempt
  ends within its time-out whatever the dispatcher does in between.
* `Idempotency`, `EventLog`, `Grants`: none; their properties are safety.

Failed calls are bounded in `EventInbox` (`Faults`); in `FleetSemaphore` any number may fail.

## Proofs

Checked by TLAPS, for every value of the constants that meets the modules' assumptions.

`IdempotencyProofs`: `SingleDispatch`, `ReplayIsTheDispatch`, `ReplayOnlyDispatched` as
invariants and `OutcomeSticks` as an action property, for any number of requests and
bodies, with or without failing calls. None of them is inductive. `IInv` adds `SnapOK` (what a
request's snapshot is, by where the request is, so that a stale write is a write of a
record that was once stored) and `FirstWindow`: in the window there is one reservation,
the record under the key is its record with a deadline at or past `Ttl`, every snapshot
is one it wrote, and no `get` is about to purge. The last part is what the window is for:
without it the purge race breaks the rest.

`FleetSemaphoreProofs`: `SlotExclusive`, `PermitBacked` and `NeverOverCap` for any fleet,
cap, TTL, number of prunes and of attempts, with late refreshes and failing calls. The
inductive invariant is `TypeOK /\ Exclusion`: every owner that is not bare (also one that
has put its slot and has no permit yet, and one whose release is on its way) has a live
entry no other such owner stands on, the keys of such permits are with the refresher, and
before the first cause nobody is bare and no applied delete is repeated. `NeverOverCap`
follows because the slots of the permits that are not bare are an injection into `Max` keys.
`LocalSlotsAreCounted` (`LocalCount`) needs `Counts`: for every replica and every generation
of its local semaphore the free slots and the callers inside make up `Max`; a prune cannot
disturb it because it opens a generation nobody is inside.

`TypeCorrect` in every module of proofs says the same of its types.

`PipelinesProofs`, for any number of handlers, reapers and suspensions: `TypeCorrect`,
`OneWinner` (`OneWinnerPerVersion`) and `NeverSilent` (`NoSilentEnd`). The first rests on
`Marked`: the version a winner claimed has its marker, and a marker is put only where there
is none. The second rests on `EInv`: before the first suspension is saved nobody can write or
delete a row but the starter (`Fresh`); a delete that owes nobody comes after an answer
was given or while another one is owed (`Excused`); and an answer owed stays owed until it
is given or its process stops.

`WebhooksProofs`, for any number of replicas, rows, leases, attempts and disturbances:
`TypeCorrect`, `WatermarkSound` (`WatermarkCovers`), `CheckpointSound` (`CheckpointCovers`),
`CursorSound` (`CursorSafe`) and `EndSound` (`EndIsLast`), with the exceptions the
properties state and no assumption on when a log is re-created. A lemma about each operator
says which rows it takes for finished, for any set `C` of finished rows (`Sound(st, C)`:
watermark and done rows are in `C`, and every row handed out is in `C` or in flight). The
inductive invariant says that every subscription in memory, the checkpoint, every attempt
and the end are sound for the rows finished *in the log they speak of*; the step that
carries it, `Steps`, is that no row finished in a log, `misread` included, is ever owed
again, whichever action is taken. Leases and fences do not appear in it: a deposed holder's
late checkpoint may repeat deliveries but cannot lose one. `Last` and the watermark are
chosen, so the proofs start from the least-element principle (`LeastOf`); nothing needs
induction over data.

`EventInboxProofs`, for any number of senders, replicas, slots and faults: `TypeCorrect`,
`PendingIsBounded` (`PendingBounded`), `AcceptedIsKept` (`AcceptedKept`) and
`LogInSlotOrder` (`InSlotOrder`); the last two carry `Prompt` and `Margin` inside the
property where they need them, and the bound on copies does without. `PendingBounded` needs
`RoomLeft`, which charges the replicas between the check of the limit and the step of the
counter. Keeping and order need to know of every slot whether it is *closed*: its event is
in the log, `shape` dropped it, or there is no row and nobody can write one. `Kept` says
that every slot up to the last in the log is drained or closed (`Covered`), that a hole is
skipped only when closed (`Waits`), and that what a pass has read, taken and is deleting is
still what the inbox holds (`Reads`, `Takes`, `Deletes`). The copies need `Marks` (only
logged events are marked) and `Repeats`: an event has no more copies than failed appends,
and one more when it is marked; an append that goes through marks what it adds, and what is
marked is not added.

`EventLogProofs`, for any number of writers, leases and faults: `TypeCorrect`
without condition; `LogHasNoHoles`,
`NothingIsLost`, `MarkersFollowRows`, `BytesAreCovered` while `Orderly` (the properties say
so themselves); and `KeepsReadersPromise`, the refinement of `AppendOnlyLog`, with `Timely` as
a hypothesis. The inductive invariant `Inv` has a part about the store (`Log`: what
was written is there until it falls below the floor, the head covers written rows only, markers
and drained count speak of written rows) and one about each writer
(`Each`: the head it carries covers written rows, is not behind the committed one while
the writer is alone, and its batch still has what its drain has passed). The committed rows
are read off `hist`, so the refinement is: no step changes `hist` where it is set, and `PutHead`
moves the head over set rows only.

`GrantsProofs` and `GrantsReuseProofs`, for any number of requests, replicas, tokens and
faults, with and without grace: `TypeCorrect`, `OneTokenEach` (`OneTokenPerGeneration`),
`RevokedForGood` (`RevokedIsFinal`), `ReuseIsPunished` (`ReuseEndsGrant`) and `RetriesAreSafe`
(`GraceKeeps`). All five rest on `Frame`: every token but the first was made for a token some
client was given, at the next generation (`Ancestry`); what a request knows of tokens is right
(`Knows`); a spent record names the one request that rotates its token and, once sealed, the
successor (`Owns`, `Records`); what clients were given for a token is that successor
(`Given`); one request opens the grant (`Opened`). Then:

* One token per generation: of two tokens of the least generation that has two, both were made
  for one token, so both are *the* successor of it.
* Revocation, `Revoked`: while a stored tombstone is there a request still has the delete of the
  grant before it, or nobody has a token of the grant's generation (`Buried`): a rotation that
  writes the grant back meets the tombstone in `Check` before it hands the new token out. Once
  the tombstone has ended no request is left that could get as far as a token (`Quiescent`).
* Reuse: the grant is never behind a token that clients were given or are about to be
  (`Ahead`), and the grant goes only with a revocation (`Gone`), so a request with an exchanged
  token finds the grant's generation past its own (`Reusing`) wherever it comes from.
* Grace: a token older than the grant is spent for good (`Past`), by the uniqueness of tokens
  above; the successor a record names is in the index until it is spent for good itself
  (`Sealed`), because only its own rotation deletes it; so a request comes to judge a token
  within its grace only by way of a spent successor (`InGrace`).

All safety properties of the runs that hold are proved. Only model-checked: liveness
(`OrphanEnds`, `AcceptedReachesLog`, `CallerAnswered`, `RowEnds`, `EventSettled`,
`EndReached`), which is out of the prover's reach.

## Not in the runs

Seen while modelling and described here only:

* `complete()` re-creates an evaporated record with the all-zero hash
  (`kv_store.rs:449`), so a retry is answered with a conflict, not with a replay.
* A result refused after the dispatch leaves its reservation in flight
  (`tools_call.rs:2640`) until it expires.
* Adoption does not carry `last_gap_seq` (`log.rs:1483`) when the adopted row is a gap.
* `commit_head` is a plain put (`log.rs:1514`): a late append puts its head over a newer one.
* Two replicas may both find room for the last inbox row (`log.rs:661`); `PendingBounded`
  says how far over it may go.
* After the first lifetime of an idempotency record: the late removal in `get`
  (`memory.rs:111`) may delete a new reservation, and a second request claims within the
  same lifetime, against `kv_store.rs:380-384`; `complete()` after expiry writes its
  envelope into the record of another body (`kv_store.rs:474`, against `store.rs:212-214`).
* The delete of a permit whose entry ended takes the slot entry of the next holder
  (`fleet_semaphore.rs:205`, against `:304`); `fleet_over` has the same without late refreshes.
* A failure between the head and the markers, or a row without an event id, makes the next
  drain append the event again (`log.rs:1324-1340`, `occurrence.rs:122`), while `log.rs:1228-1230`
  says a repeated drain "appends none of them twice"; `InSlotOrder` bounds the copies.
* Without `Margin`, an inbox row written within the grace, but after its slot was read, is skipped
  (`log.rs:1593`, against `65-66`).
* Pipelines: a duplicate answer to the first request may be applied to a row suspended at
  the second; a duplicate's claim may use up the marker of the next suspension; the
  canceller's put, or the id patch, may overwrite or bring back a row that moved on or was
  reaped; a reaper may delete a fresh suspension it listed before; a row reaped before the
  patch is answered under the null id, so its caller is not answered (against
  `pipeline_reaper.rs:14-19`, "original caller"; `CallerAnswered` leaves this case out by
  name). A row whose 300 s TTL ends before a longer
  pipeline timeout ends without an answer.
* Grants: a delete that fails after the tombstone leaves a grant that redeems again once
  the tombstone ends (`authorization_server_grants.rs:671`, against `639-644`);
  `activate_grant` that finds the grant revoked deletes the token and leaves the grant
  record; a put that fails although it was applied leaves the token exchangeable with the
  grant one generation on; a grace shorter than the IdP's answer makes a concurrent retry
  revoke. `Tombstone` is one step for the insert in memory and the awaited put
  (`authorization_server_state.rs:1824-1831`); between the two the replica itself already
  refuses the grant, and a retry may be judged reuse while the revocation is under way and
  its tombstone not yet stored.
* Webhooks: the outcome of an attempt sent before a log was re-created finishes the row of
  the same number of the new one, which is then never delivered (`dispatcher.rs:1215`,
  against `9-13`; `misread` in the model). The envelope of a gap carries its own row as
  cursor although earlier rows may be in flight (`1096-1103`, against `9-13`; `CursorSafe`
  leaves gaps out). A hand-off repeats acknowledged rows above the highest row in flight,
  while `dispatcher.rs:419-420` says it "repeats only what was still in flight". `ends_at`
  survives a re-created log, and rows after that end are not delivered, against `842-844`.
  The envelopes of refused payloads carry their own row as cursor too (`1058`). A
  subscription removed and made again within a tick, or a checkpoint put after the delete,
  keeps the old delivery state.

Left out of the models that exist: the task-augmented call path and its TTL override,
streaming assembly of envelopes, the fixed batch of a drain pass, TTLs of rows and markers
(taken to outlive the retention age), rows that cannot be decoded, `list_page`, `incr` beyond
the slot counter, the purge task and publish/subscribe; what the steps between two
suspensions compute, and saves that fail; DPoP, scopes, the lifetimes of a grant, the vault of
IdP sessions and the listing of a client's grants; poll and push delivery, suspension, secrets,
rechecks, the control envelopes sent once, several subscriptions on one host.

Not modelled at all: the parts with status `not_modelled` in PROJECT.json. Most of the code
by lines is there, and most of that is sequential (protocol types, configuration, policy,
the transports' input and output, the interactive sign-in pages); the plan names those with
state of their own.

## Plan

1. Readers and cursors over `AppendOnlyLog` (`resume`, `truncated`, the row cache, epochs),
   then poll and push; subscribing again and suspension in `Webhooks`.
2. Leases: the engine and the reapers with the same lease, which discharges the exclusion
   `EventLog` assumes.
3. Task store (cancellation against completion), with an abstract one-outcome
   specification to refine.
4. Quota gate over windows and permits; session store; request-state store.
5. File store stripes, watch shards, approvals, buses, hot reload, backend health, audit
   chain.

Theorems planned: those of the parts above; first that a reader over `AppendOnlyLog` skips no
event without `truncated`, and terminal task states.
