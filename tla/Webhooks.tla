------------------------------ MODULE Webhooks ------------------------------
(***************************************************************************)
(* The webhook dispatcher (runtime/events/dispatcher.rs): one subscription *)
(* and the replicas that take turns to deliver the rows of an event log to *)
(* its callback under a fenced shard lease, with attempts that are retried *)
(* and a delivery state that is checkpointed, handed off and resumed.      *)
(*                                                                         *)
(* Abstractions.  One subscription, so one shard, one host and no limit    *)
(* per host.  Which rows it wants, which of them are gap markers, which    *)
(* payloads a plugin refuses and where its upstream ends it are constants. *)
(* A row is there to be read when the floor is not above it.  A pass reads *)
(* the log of one epoch.                                                   *)
(* Backoff, the retry window, the checkpoint interval and the age of a     *)
(* checkpoint are choices.  A store read that fails, a pause and a         *)
(* suspension are passes that hand nothing out: they are not taken.        *)
(* Secrets, authorization rechecks, audit, counters and the envelopes      *)
(* post_control sends once without waiting for them (after a rebase, for a *)
(* refused payload and at an end) are left out; the envelope of a gap row  *)
(* is delivered and retried as an event is, and modelled.                  *)
(*                                                                         *)
(* `misread' is a history: outcomes carry a row's number and not its log,  *)
(* so one that arrives after the log was created again is taken for the    *)
(* row of that number of the new log.                                      *)
(***************************************************************************)
EXTENDS Naturals, FiniteSets

CONSTANTS
    Replica,        \* gateway processes
    Nobody,         \* not a replica
    MaxSeq,         \* bound on the rows of a log
    Wanted,         \* rows for this subscription
    Gaps,           \* those that are gap markers
    Blocked,        \* those whose payload a plugin refuses
    EndSeq,         \* the row at which the upstream ends it; 0: none
    InFlightCap,    \* limits.per_subscription_in_flight
    RetryCap,       \* MAX_RETRY_SET
    Window,         \* MAX_WINDOW
    MaxAttempts,    \* retry.max_attempts
    MaxFence,       \* bound on leases granted
    Margin,         \* clocks differ, and passes last, less than the time-out of an attempt
    Starts,         \* positions subscribers start after
    LostAt,         \* bound on the sizes at which a log is lost
    MaxEvents       \* bound on crashes, failed writes, unsubscriptions, rows
                    \* dropped by retention and logs created again

Row == 1 .. MaxSeq
Epoch == 1 .. MaxEvents + 1

ASSUME WebhooksAssumption ==
    /\ Nobody \notin Replica
    /\ MaxSeq \in Nat /\ MaxFence \in Nat /\ MaxEvents \in Nat
    /\ Starts \subseteq Nat
    /\ EndSeq \in Nat
    /\ Wanted \subseteq Row \ {EndSeq}
    /\ Gaps \subseteq Wanted
    /\ Blocked \subseteq Wanted \ Gaps
    /\ InFlightCap \in Nat \ {0} /\ RetryCap \in Nat \ {0}
    /\ Window \in Nat \ {0} /\ MaxAttempts \in Nat \ {0}
    /\ LostAt \subseteq Nat /\ Margin \in BOOLEAN

VARIABLES
    epoch, floor, head, \* the log: its epoch, lowest row and last row
    rec,                \* the subscription record: "none", "live" or "gone"
    start,              \* its start: [epoch, seq]
    ckpt,               \* the stored delivery state
    lock,               \* who holds the shard lock at the coordinator
    granted,            \* the last fence granted
    lease,              \* the fence each replica holds; 0: none
    fences,             \* the fence its dispatcher serves under; 0: none
    pc,                 \* where its dispatcher is
    giving,             \* it is handing the shard off
    sub,                \* the subscription as it serves it
    bounds,             \* the bounds its pass read
    under,              \* the fence its checkpoint is taken under
    tasks,              \* its attempts in flight
    settled,            \* history: rows acknowledged or given up, with their epoch
    misread,            \* history: rows closed by the outcome of an earlier log's row
    ended,              \* history: the epoch of the log whose end row ended it; 0: none
    events              \* disturbances so far

theLog == <<epoch, floor, head>>
store == <<rec, start, ckpt>>
leases == <<lock, granted, lease>>
local == <<fences, pc, giving, sub, bounds, under, tasks>>
history == <<settled, misread, ended, events>>
vars == <<theLog, store, leases, local, history>>

NoTries == [s \in Row |-> 0]
NoBounds == [epoch |-> 0, floor |-> 1, head |-> 0]

\* No delivery state is stored.
NoCkpt == [epoch |-> 0, ack |-> 0, inflight |-> {}, tries |-> NoTries, fence |-> 0]

\* The dispatcher does not serve the subscription.
NoSub == [epoch |-> 0, ack |-> 0, inflight |-> {}, tries |-> NoTries,
          done |-> {}, dispatched |-> 0, sending |-> {},
          ends |-> 0, dirty |-> FALSE]

Served(r) == sub[r].epoch # 0

Init ==
    /\ epoch = 1 /\ floor = 1 /\ head = 0
    /\ rec = "none"
    /\ start = [epoch |-> 0, seq |-> 0]
    /\ ckpt = NoCkpt
    /\ lock = Nobody
    /\ granted = 0
    /\ lease = [r \in Replica |-> 0]
    /\ fences = [r \in Replica |-> 0]
    /\ pc = [r \in Replica |-> "idle"]
    /\ giving = [r \in Replica |-> FALSE]
    /\ sub = [r \in Replica |-> NoSub]
    /\ bounds = [r \in Replica |-> NoBounds]
    /\ under = [r \in Replica |-> 0]
    /\ tasks = [r \in Replica |-> {}]
    /\ settled = {} /\ misread = {}
    /\ ended = 0
    /\ events = 0

-----------------------------------------------------------------------------
(* The log, the subscriber and the shard lock.                             *)

\* One of a bounded number of disturbances.
Disturb == events < MaxEvents /\ events' = events + 1

Append ==
    /\ head < MaxSeq
    /\ head' = head + 1
    /\ UNCHANGED <<epoch, floor, store, leases, local, history>>

\* Retention drops the lowest row.
Retain ==
    /\ floor <= head
    /\ Disturb
    /\ floor' = floor + 1
    /\ UNCHANGED <<epoch, head, store, leases, local, settled, misread, ended>>

\* The log is lost and created again under a new epoch.
Recreate ==
    /\ Disturb
    /\ head \in LostAt
    /\ \A r \in Replica : pc[r] # "schedule"
    /\ epoch' = epoch + 1
    /\ floor' = 1
    /\ head' = 0
    /\ UNCHANGED <<store, leases, local, settled, misread, ended>>

\* SubscriptionStore::create with the resume point of the request.
Subscribe ==
    /\ rec = "none"
    /\ rec' = "live"
    /\ \E s \in Starts \cap (0 .. head) :
         start' = [epoch |-> epoch, seq |-> IF s + 1 < floor THEN head ELSE s]
    /\ UNCHANGED <<theLog, ckpt, leases, local, history>>

\* SubscriptionStore::delete, for the subscriber and for terminate.
Delete ==
    /\ rec' = "gone"
    /\ ckpt' = NoCkpt
    /\ UNCHANGED start

Unsubscribe ==
    /\ rec = "live"
    /\ Disturb
    /\ Delete
    /\ UNCHANGED <<theLog, leases, local, settled, misread, ended>>

\* maintain_shards: the lock was free and this replica's share has room.
Acquire(r) ==
    /\ lock = Nobody
    /\ granted < MaxFence
    /\ lease[r] = 0 /\ ~giving[r]
    /\ lock' = r
    /\ granted' = granted + 1
    /\ lease' = [lease EXCEPT ![r] = granted + 1]
    /\ UNCHANGED <<theLog, store, local, history>>

\* The lease ends at the coordinator; its holder, by its own clock, may not know.
Expire ==
    /\ lock # Nobody
    /\ granted < MaxFence
    /\ lock' = Nobody
    /\ UNCHANGED <<theLog, store, granted, lease, local, history>>

\* The coordinator does not know this lease, or not any more.
Outdated(r) == lock # r \/ lease[r] # granted

\* The holder learns it: a renewal fails, or its own clock says so.  Which of the
\* two ends comes first makes no difference to anyone but a pass under way.
Lapse(r) ==
    /\ lease[r] # 0
    /\ Outdated(r)
    /\ lease' = [lease EXCEPT ![r] = 0]
    /\ UNCHANGED <<theLog, store, lock, granted, local, history>>

Crash(r) ==
    /\ Disturb
    /\ granted < MaxFence
    /\ lease' = [lease EXCEPT ![r] = 0]
    /\ fences' = [fences EXCEPT ![r] = 0]
    /\ pc' = [pc EXCEPT ![r] = "idle"]
    /\ giving' = [giving EXCEPT ![r] = FALSE]
    /\ sub' = [sub EXCEPT ![r] = NoSub]
    /\ bounds' = [bounds EXCEPT ![r] = NoBounds]
    /\ under' = [under EXCEPT ![r] = 0]
    /\ tasks' = [tasks EXCEPT ![r] = {}]
    /\ UNCHANGED <<theLog, store, lock, granted, settled, misread, ended>>

-----------------------------------------------------------------------------
(* What the dispatcher does to a subscription in memory.                   *)

\* The watermark over every done row right above `ack'.
Reached(ack, done) ==
    CHOOSE a \in ack .. MaxSeq : ack + 1 .. a \subseteq done /\ a + 1 \notin done

Advance(st) ==
    LET a == Reached(st.ack, st.done)
    IN  [st EXCEPT !.ack = a, !.done = @ \ (st.ack + 1 .. a), !.dirty = TRUE]

\* Mutant: the watermark stays.
FinishStill(st, rows) ==
    [st EXCEPT !.inflight = @ \ rows,
               !.tries = [s \in Row |-> IF s \in rows THEN 0 ELSE @[s]],
               !.done = @ \cup {s \in rows : s > st.ack},
               !.dirty = TRUE]

\* Rows that need no more work.
Finish(st, rows) ==
    Advance([st EXCEPT !.inflight = @ \ rows,
                       !.tries = [s \in Row |-> IF s \in rows THEN 0 ELSE @[s]],
                       !.done = @ \cup {s \in rows : s > st.ack}])

\* The highest of some rows and n.
Last(rows, n) == CHOOSE m \in rows \cup {n} : \A x \in rows \cup {n} : x <= m

\* The state load_sub builds from a checkpoint.
Resumed(ck) ==
    LET last == Last(ck.inflight, ck.ack)
    IN  [Advance([NoSub EXCEPT !.epoch = ck.epoch, !.ack = ck.ack,
                               !.inflight = ck.inflight, !.tries = ck.tries,
                               !.dispatched = last,
                               !.done = (ck.ack + 1 .. last) \ ck.inflight])
           EXCEPT !.dirty = FALSE]

\* The first n of a set of rows.
FirstOf(rows, n) == {s \in rows : Cardinality({x \in rows : x < s}) < n}

\* Mutant: delivery goes on at the head.
RebasedToHead(st, b) ==
    IF st.epoch # b.epoch \/ st.ack + 1 < b.floor
    THEN [st EXCEPT !.epoch = b.epoch, !.ack = b.head,
                    !.inflight = {}, !.tries = NoTries,
                    !.done = {}, !.dispatched = b.head, !.dirty = TRUE]
    ELSE st

\* A new log, or rows dropped before they were delivered.
Rebased(st, b) ==
    IF st.epoch # b.epoch \/ st.ack + 1 < b.floor
    THEN [st EXCEPT !.epoch = b.epoch, !.ack = b.floor - 1,
                    !.inflight = {}, !.tries = NoTries,
                    !.done = {}, !.dispatched = b.floor - 1, !.dirty = TRUE]
    ELSE st

\* The rows in `ripe' that wait for a retry.
Due(st, ripe) == (st.inflight \ st.sending) \cap ripe

SendRoom(st) == IF Cardinality(st.sending) >= InFlightCap
                THEN 0 ELSE InFlightCap - Cardinality(st.sending)

\* The retries that go out, and those whose row is gone.
Retries(st, ripe) ==
    IF SendRoom(st) = 0 THEN {}
    ELSE FirstOf({s \in Due(st, ripe) : s >= floor}, SendRoom(st))
Dropped(st, ripe) ==
    IF SendRoom(st) = 0 THEN {} ELSE {s \in Due(st, ripe) : s < floor}

AfterRetries(st, ripe) ==
    LET sent == [st EXCEPT !.sending = @ \cup Retries(st, ripe)]
        gone == Dropped(st, ripe)
    IN  IF gone = {} THEN sent ELSE Finish(sent, gone)

HasRoom(st, b) ==
    /\ st.ends = 0
    /\ st.dispatched < b.head
    /\ st.dispatched < st.ack + Window
    /\ Cardinality(st.inflight) < RetryCap
    /\ Cardinality(st.sending) < InFlightCap

\* The rows log.read returns after `dispatched'.
RowsAfter(st) == {s \in st.dispatched + 1 .. head : s >= floor}

\* Those the pass gets to before a limit stops it.
InReach(st, rows) ==
    {s \in rows : LET before == Cardinality({x \in rows \cap Wanted : x < s})
                  IN  /\ Cardinality(st.sending) + before < InFlightCap
                      /\ Cardinality(st.inflight) + before < RetryCap}

\* Those it hands out: it stops at the upstream's end.
Taken(st, rows) == {s \in InReach(st, rows) : EndSeq \in rows => s < EndSeq}

Fresh(st, b) == IF HasRoom(st, b) THEN Taken(st, RowsAfter(st)) \cap Wanted ELSE {}

\* Rows the read skipped are gone: those below the floor, which is above the
\* head when it returned none.
AfterFresh(st, b) ==
    IF ~HasRoom(st, b) THEN st
    ELSE LET rows == RowsAfter(st)
             taken == Taken(st, rows)
             gone == {s \in Row : st.dispatched < s /\ s < floor /\ (rows = {} => s <= b.head)}
         IN  Advance([st EXCEPT !.ends = IF EndSeq \in InReach(st, rows) THEN EndSeq ELSE @,
                                !.dispatched = IF rows = {} THEN b.head
                                               ELSE Last(taken, @),
                                !.inflight = @ \cup (taken \cap Wanted),
                                !.sending = @ \cup (taken \cap Wanted),
                                !.done = @ \cup gone \cup (taken \ Wanted)])

\* A refused payload is given up.
Refuse(st, rows) ==
    IF rows = {} THEN st ELSE Finish([st EXCEPT !.sending = @ \ rows], rows)

\* Mutant: the cursor is the row's own.
CursorOfRow(st, s) == s

\* The cursor in a body never passes a row still awaiting delivery.
CursorOf(st, s) == IF st.ack + 1 >= s THEN s ELSE st.ack

\* Attempts of the rows in `rows', beside those in `old'.  The envelope of a gap
\* carries its own row's cursor, whatever is still awaiting delivery.
Attempts(st, rows, old) ==
    {[seq |-> s, epoch |-> st.epoch,
      cursor |-> IF s \in Gaps THEN s ELSE CursorOf(st, s),
      copy |-> CHOOSE n \in 0 .. Cardinality(old) :
                 \A t \in old : t.seq = s => t.copy # n] : s \in rows}

-----------------------------------------------------------------------------
(* One pass of a replica's dispatcher, under its lock.                     *)

\* Forget the subscription: another replica delivers it now.  Its attempts
\* in flight finish.
DropShard(r) ==
    /\ sub' = [sub EXCEPT ![r] = NoSub]
    /\ fences' = [fences EXCEPT ![r] = 0]

Goto(r, where) == pc' = [pc EXCEPT ![r] = where]

\* No lease is held: step_down.
StepDown(r) ==
    /\ pc[r] = "idle" /\ ~giving[r]
    /\ lease[r] = 0
    /\ fences[r] # 0 \/ tasks[r] # {}
    /\ DropShard(r)
    /\ tasks' = [tasks EXCEPT ![r] = {}]
    /\ UNCHANGED <<theLog, store, leases, pc, giving, bounds, under, history>>

\* The subscription as this pass finds it: a shard held under another fence
\* starts over from the checkpoint, or from the start of the record.
Found(r) ==
    IF fences[r] = lease[r] /\ Served(r) THEN sub[r]
    ELSE IF ckpt # NoCkpt THEN Resumed(ckpt)
    ELSE [NoSub EXCEPT !.epoch = start.epoch, !.ack = start.seq, !.dispatched = start.seq]

\* Mutant: the rows before it are handed out.
AtEndEarly(st) == st.ends # 0 /\ st.dispatched + 1 >= st.ends

\* Every row before the upstream's end is done.
AtEnd(st) == st.ends # 0 /\ st.ack + 1 >= st.ends

\* The pass serves a live subscription, or one it has in memory and does not
\* know to be gone, and reads the bounds of the log.
Pass(r) ==
    /\ pc[r] = "idle" /\ ~giving[r]
    /\ lease[r] # 0
    /\ rec = "live" \/ (fences[r] = lease[r] /\ Served(r))
    /\ ~AtEnd(Found(r))
    /\ fences' = [fences EXCEPT ![r] = lease[r]]
    /\ sub' = [sub EXCEPT ![r] = Found(r)]
    /\ bounds' = [bounds EXCEPT ![r] = [epoch |-> epoch, floor |-> floor, head |-> head]]
    /\ Goto(r, "schedule")
    /\ UNCHANGED <<theLog, store, leases, giving, under, tasks, history>>

\* The upstream ended the subscription: terminate removes the record.
Terminate(r) ==
    /\ pc[r] = "idle" /\ ~giving[r]
    /\ lease[r] # 0 /\ fences[r] = lease[r]
    /\ AtEnd(sub[r])
    /\ Delete
    /\ ended' = sub[r].epoch
    /\ sub' = [sub EXCEPT ![r] = NoSub]
    /\ UNCHANGED <<theLog, leases, fences, pc, giving, bounds, under, tasks, settled,
                   misread, events>>

\* A subscription the index knows to be gone is no longer served.
Forget(r) ==
    /\ pc[r] = "idle" /\ ~giving[r]
    /\ lease[r] # 0 /\ rec = "gone"
    /\ sub' = [sub EXCEPT ![r] = NoSub]
    /\ fences' = [fences EXCEPT ![r] = lease[r]]
    /\ UNCHANGED <<theLog, store, leases, pc, giving, bounds, under, tasks, history>>

\* The lease ends within the time-out of an attempt: nothing is handed out.
Late(r) ==
    /\ pc[r] = "schedule"
    /\ bounds' = [bounds EXCEPT ![r] = NoBounds]
    /\ Goto(r, "idle")
    /\ UNCHANGED <<theLog, store, leases, fences, giving, sub, under, tasks, history>>

\* Hand out the retries whose time came, those in `ripe', then new rows.  A
\* refused payload is given up at once.
Schedule(r, ripe) ==
    /\ pc[r] = "schedule"
    /\ Margin => lock = r /\ fences[r] = granted
    /\ \E based \in {Rebased(sub[r], bounds[r])} :
       \E resent \in {AfterRetries(based, ripe)} :
       \E handed \in {AfterFresh(resent, bounds[r])} :
       \E started \in {Retries(based, ripe) \cup Fresh(resent, bounds[r])} :
       \E st \in {Refuse(handed, started \cap Blocked)} :
         /\ sub' = [sub EXCEPT ![r] = st]
         /\ tasks' = [tasks EXCEPT ![r] = @ \cup Attempts(st, started \ Blocked, @)]
         /\ settled' = settled \cup {<<st.epoch, s>> : s \in started \cap Blocked}
    /\ bounds' = [bounds EXCEPT ![r] = NoBounds]
    /\ Goto(r, "idle")
    /\ UNCHANGED <<theLog, store, leases, fences, giving, under, misread, ended,
                   events>>

-----------------------------------------------------------------------------
(* Attempts.                                                               *)

\* What an attempt may report: a 2xx, a 410, a 413 or an id that cannot be
\* signed settles the row, a failure is retried unless it is the last within
\* the retry window.
Result == {"settled", "failed", "last"}

\* Mutant: the attempts are not counted.
ExhaustedNever(st, s, result) == result = "last"

\* A failure that is not retried again.
Exhausted(st, s, result) == result = "last" \/ st.tries[s] + 1 >= MaxAttempts

Closes(st, s, result) ==
    result = "settled" \/ (s \in st.inflight /\ Exhausted(st, s, result))

\* Mutant: an attempt that failed goes on counting as in flight.
ReportedKept(st, s, result) ==
    LET left == [st EXCEPT !.dirty = TRUE]
    IN  IF Closes(st, s, result) THEN Finish([left EXCEPT !.sending = @ \ {s}], {s})
        ELSE IF s \in st.inflight THEN [left EXCEPT !.tries[s] = @ + 1]
        ELSE left

\* The subscription after a report on row s.
Reported(st, s, result) ==
    LET left == [st EXCEPT !.sending = @ \ {s}, !.dirty = TRUE]
    IN  IF Closes(st, s, result) THEN Finish(left, {s})
        ELSE IF s \in st.inflight THEN [left EXCEPT !.tries[s] = @ + 1]
        ELSE left

\* apply_outcome, in a tick or a hand-off.  The outcome of an attempt for a
\* subscription no longer served is ignored.
Outcome(r, t, result) ==
    /\ pc[r] = "idle"
    /\ t \in tasks[r]
    /\ tasks' = [tasks EXCEPT ![r] = @ \ {t}]
    /\ sub' = [sub EXCEPT ![r] = IF Served(r) THEN Reported(@, t.seq, result) ELSE @]
    /\ LET closed == Served(r) /\ Closes(sub[r], t.seq, result)
           own == sub[r].epoch = t.epoch
       IN  /\ settled' = IF result = "settled" \/ (closed /\ own)
                         THEN settled \cup {<<t.epoch, t.seq>>} ELSE settled
           /\ misread' = IF closed /\ ~own
                         THEN misread \cup {<<sub[r].epoch, t.seq>>} ELSE misread
    /\ UNCHANGED <<theLog, store, leases, fences, pc, giving, bounds, under, ended, events>>

-----------------------------------------------------------------------------
(* Checkpoints and the hand-off.                                           *)

\* checkpoint_one without a lease stops serving.
Lapsed(r) ==
    /\ pc[r] = "idle"
    /\ sub[r].dirty
    /\ lease[r] = 0
    /\ DropShard(r)
    /\ Goto(r, IF giving[r] THEN "release" ELSE "idle")
    /\ UNCHANGED <<theLog, store, leases, giving, bounds, under, tasks, history>>

\* A higher fence on a recent checkpoint is a newer holder.
Deposed(r) ==
    /\ pc[r] = "idle"
    /\ sub[r].dirty
    /\ lease[r] # 0 /\ ckpt.fence > lease[r]
    /\ DropShard(r)
    /\ Goto(r, IF giving[r] THEN "release" ELSE "idle")
    /\ UNCHANGED <<theLog, store, leases, giving, bounds, under, tasks, history>>

\* None is stored, or its fence is not higher, or it is old.
GetDelivery(r) ==
    /\ pc[r] = "idle"
    /\ sub[r].dirty
    /\ lease[r] # 0
    /\ under' = [under EXCEPT ![r] = lease[r]]
    /\ Goto(r, "put")
    /\ UNCHANGED <<theLog, store, leases, fences, giving, sub, bounds, tasks, history>>

\* Mutant: attempts that await an answer are not saved.
StateOfWaiting(st, f) ==
    [epoch |-> st.epoch, ack |-> st.ack, inflight |-> st.inflight \ st.sending,
     tries |-> st.tries, fence |-> f]

\* What a checkpoint of fence f holds.
StateOf(st, f) == [epoch |-> st.epoch, ack |-> st.ack, inflight |-> st.inflight,
                   tries |-> st.tries, fence |-> f]

PutDelivery(r) ==
    /\ pc[r] = "put"
    /\ ckpt' = StateOf(sub[r], under[r])
    /\ sub' = [sub EXCEPT ![r].dirty = FALSE]
    /\ under' = [under EXCEPT ![r] = 0]
    /\ Goto(r, IF giving[r] THEN "release" ELSE "idle")
    /\ UNCHANGED <<theLog, rec, start, leases, fences, giving, bounds, tasks, history>>

\* The put fails; it may have been applied.
PutFails(r) ==
    /\ pc[r] = "put"
    /\ Disturb
    /\ ckpt' \in {ckpt, StateOf(sub[r], under[r])}
    /\ under' = [under EXCEPT ![r] = 0]
    /\ Goto(r, IF giving[r] THEN "release" ELSE "idle")
    /\ UNCHANGED <<theLog, rec, start, leases, fences, giving, sub, bounds, tasks,
                   settled, misread, ended>>

\* hand_off_delivery: outcomes are applied until the time-out, then the
\* checkpoint is written.
HandOff(r) ==
    /\ pc[r] = "idle" /\ ~giving[r]
    /\ lease[r] # 0 /\ granted < MaxFence
    /\ giving' = [giving EXCEPT ![r] = TRUE]
    /\ UNCHANGED <<theLog, store, leases, fences, pc, sub, bounds, under, tasks, history>>

\* Nothing to checkpoint.
HandOffClean(r) ==
    /\ pc[r] = "idle" /\ giving[r]
    /\ ~sub[r].dirty
    /\ Goto(r, "release")
    /\ UNCHANGED <<theLog, store, leases, fences, giving, sub, bounds, under, tasks, history>>

\* The shard is dropped, or everything is, and then the lock is released.
Release(r) ==
    /\ pc[r] = "release"
    /\ DropShard(r)
    /\ \/ UNCHANGED tasks
       \/ tasks' = [tasks EXCEPT ![r] = {}]
    /\ giving' = [giving EXCEPT ![r] = FALSE]
    /\ lease' = [lease EXCEPT ![r] = 0]
    /\ lock' = IF Outdated(r) THEN lock ELSE Nobody
    /\ Goto(r, "idle")
    /\ UNCHANGED <<theLog, store, granted, bounds, under, settled, misread, ended, events>>

-----------------------------------------------------------------------------

\* The dispatcher loop, and what follows once it began.
Tick(r) == StepDown(r) \/ Pass(r) \/ Late(r) \/ Terminate(r) \/ Forget(r)
Save(r) ==
    \/ Lapsed(r) \/ Deposed(r) \/ GetDelivery(r) \/ PutDelivery(r)
    \/ HandOffClean(r) \/ Release(r)
Answered(r) == \E t \in tasks[r], result \in Result : Outcome(r, t, result)

Next ==
    \/ Append \/ Retain \/ Recreate \/ Subscribe \/ Unsubscribe \/ Expire
    \/ \E r \in Replica :
         \/ Acquire(r) \/ Lapse(r) \/ Crash(r) \/ HandOff(r)
         \/ Tick(r) \/ Save(r) \/ PutFails(r)
         \/ \E ripe \in SUBSET (sub[r].inflight \ sub[r].sending) : Schedule(r, ripe)
         \/ Answered(r)

Spec == Init /\ [][Next]_vars

\* The dispatcher loop ticks and ends what it began, every attempt ends
\* within its time-out, every backoff passes, a free shard is taken, the lease
\* of a holder that is gone expires, and a lease that expired is not renewed.
Fairness ==
    /\ \A r \in Replica :
         /\ WF_vars(Tick(r)) /\ WF_vars(Save(r))
         /\ SF_vars(Schedule(r, Row))
         /\ SF_vars(Answered(r))
         /\ WF_vars(Acquire(r))
         /\ WF_vars(Lapse(r))
    /\ WF_vars(Expire /\ lease[lock] = 0)

LiveSpec == Spec /\ Fairness

-----------------------------------------------------------------------------

SubType ==
    [epoch : Epoch \cup {0}, ack : 0 .. MaxSeq, inflight : SUBSET Row,
     tries : [Row -> 0 .. MaxAttempts], done : SUBSET Row, dispatched : 0 .. MaxSeq,
     sending : SUBSET Row, ends : {0, EndSeq}, dirty : BOOLEAN]

CkptType ==
    [epoch : Epoch \cup {0}, ack : 0 .. MaxSeq, inflight : SUBSET Row,
     tries : [Row -> 0 .. MaxAttempts], fence : 0 .. MaxFence]

TypeOK ==
    /\ epoch \in Epoch /\ floor \in 1 .. MaxSeq + 1 /\ head \in 0 .. MaxSeq
    /\ rec \in {"none", "live", "gone"}
    /\ start \in [epoch : Epoch \cup {0}, seq : 0 .. MaxSeq]
    /\ ckpt \in CkptType
    /\ lock \in Replica \cup {Nobody} /\ granted \in 0 .. MaxFence
    /\ lease \in [Replica -> 0 .. MaxFence]
    /\ fences \in [Replica -> 0 .. MaxFence]
    /\ pc \in [Replica -> {"idle", "schedule", "put", "release"}]
    /\ giving \in [Replica -> BOOLEAN]
    /\ sub \in [Replica -> SubType]
    /\ bounds \in [Replica -> [epoch : Epoch \cup {0}, floor : 1 .. MaxSeq + 1, head : 0 .. MaxSeq]]
    /\ under \in [Replica -> 0 .. MaxFence]
    /\ \A r \in Replica : \A t \in tasks[r] :
         t.seq \in Row /\ t.epoch \in Epoch /\ t.cursor \in 0 .. MaxSeq
    /\ settled \subseteq Epoch \X Row /\ misread \subseteq Epoch \X Row
    /\ ended \in Epoch \cup {0} /\ events \in 0 .. MaxEvents

\* Row s of log e is owed to the subscription: it wants it, it is after its
\* start and retention has not dropped it.
Owed(e, s) ==
    /\ s \in Wanted /\ s >= floor /\ e = epoch
    /\ start.epoch = e => s > start.seq

\* It was acknowledged or given up, or an outcome of an attempt of an earlier
\* log was taken for its own.
Settled(e, s) == Owed(e, s) => <<e, s>> \in settled \cup misread

\* dispatcher.rs 9-13: the watermark of a replica, and the rows it marked
\* done above it, are acknowledged, given up, dropped or not for this
\* subscription, but for rows the outcome of an earlier log's row closed.
WatermarkCovers ==
    \A r \in Replica : \A s \in Row :
        Served(r) /\ (s <= sub[r].ack \/ s \in sub[r].done) => Settled(sub[r].epoch, s)

\* The same of the stored checkpoint, whoever wrote it last: what the next
\* holder takes for finished (load_sub, 724-736) is.
CheckpointCovers ==
    ckpt # NoCkpt =>
        \A s \in Row :
            s <= ckpt.ack \/ (s \notin ckpt.inflight /\ \E x \in ckpt.inflight : s < x)
                => Settled(ckpt.epoch, s)

\* dispatcher.rs 9-13: the cursor in the body of an event skips no row still
\* awaiting delivery but that one.  The envelope of a gap is not one of them:
\* its cursor may skip rows in flight.
CursorSafe ==
    \A r \in Replica : \A t \in tasks[r] : \A s \in Row :
        t.seq \notin Gaps /\ s <= t.cursor /\ s # t.seq => Settled(t.epoch, s)

\* dispatcher.rs 133-135: an upstream's end ends the subscription once every
\* row before it is done.
EndIsLast ==
    ended # 0 => \A s \in Row : s < EndSeq => Settled(ended, s)

\* An upstream's end that the log holds ends the subscription, unless it is
\* dropped first.
EndReached ==
    (rec = "live" /\ EndSeq \in floor .. head /\ start.seq < EndSeq)
        ~> (rec = "gone" \/ EndSeq \notin floor .. head)

\* An event owed to a live subscription is acknowledged or given up, unless
\* the subscription ends or the event is dropped.
EventSettled ==
    \A s \in Wanted, e \in Epoch :
        (rec = "live" /\ s <= head /\ Owed(e, s) /\ (EndSeq # 0 => s < EndSeq))
            ~> (<<e, s>> \in settled \/ ~Owed(e, s) \/ rec = "gone")
=============================================================================
