----------------------------- MODULE EventInbox -----------------------------
(***************************************************************************)
(* The inbox of one event log (runtime/events/log.rs): senders on any      *)
(* replica reserve a slot under a shared counter and write their row, and  *)
(* the owner of the log drains the rows in slot order, waiting out a grace *)
(* for a slot that was reserved and not written.                           *)
(*                                                                         *)
(* Abstractions.  A row is the sender that wrote it.  One owner drains at  *)
(* a time.  append_events appends the rows that shape does not drop and    *)
(* whose event has no marker, in order, and on an error some first part of *)
(* them, with some of their markers.  A row without an event id is a new   *)
(* event at every shaping.  An event that is in the log without a marker   *)
(* is appended again, or its row is found above the head and adopted:      *)
(* EventLog has the detail.                                                *)
(* `ripe' says that the owner has waited for INBOX_HOLE_GRACE.  An inbox   *)
(* that was not drained within its TTL refuses rows at an arbitrary time.  *)
(* The rows themselves do not reach that TTL, every row can be read, and   *)
(* one pass covers the whole inbox (DRAIN_BATCH is 256).                   *)
(***************************************************************************)
EXTENDS Naturals, Sequences, FiniteSets, SequencesExt

CONSTANTS
    Sender,     \* events sent to the inbox
    Replica,    \* processes that accept them
    HomeOf,     \* the process of each sender
    Named,      \* events whose row carries an event id
    Droppable,  \* events whose payload shape may refuse
    Nobody,     \* no row in a slot
    MaxRows,    \* limits.max_rows
    MaxSlot,    \* bound on slots reserved
    Faults,     \* bound on failed calls and stopped processes
    Prompt,     \* a reserved slot is written before the grace ends
    Margin      \* the grace does not end between the reads of a pass and its use of them

ASSUME EventInboxAssumption ==
    /\ HomeOf \in [Sender -> Replica]
    /\ IsFiniteSet(Sender) /\ IsFiniteSet(Replica)
    /\ Named \subseteq Sender /\ Droppable \subseteq Sender
    /\ Nobody \notin Sender
    /\ MaxRows \in Nat \ {0}
    /\ MaxSlot \in Nat
    /\ Faults \in Nat
    /\ Prompt \in BOOLEAN /\ Margin \in BOOLEAN

Slot == 1 .. MaxSlot

VARIABLES
    counter,  \* slots ever reserved
    drained,  \* slots consumed
    inrow,    \* the row in each slot
    ask,      \* where each sender is
    slot,     \* the slot each sender was given
    turn,     \* where the slot task of each replica is
    asks,     \* the senders of its turn
    seen,     \* the drained count it read
    room,     \* how many of them get a slot
    log,      \* the rows in the log, in order
    marked,   \* events with a dedup marker
    dropped,  \* history: slots whose row shape dropped, in some pass
    broken,   \* history: passes that failed while they appended
    dpc,      \* where the owner is in its drain pass
    toread,   \* slots whose rows it has still to read
    fetched,  \* the rows it read
    upto,     \* the slot its pass ends with
    taken,    \* rows it has still to delete
    hole,     \* the slot it waits for; 0: none
    ripe,     \* it has waited for the grace
    faults    \* failures so far

inbox == <<counter, drained, inrow>>
sending == <<ask, slot, turn, asks, seen, room>>
draining == <<dpc, toread, fetched, upto, taken, hole, ripe>>
logged == <<log, marked, dropped, broken>>
vars == <<inbox, sending, logged, draining, faults>>

Init ==
    /\ counter = 0
    /\ drained = 0
    /\ inrow = [n \in Slot |-> Nobody]
    /\ ask = [s \in Sender |-> "new"]
    /\ slot = [s \in Sender |-> 0]
    /\ turn = [r \in Replica |-> "idle"]
    /\ asks = [r \in Replica |-> {}]
    /\ seen = [r \in Replica |-> 0]
    /\ room = [r \in Replica |-> 0]
    /\ log = <<>>
    /\ marked = {}
    /\ dropped = {}
    /\ broken = 0
    /\ dpc = "idle"
    /\ toread = {}
    /\ fetched = inrow
    /\ upto = 0
    /\ taken = {}
    /\ hole = 0
    /\ ripe = FALSE
    /\ faults = 0

\* The events in the log.
Logged == {log[i].event : i \in 1 .. Len(log)}

-----------------------------------------------------------------------------
(* Senders, and the slot task of each replica.                             *)

\* ask_slot: the sender waits for the slot task.  A sender that was refused, or
\* told of an error, may send its event again.
Ask(s) ==
    /\ ask[s] \in {"new", "refused", "failed"}
    /\ ask' = [ask EXCEPT ![s] = "waiting"]
    /\ UNCHANGED <<inbox, slot, turn, asks, seen, room, logged, draining, faults>>

\* reserve_slots: a turn takes every ask that waits by then; reserve: the
\* drained count is read.
StartTurn(r) ==
    /\ turn[r] = "idle"
    /\ LET waiting == {s \in Sender : HomeOf[s] = r /\ ask[s] = "waiting"}
       IN /\ waiting # {}
          /\ asks' = [asks EXCEPT ![r] = waiting]
    /\ seen' = [seen EXCEPT ![r] = drained]
    /\ turn' = [turn EXCEPT ![r] = "count"]
    /\ UNCHANGED <<inbox, ask, slot, room, logged, draining, faults>>

\* Mutant: the rows pending are left out.
FitsAlone(r, n) == IF n < MaxRows THEN n ELSE MaxRows

\* How many of n asks get a slot when the counter is read.
Fits(r, n) ==
    LET pending == counter - seen[r]
        free == IF pending < MaxRows THEN MaxRows - pending ELSE 0
    IN IF n < free THEN n ELSE free

EndTurn(r) ==
    /\ turn' = [turn EXCEPT ![r] = "idle"]
    /\ asks' = [asks EXCEPT ![r] = {}]
    /\ seen' = [seen EXCEPT ![r] = 0]
    /\ room' = [room EXCEPT ![r] = 0]

\* reserve: the counter is read, and the asks that fit are decided.  An inbox
\* with rows pending that was not drained for its TTL takes none.
Count(r) ==
    /\ turn[r] = "count"
    /\ \E k \in {Fits(r, Cardinality(asks[r]))} \cup (IF counter > seen[r] THEN {0} ELSE {}) :
        IF k = 0
        THEN /\ ask' = [s \in Sender |-> IF s \in asks[r] THEN "refused" ELSE ask[s]]
             /\ EndTurn(r)
        ELSE /\ room' = [room EXCEPT ![r] = k]
             /\ turn' = [turn EXCEPT ![r] = "step"]
             /\ UNCHANGED <<ask, asks, seen>>
    /\ UNCHANGED <<inbox, slot, logged, draining, faults>>

\* reserve: one step of the counter gives the first asks their slots.
Reserve(r) ==
    /\ turn[r] = "step"
    /\ counter + room[r] <= MaxSlot
    /\ counter' = counter + room[r]
    /\ \E f \in [1 .. room[r] -> asks[r]] :
        /\ IsInjective(f)
        /\ LET given == Range(f)
           IN /\ slot' = [s \in Sender |-> IF s \in given
                             THEN counter + (CHOOSE i \in 1 .. room[r] : f[i] = s)
                             ELSE slot[s]]
              /\ ask' = [s \in Sender |-> IF s \in given THEN "writing"
                                          ELSE IF s \in asks[r] THEN "refused"
                                          ELSE ask[s]]
    /\ EndTurn(r)
    /\ UNCHANGED <<drained, inrow, logged, draining, faults>>

\* inbox_put: the row is written, and the sender told so.
PutRow(s) ==
    /\ ask[s] = "writing"
    /\ inrow' = [inrow EXCEPT ![slot[s]] = s]
    /\ ask' = [ask EXCEPT ![s] = "accepted"]
    /\ UNCHANGED <<counter, drained, slot, turn, asks, seen, room, logged, draining, faults>>

\* The process of r stops, or a call of its slot task fails: the asks of the
\* turn get no slot, and a counter step may have been made.
FailTurn(r) ==
    /\ faults < Faults
    /\ faults' = faults + 1
    /\ turn[r] # "idle"
    /\ ask' = [s \in Sender |-> IF s \in asks[r] THEN "failed" ELSE ask[s]]
    /\ EndTurn(r)
    /\ \/ UNCHANGED counter
       \/ turn[r] = "step" /\ counter + room[r] <= MaxSlot /\ counter' = counter + room[r]
    /\ UNCHANGED <<drained, inrow, slot, logged, draining>>

\* The write of a row fails, or its process stops; the row may be there.
FailPut(s) ==
    /\ faults < Faults
    /\ faults' = faults + 1
    /\ ask[s] = "writing"
    /\ ask' = [ask EXCEPT ![s] = "failed"]
    /\ inrow' \in {inrow, [inrow EXCEPT ![slot[s]] = s]}
    /\ UNCHANGED <<counter, drained, slot, turn, asks, seen, room, logged, draining>>

-----------------------------------------------------------------------------
(* The owner.                                                              *)

\* drain_inbox: the drained count and the counter are read ...
StartDrain ==
    /\ dpc = "idle"
    /\ drained < counter
    /\ upto' = counter
    /\ toread' = (drained + 1) .. counter
    /\ dpc' = "fetch"
    /\ UNCHANGED <<inbox, sending, logged, fetched, taken, hole, ripe, faults>>

\* ... and then the rows, several at once.
Fetch(n) ==
    /\ dpc = "fetch"
    /\ n \in toread
    /\ toread' = toread \ {n}
    /\ fetched' = [fetched EXCEPT ![n] = inrow[n]]
    /\ dpc' = IF toread' = {} THEN "pass" ELSE "fetch"
    /\ UNCHANGED <<inbox, sending, logged, upto, taken, hole, ripe, faults>>

\* The slots of the pass without a row.
Missing == {n \in (drained + 1) .. upto : fetched[n] = Nobody}

\* The slots the pass takes when it stops before slot n.
Rows(n) == {m \in (drained + 1) .. (n - 1) : fetched[m] # Nobody}

\* Mutant: the owner does not wait.
WaitedOutNow ==
    IF Missing # {} /\ Min(Missing) = drained + 1 THEN {drained + 1} ELSE {}

\* The hole the owner has waited out: the first missing slot, unless a row
\* before it made the pass forget the wait.
WaitedOut ==
    IF ripe /\ Missing # {} /\ hole = Min(Missing) /\ hole = drained + 1
    THEN {hole} ELSE {}

\* The slot the pass stops before.
Stop == IF Missing \ WaitedOut = {} THEN upto + 1 ELSE Min(Missing \ WaitedOut)

\* Mutant: a slot skipped stays the slot waited for, and is never passed.
PassStuck ==
    /\ dpc = "pass"
    /\ taken' = Rows(IF Missing = {} THEN upto + 1 ELSE Min(Missing))
    /\ upto' = IF Missing = {} THEN upto ELSE Min(Missing) - 1
    /\ hole' = IF Missing = {} THEN 0 ELSE Min(Missing)
    /\ ripe' = FALSE
    /\ dpc' = "append"
    /\ UNCHANGED <<inbox, sending, logged, toread, fetched, faults>>

\* The rows are gone through: up to the first missing slot that the owner has
\* not waited for.  It starts to wait for that one.
Pass ==
    /\ dpc = "pass"
    /\ taken' = Rows(Stop)
    /\ upto' = Stop - 1
    /\ hole' = IF Stop = upto + 1 THEN 0 ELSE Stop
    /\ ripe' = FALSE
    /\ dpc' = "append"
    /\ UNCHANGED <<inbox, sending, logged, toread, fetched, faults>>

\* The slots whose rows shape may drop.
Refusable == {n \in taken : fetched[n] \in Droppable}

\* Events of the log that dedup does not know.
Unmarked == (Logged \cap Named) \ marked

\* Mutant: an event that has its marker is appended again.
NewsAgain(drops, own) == taken \ drops

\* The slots whose rows append_many adds to the log: those shape does not drop
\* and, of the events with an id, the first of each in the batch that has no
\* marker and whose own row is not found above the head.
News(drops, own) ==
    {n \in taken \ drops :
        fetched[n] \in Named =>
            /\ fetched[n] \notin marked \cup own
            /\ \A m \in taken \ drops : m < n => fetched[m] # fetched[n]}

Entry(n) == [event |-> fetched[n], slot |-> n]

\* The events with an id of the rows in the slots S.
NamedIn(S) == {fetched[n] : n \in S} \cap Named

\* The rows of the slots S are appended, in the order of their slots.
AppendInOrder(S) ==
    \E q \in [1 .. Cardinality(S) -> S] :
        /\ Range(q) = S
        /\ \A i, j \in DOMAIN q : i < j => q[i] < q[j]
        /\ log' = log \o [i \in 1 .. Cardinality(S) |-> Entry(q[i])]

\* append_events.  The rows of `found' are the ones above the head it comes by,
\* which get their markers; those of `own' are the appends themselves.
AppendEvents ==
    /\ dpc = "append"
    /\ \E drops \in SUBSET Refusable, found \in SUBSET Unmarked : \E own \in SUBSET found :
        /\ AppendInOrder(News(drops, own))
        /\ marked' = marked \cup found \cup NamedIn(taken \ drops)
        /\ dropped' = dropped \cup drops
    /\ dpc' = "delete"
    /\ UNCHANGED <<broken, inbox, sending, toread, fetched, upto, taken, hole, ripe, faults>>

\* The rows taken are deleted, in any order.
Delete(n) ==
    /\ dpc = "delete"
    /\ n \in taken
    /\ taken' = taken \ {n}
    /\ inrow' = [inrow EXCEPT ![n] = Nobody]
    /\ UNCHANGED <<counter, drained, sending, logged, dpc, toread, fetched, upto, hole, ripe,
                   faults>>

EndPass ==
    /\ dpc' = "idle"
    /\ upto' = 0
    /\ taken' = {}
    /\ toread' = {}
    /\ fetched' = [n \in Slot |-> Nobody]

\* Mutant: the count is one too far.
PutDrainedNext ==
    /\ dpc = "delete"
    /\ taken = {}
    /\ drained' = upto + 1
    /\ EndPass
    /\ UNCHANGED <<counter, inrow, sending, logged, hole, ripe, faults>>

\* The drained count is put last.
PutDrained ==
    /\ dpc = "delete"
    /\ taken = {}
    /\ drained' = upto
    /\ EndPass
    /\ UNCHANGED <<counter, inrow, sending, logged, hole, ripe, faults>>

\* The rows up to some slot are appended, with any of their markers.
AppendSome ==
    /\ dpc = "append"
    /\ \E drops \in SUBSET Refusable, own \in SUBSET Unmarked :
        \E n \in News(drops, own) \cup {0} :
           LET part == {m \in News(drops, own) : m <= n}
           IN  /\ AppendInOrder(part)
               /\ \E marks \in SUBSET (Unmarked \cup NamedIn(part)) : marked' = marked \cup marks
               /\ dropped' = dropped \cup drops
    /\ broken' = broken + 1

\* The pass fails or its process stops: some of the events were appended, the
\* drained count is not moved.  Another owner starts with no wait behind it.
FailPass ==
    /\ faults < Faults
    /\ faults' = faults + 1
    /\ dpc # "idle"
    /\ UNCHANGED logged \/ AppendSome
    /\ \/ UNCHANGED <<hole, ripe>>
       \/ hole' = 0 /\ ripe' = FALSE
    /\ EndPass
    /\ UNCHANGED <<inbox, sending>>

\* INBOX_HOLE_GRACE has passed since the owner began to wait for the hole.
GraceEnds ==
    /\ hole # 0 /\ ~ripe
    /\ Prompt => ~\E s \in Sender : ask[s] = "writing" /\ slot[s] = hole
    /\ Margin => dpc = "idle"
    /\ ripe' = TRUE
    /\ UNCHANGED <<inbox, sending, logged, dpc, toread, fetched, upto, taken, hole, faults>>

ReplicaStep(r) == StartTurn(r) \/ Count(r) \/ Reserve(r) \/ FailTurn(r)

SenderStep(s) == Ask(s) \/ PutRow(s) \/ FailPut(s)

Drain ==
    \/ StartDrain \/ (\E n \in Slot : Fetch(n))
    \/ Pass \/ AppendEvents
    \/ (\E n \in Slot : Delete(n)) \/ PutDrained

Next ==
    \/ \E s \in Sender : SenderStep(s)
    \/ \E r \in Replica : ReplicaStep(r)
    \/ Drain \/ FailPass \/ GraceEnds

Spec == Init /\ [][Next]_vars

\* The owner drains on every hint and on a timer, and rows reserved are written.
\* The wait for a hole is measured on the clock, which runs on while passes come
\* and go: a grace that can end again and again between passes does end.
Fairness ==
    /\ WF_vars(Drain)
    /\ SF_vars(GraceEnds)
    /\ \A s \in Sender : WF_vars(PutRow(s))

FairSpec == Spec /\ Fairness

-----------------------------------------------------------------------------
(* Properties.                                                             *)

\* Every variable stays within its range.
TypeOK ==
    /\ counter \in 0 .. MaxSlot
    /\ drained \in 0 .. counter
    /\ inrow \in [Slot -> Sender \cup {Nobody}]
    /\ ask \in [Sender -> {"new", "waiting", "writing", "accepted", "refused", "failed"}]
    /\ slot \in [Sender -> 0 .. MaxSlot]
    /\ turn \in [Replica -> {"idle", "count", "step"}]
    /\ asks \in [Replica -> SUBSET Sender]
    /\ seen \in [Replica -> 0 .. MaxSlot]
    /\ room \in [Replica -> 0 .. MaxRows]
    /\ log \in Seq([event : Sender, slot : Slot])
    /\ marked \subseteq Named
    /\ dropped \subseteq Slot
    /\ broken \in 0 .. faults
    /\ dpc \in {"idle", "fetch", "pass", "append", "delete"}
    /\ toread \subseteq Slot
    /\ fetched \in [Slot -> Sender \cup {Nobody}]
    /\ upto \in 0 .. MaxSlot
    /\ taken \subseteq Slot
    /\ hole \in 0 .. MaxSlot
    /\ ripe \in BOOLEAN
    /\ faults \in 0 .. Faults

\* While rows are written in time, an event that was accepted is in the log, was
\* dropped by shape, or its row waits in a slot that is not consumed: no crash
\* between the append, the markers, the deletes and the drained count, and no
\* skipped hole, loses it.
AcceptedKept ==
    Prompt /\ Margin => \A s \in Sender : ask[s] = "accepted" =>
        \/ s \in Logged \/ slot[s] \in dropped
        \/ slot[s] > drained /\ inrow[slot[s]] = s

\* While rows are written in time, a row of the log that comes after one of a
\* later slot repeats an event, or was dropped by shape in a pass that failed:
\* no other event is overtaken.
NoneOvertaken ==
    Prompt /\ Margin => \A i, j \in 1 .. Len(log) :
        i < j /\ log[j].slot < log[i].slot =>
            log[j].slot \in dropped \/ \E k \in 1 .. j - 1 : log[k].event = log[j].event

\* The rows of the log with the event s.
Copies(s) == {i \in 1 .. Len(log) : log[i].event = s}

\* log.rs 1228-1230, "a drain that runs the same inbox rows again appends none of
\* them twice", as far as the code has it: an event with an id is repeated at
\* most once for each pass that failed while it appended, however often its
\* sender sends it.
FewCopies == \A s \in Named : Cardinality(Copies(s)) <= 1 + broken

\* The drain keeps the order of the slots and repeats little, also when a failed
\* pass is run again and when a sender sends its event again.
InSlotOrder == NoneOvertaken /\ FewCopies

\* The turns of the replicas check the limit before they step the counter, so
\* the inbox holds at most one full turn of each replica.
PendingBounded == counter - drained <= MaxRows * Cardinality(Replica)

\* While rows are written in time, an accepted event reaches the log or is
\* dropped by shape.
AcceptedReachesLog ==
    \A s \in Sender : ask[s] = "accepted" ~> (s \in Logged \/ slot[s] \in dropped)

=============================================================================
