------------------------------ MODULE EventLog ------------------------------
(***************************************************************************)
(* One source key's event log (runtime/events/log.rs): rows written with   *)
(* put_if_absent after the head, the head put after them, the dedup        *)
(* markers after the head; and the writers, which hold the events owner's  *)
(* lease one after the other and drain the inbox into the log.             *)
(*                                                                         *)
(* Every call of the store that may come between two others is a step; the *)
(* marker reads of one batch are one.  A writer runs one operation at a    *)
(* time: appends and retention hold a lock of the process, and the owner   *)
(* loop does not evict while it drains.  A marker that a source appends    *)
(* between two segments of a drain is taken to come before or after it.    *)
(* The source of a log appends its events directly, or feeds its inbox.    *)
(* Leases exclude each other: the next one is granted once the last one    *)
(* has ended. `now' of an operation is read when it starts, so a head with *)
(* a newer fence always carries a lease that ends later, and the Deposed   *)
(* test is the comparison of fences.                                       *)
(*                                                                         *)
(* Abstractions.  A row is its body; every row has one byte.  The inbox is *)
(* a fixed sequence of which a pass may see any part (EventInbox has its   *)
(* slots and holes).  Markers and rows do not outlive their TTL, which is  *)
(* an hour past the retention age, and are taken not to end before         *)
(* retention removes the row.  An end marker is a gap marker that          *)
(* last_gap_seq does not count, like a gap for some readers only.          *)
(***************************************************************************)
EXTENDS Naturals, Sequences, FiniteSets, SequencesExt

CONSTANTS
    Writer,     \* replicas that may own the events
    Event,      \* event ids
    Gap,        \* the body of a gap marker for every reader
    End,        \* the body of a marker for some readers
    NoRow,      \* no row under a sequence number
    NoWriter,   \* no lease
    Feed,       \* the inbox rows, in arrival order
    Direct,     \* what sources may append without the inbox
    HeadEvery,  \* rows append_many writes before it moves the head
    MaxSeq,     \* bound on sequence numbers
    MaxFence,   \* bound on leases granted
    Evicts,     \* retention runs
    Timely,     \* no operation outlives the lease it runs under
    Faults      \* a call may fail, or the writer may stop, at any step

Body == Event \cup {Gap, End}

ASSUME EventLogAssumption ==
    /\ Event \cap {Gap, End, NoRow} = {}
    /\ Gap # End /\ Gap # NoRow /\ End # NoRow
    /\ NoWriter \notin Writer
    /\ Feed \in Seq(Body)
    /\ Direct \subseteq Body
    /\ HeadEvery \in Nat \ {0}
    /\ MaxSeq \in Nat
    /\ MaxFence \in Nat
    /\ {Evicts, Timely, Faults} \subseteq BOOLEAN

SeqNo == 1 .. MaxSeq

VARIABLES
    fed,       \* the source of the log feeds its inbox
    row,       \* the stored rows, by sequence number
    hist,      \* history: the first body ever written under each number
    head,      \* the committed head
    floor,     \* the lowest retained sequence number
    marker,    \* events with a dedup marker
    drained,   \* inbox rows consumed
    leased,    \* the writer whose lease has not ended
    fence,     \* the newest fence granted
    pc,        \* where each writer is in its operation
    kind,      \* which operation: many, single, marker, failing
    lease,     \* the fence of the lease the operation was given
    hd,        \* its in-memory head
    todo,      \* bodies it still has to write
    adopted,   \* the row it found in the slot it tried
    unmarked,  \* events of rows it wrote and has not marked
    wrote,     \* append_many has written a row
    at,        \* inbox rows the running drain has gone through
    end        \* where that drain stops; 0 outside a drain

stored == <<row, hist, head, floor, marker, drained>>
leases == <<leased, fence>>
local == <<pc, kind, lease, hd, todo, adopted, unmarked, wrote, at, end>>
vars == <<fed, stored, leases, local>>

HeadRecord == [seq : Nat, fence : Nat, gap : Nat, bytes : Nat]

EmptyLog == [seq |-> 0, fence |-> 0, gap |-> 0, bytes |-> 0]

Init ==
    /\ fed \in BOOLEAN
    /\ row = [s \in SeqNo |-> NoRow]
    /\ hist = [s \in SeqNo |-> NoRow]
    /\ head = EmptyLog
    /\ floor = 1
    /\ marker = {}
    /\ drained = 0
    /\ leased = NoWriter
    /\ fence = 0
    /\ pc = [w \in Writer |-> "idle"]
    /\ kind = [w \in Writer |-> "single"]
    /\ lease = [w \in Writer |-> 0]
    /\ hd = [w \in Writer |-> EmptyLog]
    /\ todo = [w \in Writer |-> <<>>]
    /\ adopted = [w \in Writer |-> NoRow]
    /\ unmarked = [w \in Writer |-> {}]
    /\ wrote = [w \in Writer |-> FALSE]
    /\ at = [w \in Writer |-> 0]
    /\ end = [w \in Writer |-> 0]

-----------------------------------------------------------------------------
(* Leases.                                                                 *)

Grant(w) ==
    /\ leased = NoWriter
    /\ fence < MaxFence
    /\ leased' = w
    /\ fence' = fence + 1
    /\ UNCHANGED <<stored, local>>

Expire ==
    /\ leased # NoWriter
    /\ Timely => pc[leased] = "idle"
    /\ leased' = NoWriter
    /\ UNCHANGED <<fence, stored, local>>

\* The lease the operation was given has not ended.
Current(w) == leased = w /\ lease[w] = fence

\* writer_head, and the same test in write_row and enforce_retention.
Deposed(w) == head.fence > lease[w]

-----------------------------------------------------------------------------
(* The end of an operation, and its errors.                                *)

Goto(w, place) == pc' = [pc EXCEPT ![w] = place]

\* The operation returns an error, or its process stops.
Quit(w) ==
    /\ Goto(w, "idle")
    /\ todo' = [todo EXCEPT ![w] = <<>>]
    /\ adopted' = [adopted EXCEPT ![w] = NoRow]
    /\ unmarked' = [unmarked EXCEPT ![w] = {}]
    /\ wrote' = [wrote EXCEPT ![w] = FALSE]
    /\ hd' = [hd EXCEPT ![w] = EmptyLog]
    /\ at' = [at EXCEPT ![w] = 0]
    /\ end' = [end EXCEPT ![w] = 0]
    /\ lease' = [lease EXCEPT ![w] = 0]
    /\ kind' = [kind EXCEPT ![w] = "single"]

Abort(w) ==
    /\ Faults
    /\ pc[w] # "idle"
    /\ Quit(w)
    /\ UNCHANGED <<stored, leases>>

\* Mutant: the row that failed is counted.
RescueCounts(w) ==
    /\ kind[w] = "many" /\ wrote[w]
    /\ Goto(w, "commit")
    /\ hd' = [hd EXCEPT ![w].seq = @ + 1]
    /\ kind' = [kind EXCEPT ![w] = "failing"]
    /\ todo' = [todo EXCEPT ![w] = <<>>]
    /\ adopted' = [adopted EXCEPT ![w] = NoRow]
    /\ UNCHANGED <<lease, unmarked, wrote, at, end>>

\* append_many: an error of write_row after some rows were written still
\* commits and marks those rows, best effort.
Rescue(w) ==
    /\ kind[w] = "many" /\ wrote[w]
    /\ Goto(w, "commit")
    /\ kind' = [kind EXCEPT ![w] = "failing"]
    /\ todo' = [todo EXCEPT ![w] = <<>>]
    /\ adopted' = [adopted EXCEPT ![w] = NoRow]
    /\ UNCHANGED <<lease, hd, unmarked, wrote, at, end>>

WriteError(w) ==
    \/ Rescue(w)
    \/ ~(kind[w] = "many" /\ wrote[w]) /\ Quit(w)

\* The operation is done: a drain goes on with its pass.
Return(w) ==
    /\ Goto(w, IF end[w] = 0 THEN "idle" ELSE "pass")
    /\ todo' = [todo EXCEPT ![w] = <<>>]
    /\ adopted' = [adopted EXCEPT ![w] = NoRow]
    /\ unmarked' = [unmarked EXCEPT ![w] = {}]
    /\ wrote' = [wrote EXCEPT ![w] = FALSE]
    /\ hd' = [hd EXCEPT ![w] = EmptyLog]
    /\ lease' = [lease EXCEPT ![w] = IF end[w] = 0 THEN 0 ELSE @]
    /\ kind' = [kind EXCEPT ![w] = "single"]
    /\ UNCHANGED <<at, end>>

-----------------------------------------------------------------------------
(* The operations.                                                         *)

\* append, append_gap, append_end: a body that did not come by the inbox.
StartAppend(w, b) ==
    /\ pc[w] = "idle" /\ leased = w
    /\ b \in Direct
    /\ fed => b \notin Event
    /\ todo' = [todo EXCEPT ![w] = <<b>>]
    /\ kind' = [kind EXCEPT ![w] = IF b \in Event THEN "single" ELSE "marker"]
    /\ Goto(w, IF b \in Event THEN "dedup" ELSE "head")
    /\ lease' = [lease EXCEPT ![w] = fence]
    /\ UNCHANGED <<hd, adopted, unmarked, wrote, at, end, stored, leases>>

\* drain_inbox: the rows of this pass are read.
StartDrain(w) ==
    /\ fed
    /\ pc[w] = "idle" /\ leased = w
    /\ \E e \in (drained + 1) .. Len(Feed) : end' = [end EXCEPT ![w] = e]
    /\ at' = [at EXCEPT ![w] = drained]
    /\ lease' = [lease EXCEPT ![w] = fence]
    /\ Goto(w, "pass")
    /\ UNCHANGED <<kind, hd, todo, adopted, unmarked, wrote, stored, leases>>

\* The events up to the next marker row go to append_many, a marker row to
\* append_marker.
Segment(w) ==
    /\ pc[w] = "pass" /\ at[w] < end[w]
    /\ LET events(k) == \A i \in (at[w] + 1) .. k : Feed[i] \in Event
       IN \/ /\ Feed[at[w] + 1] \notin Event
             /\ todo' = [todo EXCEPT ![w] = <<Feed[at[w] + 1]>>]
             /\ at' = [at EXCEPT ![w] = @ + 1]
             /\ kind' = [kind EXCEPT ![w] = "marker"]
             /\ Goto(w, "head")
          \/ \E k \in (at[w] + 1) .. end[w] :
             /\ events(k)
             /\ k < end[w] => ~events(k + 1)
             /\ todo' = [todo EXCEPT ![w] = SubSeq(Feed, at[w] + 1, k)]
             /\ at' = [at EXCEPT ![w] = k]
             /\ kind' = [kind EXCEPT ![w] = "many"]
             /\ Goto(w, "dedup")
    /\ UNCHANGED <<lease, hd, adopted, unmarked, wrote, end, stored, leases>>

\* Mutant: the count is one too far.
PutDrainedNext(w) ==
    /\ pc[w] = "pass" /\ at[w] = end[w]
    /\ drained' = end[w] + 1
    /\ Quit(w)
    /\ UNCHANGED <<row, hist, head, floor, marker, leases>>

\* The drained count is put when the pass is through.
PutDrained(w) ==
    /\ pc[w] = "pass" /\ at[w] = end[w]
    /\ drained' = end[w]
    /\ Quit(w)
    /\ UNCHANGED <<row, hist, head, floor, marker, leases>>

\* The first occurrence of each event that has no marker yet.
Unseen(s) ==
    LET first(i) == \A j \in 1 .. i - 1 : s[j] # s[i]
        keep == {i \in 1 .. Len(s) : s[i] \notin marker /\ first(i)}
    IN [i \in 1 .. Cardinality(keep) |->
            s[CHOOSE k \in keep : Cardinality({j \in keep : j <= k}) = i]]

\* Mutant: an event is marked before its row is written.
DedupMarks(w) ==
    /\ pc[w] = "dedup"
    /\ todo' = [todo EXCEPT ![w] = Unseen(todo[w])]
    /\ marker' = marker \cup Range(todo[w])
    /\ Goto(w, "head")
    /\ UNCHANGED <<row, hist, head, floor, drained, leases,
                   kind, lease, hd, adopted, unmarked, wrote, at, end>>

\* The dedup markers are read.  append returns on a marked event.
Dedup(w) ==
    /\ pc[w] = "dedup"
    /\ IF kind[w] = "single" /\ Unseen(todo[w]) = <<>>
       THEN Return(w)
       ELSE /\ todo' = [todo EXCEPT ![w] = Unseen(todo[w])]
            /\ Goto(w, "head")
            /\ UNCHANGED <<kind, lease, hd, adopted, unmarked, wrote, at, end>>
    /\ UNCHANGED <<stored, leases>>

\* The lease is checked and the head is read.
ReadHead(w) ==
    /\ pc[w] = "head"
    /\ \/ (~Current(w) \/ Deposed(w)) /\ Quit(w)
       \/ /\ Current(w) /\ ~Deposed(w)
          /\ IF todo[w] = <<>>
             THEN Return(w)
             ELSE /\ hd' = [hd EXCEPT ![w] = head]
                  /\ Goto(w, IF kind[w] = "many" THEN "check" ELSE "row")
                  /\ UNCHANGED <<kind, lease, todo, adopted, unmarked, wrote, at, end>>
    /\ UNCHANGED <<stored, leases>>

\* append_many checks the lease before every row.
Check(w) ==
    /\ pc[w] = "check"
    /\ IF Current(w)
       THEN /\ Goto(w, "row")
            /\ UNCHANGED <<kind, lease, hd, todo, adopted, unmarked, wrote, at, end>>
       ELSE WriteError(w)
    /\ UNCHANGED <<stored, leases>>

\* write_row returns: the first body of todo has the row the in-memory head h
\* ends at.  append_many moves the head every HeadEvery rows and at the end.
Written(w, h) ==
    /\ hd' = [hd EXCEPT ![w] = h]
    /\ todo' = [todo EXCEPT ![w] = Tail(@)]
    /\ adopted' = [adopted EXCEPT ![w] = NoRow]
    /\ unmarked' = [unmarked EXCEPT ![w] = @ \cup ({Head(todo[w])} \cap Event)]
    /\ wrote' = [wrote EXCEPT ![w] = TRUE]
    /\ Goto(w, IF kind[w] # "many" THEN "put_head"
               ELSE IF Len(todo[w]) = 1 \/ Cardinality(unmarked'[w]) >= HeadEvery THEN "commit"
               ELSE "check")
    /\ UNCHANGED <<kind, lease, at, end>>

\* No row is stored under the number.
Free(s) == row[s] = NoRow

\* write_row: put_if_absent of the slot after the head in memory.  A call that
\* failed may have been applied.
WriteRow(w) ==
    /\ pc[w] = "row"
    /\ hd[w].seq < MaxSeq
    /\ LET s == hd[w].seq + 1
           body == Head(todo[w])
           put == /\ Free(s)
                  /\ row' = [row EXCEPT ![s] = body]
                  /\ hist' = [hist EXCEPT ![s] = IF @ = NoRow THEN body ELSE @]
       IN \/ /\ put
             /\ Written(w, [seq |-> s, fence |-> lease[w],
                            gap |-> IF body = Gap THEN s ELSE hd[w].gap,
                            bytes |-> hd[w].bytes + 1])
          \/ /\ ~Free(s)
             /\ Goto(w, "adopt")
             /\ UNCHANGED <<kind, lease, hd, todo, adopted, unmarked, wrote, at, end, row, hist>>
          \/ /\ Faults
             /\ put \/ UNCHANGED <<row, hist>>
             /\ WriteError(w)
    /\ UNCHANGED <<head, floor, marker, drained, leases>>

\* Mutant: an adopted row is not counted.
AdoptedUncounted(w) ==
    IF head.seq > hd[w].seq THEN head ELSE [hd[w] EXCEPT !.seq = @ + 1]

\* The head in memory after the taken slot: the committed head when it has
\* passed the slot, otherwise one row further.
Adopted(w) ==
    IF head.seq > hd[w].seq THEN head
    ELSE [hd[w] EXCEPT !.seq = @ + 1,
                       !.bytes = IF row[hd[w].seq + 1] = NoRow THEN @ ELSE @ + 1]

\* write_row: the slot is taken.  The row and the head are read; an event found
\* there gets its marker, any other row is passed.
Adopt(w) ==
    /\ pc[w] = "adopt"
    /\ LET found == row[hd[w].seq + 1]
       IN \/ (Deposed(w) \/ Faults) /\ WriteError(w)
          \/ /\ ~Deposed(w)
             /\ hd' = [hd EXCEPT ![w] = Adopted(w)]
             /\ adopted' = [adopted EXCEPT ![w] = IF found \in Event THEN found ELSE NoRow]
             /\ Goto(w, IF found \in Event THEN "adopt_mark" ELSE "row")
             /\ UNCHANGED <<kind, lease, todo, unmarked, wrote, at, end>>
    /\ UNCHANGED <<stored, leases>>

\* The marker of the event found, which ends the loop when it is the event to
\* append.
MarkAdopted(w) ==
    /\ pc[w] = "adopt_mark"
    /\ \/ /\ marker' = marker \cup {adopted[w]}
          /\ IF adopted[w] = Head(todo[w])
             THEN Written(w, [hd[w] EXCEPT !.fence = lease[w]])
             ELSE /\ Goto(w, "row")
                  /\ adopted' = [adopted EXCEPT ![w] = NoRow]
                  /\ UNCHANGED <<kind, lease, hd, todo, unmarked, wrote, at, end>>
       \/ /\ Faults
          /\ marker' \in {marker, marker \cup {adopted[w]}}
          /\ WriteError(w)
    /\ UNCHANGED <<row, hist, head, floor, drained, leases>>

\* commit_marked does not start past the lease.
Commit(w) ==
    /\ pc[w] = "commit"
    /\ IF Current(w)
       THEN /\ Goto(w, "put_head")
            /\ UNCHANGED <<kind, lease, hd, todo, adopted, unmarked, wrote, at, end>>
       ELSE Quit(w)
    /\ UNCHANGED <<stored, leases>>

\* commit_head: the head is put, whatever head is there by now.
PutHead(w) ==
    /\ pc[w] = "put_head"
    /\ head' = hd[w]
    /\ Goto(w, "mark")
    /\ UNCHANGED <<row, hist, floor, marker, drained, leases,
                   kind, lease, hd, todo, adopted, unmarked, wrote, at, end>>

\* The markers of the rows the head now covers, in any order.
Mark(w, e) ==
    /\ pc[w] = "mark"
    /\ e \in unmarked[w]
    /\ marker' = marker \cup {e}
    /\ unmarked' = [unmarked EXCEPT ![w] = @ \ {e}]
    /\ UNCHANGED <<row, hist, head, floor, drained, leases,
                   pc, kind, lease, hd, todo, adopted, wrote, at, end>>

Marked(w) ==
    /\ pc[w] = "mark"
    /\ unmarked[w] = {}
    /\ IF kind[w] = "failing" THEN Quit(w)
       ELSE IF todo[w] = <<>> THEN Return(w)
       ELSE /\ Goto(w, "check")
            /\ UNCHANGED <<kind, lease, hd, todo, adopted, unmarked, wrote, at, end>>
    /\ UNCHANGED <<stored, leases>>

\* Mutant: the floor may pass the slot after the head.
EvictablePast == (floor + 1) .. (head.seq + 2)

\* Where a retention pass may move the floor.
Evictable == (floor + 1) .. (head.seq + 1)

\* enforce_retention: the head, the floor and the oldest rows are read.  How
\* many rows go depends on their age, count and bytes; a missing row at the
\* floor always goes.
StartRetain(w) ==
    /\ Evicts
    /\ pc[w] = "idle" /\ leased = w
    /\ head.seq > 0 /\ head.fence <= fence
    /\ \E f \in Evictable :
        /\ f <= head.seq => row[f] # NoRow
        /\ LET gone == {s \in floor .. f - 1 : row[s] # NoRow}
               left == IF f > head.seq \/ Cardinality(gone) > head.bytes
                       THEN 0 ELSE head.bytes - Cardinality(gone)
           IN hd' = [hd EXCEPT ![w] = [head EXCEPT !.bytes = left]]
        /\ end' = [end EXCEPT ![w] = f]
    /\ at' = [at EXCEPT ![w] = floor]
    /\ lease' = [lease EXCEPT ![w] = fence]
    /\ Goto(w, "put_floor")
    /\ UNCHANGED <<kind, todo, adopted, unmarked, wrote, stored, leases>>

PutFloor(w) ==
    /\ pc[w] = "put_floor"
    /\ floor' = end[w]
    /\ Goto(w, "put_bytes")
    /\ UNCHANGED <<row, hist, head, marker, drained, leases,
                   kind, lease, hd, todo, adopted, unmarked, wrote, at, end>>

\* The head read at the start is put back with its new byte count.
PutBytes(w) ==
    /\ pc[w] = "put_bytes"
    /\ head' = hd[w]
    /\ Goto(w, "evict")
    /\ UNCHANGED <<row, hist, floor, marker, drained, leases,
                   kind, lease, hd, todo, adopted, unmarked, wrote, at, end>>

\* Mutant: the row at the new floor goes too.
EvictInclusive(w) ==
    /\ pc[w] = "evict"
    /\ IF at[w] > end[w]
       THEN Quit(w) /\ UNCHANGED row
       ELSE /\ row' = [row EXCEPT ![at[w]] = NoRow]
            /\ at' = [at EXCEPT ![w] = @ + 1]
            /\ UNCHANGED <<pc, kind, lease, hd, todo, adopted, unmarked, wrote, end>>
    /\ UNCHANGED <<hist, head, floor, marker, drained, leases>>

Evict(w) ==
    /\ pc[w] = "evict"
    /\ IF at[w] = end[w]
       THEN Quit(w) /\ UNCHANGED row
       ELSE /\ row' = [row EXCEPT ![at[w]] = NoRow]
            /\ at' = [at EXCEPT ![w] = @ + 1]
            /\ UNCHANGED <<pc, kind, lease, hd, todo, adopted, unmarked, wrote, end>>
    /\ UNCHANGED <<hist, head, floor, marker, drained, leases>>

Step(w) ==
    \/ \E b \in Direct : StartAppend(w, b)
    \/ StartDrain(w) \/ Segment(w) \/ PutDrained(w)
    \/ Dedup(w) \/ ReadHead(w) \/ Check(w) \/ WriteRow(w) \/ Adopt(w)
    \/ MarkAdopted(w) \/ Commit(w) \/ PutHead(w) \/ (\E e \in unmarked[w] : Mark(w, e)) \/ Marked(w)
    \/ StartRetain(w) \/ PutFloor(w) \/ PutBytes(w) \/ Evict(w)

Next ==
    /\ Expire \/ \E w \in Writer : Grant(w) \/ Abort(w) \/ Step(w)
    /\ UNCHANGED fed

Spec == Init /\ [][Next]_vars

-----------------------------------------------------------------------------
(* Properties.                                                             *)

\* Every variable stays within its range.
TypeOK ==
    /\ fed \in BOOLEAN
    /\ row \in [SeqNo -> Body \cup {NoRow}]
    /\ hist \in [SeqNo -> Body \cup {NoRow}]
    /\ head \in HeadRecord
    /\ floor \in Nat
    /\ marker \subseteq Event
    /\ drained \in 0 .. Len(Feed)
    /\ leased \in Writer \cup {NoWriter}
    /\ fence \in 0 .. MaxFence
    /\ pc \in [Writer -> {"idle", "pass", "dedup", "head", "check", "row", "adopt", "adopt_mark",
                          "commit", "put_head", "mark", "put_floor", "put_bytes", "evict"}]
    /\ kind \in [Writer -> {"many", "single", "marker", "failing"}]
    /\ lease \in [Writer -> 0 .. MaxFence]
    /\ hd \in [Writer -> HeadRecord]
    /\ todo \in [Writer -> Seq(Body)]
    /\ adopted \in [Writer -> Event \cup {NoRow}]
    /\ unmarked \in [Writer -> SUBSET Event]
    /\ wrote \in [Writer -> BOOLEAN]
    /\ at \in [Writer -> Nat]
    /\ end \in [Writer -> Nat]

\* No operation outlives its lease, or no row is ever evicted.
Orderly == Timely \/ ~Evicts

\* The rows a reader may be given: every row committed so far.
Committed == [s \in 1 .. head.seq |-> hist[s]]

Readers == INSTANCE AppendOnlyLog WITH log <- Committed, floor <- floor

\* While no operation outlives its lease, crashes, failed calls, adopted rows
\* and retention leave the log what its readers are promised.
ReadersPromise == Readers!Spec

\* Every row between the floor and the head is in the store, as it was first
\* written: while no operation outlives its lease, and, without retention, also
\* while an operation that does runs beside the next owner's, whose head it may
\* put back.
NoHoles ==
    Orderly => \A s \in floor .. head.seq : row[s] = hist[s] /\ row[s] # NoRow

\* Slots above the head that hold rows of a writer that stopped before it moved
\* the head: the next append finds and adopts them one after the other.
Adoptable(s) == \A t \in (head.seq + 1) .. s : t \in SeqNo /\ row[t] # NoRow

\* An inbox row that was consumed has its event in the log: in a committed row,
\* or in one the next append adopts.
NothingLost ==
    Orderly => \A i \in 1 .. drained :
        \E s \in SeqNo : hist[s] = Feed[i] /\ Adoptable(s)

\* A dedup marker is never ahead of the row of its event.
MarkedIsWritten ==
    Orderly => \A e \in marker : \E s \in SeqNo : hist[s] = e /\ Adoptable(s)

\* The byte count retention works from is never under what is retained.
BytesCover ==
    Orderly => head.bytes >= Cardinality({s \in floor .. head.seq : row[s] # NoRow})

-----------------------------------------------------------------------------
(* What comments in the code say of the log, and the code does not do.     *)

\* append_many: "the new markers written at once once the head covers their
\* rows".  An inbox row that was consumed has its event at or below the head.
DrainedIsReadable ==
    \A i \in 1 .. drained : \E s \in 1 .. head.seq : hist[s] = Feed[i]

=============================================================================
