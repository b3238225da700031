-------------------------- MODULE EventInboxProofs --------------------------
(***************************************************************************)
(* Theorems of EventInbox: type correctness and the bound on the rows that *)
(* wait, whatever the timing; that accepted events are kept until they are *)
(* logged or dropped and that none is overtaken, when the grace is long    *)
(* enough; and how often a failed pass may repeat an event.                *)
(***************************************************************************)
EXTENDS EventInbox, FiniteSetTheorems, SequenceTheorems, WellFoundedInduction, TLAPS

(* What every pass and every turn rests on, whatever the timing.           *)

\* A replica's view of the drained count is at most behind.
Turns == \A r \in Replica : seen[r] <= drained

\* The slots a pass works on are reserved, and not drained yet.
PassRange ==
    /\ dpc \in {"fetch", "pass"} =>
        /\ upto <= counter
        /\ drained <= upto
        /\ \A n \in toread : drained < n /\ n <= upto
    /\ dpc = "pass" => toread = {}
    /\ dpc \in {"append", "delete"} =>
        /\ upto <= counter
        /\ drained <= upto
        /\ \A n \in taken : drained < n /\ n <= upto
    /\ dpc = "append" => \A n \in taken : fetched[n] # Nobody

\* A slot is closed when no row can come to it that the log does not have and
\* that shape did not drop.
NoWriter(m) == \A s \in Sender : ask[s] = "writing" => slot[s] # m

Closed(m) == inrow[m] \in Logged \/ (NoWriter(m) /\ (inrow[m] = Nobody \/ m \in dropped))

\* Rows being written go to reserved slots that are free, each its own.
Writers ==
    /\ \A s \in Sender : ask[s] = "writing" =>
        /\ drained < slot[s]
        /\ slot[s] <= counter
        /\ inrow[slot[s]] = Nobody
    /\ \A s, t \in Sender : ask[s] = "writing" /\ ask[t] = "writing" /\ s # t => slot[s] # slot[t]
    /\ \A n \in Slot : n > counter => inrow[n] = Nobody

\* Every slot up to one in the log is drained or closed.
Covered ==
    \A i \in 1 .. Len(log) :
        /\ log[i].slot <= counter
        /\ \A m \in Slot : drained < m /\ m <= log[i].slot => Closed(m)

\* A hole is skipped once nobody can fill it.
Waits ==
    /\ hole <= counter
    /\ ripe => hole # 0 /\ NoWriter(hole)

\* What a pass has read is still so.
Reads ==
    dpc \in {"fetch", "pass"} => \A n \in Slot : drained < n /\ n <= upto /\ n \notin toread =>
        /\ fetched[n] # Nobody => inrow[n] = fetched[n]
        /\ ripe /\ n = hole => inrow[n] = fetched[n]

\* What it appends are the rows up to where it goes; the other slots are closed.
Takes ==
    dpc = "append" => \A n \in Slot : drained < n /\ n <= upto =>
        /\ fetched[n] # Nobody => n \in taken /\ inrow[n] = fetched[n]
        /\ fetched[n] = Nobody => Closed(n)

\* What it deletes is in the log or was dropped.
Deletes ==
    dpc = "delete" => \A n \in Slot : drained < n /\ n <= upto =>
        /\ Closed(n)
        /\ n \in taken => inrow[n] \in Logged \/ n \in dropped

\* Replicas between the check of the limit and the step of the counter.
Stepping == {r \in Replica : turn[r] = "step"}

Others == Cardinality(Replica \ Stepping)

\* The limit, per replica that may be over it.
RoomLeft ==
    \/ counter <= drained + MaxRows * Others
    \/ \E r \in Stepping : counter + room[r] <= drained + MaxRows * (Others + 1)

\* What holds whatever the timing.
Basic == TypeOK /\ Turns /\ PassRange

\* What dedup knows is in the log.
Marks == marked \subseteq Logged

\* An event that dedup does not know was appended by passes that failed.
Repeats == \A s \in Named : Cardinality(Copies(s)) <= (IF s \in marked THEN 1 ELSE 0) + broken

-----------------------------------------------------------------------------
(* Facts about the operators.                                              *)

\* A set of numbers has a least element, and Min is that one.
LEMMA MinOf ==
    ASSUME NEW S \in SUBSET Nat, S # {}
    PROVE  Min(S) \in S /\ \A x \in S : Min(S) <= x
<1>1. IsWellFoundedOn(OpToRel(<, Nat), Nat)
  BY NatLessThanWellFounded
<1>2. PICK m \in S : \A y \in S : ~ (<<y, m>> \in OpToRel(<, Nat))
  BY <1>1, WFMin, Zenon
<1>3. \A y \in S : ~(y < m)
  BY <1>2, Zenon DEF OpToRel
<1>4. \E x \in S : \A y \in S : x <= y
  BY <1>3
<1> QED BY <1>4 DEF Min

\* Sets of slots are finite.
LEMMA SlotsFinite ==
    ASSUME NEW S \in SUBSET Slot
    PROVE  IsFiniteSet(S) /\ Cardinality(S) \in Nat
<1>1. IsFiniteSet(Slot)
  BY EventInboxAssumption, FS_Interval DEF Slot
<1>2. IsFiniteSet(S)
  BY <1>1, FS_Subset
<1> QED BY <1>2, FS_CardinalityType

\* Where a pass stops: at a slot without a row, after slots that have one or
\* that were waited out.
LEMMA StopFacts ==
    ASSUME Basic, dpc = "pass"
    PROVE  /\ Stop \in Nat /\ drained < Stop /\ Stop <= upto + 1
           /\ \A n \in Slot : drained < n /\ n < Stop => fetched[n] # Nobody \/ n \in WaitedOut
<1>1. /\ drained \in Nat /\ upto \in Nat /\ counter \in Nat /\ MaxSlot \in Nat
      /\ drained <= upto /\ upto <= counter /\ counter <= MaxSlot
  BY EventInboxAssumption DEF Basic, TypeOK, PassRange
<1> DEFINE M == Missing \ WaitedOut
<1>2. \A n \in Slot : drained < n /\ n <= upto => fetched[n] # Nobody \/ n \in WaitedOut \/ n \in M
  BY <1>1 DEF Missing, Slot
<1>3. M \in SUBSET Nat /\ \A n \in M : drained < n /\ n <= upto
  BY <1>1 DEF Missing
<1>4. Stop = IF M = {} THEN upto + 1 ELSE Min(M)
  BY DEF Stop
<1> HIDE DEF M
<1>5. CASE M = {}
  BY <1>1, <1>2, <1>4, <1>5 DEF Slot
<1>6. CASE M # {}
  <2>1. Min(M) \in M /\ \A x \in M : Min(M) <= x
    BY <1>3, <1>6, MinOf
  <2> QED BY <1>1, <1>2, <1>3, <1>4, <1>6, <2>1 DEF Slot
<1> QED BY <1>5, <1>6

\* What fits leaves the inbox within its limit.
LEMMA FitsFacts ==
    ASSUME Basic, NEW r \in Replica, NEW n \in Nat
    PROVE  /\ Fits(r, n) \in 0 .. MaxRows
           /\ Fits(r, n) > 0 => counter + Fits(r, n) <= drained + MaxRows
<1>1. /\ counter \in Nat /\ drained \in Nat /\ seen[r] \in Nat /\ MaxRows \in Nat
      /\ seen[r] <= drained /\ drained <= counter
  BY EventInboxAssumption DEF Basic, TypeOK, Turns
<1> QED BY <1>1 DEF Fits

\* So does what a turn decides.
LEMMA TurnFits ==
    ASSUME Basic, NEW r \in Replica,
           NEW k \in {Fits(r, Cardinality(asks[r]))} \cup (IF counter > seen[r] THEN {0} ELSE {}),
           k # 0
    PROVE  k \in 0 .. MaxRows /\ counter + k <= drained + MaxRows
<1>1. asks[r] \in SUBSET Sender
  BY DEF Basic, TypeOK
<1>2. Cardinality(asks[r]) \in Nat
  BY <1>1, EventInboxAssumption, FS_Subset, FS_CardinalityType
<1>3. k = Fits(r, Cardinality(asks[r]))
  OBVIOUS
<1> QED BY <1>2, <1>3, FitsFacts

-----------------------------------------------------------------------------
(* Type correctness.                                                       *)

\* Types, by what they are about.
InboxT ==
    /\ counter \in 0 .. MaxSlot
    /\ drained \in 0 .. counter
    /\ inrow \in [Slot -> Sender \cup {Nobody}]

SendersT ==
    /\ ask \in [Sender -> {"new", "waiting", "writing", "accepted", "refused", "failed"}]
    /\ slot \in [Sender -> 0 .. MaxSlot]

TurnsT ==
    /\ turn \in [Replica -> {"idle", "count", "step"}]
    /\ asks \in [Replica -> SUBSET Sender]
    /\ seen \in [Replica -> 0 .. MaxSlot]
    /\ room \in [Replica -> 0 .. MaxRows]

LogT == log \in Seq([event : Sender, slot : Slot])

MarksT == marked \subseteq Named /\ dropped \subseteq Slot

DrainT ==
    /\ dpc \in {"idle", "fetch", "pass", "append", "delete"}
    /\ toread \subseteq Slot
    /\ fetched \in [Slot -> Sender \cup {Nobody}]
    /\ upto \in 0 .. MaxSlot
    /\ taken \subseteq Slot

WaitT == hole \in 0 .. MaxSlot

RipeT == ripe \in BOOLEAN

FaultsT == faults \in 0 .. Faults /\ broken \in 0 .. faults

LEMMA TypeParts ==
    TypeOK <=> InboxT /\ SendersT /\ TurnsT /\ LogT /\ MarksT /\ DrainT /\ WaitT /\ RipeT /\ FaultsT
BY DEF TypeOK, InboxT, SendersT, TurnsT, LogT, MarksT, DrainT, WaitT, RipeT, FaultsT

LEMMA TypePartsNext ==
    TypeOK' <=> InboxT' /\ SendersT' /\ TurnsT' /\ LogT' /\ MarksT' /\ DrainT' /\ WaitT' /\ RipeT' /\ FaultsT'
BY DEF TypeOK, InboxT, SendersT, TurnsT, LogT, MarksT, DrainT, WaitT, RipeT, FaultsT

LEMMA BasicInit == Init => Basic
<1> SUFFICES ASSUME Init PROVE Basic
  OBVIOUS
<1> USE EventInboxAssumption
<1>1. InboxT /\ SendersT /\ TurnsT
  BY DEF Init, InboxT, SendersT, TurnsT
<1>2. LogT /\ MarksT /\ DrainT /\ WaitT /\ FaultsT
  BY DEF Init, LogT, MarksT, DrainT, WaitT, FaultsT
<1>3. Turns /\ PassRange
  BY DEF Init, Turns, PassRange
<1>4. RipeT
  BY Zenon DEF Init, RipeT
<1> QED BY <1>1, <1>2, <1>3, <1>4, TypeParts DEF Basic

LEMMA FunctionIsSeq ==
    ASSUME NEW T, NEW c \in Nat, NEW f \in [1 .. c -> T]
    PROVE  f \in Seq(T) /\ Len(f) = c
<1>1. f \in Seq(T)
  BY SeqDef, Zenon
<1>2. Len(f) \in Nat /\ DOMAIN f = 1 .. Len(f)
  BY <1>1, LenProperties
<1>3. 1 .. Len(f) = 1 .. c
  BY <1>2
<1>4. \A k \in Nat : (1 <= k /\ k <= Len(f)) <=> (1 <= k /\ k <= c)
  BY <1>2, <1>3
<1> QED BY <1>1, <1>2, <1>4

LEMMA Continued ==
    ASSUME NEW T, NEW old \in Seq(T), NEW c \in Nat, NEW f \in [1 .. c -> T]
    PROVE  /\ old \o f \in Seq(T)
           /\ Len(old \o f) = Len(old) + c
           /\ \A i \in 1 .. Len(old) : (old \o f)[i] = old[i]
           /\ \A i \in 1 .. c : (old \o f)[Len(old) + i] = f[i]
<1>1. f \in Seq(T) /\ Len(f) = c
  BY FunctionIsSeq
<1>2. Len(old) \in Nat
  BY LenProperties
<1>3. /\ old \o f \in Seq(T)
      /\ Len(old \o f) = Len(old) + Len(f)
      /\ \A i \in 1 .. Len(old) + Len(f) :
              (old \o f)[i] = IF i <= Len(old) THEN old[i] ELSE f[i - Len(old)]
  BY <1>1, ConcatProperties, Zenon
<1>4. ASSUME NEW i \in 1 .. Len(old) PROVE (old \o f)[i] = old[i]
  BY <1>1, <1>2, <1>3
<1>5. ASSUME NEW i \in 1 .. c PROVE (old \o f)[Len(old) + i] = f[i]
  <2>1. Len(old) + i \in 1 .. Len(old) + Len(f) /\ ~(Len(old) + i <= Len(old))
    BY <1>1, <1>2
  <2>2. (Len(old) + i) - Len(old) = i
    BY <1>2
  <2> QED BY <1>3, <2>1, <2>2
<1> QED BY <1>1, <1>3, <1>4, <1>5

\* Rows appended in the order of their slots: the log is continued by them.
LEMMA Appended ==
    ASSUME Basic, dpc = "append", NEW S \in SUBSET taken, AppendInOrder(S)
    PROVE  \E c \in Nat : \E q \in [1 .. c -> S] :
              /\ Range(q) = S
              /\ \A i, j \in 1 .. c : i < j => q[i] < q[j]
              /\ log' \in Seq([event : Sender, slot : Slot])
              /\ Len(log') = Len(log) + c
              /\ \A i \in 1 .. Len(log) : log'[i] = log[i]
              /\ \A i \in 1 .. c : log'[Len(log) + i] = Entry(q[i])
<1> DEFINE c == Cardinality(S)
<1> DEFINE T == [event : Sender, slot : Slot]
<1>1. S \in SUBSET Slot
  BY DEF Basic, TypeOK
<1>2. c \in Nat
  BY <1>1, SlotsFinite
<1> HIDE DEF c
<1>3. \A n \in S : Entry(n) \in T
  BY <1>1 DEF Basic, TypeOK, PassRange, Entry
<1>4. PICK q \in [1 .. c -> S] :
        /\ Range(q) = S
        /\ \A i, j \in DOMAIN q : i < j => q[i] < q[j]
        /\ log' = log \o [i \in 1 .. c |-> Entry(q[i])]
  BY DEF AppendInOrder, c
<1> DEFINE more == [i \in 1 .. c |-> Entry(q[i])]
<1>5. more \in [1 .. c -> T] /\ \A i \in 1 .. c : more[i] = Entry(q[i])
  BY <1>3, <1>4
<1>6. log' = log \o more
  BY <1>4
<1> HIDE DEF more, T
<1>7. log \in Seq(T)
  BY DEF Basic, TypeOK, T
<1>8. /\ log' \in Seq(T)
      /\ Len(log') = Len(log) + c
      /\ \A i \in 1 .. Len(log) : log'[i] = log[i]
      /\ \A i \in 1 .. c : log'[Len(log) + i] = more[i]
  <2>1. more \in [1 .. c -> T]
    BY <1>5
  <2>2. /\ log \o more \in Seq(T)
        /\ Len(log \o more) = Len(log) + c
        /\ \A i \in 1 .. Len(log) : (log \o more)[i] = log[i]
        /\ \A i \in 1 .. c : (log \o more)[Len(log) + i] = more[i]
    BY <1>2, <1>7, <2>1, Continued
  <2> QED BY <1>6, <2>2, Zenon
<1>9. \A i \in 1 .. c : log'[Len(log) + i] = Entry(q[i])
  BY <1>5, <1>8
<1>10. /\ Range(q) = S
       /\ \A i, j \in 1 .. c : i < j => q[i] < q[j]
  BY <1>4
<1> QED BY <1>2, <1>8, <1>9, <1>10 DEF T

LEMMA AppendTyped ==
    ASSUME Basic, dpc = "append", NEW S \in SUBSET taken, AppendInOrder(S)
    PROVE  LogT'
BY Appended DEF LogT

\* An append adds the rows of the slots S, a first part of the news of the pass;
\* the events it marks are then in the log.
Adds(S, drops, own) ==
    /\ dpc = "append"
    /\ S \in SUBSET News(drops, own)
    /\ \A n \in S : \A m \in News(drops, own) : m <= n => m \in S
    /\ AppendInOrder(S)
    /\ dropped' = dropped \cup drops
    /\ marked \subseteq marked'
    /\ \A s \in marked' : \/ s \in marked \cup Unmarked
                          \/ /\ s \in Named
                             /\ \E n \in taken \ drops :
                                  /\ fetched[n] = s
                                  /\ \A m \in News(drops, own) : m <= n => m \in S
    /\ \/ broken' = broken + 1
       \/ broken' = broken /\ NamedIn(S) \subseteq marked'

LEMMA EventsAdded ==
    ASSUME AppendEvents
    PROVE  \E drops \in SUBSET taken, own \in SUBSET Unmarked : Adds(News(drops, own), drops, own)
<1>1. PICK drops \in SUBSET Refusable, found \in SUBSET Unmarked : \E own \in SUBSET found :
        /\ AppendInOrder(News(drops, own))
        /\ marked' = marked \cup found \cup NamedIn(taken \ drops)
        /\ dropped' = dropped \cup drops
  BY DEF AppendEvents
<1>2. PICK own \in SUBSET found :
        /\ AppendInOrder(News(drops, own))
        /\ marked' = marked \cup found \cup NamedIn(taken \ drops)
        /\ dropped' = dropped \cup drops
  BY <1>1
<1>3. drops \in SUBSET taken /\ own \in SUBSET Unmarked
  BY DEF Refusable
<1>4. NamedIn(News(drops, own)) \subseteq marked'
  BY <1>2 DEF NamedIn, News
<1>5. \A s \in NamedIn(taken \ drops) : s \in Named /\ \E n \in taken \ drops : fetched[n] = s
  BY DEF NamedIn
<1>6. dpc = "append" /\ broken' = broken
  BY DEF AppendEvents
<1>7. Adds(News(drops, own), drops, own)
  BY <1>2, <1>4, <1>5, <1>6 DEF Adds
<1> QED BY <1>3, <1>7

LEMMA SomeAdded ==
    ASSUME Basic, AppendSome
    PROVE  \E drops \in SUBSET taken, own \in SUBSET Unmarked : \E S \in SUBSET taken : Adds(S, drops, own)
<1>1. PICK drops \in SUBSET Refusable, own \in SUBSET Unmarked :
        \E n \in News(drops, own) \cup {0} :
           LET part == {m \in News(drops, own) : m <= n}
           IN  /\ AppendInOrder(part)
               /\ \E marks \in SUBSET (Unmarked \cup NamedIn(part)) : marked' = marked \cup marks
               /\ dropped' = dropped \cup drops
  BY DEF AppendSome
<1> DEFINE N == News(drops, own)
<1>2. PICK n \in N \cup {0} :
           LET part == {m \in N : m <= n}
           IN  /\ AppendInOrder(part)
               /\ \E marks \in SUBSET (Unmarked \cup NamedIn(part)) : marked' = marked \cup marks
               /\ dropped' = dropped \cup drops
  BY <1>1
<1> DEFINE S == {m \in N : m <= n}
<1>3. PICK marks \in SUBSET (Unmarked \cup NamedIn(S)) :
        AppendInOrder(S) /\ marked' = marked \cup marks /\ dropped' = dropped \cup drops
  BY <1>2
<1>4. N \subseteq taken \ drops /\ taken \subseteq Nat /\ drops \in SUBSET taken
  BY EventInboxAssumption DEF News, Basic, TypeOK, Slot, Refusable
<1> HIDE DEF N
<1>5. S \in SUBSET N /\ n \in Nat
  BY <1>4
<1>6. \A x \in S : \A m \in N : m <= x => m \in S
  BY <1>4, <1>5
<1> HIDE DEF S
<1>7. \A s \in NamedIn(S) : s \in Named /\ \E m \in S : fetched[m] = s
  BY DEF NamedIn
<1>8. dpc = "append" /\ broken' = broken + 1
  BY DEF AppendSome
<1>9. \A s \in marked' : s \in marked \cup Unmarked \/ s \in NamedIn(S)
  BY <1>3
<1>10. \A s \in NamedIn(S) : /\ s \in Named
                             /\ \E x \in taken \ drops : fetched[x] = s /\ \A m \in N : m <= x => m \in S
  BY <1>4, <1>5, <1>6, <1>7
<1>11. Adds(S, drops, own)
  BY <1>3, <1>5, <1>6, <1>8, <1>9, <1>10 DEF Adds, N
<1> QED BY <1>4, <1>5, <1>11

\* Nothing else changes what was logged.
LEMMA LogStep ==
    ASSUME Basic, [Next]_vars
    PROVE  \/ UNCHANGED logged
           \/ \E drops \in SUBSET taken, own \in SUBSET Unmarked : \E S \in SUBSET taken :
                Adds(S, drops, own)
<1>1. CASE AppendEvents
  <2>1. PICK drops \in SUBSET taken, own \in SUBSET Unmarked : Adds(News(drops, own), drops, own)
    BY <1>1, EventsAdded
  <2>2. News(drops, own) \in SUBSET taken
    BY DEF News
  <2> QED BY <2>1, <2>2
<1>2. CASE FailPass
  BY <1>2, SomeAdded DEF FailPass
<1>3. CASE ~AppendEvents /\ ~FailPass
  BY <1>3, Zenon DEF Next, SenderStep, ReplicaStep, Drain, Ask, PutRow, FailPut, StartTurn,
     Count, Reserve, FailTurn, StartDrain, Fetch, Pass, Delete, PutDrained, GraceEnds, vars
<1> QED BY <1>1, <1>2, <1>3

\* Rows and marks that are added are of the right kind.
LEMMA AddsTyped ==
    ASSUME Basic, NEW drops \in SUBSET taken, NEW own \in SUBSET Unmarked, NEW S \in SUBSET taken,
           Adds(S, drops, own)
    PROVE  LogT' /\ MarksT'
<1>1. LogT'
  BY AppendTyped DEF Adds
<1>2. marked' \subseteq Named
  BY DEF Adds, Basic, TypeOK, Unmarked
<1>3. dropped' \subseteq Slot
  BY DEF Adds, Basic, TypeOK
<1> QED BY <1>1, <1>2, <1>3 DEF MarksT

LEMMA EndTurnTyped ==
    ASSUME Basic, NEW r \in Replica, EndTurn(r)
    PROVE  TurnsT' /\ (drained' = drained => Turns')
<1>1. TurnsT'
  BY EventInboxAssumption DEF Basic, TypeOK, TurnsT, EndTurn
<1>2. drained' = drained => Turns'
  BY EventInboxAssumption DEF Basic, TypeOK, Turns, EndTurn
<1> QED BY <1>1, <1>2

LEMMA BasicNext == Basic /\ [Next]_vars => Basic'
<1> SUFFICES ASSUME Basic, [Next]_vars PROVE Basic'
  OBVIOUS
<1> USE DEF Basic, logged
<1>t. /\ InboxT /\ SendersT /\ TurnsT /\ LogT /\ MarksT /\ DrainT /\ WaitT /\ RipeT /\ FaultsT
      /\ counter \in Nat /\ drained \in Nat /\ drained <= counter /\ counter <= MaxSlot
      /\ MaxSlot \in Nat /\ MaxRows \in Nat /\ Faults \in Nat
  BY TypeParts, EventInboxAssumption DEF InboxT
<1>r. RipeT'
  BY <1>t, Zenon DEF RipeT, Next, SenderStep, ReplicaStep, Drain, Ask, PutRow, FailPut, StartTurn,
     Count, Reserve, FailTurn, StartDrain, Fetch, Pass, AppendEvents, Delete, PutDrained, FailPass,
     GraceEnds, vars, draining
<1>1. ASSUME NEW s \in Sender, Ask(s) PROVE Basic'
  <2>1. SendersT'
    BY <1>t, <1>1 DEF SendersT, Ask
  <2>2. InboxT' /\ TurnsT' /\ LogT' /\ MarksT' /\ DrainT' /\ WaitT' /\ FaultsT'
    BY <1>t, <1>1 DEF Ask, inbox, draining, InboxT, TurnsT, LogT, MarksT, DrainT, WaitT, FaultsT
  <2>3. Turns' /\ PassRange'
    BY <1>1 DEF Ask, inbox, draining, Turns, PassRange
  <2> QED BY <2>1, <2>2, <2>3, <1>r, TypePartsNext
<1>2. ASSUME NEW s \in Sender, PutRow(s) PROVE Basic'
  <2>1. SendersT' /\ InboxT'
    BY <1>t, <1>2 DEF SendersT, InboxT, PutRow
  <2>2. TurnsT' /\ LogT' /\ MarksT' /\ DrainT' /\ WaitT' /\ FaultsT'
    BY <1>t, <1>2 DEF PutRow, draining, TurnsT, LogT, MarksT, DrainT, WaitT, FaultsT
  <2>3. Turns' /\ PassRange'
    BY <1>2 DEF PutRow, draining, Turns, PassRange
  <2> QED BY <2>1, <2>2, <2>3, <1>r, TypePartsNext
<1>3. ASSUME NEW s \in Sender, FailPut(s) PROVE Basic'
  <2>1. SendersT' /\ InboxT' /\ FaultsT'
    BY <1>t, <1>3 DEF SendersT, InboxT, FaultsT, FailPut
  <2>2. TurnsT' /\ LogT' /\ MarksT' /\ DrainT' /\ WaitT'
    BY <1>t, <1>3 DEF FailPut, draining, TurnsT, LogT, MarksT, DrainT, WaitT
  <2>3. Turns' /\ PassRange'
    BY <1>3 DEF FailPut, draining, Turns, PassRange
  <2> QED BY <2>1, <2>2, <2>3, <1>r, TypePartsNext
<1>4. ASSUME NEW r \in Replica, StartTurn(r) PROVE Basic'
  <2>1. TurnsT'
    <3>1. PICK w \in SUBSET Sender : asks' = [asks EXCEPT ![r] = w]
      BY <1>4 DEF StartTurn
    <3> QED BY <1>t, <1>4, <3>1 DEF TurnsT, StartTurn
  <2>2. InboxT' /\ SendersT' /\ LogT' /\ MarksT' /\ DrainT' /\ WaitT' /\ FaultsT'
    BY <1>t, <1>4 DEF StartTurn, inbox, draining, InboxT, SendersT, LogT, MarksT, DrainT, WaitT, FaultsT
  <2>3. Turns' /\ PassRange'
    BY <1>t, <1>4 DEF StartTurn, inbox, draining, Turns, PassRange, TurnsT
  <2> QED BY <2>1, <2>2, <2>3, <1>r, TypePartsNext
<1>5. ASSUME NEW r \in Replica, Count(r) PROVE Basic'
  <2>1. PICK k \in {Fits(r, Cardinality(asks[r]))} \cup (IF counter > seen[r] THEN {0} ELSE {}) :
          IF k = 0
          THEN /\ ask' = [s \in Sender |-> IF s \in asks[r] THEN "refused" ELSE ask[s]]
               /\ EndTurn(r)
          ELSE /\ room' = [room EXCEPT ![r] = k]
               /\ turn' = [turn EXCEPT ![r] = "step"]
               /\ UNCHANGED <<ask, asks, seen>>
    BY <1>5 DEF Count
  <2>2. UNCHANGED <<inbox, slot, logged, draining, faults>>
    BY <1>5 DEF Count
  <2>3. InboxT' /\ LogT' /\ MarksT' /\ DrainT' /\ WaitT' /\ FaultsT' /\ PassRange'
    BY <1>t, <2>2 DEF inbox, draining, InboxT, LogT, MarksT, DrainT, WaitT, FaultsT, PassRange
  <2>4. CASE k = 0
    <3>1. SendersT'
      BY <1>t, <2>1, <2>2, <2>4 DEF SendersT
    <3>2. TurnsT' /\ Turns'
      BY <2>1, <2>2, <2>4, EndTurnTyped DEF inbox
    <3> QED BY <2>3, <3>1, <3>2, <1>r, TypePartsNext
  <2>5. CASE k # 0
    <3>1. k \in 0 .. MaxRows
      BY <2>1, <2>5, TurnFits
    <3>2. TurnsT' /\ SendersT' /\ Turns'
      BY <1>t, <2>1, <2>2, <2>5, <3>1 DEF TurnsT, SendersT, Turns, inbox
    <3> QED BY <2>3, <3>2, <1>r, TypePartsNext
  <2> QED BY <2>4, <2>5
<1>6. ASSUME NEW r \in Replica, Reserve(r) PROVE Basic'
  <2>1. /\ EndTurn(r) /\ drained' = drained
        /\ UNCHANGED <<inrow, logged, draining, faults>>
        /\ counter' = counter + room[r] /\ counter + room[r] <= MaxSlot
    BY <1>6 DEF Reserve
  <2>2. room[r] \in Nat
    BY <1>t DEF TurnsT
  <2>3. InboxT' /\ LogT' /\ MarksT' /\ DrainT' /\ WaitT' /\ FaultsT'
    BY <1>t, <2>1, <2>2 DEF draining, InboxT, LogT, MarksT, DrainT, WaitT, FaultsT
  <2>4. PassRange'
    <3>1. counter <= counter' /\ counter' \in Nat
      BY <1>t, <2>1, <2>2
    <3>2. upto \in Nat
      BY <1>t DEF DrainT
    <3> QED BY <1>t, <2>1, <3>1, <3>2 DEF draining, PassRange
  <2>5. TurnsT' /\ Turns'
    BY <2>1, EndTurnTyped
  <2>6. SendersT'
    <3>1. PICK f \in [1 .. room[r] -> asks[r]] :
            /\ slot' = [s \in Sender |-> IF s \in Range(f)
                             THEN counter + (CHOOSE i \in 1 .. room[r] : f[i] = s)
                             ELSE slot[s]]
            /\ ask' = [s \in Sender |-> IF s \in Range(f) THEN "writing"
                                        ELSE IF s \in asks[r] THEN "refused"
                                        ELSE ask[s]]
      BY <1>6 DEF Reserve
    <3>2. ASSUME NEW s \in Range(f)
          PROVE  counter + (CHOOSE i \in 1 .. room[r] : f[i] = s) \in 0 .. MaxSlot
      <4>1. \E i \in 1 .. room[r] : f[i] = s
        BY <3>1, <3>2 DEF Range
      <4>2. (CHOOSE i \in 1 .. room[r] : f[i] = s) \in 1 .. room[r]
        BY <4>1
      <4> QED BY <1>t, <2>1, <2>2, <4>2
    <3> QED BY <1>t, <3>1, <3>2 DEF SendersT
  <2> QED BY <2>3, <2>4, <2>5, <2>6, <1>r, TypePartsNext
<1>7. ASSUME NEW r \in Replica, FailTurn(r) PROVE Basic'
  <2>1. /\ EndTurn(r) /\ drained' = drained
        /\ UNCHANGED <<inrow, slot, logged, draining>>
        /\ \/ counter' = counter
           \/ counter' = counter + room[r] /\ counter + room[r] <= MaxSlot
    BY <1>7 DEF FailTurn
  <2>2. room[r] \in Nat
    BY <1>t DEF TurnsT
  <2>3. InboxT' /\ LogT' /\ MarksT' /\ DrainT' /\ WaitT'
    BY <1>t, <2>1, <2>2 DEF draining, InboxT, LogT, MarksT, DrainT, WaitT
  <2>4. PassRange'
    <3>1. counter <= counter' /\ counter' \in Nat
      BY <1>t, <2>1, <2>2
    <3>2. upto \in Nat
      BY <1>t DEF DrainT
    <3> QED BY <1>t, <2>1, <3>1, <3>2 DEF draining, PassRange
  <2>5. TurnsT' /\ Turns'
    BY <2>1, EndTurnTyped
  <2>6. SendersT' /\ FaultsT'
    BY <1>t, <1>7 DEF FailTurn, SendersT, FaultsT
  <2> QED BY <2>3, <2>4, <2>5, <2>6, <1>r, TypePartsNext
<1>8. ASSUME StartDrain PROVE Basic'
  <2>1. DrainT'
    BY <1>t, <1>8 DEF StartDrain, DrainT, Slot
  <2>2. InboxT' /\ SendersT' /\ TurnsT' /\ LogT' /\ MarksT' /\ WaitT' /\ FaultsT'
    BY <1>t, <1>8 DEF StartDrain, inbox, sending, InboxT, SendersT, TurnsT, LogT, MarksT, WaitT, FaultsT
  <2>3. Turns' /\ PassRange'
    BY <1>t, <1>8 DEF StartDrain, inbox, sending, Turns, PassRange
  <2> QED BY <2>1, <2>2, <2>3, <1>r, TypePartsNext
<1>9. ASSUME NEW n \in Slot, Fetch(n) PROVE Basic'
  <2>1. DrainT'
    BY <1>t, <1>9 DEF Fetch, DrainT, InboxT
  <2>2. InboxT' /\ SendersT' /\ TurnsT' /\ LogT' /\ MarksT' /\ WaitT' /\ FaultsT'
    BY <1>t, <1>9 DEF Fetch, inbox, sending, InboxT, SendersT, TurnsT, LogT, MarksT, WaitT, FaultsT
  <2>3. Turns' /\ PassRange'
    BY <1>t, <1>9 DEF Fetch, inbox, sending, Turns, PassRange
  <2> QED BY <2>1, <2>2, <2>3, <1>r, TypePartsNext
<1>10. ASSUME Pass PROVE Basic'
  <2>1. Stop \in Nat /\ drained < Stop /\ Stop <= upto + 1
    BY <1>10, StopFacts DEF Pass
  <2>2. upto \in Nat /\ upto <= MaxSlot /\ upto <= counter
    BY <1>t, <1>10 DEF DrainT, PassRange, Pass
  <2>3. taken' \subseteq Slot /\ \A n \in taken' : drained < n /\ n <= Stop - 1 /\ fetched[n] # Nobody
    <3>1. taken' = {m \in (drained + 1) .. (Stop - 1) : fetched[m] # Nobody}
      BY <1>10 DEF Pass, Rows
    <3> QED BY <1>t, <2>1, <2>2, <3>1 DEF Slot
  <2>4. DrainT' /\ WaitT'
    BY <1>t, <1>10, <2>1, <2>2, <2>3 DEF Pass, DrainT, WaitT
  <2>5. InboxT' /\ SendersT' /\ TurnsT' /\ LogT' /\ MarksT' /\ FaultsT'
    BY <1>t, <1>10 DEF Pass, inbox, sending, InboxT, SendersT, TurnsT, LogT, MarksT, FaultsT
  <2>6. Turns' /\ PassRange'
    BY <1>t, <1>10, <2>1, <2>2, <2>3 DEF Pass, inbox, sending, Turns, PassRange
  <2> QED BY <2>4, <2>5, <2>6, <1>r, TypePartsNext
<1>11. ASSUME AppendEvents PROVE Basic'
  <2>1. LogT' /\ MarksT'
    <3>1. PICK drops \in SUBSET taken, own \in SUBSET Unmarked : Adds(News(drops, own), drops, own)
      BY <1>11, EventsAdded
    <3>2. News(drops, own) \in SUBSET taken
      BY DEF News
    <3> QED BY <3>1, <3>2, AddsTyped
  <2>2. InboxT' /\ SendersT' /\ TurnsT' /\ DrainT' /\ WaitT' /\ FaultsT'
    BY <1>t, <1>11 DEF AppendEvents, inbox, sending, InboxT, SendersT, TurnsT, DrainT, WaitT, FaultsT
  <2>3. Turns' /\ PassRange'
    BY <1>t, <1>11 DEF AppendEvents, inbox, sending, Turns, PassRange
  <2> QED BY <2>1, <2>2, <2>3, <1>r, TypePartsNext
<1>12. ASSUME NEW n \in Slot, Delete(n) PROVE Basic'
  <2>1. InboxT' /\ DrainT'
    BY <1>t, <1>12 DEF Delete, InboxT, DrainT
  <2>2. SendersT' /\ TurnsT' /\ LogT' /\ MarksT' /\ WaitT' /\ FaultsT'
    BY <1>t, <1>12 DEF Delete, sending, SendersT, TurnsT, LogT, MarksT, WaitT, FaultsT
  <2>3. Turns' /\ PassRange'
    BY <1>t, <1>12 DEF Delete, sending, Turns, PassRange
  <2> QED BY <2>1, <2>2, <2>3, <1>r, TypePartsNext
<1>13. ASSUME PutDrained PROVE Basic'
  <2>1. upto \in Nat /\ drained <= upto /\ upto <= counter
    BY <1>t, <1>13 DEF PutDrained, PassRange, DrainT
  <2>2. InboxT' /\ DrainT'
    BY <1>t, <1>13, <2>1 DEF PutDrained, EndPass, InboxT, DrainT
  <2>3. SendersT' /\ TurnsT' /\ LogT' /\ MarksT' /\ WaitT' /\ FaultsT'
    BY <1>t, <1>13 DEF PutDrained, sending, SendersT, TurnsT, LogT, MarksT, WaitT, FaultsT
  <2>4. Turns'
    <3>1. \A r \in Replica : seen[r] \in Nat
      BY <1>t DEF TurnsT
    <3> QED BY <1>t, <1>13, <2>1, <3>1 DEF PutDrained, sending, Turns
  <2>5. PassRange'
    BY <1>13 DEF PutDrained, EndPass, PassRange
  <2> QED BY <2>2, <2>3, <2>4, <2>5, <1>r, TypePartsNext
<1>14. ASSUME FailPass PROVE Basic'
  <2>1. LogT' /\ MarksT'
    <3>1. CASE UNCHANGED logged
      BY <1>t, <3>1 DEF LogT, MarksT
    <3>2. CASE AppendSome
      BY <3>2, SomeAdded, AddsTyped
    <3> QED BY <1>14, <3>1, <3>2 DEF FailPass
  <2>2. WaitT' /\ DrainT'
    BY <1>t, <1>14 DEF FailPass, EndPass, WaitT, DrainT
  <2>f. FaultsT'
    <3>1. faults' = faults + 1 /\ faults < Faults /\ broken' \in {broken, broken + 1}
      BY <1>14 DEF FailPass, AppendSome
    <3> QED BY <1>t, <3>1 DEF FaultsT
  <2>3. InboxT' /\ SendersT' /\ TurnsT'
    BY <1>t, <1>14 DEF FailPass, inbox, sending, InboxT, SendersT, TurnsT
  <2>4. Turns' /\ PassRange'
    BY <1>14 DEF FailPass, EndPass, inbox, sending, Turns, PassRange
  <2> QED BY <2>1, <2>2, <2>f, <2>3, <2>4, <1>r, TypePartsNext
<1>15. ASSUME GraceEnds PROVE Basic'
  <2>1. WaitT'
    BY <1>t, <1>15 DEF GraceEnds, WaitT
  <2>2. InboxT' /\ SendersT' /\ TurnsT' /\ LogT' /\ MarksT' /\ DrainT' /\ FaultsT'
    BY <1>t, <1>15 DEF GraceEnds, inbox, sending, InboxT, SendersT, TurnsT, LogT, MarksT, DrainT, FaultsT
  <2>3. Turns' /\ PassRange'
    BY <1>15 DEF GraceEnds, inbox, sending, Turns, PassRange
  <2> QED BY <2>1, <2>2, <2>3, <1>r, TypePartsNext
<1>16. ASSUME UNCHANGED vars PROVE Basic'
  BY <1>16 DEF vars, inbox, sending, draining, TypeOK, Turns, PassRange
<1> QED
  BY <1>1, <1>2, <1>3, <1>4, <1>5, <1>6, <1>7, <1>8, <1>9, <1>10, <1>11, <1>12, <1>13, <1>14,
     <1>15, <1>16
     DEF Next, SenderStep, ReplicaStep, Drain

\* EventInbox: every variable stays within its range, for any number of senders
\* and replicas and any timing; a pass never reads beyond the counter.
THEOREM TypeCorrect == Spec => []TypeOK
<1>1. Basic => TypeOK
  BY DEF Basic
<1> QED BY <1>1, BasicInit, BasicNext, PTL DEF Spec

-----------------------------------------------------------------------------
(* The limit on rows.  A replica that has not stepped the counter yet      *)
(* decided with a counter and a drained count of its own time; RoomLeft    *)
(* says that the last of them to decide leaves room for those before it.   *)

LEMMA OthersNat == Others \in Nat
<1>1. IsFiniteSet(Replica \ Stepping)
  BY EventInboxAssumption, FS_Subset
<1> QED BY <1>1, FS_CardinalityType DEF Others

\* One replica more.
LEMMA OneMore ==
    ASSUME NEW S \in SUBSET Replica, NEW r \in S
    PROVE  /\ Cardinality(Replica \ (S \ {r})) = Cardinality(Replica \ S) + 1
           /\ Cardinality(Replica \ S) + 1 <= Cardinality(Replica)
<1>1. IsFiniteSet(Replica \ S) /\ IsFiniteSet(Replica)
  BY EventInboxAssumption, FS_Subset
<1>2. r \notin Replica \ S /\ Replica \ (S \ {r}) = (Replica \ S) \cup {r}
  OBVIOUS
<1>3. Cardinality((Replica \ S) \cup {r}) = Cardinality(Replica \ S) + 1
  BY <1>1, <1>2, FS_AddElement
<1>4. Cardinality(Replica \ (S \ {r})) <= Cardinality(Replica)
  BY <1>1, FS_Subset
<1> QED BY <1>2, <1>3, <1>4

LEMMA RoomType ==
    ASSUME Basic
    PROVE  /\ counter \in Nat /\ drained \in Nat /\ MaxRows \in Nat
           /\ \A r \in Replica : room[r] \in Nat /\ room[r] <= MaxRows
BY EventInboxAssumption DEF Basic, TypeOK

\* Steps that do not touch the turns, or leave the replica out of them.
LEMMA RoomKept ==
    ASSUME Basic, RoomLeft, counter' = counter, drained' \in Nat, drained <= drained',
           Stepping' = Stepping, \A r \in Stepping : room'[r] = room[r]
    PROVE  RoomLeft'
<1>1. Others' = Others
  BY DEF Others
<1>2. Others \in Nat /\ Stepping \in SUBSET Replica
  BY OthersNat DEF Stepping
<1> DEFINE one == MaxRows * Others
<1> DEFINE two == MaxRows * (Others + 1)
<1>3. one \in Nat /\ two \in Nat
  BY <1>2, RoomType
<1>4. RoomLeft <=> (counter <= drained + one \/ \E r \in Stepping : counter + room[r] <= drained + two)
  BY DEF RoomLeft
<1>5. RoomLeft' <=> (counter' <= drained' + one \/ \E r \in Stepping : counter' + room'[r] <= drained' + two)
  BY <1>1 DEF RoomLeft
<1> HIDE DEF one, two
<1>6. CASE counter <= drained + one
  BY <1>3, <1>5, <1>6, RoomType
<1>7. CASE \E r \in Stepping : counter + room[r] <= drained + two
  <2>1. PICK r \in Stepping : counter + room[r] <= drained + two
    BY <1>7
  <2>2. counter' + room'[r] <= drained' + two
    BY <1>2, <1>3, <2>1, RoomType
  <2> QED BY <1>5, <2>2
<1> QED BY <1>4, <1>6, <1>7

\* A replica leaves the turn after its check, with or without its step.
LEMMA RoomStep ==
    ASSUME Basic, RoomLeft, NEW r \in Stepping, drained' = drained, Stepping' = Stepping \ {r},
           \A p \in Stepping \ {r} : room'[p] = room[p],
           counter' \in {counter, counter + room[r]}
    PROVE  RoomLeft'
<1>1. Others' = Others + 1
  BY OneMore DEF Others, Stepping
<1>2. Others \in Nat /\ Stepping \in SUBSET Replica
  BY OthersNat DEF Stepping
<1> DEFINE one == MaxRows * Others
<1> DEFINE two == MaxRows * (Others + 1)
<1> DEFINE three == MaxRows * ((Others + 1) + 1)
<1>3. one \in Nat /\ two = one + MaxRows /\ three = two + MaxRows /\ two \in Nat /\ three \in Nat
  BY <1>2, RoomType
<1>4. RoomLeft <=> (counter <= drained + one \/ \E p \in Stepping : counter + room[p] <= drained + two)
  BY DEF RoomLeft
<1>5. RoomLeft' <=> (counter' <= drained + two
                     \/ \E p \in Stepping \ {r} : counter' + room'[p] <= drained + three)
  BY <1>1 DEF RoomLeft
<1> HIDE DEF one, two, three
<1>6. CASE counter <= drained + one
  <2>1. counter' <= drained + two
    BY <1>2, <1>3, <1>6, RoomType
  <2> QED BY <1>5, <2>1
<1>7. CASE \E p \in Stepping : counter + room[p] <= drained + two
  <2>1. PICK p \in Stepping : counter + room[p] <= drained + two
    BY <1>7
  <2>2. CASE p = r
    <3>1. counter' <= drained + two
      BY <1>2, <1>3, <2>1, <2>2, RoomType
    <3> QED BY <1>5, <3>1
  <2>3. CASE p # r
    <3>1. counter' + room'[p] <= drained + three
      BY <1>2, <1>3, <2>1, <2>3, RoomType
    <3> QED BY <1>5, <2>3, <3>1
  <2> QED BY <2>2, <2>3
<1> QED BY <1>4, <1>6, <1>7

LEMMA RoomNext == Basic /\ RoomLeft /\ [Next]_vars => RoomLeft'
<1> SUFFICES ASSUME Basic, RoomLeft, [Next]_vars PROVE RoomLeft'
  OBVIOUS
<1>t. /\ turn \in [Replica -> {"idle", "count", "step"}] /\ room \in [Replica -> 0 .. MaxRows]
      /\ counter \in Nat /\ drained \in Nat
  BY EventInboxAssumption DEF Basic, TypeOK
<1>1. CASE \/ UNCHANGED <<counter, drained, turn, room>>
           \/ UNCHANGED <<counter, turn, room>> /\ drained' \in Nat /\ drained <= drained'
  BY <1>t, <1>1, RoomKept DEF Stepping
<1>2. ASSUME NEW r \in Replica, StartTurn(r) PROVE RoomLeft'
  <2>1. Stepping' = Stepping
    BY <1>t, <1>2 DEF StartTurn, Stepping
  <2> QED BY <1>t, <1>2, <2>1, RoomKept DEF StartTurn, inbox
<1>3. ASSUME NEW r \in Replica, turn[r] = "count", EndTurn(r), UNCHANGED <<counter, drained>>
      PROVE  RoomLeft'
  <2>1. Stepping' = Stepping /\ \A p \in Stepping : room'[p] = room[p]
    BY <1>t, <1>3 DEF EndTurn, Stepping
  <2> QED BY <1>t, <1>3, <2>1, RoomKept
<1>4. ASSUME NEW r \in Replica, turn[r] = "step", EndTurn(r), drained' = drained,
             counter' \in {counter, counter + room[r]}
      PROVE  RoomLeft'
  <2>1. Stepping' = Stepping \ {r} /\ r \in Stepping /\ \A p \in Stepping \ {r} : room'[p] = room[p]
    BY <1>t, <1>4 DEF EndTurn, Stepping
  <2> QED BY <1>4, <2>1, RoomStep
<1>5. ASSUME NEW r \in Replica, Count(r) PROVE RoomLeft'
  <2>1. PICK k \in {Fits(r, Cardinality(asks[r]))} \cup (IF counter > seen[r] THEN {0} ELSE {}) :
          IF k = 0
          THEN EndTurn(r)
          ELSE /\ room' = [room EXCEPT ![r] = k]
               /\ turn' = [turn EXCEPT ![r] = "step"]
    BY <1>5 DEF Count
  <2>2. turn[r] = "count" /\ counter' = counter /\ drained' = drained
    BY <1>5 DEF Count, inbox
  <2>3. CASE k = 0
    BY <1>3, <2>1, <2>2, <2>3
  <2>4. CASE k # 0
    <3>1. k \in Nat /\ counter + k <= drained + MaxRows
      BY <2>1, <2>4, TurnFits
    <3>2. r \in Stepping' /\ room'[r] = k
      BY <1>t, <2>1, <2>4 DEF Stepping
    <3>3. (Others \in Nat)'
      <4>1. IsFiniteSet(Replica \ Stepping')
        BY EventInboxAssumption, FS_Subset
      <4> QED BY <4>1, FS_CardinalityType DEF Others
    <3>4. MaxRows <= MaxRows * (Others' + 1)
      <4>1. MaxRows * (Others' + 1) = MaxRows * Others' + MaxRows /\ MaxRows * Others' \in Nat
        BY <3>3, RoomType
      <4> QED BY <4>1, RoomType
    <3>5. counter' + room'[r] <= drained' + MaxRows * (Others' + 1)
      <4>1. MaxRows * (Others' + 1) \in Nat
        BY <3>3, RoomType
      <4> QED BY <2>2, <3>1, <3>2, <3>4, <4>1, RoomType
    <3> QED BY <3>2, <3>5 DEF RoomLeft
  <2> QED BY <2>3, <2>4
<1>6. ASSUME NEW r \in Replica, Reserve(r) PROVE RoomLeft'
  BY <1>4, <1>6 DEF Reserve
<1>7. ASSUME NEW r \in Replica, FailTurn(r) PROVE RoomLeft'
  <2>1. turn[r] = "count" => counter' = counter
    BY <1>7 DEF FailTurn
  <2>2. turn[r] = "count" \/ turn[r] = "step"
    BY <1>t, <1>7 DEF FailTurn
  <2>3. EndTurn(r) /\ drained' = drained /\ counter' \in {counter, counter + room[r]}
    BY <1>7 DEF FailTurn
  <2> QED BY <1>3, <1>4, <2>1, <2>2, <2>3
<1>8. ASSUME NEW s \in Sender, SenderStep(s) PROVE RoomLeft'
  BY <1>1, <1>8 DEF SenderStep, Ask, PutRow, FailPut, inbox
<1>9. ASSUME PutDrained PROVE RoomLeft'
  <2>1. upto \in Nat /\ drained <= upto
    BY <1>9 DEF PutDrained, Basic, PassRange, TypeOK
  <2> QED BY <1>1, <1>9, <2>1 DEF PutDrained, sending
<1>10. ASSUME Drain, ~PutDrained PROVE RoomLeft'
  BY <1>1, <1>10 DEF Drain, StartDrain, Fetch, Pass, AppendEvents, Delete, inbox, sending
<1>11. ASSUME FailPass \/ GraceEnds \/ UNCHANGED vars PROVE RoomLeft'
  BY <1>1, <1>11 DEF FailPass, GraceEnds, vars, inbox, sending
<1> QED
  BY <1>2, <1>5, <1>6, <1>7, <1>8, <1>9, <1>10, <1>11 DEF Next, ReplicaStep

LEMMA RoomBounds == Basic /\ RoomLeft => PendingBounded
<1> SUFFICES ASSUME Basic, RoomLeft PROVE PendingBounded
  OBVIOUS
<1> DEFINE all == Cardinality(Replica)
<1>1. Others \in Nat /\ all \in Nat
  BY OthersNat, EventInboxAssumption, FS_CardinalityType
<1>2. Others <= all
  <2>1. Replica \ Stepping \subseteq Replica
    OBVIOUS
  <2> QED BY <2>1, EventInboxAssumption, FS_Subset DEF Others
<1>3. CASE counter <= drained + MaxRows * Others
  <2>1. MaxRows * Others <= MaxRows * all /\ MaxRows * Others \in Nat /\ MaxRows * all \in Nat
    BY <1>1, <1>2, RoomType
  <2> QED BY <1>3, <2>1, RoomType DEF PendingBounded
<1>4. CASE \E r \in Stepping : counter + room[r] <= drained + MaxRows * (Others + 1)
  <2>1. PICK r \in Stepping : counter + room[r] <= drained + MaxRows * (Others + 1)
    BY <1>4
  <2>2. Others + 1 <= all /\ r \in Replica
    BY OneMore DEF Others, Stepping
  <2> HIDE DEF all
  <2>3. MaxRows * (Others + 1) <= MaxRows * all /\ MaxRows * (Others + 1) \in Nat /\ MaxRows * all \in Nat
    BY <1>1, <2>2, RoomType
  <2>4. counter - drained <= MaxRows * all
    BY <2>1, <2>2, <2>3, RoomType
  <2> QED BY <2>4 DEF PendingBounded, all
<1> QED BY <1>3, <1>4 DEF RoomLeft

\* EventInbox: however the turns of the replicas interleave with each other and
\* with the owner's passes, at most one full turn of each replica waits.
THEOREM PendingIsBounded == Spec => []PendingBounded
<1>1. Init => RoomLeft
  <2> SUFFICES ASSUME Init PROVE RoomLeft
    OBVIOUS
  <2>1. MaxRows * Others \in Nat
    BY OthersNat, EventInboxAssumption
  <2> QED BY <2>1 DEF Init, RoomLeft
<1> QED BY <1>1, BasicInit, BasicNext, RoomNext, RoomBounds, PTL DEF Spec

-----------------------------------------------------------------------------
(* What is accepted is kept, when rows are written before the grace ends.  *)

\* The invariant while the grace is long enough.
Kept ==
    /\ Writers /\ Covered /\ Waits /\ Reads /\ Takes /\ Deletes
    /\ Marks /\ AcceptedKept /\ NoneOvertaken

LEMMA LoggedType == Basic => Logged \subseteq Sender /\ Nobody \notin Logged
<1> SUFFICES ASSUME Basic PROVE Logged \subseteq Sender /\ Nobody \notin Logged
  OBVIOUS
<1>1. log \in Seq([event : Sender, slot : Slot])
  BY DEF Basic, TypeOK
<1>2. \A i \in 1 .. Len(log) : log[i] \in [event : Sender, slot : Slot]
  <2>1. log \in [1 .. Len(log) -> [event : Sender, slot : Slot]]
    BY <1>1, LenProperties
  <2> QED BY <2>1
<1>3. \A i \in 1 .. Len(log) : log[i].event \in Sender
  BY <1>2
<1>4. Logged \subseteq Sender
  BY <1>3 DEF Logged
<1> QED BY <1>4, EventInboxAssumption

\* What the log has stays in it.
LEMMA LogGrows ==
    ASSUME Basic, [Next]_vars
    PROVE  /\ Len(log') \in Nat /\ Len(log) \in Nat /\ Len(log) <= Len(log')
           /\ \A i \in 1 .. Len(log) : log'[i] = log[i]
           /\ Logged \subseteq Logged'
           /\ dropped \subseteq dropped'
<1>1. Len(log) \in Nat
  BY DEF Basic, TypeOK
<1>2. /\ Len(log') \in Nat /\ Len(log) <= Len(log')
      /\ \A i \in 1 .. Len(log) : log'[i] = log[i]
      /\ dropped \subseteq dropped'
  <2>1. CASE UNCHANGED logged
    BY <1>1, <2>1 DEF logged
  <2>2. ASSUME NEW drops \in SUBSET taken, NEW own \in SUBSET Unmarked, NEW S \in SUBSET taken,
               Adds(S, drops, own)
        PROVE  /\ Len(log') \in Nat /\ Len(log) <= Len(log')
               /\ \A i \in 1 .. Len(log) : log'[i] = log[i]
               /\ dropped \subseteq dropped'
    <3>1. dpc = "append" /\ AppendInOrder(S) /\ dropped \subseteq dropped'
      BY <2>2 DEF Adds
    <3> QED BY <1>1, <3>1, Appended
  <2> QED BY <2>1, <2>2, LogStep
<1>3. Logged \subseteq Logged'
  <2> SUFFICES ASSUME NEW i \in 1 .. Len(log) PROVE log[i].event \in Logged'
    BY DEF Logged
  <2>1. i \in 1 .. Len(log') /\ log'[i] = log[i]
    BY <1>1, <1>2
  <2> QED BY <2>1 DEF Logged
<1> QED BY <1>1, <1>2, <1>3

\* The slots a turn gives out are new, and differ.
LEMMA ReserveFacts ==
    ASSUME Basic, NEW r \in Replica, Reserve(r)
    PROVE  /\ \A s \in Sender : ask'[s] = "writing" =>
                \/ ask[s] = "writing" /\ slot'[s] = slot[s]
                \/ counter < slot'[s] /\ slot'[s] <= counter'
           /\ \A s, t \in Sender :
                ask'[s] = "writing" /\ ask'[t] = "writing" /\ s # t
                /\ counter < slot'[s] /\ counter < slot'[t] => slot'[s] # slot'[t]
                   \/ (ask[s] = "writing" /\ slot'[s] = slot[s])
                   \/ (ask[t] = "writing" /\ slot'[t] = slot[t])
           /\ \A s \in Sender : ask'[s] = "accepted" => ask[s] = "accepted" /\ slot'[s] = slot[s]
<1>1. /\ counter \in Nat /\ room[r] \in Nat /\ counter' = counter + room[r]
      /\ slot \in [Sender -> 0 .. MaxSlot]
  BY EventInboxAssumption DEF Basic, TypeOK, Reserve
<1>2. PICK f \in [1 .. room[r] -> asks[r]] :
        /\ slot' = [s \in Sender |-> IF s \in Range(f)
                         THEN counter + (CHOOSE i \in 1 .. room[r] : f[i] = s)
                         ELSE slot[s]]
        /\ ask' = [s \in Sender |-> IF s \in Range(f) THEN "writing"
                                    ELSE IF s \in asks[r] THEN "refused"
                                    ELSE ask[s]]
  BY DEF Reserve
<1> DEFINE at(s) == CHOOSE i \in 1 .. room[r] : f[i] = s
<1>3. \A s \in Range(f) : at(s) \in 1 .. room[r] /\ f[at(s)] = s
  <2> SUFFICES ASSUME NEW s \in Range(f) PROVE at(s) \in 1 .. room[r] /\ f[at(s)] = s
    OBVIOUS
  <2>1. \E i \in 1 .. room[r] : f[i] = s
    BY <1>2 DEF Range
  <2> QED BY <2>1
<1>4. \A s \in Sender : /\ slot'[s] = IF s \in Range(f) THEN counter + at(s) ELSE slot[s]
                        /\ ask'[s] = IF s \in Range(f) THEN "writing"
                                     ELSE IF s \in asks[r] THEN "refused" ELSE ask[s]
  BY <1>2
<1> HIDE DEF at
<1>5. \A s \in Range(f) : counter < counter + at(s) /\ counter + at(s) <= counter'
  BY <1>1, <1>3
<1>6. \A s, t \in Range(f) : s # t => counter + at(s) # counter + at(t)
  <2> SUFFICES ASSUME NEW s \in Range(f), NEW t \in Range(f), s # t
               PROVE  counter + at(s) # counter + at(t)
    OBVIOUS
  <2>1. at(s) # at(t)
    BY <1>3
  <2> QED BY <1>1, <1>3, <2>1
<1>7. \A s \in Sender : ask'[s] = "writing" =>
        \/ s \in Range(f) /\ slot'[s] = counter + at(s)
        \/ s \notin Range(f) /\ ask[s] = "writing" /\ slot'[s] = slot[s]
  BY <1>4
<1>8. \A s \in Sender : ask'[s] = "accepted" => ask[s] = "accepted" /\ slot'[s] = slot[s]
  BY <1>4
<1> QED BY <1>5, <1>6, <1>7, <1>8

\* Facts about slots that no step makes false.
LEMMA SlotsStay ==
    ASSUME Basic, Writers, [Next]_vars
    PROVE  /\ counter' \in Nat /\ counter <= counter'
           /\ \A n \in Slot : n <= counter /\ NoWriter(n) => NoWriter(n)'
           /\ \A n \in Slot : n <= counter /\ Closed(n) => Closed(n)'
           /\ \A n \in Slot : inrow[n] # Nobody /\ taken' = taken => inrow'[n] = inrow[n]
           /\ \A n \in Slot : inrow[n] = Nobody /\ NoWriter(n) => inrow'[n] = Nobody
<1>t. /\ counter \in Nat /\ room \in [Replica -> 0 .. MaxRows] /\ slot \in [Sender -> 0 .. MaxSlot]
      /\ inrow \in [Slot -> Sender \cup {Nobody}] /\ MaxRows \in Nat /\ MaxSlot \in Nat
      /\ ask \in [Sender -> {"new", "waiting", "writing", "accepted", "refused", "failed"}]
  BY EventInboxAssumption DEF Basic, TypeOK
<1>1. counter' \in Nat /\ counter <= counter'
  <2>1. \/ counter' = counter
        \/ \E r \in Replica : counter' = counter + room[r]
    BY Zenon DEF Next, SenderStep, ReplicaStep, Drain, Ask, PutRow, FailPut, StartTurn,
         Count, Reserve, FailTurn, StartDrain, Fetch, Pass, AppendEvents, Delete, PutDrained,
         FailPass, GraceEnds, vars, inbox
  <2>2. \A r \in Replica : room[r] \in Nat
    BY <1>t
  <2> QED BY <1>t, <2>1, <2>2
<1>2. \A s \in Sender : ask'[s] = "writing" =>
        \/ ask[s] = "writing" /\ slot'[s] = slot[s]
        \/ counter < slot'[s]
  <2>1. CASE UNCHANGED <<ask, slot>>
    BY <2>1
  <2>2. ASSUME NEW s \in Sender, SenderStep(s)
        PROVE  \A t \in Sender : ask'[t] = "writing" => ask[t] = "writing" /\ slot'[t] = slot[t]
    BY <1>t, <2>2 DEF SenderStep, Ask, PutRow, FailPut
  <2>3. ASSUME NEW r \in Replica, Reserve(r)
        PROVE  \A t \in Sender : ask'[t] = "writing" =>
                   (ask[t] = "writing" /\ slot'[t] = slot[t]) \/ counter < slot'[t]
    BY <2>3, ReserveFacts
  <2>4. ASSUME NEW r \in Replica, StartTurn(r) \/ Count(r) \/ FailTurn(r)
        PROVE  \A t \in Sender : ask'[t] = "writing" => ask[t] = "writing" /\ slot'[t] = slot[t]
    BY <1>t, <2>4 DEF StartTurn, Count, FailTurn
  <2>5. CASE Drain \/ FailPass \/ GraceEnds \/ UNCHANGED vars
    <3>1. UNCHANGED <<ask, slot>>
      BY <2>5, Zenon DEF Drain, StartDrain, Fetch, Pass, AppendEvents, Delete, PutDrained,
         FailPass, GraceEnds, vars, sending
    <3> QED BY <2>1, <3>1
  <2> QED BY <2>2, <2>3, <2>4, <2>5 DEF Next, ReplicaStep
<1>3. \A n \in Slot : n <= counter /\ NoWriter(n) => NoWriter(n)'
  <2> SUFFICES ASSUME NEW n \in Slot, n <= counter, NoWriter(n), NEW s \in Sender,
                      ask'[s] = "writing", slot'[s] = n
               PROVE  FALSE
    BY DEF NoWriter
  <2>1. ~(counter < slot'[s])
    BY <1>t DEF Slot
  <2> QED BY <1>2, <2>1 DEF NoWriter
<1>4. \A n \in Slot :
        \/ inrow'[n] = inrow[n]
        \/ \E s \in Sender : ask[s] = "writing" /\ slot[s] = n
        \/ taken' # taken /\ inrow'[n] = Nobody
  <2>1. CASE inrow' = inrow
    BY <2>1
  <2>2. ASSUME NEW s \in Sender, SenderStep(s)
        PROVE  \A n \in Slot : inrow'[n] = inrow[n] \/ (ask[s] = "writing" /\ slot[s] = n)
    BY <1>t, <2>2 DEF SenderStep, Ask, PutRow, FailPut, inbox
  <2>3. ASSUME NEW m \in Slot, Delete(m)
        PROVE  \A n \in Slot : inrow'[n] = inrow[n] \/ (taken' # taken /\ inrow'[n] = Nobody)
    BY <1>t, <2>3 DEF Delete
  <2>4. ASSUME ~\E s \in Sender : SenderStep(s), ~\E m \in Slot : Delete(m)
        PROVE  inrow' = inrow
    BY <2>4, Zenon DEF Next, ReplicaStep, Drain, StartTurn, Count, Reserve, FailTurn, StartDrain,
         Fetch, Pass, AppendEvents, PutDrained, FailPass, GraceEnds, vars, inbox
  <2> QED BY <2>1, <2>2, <2>3, <2>4
<1>5. \A n \in Slot : inrow[n] # Nobody /\ taken' = taken => inrow'[n] = inrow[n]
  BY <1>4 DEF Writers
<1>6. \A n \in Slot : inrow[n] = Nobody /\ NoWriter(n) => inrow'[n] = Nobody
  BY <1>4 DEF NoWriter
<1>7. \A n \in Slot : n <= counter /\ Closed(n) => Closed(n)'
  <2> SUFFICES ASSUME NEW n \in Slot, n <= counter, Closed(n) PROVE Closed(n)'
    OBVIOUS
  <2>1. Logged \subseteq Logged' /\ Nobody \notin Logged /\ dropped \subseteq dropped'
    BY LogGrows, LoggedType
  <2>2. CASE inrow[n] = Nobody
    <3>1. NoWriter(n)
      BY <2>1, <2>2 DEF Closed
    <3> QED BY <1>3, <1>6, <2>2, <3>1 DEF Closed
  <2>3. CASE inrow[n] # Nobody
    <3>1. (inrow[n] \in Logged \/ n \in dropped) /\ NoWriter(n)
      BY <2>3 DEF Closed, Writers, NoWriter
    <3>2. inrow'[n] = inrow[n] \/ inrow'[n] = Nobody
      BY <1>4, <3>1 DEF NoWriter
    <3> QED BY <1>3, <2>1, <3>1, <3>2 DEF Closed
  <2> QED BY <2>2, <2>3
<1> QED BY <1>1, <1>3, <1>5, <1>6, <1>7

\* Steps of senders and of the slot tasks leave to the owner what it has found.
LEMMA OwnerUndisturbed ==
    ASSUME Basic, Kept, [Next]_vars, UNCHANGED <<logged, drained, draining>>
    PROVE  Covered' /\ Waits' /\ Reads' /\ Takes' /\ Deletes' /\ Marks' /\ NoneOvertaken'
<1>t. /\ counter \in Nat /\ drained \in Nat /\ hole \in Nat /\ upto \in Nat
      /\ log \in Seq([event : Sender, slot : Slot]) /\ counter <= MaxSlot /\ MaxSlot \in Nat
      /\ hole <= MaxSlot
  BY EventInboxAssumption DEF Basic, TypeOK
<1> USE DEF Kept
<1>1. UNCHANGED <<log, marked, dropped, drained, dpc, toread, fetched, upto, taken, hole, ripe>>
  BY DEF draining, logged
<1>2. /\ counter' \in Nat /\ counter <= counter'
      /\ \A n \in Slot : n <= counter /\ NoWriter(n) => NoWriter(n)'
      /\ \A n \in Slot : n <= counter /\ Closed(n) => Closed(n)'
      /\ \A n \in Slot : inrow[n] # Nobody => inrow'[n] = inrow[n]
      /\ \A n \in Slot : inrow[n] = Nobody /\ NoWriter(n) => inrow'[n] = Nobody
  BY <1>1, SlotsStay
<1>3. Covered'
  <2> SUFFICES ASSUME NEW i \in 1 .. Len(log)
               PROVE  /\ log[i].slot <= counter'
                      /\ \A m \in Slot : drained < m /\ m <= log[i].slot => Closed(m)'
    BY <1>1 DEF Covered
  <2>1. log[i].slot \in Slot
    <3>1. log \in [1 .. Len(log) -> [event : Sender, slot : Slot]]
      BY <1>t, LenProperties
    <3> QED BY <3>1
  <2>2. /\ log[i].slot <= counter
        /\ \A m \in Slot : drained < m /\ m <= log[i].slot => Closed(m)
    BY DEF Covered
  <2> QED BY <1>t, <1>2, <2>1, <2>2 DEF Slot
<1>4. Waits'
  <2>1. hole <= counter /\ (ripe => hole # 0 /\ NoWriter(hole))
    BY DEF Waits
  <2>2. hole <= counter'
    BY <1>t, <1>2, <2>1
  <2>3. ASSUME ripe
        PROVE  hole # 0 /\ \A s \in Sender : ask'[s] = "writing" => slot'[s] # hole
    <3>1. hole \in Slot
      BY <1>t, <2>1, <2>3 DEF Slot
    <3> QED BY <1>2, <2>1, <2>3, <3>1 DEF NoWriter
  <2> QED BY <1>1, <2>2, <2>3 DEF Waits, NoWriter
<1>5. Reads'
  <2> SUFFICES ASSUME dpc \in {"fetch", "pass"}, NEW n \in Slot, drained < n, n <= upto, n \notin toread
               PROVE  /\ fetched[n] # Nobody => inrow'[n] = fetched[n]
                      /\ ripe /\ n = hole => inrow'[n] = fetched[n]
    BY <1>1 DEF Reads
  <2>1. /\ fetched[n] # Nobody => inrow[n] = fetched[n]
        /\ ripe /\ n = hole => inrow[n] = fetched[n]
    BY DEF Reads
  <2>2. ripe /\ n = hole => NoWriter(n)
    BY DEF Waits
  <2> QED BY <1>2, <2>1, <2>2
<1>6. Takes'
  <2> SUFFICES ASSUME dpc = "append", NEW n \in Slot, drained < n, n <= upto
               PROVE  /\ fetched[n] # Nobody => n \in taken /\ inrow'[n] = fetched[n]
                      /\ fetched[n] = Nobody => Closed(n)'
    BY <1>1 DEF Takes
  <2>1. /\ fetched[n] # Nobody => n \in taken /\ inrow[n] = fetched[n]
        /\ fetched[n] = Nobody => Closed(n)
    BY DEF Takes
  <2>2. upto <= counter
    BY DEF Basic, PassRange
  <2>3. n <= counter
    BY <1>t, <2>2 DEF Slot
  <2> QED BY <1>2, <2>1, <2>3
<1>7. Deletes'
  <2> SUFFICES ASSUME dpc = "delete", NEW n \in Slot, drained < n, n <= upto
               PROVE  Closed(n)' /\ (n \in taken => inrow'[n] \in Logged' \/ n \in dropped)
    BY <1>1 DEF Deletes
  <2>1. Closed(n) /\ (n \in taken => inrow[n] \in Logged \/ n \in dropped)
    BY DEF Deletes
  <2>2. upto <= counter
    BY DEF Basic, PassRange
  <2>3. n <= counter
    BY <1>t, <2>2 DEF Slot
  <2>4. Logged \subseteq Logged' /\ Nobody \notin Logged
    BY LogGrows, LoggedType
  <2> QED BY <1>2, <2>1, <2>3, <2>4
<1>8. Marks' /\ NoneOvertaken'
  BY <1>1 DEF Marks, NoneOvertaken, Logged
<1> QED BY <1>3, <1>4, <1>5, <1>6, <1>7, <1>8


\* Ask, PutRow, FailPut.
LEMMA SenderKeeps ==
    ASSUME Basic, Kept, NEW s \in Sender, SenderStep(s)
    PROVE  Writers' /\ AcceptedKept'
<1>t. /\ counter \in Nat /\ drained \in Nat /\ slot \in [Sender -> 0 .. MaxSlot]
      /\ inrow \in [Slot -> Sender \cup {Nobody}] /\ MaxSlot \in Nat /\ Nobody \notin Sender
      /\ ask \in [Sender -> {"new", "waiting", "writing", "accepted", "refused", "failed"}]
  BY EventInboxAssumption DEF Basic, TypeOK
<1>1. UNCHANGED <<counter, drained, slot, log, dropped>> /\ Logged' = Logged
  BY DEF SenderStep, Ask, PutRow, FailPut, inbox, Logged, logged
<1>2. ask' \in {[ask EXCEPT ![s] = "waiting"], [ask EXCEPT ![s] = "accepted"], [ask EXCEPT ![s] = "failed"]}
  BY DEF SenderStep, Ask, PutRow, FailPut
<1>3. \/ inrow' = inrow
      \/ inrow' = [inrow EXCEPT ![slot[s]] = s] /\ ask[s] = "writing"
  BY DEF SenderStep, Ask, PutRow, FailPut, inbox
<1>4. \A t \in Sender : ask'[t] = "writing" => ask[t] = "writing" /\ t # s
  BY <1>t, <1>2
<1>5. ask[s] = "writing" => slot[s] \in Slot
  BY <1>t DEF Kept, Writers, Slot
<1>6. \A n \in Slot : inrow'[n] = inrow[n] \/ (n = slot[s] /\ ask[s] = "writing" /\ inrow'[n] = s)
  BY <1>t, <1>3
<1>7. Writers'
  <2>1. ASSUME NEW t \in Sender, ask'[t] = "writing"
        PROVE  drained < slot[t] /\ slot[t] <= counter /\ inrow'[slot[t]] = Nobody
    <3>1. drained < slot[t] /\ slot[t] <= counter /\ inrow[slot[t]] = Nobody
      BY <1>4, <2>1 DEF Kept, Writers
    <3>2. slot[t] \in Slot
      BY <1>t, <3>1 DEF Slot
    <3>3. ask[s] = "writing" => slot[s] # slot[t]
      BY <1>4, <2>1 DEF Kept, Writers
    <3> QED BY <1>6, <3>1, <3>2, <3>3
  <2>2. ASSUME NEW n \in Slot, n > counter PROVE inrow'[n] = Nobody
    <3>1. ask[s] = "writing" => slot[s] # n
      BY <1>t, <2>2 DEF Kept, Writers, Slot
    <3> QED BY <1>6, <2>2, <3>1 DEF Kept, Writers
  <2>3. \A t, u \in Sender : ask'[t] = "writing" /\ ask'[u] = "writing" /\ t # u => slot[t] # slot[u]
    BY <1>4 DEF Kept, Writers
  <2> QED BY <1>1, <2>1, <2>2, <2>3 DEF Writers
<1>8. AcceptedKept'
  <2> SUFFICES ASSUME Prompt /\ Margin, NEW t \in Sender, ask'[t] = "accepted"
               PROVE  t \in Logged \/ slot[t] \in dropped \/ (slot[t] > drained /\ inrow'[slot[t]] = t)
    BY <1>1 DEF AcceptedKept
  <2>1. CASE ask[t] = "accepted"
    <3>1. t \in Logged \/ slot[t] \in dropped \/ (slot[t] > drained /\ inrow[slot[t]] = t)
      BY <2>1 DEF Kept, AcceptedKept
    <3>2. CASE slot[t] > drained /\ inrow[slot[t]] = t
      <4>1. slot[t] \in Slot
        BY <1>t, <3>2 DEF Slot
      <4>2. ask[s] = "writing" => slot[s] # slot[t]
        BY <1>t, <3>2 DEF Kept, Writers
      <4> QED BY <1>6, <3>2, <4>1, <4>2
    <3> QED BY <3>1, <3>2
  <2>2. CASE ask[t] # "accepted"
    <3>1. t = s /\ PutRow(s)
      BY <1>t, <2>2 DEF SenderStep, Ask, PutRow, FailPut
    <3>2. slot[t] > drained /\ slot[t] \in Slot
      BY <1>t, <1>5, <3>1 DEF Kept, Writers, PutRow
    <3>3. inrow'[slot[t]] = t
      BY <1>t, <3>1, <3>2 DEF PutRow
    <3> QED BY <3>2, <3>3
  <2> QED BY <2>1, <2>2
<1> QED BY <1>7, <1>8

\* StartTurn, Count, Reserve, FailTurn.
LEMMA ReplicaKeeps ==
    ASSUME Basic, Kept, NEW r \in Replica, ReplicaStep(r)
    PROVE  Writers' /\ AcceptedKept'
<1>t. /\ counter \in Nat /\ drained \in Nat /\ slot \in [Sender -> 0 .. MaxSlot]
      /\ MaxSlot \in Nat /\ Nobody \notin Sender /\ room[r] \in Nat
      /\ ask \in [Sender -> {"new", "waiting", "writing", "accepted", "refused", "failed"}]
      /\ drained <= counter
  BY EventInboxAssumption DEF Basic, TypeOK
<1>1. UNCHANGED <<inrow, drained, log, dropped>> /\ Logged' = Logged
  BY DEF ReplicaStep, StartTurn, Count, Reserve, FailTurn, inbox, Logged, logged
<1>2. counter' \in Nat /\ counter <= counter'
  BY <1>t DEF ReplicaStep, StartTurn, Count, Reserve, FailTurn, inbox
<1>3. /\ \A s \in Sender : ask'[s] = "writing" =>
           \/ ask[s] = "writing" /\ slot'[s] = slot[s]
           \/ counter < slot'[s] /\ slot'[s] <= counter'
      /\ \A s, t \in Sender :
           ask'[s] = "writing" /\ ask'[t] = "writing" /\ s # t
           /\ counter < slot'[s] /\ counter < slot'[t] => slot'[s] # slot'[t]
              \/ (ask[s] = "writing" /\ slot'[s] = slot[s])
              \/ (ask[t] = "writing" /\ slot'[t] = slot[t])
      /\ \A s \in Sender : ask'[s] = "accepted" => ask[s] = "accepted" /\ slot'[s] = slot[s]
  <2>1. CASE Reserve(r)
    BY <2>1, ReserveFacts
  <2>2. CASE ~Reserve(r)
    <3>1. \A s \in Sender : /\ slot'[s] = slot[s]
                            /\ ask'[s] = "writing" => ask[s] = "writing"
                            /\ ask'[s] = "accepted" => ask[s] = "accepted"
      BY <1>t, <2>2 DEF ReplicaStep, StartTurn, Count, FailTurn
    <3> QED BY <3>1
  <2> QED BY <2>1, <2>2
<1>4. \A s \in Sender : ask[s] = "writing" => drained < slot[s] /\ slot[s] <= counter /\ inrow[slot[s]] = Nobody
  BY DEF Kept, Writers
<1>5. \A n \in Slot : n > counter => inrow[n] = Nobody
  BY DEF Kept, Writers
<1>6. slot' \in [Sender -> 0 .. MaxSlot] /\ counter' <= MaxSlot
  <2>1. TypeOK'
    BY BasicNext DEF Next, Basic
  <2> QED BY <2>1, <1>2 DEF TypeOK
<1>7. Writers'
  <2>1. ASSUME NEW s \in Sender, ask'[s] = "writing"
        PROVE  drained < slot'[s] /\ slot'[s] <= counter' /\ inrow[slot'[s]] = Nobody
    <3>1. CASE ask[s] = "writing" /\ slot'[s] = slot[s]
      BY <1>t, <1>2, <1>4, <3>1
    <3>2. CASE counter < slot'[s] /\ slot'[s] <= counter'
      <4>1. slot'[s] \in Slot
        BY <1>t, <1>2, <1>6, <3>2 DEF Slot
      <4> QED BY <1>t, <1>2, <1>5, <3>2, <4>1 DEF Slot
    <3> QED BY <1>3, <2>1, <3>1, <3>2
  <2>2. ASSUME NEW s \in Sender, NEW t \in Sender, ask'[s] = "writing", ask'[t] = "writing", s # t
        PROVE  slot'[s] # slot'[t]
    <3>1. slot'[s] \in Nat /\ slot'[t] \in Nat
      BY <1>6
    <3>2. CASE ask[s] = "writing" /\ slot'[s] = slot[s] /\ ask[t] = "writing" /\ slot'[t] = slot[t]
      BY <2>2, <3>2 DEF Kept, Writers
    <3>3. CASE ~(ask[s] = "writing" /\ slot'[s] = slot[s]) /\ ask[t] = "writing" /\ slot'[t] = slot[t]
      BY <1>t, <1>3, <1>4, <2>2, <3>1, <3>3
    <3>4. CASE ~(ask[t] = "writing" /\ slot'[t] = slot[t]) /\ ask[s] = "writing" /\ slot'[s] = slot[s]
      BY <1>t, <1>3, <1>4, <2>2, <3>1, <3>4
    <3>5. CASE ~(ask[t] = "writing" /\ slot'[t] = slot[t]) /\ ~(ask[s] = "writing" /\ slot'[s] = slot[s])
      BY <1>3, <2>2, <3>5
    <3> QED BY <3>2, <3>3, <3>4, <3>5
  <2>3. \A n \in Slot : n > counter' => inrow[n] = Nobody
    BY <1>t, <1>2, <1>5 DEF Slot
  <2> QED BY <1>1, <2>1, <2>2, <2>3 DEF Writers
<1>8. AcceptedKept'
  BY <1>1, <1>3 DEF Kept, AcceptedKept
<1> QED BY <1>7, <1>8

\* Steps of the owner leave the senders alone: what was accepted is in the log or
\* dropped, or its row is still there, as long as rows are only deleted and
\* counted when the log has them or shape dropped them.
LEMMA OwnerKeeps ==
    ASSUME Basic, Kept, [Next]_vars, UNCHANGED <<counter, sending>>,
           \A n \in Slot : \/ inrow'[n] = inrow[n]
                           \/ (inrow[n] \in Logged \/ n \in dropped) /\ inrow'[n] = Nobody,
           \/ drained' = drained
           \/ drained <= drained' /\ \A n \in Slot : drained < n /\ n <= drained' => Closed(n)
    PROVE  Writers' /\ AcceptedKept'
<1>t. /\ counter \in Nat /\ drained \in Nat /\ slot \in [Sender -> 0 .. MaxSlot]
      /\ inrow \in [Slot -> Sender \cup {Nobody}] /\ MaxSlot \in Nat /\ Nobody \notin Sender
      /\ drained' \in Nat
  <2>1. TypeOK' /\ TypeOK
    BY BasicNext DEF Basic
  <2> QED BY <2>1, EventInboxAssumption DEF TypeOK
<1>1. UNCHANGED <<counter, ask, slot>>
  BY DEF sending
<1>2. Nobody \notin Logged /\ Logged \subseteq Logged' /\ dropped \subseteq dropped'
  BY LoggedType, LogGrows
<1>3. Writers'
  <2>1. ASSUME NEW s \in Sender, ask[s] = "writing"
        PROVE  drained' < slot[s] /\ slot[s] <= counter /\ inrow'[slot[s]] = Nobody
    <3>1. drained < slot[s] /\ slot[s] <= counter /\ inrow[slot[s]] = Nobody
      BY <2>1 DEF Kept, Writers
    <3>2. slot[s] \in Slot
      BY <1>t, <3>1 DEF Slot
    <3>3. ~Closed(slot[s])
      BY <1>2, <2>1, <3>1 DEF Closed, NoWriter
    <3>4. drained' < slot[s]
      BY <1>t, <3>1, <3>2, <3>3
    <3> QED BY <1>2, <3>1, <3>2, <3>4
  <2>2. \A n \in Slot : n > counter => inrow'[n] = Nobody
    BY <1>2 DEF Kept, Writers
  <2>3. \A s, t \in Sender : ask[s] = "writing" /\ ask[t] = "writing" /\ s # t => slot[s] # slot[t]
    BY DEF Kept, Writers
  <2> QED BY <1>1, <2>1, <2>2, <2>3 DEF Writers
<1>4. AcceptedKept'
  <2> SUFFICES ASSUME Prompt /\ Margin, NEW s \in Sender, ask[s] = "accepted", s \notin Logged',
                      slot[s] \notin dropped'
               PROVE  slot[s] > drained' /\ inrow'[slot[s]] = s
    BY <1>1 DEF AcceptedKept
  <2>1. slot[s] > drained /\ inrow[slot[s]] = s /\ s \notin Logged /\ slot[s] \notin dropped
    BY <1>2 DEF Kept, AcceptedKept
  <2>2. slot[s] \in Slot
    BY <1>t, <2>1 DEF Slot
  <2>3. ~Closed(slot[s])
    BY <1>t, <2>1 DEF Closed
  <2>4. drained' < slot[s]
    BY <1>t, <2>1, <2>2, <2>3
  <2> QED BY <1>t, <2>1, <2>2, <2>4
<1> QED BY <1>3, <1>4

\* The slots of the log stay covered while nothing is appended.
LEMMA CoveredStays ==
    ASSUME Basic, Kept, [Next]_vars, UNCHANGED logged, drained <= drained', drained' \in Nat
    PROVE  Covered' /\ Marks' /\ NoneOvertaken'
<1>t. /\ counter \in Nat /\ drained \in Nat /\ MaxSlot \in Nat
      /\ log \in Seq([event : Sender, slot : Slot])
      /\ UNCHANGED <<log, marked, dropped>>
  BY EventInboxAssumption DEF Basic, TypeOK, logged
<1>1. /\ counter' \in Nat /\ counter <= counter'
      /\ \A n \in Slot : n <= counter /\ Closed(n) => Closed(n)'
  BY SlotsStay DEF Kept
<1>2. Covered'
  <2> SUFFICES ASSUME NEW i \in 1 .. Len(log)
               PROVE  /\ log[i].slot <= counter'
                      /\ \A m \in Slot : drained' < m /\ m <= log[i].slot => Closed(m)'
    BY <1>t DEF Covered
  <2>1. log[i].slot \in Slot
    <3>1. log \in [1 .. Len(log) -> [event : Sender, slot : Slot]]
      BY <1>t, LenProperties
    <3> QED BY <3>1
  <2>2. /\ log[i].slot <= counter
        /\ \A m \in Slot : drained < m /\ m <= log[i].slot => Closed(m)
    BY DEF Kept, Covered
  <2> QED BY <1>t, <1>1, <2>1, <2>2 DEF Slot
<1>3. Marks' /\ NoneOvertaken'
  BY <1>t DEF Kept, Marks, NoneOvertaken, Logged
<1> QED BY <1>2, <1>3

\* After rows were appended up to the slot n, the log has every event of the
\* pass up to n that shape did not drop: it is appended, the first row of the
\* same event is, or the log had it.
LEMMA LoggedUpTo ==
    ASSUME Basic, Marks, NEW drops \in SUBSET taken, NEW own \in SUBSET Unmarked,
           NEW S \in SUBSET taken, Adds(S, drops, own),
           NEW n \in taken \ drops, \A m \in News(drops, own) : m <= n => m \in S
    PROVE  fetched[n] \in Logged'
<1>1. taken \in SUBSET Slot /\ Slot \subseteq Nat /\ log \in Seq([event : Sender, slot : Slot])
  BY EventInboxAssumption DEF Basic, TypeOK, Slot
<1>a. dpc = "append" /\ AppendInOrder(S)
  BY DEF Adds
<1>c. PICK c \in Nat : \E q \in [1 .. c -> S] :
           /\ Range(q) = S
           /\ Len(log') = Len(log) + c
           /\ \A i \in 1 .. Len(log) : log'[i] = log[i]
           /\ \A i \in 1 .. c : log'[Len(log) + i] = Entry(q[i])
  BY <1>a, Appended
<1>2. PICK q \in [1 .. c -> S] :
        /\ Range(q) = S
        /\ Len(log') = Len(log) + c
        /\ \A i \in 1 .. Len(log) : log'[i] = log[i]
        /\ \A i \in 1 .. c : log'[Len(log) + i] = Entry(q[i])
  BY <1>c
<1>3. Len(log) \in Nat
  BY <1>1
<1>4. CASE fetched[n] \in Logged
  <2>1. PICK i \in 1 .. Len(log) : log[i].event = fetched[n]
    BY <1>4 DEF Logged
  <2>2. i \in 1 .. Len(log') /\ log'[i] = log[i]
    BY <1>2, <1>3
  <2> QED BY <2>1, <2>2 DEF Logged
<1>5. CASE fetched[n] \notin Logged
  <2> DEFINE same == {m \in taken \ drops : fetched[m] = fetched[n]}
  <2>1. same \in SUBSET Nat /\ n \in same
    BY <1>1
  <2>2. Min(same) \in same /\ \A x \in same : Min(same) <= x
    BY <2>1, MinOf
  <2>3. PICK m \in same : \A x \in same : m <= x
    BY <2>2
  <2>k. fetched[n] \notin marked \cup own
    BY <1>5 DEF Marks, Unmarked
  <2>4. m \in News(drops, own) /\ m <= n
    BY <1>1, <2>k, <2>1, <2>3 DEF News
  <2>5. m \in S
    BY <2>4
  <2>6. PICK i \in 1 .. c : q[i] = m
    BY <1>2, <2>5 DEF Range
  <2>7. Len(log) + i \in 1 .. Len(log') /\ log'[Len(log) + i] = Entry(m)
    BY <1>2, <1>3, <2>6
  <2>8. Entry(m).event = fetched[n]
    BY <2>3 DEF Entry
  <2> QED BY <2>7, <2>8 DEF Logged
<1> QED BY <1>4, <1>5

\* What dedup learns is in the log.
LEMMA MarksNext ==
    ASSUME Basic, Marks, [Next]_vars
    PROVE  Marks'
<1>1. CASE UNCHANGED logged
  BY <1>1 DEF logged, Marks, Logged
<1>2. ASSUME NEW drops \in SUBSET taken, NEW own \in SUBSET Unmarked, NEW S \in SUBSET taken,
             Adds(S, drops, own), NEW s \in marked'
      PROVE  s \in Logged'
  <2>1. Logged \subseteq Logged'
    BY LogGrows
  <2>2. CASE s \in marked \cup Unmarked
    BY <2>1, <2>2 DEF Marks, Unmarked
  <2>3. ASSUME NEW n \in taken \ drops, fetched[n] = s, \A m \in News(drops, own) : m <= n => m \in S
        PROVE  s \in Logged'
    BY <1>2, <2>3, LoggedUpTo
  <2> QED BY <1>2, <2>2, <2>3 DEF Adds
<1> QED BY <1>1, <1>2, LogStep DEF Marks

\* Rows appended in order: no new event of theirs is overtaken, and the slots up
\* to each new entry are closed.
LEMMA AppendKeeps ==
    ASSUME Basic, Kept, [Next]_vars,
           NEW drops \in SUBSET taken, NEW own \in SUBSET Unmarked, NEW S \in SUBSET taken,
           Adds(S, drops, own), UNCHANGED <<counter, drained, sending, inrow>>
    PROVE  Covered' /\ Marks' /\ NoneOvertaken'
<1> DEFINE N == News(drops, own)
<1>a. /\ dpc = "append" /\ AppendInOrder(S) /\ S \in SUBSET N
      /\ \A n \in S : \A m \in N : m <= n => m \in S
      /\ dropped' = dropped \cup drops
  BY DEF Adds
<1>t. /\ counter \in Nat /\ drained \in Nat /\ upto \in Nat /\ MaxSlot \in Nat
      /\ taken \in SUBSET Slot /\ Slot \subseteq Nat
      /\ log \in Seq([event : Sender, slot : Slot]) /\ Len(log) \in Nat
      /\ upto <= counter /\ \A n \in taken : drained < n /\ n <= upto
  BY <1>a, EventInboxAssumption DEF Basic, TypeOK, PassRange, Slot
<1>1. N \subseteq taken
  BY DEF News
<1> HIDE DEF N
<1>c. PICK c \in Nat : \E q \in [1 .. c -> S] :
           /\ \A i, j \in 1 .. c : i < j => q[i] < q[j]
           /\ Len(log') = Len(log) + c
           /\ \A i \in 1 .. Len(log) : log'[i] = log[i]
           /\ \A i \in 1 .. c : log'[Len(log) + i] = Entry(q[i])
  BY <1>a, Appended
<1>2. PICK q \in [1 .. c -> S] :
        /\ \A i, j \in 1 .. c : i < j => q[i] < q[j]
        /\ Len(log') = Len(log) + c
        /\ \A i \in 1 .. Len(log) : log'[i] = log[i]
        /\ \A i \in 1 .. c : log'[Len(log) + i] = Entry(q[i])
  BY <1>c
<1>3. \A i \in 1 .. Len(log) : log[i].slot \in Slot /\ log[i].event \in Logged
  <2>1. log \in [1 .. Len(log) -> [event : Sender, slot : Slot]]
    BY <1>t, LenProperties
  <2> QED BY <2>1 DEF Logged
<1>4. \A n \in taken : fetched[n] # Nobody /\ inrow[n] = fetched[n] /\ NoWriter(n)
  <2>1. \A n \in taken : fetched[n] # Nobody
    BY <1>a DEF Basic, PassRange
  <2>2. \A n \in taken : inrow[n] = fetched[n]
    BY <1>a, <1>t, <2>1 DEF Kept, Takes
  <2> QED BY <2>1, <2>2 DEF Kept, Writers, NoWriter
<1>5. \A i \in 1 .. Len(log') :
        \/ i \in 1 .. Len(log) /\ log'[i] = log[i]
        \/ \E k \in 1 .. c : i = Len(log) + k /\ log'[i] = Entry(q[k])
  <2> SUFFICES ASSUME NEW i \in 1 .. Len(log'), i \notin 1 .. Len(log)
               PROVE  \E k \in 1 .. c : i = Len(log) + k /\ log'[i] = Entry(q[k])
    BY <1>2
  <2>1. i - Len(log) \in 1 .. c /\ i = Len(log) + (i - Len(log))
    BY <1>t, <1>2
  <2> QED BY <1>2, <2>1
<1>6. /\ \A n \in Slot : n <= counter /\ Closed(n) => Closed(n)'
      /\ \A n \in Slot : n <= counter /\ NoWriter(n) => NoWriter(n)'
      /\ Logged \subseteq Logged'
  BY SlotsStay, LogGrows DEF Kept
<1>7. ASSUME NEW n \in S, NEW m \in Slot, drained < m, m <= n
      PROVE  Closed(m)'
  <2>1. m <= upto /\ m <= counter
    BY <1>t, <1>7
  <2>2. CASE fetched[m] = Nobody
    BY <1>a, <1>6, <1>7, <2>1, <2>2 DEF Kept, Takes
  <2>3. CASE fetched[m] # Nobody
    <3>1. m \in taken /\ inrow[m] = fetched[m]
      BY <1>a, <1>7, <2>1, <2>3 DEF Kept, Takes
    <3>2. CASE m \in drops
      <4>1. NoWriter(m)' /\ m \in dropped'
        BY <1>a, <1>4, <1>6, <2>1, <3>1, <3>2
      <4> QED BY <4>1 DEF Closed
    <3>3. CASE m \notin drops
      <4>1. \A x \in N : x <= m => x \in S
        BY <1>t, <1>1, <1>a, <1>7
      <4>2. Marks
        BY DEF Kept
      <4>3. fetched[m] \in Logged'
        BY <3>1, <3>3, <4>1, <4>2, LoggedUpTo DEF N
      <4> QED BY <3>1, <4>3 DEF Closed
    <3> QED BY <3>2, <3>3
  <2> QED BY <2>2, <2>3
<1>8. Covered'
  <2> SUFFICES ASSUME NEW i \in 1 .. Len(log')
               PROVE  /\ log'[i].slot <= counter
                      /\ \A m \in Slot : drained < m /\ m <= log'[i].slot => Closed(m)'
    BY DEF Covered
  <2>1. CASE i \in 1 .. Len(log) /\ log'[i] = log[i]
    <3>1. /\ log[i].slot <= counter
          /\ \A m \in Slot : drained < m /\ m <= log[i].slot => Closed(m)
      BY <2>1 DEF Kept, Covered
    <3>2. log[i].slot \in Nat
      BY <1>t, <1>3, <2>1
    <3>3. ASSUME NEW m \in Slot, drained < m, m <= log[i].slot PROVE Closed(m)'
      <4>1. m <= counter
        BY <1>t, <3>1, <3>2, <3>3
      <4> QED BY <1>6, <3>1, <3>3, <4>1
    <3> QED BY <2>1, <3>1, <3>3
  <2>2. ASSUME NEW k \in 1 .. c, log'[i] = Entry(q[k])
        PROVE  /\ log'[i].slot <= counter
               /\ \A m \in Slot : drained < m /\ m <= log'[i].slot => Closed(m)'
    <3>1. log'[i].slot = q[k] /\ q[k] \in S
      <4>1. Entry(q[k]).slot = q[k]
        BY DEF Entry
      <4> QED BY <2>2, <4>1
    <3>2. q[k] <= counter
      <4>1. q[k] \in taken /\ q[k] \in Nat /\ q[k] <= upto
        BY <1>t, <3>1
      <4> QED BY <1>t, <4>1
    <3> QED BY <1>7, <3>1, <3>2
  <2> QED BY <1>5, <2>1, <2>2
<1>9. NoneOvertaken'
  <2> SUFFICES ASSUME Prompt /\ Margin, NEW i \in 1 .. Len(log'), NEW j \in 1 .. Len(log'), i < j,
                      log'[j].slot < log'[i].slot
               PROVE  log'[j].slot \in dropped' \/ \E k \in 1 .. j - 1 : log'[k].event = log'[j].event
    BY DEF NoneOvertaken
  <2>1. CASE j \in 1 .. Len(log) /\ log'[j] = log[j]
    <3>1. i \in 1 .. Len(log) /\ log'[i] = log[i]
      BY <1>t, <1>2, <2>1
    <3>2. log[j].slot \in dropped \/ \E k \in 1 .. j - 1 : log[k].event = log[j].event
      BY <2>1, <3>1 DEF Kept, NoneOvertaken
    <3>3. \A k \in 1 .. j - 1 : log'[k] = log[k]
      BY <1>t, <1>2, <2>1
    <3> QED BY <1>a, <2>1, <3>2, <3>3
  <2>2. ASSUME NEW k \in 1 .. c, j = Len(log) + k, log'[j] = Entry(q[k])
        PROVE  log'[j].slot \in dropped' \/ \E x \in 1 .. j - 1 : log'[x].event = log'[j].event
    <3>1. log'[j].slot = q[k] /\ log'[j].event = fetched[q[k]]
      <4>1. Entry(q[k]).slot = q[k] /\ Entry(q[k]).event = fetched[q[k]]
        BY DEF Entry
      <4> QED BY <2>2, <4>1
    <3>2. q[k] \in taken /\ q[k] \in Slot /\ q[k] \in Nat
      BY <1>t
    <3>3. CASE i \in 1 .. Len(log) /\ log'[i] = log[i]
      <4>1. log[i].slot \in Nat
        BY <1>t, <1>3, <3>3
      <4>2. Closed(q[k])
        BY <1>t, <3>1, <3>2, <3>3, <4>1 DEF Kept, Covered
      <4>3. CASE q[k] \in dropped
        BY <1>a, <3>1, <4>3
      <4>4. CASE fetched[q[k]] \in Logged
        <5>1. PICK x \in 1 .. Len(log) : log[x].event = fetched[q[k]]
          BY <4>4 DEF Logged
        <5>2. x \in 1 .. j - 1 /\ log'[x] = log[x]
          BY <1>t, <1>2, <2>2
        <5> QED BY <3>1, <5>1, <5>2
      <4> QED BY <1>4, <3>2, <4>2, <4>3, <4>4 DEF Closed
    <3>4. ASSUME NEW l \in 1 .. c, i = Len(log) + l, log'[i] = Entry(q[l])
          PROVE  FALSE
      <4>1. l < k
        BY <1>t, <2>2, <3>4
      <4>2. q[l] < q[k] /\ q[l] \in Nat
        BY <1>t, <1>2, <4>1
      <4>3. log'[i].slot = q[l]
        <5>1. Entry(q[l]).slot = q[l]
          BY DEF Entry
        <5> QED BY <3>4, <5>1
      <4> QED BY <3>1, <3>2, <4>2, <4>3
    <3> QED BY <1>5, <3>3, <3>4
  <2> QED BY <1>5, <2>1, <2>2
<1>10. Marks'
  BY MarksNext DEF Kept
<1> QED BY <1>8, <1>9, <1>10

LEMMA KeptInit == Init => Kept
<1> SUFFICES ASSUME Init PROVE Kept
  OBVIOUS
<1>1. Len(log) = 0 /\ 1 .. 0 = {}
  BY DEF Init
<1>2. Writers /\ Waits /\ Reads /\ Takes /\ Deletes /\ Marks /\ AcceptedKept
  BY EventInboxAssumption DEF Init, Writers, Waits, Reads, Takes, Deletes, Marks, AcceptedKept
<1>3. Covered /\ NoneOvertaken
  BY <1>1 DEF Covered, NoneOvertaken
<1> QED BY <1>2, <1>3 DEF Kept

LEMMA KeptNext ==
    ASSUME Prompt, Margin
    PROVE  Basic /\ Kept /\ [Next]_vars => Kept'
<1> SUFFICES ASSUME Basic, Kept, [Next]_vars PROVE Kept'
  OBVIOUS
<1>t. /\ counter \in Nat /\ drained \in Nat /\ upto \in Nat /\ hole \in Nat /\ MaxSlot \in Nat
      /\ counter <= MaxSlot /\ Slot \subseteq Nat /\ taken \in SUBSET Slot
      /\ inrow \in [Slot -> Sender \cup {Nobody}] /\ fetched \in [Slot -> Sender \cup {Nobody}]
  BY EventInboxAssumption DEF Basic, TypeOK, Slot
<1>l. Nobody \notin Logged /\ Logged \subseteq Logged'
  BY LoggedType, LogGrows
<1>1. ASSUME NEW s \in Sender, SenderStep(s) PROVE Kept'
  <2>1. UNCHANGED <<logged, drained, draining>>
    BY <1>1 DEF SenderStep, Ask, PutRow, FailPut, inbox
  <2> QED BY <1>1, <2>1, OwnerUndisturbed, SenderKeeps DEF Kept
<1>2. ASSUME NEW r \in Replica, ReplicaStep(r) PROVE Kept'
  <2>1. UNCHANGED <<logged, drained, draining>>
    BY <1>2, Zenon DEF ReplicaStep, StartTurn, Count, Reserve, FailTurn, inbox
  <2> QED BY <1>2, <2>1, OwnerUndisturbed, ReplicaKeeps DEF Kept
<1>3. CASE StartDrain
  <2>1. UNCHANGED <<counter, drained, inrow, sending, logged, hole, ripe, ask, slot>> /\ dpc' = "fetch"
    BY <1>3 DEF StartDrain, inbox, sending
  <2>2. Writers' /\ AcceptedKept'
    BY <2>1, OwnerKeeps
  <2>3. Covered' /\ Marks' /\ NoneOvertaken'
    BY <1>t, <2>1, CoveredStays
  <2>4. Waits'
    BY <2>1 DEF Kept, Waits, NoWriter
  <2>5. Reads'
    <3>1. upto' = counter /\ toread' = (drained + 1) .. counter
      BY <1>3 DEF StartDrain
    <3> QED BY <1>t, <2>1, <3>1 DEF Reads
  <2>6. Takes' /\ Deletes'
    BY <2>1 DEF Takes, Deletes
  <2> QED BY <2>2, <2>3, <2>4, <2>5, <2>6 DEF Kept
<1>4. ASSUME NEW n \in Slot, Fetch(n) PROVE Kept'
  <2>1. /\ UNCHANGED <<counter, drained, inrow, sending, logged, upto, hole, ripe, ask, slot>>
        /\ dpc = "fetch" /\ dpc' \in {"fetch", "pass"}
    BY <1>4 DEF Fetch, inbox, sending
  <2>2. Writers' /\ AcceptedKept'
    BY <2>1, OwnerKeeps
  <2>3. Covered' /\ Marks' /\ NoneOvertaken'
    BY <1>t, <2>1, CoveredStays
  <2>4. Waits'
    BY <2>1 DEF Kept, Waits, NoWriter
  <2>5. Reads'
    <3>1. toread' = toread \ {n} /\ fetched' = [fetched EXCEPT ![n] = inrow[n]]
      BY <1>4 DEF Fetch
    <3> QED BY <1>t, <2>1, <3>1 DEF Kept, Reads
  <2>6. Takes' /\ Deletes'
    BY <2>1 DEF Takes, Deletes
  <2> QED BY <2>2, <2>3, <2>4, <2>5, <2>6 DEF Kept
<1>5. CASE Pass
  <2>1. /\ UNCHANGED <<counter, drained, inrow, sending, logged, fetched, ask, slot>>
        /\ dpc = "pass" /\ dpc' = "append" /\ ripe' = FALSE
        /\ taken' = Rows(Stop) /\ upto' = Stop - 1
        /\ hole' = IF Stop = upto + 1 THEN 0 ELSE Stop
    BY <1>5 DEF Pass, inbox, sending
  <2>s. /\ Stop \in Nat /\ drained < Stop /\ Stop <= upto + 1
        /\ \A n \in Slot : drained < n /\ n < Stop => fetched[n] # Nobody \/ n \in WaitedOut
    BY <2>1, StopFacts
  <2>u. upto <= counter /\ toread = {}
    BY <2>1 DEF Basic, PassRange
  <2>2. Writers' /\ AcceptedKept'
    BY <2>1, OwnerKeeps
  <2>3. Covered' /\ Marks' /\ NoneOvertaken'
    BY <1>t, <2>1, CoveredStays
  <2>4. Waits'
    BY <1>t, <2>1, <2>s, <2>u DEF Waits
  <2>5. Reads' /\ Deletes'
    BY <2>1 DEF Reads, Deletes
  <2>6. Takes'
    <3> SUFFICES ASSUME NEW n \in Slot, drained < n, n <= Stop - 1
                 PROVE  /\ fetched[n] # Nobody => n \in Rows(Stop) /\ inrow[n] = fetched[n]
                        /\ fetched[n] = Nobody => Closed(n)'
      BY <2>1 DEF Takes
    <3>1. n <= upto /\ n < Stop /\ n <= counter
      BY <1>t, <2>s, <2>u
    <3>2. ASSUME fetched[n] # Nobody PROVE n \in Rows(Stop) /\ inrow[n] = fetched[n]
      <4>1. n \in (drained + 1) .. (Stop - 1)
        BY <1>t, <2>s
      <4> QED BY <2>1, <2>u, <3>1, <3>2, <4>1 DEF Kept, Reads, Rows
    <3>3. ASSUME fetched[n] = Nobody PROVE Closed(n)'
      <4>1. ripe /\ n = hole
        BY <2>s, <3>1, <3>3 DEF WaitedOut
      <4>2. inrow[n] = Nobody
        BY <2>1, <2>u, <3>1, <3>3, <4>1 DEF Kept, Reads
      <4>3. NoWriter(n)
        BY <4>1 DEF Kept, Waits
      <4>4. Closed(n)
        BY <4>2, <4>3 DEF Closed
      <4> QED BY <3>1, <4>4, SlotsStay DEF Kept
    <3> QED BY <3>2, <3>3
  <2> QED BY <2>2, <2>3, <2>4, <2>5, <2>6 DEF Kept
<1>6. CASE AppendEvents
  <2>1. /\ UNCHANGED <<counter, drained, inrow, sending, toread, fetched, upto, taken, hole, ripe,
                       ask, slot>>
        /\ dpc = "append" /\ dpc' = "delete"
    BY <1>6 DEF AppendEvents, inbox, sending
  <2>2. Writers' /\ AcceptedKept'
    BY <2>1, OwnerKeeps
  <2>p. PICK drops \in SUBSET taken, own \in SUBSET Unmarked : Adds(News(drops, own), drops, own)
    BY <1>6, EventsAdded
  <2>n. News(drops, own) \in SUBSET taken
    BY DEF News
  <2>3. Covered' /\ Marks' /\ NoneOvertaken'
    BY <2>1, <2>p, <2>n, AppendKeeps
  <2>4. Waits'
    BY <2>1 DEF Kept, Waits, NoWriter
  <2>5. Reads' /\ Takes'
    BY <2>1 DEF Reads, Takes
  <2>6. Deletes'
    <3> SUFFICES ASSUME NEW n \in Slot, drained < n, n <= upto
                 PROVE  Closed(n)' /\ (n \in taken => inrow[n] \in Logged' \/ n \in dropped')
      BY <2>1 DEF Deletes
    <3>1. /\ fetched[n] # Nobody => n \in taken /\ inrow[n] = fetched[n]
          /\ fetched[n] = Nobody => Closed(n)
      BY <2>1 DEF Kept, Takes
    <3>2. n \in taken => fetched[n] # Nobody
      BY <2>1 DEF Basic, PassRange
    <3>3. n <= counter
      <4>1. upto <= counter
        BY <2>1 DEF Basic, PassRange
      <4> QED BY <1>t, <4>1
    <3>4. n \in taken => fetched[n] \in Logged' \/ n \in dropped'
      <4>1. dropped' = dropped \cup drops
        BY <2>p DEF Adds
      <4>2. Marks
        BY DEF Kept
      <4> QED BY <2>p, <2>n, <4>1, <4>2, LoggedUpTo
    <3>5. fetched[n] = Nobody => Closed(n)'
      BY <3>1, <3>3, SlotsStay DEF Kept
    <3>6. fetched[n] # Nobody => Closed(n)'
      <4>1. fetched[n] # Nobody => NoWriter(n)'
        BY <2>1, <3>1 DEF NoWriter, Kept, Writers
      <4> QED BY <2>1, <3>1, <3>4, <4>1 DEF Closed
    <3> QED BY <3>1, <3>2, <3>4, <3>5, <3>6
  <2> QED BY <2>2, <2>3, <2>4, <2>5, <2>6 DEF Kept
<1>7. ASSUME NEW n \in Slot, Delete(n) PROVE Kept'
  <2>1. /\ UNCHANGED <<counter, drained, sending, logged, dpc, upto, hole, ripe, ask, slot>>
        /\ dpc = "delete" /\ n \in taken /\ taken' = taken \ {n}
        /\ inrow' = [inrow EXCEPT ![n] = Nobody] /\ Logged' = Logged /\ dropped' = dropped
    BY <1>7 DEF Delete, sending, Logged, logged
  <2>u. upto <= counter /\ drained < n /\ n <= upto
    BY <2>1 DEF Basic, PassRange
  <2>2. inrow[n] \in Logged \/ n \in dropped
    BY <2>1, <2>u DEF Kept, Deletes
  <2>3. Writers' /\ AcceptedKept'
    <3>1. \A m \in Slot : \/ inrow'[m] = inrow[m]
                          \/ (inrow[m] \in Logged \/ m \in dropped) /\ inrow'[m] = Nobody
      BY <1>t, <2>1, <2>2
    <3> QED BY <2>1, <3>1, OwnerKeeps
  <2>4. Covered' /\ Marks' /\ NoneOvertaken'
    BY <1>t, <2>1, CoveredStays
  <2>5. Waits'
    BY <2>1 DEF Kept, Waits, NoWriter
  <2>6. Reads' /\ Takes'
    BY <2>1 DEF Reads, Takes
  <2>7. Deletes'
    <3> SUFFICES ASSUME NEW m \in Slot, drained < m, m <= upto
                 PROVE  Closed(m)' /\ (m \in taken' => inrow'[m] \in Logged \/ m \in dropped)
      BY <2>1 DEF Deletes
    <3>1. Closed(m) /\ (m \in taken => inrow[m] \in Logged \/ m \in dropped)
      BY <2>1 DEF Kept, Deletes
    <3>2. m <= counter
      BY <1>t, <2>u
    <3>3. Closed(m)'
      BY <3>1, <3>2, SlotsStay DEF Kept
    <3> QED BY <1>t, <2>1, <3>1, <3>3
  <2> QED BY <2>3, <2>4, <2>5, <2>6, <2>7 DEF Kept
<1>8. CASE PutDrained
  <2>1. /\ UNCHANGED <<counter, inrow, sending, logged, hole, ripe, ask, slot>>
        /\ dpc = "delete" /\ drained' = upto /\ dpc' = "idle"
    BY <1>8 DEF PutDrained, EndPass, sending
  <2>2. drained <= upto
    BY <2>1 DEF Basic, PassRange
  <2>3. Writers' /\ AcceptedKept'
    <3>1. \A n \in Slot : drained < n /\ n <= upto => Closed(n)
      BY <2>1 DEF Kept, Deletes
    <3> QED BY <2>1, <2>2, <3>1, OwnerKeeps
  <2>4. Covered' /\ Marks' /\ NoneOvertaken'
    BY <1>t, <2>1, <2>2, CoveredStays
  <2>5. Waits'
    BY <2>1 DEF Kept, Waits, NoWriter
  <2>6. Reads' /\ Takes' /\ Deletes'
    BY <2>1 DEF Reads, Takes, Deletes
  <2> QED BY <2>3, <2>4, <2>5, <2>6 DEF Kept
<1>9. CASE FailPass
  <2>1. /\ UNCHANGED <<counter, drained, inrow, sending, ask, slot>> /\ dpc' = "idle"
        /\ (hole' = hole /\ ripe' = ripe) \/ (hole' = 0 /\ ripe' = FALSE)
    BY <1>9 DEF FailPass, EndPass, inbox, sending
  <2>2. Writers' /\ AcceptedKept'
    BY <2>1, OwnerKeeps
  <2>3. Covered' /\ Marks' /\ NoneOvertaken'
    <3>1. CASE UNCHANGED logged
      BY <1>t, <2>1, <3>1, CoveredStays
    <3>2. CASE AppendSome
      <4>1. PICK drops \in SUBSET taken, own \in SUBSET Unmarked : \E S \in SUBSET taken :
              Adds(S, drops, own)
        BY <3>2, SomeAdded
      <4> QED BY <2>1, <4>1, AppendKeeps
    <3> QED BY <1>9, <3>1, <3>2 DEF FailPass
  <2>4. Waits'
    <3>1. CASE hole' = hole /\ ripe' = ripe
      BY <2>1, <3>1 DEF Kept, Waits, NoWriter
    <3>2. CASE hole' = 0 /\ ripe' = FALSE
      BY <1>t, <2>1, <3>2 DEF Waits
    <3> QED BY <2>1, <3>1, <3>2
  <2>5. Reads' /\ Takes' /\ Deletes'
    BY <2>1 DEF Reads, Takes, Deletes
  <2> QED BY <2>2, <2>3, <2>4, <2>5 DEF Kept
<1>10. CASE GraceEnds
  <2>1. /\ UNCHANGED <<counter, drained, inrow, sending, logged, dpc, hole, ask, slot>>
        /\ dpc = "idle" /\ hole # 0 /\ NoWriter(hole)
    BY <1>10 DEF GraceEnds, inbox, sending, NoWriter
  <2>2. Writers' /\ AcceptedKept'
    BY <2>1, OwnerKeeps
  <2>3. Covered' /\ Marks' /\ NoneOvertaken'
    BY <1>t, <2>1, CoveredStays
  <2>4. Waits'
    BY <2>1 DEF Kept, Waits, NoWriter
  <2>5. Reads' /\ Takes' /\ Deletes'
    BY <2>1 DEF Reads, Takes, Deletes
  <2> QED BY <2>2, <2>3, <2>4, <2>5 DEF Kept
<1>11. CASE UNCHANGED vars
  <2>1. UNCHANGED <<counter, drained, inrow, sending, ask, slot, logged, dpc, toread, fetched, upto,
                    taken, hole, ripe>>
    BY <1>11 DEF vars, inbox, sending, draining
  <2>2. Writers' /\ AcceptedKept'
    BY <2>1, OwnerKeeps
  <2>3. Covered' /\ Waits' /\ Reads' /\ Takes' /\ Deletes' /\ Marks' /\ NoneOvertaken'
    BY <2>1, OwnerUndisturbed DEF draining
  <2> QED BY <2>2, <2>3 DEF Kept
<1> QED
  BY <1>1, <1>2, <1>3, <1>4, <1>5, <1>6, <1>7, <1>8, <1>9, <1>10, <1>11 DEF Next, Drain

\* Kept holds when the grace is long enough.
InTime == Prompt /\ Margin => Kept

\* EventInbox: an event that was accepted is in the log, was dropped by shape, or
\* its row waits in a slot that is not consumed: across crashes of the owner and
\* of the senders, passes run again and holes skipped, when every row is written
\* before the grace for its slot ends and the grace does not end within a pass.
THEOREM AcceptedIsKept == Spec => []AcceptedKept
<1>1. InTime => AcceptedKept
  BY DEF InTime, Kept, AcceptedKept
<1>2. Basic /\ InTime /\ [Next]_vars => InTime'
  BY KeptNext DEF InTime
<1>3. Init => InTime
  BY KeptInit DEF InTime
<1> QED BY <1>1, <1>2, <1>3, BasicInit, BasicNext, PTL DEF Spec

-----------------------------------------------------------------------------
(* Repeats.  A failed pass leaves events in the log that dedup does not    *)
(* know; each such pass does so at most once for an event.                 *)

LEMMA CopiesFinite ==
    ASSUME Basic, NEW s
    PROVE  IsFiniteSet(Copies(s)) /\ Cardinality(Copies(s)) \in Nat
<1>1. Len(log) \in Nat
  BY DEF Basic, TypeOK
<1>2. IsFiniteSet(1 .. Len(log))
  BY <1>1, FS_Interval
<1>3. Copies(s) \subseteq 1 .. Len(log)
  BY DEF Copies
<1>4. IsFiniteSet(Copies(s))
  BY <1>2, <1>3, FS_Subset
<1> QED BY <1>4, FS_CardinalityType

\* An append adds at most one row of an event with an id, and none of one that
\* has its marker.
LEMMA CopiesGrow ==
    ASSUME Basic, NEW drops \in SUBSET taken, NEW own \in SUBSET Unmarked, NEW S \in SUBSET taken,
           Adds(S, drops, own), NEW s \in Named
    PROVE  \/ Copies(s)' = Copies(s)
           \/ /\ s \notin marked /\ s \in NamedIn(S)
              /\ \E x : x \notin Copies(s) /\ Copies(s)' = Copies(s) \cup {x}
<1>a. dpc = "append" /\ AppendInOrder(S) /\ S \in SUBSET News(drops, own)
  BY DEF Adds
<1>t. Len(log) \in Nat
  BY DEF Basic, TypeOK
<1>c. PICK c \in Nat : \E q \in [1 .. c -> S] :
           /\ \A i, j \in 1 .. c : i < j => q[i] < q[j]
           /\ Len(log') = Len(log) + c
           /\ \A i \in 1 .. Len(log) : log'[i] = log[i]
           /\ \A i \in 1 .. c : log'[Len(log) + i] = Entry(q[i])
  BY <1>a, Appended
<1>2. PICK q \in [1 .. c -> S] :
        /\ \A i, j \in 1 .. c : i < j => q[i] < q[j]
        /\ Len(log') = Len(log) + c
        /\ \A i \in 1 .. Len(log) : log'[i] = log[i]
        /\ \A i \in 1 .. c : log'[Len(log) + i] = Entry(q[i])
  BY <1>c
<1>3. \A k \in 1 .. c : log'[Len(log) + k].event = fetched[q[k]]
  <2> SUFFICES ASSUME NEW k \in 1 .. c PROVE log'[Len(log) + k].event = fetched[q[k]]
    OBVIOUS
  <2>1. Entry(q[k]).event = fetched[q[k]]
    BY DEF Entry
  <2> QED BY <1>2, <2>1
<1>4. \A i \in 1 .. Len(log') : i \in 1 .. Len(log) \/ \E k \in 1 .. c : i = Len(log) + k
  <2> SUFFICES ASSUME NEW i \in 1 .. Len(log'), i \notin 1 .. Len(log)
               PROVE  \E k \in 1 .. c : i = Len(log) + k
    OBVIOUS
  <2>1. i - Len(log) \in 1 .. c /\ i = Len(log) + (i - Len(log))
    BY <1>t, <1>2
  <2> QED BY <2>1
<1>5. \A k \in 1 .. c : Len(log) + k \in 1 .. Len(log') /\ Len(log) + k \notin 1 .. Len(log)
  BY <1>t, <1>2
<1>6. \A i \in 1 .. Len(log) : i \in 1 .. Len(log')
  BY <1>t, <1>2
<1>7. \A i : i \in Copies(s)' <=>
        i \in Copies(s) \/ \E k \in 1 .. c : i = Len(log) + k /\ fetched[q[k]] = s
  <2>1. \A i : i \in Copies(s)' <=> i \in 1 .. Len(log') /\ log'[i].event = s
    BY DEF Copies
  <2>2. \A i : i \in Copies(s) <=> i \in 1 .. Len(log) /\ log[i].event = s
    BY DEF Copies
  <2>3. \A i \in 1 .. Len(log) : log'[i] = log[i]
    BY <1>2
  <2>4. ASSUME NEW i \in Copies(s)'
        PROVE  i \in Copies(s) \/ \E k \in 1 .. c : i = Len(log) + k /\ fetched[q[k]] = s
    <3>1. i \in 1 .. Len(log') /\ log'[i].event = s
      BY <2>1, <2>4
    <3>2. CASE i \in 1 .. Len(log)
      BY <2>2, <2>3, <3>1, <3>2
    <3>3. ASSUME NEW k \in 1 .. c, i = Len(log) + k PROVE fetched[q[k]] = s
      BY <1>3, <3>1, <3>3
    <3> QED BY <1>4, <3>1, <3>2, <3>3
  <2>5. \A i \in Copies(s) : i \in Copies(s)'
    BY <1>6, <2>1, <2>2, <2>3, Zenon
  <2>6. \A k \in 1 .. c : fetched[q[k]] = s => Len(log) + k \in Copies(s)'
    BY <1>3, <1>5, <2>1
  <2> HIDE DEF Copies
  <2> QED BY <2>4, <2>5, <2>6, Zenon
<1>8. CASE ~\E k \in 1 .. c : fetched[q[k]] = s
  BY <1>7, <1>8
<1>9. ASSUME NEW k \in 1 .. c, fetched[q[k]] = s
      PROVE  /\ s \notin marked /\ s \in NamedIn(S)
             /\ \E x : x \notin Copies(s) /\ Copies(s)' = Copies(s) \cup {x}
  <2>1. q[k] \in S /\ s \notin marked
    BY <1>a, <1>9 DEF News
  <2>2. s \in NamedIn(S)
    BY <1>9, <2>1 DEF NamedIn
  <2>3. ASSUME NEW l \in 1 .. c, fetched[q[l]] = s PROVE l = k
    <3>1. /\ q[l] \in taken \ drops /\ q[k] \in taken \ drops
          /\ ~(q[l] < q[k]) /\ ~(q[k] < q[l])
      BY <1>a, <1>9, <2>3 DEF News
    <3>2. ~(l < k) /\ ~(k < l)
      BY <1>2, <3>1
    <3> QED BY <3>2
  <2>4. Len(log) + k \notin Copies(s)
    BY <1>5 DEF Copies
  <2>5. Copies(s)' = Copies(s) \cup {Len(log) + k}
    BY <1>7, <1>9, <2>3
  <2> QED BY <2>1, <2>2, <2>4, <2>5
<1> QED BY <1>8, <1>9

LEMMA RepeatsNext == Basic /\ Repeats /\ [Next]_vars => Repeats'
<1> SUFFICES ASSUME Basic, Repeats, [Next]_vars PROVE Repeats'
  OBVIOUS
<1>t. broken \in Nat
  BY EventInboxAssumption DEF Basic, TypeOK
<1>1. CASE UNCHANGED logged
  BY <1>1 DEF logged, Repeats, Copies
<1>2. ASSUME NEW drops \in SUBSET taken, NEW own \in SUBSET Unmarked, NEW S \in SUBSET taken,
             Adds(S, drops, own), NEW s \in Named
      PROVE  Cardinality(Copies(s)') <= (IF s \in marked' THEN 1 ELSE 0) + broken'
  <2> DEFINE old == Cardinality(Copies(s))
  <2> DEFINE new == Cardinality(Copies(s)')
  <2>1. old \in Nat /\ IsFiniteSet(Copies(s)) /\ old <= (IF s \in marked THEN 1 ELSE 0) + broken
    BY CopiesFinite DEF Repeats
  <2>2. /\ marked \subseteq marked'
        /\ broken' = broken + 1 \/ (broken' = broken /\ NamedIn(S) \subseteq marked')
    BY <1>2 DEF Adds
  <2>3. CASE Copies(s)' = Copies(s)
    <3>1. new = old
      BY <2>3
    <3> HIDE DEF old, new
    <3>2. new <= (IF s \in marked' THEN 1 ELSE 0) + broken'
      BY <1>t, <2>1, <2>2, <3>1
    <3> QED BY <3>2 DEF new
  <2>4. ASSUME s \notin marked, s \in NamedIn(S), NEW x, x \notin Copies(s), Copies(s)' = Copies(s) \cup {x}
        PROVE  new <= (IF s \in marked' THEN 1 ELSE 0) + broken'
    <3>1. new = old + 1
      BY <2>1, <2>4, FS_AddElement
    <3> HIDE DEF old, new
    <3> QED BY <1>t, <2>1, <2>2, <2>4, <3>1
  <2> QED BY <1>2, <2>3, <2>4, CopiesGrow
<1> QED BY <1>1, <1>2, LogStep DEF Repeats

\* EventInbox: the log has no event that one of a later slot overtook, but for
\* repeats and what shape dropped before, under the same timing; and, whatever
\* the timing, an event with an id is repeated at most once for each pass that
\* failed while it appended, for any number of senders, passes and failures.
THEOREM LogInSlotOrder == Spec => []InSlotOrder
<1>1. Basic /\ InTime /\ Repeats => InSlotOrder
  <2> SUFFICES ASSUME Basic, InTime, Repeats PROVE InSlotOrder
    OBVIOUS
  <2>1. NoneOvertaken
    BY DEF InTime, Kept, NoneOvertaken
  <2>2. ASSUME NEW s \in Named PROVE Cardinality(Copies(s)) <= 1 + broken
    <3>1. Cardinality(Copies(s)) \in Nat /\ broken \in Nat
      BY CopiesFinite, EventInboxAssumption DEF Basic, TypeOK
    <3>2. Cardinality(Copies(s)) <= (IF s \in marked THEN 1 ELSE 0) + broken
      BY DEF Repeats
    <3> QED BY <3>1, <3>2
  <2> QED BY <2>1, <2>2 DEF InSlotOrder, FewCopies
<1>2. Basic /\ InTime /\ [Next]_vars => InTime'
  BY KeptNext DEF InTime
<1>3. Init => InTime /\ Repeats
  <2> SUFFICES ASSUME Init PROVE InTime /\ Repeats
    OBVIOUS
  <2>1. \A s \in Named : Copies(s) = {}
    BY DEF Init, Copies
  <2>2. Cardinality({}) = 0
    BY FS_EmptySet
  <2>3. broken = 0 /\ marked = {}
    BY DEF Init
  <2>4. Repeats
    BY <2>1, <2>2, <2>3 DEF Repeats
  <2> QED BY <2>4, KeptInit DEF InTime
<1> QED BY <1>1, <1>2, <1>3, BasicInit, BasicNext, RepeatsNext, PTL DEF Spec

=============================================================================
