--------------------------- MODULE WebhooksProofs ---------------------------
(***************************************************************************)
(* Webhooks, for any number of replicas, rows, leases and disturbances:    *)
(* what the dispatcher takes for finished is finished.                     *)
(***************************************************************************)
EXTENDS Webhooks, FiniteSetTheorems, WellFoundedInduction, TLAPS

-----------------------------------------------------------------------------
(* Least and greatest rows.                                                *)

LEMMA LeastOf ==
    ASSUME NEW S \in SUBSET Nat, S # {}
    PROVE  \E m \in S : \A x \in S : m <= x
<1>1. IsWellFoundedOn(OpToRel(<, Nat), Nat)
  BY NatLessThanWellFounded
<1>2. \E m \in S : \A y \in S : ~ (<<y, m>> \in OpToRel(<, Nat))
  BY <1>1, WFMin, Zenon
<1>3. PICK m \in S : \A y \in S : ~ (<<y, m>> \in OpToRel(<, Nat))
  BY <1>2
<1>4. \A y \in S : ~(y < m)
  BY <1>3, Zenon DEF OpToRel
<1>5. QED BY <1>4

\* The watermark moves over done rows only.
LEMMA ReachedDone ==
    ASSUME NEW ack \in 0 .. MaxSeq, NEW done \in SUBSET Row
    PROVE  /\ Reached(ack, done) \in ack .. MaxSeq
           /\ \A s \in Row : ack < s /\ s <= Reached(ack, done) => s \in done
<1> DEFINE Stop == {a \in ack .. MaxSeq : a + 1 \notin done}
<1>0. MaxSeq \in Nat
  BY WebhooksAssumption
<1>1. MaxSeq \in Stop
  BY <1>0 DEF Row
<1>2. PICK m \in Stop : \A x \in Stop : m <= x
  <2>1. Stop \in SUBSET Nat /\ Stop # {}
    BY <1>0, <1>1
  <2> QED BY <2>1, LeastOf
<1>3. \A s \in ack + 1 .. m : s \in done
  <2>1. SUFFICES ASSUME NEW s \in ack + 1 .. m, s \notin done PROVE FALSE
    OBVIOUS
  <2>2. s - 1 \in Stop
    BY <1>0, <1>2, <2>1
  <2> QED BY <1>0, <1>2, <2>1, <2>2
<1>4. \E a \in ack .. MaxSeq : ack + 1 .. a \subseteq done /\ a + 1 \notin done
  BY <1>2, <1>3
<1>5. /\ Reached(ack, done) \in ack .. MaxSeq
      /\ ack + 1 .. Reached(ack, done) \subseteq done
  BY <1>4 DEF Reached
<1> QED BY <1>0, <1>5 DEF Row

LEMMA LastIsLast ==
    ASSUME NEW rows \in SUBSET Row, NEW n \in 0 .. MaxSeq
    PROVE  /\ Last(rows, n) \in rows \cup {n}
           /\ \A x \in rows \cup {n} : x <= Last(rows, n)
           /\ Last(rows, n) \in 0 .. MaxSeq
<1> DEFINE Above == {k \in Nat : \A x \in rows \cup {n} : x <= k}
<1>0. MaxSeq \in Nat
  BY WebhooksAssumption
<1>1. MaxSeq \in Above
  BY <1>0 DEF Row
<1>2. PICK m \in Above : \A x \in Above : m <= x
  <2>1. Above \in SUBSET Nat /\ Above # {}
    BY <1>1
  <2> QED BY <2>1, LeastOf
<1>3. m \in rows \cup {n}
  <2>1. SUFFICES ASSUME m \notin rows \cup {n} PROVE FALSE
    OBVIOUS
  <2>2. m > n /\ \A x \in rows \cup {n} : x <= m - 1
    BY <1>0, <1>2, <2>1 DEF Row
  <2>3. m - 1 \in Above
    BY <1>0, <1>2, <2>2
  <2> QED BY <1>2, <2>3
<1>4. \E m1 \in rows \cup {n} : \A x \in rows \cup {n} : x <= m1
  BY <1>2, <1>3
<1>5. /\ Last(rows, n) \in rows \cup {n}
      /\ \A x \in rows \cup {n} : x <= Last(rows, n)
  BY <1>4 DEF Last
<1>6. rows \cup {n} \in SUBSET (0 .. MaxSeq)
  BY <1>0 DEF Row
<1> QED BY <1>5, <1>6

-----------------------------------------------------------------------------
(* A delivery state is sound for the rows C: everything it takes for done  *)
(* is in C, and everything it handed out is in C or in flight.             *)

Sound(st, C) ==
    /\ \A s \in Row : s <= st.ack \/ s \in st.done => s \in C
    /\ \A s \in Row : s <= st.dispatched => s \in st.inflight \/ s \in C
    /\ \A s \in st.inflight : s <= st.dispatched

CkptSound(ck, C) ==
    \A s \in Row :
        s <= ck.ack \/ (s \notin ck.inflight /\ \E x \in ck.inflight : s < x) => s \in C

BoundsType == [epoch : Epoch \cup {0}, floor : 1 .. MaxSeq + 1, head : 0 .. MaxSeq]

LEMMA AdvanceFacts ==
    ASSUME NEW st \in SubType
    PROVE  /\ Advance(st) \in SubType
           /\ Advance(st).epoch = st.epoch
           /\ Advance(st).inflight = st.inflight
           /\ Advance(st).dispatched = st.dispatched
           /\ Advance(st).sending = st.sending
           /\ \A s \in Row : s <= Advance(st).ack \/ s \in Advance(st).done
                             => s <= st.ack \/ s \in st.done
<1> DEFINE a == Reached(st.ack, st.done)
<1>0. MaxSeq \in Nat
  BY WebhooksAssumption
<1>1. st.ack \in 0 .. MaxSeq /\ st.done \in SUBSET Row
  BY DEF SubType
<1>2. /\ a \in st.ack .. MaxSeq
      /\ \A s \in Row : st.ack < s /\ s <= a => s \in st.done
  BY <1>1, ReachedDone
<1>3. Advance(st) = [st EXCEPT !.ack = a, !.done = @ \ (st.ack + 1 .. a), !.dirty = TRUE]
  BY DEF Advance
<1> HIDE DEF a
<1>4. a \in 0 .. MaxSeq
  BY <1>0, <1>1, <1>2
<1>5. st.done \ (st.ack + 1 .. a) \in SUBSET Row
  BY <1>1
<1>6. Advance(st) \in SubType
  BY <1>3, <1>4, <1>5 DEF SubType
<1>7. /\ Advance(st).ack = a
      /\ Advance(st).done \subseteq st.done
      /\ Advance(st).epoch = st.epoch
      /\ Advance(st).inflight = st.inflight
      /\ Advance(st).dispatched = st.dispatched
      /\ Advance(st).sending = st.sending
  BY <1>3 DEF SubType
<1>8. \A s \in Row : s <= Advance(st).ack \/ s \in Advance(st).done
                     => s <= st.ack \/ s \in st.done
  BY <1>0, <1>1, <1>2, <1>4, <1>7 DEF Row
<1> QED BY <1>6, <1>7, <1>8

LEMMA FinishFacts ==
    ASSUME NEW st \in SubType, NEW rows \in SUBSET Row
    PROVE  /\ Finish(st, rows) \in SubType
           /\ Finish(st, rows).epoch = st.epoch
           /\ Finish(st, rows).inflight = st.inflight \ rows
           /\ Finish(st, rows).dispatched = st.dispatched
           /\ Finish(st, rows).sending = st.sending
           /\ \A s \in Row : s <= Finish(st, rows).ack \/ s \in Finish(st, rows).done
                             => s <= st.ack \/ s \in st.done \/ s \in rows
<1> DEFINE f == [s \in Row |-> IF s \in rows THEN 0 ELSE st.tries[s]]
           n == [st EXCEPT !.inflight = @ \ rows,
                           !.tries = f,
                           !.done = @ \cup {s \in rows : s > st.ack}]
<1>1. f \in [Row -> 0 .. MaxAttempts]
  BY WebhooksAssumption DEF SubType
<1>2. Finish(st, rows) = Advance(n)
  BY DEF Finish
<1> HIDE DEF f
<1>3. n \in SubType
  BY <1>1 DEF SubType
<1>4. /\ n.epoch = st.epoch
      /\ n.inflight = st.inflight \ rows
      /\ n.dispatched = st.dispatched
      /\ n.sending = st.sending
      /\ n.ack = st.ack
      /\ n.done \subseteq st.done \cup rows
  BY DEF SubType
<1> HIDE DEF n
<1> QED BY <1>2, <1>3, <1>4, AdvanceFacts

LEMMA FinishSound ==
    ASSUME NEW st \in SubType, NEW rows \in SUBSET Row, NEW C,
           Sound(st, C), rows \subseteq C
    PROVE  Sound(Finish(st, rows), C)
<1> DEFINE n == Finish(st, rows)
<1>1. /\ n.inflight = st.inflight \ rows
      /\ n.dispatched = st.dispatched
      /\ \A s \in Row : s <= n.ack \/ s \in n.done
                        => s <= st.ack \/ s \in st.done \/ s \in rows
  BY FinishFacts
<1> HIDE DEF n
<1>2. Sound(n, C)
  BY <1>1 DEF Sound
<1> QED BY <1>2 DEF n

LEMMA SoundGrows ==
    ASSUME NEW st, NEW C, NEW D, Sound(st, C), C \subseteq D
    PROVE  Sound(st, D)
BY DEF Sound

LEMMA ResumedSound ==
    ASSUME NEW ck \in CkptType, NEW C, CkptSound(ck, C)
    PROVE  /\ Resumed(ck) \in SubType
           /\ Resumed(ck).epoch = ck.epoch
           /\ Sound(Resumed(ck), C)
<1> DEFINE last == Last(ck.inflight, ck.ack)
           n == [NoSub EXCEPT !.epoch = ck.epoch, !.ack = ck.ack,
                              !.inflight = ck.inflight, !.tries = ck.tries,
                              !.dispatched = last,
                              !.done = (ck.ack + 1 .. last) \ ck.inflight]
<1>0. MaxSeq \in Nat
  BY WebhooksAssumption
<1>1. ck.ack \in 0 .. MaxSeq /\ ck.inflight \in SUBSET Row
  BY DEF CkptType
<1>2. /\ last \in ck.inflight \cup {ck.ack}
      /\ \A x \in ck.inflight \cup {ck.ack} : x <= last
      /\ last \in 0 .. MaxSeq
  BY <1>1, LastIsLast
<1>3. Resumed(ck) = [Advance(n) EXCEPT !.dirty = FALSE]
  BY DEF Resumed
<1> HIDE DEF last
<1>4. (ck.ack + 1 .. last) \ ck.inflight \in SUBSET Row
  BY <1>0, <1>1, <1>2 DEF Row
<1>5. n \in SubType
  BY <1>2, <1>4 DEF SubType, CkptType, NoSub
<1>6. /\ n.epoch = ck.epoch /\ n.ack = ck.ack /\ n.inflight = ck.inflight
      /\ n.dispatched = last /\ n.done = (ck.ack + 1 .. last) \ ck.inflight
  BY DEF NoSub
<1> HIDE DEF n
<1>7. \A s \in Row : s \in n.done => s \in C
  <2>1. SUFFICES ASSUME NEW s \in Row, s \in n.done PROVE s \in C
    OBVIOUS
  <2>2. s > ck.ack /\ s <= last /\ s \notin ck.inflight
    BY <1>0, <1>1, <1>2, <1>6, <2>1 DEF Row
  <2>3. last \in ck.inflight /\ s < last
    BY <1>0, <1>1, <1>2, <2>2 DEF Row
  <2> QED BY <2>2, <2>3 DEF CkptSound
<1>8. Sound(n, C)
  <2>1. \A s \in Row : s <= n.ack => s \in C
    BY <1>6 DEF CkptSound
  <2>2. \A s \in Row : s <= last /\ s > ck.ack /\ s \notin ck.inflight => s \in n.done
    BY <1>0, <1>1, <1>2, <1>6 DEF Row
  <2>3. \A s \in Row : s <= n.dispatched => s \in n.inflight \/ s \in C
    BY <1>0, <1>1, <1>2, <1>6, <1>7, <2>1, <2>2 DEF Row
  <2>4. \A s \in n.inflight : s <= n.dispatched
    BY <1>2, <1>6
  <2> QED BY <1>7, <2>1, <2>3, <2>4 DEF Sound
<1>9. /\ Advance(n) \in SubType
      /\ Advance(n).epoch = n.epoch
      /\ Advance(n).inflight = n.inflight
      /\ Advance(n).dispatched = n.dispatched
      /\ \A s \in Row : s <= Advance(n).ack \/ s \in Advance(n).done
                        => s <= n.ack \/ s \in n.done
  BY <1>5, AdvanceFacts
<1>10. Sound(Advance(n), C)
  BY <1>8, <1>9 DEF Sound
<1>11. /\ Resumed(ck) \in SubType
       /\ Resumed(ck).epoch = ck.epoch
       /\ Resumed(ck).ack = Advance(n).ack
       /\ Resumed(ck).done = Advance(n).done
       /\ Resumed(ck).inflight = Advance(n).inflight
       /\ Resumed(ck).dispatched = Advance(n).dispatched
  BY <1>3, <1>6, <1>9 DEF SubType
<1>12. Sound(Resumed(ck), C)
  BY <1>10, <1>11 DEF Sound
<1> QED BY <1>11, <1>12

-----------------------------------------------------------------------------
(* The parts of a pass.                                                    *)

LEMMA RebasedFacts ==
    ASSUME NEW st \in SubType, NEW b \in BoundsType
    PROVE  /\ Rebased(st, b) \in SubType
           /\ Rebased(st, b).epoch = b.epoch
<1>0. MaxSeq \in Nat /\ MaxAttempts \in Nat
  BY WebhooksAssumption
<1>1. b.floor - 1 \in 0 .. MaxSeq /\ b.epoch \in Epoch \cup {0}
  BY <1>0 DEF BoundsType
<1>2. NoTries \in [Row -> 0 .. MaxAttempts]
  BY <1>0 DEF NoTries
<1>3. CASE st.epoch # b.epoch \/ st.ack + 1 < b.floor
  <2>1. Rebased(st, b) = [st EXCEPT !.epoch = b.epoch, !.ack = b.floor - 1,
                    !.inflight = {}, !.tries = NoTries,
                    !.done = {}, !.dispatched = b.floor - 1, !.dirty = TRUE]
    BY <1>3 DEF Rebased
  <2> QED BY <1>1, <1>2, <2>1 DEF SubType
<1>4. CASE ~(st.epoch # b.epoch \/ st.ack + 1 < b.floor)
  BY <1>4 DEF Rebased
<1> QED BY <1>3, <1>4

LEMMA RebasedSound ==
    ASSUME NEW st \in SubType, NEW b \in BoundsType, NEW C,
           st.epoch = b.epoch => Sound(st, C),
           \A s \in Row : s < b.floor => s \in C
    PROVE  Sound(Rebased(st, b), C)
<1>0. MaxSeq \in Nat
  BY WebhooksAssumption
<1>1. b.floor \in 1 .. MaxSeq + 1
  BY DEF BoundsType
<1>2. CASE st.epoch # b.epoch \/ st.ack + 1 < b.floor
  <2> DEFINE n == [st EXCEPT !.epoch = b.epoch, !.ack = b.floor - 1,
                    !.inflight = {}, !.tries = NoTries,
                    !.done = {}, !.dispatched = b.floor - 1, !.dirty = TRUE]
  <2>1. Rebased(st, b) = n
    BY <1>2 DEF Rebased
  <2>2. n.ack = b.floor - 1 /\ n.inflight = {} /\ n.done = {} /\ n.dispatched = b.floor - 1
    BY DEF SubType
  <2> HIDE DEF n
  <2>3. \A s \in Row : s <= b.floor - 1 => s \in C
    BY <1>0, <1>1 DEF Row
  <2> QED BY <2>1, <2>2, <2>3 DEF Sound
<1>3. CASE ~(st.epoch # b.epoch \/ st.ack + 1 < b.floor)
  BY <1>3 DEF Rebased
<1> QED BY <1>2, <1>3

\* The row set of `sending' grows: nothing else changes.
LEMMA SendingFacts ==
    ASSUME NEW st \in SubType, NEW rows \in SUBSET Row
    PROVE  LET n == [st EXCEPT !.sending = rows]
           IN  /\ n \in SubType
               /\ n.epoch = st.epoch
               /\ \A C : Sound(st, C) => Sound(n, C)
<1> DEFINE n == [st EXCEPT !.sending = rows]
<1>1. n \in SubType
  BY DEF SubType
<1>2. /\ n.epoch = st.epoch /\ n.ack = st.ack /\ n.done = st.done
      /\ n.inflight = st.inflight /\ n.dispatched = st.dispatched
  BY DEF SubType
<1> HIDE DEF n
<1>3. \A C : Sound(st, C) => Sound(n, C)
  BY <1>2 DEF Sound
<1>4. n.epoch = st.epoch
  BY <1>2
<1> QED BY <1>1, <1>3, <1>4 DEF n

LEMMA AfterRetriesFacts ==
    ASSUME NEW st \in SubType, NEW ripe
    PROVE  /\ Retries(st, ripe) \in SUBSET Row
           /\ AfterRetries(st, ripe) \in SubType
           /\ AfterRetries(st, ripe).epoch = st.epoch
           /\ \A C : Sound(st, C) /\ (\A s \in Row : s < floor => s \in C)
                    => Sound(AfterRetries(st, ripe), C)
<1> DEFINE sent == [st EXCEPT !.sending = @ \cup Retries(st, ripe)]
           gone == Dropped(st, ripe)
<1>1. Due(st, ripe) \in SUBSET Row /\ st.sending \in SUBSET Row
  BY DEF Due, SubType
<1>2. Retries(st, ripe) \in SUBSET Row
  BY <1>1 DEF Retries, FirstOf
<1>3. gone \in SUBSET Row /\ \A s \in gone : s < floor
  BY <1>1 DEF Dropped
<1>4. AfterRetries(st, ripe) = IF gone = {} THEN sent ELSE Finish(sent, gone)
  BY DEF AfterRetries
<1> DEFINE rows == st.sending \cup Retries(st, ripe)
<1>5. rows \in SUBSET Row /\ sent = [st EXCEPT !.sending = rows]
  BY <1>1, <1>2
<1> HIDE DEF rows
<1>6. /\ sent \in SubType
      /\ sent.epoch = st.epoch
      /\ \A C : Sound(st, C) => Sound(sent, C)
  BY <1>5, SendingFacts
<1> HIDE DEF sent, gone
<1>7. Finish(sent, gone) \in SubType /\ Finish(sent, gone).epoch = sent.epoch
  BY <1>3, <1>6, FinishFacts
<1>8. ASSUME NEW C, Sound(st, C), \A s \in Row : s < floor => s \in C
      PROVE  Sound(AfterRetries(st, ripe), C)
  <2>1. Sound(sent, C)
    BY <1>6, <1>8
  <2>2. gone \subseteq C
    BY <1>3, <1>8
  <2>3. Sound(Finish(sent, gone), C)
    BY <1>3, <1>6, <2>1, <2>2, FinishSound
  <2> QED BY <1>4, <2>1, <2>3
<1> QED BY <1>2, <1>4, <1>6, <1>7, <1>8

\* A pass stops at the first row it does not take.
LEMMA TakenDownward ==
    ASSUME NEW st \in SubType, NEW rows \in SUBSET Row,
           NEW m \in Taken(st, rows), NEW s \in rows, s < m
    PROVE  s \in Taken(st, rows)
<1> DEFINE Below(x) == {y \in rows \cap Wanted : y < x}
<1>0. MaxSeq \in Nat /\ InFlightCap \in Nat /\ RetryCap \in Nat
  BY WebhooksAssumption
<1>1. IsFiniteSet(Row)
  BY <1>0, FS_Interval DEF Row
<1>2. m \in Row /\ s \in Row
  BY DEF Taken, InReach
<1>3. Below(s) \subseteq Below(m) /\ Below(m) \subseteq Row
  <2>1. m \in Nat /\ s \in Nat /\ \A y \in rows : y \in Nat
    BY <1>0, <1>2 DEF Row
  <2>2. \A y \in rows : y < s => y < m
    BY <2>1
  <2> QED BY <2>2
<1>4. IsFiniteSet(Below(m))
  BY <1>1, <1>3, FS_Subset
<1>5. IsFiniteSet(Below(s)) /\ Cardinality(Below(s)) <= Cardinality(Below(m))
  BY <1>3, <1>4, FS_Subset
<1>6. Cardinality(Below(s)) \in Nat /\ Cardinality(Below(m)) \in Nat
  BY <1>4, <1>5, FS_CardinalityType
<1>7. st.sending \in SUBSET Row /\ st.inflight \in SUBSET Row
  BY DEF SubType
<1>8. Cardinality(st.sending) \in Nat /\ Cardinality(st.inflight) \in Nat
  BY <1>1, <1>7, FS_Subset, FS_CardinalityType
<1>9. /\ Cardinality(st.sending) + Cardinality(Below(m)) < InFlightCap
      /\ Cardinality(st.inflight) + Cardinality(Below(m)) < RetryCap
      /\ EndSeq \in rows => m < EndSeq
  BY DEF Taken, InReach
<1>10. EndSeq \in Nat
  BY WebhooksAssumption
<1>11. /\ Cardinality(st.sending) + Cardinality(Below(s)) < InFlightCap
       /\ Cardinality(st.inflight) + Cardinality(Below(s)) < RetryCap
  <2> DEFINE a == Cardinality(st.sending)  b == Cardinality(st.inflight)
             c == Cardinality(Below(s))    d == Cardinality(Below(m))
  <2>1. a \in Nat /\ b \in Nat /\ c \in Nat /\ d \in Nat /\ c <= d
    BY <1>5, <1>6, <1>8
  <2>2. a + d < InFlightCap /\ b + d < RetryCap
    BY <1>9
  <2> HIDE DEF a, b, c, d
  <2>3. a + c < InFlightCap /\ b + c < RetryCap
    BY <1>0, <2>1, <2>2
  <2> QED BY <2>3 DEF a, b, c
<1>12. EndSeq \in rows => s < EndSeq
  BY <1>0, <1>2, <1>9, <1>10 DEF Row
<1>13. s \in InReach(st, rows)
  BY <1>11 DEF InReach
<1> QED BY <1>12, <1>13 DEF Taken

LEMMA AfterFreshFacts ==
    ASSUME NEW st \in SubType, NEW b \in BoundsType, head \in 0 .. MaxSeq,
           floor \in 1 .. MaxSeq + 1, b.head <= head
    PROVE  /\ Fresh(st, b) \in SUBSET Row
           /\ AfterFresh(st, b) \in SubType
           /\ AfterFresh(st, b).epoch = st.epoch
           /\ \A C : /\ Sound(st, C)
                     /\ \A s \in Row : s < floor \/ s \notin Wanted => s \in C
                     => Sound(AfterFresh(st, b), C)
<1> DEFINE rows == RowsAfter(st)
           taken == Taken(st, rows)
           gone == {s \in Row : st.dispatched < s /\ s < floor /\ (rows = {} => s <= b.head)}
           ends == IF EndSeq \in InReach(st, rows) THEN EndSeq ELSE st.ends
           last == IF rows = {} THEN b.head ELSE Last(taken, st.dispatched)
           n == [st EXCEPT !.ends = ends,
                           !.dispatched = last,
                           !.inflight = @ \cup (taken \cap Wanted),
                           !.sending = @ \cup (taken \cap Wanted),
                           !.done = @ \cup gone \cup (taken \ Wanted)]
<1>0. MaxSeq \in Nat
  BY WebhooksAssumption
<1>1. /\ st.dispatched \in 0 .. MaxSeq /\ st.ends \in {0, EndSeq}
      /\ st.inflight \in SUBSET Row /\ st.sending \in SUBSET Row /\ st.done \in SUBSET Row
  BY DEF SubType
<1>2. rows \in SUBSET Row
  BY <1>0, <1>1 DEF RowsAfter, Row
<1>3. \A s \in Row : st.dispatched < s /\ s <= head => s \in rows \/ s < floor
  BY <1>0, <1>1 DEF RowsAfter, Row
<1> HIDE DEF rows
<1>4. taken \in SUBSET rows
  BY DEF Taken, InReach
<1>5. \A m \in taken : \A s \in rows : s < m => s \in taken
  BY <1>2, TakenDownward
<1>6. b.head \in 0 .. MaxSeq
  BY DEF BoundsType
<1> HIDE DEF taken
<1>7. /\ Last(taken, st.dispatched) \in taken \cup {st.dispatched}
      /\ \A x \in taken \cup {st.dispatched} : x <= Last(taken, st.dispatched)
      /\ Last(taken, st.dispatched) \in 0 .. MaxSeq
  BY <1>1, <1>2, <1>4, LastIsLast
<1>8. last \in 0 .. MaxSeq /\ ends \in {0, EndSeq} /\ gone \in SUBSET Row
  BY <1>1, <1>6, <1>7
<1>9. Fresh(st, b) \in SUBSET Row
  <2>1. Taken(st, RowsAfter(st)) = taken
    BY DEF taken, rows
  <2> QED BY <1>2, <1>4, <2>1 DEF Fresh
<1>10. CASE ~HasRoom(st, b)
  BY <1>9, <1>10 DEF AfterFresh
<1>11. CASE HasRoom(st, b)
  <2>1. AfterFresh(st, b) = Advance(n)
    BY <1>11 DEF AfterFresh, n, last, ends, gone, taken, rows
  <2>2. st.dispatched < b.head
    BY <1>11 DEF HasRoom
  <2>3. \A s \in gone : s \in Row /\ s < floor
    OBVIOUS
  <2>4. rows # {} => last = Last(taken, st.dispatched)
    OBVIOUS
  <2>5. rows = {} => last = b.head
    OBVIOUS
  <2> HIDE DEF last, ends, gone
  <2>6. n \in SubType
    BY <1>1, <1>2, <1>4, <1>8 DEF SubType
  <2>7. /\ n.epoch = st.epoch /\ n.ack = st.ack /\ n.dispatched = last
        /\ n.inflight = st.inflight \cup (taken \cap Wanted)
        /\ n.done = st.done \cup gone \cup (taken \ Wanted)
    BY DEF SubType
  <2> HIDE DEF n
  <2>8. /\ Advance(n) \in SubType
        /\ Advance(n).epoch = n.epoch
        /\ Advance(n).inflight = n.inflight
        /\ Advance(n).dispatched = n.dispatched
        /\ \A s \in Row : s <= Advance(n).ack \/ s \in Advance(n).done
                          => s <= n.ack \/ s \in n.done
    BY <2>6, AdvanceFacts
  <2>9. ASSUME NEW C, Sound(st, C),
               \A s \in Row : s < floor \/ s \notin Wanted => s \in C
        PROVE  Sound(n, C)
    <3>1. \A s \in Row : s <= n.ack \/ s \in n.done => s \in C
      BY <2>3, <2>7, <2>9 DEF Sound
    <3>2. \A s \in Row : st.dispatched < s /\ s <= last => s \in taken \/ s < floor
      <4>1. SUFFICES ASSUME NEW s \in Row, st.dispatched < s, s <= last, ~(s < floor)
                     PROVE  s \in taken
        OBVIOUS
      <4>2. CASE rows = {}
        <5>1. s <= head
          BY <1>0, <1>6, <2>5, <4>1, <4>2 DEF Row
        <5> QED BY <1>3, <4>1, <4>2, <5>1
      <4>3. CASE rows # {}
        <5>1. last \in taken
          BY <1>0, <1>1, <1>7, <1>8, <2>4, <4>1, <4>3 DEF Row
        <5>2. last <= head
          BY <1>0, <1>1, <1>4, <5>1 DEF rows, RowsAfter
        <5>3. s \in rows
          BY <1>0, <1>3, <1>8, <4>1, <5>2 DEF Row
        <5>4. CASE s = last
          BY <5>1, <5>4
        <5>5. CASE s < last
          BY <1>5, <5>1, <5>3, <5>5
        <5> QED BY <1>0, <1>8, <4>1, <5>4, <5>5 DEF Row
      <4> QED BY <4>2, <4>3
    <3>3. \A s \in Row : s <= n.dispatched => s \in n.inflight \/ s \in C
      <4>1. SUFFICES ASSUME NEW s \in Row, s <= last PROVE s \in n.inflight \/ s \in C
        BY <2>7
      <4>2. CASE s <= st.dispatched
        BY <2>7, <2>9, <4>2 DEF Sound
      <4>3. CASE st.dispatched < s
        BY <2>7, <2>9, <3>2, <4>1, <4>3
      <4> QED BY <1>0, <1>1, <4>2, <4>3 DEF Row
    <3>4. \A s \in n.inflight : s <= n.dispatched
      <4>1. SUFFICES ASSUME NEW s \in n.inflight PROVE s <= last
        BY <2>7
      <4>2. s \in Row /\ (s \in st.inflight \/ s \in taken)
        BY <1>1, <1>2, <1>4, <2>7
      <4>3. st.dispatched <= last
        BY <1>0, <1>1, <1>6, <1>7, <2>2, <2>4, <2>5
      <4>4. CASE s \in st.inflight
        <5>1. s <= st.dispatched
          BY <2>9, <4>4 DEF Sound
        <5> QED BY <1>0, <1>1, <1>8, <4>2, <4>3, <5>1 DEF Row
      <4>5. CASE s \in taken
        BY <1>4, <1>7, <2>4, <4>5
      <4> QED BY <4>2, <4>4, <4>5
    <3> QED BY <3>1, <3>3, <3>4 DEF Sound
  <2>10. ASSUME NEW C, Sound(n, C) PROVE Sound(Advance(n), C)
    BY <2>8, <2>10 DEF Sound
  <2> QED BY <1>9, <2>1, <2>7, <2>8, <2>9, <2>10
<1> QED BY <1>10, <1>11

LEMMA RefuseFacts ==
    ASSUME NEW st \in SubType, NEW rows \in SUBSET Row
    PROVE  /\ Refuse(st, rows) \in SubType
           /\ Refuse(st, rows).epoch = st.epoch
           /\ \A C : Sound(st, C) /\ rows \subseteq C => Sound(Refuse(st, rows), C)
<1> DEFINE n == [st EXCEPT !.sending = st.sending \ rows]
<1>1. st.sending \ rows \in SUBSET Row
  BY DEF SubType
<1>2. /\ n \in SubType
      /\ n.epoch = st.epoch
      /\ \A C : Sound(st, C) => Sound(n, C)
  BY <1>1, SendingFacts
<1>3. Refuse(st, rows) = IF rows = {} THEN st ELSE Finish(n, rows)
  BY DEF Refuse
<1> HIDE DEF n
<1>4. Finish(n, rows) \in SubType /\ Finish(n, rows).epoch = n.epoch
  BY <1>2, FinishFacts
<1>5. ASSUME NEW C, Sound(st, C), rows \subseteq C PROVE Sound(Refuse(st, rows), C)
  BY <1>2, <1>3, <1>5, FinishSound
<1> QED BY <1>2, <1>3, <1>4, <1>5

LEMMA ReportedFacts ==
    ASSUME NEW st \in SubType, NEW s \in Row, NEW result \in Result
    PROVE  /\ Reported(st, s, result) \in SubType
           /\ Reported(st, s, result).epoch = st.epoch
           /\ \A C : Sound(st, C) /\ (Closes(st, s, result) => s \in C)
                    => Sound(Reported(st, s, result), C)
<1> DEFINE n == [st EXCEPT !.sending = @ \ {s}, !.dirty = TRUE]
           k == [n EXCEPT !.tries[s] = @ + 1]
<1>0. MaxAttempts \in Nat
  BY WebhooksAssumption
<1>1. n \in SubType
  BY DEF SubType
<1>2. /\ n.epoch = st.epoch /\ n.ack = st.ack /\ n.done = st.done
      /\ n.inflight = st.inflight /\ n.dispatched = st.dispatched /\ n.tries = st.tries
  BY DEF SubType
<1>3. \/ Closes(st, s, result) /\ Reported(st, s, result) = Finish(n, {s})
      \/ ~Closes(st, s, result) /\ s \in st.inflight /\ Reported(st, s, result) = k
      \/ ~Closes(st, s, result) /\ Reported(st, s, result) = n
  BY DEF Reported
<1> HIDE DEF n
<1>4. \A C : Sound(st, C) => Sound(n, C)
  BY <1>2 DEF Sound
<1>5. CASE Closes(st, s, result) /\ Reported(st, s, result) = Finish(n, {s})
  <2>1. {s} \in SUBSET Row
    OBVIOUS
  <2>2. Finish(n, {s}) \in SubType /\ Finish(n, {s}).epoch = n.epoch
    BY <1>1, <2>1, FinishFacts
  <2>3. ASSUME NEW C, Sound(st, C), s \in C PROVE Sound(Finish(n, {s}), C)
    BY <1>1, <1>4, <2>1, <2>3, FinishSound
  <2> QED BY <1>2, <1>5, <2>2, <2>3
<1>6. CASE ~Closes(st, s, result) /\ s \in st.inflight /\ Reported(st, s, result) = k
  <2>1. n.tries \in [Row -> 0 .. MaxAttempts]
    BY <1>1 DEF SubType
  <2>2. n.tries[s] + 1 \in 0 .. MaxAttempts
    BY <1>0, <1>2, <1>6, <2>1 DEF Closes, Exhausted
  <2>3. k = [n EXCEPT !.tries = [n.tries EXCEPT ![s] = n.tries[s] + 1]]
    BY <1>1, <2>1 DEF SubType
  <2> DEFINE f == [n.tries EXCEPT ![s] = n.tries[s] + 1]
  <2>4. f \in [Row -> 0 .. MaxAttempts]
    BY <2>1, <2>2
  <2>5. k = [n EXCEPT !.tries = f]
    BY <2>3
  <2> HIDE DEF f, k
  <2>6. k \in SubType
    BY <1>1, <2>4, <2>5 DEF SubType
  <2>7. /\ k.epoch = n.epoch /\ k.ack = n.ack /\ k.done = n.done
        /\ k.inflight = n.inflight /\ k.dispatched = n.dispatched
    BY <1>1, <2>5 DEF SubType
  <2>8. \A C : Sound(n, C) => Sound(k, C)
    BY <2>7 DEF Sound
  <2> QED BY <1>2, <1>4, <1>6, <2>6, <2>7, <2>8
<1>7. CASE ~Closes(st, s, result) /\ Reported(st, s, result) = n
  BY <1>1, <1>2, <1>4, <1>7
<1> QED BY <1>3, <1>5, <1>6, <1>7

LEMMA StateOfFacts ==
    ASSUME NEW st \in SubType, NEW f \in 0 .. MaxFence
    PROVE  /\ StateOf(st, f) \in CkptType
           /\ StateOf(st, f).epoch = st.epoch
           /\ \A C : Sound(st, C) => CkptSound(StateOf(st, f), C)
<1>0. MaxSeq \in Nat
  BY WebhooksAssumption
<1>1. StateOf(st, f) \in CkptType
  BY DEF StateOf, CkptType, SubType
<1>2. /\ StateOf(st, f).epoch = st.epoch /\ StateOf(st, f).ack = st.ack
      /\ StateOf(st, f).inflight = st.inflight
  BY DEF StateOf
<1>3. ASSUME NEW C, Sound(st, C) PROVE CkptSound(StateOf(st, f), C)
  <2>1. SUFFICES ASSUME NEW s \in Row, s \notin st.inflight, NEW x \in st.inflight, s < x
                 PROVE  s \in C
    BY <1>2, <1>3 DEF CkptSound, Sound
  <2>2. x \in Row /\ st.dispatched \in 0 .. MaxSeq /\ x <= st.dispatched
    BY <1>3 DEF SubType, Sound
  <2>3. s <= st.dispatched
    BY <1>0, <2>1, <2>2 DEF Row
  <2> QED BY <1>3, <2>1, <2>3 DEF Sound
<1> QED BY <1>1, <1>2, <1>3

LEMMA NoSubFacts ==
    /\ NoSub \in SubType /\ NoSub.epoch = 0 /\ Sound(NoSub, {})
    /\ NoCkpt \in CkptType /\ NoCkpt.epoch = 0 /\ CkptSound(NoCkpt, {})
<1>0. MaxSeq \in Nat /\ MaxAttempts \in Nat /\ MaxFence \in Nat
  BY WebhooksAssumption
<1>1. NoTries \in [Row -> 0 .. MaxAttempts]
  BY <1>0 DEF NoTries
<1>2. NoSub \in SubType /\ NoCkpt \in CkptType
  BY <1>0, <1>1 DEF NoSub, NoCkpt, SubType, CkptType
<1>3. \A s \in Row : ~(s <= 0)
  BY <1>0 DEF Row
<1> QED BY <1>2, <1>3 DEF NoSub, NoCkpt, Sound, CkptSound

\* A start: everything up to it is not owed.
LEMMA StartFacts ==
    ASSUME NEW e \in Epoch \cup {0}, NEW n \in 0 .. MaxSeq
    PROVE  LET st == [NoSub EXCEPT !.epoch = e, !.ack = n, !.dispatched = n]
           IN  /\ st \in SubType
               /\ st.epoch = e
               /\ \A C : (\A s \in Row : s <= n => s \in C) => Sound(st, C)
<1> DEFINE st == [NoSub EXCEPT !.epoch = e, !.ack = n, !.dispatched = n]
<1>1. st \in SubType
  BY NoSubFacts DEF SubType
<1>2. /\ st.epoch = e /\ st.ack = n /\ st.dispatched = n
      /\ st.inflight = {} /\ st.done = {}
  BY DEF NoSub
<1> HIDE DEF st
<1>3. \A C : (\A s \in Row : s <= n => s \in C) => Sound(st, C)
  BY <1>2 DEF Sound
<1>4. st.epoch = e
  BY <1>2
<1> QED BY <1>1, <1>3, <1>4 DEF st

-----------------------------------------------------------------------------
(* Types.  A pass reads the bounds of the log that is there.               *)

Passes ==
    \A r \in Replica : pc[r] = "schedule" =>
        bounds[r].epoch = epoch /\ bounds[r].floor <= floor /\ bounds[r].head <= head

LogT ==
    /\ epoch \in Epoch /\ floor \in 1 .. MaxSeq + 1 /\ head \in 0 .. MaxSeq
    /\ events \in 0 .. MaxEvents /\ epoch <= events + 1
StoreT ==
    /\ rec \in {"none", "live", "gone"}
    /\ start \in [epoch : Epoch \cup {0}, seq : 0 .. MaxSeq]
    /\ ckpt \in CkptType
LeaseT ==
    /\ lock \in Replica \cup {Nobody} /\ granted \in 0 .. MaxFence
    /\ lease \in [Replica -> 0 .. MaxFence]
FenceT == fences \in [Replica -> 0 .. MaxFence]
UnderT == under \in [Replica -> 0 .. MaxFence]
PcT == pc \in [Replica -> {"idle", "schedule", "put", "release"}]
GivingT == giving \in [Replica -> BOOLEAN]
SubT == sub \in [Replica -> SubType]
BoundsT == bounds \in [Replica -> BoundsType]
TaskT ==
    /\ DOMAIN tasks = Replica
    /\ \A r \in Replica : \A t \in tasks[r] :
         t.seq \in Row /\ t.epoch \in Epoch /\ t.cursor \in 0 .. MaxSeq
HistT ==
    /\ settled \subseteq Epoch \X Row /\ misread \subseteq Epoch \X Row
    /\ ended \in Epoch \cup {0}

TInv ==
    /\ LogT /\ StoreT /\ LeaseT /\ FenceT /\ UnderT /\ PcT /\ GivingT /\ SubT /\ BoundsT
    /\ TaskT /\ HistT /\ Passes

\* What a pass does with the subscription and the attempts it hands out.
Hands(r, handed, started) ==
    LET st == Refuse(handed, started \cap Blocked)
    IN  /\ sub' = [sub EXCEPT ![r] = st]
        /\ tasks' = [tasks EXCEPT ![r] = @ \cup Attempts(st, started \ Blocked, @)]
        /\ settled' = settled \cup {<<st.epoch, s>> : s \in started \cap Blocked}

\* What a pass makes of a subscription.
LEMMA ScheduleFacts ==
    ASSUME TInv, NEW r \in Replica, NEW ripe, Schedule(r, ripe)
    PROVE  \E started \in SUBSET Row, handed \in SubType :
             /\ handed.epoch = epoch
             /\ Hands(r, handed, started)
             /\ \A C : /\ sub[r].epoch = epoch => Sound(sub[r], C)
                       /\ \A s \in Row : s < floor \/ s \notin Wanted => s \in C
                       => Sound(handed, C)
<1> DEFINE b == bounds[r]
           based == Rebased(sub[r], b)
           resent == AfterRetries(based, ripe)
           handed == AfterFresh(resent, b)
           started == Retries(based, ripe) \cup Fresh(resent, b)
<1>0. MaxSeq \in Nat
  BY WebhooksAssumption
<1>1. /\ sub[r] \in SubType /\ b \in BoundsType
      /\ head \in 0 .. MaxSeq /\ floor \in 1 .. MaxSeq + 1
  BY DEF TInv, SubT, BoundsT, LogT
<1>2. b.epoch = epoch /\ b.floor <= floor /\ b.head <= head
  BY DEF TInv, Passes, Schedule
<1>3. Hands(r, handed, started)
  <2>1. PICK xb \in {Rebased(sub[r], bounds[r])} :
             \E xr \in {AfterRetries(xb, ripe)} :
             \E xh \in {AfterFresh(xr, bounds[r])} :
             \E xs \in {Retries(xb, ripe) \cup Fresh(xr, bounds[r])} :
             \E st \in {Refuse(xh, xs \cap Blocked)} :
               /\ sub' = [sub EXCEPT ![r] = st]
               /\ tasks' = [tasks EXCEPT ![r] = @ \cup Attempts(st, xs \ Blocked, @)]
               /\ settled' = settled \cup {<<st.epoch, s>> : s \in xs \cap Blocked}
    BY Zenon DEF Schedule
  <2>2. PICK xr \in {AfterRetries(xb, ripe)} :
             \E xh \in {AfterFresh(xr, bounds[r])} :
             \E xs \in {Retries(xb, ripe) \cup Fresh(xr, bounds[r])} : Hands(r, xh, xs)
    BY <2>1, Zenon DEF Hands
  <2>3. PICK xh \in {AfterFresh(xr, bounds[r])},
             xs \in {Retries(xb, ripe) \cup Fresh(xr, bounds[r])} : Hands(r, xh, xs)
    BY <2>2, Zenon
  <2>4. xh = handed /\ xs = started
    BY <2>1, <2>2, <2>3, Zenon
  <2> QED BY <2>3, <2>4, Zenon
<1> HIDE DEF b
<1>4. based \in SubType /\ based.epoch = b.epoch
  BY <1>1, RebasedFacts
<1>5. ASSUME NEW C, sub[r].epoch = epoch => Sound(sub[r], C),
             \A s \in Row : s < floor => s \in C
      PROVE  Sound(based, C)
  <2>1. \A s \in Row : s < b.floor => s \in C
    <3>1. b.floor \in 1 .. MaxSeq + 1
      BY <1>1 DEF BoundsType
    <3> QED BY <1>0, <1>1, <1>2, <1>5, <3>1 DEF Row
  <2> QED BY <1>1, <1>2, <1>5, <2>1, RebasedSound
<1> HIDE DEF based
<1>6. /\ Retries(based, ripe) \in SUBSET Row
      /\ resent \in SubType /\ resent.epoch = based.epoch
      /\ \A C : Sound(based, C) /\ (\A s \in Row : s < floor => s \in C) => Sound(resent, C)
  BY <1>4, AfterRetriesFacts
<1> HIDE DEF resent
<1>7. /\ Fresh(resent, b) \in SUBSET Row
      /\ handed \in SubType /\ handed.epoch = resent.epoch
      /\ \A C : /\ Sound(resent, C)
                /\ \A s \in Row : s < floor \/ s \notin Wanted => s \in C
                => Sound(handed, C)
  BY <1>1, <1>2, <1>6, AfterFreshFacts
<1> HIDE DEF handed
<1>8. started \in SUBSET Row
  BY <1>6, <1>7
<1> HIDE DEF started
<1>9. handed.epoch = epoch
  BY <1>2, <1>4, <1>6, <1>7
<1>10. \A C : /\ sub[r].epoch = epoch => Sound(sub[r], C)
              /\ \A s \in Row : s < floor \/ s \notin Wanted => s \in C
              => Sound(handed, C)
  <2> SUFFICES ASSUME NEW C, sub[r].epoch = epoch => Sound(sub[r], C),
                      \A s \in Row : s < floor \/ s \notin Wanted => s \in C
               PROVE  Sound(handed, C)
    OBVIOUS
  <2>1. Sound(based, C)
    BY <1>5
  <2>2. Sound(resent, C)
    BY <1>6, <2>1
  <2> QED BY <1>7, <2>2
<1>11. handed \in SubType
  BY <1>7
<1> WITNESS started \in SUBSET Row, handed \in SubType
<1> QED BY <1>3, <1>9, <1>10

\* The attempts a pass starts.
LEMMA AttemptsFacts ==
    ASSUME NEW st \in SubType, NEW rows \in SUBSET Row, NEW old,
           NEW t \in Attempts(st, rows, old)
    PROVE  /\ t.seq \in rows /\ t.epoch = st.epoch /\ t.cursor \in 0 .. MaxSeq
           /\ t.seq \notin Gaps
                => \A s \in Row : s <= t.cursor /\ s # t.seq => s <= st.ack
<1>0. MaxSeq \in Nat
  BY WebhooksAssumption
<1>1. PICK s \in rows : /\ t.seq = s /\ t.epoch = st.epoch
                        /\ t.cursor = IF s \in Gaps THEN s ELSE CursorOf(st, s)
  BY DEF Attempts
<1>2. st.ack \in 0 .. MaxSeq
  BY DEF SubType
<1>3. s \in 1 .. MaxSeq
  BY DEF Row
<1>4. /\ CursorOf(st, s) \in 0 .. MaxSeq
      /\ \A x \in Row : x <= CursorOf(st, s) /\ x # s => x <= st.ack
  BY <1>0, <1>2, <1>3 DEF CursorOf, Row
<1>5. s \in 0 .. MaxSeq
  BY <1>0, <1>3
<1> QED BY <1>1, <1>4, <1>5

LEMMA FoundFacts ==
    ASSUME TInv, NEW r \in Replica
    PROVE  Found(r) \in SubType
<1>1. sub[r] \in SubType /\ ckpt \in CkptType /\ start.epoch \in Epoch \cup {0}
      /\ start.seq \in 0 .. MaxSeq
  BY DEF TInv, SubT, StoreT
<1>2. Resumed(ckpt) \in SubType
  <2>1. CkptSound(ckpt, Row)
    BY DEF CkptSound
  <2> QED BY <1>1, <2>1, ResumedSound
<1>3. [NoSub EXCEPT !.epoch = start.epoch, !.ack = start.seq, !.dispatched = start.seq] \in SubType
  BY <1>1, StartFacts
<1> QED BY <1>1, <1>2, <1>3 DEF Found

LEMMA Typing == TInv /\ [Next]_vars => TInv'
<1> SUFFICES ASSUME TInv, [Next]_vars PROVE TInv'
  OBVIOUS
<1> USE DEF theLog, store, leases, local, history
<1>0. /\ MaxSeq \in Nat /\ MaxFence \in Nat /\ MaxEvents \in Nat /\ Nobody \notin Replica
      /\ Epoch = 1 .. MaxEvents + 1
  BY WebhooksAssumption DEF Epoch
<1>a. NoSub \in SubType /\ NoCkpt \in CkptType
  BY NoSubFacts
<1>b. NoBounds \in BoundsType
  BY <1>0 DEF NoBounds, BoundsType
<1>t. /\ LogT /\ StoreT /\ LeaseT /\ FenceT /\ UnderT /\ PcT /\ GivingT /\ SubT /\ BoundsT
      /\ TaskT /\ HistT /\ Passes
  BY DEF TInv
<1>1. CASE Append
  <2>1. LogT'
    BY <1>0, <1>t, <1>1 DEF Append, LogT
  <2>2. Passes'
    BY <1>0, <1>t, <1>1 DEF Append, LogT, BoundsT, BoundsType, Passes
  <2> QED BY <1>t, <1>1, <2>1, <2>2 DEF Append, TInv, StoreT, LeaseT, FenceT, UnderT,
          PcT, GivingT, SubT, BoundsT, TaskT, HistT
<1>2. CASE Retain
  <2>1. LogT'
    BY <1>0, <1>t, <1>2 DEF Retain, Disturb, LogT
  <2>2. Passes'
    BY <1>0, <1>t, <1>2 DEF Retain, Disturb, LogT, BoundsT, BoundsType, Passes
  <2> QED BY <1>t, <1>2, <2>1, <2>2 DEF Retain, Disturb, TInv, StoreT, LeaseT, FenceT,
          UnderT, PcT, GivingT, SubT, BoundsT, TaskT, HistT
<1>3. CASE Recreate
  <2>1. LogT'
    BY <1>0, <1>t, <1>3 DEF Recreate, Disturb, LogT
  <2>2. Passes'
    BY <1>0, <1>t, <1>3 DEF Recreate, Disturb, Passes
  <2> QED BY <1>t, <1>3, <2>1, <2>2 DEF Recreate, Disturb, TInv, StoreT, LeaseT, FenceT,
          UnderT, PcT, GivingT, SubT, BoundsT, TaskT, HistT
<1>4. CASE Subscribe
  <2>1. StoreT'
    BY <1>0, <1>t, <1>4 DEF Subscribe, LogT, StoreT
  <2> QED BY <1>t, <1>4, <2>1 DEF Subscribe, TInv, LogT, LeaseT, FenceT, UnderT, PcT,
          GivingT, SubT, BoundsT, TaskT, HistT, Passes
<1>5. CASE Unsubscribe
  <2>1. LogT'
    BY <1>0, <1>t, <1>5 DEF Unsubscribe, Disturb, Delete, LogT
  <2>2. StoreT'
    BY <1>0, <1>t, <1>5, <1>a DEF Unsubscribe, Disturb, Delete, StoreT
  <2> QED BY <1>t, <1>5, <2>1, <2>2 DEF Unsubscribe, Disturb, Delete, TInv, LeaseT,
          FenceT, UnderT, PcT, GivingT, SubT, BoundsT, TaskT, HistT, Passes
<1>6. CASE Expire
  <2>1. LeaseT'
    BY <1>0, <1>t, <1>6 DEF Expire, LeaseT
  <2> QED BY <1>t, <1>6, <2>1 DEF Expire, TInv, LogT, StoreT, FenceT, UnderT, PcT,
          GivingT, SubT, BoundsT, TaskT, HistT, Passes
<1>7. ASSUME NEW r \in Replica, Acquire(r) PROVE TInv'
  <2>1. LeaseT'
    BY <1>0, <1>t, <1>7 DEF Acquire, LeaseT
  <2> QED BY <1>t, <1>7, <2>1 DEF Acquire, TInv, LogT, StoreT, FenceT, UnderT, PcT,
          GivingT, SubT, BoundsT, TaskT, HistT, Passes
<1>8. ASSUME NEW r \in Replica, Lapse(r) PROVE TInv'
  <2>1. LeaseT'
    BY <1>0, <1>t, <1>8 DEF Lapse, LeaseT
  <2> QED BY <1>t, <1>8, <2>1 DEF Lapse, TInv, LogT, StoreT, FenceT, UnderT, PcT,
          GivingT, SubT, BoundsT, TaskT, HistT, Passes
<1>9. ASSUME NEW r \in Replica, Crash(r) PROVE TInv'
  <2>1. LogT'
    BY <1>0, <1>t, <1>9 DEF Crash, Disturb, LogT
  <2>2. LeaseT'
    BY <1>0, <1>t, <1>9 DEF Crash, Disturb, LeaseT
  <2>3. FenceT'
    BY <1>0, <1>t, <1>9 DEF Crash, Disturb, FenceT
  <2>4. UnderT'
    BY <1>0, <1>t, <1>9 DEF Crash, Disturb, UnderT
  <2>5. PcT'
    BY <1>0, <1>t, <1>9 DEF Crash, Disturb, PcT
  <2>6. GivingT'
    BY <1>0, <1>t, <1>9 DEF Crash, Disturb, GivingT
  <2>7. SubT'
    BY <1>0, <1>t, <1>9, <1>a DEF Crash, Disturb, SubT
  <2>8. BoundsT'
    BY <1>0, <1>t, <1>9, <1>b DEF Crash, Disturb, BoundsT
  <2>9. TaskT'
    BY <1>0, <1>t, <1>9 DEF Crash, Disturb, TaskT
  <2>10. Passes'
    BY <1>0, <1>t, <1>9 DEF Crash, Disturb, PcT, BoundsT, Passes
  <2> QED BY <1>t, <1>9, <2>1, <2>2, <2>3, <2>4, <2>5, <2>6, <2>7, <2>8, <2>9, <2>10 DEF
          Crash, Disturb, TInv, StoreT, HistT
<1>10. ASSUME NEW r \in Replica, HandOff(r) PROVE TInv'
  <2>1. GivingT'
    BY <1>0, <1>t, <1>10 DEF HandOff, GivingT
  <2> QED BY <1>t, <1>10, <2>1 DEF HandOff, TInv, LogT, StoreT, LeaseT, FenceT, UnderT,
          PcT, SubT, BoundsT, TaskT, HistT, Passes
<1>11. ASSUME NEW r \in Replica, StepDown(r) PROVE TInv'
  <2>1. FenceT'
    BY <1>0, <1>t, <1>11 DEF StepDown, DropShard, FenceT
  <2>2. SubT'
    BY <1>0, <1>t, <1>11, <1>a DEF StepDown, DropShard, SubT
  <2>3. TaskT'
    BY <1>0, <1>t, <1>11 DEF StepDown, DropShard, TaskT
  <2> QED BY <1>t, <1>11, <2>1, <2>2, <2>3 DEF StepDown, DropShard, TInv, LogT, StoreT,
          LeaseT, UnderT, PcT, GivingT, BoundsT, HistT, Passes
<1>12. ASSUME NEW r \in Replica, Pass(r) PROVE TInv'
  <2>1. Found(r) \in SubType
    BY FoundFacts
  <2>2. [epoch |-> epoch, floor |-> floor, head |-> head] \in BoundsType
    BY <1>t DEF LogT, BoundsType
  <2>21. FenceT'
    BY <1>0, <1>t, <1>12 DEF Pass, Goto, LeaseT, FenceT
  <2>22. PcT'
    BY <1>0, <1>t, <1>12 DEF Pass, Goto, PcT
  <2>23. SubT'
    BY <1>0, <1>t, <1>12, <2>1 DEF Pass, Goto, SubT
  <2>24. BoundsT'
    BY <1>0, <1>t, <1>12, <2>2 DEF Pass, Goto, BoundsT
  <2>25. Passes'
    BY <1>0, <1>t, <1>12 DEF Pass, Goto, PcT, BoundsT, LogT, Passes
  <2> QED BY <1>t, <1>12, <2>21, <2>22, <2>23, <2>24, <2>25 DEF Pass, Goto, TInv, LogT,
          StoreT, LeaseT, UnderT, GivingT, TaskT, HistT
<1>13. ASSUME NEW r \in Replica, Late(r) PROVE TInv'
  <2>1. PcT'
    BY <1>0, <1>t, <1>13 DEF Late, Goto, PcT
  <2>2. BoundsT'
    BY <1>0, <1>t, <1>13, <1>b DEF Late, Goto, BoundsT
  <2>3. Passes'
    BY <1>0, <1>t, <1>13 DEF Late, Goto, PcT, BoundsT, Passes
  <2> QED BY <1>t, <1>13, <2>1, <2>2, <2>3 DEF Late, Goto, TInv, LogT, StoreT, LeaseT,
          FenceT, UnderT, GivingT, SubT, TaskT, HistT
<1>14. ASSUME NEW r \in Replica, Terminate(r) PROVE TInv'
  <2>1. StoreT'
    BY <1>0, <1>t, <1>14, <1>a DEF Terminate, Delete, StoreT
  <2>2. SubT'
    BY <1>0, <1>t, <1>14, <1>a DEF Terminate, Delete, SubT
  <2>3. HistT'
    BY <1>0, <1>t, <1>14 DEF Terminate, Delete, SubT, SubType, HistT
  <2> QED BY <1>t, <1>14, <2>1, <2>2, <2>3 DEF Terminate, Delete, TInv, LogT, LeaseT,
          FenceT, UnderT, PcT, GivingT, BoundsT, TaskT, Passes
<1>15. ASSUME NEW r \in Replica, Forget(r) PROVE TInv'
  <2>1. FenceT'
    BY <1>0, <1>t, <1>15 DEF Forget, LeaseT, FenceT
  <2>2. SubT'
    BY <1>0, <1>t, <1>15, <1>a DEF Forget, SubT
  <2> QED BY <1>t, <1>15, <2>1, <2>2 DEF Forget, TInv, LogT, StoreT, LeaseT, UnderT,
          PcT, GivingT, BoundsT, TaskT, HistT, Passes
<1>16. ASSUME NEW r \in Replica, Lapsed(r) PROVE TInv'
  <2>1. FenceT'
    BY <1>0, <1>t, <1>16 DEF Lapsed, DropShard, Goto, FenceT
  <2>2. PcT'
    BY <1>0, <1>t, <1>16 DEF Lapsed, DropShard, Goto, PcT
  <2>3. SubT'
    BY <1>0, <1>t, <1>16, <1>a DEF Lapsed, DropShard, Goto, SubT
  <2>4. Passes'
    BY <1>0, <1>t, <1>16 DEF Lapsed, DropShard, Goto, PcT, Passes
  <2> QED BY <1>t, <1>16, <2>1, <2>2, <2>3, <2>4 DEF Lapsed, DropShard, Goto, TInv,
          LogT, StoreT, LeaseT, UnderT, GivingT, BoundsT, TaskT, HistT
<1>17. ASSUME NEW r \in Replica, Deposed(r) PROVE TInv'
  <2>1. FenceT'
    BY <1>0, <1>t, <1>17 DEF Deposed, DropShard, Goto, FenceT
  <2>2. PcT'
    BY <1>0, <1>t, <1>17 DEF Deposed, DropShard, Goto, PcT
  <2>3. SubT'
    BY <1>0, <1>t, <1>17, <1>a DEF Deposed, DropShard, Goto, SubT
  <2>4. Passes'
    BY <1>0, <1>t, <1>17 DEF Deposed, DropShard, Goto, PcT, Passes
  <2> QED BY <1>t, <1>17, <2>1, <2>2, <2>3, <2>4 DEF Deposed, DropShard, Goto, TInv,
          LogT, StoreT, LeaseT, UnderT, GivingT, BoundsT, TaskT, HistT
<1>18. ASSUME NEW r \in Replica, GetDelivery(r) PROVE TInv'
  <2>1. UnderT'
    BY <1>0, <1>t, <1>18 DEF GetDelivery, Goto, LeaseT, UnderT
  <2>2. PcT'
    BY <1>0, <1>t, <1>18 DEF GetDelivery, Goto, PcT
  <2>3. Passes'
    BY <1>0, <1>t, <1>18 DEF GetDelivery, Goto, PcT, Passes
  <2> QED BY <1>t, <1>18, <2>1, <2>2, <2>3 DEF GetDelivery, Goto, TInv, LogT, StoreT,
          LeaseT, FenceT, GivingT, SubT, BoundsT, TaskT, HistT
<1>19. ASSUME NEW r \in Replica, PutDelivery(r) PROVE TInv'
  <2>1. StateOf(sub[r], under[r]) \in CkptType
    BY <1>t, StateOfFacts DEF SubT, UnderT
  <2>2. [sub[r] EXCEPT !.dirty = FALSE] \in SubType
    BY <1>t DEF SubT, SubType
  <2>3. sub' = [sub EXCEPT ![r] = [sub[r] EXCEPT !.dirty = FALSE]]
    BY <1>19 DEF PutDelivery
  <2>21. StoreT'
    BY <1>0, <1>t, <1>19, <2>1 DEF PutDelivery, Goto, StoreT
  <2>22. UnderT'
    BY <1>0, <1>t, <1>19 DEF PutDelivery, Goto, UnderT
  <2>23. PcT'
    BY <1>0, <1>t, <1>19 DEF PutDelivery, Goto, PcT
  <2>24. SubT'
    BY <1>0, <1>t, <1>19, <2>2, <2>3 DEF PutDelivery, Goto, SubT
  <2>25. Passes'
    BY <1>0, <1>t, <1>19 DEF PutDelivery, Goto, PcT, Passes
  <2> QED BY <1>t, <1>19, <2>21, <2>22, <2>23, <2>24, <2>25 DEF PutDelivery, Goto, TInv,
          LogT, LeaseT, FenceT, GivingT, BoundsT, TaskT, HistT
<1>20. ASSUME NEW r \in Replica, PutFails(r) PROVE TInv'
  <2>1. StateOf(sub[r], under[r]) \in CkptType
    BY <1>t, StateOfFacts DEF SubT, UnderT
  <2>21. LogT'
    BY <1>0, <1>t, <1>20 DEF PutFails, Disturb, Goto, LogT
  <2>22. StoreT'
    BY <1>0, <1>t, <1>20, <2>1 DEF PutFails, Disturb, Goto, StoreT
  <2>23. UnderT'
    BY <1>0, <1>t, <1>20 DEF PutFails, Disturb, Goto, UnderT
  <2>24. PcT'
    BY <1>0, <1>t, <1>20 DEF PutFails, Disturb, Goto, PcT
  <2>25. Passes'
    BY <1>0, <1>t, <1>20 DEF PutFails, Disturb, Goto, PcT, Passes
  <2> QED BY <1>t, <1>20, <2>21, <2>22, <2>23, <2>24, <2>25 DEF PutFails, Disturb, Goto,
          TInv, LeaseT, FenceT, GivingT, SubT, BoundsT, TaskT, HistT
<1>21. ASSUME NEW r \in Replica, HandOffClean(r) PROVE TInv'
  <2>1. PcT'
    BY <1>0, <1>t, <1>21 DEF HandOffClean, Goto, PcT
  <2>2. Passes'
    BY <1>0, <1>t, <1>21 DEF HandOffClean, Goto, PcT, Passes
  <2> QED BY <1>t, <1>21, <2>1, <2>2 DEF HandOffClean, Goto, TInv, LogT, StoreT, LeaseT,
          FenceT, UnderT, GivingT, SubT, BoundsT, TaskT, HistT
<1>22. ASSUME NEW r \in Replica, Release(r) PROVE TInv'
  <2>1. LeaseT'
    BY <1>0, <1>t, <1>22 DEF Release, DropShard, Goto, LeaseT
  <2>2. FenceT'
    BY <1>0, <1>t, <1>22 DEF Release, DropShard, Goto, FenceT
  <2>3. PcT'
    BY <1>0, <1>t, <1>22 DEF Release, DropShard, Goto, PcT
  <2>4. GivingT'
    BY <1>0, <1>t, <1>22 DEF Release, DropShard, Goto, GivingT
  <2>5. SubT'
    BY <1>0, <1>t, <1>22, <1>a DEF Release, DropShard, Goto, SubT
  <2>6. TaskT'
    BY <1>0, <1>t, <1>22 DEF Release, DropShard, Goto, TaskT
  <2>7. Passes'
    BY <1>0, <1>t, <1>22 DEF Release, DropShard, Goto, PcT, Passes
  <2> QED BY <1>t, <1>22, <2>1, <2>2, <2>3, <2>4, <2>5, <2>6, <2>7 DEF Release,
          DropShard, Goto, TInv, LogT, StoreT, UnderT, BoundsT, HistT
<1>23. ASSUME NEW r \in Replica, NEW ripe, Schedule(r, ripe) PROVE TInv'
  <2>1. PICK started \in SUBSET Row, handed \in SubType :
             handed.epoch = epoch /\ Hands(r, handed, started)
    BY <1>23, ScheduleFacts, Zenon
  <2> DEFINE st == Refuse(handed, started \cap Blocked)
  <2>2. st \in SubType /\ st.epoch = epoch
    BY <2>1, RefuseFacts
  <2> HIDE DEF st
  <2>3. /\ sub' = [sub EXCEPT ![r] = st]
        /\ tasks' = [tasks EXCEPT ![r] = @ \cup Attempts(st, started \ Blocked, @)]
        /\ settled' = settled \cup {<<st.epoch, s>> : s \in started \cap Blocked}
    BY <2>1 DEF st, Hands
  <2>4. ASSUME NEW t \in Attempts(st, started \ Blocked, tasks[r])
        PROVE  t.seq \in Row /\ t.epoch \in Epoch /\ t.cursor \in 0 .. MaxSeq
    <3>1. started \ Blocked \in SUBSET Row
      OBVIOUS
    <3>2. t.seq \in started \ Blocked /\ t.epoch = st.epoch /\ t.cursor \in 0 .. MaxSeq
      BY <2>2, <3>1, AttemptsFacts
    <3>3. epoch \in Epoch
      BY <1>t DEF LogT
    <3> QED BY <2>2, <3>2, <3>3
  <2>21. PcT'
    BY <1>0, <1>t, <1>23 DEF Schedule, Goto, PcT
  <2>22. SubT'
    BY <1>0, <1>t, <1>23, <2>2, <2>3 DEF Schedule, Goto, SubT
  <2>23. BoundsT'
    BY <1>0, <1>t, <1>23, <1>b DEF Schedule, Goto, BoundsT
  <2>24. TaskT'
    BY <1>t, <2>3, <2>4 DEF TaskT
  <2>25. HistT'
    BY <1>t, <2>2, <2>3, <1>23 DEF Schedule, HistT, LogT
  <2>26. Passes'
    BY <1>0, <1>t, <1>23 DEF Schedule, Goto, PcT, BoundsT, Passes
  <2> QED BY <1>t, <1>23, <2>21, <2>22, <2>23, <2>24, <2>25, <2>26 DEF Schedule, Goto,
          TInv, LogT, StoreT, LeaseT, FenceT, UnderT, GivingT
<1>24. ASSUME NEW r \in Replica, NEW t \in tasks[r], NEW result \in Result, Outcome(r, t, result) PROVE TInv'
  <2>1. t.seq \in Row /\ t.epoch \in Epoch
    BY <1>t DEF TaskT
  <2>2. Reported(sub[r], t.seq, result) \in SubType
    BY <1>t, <2>1, ReportedFacts DEF SubT
  <2>21. SubT'
    BY <1>0, <1>t, <1>24, <2>2 DEF Outcome, SubT
  <2>22. TaskT'
    BY <1>0, <1>t, <1>24 DEF Outcome, TaskT
  <2>3. sub[r].epoch \in Epoch \cup {0}
    BY <1>t DEF SubT, SubType
  <2>23. HistT'
    <3>1. settled' \subseteq settled \cup {<<t.epoch, t.seq>>} /\ ended' = ended
      BY <1>24 DEF Outcome
    <3>2. misread' = misread \/ (Served(r) /\ misread' = misread \cup {<<sub[r].epoch, t.seq>>})
      BY <1>24, Zenon DEF Outcome
    <3>3. misread' \subseteq Epoch \X Row
      BY <1>t, <2>1, <2>3, <3>2 DEF Served, HistT
    <3> QED BY <1>t, <2>1, <3>1, <3>3 DEF HistT
  <2> QED BY <1>t, <1>24, <2>21, <2>22, <2>23 DEF Outcome, TInv, LogT, StoreT, LeaseT,
          FenceT, UnderT, PcT, GivingT, BoundsT, Passes
<1>25. CASE UNCHANGED vars
  BY <1>t, <1>25 DEF vars, TInv, LogT, StoreT, LeaseT, FenceT, UnderT, PcT, GivingT,
      SubT, BoundsT, TaskT, HistT, Passes
<1> QED
  BY <1>1, <1>2, <1>3, <1>4, <1>5, <1>6, <1>7, <1>8, <1>9, <1>10, <1>11, <1>12, <1>13,
      <1>14, <1>15, <1>16, <1>17, <1>18, <1>19, <1>20, <1>21, <1>22, <1>23, <1>24, <1>25
      DEF Next, Tick, Save, Answered

LEMMA InitTyping == Init => TInv
<1> SUFFICES ASSUME Init PROVE TInv
  OBVIOUS
<1>1. NoSub \in SubType /\ NoCkpt \in CkptType
  BY NoSubFacts
<1>2. LogT /\ LeaseT /\ FenceT /\ UnderT /\ PcT /\ GivingT /\ Passes
  BY WebhooksAssumption DEF Init, LogT, LeaseT, FenceT, UnderT, PcT, GivingT, Passes, Epoch
<1>3. StoreT
  BY <1>1, WebhooksAssumption DEF Init, StoreT
<1>4. SubT /\ TaskT /\ HistT
  BY <1>1 DEF Init, SubT, TaskT, HistT
<1>5. BoundsT
  BY WebhooksAssumption DEF Init, BoundsT, BoundsType, NoBounds
<1> QED BY <1>2, <1>3, <1>4, <1>5 DEF TInv

LEMMA Typed == TInv => TypeOK
  BY DEF TInv, TypeOK, LogT, StoreT, LeaseT, FenceT, UnderT, PcT, GivingT, SubT, BoundsT,
         BoundsType, TaskT, HistT

\* Every variable of the dispatcher stays in its range: a row is tried at most
\* MaxAttempts times and a log epoch is one that existed.
THEOREM TypeCorrect == Spec => []TypeOK
<1> QED BY InitTyping, Typing, Typed, PTL DEF Spec

-----------------------------------------------------------------------------
(* The inductive invariant: whatever the dispatcher, the checkpoint, an    *)
(* attempt or an end takes for finished in a log was finished in that log, *)
(* and what is finished stays so.                                          *)

\* The rows of log e that are not owed, or not any more, given the log's epoch and
\* floor, the start of the subscription and what was settled or misread.
Covered(e, ep, fl, st, se) ==
    {s \in Row : s \in Wanted /\ s >= fl /\ e = ep /\ (st.epoch = e => s > st.seq)
                   => <<e, s>> \in se}

Now(e) == Covered(e, epoch, floor, start, settled \cup misread)
Then(e) == Covered(e, epoch', floor', start', settled' \cup misread')

SubNow(st) == st.epoch <= epoch /\ Sound(st, Now(st.epoch))
SubThen(st) == st.epoch <= epoch' /\ Sound(st, Then(st.epoch))
CkptNow(ck) == ck.epoch <= epoch /\ CkptSound(ck, Now(ck.epoch))
CkptThen(ck) == ck.epoch <= epoch' /\ CkptSound(ck, Then(ck.epoch))
PostNow(t) ==
    /\ t.epoch <= epoch
    /\ \A s \in Row : t.seq \notin Gaps /\ s <= t.cursor /\ s # t.seq => s \in Now(t.epoch)
PostThen(t) ==
    /\ t.epoch <= epoch'
    /\ \A s \in Row : t.seq \notin Gaps /\ s <= t.cursor /\ s # t.seq => s \in Then(t.epoch)
EndNow(e) == e <= epoch /\ \A s \in Row : s < EndSeq => s \in Now(e)
EndThen(e) == e <= epoch' /\ \A s \in Row : s < EndSeq => s \in Then(e)

Epochs == start.epoch <= epoch /\ (rec = "none" => start.epoch = 0)
Subs == \A r \in Replica : SubNow(sub[r])
Saved == CkptNow(ckpt)
Posts == \A r \in Replica : \A t \in tasks[r] : PostNow(t)
Ends == EndNow(ended)

IInv == TInv /\ Epochs /\ Subs /\ Saved /\ Posts /\ Ends

\* Nothing finished is owed again.
Onward ==
    /\ epoch' \in Nat /\ epoch <= epoch'
    /\ \A e \in Epoch \cup {0} : e <= epoch => Now(e) \subseteq Then(e)

LEMMA EpochNat == Epoch \subseteq Nat
  BY WebhooksAssumption DEF Epoch

LEMMA Primes ==
    /\ (\A r \in Replica : SubThen(sub'[r])) => Subs'
    /\ CkptThen(ckpt') => Saved'
    /\ (\A r \in Replica : \A t \in tasks'[r] : PostThen(t)) => Posts'
    /\ EndThen(ended') => Ends'
<1>1. (\A r \in Replica : SubThen(sub'[r])) => Subs'
  BY DEF Subs, SubThen, SubNow, Now, Then
<1>2. CkptThen(ckpt') => Saved'
  BY DEF Saved, CkptThen, CkptNow, Now, Then
<1>3. (\A r \in Replica : \A t \in tasks'[r] : PostThen(t)) => Posts'
  BY DEF Posts, PostThen, PostNow, Now, Then
<1>4. EndThen(ended') => Ends'
  BY DEF Ends, EndThen, EndNow, Now, Then
<1> QED BY <1>1, <1>2, <1>3, <1>4

\* Nothing is owed of a log that is not there any more.
LEMMA GoneCovered ==
    ASSUME NEW e, NEW ep, NEW fl, NEW st, NEW se, e # ep
    PROVE  Covered(e, ep, fl, st, se) = Row
  BY DEF Covered

LEMMA KeptOnward ==
    ASSUME TInv, UNCHANGED <<epoch, start>>, floor' \in Nat, floor <= floor',
           settled \cup misread \subseteq settled' \cup misread'
    PROVE  Onward
<1>1. epoch \in Nat /\ floor \in Nat
  BY WebhooksAssumption DEF TInv, LogT, Epoch
<1>2. ASSUME NEW e \in Epoch \cup {0} PROVE Now(e) \subseteq Then(e)
  <2> SUFFICES ASSUME NEW s \in Row, s \in Now(e), s \in Wanted, s >= floor', e = epoch,
                      start.epoch = e => s > start.seq
               PROVE  <<e, s>> \in settled' \cup misread'
    BY DEF Now, Then, Covered
  <2>1. s \in Nat
    BY WebhooksAssumption DEF Row
  <2>2. s >= floor
    BY <1>1, <2>1
  <2>3. <<e, s>> \in settled \cup misread
    BY <2>2 DEF Now, Covered
  <2> QED BY <2>3
<1> QED BY <1>1, <1>2 DEF Onward

LEMMA Steps == TInv /\ Epochs /\ [Next]_vars => Onward
<1> SUFFICES ASSUME TInv, Epochs, [Next]_vars PROVE Onward
  OBVIOUS
<1> USE DEF theLog, store, leases, local, history
<1>0. floor \in Nat /\ epoch \in Nat /\ epoch # 0
  BY WebhooksAssumption DEF TInv, LogT, Epoch
<1>1. CASE Recreate
  <2>1. epoch' = epoch + 1
    BY <1>1 DEF Recreate
  <2>2. ASSUME NEW e \in Epoch \cup {0}, e <= epoch PROVE Now(e) \subseteq Then(e)
    <3>1. e # epoch'
      BY <1>0, <2>1, <2>2, WebhooksAssumption DEF Epoch
    <3>2. Then(e) = Row
      BY <3>1, GoneCovered DEF Then
    <3> QED BY <3>2 DEF Now, Covered
  <2> QED BY <1>0, <2>1, <2>2 DEF Onward
<1>2. CASE Subscribe
  <2>1. UNCHANGED <<epoch, floor, settled, misread>> /\ start.epoch = 0
    BY <1>2 DEF Subscribe, Epochs
  <2>2. ASSUME NEW e \in Epoch \cup {0} PROVE Now(e) \subseteq Then(e)
    <3> SUFFICES ASSUME NEW s \in Row, s \in Now(e), s \in Wanted, s >= floor, e = epoch
                 PROVE  <<e, s>> \in settled \cup misread
      BY <2>1 DEF Now, Then, Covered
    <3> QED BY <1>0, <2>1 DEF Now, Covered
  <2> QED BY <1>0, <2>1, <2>2 DEF Onward
<1>3. CASE Retain
  <2>1. UNCHANGED <<epoch, start, settled, misread>> /\ floor' = floor + 1
    BY <1>3 DEF Retain
  <2> QED BY <1>0, <2>1, KeptOnward
<1>4. CASE Append
  <2>1. UNCHANGED <<epoch, start, floor, settled, misread>>
    BY <1>4 DEF Append
  <2> QED BY <1>0, <2>1, KeptOnward
<1>5. CASE Unsubscribe
  <2>1. UNCHANGED <<epoch, start, floor, settled, misread>>
    BY <1>5 DEF Unsubscribe, Delete
  <2> QED BY <1>0, <2>1, KeptOnward
<1>6. CASE Expire
  <2>1. UNCHANGED <<epoch, start, floor, settled, misread>>
    BY <1>6 DEF Expire
  <2> QED BY <1>0, <2>1, KeptOnward
<1>7. ASSUME NEW r \in Replica, Acquire(r) PROVE Onward
  <2>1. UNCHANGED <<epoch, start, floor, settled, misread>>
    BY <1>7 DEF Acquire
  <2> QED BY <1>0, <2>1, KeptOnward
<1>8. ASSUME NEW r \in Replica, Lapse(r) PROVE Onward
  <2>1. UNCHANGED <<epoch, start, floor, settled, misread>>
    BY <1>8 DEF Lapse
  <2> QED BY <1>0, <2>1, KeptOnward
<1>9. ASSUME NEW r \in Replica, Crash(r) PROVE Onward
  <2>1. UNCHANGED <<epoch, start, floor, settled, misread>>
    BY <1>9 DEF Crash
  <2> QED BY <1>0, <2>1, KeptOnward
<1>10. ASSUME NEW r \in Replica, HandOff(r) PROVE Onward
  <2>1. UNCHANGED <<epoch, start, floor, settled, misread>>
    BY <1>10 DEF HandOff
  <2> QED BY <1>0, <2>1, KeptOnward
<1>11. ASSUME NEW r \in Replica, StepDown(r) PROVE Onward
  <2>1. UNCHANGED <<epoch, start, floor, settled, misread>>
    BY <1>11 DEF StepDown
  <2> QED BY <1>0, <2>1, KeptOnward
<1>12. ASSUME NEW r \in Replica, Pass(r) PROVE Onward
  <2>1. UNCHANGED <<epoch, start, floor, settled, misread>>
    BY <1>12 DEF Pass
  <2> QED BY <1>0, <2>1, KeptOnward
<1>13. ASSUME NEW r \in Replica, Late(r) PROVE Onward
  <2>1. UNCHANGED <<epoch, start, floor, settled, misread>>
    BY <1>13 DEF Late
  <2> QED BY <1>0, <2>1, KeptOnward
<1>14. ASSUME NEW r \in Replica, Terminate(r) PROVE Onward
  <2>1. UNCHANGED <<epoch, start, floor, settled, misread>>
    BY <1>14 DEF Terminate, Delete
  <2> QED BY <1>0, <2>1, KeptOnward
<1>15. ASSUME NEW r \in Replica, Forget(r) PROVE Onward
  <2>1. UNCHANGED <<epoch, start, floor, settled, misread>>
    BY <1>15 DEF Forget
  <2> QED BY <1>0, <2>1, KeptOnward
<1>16. ASSUME NEW r \in Replica, Lapsed(r) PROVE Onward
  <2>1. UNCHANGED <<epoch, start, floor, settled, misread>>
    BY <1>16 DEF Lapsed
  <2> QED BY <1>0, <2>1, KeptOnward
<1>17. ASSUME NEW r \in Replica, Deposed(r) PROVE Onward
  <2>1. UNCHANGED <<epoch, start, floor, settled, misread>>
    BY <1>17 DEF Deposed
  <2> QED BY <1>0, <2>1, KeptOnward
<1>18. ASSUME NEW r \in Replica, GetDelivery(r) PROVE Onward
  <2>1. UNCHANGED <<epoch, start, floor, settled, misread>>
    BY <1>18 DEF GetDelivery
  <2> QED BY <1>0, <2>1, KeptOnward
<1>19. ASSUME NEW r \in Replica, PutDelivery(r) PROVE Onward
  <2>1. UNCHANGED <<epoch, start, floor, settled, misread>>
    BY <1>19 DEF PutDelivery
  <2> QED BY <1>0, <2>1, KeptOnward
<1>20. ASSUME NEW r \in Replica, PutFails(r) PROVE Onward
  <2>1. UNCHANGED <<epoch, start, floor, settled, misread>>
    BY <1>20 DEF PutFails
  <2> QED BY <1>0, <2>1, KeptOnward
<1>21. ASSUME NEW r \in Replica, HandOffClean(r) PROVE Onward
  <2>1. UNCHANGED <<epoch, start, floor, settled, misread>>
    BY <1>21 DEF HandOffClean
  <2> QED BY <1>0, <2>1, KeptOnward
<1>22. ASSUME NEW r \in Replica, Release(r) PROVE Onward
  <2>1. UNCHANGED <<epoch, start, floor, settled, misread>>
    BY <1>22 DEF Release
  <2> QED BY <1>0, <2>1, KeptOnward
<1>23. ASSUME NEW r \in Replica, NEW ripe, Schedule(r, ripe) PROVE Onward
  <2>1. PICK started \in SUBSET Row, handed \in SubType : Hands(r, handed, started)
    BY <1>23, ScheduleFacts, Zenon
  <2>2. settled \subseteq settled'
    BY <2>1 DEF Hands
  <2>3. UNCHANGED <<epoch, start, floor, misread>>
    BY <1>23 DEF Schedule
  <2> QED BY <1>0, <2>2, <2>3, KeptOnward
<1>24. ASSUME NEW r \in Replica, NEW t \in tasks[r], NEW result \in Result, Outcome(r, t, result)
      PROVE  Onward
  <2>1. /\ UNCHANGED <<epoch, start, floor>>
        /\ settled \subseteq settled' /\ misread \subseteq misread'
    BY <1>24 DEF Outcome
  <2> QED BY <1>0, <2>1, KeptOnward
<1>25. CASE UNCHANGED vars
  <2>1. UNCHANGED <<epoch, start, floor, settled, misread>>
    BY <1>25 DEF vars
  <2> QED BY <1>0, <2>1, KeptOnward
<1> QED
  BY <1>1, <1>2, <1>3, <1>4, <1>5, <1>6, <1>7, <1>8, <1>9, <1>10, <1>11, <1>12, <1>13,
      <1>14, <1>15, <1>16, <1>17, <1>18, <1>19, <1>20, <1>21, <1>22, <1>23, <1>24, <1>25
      DEF Next, Tick, Save, Answered

\* What was finished before a step is finished after it.
LEMMA SubCarried ==
    ASSUME TInv, Onward, NEW st \in SubType, SubNow(st)
    PROVE  SubThen(st)
<1>0. st.epoch \in Epoch \cup {0}
  BY DEF SubType
<1>1. st.epoch <= epoch /\ st.epoch <= epoch'
  <2>1. epoch \in Nat /\ epoch' \in Nat /\ epoch <= epoch'
    BY EpochNat DEF Onward, TInv, LogT
  <2>2. st.epoch \in Nat
    BY <1>0, WebhooksAssumption DEF Epoch
  <2>3. st.epoch <= epoch
    BY Zenon DEF SubNow
  <2> QED BY <2>1, <2>2, <2>3
<1>2. Now(st.epoch) \subseteq Then(st.epoch)
  BY <1>0, <1>1 DEF Onward
<1>3. Sound(st, Then(st.epoch))
  BY <1>2, SoundGrows DEF SubNow
<1> QED BY <1>1, <1>3 DEF SubThen

LEMMA CkptCarried ==
    ASSUME TInv, Onward, NEW ck \in CkptType, CkptNow(ck)
    PROVE  CkptThen(ck)
<1>0. ck.epoch \in Epoch \cup {0}
  BY DEF CkptType
<1>1. ck.epoch <= epoch /\ ck.epoch <= epoch'
  <2>1. epoch \in Nat /\ epoch' \in Nat /\ epoch <= epoch'
    BY EpochNat DEF Onward, TInv, LogT
  <2>2. ck.epoch \in Nat
    BY <1>0, WebhooksAssumption DEF Epoch
  <2>3. ck.epoch <= epoch
    BY Zenon DEF CkptNow
  <2> QED BY <2>1, <2>2, <2>3
<1>2. Now(ck.epoch) \subseteq Then(ck.epoch)
  BY <1>0, <1>1 DEF Onward
<1>3. CkptSound(ck, Then(ck.epoch))
  BY <1>2 DEF CkptNow, CkptSound
<1> QED BY <1>1, <1>3 DEF CkptThen

LEMMA PostCarried ==
    ASSUME TInv, Onward, NEW t, t.epoch \in Epoch, PostNow(t)
    PROVE  PostThen(t)
<1>1. t.epoch <= epoch /\ t.epoch <= epoch'
  <2>1. t.epoch \in Nat /\ epoch \in Nat /\ epoch' \in Nat /\ epoch <= epoch'
    BY EpochNat DEF Onward, TInv, LogT
  <2>2. t.epoch <= epoch
    BY Zenon DEF PostNow
  <2> QED BY <2>1, <2>2
<1>2. Now(t.epoch) \subseteq Then(t.epoch)
  BY <1>1 DEF Onward
<1> QED BY <1>1, <1>2 DEF PostNow, PostThen

LEMMA EndCarried ==
    ASSUME TInv, Onward, NEW e \in Epoch \cup {0}, EndNow(e)
    PROVE  EndThen(e)
<1>1. e <= epoch /\ e <= epoch'
  BY EpochNat DEF EndNow, Onward, TInv, LogT
<1>2. Now(e) \subseteq Then(e)
  BY <1>1 DEF Onward
<1> QED BY <1>1, <1>2 DEF EndNow, EndThen

\* Nothing is served, nothing is stored.
LEMMA NothingCarried ==
    ASSUME TInv, Onward
    PROVE  SubThen(NoSub) /\ CkptThen(NoCkpt)
<1>1. NoSub \in SubType /\ SubNow(NoSub) /\ NoCkpt \in CkptType /\ CkptNow(NoCkpt)
  <2>1. 0 <= epoch
    BY WebhooksAssumption DEF TInv, LogT, Epoch
  <2>2. Sound(NoSub, Now(0)) /\ CkptSound(NoCkpt, Now(0))
    BY NoSubFacts, SoundGrows DEF CkptSound
  <2> QED BY <2>1, <2>2, NoSubFacts DEF SubNow, CkptNow
<1> QED BY <1>1, SubCarried, CkptCarried

\* The steps that only forget.
LEMMA SubsKept ==
    ASSUME IInv, Onward, \A r \in Replica : sub'[r] = sub[r] \/ sub'[r] = NoSub
    PROVE  Subs'
<1>1. ASSUME NEW r \in Replica PROVE SubThen(sub'[r])
  <2>1. sub[r] \in SubType /\ SubNow(sub[r])
    BY DEF IInv, TInv, SubT, Subs
  <2>2. SubThen(sub[r]) /\ SubThen(NoSub)
    BY <2>1, SubCarried, NothingCarried DEF IInv
  <2> QED BY <2>2
<1> QED BY <1>1, Primes

LEMMA SavedKept ==
    ASSUME IInv, Onward, ckpt' = ckpt \/ ckpt' = NoCkpt
    PROVE  Saved'
<1>1. CkptThen(ckpt) /\ CkptThen(NoCkpt)
  BY CkptCarried, NothingCarried DEF IInv, TInv, StoreT, Saved
<1> QED BY <1>1, Primes

LEMMA PostsKept ==
    ASSUME IInv, Onward, \A r \in Replica : tasks'[r] \subseteq tasks[r]
    PROVE  Posts'
<1>1. ASSUME NEW r \in Replica, NEW t \in tasks'[r] PROVE PostThen(t)
  <2>1. t.epoch \in Epoch /\ PostNow(t)
    BY DEF IInv, TInv, TaskT, Posts
  <2> QED BY <2>1, PostCarried DEF IInv
<1> QED BY <1>1, Primes

LEMMA EndsKept ==
    ASSUME IInv, Onward, ended' = ended
    PROVE  Ends'
<1>1. EndThen(ended)
  BY EndCarried DEF IInv, TInv, HistT, Ends
<1> QED BY <1>1, Primes

LEMMA Inductive == IInv /\ [Next]_vars => IInv'
<1> SUFFICES ASSUME IInv, [Next]_vars PROVE IInv'
  OBVIOUS
<1> USE DEF theLog, store, leases, local, history
<1>0. TInv' /\ Onward
  BY Typing, Steps DEF IInv
<1>t. TInv /\ Epochs /\ Subs /\ Saved /\ Posts /\ Ends /\ DOMAIN tasks = Replica /\ DOMAIN sub = Replica
  BY DEF IInv, TInv, TaskT, SubT
<1>1. CASE Append
  <2>k. /\ \A x \in Replica : sub'[x] = sub[x] \/ sub'[x] = NoSub
        /\ ckpt' = ckpt \/ ckpt' = NoCkpt
        /\ \A x \in Replica : tasks'[x] \subseteq tasks[x]
        /\ ended' = ended
    BY <1>t, <1>1 DEF Append
  <2>e. Epochs'
    BY <1>t, <1>1 DEF Append, Epochs
  <2> QED BY <1>0, <2>k, <2>e, SubsKept, SavedKept, PostsKept, EndsKept DEF IInv
<1>2. CASE Retain
  <2>k. /\ \A x \in Replica : sub'[x] = sub[x] \/ sub'[x] = NoSub
        /\ ckpt' = ckpt \/ ckpt' = NoCkpt
        /\ \A x \in Replica : tasks'[x] \subseteq tasks[x]
        /\ ended' = ended
    BY <1>t, <1>2 DEF Retain
  <2>e. Epochs'
    BY <1>t, <1>2 DEF Retain, Epochs
  <2> QED BY <1>0, <2>k, <2>e, SubsKept, SavedKept, PostsKept, EndsKept DEF IInv
<1>3. CASE Recreate
  <2>k. /\ \A x \in Replica : sub'[x] = sub[x] \/ sub'[x] = NoSub
        /\ ckpt' = ckpt \/ ckpt' = NoCkpt
        /\ \A x \in Replica : tasks'[x] \subseteq tasks[x]
        /\ ended' = ended
    BY <1>t, <1>3 DEF Recreate
  <2>e. Epochs'
    BY <1>t, <1>3, WebhooksAssumption DEF Recreate, Epochs, TInv, LogT, StoreT, Epoch
  <2> QED BY <1>0, <2>k, <2>e, SubsKept, SavedKept, PostsKept, EndsKept DEF IInv
<1>4. CASE Subscribe
  <2>k. /\ \A x \in Replica : sub'[x] = sub[x] \/ sub'[x] = NoSub
        /\ ckpt' = ckpt \/ ckpt' = NoCkpt
        /\ \A x \in Replica : tasks'[x] \subseteq tasks[x]
        /\ ended' = ended
    BY <1>t, <1>4 DEF Subscribe
  <2>e. Epochs'
    BY <1>t, <1>4, WebhooksAssumption DEF Subscribe, Epochs, TInv, LogT, Epoch
  <2> QED BY <1>0, <2>k, <2>e, SubsKept, SavedKept, PostsKept, EndsKept DEF IInv
<1>5. CASE Unsubscribe
  <2>k. /\ \A x \in Replica : sub'[x] = sub[x] \/ sub'[x] = NoSub
        /\ ckpt' = ckpt \/ ckpt' = NoCkpt
        /\ \A x \in Replica : tasks'[x] \subseteq tasks[x]
        /\ ended' = ended
    BY <1>t, <1>5 DEF Unsubscribe, Delete
  <2>e. Epochs'
    BY <1>t, <1>5 DEF Unsubscribe, Delete, Epochs
  <2> QED BY <1>0, <2>k, <2>e, SubsKept, SavedKept, PostsKept, EndsKept DEF IInv
<1>6. CASE Expire
  <2>k. /\ \A x \in Replica : sub'[x] = sub[x] \/ sub'[x] = NoSub
        /\ ckpt' = ckpt \/ ckpt' = NoCkpt
        /\ \A x \in Replica : tasks'[x] \subseteq tasks[x]
        /\ ended' = ended
    BY <1>t, <1>6 DEF Expire
  <2>e. Epochs'
    BY <1>t, <1>6 DEF Expire, Epochs
  <2> QED BY <1>0, <2>k, <2>e, SubsKept, SavedKept, PostsKept, EndsKept DEF IInv
<1>7. ASSUME NEW r \in Replica, Acquire(r) PROVE IInv'
  <2>k. /\ \A x \in Replica : sub'[x] = sub[x] \/ sub'[x] = NoSub
        /\ ckpt' = ckpt \/ ckpt' = NoCkpt
        /\ \A x \in Replica : tasks'[x] \subseteq tasks[x]
        /\ ended' = ended
    BY <1>t, <1>7 DEF Acquire
  <2>e. Epochs'
    BY <1>t, <1>7 DEF Acquire, Epochs
  <2> QED BY <1>0, <2>k, <2>e, SubsKept, SavedKept, PostsKept, EndsKept DEF IInv
<1>8. ASSUME NEW r \in Replica, Lapse(r) PROVE IInv'
  <2>k. /\ \A x \in Replica : sub'[x] = sub[x] \/ sub'[x] = NoSub
        /\ ckpt' = ckpt \/ ckpt' = NoCkpt
        /\ \A x \in Replica : tasks'[x] \subseteq tasks[x]
        /\ ended' = ended
    BY <1>t, <1>8 DEF Lapse
  <2>e. Epochs'
    BY <1>t, <1>8 DEF Lapse, Epochs
  <2> QED BY <1>0, <2>k, <2>e, SubsKept, SavedKept, PostsKept, EndsKept DEF IInv
<1>9. ASSUME NEW r \in Replica, Crash(r) PROVE IInv'
  <2>k. /\ \A x \in Replica : sub'[x] = sub[x] \/ sub'[x] = NoSub
        /\ ckpt' = ckpt \/ ckpt' = NoCkpt
        /\ \A x \in Replica : tasks'[x] \subseteq tasks[x]
        /\ ended' = ended
    BY <1>t, <1>9 DEF Crash
  <2>e. Epochs'
    BY <1>t, <1>9 DEF Crash, Epochs
  <2> QED BY <1>0, <2>k, <2>e, SubsKept, SavedKept, PostsKept, EndsKept DEF IInv
<1>10. ASSUME NEW r \in Replica, HandOff(r) PROVE IInv'
  <2>k. /\ \A x \in Replica : sub'[x] = sub[x] \/ sub'[x] = NoSub
        /\ ckpt' = ckpt \/ ckpt' = NoCkpt
        /\ \A x \in Replica : tasks'[x] \subseteq tasks[x]
        /\ ended' = ended
    BY <1>t, <1>10 DEF HandOff
  <2>e. Epochs'
    BY <1>t, <1>10 DEF HandOff, Epochs
  <2> QED BY <1>0, <2>k, <2>e, SubsKept, SavedKept, PostsKept, EndsKept DEF IInv
<1>11. ASSUME NEW r \in Replica, StepDown(r) PROVE IInv'
  <2>k. /\ \A x \in Replica : sub'[x] = sub[x] \/ sub'[x] = NoSub
        /\ ckpt' = ckpt \/ ckpt' = NoCkpt
        /\ \A x \in Replica : tasks'[x] \subseteq tasks[x]
        /\ ended' = ended
    BY <1>t, <1>11 DEF StepDown, DropShard
  <2>e. Epochs'
    BY <1>t, <1>11 DEF StepDown, DropShard, Epochs
  <2> QED BY <1>0, <2>k, <2>e, SubsKept, SavedKept, PostsKept, EndsKept DEF IInv
<1>12. ASSUME NEW r \in Replica, Pass(r) PROVE IInv'
  <2>k. /\ ckpt' = ckpt \/ ckpt' = NoCkpt
        /\ \A x \in Replica : tasks'[x] \subseteq tasks[x]
        /\ ended' = ended
    BY <1>t, <1>12 DEF Pass
  <2>q. Saved' /\ Posts' /\ Ends'
    BY <1>0, <2>k, SavedKept, PostsKept, EndsKept
  <2>e. Epochs'
    BY <1>t, <1>12 DEF Pass, Epochs
  <2>31. Subs'
    <3>0. ckpt \in CkptType /\ start.epoch \in Epoch \cup {0} /\ start.seq \in 0 .. MaxSeq
           /\ sub[r] \in SubType /\ start.epoch <= epoch
      BY <1>t DEF TInv, StoreT, SubT, Epochs
    <3>1. SubNow(sub[r])
      BY <1>t DEF Subs
    <3>2. Resumed(ckpt) \in SubType /\ SubNow(Resumed(ckpt))
      BY <1>t, <3>0, ResumedSound DEF Saved, CkptNow, SubNow
    <3> DEFINE st == [NoSub EXCEPT !.epoch = start.epoch, !.ack = start.seq, !.dispatched = start.seq]
    <3>3. \A s \in Row : s <= start.seq => s \in Now(start.epoch)
      BY <3>0, WebhooksAssumption DEF Now, Covered, Row
    <3>4. /\ st \in SubType /\ st.epoch = start.epoch
          /\ \A C : (\A s \in Row : s <= start.seq => s \in C) => Sound(st, C)
      BY <3>0, StartFacts
    <3> HIDE DEF st
    <3>5. SubNow(st)
      <4>1. Sound(st, Now(start.epoch))
        BY <3>3, <3>4
      <4> QED BY <3>0, <3>4, <4>1 DEF SubNow
    <3>6. Found(r) \in SubType /\ SubNow(Found(r))
      BY <3>0, <3>1, <3>2, <3>4, <3>5, Zenon DEF Found, st
    <3>7. SubThen(Found(r))
      BY <1>0, <1>t, <3>6, SubCarried
    <3>8. \A x \in Replica : sub'[x] = IF x = r THEN Found(r) ELSE sub[x]
      BY <1>t, <1>12 DEF Pass
    <3>9. ASSUME NEW x \in Replica PROVE SubThen(sub[x])
      <4>1. sub[x] \in SubType /\ SubNow(sub[x])
        BY <1>t DEF TInv, SubT, Subs
      <4> QED BY <1>0, <1>t, <4>1, SubCarried
    <3>10. \A x \in Replica : SubThen(sub'[x])
      BY <3>7, <3>8, <3>9
    <3> QED BY <3>10, Primes
  <2> QED BY <1>0, <2>q, <2>e, <2>31 DEF IInv
<1>13. ASSUME NEW r \in Replica, Late(r) PROVE IInv'
  <2>k. /\ \A x \in Replica : sub'[x] = sub[x] \/ sub'[x] = NoSub
        /\ ckpt' = ckpt \/ ckpt' = NoCkpt
        /\ \A x \in Replica : tasks'[x] \subseteq tasks[x]
        /\ ended' = ended
    BY <1>t, <1>13 DEF Late
  <2>e. Epochs'
    BY <1>t, <1>13 DEF Late, Epochs
  <2> QED BY <1>0, <2>k, <2>e, SubsKept, SavedKept, PostsKept, EndsKept DEF IInv
<1>14. ASSUME NEW r \in Replica, Terminate(r) PROVE IInv'
  <2>k. /\ \A x \in Replica : sub'[x] = sub[x] \/ sub'[x] = NoSub
        /\ ckpt' = ckpt \/ ckpt' = NoCkpt
        /\ \A x \in Replica : tasks'[x] \subseteq tasks[x]
    BY <1>t, <1>14 DEF Terminate, Delete
  <2>q. Subs' /\ Saved' /\ Posts'
    BY <1>0, <2>k, SubsKept, SavedKept, PostsKept
  <2>e. Epochs'
    BY <1>t, <1>14 DEF Terminate, Delete, Epochs
  <2>31. Ends'
    <3>1. sub[r] \in SubType /\ SubNow(sub[r]) /\ AtEnd(sub[r]) /\ ended' = sub[r].epoch
      BY <1>t, <1>14 DEF TInv, SubT, Subs, Terminate
    <3>2. SubThen(sub[r])
      BY <1>0, <1>t, <3>1, SubCarried
    <3>3. \A s \in Row : s < EndSeq => s <= sub[r].ack
      BY <3>1, WebhooksAssumption DEF AtEnd, SubType, Row
    <3>4. EndThen(sub[r].epoch)
      BY <3>2, <3>3 DEF SubThen, EndThen, Sound
    <3> QED BY <3>1, <3>4, Primes
  <2> QED BY <1>0, <2>q, <2>e, <2>31 DEF IInv
<1>15. ASSUME NEW r \in Replica, Forget(r) PROVE IInv'
  <2>k. /\ \A x \in Replica : sub'[x] = sub[x] \/ sub'[x] = NoSub
        /\ ckpt' = ckpt \/ ckpt' = NoCkpt
        /\ \A x \in Replica : tasks'[x] \subseteq tasks[x]
        /\ ended' = ended
    BY <1>t, <1>15 DEF Forget
  <2>e. Epochs'
    BY <1>t, <1>15 DEF Forget, Epochs
  <2> QED BY <1>0, <2>k, <2>e, SubsKept, SavedKept, PostsKept, EndsKept DEF IInv
<1>16. ASSUME NEW r \in Replica, Lapsed(r) PROVE IInv'
  <2>k. /\ \A x \in Replica : sub'[x] = sub[x] \/ sub'[x] = NoSub
        /\ ckpt' = ckpt \/ ckpt' = NoCkpt
        /\ \A x \in Replica : tasks'[x] \subseteq tasks[x]
        /\ ended' = ended
    BY <1>t, <1>16 DEF Lapsed, DropShard
  <2>e. Epochs'
    BY <1>t, <1>16 DEF Lapsed, DropShard, Epochs
  <2> QED BY <1>0, <2>k, <2>e, SubsKept, SavedKept, PostsKept, EndsKept DEF IInv
<1>17. ASSUME NEW r \in Replica, Deposed(r) PROVE IInv'
  <2>k. /\ \A x \in Replica : sub'[x] = sub[x] \/ sub'[x] = NoSub
        /\ ckpt' = ckpt \/ ckpt' = NoCkpt
        /\ \A x \in Replica : tasks'[x] \subseteq tasks[x]
        /\ ended' = ended
    BY <1>t, <1>17 DEF Deposed, DropShard
  <2>e. Epochs'
    BY <1>t, <1>17 DEF Deposed, DropShard, Epochs
  <2> QED BY <1>0, <2>k, <2>e, SubsKept, SavedKept, PostsKept, EndsKept DEF IInv
<1>18. ASSUME NEW r \in Replica, GetDelivery(r) PROVE IInv'
  <2>k. /\ \A x \in Replica : sub'[x] = sub[x] \/ sub'[x] = NoSub
        /\ ckpt' = ckpt \/ ckpt' = NoCkpt
        /\ \A x \in Replica : tasks'[x] \subseteq tasks[x]
        /\ ended' = ended
    BY <1>t, <1>18 DEF GetDelivery
  <2>e. Epochs'
    BY <1>t, <1>18 DEF GetDelivery, Epochs
  <2> QED BY <1>0, <2>k, <2>e, SubsKept, SavedKept, PostsKept, EndsKept DEF IInv
<1>19. ASSUME NEW r \in Replica, PutDelivery(r) PROVE IInv'
  <2>k. /\ \A x \in Replica : tasks'[x] \subseteq tasks[x]
        /\ ended' = ended
    BY <1>t, <1>19 DEF PutDelivery
  <2>q. Posts' /\ Ends'
    BY <1>0, <2>k, PostsKept, EndsKept
  <2>e. Epochs'
    BY <1>t, <1>19 DEF PutDelivery, Epochs
  <2>31. Subs'
    <3>1. \A x \in Replica : sub'[x] = IF x = r THEN [sub[r] EXCEPT !.dirty = FALSE] ELSE sub[x]
      BY <1>t, <1>19 DEF PutDelivery
    <3>2. ASSUME NEW x \in Replica PROVE SubThen(sub[x])
      <4>1. sub[x] \in SubType /\ SubNow(sub[x])
        BY <1>t DEF TInv, SubT, Subs
      <4> QED BY <1>0, <1>t, <4>1, SubCarried
    <3>3. SubThen([sub[r] EXCEPT !.dirty = FALSE])
      <4>1. SubThen(sub[r]) /\ sub[r] \in SubType
        BY <1>t, <3>2 DEF TInv, SubT
      <4> DEFINE st == [sub[r] EXCEPT !.dirty = FALSE]
      <4>2. /\ st.epoch = sub[r].epoch /\ st.ack = sub[r].ack /\ st.done = sub[r].done
            /\ st.dispatched = sub[r].dispatched /\ st.inflight = sub[r].inflight
        BY <4>1 DEF SubType
      <4> HIDE DEF st
      <4>3. SubThen(st)
        BY <4>1, <4>2 DEF SubThen, Sound
      <4> QED BY <4>3 DEF st
    <3>4. \A x \in Replica : SubThen(sub'[x])
      BY <3>1, <3>2, <3>3
    <3> QED BY <3>4, Primes
  <2>32. Saved'
    <3>1. sub[r] \in SubType /\ SubNow(sub[r]) /\ under[r] \in 0 .. MaxFence
      BY <1>t DEF TInv, SubT, Subs, UnderT
    <3>2. SubThen(sub[r])
      BY <1>0, <1>t, <3>1, SubCarried
    <3>3. CkptThen(StateOf(sub[r], under[r]))
      BY <3>1, <3>2, StateOfFacts DEF CkptThen, SubThen
    <3>4. ckpt' = StateOf(sub[r], under[r])
      BY <1>19 DEF PutDelivery
    <3> QED BY <3>3, <3>4, Primes
  <2> QED BY <1>0, <2>q, <2>e, <2>31, <2>32 DEF IInv
<1>20. ASSUME NEW r \in Replica, PutFails(r) PROVE IInv'
  <2>k. /\ \A x \in Replica : sub'[x] = sub[x] \/ sub'[x] = NoSub
        /\ \A x \in Replica : tasks'[x] \subseteq tasks[x]
        /\ ended' = ended
    BY <1>t, <1>20 DEF PutFails
  <2>q. Subs' /\ Posts' /\ Ends'
    BY <1>0, <2>k, SubsKept, PostsKept, EndsKept
  <2>e. Epochs'
    BY <1>t, <1>20 DEF PutFails, Epochs
  <2>31. Saved'
    <3>1. sub[r] \in SubType /\ SubNow(sub[r]) /\ under[r] \in 0 .. MaxFence
      BY <1>t DEF TInv, SubT, Subs, UnderT
    <3>2. SubThen(sub[r])
      BY <1>0, <1>t, <3>1, SubCarried
    <3>3. CkptThen(StateOf(sub[r], under[r]))
      BY <3>1, <3>2, StateOfFacts DEF CkptThen, SubThen
    <3>4. ckpt' = ckpt \/ ckpt' = StateOf(sub[r], under[r])
      BY <1>20 DEF PutFails
    <3>5. CkptThen(ckpt)
      BY <1>0, <1>t, CkptCarried DEF TInv, StoreT, Saved
    <3> QED BY <3>3, <3>4, <3>5, Primes
  <2> QED BY <1>0, <2>q, <2>e, <2>31 DEF IInv
<1>21. ASSUME NEW r \in Replica, HandOffClean(r) PROVE IInv'
  <2>k. /\ \A x \in Replica : sub'[x] = sub[x] \/ sub'[x] = NoSub
        /\ ckpt' = ckpt \/ ckpt' = NoCkpt
        /\ \A x \in Replica : tasks'[x] \subseteq tasks[x]
        /\ ended' = ended
    BY <1>t, <1>21 DEF HandOffClean
  <2>e. Epochs'
    BY <1>t, <1>21 DEF HandOffClean, Epochs
  <2> QED BY <1>0, <2>k, <2>e, SubsKept, SavedKept, PostsKept, EndsKept DEF IInv
<1>22. ASSUME NEW r \in Replica, Release(r) PROVE IInv'
  <2>k. /\ \A x \in Replica : sub'[x] = sub[x] \/ sub'[x] = NoSub
        /\ ckpt' = ckpt \/ ckpt' = NoCkpt
        /\ \A x \in Replica : tasks'[x] \subseteq tasks[x]
        /\ ended' = ended
    BY <1>t, <1>22 DEF Release, DropShard
  <2>e. Epochs'
    BY <1>t, <1>22 DEF Release, DropShard, Epochs
  <2> QED BY <1>0, <2>k, <2>e, SubsKept, SavedKept, PostsKept, EndsKept DEF IInv
<1>23. ASSUME NEW r \in Replica, NEW ripe, Schedule(r, ripe) PROVE IInv'
  <2>1. PICK started \in SUBSET Row, handed \in SubType :
             /\ handed.epoch = epoch
             /\ Hands(r, handed, started)
             /\ \A C : /\ sub[r].epoch = epoch => Sound(sub[r], C)
                       /\ \A s \in Row : s < floor \/ s \notin Wanted => s \in C
                       => Sound(handed, C)
    BY <1>t, <1>23, ScheduleFacts, Zenon
  <2> DEFINE st == Refuse(handed, started \cap Blocked)
  <2>2. /\ st \in SubType /\ st.epoch = epoch
        /\ \A C : Sound(handed, C) /\ started \cap Blocked \subseteq C => Sound(st, C)
    BY <2>1, RefuseFacts
  <2> HIDE DEF st
  <2>3. /\ sub' = [sub EXCEPT ![r] = st]
        /\ tasks' = [tasks EXCEPT ![r] = @ \cup Attempts(st, started \ Blocked, @)]
        /\ settled' = settled \cup {<<epoch, s>> : s \in started \cap Blocked}
        /\ UNCHANGED <<epoch, floor>>
    <3>1. UNCHANGED <<epoch, floor>>
      BY <1>23 DEF Schedule
    <3> QED BY <2>1, <2>2, <3>1 DEF st, Hands
  <2>4. Sound(handed, Then(epoch))
    <3>1. sub[r].epoch = epoch => Sound(sub[r], Then(epoch))
      <4>1. sub[r] \in SubType /\ SubNow(sub[r])
        BY <1>t DEF TInv, SubT, Subs
      <4>2. SubThen(sub[r])
        BY <1>0, <1>t, <4>1, SubCarried
      <4> QED BY <4>2 DEF SubThen
    <3>2. floor \in 1 .. MaxSeq + 1 /\ MaxSeq \in Nat
      BY <1>t, WebhooksAssumption DEF TInv, LogT
    <3>3. \A s \in Row : s < floor \/ s \notin Wanted => s \in Then(epoch)
      BY <2>3, <3>2 DEF Then, Covered, Row
    <3> QED BY <2>1, <3>1, <3>3
  <2>5. Sound(st, Then(epoch))
    <3>1. started \cap Blocked \subseteq Then(epoch)
      BY <2>3 DEF Then, Covered
    <3> QED BY <2>2, <2>4, <3>1
  <2>6. epoch' = epoch /\ epoch \in Nat
    BY <1>t, <2>3, WebhooksAssumption DEF TInv, LogT, Epoch
  <2>k. /\ ckpt' = ckpt \/ ckpt' = NoCkpt
        /\ ended' = ended
    BY <1>t, <1>23 DEF Schedule
  <2>q. Saved' /\ Ends'
    BY <1>0, <2>k, SavedKept, EndsKept
  <2>e. Epochs'
    BY <1>t, <1>23 DEF Schedule, Epochs
  <2>31. Subs'
    <3>1. SubThen(st)
      BY <2>2, <2>5, <2>6 DEF SubThen
    <3>2. \A x \in Replica : sub'[x] = IF x = r THEN st ELSE sub[x]
      BY <1>t, <2>3
    <3>3. ASSUME NEW x \in Replica PROVE SubThen(sub[x])
      <4>1. sub[x] \in SubType /\ SubNow(sub[x])
        BY <1>t DEF TInv, SubT, Subs
      <4> QED BY <1>0, <1>t, <4>1, SubCarried
    <3>4. \A x \in Replica : SubThen(sub'[x])
      BY <3>1, <3>2, <3>3
    <3> QED BY <3>4, Primes
  <2>32. Posts'
    <3>1. ASSUME NEW x \in Replica, NEW t \in tasks[x] PROVE PostThen(t)
      <4>1. t.epoch \in Epoch /\ PostNow(t)
        BY <1>t DEF TInv, TaskT, Posts
      <4> QED BY <1>0, <1>t, <4>1, PostCarried
    <3>2. ASSUME NEW t \in Attempts(st, started \ Blocked, tasks[r]) PROVE PostThen(t)
      <4>1. started \ Blocked \in SUBSET Row
        OBVIOUS
      <4>2. t.epoch = st.epoch
        BY <2>2, <3>2, <4>1, AttemptsFacts
      <4>5. t.seq \notin Gaps => \A s \in Row : s <= t.cursor /\ s # t.seq => s <= st.ack
        BY <2>2, <3>2, <4>1, AttemptsFacts
      <4>3. \A s \in Row : s <= st.ack => s \in Then(epoch)
        BY <2>5 DEF Sound
      <4>4. t.epoch = epoch
        BY <2>2, <4>2
      <4> QED BY <2>6, <4>3, <4>4, <4>5 DEF PostThen
    <3>3. \A x \in Replica : tasks'[x] = IF x = r THEN tasks[r] \cup Attempts(st, started \ Blocked, tasks[r])
                                         ELSE tasks[x]
      BY <1>t, <2>3
    <3>4. \A x \in Replica : \A t \in tasks'[x] : PostThen(t)
      BY <3>1, <3>2, <3>3
    <3> QED BY <3>4, Primes
  <2> QED BY <1>0, <2>q, <2>e, <2>31, <2>32 DEF IInv
<1>24. ASSUME NEW r \in Replica, NEW t \in tasks[r], NEW result \in Result, Outcome(r, t, result)
      PROVE  IInv'
  <2>k. /\ ckpt' = ckpt \/ ckpt' = NoCkpt
        /\ \A x \in Replica : tasks'[x] \subseteq tasks[x]
        /\ ended' = ended
    BY <1>t, <1>24 DEF Outcome
  <2>q. Saved' /\ Posts' /\ Ends'
    BY <1>0, <2>k, SavedKept, PostsKept, EndsKept
  <2>e. Epochs'
    BY <1>t, <1>24 DEF Outcome, Epochs
  <2>31. Subs'
    <3>1. t.seq \in Row /\ sub[r] \in SubType /\ SubNow(sub[r])
      BY <1>t DEF TInv, TaskT, SubT, Subs
    <3> DEFINE C == Then(sub[r].epoch)
               st == Reported(sub[r], t.seq, result)
    <3>2. SubThen(sub[r])
      BY <1>0, <1>t, <3>1, SubCarried
    <3>3. Served(r) /\ Closes(sub[r], t.seq, result) => t.seq \in C
      <4> SUFFICES ASSUME Served(r), Closes(sub[r], t.seq, result) PROVE t.seq \in C
        OBVIOUS
      <4>1. CASE sub[r].epoch = t.epoch
        <5>1. <<sub[r].epoch, t.seq>> \in settled'
          BY <1>24, <4>1 DEF Outcome
        <5> QED BY <3>1, <5>1 DEF Then, Covered
      <4>2. CASE sub[r].epoch # t.epoch
        <5>1. <<sub[r].epoch, t.seq>> \in misread'
          BY <1>24, <4>2 DEF Outcome
        <5> QED BY <3>1, <5>1 DEF Then, Covered
      <4> QED BY <4>1, <4>2
    <3>4. /\ st.epoch = sub[r].epoch
          /\ \A D : Sound(sub[r], D) /\ (Closes(sub[r], t.seq, result) => t.seq \in D) => Sound(st, D)
      BY <3>1, ReportedFacts
    <3> HIDE DEF C, st
    <3>5. Served(r) => SubThen(st)
      <4>1. Sound(sub[r], C) /\ sub[r].epoch <= epoch'
        BY <3>2 DEF SubThen, C
      <4>2. Served(r) => Sound(st, C)
        BY <3>3, <3>4, <4>1
      <4> QED BY <3>4, <4>1, <4>2 DEF SubThen, C
    <3>6. \A x \in Replica : sub'[x] = IF x = r /\ Served(r) THEN st ELSE sub[x]
      BY <1>t, <1>24 DEF Outcome, st
    <3>7. ASSUME NEW x \in Replica PROVE SubThen(sub[x])
      <4>1. sub[x] \in SubType /\ SubNow(sub[x])
        BY <1>t DEF TInv, SubT, Subs
      <4> QED BY <1>0, <1>t, <4>1, SubCarried
    <3>8. \A x \in Replica : SubThen(sub'[x])
      BY <3>5, <3>6, <3>7
    <3> QED BY <3>8, Primes
  <2> QED BY <1>0, <2>q, <2>e, <2>31 DEF IInv
<1>25. CASE UNCHANGED vars
  <2>k. /\ \A x \in Replica : sub'[x] = sub[x] \/ sub'[x] = NoSub
        /\ ckpt' = ckpt \/ ckpt' = NoCkpt
        /\ \A x \in Replica : tasks'[x] \subseteq tasks[x]
        /\ ended' = ended
    BY <1>t, <1>25 DEF vars
  <2>e. Epochs'
    BY <1>t, <1>25 DEF vars, Epochs
  <2> QED BY <1>0, <2>k, <2>e, SubsKept, SavedKept, PostsKept, EndsKept DEF IInv
<1> QED
  BY <1>1, <1>2, <1>3, <1>4, <1>5, <1>6, <1>7, <1>8, <1>9, <1>10, <1>11, <1>12, <1>13,
      <1>14, <1>15, <1>16, <1>17, <1>18, <1>19, <1>20, <1>21, <1>22, <1>23, <1>24, <1>25
      DEF Next, Tick, Save, Answered

LEMMA InitInductive == Init => IInv
<1> SUFFICES ASSUME Init PROVE IInv
  OBVIOUS
<1>1. TInv
  BY InitTyping
<1>2. Epochs /\ Ends
  BY WebhooksAssumption DEF Init, Epochs, Ends, EndNow, Now, Covered
<1>3. SubNow(NoSub) /\ CkptNow(NoCkpt)
  <2>1. Sound(NoSub, Now(0)) /\ CkptSound(NoCkpt, Now(0))
    BY NoSubFacts, SoundGrows DEF CkptSound
  <2>2. 0 <= epoch
    BY DEF Init
  <2> QED BY <2>1, <2>2, NoSubFacts DEF SubNow, CkptNow
<1>4. Subs /\ Saved /\ Posts
  BY <1>3 DEF Init, Subs, Saved, Posts
<1> QED BY <1>1, <1>2, <1>4 DEF IInv

\* The watermark of every replica, and the rows it marked done above it, cover only rows
\* that were acknowledged, given up, dropped or never owed, whoever holds the lease, but
\* for the rows of a log created again that an outcome of the log before it closed.
THEOREM WatermarkSound == Spec => []WatermarkCovers
<1>1. IInv => WatermarkCovers
  BY DEF IInv, Subs, SubNow, Sound, WatermarkCovers, Now, Covered, Settled, Owed
<1> QED BY <1>1, Inductive, InitInductive, PTL DEF Spec

\* The stored checkpoint, a late one of a deposed holder included, lets the next holder
\* skip only such rows.
THEOREM CheckpointSound == Spec => []CheckpointCovers
<1>1. IInv => CheckpointCovers
  BY DEF IInv, Saved, CkptNow, CkptSound, CheckpointCovers, Now, Covered, Settled, Owed
<1> QED BY <1>1, Inductive, InitInductive, PTL DEF Spec

\* The cursor in the body of an event skips, but for that event's row, only such rows; of
\* a gap envelope nothing is claimed.
THEOREM CursorSound == Spec => []CursorSafe
<1>1. IInv => CursorSafe
  BY DEF IInv, Posts, PostNow, CursorSafe, Now, Covered, Settled, Owed
<1> QED BY <1>1, Inductive, InitInductive, PTL DEF Spec

\* An upstream's end ends the subscription only when every row before it is such a row.
THEOREM EndSound == Spec => []EndIsLast
<1>1. IInv => EndIsLast
  BY DEF IInv, Ends, EndNow, EndIsLast, Now, Covered, Settled, Owed
<1> QED BY <1>1, Inductive, InitInductive, PTL DEF Spec

=============================================================================
