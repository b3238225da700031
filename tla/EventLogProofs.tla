--------------------------- MODULE EventLogProofs ---------------------------
(***************************************************************************)
(* Theorems of EventLog: type correctness; that no row is replaced; that   *)
(* the log has no holes, loses nothing the inbox handed over and counts at *)
(* least its bytes; and that it is the log AppendOnlyLog promises readers. *)
(***************************************************************************)
EXTENDS EventLog, FiniteSetTheorems, SequenceTheorems, WellFoundedInduction, TLAPS

-----------------------------------------------------------------------------
(* What the control of one writer keeps, whatever its leases.              *)

\* Steps of a retention pass, and of an append.
Retaining == {"put_floor", "put_bytes", "evict"}

Writing == {"check", "row", "adopt", "adopt_mark", "commit", "put_head", "mark"}

\* What the control of a writer is at.
Drains(w) ==
    /\ pc[w] \in {"idle", "pass"} => todo[w] = <<>>
    /\ pc[w] = "idle" => at[w] = 0 /\ end[w] = 0
    /\ pc[w] = "pass" => end[w] # 0
    /\ pc[w] \notin Retaining => at[w] <= end[w] /\ end[w] <= Len(Feed)
    /\ pc[w] \in Retaining => todo[w] = <<>>
    /\ pc[w] \in {"check", "row", "adopt", "adopt_mark"} => todo[w] # <<>>
    /\ pc[w] = "adopt_mark" => adopted[w] \in Event
    /\ kind[w] = "failing" => pc[w] \in {"commit", "put_head", "mark"}

-----------------------------------------------------------------------------
(* Facts about the operators.                                              *)

LEMMA LeastOf ==
    ASSUME NEW S \in SUBSET Nat, S # {}
    PROVE  \E m \in S : \A x \in S : m <= x
<1>1. IsWellFoundedOn(OpToRel(<, Nat), Nat)
  BY NatLessThanWellFounded
<1>2. PICK m \in S : \A y \in S : ~ (<<y, m>> \in OpToRel(<, Nat))
  BY <1>1, WFMin, Zenon
<1>3. \A y \in S : ~(y < m)
  BY <1>2, Zenon DEF OpToRel
<1> QED BY <1>3

\* The place of k among the numbers K.
Rank(K, k) == Cardinality({j \in K : j <= k})

\* Ranks number the elements of a set from 1 on.
LEMMA Ranks ==
    ASSUME NEW n \in Nat, NEW K \in SUBSET (1 .. n)
    PROVE  /\ Cardinality(K) \in Nat
           /\ \A k \in K : Rank(K, k) \in 1 .. Cardinality(K)
           /\ \A k, l \in K : Rank(K, k) = Rank(K, l) => k = l
           /\ \A i \in 1 .. Cardinality(K) : \E k \in K : Rank(K, k) = i
<1>1. IsFiniteSet(1 .. n)
  BY FS_Interval
<1>2. \A S \in SUBSET (1 .. n) : IsFiniteSet(S) /\ Cardinality(S) \in Nat
  BY <1>1, FS_Subset, FS_CardinalityType
<1>3. ASSUME NEW k \in K PROVE Rank(K, k) \in 1 .. Cardinality(K)
  <2> DEFINE S == {j \in K : j <= k}
  <2>1. S \in SUBSET K /\ S \in SUBSET (1 .. n) /\ k \in S
    <3>1. k \in Nat /\ K \subseteq 1 .. n
      OBVIOUS
    <3>2. k <= k
      BY <3>1
    <3> QED BY <3>1, <3>2, Zenon
  <2>2. Cardinality(S) <= Cardinality(K)
    BY <1>2, <2>1, FS_Subset
  <2>3. Cardinality(S) # 0
    BY <1>2, <2>1, FS_EmptySet
  <2> QED BY <1>2, <2>1, <2>2, <2>3 DEF Rank
<1>4. ASSUME NEW k \in K, NEW l \in K, Rank(K, k) = Rank(K, l) PROVE k = l
  <2>1. ASSUME NEW x \in K, NEW y \in K, x < y PROVE Rank(K, x) # Rank(K, y)
    <3> DEFINE X == {j \in K : j <= x}
    <3> DEFINE Y == {j \in K : j <= y}
    <3>0. x \in Nat /\ y \in Nat /\ \A j \in K : j \in Nat
      OBVIOUS
    <3>1. X \in SUBSET Y /\ Y \in SUBSET (1 .. n)
      <4>1. \A j \in K : j <= x => j <= y
        BY <2>1, <3>0
      <4>2. K \subseteq 1 .. n
        OBVIOUS
      <4> QED BY <4>1, <4>2, Zenon
    <3>2. y \in Y /\ y \notin X
      BY <2>1, <3>0
    <3>3. Cardinality(Y) = Cardinality(X) => Y = X
      BY <1>2, <3>1, FS_Subset
    <3> QED BY <3>2, <3>3 DEF Rank
  <2> QED BY <1>4, <2>1
<1>5. ASSUME NEW i \in 1 .. Cardinality(K) PROVE \E k \in K : Rank(K, k) = i
  <2> DEFINE c == Cardinality(K)
  <2> DEFINE f == [k \in K |-> Rank(K, k)]
  <2>1. c \in Nat
    BY <1>2
  <2>2. f \in [K -> 1 .. c] /\ \A k \in K : f[k] = Rank(K, k)
    BY <1>3
  <2>3. f \in Injection(K, 1 .. c)
    BY <1>4, <2>2 DEF Injection, IsInjective
  <2>4. IsFiniteSet(1 .. c) /\ Cardinality(1 .. c) = c
    BY <2>1, FS_Interval
  <2> HIDE DEF f
  <2>5. f \in Surjection(K, 1 .. c)
    BY <2>3, <2>4, FS_Injection
  <2>6. \E k \in K : f[k] = i
    BY <2>5 DEF Surjection
  <2> QED BY <2>2, <2>6
<1> QED BY <1>2, <1>3, <1>4, <1>5

LEMMA FunctionIsSeq ==
    ASSUME NEW T, NEW c \in Nat, NEW f \in [1 .. c -> T]
    PROVE  f \in Seq(T) /\ Len(f) = c
<1>1. f \in Seq(T)
  BY SeqDef, Zenon
<1>2. Len(f) \in Nat /\ DOMAIN f = 1 .. Len(f)
  BY <1>1, LenProperties
<1>3. 1 .. Len(f) = 1 .. c
  BY <1>2
<1>4. \A k \in Nat : (1 <= k /\ k <= Len(f)) <=> (1 <= k /\ k <= c)
  BY <1>2, <1>3
<1> QED BY <1>1, <1>2, <1>4

\* The dedup keeps an occurrence of every event without a marker.
LEMMA UnseenFacts ==
    ASSUME NEW s \in Seq(Body)
    PROVE  /\ Unseen(s) \in Seq(Body)
           /\ \A i \in 1 .. Len(s) :
                s[i] \in marker \/ \E j \in 1 .. Len(Unseen(s)) : Unseen(s)[j] = s[i]
<1> DEFINE first(i) == \A j \in 1 .. i - 1 : s[j] # s[i]
<1> DEFINE K == {i \in 1 .. Len(s) : s[i] \notin marker /\ first(i)}
<1> DEFINE pick(i) == CHOOSE k \in K : Rank(K, k) = i
<1> DEFINE f == [i \in 1 .. Cardinality(K) |-> s[pick(i)]]
<1>1. Unseen(s) = f
  BY DEF Unseen, Rank
<1>2. Len(s) \in Nat /\ \A i \in 1 .. Len(s) : s[i] \in Body
  BY LenProperties
<1>3. K \in SUBSET (1 .. Len(s))
  OBVIOUS
<1>4. \A i \in 1 .. Len(s) : s[i] \notin marker => \E k \in K : s[k] = s[i]
  <2> SUFFICES ASSUME NEW i \in 1 .. Len(s), s[i] \notin marker PROVE \E k \in K : s[k] = s[i]
    OBVIOUS
  <2> DEFINE S == {j \in 1 .. Len(s) : s[j] = s[i]}
  <2>1. S \in SUBSET Nat /\ S # {}
    BY <1>2
  <2>2. PICK m \in S : \A x \in S : m <= x
    BY <2>1, LeastOf
  <2>3. first(m)
    BY <1>2, <2>2
  <2> QED BY <2>2, <2>3
<1> HIDE DEF K
<1>5. /\ Cardinality(K) \in Nat
      /\ \A k \in K : Rank(K, k) \in 1 .. Cardinality(K)
      /\ \A k, l \in K : Rank(K, k) = Rank(K, l) => k = l
      /\ \A i \in 1 .. Cardinality(K) : \E k \in K : Rank(K, k) = i
  BY <1>2, <1>3, Ranks
<1>6. \A i \in 1 .. Cardinality(K) : pick(i) \in K /\ Rank(K, pick(i)) = i
  BY <1>5
<1> HIDE DEF pick
<1>7. f \in [1 .. Cardinality(K) -> Body] /\ \A i \in 1 .. Cardinality(K) : f[i] = s[pick(i)]
  BY <1>2, <1>3, <1>6
<1> HIDE DEF f
<1>8. f \in Seq(Body) /\ Len(f) = Cardinality(K)
  BY <1>5, <1>7, FunctionIsSeq
<1>9. ASSUME NEW i \in 1 .. Len(s), s[i] \notin marker
      PROVE  \E j \in 1 .. Len(f) : f[j] = s[i]
  <2>1. PICK k \in K : s[k] = s[i]
    BY <1>4, <1>9
  <2>2. Rank(K, k) \in 1 .. Cardinality(K) /\ pick(Rank(K, k)) = k
    BY <1>5, <1>6
  <2> QED BY <1>7, <1>8, <2>1, <2>2
<1> QED BY <1>1, <1>8, <1>9

\* A sequence that is not empty, and what is left of it.
LEMMA TailFacts ==
    ASSUME NEW s \in Seq(Body), s # <<>>
    PROVE  /\ Head(s) \in Body /\ Tail(s) \in Seq(Body)
           /\ Len(s) # 1 => Tail(s) # <<>>
           /\ \A j \in 1 .. Len(s) :
                s[j] = Head(s) \/ \E i \in 1 .. Len(Tail(s)) : Tail(s)[i] = s[j]
<1>1. /\ Head(s) \in Body /\ Tail(s) \in Seq(Body) /\ Len(Tail(s)) = Len(s) - 1
      /\ \A i \in 1 .. Len(Tail(s)) : Tail(s)[i] = s[i + 1]
  BY HeadTailProperties
<1>2. Len(s) \in Nat /\ Len(s) # 0 /\ Head(s) = s[1]
  <2>1. Len(s) \in Nat \ {0}
    BY EmptySeq
  <2> QED BY <2>1
<1>3. Len(s) # 1 => Tail(s) # <<>>
  <2>1. Len(s) # 1 => Len(Tail(s)) # 0
    BY <1>1, <1>2
  <2>2. Len(<<>>) = 0
    OBVIOUS
  <2> QED BY <2>1, <2>2, Zenon
<1>4. ASSUME NEW j \in 1 .. Len(s), j # 1 PROVE \E i \in 1 .. Len(Tail(s)) : Tail(s)[i] = s[j]
  <2>1. j - 1 \in 1 .. Len(Tail(s)) /\ (j - 1) + 1 = j
    BY <1>1, <1>2, <1>4
  <2> QED BY <1>1, <2>1
<1> QED BY <1>1, <1>2, <1>3, <1>4

LEMMA SingleFacts ==
    ASSUME NEW b \in Body
    PROVE  <<b>> \in Seq(Body) /\ <<b>> # <<>> /\ Len(<<b>>) = 1 /\ <<b>>[1] = b
OBVIOUS

-----------------------------------------------------------------------------
(* Type correctness, with the control of the writers.                      *)

\* Types: what the store holds, the leases, the writers' control and data, the flags.
SharedT ==
    /\ row \in [SeqNo -> Body \cup {NoRow}]
    /\ hist \in [SeqNo -> Body \cup {NoRow}]
    /\ head \in HeadRecord
    /\ floor \in Nat
    /\ marker \subseteq Event
    /\ drained \in 0 .. Len(Feed)

LeasesT ==
    /\ leased \in Writer \cup {NoWriter}
    /\ fence \in 0 .. MaxFence

ControlT ==
    /\ pc \in [Writer -> {"idle", "pass", "dedup", "head", "check", "row", "adopt", "adopt_mark",
                          "commit", "put_head", "mark", "put_floor", "put_bytes", "evict"}]
    /\ kind \in [Writer -> {"many", "single", "marker", "failing"}]

DataT ==
    /\ lease \in [Writer -> 0 .. MaxFence]
    /\ hd \in [Writer -> HeadRecord]
    /\ todo \in [Writer -> Seq(Body)]
    /\ adopted \in [Writer -> Event \cup {NoRow}]
    /\ unmarked \in [Writer -> SUBSET Event]
    /\ at \in [Writer -> Nat]
    /\ end \in [Writer -> Nat]

FlagsT ==
    /\ fed \in BOOLEAN
    /\ wrote \in [Writer -> BOOLEAN]

\* What is each writer's own.
Local == ControlT /\ DataT /\ \A v \in Writer : Drains(v)

LEMMA TypeParts == TypeOK <=> SharedT /\ LeasesT /\ ControlT /\ DataT /\ FlagsT
BY DEF TypeOK, SharedT, LeasesT, ControlT, DataT, FlagsT

\* What holds whatever the leases.
Basic == SharedT /\ LeasesT /\ FlagsT /\ Local

LEMMA EmptyLogType == EmptyLog \in HeadRecord /\ EmptyLog.seq = 0 /\ EmptyLog.bytes = 0
BY DEF EmptyLog, HeadRecord

LEMMA FeedType == Len(Feed) \in Nat /\ \A i \in 1 .. Len(Feed) : Feed[i] \in Body
<1>1. Feed \in Seq(Body)
  BY EventLogAssumption
<1> QED BY <1>1, LenProperties

LEMMA BasicInit == Init => Basic
<1> SUFFICES ASSUME Init PROVE Basic
  OBVIOUS
<1> USE EventLogAssumption, FeedType, EmptyLogType
<1>1. SharedT /\ LeasesT
  BY DEF Init, SharedT, LeasesT
<1>2. ControlT /\ DataT
  BY DEF Init, ControlT, DataT
<1>3. FlagsT
  BY Zenon DEF Init, FlagsT
<1>4. \A v \in Writer : Drains(v)
  BY DEF Init, Drains, Retaining
<1> QED BY <1>1, <1>2, <1>3, <1>4 DEF Basic, Local

\* Another writer is where it was.
Same(v) ==
    /\ pc'[v] = pc[v] /\ kind'[v] = kind[v] /\ lease'[v] = lease[v] /\ hd'[v] = hd[v]
    /\ todo'[v] = todo[v] /\ adopted'[v] = adopted[v] /\ unmarked'[v] = unmarked[v]
    /\ at'[v] = at[v] /\ end'[v] = end[v]

LEMMA SameDrains ==
    ASSUME NEW v \in Writer, Drains(v), Same(v)
    PROVE  Drains(v)'
BY DEF Drains, Same

LEMMA QuitLocal ==
    ASSUME Local, NEW w \in Writer, Quit(w)
    PROVE  Local' /\ \A v \in Writer \ {w} : Same(v)
<1> USE DEF Local
<1>1. ControlT'
  BY DEF ControlT, Quit, Goto
<1>2. DataT'
  BY EmptyLogType, EventLogAssumption DEF DataT, Quit
<1>3. \A v \in Writer \ {w} : Same(v)
  BY DEF ControlT, DataT, Quit, Goto, Same
<1>4. Drains(w)'
  BY FeedType DEF ControlT, DataT, Quit, Goto, Drains, Retaining
<1> QED BY <1>1, <1>2, <1>3, <1>4, SameDrains

LEMMA ReturnLocal ==
    ASSUME Local, NEW w \in Writer, Return(w), pc[w] \notin Retaining
    PROVE  Local' /\ \A v \in Writer \ {w} : Same(v)
<1> USE DEF Local
<1>1. ControlT'
  BY DEF ControlT, Return, Goto
<1>2. DataT'
  BY EmptyLogType, EventLogAssumption DEF DataT, Return
<1>3. \A v \in Writer \ {w} : Same(v)
  BY DEF ControlT, DataT, Return, Goto, Same
<1>4. Drains(w)'
  <2>1. at[w] <= end[w] /\ end[w] <= Len(Feed) /\ at[w] \in Nat /\ end[w] \in Nat
    BY DEF Drains, DataT
  <2>2. /\ pc'[w] = IF end[w] = 0 THEN "idle" ELSE "pass"
        /\ todo'[w] = <<>> /\ kind'[w] = "single" /\ at'[w] = at[w] /\ end'[w] = end[w]
    BY DEF ControlT, DataT, Return, Goto
  <2> QED BY <2>1, <2>2, FeedType DEF Drains, Retaining
<1> QED BY <1>1, <1>2, <1>3, <1>4, SameDrains

LEMMA ErrorLocal ==
    ASSUME Local, NEW w \in Writer, WriteError(w), pc[w] \in Writing
    PROVE  Local' /\ \A v \in Writer \ {w} : Same(v)
<1> USE DEF Local
<1>1. CASE Quit(w)
  BY <1>1, QuitLocal
<1>2. CASE Rescue(w)
  <2>1. ControlT'
    BY <1>2 DEF ControlT, Rescue, Goto
  <2>2. DataT'
    BY <1>2, EventLogAssumption DEF DataT, Rescue
  <2>3. \A v \in Writer \ {w} : Same(v)
    BY <1>2 DEF ControlT, DataT, Rescue, Goto, Same
  <2>4. Drains(w)'
    BY <1>2 DEF ControlT, DataT, Rescue, Goto, Drains, Retaining, Writing
  <2> QED BY <2>1, <2>2, <2>3, <2>4, SameDrains
<1> QED BY <1>1, <1>2 DEF WriteError

LEMMA WrittenLocal ==
    ASSUME Local, NEW w \in Writer, NEW h \in HeadRecord, Written(w, h), pc[w] \in {"row", "adopt_mark"}
    PROVE  Local' /\ \A v \in Writer \ {w} : Same(v)
<1> USE DEF Local
<1>0. todo[w] \in Seq(Body) /\ todo[w] # <<>>
  BY DEF DataT, Drains
<1>1. ControlT'
  BY DEF ControlT, Written, Goto
<1>2. DataT'
  <2>1. Tail(todo[w]) \in Seq(Body)
    BY <1>0, TailFacts
  <2> QED BY <2>1, EventLogAssumption DEF DataT, Written
<1>3. \A v \in Writer \ {w} : Same(v)
  BY DEF ControlT, DataT, Written, Goto, Same
<1>4. Drains(w)'
  <2>1. /\ at[w] <= end[w] /\ end[w] <= Len(Feed)
        /\ kind[w] # "failing"
    BY DEF Drains, Retaining
  <2>2. /\ pc'[w] \in {"put_head", "commit", "check"}
        /\ pc'[w] = "check" => Len(todo[w]) # 1
        /\ todo'[w] = Tail(todo[w]) /\ kind'[w] = kind[w] /\ at'[w] = at[w] /\ end'[w] = end[w]
    BY DEF ControlT, DataT, Written, Goto
  <2>3. Len(todo[w]) # 1 => Tail(todo[w]) # <<>>
    BY <1>0, TailFacts
  <2> QED BY <2>1, <2>2, <2>3 DEF Drains, Retaining
<1> QED BY <1>1, <1>2, <1>3, <1>4, SameDrains

\* A step that only goes on to the next place of the operation.
LEMMA GotoLocal ==
    ASSUME Local, NEW w \in Writer, NEW place \in {"head", "row", "put_head", "check", "adopt", "mark"},
           Goto(w, place), UNCHANGED <<kind, lease, hd, todo, adopted, unmarked, wrote, at, end>>,
           pc[w] \notin Retaining, pc[w] # "idle",
           place \in {"row", "check", "adopt"} => todo[w] # <<>>,
           kind[w] = "failing" => place \in {"put_head", "mark"}
    PROVE  Local' /\ \A v \in Writer \ {w} : Same(v)
<1> USE DEF Local
<1>1. ControlT'
  BY DEF ControlT, Goto
<1>2. DataT'
  BY DEF DataT
<1>3. \A v \in Writer \ {w} : Same(v)
  BY DEF ControlT, Goto, Same
<1>4. Drains(w)'
  BY DEF ControlT, Goto, Drains, Retaining
<1> QED BY <1>1, <1>2, <1>3, <1>4, SameDrains

LEMMA StepLocal ==
    ASSUME Basic, NEW w \in Writer, Step(w) \/ Abort(w)
    PROVE  Local' /\ \A v \in Writer \ {w} : Same(v)
<1> DEFINE Goal == Local' /\ \A v \in Writer \ {w} : Same(v)
<1> USE DEF Basic
<1>t. /\ ControlT /\ DataT /\ Drains(w) /\ SharedT /\ LeasesT
      /\ todo[w] \in Seq(Body) /\ at[w] \in Nat /\ end[w] \in Nat /\ fence \in 0 .. MaxFence
      /\ head \in HeadRecord /\ floor \in Nat /\ drained \in Nat /\ hd[w] \in HeadRecord
      /\ Len(Feed) \in Nat /\ drained <= Len(Feed)
  BY FeedType DEF Local, DataT, SharedT, LeasesT
<1>1. ASSUME NEW b \in Direct, StartAppend(w, b) PROVE Goal
  <2>1. b \in Body
    BY EventLogAssumption
  <2>2. ControlT'
    BY <1>t, <1>1 DEF StartAppend, ControlT, Goto
  <2>3. DataT'
    BY <1>t, <1>1, <2>1, SingleFacts DEF StartAppend, DataT
  <2>4. \A v \in Writer \ {w} : Same(v)
    BY <1>t, <1>1 DEF StartAppend, ControlT, DataT, Goto, Same
  <2>5. Drains(w)'
    BY <1>t, <1>1, <2>1, SingleFacts DEF StartAppend, ControlT, DataT, Goto, Drains, Retaining
  <2> QED BY <2>2, <2>3, <2>4, <2>5, SameDrains DEF Local
<1>2. CASE StartDrain(w)
  <2>1. PICK e \in (drained + 1) .. Len(Feed) : end' = [end EXCEPT ![w] = e]
    BY <1>2 DEF StartDrain
  <2>2. e \in Nat /\ e # 0 /\ drained <= e /\ e <= Len(Feed)
    BY <1>t
  <2>3. ControlT'
    BY <1>t, <1>2 DEF StartDrain, ControlT, Goto
  <2>4. DataT'
    BY <1>t, <1>2, <2>1, <2>2 DEF StartDrain, DataT
  <2>5. \A v \in Writer \ {w} : Same(v)
    BY <1>t, <1>2, <2>1 DEF StartDrain, ControlT, DataT, Goto, Same
  <2>6. Drains(w)'
    <3>1. pc'[w] = "pass" /\ end'[w] = e /\ at'[w] = drained /\ todo'[w] = todo[w] /\ kind'[w] = kind[w]
      BY <1>t, <1>2, <2>1 DEF StartDrain, ControlT, DataT, Goto
    <3>2. todo[w] = <<>> /\ kind[w] # "failing"
      BY <1>t, <1>2 DEF StartDrain, Drains
    <3> QED BY <2>2, <3>1, <3>2 DEF Drains, Retaining
  <2> QED BY <2>3, <2>4, <2>5, <2>6, SameDrains DEF Local
<1>3. CASE Segment(w)
  <2>1. /\ pc[w] = "pass" /\ at[w] < end[w] /\ end[w] <= Len(Feed)
        /\ UNCHANGED <<lease, hd, adopted, unmarked, wrote, end>>
    BY <1>t, <1>3 DEF Segment, Drains, Retaining
  <2>2. PICK k \in (at[w] + 1) .. end[w], b \in Seq(Body) :
          /\ todo' = [todo EXCEPT ![w] = b]
          /\ at' = [at EXCEPT ![w] = k]
          /\ \/ kind' = [kind EXCEPT ![w] = "marker"] /\ Goto(w, "head")
             \/ kind' = [kind EXCEPT ![w] = "many"] /\ Goto(w, "dedup")
    <3>1. CASE /\ todo' = [todo EXCEPT ![w] = <<Feed[at[w] + 1]>>]
               /\ at' = [at EXCEPT ![w] = @ + 1]
               /\ kind' = [kind EXCEPT ![w] = "marker"]
               /\ Goto(w, "head")
      <4>1. at[w] + 1 \in (at[w] + 1) .. end[w] /\ at[w] + 1 \in 1 .. Len(Feed)
        BY <1>t, <2>1
      <4>2. <<Feed[at[w] + 1]>> \in Seq(Body)
        BY <4>1, FeedType, SingleFacts
      <4>3. at' = [at EXCEPT ![w] = at[w] + 1]
        BY <3>1
      <4> QED BY <3>1, <4>1, <4>2, <4>3
    <3>2. ASSUME NEW k \in (at[w] + 1) .. end[w],
                 todo' = [todo EXCEPT ![w] = SubSeq(Feed, at[w] + 1, k)],
                 at' = [at EXCEPT ![w] = k],
                 kind' = [kind EXCEPT ![w] = "many"],
                 Goto(w, "dedup")
          PROVE  SubSeq(Feed, at[w] + 1, k) \in Seq(Body)
      <4>1. at[w] + 1 \in Int /\ k \in Int /\ \A i \in (at[w] + 1) .. k : i \in 1 .. Len(Feed)
        BY <1>t, <2>1
      <4>2. \A i \in (at[w] + 1) .. k : Feed[i] \in Body
        BY <4>1, FeedType
      <4> QED BY <4>1, <4>2, SubSeqProperties
    <3> QED BY <1>3, <3>1, <3>2 DEF Segment
  <2>3. k \in Nat /\ k <= end[w]
    BY <1>t
  <2>4. ControlT'
    BY <1>t, <2>2 DEF ControlT, Goto
  <2>5. DataT'
    BY <1>t, <2>1, <2>2, <2>3 DEF DataT
  <2>6. \A v \in Writer \ {w} : Same(v)
    BY <1>t, <2>1, <2>2 DEF ControlT, DataT, Goto, Same
  <2>7. Drains(w)'
    <3>1. /\ pc'[w] \in {"head", "dedup"} /\ kind'[w] # "failing" /\ at'[w] = k /\ end'[w] = end[w]
      BY <1>t, <2>1, <2>2 DEF ControlT, DataT, Goto
    <3> QED BY <2>1, <2>3, <3>1 DEF Drains, Retaining
  <2> QED BY <2>4, <2>5, <2>6, <2>7, SameDrains DEF Local
<1>4. CASE PutDrained(w) \/ Abort(w)
  BY <1>4, QuitLocal DEF PutDrained, Abort
<1>5. CASE Dedup(w)
  <2>0. pc[w] = "dedup" /\ pc[w] \notin Retaining
    BY <1>5 DEF Dedup, Retaining
  <2>1. CASE Return(w)
    BY <2>0, <2>1, ReturnLocal
  <2>2. CASE /\ todo' = [todo EXCEPT ![w] = Unseen(todo[w])]
             /\ Goto(w, "head")
             /\ UNCHANGED <<kind, lease, hd, adopted, unmarked, wrote, at, end>>
    <3>1. Unseen(todo[w]) \in Seq(Body)
      BY <1>t, UnseenFacts
    <3>2. ControlT'
      BY <1>t, <2>2 DEF ControlT, Goto
    <3>3. DataT'
      BY <1>t, <2>2, <3>1 DEF DataT
    <3>4. \A v \in Writer \ {w} : Same(v)
      BY <1>t, <2>2 DEF ControlT, DataT, Goto, Same
    <3>5. Drains(w)'
      BY <1>t, <2>0, <2>2 DEF ControlT, DataT, Goto, Drains, Retaining
    <3> QED BY <3>2, <3>3, <3>4, <3>5, SameDrains DEF Local
  <2> QED BY <1>5, <2>1, <2>2 DEF Dedup
<1>6. CASE ReadHead(w)
  <2>0. pc[w] = "head" /\ pc[w] \notin Retaining
    BY <1>6 DEF ReadHead, Retaining
  <2>1. CASE Quit(w)
    BY <2>1, QuitLocal
  <2>2. CASE Return(w)
    BY <2>0, <2>2, ReturnLocal
  <2>3. CASE /\ todo[w] # <<>>
             /\ hd' = [hd EXCEPT ![w] = head]
             /\ Goto(w, IF kind[w] = "many" THEN "check" ELSE "row")
             /\ UNCHANGED <<kind, lease, todo, adopted, unmarked, wrote, at, end>>
    <3>1. ControlT'
      BY <1>t, <2>3 DEF ControlT, Goto
    <3>2. DataT'
      BY <1>t, <2>3 DEF DataT
    <3>3. \A v \in Writer \ {w} : Same(v)
      BY <1>t, <2>3 DEF ControlT, DataT, Goto, Same
    <3>4. Drains(w)'
      BY <1>t, <2>0, <2>3 DEF ControlT, DataT, Goto, Drains, Retaining
    <3> QED BY <3>1, <3>2, <3>3, <3>4, SameDrains DEF Local
  <2> QED BY <1>6, <2>1, <2>2, <2>3 DEF ReadHead
<1>7. CASE Check(w)
  <2>0. pc[w] = "check" /\ pc[w] \in Writing /\ todo[w] # <<>> /\ kind[w] # "failing"
    BY <1>t, <1>7 DEF Check, Writing, Drains
  <2> QED BY <1>7, <2>0, GotoLocal, ErrorLocal DEF Check, Retaining
<1>8. CASE WriteRow(w)
  <2>0. pc[w] = "row" /\ pc[w] \in Writing /\ todo[w] # <<>> /\ kind[w] # "failing"
    BY <1>t, <1>8 DEF WriteRow, Writing, Drains
  <2>1. CASE WriteError(w)
    BY <2>0, <2>1, ErrorLocal
  <2>2. CASE /\ Goto(w, "adopt")
             /\ UNCHANGED <<kind, lease, hd, todo, adopted, unmarked, wrote, at, end>>
    BY <2>0, <2>2, GotoLocal DEF Retaining
  <2> DEFINE h == [seq |-> hd[w].seq + 1, fence |-> lease[w],
                   gap |-> IF Head(todo[w]) = Gap THEN hd[w].seq + 1 ELSE hd[w].gap,
                   bytes |-> hd[w].bytes + 1]
  <2>3. h \in HeadRecord
    BY <1>t DEF HeadRecord, DataT
  <2> HIDE DEF h
  <2>4. CASE Written(w, h)
    BY <2>0, <2>3, <2>4, WrittenLocal
  <2> QED BY <1>8, <2>1, <2>2, <2>4 DEF WriteRow, h
<1>9. CASE Adopt(w)
  <2>0. pc[w] = "adopt" /\ pc[w] \in Writing /\ todo[w] # <<>> /\ kind[w] # "failing"
    BY <1>t, <1>9 DEF Adopt, Writing, Drains
  <2>1. CASE WriteError(w)
    BY <2>0, <2>1, ErrorLocal
  <2>2. ASSUME NEW found,
               hd' = [hd EXCEPT ![w] = Adopted(w)],
               adopted' = [adopted EXCEPT ![w] = IF found \in Event THEN found ELSE NoRow],
               Goto(w, IF found \in Event THEN "adopt_mark" ELSE "row"),
               UNCHANGED <<kind, lease, todo, unmarked, wrote, at, end>>
        PROVE  Goal
    <3>1. Adopted(w) \in HeadRecord
      <4>0. hd[w] \in HeadRecord /\ head \in HeadRecord
        BY <1>t
      <4>1. hd[w].seq + 1 \in Nat /\ hd[w].bytes \in Nat /\ hd[w].bytes + 1 \in Nat
        BY <4>0 DEF HeadRecord
      <4>2. \A b \in Nat : [hd[w] EXCEPT !.seq = hd[w].seq + 1, !.bytes = b] \in HeadRecord
        BY <4>0, <4>1 DEF HeadRecord
      <4>3. Adopted(w) = IF head.seq > hd[w].seq THEN head
                         ELSE [hd[w] EXCEPT !.seq = hd[w].seq + 1,
                                            !.bytes = IF row[hd[w].seq + 1] = NoRow
                                                      THEN hd[w].bytes ELSE hd[w].bytes + 1]
        BY DEF Adopted
      <4> QED BY <4>0, <4>1, <4>2, <4>3
    <3>2. ControlT'
      BY <1>t, <2>2 DEF ControlT, Goto
    <3>3. DataT'
      BY <1>t, <2>2, <3>1 DEF DataT
    <3>4. \A v \in Writer \ {w} : Same(v)
      BY <1>t, <2>2 DEF ControlT, DataT, Goto, Same
    <3>5. Drains(w)'
      BY <1>t, <2>0, <2>2 DEF ControlT, DataT, Goto, Drains, Retaining
    <3> QED BY <3>2, <3>3, <3>4, <3>5, SameDrains DEF Local
  <2> QED BY <1>9, <2>1, <2>2 DEF Adopt
<1>10. CASE MarkAdopted(w)
  <2>0. /\ pc[w] = "adopt_mark" /\ pc[w] \in Writing /\ todo[w] # <<>> /\ kind[w] # "failing"
    BY <1>t, <1>10 DEF MarkAdopted, Writing, Drains
  <2>1. CASE WriteError(w)
    BY <2>0, <2>1, ErrorLocal
  <2>2. CASE Written(w, [hd[w] EXCEPT !.fence = lease[w]])
    <3>1. [hd[w] EXCEPT !.fence = lease[w]] \in HeadRecord
      <4>1. lease[w] \in Nat
        BY <1>t DEF DataT
      <4> QED BY <1>t, <4>1 DEF HeadRecord
    <3> QED BY <2>0, <2>2, <3>1, WrittenLocal
  <2>3. CASE /\ Goto(w, "row")
             /\ adopted' = [adopted EXCEPT ![w] = NoRow]
             /\ UNCHANGED <<kind, lease, hd, todo, unmarked, wrote, at, end>>
    <3>1. ControlT'
      BY <1>t, <2>3 DEF ControlT, Goto
    <3>2. DataT'
      BY <1>t, <2>3 DEF DataT
    <3>3. \A v \in Writer \ {w} : Same(v)
      BY <1>t, <2>3 DEF ControlT, DataT, Goto, Same
    <3>4. Drains(w)'
      BY <1>t, <2>0, <2>3 DEF ControlT, DataT, Goto, Drains, Retaining
    <3> QED BY <3>1, <3>2, <3>3, <3>4, SameDrains DEF Local
  <2> QED BY <1>10, <2>1, <2>2, <2>3 DEF MarkAdopted
<1>11. CASE Commit(w)
  <2>0. pc[w] = "commit"
    BY <1>11 DEF Commit
  <2> QED BY <1>11, <2>0, GotoLocal, QuitLocal DEF Commit, Retaining
<1>12. CASE PutHead(w)
  <2>0. pc[w] = "put_head"
    BY <1>12 DEF PutHead
  <2> QED BY <1>12, <2>0, GotoLocal DEF PutHead, Retaining
<1>13. ASSUME NEW e \in unmarked[w], Mark(w, e) PROVE Goal
  <2>1. UNCHANGED <<pc, kind, lease, hd, todo, adopted, at, end>>
        /\ unmarked' = [unmarked EXCEPT ![w] = unmarked[w] \ {e}]
    BY <1>13 DEF Mark
  <2>2. ControlT' /\ DataT'
    BY <1>t, <2>1 DEF ControlT, DataT
  <2>3. \A v \in Writer \ {w} : Same(v)
    BY <1>t, <2>1 DEF DataT, Same
  <2>4. Drains(w)'
    BY <1>t, <2>1 DEF Drains
  <2> QED BY <2>2, <2>3, <2>4, SameDrains DEF Local
<1>14. CASE Marked(w)
  <2>0. pc[w] = "mark"
    BY <1>14 DEF Marked
  <2> QED BY <1>14, <2>0, GotoLocal, QuitLocal, ReturnLocal DEF Marked, Retaining
<1>15. CASE StartRetain(w)
  <2>1. PICK f \in Evictable :
          /\ LET gone == {s \in floor .. f - 1 : row[s] # NoRow}
                 left == IF f > head.seq \/ Cardinality(gone) > head.bytes
                         THEN 0 ELSE head.bytes - Cardinality(gone)
             IN hd' = [hd EXCEPT ![w] = [head EXCEPT !.bytes = left]]
          /\ end' = [end EXCEPT ![w] = f]
    BY <1>15 DEF StartRetain
  <2> DEFINE gone == {s \in floor .. f - 1 : row[s] # NoRow}
  <2> DEFINE left == IF f > head.seq \/ Cardinality(gone) > head.bytes
                     THEN 0 ELSE head.bytes - Cardinality(gone)
  <2>2. f \in Nat
    BY <1>t DEF Evictable, HeadRecord
  <2>3. left \in Nat
    <3>1. IsFiniteSet(floor .. f - 1)
      BY <1>t, <2>2, FS_Interval
    <3>2. Cardinality(gone) \in Nat
      BY <3>1, FS_Subset, FS_CardinalityType
    <3> HIDE DEF gone
    <3> QED BY <1>t, <3>2 DEF HeadRecord
  <2>4. hd' = [hd EXCEPT ![w] = [head EXCEPT !.bytes = left]]
    BY <2>1
  <2> HIDE DEF left
  <2>5. [head EXCEPT !.bytes = left] \in HeadRecord
    BY <1>t, <2>3 DEF HeadRecord
  <2>6. ControlT'
    BY <1>t, <1>15 DEF StartRetain, ControlT, Goto
  <2>7. DataT'
    <3>1. at' = [at EXCEPT ![w] = floor] /\ lease' = [lease EXCEPT ![w] = fence]
          /\ UNCHANGED <<todo, adopted, unmarked>>
      BY <1>15 DEF StartRetain
    <3> QED BY <1>t, <2>1, <2>2, <2>4, <2>5, <3>1 DEF DataT
  <2>8. \A v \in Writer \ {w} : Same(v)
    BY <1>t, <1>15, <2>1, <2>4 DEF StartRetain, ControlT, DataT, Goto, Same
  <2>9. Drains(w)'
    <3>1. pc'[w] = "put_floor" /\ todo'[w] = todo[w] /\ kind'[w] = kind[w]
      BY <1>t, <1>15 DEF StartRetain, ControlT, Goto
    <3>2. todo[w] = <<>> /\ kind[w] # "failing"
      BY <1>t, <1>15 DEF StartRetain, Drains
    <3> QED BY <3>1, <3>2 DEF Drains, Retaining
  <2> QED BY <2>6, <2>7, <2>8, <2>9, SameDrains DEF Local
<1>16. CASE PutFloor(w) \/ PutBytes(w)
  <2>1. /\ UNCHANGED <<kind, lease, hd, todo, adopted, unmarked, at, end>>
        /\ pc[w] \in Retaining
        /\ Goto(w, "put_bytes") \/ Goto(w, "evict")
    BY <1>16 DEF PutFloor, PutBytes, Retaining
  <2>2. ControlT' /\ DataT'
    BY <1>t, <2>1 DEF ControlT, DataT, Goto
  <2>3. \A v \in Writer \ {w} : Same(v)
    BY <1>t, <2>1 DEF ControlT, Goto, Same
  <2>4. Drains(w)'
    BY <1>t, <2>1 DEF ControlT, Goto, Drains, Retaining
  <2> QED BY <2>2, <2>3, <2>4, SameDrains DEF Local
<1>17. CASE Evict(w)
  <2>0. pc[w] = "evict"
    BY <1>17 DEF Evict
  <2>1. CASE Quit(w)
    BY <2>1, QuitLocal
  <2>2. CASE /\ at' = [at EXCEPT ![w] = @ + 1]
             /\ UNCHANGED <<pc, kind, lease, hd, todo, adopted, unmarked, wrote, end>>
    <3>1. ControlT' /\ DataT'
      BY <1>t, <2>2 DEF ControlT, DataT
    <3>2. \A v \in Writer \ {w} : Same(v)
      BY <1>t, <2>2 DEF DataT, Same
    <3>3. Drains(w)'
      BY <1>t, <2>0, <2>2 DEF DataT, Drains, Retaining
    <3> QED BY <3>1, <3>2, <3>3, SameDrains DEF Local
  <2> QED BY <1>17, <2>1, <2>2 DEF Evict
<1> QED
  BY <1>1, <1>2, <1>3, <1>4, <1>5, <1>6, <1>7, <1>8, <1>9, <1>10, <1>11, <1>12, <1>13, <1>14,
     <1>15, <1>16, <1>17
     DEF Step

LEMMA FlagsNext ==
    ASSUME FlagsT, [Next]_vars
    PROVE  FlagsT'
<1>1. fed' = fed
  BY DEF Next, vars
<1> DEFINE Flag(w) == \/ wrote' = wrote
                      \/ wrote' = [wrote EXCEPT ![w] = FALSE]
                      \/ wrote' = [wrote EXCEPT ![w] = TRUE]
<1>2. ASSUME NEW w \in Writer, Quit(w) \/ Return(w) \/ WriteError(w) PROVE Flag(w)
  BY <1>2, Zenon DEF Quit, Return, WriteError, Rescue
<1>3. ASSUME NEW w \in Writer, NEW h, Written(w, h) PROVE Flag(w)
  BY <1>3, Zenon DEF Written
<1>4. ASSUME NEW w \in Writer, wrote' = wrote PROVE Flag(w)
  BY <1>4
<1>5. ASSUME NEW w \in Writer,
             \/ Abort(w) \/ PutDrained(w) \/ Dedup(w) \/ ReadHead(w) \/ Check(w) \/ Adopt(w)
             \/ Commit(w) \/ Marked(w) \/ Evict(w)
      PROVE  Flag(w)
  <2> HIDE DEF Flag
  <2> QED BY <1>2, <1>4, <1>5 DEF Abort, PutDrained, Dedup, ReadHead, Check, Adopt, Commit, Marked, Evict
<1>6. ASSUME NEW w \in Writer, WriteRow(w) \/ MarkAdopted(w) PROVE Flag(w)
  <2> HIDE DEF Flag
  <2> QED BY <1>2, <1>3, <1>4, <1>6 DEF WriteRow, MarkAdopted
<1>7. ASSUME NEW w \in Writer,
             \/ Grant(w) \/ (\E b \in Direct : StartAppend(w, b)) \/ StartDrain(w) \/ Segment(w)
             \/ PutHead(w) \/ (\E e \in unmarked[w] : Mark(w, e)) \/ StartRetain(w)
             \/ PutFloor(w) \/ PutBytes(w)
      PROVE  wrote' = wrote
  BY <1>7, Zenon DEF Grant, local, StartAppend, StartDrain, Segment, PutHead, Mark, StartRetain, PutFloor,
     PutBytes
<1>8. ASSUME Expire \/ UNCHANGED vars PROVE wrote' = wrote
  BY <1>8 DEF Expire, vars, local
<1>9. wrote' = wrote \/ \E w \in Writer : Flag(w)
  <2> HIDE DEF Flag
  <2> QED BY <1>4, <1>5, <1>6, <1>7, <1>8 DEF Next, Step
<1> QED BY <1>1, <1>9, Zenon DEF FlagsT

LEMMA LeasesNext ==
    ASSUME LeasesT, [Next]_vars
    PROVE  LeasesT'
<1>1. ASSUME NEW w \in Writer, Grant(w) PROVE LeasesT'
  BY <1>1, EventLogAssumption DEF Grant, LeasesT
<1>2. ASSUME Expire PROVE LeasesT'
  BY <1>2 DEF Expire, LeasesT
<1>3. ASSUME UNCHANGED leases PROVE LeasesT'
  BY <1>3 DEF leases, LeasesT
<1>4. ASSUME NEW w \in Writer, Abort(w) \/ Step(w) PROVE UNCHANGED leases
  BY <1>4, Zenon DEF Step, Abort, StartAppend, StartDrain, Segment, PutDrained,
     Dedup, ReadHead, Check, WriteRow, Adopt, MarkAdopted, Commit, PutHead, Mark, Marked, StartRetain,
     PutFloor, PutBytes, Evict
<1> QED BY <1>1, <1>2, <1>3, <1>4 DEF Next, vars

\* The steps that leave the store alone.
Quiet(w) ==
    \/ \E b \in Direct : StartAppend(w, b)
    \/ StartDrain(w) \/ Segment(w) \/ Dedup(w) \/ ReadHead(w) \/ Check(w) \/ Adopt(w)
    \/ Commit(w) \/ Marked(w) \/ StartRetain(w) \/ Abort(w)

LEMMA QuietStored ==
    ASSUME NEW w \in Writer, Quiet(w)
    PROVE  UNCHANGED stored
BY Zenon DEF Quiet, StartAppend, StartDrain, Segment, Dedup, ReadHead, Check, Adopt, Commit, Marked,
   StartRetain, Abort

\* What a write does to the rows and their history.
LEMMA WriteRowFacts ==
    ASSUME NEW w \in Writer, WriteRow(w)
    PROVE  /\ UNCHANGED <<head, floor, marker, drained, leased>>
           /\ \/ UNCHANGED <<row, hist>>
              \/ /\ row[hd[w].seq + 1] = NoRow
                 /\ row' = [row EXCEPT ![hd[w].seq + 1] = Head(todo[w])]
                 /\ hist' = [hist EXCEPT ![hd[w].seq + 1] =
                                IF hist[hd[w].seq + 1] = NoRow THEN Head(todo[w])
                                ELSE hist[hd[w].seq + 1]]
BY DEF WriteRow, Free, leases

LEMMA SharedNext ==
    ASSUME Basic, NEW w \in Writer, Step(w) \/ Abort(w)
    PROVE  SharedT'
<1>t. SharedT /\ DataT /\ Drains(w) /\ ControlT
  BY DEF Basic, Local
<1>1. CASE Quiet(w)
  BY <1>t, <1>1, QuietStored DEF SharedT, stored
<1>2. CASE PutDrained(w)
  <2>1. end[w] \in 0 .. Len(Feed)
    BY <1>t, <1>2, FeedType DEF PutDrained, Drains, Retaining, DataT
  <2> QED BY <1>t, <1>2, <2>1 DEF PutDrained, SharedT
<1>3. CASE WriteRow(w)
  <2>1. todo[w] \in Seq(Body) /\ todo[w] # <<>>
    BY <1>t, <1>3 DEF WriteRow, Drains, DataT
  <2>2. Head(todo[w]) \in Body
    BY <2>1, TailFacts
  <2> QED BY <1>t, <1>3, <2>2, WriteRowFacts DEF SharedT
<1>4. CASE MarkAdopted(w)
  <2>1. adopted[w] \in Event
    BY <1>t, <1>4 DEF MarkAdopted, Drains
  <2> QED BY <1>t, <1>4, <2>1 DEF MarkAdopted, SharedT
<1>5. CASE PutHead(w) \/ PutBytes(w)
  <2>1. hd[w] \in HeadRecord
    BY <1>t DEF DataT
  <2> QED BY <1>t, <1>5, <2>1 DEF PutHead, PutBytes, SharedT
<1>6. ASSUME NEW e \in unmarked[w], Mark(w, e) PROVE SharedT'
  <2>1. unmarked[w] \subseteq Event
    BY <1>t DEF DataT
  <2> QED BY <1>t, <1>6, <2>1 DEF Mark, SharedT
<1>7. CASE PutFloor(w)
  <2>1. end[w] \in Nat
    BY <1>t DEF DataT
  <2> QED BY <1>t, <1>7, <2>1 DEF PutFloor, SharedT
<1>8. CASE Evict(w)
  BY <1>t, <1>8, EventLogAssumption DEF Evict, SharedT
<1> QED BY <1>1, <1>2, <1>3, <1>4, <1>5, <1>6, <1>7, <1>8 DEF Step, Quiet

LEMMA BasicNext == Basic /\ [Next]_vars => Basic'
<1> SUFFICES ASSUME Basic, [Next]_vars PROVE Basic'
  OBVIOUS
<1>1. FlagsT' /\ LeasesT'
  BY FlagsNext, LeasesNext DEF Basic
<1>2. ASSUME NEW w \in Writer, Step(w) \/ Abort(w) PROVE Basic'
  BY <1>1, <1>2, StepLocal, SharedNext DEF Basic
<1>3. ASSUME UNCHANGED <<stored, local>> PROVE Basic'
  <2>1. SharedT'
    BY <1>3 DEF Basic, stored, SharedT
  <2>2. Local'
    BY <1>3 DEF Basic, local, Local, ControlT, DataT, Drains
  <2> QED BY <1>1, <2>1, <2>2 DEF Basic
<1>4. ASSUME NEW w \in Writer, Grant(w) PROVE Basic'
  BY <1>3, <1>4 DEF Grant
<1>5. ASSUME Expire PROVE Basic'
  BY <1>3, <1>5 DEF Expire
<1>6. ASSUME UNCHANGED vars PROVE Basic'
  BY <1>3, <1>6 DEF vars
<1> QED BY <1>2, <1>4, <1>5, <1>6 DEF Next

\* EventLog: every variable stays within its range, for any number of writers
\* and leases and any faults; a drain never passes the end of the inbox.
THEOREM TypeCorrect == Spec => []TypeOK
<1>1. Basic => TypeOK
  BY TypeParts DEF Basic, Local
<1> QED BY <1>1, BasicInit, BasicNext, PTL DEF Spec

-----------------------------------------------------------------------------
(* The invariant of the log, while Orderly.                                *)

\* The numbers up to s had a row at some time, in the history h.
WrittenTo(h, s) == s <= MaxSeq /\ \A t \in SeqNo : t <= s => h[t] # NoRow

\* The history h has a row with the body b.
InHist(h, b) == b # NoRow /\ \E s \in SeqNo : h[s] = b

\* The history g is h with more rows.
Grows(h, g) == \A s \in SeqNo : h[s] # NoRow => g[s] = h[s]

\* The store: rows are numbered without gaps, a row that is gone is below the
\* floor, the floor is at most one past the head, and the bytes of the head cover
\* the retained rows.
History ==
    /\ \A s \in SeqNo : hist[s] # NoRow => WrittenTo(hist, s)
    /\ WrittenTo(hist, head.seq)

\* Every row written and not evicted is there, with its first body.
Stored ==
    /\ \A s \in SeqNo : row[s] # NoRow => row[s] = hist[s]
    /\ \A s \in SeqNo : row[s] = NoRow /\ hist[s] # NoRow => s < floor

\* The floor is between the rows, and the byte count covers what it leaves.
Retained ==
    /\ 1 <= floor /\ floor <= head.seq + 1
    /\ head.seq + 1 <= head.bytes + floor
    /\ ~Evicts => floor = 1

\* What is marked or drained was written.
Accounted ==
    /\ \A e \in marker : InHist(hist, e)
    /\ \A i \in 1 .. drained : InHist(hist, Feed[i])

\* The invariant of the store.
Log == History /\ Stored /\ Retained /\ Accounted

\* A writer: it is inside its lease, or no row is ever evicted.
LeaseOf(w) ==
    /\ Timely /\ pc[w] # "idle" => leased = w
    /\ ~Evicts => pc[w] \notin Retaining

\* The head in its memory is not behind the committed one, and covers only
\* rows that were written.
HeadOf(w) ==
    /\ WrittenTo(hist, hd[w].seq)
    /\ pc[w] = "adopt" => WrittenTo(hist, hd[w].seq + 1)
    /\ pc[w] \in Writing \cup {"put_bytes"} => hd[w].seq + 1 <= hd[w].bytes + floor
    /\ pc[w] = "put_floor" => hd[w].seq + 1 <= hd[w].bytes + end[w]

\* While it is alone it knows the committed head and floor.
OrderOf(w) ==
    Timely =>
        /\ pc[w] \in Writing => head.seq <= hd[w].seq
        /\ pc[w] \in {"put_floor", "put_bytes"} => hd[w].seq = head.seq
        /\ pc[w] = "put_floor" => at[w] = floor /\ floor < end[w] /\ end[w] <= head.seq + 1
        /\ pc[w] \in {"put_bytes", "evict"} => at[w] <= end[w] /\ end[w] = floor

\* What it will mark is written.
MarksOf(w) ==
    /\ \A e \in unmarked[w] : InHist(hist, e)
    /\ adopted[w] # NoRow => InHist(hist, adopted[w])

\* What its drain has passed is written, or still to be written.
DrainOf(w) ==
    pc[w] \notin Retaining /\ kind[w] # "failing" =>
        \A i \in 1 .. at[w] :
            InHist(hist, Feed[i]) \/ \E j \in 1 .. Len(todo[w]) : todo[w][j] = Feed[i]

\* The invariant of a writer, and of the log with its writers.
Each(w) == LeaseOf(w) /\ HeadOf(w) /\ OrderOf(w) /\ MarksOf(w) /\ DrainOf(w)

Inv == Basic /\ Log /\ \A w \in Writer : Each(w)

LEMMA GrowFacts ==
    ASSUME NEW h, NEW g, Grows(h, g)
    PROVE  /\ \A s : WrittenTo(h, s) => WrittenTo(g, s)
           /\ \A b : InHist(h, b) => InHist(g, b)
BY DEF Grows, WrittenTo, InHist

LEMMA NothingWritten ==
    ASSUME NEW h
    PROVE  WrittenTo(h, 0)
BY EventLogAssumption DEF WrittenTo, SeqNo

\* A writer that another one's step does not touch.
LEMMA OtherEach ==
    ASSUME Basic, Basic', NEW w \in Writer, NEW v \in Writer \ {w}, Each(v), Same(v),
           leased' = leased, Timely => leased = w, Grows(hist, hist'), floor <= floor'
    PROVE  Each(v)'
<1>t. /\ hd[v] \in HeadRecord /\ head \in HeadRecord /\ floor \in Nat /\ floor' \in Nat
      /\ at[v] \in Nat /\ end[v] \in Nat
  BY DEF Basic, SharedT, Local, DataT
<1>g. /\ \A s : WrittenTo(hist, s) => WrittenTo(hist', s)
      /\ \A b : InHist(hist, b) => InHist(hist', b)
  BY GrowFacts
<1>1. LeaseOf(v)'
  BY DEF Each, LeaseOf, Same
<1>2. HeadOf(v)'
  <2>1. hd[v].seq \in Nat /\ hd[v].bytes \in Nat
    BY <1>t DEF HeadRecord
  <2> QED BY <1>t, <1>g, <2>1 DEF Each, HeadOf, Same
<1>3. OrderOf(v)'
  <2>1. Timely => pc[v] = "idle"
    BY DEF Each, LeaseOf
  <2> QED BY <2>1 DEF OrderOf, Same, Writing
<1>4. MarksOf(v)'
  BY <1>g DEF Each, MarksOf, Same
<1>5. DrainOf(v)'
  BY <1>g DEF Each, DrainOf, Same
<1> QED BY <1>1, <1>2, <1>3, <1>4, <1>5 DEF Each

\* The ways an operation ends.
LEMMA QuitEach ==
    ASSUME Basic, Basic', NEW w \in Writer, Quit(w)
    PROVE  Each(w)'
<1>t. ControlT /\ DataT
  BY DEF Basic, Local
<1>1. /\ pc'[w] = "idle" /\ hd'[w] = EmptyLog /\ unmarked'[w] = {} /\ adopted'[w] = NoRow
      /\ at'[w] = 0
  BY <1>t DEF ControlT, DataT, Quit, Goto
<1>2. LeaseOf(w)' /\ OrderOf(w)' /\ MarksOf(w)' /\ DrainOf(w)'
  BY <1>1 DEF LeaseOf, OrderOf, MarksOf, DrainOf, Retaining, Writing
<1>3. HeadOf(w)'
  BY <1>1, NothingWritten, EmptyLogType DEF HeadOf, Writing
<1> QED BY <1>2, <1>3 DEF Each

LEMMA ReturnEach ==
    ASSUME Basic, Basic', NEW w \in Writer, Return(w), Each(w), hist' = hist, leased' = leased,
           pc[w] # "idle", \A i \in 1 .. at[w] : InHist(hist, Feed[i])
    PROVE  Each(w)'
<1>t. ControlT /\ DataT
  BY DEF Basic, Local
<1>1. /\ pc'[w] \in {"idle", "pass"} /\ hd'[w] = EmptyLog /\ unmarked'[w] = {}
      /\ adopted'[w] = NoRow /\ at'[w] = at[w]
  BY <1>t DEF ControlT, DataT, Return, Goto
<1>2. LeaseOf(w)' /\ OrderOf(w)' /\ MarksOf(w)' /\ DrainOf(w)'
  BY <1>1 DEF Each, LeaseOf, OrderOf, MarksOf, DrainOf, Retaining, Writing
<1>3. HeadOf(w)'
  BY <1>1, NothingWritten, EmptyLogType DEF HeadOf, Writing
<1> QED BY <1>2, <1>3 DEF Each

LEMMA ErrorEach ==
    ASSUME Basic, Basic', NEW w \in Writer, WriteError(w), Each(w), Grows(hist, hist'),
           leased' = leased, head' = head, floor' = floor, pc[w] \in Writing
    PROVE  Each(w)'
<1>t. ControlT /\ DataT
  BY DEF Basic, Local
<1>g. /\ \A s : WrittenTo(hist, s) => WrittenTo(hist', s)
      /\ \A b : InHist(hist, b) => InHist(hist', b)
  BY GrowFacts
<1>1. CASE Quit(w)
  BY <1>1, QuitEach
<1>2. CASE Rescue(w)
  <2>1. /\ pc'[w] = "commit" /\ kind'[w] = "failing" /\ hd'[w] = hd[w] /\ adopted'[w] = NoRow
        /\ unmarked'[w] = unmarked[w]
    BY <1>t, <1>2 DEF ControlT, DataT, Rescue, Goto
  <2>2. LeaseOf(w)'
    BY <2>1 DEF Each, LeaseOf, Retaining, Writing
  <2>3. HeadOf(w)' /\ OrderOf(w)'
    BY <1>g, <2>1 DEF Each, HeadOf, OrderOf, Writing
  <2>4. MarksOf(w)'
    BY <1>g, <2>1 DEF Each, MarksOf
  <2>5. DrainOf(w)'
    BY <2>1 DEF DrainOf
  <2> QED BY <2>2, <2>3, <2>4, <2>5 DEF Each
<1> QED BY <1>1, <1>2 DEF WriteError

LEMMA WrittenEach ==
    ASSUME Basic, Basic', NEW w \in Writer, NEW h \in HeadRecord, Written(w, h), Each(w),
           Grows(hist, hist'), leased' = leased, head' = head, floor' = floor,
           pc[w] \in {"row", "adopt_mark"},
           WrittenTo(hist', h.seq), Timely => head.seq <= h.seq, h.seq + 1 <= h.bytes + floor,
           InHist(hist', Head(todo[w]))
    PROVE  Each(w)'
<1>t. ControlT /\ DataT
  BY DEF Basic, Local
<1>g. /\ \A s : WrittenTo(hist, s) => WrittenTo(hist', s)
      /\ \A b : InHist(hist, b) => InHist(hist', b)
  BY GrowFacts
<1>0. todo[w] \in Seq(Body) /\ todo[w] # <<>> /\ kind[w] # "failing"
  BY DEF Basic, Local, DataT, Drains
<1>1. /\ pc'[w] \in {"put_head", "commit", "check"} /\ hd'[w] = h
      /\ todo'[w] = Tail(todo[w]) /\ adopted'[w] = NoRow /\ at'[w] = at[w]
      /\ unmarked'[w] = unmarked[w] \cup ({Head(todo[w])} \cap Event)
  BY <1>t DEF ControlT, DataT, Written, Goto
<1>2. LeaseOf(w)'
  BY <1>1 DEF Each, LeaseOf, Retaining
<1>3. HeadOf(w)' /\ OrderOf(w)'
  BY <1>1 DEF HeadOf, OrderOf, Writing
<1>4. MarksOf(w)'
  BY <1>g, <1>1 DEF Each, MarksOf
<1>5. DrainOf(w)'
  <2>1. \A j \in 1 .. Len(todo[w]) :
          \/ todo[w][j] = Head(todo[w])
          \/ \E i \in 1 .. Len(Tail(todo[w])) : Tail(todo[w])[i] = todo[w][j]
    BY <1>0, TailFacts
  <2>2. \A i \in 1 .. at[w] :
          InHist(hist, Feed[i]) \/ \E j \in 1 .. Len(todo[w]) : todo[w][j] = Feed[i]
    BY <1>0 DEF Each, DrainOf, Retaining
  <2>3. ASSUME NEW i \in 1 .. at[w]
        PROVE  \/ InHist(hist', Feed[i])
               \/ \E j \in 1 .. Len(Tail(todo[w])) : Tail(todo[w])[j] = Feed[i]
    BY <1>g, <2>1, <2>2
  <2> QED BY <1>1, <2>3 DEF DrainOf
<1> QED BY <1>2, <1>3, <1>4, <1>5 DEF Each

\* The slot after the head in memory is not below the floor, so it is free only
\* if it never had a row.
LEMMA SlotFacts ==
    ASSUME Orderly, Inv, NEW w \in Writer, pc[w] \in Writing
    PROVE  /\ floor <= hd[w].seq + 1
           /\ hd[w].seq + 1 \in SeqNo /\ row[hd[w].seq + 1] = NoRow => hist[hd[w].seq + 1] = NoRow
<1>t. hd[w].seq \in Nat /\ head.seq \in Nat /\ floor \in Nat
  BY DEF Inv, Basic, SharedT, Local, DataT, HeadRecord
<1>1. floor <= hd[w].seq + 1
  <2>1. CASE Timely
    BY <1>t, <2>1 DEF Inv, Each, OrderOf, Log, Retained
  <2>2. CASE ~Evicts
    BY <1>t, <2>2 DEF Inv, Log, Retained
  <2> QED BY <2>1, <2>2 DEF Orderly
<1> QED BY <1>t, <1>1 DEF Inv, Log, Stored

\* A write: the history grows by the body, in the slot after the head in memory.
LEMMA WriteRowGrows ==
    ASSUME Orderly, Inv, NEW w \in Writer, WriteRow(w)
    PROVE  /\ Grows(hist, hist')
           /\ \/ UNCHANGED <<row, hist>>
              \/ /\ hd[w].seq + 1 \in SeqNo /\ Head(todo[w]) \in Body
                 /\ hist[hd[w].seq + 1] = NoRow
                 /\ row' = [row EXCEPT ![hd[w].seq + 1] = Head(todo[w])]
                 /\ hist' = [hist EXCEPT ![hd[w].seq + 1] = Head(todo[w])]
<1>t. /\ hd[w].seq \in Nat /\ todo[w] \in Seq(Body)
      /\ hist \in [SeqNo -> Body \cup {NoRow}]
  BY DEF Inv, Basic, SharedT, Local, DataT, HeadRecord
<1>1. pc[w] = "row" /\ pc[w] \in Writing /\ hd[w].seq < MaxSeq
  BY DEF WriteRow, Writing
<1>2. hd[w].seq + 1 \in SeqNo
  BY <1>t, <1>1, EventLogAssumption DEF SeqNo
<1>3. Head(todo[w]) \in Body
  <2>1. todo[w] # <<>>
    BY <1>1 DEF Inv, Basic, Local, Drains
  <2> QED BY <1>t, <2>1, TailFacts
<1> QED BY <1>t, <1>1, <1>2, <1>3, WriteRowFacts, SlotFacts DEF Grows

LEMMA FloorFacts ==
    ASSUME Orderly, Inv, NEW w \in Writer, PutFloor(w)
    PROVE  /\ Timely /\ floor' = end[w] /\ floor < end[w] /\ end[w] <= head.seq + 1
           /\ UNCHANGED <<row, hist, head, marker, drained, leased>>
<1>1. Timely
  BY DEF PutFloor, Inv, Each, LeaseOf, Orderly, Retaining
<1> QED BY <1>1 DEF PutFloor, Inv, Each, OrderOf, leases

\* What a step of a writer does to the history, the floor and the leases.
LEMMA StepShared ==
    ASSUME Orderly, Inv, NEW w \in Writer, Step(w) \/ Abort(w)
    PROVE  Grows(hist, hist') /\ floor <= floor' /\ leased' = leased /\ (Timely => leased = w)
<1>t. floor \in Nat /\ head.seq \in Nat /\ end[w] \in Nat
  BY DEF Inv, Basic, SharedT, Local, DataT, HeadRecord
<1>1. Timely => leased = w
  <2>1. pc[w] # "idle" \/ leased = w
    BY Zenon DEF Step, Abort, StartAppend, StartDrain, Segment, PutDrained,
       Dedup, ReadHead, Check, WriteRow, Adopt, MarkAdopted, Commit, PutHead, Mark, Marked, StartRetain,
       PutFloor, PutBytes, Evict
  <2> QED BY <2>1 DEF Inv, Each, LeaseOf
<1>2. leased' = leased
  BY Zenon DEF Step, Abort, StartAppend, StartDrain, Segment, PutDrained,
     Dedup, ReadHead, Check, WriteRow, Adopt, MarkAdopted, Commit, PutHead, Mark, Marked, StartRetain,
     PutFloor, PutBytes, Evict, leases
<1>3. CASE WriteRow(w)
  BY <1>t, <1>1, <1>2, <1>3, WriteRowGrows, WriteRowFacts
<1>4. CASE PutFloor(w)
  <2>1. floor' = end[w] /\ floor < end[w] /\ hist' = hist
    BY <1>4, FloorFacts
  <2> QED BY <1>t, <1>1, <1>2, <2>1 DEF Grows
<1>5. CASE Quiet(w)
  BY <1>t, <1>1, <1>2, <1>5, QuietStored DEF stored, Grows
<1>6. CASE \/ PutDrained(w) \/ MarkAdopted(w) \/ PutHead(w) \/ PutBytes(w) \/ Evict(w)
           \/ \E e \in unmarked[w] : Mark(w, e)
  <2>1. hist' = hist /\ floor' = floor
    BY <1>6, Zenon DEF PutDrained, MarkAdopted, PutHead, PutBytes, Evict, Mark
  <2> QED BY <1>t, <1>1, <1>2, <2>1 DEF Grows
<1> QED BY <1>3, <1>4, <1>5, <1>6 DEF Step, Quiet

LEMMA LogStep ==
    ASSUME Orderly, Inv, Basic', NEW w \in Writer, Step(w) \/ Abort(w)
    PROVE  Log'
<1>t. /\ hd[w] \in HeadRecord /\ head \in HeadRecord /\ floor \in Nat
      /\ row \in [SeqNo -> Body \cup {NoRow}] /\ hist \in [SeqNo -> Body \cup {NoRow}]
      /\ at[w] \in Nat /\ end[w] \in Nat
      /\ hd[w].seq \in Nat /\ head.seq \in Nat /\ hd[w].bytes \in Nat /\ head.bytes \in Nat
  BY DEF Inv, Basic, SharedT, Local, DataT, HeadRecord
<1>i. Log /\ Each(w) /\ Drains(w)
  BY DEF Inv, Basic, Local
<1>g. Grows(hist, hist')
  BY StepShared
<1>h. /\ \A s : WrittenTo(hist, s) => WrittenTo(hist', s)
      /\ \A b : InHist(hist, b) => InHist(hist', b)
  BY <1>g, GrowFacts
<1>1. CASE Quiet(w)
  BY <1>i, <1>1, QuietStored DEF stored, Log, History, Stored, Retained, Accounted
<1>2. CASE WriteRow(w)
  <2>1. UNCHANGED <<head, floor, marker, drained>>
    BY <1>2, WriteRowFacts
  <2>2. CASE UNCHANGED <<row, hist>>
    BY <1>i, <2>1, <2>2 DEF Log, History, Stored, Retained, Accounted
  <2>3. CASE /\ hd[w].seq + 1 \in SeqNo /\ Head(todo[w]) \in Body
             /\ hist[hd[w].seq + 1] = NoRow
             /\ row' = [row EXCEPT ![hd[w].seq + 1] = Head(todo[w])]
             /\ hist' = [hist EXCEPT ![hd[w].seq + 1] = Head(todo[w])]
    <3>1. History'
      <4>1. WrittenTo(hist', hd[w].seq)
        BY <1>i, <1>h DEF Each, HeadOf
      <4>2. Head(todo[w]) # NoRow
        BY <2>3, EventLogAssumption DEF Body
      <4>3. WrittenTo(hist', hd[w].seq + 1)
        <5>1. \A x \in SeqNo : x \in Nat
          BY DEF SeqNo
        <5>2. hist'[hd[w].seq + 1] # NoRow /\ hd[w].seq + 1 <= MaxSeq
          BY <1>t, <2>3, <4>2, EventLogAssumption DEF SeqNo
        <5> QED BY <1>t, <4>1, <5>1, <5>2 DEF WrittenTo
      <4>4. \A s \in SeqNo : hist'[s] # NoRow => WrittenTo(hist', s)
        <5>1. ASSUME NEW s \in SeqNo, hist'[s] # NoRow, s # hd[w].seq + 1
              PROVE  WrittenTo(hist', s)
          <6>1. hist[s] # NoRow
            BY <1>t, <2>3, <5>1
          <6> QED BY <1>i, <1>h, <6>1 DEF Log, History
        <5> QED BY <4>3, <5>1
      <4> QED BY <1>i, <1>h, <2>1, <4>4 DEF Log, History
    <3>2. Stored'
      BY <1>t, <1>i, <2>1, <2>3 DEF Log, Stored
    <3>3. Retained' /\ Accounted'
      BY <1>i, <1>h, <2>1 DEF Log, Retained, Accounted
    <3> QED BY <3>1, <3>2, <3>3 DEF Log
  <2> QED BY <1>2, <2>2, <2>3, WriteRowGrows
<1>3. CASE PutFloor(w)
  <2>1. /\ Timely /\ floor' = end[w] /\ floor < end[w] /\ end[w] <= head.seq + 1
        /\ UNCHANGED <<row, hist, head, marker, drained>>
    BY <1>3, FloorFacts
  <2>2. Evicts
    BY <1>i, <1>3 DEF PutFloor, Each, LeaseOf, Retaining
  <2>3. History' /\ Accounted'
    BY <1>i, <2>1 DEF Log, History, Accounted
  <2>4. Stored'
    <3>1. \A x \in SeqNo : x \in Nat
      BY DEF SeqNo
    <3> QED BY <1>t, <1>i, <2>1, <3>1 DEF Log, Stored
  <2>5. Retained'
    BY <1>t, <1>i, <2>1, <2>2 DEF Log, Retained
  <2> QED BY <2>3, <2>4, <2>5 DEF Log
<1>4. CASE PutHead(w)
  <2>1. head' = hd[w] /\ UNCHANGED <<row, hist, floor, marker, drained>> /\ pc[w] \in Writing
    BY <1>4 DEF PutHead, Writing
  <2>2. floor <= hd[w].seq + 1
    BY <2>1, SlotFacts
  <2>3. WrittenTo(hist, hd[w].seq) /\ hd[w].seq + 1 <= hd[w].bytes + floor
    BY <1>i, <2>1 DEF Each, HeadOf
  <2> QED BY <1>t, <1>i, <2>1, <2>2, <2>3 DEF Log, History, Stored, Retained, Accounted
<1>5. CASE PutBytes(w)
  <2>1. head' = hd[w] /\ UNCHANGED <<row, hist, floor, marker, drained>> /\ pc[w] = "put_bytes"
    BY <1>5 DEF PutBytes
  <2>2. hd[w].seq = head.seq /\ hd[w].seq + 1 <= hd[w].bytes + floor
    BY <1>i, <2>1 DEF Each, LeaseOf, HeadOf, OrderOf, Retaining, Orderly
  <2> QED BY <1>t, <1>i, <2>1, <2>2 DEF Log, History, Stored, Retained, Accounted
<1>6. CASE PutDrained(w)
  <2>1. drained' = end[w] /\ UNCHANGED <<row, hist, floor, head, marker>> /\ pc[w] = "pass"
        /\ at[w] = end[w]
    BY <1>6 DEF PutDrained
  <2>2. todo[w] = <<>> /\ kind[w] # "failing"
    BY <1>i, <2>1 DEF Drains
  <2>3. \A i \in 1 .. at[w] : InHist(hist, Feed[i])
    BY <1>i, <2>1, <2>2 DEF Each, DrainOf, Retaining
  <2> QED BY <1>i, <2>1, <2>3 DEF Log, History, Stored, Retained, Accounted
<1>7. CASE MarkAdopted(w)
  <2>1. /\ UNCHANGED <<row, hist, floor, head, drained>> /\ pc[w] = "adopt_mark"
        /\ marker' \subseteq marker \cup {adopted[w]}
    BY <1>7 DEF MarkAdopted
  <2>2. InHist(hist, adopted[w])
    <3>1. adopted[w] # NoRow
      BY <1>i, <2>1, EventLogAssumption DEF Drains
    <3> QED BY <1>i, <3>1 DEF Each, MarksOf
  <2> QED BY <1>i, <2>1, <2>2 DEF Log, History, Stored, Retained, Accounted
<1>8. ASSUME NEW e \in unmarked[w], Mark(w, e) PROVE Log'
  <2>1. UNCHANGED <<row, hist, floor, head, drained>> /\ marker' = marker \cup {e}
    BY <1>8 DEF Mark
  <2>2. InHist(hist, e)
    BY <1>i DEF Each, MarksOf
  <2> QED BY <1>i, <2>1, <2>2 DEF Log, History, Stored, Retained, Accounted
<1>9. CASE Evict(w)
  <2>1. /\ UNCHANGED <<hist, floor, head, drained, marker>> /\ pc[w] = "evict"
        /\ row' = row \/ (at[w] # end[w] /\ row' = [row EXCEPT ![at[w]] = NoRow])
    BY <1>9 DEF Evict
  <2>2. at[w] <= end[w] /\ end[w] = floor
    BY <1>i, <2>1 DEF Each, LeaseOf, OrderOf, Retaining, Orderly
  <2>3. Stored'
    BY <1>t, <1>i, <2>1, <2>2 DEF Log, Stored
  <2> QED BY <1>i, <2>1, <2>3 DEF Log, History, Retained, Accounted
<1> QED BY <1>1, <1>2, <1>3, <1>4, <1>5, <1>6, <1>7, <1>8, <1>9 DEF Step, Quiet

\* A step that only moves on, outside retention, with the same head in memory.
LEMMA OnwardEach ==
    ASSUME Basic, NEW w \in Writer, NEW place, Goto(w, place), Each(w),
           UNCHANGED <<hist, head, floor, leased, kind, hd, todo, adopted, unmarked, at, end>>,
           pc[w] \in Writing, place \in Writing \ {"adopt"}
    PROVE  Each(w)'
<1>1. pc'[w] = place
  BY DEF Basic, Local, ControlT, Goto
<1>2. LeaseOf(w)'
  BY <1>1 DEF Each, LeaseOf, Retaining, Writing
<1>3. HeadOf(w)' /\ OrderOf(w)'
  BY <1>1 DEF Each, HeadOf, OrderOf, Writing
<1>4. MarksOf(w)' /\ DrainOf(w)'
  BY <1>1 DEF Each, MarksOf, DrainOf, Retaining, Writing
<1> QED BY <1>2, <1>3, <1>4 DEF Each

\* Nothing of the pass is left to be written.
LEMMA PassedAll ==
    ASSUME Inv, NEW w \in Writer, pc[w] \notin Retaining, kind[w] # "failing", todo[w] = <<>>
    PROVE  \A i \in 1 .. at[w] : InHist(hist, Feed[i])
BY DEF Inv, Each, DrainOf

\* The steps before the head is read.
LEMMA EarlyEach ==
    ASSUME Orderly, Inv, Basic', NEW w \in Writer,
           \/ \E b \in Direct : StartAppend(w, b)
           \/ StartDrain(w) \/ Segment(w) \/ Dedup(w)
    PROVE  Each(w)'
<1>t. ControlT /\ DataT /\ drained \in Nat
  BY FeedType DEF Inv, Basic, SharedT, Local
<1>i. Log /\ Each(w) /\ Drains(w)
  BY DEF Inv, Basic, Local
<1>1. UNCHANGED stored /\ leased' = leased
  <2>1. Quiet(w)
    BY DEF Quiet
  <2>2. Step(w)
    BY DEF Step
  <2> QED BY <2>1, <2>2, QuietStored, StepShared
<1>2. UNCHANGED <<hist, head, floor>>
  BY <1>1 DEF stored
<1>3. ASSUME NEW p \in {"pass", "dedup", "head"}, pc'[w] = p, pc[w] # "idle" \/ leased = w,
             UNCHANGED <<hd, adopted, unmarked>>
      PROVE  LeaseOf(w)' /\ HeadOf(w)' /\ OrderOf(w)' /\ MarksOf(w)'
  <2>1. LeaseOf(w)'
    BY <1>i, <1>1, <1>3 DEF Each, LeaseOf, Retaining
  <2>2. HeadOf(w)' /\ OrderOf(w)'
    BY <1>i, <1>2, <1>3 DEF Each, HeadOf, OrderOf, Writing
  <2>3. MarksOf(w)'
    BY <1>i, <1>2, <1>3 DEF Each, MarksOf
  <2> QED BY <2>1, <2>2, <2>3
<1>4. ASSUME NEW b \in Direct, StartAppend(w, b) PROVE Each(w)'
  <2>1. /\ pc'[w] \in {"dedup", "head"} /\ pc[w] = "idle" /\ leased = w
        /\ UNCHANGED <<hd, adopted, unmarked, at>>
    BY <1>t, <1>4 DEF StartAppend, ControlT, Goto
  <2>2. at[w] = 0
    BY <1>i, <2>1 DEF Drains
  <2>3. DrainOf(w)'
    BY <2>1, <2>2 DEF DrainOf
  <2> QED BY <1>3, <2>1, <2>3 DEF Each
<1>5. CASE StartDrain(w)
  <2>1. /\ pc'[w] = "pass" /\ leased = w /\ at'[w] = drained
        /\ UNCHANGED <<hd, adopted, unmarked>>
    BY <1>t, <1>5 DEF StartDrain, ControlT, DataT, Goto
  <2>2. DrainOf(w)'
    BY <1>i, <1>2, <2>1 DEF DrainOf, Log, Accounted
  <2> QED BY <1>3, <2>1, <2>2 DEF Each
<1>6. CASE Segment(w)
  <2>0. pc[w] = "pass" /\ at[w] < end[w] /\ UNCHANGED <<hd, adopted, unmarked>>
    BY <1>6 DEF Segment
  <2>1. todo[w] = <<>> /\ kind[w] # "failing" /\ end[w] <= Len(Feed)
    BY <1>i, <2>0 DEF Drains, Retaining
  <2>2. \A i \in 1 .. at[w] : InHist(hist, Feed[i])
    BY <2>0, <2>1, PassedAll DEF Retaining
  <2>3. at[w] \in Nat /\ end[w] \in Nat /\ Len(Feed) \in Nat /\ Feed \in Seq(Body)
    BY <1>t, FeedType, EventLogAssumption DEF DataT
  <2>4. CASE /\ todo' = [todo EXCEPT ![w] = <<Feed[at[w] + 1]>>]
             /\ at' = [at EXCEPT ![w] = @ + 1]
             /\ Goto(w, "head")
    <3>1. pc'[w] = "head" /\ at'[w] = at[w] + 1 /\ todo'[w] = <<Feed[at[w] + 1]>>
      BY <1>t, <2>4 DEF ControlT, DataT, Goto
    <3>2. Len(todo'[w]) = 1 /\ todo'[w][1] = Feed[at[w] + 1]
      BY <3>1
    <3>3. ASSUME NEW i \in 1 .. at[w] + 1
          PROVE  InHist(hist, Feed[i]) \/ \E j \in 1 .. Len(todo'[w]) : todo'[w][j] = Feed[i]
      <4>1. CASE i <= at[w]
        BY <2>2, <2>3, <4>1
      <4>2. CASE i = at[w] + 1
        BY <3>2, <4>2
      <4> QED BY <2>3, <4>1, <4>2
    <3>4. DrainOf(w)'
      BY <1>2, <3>1, <3>3 DEF DrainOf
    <3> QED BY <1>3, <2>0, <3>1, <3>4 DEF Each
  <2>5. ASSUME NEW k \in (at[w] + 1) .. end[w],
               todo' = [todo EXCEPT ![w] = SubSeq(Feed, at[w] + 1, k)],
               at' = [at EXCEPT ![w] = k],
               Goto(w, "dedup")
        PROVE  Each(w)'
    <3>0. k \in Nat /\ at[w] + 1 <= k /\ k <= end[w]
      BY <2>3
    <3>1. pc'[w] = "dedup" /\ at'[w] = k /\ todo'[w] = SubSeq(Feed, at[w] + 1, k)
      BY <1>t, <2>5 DEF ControlT, DataT, Goto
    <3>2. /\ Len(todo'[w]) = k - at[w]
          /\ \A j \in 1 .. k - at[w] : todo'[w][j] = Feed[at[w] + j]
      <4> DEFINE m == at[w] + 1
      <4>1. m \in Int /\ k \in Int /\ m <= k /\ k - m + 1 = k - at[w]
        BY <2>3, <3>0
      <4>2. \A i \in m .. k : Feed[i] \in Body
        <5>1. \A i \in m .. k : i \in 1 .. Len(Feed)
          BY <2>1, <2>3, <3>0
        <5> QED BY <5>1, FeedType
      <4>3. \A j \in 1 .. k - at[w] : m + j - 1 = at[w] + j
        BY <2>3, <3>0
      <4> HIDE DEF m
      <4>4. /\ Len(SubSeq(Feed, m, k)) = k - m + 1
            /\ \A j \in 1 .. k - m + 1 : SubSeq(Feed, m, k)[j] = Feed[m + j - 1]
        BY <4>1, <4>2, SubSeqProperties
      <4>5. /\ Len(SubSeq(Feed, m, k)) = k - at[w]
            /\ \A j \in 1 .. k - at[w] : SubSeq(Feed, m, k)[j] = Feed[at[w] + j]
        BY <4>1, <4>3, <4>4
      <4> QED BY <3>1, <4>5 DEF m
    <3>3. ASSUME NEW i \in 1 .. k
          PROVE  InHist(hist, Feed[i]) \/ \E j \in 1 .. Len(todo'[w]) : todo'[w][j] = Feed[i]
      <4>1. CASE i <= at[w]
        BY <2>2, <2>3, <4>1
      <4>2. CASE i > at[w]
        <5>1. i - at[w] \in 1 .. k - at[w] /\ at[w] + (i - at[w]) = i
          BY <2>3, <3>0, <4>2
        <5> QED BY <3>2, <5>1
      <4> QED BY <2>3, <3>0, <4>1, <4>2
    <3>4. DrainOf(w)'
      BY <1>2, <3>1, <3>3 DEF DrainOf
    <3> QED BY <1>3, <2>0, <3>1, <3>4 DEF Each
  <2> QED BY <1>6, <2>4, <2>5 DEF Segment
<1>7. CASE Dedup(w)
  <2>0. pc[w] = "dedup" /\ kind[w] # "failing" /\ todo[w] \in Seq(Body)
    BY <1>t, <1>i, <1>7 DEF Dedup, Drains, DataT
  <2>1. ASSUME NEW i \in 1 .. at[w]
        PROVE  \/ InHist(hist, Feed[i])
               \/ \E j \in 1 .. Len(Unseen(todo[w])) : Unseen(todo[w])[j] = Feed[i]
    <3>1. InHist(hist, Feed[i]) \/ \E j \in 1 .. Len(todo[w]) : todo[w][j] = Feed[i]
      BY <1>i, <2>0 DEF Each, DrainOf, Retaining
    <3>2. \A j \in 1 .. Len(todo[w]) :
            \/ todo[w][j] \in marker
            \/ \E l \in 1 .. Len(Unseen(todo[w])) : Unseen(todo[w])[l] = todo[w][j]
      BY <2>0, UnseenFacts
    <3>3. \A e \in marker : InHist(hist, e)
      BY <1>i DEF Log, Accounted
    <3> QED BY <3>1, <3>2, <3>3
  <2>2. CASE Unseen(todo[w]) = <<>> /\ Return(w)
    <3>1. \A i \in 1 .. at[w] : InHist(hist, Feed[i])
      BY <2>1, <2>2
    <3>2. Basic /\ pc[w] # "idle"
      BY <2>0 DEF Inv
    <3> QED BY <1>i, <1>1, <1>2, <2>2, <3>1, <3>2, ReturnEach
  <2>3. CASE /\ todo' = [todo EXCEPT ![w] = Unseen(todo[w])]
             /\ Goto(w, "head")
             /\ UNCHANGED <<kind, lease, hd, adopted, unmarked, wrote, at, end>>
    <3>1. pc'[w] = "head" /\ todo'[w] = Unseen(todo[w])
      BY <1>t, <2>3 DEF ControlT, DataT, Goto
    <3>2. DrainOf(w)'
      BY <1>2, <2>1, <2>3, <3>1 DEF DrainOf
    <3> QED BY <1>3, <2>0, <2>3, <3>1, <3>2 DEF Each
  <2> QED BY <1>7, <2>2, <2>3 DEF Dedup
<1> QED BY <1>4, <1>5, <1>6, <1>7

\* The steps from the read of the head to the markers.
LEMMA AppendEach ==
    ASSUME Orderly, Inv, Basic', NEW w \in Writer,
           \/ ReadHead(w) \/ Check(w) \/ WriteRow(w) \/ Adopt(w) \/ MarkAdopted(w) \/ Commit(w)
           \/ PutHead(w) \/ (\E e \in unmarked[w] : Mark(w, e)) \/ Marked(w)
    PROVE  Each(w)'
<1>t. /\ hd[w] \in HeadRecord /\ head \in HeadRecord /\ floor \in Nat
      /\ row \in [SeqNo -> Body \cup {NoRow}] /\ hist \in [SeqNo -> Body \cup {NoRow}]
      /\ at[w] \in Nat /\ end[w] \in Nat /\ lease[w] \in Nat
      /\ hd[w].seq \in Nat /\ head.seq \in Nat /\ hd[w].bytes \in Nat /\ head.bytes \in Nat
      /\ hd[w].gap \in Nat
      /\ ControlT /\ DataT
  <2>1. SharedT /\ ControlT /\ DataT
    BY DEF Inv, Basic, Local
  <2>2. hd[w] \in HeadRecord /\ head \in HeadRecord
    BY <2>1 DEF SharedT, DataT
  <2>3. hd[w].seq \in Nat /\ head.seq \in Nat /\ hd[w].bytes \in Nat /\ head.bytes \in Nat
        /\ hd[w].gap \in Nat
    BY <2>2 DEF HeadRecord
  <2>4. lease[w] \in Nat /\ at[w] \in Nat /\ end[w] \in Nat
    BY <2>1 DEF DataT
  <2> QED BY <2>1, <2>2, <2>3, <2>4 DEF SharedT
<1>i. Basic /\ Log /\ Each(w) /\ Drains(w)
  BY DEF Inv, Basic, Local
<1>s. Grows(hist, hist') /\ leased' = leased
  <2>1. Step(w)
    BY DEF Step
  <2> QED BY <2>1, StepShared
<1>g. /\ \A s : WrittenTo(hist, s) => WrittenTo(hist', s)
      /\ \A b : InHist(hist, b) => InHist(hist', b)
  BY <1>s, GrowFacts
<1>n. \A x \in SeqNo : x \in Nat
  BY DEF SeqNo
<1>1. CASE ReadHead(w)
  <2>0. pc[w] = "head" /\ UNCHANGED <<hist, head, floor>>
    BY <1>1 DEF ReadHead, stored
  <2>1. CASE Quit(w)
    BY <1>i, <2>1, QuitEach
  <2>2. CASE todo[w] = <<>> /\ Return(w)
    <3>1. pc[w] \notin Retaining /\ kind[w] # "failing" /\ pc[w] # "idle"
      BY <1>i, <2>0 DEF Drains, Retaining
    <3>2. \A i \in 1 .. at[w] : InHist(hist, Feed[i])
      BY <2>2, <3>1, PassedAll
    <3> QED BY <1>i, <1>s, <2>0, <2>2, <3>1, <3>2, ReturnEach
  <2>3. CASE /\ hd' = [hd EXCEPT ![w] = head]
             /\ Goto(w, IF kind[w] = "many" THEN "check" ELSE "row")
             /\ UNCHANGED <<kind, lease, todo, adopted, unmarked, wrote, at, end>>
    <3>1. pc'[w] \in {"check", "row"} /\ hd'[w] = head
      BY <1>t, <2>3 DEF ControlT, DataT, Goto
    <3>2. LeaseOf(w)'
      BY <1>i, <1>s, <2>0, <3>1 DEF Each, LeaseOf, Retaining
    <3>3. HeadOf(w)' /\ OrderOf(w)'
      BY <1>t, <1>i, <2>0, <3>1 DEF Log, History, Retained, HeadOf, OrderOf, Writing
    <3>4. MarksOf(w)' /\ DrainOf(w)'
      BY <1>i, <2>0, <2>3 DEF Each, MarksOf, DrainOf, Retaining
    <3> QED BY <3>2, <3>3, <3>4 DEF Each
  <2> QED BY <1>1, <2>1, <2>2, <2>3 DEF ReadHead
<1>2. CASE Check(w)
  <2>0. pc[w] \in Writing /\ UNCHANGED <<hist, head, floor>>
    BY <1>2 DEF Check, stored, Writing
  <2>1. CASE WriteError(w)
    BY <1>i, <1>s, <2>0, <2>1, ErrorEach
  <2>2. CASE /\ Goto(w, "row")
             /\ UNCHANGED <<kind, lease, hd, todo, adopted, unmarked, wrote, at, end>>
    <3>1. "row" \in Writing \ {"adopt"}
      BY DEF Writing
    <3> QED BY <1>i, <1>s, <2>0, <2>2, <3>1, OnwardEach
  <2> QED BY <1>2, <2>1, <2>2 DEF Check
<1>3. CASE WriteRow(w)
  <2>0. pc[w] = "row" /\ pc[w] \in Writing /\ UNCHANGED <<head, floor>> /\ hd[w].seq < MaxSeq
    BY <1>3 DEF WriteRow, Writing
  <2>1. CASE WriteError(w)
    BY <1>i, <1>s, <2>0, <2>1, ErrorEach
  <2>s. hd[w].seq + 1 \in SeqNo
    BY <1>t, <2>0, EventLogAssumption DEF SeqNo
  <2>2. CASE /\ ~Free(hd[w].seq + 1)
             /\ Goto(w, "adopt")
             /\ UNCHANGED <<kind, lease, hd, todo, adopted, unmarked, wrote, at, end, row, hist>>
    <3>1. pc'[w] = "adopt"
      BY <1>t, <2>2 DEF ControlT, Goto
    <3>2. WrittenTo(hist, hd[w].seq + 1)
      BY <1>i, <2>s, <2>2 DEF Free, Log, History, Stored
    <3>3. LeaseOf(w)'
      BY <1>i, <1>s, <2>0, <3>1 DEF Each, LeaseOf, Retaining
    <3>4. HeadOf(w)' /\ OrderOf(w)'
      BY <1>i, <2>0, <2>2, <3>1, <3>2 DEF Each, HeadOf, OrderOf, Writing
    <3>5. MarksOf(w)' /\ DrainOf(w)'
      BY <1>i, <2>0, <2>2 DEF Each, MarksOf, DrainOf, Retaining
    <3> QED BY <3>3, <3>4, <3>5 DEF Each
  <2> DEFINE h == [seq |-> hd[w].seq + 1, fence |-> lease[w],
                   gap |-> IF Head(todo[w]) = Gap THEN hd[w].seq + 1 ELSE hd[w].gap,
                   bytes |-> hd[w].bytes + 1]
  <2>3. h \in HeadRecord /\ h.seq = hd[w].seq + 1 /\ h.bytes = hd[w].bytes + 1
    BY <1>t DEF HeadRecord
  <2> HIDE DEF h
  <2>4. CASE /\ Free(hd[w].seq + 1)
             /\ hist' = [hist EXCEPT ![hd[w].seq + 1] = IF @ = NoRow THEN Head(todo[w]) ELSE @]
             /\ Written(w, h)
    <3>1. hist[hd[w].seq + 1] = NoRow
      BY <2>0, <2>s, <2>4, SlotFacts DEF Free
    <3>2. Head(todo[w]) \in Body /\ Head(todo[w]) # NoRow
      <4>1. todo[w] \in Seq(Body) /\ todo[w] # <<>>
        BY <1>t, <1>i, <2>0 DEF DataT, Drains
      <4>2. Head(todo[w]) \in Body
        BY <4>1, TailFacts
      <4> QED BY <4>2, EventLogAssumption DEF Body
    <3>3. hist'[hd[w].seq + 1] = Head(todo[w])
      BY <1>t, <2>s, <2>4, <3>1
    <3>4. InHist(hist', Head(todo[w]))
      BY <2>s, <3>2, <3>3 DEF InHist
    <3>5. WrittenTo(hist', h.seq)
      <4>1. WrittenTo(hist', hd[w].seq)
        BY <1>i, <1>g DEF Each, HeadOf
      <4>2. hd[w].seq + 1 <= MaxSeq
        BY <1>t, <2>0, EventLogAssumption
      <4> QED BY <1>t, <1>n, <2>3, <3>2, <3>3, <4>1, <4>2 DEF WrittenTo
    <3>6. (Timely => head.seq <= h.seq) /\ h.seq + 1 <= h.bytes + floor
      BY <1>t, <1>i, <2>0, <2>3 DEF Each, HeadOf, OrderOf
    <3> QED BY <1>i, <1>s, <2>0, <2>3, <2>4, <3>4, <3>5, <3>6, WrittenEach
  <2> QED BY <1>3, <2>1, <2>2, <2>4 DEF WriteRow, h
<1>4. CASE Adopt(w)
  <2>0. pc[w] = "adopt" /\ pc[w] \in Writing /\ UNCHANGED <<hist, head, floor>>
    BY <1>4 DEF Adopt, Writing, stored
  <2>1. CASE WriteError(w)
    BY <1>i, <1>s, <2>0, <2>1, ErrorEach
  <2> DEFINE found == row[hd[w].seq + 1]
  <2>2. CASE /\ hd' = [hd EXCEPT ![w] = Adopted(w)]
             /\ adopted' = [adopted EXCEPT ![w] = IF found \in Event THEN found ELSE NoRow]
             /\ Goto(w, IF found \in Event THEN "adopt_mark" ELSE "row")
             /\ UNCHANGED <<kind, lease, todo, unmarked, wrote, at, end>>
    <3>1. WrittenTo(hist, hd[w].seq + 1)
      BY <1>i, <2>0 DEF Each, HeadOf
    <3>2. hd[w].seq + 1 \in SeqNo /\ hist[hd[w].seq + 1] # NoRow
      <4>1. hd[w].seq + 1 \in SeqNo
        BY <1>t, <3>1, EventLogAssumption DEF WrittenTo, SeqNo
      <4> QED BY <1>n, <3>1, <4>1 DEF WrittenTo
    <3>3. found # NoRow
      BY <2>0, <3>2, SlotFacts
    <3>4. found = hist[hd[w].seq + 1]
      BY <1>i, <3>2, <3>3 DEF Log, Stored
    <3>5. InHist(hist, found)
      BY <3>2, <3>3, <3>4 DEF InHist
    <3>6. \/ head.seq > hd[w].seq /\ Adopted(w) = head
          \/ /\ ~(head.seq > hd[w].seq)
             /\ Adopted(w).seq = hd[w].seq + 1 /\ Adopted(w).bytes = hd[w].bytes + 1
      <4>1. Adopted(w) = IF head.seq > hd[w].seq THEN head
                         ELSE [hd[w] EXCEPT !.seq = hd[w].seq + 1, !.bytes = hd[w].bytes + 1]
        BY <3>3 DEF Adopted
      <4> QED BY <1>t, <4>1 DEF HeadRecord
    <3>7. /\ WrittenTo(hist, Adopted(w).seq)
          /\ Adopted(w).seq + 1 <= Adopted(w).bytes + floor
          /\ head.seq <= Adopted(w).seq
      <4>1. CASE Adopted(w) = head
        BY <1>t, <1>i, <4>1 DEF Log, History, Retained
      <4>2. CASE /\ ~(head.seq > hd[w].seq)
                 /\ Adopted(w).seq = hd[w].seq + 1 /\ Adopted(w).bytes = hd[w].bytes + 1
        BY <1>t, <1>i, <2>0, <3>1, <4>2 DEF Each, HeadOf
      <4> QED BY <3>6, <4>1, <4>2
    <3>8. /\ hd'[w] = Adopted(w) /\ pc'[w] \in {"adopt_mark", "row"}
          /\ adopted'[w] \in {found, NoRow}
      BY <1>t, <2>2 DEF ControlT, DataT, Goto
    <3> HIDE DEF found
    <3>9. LeaseOf(w)'
      BY <1>i, <1>s, <2>0, <3>8 DEF Each, LeaseOf, Retaining
    <3>10. HeadOf(w)' /\ OrderOf(w)'
      BY <2>0, <3>7, <3>8 DEF HeadOf, OrderOf, Writing
    <3>11. MarksOf(w)' /\ DrainOf(w)'
      BY <1>i, <2>0, <2>2, <3>5, <3>8 DEF Each, MarksOf, DrainOf, Retaining
    <3> QED BY <3>9, <3>10, <3>11 DEF Each
  <2> QED BY <1>4, <2>1, <2>2 DEF Adopt
<1>5. CASE MarkAdopted(w)
  <2>0. pc[w] = "adopt_mark" /\ pc[w] \in Writing /\ UNCHANGED <<hist, head, floor>>
    BY <1>5 DEF MarkAdopted, Writing
  <2>1. CASE WriteError(w)
    BY <1>i, <1>s, <2>0, <2>1, ErrorEach
  <2> DEFINE h == [hd[w] EXCEPT !.fence = lease[w]]
  <2>2. CASE adopted[w] = Head(todo[w]) /\ Written(w, h)
    <3>1. h \in HeadRecord /\ h.seq = hd[w].seq /\ h.bytes = hd[w].bytes
      BY <1>t DEF HeadRecord
    <3> HIDE DEF h
    <3>2. InHist(hist', Head(todo[w]))
      <4>1. adopted[w] # NoRow
        BY <1>i, <2>0, EventLogAssumption DEF Drains
      <4> QED BY <1>i, <1>g, <2>2, <4>1 DEF Each, MarksOf
    <3>3. WrittenTo(hist', h.seq) /\ (Timely => head.seq <= h.seq) /\ h.seq + 1 <= h.bytes + floor
      BY <1>i, <1>g, <2>0, <3>1 DEF Each, HeadOf, OrderOf
    <3> QED BY <1>i, <1>s, <2>0, <2>2, <3>1, <3>2, <3>3, WrittenEach
  <2>3. CASE /\ Goto(w, "row")
             /\ adopted' = [adopted EXCEPT ![w] = NoRow]
             /\ UNCHANGED <<kind, lease, hd, todo, unmarked, wrote, at, end>>
    <3>1. pc'[w] = "row" /\ adopted'[w] = NoRow
      BY <1>t, <2>3 DEF ControlT, DataT, Goto
    <3>2. LeaseOf(w)'
      BY <1>i, <1>s, <2>0, <3>1 DEF Each, LeaseOf, Retaining
    <3>3. HeadOf(w)' /\ OrderOf(w)'
      BY <1>i, <2>0, <2>3, <3>1 DEF Each, HeadOf, OrderOf, Writing
    <3>4. MarksOf(w)' /\ DrainOf(w)'
      BY <1>i, <2>0, <2>3, <3>1 DEF Each, MarksOf, DrainOf, Retaining
    <3> QED BY <3>2, <3>3, <3>4 DEF Each
  <2> QED BY <1>5, <2>1, <2>2, <2>3 DEF MarkAdopted
<1>6. CASE Commit(w)
  <2>0. pc[w] \in Writing /\ UNCHANGED <<hist, head, floor>>
    BY <1>6 DEF Commit, stored, Writing
  <2>1. CASE Quit(w)
    BY <1>i, <2>1, QuitEach
  <2>2. CASE /\ Goto(w, "put_head")
             /\ UNCHANGED <<kind, lease, hd, todo, adopted, unmarked, wrote, at, end>>
    <3>1. "put_head" \in Writing \ {"adopt"}
      BY DEF Writing
    <3> QED BY <1>i, <1>s, <2>0, <2>2, <3>1, OnwardEach
  <2> QED BY <1>6, <2>1, <2>2 DEF Commit
<1>7. CASE PutHead(w)
  <2>0. /\ pc[w] = "put_head" /\ UNCHANGED <<hist, floor>> /\ head' = hd[w]
        /\ UNCHANGED <<kind, lease, hd, todo, adopted, unmarked, wrote, at, end>>
    BY <1>7 DEF PutHead
  <2>1. pc'[w] = "mark"
    BY <1>t, <1>7 DEF PutHead, ControlT, Goto
  <2>2. LeaseOf(w)'
    BY <1>i, <1>s, <2>0, <2>1 DEF Each, LeaseOf, Retaining
  <2>3. HeadOf(w)' /\ OrderOf(w)'
    BY <1>t, <1>i, <2>0, <2>1 DEF Each, HeadOf, OrderOf, Writing
  <2>4. MarksOf(w)' /\ DrainOf(w)'
    BY <1>i, <2>0, <2>1 DEF Each, MarksOf, DrainOf, Retaining
  <2> QED BY <2>2, <2>3, <2>4 DEF Each
<1>8. ASSUME NEW e \in unmarked[w], Mark(w, e) PROVE Each(w)'
  <2>0. /\ UNCHANGED <<hist, head, floor, pc, kind, hd, todo, adopted, at, end>>
        /\ unmarked'[w] = unmarked[w] \ {e}
    BY <1>t, <1>8 DEF Mark, DataT
  <2>1. LeaseOf(w)' /\ HeadOf(w)' /\ OrderOf(w)'
    BY <1>i, <1>s, <2>0 DEF Each, LeaseOf, HeadOf, OrderOf
  <2>2. MarksOf(w)' /\ DrainOf(w)'
    BY <1>i, <2>0 DEF Each, MarksOf, DrainOf
  <2> QED BY <2>1, <2>2 DEF Each
<1>9. CASE Marked(w)
  <2>0. pc[w] = "mark" /\ pc[w] \in Writing /\ UNCHANGED <<hist, head, floor>>
    BY <1>9 DEF Marked, stored, Writing
  <2>1. CASE Quit(w)
    BY <1>i, <2>1, QuitEach
  <2>2. CASE kind[w] # "failing" /\ todo[w] = <<>> /\ Return(w)
    <3>1. pc[w] \notin Retaining /\ pc[w] # "idle"
      BY <2>0 DEF Retaining
    <3>2. \A i \in 1 .. at[w] : InHist(hist, Feed[i])
      BY <2>2, <3>1, PassedAll
    <3> QED BY <1>i, <1>s, <2>0, <2>2, <3>1, <3>2, ReturnEach
  <2>3. CASE /\ Goto(w, "check")
             /\ UNCHANGED <<kind, lease, hd, todo, adopted, unmarked, wrote, at, end>>
    <3>1. "check" \in Writing \ {"adopt"}
      BY DEF Writing
    <3> QED BY <1>i, <1>s, <2>0, <2>3, <3>1, OnwardEach
  <2> QED BY <1>9, <2>1, <2>2, <2>3 DEF Marked
<1> QED BY <1>1, <1>2, <1>3, <1>4, <1>5, <1>6, <1>7, <1>8, <1>9

\* Retention.
LEMMA RetainEach ==
    ASSUME Orderly, Inv, Basic', NEW w \in Writer,
           StartRetain(w) \/ PutFloor(w) \/ PutBytes(w) \/ Evict(w)
    PROVE  Each(w)'
<1>t. /\ hd[w] \in HeadRecord /\ head \in HeadRecord /\ floor \in Nat
      /\ at[w] \in Nat /\ end[w] \in Nat
      /\ hd[w].seq \in Nat /\ head.seq \in Nat /\ hd[w].bytes \in Nat /\ head.bytes \in Nat
      /\ ControlT /\ DataT
  BY DEF Inv, Basic, SharedT, Local, DataT, HeadRecord
<1>i. Basic /\ Log /\ Each(w) /\ Drains(w)
  BY DEF Inv, Basic, Local
<1>s. leased' = leased /\ (Timely => leased = w)
  <2>1. Step(w)
    BY DEF Step
  <2> QED BY <2>1, StepShared
<1>e. Evicts /\ Timely
  <2>1. Evicts
    BY <1>i DEF StartRetain, PutFloor, PutBytes, Evict, Each, LeaseOf, Retaining
  <2> QED BY <2>1 DEF Orderly
<1>1. CASE StartRetain(w)
  <2>1. PICK f \in Evictable :
          /\ LET gone == {s \in floor .. f - 1 : row[s] # NoRow}
                 left == IF f > head.seq \/ Cardinality(gone) > head.bytes
                         THEN 0 ELSE head.bytes - Cardinality(gone)
             IN hd' = [hd EXCEPT ![w] = [head EXCEPT !.bytes = left]]
          /\ end' = [end EXCEPT ![w] = f]
    BY <1>1 DEF StartRetain
  <2> DEFINE gone == {s \in floor .. f - 1 : row[s] # NoRow}
  <2> DEFINE left == IF f > head.seq \/ Cardinality(gone) > head.bytes
                     THEN 0 ELSE head.bytes - Cardinality(gone)
  <2>2. f \in Nat /\ floor < f /\ f <= head.seq + 1
    BY <1>t DEF Evictable
  <2>3. Cardinality(gone) \in Nat /\ Cardinality(gone) <= f - floor
    <3>1. IsFiniteSet(floor .. f - 1) /\ Cardinality(floor .. f - 1) = f - floor
      <4>1. floor \in Int /\ f - 1 \in Int /\ floor <= f - 1 /\ (f - 1) - floor + 1 = f - floor
        BY <1>t, <2>2
      <4> QED BY <4>1, FS_Interval
    <3>2. gone \in SUBSET (floor .. f - 1)
      OBVIOUS
    <3> HIDE DEF gone
    <3> QED BY <3>1, <3>2, FS_Subset, FS_CardinalityType
  <2>4. hd' = [hd EXCEPT ![w] = [head EXCEPT !.bytes = left]]
    BY <2>1
  <2>5. left \in Nat /\ head.seq + 1 <= left + f
    <3>1. head.seq + 1 <= head.bytes + floor
      BY <1>i DEF Log, Retained
    <3> HIDE DEF gone
    <3> QED BY <1>t, <2>2, <2>3, <3>1
  <2> HIDE DEF left
  <2>6. /\ hd'[w].seq = head.seq /\ hd'[w].bytes = left /\ end'[w] = f
        /\ UNCHANGED <<kind, adopted, unmarked>>
    BY <1>t, <1>1, <2>1, <2>4 DEF DataT, HeadRecord, StartRetain
  <2>7. pc'[w] = "put_floor" /\ at'[w] = floor /\ UNCHANGED <<hist, head, floor>>
    BY <1>t, <1>1 DEF StartRetain, ControlT, DataT, Goto, stored
  <2>8. LeaseOf(w)' /\ MarksOf(w)' /\ DrainOf(w)'
    BY <1>i, <1>s, <1>e, <2>6, <2>7 DEF Each, LeaseOf, MarksOf, DrainOf, Retaining
  <2>9. HeadOf(w)' /\ OrderOf(w)'
    BY <1>t, <1>i, <2>2, <2>5, <2>6, <2>7 DEF Log, History, HeadOf, OrderOf, Writing
  <2> QED BY <2>8, <2>9 DEF Each
<1>2. CASE PutFloor(w)
  <2>1. /\ floor' = end[w] /\ floor < end[w] /\ end[w] <= head.seq + 1
        /\ UNCHANGED <<hist, head>> /\ pc[w] = "put_floor"
        /\ UNCHANGED <<kind, lease, hd, todo, adopted, unmarked, wrote, at, end>>
    BY <1>2, FloorFacts DEF PutFloor
  <2>2. pc'[w] = "put_bytes"
    BY <1>t, <1>2 DEF PutFloor, ControlT, Goto
  <2>3. LeaseOf(w)' /\ MarksOf(w)' /\ DrainOf(w)'
    BY <1>i, <1>s, <1>e, <2>1, <2>2 DEF Each, LeaseOf, MarksOf, DrainOf, Retaining
  <2>4. HeadOf(w)' /\ OrderOf(w)'
    BY <1>t, <1>e, <1>i, <2>1, <2>2 DEF Each, HeadOf, OrderOf, Writing
  <2> QED BY <2>3, <2>4 DEF Each
<1>3. CASE PutBytes(w)
  <2>1. /\ head' = hd[w] /\ UNCHANGED <<hist, floor>> /\ pc[w] = "put_bytes"
        /\ UNCHANGED <<kind, lease, hd, todo, adopted, unmarked, wrote, at, end>>
    BY <1>3 DEF PutBytes
  <2>2. pc'[w] = "evict"
    BY <1>t, <1>3 DEF PutBytes, ControlT, Goto
  <2>3. LeaseOf(w)' /\ MarksOf(w)' /\ DrainOf(w)'
    BY <1>i, <1>s, <1>e, <2>1, <2>2 DEF Each, LeaseOf, MarksOf, DrainOf, Retaining
  <2>4. HeadOf(w)' /\ OrderOf(w)'
    BY <1>i, <1>e, <2>1, <2>2 DEF Each, HeadOf, OrderOf, Writing
  <2> QED BY <2>3, <2>4 DEF Each
<1>4. CASE Evict(w)
  <2>0. pc[w] = "evict" /\ UNCHANGED <<hist, head, floor>>
    BY <1>4 DEF Evict
  <2>1. CASE Quit(w)
    BY <1>i, <2>1, QuitEach
  <2>2. CASE /\ at[w] # end[w]
             /\ at' = [at EXCEPT ![w] = @ + 1]
             /\ UNCHANGED <<pc, kind, lease, hd, todo, adopted, unmarked, wrote, end>>
    <3>1. at'[w] = at[w] + 1 /\ at[w] <= end[w] /\ end[w] = floor
      BY <1>t, <1>i, <1>e, <2>0, <2>2 DEF DataT, Each, OrderOf
    <3>2. LeaseOf(w)' /\ MarksOf(w)' /\ DrainOf(w)'
      BY <1>i, <1>s, <1>e, <2>0, <2>2 DEF Each, LeaseOf, MarksOf, DrainOf, Retaining
    <3>3. HeadOf(w)' /\ OrderOf(w)'
      BY <1>t, <1>i, <2>0, <2>2, <3>1 DEF Each, HeadOf, OrderOf, Writing
    <3> QED BY <3>2, <3>3 DEF Each
  <2> QED BY <1>4, <2>1, <2>2 DEF Evict
<1> QED BY <1>1, <1>2, <1>3, <1>4

LEMMA InvStep ==
    ASSUME Orderly, Inv, Basic', NEW w \in Writer, Step(w) \/ Abort(w)
    PROVE  Inv'
<1>1. Log'
  BY LogStep
<1>2. Each(w)'
  <2>1. Basic
    BY DEF Inv
  <2>2. CASE Abort(w) \/ PutDrained(w)
    BY <2>1, <2>2, QuitEach DEF Abort, PutDrained
  <2> QED BY <2>2, EarlyEach, AppendEach, RetainEach DEF Step
<1>3. ASSUME NEW v \in Writer \ {w} PROVE Each(v)'
  <2>1. Basic /\ Each(v)
    BY DEF Inv
  <2>2. Same(v)
    BY StepLocal DEF Inv, Basic
  <2>3. Grows(hist, hist') /\ floor <= floor' /\ leased' = leased /\ (Timely => leased = w)
    BY StepShared
  <2> QED BY <2>1, <2>2, <2>3, OtherEach
<1> QED BY <1>1, <1>2, <1>3 DEF Inv

LEMMA InvNext == Orderly /\ Inv /\ [Next]_vars => Inv'
<1> SUFFICES ASSUME Orderly, Inv, [Next]_vars PROVE Inv'
  OBVIOUS
<1>b. Basic'
  BY BasicNext DEF Inv
<1>1. ASSUME NEW w \in Writer, Step(w) \/ Abort(w) PROVE Inv'
  BY <1>b, <1>1, InvStep
<1>2. ASSUME UNCHANGED <<stored, local>>, \A v \in Writer : LeaseOf(v)' PROVE Inv'
  <2>1. Log'
    BY <1>2 DEF Inv, stored, Log, History, Stored, Retained, Accounted
  <2>2. ASSUME NEW v \in Writer PROVE Each(v)'
    <3>1. HeadOf(v)' /\ OrderOf(v)'
      BY <1>2 DEF Inv, Each, stored, local, HeadOf, OrderOf
    <3>2. MarksOf(v)' /\ DrainOf(v)'
      BY <1>2 DEF Inv, Each, stored, local, MarksOf, DrainOf
    <3> QED BY <1>2, <3>1, <3>2 DEF Each
  <2> QED BY <1>b, <2>1, <2>2 DEF Inv
<1>3. ASSUME NEW w \in Writer, Grant(w) PROVE Inv'
  <2>1. \A v \in Writer : LeaseOf(v)'
    BY <1>3, EventLogAssumption DEF Grant, Inv, Each, LeaseOf, local
  <2> QED BY <1>2, <1>3, <2>1 DEF Grant
<1>4. ASSUME Expire PROVE Inv'
  <2>1. \A v \in Writer : LeaseOf(v)'
    BY <1>4 DEF Expire, Inv, Each, LeaseOf, local
  <2> QED BY <1>2, <1>4, <2>1 DEF Expire
<1>5. ASSUME UNCHANGED vars PROVE Inv'
  <2>1. \A v \in Writer : LeaseOf(v)'
    BY <1>5 DEF vars, leases, Inv, Each, LeaseOf, local
  <2> QED BY <1>2, <1>5, <2>1 DEF vars
<1> QED BY <1>1, <1>3, <1>4, <1>5 DEF Next

LEMMA InvInit == Init => Inv
<1> SUFFICES ASSUME Init PROVE Inv
  OBVIOUS
<1>1. Basic
  BY BasicInit
<1>2. Log
  BY NothingWritten, EmptyLogType DEF Init, Log, History, Stored, Retained, Accounted
<1>3. ASSUME NEW w \in Writer PROVE Each(w)
  BY NothingWritten, EmptyLogType DEF Init, Each, LeaseOf, HeadOf, OrderOf, MarksOf, DrainOf,
     Retaining, Writing
<1> QED BY <1>1, <1>2, <1>3 DEF Inv

-----------------------------------------------------------------------------
(* What the runs check, for every instance.                                *)

\* The invariant, where the log makes its promises.
Safe == Basic /\ (Orderly => Inv)

LEMMA SafeAlways == Spec => []Safe
<1>1. Init => Safe
  BY BasicInit, InvInit DEF Safe
<1>2. Safe /\ [Next]_vars => Safe'
  <2> SUFFICES ASSUME Safe, [Next]_vars PROVE Safe'
    OBVIOUS
  <2>1. Basic'
    BY BasicNext DEF Safe
  <2>2. Orderly => Inv'
    BY InvNext DEF Safe
  <2> QED BY <2>1, <2>2 DEF Safe, Orderly
<1> QED BY <1>1, <1>2, PTL DEF Spec

\* A number past the floor has its row if it ever had one.
LEMMA StillStored ==
    ASSUME Inv, NEW s \in SeqNo, hist[s] # NoRow, floor <= s
    PROVE  row[s] = hist[s] /\ row[s] # NoRow
<1>1. s \in Nat /\ floor \in Nat
  BY DEF SeqNo, Inv, Basic, SharedT
<1> QED BY <1>1 DEF Inv, Log, Stored

LEMMA CommittedRows ==
    ASSUME Inv
    PROVE  \A s \in 1 .. head.seq : s \in SeqNo /\ hist[s] # NoRow
<1>1. head.seq \in Nat
  BY DEF Inv, Basic, SharedT, HeadRecord
<1>2. WrittenTo(hist, head.seq)
  BY DEF Inv, Log, History
<1> QED BY <1>1, <1>2, EventLogAssumption DEF WrittenTo, SeqNo

LEMMA WrittenIsAdoptable ==
    ASSUME Inv, NEW s \in SeqNo, hist[s] # NoRow
    PROVE  Adoptable(s)
<1> SUFFICES ASSUME NEW t \in (head.seq + 1) .. s PROVE t \in SeqNo /\ row[t] # NoRow
  BY DEF Adoptable
<1>1. head.seq \in Nat /\ floor \in Nat /\ s \in Nat /\ s <= MaxSeq
  BY EventLogAssumption DEF Inv, Basic, SharedT, HeadRecord, SeqNo
<1>2. t \in Nat /\ head.seq + 1 <= t /\ t <= s
  BY <1>1
<1>3. t \in SeqNo
  BY <1>1, <1>2, EventLogAssumption DEF SeqNo
<1>4. hist[t] # NoRow
  <2>1. WrittenTo(hist, s)
    BY DEF Inv, Log, History
  <2> QED BY <1>2, <1>3, <2>1 DEF WrittenTo
<1>5. floor <= t
  BY <1>1, <1>2 DEF Inv, Log, Retained
<1> QED BY <1>3, <1>4, <1>5, StillStored

LEMMA InHistIsAdoptable ==
    ASSUME Inv, NEW b, InHist(hist, b)
    PROVE  \E s \in SeqNo : hist[s] = b /\ Adoptable(s)
BY WrittenIsAdoptable DEF InHist

\* EventLog: while no operation outlives its lease, or nothing is evicted, every
\* number between the floor and the head has its row, as first written, whatever
\* crashes, failed calls and adopted rows came before.
THEOREM LogHasNoHoles == Spec => []NoHoles
<1>1. Safe => NoHoles
  <2> SUFFICES ASSUME Inv, NEW s \in floor .. head.seq PROVE row[s] = hist[s] /\ row[s] # NoRow
    BY DEF Safe, NoHoles
  <2>1. floor \in Nat /\ head.seq \in Nat /\ 1 <= floor
    BY DEF Inv, Basic, SharedT, HeadRecord, Log, Retained
  <2>2. s \in 1 .. head.seq /\ floor <= s
    BY <2>1
  <2> QED BY <2>2, CommittedRows, StillStored
<1> QED BY <1>1, SafeAlways, PTL

\* EventLog: what the drained count covers is in the log, at or below the head
\* or in a row the next append adopts: a crash between a row, the head and the
\* drained count loses no event.
THEOREM NothingIsLost == Spec => []NothingLost
<1>1. Safe => NothingLost
  <2> SUFFICES ASSUME Inv, NEW i \in 1 .. drained
               PROVE  \E s \in SeqNo : hist[s] = Feed[i] /\ Adoptable(s)
    BY DEF Safe, NothingLost
  <2>1. InHist(hist, Feed[i])
    BY DEF Inv, Log, Accounted
  <2> QED BY <2>1, InHistIsAdoptable
<1> QED BY <1>1, SafeAlways, PTL

\* EventLog: no event has its dedup marker before its row, so the dedup never
\* drops an event that a crash has kept out of the log.
THEOREM MarkersFollowRows == Spec => []MarkedIsWritten
<1>1. Safe => MarkedIsWritten
  <2> SUFFICES ASSUME Inv, NEW e \in marker
               PROVE  \E s \in SeqNo : hist[s] = e /\ Adoptable(s)
    BY DEF Safe, MarkedIsWritten
  <2>1. InHist(hist, e)
    BY DEF Inv, Log, Accounted
  <2> QED BY <2>1, InHistIsAdoptable
<1> QED BY <1>1, SafeAlways, PTL

\* EventLog: the byte count of the head is at least what is retained, through
\* adopted rows and interrupted retention.
THEOREM BytesAreCovered == Spec => []BytesCover
<1>1. Safe => BytesCover
  <2> SUFFICES ASSUME Inv
               PROVE  head.bytes >= Cardinality({s \in floor .. head.seq : row[s] # NoRow})
    BY DEF Safe, BytesCover
  <2> DEFINE kept == {s \in floor .. head.seq : row[s] # NoRow}
  <2>1. /\ floor \in Nat /\ head.seq \in Nat /\ head.bytes \in Nat /\ floor <= head.seq + 1
        /\ head.seq + 1 <= head.bytes + floor
    BY DEF Inv, Basic, SharedT, HeadRecord, Log, Retained
  <2>2. IsFiniteSet(floor .. head.seq) /\ Cardinality(floor .. head.seq) <= head.seq + 1 - floor
    <3>1. floor \in Int /\ head.seq \in Int
      BY <2>1
    <3>2. /\ IsFiniteSet(floor .. head.seq)
          /\ Cardinality(floor .. head.seq) = IF floor > head.seq THEN 0 ELSE head.seq - floor + 1
      BY <3>1, FS_Interval
    <3> QED BY <2>1, <3>2
  <2>3. kept \in SUBSET (floor .. head.seq)
    OBVIOUS
  <2> HIDE DEF kept
  <2>4. Cardinality(kept) \in Nat /\ Cardinality(kept) <= Cardinality(floor .. head.seq)
        /\ Cardinality(floor .. head.seq) \in Nat
    BY <2>2, <2>3, FS_Subset, FS_CardinalityType
  <2>5. head.bytes >= Cardinality(kept)
    BY <2>1, <2>2, <2>4
  <2> QED BY <2>5 DEF kept
<1> QED BY <1>1, SafeAlways, PTL

-----------------------------------------------------------------------------
(* The log is the one its readers are promised.                            *)

LEMMA PrefixFacts ==
    ASSUME NEW T, NEW n \in Nat, NEW m \in Nat, n <= m,
           NEW f \in [1 .. n -> T], NEW g \in [1 .. m -> T], \A i \in 1 .. n : f[i] = g[i]
    PROVE  IsPrefix(f, g) /\ (n # m => IsStrictPrefix(f, g))
<1>1. f \in Seq(T) /\ Len(f) = n /\ g \in Seq(T) /\ Len(g) = m
  BY FunctionIsSeq
<1>2. \A i \in 1 .. n : f[i] \in T /\ g[i] \in T
  OBVIOUS
<1>3. 1 \in Int /\ n \in Int /\ n - 1 + 1 = n
  OBVIOUS
<1>4. /\ SubSeq(f, 1, n) \in Seq(T) /\ Len(SubSeq(f, 1, n)) = IF 1 <= n THEN n - 1 + 1 ELSE 0
      /\ \A i \in 1 .. n - 1 + 1 : SubSeq(f, 1, n)[i] = f[1 + i - 1]
  BY <1>2, <1>3, SubSeqProperties
<1>5. /\ SubSeq(g, 1, n) \in Seq(T) /\ Len(SubSeq(g, 1, n)) = IF 1 <= n THEN n - 1 + 1 ELSE 0
      /\ \A i \in 1 .. n - 1 + 1 : SubSeq(g, 1, n)[i] = g[1 + i - 1]
  BY <1>2, <1>3, SubSeqProperties
<1>6. /\ Len(SubSeq(f, 1, n)) = n /\ Len(SubSeq(g, 1, n)) = n
      /\ \A i \in 1 .. n : SubSeq(f, 1, n)[i] = f[i] /\ SubSeq(g, 1, n)[i] = g[i]
  BY <1>3, <1>4, <1>5
<1>7. SubSeq(f, 1, n) = SubSeq(g, 1, n)
  BY <1>4, <1>5, <1>6, SeqEqual
<1>8. IsPrefix(f, g)
  BY <1>1, <1>7 DEF IsPrefix
<1>9. n # m => f # g
  BY <1>1
<1> QED BY <1>8, <1>9 DEF IsStrictPrefix

LEMMA CommittedIsSeq ==
    ASSUME Inv
    PROVE  Committed \in [1 .. head.seq -> Body] /\ Len(Committed) = head.seq
<1>1. head.seq \in Nat /\ hist \in [SeqNo -> Body \cup {NoRow}]
  BY DEF Inv, Basic, SharedT, HeadRecord
<1>2. Committed \in [1 .. head.seq -> Body]
  BY <1>1, CommittedRows DEF Committed
<1> QED BY <1>1, <1>2, FunctionIsSeq

\* EventLog implements AppendOnlyLog while no operation outlives its lease: the
\* committed rows only ever grow at their end and never change, and the floor
\* only moves up, at most one past the head.
THEOREM KeepsReadersPromise ==
    ASSUME Timely
    PROVE  Spec => ReadersPromise
<1>o. Orderly
  BY DEF Orderly
<1>1. Init => Readers!Init
  <2> SUFFICES ASSUME Init PROVE Committed = <<>> /\ floor = 1
    BY DEF Readers!Init
  <2>1. head.seq = 0
    BY EmptyLogType DEF Init
  <2>2. Committed \in [1 .. 0 -> Body]
    BY <2>1 DEF Committed
  <2>3. Committed \in Seq(Body) /\ Len(Committed) = 0
    BY <2>2, FunctionIsSeq
  <2> QED BY <2>3, EmptySeq DEF Init
<1>2. Inv /\ [Next]_vars => [Readers!Next]_<<Committed, floor>>
  <2> SUFFICES ASSUME Inv, [Next]_vars
               PROVE  \/ Readers!Extend \/ Readers!Truncate
                      \/ Committed' = Committed /\ floor' = floor
    BY DEF Readers!Next
  <2>i. Inv'
    BY <1>o, InvNext
  <2>t. /\ head.seq \in Nat /\ head'.seq \in Nat /\ floor \in Nat /\ floor' \in Nat
        /\ hist \in [SeqNo -> Body \cup {NoRow}]
    BY <2>i DEF Inv, Basic, SharedT, HeadRecord
  <2>c. Committed' = [s \in 1 .. head'.seq |-> hist'[s]]
    BY DEF Committed
  <2>1. ASSUME hist' = hist, head'.seq = head.seq PROVE Committed' = Committed
    BY <2>1, <2>c DEF Committed
  <2>2. ASSUME NEW w \in Writer, PutHead(w) PROVE Readers!Extend \/ UNCHANGED <<Committed, floor>>
    <3>1. head' = hd[w] /\ UNCHANGED <<hist, floor>> /\ head.seq <= hd[w].seq
      BY <2>2 DEF PutHead, Inv, Each, OrderOf, Writing
    <3>2. CASE head'.seq = head.seq
      BY <2>1, <3>1, <3>2
    <3>3. CASE head'.seq # head.seq
      <4>1. Committed \in [1 .. head.seq -> Body]
        BY CommittedIsSeq
      <4>2. Committed' \in [1 .. head'.seq -> Body]
        <5>1. \A s \in 1 .. head'.seq : s \in SeqNo /\ hist'[s] # NoRow
          <6>1. WrittenTo(hist, hd[w].seq)
            BY DEF Inv, Each, HeadOf
          <6> QED BY <2>t, <3>1, <6>1, EventLogAssumption DEF WrittenTo, SeqNo
        <5> QED BY <2>t, <2>c, <3>1, <5>1
      <4>3. \A i \in 1 .. head.seq : Committed[i] = Committed'[i]
        BY <2>t, <2>c, <3>1 DEF Committed
      <4>4. head.seq <= head'.seq
        BY <3>1
      <4>5. IsStrictPrefix(Committed, Committed')
        BY <2>t, <3>3, <4>1, <4>2, <4>3, <4>4, PrefixFacts
      <4> QED BY <3>1, <4>5 DEF Readers!Extend, Readers!IsStrictPrefix, Readers!IsPrefix,
                             IsStrictPrefix, IsPrefix
    <3> QED BY <3>2, <3>3
  <2>3. ASSUME NEW w \in Writer, PutFloor(w) PROVE Readers!Truncate
    <3>1. floor' = end[w] /\ floor < end[w] /\ end[w] <= head.seq + 1 /\ UNCHANGED <<hist, head>>
      BY <1>o, <2>3, FloorFacts
    <3>2. Committed' = Committed /\ Len(Committed) = head.seq
      BY <2>1, <3>1, CommittedIsSeq
    <3>3. floor' \in (floor + 1) .. (head.seq + 1)
      BY <2>t, <3>1
    <3> QED BY <3>2, <3>3 DEF Readers!Truncate
  <2>4. ASSUME NEW w \in Writer, WriteRow(w) PROVE UNCHANGED <<Committed, floor>>
    <3>1. head' = head /\ floor' = floor /\ Grows(hist, hist')
      BY <1>o, <2>4, WriteRowGrows, WriteRowFacts
    <3>2. \A s \in 1 .. head.seq : hist'[s] = hist[s]
      BY <3>1, CommittedRows DEF Grows
    <3> QED BY <2>c, <3>1, <3>2 DEF Committed
  <2>5. ASSUME NEW w \in Writer, PutBytes(w) PROVE UNCHANGED <<Committed, floor>>
    <3>1. head' = hd[w] /\ UNCHANGED <<hist, floor>> /\ head.seq = hd[w].seq
      BY <2>5 DEF PutBytes, Inv, Each, OrderOf
    <3> QED BY <2>1, <3>1
  <2>6. ASSUME UNCHANGED <<hist, head, floor>> PROVE UNCHANGED <<Committed, floor>>
    BY <2>1, <2>6
  <2>7. ASSUME NEW w \in Writer, Quiet(w) PROVE UNCHANGED <<hist, head, floor>>
    BY <2>7, QuietStored DEF stored
  <2>8. ASSUME NEW w \in Writer,
               \/ Grant(w) \/ PutDrained(w) \/ MarkAdopted(w) \/ Evict(w)
               \/ \E e \in unmarked[w] : Mark(w, e)
        PROVE  UNCHANGED <<hist, head, floor>>
    BY <2>8, Zenon DEF Grant, PutDrained, MarkAdopted, Evict, Mark, stored
  <2>9. ASSUME Expire \/ UNCHANGED vars PROVE UNCHANGED <<hist, head, floor>>
    BY <2>9 DEF Expire, vars, stored
  <2> QED BY <2>2, <2>3, <2>4, <2>5, <2>6, <2>7, <2>8, <2>9 DEF Next, Step, Quiet
<1>3. Spec => []Inv
  <2>1. Safe => Inv
    BY <1>o DEF Safe
  <2> QED BY <2>1, SafeAlways, PTL
<1> QED BY <1>1, <1>2, <1>3, PTL DEF Spec, ReadersPromise, Readers!Spec

=============================================================================
