------------------------ MODULE FleetSemaphoreProofs ------------------------
(* Proofs about FleetSemaphore, for any cap, fleet, callers, slot TTL and    *)
(* number of attempts.                                                       *)
EXTENDS FleetSemaphore, FiniteSetTheorems, TLAPS

\* What the proofs need of the ranges.
LEMMA Ranges ==
    /\ 0 \in Slot
    /\ 0 \in Gen
    /\ \A g \in Gen : g \in Nat /\ (g < Gens => g + 1 \in Gen)
    /\ 0 \in Life
    /\ SlotTtl \in Life /\ SlotTtl > 0
    /\ \A l \in Life : l \in Nat /\ (l > 0 => l - 1 \in Life)
  BY FleetAssumption DEF Slot, Gen, Life

\* Writing and deleting an entry.
LEMMA EntryTyping ==
    ASSUME NEW l \in [Slot -> Life], NEW s \in Slot
    PROVE  [l EXCEPT ![s] = SlotTtl] \in [Slot -> Life] /\ [l EXCEPT ![s] = 0] \in [Slot -> Life]
<1>1. SlotTtl \in Life /\ 0 \in Life
  BY Ranges
<1> QED
  BY <1>1

\* An attempt after one that was not the last.
LEMMA NextTry ==
    ASSUME NEW n \in Nat, NEW t \in 0 .. n - 1, t + 1 # n
    PROVE  t + 1 \in 0 .. n - 1
  OBVIOUS

\* The local counters stay natural numbers.
LEMMA LocalTyping ==
    ASSUME TypeOK, NEW c \in Caller
    PROVE  /\ DropLocal(c) => avail' \in [Replica -> [Gen -> Nat]]
           /\ TakeLocal(c) /\ avail[HomeOf[c]][sem[c]] > 0 =>
                avail' \in [Replica -> [Gen -> Nat]]
<1> DEFINE r == HomeOf[c]
<1> DEFINE g == sem[c]
<1>1. r \in Replica /\ g \in Gen /\ avail[r] \in [Gen -> Nat]
  BY FleetAssumption DEF TypeOK
<1>2. [avail[r] EXCEPT ![g] = @ + 1] \in [Gen -> Nat]
  BY <1>1
<1>3. avail[r][g] > 0 => [avail[r] EXCEPT ![g] = @ - 1] \in [Gen -> Nat]
  BY <1>1
<1>4. avail \in [Replica -> [Gen -> Nat]]
  BY DEF TypeOK
<1>5. DropLocal(c) => avail' = [avail EXCEPT ![r] = [avail[r] EXCEPT ![g] = @ + 1]]
  BY DEF DropLocal
<1>6. TakeLocal(c) => avail' = [avail EXCEPT ![r] = [avail[r] EXCEPT ![g] = @ - 1]]
  BY DEF TakeLocal
<1> HIDE DEF r, g
<1>7. DropLocal(c) => avail' \in [Replica -> [Gen -> Nat]]
  BY <1>1, <1>2, <1>4, <1>5
<1>8. TakeLocal(c) /\ avail[r][g] > 0 => avail' \in [Replica -> [Gen -> Nat]]
  BY <1>1, <1>3, <1>4, <1>6
<1> QED
  BY <1>7, <1>8 DEF r, g

\* Releasing a slot key leaves every variable in its range.
LEMMA LeaveTyping ==
    ASSUME TypeOK, NEW c \in Caller, Leave(c)
    PROVE  /\ pc' \in [Caller -> Place]
           /\ slot' \in [Caller -> Slot]
           /\ scanned' \in [Caller -> SUBSET Slot]
           /\ sem' \in [Caller -> Gen]
           /\ tries' \in [Caller -> 0 .. Attempts - 1]
  BY Ranges, FleetAssumption DEF TypeOK, Leave, Goto, Place

\* A caller that leaves takes no entry from the other owners.
LEMMA LeaveExclusion ==
    ASSUME TypeOK, Exclusion, NEW c \in Caller, Leave(c), UNCHANGED held,
           bare \ {c} \subseteq bare', bare' \subseteq Owners \ {c},
           causes \subseteq causes', causes' = {} => bare' = {},
           \A d \in Owners \ (bare' \cup {c}) : left'[slot[d]] > 0
    PROVE  Exclusion'
  BY DEF TypeOK, Exclusion, Owners, Permits, Leave, Goto

\* A caller that only changes its program counter takes no entry from another.
LEMMA MoveExclusion ==
    ASSUME TypeOK, Exclusion, NEW c \in Caller, NEW p \in {"local", "take", "wait"},
           pc[c] \notin {"took", "holding", "freeing"},
           Goto(c, p), UNCHANGED <<slot, held, left, hist>>
    PROVE  Exclusion'
  BY DEF TypeOK, Exclusion, Owners, Permits, Goto, hist

\* Every variable stays within its range.
LEMMA Typing == TypeOK /\ [Next]_vars => TypeOK'
<1> SUFFICES ASSUME TypeOK, [Next]_vars PROVE TypeOK'
  OBVIOUS
<1> USE FleetAssumption, Ranges, LocalTyping DEF TypeOK, hist
<1>p. ASSUME NEW c \in Caller, NEW p \in Place, Goto(c, p)
      PROVE  pc' \in [Caller -> Place]
  BY <1>p DEF Goto
<1>q. {"idle", "local", "take", "took", "wait", "holding", "freeing", "again"} = Place
  BY DEF Place
<1>o. Owners \subseteq Caller /\ \A c \in Caller : Others(c) \subseteq Caller
  BY DEF Owners, Others
<1>1. CASE Tick
  <2>1. left' \in [Slot -> Life]
    BY <1>1 DEF Tick
  <2>2. bare' \subseteq Caller /\ causes' \subseteq {"late", "again"}
    BY <1>1, <1>o DEF Tick
  <2> QED
    BY <1>1, <2>1, <2>2 DEF Tick
<1>2. ASSUME NEW c \in Caller, Enter(c) PROVE TypeOK'
  BY <1>2, <1>p, <1>q DEF Enter
<1>3. ASSUME NEW c \in Caller, AcquireLocal(c) PROVE TypeOK'
  <2>1. CASE Leave(c) /\ UNCHANGED avail
    BY <1>3, <2>1, LeaveTyping DEF AcquireLocal
  <2>2. CASE TakeLocal(c) /\ avail[HomeOf[c]][sem[c]] > 0
             /\ UNCHANGED <<slot, scanned, sem, tries>> /\ (Goto(c, "wait") \/ Goto(c, "take"))
    <3>1. avail' \in [Replica -> [Gen -> Nat]]
      BY <2>2
    <3>2. pc' \in [Caller -> Place]
      BY <2>2, <1>p, <1>q
    <3> QED
      BY <1>3, <2>2, <3>1, <3>2 DEF AcquireLocal
  <2> QED
    BY <1>3, <2>1, <2>2 DEF AcquireLocal
<1>4. ASSUME NEW c \in Caller, NEW s \in Slot, Take(c, s) PROVE TypeOK'
  <2>1. left' \in [Slot -> Life]
    BY <1>4 DEF Take
  <2>2. avail' \in [Replica -> [Gen -> Nat]]
    BY <1>4 DEF Take
  <2>4. CASE Leave(c)
    BY <1>4, <2>1, <2>2, <2>4, LeaveTyping DEF Take
  <2>5. CASE slot' = [slot EXCEPT ![c] = s] /\ scanned' = [scanned EXCEPT ![c] = {}]
             /\ Goto(c, "took") /\ UNCHANGED <<sem, tries>>
    <3>1. scanned' \in [Caller -> SUBSET Slot] /\ slot' \in [Caller -> Slot]
      BY <2>5
    <3>2. pc' \in [Caller -> Place]
      BY <2>5, <1>p, <1>q
    <3> QED
      BY <1>4, <2>1, <2>2, <2>5, <3>1, <3>2 DEF Take
  <2>6. CASE scanned' = [scanned EXCEPT ![c] = @ \cup {s}] /\ UNCHANGED <<slot, sem, pc, tries>>
    <3>1. scanned' \in [Caller -> SUBSET Slot]
      BY <2>6
    <3> QED
      BY <1>4, <2>1, <2>2, <2>6, <3>1 DEF Take
  <2> QED
    BY <1>4, <2>4, <2>5, <2>6 DEF Take
<1>5. ASSUME NEW c \in Caller, Hold(c) PROVE TypeOK'
  BY <1>5, <1>p, <1>q DEF Hold
<1>6. ASSUME NEW c \in Caller, FoundFull(c) PROVE TypeOK'
  <2>1. CASE Leave(c) /\ DropLocal(c)
    BY <1>6, <2>1, LeaveTyping DEF FoundFull
  <2>2. CASE Goto(c, "wait") /\ UNCHANGED <<slot, sem, avail, tries>>
             /\ scanned' = [scanned EXCEPT ![c] = {}]
    <3>1. pc' \in [Caller -> Place] /\ scanned' \in [Caller -> SUBSET Slot]
      BY <2>2, <1>p, <1>q
    <3> QED
      BY <1>6, <2>2, <3>1 DEF FoundFull
  <2> QED
    BY <1>6, <2>1, <2>2 DEF FoundFull
<1>7. ASSUME NEW c \in Caller, Wake(c) PROVE TypeOK'
  <2>1. CASE Leave(c) /\ DropLocal(c)
    BY <1>7, <2>1, LeaveTyping DEF Wake
  <2>2. CASE Goto(c, "take") /\ UNCHANGED <<slot, scanned, sem, avail, tries>>
    BY <1>7, <2>2, <1>p, <1>q DEF Wake
  <2> QED
    BY <1>7, <2>1, <2>2 DEF Wake
<1>8. ASSUME NEW c \in Caller, Abandon(c) PROVE TypeOK'
  BY <1>8, LeaveTyping DEF Abandon
<1>9. ASSUME NEW c \in Caller, Release(c) PROVE TypeOK'
  <2>1. pc' \in [Caller -> Place] /\ bare' \subseteq Caller
    BY <1>9, <1>p, <1>q, <1>o DEF Release
  <2> QED
    BY <1>9, <2>1 DEF Release
<1>d. ASSUME NEW c \in Caller, Delete(c) \/ (UNCHANGED left /\ bare' \in SUBSET bare)
      PROVE  left' \in [Slot -> Life] /\ bare' \subseteq Caller
  <2>1. slot[c] \in Slot /\ left \in [Slot -> Life] /\ bare \subseteq Caller
    OBVIOUS
  <2>2. CASE Delete(c)
    BY <2>1, <2>2, <1>o, EntryTyping DEF Delete
  <2>3. CASE UNCHANGED left /\ bare' \in SUBSET bare
    BY <2>1, <2>3
  <2> QED
    BY <1>d, <2>2, <2>3
<1>10. ASSUME NEW c \in Caller, Free(c) PROVE TypeOK'
  BY <1>10, <1>d, LeaveTyping DEF Free, Freed
<1>11. ASSUME NEW c \in Caller, FreeFails(c) PROVE TypeOK'
  <2>1. left' \in [Slot -> Life] /\ bare' \subseteq Caller
    BY <1>11, <1>d DEF FreeFails
  <2>2. CASE Freed(c) /\ UNCHANGED causes
    BY <1>11, <2>1, <2>2, LeaveTyping DEF FreeFails, Freed
  <2>3. CASE ~LastTry(c) /\ tries' = [tries EXCEPT ![c] = @ + 1]
             /\ UNCHANGED <<slot, scanned, sem, avail, full>>
    <3>1. tries' \in [Caller -> 0 .. Attempts - 1]
      <4>1. tries[c] \in 0 .. Attempts - 1 /\ tries[c] + 1 # Attempts /\ Attempts \in Nat
        BY <2>3 DEF LastTry
      <4>2. tries[c] + 1 \in 0 .. Attempts - 1
        BY <4>1, NextTry
      <4> QED
        BY <2>3, <4>2
    <3>2. pc' \in [Caller -> Place] /\ causes' \subseteq {"late", "again"}
      <4>1. CASE Goto(c, "again") /\ causes' = causes \cup {"again"}
        BY <4>1, <1>p, <1>q
      <4>2. CASE UNCHANGED <<left, pc, hist>>
        BY <4>2
      <4> QED
        BY <1>11, <2>3, <4>1, <4>2 DEF FreeFails
    <3> QED
      BY <1>11, <2>1, <2>3, <3>1, <3>2 DEF FreeFails
  <2> QED
    BY <1>11, <2>2, <2>3 DEF FreeFails
<1>12. ASSUME NEW r \in Replica, StartPass(r) PROVE TypeOK'
  <2>1. gen' \in [Replica -> Gen]
    BY <1>12, Ranges DEF StartPass, Prunable
  <2> QED
    BY <1>12, <2>1 DEF StartPass
<1>13. ASSUME NEW r \in Replica, FullEnds(r) PROVE TypeOK'
  BY <1>13 DEF FullEnds
<1>14. ASSUME NEW r \in Replica, Restart(r) PROVE TypeOK'
  <2>1. pc' \in [Caller -> Place]
    BY <1>14, <1>q DEF Restart
  <2>2. tries' \in [Caller -> 0 .. Attempts - 1]
    BY <1>14 DEF Restart
  <2> QED
    BY <1>14, <2>1, <2>2 DEF Restart
<1>15. ASSUME NEW r \in Replica, NEW s \in Slot, Extend(r, s) PROVE TypeOK'
  <2>1. pass' \in [Replica -> SUBSET Slot]
    BY <1>15 DEF Extend
  <2>2. left' = left \/ left' = [left EXCEPT ![s] = SlotTtl]
    BY <1>15 DEF Extend
  <2>3. gone' = gone \/ gone' = [gone EXCEPT ![r] = {s}]
    BY <1>15 DEF Extend
  <2>4. left' \in [Slot -> Life]
    BY <2>2, EntryTyping
  <2>5. gone' \in [Replica -> SUBSET Slot]
    <3>1. gone \in [Replica -> SUBSET Slot] /\ {s} \in SUBSET Slot
      OBVIOUS
    <3> QED
      BY <2>3, <3>1, Zenon
  <2> QED
    BY <1>15, <2>1, <2>4, <2>5 DEF Extend
<1>16. ASSUME NEW r \in Replica, NEW s \in Slot, Retake(r, s) PROVE TypeOK'
  <2>1. gone' \in [Replica -> SUBSET Slot]
    BY <1>16 DEF Retake
  <2>2. left' \in [Slot -> Life]
    BY <1>16, EntryTyping DEF Retake
  <2> QED
    BY <1>16, <2>1, <2>2 DEF Retake
<1>17. CASE UNCHANGED vars
  BY <1>17 DEF vars
<1> QED
  BY <1>1, <1>2, <1>3, <1>4, <1>5, <1>6, <1>7, <1>8, <1>9, <1>10, <1>11, <1>12, <1>13,
     <1>14, <1>15, <1>16, <1>17 DEF Next, CallerStep, ReplicaStep, Refresher

\* Takes, releases, refresh passes, restarts and time keep the owners apart,
\* except those whose entry or key they take away.
LEMMA Exclusive == TypeOK /\ Exclusion /\ [Next]_vars => Exclusion'
<1> SUFFICES ASSUME TypeOK, Exclusion, [Next]_vars
             PROVE  Exclusion'
  OBVIOUS
<1> USE FleetAssumption, Ranges DEF TypeOK, Exclusion, Owners, Permits, hist
<1>1. CASE Tick
  <2>1. \A d \in Owners \ bare' : left'[slot[d]] > 0
    <3> SUFFICES ASSUME NEW d \in Owners, d \notin bare' PROVE left'[slot[d]] > 0
      OBVIOUS
    <3>1. slot[d] \in Slot /\ left[slot[d]] \in Nat /\ left[slot[d]] > 0 /\ left[slot[d]] # 1
      BY <1>1 DEF Tick
    <3> QED
      BY <1>1, <3>1 DEF Tick
  <2>2. bare \subseteq bare' /\ bare' \subseteq Owners
    BY <1>1 DEF Tick
  <2>3. causes' = {} => causes = {} /\ bare' = bare
    BY <1>1 DEF Tick
  <2>4. UNCHANGED <<pc, slot, held>>
    BY <1>1 DEF Tick
  <2> QED
    BY <2>1, <2>2, <2>3, <2>4
<1>2. ASSUME NEW c \in Caller, Enter(c) PROVE Exclusion'
  BY <1>2, MoveExclusion DEF Enter
<1>3. ASSUME NEW c \in Caller, AcquireLocal(c) PROVE Exclusion'
  <2>1. c \notin Owners /\ UNCHANGED <<held, left, bare, causes>>
    BY <1>3 DEF AcquireLocal
  <2>2. CASE Leave(c)
    BY <2>1, <2>2, LeaveExclusion
  <2>3. CASE (Goto(c, "wait") \/ Goto(c, "take")) /\ UNCHANGED slot
    BY <2>1, <2>3, MoveExclusion
  <2> QED
    BY <1>3, <2>2, <2>3 DEF AcquireLocal
<1>4. ASSUME NEW c \in Caller, NEW s \in Slot, Take(c, s) PROVE Exclusion'
  <2>0. \A d \in Owners \ bare : left'[slot[d]] > 0
    BY <1>4 DEF Take
  <2>1. c \notin Owners /\ UNCHANGED <<held, bare, causes>>
    BY <1>4 DEF Take
  <2>2. CASE Leave(c)
    BY <2>0, <2>1, <2>2, LeaveExclusion
  <2>3. CASE left[s] = 0 /\ left' = [left EXCEPT ![s] = SlotTtl]
             /\ slot' = [slot EXCEPT ![c] = s] /\ Goto(c, "took")
    BY <2>0, <2>1, <2>3 DEF Goto
  <2>4. CASE UNCHANGED <<left, slot, sem, pc, avail, tries>>
    BY <2>1, <2>4
  <2> QED
    BY <1>4, <2>2, <2>3, <2>4 DEF Take
<1>5. ASSUME NEW c \in Caller, Hold(c) PROVE Exclusion'
  BY <1>5 DEF Hold, Goto
<1>6. ASSUME NEW c \in Caller, FoundFull(c) PROVE Exclusion'
  <2>1. c \notin Owners /\ UNCHANGED <<held, left, bare, causes>>
    BY <1>6 DEF FoundFull
  <2>2. CASE Leave(c)
    BY <2>1, <2>2, LeaveExclusion
  <2>3. CASE Goto(c, "wait") /\ UNCHANGED slot
    BY <2>1, <2>3, MoveExclusion
  <2> QED
    BY <1>6, <2>2, <2>3 DEF FoundFull
<1>7. ASSUME NEW c \in Caller, Wake(c) PROVE Exclusion'
  <2>1. c \notin Owners /\ UNCHANGED <<held, left, bare, causes>>
    BY <1>7 DEF Wake
  <2>2. CASE Leave(c)
    BY <2>1, <2>2, LeaveExclusion
  <2>3. CASE Goto(c, "take") /\ UNCHANGED slot
    BY <2>1, <2>3, MoveExclusion
  <2> QED
    BY <1>7, <2>2, <2>3 DEF Wake
<1>8. ASSUME NEW c \in Caller, Abandon(c) PROVE Exclusion'
  BY <1>8, LeaveExclusion DEF Abandon
<1>9. ASSUME NEW c \in Caller, Release(c) PROVE Exclusion'
  <2>1. \A d \in Permits \ (bare' \cup {c}) : slot[d] \in held'[HomeOf[d]]
    BY <1>9 DEF Release, Others
  <2>2. bare \subseteq bare' /\ bare' \subseteq Owners /\ (causes = {} => bare' = {})
    BY <1>9 DEF Release, Others
  <2>3. pc' = [pc EXCEPT ![c] = "freeing"] /\ pc[c] = "holding" /\ UNCHANGED <<left, slot, causes>>
    BY <1>9 DEF Release, Goto
  <2> QED
    BY <2>1, <2>2, <2>3
<1>d. ASSUME NEW c \in Caller, pc[c] \in {"freeing", "again"}, Delete(c)
      PROVE  /\ \A d \in Owners \ (bare' \cup {c}) : left'[slot[d]] > 0
             /\ bare \ {c} \subseteq bare' /\ bare' \subseteq Owners \ {c}
             /\ causes = {} => bare' = {}
  BY <1>d DEF Delete, Others
<1>10. ASSUME NEW c \in Caller, Free(c) PROVE Exclusion'
  <2>1. pc[c] \in {"freeing", "again"} /\ Delete(c) /\ Leave(c) /\ UNCHANGED <<held, causes>>
    BY <1>10 DEF Free, Freed
  <2> QED
    BY <2>1, <1>d, LeaveExclusion
<1>11. ASSUME NEW c \in Caller, FreeFails(c) PROVE Exclusion'
  <2>0. pc[c] \in {"freeing", "again"} /\ UNCHANGED held
    BY <1>11 DEF FreeFails
  <2>1. CASE Leave(c) /\ Delete(c) /\ UNCHANGED causes
    BY <2>0, <2>1, <1>d, LeaveExclusion
  <2>2. CASE Leave(c) /\ UNCHANGED <<left, causes>> /\ bare' = bare \ {c}
    BY <2>0, <2>2, LeaveExclusion
  <2>3. CASE Delete(c) /\ Goto(c, "again") /\ causes' = causes \cup {"again"} /\ UNCHANGED slot
    <3>1. /\ \A d \in Owners \ (bare' \cup {c}) : left'[slot[d]] > 0
          /\ bare \ {c} \subseteq bare' /\ bare' \subseteq Owners \ {c}
      BY <2>0, <2>3, <1>d
    <3>2. causes' # {} /\ pc' = [pc EXCEPT ![c] = "again"] /\ UNCHANGED <<slot, held>>
      BY <2>0, <2>3 DEF Goto
    <3> QED
      BY <3>1, <3>2
  <2>4. CASE UNCHANGED <<left, pc, slot, hist>>
    BY <2>0, <2>4
  <2> QED
    BY <1>11, <2>1, <2>2, <2>3, <2>4 DEF FreeFails, Freed
<1>12. ASSUME NEW r \in Replica, StartPass(r) PROVE Exclusion'
  BY <1>12 DEF StartPass
<1>13. ASSUME NEW r \in Replica, FullEnds(r) PROVE Exclusion'
  BY <1>13 DEF FullEnds
<1>14. ASSUME NEW r \in Replica, Restart(r) PROVE Exclusion'
  BY <1>14 DEF Restart
<1>15. ASSUME NEW r \in Replica, NEW s \in Slot, Extend(r, s) PROVE Exclusion'
  <2>1. \A t \in Slot : left[t] > 0 => left'[t] > 0
    BY <1>15 DEF Extend
  <2>2. UNCHANGED <<pc, slot, held, bare, causes>>
    BY <1>15 DEF Extend
  <2> QED
    BY <2>1, <2>2
<1>16. ASSUME NEW r \in Replica, NEW s \in Slot, Retake(r, s) PROVE Exclusion'
  <2>1. \A t \in Slot : left[t] > 0 => left'[t] > 0
    BY <1>16 DEF Retake
  <2>2. UNCHANGED <<pc, slot, held, bare, causes>>
    BY <1>16 DEF Retake
  <2> QED
    BY <2>1, <2>2
<1>17. CASE UNCHANGED vars
  BY <1>17 DEF vars
<1> QED
  BY <1>1, <1>2, <1>3, <1>4, <1>5, <1>6, <1>7, <1>8, <1>9, <1>10, <1>11, <1>12, <1>13,
     <1>14, <1>15, <1>16, <1>17 DEF Next, CallerStep, ReplicaStep, Refresher

\* A fleet that just started holds no slot.
LEMMA Initially == Init => TypeOK /\ Exclusion
  BY FleetAssumption, Ranges DEF Init, TypeOK, Exclusion, Owners, Permits, Place

\* Typing and exclusion hold in every reachable state.
THEOREM Invariance == Spec => [](TypeOK /\ Exclusion)
  BY Initially, Typing, Exclusive, PTL DEF Spec

\* Every variable of the semaphore stays within its range, late refreshes and
\* failing calls included.
THEOREM TypeCorrect == Spec => []TypeOK
  BY Invariance, PTL

\* fleet_semaphore.rs: two callers stand on one slot key only when one of them
\* is bare, which begins with a late refresh or a repeated delete.
THEOREM SlotsAreExclusive == Spec => []SlotExclusive
<1>1. Exclusion => SlotExclusive
  BY DEF Exclusion, SlotExclusive
<1> QED
  BY <1>1, Invariance, PTL

\* ... a permit in use that is not bare has its entry in the store and is
\* refreshed,
THEOREM PermitsAreBacked == Spec => []PermitBacked
<1>1. Exclusion => PermitBacked
  BY DEF Exclusion, PermitBacked, Owners, Permits
<1> QED
  BY <1>1, Invariance, PTL

\* ... and there are never more of them than the cap: their slots are an
\* injection into the Max slot keys.
THEOREM CapHolds == Spec => []NeverOverCap
<1>1. TypeOK /\ Exclusion => NeverOverCap
  <2> SUFFICES ASSUME TypeOK, Exclusion PROVE Cardinality(Permits \ bare) <= Max
    BY DEF NeverOverCap
  <2> DEFINE f == [c \in Permits \ bare |-> slot[c]]
  <2>1. f \in Injection(Permits \ bare, Slot)
    BY DEF TypeOK, Exclusion, Owners, Permits, Injection, IsInjective
  <2>2. IsFiniteSet(Slot) /\ Cardinality(Slot) = Max
    BY FleetAssumption, FS_Interval DEF Slot
  <2> QED
    BY <2>1, <2>2, FS_Injection
<1> QED
  BY <1>1, Invariance, PTL

-----------------------------------------------------------------------------
(* The local semaphores count the callers inside them.                     *)

\* Callers without a local permit.
Outside == {"idle", "local"}

\* The callers inside a local semaphore, for the program counters p and the
\* handles m.
Inside(p, m, r, g) == {c \in Caller : HomeOf[c] = r /\ m[c] = g /\ p[c] \notin Outside}

\* The set S and the free slots a make up the cap.
Fits(a, S) == IsFiniteSet(S) /\ a + Cardinality(S) = Max

\* Local permits are out or available.
Counts == \A r \in Replica, g \in Gen : Fits(avail[r][g], Inside(pc, sem, r, g))

\* One more caller inside, or one less.
LEMMA FitsMoves ==
    ASSUME NEW a \in Nat, NEW S, Fits(a, S), NEW c
    PROVE  /\ c \notin S => Fits(a - 1, S \cup {c})
           /\ c \in S => Fits(a + 1, S \ {c})
<1>1. IsFiniteSet(S) /\ Cardinality(S) \in Nat /\ a + Cardinality(S) = Max
  BY FS_CardinalityType DEF Fits
<1>2. c \notin S => Fits(a - 1, S \cup {c})
  <2>1. c \notin S => IsFiniteSet(S \cup {c}) /\ Cardinality(S \cup {c}) = Cardinality(S) + 1
    BY <1>1, FS_AddElement
  <2> QED BY <1>1, <2>1 DEF Fits
<1>3. c \in S => Fits(a + 1, S \ {c})
  <2>1. c \in S => IsFiniteSet(S \ {c}) /\ Cardinality(S \ {c}) = Cardinality(S) - 1
    BY <1>1, FS_RemoveElement
  <2> QED BY <1>1, <2>1 DEF Fits
<1> QED BY <1>2, <1>3

\* A caller that stays outside, or stays inside with its handle, does not count.
LEMMA StaysCounts ==
    ASSUME TypeOK, Counts, avail' = avail, NEW c \in Caller,
           \A d \in Caller \ {c} : pc'[d] = pc[d] /\ sem'[d] = sem[d],
           \/ pc[c] \in Outside /\ pc'[c] \in Outside
           \/ pc[c] \notin Outside /\ pc'[c] \notin Outside /\ sem'[c] = sem[c]
    PROVE  Counts'
<1>1. ASSUME NEW r \in Replica, NEW g \in Gen PROVE Inside(pc', sem', r, g) = Inside(pc, sem, r, g)
  BY DEF Inside
<1> QED BY <1>1 DEF Counts

\* A caller that comes in takes a slot of its semaphore, and one that leaves
\* gives it back.
LEMMA EntersCounts ==
    ASSUME TypeOK, Counts, NEW c \in Caller, TakeLocal(c),
           \A d \in Caller \ {c} : pc'[d] = pc[d],
           sem' = sem, pc[c] \in Outside, pc'[c] \notin Outside
    PROVE  Counts'
<1> SUFFICES ASSUME NEW r \in Replica, NEW g \in Gen
             PROVE  Fits(avail'[r][g], Inside(pc', sem', r, g))
  BY DEF Counts
<1>a. avail \in [Replica -> [Gen -> Nat]] /\ HomeOf[c] \in Replica /\ sem[c] \in Gen
  BY FleetAssumption DEF TypeOK
<1>1. avail[r][g] \in Nat /\ Fits(avail[r][g], Inside(pc, sem, r, g))
  BY <1>a DEF Counts
<1>2. CASE r = HomeOf[c] /\ g = sem[c]
  <2>1. avail'[r][g] = avail[r][g] - 1
    BY <1>2, <1>a DEF TakeLocal
  <2>2. Inside(pc', sem', r, g) = Inside(pc, sem, r, g) \cup {c} /\ c \notin Inside(pc, sem, r, g)
    BY <1>2 DEF Inside
  <2>3. Fits(avail[r][g] - 1, Inside(pc, sem, r, g) \cup {c})
    BY <1>1, <2>2, FitsMoves
  <2> QED BY <2>1, <2>2, <2>3
<1>3. CASE ~(r = HomeOf[c] /\ g = sem[c])
  <2>1. avail'[r][g] = avail[r][g]
    BY <1>3, <1>a DEF TakeLocal
  <2>2. Inside(pc', sem', r, g) = Inside(pc, sem, r, g)
    BY <1>3 DEF Inside
  <2> QED BY <1>1, <2>1, <2>2
<1> QED BY <1>2, <1>3

LEMMA LeavesCounts ==
    ASSUME TypeOK, Counts, NEW c \in Caller, Leave(c), DropLocal(c), pc[c] \notin Outside
    PROVE  Counts'
<1> SUFFICES ASSUME NEW r \in Replica, NEW g \in Gen
             PROVE  Fits(avail'[r][g], Inside(pc', sem', r, g))
  BY DEF Counts
<1>a. avail \in [Replica -> [Gen -> Nat]] /\ HomeOf[c] \in Replica /\ sem[c] \in Gen
  BY FleetAssumption DEF TypeOK
<1>1. avail[r][g] \in Nat /\ Fits(avail[r][g], Inside(pc, sem, r, g))
  BY <1>a DEF Counts
<1>0. pc'[c] \in Outside /\ \A d \in Caller \ {c} : pc'[d] = pc[d] /\ sem'[d] = sem[d]
  BY DEF Leave, Goto, TypeOK, Outside
<1>2. CASE r = HomeOf[c] /\ g = sem[c]
  <2>1. avail'[r][g] = avail[r][g] + 1
    BY <1>2, <1>a DEF DropLocal
  <2>2. Inside(pc', sem', r, g) = Inside(pc, sem, r, g) \ {c} /\ c \in Inside(pc, sem, r, g)
    BY <1>0, <1>2 DEF Inside
  <2>3. Fits(avail[r][g] + 1, Inside(pc, sem, r, g) \ {c})
    BY <1>1, <2>2, FitsMoves
  <2> QED BY <2>1, <2>2, <2>3
<1>3. CASE ~(r = HomeOf[c] /\ g = sem[c])
  <2>1. avail'[r][g] = avail[r][g]
    BY <1>3, <1>a DEF DropLocal
  <2>2. Inside(pc', sem', r, g) = Inside(pc, sem, r, g)
    BY <1>0, <1>3 DEF Inside
  <2> QED BY <1>1, <2>1, <2>2
<1> QED BY <1>2, <1>3

\* Acquires, releases, abandoned acquires, pruning and restarts keep the counts.
LEMMA Counting == TypeOK /\ Counts /\ [Next]_vars => Counts'
<1> SUFFICES ASSUME TypeOK, Counts, [Next]_vars PROVE Counts'
  OBVIOUS
<1>t. pc \in [Caller -> Place]
      /\ sem \in [Caller -> Gen]
  BY DEF TypeOK, Place
<1>u. ASSUME UNCHANGED <<pc, sem, avail>> PROVE Counts'
  BY <1>u DEF Counts
<1>1. CASE Tick \/ UNCHANGED vars
  BY <1>u, <1>1 DEF Tick, vars
<1>l. ASSUME NEW c \in Caller, Leave(c)
      PROVE  pc'[c] \in Outside /\ \A d \in Caller \ {c} : pc'[d] = pc[d] /\ sem'[d] = sem[d]
  BY <1>t, <1>l DEF Leave, Goto, Outside
<1>2. ASSUME NEW c \in Caller, Enter(c) PROVE Counts'
  <2>1. /\ pc[c] \in Outside /\ pc'[c] \in Outside /\ avail' = avail
        /\ \A d \in Caller \ {c} : pc'[d] = pc[d] /\ sem'[d] = sem[d]
    BY <1>t, <1>2 DEF Enter, Goto, Outside
  <2> QED BY <2>1, StaysCounts
<1>3. ASSUME NEW c \in Caller, AcquireLocal(c) PROVE Counts'
  <2>0. pc[c] \in Outside
    BY <1>3 DEF AcquireLocal, Outside
  <2>1. CASE Leave(c) /\ UNCHANGED avail
    BY <1>l, <2>0, <2>1, StaysCounts
  <2>2. CASE TakeLocal(c) /\ sem' = sem /\ (Goto(c, "wait") \/ Goto(c, "take"))
    <3>1. pc'[c] \notin Outside /\ \A d \in Caller \ {c} : pc'[d] = pc[d]
      BY <1>t, <2>2 DEF Goto, Outside
    <3> QED BY <2>0, <2>2, <3>1, EntersCounts
  <2> QED BY <1>3, <2>1, <2>2 DEF AcquireLocal
<1>m. ASSUME NEW c \in Caller, pc[c] \notin Outside, UNCHANGED <<sem, avail>>,
             NEW p \in {"take", "took", "wait", "holding", "freeing", "again"}, Goto(c, p) PROVE Counts'
  <2>1. pc'[c] \notin Outside /\ \A d \in Caller \ {c} : pc'[d] = pc[d]
    BY <1>t, <1>m DEF Goto, Outside
  <2> QED BY <1>m, <2>1, StaysCounts
<1>4. ASSUME NEW c \in Caller, NEW s \in Slot, Take(c, s) PROVE Counts'
  <2>0. pc[c] \notin Outside
    BY <1>4 DEF Take, Outside
  <2> QED BY <1>4, <1>u, <1>m, <2>0, LeavesCounts DEF Take
<1>5. ASSUME NEW c \in Caller, Hold(c) \/ Release(c) PROVE Counts'
  <2>0. pc[c] \notin Outside
    BY <1>5 DEF Hold, Release, Outside
  <2> QED BY <1>5, <1>m, <2>0 DEF Hold, Release
<1>6. ASSUME NEW c \in Caller, FoundFull(c) \/ Wake(c) PROVE Counts'
  <2>0. pc[c] \notin Outside
    BY <1>6 DEF FoundFull, Wake, Outside
  <2> QED BY <1>6, <1>m, <2>0, LeavesCounts DEF FoundFull, Wake
<1>7. ASSUME NEW c \in Caller, Abandon(c) PROVE Counts'
  <2>1. CASE pc[c] = "local"
    <3>1. pc[c] \in Outside /\ Leave(c) /\ avail' = avail
      BY <1>7, <2>1 DEF Abandon, Outside
    <3> QED BY <1>l, <3>1, StaysCounts
  <2>2. CASE pc[c] # "local"
    <3>1. pc[c] \notin Outside /\ Leave(c) /\ DropLocal(c)
      BY <1>7, <2>2 DEF Abandon, Outside
    <3> QED BY <3>1, LeavesCounts
  <2> QED BY <2>1, <2>2
<1>8. ASSUME NEW c \in Caller, Free(c) \/ FreeFails(c) PROVE Counts'
  <2>0. pc[c] \notin Outside
    BY <1>8 DEF Free, FreeFails, Outside
  <2>1. CASE Freed(c)
    BY <2>0, <2>1, LeavesCounts DEF Freed
  <2>2. CASE ~Freed(c)
    <3>1. UNCHANGED <<sem, avail>> /\ (Goto(c, "again") \/ UNCHANGED pc)
      BY <1>8, <2>2 DEF Free, FreeFails
    <3> QED BY <1>u, <1>m, <2>0, <3>1
  <2> QED BY <2>1, <2>2
<1>9. ASSUME NEW r \in Replica, StartPass(r) \/ FullEnds(r) PROVE Counts'
  BY <1>u, <1>9 DEF StartPass, FullEnds
<1>10. ASSUME NEW r \in Replica, NEW s \in Slot, Extend(r, s) \/ Retake(r, s) PROVE Counts'
  BY <1>u, <1>10 DEF Extend, Retake
<1>11. ASSUME NEW r \in Replica, Restart(r) PROVE Counts'
  <2> SUFFICES ASSUME NEW q \in Replica, NEW g \in Gen
               PROVE  Fits(avail'[q][g], Inside(pc', sem', q, g))
    BY DEF Counts
  <2>1. CASE q = r
    <3>1. avail'[q][g] = Max /\ Inside(pc', sem', q, g) = {}
      BY <1>11, <2>1 DEF Restart, TypeOK, Inside, Outside
    <3> QED BY <3>1, FS_EmptySet, FleetAssumption DEF Fits
  <2>2. CASE q # r
    <3>1. avail'[q][g] = avail[q][g] /\ Inside(pc', sem', q, g) = Inside(pc, sem, q, g)
      BY <1>11, <2>2 DEF Restart, TypeOK, Inside
    <3> QED BY <3>1 DEF Counts
  <2> QED BY <2>1, <2>2
<1> QED
  BY <1>1, <1>2, <1>3, <1>4, <1>5, <1>6, <1>7, <1>8, <1>9, <1>10, <1>11
     DEF Next, CallerStep, ReplicaStep, Refresher

\* Each local semaphore has as many free slots as callers are not inside it:
\* no early return, dropped future, failed call or pruned semaphore leaks one.
THEOREM LocalSlotsAreCounted == Spec => []LocalCount
<1>1. Init => Counts
  <2> SUFFICES ASSUME Init, NEW r \in Replica, NEW g \in Gen
               PROVE  Fits(avail[r][g], Inside(pc, sem, r, g))
    BY DEF Counts
  <2>1. avail[r][g] = Max /\ Inside(pc, sem, r, g) = {}
    BY DEF Init, Inside, Outside
  <2> QED BY <2>1, FS_EmptySet, FleetAssumption DEF Fits
<1>2. Counts => LocalCount
  BY DEF Counts, Fits, Inside, Outside, LocalCount
<1> QED BY <1>1, <1>2, Counting, TypeCorrect, PTL DEF Spec

=============================================================================
