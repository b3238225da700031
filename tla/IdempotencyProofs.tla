------------------------- MODULE IdempotencyProofs -------------------------
(* Proofs about Idempotency, for any requests, bodies, TTL and clock bound. *)
EXTENDS Idempotency, TLAPS

USE DEF Record, Pc, Answer

\* Counting a replay changes nothing else of the record.
LEMMA BumpedFields ==
    ASSUME NEW record \in Record
    PROVE  /\ Bumped(record) \in Record
           /\ Bumped(record).state = record.state
           /\ Bumped(record).hash = record.hash
           /\ Bumped(record).outcome = record.outcome
           /\ Bumped(record).truncated = record.truncated
           /\ Bumped(record).expiresAt = record.expiresAt
  BY DEF Bumped

\* What complete() writes: into the record it found, or into a fresh one.
LEMMA CompletedFields ==
    ASSUME NEW r \in Request, now \in Nat, NEW found \in Record \cup {NoRecord}
    PROVE  /\ Completed(r, found) \in Record
           /\ Completed(r, found).state = "completed"
           /\ Completed(r, found).outcome = r
           /\ Completed(r, found).truncated = OverCap(r)
           /\ found # NoRecord =>
                /\ Completed(r, found).hash = found.hash
                /\ Completed(r, found).expiresAt = found.expiresAt
<1> USE ConstantsAssumption, NoRecordAssumption
<1>0. OverCap(r) \in BOOLEAN
  BY DEF OverCap
<1>1. CASE found = NoRecord
  BY <1>0, <1>1 DEF Completed
<1>2. CASE found # NoRecord
  BY <1>0, <1>2 DEF Completed
<1> QED
  BY <1>1, <1>2

\* Every step keeps every variable in its range; a put of a snapshot needs the
\* snapshot to be a record, hence SnapOK.
LEMMA Typing == TypeOK /\ SnapOK /\ [Next]_vars => TypeOK'
<1> SUFFICES ASSUME TypeOK, SnapOK, [Next]_vars PROVE TypeOK'
  OBVIOUS
<1> USE ConstantsAssumption, NoRecordAssumption DEF TypeOK
<1>1. CASE Tick
  BY <1>1 DEF Tick
<1>2. ASSUME NEW r \in Request, Peek(r) PROVE TypeOK'
  BY <1>2 DEF Peek, Get, Seen, Continue, Finish, Goto, Keep, Refuse
<1>3. ASSUME NEW r \in Request, BumpPeek(r) PROVE TypeOK'
  <2>1. snap[r] \in Record
    BY <1>3 DEF BumpPeek, SnapOK, At
  <2>2. kv' \in Record \cup {NoRecord} /\ deadline' \in Nat
    BY <1>3, <2>1, BumpedFields DEF BumpPeek, BestEffortPut, Put, RemainingTtl
  <2>3. pc' \in [Request -> Pc] /\ answer' \in [Request -> Answer]
    BY <1>3, <2>1 DEF BumpPeek, Continue, Finish, Goto
  <2> QED
    BY <1>3, <2>2, <2>3 DEF BumpPeek
<1>4. ASSUME NEW r \in Request, Gates(r) PROVE TypeOK'
  BY <1>4 DEF Gates, Continue, Finish, Goto
<1>5. ASSUME NEW r \in Request, ReserveRead(r) PROVE TypeOK'
  <2>1. Reservation(r) \in Record /\ Seen \in Record \cup {NoRecord}
    BY DEF Reservation, Seen
  <2> QED
    BY <1>5, <2>1 DEF ReserveRead, Get, Continue, Finish, Goto, Keep, Refuse
<1>6. ASSUME NEW r \in Request, BumpReserve(r) PROVE TypeOK'
  BY <1>6, BumpedFields DEF BumpReserve, SnapOK, At, BestEffortPut, Put, RemainingTtl,
              ReplayOrRerun, Continue, Finish, Goto
<1>7. ASSUME NEW r \in Request, Claim(r) PROVE TypeOK'
  <2>1. snap[r] \in Record
    BY <1>7 DEF Claim, SnapOK, At
  <2>2. kv' \in Record \cup {NoRecord} /\ deadline' \in Nat
    BY <1>7, <2>1 DEF Claim, Put
  <2>3. pc' \in [Request -> Pc] /\ reserved' \subseteq Request /\ answer' = answer
    BY <1>7 DEF Claim, Continue, Goto
  <2> QED
    BY <1>7, <2>2, <2>3 DEF Claim
<1>8. ASSUME NEW r \in Request, Classify(r) PROVE TypeOK'
  <2>1. Seen \in Record \cup {NoRecord}
    BY DEF Seen
  <2>2. /\ pc' \in [Request -> Pc] /\ answer' \in [Request -> Answer]
        /\ reserved' \subseteq Request
    BY <1>8, <2>1 DEF Classify, Refuse, ReplayOrRerun, Continue, Finish, Goto
  <2>3. purge' \subseteq Request /\ tries' \in [Request -> Nat]
    BY <1>8 DEF Classify, Get, Refuse, ReplayOrRerun
  <2> QED
    BY <1>8, <2>2, <2>3 DEF Classify
<1>9. ASSUME NEW r \in Request, Dispatch(r) PROVE TypeOK'
  <2>1. /\ pc' \in [Request -> Pc] /\ answer' \in [Request -> Answer]
        /\ dispatched' \subseteq Request
    BY <1>9 DEF Dispatch, Continue, Finish, Goto
  <2> QED
    BY <1>9, <2>1 DEF Dispatch
<1>10. ASSUME NEW r \in Request, CompleteRead(r) PROVE TypeOK'
  <2>1. Completed(r, Seen) \in Record
    BY CompletedFields DEF Seen
  <2>2. pc' \in [Request -> Pc] /\ answer' \in [Request -> Answer]
    BY <1>10 DEF CompleteRead, Continue, Finish, Goto
  <2>3. purge' \subseteq Request /\ snap' \in [Request -> Record \cup {NoRecord}]
    BY <1>10, <2>1 DEF CompleteRead, Get, Keep
  <2> QED
    BY <1>10, <2>2, <2>3 DEF CompleteRead
<1>11. ASSUME NEW r \in Request, CompletePut(r) PROVE TypeOK'
  BY <1>11 DEF CompletePut, SnapOK, At, BestEffortPut, Put, RemainingTtl, Finish, Goto
<1>12. ASSUME NEW r \in Request, Purge(r) PROVE TypeOK'
  BY <1>12 DEF Purge
<1>13. ASSUME NEW r \in Request, Drop(r) PROVE TypeOK'
  BY <1>13 DEF Drop, Goto
<1>14. CASE UNCHANGED vars
  BY <1>14 DEF vars
<1> QED
  BY <1>1, <1>2, <1>3, <1>4, <1>5, <1>6, <1>7, <1>8, <1>9, <1>10, <1>11,
     <1>12, <1>13, <1>14 DEF Next, Step

\* Snapshots and stored records keep naming envelopes of dispatches.
LEMMA Snapshots ==
    TypeOK /\ SnapOK /\ [Next]_vars => SnapOK'
<1> SUFFICES ASSUME TypeOK, SnapOK, [Next]_vars PROVE SnapOK'
  OBVIOUS
<1> USE ConstantsAssumption, NoRecordAssumption DEF TypeOK, SnapOK
<1>1. CASE Tick
  BY <1>1 DEF Tick
<1>2. ASSUME NEW r \in Request, Peek(r) PROVE SnapOK'
  BY <1>2 DEF Peek, At, Get, Seen, Continue, Finish, Goto, Keep, Refuse, Replayable
<1>3. ASSUME NEW r \in Request, BumpPeek(r) PROVE SnapOK'
  BY <1>3, BumpedFields DEF BumpPeek, At, BestEffortPut, Put, Continue, Finish, Goto
<1>4. ASSUME NEW r \in Request, Gates(r) PROVE SnapOK'
  BY <1>4 DEF Gates, At, Continue, Finish, Goto
<1>5. ASSUME NEW r \in Request, ReserveRead(r) PROVE SnapOK'
  <2>1. CASE Continue(r, "dispatch") /\ UNCHANGED snap
    BY <1>5, <2>1 DEF ReserveRead, At, Continue, Goto
  <2>2. CASE Refuse(r, Seen) /\ UNCHANGED snap
    BY <1>5, <2>2 DEF ReserveRead, At, Refuse, Finish, Goto
  <2>3. CASE Continue(r, "claim") /\ Keep(r, Reservation(r))
    <3>1. Reservation(r) \in Record /\ Reservation(r).state = "in_flight"
      BY DEF Reservation
    <3>2. Reservation(r) # NoRecord
      BY <3>1
    <3> QED
      BY <1>5, <2>3, <3>1, <3>2 DEF ReserveRead, At, Continue, Goto, Keep
  <2>4. CASE Seen # NoRecord /\ Replayable(r, Seen) /\ Continue(r, "bump_reserve") /\ Keep(r, Seen)
    BY <1>5, <2>4 DEF ReserveRead, At, Seen, Replayable, Continue, Goto, Keep
  <2> QED
    BY <1>5, <2>1, <2>2, <2>3, <2>4 DEF ReserveRead
<1>6. ASSUME NEW r \in Request, BumpReserve(r) PROVE SnapOK'
  BY <1>6, BumpedFields DEF BumpReserve, At, BestEffortPut, Put, ReplayOrRerun, Continue, Finish, Goto
<1>7. ASSUME NEW r \in Request, Claim(r) PROVE SnapOK'
  BY <1>7 DEF Claim, At, Put, Continue, Goto
<1>8. ASSUME NEW r \in Request, Classify(r) PROVE SnapOK'
  BY <1>8 DEF Classify, At, Get, Seen, Refuse, Replayable, ReplayOrRerun, Continue, Finish, Goto
<1>9. ASSUME NEW r \in Request, Dispatch(r) PROVE SnapOK'
  BY <1>9 DEF Dispatch, At, Continue, Finish, Goto
<1>10. ASSUME NEW r \in Request, CompleteRead(r) PROVE SnapOK'
  BY <1>10, CompletedFields DEF CompleteRead, At, Get, Seen, Continue, Finish, Goto, Keep
<1>11. ASSUME NEW r \in Request, CompletePut(r) PROVE SnapOK'
  BY <1>11 DEF CompletePut, At, BestEffortPut, Put, Finish, Goto
<1>12. ASSUME NEW r \in Request, Purge(r) PROVE SnapOK'
  BY <1>12 DEF Purge, At
<1>13. ASSUME NEW r \in Request, Drop(r) PROVE SnapOK'
  BY <1>13 DEF Drop, At, Goto
<1>14. CASE UNCHANGED vars
  BY <1>14 DEF vars
<1> QED
  BY <1>1, <1>2, <1>3, <1>4, <1>5, <1>6, <1>7, <1>8, <1>9, <1>10, <1>11, <1>12, <1>13, <1>14 DEF Next, Step

\* The first window stays a window of one reservation.
LEMMA Window ==
    TypeOK /\ SnapOK /\ FirstWindow /\ [Next]_vars => FirstWindow'
<1> SUFFICES ASSUME TypeOK, SnapOK, FirstWindow, [Next]_vars, now' < Ttl, ~marked'
             PROVE  OneReservation'
  BY DEF FirstWindow
<1> USE ConstantsAssumption, NoRecordAssumption DEF TypeOK
<1>0. now < Ttl /\ ~marked /\ OneReservation
  BY DEF FirstWindow, Next, Tick, Step, Peek, BumpPeek, Gates, ReserveRead, BumpReserve,
         Claim, Classify, Dispatch, CompleteRead, CompletePut, Purge, Drop, vars
<1>a. Seen = kv /\ (Live <=> kv # NoRecord)
  BY <1>0 DEF Seen, Live, OneReservation
<1> USE <1>0, <1>a DEF OneReservation, Authentic
<1>1. CASE Tick
  BY <1>1 DEF Tick
<1>2. ASSUME NEW r \in Request, Peek(r) PROVE OneReservation'
  BY <1>2 DEF SnapOK, Peek, At, Get, Continue, Finish, Goto, Keep, Refuse, Replayable
<1>3. ASSUME NEW r \in Request, BumpPeek(r) PROVE OneReservation'
  BY <1>3, BumpedFields DEF SnapOK, BumpPeek, At, BestEffortPut, Put, RemainingTtl, Continue, Finish, Goto
<1>4. ASSUME NEW r \in Request, Gates(r) PROVE OneReservation'
  BY <1>4 DEF SnapOK, Gates, At, Continue, Finish, Goto
<1>5. ASSUME NEW r \in Request, ReserveRead(r) PROVE OneReservation'
  BY <1>5 DEF SnapOK, ReserveRead, At, Get, Continue, Finish, Goto, Keep, Refuse, Replayable, Reservation
<1>6. ASSUME NEW r \in Request, BumpReserve(r) PROVE OneReservation'
  BY <1>6, BumpedFields DEF SnapOK, BumpReserve, At, BestEffortPut, Put, RemainingTtl, ReplayOrRerun, Continue, Finish, Goto
<1>7. ASSUME NEW r \in Request, Claim(r) PROVE OneReservation'
  BY <1>7 DEF SnapOK, Claim, At, Put, Continue, Goto
<1>8. ASSUME NEW r \in Request, Classify(r) PROVE OneReservation'
  BY <1>8 DEF SnapOK, Classify, At, Get, Refuse, Replayable, ReplayOrRerun, Continue, Finish, Goto
<1>9. ASSUME NEW r \in Request, Dispatch(r) PROVE OneReservation'
  BY <1>9 DEF SnapOK, Dispatch, At, Continue, Finish, Goto
<1>10. ASSUME NEW r \in Request, CompleteRead(r) PROVE OneReservation'
  BY <1>10, CompletedFields DEF SnapOK, CompleteRead, At, Get, Continue, Finish, Goto, Keep
<1>11. ASSUME NEW r \in Request, CompletePut(r) PROVE OneReservation'
  BY <1>11 DEF SnapOK, CompletePut, At, BestEffortPut, Put, RemainingTtl, Finish, Goto
<1>12. ASSUME NEW r \in Request, Purge(r) PROVE OneReservation'
  BY <1>12 DEF SnapOK, Purge, At
<1>13. ASSUME NEW r \in Request, Drop(r) PROVE OneReservation'
  BY <1>13 DEF SnapOK, Drop, At, Goto
<1>14. CASE UNCHANGED vars
  BY <1>14 DEF vars
<1> QED
  BY <1>1, <1>2, <1>3, <1>4, <1>5, <1>6, <1>7, <1>8, <1>9, <1>10, <1>11, <1>12, <1>13, <1>14 DEF Next, Step

\* A replay answers with the envelope of a dispatch.
LEMMA Replays ==
    TypeOK /\ SnapOK /\ ReplayOnlyDispatched /\ [Next]_vars => ReplayOnlyDispatched'
<1> SUFFICES ASSUME TypeOK, SnapOK, ReplayOnlyDispatched, [Next]_vars
             PROVE  ReplayOnlyDispatched'
  OBVIOUS
<1> USE ConstantsAssumption, NoRecordAssumption DEF TypeOK, SnapOK, ReplayOnlyDispatched
<1>1. CASE Tick
  BY <1>1 DEF Tick
<1>2. ASSUME NEW r \in Request, Peek(r) PROVE ReplayOnlyDispatched'
  BY <1>2 DEF Peek, At, Continue, Finish, Refuse
<1>3. ASSUME NEW r \in Request, BumpPeek(r) PROVE ReplayOnlyDispatched'
  BY <1>3 DEF BumpPeek, At, Continue, Finish
<1>4. ASSUME NEW r \in Request, Gates(r) PROVE ReplayOnlyDispatched'
  BY <1>4 DEF Gates, At, Continue, Finish
<1>5. ASSUME NEW r \in Request, ReserveRead(r) PROVE ReplayOnlyDispatched'
  BY <1>5 DEF ReserveRead, At, Continue, Finish, Refuse
<1>6. ASSUME NEW r \in Request, BumpReserve(r) PROVE ReplayOnlyDispatched'
  BY <1>6 DEF BumpReserve, At, ReplayOrRerun, Continue, Finish
<1>7. ASSUME NEW r \in Request, Claim(r) PROVE ReplayOnlyDispatched'
  BY <1>7 DEF Claim, At, Continue
<1>8. ASSUME NEW r \in Request, Classify(r) PROVE ReplayOnlyDispatched'
  BY <1>8 DEF Classify, At, Seen, Refuse, Replayable, ReplayOrRerun, Continue, Finish
<1>9. ASSUME NEW r \in Request, Dispatch(r) PROVE ReplayOnlyDispatched'
  BY <1>9 DEF Dispatch, At, Continue, Finish
<1>10. ASSUME NEW r \in Request, CompleteRead(r) PROVE ReplayOnlyDispatched'
  BY <1>10 DEF CompleteRead, At, Continue, Finish
<1>11. ASSUME NEW r \in Request, CompletePut(r) PROVE ReplayOnlyDispatched'
  BY <1>11 DEF CompletePut, At, Finish
<1>12. ASSUME NEW r \in Request, Purge(r) PROVE ReplayOnlyDispatched'
  BY <1>12 DEF Purge, At
<1>13. ASSUME NEW r \in Request, Drop(r) PROVE ReplayOnlyDispatched'
  BY <1>13 DEF Drop, At
<1>14. CASE UNCHANGED vars
  BY <1>14 DEF vars
<1> QED
  BY <1>1, <1>2, <1>3, <1>4, <1>5, <1>6, <1>7, <1>8, <1>9, <1>10, <1>11, <1>12, <1>13, <1>14 DEF Next, Step

\* In the first window it answers with the reserved dispatch of the same body.
LEMMA WindowReplays ==
    TypeOK /\ SnapOK /\ FirstWindow /\ ReplayIsTheDispatch /\ [Next]_vars
        => ReplayIsTheDispatch'
<1> SUFFICES ASSUME TypeOK, SnapOK, FirstWindow, ReplayIsTheDispatch, [Next]_vars,
                    now' < Ttl, ~marked',
                    NEW q \in Request, answer'[q].kind = "replay"
             PROVE  /\ answer'[q].from \in reserved' \cap dispatched'
                    /\ BodyOf[answer'[q].from] = BodyOf[q]
  BY DEF ReplayIsTheDispatch
<1> DEFINE Goal == /\ answer'[q].from \in reserved' \cap dispatched'
                   /\ BodyOf[answer'[q].from] = BodyOf[q]
<1> USE ConstantsAssumption, NoRecordAssumption DEF TypeOK
<1>0. now < Ttl /\ ~marked /\ OneReservation
  BY DEF FirstWindow, Next, Tick, Step, Peek, BumpPeek, Gates, ReserveRead, BumpReserve,
         Claim, Classify, Dispatch, CompleteRead, CompletePut, Purge, Drop, vars
<1> USE <1>0 DEF OneReservation, Authentic, ReplayIsTheDispatch
<1>1. CASE Tick
  BY <1>1 DEF Tick
<1>2. ASSUME NEW r \in Request, Peek(r) PROVE Goal
  BY <1>2 DEF Peek, At, Continue, Finish, Refuse
<1>3. ASSUME NEW r \in Request, BumpPeek(r) PROVE Goal
  BY <1>3 DEF BumpPeek, At, Continue, Finish
<1>4. ASSUME NEW r \in Request, Gates(r) PROVE Goal
  BY <1>4 DEF Gates, At, Continue, Finish
<1>5. ASSUME NEW r \in Request, ReserveRead(r) PROVE Goal
  BY <1>5 DEF ReserveRead, At, Continue, Finish, Refuse
<1>6. ASSUME NEW r \in Request, BumpReserve(r) PROVE Goal
  BY <1>6 DEF BumpReserve, At, ReplayOrRerun, Continue, Finish
<1>7. ASSUME NEW r \in Request, Claim(r) PROVE Goal
  BY <1>7 DEF Claim, At, Continue
<1>8. ASSUME NEW r \in Request, Classify(r) PROVE Goal
  BY <1>8 DEF Classify, At, Seen, Refuse, Replayable, ReplayOrRerun, Continue, Finish
<1>9. ASSUME NEW r \in Request, Dispatch(r) PROVE Goal
  BY <1>9 DEF Dispatch, At, Continue, Finish
<1>10. ASSUME NEW r \in Request, CompleteRead(r) PROVE Goal
  BY <1>10 DEF CompleteRead, At, Continue, Finish
<1>11. ASSUME NEW r \in Request, CompletePut(r) PROVE Goal
  BY <1>11 DEF CompletePut, At, Finish
<1>12. ASSUME NEW r \in Request, Purge(r) PROVE Goal
  BY <1>12 DEF Purge, At
<1>13. ASSUME NEW r \in Request, Drop(r) PROVE Goal
  BY <1>13 DEF Drop, At
<1>14. CASE UNCHANGED vars
  BY <1>14 DEF vars
<1> QED
  BY <1>1, <1>2, <1>3, <1>4, <1>5, <1>6, <1>7, <1>8, <1>9, <1>10, <1>11, <1>12, <1>13, <1>14 DEF Next, Step

\* IInv is inductive.
LEMMA Inductive == IInv /\ [Next]_vars => IInv'
  BY Typing, Snapshots, Window, Replays, WindowReplays DEF IInv

\* Before the first request the store is empty.
LEMMA Initially == Init => IInv
<1> SUFFICES ASSUME Init PROVE IInv
  OBVIOUS
<1> USE ConstantsAssumption, NoRecordAssumption DEF Init
<1>1. TypeOK
  BY DEF TypeOK
<1>2. SnapOK
  BY DEF SnapOK
<1>3. FirstWindow
  BY DEF FirstWindow, OneReservation
<1>4. ReplayIsTheDispatch /\ ReplayOnlyDispatched
  BY DEF ReplayIsTheDispatch, ReplayOnlyDispatched
<1> QED
  BY <1>1, <1>2, <1>3, <1>4 DEF IInv

\* The inductive invariant holds in every reachable state.
THEOREM Invariance == Spec => []IInv
  BY Initially, Inductive, PTL DEF Spec

\* The record under the key, what a request read of it and the replay counts
\* stay within their ranges.
THEOREM TypeCorrect == Spec => []TypeOK
<1>1. IInv => TypeOK
  BY DEF IInv
<1> QED
  BY <1>1, Invariance, PTL

\* kv_store.rs reserve_or_get and tools_call.rs: within the first record's
\* lifetime at most one request dispatches under a reservation.
THEOREM DispatchesOnce == Spec => []SingleDispatch
<1>1. IInv => SingleDispatch
  BY DEF IInv, FirstWindow, OneReservation, SingleDispatch
<1> QED
  BY <1>1, Invariance, PTL

\* kv_store.rs peek and reserve_or_get: every replay within the first record's
\* lifetime is the envelope of that dispatch, for the same body.
THEOREM ReplaysTheDispatch == Spec => []ReplayIsTheDispatch
<1>1. IInv => ReplayIsTheDispatch
  BY DEF IInv
<1> QED
  BY <1>1, Invariance, PTL

\* No replayed envelope is invented, at any time.
THEOREM ReplaysDispatches == Spec => []ReplayOnlyDispatched
<1>1. IInv => ReplayOnlyDispatched
  BY DEF IInv
<1> QED
  BY <1>1, Invariance, PTL

\* kv_store.rs complete and the replay-count writes: within the first record's
\* lifetime a stored outcome is never lost or replaced.
THEOREM OutcomeIsKept == Spec => OutcomeSticks
<1> DEFINE Sticks == (now' < Ttl /\ ~marked' /\ kv # NoRecord /\ kv.state = "completed") =>
                        /\ kv' # NoRecord
                        /\ kv'.state = "completed"
                        /\ kv'.outcome = kv.outcome
<1>1. IInv /\ [Next]_vars => [Sticks]_vars
  <2> SUFFICES ASSUME IInv, Next, now' < Ttl, ~marked', kv # NoRecord, kv.state = "completed"
               PROVE  /\ kv' # NoRecord
                      /\ kv'.state = "completed"
                      /\ kv'.outcome = kv.outcome
    OBVIOUS
  <2> USE ConstantsAssumption, NoRecordAssumption DEF IInv, TypeOK
  <2>0. now < Ttl /\ ~marked /\ OneReservation
    BY DEF FirstWindow, Next, Tick, Step, Peek, BumpPeek, Gates, ReserveRead, BumpReserve,
           Claim, Classify, Dispatch, CompleteRead, CompletePut, Purge, Drop, vars
  <2> USE <2>0 DEF OneReservation, Authentic
  <2>1. ASSUME NEW r \in Request, BumpPeek(r) \/ BumpReserve(r)
        PROVE  kv' # NoRecord /\ kv'.state = "completed" /\ kv'.outcome = kv.outcome
    BY <2>1, BumpedFields DEF BumpPeek, BumpReserve, At, BestEffortPut, Put, SnapOK
  <2>2. ASSUME NEW r \in Request, CompletePut(r)
        PROVE  kv' # NoRecord /\ kv'.state = "completed" /\ kv'.outcome = kv.outcome
    BY <2>2 DEF CompletePut, At, BestEffortPut, Put, SnapOK
  <2>3. ASSUME NEW r \in Request, Claim(r) PROVE UNCHANGED kv
    BY <2>3 DEF Claim, Live
  <2>4. ASSUME NEW r \in Request, Purge(r) PROVE FALSE
    BY <2>4 DEF Purge
  <2> QED
    BY <2>1, <2>2, <2>3, <2>4 DEF Next, Tick, Step, Peek, Gates, ReserveRead,
         Classify, Dispatch, CompleteRead, Drop
<1> QED
  BY <1>1, Invariance, PTL DEF Spec, OutcomeSticks

=============================================================================
