-------------------------- MODULE PipelinesProofs --------------------------
(***************************************************************************)
(* Proofs about Pipelines, for every set of responses, cancellations and   *)
(* reapers, every number of steps and every bound.                         *)
(***************************************************************************)
EXTENDS Pipelines, TLAPS

USE DEF Handler

-----------------------------------------------------------------------------
(* Type correctness.                                                       *)

Work == [at : Call, snap : Row, got : Row, mine : Nat, next : Nat]
Sweep == [at : {"idle", "purge", "expired", "load", "delete", "tell"},
          due : Row, owes : SUBSET BOOLEAN]

\* The calls each kind of handler makes, and what a handler knows before it
\* saves a suspension or sends its request.
Roles ==
    /\ work[Starter].at \in {"run", "save", "reload", "read", "patch", "send", "tell", "end"}
    /\ \A h \in Responder : work[h].at \in Call \ {"cancel", "reload", "read", "patch"}
    /\ \A h \in Canceller : work[h].at \in
           {"cancel", "claim", "mark", "bump", "tell", "delete", "end"}

Ready ==
    \A h \in Handler :
        /\ work[h].at = "save" => work[h].snap.step < Steps
        /\ work[h].at \in {"reload", "read", "patch", "send"} => work[h].next \in Ask

TInv == TypeOK /\ Roles /\ Ready

\* One handler's record is replaced by a typed one, fit for its role.
LEMMA WorkChange ==
    ASSUME TInv, NEW h \in Handler, NEW w \in Work,
           work' = [work EXCEPT ![h] = w], Ask \subseteq Ask',
           h = Starter => w.at \in {"run", "save", "reload", "read", "patch", "send", "tell", "end"},
           h \in Responder => w.at \in Call \ {"cancel", "reload", "read", "patch"},
           h \in Canceller => w.at \in {"cancel", "claim", "mark", "bump", "tell", "delete", "end"},
           w.at = "save" => w.snap.step < Steps,
           w.at \in {"reload", "read", "patch", "send"} => w.next \in Ask'
    PROVE  work' \in [Handler -> Work] /\ Roles' /\ Ready'
<1>1. work \in [Handler -> Work]
  BY DEF TInv, TypeOK, Work
<1>2. work' \in [Handler -> Work]
  BY <1>1
<1>3. \A g \in Handler : work'[g] = IF g = h THEN w ELSE work[g]
  BY <1>1
<1>4. Roles'
  BY <1>3, PipelinesAssumption DEF TInv, Roles
<1>5. Ready'
  BY <1>3 DEF TInv, Ready
<1> QED  BY <1>2, <1>4, <1>5

LEMMA Blank ==
    /\ NoRow \in Row /\ Ended \in Work /\ Ended.at = "end" /\ Asleep \in Sweep
    /\ \A c \in Call : Due(c) \in Work /\ Due(c).at = c
<1>1. NoRow \in Row
  BY PipelinesAssumption DEF NoRow, Row
<1>2. Ended \in Work /\ Ended.at = "end"
  BY <1>1 DEF Ended, Work, Call
<1>3. Asleep \in Sweep
  BY <1>1 DEF Asleep, Sweep
<1>4. \A c \in Call : Due(c) \in Work /\ Due(c).at = c
  BY <1>2 DEF Due, Work
<1> QED  BY <1>1, <1>2, <1>3, <1>4

LEMMA TInvInit == Init => TInv
<1> SUFFICES ASSUME Init PROVE TInv
  OBVIOUS
<1>1. \A h \in Handler : FirstCall(h) \in Call \ {"save", "reload", "read", "patch", "send"}
  BY DEF FirstCall, Call
<1>2. \A h \in Handler : work[h] \in Work /\ work[h].at = FirstCall(h)
  BY <1>1, Blank DEF Init
<1>3. work \in [Handler -> Work]
  BY <1>2 DEF Init
<1>4. Roles
  BY <1>2, PipelinesAssumption DEF Roles, FirstCall, Call
<1>5. Ready
  BY <1>1, <1>2 DEF Ready
<1>6. row \in Row /\ sweep \in [Reaper -> Sweep]
  BY Blank DEF Init
<1>7. leader \in Reaper \cup {Nobody} /\ resumed \in [1 .. Steps -> Nat]
  BY PipelinesAssumption DEF Init
<1>8. asked \in Seq(1 .. Steps) /\ events \in 0 .. MaxEvents
  BY PipelinesAssumption DEF Init
<1> QED  BY <1>3, <1>4, <1>5, <1>6, <1>7, <1>8 DEF TInv, TypeOK, Work, Sweep, Init

\* What TypeOK says of the variables but work.
Rest ==
    /\ row \in Row
    /\ marker \subseteq Nat
    /\ pending \subseteq Ask /\ sent \subseteq Ask /\ overdue \subseteq Ask
    /\ rpckey \in BOOLEAN /\ expired \in BOOLEAN /\ unsaid \in BOOLEAN
    /\ asked \in Seq(1 .. Steps)
    /\ leader \in Reaper \cup {Nobody}
    /\ sweep \in [Reaper -> Sweep]
    /\ told \subseteq BOOLEAN
    /\ resumed \in [1 .. Steps -> Nat]
    /\ events \in 0 .. MaxEvents

LEMMA Parts == TypeOK <=> Rest /\ work \in [Handler -> Work]
  BY DEF TypeOK, Rest, Work, Sweep

\* A handler's step that only reads.
LEMMA TInvGoto ==
    ASSUME TInv, NEW h \in Handler, NEW w \in Work, NEW c \in Call,
           Goto(h, c, w), Rest', Ask \subseteq Ask',
           h = Starter => c \in {"run", "save", "reload", "read", "patch", "send", "tell", "end"},
           h \in Responder => c \in Call \ {"cancel", "reload", "read", "patch"},
           h \in Canceller => c \in {"cancel", "claim", "mark", "bump", "tell", "delete", "end"},
           c = "save" => w.snap.step < Steps,
           c \in {"reload", "read", "patch", "send"} => w.next \in Ask'
    PROVE  TInv'
<1> DEFINE v == [w EXCEPT !.at = c]
<1>1. v \in Work /\ v.at = c /\ v.snap = w.snap /\ v.next = w.next
  BY DEF Work
<1>2. work' = [work EXCEPT ![h] = v]
  BY DEF Goto
<1> HIDE DEF v
<1>3. work' \in [Handler -> Work] /\ Roles' /\ Ready'
  BY <1>1, <1>2, WorkChange
<1> QED  BY <1>3 DEF TInv, TypeOK, Rest, Work, Sweep

LEMMA TInvEnd ==
    ASSUME TInv, NEW h \in Handler, End(h), Rest', Ask \subseteq Ask'
    PROVE  TInv'
<1>1. work' = [work EXCEPT ![h] = Ended]
  BY DEF End
<1>2. work' \in [Handler -> Work] /\ Roles' /\ Ready'
  BY <1>1, Blank, WorkChange DEF Call
<1> QED  BY <1>2 DEF TInv, TypeOK, Rest, Work, Sweep

LEMMA TInvHandler ==
    ASSUME TInv, NEW h \in Handler, HandlerStep(h) PROVE TInv'
<1>0. Rest /\ work[h] \in Work
  BY Parts DEF TInv
<1> DEFINE s == work[h]
<1>1. CASE Run(h)
  <2>0. resumed' \in [1 .. Steps -> Nat]
    <3>1. \A i \in 1 .. Steps : resumed[i] + 1 \in Nat
      BY <1>0, PipelinesAssumption DEF Rest
    <3> DEFINE D == 1 .. Steps
    <3>2. resumed \in [D -> Nat] /\ \A i \in D : resumed[i] + 1 \in Nat
      BY <1>0, <3>1 DEF Rest
    <3> HIDE DEF D
    <3>3. resumed' = resumed \/ resumed' = [resumed EXCEPT ![s.snap.step] = resumed[s.snap.step] + 1]
      BY <1>1 DEF Run
    <3>4. resumed' \in [D -> Nat]
      BY <3>2, <3>3
    <3> QED  BY <3>4 DEF D
  <2>1. Rest' /\ Ask' = Ask
    BY <1>0, <1>1, <2>0 DEF Run, Rest, store, client, reaping, clock, Ask
  <2>2. h \notin Canceller
    BY <1>1 DEF Run, TInv, Roles
  <2>3. CASE Goto(h, IF h = Starter THEN "tell" ELSE "delete", s)
    BY <1>0, <2>1, <2>2, <2>3, TInvGoto, PipelinesAssumption DEF Call
  <2>4. CASE s.snap.step < Steps /\ Goto(h, "save", s)
    BY <1>0, <2>1, <2>2, <2>4, TInvGoto, PipelinesAssumption DEF Call
  <2> QED  BY <1>1, <2>3, <2>4 DEF Run
<1>2. CASE Save(h)
  <2> DEFINE n == Len(asked) + 1
             new == Saved(s.snap, n)
  <2>1. s.at = "save" /\ s.snap.step < Steps /\ s.snap \in Row /\ n \in Nat
    BY <1>0, <1>2 DEF Save, TInv, Ready, Rest, Work
  <2>2. new \in Row /\ new.step \in 1 .. Steps
    <3>1. s.snap.ver + 1 \in Nat /\ s.snap.step + 1 \in 1 .. Steps
      BY <2>1, PipelinesAssumption DEF Row
    <3>2. new = [s.snap EXCEPT !.ver = s.snap.ver + 1, !.step = s.snap.step + 1, !.ask = n]
      BY DEF Saved
    <3>3. s.snap.step + 1 \in 0 .. Steps
      BY <3>1, PipelinesAssumption
    <3> DEFINE D == 0 .. Steps
               E == 1 .. Steps
    <3> HIDE DEF D, E, n, new
    <3>4. s.snap \in [ver : Nat, step : D, ask : Nat, rpc : BOOLEAN]
      BY <2>1 DEF D, Row
    <3>5. s.snap.step + 1 \in D /\ s.snap.step + 1 \in E
      BY <3>1, <3>3 DEF D, E
    <3>6. new \in [ver : Nat, step : D, ask : Nat, rpc : BOOLEAN] /\ new.step \in E
      BY <2>1, <3>1, <3>2, <3>4, <3>5
    <3> QED  BY <3>6 DEF D, E, Row
  <2>3. /\ row' = new
        /\ rpckey' = (rpckey \/ new.rpc)
        /\ pending' = pending \cup {n}
        /\ asked' = Append(asked, new.step)
        /\ Goto(h, IF h = Starter THEN "reload" ELSE "send", [s EXCEPT !.next = n])
        /\ UNCHANGED <<marker, sent, told, reaping, clock, resumed, unsaid, events>>
    BY <1>2 DEF Save
  <2> HIDE DEF new
  <2>4. asked' \in Seq(1 .. Steps) /\ Len(asked') = n /\ Ask \subseteq Ask' /\ n \in Ask'
    BY <1>0, <2>1, <2>2, <2>3 DEF Rest, Ask
  <2>5. Rest'
    BY <1>0, <2>2, <2>3, <2>4 DEF Rest, Row, reaping, clock
  <2>6. [s EXCEPT !.next = n] \in Work /\ [s EXCEPT !.next = n].next = n
    BY <1>0, <2>1 DEF Work
  <2>7. h \notin Canceller
    BY <2>1 DEF TInv, Roles
  <2> QED  BY <2>3, <2>4, <2>5, <2>6, <2>7, TInvGoto, PipelinesAssumption DEF Call
<1>3. CASE Send(h)
  <2>1. s.next \in Ask
    BY <1>3 DEF Send, TInv, Ready
  <2>2. Rest' /\ Ask' = Ask
    BY <1>0, <1>3, <2>1 DEF Send, Rest, reaping, clock, Ask
  <2> QED  BY <1>3, <2>2, TInvEnd DEF Send
<1>4. CASE Load(h)
  <2>1. Rest' /\ Ask' = Ask
    BY <1>0, <1>4 DEF Load, Rest, store, client, reaping, clock, Ask
  <2>2. h \in Responder
    BY <1>4 DEF Load, TInv, Roles
  <2>3. [s EXCEPT !.snap = row] \in Work
    BY <1>0 DEF Rest, Work
  <2>4. CASE Goto(h, "claim", [s EXCEPT !.snap = row])
    BY <2>1, <2>2, <2>3, <2>4, TInvGoto, PipelinesAssumption DEF Call
  <2>5. CASE End(h)
    BY <2>1, <2>5, TInvEnd
  <2> QED  BY <1>4, <2>4, <2>5 DEF Load
<1>5. CASE Delete(h)
  <2>1. Rest' /\ Ask' = Ask
    BY <1>0, <1>5, Blank DEF Delete, Rest, client, reaping, clock, Ask
  <2>2. h # Starter
    BY <1>5 DEF Delete, TInv, Roles
  <2>3. CASE Goto(h, "tell", s)
    BY <1>0, <2>1, <2>2, <2>3, TInvGoto, PipelinesAssumption DEF Call
  <2>4. CASE End(h)
    BY <2>1, <2>4, TInvEnd
  <2> QED  BY <1>5, <2>3, <2>4 DEF Delete
<1>6. CASE Tell(h)
  <2>1. (h = Starter \/ s.snap.rpc) \in BOOLEAN
    OBVIOUS
  <2>2. Rest' /\ Ask' = Ask
    BY <1>0, <1>6, <2>1 DEF Tell, Rest, reaping, clock, Ask
  <2>3. CASE h \in Canceller /\ Goto(h, "delete", s)
    BY <1>0, <2>2, <2>3, TInvGoto, PipelinesAssumption DEF Call
  <2>4. CASE End(h)
    BY <2>2, <2>4, TInvEnd
  <2> QED  BY <1>6, <2>3, <2>4 DEF Tell
<1>7. CASE ClaimRead(h)
  <2>1. Rest' /\ Ask' = Ask
    BY <1>0, <1>7 DEF ClaimRead, Rest, store, client, reaping, clock, Ask
  <2>2. h # Starter
    BY <1>7 DEF ClaimRead, TInv, Roles
  <2>3. [s EXCEPT !.got = row] \in Work
    BY <1>0 DEF Rest, Work
  <2>4. CASE Goto(h, "mark", [s EXCEPT !.got = row])
    BY <2>1, <2>2, <2>3, <2>4, TInvGoto, PipelinesAssumption DEF Call
  <2>5. CASE End(h)
    BY <2>1, <2>5, TInvEnd
  <2> QED  BY <1>7, <2>4, <2>5 DEF ClaimRead
<1>8. CASE ClaimMark(h)
  <2>1. s.snap.ver \in Nat
    BY <1>0 DEF Work, Row
  <2>2. Rest' /\ Ask' = Ask
    BY <1>0, <1>8, <2>1 DEF ClaimMark, Rest, client, reaping, clock, Ask
  <2>3. h # Starter
    BY <1>8 DEF ClaimMark, TInv, Roles
  <2>4. CASE Goto(h, "bump", s)
    BY <1>0, <2>2, <2>3, <2>4, TInvGoto, PipelinesAssumption DEF Call
  <2>5. CASE End(h)
    BY <2>2, <2>5, TInvEnd
  <2> QED  BY <1>8, <2>4, <2>5 DEF ClaimMark
<1>9. CASE ClaimWrite(h)
  <2>1. [s.got EXCEPT !.ver = @ + 1] \in Row
    BY <1>0 DEF Work, Row
  <2>2. Rest' /\ Ask' = Ask
    BY <1>0, <1>9, <2>1 DEF ClaimWrite, Rest, client, reaping, clock, Ask
  <2>3. h # Starter
    BY <1>9 DEF ClaimWrite, TInv, Roles
  <2>4. Goto(h, ClaimedNext(h), s)
    BY <1>9 DEF ClaimWrite
  <2> QED  BY <1>0, <2>2, <2>3, <2>4, TInvGoto, PipelinesAssumption DEF Call, ClaimedNext
<1> QED  BY <1>1, <1>2, <1>3, <1>4, <1>5, <1>6, <1>7, <1>8, <1>9 DEF HandlerStep

LEMMA TInvNext == TInv /\ [Next]_vars => TInv'
<1> SUFFICES ASSUME TInv, [Next]_vars PROVE TInv'
  OBVIOUS
<1>0. Rest /\ work \in [Handler -> Work]
  BY Parts DEF TInv
<1>1. CASE \E h \in Handler : HandlerStep(h)
  BY <1>1, TInvHandler
<1>2. ASSUME NEW h \in Handler, Stop(h) PROVE TInv'
  <2>1. Rest' /\ Ask' = Ask
    BY <1>0, <1>2, PipelinesAssumption
    DEF Stop, Count, Rest, store, client, reaping, clock, Ask, OwesAnswer
  <2> QED  BY <1>2, <2>1, TInvEnd DEF Stop
<1>3. CASE PatchLoad
  <2>1. Rest' /\ Ask' = Ask
    BY <1>0, <1>3 DEF PatchLoad, Rest, store, client, reaping, clock, Ask
  <2>2. work[Starter].next \in Ask
    BY <1>3 DEF PatchLoad, TInv, Ready
  <2> DEFINE w == [work[Starter] EXCEPT !.snap = row]
  <2>3. w \in Work /\ w.next = work[Starter].next /\ work[Starter] \in Work
    BY <1>0 DEF Rest, Work
  <2>4. Goto(Starter, "send", work[Starter]) \/ Goto(Starter, "read", w)
    BY <1>3 DEF PatchLoad
  <2> HIDE DEF w
  <2> QED  BY <2>1, <2>2, <2>3, <2>4, TInvGoto, PipelinesAssumption DEF Call
<1>4. CASE PatchRead
  <2>1. Rest' /\ Ask' = Ask
    BY <1>0, <1>4 DEF PatchRead, Rest, store, client, reaping, clock, Ask
  <2>2. work[Starter].next \in Ask
    BY <1>4 DEF PatchRead, TInv, Ready
  <2> DEFINE w == [work[Starter] EXCEPT !.got = row]
  <2>3. w \in Work /\ w.next = work[Starter].next /\ work[Starter] \in Work
    BY <1>0 DEF Rest, Work
  <2>4. Goto(Starter, "send", work[Starter]) \/ Goto(Starter, "patch", w)
    BY <1>4 DEF PatchRead
  <2> HIDE DEF w
  <2> QED  BY <2>1, <2>2, <2>3, <2>4, TInvGoto, PipelinesAssumption DEF Call
<1>5. CASE PatchWrite
  <2>0. [work[Starter].got EXCEPT !.rpc = TRUE] \in Row
    BY <1>0 DEF Work, Row
  <2>1. Rest' /\ Ask' = Ask
    BY <1>0, <1>5, <2>0 DEF PatchWrite, Rest, client, reaping, clock, Ask
  <2>2. work[Starter].next \in Ask
    BY <1>5 DEF PatchWrite, TInv, Ready
  <2>3. Goto(Starter, "send", work[Starter]) /\ work[Starter] \in Work
    BY <1>0, <1>5 DEF PatchWrite
  <2> QED  BY <2>1, <2>2, <2>3, TInvGoto, PipelinesAssumption DEF Call
<1>6. ASSUME NEW h \in Responder, NEW n \in Ask, Respond(h, n) PROVE TInv'
  <2>1. Rest' /\ Ask' = Ask
    BY <1>0, <1>6, PipelinesAssumption
    DEF Respond, Count, Rest, store, client, reaping, clock, Ask
  <2>2. [Ended EXCEPT !.mine = n] \in Work
    BY <1>0, Blank DEF Rest, Ask, Work
  <2> QED  BY <1>6, <2>1, <2>2, TInvGoto, PipelinesAssumption DEF Respond, Call
<1>7. ASSUME NEW h \in Canceller, Cancel(h) PROVE TInv'
  <2>1. Rest' /\ Ask' = Ask
    BY <1>0, <1>7, PipelinesAssumption
    DEF Cancel, Count, Rest, store, client, reaping, clock, Ask
  <2>2. [Ended EXCEPT !.snap = row, !.mine = row.ask] \in Work
    BY <1>0, Blank DEF Rest, Row, Work
  <2> QED  BY <1>7, <2>1, <2>2, TInvGoto, PipelinesAssumption DEF Cancel, Call
<1>8. CASE work' = work /\ asked' = asked /\ Rest'
  <2>1. Ask' = Ask
    BY <1>8 DEF Ask
  <2> QED  BY <1>0, <1>8, <2>1 DEF TInv, TypeOK, Rest, Roles, Ready, Work, Sweep
<1>9. ASSUME NEW r \in Reaper, ReaperStep(r) PROVE work' = work /\ asked' = asked /\ Rest'
  <2>0. sweep[r] \in Sweep /\ work' = work /\ asked' = asked
    BY <1>0, <1>9 DEF Rest, ReaperStep, ListTimedOut, DeleteTimedOut, ListExpired,
                      LoadExpired, DeleteExpired, Deliver, client
  <2>1. \A d \in Row : Owed(d) \subseteq BOOLEAN
    BY DEF Owed, Row
  <2>2. sweep' \in [Reaper -> Sweep]
    <3>1. CASE ListTimedOut(r)
      BY <1>0, <2>0, <3>1, Blank DEF ListTimedOut, Rest, Sweep, Asleep
    <3>2. CASE DeleteTimedOut(r)
      <4>1. [at |-> "expired", due |-> NoRow, owes |-> {sweep[r].due.rpc}] \in Sweep
        BY <2>0, Blank DEF Sweep, Row
      <4> QED  BY <1>0, <3>2, <4>1 DEF DeleteTimedOut, Rest
    <3>3. CASE ListExpired(r)
      <4>1. /\ [sweep[r] EXCEPT !.at = "load"] \in Sweep
            /\ [sweep[r] EXCEPT !.at = "tell"] \in Sweep
        BY <2>0 DEF Sweep
      <4> QED  BY <1>0, <3>3, <4>1, Blank DEF ListExpired, Rest
    <3>4. CASE LoadExpired(r)
      BY <1>0, <2>0, <3>4 DEF LoadExpired, Rest, Sweep
    <3>5. CASE DeleteExpired(r)
      <4>1. [at |-> "tell", due |-> NoRow,
             owes |-> sweep[r].owes \cup Owed(sweep[r].due)] \in Sweep
        BY <2>0, <2>1, Blank DEF Sweep
      <4> QED  BY <1>0, <3>5, <4>1 DEF DeleteExpired, Rest
    <3>6. CASE Deliver(r)
      BY <1>0, <3>6, Blank DEF Deliver, Rest
    <3> QED  BY <1>9, <3>1, <3>2, <3>3, <3>4, <3>5, <3>6 DEF ReaperStep
  <2>3. row' \in Row
    BY <1>0, <1>9, Blank DEF Rest, ReaperStep, ListTimedOut, DeleteTimedOut, ListExpired,
                      LoadExpired, DeleteExpired, Deliver, store
  <2>4. told' \subseteq BOOLEAN
    BY <1>0, <1>9, <2>0 DEF Rest, ReaperStep, ListTimedOut, DeleteTimedOut, ListExpired,
                      LoadExpired, DeleteExpired, Deliver, client, Sweep
  <2>5. leader' \in Reaper \cup {Nobody}
    BY <1>0, <1>9 DEF Rest, ReaperStep, ListTimedOut, DeleteTimedOut, ListExpired,
                      LoadExpired, DeleteExpired, Deliver
  <2>6. UNCHANGED <<marker, pending, rpckey, sent, clock, resumed, unsaid, events>>
    BY <1>9 DEF ReaperStep, ListTimedOut, DeleteTimedOut, ListExpired,
                      LoadExpired, DeleteExpired, Deliver, store, client
  <2> QED  BY <1>0, <2>0, <2>2, <2>3, <2>4, <2>5, <2>6 DEF Rest, clock, Ask
<1>10. ASSUME NEW r \in Reaper, StopReaper(r) PROVE work' = work /\ asked' = asked /\ Rest'
  BY <1>0, <1>10, Blank, PipelinesAssumption
  DEF StopReaper, Count, Rest, store, client, clock, Ask
<1>11. CASE Lapse
  <2>1. work' = work /\ asked' = asked /\ Rest'
    BY <1>0, <1>11, PipelinesAssumption DEF Lapse, Count, Rest, store, client, clock, Ask
  <2> QED  BY <1>8, <2>1
<1>12. ASSUME NEW n \in Ask, TimeOut(n) PROVE work' = work /\ asked' = asked /\ Rest'
  BY <1>0, <1>12 DEF TimeOut, Rest, store, client, reaping, Ask
<1>13. CASE Expire
  <2>1. work' = work /\ asked' = asked /\ Rest'
    BY <1>0, <1>13 DEF Expire, Rest, store, client, reaping, Ask
  <2> QED  BY <1>8, <2>1
<1>14. CASE UNCHANGED vars
  <2>1. work' = work /\ asked' = asked /\ Rest'
    BY <1>0, <1>14 DEF vars, Rest, store, client, reaping, clock, Ask
  <2> QED  BY <1>8, <2>1
<1> QED
  BY <1>1, <1>2, <1>3, <1>4, <1>5, <1>6, <1>7, <1>8, <1>9, <1>10, <1>11, <1>12, <1>13, <1>14
  DEF Next, StarterStep

\* The pipeline's row, its markers and requests, every handler and every reaper
\* hold only values of their types.
THEOREM TypeCorrect == Spec => []TypeOK
<1>1. TInv => TypeOK
  BY DEF TInv
<1> QED  BY <1>1, TInvInit, TInvNext, PTL DEF Spec

-----------------------------------------------------------------------------
(* One winner per version.                                                 *)

\* Whoever is past its claim has put the marker of the version it claimed.
\* OneWinnerPerVersion alone is not inductive: a second winner is kept out by
\* the marker, not by the first winner.
Marked == \A h \in Responder \cup Canceller : Claimed(h) => work[h].snap.ver \in marker

\* Every step but a claim leaves the winners and their versions as they are.
Kept ==
    \A h \in Responder \cup Canceller :
        Claimed(h)' => Claimed(h) /\ work'[h].snap = work[h].snap

LEMMA OnlyClaimsWin ==
    ASSUME TInv, [Next]_vars,
           \A h \in Responder \cup Canceller : ~ClaimMark(h)
    PROVE  Kept /\ marker' = marker
<1>0. work \in [Handler -> Work]
  BY Parts DEF TInv
<1>1. ASSUME NEW h \in Handler, NEW w, work' = [work EXCEPT ![h] = w],
             h # Starter /\ w.at \in {"bump", "run", "save", "send", "delete", "tell"} =>
                 Claimed(h) /\ w.snap = work[h].snap
      PROVE  Kept
  <2>1. \A g \in Handler : work'[g] = IF g = h THEN w ELSE work[g]
    BY <1>0, <1>1
  <2> QED  BY <1>1, <2>1, PipelinesAssumption DEF Kept, Claimed
<1>2. ASSUME NEW h \in Handler, End(h) PROVE Kept
  BY <1>1, <1>2, Blank DEF End
<1>3. ASSUME NEW h \in Handler, NEW c, NEW w \in Work, Goto(h, c, w),
             h = Starter \/ c \in {"load", "claim", "mark"} \/ (Claimed(h) /\ w.snap = work[h].snap)
      PROVE  Kept
  <2> DEFINE v == [w EXCEPT !.at = c]
  <2>1. v.at = c /\ v.snap = w.snap
    BY DEF Work
  <2>2. work' = [work EXCEPT ![h] = v]
    BY <1>3 DEF Goto
  <2> HIDE DEF v
  <2> QED  BY <1>1, <1>3, <2>1, <2>2
<1>4. ASSUME work' = work PROVE Kept
  BY <1>4 DEF Kept, Claimed
<1>5. ASSUME NEW h \in Handler, HandlerStep(h) PROVE Kept /\ marker' = marker
  <2>0. work[h] \in Work /\ row \in Row /\ Len(asked) + 1 \in Nat
    BY <1>0, Parts DEF TInv, Rest
  <2>1. CASE Run(h)
    BY <2>0, <2>1, <1>3 DEF Run, Claimed, store
  <2>2. CASE Save(h)
    <3> DEFINE w == [work[h] EXCEPT !.next = Len(asked) + 1]
    <3>1. w \in Work /\ w.snap = work[h].snap
      BY <2>0 DEF Work
    <3>2. Goto(h, IF h = Starter THEN "reload" ELSE "send", w) /\ Claimed(h) /\ marker' = marker
      BY <2>2 DEF Save, Claimed
    <3> HIDE DEF w
    <3> QED  BY <1>3, <3>1, <3>2
  <2>3. CASE Send(h)
    BY <2>3, <1>2 DEF Send
  <2>4. CASE Load(h)
    <3>1. [work[h] EXCEPT !.snap = row] \in Work
      BY <2>0 DEF Work
    <3> QED  BY <2>4, <3>1, <1>2, <1>3 DEF Load, store
  <2>5. CASE Delete(h)
    BY <2>0, <2>5, <1>2, <1>3 DEF Delete, Claimed
  <2>6. CASE Tell(h)
    BY <2>0, <2>6, <1>2, <1>3 DEF Tell, Claimed
  <2>7. CASE ClaimRead(h)
    <3>1. [work[h] EXCEPT !.got = row] \in Work
      BY <2>0 DEF Work
    <3> QED  BY <2>7, <3>1, <1>2, <1>3 DEF ClaimRead, store
  <2>8. CASE ClaimMark(h)
    BY <2>8 DEF ClaimMark, TInv, Roles
  <2>9. CASE ClaimWrite(h)
    BY <2>0, <2>9, <1>3 DEF ClaimWrite, Claimed
  <2> QED  BY <1>5, <2>1, <2>2, <2>3, <2>4, <2>5, <2>6, <2>7, <2>8, <2>9 DEF HandlerStep
<1>6. ASSUME NEW h \in Handler, Stop(h) PROVE Kept /\ marker' = marker
  BY <1>2, <1>6 DEF Stop, store
<1>7. CASE StarterStep
  <2>1. PICK c \in Call, w \in Work : Goto(Starter, c, w) /\ marker' = marker
    <3>1. work[Starter] \in Work /\ row \in Row
      BY <1>0, Parts DEF TInv, Rest
    <3>2. /\ [work[Starter] EXCEPT !.snap = row] \in Work
          /\ [work[Starter] EXCEPT !.got = row] \in Work
      BY <3>1 DEF Work
    <3>3. CASE PatchLoad
      BY <3>1, <3>2, <3>3 DEF PatchLoad, store, Call
    <3>4. CASE PatchRead
      BY <3>1, <3>2, <3>4 DEF PatchRead, store, Call
    <3>5. CASE PatchWrite
      BY <3>1, <3>2, <3>5 DEF PatchWrite, Call
    <3> QED  BY <1>7, <3>3, <3>4, <3>5 DEF StarterStep
  <2> QED  BY <1>3, <2>1
<1>8. ASSUME NEW h \in Responder, NEW n \in Ask, Respond(h, n) PROVE Kept /\ marker' = marker
  <2>1. [Ended EXCEPT !.mine = n] \in Work
    BY Blank, Parts DEF TInv, Rest, Ask, Work
  <2> QED  BY <1>3, <1>8, <2>1 DEF Respond, store
<1>9. ASSUME NEW h \in Canceller, Cancel(h) PROVE Kept /\ marker' = marker
  <2>1. [Ended EXCEPT !.snap = row, !.mine = row.ask] \in Work
    BY Blank, Parts DEF TInv, Rest, Row, Work
  <2> QED  BY <1>3, <1>9, <2>1 DEF Cancel, store
<1>10. CASE \/ \E r \in Reaper : ReaperStep(r) \/ StopReaper(r)
            \/ Lapse \/ Expire \/ (\E n \in Ask : TimeOut(n)) \/ UNCHANGED vars
  <2>1. work' = work /\ marker' = marker
    BY <1>10 DEF ReaperStep, ListTimedOut, DeleteTimedOut, ListExpired, LoadExpired,
       DeleteExpired, Deliver, StopReaper, Lapse, Expire, TimeOut, store, vars
  <2> QED  BY <1>4, <2>1
<1> QED  BY <1>5, <1>6, <1>7, <1>8, <1>9, <1>10 DEF Next

LEMMA MarkedNext ==
    ASSUME TInv, Marked, OneWinnerPerVersion, [Next]_vars
    PROVE  Marked' /\ OneWinnerPerVersion'
<1>1. CASE \A h \in Responder \cup Canceller : ~ClaimMark(h)
  BY <1>1, OnlyClaimsWin DEF Kept, Marked, OneWinnerPerVersion
<1>2. ASSUME NEW h \in Responder \cup Canceller, ClaimMark(h)
      PROVE  Marked' /\ OneWinnerPerVersion'
  <2>0. work \in [Handler -> Work]
    BY Parts DEF TInv
  <2>1. \A g \in Handler : g # h => work'[g] = work[g]
    BY <1>2, <2>0 DEF ClaimMark, End, Goto
  <2>2. CASE work[h].snap.ver \in marker
    <3>1. work'[h] = Ended /\ marker' = marker
      BY <1>2, <2>0, <2>2 DEF ClaimMark, End
    <3>2. ~Claimed(h)'
      BY <3>1, Blank DEF Claimed
    <3> QED  BY <2>1, <3>1, <3>2 DEF Marked, OneWinnerPerVersion, Claimed
  <2>3. CASE work[h].snap.ver \notin marker
    <3>1. work'[h].snap = work[h].snap /\ marker' = marker \cup {work[h].snap.ver}
      BY <1>2, <2>0, <2>3 DEF ClaimMark, Goto, Work
    <3>2. \A g \in Responder \cup Canceller :
             g # h /\ Claimed(g)' => work'[g].snap.ver \in marker
      BY <2>1 DEF Marked, Claimed
    <3>3. Marked'
      BY <2>1, <3>1, <3>2 DEF Marked
    <3>4. OneWinnerPerVersion'
      <4> SUFFICES ASSUME NEW a \in Responder \cup Canceller, NEW b \in Responder \cup Canceller,
                          Claimed(a)', Claimed(b)', a # b
                   PROVE  work'[a].snap.ver # work'[b].snap.ver
        BY DEF OneWinnerPerVersion
      <4>1. CASE a = h
        BY <2>3, <3>1, <3>2, <4>1
      <4>2. CASE b = h
        BY <2>3, <3>1, <3>2, <4>2
      <4>3. CASE a # h /\ b # h
        BY <2>1, <4>3 DEF OneWinnerPerVersion, Claimed
      <4> QED  BY <4>1, <4>2, <4>3
    <3> QED  BY <3>3, <3>4
  <2> QED  BY <2>2, <2>3
<1> QED  BY <1>1, <1>2

\* However many responses and cancellations race for a suspended pipeline, at
\* most one of those that loaded it at a version acts on it.
THEOREM OneWinner == Spec => []OneWinnerPerVersion
<1>1. Init => Marked /\ OneWinnerPerVersion
  <2> SUFFICES ASSUME Init PROVE \A h \in Responder \cup Canceller : ~Claimed(h)
    BY DEF Marked, OneWinnerPerVersion
  <2>1. \A h \in Responder \cup Canceller : FirstCall(h) \in {"respond", "cancel"}
    BY PipelinesAssumption DEF FirstCall
  <2> QED  BY <2>1, Blank DEF Init, Claimed, Call
<1> QED  BY <1>1, TInvInit, TInvNext, MarkedNext, PTL DEF Spec

-----------------------------------------------------------------------------
(* No pipeline ends without a word.                                        *)

\* The caller has its answer, or somebody has it to give.
Covered ==
    \/ told # {} \/ unsaid
    \/ \E h \in Handler : OwesAnswer(h)
    \/ \E r \in Reaper : sweep[r].owes # {}

\* Before the first suspension is saved there is no row, and nobody who could
\* write one but the starter.
Fresh ==
    asked = <<>> =>
        /\ row = NoRow
        /\ work[Starter].at \in {"run", "save", "tell", "end"}
        /\ \A h \in Responder \cup Canceller : work[h].at \in {"respond", "cancel"}
        /\ \A r \in Reaper : sweep[r].at \notin {"load", "delete"}

\* A cancellation deletes the row after it told the caller; a reaper that found
\* no row at its second look deletes whatever is there by then, and owes nobody:
\* whoever had deleted the row owes the answer.
Excused ==
    /\ \A h \in Canceller : work[h].at = "delete" => told # {}
    /\ \A r \in Reaper : sweep[r].at = "delete" /\ sweep[r].due = NoRow => Covered

\* A pass owes answers only after a delete of its own.
Ledger == \A r \in Reaper : sweep[r].owes # {} => sweep[r].at \in {"expired", "load", "delete", "tell"}

EInv == Ledger /\ Fresh /\ Excused /\ NoSilentEnd

\* An answer owed stays owed until it is given or its process stops.
LEMMA CoveredStays == TInv /\ Ledger /\ Covered /\ [Next]_vars => Covered'
<1> SUFFICES ASSUME TInv, Ledger, Covered, [Next]_vars PROVE Covered'
  OBVIOUS
<1>0. /\ work \in [Handler -> Work] /\ sweep \in [Reaper -> Sweep]
      /\ told \subseteq BOOLEAN /\ unsaid \in BOOLEAN
  BY Parts DEF TInv, Rest
<1>1. CASE told # {}
  <2>1. told \subseteq told'
    BY DEF Next, vars, HandlerStep, Run, Save, Send, Load, Delete, Tell, ClaimRead, ClaimMark,
       ClaimWrite, Stop, StarterStep, PatchLoad, PatchRead, PatchWrite, Respond, Cancel,
       ReaperStep, ListTimedOut, DeleteTimedOut, ListExpired, LoadExpired, DeleteExpired,
       Deliver, StopReaper, Lapse, TimeOut, Expire, client
  <2> QED  BY <1>1, <2>1 DEF Covered
<1>2. CASE unsaid
  <2>1. unsaid'
    BY <1>2 DEF Next, vars, HandlerStep, Run, Save, Send, Load, Delete, Tell, ClaimRead, ClaimMark,
       ClaimWrite, Stop, StarterStep, PatchLoad, PatchRead, PatchWrite, Respond, Cancel,
       ReaperStep, ListTimedOut, DeleteTimedOut, ListExpired, LoadExpired, DeleteExpired,
       Deliver, StopReaper, Lapse, TimeOut, Expire
  <2> QED  BY <2>1 DEF Covered
<1>3. ASSUME NEW h \in Handler, OwesAnswer(h) PROVE Covered'
  <2>0. h \notin Canceller /\ work[h].at = "tell"
    BY <1>3 DEF OwesAnswer
  <2>1. CASE work'[h] = work[h]
    BY <2>0, <2>1 DEF Covered, OwesAnswer
  <2>2. CASE Tell(h)
    BY <2>2 DEF Tell, Covered
  <2>3. CASE Stop(h)
    BY <1>3, <2>3 DEF Stop, Covered
  <2>4. work'[h] = work[h] \/ Tell(h) \/ Stop(h)
    <3>1. \A g, c, w : g # h /\ (Goto(g, c, w) \/ End(g)) => work'[h] = work[h]
      BY <1>0 DEF Goto, End
    <3>2. ASSUME NEW g \in Handler, HandlerStep(g) \/ Stop(g), g # h PROVE work'[h] = work[h]
      BY <3>1, <3>2 DEF HandlerStep, Run, Save, Send, Load, Delete, Tell, ClaimRead, ClaimMark,
         ClaimWrite, Stop
    <3>3. HandlerStep(h) => Tell(h)
      BY <2>0 DEF HandlerStep, Run, Save, Send, Load, Delete, Tell, ClaimRead, ClaimMark,
         ClaimWrite
    <3>4. CASE StarterStep
      BY <2>0, <3>1, <3>4 DEF StarterStep, PatchLoad, PatchRead, PatchWrite
    <3>5. ASSUME NEW g \in Responder, NEW n \in Ask, Respond(g, n) PROVE work'[h] = work[h]
      BY <2>0, <3>1, <3>5 DEF Respond
    <3>6. ASSUME NEW g \in Canceller, Cancel(g) PROVE work'[h] = work[h]
      BY <2>0, <3>1, <3>6 DEF Cancel
    <3>7. CASE \/ \E r \in Reaper : ReaperStep(r) \/ StopReaper(r)
               \/ Lapse \/ Expire \/ (\E n \in Ask : TimeOut(n)) \/ UNCHANGED vars
      BY <3>7 DEF ReaperStep, ListTimedOut, DeleteTimedOut, ListExpired, LoadExpired,
         DeleteExpired, Deliver, StopReaper, Lapse, Expire, TimeOut, vars
    <3> QED  BY <3>2, <3>3, <3>4, <3>5, <3>6, <3>7 DEF Next
  <2> QED  BY <2>1, <2>2, <2>3, <2>4
<1>4. ASSUME NEW r \in Reaper, sweep[r].owes # {} PROVE Covered'
  <2>1. CASE sweep'[r].owes # {}
    BY <2>1 DEF Covered
  <2>2. CASE Deliver(r)
    BY <1>4, <2>2 DEF Deliver, Covered
  <2>3. CASE StopReaper(r)
    BY <1>4, <2>3 DEF StopReaper, Covered
  <2>4. sweep'[r].owes # {} \/ Deliver(r) \/ StopReaper(r)
    <3>0. sweep[r] \in Sweep /\ sweep[r].at \in {"expired", "load", "delete", "tell"}
      BY <1>0, <1>4 DEF Ledger
    <3>1. ASSUME NEW q \in Reaper, ReaperStep(q) \/ StopReaper(q), q # r
          PROVE  sweep'[r] = sweep[r]
      BY <1>0, <3>1 DEF ReaperStep, ListTimedOut, DeleteTimedOut, ListExpired, LoadExpired,
         DeleteExpired, Deliver, StopReaper
    <3>2. CASE ListExpired(r)
      BY <1>0, <1>4, <3>0, <3>2 DEF ListExpired, Sweep
    <3>3. CASE LoadExpired(r)
      BY <1>0, <1>4, <3>0, <3>3 DEF LoadExpired, Sweep
    <3>4. CASE DeleteExpired(r)
      BY <1>0, <1>4, <3>4 DEF DeleteExpired
    <3>5. ReaperStep(r) => ListExpired(r) \/ LoadExpired(r) \/ DeleteExpired(r) \/ Deliver(r)
      BY <3>0 DEF ReaperStep, ListTimedOut, DeleteTimedOut
    <3>6. CASE sweep' = sweep
      BY <1>4, <3>6
    <3>7. \/ sweep' = sweep
          \/ \E q \in Reaper : ReaperStep(q) \/ StopReaper(q)
      BY DEF Next, vars, HandlerStep, Run, Save, Send, Load, Delete, Tell, ClaimRead, ClaimMark,
         ClaimWrite, Stop, StarterStep, PatchLoad, PatchRead, PatchWrite, Respond, Cancel,
         Lapse, TimeOut, Expire, reaping
    <3> QED  BY <1>4, <3>1, <3>2, <3>3, <3>4, <3>5, <3>6, <3>7
  <2> QED  BY <2>1, <2>2, <2>3, <2>4
<1> QED  BY <1>1, <1>2, <1>3, <1>4 DEF Covered

\* A step of a reaper, and a step of anything else.
LEMMA ReaperOrNot ==
    [Next]_vars => \/ \E r \in Reaper : ReaperStep(r) \/ StopReaper(r)
                   \/ sweep' = sweep
  BY DEF Next, vars, HandlerStep, Run, Save, Send, Load, Delete, Tell, ClaimRead, ClaimMark,
       ClaimWrite, Stop, StarterStep, PatchLoad, PatchRead, PatchWrite, Respond, Cancel,
       Lapse, TimeOut, Expire, reaping

LEMMA LedgerNext == TInv /\ Ledger /\ [Next]_vars => Ledger'
<1> SUFFICES ASSUME TInv, Ledger, [Next]_vars PROVE Ledger'
  OBVIOUS
<1>0. sweep \in [Reaper -> Sweep]
  BY Parts DEF TInv, Rest
<1>1. CASE sweep' = sweep
  BY <1>1 DEF Ledger
<1>2. ASSUME NEW r \in Reaper, ReaperStep(r) \/ StopReaper(r) PROVE Ledger'
  <2>0. sweep[r] \in Sweep
    BY <1>0
  <2>1. \A q \in Reaper \ {r} : sweep'[q] = sweep[q]
    BY <1>0, <1>2 DEF ReaperStep, ListTimedOut, DeleteTimedOut, ListExpired, LoadExpired, DeleteExpired,
       Deliver, StopReaper
  <2>2. sweep'[r].owes # {} => sweep'[r].at \in {"expired", "load", "delete", "tell"}
    <3>1. CASE ListTimedOut(r)
      BY <1>0, <3>1 DEF ListTimedOut, Asleep
    <3>2. CASE DeleteTimedOut(r)
      BY <1>0, <3>2 DEF DeleteTimedOut
    <3>3. CASE ListExpired(r)
      BY <1>0, <2>0, <3>3 DEF ListExpired, Asleep, Sweep
    <3>4. CASE LoadExpired(r)
      BY <1>0, <2>0, <3>4 DEF LoadExpired, Sweep
    <3>5. CASE DeleteExpired(r)
      BY <1>0, <3>5 DEF DeleteExpired
    <3>6. CASE Deliver(r) \/ StopReaper(r)
      BY <1>0, <3>6 DEF Deliver, StopReaper, Asleep
    <3> QED  BY <1>2, <3>1, <3>2, <3>3, <3>4, <3>5, <3>6 DEF ReaperStep
  <2> QED  BY <2>1, <2>2 DEF Ledger
<1> QED  BY <1>1, <1>2, ReaperOrNot

LEMMA FreshNext == TInv /\ Fresh /\ [Next]_vars => Fresh'
<1> SUFFICES ASSUME TInv, Fresh, [Next]_vars, asked' = <<>> PROVE Fresh'
  BY DEF Fresh
<1>0. /\ work \in [Handler -> Work] /\ sweep \in [Reaper -> Sweep] /\ row \in Row
      /\ asked \in Seq(1 .. Steps)
  BY Parts DEF TInv, Rest
<1>1. ASSUME NEW h \in Handler PROVE ~Save(h)
  <2>1. \A x \in 1 .. Steps : Append(asked, x) # <<>>
    BY <1>0
  <2>2. Save(h) => Saved(work[h].snap, Len(asked) + 1).step \in 1 .. Steps
    <3> SUFFICES ASSUME Save(h) PROVE work[h].snap.step + 1 \in 1 .. Steps
      BY <1>0 DEF Saved, Work, Row
    <3>1. work[h].snap.step < Steps
      BY DEF Save, TInv, Ready
    <3>2. work[h].snap.step \in 0 .. Steps
      BY <1>0 DEF Work, Row
    <3> QED  BY <3>1, <3>2, PipelinesAssumption
  <2> QED  BY <2>1, <2>2 DEF Save
<1>2. asked = <<>>
  BY <1>1 DEF Next, vars, HandlerStep, Run, Save, Send, Load, Delete, Tell, ClaimRead, ClaimMark,
       ClaimWrite, Stop, StarterStep, PatchLoad, PatchRead, PatchWrite, Respond, Cancel,
       ReaperStep, ListTimedOut, DeleteTimedOut, ListExpired, LoadExpired, DeleteExpired,
       Deliver, StopReaper, Lapse, TimeOut, Expire, client
<1>3. /\ row = NoRow
      /\ work[Starter].at \in {"run", "save", "tell", "end"}
      /\ \A h \in Responder \cup Canceller : work[h].at \in {"respond", "cancel"}
      /\ \A r \in Reaper : sweep[r].at \notin {"load", "delete"}
  BY <1>2 DEF Fresh
<1>4. ASSUME NEW h \in Handler, HandlerStep(h) \/ Stop(h)
      PROVE  h = Starter /\ (Run(h) \/ Tell(h))
  BY <1>1, <1>2, <1>3, <1>4 DEF HandlerStep, Run, Save, Send, Load, Delete, Tell, ClaimRead,
     ClaimMark, ClaimWrite, Stop
<1>5. ~StarterStep /\ Ask = {} /\ \A h \in Canceller : ~Cancel(h)
  BY <1>2, <1>3 DEF StarterStep, PatchLoad, PatchRead, PatchWrite, Ask, Cancel
<1>6. CASE Run(Starter) \/ Tell(Starter)
  <2>1. Starter \notin Responder \cup Canceller
    BY PipelinesAssumption
  <2>2. PICK w : work' = [work EXCEPT ![Starter] = w] /\ w.at \in {"save", "tell", "end"}
    <3>1. CASE Run(Starter)
      BY <1>0, <3>1 DEF Run, Goto, Work
    <3>2. CASE Tell(Starter)
      BY <2>1, <3>2, Blank DEF Tell, End
    <3> QED  BY <1>6, <3>1, <3>2
  <2>3. row' = row /\ sweep' = sweep
    BY <1>6 DEF Run, Tell, store, reaping
  <2> QED  BY <1>0, <1>3, <2>1, <2>2, <2>3 DEF Fresh
<1>7. ASSUME NEW r \in Reaper, ReaperStep(r) \/ StopReaper(r) PROVE Fresh'
  <2>0. work' = work
    BY <1>7 DEF ReaperStep, ListTimedOut, DeleteTimedOut, ListExpired, LoadExpired, DeleteExpired,
       Deliver, StopReaper
  <2>1. row' = NoRow
    BY <1>3, <1>7 DEF ReaperStep, ListTimedOut, DeleteTimedOut, ListExpired, LoadExpired, DeleteExpired,
       Deliver, StopReaper, store
  <2>2. \A q \in Reaper \ {r} : sweep'[q] = sweep[q]
    BY <1>0, <1>7 DEF ReaperStep, ListTimedOut, DeleteTimedOut, ListExpired, LoadExpired, DeleteExpired,
       Deliver, StopReaper
  <2>3. sweep'[r].at \notin {"load", "delete"}
    <3>0. sweep[r] \in Sweep
      BY <1>0
    <3>1. CASE ListTimedOut(r)
      BY <1>0, <3>1 DEF ListTimedOut, Asleep
    <3>2. CASE DeleteTimedOut(r)
      BY <1>0, <3>2 DEF DeleteTimedOut
    <3>3. CASE ListExpired(r)
      BY <1>0, <1>3, <3>0, <3>3 DEF ListExpired, Asleep, Sweep
    <3>4. CASE LoadExpired(r) \/ DeleteExpired(r)
      BY <1>3, <3>4 DEF LoadExpired, DeleteExpired
    <3>6. CASE Deliver(r) \/ StopReaper(r)
      BY <1>0, <3>6 DEF Deliver, StopReaper, Asleep
    <3> QED  BY <1>7, <3>1, <3>2, <3>3, <3>4, <3>6 DEF ReaperStep
  <2> QED  BY <1>3, <2>0, <2>1, <2>2, <2>3 DEF Fresh
<1>8. CASE Lapse \/ Expire \/ (\E n \in Ask : TimeOut(n)) \/ UNCHANGED vars
  <2>1. row' = row /\ work' = work /\ sweep' = sweep
    BY <1>8 DEF Lapse, Expire, TimeOut, vars, store, reaping
  <2> QED  BY <1>3, <2>1 DEF Fresh
<1> QED  BY <1>4, <1>5, <1>6, <1>7, <1>8 DEF Next

LEMMA EInvNext == TInv /\ EInv /\ [Next]_vars => EInv'
<1> SUFFICES ASSUME TInv, Ledger, Fresh, Excused, NoSilentEnd, [Next]_vars
             PROVE  Ledger' /\ Fresh' /\ Excused' /\ NoSilentEnd'
  BY DEF EInv
<1>0. /\ work \in [Handler -> Work] /\ sweep \in [Reaper -> Sweep] /\ row \in Row
      /\ asked \in Seq(1 .. Steps)
  BY Parts DEF TInv, Rest
<1>1. Ledger' /\ Fresh'
  BY LedgerNext, FreshNext
<1>2. Covered => Covered'
  BY CoveredStays
<1>3. (asked # <<>> /\ row = NoRow) => Covered
  BY DEF NoSilentEnd, Covered
<1>4. told \subseteq told'
  BY DEF Next, vars, HandlerStep, Run, Save, Send, Load, Delete, Tell, ClaimRead, ClaimMark,
     ClaimWrite, Stop, StarterStep, PatchLoad, PatchRead, PatchWrite, Respond, Cancel,
     ReaperStep, ListTimedOut, DeleteTimedOut, ListExpired, LoadExpired, DeleteExpired,
     Deliver, StopReaper, Lapse, TimeOut, Expire, client
<1>5. ASSUME NEW h \in Canceller, work'[h].at = "delete" PROVE told' # {}
  <2>1. CASE work[h].at = "delete"
    BY <1>4, <2>1 DEF Excused
  <2>2. CASE work[h].at # "delete"
    <3>1. \A g, c, w : g # h /\ (Goto(g, c, w) \/ End(g)) => work'[h] = work[h]
      BY <1>0 DEF Goto, End
    <3>2. ASSUME NEW g \in Handler, HandlerStep(g) \/ Stop(g), g # h PROVE work'[h] = work[h]
      BY <3>1, <3>2 DEF HandlerStep, Run, Save, Send, Load, Delete, Tell, ClaimRead, ClaimMark,
         ClaimWrite, Stop
    <3>3. work[h] \in Work /\ work[h].at \notin {"run", "save", "send", "load"}
      BY <1>0 DEF TInv, Roles
    <3>4. \A c, w : w \in Work /\ Goto(h, c, w) => c = "delete"
      BY <1>0, <1>5 DEF Goto, Work
    <3>5. ~End(h)
      BY <1>0, <1>5, Blank DEF End
    <3>6. CASE HandlerStep(h) \/ Stop(h)
      <4>1. Tell(h) => told' # {}
        BY DEF Tell
      <4>2. ~Delete(h) /\ ~Run(h) /\ ~Save(h) /\ ~Send(h) /\ ~Load(h) /\ ~Stop(h)
        BY <2>2, <3>3, <3>5 DEF Delete, Run, Save, Send, Load, Stop
      <4>3. [work[h] EXCEPT !.got = row] \in Work
        BY <1>0 DEF Work
      <4>4. ~ClaimRead(h)
        BY <3>4, <3>5, <4>3 DEF ClaimRead
      <4>5. ~ClaimMark(h) /\ ~ClaimWrite(h)
        BY <3>3, <3>4, <3>5 DEF ClaimMark, ClaimWrite, ClaimedNext
      <4> QED  BY <3>6, <4>1, <4>2, <4>4, <4>5 DEF HandlerStep
    <3>7. CASE StarterStep
      <4>1. h # Starter
        BY PipelinesAssumption
      <4> QED  BY <2>2, <1>5, <3>1, <3>7, <4>1 DEF StarterStep, PatchLoad, PatchRead, PatchWrite
    <3>8. ASSUME NEW g \in Responder, NEW n \in Ask, Respond(g, n) PROVE FALSE
      <4>1. g # h
        BY PipelinesAssumption
      <4> QED  BY <2>2, <1>5, <3>1, <3>8, <4>1 DEF Respond
    <3>9. ASSUME NEW g \in Canceller, Cancel(g) PROVE FALSE
      <4>1. [Ended EXCEPT !.snap = row, !.mine = row.ask] \in Work
        BY <1>0, Blank DEF Row, Work
      <4> QED  BY <2>2, <1>5, <3>1, <3>4, <3>9, <4>1 DEF Cancel
    <3>10. CASE \/ \E r \in Reaper : ReaperStep(r) \/ StopReaper(r)
                \/ Lapse \/ Expire \/ (\E n \in Ask : TimeOut(n)) \/ UNCHANGED vars
      <4>1. work' = work
        BY <3>10 DEF ReaperStep, ListTimedOut, DeleteTimedOut, ListExpired, LoadExpired,
           DeleteExpired, Deliver, StopReaper, Lapse, Expire, TimeOut, vars
      <4> QED  BY <1>5, <2>2, <4>1
    <3> QED  BY <1>5, <2>2, <3>2, <3>6, <3>7, <3>8, <3>9, <3>10 DEF Next
  <2> QED  BY <2>1, <2>2
<1>6. ASSUME NEW r \in Reaper, sweep'[r].at = "delete", sweep'[r].due = NoRow PROVE Covered'
  <2>1. CASE sweep'[r] = sweep[r]
    BY <1>2, <1>6, <2>1 DEF Excused
  <2>2. CASE LoadExpired(r)
    <3>1. row = NoRow /\ asked # <<>>
      BY <1>0, <1>6, <2>2 DEF LoadExpired, Fresh, Sweep
    <3> QED  BY <1>2, <1>3, <3>1
  <2>3. sweep'[r] = sweep[r] \/ LoadExpired(r)
    <3>1. \A q \in Reaper : q # r /\ (ReaperStep(q) \/ StopReaper(q)) => sweep'[r] = sweep[r]
      BY <1>0 DEF ReaperStep, ListTimedOut, DeleteTimedOut, ListExpired, LoadExpired,
         DeleteExpired, Deliver, StopReaper
    <3>2. sweep[r] \in Sweep
      BY <1>0
    <3>3. ~ListTimedOut(r) /\ ~DeleteTimedOut(r) /\ ~DeleteExpired(r) /\ ~Deliver(r) /\ ~StopReaper(r)
      BY <1>0, <1>6 DEF ListTimedOut, DeleteTimedOut, DeleteExpired, Deliver, StopReaper, Asleep
    <3>4. ~ListExpired(r)
      BY <1>0, <1>6, <3>2 DEF ListExpired, Asleep, Sweep
    <3> QED  BY <3>1, <3>3, <3>4, ReaperOrNot DEF ReaperStep
  <2> QED  BY <2>1, <2>2, <2>3
<1>7. Excused'
  BY <1>5, <1>6 DEF Excused
<1>8. NoSilentEnd'
  <2> SUFFICES ASSUME asked' # <<>>, row' = NoRow PROVE Covered'
    BY DEF NoSilentEnd, Covered, OwesAnswer
  <2>1. CASE row = NoRow /\ asked # <<>>
    BY <1>2, <1>3, <2>1
  <2>2. ASSUME NEW h \in Handler PROVE ~Save(h) /\ ~ClaimWrite(h) /\ ~PatchWrite
    <3>1. work[h] \in Work /\ work[Starter] \in Work
      BY <1>0
    <3>2. work[h].snap.ver + 1 # 0 /\ work[h].got.ver + 1 # 0
      <4>1. work[h].snap.ver \in Nat /\ work[h].got.ver \in Nat
        BY <3>1 DEF Work, Row
      <4> QED  BY <4>1
    <3>3. ~Save(h)
      BY <3>1, <3>2 DEF Save, Saved, NoRow, Work, Row
    <3>4. ~ClaimWrite(h)
      BY <3>1, <3>2 DEF ClaimWrite, NoRow, Work, Row
    <3>5. ~PatchWrite
      BY <3>1 DEF PatchWrite, NoRow, Work, Row
    <3> QED  BY <3>3, <3>4, <3>5
  <2>3. asked' = asked
    BY <2>2 DEF Next, vars, HandlerStep, Run, Save, Send, Load, Delete, Tell, ClaimRead, ClaimMark,
       ClaimWrite, Stop, StarterStep, PatchLoad, PatchRead, PatchWrite, Respond, Cancel,
       ReaperStep, ListTimedOut, DeleteTimedOut, ListExpired, LoadExpired, DeleteExpired,
       Deliver, StopReaper, Lapse, TimeOut, Expire, client
  <2>4. ASSUME NEW h \in Handler, Delete(h) PROVE Covered'
    <3>1. CASE h \in Canceller
      BY <1>4, <2>4, <3>1 DEF Delete, Excused, Covered
    <3>2. CASE h \notin Canceller
      <4>1. work'[h].at = "tell"
        BY <1>0, <2>4, <3>2 DEF Delete, Goto, Work
      <4> QED  BY <3>2, <4>1 DEF Covered, OwesAnswer
    <3> QED  BY <3>1, <3>2
  <2>5. ASSUME NEW r \in Reaper, DeleteTimedOut(r) PROVE Covered'
    <3>1. sweep'[r].owes # {}
      BY <1>0, <2>5 DEF DeleteTimedOut
    <3> QED  BY <3>1 DEF Covered
  <2>6. ASSUME NEW r \in Reaper, DeleteExpired(r) PROVE Covered'
    <3>1. CASE sweep[r].due = NoRow
      BY <1>2, <2>6, <3>1 DEF DeleteExpired, Excused
    <3>2. CASE sweep[r].due # NoRow
      <4>1. sweep'[r].owes # {}
        BY <1>0, <2>6, <3>2 DEF DeleteExpired, Owed
      <4> QED  BY <4>1 DEF Covered
    <3> QED  BY <3>1, <3>2
  <2>7. \/ row' = row
        \/ \E h \in Handler : Delete(h)
        \/ \E r \in Reaper : DeleteTimedOut(r) \/ DeleteExpired(r)
    BY <2>2 DEF Next, vars, HandlerStep, Run, Save, Send, Load, Tell, ClaimRead, ClaimMark,
       ClaimWrite, Stop, StarterStep, PatchLoad, PatchRead, PatchWrite, Respond, Cancel,
       ReaperStep, ListTimedOut, ListExpired, LoadExpired, Deliver, StopReaper, Lapse, TimeOut,
       Expire, store
  <2> QED  BY <2>1, <2>3, <2>4, <2>5, <2>6, <2>7
<1> QED  BY <1>1, <1>7, <1>8

\* Whatever responses, cancellations and reapers do to the row, and in whatever
\* order, a suspended pipeline whose row is gone has answered its caller or has
\* an answer on its way, unless a process stopped between the two.
THEOREM NeverSilent == Spec => []NoSilentEnd
<1>1. Init => EInv
  <2> SUFFICES ASSUME Init PROVE EInv
    OBVIOUS
  <2>1. \A h \in Handler : work[h].at = FirstCall(h)
    BY Blank DEF Init, FirstCall, Call
  <2>2. \A r \in Reaper : sweep[r].at = "idle" /\ sweep[r].owes = {}
    BY DEF Init, Asleep
  <2>3. Fresh
    BY <2>1, <2>2, PipelinesAssumption DEF Init, Fresh, FirstCall
  <2>4. Excused
    BY <2>1, <2>2, PipelinesAssumption DEF Excused, FirstCall
  <2> QED  BY <2>2, <2>3, <2>4 DEF EInv, Ledger, NoSilentEnd, Init
<1>2. EInv => NoSilentEnd
  BY DEF EInv
<1> QED  BY <1>1, <1>2, TInvInit, TInvNext, EInvNext, PTL DEF Spec
=============================================================================
