------------------------- MODULE GrantsReuseProofs --------------------------
(***************************************************************************)
(* Theorems of Grants about tokens presented again: past its grace a token *)
(* that was exchanged ends the grant, and within its grace it does not,    *)
(* for any number of requests, replicas, tokens and faults.  Both need the *)
(* invariants of GrantsProofs, and that the grant is never behind the      *)
(* tokens that clients know of.                                            *)
(***************************************************************************)
EXTENDS GrantsProofs

-----------------------------------------------------------------------------
(* The grant moves on with its tokens.                                     *)

\* A grant, or a permission to use it, goes only with a revocation.
Gone ==
    /\ tomb \/ revoked # {} \/ grant.st = "none" => dead \/ failed
    /\ \A r \in Request :
        work[r].at \in {"delete", "rdelete", "rdrop", "drop", "dropgrant"} => dead \/ failed

\* Tokens that clients were given, or are about to be.
Known ==
    Handed \cup ({spent[t].succ : t \in Token} \ {0})
           \cup {work[r].succ : r \in {q \in Request : work[q].at \in {"seal", "retire", "check"}}}

\* The grant is not behind them.
Ahead ==
    grant.st = "active" =>
        /\ grant.gen >= 1
        /\ tokens = <<>> => grant.gen = 1
        /\ \A n \in Known : tokens[n].gen <= grant.gen

\* A request that presents a token exchanged before, past its grace, is on its way
\* to the revocation.
Reusing(r) ==
    work[r].reuse =>
        /\ work[r].at \in Presenting \cup {"judge", "reuse", "delete", "done"}
        /\ work[r].at \in Presenting =>
            /\ \E u \in Handed : tokens[u].from = work[r].tok
            /\ GraceOn => spent[work[r].tok].by \in work[r].over
        /\ work[r].at \in {"live", "old"} => tokens[work[r].tok].gen < work[r].gen
        /\ work[r].at = "done" => dead \/ failed

\* Token t is spent for good.
Settled(t) ==
    /\ spent[t].by # Nobody
    /\ ~(work[spent[t].by].tok = t /\ work[spent[t].by].at \in Unsettled)

\* Tokens that are.
Final == {t \in Token : Settled(t)}

\* Tokens older than the grant are.
Past == ~failed /\ grant.st = "active" => \A n \in Known : tokens[n].gen < grant.gen => n \in Final

\* Token n can be given to a client again, or there is a reason not to.
Kept(n) == n \in index \cup Final \/ dead \/ failed

\* The successor a spent token names can be given again.
Sealed == \A t \in Token : spent[t].succ # 0 => Kept(spent[t].succ)

\* A request that finds a spent token within its grace, or wrote the successor,
\* comes to judge the token only if the successor is spent, too.
InGrace(r) ==
    /\ work[r].at = "old" => tokens[work[r].tok].gen < work[r].gen
    /\ work[r].at \in {"live", "old"} /\ tokens[work[r].tok].gen < work[r].gen =>
        failed \/ work[r].tok \in Final
    /\ work[r].at = "slive" /\ tokens[work[r].succ].gen # work[r].gen =>
        failed \/ work[r].succ \in Final
    /\ work[r].at \in {"put", "seal"} => Kept(work[r].succ)
    /\ GraceOn /\ work[r].at \in {"judge", "reuse"} /\ ~work[r].late =>
        \/ dead \/ failed
        \/ spent[work[r].tok].succ # 0 /\ spent[work[r].tok].succ \in Final


-----------------------------------------------------------------------------
(* A token used again ends the grant.                                      *)

\* What every step of r keeps.
Keeps(r) ==
    /\ Rest(r) /\ work[r].got = 0
    /\ failed => failed'
    /\ dead => dead'
    /\ over' = over
    /\ SpentStep(r)
    /\ \A n \in Made : n \in Made' /\ tokens'[n] = tokens[n]

LEMMA RestFacts ==
    ASSUME WorkT, NEW r \in Request
    PROVE  /\ \A c, w : Goto(r, c, w) => Rest(r)
           /\ \A n : Finish(r, n) => Rest(r)
BY DEF WorkT, Goto, Finish, Rest

\* A step in short: what it leaves alone.
Short(r) ==
    /\ Going(r) \/ work[r].at = "code"
    /\ (\E c, w : Goto(r, c, w)) \/ (\E n : Finish(r, n))
    /\ Ok \/ Event \/ Fault
    /\ tokens' = tokens /\ over' = over
    /\ dead' = dead \/ dead' = TRUE

LEMMA ShortFacts ==
    ASSUME Frame, NEW r \in Request, Short(r), spent' = spent \/ SpentStep(r)
    PROVE  Keeps(r)
<1>1. Rest(r)
  BY RestFacts DEF Short, Frame
<1>2. work[r].got = 0
  BY GoingFacts DEF Short, Frame, Holds, Knows
<1>3. failed => failed'
  BY FaultsGrow DEF Short
<1>4. dead => dead'
  BY Zenon DEF Short
<1>5. SpentStep(r)
  BY DEF SpentStep
<1>6. \A n \in Made : n \in Made' /\ tokens'[n] = tokens[n]
  BY DEF Short, Made
<1> QED BY <1>1, <1>2, <1>3, <1>4, <1>5, <1>6 DEF Keeps, Short

LEMMA ReadsKeep ==
    ASSUME Frame, NEW r \in Request,
           \/ ReadPending(r) \/ ReadIndex(r) \/ ReadGrant(r) \/ Live(r) \/ Revalidate(r) \/ Check(r)
           \/ ReadSpent(r) \/ Await(r) \/ AwaitGrant(r) \/ ReadSuccessor(r) \/ Again(r) \/ Judge(r)
           \/ ReadRevoked(r) \/ ReadClientGrant(r)
    PROVE  Keeps(r) /\ Reads
<1>1. CASE ReadPending(r) \/ ReadIndex(r) \/ ReadGrant(r) \/ Live(r) \/ Revalidate(r)
  <2>1. Short(r) /\ Reads
    BY <1>1 DEF ReadPending, ReadIndex, ReadGrant, Live, Revalidate, Short, Going, Reads, store
  <2> QED BY <2>1, ShortFacts DEF Reads
<1>2. CASE Check(r) \/ Await(r) \/ AwaitGrant(r) \/ ReadSuccessor(r) \/ Again(r)
  <2>1. Short(r) /\ Reads
    BY <1>2 DEF Check, Await, AwaitGrant, ReadSuccessor, Again, Short, Going, Reads, store
  <2> QED BY <2>1, ShortFacts DEF Reads
<1>3. CASE Judge(r) \/ ReadRevoked(r) \/ ReadClientGrant(r)
  <2>1. Short(r) /\ Reads
    BY <1>3 DEF Judge, ReadRevoked, ReadClientGrant, Short, Going, Reads, store
  <2> QED BY <2>1, ShortFacts DEF Reads
<1>4. CASE ReadSpent(r)
  <2>1. Short(r) /\ Reads
    BY <1>4 DEF ReadSpent, Retry, Short, Going, Reads, store
  <2> QED BY <2>1, ShortFacts DEF Reads
<1> QED BY <1>1, <1>2, <1>3, <1>4

LEMMA WritesKeep ==
    ASSUME Frame, NEW r \in Request,
           \/ ClaimCode(r) \/ Activate(r) \/ PutGrant(r) \/ Undo(r) \/ Retire(r) \/ Drop(r)
           \/ DropGrant(r) \/ Tombstone(r) \/ DeleteGrant(r) \/ DropRevoked(r)
    PROVE  Keeps(r) /\ spent' = spent /\ tokens' = tokens
<1>1. CASE ClaimCode(r) \/ Activate(r) \/ PutGrant(r) \/ Undo(r) \/ Retire(r)
  <2>1. Short(r) /\ spent' = spent /\ tokens' = tokens
    BY <1>1 DEF ClaimCode, Activate, PutGrant, Undo, Retire, Short, Going
  <2> QED BY <2>1, ShortFacts
<1>2. CASE Drop(r) \/ DropGrant(r) \/ Tombstone(r) \/ DeleteGrant(r) \/ DropRevoked(r)
  <2>1. Short(r) /\ spent' = spent /\ tokens' = tokens
    BY <1>2 DEF Drop, DropGrant, Tombstone, DeleteGrant, DropRevoked, Short, Going
  <2> QED BY <2>1, ShortFacts
<1> QED BY <1>1, <1>2

LEMMA SpendsKeep ==
    ASSUME Frame, NEW r \in Request, Claim(r) \/ Unclaim(r) \/ Seal(r)
    PROVE  /\ Keeps(r) /\ tokens' = tokens
           /\ work[r].tok \in Token
           /\ \A t \in Token : t # work[r].tok => spent'[t] = spent[t]
<1>1. Short(r)
  BY DEF Claim, Unclaim, Seal, Short, Going
<1>2. work[r].tok # 0 /\ work[r].tok \in Token
  BY HandedMade DEF Claim, Unclaim, Seal, Frame, Holds, Knows, TokenCalls
<1>3. \/ spent' = spent
      \/ spent[work[r].tok] = Unspent /\ \E x : spent' = [spent EXCEPT ![work[r].tok] = x]
      \/ work[r].at \in {"unclaim", "seal"} /\ \E x : spent' = [spent EXCEPT ![work[r].tok] = x]
  BY DEF Claim, Unclaim, Seal
<1>4. spent \in [Token -> SpentRecord]
  BY DEF Frame, StoreT
<1>5. work[r].at \in {"unclaim", "seal"} => spent[work[r].tok].by = r /\ spent[work[r].tok].succ = 0
  BY <1>2 DEF Frame, Holds, Owns, Rotating, Unsettled
<1>6. \A t \in Token : t # work[r].tok => spent'[t] = spent[t]
  BY <1>3, <1>4
<1>7. spent' = spent \/ SpentStep(r)
  BY <1>2, <1>3, <1>5, <1>6, UnspentFields DEF SpentStep
<1>8. tokens' = tokens
  BY <1>1 DEF Short
<1> QED BY <1>1, <1>2, <1>6, <1>7, <1>8, ShortFacts

LEMMA IssueKeeps ==
    ASSUME Frame, NEW r \in Request, Issue(r)
    PROVE  Keeps(r) /\ spent' = spent
<1>1. (\E c, w : Goto(r, c, w)) \/ (\E n : Finish(r, n))
  BY DEF Issue, Going
<1>2. (Ok \/ Fault) /\ UNCHANGED <<spent, over, dead>> /\ Going(r)
  BY DEF Issue, Going
<1>3. Rest(r) /\ work[r].got = 0
  BY <1>1, <1>2, RestFacts, GoingFacts DEF Frame
<1>4. failed => failed'
  BY <1>2, FaultsGrow
<1>5. \A n \in Made : n \in Made' /\ tokens'[n] = tokens[n]
  BY IssuedFacts DEF Grown, Made
<1> QED BY <1>2, <1>3, <1>4, <1>5 DEF Keeps, SpentStep

LEMMA StepKeeps ==
    ASSUME Frame, NEW r \in Request, Step(r)
    PROVE  Keeps(r)
BY ReadsKeep, WritesKeep, SpendsKeep, IssueKeeps DEF Step

\* Requests that have seen the revocation.
Leaving == {"delete", "rdelete", "rdrop", "drop", "dropgrant"}

\* Where a read leads.
Calm == {"activate", "grant", "spent", "live", "slive", "old", "claim", "revoke", "issue", "unclaim",
         "await", "succ", "judge", "awaitgrant", "sgrant", "reuse", "rgrant", "rrevoke", "done"}

\* The request went to one of them; only a retry is answered with a token.
Calmly(r) ==
    /\ work'[r].at \in Calm
    /\ work'[r].got # 0 => work[r].at = "slive" /\ work'[r].got = work[r].succ
    /\ work'[r].at \in {"issue", "unclaim"} => work[r].at = "idp"

LEMMA ReadsCalm ==
    ASSUME Frame, NEW r \in Request,
           \/ ReadPending(r) \/ ReadIndex(r) \/ ReadGrant(r) \/ Live(r) \/ Revalidate(r)
           \/ ReadSpent(r) \/ Await(r) \/ AwaitGrant(r) \/ ReadSuccessor(r) \/ Again(r) \/ Judge(r)
           \/ ReadRevoked(r) \/ ReadClientGrant(r)
    PROVE  Calmly(r)
<1>0. WorkT /\ work[r].got = 0
  BY ReadsKeep DEF Keeps, Frame
<1>1. ASSUME NEW c \in Calm, Went(r, c), c \in {"issue", "unclaim"} => work[r].at = "idp"
      PROVE  Calmly(r)
  BY <1>0, <1>1 DEF Went, Calmly
<1>2. ASSUME NEW c \in Calm, Goto(r, c, work[r]), c \in {"issue", "unclaim"} => work[r].at = "idp"
      PROVE  Calmly(r)
  <2>1. c \in Call \cup Ended
    BY <1>2 DEF Calm, Call, Ended
  <2> QED BY <1>0, <1>1, <1>2, <2>1, WentFacts
<1>3. Finish(r, 0) => Calmly(r)
  BY RefusedHolds DEF Finished, Calmly, Calm
<1>4. \A c \in Calm : c \in Call \cup Ended
  BY DEF Calm, Call, Ended
<1>5. CASE ReadPending(r) \/ ReadIndex(r) \/ Live(r) \/ AwaitGrant(r) \/ ReadSuccessor(r)
  BY <1>2, <1>3, <1>5 DEF ReadPending, ReadIndex, Live, AwaitGrant, ReadSuccessor, Calm
<1>6. CASE Judge(r) \/ ReadRevoked(r) \/ ReadClientGrant(r)
  BY <1>2, <1>3, <1>6 DEF Judge, ReadRevoked, ReadClientGrant, Calm
<1>7. CASE Again(r)
  <2>1. ASSUME Finish(r, work[r].succ) PROVE Calmly(r)
    <3>1. Finished(r, work[r].succ) /\ work[r].at = "slive"
      BY <1>0, <1>7, <2>1, RequestTypes, FinishFacts DEF Again
    <3> QED BY <3>1 DEF Finished, Calmly, Calm
  <2> QED BY <1>2, <1>3, <1>7, <2>1 DEF Again, Calm
<1>8. CASE ReadGrant(r)
  <2>1. grant.gen \in Nat
    BY GrantsAssumption DEF Frame, StoreT
  <2>2. Finish(r, 0) \/ Went(r, "live") \/ Went(r, "slive")
    BY <1>0, <1>8, <2>1, WentFacts DEF ReadGrant, Call
  <2> QED BY <1>1, <1>3, <2>2 DEF Calm
<1>9. CASE Revalidate(r)
  <2>1. work[r].gen + 1 \in Nat /\ "issue" \in Call
    BY <1>0, RequestTypes DEF Call
  <2>2. Went(r, "issue") \/ Goto(r, "unclaim", work[r]) \/ Goto(r, "revoke", work[r])
    BY <1>0, <1>9, <2>1, WentFacts DEF Revalidate, NextGen
  <2>3. work[r].at = "idp"
    BY <1>9 DEF Revalidate
  <2> QED BY <1>1, <1>2, <2>2, <2>3 DEF Calm
<1>10. CASE ReadSpent(r) \/ Await(r)
  <2>1. work[r].tok \in Token
    BY <1>10, HandedMade DEF ReadSpent, Await, Frame, Holds, Knows, TokenCalls
  <2>2. spent[work[r].tok].succ \in 0 .. MaxTokens /\ {"judge", "await", "succ"} \subseteq Call
    BY <2>1, SpentTypes DEF Frame, Call
  <2>3. CASE ReadSpent(r)
    <3>1. Finish(r, 0) \/ Went(r, "judge") \/ Went(r, "await") \/ Went(r, "succ")
      BY <1>0, <2>2, <2>3, WentFacts DEF ReadSpent, Retry
    <3> QED BY <1>1, <1>3, <3>1 DEF Calm
  <2>4. CASE Await(r)
    <3>1. Finish(r, 0) \/ Goto(r, "awaitgrant", work[r]) \/ Went(r, "succ")
      BY <1>0, <2>2, <2>4, WentFacts DEF Await
    <3> QED BY <1>1, <1>2, <1>3, <3>1 DEF Calm
  <2> QED BY <1>10, <2>3, <2>4
<1> QED BY <1>5, <1>6, <1>7, <1>8, <1>9, <1>10

LEMMA GoneStep ==
    ASSUME Frame, Gone, NEW r \in Request, Step(r)
    PROVE  Gone'
<1>0. Keeps(r) /\ WorkT
  BY StepKeeps DEF Frame
<1>1. CASE dead \/ failed
  BY <1>0, <1>1 DEF Gone, Keeps
<1>2. CASE ~dead /\ ~failed
  <2>1. /\ ~tomb /\ revoked = {} /\ grant.st # "none"
        /\ \A q \in Request : work[q].at \notin Leaving
    BY <1>2 DEF Gone, Leaving
  <2> SUFFICES \/ dead' \/ failed'
               \/ ~tomb' /\ revoked' = {} /\ grant'.st # "none" /\ work'[r].at \notin Leaving
    <3>1. \A q \in Request : q # r => work'[q].at \notin Leaving
      BY <1>0, <2>1 DEF Keeps, Rest
    <3> QED BY <3>1 DEF Gone, Leaving
  <2>f. ASSUME NEW n \in 0 .. MaxTokens, Finish(r, n) PROVE work'[r].at \notin Leaving
    BY <1>0, <2>f, FinishFacts DEF Finished, Leaving
  <2>z. 0 \in 0 .. MaxTokens /\ work[r].succ \in 0 .. MaxTokens
    BY <1>0, RequestTypes, GrantsAssumption
  <2>3. CASE Tombstone(r)
    BY <2>3, Zenon DEF Tombstone, Fault
  <2>4. CASE Drop(r) \/ DropGrant(r) \/ DeleteGrant(r) \/ DropRevoked(r)
    BY <2>1, <2>4 DEF Drop, DropGrant, DeleteGrant, DropRevoked, Leaving
  <2>5. CASE Check(r)
    <3>1. Finish(r, work[r].succ) /\ UNCHANGED <<tomb, revoked, grant>>
      BY <2>1, <2>5 DEF Check, RefusedOn, store
    <3> QED BY <2>1, <2>f, <2>z, <3>1
  <2>6. CASE \/ ReadPending(r) \/ ReadIndex(r) \/ ReadGrant(r) \/ Live(r) \/ Revalidate(r)
             \/ ReadSpent(r) \/ Await(r) \/ AwaitGrant(r) \/ ReadSuccessor(r) \/ Again(r) \/ Judge(r)
             \/ ReadRevoked(r) \/ ReadClientGrant(r)
    <3>1. UNCHANGED <<tomb, revoked, grant>>
      BY <2>6, ReadsKeep DEF Reads
    <3>2. work'[r].at \notin Leaving
      BY <2>6, ReadsCalm DEF Calmly, Calm, Leaving
    <3> QED BY <2>1, <3>1, <3>2
  <2>7. CASE ClaimCode(r) \/ Activate(r) \/ PutGrant(r) \/ Undo(r) \/ Retire(r)
    <3>1. UNCHANGED <<tomb, revoked>> /\ (grant' = grant \/ \E g : grant' = Active(g))
      BY <2>7 DEF ClaimCode, Activate, PutGrant, Undo, Retire
    <3>2. Went(r, "issue") \/ \E c \in {"revoke", "pending", "seal", "retire", "undo", "unclaim", "check"} :
                                 c \in Call /\ Goto(r, c, work[r])
      BY <1>0, <2>7, WentFacts DEF ClaimCode, Activate, PutGrant, Undo, Retire, Call
    <3>3. work'[r].at \notin Leaving
      BY <1>0, <3>2, WentFacts DEF Went, Leaving
    <3> QED BY <2>1, <3>1, <3>3 DEF Active
  <2>8. CASE Claim(r) \/ Unclaim(r) \/ Seal(r)
    <3>1. UNCHANGED <<tomb, revoked, grant>>
      BY <2>8 DEF Claim, Unclaim, Seal
    <3>2. \/ Finish(r, 0) \/ Went(r, "idp")
          \/ \E c \in {"spent", "retire"} : c \in Call /\ Goto(r, c, work[r])
      BY <1>0, <2>8, WentFacts DEF Claim, Unclaim, Seal, Call
    <3>3. work'[r].at \notin Leaving
      BY <1>0, <2>f, <2>z, <3>2, WentFacts DEF Went, Leaving
    <3> QED BY <2>1, <3>1, <3>3
  <2>9. CASE Issue(r)
    <3>1. UNCHANGED <<tomb, revoked, grant>>
      BY <2>9 DEF Issue
    <3>2. Len(tokens) + 1 \in 0 .. MaxTokens
      BY <2>9, IssuedFacts
    <3>3. Finish(r, 0) \/ Went(r, "check") \/ Went(r, "put") \/ Went(r, "unclaim")
      BY <1>0, <2>9, <3>2, WentFacts DEF Issue, Call
    <3>4. work'[r].at \notin Leaving
      BY <2>f, <2>z, <3>3 DEF Went, Leaving
    <3> QED BY <2>1, <3>1, <3>4
  <2> QED BY <2>3, <2>4, <2>5, <2>6, <2>7, <2>8, <2>9 DEF Step
<1> QED BY <1>1, <1>2

LEMMA GoneNext ==
    ASSUME Frame, Gone, [Next]_vars
    PROVE  Gone'
<1>1. ASSUME NEW r \in Request, Arrival(r) PROVE Gone'
  <2>1. PICK c \in {"code", "index", "rindex", "revoke"}, t \in 0 .. MaxTokens :
              ArrivedWith(r, c, t) /\ UNCHANGED <<store, revoked, tokens, over, dead, faults>>
    BY <1>1, ArrivalFacts
  <2>2. UNCHANGED <<grant, tomb, revoked, dead, failed>>
    BY <2>1 DEF store, faults
  <2>3. \A q \in Request : work'[q].at = work[q].at \/ work'[q].at = c
    BY <2>1 DEF ArrivedWith, Rest
  <2> QED BY <2>1, <2>2, <2>3 DEF Gone
<1>2. ASSUME Still, failed => failed', tomb' = tomb \/ ~tomb', revoked' \subseteq revoked \/ tomb
      PROVE  Gone'
  <2>1. \A q \in Request : work'[q] = work[q] \/ work'[q].at = "stopped"
    BY <1>2, HaltedFields DEF Still
  <2>2. grant' = grant /\ dead' = dead
    BY <1>2 DEF Still
  <2> QED BY <1>2, <2>1, <2>2 DEF Gone
<1>3. ASSUME NEW r \in Request, Stop(r) PROVE Gone'
  <2>1. Still
    BY <1>3, StopFacts DEF Frame
  <2>2. failed => failed'
    BY <1>3, Zenon DEF Stop
  <2>3. tomb' = tomb /\ revoked' = revoked
    BY <1>3 DEF Stop, store
  <2> QED BY <1>2, <2>1, <2>2, <2>3
<1>4. ASSUME NEW p \in Replica, Restart(p) PROVE Gone'
  <2>1. Still
    BY <1>4, RestartFacts DEF Frame
  <2>2. failed => failed'
    BY <1>4, Zenon DEF Restart
  <2>3. tomb' = tomb /\ revoked' \subseteq revoked
    BY <1>4 DEF Restart, store
  <2> QED BY <1>2, <2>1, <2>2, <2>3
<1>5. ASSUME NEW r \in Request, GraceEnds(r) PROVE Gone'
  <2>1. Still /\ UNCHANGED <<tomb, revoked, failed>>
    BY <1>5 DEF GraceEnds, Still, store, faults
  <2> QED BY <1>2, <2>1
<1>6. ASSUME NEW p \in Replica, Poll(p) PROVE Gone'
  <2>1. Still /\ UNCHANGED <<tomb, failed>> /\ tomb
    BY <1>6 DEF Poll, Still, store, faults
  <2> QED BY <1>2, <2>1
<1>7. CASE TombstoneEnds
  <2>1. Still /\ failed' = failed /\ tomb' = FALSE /\ revoked' = {}
    BY <1>7 DEF TombstoneEnds, Still, faults
  <2> QED BY <1>2, <2>1
<1>8. CASE UNCHANGED vars
  <2>1. Still /\ UNCHANGED <<tomb, revoked, failed>>
    BY <1>8 DEF vars, Still, store, faults
  <2> QED BY <1>2, <2>1
<1> QED BY <1>1, <1>3, <1>4, <1>5, <1>6, <1>7, <1>8, GoneStep DEF Next

LEMMA InitGone ==
    ASSUME Init
    PROVE  Gone
<1>1. ~tomb /\ revoked = {} /\ grant.st = "pending" /\ \A r \in Request : work[r].at = "new"
  BY NewFields DEF Init
<1> QED BY <1>1 DEF Gone

\* Who is behind a token clients know of.
LEMMA KnownFacts ==
    ASSUME Frame, NEW n
    PROVE  n \in Known <=> \/ n \in Handed
                           \/ n # 0 /\ \E t \in Token : spent[t].succ = n
                           \/ \E q \in Request : work[q].at \in {"seal", "retire", "check"} /\ work[q].succ = n
BY DEF Known

LEMMA KnownMade ==
    ASSUME Frame, NEW n \in Known
    PROVE  n \in Made /\ n # 0
<1>1. CASE n \in Handed
  BY <1>1, HandedMade
<1>2. CASE n # 0 /\ \E t \in Token : spent[t].succ = n
  BY <1>2 DEF Frame, Records
<1>3. CASE \E q \in Request : work[q].at \in {"seal", "retire", "check"} /\ work[q].succ = n
  BY <1>3, TokenTypes DEF Frame, Holds, Knows
<1> QED BY <1>1, <1>2, <1>3, KnownFacts

\* A token clients know a successor of is spent for good.
LEMMA KnownSettles ==
    ASSUME Frame, NEW n \in Known, tokens[n].from # 0
    PROVE  Settled(tokens[n].from)
<1> DEFINE t == tokens[n].from
<1>0. n \in Made /\ n # 0 /\ t \in Handed /\ t \in Token /\ t # 0
  BY KnownMade, HandedMade DEF Frame, Ancestry
<1> HIDE DEF t
<1>1. CASE n \in Handed
  <2>1. n = Successor(t)
    BY <1>1, HandedFrom DEF t
  <2>2. CASE spent[t].succ # 0
    <3>1. spent[t].by # Nobody /\ spent[t].by \in Request
      BY <1>0, <2>2, SpentTypes DEF Frame, Records
    <3> QED BY <2>2, <3>1 DEF Settled, Frame, Holds, Owns, t
  <2>3. CASE spent[t].succ = 0
    <3>1. spent[t].by # Nobody /\ spent[t].by \in Request /\ work[spent[t].by].got # 0
      BY <1>0, <2>1, <2>3, SpentTypes DEF Successor, Frame
    <3>2. work[spent[t].by].at = "done"
      BY <3>1 DEF Frame, Holds, Knows
    <3> QED BY <3>1, <3>2 DEF Settled, Unsettled, t
  <2> QED BY <2>2, <2>3
<1>2. CASE n # 0 /\ \E u \in Token : spent[u].succ = n
  <2>1. spent[t].succ # 0
    BY <1>2 DEF Frame, Records, t
  <2>2. spent[t].by # Nobody /\ spent[t].by \in Request
    BY <1>0, <2>1, SpentTypes DEF Frame, Records
  <2> QED BY <2>1, <2>2, <1>0 DEF Settled, Frame, Holds, Owns, t
<1>3. CASE \E q \in Request : work[q].at \in {"seal", "retire", "check"} /\ work[q].succ = n
  <2>1. PICK q \in Request : work[q].at \in {"seal", "retire", "check"} /\ work[q].succ = n
    BY <1>3
  <2>2. work[q].tok = t
    BY <2>1 DEF Frame, Holds, Knows, t
  <2>3. spent[t].by = q /\ q # Nobody
    BY <1>0, <2>1, <2>2, GrantsAssumption DEF Frame, Holds, Owns, Rotating
  <2> QED BY <2>1, <2>3 DEF Settled, Unsettled, t
<1> QED BY <1>1, <1>2, <1>3, KnownFacts

\* Clients know of one token of a generation some of them has a token of.
LEMMA KnownUnique ==
    ASSUME Frame, NEW n \in Known, NEW u \in Handed, tokens[n].gen = tokens[u].gen
    PROVE  n = u
<1>1. n \in Made /\ n # 0 /\ tokens[n].gen \in Nat /\ tokens[u].gen \in Nat /\ u # 0
  BY KnownMade, HandedMade, TokenTypes, HandedFrom DEF Frame
<1>2. CASE tokens[n].from = 0
  <2>1. n = 1 /\ tokens[u].gen = 1
    BY <1>1, <1>2 DEF Frame, Ancestry
  <2>2. tokens[u].from = 0
    <3> SUFFICES ASSUME tokens[u].from # 0 PROVE FALSE
      OBVIOUS
    <3>1. tokens[u].from \in Handed /\ tokens[u].gen = tokens[tokens[u].from].gen + 1
      BY HandedFrom
    <3>2. tokens[tokens[u].from].gen \in Nat /\ tokens[tokens[u].from].gen >= 1
      BY <3>1, HandedFrom
    <3> QED BY <2>1, <3>1, <3>2
  <2> QED BY <2>1, <2>2, HandedFrom
<1>3. CASE tokens[n].from # 0
  <2> DEFINE t == tokens[n].from
  <2> DEFINE b == tokens[u].from
  <2>1. t \in Handed /\ t # 0 /\ tokens[n].gen = tokens[t].gen + 1
    BY <1>1, <1>3 DEF Frame, Ancestry
  <2>2. tokens[t].gen \in Nat /\ tokens[t].gen >= 1
    BY <2>1, HandedFrom
  <2>e. tokens[u].gen = tokens[t].gen + 1 /\ tokens[u].gen # 1
    BY <1>1, <2>1, <2>2
  <2>3. b # 0
    BY <2>e, HandedFrom
  <2>4. b \in Handed /\ tokens[u].gen = tokens[b].gen + 1 /\ u = Successor(b)
    BY <2>3, HandedFrom
  <2>5. tokens[b].gen \in Nat
    BY <2>4, HandedFrom
  <2>5a. t = tokens[n].from
    BY DEF t
  <2> HIDE DEF b, t
  <2>6. b = t
    <3>1. tokens[b].gen = tokens[t].gen
      BY <2>e, <2>2, <2>4, <2>5
    <3> QED BY <2>1, <2>4, <3>1, Unique DEF OneTokenPerGeneration
  <2>7. u = Successor(t)
    BY <2>4, <2>6
  <2>8. CASE n \in Handed
    BY <2>8, Unique DEF OneTokenPerGeneration
  <2>9. CASE n # 0 /\ \E v \in Token : spent[v].succ = n
    <3>1. spent[t].succ = n
      BY <2>5a, <2>9 DEF Frame, Records
    <3> QED BY <2>7, <3>1, <2>9 DEF Successor
  <2>10. CASE \E q \in Request : work[q].at \in {"seal", "retire", "check"} /\ work[q].succ = n
    <3>1. PICK q \in Request : work[q].at \in {"seal", "retire", "check"} /\ work[q].succ = n
      BY <2>10
    <3>2. Knows(q) /\ Owns(q) /\ q # Nobody
      BY GrantsAssumption DEF Frame, Holds
    <3>3. work[q].tok = t /\ work[q].got = 0
      BY <2>5a, <3>1, <3>2 DEF Knows
    <3>4. spent[t].by = q /\ spent[t].succ \in {0, n}
      BY <2>1, <3>1, <3>2, <3>3 DEF Owns, Rotating
    <3> QED BY <1>1, <2>7, <3>2, <3>3, <3>4 DEF Successor
  <2> QED BY <2>8, <2>9, <2>10, KnownFacts
<1> QED BY <1>2, <1>3

\* A token of a lower generation than another that clients know of is, too.
LEMMA OlderSettled ==
    ASSUME Frame, NEW t \in Known, NEW n \in Known, tokens[t].gen < tokens[n].gen
    PROVE  Settled(t)
<1> DEFINE g == tokens[t].gen
<1> DEFINE S == {h \in Nat : h > g /\ \E m \in Known : tokens[m].gen = h}
<1>g. g \in Nat /\ g >= 1
  BY KnownMade, TokenTypes DEF Frame
<1>k. \A m \in Known : m \in Made /\ tokens[m].gen \in Nat
  BY KnownMade, TokenTypes DEF Frame
<1>1. S \in SUBSET Nat /\ S # {}
  BY <1>k
<1>2. PICK h \in S : \A x \in S : h <= x
  BY <1>1, LeastOf
<1>3. PICK m \in Known : tokens[m].gen = h /\ h > g /\ h \in Nat
  BY <1>2
<1>4. tokens[m].from # 0
  BY <1>g, <1>k, <1>3 DEF Frame, Ancestry
<1> DEFINE b == tokens[m].from
<1>5. b \in Handed /\ tokens[m].gen = tokens[b].gen + 1
  BY <1>k, <1>4 DEF Frame, Ancestry
<1>6. tokens[b].gen \in Nat /\ b \in Known
  BY <1>5, HandedFrom, KnownFacts
<1> HIDE DEF b, g
<1>7. tokens[b].gen = g
  BY <1>g, <1>2, <1>3, <1>5, <1>6
<1>8. b = t
  BY <1>5, <1>7, KnownUnique DEF g
<1> QED BY <1>4, <1>8, KnownSettles DEF b

\* The tokens clients know of after a step.
LEMMA KnownStep ==
    ASSUME Frame, Frame', NEW r \in Request, Keeps(r), NEW X,
           work'[r].got # 0 => work'[r].got \in Known,
           \A t \in Token : spent'[t].succ \in {0, spent[t].succ} \/ spent'[t].succ \in Known,
           work'[r].at \in {"seal", "retire", "check"} => work'[r].succ \in Known \cup X
    PROVE  Known' \subseteq Known \cup X
<1> SUFFICES ASSUME NEW n \in Known', n \notin X PROVE n \in Known
  OBVIOUS
<1>0. n # 0 /\ \A q \in Request : q # r => work'[q] = work[q]
  <2>1. \A q \in Request : work'[q].at \in {"seal", "retire", "check"} => work'[q].succ # 0
    BY DEF Frame, Holds, Knows
  <2> QED BY <2>1 DEF Keeps, Rest, Known, Handed
<1>1. \/ n \in Handed'
      \/ n # 0 /\ \E t \in Token : spent'[t].succ = n
      \/ \E q \in Request : work'[q].at \in {"seal", "retire", "check"} /\ work'[q].succ = n
  BY DEF Known
<1>2. CASE n \in Handed'
  <2>1. n \in Handed \/ n = work'[r].got
    BY <1>2, HandedStep DEF Keeps
  <2> QED BY <1>0, <2>1, KnownFacts
<1>3. CASE n # 0 /\ \E t \in Token : spent'[t].succ = n
  BY <1>3, KnownFacts
<1>4. CASE \E q \in Request : work'[q].at \in {"seal", "retire", "check"} /\ work'[q].succ = n
  <2>1. PICK q \in Request : work'[q].at \in {"seal", "retire", "check"} /\ work'[q].succ = n
    BY <1>4
  <2>2. CASE q = r
    BY <2>1, <2>2
  <2>3. CASE q # r
    BY <1>0, <2>1, <2>3, KnownFacts
  <2> QED BY <2>2, <2>3
<1> QED BY <1>1, <1>2, <1>3, <1>4

\* A step after which clients know of no more tokens, and the grant is no other.
LEMMA AheadKept ==
    ASSUME Frame, Ahead, \A n \in Made : tokens'[n] = tokens[n], Known' \subseteq Known,
           grant' = grant \/ grant'.st # "active", tokens' = <<>> => tokens = <<>>
    PROVE  Ahead'
<1>1. \A n \in Known' : n \in Known /\ tokens'[n] = tokens[n]
  BY KnownMade
<1> QED BY <1>1 DEF Ahead

LEMMA AheadReads ==
    ASSUME Frame, Frame', Ahead, NEW r \in Request,
           \/ ReadPending(r) \/ ReadIndex(r) \/ ReadGrant(r) \/ Live(r) \/ Revalidate(r)
           \/ ReadSpent(r) \/ Await(r) \/ AwaitGrant(r) \/ ReadSuccessor(r) \/ Again(r) \/ Judge(r)
           \/ ReadRevoked(r) \/ ReadClientGrant(r)
    PROVE  Known' \subseteq Known /\ Ahead'
<1>1. Keeps(r) /\ Reads /\ Calmly(r)
  BY ReadsKeep, ReadsCalm
<1>2. ASSUME work'[r].got # 0 PROVE work'[r].got \in Known
  <2>1. work[r].at = "slive" /\ work'[r].got = work[r].succ
    BY <1>1, <1>2 DEF Calmly
  <2>2. work[r].tok \in Token /\ spent[work[r].tok].succ = work[r].succ
    BY <2>1, HandedMade DEF Frame, Holds, Knows, Owns, TokenCalls
  <2> QED BY <1>2, <2>1, <2>2, KnownFacts
<1>3. work'[r].at \notin {"seal", "retire", "check"}
  BY <1>1 DEF Calmly, Calm
<1>4. /\ spent' = spent /\ grant' = grant /\ tokens' = tokens
      /\ \A n \in Made : tokens'[n] = tokens[n]
  BY <1>1 DEF Reads, Keeps
<1>5. Known' \subseteq Known \cup {}
  BY <1>1, <1>2, <1>3, <1>4, KnownStep
<1> QED BY <1>4, <1>5, AheadKept

LEMMA AheadCheck ==
    ASSUME Frame, Frame', Ahead, NEW r \in Request, Check(r)
    PROVE  Known' \subseteq Known /\ Ahead'
<1>1. Keeps(r) /\ Reads /\ work[r].at = "check"
  BY ReadsKeep DEF Check
<1>2. work[r].succ \in Known
  BY <1>1, KnownFacts
<1>3. work'[r].at \in {"drop", "done"} /\ work'[r].got \in {0, work[r].succ}
  <2>1. CASE Goto(r, "drop", work[r])
    BY <1>1, <2>1, WentFacts DEF Frame, Call, Went, Keeps
  <2>2. CASE Finish(r, work[r].succ)
    BY <2>2, FinishFacts, RequestTypes DEF Frame, Finished
  <2> QED BY <2>1, <2>2 DEF Check
<1>4. /\ spent' = spent /\ grant' = grant /\ tokens' = tokens
      /\ \A n \in Made : tokens'[n] = tokens[n]
  BY <1>1 DEF Reads, Keeps
<1>5. Known' \subseteq Known \cup {}
  BY <1>1, <1>2, <1>3, <1>4, KnownStep
<1> QED BY <1>4, <1>5, AheadKept

\* Where the writes lead that are not of the grant's next generation.
LEMMA AheadWrites ==
    ASSUME Frame, Frame', Ahead, NEW r \in Request,
           \/ ClaimCode(r) \/ Claim(r) \/ Undo(r) \/ Unclaim(r) \/ Seal(r) \/ Retire(r) \/ Drop(r)
           \/ DropGrant(r) \/ Tombstone(r) \/ DeleteGrant(r) \/ DropRevoked(r)
    PROVE  Known' \subseteq Known /\ Ahead'
<1>0. Keeps(r) /\ WorkT
  BY WritesKeep, SpendsKeep DEF Frame
<1>1. \/ Finish(r, 0)
      \/ Goto(r, "idp", [work[r] EXCEPT !.over = {}])
      \/ \E c \in {"revoke", "pending", "spent", "unclaim", "dropgrant", "delete", "rdelete", "rdrop"} :
            Goto(r, c, work[r])
      \/ work[r].at = "seal" /\ Goto(r, "retire", work[r])
      \/ work[r].at = "retire" /\ Goto(r, "check", work[r])
  <2>1. CASE ClaimCode(r) \/ Claim(r) \/ Undo(r) \/ Unclaim(r) \/ Seal(r) \/ Retire(r)
    BY <2>1 DEF ClaimCode, Claim, Undo, Unclaim, Seal, Retire
  <2>2. CASE Drop(r) \/ DropGrant(r) \/ Tombstone(r) \/ DeleteGrant(r) \/ DropRevoked(r)
    BY <2>2 DEF Drop, DropGrant, Tombstone, DeleteGrant, DropRevoked
  <2> QED BY <2>1, <2>2
<1>2. work'[r].got = 0
  <2>1. Finish(r, 0) => work'[r].got = 0
    BY RefusedHolds DEF Finished
  <2>2. \A c \in Call : Goto(r, c, work[r]) => work'[r].got = 0
    BY <1>0, WentFacts DEF Went, Keeps
  <2>3. Goto(r, "idp", [work[r] EXCEPT !.over = {}]) => work'[r].got = 0
    BY <1>0, WentFacts DEF Went, Keeps, Call
  <2> QED BY <1>1, <2>1, <2>2, <2>3 DEF Call
<1>3. ASSUME work'[r].at \in {"seal", "retire", "check"} PROVE work'[r].succ \in Known
  <2>1. ~Finish(r, 0)
    BY <1>3, RefusedHolds DEF Finished
  <2>2. ~Goto(r, "idp", [work[r] EXCEPT !.over = {}])
    <3>1. Goto(r, "idp", [work[r] EXCEPT !.over = {}]) => Went(r, "idp")
      BY <1>0, WentFacts DEF Call
    <3> QED BY <1>3, <3>1 DEF Went
  <2>3. \A c \in Call : Goto(r, c, work[r]) => work'[r].at = c /\ work'[r].succ = work[r].succ
    BY <1>0, ToFacts DEF MoveTo, To
  <2>4. work[r].at \in {"seal", "retire"} /\ work'[r].succ = work[r].succ
    BY <1>1, <1>3, <2>1, <2>2, <2>3 DEF Call
  <2> QED BY <2>4, KnownFacts
<1>4. \A t \in Token : spent'[t].succ \in {0, spent[t].succ} \/ spent'[t].succ \in Known
  <2>1. CASE Claim(r) \/ Unclaim(r) \/ Seal(r)
    <3>1. work[r].tok \in Token /\ \A t \in Token : t # work[r].tok => spent'[t] = spent[t]
      BY <2>1, SpendsKeep
    <3>2. spent \in [Token -> SpentRecord]
      BY DEF Frame, StoreT
    <3>3. \/ spent' = spent
          \/ spent' = [spent EXCEPT ![work[r].tok] = [by |-> r, succ |-> 0]]
          \/ spent' = [spent EXCEPT ![work[r].tok] = Unspent]
          \/ work[r].at = "seal" /\ spent' = [spent EXCEPT ![work[r].tok] = [by |-> r, succ |-> work[r].succ]]
      BY <2>1 DEF Claim, Unclaim, Seal
    <3>4. work[r].at = "seal" => work[r].succ \in Known
      BY KnownFacts
    <3>5. spent'[work[r].tok].succ \in {0, spent[work[r].tok].succ} \/ spent'[work[r].tok].succ \in Known
      BY <3>1, <3>2, <3>3, <3>4, UnspentFields
    <3> QED BY <3>1, <3>5
  <2>2. CASE ~(Claim(r) \/ Unclaim(r) \/ Seal(r))
    BY <2>2, WritesKeep
  <2> QED BY <2>1, <2>2
<1>5. grant' = grant \/ grant'.st # "active"
  <2>1. CASE ClaimCode(r) \/ Claim(r) \/ Undo(r) \/ Unclaim(r) \/ Seal(r) \/ Retire(r)
    BY <2>1 DEF ClaimCode, Claim, Undo, Unclaim, Seal, Retire
  <2>2. CASE Drop(r) \/ DropGrant(r) \/ Tombstone(r) \/ DeleteGrant(r) \/ DropRevoked(r)
    BY <2>2 DEF Drop, DropGrant, Tombstone, DeleteGrant, DropRevoked, NoGrant
  <2> QED BY <2>1, <2>2
<1>6. Known' \subseteq Known \cup {}
  BY <1>0, <1>2, <1>3, <1>4, KnownStep
<1>7. tokens' = tokens
  BY WritesKeep, SpendsKeep
<1> QED BY <1>0, <1>5, <1>6, <1>7, AheadKept DEF Keeps

\* Before a rotation writes the grant nobody knows of a token that is younger
\* than the one it rotates.
LEMMA OldestUnsettled ==
    ASSUME Frame, NEW r \in Request, work[r].at \in Unsettled, work[r].tok # 0, NEW n \in Known
    PROVE  tokens[n].gen <= tokens[work[r].tok].gen
<1>1. work[r].tok \in Handed /\ spent[work[r].tok].by = r /\ work[r].tok \in Known
  BY KnownFacts DEF Frame, Holds, Knows, Owns, Rotating
<1>2. ~Settled(work[r].tok)
  BY <1>1 DEF Settled
<1>3. tokens[n].gen \in Nat /\ tokens[work[r].tok].gen \in Nat
  BY <1>1, KnownMade, TokenTypes, HandedFrom DEF Frame
<1> QED BY <1>1, <1>2, <1>3, OlderSettled

LEMMA AheadPutGrant ==
    ASSUME Frame, Frame', Ahead, NEW r \in Request, PutGrant(r)
    PROVE  /\ Known' \subseteq Known \cup {work[r].succ}
           /\ grant' = grant => Known' \subseteq Known \/ tokens[work[r].succ].gen = grant.gen
           /\ Ahead'
<1>1. /\ Keeps(r) /\ work[r].at = "put" /\ spent' = spent /\ tokens' = tokens /\ WorkT
  BY WritesKeep DEF PutGrant, Frame
<1>2. PICK c \in {"seal", "retire", "undo"} :
           /\ Goto(r, c, work[r])
           /\ grant' = Active(work[r].gen) \/ (c = "undo" /\ grant' = grant)
  BY DEF PutGrant
<1>3. work'[r].at = c /\ work'[r].got = 0 /\ work'[r].succ = work[r].succ
  BY <1>1, <1>2, ToFacts DEF MoveTo, To, Call, Keeps
<1>4. Known' \subseteq Known \cup {work[r].succ}
  BY <1>1, <1>3, KnownStep
<1>5. /\ work[r].tok # 0 /\ work[r].tok \in Handed /\ work[r].succ \in Made /\ work[r].succ # 0
      /\ tokens[work[r].succ].from = work[r].tok /\ work[r].gen = tokens[work[r].succ].gen
  BY <1>1 DEF Frame, Holds, Knows, TokenCalls
<1>6. /\ work[r].gen = tokens[work[r].tok].gen + 1 /\ tokens[work[r].tok].gen \in Nat
      /\ tokens[work[r].tok].gen >= 1
  BY <1>5, HandedFrom DEF Frame, Ancestry
<1>7. CASE grant' = Active(work[r].gen)
  <2>1. grant'.gen = work[r].gen /\ grant'.st = "active"
    BY <1>7 DEF Active
  <2>2. ASSUME NEW n \in Known' PROVE tokens'[n].gen <= work[r].gen
    <3>1. CASE n = work[r].succ
      <4>1. tokens'[n] = tokens[n]
        BY <1>1, <1>5, <3>1 DEF Keeps
      <4>2. tokens'[n].gen = work[r].gen
        BY <1>5, <3>1, <4>1
      <4>3. work[r].gen \in Nat
        BY <1>6
      <4> QED BY <4>2, <4>3
    <3>2. CASE n \in Known
      <4>1. n \in Made /\ tokens[n].gen \in Nat
        BY <3>2, KnownMade, TokenTypes DEF Frame
      <4>2. tokens[n].gen <= tokens[work[r].tok].gen
        BY <1>1, <1>5, <3>2, OldestUnsettled DEF Unsettled
      <4> QED BY <1>1, <1>6, <4>1, <4>2 DEF Keeps
    <3> QED BY <1>4, <3>1, <3>2
  <2>3. tokens' # <<>>
    BY <1>1, <1>5, NotEmpty
  <2> QED BY <1>4, <1>5, <1>6, <2>1, <2>2, <2>3 DEF Ahead
<1>8. CASE c = "undo" /\ grant' = grant
  <2>1. Known' \subseteq Known \cup {}
    BY <1>1, <1>3, <1>8, KnownStep
  <2>2. \A n \in Made : tokens'[n] = tokens[n]
    BY <1>1 DEF Keeps
  <2>3. Ahead'
    BY <1>1, <1>8, <2>1, <2>2, AheadKept
  <2> QED BY <1>4, <2>1, <2>3
<1> QED BY <1>2, <1>7, <1>8

LEMMA AheadActivate ==
    ASSUME Frame, Frame', Ahead, NEW r \in Request, Activate(r)
    PROVE  Known' = {} /\ Ahead'
<1>1. work[r].at = "activate" /\ tokens' = tokens /\ grant' = Active(1)
  BY DEF Activate
<1>2. Made' = {}
  <2>1. tokens' = <<>>
    BY <1>1 DEF Frame, Opened, Opening
  <2>2. Len(<<>>) = 0
    OBVIOUS
  <2> QED BY <2>1, <2>2 DEF Made
<1>3. Known' = {}
  <2>1. \A q \in Request : Knows(q)'
    BY DEF Frame, Holds
  <2>2. Handed' = {} /\ \A q \in Request : work'[q].at \notin {"seal", "retire", "check"}
    BY <1>2, <2>1 DEF Knows, Handed
  <2>3. \A t \in Token : spent'[t].succ = 0
    BY <1>2 DEF Frame, Records
  <2> QED BY <2>2, <2>3 DEF Known
<1> QED BY <1>1, <1>3 DEF Ahead, Active

LEMMA AheadIssue ==
    ASSUME Frame, Frame', Ahead, NEW r \in Request, Issue(r)
    PROVE  /\ \A n \in Known' : n \in Known \/ (work[r].tok = 0 /\ tokens'[n].gen = 1)
           /\ Ahead'
<1> DEFINE k == Len(tokens) + 1
<1>1. Keeps(r) /\ spent' = spent /\ WorkT /\ grant' = grant
  BY IssueKeeps DEF Frame, Issue
<1>2. k \in 0 .. MaxTokens /\ tokens'[k].gen = work[r].gen /\ (work[r].tok = 0 => work[r].gen = 1)
  BY IssuedFacts
<1>3. \/ Finish(r, 0) \/ Goto(r, "put", [work[r] EXCEPT !.succ = k]) \/ Goto(r, "unclaim", work[r])
      \/ work[r].tok = 0 /\ Goto(r, "check", [work[r] EXCEPT !.succ = k])
  BY DEF Issue
<1> HIDE DEF k
<1>4. /\ work'[r].got = 0
      /\ work'[r].at \in {"seal", "retire", "check"} => work'[r].succ = k /\ work[r].tok = 0
  <2>1. CASE Finish(r, 0)
    BY <2>1, RefusedHolds DEF Finished
  <2>2. CASE Goto(r, "put", [work[r] EXCEPT !.succ = k])
    <3>1. Went(r, "put")
      BY <1>1, <1>2, <2>2, WentFacts DEF Call
    <3> QED BY <1>1, <3>1 DEF Went, Keeps
  <2>3. CASE Goto(r, "unclaim", work[r])
    <3>1. Went(r, "unclaim")
      BY <1>1, <2>3, WentFacts DEF Call
    <3> QED BY <1>1, <3>1 DEF Went, Keeps
  <2>4. CASE work[r].tok = 0 /\ Goto(r, "check", [work[r] EXCEPT !.succ = k])
    BY <1>1, <1>2, <2>4, ToFacts DEF To, Call, Keeps
  <2> QED BY <1>3, <2>1, <2>2, <2>3, <2>4
<1>5. Known' \subseteq Known \cup (IF work[r].tok = 0 THEN {k} ELSE {})
  BY <1>1, <1>4, KnownStep
<1>6. \A n \in Known' : n \in Known \/ (work[r].tok = 0 /\ tokens'[n].gen = 1)
  BY <1>2, <1>5
<1>7. Ahead'
  <2>1. \A n \in Known : tokens'[n] = tokens[n]
    BY <1>1, KnownMade DEF Keeps
  <2>2. grant.gen \in Nat
    BY GrantsAssumption DEF Frame, StoreT
  <2>3. tokens' # <<>>
    <3>1. Len(tokens') # 0
      BY IssuedFacts
    <3>2. Len(<<>>) = 0
      OBVIOUS
    <3> QED BY <3>1, <3>2
  <2> QED BY <1>1, <1>6, <2>1, <2>2, <2>3 DEF Ahead
<1> QED BY <1>6, <1>7

LEMMA AheadStep ==
    ASSUME Frame, Frame', Ahead, NEW r \in Request, Step(r)
    PROVE  Ahead'
BY AheadReads, AheadCheck, AheadWrites, AheadPutGrant, AheadActivate, AheadIssue DEF Step

LEMMA StillKnown ==
    ASSUME Frame, Frame', Still
    PROVE  Known' \subseteq Known
<1>1. Handed' = Handed /\ spent' = spent
  BY StillHanded DEF Still
<1>2. \A q \in Request : work'[q].at \in {"seal", "retire", "check"} => work'[q] = work[q]
  BY HaltedFields DEF Still
<1> QED BY <1>1, <1>2 DEF Known

LEMMA ArrivalKnown ==
    ASSUME Frame, Frame', NEW r \in Request, Arrival(r)
    PROVE  /\ Known' \subseteq Known /\ Rest(r) /\ work[r].got = 0 /\ Handed' = Handed
           /\ UNCHANGED <<grant, codeUsed, index, spent, tomb, revoked, tokens, over, dead, failed, events>>
<1>1. PICK c \in {"code", "index", "rindex", "revoke"}, t \in 0 .. MaxTokens :
              ArrivedWith(r, c, t) /\ UNCHANGED <<store, revoked, tokens, over, dead, faults>>
  BY ArrivalFacts
<1>2. UNCHANGED <<grant, codeUsed, index, spent, tomb, revoked, tokens, over, dead, failed, events>>
  BY <1>1 DEF store, faults
<1>3. /\ Rest(r) /\ work[r].got = 0 /\ work'[r].got = 0
      /\ work'[r].at \notin {"seal", "retire", "check"}
  BY <1>1 DEF ArrivedWith, Frame, Holds, Knows
<1>4. Handed' = Handed
  BY <1>3, HandedStep
<1>5. \A q \in Request : work'[q].at \in {"seal", "retire", "check"} => work'[q] = work[q]
  BY <1>3 DEF Rest
<1>6. Known' \subseteq Known
  BY <1>2, <1>4, <1>5 DEF Known
<1> QED BY <1>2, <1>3, <1>4, <1>6

\* Everything but arrivals and steps of requests.
Background ==
    \/ \E r \in Request : Stop(r) \/ GraceEnds(r)
    \/ \E p \in Replica : Poll(p) \/ Restart(p)
    \/ TombstoneEnds
    \/ UNCHANGED vars

LEMMA BackgroundFacts ==
    ASSUME Frame, Background
    PROVE  Still /\ (failed => failed') /\ over \subseteq over'
<1>1. ASSUME NEW r \in Request, Stop(r) PROVE Still /\ (failed => failed') /\ over' = over
  <2>1. Still
    BY <1>1, StopFacts DEF Frame
  <2>2. failed => failed'
    BY <1>1, Zenon DEF Stop
  <2> QED BY <1>1, <2>1, <2>2 DEF Stop
<1>2. ASSUME NEW p \in Replica, Restart(p) PROVE Still /\ (failed => failed') /\ over' = over
  <2>1. Still
    BY <1>2, RestartFacts DEF Frame
  <2>2. failed => failed'
    BY <1>2, Zenon DEF Restart
  <2> QED BY <1>2, <2>1, <2>2 DEF Restart
<1>3. ASSUME NEW r \in Request, GraceEnds(r) PROVE Still /\ failed' = failed /\ over \subseteq over'
  BY <1>3 DEF GraceEnds, Still, store, faults
<1>4. ASSUME NEW p \in Replica, Poll(p) PROVE Still /\ failed' = failed /\ over' = over
  BY <1>4 DEF Poll, Still, store, faults
<1>5. CASE TombstoneEnds
  BY <1>5 DEF TombstoneEnds, Still, faults
<1>6. CASE UNCHANGED vars
  BY <1>6 DEF vars, Still, store, faults
<1> QED BY <1>1, <1>2, <1>3, <1>4, <1>5, <1>6 DEF Background

LEMMA NextParts ==
    ASSUME [Next]_vars
    PROVE  Background \/ \E r \in Request : Arrival(r) \/ Step(r)
BY DEF Next, Background

LEMMA AheadNext ==
    ASSUME Frame, Frame', Ahead, [Next]_vars
    PROVE  Ahead'
<1>1. ASSUME NEW r \in Request, Arrival(r) PROVE Ahead'
  <2>1. Known' \subseteq Known /\ grant' = grant /\ tokens' = tokens
    BY <1>1, ArrivalKnown
  <2> QED BY <2>1, AheadKept
<1>2. CASE Background
  <2>1. Still
    BY <1>2, BackgroundFacts
  <2>2. Known' \subseteq Known /\ grant' = grant /\ tokens' = tokens
    BY <2>1, StillKnown DEF Still
  <2> QED BY <2>2, AheadKept
<1> QED BY <1>1, <1>2, NextParts, AheadStep

\* What other requests met of a token that was exchanged stays.
LEMMA OthersReusing ==
    ASSUME Frame, Frame', NEW r \in Request, Keeps(r), NEW q \in Request \ {r}, Reusing(q)
    PROVE  Reusing(q)'
<1> SUFFICES ASSUME work[q].reuse PROVE Reusing(q)'
  BY DEF Keeps, Rest, Reusing
<1>1. work'[q] = work[q] /\ (failed => failed') /\ (dead => dead') /\ Handed \subseteq Handed'
  BY HandedStep DEF Keeps, Rest
<1>2. ASSUME work[q].at \in Presenting
      PROVE  /\ \E u \in Handed' : tokens'[u].from = work[q].tok
             /\ GraceOn => spent'[work[q].tok].by \in work[q].over
             /\ tokens'[work[q].tok] = tokens[work[q].tok]
  <2>1. PICK u \in Handed : tokens[u].from = work[q].tok
    BY <1>2 DEF Reusing
  <2>2. work[q].tok # 0 /\ work[q].tok \in Token /\ work[q].tok \in Made /\ u \in Made
    BY <1>2, HandedMade DEF Frame, Holds, Knows, TokenCalls, Presenting
  <2>3. u = Successor(work[q].tok) /\ u # 0
    BY <2>1, <2>2, HandedFrom, HandedMade
  <2>4. spent'[work[q].tok] = spent[work[q].tok]
    <3>1. spent[work[q].tok].succ # 0 \/ spent[work[q].tok].by \notin {Nobody, r}
      BY <2>3 DEF Successor, Keeps
    <3> QED BY <2>2, <3>1 DEF Keeps, SpentStep
  <2>5. GraceOn => spent[work[q].tok].by \in work[q].over
    BY <1>2 DEF Reusing
  <2>6. tokens'[u] = tokens[u] /\ tokens'[work[q].tok] = tokens[work[q].tok]
    BY <2>2 DEF Keeps
  <2> QED BY <1>1, <2>1, <2>4, <2>5, <2>6
<1>3. CASE work[q].at \in Presenting
  BY <1>1, <1>2, <1>3 DEF Reusing, Presenting
<1>4. CASE work[q].at \notin Presenting
  BY <1>1, <1>4 DEF Reusing, Presenting
<1> QED BY <1>3, <1>4

\* A request goes on with what it is about, or ends.
Flows(r) == (\E c \in Call : Went(r, c)) \/ (\E n \in {0, work[r].succ} : Finished(r, n))

LEMMA StepFlows ==
    ASSUME Frame, NEW r \in Request, Step(r)
    PROVE  Flows(r)
<1>0. WorkT /\ 0 \in 0 .. MaxTokens /\ work[r].succ \in 0 .. MaxTokens
  BY RequestTypes, GrantsAssumption DEF Frame
<1>1. ASSUME NEW n \in {0, work[r].succ}, Finish(r, n) PROVE Flows(r)
  <2>1. n \in 0 .. MaxTokens
    BY <1>0
  <2> QED BY <1>0, <1>1, <2>1, FinishFacts DEF Flows
<1>2. ASSUME NEW c \in Call, Goto(r, c, work[r]) PROVE Flows(r)
  BY <1>0, <1>2, WentFacts DEF Flows
<1>3. CASE ClaimCode(r) \/ ReadPending(r) \/ ReadIndex(r) \/ Live(r) \/ PutGrant(r) \/ Undo(r)
  BY <1>1, <1>2, <1>3 DEF ClaimCode, ReadPending, ReadIndex, Live, PutGrant, Undo, Call
<1>4. CASE Unclaim(r) \/ Seal(r) \/ Retire(r) \/ Check(r) \/ Drop(r) \/ DropGrant(r) \/ AwaitGrant(r)
  BY <1>1, <1>2, <1>4 DEF Unclaim, Seal, Retire, Check, Drop, DropGrant, AwaitGrant, Call
<1>5. CASE ReadSuccessor(r) \/ Again(r) \/ Judge(r) \/ ReadRevoked(r) \/ ReadClientGrant(r)
  BY <1>1, <1>2, <1>5 DEF ReadSuccessor, Again, Judge, ReadRevoked, ReadClientGrant, Call
<1>6. CASE Tombstone(r) \/ DeleteGrant(r) \/ DropRevoked(r)
  BY <1>1, <1>2, <1>6 DEF Tombstone, DeleteGrant, DropRevoked, Call
<1>7. CASE Activate(r)
  BY <1>0, <1>7, WentFacts DEF Activate, Flows, Call
<1>8. CASE ReadGrant(r)
  <2>1. grant.gen \in Nat
    BY GrantsAssumption DEF Frame, StoreT
  <2>2. Finish(r, 0) \/ Went(r, "live") \/ Went(r, "slive")
    BY <1>0, <1>8, <2>1, WentFacts DEF ReadGrant, Call
  <2> QED BY <1>1, <2>2 DEF Flows, Call
<1>9. CASE Revalidate(r)
  <2>1. work[r].gen + 1 \in Nat /\ "issue" \in Call
    BY <1>0, RequestTypes DEF Call
  <2>2. Went(r, "issue") \/ Goto(r, "unclaim", work[r]) \/ Goto(r, "revoke", work[r])
    BY <1>0, <1>9, <2>1, WentFacts DEF Revalidate, NextGen
  <2> QED BY <1>2, <2>1, <2>2 DEF Flows, Call
<1>10. CASE Claim(r)
  <2>1. Went(r, "idp") \/ Goto(r, "spent", work[r])
    BY <1>0, <1>10, WentFacts DEF Claim, Call
  <2> QED BY <1>2, <2>1 DEF Flows, Call
<1>11. CASE Issue(r)
  <2>1. Len(tokens) + 1 \in 0 .. MaxTokens
    BY <1>11, IssuedFacts
  <2>2. Finish(r, 0) \/ Went(r, "check") \/ Went(r, "put") \/ Goto(r, "unclaim", work[r])
    BY <1>0, <1>11, <2>1, WentFacts DEF Issue, Call
  <2> QED BY <1>1, <1>2, <2>2 DEF Flows, Call
<1>12. CASE ReadSpent(r) \/ Await(r)
  <2>1. work[r].tok \in Token
    BY <1>12, HandedMade DEF ReadSpent, Await, Frame, Holds, Knows, TokenCalls
  <2>2. spent[work[r].tok].succ \in 0 .. MaxTokens /\ {"judge", "await", "succ", "awaitgrant"} \subseteq Call
    BY <2>1, SpentTypes DEF Frame, Call
  <2>3. CASE ReadSpent(r)
    <3>1. Finish(r, 0) \/ Went(r, "judge") \/ Went(r, "await") \/ Went(r, "succ")
      BY <1>0, <2>2, <2>3, WentFacts DEF ReadSpent, Retry
    <3> QED BY <1>1, <2>2, <3>1 DEF Flows
  <2>4. CASE Await(r)
    <3>1. Finish(r, 0) \/ Goto(r, "awaitgrant", work[r]) \/ Went(r, "succ")
      BY <1>0, <2>2, <2>4, WentFacts DEF Await
    <3> QED BY <1>1, <1>2, <2>2, <3>1 DEF Flows
  <2> QED BY <1>12, <2>3, <2>4
<1> QED BY <1>3, <1>4, <1>5, <1>6, <1>7, <1>8, <1>9, <1>10, <1>11, <1>12 DEF Step

\* The way of a request to the revocation that presents a token exchanged before.
LEMMA ReusingStep ==
    ASSUME Frame, Frame', Gone, Gone', Ahead, NEW r \in Request, Step(r), Reusing(r)
    PROVE  Reusing(r)'
<1>0. Keeps(r) /\ WorkT
  BY StepKeeps DEF Frame
<1>1. work'[r].reuse = work[r].reuse
  BY StepFlows DEF Flows, Went, Finished
<1> SUFFICES ASSUME work[r].reuse PROVE Reusing(r)'
  BY <1>1 DEF Reusing
<1>2. work[r].at \in Presenting \cup {"judge", "reuse", "delete", "done"}
  BY DEF Reusing
<1>d. ASSUME Finish(r, 0), dead' \/ failed' PROVE Reusing(r)'
  <2>1. work'[r].at = "done"
    BY <1>d, RefusedHolds DEF Finished
  <2> QED BY <1>d, <2>1 DEF Reusing, Presenting
<1>3. CASE work[r].at \in Presenting
  <2>1. PICK u \in Handed : tokens[u].from = work[r].tok
    BY <1>3 DEF Reusing
  <2>2. GraceOn => spent[work[r].tok].by \in work[r].over
    BY <1>3 DEF Reusing
  <2>3. work[r].tok # 0 /\ work[r].tok \in Token /\ work[r].tok \in Made /\ u \in Made
    BY <1>3, HandedMade DEF Frame, Holds, Knows, TokenCalls, Presenting
  <2>4. u = Successor(work[r].tok) /\ u # 0 /\ tokens[u].gen = tokens[work[r].tok].gen + 1
    BY <2>1, <2>3, HandedFrom, HandedMade
  <2>5. ReadIndex(r) \/ ReadGrant(r) \/ Live(r) \/ ReadSpent(r)
    <3>1. \/ ClaimCode(r) \/ ReadPending(r) \/ Activate(r)
          \/ ReadIndex(r) \/ ReadGrant(r) \/ Live(r) \/ Claim(r)
          \/ Revalidate(r) \/ Issue(r) \/ PutGrant(r) \/ Undo(r) \/ Unclaim(r)
          \/ Seal(r) \/ Retire(r) \/ Check(r) \/ Drop(r) \/ DropGrant(r)
          \/ ReadSpent(r) \/ Await(r) \/ AwaitGrant(r) \/ ReadSuccessor(r) \/ Again(r) \/ Judge(r)
          \/ ReadRevoked(r) \/ ReadClientGrant(r) \/ Tombstone(r) \/ DeleteGrant(r) \/ DropRevoked(r)
      BY DEF Step
    <3>2. ~(\/ ClaimCode(r) \/ ReadPending(r) \/ Activate(r) \/ Claim(r)
            \/ Revalidate(r) \/ Issue(r) \/ PutGrant(r) \/ Undo(r) \/ Unclaim(r))
      BY <1>3 DEF ClaimCode, ReadPending, Activate, Claim, Revalidate, Issue, PutGrant, Undo, Unclaim,
                  Presenting
    <3>3. ~(\/ Seal(r) \/ Retire(r) \/ Check(r) \/ Drop(r) \/ DropGrant(r)
            \/ Await(r) \/ AwaitGrant(r) \/ ReadSuccessor(r))
      BY <1>3 DEF Seal, Retire, Check, Drop, DropGrant, Await, AwaitGrant, ReadSuccessor, Presenting
    <3>4. ~(\/ Again(r) \/ Judge(r) \/ ReadRevoked(r) \/ ReadClientGrant(r) \/ Tombstone(r)
            \/ DeleteGrant(r) \/ DropRevoked(r))
      BY <1>3 DEF Again, Judge, ReadRevoked, ReadClientGrant, Tombstone, DeleteGrant, DropRevoked, Presenting
    <3> QED BY <3>1, <3>2, <3>3, <3>4
  <2>6. Reads /\ Handed \subseteq Handed' /\ tokens' = tokens /\ spent' = spent
    BY <1>0, <2>5, ReadsKeep, HandedStep DEF Reads, Keeps
  <2>s. ASSUME NEW c \in {"grant", "spent", "live", "old"}, NEW g,
               To(r, c, work[r].over, g, work[r].succ, work[r].late),
               c \in {"live", "old"} => tokens[work[r].tok].gen < g
        PROVE  Reusing(r)'
    <3>1. /\ work'[r].at = c /\ work'[r].tok = work[r].tok /\ work'[r].over = work[r].over
          /\ work'[r].gen = g
      BY <2>s DEF To
    <3> QED BY <2>1, <2>2, <2>6, <2>s, <3>1 DEF Reusing, Presenting
  <2>j. ASSUME Went(r, "judge") PROVE Reusing(r)'
    BY <2>j DEF Went, Reusing, Presenting
  <2>7. CASE ReadIndex(r)
    <3>1. PICK c \in {"grant", "spent"} : Goto(r, c, work[r])
      BY <2>7 DEF ReadIndex
    <3>2. To(r, c, work[r].over, work[r].gen, work[r].succ, work[r].late)
      BY <1>0, <3>1, ToFacts DEF MoveTo, Call
    <3> QED BY <2>s, <3>1, <3>2
  <2>8. CASE ReadGrant(r)
    <3>1. work[r].at = "grant"
      BY <1>3, <2>8 DEF ReadGrant, Presenting
    <3>2. CASE grant.st = "active"
      <4>1. grant.gen \in Nat
        BY GrantsAssumption DEF Frame, StoreT
      <4>2. Goto(r, "live", [work[r] EXCEPT !.gen = grant.gen])
        BY <2>8, <3>1, <3>2 DEF ReadGrant
      <4>3. To(r, "live", work[r].over, grant.gen, work[r].succ, work[r].late)
        BY <1>0, <4>1, <4>2, ToFacts DEF Call
      <4>4. tokens[u].gen <= grant.gen
        BY <3>2, KnownFacts DEF Ahead
      <4>5. tokens[work[r].tok].gen \in Nat
        BY <2>3, TokenTypes DEF Frame
      <4>6. tokens[work[r].tok].gen < grant.gen
        BY <2>4, <4>1, <4>4, <4>5
      <4> QED BY <2>s, <4>3, <4>6
    <3>3. CASE grant.st # "active"
      <4>1. grant.st = "none"
        BY <2>3, <3>3, NotEmpty DEF Frame, StoreT
      <4>2. dead \/ failed
        BY <4>1 DEF Gone
      <4> QED BY <1>0, <1>d, <2>8, <3>3, <4>2 DEF ReadGrant, Keeps
    <3> QED BY <3>2, <3>3
  <2>9. CASE Live(r)
    <3>1. work[r].at = "live" /\ tokens[work[r].tok].gen < work[r].gen
      BY <2>9 DEF Live, Reusing
    <3>2. CASE RefusedOn(Home[r])
      <4>1. dead \/ failed
        BY <3>2 DEF RefusedOn, Gone
      <4> QED BY <1>0, <1>d, <2>9, <3>2, <4>1 DEF Live, Keeps
    <3>3. CASE ~RefusedOn(Home[r])
      <4>1. Goto(r, "old", work[r])
        BY <2>9, <3>1, <3>3 DEF Live
      <4>2. To(r, "old", work[r].over, work[r].gen, work[r].succ, work[r].late)
        BY <1>0, <4>1, ToFacts DEF MoveTo, Call
      <4> QED BY <2>s, <3>1, <4>2
    <3> QED BY <3>2, <3>3
  <2>10. CASE ReadSpent(r)
    <3>1. spent[work[r].tok] # Unspent
      BY <2>4, UnspentFields DEF Successor
    <3>2. Goto(r, "judge", [work[r] EXCEPT !.over = {}, !.late = TRUE])
      BY <2>2, <2>10, <3>1 DEF ReadSpent, Retry
    <3>3. Went(r, "judge")
      BY <1>0, <3>2, WentFacts DEF Call
    <3> QED BY <2>j, <3>3
  <2> QED BY <2>5, <2>7, <2>8, <2>9, <2>10
<1>4. CASE work[r].at \in {"judge", "reuse", "delete", "done"}
  <2>1. Judge(r) \/ Tombstone(r) \/ DeleteGrant(r)
    <3>2. ~(\/ ClaimCode(r) \/ ReadPending(r) \/ Activate(r) \/ Claim(r)
            \/ Revalidate(r) \/ Issue(r) \/ PutGrant(r) \/ Undo(r) \/ Unclaim(r))
      BY <1>4 DEF ClaimCode, ReadPending, Activate, Claim, Revalidate, Issue, PutGrant, Undo, Unclaim
    <3>3. ~(\/ Seal(r) \/ Retire(r) \/ Check(r) \/ Drop(r) \/ DropGrant(r)
            \/ Await(r) \/ AwaitGrant(r) \/ ReadSuccessor(r))
      BY <1>4 DEF Seal, Retire, Check, Drop, DropGrant, Await, AwaitGrant, ReadSuccessor
    <3>4. ~(\/ Again(r) \/ ReadRevoked(r) \/ ReadClientGrant(r) \/ DropRevoked(r)
            \/ ReadIndex(r) \/ ReadGrant(r) \/ Live(r) \/ ReadSpent(r))
      BY <1>4 DEF Again, ReadRevoked, ReadClientGrant, DropRevoked, ReadIndex, ReadGrant, Live, ReadSpent
    <3> QED BY <3>2, <3>3, <3>4 DEF Step
  <2>2. CASE Judge(r)
    <3>1. CASE grant = NoGrant
      <4>1. dead \/ failed
        BY <3>1 DEF NoGrant, Gone
      <4> QED BY <1>0, <1>d, <2>2, <3>1, <4>1 DEF Judge, Keeps
    <3>2. CASE grant # NoGrant
      <4>1. Went(r, "reuse")
        BY <1>0, <2>2, <3>2, WentFacts DEF Judge, Call
      <4> QED BY <4>1 DEF Went, Reusing, Presenting
    <3> QED BY <3>1, <3>2
  <2>3. CASE Tombstone(r)
    <3>1. Goto(r, "delete", work[r])
      BY <1>4, <2>3 DEF Tombstone
    <3>2. Went(r, "delete")
      BY <1>0, <3>1, WentFacts DEF Call
    <3> QED BY <3>2 DEF Went, Reusing, Presenting
  <2>4. CASE DeleteGrant(r)
    <3>1. work[r].at = "delete" /\ Finish(r, 0)
      BY <1>4, <2>4 DEF DeleteGrant
    <3>2. dead \/ failed
      BY <3>1 DEF Gone
    <3> QED BY <1>0, <1>d, <3>1, <3>2 DEF Keeps
  <2> QED BY <2>1, <2>2, <2>3, <2>4
<1> QED BY <1>2, <1>3, <1>4

LEMMA ReusingArrival ==
    ASSUME Frame, Frame', NEW r \in Request, Arrival(r), NEW q \in Request, Reusing(q)
    PROVE  Reusing(q)'
<1>1. PICK c \in {"code", "index", "rindex", "revoke"}, t \in 0 .. MaxTokens :
              /\ ArrivedWith(r, c, t)
              /\ c \in {"index", "rindex"} => t \in Handed
  BY ArrivalFacts
<1>2. /\ Handed' = Handed
      /\ UNCHANGED <<grant, codeUsed, index, spent, tomb, revoked, tokens, over, dead, failed, events>>
  BY ArrivalKnown
<1>3. CASE q # r
  <2>1. work'[q] = work[q]
    BY <1>1, <1>3 DEF ArrivedWith, Rest
  <2> QED BY <1>2, <2>1 DEF Reusing
<1>4. CASE q = r
  <2> SUFFICES ASSUME work'[r].reuse PROVE Reusing(r)'
    BY <1>4 DEF Reusing
  <2>1. c = "index" /\ Exchanged(t) /\ t \in Handed
    BY <1>1 DEF ArrivedWith
  <2>2. /\ work'[r].at = "index" /\ work'[r].tok = t /\ work'[r].over = over \cap Spenders(t)
    BY <1>1, <2>1 DEF ArrivedWith
  <2>3. PICK p \in Request : work[p].tok = t /\ work[p].got # 0
    BY <2>1 DEF Exchanged
  <2>4. work[p].got \in Handed /\ tokens[work[p].got].from = t
    BY <2>3 DEF Frame, Holds, Given, Handed
  <2>5. GraceOn => spent[t].by \in over \cap Spenders(t)
    BY <2>1 DEF Exchanged, Spenders, Frame, StoreT
  <2> QED BY <1>2, <2>2, <2>4, <2>5 DEF Reusing, Presenting
<1> QED BY <1>3, <1>4

LEMMA ReusingStill ==
    ASSUME Frame, Still, failed => failed', NEW q \in Request, Reusing(q)
    PROVE  Reusing(q)'
<1>1. Handed' = Handed /\ spent' = spent /\ tokens' = tokens /\ dead' = dead
  BY StillHanded DEF Still
<1>2. work'[q] = work[q] \/ ~work'[q].reuse
  BY HaltedFields DEF Still
<1> QED BY <1>1, <1>2 DEF Reusing

\* The invariant of reuse.
Reuse == Gone /\ Ahead /\ \A r \in Request : Reusing(r)

LEMMA InitReuse ==
    ASSUME Init
    PROVE  Reuse
<1>1. grant.st = "pending" /\ \A r \in Request : work[r].reuse = FALSE
  BY NewFields DEF Init
<1> QED BY <1>1, InitGone DEF Reuse, Ahead, Reusing

LEMMA NextReuse ==
    ASSUME Frame, Frame', Reuse, [Next]_vars
    PROVE  Reuse'
<1>1. Gone /\ Ahead /\ \A r \in Request : Reusing(r)
  BY DEF Reuse
<1>2. Gone' /\ Ahead'
  BY <1>1, GoneNext, AheadNext
<1>3. ASSUME NEW q \in Request PROVE Reusing(q)'
  <2>1. CASE Background
    BY <1>1, <2>1, BackgroundFacts, ReusingStill
  <2>2. ASSUME NEW r \in Request, Arrival(r) PROVE Reusing(q)'
    BY <1>1, <2>2, ReusingArrival
  <2>3. ASSUME NEW r \in Request, Step(r) PROVE Reusing(q)'
    <3>1. CASE q = r
      BY <1>1, <1>2, <2>3, <3>1, ReusingStep
    <3>2. CASE q # r
      BY <1>1, <2>3, <3>2, StepKeeps, OthersReusing
    <3> QED BY <3>1, <3>2
  <2> QED BY <2>1, <2>2, <2>3, NextParts
<1> QED BY <1>2, <1>3 DEF Reuse

LEMMA ReuseAlways == Spec => []Reuse
<1>1. Init => Reuse
  BY InitReuse
<1>2. Frame /\ Frame' /\ Reuse /\ [Next]_vars => Reuse'
  BY NextReuse
<1> QED BY <1>1, <1>2, FrameAlways, PTL DEF Spec

\* A token presented again after it was exchanged, past its grace, ends the
\* grant (reused): the grant has moved on from the token's generation, and no
\* record the request meets on its way, half-written or deleted, hides that.
\* (Unless it stopped, or a write failed.)
THEOREM ReuseIsPunished == Spec => []ReuseEndsGrant
<1>1. ASSUME Reuse PROVE ReuseEndsGrant
  BY <1>1 DEF Reuse, Reusing, ReuseEndsGrant
<1> QED BY <1>1, ReuseAlways, PTL

-----------------------------------------------------------------------------
(* A token used again within its grace does not end the grant.             *)

\* The steps that read.
Looks(r) ==
    \/ ReadPending(r) \/ ReadIndex(r) \/ ReadGrant(r) \/ Live(r) \/ Revalidate(r)
    \/ ReadSpent(r) \/ Await(r) \/ AwaitGrant(r) \/ ReadSuccessor(r) \/ Again(r) \/ Judge(r)
    \/ ReadRevoked(r) \/ ReadClientGrant(r)

\* Steps that leave r at a call no property is about.
Tidies(r) ==
    \/ ClaimCode(r) \/ Unclaim(r) \/ Seal(r) \/ Retire(r) \/ Check(r) \/ Drop(r) \/ DropGrant(r)
    \/ Tombstone(r) \/ DeleteGrant(r) \/ DropRevoked(r)

LEMMA StepParts ==
    ASSUME NEW r \in Request, Step(r)
    PROVE  Looks(r) \/ Tidies(r) \/ Activate(r) \/ Claim(r) \/ Issue(r) \/ PutGrant(r) \/ Undo(r)
BY DEF Step, Looks, Tidies

\* Calls such steps leave r at.
Tidy == {"revoke", "pending", "retire", "check", "drop", "dropgrant", "delete", "rdelete", "rdrop", "done"}

LEMMA TidyFacts ==
    ASSUME Frame, NEW r \in Request, Tidies(r)
    PROVE  work'[r].at \in Tidy
<1>0. WorkT /\ 0 \in 0 .. MaxTokens /\ work[r].succ \in 0 .. MaxTokens
  BY RequestTypes, GrantsAssumption DEF Frame
<1>1. ASSUME NEW n \in {0, work[r].succ}, Finish(r, n) PROVE work'[r].at \in Tidy
  <2>1. n \in 0 .. MaxTokens
    BY <1>0
  <2>2. Finished(r, n)
    BY <1>0, <1>1, <2>1, FinishFacts
  <2> QED BY <2>2 DEF Finished, Tidy
<1>2. ASSUME NEW c \in Tidy, Goto(r, c, work[r]) PROVE work'[r].at \in Tidy
  <2>1. c \in Call \cup Ended
    BY <1>2 DEF Tidy, Call, Ended
  <2>2. Went(r, c)
    BY <1>0, <1>2, <2>1, WentFacts
  <2> QED BY <2>2 DEF Went
<1>3. CASE ClaimCode(r) \/ Unclaim(r) \/ Seal(r) \/ Retire(r) \/ Check(r)
  BY <1>1, <1>2, <1>3 DEF ClaimCode, Unclaim, Seal, Retire, Check, Tidy
<1>4. CASE Drop(r) \/ DropGrant(r) \/ Tombstone(r) \/ DeleteGrant(r) \/ DropRevoked(r)
  BY <1>1, <1>2, <1>4 DEF Drop, DropGrant, Tombstone, DeleteGrant, DropRevoked, Tidy
<1> QED BY <1>3, <1>4 DEF Tidies

\* A request that has not written the grant yet had not before, or claimed the
\* token just now.
LEMMA Unsettles ==
    ASSUME Frame, NEW r \in Request, Step(r), work'[r].at \in Unsettled, work'[r].tok # 0
    PROVE  /\ work'[r].tok = work[r].tok
           /\ work[r].at \in Unsettled \/ spent[work[r].tok] = Unspent
<1>0. WorkT
  BY DEF Frame
<1>1. work'[r].tok = work[r].tok
  BY StepFlows DEF Flows, Went, Finished, Unsettled
<1>2. CASE Looks(r)
  <2>1. Calmly(r)
    BY <1>2, ReadsCalm DEF Looks
  <2> QED BY <1>1, <2>1 DEF Calmly, Calm, Unsettled
<1>3. CASE Tidies(r)
  BY <1>3, TidyFacts DEF Tidy, Unsettled
<1>4. CASE Activate(r)
  BY <1>1, <1>4 DEF Activate, Frame, Holds, Knows
<1>5. CASE Claim(r)
  <2>1. ~Goto(r, "spent", work[r])
    <3>1. Goto(r, "spent", work[r]) => Went(r, "spent")
      BY <1>0, WentFacts DEF Call
    <3> QED BY <3>1 DEF Went, Unsettled
  <2> QED BY <1>1, <1>5, <2>1 DEF Claim
<1>6. CASE Issue(r) \/ PutGrant(r) \/ Undo(r)
  BY <1>1, <1>6 DEF Issue, PutGrant, Undo, Unsettled
<1> QED BY <1>2, <1>3, <1>4, <1>5, <1>6, StepParts

\* How a step changes a spent record.
LEMMA RecordStep ==
    ASSUME Frame, NEW r \in Request, Step(r), NEW t \in Token
    PROVE  \/ spent'[t] = spent[t]
           \/ t = work[r].tok /\ spent[t] = Unspent /\ spent'[t].succ = 0
           \/ t = work[r].tok /\ work[r].at = "unclaim" /\ spent'[t].succ = 0
           \/ /\ t = work[r].tok /\ work[r].at = "seal" /\ work'[r].at = "retire"
              /\ spent'[t].by = r /\ spent'[t].succ = work[r].succ
<1>0. spent \in [Token -> SpentRecord] /\ WorkT
  BY DEF Frame, StoreT
<1>1. ASSUME NEW x, spent' = [spent EXCEPT ![work[r].tok] = x]
      PROVE  spent'[t] = spent[t] \/ (t = work[r].tok /\ spent'[t] = x)
  BY <1>0, <1>1
<1>2. CASE Claim(r)
  <2>1. \/ spent' = spent
        \/ /\ spent[work[r].tok] = Unspent
           /\ spent' = [spent EXCEPT ![work[r].tok] = [by |-> r, succ |-> 0]]
    BY <1>2 DEF Claim
  <2> QED BY <1>1, <2>1
<1>3. CASE Unclaim(r)
  <2>1. spent' = [spent EXCEPT ![work[r].tok] = Unspent] /\ work[r].at = "unclaim"
    BY <1>3 DEF Unclaim
  <2> QED BY <1>1, <2>1, UnspentFields
<1>4. CASE Seal(r)
  <2>1. /\ spent' = spent \/ spent' = [spent EXCEPT ![work[r].tok] = [by |-> r, succ |-> work[r].succ]]
        /\ work[r].at = "seal" /\ Goto(r, "retire", work[r])
    BY <1>4 DEF Seal
  <2>2. Went(r, "retire")
    BY <1>0, <2>1, WentFacts DEF Call
  <2>3. work'[r].at = "retire"
    BY <2>2 DEF Went
  <2> QED BY <1>1, <2>1, <2>3
<1>5. CASE ~(Claim(r) \/ Unclaim(r) \/ Seal(r))
  <2>1. spent' = spent
    BY <1>5, ReadsKeep, WritesKeep, IssueKeeps DEF Step, Reads
  <2> QED BY <2>1
<1> QED BY <1>2, <1>3, <1>4, <1>5

\* A token that is spent for good stays so.
LEMMA SettledStep ==
    ASSUME Frame, NEW r \in Request, Step(r), NEW t \in Token, Settled(t)
    PROVE  Settled(t)'
<1>0. Keeps(r) /\ t # 0
  BY StepKeeps DEF Token
<1>1. spent[t].by \in Request /\ spent[t].by # Nobody
  BY SpentTypes DEF Frame, Settled
<1>2. CASE spent'[t] = spent[t]
  <2>1. CASE spent[t].by = r
    <3> SUFFICES ASSUME work'[r].tok = t, work'[r].at \in Unsettled PROVE FALSE
      BY <1>1, <1>2, <2>1 DEF Settled
    <3>1. work[r].tok = t /\ (work[r].at \in Unsettled \/ spent[t] = Unspent)
      BY <1>0, Unsettles
    <3> QED BY <1>1, <2>1, <3>1, UnspentFields DEF Settled
  <2>2. CASE spent[t].by # r
    <3>1. work'[spent[t].by] = work[spent[t].by]
      BY <1>0, <1>1, <2>2 DEF Keeps, Rest
    <3> QED BY <1>1, <1>2, <3>1 DEF Settled
  <2> QED BY <2>1, <2>2
<1>3. CASE t = work[r].tok /\ work[r].at = "unclaim"
  <2>1. spent[t].by = r
    BY <1>0, <1>3 DEF Frame, Holds, Owns, Rotating, Unsettled
  <2> QED BY <1>3, <2>1 DEF Settled, Unsettled
<1>4. CASE work'[r].at = "retire" /\ spent'[t].by = r
  BY <1>4, GrantsAssumption DEF Settled, Unsettled
<1> QED BY <1>1, <1>2, <1>3, <1>4, RecordStep, UnspentFields

LEMMA FinalStep ==
    ASSUME Frame, NEW r \in Request, Step(r)
    PROVE  Final \subseteq Final'
BY SettledStep DEF Final

\* A token older than the grant stays spent for good if clients know of no more
\* tokens and the grant is the same.
LEMMA PastKept ==
    ASSUME Frame, Past, Known' \subseteq Known, failed => failed',
           grant' = grant \/ grant'.st # "active",
           \A n \in Made : tokens'[n] = tokens[n],
           Final \subseteq Final'
    PROVE  Past'
<1> SUFFICES ASSUME ~failed', grant'.st = "active", NEW n \in Known', tokens'[n].gen < grant'.gen
             PROVE  n \in Final'
  BY DEF Past
<1>1. n \in Known /\ n \in Made /\ n \in Token /\ tokens'[n] = tokens[n] /\ grant' = grant
  BY KnownMade, TokenTypes DEF Frame
<1> QED BY <1>1 DEF Past

\* The grant is written at its next generation once the token is spent for good.
LEMMA PastPutGrant ==
    ASSUME Frame, Frame', Ahead, Past, NEW r \in Request, PutGrant(r), Step(r)
    PROVE  Past'
<1> SUFFICES ASSUME ~failed', NEW n \in Known', tokens'[n].gen < grant'.gen
             PROVE  n \in Final'
  BY DEF Past
<1>1. /\ Keeps(r) /\ work[r].at = "put" /\ spent' = spent /\ tokens' = tokens /\ WorkT
  BY WritesKeep DEF PutGrant, Frame
<1>2. ~Fault
  BY Zenon DEF Fault
<1>3. PICK c \in {"seal", "retire"} : Goto(r, c, work[r]) /\ grant' = Active(work[r].gen)
  BY <1>2 DEF PutGrant
<1>4. work'[r].at = c
  BY <1>1, <1>3, ToFacts DEF MoveTo, To, Call
<1> DEFINE t == work[r].tok
<1>5. /\ t # 0 /\ t \in Handed /\ t \in Known /\ t \in Token /\ work[r].gen = tokens[work[r].succ].gen
      /\ work[r].succ \in Made /\ tokens[work[r].succ].from = t /\ spent[t].by = r
  BY <1>1, KnownFacts, HandedMade DEF Frame, Holds, Knows, Owns, TokenCalls, Rotating, Unsettled
<1>6. work[r].gen = tokens[t].gen + 1 /\ tokens[t].gen \in Nat
  BY <1>5, HandedFrom DEF Frame, Ancestry
<1>7. n \in Known
  <2>1. grant'.gen = work[r].gen
    BY <1>3 DEF Active
  <2>2. n # work[r].succ
    <3>1. work[r].gen \in Nat /\ tokens'[n].gen < work[r].gen
      BY <1>6, <2>1
    <3>2. n = work[r].succ => tokens'[n].gen = work[r].gen
      BY <1>1, <1>5
    <3> QED BY <3>1, <3>2
  <2> QED BY <2>2, AheadPutGrant
<1>8. n \in Token /\ tokens[n].gen \in Nat /\ tokens[n].gen <= tokens[t].gen
  BY <1>1, <1>5, <1>7, OldestUnsettled, KnownMade, TokenTypes DEF Frame, Unsettled
<1> HIDE DEF t
<1>9. CASE tokens[n].gen < tokens[t].gen
  <2>1. Settled(n)
    BY <1>5, <1>7, <1>9, OlderSettled
  <2> QED BY <1>8, <2>1, FinalStep DEF Final
<1>10. CASE tokens[n].gen = tokens[t].gen
  <2>1. n = t
    BY <1>5, <1>7, <1>10, KnownUnique
  <2>2. Settled(n)'
    BY <1>1, <1>4, <1>5, <2>1, GrantsAssumption DEF Settled, Unsettled
  <2> QED BY <1>8, <2>2 DEF Final
<1> QED BY <1>6, <1>8, <1>9, <1>10

LEMMA PastStep ==
    ASSUME Frame, Frame', Ahead, Past, NEW r \in Request, Step(r)
    PROVE  Past'
<1>0. Keeps(r) /\ Final \subseteq Final'
  BY StepKeeps, FinalStep
<1>k. ASSUME Known' \subseteq Known, grant' = grant \/ grant'.st # "active" PROVE Past'
  BY <1>0, <1>k, PastKept DEF Keeps
<1>1. CASE Looks(r)
  <2>1. Known' \subseteq Known /\ Reads
    BY <1>1, AheadReads, ReadsKeep DEF Looks
  <2> QED BY <1>k, <2>1 DEF Reads
<1>2. CASE Check(r)
  <2>1. Known' \subseteq Known /\ Reads
    BY <1>2, AheadCheck, ReadsKeep
  <2> QED BY <1>k, <2>1 DEF Reads
<1>3. CASE Claim(r) \/ Undo(r) \/ (Tidies(r) /\ ~Check(r))
  <2>1. Known' \subseteq Known
    BY <1>3, AheadWrites DEF Tidies
  <2>2. grant' = grant \/ grant'.st # "active"
    <3>1. CASE Claim(r) \/ Undo(r) \/ ClaimCode(r) \/ Unclaim(r) \/ Seal(r) \/ Retire(r)
      BY <3>1 DEF ClaimCode, Claim, Undo, Unclaim, Seal, Retire
    <3>2. CASE Drop(r) \/ DropGrant(r) \/ Tombstone(r) \/ DeleteGrant(r) \/ DropRevoked(r)
      BY <3>2 DEF Drop, DropGrant, Tombstone, DeleteGrant, DropRevoked, NoGrant
    <3> QED BY <1>3, <3>1, <3>2 DEF Tidies
  <2> QED BY <1>k, <2>1, <2>2
<1>4. CASE Activate(r)
  BY <1>4, AheadActivate DEF Past
<1>5. CASE PutGrant(r)
  BY <1>5, PastPutGrant
<1>6. CASE Issue(r)
  <2>1. CASE work[r].tok = 0
    <3>1. grant' = grant /\ work[r].at = "issue" /\ tokens = <<>>
      BY <1>6, <2>1 DEF Issue, Frame, Opened, Opening
    <3>2. Known = {}
      <4>1. Made = {}
        <5>1. Len(<<>>) = 0
          OBVIOUS
        <5> QED BY <3>1, <5>1 DEF Made
      <4> QED BY <4>1, KnownMade
    <3>3. grant.st = "active" => grant.gen = 1
      BY <3>1 DEF Ahead
    <3>4. \A n \in Known' : tokens'[n].gen = 1
      BY <1>6, <3>2, AheadIssue
    <3> QED BY <3>1, <3>3, <3>4 DEF Past
  <2>2. CASE work[r].tok # 0
    <3>1. Known' \subseteq Known
      BY <1>6, <2>2, AheadIssue
    <3>2. grant' = grant
      BY <1>6 DEF Issue
    <3> QED BY <1>k, <3>1, <3>2
  <2> QED BY <2>1, <2>2
<1> QED BY <1>1, <1>2, <1>3, <1>4, <1>5, <1>6, StepParts

\* The token records a step may delete.
LEMMA IndexStep ==
    ASSUME Frame, NEW r \in Request, Step(r), NEW n \in index, n \notin index'
    PROVE  \/ work[r].at = "undo" /\ n = work[r].succ
           \/ work[r].at = "retire" /\ n = work[r].tok
           \/ work[r].at \in {"drop", "rdrop"}
<1>1. CASE Looks(r) \/ Check(r)
  <2>1. Reads
    BY <1>1, ReadsKeep DEF Looks
  <2> QED BY <2>1 DEF Reads
<1>2. CASE Undo(r) \/ Retire(r) \/ Drop(r) \/ DropRevoked(r)
  BY <1>2 DEF Undo, Retire, Drop, DropRevoked
<1>3. CASE Activate(r) \/ Claim(r) \/ Issue(r) \/ PutGrant(r)
  BY <1>3 DEF Activate, Claim, Issue, PutGrant
<1>4. CASE ClaimCode(r) \/ Unclaim(r) \/ Seal(r) \/ DropGrant(r) \/ Tombstone(r) \/ DeleteGrant(r)
  BY <1>4 DEF ClaimCode, Unclaim, Seal, DropGrant, Tombstone, DeleteGrant
<1> QED BY <1>1, <1>2, <1>3, <1>4, StepParts DEF Tidies

\* A successor that can be given again stays so, unless its own request gives up.
LEMMA KeptStep ==
    ASSUME Frame, Gone, NEW r \in Request, Step(r), NEW n \in Token, Kept(n),
           ~(work[r].at = "undo" /\ n = work[r].succ)
    PROVE  Kept(n)'
<1>0. Keeps(r)
  BY StepKeeps
<1>1. CASE dead \/ failed
  BY <1>0, <1>1 DEF Keeps, Kept
<1>2. CASE n \in Final
  BY <1>2, FinalStep DEF Kept
<1>3. CASE n \in index /\ n \notin index'
  <2>1. CASE work[r].at = "retire" /\ n = work[r].tok
    <3>1. spent[n].by = r /\ n # 0
      BY <2>1 DEF Frame, Holds, Owns, Rotating, Token
    <3>2. Settled(n)
      BY <2>1, <3>1, GrantsAssumption DEF Settled, Unsettled
    <3> QED BY <1>2, <3>2 DEF Final
  <2>2. CASE work[r].at \in {"drop", "rdrop"}
    BY <1>1, <2>2 DEF Gone
  <2> QED BY <1>3, <2>1, <2>2, IndexStep
<1>4. CASE n \in index'
  BY <1>4 DEF Kept
<1> QED BY <1>1, <1>2, <1>3, <1>4 DEF Kept

\* The successor a spent token names can be given again.
LEMMA SealedStep ==
    ASSUME Frame, Gone, Sealed, NEW r \in Request, InGrace(r), Step(r)
    PROVE  Sealed'
<1> SUFFICES ASSUME NEW t \in Token, NEW s, s = spent'[t].succ, s # 0
             PROVE  s \in index' \cup Final' \/ dead' \/ failed'
  BY DEF Sealed, Kept
<1>1. CASE s = spent[t].succ
  <2>1. Kept(s) /\ s \in Made /\ s \in Token /\ tokens[s].from = t
    BY <1>1, TokenTypes DEF Sealed, Frame, Records
  <2>2. ASSUME work[r].at = "undo", s = work[r].succ PROVE FALSE
    <3>1. work[r].tok = t /\ t # 0
      BY <2>1, <2>2 DEF Frame, Holds, Knows, Token
    <3>2. spent[t].succ = 0
      BY <2>2, <3>1 DEF Frame, Holds, Owns, Unsettled
    <3> QED BY <1>1, <3>2
  <2> QED BY <2>1, <2>2, KeptStep DEF Kept
<1>2. CASE work[r].at = "seal" /\ s = work[r].succ
  <2>1. Kept(s)
    BY <1>2 DEF InGrace
  <2>2. s \in Token
    BY <1>2, TokenTypes DEF Frame, Holds, Knows
  <2> QED BY <1>2, <2>1, <2>2, KeptStep DEF Kept
<1> QED BY <1>1, <1>2, RecordStep

\* What a step of r leaves to another request within its grace.
LEMMA OthersInGrace ==
    ASSUME Frame, Gone, NEW r \in Request, Step(r), NEW q \in Request \ {r}, InGrace(q)
    PROVE  InGrace(q)'
<1>0. Keeps(r) /\ work'[q] = work[q] /\ (failed => failed') /\ (dead => dead')
  BY StepKeeps DEF Keeps, Rest
<1>1. /\ work[q].tok # 0 => work[q].tok \in Made /\ work[q].tok \in Token
      /\ work[q].succ # 0 => work[q].succ \in Made /\ work[q].succ \in Token
  BY HandedMade, TokenTypes DEF Frame, Holds, Knows
<1>2. \A n \in Made : tokens'[n] = tokens[n]
  BY <1>0 DEF Keeps
<1>s. Final \subseteq Final'
  BY FinalStep
<1>3. ASSUME work[q].at \in {"live", "old"}
      PROVE  /\ tokens'[work[q].tok] = tokens[work[q].tok]
             /\ work[q].tok \in Final => work[q].tok \in Final'
  <2>1. work[q].tok \in Made
    BY <1>1, <1>3 DEF Frame, Holds, Knows, TokenCalls
  <2> QED BY <1>2, <1>s, <2>1
<1>4. ASSUME work[q].at = "slive"
      PROVE  /\ tokens'[work[q].succ] = tokens[work[q].succ]
             /\ work[q].succ \in Final => work[q].succ \in Final'
  <2>1. work[q].succ \in Made
    BY <1>1, <1>4 DEF Frame, Holds, Owns
  <2> QED BY <1>2, <1>s, <2>1
<1>5. ASSUME work[q].at \in {"put", "seal"}
      PROVE  work[q].succ \in index' \cup Final' \/ dead' \/ failed'
  <2>1. /\ work[q].succ \in Token /\ tokens[work[q].succ].from = work[q].tok
        /\ work[q].tok # 0 /\ spent[work[q].tok].by = q
    BY <1>1, <1>5 DEF Frame, Holds, Knows, Owns, TokenCalls, Rotating, Unsettled
  <2>2. ASSUME work[r].at = "undo", work[r].succ = work[q].succ PROVE FALSE
    <3>1. work[r].tok = work[q].tok
      BY <2>1, <2>2 DEF Frame, Holds, Knows
    <3>2. spent[work[q].tok].by = r
      BY <2>1, <2>2, <3>1 DEF Frame, Holds, Owns, Rotating, Unsettled
    <3> QED BY <2>1, <3>2
  <2>3. Kept(work[q].succ)
    BY <1>5 DEF InGrace
  <2>4. \A n \in Token : Kept(n) /\ n = work[q].succ => n \in index' \cup Final' \/ dead' \/ failed'
    BY <2>2, KeptStep DEF Kept
  <2> QED BY <2>1, <2>3, <2>4
<1>6. ASSUME GraceOn, work[q].at \in {"judge", "reuse"}, ~work[q].late, ~dead', ~failed'
      PROVE  spent'[work[q].tok].succ # 0 /\ spent'[work[q].tok].succ \in Final'
  <2>1. work[q].tok \in Token
    BY <1>1, <1>6 DEF Frame, Holds, Knows, TokenCalls
  <2>2. spent[work[q].tok].succ # 0 /\ spent[work[q].tok].succ \in Final
    BY <1>0, <1>6 DEF InGrace
  <2>3. spent'[work[q].tok] = spent[work[q].tok]
    BY <1>0, <2>1, <2>2 DEF Keeps, SpentStep
  <2> QED BY <1>s, <2>2, <2>3
<1>7. InGrace(q)
  OBVIOUS
<1> QED BY <1>0, <1>3, <1>4, <1>5, <1>6, <1>7 DEF InGrace, Kept

\* Calls that InGrace says something of.
Graced == {"live", "old", "slive", "put", "seal", "judge", "reuse"}

LEMMA NotGraced ==
    ASSUME NEW r \in Request, work'[r].at \notin Graced
    PROVE  InGrace(r)'
BY DEF InGrace, Graced

LEMMA FinishNotGraced ==
    ASSUME WorkT, NEW r \in Request, NEW n \in 0 .. MaxTokens, Finish(r, n)
    PROVE  InGrace(r)'
<1>1. Finished(r, n)
  BY FinishFacts
<1> QED BY <1>1, NotGraced DEF Finished, Graced

\* A request comes to judge a token.
LEMMA JudgeInGrace ==
    ASSUME Frame, NEW r \in Request, NEW c \in {"judge", "reuse"}, Step(r),
           work'[r].at = c, work'[r].tok = work[r].tok,
           GraceOn /\ ~work'[r].late =>
               \/ dead \/ failed
               \/ spent[work[r].tok].succ # 0 /\ spent[work[r].tok].succ \in Final,
           work[r].tok \in Token
    PROVE  InGrace(r)'
<1>1. Keeps(r) /\ Final \subseteq Final'
  BY StepKeeps, FinalStep
<1>2. spent[work[r].tok].succ # 0 => spent'[work[r].tok] = spent[work[r].tok]
  BY <1>1 DEF Keeps, SpentStep
<1>3. (dead => dead') /\ (failed => failed')
  BY <1>1 DEF Keeps
<1> QED BY <1>1, <1>2, <1>3 DEF InGrace

LEMMA ReadGrantInGrace ==
    ASSUME Frame, Ahead, Past, NEW r \in Request, ReadGrant(r), Step(r)
    PROVE  InGrace(r)'
<1>0. WorkT /\ work[r].at \in {"grant", "sgrant"} /\ 0 \in 0 .. MaxTokens
  BY GrantsAssumption DEF Frame, ReadGrant
<1>1. CASE grant.st # "active"
  BY <1>0, <1>1, FinishNotGraced DEF ReadGrant
<1>2. CASE grant.st = "active"
  <2> DEFINE c == IF work[r].at = "grant" THEN "live" ELSE "slive"
  <2>1. grant.gen \in Nat /\ c \in Call
    BY GrantsAssumption DEF Frame, StoreT, Call
  <2>2. Goto(r, c, [work[r] EXCEPT !.gen = grant.gen])
    BY <1>2 DEF ReadGrant
  <2> HIDE DEF c
  <2>3. To(r, c, work[r].over, grant.gen, work[r].succ, work[r].late)
    BY <1>0, <2>1, <2>2, ToFacts
  <2>4. /\ work'[r].at = c /\ work'[r].tok = work[r].tok /\ work'[r].gen = grant.gen
        /\ work'[r].succ = work[r].succ
    BY <2>3 DEF To
  <2>5. Keeps(r) /\ tokens' = tokens /\ Final \subseteq Final' /\ (failed => failed')
    BY ReadsKeep, FinalStep DEF Keeps, Reads
  <2>6. ASSUME NEW n \in Known, tokens[n].gen < grant.gen PROVE failed' \/ n \in Final'
    BY <1>2, <2>5, <2>6 DEF Past
  <2>7. CASE work[r].at = "grant"
    <3>1. work[r].tok \in Known
      BY <2>7, KnownFacts DEF Frame, Holds, Knows, TokenCalls
    <3>2. work'[r].at = "live"
      BY <2>4, <2>7 DEF c
    <3>3. tokens[work[r].tok].gen < grant.gen => failed' \/ work[r].tok \in Final'
      BY <2>6, <3>1
    <3> QED BY <2>4, <2>5, <3>2, <3>3 DEF InGrace
  <2>8. CASE work[r].at = "sgrant"
    <3>1. /\ work[r].succ # 0 /\ work[r].tok \in Token
          /\ spent[work[r].tok].succ = work[r].succ
      BY <2>8, HandedMade DEF Frame, Holds, Knows, Owns, TokenCalls
    <3>2. work[r].succ \in Known
      BY <3>1, KnownFacts
    <3>3. tokens[work[r].succ].gen \in Nat /\ tokens[work[r].succ].gen <= grant.gen
      BY <1>2, <3>2, KnownMade, TokenTypes DEF Frame, Ahead
    <3>4. work'[r].at = "slive"
      BY <2>4, <2>8 DEF c
    <3>5. tokens[work[r].succ].gen # grant.gen => failed' \/ work[r].succ \in Final'
      BY <2>1, <2>6, <3>2, <3>3
    <3> QED BY <2>4, <2>5, <3>4, <3>5 DEF InGrace
  <2> QED BY <1>0, <2>7, <2>8
<1> QED BY <1>1, <1>2

LEMMA LiveInGrace ==
    ASSUME Frame, NEW r \in Request, InGrace(r), Live(r), Step(r)
    PROVE  InGrace(r)'
<1>0. WorkT /\ 0 \in 0 .. MaxTokens /\ work[r].at = "live"
  BY GrantsAssumption DEF Frame, Live
<1>1. CASE Finish(r, 0)
  BY <1>0, <1>1, FinishNotGraced
<1>2. ASSUME NEW c \in {"claim", "revoke"}, Goto(r, c, work[r]) PROVE InGrace(r)'
  <2>1. Went(r, c)
    BY <1>0, <1>2, WentFacts DEF Call
  <2> QED BY <2>1, NotGraced DEF Went, Graced
<1>3. CASE tokens[work[r].tok].gen < work[r].gen /\ Goto(r, "old", work[r])
  <2>1. MoveTo(r, "old")
    BY <1>0, <1>3, ToFacts DEF Call
  <2>2. /\ work'[r].at = "old" /\ work'[r].tok = work[r].tok /\ work'[r].gen = work[r].gen
    BY <2>1 DEF MoveTo, To
  <2>3. Keeps(r) /\ tokens' = tokens /\ Final \subseteq Final' /\ (failed => failed')
    BY ReadsKeep, FinalStep DEF Keeps, Reads
  <2>4. failed \/ work[r].tok \in Final
    BY <1>0, <1>3 DEF InGrace
  <2> QED BY <1>3, <2>2, <2>3, <2>4 DEF InGrace
<1> QED BY <1>1, <1>2, <1>3 DEF Live

LEMMA ReadSpentInGrace ==
    ASSUME Frame, NEW r \in Request, InGrace(r), ReadSpent(r), Step(r)
    PROVE  InGrace(r)'
<1>0. /\ WorkT /\ 0 \in 0 .. MaxTokens /\ work[r].at \in {"spent", "old"} /\ work[r].tok \in Token
  BY GrantsAssumption, HandedMade DEF Frame, Holds, Knows, TokenCalls, ReadSpent
<1>1. spent[work[r].tok].succ \in 0 .. MaxTokens
  BY <1>0, SpentTypes DEF Frame
<1>2. CASE Finish(r, 0)
  BY <1>0, <1>2, FinishNotGraced
<1>3. CASE spent[work[r].tok] = Unspent /\ work[r].at = "old" /\ Goto(r, "judge", work[r])
  <2>1. tokens[work[r].tok].gen < work[r].gen /\ (failed \/ work[r].tok \in Final)
    BY <1>3 DEF InGrace
  <2>2. work[r].tok \notin Final
    BY <1>3, UnspentFields DEF Final, Settled
  <2>3. Went(r, "judge")
    BY <1>0, <1>3, WentFacts DEF Call
  <2> QED BY <1>0, <2>1, <2>2, <2>3, JudgeInGrace DEF Went
<1>4. CASE Retry(r)
  <2>1. ASSUME NEW c \in {"await", "succ"},
               Goto(r, c, [work[r] EXCEPT !.over = {}, !.succ = spent[work[r].tok].succ])
        PROVE  InGrace(r)'
    <3>1. Went(r, c)
      BY <1>0, <1>1, <2>1, WentFacts DEF Call
    <3> QED BY <2>1, <3>1, NotGraced DEF Went, Graced
  <2>2. ASSUME Goto(r, "judge", [work[r] EXCEPT !.over = {}, !.late = TRUE]) PROVE InGrace(r)'
    <3>1. To(r, "judge", {}, work[r].gen, work[r].succ, TRUE)
      BY <1>0, <2>2, ToFacts DEF Call
    <3>2. work'[r].at = "judge" /\ work'[r].late = TRUE
      BY <3>1 DEF To
    <3> QED BY <3>2 DEF InGrace
  <2> QED BY <1>4, <2>1, <2>2 DEF Retry
<1> QED BY <1>2, <1>3, <1>4 DEF ReadSpent

LEMMA JudgingInGrace ==
    ASSUME Frame, Gone, Sealed, NEW r \in Request, InGrace(r), Step(r),
           AwaitGrant(r) \/ ReadSuccessor(r) \/ Again(r) \/ Judge(r)
    PROVE  InGrace(r)'
<1>0. /\ WorkT /\ 0 \in 0 .. MaxTokens /\ work[r].succ \in 0 .. MaxTokens
      /\ work[r].at \in {"awaitgrant", "succ", "slive", "judge"}
  BY GrantsAssumption, RequestTypes DEF Frame, AwaitGrant, ReadSuccessor, Again, Judge
<1>1. work[r].tok \in Token
  BY <1>0, HandedMade DEF Frame, Holds, Knows, TokenCalls
<1>2. \A n \in {0, work[r].succ} : Finish(r, n) => InGrace(r)'
  BY <1>0, FinishNotGraced
<1>3. ASSUME NEW c \in {"await", "sgrant", "revoke"}, Goto(r, c, work[r]) PROVE InGrace(r)'
  <2>1. Went(r, c)
    BY <1>0, <1>3, WentFacts DEF Call
  <2> QED BY <1>3, <2>1, NotGraced DEF Went, Graced
<1>4. ASSUME NEW c \in {"judge", "reuse"}, Goto(r, c, work[r]),
             GraceOn /\ ~work[r].late =>
                 \/ dead \/ failed
                 \/ spent[work[r].tok].succ # 0 /\ spent[work[r].tok].succ \in Final
      PROVE  InGrace(r)'
  <2>1. MoveTo(r, c)
    BY <1>0, <1>4, ToFacts DEF Call
  <2>2. work'[r].at = c /\ work'[r].tok = work[r].tok /\ work'[r].late = work[r].late
    BY <2>1 DEF MoveTo, To
  <2> QED BY <1>1, <1>4, <2>2, JudgeInGrace
<1>5. CASE AwaitGrant(r)
  <2>1. grant = NoGrant => dead \/ failed
    BY DEF NoGrant, Gone
  <2> QED BY <1>3, <1>4, <1>5, <2>1 DEF AwaitGrant
<1>6. CASE ReadSuccessor(r)
  <2>1. work[r].succ # 0 /\ spent[work[r].tok].succ = work[r].succ
    BY <1>6 DEF ReadSuccessor, Frame, Holds, Owns
  <2>2. work[r].succ \notin index => work[r].succ \in Final \/ dead \/ failed
    BY <1>1, <2>1 DEF Sealed, Kept
  <2> QED BY <1>3, <1>4, <1>6, <2>1, <2>2 DEF ReadSuccessor
<1>7. CASE Again(r)
  <2>1. work[r].at = "slive" /\ work[r].succ # 0 /\ spent[work[r].tok].succ = work[r].succ
    BY <1>7 DEF Again, Frame, Holds, Owns
  <2>2. tokens[work[r].succ].gen # work[r].gen => failed \/ work[r].succ \in Final
    BY <2>1 DEF InGrace
  <2> QED BY <1>2, <1>3, <1>4, <1>7, <2>1, <2>2 DEF Again
<1>8. CASE Judge(r)
  <2>1. work[r].at = "judge"
    BY <1>8 DEF Judge
  <2>2. GraceOn /\ ~work[r].late =>
            \/ dead \/ failed
            \/ spent[work[r].tok].succ # 0 /\ spent[work[r].tok].succ \in Final
    BY <2>1 DEF InGrace
  <2> QED BY <1>2, <1>4, <1>8, <2>2 DEF Judge
<1> QED BY <1>5, <1>6, <1>7, <1>8

LEMMA PlainInGrace ==
    ASSUME Frame, NEW r \in Request,
           \/ ReadPending(r) \/ ReadIndex(r) \/ Revalidate(r) \/ Await(r) \/ ReadRevoked(r)
           \/ ReadClientGrant(r) \/ Activate(r) \/ Claim(r) \/ Undo(r) \/ Tidies(r)
    PROVE  InGrace(r)'
<1>0. WorkT /\ 0 \in 0 .. MaxTokens
  BY GrantsAssumption DEF Frame
<1>1. Finish(r, 0) => InGrace(r)'
  BY <1>0, FinishNotGraced
<1>w. ASSUME NEW c, Went(r, c), c \notin Graced PROVE InGrace(r)'
  BY <1>w, NotGraced DEF Went
<1>2. ASSUME NEW c \in Call \ Graced, Goto(r, c, work[r]) PROVE InGrace(r)'
  BY <1>0, <1>2, <1>w, WentFacts
<1>3. CASE ReadPending(r) \/ ReadIndex(r) \/ ReadRevoked(r) \/ ReadClientGrant(r) \/ Undo(r)
  BY <1>1, <1>2, <1>3 DEF ReadPending, ReadIndex, ReadRevoked, ReadClientGrant, Undo, Call, Graced
<1>4. CASE Revalidate(r)
  <2>1. work[r].gen + 1 \in Nat /\ "issue" \in Call
    BY <1>0, RequestTypes DEF Call
  <2>2. Went(r, "issue") \/ Goto(r, "unclaim", work[r]) \/ Goto(r, "revoke", work[r])
    BY <1>0, <1>4, <2>1, WentFacts DEF Revalidate, NextGen
  <2> QED BY <1>2, <1>w, <2>2 DEF Call, Graced
<1>5. CASE Await(r)
  <2>1. work[r].tok \in Token
    BY <1>5, HandedMade DEF Await, Frame, Holds, Knows, TokenCalls
  <2>2. spent[work[r].tok].succ \in 0 .. MaxTokens /\ "succ" \in Call
    BY <2>1, SpentTypes DEF Frame, Call
  <2>3. Finish(r, 0) \/ Goto(r, "awaitgrant", work[r]) \/ Went(r, "succ")
    BY <1>0, <1>5, <2>2, WentFacts DEF Await
  <2> QED BY <1>1, <1>2, <1>w, <2>3 DEF Call, Graced
<1>6. CASE Activate(r)
  <2>1. Went(r, "issue")
    BY <1>0, <1>6, WentFacts DEF Activate, Call
  <2> QED BY <1>w, <2>1 DEF Graced
<1>7. CASE Claim(r)
  <2>1. Went(r, "idp") \/ Goto(r, "spent", work[r])
    BY <1>0, <1>7, WentFacts DEF Claim, Call
  <2> QED BY <1>2, <1>w, <2>1 DEF Call, Graced
<1>8. CASE Tidies(r)
  BY <1>8, TidyFacts, NotGraced DEF Tidy, Graced
<1> QED BY <1>3, <1>4, <1>5, <1>6, <1>7, <1>8

\* The successor is made, and then the grant is written.
LEMMA MadeInGrace ==
    ASSUME Frame, Gone, NEW r \in Request, InGrace(r), Step(r), Issue(r) \/ PutGrant(r)
    PROVE  InGrace(r)'
<1>0. WorkT /\ 0 \in 0 .. MaxTokens
  BY GrantsAssumption DEF Frame
<1>1. Finish(r, 0) => InGrace(r)'
  BY <1>0, FinishNotGraced
<1>2. ASSUME NEW c \in Call \ Graced, Went(r, c) PROVE InGrace(r)'
  BY <1>2, NotGraced DEF Went
<1>3. CASE Issue(r)
  <2> DEFINE k == Len(tokens) + 1
  <2>1. k \in 0 .. MaxTokens
    BY <1>3, IssuedFacts
  <2>2. \/ Finish(r, 0) \/ Goto(r, "unclaim", work[r])
        \/ Goto(r, "check", [work[r] EXCEPT !.succ = k])
        \/ Goto(r, "put", [work[r] EXCEPT !.succ = k]) /\ k \in index'
    BY <1>3 DEF Issue
  <2> HIDE DEF k
  <2>3. CASE Goto(r, "put", [work[r] EXCEPT !.succ = k]) /\ k \in index'
    <3>1. To(r, "put", work[r].over, work[r].gen, k, work[r].late)
      BY <1>0, <2>1, <2>3, ToFacts DEF Call
    <3>2. work'[r].at = "put" /\ work'[r].succ = k
      BY <3>1 DEF To
    <3> QED BY <2>3, <3>2 DEF InGrace, Kept
  <2>4. CASE Goto(r, "unclaim", work[r]) \/ Goto(r, "check", [work[r] EXCEPT !.succ = k])
    <3>1. Went(r, "unclaim") \/ Went(r, "check")
      BY <1>0, <2>1, <2>4, WentFacts DEF Call
    <3> QED BY <1>2, <3>1 DEF Call, Graced
  <2> QED BY <1>1, <2>2, <2>3, <2>4
<1>4. CASE PutGrant(r)
  <2>1. PICK c \in {"seal", "retire", "undo"} : Goto(r, c, work[r])
    BY <1>4 DEF PutGrant
  <2>2. MoveTo(r, c) /\ Went(r, c)
    BY <1>0, <2>1, ToFacts, WentFacts DEF Call
  <2>3. work'[r].at = c /\ work'[r].succ = work[r].succ /\ work[r].at = "put"
    BY <1>4, <2>2 DEF MoveTo, To, PutGrant
  <2>4. work[r].succ \in Token /\ Kept(work[r].succ)
    BY <2>3, TokenTypes DEF InGrace, Frame, Holds, Knows
  <2>5. \A n \in Token : Kept(n) => n \in index' \cup Final' \/ dead' \/ failed'
    BY <2>3, KeptStep DEF Kept
  <2>6. CASE c = "seal"
    BY <2>3, <2>4, <2>5, <2>6 DEF InGrace, Kept
  <2>7. CASE c # "seal"
    BY <1>2, <2>1, <2>2, <2>7 DEF Call, Graced
  <2> QED BY <2>6, <2>7
<1> QED BY <1>3, <1>4

LEMMA InGraceStep ==
    ASSUME Frame, Gone, Ahead, Past, Sealed, NEW r \in Request, InGrace(r), Step(r)
    PROVE  InGrace(r)'
BY StepParts, PlainInGrace, MadeInGrace, JudgingInGrace, ReadSpentInGrace, LiveInGrace, ReadGrantInGrace
   DEF Looks

\* The invariant of the grace.
Grace == Past /\ Sealed /\ \A r \in Request : InGrace(r)

\* Nothing of it depends on requests that arrive or stop.
LEMMA GraceQuiet ==
    ASSUME Frame, Grace, Known' \subseteq Known, failed => failed',
           UNCHANGED <<grant, index, spent, tokens, dead>>,
           \A q \in Request : work'[q] = work[q] \/ work'[q].at \notin Graced \cup Unsettled
    PROVE  Grace'
<1>1. Final \subseteq Final'
  <2> SUFFICES ASSUME NEW t \in Token, Settled(t) PROVE Settled(t)'
    BY DEF Final
  <2>1. spent[t].by \in Request /\ spent[t].by # Nobody /\ spent'[t] = spent[t]
    BY SpentTypes DEF Settled, Frame
  <2>2. work'[spent[t].by] = work[spent[t].by] \/ work'[spent[t].by].at \notin Unsettled
    BY <2>1
  <2> QED BY <2>1, <2>2 DEF Settled
<1>2. Past'
  BY <1>1, PastKept DEF Grace
<1>3. Sealed'
  BY <1>1 DEF Grace, Sealed, Kept
<1>4. ASSUME NEW q \in Request PROVE InGrace(q)'
  <2>1. CASE work'[q] = work[q]
    BY <1>1, <2>1 DEF Grace, InGrace, Kept
  <2>2. CASE work'[q].at \notin Graced
    BY <2>2, NotGraced
  <2> QED BY <2>1, <2>2
<1> QED BY <1>2, <1>3, <1>4 DEF Grace

LEMMA InitGrace ==
    ASSUME Init
    PROVE  Grace
<1>1. grant.st = "pending" /\ \A r \in Request : work[r].at = "new"
  BY NewFields DEF Init
<1>2. \A t \in Token : spent[t].succ = 0
  BY UnspentFields DEF Init
<1> QED BY <1>1, <1>2 DEF Grace, Past, Sealed, InGrace

LEMMA NextGrace ==
    ASSUME Frame, Frame', Reuse, Grace, [Next]_vars
    PROVE  Grace'
<1>1. Gone /\ Ahead
  BY DEF Reuse
<1>2. Past /\ Sealed /\ \A r \in Request : InGrace(r)
  BY DEF Grace
<1>3. CASE Background
  <2>1. Still /\ (failed => failed')
    BY <1>3, BackgroundFacts
  <2>2. Known' \subseteq Known
    BY <2>1, StillKnown
  <2>3. \A q \in Request : work'[q] = work[q] \/ work'[q].at \notin Graced \cup Unsettled
    BY <2>1, HaltedFields DEF Still, Graced, Unsettled
  <2>4. UNCHANGED <<grant, index, spent, tokens, dead>>
    BY <2>1 DEF Still
  <2> QED BY <2>1, <2>2, <2>3, <2>4, GraceQuiet
<1>4. ASSUME NEW r \in Request, Arrival(r) PROVE Grace'
  <2>1. PICK c \in {"code", "index", "rindex", "revoke"}, t \in 0 .. MaxTokens : ArrivedWith(r, c, t)
    BY <1>4, ArrivalFacts
  <2>2. \A q \in Request : work'[q] = work[q] \/ work'[q].at \notin Graced \cup Unsettled
    BY <2>1 DEF ArrivedWith, Rest, Graced, Unsettled
  <2>3. Known' \subseteq Known /\ failed' = failed /\ UNCHANGED <<grant, index, spent, tokens, dead>>
    BY <1>4, ArrivalKnown
  <2> QED BY <2>2, <2>3, GraceQuiet
<1>5. ASSUME NEW r \in Request, Step(r) PROVE Grace'
  <2>1. Past' /\ Sealed'
    BY <1>1, <1>2, <1>5, PastStep, SealedStep
  <2>2. ASSUME NEW q \in Request PROVE InGrace(q)'
    <3>1. CASE q = r
      BY <1>1, <1>2, <1>5, <3>1, InGraceStep
    <3>2. CASE q # r
      BY <1>1, <1>2, <1>5, <3>2, OthersInGrace
    <3> QED BY <3>1, <3>2
  <2> QED BY <2>1, <2>2 DEF Grace
<1> QED BY <1>3, <1>4, <1>5, NextParts

LEMMA GraceAlways == Spec => []Grace
<1>1. Init => Grace
  BY InitGrace
<1>2. Frame /\ Frame' /\ Reuse /\ Grace /\ [Next]_vars => Grace'
  BY NextGrace
<1> QED BY <1>1, <1>2, FrameAlways, ReuseAlways, PTL DEF Spec

\* Within the grace a token presented again ends the grant only if its successor
\* was spent too, or the grant is revoked already (retry_within_grace): the
\* successor's record is deleted only by a rotation that spent it, and a grant
\* that has moved on from the successor was written by one.  (Unless a write
\* failed.)
THEOREM RetriesAreSafe == Spec => []GraceKeeps
<1>1. ASSUME Frame, Grace PROVE GraceKeeps
  <2> SUFFICES ASSUME NEW r \in Request, GraceOn, work[r].at = "reuse", ~work[r].late, ~dead, ~failed
               PROVE  spent[work[r].tok].succ # 0 /\ spent[spent[work[r].tok].succ] # Unspent
    BY DEF GraceKeeps
  <2>1. spent[work[r].tok].succ # 0 /\ spent[work[r].tok].succ \in Final
    BY <1>1 DEF Grace, InGrace
  <2> QED BY <2>1, UnspentFields DEF Final, Settled
<1> QED BY <1>1, FrameAlways, GraceAlways, PTL
=============================================================================
