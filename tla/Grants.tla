------------------------------- MODULE Grants -------------------------------
(***************************************************************************)
(* One sign-in grant of the authorization server: the code that activates  *)
(* it, the refresh tokens that rotate, the detection of a token presented  *)
(* twice, and its revocation across replicas                               *)
(* (runtime/authorization_server_{grants,refresh,revocation,state}.rs).    *)
(* Requests run on any replica and meet in the sealed state store, one     *)
(* call of it at a time; each replica also keeps a set of revocations in   *)
(* memory.                                                                 *)
(*                                                                         *)
(* Abstractions.  One grant of one client that may refresh; the scope, the *)
(* resource, the authorization details and the DPoP key of a request are   *)
(* in order.  Refresh tokens are numbered as they are issued.  The grant   *)
(* does not reach its absolute lifetime, with which its other records end. *)
(* A read that fails ends its request, as Stop does.                       *)
(***************************************************************************)
EXTENDS Naturals, Sequences, FiniteSets

CONSTANTS
    Request,    \* requests at the token and revocation endpoints
    Replica,    \* replicas of the server
    Home,       \* the replica each request runs on
    Nobody,     \* no request
    GraceOn,    \* reuse_grace_secs > 0
    MaxTokens,  \* bound on refresh tokens issued
    MaxEvents   \* bound on failed calls, refusals, stops and restarts, together

ASSUME GrantsAssumption ==
    /\ IsFiniteSet(Request)
    /\ Home \in [Request -> Replica]
    /\ Nobody \notin Request
    /\ GraceOn \in BOOLEAN
    /\ MaxTokens \in Nat \ {0}
    /\ MaxEvents \in Nat

VARIABLES
    grant,     \* the grant's record
    codeUsed,  \* the authorization code's marker is there
    index,     \* refresh tokens with a record of a live token
    spent,     \* the record of each spent token: who spent it, its successor
    tomb,      \* the grant's tombstone is there
    revoked,   \* replicas that hold the revocation in memory
    tokens,    \* refresh tokens made, in order: generation and predecessor
    over,      \* requests that began more than reuse_grace_secs ago
    work,      \* each request: its next call, what it read, what it was answered
    dead,      \* history: a tombstone was written
    failed,    \* history: a write failed, or a revocation was cut short
    events     \* what MaxEvents bounds, so far

store == <<grant, codeUsed, index, spent, tomb>>
faults == <<failed, events>>
vars == <<store, revoked, tokens, over, work, dead, faults>>

Token == 1 .. MaxTokens
NoGrant == [st |-> "none", gen |-> 0]
Active(g) == [st |-> "active", gen |-> g]
Unspent == [by |-> Nobody, succ |-> 0]

\* A request: its next call, the token it presents, the graces over when it began,
\* the generation and the successor it works with, the token it was answered
\* with, whether it met a spent token past its grace, whether the grant was
\* revoked, and its token exchanged, when it began.
New == [at |-> "new", tok |-> 0, over |-> {}, gen |-> 0, succ |-> 0,
        got |-> 0, late |-> FALSE, after |-> FALSE, reuse |-> FALSE]

Ended == {"new", "done", "stopped"}

Init ==
    /\ grant = [st |-> "pending", gen |-> 0]
    /\ codeUsed = FALSE
    /\ index = {}
    /\ spent = [t \in Token |-> Unspent]
    /\ tomb = FALSE
    /\ revoked = {}
    /\ tokens = <<>>
    /\ over = {}
    /\ work = [r \in Request |-> New]
    /\ dead = FALSE
    /\ failed = FALSE
    /\ events = 0

Count ==
    /\ events < MaxEvents
    /\ events' = events + 1

Ok == UNCHANGED faults
Event == Count /\ UNCHANGED failed
Fault == Count /\ failed' = TRUE

\* Request r goes on to its next call with what it knows in w, or ends, answered
\* with token n (0: refused), and forgets what no longer matters.
Goto(r, call, w) == work' = [work EXCEPT ![r] = [w EXCEPT !.at = call]]
Finish(r, n) ==
    work' = [work EXCEPT ![r] = [New EXCEPT !.at = "done", !.got = n, !.reuse = work[r].reuse,
                                            !.tok = IF n = 0 THEN 0 ELSE work[r].tok,
                                            !.after = (n # 0 /\ work[r].after)]]

Handed == {work[r].got : r \in Request} \ {0}

\* Token t was answered with a successor, and its grace is over.
Exchanged(t) ==
    /\ \E r \in Request : work[r].tok = t /\ work[r].got # 0
    /\ GraceOn => spent[t].by \in over

-----------------------------------------------------------------------------
(* Requests arrive.  Unstarted requests are alike and start in a fixed     *)
(* order.                                                                  *)

\* Who spent token t, or still may.
Spenders(t) == {q \in Request : spent[t].by = q \/ work[q].tok = t}

Arrives(r, call, t) ==
    /\ work[r].at = "new" /\ r = CHOOSE q \in Request : work[q].at = "new"
    /\ work' = [work EXCEPT ![r] =
                  [New EXCEPT !.at = call, !.tok = t, !.after = dead,
                              !.over = IF call = "index" THEN over \cap Spenders(t) ELSE {},
                              !.reuse = (call = "index" /\ Exchanged(t))]]
    /\ UNCHANGED <<store, revoked, tokens, over, dead, faults>>

\* redeem_code, by whoever holds the code: its record stays after it was redeemed.
RedeemCode(r) == Arrives(r, "code", 0)

\* redeem_refresh and revoke_token, with a token some client was given.
Refresh(r, t) == t \in Handed /\ Arrives(r, "index", t)
Revoke(r, t) == t \in Handed /\ Arrives(r, "rindex", t)

\* enforce_max_grants of a newer sign-in, or revoke_principal_grants.
RevokeOldest(r) == grant.st = "active" /\ Arrives(r, "revoke", 0)

-----------------------------------------------------------------------------
(* redeem_code, activate_grant.                                            *)

\* put_if_absent of the code's marker: a second redemption revokes the grant.
ClaimCode(r) ==
    /\ work[r].at = "code"
    /\ codeUsed' = TRUE
    /\ Goto(r, IF codeUsed THEN "revoke" ELSE "pending", work[r])
    /\ UNCHANGED <<grant, index, spent, tomb, revoked, tokens, over, dead>> /\ Ok

ReadPending(r) ==
    /\ work[r].at = "pending"
    /\ IF grant.st = "pending" THEN Goto(r, "activate", work[r]) ELSE Finish(r, 0)
    /\ UNCHANGED <<store, revoked, tokens, over, dead>> /\ Ok

Activate(r) ==
    /\ work[r].at = "activate"
    /\ grant' = Active(1)
    /\ Goto(r, "issue", [work[r] EXCEPT !.gen = 1])
    /\ UNCHANGED <<codeUsed, index, spent, tomb, revoked, tokens, over, dead>> /\ Ok

-----------------------------------------------------------------------------
(* refresh: the token, the grant, the claim.                               *)

ReadIndex(r) ==
    /\ work[r].at = "index"
    /\ Goto(r, IF work[r].tok \in index THEN "grant" ELSE "spent", work[r])
    /\ UNCHANGED <<store, revoked, tokens, over, dead>> /\ Ok

\* live_grant: the record, then the revocations of this replica and the store's.
ReadGrant(r) ==
    /\ work[r].at \in {"grant", "sgrant"}
    /\ IF grant.st = "active"
       THEN Goto(r, IF work[r].at = "grant" THEN "live" ELSE "slive",
                 [work[r] EXCEPT !.gen = grant.gen])
       ELSE Finish(r, 0)
    /\ UNCHANGED <<store, revoked, tokens, over, dead>> /\ Ok

RefusedOn(p) == p \in revoked \/ tomb

\* The token's generation against the grant's; admit_refresh, which revokes the
\* grant when the configuration no longer admits it.
Live(r) ==
    /\ work[r].at = "live"
    /\ \/ RefusedOn(Home[r]) /\ Finish(r, 0) /\ Ok
       \/ /\ ~RefusedOn(Home[r])
          /\ IF tokens[work[r].tok].gen < work[r].gen THEN Goto(r, "old", work[r]) /\ Ok
             ELSE IF tokens[work[r].tok].gen > work[r].gen THEN Finish(r, 0) /\ Ok
             ELSE \/ Goto(r, "claim", work[r]) /\ Ok
                  \/ Goto(r, "revoke", work[r]) /\ Event
    /\ UNCHANGED <<store, revoked, tokens, over, dead>>

\* Mutant: the record is put whether or not one is there.
ClaimBlind(r) ==
    /\ work[r].at = "claim"
    /\ spent' = [spent EXCEPT ![work[r].tok] = [by |-> r, succ |-> 0]]
    /\ Goto(r, "idp", work[r])
    /\ UNCHANGED <<grant, codeUsed, index, tomb, revoked, tokens, over, dead>> /\ Ok

\* put_if_absent of the spent record: one request spends the token.
Claim(r) ==
    /\ work[r].at = "claim"
    /\ IF spent[work[r].tok] = Unspent
       THEN /\ spent' = [spent EXCEPT ![work[r].tok] = [by |-> r, succ |-> 0]]
            /\ Goto(r, "idp", [work[r] EXCEPT !.over = {}])
       ELSE Goto(r, "spent", work[r]) /\ UNCHANGED spent
    /\ UNCHANGED <<grant, codeUsed, index, tomb, revoked, tokens, over, dead>> /\ Ok

-----------------------------------------------------------------------------
(* rotate.                                                                 *)

\* Mutant: the generation is stepped twice.
NextGenTwice(g) == g + 2

NextGen(g) == g + 1

\* revalidate: the IdP accepts the sign-in, cannot be reached, or refuses it.
Revalidate(r) ==
    /\ work[r].at = "idp"
    /\ \/ Goto(r, "issue", [work[r] EXCEPT !.gen = NextGen(@)]) /\ Ok
       \/ Goto(r, "unclaim", work[r]) /\ Event
       \/ Goto(r, "revoke", work[r]) /\ Event
    /\ UNCHANGED <<store, revoked, tokens, over, dead>>

\* issue_refresh_token, for a new grant or a successor.  A successor that could
\* not be stored, for all its request knows, leaves the token to be claimed again.
Issue(r) ==
    /\ work[r].at = "issue"
    /\ Len(tokens) < MaxTokens
    /\ LET n == Len(tokens) + 1
       IN /\ tokens' = Append(tokens, [gen |-> work[r].gen, from |-> work[r].tok])
          /\ \/ /\ index' = index \cup {n}
                /\ Goto(r, IF work[r].tok = 0 THEN "check" ELSE "put", [work[r] EXCEPT !.succ = n])
                /\ Ok
             \/ /\ index' \in {index, index \cup {n}}
                /\ IF work[r].tok = 0 THEN Finish(r, 0) ELSE Goto(r, "unclaim", work[r])
                /\ Fault
    /\ UNCHANGED <<grant, codeUsed, spent, tomb, revoked, over, dead>>

\* The grant at its next generation.
PutGrant(r) ==
    /\ work[r].at = "put"
    /\ \/ /\ grant' = Active(work[r].gen)
          /\ Goto(r, IF GraceOn THEN "seal" ELSE "retire", work[r])
          /\ Ok
       \/ /\ grant' \in {grant, Active(work[r].gen)}
          /\ Goto(r, "undo", work[r])
          /\ Fault
    /\ UNCHANGED <<codeUsed, index, spent, tomb, revoked, tokens, over, dead>>

\* A grant that could not be written: the successor is deleted.
Undo(r) ==
    /\ work[r].at = "undo"
    /\ \/ index' = index \ {work[r].succ} /\ Ok
       \/ UNCHANGED index /\ Fault
    /\ Goto(r, "unclaim", work[r])
    /\ UNCHANGED <<grant, codeUsed, spent, tomb, revoked, tokens, over, dead>>

\* The claim is released, so the client may present the token again.
Unclaim(r) ==
    /\ work[r].at = "unclaim"
    /\ spent' = [spent EXCEPT ![work[r].tok] = Unspent]
    /\ Finish(r, 0)
    /\ UNCHANGED <<grant, codeUsed, index, tomb, revoked, tokens, over, dead>> /\ Ok

\* The successor is kept for a retry, sealed in the record of the spent token.
Seal(r) ==
    /\ work[r].at = "seal"
    /\ \/ spent' = [spent EXCEPT ![work[r].tok] = [by |-> r, succ |-> work[r].succ]] /\ Ok
       \/ UNCHANGED spent /\ Fault
    /\ Goto(r, "retire", work[r])
    /\ UNCHANGED <<grant, codeUsed, index, tomb, revoked, tokens, over, dead>>

\* The record of the token as a live one is deleted.
Retire(r) ==
    /\ work[r].at = "retire"
    /\ \/ index' = index \ {work[r].tok} /\ Ok
       \/ UNCHANGED index /\ Fault
    /\ Goto(r, "check", work[r])
    /\ UNCHANGED <<grant, codeUsed, spent, tomb, revoked, tokens, over, dead>>

\* Mutant: the revocation is not looked at again.
CheckNever(r) ==
    /\ work[r].at = "check"
    /\ Finish(r, work[r].succ)
    /\ UNCHANGED <<store, revoked, tokens, over, dead>> /\ Ok

\* The last look at the revocations, with everything written: a grant revoked
\* meanwhile, on any replica, issues nothing.
Check(r) ==
    /\ work[r].at = "check"
    /\ IF RefusedOn(Home[r]) THEN Goto(r, "drop", work[r]) ELSE Finish(r, work[r].succ)
    /\ UNCHANGED <<store, revoked, tokens, over, dead>> /\ Ok

\* What it wrote is deleted: by an activation the token, by a rotation the
\* successor and the grant.
Drop(r) ==
    /\ work[r].at = "drop"
    /\ \/ index' = index \ {work[r].succ} /\ Ok
       \/ UNCHANGED index /\ Fault
    /\ IF work[r].tok = 0 THEN Finish(r, 0) ELSE Goto(r, "dropgrant", work[r])
    /\ UNCHANGED <<grant, codeUsed, spent, tomb, revoked, tokens, over, dead>>

DropGrant(r) ==
    /\ work[r].at = "dropgrant"
    /\ \/ grant' = NoGrant /\ Ok
       \/ UNCHANGED grant /\ Fault
    /\ Finish(r, 0)
    /\ UNCHANGED <<codeUsed, index, spent, tomb, revoked, tokens, over, dead>>

-----------------------------------------------------------------------------
(* reused, retry_within_grace: a token that was spent before.              *)

\* Where a request goes that found the spent record: within the grace it asks
\* for the successor, and waits for it; else the grant is to be revoked.
Retry(r) ==
    LET rec == spent[work[r].tok]
    IN IF GraceOn /\ rec.by \notin work[r].over
       THEN Goto(r, IF rec.succ = 0 THEN "await" ELSE "succ", [work[r] EXCEPT !.over = {}, !.succ = rec.succ])
       ELSE Goto(r, "judge", [work[r] EXCEPT !.over = {}, !.late = TRUE])

\* The spent record.  Without one the token is unknown, or was just released;
\* but for one of an older generation than the grant's, which was spent.
ReadSpent(r) ==
    /\ work[r].at \in {"spent", "old"}
    /\ IF spent[work[r].tok] # Unspent THEN Retry(r)
       ELSE IF work[r].at = "old" THEN Goto(r, "judge", work[r])
       ELSE Finish(r, 0)
    /\ UNCHANGED <<store, revoked, tokens, over, dead>> /\ Ok

\* Mutant: a successor that is not there yet is taken for none.
AwaitOnce(r) ==
    /\ work[r].at = "await"
    /\ IF spent[work[r].tok].succ # 0
       THEN Goto(r, "succ", [work[r] EXCEPT !.succ = spent[work[r].tok].succ])
       ELSE Goto(r, "judge", work[r])
    /\ UNCHANGED <<store, revoked, tokens, over, dead>> /\ Ok

\* await_successor: the spent record, until it names the successor, is gone, or
\* the wait is over.
Await(r) ==
    /\ work[r].at = "await"
    /\ \/ Finish(r, 0)
       \/ /\ spent[work[r].tok].succ # 0
          /\ Goto(r, "succ", [work[r] EXCEPT !.succ = spent[work[r].tok].succ])
       \/ /\ spent[work[r].tok] # Unspent
          /\ spent[work[r].tok].succ = 0
          /\ Goto(r, "awaitgrant", work[r])
    /\ UNCHANGED <<store, revoked, tokens, over, dead>> /\ Ok

AwaitGrant(r) ==
    /\ work[r].at = "awaitgrant"
    /\ Goto(r, IF grant = NoGrant THEN "judge" ELSE "await", work[r])
    /\ UNCHANGED <<store, revoked, tokens, over, dead>> /\ Ok

\* A successor that is no longer live cannot be given again.
ReadSuccessor(r) ==
    /\ work[r].at = "succ"
    /\ Goto(r, IF work[r].succ \in index THEN "sgrant" ELSE "judge", work[r])
    /\ UNCHANGED <<store, revoked, tokens, over, dead>> /\ Ok

\* retry_within_grace, with the live grant: the successor is given again.
Again(r) ==
    /\ work[r].at = "slive"
    /\ IF RefusedOn(Home[r]) THEN Finish(r, 0) /\ Ok
       ELSE IF tokens[work[r].succ].gen # work[r].gen THEN Goto(r, "judge", work[r]) /\ Ok
       ELSE \/ Finish(r, work[r].succ) /\ Ok
            \/ Goto(r, "revoke", work[r]) /\ Event
    /\ UNCHANGED <<store, revoked, tokens, over, dead>>

\* Mutant: the request is refused and the grant stays.
JudgeLenient(r) ==
    /\ work[r].at = "judge"
    /\ Finish(r, 0)
    /\ UNCHANGED <<store, revoked, tokens, over, dead>> /\ Ok

\* reused: the grant, if it is there, is revoked.
Judge(r) ==
    /\ work[r].at = "judge"
    /\ IF grant = NoGrant THEN Finish(r, 0) ELSE Goto(r, "reuse", work[r])
    /\ UNCHANGED <<store, revoked, tokens, over, dead>> /\ Ok

-----------------------------------------------------------------------------
(* Revocation: revoke_grant, record_revocation, revoke_token.              *)

\* revoke_refresh_token: the grant of a token, live or spent.
ReadRevoked(r) ==
    /\ work[r].at = "rindex"
    /\ IF work[r].tok \in index \/ spent[work[r].tok] # Unspent
       THEN Goto(r, "rgrant", work[r]) ELSE Finish(r, 0)
    /\ UNCHANGED <<store, revoked, tokens, over, dead>> /\ Ok

\* revoke_client_grant: a grant that is gone revokes nothing.
ReadClientGrant(r) ==
    /\ work[r].at = "rgrant"
    /\ IF grant = NoGrant THEN Finish(r, 0) ELSE Goto(r, "rrevoke", work[r])
    /\ UNCHANGED <<store, revoked, tokens, over, dead>> /\ Ok

\* record_revocation: in this replica's memory at once, then the tombstone.  One
\* step: between the two this replica refuses the grant and the others do not.
Tombstone(r) ==
    /\ work[r].at \in {"revoke", "reuse", "rrevoke"}
    /\ revoked' = revoked \cup {Home[r]}
    /\ \/ /\ tomb' = TRUE /\ dead' = TRUE
          /\ Goto(r, IF work[r].at = "rrevoke" THEN "rdelete" ELSE "delete", work[r])
          /\ Ok
       \/ UNCHANGED <<tomb, dead>> /\ Goto(r, "delete", work[r]) /\ Fault
    /\ UNCHANGED <<grant, codeUsed, index, spent, tokens, over>>

DeleteGrant(r) ==
    /\ work[r].at \in {"delete", "rdelete"}
    /\ \/ /\ grant' = NoGrant
          /\ IF work[r].at = "rdelete" THEN Goto(r, "rdrop", work[r]) ELSE Finish(r, 0)
          /\ Ok
       \/ UNCHANGED grant /\ Finish(r, 0) /\ Fault
    /\ UNCHANGED <<codeUsed, index, spent, tomb, revoked, tokens, over, dead>>

\* revoke_refresh_token: the token's own record goes last, once the revocation
\* was stored.
DropRevoked(r) ==
    /\ work[r].at = "rdrop"
    /\ index' = index \ {work[r].tok}
    /\ Finish(r, 0)
    /\ UNCHANGED <<grant, codeUsed, spent, tomb, revoked, tokens, over, dead>> /\ Ok

\* poll_revocations.
Poll(p) ==
    /\ tomb /\ p \notin revoked
    /\ revoked' = revoked \cup {p}
    /\ UNCHANGED <<store, tokens, over, work, dead, faults>>

-----------------------------------------------------------------------------
(* Time, dropped requests, restarts.                                       *)

\* More than reuse_grace_secs have passed since q began, which matters if q
\* spent its token, or still may.
GraceEnds(q) ==
    /\ GraceOn /\ q \notin over
    /\ \/ work[q].at \in {"index", "grant", "live", "claim"}
       \/ \E t \in Token : spent[t].by = q
    /\ over' = over \cup {q}
    /\ UNCHANGED <<store, revoked, tokens, work, dead, faults>>

\* The tombstone, and with it the revocation in memory, ends: after every access
\* token of the grant, so after the requests that were running, the graces and
\* the polls of the other replicas.
TombstoneEnds ==
    /\ revoked # {}
    /\ tomb => revoked = Replica
    /\ \A r \in Request : work[r].at \in Ended
    /\ GraceOn => \A t \in Token : spent[t].by \in over \cup {Nobody}
    /\ tomb' = FALSE
    /\ revoked' = {}
    /\ UNCHANGED <<grant, codeUsed, index, spent, tokens, over, work, dead, faults>>

Halted == [New EXCEPT !.at = "stopped"]

\* A request with a revocation to finish.
Revoking(r) == work[r].at \in {"revoke", "reuse", "rrevoke", "delete", "rdelete"}

\* The client hangs up, or a call of the store fails that ends the request.
Stop(r) ==
    /\ work[r].at \notin Ended
    /\ Count
    /\ failed' = (failed \/ Revoking(r))
    /\ work' = [work EXCEPT ![r] = Halted]
    /\ UNCHANGED <<store, revoked, tokens, over, dead>>

\* A replica restarts: its requests stop, its memory is empty.
Restart(p) ==
    /\ Count
    /\ failed' = (failed \/ \E r \in Request : Home[r] = p /\ Revoking(r))
    /\ work' = [r \in Request |-> IF Home[r] = p /\ work[r].at \notin Ended
                                  THEN Halted ELSE work[r]]
    /\ revoked' = revoked \ {p}
    /\ UNCHANGED <<store, tokens, over, dead>>

-----------------------------------------------------------------------------
Step(r) ==
    \/ ClaimCode(r) \/ ReadPending(r) \/ Activate(r)
    \/ ReadIndex(r) \/ ReadGrant(r) \/ Live(r) \/ Claim(r)
    \/ Revalidate(r) \/ Issue(r) \/ PutGrant(r) \/ Undo(r) \/ Unclaim(r)
    \/ Seal(r) \/ Retire(r) \/ Check(r) \/ Drop(r) \/ DropGrant(r)
    \/ ReadSpent(r) \/ Await(r) \/ AwaitGrant(r) \/ ReadSuccessor(r) \/ Again(r) \/ Judge(r)
    \/ ReadRevoked(r) \/ ReadClientGrant(r) \/ Tombstone(r) \/ DeleteGrant(r) \/ DropRevoked(r)

Arrival(r) ==
    \/ RedeemCode(r) \/ RevokeOldest(r)
    \/ \E t \in Token : Refresh(r, t) \/ Revoke(r, t)

Next ==
    \/ \E r \in Request : Arrival(r) \/ Step(r) \/ Stop(r) \/ GraceEnds(r)
    \/ \E p \in Replica : Poll(p) \/ Restart(p)
    \/ TombstoneEnds

Spec == Init /\ [][Next]_vars

-----------------------------------------------------------------------------
(* Properties.                                                             *)

Call == {"code", "pending", "activate", "index", "grant", "sgrant", "live", "slive", "claim",
         "idp", "issue", "put", "undo", "unclaim", "seal", "retire", "check", "drop",
         "dropgrant", "spent", "old", "await", "awaitgrant", "succ", "judge", "reuse",
         "revoke", "rindex", "rgrant", "rrevoke", "delete", "rdelete", "rdrop"}

TypeOK ==
    /\ grant \in [st : {"none", "pending", "active"}, gen : 0 .. MaxTokens]
    /\ codeUsed \in BOOLEAN /\ tomb \in BOOLEAN /\ dead \in BOOLEAN /\ failed \in BOOLEAN
    /\ index \subseteq DOMAIN tokens
    /\ spent \in [Token -> [by : Request \cup {Nobody}, succ : 0 .. MaxTokens]]
    /\ revoked \subseteq Replica
    /\ tokens \in Seq([gen : 1 .. MaxTokens, from : 0 .. MaxTokens])
    /\ over \subseteq Request
    /\ work \in [Request -> [at : Call \cup Ended,
                             tok : 0 .. MaxTokens, over : SUBSET Request, gen : Nat,
                             succ : 0 .. MaxTokens, got : 0 .. MaxTokens,
                             late : BOOLEAN, after : BOOLEAN, reuse : BOOLEAN]]
    /\ events \in 0 .. MaxEvents

\* Clients hold one refresh token per generation of the grant, whoever presents
\* which token how often, and whatever is released, retried or written in vain:
\* two holders of one token never part with different successors of it.
OneTokenPerGeneration ==
    \A t, u \in Handed : tokens[t].gen = tokens[u].gen => t = u

\* A request that begins after the grant was revoked is given no token, on no
\* replica: although the grant is deleted after its tombstone is written, a
\* rotation that read it before may write it back, and the tombstone ends.
\* (Unless a write failed, or a revocation was cut short.)
RevokedIsFinal ==
    \A r \in Request : (work[r].after /\ ~failed) => work[r].got = 0

\* A token presented again after it was exchanged, past its grace, ends the
\* grant: whichever record the request meets half-written or deleted, it finds
\* its way to the revocation.  (Unless it stopped, or a write failed.)
ReuseEndsGrant ==
    \A r \in Request : (work[r].reuse /\ work[r].at = "done") => dead \/ failed

\* Within the grace a token presented again ends the grant only if its successor
\* was spent too, or the grant is revoked already: a client that repeats its
\* request, at the same time or later, is not taken for a thief.  (Unless a write
\* failed.)
GraceKeeps ==
    \A r \in Request :
        LET rec == spent[work[r].tok]
        IN (GraceOn /\ work[r].at = "reuse" /\ ~work[r].late) =>
               \/ dead \/ failed
               \/ rec.succ # 0 /\ spent[rec.succ] # Unspent
=============================================================================
