------------------------------ MODULE Pipelines ------------------------------
(***************************************************************************)
(* A tool pipeline that suspends for client input: its row in the          *)
(* coordinator store, the call that starts it, the responses that resume   *)
(* it, the cancellations that end it, and the reaper that times it out     *)
(* (runtime/stores/pipeline_store.rs, runtime/execution, delivery.rs,      *)
(* cancellation.rs, reapers/).  Handlers run on any replica; they meet     *)
(* only in the store, one call of it at a time.                            *)
(*                                                                         *)
(* Abstractions.  One pipeline, of one owner, whose step numbers count its *)
(* suspending steps.  A row is saved only at a suspension.  A server       *)
(* request is numbered by the suspension that asked it.  Two writes that   *)
(* no other handler can tell apart (a row and the pending request the      *)
(* client has not seen, a row and its lookup key) are one step, and the    *)
(* removal of a pending request, which only rejects later responses, is    *)
(* part of the next step of its handler; nothing reads the pending         *)
(* requests of a gather step.  Store calls answer, no entry reaches its    *)
(* 300 s TTL before the pipeline times out, delivery is one step.          *)
(***************************************************************************)
EXTENDS Naturals, Sequences, FiniteSets

CONSTANTS
    Starter,    \* the tools/call that runs the pipeline
    Responder,  \* responses of the client to server requests
    Canceller,  \* cancellations received, one per replica and notification
    Reaper,     \* replicas that run the pipeline reaper
    Nobody,     \* no leader
    Steps,      \* suspending steps of the pipeline
    Gather,     \* those that gather several inputs
    MaxEvents   \* bound on responses, cancellations, processes that stop and
                \* leases that lapse, together

Handler == {Starter} \cup Responder \cup Canceller

ASSUME PipelinesAssumption ==
    /\ Starter \notin Responder \cup Canceller
    /\ Responder \cap Canceller = {}
    /\ IsFiniteSet(Responder)
    /\ Nobody \notin Reaper
    /\ Steps \in Nat \ {0}
    /\ Gather \subseteq 1 .. Steps
    /\ Reaper # {}
    /\ MaxEvents \in Nat

VARIABLES
    row,      \* the pipeline's row
    marker,   \* versions with a claim marker
    pending,  \* server requests with a pending-request row
    rpckey,   \* the row can be found by the caller's JSON-RPC id
    asked,    \* the step of each server request made, in order
    sent,     \* server requests the client has received
    work,     \* what each handler has still to do, and what it read
    leader,   \* the reaper that holds the leadership lease
    sweep,    \* where each reaper is in its pass, and what it read
    overdue,  \* server requests whose elicitation timeout has passed
    expired,  \* the pipeline timeout has passed
    told,     \* answers sent: TRUE under the caller's id, FALSE under the null id
    resumed,  \* history: how often the steps after each suspension were run
    unsaid,   \* history: a process stopped between a delete and its answer
    events    \* what MaxEvents bounds, so far

store == <<row, marker, pending, rpckey>>
client == <<asked, sent, told>>
clock == <<overdue, expired>>
reaping == <<leader, sweep>>
vars == <<store, client, work, reaping, clock, resumed, unsaid, events>>

\* PipelineExecutionState: its version, the step it is suspended at, the
\* request that step made, and whether the caller's JSON-RPC id is known.
NoRow == [ver |-> 0, step |-> 0, ask |-> 0, rpc |-> FALSE]

Ask == DOMAIN asked

\* A handler: its next call, the row it loaded first, the row its last read
\* found, the request it answers and the one it makes.
Ended == [at |-> "end", snap |-> NoRow, got |-> NoRow, mine |-> 0, next |-> 0]
Due(call) == [Ended EXCEPT !.at = call]
FirstCall(h) == IF h = Starter THEN "run" ELSE IF h \in Responder THEN "respond" ELSE "cancel"
Asleep == [at |-> "idle", due |-> NoRow, owes |-> {}]

Init ==
    /\ row = NoRow
    /\ marker = {}
    /\ pending = {}
    /\ rpckey = FALSE
    /\ asked = <<>>
    /\ sent = {}
    /\ work = [h \in Handler |-> Due(FirstCall(h))]
    /\ leader = CHOOSE r \in Reaper : TRUE
    /\ sweep = [r \in Reaper |-> Asleep]
    /\ overdue = {}
    /\ expired = FALSE
    /\ told = {}
    /\ resumed = [s \in 1 .. Steps |-> 0]
    /\ unsaid = FALSE
    /\ events = 0

Count ==
    /\ events < MaxEvents
    /\ events' = events + 1

\* Handler h goes on to its next call with what it knows in w, or ends.
Goto(h, call, w) == work' = [work EXCEPT ![h] = [w EXCEPT !.at = call]]
End(h) == work' = [work EXCEPT ![h] = Ended]

-----------------------------------------------------------------------------
(* Running the pipeline: execute_pipeline_steps.                           *)

\* The steps after the suspended one run to the end (a result, an error, a
\* timeout) or to the next suspending step.  The timeout is looked at before
\* each step.
Run(h) ==
    /\ work[h].at = "run"
    /\ \/ Goto(h, IF h = Starter THEN "tell" ELSE "delete", work[h])
       \/ /\ ~expired
          /\ work[h].snap.step < Steps
          /\ Goto(h, "save", work[h])
    /\ resumed' = IF h = Starter THEN resumed
                  ELSE [resumed EXCEPT ![work[h].snap.step] = @ + 1]
    /\ UNCHANGED <<store, client, reaping, clock, unsaid, events>>

\* Mutant: the step is not moved on.
SavedStays(snap, n) == [snap EXCEPT !.ver = @ + 1, !.ask = n]

\* Mutant: the caller's id is not taken over.
SavedUnnamed(snap, n) == [snap EXCEPT !.ver = @ + 1, !.step = @ + 1, !.ask = n, !.rpc = FALSE]

\* The row of a suspension: the state the run started from, one step and one
\* version on.
Saved(snap, n) == [snap EXCEPT !.ver = @ + 1, !.step = @ + 1, !.ask = n]

\* save_pipeline and save_pending_server_request.
Save(h) ==
    /\ work[h].at = "save"
    /\ LET n == Len(asked) + 1
           new == Saved(work[h].snap, n)
       IN /\ row' = new
          /\ rpckey' = (rpckey \/ new.rpc)
          /\ pending' = pending \cup {n}
          /\ asked' = Append(asked, new.step)
          /\ Goto(h, IF h = Starter THEN "reload" ELSE "send", [work[h] EXCEPT !.next = n])
    /\ UNCHANGED <<marker, sent, told, reaping, clock, resumed, unsaid, events>>

\* The server request reaches the client, inline or over its stream; the request
\* the response answered is no longer pending.
Send(h) ==
    /\ work[h].at = "send"
    /\ sent' = sent \cup {work[h].next}
    /\ pending' = pending \ {work[h].mine}
    /\ End(h)
    /\ UNCHANGED <<row, marker, rpckey, asked, told, reaping, clock, resumed, unsaid, events>>

-----------------------------------------------------------------------------
(* The starter writes the caller's JSON-RPC id onto the row it saved.      *)

\* load_pipeline: no row, no patch.
PatchLoad ==
    /\ work[Starter].at = "reload"
    /\ IF row = NoRow THEN Goto(Starter, "send", work[Starter])
                      ELSE Goto(Starter, "read", [work[Starter] EXCEPT !.snap = row])
    /\ UNCHANGED <<store, client, reaping, clock, resumed, unsaid, events>>

\* set_original_jsonrpc_id_if_version: read, and check the version.
PatchRead ==
    /\ work[Starter].at = "read"
    /\ IF row = NoRow \/ row.ver # work[Starter].snap.ver
       THEN Goto(Starter, "send", work[Starter])
       ELSE Goto(Starter, "patch", [work[Starter] EXCEPT !.got = row])
    /\ UNCHANGED <<store, client, reaping, clock, resumed, unsaid, events>>

\* set_original_jsonrpc_id_if_version: the two writes.
PatchWrite ==
    /\ work[Starter].at = "patch"
    /\ row' = [work[Starter].got EXCEPT !.rpc = TRUE]
    /\ rpckey' = TRUE
    /\ Goto(Starter, "send", work[Starter])
    /\ UNCHANGED <<marker, pending, client, reaping, clock, resumed, unsaid, events>>

-----------------------------------------------------------------------------
(* Responses: handle_server_request_response, handle_multi_input_resumption *)

\* Responses are alike, and so are cancellations: they arrive in a fixed order.
FirstOf(S, call) == CHOOSE h \in S : work[h].at = call

\* A response to request n arrives, perhaps not the first.  A single answer
\* looks its pending request up; a gathered one names its pipeline itself.
Respond(h, n) ==
    /\ work[h].at = "respond" /\ h = FirstOf(Responder, "respond")
    /\ Count
    /\ n \in sent
    /\ asked[n] \notin Gather => n \in pending
    /\ Goto(h, "load", [Ended EXCEPT !.mine = n])
    /\ UNCHANGED <<store, client, reaping, clock, resumed, unsaid>>

\* load_pipeline.  A gathered answer needs a row suspended at a gather step.
Load(h) ==
    /\ work[h].at = "load"
    /\ IF row = NoRow \/ (asked[work[h].mine] \in Gather /\ row.step \notin Gather)
       THEN End(h)
       ELSE Goto(h, "claim", [work[h] EXCEPT !.snap = row])
    /\ UNCHANGED <<store, client, reaping, clock, resumed, unsaid, events>>

\* delete_pipeline.  A cancellation, which has told the caller before, deletes
\* the pending request too and ends.
Delete(h) ==
    /\ work[h].at = "delete"
    /\ row' = NoRow
    /\ IF h \in Canceller
       THEN End(h) /\ pending' = pending \ {work[h].mine}
       ELSE Goto(h, "tell", work[h]) /\ UNCHANGED pending
    /\ UNCHANGED <<marker, rpckey, client, reaping, clock, resumed, unsaid, events>>

\* The result, or the error, goes to the caller under the id the row had.  The
\* request a response answered is no longer pending.
Tell(h) ==
    /\ work[h].at = "tell"
    /\ told' = told \cup {h = Starter \/ work[h].snap.rpc}
    /\ IF h \in Canceller
       THEN Goto(h, "delete", work[h]) /\ UNCHANGED pending
       ELSE End(h) /\ pending' = pending \ {work[h].mine}
    /\ UNCHANGED <<row, marker, rpckey, asked, sent, reaping, clock, resumed, unsaid, events>>

-----------------------------------------------------------------------------
(* try_claim_pipeline.                                                     *)

\* Read the row: absent or of another version, the claim is lost.
ClaimRead(h) ==
    /\ work[h].at = "claim"
    /\ IF row = NoRow \/ row.ver # work[h].snap.ver
       THEN End(h)
       ELSE Goto(h, "mark", [work[h] EXCEPT !.got = row])
    /\ UNCHANGED <<store, client, reaping, clock, resumed, unsaid, events>>

\* Mutant: the marker is put whether or not it is there.
ClaimMarkBlind(h) ==
    /\ work[h].at = "mark"
    /\ marker' = marker \cup {work[h].snap.ver}
    /\ Goto(h, "bump", work[h])
    /\ UNCHANGED <<row, pending, rpckey, client, reaping, clock, resumed, unsaid, events>>

\* put_if_absent of the marker of this version: the first one wins.
ClaimMark(h) ==
    /\ work[h].at = "mark"
    /\ IF work[h].snap.ver \in marker
       THEN End(h) /\ UNCHANGED marker
       ELSE Goto(h, "bump", work[h]) /\ marker' = marker \cup {work[h].snap.ver}
    /\ UNCHANGED <<row, pending, rpckey, client, reaping, clock, resumed, unsaid, events>>

\* What the winner goes on to: a response runs the steps, a cancellation tells
\* the caller.
ClaimedNext(h) == IF h \in Canceller THEN "tell" ELSE "run"

\* The winner puts the row it read back, one version on and still suspended.
ClaimWrite(h) ==
    /\ work[h].at = "bump"
    /\ row' = [work[h].got EXCEPT !.ver = @ + 1]
    /\ Goto(h, ClaimedNext(h), work[h])
    /\ UNCHANGED <<marker, pending, rpckey, client, reaping, clock, resumed, unsaid, events>>

-----------------------------------------------------------------------------
(* Cancellation: cancel_suspended_pipeline.                                *)

\* find_suspended_by_jsonrpc_id.
Cancel(h) ==
    /\ work[h].at = "cancel" /\ h = FirstOf(Canceller, "cancel")
    /\ Count
    /\ rpckey /\ row # NoRow /\ row.rpc
    /\ Goto(h, "claim", [Ended EXCEPT !.snap = row, !.mine = row.ask])
    /\ UNCHANGED <<store, client, reaping, clock, resumed, unsaid>>

-----------------------------------------------------------------------------
(* The reaper: maintain_leadership, sweep_and_collect_deliveries.          *)

\* A tick of the leader, or of a replica that becomes the leader: the list of
\* pipelines whose elicitation timed out.
ListTimedOut(r) ==
    /\ sweep[r].at = "idle"
    /\ leader \in {r, Nobody}
    /\ leader' = r
    /\ sweep' = [sweep EXCEPT ![r] =
                   IF row.ask \in overdue
                   THEN [at |-> "purge", due |-> row, owes |-> {}]
                   ELSE [Asleep EXCEPT !.at = "expired"]]
    /\ UNCHANGED <<store, client, work, clock, resumed, unsaid, events>>

\* Each of those is deleted, and its caller owed an error.
DeleteTimedOut(r) ==
    /\ sweep[r].at = "purge"
    /\ row' = NoRow
    /\ sweep' = [sweep EXCEPT ![r] =
                   [at |-> "expired", due |-> NoRow, owes |-> {@.due.rpc}]]
    /\ UNCHANGED <<marker, pending, rpckey, client, work, leader, clock, resumed, unsaid, events>>

\* list_expired_pipelines.  With nothing to do the pass ends.
ListExpired(r) ==
    /\ sweep[r].at = "expired"
    /\ sweep' = [sweep EXCEPT ![r] =
                   IF row # NoRow /\ expired THEN [@ EXCEPT !.at = "load"]
                   ELSE IF @.owes # {} THEN [@ EXCEPT !.at = "tell"] ELSE Asleep]
    /\ UNCHANGED <<store, client, work, leader, clock, resumed, unsaid, events>>

\* The row is loaded again for the caller it owes an answer.
LoadExpired(r) ==
    /\ sweep[r].at = "load"
    /\ sweep' = [sweep EXCEPT ![r].at = "delete", ![r].due = row]
    /\ UNCHANGED <<store, client, work, leader, clock, resumed, unsaid, events>>

\* Mutant: the caller is not noted.
OwedNone(due) == {}

\* The callers a pipeline's end is owed to.
Owed(due) == IF due = NoRow THEN {} ELSE {due.rpc}

\* Mutant: the row stays.
DeleteExpiredKeeps(r) ==
    /\ sweep[r].at = "delete"
    /\ sweep' = [sweep EXCEPT ![r] = [at |-> "tell", due |-> NoRow,
                                      owes |-> @.owes \cup Owed(@.due)]]
    /\ UNCHANGED <<store, client, work, leader, clock, resumed, unsaid, events>>

DeleteExpired(r) ==
    /\ sweep[r].at = "delete"
    /\ row' = NoRow
    /\ sweep' = [sweep EXCEPT ![r] = [at |-> "tell", due |-> NoRow,
                                      owes |-> @.owes \cup Owed(@.due)]]
    /\ UNCHANGED <<marker, pending, rpckey, client, work, leader, clock, resumed, unsaid, events>>

\* reap_once_with_delivery: the errors are delivered after all the deletes.
Deliver(r) ==
    /\ sweep[r].at = "tell"
    /\ told' = told \cup sweep[r].owes
    /\ sweep' = [sweep EXCEPT ![r] = Asleep]
    /\ UNCHANGED <<store, asked, sent, work, leader, clock, resumed, unsaid, events>>

\* The lease of a leader that is late with its renewal runs out, perhaps during
\* a pass.
Lapse ==
    /\ leader # Nobody
    /\ Count
    /\ leader' = Nobody
    /\ UNCHANGED <<store, client, work, sweep, clock, resumed, unsaid>>

-----------------------------------------------------------------------------
(* Time, and processes that stop.                                          *)

TimeOut(n) ==
    /\ n \notin overdue
    /\ overdue' = overdue \cup {n}
    /\ UNCHANGED <<store, client, work, reaping, expired, resumed, unsaid, events>>

Expire ==
    /\ ~expired
    /\ expired' = TRUE
    /\ UNCHANGED <<store, client, work, reaping, overdue, resumed, unsaid, events>>

\* A response that deleted the row, or a start that never saved one, has its
\* caller to tell.
OwesAnswer(h) == h \notin Canceller /\ work[h].at = "tell"

\* The process of a handler stops.  A call that stops before it saved a row
\* leaves nothing behind.
Stop(h) ==
    /\ work[h].at \notin {"respond", "cancel", "end"}
    /\ asked # <<>>
    /\ Count
    /\ unsaid' = (unsaid \/ OwesAnswer(h))
    /\ End(h)
    /\ UNCHANGED <<store, client, reaping, clock, resumed>>

\* The process of a reaper stops, and starts again; its lease runs out.
StopReaper(r) ==
    /\ sweep[r] # Asleep
    /\ Count
    /\ unsaid' = (unsaid \/ sweep[r].owes # {})
    /\ sweep' = [sweep EXCEPT ![r] = Asleep]
    /\ leader' = IF leader = r THEN Nobody ELSE leader
    /\ UNCHANGED <<store, client, work, clock, resumed>>

-----------------------------------------------------------------------------
HandlerStep(h) ==
    \/ Run(h) \/ Save(h) \/ Send(h) \/ Load(h) \/ Delete(h) \/ Tell(h)
    \/ ClaimRead(h) \/ ClaimMark(h) \/ ClaimWrite(h)

StarterStep == PatchLoad \/ PatchRead \/ PatchWrite

ReaperStep(r) ==
    \/ ListTimedOut(r) \/ DeleteTimedOut(r) \/ ListExpired(r)
    \/ LoadExpired(r) \/ DeleteExpired(r) \/ Deliver(r)

Next ==
    \/ \E h \in Handler : HandlerStep(h) \/ Stop(h)
    \/ StarterStep
    \/ \E h \in Responder, n \in Ask : Respond(h, n)
    \/ \E h \in Canceller : Cancel(h)
    \/ \E r \in Reaper : ReaperStep(r) \/ StopReaper(r)
    \/ Lapse
    \/ \E n \in Ask : TimeOut(n)
    \/ Expire

\* Handlers run on unless they stop, the pipeline timeout passes, and the reaper
\* that leads ticks.
Fairness ==
    /\ \A h \in Handler : WF_vars(HandlerStep(h))
    /\ WF_vars(StarterStep)
    /\ \A r \in Reaper : WF_vars(ReaperStep(r))
    /\ WF_vars(Expire)

Spec == Init /\ [][Next]_vars /\ Fairness

-----------------------------------------------------------------------------
(* Properties.                                                             *)

Row == [ver : Nat, step : 0 .. Steps, ask : Nat, rpc : BOOLEAN]

Call == {"run", "save", "reload", "read", "patch", "send", "respond", "load", "claim",
         "mark", "bump", "delete", "tell", "cancel", "end"}

TypeOK ==
    /\ row \in Row
    /\ marker \subseteq Nat
    /\ pending \subseteq Ask /\ sent \subseteq Ask /\ overdue \subseteq Ask
    /\ rpckey \in BOOLEAN /\ expired \in BOOLEAN /\ unsaid \in BOOLEAN
    /\ asked \in Seq(1 .. Steps)
    /\ work \in [Handler -> [at : Call, snap : Row, got : Row, mine : Nat, next : Nat]]
    /\ leader \in Reaper \cup {Nobody}
    /\ sweep \in [Reaper -> [at : {"idle", "purge", "expired", "load", "delete", "tell"},
                             due : Row, owes : SUBSET BOOLEAN]]
    /\ told \subseteq BOOLEAN
    /\ resumed \in [1 .. Steps -> Nat]
    /\ events \in 0 .. MaxEvents

\* A response or cancellation that is past its claim.
Claimed(h) == work[h].at \in {"bump", "run", "save", "send", "delete", "tell"}

\* Of the responses and cancellations that loaded the pipeline at one version,
\* on whatever replicas, at most one gets to act on it (try_claim_pipeline).
OneWinnerPerVersion ==
    \A a, b \in Responder \cup Canceller :
        (Claimed(a) /\ Claimed(b) /\ a # b) => work[a].snap.ver # work[b].snap.ver

\* A pipeline that was suspended and has no row left has answered its caller,
\* or somebody is about to: whoever deletes the row answers, whatever the order
\* of responses, cancellations and reapers that list it, load it and delete it
\* in separate calls.  Only a process that stops between its delete and its
\* answer breaks it.
NoSilentEnd ==
    (asked # <<>> /\ row = NoRow) =>
        \/ told # {} \/ unsaid
        \/ \E h \in Handler : OwesAnswer(h)
        \/ \E r \in Reaper : sweep[r].owes # {}

\* A timeout passed before the caller's id was on the row.
TimedOutUnnamed == asked # <<>> /\ ~rpckey /\ (expired \/ overdue # {})

\* Every call is answered in the end, under its own id (pipeline_reaper.rs 14-19,
\* "original caller"): by its result, by a cancellation, or by the reaper's
\* timeout error when handlers stop part-way or lose their claims.  Two cases are
\* left out, in which the code does not do so: a process that stops between its
\* delete and its answer, and a row that times out before the starter has
\* patched the id into it, whose error goes out under the null id.
CallerAnswered == <>(TRUE \in told \/ unsaid \/ TimedOutUnnamed)

\* The row does not outlive its pipeline: late writes of a claim, a patch or a
\* suspension may put it back after it was deleted, and the reaper removes it
\* again.
RowEnds == <>[](row = NoRow)

\* The steps after a suspension run once (try_claim_pipeline: "so the resumed
\* steps execute once").
ResumedOnce ==
    \A s \in 1 .. Steps : resumed[s] <= 1
=============================================================================
