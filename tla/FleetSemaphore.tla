--------------------------- MODULE FleetSemaphore ---------------------------
(***************************************************************************)
(* The fleet-wide concurrency cap of runtime/fleet_semaphore.rs: Max slot  *)
(* keys of one (scope, max) in the shared key-value store, taken with      *)
(* put_if_absent, refreshed by each replica that holds them, deleted when  *)
(* the permit is dropped.                                                  *)
(*                                                                         *)
(* Abstractions.  A slot key is a member of Slot and its entry is the time *)
(* it has left: the holder id stored in it is never read.  The index take  *)
(* starts at comes from a counter shared by every scope, so any index may  *)
(* be the first.  The mark that the fleet was found full ends at an        *)
(* arbitrary time after it was set.  try_acquire and acquire_within differ *)
(* only in whether a caller that found no slot waits or gives up.          *)
(*                                                                         *)
(* Two variables are histories.  `bare' names the callers whose entry, or  *)
(* whose key at the refresher, is gone while they count on it: the entry   *)
(* ended before it was refreshed, or the release of another permit took    *)
(* it.  `causes' is how that began: "late", an entry ended under a permit, *)
(* or "again", a delete was applied, reported as failed and tried again.   *)
(***************************************************************************)
EXTENDS Naturals, FiniteSets

CONSTANTS
    Replica,    \* processes that share the store
    Caller,     \* tasks that acquire a permit
    HomeOf,     \* the replica each caller runs on
    Max,        \* the cap
    SlotTtl,    \* lifetime of a slot entry, in ticks
    Gens,       \* bound on the generations of local semaphores, 0 the first
    Pruning,    \* replicas that get to prune them
    Attempts,   \* attempts of a release to delete its entry, 3 in the code
    KvFaults    \* a call of the store may fail

ASSUME FleetAssumption ==
    /\ HomeOf \in [Caller -> Replica]
    /\ Max \in Nat \ {0}
    /\ SlotTtl \in Nat \ {0}
    /\ Gens \in Nat
    /\ Pruning \subseteq Replica
    /\ Attempts \in Nat \ {0}
    /\ KvFaults \in BOOLEAN

\* Mutant: one slot too many.
SlotsInclusive == 0 .. Max

\* Slot keys, by index.
Slot == 0 .. Max - 1

\* Time an entry has left, and generations of local semaphores.
Life == 0 .. SlotTtl
Gen == 0 .. Gens

VARIABLES
    left,     \* time each slot entry has left; 0: no entry
    pc,       \* where each caller is
    slot,     \* the slot a caller tries, took or holds
    scanned,  \* slots a caller has tried in this scan
    sem,      \* the local semaphore a caller holds a handle of
    gen,      \* the local semaphore `slots' maps the scope to, per replica
    avail,    \* free local slots of every local semaphore
    held,     \* keys each replica refreshes
    full,     \* replicas that marked the fleet as full
    pass,     \* keys left in the running refresh pass of each replica
    gone,     \* keys that pass found gone and is about to write again
    tries,    \* failed attempts of a spawned task to delete its entry
    bare,     \* callers whose entry or key is gone while they count on it
    causes    \* how that began

hist == <<bare, causes>>
vars == <<left, pc, slot, scanned, sem, gen, avail, held, full, pass, gone,
          tries, hist>>

\* Callers with an entry of their own in the store (one that is "again" deleting
\* its entry deleted it before), and those whose permit is in use.
Owners == {c \in Caller : pc[c] \in {"took", "holding", "freeing"}}

Permits == {c \in Caller : pc[c] = "holding"}

Init ==
    /\ left = [s \in Slot |-> 0]
    /\ pc = [c \in Caller |-> "idle"]
    /\ slot = [c \in Caller |-> 0]
    /\ scanned = [c \in Caller |-> {}]
    /\ sem = [c \in Caller |-> 0]
    /\ gen = [r \in Replica |-> 0]
    /\ avail = [r \in Replica |-> [g \in Gen |-> Max]]
    /\ held = [r \in Replica |-> {}]
    /\ full = {}
    /\ pass = [r \in Replica |-> {}]
    /\ gone = [r \in Replica |-> {}]
    /\ tries = [c \in Caller |-> 0]
    /\ bare = {} /\ causes = {}

-----------------------------------------------------------------------------
(* Acquiring.                                                              *)

Goto(c, place) == pc' = [pc EXCEPT ![c] = place]

\* The acquire ends without a permit, or the permit is gone.
Leave(c) ==
    /\ Goto(c, "idle")
    /\ slot' = [slot EXCEPT ![c] = 0]
    /\ scanned' = [scanned EXCEPT ![c] = {}]
    /\ sem' = [sem EXCEPT ![c] = 0]
    /\ tries' = [tries EXCEPT ![c] = 0]

\* slots_of: the handle of the scope's local semaphore.
Enter(c) ==
    /\ pc[c] = "idle"
    /\ Goto(c, "local")
    /\ sem' = [sem EXCEPT ![c] = gen[HomeOf[c]]]
    /\ UNCHANGED <<left, slot, scanned, gen, avail, held, full, pass, gone,
                   tries, hist>>

TakeLocal(c) == avail' = [avail EXCEPT ![HomeOf[c]][sem[c]] = @ - 1]

DropLocal(c) == avail' = [avail EXCEPT ![HomeOf[c]][sem[c]] = @ + 1]

\* The local slot: none free ends try_acquire, and acquire_within at its
\* timeout; a recent full mark ends try_acquire and makes acquire_within wait.
AcquireLocal(c) ==
    /\ pc[c] = "local"
    /\ \/ Leave(c) /\ UNCHANGED avail
       \/ /\ avail[HomeOf[c]][sem[c]] > 0
          /\ TakeLocal(c)
          /\ IF HomeOf[c] \in full THEN Goto(c, "wait") ELSE Goto(c, "take")
          /\ UNCHANGED <<slot, scanned, sem, tries>>
    /\ UNCHANGED <<left, gen, held, full, pass, gone, hist>>

\* Mutant: a plain put takes the slot, whatever is in it.
TakeBlind(c, s) ==
    /\ pc[c] = "take"
    /\ left' = [left EXCEPT ![s] = SlotTtl]
    /\ slot' = [slot EXCEPT ![c] = s]
    /\ Goto(c, "took")
    /\ scanned' = [scanned EXCEPT ![c] = {}]
    /\ UNCHANGED <<sem, avail, gen, held, full, pass, gone, tries, hist>>

\* take: put_if_absent of the next slot.  A failed call ends the acquire, and
\* may have been applied.
Take(c, s) ==
    /\ pc[c] = "take"
    /\ s \notin scanned[c]
    /\ scanned[c] # {} => \E t \in scanned[c] : s = (t + 1) % Max
    /\ \/ /\ left[s] = 0
          /\ left' = [left EXCEPT ![s] = SlotTtl]
          /\ slot' = [slot EXCEPT ![c] = s]
          /\ Goto(c, "took")
          /\ scanned' = [scanned EXCEPT ![c] = {}]
          /\ UNCHANGED <<sem, avail, tries>>
       \/ /\ left[s] > 0
          /\ scanned' = [scanned EXCEPT ![c] = @ \cup {s}]
          /\ UNCHANGED <<left, slot, sem, pc, avail, tries>>
       \/ /\ KvFaults
          /\ \/ UNCHANGED left
             \/ left[s] = 0 /\ left' = [left EXCEPT ![s] = SlotTtl]
          /\ Leave(c)
          /\ DropLocal(c)
    /\ UNCHANGED <<gen, held, full, pass, gone, hist>>

\* Mutant: the key is not handed to the refresher.
HoldUnkept(c) ==
    /\ pc[c] = "took"
    /\ Goto(c, "holding")
    /\ UNCHANGED <<left, slot, scanned, sem, gen, avail, held, full, pass, gone,
                   tries, hist>>

\* The answer of the put is back: the permit is handed out.
Hold(c) ==
    /\ pc[c] = "took"
    /\ Goto(c, "holding")
    /\ held' = [held EXCEPT ![HomeOf[c]] = @ \cup {slot[c]}]
    /\ UNCHANGED <<left, slot, scanned, sem, gen, avail, full, pass, gone,
                   tries, hist>>

\* Every slot was taken: the mark is set; try_acquire gives up, acquire_within
\* waits until its deadline.
FoundFull(c) ==
    /\ pc[c] = "take"
    /\ scanned[c] = Slot
    /\ full' = full \cup {HomeOf[c]}
    /\ \/ Leave(c) /\ DropLocal(c)
       \/ /\ Goto(c, "wait")
          /\ scanned' = [scanned EXCEPT ![c] = {}]
          /\ UNCHANGED <<slot, sem, avail, tries>>
    /\ UNCHANGED <<left, gen, held, pass, gone, hist>>

\* A waiter is woken, or its back-off ends, and tries again unless the mark is
\* still there; at the deadline it gives up.
Wake(c) ==
    /\ pc[c] = "wait"
    /\ \/ /\ HomeOf[c] \notin full
          /\ Goto(c, "take")
          /\ UNCHANGED <<slot, scanned, sem, avail, tries>>
       \/ Leave(c) /\ DropLocal(c)
    /\ UNCHANGED <<left, gen, held, full, pass, gone, hist>>

\* Mutant: the local slot is not given back.
AbandonLeaks(c) ==
    /\ pc[c] \in {"local", "take", "took", "wait"}
    /\ Leave(c)
    /\ bare' = bare \ {c}
    /\ UNCHANGED <<left, gen, avail, held, full, pass, gone, causes>>

\* The caller's future is dropped before it has a permit: a slot already taken
\* in the store stays there until it ends.
Abandon(c) ==
    /\ pc[c] \in {"local", "take", "took", "wait"}
    /\ Leave(c)
    /\ IF pc[c] = "local" THEN UNCHANGED avail ELSE DropLocal(c)
    /\ bare' = bare \ {c}
    /\ UNCHANGED <<left, gen, held, full, pass, gone, causes>>

-----------------------------------------------------------------------------
(* Releasing.                                                              *)

\* Mutant: the key stays with the refresher.
ReleaseKeepsKey(c) ==
    /\ pc[c] = "holding"
    /\ Goto(c, "freeing")
    /\ UNCHANGED <<left, slot, scanned, sem, gen, avail, held, full, pass, gone,
                   tries, hist>>

\* The other callers that stand on the slot of c.
Others(c) == {d \in Owners \ {c} : slot[d] = slot[c]}

\* Drop of the permit: its key is no longer refreshed, and its slot is freed
\* by a spawned task.
Release(c) ==
    /\ pc[c] = "holding"
    /\ Goto(c, "freeing")
    /\ held' = [held EXCEPT ![HomeOf[c]] = @ \ {slot[c]}]
    /\ bare' = bare \cup {d \in Others(c) : HomeOf[d] = HomeOf[c]}
    /\ UNCHANGED <<left, slot, scanned, sem, gen, avail, full, pass, gone,
                   tries, causes>>

\* Mutant: one attempt too many.
LastTryLate(c) == tries[c] = Attempts

LastTry(c) == tries[c] + 1 = Attempts

\* delete: the entry goes, whoever wrote it.
Delete(c) ==
    /\ left' = [left EXCEPT ![slot[c]] = 0]
    /\ bare' = (bare \cup Others(c)) \ {c}

\* The spawned task has deleted the entry or given up: it clears the mark and
\* gives the local slot back.
Freed(c) ==
    /\ Leave(c)
    /\ full' = full \ {HomeOf[c]}
    /\ DropLocal(c)

\* An attempt answered with success.
Free(c) ==
    /\ pc[c] \in {"freeing", "again"}
    /\ Delete(c)
    /\ Freed(c)
    /\ UNCHANGED <<gen, held, pass, gone, causes>>

\* A failed attempt, which may have been applied: the task sleeps and deletes
\* again, or gives up after the last.
FreeFails(c) ==
    /\ KvFaults
    /\ pc[c] \in {"freeing", "again"}
    /\ \/ /\ LastTry(c)
          /\ Freed(c)
          /\ \/ Delete(c)
             \/ UNCHANGED left /\ bare' = bare \ {c}
          /\ UNCHANGED causes
       \/ /\ ~LastTry(c)
          /\ tries' = [tries EXCEPT ![c] = @ + 1]
          /\ \/ Delete(c) /\ Goto(c, "again") /\ causes' = causes \cup {"again"}
             \/ UNCHANGED <<left, pc, hist>>
          /\ UNCHANGED <<slot, scanned, sem, avail, full>>
    /\ UNCHANGED <<gen, held, pass, gone>>

-----------------------------------------------------------------------------
(* The refresher of each replica.                                          *)

\* prune: the local semaphore of a scope that holds no permit is dropped; the
\* next acquire makes a new one, while a caller may still hold a handle of the
\* old one.
Prunable(r) == r \in Pruning /\ avail[r][gen[r]] = Max /\ gen[r] < Gens

\* A pass prunes, then goes over the keys held when it starts.
StartPass(r) ==
    /\ pass[r] = {} /\ gone[r] = {}
    /\ held[r] = {} => Prunable(r)
    /\ gen' = IF Prunable(r) THEN [gen EXCEPT ![r] = @ + 1] ELSE gen
    /\ pass' = [pass EXCEPT ![r] = held[r]]
    /\ UNCHANGED <<left, pc, slot, scanned, sem, avail, held, full, gone,
                   tries, hist>>

\* expire: a live entry lives on, whoever wrote it; a failed call is left to
\* the next pass.
Extend(r, s) ==
    /\ s \in pass[r] /\ gone[r] = {}
    /\ pass' = [pass EXCEPT ![r] = @ \ {s}]
    /\ \/ left[s] > 0 /\ left' = [left EXCEPT ![s] = SlotTtl] /\ UNCHANGED gone
       \/ left[s] = 0 /\ gone' = [gone EXCEPT ![r] = {s}] /\ UNCHANGED left
       \/ KvFaults /\ UNCHANGED <<left, gone>>
    /\ UNCHANGED <<pc, slot, scanned, sem, gen, avail, held, full, tries, hist>>

\* put_if_absent of an entry found gone: the permit has a slot again, unless
\* another holder took it.
Retake(r, s) ==
    /\ s \in gone[r]
    /\ gone' = [gone EXCEPT ![r] = {}]
    /\ \/ left[s] = 0 /\ left' = [left EXCEPT ![s] = SlotTtl]
       \/ (left[s] > 0 \/ KvFaults) /\ UNCHANGED left
    /\ UNCHANGED <<pc, slot, scanned, sem, gen, avail, held, full, pass, tries, hist>>

\* FULL_HOLD has passed since the mark was set.
FullEnds(r) ==
    /\ r \in full
    /\ full' = full \ {r}
    /\ UNCHANGED <<left, pc, slot, scanned, sem, gen, avail, held, pass, gone,
                   tries, hist>>

-----------------------------------------------------------------------------

\* The replica stops and starts again: its permits and its refresher are gone,
\* its entries stay in the store until they end.
Restart(r) ==
    /\ pc' = [c \in Caller |-> IF HomeOf[c] = r THEN "idle" ELSE pc[c]]
    /\ slot' = [c \in Caller |-> IF HomeOf[c] = r THEN 0 ELSE slot[c]]
    /\ scanned' = [c \in Caller |-> IF HomeOf[c] = r THEN {} ELSE scanned[c]]
    /\ sem' = [c \in Caller |-> IF HomeOf[c] = r THEN 0 ELSE sem[c]]
    /\ gen' = [gen EXCEPT ![r] = 0]
    /\ avail' = [avail EXCEPT ![r] = [g \in Gen |-> Max]]
    /\ held' = [held EXCEPT ![r] = {}]
    /\ full' = full \ {r}
    /\ pass' = [pass EXCEPT ![r] = {}]
    /\ gone' = [gone EXCEPT ![r] = {}]
    /\ tries' = [c \in Caller |-> IF HomeOf[c] = r THEN 0 ELSE tries[c]]
    /\ bare' = {c \in bare : HomeOf[c] # r}
    /\ UNCHANGED <<left, causes>>

\* Time passes for every entry.
Tick ==
    /\ \E s \in Slot : left[s] > 0
    /\ left' = [s \in Slot |-> IF left[s] > 0 THEN left[s] - 1 ELSE 0]
    /\ LET lapsing == {c \in Owners \ bare : left[slot[c]] = 1}
       IN  /\ bare' = bare \cup lapsing
           /\ causes' = IF lapsing = {} THEN causes ELSE causes \cup {"late"}
    /\ UNCHANGED <<pc, slot, scanned, sem, gen, avail, held, full, pass, gone,
                   tries>>

CallerStep(c) ==
    \/ Enter(c) \/ AcquireLocal(c) \/ (\E s \in Slot : Take(c, s)) \/ Hold(c)
    \/ FoundFull(c) \/ Wake(c) \/ Abandon(c) \/ Release(c)
    \/ Free(c) \/ FreeFails(c)

\* The refresher's loop.
Refresher(r) ==
    \/ StartPass(r)
    \/ \E s \in Slot : Extend(r, s) \/ Retake(r, s)

ReplicaStep(r) == Refresher(r) \/ FullEnds(r) \/ Restart(r)

Next ==
    \/ Tick
    \/ \E c \in Caller : CallerStep(c)
    \/ \E r \in Replica : ReplicaStep(r)

Spec == Init /\ [][Next]_vars

\* Time passes, answers of the store come back, spawned releases run, and the
\* refresher runs its passes.
Fairness ==
    /\ WF_vars(Tick)
    /\ \A c \in Caller : WF_vars(Hold(c) \/ Free(c) \/ FreeFails(c))
    /\ \A r \in Replica : WF_vars(Refresher(r))

FairSpec == Spec /\ Fairness

-----------------------------------------------------------------------------
(* Properties.                                                             *)

Place == {"idle", "local", "take", "took", "wait", "holding", "freeing", "again"}

\* Every variable stays within its range.
TypeOK ==
    /\ left \in [Slot -> Life]
    /\ pc \in [Caller -> Place]
    /\ slot \in [Caller -> Slot]
    /\ scanned \in [Caller -> SUBSET Slot]
    /\ sem \in [Caller -> Gen]
    /\ gen \in [Replica -> Gen]
    /\ avail \in [Replica -> [Gen -> Nat]]
    /\ held \in [Replica -> SUBSET Slot]
    /\ full \subseteq Replica
    /\ pass \in [Replica -> SUBSET Slot]
    /\ gone \in [Replica -> SUBSET Slot]
    /\ tries \in [Caller -> 0 .. Attempts - 1]
    /\ bare \subseteq Caller
    /\ causes \subseteq {"late", "again"}

\* Two callers stand on one slot only when the entry or the key of one of them
\* is gone, and that begins with an entry that ended before its refresh, or with
\* a delete that was applied, reported as failed and tried again: no other
\* release, refresh pass, abandoned acquire, prune or restart makes two callers
\* believe they own the same entry.
SlotExclusive ==
    /\ \A c, d \in Owners : slot[c] = slot[d] /\ c # d => {c, d} \cap bare # {}
    /\ bare # {} => causes # {}

\* The permits that have their entry are never more than Max: late refreshes and
\* repeated deletes put the fleet over its cap by no more than the permits they
\* hit, whatever local semaphores a prune left behind.
NeverOverCap == Cardinality(Permits \ bare) <= Max

\* What the documentation of the module says of the cap: unless an entry ends
\* before its refresh, the fleet never holds more than Max permits.
CapKept == "late" \notin causes => Cardinality(Permits) <= Max

\* A permit in use that none of these hit has its entry in the store and its key
\* in the refresher's set: releasing another permit, or a pass that outlives a
\* release, takes neither away.
PermitBacked ==
    \A c \in Permits \ bare : left[slot[c]] > 0 /\ slot[c] \in held[HomeOf[c]]

\* Each local semaphore counts the callers inside it.
LocalCount ==
    \A r \in Replica : \A g \in Gen :
        avail[r][g] + Cardinality({c \in Caller :
            HomeOf[c] = r /\ sem[c] = g /\ pc[c] \notin {"idle", "local"}}) = Max

\* An entry no permit stands on (left by a restart, an abandoned acquire, a
\* failed delete, or a refresh pass that rewrote a released slot) ends.
OrphanEnds ==
    \A s \in Slot :
        (left[s] > 0 /\ \A c \in Owners : slot[c] # s)
            ~> (left[s] = 0 \/ \E c \in Owners : slot[c] = s)

\* The inductive invariant: the owners that are not bare have live entries, one
\* each, and the keys of their permits are refreshed; before the first cause
\* nobody is bare and no delete is tried again.
Exclusion ==
    /\ bare \subseteq Owners
    /\ \A c \in Owners \ bare : left[slot[c]] > 0
    /\ \A c, d \in Owners \ bare : slot[c] = slot[d] => c = d
    /\ \A c \in Permits \ bare : slot[c] \in held[HomeOf[c]]
    /\ causes = {} => bare = {} /\ \A c \in Caller : pc[c] # "again"

=============================================================================
